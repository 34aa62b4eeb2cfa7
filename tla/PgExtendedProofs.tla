-------------------------- MODULE PgExtendedProofs --------------------------
(***************************************************************************)
(* PgExtended: its types, and that a client is never sent rows it would    *)
(* misread, twice described or behind an error, for any number of names,   *)
(* portals and column types.                                               *)
(***************************************************************************)
EXTENDS PgExtended, TLAPS

-----------------------------------------------------------------------------
(* The inductive invariant                                                 *)

\* What the session keeps of a statement's RowDescription is what the client
\* last got of it.
DescribedInv ==
    \A o \in Objects : /\ object[o].sent <=> told[o] # NoType
                       /\ object[o].oids = told[o]

\* Without a description for it, the client has nothing to read the portal's
\* rows by; with one that is not stale, it reads them as they are.
Fits(portal, by) ==
    portal.statement # NoObject =>
        /\ ~portal.described => by = NoCols
        /\ portal.described /\ ~portal.stale /\ portal.reply.kind = "rows" =>
              by = portal.reply.cols

PortalInv == \A p \in Portals : Fits(portals[p], reads[p])

AnswerInv == RowsFitDescription /\ DescribedOnce /\ NoRowsAfterError

Inv == TypeOK /\ DescribedInv /\ PortalInv /\ (failed => skip) /\ AnswerInv

-----------------------------------------------------------------------------
(* Records                                                                 *)

LEMMA AnyReply ==
    ASSUME NEW reply \in Replies
    PROVE  /\ reply # NoReply
           /\ reply.kind = "rows" => reply.cols \in Cols /\ reply.cols.type \in Types
  <1>1. reply \in [kind : {"error", "done", "rows"}, cols : Cols \cup {NoCols}]
    BY DEF Replies
  <1>2. reply # NoReply
    BY <1>1, PgExtendedAssumption
  <1>3. reply.kind = "rows" => reply.cols \in Cols
    BY DEF Replies
  <1> QED BY <1>2, <1>3 DEF Cols

LEMMA AnyCols == \A cols \in Cols : cols # NoCols
  BY PgExtendedAssumption

LEMMA BoundPortal ==
    ASSUME TypeOK, NEW p \in Portals, portals[p].statement # NoObject
    PROVE  portals[p] \in BoundPortals
  BY DEF TypeOK, Unbound

LEMMA NothingSent ==
    NoAnswer \in [rows : Cols \cup {NoCols}, described : BOOLEAN,
                  by : Cols \cup {NoCols}, afterError : BOOLEAN]
  BY DEF NoAnswer

LEMMA UnsetStatement ==
    ASSUME NEW preexec \in Replies \cup {NoReply}
    PROVE  [Unset EXCEPT !.preexec = preexec] \in Statements
  BY DEF Unset, Statements

\* A message that is answered without rows, by an error or not.
WithoutRows == skip' \in BOOLEAN /\ failed' = skip' /\ answer' = NoAnswer

LEMMA NoRowsSent ==
    ASSUME WithoutRows
    PROVE  /\ skip' \in BOOLEAN /\ failed' \in BOOLEAN /\ (failed' => skip')
           /\ answer' \in [rows : Cols \cup {NoCols}, described : BOOLEAN,
                           by : Cols \cup {NoCols}, afterError : BOOLEAN]
           /\ AnswerInv'
  <1>1. AnswerInv'
    BY DEF WithoutRows, AnswerInv, RowsFitDescription, DescribedOnce, NoRowsAfterError, NoAnswer
  <1> QED BY <1>1, NothingSent DEF WithoutRows

-----------------------------------------------------------------------------
(* Each message keeps the invariant                                        *)

LEMMA ParseStep == ASSUME Inv, NEW n \in Names, Parse(n) PROVE Inv'
  <1>1. PICK o \in Unused(n), preexec \in Answers({"text"}) \cup {NoReply} :
           /\ statements' = [statements EXCEPT ![n] = o]
           /\ object' = [object EXCEPT ![o] = [Unset EXCEPT !.preexec = preexec]]
           /\ told' = [told EXCEPT ![o] = NoType]
    BY DEF Parse
  <1>2. o \in Objects /\ preexec \in Replies \cup {NoReply}
    BY DEF Unused, Answers
  <1>3. WithoutRows /\ UNCHANGED <<portals, reads>>
    BY DEF Parse, Reply, WithoutRows, Inv
  <1>4. TypeOK'
    BY <1>1, <1>2, <1>3, NoRowsSent, UnsetStatement DEF Inv, TypeOK
  <1>5. DescribedInv'
    <2> SUFFICES ASSUME NEW x \in Objects
                 PROVE  /\ object'[x].sent <=> told'[x] # NoType
                        /\ object'[x].oids = told'[x]
      BY DEF DescribedInv
    <2>1. CASE x = o
      BY <1>1, <1>2, <2>1 DEF Inv, TypeOK, Unset
    <2>2. CASE x # o
      BY <1>1, <1>2, <2>2 DEF Inv, TypeOK, DescribedInv
    <2> QED BY <2>1, <2>2
  <1>6. PortalInv'
    BY <1>3 DEF Inv, PortalInv
  <1> QED BY <1>3, <1>4, <1>5, <1>6, NoRowsSent DEF Inv

LEMMA BindStep ==
    ASSUME Inv, NEW n \in Names, NEW p \in Portals, Bind(n, p) PROVE Inv'
  <1> DEFINE o == statements[n]
  <1>1. o \in Objects /\ object[o] \in Statements
    BY DEF Inv, TypeOK, Bind
  <1>2. PICK format \in Formats :
          \E reply \in IF object[o].preexec # NoReply /\ format = "text"
                       THEN {object[o].preexec} ELSE Answers({"text", format}) :
             /\ portals' = [portals EXCEPT ![p] = Bound(object[o], o, reply, format)]
             /\ reads' = [reads EXCEPT ![p] = HeldOf(o, format)]
    BY DEF Bind
  <1>3. PICK reply \in Replies :
             /\ portals' = [portals EXCEPT ![p] = Bound(object[o], o, reply, format)]
             /\ reads' = [reads EXCEPT ![p] = HeldOf(o, format)]
    <2>1. object[o].preexec # NoReply => object[o].preexec \in Replies
      BY <1>1 DEF Statements
    <2> QED BY <1>2, <2>1 DEF Answers
  <1>4. WithoutRows /\ UNCHANGED <<statements, object, told>>
    BY DEF Bind, Reply, WithoutRows, Inv
  <1>5. object[o].sent \in BOOLEAN /\ (object[o].sent <=> told[o] # NoType)
        /\ object[o].oids = told[o] /\ told[o] \in Types \cup {NoType}
    BY <1>1 DEF Inv, TypeOK, DescribedInv, Statements
  <1> DEFINE changed == ResultTypeChanged(object[o], reply, format)
             new == Bound(object[o], o, reply, format)
  <1>6. changed \in BOOLEAN
    BY DEF ResultTypeChanged
  <1>7. new \in BoundPortals
    BY <1>1, <1>3, <1>5, <1>6 DEF Bound, BoundPortals
  <1>8. HeldOf(o, format) \in Cols \cup {NoCols}
    BY <1>2, <1>5 DEF HeldOf, Cols
  <1>9. TypeOK'
    BY <1>3, <1>4, <1>7, <1>8, NoRowsSent DEF Inv, TypeOK
  <1>10. DescribedInv'
    BY <1>4 DEF Inv, DescribedInv
  <1>11. Fits(new, HeldOf(o, format))
    <2>1. ~new.described => HeldOf(o, format) = NoCols
      BY <1>5 DEF Bound, HeldOf
    <2>2. ASSUME new.described, ~new.stale, reply.kind = "rows"
          PROVE  HeldOf(o, format) = reply.cols
      <3>1. object[o].sent /\ ~changed
        BY <2>2 DEF Bound
      <3> QED BY <1>5, <2>2, <3>1 DEF ResultTypeChanged, HeldOf
    <2>3. new.reply = reply
      BY DEF Bound
    <2> QED BY <2>1, <2>2, <2>3 DEF Fits
  <1>12. PortalInv'
    <2> SUFFICES ASSUME NEW q \in Portals PROVE Fits(portals'[q], reads'[q])
      BY DEF PortalInv
    <2>1. CASE q = p
      BY <1>3, <1>11, <2>1 DEF Inv, TypeOK
    <2>2. CASE q # p
      BY <1>3, <2>2 DEF Inv, TypeOK, PortalInv
    <2> QED BY <2>1, <2>2
  <1> QED BY <1>4, <1>9, <1>10, <1>12, NoRowsSent DEF Inv

LEMMA DescribeStatementStep ==
    ASSUME Inv, NEW n \in Names, DescribeStatement(n) PROVE Inv'
  <1> DEFINE o == statements[n]
             kept(reply) == IF object[o].preexec = NoReply
                            THEN [object[o] EXCEPT !.shape = reply] ELSE object[o]
  <1>1. o \in Objects /\ object[o] \in Statements
    BY DEF Inv, TypeOK, DescribeStatement
  <1>2. PICK reply \in Shapes(object[o]) :
       \/ /\ ReplyKind(reply) = "rows"
          /\ object' = [object EXCEPT ![o] = Marked(kept(reply), reply.cols.type)]
          /\ told' = [told EXCEPT ![o] = reply.cols.type]
          /\ Reply("rows", FALSE, NoAnswer)
       \/ /\ ReplyKind(reply) # "rows"
          /\ object' = [object EXCEPT ![o] = kept(reply)]
          /\ Reply(ReplyKind(reply), FALSE, NoAnswer)
          /\ UNCHANGED told
    BY DEF DescribeStatement
  <1>3. ~failed /\ UNCHANGED <<statements, portals, reads>>
    BY DEF DescribeStatement, Inv
  <1>4. reply \in Replies \cup {NoReply}
    BY <1>1 DEF Shapes, Statements, Answers
  <1>5. kept(reply) \in Statements /\ kept(reply).sent = object[o].sent
        /\ kept(reply).oids = object[o].oids
    BY <1>1, <1>4 DEF Statements
  <1>6. PortalInv'
    BY <1>3 DEF Inv, PortalInv
  <1>7. CASE ReplyKind(reply) = "rows"
    <2>1. reply.cols.type \in Types
      BY <1>4, <1>7, AnyReply DEF ReplyKind
    <2> DEFINE new == Marked(kept(reply), reply.cols.type)
    <2>2. new \in Statements /\ new.sent /\ new.oids = reply.cols.type
      BY <1>5, <2>1 DEF Marked, Statements
    <2> HIDE DEF new, kept
    <2>3. /\ object' = [object EXCEPT ![o] = new]
          /\ told' = [told EXCEPT ![o] = reply.cols.type]
          /\ WithoutRows
      BY <1>2, <1>3, <1>7 DEF new, Reply, WithoutRows
    <2>4. TypeOK'
      BY <1>1, <1>3, <2>1, <2>2, <2>3, NoRowsSent DEF Inv, TypeOK
    <2>5. DescribedInv'
      <3>1. reply.cols.type # NoType
        BY <2>1, PgExtendedAssumption
      <3> QED BY <1>1, <2>2, <2>3, <3>1 DEF Inv, TypeOK, DescribedInv
    <2> QED BY <1>3, <1>6, <2>3, <2>4, <2>5, NoRowsSent DEF Inv
  <1>8. CASE ReplyKind(reply) # "rows"
    <2> HIDE DEF kept
    <2>1. /\ object' = [object EXCEPT ![o] = kept(reply)]
          /\ WithoutRows
          /\ told' = told
      BY <1>2, <1>3, <1>8 DEF Reply, WithoutRows
    <2>2. TypeOK'
      BY <1>1, <1>3, <1>5, <2>1, NoRowsSent DEF Inv, TypeOK
    <2>3. DescribedInv'
      BY <1>1, <1>5, <2>1 DEF Inv, TypeOK, DescribedInv
    <2> QED BY <1>3, <1>6, <2>1, <2>2, <2>3, NoRowsSent DEF Inv
  <1> QED BY <1>7, <1>8

LEMMA DescribePortalStep ==
    ASSUME Inv, NEW p \in Portals, DescribePortal(p) PROVE Inv'
  <1> DEFINE o == portals[p].statement
             reply == portals[p].reply
             new == [portals[p] EXCEPT !.described = TRUE, !.stale = FALSE]
  <1>1. portals[p] \in BoundPortals
    BY BoundPortal DEF Inv, DescribePortal
  <1>2. o \in Objects /\ reply \in Replies /\ object[o] \in Statements
    BY <1>1 DEF Inv, TypeOK, BoundPortals
  <1>3. new \in BoundPortals /\ new.described /\ new.reply = reply /\ new.statement = o
    BY <1>1 DEF BoundPortals
  <1>4. /\ portals' = [portals EXCEPT ![p] = new]
        /\ IF reply.kind = "rows"
           THEN /\ object' = [object EXCEPT ![o] = Marked(object[o], reply.cols.type)]
                /\ told' = [told EXCEPT ![o] = reply.cols.type]
                /\ reads' = [reads EXCEPT ![p] = reply.cols]
           ELSE UNCHANGED <<object, told, reads>>
        /\ WithoutRows /\ UNCHANGED statements
    BY <1>2 DEF DescribePortal, Reply, WithoutRows, Inv, TypeOK
  <1> HIDE DEF o, reply, new
  <1>5. CASE reply.kind = "rows"
    <2>1. reply.cols \in Cols /\ reply.cols.type \in Types /\ reply.cols.type # NoType
      BY <1>2, <1>5, AnyReply, PgExtendedAssumption
    <2> DEFINE marked == Marked(object[o], reply.cols.type)
    <2>2. marked \in Statements /\ marked.sent /\ marked.oids = reply.cols.type
      BY <1>2, <2>1 DEF Marked, Statements
    <2>3. /\ object' = [object EXCEPT ![o] = marked]
          /\ told' = [told EXCEPT ![o] = reply.cols.type]
          /\ reads' = [reads EXCEPT ![p] = reply.cols]
      BY <1>4, <1>5
    <2> HIDE DEF marked
    <2>4. TypeOK'
      BY <1>2, <1>3, <1>4, <2>1, <2>2, <2>3, NoRowsSent DEF Inv, TypeOK
    <2>5. DescribedInv'
      BY <1>2, <2>1, <2>2, <2>3 DEF Inv, TypeOK, DescribedInv
    <2>6. PortalInv'
      <3> SUFFICES ASSUME NEW q \in Portals PROVE Fits(portals'[q], reads'[q])
        BY DEF PortalInv
      <3>1. CASE q = p
        BY <1>3, <1>4, <2>3, <3>1 DEF Inv, TypeOK, Fits
      <3>2. CASE q # p
        BY <1>4, <2>3, <3>2 DEF Inv, TypeOK, PortalInv
      <3> QED BY <3>1, <3>2
    <2> QED BY <1>4, <2>4, <2>5, <2>6, NoRowsSent DEF Inv
  <1>6. CASE reply.kind # "rows"
    <2>1. TypeOK'
      BY <1>3, <1>4, <1>6, NoRowsSent DEF Inv, TypeOK
    <2>2. DescribedInv'
      BY <1>4, <1>6 DEF Inv, DescribedInv
    <2>3. PortalInv'
      <3> SUFFICES ASSUME NEW q \in Portals PROVE Fits(portals'[q], reads'[q])
        BY DEF PortalInv
      <3>1. CASE q = p
        BY <1>3, <1>4, <1>6, <3>1 DEF Inv, TypeOK, Fits
      <3>2. CASE q # p
        BY <1>4, <1>6, <3>2 DEF Inv, TypeOK, PortalInv
      <3> QED BY <3>1, <3>2
    <2> QED BY <1>4, <2>1, <2>2, <2>3, NoRowsSent DEF Inv
  <1> QED BY <1>5, <1>6

LEMMA ExecuteStep == ASSUME Inv, NEW p \in Portals, Execute(p) PROVE Inv'
  <1> DEFINE portal == portals[p]
             refused == portal.reply.kind = "error" \/ portal.stale
             kind == IF refused THEN "error" ELSE portal.reply.kind
             rows == [rows |-> portal.reply.cols, described |-> ~portal.described,
                      by |-> reads[p], afterError |-> failed]
             sent == IF refused \/ portal.reply.kind # "rows" THEN NoAnswer ELSE rows
  <1>1. portal \in BoundPortals
    BY BoundPortal DEF Inv, Execute
  <1>2. ~skip /\ Reply(kind, TRUE, sent) /\ UNCHANGED <<sessionVars, told, reads>>
    BY DEF Execute
  <1>3. CASE sent = NoAnswer
    <2>1. WithoutRows
      BY <1>2, <1>3 DEF Reply, WithoutRows, Inv
    <2> QED BY <1>2, <2>1, NoRowsSent
            DEF Inv, TypeOK, DescribedInv, PortalInv, sessionVars
  <1>4. CASE sent # NoAnswer
    <2>1. ~portal.stale /\ portal.reply.kind = "rows" /\ sent = rows /\ kind = "rows"
      BY <1>4
    <2>2. portal.reply.cols \in Cols /\ portal.described \in BOOLEAN
      BY <1>1, <2>1, AnyReply DEF BoundPortals
    <2>3. ~failed
      BY <1>2 DEF Inv
    <2>4. Fits(portal, reads[p]) /\ portal.statement # NoObject
      BY DEF Inv, PortalInv, Execute
    <2>5. answer' = rows /\ skip' = FALSE /\ failed' = FALSE
      BY <1>2, <2>1, <2>3 DEF Reply
    <2>6. AnswerInv'
      BY <2>1, <2>3, <2>4, <2>5
         DEF AnswerInv, RowsFitDescription, DescribedOnce, NoRowsAfterError, Fits
    <2>7. rows \in [rows : Cols \cup {NoCols}, described : BOOLEAN,
                    by : Cols \cup {NoCols}, afterError : BOOLEAN]
      BY <2>2, <2>3 DEF Inv, TypeOK
    <2>8. TypeOK'
      BY <1>2, <2>5, <2>7 DEF Inv, TypeOK, sessionVars
    <2> QED BY <1>2, <2>5, <2>6, <2>8 DEF Inv, DescribedInv, PortalInv, sessionVars
  <1> QED BY <1>3, <1>4

LEMMA CloseStatementStep ==
    ASSUME Inv, NEW n \in Names, CloseStatement(n) PROVE Inv'
  <1>1. WithoutRows /\ statements' = [statements EXCEPT ![n] = NoObject]
        /\ UNCHANGED <<portals, object, told, reads>>
    BY DEF CloseStatement, Reply, WithoutRows, Inv
  <1> QED BY <1>1, NoRowsSent DEF Inv, TypeOK, DescribedInv, PortalInv

LEMMA ClosePortalStep == ASSUME Inv, NEW p \in Portals, ClosePortal(p) PROVE Inv'
  <1>1. /\ WithoutRows
        /\ portals' = [portals EXCEPT ![p] = Unbound]
        /\ reads' = [reads EXCEPT ![p] = NoCols]
        /\ UNCHANGED <<statements, object, told>>
    BY DEF ClosePortal, Reply, WithoutRows, Inv
  <1>2. TypeOK' /\ DescribedInv'
    BY <1>1, NoRowsSent DEF Inv, TypeOK, DescribedInv
  <1>3. PortalInv'
    BY <1>1 DEF Inv, TypeOK, PortalInv, Fits, Unbound
  <1> QED BY <1>1, <1>2, <1>3, NoRowsSent DEF Inv

LEMMA RefuseStep == ASSUME Inv, Refuse PROVE Inv'
  <1>1. WithoutRows /\ UNCHANGED <<sessionVars, told, reads>>
    BY DEF Refuse, Reply, WithoutRows, Inv
  <1> QED BY <1>1, NoRowsSent DEF Inv, TypeOK, DescribedInv, PortalInv, sessionVars

LEMMA ReadyStep == ASSUME Inv, Ready PROVE Inv'
  <1>1. AnswerInv'
    BY DEF Ready, AnswerInv, RowsFitDescription, DescribedOnce, NoRowsAfterError, NoAnswer
  <1> QED BY <1>1, NothingSent DEF Ready, Inv, TypeOK, DescribedInv, PortalInv, sessionVars

\* A connection begins with nothing registered.
LEMMA NewConnection ==
    ASSUME Init PROVE Inv
  <1>1. Unset \in Statements /\ Unbound \in BoundPortals \cup {Unbound}
    BY DEF Unset, Statements
  <1>2. TypeOK
    BY <1>1, NothingSent DEF Init, TypeOK
  <1>3. DescribedInv /\ PortalInv
    BY DEF Init, DescribedInv, PortalInv, Fits, Unset, Unbound
  <1>4. AnswerInv
    BY DEF Init, AnswerInv, RowsFitDescription, DescribedOnce, NoRowsAfterError, NoAnswer
  <1> QED BY <1>2, <1>3, <1>4 DEF Init, Inv

LEMMA DisconnectStep == ASSUME Disconnect PROVE Inv'
  <1>1. Unset \in Statements
    BY DEF Unset, Statements
  <1>2. TypeOK'
    BY <1>1, NothingSent DEF Disconnect, TypeOK
  <1>3. DescribedInv' /\ PortalInv'
    BY DEF Disconnect, DescribedInv, PortalInv, Fits, Unset, Unbound
  <1>4. AnswerInv'
    BY DEF Disconnect, AnswerInv, RowsFitDescription, DescribedOnce, NoRowsAfterError, NoAnswer
  <1> QED BY <1>2, <1>3, <1>4 DEF Disconnect, Inv

LEMMA Invariance == Spec => []Inv
  <1>1. Init => Inv
    BY NewConnection
  <1>2. Inv /\ [Next]_vars => Inv'
    <2> SUFFICES ASSUME Inv, [Next]_vars PROVE Inv'
      OBVIOUS
    <2>1. CASE Next
      BY <2>1, ParseStep, BindStep, DescribeStatementStep, DescribePortalStep, ExecuteStep,
         CloseStatementStep, ClosePortalStep, RefuseStep, ReadyStep, DisconnectStep DEF Next
    <2>2. CASE UNCHANGED vars
      BY <2>2 DEF vars, sessionVars, clientVars, Inv, TypeOK, DescribedInv, PortalInv,
                  AnswerInv, RowsFitDescription, DescribedOnce, NoRowsAfterError
    <2> QED BY <2>1, <2>2
  <1> QED BY <1>1, <1>2, PTL DEF Spec

-----------------------------------------------------------------------------
(* Theorems                                                                *)

\* Every statement, portal and answer has its type: a portal that is bound
\* keeps its statement, Close or Parse of the statement's name or not.
THEOREM TypesHold == Spec => []TypeOK
  <1>1. Inv => TypeOK
    BY DEF Inv
  <1> QED BY <1>1, Invariance, PTL

\* Rows that Execute sends are read as what they are: by the RowDescription
\* that comes with them, or by the one the client holds (stale_description).
THEOREM RowsAreNeverMisread == Spec => []RowsFitDescription
  <1>1. Inv => RowsFitDescription
    BY DEF Inv, AnswerInv
  <1> QED BY <1>1, Invariance, PTL

\* Execute adds a RowDescription only for a client that holds none.
THEOREM RowsAreDescribedOnce == Spec => []DescribedOnce
  <1>1. Inv => DescribedOnce
    BY DEF Inv, AnswerInv
  <1> QED BY <1>1, Invariance, PTL

\* The messages behind one that failed send no rows before Sync.
THEOREM ErrorsHoldRowsBack == Spec => []NoRowsAfterError
  <1>1. Inv => NoRowsAfterError
    BY DEF Inv, AnswerInv
  <1> QED BY <1>1, Invariance, PTL
=============================================================================
