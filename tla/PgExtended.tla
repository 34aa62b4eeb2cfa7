----------------------------- MODULE PgExtended -----------------------------
(***************************************************************************)
(* The extended query protocol of one Postgres-wire connection:            *)
(* ExtendedSession (pgwire/extended.py) under the message loop of          *)
(* PgWireServer._drive_session (pgwire/server.py).                         *)
(*                                                                         *)
(* Statements and portals are objects: a portal goes on with the statement *)
(* it was bound to after Parse has given the name to another.  A query is  *)
(* run at Parse, Bind or Describe, and its reply kept for later messages;  *)
(* what a run answers is any reply of its kind.  The messages of a         *)
(* connection are handled one at a time.                                   *)
(*                                                                         *)
(* What the client holds is followed beside it.  A client reads the rows   *)
(* of a portal by the RowDescription it got with them or for that portal;  *)
(* or else by the one it held of the statement when it bound the portal,   *)
(* in the format it asked for then.                                        *)
(***************************************************************************)
EXTENDS FiniteSets

CONSTANTS
    Names,      \* of prepared statements
    Portals,    \* names of portals
    Objects,    \* statements, by identity
    Types,      \* what a RowDescription says of the columns' types
    NoObject, NoReply, NoType, NoCols

Formats == {"text", "binary"}
Cols == [type : Types, format : Formats]

ASSUME PgExtendedAssumption ==
    /\ NoObject \notin Objects /\ NoType \notin Types /\ NoCols \notin Cols
    /\ NoReply \notin [kind : {"error", "done", "rows"}, cols : Cols \cup {NoCols}]

\* PortalReply: "done" has no columns.
Replies ==
    [kind : {"error", "done"}, cols : {NoCols}]
        \cup [kind : {"rows"}, cols : Cols]

Statements == [preexec : Replies \cup {NoReply},   \* preexec_reply
               shape : Replies \cup {NoReply},     \* describe_reply
               sent : BOOLEAN,                     \* row_description_sent
               oids : Types \cup {NoType}]         \* described_oids

BoundPortals == [statement : Objects, reply : Replies, described : BOOLEAN, stale : BOOLEAN]

VARIABLES
    statements,  \* _statements: the object of each name
    portals,     \* _portals
    object,      \* the statements themselves
    skip,        \* skip_until_sync
    told,        \* the types the client last got of each statement
    reads,       \* what the client reads each portal's rows by
    failed,      \* an error was sent since the client was last told "ready"
    answer       \* the rows the last message was answered with

sessionVars == <<statements, portals, object>>
clientVars == <<told, reads, failed, answer>>
vars == <<sessionVars, skip, clientVars>>

Unset == [preexec |-> NoReply, shape |-> NoReply, sent |-> FALSE, oids |-> NoType]
Unbound == [statement |-> NoObject, reply |-> NoReply, described |-> FALSE, stale |-> FALSE]
NoAnswer == [rows |-> NoCols, described |-> FALSE, by |-> NoCols, afterError |-> FALSE]

TypeOK ==
    /\ statements \in [Names -> Objects \cup {NoObject}]
    /\ portals \in [Portals -> BoundPortals \cup {Unbound}]
    /\ object \in [Objects -> Statements]
    /\ skip \in BOOLEAN
    /\ told \in [Objects -> Types \cup {NoType}]
    /\ reads \in [Portals -> Cols \cup {NoCols}]
    /\ failed \in BOOLEAN
    /\ answer \in [rows : Cols \cup {NoCols}, described : BOOLEAN,
                   by : Cols \cup {NoCols}, afterError : BOOLEAN]

Init ==
    /\ statements = [n \in Names |-> NoObject]
    /\ portals = [p \in Portals |-> Unbound]
    /\ object = [o \in Objects |-> Unset]
    /\ skip = FALSE
    /\ told = [o \in Objects |-> NoType]
    /\ reads = [p \in Portals |-> NoCols]
    /\ failed = FALSE
    /\ answer = NoAnswer

-----------------------------------------------------------------------------
(* What a run of a query answers, in text unless Bind asks for binary: a   *)
(* type may have no binary format.                                         *)

Answers(formats) == {r \in Replies : r.kind = "rows" => r.cols.format \in formats}

\* Mutant: an error counts only at the head of the reply.
LeadingErrorSkips(sends, leading, sent) ==
    /\ skip' = (sends = "error" /\ leading)
    /\ failed' = (failed \/ sends = "error")
    /\ answer' = sent

\* _drive_session: an ErrorResponse anywhere in the reply makes the server
\* drop the messages before the next Sync.
Reply(sends, leading, sent) ==
    /\ skip' = (sends = "error")
    /\ failed' = (failed \/ sends = "error")
    /\ answer' = sent

\* An object nobody refers to once name n is given to another.
Unused(n) ==
    {o \in Objects : /\ \A m \in Names \ {n} : statements[m] # o
                     /\ \A p \in Portals : portals[p].statement # o}

\* parse, and _ensure_preexec: a statement that has no parameters and only
\* reads is run at once.  Its error is kept for Bind and Describe.
Parse(n) ==
    /\ ~skip
    /\ \E o \in Unused(n), preexec \in Answers({"text"}) \cup {NoReply} :
          /\ statements' = [statements EXCEPT ![n] = o]
          /\ object' = [object EXCEPT ![o] = [Unset EXCEPT !.preexec = preexec]]
          /\ told' = [told EXCEPT ![o] = NoType]
    /\ Reply("parsed", TRUE, NoAnswer)
    /\ UNCHANGED <<portals, reads>>

\* Mutant: only the types are compared.
TypesChanged(statement, reply, format) ==
    reply.kind = "rows" /\ reply.cols.type # statement.oids

\* _result_type_changed: the client asked for one format and was told types.
ResultTypeChanged(statement, reply, format) ==
    reply.kind = "rows" /\ reply.cols # [type |-> statement.oids, format |-> format]

\* What a client that binds statement o now will read the rows by.
HeldOf(o, format) ==
    IF told[o] = NoType THEN NoCols ELSE [type |-> told[o], format |-> format]

\* Mutant: the portal of a statement that was described is described again.
BoundUndescribed(statement, o, reply, format) ==
    [statement |-> o, reply |-> reply, described |-> FALSE,
     stale |-> statement.sent /\ ResultTypeChanged(statement, reply, format)]

Bound(statement, o, reply, format) ==
    [statement |-> o, reply |-> reply, described |-> statement.sent,
     stale |-> statement.sent /\ ResultTypeChanged(statement, reply, format)]

\* bind runs the statement, unless it was run at Parse and is wanted as text.
Bind(n, p) ==
    LET o == statements[n] IN
    /\ ~skip
    /\ o # NoObject
    /\ \E format \in Formats :
       \E reply \in IF object[o].preexec # NoReply /\ format = "text"
                    THEN {object[o].preexec} ELSE Answers({"text", format}) :
          /\ portals' = [portals EXCEPT ![p] = Bound(object[o], o, reply, format)]
          /\ reads' = [reads EXCEPT ![p] = HeldOf(o, format)]
    /\ Reply("bound", TRUE, NoAnswer)
    /\ UNCHANGED <<statements, object, told>>

\* _mark_described.
Marked(statement, type) == [statement EXCEPT !.sent = TRUE, !.oids = type]

\* The reply Describe('S') goes by: the early run's, or else that of a run
\* without the parameters' values (_describe_parameterised), kept if one of
\* its variants worked; there is none for a statement that does not only read.
Shapes(statement) ==
    IF statement.preexec # NoReply THEN {statement.preexec}
    ELSE IF statement.shape # NoReply THEN {statement.shape}
    ELSE {r \in Answers({"text"}) : r.kind # "error"} \cup {NoReply}

ReplyKind(reply) == IF reply = NoReply THEN "done" ELSE reply.kind

DescribeStatement(n) ==
    LET o == statements[n] IN
    /\ ~skip
    /\ o # NoObject
    /\ \E reply \in Shapes(object[o]) :
       LET kept == IF object[o].preexec = NoReply
                   THEN [object[o] EXCEPT !.shape = reply] ELSE object[o] IN
       \/ /\ ReplyKind(reply) = "rows"
          /\ object' = [object EXCEPT ![o] = Marked(kept, reply.cols.type)]
          /\ told' = [told EXCEPT ![o] = reply.cols.type]
          /\ Reply("rows", FALSE, NoAnswer)
       \/ /\ ReplyKind(reply) # "rows"
          /\ object' = [object EXCEPT ![o] = kept]
          /\ Reply(ReplyKind(reply), FALSE, NoAnswer)
          /\ UNCHANGED told
    /\ UNCHANGED <<statements, portals, reads>>

DescribePortal(p) ==
    LET o == portals[p].statement
        reply == portals[p].reply
    IN
    /\ ~skip
    /\ o # NoObject
    /\ portals' = [portals EXCEPT ![p].described = TRUE, ![p].stale = FALSE]
    /\ IF reply.kind = "rows"
       THEN /\ object' = [object EXCEPT ![o] = Marked(@, reply.cols.type)]
            /\ told' = [told EXCEPT ![o] = reply.cols.type]
            /\ reads' = [reads EXCEPT ![p] = reply.cols]
       ELSE UNCHANGED <<object, told, reads>>
    /\ Reply(reply.kind, TRUE, NoAnswer)
    /\ UNCHANGED <<statements>>

Execute(p) ==
    LET portal == portals[p]
        refused == portal.reply.kind = "error" \/ portal.stale
    IN
    /\ ~skip
    /\ portal.statement # NoObject
    /\ Reply(IF refused THEN "error" ELSE portal.reply.kind, TRUE,
             IF refused \/ portal.reply.kind # "rows" THEN NoAnswer
             ELSE [rows |-> portal.reply.cols, described |-> ~portal.described,
                   by |-> reads[p], afterError |-> failed])
    /\ UNCHANGED <<sessionVars, told, reads>>

\* Mutant: Close takes the statement away from its portals too.
CloseEverywhere(n) ==
    /\ ~skip
    /\ statements' = [statements EXCEPT ![n] = NoObject]
    /\ portals' = [p \in Portals |->
                      IF portals[p].statement = statements[n]
                      THEN [portals[p] EXCEPT !.statement = NoObject] ELSE portals[p]]
    /\ Reply("closed", TRUE, NoAnswer)
    /\ UNCHANGED <<object, told, reads>>

CloseStatement(n) ==
    /\ ~skip
    /\ statements' = [statements EXCEPT ![n] = NoObject]
    /\ Reply("closed", TRUE, NoAnswer)
    /\ UNCHANGED <<portals, object, told, reads>>

ClosePortal(p) ==
    /\ ~skip
    /\ portals' = [portals EXCEPT ![p] = Unbound]
    /\ reads' = [reads EXCEPT ![p] = NoCols]
    /\ Reply("closed", TRUE, NoAnswer)
    /\ UNCHANGED <<statements, object, told>>

\* A message refused before it changes anything: it names no statement or
\* portal there is, a parameter cannot be read, or the frame is malformed.
Refuse ==
    /\ ~skip
    /\ Reply("error", TRUE, NoAnswer)
    /\ UNCHANGED <<sessionVars, told, reads>>

\* Sync, and a simple query, which needs none: the client is told "ready".
Ready ==
    /\ skip' = FALSE
    /\ failed' = FALSE
    /\ answer' = NoAnswer
    /\ UNCHANGED <<sessionVars, told, reads>>

\* The client goes, or the run of an extended message takes longer than the
\* query timeout: the connection is closed, and a new one begins.
Disconnect ==
    /\ statements' = [n \in Names |-> NoObject]
    /\ portals' = [p \in Portals |-> Unbound]
    /\ object' = [o \in Objects |-> Unset]
    /\ skip' = FALSE
    /\ told' = [o \in Objects |-> NoType]
    /\ reads' = [p \in Portals |-> NoCols]
    /\ failed' = FALSE
    /\ answer' = NoAnswer

-----------------------------------------------------------------------------
Next ==
    \/ \E n \in Names : Parse(n) \/ DescribeStatement(n) \/ CloseStatement(n)
    \/ \E n \in Names, p \in Portals : Bind(n, p)
    \/ \E p \in Portals : DescribePortal(p) \/ Execute(p) \/ ClosePortal(p)
    \/ Refuse \/ Ready \/ Disconnect

Spec == Init /\ [][Next]_vars

-----------------------------------------------------------------------------
(* Properties                                                              *)

\* Rows are never sent to a client that would read them by other types or
\* another format than they are in, however Parse, Bind and Describe of the
\* two levels follow each other: it reads them without an error, and wrongly.
RowsFitDescription ==
    answer.rows # NoCols => answer.described \/ answer.by = answer.rows

\* A RowDescription comes with the rows of a portal only if the client holds
\* none from a Describe of the portal, or of its statement before the Bind: a
\* second one, unasked for, puts a driver's replies out of step.  (One that
\* came with rows does not count: a portal nobody described has it each time.)
DescribedOnce == answer.described => answer.by = NoCols

\* Once a message has failed, no rows are sent before the client has been
\* told "ready": an Execute sent on behind a failed Bind is not answered
\* with the rows of the portal that had the name before.
NoRowsAfterError == answer.rows # NoCols => ~answer.afterError
=============================================================================
