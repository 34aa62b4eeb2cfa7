------------------------------ MODULE MCJoinPlan ------------------------------
(* Every model of three objects with at most one join between two of them,  *)
(* squares of four, where routes of one length compete, and one of six in   *)
(* which a detour of forward joins is longer than a route through a         *)
(* one-to-one join walked backwards.                                        *)
EXTENDS JoinPlan

Links(a, b, cards) ==
    {[from |-> e[1], to |-> e[2], card |-> c] : e \in {<<a, b>>, <<b, a>>}, c \in cards}

MCTriangles ==
    LET Maybe(a, b) == {{}} \cup {{j} : j \in Links(a, b, Cards)}
    IN  {x \cup y \cup z : x \in Maybe(1, 2), y \in Maybe(1, 3), z \in Maybe(2, 3)}

MCSquares ==
    LET Plain == Cards \ {"many-to-many"}
    IN  {{w, x, y, z} : w \in Links(1, 2, Cards), x \in Links(1, 3, Plain),
                        y \in Links(2, 4, Plain), z \in Links(3, 4, Plain)}

MCDetour ==
    LET By(a, b, c) == [from |-> a, to |-> b, card |-> c]
    IN  {By(1, 2, "many-to-one"), By(3, 2, "one-to-one"), By(3, 4, "one-to-one"),
         By(1, 5, "many-to-one"), By(5, 6, "many-to-one"), By(6, 3, "many-to-one")}

MCSchemas == MCTriangles \cup MCSquares \cup {MCDetour}

MCQueryObjects ==
    {q \in [measures : SUBSET (1..4), dims : SUBSET (1..4), where : SUBSET (1..4)] :
        /\ Cardinality(q.measures) \in 1..2
        /\ Cardinality(q.dims) <= 1 /\ Cardinality(q.where) <= 1}
=============================================================================
