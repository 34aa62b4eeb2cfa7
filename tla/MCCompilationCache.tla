------------------------- MODULE MCCompilationCache -------------------------
(***************************************************************************)
(* CompilationCache on a small instance: two threads, two models that may  *)
(* have one id in turn, a query that reads the zone of a source and one    *)
(* that reads none.                                                        *)
(***************************************************************************)
EXTENDS CompilationCache, TLC

CONSTANTS federated, plain, odd

MCQueries == {federated, plain, odd}
MCKeyless == {odd}
MCReads == (federated :> Sources) @@ (plain :> {}) @@ (odd :> {})
MCLength == (federated :> 2) @@ (plain :> 1) @@ (odd :> 1)

Symmetric == Permutations(Threads) \cup Permutations(Models) \cup Permutations(Ids)
                 \cup Permutations(Sources)
=============================================================================
