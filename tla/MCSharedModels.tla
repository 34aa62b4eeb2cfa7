--------------------------- MODULE MCSharedModels ---------------------------
(* SharedModels on small instances.                                        *)
EXTENDS SharedModels, TLC

\* One id per content: the prefix tells the hashes of the instance apart.
DistinctIds == {<<h>> : h \in Hashes}
DistinctContentId == [h \in Hashes |-> <<h>>]

\* What a thread still reads of its locals: the rest is left over from the
\* operation before, and is written again before anything reads it.
Locals(t) ==
    CASE pc[t] \in {"idle", "release"} -> <<>>
      [] pc[t] = "ready" -> <<at[t]>>
      [] OTHER -> <<at[t], want[t], shares[t]>>

LiveState ==
    <<cacheVars, session, storeVars, mgrLock, pc, todo, [t \in Threads |-> Locals(t)]>>

Symmetric == Permutations(Threads) \cup Permutations(Stores) \cup Permutations(Hashes)
=============================================================================
