---------------------------- MODULE MCPgExtended ----------------------------
EXTENDS PgExtended, TLC

\* Identities, portals and types are alike.
Symmetric ==
    Permutations(Objects) \cup Permutations(Portals) \cup Permutations(Types)
=============================================================================
