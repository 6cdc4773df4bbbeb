--------------------------- MODULE MCPgEventStore ---------------------------
(* Small instances of PgEventStore.                                        *)
EXTENDS PgEventStore, TLC

Symmetry == Permutations(Sessions) \cup Permutations(Conns)
=============================================================================
