-------------------------- MODULE MCPostgresStore --------------------------
(* Instances of PostgresStore for TLC.                                     *)
EXTENDS PostgresStore, TLC

Symmetry ==
  Permutations(Sessions) \cup Permutations(TransferIDs) \cup Permutations(Tokens)
=============================================================================
