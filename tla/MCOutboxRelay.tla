--------------------------- MODULE MCOutboxRelay ---------------------------
(* OutboxRelay for TLC.  The liveness property rules out symmetry sets.    *)
EXTENDS OutboxRelay, TLC
=============================================================================
