---------------------------- MODULE MCSPIWorker ----------------------------
(* Instances of SPIWorker for TLC; no symmetry, since liveness is checked. *)
EXTENDS SPIWorker
=============================================================================
