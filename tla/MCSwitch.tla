------------------------------ MODULE MCSwitch ------------------------------
(* Instances of Switch for TLC.  Ids, tokens and handlers of one kind are  *)
(* interchangeable when no liveness is checked.                            *)
EXTENDS Switch, TLC

Symmetry ==
  Permutations(TransferIDs) \cup Permutations(Tokens) \cup Permutations(Clients) \cup Permutations(Workers)
  \cup Permutations(Reviewers) \cup Permutations(Providers)
=============================================================================
