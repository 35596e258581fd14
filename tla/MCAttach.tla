------------------------------ MODULE MCAttach ------------------------------
(* Attach on a handful of calls; all calls of a kind are alike.            *)
EXTENDS Attach, TLC

Alike == Permutations(Attachers) \cup Permutations(Detachers)
=============================================================================
