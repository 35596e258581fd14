------------------------------ MODULE OneClient ------------------------------
(***************************************************************************)
(* What the attachment manager promises about the tmux clients it starts   *)
(* for one session.  A client is owned by the manager, then condemned,     *)
(* then gone; at most one is owned at a time, because with                 *)
(* `window-size latest' a second one would fight over the grid; and a      *)
(* condemned client does not outlive its sentence.                         *)
(***************************************************************************)
EXTENDS Naturals

CONSTANT Clients

VARIABLE fate         \* client -> how far along its life it is

Init == fate = [c \in Clients |-> "none"]

Own(c) ==
    /\ fate[c] = "none"
    /\ \A x \in Clients : fate[x] # "owned"
    /\ fate' = [fate EXCEPT ![c] = "owned"]

Condemn(c) ==
    /\ fate[c] = "owned"
    /\ fate' = [fate EXCEPT ![c] = "condemned"]

Bury(c) ==
    /\ fate[c] = "condemned"
    /\ fate' = [fate EXCEPT ![c] = "gone"]

Next == \E c \in Clients : Own(c) \/ Condemn(c) \/ Bury(c)

Spec == Init /\ [][Next]_fate /\ \A c \in Clients : WF_fate(Bury(c))
=============================================================================
