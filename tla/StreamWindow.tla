---------------------------- MODULE StreamWindow ----------------------------
(***************************************************************************)
(* What a replay buffer promises, without saying how it stores anything:   *)
(* it remembers a contiguous window [lo, hi) of the offsets of one output  *)
(* stream, never more than Capacity of them, and it forgets only from the  *)
(* old end and only what does not fit.                                     *)
(***************************************************************************)
EXTENDS Integers

CONSTANTS Capacity,   (* the most bytes the window may hold             *)
          MaxChunk    (* the largest single write, a bound on the model *)

VARIABLES lo, hi      (* the window holds the offsets lo .. hi - 1 *)

windowVars == <<lo, hi>>

Init == lo = 0 /\ hi = 0

\* A write of n bytes keeps everything that fits and evicts from the old end.
Append(n) ==
    /\ hi' = hi + n
    /\ lo' = IF hi + n - lo > Capacity THEN hi + n - Capacity ELSE lo

\* The window is emptied, and the stream goes on counting from where it was.
Clear == lo' = hi /\ hi' = hi

Next == (\E n \in 1..MaxChunk : Append(n)) \/ Clear

Spec == Init /\ [][Next]_windowVars
=============================================================================
