---------------------------- MODULE MCGridControl ----------------------------
(* GridControl with a handful of viewers: strangers to each other, or with *)
(* one browser tab duplicated.                                             *)
EXTENDS GridControl, TLC

CONSTANTS v1, v2, v3, c1, c2

TwoStrangers == (v1 :> c1) @@ (v2 :> c2)
DuplicateTab == (v1 :> c1) @@ (v2 :> c1) @@ (v3 :> c2)

\* What the server knows, and which messages wait to be written.  No guard
\* reads what a viewer has been told, nor what a waiting message says, so for
\* a property that does not either, this is all of the state.
ConnectionState ==
    <<gridVars, subVars, open, reader,
      [v \in Viewers |-> {who \in DOMAIN mail[v] : mail[v][who] # None}]>>
=============================================================================
