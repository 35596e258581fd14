------------------------------ MODULE ToldParts ------------------------------
(***************************************************************************)
(* Who is told what: the viewers of a grid, the open pages, the event      *)
(* streams of plugins, and the typist whose keys are drawn before their    *)
(* echo.  They share no state here; each has its own specification and     *)
(* they are model-checked side by side: `part' says which of them moves,   *)
(* the others stay as they begin.                                          *)
(***************************************************************************)
EXTENDS MCGridControl, StateSync, PluginWatch, LocalEcho

\* Every change is to something no snapshot has said before.
SaysNew == [w \in 1..MaxWorld |-> w]

\* What is true goes back and forth between two snapshots.
SaysAgain == [w \in 1..MaxWorld |-> w % 2]

VARIABLE part

PartsInit ==
    /\ part \in {"grid", "sync", "watch", "echo"}
    /\ Init /\ SyncInit /\ WatchInit /\ EchoInit
    /\ part # "grid" => size = CHOOSE first \in Sizes : TRUE

PartsNext ==
    /\ UNCHANGED part
    /\ \/ part = "grid" /\ Next /\ UNCHANGED <<syncVars, watchVars, echoVars>>
       \/ part = "sync" /\ SyncNext /\ UNCHANGED <<vars, watchVars, echoVars>>
       \/ part = "watch" /\ WatchNext /\ UNCHANGED <<vars, syncVars, echoVars>>
       \/ part = "echo" /\ EchoNext /\ UNCHANGED <<vars, syncVars, watchVars>>

partsVars == <<part, vars, syncVars, watchVars, echoVars>>

\* The fairness of each part, while it is the one that moves.
PartsSpec ==
    /\ PartsInit
    /\ [][PartsNext]_partsVars
    /\ WF_syncVars(part = "sync" /\ Tick) /\ WF_syncVars(part = "sync" /\ StaleShows)
    /\ \A p \in Producers : SF_syncVars(part = "sync" /\ ProducerStep(p))
    /\ \A c \in Announcers : WF_syncVars(part = "sync" /\ AnnouncerStep(c))
    /\ \A v \in Pages : WF_syncVars(part = "sync" /\ ConnectionStep(v))
    /\ WF_echoVars(part = "echo" /\ Draws) /\ WF_echoVars(part = "echo" /\ Settle) /\ WF_echoVars(part = "echo" /\ Expire)

\* The types of the parts.
PartsTypeOK == SyncTypeOK /\ WatchTypeOK /\ EchoTypeOK
=============================================================================
