---------------------------- MODULE PluginEvents ----------------------------
(***************************************************************************)
(* internal/httpapi/pluginservice.go: the events of the panel on their way *)
(* to one plugin that subscribes to them.  What happens is put into the    *)
(* queue of the plugin's worker without waiting, the oldest dropped to     *)
(* make room; the worker runs onEvent for one after the other.  Workers    *)
(* are started and retired as the installed set changes, while events are  *)
(* sent to a copy of that set taken before.                                *)
(*                                                                         *)
(* Events are numbered as they happen; all are of a kind the plugin        *)
(* subscribes to.                                                          *)
(***************************************************************************)
EXTENDS Integers, Sequences, FiniteSets

CONSTANTS
    Raisers,      \* goroutines something happens on
    Changers,     \* calls of ensurePluginWorkers
    MaxEvents,    \* events
    MaxQueue,     \* pluginEventQueue
    MaxWorkers,   \* workers started
    MaxChanges    \* times the plugin is switched on or off

ASSUME EventsAssumption ==
    {MaxEvents, MaxChanges} \subseteq Nat /\ {MaxQueue, MaxWorkers} \subseteq Nat \ {0}

VARIABLES
    enabled,   \* the plugin's row
    switched,  \* how often it has been switched
    by,        \* history: who raised each event so far
    worker,    \* every worker there has been
    started,   \* how many
    inMap,     \* st.workers, 0 for none
    raiser,    \* where each call of pluginEventRaised is
    changer    \* where each call of ensurePluginWorkers is

eventVars == <<enabled, switched, by, worker, started, inMap, raiser, changer>>
pluginRow == <<enabled, switched>>
mapVars == <<started, inMap>>

Workers == 1..MaxWorkers

\* seen, given and unheard are histories: the events onEvent has run for, those
\* meant for the worker, and those its plugin was off or could not be read for.
NoEvents == [queue |-> <<>>, done |-> FALSE, ended |-> FALSE, holds |-> 0, dropped |-> 0,
             seen |-> <<>>, given |-> {}, unheard |-> {}]
Outside == [at |-> "out", to |-> 0, event |-> 0]

EventsInit ==
    /\ enabled = TRUE /\ switched = 0 /\ by = <<>>
    /\ worker = [w \in Workers |-> NoEvents] /\ started = 1 /\ inMap = 1
    /\ raiser = [r \in Raisers |-> Outside]
    /\ changer = [h \in Changers |-> "out"]

----------------------------------------------------------------------------
(* pluginEventRaised *)

GoesOn(r, at) == raiser' = [raiser EXCEPT ![r].at = at]

\* The workers are copied, and the lock let go.
Raise(r) ==
    /\ raiser[r].at = "out" /\ Len(by) < MaxEvents
    /\ by' = by \o <<r>>
    /\ IF inMap = 0 THEN UNCHANGED <<raiser, worker>>
       ELSE /\ raiser' = [raiser EXCEPT ![r] = [at |-> "sends", to |-> inMap, event |-> Len(by) + 1]]
            /\ worker' = [worker EXCEPT ![inMap].given = @ \cup {Len(by) + 1}]
    /\ UNCHANGED <<pluginRow, mapVars, changer>>

Full(w) == Len(worker[w].queue) >= MaxQueue

Enqueue(r) ==
    LET w == raiser[r].to IN
    /\ ~Full(w) /\ worker' = [worker EXCEPT ![w].queue = @ \o <<raiser[r].event>>]
    /\ raiser' = [raiser EXCEPT ![r] = Outside]
    /\ UNCHANGED <<pluginRow, by, mapVars, changer>>

Send(r) == raiser[r].at = "sends" /\ Enqueue(r)

FindFull(r) ==
    /\ raiser[r].at = "sends" /\ Full(raiser[r].to) /\ GoesOn(r, "drops")
    /\ UNCHANGED <<pluginRow, by, worker, mapVars, changer>>

\* Mutant: what does not fit is left out, uncounted.
LeaveOut(r) ==
    /\ raiser[r].at = "drops" /\ raiser' = [raiser EXCEPT ![r] = Outside]
    /\ UNCHANGED <<pluginRow, by, worker, mapVars, changer>>

\* The oldest is taken, if it is still there.
DropOldest(r) ==
    /\ raiser[r].at = "drops" /\ GoesOn(r, "counts")
    /\ worker' = [worker EXCEPT ![raiser[r].to].queue = IF @ = <<>> THEN @ ELSE Tail(@)]
    /\ UNCHANGED <<pluginRow, by, mapVars, changer>>

CountDrop(r) ==
    /\ raiser[r].at = "counts" /\ GoesOn(r, "resends")
    /\ worker' = [worker EXCEPT ![raiser[r].to].dropped = @ + 1]
    /\ UNCHANGED <<pluginRow, by, mapVars, changer>>

Resend(r) ==
    /\ raiser[r].at = "resends"
    /\ \/ Enqueue(r)
       \/ Full(raiser[r].to) /\ raiser' = [raiser EXCEPT ![r] = Outside]
          /\ UNCHANGED <<pluginRow, by, worker, mapVars, changer>>

----------------------------------------------------------------------------
(* pluginEventWorker: of two ways to go on, either. *)

WorkerMoves(w) == w <= started /\ ~worker[w].ended /\ worker[w].holds = 0
WorkerOnly == UNCHANGED <<pluginRow, by, mapVars, raiser, changer>>

Take(w) ==
    /\ WorkerMoves(w) /\ worker[w].queue # <<>>
    /\ worker' = [worker EXCEPT ![w].holds = Head(worker[w].queue), ![w].queue = Tail(@)]
    /\ WorkerOnly

RunHook(w) ==
    /\ worker[w].holds # 0
    /\ enabled /\ worker' = [worker EXCEPT ![w].holds = 0, ![w].seen = @ \o <<worker[w].holds>>]
    /\ WorkerOnly

SkipHook(w) ==
    /\ worker[w].holds # 0
    /\ worker' = [worker EXCEPT ![w].holds = 0, ![w].unheard = @ \cup {worker[w].holds}]
    /\ WorkerOnly

\* The plugin has been switched off.
NotForIt(w) == ~enabled /\ SkipHook(w)

\* The plugin cannot be read: the event is lost, the worker is not.
ReadPluginFails(w) == enabled /\ SkipHook(w)

RetireWorker(w) ==
    /\ WorkerMoves(w) /\ worker[w].done
    /\ worker' = [worker EXCEPT ![w].ended = TRUE]
    /\ WorkerOnly

----------------------------------------------------------------------------
(* ensurePluginWorkers, after the plugin was switched *)

Switch(h) ==
    /\ changer[h] = "out" /\ switched < MaxChanges
    /\ enabled' = ~enabled /\ switched' = switched + 1
    /\ changer' = [changer EXCEPT ![h] = "lists"]
    /\ UNCHANGED <<by, worker, mapVars, raiser>>

ListWanted(h) ==
    /\ changer[h] = "lists" /\ changer' = [changer EXCEPT ![h] = IF enabled THEN "wants" ELSE "unwants"]
    /\ UNCHANGED <<pluginRow, by, worker, mapVars, raiser>>

Start(h) ==
    /\ changer[h] = "wants" /\ changer' = [changer EXCEPT ![h] = "out"]
    /\ IF inMap # 0 THEN UNCHANGED mapVars
       ELSE started < MaxWorkers /\ started' = started + 1 /\ inMap' = started + 1
    /\ UNCHANGED <<pluginRow, by, worker, raiser>>

Stop(h) ==
    /\ changer[h] = "unwants" /\ changer' = [changer EXCEPT ![h] = "out"]
    /\ inMap' = 0 /\ worker' = IF inMap = 0 THEN worker ELSE [worker EXCEPT ![inMap].done = TRUE]
    /\ UNCHANGED <<pluginRow, by, started, raiser>>

----------------------------------------------------------------------------
Raises(r) == Send(r) \/ FindFull(r) \/ DropOldest(r) \/ CountDrop(r) \/ Resend(r)
Works(w) == Take(w) \/ RunHook(w) \/ NotForIt(w) \/ RetireWorker(w)
EnsuresWorkers(h) == ListWanted(h) \/ Start(h) \/ Stop(h)

EventsNext ==
    \/ \E r \in Raisers : Raise(r) \/ Raises(r)
    \/ \E w \in Workers : Works(w) \/ ReadPluginFails(w)
    \/ \E h \in Changers : Switch(h) \/ EnsuresWorkers(h)

EventsSpec == EventsInit /\ [][EventsNext]_eventVars

----------------------------------------------------------------------------
Events == 1..MaxEvents

EventsTypeOK ==
    /\ enabled \in BOOLEAN /\ Len(by) <= MaxEvents /\ inMap \in 0..started /\ started \in Workers
    /\ raiser \in [Raisers -> [at: {"out", "sends", "drops", "counts", "resends"}, to: 0..started, event: 0..MaxEvents]]
    /\ \A w \in Workers : Len(worker[w].queue) <= MaxQueue

Elements(s) == {s[i] : i \in DOMAIN s}
InHand(w) == {raiser[r].event : r \in {q \in Raisers : raiser[q].to = w}}

\* The events of one goroutine are run for in the order they happened in.
InOrder ==
    \A w \in Workers : \A i, j \in DOMAIN worker[w].seen :
        i < j /\ by[worker[w].seen[i]] = by[worker[w].seen[j]] => worker[w].seen[i] < worker[w].seen[j]

\* A worker loses no more than it counts: with each drop that is counted goes the
\* oldest, and at most the event that was to take its place.
LossesCounted ==
    \A w \in Workers :
        LET Kept == Elements(worker[w].seen) \cup Elements(worker[w].queue) \cup InHand(w)
                      \cup worker[w].unheard \cup {worker[w].holds}
            Uncounted == {r \in Raisers : raiser[r].at = "counts" /\ raiser[r].to = w}
        IN Cardinality(worker[w].given \ Kept) <= 2 * worker[w].dropped + Cardinality(Uncounted)

\* The plugin's workers are one that is not told to end, and that one only while
\* it is in the map.
OneWorker == \A w \in 1..started : worker[w].done \/ w = inMap

\* What is raised reaches onEvent in order, or is counted as dropped, by way of one
\* worker (pluginEventRaised, ensurePluginWorkers).
EventsKept == InOrder /\ LossesCounted /\ OneWorker
=============================================================================
