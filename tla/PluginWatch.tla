----------------------------- MODULE PluginWatch -----------------------------
(***************************************************************************)
(* internal/httpapi/pluginruntime.go: the event streams of plugin frames.  *)
(* A stream sends its plugin a view and waits on the bus for the next      *)
(* bump; the state the views are cut from is built once per generation of  *)
(* the bus and kept.  Handlers write, then bump (notifyState); what the    *)
(* poller notices is written without a bump.                               *)
(*                                                                         *)
(* What is true is the number of changes so far.  Settings events and what *)
(* a credential lets the view say are left out.                            *)
(***************************************************************************)
EXTENDS Integers

CONSTANTS
    Streams,    \* open event streams
    NoStream,
    MaxTruth,   \* changes
    MaxFailures \* builds that fail

ASSUME WatchAssumption == {MaxTruth, MaxFailures} \subseteq Nat /\ NoStream \notin Streams

VARIABLES
    truth,      \* changes so far
    unbumped,   \* those of handlers that have yet to bump
    announced,  \* history: the newest change that has been bumped for
    generation, \* pluginBus.gen
    memo,       \* pluginRuntime.state and stateGen
    builder,    \* who holds stateMu
    stream,     \* where each stream is
    sent,       \* the view its plugin has
    failures    \* builds that have failed

watchVars == <<truth, unbumped, announced, generation, memo, builder, stream, sent, failures>>

Out == [at |-> "out", read |-> 0, floor |-> 0, view |-> 0, since |-> 0]

WatchTypeOK ==
    /\ {truth, announced, generation} \subseteq 0..MaxTruth /\ unbumped \subseteq 1..MaxTruth
    /\ memo \in [of : -1..MaxTruth, says : 0..MaxTruth]
    /\ builder \in Streams \cup {NoStream}
    /\ stream \in [Streams -> [at : {"out", "sends", "locks", "builds", "keeps", "writes", "subscribes", "waits"},
                               read : 0..MaxTruth, floor : 0..MaxTruth, view : 0..MaxTruth,
                               since : 0..MaxTruth]]
    /\ sent \in [Streams -> 0..MaxTruth] /\ failures \in 0..MaxFailures

WatchInit ==
    /\ truth = 0 /\ unbumped = {} /\ announced = 0 /\ generation = 0 /\ builder = NoStream
    /\ memo = [of |-> -1, says |-> 0]
    /\ stream = [s \in Streams |-> Out] /\ sent = [s \in Streams |-> 0] /\ failures = 0

streamVars == <<memo, builder, stream, sent, failures>>
panelVars == <<truth, unbumped, announced, generation>>
Others == <<panelVars, failures>>

HandlerWrites ==
    /\ truth < MaxTruth /\ truth' = truth + 1
    /\ unbumped' = unbumped \cup {truth'}
    /\ UNCHANGED <<announced, generation, streamVars>>

\* The channel every stream waits on is closed, and another made.
Bump ==
    \E change \in unbumped :
        /\ unbumped' = unbumped \ {change}
        /\ announced' = IF change > announced THEN change ELSE announced
        /\ generation' = generation + 1
        /\ UNCHANGED <<truth, streamVars>>

\* A title, an exit, a state that has settled: broadcast to the pages.
PollerWrites ==
    /\ truth < MaxTruth /\ truth' = truth + 1
    /\ UNCHANGED <<unbumped, announced, generation, streamVars>>

----------------------------------------------------------------------------
Moves(s, from, to) == stream[s].at = from /\ stream' = [stream EXCEPT ![s].at = to]

Opens(s) == Moves(s, "out", "sends") /\ UNCHANGED <<Others, memo, builder, sent>>

\* The plugin goes, its credential is revoked, the panel stops.
Closes(s) ==
    /\ stream[s].at # "out"
    /\ builder' = IF builder = s THEN NoStream ELSE builder
    /\ stream' = [stream EXCEPT ![s] = Out] /\ sent' = [sent EXCEPT ![s] = 0]
    /\ UNCHANGED <<Others, memo>>

\* The generation is read before the lock is taken.
ReadGeneration(s) ==
    /\ stream[s].at = "sends"
    /\ stream' = [stream EXCEPT ![s] = [Out EXCEPT !.at = "locks", !.read = generation, !.floor = announced]]
    /\ UNCHANGED <<Others, memo, builder, sent>>

\* Mutant: whatever is kept will do.
UseAnyMemo(s) ==
    /\ stream[s].at = "locks" /\ builder = NoStream /\ memo.of # -1
    /\ stream' = [stream EXCEPT ![s] = [@ EXCEPT !.at = "writes", !.view = memo.says]]
    /\ UNCHANGED <<Others, memo, builder, sent>>

UseMemo(s) ==
    /\ stream[s].at = "locks" /\ builder = NoStream /\ memo.of = stream[s].read
    /\ stream' = [stream EXCEPT ![s] = [@ EXCEPT !.at = "writes", !.view = memo.says]]
    /\ UNCHANGED <<Others, memo, builder, sent>>

\* Of another generation, or more than a second old.
StartBuild(s) ==
    /\ Moves(s, "locks", "builds") /\ builder = NoStream /\ builder' = s
    /\ UNCHANGED <<Others, memo, sent>>

\* buildState.
ReadTables(s) ==
    /\ stream[s].at = "builds"
    /\ stream' = [stream EXCEPT ![s] = [@ EXCEPT !.at = "keeps", !.view = truth]]
    /\ UNCHANGED <<Others, memo, builder, sent>>

\* Under the generation that was read before the tables were.
Keep(s) ==
    /\ Moves(s, "keeps", "writes") /\ builder' = NoStream
    /\ memo' = [of |-> stream[s].read, says |-> stream[s].view]
    /\ UNCHANGED <<Others, sent>>

StateFails(s) ==
    /\ Moves(s, "builds", "subscribes") /\ builder' = NoStream
    /\ failures < MaxFailures /\ failures' = failures + 1
    /\ UNCHANGED <<panelVars, memo, sent>>

WriteView(s) ==
    /\ Moves(s, "writes", "subscribes")
    /\ sent' = [sent EXCEPT ![s] = stream[s].view]
    /\ UNCHANGED <<Others, memo, builder>>

\* bus.wait, on the channel that is there by now.
WaitOnBus(s) ==
    /\ stream[s].at = "subscribes"
    /\ stream' = [stream EXCEPT ![s] = [Out EXCEPT !.at = "waits", !.since = generation]]
    /\ UNCHANGED <<Others, memo, builder, sent>>

Woken(s) ==
    /\ Moves(s, "waits", "sends") /\ stream[s].since # generation
    /\ UNCHANGED <<Others, memo, builder, sent>>

\* Every 25 s a comment keeps the connection, and the wait begins again.
Heartbeat(s) == Moves(s, "waits", "subscribes") /\ UNCHANGED <<Others, memo, builder, sent>>

----------------------------------------------------------------------------
Sends(s) ==
    \/ ReadGeneration(s) \/ UseMemo(s) \/ StartBuild(s) \/ ReadTables(s) \/ Keep(s) \/ WriteView(s)
    \/ WaitOnBus(s) \/ Woken(s)

WatchNext ==
    \/ HandlerWrites \/ Bump \/ PollerWrites
    \/ \E s \in Streams : Sends(s) \/ Opens(s) \/ Closes(s) \/ StateFails(s) \/ Heartbeat(s)

WatchSpec ==
    /\ WatchInit /\ [][WatchNext]_watchVars
    /\ WF_watchVars(Bump) /\ \A s \in Streams : WF_watchVars(Sends(s))

----------------------------------------------------------------------------
\* A view that is cut after a change was bumped for has that change in it,
\* whichever stream built the state it is cut from, and whatever was bumped for
\* while it was built ("one build per bump is exact").
ViewHasBumped == \A s \in Streams : stream[s].at = "writes" => stream[s].view >= stream[s].floor

\* What is kept for the present generation has everything it was bumped for.
MemoHasBumped == memo.of = generation => memo.says >= announced

\* A view is never older than what had been announced when it was asked for.
ViewsFresh == ViewHasBumped /\ MemoHasBumped
\* A stream that stays open comes to send everything that has been bumped for.
StreamCatchesUp == \A s \in Streams : []<>(stream[s].at = "out") \/ <>[](sent[s] >= announced)
=============================================================================
