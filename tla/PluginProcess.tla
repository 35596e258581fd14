---------------------------- MODULE PluginProcess ----------------------------
(***************************************************************************)
(* internal/httpapi/pluginprocess.go: the process of one plugin.  A change *)
(* of the plugin makes the handler that wrote it compare what should run   *)
(* with what does, end the one and start the other; a supervisor per start *)
(* prepares, runs, cleans up after and restarts the process.  The token    *)
(* and the socket are the plugin's, whichever process uses them.           *)
(*                                                                         *)
(* What should run is a number: the version with its secrets and downloads *)
(* (pluginEnvFingerprint), 0 for a plugin that is disabled or waits for a  *)
(* download.  The end of the panel, the resource pool and the seven seconds *)
(* after which a stop waits no longer are left out.                        *)
(***************************************************************************)
EXTENDS Naturals

CONSTANTS
    Changers,       \* handlers of requests that change or restart the plugin
    MaxChanges,     \* changes and restarts
    MaxSupervisors, \* bounds `proc'
    FailureCap      \* failures after which a supervisor gives up

ASSUME PluginAssumption == {MaxChanges, MaxSupervisors} \subseteq Nat /\ FailureCap \in Nat \ {0}

VARIABLES
    wanted,     \* what the store says should run
    changes,    \* changes and restarts so far
    changer,    \* where each handler is
    inTable,    \* the supervisor in st.procs, 0 for none
    made,       \* supervisors so far
    proc,       \* what each supervisor and its record are at
    token,      \* whose token resolves
    socket      \* who listens on the plugin's socket

pluginVars == <<wanted, changes, changer, inTable, made, proc, token, socket>>
Supervisors == 1..MaxSupervisors

NotMade == [at |-> "none", wants |-> 0, stopped |-> FALSE, recorded |-> FALSE, ended |-> FALSE,
            listens |-> FALSE, failures |-> 0]
RunSteps == {"none", "top", "mints", "unlinks", "checks", "starts", "started", "runs", "cleans", "closes",
           "failed", "exited", "backoff", "over"}

PluginTypeOK ==
    /\ {wanted, changes} \subseteq 0..MaxChanges
    /\ changer \in [Changers ->
          [at : {"idle", "ensures"}] \cup [at : {"read", "starts"}, want : 0..MaxChanges]
          \cup [at : {"stops", "waits"}, who : Supervisors, want : 0..MaxChanges, again : BOOLEAN]]
    /\ {inTable, made, token, socket} \subseteq 0..MaxSupervisors
    /\ proc \in [Supervisors ->
          [at : RunSteps, wants : 0..MaxChanges, stopped : BOOLEAN, recorded : BOOLEAN, ended : BOOLEAN,
           listens : BOOLEAN, failures : 0..FailureCap]]

PluginInit ==
    /\ wanted = 0 /\ changes = 0 /\ inTable = 0 /\ made = 0 /\ token = 0 /\ socket = 0
    /\ changer = [h \in Changers |-> [at |-> "idle"]]
    /\ proc = [s \in Supervisors |-> NotMade]

----------------------------------------------------------------------------
(* The handlers.                                                           *)

\* Installed, enabled or disabled, a secret set, a download arrived.
ChangePlugin(h) ==
    /\ changer[h].at = "idle" /\ changes < MaxChanges
    /\ changes' = changes + 1
    /\ wanted' \in {0, changes + 1}
    /\ changer' = [changer EXCEPT ![h] = [at |-> "ensures"]]
    /\ UNCHANGED <<inTable, made, proc, token, socket>>

\* The owner's restart takes the process out of the table first.
RestartPlugin(h) ==
    /\ changer[h].at = "idle" /\ changes < MaxChanges
    /\ changes' = changes + 1
    /\ inTable' = 0
    /\ changer' = [changer EXCEPT ![h] =
          IF inTable = 0 THEN [at |-> "ensures"]
          ELSE [at |-> "stops", who |-> inTable, want |-> 0, again |-> TRUE]]
    /\ UNCHANGED <<wanted, made, proc, token, socket>>

EnsureReads(h) ==
    /\ changer[h].at = "ensures"
    /\ changer' = [changer EXCEPT ![h] = [at |-> "read", want |-> wanted]]
    /\ UNCHANGED <<wanted, changes, inTable, made, proc, token, socket>>

Outdated(want) == inTable # 0 /\ proc[inTable].wants # want

EnsureCompares(h) ==
    /\ changer[h].at = "read"
    /\ LET want == changer[h].want
       IN  /\ inTable' = IF Outdated(want) THEN 0 ELSE inTable
           /\ changer' = [changer EXCEPT ![h] =
                 IF Outdated(want) THEN [at |-> "stops", who |-> inTable, want |-> want, again |-> FALSE]
                 ELSE IF want # 0 /\ inTable = 0 THEN [at |-> "starts", want |-> want]
                 ELSE [at |-> "idle"]]
    /\ UNCHANGED <<wanted, changes, made, proc, token, socket>>

Stopped(h) ==
    IF changer[h].again THEN [at |-> "ensures"]
    ELSE IF changer[h].want # 0 THEN [at |-> "starts", want |-> changer[h].want]
    ELSE [at |-> "idle"]

\* Mutant: a supervisor that has no run yet is not told to stop.
StopMarksRuns(h) ==
    /\ changer[h].at = "stops"
    /\ LET s == changer[h].who
       IN  IF proc[s].recorded
           THEN /\ proc' = [proc EXCEPT ![s].stopped = TRUE, ![s].ended = TRUE]
                /\ changer' = [changer EXCEPT ![h].at = "waits"]
           ELSE UNCHANGED proc /\ changer' = [changer EXCEPT ![h] = Stopped(h)]
    /\ UNCHANGED <<wanted, changes, inTable, made, token, socket>>

\* stopPluginProc: only a run that is already recorded can be ended and waited
\* for.
StopMarks(h) ==
    /\ changer[h].at = "stops"
    /\ LET s == changer[h].who
       IN  /\ proc' = [proc EXCEPT ![s].stopped = TRUE, ![s].ended = @ \/ proc[s].recorded]
           /\ changer' = [changer EXCEPT ![h] = IF proc[s].recorded THEN [@ EXCEPT !.at = "waits"]
                                                ELSE Stopped(h)]
    /\ UNCHANGED <<wanted, changes, inTable, made, token, socket>>

\* done is closed.
StopWaits(h) ==
    /\ changer[h].at = "waits" /\ ~proc[changer[h].who].recorded
    /\ changer' = [changer EXCEPT ![h] = Stopped(h)]
    /\ UNCHANGED <<wanted, changes, inTable, made, proc, token, socket>>

StartSupervisor(h) ==
    /\ changer[h].at = "starts"
    /\ IF inTable # 0 THEN UNCHANGED <<inTable, made, proc>>
       ELSE /\ made < MaxSupervisors
            /\ made' = made + 1 /\ inTable' = made'
            /\ proc' = [proc EXCEPT ![made'] = [NotMade EXCEPT !.at = "top", !.wants = changer[h].want]]
    /\ changer' = [changer EXCEPT ![h] = [at |-> "idle"]]
    /\ UNCHANGED <<wanted, changes, token, socket>>

----------------------------------------------------------------------------
(* supervisePlugin and runPluginProcOnce.                                  *)

MovesTo(s, from, to) == proc[s].at = from /\ proc' = [proc EXCEPT ![s].at = to]
handling == <<wanted, changes, changer, inTable, made>>

RunOnce(s) ==
    /\ MovesTo(s, "top", IF proc[s].stopped THEN "over" ELSE "mints")
    /\ UNCHANGED <<handling, token, socket>>

\* The plugin's other tokens are deleted.
MintToken(s) == MovesTo(s, "mints", "unlinks") /\ token' = s /\ UNCHANGED <<handling, socket>>

\* No checkout, nothing on PATH, a command that will not start.
CannotStart(s) ==
    /\ proc[s].at \in {"mints", "unlinks", "starts"}
    /\ proc' = [proc EXCEPT ![s].at = "failed"]
    /\ UNCHANGED <<handling, token, socket>>

Unlink(s) == MovesTo(s, "unlinks", "checks") /\ socket' = 0 /\ UNCHANGED <<handling, token>>

\* A stop may have come since RunOnce looked.
LookAgain(s) ==
    /\ MovesTo(s, "checks", IF proc[s].stopped THEN "failed" ELSE "starts")
    /\ token' = IF proc[s].stopped /\ token = s THEN 0 ELSE token
    /\ UNCHANGED <<handling, socket>>

StartCommand(s) == MovesTo(s, "starts", "started") /\ UNCHANGED <<handling, token, socket>>

\* Mutant: the run is recorded without another look at the stop.
RecordRunBlindly(s) ==
    /\ proc[s].at = "started"
    /\ proc' = [proc EXCEPT ![s].at = "runs", ![s].recorded = TRUE]
    /\ UNCHANGED <<handling, token, socket>>

RecordRun(s) ==
    /\ proc[s].at = "started"
    /\ proc' = [proc EXCEPT ![s].at = "runs", ![s].recorded = TRUE, ![s].ended = proc[s].stopped]
    /\ UNCHANGED <<handling, token, socket>>

\* The process of its own accord: it opens its socket, it exits.
Listen(s) ==
    /\ proc[s].at \in {"started", "runs"} /\ ~proc[s].listens /\ socket = 0
    /\ socket' = s /\ proc' = [proc EXCEPT ![s].listens = TRUE]
    /\ UNCHANGED <<handling, token>>

\* cmd.Wait returns, and whatever was left of the group is ended.
Exits(s) == MovesTo(s, "runs", "cleans") /\ UNCHANGED <<handling, token, socket>>
Ended(s) == proc[s].ended /\ Exits(s)

CleanToken(s) ==
    /\ MovesTo(s, "cleans", "closes")
    /\ token' = IF token = s THEN 0 ELSE token
    /\ UNCHANGED <<handling, socket>>

\* The socket's path goes, and done is closed.
CleanSocket(s) ==
    /\ proc[s].at = "closes"
    /\ proc' = [proc EXCEPT ![s].at = "exited", ![s].recorded = FALSE, ![s].ended = FALSE, ![s].listens = FALSE]
    /\ socket' = 0
    /\ UNCHANGED <<handling, token>>

\* Mutant: one failure too many.
AfterRunOnceMore(s) ==
    /\ proc[s].at \in {"failed", "exited"} /\ ~proc[s].stopped
    /\ LET failures == proc[s].failures + 1
       IN  proc' = [proc EXCEPT ![s].failures = failures,
                                ![s].at = IF failures > FailureCap THEN "over" ELSE "backoff"]
    /\ UNCHANGED <<handling, token, socket>>

\* Exit 0 is not restarted unless the manifest says always, a failure is until
\* there have been FailureCap of them in the window.
AfterRun(s) ==
    /\ proc[s].at \in {"failed", "exited"}
    /\ \/ /\ proc[s].stopped \/ proc[s].at = "exited"
          /\ proc' = [proc EXCEPT ![s].at = "over", ![s].stopped = TRUE]
       \/ /\ ~proc[s].stopped
          /\ LET failures == proc[s].failures + 1
             IN  proc' = [proc EXCEPT ![s].failures = failures,
                                      ![s].at = IF failures >= FailureCap THEN "over" ELSE "backoff",
                                      ![s].stopped = failures >= FailureCap]
    /\ UNCHANGED <<handling, token, socket>>

Backoff(s) == MovesTo(s, "backoff", "top") /\ UNCHANGED <<handling, token, socket>>

----------------------------------------------------------------------------
Ensures(h) ==
    \/ EnsureReads(h) \/ EnsureCompares(h) \/ StopMarks(h) \/ StopWaits(h) \/ StartSupervisor(h)
Supervises(s) ==
    \/ RunOnce(s) \/ MintToken(s) \/ Unlink(s) \/ LookAgain(s) \/ StartCommand(s) \/ RecordRun(s)
    \/ Ended(s) \/ CleanToken(s) \/ CleanSocket(s) \/ AfterRun(s) \/ Backoff(s)

PluginNext ==
    \/ \E h \in Changers : ChangePlugin(h) \/ RestartPlugin(h) \/ Ensures(h)
    \/ \E s \in Supervisors : Supervises(s) \/ CannotStart(s) \/ Listen(s) \/ Exits(s)

\* A request is handled to its end, a supervisor goes on, and a process that is
\* signalled ends.
PluginSpec ==
    /\ PluginInit /\ [][PluginNext]_pluginVars
    /\ \A h \in Changers : WF_pluginVars(Ensures(h))
    /\ \A s \in Supervisors : WF_pluginVars(Supervises(s))

----------------------------------------------------------------------------
Alive(s) == proc[s].at \in {"started", "runs"}
BeingStopped(s) == \E h \in Changers : changer[h].at = "stops" /\ changer[h].who = s

\* No process runs that nobody has told to end and nobody could: it is the one
\* in the table, or its supervisor is stopped or about to be.
NoStrayProcess == \A s \in Supervisors : Alive(s) => s = inTable \/ proc[s].stopped \/ BeingStopped(s)

\* A process does not go on behind a record that says stopped, wherever in its
\* start the stop fell.
StoppedEnds == \A s \in Supervisors : proc[s].stopped ~> proc[s].at = "over"

\* When the changes are over, what is in the table is what should run, and
\* nothing runs of a plugin that should not.
WantedRuns ==
    <>[](IF wanted = 0 THEN \A s \in Supervisors : ~Alive(s)
         ELSE inTable # 0 /\ proc[inTable].wants = wanted)

\* Stops and changes take effect, wherever in a start they fell.
ProcessFollows == StoppedEnds /\ WantedRuns

\* The process in the table keeps the token it was given and the socket it
\* opened, whatever its predecessor is still cleaning up.
KeepsItsOwn ==
    \A s \in Supervisors : s = inTable /\ proc[s].at = "runs" =>
        token = s /\ (proc[s].listens => socket = s)
=============================================================================
