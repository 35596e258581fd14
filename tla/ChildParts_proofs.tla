--------------------------- MODULE ChildParts_proofs ---------------------------
(***************************************************************************)
(* Proofs about what the panel starts and has to end, one section for each *)
(* part.  The process of a plugin (PluginProcess): a supervisor that has   *)
(* been made is in the table until the handler that takes it out has it in *)
(* its own hands, and is told to stop before that handler lets go of it.   *)
(* The downloads of a plugin (PluginDownload): of the jobs that go on only *)
(* the one in the list may unpack, so what it finds in the directory it    *)
(* unpacks into is what it has put there.  An update of the panel          *)
(* (SelfUpdate): a run that goes on is the only one, and the job is its    *)
(* own.                                                                    *)
(***************************************************************************)
EXTENDS ChildParts, Attach_proofs, FiniteSetTheorems

----------------------------------------------------------------------------
(* PluginProcess: the process of a plugin                                  *)
----------------------------------------------------------------------------

Supervisor == [at : RunSteps, wants : 0..MaxChanges, stopped : BOOLEAN, recorded : BOOLEAN, ended : BOOLEAN,
               listens : BOOLEAN, failures : 0..FailureCap]

Free     == [at : {"idle", "ensures"}]
Wanting  == [at : {"read", "starts"}, want : 0..MaxChanges]
Stopping == [at : {"stops", "waits"}, who : Supervisors, want : 0..MaxChanges, again : BOOLEAN]

NoneStray ==
    /\ inTable <= made
    /\ \A s \in Supervisors :
        /\ s > made => proc[s].at = "none"
        /\ proc[s].at # "none" => s = inTable \/ proc[s].stopped \/ BeingStopped(s)
        /\ ~proc[s].stopped => proc[s].failures < FailureCap

ProcessInv == PluginTypeOK /\ NoneStray

LEMMA ProcessInitial == PluginInit => ProcessInv
  BY PluginAssumption
  DEF PluginInit, ProcessInv, PluginTypeOK, NoneStray, NotMade, Supervisors, RunSteps

\* Where a handler is says what it holds.
LEMMA Held ==
    ASSUME PluginTypeOK, NEW h \in Changers
    PROVE  /\ changer[h].at \in {"stops", "waits"} => changer[h] \in Stopping
           /\ changer[h].at \in {"read", "starts"} => changer[h] \in Wanting
           /\ changer[h].at \in {"idle", "ensures"} => changer[h] \in Free
  <1>1. changer[h] \in Free \cup Wanting \cup Stopping
    BY DEF PluginTypeOK, Free, Wanting, Stopping
  <1> QED BY <1>1 DEF Free, Wanting, Stopping

\* One supervisor moves, and neither comes into being nor is taken back its stop.
LEMMA SupervisorMoves ==
    ASSUME ProcessInv, NEW s \in Supervisors, NEW p \in Supervisor, proc' = [proc EXCEPT ![s] = p],
           UNCHANGED handling, {token', socket'} \subseteq 0..MaxSupervisors,
           proc[s].at # "none", p.at # "none", proc[s].stopped => p.stopped,
           ~p.stopped => p.failures < FailureCap
    PROVE  ProcessInv'
  <1> USE DEF ProcessInv, handling
  <1>1. PluginTypeOK'
    BY DEF PluginTypeOK, Supervisor
  <1>2. NoneStray'
    BY DEF PluginTypeOK, NoneStray, Supervisor, BeingStopped
  <1> QED BY <1>1, <1>2

\* What a supervisor, and its process, do.
LEMMA SupervisorStep ==
    ASSUME ProcessInv, NEW s \in Supervisors, Supervises(s) \/ CannotStart(s) \/ Listen(s) \/ Exits(s)
    PROVE  ProcessInv'
  <1> DEFINE p == proc'[s]
  <1>0. /\ proc[s] \in Supervisor /\ proc \in [Supervisors -> Supervisor]
        /\ {token, socket} \subseteq 0..MaxSupervisors /\ s \in 0..MaxSupervisors
        /\ ~proc[s].stopped => proc[s].failures < FailureCap
    BY PluginAssumption DEF ProcessInv, PluginTypeOK, NoneStray, Supervisor, Supervisors
  <1>1. ASSUME p \in Supervisor, proc' = [proc EXCEPT ![s] = p],
               UNCHANGED handling, {token', socket'} \subseteq 0..MaxSupervisors,
               proc[s].at # "none", p.at # "none", proc[s].stopped => p.stopped,
               ~p.stopped => p.failures < FailureCap
        PROVE  ProcessInv'
    BY <1>1, SupervisorMoves
  <1> USE PluginAssumption DEF RunSteps, Supervisor
  <1>2. CASE RunOnce(s)      BY <1>0, <1>1, <1>2 DEF RunOnce, MovesTo
  <1>3. CASE MintToken(s)    BY <1>0, <1>1, <1>3 DEF MintToken, MovesTo
  <1>4. CASE Unlink(s)       BY <1>0, <1>1, <1>4 DEF Unlink, MovesTo
  <1>5. CASE LookAgain(s)    BY <1>0, <1>1, <1>5 DEF LookAgain, MovesTo
  <1>6. CASE StartCommand(s) BY <1>0, <1>1, <1>6 DEF StartCommand, MovesTo
  <1>7. CASE RecordRun(s)    BY <1>0, <1>1, <1>7 DEF RecordRun
  <1>8. CASE Exits(s)        BY <1>0, <1>1, <1>8 DEF Exits, MovesTo
  <1>9. CASE CleanToken(s)   BY <1>0, <1>1, <1>9 DEF CleanToken, MovesTo
  <1>10. CASE CleanSocket(s)
    <2> DEFINE q == [proc[s] EXCEPT !.at = "exited", !.recorded = FALSE, !.ended = FALSE, !.listens = FALSE]
    <2>1. proc' = [proc EXCEPT ![s] = q] BY <1>0, <1>10 DEF CleanSocket
    <2>2. q \in Supervisor /\ q.at = "exited" /\ q.stopped = proc[s].stopped /\ q.failures = proc[s].failures
      BY <1>0
    <2>3. proc[s].at = "closes" /\ socket' = 0 /\ UNCHANGED <<handling, token>> BY <1>10 DEF CleanSocket
    <2> HIDE DEF q
    <2>4. p = q BY <1>0, <2>1
    <2> QED BY <1>0, <1>1, <2>1, <2>2, <2>3, <2>4
  <1>11. CASE Backoff(s)     BY <1>0, <1>1, <1>11 DEF Backoff, MovesTo
  <1>12. CASE CannotStart(s) BY <1>0, <1>1, <1>12 DEF CannotStart
  <1>13. CASE Listen(s)      BY <1>0, <1>1, <1>13 DEF Listen
  <1>14. CASE AfterRun(s)
    <2>1. CASE proc' = [proc EXCEPT ![s].at = "over", ![s].stopped = TRUE]
      BY <1>0, <1>1, <1>14, <2>1 DEF AfterRun
    <2>2. CASE /\ ~proc[s].stopped
               /\ LET failures == proc[s].failures + 1
                  IN  proc' = [proc EXCEPT ![s].failures = failures,
                                           ![s].at = IF failures >= FailureCap THEN "over" ELSE "backoff",
                                           ![s].stopped = failures >= FailureCap]
      <3> DEFINE n == proc[s].failures + 1
                 q == [proc[s] EXCEPT !.failures = n, !.at = IF n >= FailureCap THEN "over" ELSE "backoff",
                                      !.stopped = n >= FailureCap]
      <3>1. n \in 0..FailureCap BY <1>0, <2>2
      <3>2. UNCHANGED handling /\ UNCHANGED <<token, socket>> /\ proc[s].at # "none" BY <1>14 DEF AfterRun
      <3>0. proc' = [proc EXCEPT ![s].failures = n, ![s].at = IF n >= FailureCap THEN "over" ELSE "backoff",
                                 ![s].stopped = n >= FailureCap]
        BY <2>2
      <3>3. proc' = [proc EXCEPT ![s] = q] BY <1>0, <3>0, Zenon
      <3>4. q \in Supervisor
        <4>1. CASE n >= FailureCap
          <5>0. (n >= FailureCap) = TRUE BY <4>1
          <5>1. q = [proc[s] EXCEPT !.failures = n, !.at = "over", !.stopped = TRUE] BY <5>0, Zenon
          <5> HIDE DEF q
          <5> QED BY <1>0, <3>1, <5>1
        <4>2. CASE ~(n >= FailureCap)
          <5>0. (n >= FailureCap) = FALSE BY <4>2
          <5>1. q = [proc[s] EXCEPT !.failures = n, !.at = "backoff", !.stopped = FALSE] BY <5>0, Zenon
          <5> HIDE DEF q
          <5> QED BY <1>0, <3>1, <5>1
        <4> QED BY <4>1, <4>2
      <3>5. q.at # "none" /\ (~q.stopped => q.failures < FailureCap) BY <1>0, <2>2, <3>1
      <3> HIDE DEF q
      <3>6. p = q BY <1>0, <3>3
      <3> QED BY <1>0, <1>1, <2>2, <3>2, <3>3, <3>4, <3>5, <3>6
    <2> QED BY <1>14, <2>1, <2>2 DEF AfterRun
  <1> QED BY <1>2, <1>3, <1>4, <1>5, <1>6, <1>7, <1>8, <1>9, <1>10, <1>11, <1>12, <1>13, <1>14 DEF Supervises, Ended

\* What a handler does.
LEMMA HandlerStep ==
    ASSUME ProcessInv, NEW h \in Changers, ChangePlugin(h) \/ RestartPlugin(h) \/ Ensures(h)
    PROVE  ProcessInv'
  <1> USE PluginAssumption DEF ProcessInv
  <1>0. /\ {wanted, changes} \subseteq 0..MaxChanges /\ {inTable, made} \subseteq 0..MaxSupervisors
        /\ changer \in [Changers -> Free \cup Wanting \cup Stopping]
        /\ proc \in [Supervisors -> Supervisor]
    BY DEF PluginTypeOK, Free, Wanting, Stopping, Supervisor
  <1>1. ASSUME NEW c \in Free \cup Wanting \cup Stopping, changer' = [changer EXCEPT ![h] = c],
               {wanted', changes'} \subseteq 0..MaxChanges, UNCHANGED <<made, token, socket, proc>>,
               \/ UNCHANGED inTable
               \/ inTable' = 0 /\ (inTable # 0 => c \in Stopping /\ c.at = "stops" /\ c.who = inTable),
               changer[h].at = "stops" => proc[changer[h].who].stopped
        PROVE  ProcessInv'
    <2>0. changer'[h] = c /\ \A g \in Changers \ {h} : changer'[g] = changer[g]
      <3>1. changer' = [changer EXCEPT ![h] = c] /\ changer \in [Changers -> Free \cup Wanting \cup Stopping]
        BY <1>0, <1>1
      <3> QED BY <3>1
    <2>1. PluginTypeOK'
      BY <1>0, <1>1 DEF PluginTypeOK, Free, Wanting, Stopping
    <2>2. ASSUME NEW s \in Supervisors, BeingStopped(s) PROVE proc[s].stopped \/ BeingStopped(s)'
      BY <1>0, <1>1, <2>2 DEF BeingStopped
    <2>3. ASSUME NEW s \in Supervisors, s = inTable, inTable' = 0 PROVE BeingStopped(s)'
      <3>1. inTable # 0 BY <2>3 DEF Supervisors
      <3>2. c.at = "stops" /\ c.who = s BY <1>1, <2>3, <3>1
      <3> QED BY <2>0, <3>2 DEF BeingStopped
    <2>4. NoneStray'
      <3>1. inTable' <= made' BY <1>0, <1>1 DEF NoneStray
      <3>2. ASSUME NEW s \in Supervisors, proc'[s].at # "none"
            PROVE  s = inTable' \/ proc'[s].stopped \/ BeingStopped(s)'
        <4>1. proc' = proc BY <1>1
        <4>2. s = inTable \/ proc[s].stopped \/ BeingStopped(s) BY <3>2, <4>1 DEF NoneStray
        <4>3. s # 0 BY DEF Supervisors
        <4>4. inTable' = inTable \/ inTable' = 0 BY <1>1
        <4> QED BY <2>2, <2>3, <4>1, <4>2, <4>3, <4>4
      <3> QED BY <1>0, <1>1, <3>1, <3>2 DEF NoneStray
    <2> QED BY <2>1, <2>4
  <1>2. CASE ChangePlugin(h)
    <2>1. [at |-> "ensures"] \in Free BY DEF Free
    <2>2. changes + 1 \in 0..MaxChanges BY <1>0, <1>2 DEF ChangePlugin
    <2>3. wanted' \in 0..MaxChanges /\ changes' \in 0..MaxChanges BY <1>2, <2>2 DEF ChangePlugin
    <2>4. changer' = [changer EXCEPT ![h] = [at |-> "ensures"]] /\ changer[h].at = "idle"
          /\ UNCHANGED <<inTable, made, proc, token, socket>>
      BY <1>2 DEF ChangePlugin
    <2> QED BY <1>0, <1>1, <2>1, <2>3, <2>4
  <1>3. CASE RestartPlugin(h)
    <2> DEFINE c == IF inTable = 0 THEN [at |-> "ensures"]
                    ELSE [at |-> "stops", who |-> inTable, want |-> 0, again |-> TRUE]
    <2>1. inTable # 0 => inTable \in Supervisors BY <1>0 DEF Supervisors
    <2>2. c \in Free \cup Stopping BY <2>1 DEF Free, Stopping
    <2>3. changes + 1 \in 0..MaxChanges BY <1>0, <1>3 DEF RestartPlugin
    <2>4. changer' = [changer EXCEPT ![h] = c] /\ inTable' = 0 /\ changer[h].at = "idle"
      BY <1>3 DEF RestartPlugin
    <2>5. inTable # 0 => c \in Stopping /\ c.at = "stops" /\ c.who = inTable
      BY <2>1 DEF Stopping
    <2> QED BY <1>0, <1>1, <1>3, <2>2, <2>3, <2>4, <2>5 DEF RestartPlugin
  <1>4. CASE EnsureReads(h)
    <2>1. [at |-> "read", want |-> wanted] \in Wanting BY <1>0 DEF Wanting
    <2> QED BY <1>0, <1>1, <1>4, <2>1 DEF EnsureReads
  <1>5. CASE EnsureCompares(h)
    <2> DEFINE want == changer[h].want
               c == IF Outdated(want) THEN [at |-> "stops", who |-> inTable, want |-> want, again |-> FALSE]
                    ELSE IF want # 0 /\ inTable = 0 THEN [at |-> "starts", want |-> want]
                    ELSE [at |-> "idle"]
    <2>1. want \in 0..MaxChanges BY <1>5, Held DEF EnsureCompares, Wanting
    <2>2. inTable # 0 => inTable \in Supervisors BY <1>0 DEF Supervisors
    <2>3. CASE Outdated(want)
      <3>1. c = [at |-> "stops", who |-> inTable, want |-> want, again |-> FALSE] /\ inTable # 0
        BY <2>3 DEF Outdated
      <3>2. c \in Stopping /\ c.at = "stops" /\ c.who = inTable BY <2>1, <2>2, <3>1 DEF Stopping
      <3>3. changer' = [changer EXCEPT ![h] = c] /\ inTable' = 0 /\ changer[h].at = "read"
        BY <1>5, <2>3 DEF EnsureCompares
      <3> HIDE DEF c
      <3> QED BY <1>0, <1>1, <1>5, <3>2, <3>3 DEF EnsureCompares
    <2>4. CASE ~Outdated(want)
      <3>1. c \in Free \cup Wanting BY <2>1, <2>4 DEF Free, Wanting
      <3>2. changer' = [changer EXCEPT ![h] = c] /\ inTable' = inTable /\ changer[h].at = "read"
        BY <1>5, <2>4 DEF EnsureCompares
      <3> HIDE DEF c
      <3> QED BY <1>0, <1>1, <1>5, <3>1, <3>2 DEF EnsureCompares
    <2> QED BY <2>3, <2>4
  <1>6. ASSUME changer[h] \in Stopping PROVE Stopped(h) \in Free \cup Wanting
    BY <1>6 DEF Stopped, Stopping, Free, Wanting
  <1>7. CASE StopMarks(h)
    <2> DEFINE s == changer[h].who
               p == [proc[s] EXCEPT !.stopped = TRUE, !.ended = @ \/ proc[s].recorded]
               c == IF proc[s].recorded THEN [changer[h] EXCEPT !.at = "waits"] ELSE Stopped(h)
    <2>1. changer[h] \in Stopping /\ s \in Supervisors BY <1>7, Held DEF StopMarks, Stopping
    <2>2. p \in Supervisor /\ p.stopped /\ p.at = proc[s].at /\ p.failures = proc[s].failures
      BY <1>0, <2>1 DEF Supervisor
    <2>3. c \in Free \cup Wanting \cup Stopping /\ c.at # "stops"
      BY <1>6, <2>1 DEF Stopping, Free, Wanting
    <2>4. proc' = [proc EXCEPT ![s] = p] /\ changer' = [changer EXCEPT ![h] = c]
          /\ UNCHANGED <<wanted, changes, inTable, made, token, socket>>
      BY <1>7 DEF StopMarks
    <2> HIDE DEF p, c
    <2>5. PluginTypeOK'
      BY <1>0, <2>1, <2>2, <2>3, <2>4 DEF PluginTypeOK, Free, Wanting, Stopping, Supervisor
    <2>6. ASSUME NEW r \in Supervisors, r # s, BeingStopped(r) PROVE BeingStopped(r)'
      BY <1>0, <2>4, <2>6 DEF BeingStopped
    <2>7. NoneStray'
      BY <1>0, <2>1, <2>2, <2>4, <2>6 DEF NoneStray
    <2> QED BY <2>5, <2>7
  <1>8. CASE StopWaits(h)
    <2>1. changer[h] \in Stopping BY <1>8, Held DEF StopWaits
    <2>2. Stopped(h) \in Free \cup Wanting \cup Stopping BY <1>6, <2>1
    <2> QED BY <1>0, <1>1, <1>8, <2>2 DEF StopWaits
  <1>9. CASE StartSupervisor(h)
    <2>1. [at |-> "idle"] \in Free /\ changer[h] \in Wanting BY <1>9, Held DEF Free, StartSupervisor
    <2>2. CASE inTable # 0
      BY <1>0, <1>1, <1>9, <2>1, <2>2 DEF StartSupervisor
    <2>3. CASE inTable = 0
      <3> DEFINE s == made + 1
                 p == [NotMade EXCEPT !.at = "top", !.wants = changer[h].want]
      <3>1. s \in Supervisors /\ made < MaxSupervisors BY <1>0, <1>9, <2>3 DEF StartSupervisor, Supervisors
      <3>2. p \in Supervisor /\ ~p.stopped /\ p.at = "top" /\ p.failures < FailureCap
        <4>1. /\ NotMade \in Supervisor /\ ~NotMade.stopped /\ NotMade.failures = 0
          BY DEF NotMade, Supervisor, RunSteps
        <4>2. changer[h].want \in 0..MaxChanges BY <2>1 DEF Wanting
        <4>3. 0 \in 0..FailureCap /\ 0 < FailureCap OBVIOUS
        <4> QED BY <4>1, <4>2, <4>3 DEF Supervisor, RunSteps
      <3>3. /\ proc' = [proc EXCEPT ![s] = p] /\ changer' = [changer EXCEPT ![h] = [at |-> "idle"]]
            /\ made' = s /\ inTable' = s /\ UNCHANGED <<wanted, changes, token, socket>>
        BY <1>9, <2>3 DEF StartSupervisor
      <3> HIDE DEF p
      <3>4. PluginTypeOK'
        BY <1>0, <2>1, <3>1, <3>2, <3>3 DEF PluginTypeOK, Free, Supervisor, Supervisors
      <3>5. ASSUME NEW r \in Supervisors, BeingStopped(r) PROVE BeingStopped(r)'
        BY <1>0, <1>9, <3>3, <3>5 DEF BeingStopped, StartSupervisor
      <3>6. NoneStray'
        BY <1>0, <2>3, <3>1, <3>2, <3>3, <3>5 DEF NoneStray, Supervisors
      <3> QED BY <3>4, <3>6
    <2> QED BY <2>2, <2>3
  <1> QED BY <1>2, <1>3, <1>4, <1>5, <1>7, <1>8, <1>9 DEF Ensures

LEMMA ProcessInvariant == PluginInit /\ [][PluginNext]_pluginVars => []ProcessInv
  <1>1. ASSUME ProcessInv, UNCHANGED pluginVars PROVE ProcessInv'
    BY <1>1 DEF ProcessInv, pluginVars, PluginTypeOK, NoneStray, BeingStopped
  <1>2. ProcessInv /\ [PluginNext]_pluginVars => ProcessInv'
    BY <1>1, SupervisorStep, HandlerStep DEF PluginNext
  <1> QED BY ProcessInitial, <1>2, PTL

\* The types of a plugin's process, for any number of handlers, changes and
\* supervisors.
THEOREM ProcessTypeCorrect == PluginSpec => []PluginTypeOK
  BY ProcessInvariant, PTL DEF ProcessInv, PluginSpec

\* No process of a plugin runs that nobody has told to end and nobody could, for
\* any number of handlers, changes and supervisors (stopPluginProc and
\* ensurePluginProcesses).
THEOREM NoStrayProcessCorrect == PluginSpec => []NoStrayProcess
  <1>1. ProcessInv => NoStrayProcess BY DEF ProcessInv, NoneStray, NoStrayProcess, Alive
  <1> QED BY <1>1, ProcessInvariant, PTL DEF PluginSpec

----------------------------------------------------------------------------
(* PluginDownload: the downloads of a plugin                               *)
----------------------------------------------------------------------------

Job     == [at : Steps, hash : Hashes, cancelled : BOOLEAN]
Place   == [files : SUBSET (Hashes \X {"model", "runtime"}), marker : 0..MaxHash, there : BOOLEAN]
Whole(h) == {h} \X {"model", "runtime"}

\* The jobs that may yet unpack.
GoesOn(j) ==
    \/ job[j].at = "transfers" /\ ~job[j].cancelled
    \/ job[j].at \in {"arrived", "unpacks", "half", "marks", "clears", "swaps", "ends"}

Staged(j) ==
    /\ job[j].at = "unpacks" => staging.files = {} /\ staging.marker = 0
    /\ job[j].at = "half" => staging.files = {<<job[j].hash, "model">>} /\ staging.marker = 0
    /\ job[j].at = "marks" => staging.files = Whole(job[j].hash) /\ staging.marker = 0
    /\ job[j].at \in {"clears", "swaps"} => staging.files = Whole(job[j].hash) /\ staging.marker = job[j].hash

JobsOK ==
    /\ listed <= jobs
    /\ \A j \in Jobs : j > jobs => job[j].at = "none"
    /\ \A j \in Jobs : GoesOn(j) => listed = j
    /\ \A j \in Jobs : Staged(j)

DownloadInv == DownloadTypeOK /\ JobsOK /\ WholeWhenReady

LEMMA DownloadTypes ==
    DownloadTypeOK <=>
        /\ declared \in Hashes /\ jobs \in 0..MaxJobs /\ listed \in 0..MaxJobs
        /\ job \in [Jobs -> Job] /\ staging \in Place /\ assets \in Place
        /\ removal \in {"none", "files"} /\ removals \in 0..MaxRemovals /\ panels \in 0..MaxPanels
        /\ called \in BOOLEAN /\ found \in 0..MaxHash
  BY DEF DownloadTypeOK, Job, Place

LEMMA MissingIsPlace == Missing \in Place /\ Missing.files = {} /\ Missing.marker = 0 /\ ~Missing.there
  BY DownloadAssumption DEF Missing, Place

\* What changes of a place.
LEMMA PlaceThere ==
    ASSUME NEW p \in Place
    PROVE  /\ [p EXCEPT !.there = TRUE] \in Place
           /\ [p EXCEPT !.there = TRUE].files = p.files /\ [p EXCEPT !.there = TRUE].marker = p.marker
  BY DEF Place

LEMMA PlaceWith ==
    ASSUME NEW p \in Place, NEW f \in Hashes \X {"model", "runtime"}
    PROVE  LET q == [p EXCEPT !.there = TRUE, !.files = @ \cup {f}]
           IN  q \in Place /\ q.files = p.files \cup {f} /\ q.marker = p.marker
  <1> DEFINE g == p.files \cup {f}
             r == [p EXCEPT !.there = TRUE]
             q == [p EXCEPT !.there = TRUE, !.files = @ \cup {f}]
  <1>1. g \in SUBSET (Hashes \X {"model", "runtime"}) BY DEF Place
  <1>2. q = [r EXCEPT !.files = r.files \cup {f}] OBVIOUS
  <1>3. r \in Place /\ r.files = p.files /\ r.marker = p.marker BY PlaceThere
  <1>4. q = [r EXCEPT !.files = g] BY <1>2, <1>3
  <1> HIDE DEF g, r, q
  <1>5. q \in Place /\ q.files = g /\ q.marker = r.marker BY <1>1, <1>3, <1>4 DEF Place
  <1> QED BY <1>3, <1>5 DEF g, q

LEMMA FreshIsJob == Fresh \in Job /\ Fresh.at = "none"
  BY DownloadAssumption DEF Fresh, Job, Steps, Hashes

LEMMA DownloadInitial == DownloadInit => DownloadInv
  <1> SUFFICES ASSUME DownloadInit PROVE DownloadInv
    OBVIOUS
  <1>1. called \in BOOLEAN BY Zenon DEF DownloadInit
  <1>2. DownloadTypeOK
    BY <1>1, DownloadAssumption, DownloadTypes, MissingIsPlace, FreshIsJob DEF DownloadInit, Hashes
  <1>3. JobsOK /\ WholeWhenReady
    BY MissingIsPlace, FreshIsJob DEF DownloadInit, JobsOK, GoesOn, Staged, WholeWhenReady, Jobs
  <1> QED BY <1>2, <1>3 DEF DownloadInv

\* One job moves on, and touches no directory but perhaps the one it unpacks into.
LEMMA JobMoves ==
    ASSUME DownloadInv, NEW j \in Jobs, NEW q \in Job, job' = [job EXCEPT ![j] = q],
           q.hash = job[j].hash, job[j].at # "none", q.at # "none",
           UNCHANGED kept, called' \in BOOLEAN,
           staging' \in Place, assets' \in Place, WholeWhenReady',
           listed' = listed \/ (listed' = 0 /\ job[j].at = "ends"),
           GoesOn(j)' => GoesOn(j) /\ job[j].at # "ends",
           Staged(j)', staging' = staging \/ GoesOn(j)
    PROVE  DownloadInv'
  <1> USE DEF DownloadInv, kept
  <1>0. /\ job \in [Jobs -> Job] /\ job'[j] = q /\ \A i \in Jobs \ {j} : job'[i] = job[i]
        /\ j # 0 /\ listed \in 0..MaxJobs
    BY DownloadTypes DEF Jobs
  <1>1. DownloadTypeOK'
    BY <1>0, DownloadAssumption, DownloadTypes DEF DownloadTypeOK, Job, Place
  <1>2. ASSUME NEW i \in Jobs, i # j PROVE GoesOn(i)' = GoesOn(i)
    BY <1>0, <1>2 DEF GoesOn
  <1>3. ASSUME NEW i \in Jobs, GoesOn(i)' PROVE listed' = i
    <2>1. CASE i = j BY <1>3, <2>1 DEF JobsOK
    <2>2. CASE i # j
      <3>1. listed = i BY <1>2, <1>3, <2>2 DEF JobsOK
      <3>2. job[j].at # "ends" BY <2>2, <3>1 DEF JobsOK, GoesOn
      <3> QED BY <3>1, <3>2
    <2> QED BY <2>1, <2>2
  <1>4. ASSUME NEW i \in Jobs PROVE Staged(i)'
    <2>1. CASE i = j BY <2>1
    <2>2. CASE i # j /\ staging' = staging
      BY <1>0, <2>2 DEF JobsOK, Staged
    <2>3. CASE i # j /\ GoesOn(j)
      BY <1>0, <2>3 DEF JobsOK, Staged, GoesOn
    <2> QED BY <2>1, <2>2, <2>3
  <1>5. JobsOK'
    <2>1. listed' <= jobs' BY <1>0, DownloadTypes DEF JobsOK
    <2>2. ASSUME NEW i \in Jobs, i > jobs' PROVE job'[i].at = "none"
      BY <1>0, <2>2 DEF JobsOK
    <2> QED BY <1>3, <1>4, <2>1, <2>2 DEF JobsOK
  <1> QED BY <1>1, <1>5

LEMMA JobStep ==
    ASSUME DownloadInv, NEW j \in Jobs, Downloads(j)
    PROVE  DownloadInv'
  <1> DEFINE q == job'[j]
             to(at) == [job[j] EXCEPT !.at = at]
  <1>0. /\ job \in [Jobs -> Job] /\ job[j] \in Job /\ staging \in Place /\ assets \in Place /\ called \in BOOLEAN
        /\ JobsOK /\ WholeWhenReady /\ Staged(j)
    BY DownloadTypes DEF DownloadInv, JobsOK
  <1>1. ASSUME NEW from, NEW at \in Steps, Moves(j, from, at)
        PROVE  /\ job' = [job EXCEPT ![j] = q] /\ q \in Job /\ q.at = at /\ q.hash = job[j].hash
               /\ q.cancelled = job[j].cancelled /\ job[j].at = from
    BY <1>0, <1>1 DEF Moves, Job
  <1> USE DEF Steps
  <1>2. CASE Transferred(j)
    BY <1>0, <1>1, <1>2, JobMoves DEF Transferred, kept, GoesOn, Staged, WholeWhenReady
  <1>3. CASE Verify(j)
    <2>1. CASE Moves(j, "cut", "fails") /\ UNCHANGED staging
      BY <1>0, <1>1, <1>3, <2>1, JobMoves DEF Verify, kept, GoesOn, Staged, WholeWhenReady
    <2>2. CASE Moves(j, "arrived", "unpacks") /\ staging' = [Missing EXCEPT !.there = TRUE]
      <3>1. staging' \in Place /\ staging'.files = {} /\ staging'.marker = 0
        BY <2>2, MissingIsPlace, PlaceThere
      <3>2. /\ job' = [job EXCEPT ![j] = q] /\ q \in Job /\ q.at = "unpacks" /\ q.hash = job[j].hash
            /\ job[j].at = "arrived"
        BY <1>1, <2>2
      <3>3. UNCHANGED kept /\ UNCHANGED <<listed, assets, called>> BY <1>3 DEF Verify
      <3>4. GoesOn(j) /\ Staged(j)' /\ WholeWhenReady'
        BY <1>0, <3>1, <3>2, <3>3 DEF GoesOn, Staged, WholeWhenReady
      <3> QED BY <1>0, <3>1, <3>2, <3>3, <3>4, JobMoves
    <2> QED BY <1>3, <2>1, <2>2 DEF Verify
  <1>4. CASE Unpack(j)
    <2>0. job[j].hash \in Hashes BY <1>0 DEF Job
    <2>1. CASE Moves(j, "unpacks", "half") /\ staging' = Unpacked(<<job[j].hash, "model">>)
      <3>1. /\ staging' \in Place /\ staging'.files = {<<job[j].hash, "model">>} /\ staging'.marker = 0
        <4> DEFINE f == <<job[j].hash, "model">>
        <4>1. f \in Hashes \X {"model", "runtime"} BY <2>0
        <4>2. staging.files = {} /\ staging.marker = 0 BY <1>0, <2>1 DEF Moves, Staged
        <4>3. staging' = [staging EXCEPT !.there = TRUE, !.files = @ \cup {f}] BY <2>1 DEF Unpacked
        <4> HIDE DEF f
        <4>4. staging' \in Place /\ staging'.files = staging.files \cup {f} /\ staging'.marker = staging.marker
          BY <1>0, <4>1, <4>3, PlaceWith
        <4> QED BY <4>2, <4>4 DEF f
      <3> QED BY <1>0, <1>1, <1>4, <2>1, <3>1, JobMoves DEF Unpack, kept, GoesOn, Staged, WholeWhenReady
    <2>2. CASE Moves(j, "half", "marks") /\ staging' = Unpacked(<<job[j].hash, "runtime">>)
      <3>1. /\ staging' \in Place /\ staging'.marker = 0
            /\ staging'.files = {<<job[j].hash, "model">>} \cup {<<job[j].hash, "runtime">>}
        <4> DEFINE f == <<job[j].hash, "runtime">>
        <4>1. f \in Hashes \X {"model", "runtime"} BY <2>0
        <4>2. staging.files = {<<job[j].hash, "model">>} /\ staging.marker = 0 BY <1>0, <2>2 DEF Moves, Staged
        <4>3. staging' = [staging EXCEPT !.there = TRUE, !.files = @ \cup {f}] BY <2>2 DEF Unpacked
        <4> HIDE DEF f
        <4>4. staging' \in Place /\ staging'.files = staging.files \cup {f} /\ staging'.marker = staging.marker
          BY <1>0, <4>1, <4>3, PlaceWith
        <4> QED BY <4>2, <4>4 DEF f
      <3>2. staging'.files = Whole(job[j].hash) BY <3>1 DEF Whole
      <3> QED BY <1>0, <1>1, <1>4, <2>2, <3>1, <3>2, JobMoves DEF Unpack, kept, GoesOn, Staged, WholeWhenReady
    <2> QED BY <1>4, <2>1, <2>2 DEF Unpack
  <1>5. CASE WriteMarker(j)
    BY <1>0, <1>1, <1>5, JobMoves DEF WriteMarker, kept, GoesOn, Staged, WholeWhenReady, Place, Job, Hashes
  <1>6. CASE ClearAssets(j)
    BY <1>0, <1>1, <1>6, JobMoves, MissingIsPlace DEF ClearAssets, kept, GoesOn, Staged, WholeWhenReady
  <1>7. CASE Swap(j)
    BY <1>0, <1>1, <1>7, JobMoves, MissingIsPlace DEF Swap, kept, GoesOn, Staged, WholeWhenReady, Whole
  <1>8. CASE JobEnds(j)
    <2>1. CASE Moves(j, "ends", "over") /\ listed' = 0 /\ called' = TRUE
      BY <1>0, <1>1, <1>8, <2>1, JobMoves DEF JobEnds, kept, GoesOn, Staged, WholeWhenReady
    <2>2. CASE Moves(j, "fails", IF listed = j THEN "failed" ELSE "over") /\ UNCHANGED <<listed, called>>
      <3>1. (IF listed = j THEN "failed" ELSE "over") \in {"failed", "over"} OBVIOUS
      <3> QED BY <1>0, <1>1, <1>8, <2>2, <3>1, JobMoves DEF JobEnds, kept, GoesOn, Staged, WholeWhenReady
    <2> QED BY <1>8, <2>1, <2>2 DEF JobEnds
  <1> QED BY <1>2, <1>3, <1>4, <1>5, <1>6, <1>7, <1>8 DEF Downloads

LEMMA PanelDownloadStep ==
    ASSUME DownloadInv, ~Impatient,
           LookForMissing \/ StartDownload \/ PluginsChanged \/ Remove \/ RemoveFiles \/ PanelRestarts
    PROVE  DownloadInv'
  <1> USE DownloadAssumption DEF DownloadInv
  <1>0. /\ declared \in Hashes /\ jobs \in 0..MaxJobs /\ listed \in 0..MaxJobs
        /\ job \in [Jobs -> Job] /\ staging \in Place /\ assets \in Place
        /\ removal \in {"none", "files"} /\ removals \in 0..MaxRemovals /\ panels \in 0..MaxPanels
        /\ called \in BOOLEAN /\ found \in 0..MaxHash
    BY DownloadTypes
  <1>1. CASE LookForMissing
    <2>1. called' \in BOOLEAN BY <1>1, Zenon DEF LookForMissing
    <2>2. found' \in 0..MaxHash BY <1>0, <1>1 DEF LookForMissing, Hashes
    <2>3. DownloadTypeOK' BY <1>0, <1>1, <2>1, <2>2, DownloadTypes DEF LookForMissing, DownloadTypeOK, Job, Place
    <2> QED BY <1>1, <2>3 DEF LookForMissing, JobsOK, GoesOn, Staged, WholeWhenReady
  <1>2. CASE PluginsChanged
    <2>1. called' \in BOOLEAN BY <1>2, Zenon DEF PluginsChanged
    <2>2. declared' \in Hashes BY <1>0, <1>2 DEF PluginsChanged
    <2>3. DownloadTypeOK' BY <1>0, <1>2, <2>1, <2>2, DownloadTypes DEF PluginsChanged, DownloadTypeOK, Job, Place
    <2> QED BY <1>2, <2>3 DEF PluginsChanged, JobsOK, GoesOn, Staged, WholeWhenReady
  <1>3. CASE RemoveFiles
    <2>1. called' \in BOOLEAN BY <1>3, Zenon DEF RemoveFiles
    <2>2. DownloadTypeOK' BY <1>0, <1>3, <2>1, MissingIsPlace, DownloadTypes DEF RemoveFiles, DownloadTypeOK, Job, Place
    <2> QED BY <1>3, <2>2, MissingIsPlace DEF RemoveFiles, JobsOK, GoesOn, Staged, WholeWhenReady
  <1>4. CASE StartDownload
    <2>1. CASE listed # 0 /\ job[listed].at # "failed"
      <3>1. DownloadTypeOK' BY <1>0, <1>4, <2>1, DownloadTypes DEF StartDownload, DownloadTypeOK, Job, Place
      <3> QED BY <1>4, <2>1, <3>1 DEF StartDownload, JobsOK, GoesOn, Staged, WholeWhenReady
    <2>2. CASE ~(listed # 0 /\ job[listed].at # "failed")
      <3> DEFINE i == jobs + 1
                 q == [at |-> "transfers", hash |-> found, cancelled |-> FALSE]
      <3>1. i \in Jobs /\ i \in 0..MaxJobs BY <1>0, <1>4, <2>2 DEF StartDownload, Jobs
      <3>2. q \in Job BY <1>0, <1>4 DEF StartDownload, Job, Steps, Hashes
      <3>3. /\ job' = [job EXCEPT ![i] = q] /\ jobs' = i /\ listed' = i /\ found' = 0
            /\ UNCHANGED <<declared, staging, assets, removal, removals, panels, called>>
        BY <1>4, <2>2 DEF StartDownload
      <3>4. \A k \in Jobs : ~GoesOn(k)
        <4> SUFFICES ASSUME NEW k \in Jobs, GoesOn(k) PROVE FALSE
          OBVIOUS
        <4>1. listed = k /\ k # 0 BY DEF JobsOK, Jobs
        <4> QED BY <2>2, <4>1 DEF GoesOn
      <3>5. DownloadTypeOK'
        BY <1>0, <3>1, <3>2, <3>3, DownloadTypes DEF DownloadTypeOK, Job, Place
      <3>6. job'[i] = q /\ \A k \in Jobs \ {i} : job'[k] = job[k]
        BY <1>0, <3>1, <3>3
      <3>7. JobsOK'
        <4>1. \A k \in Jobs : GoesOn(k)' => k = i BY <3>4, <3>6 DEF GoesOn
        <4>2. \A k \in Jobs : Staged(k)' BY <3>3, <3>6 DEF JobsOK, Staged
        <4>3. \A k \in Jobs : k > jobs' => job'[k].at = "none" BY <1>0, <3>1, <3>3, <3>6 DEF JobsOK, Jobs
        <4> QED BY <1>0, <3>3, <4>1, <4>2, <4>3 DEF JobsOK
      <3> QED BY <3>3, <3>5, <3>7 DEF WholeWhenReady
    <2> QED BY <2>1, <2>2
  <1>5. CASE Remove
    <2>1. ~Unpacking BY <1>5 DEF Remove
    <2>2. \A k \in Jobs : GoesOn(k) => job[k].at = "transfers" /\ listed = k
      BY <2>1 DEF Unpacking, GoesOn, JobsOK
    <2>3. CASE listed = 0
      <3>1. DownloadTypeOK'
        BY <1>0, <1>5, <2>3, DownloadTypes DEF Remove, DownloadTypeOK, Job, Place
      <3> QED BY <1>0, <1>5, <2>3, <3>1 DEF Remove, JobsOK, GoesOn, Staged, WholeWhenReady
    <2>4. CASE listed # 0
      <3> DEFINE q == IF job[listed].at = "failed" THEN [job[listed] EXCEPT !.at = "over"]
                      ELSE [job[listed] EXCEPT !.cancelled = TRUE]
      <3>1. listed \in Jobs BY <1>0, <2>4 DEF Jobs
      <3>2. q \in Job /\ q.hash = job[listed].hash BY <1>0, <3>1 DEF Job, Steps
      <3>3. \/ q.at = "over" /\ job[listed].at = "failed"
            \/ q.at = job[listed].at /\ q.cancelled
        <4>1. job[listed] \in Job BY <1>0, <3>1
        <4>2. CASE job[listed].at = "failed"
          <5>1. q = [job[listed] EXCEPT !.at = "over"] BY <4>2, Zenon
          <5> HIDE DEF q
          <5>2. q.at = "over" BY <4>1, <5>1 DEF Job
          <5> QED BY <4>2, <5>2
        <4>3. CASE job[listed].at # "failed"
          <5>1. q = [job[listed] EXCEPT !.cancelled = TRUE] BY <4>3, Zenon
          <5> HIDE DEF q
          <5> QED BY <4>1, <5>1 DEF Job
        <4> QED BY <4>2, <4>3
      <3>4. job' = [job EXCEPT ![listed] = q] BY <1>0, <1>5, <2>4, <3>1 DEF Remove
      <3> HIDE DEF q
      <3>5. job'[listed] = q /\ \A k \in Jobs \ {listed} : job'[k] = job[k] BY <1>0, <3>1, <3>4
      <3>6. removal' = "files" /\ listed' = 0 /\ removals' \in 0..MaxRemovals
            /\ UNCHANGED <<declared, jobs, staging, assets, panels, called, found>>
        BY <1>0, <1>5 DEF Remove
      <3>7. DownloadTypeOK'
        BY <1>0, <3>1, <3>2, <3>4, <3>6, DownloadTypes DEF DownloadTypeOK, Job, Place
      <3>8. \A k \in Jobs : ~GoesOn(k)'
        BY <2>2, <3>1, <3>3, <3>5 DEF GoesOn
      <3>9. \A k \in Jobs : Staged(k)'
        <4> SUFFICES ASSUME NEW k \in Jobs PROVE Staged(k)'
          OBVIOUS
        <4>1. Staged(k) BY DEF JobsOK
        <4>2. CASE k = listed BY <3>2, <3>3, <3>5, <3>6, <4>1, <4>2 DEF Staged
        <4>3. CASE k # listed BY <3>5, <3>6, <4>1, <4>3 DEF Staged
        <4> QED BY <4>2, <4>3
      <3>10. \A k \in Jobs : k > jobs' => job'[k].at = "none"
        BY <1>0, <3>1, <3>5, <3>6 DEF JobsOK, Jobs
      <3> QED BY <1>0, <3>6, <3>7, <3>8, <3>9, <3>10 DEF JobsOK, WholeWhenReady
    <2> QED BY <2>3, <2>4
  <1>6. CASE PanelRestarts
    <2>1. called' \in BOOLEAN BY <1>6, Zenon DEF PanelRestarts
    <2>2. \A k \in Jobs : [job[k] EXCEPT !.at = "over"] \in Job BY <1>0 DEF Job, Steps
    <2>3. job' \in [Jobs -> Job] /\ \A k \in Jobs : job'[k].at \in {"none", "over"}
      BY <1>0, <1>6, <2>2, FreshIsJob DEF PanelRestarts, Job
    <2>4. DownloadTypeOK'
      BY <1>0, <1>6, <2>1, <2>3, DownloadTypes DEF PanelRestarts, DownloadTypeOK, Job, Place
    <2>5. \A k \in Jobs : k > jobs' => job'[k].at = "none"
      BY <1>0, <1>6, FreshIsJob DEF PanelRestarts, Jobs
    <2> QED BY <1>0, <1>6, <2>3, <2>4, <2>5 DEF PanelRestarts, JobsOK, GoesOn, Staged, WholeWhenReady
  <1> QED BY <1>1, <1>2, <1>3, <1>4, <1>5, <1>6

LEMMA DownloadInvariant ==
    ASSUME ~Impatient PROVE DownloadInit /\ [][DownloadNext]_downloadVars => []DownloadInv
  <1>1. ASSUME DownloadInv, UNCHANGED downloadVars PROVE DownloadInv'
    BY <1>1 DEF DownloadInv, downloadVars, DownloadTypeOK, JobsOK, GoesOn, Staged, WholeWhenReady
  <1>2. DownloadInv /\ [DownloadNext]_downloadVars => DownloadInv'
    BY <1>1, JobStep, PanelDownloadStep DEF DownloadNext
  <1> QED BY DownloadInitial, <1>2, PTL

\* Where the process looks there is all of the archive its marker names or no
\* marker, for any number of jobs, hashes, removals and restarts, if nothing is
\* removed while it is unpacked (fetchPluginDownload).
THEOREM WholeWhenReadyCorrect == ASSUME ~Impatient PROVE DownloadSpec => []WholeWhenReady
  BY DownloadInvariant, PTL DEF DownloadInv, DownloadSpec

----------------------------------------------------------------------------
(* SelfUpdate: an update of the panel                                      *)
----------------------------------------------------------------------------

Releases == 1..MaxRelease
PressSet == [at : {"idle", "checks", "asks", "waits", "reads", "decides"}, expected : 0..MaxRelease, found : 0..MaxRelease]
JobSet == [stage : {"none", "downloading", "installing", "restarting", "installed", "failed"},
           version : 0..MaxRelease, old : BOOLEAN]
RunSet == [at : {"none", "downloading", "verifies", "swaps", "installed", "restarts", "hangs"}, version : 0..MaxRelease]

\* A run whose time for the restart is up does nothing any more.
Idle(n) == n.at \in {"none", "hangs"}

\* What a run that has got so far knows of the job and of the two files.
RunOK(n, j, b, o) ==
    /\ n.at # "none" => n.version \in Releases
    /\ n.at = "downloading" => j.stage = "downloading" /\ j.version = n.version
    /\ n.at \in {"verifies", "swaps", "installed"} => j.stage = "installing" /\ j.version = n.version
    /\ n.at = "restarts" => j.stage = "restarting"
    /\ ~Idle(n) => ~j.old
    /\ n.at = "swaps" => b = NoFile /\ o # NoFile

Alone(r) == \A q \in Runs \ {r} : Idle(run[q])

RunsOK ==
    /\ run \in [Runs -> RunSet] /\ updateJob \in JobSet
    /\ \A r \in Runs : RunOK(run[r], updateJob, binary, backup) /\ (Alone(r) \/ Idle(run[r]))

FilesOK ==
    /\ {release, version} \subseteq Releases /\ {binary, backup} \subseteq Releases \cup {NoFile}
    /\ worked \subseteq Releases /\ piled \in BOOLEAN

PressesOK ==
    /\ press \in [Presses -> PressSet] /\ answer \in 0..MaxRelease
    /\ asker \subseteq Presses /\ \A p \in asker : press[p].at = "asks"

UpdateInv == RunsOK /\ FilesOK /\ PressesOK /\ Startable /\ Recoverable

LEMMA NoFileIsNone == NoFile \notin Releases /\ 1 \in Releases /\ Releases \subseteq 0..MaxRelease /\ 0 \in 0..MaxRelease
BY UpdateAssumption DEF Releases

LEMMA NothingIsSomething == NoJob \in JobSet /\ Unpressed \in PressSet /\ NotRun \in RunSet
<1>1. 0 \in 0..MaxRelease /\ FALSE \in BOOLEAN
    BY NoFileIsNone
<1>2. NoJob \in JobSet
    BY <1>1, Zenon DEF NoJob, JobSet
<1>3. Unpressed \in PressSet /\ NotRun \in RunSet
    BY <1>1 DEF Unpressed, PressSet, NotRun, RunSet
<1>4. QED BY <1>2, <1>3

\* A run goes on, or is over, and says so of the job.
LEMMA RunGoesOn ==
    ASSUME UpdateInv, NEW r \in Runs, Alone(r), NEW n \in RunSet, run' = [run EXCEPT ![r] = n],
           updateJob' \in JobSet, RunOK(n, updateJob', binary', backup'), FilesOK',
           binary' # NoFile \/ n.at = "swaps", Recoverable', UNCHANGED <<press, answer, asker>>
    PROVE  UpdateInv'
<1>1. run' \in [Runs -> RunSet] /\ run'[r] = n /\ \A q \in Runs \ {r} : run'[q] = run[q]
    BY DEF UpdateInv, RunsOK
<1>2. \A q \in Runs \ {r} : Idle(run'[q]) /\ RunOK(run'[q], updateJob', binary', backup')
    BY <1>1 DEF UpdateInv, RunsOK, RunOK, Alone, Idle
<1>3. \A q \in Runs : RunOK(run'[q], updateJob', binary', backup') /\ ((\A x \in Runs \ {q} : Idle(run'[x])) \/ Idle(run'[q]))
    BY <1>1, <1>2
<1>4. RunsOK'
    BY <1>1, <1>3 DEF RunsOK, Alone
<1>5. Startable'
    BY <1>1 DEF Startable
<1>6. PressesOK'
    BY DEF UpdateInv, PressesOK
<1>7. QED BY <1>4, <1>5, <1>6 DEF UpdateInv

\* What a run says is of a job that is there.
LEMMA SaysOK ==
    ASSUME UpdateInv, NEW r \in Runs, run[r].at \in {"downloading", "verifies", "swaps", "installed", "restarts"},
           NEW s \in {"installing", "failed", "installed", "restarting"}, Says(s)
    PROVE  /\ updateJob' \in JobSet /\ updateJob'.stage = s /\ updateJob'.version = updateJob.version
           /\ updateJob'.old = updateJob.old
<1>1. updateJob \in JobSet /\ updateJob.stage # "none"
    BY DEF UpdateInv, RunsOK, RunOK
<1> DEFINE j == [updateJob EXCEPT !.stage = s]
<1>2. updateJob' = j
    BY <1>1 DEF Says
<1>3. s \in {"none", "downloading", "installing", "restarting", "installed", "failed"}
    OBVIOUS
<1>4. j \in JobSet
    BY <1>1, <1>3, Zenon DEF JobSet
<1>5. j.stage = s /\ j.version = updateJob.version /\ j.old = updateJob.old
    BY <1>1, Zenon DEF JobSet
<1>6. QED BY <1>2, <1>4, <1>5

LEMMA RunStep ==
    ASSUME UpdateInv, ~SlowRestart, NEW r \in Runs, Updates(r) \/ RestartFails(r)
    PROVE  UpdateInv'
<1> DEFINE N(s) == [run[r] EXCEPT !.at = s]
<1>1. /\ run[r] \in RunSet /\ RunOK(run[r], updateJob, binary, backup)
      /\ run[r].at \in {"downloading", "verifies", "swaps", "installed", "restarts"}
      /\ UNCHANGED <<press, answer, asker>>
    BY DEF UpdateInv, RunsOK, Updates, RestartFails, Download, RunFails, MoveAside, PutBack, PutNew, CannotRestart,
           WillRestart, RunMoves
<1>2. Alone(r)
    BY <1>1 DEF UpdateInv, RunsOK, Idle
<1>3. ASSUME NEW s \in {"none", "verifies", "swaps", "installed", "restarts"}
      PROVE  N(s) \in RunSet /\ N(s).at = s /\ N(s).version = run[r].version /\ run[r].version \in Releases
    <2>1. s \in {"none", "downloading", "verifies", "swaps", "installed", "restarts", "hangs"}
        OBVIOUS
    <2>2. N(s) \in RunSet
        BY <1>1, <2>1, Zenon DEF RunSet
    <2>3. N(s).at = s /\ N(s).version = run[r].version
        BY <1>1, Zenon DEF RunSet
    <2>4. run[r].version \in Releases
        BY <1>1 DEF RunOK, Idle
    <2>5. QED BY <2>2, <2>3, <2>4
<1>4. ASSUME NEW s \in {"none", "verifies", "restarts"}, run' = [run EXCEPT ![r] = N(s)], run[r].at # "swaps",
             NEW stage \in {"installing", "failed", "installed", "restarting"}, Says(stage), UNCHANGED <<release, fileVars>>,
             s = "verifies" => stage = "installing" /\ run[r].at = "downloading", s = "restarts" => stage = "restarting"
      PROVE  UpdateInv'
    <2>1. /\ updateJob' \in JobSet /\ updateJob'.stage = stage /\ updateJob'.version = updateJob.version
          /\ updateJob'.old = updateJob.old
        BY <1>1, <1>4, SaysOK
    <2>2. N(s) \in RunSet /\ N(s).at = s /\ N(s).version = run[r].version /\ run[r].version \in Releases
        BY <1>3
    <2>3. ~updateJob.old
        BY <1>1 DEF RunOK, Idle
    <2>4. FilesOK' /\ Recoverable' /\ binary' = binary /\ backup' = backup
        BY <1>4 DEF UpdateInv, FilesOK, Recoverable, fileVars
    <2>5. binary # NoFile
        BY <1>2, <1>4 DEF UpdateInv, Startable, Alone, Idle
    <2>6. QED
        <3> DEFINE n == N(s)
        <3>1. n \in RunSet /\ n.at = s /\ n.version = run[r].version /\ run' = [run EXCEPT ![r] = n]
            BY <1>4, <2>2
        <3> HIDE DEF n
        <3>2. s = "verifies" => updateJob.version = run[r].version
            BY <1>1, <1>4 DEF RunOK, Idle
        <3>3. RunOK(n, updateJob', binary', backup')
            <4>1. ~updateJob'.old
                BY <2>1, <2>3
            <4>2. QED BY <1>4, <2>1, <2>2, <3>1, <3>2, <4>1 DEF RunOK, Idle
        <3>4. QED BY <1>1, <1>2, <2>1, <2>4, <2>5, <3>1, <3>3, RunGoesOn
<1>5. CASE Download(r)
    BY <1>1, <1>4, <1>5 DEF Download, RunMoves
<1>6. CASE RunFails(r)
    <2>1. run[r].at # "swaps" /\ run' = [run EXCEPT ![r] = N("none")] /\ Says("failed") /\ UNCHANGED <<release, fileVars>>
        BY <1>1, <1>6 DEF RunFails, RunMoves, UpdateInv, RunsOK
    <2>2. QED BY <1>4, <2>1
<1>7. CASE MoveAside(r)
    <2>1. /\ run[r].at = "verifies" /\ backup' = binary /\ binary' = NoFile /\ piled' = (piled \/ binary \notin worked)
          /\ UNCHANGED <<release, version, worked, updateJob>> /\ run' = [run EXCEPT ![r] = N("swaps")]
        BY <1>1, <1>7 DEF MoveAside, RunMoves, UpdateInv, RunsOK
    <2>2. binary # NoFile
        BY <1>2, <2>1 DEF UpdateInv, Startable, Alone, Idle
    <2> DEFINE n == N("swaps")
    <2>3. n \in RunSet /\ n.at = "swaps" /\ n.version = run[r].version /\ run[r].version \in Releases /\ run' = [run EXCEPT ![r] = n]
        BY <1>3, <2>1
    <2> HIDE DEF n
    <2>4. RunOK(n, updateJob', binary', backup')
        BY <1>1, <2>1, <2>2, <2>3 DEF RunOK, Idle
    <2>5. piled' \in BOOLEAN
        BY <2>1
    <2>6. {release', version'} \subseteq Releases /\ {binary', backup'} \subseteq Releases \cup {NoFile} /\ worked' \subseteq Releases
        BY <2>1 DEF UpdateInv, FilesOK
    <2>7. FilesOK'
        BY <2>5, <2>6 DEF FilesOK
    <2>8. Recoverable'
        BY <2>1 DEF Recoverable
    <2>9. updateJob' \in JobSet
        BY <2>1 DEF UpdateInv, RunsOK
    <2>10. QED BY <1>1, <1>2, <2>3, <2>4, <2>7, <2>8, <2>9, RunGoesOn
<1>8. CASE PutBack(r)
    <2>1. /\ run[r].at = "swaps" /\ Says("failed") /\ binary' = backup /\ backup' = NoFile
          /\ UNCHANGED <<release, version, worked, piled>> /\ run' = [run EXCEPT ![r] = N("none")]
        BY <1>1, <1>8 DEF PutBack, RunMoves, UpdateInv, RunsOK
    <2>2. binary = NoFile /\ backup # NoFile
        BY <1>1, <2>1 DEF RunOK, Idle
    <2> DEFINE n == N("none")
    <2>3. n \in RunSet /\ n.at = "none" /\ run' = [run EXCEPT ![r] = n]
        BY <1>3, <2>1
    <2> HIDE DEF n
    <2>4. RunOK(n, updateJob', binary', backup')
        BY <2>3 DEF RunOK, Idle
    <2>5. updateJob' \in JobSet
        BY <1>1, <2>1, SaysOK
    <2>6. {release', version'} \subseteq Releases /\ {binary', backup'} \subseteq Releases \cup {NoFile} /\ worked' \subseteq Releases
        BY <2>1 DEF UpdateInv, FilesOK
    <2>7. piled' = piled /\ piled \in BOOLEAN
        BY <2>1 DEF UpdateInv, FilesOK
    <2>8. FilesOK'
        BY <2>6, <2>7 DEF FilesOK
    <2>9. Recoverable'
        BY <2>1, <2>2, NoFileIsNone DEF UpdateInv, FilesOK, Recoverable
    <2>10. QED BY <1>1, <1>2, <2>1, <2>2, <2>3, <2>4, <2>5, <2>8, <2>9, RunGoesOn
<1>9. CASE PutNew(r)
    <2>1. /\ run[r].at = "swaps" /\ binary' = run[r].version
          /\ UNCHANGED <<release, version, backup, worked, piled, updateJob>> /\ run' = [run EXCEPT ![r] = N("installed")]
        BY <1>1, <1>9 DEF PutNew, RunMoves, UpdateInv, RunsOK
    <2>2. binary = NoFile /\ backup # NoFile
        BY <1>1, <2>1 DEF RunOK, Idle
    <2> DEFINE n == N("installed")
    <2>3. n \in RunSet /\ n.at = "installed" /\ n.version = run[r].version /\ run[r].version \in Releases /\ run' = [run EXCEPT ![r] = n]
        BY <1>3, <2>1
    <2> HIDE DEF n
    <2>4. RunOK(n, updateJob', binary', backup')
        BY <1>1, <2>1, <2>3 DEF RunOK, Idle
    <2>5. updateJob' \in JobSet
        BY <2>1 DEF UpdateInv, RunsOK
    <2>6. {release', version'} \subseteq Releases /\ {binary', backup'} \subseteq Releases \cup {NoFile} /\ worked' \subseteq Releases
        BY <2>1, <2>3 DEF UpdateInv, FilesOK
    <2>7. piled' = piled /\ piled \in BOOLEAN
        BY <2>1 DEF UpdateInv, FilesOK
    <2>8. FilesOK'
        BY <2>6, <2>7 DEF FilesOK
    <2>9. Recoverable' /\ binary' # NoFile
        BY <2>1, <2>2, <2>3, NoFileIsNone DEF UpdateInv, FilesOK, Recoverable
    <2>10. QED BY <1>1, <1>2, <2>3, <2>4, <2>5, <2>8, <2>9, RunGoesOn
<1>10. CASE CannotRestart(r)
    <2>1. run[r].at # "swaps" /\ run' = [run EXCEPT ![r] = N("none")] /\ Says("installed") /\ UNCHANGED <<release, fileVars>>
        BY <1>1, <1>10 DEF CannotRestart, RunMoves, UpdateInv, RunsOK
    <2>2. QED BY <1>4, <2>1
<1>11. CASE WillRestart(r)
    <2>1. run[r].at = "installed" /\ run' = [run EXCEPT ![r] = N("restarts")] /\ Says("restarting") /\ UNCHANGED <<release, fileVars>>
        BY <1>1, <1>11 DEF WillRestart, RunMoves, UpdateInv, RunsOK
    <2>2. QED BY <1>4, <2>1
<1>12. CASE RestartFails(r)
    <2>1. run[r].at # "swaps" /\ run' = [run EXCEPT ![r] = N("none")] /\ Says("installed") /\ UNCHANGED <<release, fileVars>>
        BY <1>1, <1>12 DEF RestartFails, UpdateInv, RunsOK
    <2>2. QED BY <1>4, <2>1
<1>13. QED BY <1>5, <1>6, <1>7, <1>8, <1>9, <1>10, <1>11, <1>12 DEF Updates

\* What presses do touches no run, unless one starts.
LEMMA PressStep ==
    ASSUME UpdateInv, NEW p \in Presses, UNCHANGED <<release, fileVars, updateJob, run>>, PressesOK'
    PROVE  UpdateInv'
<1>1. RunsOK' /\ FilesOK' /\ Startable' /\ Recoverable'
    <2>1. UNCHANGED <<release, version, binary, backup, worked, piled, updateJob, run>>
        BY DEF fileVars
    <2>2. RunsOK'
        BY <2>1 DEF UpdateInv, RunsOK, Alone
    <2>3. FilesOK' /\ Startable' /\ Recoverable'
        BY <2>1 DEF UpdateInv, FilesOK, Startable, Recoverable
    <2>4. QED BY <2>2, <2>3
<1>2. QED BY <1>1 DEF UpdateInv

LEMMA PressMoves ==
    ASSUME PressesOK, NEW p \in Presses, NEW n \in PressSet, press' = [press EXCEPT ![p] = n],
           answer' \in 0..MaxRelease, asker' \subseteq Presses, asker' \subseteq asker \cup {p},
           p \in asker' => n.at = "asks"
    PROVE  PressesOK'
<1>1. press' \in [Presses -> PressSet] /\ press'[p] = n /\ \A q \in Presses \ {p} : press'[q] = press[q]
    BY DEF PressesOK
<1>2. \A q \in asker' : press'[q].at = "asks"
    BY <1>1 DEF PressesOK
<1>3. QED BY <1>1, <1>2 DEF PressesOK

LEMMA PressTurns ==
    ASSUME PressesOK, NEW p \in Presses, NEW from, NEW to \in {"asks", "waits"}, Turns(p, from, to)
    PROVE  LET n == [press[p] EXCEPT !.at = to] IN n \in PressSet /\ n.at = to /\ press' = [press EXCEPT ![p] = n]
<1> DEFINE n == [press[p] EXCEPT !.at = to]
<1>1. press[p] \in PressSet /\ to \in {"idle", "checks", "asks", "waits", "reads", "decides"}
    BY DEF PressesOK
<1>2. n \in PressSet /\ n.at = to
    BY <1>1 DEF PressSet
<1>3. press' = [press EXCEPT ![p] = n]
    BY DEF Turns, PressesOK
<1>4. QED BY <1>2, <1>3

LEMMA AppliesOK ==
    ASSUME UpdateInv, NEW p \in Presses, Applies(p) \/ \E shown \in Releases : Press(p, shown)
    PROVE  UpdateInv'
<1>1. /\ PressesOK /\ press \in [Presses -> PressSet] /\ press[p] \in PressSet /\ Unpressed \in PressSet
      /\ answer \in 0..MaxRelease /\ release \in Releases /\ asker \subseteq Presses
      /\ \A q \in asker : press[q].at = "asks"
    <2>1. Unpressed \in PressSet
        BY NoFileIsNone DEF Unpressed, PressSet
    <2>2. QED BY <2>1 DEF UpdateInv, PressesOK, FilesOK
<1>2. ASSUME NEW shown \in Releases, Press(p, shown) PROVE UpdateInv'
    <2> DEFINE n == IF Active THEN press[p] ELSE [at |-> "checks", expected |-> shown, found |-> 0]
    <2>1. n \in PressSet
        BY <1>1, NoFileIsNone DEF PressSet
    <2>2. press' = [press EXCEPT ![p] = n] /\ press[p].at = "idle" /\ UNCHANGED <<release, fileVars, asker, answer, updateJob, run>>
        BY <1>2 DEF Press
    <2> HIDE DEF n
    <2>3. p \notin asker
        BY <1>1, <2>2
    <2>4. PressesOK'
        BY <1>1, <2>1, <2>2, <2>3, PressMoves
    <2>5. QED BY <2>2, <2>4, PressStep
<1>3. CASE Ask(p)
    <2>1. /\ Turns(p, "checks", "asks") /\ asker' = {p}
          /\ UNCHANGED <<release, fileVars, answer, updateJob, run>>
        BY <1>3 DEF Ask
    <2> DEFINE n == [press[p] EXCEPT !.at = "asks"]
    <2>2. n \in PressSet /\ n.at = "asks" /\ press' = [press EXCEPT ![p] = n]
        BY <1>1, <2>1, PressTurns
    <2> HIDE DEF n
    <2>3. PressesOK'
        BY <1>1, <2>1, <2>2, PressMoves
    <2>4. QED BY <2>1, <2>3, PressStep
<1>4. CASE WaitForAnswer(p)
    <2>1. Turns(p, "checks", "waits") /\ press[p].at = "checks" /\ UNCHANGED <<release, fileVars, asker, answer, updateJob, run>>
        BY <1>4 DEF WaitForAnswer, Turns
    <2> DEFINE n == [press[p] EXCEPT !.at = "waits"]
    <2>2. n \in PressSet /\ press' = [press EXCEPT ![p] = n]
        BY <1>1, <2>1, PressTurns
    <2> HIDE DEF n
    <2>3. p \notin asker
        BY <1>1, <2>1
    <2>4. PressesOK'
        BY <1>1, <2>1, <2>2, <2>3, PressMoves
    <2>5. QED BY <2>1, <2>4, PressStep
<1>5. CASE Answered(p)
    <2>1. PICK heard \in {release, 0} : answer' = heard /\ press' = [Wakes EXCEPT ![p].at = "decides", ![p].found = heard]
        BY <1>5 DEF Answered
    <2>2. asker' = {} /\ UNCHANGED <<release, fileVars, updateJob, run>>
        BY <1>5 DEF Answered
    <2>3. heard \in 0..MaxRelease
        BY <1>1, NoFileIsNone
    <2>4. Wakes \in [Presses -> PressSet]
        <3>1. ASSUME NEW q \in Presses
              PROVE  (IF press[q].at = "waits" THEN [press[q] EXCEPT !.at = "reads"] ELSE press[q]) \in PressSet
            BY <1>1 DEF PressSet
        <3>2. QED BY <3>1 DEF Wakes
    <2> DEFINE n == [Wakes[p] EXCEPT !.at = "decides", !.found = heard]
    <2>5. n \in PressSet
        BY <2>3, <2>4 DEF PressSet
    <2>6. press' = [Wakes EXCEPT ![p] = n]
        BY <2>1, <2>4 DEF PressSet
    <2> HIDE DEF n
    <2>7. press' \in [Presses -> PressSet]
        BY <2>4, <2>5, <2>6
    <2>8. PressesOK'
        BY <2>1, <2>2, <2>3, <2>7 DEF PressesOK
    <2>9. QED BY <2>2, <2>8, PressStep
<1>6. CASE ReadAnswer(p)
    <2> DEFINE n == [press[p] EXCEPT !.at = "decides", !.found = answer]
    <2>1. press[p].at = "reads" /\ UNCHANGED <<release, fileVars, asker, answer, updateJob, run>>
        BY <1>6 DEF ReadAnswer
    <2>2. n \in PressSet
        BY <1>1 DEF PressSet
    <2>3. press' = [press EXCEPT ![p] = n]
        BY <1>1, <1>6 DEF ReadAnswer, PressSet
    <2> HIDE DEF n
    <2>4. p \notin asker
        BY <1>1, <2>1
    <2>5. PressesOK'
        BY <1>1, <2>1, <2>2, <2>3, <2>4, PressMoves
    <2>6. QED BY <2>1, <2>5, PressStep
<1>7. CASE Decides(p)
    <2>0. press[p].at = "decides" /\ press' = [press EXCEPT ![p] = Unpressed] /\ UNCHANGED <<asker, answer>>
        BY <1>7 DEF Decides, Refuse, Busy, StartRun, Starts
    <2>1. p \notin asker
        BY <1>1, <2>0
    <2>2. PressesOK'
        BY <1>1, <2>0, <2>1, PressMoves
    <2>3. CASE UNCHANGED <<release, fileVars, updateJob, run>>
        BY <2>2, <2>3, PressStep
    <2>4. CASE StartRun(p)
        <3>1. ~Refused(p) /\ ~Active /\ press[p].found \in Releases
            <4>1. ~Refused(p) /\ ~Active
                BY <2>4 DEF StartRun
            <4>2. press[p].found \in 0..MaxRelease /\ version \in Releases
                BY <1>1 DEF PressSet, UpdateInv, FilesOK
            <4>3. QED BY <4>1, <4>2, UpdateAssumption DEF Refused, Releases
        <3>2. PICK r \in Unused : run' = [run EXCEPT ![r] = [at |-> "downloading", version |-> press[p].found]]
            BY <2>4 DEF StartRun, Starts
        <3>3. /\ updateJob' = [stage |-> "downloading", version |-> press[p].found, old |-> FALSE]
              /\ UNCHANGED <<release, version, binary, backup, worked, piled>>
            BY <2>4 DEF StartRun, Starts, fileVars
        <3> DEFINE n == [at |-> "downloading", version |-> press[p].found]
        <3>4. updateJob' \in JobSet
            <4>1. press[p].found \in 0..MaxRelease /\ FALSE \in BOOLEAN
                BY <3>1, NoFileIsNone
            <4>2. QED BY <3>3, <4>1, Zenon DEF JobSet
        <3>5. n \in RunSet /\ n.at = "downloading" /\ n.version = press[p].found
            BY <3>1, NoFileIsNone DEF RunSet
        <3>6. updateJob'.stage = "downloading" /\ updateJob'.version = press[p].found /\ ~updateJob'.old
            BY <3>3
        <3>7. r \in Runs /\ \A q \in Runs : Idle(run[q])
            <4>1. \A q \in Runs : RunOK(run[q], updateJob, binary, backup) /\ run[q] \in RunSet
                BY DEF UpdateInv, RunsOK
            <4>2. updateJob.stage \notin {"downloading", "installing"} /\ (updateJob.stage = "restarting" => updateJob.old)
                BY <3>1 DEF Active
            <4>3. QED BY <4>1, <4>2 DEF Unused, RunOK, RunSet, Idle
        <3> HIDE DEF n
        <3>8. run' \in [Runs -> RunSet] /\ run'[r] = n /\ \A q \in Runs \ {r} : run'[q] = run[q]
            BY <3>2, <3>5, <3>7 DEF UpdateInv, RunsOK, n
        <3>9. RunOK(n, updateJob', binary', backup')
            BY <3>1, <3>5, <3>6 DEF RunOK
        <3>10. \A q \in Runs \ {r} : RunOK(run'[q], updateJob', binary', backup') /\ Idle(run'[q])
            BY <3>7, <3>8 DEF UpdateInv, RunsOK, RunOK, Idle
        <3>11. \A q \in Runs : RunOK(run'[q], updateJob', binary', backup') /\ ((\A x \in Runs \ {q} : Idle(run'[x])) \/ Idle(run'[q]))
            BY <3>8, <3>9, <3>10
        <3>12. RunsOK'
            BY <3>4, <3>8, <3>11 DEF RunsOK, Alone
        <3>13. Startable'
            <4>1. binary # NoFile
                BY <3>7 DEF UpdateInv, Startable, Idle
            <4>2. QED BY <3>3, <4>1 DEF Startable
        <3>14. FilesOK' /\ Recoverable'
            BY <3>3 DEF UpdateInv, FilesOK, Recoverable
        <3>15. QED BY <2>2, <3>12, <3>13, <3>14 DEF UpdateInv
    <2>5. QED BY <1>7, <2>3, <2>4 DEF Decides, Refuse, Busy
<1>8. QED BY <1>2, <1>3, <1>4, <1>5, <1>6, <1>7 DEF Applies

LEMMA PanelUpdateStep ==
    ASSUME UpdateInv, Released \/ GracePasses \/ UpdateRestarts \/ UNCHANGED updateVars
    PROVE  UpdateInv'
<1>1. CASE UNCHANGED updateVars
    <2>1. UNCHANGED <<release, version, binary, backup, worked, piled, asker, answer, press, updateJob, run>>
        BY <1>1 DEF updateVars
    <2>2. RunsOK' /\ FilesOK' /\ PressesOK'
        BY <2>1 DEF UpdateInv, RunsOK, FilesOK, PressesOK, Alone
    <2>3. Startable' /\ Recoverable'
        BY <2>1 DEF UpdateInv, Startable, Recoverable
    <2>4. QED BY <2>2, <2>3 DEF UpdateInv
<1>2. CASE Released
    <2>1. UNCHANGED <<version, binary, backup, worked, piled, asker, answer, press, updateJob, run>>
        BY <1>2 DEF Released, fileVars
    <2>2. release' \in Releases
        BY <1>2, UpdateAssumption DEF Released, UpdateInv, FilesOK, Releases
    <2>3. RunsOK' /\ PressesOK'
        BY <2>1 DEF UpdateInv, RunsOK, PressesOK, Alone
    <2>4. FilesOK'
        <3>1. piled' \in BOOLEAN
            BY <2>1 DEF UpdateInv, FilesOK
        <3>2. QED BY <2>1, <2>2, <3>1 DEF UpdateInv, FilesOK
    <2>5. Startable' /\ Recoverable'
        BY <2>1 DEF UpdateInv, Startable, Recoverable
    <2>6. QED BY <2>3, <2>4, <2>5 DEF UpdateInv
<1>3. CASE GracePasses
    <2> DEFINE j == [updateJob EXCEPT !.old = TRUE]
               N(r) == IF run[r].at = "restarts" THEN [run[r] EXCEPT !.at = "hangs"] ELSE run[r]
    <2>1. updateJob.stage = "restarting" /\ updateJob' = j /\ run' = [r \in Runs |-> N(r)]
          /\ UNCHANGED <<release, version, binary, backup, worked, piled, asker, answer, press>>
        BY <1>3 DEF GracePasses, fileVars
    <2>2. j \in JobSet
        <3>1. updateJob \in JobSet /\ TRUE \in BOOLEAN
            BY DEF UpdateInv, RunsOK
        <3>2. QED BY <3>1, Zenon DEF JobSet
    <2>3. ASSUME NEW r \in Runs PROVE N(r) \in RunSet /\ Idle(N(r)) /\ RunOK(N(r), j, binary, backup)
        <3>1. run[r] \in RunSet /\ RunOK(run[r], updateJob, binary, backup)
            BY DEF UpdateInv, RunsOK
        <3>2. CASE run[r].at = "restarts"
            <4>1. N(r) \in RunSet /\ N(r).at = "hangs" /\ N(r).version = run[r].version
                BY <3>1, <3>2 DEF RunSet
            <4>2. QED BY <3>1, <3>2, <4>1 DEF RunOK, Idle
        <3>3. CASE run[r].at # "restarts"
            <4>1. N(r) = run[r] /\ Idle(run[r])
                BY <2>1, <3>1, <3>3 DEF RunOK, RunSet, Idle
            <4>2. QED BY <3>1, <4>1 DEF RunOK, Idle
        <3>4. QED BY <3>2, <3>3
    <2> HIDE DEF j, N
    <2>4. RunsOK'
        BY <2>1, <2>2, <2>3 DEF RunsOK
    <2>5. FilesOK' /\ PressesOK' /\ Recoverable'
        BY <2>1 DEF UpdateInv, FilesOK, PressesOK, Recoverable
    <2>6. Startable'
        <3>1. \A r \in Runs : run[r].at # "swaps"
            BY <2>1 DEF UpdateInv, RunsOK, RunOK
        <3>2. QED BY <2>1, <3>1 DEF UpdateInv, Startable
    <2>7. QED BY <2>4, <2>5, <2>6 DEF UpdateInv
<1>4. CASE UpdateRestarts
    <2>1. /\ binary # NoFile /\ version' = binary /\ worked' = worked \cup {binary} /\ piled' = FALSE
          /\ asker' = {} /\ updateJob' = NoJob
          /\ press' = [p \in Presses |-> Unpressed] /\ run' = [r \in Runs |-> NotRun]
          /\ UNCHANGED <<release, binary, backup, answer>>
        BY <1>4 DEF UpdateRestarts
    <2>2. RunsOK' /\ PressesOK'
        BY <2>1, NothingIsSomething DEF UpdateInv, PressesOK, RunsOK, RunOK, NotRun, Idle
    <2>3. FilesOK'
        <3>1. piled' \in BOOLEAN
            BY <2>1
        <3>2. {release', version'} \subseteq Releases /\ {binary', backup'} \subseteq Releases \cup {NoFile} /\ worked' \subseteq Releases
            BY <2>1 DEF UpdateInv, FilesOK
        <3>3. QED BY <3>1, <3>2 DEF FilesOK
    <2>4. Startable' /\ Recoverable'
        BY <2>1 DEF Startable, Recoverable
    <2>5. QED BY <2>2, <2>3, <2>4 DEF UpdateInv
<1>5. QED BY <1>1, <1>2, <1>3, <1>4

LEMMA UpdateBegins ==
    ASSUME UpdateInit
    PROVE  UpdateInv
<1>1. /\ release = 1 /\ version = 1 /\ binary = 1 /\ backup = NoFile /\ worked = {1} /\ piled = FALSE
      /\ asker = {} /\ answer = 0 /\ updateJob = NoJob
      /\ press = [p \in Presses |-> Unpressed] /\ run = [r \in Runs |-> NotRun]
    BY DEF UpdateInit
<1>2. NoJob \in JobSet /\ Unpressed \in PressSet /\ NotRun \in RunSet
    BY NothingIsSomething
<1>3. RunsOK
    BY <1>1, <1>2 DEF RunsOK, RunOK, NotRun, Idle
<1>4. FilesOK
    <2>1. piled \in BOOLEAN
        BY <1>1
    <2>2. QED BY <1>1, <2>1, NoFileIsNone DEF FilesOK
<1>5. PressesOK
    BY <1>1, <1>2, NoFileIsNone DEF PressesOK
<1>6. Startable /\ Recoverable
    BY <1>1, NoFileIsNone DEF Startable, Recoverable
<1>7. QED BY <1>3, <1>4, <1>5, <1>6 DEF UpdateInv

\* An update keeps its files and its record in order, as long as systemctl says no
\* only within the grace.
LEMMA UpdateInvariant ==
    ASSUME ~SlowRestart PROVE UpdateInit /\ [][UpdateNext]_updateVars => []UpdateInv
<1>1. UpdateInv /\ [UpdateNext]_updateVars => UpdateInv'
    <2> SUFFICES ASSUME UpdateInv, [UpdateNext]_updateVars PROVE UpdateInv'
        OBVIOUS
    <2>1. ASSUME NEW p \in Presses, Applies(p) \/ \E shown \in 1..MaxRelease : Press(p, shown) PROVE UpdateInv'
        BY <2>1, AppliesOK DEF Releases
    <2>2. ASSUME NEW r \in Runs, Updates(r) \/ RestartFails(r) PROVE UpdateInv'
        BY <2>2, RunStep
    <2>3. ASSUME Released \/ GracePasses \/ UpdateRestarts \/ UNCHANGED updateVars PROVE UpdateInv'
        BY <2>3, PanelUpdateStep
    <2>4. QED BY <2>1, <2>2, <2>3 DEF UpdateNext
<1>2. QED BY UpdateBegins, <1>1, PTL

LEMMA UpdateInvType == UpdateInv => UpdateTypeOK
<1> SUFFICES ASSUME UpdateInv PROVE UpdateTypeOK
    OBVIOUS
<1>1. {release, version} \subseteq 1..MaxRelease /\ {binary, backup} \subseteq 1..MaxRelease \cup {NoFile} /\ worked \subseteq 1..MaxRelease
    BY DEF UpdateInv, FilesOK, Releases
<1>2. piled \in BOOLEAN
    BY DEF UpdateInv, FilesOK
<1>3. answer \in 0..MaxRelease /\ asker \subseteq Presses /\ press \in [Presses -> PressSet] /\ \A p \in asker : press[p].at = "asks"
    BY DEF UpdateInv, PressesOK
<1>4. updateJob \in JobSet /\ run \in [Runs -> RunSet]
    BY DEF UpdateInv, RunsOK
<1>5. QED BY <1>1, <1>2, <1>3, <1>4, Zenon DEF UpdateTypeOK, PressSet, JobSet, RunSet

LEMMA UpdateInvSafe == UpdateInv => OneUpdate /\ Startable /\ Recoverable
<1> SUFFICES ASSUME UpdateInv PROVE OneUpdate
    BY DEF UpdateInv
<1> SUFFICES ASSUME NEW r \in Runs, run[r].at \in {"downloading", "verifies", "swaps"}
             PROVE  /\ updateJob.stage \in {"downloading", "installing"} /\ updateJob.version = run[r].version
                    /\ \A q \in Runs \ {r} : run[q].at \in {"none", "hangs"}
    BY DEF OneUpdate
<1>1. RunOK(run[r], updateJob, binary, backup) /\ Alone(r)
    BY DEF UpdateInv, RunsOK, Idle
<1>2. QED BY <1>1 DEF RunOK, Alone, Idle

\* There is one update at a time and the record is of it, there is a binary to
\* start but between the two renames, and one that has run to go back to unless an
\* update was put over one that has not: for any number of presses, runs, releases
\* and restarts, if systemctl says no only within restartGrace (runUpdate,
\* installAt).
THEOREM UpdateSafe ==
    ASSUME ~SlowRestart PROVE UpdateSpec => [](OneUpdate /\ Startable /\ Recoverable)
BY UpdateInvSafe, UpdateInvariant, PTL DEF UpdateSpec

----------------------------------------------------------------------------
(* ChildParts: the parts side by side                                      *)
----------------------------------------------------------------------------

\* Side by side each part does what it does alone.
LEMMA PartsApart ==
    PartsSpec => /\ Safety
                 /\ PluginInit /\ [][PluginNext]_pluginVars
                 /\ DownloadInit /\ [][DownloadNext]_downloadVars
                 /\ UpdateInit /\ [][UpdateNext]_updateVars
<1>1. PartsInit => Init /\ PluginInit /\ DownloadInit /\ UpdateInit
    BY DEF PartsInit
<1>2. [PartsNext]_partsVars
          => [Next]_vars /\ [PluginNext]_pluginVars /\ [DownloadNext]_downloadVars /\ [UpdateNext]_updateVars
    BY DEF PartsNext, partsVars
<1>3. QED BY <1>1, <1>2, PTL DEF PartsSpec, Safety

\* The types of the parts, for any number of handlers, supervisors, jobs, presses
\* and runs, if nothing is removed while it is unpacked and systemctl says no only
\* within the grace.
THEOREM PartsTypeCorrect == ASSUME ~Impatient, ~SlowRestart PROVE PartsSpec => []PartsTypeOK
<1>1. ProcessInv => PluginTypeOK
    BY DEF ProcessInv
<1>2. DownloadInv => DownloadTypeOK
    BY DEF DownloadInv
<1>3. PluginTypeOK /\ DownloadTypeOK /\ UpdateTypeOK => PartsTypeOK
    BY DEF PartsTypeOK
<1>4. QED BY <1>1, <1>2, <1>3, UpdateInvType, PartsApart, ProcessInvariant, DownloadInvariant, UpdateInvariant, PTL

\* What is proved of each part alone holds of the specification the run checks, the
\* safety half of what is promised of a session's clients included, if nothing is
\* removed while it is unpacked and systemctl says no only within the grace.
THEOREM PartsSafe ==
    ASSUME ~Impatient, ~SlowRestart
    PROVE  PartsSpec => /\ [](NoStrayProcess /\ WholeWhenReady)
                        /\ [](OneUpdate /\ Startable /\ Recoverable)
                        /\ Promise!Init /\ [][Promise!Next]_([a \in Attachers |-> Fate(a)])
<1>1. ProcessInv => NoStrayProcess
    BY DEF ProcessInv, NoneStray, NoStrayProcess, Alive
<1>2. DownloadInv => WholeWhenReady
    BY DEF DownloadInv
<1>3. PartsSpec => [](NoStrayProcess /\ WholeWhenReady)
    BY <1>1, <1>2, PartsApart, ProcessInvariant, DownloadInvariant, PTL
<1>4. PartsSpec => [](OneUpdate /\ Startable /\ Recoverable)
    BY UpdateInvSafe, PartsApart, UpdateInvariant, PTL
<1>5. PartsSpec => Promise!Init /\ [][Promise!Next]_([a \in Attachers |-> Fate(a)])
    BY PartsApart, PromiseCorrect, PTL
<1>6. QED BY <1>3, <1>4, <1>5, PTL
=============================================================================
