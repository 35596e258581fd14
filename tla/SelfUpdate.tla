----------------------------- MODULE SelfUpdate -----------------------------
(***************************************************************************)
(* internal/httpapi/update.go and installAt of internal/selfupdate: the    *)
(* panel replaces its own binary.  GitHub is asked once however many       *)
(* requests want to know; a press starts a run on a goroutine of its own,  *)
(* unless a job is under way; the page reads the job.  A job that has been *)
(* `restarting' for three minutes no longer counts as one.                 *)
(*                                                                         *)
(* Versions are numbers.  Upgrades through sudo are left out: they run as  *)
(* the installer, outside this process, and never block.                   *)
(***************************************************************************)
EXTENDS Integers, FiniteSets

CONSTANTS
    Presses,     \* requests that apply an update
    Runs,        \* runUpdate goroutines, numbered
    MaxRelease,
    NoFile,     \* no file
    SlowRestart  \* systemctl may fail after more than restartGrace

ASSUME UpdateAssumption ==
    /\ Runs \subseteq Nat /\ MaxRelease \in Nat \ {0}
    /\ NoFile \notin Nat /\ SlowRestart \in BOOLEAN

VARIABLES
    release,   \* the newest on GitHub
    version,   \* the version of the process
    binary,    \* the version of the file it was started from
    backup,    \* and of that file with .old after its name
    worked,    \* history: the versions that have run
    piled,     \* history: an update has been put over one that has not run
    asker,     \* inflight: who is asking GitHub
    answer,    \* last: what it said, 0 for an error or nothing
    press,     \* where each handleUpdateApply is
    updateJob, \* updateState.job
    run        \* where each runUpdate is

updateVars == <<release, version, binary, backup, worked, piled, asker, answer, press, updateJob, run>>
fileVars == <<version, binary, backup, worked, piled>>

NoJob == [stage |-> "none", version |-> 0, old |-> FALSE]
Unpressed == [at |-> "idle", expected |-> 0, found |-> 0]
NotRun == [at |-> "none", version |-> 0]

UpdateInit ==
    /\ release = 1 /\ version = 1 /\ binary = 1 /\ backup = NoFile /\ worked = {1} /\ piled = FALSE
    /\ asker = {} /\ answer = 0 /\ updateJob = NoJob
    /\ press = [p \in Presses |-> Unpressed] /\ run = [r \in Runs |-> NotRun]

Active == updateJob.stage \in {"downloading", "installing"} \/ (updateJob.stage = "restarting" /\ ~updateJob.old)

Released ==
    /\ release < MaxRelease /\ release' = release + 1
    /\ UNCHANGED <<fileVars, asker, answer, press, updateJob, run>>

----------------------------------------------------------------------------
(* A press, with the version the page showed.                              *)

Turns(p, from, to) == press[p].at = from /\ press' = [press EXCEPT ![p].at = to]

Press(p, shown) ==
    /\ press[p].at = "idle" /\ shown <= release /\ shown > version
    /\ press' = [press EXCEPT ![p] = IF Active THEN @ ELSE [at |-> "checks", expected |-> shown, found |-> 0]]
    /\ UNCHANGED <<release, fileVars, asker, answer, updateJob, run>>

\* checkNow, for the one who asks ...
Ask(p) ==
    /\ Turns(p, "checks", "asks") /\ asker = {} /\ asker' = {p}
    /\ UNCHANGED <<release, fileVars, answer, updateJob, run>>

\* Those who wait for this answer go on.
Wakes == [q \in Presses |-> IF press[q].at = "waits" THEN [press[q] EXCEPT !.at = "reads"] ELSE press[q]]

\* Mutant: only an answer ends the asking.
AnsweredIfHeard(p) ==
    /\ press[p].at = "asks"
    /\ \E heard \in {release, 0} :
        /\ asker' = IF heard = 0 THEN asker ELSE {}
        /\ answer' = heard /\ press' = [Wakes EXCEPT ![p].at = "decides", ![p].found = heard]
    /\ UNCHANGED <<release, fileVars, updateJob, run>>

Answered(p) ==
    /\ press[p].at = "asks" /\ asker' = {}
    /\ \E heard \in {release, 0} :
        answer' = heard /\ press' = [Wakes EXCEPT ![p].at = "decides", ![p].found = heard]
    /\ UNCHANGED <<release, fileVars, updateJob, run>>

\* ... and for those who come while it is being asked, and read what is kept.
WaitForAnswer(p) ==
    /\ Turns(p, "checks", "waits") /\ asker # {}
    /\ UNCHANGED <<release, fileVars, asker, answer, updateJob, run>>

ReadAnswer(p) ==
    /\ press[p].at = "reads"
    /\ press' = [press EXCEPT ![p].at = "decides", ![p].found = answer]
    /\ UNCHANGED <<release, fileVars, asker, answer, updateJob, run>>

Refused(p) == press[p].found <= version \/ press[p].found # press[p].expected

Refuse(p) ==
    /\ press[p].at = "decides" /\ Refused(p) /\ press' = [press EXCEPT ![p] = Unpressed]
    /\ UNCHANGED <<release, fileVars, asker, answer, updateJob, run>>

Unused == {r \in Runs : run[r].at = "none"}

Starts(p) ==
    /\ press' = [press EXCEPT ![p] = Unpressed]
    /\ updateJob' = [stage |-> "downloading", version |-> press[p].found, old |-> FALSE]
    /\ \E r \in Unused :
        /\ \A q \in Unused : r <= q
        /\ run' = [run EXCEPT ![r] = [at |-> "downloading", version |-> press[p].found]]
    /\ UNCHANGED <<release, fileVars, asker, answer>>

Busy(p) ==
    /\ press[p].at = "decides" /\ ~Refused(p) /\ Active /\ press' = [press EXCEPT ![p] = Unpressed]
    /\ UNCHANGED <<release, fileVars, asker, answer, updateJob, run>>

\* The job is looked at once more: two presses in the window.
StartRun(p) ==
    press[p].at = "decides" /\ ~Refused(p) /\ ~Active /\ Starts(p)

----------------------------------------------------------------------------
(* A run.  What it says of the job it says of whichever job there is.      *)

RunMoves(r, from, to) == run[r].at = from /\ run' = [run EXCEPT ![r].at = to]

Says(stage) == updateJob' = IF updateJob.stage = "none" THEN updateJob ELSE [updateJob EXCEPT !.stage = stage]

Download(r) ==
    /\ RunMoves(r, "downloading", "verifies") /\ Says("installing")
    /\ UNCHANGED <<release, fileVars, asker, answer, press>>

\* The network, the checksum, fifteen minutes; the new file will not run.
RunFails(r) ==
    /\ \/ RunMoves(r, "downloading", "none")
       \/ RunMoves(r, "verifies", "none")
    /\ Says("failed")
    /\ UNCHANGED <<release, fileVars, asker, answer, press>>

MoveAside(r) ==
    /\ RunMoves(r, "verifies", "swaps") /\ backup' = binary /\ binary' = NoFile
    /\ piled' = (piled \/ binary \notin worked)
    /\ UNCHANGED <<release, version, worked, asker, answer, press, updateJob>>

\* "A directory with no binary at all is the one outcome worse than not
\* updating".
PutBack(r) ==
    /\ RunMoves(r, "swaps", "none") /\ Says("failed")
    /\ binary' = backup /\ backup' = NoFile
    /\ UNCHANGED <<release, version, worked, piled, asker, answer, press>>

PutNew(r) ==
    /\ RunMoves(r, "swaps", "installed") /\ binary' = run[r].version
    /\ UNCHANGED <<release, version, backup, worked, piled, asker, answer, press, updateJob>>

\* Nobody supervises the panel, or it may not ask.
CannotRestart(r) ==
    /\ RunMoves(r, "installed", "none") /\ Says("installed")
    /\ UNCHANGED <<release, fileVars, asker, answer, press>>

WillRestart(r) ==
    /\ RunMoves(r, "installed", "restarts") /\ Says("restarting")
    /\ UNCHANGED <<release, fileVars, asker, answer, press>>

\* systemctl says no.
RestartFails(r) ==
    /\ run[r].at \in (IF SlowRestart THEN {"restarts", "hangs"} ELSE {"restarts"})
    /\ run' = [run EXCEPT ![r].at = "none"] /\ Says("installed")
    /\ UNCHANGED <<release, fileVars, asker, answer, press>>

GracePasses ==
    /\ updateJob.stage = "restarting" /\ ~updateJob.old /\ updateJob' = [updateJob EXCEPT !.old = TRUE]
    /\ run' = [r \in Runs |-> IF run[r].at = "restarts" THEN [run[r] EXCEPT !.at = "hangs"] ELSE run[r]]
    /\ UNCHANGED <<release, fileVars, asker, answer, press>>

\* By systemctl, by hand, by the machine; the record of the last answer stays.
UpdateRestarts ==
    /\ binary # NoFile /\ version' = binary /\ worked' = worked \cup {binary} /\ piled' = FALSE
    /\ asker' = {} /\ updateJob' = NoJob
    /\ press' = [p \in Presses |-> Unpressed] /\ run' = [r \in Runs |-> NotRun]
    /\ UNCHANGED <<release, binary, backup, answer>>

----------------------------------------------------------------------------
Decides(p) == Refuse(p) \/ Busy(p) \/ StartRun(p)

Applies(p) == Ask(p) \/ Answered(p) \/ WaitForAnswer(p) \/ ReadAnswer(p) \/ Decides(p)

Updates(r) ==
    \/ Download(r) \/ RunFails(r) \/ MoveAside(r) \/ PutBack(r) \/ PutNew(r)
    \/ CannotRestart(r) \/ WillRestart(r)

UpdateNext ==
    \/ Released \/ GracePasses \/ UpdateRestarts
    \/ \E p \in Presses : Applies(p) \/ \E shown \in 1..MaxRelease : Press(p, shown)
    \/ \E r \in Runs : Updates(r) \/ RestartFails(r)

\* Requests and goroutines run on, and time passes; no restart need come.
UpdateSpec ==
    /\ UpdateInit /\ [][UpdateNext]_updateVars
    /\ WF_updateVars(GracePasses)
    /\ \A p \in Presses : WF_updateVars(Applies(p))
    /\ \A r \in Runs : WF_updateVars(Updates(r))

----------------------------------------------------------------------------
UpdateTypeOK ==
    /\ {release, version} \subseteq 1..MaxRelease /\ {binary, backup} \subseteq 1..MaxRelease \cup {NoFile}
    /\ worked \subseteq 1..MaxRelease /\ piled \in BOOLEAN /\ answer \in 0..MaxRelease
    /\ asker \subseteq Presses /\ \A p \in asker : press[p].at = "asks"
    /\ press \in [Presses -> [at : {"idle", "checks", "asks", "waits", "reads", "decides"},
                              expected : 0..MaxRelease, found : 0..MaxRelease]]
    /\ updateJob \in [stage : {"none", "downloading", "installing", "restarting", "installed", "failed"},
                version : 0..MaxRelease, old : BOOLEAN]
    /\ run \in [Runs -> [at : {"none", "downloading", "verifies", "swaps", "installed", "restarts", "hangs"},
                          version : 0..MaxRelease]]

\* "There is one at a time", and what the page reads is of that one: also with
\* two presses in the window between the look at the job and the start, and
\* with a run whose restart has not come.
OneUpdate ==
    \A r \in Runs : run[r].at \in {"downloading", "verifies", "swaps"} =>
        /\ updateJob.stage \in {"downloading", "installing"} /\ updateJob.version = run[r].version
        /\ \A q \in Runs \ {r} : run[q].at \in {"none", "hangs"}

\* There is a binary to start, but between the two renames.
Startable == binary # NoFile \/ \E r \in Runs : run[r].at = "swaps"

\* "A panel that will not start again is one mv from working": the binary, or
\* the one moved aside, is one that has run; not so once a second update has
\* been put over a first that nobody started.
Recoverable == ~piled => {binary, backup} \cap worked # {}

\* A press that asks, or waits for the asking of another, comes to decide.
PressAnswered == \A p \in Presses : press[p].at = "checks" ~> press[p].at \in {"decides", "idle"}

\* A job that is under way does not stand before the next press for ever.
UpdateEnds == Active ~> ~Active

\* There is one update at a time and a binary to start at every moment of it;
\* whoever presses hears, and what he started ends.
UpdatesEnd == [](OneUpdate /\ Startable /\ Recoverable) /\ PressAnswered /\ UpdateEnds
=============================================================================
