------------------------------- MODULE Detector -------------------------------
(***************************************************************************)
(* internal/session/detect.go: what is known of one session, and which of  *)
(* {the person, the agent, its log, its terminal} is believed.             *)
(*                                                                         *)
(* Every method of the Go Detector runs under its mutex, so each is one    *)
(* operator from a tracker to a tracker.  A time is a natural number and 0 *)
(* is "never".  lastOutput is left out: nothing in Evaluate reads it.      *)
(***************************************************************************)
EXTENDS Naturals

CONSTANTS LateReport,     \* a working report this soon after a waiting one is late
          InterruptSkew,  \* how much earlier than a report an interrupt still counts
          NotifyGrace,    \* how long a legacy notify survives a moving screen
          BellGrace       \* how long a bell survives one

ASSUME DetectorAssumption ==
    /\ LateReport \in Nat
    /\ InterruptSkew \in Nat
    /\ NotifyGrace \in Nat
    /\ BellGrace \in Nat

Nothing == "nothing"      \* the empty State
Main == "main"            \* the main thread: an empty agent_id
States == {"working", "waiting", "done"}
Sources == {"hook", "manual", "heuristic"}

Trackers(Agents, Times) ==
    [lastAdvance : Times, lastBell : Times, lastInput : Times, lastKey : Times,
     hookState : States \cup {Nothing}, hookAt : Times, hookLegacy : BOOLEAN,
     hookAgent : Agents, hookAnswerable : BOOLEAN,
     logState : States \cup {Nothing}, logAt : Times,
     manualState : States \cup {Nothing}, manualAt : Times]

NewTracker ==
    [lastAdvance |-> 0, lastBell |-> 0, lastInput |-> 0, lastKey |-> 0,
     hookState |-> Nothing, hookAt |-> 0, hookLegacy |-> FALSE,
     hookAgent |-> Main, hookAnswerable |-> FALSE,
     logState |-> Nothing, logAt |-> 0, manualState |-> Nothing, manualAt |-> 0]

----------------------------------------------------------------------------
\* Observe: the signals are a set of "advanced" and "bell".
Observe(t, signals, at) ==
    [t EXCEPT !.lastAdvance = IF "advanced" \in signals THEN at ELSE @,
              !.lastBell = IF "bell" \in signals THEN at ELSE @]

\* Input is a line, and a line is also a key.
Input(t, at) == [t EXCEPT !.lastInput = at, !.lastKey = at]
Key(t, at) == [t EXCEPT !.lastKey = at]

\* A working report that does not answer the prompt on the screen: one sent
\* before it, or one of a subagent that is not the one asking.
AnswersNothing(t, r, at) ==
    /\ r.state = "working"
    /\ t.hookState = "waiting"
    /\ \/ at < t.hookAt + LateReport
       \/ r.agent # Main /\ r.agent # t.hookAgent

HookTaken(t, r, at) == r.state \in States /\ ~AnswersNothing(t, r, at)

\* The second announcement of one prompt keeps what the first said of it.
SamePrompt(t, r) ==
    /\ r.state = "waiting"
    /\ t.hookState = "waiting"
    /\ r.agent = t.hookAgent
    /\ ~r.legacy

Hook(t, r, at) ==
    IF HookTaken(t, r, at)
    THEN [t EXCEPT !.hookState = r.state,
                   !.hookAt = at,
                   !.hookLegacy = r.legacy,
                   !.hookAgent = r.agent,
                   !.hookAnswerable = /\ r.state = "waiting"
                                      /\ r.answerable \/ (SamePrompt(t, r) /\ @),
                   !.manualState = Nothing,
                   !.manualAt = 0]
    ELSE t

DropManualBefore(t, at) ==
    IF at > t.manualAt THEN [t EXCEPT !.manualState = Nothing, !.manualAt = 0] ELSE t

\* Mutant: an interrupt is dated by the end of its allowance.
InterruptedLate(t, at) ==
    IF /\ at # 0
       /\ t.hookState \in {"working", "waiting"}
       /\ at + InterruptSkew > t.hookAt
    THEN DropManualBefore([t EXCEPT !.hookState = "done", !.hookAt = at + InterruptSkew], at)
    ELSE t

\* The transcript says the person stopped the agent, at a time of its own.
Interrupted(t, at) ==
    IF /\ at # 0
       /\ t.hookState \in {"working", "waiting"}
       /\ at + InterruptSkew > t.hookAt
    THEN DropManualBefore([t EXCEPT !.hookState = "done", !.hookAt = at,
                                    !.hookLegacy = FALSE, !.hookAgent = Main,
                                    !.hookAnswerable = FALSE], at)
    ELSE t

ReportLog(t, st, at) ==
    IF st \in States /\ at # 0
    THEN DropManualBefore([t EXCEPT !.logState = st, !.logAt = at], at)
    ELSE t

SetManual(t, st, at) == [t EXCEPT !.manualState = st, !.manualAt = at]

\* MarkNotify: a restored hook state that only the legacy notify line can have
\* left.
MarkNotify(t) == [t EXCEPT !.hookLegacy = @ \/ t.hookState # Nothing]

\* Only what nothing will say a second time comes back after a restart.
Restore(t, st, src, at) ==
    CASE at = 0 -> t
      [] src = "hook" /\ at # 0 -> [t EXCEPT !.hookState = st, !.hookAt = at]
      [] src = "manual" /\ at # 0 -> [t EXCEPT !.manualState = st, !.manualAt = at]
      [] src = "heuristic" /\ at # 0 ->
            [t EXCEPT !.lastBell = IF st = "waiting" THEN at ELSE @]

----------------------------------------------------------------------------
(* Evaluate: the first of these that applies.                              *)

Ringing(t) == t.lastBell # 0 /\ t.lastAdvance <= t.lastBell + BellGrace

ManualStands(t, shell) ==
    /\ t.manualState # Nothing
    /\ t.lastAdvance <= t.manualAt
    /\ shell \/ t.lastBell <= t.manualAt

ReleasedNotify(t) ==
    /\ t.hookLegacy
    /\ \/ t.lastAdvance > t.hookAt + NotifyGrace
       \/ t.lastInput > t.hookAt

ReleasedPrompt(t) ==
    /\ t.hookAnswerable
    /\ t.hookState = "waiting"
    /\ t.lastKey > t.hookAt

LogStands(t, shell) ==
    /\ t.logState # Nothing
    /\ ~shell
    /\ \/ t.hookState = Nothing
       \/ ReleasedNotify(t)
       \/ t.logAt > t.hookAt

RungSinceLog(t) ==
    /\ t.logState = "working"
    /\ t.lastBell > t.logAt
    /\ Ringing(t)

HookStands(t, shell) ==
    /\ t.hookState # Nothing
    /\ ~shell
    /\ ~ReleasedNotify(t)
    /\ ~ReleasedPrompt(t)

Judged(st, src) == [state |-> st, source |-> src]

Evaluate(t, dead, shell) ==
    IF dead THEN Judged("done", "heuristic")
    ELSE IF ManualStands(t, shell) THEN Judged(t.manualState, "manual")
    ELSE IF LogStands(t, shell)
         THEN IF RungSinceLog(t) THEN Judged("waiting", "heuristic")
                                 ELSE Judged(t.logState, "hook")
    ELSE IF HookStands(t, shell) THEN Judged(t.hookState, "hook")
    ELSE IF ~shell /\ Ringing(t) THEN Judged("waiting", "heuristic")
    ELSE Judged(IF shell THEN "done" ELSE "working", "heuristic")
=============================================================================
