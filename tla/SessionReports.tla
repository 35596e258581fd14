--------------------------- MODULE SessionReports ---------------------------
(***************************************************************************)
(* How the state shown for one session comes to be: agents inside it fire  *)
(* hooks, each carried by a curl of its own (internal/hooks, report.sh);   *)
(* handleHookState reads the row, asks the Detector and writes the row;    *)
(* the poller lists the rows, evaluates and writes; a person presses keys, *)
(* stops the agent, clicks the state; the panel restarts.  None of these   *)
(* holds a lock across its steps, so they interleave at every one of them. *)
(*                                                                         *)
(* The agents, the terminal and the person are the environment: at most    *)
(* MaxEvents of their steps, at times up to MaxTime.  A report is carried  *)
(* for at most MaxDelay, the assumption lateReport and interruptSkew make. *)
(***************************************************************************)
EXTENDS Detector

CONSTANTS Subagents, Handlers, MaxTime, MaxEvents, MaxDelay,
          CodexLogAfter   \* a hook silent for so long leaves a Codex to its log

ASSUME ReportsAssumption ==
    /\ {Main, Nothing} \cap Subagents = {}
    /\ MaxTime \in Nat \ {0}
    /\ MaxEvents \in Nat
    /\ MaxDelay \in Nat
    /\ MaxDelay < LateReport
    /\ MaxDelay < InterruptSkew
    /\ InterruptSkew <= LateReport
    /\ CodexLogAfter \in Nat

VARIABLES
    clock, events,   \* the time, and how many steps of the environment are left
    prompt,          \* the dialog on the session's screen, whether the panel has heard of
                     \* it, and whether that was news to a panel with no other one open
    turn,            \* the main thread is at work
    mail,            \* hook documents on their way to the panel
    transcript,      \* when the transcript last recorded an interrupt, 0 if never
    rollout,         \* the latest entry of Codex's log
    pane,            \* what runs in the pane: Claude, Codex, a shell, nothing
    latest,          \* the kind of the latest session_messages row
    track,           \* the detector's tracker of the session
    row,             \* state, state_source and state_changed_at in the store
    call,            \* handleHookState and handlePatchSession under way
    poll,            \* pollOnce under way
    told,            \* the state the event log, the chat and the plugins were last given
    click            \* the state clicked and when, while nothing has happened since

reportsVars == <<clock, events, prompt, turn, mail, transcript, rollout, pane,
                 latest, track, row, call, poll, told, click>>

Agents == Subagents \cup {Main}
Times == 0..MaxTime
NoClick == [state |-> Nothing, at |-> 0]
NoPrompt == [who |-> Nothing, kind |-> Nothing, since |-> 0, heard |-> FALSE,
             news |-> FALSE]

\* The documents of the hooks the panel installs, by what hooks.Read and
\* recordHookMessage tell apart: an ordinary tool or a submitted prompt, a
\* permission request, a question dialog before its tool and as a request,
\* the announcement of either, the idle notification, the end of a turn
\* without and with subagents still running, and Codex's notify line.
Events == {"tool", "permission", "ask", "askRequest", "announce", "idle", "stop",
           "stopWithAgents", "notify"}

Reported(e) ==
    IF e \in {"tool", "ask"} THEN "working"
    ELSE IF e \in {"stop", "stopWithAgents"} THEN "done"
    ELSE "waiting"

\* hooks.Read: the state the hook was installed with, as its document corrects it.
ReadState(e) ==
    CASE e = "idle" -> Nothing
      [] e = "stopWithAgents" -> "working"
      [] OTHER -> Reported(e)

ReadAnswerable(e) == e \in {"permission", "announce"}

\* recordHookMessage: a dialog announced while it is the latest message stays it.
Recorded(e) ==
    CASE e \in {"ask", "askRequest"} -> "questions"
      [] e = "permission" -> "prompt"
      [] e \in {"announce", "notify"} -> IF latest = "questions" THEN latest ELSE "prompt"
      [] e \in {"stop", "stopWithAgents"} -> "other"
      [] OTHER -> latest

\* What handleHookState hands the detector: a new menu is a session waiting,
\* and one keystroke does not answer a dialog of questions.
Report(d) ==
    [state |-> IF d.event = "ask" THEN "waiting" ELSE ReadState(d.event),
     legacy |-> d.event = "notify",
     agent |-> d.agent,
     answerable |-> /\ ReadAnswerable(d.event)
                    /\ ~(d.event = "announce" /\ latest = "questions")]

Documents == [event : Events, agent : Agents, sent : Times]
Reports == [state : States \cup {Nothing}, legacy : BOOLEAN, agent : Agents,
            answerable : BOOLEAN]

Programs == {"claude", "codex", "shell", "dead"}
Resting == [pc |-> "idle"]
Calls ==
    {Resting}
    \cup [pc : {"read"}, report : Reports, received : Times, sent : Times,
          prev : States]
    \cup [pc : {"taken"}, state : States, source : Sources, prev : States]
Polls ==
    {Resting}
    \cup [pc : {"listed"}, state : States, source : Sources, pane : Programs]
    \cup [pc : {"judged"}, prev : States, state : States, source : Sources]

ReportsTypeOK ==
    /\ clock \in Times
    /\ events \in 0..MaxEvents
    /\ prompt \in {NoPrompt} \cup [who : Agents, kind : {"menu", "questions"}, since : Times,
                              heard : BOOLEAN, news : BOOLEAN]
    /\ mail \subseteq Documents
    /\ transcript \in Times
    /\ turn \in BOOLEAN
    /\ rollout \in [state : States, at : Times]
    /\ pane \in Programs
    /\ latest \in {Nothing, "prompt", "questions", "other"}
    /\ track \in Trackers(Agents, Times)
    /\ row \in [state : States, source : Sources, changedAt : Times]
    /\ call \in [Handlers -> Calls]
    /\ poll \in Polls
    /\ told \in States
    /\ click \in [state : States \cup {Nothing}, at : Times]

\* handleCreateSession: a row that says working, of a session nothing is known
\* of; or the same after the first report, a prompt submitted.
ReportsInit ==
    /\ clock = 1
    /\ events = MaxEvents
    /\ prompt = NoPrompt
    /\ mail = {}
    /\ transcript = 0
    /\ turn = TRUE
    /\ rollout = [state |-> "working", at |-> 0]
    /\ pane \in {"claude", "codex"}
    /\ latest = Nothing
    /\ \/ /\ track = NewTracker
          /\ row = [state |-> "working", source |-> "heuristic", changedAt |-> 1]
       \/ /\ pane = "claude"
          /\ track = [NewTracker EXCEPT !.hookState = "working", !.hookAt = 1]
          /\ row = [state |-> "working", source |-> "hook", changedAt |-> 1]
    /\ call = [h \in Handlers |-> Resting]
    /\ poll = Resting
    /\ told = "working"
    /\ click = NoClick

----------------------------------------------------------------------------
(* The session.                                                            *)

Happens == events > 0 /\ events' = events - 1
panelVars == <<latest, row, call, poll, told>>

Send(es, a) == mail' = mail \cup {[event |-> e, agent |-> a, sent |-> clock] : e \in es}

\* A tool runs; its agent is not itself asking.
Works(a) ==
    /\ Happens
    /\ pane = "claude"
    /\ prompt.who # a
    /\ a = Main => turn
    /\ Send({"tool"}, a)
    /\ UNCHANGED <<clock, prompt, turn, transcript, rollout, pane, track, click, panelVars>>

\* A person takes longer over a dialog than its reports take to arrive.
AllHeard ==
    /\ \A d \in mail : d.event = "tool"
    /\ \A h \in Handlers : call[h].pc # "read"

\* PreToolUse and PermissionRequest of one call, milliseconds apart and each
\* through its own curl.
Asks(a, kind) ==
    /\ Happens
    /\ pane = "claude"
    /\ prompt = NoPrompt
    /\ a = Main => turn
    /\ AllHeard
    /\ prompt' = [who |-> a, kind |-> kind, since |-> clock, heard |-> FALSE,
                  news |-> FALSE]
    /\ Send(IF kind = "menu" THEN {"tool", "permission"} ELSE {"ask", "askRequest"}, a)
    /\ UNCHANGED <<clock, turn, transcript, rollout, pane, track, click, panelVars>>

\* Six seconds later, when the request itself has long arrived.
Announces ==
    /\ Happens
    /\ prompt.heard
    /\ Send({"announce"}, prompt.who)
    /\ UNCHANGED <<clock, prompt, turn, transcript, rollout, pane, track, click, panelVars>>

\* The main thread's turn ends, or has been over for a minute.
Stops(e) ==
    /\ Happens
    /\ pane = "claude"
    /\ prompt = NoPrompt
    /\ turn = (e # "idle")
    /\ turn' = FALSE
    /\ Send({e}, Main)
    /\ UNCHANGED <<clock, prompt, transcript, rollout, pane, track, click, panelVars>>

\* Codex ends a turn, and its log goes on recording.
CodexStops ==
    /\ Happens
    /\ pane = "codex"
    /\ Send({"notify"}, Main)
    /\ UNCHANGED <<clock, prompt, turn, transcript, rollout, pane, track, click, panelVars>>

CodexLogs(st) ==
    /\ Happens
    /\ pane = "codex"
    /\ rollout' = [state |-> st, at |-> clock]
    /\ UNCHANGED <<clock, prompt, turn, mail, transcript, pane, track, click, panelVars>>

\* The agent exits to the shell it was started from, or with the pane.
Exits(to) ==
    /\ Happens
    /\ pane \in {"claude", "codex"}
    /\ pane' = to
    /\ prompt' = NoPrompt
    /\ UNCHANGED <<clock, turn, mail, transcript, rollout, track, click, panelVars>>

\* HandleSignals: what the pump saw.
Signals(signals) ==
    /\ Happens
    /\ pane # "dead"
    /\ track' = Observe(track, signals, clock)
    /\ click' = IF "advanced" \in signals \/ pane # "shell" THEN NoClick ELSE click
    /\ UNCHANGED <<clock, prompt, turn, mail, transcript, rollout, pane, panelVars>>

----------------------------------------------------------------------------
(* The person.                                                             *)

\* HandleKey or HandleInput.  One key answers a menu; a dialog of questions
\* may have more of them.  Nobody answers what has only just been asked.
Presses(line) ==
    /\ Happens
    /\ pane \in {"claude", "codex"}
    /\ clock > prompt.since
    /\ track' = IF line THEN Input(track, clock) ELSE Key(track, clock)
    /\ prompt' \in {NoPrompt} \cup (IF prompt.kind = "questions" THEN {prompt} ELSE {})
    /\ UNCHANGED <<clock, turn, mail, transcript, rollout, pane, click, panelVars>>

\* A line to an agent whose turn is over, read and answered by a person: what
\* the turn before still had to say has been said.
Submits ==
    /\ Happens
    /\ pane = "claude" /\ ~turn /\ prompt = NoPrompt
    /\ \A d \in mail : d.agent # Main
    /\ \A h \in Handlers : call[h].pc # "read"
    /\ transcript # 0 => clock >= transcript + LateReport
    /\ turn' = TRUE
    /\ track' = Input(track, clock)
    /\ Send({"tool"}, Main)
    /\ UNCHANGED <<clock, prompt, transcript, rollout, pane, click, panelVars>>

\* Escape: no hook at all, only a line in the transcript.
Escapes ==
    /\ Happens
    /\ pane = "claude"
    /\ turn
    /\ turn' = FALSE
    /\ prompt' = NoPrompt
    /\ transcript' = clock
    /\ UNCHANGED <<clock, mail, rollout, pane, track, click, panelVars>>

\* A request is handled by whoever is free; which of them makes no difference.
Takes(h) == call[h] = Resting /\ h = CHOOSE free \in Handlers : call[free] = Resting

\* handlePatchSession: the detector first, then the row is read, then written.
Clicks(h, st) ==
    /\ Happens
    /\ Takes(h)
    /\ track' = SetManual(track, st, clock)
    /\ call' = [call EXCEPT ![h] = [pc |-> "taken", state |-> st, source |-> "manual",
                                    prev |-> row.state]]
    /\ prompt' = [prompt EXCEPT !.heard = FALSE]
    /\ click' = [state |-> st, at |-> clock]
    /\ UNCHANGED <<clock, turn, mail, transcript, rollout, pane, latest, row, poll, told>>

----------------------------------------------------------------------------
(* handleHookState.                                                        *)

\* The document arrives: its time is taken, the row read, its message kept.
\* A document that changes nothing is answered at once.
HookArrives(h, d) ==
    /\ Takes(h)
    /\ mail' = mail \ {d}
    /\ latest' = Recorded(d.event)
    /\ call' = IF Report(d).state = Nothing THEN call
               ELSE [call EXCEPT ![h] =
                        [pc |-> "read", report |-> Report(d), received |-> clock,
                         sent |-> d.sent, prev |-> row.state]]
    /\ UNCHANGED <<clock, events, prompt, turn, transcript, rollout, pane, track, row, poll, told, click>>

\* curl gives up, or finds nobody.
HookLost(d) ==
    /\ Happens
    /\ mail' = mail \ {d}
    /\ UNCHANGED <<clock, prompt, turn, transcript, rollout, pane, track, click, panelVars>>

\* The report is about the dialog that is on the screen.
Announced(c) ==
    /\ c.report.state = "waiting"
    /\ c.report.agent = prompt.who
    /\ c.sent >= prompt.since

HookDecides(h) ==
    LET c == call[h] IN
    /\ c.pc = "read"
    /\ track' = Hook(track, c.report, c.received)
    /\ IF HookTaken(track, c.report, c.received)
       THEN /\ call' = [call EXCEPT ![h] = [pc |-> "taken", state |-> c.report.state,
                                            source |-> "hook", prev |-> c.prev]]
            /\ prompt' = [prompt EXCEPT !.heard = @ \/ Announced(c),
                                        !.news = @ \/ (Announced(c) /\ track.hookState # "waiting")]
            /\ click' = NoClick
       ELSE call' = [call EXCEPT ![h] = Resting] /\ UNCHANGED <<prompt, click>>
    /\ UNCHANGED <<clock, events, turn, mail, transcript, rollout, pane, latest, row, poll, told>>

\* SetSessionState: state_changed_at moves only with the state.
StoredState(st, src) ==
    [state |-> st, source |-> src,
     changedAt |-> IF row.state # st THEN clock ELSE row.changedAt]

\* setSessionState: the transition from what the writer had read is logged and
\* announced.
Told(prev, st) == IF st # prev THEN st ELSE told

Writes(h) ==
    LET c == call[h] IN
    /\ c.pc = "taken"
    /\ row' = StoredState(c.state, c.source)
    /\ told' = Told(c.prev, c.state)
    /\ call' = [call EXCEPT ![h] = Resting]
    /\ UNCHANGED <<clock, events, prompt, turn, mail, transcript, rollout, pane, latest, track, poll, click>>

\* "database is locked": the detector knows and the row does not.
WriteFails(h) ==
    /\ Happens
    /\ call[h].pc = "taken"
    /\ call' = [call EXCEPT ![h] = Resting]
    /\ UNCHANGED <<clock, prompt, turn, mail, transcript, rollout, pane, latest, track, row, poll, told, click>>

----------------------------------------------------------------------------
(* pollOnce.                                                               *)

\* tmux is asked, then the rows are read.
PollLists ==
    /\ poll = Resting
    /\ poll' = [pc |-> "listed", state |-> row.state, source |-> row.source, pane |-> pane]
    /\ UNCHANGED <<clock, events, prompt, turn, mail, transcript, rollout, pane, latest, track, row, call,
                   told, click>>

\* A Codex whose hooks are silent is read from its log, and an agent's
\* transcript only while its last report says busy or asking.
WithLog ==
    IF /\ poll.pane = "codex"
       /\ track.hookAt = 0 \/ clock > track.hookAt + CodexLogAfter
    THEN ReportLog(track, rollout.state, rollout.at)
    ELSE track

WithInterrupt ==
    IF WithLog.hookState \in {"working", "waiting"} THEN Interrupted(WithLog, transcript)
    ELSE WithLog

NewsSince(at) == rollout.at > at \/ transcript > at

\* Mutant: a row is left alone when its state is right and its source is not.
PollJudgesState ==
    LET judged == Evaluate(WithInterrupt, poll.pane = "dead", poll.pane = "shell") IN
    /\ poll.pc = "listed"
    /\ track' = WithInterrupt
    /\ click' = IF NewsSince(click.at) THEN NoClick ELSE click
    /\ poll' = IF judged.state = poll.state THEN Resting
               ELSE [pc |-> "judged", prev |-> poll.state,
                     state |-> judged.state, source |-> judged.source]
    /\ UNCHANGED <<clock, events, prompt, turn, mail, transcript, rollout, pane, latest, row, call, told>>

PollJudges ==
    LET judged == Evaluate(WithInterrupt, poll.pane = "dead", poll.pane = "shell") IN
    /\ poll.pc = "listed"
    /\ track' = WithInterrupt
    /\ click' = IF NewsSince(click.at) THEN NoClick ELSE click
    /\ poll' = IF judged = Judged(poll.state, poll.source) THEN Resting
               ELSE [pc |-> "judged", prev |-> poll.state,
                     state |-> judged.state, source |-> judged.source]
    /\ UNCHANGED <<clock, events, prompt, turn, mail, transcript, rollout, pane, latest, row, call, told>>

PollWrites ==
    /\ poll.pc = "judged"
    /\ row' = StoredState(poll.state, poll.source)
    /\ told' = Told(poll.prev, poll.state)
    /\ poll' = Resting
    /\ UNCHANGED <<clock, events, prompt, turn, mail, transcript, rollout, pane, latest, track, call, click>>

PollFails ==
    /\ Happens
    /\ poll.pc = "judged"
    /\ poll' = Resting
    /\ UNCHANGED <<clock, prompt, turn, mail, transcript, rollout, pane, latest, track, row, call, told, click>>

----------------------------------------------------------------------------
(* The panel restarts: what it held in memory is gone, and RestoreState    *)
(* reads the row.  What was sent meanwhile reached nobody.                 *)

\* A row that has said waiting since before the last interrupt is taken for
\* interrupted, also when a newer dialog was the reason that it still says so.
Predates == transcript # 0 /\ row.changedAt < transcript + InterruptSkew

Restarts ==
    /\ Happens
    /\ LET restored == Restore(NewTracker, row.state, row.source, row.changedAt) IN
       track' = IF pane = "codex" /\ row.source = "hook" THEN MarkNotify(restored) ELSE restored
    /\ mail' = {}
    /\ call' = [h \in Handlers |-> Resting]
    /\ poll' = Resting
    /\ prompt' = [prompt EXCEPT !.heard = @ /\ row.state = "waiting" /\ row.source = "hook"
                                          /\ ~Predates]
    /\ click' = IF row = [state |-> click.state, source |-> "manual", changedAt |-> click.at]
                THEN click ELSE NoClick
    /\ UNCHANGED <<clock, turn, transcript, rollout, pane, latest, row, told>>

Tick ==
    /\ clock < MaxTime
    /\ \A d \in mail : clock < d.sent + MaxDelay
    /\ \A h \in Handlers : call[h].pc # "read"
    /\ clock' = clock + 1
    /\ UNCHANGED <<events, prompt, turn, mail, transcript, rollout, pane, latest, track, row,
                   call, poll, told, click>>

Session ==
    \/ \E a \in Agents : Works(a)
    \/ \E a \in Agents, kind \in {"menu", "questions"} : Asks(a, kind)
    \/ Announces
    \/ \E e \in {"stop", "stopWithAgents", "idle"} : Stops(e)
    \/ CodexStops
    \/ \E st \in States : CodexLogs(st)
    \/ \E to \in {"shell", "dead"} : Exits(to)
    \/ \E signals \in {{"advanced"}, {"bell"}} : Signals(signals)

Person ==
    \/ \E line \in BOOLEAN : Presses(line)
    \/ Submits
    \/ Escapes
    \/ \E h \in Handlers, st \in States : Clicks(h, st)

Handles(h) == HookDecides(h) \/ Writes(h)

HookCalls ==
    \/ \E h \in Handlers, d \in mail : HookArrives(h, d)
    \/ \E d \in mail : HookLost(d)
    \/ \E h \in Handlers : Handles(h) \/ WriteFails(h)

PollStep == PollLists \/ PollJudges \/ PollWrites

Poller == PollStep \/ PollFails

ReportsNext == Session \/ Person \/ HookCalls \/ Poller \/ Restarts \/ Tick

\* The ticker fires, and every handler the server has started returns.
ReportsSpec ==
    /\ ReportsInit
    /\ [][ReportsNext]_reportsVars
    /\ WF_reportsVars(PollStep)
    /\ \A h \in Handlers : WF_reportsVars(Handles(h))

----------------------------------------------------------------------------
Shown == Evaluate(track, pane = "dead", pane = "shell")

\* A prompt of the main thread that the panel has heard of is shown as waiting
\* until a person answers it or says otherwise: not a report sent before it
\* and delivered after, not a subagent at work, not a first key on a dialog of
\* several questions, not a restart of the panel takes it down.  Excepted is a
\* dialog of questions that the panel takes for the menu before it, of whose
\* answer it has not heard: Hook keeps what it knew of the menu, a key answers it.
PromptShown ==
    /\ prompt.who = Main
    /\ prompt.heard
    /\ prompt.kind = "questions" => prompt.news
    => Shown.state = "waiting"

\* What a person says by clicking stands until the session does something new:
\* no log entry or interrupt older than the click, no redraw, and no restart of
\* the panel that finds the click in the row with its own time.
ClickStands ==
    click # NoClick /\ pane # "dead" => Shown = Judged(click.state, "manual")

\* What the panel is to show of a session: a prompt until it is answered, and
\* what a person has said of it until it does something new.
RowTells == PromptShown /\ ClickStands
\* Whatever order the handlers, the poller and the clicks wrote in, and
\* whichever writes failed, the row ends at what the evidence says.
RowSettles == <>[](row.state = Shown.state /\ row.source = Shown.source)

\* Stopping an agent fires no hook, and yet the report the interrupt ended does
\* not stand for ever, a dismissed dialog no more than an interrupted answer.
EscapeEnds ==
    (/\ transcript # 0
     /\ track.hookState \in {"working", "waiting"}
     /\ track.hookAt < transcript + InterruptSkew)
        ~> track.hookState \notin {"working", "waiting"}
            \/ track.hookAt >= transcript + InterruptSkew

\* A prompt and a click stand while they should, and no report and no writer's
\* order is for ever.
RowComesRight == []RowTells /\ RowSettles /\ EscapeEnds
\* With nobody at work on the row, the last transition recorded and announced
\* led to the state the row has.
TransitionsTold ==
    poll = Resting /\ (\A h \in Handlers : call[h] = Resting) => told = row.state
=============================================================================
