------------------------------- MODULE Governor -------------------------------
(***************************************************************************)
(* internal/resources: the tick that names the process the machine is      *)
(* short of memory for, counts down and ends it, against a person who is   *)
(* answering the same question.  The tick reads the alert and the answers' *)
(* deadline, then /proc for a long time, then acts; an answer takes none   *)
(* of the tick's lock.                                                     *)
(*                                                                         *)
(* A suspect is a session with the process the tick would name in it; what *)
(* the memory readings make of the machine (Assess, culprit, Responsible)  *)
(* is whatever the tick reads.  Time is in ticks, up to MaxClock.          *)
(***************************************************************************)
EXTENDS Naturals

CONSTANTS Suspects,
          Grace,            \* GraceSeconds
          QuietAfterAnswer, QuietAfterFailure, WarnForgets, SnoozeFor,
          MaxClock

ASSUME GovernorAssumption ==
    /\ {Grace, MaxClock} \subseteq Nat \ {0}
    /\ {QuietAfterAnswer, QuietAfterFailure, WarnForgets, SnoozeFor} \subseteq Nat

VARIABLES
    time,
    alert,         \* view.Alert
    asked,         \* questions given an id so far
    quiet,         \* until when nothing is asked
    snoozed,       \* until when a warning is not shown
    okTicks, warnSince, unkillable,     \* tickState
    round,         \* Tick under way
    answering,     \* a person's Kill or Freeze under way
    \* History.
    told,          \* the last question and deadline the pages were sent, and by which round first
    owed,          \* until when the last answer keeps questions back
    passed         \* an answer landed when this round had looked for the last time

governorVars == <<time, alert, asked, quiet, snoozed, okTicks, warnSince, unkillable, round,
                  answering, told, owed, passed>>

Clock == 0..MaxClock
Deadlines == 0..(MaxClock + Grace + QuietAfterAnswer + QuietAfterFailure + SnoozeFor)
Levels == {"warn", "critical"}
Ids == 1..(MaxClock + 1)
NoAlert == [id |-> 0]
Alerts == [id : Ids, level : Levels, suspect : Suspects, autoAt : Deadlines]
Resting == [at |-> "rest"]

GovernorTypeOK ==
    /\ time \in Clock
    /\ alert \in {NoAlert} \cup Alerts
    /\ asked \in {0} \cup Ids
    /\ quiet \in Deadlines /\ owed \in Deadlines
    /\ snoozed \in [Suspects -> Deadlines]
    /\ okTicks \in 0..2 /\ warnSince \in Clock
    /\ unkillable \subseteq Suspects
    /\ round \in {Resting} \cup [at : {"clears"}, now : Clock]
          \cup [at : {"read"}, now : Clock, alert : {NoAlert} \cup Alerts, level : Levels,
                suspect : Suspects, actable : BOOLEAN]
          \cup [at : {"shows", "shown", "kills"}, now : Clock, next : Alerts]
    /\ answering \in {Resting} \cup [at : {"acted", "answered"}, suspect : Suspects]
    /\ told \in {NoAlert} \cup [id : Ids, suspect : Suspects, autoAt : Deadlines, by : Clock]
    /\ passed \in BOOLEAN

GovernorInit ==
    /\ time = 1 /\ alert = NoAlert /\ asked = 0 /\ quiet = 0
    /\ snoozed = [s \in Suspects |-> 0]
    /\ okTicks = 0 /\ warnSince = 0 /\ unkillable = {}
    /\ round = Resting /\ answering = Resting
    /\ told = NoAlert /\ owed = 0 /\ passed = FALSE

----------------------------------------------------------------------------
(* Tick and decide.                                                        *)

roundVars == <<okTicks, warnSince, unkillable, round>>

\* Once per interval; a machine that is well for two ticks takes the question
\* down, an answer keeps the next one back.
TickWell ==
    /\ round = Resting /\ time < MaxClock
    /\ okTicks' = IF okTicks < 2 THEN okTicks + 1 ELSE 2
    /\ round' = IF alert # NoAlert /\ okTicks' = 2 THEN [at |-> "clears", now |-> time] ELSE Resting
    /\ passed' = FALSE
    /\ time' = IF round' = Resting THEN time + 1 ELSE time
    /\ UNCHANGED <<alert, asked, quiet, snoozed, warnSince, unkillable, answering, told, owed>>

TickShort(level, s, actable) ==
    /\ round = Resting /\ time < MaxClock
    /\ s \notin unkillable
    /\ okTicks' = 0
    /\ passed' = FALSE
    /\ IF time < quiet
       THEN round' = Resting /\ time' = time + 1
       ELSE /\ round' = [at |-> "read", now |-> time, alert |-> alert, level |-> level,
                         suspect |-> s, actable |-> actable]
            /\ time' = time
    /\ UNCHANGED <<alert, asked, quiet, snoozed, warnSince, unkillable, answering, told, owed>>

\* setAlert, which tells the pages of a new question or deadline.
SetAlert(a, by) ==
    /\ alert' = a
    /\ told' = IF a = NoAlert \/ (told.id = a.id /\ told.suspect = a.suspect /\ told.autoAt = a.autoAt)
               THEN told
               ELSE [id |-> a.id, suspect |-> a.suspect, autoAt |-> a.autoAt, by |-> by]

\* The next ticker tick comes when this round is over.
RoundEnds == round' = Resting /\ time' = time + 1

TickClears ==
    /\ round.at = "clears"
    /\ SetAlert(NoAlert, round.now)
    /\ RoundEnds
    /\ UNCHANGED <<asked, quiet, snoozed, okTicks, warnSince, unkillable, answering, owed, passed>>

SameQuestion == round.alert # NoAlert /\ round.alert.suspect = round.suspect

Carried == IF SameQuestion THEN round.alert.autoAt ELSE 0
Warned == IF SameQuestion THEN warnSince ELSE 0

\* The countdown starts at critical, is carried through a short warning, and
\* falls when the warning lasts or the panel would not act.
Since == IF ~round.actable \/ round.level = "critical" THEN 0
         ELSE IF Carried # 0 /\ Warned = 0 THEN round.now ELSE Warned

AutoAt ==
    CASE ~round.actable -> 0
      [] round.actable /\ round.level = "critical" ->
            IF Carried = 0 THEN round.now + Grace ELSE Carried
      [] round.actable /\ round.level = "warn" ->
            IF Warned # 0 /\ round.now > Warned + WarnForgets THEN 0 ELSE Carried

Snoozed == round.level = "warn" /\ round.now < snoozed[round.suspect]

\* What was answered while /proc was being read is not asked again.
TickAsks ==
    /\ round.at = "read"
    /\ \/ /\ Snoozed
          /\ round' = IF round.alert = NoAlert THEN Resting ELSE [at |-> "clears", now |-> round.now]
          /\ UNCHANGED <<asked, warnSince>>
       \/ /\ ~Snoozed /\ time < quiet
          /\ round' = Resting
          /\ warnSince' = Since
          /\ UNCHANGED asked
       \/ /\ ~Snoozed /\ time >= quiet
          /\ warnSince' = Since
          /\ asked' = IF SameQuestion THEN asked ELSE asked + 1
          /\ round' = [at |-> "shows", now |-> round.now,
                       next |-> [id |-> IF SameQuestion THEN round.alert.id ELSE asked',
                                 level |-> round.level, suspect |-> round.suspect,
                                 autoAt |-> AutoAt]]
    /\ time' = IF round' = Resting THEN time + 1 ELSE time
    /\ UNCHANGED <<alert, quiet, snoozed, okTicks, unkillable, answering, told, owed, passed>>

TickShows ==
    /\ round.at = "shows"
    /\ SetAlert(round.next, round.now)
    /\ round' = [round EXCEPT !.at = "shown"]
    /\ UNCHANGED <<time, asked, quiet, snoozed, okTicks, warnSince, unkillable, answering, owed, passed>>

Due == /\ round.next.autoAt # 0
       /\ round.next.level = "critical"
       /\ round.now >= round.next.autoAt

\* Mutant: the deadline is not read again before acting on it.
TickDecidesUnasked ==
    /\ round.at = "shown"
    /\ round' = IF Due THEN [round EXCEPT !.at = "kills"] ELSE Resting
    /\ time' = IF Due THEN time ELSE time + 1
    /\ UNCHANGED <<alert, asked, quiet, snoozed, okTicks, warnSince, unkillable, answering, told,
                   owed, passed>>

TickDecides ==
    /\ round.at = "shown"
    /\ round' = IF Due /\ time >= quiet THEN [round EXCEPT !.at = "kills"] ELSE Resting
    /\ time' = IF round' = Resting THEN time + 1 ELSE time
    /\ UNCHANGED <<alert, asked, quiet, snoozed, okTicks, warnSince, unkillable, answering, told,
                   owed, passed>>

\* Either way the new quiet counts from the start of the round and replaces
\* whatever an answer that came meanwhile asked for.
TickKills ==
    /\ round.at = "kills"
    /\ quiet' = round.now + QuietAfterAnswer
    /\ owed' = IF passed THEN 0 ELSE owed
    /\ alert' = NoAlert
    /\ RoundEnds
    /\ UNCHANGED <<asked, snoozed, okTicks, warnSince, unkillable, answering, told, passed>>

\* The kernel will not let this user signal it.
TickCannot ==
    /\ round.at = "kills"
    /\ unkillable' = unkillable \cup {round.next.suspect}
    /\ quiet' = round.now + QuietAfterFailure
    /\ owed' = IF passed THEN 0 ELSE owed
    /\ alert' = NoAlert
    /\ RoundEnds
    /\ UNCHANGED <<asked, snoozed, okTicks, warnSince, answering, told, passed>>

----------------------------------------------------------------------------
(* The person.                                                             *)

\* Kill or Freeze, which have done what they do before they say so.
Acts(s) ==
    /\ answering = Resting
    /\ answering' = [at |-> "acted", suspect |-> s]
    /\ UNCHANGED <<time, alert, asked, quiet, snoozed, roundVars, told, owed, passed>>

\* answered, in its two holds of the lock.
Answered ==
    /\ answering.at = "acted"
    /\ quiet' = time + QuietAfterAnswer
    /\ owed' = quiet'
    /\ passed' = (round.at \in {"shows", "kills"})
    /\ answering' = IF alert # NoAlert /\ alert.suspect = answering.suspect
                    THEN [answering EXCEPT !.at = "answered"] ELSE Resting
    /\ UNCHANGED <<time, alert, asked, snoozed, roundVars, told>>

TakesDown ==
    /\ answering.at = "answered"
    /\ SetAlert(NoAlert, time)
    /\ answering' = Resting
    /\ UNCHANGED <<time, asked, quiet, snoozed, roundVars, owed, passed>>

\* Only a question that is up can be put off, for its session or for all, and
\* only a warning goes with it.
Snooze ==
    /\ alert # NoAlert /\ answering = Resting
    /\ \E for \in {{alert.suspect}, Suspects} :
          snoozed' = [s \in Suspects |-> IF s \in for THEN time + SnoozeFor ELSE snoozed[s]]
    /\ answering' = IF alert.level = "warn" THEN [at |-> "answered", suspect |-> alert.suspect]
                    ELSE Resting
    /\ UNCHANGED <<time, alert, asked, quiet, roundVars, told, owed, passed>>

\* Reading /proc takes longer than an interval.
Slow ==
    /\ round # Resting /\ time + 1 < MaxClock
    /\ time' = time + 1
    /\ UNCHANGED <<alert, asked, quiet, snoozed, roundVars, answering, told, owed, passed>>

Round ==
    \/ TickWell
    \/ \E level \in Levels, s \in Suspects, actable \in BOOLEAN : TickShort(level, s, actable)
    \/ Slow \/ TickClears \/ TickAsks \/ TickShows \/ TickDecides \/ TickKills \/ TickCannot

GovernorNext ==
    \/ Round
    \/ \E s \in Suspects : Acts(s)
    \/ Answered \/ TakesDown \/ Snooze

GovernorSpec == GovernorInit /\ [][GovernorNext]_governorVars

----------------------------------------------------------------------------
\* The panel ends a process only when the pages were told, by an earlier round,
\* of that process and of a deadline that has come.
KillAnnounced ==
    round.at = "kills" =>
        /\ told.id = round.next.id
        /\ told.suspect = round.next.suspect
        /\ told.autoAt = round.next.autoAt
        /\ told.by < round.now
        /\ told.autoAt <= time

\* After an answer, for as long as it is owed, the panel neither asks nor ends
\* anything, but for a round that had looked for the last time before it came.
AnswerHolds ==
    [][time < owed /\ ~passed => round.at \notin {"kills", "shows"} \/ round' = round]_governorVars

\* Nothing is ended unannounced, nor against an answer that is still owed.
NothingEndedUnasked == []KillAnnounced /\ AnswerHolds
=============================================================================
