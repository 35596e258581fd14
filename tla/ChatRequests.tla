----------------------------- MODULE ChatRequests -----------------------------
(***************************************************************************)
(* internal/chat: one session that asks for permission, the bridge that    *)
(* tells people about it, and the people who answer from their phones,     *)
(* while somebody may answer at the laptop.  Every one of them works from  *)
(* a row and a message the hooks wrote a while ago.                        *)
(*                                                                         *)
(* A request is the id of its message.  The people are those the rules     *)
(* send this session's requests to; Tappers have an IM with buttons, the   *)
(* others one that can be written to only once they have written.  Routing *)
(* a typed word to the session, menus and words for an agent are left out. *)
(***************************************************************************)
EXTENDS Naturals

CONSTANTS People, Tappers, MaxPushes, MaxRequests, MaxMishaps

ASSUME ChatAssumption == Tappers \subseteq People /\ {MaxPushes, MaxRequests, MaxMishaps} \subseteq Nat

VARIABLES
    prompt,      \* the request the agent is showing, 0 for none
    requests,    \* requests made so far
    mishaps,     \* sends that may fail, reloads and second pushes that may happen
    reported,         \* the session's row and last message, as the hooks left them
    armed,       \* the session's timer
    quietHours,       \* quiet hours
    running,     \* the channels, emptied by a Reload
    push,        \* pushes under way
    card,        \* per person and request: the message that showed it
    missed,      \* people a push could not reach
    spoke,       \* people who have written, and so can be written to
    inbound,     \* per person: the message being handled
    \* History.
    shown,       \* per person: the requests they have been shown
    skipped,     \* people a push found no channel to
    overlapped   \* two pushes were under way at once

chatVars == <<prompt, requests, mishaps, reported, armed, quietHours, running, push, card, missed, spoke,
              inbound, shown, skipped, overlapped>>

Made == 1..MaxRequests
Pushes == 1..MaxPushes
NoPush == [at |-> "none"]
Waits == [at |-> "waits"]
Cards == {"none", "sent", "status", "request", "answered"}

ChatTypeOK ==
    /\ prompt \in {0} \cup Made /\ requests \in {0} \cup Made
    /\ mishaps \in 0..MaxMishaps
    /\ reported \in [waiting : BOOLEAN, last : {0} \cup Made]
    /\ armed \in BOOLEAN /\ quietHours \in BOOLEAN /\ running \in BOOLEAN
    /\ push \in [Pushes -> {NoPush} \cup [at : {"next"}, last : Made, left : SUBSET People]
                                    \cup [at : {"sent"}, last : Made, left : SUBSET People, to : People]]
    /\ card \in [People -> [Made -> Cards]]
    /\ missed \subseteq People /\ spoke \subseteq People
    /\ inbound \in [People -> {Waits}
          \cup [at : {"looks"}, bound : {0} \cup Made, safe : BOOLEAN]
          \cup [at : {"keys"}, request : Made, safe : BOOLEAN]
          \cup [at : {"close"}, request : Made]]
    /\ shown \in [People -> SUBSET Made] /\ skipped \subseteq People
    /\ overlapped \in BOOLEAN

ChatInit ==
    /\ prompt = 0 /\ requests = 0 /\ mishaps = MaxMishaps
    /\ reported = [waiting |-> FALSE, last |-> 0]
    /\ armed = FALSE /\ quietHours \in BOOLEAN /\ running = TRUE
    /\ push = [i \in Pushes |-> NoPush]
    /\ card = [p \in People |-> [m \in Made |-> "none"]]
    /\ missed = {} /\ spoke = Tappers
    /\ inbound = [p \in People |-> Waits]
    /\ shown = [p \in People |-> {}] /\ skipped = {} /\ overlapped = FALSE

bridgeVars == <<armed, quietHours, running, push, missed, skipped, overlapped>>
Mishap == mishaps > 0 /\ mishaps' = mishaps - 1

\* A timer that fires while a push is under way starts another.
Overlaps ==
    IF \A i \in Pushes : push[i] = NoPush THEN UNCHANGED <<mishaps, overlapped>>
    ELSE Mishap /\ overlapped' = TRUE

----------------------------------------------------------------------------
(* The agent, the laptop and the hooks.                                    *)

Asks ==
    /\ prompt = 0 /\ requests < MaxRequests
    /\ requests' = requests + 1 /\ prompt' = requests'
    /\ UNCHANGED <<mishaps, reported, bridgeVars, card, spoke, inbound, shown>>

AnsweredAtLaptop ==
    /\ prompt # 0
    /\ prompt' = 0
    /\ UNCHANGED <<requests, mishaps, reported, bridgeVars, card, spoke, inbound, shown>>

\* The hook that reports where the agent is now; SessionSaid and SessionChanged
\* arm the session's timer again.
Hooked ==
    /\ reported' = [waiting |-> prompt # 0, last |-> IF prompt # 0 THEN prompt ELSE reported.last]
    /\ reported' # reported
    /\ armed' = TRUE
    /\ UNCHANGED <<prompt, requests, mishaps, quietHours, running, push, card, missed, spoke, inbound,
                   shown, skipped, overlapped>>

----------------------------------------------------------------------------
(* push, sendCard and undelivered.                                         *)

Current == IF reported.waiting THEN reported.last ELSE 0

\* sweep: the buttons of every request but the current one.
Swept(p, m) == IF card[p][m] = "request" /\ m # Current THEN "answered" ELSE card[p][m]
Sweep == card' = [p \in People |-> [m \in Made |-> Swept(p, m)]]

\* A push is run by the first of Pushes that is idle.
Free(i) == push[i] = NoPush /\ \A j \in 1..(i - 1) : push[j] # NoPush

\* Mutant: a push held by quiet hours is not looked at again.
FireForgets(i) ==
    /\ armed /\ Free(i)
    /\ Sweep
    /\ armed' = FALSE
    /\ push' = IF ~quietHours /\ reported.waiting
               THEN [push EXCEPT ![i] = [at |-> "next", last |-> reported.last, left |-> People]] ELSE push
    /\ Overlaps
    /\ UNCHANGED <<prompt, requests, reported, quietHours, running, missed, spoke, inbound, shown, skipped>>

\* In quiet hours the timer is armed again; of a session that works or is done
\* only the status message changes.
Fire(i) ==
    /\ armed /\ Free(i)
    /\ Sweep
    /\ armed' = quietHours
    /\ push' = IF ~quietHours /\ reported.waiting
               THEN [push EXCEPT ![i] = [at |-> "next", last |-> reported.last, left |-> People]] ELSE push
    /\ Overlaps
    /\ UNCHANGED <<prompt, requests, reported, quietHours, running, missed, spoke, inbound, shown, skipped>>

Leaves(i, p) ==
    IF push[i].left = {p} THEN NoPush
    ELSE [at |-> "next", last |-> push[i].last, left |-> push[i].left \ {p}]

Seen(p, m) == card[p][m] \notin {"none", "sent"}

\* One person is passed over: no channel, nothing to write to them with, or the
\* request is in front of them already.
PassOver(i, p) ==
    /\ push[i].at = "next" /\ p \in push[i].left
    /\ \/ ~running
       \/ p \notin spoke
       \/ Seen(p, push[i].last)
    /\ skipped' = IF ~running THEN skipped \cup {p} ELSE skipped
    /\ missed' = IF running /\ p \notin spoke THEN missed \cup {p} ELSE missed
    /\ push' = [push EXCEPT ![i] = Leaves(i, p)]
    /\ UNCHANGED <<prompt, requests, mishaps, reported, armed, quietHours, running, card, spoke, inbound, shown,
                   overlapped>>

\* The card is out; it is in the log only when it has been recorded.
SendCard(i, p) ==
    /\ push[i].at = "next" /\ p \in push[i].left
    /\ running /\ p \in spoke /\ ~Seen(p, push[i].last)
    /\ card' = IF card[p][push[i].last] = "none" THEN [card EXCEPT ![p][push[i].last] = "sent"] ELSE card
    /\ shown' = [shown EXCEPT ![p] = @ \cup {push[i].last}]
    /\ push' = [push EXCEPT ![i] = [at |-> "sent", last |-> @.last, left |-> @.left, to |-> p]]
    /\ UNCHANGED <<prompt, requests, mishaps, reported, armed, quietHours, running, missed, spoke, inbound,
                   skipped, overlapped>>

SendFails(i, p) ==
    /\ Mishap
    /\ push[i].at = "next" /\ p \in push[i].left
    /\ running /\ p \in spoke /\ ~Seen(p, push[i].last)
    /\ missed' = missed \cup {p}
    /\ spoke' = spoke \ ({p} \ Tappers)
    /\ push' = [push EXCEPT ![i] = Leaves(i, p)]
    /\ UNCHANGED <<prompt, requests, reported, armed, quietHours, running, card, inbound, shown, skipped, overlapped>>

Kind(p) == IF p \in Tappers THEN "request" ELSE "status"

RecordCard(i) ==
    /\ push[i].at = "sent"
    /\ card' = [card EXCEPT ![push[i].to][push[i].last] = Kind(push[i].to)]
    /\ push' = [push EXCEPT ![i] = Leaves(i, push[i].to)]
    /\ UNCHANGED <<prompt, requests, mishaps, reported, armed, quietHours, running, missed, spoke, inbound, shown,
                   skipped, overlapped>>

QuietEnds ==
    /\ quietHours /\ quietHours' = FALSE
    /\ UNCHANGED <<prompt, requests, mishaps, reported, armed, running, push, card, missed, spoke, inbound,
                   shown, skipped, overlapped>>

\* Reload: the channels are gone until the last of them has stopped.
Reload ==
    /\ \/ running /\ Mishap
       \/ ~running /\ UNCHANGED mishaps
    /\ running' = ~running
    /\ UNCHANGED <<prompt, requests, reported, armed, quietHours, push, card, missed, spoke, inbound, shown,
                   skipped, overlapped>>

----------------------------------------------------------------------------
(* handle, catchUp, action and answer: one message of a person at a time.  *)

handleVars == <<requests, reported, armed, quietHours, running, push, skipped, overlapped>>

\* The first message after a push that did not arrive is not run: the request
\* missed is shown instead, if the session still waits on one.
Writes(p, bound, safe) ==
    /\ inbound[p] = Waits /\ running
    /\ missed' = missed \ {p}
    /\ spoke' = spoke \cup {p}
    /\ IF p \in missed /\ Current # 0
       THEN /\ card' = [card EXCEPT ![p][Current] = Kind(p)]
            /\ shown' = [shown EXCEPT ![p] = @ \cup {Current}]
            /\ UNCHANGED inbound
       ELSE /\ inbound' = [inbound EXCEPT ![p] = [at |-> "looks", bound |-> bound, safe |-> safe]]
            /\ UNCHANGED <<card, shown>>
    /\ UNCHANGED <<prompt, mishaps, handleVars>>

\* A button names its request by the message it is on, once that is recorded.
Press(p, m) == p \in Tappers /\ Seen(p, m) /\ Writes(p, m, FALSE)

\* Safe: a no addressed to the session, which may refuse a request unseen.
Types(p, safe) == Writes(p, 0, safe)

\* Mutant: a button is taken for the current request, whichever it was on.
NamesAny(p) == inbound[p].bound # 0 \/ inbound[p].safe

\* A button's own request, and a safe no, are answered without more ado.
Names(p) == inbound[p].bound = Current \/ inbound[p].safe

\* answer: anything but the current request, seen or named, is not answered but
\* shown, with its buttons.
LooksAt(p) ==
    /\ inbound[p].at = "looks"
    /\ IF Current = 0
       THEN /\ IF inbound[p].bound # 0 THEN Sweep ELSE UNCHANGED card
            /\ inbound' = [inbound EXCEPT ![p] = Waits]
            /\ UNCHANGED shown
       ELSE IF Names(p) \/ (inbound[p].bound = 0 /\ Seen(p, Current))
       THEN /\ inbound' = [inbound EXCEPT ![p] =
                             [at |-> "keys", request |-> Current, safe |-> @.safe]]
            /\ UNCHANGED <<card, shown>>
       ELSE /\ card' = [q \in People |-> [m \in Made |->
                          IF q = p /\ m = Current THEN Kind(p)
                          ELSE IF inbound[p].bound # 0 THEN Swept(q, m) ELSE card[q][m]]]
            /\ shown' = [shown EXCEPT ![p] = @ \cup {Current}]
            /\ inbound' = [inbound EXCEPT ![p] = Waits]
    /\ UNCHANGED <<prompt, mishaps, missed, spoke, handleVars>>

\* The keys go to whatever the pane shows by now.
PressKeys(p) ==
    /\ inbound[p].at = "keys"
    /\ prompt' = 0
    /\ inbound' = [inbound EXCEPT ![p] = [at |-> "close", request |-> @.request]]
    /\ UNCHANGED <<mishaps, card, missed, spoke, shown, handleVars>>

\* close: every card of the request that was answered, whoever it was sent to.
Closes(p) ==
    /\ inbound[p].at = "close"
    /\ card' = [q \in People |-> [card[q] EXCEPT ![inbound[p].request] =
                  IF @ = "request" THEN "answered" ELSE @]]
    /\ inbound' = [inbound EXCEPT ![p] = Waits]
    /\ UNCHANGED <<prompt, mishaps, missed, spoke, shown, handleVars>>

----------------------------------------------------------------------------
Pushing(i) == Fire(i) \/ (\E p \in People : PassOver(i, p) \/ SendCard(i, p)) \/ RecordCard(i)
Handling(p) == LooksAt(p) \/ PressKeys(p) \/ Closes(p)

ChatNext ==
    \/ Asks \/ AnsweredAtLaptop \/ Hooked \/ QuietEnds \/ Reload
    \/ \E i \in Pushes : Pushing(i) \/ \E p \in People : SendFails(i, p)
    \/ \E p \in People :
          \/ \E m \in Made : Press(p, m)
          \/ \E safe \in BOOLEAN : Types(p, safe)
          \/ Handling(p)

\* Hooks arrive, timers fire, sends return, quiet hours and reloads end.
ChatSpec ==
    /\ ChatInit /\ [][ChatNext]_chatVars
    /\ WF_chatVars(Hooked) /\ WF_chatVars(QuietEnds) /\ WF_chatVars(~running /\ Reload)
    /\ \A i \in Pushes : WF_chatVars(Pushing(i))
    /\ \A p \in People : WF_chatVars(Handling(p))

----------------------------------------------------------------------------
\* Whoever allows a request has been shown that request: by a card, a reply or
\* a list, whatever they pressed or typed and however old it was.
ReadBeforeAllowed ==
    \A p \in People : inbound[p].at = "keys" /\ ~inbound[p].safe => inbound[p].request \in shown[p]

\* A request that is over ends without buttons on anybody's phone, when no push
\* of the session overlapped another.
ButtonsEnd ==
    <>[](overlapped \/ \A p \in People, m \in Made : card[p][m] = "request" => m = Current)

\* Everybody is told of a request the session goes on waiting on, or is owed it
\* with their next message, when no push fell into a reload.
EverybodyTold ==
    <>[](\A p \in People : prompt # 0 => prompt \in shown[p] \/ p \in missed \/ p \in skipped)

\* Every request reaches everybody, and takes its buttons with it when it goes.
RequestsEnd == ButtonsEnd /\ EverybodyTold
=============================================================================
