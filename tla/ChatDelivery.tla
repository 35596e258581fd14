----------------------------- MODULE ChatDelivery -----------------------------
(***************************************************************************)
(* internal/chat: how what a person writes gets from the IM to the bridge  *)
(* exactly once, while the panel is stopped and started and the channel's  *)
(* settings are saved.  The messages are 1, 2, ... in the order written.   *)
(* The IM keeps a message until it is told that it is known; the channel's *)
(* row keeps the settings and, beside them, what the adapter knows.        *)
(*                                                                         *)
(* An adapter that records first is weixin's: it stores what it was handed *)
(* before it passes any of it on.  The other is telegram's: it stores the  *)
(* offset after the batch.  feishu, which is called, is left out.          *)
(***************************************************************************)
EXTENDS Naturals, FiniteSets

CONSTANTS MaxMessages, Saves, Adapters, MaxFaults

NoSave == "nobody"

ASSUME DeliveryAssumption ==
    /\ {MaxMessages, MaxFaults} \subseteq Nat
    /\ Adapters # {} /\ NoSave \notin Saves

VARIABLES
    recordsFirst, \* which of the two adapters this channel has
    written,     \* how many messages the person has written
    confirmed,   \* the messages telegram's server has forgotten
    faults,      \* times the panel is stopped, another channel is saved, a
                 \* save fails, or weixin's server sends a message again
    up,          \* the panel is running
    channelRow,  \* the channel's row: the save it is from, what the adapter knows
    run,         \* the adapters that run: Run, once each
    current,     \* the one in b.chans, if any
    reloading,   \* who holds reloadMu
    save,        \* per save: the handler that carries it out
    waiting,     \* messages handed to goroutines, how many times
    handled,     \* messages handled, how many times
    \* History.
    mayRepeat,   \* messages that were passed on and then not recorded as known
    mayMiss,     \* messages that were recorded as known when the panel stopped
    raced   \* the channel was started between a save's stopping it and its writing the row

deliveryVars == <<recordsFirst, written, confirmed, faults, up, channelRow, run, current,
                  reloading, save, waiting, handled, mayRepeat, mayMiss, raced>>

Messages == 1..MaxMessages
OtherSave == "other"
NoRun == [at |-> "gone"]
NotSaving == [at |-> "idle"]
RowType == [from : {NoSave} \cup Saves, known : SUBSET Messages]
RunPlaces == {"polls", "asked", "passes", "records"}
PlainRuns == [at : RunPlaces, known : SUBSET Messages, batch : SUBSET Messages, cancelled : BOOLEAN]
PutRuns == [at : {"puts"}, known : SUBSET Messages, batch : SUBSET Messages, cancelled : BOOLEAN,
            from : {NoSave} \cup Saves]
RunType == {NoRun} \cup PlainRuns \cup PutRuns
SaveType ==
    {NotSaving, [at |-> "done"], [at |-> "reload"]}
        \cup [at : {"edits"}, known : SUBSET Messages]
        \cup [at : {"puts"}, known : SUBSET Messages, old : SUBSET Adapters]
        \cup [at : {"starts"}, old : SUBSET Adapters]

DeliveryTypeOK ==
    /\ recordsFirst \in BOOLEAN /\ up \in BOOLEAN /\ raced \in BOOLEAN
    /\ written \in 0..MaxMessages /\ confirmed \subseteq Messages
    /\ faults \in 0..MaxFaults
    /\ channelRow \in RowType
    /\ run \in [Adapters -> RunType]
    /\ current \in SUBSET Adapters /\ Cardinality(current) <= 1
    /\ reloading \in {NoSave, OtherSave} \cup Saves
    /\ save \in [Saves \cup {OtherSave} -> SaveType]
    /\ waiting \in [Messages -> Nat] /\ handled \in [Messages -> Nat]
    /\ mayRepeat \subseteq Messages /\ mayMiss \subseteq Messages

FreshRun(knows) == [at |-> "polls", known |-> knows, batch |-> {}, cancelled |-> FALSE]

DeliveryInit ==
    /\ recordsFirst \in BOOLEAN
    /\ written = 0 /\ confirmed = {} /\ faults = 0 /\ up = TRUE
    /\ channelRow = [from |-> NoSave, known |-> {}]
    /\ run = [r \in Adapters |-> IF r = CHOOSE first \in Adapters : TRUE THEN FreshRun({}) ELSE NoRun]
    /\ current = {CHOOSE first \in Adapters : TRUE}
    /\ reloading = NoSave
    /\ save = [s \in Saves \cup {OtherSave} |-> NotSaving]
    /\ waiting = [m \in Messages |-> 0] /\ handled = [m \in Messages |-> 0]
    /\ mayRepeat = {} /\ mayMiss = {} /\ raced = FALSE

reloadVars == <<up, current, reloading, save, raced>>
worldVars == <<recordsFirst, written, confirmed>>
historyVars == <<mayRepeat, mayMiss>>
Fault == faults < MaxFaults /\ faults' = faults + 1

\* The person writes.
PersonWrites ==
    /\ written < MaxMessages
    /\ written' = written + 1
    /\ UNCHANGED <<recordsFirst, confirmed, faults, reloadVars, channelRow, run, waiting, handled, historyVars>>

----------------------------------------------------------------------------
(* Run: one poll after another.                                            *)

\* telegram keeps an offset: knowing a message is knowing all before it.
Through(m) == 1..m

\* The poll reaches the server, which forgets what the offset it is sent passes.
Polls(r) ==
    /\ run[r].at = "polls" /\ ~run[r].cancelled
    /\ run' = [run EXCEPT ![r].at = "asked"]
    /\ confirmed' = IF recordsFirst THEN confirmed ELSE confirmed \cup run[r].known
    /\ UNCHANGED <<recordsFirst, written, faults, reloadVars, channelRow, waiting, handled, historyVars>>

\* What the server hands over: what is after the cursor, or not yet confirmed.
\* weixin's sends a message again now and then.
Handed(r, again) ==
    again \cup {m \in 1..written :
                   IF recordsFirst THEN \A k \in run[r].known : k < m ELSE m \notin confirmed}

\* The messages of a batch that the adapter does not know.
FreshOf(r, again) == Handed(r, again) \ run[r].known

\* The answer.  telegram looks whether it was cancelled; weixin goes on with
\* what it was given.  A poll with nothing in it is made again.
PollAnswered(r) ==
    /\ run[r].at = "asked"
    /\ recordsFirst \/ ~run[r].cancelled
    /\ \E again \in SUBSET run[r].known :
          /\ IF again = {} THEN UNCHANGED faults
             ELSE recordsFirst /\ Cardinality(again) = 1 /\ Fault
          /\ Handed(r, again) # {}
          /\ LET fresh == FreshOf(r, again) IN
             run' = [run EXCEPT ![r].batch = fresh,
                                ![r].at = IF fresh = {} THEN "polls"
                                          ELSE IF recordsFirst THEN "records" ELSE "passes",
                                ![r].known = IF recordsFirst THEN @ \cup fresh ELSE @]
    /\ UNCHANGED <<worldVars, reloadVars, channelRow, waiting, handled, historyVars>>

\* A poll that ends because the channel is being stopped.
PollEnds(r) ==
    /\ run[r].at \in {"polls", "asked"} /\ run[r].cancelled
    /\ run' = [run EXCEPT ![r] = NoRun]
    /\ UNCHANGED <<worldVars, faults, reloadVars, channelRow, waiting, handled, historyVars>>

\* deliver and Sink.Inbound: the next message goes to a goroutine of its own.
\* The loop does not look whether it was cancelled.
Passes(r) ==
    /\ run[r].at = "passes"
    /\ \E m \in run[r].batch :
          /\ \A o \in run[r].batch : m <= o
          /\ waiting' = [waiting EXCEPT ![m] = @ + 1]
          /\ run' = [run EXCEPT ![r].batch = @ \ {m},
                                ![r].known = IF recordsFirst THEN @ ELSE @ \cup Through(m),
                                ![r].at = IF run[r].batch # {m} THEN @ ELSE IF recordsFirst THEN "polls" ELSE "records"]
    /\ UNCHANGED <<worldVars, faults, reloadVars, channelRow, handled, historyVars>>

AfterRecord == IF recordsFirst THEN "passes" ELSE "polls"

\* Sink.State, its first half: nothing if the channel is being stopped, else
\* the row is read.
Records(r) ==
    /\ run[r].at = "records"
    /\ IF run[r].cancelled
       THEN /\ run' = [run EXCEPT ![r].at = AfterRecord]
            /\ mayRepeat' = mayRepeat \cup (run[r].known \ channelRow.known)
       ELSE /\ run' = [run EXCEPT ![r] = [at |-> "puts", known |-> @.known, batch |-> @.batch,
                                          cancelled |-> FALSE, from |-> channelRow.from]]
            /\ UNCHANGED mayRepeat
    /\ UNCHANGED <<worldVars, faults, reloadVars, channelRow, waiting, handled, mayMiss>>

\* Sink.State, its second half: the row that was read, with what is known now.
\* The statement fails once the channel is being stopped.
Puts(r) ==
    /\ run[r].at = "puts"
    /\ IF run[r].cancelled
       THEN mayRepeat' = mayRepeat \cup (run[r].known \ channelRow.known) /\ UNCHANGED channelRow
       ELSE channelRow' = [from |-> run[r].from, known |-> run[r].known] /\ UNCHANGED mayRepeat
    /\ run' = [run EXCEPT ![r] = [at |-> AfterRecord, known |-> @.known, batch |-> @.batch,
                                  cancelled |-> @.cancelled]]
    /\ UNCHANGED <<worldVars, faults, reloadVars, waiting, handled, mayMiss>>

\* A goroutine of Inbound gets the person's mutex, and handles its message.
HandlesMessage(m) ==
    /\ waiting[m] > 0
    /\ waiting' = [waiting EXCEPT ![m] = @ - 1]
    /\ handled' = [handled EXCEPT ![m] = @ + 1]
    /\ UNCHANGED <<worldVars, faults, reloadVars, channelRow, run, historyVars>>

----------------------------------------------------------------------------
(* Saving a channel's settings, and Reload.                                *)

Cancelled(rs) == [r \in Adapters |-> IF r \in rs /\ run[r] # NoRun THEN [run[r] EXCEPT !.cancelled = TRUE] ELSE run[r]]
Stopped(rs) == \A r \in rs : run[r] = NoRun

\* handlePutChatChannel reads the row, to keep the secrets it is not sent and
\* what the adapter knows.
Edits(s) ==
    /\ up /\ s \in Saves /\ save[s] = NotSaving
    /\ save' = [save EXCEPT ![s] = [at |-> "edits", known |-> channelRow.known]]
    /\ UNCHANGED <<worldVars, faults, up, channelRow, run, current, reloading, waiting, handled, historyVars,
                   raced>>

\* Mutant: the row is written while the adapter still runs.
StopsNothing(s) ==
    /\ save[s].at = "edits"
    /\ save' = [save EXCEPT ![s] = [at |-> "puts", known |-> @.known, old |-> {}]]
    /\ UNCHANGED <<worldVars, faults, up, channelRow, run, current, reloading, waiting, handled, historyVars,
                   raced>>

\* stopChannel takes the channel out of the map and cancels it.
StopsChannel(s) ==
    /\ save[s].at = "edits"
    /\ save' = [save EXCEPT ![s] = [at |-> "puts", known |-> @.known, old |-> current]]
    /\ run' = Cancelled(current)
    /\ current' = {}
    /\ UNCHANGED <<worldVars, faults, up, channelRow, reloading, waiting, handled, historyVars, raced>>

\* It waits for it to be over, and the row is replaced.
PutsRow(s) ==
    /\ save[s].at = "puts" /\ Stopped(save[s].old)
    /\ channelRow' = [from |-> s, known |-> save[s].known]
    /\ mayRepeat' = mayRepeat \cup (channelRow.known \ save[s].known)
    /\ save' = [save EXCEPT ![s] = [at |-> "reload"]]
    /\ UNCHANGED <<worldVars, faults, up, run, current, reloading, waiting, handled, mayMiss, raced>>

\* The row cannot be written: the save ends there, with the channel stopped.
PutFails(s) ==
    /\ save[s].at = "puts" /\ Stopped(save[s].old)
    /\ Fault
    /\ save' = [save EXCEPT ![s] = [at |-> "done"]]
    /\ UNCHANGED <<worldVars, up, channelRow, run, current, reloading, waiting, handled, historyVars, raced>>

\* Somebody saves or removes another channel, which reloads this one as well.
SavesOther ==
    /\ up /\ Fault /\ save[OtherSave].at \in {"idle", "done"}
    /\ save' = [save EXCEPT ![OtherSave] = [at |-> "reload"]]
    /\ UNCHANGED <<worldVars, up, channelRow, run, current, reloading, waiting, handled, historyVars,
                   raced>>

\* Reload, with reloadMu: the channels are taken out of the map and cancelled.
Reloads(s) ==
    /\ save[s].at = "reload" /\ reloading = NoSave
    /\ reloading' = s
    /\ save' = [save EXCEPT ![s] = [at |-> "starts", old |-> current]]
    /\ run' = Cancelled(current)
    /\ current' = {}
    /\ UNCHANGED <<worldVars, faults, up, channelRow, waiting, handled, historyVars, raced>>

\* startChannel: the first of Adapters nobody waits for runs on what the row says.
StartsRun(r) ==
    /\ run[r] = NoRun
    /\ \A s \in Saves : save[s].at = "puts" => r \notin save[s].old
    /\ run' = [run EXCEPT ![r] = FreshRun(channelRow.known)]
    /\ current' = {r}

\* Reload has waited for those it cancelled, and starts the channel.
ReloadStarts(s) ==
    /\ save[s].at = "starts" /\ Stopped(save[s].old)
    /\ \E r \in Adapters : StartsRun(r)
    /\ raced' = (raced \/ \E t \in Saves : save[t].at = "puts")
    /\ save' = [save EXCEPT ![s] = [at |-> "done"]]
    /\ reloading' = NoSave
    /\ UNCHANGED <<worldVars, faults, up, channelRow, waiting, handled, historyVars>>

----------------------------------------------------------------------------
(* The panel stops, at any moment, and starts again.                       *)

\* Passed on, or about to be, and not yet recorded.
Unrecorded ==
    {m \in Messages \ channelRow.known : \E r \in Adapters : run[r] # NoRun /\ m \in run[r].known}

\* Passed on, or about to be, and not handed over by the server again.
Unhandled ==
    {m \in Messages :
        /\ waiting[m] > 0 \/ \E r \in Adapters : run[r] # NoRun /\ m \in run[r].batch
        /\ m \in channelRow.known \cup confirmed}

PanelStops ==
    /\ up /\ up' = FALSE
    /\ Fault
    /\ mayRepeat' = mayRepeat \cup Unrecorded
    /\ mayMiss' = mayMiss \cup Unhandled
    /\ run' = [r \in Adapters |-> NoRun] /\ current' = {} /\ reloading' = NoSave
    /\ save' = [s \in DOMAIN save |-> IF save[s] = NotSaving THEN NotSaving ELSE [at |-> "done"]]
    /\ waiting' = [m \in Messages |-> 0]
    /\ UNCHANGED <<worldVars, channelRow, handled, raced>>

\* Start: Reload, with nothing running.
PanelStarts ==
    /\ ~up /\ up' = TRUE
    /\ \E r \in Adapters : StartsRun(r)
    /\ UNCHANGED <<worldVars, faults, channelRow, reloading, save, waiting, handled, historyVars, raced>>

----------------------------------------------------------------------------
RunStep(r) == Polls(r) \/ PollAnswered(r) \/ PollEnds(r) \/ Passes(r) \/ Records(r) \/ Puts(r)
SaveStep(s) == StopsChannel(s) \/ PutsRow(s) \/ PutFails(s) \/ Reloads(s) \/ ReloadStarts(s)

DeliveryNext ==
    \/ PersonWrites \/ SavesOther \/ PanelStops \/ PanelStarts
    \/ \E r \in Adapters : RunStep(r)
    \/ \E m \in Messages : HandlesMessage(m)
    \/ \E s \in Saves : Edits(s)
    \/ \E s \in Saves \cup {OtherSave} : SaveStep(s)

\* Polls are answered, goroutines get their mutex, and what was begun goes on.
DeliverySpec ==
    /\ DeliveryInit /\ [][DeliveryNext]_deliveryVars
    /\ \A r \in Adapters : WF_deliveryVars(RunStep(r))
    /\ \A m \in Messages : WF_deliveryVars(HandlesMessage(m))
    /\ \A s \in Saves \cup {OtherSave} : WF_deliveryVars(SaveStep(s))
    /\ WF_deliveryVars(PanelStarts)

----------------------------------------------------------------------------
\* Nothing is handled twice, whatever the server sends again and however often
\* the channel is reloaded: but for what an adapter passed on without getting to
\* record it, or a save forgot, or two adapters passed on in an overlapped save.
HandledOnce ==
    \A m \in Messages : handled[m] + waiting[m] > 1 => m \in mayRepeat \/ raced

\* What was saved stays saved: the channel's row is that of a save until the
\* next, however many batches are recorded beside it, unless another reload
\* started the channel between a save's stopping it and writing the row.
SavedStays ==
    [][channelRow'.from # channelRow.from => raced \/ \E s \in Saves : channelRow'.from = s /\ save[s].at = "puts"]_channelRow

\* A save that failed has left the channel stopped.
LeftStopped ==
    up /\ current = {} /\ \A s \in Saves \cup {OtherSave} : save[s].at \in {"idle", "done"}

\* Everything a person writes is handled, but for what the panel was at when it
\* was stopped, and while a save that failed leaves the channel stopped.
AllHandled == <>[](LeftStopped \/ \A m \in 1..written : handled[m] > 0 \/ m \in mayMiss)

\* What a person writes is handled, and handled once, whatever is restarted,
\* reloaded or sent again; and what is saved of a channel stays saved.
Delivered == []HandledOnce /\ SavedStays /\ AllHandled
=============================================================================
