----------------------------- MODULE GridControl -----------------------------
(***************************************************************************)
(* Who drives the size of one session's terminal, and what each viewer has *)
(* been told about it (internal/session/manager.go: subscribe,             *)
(* claimControlLocked, Unsubscribe, releaseControlLocked, SetHidden,       *)
(* broadcastLocked, Resize, TakeControl; internal/ws/conn.go: handling of  *)
(* the visibility, resize and takeControl messages, pumpStream,            *)
(* deregister).                                                            *)
(*                                                                         *)
(* A viewer is one browser tab's connection.  Ownership is by client id,   *)
(* which "Duplicate tab" copies, so several viewers may share an owner.    *)
(* Each viewer has two goroutines on the server: the reader that handles   *)
(* what the browser sends, and the pump that writes the events queued for  *)
(* it.  The model covers an attachment until it is closed.                 *)
(***************************************************************************)
EXTENDS Integers, Sequences, FiniteSets

CONSTANTS Viewers,       (* connections watching the session              *)
          Clients,       (* browser client ids                            *)
          ClientOf,      (* viewer -> its client id                       *)
          Sizes,         (* grid sizes                                    *)
          None,
          QueueCap,      (* subscriberQueue: events a viewer may be behind*)
          MayDrop,       (* output comes faster than some viewer reads    *)
          TakeAfterDrop, (* a takeControl may reach a stream whose        *)
                         (* subscriber has been dropped                   *)
          Late           (* viewers whose messages may wait to be written *)

ASSUME GridAssumption ==
    /\ ClientOf \in [Viewers -> Clients]
    /\ None \notin Clients
    /\ Sizes # {} /\ None \notin Sizes
    /\ QueueCap \in Nat \ {0}
    /\ MayDrop \in BOOLEAN /\ TakeAfterDrop \in BOOLEAN
    /\ Late \subseteq Viewers

VARIABLES subs,       (* l.subs: viewers registered with the broadcaster  *)
          hidden,     (* viewers whose terminal is off-screen             *)
          controller, (* l.controller: a client id, or None               *)
          last,       (* l.lastController                                 *)
          left,       (* l.lastControllerAt: never, recent or stale       *)
          size,       (* l.cols, l.rows                                   *)
          open,       (* viewers with a stream in their connection's byID *)
          queue,      (* viewer -> the events queued for its pump         *)
          reader,     (* viewer -> what its reader is in the middle of    *)
          mail,       (* viewer -> the message its reader, and the one    *)
                      (* its pump, has made and not yet written           *)
          told        (* viewer -> the last grid message it received      *)

gridVars == <<controller, last, left, size>>
subVars  == <<subs, hidden, queue>>
connVars == <<open, reader, mail, told>>
vars == <<gridVars, subVars, connVars>>

\* An output event carries no size; every other event modelled is a size.
Output == None

NoMail == [reader |-> None, pump |-> None]
Idle == [op |-> "idle", size |-> None, tell |-> FALSE]

Init ==
    /\ subs = {} /\ hidden = {} /\ open = {}
    /\ controller = None /\ last = None /\ left = "never"
    /\ size \in Sizes
    /\ queue = [v \in Viewers |-> <<>>]
    /\ reader = [v \in Viewers |-> Idle]
    /\ mail = [v \in Viewers |-> NoMail]
    /\ told = [v \in Viewers |-> None]

-----------------------------------------------------------------------------
(* The rules of ownership, as functions of who is registered.              *)

\* The viewers on screen among those in S.
OnScreen(S, H) == S \ H

\* Mutant: anybody arriving is given an unowned grid.
MayClaimAny(c) == controller = None

\* claimControlLocked: nobody has driven the grid, or c was the one, or
\* whoever did has been gone longer than controllerGrace.
MayClaim(c) ==
    /\ controller = None
    /\ left = "stale" \/ last = None \/ last = c

Claim(c) ==
    IF MayClaim(c)
      THEN controller' = c /\ last' = None /\ left' = "never"
      ELSE UNCHANGED <<controller, last, left>>

\* releaseControlLocked for each viewer in gone, leaving S registered of
\* which H are hidden: unless another connection of the client is on screen.
Release(gone, S, H) ==
    IF /\ \E v \in gone : ClientOf[v] = controller
       /\ \A v \in OnScreen(S, H) : ClientOf[v] # controller
      THEN controller' = None /\ last' = controller /\ left' = "recent"
      ELSE UNCHANGED <<controller, last, left>>

\* broadcastLocked: queued for everybody, except that a viewer whose queue
\* is full is dropped.
Full == {v \in subs : Len(queue[v]) >= QueueCap}

\* Mutant: a dropped viewer keeps whatever it owned.
BroadcastKeepsOwner(event) ==
    /\ MayDrop \/ Full = {}
    /\ subs' = subs \ Full
    /\ queue' = [v \in Viewers |-> IF v \in subs \ Full
                                   THEN Append(queue[v], event) ELSE queue[v]]
    /\ UNCHANGED <<controller, last, left>>

Broadcast(event) ==
    /\ MayDrop \/ Full = {}
    /\ subs' = subs \ Full
    /\ queue' = [v \in Viewers |-> IF v \in subs \ Full
                                   THEN Append(queue[v], event) ELSE queue[v]]
    /\ Release(Full, subs \ Full, hidden)

\* The size message: the flag is read when the message is made.
Message(v, z) == [size |-> z, controlling |-> controller = ClientOf[v]]

\* Made now by v's reader or pump, and written now or later.
Send(v, who, m) ==
    IF v \in Late
      THEN mail' = [mail EXCEPT ![v][who] = m] /\ UNCHANGED told
      ELSE told' = [told EXCEPT ![v] = m] /\ UNCHANGED mail

\* The reader takes the next message when it has done with the last.
Ready(v) == reader[v] = Idle /\ mail[v].reader = None

-----------------------------------------------------------------------------
(* Arriving and leaving.                                                   *)

\* A terminal without a stream: what it was told matters no more.
Forget(v) == told' = [told EXCEPT ![v] = None]

ReaderGoto(v, r) == reader' = [reader EXCEPT ![v] = r]

\* subscribe: registered, claimed if on screen, and told the size first.
Subscribe(v, offScreen) ==
    /\ v \notin open /\ Ready(v)
    /\ subs' = subs \cup {v}
    /\ open' = open \cup {v}
    /\ hidden' = IF offScreen THEN hidden \cup {v} ELSE hidden \ {v}
    /\ IF offScreen THEN UNCHANGED <<controller, last, left>>
                    ELSE Claim(ClientOf[v])
    /\ queue' = [queue EXCEPT ![v] = <<size>>]
    /\ ReaderGoto(v, [Idle EXCEPT !.op = "subscribed"])
    /\ UNCHANGED <<size, mail, told>>

\* The confirmation; the pump of the stream starts only after it.
Subscribed(v) ==
    /\ reader[v].op = "subscribed"
    /\ Send(v, "reader", Message(v, size))
    /\ ReaderGoto(v, Idle)
    /\ UNCHANGED <<gridVars, subVars, open>>

\* unsubscribe or closeAll: the pump's context is cancelled, and whatever
\* was queued goes with the stream.
Unsubscribe(v) ==
    /\ v \in open /\ Ready(v)
    /\ open' = open \ {v}
    /\ subs' = subs \ {v}
    /\ hidden' = hidden \ {v}
    /\ queue' = [queue EXCEPT ![v] = <<>>]
    /\ IF v \in subs THEN Release({v}, subs \ {v}, hidden)
                     ELSE UNCHANGED <<controller, last, left>>
    /\ Forget(v)
    /\ UNCHANGED <<size, reader, mail>>

\* SetHidden, then the answer that goes to this viewer only.
Hide(v) ==
    /\ v \in open /\ v \notin hidden /\ Ready(v)
    /\ hidden' = hidden \cup {v}
    /\ IF v \in subs THEN Release({v}, subs, hidden \cup {v})
                     ELSE UNCHANGED <<controller, last, left>>
    /\ ReaderGoto(v, [Idle EXCEPT !.op = "answer"])
    /\ UNCHANGED <<size, subs, queue, open, mail, told>>

Show(v) ==
    /\ v \in open /\ v \in hidden /\ Ready(v)
    /\ hidden' = hidden \ {v}
    /\ IF v \in subs THEN Claim(ClientOf[v])
                     ELSE UNCHANGED <<controller, last, left>>
    /\ ReaderGoto(v, [Idle EXCEPT !.op = "answer"])
    /\ UNCHANGED <<size, subs, queue, open, mail, told>>

Answer(v) ==
    /\ reader[v].op = "answer"
    /\ Send(v, "reader", Message(v, size))
    /\ ReaderGoto(v, Idle)
    /\ UNCHANGED <<gridVars, subVars, open>>

-----------------------------------------------------------------------------
(* Resizing and taking control.                                            *)

\* Live.Resize: only the owner moves the grid.
ResizeGrid(c, z) ==
    IF controller = c /\ size # z
      THEN size' = z /\ Broadcast(z) /\ UNCHANGED hidden
      ELSE UNCHANGED <<gridVars, subVars>>

\* A window on screen changes size.
Resize(v, z) ==
    /\ v \in open \ hidden /\ Ready(v)
    /\ ResizeGrid(ClientOf[v], z)
    /\ UNCHANGED connVars

\* Mutant: ownership is keyed on the connection, not on the client id.
TakeControlByConnection(v, z) ==
    /\ v \in open \ hidden /\ Ready(v)
    /\ TakeAfterDrop \/ v \in subs
    /\ controller' = v
    /\ ReaderGoto(v, [op |-> "take", size |-> z,
                      tell |-> controller # v /\ size = z])
    /\ UNCHANGED <<last, left, size, subVars, open, mail, told>>

\* TakeControl, first critical section.
TakeControl(v, z) ==
    /\ v \in open \ hidden /\ Ready(v)
    /\ TakeAfterDrop \/ v \in subs
    /\ controller' = ClientOf[v]
    /\ ReaderGoto(v, [op |-> "take", size |-> z,
                      tell |-> controller # ClientOf[v] /\ size = z])
    /\ UNCHANGED <<last, left, size, subVars, open, mail, told>>

\* Mutant: an owner that brings no new size is announced to nobody.
TakeSizeSilently(v) ==
    /\ reader[v].op = "take"
    /\ ResizeGrid(ClientOf[v], reader[v].size)
    /\ ReaderGoto(v, Idle)
    /\ UNCHANGED <<open, mail, told>>

\* TakeControl, second: the grid follows, if it is still this client's.
TakeSize(v) ==
    /\ reader[v].op = "take"
    /\ ResizeGrid(ClientOf[v], reader[v].size)
    /\ ReaderGoto(v, IF reader[v].tell THEN [Idle EXCEPT !.op = "tell"] ELSE Idle)
    /\ UNCHANGED <<open, mail, told>>

\* TakeControl, last: ownership moved and the grid did not, so say so.
TakeTell(v) ==
    /\ reader[v].op = "tell"
    /\ Broadcast(size)
    /\ ReaderGoto(v, Idle)
    /\ UNCHANGED <<size, hidden, open, mail, told>>

-----------------------------------------------------------------------------
(* Output, the pumps, and time.                                            *)

\* The session writes something (manager.go, pump).
SessionOutput ==
    /\ MayDrop /\ subs # {}
    /\ Broadcast(Output)
    /\ UNCHANGED <<size, hidden, connVars>>

\* It starts after the confirmation is written, and writes one at a time.
PumpRuns(v) ==
    /\ reader[v].op # "subscribed"
    /\ mail[v].pump = None

PumpForwards(v) ==
    /\ v \in open /\ queue[v] # <<>>
    /\ PumpRuns(v)
    /\ queue' = [queue EXCEPT ![v] = Tail(@)]
    /\ IF Head(queue[v]) = Output
         THEN UNCHANGED <<mail, told>>
         ELSE Send(v, "pump", Message(v, Head(queue[v])))
    /\ UNCHANGED <<gridVars, subs, hidden, open, reader>>

\* A dropped viewer's channel has run dry: the stream is deregistered, and
\* the Unsubscribe in deregister finds nothing.
PumpEnds(v) ==
    /\ v \in open \ subs /\ queue[v] = <<>>
    /\ PumpRuns(v)
    /\ open' = open \ {v}
    /\ Forget(v)
    /\ UNCHANGED <<gridVars, subVars, reader, mail>>

\* One of the goroutines holding a message for v gets the write lock.
Write(v) ==
    /\ \E who \in {"reader", "pump"} :
          /\ mail[v][who] # None
          /\ told' = [told EXCEPT ![v] = IF v \in open THEN mail[v][who] ELSE @]
          /\ mail' = [mail EXCEPT ![v][who] = None]
    /\ UNCHANGED <<gridVars, subVars, open, reader>>

\* controllerGrace passes.
GracePasses ==
    /\ left = "recent"
    /\ left' = "stale"
    /\ UNCHANGED <<controller, last, size, subVars, connVars>>

-----------------------------------------------------------------------------
Next ==
    \/ SessionOutput \/ GracePasses
    \/ \E v \in Viewers :
          \/ \E offScreen \in BOOLEAN : Subscribe(v, offScreen)
          \/ Subscribed(v) \/ Unsubscribe(v)
          \/ Hide(v) \/ Show(v) \/ Answer(v)
          \/ \E z \in Sizes : Resize(v, z) \/ TakeControl(v, z)
          \/ TakeSize(v) \/ TakeTell(v)
          \/ PumpForwards(v) \/ PumpEnds(v) \/ Write(v)

Spec == Init /\ [][Next]_vars

-----------------------------------------------------------------------------
TypeOK ==
    /\ subs \subseteq Viewers /\ hidden \subseteq Viewers
    /\ open \subseteq Viewers
    /\ controller \in Clients \cup {None}
    /\ last \in Clients \cup {None}
    /\ left \in {"never", "recent", "stale"}
    /\ size \in Sizes
    /\ queue \in [Viewers -> Seq(Sizes \cup {Output})]
    /\ reader \in [Viewers -> [op : {"idle", "subscribed", "answer", "take", "tell"},
                               size : Sizes \cup {None}, tell : BOOLEAN]]

(* The grid is never owned by a client that has no terminal on screen: an  *)
(* owner that is gone cannot be waited out, so every later viewer would be *)
(* passive for ever (releaseControlLocked, SetHidden).                     *)
ControllerPresent ==
    controller # None =>
        \E v \in OnScreen(subs, hidden) : ClientOf[v] = controller

(* Whenever the grid is unowned after somebody has driven it, the time of  *)
(* the departure is on record, so that the grace period does end.          *)
DepartureStamped ==
    controller = None => (last = None <=> left = "never")

(* An owner is there, or its departure is on record: the grid is never     *)
(* held by nobody who can be waited out (releaseControlLocked).            *)
OwnerAccounted == ControllerPresent /\ DepartureStamped
(* Within the grace period nobody gets a departed owner's grid but that    *)
(* owner, or by taking control on purpose; and until then it does not move.*)
GraceHonoured ==
    [][controller = None /\ left = "recent" =>
          /\ size' = size
          /\ \/ controller' \in {None, last}
             \/ \E v \in Viewers : reader'[v].op = "take" /\ reader[v] = Idle]_vars

\* Nothing on its way to viewer v.
Settled(v) ==
    /\ v \in subs /\ v \notin hidden /\ v \in open
    /\ queue[v] = <<>> /\ mail[v] = NoMail
    /\ \A w \in Viewers : reader[w] = Idle

(* A viewer that has received everything sent to it knows the size of the  *)
(* grid, and whether it is the one that drives it: otherwise it publishes  *)
(* sizes the server discards and is never offered the button that would    *)
(* fix it (TakeControl, the answer to a visibility message).               *)
ToldTheTruth ==
    \A v \in Viewers : Settled(v) => told[v] = Message(v, size)
=============================================================================
