----------------------------- MODULE StateSync -----------------------------
(***************************************************************************)
(* How every open page comes to show the same state (internal/ws/hub.go,   *)
(* the state slot and the event queue of internal/ws/conn.go, notifyState, *)
(* notifyPanel and the poll tick of internal/httpapi/api.go).              *)
(*                                                                         *)
(* A snapshot is absolute: only the newest is kept for a viewer.  An event *)
(* (a note or a todo list has changed) is a reason to fetch something, and *)
(* is kept until it is written.  The poller and the flushes of the hub     *)
(* build snapshots; HTTP handlers raise events; one writer goroutine of    *)
(* each connection writes both.  Producers hold snapMu, hub.mu and         *)
(* stateMu only inside one action.                                         *)
(***************************************************************************)
EXTENDS Naturals, FiniteSets

CONSTANTS Pages,
          Poller,      (* the poll loop of the server: one goroutine       *)
          Flushers,    (* flushes of the hub that may run at once          *)
          Announcers,  (* handlers that may be raising an event at once    *)
          Events,      (* (project, kind) pairs                            *)
          MaxWorld,    (* bound: how often what is true changes            *)
          Says,        (* what a snapshot of each of these worlds says     *)
          Overlap,     (* a snapshot may be compared with the last one     *)
                       (* while another is on its way to the viewers       *)
          Unsaid

Producers == {Poller} \union Flushers
Casters   == Producers \union Announcers
Worlds    == 1..MaxWorld
Snapshots == {Says[w] : w \in Worlds}

ASSUME StateSyncAssumption ==
    /\ MaxWorld \in Nat \ {0} /\ DOMAIN Says = Worlds
    /\ Overlap \in BOOLEAN
    /\ Poller \notin Flushers \union Announcers
    /\ Flushers \intersect Announcers = {}
    /\ Unsaid \notin Snapshots \union Events \union Pages

VARIABLES world,      (* what is true of the sessions                      *)
          noted,      (* noteStale: a failure the snapshots will show      *)
          lastSnapshot, (* Server.lastSnapshot                             *)
          scheduled,  (* Hub.timer is running                              *)
          at,         (* where each producer and announcer is              *)
          carries,    (* the payload it has in hand                        *)
          to,         (* the connections its broadcast has still to reach  *)
          rousing,    (* the one it has queued for and not yet woken       *)
          phase,      (* "out", or how far the connection has come         *)
          slot,       (* Conn.statePending                                 *)
          events,     (* Conn.eventPending                                 *)
          seen,       (* Conn.eventSeen                                    *)
          wake,       (* Conn.stateWake holds its one token                *)
          hands,      (* what ServeHTTP, then the writer, is writing       *)
          shown,      (* what the page shows                               *)
          owed        (* history: events raised and not yet heard           *)

serverVars == <<world, noted, lastSnapshot, scheduled>>
castVars   == <<at, carries, to, rousing>>
queueVars  == <<slot, events, seen, wake>>
pageVars   == <<phase, hands, shown, owed>>
syncVars == <<serverVars, castVars, queueVars, pageVars>>

Nothing == [events |-> {}, snapshot |-> Unsaid]

SyncInit ==
    /\ world = 1 /\ noted = FALSE /\ lastSnapshot = Unsaid /\ scheduled = FALSE
    /\ at = [c \in Casters |-> "idle"]
    /\ carries = [c \in Casters |-> Unsaid]
    /\ to = [c \in Casters |-> {}]
    /\ rousing = [c \in Casters |-> Unsaid]
    /\ phase = [v \in Pages |-> "out"]
    /\ slot = [v \in Pages |-> Unsaid]
    /\ events = [v \in Pages |-> {}] /\ seen = [v \in Pages |-> {}]
    /\ wake = [v \in Pages |-> FALSE]
    /\ hands = [v \in Pages |-> Nothing]
    /\ shown = [v \in Pages |-> Unsaid]
    /\ owed = [v \in Pages |-> {}]

Connected == {v \in Pages : phase[v] # "out"}

Goto(c, label) == at' = [at EXCEPT ![c] = label]

\* c has nothing more to do, and keeps nothing.
Rest(c) ==
    /\ Goto(c, "idle")
    /\ carries' = [carries EXCEPT ![c] = Unsaid]

-----------------------------------------------------------------------------
(* What is true changes; some changes ask for a flush, and most requests   *)
(* for a flush come with no change.                                        *)

\* The changes that are still to come, a noted failure among them.
MayChange == world + (IF noted THEN 1 ELSE 0) < MaxWorld

Change ==
    /\ MayChange
    /\ world' = world + 1
    /\ UNCHANGED <<noted, lastSnapshot, scheduled, castVars, queueVars, pageVars>>

\* staleGrace after a failure, snapshots say that there has been one.
StaleShows ==
    /\ noted
    /\ world' = world + 1 /\ noted' = FALSE
    /\ UNCHANGED <<lastSnapshot, scheduled, castVars, queueVars, pageVars>>

\* Hub.Notify: a flush that is already scheduled will do.
Notify ==
    /\ ~scheduled
    /\ scheduled' = TRUE
    /\ UNCHANGED <<world, noted, lastSnapshot, castVars, queueVars, pageVars>>

-----------------------------------------------------------------------------
(* Producers: build a snapshot, drop it if it is the last one again,       *)
(* otherwise hand it to every connection.                                  *)

Tick ==
    /\ at[Poller] = "idle"
    /\ Goto(Poller, "build")
    /\ UNCHANGED <<serverVars, carries, to, rousing, queueVars, pageVars>>

\* The timer fires; from here on a Notify starts another.
Flush(f) ==
    /\ scheduled /\ at[f] = "idle"
    /\ scheduled' = FALSE
    /\ Goto(f, "build")
    /\ UNCHANGED <<world, noted, lastSnapshot, carries, to, rousing, queueVars, pageVars>>

Build(p) ==
    /\ at[p] = "build"
    /\ carries' = [carries EXCEPT ![p] = Says[world]]
    /\ Goto(p, "compare")
    /\ UNCHANGED <<serverVars, to, rousing, queueVars, pageVars>>

\* The poll, or the database: nothing is sent, and the failure is noted.
BuildFails(p) ==
    /\ at[p] = "build"
    /\ noted \/ MayChange
    /\ noted' = TRUE
    /\ Rest(p)
    /\ UNCHANGED <<world, lastSnapshot, scheduled, to, rousing, queueVars, pageVars>>

MayCompare(p) ==
    /\ at[p] = "compare"
    /\ Overlap \/ \A q \in Producers : at[q] \notin {"copy", "cast"}

SameAgain(p) ==
    /\ MayCompare(p) /\ carries[p] = lastSnapshot
    /\ Rest(p)
    /\ UNCHANGED <<serverVars, to, rousing, queueVars, pageVars>>

\* Mutant: what is remembered is what is true by now, not what is sent.
RemembersTheWorld(p) ==
    /\ MayCompare(p) /\ carries[p] # lastSnapshot
    /\ lastSnapshot' = Says[world]
    /\ Goto(p, "copy")
    /\ UNCHANGED <<world, noted, scheduled, carries, to, rousing, queueVars,
                   pageVars>>

Remember(p) ==
    /\ MayCompare(p) /\ carries[p] # lastSnapshot
    /\ lastSnapshot' = carries[p]
    /\ Goto(p, "copy")
    /\ UNCHANGED <<world, noted, scheduled, carries, to, rousing, queueVars,
                   pageVars>>

\* notifyPanel, after the note or the list has been stored.
Announce(c, e) ==
    /\ at[c] = "idle"
    /\ carries' = [carries EXCEPT ![c] = e]
    /\ Goto(c, "copy")
    /\ owed' = [v \in Pages |-> IF v \in Connected THEN owed[v] \union {e}
                                                     ELSE owed[v]]
    /\ UNCHANGED <<serverVars, to, rousing, queueVars, phase, hands, shown>>

-----------------------------------------------------------------------------
(* Broadcast and BroadcastEvent: copy the connections, then queue for one  *)
(* after the other, without waiting for any of them.                       *)

Copy(c) ==
    /\ at[c] = "copy"
    /\ to' = [to EXCEPT ![c] = Connected]
    /\ Goto(c, "cast")
    /\ UNCHANGED <<serverVars, carries, rousing, queueVars, pageVars>>

Reaches(c, v) ==
    /\ at[c] = "cast" /\ rousing[c] = Unsaid /\ v \in to[c]
    /\ to' = [to EXCEPT ![c] = @ \ {v}]
    /\ rousing' = [rousing EXCEPT ![c] = v]

QueueState(p, v) ==
    /\ Reaches(p, v)
    /\ slot' = [slot EXCEPT ![v] = carries[p]]
    /\ UNCHANGED <<serverVars, at, carries, events, seen, wake, pageVars>>

\* Mutant: an event takes the place of the snapshot that waits.
QueueEventAsState(c, v) ==
    /\ Reaches(c, v)
    /\ slot' = [slot EXCEPT ![v] = carries[c]]
    /\ UNCHANGED <<serverVars, at, carries, events, seen, wake, pageVars>>

\* An event already waiting is not queued twice.
QueueEvent(c, v) ==
    /\ Reaches(c, v)
    /\ seen' = [seen EXCEPT ![v] = @ \union {carries[c]}]
    /\ events' = [events EXCEPT
                     ![v] = IF carries[c] \in seen[v] THEN @
                                                      ELSE @ \union {carries[c]}]
    /\ UNCHANGED <<serverVars, at, carries, slot, wake, pageVars>>

\* The token is there at most once: whoever takes it takes everything.
Wake(c) ==
    /\ rousing[c] # Unsaid
    /\ wake' = [wake EXCEPT ![rousing[c]] = TRUE]
    /\ rousing' = [rousing EXCEPT ![c] = Unsaid]
    /\ UNCHANGED <<serverVars, at, carries, to, slot, events, seen, pageVars>>

CastDone(c) ==
    /\ at[c] = "cast" /\ to[c] = {} /\ rousing[c] = Unsaid
    /\ Rest(c)
    /\ UNCHANGED <<serverVars, to, rousing, queueVars, pageVars>>

-----------------------------------------------------------------------------
(* A connection: in the hub first, then greeted with a snapshot of its     *)
(* own, and only then does its writer start.                               *)

Connect(v) ==
    /\ phase[v] = "out"
    /\ phase' = [phase EXCEPT ![v] = "added"]
    /\ UNCHANGED <<serverVars, castVars, queueVars, hands, shown, owed>>

Greet(v) ==
    /\ phase[v] = "added"
    /\ hands' = [hands EXCEPT ![v].snapshot = Says[world]]
    /\ phase' = [phase EXCEPT ![v] = "greeted"]
    /\ UNCHANGED <<serverVars, castVars, queueVars, shown, owed>>

GreetFails(v) ==
    /\ phase[v] = "added"
    /\ noted \/ MayChange
    /\ noted' = TRUE
    /\ phase' = [phase EXCEPT ![v] = "open"]
    /\ UNCHANGED <<world, lastSnapshot, scheduled, castVars, queueVars, hands, shown, owed>>

\* The writer wakes and takes everything that waits.
TakePending(v) ==
    /\ phase[v] = "open" /\ wake[v] /\ hands[v] = Nothing
    /\ wake' = [wake EXCEPT ![v] = FALSE]
    /\ hands' = [hands EXCEPT ![v] = [events |-> events[v], snapshot |-> slot[v]]]
    /\ events' = [events EXCEPT ![v] = {}] /\ seen' = [seen EXCEPT ![v] = {}]
    /\ slot' = [slot EXCEPT ![v] = Unsaid]
    /\ UNCHANGED <<serverVars, castVars, phase, shown, owed>>

\* Events first.
WriteEvent(v) ==
    \E e \in hands[v].events :
        /\ hands' = [hands EXCEPT ![v].events = @ \ {e}]
        /\ owed' = [owed EXCEPT ![v] = @ \ {e}]
        /\ UNCHANGED <<serverVars, castVars, queueVars, phase, shown>>

WriteState(v) ==
    /\ hands[v].events = {} /\ hands[v].snapshot # Unsaid
    /\ shown' = [shown EXCEPT ![v] = hands[v].snapshot]
    /\ hands' = [hands EXCEPT ![v] = Nothing]
    /\ phase' = [phase EXCEPT ![v] = "open"]
    /\ UNCHANGED <<serverVars, castVars, queueVars, owed>>

\* The connection ends and takes with it what was queued for it; the page
\* keeps what it shows.
Disconnect(v) ==
    /\ phase[v] # "out"
    /\ phase' = [phase EXCEPT ![v] = "out"]
    /\ slot' = [slot EXCEPT ![v] = Unsaid]
    /\ events' = [events EXCEPT ![v] = {}] /\ seen' = [seen EXCEPT ![v] = {}]
    /\ wake' = [wake EXCEPT ![v] = FALSE]
    /\ hands' = [hands EXCEPT ![v] = Nothing]
    /\ owed' = [owed EXCEPT ![v] = {}]
    /\ to' = [c \in Casters |-> to[c] \ {v}]
    /\ rousing' = [c \in Casters |-> IF rousing[c] = v THEN Unsaid ELSE rousing[c]]
    /\ UNCHANGED <<serverVars, at, carries, shown>>

-----------------------------------------------------------------------------
CastStep(c) == Copy(c) \/ Wake(c) \/ CastDone(c)

ProducerStep(p) ==
    \/ Build(p) \/ BuildFails(p) \/ SameAgain(p) \/ Remember(p)
    \/ \E v \in Pages : QueueState(p, v)
    \/ CastStep(p)

AnnouncerStep(c) == CastStep(c) \/ \E v \in Pages : QueueEvent(c, v)

ConnectionStep(v) ==
    \/ Greet(v) \/ GreetFails(v)
    \/ TakePending(v) \/ WriteEvent(v) \/ WriteState(v)

SyncNext ==
    \/ Change \/ StaleShows \/ Notify \/ Tick
    \/ \E f \in Flushers : Flush(f)
    \/ \E p \in Producers : ProducerStep(p)
    \/ \E c \in Announcers : AnnouncerStep(c) \/ \E e \in Events : Announce(c, e)
    \/ \E v \in Pages : ConnectionStep(v) \/ Connect(v) \/ Disconnect(v)

(* The poller ticks, time passes, and a goroutine that can run does; a     *)
(* producer that is kept from comparing is not kept from it for ever.      *)
(* Nothing has to change, nobody has to ask for a flush or raise an event, *)
(* and a flush that is scheduled may find no time: the poller is enough.   *)
SyncFairness ==
    /\ WF_syncVars(Tick) /\ WF_syncVars(StaleShows)
    /\ \A p \in Producers : SF_syncVars(ProducerStep(p))
    /\ \A c \in Announcers : WF_syncVars(AnnouncerStep(c))
    /\ \A v \in Pages : WF_syncVars(ConnectionStep(v))

SyncSpec == SyncInit /\ [][SyncNext]_syncVars /\ SyncFairness

-----------------------------------------------------------------------------
SyncTypeOK ==
    /\ world \in Worlds /\ noted \in BOOLEAN /\ scheduled \in BOOLEAN
    /\ lastSnapshot \in Snapshots \union {Unsaid}
    /\ \A p \in Producers : carries[p] \in Snapshots \union {Unsaid}
    /\ \A c \in Announcers : carries[c] \in Events \union {Unsaid}
    /\ \A v \in Pages :
          /\ slot[v] \in Snapshots \union {Unsaid}
          /\ shown[v] \in Snapshots \union {Unsaid}
          /\ events[v] \subseteq Events /\ wake[v] \in BOOLEAN
          /\ hands[v].events \subseteq Events

(* The page is a view, not the state: once nothing changes any more, every *)
(* page that stays connected comes to show what is true (the comment on    *)
(* Hub, and of ServeHTTP's first message).                                 *)
Converges ==
    \A v \in Pages :
        \/ []<>(v \notin Connected)
        \/ <>[](shown[v] = Says[world])

(* An event raised while a page was connected reaches it, whatever         *)
(* snapshots replace each other beside it and however often the same event *)
(* is raised (the comment on queueEvent).                                  *)
EventHeard ==
    \A v \in Pages, e \in Events : e \in owed[v] ~> e \notin owed[v]

(* Pages come to show what is true, and to hear what has happened.         *)
PagesTold == Converges /\ EventHeard
=============================================================================
