------------------------------- MODULE Attach -------------------------------
(***************************************************************************)
(* Attaching to and detaching from ONE tmux session                        *)
(* (internal/session/manager.go: Attach, releaseAttach, pump, Detach,      *)
(* DetachAll, closeInternal).                                              *)
(*                                                                         *)
(* Each call of Attach and of Detach is a process, each attachment has its *)
(* pump goroutine and its killer timer, and each tmux client is a child    *)
(* process that may die on its own.  Manager.mu and Live.mu are held only  *)
(* inside one action.  A call of Attach starts at most one client, so the  *)
(* call also names the attachment (the Live) it builds.                    *)
(***************************************************************************)
EXTENDS Naturals, FiniteSets

CONSTANTS Attachers,  (* calls of Attach, and the attachments they build  *)
          Detachers,  (* calls of Detach or DetachAll                     *)
          None,
          SlowPump,   (* the pump may need longer than pumpDrain to stop  *)
          ObeysTerm   (* a client exits on SIGTERM, within pumpDrain      *)

ASSUME AttachAssumption ==
    /\ None \notin Attachers
    /\ SlowPump \in BOOLEAN /\ ObeysTerm \in BOOLEAN

VARIABLES live,       (* m.live[id]: the attachment in the map, or None   *)
          attaching,  (* m.attaching[id]: the call holding the claim      *)
          note,       (* m.detachedWhileAttaching[id]                     *)
          pc,         (* where each call of Attach is                     *)
          waits,      (* whose claim channel a waiting call selects on    *)
          woken,      (* the claims whose channel has been closed         *)
          closed,     (* Live.closed (and its PTY): set of attachments    *)
          done,       (* Live.done closed: set of attachments             *)
          client,     (* the tmux client process of each attachment       *)
          pump,       (* the pump goroutine of each attachment            *)
          killer,     (* attachments whose SIGKILL timer is running       *)
          dpc,        (* where each call of Detach is                     *)
          target,     (* the attachment a Detach took out of the map      *)
          told        (* history: builds running when a Detach came       *)

managerVars == <<live, attaching, note>>
callVars    == <<pc, waits, woken>>
liveVars    == <<closed, done, client, pump, killer>>
detachVars  == <<dpc, target>>
vars == <<managerVars, callVars, liveVars, detachVars, told>>

\* A call between its claim and its release of it.
Holding == {"build", "install", "startpump", "discard", "release"}

Init ==
    /\ live = None /\ attaching = None /\ note = FALSE
    /\ pc = [a \in Attachers |-> "idle"]
    /\ waits = [a \in Attachers |-> None]
    /\ woken = {} /\ closed = {} /\ done = {} /\ killer = {}
    /\ client = [a \in Attachers |-> "none"]
    /\ pump = [a \in Attachers |-> "off"]
    /\ dpc = [d \in Detachers |-> "idle"]
    /\ target = [d \in Detachers |-> None]
    /\ told = {}

Goto(a, label) == pc' = [pc EXCEPT ![a] = label]

\* SIGTERM: no effect on a process that has exited.
Terminated(a) == [client EXCEPT ![a] = IF @ = "running" THEN "termed" ELSE @]

-----------------------------------------------------------------------------
(* Attach: claim the session, or wait for whoever holds it.                *)

Call(a) ==
    /\ pc[a] = "idle"
    /\ Goto(a, "loop")
    /\ UNCHANGED <<managerVars, waits, woken, liveVars, detachVars, told>>

\* Already attached: return what is in the map.
AttachFinds(a) ==
    /\ pc[a] = "loop" /\ live # None
    /\ Goto(a, "returned")
    /\ UNCHANGED <<managerVars, waits, woken, liveVars, detachVars, told>>

AttachWaits(a) ==
    /\ pc[a] = "loop" /\ live = None /\ attaching # None
    /\ Goto(a, "wait")
    /\ waits' = [waits EXCEPT ![a] = attaching]
    /\ UNCHANGED <<managerVars, woken, liveVars, detachVars, told>>

AttachClaims(a) ==
    /\ pc[a] = "loop" /\ live = None /\ attaching = None
    /\ attaching' = a
    /\ Goto(a, "build")
    /\ UNCHANGED <<live, note, waits, woken, liveVars, detachVars, told>>

\* The channel of the claim it waited on is closed: round again.
AttachWoken(a) ==
    /\ pc[a] = "wait" /\ waits[a] \in woken
    /\ Goto(a, "loop")
    /\ waits' = [waits EXCEPT ![a] = None]
    /\ UNCHANGED <<managerVars, woken, liveVars, detachVars, told>>

\* ctx.Done() while waiting.
AttachCancelled(a) ==
    /\ pc[a] = "wait"
    /\ Goto(a, "returned")
    /\ waits' = [waits EXCEPT ![a] = None]
    /\ UNCHANGED <<managerVars, woken, liveVars, detachVars, told>>

-----------------------------------------------------------------------------
(* Attach: build the attachment, then install it or throw it away.         *)

\* tmux cannot be asked, the session does not exist, or the PTY fails.
BuildFails(a) ==
    /\ pc[a] = "build"
    /\ Goto(a, "release")
    /\ UNCHANGED <<managerVars, waits, woken, liveVars, detachVars, told>>

\* The ring is primed and `tmux attach' started on a PTY.
StartClient(a) ==
    /\ pc[a] = "build"
    /\ client' = [client EXCEPT ![a] = "running"]
    /\ Goto(a, "install")
    /\ UNCHANGED <<managerVars, waits, woken, closed, done, pump, killer,
                   detachVars, told>>

\* Mutant: a Detach that came during the build is not looked for.
InstallRegardless(a) ==
    /\ pc[a] = "install"
    /\ live' = a
    /\ Goto(a, "startpump")
    /\ UNCHANGED <<attaching, note, waits, woken, liveVars, detachVars, told>>

Install(a) ==
    /\ pc[a] = "install" /\ ~note
    /\ live' = a
    /\ Goto(a, "startpump")
    /\ UNCHANGED <<attaching, note, waits, woken, liveVars, detachVars, told>>

StartPump(a) ==
    /\ pc[a] = "startpump"
    /\ pump' = [pump EXCEPT ![a] = "read"]
    /\ Goto(a, "release")
    /\ UNCHANGED <<managerVars, waits, woken, closed, done, client, killer,
                   detachVars, told>>

\* Detached while attaching: take the note, install nothing.
TakeNote(a) ==
    /\ pc[a] = "install" /\ note
    /\ note' = FALSE
    /\ Goto(a, "discard")
    /\ UNCHANGED <<live, attaching, waits, woken, liveVars, detachVars, told>>

\* Mutant: nothing waits for the client of a discarded attachment.
DiscardUnreaped(a) ==
    /\ pc[a] = "discard"
    /\ closed' = closed \cup {a}
    /\ done' = done \cup {a}
    /\ client' = Terminated(a)
    /\ killer' = killer \cup {a}
    /\ Goto(a, "release")
    /\ UNCHANGED <<managerVars, waits, woken, pump, detachVars, told>>

\* closeInternal(false) on an attachment nobody else can reach, and a
\* goroutine of its own to wait for the client.
Discard(a) ==
    /\ pc[a] = "discard"
    /\ closed' = closed \cup {a}
    /\ done' = done \cup {a}
    /\ client' = Terminated(a)
    /\ killer' = killer \cup {a}
    /\ pump' = [pump EXCEPT ![a] = "reap"]
    /\ Goto(a, "release")
    /\ UNCHANGED <<managerVars, waits, woken, detachVars, told>>

\* releaseAttach: the claim and any note go together, under the lock.
ReleaseClaim(a) ==
    /\ pc[a] = "release"
    /\ attaching' = None
    /\ note' = FALSE
    /\ Goto(a, "wake")
    /\ UNCHANGED <<live, waits, woken, liveVars, detachVars, told>>

\* Mutant: the channel of the claim is dropped without being closed.
WakeNobody(a) ==
    /\ pc[a] = "wake"
    /\ Goto(a, "returned")
    /\ UNCHANGED <<managerVars, waits, woken, liveVars, detachVars, told>>

\* releaseAttach: close(ch), after the lock; then Attach returns.
WakeWaiters(a) ==
    /\ pc[a] = "wake"
    /\ woken' = woken \cup {a}
    /\ Goto(a, "returned")
    /\ UNCHANGED <<managerVars, waits, liveVars, detachVars, told>>

-----------------------------------------------------------------------------
(* pump: read the PTY until it ends, then clean up.                        *)

PumpGoto(a, label) == pump' = [pump EXCEPT ![a] = label]

\* A chunk: it goes to the ring and the viewers, and OnSignals comes next.
PumpReads(a) ==
    /\ pump[a] = "read" /\ a \notin closed
    /\ PumpGoto(a, "signal")
    /\ UNCHANGED <<managerVars, callVars, closed, done, client, killer,
                   detachVars, told>>

\* The callback OnSignals, with no lock held.
PumpSignals(a) ==
    /\ pump[a] = "signal"
    /\ PumpGoto(a, "read")
    /\ UNCHANGED <<managerVars, callVars, closed, done, client, killer,
                   detachVars, told>>

\* The PTY is closed here, or nothing holds its other end any more.
PumpEnds(a) ==
    /\ pump[a] = "read"
    /\ a \in closed \/ client[a] = "exited"
    /\ PumpGoto(a, "deregister")
    /\ UNCHANGED <<managerVars, callVars, closed, done, client, killer,
                   detachVars, told>>

\* Mutant: the pump removes whatever is in the map under its session.
PumpDeregistersAny(a) ==
    /\ pump[a] = "deregister"
    /\ live' = None
    /\ PumpGoto(a, "close")
    /\ UNCHANGED <<attaching, note, callVars, closed, done, client, killer,
                   detachVars, told>>

\* EventExit to the viewers, then out of the map, if it is still this one.
PumpDeregisters(a) ==
    /\ pump[a] = "deregister"
    /\ live' = IF live = a THEN None ELSE live
    /\ PumpGoto(a, "close")
    /\ UNCHANGED <<attaching, note, callVars, closed, done, client, killer,
                   detachVars, told>>

\* closeFromPump: close unless a Detach already has.
PumpCloses(a) ==
    /\ pump[a] = "close"
    /\ closed' = closed \cup {a}
    /\ PumpGoto(a, IF a \in closed THEN "wait" ELSE "term")
    /\ UNCHANGED <<managerVars, callVars, done, client, killer, detachVars,
                   told>>

\* close(done), SIGTERM, and the killer timer: this closer waits for nobody.
PumpTerms(a) ==
    /\ pump[a] = "term"
    /\ done' = done \cup {a}
    /\ client' = Terminated(a)
    /\ killer' = killer \cup {a}
    /\ PumpGoto(a, "wait")
    /\ UNCHANGED <<managerVars, callVars, closed, detachVars, told>>

\* cmd.Wait returns and, in the pump, close(pumped).
PumpReaps(a) ==
    /\ pump[a] \in {"wait", "reap"} /\ client[a] = "exited"
    /\ client' = [client EXCEPT ![a] = "reaped"]
    /\ PumpGoto(a, "gone")
    /\ UNCHANGED <<managerVars, callVars, closed, done, killer, detachVars,
                   told>>

-----------------------------------------------------------------------------
(* Detach and DetachAll.                                                   *)

DetachGoto(d, label) == dpc' = [dpc EXCEPT ![d] = label]

\* Mutant: the result of the map lookup is used without looking at ok.
DetachTakesWhatever(d) ==
    /\ dpc[d] = "idle"
    /\ live' = None
    /\ target' = [target EXCEPT ![d] = live]
    /\ DetachGoto(d, "close")
    /\ UNCHANGED <<attaching, note, callVars, liveVars, told>>

\* Take it out of the map under the lock; it is closed after the lock.
DetachTakes(d) ==
    /\ dpc[d] = "idle" /\ live # None
    /\ live' = None
    /\ target' = [target EXCEPT ![d] = live]
    /\ DetachGoto(d, "close")
    /\ UNCHANGED <<attaching, note, callVars, liveVars, told>>

\* Nothing to close yet, but somebody is building: leave a note and return.
DetachNotes(d) ==
    /\ dpc[d] = "idle" /\ live = None /\ attaching # None
    /\ note' = TRUE
    /\ DetachGoto(d, "returned")
    /\ told' = told \cup {attaching}
    /\ UNCHANGED <<live, attaching, callVars, liveVars, target>>

DetachFindsNothing(d) ==
    /\ dpc[d] = "idle" /\ live = None /\ attaching = None
    /\ DetachGoto(d, "returned")
    /\ UNCHANGED <<managerVars, callVars, liveVars, target, told>>

\* closeInternal(true), locked part: closed, viewers dropped, PTY closed.
DetachCloses(d) ==
    LET a == target[d] IN
    /\ dpc[d] = "close"
    /\ closed' = closed \cup {a}
    /\ DetachGoto(d, IF a \in closed THEN "rewait" ELSE "term")
    /\ UNCHANGED <<managerVars, callVars, done, client, pump, killer, target,
                   told>>

\* close(done), then SIGTERM, before waiting for anything.
DetachTerms(d) ==
    /\ dpc[d] = "term"
    /\ done' = done \cup {target[d]}
    /\ client' = Terminated(target[d])
    /\ DetachGoto(d, "await")
    /\ UNCHANGED <<managerVars, callVars, closed, pump, killer, target, told>>

\* pumpDrain has passed.  Whatever the pump does itself is quicker unless
\* SlowPump; what takes longer is cmd.Wait on a client still running.
DrainExpires(a) ==
    \/ SlowPump
    \/ /\ pump[a] = "wait"
       /\ client[a] = "running" \/ (client[a] = "termed" /\ ~ObeysTerm)

\* awaitPump; the closer then starts the killer timer.
DetachReturns(d) ==
    LET a == target[d] IN
    /\ dpc[d] \in {"await", "rewait"}
    /\ pump[a] = "gone" \/ DrainExpires(a)
    /\ DetachGoto(d, "returned")
    /\ killer' = IF dpc[d] = "await" THEN killer \cup {a} ELSE killer
    /\ UNCHANGED <<managerVars, callVars, closed, done, client, pump, target,
                   told>>

-----------------------------------------------------------------------------
(* The client process and the SIGKILL.                                     *)

KillerFires(a) ==
    /\ a \in killer
    /\ killer' = killer \ {a}
    /\ client' = [client EXCEPT ![a] = IF @ \in {"running", "termed"}
                                       THEN "killed" ELSE @]
    /\ UNCHANGED <<managerVars, callVars, closed, done, pump, detachVars,
                   told>>

\* The client exits: its tmux session ended, or a signal reached it.
ClientExits(a) ==
    /\ client[a] \in {"running", "termed", "killed"}
    /\ client' = [client EXCEPT ![a] = "exited"]
    /\ UNCHANGED <<managerVars, callVars, closed, done, pump, killer,
                   detachVars, told>>

-----------------------------------------------------------------------------
AttachStep(a) ==
    \/ AttachFinds(a) \/ AttachWaits(a) \/ AttachClaims(a) \/ AttachWoken(a)
    \/ BuildFails(a) \/ StartClient(a) \/ Install(a) \/ StartPump(a)
    \/ TakeNote(a) \/ Discard(a) \/ ReleaseClaim(a) \/ WakeWaiters(a)

PumpStep(a) ==
    \/ PumpSignals(a) \/ PumpEnds(a) \/ PumpDeregisters(a) \/ PumpCloses(a)
    \/ PumpTerms(a) \/ PumpReaps(a)

DetachStep(d) == DetachCloses(d) \/ DetachTerms(d) \/ DetachReturns(d)

DetachBegins(d) == DetachTakes(d) \/ DetachNotes(d) \/ DetachFindsNothing(d)

\* Everything has been called and has come to rest.
Rest ==
    /\ \A a \in Attachers : pc[a] = "returned" /\ pump[a] \in {"off", "gone"}
    /\ \A d \in Detachers : dpc[d] = "returned"
    /\ killer = {}
    /\ UNCHANGED vars

Next ==
    \/ Rest
    \/ \E a \in Attachers :
          \/ Call(a) \/ AttachCancelled(a) \/ AttachStep(a)
          \/ PumpReads(a) \/ PumpStep(a)
          \/ KillerFires(a) \/ ClientExits(a)
    \/ \E d \in Detachers : DetachBegins(d) \/ DetachStep(d)

Safety == Init /\ [][Next]_vars

\* A client that a SIGKILL reached exits, and so does one that obeys SIGTERM.
SignalledExits(a) ==
    /\ client[a] = "killed" \/ (client[a] = "termed" /\ ObeysTerm)
    /\ ClientExits(a)

(* The Go scheduler runs every goroutine that can run, a timer fires, and  *)
(* the kernel delivers.  A PTY's buffer is finite, so once its client has  *)
(* exited the reads run out.  Nobody has to call Attach or Detach, a       *)
(* context need not be cancelled, a client need not write or exit.         *)
Fairness ==
    /\ \A a \in Attachers :
          /\ WF_vars(AttachStep(a)) /\ WF_vars(PumpStep(a)) /\ SF_vars(PumpEnds(a))
          /\ WF_vars(KillerFires(a)) /\ WF_vars(SignalledExits(a))
    /\ \A d \in Detachers : WF_vars(DetachStep(d))

Spec == Safety /\ Fairness

-----------------------------------------------------------------------------
TypeOK ==
    /\ live \in Attachers \cup {None}
    /\ attaching \in Attachers \cup {None}
    /\ note \in BOOLEAN
    /\ pc \in [Attachers -> {"idle", "loop", "wait", "wake", "returned"}
                               \cup Holding]
    /\ waits \in [Attachers -> Attachers \cup {None}]
    /\ woken \subseteq Attachers /\ closed \subseteq Attachers
    /\ done \subseteq Attachers /\ killer \subseteq Attachers
    /\ client \in [Attachers -> {"none", "running", "termed", "killed",
                                 "exited", "reaped"}]
    /\ pump \in [Attachers -> {"off", "read", "signal", "deregister", "close",
                               "term", "wait", "reap", "gone"}]
    /\ dpc \in [Detachers -> {"idle", "close", "term", "await", "rewait",
                              "returned"}]
    /\ target \in [Detachers -> Attachers \cup {None}]
    /\ told \subseteq Attachers

(* A client is never started, and no attachment installed, while the map   *)
(* holds another: installing over it would leave that one attached to tmux *)
(* with nothing owning it (the claim in Attach).                           *)
BuildsOverNothing ==
    \A a \in Attachers : pc[a] \in {"build", "install"} => live = None

\* Somebody has yet to send attachment a's client the signals that end it.
Doomed(a) ==
    \/ pc[a] = "discard" \/ a \in killer
    \/ pump[a] \in {"close", "term"}
    \/ \E d \in Detachers : target[d] = a /\ dpc[d] \in {"close", "term", "await"}

(* Every tmux client that is still running is in the map, or in the hands  *)
(* of the call building it, or somebody is about to end it.  A client that *)
(* is none of these stays attached for the life of the panel and fights    *)
(* the owned one over the grid (the comments in Attach).                   *)
NoUnownedClient ==
    \A a \in Attachers :
        client[a] \in {"running", "termed"} =>
            live = a \/ pc[a] = "install" \/ Doomed(a)

(* Done() is a promise that the manager has forgotten this attachment, so  *)
(* a caller it wakes cannot be handed the corpse (the order in pump).      *)
DoneMeansForgotten == \A a \in done : live # a

(* An attachment is thrown away only if a Detach came while that very one  *)
(* was being built: the note never outlives the build it was left for      *)
(* (releaseAttach).                                                        *)
DiscardJustified ==
    \A a \in Attachers : pc[a] = "discard" => a \in told

(* Whoever asked for the session to be gone wins over the build that was   *)
(* running: once a Detach has noted it, it never gets into the map.        *)
DetachWins == [][\A a \in told : live # a => live' # a]_vars

(* The Detach that took an attachment out of the map returns only when no  *)
(* callback of its pump can come any more (closeInternal; not for a pump   *)
(* that outlasts pumpDrain, which SlowPump allows).                        *)
NoCallbackAfterOwnDetach ==
    \A d \in Detachers : \A a \in Attachers :
        dpc[d] = "returned" /\ target[d] = a => pump[a] \in {"wait", "gone"}

(* And if clients obey SIGTERM it returns only once the client has been    *)
(* reaped, so the session is left with no client of the panel's attached.  *)
DetachReturnsClean ==
    \A d \in Detachers : \A a \in Attachers :
        dpc[d] = "returned" /\ target[d] = a => client[a] = "reaped"

(* No call of Attach hangs: a caller waiting for a build is woken however  *)
(* that build ends.                                                        *)
AttachReturns ==
    \A a \in Attachers : pc[a] = "loop" ~> pc[a] = "returned"

(* No call of Detach hangs, whatever the client and the pump do: shutdown  *)
(* must not wait on one PTY (pumpDrain).                                   *)
DetachAlwaysReturns ==
    \A d \in Detachers : dpc[d] = "close" ~> dpc[d] = "returned"

\* How far along its life the client of attachment a is.
Fate(a) ==
    CASE client[a] = "none"                -> "none"
      [] live = a \/ pc[a] = "install"     -> "owned"
      [] client[a] = "reaped"              -> "gone"
      [] OTHER                             -> "condemned"

(* The manager owns at most one client of the session at a time, and each  *)
(* one it gives up is signalled, exits and is reaped: no second client, no *)
(* survivor and no zombie.                                                 *)
Promise == INSTANCE OneClient WITH
    Clients <- Attachers, fate <- [a \in Attachers |-> Fate(a)]
ImplementsOneClient == Promise!Spec

(* One client at a time, and each somebody's: the map, its builder or the  *)
(* one that ends it (the claim, the install and the end of the pump).      *)
ClientsOwned == BuildsOverNothing /\ NoUnownedClient /\ DoneMeansForgotten

(* A Detach means it, during a build as well as after it: what was asked   *)
(* to go is thrown away and nothing else is, and when the call that closed *)
(* it returns there is no callback to come and no client left.             *)
DetachObeyed == [](DiscardJustified /\ NoCallbackAfterOwnDetach /\ DetachReturnsClean) /\ DetachWins

(* No call hangs, whatever the client, the pump and the other calls do.    *)
CallsReturn == AttachReturns /\ DetachAlwaysReturns
=============================================================================
