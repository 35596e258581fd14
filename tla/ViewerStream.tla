---------------------------- MODULE ViewerStream ----------------------------
(***************************************************************************)
(* The output of one attached session on its way to one browser terminal:  *)
(* the replay buffer and the subscriber queue (internal/session/manager.go:*)
(* pump, subscribe, broadcastLocked), the connection's streams             *)
(* (internal/ws/conn.go: subscribe, pumpStream, deregister, unsubscribe,   *)
(* closeAll), the socket, and the page (web/src/protocol/socket.ts).       *)
(*                                                                         *)
(* A byte is its offset in the session's stream.  The replay buffer is the *)
(* window lo .. hi - 1 that RingBuffer implements.  A frame carries, beside*)
(* what the protocol carries, the offset of its first byte, so that the    *)
(* model can tell what a terminal shows from what the page has counted.    *)
(***************************************************************************)
EXTENDS Integers, Sequences

CONSTANTS Capacity,     (* the size of the replay buffer                  *)
          QueueCap,     (* subscriberQueue                                *)
          ReplayChunk,  (* the most bytes of a replay in one frame        *)
          Unset,
          MaxTotal,     (* where the session's output stops: a bound      *)
          MaxRef,       (* subscriptions on one connection: a bound       *)
          RemountEarly  (* the page may let go of a terminal before its   *)
                        (* subscription has been confirmed                *)

Refs    == 1..MaxRef
Offsets == 0..MaxTotal

\* What goes to the page, and a subscribe the reader is in the middle of.
Frames  == [kind : {"subscribed", "data"}, ref : Refs, off : Offsets, n : Offsets,
            resumed : BOOLEAN]
Replays == [ref : Refs, from : Offsets, to : Offsets, resumed : BOOLEAN,
            confirmed : BOOLEAN]

ASSUME StreamAssumption ==
    /\ Capacity \in Nat \ {0} /\ QueueCap \in Nat \ {0}
    /\ ReplayChunk \in Nat \ {0}
    /\ MaxTotal \in Nat /\ MaxRef \in Nat \ {0}
    /\ Unset \notin Int /\ Unset \notin Frames /\ Unset \notin Replays
    /\ RemountEarly \in BOOLEAN

VARIABLES
    lo, hi,       (* the replay buffer                                    *)
    registered,   (* refs whose subscriber is in l.subs                   *)
    cancelled,    (* refs whose context is done                           *)
    pumping,      (* refs whose pumpStream is running                     *)
    queue,        (* ref -> offsets queued for the subscriber             *)
    holding,      (* ref -> the frame its pump is about to write, or Unset*)
    byID,         (* the connection's stream for the session, or Unset    *)
    nextRef,      (* c.nextRef                                            *)
    replaying,    (* the subscribe the reader is in the middle of       *)
    up,           (* the socket is open                                   *)
    toServer,     (* messages on their way to the server, in order        *)
    toPage,       (* messages and frames on their way to the page         *)
    mounted,      (* the page has a Stream for the session                *)
    stream,       (* that Stream: ref, position, confirmed                *)
    byRef,        (* the refs whose frames the page gives that Stream     *)
    shown         (* the terminal: the next offset it expects, and whether*)
                  (* a byte was ever repeated, skipped or out of place    *)

ringVars   == <<lo, hi>>
serverVars == <<registered, cancelled, pumping, queue, holding, byID, nextRef,
                replaying>>
wireVars   == <<up, toServer, toPage>>
pageVars   == <<mounted, stream, byRef, shown>>
viewerVars == <<ringVars, serverVars, wireVars, pageVars>>

NewStream == [ref |-> Unset, position |-> Unset, confirmed |-> FALSE]
Blank     == [next |-> Unset, torn |-> FALSE]

NoConnection ==
    /\ registered' = {} /\ cancelled' = {} /\ pumping' = {}
    /\ queue' = [r \in Refs |-> <<>>]
    /\ holding' = [r \in Refs |-> Unset]
    /\ byID' = Unset /\ nextRef' = 0 /\ replaying' = Unset

ViewerInit ==
    /\ lo = 0 /\ hi = 0
    /\ registered = {} /\ cancelled = {} /\ pumping = {}
    /\ queue = [r \in Refs |-> <<>>]
    /\ holding = [r \in Refs |-> Unset]
    /\ byID = Unset /\ nextRef = 0 /\ replaying = Unset
    /\ up = TRUE /\ toServer = <<>> /\ toPage = <<>>
    /\ mounted = FALSE /\ stream = NewStream /\ byRef = {} /\ shown = Blank

Smaller(a, b) == IF a < b THEN a ELSE b

-----------------------------------------------------------------------------
(* The session and its subscribers.                                        *)

Behind == {r \in registered : Len(queue[r]) >= QueueCap}

\* A byte of output: under one lock it goes to the ring and to every queue,
\* and a subscriber whose queue is full is dropped.
SessionOutput ==
    /\ hi < MaxTotal
    /\ hi' = hi + 1
    /\ lo' = IF hi + 1 - lo > Capacity THEN hi + 1 - Capacity ELSE lo
    /\ queue' = [r \in Refs |-> IF r \in registered \ Behind
                                THEN Append(queue[r], hi) ELSE queue[r]]
    /\ registered' = registered \ Behind
    /\ UNCHANGED <<cancelled, pumping, holding, byID, nextRef, replaying,
                   wireVars, pageVars>>

\* The offset a replay starts from: SnapshotFrom.
Resumes(since) == since # Unset /\ lo <= since /\ since <= hi
ReplayStart(since) == IF Resumes(since) THEN since ELSE lo

-----------------------------------------------------------------------------
(* The connection's reader.                                                *)

Request(kind) == up /\ toServer # <<>> /\ replaying = Unset /\ Head(toServer).kind = kind

\* A session already subscribed is left as it is.  Otherwise the subscriber is
\* registered and the snapshot taken, under the lock the pump broadcasts
\* under; then the new stream takes the session's place in byID.
Subscribe ==
    LET since == Head(toServer).since
        r == nextRef + 1
    IN  /\ Request("subscribe")
        /\ toServer' = Tail(toServer)
        /\ IF byID # Unset
             THEN UNCHANGED <<nextRef, byID, registered, replaying>>
             ELSE /\ nextRef < MaxRef
                  /\ nextRef' = r /\ byID' = r
                  /\ registered' = registered \cup {r}
                  /\ replaying' = [ref |-> r, from |-> ReplayStart(since),
                                   to |-> hi, resumed |-> Resumes(since),
                                   confirmed |-> FALSE]
        /\ UNCHANGED <<ringVars, cancelled, pumping, queue, holding, up, toPage,
                       pageVars>>

Confirm ==
    /\ up /\ replaying # Unset /\ ~replaying.confirmed
    /\ toPage' = Append(toPage, [kind |-> "subscribed", ref |-> replaying.ref,
                                 off |-> replaying.from, n |-> 0,
                                 resumed |-> replaying.resumed])
    /\ replaying' = [replaying EXCEPT !.confirmed = TRUE]
    /\ UNCHANGED <<ringVars, registered, cancelled, pumping, queue, holding,
                   byID, nextRef, up, toServer, pageVars>>

Frame(r, off, n) == [kind |-> "data", ref |-> r, off |-> off, n |-> n,
                     resumed |-> FALSE]

\* The replay, in frames no larger than ReplayChunk.
Replay ==
    LET n == Smaller(ReplayChunk, replaying.to - replaying.from) IN
    /\ up /\ replaying # Unset /\ replaying.confirmed
    /\ n > 0
    /\ toPage' = Append(toPage, Frame(replaying.ref, replaying.from, n))
    /\ replaying' = [replaying EXCEPT !.from = @ + n]
    /\ UNCHANGED <<ringVars, registered, cancelled, pumping, queue, holding,
                   byID, nextRef, up, toServer, pageVars>>

\* Only then does live output start.
StartPump ==
    /\ up /\ replaying # Unset /\ replaying.confirmed
    /\ replaying.from = replaying.to
    /\ pumping' = pumping \cup {replaying.ref}
    /\ replaying' = Unset
    /\ UNCHANGED <<ringVars, registered, cancelled, queue, holding, byID,
                   nextRef, wireVars, pageVars>>

\* Mutant: the stream stays in byID, so the next subscribe looks like a
\* repeat of this one.
UnsubscribeKeepsEntry ==
    /\ Request("unsubscribe")
    /\ toServer' = Tail(toServer)
    /\ cancelled' = cancelled \cup ({byID} \cap Refs)
    /\ registered' = registered \ {byID}
    /\ UNCHANGED <<ringVars, byID, pumping, queue, holding, nextRef, replaying,
                   up, toPage, pageVars>>

\* The stream is forgotten, then its context cancelled, then its subscriber.
Unsubscribe ==
    /\ Request("unsubscribe")
    /\ toServer' = Tail(toServer)
    /\ IF byID = Unset
         THEN UNCHANGED <<byID, cancelled, registered>>
         ELSE /\ byID' = Unset
              /\ cancelled' = cancelled \cup {byID}
              /\ registered' = registered \ {byID}
    /\ UNCHANGED <<ringVars, pumping, queue, holding, nextRef, replaying, up,
                   toPage, pageVars>>

-----------------------------------------------------------------------------
(* pumpStream.  Its select picks at random between the stream's context    *)
(* and its events, so a cancelled pump may still forward what is queued.   *)

PumpTakes(r) ==
    /\ r \in pumping /\ holding[r] = Unset /\ queue[r] # <<>>
    /\ holding' = [holding EXCEPT ![r] = Frame(r, Head(queue[r]), 1)]
    /\ queue' = [queue EXCEPT ![r] = Tail(@)]
    /\ UNCHANGED <<ringVars, registered, cancelled, pumping, byID, nextRef,
                   replaying, wireVars, pageVars>>

PumpWrites(r) ==
    /\ up /\ r \in pumping /\ holding[r] # Unset
    /\ toPage' = Append(toPage, holding[r])
    /\ holding' = [holding EXCEPT ![r] = Unset]
    /\ UNCHANGED <<ringVars, registered, cancelled, pumping, queue, byID,
                   nextRef, replaying, up, toServer, pageVars>>

PumpCancelled(r) ==
    /\ r \in pumping /\ holding[r] = Unset /\ r \in cancelled
    /\ pumping' = pumping \ {r}
    /\ UNCHANGED <<ringVars, registered, cancelled, queue, holding, byID,
                   nextRef, replaying, wireVars, pageVars>>

\* The events have ended.  deregister cancels the stream's context, and
\* endOfStream, asked after it, has nothing to say under a context that is
\* done: no message is sent.
PumpEnds(r) ==
    /\ r \in pumping /\ holding[r] = Unset
    /\ queue[r] = <<>> /\ r \notin registered
    /\ byID' = IF byID = r THEN Unset ELSE byID
    /\ cancelled' = cancelled \cup {r}
    /\ pumping' = pumping \ {r}
    /\ UNCHANGED <<ringVars, registered, queue, holding, nextRef, replaying,
                   wireVars, pageVars>>

-----------------------------------------------------------------------------
(* The page.                                                               *)

\* send: nothing leaves unless the socket is open.
SubscribeRequest(s) == [kind |-> "subscribe", since |-> s.position]

Mount ==
    /\ ~mounted /\ nextRef + Len(toServer) < MaxRef
    /\ mounted' = TRUE
    /\ stream' = NewStream
    /\ shown' = Blank
    /\ toServer' = IF up THEN Append(toServer, SubscribeRequest(NewStream))
                         ELSE toServer
    /\ UNCHANGED <<ringVars, serverVars, up, toPage, byRef>>

Unmount ==
    /\ mounted
    /\ RemountEarly \/ stream.ref # Unset \/ ~up
    /\ mounted' = FALSE
    /\ stream' = NewStream /\ shown' = Blank
    /\ byRef' = {}
    /\ toServer' = IF up THEN Append(toServer, [kind |-> "unsubscribe"])
                         ELSE toServer
    /\ UNCHANGED <<ringVars, serverVars, up, toPage>>

Arrives(kind) == up /\ toPage # <<>> /\ Head(toPage).kind = kind

\* A confirmation clears the terminal unless it resumes what it counts.
PageSubscribed ==
    LET m == Head(toPage)
        resumed == m.resumed /\ stream.position # Unset
    IN  /\ Arrives("subscribed")
        /\ toPage' = Tail(toPage)
        /\ IF mounted
             THEN /\ shown' = IF resumed THEN shown
                                         ELSE [next |-> m.off, torn |-> FALSE]
                  /\ stream' = [ref |-> m.ref, position |-> m.off,
                                confirmed |-> TRUE]
                  /\ byRef' = byRef \cup {m.ref}
             ELSE UNCHANGED <<stream, byRef, shown>>
        /\ UNCHANGED <<ringVars, serverVars, up, toServer, mounted>>

\* Every frame for a ref it knows advances the position and is written to
\* the terminal.
PageFrame ==
    LET m == Head(toPage) IN
    /\ Arrives("data")
    /\ toPage' = Tail(toPage)
    /\ IF mounted /\ m.ref \in byRef
         THEN /\ stream' = [stream EXCEPT !.position = @ + m.n]
              /\ shown' = [next |-> m.off + m.n,
                           torn |-> shown.torn \/ m.off # shown.next]
         ELSE UNCHANGED <<stream, shown>>
    /\ UNCHANGED <<ringVars, serverVars, up, toServer, mounted, byRef>>

-----------------------------------------------------------------------------
(* The socket.                                                             *)

\* Everything in flight is lost, the page forgets its refs, and the server
\* ends the connection's streams (closeAll).
Disconnect ==
    /\ up
    /\ up' = FALSE
    /\ toServer' = <<>> /\ toPage' = <<>>
    /\ NoConnection
    /\ stream' = [stream EXCEPT !.ref = Unset]
    /\ byRef' = {}
    /\ UNCHANGED <<ringVars, mounted, shown>>

\* onopen: what is mounted is subscribed again, from where it is.
Reconnect ==
    /\ ~up
    /\ up' = TRUE
    /\ toServer' = IF mounted THEN <<SubscribeRequest(stream)>> ELSE <<>>
    /\ UNCHANGED <<ringVars, serverVars, toPage, pageVars>>

-----------------------------------------------------------------------------
ReaderStep ==
    \/ Subscribe \/ Confirm \/ Replay \/ StartPump \/ Unsubscribe

PumpStep(r) == PumpTakes(r) \/ PumpWrites(r) \/ PumpCancelled(r) \/ PumpEnds(r)

PageStep == PageSubscribed \/ PageFrame

ViewerNext ==
    \/ SessionOutput \/ ReaderStep \/ (\E r \in Refs : PumpStep(r))
    \/ PageStep \/ Mount \/ Unmount \/ Disconnect \/ Reconnect

Safety == ViewerInit /\ [][ViewerNext]_viewerVars

(* The goroutines that can run do, and the socket delivers while it is up. *)
(* The session need not write, nobody need mount or unmount anything, and  *)
(* the socket need not fail.                                               *)
ViewerFairness ==
    /\ WF_viewerVars(ReaderStep) /\ WF_viewerVars(PageStep) /\ WF_viewerVars(Reconnect)
    /\ \A r \in Refs : WF_viewerVars(PumpStep(r))

ViewerSpec == Safety /\ ViewerFairness

-----------------------------------------------------------------------------
ViewerTypeOK ==
    /\ lo \in 0..hi /\ hi \in 0..MaxTotal /\ hi - lo <= Capacity
    /\ registered \subseteq Refs /\ cancelled \subseteq Refs
    /\ pumping \subseteq Refs
    /\ byID \in Refs \cup {Unset} /\ nextRef \in 0..MaxRef
    /\ \A r \in Refs : Len(queue[r]) <= QueueCap /\ holding[r] \in Frames \cup {Unset}
    /\ replaying \in Replays \cup {Unset}
    /\ stream.ref \in Refs \cup {Unset}
    /\ byRef \subseteq Refs

(* What a terminal shows is the session's output without a byte repeated,  *)
(* missing or out of order, across replays, resumes and reconnects.        *)
ScreenContiguous == mounted => ~shown.torn

(* The offset the page has counted to, and will resume from, is the offset *)
(* of the next byte its terminal has not seen (Stream.position).           *)
PositionExact ==
    mounted /\ stream.position # Unset => stream.position = shown.next

(* The screen is the session's output, and the page knows how far it is.   *)
ScreenExact == ScreenContiguous /\ PositionExact
\* The page believes in a stream whose subscriber the server has dropped.
CutOff == mounted /\ up /\ stream.ref # Unset /\ stream.ref \notin registered

(* A viewer that keeps its subscription is shown everything the session    *)
(* has written, without waiting for more to be written.                    *)
CatchesUp ==
    mounted /\ up ~>
        \/ ~mounted \/ ~up \/ CutOff
        \/ shown.next # Unset /\ shown.next = hi

(* What a viewer is shown is the session's output, exactly and in the end   *)
(* all of it.                                                              *)
ViewFollows == []ScreenExact /\ CatchesUp

(* A viewer dropped for falling behind resubscribes and replays rather     *)
(* than sitting on a dead terminal (the comments in broadcastLocked and    *)
(* endOfStream).                                                           *)
DroppedRecovers == CutOff ~> ~CutOff
=============================================================================
