-------------------------- MODULE GridControl_proofs --------------------------
(***************************************************************************)
(* Ownership of the grid, proved for any number of viewers and clients, any *)
(* number of viewers to a client, and queues of any length.                *)
(***************************************************************************)
EXTENDS GridControl, SequenceTheorems, TLAPS

\* The part of the state that says who owns the grid and who could.
OwnerOK ==
    /\ subs \subseteq open /\ open \subseteq Viewers
    /\ hidden \subseteq Viewers
    /\ controller \in Clients \cup {None}
    /\ last \in Clients \cup {None}
    /\ left \in {"never", "recent", "stale"}

LEMMA ReleaseStays ==
    ASSUME OwnerOK, NEW gone \in SUBSET Viewers, NEW S, NEW H, Release(gone, S, H)
    PROVE  /\ controller' \in Clients \cup {None}
           /\ last' \in Clients \cup {None}
           /\ left' \in {"never", "recent", "stale"}
           /\ DepartureStamped => DepartureStamped'
           /\ controller' = controller \/ controller' = None
BY GridAssumption DEF Release, OwnerOK, DepartureStamped

LEMMA ClaimStays ==
    ASSUME OwnerOK, NEW v \in Viewers, Claim(ClientOf[v])
    PROVE  /\ controller' \in Clients \cup {None}
           /\ last' \in Clients \cup {None}
           /\ left' \in {"never", "recent", "stale"}
           /\ DepartureStamped => DepartureStamped'
           /\ controller' = controller \/ controller' = ClientOf[v]
BY GridAssumption DEF Claim, MayClaim, OwnerOK, DepartureStamped

(* A drop: whoever owns the grid afterwards is still on screen.            *)
LEMMA DropKeepsPresent ==
    ASSUME OwnerOK, ControllerPresent, NEW gone \in SUBSET Viewers,
           Release(gone, subs \ gone, hidden),
           subs' = subs \ gone, hidden' = hidden
    PROVE  ControllerPresent'
BY GridAssumption DEF Release, OwnerOK, ControllerPresent, OnScreen

LEMMA BroadcastStep ==
    ASSUME OwnerOK, DepartureStamped, NEW event, Broadcast(event),
           UNCHANGED <<hidden, open>>
    PROVE  /\ OwnerOK' /\ DepartureStamped'
           /\ ControllerPresent => ControllerPresent'
<1> DEFINE gone == Full
<1>1. gone \in SUBSET Viewers /\ gone \subseteq subs
    BY DEF Full, OwnerOK
<1>2. Release(gone, subs \ gone, hidden) /\ subs' = subs \ gone
    BY DEF Broadcast
<1> HIDE DEF gone
<1>3. OwnerOK' /\ DepartureStamped'
    BY <1>1, <1>2, ReleaseStays DEF OwnerOK
<1>4. ControllerPresent => ControllerPresent'
    BY <1>1, <1>2, DropKeepsPresent
<1>5. QED BY <1>3, <1>4

LEMMA ResizeStep ==
    ASSUME OwnerOK, DepartureStamped, NEW c, NEW z, ResizeGrid(c, z),
           UNCHANGED open
    PROVE  /\ OwnerOK' /\ DepartureStamped'
           /\ ControllerPresent => ControllerPresent'
<1>1. CASE controller = c /\ size # z
    BY <1>1, BroadcastStep DEF ResizeGrid
<1>2. CASE ~(controller = c /\ size # z)
    <2>1. UNCHANGED <<gridVars, subVars>>
        BY <1>2 DEF ResizeGrid
    <2>2. QED BY <2>1 DEF gridVars, subVars, OwnerOK, DepartureStamped,
                          ControllerPresent, OnScreen
<1>3. QED BY <1>1, <1>2

-----------------------------------------------------------------------------
\* The invariant, and the part of it that needs an owner not to be a ghost.
Stays == OwnerOK' /\ DepartureStamped'
         /\ (~TakeAfterDrop /\ ControllerPresent => ControllerPresent')

LEMMA OwnerStep ==
    ASSUME OwnerOK, DepartureStamped, [Next]_vars
    PROVE  Stays
<1> USE GridAssumption DEF OwnerOK, Stays
<1>1. ASSUME NEW v \in Viewers, NEW offScreen \in BOOLEAN, Subscribe(v, offScreen)
      PROVE  Stays
    <2>1. CASE offScreen
        BY <1>1, <2>1 DEF Subscribe, DepartureStamped, ControllerPresent, OnScreen
    <2>2. CASE ~offScreen
        <3>1. /\ Claim(ClientOf[v]) /\ subs' = subs \cup {v}
              /\ open' = open \cup {v} /\ hidden' = hidden \ {v}
            BY <1>1, <2>2 DEF Subscribe
        <3>2. OwnerOK' /\ DepartureStamped'
            BY <3>1, ClaimStays
        <3>3. ControllerPresent => ControllerPresent'
            BY <3>1, ClaimStays DEF ControllerPresent, OnScreen
        <3>4. QED BY <3>2, <3>3
    <2>3. QED BY <2>1, <2>2
<1>2. ASSUME NEW v \in Viewers, Subscribed(v) \/ Answer(v)
      PROVE  Stays
    BY <1>2 DEF Subscribed, Answer, gridVars, subVars, DepartureStamped,
                ControllerPresent, OnScreen
<1>3. ASSUME NEW v \in Viewers, Unsubscribe(v)
      PROVE  Stays
    <2>1. CASE v \in subs
        <3>1. /\ Release({v}, subs \ {v}, hidden)
              /\ subs' = subs \ {v} /\ open' = open \ {v}
              /\ hidden' = hidden \ {v}
            BY <1>3, <2>1 DEF Unsubscribe
        <3>2. OwnerOK' /\ DepartureStamped'
            BY <3>1, ReleaseStays
        <3>3. ControllerPresent => ControllerPresent'
            BY <3>1 DEF Release, ControllerPresent, OnScreen
        <3>4. QED BY <3>2, <3>3
    <2>2. CASE v \notin subs
        BY <1>3, <2>2 DEF Unsubscribe, DepartureStamped, ControllerPresent, OnScreen
    <2>3. QED BY <2>1, <2>2
<1>4. ASSUME NEW v \in Viewers, Hide(v)
      PROVE  Stays
    <2>1. CASE v \in subs
        <3>1. /\ Release({v}, subs, hidden \cup {v})
              /\ subs' = subs /\ open' = open /\ hidden' = hidden \cup {v}
            BY <1>4, <2>1 DEF Hide
        <3>2. OwnerOK' /\ DepartureStamped'
            BY <3>1, ReleaseStays
        <3>3. ControllerPresent => ControllerPresent'
            BY <3>1 DEF Release, ControllerPresent, OnScreen
        <3>4. QED BY <3>2, <3>3
    <2>2. CASE v \notin subs
        BY <1>4, <2>2 DEF Hide, DepartureStamped, ControllerPresent, OnScreen
    <2>3. QED BY <2>1, <2>2
<1>5. ASSUME NEW v \in Viewers, Show(v)
      PROVE  Stays
    <2>1. CASE v \in subs
        <3>1. /\ Claim(ClientOf[v])
              /\ subs' = subs /\ open' = open /\ hidden' = hidden \ {v}
            BY <1>5, <2>1 DEF Show
        <3>2. OwnerOK' /\ DepartureStamped'
            BY <3>1, ClaimStays
        <3>3. ControllerPresent => ControllerPresent'
            BY <3>1, <2>1, ClaimStays DEF ControllerPresent, OnScreen
        <3>4. QED BY <3>2, <3>3
    <2>2. CASE v \notin subs
        BY <1>5, <2>2 DEF Show, DepartureStamped, ControllerPresent, OnScreen
    <2>3. QED BY <2>1, <2>2
<1>6. ASSUME NEW v \in Viewers, NEW z \in Sizes, Resize(v, z)
      PROVE  Stays
    BY <1>6, ResizeStep DEF Resize, connVars
<1>7. ASSUME NEW v \in Viewers, NEW z \in Sizes, TakeControl(v, z)
      PROVE  Stays
    BY <1>7 DEF TakeControl, subVars, DepartureStamped, ControllerPresent, OnScreen
<1>8. ASSUME NEW v \in Viewers, TakeSize(v)
      PROVE  Stays
    BY <1>8, ResizeStep DEF TakeSize
<1>9. ASSUME NEW v \in Viewers, TakeTell(v)
      PROVE  Stays
    BY <1>9, BroadcastStep DEF TakeTell
<1>10. CASE SessionOutput
    BY <1>10, BroadcastStep DEF SessionOutput, connVars
<1>11. ASSUME NEW v \in Viewers, PumpForwards(v) \/ PumpEnds(v) \/ Write(v)
       PROVE  Stays
    BY <1>11 DEF PumpForwards, PumpEnds, Write, gridVars, subVars,
                 DepartureStamped, ControllerPresent, OnScreen
<1>12. CASE GracePasses
    BY <1>12 DEF GracePasses, subVars, connVars, DepartureStamped,
                 ControllerPresent, OnScreen
<1>13. CASE UNCHANGED vars
    BY <1>13 DEF vars, gridVars, subVars, connVars, DepartureStamped,
                 ControllerPresent, OnScreen
<1>14. QED BY <1>1, <1>2, <1>3, <1>4, <1>5, <1>6, <1>7, <1>8, <1>9, <1>10, <1>11,
              <1>12, <1>13 DEF Next

LEMMA OwnerInvariant == Spec => [](OwnerOK /\ DepartureStamped)
<1>1. Init => OwnerOK /\ DepartureStamped
    BY DEF Init, OwnerOK, DepartureStamped
<1>2. OwnerOK /\ DepartureStamped /\ [Next]_vars => (OwnerOK /\ DepartureStamped)'
    BY OwnerStep DEF Stays
<1>3. QED BY <1>1, <1>2, PTL DEF Spec

(* Whenever somebody has driven the grid and nobody does, the time of the  *)
(* departure is on record, so the grace period ends.                       *)
THEOREM DepartureStampedCorrect == Spec => []DepartureStamped
BY OwnerInvariant, PTL

(* The grid is never owned by a client with no terminal on screen, however *)
(* many connections a client has and whichever of them are dropped, if no  *)
(* takeControl arrives on a stream whose subscriber has been dropped.      *)
THEOREM ControllerPresentCorrect ==
    ASSUME ~TakeAfterDrop PROVE Spec => []ControllerPresent
<1>1. Init => ControllerPresent
    BY DEF Init, ControllerPresent
<1>2. OwnerOK /\ DepartureStamped /\ ControllerPresent /\ [Next]_vars
        => ControllerPresent'
    BY OwnerStep DEF Stays
<1>3. QED BY <1>1, <1>2, OwnerInvariant, PTL DEF Spec

-----------------------------------------------------------------------------
\* What the readers and the queues hold.
TrafficOK ==
    /\ size \in Sizes
    /\ queue \in [Viewers -> Seq(Sizes \cup {Output})]
    /\ reader \in [Viewers -> [op : {"idle", "subscribed", "answer", "take", "tell"},
                               size : Sizes \cup {None}, tell : BOOLEAN]]
    /\ \A v \in Viewers : reader[v].op = "take" => reader[v].size \in Sizes

\* Whatever is broadcast is queued whole, or not at all.
LEMMA BroadcastTraffic ==
    ASSUME TrafficOK, NEW event \in Sizes \cup {Output}, Broadcast(event)
    PROVE  queue' \in [Viewers -> Seq(Sizes \cup {Output})]
BY DEF TrafficOK, Broadcast

LEMMA ResizeTraffic ==
    ASSUME TrafficOK, NEW c, NEW z \in Sizes, ResizeGrid(c, z)
    PROVE  size' \in Sizes /\ queue' \in [Viewers -> Seq(Sizes \cup {Output})]
BY BroadcastTraffic DEF ResizeGrid, gridVars, subVars, TrafficOK

LEMMA TrafficStep ==
    ASSUME TrafficOK, [Next]_vars
    PROVE  TrafficOK'
<1> USE DEF TrafficOK, Idle, ReaderGoto
<1>1. ASSUME NEW v \in Viewers, NEW offScreen \in BOOLEAN, Subscribe(v, offScreen)
      PROVE  TrafficOK'
    <2>1. /\ size' = size /\ queue' = [queue EXCEPT ![v] = <<size>>]
          /\ reader' = [reader EXCEPT ![v] = [Idle EXCEPT !.op = "subscribed"]]
        BY <1>1 DEF Subscribe
    <2>2. <<size>> \in Seq(Sizes \cup {Output})
        OBVIOUS
    <2>3. queue' \in [Viewers -> Seq(Sizes \cup {Output})]
        BY <2>1, <2>2
    <2>4. QED BY <2>1, <2>3
<1>2. ASSUME NEW v \in Viewers,
             Subscribed(v) \/ Answer(v) \/ Unsubscribe(v) \/ Hide(v) \/ Show(v)
      PROVE  TrafficOK'
    <2>1. /\ size' = size
          /\ queue' = queue \/ queue' = [queue EXCEPT ![v] = <<>>]
          /\ \/ reader' = reader
             \/ reader' = [reader EXCEPT ![v] = Idle]
             \/ reader' = [reader EXCEPT ![v] = [Idle EXCEPT !.op = "answer"]]
        BY <1>2 DEF Subscribed, Answer, Unsubscribe, Hide, Show, gridVars, subVars
    <2>2. <<>> \in Seq(Sizes \cup {Output})
        OBVIOUS
    <2>3. queue' \in [Viewers -> Seq(Sizes \cup {Output})]
        BY <2>1, <2>2
    <2>4. CASE reader' = reader
        BY <2>1, <2>3, <2>4
    <2>5. CASE reader' = [reader EXCEPT ![v] = Idle]
        BY <2>1, <2>3, <2>5
    <2>6. CASE reader' = [reader EXCEPT ![v] = [Idle EXCEPT !.op = "answer"]]
        BY <2>1, <2>3, <2>6
    <2>7. QED BY <2>1, <2>4, <2>5, <2>6
<1>3. ASSUME NEW v \in Viewers, NEW z \in Sizes, Resize(v, z)
      PROVE  TrafficOK'
    BY <1>3, ResizeTraffic DEF Resize, connVars
<1>4. ASSUME NEW v \in Viewers, NEW z \in Sizes, TakeControl(v, z)
      PROVE  TrafficOK'
    BY <1>4 DEF TakeControl, subVars
<1>5. ASSUME NEW v \in Viewers, TakeSize(v)
      PROVE  TrafficOK'
    <2>1. size' \in Sizes /\ queue' \in [Viewers -> Seq(Sizes \cup {Output})]
        BY <1>5, ResizeTraffic DEF TakeSize
    <2>2. QED BY <1>5, <2>1 DEF TakeSize
<1>6. ASSUME NEW v \in Viewers, TakeTell(v)
      PROVE  TrafficOK'
    <2>1. queue' \in [Viewers -> Seq(Sizes \cup {Output})]
        BY <1>6, BroadcastTraffic DEF TakeTell
    <2>2. QED BY <1>6, <2>1 DEF TakeTell
<1>7. CASE SessionOutput
    BY <1>7, BroadcastTraffic DEF SessionOutput, connVars
<1>8. ASSUME NEW v \in Viewers, PumpForwards(v)
      PROVE  TrafficOK'
    <2>1. /\ UNCHANGED <<size, reader>> /\ queue[v] # <<>>
          /\ queue' = [queue EXCEPT ![v] = Tail(queue[v])]
        BY <1>8 DEF PumpForwards, gridVars
    <2>2. QED BY <2>1
<1>9. ASSUME NEW v \in Viewers, PumpEnds(v) \/ Write(v)
      PROVE  TrafficOK'
    BY <1>9 DEF PumpEnds, Write, gridVars, subVars
<1>10. CASE GracePasses
    BY <1>10 DEF GracePasses, subVars, connVars
<1>11. CASE UNCHANGED vars
    BY <1>11 DEF vars, gridVars, subVars, connVars
<1>12. QED BY <1>1, <1>2, <1>3, <1>4, <1>5, <1>6, <1>7, <1>8, <1>9, <1>10, <1>11
           DEF Next

LEMMA TrafficInvariant == Spec => []TrafficOK
<1>1. Init => TrafficOK
    BY DEF Init, TrafficOK, Idle
<1>2. TrafficOK /\ [Next]_vars => TrafficOK'
    BY TrafficStep
<1>3. QED BY <1>1, <1>2, PTL DEF Spec

(* Type correctness: the owner is a client or nobody, and what is queued   *)
(* for a viewer is sizes and output.                                       *)
THEOREM TypeCorrect == Spec => []TypeOK
<1>1. OwnerOK /\ TrafficOK => TypeOK
    BY DEF OwnerOK, TrafficOK, TypeOK
<1>2. QED BY <1>1, OwnerInvariant, TrafficInvariant, PTL

-----------------------------------------------------------------------------
(* Within the grace period a departed owner's grid stays as it was left,   *)
(* and goes to that owner or to whoever takes control on purpose.          *)
THEOREM GraceHonouredCorrect == Spec => GraceHonoured
<1> DEFINE Kept == controller = None /\ left = "recent" =>
                     /\ size' = size
                     /\ \/ controller' \in {None, last}
                        \/ \E v \in Viewers : reader'[v].op = "take" /\ reader[v] = Idle
<1>1. OwnerOK /\ DepartureStamped /\ TrafficOK /\ [Next]_vars => [Kept]_vars
    <2> SUFFICES ASSUME OwnerOK, DepartureStamped, TrafficOK, Next,
                        controller = None, left = "recent"
                 PROVE  /\ size' = size
                        /\ \/ controller' \in {None, last}
                           \/ \E v \in Viewers :
                                 reader'[v].op = "take" /\ reader[v] = Idle
        OBVIOUS
    <2> USE GridAssumption
    <2>1. \A v \in Viewers : ClientOf[v] # controller
        OBVIOUS
    <2>2. ASSUME NEW gone \in SUBSET Viewers, NEW S, NEW H, Release(gone, S, H)
          PROVE  controller' = None
        BY <2>1, <2>2 DEF Release
    <2>3. ASSUME NEW event, Broadcast(event)
          PROVE  controller' = None
        BY <2>1, <2>3 DEF Broadcast, Release, Full, OwnerOK
    <2>4. ASSUME NEW v \in Viewers, Claim(ClientOf[v])
          PROVE  controller' \in {None, last}
        BY <2>4 DEF Claim, MayClaim, DepartureStamped
    <2>5. ASSUME NEW v \in Viewers, NEW offScreen \in BOOLEAN, Subscribe(v, offScreen)
          PROVE  size' = size /\ controller' \in {None, last}
        BY <2>4, <2>5 DEF Subscribe
    <2>6. ASSUME NEW v \in Viewers, Subscribed(v) \/ Answer(v)
          PROVE  size' = size /\ controller' \in {None, last}
        BY <2>6 DEF Subscribed, Answer, gridVars
    <2>7. ASSUME NEW v \in Viewers, Unsubscribe(v) \/ Hide(v)
          PROVE  size' = size /\ controller' \in {None, last}
        BY <2>1, <2>7 DEF Unsubscribe, Hide, Release
    <2>8. ASSUME NEW v \in Viewers, Show(v)
          PROVE  size' = size /\ controller' \in {None, last}
        BY <2>4, <2>8 DEF Show
    <2>9. ASSUME NEW v \in Viewers, NEW z \in Sizes, Resize(v, z)
          PROVE  size' = size /\ controller' \in {None, last}
        BY <2>1, <2>9 DEF Resize, ResizeGrid, gridVars
    <2>10. ASSUME NEW v \in Viewers, NEW z \in Sizes, TakeControl(v, z)
           PROVE  /\ size' = size
                  /\ reader'[v].op = "take" /\ reader[v] = Idle
        BY <2>10 DEF TakeControl, Ready, ReaderGoto, TrafficOK
    <2>11. ASSUME NEW v \in Viewers, TakeSize(v)
           PROVE  size' = size /\ controller' \in {None, last}
        BY <2>1, <2>11 DEF TakeSize, ResizeGrid, gridVars
    <2>12. ASSUME NEW v \in Viewers, TakeTell(v)
           PROVE  size' = size /\ controller' \in {None, last}
        BY <2>3, <2>12 DEF TakeTell
    <2>13. CASE SessionOutput
        BY <2>3, <2>13 DEF SessionOutput
    <2>14. ASSUME NEW v \in Viewers, PumpForwards(v) \/ PumpEnds(v) \/ Write(v)
           PROVE  size' = size /\ controller' \in {None, last}
        BY <2>14 DEF PumpForwards, PumpEnds, Write, gridVars
    <2>15. CASE GracePasses
        BY <2>15 DEF GracePasses
    <2>16. QED BY <2>5, <2>6, <2>7, <2>8, <2>9, <2>10, <2>11, <2>12, <2>13, <2>14,
                  <2>15 DEF Next
<1>2. QED BY <1>1, OwnerInvariant, TrafficInvariant, PTL DEF Spec, GraceHonoured

(* An owner is there, or its departure is on record, if no takeControl     *)
(* arrives on a stream whose subscriber has been dropped.                  *)
THEOREM OwnerAccountedCorrect ==
    ASSUME ~TakeAfterDrop PROVE Spec => []OwnerAccounted
BY ControllerPresentCorrect, DepartureStampedCorrect, PTL DEF OwnerAccounted

-----------------------------------------------------------------------------
(* What viewers have been told, when nobody is dropped, messages are       *)
(* written as they are made, and no two viewers are one tab's copies.      *)

\* Whoever is in the middle of TakeControl and will broadcast.
Coming(w) ==
    \/ reader[w].op = "tell"
    \/ reader[w].op = "take" /\ (reader[w].tell \/ (controller = ClientOf[w] /\ size # reader[w].size))

\* The last size on its way to a viewer is the grid's; with none on its way,
\* and no answer, it knows, or somebody is about to tell everybody.
KnowsOK ==
    /\ subs = open /\ mail = [v \in Viewers |-> NoMail]
    /\ queue \in [Viewers -> Seq(Sizes)]
    /\ \A v \in subs : queue[v] # <<>> => queue[v][Len(queue[v])] = size
    /\ \A v \in subs \ hidden :
          \/ queue[v] # <<>>
          \/ reader[v].op \in {"subscribed", "answer"}
          \/ told[v] = Message(v, size)
          \/ \E w \in Viewers : Coming(w)

MessagesOK == told \in [Viewers -> {None} \cup [size : Sizes, controlling : BOOLEAN]]

LEMMA BroadcastKnows ==
    ASSUME ~MayDrop, OwnerOK, KnowsOK, NEW event \in Sizes, Broadcast(event), size' = event,
           UNCHANGED <<hidden, open, mail>>
    PROVE  KnowsOK' /\ UNCHANGED <<subs, controller>>
<1>1. /\ subs' = subs /\ queue' = [v \in Viewers |-> IF v \in subs THEN Append(queue[v], event) ELSE queue[v]]
      /\ UNCHANGED controller
    BY DEF Broadcast, Release
<1>2. queue' \in [Viewers -> Seq(Sizes)]
    BY <1>1 DEF KnowsOK
<1>3. \A v \in subs : queue'[v] # <<>> /\ queue'[v][Len(queue'[v])] = event
    <2> SUFFICES ASSUME NEW v \in subs PROVE queue'[v] # <<>> /\ queue'[v][Len(queue'[v])] = event
        OBVIOUS
    <2>1. v \in Viewers /\ queue[v] \in Seq(Sizes) /\ queue'[v] = Append(queue[v], event)
        BY <1>1 DEF KnowsOK, OwnerOK
    <2>2. QED BY <2>1
<1>4. QED BY <1>1, <1>2, <1>3 DEF KnowsOK

LEMMA ResizeKnows ==
    ASSUME ~MayDrop, OwnerOK, KnowsOK, NEW c, NEW z \in Sizes, ResizeGrid(c, z), controller = c, size # z,
           UNCHANGED <<open, mail>>
    PROVE  KnowsOK' /\ UNCHANGED <<subs, controller>>
BY BroadcastKnows DEF ResizeGrid

\* What leaves the queues alone, and the viewers but for v.
LEMMA OthersKnow ==
    ASSUME OwnerOK, KnowsOK, NEW v \in Viewers,
           UNCHANGED <<mail, size>>, subs' = open', subs' \subseteq subs \cup {v},
           queue' \in [Viewers -> Seq(Sizes)],
           v \in subs' /\ queue'[v] # <<>> => queue'[v][Len(queue'[v])] = size,
           \A w \in Viewers \ {v} :
              queue'[w] = queue[w] /\ reader'[w] = reader[w] /\ told'[w] = told[w] /\ (w \in hidden' <=> w \in hidden),
           \/ /\ \A w \in Viewers \ {v} : (controller' = ClientOf[w]) = (controller = ClientOf[w])
              /\ ~Coming(v)
           \/ Coming(v)',
           \/ v \notin subs' \ hidden'
           \/ queue'[v] # <<>>
           \/ reader'[v].op \in {"subscribed", "answer"}
           \/ told'[v] = Message(v, size)'
           \/ Coming(v)'
    PROVE  KnowsOK'
<1>1. ASSUME NEW w \in subs' \ hidden'
      PROVE  \/ queue'[w] # <<>>
             \/ reader'[w].op \in {"subscribed", "answer"}
             \/ told'[w] = Message(w, size)'
             \/ \E u \in Viewers : Coming(u)'
    <2>1. CASE w = v
        BY <2>1
    <2>2. CASE Coming(v)'
        BY <2>2
    <2>3. CASE w # v /\ ~Coming(v)'
        <3>1. w \in subs \ hidden /\ w \in Viewers
            BY <2>3 DEF OwnerOK
        <3>2. Message(w, size)' = Message(w, size)
            BY <2>3, <3>1 DEF Message
        <3>3. ASSUME NEW u \in Viewers, Coming(u) PROVE Coming(u)'
            BY <2>3, <3>3 DEF Coming
        <3>4. QED BY <2>3, <3>1, <3>2, <3>3 DEF KnowsOK
    <2>4. QED BY <2>1, <2>2, <2>3
<1>2. \A w \in subs' : queue'[w] # <<>> => queue'[w][Len(queue'[w])] = size
    BY DEF KnowsOK, OwnerOK
<1>3. QED BY <1>1, <1>2 DEF KnowsOK

\* No two viewers have the client id of one tab.
Strangers == \A v, w \in Viewers : ClientOf[v] = ClientOf[w] => v = w

LEMMA KnowsStep ==
    ASSUME ~MayDrop, Late = {}, Strangers, OwnerOK, TrafficOK, MessagesOK, KnowsOK, [Next]_vars
    PROVE  KnowsOK'
<1> USE GridAssumption DEF Idle, ReaderGoto, Ready
<1>0. /\ \A v \in Viewers : Ready(v) => ~Coming(v) /\ reader[v].op = "idle"
      /\ \A v \in Viewers : mail[v] = NoMail
      /\ \A v \in Viewers : reader[v] \in [op : {"idle", "subscribed", "answer", "take", "tell"},
                                           size : Sizes \cup {None}, tell : BOOLEAN]
    BY DEF Coming, TrafficOK, KnowsOK
<1>1. ASSUME NEW v \in Viewers, NEW S, NEW H, Release({v}, S, H)
      PROVE  \A w \in Viewers \ {v} : (controller' = ClientOf[w]) = (controller = ClientOf[w])
    BY <1>1 DEF Release, Strangers
<1>2. ASSUME NEW v \in Viewers, Claim(ClientOf[v])
      PROVE  \A w \in Viewers \ {v} : (controller' = ClientOf[w]) = (controller = ClientOf[w])
    BY <1>2 DEF Claim, MayClaim, Strangers
<1>3. ASSUME NEW v \in Viewers, NEW offScreen \in BOOLEAN, Subscribe(v, offScreen)
      PROVE  KnowsOK'
    <2>1. /\ subs' = subs \cup {v} /\ open' = open \cup {v} /\ UNCHANGED <<size, mail, told>>
          /\ queue' = [queue EXCEPT ![v] = <<size>>]
          /\ reader' = [reader EXCEPT ![v] = [Idle EXCEPT !.op = "subscribed"]]
          /\ hidden' = (IF offScreen THEN hidden \cup {v} ELSE hidden \ {v}) /\ Ready(v)
          /\ UNCHANGED controller \/ Claim(ClientOf[v])
        BY <1>3 DEF Subscribe
    <2>2. queue' \in [Viewers -> Seq(Sizes)] /\ queue'[v] = <<size>>
        BY <2>1 DEF KnowsOK, TrafficOK
    <2>3. reader'[v].op = "subscribed"
        BY <1>0, <2>1 DEF TrafficOK
    <2>4. /\ subs' = open' /\ subs' \subseteq subs \cup {v} /\ queue'[v] # <<>> /\ queue'[v][Len(queue'[v])] = size
          /\ \A w \in Viewers \ {v} :
                queue'[w] = queue[w] /\ reader'[w] = reader[w] /\ told'[w] = told[w] /\ (w \in hidden' <=> w \in hidden)
          /\ \A w \in Viewers \ {v} : (controller' = ClientOf[w]) = (controller = ClientOf[w])
          /\ ~Coming(v)
        BY <1>0, <1>2, <2>1, <2>2 DEF KnowsOK, TrafficOK
    <2>5. QED BY <2>1, <2>2, <2>3, <2>4, OthersKnow
<1>4. ASSUME NEW v \in Viewers, Subscribed(v) \/ Answer(v)
      PROVE  KnowsOK'
    <2>1. /\ UNCHANGED <<gridVars, subVars, open, mail>>
          /\ told' = [told EXCEPT ![v] = Message(v, size)]
          /\ reader' = [reader EXCEPT ![v] = Idle] /\ reader[v].op \in {"subscribed", "answer"}
        BY <1>4 DEF Subscribed, Answer, Send
    <2>2. told'[v] = Message(v, size)' /\ ~Coming(v)
        BY <2>1 DEF MessagesOK, Message, gridVars, Coming
    <2>3. /\ subs' = open' /\ subs' \subseteq subs \cup {v} /\ queue' \in [Viewers -> Seq(Sizes)] /\ queue' = queue
          /\ v \in subs' /\ queue'[v] # <<>> => queue'[v][Len(queue'[v])] = size
          /\ \A w \in Viewers \ {v} :
                queue'[w] = queue[w] /\ reader'[w] = reader[w] /\ told'[w] = told[w] /\ (w \in hidden' <=> w \in hidden)
          /\ UNCHANGED <<size, controller>>
        BY <2>1 DEF KnowsOK, TrafficOK, gridVars, subVars, MessagesOK
    <2>4. QED BY <2>1, <2>2, <2>3, OthersKnow
<1>5. ASSUME NEW v \in Viewers, Unsubscribe(v)
      PROVE  KnowsOK'
    <2>1. /\ subs' = subs \ {v} /\ open' = open \ {v} /\ hidden' = hidden \ {v} /\ UNCHANGED <<size, mail, reader>>
          /\ queue' = [queue EXCEPT ![v] = <<>>] /\ told' = [told EXCEPT ![v] = None] /\ Ready(v)
          /\ UNCHANGED controller \/ Release({v}, subs \ {v}, hidden)
        BY <1>5 DEF Unsubscribe, Forget
    <2>2. queue' \in [Viewers -> Seq(Sizes)]
        <3>1. <<>> \in Seq(Sizes)
            OBVIOUS
        <3>2. QED BY <2>1, <3>1 DEF KnowsOK
    <2>3. /\ subs' = open' /\ subs' \subseteq subs \cup {v} /\ v \notin subs' /\ v \notin subs' \ hidden'
          /\ \A w \in Viewers \ {v} :
                queue'[w] = queue[w] /\ reader'[w] = reader[w] /\ told'[w] = told[w] /\ (w \in hidden' <=> w \in hidden)
          /\ \A w \in Viewers \ {v} : (controller' = ClientOf[w]) = (controller = ClientOf[w])
          /\ ~Coming(v)
        BY <1>0, <1>1, <2>1 DEF KnowsOK, TrafficOK, MessagesOK
    <2>4. QED BY <2>1, <2>2, <2>3, OthersKnow
<1>6. ASSUME NEW v \in Viewers, Hide(v) \/ Show(v)
      PROVE  KnowsOK'
    <2>1. /\ UNCHANGED <<subs, open, size, mail, queue, told>> /\ Ready(v)
          /\ reader' = [reader EXCEPT ![v] = [Idle EXCEPT !.op = "answer"]]
          /\ hidden' = hidden \cup {v} \/ hidden' = hidden \ {v}
          /\ UNCHANGED controller \/ Release({v}, subs, hidden \cup {v}) \/ Claim(ClientOf[v])
        BY <1>6 DEF Hide, Show
    <2>2. /\ subs' = open' /\ subs' \subseteq subs \cup {v} /\ queue' \in [Viewers -> Seq(Sizes)]
          /\ v \in subs' /\ queue'[v] # <<>> => queue'[v][Len(queue'[v])] = size
          /\ \A w \in Viewers \ {v} :
                queue'[w] = queue[w] /\ reader'[w] = reader[w] /\ told'[w] = told[w] /\ (w \in hidden' <=> w \in hidden)
          /\ \A w \in Viewers \ {v} : (controller' = ClientOf[w]) = (controller = ClientOf[w])
          /\ ~Coming(v)
        BY <1>0, <1>1, <1>2, <2>1 DEF KnowsOK, TrafficOK
    <2>3. reader'[v].op = "answer"
        BY <2>1 DEF TrafficOK
    <2>4. QED BY <2>1, <2>2, <2>3, OthersKnow
<1>7. ASSUME NEW v \in Viewers, NEW z \in Sizes, Resize(v, z)
      PROVE  KnowsOK'
    <2>1. CASE controller = ClientOf[v] /\ size # z
        BY <1>7, <2>1, ResizeKnows DEF Resize, connVars
    <2>2. CASE ~(controller = ClientOf[v] /\ size # z)
        BY <1>7, <2>2 DEF Resize, ResizeGrid, connVars, gridVars, subVars, KnowsOK, Coming, Message
    <2>3. QED BY <2>1, <2>2
<1>8. ASSUME NEW v \in Viewers, NEW z \in Sizes, TakeControl(v, z)
      PROVE  KnowsOK'
    <2>1. /\ UNCHANGED <<size, subs, hidden, queue, open, mail, told>> /\ controller' = ClientOf[v] /\ Ready(v)
          /\ reader' = [reader EXCEPT ![v] = [op |-> "take", size |-> z, tell |-> controller # ClientOf[v] /\ size = z]]
        BY <1>8 DEF TakeControl, subVars
    <2>2. /\ reader'[v].op = "take" /\ reader'[v].size = z
          /\ reader'[v].tell = (controller # ClientOf[v] /\ size = z)
        BY <2>1 DEF TrafficOK
    <2>3. /\ subs' = open' /\ subs' \subseteq subs \cup {v} /\ queue' \in [Viewers -> Seq(Sizes)]
          /\ v \in subs' /\ queue'[v] # <<>> => queue'[v][Len(queue'[v])] = size
          /\ \A w \in Viewers \ {v} :
                queue'[w] = queue[w] /\ reader'[w] = reader[w] /\ told'[w] = told[w] /\ (w \in hidden' <=> w \in hidden)
          /\ ~Coming(v)
        BY <1>0, <2>1 DEF KnowsOK, TrafficOK
    <2>4. CASE Coming(v)'
        BY <2>1, <2>3, <2>4, OthersKnow
    <2>5. CASE ~Coming(v)'
        <3>1. controller = ClientOf[v]
            BY <2>1, <2>2, <2>5 DEF Coming
        <3>2. Message(v, size)' = Message(v, size) /\ reader[v].op = "idle"
            BY <1>0, <2>1, <3>1 DEF Message
        <3>3. ASSUME NEW w \in subs' \ hidden'
              PROVE  \/ queue'[w] # <<>>
                     \/ reader'[w].op \in {"subscribed", "answer"}
                     \/ told'[w] = Message(w, size)'
                     \/ \E u \in Viewers : Coming(u)'
            <4>1. w \in Viewers /\ w \in subs \ hidden
                BY <2>1, <3>3 DEF OwnerOK
            <4>2. Message(w, size)' = Message(w, size)
                BY <2>1, <3>1 DEF Message
            <4>3. ASSUME NEW u \in Viewers, Coming(u) PROVE Coming(u)'
                BY <2>1, <2>3, <3>1, <4>3 DEF Coming
            <4>4. reader'[w].op \in {"subscribed", "answer"} \/ reader[w].op \notin {"subscribed", "answer"}
                BY <2>3, <3>2, <4>1
            <4>5. QED BY <2>1, <4>1, <4>2, <4>3, <4>4 DEF KnowsOK
        <3>4. QED BY <2>1, <3>3 DEF KnowsOK
    <2>6. QED BY <2>4, <2>5
<1>9. ASSUME NEW v \in Viewers, TakeSize(v)
      PROVE  KnowsOK'
    <2>1. CASE controller = ClientOf[v] /\ size # reader[v].size
        BY <1>9, <2>1, ResizeKnows DEF TakeSize, TrafficOK
    <2>2. CASE ~(controller = ClientOf[v] /\ size # reader[v].size)
        <3>1. /\ UNCHANGED <<controller, size, subs, hidden, queue, open, mail, told>> /\ reader[v].op = "take"
              /\ reader' = [reader EXCEPT ![v] = IF reader[v].tell THEN [Idle EXCEPT !.op = "tell"] ELSE Idle]
            BY <1>9, <2>2 DEF TakeSize, ResizeGrid, gridVars, subVars
        <3>2. IF reader[v].tell THEN reader'[v].op = "tell" ELSE reader'[v].op = "idle" /\ ~Coming(v)
            BY <2>2, <3>1 DEF TrafficOK, Coming
        <3>3. ~Coming(v) \/ Coming(v)'
            BY <3>2 DEF Coming
        <3>4. /\ subs' = open' /\ subs' \subseteq subs \cup {v} /\ queue' \in [Viewers -> Seq(Sizes)]
              /\ v \in subs' /\ queue'[v] # <<>> => queue'[v][Len(queue'[v])] = size
              /\ \A w \in Viewers \ {v} :
                    queue'[w] = queue[w] /\ reader'[w] = reader[w] /\ told'[w] = told[w] /\ (w \in hidden' <=> w \in hidden)
            BY <3>1 DEF KnowsOK, TrafficOK
        <3>5. Message(v, size)' = Message(v, size)
            BY <3>1 DEF Message
        <3>6. ASSUME NEW w \in subs' \ hidden'
              PROVE  \/ queue'[w] # <<>>
                     \/ reader'[w].op \in {"subscribed", "answer"}
                     \/ told'[w] = Message(w, size)'
                     \/ \E u \in Viewers : Coming(u)'
            <4>1. w \in Viewers /\ w \in subs \ hidden /\ Message(w, size)' = Message(w, size)
                BY <3>1, <3>6 DEF OwnerOK, Message
            <4>2. ASSUME NEW u \in Viewers, Coming(u) PROVE Coming(u)'
                BY <3>1, <3>3, <3>4, <4>2 DEF Coming
            <4>3. reader[w].op \in {"subscribed", "answer"} => reader'[w].op = reader[w].op
                BY <3>1, <3>4, <4>1
            <4>4. QED BY <3>1, <4>1, <4>2, <4>3 DEF KnowsOK
        <3>7. QED BY <3>1, <3>6 DEF KnowsOK
    <2>3. QED BY <2>1, <2>2
<1>10. ASSUME NEW v \in Viewers, TakeTell(v)
       PROVE  KnowsOK'
    BY <1>10, BroadcastKnows DEF TakeTell, TrafficOK
<1>11. ~SessionOutput
    BY DEF SessionOutput
<1>12. ASSUME NEW v \in Viewers, PumpForwards(v)
       PROVE  KnowsOK'
    <2>1. /\ UNCHANGED <<controller, size, subs, hidden, open, reader, mail>> /\ v \in open /\ queue[v] # <<>>
          /\ queue[v] \in Seq(Sizes) /\ Head(queue[v]) \in Sizes
          /\ queue' = [queue EXCEPT ![v] = Tail(queue[v])]
          /\ told' = [told EXCEPT ![v] = Message(v, Head(queue[v]))]
        <3>1. queue[v] \in Seq(Sizes) /\ queue[v] # <<>>
            BY <1>12 DEF PumpForwards, KnowsOK
        <3>2. Head(queue[v]) \in Sizes
            BY <3>1
        <3>3. QED BY <1>12, <3>1, <3>2 DEF PumpForwards, Send, Output, gridVars
    <2>2. queue'[v] = Tail(queue[v]) /\ queue' \in [Viewers -> Seq(Sizes)]
        BY <2>1 DEF KnowsOK
    <2>3. queue[v][Len(queue[v])] = size
        BY <2>1 DEF KnowsOK
    <2>4. queue'[v] # <<>> => queue'[v][Len(queue'[v])] = size
        BY <2>1, <2>2, <2>3
    <2>5. queue'[v] = <<>> => Head(queue[v]) = size
        <3>1. queue'[v] = <<>> => Len(queue[v]) = 1
            <4> DEFINE q == queue[v]
            <4>1. q \in Seq(Sizes) /\ q # <<>> /\ queue'[v] = Tail(q)
                BY <2>1, <2>2
            <4> HIDE DEF q
            <4>2. Len(Tail(q)) = Len(q) - 1 /\ Len(q) \in Nat
                BY <4>1, HeadTailProperties
            <4>3. Len(<<>>) = 0
                OBVIOUS
            <4>4. ASSUME Tail(q) = <<>> PROVE Len(q) = 1
                <5>1. Len(Tail(q)) = 0
                    BY <4>3, <4>4, Zenon
                <5>2. QED BY <4>2, <5>1
            <4>5. QED BY <4>1, <4>4 DEF q
        <3>2. Head(queue[v]) = queue[v][1]
            BY <2>1
        <3>3. QED BY <2>3, <3>1, <3>2
    <2>6. queue'[v] # <<>> \/ told'[v] = Message(v, size)'
        BY <2>1, <2>5 DEF MessagesOK, Message
    <2>7. ASSUME NEW w \in subs' \ hidden'
          PROVE  \/ queue'[w] # <<>>
                 \/ reader'[w].op \in {"subscribed", "answer"}
                 \/ told'[w] = Message(w, size)'
                 \/ \E u \in Viewers : Coming(u)'
        <3>1. w \in Viewers /\ w \in subs \ hidden /\ Message(w, size)' = Message(w, size)
            BY <2>1, <2>7 DEF OwnerOK, Message
        <3>2. \A u \in Viewers : Coming(u) => Coming(u)'
            BY <2>1 DEF Coming
        <3>3. w # v => queue'[w] = queue[w] /\ told'[w] = told[w]
            BY <2>1, <3>1 DEF MessagesOK, KnowsOK
        <3>4. QED BY <2>1, <2>6, <3>1, <3>2, <3>3 DEF KnowsOK
    <2>8. \A w \in subs' : queue'[w] # <<>> => queue'[w][Len(queue'[w])] = size
        BY <2>1, <2>4 DEF KnowsOK, OwnerOK
    <2>9. QED BY <2>1, <2>2, <2>7, <2>8 DEF KnowsOK
<1>13. ASSUME NEW v \in Viewers PROVE ~PumpEnds(v) /\ ~Write(v)
    BY <1>0 DEF PumpEnds, Write, NoMail, KnowsOK
<1>14. CASE GracePasses
    BY <1>14 DEF GracePasses, subVars, connVars, KnowsOK, Coming, Message
<1>15. CASE UNCHANGED vars
    BY <1>15 DEF vars, gridVars, subVars, connVars, KnowsOK, Coming, Message
<1>16. QED
    BY <1>3, <1>4, <1>5, <1>6, <1>7, <1>8, <1>9, <1>10, <1>11, <1>12, <1>13, <1>14, <1>15 DEF Next

LEMMA MessagesStep ==
    ASSUME Late = {}, TrafficOK, MessagesOK, KnowsOK, [Next]_vars
    PROVE  MessagesOK'
<1>1. ASSUME NEW v \in Viewers, NEW who, NEW z \in Sizes, Send(v, who, Message(v, z))
      PROVE  MessagesOK'
    <2>1. (controller = ClientOf[v]) \in BOOLEAN
        OBVIOUS
    <2>2. Message(v, z) \in [size : Sizes, controlling : BOOLEAN]
        BY <2>1 DEF Message
    <2>3. QED BY <1>1, <2>2 DEF Send, MessagesOK
<1>2. ASSUME NEW v \in Viewers, Forget(v)
      PROVE  MessagesOK'
    BY <1>2 DEF Forget, MessagesOK
<1>3. ASSUME NEW v \in Viewers, Subscribed(v) \/ Answer(v) \/ Unsubscribe(v) \/ PumpEnds(v)
      PROVE  MessagesOK'
    BY <1>1, <1>2, <1>3 DEF Subscribed, Answer, Unsubscribe, PumpEnds, TrafficOK
<1>4. ASSUME NEW v \in Viewers, PumpForwards(v)
      PROVE  MessagesOK'
    <2>1. queue[v] \in Seq(Sizes) /\ queue[v] # <<>>
        BY <1>4 DEF PumpForwards, KnowsOK
    <2>2. Head(queue[v]) \in Sizes
        BY <2>1
    <2>3. QED BY <1>1, <1>4, <2>2 DEF PumpForwards, MessagesOK
<1>5. ASSUME NEW v \in Viewers PROVE ~Write(v)
    BY DEF Write, NoMail, KnowsOK
<1>6. UNCHANGED told => MessagesOK'
    BY DEF MessagesOK
<1>7. QED
    BY <1>3, <1>4, <1>5, <1>6 DEF Next, vars, connVars, Subscribe, Hide, Show, Resize, TakeControl, TakeSize, TakeTell,
                              SessionOutput, GracePasses

(* A viewer to whom nothing is on its way knows the size and who drives,   *)
(* for any viewers that are strangers to each other, if none is dropped    *)
(* and messages are written as they are made.                              *)
THEOREM ToldTheTruthCorrect ==
    ASSUME ~MayDrop, Late = {}, Strangers
    PROVE  Spec => []ToldTheTruth
<1>1. Init => MessagesOK /\ KnowsOK
    <2>1. <<>> \in Seq(Sizes)
        OBVIOUS
    <2>2. QED BY <2>1 DEF Init, MessagesOK, KnowsOK
<1>2. OwnerOK /\ TrafficOK /\ MessagesOK /\ KnowsOK /\ [Next]_vars => (MessagesOK /\ KnowsOK)'
    BY KnowsStep, MessagesStep
<1>3. KnowsOK => ToldTheTruth
    BY DEF KnowsOK, ToldTheTruth, Settled, Coming, Idle
<1>4. QED BY <1>1, <1>2, <1>3, OwnerInvariant, TrafficInvariant, PTL DEF Spec
=============================================================================
