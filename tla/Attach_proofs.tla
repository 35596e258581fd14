---------------------------- MODULE Attach_proofs ----------------------------
(***************************************************************************)
(* The attachment manager, proved for any number of concurrent calls of    *)
(* Attach and Detach, with or without slow pumps and obedient clients.     *)
(***************************************************************************)
EXTENDS Attach, TLAPS

\* A Detach that is closing something has something to close.
TargetOK ==
    \A d \in Detachers : dpc[d] \in {"close", "term", "await", "rewait"} =>
                             target[d] \in Attachers

\* TypeOK without the one Boolean, which other provers handle better.
ShapeOK ==
    /\ live \in Attachers \cup {None}
    /\ attaching \in Attachers \cup {None}
    /\ pc \in [Attachers -> {"idle", "loop", "wait", "wake", "returned"}
                               \cup Holding]
    /\ waits \in [Attachers -> Attachers \cup {None}]
    /\ woken \subseteq Attachers /\ closed \subseteq Attachers
    /\ done \subseteq Attachers /\ killer \subseteq Attachers
    /\ client \in [Attachers -> {"none", "running", "termed", "killed",
                                 "exited", "reaped"}]
    /\ pump \in [Attachers -> {"off", "read", "signal", "deregister", "close",
                               "term", "wait", "reap", "gone"}]
    /\ dpc \in [Detachers -> {"idle", "close", "term", "await", "rewait",
                              "returned"}]
    /\ target \in [Detachers -> Attachers \cup {None}]
    /\ told \subseteq Attachers

LEMMA TypeSplit == TypeOK <=> ShapeOK /\ note \in BOOLEAN
BY Zenon DEF TypeOK, ShapeOK

LEMMA TypeStep == ShapeOK /\ TargetOK /\ [Next]_vars => (ShapeOK /\ TargetOK)'
<1> SUFFICES ASSUME ShapeOK, TargetOK, [Next]_vars PROVE (ShapeOK /\ TargetOK)'
    OBVIOUS
<1> USE DEF ShapeOK, TargetOK, Holding, Goto, PumpGoto, DetachGoto, Terminated,
            managerVars, callVars, liveVars, detachVars
<1>1. ASSUME NEW a \in Attachers,
             Call(a) \/ AttachFinds(a) \/ AttachWaits(a) \/ AttachClaims(a)
             \/ AttachWoken(a) \/ AttachCancelled(a)
      PROVE  (ShapeOK /\ TargetOK)'
    BY <1>1 DEF Call, AttachFinds, AttachWaits, AttachClaims, AttachWoken,
                AttachCancelled
<1>2. ASSUME NEW a \in Attachers,
             BuildFails(a) \/ StartClient(a) \/ Install(a) \/ StartPump(a)
             \/ TakeNote(a) \/ Discard(a) \/ ReleaseClaim(a) \/ WakeWaiters(a)
      PROVE  (ShapeOK /\ TargetOK)'
    BY <1>2 DEF BuildFails, StartClient, Install, StartPump, TakeNote, Discard,
                ReleaseClaim, WakeWaiters
<1>3. ASSUME NEW a \in Attachers, PumpReads(a) \/ PumpStep(a)
      PROVE  (ShapeOK /\ TargetOK)'
    BY <1>3 DEF PumpReads, PumpStep, PumpSignals, PumpEnds, PumpDeregisters,
                PumpCloses, PumpTerms, PumpReaps
<1>4. ASSUME NEW a \in Attachers, KillerFires(a) \/ ClientExits(a)
      PROVE  (ShapeOK /\ TargetOK)'
    BY <1>4 DEF KillerFires, ClientExits
<1>5. ASSUME NEW d \in Detachers, DetachBegins(d)
      PROVE  (ShapeOK /\ TargetOK)'
    BY <1>5 DEF DetachBegins, DetachTakes, DetachNotes, DetachFindsNothing
<1>6. ASSUME NEW d \in Detachers, DetachStep(d)
      PROVE  (ShapeOK /\ TargetOK)'
    BY <1>6 DEF DetachStep, DetachCloses, DetachTerms, DetachReturns
<1>7. CASE UNCHANGED vars
    BY <1>7 DEF vars
<1>8. QED BY <1>1, <1>2, <1>3, <1>4, <1>5, <1>6, <1>7
          DEF Next, AttachStep, Rest

(* Type correctness; in particular a Detach closes only an attachment it   *)
(* has found, and the map and the claim hold only attachments and calls.   *)
THEOREM TypeCorrect == Safety => []TypeOK
<1>1. Init => ShapeOK /\ TargetOK
    BY DEF Init, ShapeOK, TargetOK
<1>2. Init => note \in BOOLEAN
    BY Zenon DEF Init
<1>3. note \in BOOLEAN /\ [Next]_vars => (note \in BOOLEAN)'
    BY Zenon DEF Next, vars, managerVars, Call, AttachStep, AttachFinds, AttachWaits,
       AttachClaims, AttachWoken, AttachCancelled, BuildFails, StartClient,
       Install, StartPump, TakeNote, Discard, ReleaseClaim, WakeWaiters,
       PumpReads, PumpStep, PumpSignals, PumpEnds, PumpDeregisters, PumpCloses,
       PumpTerms, PumpReaps, KillerFires, ClientExits, DetachBegins, DetachTakes,
       DetachNotes, DetachFindsNothing, DetachStep, DetachCloses, DetachTerms,
       DetachReturns, Rest
<1>4. QED BY <1>1, <1>2, <1>3, TypeStep, TypeSplit, PTL DEF Safety

-----------------------------------------------------------------------------
\* The claim names exactly the call that is between taking and releasing it.
ClaimOK == \A a \in Attachers : pc[a] \in Holding <=> attaching = a

\* The steps that leave the map, the claim and the calls of Attach alone.
LEMMA PumpFrame ==
    ASSUME NEW a \in Attachers,
           PumpReads(a) \/ PumpStep(a) \/ KillerFires(a) \/ ClientExits(a)
    PROVE  /\ live' = live \/ (pump[a] = "deregister" /\ live = a /\ live' = None)
           /\ UNCHANGED <<attaching, note, pc, target, dpc, told>>
BY DEF PumpReads, PumpStep, PumpSignals, PumpEnds, PumpDeregisters, PumpCloses,
       PumpTerms, PumpReaps, KillerFires, ClientExits, managerVars, callVars,
       detachVars

LEMMA DetachFrame ==
    ASSUME NEW d \in Detachers, DetachBegins(d) \/ DetachStep(d)
    PROVE  /\ live' = live \/ live' = None
           /\ UNCHANGED <<attaching, pc>>
BY DEF DetachBegins, DetachTakes, DetachNotes, DetachFindsNothing, DetachStep,
       DetachCloses, DetachTerms, DetachReturns, managerVars, callVars

LEMMA ClaimStep ==
    ASSUME ShapeOK, ClaimOK, BuildsOverNothing, [Next]_vars
    PROVE  ClaimOK' /\ BuildsOverNothing'
<1> USE AttachAssumption DEF ShapeOK, ClaimOK, BuildsOverNothing, Holding, Goto,
        managerVars, callVars
<1>1. ASSUME NEW a \in Attachers,
             Call(a) \/ AttachFinds(a) \/ AttachWaits(a) \/ AttachWoken(a)
             \/ AttachCancelled(a) \/ WakeWaiters(a)
      PROVE  ClaimOK' /\ BuildsOverNothing'
    BY <1>1 DEF Call, AttachFinds, AttachWaits, AttachWoken, AttachCancelled,
                WakeWaiters
<1>2. ASSUME NEW a \in Attachers, AttachClaims(a)
      PROVE  ClaimOK' /\ BuildsOverNothing'
    BY <1>2 DEF AttachClaims
<1>3. ASSUME NEW a \in Attachers,
             BuildFails(a) \/ StartClient(a) \/ Install(a) \/ StartPump(a)
             \/ TakeNote(a) \/ Discard(a)
      PROVE  ClaimOK' /\ BuildsOverNothing'
    BY <1>3 DEF BuildFails, StartClient, Install, StartPump, TakeNote, Discard
<1>4. ASSUME NEW a \in Attachers, ReleaseClaim(a)
      PROVE  ClaimOK' /\ BuildsOverNothing'
    BY <1>4 DEF ReleaseClaim
<1>5. ASSUME NEW a \in Attachers,
             PumpReads(a) \/ PumpStep(a) \/ KillerFires(a) \/ ClientExits(a)
      PROVE  ClaimOK' /\ BuildsOverNothing'
    BY <1>5, PumpFrame
<1>6. ASSUME NEW d \in Detachers, DetachBegins(d) \/ DetachStep(d)
      PROVE  ClaimOK' /\ BuildsOverNothing'
    BY <1>6, DetachFrame
<1>7. CASE UNCHANGED vars
    BY <1>7 DEF vars
<1>8. QED BY <1>1, <1>2, <1>3, <1>4, <1>5, <1>6, <1>7
          DEF Next, AttachStep, Rest

LEMMA ClaimInvariant == Safety => [](ShapeOK /\ TargetOK /\ ClaimOK /\ BuildsOverNothing)
<1>1. Init => ShapeOK /\ TargetOK /\ ClaimOK /\ BuildsOverNothing
    BY AttachAssumption
    DEF Init, ShapeOK, TargetOK, ClaimOK, BuildsOverNothing, Holding
<1>2. ShapeOK /\ TargetOK /\ ClaimOK /\ BuildsOverNothing /\ [Next]_vars
        => (ShapeOK /\ TargetOK /\ ClaimOK /\ BuildsOverNothing)'
    BY TypeStep, ClaimStep
<1>3. QED BY <1>1, <1>2, PTL DEF Safety

(* A client is started, and an attachment installed, only while the map    *)
(* holds none: however many calls of Attach race, nothing is installed     *)
(* over an attachment that is still attached to tmux.                      *)
THEOREM BuildsOverNothingCorrect == Safety => []BuildsOverNothing
BY ClaimInvariant, PTL

-----------------------------------------------------------------------------
\* Nothing has happened yet to the attachment of a call that has not installed it.
Unbuilt(a) ==
    /\ pump[a] = "off" /\ live # a
    /\ a \notin done /\ a \notin closed
    /\ \A d \in Detachers : target[d] # a

(* An attachment is put into the map once, and what follows never returns  *)
(* it there.                                                               *)
LifeOK ==
    /\ \A a \in Attachers :
          /\ pc[a] \in {"idle", "loop", "wait", "build", "install", "discard"} => Unbuilt(a)
          /\ pc[a] = "startpump" => pump[a] = "off"
          /\ pump[a] \in {"close", "term", "wait", "reap", "gone"} => live # a
          /\ (\E d \in Detachers : target[d] = a) => live # a
    /\ \A d \in Detachers : dpc[d] = "idle" => target[d] = None

LEMMA LifeStep ==
    ASSUME ShapeOK, TargetOK, ClaimOK, LifeOK, DoneMeansForgotten, [Next]_vars
    PROVE  LifeOK' /\ DoneMeansForgotten'
<1> USE AttachAssumption
    DEF ShapeOK, TargetOK, LifeOK, Unbuilt, DoneMeansForgotten, Holding, Goto,
        PumpGoto, DetachGoto, managerVars, callVars, liveVars, detachVars
<1>1. ASSUME NEW a \in Attachers,
             Call(a) \/ AttachFinds(a) \/ AttachWaits(a) \/ AttachClaims(a)
             \/ AttachWoken(a) \/ AttachCancelled(a)
      PROVE  LifeOK' /\ DoneMeansForgotten'
    BY <1>1 DEF Call, AttachFinds, AttachWaits, AttachClaims, AttachWoken,
                AttachCancelled
<1>2. ASSUME NEW a \in Attachers,
             BuildFails(a) \/ StartClient(a) \/ StartPump(a)
             \/ TakeNote(a) \/ ReleaseClaim(a) \/ WakeWaiters(a)
      PROVE  LifeOK' /\ DoneMeansForgotten'
    BY <1>2 DEF BuildFails, StartClient, StartPump, TakeNote, ReleaseClaim,
                WakeWaiters
<1>3. ASSUME NEW a \in Attachers, Install(a)
      PROVE  LifeOK' /\ DoneMeansForgotten'
    BY <1>3 DEF Install
<1>4. ASSUME NEW a \in Attachers, Discard(a)
      PROVE  LifeOK' /\ DoneMeansForgotten'
    BY <1>4 DEF Discard
<1>5. ASSUME NEW a \in Attachers,
             PumpReads(a) \/ PumpSignals(a) \/ PumpEnds(a) \/ PumpDeregisters(a)
      PROVE  LifeOK' /\ DoneMeansForgotten'
    BY <1>5 DEF PumpReads, PumpSignals, PumpEnds, PumpDeregisters
<1>6. ASSUME NEW a \in Attachers, PumpCloses(a) \/ PumpTerms(a) \/ PumpReaps(a)
      PROVE  LifeOK' /\ DoneMeansForgotten'
    <2>1. pc[a] \notin {"idle", "loop", "wait", "build", "install", "discard",
                        "startpump"}
        BY <1>6 DEF PumpCloses, PumpTerms, PumpReaps
    <2>2. QED BY <1>6, <2>1 DEF PumpCloses, PumpTerms, PumpReaps
<1>7. ASSUME NEW a \in Attachers, KillerFires(a) \/ ClientExits(a)
      PROVE  LifeOK' /\ DoneMeansForgotten'
    BY <1>7 DEF KillerFires, ClientExits
<1>8. ASSUME NEW d \in Detachers, DetachBegins(d)
      PROVE  LifeOK' /\ DoneMeansForgotten'
    BY <1>8 DEF DetachBegins, DetachTakes, DetachNotes, DetachFindsNothing
<1>9. ASSUME NEW d \in Detachers, DetachStep(d)
      PROVE  LifeOK' /\ DoneMeansForgotten'
    <2>1. target[d] \in Attachers /\ live # target[d]
          /\ pc[target[d]] \notin {"idle", "loop", "wait", "build", "install",
                                   "discard"}
        BY <1>9 DEF DetachStep, DetachCloses, DetachTerms, DetachReturns
    <2>2. QED BY <1>9, <2>1 DEF DetachStep, DetachCloses, DetachTerms, DetachReturns
<1>10. CASE UNCHANGED vars
    BY <1>10 DEF vars
<1>11. QED BY <1>1, <1>2, <1>3, <1>4, <1>5, <1>6, <1>7, <1>8, <1>9, <1>10
           DEF Next, AttachStep, PumpStep, Rest

\* What every later theorem starts from.
Base == ShapeOK /\ TargetOK /\ ClaimOK /\ BuildsOverNothing /\ LifeOK

LEMMA BaseInvariant == Safety => [](Base /\ DoneMeansForgotten)
<1>1. Init => LifeOK /\ DoneMeansForgotten
    BY AttachAssumption DEF Init, LifeOK, Unbuilt, DoneMeansForgotten
<1>2. ShapeOK /\ TargetOK /\ ClaimOK /\ LifeOK /\ DoneMeansForgotten /\ [Next]_vars
        => (LifeOK /\ DoneMeansForgotten)'
    BY LifeStep
<1>3. QED BY <1>1, <1>2, ClaimInvariant, PTL DEF Safety, Base

(* Done() is a promise that the manager has forgotten the attachment: a    *)
(* caller woken by it and asking again cannot be handed the corpse.        *)
THEOREM DoneMeansForgottenCorrect == Safety => []DoneMeansForgotten
BY BaseInvariant, PTL

-----------------------------------------------------------------------------
(* Who is going to end a client whose attachment has been closed: the      *)
(* timer, or the closer, which has yet to send the SIGTERM or has sent it  *)
(* and not yet set the timer.                                              *)
SentenceOK ==
    \A a \in closed : client[a] \in {"running", "termed"} =>
        \/ a \in killer \/ pump[a] = "term"
        \/ \E d \in Detachers : target[d] = a /\ dpc[d] \in {"term", "await"}

LEMMA SentenceStep ==
    ASSUME Base, SentenceOK, [Next]_vars
    PROVE  SentenceOK'
<1> USE AttachAssumption
    DEF Base, ShapeOK, TargetOK, LifeOK, Unbuilt, SentenceOK, Goto, PumpGoto,
        DetachGoto, Terminated, managerVars, callVars, liveVars, detachVars
<1>1. ASSUME NEW a \in Attachers,
             Call(a) \/ AttachFinds(a) \/ AttachWaits(a) \/ AttachClaims(a)
             \/ AttachWoken(a) \/ AttachCancelled(a) \/ BuildFails(a)
             \/ Install(a) \/ TakeNote(a) \/ ReleaseClaim(a) \/ WakeWaiters(a)
      PROVE  SentenceOK'
    BY <1>1 DEF Call, AttachFinds, AttachWaits, AttachClaims, AttachWoken,
                AttachCancelled, BuildFails, Install, TakeNote, ReleaseClaim,
                WakeWaiters
<1>2. ASSUME NEW a \in Attachers, StartClient(a) \/ StartPump(a) \/ Discard(a)
      PROVE  SentenceOK'
    BY <1>2 DEF StartClient, StartPump, Discard
<1>3. ASSUME NEW a \in Attachers, PumpReads(a) \/ PumpStep(a)
      PROVE  SentenceOK'
    BY <1>3 DEF PumpReads, PumpStep, PumpSignals, PumpEnds, PumpDeregisters,
                PumpCloses, PumpTerms, PumpReaps
<1>4. ASSUME NEW a \in Attachers, KillerFires(a) \/ ClientExits(a)
      PROVE  SentenceOK'
    BY <1>4 DEF KillerFires, ClientExits
<1>5. ASSUME NEW d \in Detachers, DetachBegins(d)
      PROVE  SentenceOK'
    BY <1>5 DEF DetachBegins, DetachTakes, DetachNotes, DetachFindsNothing
<1>6. ASSUME NEW d \in Detachers, DetachCloses(d)
      PROVE  SentenceOK'
    BY <1>6 DEF DetachCloses
<1>7. ASSUME NEW d \in Detachers, DetachTerms(d)
      PROVE  SentenceOK'
    BY <1>7 DEF DetachTerms
<1>8. ASSUME NEW d \in Detachers, DetachReturns(d)
      PROVE  SentenceOK'
    BY <1>8 DEF DetachReturns
<1>9. CASE UNCHANGED vars
    BY <1>9 DEF vars
<1>10. QED BY <1>1, <1>2, <1>3, <1>4, <1>5, <1>6, <1>7, <1>8, <1>9
           DEF Next, AttachStep, DetachStep, Rest

LEMMA UnownedStep ==
    ASSUME Base, SentenceOK, NoUnownedClient, [Next]_vars
    PROVE  NoUnownedClient'
<1> USE AttachAssumption
    DEF Base, ShapeOK, TargetOK, ClaimOK, BuildsOverNothing, LifeOK, Unbuilt, Holding,
        NoUnownedClient, Doomed, Goto, PumpGoto, DetachGoto, Terminated,
        managerVars, callVars, liveVars, detachVars
<1>1. ASSUME NEW a \in Attachers,
             Call(a) \/ AttachFinds(a) \/ AttachWaits(a) \/ AttachClaims(a)
             \/ AttachWoken(a) \/ AttachCancelled(a) \/ BuildFails(a)
             \/ ReleaseClaim(a) \/ WakeWaiters(a)
      PROVE  NoUnownedClient'
    BY <1>1 DEF Call, AttachFinds, AttachWaits, AttachClaims, AttachWoken,
                AttachCancelled, BuildFails, ReleaseClaim, WakeWaiters
<1>2. ASSUME NEW a \in Attachers, StartClient(a) \/ TakeNote(a)
      PROVE  NoUnownedClient'
    BY <1>2 DEF StartClient, TakeNote
<1>3. ASSUME NEW a \in Attachers, Install(a)
      PROVE  NoUnownedClient'
    BY <1>3 DEF Install
<1>4. ASSUME NEW a \in Attachers, StartPump(a) \/ Discard(a)
      PROVE  NoUnownedClient'
    BY <1>4 DEF StartPump, Discard
<1>5. ASSUME NEW a \in Attachers,
             PumpReads(a) \/ PumpSignals(a) \/ PumpEnds(a) \/ PumpDeregisters(a)
      PROVE  NoUnownedClient'
    BY <1>5 DEF PumpReads, PumpSignals, PumpEnds, PumpDeregisters
<1>6. ASSUME NEW a \in Attachers, PumpCloses(a)
      PROVE  NoUnownedClient'
    BY <1>6 DEF PumpCloses, SentenceOK
<1>7. ASSUME NEW a \in Attachers, PumpTerms(a) \/ PumpReaps(a)
      PROVE  NoUnownedClient'
    BY <1>7 DEF PumpTerms, PumpReaps
<1>8. ASSUME NEW a \in Attachers, KillerFires(a) \/ ClientExits(a)
      PROVE  NoUnownedClient'
    BY <1>8 DEF KillerFires, ClientExits
<1>9. ASSUME NEW d \in Detachers, DetachBegins(d)
      PROVE  NoUnownedClient'
    BY <1>9 DEF DetachBegins, DetachTakes, DetachNotes, DetachFindsNothing
<1>10. ASSUME NEW d \in Detachers, DetachCloses(d)
       PROVE  NoUnownedClient'
    BY <1>10 DEF DetachCloses, SentenceOK
<1>11. ASSUME NEW d \in Detachers, DetachTerms(d)
       PROVE  NoUnownedClient'
    BY <1>11 DEF DetachTerms
<1>12. ASSUME NEW d \in Detachers, DetachReturns(d)
       PROVE  NoUnownedClient'
    BY <1>12 DEF DetachReturns
<1>13. CASE UNCHANGED vars
    BY <1>13 DEF vars
<1>14. QED BY <1>1, <1>2, <1>3, <1>4, <1>5, <1>6, <1>7, <1>8, <1>9, <1>10, <1>11,
              <1>12, <1>13
           DEF Next, AttachStep, PumpStep, DetachStep, Rest

(* No tmux client is ever left over: one that still runs is in the map, is *)
(* being built, or somebody is about to send it the signal that ends it.   *)
THEOREM NoUnownedClientCorrect == Safety => []NoUnownedClient
<1>1. Init => SentenceOK /\ NoUnownedClient
    BY DEF Init, SentenceOK, NoUnownedClient
<1>2. Base /\ SentenceOK /\ NoUnownedClient /\ [Next]_vars
        => (SentenceOK /\ NoUnownedClient)'
    BY SentenceStep, UnownedStep
<1>3. QED BY <1>1, <1>2, BaseInvariant, PTL DEF Safety

-----------------------------------------------------------------------------
\* The note is for the build that is running, and the build cannot lose it.
NoteOK ==
    /\ note => attaching \in told
    /\ \A a \in told : /\ pc[a] \notin {"idle", "loop", "wait"}
                       /\ pc[a] \in {"build", "install"} => note

LEMMA NoteStep ==
    ASSUME Base, NoteOK, DiscardJustified, [Next]_vars
    PROVE  NoteOK' /\ DiscardJustified'
<1> USE AttachAssumption
    DEF Base, ShapeOK, ClaimOK, NoteOK, DiscardJustified, Holding, Goto,
        managerVars, callVars, liveVars, detachVars
<1>1. ASSUME NEW a \in Attachers,
             Call(a) \/ AttachFinds(a) \/ AttachWaits(a) \/ AttachWoken(a)
             \/ AttachCancelled(a) \/ WakeWaiters(a)
      PROVE  NoteOK' /\ DiscardJustified'
    BY <1>1 DEF Call, AttachFinds, AttachWaits, AttachWoken, AttachCancelled,
                WakeWaiters
<1>2. ASSUME NEW a \in Attachers, AttachClaims(a)
      PROVE  NoteOK' /\ DiscardJustified'
    BY <1>2 DEF AttachClaims
<1>3. ASSUME NEW a \in Attachers,
             BuildFails(a) \/ StartClient(a) \/ Install(a) \/ StartPump(a)
             \/ Discard(a)
      PROVE  NoteOK' /\ DiscardJustified'
    BY <1>3 DEF BuildFails, StartClient, Install, StartPump, Discard
<1>4. ASSUME NEW a \in Attachers, TakeNote(a)
      PROVE  NoteOK' /\ DiscardJustified'
    BY <1>4 DEF TakeNote
<1>5. ASSUME NEW a \in Attachers, ReleaseClaim(a)
      PROVE  NoteOK' /\ DiscardJustified'
    BY <1>5 DEF ReleaseClaim
<1>6. ASSUME NEW a \in Attachers,
             PumpReads(a) \/ PumpStep(a) \/ KillerFires(a) \/ ClientExits(a)
      PROVE  NoteOK' /\ DiscardJustified'
    BY <1>6, PumpFrame
<1>7. ASSUME NEW d \in Detachers, DetachBegins(d)
      PROVE  NoteOK' /\ DiscardJustified'
    BY <1>7 DEF DetachBegins, DetachTakes, DetachNotes, DetachFindsNothing
<1>8. ASSUME NEW d \in Detachers, DetachStep(d)
      PROVE  NoteOK' /\ DiscardJustified'
    BY <1>8 DEF DetachStep, DetachCloses, DetachTerms, DetachReturns
<1>9. CASE UNCHANGED vars
    BY <1>9 DEF vars
<1>10. QED BY <1>1, <1>2, <1>3, <1>4, <1>5, <1>6, <1>7, <1>8, <1>9
           DEF Next, AttachStep, Rest

LEMMA NoteInvariant == Safety => [](Base /\ NoteOK /\ DiscardJustified)
<1>1. Init => NoteOK /\ DiscardJustified
    BY AttachAssumption DEF Init, NoteOK, DiscardJustified
<1>2. Base /\ NoteOK /\ DiscardJustified /\ [Next]_vars
        => (NoteOK /\ DiscardJustified)'
    BY NoteStep
<1>3. QED BY <1>1, <1>2, BaseInvariant, PTL DEF Safety

(* An attachment is discarded only for a Detach that came during its own   *)
(* build: no note is ever left over for the next one.                      *)
THEOREM DiscardJustifiedCorrect == Safety => []DiscardJustified
BY NoteInvariant, PTL

(* Once a Detach has noted a build, nothing puts that build into the map.  *)
THEOREM DetachWinsCorrect == Safety => DetachWins
<1>1. Base /\ NoteOK /\ [Next]_vars => [\A a \in told : live # a => live' # a]_vars
    <2> SUFFICES ASSUME Base, NoteOK, Next, NEW a \in told, live # a
                 PROVE  live' # a
        OBVIOUS
    <2> USE AttachAssumption
        DEF Base, ShapeOK, NoteOK, managerVars, callVars
    <2>1. a \in Attachers /\ a # None
        OBVIOUS
    <2>2. ASSUME NEW b \in Attachers, Call(b) \/ AttachCancelled(b) \/ AttachStep(b)
          PROVE  live' # a
        BY <2>1, <2>2
           DEF Call, AttachCancelled, AttachStep, AttachFinds, AttachWaits,
               AttachClaims, AttachWoken, BuildFails, StartClient, Install,
               StartPump, TakeNote, Discard, ReleaseClaim, WakeWaiters
    <2>3. ASSUME NEW b \in Attachers,
                 PumpReads(b) \/ PumpStep(b) \/ KillerFires(b) \/ ClientExits(b)
          PROVE  live' # a
        BY <2>1, <2>3, PumpFrame
    <2>4. ASSUME NEW d \in Detachers, DetachBegins(d) \/ DetachStep(d)
          PROVE  live' # a
        BY <2>1, <2>4, DetachFrame
    <2>5. CASE Rest
        BY <2>5 DEF Rest, vars
    <2>6. QED BY <2>2, <2>3, <2>4, <2>5 DEF Next
<1>2. QED BY <1>1, NoteInvariant, PTL DEF Safety, DetachWins

-----------------------------------------------------------------------------
(* A pump that stops within pumpDrain unless its client keeps it waiting:  *)
(* what the two promises about a returning Detach rest on.                 *)
LEMMA OwnDetachStep ==
    ASSUME ~SlowPump, Base, NoCallbackAfterOwnDetach, [Next]_vars
    PROVE  NoCallbackAfterOwnDetach'
<1> USE AttachAssumption
    DEF Base, ShapeOK, TargetOK, LifeOK, Unbuilt, NoCallbackAfterOwnDetach, Goto,
        PumpGoto, DetachGoto, managerVars, callVars, liveVars, detachVars
<1>1. ASSUME NEW a \in Attachers, Call(a) \/ AttachCancelled(a) \/ AttachStep(a)
      PROVE  NoCallbackAfterOwnDetach'
    BY <1>1 DEF Call, AttachCancelled, AttachStep, AttachFinds, AttachWaits,
                AttachClaims, AttachWoken, BuildFails, StartClient, Install,
                StartPump, TakeNote, Discard, ReleaseClaim, WakeWaiters
<1>2. ASSUME NEW a \in Attachers, PumpReads(a) \/ PumpStep(a)
      PROVE  NoCallbackAfterOwnDetach'
    BY <1>2 DEF PumpReads, PumpStep, PumpSignals, PumpEnds, PumpDeregisters,
                PumpCloses, PumpTerms, PumpReaps
<1>3. ASSUME NEW a \in Attachers, KillerFires(a) \/ ClientExits(a)
      PROVE  NoCallbackAfterOwnDetach'
    BY <1>3 DEF KillerFires, ClientExits
<1>4. ASSUME NEW d \in Detachers, DetachBegins(d)
      PROVE  NoCallbackAfterOwnDetach'
    BY <1>4 DEF DetachBegins, DetachTakes, DetachNotes, DetachFindsNothing
<1>5. ASSUME NEW d \in Detachers, DetachCloses(d) \/ DetachTerms(d)
      PROVE  NoCallbackAfterOwnDetach'
    BY <1>5 DEF DetachCloses, DetachTerms
<1>6. ASSUME NEW d \in Detachers, DetachReturns(d)
      PROVE  NoCallbackAfterOwnDetach'
    BY <1>6 DEF DetachReturns, DrainExpires
<1>7. CASE UNCHANGED vars
    BY <1>7 DEF vars
<1>8. QED BY <1>1, <1>2, <1>3, <1>4, <1>5, <1>6, <1>7 DEF Next, DetachStep, Rest

(* The Detach that took an attachment out of the map returns only when its *)
(* pump can make no more callbacks, unless the pump outlasts pumpDrain.    *)
THEOREM OwnDetachCorrect ==
    ASSUME ~SlowPump PROVE Safety => []NoCallbackAfterOwnDetach
<1>1. Init => NoCallbackAfterOwnDetach
    BY DEF Init, NoCallbackAfterOwnDetach
<1>2. Base /\ NoCallbackAfterOwnDetach /\ [Next]_vars => NoCallbackAfterOwnDetach'
    BY OwnDetachStep
<1>3. QED BY <1>1, <1>2, BaseInvariant, PTL DEF Safety

\* Between being closed and being done an attachment has exactly one closer.
CloserOK ==
    /\ \A d, e \in Detachers : target[d] = target[e] /\ target[d] # None => d = e
    /\ \A a \in closed \ done :
          \/ pump[a] = "term"
          \/ \E d \in Detachers : target[d] = a /\ dpc[d] = "term"
    /\ \A a \in done : client[a] # "running"
    /\ \A a \in Attachers : pump[a] = "gone" => client[a] = "reaped"
    /\ \A d \in Detachers :
          /\ dpc[d] = "await" => target[d] \in done
          /\ dpc[d] = "rewait" => target[d] \in done \/ pump[target[d]] = "term"

LEMMA CloserStep ==
    ASSUME Base, CloserOK, [Next]_vars
    PROVE  CloserOK'
<1> USE AttachAssumption
    DEF Base, ShapeOK, TargetOK, LifeOK, Unbuilt, CloserOK, Goto, PumpGoto, DetachGoto,
        Terminated, managerVars, callVars, liveVars, detachVars
<1>1. ASSUME NEW a \in Attachers,
             Call(a) \/ AttachFinds(a) \/ AttachWaits(a) \/ AttachClaims(a)
             \/ AttachWoken(a) \/ AttachCancelled(a) \/ BuildFails(a)
             \/ Install(a) \/ TakeNote(a) \/ ReleaseClaim(a) \/ WakeWaiters(a)
      PROVE  CloserOK'
    BY <1>1 DEF Call, AttachFinds, AttachWaits, AttachClaims, AttachWoken,
                AttachCancelled, BuildFails, Install, TakeNote, ReleaseClaim,
                WakeWaiters
<1>2. ASSUME NEW a \in Attachers, StartClient(a) \/ StartPump(a) \/ Discard(a)
      PROVE  CloserOK'
    BY <1>2 DEF StartClient, StartPump, Discard
<1>3. ASSUME NEW a \in Attachers,
             PumpReads(a) \/ PumpSignals(a) \/ PumpEnds(a) \/ PumpDeregisters(a)
      PROVE  CloserOK'
    BY <1>3 DEF PumpReads, PumpSignals, PumpEnds, PumpDeregisters
<1>4. ASSUME NEW a \in Attachers, PumpCloses(a) \/ PumpTerms(a) \/ PumpReaps(a)
      PROVE  CloserOK'
    BY <1>4 DEF PumpCloses, PumpTerms, PumpReaps
<1>5. ASSUME NEW a \in Attachers, KillerFires(a) \/ ClientExits(a)
      PROVE  CloserOK'
    BY <1>5 DEF KillerFires, ClientExits
<1>6. ASSUME NEW d \in Detachers, DetachBegins(d)
      PROVE  CloserOK'
    BY <1>6 DEF DetachBegins, DetachTakes, DetachNotes, DetachFindsNothing
<1>7. ASSUME NEW d \in Detachers, DetachCloses(d)
      PROVE  CloserOK'
    BY <1>7 DEF DetachCloses
<1>8. ASSUME NEW d \in Detachers, DetachTerms(d) \/ DetachReturns(d)
      PROVE  CloserOK'
    BY <1>8 DEF DetachTerms, DetachReturns
<1>9. CASE UNCHANGED vars
    BY <1>9 DEF vars
<1>10. QED BY <1>1, <1>2, <1>3, <1>4, <1>5, <1>6, <1>7, <1>8, <1>9
           DEF Next, AttachStep, PumpStep, DetachStep, Rest

LEMMA CleanStep ==
    ASSUME ~SlowPump, ObeysTerm, Base, CloserOK, DetachReturnsClean, [Next]_vars
    PROVE  DetachReturnsClean'
<1> USE AttachAssumption
    DEF Base, ShapeOK, TargetOK, LifeOK, Unbuilt, CloserOK, DetachReturnsClean, Goto,
        PumpGoto, DetachGoto, Terminated, managerVars, callVars, liveVars, detachVars
<1>1. ASSUME NEW a \in Attachers, Call(a) \/ AttachCancelled(a) \/ AttachStep(a)
      PROVE  DetachReturnsClean'
    BY <1>1 DEF Call, AttachCancelled, AttachStep, AttachFinds, AttachWaits,
                AttachClaims, AttachWoken, BuildFails, StartClient, Install,
                StartPump, TakeNote, Discard, ReleaseClaim, WakeWaiters
<1>2. ASSUME NEW a \in Attachers, PumpReads(a) \/ PumpStep(a)
      PROVE  DetachReturnsClean'
    BY <1>2 DEF PumpReads, PumpStep, PumpSignals, PumpEnds, PumpDeregisters,
                PumpCloses, PumpTerms, PumpReaps
<1>3. ASSUME NEW a \in Attachers, KillerFires(a) \/ ClientExits(a)
      PROVE  DetachReturnsClean'
    BY <1>3 DEF KillerFires, ClientExits
<1>4. ASSUME NEW d \in Detachers, DetachBegins(d)
      PROVE  DetachReturnsClean'
    BY <1>4 DEF DetachBegins, DetachTakes, DetachNotes, DetachFindsNothing
<1>5. ASSUME NEW d \in Detachers, DetachCloses(d) \/ DetachTerms(d)
      PROVE  DetachReturnsClean'
    BY <1>5 DEF DetachCloses, DetachTerms
<1>6. ASSUME NEW d \in Detachers, DetachReturns(d)
      PROVE  DetachReturnsClean'
    <2>1. ~DrainExpires(target[d])
        BY <1>6 DEF DetachReturns, DrainExpires
    <2>2. client[target[d]] = "reaped"
        BY <1>6, <2>1 DEF DetachReturns
    <2>3. QED BY <1>6, <2>2 DEF DetachReturns
<1>7. CASE UNCHANGED vars
    BY <1>7 DEF vars
<1>8. QED BY <1>1, <1>2, <1>3, <1>4, <1>5, <1>6, <1>7 DEF Next, DetachStep, Rest

(* If clients obey SIGTERM, the Detach that closed an attachment returns   *)
(* only once its client is reaped.                                         *)
THEOREM ReturnsCleanCorrect ==
    ASSUME ~SlowPump, ObeysTerm PROVE Safety => []DetachReturnsClean
<1>1. Init => CloserOK /\ DetachReturnsClean
    BY DEF Init, CloserOK, DetachReturnsClean
<1>2. Base /\ CloserOK /\ DetachReturnsClean /\ [Next]_vars
        => (CloserOK /\ DetachReturnsClean)'
    BY CloserStep, CleanStep
<1>3. QED BY <1>1, <1>2, BaseInvariant, PTL DEF Safety

-----------------------------------------------------------------------------
\* A client exists from its start on, and is reaped by the pump's last step.
ClientOK ==
    \A a \in Attachers :
       /\ pc[a] \in {"idle", "loop", "wait", "build"} => client[a] = "none"
       /\ pc[a] = "install" \/ live = a => client[a] # "none"
       /\ client[a] = "reaped" => pump[a] = "gone"

LEMMA ClientStep ==
    ASSUME Base, ClientOK, [Next]_vars
    PROVE  ClientOK'
<1> USE AttachAssumption
    DEF Base, ShapeOK, TargetOK, LifeOK, Unbuilt, ClientOK, Goto, PumpGoto, DetachGoto,
        Terminated, managerVars, callVars, liveVars, detachVars
<1>1. ASSUME NEW a \in Attachers,
             Call(a) \/ AttachFinds(a) \/ AttachWaits(a) \/ AttachClaims(a)
             \/ AttachWoken(a) \/ AttachCancelled(a) \/ BuildFails(a)
             \/ Install(a) \/ TakeNote(a) \/ ReleaseClaim(a) \/ WakeWaiters(a)
      PROVE  ClientOK'
    BY <1>1 DEF Call, AttachFinds, AttachWaits, AttachClaims, AttachWoken,
                AttachCancelled, BuildFails, Install, TakeNote, ReleaseClaim,
                WakeWaiters
<1>2. ASSUME NEW a \in Attachers, StartClient(a) \/ StartPump(a) \/ Discard(a)
      PROVE  ClientOK'
    BY <1>2 DEF StartClient, StartPump, Discard
<1>3. ASSUME NEW a \in Attachers, PumpReads(a) \/ PumpStep(a)
      PROVE  ClientOK'
    BY <1>3 DEF PumpReads, PumpStep, PumpSignals, PumpEnds, PumpDeregisters,
                PumpCloses, PumpTerms, PumpReaps
<1>4. ASSUME NEW a \in Attachers, KillerFires(a) \/ ClientExits(a)
      PROVE  ClientOK'
    BY <1>4 DEF KillerFires, ClientExits
<1>5. ASSUME NEW d \in Detachers, DetachBegins(d)
      PROVE  ClientOK'
    BY <1>5 DEF DetachBegins, DetachTakes, DetachNotes, DetachFindsNothing
<1>6. ASSUME NEW d \in Detachers, DetachStep(d)
      PROVE  ClientOK'
    BY <1>6 DEF DetachStep, DetachCloses, DetachTerms, DetachReturns
<1>7. CASE UNCHANGED vars
    BY <1>7 DEF vars
<1>8. QED BY <1>1, <1>2, <1>3, <1>4, <1>5, <1>6, <1>7 DEF Next, AttachStep, Rest

\* One client's fate moves, and the others' do not: a step of the promise.
FateMoves(a, from, to) ==
    /\ Fate(a) = from /\ Fate(a)' = to
    /\ \A b \in Attachers \ {a} : Fate(b)' = Fate(b)

LEMMA MoveIsStep ==
    ASSUME NEW a \in Attachers,
           \/ FateMoves(a, "none", "owned") /\ \A b \in Attachers : Fate(b) # "owned"
           \/ FateMoves(a, "owned", "condemned")
           \/ FateMoves(a, "condemned", "gone")
    PROVE  Promise!Next
BY DEF FateMoves, Promise!Next, Promise!Own, Promise!Condemn, Promise!Bury

LEMMA PromiseStep ==
    ASSUME Base, ClientOK, [Next]_vars
    PROVE  \/ Promise!Next
           \/ \A a \in Attachers : Fate(a)' = Fate(a)
<1> USE AttachAssumption
    DEF Base, ShapeOK, TargetOK, LifeOK, Unbuilt, ClientOK, Goto, PumpGoto, DetachGoto,
        Terminated, managerVars, callVars, liveVars, detachVars, Fate
<1>1. ASSUME NEW a \in Attachers,
             Call(a) \/ AttachFinds(a) \/ AttachWaits(a) \/ AttachClaims(a)
             \/ AttachWoken(a) \/ AttachCancelled(a) \/ BuildFails(a)
             \/ Install(a) \/ StartPump(a) \/ Discard(a) \/ ReleaseClaim(a)
             \/ WakeWaiters(a)
      PROVE  \A b \in Attachers : Fate(b)' = Fate(b)
    BY <1>1 DEF Call, AttachFinds, AttachWaits, AttachClaims, AttachWoken,
                AttachCancelled, BuildFails, Install, StartPump, Discard,
                ReleaseClaim, WakeWaiters, ClaimOK, BuildsOverNothing, Holding
<1>2. ASSUME NEW a \in Attachers, StartClient(a)
      PROVE  Promise!Next
    <2>1. FateMoves(a, "none", "owned")
        BY <1>2 DEF StartClient, FateMoves
    <2>2. \A b \in Attachers : Fate(b) # "owned"
        BY <1>2 DEF StartClient, ClaimOK, BuildsOverNothing, Holding
    <2>3. QED BY <2>1, <2>2, MoveIsStep
<1>3. ASSUME NEW a \in Attachers, TakeNote(a)
      PROVE  Promise!Next
    <2>1. FateMoves(a, "owned", "condemned")
        BY <1>3 DEF TakeNote, FateMoves
    <2>2. QED BY <2>1, MoveIsStep
<1>4. ASSUME NEW a \in Attachers,
             PumpReads(a) \/ PumpSignals(a) \/ PumpEnds(a) \/ PumpCloses(a)
             \/ PumpTerms(a) \/ KillerFires(a) \/ ClientExits(a)
      PROVE  \A b \in Attachers : Fate(b)' = Fate(b)
    BY <1>4 DEF PumpReads, PumpSignals, PumpEnds, PumpCloses, PumpTerms,
                KillerFires, ClientExits
<1>5. ASSUME NEW a \in Attachers, PumpDeregisters(a)
      PROVE  Promise!Next \/ \A b \in Attachers : Fate(b)' = Fate(b)
    <2>1. CASE live = a
        <3>1. FateMoves(a, "owned", "condemned")
            BY <1>5, <2>1 DEF PumpDeregisters, FateMoves
        <3>2. QED BY <3>1, MoveIsStep
    <2>2. CASE live # a
        BY <1>5, <2>2 DEF PumpDeregisters
    <2>3. QED BY <2>1, <2>2
<1>6. ASSUME NEW a \in Attachers, PumpReaps(a)
      PROVE  Promise!Next
    <2>1. FateMoves(a, "condemned", "gone")
        BY <1>6 DEF PumpReaps, FateMoves
    <2>2. QED BY <2>1, MoveIsStep
<1>7. ASSUME NEW d \in Detachers, DetachTakes(d)
      PROVE  Promise!Next
    <2>1. PICK a \in Attachers : live = a
        BY <1>7 DEF DetachTakes
    <2>2. FateMoves(a, "owned", "condemned")
        BY <1>7, <2>1 DEF DetachTakes, FateMoves
    <2>3. QED BY <2>2, MoveIsStep
<1>8. ASSUME NEW d \in Detachers,
             DetachNotes(d) \/ DetachFindsNothing(d) \/ DetachStep(d)
      PROVE  \A b \in Attachers : Fate(b)' = Fate(b)
    BY <1>8 DEF DetachNotes, DetachFindsNothing, DetachStep, DetachCloses,
                DetachTerms, DetachReturns
<1>9. CASE UNCHANGED vars
    BY <1>9 DEF vars
<1>10. QED BY <1>1, <1>2, <1>3, <1>4, <1>5, <1>6, <1>7, <1>8, <1>9
           DEF Next, AttachStep, PumpStep, DetachBegins, Rest

(* The safety half of the promise: the manager owns at most one client at  *)
(* a time, and each goes from owned to condemned to gone and never back.   *)
THEOREM PromiseCorrect ==
    Safety => Promise!Init /\ [][Promise!Next]_([a \in Attachers |-> Fate(a)])
<1>1. Init => ClientOK /\ Promise!Init
    BY AttachAssumption DEF Init, ClientOK, Promise!Init, Fate
<1>2. Base /\ ClientOK /\ [Next]_vars => ClientOK'
    BY ClientStep
<1>3. Base /\ ClientOK /\ [Next]_vars
        => [Promise!Next]_([a \in Attachers |-> Fate(a)])
    BY PromiseStep
<1>4. QED BY <1>1, <1>2, <1>3, BaseInvariant, PTL DEF Safety

(* One client at a time, and each somebody's, for any number of calls.     *)
THEOREM ClientsOwnedCorrect == Safety => []ClientsOwned
BY BuildsOverNothingCorrect, NoUnownedClientCorrect, DoneMeansForgottenCorrect, PTL DEF ClientsOwned

(* A Detach means it, during a build and after it, with pumps that stop    *)
(* within pumpDrain and clients that obey SIGTERM.                         *)
THEOREM DetachObeyedCorrect ==
    ASSUME ~SlowPump, ObeysTerm PROVE Safety => DetachObeyed
BY DiscardJustifiedCorrect, OwnDetachCorrect, ReturnsCleanCorrect, DetachWinsCorrect, PTL DEF DetachObeyed
=============================================================================
