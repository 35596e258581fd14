-------------------------- MODULE ToldParts_proofs --------------------------
(***************************************************************************)
(* Who is told what, proved of each part alone and of the parts side by    *)
(* side: the event streams of plugins, the pages, and the line that is     *)
(* drawn before its echo.                                                  *)
(***************************************************************************)
EXTENDS ToldParts, GridControl_proofs, FiniteSetTheorems

-----------------------------------------------------------------------------
(* The event streams: a stream that builds has read the generation before  *)
(* the tables, so what it keeps is at least as new as what that generation *)
(* was bumped for; two readers of one generation were promised the same,   *)
(* so either may be shown what the other built.                            *)

Busy == {"locks", "builds", "keeps", "writes"}

\* Every bump answers a change of its own.
BumpsCounted ==
    /\ unbumped \subseteq 1..truth /\ IsFiniteSet(unbumped)
    /\ generation + Cardinality(unbumped) <= truth

Floors ==
    /\ announced <= truth
    /\ \A s \in Streams : stream[s].at \in Busy =>
        /\ stream[s].read <= generation /\ stream[s].floor <= announced
        /\ stream[s].read = generation => stream[s].floor = announced
        /\ stream[s].at \in {"keeps", "writes"} => stream[s].view >= stream[s].floor
        /\ \A t \in Streams : stream[t].at \in Busy /\ stream[t].read = stream[s].read =>
                                  stream[t].floor = stream[s].floor

MemoOK ==
    /\ memo.of <= generation
    /\ MemoHasBumped
    /\ \A s \in Streams : stream[s].at \in Busy /\ memo.of = stream[s].read => memo.says >= stream[s].floor

WatchInv == WatchTypeOK /\ BumpsCounted /\ Floors /\ MemoOK

LEMMA WatchInitial == WatchInit => WatchInv
  <1>1. ASSUME WatchInit PROVE WatchTypeOK
    BY <1>1, WatchAssumption DEF WatchInit, WatchTypeOK, Out
  <1>2. ASSUME WatchInit PROVE BumpsCounted
    BY <1>2, FS_EmptySet DEF WatchInit, BumpsCounted
  <1>3. ASSUME WatchInit PROVE Floors /\ MemoOK
    BY <1>3 DEF WatchInit, Floors, MemoOK, MemoHasBumped, Busy, Out
  <1> QED BY <1>1, <1>2, <1>3 DEF WatchInv

\* What happens to the panel's state.
LEMMA PanelStep ==
    ASSUME WatchInv, HandlerWrites \/ Bump \/ PollerWrites
    PROVE  WatchInv'
  <1> USE WatchAssumption DEF WatchInv, streamVars
  <1>1. CASE HandlerWrites
    <2> USE <1>1 DEF HandlerWrites
    <2>1. truth \in Nat /\ truth + 1 \notin unbumped
      BY DEF WatchTypeOK, BumpsCounted
    <2>2. IsFiniteSet(unbumped') /\ Cardinality(unbumped') = Cardinality(unbumped) + 1
      BY <2>1, FS_AddElement DEF BumpsCounted
    <2>3. Cardinality(unbumped) \in Nat
      BY FS_CardinalityType DEF BumpsCounted
    <2>4. WatchTypeOK'
      <3>1. truth' \in 0..MaxTruth /\ truth' \in 1..MaxTruth BY <2>1 DEF WatchTypeOK
      <3> QED BY <3>1 DEF WatchTypeOK
    <2>5. BumpsCounted'
      BY <2>1, <2>2, <2>3 DEF BumpsCounted, WatchTypeOK
    <2>6. Floors' /\ MemoOK'
      BY DEF Floors, MemoOK, MemoHasBumped, WatchTypeOK
    <2> QED BY <2>4, <2>5, <2>6
  <1>2. CASE Bump
    <2>1. PICK change \in unbumped :
            /\ unbumped' = unbumped \ {change}
            /\ announced' = IF change > announced THEN change ELSE announced
            /\ generation' = generation + 1
            /\ UNCHANGED <<truth, streamVars>>
      BY <1>2 DEF Bump
    <2>2. IsFiniteSet(unbumped') /\ Cardinality(unbumped') = Cardinality(unbumped) - 1
      BY <2>1, FS_RemoveElement DEF BumpsCounted
    <2>3. Cardinality(unbumped) \in Nat /\ Cardinality(unbumped') \in Nat
      BY <2>2, FS_CardinalityType DEF BumpsCounted
    <2>4. BumpsCounted'
      BY <2>1, <2>2, <2>3 DEF BumpsCounted, WatchTypeOK
    <2>5. change \in 1..truth /\ announced <= announced' /\ announced' <= truth /\ generation + 1 <= MaxTruth
      BY <2>1, <2>2, <2>3, <2>4 DEF BumpsCounted, WatchTypeOK, Floors
    <2>6. WatchTypeOK'
      BY <2>1, <2>5 DEF WatchTypeOK
    <2>7. Floors' /\ MemoOK'
      BY <2>1, <2>5 DEF Floors, MemoOK, MemoHasBumped, WatchTypeOK
    <2> QED BY <2>4, <2>6, <2>7
  <1>3. CASE PollerWrites
    <2> USE <1>3 DEF PollerWrites
    <2>1. truth \in Nat BY DEF WatchTypeOK
    <2>2. WatchTypeOK'
      <3>1. truth' \in 0..MaxTruth BY <2>1 DEF WatchTypeOK
      <3> QED BY <3>1 DEF WatchTypeOK
    <2>3. BumpsCounted'
      <3>1. Cardinality(unbumped) \in Nat BY FS_CardinalityType DEF BumpsCounted
      <3>2. 1..truth \subseteq 1..truth' BY <2>1
      <3> QED BY <2>1, <3>1, <3>2 DEF BumpsCounted, WatchTypeOK
    <2>4. Floors' /\ MemoOK'
      BY DEF Floors, MemoOK, MemoHasBumped, WatchTypeOK
    <2> QED BY <2>2, <2>3, <2>4
  <1> QED BY <1>1, <1>2, <1>3

\* What happens to one event stream.
LEMMA StreamStep ==
    ASSUME WatchInv, NEW s \in Streams, Sends(s) \/ Opens(s) \/ Closes(s) \/ StateFails(s) \/ Heartbeat(s)
    PROVE  WatchInv'
  <1> USE WatchAssumption DEF WatchInv, Others, panelVars, Moves, Out
  <1>1. BumpsCounted'
    BY DEF BumpsCounted, Sends, Opens, Closes, StateFails, Heartbeat, ReadGeneration, UseMemo, StartBuild, ReadTables,
           Keep, WriteView, WaitOnBus, Woken
  <1>2. CASE ReadGeneration(s)
    <2>1. WatchTypeOK'
      <3>1. generation \in 0..MaxTruth /\ announced \in 0..MaxTruth BY DEF WatchTypeOK
      <3>2. stream'[s] = [at |-> "locks", read |-> generation, floor |-> announced, view |-> 0, since |-> 0]
        BY <1>2 DEF ReadGeneration, WatchTypeOK
      <3>3. stream' = [stream EXCEPT ![s] = stream'[s]]
        BY <1>2 DEF ReadGeneration, WatchTypeOK
      <3> QED BY <1>2, <3>1, <3>2, <3>3 DEF ReadGeneration, WatchTypeOK
    <2>2. Floors' BY <1>2 DEF ReadGeneration, WatchTypeOK, Floors, Busy
    <2>3. MemoOK' BY <1>2 DEF ReadGeneration, WatchTypeOK, MemoOK, MemoHasBumped, Busy
    <2> QED BY <1>1, <2>1, <2>2, <2>3
  <1>3. CASE UseMemo(s)
    <2>1. WatchTypeOK'
      <3>1. memo.says \in 0..MaxTruth BY DEF WatchTypeOK
      <3>2. stream' = [stream EXCEPT ![s] = [@ EXCEPT !.at = "writes", !.view = memo.says]]
        BY <1>3 DEF UseMemo
      <3>3. [stream[s] EXCEPT !.at = "writes", !.view = memo.says] \in
              [at : {"out", "sends", "locks", "builds", "keeps", "writes", "subscribes", "waits"},
               read : 0..MaxTruth, floor : 0..MaxTruth, view : 0..MaxTruth, since : 0..MaxTruth]
        BY <3>1 DEF WatchTypeOK
      <3> QED BY <1>3, <3>2, <3>3 DEF UseMemo, WatchTypeOK
    <2>2. Floors' BY <1>3 DEF UseMemo, WatchTypeOK, Floors, MemoOK, Busy
    <2>3. MemoOK' BY <1>3 DEF UseMemo, WatchTypeOK, MemoOK, MemoHasBumped, Busy
    <2> QED BY <1>1, <2>1, <2>2, <2>3
  <1>4. CASE ReadTables(s)
    <2>1. WatchTypeOK' BY <1>4 DEF ReadTables, WatchTypeOK
    <2>2. Floors' BY <1>4 DEF ReadTables, WatchTypeOK, Floors, Busy
    <2>3. MemoOK' BY <1>4 DEF ReadTables, WatchTypeOK, MemoOK, MemoHasBumped, Busy
    <2> QED BY <1>1, <2>1, <2>2, <2>3
  <1>5. CASE Keep(s)
    <2>1. WatchTypeOK' BY <1>5 DEF Keep, WatchTypeOK
    <2>2. Floors' BY <1>5 DEF Keep, WatchTypeOK, Floors, Busy
    <2>3. MemoOK' BY <1>5 DEF Keep, WatchTypeOK, Floors, MemoOK, MemoHasBumped, Busy
    <2> QED BY <1>1, <2>1, <2>2, <2>3
  <1>6. CASE StartBuild(s)
    <2>1. WatchTypeOK' BY <1>6 DEF StartBuild, WatchTypeOK
    <2>2. Floors' BY <1>6 DEF StartBuild, WatchTypeOK, Floors, Busy
    <2>3. MemoOK' BY <1>6 DEF StartBuild, WatchTypeOK, MemoOK, MemoHasBumped, Busy
    <2> QED BY <1>1, <2>1, <2>2, <2>3
  <1>7. ASSUME stream' = [stream EXCEPT ![s] = stream'[s]], stream'[s].at \notin Busy, UNCHANGED <<panelVars, memo>>,
               WatchTypeOK'
        PROVE  WatchInv'
    <2>1. Floors' BY <1>7 DEF WatchTypeOK, Floors
    <2>2. MemoOK' BY <1>7 DEF WatchTypeOK, MemoOK, MemoHasBumped
    <2> QED BY <1>1, <1>7, <2>1, <2>2
  <1>8. CASE WriteView(s)
    <2>1. stream' = [stream EXCEPT ![s] = stream'[s]] /\ stream'[s].at \notin Busy /\ UNCHANGED <<panelVars, memo>>
      BY <1>8 DEF WriteView, WatchTypeOK, Busy
    <2>2. WatchTypeOK' BY <1>8 DEF WriteView, WatchTypeOK
    <2> QED BY <1>7, <2>1, <2>2
  <1>9. CASE WaitOnBus(s)
    <2>1. stream' = [stream EXCEPT ![s] = stream'[s]] /\ stream'[s].at \notin Busy /\ UNCHANGED <<panelVars, memo>>
      BY <1>9 DEF WaitOnBus, WatchTypeOK, Busy
    <2>2. WatchTypeOK'
      <3>1. generation \in 0..MaxTruth BY DEF WatchTypeOK
      <3>2. stream'[s] = [at |-> "waits", read |-> 0, floor |-> 0, view |-> 0, since |-> generation]
        BY <1>9 DEF WaitOnBus, WatchTypeOK
      <3> QED BY <1>9, <2>1, <3>1, <3>2 DEF WaitOnBus, WatchTypeOK
    <2> QED BY <1>7, <2>1, <2>2
  <1>10. CASE Woken(s)
    <2>1. stream' = [stream EXCEPT ![s] = stream'[s]] /\ stream'[s].at \notin Busy /\ UNCHANGED <<panelVars, memo>>
      BY <1>10 DEF Woken, WatchTypeOK, Busy
    <2>2. WatchTypeOK' BY <1>10 DEF Woken, WatchTypeOK
    <2> QED BY <1>7, <2>1, <2>2
  <1>11. CASE Opens(s)
    <2>1. stream' = [stream EXCEPT ![s] = stream'[s]] /\ stream'[s].at \notin Busy /\ UNCHANGED <<panelVars, memo>>
      BY <1>11 DEF Opens, WatchTypeOK, Busy
    <2>2. WatchTypeOK' BY <1>11 DEF Opens, WatchTypeOK
    <2> QED BY <1>7, <2>1, <2>2
  <1>12. CASE Closes(s)
    <2>1. stream' = [stream EXCEPT ![s] = stream'[s]] /\ stream'[s].at \notin Busy /\ UNCHANGED <<panelVars, memo>>
      BY <1>12 DEF Closes, WatchTypeOK, Busy
    <2>2. WatchTypeOK' BY <1>12 DEF Closes, WatchTypeOK
    <2> QED BY <1>7, <2>1, <2>2
  <1>13. CASE StateFails(s)
    <2>1. stream' = [stream EXCEPT ![s] = stream'[s]] /\ stream'[s].at \notin Busy /\ UNCHANGED <<panelVars, memo>>
      BY <1>13 DEF StateFails, WatchTypeOK, Busy
    <2>2. WatchTypeOK' BY <1>13 DEF StateFails, WatchTypeOK
    <2> QED BY <1>7, <2>1, <2>2
  <1>14. CASE Heartbeat(s)
    <2>1. stream' = [stream EXCEPT ![s] = stream'[s]] /\ stream'[s].at \notin Busy /\ UNCHANGED <<panelVars, memo>>
      BY <1>14 DEF Heartbeat, WatchTypeOK, Busy
    <2>2. WatchTypeOK' BY <1>14 DEF Heartbeat, WatchTypeOK
    <2> QED BY <1>7, <2>1, <2>2
  <1> QED BY <1>2, <1>3, <1>4, <1>5, <1>6, <1>8, <1>9, <1>10, <1>11, <1>12, <1>13, <1>14 DEF Sends

LEMMA WatchStep ==
    ASSUME WatchInv, [WatchNext]_watchVars
    PROVE  WatchInv'
  <1>1. ASSUME WatchInv, UNCHANGED watchVars PROVE WatchInv'
    BY <1>1 DEF WatchInv, watchVars, WatchTypeOK, BumpsCounted, Floors, MemoOK, MemoHasBumped
  <1> QED BY <1>1, PanelStep, StreamStep DEF WatchNext

\* A stream that builds has read the generation before the tables: for any
\* number of streams, changes and failed builds.
LEMMA WatchInvariant == WatchSpec => []WatchInv
  BY WatchInitial, WatchStep, PTL DEF WatchSpec

\* The types of the event streams; the generation of the bus never outruns the
\* changes.
THEOREM WatchTypeCorrect == WatchSpec => []WatchTypeOK
  BY WatchInvariant, PTL DEF WatchInv

\* A view cut after a change was bumped for has that change in it, whoever built
\* the state it is cut from (pluginRuntime.stateFor).
THEOREM ViewHasBumpedCorrect == WatchSpec => []ViewHasBumped
  <1>1. WatchInv => ViewHasBumped BY DEF WatchInv, Floors, ViewHasBumped, Busy
  <1> QED BY <1>1, WatchInvariant, PTL

\* What is kept for the present generation has everything it was bumped for
\* (pluginRuntime.state and stateGen).
THEOREM MemoHasBumpedCorrect == WatchSpec => []MemoHasBumped
  BY WatchInvariant, PTL DEF WatchInv, MemoOK

\* A view is never older than what had been announced when it was asked for
\* (pluginRuntime.stateFor, with its one build per bump).
THEOREM ViewsFreshCorrect == WatchSpec => []ViewsFresh
  BY ViewHasBumpedCorrect, MemoHasBumpedCorrect, PTL DEF ViewsFresh

-----------------------------------------------------------------------------
(* The line that is drawn before its echo.  Every line that is still on    *)
(* its way to the page is one the typist typed (HistoryOK); those agree    *)
(* with the newest up to where the prediction begins, and from there on    *)
(* the prediction is the newest (DrawnOK).  A prediction begins only when  *)
(* nothing different is on its way.                                        *)

Chars == Letters \cup {Mode}
Predictions == [active: BOOLEAN, anchor: Nat, text: Seq(Chars), fresh: BOOLEAN, suspended: BOOLEAN]

LinesShape ==
    /\ pressed \in 0..MaxKeys /\ ignored \in 0..Ignored
    /\ typed \in Seq(Keys) /\ meant \in Seq(Seq(Chars)) /\ echoed \in Seq(Seq(Chars))
    /\ line \in Seq(Chars) /\ Len(line) + Len(typed) <= pressed
    /\ screen \in Seq(Chars) /\ Len(screen) <= pressed
    /\ \A i \in 1..Len(echoed) : Len(echoed[i]) <= pressed
    /\ Len(meant) = pressed + 1 /\ Len(meant[Len(meant)]) <= pressed

\* A prediction between two keys, when n have been pressed.
Between(e, n) ==
    /\ e \in Predictions /\ e.anchor <= n /\ Len(e.text) <= n
    /\ ~e.fresh /\ (e.suspended => ~e.active)

EchoShape == LinesShape /\ Between(echo, pressed) /\ due \in BOOLEAN

LEMMA ApplyLine ==
    ASSUME NEW l \in Seq(Chars), NEW k \in Keys
    PROVE  Apply(l, k) \in Seq(Chars) /\ Len(Apply(l, k)) <= Len(l) + 1
<1>1. CASE k = Back
    BY <1>1 DEF Apply, Front
<1>2. CASE k = Enter
    BY <1>2 DEF Apply, Front
<1>3. CASE k \notin {Back, Enter}
    <2>1. k \in Chars
        BY <1>3 DEF Keys, Chars
    <2>2. l \o <<k>> \in Seq(Chars) /\ Len(l \o <<k>>) = Len(l) + 1
        BY <2>1
    <2> QED BY <1>3, <2>2 DEF Apply
<1> QED BY <1>1, <1>2, <1>3

\* The fields of a prediction that a key is given to.
LEMMA EmptyLine == <<>> \in Seq(Chars) /\ Len(<<>>) = 0
OBVIOUS

LEMMA DrawingShape ==
    ASSUME NEW a \in Nat, NEW x \in Seq(Chars)
    PROVE  /\ Drawing(a, x) \in Predictions
           /\ Drawing(a, x).active /\ ~Drawing(a, x).suspended /\ ~Drawing(a, x).fresh
           /\ Drawing(a, x).anchor = a /\ Drawing(a, x).text = x
BY DEF Drawing, Predictions

LEMMA GivenUp ==
    ASSUME NEW d \in Predictions
    PROVE  /\ Suspended(d) \in Predictions /\ Suspended(d).anchor = d.anchor /\ Suspended(d).text = <<>>
           /\ ~Suspended(d).fresh /\ ~Suspended(d).active /\ Suspended(d).suspended
           /\ Dropped(d) \in Predictions /\ Dropped(d).anchor = d.anchor /\ Dropped(d).text = <<>>
           /\ ~Dropped(d).fresh /\ ~Dropped(d).active /\ Dropped(d).suspended = d.suspended
BY EmptyLine DEF Suspended, Dropped, NoEcho, Predictions

\* What a key is given to: the prediction there is, or one that begins.
LEMMA StartedShape ==
    ASSUME NEW e \in Predictions, ~e.suspended, screen \in Seq(Chars)
    PROVE  /\ Started(e) \in Predictions /\ Started(e).active /\ ~Started(e).suspended
           /\ e.active => Started(e) = e
           /\ ~e.active => /\ Started(e).anchor = Len(screen)
                           /\ Started(e).text = <<>> /\ Started(e).fresh
<1>1. CASE e.active
    BY <1>1 DEF Started
<1>2. CASE ~e.active
    <2>1. Started(e) = [active |-> TRUE, anchor |-> Len(screen), text |-> <<>>, fresh |-> TRUE, suspended |-> FALSE]
        BY <1>2 DEF Started, Drawing
    <2> QED BY <1>2, <2>1, EmptyLine DEF Predictions
<1> QED BY <1>1, <1>2

LEMMA PredictShape ==
    ASSUME NEW e \in Predictions, NEW k \in Keys, NEW n \in Nat, screen \in Seq(Chars),
           ~e.fresh, ~e.suspended, Len(screen) <= n, e.anchor <= n, Len(e.text) <= n
    PROVE  Between(Predict(e, k), n + 1)
<1> USE DEF Between
<1> DEFINE s == Started(e)
<1>1. /\ s \in Predictions /\ s.active /\ ~s.suspended
      /\ s.anchor <= n /\ Len(s.text) <= n
      /\ s.anchor \in Nat /\ s.text \in Seq(Chars)
    BY StartedShape, EmptyLine DEF Predictions
<1>2. e.anchor \in Nat /\ e.text \in Seq(Chars)
    BY DEF Predictions
<1> HIDE DEF s
<1>3. CASE k = Mode /\ ~e.active /\ screen = <<>>
    <2>1. Predict(e, k) = Suspended(e)
        BY <1>3 DEF Predict
    <2> QED BY <2>1, <1>2, GivenUp, EmptyLine
<1>4. CASE k = Back
    <2>1. Predict(e, k) = TakeBack(s)
        BY <1>4 DEF Predict, s, Back, Mode
    <2>2. CASE s.text # <<>>
        <3>1. Front(s.text) \in Seq(Chars) /\ Len(Front(s.text)) <= n
            BY <1>1, <2>2 DEF Front
        <3>2. Predict(e, k) = Drawing(s.anchor, Front(s.text))
            BY <2>1, <2>2 DEF TakeBack
        <3> QED BY <1>1, <3>1, <3>2, DrawingShape
    <2>3. CASE s.text = <<>> /\ s.anchor > 0
        <3>1. Predict(e, k) = Drawing(s.anchor - 1, <<>>)
            BY <2>1, <2>3 DEF TakeBack
        <3>2. s.anchor - 1 \in Nat
            BY <1>1, <2>3
        <3>3. LET d == Drawing(s.anchor - 1, <<>>) IN
              d \in Predictions /\ d.anchor = s.anchor - 1 /\ d.text = <<>> /\ ~d.fresh /\ ~d.suspended
            BY <3>2, EmptyLine, DrawingShape
        <3>4. s.anchor - 1 <= n + 1 /\ Len(<<>>) <= n + 1
            BY <1>1, EmptyLine
        <3> QED BY <3>1, <3>3, <3>4
    <2>4. CASE s.text = <<>> /\ ~(s.anchor > 0) /\ s.fresh
        <3>1. Predict(e, k) = Dropped(s)
            BY <2>1, <2>4 DEF TakeBack
        <3> QED BY <1>1, <3>1, GivenUp, EmptyLine
    <2>5. CASE s.text = <<>> /\ ~(s.anchor > 0) /\ ~s.fresh
        <3>1. Predict(e, k) = s
            BY <2>1, <2>5 DEF TakeBack
        <3> QED BY <1>1, <2>5, <3>1
    <2> QED BY <2>2, <2>3, <2>4, <2>5
<1>5. CASE k = Enter
    <2>1. Predict(e, k) = Suspended(e)
        BY <1>5 DEF Predict, Back, Enter, Mode
    <2> QED BY <2>1, <1>2, GivenUp, EmptyLine
<1>6. CASE k \notin {Back, Enter} /\ ~(k = Mode /\ ~e.active /\ screen = <<>>)
    <2>1. Predict(e, k) = Typed(s, k) /\ k \in Chars
        BY <1>6 DEF Predict, s, Keys, Chars
    <2>2. s.text \o <<k>> \in Seq(Chars) /\ Len(s.text \o <<k>>) <= n + 1
        BY <1>1, <2>1
    <2>3. CASE Predict(e, k) = Suspended(s)
        BY <2>3, <1>1, GivenUp, EmptyLine
    <2>4. CASE Predict(e, k) = Drawing(s.anchor, s.text \o <<k>>)
        <3>1. LET d == Drawing(s.anchor, s.text \o <<k>>) IN
              /\ d \in Predictions /\ d.anchor = s.anchor /\ d.text = s.text \o <<k>>
              /\ ~d.fresh /\ ~d.suspended
            BY <1>1, <2>2, DrawingShape
        <3>2. s.anchor <= n + 1
            BY <1>1
        <3> QED BY <2>2, <2>4, <3>1, <3>2
    <2> QED BY <2>1, <2>3, <2>4 DEF Typed
<1> QED BY <1>3, <1>4, <1>5, <1>6

LEMMA EchoShapeStep ==
    ASSUME EchoShape, [EchoNext]_echoVars
    PROVE  EchoShape'
<1>1. MaxKeys \in Nat /\ Ignored \in Nat /\ pressed \in Nat
    BY EchoAssumption DEF EchoShape, LinesShape
<1>2. ASSUME NEW k \in Keys, Press(k) PROVE EchoShape'
    <2> USE <1>2
    <2> DEFINE e == [echo EXCEPT !.suspended = FALSE]
    <2>1. /\ e \in Predictions /\ ~e.fresh /\ ~e.suspended /\ e.anchor <= pressed /\ Len(e.text) <= pressed
          /\ ~echo.suspended => e = echo
        BY DEF EchoShape, Between, Predictions
    <2>2. echo' = Predict(e, k) \/ UNCHANGED echo
        BY <2>1 DEF Press
    <2> HIDE DEF e
    <2>3. Between(echo', pressed + 1)
        <3>1. CASE UNCHANGED echo
            BY <1>1, <3>1 DEF EchoShape, Between, Predictions
        <3>2. CASE echo' = Predict(e, k)
            BY <1>1, <2>1, <3>2, PredictShape DEF EchoShape, LinesShape
        <3> QED BY <2>2, <3>1, <3>2
    <2>4. Apply(Meant, k) \in Seq(Chars) /\ Len(Apply(Meant, k)) <= pressed + 1
        <3>1. Meant \in Seq(Chars) /\ Len(Meant) <= pressed
            BY <1>1 DEF Meant, Last, EchoShape, LinesShape
        <3> QED BY <1>1, <3>1, ApplyLine
    <2>5. /\ meant' \in Seq(Seq(Chars)) /\ Len(meant') = pressed + 2
          /\ meant'[Len(meant')] = Apply(Meant, k)
        BY <2>4 DEF Press, EchoShape, LinesShape
    <2>6. typed' \in Seq(Keys) /\ Len(typed') = Len(typed) + 1
        BY DEF Press, EchoShape, LinesShape
    <2>7. pressed' = pressed + 1 /\ pressed' \in 0..MaxKeys
        BY <1>1 DEF Press
    <2>8. LinesShape'
        <3>1. UNCHANGED <<line, ignored, echoed, screen>>
            BY DEF Press, agentVars
        <3>2. \A i \in 1..Len(echoed) : Len(echoed[i]) <= pressed + 1
            BY <1>1 DEF EchoShape, LinesShape
        <3>3. Len(line) + Len(typed') <= pressed + 1 /\ Len(screen) <= pressed + 1
            BY <1>1, <2>6 DEF EchoShape, LinesShape
        <3>4. Len(meant'[Len(meant')]) <= pressed + 1 /\ Len(meant') = (pressed + 1) + 1
            BY <1>1, <2>4, <2>5
        <3> QED BY <2>5, <2>6, <2>7, <3>1, <3>2, <3>3, <3>4 DEF EchoShape, LinesShape
    <2> QED BY <2>3, <2>7, <2>8 DEF Press, EchoShape
<1>3. ASSUME EchoShape, echo.active, (echo' = Suspended(echo)) \/ (echo' = Dropped(echo)), UNCHANGED pressed
      PROVE  Between(echo', pressed')
    <2>1. Between(echo', pressed)
        BY <1>1, <1>3, GivenUp, EmptyLine DEF EchoShape, Between, Predictions
    <2> QED BY <1>3, <2>1
<1>4. CASE Settle \/ Expire \/ Reset
    <2>1. LinesShape'
        BY <1>4 DEF Settle, Expire, Reset, EchoShape, LinesShape, agentVars
    <2>2. Between(echo', pressed')
        BY <1>3, <1>4 DEF Settle, Expire, Reset
    <2>3. due' \in BOOLEAN
        BY <1>4 DEF Settle, Expire, Reset, EchoShape
    <2> QED BY <2>1, <2>2, <2>3 DEF EchoShape
<1>5. CASE AgentReads
    <2> USE <1>5
    <2>1. /\ Head(typed) \in Keys /\ typed' \in Seq(Keys) /\ Len(typed') = Len(typed) - 1
        BY DEF AgentReads, EchoShape, LinesShape
    <2>2. line' \in Seq(Chars) /\ Len(line') <= Len(line) + 1
        BY <2>1, ApplyLine DEF AgentReads, EchoShape, LinesShape
    <2>3. echoed' = Append(echoed, line')
        BY DEF AgentReads, EchoShape, LinesShape
    <2>4. /\ echoed' \in Seq(Seq(Chars)) /\ Len(echoed') = Len(echoed) + 1
          /\ \A i \in 1..Len(echoed') : echoed'[i] = IF i <= Len(echoed) THEN echoed[i] ELSE line'
        BY <2>2, <2>3 DEF EchoShape, LinesShape
    <2>5. LinesShape'
        <3>1. UNCHANGED <<pressed, meant, screen, ignored>>
            BY DEF AgentReads
        <3>2. Len(line') + Len(typed') <= pressed
            BY <1>1, <2>1, <2>2 DEF EchoShape, LinesShape
        <3>3. Len(line') <= pressed
            BY <1>1, <2>1, <2>2, <3>2
        <3>4. \A i \in 1..Len(echoed') : Len(echoed'[i]) <= pressed
            <4> SUFFICES ASSUME NEW i \in 1..Len(echoed') PROVE Len(echoed'[i]) <= pressed
                OBVIOUS
            <4>1. Len(echoed) \in Nat /\ (i \in 1..Len(echoed) \/ i = Len(echoed) + 1)
                BY <2>4 DEF EchoShape, LinesShape
            <4>2. CASE i \in 1..Len(echoed)
                <5>1. echoed'[i] = echoed[i]
                    BY <2>4, <4>1, <4>2
                <5>2. Len(echoed[i]) <= pressed
                    BY <4>2 DEF EchoShape, LinesShape
                <5> QED BY <5>1, <5>2
            <4>3. CASE i = Len(echoed) + 1
                <5>1. echoed'[i] = line'
                    BY <2>4, <4>1, <4>3
                <5> QED BY <3>3, <5>1
            <4> QED BY <4>1, <4>2, <4>3
        <3> QED BY <2>1, <2>2, <2>4, <3>1, <3>2, <3>4 DEF EchoShape, LinesShape
    <2> QED BY <2>5 DEF AgentReads, EchoShape
<1>6. CASE AgentIgnores
    <2>1. typed' \in Seq(Keys) /\ Len(typed') = Len(typed) - 1
        BY <1>6 DEF AgentIgnores, EchoShape, LinesShape
    <2>2. LinesShape'
        <3>1. UNCHANGED <<pressed, meant, line, echoed, screen>> /\ ignored' = ignored + 1 /\ ignored < Ignored
            BY <1>6 DEF AgentIgnores
        <3>2. Len(line) + Len(typed') <= pressed
            BY <1>1, <2>1 DEF EchoShape, LinesShape
        <3>3. ignored' \in 0..Ignored
            BY <1>1, <3>1 DEF EchoShape, LinesShape
        <3> QED BY <2>1, <3>1, <3>2, <3>3 DEF EchoShape, LinesShape
    <2> QED BY <1>6, <2>2 DEF AgentIgnores, EchoShape
<1>7. CASE PageDraws
    <2>1. /\ echoed' \in Seq(Seq(Chars)) /\ Len(echoed') = Len(echoed) - 1
          /\ \A i \in 1..Len(echoed') : echoed'[i] = echoed[i + 1]
          /\ screen' = echoed[1] /\ 1 \in 1..Len(echoed)
        BY <1>7 DEF PageDraws, EchoShape, LinesShape
    <2>2. screen' \in Seq(Chars) /\ Len(screen') <= pressed
        BY <2>1 DEF EchoShape, LinesShape
    <2>3. LinesShape'
        <3>1. UNCHANGED <<pressed, meant, typed, line, ignored>>
            BY <1>7 DEF PageDraws, agentVars
        <3>2. \A i \in 1..Len(echoed') : i + 1 \in 1..Len(echoed)
            BY <2>1 DEF EchoShape, LinesShape
        <3>3. \A i \in 1..Len(echoed') : Len(echoed'[i]) <= pressed
            BY <2>1, <3>2 DEF EchoShape, LinesShape
        <3> QED BY <2>1, <2>2, <3>1, <3>3 DEF EchoShape, LinesShape
    <2>4. due' \in BOOLEAN
        BY <1>7 DEF PageDraws
    <2> QED BY <1>7, <2>3, <2>4 DEF PageDraws, EchoShape
<1>8. CASE UNCHANGED echoVars
    BY <1>8 DEF echoVars, EchoShape, LinesShape
<1> QED BY <1>2, <1>4, <1>5, <1>6, <1>7, <1>8 DEF EchoNext, Draws

LEMMA EchoShapeInitial == EchoInit => EchoShape
<1>1. Between(NoEcho, 0)
    BY EmptyLine DEF NoEcho, Predictions, Between
<1>2. <<<<>>>> \in Seq(Seq(Chars)) /\ Len(<<<<>>>>) = 1 /\ <<<<>>>>[1] = <<>>
    BY EmptyLine
<1>3. MaxKeys \in Nat /\ Ignored \in Nat
    BY EchoAssumption
<1>4. <<>> \in Seq(Keys) /\ <<>> \in Seq(Seq(Chars))
    OBVIOUS
<1>5. EchoInit => LinesShape
    BY <1>2, <1>3, <1>4, EmptyLine DEF EchoInit, LinesShape
<1> QED BY <1>1, <1>5 DEF EchoInit, EchoShape

LEMMA EchoShapeInvariant == EchoSpec => []EchoShape
BY EchoShapeInitial, EchoShapeStep, PTL DEF EchoSpec

LEMMA ShapeIsTyped == EchoShape => EchoTypeOK
<1> SUFFICES ASSUME EchoShape PROVE EchoTypeOK
    OBVIOUS
<1>1. ASSUME NEW l \in Seq(Chars), Len(l) <= MaxKeys
      PROVE  l \in Lines
    <2>1. l \in [1..Len(l) -> Chars] /\ Len(l) \in 0..MaxKeys
        BY <1>1, EchoAssumption
    <2> QED BY <2>1 DEF Lines, Chars
<1>2. MaxKeys \in Nat /\ pressed \in 0..MaxKeys
    BY EchoAssumption DEF EchoShape, LinesShape
<1>3. Meant \in Seq(Chars) /\ Len(Meant) <= MaxKeys
    BY <1>2 DEF Meant, Last, EchoShape, LinesShape
<1>4. line \in Seq(Chars) /\ Len(line) <= MaxKeys /\ screen \in Seq(Chars) /\ Len(screen) <= MaxKeys
    BY <1>2 DEF EchoShape, LinesShape
<1>5. echo \in Predictions /\ echo.text \in Seq(Chars) /\ Len(echo.text) <= MaxKeys /\ echo.anchor \in 0..MaxKeys
    BY <1>2 DEF EchoShape, Between, Predictions
<1>6. echo.text \in Lines
    BY <1>1, <1>5
<1>7. echo \in [active: BOOLEAN, anchor: 0..MaxKeys, text: Lines, fresh: BOOLEAN, suspended: BOOLEAN]
    BY <1>5, <1>6 DEF Predictions
<1> QED BY <1>1, <1>3, <1>4, <1>7 DEF EchoShape, LinesShape, EchoTypeOK

\* The lines and the prediction have their types, and no line is longer than what
\* has been typed (EchoPredictor).
THEOREM EchoTypeCorrect == EchoSpec => []EchoTypeOK
BY EchoShapeInvariant, ShapeIsTyped, PTL

AtAgent == Len(meant) - Len(typed)        \* the newest line the agent has
AtPage == AtAgent - Len(echoed)         \* the one the page shows
Waiting == AtPage..Len(meant)

HistoryOK ==
    /\ AtPage >= 1 /\ screen = meant[AtPage] /\ line = meant[AtAgent]
    /\ \A i \in 1..Len(echoed) : echoed[i] = meant[AtPage + i]
    /\ \A i \in 1..Len(typed) : meant[AtAgent + i] = Apply(meant[AtAgent + i - 1], typed[i])

Agree(l, m, n) == n <= Len(l) /\ n <= Len(m) /\ \A j \in 1..n : l[j] = m[j]

\* The line m is what e predicts, and nothing that waits changes what is before it.
Predicts(e, m) ==
    /\ \A i \in Waiting : Agree(meant[i], m, e.anchor)
    /\ Len(m) = e.anchor + Len(e.text)
    /\ \A j \in 1..Len(e.text) : m[e.anchor + j] = e.text[j]

Quiet(m) == \A i \in Waiting : meant[i] = m

DrawnOK(e, m) == IF e.active THEN Predicts(e, m) ELSE e.suspended \/ Quiet(m)

EchoTruth == ignored = 0 => HistoryOK /\ DrawnOK(echo, Meant)

\* What the typist's newest line and those that wait are, and what becomes of them
\* when a key is pressed.
LEMMA LinesKnown ==
    ASSUME EchoShape, HistoryOK
    PROVE  /\ Len(meant) \in Nat /\ AtAgent \in Nat /\ AtPage \in Nat
           /\ 1 <= AtPage /\ AtPage <= AtAgent /\ AtAgent <= Len(meant)
           /\ Waiting \subseteq 1..Len(meant) /\ Len(meant) \in Waiting /\ AtPage \in Waiting
           /\ Meant = meant[Len(meant)]
           /\ \A i \in 1..Len(meant) : meant[i] \in Seq(Chars)
<1>1. /\ Len(meant) \in Nat /\ Len(typed) \in Nat /\ Len(echoed) \in Nat
      /\ \A i \in 1..Len(meant) : meant[i] \in Seq(Chars)
    BY DEF EchoShape, LinesShape
<1>2. AtAgent = Len(meant) - Len(typed) /\ AtPage = AtAgent - Len(echoed) /\ AtPage >= 1
    BY DEF AtAgent, AtPage, HistoryOK
<1>3. /\ AtAgent \in Nat /\ AtPage \in Nat
      /\ 1 <= AtPage /\ AtPage <= AtAgent /\ AtAgent <= Len(meant)
    BY <1>1, <1>2
<1>4. Waiting = AtPage..Len(meant)
    BY DEF Waiting
<1>5. Waiting \subseteq 1..Len(meant) /\ Len(meant) \in Waiting /\ AtPage \in Waiting
    BY <1>1, <1>3, <1>4
<1> QED BY <1>1, <1>3, <1>5 DEF Meant, Last

\* What pressing a key does to the lines.
LEMMA LinesPressed ==
    ASSUME EchoShape, HistoryOK, NEW k \in Keys, Press(k)
    PROVE  /\ HistoryOK' /\ AtPage' = AtPage /\ Len(meant') = Len(meant) + 1
           /\ Waiting' = Waiting \cup {Len(meant) + 1}
           /\ \A i \in Waiting : meant'[i] = meant[i]
           /\ meant'[Len(meant) + 1] = Apply(Meant, k) /\ Meant' = Apply(Meant, k)
<1> DEFINE n == Len(meant)
<1>0. /\ meant' = meant \o <<Apply(Meant, k)>> /\ typed' = typed \o <<k>>
      /\ UNCHANGED <<line, ignored, echoed, screen>>
    BY DEF Press, agentVars
<1>1. /\ n \in Nat /\ AtAgent \in Nat /\ AtPage \in Nat
      /\ 1 <= AtPage /\ AtPage <= AtAgent /\ AtAgent <= n
      /\ Waiting \subseteq 1..n /\ Meant = meant[n] /\ Meant \in Seq(Chars)
      /\ Len(typed) \in Nat /\ Len(echoed) \in Nat
    BY LinesKnown DEF EchoShape, LinesShape
<1>2. Apply(Meant, k) \in Seq(Chars)
    BY <1>1, ApplyLine
<1>3. /\ Len(meant') = n + 1 /\ meant'[n + 1] = Apply(Meant, k)
      /\ \A i \in 1..n : meant'[i] = meant[i]
    <2>1. meant \in Seq(Seq(Chars)) /\ meant' = Append(meant, Apply(Meant, k))
        BY <1>0, <1>2 DEF EchoShape, LinesShape
    <2> QED BY <1>2, <2>1
<1>4. /\ Len(typed') = Len(typed) + 1 /\ typed'[Len(typed) + 1] = k
      /\ \A i \in 1..Len(typed) : typed'[i] = typed[i]
    BY <1>0 DEF EchoShape, LinesShape
<1>5. AtAgent' = AtAgent /\ AtPage' = AtPage
    <2>1. AtAgent' = Len(meant') - Len(typed') /\ AtAgent = n - Len(typed)
        BY DEF AtAgent
    <2>2. AtPage' = AtAgent' - Len(echoed) /\ AtPage = AtAgent - Len(echoed)
        BY <1>0 DEF AtPage
    <2> QED BY <1>1, <1>3, <1>4, <2>1, <2>2
<1>6. AtAgent + Len(typed) = n /\ AtPage + Len(echoed) = AtAgent
    BY <1>1 DEF AtAgent, AtPage
<1> HIDE DEF n
<1>7. Waiting' = Waiting \cup {n + 1}
    <2>1. Waiting' = AtPage'..Len(meant') /\ Waiting = AtPage..n
        BY DEF Waiting, n
    <2>2. Waiting' = AtPage..(n + 1)
        BY <1>3, <1>5, <2>1
    <2>3. \A x : x \in AtPage..(n + 1) <=> x \in AtPage..n \/ x = n + 1
        BY <1>1
    <2> QED BY <2>1, <2>2, <2>3
<1>8. meant'[AtPage] = meant[AtPage] /\ meant'[AtAgent] = meant[AtAgent]
    BY <1>1, <1>3
<1>9. \A i \in 1..Len(echoed) : echoed[i] = meant'[AtPage + i]
    <2>1. \A i \in 1..Len(echoed) : AtPage + i \in 1..n
        BY <1>1, <1>6
    <2> QED BY <1>3, <2>1 DEF HistoryOK
<1>10. ASSUME NEW i \in 1..Len(typed')
       PROVE  meant'[AtAgent + i] = Apply(meant'[AtAgent + i - 1], typed'[i])
    <2>1. CASE i \in 1..Len(typed)
        <3>1. AtAgent + i \in 1..n /\ AtAgent + i - 1 \in 1..n
            BY <1>1, <1>6, <2>1
        <3> QED BY <1>3, <1>4, <2>1, <3>1 DEF HistoryOK
    <2>2. CASE i = Len(typed) + 1
        <3>1. AtAgent + i = n + 1 /\ AtAgent + i - 1 = n
            BY <1>1, <1>6, <2>2
        <3>2. meant'[n] = Meant
            BY <1>1, <1>3
        <3>3. typed'[i] = k
            BY <1>4, <2>2
        <3> QED BY <1>3, <3>1, <3>2, <3>3
    <2> QED BY <1>1, <1>4, <2>1, <2>2
<1>11. HistoryOK'
    BY <1>0, <1>1, <1>5, <1>8, <1>9, <1>10 DEF HistoryOK
<1>12. \A i \in Waiting : meant'[i] = meant[i]
    BY <1>1, <1>3
<1>13. Meant' = meant'[n + 1]
    BY <1>3 DEF Meant, Last, n
<1> QED BY <1>3, <1>5, <1>7, <1>11, <1>12, <1>13 DEF n

\* A prediction that a key is given to predicts the newest line; if it has just
\* begun, nothing else is on its way.
LEMMA StartPredicts ==
    ASSUME EchoShape, HistoryOK, NEW e \in Predictions, ~e.suspended, ~e.fresh, DrawnOK(e, Meant)
    PROVE  /\ Predicts(Started(e), Meant)
           /\ Started(e).fresh => Quiet(Meant)
           /\ ~e.active => Meant = screen
<1>1. CASE e.active
    BY <1>1, StartedShape DEF DrawnOK, EchoShape, LinesShape
<1>2. CASE ~e.active
    <2>1. Quiet(Meant)
        BY <1>2 DEF DrawnOK
    <2>2. Meant = screen
        BY <2>1, LinesKnown DEF Quiet, HistoryOK
    <2>3. Started(e).anchor = Len(Meant) /\ Started(e).text = <<>>
        BY <1>2, <2>2, StartedShape DEF EchoShape, LinesShape
    <2>4. Meant \in Seq(Chars)
        BY LinesKnown DEF Waiting
    <2>5. \A i \in Waiting : Agree(meant[i], Meant, Len(Meant))
        BY <2>1, <2>4 DEF Quiet, Agree
    <2> QED BY <1>2, <2>1, <2>2, <2>3, <2>4, <2>5 DEF Predicts
<1> QED BY <1>1, <1>2

\* A line without its last cell.
LEMMA FrontLine ==
    ASSUME NEW q \in Seq(Chars), Len(q) > 0
    PROVE  /\ Front(q) \in Seq(Chars) /\ Len(Front(q)) = Len(q) - 1
           /\ \A j \in 1..Len(q) - 1 : Front(q)[j] = q[j]
BY DEF Front

\* A key given to a prediction of the newest line makes a prediction of the line
\* that the key makes of it.
LEMMA KeyPredicted ==
    ASSUME EchoShape, HistoryOK, ~LateSwitch, NEW k \in Keys, Press(k),
           NEW e \in Predictions, ~e.suspended, ~e.fresh, e.active = echo.active,
           DrawnOK(e, Meant), NEW p, p = Predict(e, k)
    PROVE  DrawnOK(p, Meant)'
<1>0. PICK s, m : s = Started(e) /\ m = Apply(Meant, k)
    OBVIOUS
<1> DEFINE W == Waiting \cup {Len(meant) + 1}
<1>1. /\ s \in Predictions /\ s.active /\ ~s.suspended
      /\ s.anchor \in Nat /\ s.text \in Seq(Chars)
    BY <1>0, StartedShape DEF Predictions, EchoShape, LinesShape
<1>2. /\ Predicts(s, Meant) /\ (s.fresh => Quiet(Meant))
      /\ ~e.active => Meant = screen
    BY <1>0, StartPredicts
<1>3. /\ Meant \in Seq(Chars) /\ m \in Seq(Chars)
      /\ \A i \in Waiting : meant[i] \in Seq(Chars)
      /\ Len(meant) \in Nat /\ Waiting \subseteq 1..Len(meant)
    BY <1>0, LinesKnown, ApplyLine
<1>4. /\ Waiting' = W /\ Meant' = m /\ meant'[Len(meant) + 1] = m
      /\ \A i \in Waiting : meant'[i] = meant[i]
    BY <1>0, LinesPressed
<1>5. ASSUME NEW a \in Nat, NEW x \in Seq(Chars), a <= s.anchor,
             Len(m) = a + Len(x), \A j \in 1..Len(x) : m[a + j] = x[j],
             \A j \in 1..a : m[j] = Meant[j]
      PROVE  DrawnOK(Drawing(a, x), Meant)'
    <2>1. ASSUME NEW i \in Waiting PROVE Agree(meant[i], m, a)
        <3>1. Agree(meant[i], Meant, s.anchor)
            BY <1>2 DEF Predicts
        <3> QED BY <1>1, <1>3, <1>5, <3>1 DEF Agree
    <2>2. Agree(m, m, a)
        BY <1>3, <1>5 DEF Agree
    <2>3. \A i \in W : Agree(meant'[i], m, a)
        BY <1>4, <2>1, <2>2
    <2>4. /\ Drawing(a, x).anchor = a /\ Drawing(a, x).text = x /\ Drawing(a, x).active
        BY DrawingShape
    <2>5. Predicts(Drawing(a, x), Meant)'
        BY <1>4, <1>5, <2>3, <2>4 DEF Predicts
    <2> QED BY <2>4, <2>5 DEF DrawnOK
<1>6. ASSUME NEW d \in Predictions, p = Suspended(d) PROVE DrawnOK(p, Meant)'
    BY <1>6, GivenUp DEF DrawnOK
<1>7. /\ Len(Meant) = s.anchor + Len(s.text)
      /\ \A j \in 1..Len(s.text) : Meant[s.anchor + j] = s.text[j]
    BY <1>2 DEF Predicts
<1> HIDE DEF W
<1>8. CASE k = Mode /\ ~e.active /\ screen = <<>>
    <2>1. p = Suspended(e)
        BY <1>8 DEF Predict
    <2> QED BY <1>6, <2>1
<1>9. CASE k = Enter
    <2>1. p = Suspended(e)
        BY <1>9 DEF Predict, Back, Enter, Mode
    <2> QED BY <1>6, <2>1
<1>10. CASE k = Back
    <2>1. p = TakeBack(s) /\ m = IF Meant = <<>> THEN Meant ELSE Front(Meant)
        BY <1>0, <1>10 DEF Predict, Apply, Back, Mode
    <2>2. CASE s.text # <<>>
        <3>1. Len(s.text) \in Nat /\ Len(s.text) > 0
            BY <1>1, <2>2
        <3>2. m = Front(Meant)
            BY <1>1, <1>3, <1>7, <2>1, <3>1
        <3>3. Len(m) = s.anchor + Len(s.text) - 1 /\ \A j \in 1..Len(m) : m[j] = Meant[j]
            <4>1. Len(Meant) \in Nat /\ Len(Meant) > 0
                BY <1>1, <1>7, <3>1
            <4>2. Len(m) = Len(Meant) - 1 /\ \A j \in 1..Len(Meant) - 1 : m[j] = Meant[j]
                BY <1>3, <3>2, <4>1, FrontLine
            <4>3. \A j \in 1..Len(m) : j \in 1..Len(Meant) - 1
                BY <4>1, <4>2
            <4>4. Len(m) = s.anchor + Len(s.text) - 1
                BY <1>1, <1>7, <3>1, <4>2
            <4> QED BY <4>2, <4>3, <4>4
        <3>4. PICK x : x = Front(s.text)
            OBVIOUS
        <3>5. /\ x \in Seq(Chars) /\ Len(x) = Len(s.text) - 1
              /\ \A j \in 1..Len(s.text) - 1 : x[j] = s.text[j]
            BY <1>1, <3>1, <3>4, FrontLine
        <3>6. Len(m) = s.anchor + Len(x) /\ \A j \in 1..s.anchor : m[j] = Meant[j]
            BY <1>1, <3>1, <3>3, <3>5
        <3>7. ASSUME NEW j \in 1..Len(x) PROVE m[s.anchor + j] = x[j]
            <4>1. s.anchor + j \in 1..Len(m) /\ j \in 1..Len(s.text) /\ j \in 1..Len(s.text) - 1
                BY <1>1, <3>1, <3>3, <3>5
            <4> QED BY <1>7, <3>3, <3>5, <4>1
        <3>8. p = Drawing(s.anchor, x)
            BY <2>1, <2>2, <3>4 DEF TakeBack
        <3>9. s.anchor <= s.anchor
            BY <1>1
        <3> QED BY <1>1, <1>5, <3>5, <3>6, <3>7, <3>8, <3>9
    <2>3. CASE s.text = <<>> /\ s.anchor > 0
        <3>1. Len(Meant) = s.anchor
            BY <1>1, <1>7, <2>3, EmptyLine
        <3>2. m = Front(Meant)
            BY <1>3, <2>1, <2>3, <3>1, EmptyLine
        <3>3. Len(m) = s.anchor - 1 /\ \A j \in 1..s.anchor - 1 : m[j] = Meant[j]
            BY <1>1, <1>3, <2>3, <3>1, <3>2, FrontLine
        <3>4. p = Drawing(s.anchor - 1, <<>>)
            BY <2>1, <2>3 DEF TakeBack
        <3>5. s.anchor - 1 \in Nat /\ s.anchor - 1 <= s.anchor
            BY <1>1, <2>3
        <3>6. /\ <<>> \in Seq(Chars) /\ Len(m) = (s.anchor - 1) + Len(<<>>)
              /\ \A j \in 1..Len(<<>>) : m[(s.anchor - 1) + j] = <<>>[j]
            BY <3>3, <3>5, EmptyLine
        <3> QED BY <1>5, <3>3, <3>4, <3>5, <3>6
    <2>4. CASE s.text = <<>> /\ ~(s.anchor > 0)
        <3>1. Len(Meant) = 0 /\ Meant = <<>> /\ m = Meant /\ s.anchor = 0
            BY <1>1, <1>3, <1>7, <2>1, <2>4, EmptyLine
        <3>2. CASE s.fresh
            <4>1. p = Dropped(s)
                BY <2>1, <2>4, <3>2 DEF TakeBack
            <4>2. \A i \in W : meant'[i] = m
                BY <1>2, <1>4, <3>1, <3>2 DEF Quiet, W
            <4>3. Quiet(Meant)'
                BY <1>4, <4>2 DEF Quiet
            <4> QED BY <1>1, <4>1, <4>3, GivenUp DEF DrawnOK
        <3>3. CASE ~s.fresh
            <4>1. p = s
                BY <2>1, <2>4, <3>3 DEF TakeBack
            <4>2. \A i \in Waiting : Agree(meant[i], m, s.anchor)
                BY <1>2, <3>1 DEF Predicts
            <4>3. Agree(m, m, s.anchor)
                BY <1>3, <3>1 DEF Agree
            <4>4. \A i \in W : Agree(meant'[i], m, s.anchor)
                BY <1>4, <4>2, <4>3 DEF W
            <4>5. Predicts(s, Meant)'
                BY <1>4, <1>7, <3>1, <4>4 DEF Predicts
            <4> QED BY <1>1, <4>1, <4>5 DEF DrawnOK
        <3> QED BY <3>2, <3>3
    <2> QED BY <2>2, <2>3, <2>4
<1>11. CASE k \notin {Back, Enter} /\ ~(k = Mode /\ ~e.active /\ screen = <<>>)
    <2>1. p = Typed(s, k) /\ k \in Chars
        BY <1>0, <1>11 DEF Predict, Keys, Chars
    <2>2. ~(k = Mode /\ Meant = <<>>)
        BY <1>2, <1>11 DEF Press
    <2>3. m = Meant \o <<k>>
        BY <1>0, <1>11, <2>2 DEF Apply
    <2>4. /\ Len(m) = Len(Meant) + 1 /\ m[Len(Meant) + 1] = k
          /\ \A j \in 1..Len(Meant) : m[j] = Meant[j]
        BY <1>3, <2>1, <2>3
    <2>5. PICK x : x = s.text \o <<k>>
        OBVIOUS
    <2>6. /\ x \in Seq(Chars) /\ Len(x) = Len(s.text) + 1 /\ x[Len(s.text) + 1] = k
          /\ \A j \in 1..Len(s.text) : x[j] = s.text[j]
        BY <1>1, <2>1, <2>5
    <2>7. Len(s.text) \in Nat /\ Len(Meant) \in Nat /\ s.anchor <= s.anchor
        BY <1>1, <1>3
    <2>8. Len(m) = s.anchor + Len(x) /\ \A j \in 1..s.anchor : m[j] = Meant[j]
        <3>1. Len(m) = s.anchor + Len(x)
            BY <1>1, <1>7, <2>4, <2>6, <2>7
        <3>2. \A j \in 1..s.anchor : j \in 1..Len(Meant)
            BY <1>1, <1>7, <2>7
        <3> QED BY <2>4, <3>1, <3>2
    <2>9. \A j \in 1..Len(x) : m[s.anchor + j] = x[j]
        <3> SUFFICES ASSUME NEW j \in 1..Len(x) PROVE m[s.anchor + j] = x[j]
            OBVIOUS
        <3>1. CASE j \in 1..Len(s.text)
            <4>1. s.anchor + j \in 1..Len(Meant)
                BY <1>1, <1>7, <2>7, <3>1
            <4> QED BY <1>7, <2>4, <2>6, <3>1, <4>1
        <3>2. CASE j = Len(s.text) + 1
            <4>1. s.anchor + j = Len(Meant) + 1
                BY <1>1, <1>7, <2>7, <3>2
            <4> QED BY <2>4, <2>6, <3>2, <4>1
        <3> QED BY <2>6, <2>7, <3>1, <3>2
    <2>10. CASE p = Suspended(s)
        BY <1>1, <1>6, <2>10
    <2>11. CASE p = Drawing(s.anchor, x)
        BY <1>1, <1>5, <2>6, <2>7, <2>8, <2>9, <2>11
    <2> QED BY <2>1, <2>5, <2>10, <2>11 DEF Typed
<1> QED BY <1>8, <1>9, <1>10, <1>11

\* What the page draws is true to what is typed, if the round trip is never longer
\* than measured, nothing drops a prediction under way, and no mode switch is typed
\* on an input predicted to be empty.
LEMMA EchoTruthStep ==
    ASSUME Prompt, ~Resets, ~LateSwitch, EchoShape, EchoTruth, [EchoNext]_echoVars
    PROVE  EchoTruth'
<1> SUFFICES ASSUME ignored' = 0 PROVE (HistoryOK /\ DrawnOK(echo, Meant))'
    BY DEF EchoTruth
<1>0. /\ ignored = 0
      /\ Len(meant) \in Nat /\ Len(typed) \in Nat /\ Len(echoed) \in Nat /\ ignored \in Nat
    <2>1. ignored \in Nat /\ Len(meant) \in Nat /\ Len(typed) \in Nat /\ Len(echoed) \in Nat
        BY EchoAssumption DEF EchoShape, LinesShape
    <2>2. CASE AgentIgnores
        BY <2>1, <2>2 DEF AgentIgnores
    <2>3. CASE ~AgentIgnores
        <3>1. ASSUME NEW k \in Keys, Press(k) PROVE ignored' = ignored
            BY <3>1 DEF Press, agentVars
        <3>2. CASE AgentReads \/ PageDraws \/ Settle \/ Expire \/ Reset \/ UNCHANGED echoVars
            BY <2>1, <3>2 DEF AgentReads, PageDraws, Settle, Expire, Reset, agentVars, echoVars
        <3> QED BY <2>1, <2>3, <3>1, <3>2 DEF EchoNext, Draws
    <2> QED BY <2>1, <2>2, <2>3
<1>1. HistoryOK /\ DrawnOK(echo, Meant)
    BY <1>0 DEF EchoTruth
<1>2. echo \in Predictions /\ ~echo.fresh
    BY DEF EchoShape, Between
\* When everything has come back, the page shows the newest line and nothing waits.
<1>3. CaughtUp => Quiet(Meant) /\ Meant = screen
    <2> SUFFICES ASSUME CaughtUp PROVE Quiet(Meant) /\ Meant = screen
        OBVIOUS
    <2>1. AtPage = Len(meant)
        BY <1>0 DEF CaughtUp, AtPage, AtAgent
    <2>2. Waiting = {Len(meant)}
        BY <1>0, <2>1 DEF Waiting
    <2> QED BY <1>1, <2>1, <2>2, LinesKnown DEF Quiet, HistoryOK
<1>4. ASSUME NEW k \in Keys, Press(k) PROVE (HistoryOK /\ DrawnOK(echo, Meant))'
    <2>1. HistoryOK'
        BY <1>1, <1>4, LinesPressed
    <2>2. ASSUME NEW e \in Predictions, ~e.suspended, ~e.fresh, e.active = echo.active, DrawnOK(e, Meant),
                 echo' = Predict(e, k)
          PROVE  DrawnOK(echo, Meant)'
        <3>1. PICK p : p = Predict(e, k)
            OBVIOUS
        <3>2. DrawnOK(p, Meant)'
            BY <1>1, <1>4, <2>2, <3>1, KeyPredicted
        <3>3. echo' = p
            BY <2>2, <3>1
        <3> QED BY <3>2, <3>3 DEF DrawnOK, Predicts
    <2>3. CASE ~echo.suspended /\ echo' = Predict(echo, k)
        BY <1>1, <1>2, <2>1, <2>2, <2>3
    <2>4. CASE echo.suspended /\ UNCHANGED echo
        <3>1. echo' = echo /\ ~echo.active /\ echo.suspended
            BY <2>4 DEF EchoShape, Between
        <3> QED BY <2>1, <3>1 DEF DrawnOK
    <2>5. CASE echo.suspended /\ CaughtUp /\ echo' = Predict([echo EXCEPT !.suspended = FALSE], k)
        <3> DEFINE e == [echo EXCEPT !.suspended = FALSE]
        <3>1. e \in Predictions /\ ~e.suspended /\ ~e.fresh /\ e.active = echo.active /\ ~e.active
            BY <1>2, <2>5 DEF EchoShape, Between, Predictions
        <3>2. DrawnOK(e, Meant)
            BY <1>3, <2>5, <3>1 DEF DrawnOK
        <3> HIDE DEF e
        <3>3. echo' = Predict(e, k)
            BY <2>5 DEF e
        <3> QED BY <2>1, <2>2, <3>1, <3>2, <3>3
    <2>6. \/ ~echo.suspended /\ echo' = Predict(echo, k)
          \/ echo.suspended /\ UNCHANGED echo
          \/ echo.suspended /\ CaughtUp /\ echo' = Predict([echo EXCEPT !.suspended = FALSE], k)
        BY <1>4 DEF Press
    <2> QED BY <2>1, <2>3, <2>4, <2>5, <2>6
<1>5. CASE Settle \/ Expire \/ Reset
    <2>1. UNCHANGED <<meant, typed, echoed, screen, line>> /\ CaughtUp
        BY <1>5 DEF Settle, Expire, Reset, agentVars
    <2>2. HistoryOK' /\ Quiet(Meant)'
        BY <1>1, <1>3, <2>1 DEF HistoryOK, AtPage, AtAgent, Quiet, Waiting, Meant, Last
    <2>3. echo' = Suspended(echo) \/ echo' = Dropped(echo)
        BY <1>5 DEF Settle, Expire, Reset
    <2>4. ~echo'.active
        BY <1>2, <2>3, GivenUp
    <2> QED BY <2>2, <2>4 DEF DrawnOK
<1>6. CASE AgentReads
    <2>1. /\ typed \in Seq(Keys) /\ echoed \in Seq(Seq(Chars)) /\ line \in Seq(Chars) /\ Len(typed) > 0
          /\ UNCHANGED <<meant, screen, echo>>
          /\ typed' = Tail(typed) /\ echoed' = echoed \o <<line'>> /\ line' = Apply(line, Head(typed))
        BY <1>6 DEF AgentReads, EchoShape, LinesShape
    <2>2. /\ Len(typed') = Len(typed) - 1 /\ typed[1] = Head(typed) /\ Head(typed) \in Keys
          /\ \A i \in 1..Len(typed') : typed'[i] = typed[i + 1] /\ i + 1 \in 1..Len(typed)
        BY <2>1
    <2>3. line' \in Seq(Chars)
        BY <2>1, <2>2, ApplyLine
    <2>4. /\ Len(echoed') = Len(echoed) + 1 /\ echoed'[Len(echoed) + 1] = line'
          /\ \A i \in 1..Len(echoed) : echoed'[i] = echoed[i]
        BY <2>1, <2>3
    <2>5. /\ AtAgent' = AtAgent + 1 /\ AtPage' = AtPage /\ AtPage + Len(echoed) = AtAgent
          /\ AtAgent \in Nat /\ AtPage \in Nat
        <3>1. AtAgent = Len(meant) - Len(typed) /\ AtAgent' = Len(meant') - Len(typed')
            BY DEF AtAgent
        <3>2. AtPage = AtAgent - Len(echoed) /\ AtPage' = AtAgent' - Len(echoed')
            BY DEF AtPage
        <3>3. AtAgent \in Nat /\ AtPage \in Nat
            BY <1>1, LinesKnown
        <3> QED BY <1>0, <2>1, <2>2, <2>4, <3>1, <3>2, <3>3
    <2>6. line' = meant[AtAgent + 1]
        <3>1. meant[AtAgent + 1] = Apply(meant[AtAgent + 1 - 1], typed[1]) /\ AtAgent + 1 - 1 = AtAgent
            <4>1. 1 \in 1..Len(typed) /\ AtAgent + 1 - 1 = AtAgent
                BY <1>0, <2>1, <2>5
            <4> QED BY <1>1, <4>1 DEF HistoryOK
        <3> QED BY <1>1, <2>1, <2>2, <3>1 DEF HistoryOK
    <2>7. ASSUME NEW i \in 1..Len(echoed') PROVE echoed'[i] = meant[AtPage + i]
        <3>1. CASE i \in 1..Len(echoed)
            BY <1>1, <2>4, <3>1 DEF HistoryOK
        <3>2. CASE i = Len(echoed) + 1
            <4>1. AtPage + i = AtAgent + 1
                BY <1>0, <2>5, <3>2
            <4> QED BY <2>4, <2>6, <3>2, <4>1
        <3> QED BY <1>0, <2>4, <3>1, <3>2
    <2>8. ASSUME NEW i \in 1..Len(typed')
          PROVE  meant[AtAgent + 1 + i] = Apply(meant[AtAgent + 1 + i - 1], typed'[i])
        <3>1. /\ AtAgent + 1 + i = AtAgent + (i + 1) /\ AtAgent + 1 + i - 1 = AtAgent + (i + 1) - 1
              /\ i + 1 \in 1..Len(typed) /\ typed'[i] = typed[i + 1]
            BY <2>2, <2>5
        <3>2. meant[AtAgent + (i + 1)] = Apply(meant[AtAgent + (i + 1) - 1], typed[i + 1])
            BY <1>1, <3>1 DEF HistoryOK
        <3> QED BY <3>1, <3>2
    <2>9. HistoryOK'
        BY <1>1, <2>1, <2>5, <2>6, <2>7, <2>8 DEF HistoryOK
    <2>10. Waiting' = Waiting /\ Meant' = Meant
        BY <2>1, <2>5 DEF Waiting, Meant, Last
    <2>11. DrawnOK(echo, Meant)'
        BY <1>1, <2>1, <2>10 DEF DrawnOK, Predicts, Quiet
    <2> QED BY <2>9, <2>11
<1>7. CASE AgentIgnores
    BY <1>0, <1>7 DEF AgentIgnores
<1>8. CASE PageDraws
    <2>1. /\ echoed \in Seq(Seq(Chars)) /\ Len(echoed) > 0 /\ echoed' = Tail(echoed) /\ screen' = Head(echoed)
          /\ UNCHANGED <<meant, typed, line, echo>>
        BY <1>8 DEF PageDraws, EchoShape, LinesShape, agentVars
    <2>2. /\ Len(echoed') = Len(echoed) - 1 /\ screen' = echoed[1]
          /\ \A i \in 1..Len(echoed') : echoed'[i] = echoed[i + 1] /\ i + 1 \in 1..Len(echoed)
        BY <2>1
    <2>3. /\ AtAgent' = AtAgent /\ AtPage' = AtPage + 1 /\ AtPage \in Nat /\ AtAgent \in Nat
        <3>1. AtAgent = Len(meant) - Len(typed) /\ AtAgent' = Len(meant') - Len(typed')
            BY DEF AtAgent
        <3>2. AtPage = AtAgent - Len(echoed) /\ AtPage' = AtAgent' - Len(echoed')
            BY DEF AtPage
        <3>3. AtAgent \in Nat /\ AtPage \in Nat
            BY <1>1, LinesKnown
        <3> QED BY <1>0, <2>1, <2>2, <3>1, <3>2, <3>3
    <2>4. screen' = meant[AtPage + 1]
        <3>1. 1 \in 1..Len(echoed)
            BY <2>1
        <3>2. echoed[1] = meant[AtPage + 1]
            BY <1>1, <3>1 DEF HistoryOK
        <3> QED BY <2>2, <3>2
    <2>5. ASSUME NEW i \in 1..Len(echoed') PROVE echoed'[i] = meant[AtPage + 1 + i]
        <3>1. AtPage + 1 + i = AtPage + (i + 1) /\ i + 1 \in 1..Len(echoed) /\ echoed'[i] = echoed[i + 1]
            BY <1>0, <2>1, <2>2, <2>3
        <3>2. echoed[i + 1] = meant[AtPage + (i + 1)]
            BY <1>1, <3>1 DEF HistoryOK
        <3> QED BY <3>1, <3>2
    <2>6. HistoryOK'
        <3>1. /\ AtPage' >= 1 /\ line' = meant'[AtAgent']
              /\ \A i \in 1..Len(typed') : meant'[AtAgent' + i] = Apply(meant'[AtAgent' + i - 1], typed'[i])
            BY <1>1, <2>1, <2>3 DEF HistoryOK
        <3>2. screen' = meant'[AtPage'] /\ \A i \in 1..Len(echoed') : echoed'[i] = meant'[AtPage' + i]
            BY <2>1, <2>3, <2>4, <2>5
        <3> QED BY <3>1, <3>2 DEF HistoryOK
    <2>7. Waiting' \subseteq Waiting /\ Meant' = Meant
        BY <1>0, <2>1, <2>3 DEF Waiting, Meant, Last
    <2>8. DrawnOK(echo, Meant)'
        BY <1>1, <2>1, <2>7 DEF DrawnOK, Predicts, Quiet
    <2> QED BY <2>6, <2>8
<1>9. CASE UNCHANGED echoVars
    BY <1>1, <1>9 DEF echoVars, HistoryOK, AtPage, AtAgent, DrawnOK, Predicts, Quiet, Waiting, Meant, Last
<1> QED BY <1>4, <1>5, <1>6, <1>7, <1>8, <1>9 DEF EchoNext, Draws

LEMMA EchoTruthInitial == EchoInit => EchoTruth
<1> SUFFICES ASSUME EchoInit PROVE HistoryOK /\ DrawnOK(echo, Meant)
    BY DEF EchoTruth
<1>1. Len(meant) = 1 /\ meant[1] = <<>> /\ Len(typed) = 0 /\ Len(echoed) = 0
    BY DEF EchoInit
<1>2. AtAgent = 1 /\ AtPage = 1 /\ Waiting = {1}
    BY <1>1 DEF AtAgent, AtPage, Waiting
<1>3. HistoryOK
    BY <1>1, <1>2 DEF EchoInit, HistoryOK
<1>4. Quiet(Meant) /\ ~echo.active
    BY <1>1, <1>2 DEF Quiet, Meant, Last, EchoInit, NoEcho
<1> QED BY <1>3, <1>4 DEF DrawnOK

\* What is seen is the newest line while a prediction is drawn, and a line that
\* was typed otherwise.
LEMMA SeenIsTyped ==
    ASSUME EchoShape, HistoryOK, DrawnOK(echo, Meant)
    PROVE  /\ echo.active => Seen = Meant
           /\ \E i \in DOMAIN meant : Seen = meant[i]
<1>1. /\ Len(meant) \in Nat /\ Waiting \subseteq 1..Len(meant) /\ Len(meant) \in Waiting /\ AtPage \in Waiting
      /\ Meant = meant[Len(meant)] /\ Meant \in Seq(Chars) /\ screen = meant[AtPage] /\ screen \in Seq(Chars)
      /\ DOMAIN meant = 1..Len(meant)
    BY LinesKnown DEF HistoryOK, EchoShape, LinesShape
<1>2. ASSUME echo.active PROVE Seen = Meant
    <2>1. PICK a, x : a = echo.anchor /\ x = echo.text
        OBVIOUS
    <2>2. a \in Nat /\ x \in Seq(Chars) /\ Len(x) \in Nat
        BY <2>1 DEF EchoShape, Between, Predictions
    <2>3. /\ Agree(screen, Meant, a) /\ Len(Meant) = a + Len(x)
          /\ \A j \in 1..Len(x) : Meant[a + j] = x[j]
        BY <1>1, <1>2, <2>1 DEF DrawnOK, Predicts
    <2>4. PICK h : h = SubSeq(screen, 1, a)
        OBVIOUS
    <2>5. h \in Seq(Chars) /\ Len(h) = a /\ \A j \in 1..a : h[j] = Meant[j]
        BY <1>1, <2>2, <2>3, <2>4 DEF Agree
    <2>6. Seen = h \o x
        BY <1>2, <2>1, <2>4 DEF Seen
    <2>7. h \o x \in Seq(Chars) /\ Len(h \o x) = Len(Meant)
        BY <2>2, <2>3, <2>5
    <2>8. ASSUME NEW j \in 1..Len(Meant) PROVE (h \o x)[j] = Meant[j]
        <3>1. CASE j \in 1..a
            BY <2>2, <2>5, <3>1
        <3>2. CASE j \notin 1..a
            <4>1. j - a \in 1..Len(x) /\ a + (j - a) = j
                BY <2>2, <2>3, <3>2
            <4>2. (h \o x)[j] = x[j - a]
                BY <2>2, <2>5, <3>2, <4>1
            <4> QED BY <2>3, <4>1, <4>2
        <3> QED BY <3>1, <3>2
    <2>9. h \o x = Meant
        <3>1. PICK y : y = h \o x
            OBVIOUS
        <3>2. y \in Seq(Chars) /\ Len(y) = Len(Meant) /\ \A j \in 1..Len(Meant) : y[j] = Meant[j]
            BY <2>7, <2>8, <3>1
        <3>3. y = Meant
            BY <1>1, <3>2
        <3> QED BY <3>1, <3>3
    <2> QED BY <2>6, <2>9
<1>3. CASE echo.active
    BY <1>1, <1>2, <1>3
<1>4. CASE ~echo.active
    BY <1>1, <1>4 DEF Seen
<1> QED BY <1>2, <1>3, <1>4

LEMMA EchoTells ==
    ASSUME EchoShape, EchoTruth
    PROVE  LineAsTyped /\ NoLineNobodyTyped
BY SeenIsTyped DEF EchoTruth, LineAsTyped, NoLineNobodyTyped

\* A prediction that is settled is no longer told from what the terminal shows.
LEMMA SettledUnseen ==
    ASSUME Prompt, EchoShape, EchoTruth, [EchoNext]_echoVars
    PROVE  [Settle /\ ignored = 0 /\ Len(meant) > 1 => Seen' = Seen]_echoVars
<1> SUFFICES ASSUME Settle, ignored = 0 PROVE Seen' = Seen
    OBVIOUS
<1>1. HistoryOK /\ DrawnOK(echo, Meant) /\ CaughtUp /\ echo.active
    BY DEF EchoTruth, Settle
<1>2. Seen = Meant
    BY <1>1, SeenIsTyped
<1>3. AtPage = Len(meant)
    BY <1>1, LinesKnown DEF CaughtUp, AtPage, AtAgent
<1>4. Meant = screen
    BY <1>1, <1>3, LinesKnown DEF HistoryOK
<1>5. ~echo'.active /\ screen' = screen
    BY GivenUp DEF Settle, EchoShape, Between
<1> QED BY <1>2, <1>4, <1>5 DEF Seen

\* What is drawn over an input is what was typed into it, no line is shown that
\* nobody typed, and a prediction is dropped without the line going back: for any
\* keys and any delays that are no longer than measured (EchoPredictor); the safety
\* half of EchoHonest.
THEOREM EchoSafe ==
    ASSUME Prompt, ~Resets, ~LateSwitch
    PROVE  EchoSpec => [](LineAsTyped /\ NoLineNobodyTyped) /\ DroppedUnseen
<1>1. EchoShape /\ EchoTruth => LineAsTyped /\ NoLineNobodyTyped
    BY EchoTells
<1>2. EchoShape /\ EchoTruth /\ [EchoNext]_echoVars =>
          [Settle /\ ignored = 0 /\ Len(meant) > 1 => Seen' = Seen]_echoVars
    BY SettledUnseen
<1> QED BY <1>1, <1>2, EchoTruthInitial, EchoTruthStep, EchoShapeInvariant, PTL DEF EchoSpec, DroppedUnseen

-----------------------------------------------------------------------------
(* The pages.  What a page has been promised is on its way to it: in what  *)
(* waits for its writer, in its writer's hands, or with a broadcast that   *)
(* has still to reach it; whatever waits has a token, or is about to get   *)
(* one; and when broadcasts do not overlap, the snapshot that waits is the *)
(* newest that has been sent.                                              *)

CastLabels == {"idle", "build", "compare", "copy", "cast"}
Sending == {"copy", "cast"}
Payloads(c) == IF c \in Announcers THEN Events ELSE Snapshots

SyncShape ==
    /\ world \in Worlds /\ noted \in BOOLEAN /\ scheduled \in BOOLEAN
    /\ lastSnapshot \in Snapshots \union {Unsaid}
    /\ at \in [Casters -> CastLabels]
    /\ carries \in [Casters -> Snapshots \union Events \union {Unsaid}]
    /\ to \in [Casters -> SUBSET Pages] /\ rousing \in [Casters -> Pages \union {Unsaid}]
    /\ phase \in [Pages -> {"out", "added", "greeted", "open"}]
    /\ slot \in [Pages -> Snapshots \union {Unsaid}] /\ shown \in [Pages -> Snapshots \union {Unsaid}]
    /\ events \in [Pages -> SUBSET Events] /\ seen \in [Pages -> SUBSET Events]
    /\ owed \in [Pages -> SUBSET Events] /\ wake \in [Pages -> BOOLEAN]
    /\ hands \in [Pages -> [events : SUBSET Events, snapshot : Snapshots \union {Unsaid}]]

\* The changes that are still to come are bounded, a noted one among them.
WorldsLeft == noted => world + 1 <= MaxWorld

\* A broadcast has a payload in hand, and an announcer has nothing to compare.
CarriesOK ==
    /\ \A c \in Casters : IF at[c] \in {"compare", "copy", "cast"} THEN carries[c] \in Payloads(c)
                                                                  ELSE carries[c] = Unsaid
    /\ \A c \in Announcers : at[c] \in {"idle", "copy", "cast"}

\* Only the connected are reached, and only they are promised anything.
ReachesOK ==
    /\ \A c \in Casters : /\ to[c] \subseteq Connected
                          /\ rousing[c] # Unsaid => at[c] = "cast" /\ rousing[c] \in Connected
                          /\ to[c] # {} => at[c] = "cast"
    /\ \A v \in Pages : phase[v] = "out" => slot[v] = Unsaid /\ events[v] = {} /\ owed[v] = {}
    /\ \A v \in Pages : seen[v] = events[v]

\* A broadcast of c that has not reached v yet and will.
Approaches(c, v) == at[c] = "copy" \/ (at[c] = "cast" /\ v \in to[c])

EventsOnTheirWay ==
    \A v \in Pages : \A e \in owed[v] :
        \/ e \in events[v] \/ e \in hands[v].events
        \/ \E c \in Announcers : carries[c] = e /\ Approaches(c, v)

WakesForAll ==
    \A v \in Pages : slot[v] # Unsaid \/ events[v] # {} => wake[v] \/ \E c \in Casters : rousing[c] = v

OneBroadcast ==
    /\ \A p, q \in Producers : at[p] \in Sending /\ at[q] \in Sending => p = q
    /\ \A p \in Producers : at[p] \in Sending => carries[p] = lastSnapshot

NewestWaits ==
    \A v \in Pages : slot[v] # Unsaid => slot[v] = lastSnapshot \/ \E p \in Producers : Approaches(p, v)

SyncInv ==
    /\ SyncShape /\ WorldsLeft /\ CarriesOK /\ ReachesOK
    /\ EventsOnTheirWay /\ WakesForAll
    /\ ~Overlap => OneBroadcast /\ NewestWaits

LEMMA Casts ==
    /\ Casters = Producers \cup Announcers /\ Poller \in Producers
    /\ \A p \in Producers : p \notin Announcers
    /\ \A f \in Flushers : f \in Producers
    /\ Worlds = 1..MaxWorld /\ MaxWorld \in Nat /\ MaxWorld >= 1
    /\ \A w \in Worlds : Says[w] \in Snapshots
    /\ Unsaid \notin Snapshots /\ Unsaid \notin Events /\ Unsaid \notin Pages
BY StateSyncAssumption DEF Casters, Producers, Worlds, Snapshots

LEMMA SyncInitial == SyncInit => SyncInv
<1> SUFFICES ASSUME SyncInit PROVE SyncInv
    OBVIOUS
<1>1. SyncShape
    <2>1. Nothing \in [events : SUBSET Events, snapshot : Snapshots \union {Unsaid}]
        BY DEF Nothing
    <2>2. hands \in [Pages -> [events : SUBSET Events, snapshot : Snapshots \union {Unsaid}]]
        BY <2>1 DEF SyncInit
    <2>3. world \in Worlds
        BY Casts DEF SyncInit
    <2>5. noted \in BOOLEAN /\ scheduled \in BOOLEAN
        BY DEF SyncInit
    <2>4. wake \in [Pages -> BOOLEAN]
        BY DEF SyncInit
    <2> QED BY <2>2, <2>3, <2>4, <2>5 DEF SyncInit, SyncShape, CastLabels
<1>2. WorldsLeft /\ CarriesOK /\ ReachesOK
    BY Casts DEF SyncInit, WorldsLeft, CarriesOK, ReachesOK
<1>3. EventsOnTheirWay /\ WakesForAll
    BY DEF SyncInit, EventsOnTheirWay, WakesForAll
<1>4. OneBroadcast /\ NewestWaits
    BY Casts DEF SyncInit, OneBroadcast, NewestWaits, Sending
<1> QED BY <1>1, <1>2, <1>3, <1>4 DEF SyncInv

\* What the world does, and the timer of the hub.
LEMMA WorldStep ==
    ASSUME SyncInv, Change \/ StaleShows \/ Notify
    PROVE  SyncInv'
<1> USE DEF SyncInv, castVars, queueVars, pageVars
<1>1. /\ UNCHANGED <<lastSnapshot, at, carries, to, rousing, slot, events, seen, wake, phase, hands, shown, owed>>
      /\ SyncShape' /\ WorldsLeft'
    <2>1. CASE Change
        BY <2>1, Casts DEF Change, MayChange, SyncShape, WorldsLeft
    <2>2. CASE StaleShows
        <3>1. world' \in Worlds /\ noted' = FALSE /\ scheduled' = scheduled
            BY <2>2, Casts DEF StaleShows, SyncShape, WorldsLeft
        <3>2. noted' \in BOOLEAN /\ scheduled' \in BOOLEAN /\ WorldsLeft'
            BY <3>1 DEF SyncShape, WorldsLeft
        <3> QED BY <2>2, <3>1, <3>2 DEF StaleShows, SyncShape
    <2>3. CASE Notify
        BY <2>3 DEF Notify, SyncShape, WorldsLeft
    <2> QED BY <2>1, <2>2, <2>3
<1>2. CarriesOK' /\ ReachesOK'
    BY <1>1 DEF CarriesOK, ReachesOK, Connected
<1>3. EventsOnTheirWay' /\ WakesForAll'
    BY <1>1 DEF EventsOnTheirWay, WakesForAll, Approaches
<1>4. (~Overlap => OneBroadcast /\ NewestWaits)'
    BY <1>1 DEF OneBroadcast, NewestWaits, Approaches
<1> QED BY <1>1, <1>2, <1>3, <1>4

\* A producer starts, builds, fails or drops what it has: nothing is sent.
LEMMA BuildStep ==
    ASSUME SyncInv, NEW c \in Casters,
           /\ at[c] \in {"idle", "build", "compare"} \/ (at[c] = "cast" /\ to[c] = {} /\ rousing[c] = Unsaid)
           /\ UNCHANGED <<lastSnapshot, to, rousing, slot, events, seen, wake, phase, hands, shown, owed>>,
           NEW label \in {"idle", "build", "compare"}, NEW load,
           at' = [at EXCEPT ![c] = label], carries' = [carries EXCEPT ![c] = load],
           IF label = "compare" THEN load \in Payloads(c) ELSE load = Unsaid,
           c \in Announcers => label = "idle",
           world' \in Worlds, noted' \in BOOLEAN, scheduled' \in BOOLEAN, WorldsLeft'
    PROVE  SyncInv'
<1> USE DEF SyncInv
<1>1. load \in Snapshots \cup Events \cup {Unsaid}
    BY DEF Payloads
<1>2. SyncShape'
    BY <1>1 DEF SyncShape, CastLabels
<1>3. CarriesOK'
    BY Casts DEF CarriesOK, SyncShape
<1>4. ReachesOK'
    BY DEF ReachesOK, SyncShape, Connected
<1>5. \A d \in Casters, v \in Pages : Approaches(d, v) <=> Approaches(d, v)'
    BY DEF Approaches, SyncShape, ReachesOK
<1>6. EventsOnTheirWay'
    <2> SUFFICES ASSUME NEW v \in Pages, NEW e \in owed[v], e \notin events[v], e \notin hands[v].events
                 PROVE  \E d \in Announcers : carries'[d] = e /\ Approaches(d, v)'
        BY DEF EventsOnTheirWay
    <2>1. PICK d \in Announcers : carries[d] = e /\ Approaches(d, v)
        BY DEF EventsOnTheirWay
    <2>2. d # c
        BY <2>1 DEF Approaches, ReachesOK
    <2>3. d \in Casters
        BY Casts
    <2> QED BY <1>5, <2>1, <2>2, <2>3 DEF SyncShape
<1>7. WakesForAll'
    BY DEF WakesForAll
<1>8. ~Overlap => OneBroadcast' /\ NewestWaits'
    BY <1>5, Casts DEF OneBroadcast, NewestWaits, SyncShape, Sending
<1> QED BY <1>2, <1>3, <1>4, <1>6, <1>7, <1>8

\* A producer remembers what it sends, or an announcer what it has to say.
LEMMA SendStep ==
    ASSUME SyncInv, NEW c \in Casters, (\E p \in Producers : c = p /\ Remember(p))
                                       \/ (\E d \in Announcers, e \in Events : c = d /\ Announce(d, e))
    PROVE  SyncInv'
<1> USE DEF SyncInv
<1>1. CASE c \in Producers /\ Remember(c)
    <2> USE <1>1 DEF Remember, MayCompare, Goto, queueVars, pageVars
    <2>1. c \in Casters /\ c \notin Announcers /\ carries[c] \in Snapshots /\ at[c] = "compare"
        BY Casts DEF CarriesOK, Payloads
    <2>2. SyncShape' /\ WorldsLeft'
        BY <2>1 DEF SyncShape, CastLabels, WorldsLeft
    <2>3. CarriesOK' /\ ReachesOK'
        BY <2>1, Casts DEF CarriesOK, ReachesOK, SyncShape, Connected
    <2>4. \A d \in Casters, v \in Pages : Approaches(d, v) => Approaches(d, v)'
        BY DEF Approaches, SyncShape, ReachesOK
    <2>5. EventsOnTheirWay'
        BY <2>4, Casts DEF EventsOnTheirWay
    <2>6. WakesForAll'
        BY DEF WakesForAll
    <2>7. ASSUME ~Overlap PROVE OneBroadcast' /\ NewestWaits'
        <3>1. \A q \in Producers : at[q] \notin Sending
            BY <2>7 DEF Sending
        <3>2. OneBroadcast'
            BY <2>1, <3>1, Casts DEF OneBroadcast, SyncShape, Sending
        <3>3. \A v \in Pages : Approaches(c, v)'
            BY DEF Approaches, SyncShape
        <3> QED BY <3>2, <3>3 DEF NewestWaits
    <2> QED BY <2>2, <2>3, <2>5, <2>6, <2>7
<1>2. ASSUME NEW e \in Events, c \in Announcers, Announce(c, e) PROVE SyncInv'
    <2> USE <1>2 DEF Announce, Goto, serverVars, queueVars
    <2>1. c \notin Producers /\ at[c] = "idle" /\ carries[c] = Unsaid
        BY Casts DEF CarriesOK
    <2>2. SyncShape' /\ WorldsLeft'
        BY <2>1 DEF SyncShape, CastLabels, WorldsLeft
    <2>3. CarriesOK'
        BY <2>1, Casts DEF CarriesOK, SyncShape, Payloads
    <2>4. ReachesOK'
        BY <2>1 DEF ReachesOK, SyncShape, Connected
    <2>5. \A d \in Casters, v \in Pages : Approaches(d, v) => Approaches(d, v)'
        BY <2>1 DEF Approaches, SyncShape, ReachesOK
    <2>6. EventsOnTheirWay'
        <3> SUFFICES ASSUME NEW v \in Pages, NEW x \in owed'[v], x \notin events[v], x \notin hands[v].events
                     PROVE  \E d \in Announcers : carries'[d] = x /\ Approaches(d, v)'
            BY DEF EventsOnTheirWay
        <3>1. x \in owed[v] \/ x = e
            BY DEF SyncShape
        <3>2. CASE x \in owed[v]
            <4>1. PICK d \in Announcers : carries[d] = x /\ Approaches(d, v)
                BY <3>2 DEF EventsOnTheirWay
            <4>2. d # c /\ d \in Casters
                BY <2>1, <4>1, Casts DEF Approaches
            <4> QED BY <2>5, <4>1, <4>2 DEF SyncShape
        <3>3. CASE x = e
            BY <3>3 DEF SyncShape, Approaches
        <3> QED BY <3>1, <3>2, <3>3
    <2>7. WakesForAll'
        BY DEF WakesForAll
    <2>8. ~Overlap => OneBroadcast' /\ NewestWaits'
        BY <2>1, <2>5, Casts DEF OneBroadcast, NewestWaits, SyncShape
    <2> QED BY <2>2, <2>3, <2>4, <2>6, <2>7, <2>8
<1> QED BY <1>1, <1>2

\* A broadcast copies the connections.
LEMMA CopyStep ==
    ASSUME SyncInv, NEW c \in Casters, Copy(c)
    PROVE  SyncInv'
<1> USE DEF SyncInv, Copy, Goto, serverVars, queueVars, pageVars
<1>1. SyncShape' /\ WorldsLeft'
    BY DEF SyncShape, CastLabels, WorldsLeft, Connected
<1>2. CarriesOK'
    BY DEF CarriesOK, SyncShape, Payloads
<1>3. ReachesOK'
    BY DEF ReachesOK, SyncShape, Connected
<1>4. \A d \in Casters, v \in Connected : Approaches(d, v) => Approaches(d, v)'
    BY DEF Approaches, SyncShape
<1>5. EventsOnTheirWay'
    <2> SUFFICES ASSUME NEW v \in Pages, NEW e \in owed[v], e \notin events[v], e \notin hands[v].events
                 PROVE  \E d \in Announcers : carries[d] = e /\ Approaches(d, v)'
        BY DEF EventsOnTheirWay
    <2>1. PICK d \in Announcers : carries[d] = e /\ Approaches(d, v)
        BY DEF EventsOnTheirWay
    <2>2. v \in Connected
        BY DEF ReachesOK, Connected
    <2> QED BY <1>4, <2>1, <2>2, Casts
<1>6. WakesForAll'
    BY DEF WakesForAll
<1>7. ASSUME ~Overlap PROVE OneBroadcast' /\ NewestWaits'
    <2>1. OneBroadcast'
        BY <1>7 DEF OneBroadcast, SyncShape, Sending
    <2>2. \A v \in Pages : slot[v] # Unsaid => v \in Connected
        BY DEF ReachesOK, Connected
    <2> QED BY <1>4, <1>7, <2>1, <2>2, Casts DEF NewestWaits
<1> QED BY <1>1, <1>2, <1>3, <1>5, <1>6, <1>7

\* Whoever has queued something for v is about to wake its writer.
LEMMA QueuedIsRoused ==
    ASSUME SyncInv, NEW c \in Casters, NEW v \in Pages, rousing[c] = Unsaid,
           rousing' = [rousing EXCEPT ![c] = v], wake' = wake,
           \A w \in Pages : w # v => slot'[w] = slot[w] /\ events'[w] = events[w]
    PROVE  WakesForAll'
<1> SUFFICES ASSUME NEW w \in Pages, slot'[w] # Unsaid \/ events'[w] # {}
             PROVE  wake[w] \/ \E d \in Casters : rousing'[d] = w
    BY DEF WakesForAll
<1>1. CASE w = v
    BY <1>1 DEF SyncInv, SyncShape
<1>2. CASE w # v
    <2>1. wake[w] \/ \E d \in Casters : rousing[d] = w
        BY <1>2 DEF SyncInv, WakesForAll
    <2>2. \A d \in Casters : rousing[d] = w => rousing'[d] = w
        BY Casts DEF SyncInv, SyncShape
    <2> QED BY <2>1, <2>2
<1> QED BY <1>1, <1>2

\* A snapshot is queued for one page.
LEMMA QueueStateStep ==
    ASSUME SyncInv, NEW p \in Producers, NEW v \in Pages, QueueState(p, v)
    PROVE  SyncInv'
<1> USE DEF SyncInv, QueueState, Reaches, serverVars, pageVars
<1>1. p \in Casters /\ p \notin Announcers /\ carries[p] \in Snapshots
    BY Casts DEF CarriesOK, Payloads
<1>2. SyncShape' /\ WorldsLeft'
    BY <1>1 DEF SyncShape, WorldsLeft
<1>3. CarriesOK'
    BY DEF CarriesOK
<1>4. ReachesOK'
    BY <1>1 DEF ReachesOK, SyncShape, Connected
<1>5. \A d \in Casters, w \in Pages : Approaches(d, w) /\ ~(d = p /\ w = v) => Approaches(d, w)'
    BY DEF Approaches, SyncShape
<1>6. EventsOnTheirWay'
    BY <1>1, <1>5, Casts DEF EventsOnTheirWay
<1>7. WakesForAll'
    <2>1. \A w \in Pages : w # v => slot'[w] = slot[w] /\ events'[w] = events[w]
        BY DEF SyncShape
    <2> QED BY <1>1, <2>1, QueuedIsRoused
<1>8. ASSUME ~Overlap PROVE OneBroadcast' /\ NewestWaits'
    <2>1. OneBroadcast'
        BY <1>8 DEF OneBroadcast
    <2>2. slot'[v] = lastSnapshot
        BY <1>8 DEF OneBroadcast, SyncShape, Sending
    <2>3. \A w \in Pages : w # v => slot'[w] = slot[w]
        BY DEF SyncShape
    <2> QED BY <1>5, <1>8, <2>1, <2>2, <2>3, Casts DEF NewestWaits
<1> QED BY <1>2, <1>3, <1>4, <1>6, <1>7, <1>8

\* An event is queued for one page, unless it waits there already.
LEMMA QueueEventStep ==
    ASSUME SyncInv, NEW c \in Announcers, NEW v \in Pages, QueueEvent(c, v)
    PROVE  SyncInv'
<1> USE DEF SyncInv, QueueEvent, Reaches, serverVars, pageVars
<1>1. c \in Casters /\ c \notin Producers /\ carries[c] \in Events
    BY Casts DEF CarriesOK, Payloads
<1>2. SyncShape' /\ WorldsLeft'
    BY <1>1 DEF SyncShape, WorldsLeft
<1>3. CarriesOK'
    BY DEF CarriesOK
<1>4. seen[v] = events[v] /\ seen'[v] = seen[v] \cup {carries[c]} /\ events'[v] = seen'[v]
    BY DEF ReachesOK, SyncShape
<1>5. ReachesOK'
    <2>1. phase' = phase /\ Connected' = Connected /\ at' = at /\ v \in Connected /\ at[c] = "cast"
        <3>1. phase' = phase /\ at' = at /\ at[c] = "cast" /\ v \in to[c]
            OBVIOUS
        <3>2. to[c] \subseteq Connected
            BY <1>1 DEF ReachesOK
        <3> QED BY <3>1, <3>2 DEF Connected
    <2>2. /\ to'[c] \subseteq to[c] /\ \A d \in Casters \ {c} : to'[d] = to[d] /\ rousing'[d] = rousing[d]
          /\ rousing'[c] = v
        BY <1>1 DEF SyncShape
    <2>3. \A w \in Pages : w # v => slot'[w] = slot[w] /\ seen'[w] = seen[w] /\ events'[w] = events[w]
        BY DEF SyncShape
    <2>4. phase[v] # "out"
        BY <2>1 DEF Connected
    <2>5. \A d \in Casters : /\ to'[d] \subseteq Connected'
                             /\ rousing'[d] # Unsaid => at'[d] = "cast" /\ rousing'[d] \in Connected'
                             /\ to'[d] # {} => at'[d] = "cast"
        BY <1>1, <2>1, <2>2 DEF ReachesOK
    <2>6. \A w \in Pages : phase'[w] = "out" => slot'[w] = Unsaid /\ events'[w] = {} /\ owed'[w] = {}
        BY <2>1, <2>3, <2>4 DEF ReachesOK
    <2>7. \A w \in Pages : seen'[w] = events'[w]
        BY <1>4, <2>3 DEF ReachesOK
    <2> HIDE DEF QueueEvent, Reaches
    <2> QED BY <2>5, <2>6, <2>7 DEF ReachesOK
<1>6. \A d \in Casters, w \in Pages : Approaches(d, w) /\ ~(d = c /\ w = v) => Approaches(d, w)'
    BY DEF Approaches, SyncShape
<1>7. \A w \in Pages : events[w] \subseteq events'[w]
    BY <1>4 DEF SyncShape
<1>8. EventsOnTheirWay'
    BY <1>1, <1>4, <1>6, <1>7, Casts DEF EventsOnTheirWay
<1>9. WakesForAll'
    <2>1. \A w \in Pages : w # v => slot'[w] = slot[w] /\ events'[w] = events[w]
        BY DEF SyncShape
    <2> QED BY <1>1, <2>1, QueuedIsRoused
<1>10. ~Overlap => OneBroadcast' /\ NewestWaits'
    BY <1>1, <1>6, Casts DEF OneBroadcast, NewestWaits
<1> QED BY <1>2, <1>3, <1>5, <1>8, <1>9, <1>10

\* The writer of the page that has just been queued for gets its token.
LEMMA WakeStep ==
    ASSUME SyncInv, NEW c \in Casters, Wake(c)
    PROVE  SyncInv'
<1> USE DEF SyncInv, Wake, serverVars, pageVars
<1>1. rousing[c] \in Pages
    BY DEF SyncShape
<1>2. SyncShape' /\ WorldsLeft'
    BY <1>1 DEF SyncShape, WorldsLeft
<1>3. CarriesOK' /\ ReachesOK'
    BY <1>1 DEF CarriesOK, ReachesOK, SyncShape, Connected
<1>4. EventsOnTheirWay'
    BY DEF EventsOnTheirWay, Approaches
<1>5. WakesForAll'
    <2> SUFFICES ASSUME NEW v \in Pages, slot[v] # Unsaid \/ events[v] # {}
                 PROVE  wake'[v] \/ \E d \in Casters : rousing'[d] = v
        BY DEF WakesForAll
    <2>1. CASE v = rousing[c]
        BY <1>1, <2>1 DEF SyncShape
    <2>2. CASE v # rousing[c]
        <3>1. wake'[v] = wake[v]
            BY <1>1, <2>2 DEF SyncShape
        <3>2. \A d \in Casters : rousing[d] = v => rousing'[d] = v
            BY <1>1, <2>2 DEF SyncShape
        <3> QED BY <3>1, <3>2 DEF WakesForAll
    <2> QED BY <2>1, <2>2
<1>6. ~Overlap => OneBroadcast' /\ NewestWaits'
    BY DEF OneBroadcast, NewestWaits, Approaches
<1> QED BY <1>2, <1>3, <1>4, <1>5, <1>6

\* A connection comes, is greeted, writes what waits for it, or ends.
LEMMA PageStep ==
    ASSUME SyncInv, NEW v \in Pages, ConnectionStep(v) \/ Connect(v) \/ Disconnect(v)
    PROVE  SyncInv'
<1> USE DEF SyncInv, serverVars, castVars, queueVars
<1> DEFINE Hands == [events : SUBSET Events, snapshot : Snapshots \union {Unsaid}]
<1>1. ASSUME UNCHANGED <<lastSnapshot, castVars, queueVars, shown, owed>>, WorldsLeft', noted' \in BOOLEAN,
             UNCHANGED <<world, scheduled>>, phase' \in [Pages -> {"out", "added", "greeted", "open"}],
             hands' \in [Pages -> Hands], \A w \in Pages : hands[w].events \subseteq hands'[w].events,
             \A w \in Pages : phase[w] # "out" => phase'[w] # "out"
      PROVE  SyncInv'
    <2> USE <1>1
    <2>1. SyncShape' /\ CarriesOK'
        BY DEF SyncShape, CarriesOK
    <2>2. ReachesOK'
        BY DEF ReachesOK, SyncShape, Connected
    <2>3. EventsOnTheirWay' /\ WakesForAll'
        BY DEF EventsOnTheirWay, WakesForAll, Approaches
    <2>4. ~Overlap => OneBroadcast' /\ NewestWaits'
        BY DEF OneBroadcast, NewestWaits, Approaches
    <2> QED BY <2>1, <2>2, <2>3, <2>4
<1>2. CASE Connect(v)
    <2>1. phase' \in [Pages -> {"out", "added", "greeted", "open"}] /\ \A w \in Pages : phase[w] # "out" => phase'[w] # "out"
        BY <1>2 DEF Connect, SyncShape
    <2> QED BY <1>1, <1>2, <2>1 DEF Connect, SyncShape, WorldsLeft
<1>3. CASE Greet(v)
    <2>1. phase' \in [Pages -> {"out", "added", "greeted", "open"}] /\ \A w \in Pages : phase[w] # "out" => phase'[w] # "out"
        BY <1>3 DEF Greet, SyncShape
    <2>2. hands' \in [Pages -> Hands] /\ \A w \in Pages : hands'[w].events = hands[w].events
        <3>1. Says[world] \in Snapshots
            BY Casts DEF SyncShape
        <3> QED BY <1>3, <3>1 DEF Greet, SyncShape
    <2> QED BY <1>1, <1>3, <2>1, <2>2 DEF Greet, SyncShape, WorldsLeft
<1>4. CASE GreetFails(v)
    <2>1. phase' \in [Pages -> {"out", "added", "greeted", "open"}] /\ \A w \in Pages : phase[w] # "out" => phase'[w] # "out"
        BY <1>4 DEF GreetFails, SyncShape
    <2>2. WorldsLeft' /\ noted' = TRUE
        BY <1>4, Casts DEF GreetFails, WorldsLeft, MayChange, SyncShape
    <2> QED BY <1>1, <1>4, <2>1, <2>2 DEF GreetFails, SyncShape
<1>5. CASE TakePending(v)
    <2> USE <1>5 DEF TakePending
    <2>1. hands' \in [Pages -> Hands]
        BY DEF SyncShape
    <2>2. SyncShape' /\ WorldsLeft' /\ CarriesOK'
        BY <2>1 DEF SyncShape, WorldsLeft, CarriesOK
    <2>3. ReachesOK'
        BY DEF ReachesOK, SyncShape, Connected
    <2>4. hands'[v].events = events[v] /\ hands[v].events = {}
        BY DEF SyncShape, Nothing
    <2>5. EventsOnTheirWay'
        <3> SUFFICES ASSUME NEW w \in Pages, NEW e \in owed[w]
                     PROVE  \/ e \in events'[w] \/ e \in hands'[w].events
                            \/ \E c \in Announcers : carries[c] = e /\ Approaches(c, w)
            BY DEF EventsOnTheirWay, Approaches
        <3>1. CASE w = v
            BY <2>4, <3>1 DEF EventsOnTheirWay
        <3>2. CASE w # v
            <4>1. events'[w] = events[w] /\ hands'[w] = hands[w]
                BY <3>2 DEF SyncShape
            <4> QED BY <4>1 DEF EventsOnTheirWay
        <3> QED BY <3>1, <3>2
    <2>6. WakesForAll'
        <3>1. slot'[v] = Unsaid /\ events'[v] = {}
            BY DEF SyncShape
        <3>2. \A w \in Pages : w # v => slot'[w] = slot[w] /\ events'[w] = events[w] /\ wake'[w] = wake[w]
            BY DEF SyncShape
        <3> QED BY <3>1, <3>2 DEF WakesForAll
    <2>7. ~Overlap => OneBroadcast' /\ NewestWaits'
        BY DEF OneBroadcast, NewestWaits, Approaches, SyncShape
    <2> QED BY <2>2, <2>3, <2>5, <2>6, <2>7
<1>6. CASE WriteEvent(v)
    <2>1. PICK e \in hands[v].events :
            /\ hands' = [hands EXCEPT ![v].events = @ \ {e}]
            /\ owed' = [owed EXCEPT ![v] = @ \ {e}]
            /\ UNCHANGED <<serverVars, castVars, queueVars, phase, shown>>
        BY <1>6 DEF WriteEvent
    <2>2. hands' \in [Pages -> Hands]
        BY <2>1 DEF SyncShape
    <2>3. SyncShape' /\ WorldsLeft' /\ CarriesOK'
        BY <2>1, <2>2 DEF SyncShape, WorldsLeft, CarriesOK
    <2>4. ReachesOK'
        BY <2>1 DEF ReachesOK, SyncShape, Connected
    <2>5. \A w \in Pages : \A x \in owed'[w] : x \in owed[w] /\ (x \in hands[w].events => x \in hands'[w].events)
        BY <2>1 DEF SyncShape
    <2>6. EventsOnTheirWay' /\ WakesForAll'
        BY <2>1, <2>5 DEF EventsOnTheirWay, WakesForAll, Approaches
    <2>7. ~Overlap => OneBroadcast' /\ NewestWaits'
        BY <2>1 DEF OneBroadcast, NewestWaits, Approaches
    <2> QED BY <2>3, <2>4, <2>6, <2>7
<1>7. CASE WriteState(v)
    <2> USE <1>7 DEF WriteState
    <2>1. Nothing \in Hands /\ hands[v].snapshot \in Snapshots \union {Unsaid}
        BY DEF Nothing, SyncShape
    <2>2. hands' \in [Pages -> Hands] /\ shown' \in [Pages -> Snapshots \union {Unsaid}]
        BY <2>1 DEF SyncShape
    <2>3. SyncShape' /\ WorldsLeft' /\ CarriesOK'
        BY <2>2 DEF SyncShape, WorldsLeft, CarriesOK
    <2>4. ReachesOK'
        BY DEF ReachesOK, SyncShape, Connected
    <2>5. \A w \in Pages : hands[w].events \subseteq hands'[w].events
        BY DEF SyncShape
    <2>6. EventsOnTheirWay' /\ WakesForAll'
        BY <2>5 DEF EventsOnTheirWay, WakesForAll, Approaches
    <2>7. ~Overlap => OneBroadcast' /\ NewestWaits'
        BY DEF OneBroadcast, NewestWaits, Approaches
    <2> QED BY <2>3, <2>4, <2>6, <2>7
<1>8. CASE Disconnect(v)
    <2> USE <1>8 DEF Disconnect
    <2>1. hands' \in [Pages -> Hands]
        BY DEF SyncShape, Nothing
    <2>2. SyncShape' /\ WorldsLeft' /\ CarriesOK'
        BY <2>1 DEF SyncShape, WorldsLeft, CarriesOK
    <2>3. ReachesOK'
        BY DEF ReachesOK, SyncShape, Connected
    <2>4. \A w \in Pages : w # v => /\ slot'[w] = slot[w] /\ events'[w] = events[w] /\ hands'[w] = hands[w]
                                    /\ wake'[w] = wake[w] /\ owed'[w] = owed[w]
        BY DEF SyncShape
    <2>5. slot'[v] = Unsaid /\ events'[v] = {} /\ owed'[v] = {}
        BY DEF SyncShape
    <2>6. \A c \in Casters, w \in Pages : w # v /\ Approaches(c, w) => Approaches(c, w)'
        BY DEF Approaches, SyncShape
    <2>7. EventsOnTheirWay'
        BY <2>4, <2>5, <2>6, Casts DEF EventsOnTheirWay
    <2>8. WakesForAll'
        BY <2>4, <2>5 DEF WakesForAll
    <2>9. ~Overlap => OneBroadcast' /\ NewestWaits'
        BY <2>4, <2>5, <2>6, Casts DEF OneBroadcast, NewestWaits
    <2> QED BY <2>2, <2>3, <2>7, <2>8, <2>9
<1> QED BY <1>2, <1>3, <1>4, <1>5, <1>6, <1>7, <1>8 DEF ConnectionStep

LEMMA SyncStep ==
    ASSUME SyncInv, [SyncNext]_syncVars
    PROVE  SyncInv'
<1>1. CASE Change \/ StaleShows \/ Notify
    BY <1>1, WorldStep
<1>2. ASSUME NEW c \in Casters, SameAgain(c) \/ CastDone(c) \/ BuildFails(c)
      PROVE  SyncInv'
    <2>1. /\ at' = [at EXCEPT ![c] = "idle"] /\ carries' = [carries EXCEPT ![c] = Unsaid]
          /\ UNCHANGED <<lastSnapshot, to, rousing, slot, events, seen, wake, phase, hands, shown, owed>>
          /\ at[c] \in {"idle", "build", "compare"} \/ (at[c] = "cast" /\ to[c] = {} /\ rousing[c] = Unsaid)
        BY <1>2 DEF SameAgain, MayCompare, CastDone, BuildFails, Rest, Goto, serverVars, queueVars, pageVars
    <2>2. world' \in Worlds /\ noted' \in BOOLEAN /\ scheduled' \in BOOLEAN /\ WorldsLeft'
        <3>1. CASE SameAgain(c) \/ CastDone(c)
            BY <3>1 DEF SameAgain, CastDone, serverVars, SyncInv, SyncShape, WorldsLeft
        <3>2. CASE BuildFails(c)
            <4>1. WorldsLeft' /\ noted' = TRUE /\ UNCHANGED <<world, scheduled>>
                BY <3>2, Casts DEF BuildFails, SyncInv, WorldsLeft, MayChange, SyncShape
            <4> QED BY <4>1 DEF SyncInv, SyncShape
        <3> QED BY <1>2, <3>1, <3>2
    <2>3. IF "idle" = "compare" THEN Unsaid \in Payloads(c) ELSE Unsaid = Unsaid
        OBVIOUS
    <2> QED BY <2>1, <2>2, <2>3, BuildStep
<1>3. ASSUME NEW c \in Producers, (c = Poller /\ Tick) \/ (c \in Flushers /\ Flush(c)) PROVE SyncInv'
    <2>1. c \in Casters /\ c \notin Announcers
        BY Casts
    <2>2. /\ at[c] = "idle" /\ at' = [at EXCEPT ![c] = "build"]
          /\ UNCHANGED <<world, noted, carries, lastSnapshot, to, rousing, slot, events, seen, wake, phase, hands, shown, owed>>
          /\ scheduled' = scheduled \/ scheduled' = FALSE
        BY <1>3 DEF Tick, Flush, Goto, serverVars, queueVars, pageVars
    <2>3. carries' = [carries EXCEPT ![c] = Unsaid]
        BY <2>1, <2>2 DEF SyncInv, CarriesOK, SyncShape
    <2>4. world' \in Worlds /\ noted' \in BOOLEAN /\ scheduled' \in BOOLEAN /\ WorldsLeft'
        BY <2>2 DEF SyncInv, SyncShape, WorldsLeft
    <2>5. IF "build" = "compare" THEN Unsaid \in Payloads(c) ELSE Unsaid = Unsaid
        OBVIOUS
    <2> QED BY <2>1, <2>2, <2>3, <2>4, <2>5, BuildStep
<1>4. ASSUME NEW c \in Producers, Build(c) PROVE SyncInv'
    <2>1. c \in Casters /\ c \notin Announcers /\ Says[world] \in Payloads(c)
        BY Casts DEF SyncInv, SyncShape, Payloads
    <2>2. /\ at[c] = "build" /\ at' = [at EXCEPT ![c] = "compare"] /\ carries' = [carries EXCEPT ![c] = Says[world]]
          /\ UNCHANGED <<lastSnapshot, to, rousing, slot, events, seen, wake, phase, hands, shown, owed>>
          /\ UNCHANGED <<world, noted, scheduled>>
        BY <1>4 DEF Build, Goto, serverVars, queueVars, pageVars
    <2>3. world' \in Worlds /\ noted' \in BOOLEAN /\ scheduled' \in BOOLEAN /\ WorldsLeft'
        BY <2>2 DEF SyncInv, SyncShape, WorldsLeft
    <2>4. PICK load : load = Says[world]
        OBVIOUS
    <2>5. IF "compare" = "compare" THEN load \in Payloads(c) ELSE load = Unsaid
        BY <2>1, <2>4
    <2> QED BY <2>1, <2>2, <2>3, <2>4, <2>5, BuildStep
<1>5. ASSUME NEW c \in Casters, CastStep(c) PROVE SyncInv'
    BY <1>2, <1>5, CopyStep, WakeStep DEF CastStep
<1>6. ASSUME NEW p \in Producers, ProducerStep(p) PROVE SyncInv'
    <2>1. p \in Casters
        BY Casts
    <2> QED BY <1>2, <1>4, <1>5, <1>6, <2>1, SendStep, QueueStateStep DEF ProducerStep
<1>7. ASSUME NEW c \in Announcers, AnnouncerStep(c) \/ \E e \in Events : Announce(c, e) PROVE SyncInv'
    <2>1. c \in Casters
        BY Casts
    <2> QED BY <1>5, <1>7, <2>1, SendStep, QueueEventStep DEF AnnouncerStep
<1>8. ASSUME NEW v \in Pages, ConnectionStep(v) \/ Connect(v) \/ Disconnect(v) PROVE SyncInv'
    BY <1>8, PageStep
<1>9. CASE UNCHANGED syncVars
    <2>1. /\ UNCHANGED <<world, noted, lastSnapshot, scheduled, at, carries, to, rousing>>
          /\ UNCHANGED <<slot, events, seen, wake, phase, hands, shown, owed>>
        BY <1>9 DEF syncVars, serverVars, castVars, queueVars, pageVars
    <2>2. SyncShape' /\ WorldsLeft'
        BY <2>1 DEF SyncInv, SyncShape, WorldsLeft
    <2>3. CarriesOK' /\ ReachesOK'
        BY <2>1 DEF SyncInv, CarriesOK, ReachesOK, Connected
    <2>4. \A d \in Casters, v \in Pages : Approaches(d, v) <=> Approaches(d, v)'
        BY <2>1 DEF Approaches
    <2>5. EventsOnTheirWay' /\ WakesForAll'
        BY <2>1, <2>4, Casts DEF SyncInv, EventsOnTheirWay, WakesForAll
    <2>6. ~Overlap => OneBroadcast' /\ NewestWaits'
        BY <2>1, <2>4, Casts DEF SyncInv, OneBroadcast, NewestWaits
    <2> QED BY <2>2, <2>3, <2>5, <2>6 DEF SyncInv
<1> QED BY <1>1, <1>3, <1>6, <1>7, <1>8, <1>9, Casts DEF SyncNext

LEMMA SyncInvariant == SyncSpec => []SyncInv
BY SyncInitial, SyncStep, PTL DEF SyncSpec

LEMMA SyncIsTyped == SyncInv => SyncTypeOK
<1> SUFFICES ASSUME SyncInv PROVE SyncTypeOK
    OBVIOUS
<1>1. /\ \A p \in Producers : carries[p] \in Snapshots \union {Unsaid}
      /\ \A c \in Announcers : carries[c] \in Events \union {Unsaid}
    BY Casts DEF SyncInv, CarriesOK, Payloads
<1>2. \A v \in Pages : hands[v].events \subseteq Events
    BY DEF SyncInv, SyncShape
<1> QED BY <1>1, <1>2 DEF SyncInv, SyncShape, SyncTypeOK

\* Snapshots, events and what is true have their types (hub.go, conn.go).
THEOREM SyncTypeCorrect == SyncSpec => []SyncTypeOK
BY SyncIsTyped, SyncInvariant, PTL

\* An event that a connected page has been promised is never lost: it waits for
\* the page's writer or is in its hands, or the broadcast that has it has still to
\* reach the page; and whatever waits has woken the writer or is about to
\* (queueEvent, BroadcastEvent); the safety half of EventHeard.
THEOREM NothingForgotten == SyncSpec => [](EventsOnTheirWay /\ WakesForAll)
BY SyncInvariant, PTL DEF SyncInv

\* When no snapshot is compared with the last one while another is on its way, the
\* snapshot that waits for a page is the newest that has been sent, or the one that
\* replaces it is about to come (Hub.snapMu, Conn.queueState).
THEOREM NewestSnapshotWaits ==
    ASSUME ~Overlap PROVE SyncSpec => [](OneBroadcast /\ NewestWaits)
BY SyncInvariant, PTL DEF SyncInv

-----------------------------------------------------------------------------
(* Side by side *)

LEMMA PartsShaped == PartsSpec => [](WatchInv /\ EchoShape /\ SyncInv)
<1>1. PartsInit => WatchInv /\ EchoShape /\ SyncInv
    BY WatchInitial, EchoShapeInitial, SyncInitial DEF PartsInit
<1>2. WatchInv /\ EchoShape /\ SyncInv /\ [PartsNext]_partsVars => (WatchInv /\ EchoShape /\ SyncInv)'
    <2> SUFFICES ASSUME WatchInv, EchoShape, SyncInv, [PartsNext]_partsVars
                 PROVE  WatchInv' /\ EchoShape' /\ SyncInv'
        OBVIOUS
    <2>1. [WatchNext]_watchVars /\ [EchoNext]_echoVars /\ [SyncNext]_syncVars
        BY DEF PartsNext, partsVars
    <2> QED BY <2>1, WatchStep, EchoShapeStep, SyncStep
<1> QED BY <1>1, <1>2, PTL DEF PartsSpec

\* The types of the parts, side by side.
THEOREM PartsTypeCorrect == PartsSpec => []PartsTypeOK
<1>1. WatchInv /\ EchoShape /\ SyncInv => PartsTypeOK
    BY SyncIsTyped, ShapeIsTyped DEF PartsTypeOK, WatchInv
<1> QED BY <1>1, PartsShaped, PTL

\* What is proved of each part alone holds of the specification the run checks: for
\* viewers that are strangers, of whom none is dropped, with messages written as they
\* are made, broadcasts that do not overlap, delays no longer than measured, and no
\* reset and no late switch while a line is drawn.
THEOREM PartsSafe ==
    ASSUME ~MayDrop, Late = {}, Strangers, ~Overlap, Prompt, ~Resets, ~LateSwitch
    PROVE  PartsSpec =>
               /\ [](ToldTheTruth /\ ViewsFresh) /\ GraceHonoured
               /\ [](EventsOnTheirWay /\ WakesForAll /\ OneBroadcast /\ NewestWaits)
               /\ [](LineAsTyped /\ NoLineNobodyTyped) /\ DroppedUnseen
<1>1. PartsSpec => []ToldTheTruth /\ GraceHonoured
    <2>1. PartsInit => Init
        BY DEF PartsInit
    <2>2. [PartsNext]_partsVars => [Next]_vars
        BY DEF PartsNext, partsVars
    <2>3. PartsSpec => Spec
        BY <2>1, <2>2, PTL DEF PartsSpec, Spec
    <2>4. QED BY <2>3, ToldTheTruthCorrect, GraceHonouredCorrect, PTL
<1>2. PartsSpec => [](ViewsFresh /\ EventsOnTheirWay /\ WakesForAll /\ OneBroadcast /\ NewestWaits)
    <2>1. WatchInv => ViewsFresh
        BY DEF WatchInv, Floors, MemoOK, ViewsFresh, ViewHasBumped, Busy
    <2>2. SyncInv => EventsOnTheirWay /\ WakesForAll /\ OneBroadcast /\ NewestWaits
        BY DEF SyncInv
    <2>3. QED BY <2>1, <2>2, PartsShaped, PTL
<1>3. PartsSpec => [](LineAsTyped /\ NoLineNobodyTyped) /\ DroppedUnseen
    <2>1. PartsInit => EchoTruth
        BY EchoTruthInitial DEF PartsInit
    <2>2. EchoShape /\ EchoTruth /\ [PartsNext]_partsVars => EchoTruth'
        <3>1. [PartsNext]_partsVars => [EchoNext]_echoVars
            BY DEF PartsNext, partsVars
        <3>2. QED BY <3>1, EchoTruthStep
    <2>3. EchoShape /\ EchoTruth => LineAsTyped /\ NoLineNobodyTyped
        BY EchoTells
    <2>4. EchoShape /\ EchoTruth /\ [PartsNext]_partsVars =>
              [Settle /\ ignored = 0 /\ Len(meant) > 1 => Seen' = Seen]_echoVars
        <3>1. [PartsNext]_partsVars => [EchoNext]_echoVars
            BY DEF PartsNext, partsVars
        <3>2. QED BY <3>1, SettledUnseen
    <2>5. QED BY <2>1, <2>2, <2>3, <2>4, PartsShaped, PTL DEF PartsSpec, DroppedUnseen
<1>4. QED BY <1>1, <1>2, <1>3, PTL
=============================================================================
