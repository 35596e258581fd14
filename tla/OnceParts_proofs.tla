--------------------------- MODULE OnceParts_proofs ---------------------------
(***************************************************************************)
(* Proofs about what there must be one of at a time, one section for each  *)
(* part: the read of a working tree (GitCache), the pass over the agents'  *)
(* transcripts and the count of a request (UsageIngest), the worker of a   *)
(* plugin's events (PluginEvents), and the parts side by side (OnceParts). *)
(* The client of a session has Attach_proofs.                              *)
(***************************************************************************)
EXTENDS OnceParts, Attach_proofs, SequenceTheorems, FiniteSetTheorems

----------------------------------------------------------------------------
(* GitCache: the read of a working tree                                    *)
----------------------------------------------------------------------------

\* What every read of a tree can say at time t, when the changes were made at the
\* times h: how long it takes, and how old what it found can be.
ReadOK(r, t, h) ==
    /\ r.began <= t
    /\ InFlight(r) => t - r.began <= ReadTime
    /\ ~InFlight(r) => r.looked /\ r.began <= r.ended /\ r.ended <= t /\ r.ended - r.began <= ReadTime
    /\ ~r.looked => r.val = Failed
    /\ r.val # Failed => r.val <= Len(h) /\ (r.val < Len(h) => h[r.val + 1] >= r.began)

ReadsOK(s, t, h) ==
    s \in Seq(AnyRead) /\ Len(s) <= MaxReads /\ \A i \in 1..Len(s) : ReadOK(s[i], t, h)

ClockOK ==
    /\ now \in Time
    /\ changes \in Seq(Time) /\ Len(changes) <= MaxTree /\ \A i \in 1..Len(changes) : changes[i] <= now

\* The callers of once: who reads has the entry in the map, and what anybody is
\* on began no longer ago than an answer may be old.
CallerOK(c) ==
    /\ c.at # "out" => c.on \in 1..Len(reads) /\ reads[c.on].began >= c.asked - TTL - ReadTime
    /\ c.at = "reads" => InFlight(reads[c.on])
    /\ c.at = "told" => ~InFlight(reads[c.on])

TabsOK ==
    /\ ReadsOK(reads, now, changes)
    /\ current \in 0..Len(reads)
    /\ \A i \in 1..Len(reads) : InFlight(reads[i]) => i = current
    /\ caller \in [Callers -> [at : {"out", "waits", "reads", "told"}, on : 0..MaxReads, asked : Time]]
    /\ \A c \in Callers : CallerOK(caller[c])
    /\ \A c, d \in Callers : caller[c].at = "reads" /\ caller[d].at = "reads" => c = d

\* The refreshes of a wall: one at a time, each no earlier than the time to live
\* after those before it, also when the entry that remembers them was swept.
WarmOK ==
    /\ warmed \in [there : BOOLEAN, val : 0..MaxTree \cup {Failed}, at : Time \cup {Never}, refreshing : BOOLEAN,
                   asked : Time, tried : Time \cup {Never}]
    /\ warmed.tried <= warmed.asked /\ warmed.asked <= now
    /\ warmed.at # Never => warmed.val # Failed /\ warmed.val <= Len(changes)

RefreshesOK ==
    /\ ReadsOK(refreshes, now, changes)
    /\ \A i \in 1..Len(refreshes) : InFlight(refreshes[i]) => i = Len(refreshes) /\ warmed.refreshing
    /\ \A i \in 1..Len(refreshes) :
          refreshes[i].began <= IF warmed.tried = Never THEN now - WarmTTL ELSE warmed.tried
    /\ \A i, j \in 1..Len(refreshes) : i < j => refreshes[j].began - refreshes[i].began >= WarmTTL

\* What is shown and what will be: a refresh that has looked found no less.
ShownOK ==
    /\ shown \in 0..Len(changes)
    /\ warmed.at # Never => warmed.val >= shown
    /\ \A i \in 1..Len(refreshes) :
          InFlight(refreshes[i]) /\ refreshes[i].val # Failed =>
              refreshes[i].val >= shown /\ (warmed.at # Never => refreshes[i].val >= warmed.val)

WallsOK == WarmOK /\ RefreshesOK /\ ShownOK

CacheInv == ClockOK /\ TabsOK /\ WallsOK

----------------------------------------------------------------------------
(* One read, and one sequence of reads *)

LEMMA NewReadOK ==
    ASSUME ClockOK
    PROVE  /\ Reading \in AnyRead /\ ReadOK(Reading, now, changes)
           /\ Reading.began = now /\ InFlight(Reading) /\ ~Reading.looked /\ Reading.val = Failed
<1>1. Reading.looked = FALSE /\ Reading.val = Failed /\ Reading.began = now /\ Reading.ended = Never
    BY DEF Reading
<1>2. Reading \in AnyRead
    <2>1. FALSE \in BOOLEAN /\ now \in Time /\ Failed \in 0..MaxTree \cup {Failed} /\ Never \in Time \cup {Never}
        BY DEF ClockOK
    <2>2. QED BY <2>1, Zenon DEF Reading, AnyRead
<1>3. 0 <= ReadTime /\ now - now = 0 /\ now <= now
    BY CacheAssumption DEF ClockOK, Time
<1>4. QED BY <1>1, <1>2, <1>3 DEF ReadOK, InFlight

LEMMA AnotherRead ==
    ASSUME NEW s, NEW t, NEW h, ReadsOK(s, t, h), Len(s) < MaxReads, NEW r \in AnyRead, ReadOK(r, t, h)
    PROVE  /\ ReadsOK(s \o <<r>>, t, h)
           /\ Len(s \o <<r>>) = Len(s) + 1
           /\ (s \o <<r>>)[Len(s) + 1] = r
           /\ \A i \in 1..Len(s) : (s \o <<r>>)[i] = s[i]
<1>1. s \in Seq(AnyRead) /\ <<r>> \in Seq(AnyRead) /\ Len(<<r>>) = 1 /\ <<r>>[1] = r
    BY DEF ReadsOK
<1>2. s \o <<r>> \in Seq(AnyRead) /\ Len(s \o <<r>>) = Len(s) + 1
    BY <1>1, ConcatProperties
<1>3. \A i \in 1..Len(s) : (s \o <<r>>)[i] = s[i]
    BY <1>1, ConcatProperties
<1>4. (s \o <<r>>)[Len(s) + 1] = r
    BY <1>1, ConcatProperties
<1>5. Len(s) \in Nat /\ MaxReads \in Nat
    BY <1>1, CacheAssumption
<1>6. QED BY <1>2, <1>3, <1>4, <1>5 DEF ReadsOK

LEMMA OneReadMoves ==
    ASSUME NEW s, NEW t, NEW h, ReadsOK(s, t, h), NEW i \in 1..Len(s), NEW r \in AnyRead, ReadOK(r, t, h)
    PROVE  /\ ReadsOK([s EXCEPT ![i] = r], t, h)
           /\ Len([s EXCEPT ![i] = r]) = Len(s)
           /\ [s EXCEPT ![i] = r][i] = r
           /\ \A j \in 1..Len(s) : j # i => [s EXCEPT ![i] = r][j] = s[j]
<1>1. s \in Seq(AnyRead)
    BY DEF ReadsOK
<1>2. [s EXCEPT ![i] = r] \in Seq(AnyRead) /\ Len([s EXCEPT ![i] = r]) = Len(s)
    BY <1>1
<1>3. [s EXCEPT ![i] = r][i] = r /\ \A j \in 1..Len(s) : j # i => [s EXCEPT ![i] = r][j] = s[j]
    BY <1>1
<1>4. QED BY <1>2, <1>3 DEF ReadsOK

\* A read that looks finds the last change, or fails.
LEMMA LooksOK ==
    ASSUME ClockOK, NEW r \in AnyRead, ReadOK(r, now, changes), ~r.looked, NEW v \in {Tree, Failed}
    PROVE  LET n == [r EXCEPT !.looked = TRUE, !.val = v] IN
           /\ n \in AnyRead /\ ReadOK(n, now, changes)
           /\ n.began = r.began /\ n.ended = r.ended /\ n.val = v /\ InFlight(r)
<1> DEFINE n == [r EXCEPT !.looked = TRUE, !.val = v]
<1>1. n.looked = TRUE /\ n.val = v /\ n.began = r.began /\ n.ended = r.ended
    BY DEF AnyRead
<1>2. Len(changes) \in 0..MaxTree
    BY CacheAssumption DEF ClockOK
<1>3. v \in 0..MaxTree \cup {Failed}
    BY <1>2 DEF Tree
<1>4. n \in AnyRead
    <2>1. TRUE \in BOOLEAN
        OBVIOUS
    <2>2. QED BY <1>3, <2>1, Zenon DEF AnyRead
<1>5. InFlight(r)
    BY DEF ReadOK
<1>6. ReadOK(n, now, changes)
    <2>1. v # Failed => v = Len(changes)
        BY DEF Tree
    <2>2. QED BY <1>1, <1>2, <1>5, <2>1 DEF ReadOK, InFlight
<1>7. QED BY <1>1, <1>4, <1>5, <1>6

LEMMA EndsOK ==
    ASSUME ClockOK, NEW r \in AnyRead, ReadOK(r, now, changes), r.looked, InFlight(r)
    PROVE  LET n == [r EXCEPT !.ended = now] IN
           /\ n \in AnyRead /\ ReadOK(n, now, changes)
           /\ n.began = r.began /\ n.val = r.val /\ ~InFlight(n)
<1> DEFINE n == [r EXCEPT !.ended = now]
<1>1. n.looked = r.looked /\ n.val = r.val /\ n.began = r.began /\ n.ended = now
    BY DEF AnyRead
<1>2. now \in Time /\ now # Never /\ now \in Int
    BY CacheAssumption DEF ClockOK, Time, Never
<1>3. n \in AnyRead
    BY <1>2, Zenon DEF AnyRead
<1>4. r.began \in Int
    BY DEF AnyRead, Time
<1>5. ReadOK(n, now, changes)
    BY <1>1, <1>2, <1>4 DEF ReadOK, InFlight
<1>6. QED BY <1>1, <1>2, <1>3, <1>5 DEF InFlight

\* A change to the tree comes after what every read has found.
LEMMA ChangesLater ==
    ASSUME ClockOK, TreeChanges
    PROVE  /\ ClockOK'
           /\ Len(changes') = Len(changes) + 1 /\ Len(changes) \in Nat /\ now' = now
           /\ \A s : ReadsOK(s, now, changes) => ReadsOK(s, now', changes')
<1>1. changes \in Seq(Time) /\ <<now>> \in Seq(Time) /\ Len(<<now>>) = 1 /\ <<now>>[1] = now
    BY DEF ClockOK
<1>2. changes' = changes \o <<now>> /\ now' = now
    BY DEF TreeChanges
<1>3. changes' \in Seq(Time) /\ Len(changes') = Len(changes) + 1
    BY <1>1, <1>2, ConcatProperties
<1>4. (\A i \in 1..Len(changes) : changes'[i] = changes[i]) /\ changes'[Len(changes) + 1] = now
    BY <1>1, <1>2, ConcatProperties
<1>5. now \in Nat /\ Len(changes) \in Nat /\ MaxTree \in Nat
    BY <1>1, CacheAssumption DEF ClockOK, Time
<1>6. Len(changes) < MaxTree
    BY DEF TreeChanges, Tree
<1>7. ClockOK'
    BY <1>1, <1>2, <1>3, <1>4, <1>5, <1>6 DEF ClockOK
<1>8. ASSUME NEW s, ReadsOK(s, now, changes) PROVE ReadsOK(s, now', changes')
    <2>1. ASSUME NEW i \in 1..Len(s) PROVE ReadOK(s[i], now', changes')
        <3>1. s[i] \in AnyRead /\ ReadOK(s[i], now, changes)
            BY <1>8 DEF ReadsOK
        <3>2. s[i].val # Failed => s[i].val \in Nat
            BY <3>1 DEF AnyRead
        <3>3. s[i].val # Failed /\ s[i].val < Len(changes') => changes'[s[i].val + 1] >= s[i].began
            <4>1. ASSUME s[i].val # Failed, s[i].val < Len(changes) PROVE changes'[s[i].val + 1] >= s[i].began
                BY <1>4, <1>5, <3>1, <3>2, <4>1 DEF ReadOK
            <4>2. ASSUME s[i].val # Failed, s[i].val = Len(changes) PROVE changes'[s[i].val + 1] >= s[i].began
                BY <1>4, <1>5, <3>1, <4>2 DEF ReadOK, AnyRead, Time
            <4>3. QED BY <1>3, <1>5, <3>2, <4>1, <4>2
        <3>4. QED BY <1>2, <1>3, <1>5, <3>1, <3>2, <3>3 DEF ReadOK
    <2>2. QED BY <1>8, <2>1 DEF ReadsOK
<1>9. QED BY <1>2, <1>3, <1>5, <1>7, <1>8

\* Time waits for the reads that are at their limit.
LEMMA TimeAges ==
    ASSUME ClockOK, TimePasses
    PROVE  /\ ClockOK' /\ changes' = changes /\ now' = now + 1
           /\ \A s : /\ ReadsOK(s, now, changes)
                     /\ \A i \in 1..Len(s) : InFlight(s[i]) => now - s[i].began < ReadTime
                     => ReadsOK(s, now', changes')
<1>1. changes' = changes /\ now' = now + 1 /\ now < MaxClock /\ now \in Nat /\ MaxClock \in Nat /\ ReadTime \in Nat
    BY CacheAssumption DEF TimePasses, ClockOK, Time
<1>2. ClockOK'
    BY <1>1 DEF ClockOK, Time
<1>3. ASSUME NEW s, ReadsOK(s, now, changes), \A i \in 1..Len(s) : InFlight(s[i]) => now - s[i].began < ReadTime
      PROVE  ReadsOK(s, now', changes')
    <2>1. ASSUME NEW i \in 1..Len(s) PROVE ReadOK(s[i], now', changes')
        <3>1. s[i] \in AnyRead /\ ReadOK(s[i], now, changes)
            BY <1>3 DEF ReadsOK
        <3>2. s[i].began \in Int /\ s[i].ended \in Int
            BY <3>1, CacheAssumption DEF AnyRead, Time, Never
        <3>3. QED BY <1>1, <1>3, <3>1, <3>2 DEF ReadOK
    <2>2. QED BY <1>3, <2>1 DEF ReadsOK
<1>4. QED BY <1>1, <1>2, <1>3

----------------------------------------------------------------------------
(* What happens to the tabs *)

LEMMA CacheBegins ==
    ASSUME CacheInit
    PROVE  CacheInv
<1>1. now = 0 /\ changes = <<>> /\ reads = <<>> /\ current = 0 /\ refreshes = <<>> /\ shown = 0
    BY DEF CacheInit
<1>2. \A S : <<>> \in Seq(S)
    OBVIOUS
<1>3. Len(<<>>) = 0
    OBVIOUS
<1>4. {MaxClock, MaxTree, MaxReads} \subseteq Nat
    BY CacheAssumption
<1>5. ClockOK
    BY <1>1, <1>2, <1>3, <1>4 DEF ClockOK, Time
<1>6. ReadsOK(reads, now, changes) /\ ReadsOK(refreshes, now, changes)
    BY <1>1, <1>2, <1>3, <1>4 DEF ReadsOK
<1>7. TabsOK
    <2>1. caller = [c \in Callers |-> Out] /\ Out.at = "out"
        BY DEF CacheInit, Out
    <2>2. Out \in [at : {"out", "waits", "reads", "told"}, on : 0..MaxReads, asked : Time]
        BY <1>4 DEF Out, Time
    <2>3. QED BY <1>1, <1>3, <1>6, <2>1, <2>2 DEF TabsOK, CallerOK
<1>8. WarmOK
    <2>1. warmed = NoWarm
        BY DEF CacheInit
    <2>2. NoWarm.tried = Never /\ NoWarm.asked = 0 /\ NoWarm.at = Never
        BY DEF NoWarm
    <2>3. NoWarm \in [there : BOOLEAN, val : 0..MaxTree \cup {Failed}, at : Time \cup {Never}, refreshing : BOOLEAN,
                      asked : Time, tried : Time \cup {Never}]
        <3>1. FALSE \in BOOLEAN /\ Failed \in 0..MaxTree \cup {Failed} /\ Never \in Time \cup {Never} /\ 0 \in Time
            BY <1>4 DEF Time
        <3>2. QED BY <3>1, Zenon DEF NoWarm
    <2>4. QED BY <1>1, <2>1, <2>2, <2>3 DEF WarmOK, Never
<1>9. RefreshesOK /\ ShownOK
    <2>1. warmed.at = Never
        BY DEF CacheInit, NoWarm
    <2>2. QED BY <1>1, <1>3, <1>6, <2>1 DEF RefreshesOK, ShownOK
<1>10. QED BY <1>5, <1>7, <1>8, <1>9 DEF CacheInv, WallsOK

LEMMA TabsUndisturbed ==
    ASSUME TabsOK, UNCHANGED readVars, ReadsOK(reads, now', changes')
    PROVE  TabsOK'
BY DEF readVars, TabsOK, CallerOK

\* A caller that is answered, or joins what goes on, or gives up.
LEMMA CallerMoves ==
    ASSUME ClockOK, TabsOK, UNCHANGED <<treeVars, reads, current>>, NEW c \in Callers,
           NEW n \in [at : {"out", "waits", "told"}, on : 0..MaxReads, asked : Time], CallerOK(n),
           caller' = [caller EXCEPT ![c] = n]
    PROVE  TabsOK'
<1>1. /\ caller' \in [Callers -> [at : {"out", "waits", "reads", "told"}, on : 0..MaxReads, asked : Time]]
      /\ caller'[c] = n /\ \A d \in Callers \ {c} : caller'[d] = caller[d]
    BY DEF TabsOK
<1>2. \A d \in Callers : CallerOK(caller'[d])
    BY <1>1 DEF TabsOK
<1>3. \A d \in Callers : CallerOK(caller[d])'
    BY <1>2 DEF CallerOK
<1>4. \A d, e \in Callers : caller'[d].at = "reads" /\ caller'[e].at = "reads" => d = e
    BY <1>1 DEF TabsOK
<1>5. QED BY <1>1, <1>3, <1>4 DEF TabsOK, treeVars

\* Who is on a read that is going on, or ended less than TTL ago, is on one that
\* began no longer ago than TTL and the time of a read.
LEMMA CurrentRecent ==
    ASSUME ClockOK, TabsOK, Recent \/ GoingOn
    PROVE  current \in 1..Len(reads) /\ current \in 0..MaxReads /\ reads[current].began >= now - TTL - ReadTime
<1>1. current \in 1..Len(reads) /\ current \in 0..MaxReads
    BY CacheAssumption DEF TabsOK, ReadsOK, Recent, GoingOn
<1>2. reads[current] \in AnyRead /\ ReadOK(reads[current], now, changes)
    BY <1>1 DEF TabsOK, ReadsOK
<1>3. {now, TTL, ReadTime, MaxClock} \subseteq Nat /\ reads[current].began \in Int /\ reads[current].ended \in Int
    BY <1>2, CacheAssumption DEF AnyRead, Time, Never, ClockOK
<1>4. reads[current].began >= now - TTL - ReadTime
    BY <1>2, <1>3 DEF ReadOK, Recent, GoingOn
<1>5. QED BY <1>1, <1>4

LEMMA OnceStep ==
    ASSUME ClockOK, TabsOK, NEW c \in Callers, Once(c)
    PROVE  TabsOK' /\ UNCHANGED <<treeVars, warmVars>>
<1> DEFINE Where == {"out", "waits", "told"}
<1>1. now \in Time /\ {TTL, ReadTime, MaxReads} \subseteq Nat /\ Len(reads) \in Nat /\ Len(reads) <= MaxReads
    BY CacheAssumption DEF ClockOK, TabsOK, ReadsOK
<1>2. /\ caller[c] \in [at : {"out", "waits", "reads", "told"}, on : 0..MaxReads, asked : Time]
      /\ CallerOK(caller[c])
    BY DEF TabsOK
<1>3. CASE AnswerAtOnce(c)
    <2>1. current \in 1..Len(reads) /\ current \in 0..MaxReads /\ reads[current].began >= now - TTL - ReadTime
        BY <1>3, CurrentRecent DEF AnswerAtOnce
    <2> DEFINE n == [at |-> "told", on |-> current, asked |-> now]
    <2>2. n \in [at : Where, on : 0..MaxReads, asked : Time]
        BY <1>1, <2>1
    <2>3. CallerOK(n)
        BY <1>3, <2>1 DEF CallerOK, AnswerAtOnce, Recent
    <2>4. UNCHANGED <<treeVars, reads, current, warmVars>> /\ caller' = [caller EXCEPT ![c] = n]
        BY <1>3 DEF AnswerAtOnce
    <2> HIDE DEF n
    <2>5. QED BY <2>2, <2>3, <2>4, CallerMoves
<1>4. CASE JoinRead(c)
    <2>1. current \in 1..Len(reads) /\ current \in 0..MaxReads /\ reads[current].began >= now - TTL - ReadTime
        BY <1>4, CurrentRecent DEF JoinRead
    <2> DEFINE n == [at |-> "waits", on |-> current, asked |-> now]
    <2>2. n \in [at : Where, on : 0..MaxReads, asked : Time]
        BY <1>1, <2>1
    <2>3. CallerOK(n)
        BY <2>1 DEF CallerOK
    <2>4. UNCHANGED <<treeVars, reads, current, warmVars>> /\ caller' = [caller EXCEPT ![c] = n]
        BY <1>4 DEF JoinRead
    <2> HIDE DEF n
    <2>5. QED BY <2>2, <2>3, <2>4, CallerMoves
<1>5. CASE Lead(c)
    <2> DEFINE k == Len(reads) + 1
               n == [at |-> "reads", on |-> k, asked |-> now]
    <2>1. /\ Len(reads) < MaxReads /\ reads' = reads \o <<Reading>> /\ current' = k
          /\ caller' = [caller EXCEPT ![c] = n] /\ UNCHANGED <<treeVars, warmVars>>
        BY <1>5 DEF Lead, NewRead
    <2>2. /\ ReadsOK(reads', now, changes) /\ Len(reads') = k /\ reads'[k] = Reading
          /\ \A i \in 1..Len(reads) : reads'[i] = reads[i]
        BY <2>1, NewReadOK, AnotherRead DEF TabsOK
    <2>3. \A i \in 1..Len(reads) : ~InFlight(reads[i])
        BY <1>5 DEF Lead, GoingOn, TabsOK
    <2>4. \A i \in 1..Len(reads') : InFlight(reads'[i]) => i = current'
        BY <1>1, <2>1, <2>2, <2>3
    <2>5. n \in [at : {"out", "waits", "reads", "told"}, on : 0..MaxReads, asked : Time]
        BY <1>1, <2>1
    <2>6. /\ caller' \in [Callers -> [at : {"out", "waits", "reads", "told"}, on : 0..MaxReads, asked : Time]]
          /\ caller'[c] = n /\ \A d \in Callers \ {c} : caller'[d] = caller[d]
        BY <2>1, <2>5 DEF TabsOK
    <2>7. \A d \in Callers : caller[d].at # "reads"
        BY <2>3 DEF TabsOK, CallerOK
    <2>8. CallerOK(caller[c])'
        <3>1. reads'[k].began = now /\ InFlight(reads'[k])
            BY <2>2, NewReadOK
        <3>2. now >= now - TTL - ReadTime
            BY <1>1 DEF Time
        <3>3. caller'[c].at = "reads" /\ caller'[c].on = k /\ caller'[c].asked = now
            BY <2>6
        <3>4. k \in 1..Len(reads')
            BY <1>1, <2>2
        <3>5. QED BY <3>1, <3>2, <3>3, <3>4 DEF CallerOK
    <2>9. ASSUME NEW d \in Callers \ {c} PROVE CallerOK(caller[d])'
        <3>1. CallerOK(caller[d]) /\ caller'[d] = caller[d]
            BY <2>6 DEF TabsOK
        <3>2. caller[d].at # "out" => caller[d].on \in 1..Len(reads')
            BY <1>1, <2>2, <3>1 DEF CallerOK
        <3>3. QED BY <2>2, <3>1, <3>2 DEF CallerOK
    <2>10. \A d, e \in Callers : caller'[d].at = "reads" /\ caller'[e].at = "reads" => d = e
        BY <2>6, <2>7
    <2>11. current' \in 0..Len(reads')
        BY <1>1, <2>1, <2>2
    <2>12. QED BY <2>1, <2>2, <2>4, <2>6, <2>8, <2>9, <2>10, <2>11 DEF TabsOK, treeVars
<1>6. ASSUME NEW i \in 1..Len(reads), NEW r \in AnyRead, ReadOK(r, now, changes), InFlight(reads[i]),
             r.began = reads[i].began,
             reads' = [reads EXCEPT ![i] = r], UNCHANGED <<treeVars, current, warmVars>>
      PROVE  /\ ReadsOK(reads', now', changes') /\ Len(reads') = Len(reads) /\ current' \in 0..Len(reads')
             /\ \A j \in 1..Len(reads') : InFlight(reads'[j]) => j = current'
             /\ reads'[i] = r /\ \A j \in 1..Len(reads) : reads'[j].began = reads[j].began
             /\ \A j \in 1..Len(reads) : j # i => reads'[j] = reads[j]
    <2>1. /\ ReadsOK(reads', now, changes) /\ Len(reads') = Len(reads) /\ reads'[i] = r
          /\ \A j \in 1..Len(reads) : j # i => reads'[j] = reads[j]
        <3>1. ReadsOK(reads, now, changes)
            BY DEF TabsOK
        <3> DEFINE s == [reads EXCEPT ![i] = r]
        <3>2. /\ ReadsOK(s, now, changes) /\ Len(s) = Len(reads) /\ s[i] = r
              /\ \A j \in 1..Len(reads) : j # i => s[j] = reads[j]
            <4>1. i \in 1..Len(reads) /\ r \in AnyRead /\ ReadOK(r, now, changes)
                BY <1>6
            <4>2. ReadsOK(s, now, changes)
                BY <3>1, <4>1, OneReadMoves
            <4>3. Len(s) = Len(reads)
                BY <3>1, <4>1, OneReadMoves
            <4>4. s[i] = r
                BY <3>1, <4>1, OneReadMoves
            <4>5. \A j \in 1..Len(reads) : j # i => s[j] = reads[j]
                BY <3>1, <4>1, OneReadMoves
            <4>6. QED BY <4>2, <4>3, <4>4, <4>5
        <3>3. reads' = s
            BY <1>6
        <3> HIDE DEF s
        <3>4. QED BY <3>2, <3>3
    <2>2. QED BY <1>6, <2>1 DEF TabsOK, treeVars
<1>7. CASE Look(c)
    <2> DEFINE i == caller[c].on
    <2>1. i \in 1..Len(reads) /\ reads[i] \in AnyRead /\ ReadOK(reads[i], now, changes)
        BY <1>2, <1>7 DEF Look, CallerOK, TabsOK, ReadsOK
    <2>2. PICK v \in {Tree, Failed} : reads' = [reads EXCEPT ![i] = [@ EXCEPT !.looked = TRUE, !.val = v]]
        BY <1>7 DEF Look
    <2> DEFINE r == [reads[i] EXCEPT !.looked = TRUE, !.val = v]
    <2>3. reads' = [reads EXCEPT ![i] = r]
        BY <2>1, <2>2
    <2>4. ~reads[i].looked /\ UNCHANGED <<treeVars, current, caller, warmVars>>
        BY <1>7 DEF Look
    <2>5. r \in AnyRead /\ ReadOK(r, now, changes) /\ r.began = reads[i].began /\ r.ended = reads[i].ended /\ InFlight(reads[i])
        BY <2>1, <2>2, <2>4, LooksOK
    <2> HIDE DEF r, i
    <2>6. /\ ReadsOK(reads', now', changes') /\ Len(reads') = Len(reads) /\ current' \in 0..Len(reads')
          /\ \A j \in 1..Len(reads') : InFlight(reads'[j]) => j = current'
          /\ \A j \in 1..Len(reads) : reads'[j].began = reads[j].began /\ reads'[j].ended = reads[j].ended
        <3>1. /\ ReadsOK(reads', now', changes') /\ Len(reads') = Len(reads) /\ current' \in 0..Len(reads')
              /\ \A j \in 1..Len(reads') : InFlight(reads'[j]) => j = current'
              /\ reads'[i] = r /\ \A j \in 1..Len(reads) : reads'[j].began = reads[j].began
              /\ \A j \in 1..Len(reads) : j # i => reads'[j] = reads[j]
            BY <1>6, <2>1, <2>3, <2>4, <2>5
        <3>2. QED BY <2>5, <3>1
    <2>7. \A d \in Callers : CallerOK(caller[d])'
        BY <2>4, <2>6 DEF TabsOK, CallerOK, InFlight
    <2>8. QED BY <2>4, <2>6, <2>7 DEF TabsOK
<1>8. CASE Publish(c)
    <2> DEFINE i == caller[c].on
               r == [reads[i] EXCEPT !.ended = now]
               n == [at |-> "told", on |-> i, asked |-> caller[c].asked]
    <2>1. i \in 1..Len(reads) /\ reads[i] \in AnyRead /\ ReadOK(reads[i], now, changes) /\ InFlight(reads[i])
        BY <1>2, <1>8 DEF Publish, CallerOK, TabsOK, ReadsOK
    <2>2. reads' = [reads EXCEPT ![i] = r] /\ reads[i].looked /\ UNCHANGED <<treeVars, current, warmVars>>
        BY <1>8, <2>1 DEF Publish
    <2>3. caller' = [caller EXCEPT ![c] = n] /\ n \in [at : Where, on : 0..MaxReads, asked : Time]
        BY <1>2, <1>8 DEF Publish, Told
    <2>4. r \in AnyRead /\ ReadOK(r, now, changes) /\ r.began = reads[i].began /\ ~InFlight(r)
        BY <2>1, <2>2, EndsOK
    <2>5. caller[c].at = "reads" /\ reads[i].began >= caller[c].asked - TTL - ReadTime
        BY <1>2, <1>8 DEF Publish, CallerOK
    <2> HIDE DEF r
    <2>6. /\ ReadsOK(reads', now', changes') /\ Len(reads') = Len(reads) /\ current' \in 0..Len(reads')
          /\ \A j \in 1..Len(reads') : InFlight(reads'[j]) => j = current'
          /\ reads'[i] = r /\ \A j \in 1..Len(reads) : reads'[j].began = reads[j].began
          /\ \A j \in 1..Len(reads) : j # i => reads'[j] = reads[j]
        BY <1>6, <2>1, <2>2, <2>4
    <2>7. /\ caller' \in [Callers -> [at : {"out", "waits", "reads", "told"}, on : 0..MaxReads, asked : Time]]
          /\ caller'[c] = n /\ \A d \in Callers \ {c} : caller'[d] = caller[d]
        BY <2>3 DEF TabsOK
    <2>8. CallerOK(caller[c])'
        BY <2>1, <2>4, <2>5, <2>6, <2>7 DEF CallerOK
    <2>9. ASSUME NEW d \in Callers \ {c} PROVE CallerOK(caller[d])'
        <3>1. CallerOK(caller[d]) /\ caller'[d] = caller[d]
            BY <2>7 DEF TabsOK
        <3>2. caller[d].at # "reads"
            BY <2>5 DEF TabsOK
        <3>3. \A j \in 1..Len(reads) : ~InFlight(reads[j]) => ~InFlight(reads'[j])
            BY <2>4, <2>6
        <3>4. QED BY <2>6, <3>1, <3>2, <3>3 DEF CallerOK
    <2>10. \A d, e \in Callers : caller'[d].at = "reads" /\ caller'[e].at = "reads" => d = e
        <3>1. caller'[c].at = "told"
            BY <2>7
        <3>2. QED BY <2>7, <3>1 DEF TabsOK
    <2>11. QED BY <2>2, <2>6, <2>7, <2>8, <2>9, <2>10 DEF TabsOK
<1>9. CASE Wake(c)
    <2> DEFINE n == [at |-> "told", on |-> caller[c].on, asked |-> caller[c].asked]
    <2>1. n \in [at : Where, on : 0..MaxReads, asked : Time] /\ caller' = [caller EXCEPT ![c] = n]
        BY <1>2, <1>9 DEF Wake, Told
    <2>2. CallerOK(n)
        BY <1>2, <1>9 DEF Wake, CallerOK
    <2>3. UNCHANGED <<treeVars, reads, current, warmVars>>
        BY <1>9 DEF Wake
    <2> HIDE DEF n
    <2>4. QED BY <2>1, <2>2, <2>3, CallerMoves
<1>10. CASE GiveUp(c)
    <2>1. Out \in [at : Where, on : 0..MaxReads, asked : Time] /\ CallerOK(Out)
        <3>1. 0 \in 0..MaxReads /\ 0 \in Time
            BY <1>1, CacheAssumption DEF Time
        <3>2. Out.at = "out" /\ Out \in [at : Where, on : 0..MaxReads, asked : Time]
            BY <3>1 DEF Out
        <3>3. QED BY <3>2 DEF CallerOK
    <2>2. UNCHANGED <<treeVars, reads, current, warmVars>> /\ caller' = [caller EXCEPT ![c] = Out]
        BY <1>10 DEF GiveUp
    <2>3. QED BY <2>1, <2>2, CallerMoves
<1>11. QED BY <1>3, <1>4, <1>5, <1>7, <1>8, <1>9, <1>10 DEF Once, Look

LEMMA SweepStep ==
    ASSUME TabsOK, Sweep
    PROVE  TabsOK' /\ UNCHANGED <<treeVars, warmVars>>
<1>1. /\ current' = 0 /\ UNCHANGED <<treeVars, reads, caller, warmVars>>
      /\ \A i \in 1..Len(reads) : ~InFlight(reads[i])
    BY DEF Sweep, TabsOK
<1>2. 0 \in 0..Len(reads)
    BY DEF TabsOK, ReadsOK
<1>3. QED BY <1>1, <1>2 DEF TabsOK, CallerOK, treeVars

----------------------------------------------------------------------------
(* What happens to the walls *)

Warms == [there : BOOLEAN, val : 0..MaxTree \cup {Failed}, at : Time \cup {Never}, refreshing : BOOLEAN,
          asked : Time, tried : Time \cup {Never}]

LEMMA NoWarmFits ==
    ASSUME ClockOK
    PROVE  NoWarm \in Warms /\ NoWarm.tried = Never /\ NoWarm.at = Never /\ NoWarm.asked = 0 /\ NoWarm.refreshing = FALSE
<1>1. FALSE \in BOOLEAN /\ Failed \in 0..MaxTree \cup {Failed} /\ Never \in Time \cup {Never} /\ 0 \in Time
    BY CacheAssumption DEF ClockOK, Time
<1>2. NoWarm \in Warms
    BY <1>1, Zenon DEF NoWarm, Warms
<1>3. QED BY <1>2 DEF NoWarm

LEMMA WallFacts ==
    ASSUME ClockOK, WallsOK
    PROVE  /\ now \in Int /\ WarmTTL \in Nat /\ WarmIdle \in Nat /\ WarmTTL <= WarmIdle
           /\ warmed \in Warms /\ warmed.tried \in Int /\ warmed.asked \in Int
           /\ Len(refreshes) \in Nat /\ refreshes \in Seq(AnyRead)
           /\ \A i \in 1..Len(refreshes) : refreshes[i].began \in Int /\ refreshes[i].began <= now
<1>1. {WarmTTL, WarmIdle, MaxClock} \subseteq Nat /\ WarmTTL <= WarmIdle /\ now \in Int
    BY CacheAssumption DEF ClockOK, Time
<1>2. warmed \in Warms /\ warmed.tried \in Int /\ warmed.asked \in Int
    BY DEF WallsOK, WarmOK, Warms, Time, Never
<1>3. Len(refreshes) \in Nat /\ refreshes \in Seq(AnyRead)
    BY DEF WallsOK, RefreshesOK, ReadsOK
<1>4. \A i \in 1..Len(refreshes) : refreshes[i].began \in Int /\ refreshes[i].began <= now
    <2>1. ASSUME NEW i \in 1..Len(refreshes) PROVE refreshes[i].began \in Int /\ refreshes[i].began <= now
        <3>1. refreshes[i] \in AnyRead /\ ReadOK(refreshes[i], now, changes)
            BY <1>3, <2>1 DEF WallsOK, RefreshesOK, ReadsOK
        <3>2. QED BY <3>1 DEF ReadOK, AnyRead, Time
    <2>2. QED BY <2>1
<1>5. QED BY <1>1, <1>2, <1>3, <1>4

\* The entry may be swept at any time it may be: it was last tried before it was
\* last asked for, and that is longer ago than the time to live.
LEMMA SweptIsOld ==
    ASSUME ClockOK, WallsOK, Unasked, NEW i \in 1..Len(refreshes)
    PROVE  refreshes[i].began <= now - WarmTTL /\ ~InFlight(refreshes[i])
<1>1. now - warmed.asked > WarmIdle /\ ~warmed.refreshing
    BY DEF Unasked
<1>2. warmed.tried <= warmed.asked
    BY DEF WallsOK, WarmOK
<1>3. refreshes[i].began <= IF warmed.tried = Never THEN now - WarmTTL ELSE warmed.tried
    BY DEF WallsOK, RefreshesOK
<1>4. refreshes[i].began <= now - WarmTTL
    BY <1>1, <1>2, <1>3, WallFacts
<1>5. QED BY <1>1, <1>4 DEF WallsOK, RefreshesOK

LEMMA PollStep ==
    ASSUME ClockOK, WallsOK, Poll
    PROVE  WallsOK' /\ UNCHANGED <<treeVars, readVars>>
<1> DEFINE kept == IF Unasked THEN NoWarm ELSE warmed
           e == [kept EXCEPT !.there = TRUE, !.asked = now]
           n == [e EXCEPT !.refreshing = TRUE, !.tried = now]
<1>1. /\ shown' = IF e.at = Never THEN shown ELSE e.val
      /\ \/ /\ MayTry(e) /\ Len(refreshes) < MaxReads
            /\ refreshes' = refreshes \o <<Reading>> /\ warmed' = n
         \/ warmed' = e /\ UNCHANGED refreshes
      /\ UNCHANGED <<treeVars, readVars>>
    BY DEF Poll
<1>2. kept \in Warms
    BY WallFacts, NoWarmFits
<1>3. now \in Time /\ TRUE \in BOOLEAN
    BY DEF ClockOK
<1> HIDE DEF kept
<1>4. e \in Warms
    BY <1>2, <1>3, Zenon DEF Warms
<1>5. e.at = kept.at /\ e.val = kept.val /\ e.tried = kept.tried /\ e.asked = now /\ e.refreshing = kept.refreshing
    BY <1>2 DEF Warms
<1> HIDE DEF e
<1>6. n \in Warms
    BY <1>3, <1>4, Zenon DEF Warms
<1>7. n.at = e.at /\ n.val = e.val /\ n.tried = now /\ n.asked = e.asked /\ n.refreshing = TRUE
    BY <1>4 DEF Warms
<1> HIDE DEF n
<1>8. e.tried <= now /\ e.tried \in Int
    <2>1. kept.tried <= now
        <3>1. warmed.tried <= now
            BY WallFacts DEF WallsOK, WarmOK
        <3>2. NoWarm.tried <= now
            <4>1. 0 <= now /\ now \in Int
                BY CacheAssumption DEF ClockOK, Time
            <4>2. NoWarm.tried = Never
                BY NoWarmFits
            <4>3. QED BY <4>1, <4>2 DEF Never
        <3>3. QED BY <3>1, <3>2 DEF kept
    <2>2. QED BY <1>5, <2>1, <1>4 DEF Warms, Time, Never
<1>9. warmed'.at = kept.at /\ warmed'.val = kept.val /\ warmed'.asked = now /\ warmed' \in Warms
    BY <1>1, <1>4, <1>5, <1>6, <1>7
<1>10. kept.at # Never => kept = warmed /\ kept.val # Failed /\ kept.val <= Len(changes) /\ kept.val >= shown
    BY NoWarmFits DEF kept, WallsOK, WarmOK, ShownOK
<1>11. WarmOK'
    <2>1. warmed'.tried <= warmed'.asked /\ warmed'.asked <= now
        BY <1>1, <1>5, <1>7, <1>8, WallFacts
    <2>2. warmed'.at # Never => warmed'.val # Failed /\ warmed'.val <= Len(changes)
        BY <1>9, <1>10
    <2>3. QED BY <1>1, <1>9, <2>1, <2>2 DEF WarmOK, Warms, treeVars
<1>12. \A i \in 1..Len(refreshes) :
           /\ refreshes[i].began <= IF e.tried = Never THEN now - WarmTTL ELSE e.tried
           /\ InFlight(refreshes[i]) => i = Len(refreshes) /\ e.refreshing /\ kept = warmed
    BY <1>5, SweptIsOld, NoWarmFits DEF kept, WallsOK, RefreshesOK
<1>13. shown' \in 0..Len(changes) /\ (kept.at # Never => kept.val >= shown')
    <2>1. shown' = IF kept.at = Never THEN shown ELSE kept.val
        BY <1>1, <1>5
    <2>2. kept.at # Never => kept.val \in 0..Len(changes)
        BY <1>2, <1>10 DEF Warms, Failed, ClockOK
    <2>3. kept.val \in Int
        BY <1>2 DEF Warms, Failed
    <2>4. QED BY <2>1, <2>2, <2>3 DEF WallsOK, ShownOK
<1>14. \A i \in 1..Len(refreshes) :
          InFlight(refreshes[i]) /\ refreshes[i].val # Failed =>
              refreshes[i].val >= shown' /\ (kept.at # Never => refreshes[i].val >= kept.val)
    BY <1>1, <1>5, <1>12 DEF WallsOK, ShownOK
<1>15. CASE warmed' = e /\ UNCHANGED refreshes
    <2>1. RefreshesOK'
        BY <1>1, <1>12, <1>15 DEF WallsOK, RefreshesOK, treeVars
    <2>2. ShownOK'
        BY <1>1, <1>9, <1>13, <1>14, <1>15 DEF ShownOK, treeVars
    <2>3. QED BY <1>1, <1>11, <2>1, <2>2 DEF WallsOK
<1>16. CASE MayTry(e) /\ Len(refreshes) < MaxReads /\ refreshes' = refreshes \o <<Reading>> /\ warmed' = n
    <2> DEFINE k == Len(refreshes) + 1
    <2>1. /\ ReadsOK(refreshes', now, changes) /\ Len(refreshes') = k /\ refreshes'[k] = Reading
          /\ \A i \in 1..Len(refreshes) : refreshes'[i] = refreshes[i]
        BY <1>16, NewReadOK, AnotherRead DEF WallsOK, RefreshesOK
    <2>2. \A i \in 1..Len(refreshes') : i = k \/ i \in 1..Len(refreshes)
        BY <2>1, WallFacts
    <2>3. Reading.began = now /\ Reading.val = Failed
        BY NewReadOK
    <2>4. \A i \in 1..Len(refreshes) : ~InFlight(refreshes[i]) /\ refreshes[i].began <= now - WarmTTL
        BY <1>8, <1>12, <1>16, WallFacts DEF MayTry
    <2>5. RefreshesOK'
        <3>1. warmed'.refreshing = TRUE /\ warmed'.tried = now /\ now # Never
            BY <1>7, <1>16, CacheAssumption DEF ClockOK, Time, Never
        <3>2. \A i \in 1..Len(refreshes') : InFlight(refreshes'[i]) => i = Len(refreshes') /\ warmed'.refreshing
            BY <2>1, <2>2, <2>4, <3>1
        <3>3. \A i \in 1..Len(refreshes') : refreshes'[i].began <= now
            BY <2>1, <2>2, <2>3, WallFacts
        <3>4. \A i, j \in 1..Len(refreshes') : i < j => refreshes'[j].began - refreshes'[i].began >= WarmTTL
            <4>1. SUFFICES ASSUME NEW i \in 1..Len(refreshes'), NEW j \in 1..Len(refreshes'), i < j
                           PROVE  refreshes'[j].began - refreshes'[i].began >= WarmTTL
                OBVIOUS
            <4>2. i \in 1..Len(refreshes)
                BY <2>1, <4>1, WallFacts
            <4>3. CASE j = k
                BY <2>1, <2>3, <2>4, <4>2, <4>3, WallFacts
            <4>4. CASE j \in 1..Len(refreshes)
                BY <2>1, <4>1, <4>2, <4>4 DEF WallsOK, RefreshesOK
            <4>5. QED BY <2>2, <4>3, <4>4
        <3>5. QED BY <1>1, <2>1, <3>1, <3>2, <3>3, <3>4 DEF RefreshesOK, treeVars
    <2>6. ShownOK'
        <3>1. \A i \in 1..Len(refreshes') : InFlight(refreshes'[i]) => refreshes'[i].val = Failed
            BY <2>1, <2>2, <2>3, <2>4
        <3>2. warmed'.at # Never => warmed'.val >= shown'
            BY <1>9, <1>13
        <3>3. changes' = changes
            BY <1>1 DEF treeVars
        <3>4. QED BY <1>13, <3>1, <3>2, <3>3 DEF ShownOK
    <2>7. QED BY <1>1, <1>11, <2>5, <2>6 DEF WallsOK
<1>17. QED BY <1>1, <1>15, <1>16

LEMMA RefreshStep ==
    ASSUME ClockOK, WallsOK, NEW i \in DOMAIN refreshes, RefreshLooks(i) \/ RefreshEnds(i)
    PROVE  WallsOK' /\ UNCHANGED <<treeVars, readVars>>
<1>1. /\ i \in 1..Len(refreshes) /\ refreshes[i] \in AnyRead /\ ReadOK(refreshes[i], now, changes)
      /\ ReadsOK(refreshes, now, changes)
    BY DEF WallsOK, RefreshesOK, ReadsOK
<1>2. ASSUME NEW r \in AnyRead, ReadOK(r, now, changes), r.began = refreshes[i].began,
             refreshes' = [refreshes EXCEPT ![i] = r]
      PROVE  /\ ReadsOK(refreshes', now, changes) /\ Len(refreshes') = Len(refreshes) /\ refreshes'[i] = r
             /\ \A j \in 1..Len(refreshes) : j # i => refreshes'[j] = refreshes[j]
             /\ \A j \in 1..Len(refreshes) : refreshes'[j].began = refreshes[j].began
    <2> DEFINE s == [refreshes EXCEPT ![i] = r]
    <2>0. Len(s) = Len(refreshes)
        BY <1>1, <1>2, OneReadMoves
    <2>1. ReadsOK(s, now, changes)
        BY <1>1, <1>2, OneReadMoves
    <2>2. s[i] = r
        BY <1>1, <1>2, OneReadMoves
    <2>3. \A j \in 1..Len(refreshes) : j # i => s[j] = refreshes[j]
        BY <1>1, <1>2, OneReadMoves
    <2>4. refreshes' = s
        BY <1>2
    <2> HIDE DEF s
    <2>5. QED BY <1>2, <2>0, <2>1, <2>2, <2>3, <2>4
<1>3. CASE RefreshLooks(i)
    <2>1. PICK v \in {Tree, Failed} : refreshes' = [refreshes EXCEPT ![i] = [@ EXCEPT !.looked = TRUE, !.val = v]]
        BY <1>3 DEF RefreshLooks
    <2> DEFINE r == [refreshes[i] EXCEPT !.looked = TRUE, !.val = v]
    <2>2. refreshes' = [refreshes EXCEPT ![i] = r]
        BY <1>1, <2>1
    <2>3. ~refreshes[i].looked /\ UNCHANGED <<treeVars, readVars, warmed, shown>>
        BY <1>3 DEF RefreshLooks
    <2>4. /\ r \in AnyRead /\ ReadOK(r, now, changes) /\ r.began = refreshes[i].began /\ r.ended = refreshes[i].ended
          /\ r.val = v /\ InFlight(refreshes[i])
        BY <1>1, <2>1, <2>3, LooksOK
    <2> HIDE DEF r
    <2>5. /\ ReadsOK(refreshes', now, changes) /\ Len(refreshes') = Len(refreshes) /\ refreshes'[i] = r
          /\ \A j \in 1..Len(refreshes) : j # i => refreshes'[j] = refreshes[j]
          /\ \A j \in 1..Len(refreshes) : refreshes'[j].began = refreshes[j].began
        BY <1>2, <2>2, <2>4
    <2>6. \A j \in 1..Len(refreshes) : refreshes'[j].ended = refreshes[j].ended
        BY <2>4, <2>5
    <2>7. RefreshesOK'
        BY <2>3, <2>5, <2>6 DEF WallsOK, RefreshesOK, InFlight, treeVars
    <2>8. v # Failed => v >= shown /\ (warmed.at # Never => v >= warmed.val)
        BY <2>1 DEF Tree, WallsOK, WarmOK, ShownOK
    <2>9. ShownOK'
        <3>1. \A j \in 1..Len(refreshes) :
                 InFlight(refreshes'[j]) /\ refreshes'[j].val # Failed =>
                     refreshes'[j].val >= shown /\ (warmed.at # Never => refreshes'[j].val >= warmed.val)
            BY <2>4, <2>5, <2>8 DEF WallsOK, ShownOK
        <3>2. QED BY <2>3, <2>5, <3>1 DEF WallsOK, ShownOK, treeVars
    <2>10. WarmOK'
        BY <2>3 DEF WallsOK, WarmOK, treeVars
    <2>11. QED BY <2>3, <2>7, <2>9, <2>10 DEF WallsOK
<1>4. CASE RefreshEnds(i)
    <2> DEFINE r == [refreshes[i] EXCEPT !.ended = now]
    <2>1. /\ refreshes' = [refreshes EXCEPT ![i] = r] /\ InFlight(refreshes[i]) /\ refreshes[i].looked
          /\ warmed' = IF refreshes[i].val = Failed THEN [warmed EXCEPT !.refreshing = FALSE]
                       ELSE [warmed EXCEPT !.refreshing = FALSE, !.val = refreshes[i].val, !.at = now]
          /\ UNCHANGED <<treeVars, readVars, shown>>
        BY <1>1, <1>4 DEF RefreshEnds
    <2>2. r \in AnyRead /\ ReadOK(r, now, changes) /\ r.began = refreshes[i].began /\ ~InFlight(r)
        BY <1>1, <2>1, EndsOK
    <2> HIDE DEF r
    <2>3. /\ ReadsOK(refreshes', now, changes) /\ Len(refreshes') = Len(refreshes) /\ refreshes'[i] = r
          /\ \A j \in 1..Len(refreshes) : j # i => refreshes'[j] = refreshes[j]
          /\ \A j \in 1..Len(refreshes) : refreshes'[j].began = refreshes[j].began
        BY <1>2, <2>1, <2>2
    <2>4. \A j \in 1..Len(refreshes) : ~InFlight(refreshes'[j])
        BY <2>1, <2>2, <2>3 DEF WallsOK, RefreshesOK
    <2>5. warmed \in Warms /\ refreshes[i].val \in 0..MaxTree \cup {Failed} /\ now \in Time /\ FALSE \in BOOLEAN
        BY <1>1, WallFacts DEF AnyRead, ClockOK
    <2>6. warmed' \in Warms
        <3>1. CASE refreshes[i].val = Failed
            BY <2>1, <2>5, <3>1, Zenon DEF Warms
        <3>2. CASE refreshes[i].val # Failed
            <4>1. now \in Time \cup {Never}
                BY <2>5
            <4>2. warmed' = [warmed EXCEPT !.refreshing = FALSE, !.val = refreshes[i].val, !.at = now]
                BY <2>1, <3>2
            <4>3. QED BY <2>5, <4>1, <4>2, Zenon DEF Warms
        <3>3. QED BY <3>1, <3>2
    <2>7. warmed'.tried = warmed.tried /\ warmed'.asked = warmed.asked
        BY <2>1, <2>5 DEF Warms
    <2>8. /\ refreshes[i].val = Failed => warmed'.at = warmed.at /\ warmed'.val = warmed.val
          /\ refreshes[i].val # Failed => warmed'.at = now /\ warmed'.val = refreshes[i].val
        BY <2>1, <2>5 DEF Warms
    <2>9. refreshes[i].val # Failed => refreshes[i].val <= Len(changes) /\ refreshes[i].val >= shown
        BY <1>1, <2>1 DEF ReadOK, WallsOK, ShownOK
    <2>10. WarmOK'
        <3>1. warmed'.at # Never => warmed'.val # Failed /\ warmed'.val <= Len(changes)
            BY <2>8, <2>9 DEF WallsOK, WarmOK
        <3>2. warmed'.tried <= warmed'.asked /\ warmed'.asked <= now
            BY <2>7 DEF WallsOK, WarmOK
        <3>3. QED BY <2>1, <2>6, <3>1, <3>2 DEF WarmOK, Warms, treeVars
    <2>11. RefreshesOK'
        BY <2>1, <2>3, <2>4, <2>7 DEF WallsOK, RefreshesOK, treeVars
    <2>12. ShownOK'
        <3>1. warmed'.at # Never => warmed'.val >= shown
            BY <2>8, <2>9 DEF WallsOK, ShownOK
        <3>2. QED BY <2>1, <2>3, <2>4, <3>1 DEF WallsOK, ShownOK, treeVars
    <2>13. QED BY <2>1, <2>10, <2>11, <2>12 DEF WallsOK
<1>5. QED BY <1>3, <1>4

LEMMA SweepWarmStep ==
    ASSUME ClockOK, WallsOK, SweepWarm
    PROVE  WallsOK' /\ UNCHANGED <<treeVars, readVars>>
<1>1. Unasked /\ warmed' = NoWarm /\ UNCHANGED <<treeVars, readVars, refreshes, shown>>
    BY DEF SweepWarm
<1>2. \A i \in 1..Len(refreshes) : refreshes[i].began <= now - WarmTTL /\ ~InFlight(refreshes[i])
    BY <1>1, SweptIsOld
<1>3. 0 <= now /\ Never <= 0
    BY DEF ClockOK, Time, Never
<1>4. WarmOK'
    BY <1>1, <1>3, NoWarmFits DEF WarmOK, Warms, treeVars
<1>5. RefreshesOK'
    BY <1>1, <1>2, NoWarmFits DEF WallsOK, RefreshesOK, treeVars
<1>6. ShownOK'
    BY <1>1, <1>2, NoWarmFits DEF WallsOK, ShownOK, treeVars
<1>7. QED BY <1>1, <1>4, <1>5, <1>6 DEF WallsOK

----------------------------------------------------------------------------
(* A tree changes and time passes for both *)

LEMMA OlderStep ==
    ASSUME CacheInv, TreeChanges \/ TimePasses
    PROVE  CacheInv'
<1>1. UNCHANGED <<readVars, warmVars>>
    BY DEF TreeChanges, TimePasses
<1>2. ClockOK' /\ now' >= now /\ Len(changes') >= Len(changes) /\ now \in Int /\ now' \in Int /\ Len(changes) \in Nat /\ Len(changes') \in Nat
    BY ChangesLater, TimeAges DEF CacheInv, ClockOK, Time
<1>3. ReadsOK(reads, now', changes')
    <2>1. ReadsOK(reads, now, changes)
        BY DEF CacheInv, TabsOK
    <2>2. CASE TreeChanges
        BY <2>1, <2>2, ChangesLater DEF CacheInv
    <2>3. CASE TimePasses
        <3>1. \A i \in 1..Len(reads) : InFlight(reads[i]) => now - reads[i].began < ReadTime
            BY <2>1, <2>3 DEF TimePasses, ReadsOK
        <3>2. QED BY <2>1, <2>3, <3>1, TimeAges DEF CacheInv
    <2>4. QED BY <2>2, <2>3
<1>4. ReadsOK(refreshes, now', changes')
    <2>1. ReadsOK(refreshes, now, changes)
        BY DEF CacheInv, WallsOK, RefreshesOK
    <2>2. CASE TreeChanges
        BY <2>1, <2>2, ChangesLater DEF CacheInv
    <2>3. CASE TimePasses
        <3>1. \A i \in 1..Len(refreshes) : InFlight(refreshes[i]) => now - refreshes[i].began < ReadTime
            BY <2>1, <2>3 DEF TimePasses, ReadsOK
        <3>2. QED BY <2>1, <2>3, <3>1, TimeAges DEF CacheInv
    <2>4. QED BY <2>2, <2>3
<1>5. TabsOK'
    BY <1>1, <1>3, TabsUndisturbed DEF CacheInv
<1>6. WallsOK'
    <2>1. UNCHANGED <<warmed, refreshes, shown>>
        BY <1>1 DEF warmVars
    <2>2. WarmOK'
        <3>1. warmed \in Warms /\ warmed.asked \in Int /\ warmed.val \in Int
            BY WallFacts DEF CacheInv, Warms, Failed
        <3>2. QED BY <1>2, <2>1, <3>1 DEF CacheInv, WallsOK, WarmOK
    <2>3. RefreshesOK'
        <3>1. \A i \in 1..Len(refreshes) :
                 refreshes[i].began <= IF warmed.tried = Never THEN now' - WarmTTL ELSE warmed.tried
            BY <1>2, WallFacts DEF CacheInv, WallsOK, RefreshesOK
        <3>2. QED BY <1>4, <2>1, <3>1 DEF CacheInv, WallsOK, RefreshesOK
    <2>4. ShownOK'
        BY <1>2, <2>1 DEF CacheInv, WallsOK, ShownOK
    <2>5. QED BY <2>2, <2>3, <2>4 DEF WallsOK
<1>7. QED BY <1>2, <1>5, <1>6 DEF CacheInv

LEMMA WallsUndisturbed ==
    ASSUME WallsOK, UNCHANGED <<treeVars, warmVars>>
    PROVE  WallsOK'
BY DEF WallsOK, WarmOK, RefreshesOK, ShownOK, treeVars, warmVars

LEMMA CacheStep ==
    ASSUME CacheInv, [ReadsNext \/ WarmNext]_cacheVars
    PROVE  CacheInv'
<1>1. UNCHANGED treeVars => ClockOK'
    BY DEF CacheInv, ClockOK, treeVars
<1>2. UNCHANGED <<treeVars, readVars>> => TabsOK'
    BY DEF CacheInv, TabsOK, CallerOK, treeVars, readVars
<1>3. CASE TreeChanges \/ TimePasses
    BY <1>3, OlderStep
<1>4. CASE Sweep
    BY <1>1, <1>4, SweepStep, WallsUndisturbed DEF CacheInv
<1>5. ASSUME NEW c \in Callers, Once(c) PROVE CacheInv'
    BY <1>1, <1>5, OnceStep, WallsUndisturbed DEF CacheInv
<1>6. CASE Poll
    BY <1>1, <1>2, <1>6, PollStep DEF CacheInv
<1>7. CASE SweepWarm
    BY <1>1, <1>2, <1>7, SweepWarmStep DEF CacheInv
<1>8. ASSUME NEW i \in DOMAIN refreshes, RefreshLooks(i) \/ RefreshEnds(i) PROVE CacheInv'
    BY <1>1, <1>2, <1>8, RefreshStep DEF CacheInv
<1>9. CASE UNCHANGED cacheVars
    BY <1>1, <1>2, <1>9, WallsUndisturbed DEF CacheInv, cacheVars, treeVars, readVars, warmVars
<1>10. QED BY <1>3, <1>4, <1>5, <1>6, <1>7, <1>8, <1>9 DEF ReadsNext, WarmNext

LEMMA CacheInvReads ==
    ASSUME CacheInv
    PROVE  ReadsShared
<1>1. reads \in Seq(AnyRead) /\ refreshes \in Seq(AnyRead) /\ DOMAIN reads = 1..Len(reads) /\ DOMAIN refreshes = 1..Len(refreshes)
    BY DEF CacheInv, TabsOK, WallsOK, RefreshesOK, ReadsOK
<1>2. OneReadAtATime
    BY <1>1 DEF OneReadAtATime, CacheInv, TabsOK
<1>3. AnswersRecent
    <2>1. SUFFICES ASSUME NEW c \in Callers, caller[c].at = "told",
                          reads[caller[c].on].val # Failed, reads[caller[c].on].val < Tree
                   PROVE  changes[reads[caller[c].on].val + 1] >= caller[c].asked - TTL - ReadTime
        BY DEF AnswersRecent
    <2> DEFINE r == reads[caller[c].on]
    <2>2. r \in AnyRead /\ ReadOK(r, now, changes) /\ r.began >= caller[c].asked - TTL - ReadTime
        BY <2>1 DEF CacheInv, TabsOK, CallerOK, ReadsOK
    <2>3. changes[r.val + 1] >= r.began
        BY <2>1, <2>2 DEF ReadOK, Tree
    <2>4. changes \in Seq(Time) /\ r.val + 1 \in 1..Len(changes)
        BY <2>1, <2>2 DEF CacheInv, ClockOK, AnyRead, Tree, Failed
    <2>5. {TTL, ReadTime} \subseteq Nat /\ caller[c].asked \in Int /\ r.began \in Int /\ changes[r.val + 1] \in Int
        <3>1. changes[r.val + 1] \in Time
            BY <2>4
        <3>2. caller[c].asked \in Time
            BY DEF CacheInv, TabsOK
        <3>3. r.began \in Time
            BY <2>2 DEF AnyRead
        <3>4. {TTL, ReadTime} \subseteq Nat /\ Time \subseteq Int
            BY CacheAssumption DEF Time
        <3>5. QED BY <3>1, <3>2, <3>3, <3>4
    <2>6. QED BY <2>2, <2>3, <2>5
<1>4. RefreshesSpaced
    BY <1>1 DEF RefreshesSpaced, CacheInv, WallsOK, RefreshesOK
<1>5. WallGoesForward
    BY DEF WallGoesForward, CacheInv, WallsOK, ShownOK
<1>6. QED BY <1>2, <1>3, <1>4, <1>5 DEF ReadsShared

LEMMA CacheInvType ==
    ASSUME CacheInv
    PROVE  CacheTypeOK
<1>1. reads \in Seq(AnyRead) /\ refreshes \in Seq(AnyRead) /\ Len(reads) <= MaxReads /\ {MaxReads, MaxTree} \subseteq Nat
    BY CacheAssumption DEF CacheInv, TabsOK, WallsOK, RefreshesOK, ReadsOK
<1>2. (\A i \in DOMAIN reads : reads[i] \in AnyRead) /\ \A i \in DOMAIN refreshes : refreshes[i] \in AnyRead
    BY <1>1
<1>3. now \in Time /\ DOMAIN changes \subseteq 1..MaxTree /\ Len(changes) \in 0..MaxTree
    BY <1>1 DEF CacheInv, ClockOK
<1>4. current \in 0..MaxReads /\ shown \in 0..MaxTree
    BY <1>1, <1>3 DEF CacheInv, TabsOK, WallsOK, ShownOK
<1>5. QED BY <1>2, <1>3, <1>4 DEF CacheTypeOK, CacheInv, TabsOK, WallsOK, WarmOK

\* A working tree is read once for everybody who asks at a time, nobody is told
\* what is older than the time to live, a wall's refreshes keep their distance and
\* what it shows never goes back: for any number of callers, reads and changes and
\* any times, as long as a wall forgets a tree no sooner than it would refresh it
\* (once, warm).
THEOREM ReadsSharedCorrect == CacheSpec => []ReadsShared
<1>1. CacheSpec => []CacheInv
    BY CacheBegins, CacheStep, PTL DEF CacheSpec
<1>2. QED BY <1>1, CacheInvReads, PTL

\* The types of the caches, and that no more reads are made than there may be.
THEOREM CacheTypeCorrect == CacheSpec => []CacheTypeOK
<1>1. CacheSpec => []CacheInv
    BY CacheBegins, CacheStep, PTL DEF CacheSpec
<1>2. QED BY <1>1, CacheInvType, PTL

----------------------------------------------------------------------------
(* UsageIngest: the pass over the transcripts                              *)
----------------------------------------------------------------------------

FileSet == [known : BOOLEAN, stamp : 0..MaxWrites, gone : BOOLEAN, problem : BOOLEAN, counts : SUBSET Requests, labels : Zones]
DiskSet == [there : BOOLEAN, stamp : 0..MaxWrites, text : SUBSET Requests]
SetterSet == [at : {"idle", "sets", "waits", "forgets"}, before : Zones, name : Zones]
Ats == {"idle", "begins", "walks", "visits", "stats", "reads", "asks", "replaces"}
PassSet ==
    [at : Ats, stamps : [Paths -> Int], refs : [Paths -> Int], complete : BOOLEAN, left : SUBSET Paths,
     path : Paths \cup {Nobody}, stamp : 0..MaxWrites, problem : BOOLEAN, text : SUBSET Requests, labels : Zones]

\* The states where a pass is at one transcript.
AtOne == {"stats", "reads", "asks", "replaces"}

TablesOK ==
    /\ disk \in [Paths -> DiskSet] /\ writes \in 0..MaxWrites
    /\ files \in [Paths -> FileSet] /\ holder \in [Requests -> Paths \cup {Nobody}]
    /\ ever \subseteq Requests

ZonesOK == zone \in Zones /\ loc \in Zones /\ setter \in [Setters -> SetterSet]

PassOK == pass \in PassSet /\ (pass.at \in AtOne => pass.path \in Paths)

FlagsOK == running \in BOOLEAN /\ cutOff \in BOOLEAN /\ failed \in 0..MaxFailures

\* One at a time: the pass, or the one that forgets.
OneRuns ==
    /\ pass.at # "idle" => running /\ \A s \in Setters : setter[s].at # "forgets"
    /\ \A s, t \in Setters : setter[s].at = "forgets" => running /\ (setter[t].at = "forgets" => s = t)

\* usage_requests says of each request which transcript counts it; of what a pass
\* is about to write none is held by another.
HeldOK ==
    /\ \A r \in Requests : \A p \in Paths : r \in files[p].counts <=> holder[r] = p
    /\ pass.at = "replaces" => \A r \in pass.text : ~HeldElsewhere(pass.path, r)

UsageInv == TablesOK /\ ZonesOK /\ PassOK /\ FlagsOK /\ OneRuns /\ HeldOK

LEMMA ZoneThere == AnyZone \in Zones
BY UsageAssumption DEF AnyZone

LEMMA IdleFits == Idle \in PassSet /\ Idle.at = "idle"
<1>1. [p \in Paths |-> -1] \in [Paths -> Int]
    OBVIOUS
<1>2. FALSE \in BOOLEAN /\ "idle" \in Ats /\ {} \in SUBSET Paths /\ {} \in SUBSET Requests /\ Nobody \in Paths \cup {Nobody}
    BY DEF Ats
<1>3. 0 \in 0..MaxWrites
    BY UsageAssumption
<1>4. Idle \in PassSet
    BY <1>1, <1>2, <1>3, ZoneThere, Zenon DEF Idle, PassSet
<1>5. QED BY <1>4 DEF Idle

LEMMA PassMoves ==
    ASSUME NEW q \in PassSet
    PROVE  /\ \A a \in Ats : [q EXCEPT !.at = a] \in PassSet
           /\ [Idle EXCEPT !.at = "begins"] \in PassSet
           /\ \A a \in Ats, n \in [Paths -> Int] : [q EXCEPT !.at = a, !.stamps = n] \in PassSet
           /\ \A a \in Ats, b \in BOOLEAN, n \in [Paths -> Int], S \in SUBSET Paths :
                 [q EXCEPT !.at = a, !.complete = b, !.refs = n, !.left = S] \in PassSet
           /\ \A S \in SUBSET Paths : [q EXCEPT !.left = S] \in PassSet
           /\ \A a \in Ats, S \in SUBSET Paths, p \in Paths : [q EXCEPT !.left = S, !.at = a, !.path = p] \in PassSet
           /\ \A a \in Ats, b \in BOOLEAN, T \in SUBSET Requests, n \in 0..MaxWrites, z \in Zones :
                 [q EXCEPT !.at = a, !.problem = b, !.text = T, !.stamp = n, !.labels = z] \in PassSet
           /\ \A a \in Ats, T \in SUBSET Requests : [q EXCEPT !.at = a, !.text = T] \in PassSet
           /\ \A a \in Ats, b \in BOOLEAN : [q EXCEPT !.at = a, !.problem = b] \in PassSet
           /\ [q EXCEPT !.at = "visits", !.path = Nobody, !.stamp = 0, !.problem = FALSE, !.text = {}, !.labels = AnyZone] \in PassSet
<1>1. FALSE \in BOOLEAN /\ "begins" \in Ats /\ "visits" \in Ats /\ {} \in SUBSET Requests /\ Nobody \in Paths \cup {Nobody}
    BY DEF Ats
<1>2. 0 \in 0..MaxWrites
    BY UsageAssumption
<1>3. [Idle EXCEPT !.at = "begins"] \in PassSet
    BY <1>1, IdleFits, Zenon DEF PassSet
<1>4. [q EXCEPT !.at = "visits", !.path = Nobody, !.stamp = 0, !.problem = FALSE, !.text = {}, !.labels = AnyZone] \in PassSet
    BY <1>1, <1>2, ZoneThere, Zenon DEF PassSet
<1>5. \A p \in Paths : p \in Paths \cup {Nobody}
    OBVIOUS
<1>6. \A a \in Ats : [q EXCEPT !.at = a] \in PassSet
    BY Zenon DEF PassSet
<1>7. \A a \in Ats, n \in [Paths -> Int] : [q EXCEPT !.at = a, !.stamps = n] \in PassSet
    BY Zenon DEF PassSet
<1>8. \A a \in Ats, b \in BOOLEAN, n \in [Paths -> Int], S \in SUBSET Paths :
         [q EXCEPT !.at = a, !.complete = b, !.refs = n, !.left = S] \in PassSet
    BY Zenon DEF PassSet
<1>9. \A S \in SUBSET Paths : [q EXCEPT !.left = S] \in PassSet
    BY Zenon DEF PassSet
<1>10. \A a \in Ats, S \in SUBSET Paths, p \in Paths : [q EXCEPT !.left = S, !.at = a, !.path = p] \in PassSet
    BY <1>5, Zenon DEF PassSet
<1>11. \A a \in Ats, b \in BOOLEAN, T \in SUBSET Requests, n \in 0..MaxWrites, z \in Zones :
          [q EXCEPT !.at = a, !.problem = b, !.text = T, !.stamp = n, !.labels = z] \in PassSet
    BY Zenon DEF PassSet
<1>12. \A a \in Ats, T \in SUBSET Requests : [q EXCEPT !.at = a, !.text = T] \in PassSet
    BY Zenon DEF PassSet
<1>13. \A a \in Ats, b \in BOOLEAN : [q EXCEPT !.at = a, !.problem = b] \in PassSet
    BY Zenon DEF PassSet
<1>14. QED BY <1>3, <1>4, <1>6, <1>7, <1>8, <1>9, <1>10, <1>11, <1>12, <1>13

LEMMA TablesStep ==
    ASSUME TablesOK, ZonesOK, PassOK, [UsageNext]_usageVars
    PROVE  TablesOK'
<1>1. /\ disk \in [Paths -> DiskSet] /\ writes \in 0..MaxWrites /\ MaxWrites \in Nat
      /\ files \in [Paths -> FileSet] /\ holder \in [Requests -> Paths \cup {Nobody}]
      /\ ever \subseteq Requests /\ pass \in PassSet
    BY UsageAssumption DEF TablesOK, PassOK
<1>2. UNCHANGED <<agentVars, tableVars>> => TablesOK'
    BY DEF TablesOK, agentVars, tableVars
<1>3. ASSUME NEW p \in Paths, NEW text \in SUBSET Requests, Write(p, text)
      PROVE  TablesOK'
    <2>1. writes' \in 0..MaxWrites /\ UNCHANGED tableVars
        BY <1>1, <1>3 DEF Write
    <2> DEFINE n == [there |-> TRUE, stamp |-> writes', text |-> text]
    <2>2. n \in DiskSet
        <3>1. TRUE \in BOOLEAN
            OBVIOUS
        <3>2. QED BY <2>1, <3>1, Zenon DEF DiskSet
    <2>3. disk' = [disk EXCEPT ![p] = n]
        BY <1>3 DEF Write
    <2> HIDE DEF n
    <2>4. disk' \in [Paths -> DiskSet]
        BY <1>1, <2>2, <2>3
    <2>5. QED BY <1>1, <2>1, <2>4 DEF TablesOK, tableVars
<1>4. ASSUME NEW p \in Paths, Vanish(p)
      PROVE  TablesOK'
    <2>1. FALSE \in BOOLEAN /\ disk[p] \in DiskSet
        BY <1>1
    <2>2. [disk[p] EXCEPT !.there = FALSE] \in DiskSet
        BY <2>1, Zenon DEF DiskSet
    <2>3. disk' = [disk EXCEPT ![p] = [disk[p] EXCEPT !.there = FALSE]] /\ UNCHANGED <<writes, tableVars>>
        BY <1>1, <1>4 DEF Vanish
    <2>4. disk' \in [Paths -> DiskSet]
        BY <1>1, <2>2, <2>3
    <2>5. QED BY <1>1, <2>3, <2>4 DEF TablesOK, tableVars
<1>5. CASE Replace
    <2> DEFINE n == [known |-> TRUE, stamp |-> pass.stamp, gone |-> FALSE, problem |-> pass.problem,
                     counts |-> pass.text, labels |-> pass.labels]
    <2>1. n \in FileSet
        <3>1. TRUE \in BOOLEAN /\ FALSE \in BOOLEAN
            OBVIOUS
        <3>2. pass.stamp \in 0..MaxWrites /\ pass.problem \in BOOLEAN /\ pass.text \in SUBSET Requests /\ pass.labels \in Zones
            BY <1>1, Zenon DEF PassSet
        <3>3. QED BY <3>1, <3>2, Zenon DEF FileSet
    <2>2. pass.path \in Paths /\ pass.text \subseteq Requests
        BY <1>1, <1>5 DEF Replace, PassOK, AtOne, PassSet
    <2>3. files' = [files EXCEPT ![pass.path] = n] /\ UNCHANGED agentVars /\ ever' = ever \cup pass.text
        BY <1>5 DEF Replace
    <2> HIDE DEF n
    <2>4. files' \in [Paths -> FileSet]
        BY <1>1, <2>1, <2>3
    <2>5. holder' \in [Requests -> Paths \cup {Nobody}]
        BY <1>1, <1>5, <2>2 DEF Replace
    <2>6. QED BY <1>1, <2>2, <2>3, <2>4, <2>5 DEF TablesOK, agentVars
<1>6. CASE Retire
    <2>1. \A p \in Paths : [files[p] EXCEPT !.gone = TRUE] \in FileSet
        <3>1. TRUE \in BOOLEAN
            OBVIOUS
        <3>2. QED BY <1>1, <3>1, Zenon DEF FileSet
    <2>2. files' = [p \in Paths |-> IF pass.complete /\ pass.stamps[p] # -1 /\ pass.refs[p] = -1
                                    THEN [files[p] EXCEPT !.gone = TRUE] ELSE files[p]]
        BY <1>6 DEF Retire
    <2>3. files' \in [Paths -> FileSet]
        BY <1>1, <2>1, <2>2
    <2>4. QED BY <1>1, <1>6, <2>3 DEF Retire, TablesOK, agentVars
<1>7. ASSUME NEW s \in Setters, Forget(s)
      PROVE  TablesOK'
    <2>1. Unknown \in FileSet
        <3>1. FALSE \in BOOLEAN /\ {} \in SUBSET Requests /\ 0 \in 0..MaxWrites
            BY <1>1
        <3>2. QED BY <3>1, ZoneThere, Zenon DEF Unknown, FileSet
    <2>2. files' = [p \in Paths |-> IF files[p].gone THEN files[p] ELSE Unknown]
        BY <1>7 DEF Forget
    <2>3. files' \in [Paths -> FileSet]
        BY <1>1, <2>1, <2>2
    <2>4. holder' \in [Requests -> Paths \cup {Nobody}]
        BY <1>1, <1>7 DEF Forget
    <2>5. QED BY <1>1, <1>7, <2>3, <2>4 DEF Forget, TablesOK, agentVars
<1>8. ASSUME NEW s \in Setters, SetZone(s) \/ Rezone(s) \/ ForgetFails(s) \/ \E z \in Zones : Asked(s, z)
      PROVE  TablesOK'
    BY <1>2, <1>8 DEF SetZone, Rezone, ForgetFails, Asked
<1>9. CASE \/ Ensure \/ TakeStamps \/ Walk \/ WalkFails \/ Visit \/ Stat \/ Read \/ ReadFails \/ AskHeld
           \/ StoreFails \/ UsageRestarts \/ UNCHANGED usageVars
    BY <1>2, <1>9 DEF Ensure, TakeStamps, Walk, WalkFails, Visit, Stat, Read, ReadFails, AskHeld, StoreFails,
                      UsageRestarts, usageVars, agentVars, tableVars
<1>10. QED BY <1>3, <1>4, <1>5, <1>6, <1>7, <1>8, <1>9 DEF UsageNext, Passes, Rezones

LEMMA ZonesStep ==
    ASSUME ZonesOK, [UsageNext]_usageVars
    PROVE  ZonesOK'
<1>1. UNCHANGED <<zone, loc, setter>> => ZonesOK'
    BY DEF ZonesOK
<1>2. Away \in SetterSet
    BY ZoneThere DEF Away, SetterSet
<1>3. ASSUME NEW s \in Setters, \/ Rezones(s) \/ ForgetFails(s) \/ \E z \in Zones : Asked(s, z)
      PROVE  ZonesOK'
    <2>1. setter[s] \in SetterSet
        BY DEF ZonesOK
    <2>2. \A a \in {"idle", "sets", "waits", "forgets"} : [setter[s] EXCEPT !.at = a] \in SetterSet
        BY <2>1 DEF SetterSet
    <2>3. CASE SetZone(s)
        BY <1>2, <2>1, <2>2, <2>3 DEF SetZone, ZonesOK, SetterSet
    <2>4. CASE Rezone(s)
        <3>1. setter' = [setter EXCEPT ![s] = [setter[s] EXCEPT !.at = "forgets"]] /\ loc' = setter[s].name /\ zone' = zone
            BY <2>1, <2>4 DEF Rezone, ZonesOK
        <3>2. setter[s].name \in Zones
            BY <2>1 DEF SetterSet
        <3>3. QED BY <2>2, <3>1, <3>2 DEF ZonesOK
    <2>5. CASE Forget(s) \/ ForgetFails(s)
        BY <1>2, <2>5 DEF Forget, ForgetFails, ZonesOK
    <2>6. ASSUME NEW z \in Zones, Asked(s, z) PROVE ZonesOK'
        <3>1. [at |-> "sets", before |-> zone, name |-> z] \in SetterSet
            BY DEF SetterSet, ZonesOK
        <3>2. QED BY <2>6, <3>1 DEF Asked, ZonesOK
    <2>7. QED BY <1>3, <2>3, <2>4, <2>5, <2>6 DEF Rezones
<1>4. CASE UsageRestarts
    BY <1>2, <1>4 DEF UsageRestarts, ZonesOK
<1>5. ASSUME NEW p \in Paths, Vanish(p) \/ \E text \in SUBSET Requests : Write(p, text) PROVE ZonesOK'
    BY <1>1, <1>5 DEF Vanish, Write, zoneVars
<1>6. CASE \/ Ensure \/ TakeStamps \/ Walk \/ WalkFails \/ Visit \/ Stat \/ Read \/ ReadFails \/ AskHeld
           \/ StoreFails \/ Replace \/ Retire \/ UNCHANGED usageVars
    BY <1>1, <1>6 DEF Ensure, TakeStamps, Walk, WalkFails, Visit, Stat, Read, ReadFails, AskHeld, StoreFails, Replace, Retire,
                      usageVars, zoneVars
<1>7. QED BY <1>3, <1>4, <1>5, <1>6 DEF UsageNext, Passes

LEMMA StampsTyped ==
    ASSUME TablesOK
    PROVE  /\ [p \in Paths |-> IF files[p].known /\ ~files[p].gone THEN files[p].stamp ELSE -1] \in [Paths -> Int]
           /\ \A S : Found(S) \in [Paths -> Int]
BY DEF TablesOK, FileSet, DiskSet, Found

\* What each step of a pass leaves of it, field by field.
LEMMA PassFields ==
    ASSUME PassOK
    PROVE  /\ Ensure => pass'.at = "begins" /\ pass'.left = {} /\ pass'.path = Nobody
           /\ TakeStamps => pass'.at = "walks" /\ pass'.stamps = [p \in Paths |-> IF files[p].known /\ ~files[p].gone THEN files[p].stamp ELSE -1]
           /\ Walk \/ WalkFails =>
                 /\ pass'.at = "visits" /\ pass'.stamps = pass.stamps
                 /\ pass'.refs = Found(pass'.left) /\ \A p \in pass'.left : disk[p].there
                 /\ pass'.complete => pass'.left = {p \in Paths : disk[p].there}
           /\ Replace => pass'.at = "visits" /\ pass'.left = pass.left /\ pass'.stamps = pass.stamps /\ pass'.refs = pass.refs
                         /\ pass'.complete = pass.complete
           /\ Stat =>
                 /\ pass'.at = IF disk[pass.path].there THEN "reads" ELSE "asks"
                 /\ pass'.left = pass.left /\ pass'.stamps = pass.stamps /\ pass'.refs = pass.refs
                 /\ pass'.path = pass.path /\ pass'.labels = loc /\ pass'.text = {} /\ pass'.complete = pass.complete
                 /\ pass'.problem = ~disk[pass.path].there
                 /\ pass'.stamp = IF disk[pass.path].there THEN disk[pass.path].stamp ELSE 0
           /\ Read =>
                 /\ pass'.at = "asks" /\ pass'.left = pass.left /\ pass'.stamps = pass.stamps /\ pass'.refs = pass.refs
                 /\ pass'.path = pass.path /\ pass'.labels = pass.labels /\ pass'.text = disk[pass.path].text
                 /\ pass'.problem = pass.problem /\ pass'.stamp = pass.stamp /\ pass'.complete = pass.complete
           /\ ReadFails =>
                 /\ pass'.at = "asks" /\ pass'.left = pass.left /\ pass'.stamps = pass.stamps /\ pass'.refs = pass.refs
                 /\ pass'.path = pass.path /\ pass'.labels = pass.labels /\ pass'.text = pass.text
                 /\ pass'.problem = TRUE /\ pass'.stamp = pass.stamp /\ pass'.complete = pass.complete
           /\ AskHeld =>
                 /\ pass'.at = "replaces" /\ pass'.left = pass.left /\ pass'.stamps = pass.stamps /\ pass'.refs = pass.refs
                 /\ pass'.path = pass.path /\ pass'.labels = pass.labels
                 /\ pass'.text = {r \in pass.text : ~HeldElsewhere(pass.path, r)}
                 /\ pass'.problem = pass.problem /\ pass'.stamp = pass.stamp /\ pass'.complete = pass.complete
           /\ Retire \/ UsageRestarts => pass' = Idle
           /\ StoreFails =>
                 \/ pass' = Idle
                 \/ /\ pass'.at = "visits" /\ pass'.left = pass.left /\ pass'.stamps = pass.stamps /\ pass'.refs = pass.refs
                    /\ running' = running /\ pass.at \in {"asks", "replaces"} /\ pass'.complete = pass.complete
<1>1. pass \in PassSet
    BY DEF PassOK
<1>2. Ensure => pass'.at = "begins" /\ pass'.left = {} /\ pass'.path = Nobody
    BY DEF Ensure, Idle
<1>3. TakeStamps => pass'.at = "walks" /\ pass'.stamps = [p \in Paths |-> IF files[p].known /\ ~files[p].gone THEN files[p].stamp ELSE -1]
    BY <1>1 DEF TakeStamps, PassSet
<1>4. ASSUME Walk \/ WalkFails
      PROVE  /\ pass'.at = "visits" /\ pass'.stamps = pass.stamps
             /\ pass'.refs = Found(pass'.left) /\ \A p \in pass'.left : disk[p].there
             /\ pass'.complete => pass'.left = {p \in Paths : disk[p].there}
    <2>1. PICK S \in SUBSET {p \in Paths : disk[p].there}, b \in BOOLEAN :
             /\ pass' = [pass EXCEPT !.at = "visits", !.complete = b, !.refs = Found(S), !.left = S]
             /\ b => S = {p \in Paths : disk[p].there}
        <3>1. CASE Walk
            <4> DEFINE S == {p \in Paths : disk[p].there}
            <4>1. pass' = [pass EXCEPT !.at = "visits", !.complete = TRUE, !.refs = Found(S), !.left = S]
                BY <3>1 DEF Walk
            <4>2. S \in SUBSET {p \in Paths : disk[p].there} /\ TRUE \in BOOLEAN
                OBVIOUS
            <4> HIDE DEF S
            <4>3. S = {p \in Paths : disk[p].there}
                BY DEF S
            <4>4. QED BY <4>1, <4>2, <4>3, Zenon
        <3>2. CASE WalkFails
            <4>1. PICK S \in SUBSET {p \in Paths : disk[p].there} :
                     pass' = [pass EXCEPT !.at = "visits", !.complete = FALSE, !.refs = Found(S), !.left = S]
                BY <3>2 DEF WalkFails
            <4>2. FALSE \in BOOLEAN
                OBVIOUS
            <4>3. QED BY <4>1, <4>2, Zenon
        <3>3. QED BY <1>4, <3>1, <3>2
    <2>2. pass'.left = S /\ pass'.refs = Found(S) /\ pass'.at = "visits" /\ pass'.stamps = pass.stamps /\ pass'.complete = b
        BY <1>1, <2>1, Zenon DEF PassSet
    <2>3. QED BY <2>1, <2>2
<1>5. Replace => pass'.at = "visits" /\ pass'.left = pass.left /\ pass'.stamps = pass.stamps /\ pass'.refs = pass.refs
                 /\ pass'.complete = pass.complete
    <2>1. Replace => pass' = [pass EXCEPT !.at = "visits", !.path = Nobody, !.stamp = 0, !.problem = FALSE,
                                          !.text = {}, !.labels = AnyZone]
        BY DEF Replace, Leaves
    <2>2. QED BY <1>1, <2>1, Zenon DEF PassSet
<1>6. ASSUME Stat
      PROVE  /\ pass'.at = IF disk[pass.path].there THEN "reads" ELSE "asks"
             /\ pass'.left = pass.left /\ pass'.stamps = pass.stamps /\ pass'.refs = pass.refs
             /\ pass'.path = pass.path /\ pass'.labels = loc /\ pass'.text = {} /\ pass'.complete = pass.complete
             /\ pass'.problem = ~disk[pass.path].there
             /\ pass'.stamp = IF disk[pass.path].there THEN disk[pass.path].stamp ELSE 0
    <2> DEFINE there == disk[pass.path].there
    <2>1. pass' = [pass EXCEPT !.at = IF there THEN "reads" ELSE "asks", !.problem = ~there, !.text = {},
                               !.stamp = IF there THEN disk[pass.path].stamp ELSE 0, !.labels = loc]
        BY <1>6 DEF Stat
    <2> HIDE DEF there
    <2>2. /\ pass'.at = IF there THEN "reads" ELSE "asks"
          /\ pass'.left = pass.left /\ pass'.stamps = pass.stamps /\ pass'.refs = pass.refs
          /\ pass'.path = pass.path /\ pass'.labels = loc /\ pass'.text = {} /\ pass'.complete = pass.complete
          /\ pass'.problem = ~there
          /\ pass'.stamp = IF there THEN disk[pass.path].stamp ELSE 0
        BY <1>1, <2>1, Zenon DEF PassSet
    <2>3. QED BY <2>2, Zenon DEF there
<1>7. Read => /\ pass'.at = "asks" /\ pass'.left = pass.left /\ pass'.stamps = pass.stamps /\ pass'.refs = pass.refs
              /\ pass'.path = pass.path /\ pass'.labels = pass.labels /\ pass'.text = disk[pass.path].text
              /\ pass'.problem = pass.problem /\ pass'.stamp = pass.stamp /\ pass'.complete = pass.complete
    BY <1>1, Zenon DEF Read, PassSet
<1>8. ReadFails => /\ pass'.at = "asks" /\ pass'.left = pass.left /\ pass'.stamps = pass.stamps /\ pass'.refs = pass.refs
                   /\ pass'.path = pass.path /\ pass'.labels = pass.labels /\ pass'.text = pass.text
                   /\ pass'.problem = TRUE /\ pass'.stamp = pass.stamp /\ pass'.complete = pass.complete
    BY <1>1, Zenon DEF ReadFails, PassSet
<1>9. AskHeld => /\ pass'.at = "replaces" /\ pass'.left = pass.left /\ pass'.stamps = pass.stamps /\ pass'.refs = pass.refs
                 /\ pass'.path = pass.path /\ pass'.labels = pass.labels
                 /\ pass'.text = {r \in pass.text : ~HeldElsewhere(pass.path, r)}
                 /\ pass'.problem = pass.problem /\ pass'.stamp = pass.stamp /\ pass'.complete = pass.complete
    BY <1>1, Zenon DEF AskHeld, PassSet
<1>10. Retire \/ UsageRestarts => pass' = Idle
    BY DEF Retire, UsageRestarts
<1>11. ASSUME StoreFails
       PROVE  \/ pass' = Idle
              \/ /\ pass'.at = "visits" /\ pass'.left = pass.left /\ pass'.stamps = pass.stamps /\ pass'.refs = pass.refs
                 /\ running' = running /\ pass.at \in {"asks", "replaces"} /\ pass'.complete = pass.complete
    <2>1. CASE Leaves
        BY <1>1, <1>11, <2>1, Zenon DEF Leaves, StoreFails, PassSet
    <2>2. CASE pass' = Idle
        BY <2>2
    <2>3. QED BY <1>11, <2>1, <2>2 DEF StoreFails
<1>12. QED BY <1>2, <1>3, <1>4, <1>5, <1>6, <1>7, <1>8, <1>9, <1>10, <1>11

\* The visit of the next transcript: passed over, or the one the pass is at.
LEMMA VisitFields ==
    ASSUME PassOK, Visit
    PROVE  \E p \in pass.left :
             /\ p \in Paths /\ pass'.left = pass.left \ {p} /\ pass'.stamps = pass.stamps /\ pass'.refs = pass.refs
             /\ pass'.complete = pass.complete
             /\ \/ pass.refs[p] = pass.stamps[p] /\ pass'.at = "visits"
                \/ pass.refs[p] # pass.stamps[p] /\ pass'.at = "stats" /\ pass'.path = p
<1>1. pass \in PassSet /\ pass.at = "visits"
    BY DEF PassOK, Visit
<1>2. PICK p \in pass.left : pass' = IF pass.refs[p] = pass.stamps[p]
                                     THEN [pass EXCEPT !.left = @ \ {p}]
                                     ELSE [pass EXCEPT !.left = @ \ {p}, !.at = "stats", !.path = p]
    BY DEF Visit
<1>3. p \in Paths
    BY <1>1 DEF PassSet
<1>4. CASE pass.refs[p] = pass.stamps[p]
    BY <1>1, <1>2, <1>3, <1>4 DEF PassSet
<1>5. CASE pass.refs[p] # pass.stamps[p]
    BY <1>1, <1>2, <1>3, <1>5 DEF PassSet
<1>6. QED BY <1>4, <1>5

LEMMA PassStep ==
    ASSUME TablesOK, ZonesOK, PassOK, [UsageNext]_usageVars
    PROVE  PassOK'
<1>1. pass \in PassSet /\ Ats = AtOne \cup {"idle", "begins", "walks", "visits"}
    BY DEF PassOK, Ats, AtOne
<1>2. pass' = pass => PassOK'
    BY DEF PassOK
<1>3. (pass' = Idle \/ pass' = [Idle EXCEPT !.at = "begins"]) => PassOK'
    <2>1. Idle \in PassSet /\ Idle.at \notin AtOne
        BY IdleFits DEF AtOne
    <2>2. [Idle EXCEPT !.at = "begins"] \in PassSet
        BY <1>1, PassMoves
    <2>3. [Idle EXCEPT !.at = "begins"].at \notin AtOne
        BY DEF Idle, AtOne
    <2>4. QED BY <2>1, <2>2, <2>3, Zenon DEF PassOK
<1>4. (pass.at \in AtOne => pass.path \in Paths) /\ loc \in Zones /\ TRUE \in BOOLEAN /\ FALSE \in BOOLEAN
    BY DEF PassOK, ZonesOK
<1>5. CASE Ensure \/ Retire \/ UsageRestarts
    BY <1>3, <1>5 DEF Ensure, Retire, UsageRestarts
<1>6. CASE TakeStamps
    <2>1. pass' \in PassSet
        BY <1>1, <1>6, StampsTyped, PassMoves DEF TakeStamps, Ats
    <2>2. QED BY <1>6, <2>1, PassFields DEF PassOK, AtOne
<1>7. CASE Walk \/ WalkFails
    <2>1. pass' \in PassSet
        <3>1. CASE Walk
            <4> DEFINE S == {p \in Paths : disk[p].there}
            <4>1. pass' = [pass EXCEPT !.at = "visits", !.complete = TRUE, !.refs = Found(S), !.left = S]
                BY <3>1 DEF Walk
            <4>2. S \in SUBSET Paths /\ Found(S) \in [Paths -> Int] /\ "visits" \in Ats
                BY StampsTyped DEF Ats
            <4> HIDE DEF S
            <4>3. QED BY <1>1, <1>4, <4>1, <4>2, PassMoves
        <3>2. CASE WalkFails
            <4>1. PICK S \in SUBSET {p \in Paths : disk[p].there} :
                     pass' = [pass EXCEPT !.at = "visits", !.complete = FALSE, !.refs = Found(S), !.left = S]
                BY <3>2 DEF WalkFails
            <4>2. S \in SUBSET Paths /\ Found(S) \in [Paths -> Int] /\ "visits" \in Ats
                BY StampsTyped DEF Ats
            <4>3. QED BY <1>1, <1>4, <4>1, <4>2, PassMoves
        <3>3. QED BY <1>7, <3>1, <3>2
    <2>2. QED BY <1>7, <2>1, PassFields DEF PassOK, AtOne
<1>8. CASE Visit
    <2>1. PICK p \in pass.left : pass' = IF pass.refs[p] = pass.stamps[p]
                                         THEN [pass EXCEPT !.left = @ \ {p}]
                                         ELSE [pass EXCEPT !.left = @ \ {p}, !.at = "stats", !.path = p]
        BY <1>8 DEF Visit
    <2>2. p \in Paths /\ pass.left \ {p} \in SUBSET Paths /\ "stats" \in Ats /\ pass.at = "visits"
        BY <1>1, <1>8 DEF PassSet, Ats, Visit
    <2>3. CASE pass.refs[p] = pass.stamps[p]
        <3>1. pass' = [pass EXCEPT !.left = pass.left \ {p}]
            BY <1>1, <2>1, <2>3 DEF PassSet
        <3>2. pass'.at = "visits"
            BY <1>1, <2>2, <3>1 DEF PassSet
        <3>3. QED BY <1>1, <2>2, <3>1, <3>2, PassMoves DEF PassOK, AtOne
    <2>4. CASE pass.refs[p] # pass.stamps[p]
        <3>1. pass' = [pass EXCEPT !.left = pass.left \ {p}, !.at = "stats", !.path = p]
            BY <1>1, <2>1, <2>4 DEF PassSet
        <3>2. pass'.path = p
            BY <1>1, <3>1 DEF PassSet
        <3>3. QED BY <1>1, <2>2, <3>1, <3>2, PassMoves DEF PassOK
    <2>5. QED BY <2>3, <2>4
<1>9. CASE Stat
    <2> DEFINE there == disk[pass.path].there
               stamp == IF there THEN disk[pass.path].stamp ELSE 0
               at == IF there THEN "reads" ELSE "asks"
               T == {}
    <2>1. pass.path \in Paths
        BY <1>4, <1>9 DEF Stat, AtOne
    <2>2. stamp \in 0..MaxWrites /\ at \in Ats /\ T \in SUBSET Requests
        <3>1. disk[pass.path].stamp \in 0..MaxWrites /\ 0 \in 0..MaxWrites
            <4>1. disk[pass.path] \in DiskSet
                BY <2>1 DEF TablesOK
            <4>2. 0 \in 0..MaxWrites
                BY UsageAssumption
            <4>3. QED BY <4>1, <4>2, Zenon DEF DiskSet
        <3>2. stamp \in 0..MaxWrites
            BY <3>1, Zenon
        <3>3. at \in Ats
            BY Zenon DEF Ats
        <3>4. QED BY <3>2, <3>3
    <2>3. pass' = [pass EXCEPT !.at = at, !.problem = ~there, !.text = T, !.stamp = stamp, !.labels = loc]
        BY <1>9 DEF Stat
    <2>4. (~there) \in BOOLEAN
        OBVIOUS
    <2> HIDE DEF there, stamp, at, T
    <2>5. pass' \in PassSet
        BY <1>1, <1>4, <2>2, <2>3, <2>4, PassMoves, Zenon
    <2>6. pass'.path = pass.path
        BY <1>9, PassFields
    <2>7. QED BY <2>1, <2>5, <2>6 DEF PassOK
<1>10. CASE Read
    <2>1. pass.path \in Paths
        BY <1>4, <1>10 DEF Read, AtOne
    <2>2. disk[pass.path].text \in SUBSET Requests /\ "asks" \in Ats
        BY <2>1 DEF TablesOK, DiskSet, Ats
    <2>3. pass' \in PassSet
        BY <1>1, <1>10, <2>2, PassMoves DEF Read
    <2>4. QED BY <1>10, <2>1, <2>3, PassFields DEF PassOK
<1>11. CASE ReadFails
    <2>1. pass.path \in Paths /\ "asks" \in Ats
        BY <1>4, <1>11 DEF ReadFails, AtOne, Ats
    <2>2. pass' = [pass EXCEPT !.at = "asks", !.problem = TRUE]
        BY <1>11 DEF ReadFails
    <2>3. pass' \in PassSet
        BY <1>1, <1>4, <2>1, <2>2, PassMoves, Zenon
    <2>4. QED BY <1>11, <2>1, <2>3, PassFields DEF PassOK
<1>12. CASE AskHeld
    <2> DEFINE T == {r \in pass.text : ~HeldElsewhere(pass.path, r)}
    <2>1. pass.path \in Paths /\ "replaces" \in Ats /\ T \in SUBSET Requests
        BY <1>1, <1>4, <1>12 DEF AskHeld, AtOne, Ats, PassSet
    <2>2. pass' = [pass EXCEPT !.at = "replaces", !.text = T]
        BY <1>1, <1>12 DEF AskHeld, PassSet
    <2> HIDE DEF T
    <2>3. pass' \in PassSet
        BY <1>1, <2>1, <2>2, PassMoves, Zenon
    <2>4. QED BY <1>12, <2>1, <2>3, PassFields DEF PassOK
<1>13. ASSUME Leaves PROVE PassOK'
    <2>1. pass' \in PassSet /\ pass'.at = "visits"
        <3>1. pass' = [pass EXCEPT !.at = "visits", !.path = Nobody, !.stamp = 0, !.problem = FALSE, !.text = {}, !.labels = AnyZone]
            BY <1>13 DEF Leaves
        <3>2. pass' \in PassSet
            BY <1>1, <3>1, PassMoves, Zenon
        <3>3. pass'.at = "visits"
            BY <1>1, <3>1, Zenon DEF PassSet
        <3>4. QED BY <3>2, <3>3
    <2>2. QED BY <2>1 DEF PassOK, AtOne
<1>14. CASE Replace \/ StoreFails
    BY <1>3, <1>13, <1>14 DEF Replace, StoreFails
<1>15. ASSUME NEW p \in Paths, Vanish(p) \/ \E text \in SUBSET Requests : Write(p, text) PROVE PassOK'
    BY <1>2, <1>15 DEF Vanish, Write
<1>16. ASSUME NEW s \in Setters, \/ Rezones(s) \/ ForgetFails(s) \/ \E z \in Zones : Asked(s, z) PROVE PassOK'
    BY <1>2, <1>16 DEF Rezones, SetZone, Rezone, Forget, ForgetFails, Asked
<1>17. CASE UNCHANGED usageVars
    BY <1>2, <1>17 DEF usageVars
<1>18. QED BY <1>5, <1>6, <1>7, <1>8, <1>9, <1>10, <1>11, <1>12, <1>14, <1>15, <1>16, <1>17 DEF UsageNext, Passes

LEMMA FlagsStep ==
    ASSUME FlagsOK, [UsageNext]_usageVars
    PROVE  FlagsOK'
<1>1. failed' \in 0..MaxFailures
    <2>1. failed' = failed \/ Fails
        BY DEF UsageNext, Passes, Rezones, Write, Vanish, Ensure, TakeStamps, Walk, WalkFails, Visit, Stat, Read, ReadFails,
               AskHeld, Replace, Retire, StoreFails, UsageRestarts, SetZone, Rezone, Forget, ForgetFails, Asked, usageVars
    <2>2. QED BY <2>1, UsageAssumption DEF Fails, FlagsOK
<1>2. running' = running \/ running' = TRUE \/ running' = FALSE
    BY DEF UsageNext, Passes, Rezones, Write, Vanish, Ensure, TakeStamps, Walk, WalkFails, Visit, Stat, Read, ReadFails,
           AskHeld, Replace, Retire, StoreFails, UsageRestarts, SetZone, Rezone, Forget, ForgetFails, Asked, usageVars
<1>3. \/ cutOff' = cutOff \/ cutOff' = TRUE
      \/ cutOff' = (cutOff \/ \E s \in Setters : setter[s].at \in {"waits", "forgets"})
    BY DEF UsageNext, Passes, Rezones, Write, Vanish, Ensure, TakeStamps, Walk, WalkFails, Visit, Stat, Read, ReadFails,
           AskHeld, Replace, Retire, StoreFails, UsageRestarts, SetZone, Rezone, Forget, ForgetFails, Asked, usageVars, zoneVars
<1>4. running' \in BOOLEAN
    BY <1>2, Zenon DEF FlagsOK
<1>5. cutOff' \in BOOLEAN
    BY <1>3, Zenon DEF FlagsOK
<1>6. QED BY <1>1, <1>4, <1>5, Zenon DEF FlagsOK

LEMMA OneRunsStep ==
    ASSUME ZonesOK, PassOK, OneRuns, [UsageNext]_usageVars
    PROVE  OneRuns'
<1>1. UNCHANGED <<running, setter>> /\ (pass'.at # "idle" => pass.at # "idle") => OneRuns'
    BY DEF OneRuns
<1>2. pass' = Idle => pass'.at = "idle"
    BY DEF Idle
<1>3. CASE TakeStamps \/ Walk \/ WalkFails \/ Visit \/ Stat \/ Read \/ ReadFails \/ AskHeld \/ Replace
    <2>1. pass.at # "idle" /\ UNCHANGED <<running, setter>>
        BY <1>3 DEF TakeStamps, Walk, WalkFails, Visit, Stat, Read, ReadFails, AskHeld, Replace, zoneVars
    <2>2. QED BY <1>1, <2>1
<1>4. CASE Ensure
    BY <1>4, Zenon DEF Ensure, OneRuns, zoneVars
<1>5. CASE Retire
    BY <1>2, <1>5 DEF Retire, OneRuns, zoneVars
<1>6. CASE StoreFails
    <2>1. pass.at # "idle" /\ setter' = setter
        BY <1>6 DEF StoreFails, zoneVars
    <2>2. (pass' = Idle) \/ running' = running
        BY <1>6 DEF StoreFails
    <2>3. QED BY <1>1, <1>2, <2>1, <2>2 DEF OneRuns
<1>7. CASE UsageRestarts
    <2>1. \A s \in Setters : setter'[s].at = "idle"
        BY <1>7 DEF UsageRestarts, Away
    <2>2. QED BY <1>2, <1>7, <2>1 DEF UsageRestarts, OneRuns
<1>8. ASSUME NEW s \in Setters, Rezone(s) PROVE OneRuns'
    <2>1. setter' = [setter EXCEPT ![s].at = "forgets"] /\ running' = TRUE /\ ~running /\ pass' = pass
        BY <1>8 DEF Rezone
    <2>2. \A t \in Setters : t # s => setter'[t] = setter[t] /\ setter[t].at # "forgets"
        BY <2>1 DEF OneRuns, ZonesOK
    <2>3. pass'.at = "idle"
        BY <2>1 DEF OneRuns
    <2>4. QED BY <2>1, <2>2, <2>3, Zenon DEF OneRuns
<1>9. ASSUME NEW s \in Setters, Forget(s) \/ ForgetFails(s) PROVE OneRuns'
    <2>1. setter' = [setter EXCEPT ![s] = Away] /\ pass' = pass /\ setter[s].at = "forgets"
        BY <1>9 DEF Forget, ForgetFails, At
    <2>2. \A t \in Setters : setter'[t].at # "forgets"
        BY <2>1 DEF OneRuns, ZonesOK, Away
    <2>3. QED BY <2>1, <2>2 DEF OneRuns
<1>10. ASSUME NEW s \in Setters, SetZone(s) \/ \E z \in Zones : Asked(s, z) PROVE OneRuns'
    <2>1. UNCHANGED <<running, pass>>
        BY <1>10 DEF SetZone, Asked
    <2>2. setter[s] \in SetterSet
        BY DEF ZonesOK
    <2>3. \A t \in Setters : setter'[t].at = "forgets" => setter[t].at = "forgets"
        BY <1>10, <2>2 DEF SetZone, Asked, ZonesOK, Away, SetterSet
    <2>4. QED BY <2>1, <2>3 DEF OneRuns
<1>11. ASSUME NEW p \in Paths, Vanish(p) \/ \E text \in SUBSET Requests : Write(p, text) PROVE OneRuns'
    BY <1>1, <1>11 DEF Vanish, Write, zoneVars
<1>12. CASE UNCHANGED usageVars
    BY <1>1, <1>12 DEF usageVars
<1>13. QED BY <1>3, <1>4, <1>5, <1>6, <1>7, <1>8, <1>9, <1>10, <1>11, <1>12 DEF UsageNext, Passes, Rezones

LEMMA HeldStep ==
    ASSUME TablesOK, ZonesOK, PassOK, OneRuns, HeldOK, [UsageNext]_usageVars
    PROVE  HeldOK'
<1> DEFINE Agree == \A r \in Requests : \A p \in Paths : r \in files[p].counts <=> holder[r] = p
<1>0. Agree /\ Nobody \notin Paths /\ files \in [Paths -> FileSet] /\ holder \in [Requests -> Paths \cup {Nobody}]
    BY UsageAssumption DEF HeldOK, TablesOK
<1>1. UNCHANGED <<files, holder>> => Agree'
    BY <1>0
<1>2. ASSUME Agree', pass'.at # "replaces" PROVE HeldOK'
    BY <1>2 DEF HeldOK
<1>3. ASSUME UNCHANGED <<pass, files, holder>> PROVE HeldOK'
    BY <1>3 DEF HeldOK, HeldElsewhere
<1>4. CASE Ensure \/ TakeStamps \/ Walk \/ WalkFails \/ Stat \/ Read \/ ReadFails
    <2>1. pass'.at # "replaces"
        BY <1>4, PassFields
    <2>2. UNCHANGED <<files, holder>>
        BY <1>4 DEF Ensure, TakeStamps, Walk, WalkFails, Stat, Read, ReadFails, tableVars
    <2>3. QED BY <1>1, <1>2, <2>1, <2>2
<1>5. CASE Visit
    <2>1. pass'.at # "replaces"
        BY <1>5, VisitFields
    <2>2. QED BY <1>1, <1>2, <1>5, <2>1 DEF Visit, tableVars
<1>6. CASE AskHeld
    <2>1. UNCHANGED <<files, holder>>
        BY <1>6 DEF AskHeld, tableVars
    <2>2. pass'.path = pass.path /\ pass'.text = {r \in pass.text : ~HeldElsewhere(pass.path, r)}
        BY <1>6, PassFields
    <2>3. \A r \in pass'.text : holder'[r] \in {pass'.path, Nobody}
        BY <2>1, <2>2 DEF HeldElsewhere
    <2>4. QED BY <1>1, <2>1, <2>3 DEF HeldOK, HeldElsewhere
<1>7. CASE Replace
    <2> DEFINE p == pass.path
    <2>1. p \in Paths /\ pass.text \subseteq Requests /\ pass.at = "replaces" /\ pass'.at # "replaces"
        BY <1>7, PassFields DEF Replace, PassOK, AtOne, PassSet
    <2>2. \A r \in pass.text : holder[r] \in {p, Nobody}
        BY <2>1 DEF HeldOK, HeldElsewhere
    <2>3. files'[p].counts = pass.text /\ \A q \in Paths \ {p} : files'[q] = files[q]
        BY <1>0, <1>7, <2>1 DEF Replace
    <2>4. \A r \in Requests : holder'[r] = IF holder[r] \in {p, Nobody} THEN IF r \in pass.text THEN p ELSE Nobody ELSE holder[r]
        BY <1>7 DEF Replace
    <2> HIDE DEF p
    <2>5. ASSUME NEW r \in Requests, NEW q \in Paths PROVE r \in files'[q].counts <=> holder'[r] = q
        <3>1. CASE q = p
            BY <1>0, <2>1, <2>2, <2>3, <2>4, <3>1
        <3>2. CASE q # p
            BY <1>0, <2>1, <2>3, <2>4, <3>2
        <3>3. QED BY <3>1, <3>2
    <2>6. QED BY <1>2, <2>1, <2>5
<1>8. CASE Retire
    <2>1. \A q \in Paths : files'[q].counts = files[q].counts
        BY <1>0, <1>8 DEF Retire, FileSet
    <2>2. holder' = holder /\ pass'.at # "replaces"
        BY <1>8, PassFields DEF Retire, Idle
    <2>3. QED BY <1>0, <1>2, <2>1, <2>2
<1>9. CASE StoreFails \/ UsageRestarts
    <2>1. UNCHANGED <<files, holder>>
        BY <1>9 DEF StoreFails, UsageRestarts, tableVars
    <2>2. pass' = Idle \/ pass'.at = "visits"
        BY <1>9, PassFields
    <2>3. QED BY <1>1, <1>2, <2>1, <2>2, IdleFits
<1>10. ASSUME NEW s \in Setters, Forget(s) PROVE HeldOK'
    <2>1. pass'.at # "replaces"
        BY <1>10 DEF Forget, At, OneRuns
    <2>2. \A q \in Paths : files'[q].counts = IF files[q].gone THEN files[q].counts ELSE {}
        BY <1>0, <1>10 DEF Forget, Unknown
    <2>3. \A r \in Requests : holder'[r] = IF holder[r] # Nobody /\ files[holder[r]].gone THEN holder[r] ELSE Nobody
        BY <1>10 DEF Forget
    <2>4. QED BY <1>0, <1>2, <2>1, <2>2, <2>3
<1>11. ASSUME NEW s \in Setters, SetZone(s) \/ Rezone(s) \/ ForgetFails(s) \/ \E z \in Zones : Asked(s, z) PROVE HeldOK'
    BY <1>3, <1>11 DEF SetZone, Rezone, ForgetFails, Asked, tableVars
<1>12. ASSUME NEW p \in Paths, Vanish(p) \/ \E text \in SUBSET Requests : Write(p, text) PROVE HeldOK'
    BY <1>3, <1>12 DEF Vanish, Write, tableVars
<1>13. CASE UNCHANGED usageVars
    BY <1>3, <1>13 DEF usageVars
<1>14. QED BY <1>4, <1>5, <1>6, <1>7, <1>8, <1>9, <1>10, <1>11, <1>12, <1>13 DEF UsageNext, Passes, Rezones

LEMMA UsageBegins ==
    ASSUME UsageInit
    PROVE  UsageInv
<1>1. {MaxWrites, MaxFailures} \subseteq Nat /\ Nobody \notin Paths
    BY UsageAssumption
<1>2. TablesOK
    <2>1. [there |-> FALSE, stamp |-> 0, text |-> {}] \in DiskSet
        <3>1. FALSE \in BOOLEAN /\ 0 \in 0..MaxWrites /\ {} \in SUBSET Requests
            BY <1>1
        <3>2. QED BY <3>1, Zenon DEF DiskSet
    <2>2. Unknown \in FileSet
        <3>1. FALSE \in BOOLEAN /\ {} \in SUBSET Requests /\ 0 \in 0..MaxWrites
            BY <1>1
        <3>2. QED BY <3>1, ZoneThere, Zenon DEF Unknown, FileSet
    <2>3. QED BY <1>1, <2>1, <2>2 DEF TablesOK, UsageInit
<1>3. ZonesOK
    BY ZoneThere DEF ZonesOK, UsageInit, Away, SetterSet
<1>4. PassOK
    BY IdleFits DEF UsageInit, PassOK, AtOne
<1>5. FlagsOK
    <2>1. running = FALSE /\ cutOff = FALSE /\ failed = 0
        BY DEF UsageInit
    <2>2. failed \in 0..MaxFailures
        BY <1>1, <2>1
    <2>3. QED BY <2>1, <2>2, Zenon DEF FlagsOK
<1>6. OneRuns
    BY IdleFits DEF UsageInit, OneRuns, Away
<1>7. HeldOK
    BY <1>1, IdleFits DEF UsageInit, HeldOK, Unknown
<1>8. QED BY <1>2, <1>3, <1>4, <1>5, <1>6, <1>7 DEF UsageInv

LEMMA UsageStep ==
    ASSUME UsageInv, [UsageNext]_usageVars
    PROVE  UsageInv'
BY TablesStep, ZonesStep, PassStep, FlagsStep, OneRunsStep, HeldStep DEF UsageInv

LEMMA UsageInvariant == UsageSpec => []UsageInv
BY UsageBegins, UsageStep, PTL DEF UsageSpec

\* The tables, the pass and the changes of zone keep their types (ingest.go).
THEOREM UsageTypeCorrect == UsageSpec => []UsageTypeOK
<1>1. UsageInv => UsageTypeOK
    <2> SUFFICES ASSUME UsageInv PROVE UsageTypeOK
        OBVIOUS
    <2>2. \A r \in Requests : holder[r] # Nobody => r \in files[holder[r]].counts
        BY DEF UsageInv, HeldOK, TablesOK
    <2>3. {zone, loc} \subseteq Zones
        BY DEF UsageInv, ZonesOK
    <2>4. {running, cutOff} \subseteq BOOLEAN /\ failed \in 0..MaxFailures
        BY Zenon DEF UsageInv, FlagsOK
    <2>5. /\ pass.at \in {"idle", "begins", "walks", "visits", "stats", "reads", "asks", "replaces"}
          /\ pass.left \subseteq Paths /\ pass.path \in Paths \cup {Nobody} /\ pass.text \subseteq Requests
        BY DEF UsageInv, PassOK, PassSet, Ats
    <2>6. /\ disk \in [Paths -> DiskSet] /\ writes \in 0..MaxWrites /\ files \in [Paths -> FileSet]
          /\ holder \in [Requests -> Paths \cup {Nobody}] /\ ever \subseteq Requests
          /\ setter \in [Setters -> SetterSet] /\ (pass.at # "idle" => running)
        BY DEF UsageInv, TablesOK, ZonesOK, OneRuns
    <2>7. QED BY <2>2, <2>3, <2>4, <2>5, <2>6, Zenon DEF UsageTypeOK, DiskSet, FileSet, SetterSet
<1>2. QED BY <1>1, UsageInvariant, PTL

\* One request, one count: for any transcripts and any number of changes of the
\* zone, whatever vanishes, is abandoned, fails or restarts (usage.go).
THEOREM CountedOnceCorrect == UsageSpec => []CountedOnce
<1>1. UsageInv => CountedOnce
    BY DEF UsageInv, HeldOK, CountedOnce
<1>2. QED BY <1>1, UsageInvariant, PTL

----------------------------------------------------------------------------
(* The zone, if one request changes it at a time *)

OneSetter == \A s, t \in Setters : s = t

SetterOK(s) ==
    /\ setter[s].at = "sets" => setter[s].before = zone
    /\ setter[s].at = "waits" => setter[s].name = zone
    /\ setter[s].at = "forgets" => loc = zone

\* Rows are in the zone the scanner counts in, until somebody forgets them, and
\* that is the zone of the setting unless a change of it is on its way.
RowsOK ==
    /\ pass.at \in {"reads", "asks", "replaces"} => pass.labels = loc
    /\ ~cutOff =>
          /\ \/ \E s \in Setters : setter[s].at = "forgets"
             \/ \A p \in Paths : files[p].known /\ ~files[p].gone => files[p].labels = loc
          /\ (\A s \in Setters : setter[s].at \in {"idle", "sets"}) => loc = zone
          /\ \A s \in Setters : SetterOK(s)

LEMMA RowsStep ==
    ASSUME OneSetter, UsageInv, RowsOK, [UsageNext]_usageVars
    PROVE  RowsOK'
<1>0. files \in [Paths -> FileSet] /\ setter \in [Setters -> SetterSet] /\ PassOK /\ TablesOK /\ ZonesOK
    BY DEF UsageInv, TablesOK, ZonesOK
<1>1. ASSUME UNCHANGED <<files, zoneVars>>, pass'.at \in {"reads", "asks", "replaces"} => pass'.labels = loc
      PROVE  RowsOK'
    BY <1>1 DEF RowsOK, SetterOK, zoneVars
<1>2. CASE Ensure \/ TakeStamps \/ Walk \/ WalkFails \/ StoreFails
    <2>1. pass'.at \in {"begins", "walks", "visits"} \/ pass' = Idle
        BY <1>0, <1>2, PassFields
    <2>2. UNCHANGED <<files, zoneVars>>
        BY <1>2 DEF Ensure, TakeStamps, Walk, WalkFails, StoreFails, tableVars
    <2>3. QED BY <1>1, <2>1, <2>2, IdleFits
<1>3. CASE Visit
    <2>1. pass'.at \in {"visits", "stats"}
        BY <1>0, <1>3, VisitFields
    <2>2. QED BY <1>1, <1>3, <2>1 DEF Visit, tableVars
<1>4. CASE Stat
    BY <1>0, <1>1, <1>4, PassFields DEF Stat, tableVars
<1>5. CASE Read \/ ReadFails \/ AskHeld
    <2>1. pass.at \in {"reads", "asks"} /\ pass'.labels = pass.labels
        BY <1>0, <1>5, PassFields DEF Read, ReadFails, AskHeld
    <2>2. UNCHANGED <<files, zoneVars>>
        BY <1>5 DEF Read, ReadFails, AskHeld, tableVars
    <2>3. QED BY <1>1, <2>1, <2>2 DEF RowsOK
<1>6. CASE Replace
    <2>1. pass.at = "replaces" /\ pass'.at = "visits" /\ UNCHANGED zoneVars /\ pass.path \in Paths
        BY <1>0, <1>6, PassFields DEF Replace, PassOK, AtOne
    <2>2. files'[pass.path].labels = loc /\ \A q \in Paths \ {pass.path} : files'[q] = files[q]
        BY <1>0, <1>6, <2>1 DEF Replace, RowsOK
    <2>3. QED BY <2>1, <2>2 DEF RowsOK, SetterOK, zoneVars
<1>7. CASE Retire
    <2>1. pass' = Idle /\ UNCHANGED zoneVars
        BY <1>7 DEF Retire
    <2>2. \A p \in Paths : files'[p].known /\ ~files'[p].gone => files[p].known /\ ~files[p].gone /\ files'[p].labels = files[p].labels
        BY <1>0, <1>7 DEF Retire, FileSet
    <2>3. QED BY <2>1, <2>2, IdleFits DEF RowsOK, SetterOK, zoneVars
<1>8. CASE UsageRestarts
    <2>1. pass' = Idle /\ loc' = zone /\ zone' = zone /\ files' = files /\ \A s \in Setters : setter'[s].at = "idle"
        BY <1>8 DEF UsageRestarts, tableVars, Away
    <2>2. ~cutOff' => ~cutOff /\ \A s \in Setters : setter[s].at \notin {"waits", "forgets"}
        BY <1>8 DEF UsageRestarts
    <2>3. ~cutOff' => loc = zone /\ \A p \in Paths : files[p].known /\ ~files[p].gone => files[p].labels = loc
        BY <1>0, <2>2 DEF RowsOK, SetterSet
    <2>4. QED BY <2>1, <2>3, IdleFits DEF RowsOK, SetterOK
<1>9. ASSUME NEW s \in Setters, UNCHANGED pass,
             \/ SetZone(s) \/ Rezone(s) \/ Forget(s) \/ ForgetFails(s) \/ \E z \in Zones : Asked(s, z)
      PROVE  RowsOK'
    <2>1. Setters = {s} /\ setter[s] \in SetterSet /\ setter'[s].at = setter'[s].at
        BY <1>0 DEF OneSetter
    <2>2. CASE SetZone(s)
        <3>1. /\ setter[s].at = "sets" /\ zone' = setter[s].name /\ UNCHANGED <<files, loc, cutOff>>
              /\ setter'[s] = IF setter[s].before = setter[s].name THEN Away ELSE [setter[s] EXCEPT !.at = "waits"]
            BY <1>0, <2>2 DEF SetZone, At, tableVars
        <3>2. CASE setter[s].before = setter[s].name
            <4>1. setter'[s].at = "idle" /\ (~cutOff => zone' = zone)
                BY <3>1, <3>2 DEF RowsOK, SetterOK, Away
            <4>2. QED BY <1>9, <2>1, <3>1, <4>1 DEF RowsOK, SetterOK
        <3>3. CASE setter[s].before # setter[s].name
            <4>1. setter'[s].at = "waits" /\ setter'[s].name = zone'
                BY <2>1, <3>1, <3>3 DEF SetterSet
            <4>2. QED BY <1>9, <2>1, <3>1, <4>1 DEF RowsOK, SetterOK
        <3>4. QED BY <3>2, <3>3
    <2>3. CASE Rezone(s)
        <3>1. /\ setter[s].at = "waits" /\ loc' = setter[s].name /\ UNCHANGED <<files, zone, cutOff>> /\ pass.at = "idle"
              /\ setter'[s].at = "forgets"
            BY <1>0, <2>1, <2>3 DEF Rezone, At, tableVars, UsageInv, OneRuns, SetterSet
        <3>2. QED BY <1>9, <2>1, <3>1 DEF RowsOK, SetterOK
    <2>4. CASE Forget(s)
        <3>1. /\ setter[s].at = "forgets" /\ UNCHANGED <<zone, loc, cutOff>> /\ setter'[s].at = "idle"
              /\ \A p \in Paths : files'[p].known => files'[p].gone
            BY <1>0, <2>1, <2>4 DEF Forget, At, Away, Unknown
        <3>2. QED BY <1>9, <2>1, <3>1 DEF RowsOK, SetterOK
    <2>5. CASE ForgetFails(s)
        BY <1>9, <2>5 DEF ForgetFails, RowsOK
    <2>6. ASSUME NEW z \in Zones, Asked(s, z) PROVE RowsOK'
        <3>1. /\ setter[s].at = "idle" /\ UNCHANGED <<files, zone, loc, cutOff>>
              /\ setter'[s].at = "sets" /\ setter'[s].before = zone
            BY <1>0, <2>1, <2>6 DEF Asked, At, tableVars
        <3>2. QED BY <1>9, <2>1, <3>1 DEF RowsOK, SetterOK
    <2>7. QED BY <1>9, <2>2, <2>3, <2>4, <2>5, <2>6
<1>10. ASSUME NEW p \in Paths, Vanish(p) \/ \E text \in SUBSET Requests : Write(p, text) PROVE RowsOK'
    <2>1. UNCHANGED <<files, zoneVars, pass>>
        BY <1>10 DEF Vanish, Write, tableVars
    <2>2. QED BY <1>1, <2>1 DEF RowsOK
<1>11. CASE UNCHANGED usageVars
    BY <1>1, <1>11 DEF usageVars, zoneVars, RowsOK
<1>12. ASSUME NEW s \in Setters, Rezones(s) \/ ForgetFails(s) \/ \E z \in Zones : Asked(s, z) PROVE RowsOK'
    <2>1. UNCHANGED pass
        BY <1>12 DEF Rezones, SetZone, Rezone, Forget, ForgetFails, Asked
    <2>2. QED BY <1>9, <1>12, <2>1 DEF Rezones
<1>13. QED BY <1>2, <1>3, <1>4, <1>5, <1>6, <1>7, <1>8, <1>10, <1>11, <1>12 DEF UsageNext, Passes

\* No row is left in the old zone, if one request changes it at a time (Rezone).
THEOREM LabelsInZoneCorrect ==
    ASSUME OneSetter PROVE UsageSpec => []LabelsInZone
<1>1. UsageInit => RowsOK
    BY IdleFits DEF UsageInit, RowsOK, SetterOK, Unknown, Away
<1>2. UsageInv /\ RowsOK /\ [UsageNext]_usageVars => RowsOK'
    BY RowsStep
<1>3. UsageInv /\ RowsOK => LabelsInZone
    BY DEF RowsOK, LabelsInZone
<1>4. QED BY <1>1, <1>2, <1>3, UsageInvariant, PTL DEF UsageSpec

----------------------------------------------------------------------------
(* What is counted, if transcripts only grow and none goes unnoticed *)

\* Counted, or in a transcript on disk that is not read yet or could not be.
Covered(r) ==
    \/ Counted(r)
    \/ \E q \in Paths : /\ disk[q].there /\ r \in disk[q].text
                        /\ files[q].problem \/ files[q].stamp # disk[q].stamp

OnDisk(r) == \E p \in Paths : disk[p].there /\ r \in disk[p].text

\* On disk, and not as it is recorded: it does not go before a pass has read it.
Pending(p) == disk[p].there /\ ~Current(p)

\* Stamps only grow, and with them the text that was counted.
GrowOK ==
    \A p \in Paths :
        /\ files[p].counts \subseteq disk[p].text
        /\ files[p].known \/ files[p].counts = {}
        /\ files[p].stamp <= disk[p].stamp /\ disk[p].stamp <= writes
        /\ disk[p].there => disk[p].stamp >= 1

\* The pass holds what there was when it took the stamp; what it has not read of
\* the transcript was written after that.
ReadingOK ==
    LET d == disk[pass.path] IN
    /\ pass.at \in AtOne => pass.path \notin pass.left /\ Pending(pass.path)
    /\ pass.at \in {"reads", "asks", "replaces"} => pass.stamp <= d.stamp /\ pass.text \subseteq d.text
    /\ pass.at = "reads" => ~pass.problem
    /\ pass.at = "reads" \/ (pass.at \in {"asks", "replaces"} /\ pass.problem) => pass.text = {}
    /\ pass.at = "asks" /\ ~pass.problem => pass.stamp < d.stamp \/ d.text \subseteq pass.text
    /\ pass.at = "replaces" /\ ~pass.problem =>
          pass.stamp < d.stamp \/ \A r \in d.text : r \in pass.text \/ HeldElsewhere(pass.path, r)

\* What the pass will come to has not gone since it was found.
LeftOK ==
    /\ pass.at = "walks" =>
          pass.stamps = [p \in Paths |-> IF files[p].known /\ ~files[p].gone THEN files[p].stamp ELSE -1]
    /\ pass.at = "visits" \/ pass.at \in AtOne =>
          \A p \in pass.left : pass.refs[p] # pass.stamps[p] => Pending(p)

ForgetsOK == \A s \in Setters : setter[s].at = "forgets" => ~GoneUnnoticed

CoverOK == \A r \in Requests : r \in ever \/ OnDisk(r) => Covered(r)

KeptOK == GrowOK /\ ReadingOK /\ LeftOK /\ ForgetsOK /\ CoverOK

\* Each part depends on no more of the state than it names.
LEMMA PartsKeep ==
    /\ GrowOK /\ UNCHANGED <<disk, writes, files>> => GrowOK'
    /\ ReadingOK /\ UNCHANGED <<disk, files, holder, pass>> => ReadingOK'
    /\ LeftOK /\ UNCHANGED <<disk, files, pass>> => LeftOK'
    /\ ForgetsOK /\ UNCHANGED <<disk, files, setter>> => ForgetsOK'
    /\ CoverOK /\ UNCHANGED <<disk, files, ever>> => CoverOK'
<1>1. GrowOK /\ UNCHANGED <<disk, writes, files>> => GrowOK'
    BY DEF GrowOK
<1>2. ReadingOK /\ UNCHANGED <<disk, files, holder, pass>> => ReadingOK'
    BY DEF ReadingOK, Pending, Current, HeldElsewhere
<1>3. LeftOK /\ UNCHANGED <<disk, files, pass>> => LeftOK'
    BY DEF LeftOK, Pending, Current
<1>4. ForgetsOK /\ UNCHANGED <<disk, files, setter>> => ForgetsOK'
    BY DEF ForgetsOK, GoneUnnoticed
<1>5. CoverOK /\ UNCHANGED <<disk, files, ever>> => CoverOK'
    BY DEF CoverOK, Covered, Counted, OnDisk
<1>6. QED BY <1>1, <1>2, <1>3, <1>4, <1>5

LEMMA UsageFacts ==
    ASSUME UsageInv
    PROVE  /\ disk \in [Paths -> DiskSet] /\ files \in [Paths -> FileSet] /\ holder \in [Requests -> Paths \cup {Nobody}]
           /\ PassOK /\ pass \in PassSet /\ setter \in [Setters -> SetterSet] /\ Nobody \notin Paths
           /\ \A p \in Paths : files[p].stamp \in Nat /\ disk[p].stamp \in Nat /\ disk[p].text \subseteq Requests /\ files[p].counts \subseteq Requests
           /\ writes \in Nat /\ pass.stamp \in Nat /\ pass.text \subseteq Requests /\ pass.left \subseteq Paths
           /\ \A r \in Requests : Counted(r) <=> holder[r] # Nobody
<1>1. /\ disk \in [Paths -> DiskSet] /\ files \in [Paths -> FileSet] /\ holder \in [Requests -> Paths \cup {Nobody}]
      /\ PassOK /\ pass \in PassSet /\ setter \in [Setters -> SetterSet] /\ Nobody \notin Paths /\ writes \in Nat
    BY UsageAssumption DEF UsageInv, TablesOK, ZonesOK, PassOK
<1>2. \A p \in Paths : files[p].stamp \in Nat /\ disk[p].stamp \in Nat /\ disk[p].text \subseteq Requests /\ files[p].counts \subseteq Requests
    BY <1>1, UsageAssumption DEF DiskSet, FileSet
<1>3. pass.stamp \in Nat /\ pass.text \subseteq Requests /\ pass.left \subseteq Paths
    BY <1>1, UsageAssumption DEF PassSet
<1>4. \A r \in Requests : Counted(r) <=> holder[r] # Nobody
    BY <1>1 DEF Counted, UsageInv, HeldOK
<1>5. QED BY <1>1, <1>2, <1>3, <1>4

LEMMA WriteKeeps ==
    ASSUME ~Abandons, UsageInv, KeptOK, NEW p \in Paths, NEW text \in SUBSET Requests, Write(p, text)
    PROVE  KeptOK'
<1>1. /\ disk'[p].there = TRUE /\ disk'[p].stamp = writes + 1 /\ disk'[p].text = text /\ writes' = writes + 1
      /\ \A q \in Paths \ {p} : disk'[q] = disk[q]
      /\ disk[p].text \subseteq text /\ UNCHANGED <<tableVars, zoneVars, pass>>
    BY UsageFacts DEF Write
<1>2. GrowOK'
    BY <1>1, UsageFacts DEF KeptOK, GrowOK, tableVars
<1>3. \A q \in Paths : files[q].stamp <= disk[q].stamp /\ disk[q].stamp <= writes
    BY DEF KeptOK, GrowOK
<1>4. \A q \in Paths : Pending(q) => Pending(q)'
    BY <1>1, <1>3, UsageFacts DEF Pending, Current, tableVars
<1>5. pass.at \in AtOne => pass.path \in Paths
    BY UsageFacts DEF PassOK
<1>6. ReadingOK'
    <2>1. CASE pass.at \in AtOne
        <3>1. disk'[pass.path] = disk[pass.path] \/ (pass.path = p /\ (pass.stamp < disk'[p].stamp \/ pass.at = "stats"))
            BY <1>1, <1>3, <1>5, <2>1, UsageFacts DEF KeptOK, ReadingOK, AtOne
        <3>2. /\ disk[pass.path].stamp <= disk'[pass.path].stamp /\ disk[pass.path].text \subseteq disk'[pass.path].text
            BY <1>1, <1>3, <1>5, <2>1, UsageFacts
        <3>3. Pending(pass.path)'
            BY <1>1, <1>4, <1>5, <2>1 DEF KeptOK, ReadingOK, Pending, Current, tableVars
        <3>4. disk'[pass.path].stamp \in Nat /\ disk[pass.path].stamp \in Nat /\ pass.stamp \in Nat
            BY <1>1, <1>5, <2>1, UsageFacts
        <3>5. UNCHANGED <<pass, holder>>
            BY <1>1 DEF tableVars
        <3>6. QED BY <3>1, <3>2, <3>3, <3>4, <3>5 DEF KeptOK, ReadingOK, HeldElsewhere
    <2>2. CASE pass.at \notin AtOne
        BY <1>1, <2>2 DEF ReadingOK, AtOne
    <2>3. QED BY <2>1, <2>2
<1>7. LeftOK'
    BY <1>1, <1>4, UsageFacts DEF KeptOK, LeftOK, tableVars
<1>8. ForgetsOK'
    BY <1>1 DEF KeptOK, ForgetsOK, GoneUnnoticed, tableVars, zoneVars
<1>9. CoverOK'
    <2>1. files[p].stamp # disk'[p].stamp
        BY <1>1, <1>3, UsageFacts
    <2>2. UNCHANGED <<files, ever>>
        BY <1>1 DEF tableVars
    <2>3. \A r \in Requests : Counted(r) <=> Counted(r)'
        BY <2>2 DEF Counted
    <2>4. ASSUME NEW r \in Requests, Covered(r) PROVE Covered(r)'
        BY <1>1, <2>1, <2>2, <2>3, <2>4 DEF Covered
    <2>5. ASSUME NEW r \in Requests, OnDisk(r)' PROVE OnDisk(r) \/ Covered(r)'
        BY <1>1, <2>1, <2>2, <2>5 DEF OnDisk, Covered
    <2>6. QED BY <2>2, <2>4, <2>5 DEF KeptOK, CoverOK
<1>10. QED BY <1>2, <1>6, <1>7, <1>8, <1>9 DEF KeptOK

LEMMA VanishKeeps ==
    ASSUME ~Unnoticed, UsageInv, KeptOK, NEW p \in Paths, Vanish(p)
    PROVE  KeptOK'
<1>1. /\ Current(p) /\ (\A s \in Setters : setter[s].at # "forgets")
      /\ disk'[p].there = FALSE /\ disk'[p].stamp = disk[p].stamp /\ disk'[p].text = disk[p].text
      /\ \A q \in Paths \ {p} : disk'[q] = disk[q]
      /\ UNCHANGED <<writes, tableVars, zoneVars, pass>>
    BY UsageFacts DEF Vanish, DiskSet
<1>2. \A q \in Paths : Pending(q) => q # p /\ Pending(q)'
    BY <1>1 DEF Pending, Current, tableVars
<1>3. GrowOK'
    BY <1>1 DEF KeptOK, GrowOK, tableVars
<1>4. ReadingOK'
    <2>1. pass.at \in AtOne => pass.path \in Paths /\ Pending(pass.path)
        BY UsageFacts DEF PassOK, KeptOK, ReadingOK
    <2>2. pass.at \in AtOne => disk'[pass.path] = disk[pass.path]
        BY <1>1, <1>2, <2>1
    <2>3. UNCHANGED <<pass, holder, files>>
        BY <1>1 DEF tableVars
    <2>4. QED BY <2>1, <2>2, <2>3 DEF KeptOK, ReadingOK, AtOne, HeldElsewhere, Pending, Current
<1>5. LeftOK'
    BY <1>1, <1>2, UsageFacts DEF KeptOK, LeftOK, tableVars
<1>6. ForgetsOK'
    BY <1>1 DEF ForgetsOK, zoneVars
<1>7. CoverOK'
    <2>1. UNCHANGED <<files, ever>>
        BY <1>1 DEF tableVars
    <2>2. ASSUME NEW r \in Requests, Covered(r) PROVE Covered(r)'
        BY <1>1, <2>1, <2>2 DEF Covered, Counted, Current
    <2>3. ASSUME NEW r \in Requests, OnDisk(r)' PROVE OnDisk(r)
        BY <1>1, <2>3 DEF OnDisk
    <2>4. QED BY <2>1, <2>2, <2>3 DEF KeptOK, CoverOK
<1>8. QED BY <1>3, <1>4, <1>5, <1>6, <1>7 DEF KeptOK

LEMMA ReplaceKeeps ==
    ASSUME UsageInv, KeptOK, Replace
    PROVE  KeptOK'
<1> DEFINE p == pass.path
<1>1. /\ p \in Paths /\ pass.at = "replaces" /\ pass'.at = "visits" /\ pass'.left = pass.left
      /\ pass'.refs = pass.refs /\ pass'.stamps = pass.stamps /\ p \notin pass.left /\ Pending(p)
    BY UsageFacts, PassFields DEF Replace, PassOK, AtOne, KeptOK, ReadingOK
<1>2. /\ files'[p].counts = pass.text /\ files'[p].stamp = pass.stamp /\ files'[p].problem = pass.problem /\ files'[p].known = TRUE
      /\ \A q \in Paths \ {p} : files'[q] = files[q]
      /\ ever' = ever \cup pass.text /\ UNCHANGED <<disk, writes, zoneVars>>
    BY <1>1, UsageFacts DEF Replace, agentVars
<1>3. /\ pass.stamp <= disk[p].stamp /\ pass.text \subseteq disk[p].text /\ (pass.problem => pass.text = {})
      /\ ~pass.problem => pass.stamp < disk[p].stamp \/ \A r \in disk[p].text : r \in pass.text \/ HeldElsewhere(p, r)
    BY <1>1 DEF KeptOK, ReadingOK
<1> HIDE DEF p
<1>4. GrowOK'
    BY <1>1, <1>2, <1>3 DEF KeptOK, GrowOK
<1>5. ReadingOK'
    BY <1>1 DEF ReadingOK, AtOne
<1>6. LeftOK'
    <2>1. \A q \in pass.left : Pending(q) => Pending(q)'
        BY <1>1, <1>2, UsageFacts DEF Pending, Current
    <2>2. QED BY <1>1, <2>1 DEF KeptOK, LeftOK, AtOne
<1>7. ForgetsOK'
    BY <1>1, <1>2 DEF UsageInv, OneRuns, ForgetsOK, zoneVars
<1>8. CoverOK'
    <2>1. ASSUME NEW r \in Requests, r \in disk[p].text PROVE Covered(r)'
        <3>1. CASE pass.problem
            BY <1>1, <1>2, <2>1, <3>1 DEF Covered, Pending
        <3>2. CASE pass.stamp < disk[p].stamp
            BY <1>1, <1>2, <2>1, <3>2, UsageFacts DEF Covered, Pending
        <3>3. CASE r \in pass.text
            BY <1>1, <1>2, <3>3 DEF Covered, Counted
        <3>4. CASE HeldElsewhere(p, r)
            <4>1. holder[r] \in Paths \ {p} /\ r \in files[holder[r]].counts
                BY <3>4, UsageFacts DEF HeldElsewhere, UsageInv, HeldOK
            <4>2. QED BY <1>2, <4>1 DEF Covered, Counted
        <3>5. QED BY <1>3, <2>1, <3>1, <3>2, <3>3, <3>4
    <2>2. ASSUME NEW r \in Requests, Covered(r) PROVE Covered(r)'
        <3>1. CASE r \in disk[p].text
            BY <2>1, <3>1
        <3>2. CASE r \notin disk[p].text
            BY <1>1, <1>2, <2>2, <3>2 DEF Covered, Counted, KeptOK, GrowOK
        <3>3. QED BY <3>1, <3>2
    <2>3. \A r \in Requests : OnDisk(r)' => OnDisk(r)
        BY <1>2 DEF OnDisk
    <2>4. \A r \in pass.text : r \in disk[p].text
        BY <1>3
    <2>5. QED BY <1>2, <2>1, <2>2, <2>3, <2>4 DEF KeptOK, CoverOK
<1>9. QED BY <1>4, <1>5, <1>6, <1>7, <1>8 DEF KeptOK

LEMMA RetireKeeps ==
    ASSUME UsageInv, KeptOK, Retire
    PROVE  KeptOK'
<1>1. /\ pass' = Idle /\ pass.at = "visits" /\ UNCHANGED <<disk, writes, ever, zoneVars>>
      /\ \A p \in Paths : /\ files'[p].counts = files[p].counts /\ files'[p].stamp = files[p].stamp
                          /\ files'[p].problem = files[p].problem /\ files'[p].known = files[p].known
    BY UsageFacts DEF Retire, FileSet, agentVars
<1>2. GrowOK'
    BY <1>1 DEF KeptOK, GrowOK
<1>3. ReadingOK' /\ LeftOK'
    BY <1>1, IdleFits DEF ReadingOK, LeftOK, AtOne
<1>4. ForgetsOK'
    BY <1>1 DEF UsageInv, OneRuns, ForgetsOK, zoneVars
<1>5. CoverOK'
    <2>1. \A r \in Requests : (Covered(r) <=> Covered(r)') /\ (OnDisk(r) <=> OnDisk(r)')
        BY <1>1 DEF Covered, Counted, OnDisk
    <2>2. QED BY <1>1, <2>1 DEF KeptOK, CoverOK
<1>6. QED BY <1>2, <1>3, <1>4, <1>5 DEF KeptOK

LEMMA ForgetKeeps ==
    ASSUME UsageInv, KeptOK, NEW s \in Setters, Forget(s)
    PROVE  KeptOK'
<1>1. /\ setter[s].at = "forgets" /\ UNCHANGED <<disk, writes, ever, pass>> /\ pass.at = "idle"
      /\ \A p \in Paths : files'[p] = IF files[p].gone THEN files[p] ELSE Unknown
      /\ \A t \in Setters : setter'[t].at # "forgets"
    BY UsageFacts DEF Forget, At, UsageInv, OneRuns, agentVars, Away
<1>2. Unknown.counts = {} /\ Unknown.stamp = 0 /\ Unknown.known = FALSE
    BY DEF Unknown
<1>3. GrowOK'
    BY <1>1, <1>2, UsageFacts DEF KeptOK, GrowOK
<1>4. ReadingOK' /\ LeftOK'
    BY <1>1 DEF ReadingOK, LeftOK, AtOne
<1>5. ForgetsOK'
    BY <1>1 DEF ForgetsOK
<1>6. CoverOK'
    <2>1. ASSUME NEW r \in Requests, NEW p \in Paths, ~files[p].gone, disk[p].there, r \in disk[p].text
          PROVE  Covered(r)'
        BY <1>1, <1>2, <2>1 DEF Covered, KeptOK, GrowOK
    <2>2. \A p \in Paths : files[p].known /\ ~files[p].gone => disk[p].there
        BY <1>1 DEF KeptOK, ForgetsOK, GoneUnnoticed
    <2>3. ASSUME NEW r \in Requests, Counted(r) PROVE Covered(r)'
        <3>1. PICK p \in Paths : r \in files[p].counts
            BY <2>3 DEF Counted
        <3>2. CASE files[p].gone
            BY <1>1, <3>1, <3>2 DEF Covered, Counted
        <3>3. CASE ~files[p].gone
            BY <2>1, <2>2, <3>1, <3>3 DEF KeptOK, GrowOK
        <3>4. QED BY <3>2, <3>3
    <2>4. ASSUME NEW r \in Requests, NEW q \in Paths, disk[q].there, r \in disk[q].text,
                 files[q].problem \/ files[q].stamp # disk[q].stamp
          PROVE  Covered(r)'
        <3>1. CASE files[q].gone
            BY <1>1, <2>4, <3>1 DEF Covered
        <3>2. CASE ~files[q].gone
            BY <2>1, <2>4, <3>2
        <3>3. QED BY <3>1, <3>2
    <2>5. \A r \in Requests : (Covered(r) => Covered(r)') /\ (OnDisk(r)' => OnDisk(r))
        BY <1>1, <2>3, <2>4 DEF Covered, OnDisk
    <2>6. QED BY <1>1, <2>5 DEF KeptOK, CoverOK
<1>7. QED BY <1>3, <1>4, <1>5, <1>6 DEF KeptOK

\* The steps of a pass that leave the tables alone.
LEMMA PassKeeps ==
    ASSUME UsageInv, KeptOK, Ensure \/ TakeStamps \/ Walk \/ WalkFails \/ Visit \/ Stat \/ Read \/ ReadFails \/ AskHeld
    PROVE  KeptOK'
<1>1. UNCHANGED <<disk, writes, files, holder, ever, setter>>
    BY DEF Ensure, TakeStamps, Walk, WalkFails, Visit, Stat, Read, ReadFails, AskHeld, agentVars, tableVars, zoneVars
<1>2. GrowOK' /\ ForgetsOK' /\ CoverOK'
    BY <1>1, PartsKeep DEF KeptOK
<1>3. \A p : Pending(p) <=> Pending(p)'
    BY <1>1 DEF Pending, Current
<1>4. PassOK /\ pass.left \subseteq Paths
    BY UsageFacts
<1>5. CASE Ensure
    BY <1>2, <1>4, <1>5, PassFields DEF KeptOK, ReadingOK, LeftOK, AtOne
<1>6. CASE TakeStamps
    BY <1>1, <1>2, <1>4, <1>6, PassFields DEF KeptOK, ReadingOK, LeftOK, AtOne
<1>7. CASE Walk \/ WalkFails
    <2>1. /\ pass'.at = "visits" /\ pass'.stamps = pass.stamps /\ pass'.refs = Found(pass'.left) /\ \A p \in pass'.left : disk[p].there
        BY <1>4, <1>7, PassFields
    <2>2. pass.stamps = [p \in Paths |-> IF files[p].known /\ ~files[p].gone THEN files[p].stamp ELSE -1]
        BY <1>7 DEF Walk, WalkFails, KeptOK, LeftOK
    <2>3. pass'.left \subseteq Paths
        BY PassStep, <1>7 DEF UsageInv, PassOK, PassSet, UsageNext, Passes
    <2>4. \A p \in pass'.left : pass'.refs[p] = disk[p].stamp
        BY <2>1, <2>3 DEF Found
    <2>5. \A p \in pass'.left : pass'.refs[p] # pass'.stamps[p] => Pending(p)
        BY <2>1, <2>2, <2>3, <2>4, UsageFacts DEF Pending, Current
    <2>6. QED BY <1>2, <1>3, <2>1, <2>5 DEF KeptOK, ReadingOK, LeftOK, AtOne
<1>8. CASE Visit
    <2>1. PICK p \in pass.left :
             /\ p \in Paths /\ pass'.left = pass.left \ {p} /\ pass'.stamps = pass.stamps /\ pass'.refs = pass.refs
             /\ \/ pass.refs[p] = pass.stamps[p] /\ pass'.at = "visits"
                \/ pass.refs[p] # pass.stamps[p] /\ pass'.at = "stats" /\ pass'.path = p
        BY <1>4, <1>8, VisitFields
    <2>2. \A q \in pass.left : pass.refs[q] # pass.stamps[q] => Pending(q)
        BY <1>8 DEF Visit, KeptOK, LeftOK
    <2>3. LeftOK'
        BY <1>3, <2>1, <2>2 DEF LeftOK
    <2>4. ReadingOK'
        BY <1>3, <2>1, <2>2 DEF ReadingOK, AtOne
    <2>5. QED BY <1>2, <2>3, <2>4 DEF KeptOK
<1>9. CASE Stat \/ Read \/ ReadFails \/ AskHeld
    <2>1. /\ pass.at \in AtOne /\ pass.path \in Paths /\ pass'.at \in AtOne /\ pass'.path = pass.path /\ pass'.left = pass.left
          /\ pass'.stamps = pass.stamps /\ pass'.refs = pass.refs /\ Pending(pass.path) /\ pass.path \notin pass.left
        <3>1. pass.at \in AtOne
            BY <1>9 DEF Stat, Read, ReadFails, AskHeld, AtOne
        <3>2. pass'.at \in AtOne /\ pass'.path = pass.path /\ pass'.left = pass.left /\ pass'.stamps = pass.stamps /\ pass'.refs = pass.refs
            BY <1>4, <1>9, PassFields DEF AtOne
        <3>3. QED BY <1>4, <3>1, <3>2 DEF PassOK, KeptOK, ReadingOK
    <2>2. LeftOK'
        <3>1. \A p \in pass.left : pass.refs[p] # pass.stamps[p] => Pending(p)
            BY <2>1 DEF KeptOK, LeftOK
        <3>2. pass'.at # "walks"
            BY <2>1 DEF AtOne
        <3>3. QED BY <1>3, <2>1, <3>1, <3>2 DEF LeftOK
    <2>3. Pending(pass.path)' /\ disk' = disk
        BY <1>1, <2>1 DEF Pending, Current
    <2>4. pass.stamp \in Nat /\ disk[pass.path].stamp \in Nat /\ disk[pass.path].there
        BY <2>1, UsageFacts DEF Pending
    <2>5. ReadingOK'
        <3>1. CASE Stat
            <4>1. pass'.at = "reads" /\ pass'.stamp = disk[pass.path].stamp /\ pass'.text = {} /\ ~pass'.problem
                BY <1>4, <2>4, <3>1, PassFields
            <4>2. QED BY <2>1, <2>3, <2>4, <4>1 DEF ReadingOK
        <3>2. CASE Read
            <4>1. pass'.at = "asks" /\ pass'.stamp = pass.stamp /\ pass'.text = disk[pass.path].text /\ pass'.problem = pass.problem
                BY <1>4, <3>2, PassFields
            <4>2. pass.stamp <= disk[pass.path].stamp /\ pass.at = "reads"
                BY <3>2 DEF Read, KeptOK, ReadingOK
            <4>3. ~pass.problem
                BY <4>2 DEF KeptOK, ReadingOK
            <4>4. QED BY <2>1, <2>3, <4>1, <4>2, <4>3 DEF ReadingOK
        <3>3. CASE ReadFails
            <4>1. pass'.at = "asks" /\ pass'.stamp = pass.stamp /\ pass'.text = pass.text /\ pass'.problem = TRUE
                BY <1>4, <3>3, PassFields
            <4>2. pass.stamp <= disk[pass.path].stamp /\ pass.text = {}
                BY <3>3 DEF ReadFails, KeptOK, ReadingOK
            <4>3. QED BY <2>1, <2>3, <4>1, <4>2 DEF ReadingOK
        <3>4. CASE AskHeld
            <4>1. /\ pass'.at = "replaces" /\ pass'.stamp = pass.stamp /\ pass'.problem = pass.problem
                  /\ pass'.text = {r \in pass.text : ~HeldElsewhere(pass.path, r)}
                BY <1>4, <3>4, PassFields
            <4>2. /\ pass.stamp <= disk[pass.path].stamp /\ pass.text \subseteq disk[pass.path].text /\ (pass.problem => pass.text = {})
                  /\ ~pass.problem => pass.stamp < disk[pass.path].stamp \/ disk[pass.path].text \subseteq pass.text
                BY <3>4 DEF AskHeld, KeptOK, ReadingOK
            <4>3. \A r : HeldElsewhere(pass.path, r) <=> HeldElsewhere(pass.path, r)'
                BY <1>1, <2>1 DEF HeldElsewhere
            <4>4. QED BY <1>1, <2>1, <2>3, <4>1, <4>2 DEF ReadingOK, HeldElsewhere
        <3>5. QED BY <1>9, <3>1, <3>2, <3>3, <3>4
    <2>6. QED BY <1>2, <2>2, <2>5 DEF KeptOK
<1>10. QED BY <1>5, <1>6, <1>7, <1>8, <1>9

LEMMA KeptStep ==
    ASSUME ~Abandons, ~Unnoticed, UsageInv, KeptOK, [UsageNext]_usageVars
    PROVE  KeptOK'
<1>1. pass' = Idle => ReadingOK' /\ LeftOK'
    BY IdleFits DEF ReadingOK, LeftOK, AtOne
<1>2. CASE StoreFails
    <2>1. UNCHANGED <<disk, writes, files, ever, setter>>
        BY <1>2 DEF StoreFails, agentVars, tableVars, zoneVars
    <2>2. GrowOK' /\ ForgetsOK' /\ CoverOK'
        BY <2>1, PartsKeep DEF KeptOK
    <2>3. CASE pass' = Idle
        BY <1>1, <2>2, <2>3 DEF KeptOK
    <2>4. CASE pass' # Idle
        <3>1. /\ pass'.at = "visits" /\ pass'.left = pass.left /\ pass'.stamps = pass.stamps /\ pass'.refs = pass.refs
              /\ pass.at \in {"asks", "replaces"}
            BY <1>2, <2>4, UsageFacts, PassFields
        <3>2. ReadingOK' /\ LeftOK'
            BY <2>1, <3>1 DEF KeptOK, ReadingOK, LeftOK, AtOne, Pending, Current
        <3>3. QED BY <2>2, <3>2 DEF KeptOK
    <2>5. QED BY <2>3, <2>4
<1>3. CASE UsageRestarts
    <2>1. UNCHANGED <<disk, writes, files, ever>> /\ pass' = Idle /\ \A s \in Setters : setter'[s].at # "forgets"
        BY <1>3 DEF UsageRestarts, agentVars, tableVars, Away
    <2>2. QED BY <1>1, <2>1, PartsKeep DEF KeptOK, ForgetsOK
<1>4. ASSUME NEW s \in Setters, SetZone(s) \/ Rezone(s) \/ ForgetFails(s) \/ \E z \in Zones : Asked(s, z)
      PROVE  KeptOK'
    <2>1. UNCHANGED <<disk, writes, files, holder, ever, pass>>
        BY <1>4 DEF SetZone, Rezone, ForgetFails, Asked, agentVars, tableVars
    <2>2. ForgetsOK'
        <3>1. CASE Rezone(s)
            <4>1. ~GoneUnnoticed'
                BY <2>1, <3>1 DEF Rezone, GoneUnnoticed
            <4>2. QED BY <4>1 DEF ForgetsOK
        <3>2. CASE SetZone(s) \/ ForgetFails(s) \/ \E z \in Zones : Asked(s, z)
            <4>1. \A t \in Setters : setter'[t].at = "forgets" => setter[t].at = "forgets"
                <5>1. setter \in [Setters -> SetterSet]
                    BY UsageFacts
                <5>2. CASE SetZone(s)
                    <6>1. setter[s] \in SetterSet /\ [setter[s] EXCEPT !.at = "waits"].at = "waits"
                        BY <5>1 DEF SetterSet
                    <6>2. setter'[s].at # "forgets" /\ \A t \in Setters \ {s} : setter'[t] = setter[t]
                        BY <5>1, <5>2, <6>1 DEF SetZone, Away
                    <6>3. QED BY <6>2
                <5>3. CASE ForgetFails(s) \/ \E z \in Zones : Asked(s, z)
                    BY <5>1, <5>3 DEF ForgetFails, Asked, Away
                <5>4. QED BY <3>2, <5>2, <5>3
            <4>2. QED BY <2>1, <4>1 DEF KeptOK, ForgetsOK, GoneUnnoticed
        <3>3. QED BY <1>4, <3>1, <3>2
    <2>3. QED BY <2>1, <2>2, PartsKeep DEF KeptOK
<1>5. CASE UNCHANGED usageVars
    BY <1>5, PartsKeep DEF KeptOK, usageVars
<1>6. QED BY <1>2, <1>3, <1>4, <1>5, WriteKeeps, VanishKeeps, ReplaceKeeps, RetireKeeps, ForgetKeeps, PassKeeps
          DEF UsageNext, Passes, Rezones

\* Every request is counted, once, and stays so, whenever transcripts only grow,
\* go only when they are counted, and one request at a time changes the zone; for
\* any transcripts, and any writes, failures and restarts (ingest.go, usage.go).
THEOREM UsageExactCorrect ==
    ASSUME ~Abandons, ~Unnoticed, OneSetter PROVE UsageSpec => []UsageExact
<1>1. UsageInit => KeptOK
    BY IdleFits DEF UsageInit, KeptOK, GrowOK, ReadingOK, LeftOK, ForgetsOK, CoverOK, AtOne, Unknown, Away, OnDisk
<1>2. UsageInv /\ KeptOK /\ [UsageNext]_usageVars => KeptOK'
    BY KeptStep
<1>3. UsageInv /\ KeptOK => AllCounted
    <2> SUFFICES ASSUME UsageInv, KeptOK, NEW p \in Paths, disk[p].there, NEW r \in disk[p].text
                 PROVE  \/ Counted(r)
                        \/ \E q \in Paths : disk[q].there /\ files[q].stamp # disk[q].stamp
                        \/ \E q \in Paths : files[q].problem /\ r \in disk[q].text
        BY DEF AllCounted
    <2>1. r \in Requests
        BY UsageFacts
    <2>2. QED BY <2>1 DEF KeptOK, CoverOK, OnDisk, Covered
<1>4. UsageInv /\ KeptOK => NumbersKept
    <2> SUFFICES ASSUME UsageInv, KeptOK, NEW r \in ever
                 PROVE  Counted(r) \/ \E p \in Paths : disk[p].there /\ r \in disk[p].text
        BY DEF NumbersKept
    <2>1. r \in Requests
        BY DEF UsageInv, TablesOK
    <2>2. QED BY <2>1 DEF KeptOK, CoverOK, Covered
<1>5. UsageSpec => [](AllCounted /\ NumbersKept)
    BY <1>1, <1>2, <1>3, <1>4, UsageInvariant, PTL DEF UsageSpec
<1>6. QED BY <1>5, CountedOnceCorrect, LabelsInZoneCorrect, PTL DEF UsageExact

----------------------------------------------------------------------------
(* PluginEvents: the events on their way to a plugin                       *)
----------------------------------------------------------------------------

WorkerSet ==
    [queue : Seq(Events), done : BOOLEAN, ended : BOOLEAN, holds : 0..MaxEvents, dropped : Nat,
     seen : Seq(Events), given : SUBSET Events, unheard : SUBSET Events]
RaiserSet == [at : {"out", "sends", "drops", "counts", "resends"}, to : 0..MaxWorkers, event : 0..MaxEvents]

\* Of two events one goroutine raised, the first happened first; b says who
\* raised each.
Before(x, y, b) == b[x] = b[y] => x < y

\* What a worker has run for, holds and will come to, in the order of the raisers.
OrderOK(n, b) ==
    /\ \A i, j \in 1..Len(n.seen) : i < j => Before(n.seen[i], n.seen[j], b)
    /\ \A i, j \in 1..Len(n.queue) : i < j => Before(n.queue[i], n.queue[j], b)
    /\ \A i \in 1..Len(n.seen), j \in 1..Len(n.queue) : Before(n.seen[i], n.queue[j], b)
    /\ n.holds # 0 => /\ \A i \in 1..Len(n.seen) : Before(n.seen[i], n.holds, b)
                      /\ \A j \in 1..Len(n.queue) : Before(n.holds, n.queue[j], b)

\* All that has reached the worker comes before the event e of its raiser.
NewestOK(n, e, b) ==
    /\ \A i \in 1..Len(n.seen) : Before(n.seen[i], e, b)
    /\ \A j \in 1..Len(n.queue) : Before(n.queue[j], e, b)
    /\ n.holds # 0 => Before(n.holds, e, b)

\* No worker has an event that has not happened.
HappenedOK(n, k) ==
    /\ \A i \in 1..Len(n.seen) : n.seen[i] <= k
    /\ \A j \in 1..Len(n.queue) : n.queue[j] <= k
    /\ n.holds <= k

----------------------------------------------------------------------------
(* One worker *)

LEMMA EnqueuedOK ==
    ASSUME NEW n \in WorkerSet, NEW b, NEW e \in Events, OrderOK(n, b), NewestOK(n, e, b),
           NEW m \in WorkerSet, m.queue = n.queue \o <<e>>, m.seen = n.seen, m.holds = n.holds
    PROVE  /\ OrderOK(m, b)
           /\ \A f : NewestOK(n, f, b) /\ Before(e, f, b) => NewestOK(m, f, b)
           /\ \A k : HappenedOK(n, k) /\ e <= k => HappenedOK(m, k)
<1>1. n.queue \in Seq(Events) /\ n.seen \in Seq(Events) /\ Len(n.queue) \in Nat
    BY DEF WorkerSet
<1>2. Len(m.queue) = Len(n.queue) + 1 /\ m.queue[Len(n.queue) + 1] = e
    BY <1>1, ConcatProperties
<1>3. \A j \in 1..Len(n.queue) : m.queue[j] = n.queue[j]
    BY <1>1, ConcatProperties
<1>4. \A j \in 1..Len(m.queue) : j \in 1..Len(n.queue) \/ j = Len(n.queue) + 1
    BY <1>1, <1>2
<1>5. \A j \in 1..Len(m.queue) : m.queue[j] = e \/ (j \in 1..Len(n.queue) /\ m.queue[j] = n.queue[j])
    <2> TAKE j \in 1..Len(m.queue)
    <2>1. CASE j \in 1..Len(n.queue)
        BY <1>3, <2>1
    <2>2. CASE j = Len(n.queue) + 1
        BY <1>2, <2>2, Zenon
    <2>3. QED BY <1>4, <2>1, <2>2
<1>6. ASSUME NEW i \in 1..Len(m.queue), NEW j \in 1..Len(m.queue), i < j PROVE Before(m.queue[i], m.queue[j], b)
    <2>1. i \in 1..Len(n.queue)
        BY <1>1, <1>2, <1>6
    <2>2. QED BY <1>2, <1>3, <1>4, <1>6, <2>1 DEF OrderOK, NewestOK
<1>7. OrderOK(m, b)
    BY <1>5, <1>6 DEF OrderOK, NewestOK
<1>8. \A f : NewestOK(n, f, b) /\ Before(e, f, b) => NewestOK(m, f, b)
    BY <1>5 DEF NewestOK
<1>9. \A k : HappenedOK(n, k) /\ e <= k => HappenedOK(m, k)
    BY <1>5 DEF HappenedOK
<1>10. QED BY <1>7, <1>8, <1>9

\* The first of the queue is dropped, or taken to be held.
LEMMA TailOK ==
    ASSUME NEW n \in WorkerSet, NEW b, OrderOK(n, b), n.queue # <<>>,
           NEW m \in WorkerSet, m.queue = Tail(n.queue), m.seen = n.seen,
           m.holds = n.holds \/ (n.holds = 0 /\ m.holds = Head(n.queue))
    PROVE  /\ OrderOK(m, b)
           /\ \A f : NewestOK(n, f, b) => NewestOK(m, f, b)
           /\ \A k : HappenedOK(n, k) => HappenedOK(m, k)
<1>1. n.queue \in Seq(Events) /\ n.seen \in Seq(Events) /\ Len(n.queue) \in Nat /\ Len(n.queue) # 0
    BY EmptySeq DEF WorkerSet
<1>2. Len(m.queue) = Len(n.queue) - 1 /\ \A j \in 1..Len(m.queue) : m.queue[j] = n.queue[j + 1]
    BY <1>1, HeadTailProperties
<1>3. Head(n.queue) = n.queue[1] /\ 1 \in 1..Len(n.queue)
    BY <1>1
<1>4. \A j \in 1..Len(m.queue) : j + 1 \in 1..Len(n.queue) /\ 1 < j + 1
    BY <1>1, <1>2
<1>5. \A i, j \in 1..Len(m.queue) : i < j => i + 1 < j + 1
    BY <1>1, <1>2
<1>6. OrderOK(m, b)
    <2>1. \A i, j \in 1..Len(m.queue) : i < j => Before(m.queue[i], m.queue[j], b)
        BY <1>2, <1>4, <1>5 DEF OrderOK
    <2>2. \A i \in 1..Len(m.seen), j \in 1..Len(m.queue) : Before(m.seen[i], m.queue[j], b)
        BY <1>2, <1>4 DEF OrderOK
    <2>3. ASSUME m.holds # 0
          PROVE  /\ \A i \in 1..Len(m.seen) : Before(m.seen[i], m.holds, b)
                 /\ \A j \in 1..Len(m.queue) : Before(m.holds, m.queue[j], b)
        <3>1. CASE m.holds = n.holds
            BY <1>2, <1>4, <2>3, <3>1 DEF OrderOK
        <3>2. CASE m.holds = Head(n.queue)
            BY <1>2, <1>3, <1>4, <3>2 DEF OrderOK
        <3>3. QED BY <3>1, <3>2
    <2>4. QED BY <2>1, <2>2, <2>3 DEF OrderOK
<1>7. ASSUME NEW f, NewestOK(n, f, b) PROVE NewestOK(m, f, b)
    BY <1>2, <1>3, <1>4, <1>7 DEF NewestOK
<1>8. ASSUME NEW k, HappenedOK(n, k) PROVE HappenedOK(m, k)
    BY <1>2, <1>3, <1>4, <1>8 DEF HappenedOK
<1>9. QED BY <1>6, <1>7, <1>8

\* What is held is run for, or left out.
LEMMA SeenOK ==
    ASSUME NEW n \in WorkerSet, NEW b, OrderOK(n, b), n.holds # 0,
           NEW m \in WorkerSet, m.queue = n.queue, m.holds = 0,
           m.seen = n.seen \/ m.seen = n.seen \o <<n.holds>>
    PROVE  /\ OrderOK(m, b)
           /\ \A f : NewestOK(n, f, b) => NewestOK(m, f, b)
           /\ \A k \in Nat : HappenedOK(n, k) => HappenedOK(m, k)
<1>1. n.seen \in Seq(Events) /\ Len(n.seen) \in Nat /\ n.holds \in Events
    BY DEF WorkerSet, Events
<1>2. CASE m.seen = n.seen
    BY <1>2 DEF OrderOK, NewestOK, HappenedOK
<1>3. CASE m.seen = n.seen \o <<n.holds>>
    <2> DEFINE h == n.holds
    <2>1. Len(m.seen) = Len(n.seen) + 1 /\ m.seen[Len(n.seen) + 1] = h
        BY <1>1, <1>3, ConcatProperties
    <2>2. \A i \in 1..Len(n.seen) : m.seen[i] = n.seen[i]
        BY <1>1, <1>3, ConcatProperties
    <2>3. \A i \in 1..Len(m.seen) : m.seen[i] = h \/ (i \in 1..Len(n.seen) /\ m.seen[i] = n.seen[i])
        <3> TAKE i \in 1..Len(m.seen)
        <3>1. i \in 1..Len(n.seen) \/ i = Len(n.seen) + 1
            BY <1>1, <2>1
        <3>2. CASE i \in 1..Len(n.seen)
            BY <2>2, <3>2
        <3>3. CASE i = Len(n.seen) + 1
            BY <2>1, <3>3, Zenon
        <3>4. QED BY <3>1, <3>2, <3>3
    <2>4. ASSUME NEW i \in 1..Len(m.seen), NEW j \in 1..Len(m.seen), i < j PROVE Before(m.seen[i], m.seen[j], b)
        <3>1. i \in 1..Len(n.seen) /\ (j \in 1..Len(n.seen) \/ j = Len(n.seen) + 1)
            BY <1>1, <2>1, <2>4
        <3>2. QED BY <2>1, <2>2, <2>4, <3>1 DEF OrderOK
    <2>5. OrderOK(m, b)
        BY <2>3, <2>4 DEF OrderOK
    <2>6. \A f : NewestOK(n, f, b) => NewestOK(m, f, b)
        BY <2>3 DEF NewestOK
    <2>7. \A k \in Nat : HappenedOK(n, k) => HappenedOK(m, k)
        BY <2>3 DEF HappenedOK
    <2>8. QED BY <2>5, <2>6, <2>7
<1>4. QED BY <1>2, <1>3

\* What is true of b is true of a longer one.
LEMMA LongerOK ==
    ASSUME NEW n \in WorkerSet, NEW b \in Seq(Raisers), NEW c \in Seq(Raisers), Len(b) <= Len(c),
           \A i \in 1..Len(b) : c[i] = b[i], HappenedOK(n, Len(b))
    PROVE  /\ OrderOK(n, b) => OrderOK(n, c)
           /\ \A f \in 1..Len(b) : NewestOK(n, f, b) => NewestOK(n, f, c)
           /\ HappenedOK(n, Len(c))
<1>1. Len(b) \in Nat /\ Len(c) \in Nat /\ n.seen \in Seq(Events) /\ n.queue \in Seq(Events) /\ n.holds \in 0..MaxEvents
    BY DEF WorkerSet
<1>2. /\ \A i \in 1..Len(n.seen) : n.seen[i] \in 1..Len(b)
      /\ \A j \in 1..Len(n.queue) : n.queue[j] \in 1..Len(b)
      /\ n.holds # 0 => n.holds \in 1..Len(b)
    <2>1. \A i \in 1..Len(n.seen) : n.seen[i] \in Events /\ n.seen[i] <= Len(b)
        BY <1>1 DEF HappenedOK
    <2>2. \A j \in 1..Len(n.queue) : n.queue[j] \in Events /\ n.queue[j] <= Len(b)
        BY <1>1 DEF HappenedOK
    <2>3. n.holds # 0 => n.holds \in Events /\ n.holds <= Len(b)
        BY <1>1 DEF HappenedOK, Events
    <2>4. \A x \in Events : x <= Len(b) => x \in 1..Len(b)
        BY <1>1 DEF Events
    <2>5. QED BY <2>1, <2>2, <2>3, <2>4
<1>3. \A x, y \in 1..Len(b) : Before(x, y, b) => Before(x, y, c)
    BY DEF Before
<1>4. OrderOK(n, b) => OrderOK(n, c)
    BY <1>2, <1>3 DEF OrderOK
<1>5. \A f \in 1..Len(b) : NewestOK(n, f, b) => NewestOK(n, f, c)
    BY <1>2, <1>3 DEF NewestOK
<1>6. HappenedOK(n, Len(c))
    <2>1. \A x \in 1..Len(b) : x <= Len(c)
        BY <1>1
    <2>2. n.holds <= Len(c)
        BY <1>1, <1>2, <2>1
    <2>3. QED BY <1>2, <2>1, <2>2 DEF HappenedOK
<1>7. QED BY <1>4, <1>5, <1>6

----------------------------------------------------------------------------
(* What is lost *)

Kept(n, H) == Elements(n.seen) \cup Elements(n.queue) \cup H \cup n.unheard \cup {n.holds}
Lost(n, H) == n.given \ Kept(n, H)

\* The calls of pluginEventRaised that are at one place with one worker.
RaisersAt(at, w) == {r \in Raisers : raiser[r].at = at /\ raiser[r].to = w}

LEMMA ElementsGrow ==
    ASSUME NEW s \in Seq(Events), NEW e \in Events
    PROVE  /\ Elements(s \o <<e>>) = Elements(s) \cup {e}
           /\ s # <<>> => Elements(s) = {Head(s)} \cup Elements(Tail(s)) /\ Head(s) \in Events /\ Tail(s) \in Seq(Events)
<1>1. Len(s) \in Nat /\ DOMAIN s = 1..Len(s)
    OBVIOUS
<1>2. Elements(s \o <<e>>) = Elements(s) \cup {e}
    <2> DEFINE t == s \o <<e>>
    <2>1. t \in Seq(Events) /\ Len(t) = Len(s) + 1 /\ DOMAIN t = 1..(Len(s) + 1)
        BY ConcatProperties
    <2>2. \A i \in 1..Len(s) : t[i] = s[i]
        BY ConcatProperties
    <2>3. t[Len(s) + 1] = e
        BY ConcatProperties
    <2> HIDE DEF t
    <2>4. \A i \in DOMAIN t : i \in DOMAIN s \/ i = Len(s) + 1
        BY <1>1, <2>1
    <2>5. Len(s) + 1 \in DOMAIN t /\ DOMAIN s \subseteq DOMAIN t
        BY <1>1, <2>1
    <2>6. \A x \in Elements(t) : x \in Elements(s) \cup {e}
        BY <1>1, <2>2, <2>3, <2>4, Zenon DEF Elements
    <2>7. \A x \in Elements(s) \cup {e} : x \in Elements(t)
        BY <1>1, <2>2, <2>3, <2>5, Zenon DEF Elements
    <2>8. QED BY <2>6, <2>7 DEF t
<1>3. ASSUME s # <<>> PROVE Elements(s) = {Head(s)} \cup Elements(Tail(s)) /\ Head(s) \in Events /\ Tail(s) \in Seq(Events)
    <2> DEFINE t == Tail(s)
    <2>1. Head(s) \in Events /\ t \in Seq(Events) /\ Len(t) = Len(s) - 1 /\ \A i \in 1..Len(t) : t[i] = s[i + 1]
        BY <1>3, HeadTailProperties
    <2>2. Len(s) >= 1 /\ Head(s) = s[1]
        BY <1>1, <1>3, EmptySeq
    <2> HIDE DEF t
    <2>3. DOMAIN t = 1..(Len(s) - 1) /\ 1 \in DOMAIN s
        BY <1>1, <2>1, <2>2
    <2>4. \A x \in Elements(s) : x \in {Head(s)} \cup Elements(t)
        <3> TAKE x \in Elements(s)
        <3>1. PICK i \in 1..Len(s) : x = s[i]
            BY <1>1 DEF Elements
        <3>2. CASE i = 1
            BY <2>2, <3>1, <3>2, Zenon
        <3>3. CASE i # 1
            <4>1. i - 1 \in DOMAIN t /\ (i - 1) + 1 = i
                BY <1>1, <2>3, <3>3
            <4>2. t[i - 1] = s[i]
                BY <1>1, <2>1, <4>1
            <4>3. QED BY <3>1, <4>1, <4>2, Zenon DEF Elements
        <3>4. QED BY <3>2, <3>3
    <2>5. \A x \in Elements(t) : x \in Elements(s)
        <3> TAKE x \in Elements(t)
        <3>1. PICK i \in DOMAIN t : x = t[i]
            BY DEF Elements
        <3>2. i + 1 \in DOMAIN s /\ t[i] = s[i + 1]
            BY <1>1, <2>1, <2>3
        <3>3. QED BY <3>1, <3>2, Zenon DEF Elements
    <2>6. Head(s) \in Elements(s)
        BY <2>2, <2>3, Zenon DEF Elements
    <2>7. QED BY <2>1, <2>4, <2>5, <2>6 DEF t
<1>4. QED BY <1>2, <1>3

LEMMA LostFinite ==
    ASSUME NEW n \in WorkerSet, NEW H
    PROVE  IsFiniteSet(Lost(n, H)) /\ Cardinality(Lost(n, H)) \in Nat
<1>1. IsFiniteSet(Events)
    BY FS_Interval, EventsAssumption DEF Events
<1>2. Lost(n, H) \in SUBSET Events
    BY DEF Lost, WorkerSet
<1>3. QED BY <1>1, <1>2, FS_Subset, FS_CardinalityType

\* At most one event more is lost.
LEMMA OneMoreLost ==
    ASSUME NEW n \in WorkerSet, NEW H, NEW m \in WorkerSet, NEW I
    PROVE  /\ Lost(m, I) \subseteq Lost(n, H) => Cardinality(Lost(m, I)) <= Cardinality(Lost(n, H))
           /\ \A x : Lost(m, I) \subseteq Lost(n, H) \cup {x} => Cardinality(Lost(m, I)) <= Cardinality(Lost(n, H)) + 1
<1>1. IsFiniteSet(Lost(n, H)) /\ Cardinality(Lost(n, H)) \in Nat
    BY LostFinite
<1>2. Lost(m, I) \subseteq Lost(n, H) => Cardinality(Lost(m, I)) <= Cardinality(Lost(n, H))
    BY <1>1, FS_Subset
<1>3. ASSUME NEW x, Lost(m, I) \subseteq Lost(n, H) \cup {x} PROVE Cardinality(Lost(m, I)) <= Cardinality(Lost(n, H)) + 1
    <2>1. IsFiniteSet(Lost(n, H) \cup {x}) /\ Cardinality(Lost(n, H) \cup {x}) <= Cardinality(Lost(n, H)) + 1
        BY <1>1, FS_AddElement
    <2>2. Cardinality(Lost(m, I)) <= Cardinality(Lost(n, H) \cup {x})
        BY <1>3, <2>1, FS_Subset
    <2>3. Cardinality(Lost(n, H) \cup {x}) \in Nat /\ Cardinality(Lost(m, I)) \in Nat
        BY <2>1, LostFinite, FS_CardinalityType
    <2>4. QED BY <1>1, <2>1, <2>2, <2>3
<1>4. QED BY <1>2, <1>3

----------------------------------------------------------------------------
(* All of it *)

RaisersOK ==
    /\ by \in Seq(Raisers) /\ Len(by) <= MaxEvents
    /\ raiser \in [Raisers -> RaiserSet]
    /\ \A r \in Raisers :
          \/ raiser[r] = Outside
          \/ /\ raiser[r].at # "out" /\ raiser[r].to \in 1..started /\ raiser[r].event \in 1..Len(by)
             /\ by[raiser[r].event] = r

MapOK ==
    /\ started \in Workers /\ inMap \in 0..started
    /\ worker \in [Workers -> WorkerSet]
    /\ \A w \in Workers : Len(worker[w].queue) <= MaxQueue

LineOK ==
    /\ \A w \in Workers : OrderOK(worker[w], by) /\ HappenedOK(worker[w], Len(by))
    /\ \A r \in Raisers : raiser[r].at # "out" => NewestOK(worker[raiser[r].to], raiser[r].event, by)

\* Every drop that is counted makes room for two losses: the oldest, and later
\* the event that was to take its place.
LossOK ==
    \A w \in Workers :
        Cardinality(Lost(worker[w], InHand(w))) + Cardinality(RaisersAt("resends", w))
            <= 2 * worker[w].dropped + Cardinality(RaisersAt("counts", w))

EventsInv == enabled \in BOOLEAN /\ RaisersOK /\ MapOK /\ LineOK /\ LossOK /\ OneWorker

LEMMA StartedAreWorkers ==
    ASSUME EventsInv
    PROVE  1..started \subseteq Workers /\ started \in Nat
<1>1. MaxWorkers \in Nat
    BY EventsAssumption
<1>2. started \in 1..MaxWorkers
    BY DEF EventsInv, MapOK, Workers
<1>3. QED BY <1>1, <1>2 DEF Workers

LEMMA RaisersFinite ==
    ASSUME RaisersOK, NEW at, NEW w \in Workers
    PROVE  IsFiniteSet(RaisersAt(at, w)) /\ Cardinality(RaisersAt(at, w)) \in Nat
<1> DEFINE S == RaisersAt(at, w)
           f == [r \in S |-> raiser[r].event]
<1>1. \A r \in S : r \in Raisers /\ raiser[r].event \in 1..Len(by) /\ by[raiser[r].event] = r
    BY DEF RaisersAt, RaisersOK, Outside, Workers
<1>2. f \in [S -> 1..Len(by)]
    BY <1>1
<1>3. \A r, q \in S : f[r] = f[q] => r = q
    BY <1>1
<1>4. f \in Injection(S, 1..Len(by))
    BY <1>2, <1>3 DEF Injection, IsInjective
<1>5. IsFiniteSet(1..Len(by))
    BY FS_Interval DEF RaisersOK
<1> HIDE DEF f, S
<1>6. IsFiniteSet(S)
    BY <1>4, <1>5, FS_Injection
<1>7. QED BY <1>6, FS_CardinalityType DEF S

LEMMA EventsInvKeeps ==
    ASSUME EventsInv
    PROVE  EventsKept
<1>1. InOrder
    <2> SUFFICES ASSUME NEW w \in Workers, NEW i \in DOMAIN worker[w].seen, NEW j \in DOMAIN worker[w].seen,
                        i < j, by[worker[w].seen[i]] = by[worker[w].seen[j]]
                 PROVE  worker[w].seen[i] < worker[w].seen[j]
        BY DEF InOrder
    <2>1. worker[w].seen \in Seq(Events)
        BY DEF EventsInv, MapOK, WorkerSet
    <2>2. DOMAIN worker[w].seen = 1..Len(worker[w].seen)
        BY <2>1
    <2>3. QED BY <2>2 DEF EventsInv, LineOK, OrderOK, Before
<1>2. LossesCounted
    <2> SUFFICES ASSUME NEW w \in Workers
                 PROVE  Cardinality(Lost(worker[w], InHand(w))) <= 2 * worker[w].dropped + Cardinality(RaisersAt("counts", w))
        BY DEF LossesCounted, Lost, Kept, RaisersAt
    <2>1. Cardinality(RaisersAt("resends", w)) \in Nat /\ Cardinality(RaisersAt("counts", w)) \in Nat
        BY RaisersFinite DEF EventsInv
    <2>2. worker[w] \in WorkerSet
        BY DEF EventsInv, MapOK
    <2>3. worker[w].dropped \in Nat /\ Cardinality(Lost(worker[w], InHand(w))) \in Nat
        BY <2>2, LostFinite DEF WorkerSet
    <2>4. QED BY <2>1, <2>3 DEF EventsInv, LossOK
<1>3. QED BY <1>1, <1>2 DEF EventsKept, EventsInv

LEMMA EventsInvType ==
    ASSUME EventsInv
    PROVE  EventsTypeOK
BY EventsAssumption DEF EventsInv, RaisersOK, MapOK, EventsTypeOK, RaiserSet, Outside, Workers

----------------------------------------------------------------------------
(* A worker moves *)

\* The one that moves loses nothing it does not count and keeps the order.
LEMMA WorkerStepOK ==
    ASSUME EventsInv, NEW w \in Workers, NEW m \in WorkerSet, worker' = [worker EXCEPT ![w] = m],
           UNCHANGED <<enabled, by, raiser, started>>,
           Len(m.queue) <= MaxQueue, OrderOK(m, by), HappenedOK(m, Len(by)),
           \A f : NewestOK(worker[w], f, by) => NewestOK(m, f, by),
           Lost(m, InHand(w)) \subseteq Lost(worker[w], InHand(w)), m.dropped = worker[w].dropped,
           \/ inMap' = inMap /\ m.done = worker[w].done
           \/ inMap' = 0 /\ w = inMap /\ m.done
    PROVE  EventsInv'
<1>1. worker' \in [Workers -> WorkerSet] /\ worker'[w] = m /\ \A v \in Workers \ {w} : worker'[v] = worker[v]
    BY DEF EventsInv, MapOK
<1>2. RaisersOK'
    BY DEF EventsInv, RaisersOK
<1>3. MapOK'
    BY <1>1 DEF EventsInv, MapOK, Workers
<1>4. LineOK'
    <2>1. \A v \in Workers : OrderOK(worker'[v], by) /\ HappenedOK(worker'[v], Len(by))
        BY <1>1 DEF EventsInv, LineOK
    <2>2. \A r \in Raisers : raiser[r].at # "out" => raiser[r].to \in Workers
        BY StartedAreWorkers DEF EventsInv, RaisersOK, Outside
    <2>3. \A r \in Raisers : raiser[r].at # "out" => NewestOK(worker'[raiser[r].to], raiser[r].event, by)
        BY <1>1, <2>2 DEF EventsInv, LineOK
    <2>4. QED BY <2>1, <2>3 DEF LineOK
<1>5. LossOK'
    <2>1. \A v \in Workers : InHand(v)' = InHand(v)
        BY DEF InHand
    <2>2. \A v \in Workers : \A at : RaisersAt(at, v)' = RaisersAt(at, v)
        BY DEF RaisersAt
    <2>3. Cardinality(Lost(m, InHand(w))) <= Cardinality(Lost(worker[w], InHand(w)))
        BY OneMoreLost DEF EventsInv, MapOK
    <2>4. ASSUME NEW v \in Workers
          PROVE  Cardinality(Lost(worker'[v], InHand(v))) + Cardinality(RaisersAt("resends", v))
                     <= 2 * worker'[v].dropped + Cardinality(RaisersAt("counts", v))
        <3>1. Cardinality(RaisersAt("resends", v)) \in Nat /\ Cardinality(RaisersAt("counts", v)) \in Nat
            BY RaisersFinite DEF EventsInv
        <3>2. worker[v] \in WorkerSet /\ worker[v].dropped \in Nat /\ Cardinality(Lost(worker[v], InHand(v))) \in Nat
            BY LostFinite DEF EventsInv, MapOK, WorkerSet
        <3>3. Cardinality(Lost(worker[v], InHand(v))) + Cardinality(RaisersAt("resends", v))
                  <= 2 * worker[v].dropped + Cardinality(RaisersAt("counts", v))
            BY DEF EventsInv, LossOK
        <3>4. CASE v = w
            <4>1. Cardinality(Lost(m, InHand(w))) \in Nat
                BY LostFinite
            <4>2. QED BY <1>1, <2>3, <3>1, <3>2, <3>3, <3>4, <4>1
        <3>5. CASE v # w
            BY <1>1, <3>3, <3>5
        <3>6. QED BY <3>4, <3>5
    <2>5. QED BY <2>1, <2>2, <2>4 DEF LossOK
<1>6. OneWorker'
    <2> SUFFICES ASSUME NEW v \in 1..started, ~worker'[v].done PROVE v = inMap'
        BY DEF OneWorker
    <2>1. v \in Workers
        BY StartedAreWorkers
    <2>2. CASE v = w
        BY <1>1, <2>2 DEF EventsInv, OneWorker
    <2>3. CASE v # w
        BY <1>1, <2>1, <2>3 DEF EventsInv, OneWorker
    <2>4. QED BY <2>2, <2>3
<1>7. QED BY <1>2, <1>3, <1>4, <1>5, <1>6 DEF EventsInv

LEMMA WorksOK ==
    ASSUME EventsInv, NEW w \in Workers, Works(w) \/ ReadPluginFails(w)
    PROVE  EventsInv'
<1> DEFINE n == worker[w]
<1>1. n \in WorkerSet /\ OrderOK(n, by) /\ HappenedOK(n, Len(by)) /\ Len(n.queue) <= MaxQueue /\ MaxQueue \in Nat /\ Len(by) \in Nat
    BY EventsAssumption DEF EventsInv, MapOK, LineOK, RaisersOK
<1>2. /\ n.queue \in Seq(Events) /\ n.holds \in 0..MaxEvents /\ n.seen \in Seq(Events) /\ n.unheard \in SUBSET Events
      /\ n.given \in SUBSET Events
    BY <1>1 DEF WorkerSet
<1>3. UNCHANGED <<enabled, by, raiser, started, inMap>>
    BY DEF Works, ReadPluginFails, Take, RunHook, NotForIt, SkipHook, RetireWorker, WorkerOnly, pluginRow, mapVars
<1>4. CASE Take(w)
    <2> DEFINE m == [n EXCEPT !.holds = Head(n.queue), !.queue = Tail(n.queue)]
    <2>1. n.queue # <<>> /\ n.holds = 0 /\ worker' = [worker EXCEPT ![w] = m]
        <3>1. n.queue # <<>> /\ n.holds = 0
            BY <1>4 DEF Take, WorkerMoves
        <3>2. worker' = [worker EXCEPT ![w] = m]
            BY <1>1, <1>4 DEF Take, EventsInv, MapOK, WorkerSet
        <3>3. QED BY <3>1, <3>2
    <2>2. /\ Head(n.queue) \in Events /\ Tail(n.queue) \in Seq(Events) /\ Len(Tail(n.queue)) = Len(n.queue) - 1
          /\ Elements(n.queue) = {Head(n.queue)} \cup Elements(Tail(n.queue))
        BY <1>2, <2>1, HeadTailProperties, ElementsGrow
    <2>3. Head(n.queue) \in 0..MaxEvents
        BY <2>2, EventsAssumption DEF Events
    <2>4. m \in WorkerSet
        BY <1>1, <2>2, <2>3, Zenon DEF WorkerSet
    <2>5. /\ m.queue = Tail(n.queue) /\ m.holds = Head(n.queue) /\ m.seen = n.seen /\ m.given = n.given
          /\ m.unheard = n.unheard /\ m.dropped = n.dropped /\ m.done = n.done
        BY <1>1, Zenon DEF WorkerSet
    <2> HIDE DEF m
    <2>6. Len(m.queue) <= MaxQueue
        BY <1>1, <1>2, <2>2, <2>5
    <2>7. OrderOK(m, by) /\ HappenedOK(m, Len(by)) /\ \A f : NewestOK(n, f, by) => NewestOK(m, f, by)
        BY <1>1, <2>1, <2>4, <2>5, TailOK
    <2>8. Lost(m, InHand(w)) \subseteq Lost(n, InHand(w))
        <3>1. 0 \notin n.given
            BY <1>2 DEF Events
        <3>2. QED BY <2>1, <2>2, <2>5, <3>1 DEF Lost, Kept
    <2>9. QED BY <1>3, <2>1, <2>4, <2>5, <2>6, <2>7, <2>8, WorkerStepOK
<1>5. ASSUME NEW m \in WorkerSet, worker' = [worker EXCEPT ![w] = m], n.holds # 0, m.holds = 0,
             m.queue = n.queue, m.given = n.given, m.dropped = n.dropped, m.done = n.done,
             \/ m.seen = n.seen \o <<n.holds>> /\ m.unheard = n.unheard
             \/ m.seen = n.seen /\ m.unheard = n.unheard \cup {n.holds}
      PROVE  EventsInv'
    <2>1. OrderOK(m, by) /\ HappenedOK(m, Len(by)) /\ \A f : NewestOK(n, f, by) => NewestOK(m, f, by)
        BY <1>1, <1>5, SeenOK
    <2>2. n.holds \in Events
        BY <1>2, <1>5 DEF Events
    <2>3. Elements(m.seen) \cup m.unheard = Elements(n.seen) \cup n.unheard \cup {n.holds}
        <3>1. Elements(n.seen \o <<n.holds>>) = Elements(n.seen) \cup {n.holds}
            BY <1>2, <2>2, ElementsGrow
        <3>2. CASE m.seen = n.seen \o <<n.holds>> /\ m.unheard = n.unheard
            BY <3>1, <3>2
        <3>3. CASE m.seen = n.seen /\ m.unheard = n.unheard \cup {n.holds}
            BY <3>3
        <3>4. QED BY <1>5, <3>2, <3>3
    <2>4. Lost(m, InHand(w)) \subseteq Lost(n, InHand(w))
        BY <1>5, <2>3 DEF Lost, Kept
    <2>5. Len(m.queue) <= MaxQueue
        BY <1>1, <1>5
    <2>6. QED BY <1>3, <1>5, <2>1, <2>4, <2>5, WorkerStepOK
<1>6. CASE RunHook(w)
    <2> DEFINE s == n.seen \o <<n.holds>>
               m == [n EXCEPT !.holds = 0, !.seen = s]
    <2>1. n.holds # 0 /\ worker' = [worker EXCEPT ![w] = m]
        <3>1. n.holds # 0
            BY <1>6 DEF RunHook
        <3>2. worker' = [worker EXCEPT ![w] = m]
            BY <1>1, <1>6 DEF RunHook, EventsInv, MapOK, WorkerSet
        <3>3. QED BY <3>1, <3>2
    <2>2. s \in Seq(Events) /\ 0 \in 0..MaxEvents
        BY <1>2, <2>1, ConcatProperties, EventsAssumption DEF Events
    <2> HIDE DEF s
    <2>3. m \in WorkerSet
        BY <1>1, <2>2, Zenon DEF WorkerSet
    <2>4. /\ m.queue = n.queue /\ m.holds = 0 /\ m.seen = s /\ m.given = n.given
          /\ m.unheard = n.unheard /\ m.dropped = n.dropped /\ m.done = n.done
        BY <1>1, Zenon DEF WorkerSet
    <2> HIDE DEF m
    <2>5. QED BY <1>5, <2>1, <2>3, <2>4 DEF s
<1>7. CASE SkipHook(w)
    <2> DEFINE s == n.unheard \cup {n.holds}
               m == [n EXCEPT !.holds = 0, !.unheard = s]
    <2>1. n.holds # 0 /\ worker' = [worker EXCEPT ![w] = m]
        <3>1. n.holds # 0
            BY <1>7 DEF SkipHook
        <3>2. worker' = [worker EXCEPT ![w] = m]
            BY <1>1, <1>7 DEF SkipHook, EventsInv, MapOK, WorkerSet
        <3>3. QED BY <3>1, <3>2
    <2>2. s \in SUBSET Events /\ 0 \in 0..MaxEvents
        BY <1>2, <2>1, EventsAssumption DEF Events
    <2> HIDE DEF s
    <2>3. m \in WorkerSet
        BY <1>1, <2>2, Zenon DEF WorkerSet
    <2>4. /\ m.queue = n.queue /\ m.holds = 0 /\ m.seen = n.seen /\ m.given = n.given
          /\ m.unheard = s /\ m.dropped = n.dropped /\ m.done = n.done
        BY <1>1, Zenon DEF WorkerSet
    <2> HIDE DEF m
    <2>5. QED BY <1>5, <2>1, <2>3, <2>4 DEF s
<1>8. CASE RetireWorker(w)
    <2> DEFINE m == [n EXCEPT !.ended = TRUE]
    <2>1. worker' = [worker EXCEPT ![w] = m]
        BY <1>1, <1>8 DEF RetireWorker, EventsInv, MapOK
    <2>2. TRUE \in BOOLEAN
        OBVIOUS
    <2>3. m \in WorkerSet
        BY <1>1, <2>2, Zenon DEF WorkerSet
    <2>4. /\ m.queue = n.queue /\ m.holds = n.holds /\ m.seen = n.seen /\ m.given = n.given
          /\ m.unheard = n.unheard /\ m.dropped = n.dropped /\ m.done = n.done
        BY <1>1, Zenon DEF WorkerSet
    <2> HIDE DEF m
    <2>5. OrderOK(m, by) /\ HappenedOK(m, Len(by)) /\ \A f : NewestOK(n, f, by) => NewestOK(m, f, by)
        BY <1>1, <2>4 DEF OrderOK, HappenedOK, NewestOK
    <2>6. Lost(m, InHand(w)) \subseteq Lost(n, InHand(w)) /\ Len(m.queue) <= MaxQueue
        BY <1>1, <2>4 DEF Lost, Kept
    <2>7. QED BY <1>3, <2>1, <2>3, <2>4, <2>5, <2>6, WorkerStepOK
<1>9. QED BY <1>4, <1>6, <1>7, <1>8 DEF Works, ReadPluginFails, NotForIt

----------------------------------------------------------------------------
(* A call of pluginEventRaised goes on *)

Num(p, at) == IF p.at = at THEN 1 ELSE 0

\* Where the one call was there is one less, where it comes to one more.
LEMMA RaiserCount ==
    ASSUME EventsInv, NEW r \in Raisers, NEW at \in {"counts", "resends"}, NEW w \in Workers, raiser[r].to = w, NEW q \in RaiserSet,
           raiser' = [raiser EXCEPT ![r] = q], q = Outside \/ q.to = w
    PROVE  Cardinality(RaisersAt(at, w)') = Cardinality(RaisersAt(at, w)) - Num(raiser[r], at) + Num(q, at)
<1> DEFINE S == RaisersAt(at, w)
           T == RaisersAt(at, w)'
           N == S \ {r}
<1>1. raiser'[r] = q /\ \A p \in Raisers \ {r} : raiser'[p] = raiser[p]
    BY DEF EventsInv, RaisersOK
<1>2. IsFiniteSet(S) /\ Cardinality(S) \in Nat
    BY RaisersFinite DEF EventsInv
<1>3. IsFiniteSet(N) /\ Cardinality(N) = Cardinality(S) - Num(raiser[r], at)
    <2>1. r \in S <=> raiser[r].at = at
        BY DEF RaisersAt
    <2>2. IsFiniteSet(N) /\ Cardinality(N) = IF r \in S THEN Cardinality(S) - 1 ELSE Cardinality(S)
        BY <1>2, FS_RemoveElement
    <2>3. QED BY <1>2, <2>1, <2>2 DEF Num
<1>4. r \notin N /\ Cardinality(N) \in Nat
    BY <1>3, FS_CardinalityType
<1>5. CASE q.at = at
    <2>1. q.to = w
        BY <1>5 DEF Outside
    <2>2. T = N \cup {r}
        BY <1>1, <1>5, <2>1 DEF RaisersAt
    <2>3. Cardinality(N \cup {r}) = Cardinality(N) + 1
        BY <1>3, <1>4, FS_AddElement
    <2>4. Num(q, at) = 1 /\ Num(raiser[r], at) \in {0, 1}
        BY <1>5 DEF Num
    <2>5. QED BY <1>2, <1>3, <2>2, <2>3, <2>4
<1>6. CASE q.at # at
    <2>1. T = N
        BY <1>1, <1>6 DEF RaisersAt
    <2>2. Num(q, at) = 0 /\ Num(raiser[r], at) \in {0, 1}
        BY <1>6 DEF Num
    <2>3. QED BY <1>2, <1>3, <2>1, <2>2
<1>7. QED BY <1>5, <1>6

LEMMA CountsAdd ==
    ASSUME NEW l \in Nat, NEW g \in Nat, NEW k \in Nat, NEW c \in Nat, NEW s \in Nat, NEW d \in Nat, NEW f \in Nat,
           NEW rc \in {0, 1}, NEW rs \in {0, 1}, NEW qc \in {0, 1}, NEW qs \in {0, 1},
           k + s <= 2 * d + c, l <= g, g + qs + rc <= k + rs + qc + 2 * (f - d)
    PROVE  l + (s - rs + qs) <= 2 * f + (c - rc + qc)
OBVIOUS

\* What a call that goes on may do to the worker and the queue it is at: what is
\* lost is counted, or was made room for.
LEMMA RaiserStepOK ==
    ASSUME EventsInv, NEW r \in Raisers, raiser[r].at # "out",
           NEW w \in Workers, w = raiser[r].to, NEW e, e = raiser[r].event,
           NEW q \in RaiserSet, raiser' = [raiser EXCEPT ![r] = q],
           q = Outside \/ (q.at # "out" /\ q.to = w /\ q.event = e),
           NEW m \in WorkerSet, worker' = [worker EXCEPT ![w] = m],
           UNCHANGED <<enabled, by, started, inMap>>,
           Len(m.queue) <= MaxQueue, OrderOK(m, by), HappenedOK(m, Len(by)), m.done = worker[w].done,
           \A f : NewestOK(worker[w], f, by) /\ (Before(e, f, by) \/ q # Outside) => NewestOK(m, f, by),
           NEW H, H = (IF q = Outside THEN InHand(w) \ {e} ELSE InHand(w)),
           Cardinality(Lost(m, H)) + Num(q, "resends") + Num(raiser[r], "counts")
               <= Cardinality(Lost(worker[w], InHand(w))) + Num(raiser[r], "resends") + Num(q, "counts")
                    + 2 * (m.dropped - worker[w].dropped)
    PROVE  EventsInv'
<1> DEFINE n == worker[w]
<1>1. /\ worker' \in [Workers -> WorkerSet] /\ worker'[w] = m /\ \A v \in Workers \ {w} : worker'[v] = worker[v]
      /\ raiser' \in [Raisers -> RaiserSet] /\ raiser'[r] = q /\ \A p \in Raisers \ {r} : raiser'[p] = raiser[p]
    BY DEF EventsInv, MapOK, RaisersOK
<1>2. /\ e \in 1..Len(by) /\ by[e] = r /\ NewestOK(n, e, by)
      /\ \A p \in Raisers : raiser[p].at # "out" => /\ raiser[p].event \in 1..Len(by) /\ by[raiser[p].event] = p
                                                    /\ raiser[p].to \in Workers /\ raiser[p].to \in 1..started
    BY StartedAreWorkers DEF EventsInv, RaisersOK, LineOK, Outside
<1>3. RaisersOK'
    <2>1. ASSUME NEW p \in Raisers
          PROVE  \/ raiser'[p] = Outside
                 \/ /\ raiser'[p].at # "out" /\ raiser'[p].to \in 1..started /\ raiser'[p].event \in 1..Len(by)
                    /\ by[raiser'[p].event] = p
        <3>1. CASE p = r
            BY <1>1, <1>2, <3>1
        <3>2. CASE p # r
            BY <1>1, <3>2 DEF EventsInv, RaisersOK
        <3>3. QED BY <3>1, <3>2
    <2>2. QED BY <1>1, <2>1 DEF EventsInv, RaisersOK
<1>4. MapOK'
    BY <1>1 DEF EventsInv, MapOK
<1>5. LineOK'
    <2>1. \A v \in Workers : OrderOK(worker'[v], by) /\ HappenedOK(worker'[v], Len(by))
        BY <1>1 DEF EventsInv, LineOK
    <2>2. ASSUME NEW p \in Raisers, raiser'[p].at # "out"
          PROVE  NewestOK(worker'[raiser'[p].to], raiser'[p].event, by)
        <3>1. CASE p = r
            <4>1. q # Outside /\ q.to = w /\ q.event = e
                BY <1>1, <2>2, <3>1 DEF Outside
            <4>2. QED BY <1>1, <1>2, <3>1, <4>1
        <3>2. CASE p # r
            <4>1. raiser'[p] = raiser[p] /\ raiser[p].at # "out"
                BY <1>1, <2>2, <3>2
            <4>2. NewestOK(worker[raiser[p].to], raiser[p].event, by)
                BY <4>1 DEF EventsInv, LineOK
            <4>3. Before(e, raiser[p].event, by)
                BY <1>2, <3>2, <4>1 DEF Before
            <4>4. CASE raiser[p].to = w
                BY <1>1, <4>1, <4>2, <4>3, <4>4
            <4>5. CASE raiser[p].to # w
                BY <1>1, <1>2, <4>1, <4>2, <4>5
            <4>6. QED BY <4>4, <4>5
        <3>3. QED BY <3>1, <3>2
    <2>3. QED BY <2>1, <2>2 DEF LineOK
<1>6. LossOK'
    <2> DEFINE C(at, v) == Cardinality(RaisersAt(at, v))
    <2>1. ASSUME NEW v \in Workers, v # w
          PROVE  InHand(v)' = InHand(v) /\ \A at \in {"counts", "resends"} : RaisersAt(at, v)' = RaisersAt(at, v)
        <3>1. raiser[r].to # v
            BY <2>1
        <3>2. q.to # v
            BY <2>1 DEF Outside, Workers
        <3>3. \A p \in Raisers : (raiser'[p].to = v <=> raiser[p].to = v) /\ (raiser[p].to = v => raiser'[p] = raiser[p])
            BY <1>1, <3>1, <3>2
        <3>4. InHand(v)' = InHand(v)
            BY <3>3 DEF InHand
        <3>5. \A at \in {"counts", "resends"} : RaisersAt(at, v)' = RaisersAt(at, v)
            BY <3>3 DEF RaisersAt
        <3>6. QED BY <3>4, <3>5
    <2>2. H \subseteq InHand(w)'
        <3>1. ASSUME NEW p \in Raisers, raiser[p].to = w, p # r
              PROVE  raiser[p].event \in InHand(w)'
            BY <1>1, <3>1 DEF InHand
        <3>2. ASSUME q # Outside PROVE e \in InHand(w)'
            BY <1>1, <3>2 DEF InHand
        <3>3. QED BY <3>1, <3>2 DEF InHand
    <2>3. Cardinality(Lost(m, InHand(w)')) <= Cardinality(Lost(m, H))
        <3>1. Lost(m, InHand(w)') \subseteq Lost(m, H)
            BY <2>2 DEF Lost, Kept
        <3>2. QED BY <3>1, OneMoreLost
    <2>4. /\ Cardinality(RaisersAt("counts", w)') = C("counts", w) - Num(raiser[r], "counts") + Num(q, "counts")
          /\ Cardinality(RaisersAt("resends", w)') = C("resends", w) - Num(raiser[r], "resends") + Num(q, "resends")
        BY RaiserCount
    <2>5. \A v \in Workers : C("counts", v) \in Nat /\ C("resends", v) \in Nat
        BY RaisersFinite DEF EventsInv
    <2>6. ASSUME NEW v \in Workers
          PROVE  Cardinality(Lost(worker[v], InHand(v))) + C("resends", v) <= 2 * worker[v].dropped + C("counts", v)
        BY DEF EventsInv, LossOK
    <2>7. ASSUME NEW v \in Workers
          PROVE  Cardinality(Lost(worker'[v], InHand(v)')) + Cardinality(RaisersAt("resends", v)')
                     <= 2 * worker'[v].dropped + Cardinality(RaisersAt("counts", v)')
        <3>1. CASE v = w
            <4>1. worker[w] \in WorkerSet /\ worker[w].dropped \in Nat /\ m.dropped \in Nat
                BY DEF EventsInv, MapOK, WorkerSet
            <4>2. /\ Cardinality(Lost(worker[w], InHand(w))) \in Nat /\ Cardinality(Lost(m, H)) \in Nat
                  /\ Cardinality(Lost(m, InHand(w)')) \in Nat
                BY <4>1, LostFinite
            <4>3. \A p : \A at : Num(p, at) \in {0, 1}
                BY DEF Num
            <4>4. Cardinality(Lost(m, InHand(w)')) + (C("resends", w) - Num(raiser[r], "resends") + Num(q, "resends"))
                     <= 2 * m.dropped + (C("counts", w) - Num(raiser[r], "counts") + Num(q, "counts"))
                <5> HIDE DEF C, n
                <5>1. /\ C("counts", w) \in Nat /\ C("resends", w) \in Nat
                      /\ Cardinality(Lost(worker[w], InHand(w))) + C("resends", w) <= 2 * worker[w].dropped + C("counts", w)
                    BY <2>5, <2>6
                <5>2. Num(raiser[r], "resends") \in {0, 1} /\ Num(q, "resends") \in {0, 1}
                      /\ Num(raiser[r], "counts") \in {0, 1} /\ Num(q, "counts") \in {0, 1}
                    BY <4>3
                <5> DEFINE l == Cardinality(Lost(m, InHand(w)'))
                           g == Cardinality(Lost(m, H))
                           k == Cardinality(Lost(worker[w], InHand(w)))
                           rc == Num(raiser[r], "counts")
                           rs == Num(raiser[r], "resends")
                           qc == Num(q, "counts")
                           qs == Num(q, "resends")
                           c == C("counts", w)
                           s == C("resends", w)
                           d == worker[w].dropped
                <5>3. g + qs + rc <= k + rs + qc + 2 * (m.dropped - d)
                    OBVIOUS
                <5>4. l <= g /\ k + s <= 2 * d + c /\ l \in Nat /\ g \in Nat /\ k \in Nat /\ c \in Nat /\ s \in Nat /\ d \in Nat
                    BY <2>3, <4>1, <4>2, <5>1
                <5>5. rc \in {0, 1} /\ rs \in {0, 1} /\ qc \in {0, 1} /\ qs \in {0, 1}
                    BY <5>2
                <5> HIDE DEF l, g, k, rc, rs, qc, qs, c, s, d
                <5>6. l + (s - rs + qs) <= 2 * m.dropped + (c - rc + qc)
                    BY <4>1, <5>3, <5>4, <5>5, CountsAdd
                <5>7. QED BY <5>6 DEF l, rc, rs, qc, qs, c, s
            <4>5. QED BY <1>1, <2>4, <3>1, <4>4
        <3>2. CASE v # w
            BY <1>1, <2>1, <2>6, <3>2
        <3>3. QED BY <3>1, <3>2
    <2>8. QED BY <2>7 DEF LossOK
<1>7. OneWorker'
    <2> SUFFICES ASSUME NEW v \in 1..started, ~worker'[v].done PROVE v = inMap
        BY DEF OneWorker
    <2>1. v \in Workers
        BY StartedAreWorkers
    <2>2. worker'[v].done = worker[v].done
        BY <1>1, <2>1
    <2>3. QED BY <2>2 DEF EventsInv, OneWorker
<1>8. QED BY <1>3, <1>4, <1>5, <1>6, <1>7 DEF EventsInv

\* The event goes into the queue.
LEMMA EnqueueOK ==
    ASSUME EventsInv, NEW r \in Raisers, raiser[r].at \in {"sends", "resends"}, Enqueue(r)
    PROVE  EventsInv'
<1> DEFINE w == raiser[r].to
           e == raiser[r].event
           n == worker[w]
           s == n.queue \o <<e>>
           m == [n EXCEPT !.queue = s]
<1>1. w \in Workers /\ n \in WorkerSet /\ n.queue \in Seq(Events) /\ e \in 1..Len(by) /\ e \in Events /\ by[e] = r /\ Outside \in RaiserSet
    <2>1. w \in 1..started /\ e \in 1..Len(by) /\ by[e] = r
        BY DEF EventsInv, RaisersOK, Outside
    <2>2. w \in Workers
        BY <2>1, StartedAreWorkers
    <2>3. n \in WorkerSet
        BY <2>2 DEF EventsInv, MapOK
    <2>4. Len(by) \in Nat /\ Len(by) <= MaxEvents /\ MaxEvents \in Nat /\ MaxWorkers \in Nat
        BY EventsAssumption DEF EventsInv, RaisersOK
    <2>5. e \in Events /\ Outside \in RaiserSet
        BY <2>1, <2>4 DEF Events, Outside, RaiserSet
    <2>6. QED BY <2>1, <2>2, <2>3, <2>5 DEF WorkerSet
<1>2. Len(n.queue) < MaxQueue /\ raiser' = [raiser EXCEPT ![r] = Outside] /\ UNCHANGED <<enabled, by, started, inMap>>
    <2>1. Len(n.queue) \in Nat /\ MaxQueue \in Nat
        BY <1>1, EventsAssumption
    <2>2. QED BY <2>1 DEF Enqueue, Full, pluginRow, mapVars
<1>3. worker' = [worker EXCEPT ![w] = m]
    BY <1>1 DEF Enqueue, EventsInv, MapOK, WorkerSet
<1>4. s \in Seq(Events) /\ Len(s) = Len(n.queue) + 1 /\ Elements(s) = Elements(n.queue) \cup {e}
    BY <1>1, ElementsGrow, ConcatProperties
<1> HIDE DEF s
<1>5. m \in WorkerSet
    BY <1>1, <1>4, Zenon DEF WorkerSet
<1>6. /\ m.queue = s /\ m.holds = n.holds /\ m.seen = n.seen /\ m.given = n.given
      /\ m.unheard = n.unheard /\ m.dropped = n.dropped /\ m.done = n.done
    BY <1>1, Zenon DEF WorkerSet
<1>7. OrderOK(n, by) /\ HappenedOK(n, Len(by)) /\ NewestOK(n, e, by) /\ e <= Len(by)
    <2>1. NewestOK(n, e, by)
        BY DEF EventsInv, LineOK
    <2>2. QED BY <1>1, <2>1 DEF EventsInv, LineOK
<1> HIDE DEF m
<1>8. /\ OrderOK(m, by) /\ HappenedOK(m, Len(by))
      /\ \A f : NewestOK(n, f, by) /\ Before(e, f, by) => NewestOK(m, f, by)
    <2>1. m.queue = n.queue \o <<e>>
        BY <1>6 DEF s
    <2>2. m.seen = n.seen /\ m.holds = n.holds
        BY <1>6
    <2> HIDE DEF n, e, w
    <2>3. OrderOK(m, by)
        BY <1>1, <1>5, <1>7, <2>1, <2>2, EnqueuedOK
    <2>4. \A f : NewestOK(n, f, by) /\ Before(e, f, by) => NewestOK(m, f, by)
        BY <1>1, <1>5, <1>7, <2>1, <2>2, EnqueuedOK
    <2>5. \A k : HappenedOK(n, k) /\ e <= k => HappenedOK(m, k)
        BY <1>1, <1>5, <1>7, <2>1, <2>2, EnqueuedOK
    <2>6. QED BY <1>7, <2>3, <2>4, <2>5
<1>9. Len(m.queue) <= MaxQueue
    <2>1. Len(n.queue) \in Nat /\ MaxQueue \in Nat
        BY <1>1, EventsAssumption
    <2>2. QED BY <1>2, <1>4, <1>6, <2>1
<1>10. \A f : NewestOK(n, f, by) /\ (Before(e, f, by) \/ Outside # Outside) => NewestOK(m, f, by)
    BY <1>8
<1> DEFINE H == InHand(w) \ {e}
<1>11. Cardinality(Lost(m, H)) + Num(Outside, "resends") + Num(raiser[r], "counts")
           <= Cardinality(Lost(n, InHand(w))) + Num(raiser[r], "resends") + Num(Outside, "counts") + 2 * (m.dropped - n.dropped)
    <2>1. Lost(m, H) \subseteq Lost(n, InHand(w))
        BY <1>4, <1>6 DEF Lost, Kept
    <2>2. Cardinality(Lost(m, H)) <= Cardinality(Lost(n, InHand(w)))
        BY <1>1, <1>5, <2>1, OneMoreLost
    <2>3. Cardinality(Lost(m, H)) \in Nat /\ Cardinality(Lost(n, InHand(w))) \in Nat
        BY <1>1, <1>5, LostFinite
    <2>4. Num(Outside, "resends") = 0 /\ Num(Outside, "counts") = 0 /\ Num(raiser[r], "counts") = 0 /\ Num(raiser[r], "resends") \in {0, 1}
        BY DEF Num, Outside
    <2>5. m.dropped - n.dropped = 0
        BY <1>1, <1>6 DEF WorkerSet
    <2>6. QED BY <2>2, <2>3, <2>4, <2>5
<1>12. raiser[r].at # "out" /\ H = (IF Outside = Outside THEN InHand(w) \ {e} ELSE InHand(w)) /\ m.done = worker[w].done
    BY <1>6
<1> HIDE DEF H
<1>13. QED BY <1>1, <1>2, <1>3, <1>5, <1>8, <1>9, <1>10, <1>11, <1>12, RaiserStepOK

\* A call goes on to another place: p says where, the worker is as m says.
LEMMA GoesOnOK ==
    ASSUME EventsInv, NEW r \in Raisers, raiser[r].at # "out", NEW w, w = raiser[r].to, NEW at \in {"drops", "counts", "resends"}, GoesOn(r, at),
           NEW m \in WorkerSet, worker' = [worker EXCEPT ![w] = m],
           UNCHANGED <<enabled, by, started, inMap>>,
           Len(m.queue) <= MaxQueue, OrderOK(m, by), HappenedOK(m, Len(by)), m.done = worker[w].done,
           \A f : NewestOK(worker[w], f, by) => NewestOK(m, f, by),
           Cardinality(Lost(m, InHand(w))) + (IF at = "resends" THEN 1 ELSE 0) + Num(raiser[r], "counts")
               <= Cardinality(Lost(worker[w], InHand(w))) + Num(raiser[r], "resends") + (IF at = "counts" THEN 1 ELSE 0)
                    + 2 * (m.dropped - worker[w].dropped)
    PROVE  EventsInv'
<1> DEFINE q == [raiser[r] EXCEPT !.at = at]
<1>1. w \in Workers
    BY StartedAreWorkers DEF EventsInv, RaisersOK, Outside
<1>2. raiser[r] \in RaiserSet /\ raiser' = [raiser EXCEPT ![r] = q]
    BY DEF GoesOn, EventsInv, RaisersOK
<1>3. q \in RaiserSet /\ q.at = at /\ q.at # "out" /\ q.to = w /\ q.event = raiser[r].event
    BY <1>2 DEF RaiserSet
<1>4. q # Outside
    BY <1>3 DEF Outside
<1>5. Num(q, "resends") = (IF at = "resends" THEN 1 ELSE 0) /\ Num(q, "counts") = (IF at = "counts" THEN 1 ELSE 0)
    BY <1>3 DEF Num
<1>6. InHand(w) = (IF q = Outside THEN InHand(w) \ {raiser[r].event} ELSE InHand(w))
    BY <1>4
<1> HIDE DEF q
<1>7. QED BY <1>1, <1>2, <1>3, <1>4, <1>5, <1>6, RaiserStepOK

LEMMA RaisesOK ==
    ASSUME EventsInv, NEW r \in Raisers, Raises(r)
    PROVE  EventsInv'
<1> DEFINE w == raiser[r].to
           e == raiser[r].event
           n == worker[w]
<1>1. raiser[r].at # "out"
    BY DEF Raises, Send, FindFull, DropOldest, CountDrop, Resend
<1>2. w \in Workers /\ n \in WorkerSet
    <2>1. w \in Workers
        BY <1>1, StartedAreWorkers DEF EventsInv, RaisersOK, Outside
    <2>2. QED BY <2>1 DEF EventsInv, MapOK
<1>3. /\ OrderOK(n, by) /\ HappenedOK(n, Len(by)) /\ Len(n.queue) <= MaxQueue
      /\ Cardinality(Lost(n, InHand(w))) \in Nat /\ n.dropped \in Nat /\ n.queue \in Seq(Events) /\ MaxQueue \in Nat
    BY <1>2, LostFinite, EventsAssumption DEF EventsInv, LineOK, MapOK, WorkerSet
<1>4. worker = [worker EXCEPT ![w] = n]
    BY DEF EventsInv, MapOK
<1>5. CASE Send(r)
    BY <1>5, EnqueueOK DEF Send
<1>6. CASE FindFull(r)
    <2>1. GoesOn(r, "drops") /\ worker' = [worker EXCEPT ![w] = n] /\ UNCHANGED <<enabled, by, started, inMap>>
        BY <1>4, <1>6 DEF FindFull, pluginRow, mapVars
    <2>2. Num(raiser[r], "counts") = 0 /\ Num(raiser[r], "resends") = 0
        BY <1>6 DEF FindFull, Num
    <2>3. Cardinality(Lost(n, InHand(w))) + (IF "drops" = "resends" THEN 1 ELSE 0) + Num(raiser[r], "counts")
              <= Cardinality(Lost(n, InHand(w))) + Num(raiser[r], "resends") + (IF "drops" = "counts" THEN 1 ELSE 0)
                   + 2 * (n.dropped - n.dropped)
        BY <1>3, <2>2
    <2>4. QED BY <1>1, <1>2, <1>3, <2>1, <2>3, GoesOnOK
<1>7. CASE DropOldest(r)
    <2> DEFINE s == IF n.queue = <<>> THEN n.queue ELSE Tail(n.queue)
               m == [n EXCEPT !.queue = s]
    <2>1. GoesOn(r, "counts") /\ worker' = [worker EXCEPT ![w] = m] /\ UNCHANGED <<enabled, by, started, inMap>>
        <3>1. worker' = [worker EXCEPT ![w] = m]
            BY <1>2, <1>7 DEF DropOldest, EventsInv, MapOK, WorkerSet
        <3>2. QED BY <1>7, <3>1 DEF DropOldest, pluginRow, mapVars
    <2>2. Num(raiser[r], "counts") = 0 /\ Num(raiser[r], "resends") = 0
        BY <1>7 DEF DropOldest, Num
    <2>3. s \in Seq(Events) /\ Len(s) <= MaxQueue
        <3>1. CASE n.queue = <<>>
            BY <1>3, <3>1
        <3>2. CASE n.queue # <<>>
            <4>1. Len(n.queue) \in Nat
                BY <1>3
            <4>2. s \in Seq(Events) /\ Len(s) = Len(n.queue) - 1
                BY <1>3, <3>2, HeadTailProperties
            <4>3. QED BY <1>3, <4>1, <4>2
        <3>3. QED BY <3>1, <3>2
    <2>4. Elements(n.queue) \subseteq Elements(s) \cup {Head(n.queue)}
        <3>1. CASE n.queue = <<>>
            BY <3>1
        <3>2. CASE n.queue # <<>>
            <4>1. \A x \in Events : Elements(n.queue) = {Head(n.queue)} \cup Elements(Tail(n.queue))
                BY <1>3, <3>2, ElementsGrow
            <4>2. Len(n.queue) \in Nat /\ Head(n.queue) \in Events
                BY <1>3, <3>2, HeadTailProperties
            <4>3. QED BY <3>2, <4>1, <4>2
        <3>3. QED BY <3>1, <3>2
    <2>5. n.queue # <<>> => s = Tail(n.queue)
        OBVIOUS
    <2>6. n.queue = <<>> => s = n.queue
        OBVIOUS
    <2> HIDE DEF s
    <2>7. m \in WorkerSet
        BY <1>2, <2>3, Zenon DEF WorkerSet
    <2>8. /\ m.queue = s /\ m.holds = n.holds /\ m.seen = n.seen /\ m.given = n.given
          /\ m.unheard = n.unheard /\ m.dropped = n.dropped /\ m.done = n.done
        BY <1>2, Zenon DEF WorkerSet
    <2> HIDE DEF m
    <2>9. OrderOK(m, by) /\ HappenedOK(m, Len(by)) /\ \A f : NewestOK(n, f, by) => NewestOK(m, f, by)
        <3>1. CASE n.queue = <<>>
            <4>1. m.queue = n.queue
                BY <2>6, <2>8, <3>1
            <4>2. QED BY <1>3, <2>8, <4>1 DEF OrderOK, HappenedOK, NewestOK
        <3>2. CASE n.queue # <<>>
            <4>1. m.queue = Tail(n.queue)
                BY <2>5, <2>8, <3>2
            <4>2. QED BY <1>2, <1>3, <2>7, <2>8, <3>2, <4>1, TailOK
        <3>3. QED BY <3>1, <3>2
    <2>10. Cardinality(Lost(m, InHand(w))) <= Cardinality(Lost(n, InHand(w))) + 1 /\ Cardinality(Lost(m, InHand(w))) \in Nat
        <3>1. Lost(m, InHand(w)) \subseteq Lost(n, InHand(w)) \cup {Head(n.queue)}
            BY <2>4, <2>8 DEF Lost, Kept
        <3>2. Cardinality(Lost(m, InHand(w))) <= Cardinality(Lost(n, InHand(w))) + 1
            BY <1>2, <2>7, <3>1, OneMoreLost
        <3>3. QED BY <2>7, <3>2, LostFinite
    <2>11. m.dropped - n.dropped = 0
        BY <1>3, <2>8
    <2>12. Cardinality(Lost(m, InHand(w))) + (IF "counts" = "resends" THEN 1 ELSE 0) + Num(raiser[r], "counts")
              <= Cardinality(Lost(n, InHand(w))) + Num(raiser[r], "resends") + (IF "counts" = "counts" THEN 1 ELSE 0)
                   + 2 * (m.dropped - n.dropped)
        BY <1>3, <2>2, <2>10, <2>11
    <2>13. Len(m.queue) <= MaxQueue /\ m.done = worker[w].done
        BY <2>3, <2>8
    <2>14. QED BY <1>1, <2>1, <2>7, <2>9, <2>12, <2>13, GoesOnOK
<1>8. CASE CountDrop(r)
    <2> DEFINE m == [n EXCEPT !.dropped = n.dropped + 1]
    <2>1. GoesOn(r, "resends") /\ worker' = [worker EXCEPT ![w] = m] /\ UNCHANGED <<enabled, by, started, inMap>>
        <3>1. worker' = [worker EXCEPT ![w] = m]
            BY <1>2, <1>8 DEF CountDrop, EventsInv, MapOK, WorkerSet
        <3>2. QED BY <1>8, <3>1 DEF CountDrop, pluginRow, mapVars
    <2>2. Num(raiser[r], "counts") = 1 /\ Num(raiser[r], "resends") = 0
        BY <1>8 DEF CountDrop, Num
    <2>3. n.dropped + 1 \in Nat
        BY <1>3
    <2>4. m \in WorkerSet
        BY <1>2, <2>3, Zenon DEF WorkerSet
    <2>5. /\ m.queue = n.queue /\ m.holds = n.holds /\ m.seen = n.seen /\ m.given = n.given
          /\ m.unheard = n.unheard /\ m.dropped = n.dropped + 1 /\ m.done = n.done
        BY <1>2, Zenon DEF WorkerSet
    <2> HIDE DEF m
    <2>6. OrderOK(m, by) /\ HappenedOK(m, Len(by)) /\ \A f : NewestOK(n, f, by) => NewestOK(m, f, by)
        BY <1>3, <2>5 DEF OrderOK, HappenedOK, NewestOK
    <2>7. Lost(m, InHand(w)) = Lost(n, InHand(w))
        BY <2>5 DEF Lost, Kept
    <2>8. m.dropped - n.dropped = 1
        BY <1>3, <2>5
    <2>9. Cardinality(Lost(m, InHand(w))) + (IF "resends" = "resends" THEN 1 ELSE 0) + Num(raiser[r], "counts")
              <= Cardinality(Lost(n, InHand(w))) + Num(raiser[r], "resends") + (IF "resends" = "counts" THEN 1 ELSE 0)
                   + 2 * (m.dropped - n.dropped)
        BY <1>3, <2>2, <2>7, <2>8
    <2>10. Len(m.queue) <= MaxQueue /\ m.done = worker[w].done
        BY <1>3, <2>5
    <2>11. QED BY <1>1, <2>1, <2>4, <2>6, <2>9, <2>10, GoesOnOK
<1>9. CASE raiser[r].at = "resends" /\ Full(w) /\ raiser' = [raiser EXCEPT ![r] = Outside] /\ UNCHANGED <<pluginRow, by, worker, mapVars, changer>>
    <2>1. UNCHANGED <<enabled, by, started, inMap>> /\ worker' = [worker EXCEPT ![w] = n]
        BY <1>4, <1>9 DEF pluginRow, mapVars
    <2>2. Outside \in RaiserSet
        BY EventsAssumption DEF Outside, RaiserSet
    <2> DEFINE H == InHand(w) \ {e}
    <2>3. Cardinality(Lost(n, H)) <= Cardinality(Lost(n, InHand(w))) + 1 /\ Cardinality(Lost(n, H)) \in Nat
        <3>1. Lost(n, H) \subseteq Lost(n, InHand(w)) \cup {e}
            BY DEF Lost, Kept
        <3>2. Cardinality(Lost(n, H)) <= Cardinality(Lost(n, InHand(w))) + 1
            BY <1>2, <3>1, OneMoreLost
        <3>3. QED BY <1>2, <3>2, LostFinite
    <2>4. Num(Outside, "resends") = 0 /\ Num(Outside, "counts") = 0 /\ Num(raiser[r], "counts") = 0 /\ Num(raiser[r], "resends") = 1
        BY <1>9 DEF Num, Outside
    <2>5. Cardinality(Lost(n, H)) + Num(Outside, "resends") + Num(raiser[r], "counts")
              <= Cardinality(Lost(n, InHand(w))) + Num(raiser[r], "resends") + Num(Outside, "counts") + 2 * (n.dropped - n.dropped)
        BY <1>3, <2>3, <2>4
    <2>6. H = (IF Outside = Outside THEN InHand(w) \ {e} ELSE InHand(w))
        OBVIOUS
    <2> HIDE DEF H
    <2>7. QED BY <1>1, <1>2, <1>3, <1>9, <2>1, <2>2, <2>5, <2>6, RaiserStepOK
<1>10. CASE Resend(r)
    BY <1>9, <1>10, EnqueueOK DEF Resend
<1>11. QED BY <1>5, <1>6, <1>7, <1>8, <1>10 DEF Raises

----------------------------------------------------------------------------
(* Something happens, and the installed set changes *)

LEMMA RaiseOK ==
    ASSUME EventsInv, NEW r \in Raisers, Raise(r)
    PROVE  EventsInv'
<1> DEFINE k == Len(by) + 1
           q == [at |-> "sends", to |-> inMap, event |-> k]
           m == [worker[inMap] EXCEPT !.given = worker[inMap].given \cup {k}]
<1>1. /\ by \in Seq(Raisers) /\ Len(by) \in Nat /\ Len(by) < MaxEvents /\ MaxEvents \in Nat /\ by' = by \o <<r>>
      /\ raiser[r].at = "out" /\ raiser[r] = Outside
      /\ UNCHANGED <<enabled, started, inMap>>
    BY EventsAssumption DEF Raise, EventsInv, RaisersOK, pluginRow, mapVars
<1>2. /\ by' \in Seq(Raisers) /\ Len(by') = k /\ by'[k] = r /\ Len(by) <= k /\ k <= MaxEvents
      /\ k \in Events /\ k \in 1..Len(by')
    <2>1. by' \in Seq(Raisers) /\ Len(by') = k /\ by'[k] = r
        BY <1>1, ConcatProperties
    <2>2. QED BY <1>1, <2>1 DEF Events
<1>3. \A i \in 1..Len(by) : by'[i] = by[i] /\ i \in 1..Len(by')
    <2>1. \A i \in 1..Len(by) : by'[i] = by[i]
        BY <1>1, ConcatProperties
    <2>2. QED BY <1>1, <1>2, <2>1
<1>4. \A p \in Raisers : raiser[p].at # "out" => /\ raiser[p].event \in 1..Len(by) /\ by[raiser[p].event] = p
                                                  /\ raiser[p].to \in Workers /\ raiser[p].to \in 1..started /\ p # r
    BY <1>1, StartedAreWorkers DEF EventsInv, RaisersOK, Outside
<1>5. ASSUME inMap # 0
      PROVE  /\ inMap \in Workers /\ inMap \in 1..started /\ q \in RaiserSet /\ m \in WorkerSet
             /\ worker' = [worker EXCEPT ![inMap] = m] /\ raiser' = [raiser EXCEPT ![r] = q]
             /\ m.queue = worker[inMap].queue /\ m.seen = worker[inMap].seen /\ m.holds = worker[inMap].holds
             /\ m.unheard = worker[inMap].unheard /\ m.given = worker[inMap].given \cup {k}
             /\ m.dropped = worker[inMap].dropped /\ m.done = worker[inMap].done
    <2>1. inMap \in 1..started /\ inMap \in Workers
        BY <1>5, StartedAreWorkers DEF EventsInv, MapOK
    <2>2. worker[inMap] \in WorkerSet
        BY <2>1 DEF EventsInv, MapOK
    <2>3. q \in RaiserSet
        BY <1>2, <2>1 DEF RaiserSet, Events, Workers
    <2>4. worker' = [worker EXCEPT ![inMap] = m]
        BY <1>5, <2>1, <2>2 DEF Raise, EventsInv, MapOK, WorkerSet
    <2>5. raiser' = [raiser EXCEPT ![r] = q]
        BY <1>5 DEF Raise
    <2>6. worker[inMap].given \cup {k} \in SUBSET Events
        BY <1>2, <2>2 DEF WorkerSet
    <2> HIDE DEF k
    <2>7. m \in WorkerSet
        BY <2>2, <2>6, Zenon DEF WorkerSet
    <2>8. /\ m.queue = worker[inMap].queue /\ m.seen = worker[inMap].seen /\ m.holds = worker[inMap].holds
          /\ m.unheard = worker[inMap].unheard /\ m.given = worker[inMap].given \cup {k}
          /\ m.dropped = worker[inMap].dropped /\ m.done = worker[inMap].done
        BY <2>2, Zenon DEF WorkerSet
    <2>9. QED BY <2>1, <2>3, <2>4, <2>5, <2>7, <2>8
<1>6. ASSUME inMap = 0 PROVE worker' = worker /\ raiser' = raiser
    BY <1>6 DEF Raise
<1> HIDE DEF m, q
<1>7. /\ worker' \in [Workers -> WorkerSet] /\ raiser' \in [Raisers -> RaiserSet]
      /\ \A v \in Workers : /\ worker'[v].queue = worker[v].queue /\ worker'[v].seen = worker[v].seen
                            /\ worker'[v].holds = worker[v].holds /\ worker'[v].unheard = worker[v].unheard
                            /\ worker'[v].dropped = worker[v].dropped /\ worker'[v].done = worker[v].done
      /\ \A p \in Raisers \ {r} : raiser'[p] = raiser[p]
    <2>1. CASE inMap = 0
        BY <1>6, <2>1 DEF EventsInv, MapOK, RaisersOK
    <2>2. CASE inMap # 0
        BY <1>5, <2>2 DEF EventsInv, MapOK, RaisersOK
    <2>3. QED BY <2>1, <2>2
<1>8. /\ raiser'[r].at # "counts" /\ raiser'[r].at # "resends" /\ raiser'[r].at \in {"out", "sends"}
      /\ \/ raiser'[r] = Outside
         \/ /\ raiser'[r].at = "sends" /\ raiser'[r].to = inMap /\ inMap \in 1..started /\ inMap \in Workers
            /\ raiser'[r].event = k
    <2>1. CASE inMap = 0
        BY <1>1, <1>6, <2>1
    <2>2. CASE inMap # 0
        <3>1. raiser'[r] = q
            BY <1>5, <2>2 DEF EventsInv, RaisersOK
        <3>2. QED BY <1>5, <2>2, <3>1 DEF q
    <2>3. QED BY <2>1, <2>2
<1>9. RaisersOK'
    <2>1. ASSUME NEW p \in Raisers
          PROVE  \/ raiser'[p] = Outside
                 \/ /\ raiser'[p].at # "out" /\ raiser'[p].to \in 1..started /\ raiser'[p].event \in 1..Len(by')
                    /\ by'[raiser'[p].event] = p
        <3>1. CASE p = r
            BY <1>2, <1>8, <3>1
        <3>2. CASE p # r
            <4>1. raiser'[p] = raiser[p]
                BY <1>7, <3>2
            <4>2. CASE raiser[p] = Outside
                BY <4>1, <4>2
            <4>3. CASE raiser[p] # Outside
                <5>1. raiser[p].at # "out"
                    BY <4>3 DEF EventsInv, RaisersOK
                <5>2. QED BY <1>3, <1>4, <4>1, <5>1
            <4>4. QED BY <4>2, <4>3
        <3>3. QED BY <3>1, <3>2
    <2>2. QED BY <1>1, <1>2, <1>7, <2>1 DEF RaisersOK
<1>10. MapOK'
    BY <1>1, <1>7 DEF EventsInv, MapOK
<1>11. LineOK'
    <2>1. ASSUME NEW v \in Workers
          PROVE  /\ OrderOK(worker'[v], by') /\ HappenedOK(worker'[v], Len(by'))
                 /\ \A f \in 1..Len(by) : NewestOK(worker[v], f, by) => NewestOK(worker'[v], f, by')
                 /\ NewestOK(worker'[v], k, by')
        <3>1. worker[v] \in WorkerSet /\ OrderOK(worker[v], by) /\ HappenedOK(worker[v], Len(by))
            BY DEF EventsInv, MapOK, LineOK
        <3>2. /\ OrderOK(worker[v], by) => OrderOK(worker[v], by')
              /\ \A f \in 1..Len(by) : NewestOK(worker[v], f, by) => NewestOK(worker[v], f, by')
              /\ HappenedOK(worker[v], Len(by'))
            <4>1. Len(by) <= Len(by') /\ \A i \in 1..Len(by) : by'[i] = by[i]
                BY <1>2, <1>3
            <4>2. QED BY <1>1, <1>2, <3>1, <4>1, LongerOK
        <3>3. worker'[v].queue = worker[v].queue /\ worker'[v].seen = worker[v].seen /\ worker'[v].holds = worker[v].holds
            BY <1>7
        <3>4. NewestOK(worker[v], k, by')
            <4>1. worker[v].seen \in Seq(Events) /\ worker[v].queue \in Seq(Events) /\ worker[v].holds \in 0..MaxEvents
                BY <3>1 DEF WorkerSet
            <4>2. \A x \in 0..MaxEvents : x <= Len(by) => x < k
                BY <1>1
            <4>3. Events \subseteq 0..MaxEvents
                BY <1>1 DEF Events
            <4>4. \A i \in 1..Len(worker[v].seen) : worker[v].seen[i] < k
                <5>1. \A i \in 1..Len(worker[v].seen) : worker[v].seen[i] \in Events
                    BY <4>1
                <5>2. \A i \in 1..Len(worker[v].seen) : worker[v].seen[i] <= Len(by)
                    BY <3>1 DEF HappenedOK
                <5>3. QED BY <4>2, <4>3, <5>1, <5>2
            <4>5. \A i \in 1..Len(worker[v].queue) : worker[v].queue[i] < k
                <5>1. \A i \in 1..Len(worker[v].queue) : worker[v].queue[i] \in Events
                    BY <4>1
                <5>2. \A i \in 1..Len(worker[v].queue) : worker[v].queue[i] <= Len(by)
                    BY <3>1 DEF HappenedOK
                <5>3. QED BY <4>2, <4>3, <5>1, <5>2
            <4>6. worker[v].holds < k
                BY <3>1, <4>1, <4>2 DEF HappenedOK
            <4>7. QED BY <4>4, <4>5, <4>6 DEF NewestOK, Before
        <3>5. OrderOK(worker'[v], by') /\ HappenedOK(worker'[v], Len(by'))
            BY <3>1, <3>2, <3>3 DEF OrderOK, HappenedOK
        <3>6. \A f \in 1..Len(by) : NewestOK(worker[v], f, by) => NewestOK(worker'[v], f, by')
            BY <3>2, <3>3 DEF NewestOK
        <3>7. NewestOK(worker'[v], k, by')
            BY <3>3, <3>4 DEF NewestOK
        <3>8. QED BY <3>5, <3>6, <3>7
    <2>2. ASSUME NEW p \in Raisers, raiser'[p].at # "out"
          PROVE  NewestOK(worker'[raiser'[p].to], raiser'[p].event, by')
        <3>1. CASE p = r
            BY <1>8, <2>1, <2>2, <3>1 DEF Outside
        <3>2. CASE p # r
            <4>1. raiser'[p] = raiser[p]
                BY <1>7, <3>2
            <4>2. NewestOK(worker[raiser[p].to], raiser[p].event, by)
                BY <2>2, <4>1 DEF EventsInv, LineOK
            <4>3. QED BY <1>4, <2>1, <2>2, <4>1, <4>2
        <3>3. QED BY <3>1, <3>2
    <2>3. QED BY <2>1, <2>2 DEF LineOK
<1>12. LossOK'
    <2> SUFFICES ASSUME NEW v \in Workers
                 PROVE  Cardinality(Lost(worker'[v], InHand(v)')) + Cardinality(RaisersAt("resends", v)')
                            <= 2 * worker'[v].dropped + Cardinality(RaisersAt("counts", v)')
        BY DEF LossOK
    <2>1. \A at \in {"counts", "resends"} : RaisersAt(at, v)' = RaisersAt(at, v)
        BY <1>1, <1>7, <1>8 DEF RaisersAt
    <2>2. raiser[r].to # v
        BY <1>1 DEF Outside, Workers
    <2>3. InHand(v) \subseteq InHand(v)'
        BY <1>7, <2>2 DEF InHand
    <2>4. worker'[v].given \subseteq worker[v].given \cup InHand(v)'
        <3>1. CASE inMap = v
            <4>1. raiser'[r].to = v /\ raiser'[r].event = k
                <5>1. raiser'[r] = q
                    BY <1>5, <3>1, <2>2 DEF EventsInv, RaisersOK, Workers
                <5>2. QED BY <3>1, <5>1 DEF q
            <4>2. k \in InHand(v)'
                BY <4>1 DEF InHand
            <4>3. worker'[v].given = worker[v].given \cup {k}
                <5>1. inMap # 0
                    BY <3>1 DEF Workers
                <5>2. worker'[v] = m
                    BY <1>5, <3>1, <5>1 DEF EventsInv, MapOK
                <5>3. QED BY <1>5, <3>1, <5>1, <5>2
            <4>4. QED BY <4>2, <4>3
        <3>2. CASE inMap # v
            <4>1. worker'[v] = worker[v]
                BY <1>5, <1>6, <3>2 DEF EventsInv, MapOK
            <4>2. QED BY <4>1
        <3>3. QED BY <3>1, <3>2
    <2>5. Lost(worker'[v], InHand(v)') \subseteq Lost(worker[v], InHand(v))
        BY <1>7, <2>3, <2>4 DEF Lost, Kept
    <2>6. worker[v] \in WorkerSet /\ worker'[v] \in WorkerSet
        BY <1>7 DEF EventsInv, MapOK
    <2>7. Cardinality(Lost(worker'[v], InHand(v)')) <= Cardinality(Lost(worker[v], InHand(v)))
        BY <2>5, <2>6, OneMoreLost
    <2>8. Cardinality(Lost(worker'[v], InHand(v)')) \in Nat /\ Cardinality(Lost(worker[v], InHand(v))) \in Nat
        BY <2>6, LostFinite
    <2>9. Cardinality(RaisersAt("resends", v)) \in Nat /\ Cardinality(RaisersAt("counts", v)) \in Nat /\ worker[v].dropped \in Nat
        BY <2>6, RaisersFinite DEF EventsInv, WorkerSet
    <2>10. Cardinality(Lost(worker[v], InHand(v))) + Cardinality(RaisersAt("resends", v))
               <= 2 * worker[v].dropped + Cardinality(RaisersAt("counts", v))
        BY DEF EventsInv, LossOK
    <2>11. worker'[v].dropped = worker[v].dropped
        BY <1>7
    <2> DEFINE l == Cardinality(Lost(worker'[v], InHand(v)'))
               g == Cardinality(Lost(worker[v], InHand(v)))
               s == Cardinality(RaisersAt("resends", v))
               c == Cardinality(RaisersAt("counts", v))
               d == worker[v].dropped
    <2>12. l <= g /\ l \in Nat /\ g \in Nat /\ s \in Nat /\ c \in Nat /\ d \in Nat /\ g + s <= 2 * d + c
        BY <2>7, <2>8, <2>9, <2>10
    <2> HIDE DEF l, g, s, c, d
    <2>13. l + s <= 2 * d + c
        BY <2>12
    <2>14. QED BY <2>1, <2>11, <2>13 DEF l, s, c, d
<1>13. OneWorker'
    <2> SUFFICES ASSUME NEW v \in 1..started, ~worker'[v].done PROVE v = inMap
        BY <1>1 DEF OneWorker
    <2>1. v \in Workers
        BY StartedAreWorkers
    <2>2. QED BY <1>7, <2>1 DEF EventsInv, OneWorker
<1>14. enabled' \in BOOLEAN
    BY <1>1 DEF EventsInv
<1>15. QED BY <1>9, <1>10, <1>11, <1>12, <1>13, <1>14 DEF EventsInv

LEMMA NothingMoves ==
    ASSUME EventsInv, UNCHANGED <<by, worker, raiser, started, inMap>>, enabled' \in BOOLEAN
    PROVE  EventsInv'
<1>1. RaisersOK' /\ MapOK'
    BY DEF EventsInv, RaisersOK, MapOK
<1>2. LineOK'
    BY DEF EventsInv, LineOK
<1>3. LossOK'
    BY DEF EventsInv, LossOK, InHand, RaisersAt
<1>4. OneWorker'
    BY DEF EventsInv, OneWorker
<1>5. QED BY <1>1, <1>2, <1>3, <1>4 DEF EventsInv

\* Only the row, or the worker in the map, is another; never is one in the map
\* while another is not told to end.
LEMMA ChangesOK ==
    ASSUME EventsInv, NEW h \in Changers, Switch(h) \/ EnsuresWorkers(h)
    PROVE  EventsInv'
<1>1. CASE Stop(h)
    <2>1. UNCHANGED <<enabled, by, raiser, started>> /\ inMap' = 0
        BY <1>1 DEF Stop, pluginRow
    <2>2. CASE inMap = 0
        <3>1. worker' = worker /\ inMap' = inMap
            BY <1>1, <2>1, <2>2 DEF Stop
        <3>2. QED BY <2>1, <3>1, NothingMoves DEF EventsInv
    <2>3. CASE inMap # 0
        <3> DEFINE n == worker[inMap]
                   m == [n EXCEPT !.done = TRUE]
        <3>1. inMap \in Workers
            BY <2>3, StartedAreWorkers DEF EventsInv, MapOK
        <3>2. n \in WorkerSet /\ OrderOK(n, by) /\ HappenedOK(n, Len(by)) /\ Len(n.queue) <= MaxQueue
            BY <3>1 DEF EventsInv, MapOK, LineOK
        <3>3. worker' = [worker EXCEPT ![inMap] = m]
            BY <1>1, <2>3, <3>1, <3>2 DEF Stop, EventsInv, MapOK, WorkerSet
        <3>4. TRUE \in BOOLEAN
            OBVIOUS
        <3>5. m \in WorkerSet
            BY <3>2, <3>4, Zenon DEF WorkerSet
        <3>6. /\ m.queue = n.queue /\ m.holds = n.holds /\ m.seen = n.seen /\ m.given = n.given
              /\ m.unheard = n.unheard /\ m.dropped = n.dropped /\ m.done = TRUE
            BY <3>2, Zenon DEF WorkerSet
        <3> HIDE DEF m
        <3>7. OrderOK(m, by) /\ HappenedOK(m, Len(by)) /\ \A f : NewestOK(n, f, by) => NewestOK(m, f, by)
            BY <3>2, <3>6 DEF OrderOK, HappenedOK, NewestOK
        <3>8. Lost(m, InHand(inMap)) \subseteq Lost(n, InHand(inMap)) /\ Len(m.queue) <= MaxQueue
            BY <3>2, <3>6 DEF Lost, Kept
        <3>9. QED BY <2>1, <3>1, <3>3, <3>5, <3>6, <3>7, <3>8, WorkerStepOK
    <2>4. QED BY <2>2, <2>3
<1>2. CASE Start(h)
    <2>1. UNCHANGED <<enabled, by, worker, raiser>>
        BY <1>2 DEF Start, pluginRow
    <2>2. CASE UNCHANGED mapVars
        BY <2>1, <2>2, NothingMoves DEF mapVars, EventsInv
    <2>3. CASE inMap = 0 /\ started < MaxWorkers /\ started' = started + 1 /\ inMap' = started + 1
        <3>1. started \in Nat /\ MaxWorkers \in Nat /\ 1 <= started
            BY StartedAreWorkers, EventsAssumption DEF EventsInv, MapOK, Workers
        <3>2. started' \in Workers /\ inMap' \in 0..started' /\ 1..started \subseteq 1..started'
            BY <2>3, <3>1 DEF Workers
        <3>3. RaisersOK'
            BY <2>1, <3>2 DEF EventsInv, RaisersOK
        <3>4. OneWorker'
            <4> SUFFICES ASSUME NEW v \in 1..started', ~worker[v].done PROVE v = inMap'
                BY <2>1 DEF OneWorker
            <4>1. v \in 1..started \/ v = started + 1
                BY <2>3, <3>1
            <4>2. v \notin 1..started
                BY <2>3 DEF EventsInv, OneWorker
            <4>3. QED BY <2>3, <4>1, <4>2
        <3>5. MapOK'
            BY <2>1, <3>2 DEF EventsInv, MapOK
        <3>6. LineOK' /\ LossOK' /\ enabled' \in BOOLEAN
            BY <2>1 DEF EventsInv, LineOK, LossOK, InHand, RaisersAt
        <3>7. QED BY <3>3, <3>4, <3>5, <3>6 DEF EventsInv
    <2>4. QED BY <1>2, <2>2, <2>3 DEF Start
<1>3. CASE Switch(h) \/ ListWanted(h)
    <2>1. UNCHANGED <<by, worker, raiser, started, inMap>>
        BY <1>3 DEF Switch, ListWanted, mapVars
    <2>2. enabled' \in BOOLEAN
        BY <1>3 DEF Switch, ListWanted, pluginRow, EventsInv
    <2>3. QED BY <2>1, <2>2, NothingMoves
<1>4. QED BY <1>1, <1>2, <1>3 DEF EnsuresWorkers

LEMMA EventsInvInit ==
    ASSUME EventsInit
    PROVE  EventsInv
<1>1. {MaxEvents, MaxQueue, MaxWorkers} \subseteq Nat /\ 1 <= MaxWorkers
    BY EventsAssumption
<1>2. NoEvents \in WorkerSet /\ Outside \in RaiserSet
    <2>1. /\ <<>> \in Seq(Events) /\ {} \in SUBSET Events /\ 0 \in 0..MaxEvents /\ 0 \in Nat /\ 0 \in 0..MaxWorkers
          /\ "out" \in {"out", "sends", "drops", "counts", "resends"}
        BY <1>1
    <2>2. FALSE \in BOOLEAN
        OBVIOUS
    <2>3. QED BY <2>1, <2>2, Zenon DEF NoEvents, Outside, WorkerSet, RaiserSet
<1>3. \A w \in Workers : worker[w] = NoEvents
    BY DEF EventsInit
<1>4. RaisersOK
    <2>1. by \in Seq(Raisers) /\ Len(by) <= MaxEvents
        BY <1>1 DEF EventsInit
    <2>2. QED BY <1>2, <2>1 DEF EventsInit, RaisersOK
<1>5. MapOK
    <2>1. started \in Workers /\ inMap \in 0..started
        BY <1>1 DEF EventsInit, Workers
    <2>2. Len(NoEvents.queue) <= MaxQueue
        BY <1>1 DEF NoEvents
    <2>3. QED BY <1>2, <2>1, <2>2 DEF EventsInit, MapOK
<1>6. LineOK
    <2>1. OrderOK(NoEvents, by) /\ HappenedOK(NoEvents, Len(by))
        BY DEF EventsInit, NoEvents, OrderOK, HappenedOK
    <2>2. \A r \in Raisers : raiser[r].at = "out"
        BY DEF EventsInit, Outside
    <2>3. QED BY <1>3, <2>1, <2>2 DEF LineOK
<1>7. LossOK
    <2> SUFFICES ASSUME NEW w \in Workers
                 PROVE  Cardinality(Lost(worker[w], InHand(w))) + Cardinality(RaisersAt("resends", w))
                            <= 2 * worker[w].dropped + Cardinality(RaisersAt("counts", w))
        BY DEF LossOK
    <2>1. Lost(worker[w], InHand(w)) = {}
        BY <1>3 DEF Lost, NoEvents
    <2>2. RaisersAt("resends", w) = {} /\ RaisersAt("counts", w) = {} /\ worker[w].dropped = 0
        BY <1>3 DEF EventsInit, Outside, RaisersAt, NoEvents
    <2>3. QED BY <2>1, <2>2, FS_EmptySet
<1>8. OneWorker
    BY DEF EventsInit, OneWorker
<1>9. QED BY <1>4, <1>5, <1>6, <1>7, <1>8 DEF EventsInit, EventsInv

LEMMA EventsInvStep ==
    ASSUME EventsInv, [EventsNext]_eventVars
    PROVE  EventsInv'
<1>1. ASSUME NEW r \in Raisers, Raise(r) \/ Raises(r) PROVE EventsInv'
    BY <1>1, RaiseOK, RaisesOK
<1>2. ASSUME NEW w \in Workers, Works(w) \/ ReadPluginFails(w) PROVE EventsInv'
    BY <1>2, WorksOK
<1>3. ASSUME NEW h \in Changers, Switch(h) \/ EnsuresWorkers(h) PROVE EventsInv'
    BY <1>3, ChangesOK
<1>4. CASE UNCHANGED eventVars
    BY <1>4, NothingMoves DEF eventVars, EventsInv
<1>5. QED BY <1>1, <1>2, <1>3, <1>4 DEF EventsNext

\* What a goroutine raises is run for in the order it was raised, a worker counts a
\* drop for every two events it loses, and one worker at most is not told to end:
\* however many calls of pluginEventRaised, workers and calls of
\* ensurePluginWorkers there are, and however short the queue.
THEOREM EventsKeptCorrect == EventsSpec => []EventsKept
<1>1. EventsInit => EventsInv
    BY EventsInvInit
<1>2. EventsInv /\ [EventsNext]_eventVars => EventsInv'
    BY EventsInvStep
<1>3. EventsInv => EventsKept
    BY EventsInvKeeps
<1>4. QED BY <1>1, <1>2, <1>3, PTL DEF EventsSpec

\* The queue is never longer than pluginEventQueue, and what is in the map and what
\* a call of pluginEventRaised copied from it is a worker that was started.
THEOREM EventsTypeCorrect == EventsSpec => []EventsTypeOK
<1>1. EventsInit => EventsInv
    BY EventsInvInit
<1>2. EventsInv /\ [EventsNext]_eventVars => EventsInv'
    BY EventsInvStep
<1>3. EventsInv => EventsTypeOK
    BY EventsInvType
<1>4. QED BY <1>1, <1>2, <1>3, PTL DEF EventsSpec

----------------------------------------------------------------------------
(* OnceParts: the parts side by side                                       *)
----------------------------------------------------------------------------

\* Side by side each part does what it does alone.
LEMMA PartsApart == PartsSpec => Safety /\ UsageSpec /\ CacheSpec /\ EventsSpec
<1>1. PartsInit => Init /\ UsageInit /\ CacheInit /\ EventsInit
    BY DEF PartsInit
<1>2. [PartsNext]_<<part, vars, usageVars, cacheVars, eventVars>>
          => [Next]_vars /\ [UsageNext]_usageVars /\ [ReadsNext \/ WarmNext]_cacheVars /\ [EventsNext]_eventVars
    BY DEF PartsNext, Rests
<1>3. QED BY <1>1, <1>2, PTL DEF PartsSpec, Safety, UsageSpec, CacheSpec, EventsSpec

\* The types of all parts: for any number of attachers, transcripts, requests,
\* callers, raisers and workers.
THEOREM PartsTypeCorrect == PartsSpec => []PartsTypeOK
<1>1. TypeOK /\ UsageTypeOK /\ CacheTypeOK /\ EventsTypeOK => PartsTypeOK
    BY DEF PartsTypeOK
<1>2. QED BY <1>1, PartsApart, TypeCorrect, UsageTypeCorrect, CacheTypeCorrect, EventsTypeCorrect, PTL

\* What is proved of each part alone holds of the specification the run checks, with
\* pumps that stop within pumpDrain and clients that obey SIGTERM, transcripts that
\* only grow and are not removed unread, and one setter of the zone.
THEOREM PartsSafe ==
    ASSUME ~SlowPump, ObeysTerm, ~Abandons, ~Unnoticed, OneSetter
    PROVE  PartsSpec => [](ClientsOwned /\ UsageExact /\ ReadsShared /\ EventsKept) /\ DetachObeyed
<1>1. PartsSpec => []ClientsOwned /\ DetachObeyed
    BY PartsApart, ClientsOwnedCorrect, DetachObeyedCorrect, PTL
<1>2. PartsSpec => []UsageExact
    BY PartsApart, UsageExactCorrect, PTL
<1>3. PartsSpec => [](ReadsShared /\ EventsKept)
    BY PartsApart, ReadsSharedCorrect, EventsKeptCorrect, PTL
<1>4. QED BY <1>1, <1>2, <1>3, PTL
=============================================================================
