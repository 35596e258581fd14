-------------------------- MODULE OwnerParts_proofs --------------------------
(***************************************************************************)
(* The rows of a page (PageData), proved for any number of requests, of    *)
(* processes of the command line and of polls, and for any times; and that *)
(* the two parts that are checked side by side keep what each does alone.  *)
(***************************************************************************)
EXTENDS OwnerParts, GridControl_proofs

\* A request that has taken writeMu and not yet given it up.
Holding == {"reads", "writes", "clears", "frees"}

WriterOK == \A c \in Posters : change[c] \in Holding => writer = c

\* What was read is what is stored, unless somebody wrote in between.
SawOK == crossed \/ \A c \in Everybody : change[c] = "writes" => saw[c] = count

\* Nothing is newer than the row.
VersionsOK ==
    /\ answered <= Version
    /\ \A c \in Posters : ownVersion[c] <= Version
    /\ \A v \in 1..Version : madeAt[v] <= pageTime

\* A version that somebody does not have was made no earlier than t.
MissesSince(version, t) == \A v \in 1..Version : v > version => madeAt[v] >= t

\* The rows that are kept under the present revision have what was answered;
\* what they do not have was made after they were read.
CacheOK ==
    cache.held =>
        /\ cache.rev <= rev /\ cache.at <= pageTime
        /\ cache.rev = rev => cache.version >= answered
        /\ \A v \in 1..Version : v > cache.version => madeAt[v] + QueryTime >= cache.at

PollOK ==
    \A r \in Readers :
        /\ began[r] <= pageTime /\ owed[r] <= answered /\ pollRev[r] <= rev
        /\ poll[r] = "stores" =>
              /\ got[r] >= owed[r] /\ (pollRev[r] = rev => got[r] >= answered)
              /\ began[r] <= queried[r] /\ queried[r] <= pageTime /\ pageTime <= queried[r] + QueryTime
              /\ MissesSince(got[r], queried[r])
        /\ poll[r] = "answered" =>
              /\ got[r] >= owed[r]
              /\ \A v \in 1..Version : v > got[r] => madeAt[v] + RowsTTL + QueryTime > began[r]

PageInv == PageDataTypeOK /\ CountExact /\ WriterOK /\ SawOK /\ VersionsOK /\ CacheOK /\ PollOK

LEMMA PageInitial == PageDataInit => PageInv
  <1> USE PageDataAssumption DEF PageDataInit
  <1>1. PageDataInit => PageDataTypeOK
    <2>1. PageDataInit => madeAt \in Seq(Nat)
      OBVIOUS
    <2>2. PageDataInit => cache \in [rev : Nat, at : Nat, version : Nat, held : BOOLEAN]
      BY DEF NoCache
    <2>3. PageDataInit => crossed \in BOOLEAN
      BY Zenon
    <2> QED BY <2>1, <2>2, <2>3 DEF PageDataTypeOK
  <1>2. PageDataInit => CountExact /\ WriterOK /\ SawOK
    BY DEF CountExact, WriterOK, SawOK, Holding, Everybody
  <1>3. PageDataInit => VersionsOK /\ CacheOK /\ PollOK
    BY DEF VersionsOK, Version, CacheOK, NoCache, PollOK
  <1> QED BY <1>1, <1>2, <1>3 DEF PageInv

\* A write adds a version of the present time and leaves the others.
LEMMA StoresRow ==
    ASSUME PageInv, NEW c, NEW value \in Nat, NEW should \in Nat, Stores(c, value, should)
    PROVE  /\ count' = value /\ due' = should
           /\ crossed' = (crossed \/ ReadAndNotWritten \ {c} # {})
           /\ madeAt' \in Seq(Nat)
           /\ Version \in Nat /\ Version' = Version + 1 /\ madeAt'[Version + 1] = pageTime
           /\ \A v \in 1..Version : madeAt'[v] = madeAt[v]
           /\ \A v \in 1..Version' : v = Version + 1 \/ v \in 1..Version
  <1>1. madeAt \in Seq(Nat) /\ pageTime \in Nat /\ Version \in Nat
    BY DEF PageInv, PageDataTypeOK, Version
  <1>2. madeAt' = Append(madeAt, pageTime)
    BY DEF Stores
  <1>3. madeAt' \in Seq(Nat) /\ Version' = Version + 1 /\ madeAt'[Version + 1] = pageTime
    BY <1>1, <1>2 DEF Version
  <1>4. \A v \in 1..Version : madeAt'[v] = madeAt[v]
    BY <1>1, <1>2 DEF Version
  <1>5. \A v \in 1..Version' : v = Version + 1 \/ v \in 1..Version
    BY <1>1, <1>3
  <1> QED BY <1>1, <1>3, <1>4, <1>5 DEF Stores

\* Nothing is newer than the row that a write has made.
LEMMA StoresKeepsVersions ==
    ASSUME PageInv, NEW c, NEW value \in Nat, NEW should \in Nat, Stores(c, value, should),
           pageTime' = pageTime, answered' = answered,
           \A d \in Posters : ownVersion'[d] = ownVersion[d] \/ ownVersion'[d] = Version + 1
    PROVE  VersionsOK'
  <1>1. /\ Version \in Nat /\ Version' = Version + 1 /\ madeAt'[Version + 1] = pageTime
        /\ \A v \in 1..Version : madeAt'[v] = madeAt[v]
        /\ \A v \in 1..Version' : v = Version + 1 \/ v \in 1..Version
    BY StoresRow
  <1>2. pageTime \in Nat /\ answered \in Nat /\ \A d \in Posters : ownVersion[d] \in Nat
    BY DEF PageInv, PageDataTypeOK
  <1>3. VersionsOK
    BY DEF PageInv
  <1>4. answered' <= Version'
    BY <1>1, <1>2, <1>3 DEF VersionsOK
  <1>5. ASSUME NEW d \in Posters PROVE ownVersion'[d] <= Version'
    BY <1>1, <1>2, <1>3 DEF VersionsOK
  <1>6. ASSUME NEW v \in 1..Version' PROVE madeAt'[v] <= pageTime'
    <2>1. CASE v = Version + 1
      BY <1>1, <1>2, <2>1
    <2>2. CASE v \in 1..Version
      BY <1>1, <1>3, <2>2 DEF VersionsOK
    <2> QED BY <1>1, <2>1, <2>2
  <1> QED BY <1>4, <1>5, <1>6 DEF VersionsOK

\* What polls and the cache rely on outlives a write.
LEMMA StoresKeepsPolls ==
    ASSUME PageInv, NEW c, NEW value \in Nat, NEW should \in Nat, Stores(c, value, should),
           UNCHANGED <<pageTime, rev, answered, pollVars>>
    PROVE  CacheOK' /\ PollOK'
  <1> USE PageDataAssumption DEF pollVars
  <1>1. /\ Version' = Version + 1 /\ madeAt'[Version + 1] = pageTime /\ Version \in Nat
        /\ \A v \in 1..Version : madeAt'[v] = madeAt[v]
    BY StoresRow
  <1>2. \A v \in 1..Version' : v = Version + 1 \/ v \in 1..Version
    BY StoresRow
  <1>3. pageTime \in Nat /\ \A v \in 1..Version : madeAt[v] \in Nat
    BY DEF PageInv, PageDataTypeOK, Version
  <1>4. CacheOK'
    <2> SUFFICES ASSUME cache.held, NEW v \in 1..Version', v > cache.version
                 PROVE  madeAt'[v] + QueryTime >= cache.at
      BY DEF PageInv, CacheOK
    <2>1. cache.at \in Nat /\ cache.at <= pageTime
      BY DEF PageInv, PageDataTypeOK, CacheOK
    <2> QED BY <1>1, <1>2, <1>3, <2>1 DEF PageInv, CacheOK
  <1>5. PollOK'
    <2> SUFFICES ASSUME NEW r \in Readers, NEW v \in 1..Version', v > got[r]
                 PROVE  /\ poll[r] = "stores" => madeAt'[v] >= queried[r]
                        /\ poll[r] = "answered" => madeAt'[v] + RowsTTL + QueryTime > began[r]
      BY DEF PageInv, PollOK, MissesSince
    <2>1. /\ began[r] \in Nat /\ began[r] <= pageTime
          /\ poll[r] = "stores" => queried[r] <= pageTime
      BY DEF PageInv, PageDataTypeOK, PollOK
    <2> QED BY <1>1, <1>2, <1>3, <2>1 DEF PageInv, PollOK, MissesSince
  <1> QED BY <1>4, <1>5

\* A request that changes neither the row nor what polls see.
LEMMA RequestStep ==
    ASSUME PageInv, NEW c \in Posters, Locks(c) \/ ReadsRow(c) \/ Refused(c) \/ Frees(c)
    PROVE  PageInv'
  <1> USE PageDataAssumption DEF storeVars, pollVars, Everybody
  <1>1. PageDataTypeOK'
    <2>1. CASE Locks(c)
      BY <2>1 DEF PageInv, PageDataTypeOK, Locks
    <2>2. CASE ReadsRow(c)
      BY <2>2 DEF PageInv, PageDataTypeOK, ReadsRow
    <2>3. CASE Refused(c)
      BY <2>3 DEF PageInv, PageDataTypeOK, Refused
    <2>4. CASE Frees(c)
      BY <2>4 DEF PageInv, PageDataTypeOK, Frees
    <2> QED BY <2>1, <2>2, <2>3, <2>4
  <1>2. CountExact' /\ SawOK'
    BY DEF PageInv, PageDataTypeOK, CountExact, SawOK, Locks, ReadsRow, Refused, Frees
  <1>3. WriterOK'
    <2> USE DEF PageInv, PageDataTypeOK, WriterOK, Holding
    <2>1. CASE Locks(c)
      BY <2>1 DEF Locks
    <2>2. CASE ReadsRow(c)
      BY <2>2 DEF ReadsRow
    <2>3. CASE Refused(c)
      BY <2>3 DEF Refused
    <2>4. CASE Frees(c)
      BY <2>4 DEF Frees
    <2> QED BY <2>1, <2>2, <2>3, <2>4
  <1>4. VersionsOK'
    BY DEF PageInv, VersionsOK, Version, Locks, ReadsRow, Refused, Frees
  <1>5. CacheOK' /\ PollOK'
    BY DEF PageInv, CacheOK, PollOK, MissesSince, Version, Locks, ReadsRow, Refused, Frees
  <1> QED BY <1>1, <1>2, <1>3, <1>4, <1>5 DEF PageInv

\* A request that writes the row.
LEMMA RowStep ==
    ASSUME PageInv, NEW c \in Posters, WritesRow(c) \/ Clears(c)
    PROVE  PageInv'
  <1> USE PageDataAssumption DEF Everybody
  <1>1. saw[c] + 1 \in Nat /\ due + 1 \in Nat
    BY DEF PageInv, PageDataTypeOK
  <1>2. PICK value \in Nat, should \in Nat :
          /\ Stores(c, value, should)
          /\ (value = 0 /\ should = 0) \/ (change[c] = "writes" /\ value = saw[c] + 1 /\ should = due + 1)
    BY <1>1 DEF WritesRow, Clears
  <1>3. /\ count' = value /\ due' = should /\ crossed' = (crossed \/ ReadAndNotWritten \ {c} # {})
        /\ madeAt' \in Seq(Nat) /\ Version' = Version + 1 /\ madeAt'[Version + 1] = pageTime
        /\ \A v \in 1..Version : madeAt'[v] = madeAt[v]
    BY <1>2, StoresRow
  <1>4. /\ change[c] \in {"writes", "clears"} /\ change'[c] \notin {"writes"}
        /\ \A d \in Everybody \ {c} : change'[d] = change[d] /\ saw'[d] = saw[d]
        /\ UNCHANGED <<pageTime, writer, rev, answered, pollVars>>
    BY DEF PageInv, PageDataTypeOK, WritesRow, Clears
  <1>5. PageDataTypeOK'
    <2>1. Version + 1 \in Nat
      BY DEF PageInv, PageDataTypeOK, Version
    <2>2. /\ change' \in [Everybody -> {"idle", "reads", "clears", "writes", "frees", "bumps"}]
          /\ saw' \in [Everybody -> Nat] /\ ownVersion' \in [Posters -> Nat]
      <3>1. CASE WritesRow(c)
        BY <2>1, <3>1 DEF PageInv, PageDataTypeOK, WritesRow
      <3>2. CASE Clears(c)
        BY <2>1, <3>2 DEF PageInv, PageDataTypeOK, Clears
      <3> QED BY <3>1, <3>2
    <2>3. crossed' \in BOOLEAN
      BY <1>3 DEF PageInv, PageDataTypeOK
    <2> QED BY <1>3, <1>4, <2>2, <2>3 DEF PageInv, PageDataTypeOK, pollVars
  <1>6. CountExact'
    BY <1>2, <1>3, <1>4 DEF PageInv, PageDataTypeOK, CountExact, SawOK
  <1>7. SawOK'
    BY <1>3, <1>4 DEF PageInv, SawOK, ReadAndNotWritten
  <1>8. WriterOK'
    BY <1>4 DEF PageInv, PageDataTypeOK, WriterOK, Holding, WritesRow, Clears
  <1>9. VersionsOK'
    <2>1. \A d \in Posters : ownVersion'[d] = ownVersion[d] \/ ownVersion'[d] = Version + 1
      BY DEF PageInv, PageDataTypeOK, WritesRow, Clears
    <2> QED BY <1>2, <1>4, <2>1, StoresKeepsVersions
  <1>10. CacheOK' /\ PollOK'
    BY <1>2, <1>4, StoresKeepsPolls
  <1> QED BY <1>5, <1>6, <1>7, <1>8, <1>9, <1>10 DEF PageInv

\* The revision is bumped: no rows are kept under it, and no poll has found it.
LEMMA BumpStep ==
    ASSUME PageInv, NEW c \in Posters, Bumps(c)
    PROVE  PageInv'
  <1> USE PageDataAssumption DEF Bumps, storeVars, pollVars, Everybody
  <1>1. PageDataTypeOK'
    <2>1. rev' \in Nat /\ answered' \in Nat /\ writer' \in {NoWriter} \cup Posters
      BY DEF PageInv, PageDataTypeOK
    <2>2. change' \in [Everybody -> {"idle", "reads", "clears", "writes", "frees", "bumps"}]
      BY DEF PageInv, PageDataTypeOK
    <2>3. ownVersion' \in [Posters -> Nat]
      BY DEF PageInv, PageDataTypeOK
    <2> QED BY <2>1, <2>2, <2>3 DEF PageInv, PageDataTypeOK
  <1>2. CountExact' /\ SawOK'
    BY DEF PageInv, PageDataTypeOK, CountExact, SawOK
  <1>3. WriterOK'
    BY DEF PageInv, PageDataTypeOK, WriterOK, Holding
  <1>4. VersionsOK' /\ answered <= answered'
    BY DEF PageInv, PageDataTypeOK, VersionsOK, Version
  <1>5. CacheOK'
    BY <1>4 DEF PageInv, PageDataTypeOK, CacheOK, Version
  <1>6. PollOK'
    <2>1. rev \in Nat /\ answered \in Nat /\ rev' = rev + 1 /\ answered' \in Nat
      BY DEF PageInv, PageDataTypeOK
    <2>2. UNCHANGED <<madeAt, Version, pageTime, poll, pollRev, queried, got, owed, began>>
      BY DEF Version
    <2> SUFFICES ASSUME NEW r \in Readers PROVE PollOK!(r)'
      BY DEF PollOK
    <2>3. pollRev[r] \in Nat /\ owed[r] \in Nat /\ pollRev[r] <= rev /\ owed[r] <= answered
      BY DEF PageInv, PageDataTypeOK, PollOK
    <2>4. pollRev[r] <= rev' /\ pollRev[r] # rev' /\ owed[r] <= answered'
      BY <1>4, <2>1, <2>3
    <2> HIDE DEF Bumps
    <2> QED BY <2>2, <2>4 DEF PageInv, PollOK, MissesSince
  <1> QED BY <1>1, <1>2, <1>3, <1>4, <1>5, <1>6 DEF PageInv

LEMMA OutsideStep ==
    ASSUME PageInv, NEW c \in Outsiders, OutsideReads(c) \/ OutsideWrites(c)
    PROVE  PageInv'
  <1> USE PageDataAssumption DEF Everybody
  <1>1. CASE OutsideReads(c)
    <2> USE <1>1 DEF OutsideReads, storeVars, pollVars
    <2>1. PageDataTypeOK'
      BY DEF PageInv, PageDataTypeOK
    <2>2. CountExact' /\ SawOK' /\ WriterOK'
      BY DEF PageInv, PageDataTypeOK, CountExact, SawOK, WriterOK, Holding
    <2>3. VersionsOK' /\ CacheOK' /\ PollOK'
      BY DEF PageInv, VersionsOK, CacheOK, PollOK, MissesSince, Version
    <2> QED BY <2>1, <2>2, <2>3 DEF PageInv
  <1>2. CASE OutsideWrites(c)
    <2>1. saw[c] + 1 \in Nat /\ due + 1 \in Nat
      BY DEF PageInv, PageDataTypeOK
    <2>2. PICK value \in Nat, should \in Nat :
            /\ Stores(c, value, should)
            /\ (value = 0 /\ should = 0) \/ (change[c] = "writes" /\ value = saw[c] + 1 /\ should = due + 1)
      BY <1>2, <2>1 DEF OutsideWrites
    <2>3. /\ count' = value /\ due' = should /\ crossed' = (crossed \/ ReadAndNotWritten \ {c} # {})
          /\ madeAt' \in Seq(Nat) /\ Version' = Version + 1 /\ madeAt'[Version + 1] = pageTime
          /\ \A v \in 1..Version : madeAt'[v] = madeAt[v]
      BY <2>2, StoresRow
    <2>4. /\ change'[c] = "idle" /\ \A d \in Everybody \ {c} : change'[d] = change[d] /\ saw'[d] = saw[d]
          /\ UNCHANGED <<pageTime, writer, ownVersion, rev, answered, pollVars>>
      BY <1>2 DEF PageInv, PageDataTypeOK, OutsideWrites
    <2>5. PageDataTypeOK'
      <3>1. change' \in [Everybody -> {"idle", "reads", "clears", "writes", "frees", "bumps"}]
            /\ saw' \in [Everybody -> Nat]
        BY <1>2 DEF PageInv, PageDataTypeOK, OutsideWrites
      <3>2. crossed' \in BOOLEAN
        BY <2>3 DEF PageInv, PageDataTypeOK
      <3> QED BY <2>3, <2>4, <3>1, <3>2 DEF PageInv, PageDataTypeOK, pollVars
    <2>6. CountExact' /\ SawOK'
      BY <2>2, <2>3, <2>4 DEF PageInv, PageDataTypeOK, CountExact, SawOK, ReadAndNotWritten
    <2>7. WriterOK'
      BY <2>4 DEF PageInv, WriterOK, Holding
    <2>8. VersionsOK'
      BY <2>2, <2>4, StoresKeepsVersions
    <2>9. CacheOK' /\ PollOK'
      BY <2>2, <2>4, StoresKeepsPolls
    <2> QED BY <2>5, <2>6, <2>7, <2>8, <2>9 DEF PageInv
  <1> QED BY <1>1, <1>2

\* A poll, the cache and the clock leave the row and its writers alone.
LEMMA ReaderStep ==
    ASSUME PageInv, CacheEmptied \/ ClockTicks \/ \E r \in Readers : LooksInCache(r) \/ Queries(r) \/ Caches(r)
    PROVE  PageInv'
  <1> USE PageDataAssumption DEF storeVars, changeVars, pollVars
  <1>1. /\ UNCHANGED <<storeVars, changeVars, rev, answered>> /\ pageTime' \in Nat /\ pageTime <= pageTime'
    <2>1. pageTime \in Nat
      BY DEF PageInv, PageDataTypeOK
    <2> QED BY <2>1 DEF CacheEmptied, ClockTicks, LooksInCache, Queries, Caches
  <1>2. CountExact' /\ SawOK' /\ WriterOK'
    BY <1>1 DEF PageInv, CountExact, SawOK, WriterOK
  <1>3. VersionsOK' /\ Version' = Version /\ Version \in Nat /\ \A v \in 1..Version : madeAt[v] \in Nat
    <2>1. Version \in Nat /\ \A v \in 1..Version : madeAt[v] \in Nat
      BY DEF PageInv, PageDataTypeOK, Version
    <2>2. madeAt' = madeAt /\ Version' = Version
      BY <1>1 DEF Version
    <2>3. pageTime \in Nat /\ VersionsOK
      BY DEF PageInv, PageDataTypeOK
    <2>4. ASSUME NEW v \in 1..Version PROVE madeAt[v] <= pageTime'
      BY <1>1, <2>1, <2>3 DEF VersionsOK
    <2> QED BY <1>1, <2>1, <2>2, <2>3, <2>4 DEF VersionsOK
  <1>4. CASE CacheEmptied
    <2> USE <1>4 DEF CacheEmptied, NoCache
    <2>1. PageDataTypeOK' /\ CacheOK' /\ PollOK'
      BY <1>1 DEF PageInv, PageDataTypeOK, CacheOK, PollOK, MissesSince, Version
    <2> QED BY <1>2, <1>3, <2>1 DEF PageInv
  <1>5. CASE ClockTicks
    <2> USE <1>5 DEF ClockTicks
    <2>1. PageDataTypeOK' /\ CacheOK'
      BY <1>1, <1>3 DEF PageInv, PageDataTypeOK, CacheOK
    <2>2. PollOK'
      <3> SUFFICES ASSUME NEW r \in Readers PROVE PollOK!(r)'
        BY DEF PollOK
      <3>1. began[r] \in Nat /\ queried[r] \in Nat /\ pageTime \in Nat /\ PollOK!(r)
        BY DEF PageInv, PageDataTypeOK, PollOK
      <3>2. began[r] <= pageTime' /\ (queried[r] <= pageTime => queried[r] <= pageTime')
        BY <1>1, <3>1
      <3>3. poll[r] = "stores" => pageTime' <= queried[r] + QueryTime
        BY <1>1, <3>1
      <3>4. UNCHANGED <<madeAt, Version, rev, answered, poll, pollRev, queried, got, owed, began>>
        BY <1>1, <1>3
      <3> HIDE DEF ClockTicks
      <3> QED BY <3>1, <3>2, <3>3, <3>4 DEF MissesSince
    <2> QED BY <1>2, <1>3, <2>1, <2>2 DEF PageInv
  <1>6. ASSUME NEW r \in Readers, LooksInCache(r) PROVE PageDataTypeOK' /\ CacheOK' /\ PollOK'
    <2> USE <1>6 DEF LooksInCache
    <2>0. cache.at \in Nat /\ cache.version \in Nat /\ QueryTime \in Nat /\ RowsTTL \in Nat /\ pageTime \in Nat
      BY DEF PageInv, PageDataTypeOK
    <2>1. PageDataTypeOK'
      <3>1. poll' \in [Readers -> {"idle", "queries", "stores", "answered"}]
        BY DEF PageInv, PageDataTypeOK
      <3>2. pollRev' \in [Readers -> Nat] /\ got' \in [Readers -> Nat]
        BY <2>0 DEF PageInv, PageDataTypeOK
      <3> QED BY <3>1, <3>2 DEF PageInv, PageDataTypeOK
    <2>5. CacheOK'
      BY <1>1, <1>3 DEF PageInv, CacheOK
    <2>2. ASSUME Hit PROVE \A v \in 1..Version : v > cache.version => madeAt[v] + RowsTTL + QueryTime > pageTime
      BY <1>3, <2>0, <2>2 DEF Hit, PageInv, CacheOK
    <2>3. ASSUME Hit PROVE cache.version >= answered
      BY <2>3 DEF Hit, PageInv, CacheOK
    <2>4. PollOK'
      <3>1. UNCHANGED <<madeAt, Version, pageTime, rev, answered, queried>>
        BY <1>1, <1>3
      <3>2. PageDataTypeOK /\ PollOK
        BY DEF PageInv
      <3> SUFFICES ASSUME NEW q \in Readers PROVE PollOK!(q)'
        BY DEF PollOK
      <3>3. CASE q = r
        <4>1. began'[r] = pageTime /\ owed'[r] = answered /\ pollRev'[r] \in {0, rev}
          BY <3>2 DEF PageDataTypeOK
        <4>2. poll'[r] = "answered" => Hit /\ got'[r] = cache.version
          BY <3>2 DEF PageDataTypeOK
        <4>3. poll'[r] # "stores"
          BY <3>2 DEF PageDataTypeOK
        <4>4. pageTime \in Nat /\ answered \in Nat /\ rev \in Nat
          BY <3>2 DEF PageDataTypeOK
        <4> HIDE DEF LooksInCache
        <4> QED BY <2>2, <2>3, <3>1, <3>3, <4>1, <4>2, <4>3, <4>4
      <3>4. CASE q # r
        <4>1. /\ poll'[q] = poll[q] /\ pollRev'[q] = pollRev[q] /\ got'[q] = got[q]
              /\ owed'[q] = owed[q] /\ began'[q] = began[q]
          BY <3>2, <3>4 DEF PageDataTypeOK
        <4> HIDE DEF LooksInCache
        <4> QED BY <3>1, <3>2, <4>1 DEF PollOK, MissesSince
      <3> QED BY <3>3, <3>4
    <2> QED BY <2>1, <2>4, <2>5
  <1>7. ASSUME NEW r \in Readers, Queries(r) PROVE PageDataTypeOK' /\ CacheOK' /\ PollOK'
    <2> USE <1>7 DEF Queries
    <2>1. PageDataTypeOK' /\ CacheOK'
      <3>1. PageDataTypeOK'
        <4>1. poll' \in [Readers -> {"idle", "queries", "stores", "answered"}]
          BY DEF PageInv, PageDataTypeOK
        <4>2. got' \in [Readers -> Nat] /\ queried' \in [Readers -> Nat]
          BY <1>3 DEF PageInv, PageDataTypeOK
        <4> QED BY <4>1, <4>2 DEF PageInv, PageDataTypeOK
      <3>2. CacheOK'
        BY <1>1, <1>3 DEF PageInv, CacheOK
      <3> QED BY <3>1, <3>2
    <2>2. PollOK'
      <3>1. pageTime \in Nat /\ QueryTime \in Nat /\ answered <= Version
        BY DEF PageInv, PageDataTypeOK, VersionsOK
      <3>2. /\ got'[r] = Version /\ queried'[r] = pageTime /\ poll'[r] = "stores"
            /\ \A q \in Readers \ {r} : got'[q] = got[q] /\ queried'[q] = queried[q] /\ poll'[q] = poll[q]
            /\ UNCHANGED <<pageTime, began, owed, pollRev>>
        BY DEF PageInv, PageDataTypeOK
      <3>3. owed[r] <= Version /\ owed[r] \in Nat /\ began[r] \in Nat
        BY <1>3, <3>1 DEF PageInv, PageDataTypeOK, PollOK
      <3>4. MissesSince(Version, pageTime) /\ ~(\E v \in 1..Version : v > Version)
        BY <1>3 DEF MissesSince
      <3> SUFFICES ASSUME NEW q \in Readers PROVE PollOK!(q)'
        BY DEF PollOK
      <3>5. CASE q = r
        BY <1>1, <1>3, <3>1, <3>2, <3>3, <3>4, <3>5 DEF PageInv, PollOK, MissesSince
      <3>6. CASE q # r
        BY <1>1, <1>3, <3>2, <3>6 DEF PageInv, PollOK, MissesSince
      <3> QED BY <3>5, <3>6
    <2> QED BY <2>1, <2>2
  <1>8. ASSUME NEW r \in Readers, Caches(r) PROVE PageDataTypeOK' /\ CacheOK' /\ PollOK'
    <2> USE <1>8 DEF Caches
    <2>1. PageDataTypeOK'
      BY <1>1 DEF PageInv, PageDataTypeOK
    <2>2. CacheOK'
      <3>1. UNCHANGED <<madeAt, Version, pageTime, rev, answered>>
        BY <1>1, <1>3
      <3>2. CASE cache' = cache
        BY <3>1, <3>2 DEF PageInv, CacheOK
      <3>3. CASE rev = pollRev[r] /\ cache' = [rev |-> rev, at |-> pageTime, version |-> got[r], held |-> TRUE]
        <4>1. PollOK!(r) /\ poll[r] = "stores"
          BY DEF PageInv, PollOK
        <4>2. pageTime \in Nat /\ queried[r] \in Nat /\ QueryTime \in Nat /\ rev \in Nat
          BY DEF PageInv, PageDataTypeOK
        <4>3. \A v \in 1..Version : v > got[r] => madeAt[v] + QueryTime >= pageTime
          BY <1>3, <4>1, <4>2 DEF MissesSince
        <4> HIDE DEF Caches
        <4> QED BY <3>1, <3>3, <4>1, <4>2, <4>3 DEF CacheOK
      <3> QED BY <3>2, <3>3
    <2>3. PollOK'
      <3>1. /\ poll'[r] = "answered" /\ \A q \in Readers \ {r} : poll'[q] = poll[q] /\ queried'[q] = queried[q]
            /\ \A q \in Readers : pollRev'[q] <= rev' /\ (q # r => pollRev'[q] = pollRev[q])
            /\ UNCHANGED <<pageTime, began, owed, got>>
        BY <1>1 DEF PageInv, PageDataTypeOK, PollOK
      <3>2. /\ began[r] \in Nat /\ queried[r] \in Nat /\ QueryTime \in Nat /\ RowsTTL \in Nat \ {0}
            /\ began[r] <= queried[r]
            /\ \A v \in 1..Version : v > got[r] => madeAt[v] >= queried[r]
        BY DEF PageInv, PageDataTypeOK, PollOK, MissesSince
      <3>3. \A v \in 1..Version : v > got[r] => madeAt[v] + RowsTTL + QueryTime > began[r]
        BY <1>3, <3>2
      <3> SUFFICES ASSUME NEW q \in Readers PROVE PollOK!(q)'
        BY DEF PollOK
      <3>4. CASE q = r
        BY <1>1, <1>3, <3>1, <3>3, <3>4 DEF PageInv, PollOK
      <3>5. CASE q # r
        BY <1>1, <1>3, <3>1, <3>5 DEF PageInv, PollOK, MissesSince
      <3> QED BY <3>4, <3>5
    <2> QED BY <2>1, <2>2, <2>3
  <1> QED BY <1>2, <1>3, <1>4, <1>5, <1>6, <1>7, <1>8 DEF PageInv

LEMMA PageInvariant == PageDataSpec => []PageInv
  <1>1. PageInv /\ [PageDataNext]_pageVars => PageInv'
    <2> SUFFICES ASSUME PageInv, [PageDataNext]_pageVars PROVE PageInv'
      OBVIOUS
    <2>1. CASE UNCHANGED pageVars
      BY <2>1 DEF pageVars, storeVars, changeVars, pollVars, PageInv, PageDataTypeOK, CountExact, WriterOK, SawOK,
                  VersionsOK, Version, CacheOK, PollOK, MissesSince
    <2>2. CASE PageDataNext
      BY <2>2, RequestStep, RowStep, BumpStep, OutsideStep, ReaderStep DEF PageDataNext
    <2> QED BY <2>1, <2>2
  <1> QED BY <1>1, PageInitial, PTL DEF PageDataSpec

\* However many requests, writers outside and polls there are: no increment is
\* lost and none undoes a reset but by crossing with the command line, and
\* nobody sees an older row than was promised (applyPageData, pageDataRows).
THEOREM PageDataKeptCorrect == PageDataSpec => []PageDataKept
  <1>1. PageInv => OneChangeAtATime
    BY DEF PageInv, WriterOK, Holding, OneChangeAtATime
  <1>2. PageInv => ShowsAnswered /\ ShowsRecent
    <2> SUFFICES ASSUME PageInv, NEW r \in Readers, poll[r] = "answered"
                 PROVE  /\ got[r] >= owed[r]
                        /\ \A v \in 1..Version : madeAt[v] + RowsTTL + QueryTime <= began[r] => v <= got[r]
      BY DEF ShowsAnswered, ShowsRecent
    <2>1. Version \in Nat /\ got[r] \in Nat /\ began[r] \in Nat /\ \A v \in 1..Version : madeAt[v] \in Nat
      BY DEF PageInv, PageDataTypeOK, Version
    <2> QED BY <2>1, PageDataAssumption DEF PageInv, PollOK
  <1>3. PageInv => PageDataKept
    BY <1>1, <1>2 DEF PageInv, PageDataKept
  <1> QED BY <1>3, PageInvariant, PTL

\* Side by side each part does what it does alone.
LEMMA PartsApart == PartsSpec => Spec /\ PageDataSpec
  <1>1. PartsInit => Init /\ PageDataInit
    BY DEF PartsInit
  <1>2. [PartsNext]_<<part, vars, pageVars>> => [Next]_vars /\ [PageDataNext]_pageVars
    BY DEF PartsNext
  <1> QED BY <1>1, <1>2, PTL DEF PartsSpec, Spec, PageDataSpec

\* The types of both parts, for any viewers and clients, and any requests, polls
\* and writers outside.
THEOREM PartsTypeCorrect == PartsSpec => []PartsTypeOK
  <1>1. PageInv => PageDataTypeOK
    BY DEF PageInv
  <1>2. TypeOK /\ PageDataTypeOK => PartsTypeOK
    BY DEF PartsTypeOK
  <1> QED BY <1>1, <1>2, PartsApart, TypeCorrect, PageInvariant, PTL

\* What is proved of each part alone holds of the specification the run checks, if
\* no takeControl reaches a dropped stream.
THEOREM PartsSafe ==
    ASSUME ~TakeAfterDrop PROVE PartsSpec => [](OwnerAccounted /\ PageDataKept)
  BY PartsApart, OwnerAccountedCorrect, PageDataKeptCorrect, PTL
=============================================================================
