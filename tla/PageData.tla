------------------------------- MODULE PageData -------------------------------
(***************************************************************************)
(* internal/httpapi/pagedata.go: one counter of one share page.  Requests  *)
(* change it by reading the row and writing it back, one at a time; the    *)
(* command line writes the same row from a process of its own; walls poll  *)
(* it through a cache that a revision or its age makes void.               *)
(*                                                                         *)
(* The versions of the row are 1, 2, ... as it is written, madeAt[v] the   *)
(* time at which v was.  A row is read within QueryTime: that is how fast   *)
(* the store is taken to be.                                               *)
(***************************************************************************)
EXTENDS Naturals, Sequences

CONSTANTS
    Posters,     \* requests of the panel that change the row, again and again
    Outsiders,   \* processes of the command line
    Readers,     \* polls
    RowsTTL, QueryTime, MaxVersions, MaxPageTime

NoWriter == "nobody"

ASSUME PageDataAssumption ==
    /\ {QueryTime, MaxVersions, MaxPageTime} \subseteq Nat /\ RowsTTL \in Nat \ {0}
    /\ Posters \cap Outsiders = {} /\ NoWriter \notin Posters

VARIABLES
    count,       \* the counter as stored
    madeAt,      \* per version of the row: when it was written
    pageTime,
    writer,      \* who holds writeMu
    change,      \* per changer: where its request is
    saw,         \* per changer: the counter it read
    ownVersion,  \* per changer: the version it wrote
    rev,         \* the page's revision
    cache,       \* the cached rows: revision, age and the version they are of
    poll,        \* per reader: where its request is
    pollRev,     \* per reader: the revision it found
    queried,     \* per reader: when it read the row
    got,         \* per reader: the version of the rows it has
    \* History.
    due,         \* what the counter should be
    crossed,     \* somebody wrote between another's reading and writing
    answered,    \* the newest version whose request has been answered
    owed,        \* per reader: answered, when its poll began
    began        \* per reader: when its poll began

storeVars == <<count, madeAt, due, crossed>>
changeVars == <<writer, change, saw, ownVersion>>
pollVars == <<cache, poll, pollRev, queried, got, owed, began>>
pageVars == <<storeVars, pageTime, changeVars, rev, answered, pollVars>>

Everybody == Posters \cup Outsiders
NoCache == [rev |-> 0, at |-> 0, version |-> 0, held |-> FALSE]
Version == Len(madeAt)

PageDataTypeOK ==
    /\ count \in Nat /\ due \in Nat /\ crossed \in BOOLEAN
    /\ madeAt \in Seq(Nat) /\ pageTime \in Nat /\ rev \in Nat /\ answered \in Nat
    /\ writer \in {NoWriter} \cup Posters
    /\ change \in [Everybody -> {"idle", "reads", "clears", "writes", "frees", "bumps"}]
    /\ saw \in [Everybody -> Nat] /\ ownVersion \in [Posters -> Nat]
    /\ cache \in [rev : Nat, at : Nat, version : Nat, held : BOOLEAN]
    /\ poll \in [Readers -> {"idle", "queries", "stores", "answered"}]
    /\ pollRev \in [Readers -> Nat] /\ queried \in [Readers -> Nat]
    /\ got \in [Readers -> Nat] /\ owed \in [Readers -> Nat] /\ began \in [Readers -> Nat]

PageDataInit ==
    /\ count = 0 /\ due = 0 /\ crossed = FALSE
    /\ madeAt = <<>> /\ pageTime = 0 /\ rev = 0 /\ answered = 0
    /\ writer = NoWriter
    /\ change = [c \in Everybody |-> "idle"]
    /\ saw = [c \in Everybody |-> 0] /\ ownVersion = [c \in Posters |-> 0]
    /\ cache = NoCache
    /\ poll = [r \in Readers |-> "idle"]
    /\ pollRev = [r \in Readers |-> 0] /\ queried = [r \in Readers |-> 0]
    /\ got = [r \in Readers |-> 0] /\ owed = [r \in Readers |-> 0] /\ began = [r \in Readers |-> 0]

----------------------------------------------------------------------------
(* applyPageData and handleClearPageData.                                  *)

ReadAndNotWritten == {c \in Everybody : change[c] = "writes"}

\* The row is written, and everybody who has read it and not yet written it
\* will overwrite this.
Stores(c, value, should) ==
    /\ Version < MaxVersions
    /\ count' = value /\ due' = should
    /\ madeAt' = Append(madeAt, pageTime)
    /\ crossed' = (crossed \/ ReadAndNotWritten \ {c} # {})

\* A request takes writeMu: to change the counter or to clear the page.
Locks(c) ==
    /\ change[c] = "idle" /\ writer = NoWriter
    /\ writer' = c
    /\ \E at \in {"reads", "clears"} : change' = [change EXCEPT ![c] = at]
    /\ UNCHANGED <<storeVars, pageTime, saw, ownVersion, rev, answered, pollVars>>

\* Mutant: the row is read before writeMu is asked for.
ReadsUnlocked(c) ==
    /\ change[c] \in {"idle", "reads"} /\ writer \in {NoWriter, c}
    /\ writer' = NoWriter
    /\ saw' = [saw EXCEPT ![c] = count]
    /\ change' = [change EXCEPT ![c] = "writes"]
    /\ UNCHANGED <<storeVars, pageTime, ownVersion, rev, answered, pollVars>>

ReadsRow(c) ==
    /\ change[c] = "reads"
    /\ saw' = [saw EXCEPT ![c] = count]
    /\ change' = [change EXCEPT ![c] = "writes"]
    /\ UNCHANGED <<storeVars, pageTime, writer, ownVersion, rev, answered, pollVars>>

\* The change is refused, or the store fails: nothing is written.
Refused(c) ==
    /\ c \in Posters /\ change[c] \in {"reads", "writes", "clears"}
    /\ change' = [change EXCEPT ![c] = "idle"] /\ saw' = [saw EXCEPT ![c] = 0]
    /\ writer' = NoWriter
    /\ UNCHANGED <<storeVars, pageTime, ownVersion, rev, answered, pollVars>>

\* The counter goes up by one, or is reset.
WritesRow(c) ==
    /\ c \in Posters /\ change[c] = "writes"
    /\ \/ Stores(c, saw[c] + 1, due + 1)
       \/ Stores(c, 0, 0)
    /\ ownVersion' = [ownVersion EXCEPT ![c] = Version + 1]
    /\ change' = [change EXCEPT ![c] = "bumps"] /\ saw' = [saw EXCEPT ![c] = 0]
    /\ UNCHANGED <<pageTime, writer, rev, answered, pollVars>>

\* The page is cleared, writeMu given up, and only then the revision bumped.
Clears(c) ==
    /\ change[c] = "clears"
    /\ Stores(c, 0, 0)
    /\ ownVersion' = [ownVersion EXCEPT ![c] = Version + 1]
    /\ change' = [change EXCEPT ![c] = "frees"]
    /\ UNCHANGED <<pageTime, writer, saw, rev, answered, pollVars>>

Frees(c) ==
    /\ change[c] = "frees"
    /\ writer' = NoWriter
    /\ change' = [change EXCEPT ![c] = "bumps"]
    /\ UNCHANGED <<storeVars, pageTime, saw, ownVersion, rev, answered, pollVars>>

\* bumpPageData, and the request is answered.
Bumps(c) ==
    /\ c \in Posters /\ change[c] = "bumps"
    /\ rev' = rev + 1
    /\ answered' = IF ownVersion[c] > answered THEN ownVersion[c] ELSE answered
    /\ writer' = IF writer = c THEN NoWriter ELSE writer
    /\ change' = [change EXCEPT ![c] = "idle"] /\ ownVersion' = [ownVersion EXCEPT ![c] = 0]
    /\ UNCHANGED <<storeVars, pageTime, saw, pollVars>>

\* The command line: the same steps under a mutex of its own, with nothing to
\* bump, or a write of what it was given.
OutsideReads(c) ==
    /\ c \in Outsiders /\ change[c] = "idle"
    /\ saw' = [saw EXCEPT ![c] = count]
    /\ change' = [change EXCEPT ![c] = "writes"]
    /\ UNCHANGED <<storeVars, pageTime, writer, ownVersion, rev, answered, pollVars>>

OutsideWrites(c) ==
    /\ c \in Outsiders
    /\ \/ change[c] = "writes" /\ Stores(c, saw[c] + 1, due + 1)
       \/ change[c] = "idle" /\ Stores(c, 0, 0)
    /\ change' = [change EXCEPT ![c] = "idle"] /\ saw' = [saw EXCEPT ![c] = 0]
    /\ UNCHANGED <<pageTime, writer, ownVersion, rev, answered, pollVars>>

----------------------------------------------------------------------------
(* pageDataRows.                                                           *)

Hit == cache.held /\ cache.rev = rev /\ pageTime - cache.at < RowsTTL

\* The poll looks at the cache.
LooksInCache(r) ==
    /\ poll[r] \in {"idle", "answered"}
    /\ owed' = [owed EXCEPT ![r] = answered]
    /\ began' = [began EXCEPT ![r] = pageTime]
    /\ pollRev' = [pollRev EXCEPT ![r] = IF Hit THEN 0 ELSE rev]
    /\ poll' = [poll EXCEPT ![r] = IF Hit THEN "answered" ELSE "queries"]
    /\ got' = [got EXCEPT ![r] = IF Hit THEN cache.version ELSE @]
    /\ UNCHANGED <<storeVars, pageTime, changeVars, rev, answered, cache, queried>>

Queries(r) ==
    /\ poll[r] = "queries"
    /\ got' = [got EXCEPT ![r] = Version]
    /\ queried' = [queried EXCEPT ![r] = pageTime]
    /\ poll' = [poll EXCEPT ![r] = "stores"]
    /\ UNCHANGED <<storeVars, pageTime, changeVars, rev, answered, cache, pollRev, owed, began>>

\* The rows are cached, unless the revision has moved on since it was looked at.
Caches(r) ==
    /\ poll[r] = "stores"
    /\ cache' = IF rev = pollRev[r] THEN [rev |-> rev, at |-> pageTime, version |-> got[r], held |-> TRUE]
                ELSE cache
    /\ poll' = [poll EXCEPT ![r] = "answered"]
    /\ pollRev' = [pollRev EXCEPT ![r] = 0] /\ queried' = [queried EXCEPT ![r] = 0]
    /\ UNCHANGED <<storeVars, pageTime, changeVars, rev, answered, got, owed, began>>

\* Other pages have filled the cache, and it is begun anew.
CacheEmptied ==
    /\ cache.held /\ cache' = NoCache
    /\ UNCHANGED <<storeVars, pageTime, changeVars, rev, answered, poll, pollRev, queried, got, owed, began>>

\* Time passes, but a row that is being read does not take longer than QueryTime.
ClockTicks ==
    /\ pageTime < MaxPageTime
    /\ \A r \in Readers : poll[r] = "stores" => pageTime < queried[r] + QueryTime
    /\ pageTime' = pageTime + 1
    /\ UNCHANGED <<storeVars, changeVars, rev, answered, pollVars>>

----------------------------------------------------------------------------
PageDataNext ==
    \/ \E c \in Posters :
          Locks(c) \/ ReadsRow(c) \/ Refused(c) \/ WritesRow(c) \/ Clears(c) \/ Frees(c) \/ Bumps(c)
    \/ \E c \in Outsiders : OutsideReads(c) \/ OutsideWrites(c)
    \/ \E r \in Readers : LooksInCache(r) \/ Queries(r) \/ Caches(r)
    \/ CacheEmptied \/ ClockTicks

PageDataSpec == PageDataInit /\ [][PageDataNext]_pageVars

----------------------------------------------------------------------------
\* No increment is lost and none undoes a reset: the counter is what the changes
\* make of it one after another, unless the command line wrote in the middle of
\* a request's change or the other way round.
CountExact == crossed \/ count = due

\* Only a crossing with the command line can lose a change: requests of the
\* panel never read what another is about to overwrite.
OneChangeAtATime ==
    \A c, d \in Posters : change[c] = "writes" /\ change[d] \in {"reads", "writes", "clears"} => c = d

\* A poll shows every change whose request was answered before it began.
ShowsAnswered == \A r \in Readers : poll[r] = "answered" => got[r] >= owed[r]

\* And every change, whoever made it, that is older than a cached read may be:
\* the time to live and the time of a read.
ShowsRecent ==
    \A r \in Readers : poll[r] = "answered" =>
        \A v \in 1..Version : madeAt[v] + RowsTTL + QueryTime <= began[r] => v <= got[r]

PageDataKept == CountExact /\ OneChangeAtATime /\ ShowsAnswered /\ ShowsRecent
=============================================================================
