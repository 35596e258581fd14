------------------------------ MODULE GitCache ------------------------------
(***************************************************************************)
(* internal/git/cache.go and internal/git/warm.go: what is known of one    *)
(* working tree.  A tab asks and waits: an answer less than TTL old is the *)
(* answer, a read that is going on is everybody's, and anything else is a  *)
(* new read.  A wall asks and never waits: it is given what there is, and  *)
(* what is old is read again behind it.                                    *)
(*                                                                         *)
(* A tree is the number of the last change to it.  Of the entries of other *)
(* directories only the sweep matters that asking about them brings.       *)
(***************************************************************************)
EXTENDS Integers, Sequences

CONSTANTS
    Callers,      \* requests that wait for an answer
    TTL,          \* CacheTTL
    CacheIdle,    \* cacheIdle
    WarmTTL,      \* WarmTTL, GitHubTTL
    WarmIdle,     \* warmIdle
    ReadTime,     \* the longest a read takes, within runTimeout
    MaxClock,     \* the time that passes
    MaxTree,      \* changes to the tree
    MaxReads      \* reads of each kind

ASSUME CacheAssumption ==
    {TTL, CacheIdle, WarmTTL, WarmIdle, ReadTime, MaxClock, MaxTree, MaxReads} \subseteq Nat /\ WarmTTL <= WarmIdle

VARIABLES
    now,
    changes,    \* history: when each change to the tree was made
    reads,      \* every cacheEntry there has been, in the order they were made
    current,    \* the one in the map, 0 for none
    caller,     \* where each call of once is
    warmed,     \* the warmEntry
    refreshes,  \* every refresh there has been
    shown       \* history: the newest tree a wall has been shown

treeVars == <<now, changes>>
readVars == <<reads, current, caller>>
warmVars == <<warmed, refreshes, shown>>
cacheVars == <<now, changes, reads, current, caller, warmed, refreshes, shown>>

Never == -1
Failed == -1
Tree == Len(changes)

\* A read: when it began, what it found, when it ended.
Reading == [began |-> now, val |-> Failed, looked |-> FALSE, ended |-> Never]
InFlight(r) == r.ended = Never

Out == [at |-> "out", on |-> 0, asked |-> 0]
NoWarm == [there |-> FALSE, val |-> Failed, at |-> Never, refreshing |-> FALSE, asked |-> 0, tried |-> Never]

CacheInit ==
    /\ now = 0 /\ changes = <<>>
    /\ reads = <<>> /\ current = 0 /\ caller = [c \in Callers |-> Out]
    /\ warmed = NoWarm /\ refreshes = <<>> /\ shown = 0

----------------------------------------------------------------------------
\* An agent commits, or writes a file.
TreeChanges ==
    /\ Tree < MaxTree /\ changes' = changes \o <<now>>
    /\ UNCHANGED <<now, readVars, warmVars>>

\* git's own limit ends what goes on too long.
TimePasses ==
    /\ now < MaxClock /\ now' = now + 1
    /\ \A i \in DOMAIN reads : InFlight(reads[i]) => now - reads[i].began < ReadTime
    /\ \A i \in DOMAIN refreshes : InFlight(refreshes[i]) => now - refreshes[i].began < ReadTime
    /\ UNCHANGED <<changes, readVars, warmVars>>

----------------------------------------------------------------------------
(* cache.go *)

Recent == current # 0 /\ ~InFlight(reads[current]) /\ now - reads[current].ended < TTL
GoingOn == current # 0 /\ InFlight(reads[current])

\* A caller that is answered is out again and knows what it was told.
Told(c, r) == caller' = [caller EXCEPT ![c] = [at |-> "told", on |-> r, asked |-> @.asked]]

Asks(c) == caller[c].at \in {"out", "told"}

AnswerAtOnce(c) ==
    /\ Asks(c) /\ Recent
    /\ caller' = [caller EXCEPT ![c] = [at |-> "told", on |-> current, asked |-> now]]
    /\ UNCHANGED <<treeVars, reads, current, warmVars>>

JoinRead(c) ==
    /\ Asks(c) /\ GoingOn
    /\ caller' = [caller EXCEPT ![c] = [at |-> "waits", on |-> current, asked |-> now]]
    /\ UNCHANGED <<treeVars, reads, current, warmVars>>

NewRead(c) ==
    /\ Len(reads) < MaxReads
    /\ reads' = reads \o <<Reading>> /\ current' = Len(reads) + 1
    /\ caller' = [caller EXCEPT ![c] = [at |-> "reads", on |-> Len(reads) + 1, asked |-> now]]
    /\ UNCHANGED <<treeVars, warmVars>>

\* Mutant: a time to live and no single flight.
LeadUnlessRecent(c) == Asks(c) /\ ~Recent /\ NewRead(c)

Lead(c) == Asks(c) /\ ~Recent /\ ~GoingOn /\ NewRead(c)

\* fn, on a context that does not end with the caller's request.
Look(c) ==
    /\ caller[c].at = "reads" /\ ~reads[caller[c].on].looked
    /\ \E v \in {Tree, Failed} : reads' = [reads EXCEPT ![caller[c].on] = [@ EXCEPT !.looked = TRUE, !.val = v]]
    /\ UNCHANGED <<treeVars, current, caller, warmVars>>

Publish(c) ==
    /\ caller[c].at = "reads" /\ reads[caller[c].on].looked
    /\ reads' = [reads EXCEPT ![caller[c].on].ended = now]
    /\ Told(c, caller[c].on)
    /\ UNCHANGED <<treeVars, current, warmVars>>

Wake(c) ==
    /\ caller[c].at = "waits" /\ ~InFlight(reads[caller[c].on])
    /\ Told(c, caller[c].on)
    /\ UNCHANGED <<treeVars, reads, current, warmVars>>

\* The tab is closed: the one that waits goes, the one that reads reads on.
GiveUp(c) ==
    /\ caller[c].at = "waits" /\ caller' = [caller EXCEPT ![c] = Out]
    /\ UNCHANGED <<treeVars, reads, current, warmVars>>

\* sweepLocked, when somebody asks about another directory.
Sweep ==
    /\ current # 0 /\ ~InFlight(reads[current]) /\ now - reads[current].ended > CacheIdle + TTL
    /\ current' = 0
    /\ UNCHANGED <<treeVars, reads, caller, warmVars>>

----------------------------------------------------------------------------
(* warm.go *)

Stale(e) == e.at = Never \/ now - e.at >= WarmTTL
MayTry(e) == ~e.refreshing /\ (e.tried = Never \/ now - e.tried >= WarmTTL)

\* What sweepWarmLocked drops.
Unasked == warmed.there /\ ~warmed.refreshing /\ now - warmed.asked > WarmIdle

\* A wall asks; it is shown what there is.
Poll ==
    LET kept == IF Unasked THEN NoWarm ELSE warmed
        e == [kept EXCEPT !.there = TRUE, !.asked = now]
    IN
    /\ shown' = IF e.at = Never THEN shown ELSE e.val
    /\ IF Stale(e) /\ MayTry(e)
       THEN /\ Len(refreshes) < MaxReads /\ refreshes' = refreshes \o <<Reading>>
            /\ warmed' = [e EXCEPT !.refreshing = TRUE, !.tried = now]
       ELSE warmed' = e /\ UNCHANGED refreshes
    /\ UNCHANGED <<treeVars, readVars>>

RefreshLooks(i) ==
    /\ ~refreshes[i].looked
    /\ \E v \in {Tree, Failed} : refreshes' = [refreshes EXCEPT ![i] = [@ EXCEPT !.looked = TRUE, !.val = v]]
    /\ UNCHANGED <<treeVars, readVars, warmed, shown>>

\* A failure leaves the last answer, and its age, as they are.
RefreshEnds(i) ==
    /\ InFlight(refreshes[i]) /\ refreshes[i].looked
    /\ refreshes' = [refreshes EXCEPT ![i].ended = now]
    /\ warmed' = IF refreshes[i].val = Failed THEN [warmed EXCEPT !.refreshing = FALSE]
                 ELSE [warmed EXCEPT !.refreshing = FALSE, !.val = refreshes[i].val, !.at = now]
    /\ UNCHANGED <<treeVars, readVars, shown>>

\* sweepWarmLocked, when somebody asks about another key.
SweepWarm ==
    /\ Unasked /\ warmed' = NoWarm
    /\ UNCHANGED <<treeVars, readVars, refreshes, shown>>

----------------------------------------------------------------------------
Once(c) ==
    AnswerAtOnce(c) \/ JoinRead(c) \/ Lead(c) \/ Look(c) \/ Publish(c) \/ Wake(c) \/ GiveUp(c)

\* What tabs do and what walls do: they share the lock and nothing under it.
ReadsNext == TreeChanges \/ TimePasses \/ Sweep \/ \E c \in Callers : Once(c)
WarmNext == TreeChanges \/ TimePasses \/ Poll \/ SweepWarm \/ \E i \in DOMAIN refreshes : RefreshLooks(i) \/ RefreshEnds(i)

CacheSpec == CacheInit /\ [][ReadsNext \/ WarmNext]_cacheVars

----------------------------------------------------------------------------
Time == 0..MaxClock
AnyRead ==
    [began: Time, val: 0..MaxTree \cup {Failed}, looked: BOOLEAN, ended: Time \cup {Never}]

CacheTypeOK ==
    /\ now \in Time /\ DOMAIN changes \subseteq 1..MaxTree /\ current \in 0..MaxReads /\ shown \in 0..MaxTree
    /\ \A i \in DOMAIN reads : reads[i] \in AnyRead
    /\ \A i \in DOMAIN refreshes : refreshes[i] \in AnyRead
    /\ caller \in [Callers -> [at: {"out", "waits", "reads", "told"}, on: 0..MaxReads, asked: Time]]
    /\ warmed \in [there: BOOLEAN, val: 0..MaxTree \cup {Failed}, at: Time \cup {Never}, refreshing: BOOLEAN,
                   asked: Time, tried: Time \cup {Never}]

\* At most one read of a tree is going on, however many have it open (once).
OneReadAtATime == \A i, j \in DOMAIN reads : InFlight(reads[i]) /\ InFlight(reads[j]) => i = j

\* What a caller is told had been the tree's state no longer ago than a read and
\* the time to live take together: whoever else's read it was, and however often
\* its entry was swept or replaced in between.
AnswersRecent ==
    \A c \in Callers :
        LET v == reads[caller[c].on].val IN
        caller[c].at = "told" /\ v # Failed /\ v < Tree => changes[v + 1] >= caller[c].asked - TTL - ReadTime

\* A wall never starts two refreshes within the time to live, whether they
\* succeed or fail and whatever is swept (warm: the fork per poll).
RefreshesSpaced ==
    \A i, j \in DOMAIN refreshes : i < j => refreshes[j].began - refreshes[i].began >= WarmTTL

\* A wall is not shown an older state after a newer one, and what it has is not
\* replaced by a failure.
WallGoesForward == warmed.at # Never => warmed.val >= shown

\* A working tree is read once for everybody who asks, and no more often than
\* its time to live, and nobody is told of a state older than that.
ReadsShared == OneReadAtATime /\ AnswersRecent /\ RefreshesSpaced /\ WallGoesForward
=============================================================================
