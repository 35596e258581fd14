----------------------------- MODULE UsageIngest -----------------------------
(***************************************************************************)
(* internal/usage/ingest.go and internal/store/usage.go: what the agents   *)
(* have spent, counted from the transcripts they write.  A pass walks the  *)
(* transcripts, reads those whose size and time are not the recorded ones, *)
(* and replaces what each contributes; a request that several transcripts  *)
(* carry is counted for the first to record it.  A transcript that is gone *)
(* is retired: what it counted stays.  A change of the time zone forgets   *)
(* every other transcript and has it read again.                           *)
(*                                                                         *)
(* One agent whose records carry keys is modelled, and a request for what  *)
(* it cost.  The size and time of a file are one stamp, which every write  *)
(* changes: the rewrite to the same size within a second is left out.      *)
(***************************************************************************)
EXTENDS Integers, FiniteSets

CONSTANTS
    Paths,       \* transcripts, numbered in the order of their paths
    Requests,    \* what is counted
    Zones,
    Setters,     \* requests that change the time zone
    Nobody,
    MaxWrites,   \* writes to transcripts
    MaxFailures, \* statements, reads and walks that fail
    Abandons,    \* a transcript may be rewritten without some of its requests
    Unnoticed    \* a transcript may go while it has something uncounted, or
                 \* between the last pass and a change of the time zone

ASSUME UsageAssumption ==
    /\ Paths \subseteq Nat /\ Nobody \notin Paths /\ Zones # {}
    /\ {MaxWrites, MaxFailures} \subseteq Nat /\ {Abandons, Unnoticed} \subseteq BOOLEAN

VARIABLES
    disk,     \* the transcripts
    writes,   \* writes so far
    files,    \* usage_files, with the rows of usage_daily that refer to each
    holder,   \* usage_requests: request -> the transcript that counts it
    zone,     \* the setting
    loc,      \* Scanner.Loc
    running,  \* Ingester.running
    pass,     \* where run is
    setter,   \* where each handlePutTimeZone is
    cutOff,   \* history: a change of the zone has failed halfway
    ever,     \* history: the requests that have been counted
    failed    \* failures so far

usageVars == <<disk, writes, files, holder, zone, loc, running, pass, setter, cutOff, ever, failed>>
agentVars == <<disk, writes>>
tableVars == <<files, holder, ever>>
zoneVars == <<zone, loc, setter, cutOff>>

AnyZone == CHOOSE z \in Zones : TRUE

Unknown == [known |-> FALSE, stamp |-> 0, gone |-> FALSE, problem |-> FALSE, counts |-> {}, labels |-> AnyZone]

\* What a pass holds: the stamps it began with (-1 for none), those it found,
\* the paths it has yet to visit, and of the one it is at what ReadFile found.
Idle == [at |-> "idle", stamps |-> [p \in Paths |-> -1], refs |-> [p \in Paths |-> -1], complete |-> FALSE,
         left |-> {}, path |-> Nobody, stamp |-> 0, problem |-> FALSE, text |-> {}, labels |-> AnyZone]

Away == [at |-> "idle", before |-> AnyZone, name |-> AnyZone]

UsageInit ==
    /\ disk = [p \in Paths |-> [there |-> FALSE, stamp |-> 0, text |-> {}]] /\ writes = 0
    /\ zone = AnyZone /\ loc = zone /\ running = FALSE
    /\ files = [p \in Paths |-> Unknown] /\ holder = [r \in Requests |-> Nobody]
    /\ pass = Idle
    /\ setter = [s \in Setters |-> Away]
    /\ cutOff = FALSE /\ ever = {} /\ failed = 0

Counted(r) == \E p \in Paths : r \in files[p].counts

----------------------------------------------------------------------------
(* The agents.                                                             *)

\* A copied history, a new request, a branch abandoned: the text is replaced.
Write(p, text) ==
    /\ writes < MaxWrites /\ writes' = writes + 1
    /\ text # disk[p].text \/ ~disk[p].there
    /\ Abandons \/ disk[p].text \subseteq text
    /\ disk' = [disk EXCEPT ![p] = [there |-> TRUE, stamp |-> writes', text |-> text]]
    /\ UNCHANGED <<tableVars, zoneVars, running, pass, failed>>

Current(p) ==
    files[p].known /\ ~files[p].gone /\ ~files[p].problem /\ files[p].stamp = disk[p].stamp

\* Claude Code deletes its transcripts after thirty days.
Vanish(p) ==
    /\ disk[p].there
    /\ Unnoticed \/ (Current(p) /\ \A s \in Setters : setter[s].at # "forgets")
    /\ disk' = [disk EXCEPT ![p].there = FALSE]
    /\ UNCHANGED <<writes, tableVars, zoneVars, running, pass, failed>>

----------------------------------------------------------------------------
(* A pass.                                                                 *)

\* On to the next.
Leaves == pass' = [pass EXCEPT !.at = "visits", !.path = Nobody, !.stamp = 0, !.problem = FALSE, !.text = {}, !.labels = AnyZone]

\* The store, a directory or a transcript cannot be read or written, once.
Fails == failed < MaxFailures /\ failed' = failed + 1

\* Every page that shows usage asks, and so does the end of a change of zone.
Ensure ==
    /\ ~running /\ running' = TRUE
    /\ pass' = [Idle EXCEPT !.at = "begins"]
    /\ UNCHANGED <<agentVars, tableVars, zoneVars, failed>>

TakeStamps ==
    /\ pass.at = "begins"
    /\ pass' = [pass EXCEPT !.at = "walks",
                            !.stamps = [p \in Paths |-> IF files[p].known /\ ~files[p].gone THEN files[p].stamp ELSE -1]]
    /\ UNCHANGED <<agentVars, tableVars, zoneVars, running, failed>>

Found(S) == [p \in Paths |-> IF p \in S THEN disk[p].stamp ELSE -1]

Walk ==
    /\ pass.at = "walks"
    /\ LET there == {p \in Paths : disk[p].there}
       IN  pass' = [pass EXCEPT !.at = "visits", !.complete = TRUE, !.refs = Found(there), !.left = there]
    /\ UNCHANGED <<agentVars, tableVars, zoneVars, running, failed>>

\* A directory, or the root, that cannot be read.
WalkFails ==
    /\ pass.at = "walks" /\ Fails
    /\ \E S \in SUBSET {p \in Paths : disk[p].there} :
           pass' = [pass EXCEPT !.at = "visits", !.complete = FALSE, !.refs = Found(S), !.left = S]
    /\ UNCHANGED <<agentVars, tableVars, zoneVars, running>>

\* The next in order; one that has its recorded stamp is passed over.
Visit ==
    /\ pass.at = "visits"
    /\ \E p \in pass.left :
        /\ \A q \in pass.left : p <= q
        /\ pass' = IF pass.refs[p] = pass.stamps[p]
                    THEN [pass EXCEPT !.left = @ \ {p}]
                    ELSE [pass EXCEPT !.left = @ \ {p}, !.at = "stats", !.path = p]
    /\ UNCHANGED <<agentVars, tableVars, zoneVars, running, failed>>

\* ReadFile takes the stamp first: what is appended while it reads leaves the
\* recorded stamp stale, and the file is read again.
Stat ==
    /\ pass.at = "stats"
    /\ pass' = LET there == disk[pass.path].there
               IN  [pass EXCEPT !.at = IF there THEN "reads" ELSE "asks", !.problem = ~there, !.text = {},
                                !.stamp = IF there THEN disk[pass.path].stamp ELSE 0, !.labels = loc]
    /\ UNCHANGED <<agentVars, tableVars, zoneVars, running, failed>>

Read ==
    /\ pass.at = "reads" /\ disk[pass.path].there
    /\ pass' = [pass EXCEPT !.at = "asks", !.text = disk[pass.path].text]
    /\ UNCHANGED <<agentVars, tableVars, zoneVars, running, failed>>

\* What was counted of it is replaced by nothing, and its stamp is recorded.
ReadFails ==
    /\ pass.at = "reads"
    /\ IF disk[pass.path].there THEN Fails ELSE UNCHANGED failed
    /\ pass' = [pass EXCEPT !.at = "asks", !.problem = TRUE]
    /\ UNCHANGED <<agentVars, tableVars, zoneVars, running>>

\* Mutant: a transcript that is gone holds nothing.
HeldByLiving(p, r) == holder[r] \notin {p, Nobody} /\ ~files[holder[r]].gone

\* UsageKeysHeldElsewhere.
HeldElsewhere(p, r) == holder[r] \notin {p, Nobody}

AskHeld ==
    /\ pass.at = "asks"
    /\ pass' = [pass EXCEPT !.at = "replaces", !.text = {r \in @ : ~HeldElsewhere(pass.path, r)}]
    /\ UNCHANGED <<agentVars, tableVars, zoneVars, running, failed>>

\* ReplaceUsageFile, in one transaction; INSERT OR IGNORE of the keys.
Replace ==
    /\ pass.at = "replaces" /\ Leaves
    /\ files' = [files EXCEPT ![pass.path] =
                    [known |-> TRUE, stamp |-> pass.stamp, gone |-> FALSE, problem |-> pass.problem,
                     counts |-> pass.text, labels |-> pass.labels]]
    /\ holder' = [r \in Requests |-> IF holder[r] \in {pass.path, Nobody}
                                     THEN IF r \in pass.text THEN pass.path ELSE Nobody
                                     ELSE holder[r]]
    /\ ever' = ever \cup pass.text
    /\ UNCHANGED <<agentVars, zoneVars, running, failed>>

\* Those it began with and has not found, if it has seen the whole root.
Retire ==
    /\ pass.at = "visits" /\ pass.left = {}
    /\ files' = [p \in Paths |-> IF pass.complete /\ pass.stamps[p] # -1 /\ pass.refs[p] = -1
                                 THEN [files[p] EXCEPT !.gone = TRUE] ELSE files[p]]
    /\ pass' = Idle /\ running' = FALSE
    /\ UNCHANGED <<agentVars, holder, ever, zoneVars, failed>>

\* The stamps cannot be had, or the retiring fails: the pass is over.  A file
\* whose keys cannot be looked up or whose rows cannot be written is left as it
\* was.
StoreFails ==
    /\ Fails
    /\ \/ (pass.at = "begins" \/ (pass.at = "visits" /\ pass.left = {})) /\ pass' = Idle /\ running' = FALSE
       \/ pass.at \in {"asks", "replaces"} /\ Leaves /\ UNCHANGED running
    /\ UNCHANGED <<agentVars, tableVars, zoneVars>>

----------------------------------------------------------------------------
(* A change of the time zone (handlePutTimeZone, Rezone).                  *)

At(s, from) == setter[s].at = from

Asked(s, name) ==
    /\ At(s, "idle") /\ setter' = [setter EXCEPT ![s] = [at |-> "sets", before |-> zone, name |-> name]]
    /\ UNCHANGED <<agentVars, tableVars, zone, loc, cutOff, running, pass, failed>>

SetZone(s) ==
    /\ At(s, "sets") /\ zone' = setter[s].name
    /\ setter' = [setter EXCEPT ![s] = IF @.before = @.name THEN Away ELSE [@ EXCEPT !.at = "waits"]]
    /\ UNCHANGED <<agentVars, tableVars, loc, cutOff, running, pass, failed>>

\* Gone since the last pass looked: not retired yet.
GoneUnnoticed == \E p \in Paths : files[p].known /\ ~files[p].gone /\ ~disk[p].there

\* It waits for the pass that is walking, and lets none begin.
Rezone(s) ==
    /\ At(s, "waits") /\ setter' = [setter EXCEPT ![s].at = "forgets"]
    /\ Unnoticed \/ ~GoneUnnoticed
    /\ ~running /\ running' = TRUE /\ loc' = setter[s].name
    /\ UNCHANGED <<agentVars, tableVars, zone, cutOff, pass, failed>>

\* ForgetEveryUsageFile: all but the retired, rows and requests with them.
Forget(s) ==
    /\ At(s, "forgets") /\ setter' = [setter EXCEPT ![s] = Away] /\ running' = FALSE
    /\ files' = [p \in Paths |-> IF files[p].gone THEN files[p] ELSE Unknown]
    /\ holder' = [r \in Requests |-> IF holder[r] # Nobody /\ files[holder[r]].gone THEN holder[r] ELSE Nobody]
    /\ UNCHANGED <<agentVars, ever, zone, loc, cutOff, pass, failed>>

\* The setting and the scanner have the new zone, the rows the old.
ForgetFails(s) ==
    /\ At(s, "forgets") /\ setter' = [setter EXCEPT ![s] = Away] /\ running' = FALSE
    /\ Fails /\ cutOff' = TRUE
    /\ UNCHANGED <<agentVars, tableVars, zone, loc, pass>>

\* The scanner begins in the zone of the setting.
UsageRestarts ==
    /\ Fails /\ pass' = Idle /\ running' = FALSE /\ loc' = zone
    /\ cutOff' = (cutOff \/ \E s \in Setters : setter[s].at \in {"waits", "forgets"})
    /\ setter' = [s \in Setters |-> Away]
    /\ UNCHANGED <<agentVars, tableVars, zone>>

----------------------------------------------------------------------------
Passes == TakeStamps \/ Walk \/ Visit \/ Stat \/ Read \/ AskHeld \/ Replace \/ Retire

Rezones(s) == SetZone(s) \/ Rezone(s) \/ Forget(s)

UsageNext ==
    \/ \E p \in Paths : Vanish(p) \/ \E text \in SUBSET Requests : Write(p, text)
    \/ Ensure \/ Passes \/ WalkFails \/ ReadFails \/ StoreFails \/ UsageRestarts
    \/ \E s \in Setters : Rezones(s) \/ ForgetFails(s) \/ \E z \in Zones : Asked(s, z)

UsageSpec == UsageInit /\ [][UsageNext]_usageVars

----------------------------------------------------------------------------
UsageTypeOK ==
    /\ disk \in [Paths -> [there : BOOLEAN, stamp : 0..MaxWrites, text : SUBSET Requests]] /\ writes \in 0..MaxWrites
    /\ files \in [Paths -> [known : BOOLEAN, stamp : 0..MaxWrites, gone : BOOLEAN, problem : BOOLEAN,
                            counts : SUBSET Requests, labels : Zones]]
    /\ holder \in [Requests -> Paths \cup {Nobody}]
    /\ \A r \in Requests : holder[r] # Nobody => r \in files[holder[r]].counts \* REFERENCES usage_files
    /\ {zone, loc} \subseteq Zones /\ {running, cutOff} \subseteq BOOLEAN
    /\ setter \in [Setters -> [at : {"idle", "sets", "waits", "forgets"}, before : Zones, name : Zones]]
    /\ pass.at \in {"idle", "begins", "walks", "visits", "stats", "reads", "asks", "replaces"}
    /\ pass.left \subseteq Paths /\ pass.path \in Paths \cup {Nobody} /\ pass.text \subseteq Requests
    /\ pass.at # "idle" => running
    /\ ever \subseteq Requests /\ failed \in 0..MaxFailures

\* "One request, one count, however many transcripts carry it": whatever is
\* copied, retired, forgotten or cut off between two writes.
CountedOnce ==
    \A r \in Requests : \A p, q \in Paths : r \in files[p].counts \cap files[q].counts => p = q

\* "The zone and the cursor are one change": what is current by its stamp is
\* labelled in the zone the queries ask in, once no change is under way, unless
\* one has been cut off.
LabelsInZone ==
    (\A s \in Setters : setter[s].at \in {"idle", "sets"}) /\ ~cutOff =>
        loc = zone /\ \A p \in Paths : files[p].known /\ ~files[p].gone => files[p].labels = zone

\* What has been counted stays counted, or is in a transcript that can be read
\* again (the comments on RetireUsageFiles and ForgetEveryUsageFile).
NumbersKept == \A r \in ever : Counted(r) \/ \E p \in Paths : disk[p].there /\ r \in disk[p].text

\* What a pass would pass over has been counted: when every transcript on disk
\* has its stamp recorded, whatever was appended while it was read, and whoever
\* else carries the same request, each of its requests is counted, unless a
\* transcript that has it is recorded as one that could not be read.
AllCounted ==
    \A p \in Paths : disk[p].there /\ ~files[p].problem => \A r \in disk[p].text :
        \/ Counted(r)
        \/ \E q \in Paths : disk[q].there /\ files[q].stamp # disk[q].stamp
        \/ \E q \in Paths : files[q].problem /\ r \in disk[q].text

\* Every request is counted once, neither twice nor not at all, and a change of
\* zone is whole: no number lost, no row left in the old zone.
UsageExact == CountedOnce /\ AllCounted /\ LabelsInZone /\ NumbersKept
=============================================================================
