---------------------------- MODULE PluginDownload ----------------------------
(***************************************************************************)
(* internal/httpapi/plugindownload.go: one download a plugin declares, its *)
(* jobs, and the directories they leave on the disk: .tmp/<name>.new where *)
(* a job unpacks, and <name> where the process looks once `.ready' names   *)
(* the hash the manifest declares.  The owner may remove the download, an  *)
(* update may declare another hash, the panel may restart.                 *)
(*                                                                         *)
(* An archive is two files; fetching, redirects and the checks of archive  *)
(* entries are left out: a transfer arrives whole, or not.                 *)
(***************************************************************************)
EXTENDS Naturals

CONSTANTS
    MaxJobs,       \* bounds `job'
    MaxHash,       \* hashes the manifest declares, one after the other
    MaxRemovals,   \* removals
    MaxPanels,     \* restarts of the panel
    Impatient      \* may the owner remove a download that is being unpacked?

ASSUME DownloadAssumption ==
    {MaxJobs, MaxRemovals, MaxPanels} \subseteq Nat /\ MaxHash \in Nat \ {0} /\ Impatient \in BOOLEAN

VARIABLES
    declared,   \* the hash the installed manifest declares
    jobs,       \* jobs so far
    listed,     \* the job in st.jobs, 0 for none
    job,        \* what each job is at
    staging,    \* .tmp/<name>.new
    assets,     \* <name>
    removal,    \* the owner's request to remove
    removals,   \* removals so far
    panels,     \* restarts of the panel so far
    called,     \* somebody has yet to call ensurePluginDownloads
    found       \* the hash of a download found missing and about to be started, or 0

downloadVars == <<declared, jobs, listed, job, staging, assets, removal, removals, panels, called,
                  found>>
Jobs == 1..MaxJobs
Hashes == 1..MaxHash
Missing == [files |-> {}, marker |-> 0, there |-> FALSE]
Fresh == [at |-> "none", hash |-> 1, cancelled |-> FALSE]
Steps == {"none", "transfers", "arrived", "cut", "unpacks", "half", "marks", "clears", "swaps", "ends",
          "fails", "failed", "over"}

DownloadTypeOK ==
    /\ declared \in Hashes /\ {jobs, listed} \subseteq 0..MaxJobs
    /\ job \in [Jobs -> [at : Steps, hash : Hashes, cancelled : BOOLEAN]]
    /\ {staging, assets} \subseteq
          [files : SUBSET (Hashes \X {"model", "runtime"}), marker : 0..MaxHash, there : BOOLEAN]
    /\ removal \in {"none", "files"} /\ removals \in 0..MaxRemovals /\ panels \in 0..MaxPanels
    /\ called \in BOOLEAN /\ found \in 0..MaxHash

DownloadInit ==
    /\ declared = 1 /\ jobs = 0 /\ listed = 0 /\ staging = Missing /\ assets = Missing
    /\ job = [j \in Jobs |-> Fresh]
    /\ removal = "none" /\ removals = 0 /\ panels = 0 /\ called = FALSE /\ found = 0

Ready == assets.there /\ assets.marker = declared

----------------------------------------------------------------------------
\* ensurePluginDownloads and the card's button look whether it is ready,
LookForMissing ==
    /\ called /\ found = 0
    /\ called' = FALSE /\ found' = IF Ready THEN 0 ELSE declared
    /\ UNCHANGED <<declared, jobs, listed, job, staging, assets, removal, removals, panels>>

\* and, under the lock, whether it runs.
StartDownload ==
    /\ found # 0 /\ found' = 0
    /\ IF listed # 0 /\ job[listed].at # "failed" THEN UNCHANGED <<jobs, listed, job>>
       ELSE /\ jobs < MaxJobs /\ jobs' = jobs + 1 /\ listed' = jobs'
            /\ job' = [job EXCEPT ![jobs'] = [at |-> "transfers", hash |-> found, cancelled |-> FALSE]]
    /\ UNCHANGED <<declared, staging, assets, removal, removals, panels, called>>

\* An update declares another hash; a setting, another plugin: pluginsChanged.
PluginsChanged ==
    /\ ~called /\ called' = TRUE
    /\ declared' \in {declared} \cup (Hashes \cap {declared + 1})
    /\ UNCHANGED <<jobs, listed, job, staging, assets, removal, removals, panels, found>>

Moves(j, from, to) == job[j].at = from /\ job' = [job EXCEPT ![j].at = to]
kept == <<declared, jobs, removal, removals, panels, found>>

Transferred(j) ==
    /\ \/ Moves(j, "transfers", "arrived") /\ ~job[j].cancelled
       \/ Moves(j, "transfers", "cut")
       \/ Moves(j, "transfers", "fails")
    /\ UNCHANGED <<kept, listed, staging, assets, called>>

\* Mutant: what arrived is unpacked whatever its digest.
VerifyNothing(j) ==
    /\ job[j].at \in {"arrived", "cut"}
    /\ job' = [job EXCEPT ![j].at = IF @ = "cut" THEN "marks" ELSE "unpacks"]
    /\ staging' = [Missing EXCEPT !.there = TRUE]
    /\ UNCHANGED <<kept, listed, assets, called>>

\* The digest, and an empty directory to unpack into.
Verify(j) ==
    /\ \/ Moves(j, "cut", "fails") /\ UNCHANGED staging
       \/ Moves(j, "arrived", "unpacks") /\ staging' = [Missing EXCEPT !.there = TRUE]
    /\ UNCHANGED <<kept, listed, assets, called>>

Unpacked(f) == [staging EXCEPT !.there = TRUE, !.files = @ \cup {f}]

\* One file of the archive after the other, wherever the directory is by now.
Unpack(j) ==
    /\ \/ Moves(j, "unpacks", "half") /\ staging' = Unpacked(<<job[j].hash, "model">>)
       \/ Moves(j, "half", "marks") /\ staging' = Unpacked(<<job[j].hash, "runtime">>)
    /\ UNCHANGED <<kept, listed, assets, called>>

WriteMarker(j) ==
    /\ \/ Moves(j, "marks", "clears") /\ staging.there /\ staging' = [staging EXCEPT !.marker = job[j].hash]
       \/ Moves(j, "marks", "fails") /\ ~staging.there /\ UNCHANGED staging
    /\ UNCHANGED <<kept, listed, assets, called>>

ClearAssets(j) ==
    /\ Moves(j, "clears", "swaps") /\ assets' = Missing
    /\ UNCHANGED <<kept, listed, staging, called>>

\* The rename, refused if there is nothing to rename or something in the way.
Swap(j) ==
    /\ \/ /\ Moves(j, "swaps", "ends") /\ staging.there /\ ~assets.there
          /\ assets' = staging /\ staging' = Missing
       \/ Moves(j, "swaps", "fails") /\ (~staging.there \/ assets.there) /\ UNCHANGED <<staging, assets>>
    /\ UNCHANGED <<kept, listed, called>>

\* Mutant: nobody is told of a job that is done.
JobEndsUntold(j) ==
    /\ \/ Moves(j, "ends", "over") /\ listed' = 0
       \/ Moves(j, "fails", IF listed = j THEN "failed" ELSE "over") /\ UNCHANGED listed
    /\ UNCHANGED <<kept, staging, assets, called>>

\* Taken off the list by its name, and pluginsChanged; or failed, and kept on
\* the list if it still is there.
JobEnds(j) ==
    /\ \/ Moves(j, "ends", "over") /\ listed' = 0 /\ called' = TRUE
       \/ Moves(j, "fails", IF listed = j THEN "failed" ELSE "over") /\ UNCHANGED <<listed, called>>
    /\ UNCHANGED <<kept, staging, assets>>

----------------------------------------------------------------------------
Unpacking == \E j \in Jobs : job[j].at \in {"arrived", "unpacks", "half", "marks", "clears", "swaps", "ends"}

\* The job is cancelled, which only a transfer notices, and off the list.
Remove ==
    /\ removal = "none" /\ removals < MaxRemovals /\ removals' = removals + 1
    /\ Impatient \/ ~Unpacking
    /\ removal' = "files" /\ listed' = 0
    /\ job' = IF listed = 0 THEN job
              ELSE IF job[listed].at = "failed" THEN [job EXCEPT ![listed].at = "over"]
              ELSE [job EXCEPT ![listed].cancelled = TRUE]
    /\ UNCHANGED <<declared, jobs, staging, assets, panels, called, found>>

RemoveFiles ==
    /\ removal = "files" /\ removal' = "none"
    /\ assets' = Missing /\ called' = TRUE
    /\ UNCHANGED <<declared, jobs, listed, job, staging, removals, panels, found>>

\* The panel is killed, and starts again: processes are looked at, downloads
\* are not.
PanelRestarts ==
    /\ panels < MaxPanels /\ panels' = panels + 1
    /\ listed' = 0 /\ removal' = "none" /\ called' = FALSE /\ found' = 0
    /\ job' = [j \in Jobs |-> IF j <= jobs THEN [job[j] EXCEPT !.at = "over"] ELSE Fresh]
    /\ UNCHANGED <<declared, jobs, staging, assets, removals>>

----------------------------------------------------------------------------
Downloads(j) ==
    \/ Transferred(j) \/ Verify(j) \/ Unpack(j) \/ WriteMarker(j) \/ ClearAssets(j) \/ Swap(j) \/ JobEnds(j)

DownloadNext ==
    \/ LookForMissing \/ StartDownload \/ PluginsChanged \/ Remove \/ RemoveFiles \/ PanelRestarts
    \/ \E j \in Jobs : Downloads(j)

\* Transfers end, by their timeout at the latest, and jobs go on.
DownloadSpec ==
    /\ DownloadInit /\ [][DownloadNext]_downloadVars
    /\ WF_downloadVars(RemoveFiles) /\ WF_downloadVars(LookForMissing) /\ WF_downloadVars(StartDownload)
    /\ \A j \in Jobs : WF_downloadVars(Downloads(j))

----------------------------------------------------------------------------
\* Where the process looks there is all of the archive of the hash the marker
\* names or no marker, at every moment and after a restart at any moment.
WholeWhenReady ==
    assets.marker # 0 => assets.files = {assets.marker} \X {"model", "runtime"}

\* What was asked for is fetched or says that it failed, whatever became of an
\* older job, until the panel restarts (or the bound on jobs is reached).
CalledIsFetched ==
    called ~> Ready \/ (listed # 0 /\ job[listed].at = "failed") \/ panels = MaxPanels \/ jobs = MaxJobs

\* A job that is over, one way or the other, does not stay on the card as one
\* that runs: its place is free again.
PlaceFreed == \A j \in Jobs : listed = j ~> listed # j \/ job[j].at = "failed"

\* A download comes to an end, and what was asked for meanwhile is not forgotten.
DownloadsEnd == CalledIsFetched /\ PlaceFreed
=============================================================================
