----------------------------- MODULE SessionLife -----------------------------
(***************************************************************************)
(* One session's tmux pane, its row, its archived screen and the file a    *)
(* restored pane prints, as httpapi creates, restarts, restores, archives, *)
(* reconciles and deletes them.  tmux and the database are two stores and  *)
(* nothing spans them: each call is a step of its own, any of them can     *)
(* fail, and the panel or the machine can stop between any two.            *)
(*                                                                         *)
(* A screen is the set of the processes ("lives") whose output it shows.   *)
(* The environment takes at most MaxTrouble steps, of at most MaxLives     *)
(* processes.  UPDATEs of a row that is gone change nothing, as in SQL.    *)
(***************************************************************************)
EXTENDS Naturals, FiniteSets

CONSTANTS Requests,     \* handlers that may run at once
          MaxLives, MaxTrouble

ASSUME LifeAssumption == MaxLives \in Nat \ {0} /\ MaxTrouble \in Nat

VARIABLES
    panel,      \* the panel: stopped, starting (Reconcile, then the flagged), serving
    trouble,    \* steps of the environment still to come
    lives,      \* processes started so far
    pane,       \* the tmux session under the row's name
    row,        \* its row
    archive,    \* its session_scrollback, empty if none
    file,       \* <id>.scrollback in the restore directory
    work,       \* each request's place in its handler
    look,       \* the poller's, or Reconcile's, list and row
    shot,       \* a capture the archiver has taken and not stored
    promised,   \* what was archived last and nothing outside the panel removed
    excused     \* the panel stopped, or a best-effort kill failed

lifeVars == <<panel, trouble, lives, pane, row, archive, file, work, look, shot,
              promised, excused>>

Screens == SUBSET (1..MaxLives)
NoFile == {0}
NoPane == [up |-> FALSE]
Pane(l, prints, screen) == [up |-> TRUE, life |-> l, dead |-> FALSE, prints |-> prints,
                            screen |-> screen]
Panes == {NoPane} \cup [up : {TRUE}, life : 1..MaxLives, dead : BOOLEAN, prints : BOOLEAN,
                        screen : Screens]
NoRow == [kept |-> FALSE, exit |-> "no", flagged |-> FALSE]
Row(x, f) == [kept |-> TRUE, exit |-> x, flagged |-> f]
Rows == {NoRow} \cup [kept : {TRUE}, exit : {"no", "yes", "vanished"}, flagged : BOOLEAN]
Idle == [at |-> "idle"]
At(l) == [at |-> l]
Boot == "boot"           \* RestoreFlagged, which restores before anything is served
Actors == Requests \cup {Boot}
Places == {"idle", "created", "cleanup", "delete", "killed", "restart", "dead", "blind",
           "respawned", "restore", "absent", "made", "dropped"}

LifeTypeOK ==
    /\ panel \in {"stopped", "starting", "flagged", "serving"}
    /\ trouble \in 0..MaxTrouble
    /\ lives \in 0..MaxLives
    /\ pane \in Panes
    /\ row \in Rows
    /\ archive \in Screens
    /\ file \in Screens \cup {NoFile}
    /\ work \in [Actors -> [at : Places] \cup [at : {"read"}, screen : Screens]]
    /\ look \in {Idle} \cup [at : {"listed"}, pane : Panes] \cup [at : {"read"}, pane : Panes, row : Rows]
    /\ shot \in Screens
    /\ promised \in Screens
    /\ excused \in BOOLEAN

LifeInit ==
    /\ panel = "serving" /\ trouble = MaxTrouble /\ lives = 0
    /\ pane = NoPane /\ row = NoRow
    /\ archive = {} /\ file = NoFile
    /\ work = [a \in Actors |-> Idle] /\ look = Idle /\ shot = {}
    /\ promised = {} /\ excused = FALSE

----------------------------------------------------------------------------
Trouble == trouble > 0 /\ trouble' = trouble - 1
Goes(a, from, to) == work[a].at = from /\ work' = [work EXCEPT ![a] = to]
\* Nothing is served or polled before Reconcile has returned.
Serving == panel = "serving" /\ work[Boot] = Idle
Begins(a, to) == Serving /\ a \in Requests /\ Goes(a, "idle", At(to))

\* handleCreateSession: the pane, then the row; without the row, no pane.
CreatePane(a) ==
    /\ Trouble
    /\ ~row.kept /\ lives = 0
    /\ Begins(a, "created")
    /\ lives' = 1
    /\ pane' = Pane(1, FALSE, {1})
    /\ UNCHANGED <<panel, row, archive, file, look, shot, promised, excused>>

CreateRow(a) ==
    /\ Goes(a, "created", Idle)
    /\ \E f \in BOOLEAN : row' = Row("no", f)
    /\ UNCHANGED <<panel, trouble, lives, pane, archive, file, look, shot, promised, excused>>

CreateFails(a) ==
    /\ Trouble
    /\ Goes(a, "created", At("cleanup"))
    /\ UNCHANGED <<panel, lives, pane, row, archive, file, look, shot, promised, excused>>

\* Kill is not looked at again.
CleanUp(a) ==
    /\ Goes(a, "cleanup", Idle)
    /\ \/ pane' = NoPane /\ UNCHANGED <<trouble, excused>>
       \/ Trouble /\ excused' = TRUE /\ UNCHANGED pane
    /\ UNCHANGED <<panel, lives, row, archive, file, look, shot, promised>>

\* handleDeleteSession, and handleDeleteProject for each of its sessions: the
\* pane must be gone before the row goes, and a kill that fails keeps the row.
Delete(a) ==
    /\ Trouble /\ row.kept
    /\ Begins(a, "delete")
    /\ UNCHANGED <<panel, lives, pane, row, archive, file, look, shot, promised, excused>>

DeleteKills(a) ==
    /\ \/ Goes(a, "delete", At("killed")) /\ pane' = NoPane /\ promised' = archive
          /\ UNCHANGED trouble
       \/ Trouble /\ Goes(a, "delete", Idle) /\ UNCHANGED <<pane, promised>>
    /\ UNCHANGED <<panel, lives, row, archive, file, look, shot, excused>>

\* The scrollback goes with its row.
DeleteRow(a) ==
    /\ Goes(a, "killed", Idle)
    /\ \/ row' = NoRow /\ archive' = {} /\ promised' = {} /\ UNCHANGED trouble
       \/ Trouble /\ UNCHANGED <<row, archive, promised>>
    /\ UNCHANGED <<panel, lives, pane, file, look, shot, excused>>

\* handleRestartSession: refused while the process runs, respawned in place
\* when it has ended, restored when the pane is gone.
Restart(a) ==
    /\ Trouble /\ row.kept
    /\ Begins(a, "restart")
    /\ UNCHANGED <<panel, lives, pane, row, archive, file, look, shot, promised, excused>>

\* Mutant: nothing asks whether there is anything to kill.
RestartAnyway(a) ==
    /\ Goes(a, "restart", At(IF pane.up THEN "dead" ELSE "restore"))
    /\ UNCHANGED <<panel, trouble, lives, pane, row, archive, file, look, shot, promised, excused>>

\* Get is asked whether the process runs; if Get fails, the restart goes on.
RestartLooks(a) ==
    /\ \/ Goes(a, "restart", IF ~pane.up THEN At("restore")
                             ELSE IF pane.dead THEN At("dead") ELSE Idle)
          /\ UNCHANGED trouble
       \/ Trouble /\ pane.up /\ Goes(a, "restart", At("blind"))
    /\ UNCHANGED <<panel, lives, pane, row, archive, file, look, shot, promised, excused>>

\* respawn-pane -k, into a pane that may have gone since.
Respawn(a) ==
    /\ \/ /\ pane.up /\ lives < MaxLives
          /\ \E from \in {"dead", "blind"} : Goes(a, from, At("respawned"))
          /\ lives' = lives + 1
          /\ pane' = Pane(lives', FALSE, {lives'})
          /\ promised' = archive
       \/ /\ ~pane.up \/ lives = MaxLives
          /\ \E from \in {"dead", "blind"} : Goes(a, from, Idle)
          /\ UNCHANGED <<lives, pane, promised>>
    /\ UNCHANGED <<panel, trouble, row, archive, file, look, shot, excused>>

SetExit(x) ==
    \/ row' = (IF row.kept THEN [row EXCEPT !.exit = x] ELSE row) /\ UNCHANGED trouble
    \/ Trouble /\ UNCHANGED row

RestartDone(a) ==
    /\ Goes(a, "respawned", Idle)
    /\ SetExit("no")
    /\ UNCHANGED <<panel, lives, pane, archive, file, look, shot, promised, excused>>

----------------------------------------------------------------------------
(* handleRestoreSessions, RestoreFlagged, and restoreSession under them.   *)

Restorable == row.kept /\ row.exit = "vanished"

Restore(a) ==
    /\ Trouble /\ Restorable
    /\ Begins(a, "restore")
    /\ UNCHANGED <<panel, lives, pane, row, archive, file, look, shot, promised, excused>>

\* Has: a session that is there is not restored.
RestoreLooks(a) ==
    /\ Goes(a, "restore", IF pane.up THEN Idle ELSE At("absent"))
    /\ UNCHANGED <<panel, trouble, lives, pane, row, archive, file, look, shot, promised, excused>>

\* Mutant: the archive is dropped as soon as it has been read.
RestoreReadsAndDrops(a) ==
    /\ Goes(a, "absent", [at |-> "read", screen |-> archive])
    /\ archive' = {}
    /\ UNCHANGED <<panel, trouble, lives, pane, row, file, look, shot, promised, excused>>

\* A read that fails is carried on from as if there were nothing to read, and
\* what it did not read is dropped with the rest.
RestoreReads(a) ==
    /\ \/ Goes(a, "absent", [at |-> "read", screen |-> archive]) /\ UNCHANGED <<trouble, promised>>
       \/ Trouble /\ Goes(a, "absent", [at |-> "read", screen |-> {}]) /\ promised' = {}
    /\ UNCHANGED <<panel, lives, pane, row, archive, file, look, shot, excused>>

\* The file is written, then the pane made to print it.  Create fails when a
\* pane of the name exists, or for a reason of tmux's own; the file goes again.
RestoreMakes(a) ==
    /\ \/ /\ ~pane.up /\ lives < MaxLives
          /\ Goes(a, "read", At("made"))
          /\ file' = work[a].screen
          /\ lives' = lives + 1
          /\ pane' = Pane(lives', TRUE, {})
          /\ UNCHANGED trouble
       \/ /\ \/ pane.up /\ UNCHANGED trouble
             \/ Trouble
          /\ Goes(a, "read", Idle)
          /\ file' = NoFile
          /\ UNCHANGED <<lives, pane>>
    /\ UNCHANGED <<panel, row, archive, look, shot, promised, excused>>

RestoreDrops(a) ==
    /\ Goes(a, "made", At("dropped"))
    /\ \/ archive' = {} /\ UNCHANGED trouble
       \/ Trouble /\ UNCHANGED archive
    /\ UNCHANGED <<panel, lives, pane, row, file, look, shot, promised, excused>>

RestoreClears(a) ==
    /\ Goes(a, "dropped", Idle)
    /\ SetExit("no")
    /\ UNCHANGED <<panel, lives, pane, archive, file, look, shot, promised, excused>>

----------------------------------------------------------------------------
(* The restored pane, the processes and tmux.                              *)

\* restoreScript: the file, if it is there, once; then the process.
Prints ==
    /\ pane.up /\ pane.prints
    /\ pane' = [pane EXCEPT !.prints = FALSE,
                            !.screen = (IF file = NoFile THEN {} ELSE file) \cup {pane.life}]
    /\ file' = NoFile
    /\ UNCHANGED <<panel, trouble, lives, row, archive, work, look, shot, promised, excused>>

Ends ==
    /\ Trouble
    /\ pane.up /\ ~pane.dead /\ ~pane.prints
    /\ pane' = [pane EXCEPT !.dead = TRUE]
    /\ UNCHANGED <<panel, lives, row, archive, file, work, look, shot, promised, excused>>

\* Somebody's kill-session: what only the pane still showed is gone, and so is
\* an archive about to be dropped because the pane shows it.
Killed ==
    /\ Trouble
    /\ pane.up
    /\ pane' = NoPane
    /\ promised' = IF \E a \in Actors : work[a].at = "made" THEN {} ELSE archive
    /\ UNCHANGED <<panel, lives, row, archive, file, work, look, shot, excused>>

\* The panel stops, orderly or not, alone or with the machine.
Stops(withMachine) ==
    /\ Trouble
    /\ panel # "stopped"
    /\ panel' = "stopped"
    /\ work' = [a \in Actors |-> Idle] /\ look' = Idle /\ shot' = {}
    /\ IF withMachine THEN pane' = NoPane /\ promised' = archive
                      ELSE UNCHANGED <<pane, promised>>
    /\ excused' = TRUE
    /\ UNCHANGED <<lives, row, archive, file>>

Starts ==
    /\ panel = "stopped"
    /\ panel' = "starting"
    /\ UNCHANGED <<trouble, lives, pane, row, archive, file, work, look, shot, promised, excused>>

----------------------------------------------------------------------------
(* pollOnce, and Reconcile, which does the same once before it serves.     *)

LookLists ==
    /\ panel = "starting" \/ Serving
    /\ look = Idle
    /\ look' = [at |-> "listed", pane |-> pane]
    /\ UNCHANGED <<panel, trouble, lives, pane, row, archive, file, work, shot, promised, excused>>

LookReads ==
    /\ look.at = "listed"
    /\ look' = [at |-> "read", pane |-> look.pane, row |-> row]
    /\ UNCHANGED <<panel, trouble, lives, pane, row, archive, file, work, shot, promised, excused>>

\* Mutant: a status of its own, which nothing else knows.
JudgementGone ==
    IF ~look.row.kept THEN {}
    ELSE IF ~look.pane.up THEN {"gone"}
    ELSE {IF look.pane.dead THEN "yes" ELSE "no"}

\* Mutant: a row once marked vanished is not looked at again.
JudgementOnce ==
    IF ~look.row.kept \/ look.row.exit = "vanished" THEN {}
    ELSE IF ~look.pane.up THEN {"vanished"}
    ELSE IF panel = "starting" THEN {}
    ELSE {IF look.pane.dead THEN "yes" ELSE "no"}

\* What the list and the row, both old by now, say to write.  Reconcile marks
\* the vanished and leaves the rest to the poller.
Judgement ==
    IF ~look.row.kept THEN {}
    ELSE IF ~look.pane.up THEN {"vanished"}
    ELSE IF panel = "starting" THEN {}
    ELSE {IF look.pane.dead THEN "yes" ELSE "no"}

LookWrites ==
    /\ look.at = "read"
    /\ \/ \E x \in Judgement \ {look.row.exit} : SetExit(x)
       \/ Judgement \subseteq {look.row.exit} /\ UNCHANGED <<row, trouble>>
    /\ look' = Idle
    /\ panel' = IF panel = "starting" THEN "flagged" ELSE panel
    /\ UNCHANGED <<lives, pane, archive, file, work, shot, promised, excused>>

\* RestoreFlagged, the last thing Reconcile does.
RestoreFlagged ==
    /\ panel = "flagged"
    /\ Goes(Boot, "idle", IF Restorable /\ row.flagged THEN At("restore") ELSE Idle)
    /\ panel' = "serving"
    /\ UNCHANGED <<trouble, lives, pane, row, archive, file, look, shot, promised, excused>>

----------------------------------------------------------------------------
(* archiveOnce and ArchiveAll.  A screen that has shown nothing is skipped. *)
Captures ==
    /\ Serving /\ row.kept
    /\ shot = {} /\ pane.up
    /\ shot' = pane.screen
    /\ UNCHANGED <<panel, trouble, lives, pane, row, archive, file, work, look, promised, excused>>

\* A capture of a pane that has gone is no promise once a restore has read
\* the archive without it.
TooLate ==
    /\ \E a \in Actors : work[a].at \in {"read", "made"}
    /\ ~(pane.up /\ shot \subseteq pane.screen)

Stores ==
    /\ shot # {}
    /\ shot' = {}
    /\ IF row.kept THEN archive' = shot /\ promised' = IF TooLate THEN {} ELSE shot
                   ELSE UNCHANGED <<archive, promised>>
    /\ UNCHANGED <<panel, trouble, lives, pane, row, file, work, look, excused>>

----------------------------------------------------------------------------
Handles(a) ==
    \/ CreateRow(a) \/ CleanUp(a) \/ DeleteKills(a) \/ DeleteRow(a)
    \/ RestartLooks(a) \/ Respawn(a) \/ RestartDone(a)
    \/ RestoreLooks(a) \/ RestoreReads(a) \/ RestoreMakes(a) \/ RestoreDrops(a) \/ RestoreClears(a)

Looks == LookLists \/ LookReads \/ LookWrites

LifeNext ==
    \/ \E a \in Actors :
          \/ CreatePane(a) \/ CreateFails(a) \/ Delete(a) \/ Restart(a) \/ Restore(a)
          \/ Handles(a)
    \/ Looks \/ RestoreFlagged
    \/ Captures \/ Stores
    \/ Prints \/ Ends \/ Killed
    \/ \E withMachine \in BOOLEAN : Stops(withMachine)
    \/ Starts

\* Handlers return, the poller's ticker fires, a pane's script runs, and a
\* panel that was stopped is started again (its unit says Restart=always).
LifeSpec ==
    /\ LifeInit
    /\ [][LifeNext]_lifeVars
    /\ \A a \in Actors : WF_lifeVars(Handles(a))
    /\ WF_lifeVars(Looks) /\ WF_lifeVars(RestoreFlagged)
    /\ WF_lifeVars(Prints) /\ WF_lifeVars(Starts)

----------------------------------------------------------------------------
\* What was archived last stays readable until something outside the panel
\* takes the screen: in the archive, on the pane, or in the file a restored
\* pane is about to print.  A failed restore and a panel stopped between two
\* steps of one keep it.
ScreenKept ==
    row.kept => promised \subseteq archive
                    \cup (IF pane.up THEN pane.screen ELSE {})
                    \cup (IF pane.up /\ pane.prints /\ file # NoFile THEN file ELSE {})

\* A process the panel started is never left where nothing can reach it: with no
\* request under way a pane has its row, unless the panel was stopped or tmux
\* refused the cleaning up.
NoOrphan ==
    pane.up /\ (\A a \in Actors : work[a] = Idle) => row.kept \/ excused

\* Neither the archived screen nor a process is left where nobody gets at it.
NothingStranded == ScreenKept /\ NoOrphan
\* No restart or restore replaces a process that is running, but a restart that
\* was not told whether it runs.
RunningNotReplaced ==
    [][pane.up /\ ~pane.dead /\ pane'.up =>
        pane'.life = pane.life \/ \E a \in Requests : work[a].at = "blind"]_lifeVars

\* Whatever was marked from an old list, the row ends saying of its pane what is
\* true of it.
RowFollowsPane ==
    <>[](row.kept => row.exit = IF ~pane.up THEN "vanished"
                                ELSE IF pane.dead THEN "yes" ELSE "no")
=============================================================================
