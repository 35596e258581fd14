------------------------------ MODULE PageParts ------------------------------
(***************************************************************************)
(* What an open page shows, the parts that share no state with one        *)
(* another, each with its own specification, model-checked side by side: a *)
(* terminal, the notes and the state of a session.  `part' says which of   *)
(* them moves, the others stay as they begin.                              *)
(***************************************************************************)
EXTENDS Notes, ViewerStream, SessionReports

VARIABLE part

PageInit ==
    /\ part \in {"notes", "viewer", "reports"}
    /\ Init /\ ViewerInit /\ ReportsInit
    /\ pane = "codex" \/ row.source = "hook" => part = "reports"

PageNext ==
    /\ UNCHANGED part
    /\ \/ part = "notes" /\ Next /\ UNCHANGED <<viewerVars, reportsVars>>
       \/ part = "viewer" /\ ViewerNext /\ UNCHANGED <<vars, reportsVars>>
       \/ part = "reports" /\ ReportsNext /\ UNCHANGED <<vars, viewerVars>>

pagePartsVars == <<part, vars, viewerVars, reportsVars>>

\* The fairness of each part, while it is the one that moves.
PageSpec ==
    /\ PageInit
    /\ [][PageNext]_pagePartsVars
    /\ \A w \in Windows :
          /\ WF_vars(part = "notes" /\ Timer(w))
          /\ WF_vars(part = "notes" /\ Serve(w))
          /\ WF_vars(part = "notes" /\ Answers(w))
    /\ WF_viewerVars(part = "viewer" /\ ReaderStep)
    /\ WF_viewerVars(part = "viewer" /\ PageStep)
    /\ WF_viewerVars(part = "viewer" /\ Reconnect)
    /\ \A r \in Refs : WF_viewerVars(part = "viewer" /\ PumpStep(r))
    /\ WF_reportsVars(part = "reports" /\ PollStep)
    /\ \A h \in Handlers : WF_reportsVars(part = "reports" /\ Handles(h))

\* The types of the parts.
PartsTypeOK == TypeOK /\ ViewerTypeOK /\ ReportsTypeOK
=============================================================================
