----------------------------- MODULE ChildParts -----------------------------
(***************************************************************************)
(* What the panel starts and has to end: the tmux clients of one session,  *)
(* the process of one plugin, the downloads of one plugin, the runs of an  *)
(* update.  They share no state; each has its own specification and they   *)
(* are model-checked side by side: `part' says which of them moves, the    *)
(* others stay as they begin.                                              *)
(***************************************************************************)
EXTENDS Attach, PluginProcess, PluginDownload, SelfUpdate

VARIABLE part

PartsInit ==
    /\ part \in {"attach", "process", "download", "update"}
    /\ Init /\ PluginInit /\ DownloadInit /\ UpdateInit

PartsNext ==
    /\ UNCHANGED part
    /\ \/ part = "attach" /\ Next /\ UNCHANGED <<pluginVars, downloadVars, updateVars>>
       \/ part = "process" /\ PluginNext /\ UNCHANGED <<vars, downloadVars, updateVars>>
       \/ part = "download" /\ DownloadNext /\ UNCHANGED <<vars, pluginVars, updateVars>>
       \/ part = "update" /\ UpdateNext /\ UNCHANGED <<vars, pluginVars, downloadVars>>

partsVars == <<part, vars, pluginVars, downloadVars, updateVars>>

\* The fairness of each part, while it is the one that moves.
PartsSpec ==
    /\ PartsInit
    /\ [][PartsNext]_partsVars
    /\ \A a \in Attachers :
          /\ WF_vars(part = "attach" /\ AttachStep(a))
          /\ WF_vars(part = "attach" /\ PumpStep(a))
          /\ SF_vars(part = "attach" /\ PumpEnds(a))
          /\ WF_vars(part = "attach" /\ KillerFires(a))
          /\ WF_vars(part = "attach" /\ SignalledExits(a))
    /\ \A d \in Detachers : WF_vars(part = "attach" /\ DetachStep(d))
    /\ \A h \in Changers : WF_pluginVars(part = "process" /\ Ensures(h))
    /\ \A s \in Supervisors : WF_pluginVars(part = "process" /\ Supervises(s))
    /\ WF_downloadVars(part = "download" /\ RemoveFiles)
    /\ WF_downloadVars(part = "download" /\ LookForMissing)
    /\ WF_downloadVars(part = "download" /\ StartDownload)
    /\ \A j \in Jobs : WF_downloadVars(part = "download" /\ Downloads(j))
    /\ WF_updateVars(part = "update" /\ GracePasses)
    /\ \A p \in Presses : WF_updateVars(part = "update" /\ Applies(p))
    /\ \A r \in Runs : WF_updateVars(part = "update" /\ Updates(r))

\* The types of the parts.
PartsTypeOK == PluginTypeOK /\ DownloadTypeOK /\ UpdateTypeOK
=============================================================================
