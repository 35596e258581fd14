------------------------------ MODULE OnceParts ------------------------------
(***************************************************************************)
(* What there must be one of at a time: the client of a session, the pass  *)
(* over the agents' transcripts and the count of a request, the read of a  *)
(* working tree, the worker of a plugin's events.  They share no state;    *)
(* each has its own specification and they are model-checked side by side: *)
(* `part' says which of them moves, the others stay as they begin.         *)
(***************************************************************************)
EXTENDS MCAttach, UsageIngest, GitCache, PluginEvents

VARIABLE part

PartsInit ==
    /\ part \in {"attach", "usage", "tabs", "walls", "events"}
    /\ Init /\ UsageInit /\ CacheInit /\ EventsInit

\* A part whose bounds are used up comes to rest.
Rests == UNCHANGED <<vars, usageVars, cacheVars, eventVars>>

PartsNext ==
    /\ UNCHANGED part
    /\ \/ part = "attach" /\ Next /\ UNCHANGED <<usageVars, cacheVars, eventVars>>
       \/ part = "usage" /\ UsageNext /\ UNCHANGED <<vars, cacheVars, eventVars>>
       \/ part = "tabs" /\ ReadsNext /\ UNCHANGED <<vars, usageVars, eventVars>>
       \/ part = "walls" /\ WarmNext /\ UNCHANGED <<vars, usageVars, eventVars>>
       \/ part = "events" /\ EventsNext /\ UNCHANGED <<vars, usageVars, cacheVars>>
       \/ part \in {"tabs", "walls", "events"} /\ Rests

PartsSpec == PartsInit /\ [][PartsNext]_<<part, vars, usageVars, cacheVars, eventVars>>

\* The types of the parts.
PartsTypeOK == TypeOK /\ UsageTypeOK /\ CacheTypeOK /\ EventsTypeOK
=============================================================================
