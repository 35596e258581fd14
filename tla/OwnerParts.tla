------------------------------ MODULE OwnerParts ------------------------------
(***************************************************************************)
(* What one caller at a time may have: the grid of a session and the rows  *)
(* of a page.  They share no state; each has its own specification and     *)
(* they are model-checked side by side: `part' says which of them moves,   *)
(* the other stays as it begins.                                           *)
(***************************************************************************)
EXTENDS MCGridControl, PageData

VARIABLE part

PartsInit == part \in {"grid", "rows"} /\ Init /\ PageDataInit

\* Rows whose bounds are used up come to rest.
PartsNext ==
    /\ UNCHANGED part
    /\ \/ part = "grid" /\ Next /\ UNCHANGED pageVars
       \/ part = "rows" /\ PageDataNext /\ UNCHANGED vars
       \/ part = "rows" /\ UNCHANGED <<vars, pageVars>>

PartsSpec == PartsInit /\ [][PartsNext]_<<part, vars, pageVars>>

\* The grid as it is told apart, and all of the rows.
PartsView == <<part, ConnectionState, pageVars>>

\* The types of the parts.
PartsTypeOK == TypeOK /\ PageDataTypeOK
=============================================================================
