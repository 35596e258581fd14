------------------------------ MODULE PanelParts ------------------------------
(***************************************************************************)
(* The parts of the panel that share no state with one another, each with  *)
(* its own specification, model-checked side by side: `part' says which of *)
(* them moves, the others stay as they begin.                              *)
(***************************************************************************)
EXTENDS RingBuffer, SessionLife, Governor, ChatRequests, Scanners, ChatDelivery, LogTail

VARIABLE part

PartsInit ==
    /\ part \in {"ring", "life", "governor", "chat", "commands", "modes", "delivery", "log"}
    /\ Init /\ LifeInit /\ GovernorInit /\ ChatInit /\ ScanInit /\ DeliveryInit /\ LogInit
    /\ quietHours => part = "chat"
    /\ recordsFirst => part = "delivery"
    /\ follows = "codex" => part = "log"

PartsNext ==
    /\ UNCHANGED part
    /\ \/ /\ part = "ring" /\ Next
          /\ UNCHANGED <<lifeVars, governorVars, chatVars, scanVars, deliveryVars, logVars>>
       \/ /\ part = "life" /\ LifeNext
          /\ UNCHANGED <<vars, governorVars, chatVars, scanVars, deliveryVars, logVars>>
       \/ /\ part = "governor" /\ GovernorNext
          /\ UNCHANGED <<vars, lifeVars, chatVars, scanVars, deliveryVars, logVars>>
       \/ /\ part = "chat" /\ ChatNext
          /\ UNCHANGED <<vars, lifeVars, governorVars, scanVars, deliveryVars, logVars>>
       \/ /\ part = "commands" /\ ReadCommands
          /\ UNCHANGED <<vars, lifeVars, governorVars, chatVars, deliveryVars, logVars>>
       \/ /\ part = "modes" /\ ReadModes
          /\ UNCHANGED <<vars, lifeVars, governorVars, chatVars, deliveryVars, logVars>>
       \/ /\ part = "delivery" /\ DeliveryNext
          /\ UNCHANGED <<vars, lifeVars, governorVars, chatVars, scanVars, logVars>>
       \/ /\ part = "log" /\ LogNext
          /\ UNCHANGED <<vars, lifeVars, governorVars, chatVars, scanVars, deliveryVars>>

partsVars == <<part, vars, lifeVars, governorVars, chatVars, scanVars, deliveryVars, logVars>>

\* The fairness of each part, while it is the one that moves.
PartsSpec ==
    /\ PartsInit
    /\ [][PartsNext]_partsVars
    /\ \A a \in Actors : WF_lifeVars(part = "life" /\ Handles(a))
    /\ WF_lifeVars(part = "life" /\ Looks)
    /\ WF_lifeVars(part = "life" /\ RestoreFlagged)
    /\ WF_lifeVars(part = "life" /\ Prints)
    /\ WF_lifeVars(part = "life" /\ Starts)
    /\ WF_chatVars(part = "chat" /\ Hooked)
    /\ WF_chatVars(part = "chat" /\ QuietEnds)
    /\ WF_chatVars(part = "chat" /\ ~running /\ Reload)
    /\ \A i \in Pushes : WF_chatVars(part = "chat" /\ Pushing(i))
    /\ \A p \in People : WF_chatVars(part = "chat" /\ Handling(p))
    /\ \A r \in Adapters : WF_deliveryVars(part = "delivery" /\ RunStep(r))
    /\ \A m \in Messages : WF_deliveryVars(part = "delivery" /\ HandlesMessage(m))
    /\ \A s \in Saves \cup {OtherSave} : WF_deliveryVars(part = "delivery" /\ SaveStep(s))
    /\ WF_deliveryVars(part = "delivery" /\ PanelStarts)
    /\ WF_logVars(part = "log" /\ LooksAtLog)

\* The types of the parts.
PartsTypeOK == TypeOK /\ LifeTypeOK /\ GovernorTypeOK /\ ChatTypeOK /\ ScanTypeOK
               /\ DeliveryTypeOK /\ LogTypeOK
=============================================================================
