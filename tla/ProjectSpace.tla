---------------------------- MODULE ProjectSpace ----------------------------
(***************************************************************************)
(* One project space: its materials with their reviews, the provider       *)
(* settings the reviews start with, and the settings of a connector.       *)
(*   server/project_space.py                                               *)
(* Materials and settings meet only in a request for a review, which the   *)
(* settings may refuse (AskReview may not happen) and which changes        *)
(* neither; a connector shares nothing with the providers but the master   *)
(* key.  So each is looked at with the others at rest.                     *)
(***************************************************************************)
EXTENDS ProjectMaterials, ConnectorSettings

SpaceInit == MaterialsInit /\ SettingsInit /\ ConnectorInit

MaterialsAtRest ==
    /\ sources = <<>> /\ writer = [w \in Writers |-> Idle] /\ crashes = 0
    /\ \A l \in Limits : limit.rows <= l.rows      \* once for all the limits
SettingsAtRest ==
    connections = [c \in Connections |-> Unused] /\ projectPreset = "none"
ConnectorAtRest == ConnectorInit /\ service = "notion"

SpaceNext ==
    \/ SettingsAtRest /\ master = "none" /\ ConnectorAtRest
         /\ MaterialsNext /\ UNCHANGED <<settingsVars, connectorVars>>
    \/ MaterialsAtRest /\ ConnectorAtRest
         /\ SettingsNext /\ UNCHANGED <<materialsVars, connectorVars>>
    \/ MaterialsAtRest /\ SettingsAtRest
         /\ ConnectorNext /\ UNCHANGED materialsVars

SpaceSpec == SpaceInit /\ [][SpaceNext]_<<materialsVars, settingsVars, connectorVars>>

(* What was sealed is used as it was given, a key by a review and a secret *)
(* by a fetch, whatever was edited and under whichever master keys the     *)
(* server was started since.                                               *)
SecretsAsGiven == KeyAsSaved /\ FetchAsGiven
=============================================================================
