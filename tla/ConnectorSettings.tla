-------------------------- MODULE ConnectorSettings --------------------------
(***************************************************************************)
(* The settings of one connector of a project: its secrets, sealed with    *)
(* the same master key as the providers' keys, and its mappings.           *)
(*   integrations/{feishu,github,notion}/config_store.py, config_routes.py *)
(* A PUT runs on the event loop and reads the row twice before it writes   *)
(* it whole; the sync worker of Notion reads and rewrites it beside that,  *)
(* to stamp it.  app_id and base_url are kept as the mappings are; the     *)
(* stamp itself is in ConnectorSync.                                       *)
(***************************************************************************)
EXTENDS ProviderSettings

VARIABLES
    service,   \* whose connector it is
    row,       \* its row of connector_configs, or Absent
    put,       \* how far the PUT has come
    touch,     \* how far the worker's fetch and its stamp have come
    given,     \* history: what users last asked for, field by field
    blind,     \* history: the row was rewritten while it could not be opened
    met        \* history: the worker wrote back a row that a PUT had replaced

connectorVars == <<service, row, put, touch, given, blind, met>>

Services == {"feishu", "github", "notion"}

(* token: the app secret of Feishu, the personal token of GitHub, the token *)
(* of Notion.  key: private key and installation of GitHub's app mode.      *)
(* hook: what webhooks are signed with; GitHub's is kept as its key is.     *)
Secrets == {"token", "key", "hook"}
SecretsOf(s) == {"token", IF s = "github" THEN "key" ELSE "hook"}

(* A field of a request may be left out, or be there and empty. *)
Asks(s) ==
    [token : Keys \cup {"kept", "empty"},
     key : IF "key" \in SecretsOf(s) THEN Keys \cup {"kept", "empty"} ELSE {"kept"},
     hook : IF "hook" \in SecretsOf(s) THEN Keys \cup {"kept", "empty"} ELSE {"kept"},
     mode : IF s = "github" THEN {"kept", "pat", "app"} ELSE {"kept"},
     mapped : {"kept", "mapped", "none"}]

Blank == [token |-> "none", key |-> "none", hook |-> "none", mode |-> "pat", mapped |-> "none"]
Absent == [state |-> "absent"]
NoPut == [step |-> "idle"]

ConnectorInit ==
    /\ service \in Services
    /\ row = Absent /\ put = NoPut /\ touch = NoPut
    /\ given = Blank
    /\ blind = FALSE /\ met = FALSE

----------------------------------------------------------------------------
(* get: no row reads as an empty one; secrets that do not open are read as *)
(* none, and the mode with them, while the mappings are not sealed.        *)
Opens == row.by = master /\ master # "none"
Unopened(r) == [Blank EXCEPT !.mapped = r.settings.mapped]
Settings ==
    IF row = Absent THEN Blank ELSE IF Opens THEN row.settings ELSE Unopened(row)

Provided(ask) == \E f \in Secrets \cup {"mode"} : ask[f] # "kept"

(* The route, which reads the row for what the request leaves out *)
PutRead(ask) ==
    /\ put = NoPut
    /\ put' = [step |-> "asked", ask |-> ask,
               secrets |-> [f \in Secrets \cup {"mode"} |->
                              CASE ask[f] = "kept" -> Settings[f]
                                [] ask[f] = "empty" -> "none"
                                [] OTHER -> ask[f]]]
    /\ UNCHANGED <<service, row, touch, given, blind, met>>

MergedWhole(p) ==     \* Mutant: an empty field is taken for a new value
    [f \in DOMAIN Blank |->
        IF f = "mapped" THEN IF p.ask.mapped = "kept" THEN Settings.mapped ELSE p.ask.mapped
        ELSE IF Provided(p.ask) THEN p.secrets[f] ELSE Settings[f]]

(* upsert: the row is read again; an empty secret keeps the old one *)
Merged(p) ==
    [f \in DOMAIN Blank |->
        IF f = "mapped" THEN IF p.ask.mapped = "kept" THEN Settings.mapped ELSE p.ask.mapped
        ELSE IF Provided(p.ask) /\ p.secrets[f] # "none" THEN p.secrets[f] ELSE Settings[f]]

PutUpsert ==
    /\ put.step = "asked"
    /\ put' = [step |-> "merged", ask |-> put.ask, next |-> Merged(put)]
    /\ UNCHANGED <<service, row, touch, given, blind, met>>

(* The row is sealed anew, whether or not the old one could be opened. *)
Rewrite(settings) ==
    /\ master # "none"
    /\ row' = [state |-> "saved", settings |-> settings, by |-> master]
    /\ blind' = (blind \/ (row # Absent /\ ~Opens))

PutWrite ==
    /\ put.step = "merged"
    /\ Rewrite(put.next)
    /\ given' = [f \in DOMAIN Blank |-> IF put.ask[f] \in {"kept", "empty"} THEN given[f]
                                                                         ELSE put.ask[f]]
    /\ put' = NoPut
    /\ UNCHANGED <<service, touch, met>>

(* Without a master key nothing can be saved, not even a mapping. *)
PutRefused ==
    /\ put.step = "merged" /\ master = "none"
    /\ put' = NoPut
    /\ UNCHANGED <<service, row, touch, given, blind, met>>

----------------------------------------------------------------------------
(* The worker's handler: the credential is opened and the document fetched; *)
(* Notion needs a mapping for it and then stamps the row.                   *)
Fetch ==
    /\ touch = NoPut
    /\ service = "notion" => Settings.mapped = "mapped"
    /\ touch' = [step |-> "fetching", with |-> Settings]
    /\ UNCHANGED <<service, row, put, given, blind, met>>

(* The fetch fails, or finds nothing new, or there is nothing to stamp. *)
FetchEnds ==
    /\ touch.step = "fetching"
    /\ touch' = NoPut
    /\ UNCHANGED <<service, row, put, given, blind, met>>

(* touch_last_synced_at writes back what it has read here. *)
TouchRead ==
    /\ service = "notion" /\ touch.step = "fetching"
    /\ touch' = [step |-> "read", settings |-> Settings, row |-> row]
    /\ UNCHANGED <<service, row, put, given, blind, met>>

TouchWrite ==
    /\ touch.step = "read"
    /\ Rewrite(touch.settings)
    /\ met' = (met \/ row # touch.row)
    /\ touch' = NoPut
    /\ UNCHANGED <<service, put, given>>

(* The stamp cannot be sealed, and the task fails with its page stored. *)
TouchRefused ==
    /\ touch.step = "read" /\ master = "none"
    /\ touch' = NoPut
    /\ UNCHANGED <<service, row, put, given, blind, met>>

ConnectorNext ==
    \/ /\ \/ \E ask \in Asks(service) : PutRead(ask)
          \/ PutUpsert \/ PutWrite \/ PutRefused
          \/ Fetch \/ FetchEnds \/ TouchRead \/ TouchWrite \/ TouchRefused
       /\ UNCHANGED settingsVars
    \/ /\ \E m \in MasterKeys \cup {"none"} : Restart(m)
       /\ put' = NoPut /\ touch' = NoPut
       /\ UNCHANGED <<service, row, given, blind, met>>

----------------------------------------------------------------------------
(* A fetch has the secrets, the mode and the mappings that users last gave, *)
(* also over partial and refused updates, fetches in between and restarts   *)
(* with another master key and back; under the other key it has mappings    *)
(* only.  Not so once the row was rewritten under that other key, or by a   *)
(* worker that had read it before a PUT.                                    *)
FetchAsGiven ==
    [][touch.step = "idle" /\ touch'.step = "fetching" /\ ~met
         => /\ touch'.with.mapped = given.mapped
            /\ \/ blind
               \/ row # Absent /\ ~Opens /\ touch'.with = Unopened(row)
               \/ (row = Absent \/ Opens) /\ touch'.with = given]_connectorVars
=============================================================================
