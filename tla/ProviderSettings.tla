-------------------------- MODULE ProviderSettings --------------------------
(***************************************************************************)
(* Provider connections with their sealed keys, the model presets that name *)
(* them, and the options a project's review starts with.                   *)
(*   server/project_space.py, server/provider_probe.py                     *)
(* The master key comes from the environment and may be another after a    *)
(* restart.  Every handler runs without an await, in one or two            *)
(* transactions.                                                           *)
(***************************************************************************)
EXTENDS Naturals, FiniteSets

CONSTANTS Connections, Presets,     \* ids, each given out once
          Keys, MasterKeys

ASSUME SettingsAssumption == "none" \notin Keys \cup MasterKeys

VARIABLES
    connections,     \* provider_connections
    presets,         \* model_presets
    master,          \* PM_PAL_SECRETS_MASTER_KEY, or none
    projectPreset,   \* projects.model_preset_id, which nobody checks
    saved,           \* history: the key each connection was last given
    started          \* the options the latest review started with

settingsVars == <<connections, presets, master, projectPreset, saved, started>>

(* All but the local provider are refused without a key, also those of *)
(* which the catalog says that they need none.                         *)
Providers == {"local", "keyed"}
Unused == [state |-> "unused"]
Gone == [state |-> "gone"]
Exists(table, id) == table[id] \notin {Unused, Gone}

SettingsInit ==
    /\ connections = [c \in Connections |-> Unused]
    /\ presets = [p \in Presets |-> Unused]
    /\ master = "none"
    /\ projectPreset = "none"
    /\ saved = [c \in Connections |-> "none"]
    /\ started = [conn |-> "none", key |-> "none"]

----------------------------------------------------------------------------
(* SecretBox: an empty secret stays empty, with or without a master key. *)
CanSeal(key) == key = "none" \/ master # "none"
Sealed(key) == [key |-> key, by |-> IF key = "none" THEN "none" ELSE master]

OpensAnything(box) == TRUE            \* Mutant: an invalid token is not noticed
CanOpen(box) == box.key = "none" \/ (master # "none" /\ box.by = master)

(* create_connection, update_connection, delete_connection.  Without a new  *)
(* key, an update keeps the sealed one; it never touches the status.        *)
CreateConnection(c, provider, key) ==
    /\ connections[c] = Unused
    /\ provider # "local" => key # "none"
    /\ CanSeal(key)
    /\ connections' = [connections EXCEPT ![c] =
                         [state |-> "configured", provider |-> provider, box |-> Sealed(key)]]
    /\ saved' = [saved EXCEPT ![c] = key]
    /\ UNCHANGED <<presets, master, projectPreset, started>>

ReplaceKey(c, key) ==
    /\ Exists(connections, c) /\ CanSeal(key)
    /\ connections' = [connections EXCEPT ![c].box = Sealed(key)]
    /\ saved' = [saved EXCEPT ![c] = key]
    /\ UNCHANGED <<presets, master, projectPreset, started>>

DeleteConnection(c) ==
    /\ Exists(connections, c)
    /\ connections' = [connections EXCEPT ![c] = Gone]
    /\ UNCHANGED <<presets, master, projectPreset, saved, started>>

(* test_connection: the package is installed and the probe succeeds; in any *)
(* other case nothing changes.                                              *)
TestConnection(c) ==
    /\ Exists(connections, c)
    /\ connections[c].provider # "local" => CanOpen(connections[c].box)
    /\ connections' = [connections EXCEPT ![c].state = "validated"]
    /\ UNCHANGED <<presets, master, projectPreset, saved, started>>

(* save_preset: the other defaults are cleared, then the row is replaced;   *)
(* a failure or a crash may come between.                                   *)
Cleared == [p \in Presets |-> IF Exists(presets, p) THEN [presets[p] EXCEPT !.default = FALSE]
                                                    ELSE presets[p]]

SavePreset(p, c, default) ==
    /\ presets[p] # Gone /\ Exists(connections, c)
    /\ presets' = [(IF default THEN Cleared ELSE presets) EXCEPT ![p] =
                     [state |-> "saved", conn |-> c, default |-> default]]
    /\ UNCHANGED <<connections, master, projectPreset, saved, started>>

SaveCutShort ==
    /\ \E c \in Connections : Exists(connections, c)
    /\ presets' = Cleared
    /\ UNCHANGED <<connections, master, projectPreset, saved, started>>

DeletePreset(p) ==
    /\ Exists(presets, p)
    /\ presets' = [presets EXCEPT ![p] = Gone]
    /\ UNCHANGED <<connections, master, projectPreset, saved, started>>

(* create_project and update_project take any id; none keeps the old one. *)
ChoosePreset(p) ==
    /\ projectPreset' = p
    /\ UNCHANGED <<connections, presets, master, saved, started>>

(* The options of a review: the preset asked for, or the project's.  A       *)
(* deleted connection raises, a key that does not open refuses the request.  *)
StartReview(asked) ==
    LET p == IF asked = "none" THEN projectPreset ELSE asked IN
    /\ IF p = "none" THEN started' = [conn |-> "none", key |-> "none"]
       ELSE /\ Exists(presets, p) /\ Exists(connections, presets[p].conn)
            /\ CanOpen(connections[presets[p].conn].box)
            /\ started' = [conn |-> presets[p].conn, key |-> connections[presets[p].conn].box.key]
    /\ UNCHANGED <<connections, presets, master, projectPreset, saved>>

(* The server is started again, perhaps with another master key. *)
Restart(m) ==
    /\ master' = m
    /\ UNCHANGED <<connections, presets, projectPreset, saved, started>>

SettingsNext ==
    \/ \E c \in Connections :
          \/ \E key \in Keys \cup {"none"} :
                \/ \E provider \in Providers : CreateConnection(c, provider, key)
                \/ ReplaceKey(c, key)
          \/ DeleteConnection(c) \/ TestConnection(c)
          \/ \E p \in Presets, default \in BOOLEAN : SavePreset(p, c, default)
    \/ SaveCutShort
    \/ \E p \in Presets : DeletePreset(p) \/ ChoosePreset(p)
    \/ \E asked \in Presets \cup {"none"} : StartReview(asked)
    \/ \E m \in MasterKeys \cup {"none"} : Restart(m)

----------------------------------------------------------------------------
(* At most one preset is the default. *)
OneDefault ==
    \A p, d \in Presets :
        Exists(presets, p) /\ Exists(presets, d) /\ presets[p].default /\ presets[d].default
        => p = d

(* A review starts with the key its connection was last given, or not at    *)
(* all: whatever was edited, and under whichever master key the server was  *)
(* started since.                                                           *)
KeyAsSaved ==
    [][started' # started /\ started'.conn # "none"
         => /\ started'.key = saved[started'.conn]
            /\ connections[started'.conn].box.by \in {"none", master}]_settingsVars
=============================================================================
