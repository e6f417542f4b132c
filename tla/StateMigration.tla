--------------------------- MODULE StateMigration ---------------------------
(***************************************************************************)
(* The migration of a host installation's files for the containers          *)
(* (docker/scripts/migrate-container-state.py): one file after the other is  *)
(* replaced by a rewritten one, and the script can be run again after it     *)
(* failed or was killed at any place.                                        *)
(*                                                                          *)
(* A file is what it says after the change: its paths, its plugin entries,   *)
(* the commands that give out a password, the gateway's credential.          *)
(***************************************************************************)
EXTENDS Integers, Sequences, FiniteSets

CONSTANTS
    Projects,       \* managed plugin projects below npm/projects
    Known,          \* those the image's plugin contract allows
    MaxRuns         \* bound: times the script is started

Kinds == {"token", "password"}
Accounts == {"imap", "smtp"}

\* Where a credential of the gateway may come from, in the order they are asked.
Origins == <<"container", "systemd", "legacy", "openclaw.json">>

VARIABLES
    home,           \* the files that are migrated
    secrets,        \* the files below the secrets directory
    given,          \* the credentials of the installation, by origin
    migration       \* the script

vars == <<home, secrets, given, migration>>

Init ==
    /\ home \in [paths : {"host"}, plugins : {"host"}, projects : {Projects, {}}, indexed : {Projects},
                 command : [Accounts -> {"secret-tool", "cat", "none"}], mode : {"", "token", "password"},
                 proxy : {"host"}]
    /\ secrets = [password |-> {a \in Accounts : home.command[a] = "cat"}, gateway |-> <<>>]
    /\ given \in [{"systemd", "legacy", "openclaw.json"} -> SUBSET Kinds]
    /\ migration = [step |-> "stopped", ok |-> FALSE, runs |-> 0]

At(step) == migration.step = step
Goto(step) == migration' = [migration EXCEPT !.step = step]

\* The script ends with an error.
Fail == migration' = [migration EXCEPT !.step = "stopped"]

-----------------------------------------------------------------------------
Start ==
    /\ At("stopped") /\ migration.runs < MaxRuns
    /\ migration' = [step |-> "plugins", ok |-> FALSE, runs |-> migration.runs + 1]
    /\ UNCHANGED <<home, secrets, given>>

\* ensure_immutable_plugin_config: plugins of the host's state root are left out.
Plugins ==
    /\ At("plugins") /\ Goto("paths")
    /\ home' = [home EXCEPT !.plugins = "image"]
    /\ UNCHANGED <<secrets, given>>

\* rewrite_active_paths
Paths ==
    /\ At("paths") /\ Goto("index")
    /\ home' = [home EXCEPT !.paths = "container"]
    /\ UNCHANGED <<secrets, given>>

\* reset_managed_plugin_state: a project the contract does not know stops the
\* migration before anything is removed; the index forgets the plugins first.
Index ==
    /\ At("index")
    /\ IF home.projects \subseteq Known
       THEN home' = [home EXCEPT !.indexed = {}] /\ Goto("projects")
       ELSE Fail /\ UNCHANGED home
    /\ UNCHANGED <<secrets, given>>

RemoveProject ==
    /\ At("projects")
    /\ IF home.projects = {} THEN Goto("himalaya") /\ UNCHANGED home
       ELSE /\ \E p \in home.projects : home' = [home EXCEPT !.projects = @ \ {p}]
            /\ UNCHANGED migration
    /\ UNCHANGED <<secrets, given>>

-----------------------------------------------------------------------------
(* migrate_himalaya_secrets *)

Asking == {a \in Accounts : home.command[a] = "secret-tool"}

HaveSecrets == Asking \subseteq secrets.password

\* extract_secret: the command may fail, or give nothing.
ExtractSecret ==
    /\ At("himalaya")
    /\ \/ \E a \in Asking \ secrets.password :
            secrets' = [secrets EXCEPT !.password = @ \cup {a}] /\ UNCHANGED migration
       \/ Asking \ secrets.password # {} /\ Fail /\ UNCHANGED secrets
    /\ UNCHANGED <<home, given>>

Himalaya ==
    /\ At("himalaya") /\ HaveSecrets
    /\ home' = [home EXCEPT !.command = [a \in Accounts |-> IF a \in Asking THEN "cat" ELSE @[a]]]
    /\ Goto("gateway")
    /\ UNCHANGED <<secrets, given>>

-----------------------------------------------------------------------------
(* ensure_gateway_auth *)

\* What an origin offers; the systemd environment also overlays the legacy one.
Offered(origin) ==
    CASE origin = "container" -> {c[1] : c \in {secrets.gateway[i] : i \in DOMAIN secrets.gateway}}
      [] origin = "legacy" -> given["legacy"] \cup given["systemd"]
      [] OTHER -> given[origin]

\* selected_gateway_credential: the mode decides; without one there must not be both.
Compatible(origin, mode) ==
    IF mode # "" THEN Offered(origin) \cap {mode} ELSE Offered(origin)

\* The credential from the first origin that has one of this mode.
Selected(mode) ==
    LET having == {i \in DOMAIN Origins : Compatible(Origins[i], mode) # {}}
    IN IF having = {} THEN <<"token", "new">>
       ELSE LET i == CHOOSE i \in having : \A j \in having : i =< j
            IN IF Origins[i] = "container" THEN secrets.gateway[1]
               ELSE <<CHOOSE k \in Compatible(Origins[i], mode) : TRUE,
                      IF Origins[i] = "legacy" /\ mode \in given["systemd"] THEN "systemd" ELSE Origins[i]>>

\* No credential that fits, or two that fit without a mode: an error.
Refused(mode) ==
    LET having == {i \in DOMAIN Origins : Compatible(Origins[i], mode) # {}}
    IN \/ having = {} /\ mode # "" /\ (mode = "password" \/ \E i \in DOMAIN Origins : Offered(Origins[i]) # {})
       \/ mode = "" /\ \E i \in having : Cardinality(Offered(Origins[i])) = 2
                                          /\ \A j \in having : i =< j

\* The mode is written to openclaw.json before gateway.env exists.
GatewayMode ==
    /\ At("gateway")
    /\ IF Refused(home.mode) THEN Fail /\ UNCHANGED home
       ELSE home' = [home EXCEPT !.mode = Selected(home.mode)[1]] /\ Goto("credential")
    /\ UNCHANGED <<secrets, given>>

GatewayCredential ==
    /\ At("credential")
    /\ secrets' = [secrets EXCEPT !.gateway = <<Selected(home.mode)>>] /\ Goto("proxy")
    /\ UNCHANGED <<home, given>>

\* normalize_ollama_proxy
Proxy ==
    /\ At("proxy")
    /\ home' = [home EXCEPT !.proxy = "container"]
    /\ migration' = [migration EXCEPT !.step = "stopped", !.ok = TRUE]
    /\ UNCHANGED <<secrets, given>>

Killed ==
    /\ ~At("stopped") /\ Fail
    /\ UNCHANGED <<home, secrets, given>>

Next ==
    \/ Start \/ Plugins \/ Paths \/ Index \/ RemoveProject \/ ExtractSecret \/ Himalaya
    \/ GatewayMode \/ GatewayCredential \/ Proxy \/ Killed

Spec == Init /\ [][Next]_vars

-----------------------------------------------------------------------------
\* The configuration never asks for a password file that is not there.
NoLostSecret == \A a \in Accounts : home.command[a] = "cat" => a \in secrets.password

\* A run that ends well leaves nothing of the host behind.
Whole ==
    migration.ok =>
        /\ <<home.paths, home.plugins, home.proxy>> = <<"container", "image", "container">>
        /\ home.projects = {} /\ home.indexed = {}
        /\ secrets.gateway # <<>> /\ secrets.gateway[1][1] = home.mode

\* Clients keep their credential: a new one is only made when no origin has one
\* of the mode in force.
CredentialKept ==
    secrets.gateway # <<>> /\ secrets.gateway[1][2] = "new" =>
        \A o \in DOMAIN given : home.mode \notin given[o]

(***************************************************************************)
(* However often the migration fails or is killed and started again: no      *)
(* password is lost on the way, success means that all of it was done, and   *)
(* the gateway's clients are not shut out by a new token.                    *)
(***************************************************************************)
MigratesWhole == NoLostSecret /\ Whole /\ CredentialKept
=============================================================================
