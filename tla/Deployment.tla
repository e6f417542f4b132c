----------------------------- MODULE Deployment -----------------------------
(***************************************************************************)
(* Moving the installation from the systemd units of a user to containers    *)
(* and from one image to the next: docker/scripts/migrate-live.sh, deploy.sh,*)
(* backup.sh, rollback.sh, restore-local-state.sh, and the migration of the  *)
(* state directory by the container layout-init                              *)
(* (personal_assistant/runtime_layout.py, container_entrypoint.py).          *)
(*                                                                          *)
(* A script runs under "set -e": a failing command runs its ERR trap; a      *)
(* script that is killed runs nothing.  One script runs at a time.  The      *)
(* operator goes back to the latest release backup only, and begins a        *)
(* migration of the old home only while no container runs: neither is        *)
(* checked.  A directory is copied as a whole or not at all.                 *)
(***************************************************************************)
EXTENDS Naturals, FiniteSets

CONSTANTS
    Images,         \* a number per image
    MaxWrites,      \* bound: changes of the data
    MaxFaults,      \* bound: commands that fail, and kills
    MaxOrders       \* bound: commands of the operator

VARIABLES
    units,          \* whether the systemd units run
    home,           \* the data in the home they work on
    up,             \* running containers: the gateway, the workers
    serving,        \* the image they were made of
    env,            \* .env: the image and the runtime
    state,          \* the state directory, with the home its config and secrets directories are of
    init,           \* where layout-init is
    backup,         \* the latest release backup
    script,         \* the running script: its name, its next step, what it read at its start
    slipped,        \* history: the last rollback could not stop every container
    writes, faults, orders

deployVars == <<units, home, up, serving, env, state, init, backup, script, slipped, writes, faults,
    orders>>

\* The profile of the workspace: each file as the gateway generated it, as it
\* was in the old workspace, or edited since.
Profile == {"identity", "setup"}
Generated == [f \in Profile |-> "generated"]
OldProfile == [f \in Profile |-> "legacy"]

NoBackup == [state |-> <<>>, image |-> 0, runtime |-> "none"]
NoScript ==
    [name |-> "none", at |-> "none", image |-> 0, runtime |-> "none", target |-> 0, auto |-> FALSE, back |-> NoBackup]

\* The units run; the state directory is left from an earlier trial, already in
\* the current layout, but with a profile the former rule had put aside.
Init ==
    /\ units = TRUE /\ home = 0 /\ up = {} /\ serving = 0
    /\ env = [image |-> 1, runtime |-> "legacy"]
    /\ state \in {[data |-> 0, layout |-> 2, profile |-> OldProfile, junk |-> FALSE, config |-> 0, secrets |-> 0],
                  [data |-> 0, layout |-> 3, profile |-> Generated, junk |-> FALSE, config |-> 0, secrets |-> 0]}
    /\ init = "none" /\ backup = NoBackup /\ script = NoScript /\ slipped = FALSE
    /\ writes = 0 /\ faults = 0 /\ orders = 0

Ordered == script.name = "none" /\ init = "none" /\ orders < MaxOrders /\ orders' = orders + 1
Fault == faults < MaxFaults /\ faults' = faults + 1
Goes(step) == script' = [script EXCEPT !.at = step]
At(name, step) == script.name = name /\ script.at = step /\ init = "none"

\* The directories of the installation, and what follows when one was copied.
Directories == {"state", "config", "secrets"}
Following == [d \in Directories |-> CASE d = "state" -> "config" [] d = "config" -> "secrets" [] OTHER -> "ready"]

\* rsync -a --delete of one of them.
Copied(d, from) ==
    IF d = "state" THEN [from EXCEPT !.config = state.config, !.secrets = state.secrets]
    ELSE [state EXCEPT ![d] = from[d]]

-----------------------------------------------------------------------------
(* The runtimes *)

UnitsWrite ==
    /\ units /\ writes < MaxWrites /\ writes' = writes + 1 /\ home' = writes + 1
    /\ UNCHANGED <<units, up, serving, env, state, init, backup, script, slipped, faults, orders>>

WorkersWrite ==
    /\ "workers" \in up /\ writes < MaxWrites /\ writes' = writes + 1
    /\ state' = [state EXCEPT !.data = writes + 1]
    /\ UNCHANGED <<units, home, up, serving, env, init, backup, script, slipped, faults, orders>>

\* The owner talks to the agent, which changes a file of its profile.
ProfileEdited(f) ==
    /\ "gateway" \in up /\ state.profile[f] # "edited" /\ writes < MaxWrites /\ writes' = writes + 1
    /\ state' = [state EXCEPT !.profile[f] = "edited"]
    /\ UNCHANGED <<units, home, up, serving, env, init, backup, script, slipped, faults, orders>>

-----------------------------------------------------------------------------
(* layout-init, which "compose up -d" runs before every other container *)

OperatorUp ==
    /\ Ordered /\ ~units /\ init' = "snapshot"
    /\ UNCHANGED <<units, home, up, serving, env, state, backup, script, slipped, writes, faults>>

InitEnds(step) == init' = step /\ UNCHANGED <<units, home, env, backup, script, slipped, writes, orders>>

InitFails == InitEnds("none") /\ UNCHANGED <<up, serving, state, faults>>

\* An incomplete v3 directory needs a restore.  A state in the old layout is
\* copied aside for the backup, into a directory named after the process, which
\* is there already if an earlier process of this number was killed.
Snapshot ==
    /\ init = "snapshot"
    /\ \/ state.layout = 3 /\ InitEnds("promote") /\ UNCHANGED <<up, serving, state, faults>>
       \/ state.layout = 2 /\ ~state.junk /\ state' = [state EXCEPT !.junk = TRUE]
          /\ InitEnds("stage") /\ UNCHANGED <<up, serving, faults>>
       \/ (state.layout = 0 \/ state.junk) /\ InitFails

\* _build_v3_stage, _publish_v3: the stage becomes the state by one rename.
Stage ==
    /\ init = "stage"
    /\ \/ InitEnds("promote") /\ state' = [state EXCEPT !.junk = FALSE, !.layout = 3] /\ UNCHANGED <<up, serving, faults>>
       \/ Fault /\ InitEnds("none") /\ state' = [state EXCEPT !.junk = FALSE] /\ UNCHANGED <<up, serving>>

Differs == {f \in Profile : state.profile[f] # "legacy"}

\* _promote_completed_legacy_workspace_profile: the setup state, which says that
\* the profile is complete, is replaced last, and only over what was generated.
PromoteFile(f) ==
    /\ init = "promote" /\ f \in Differs
    /\ state.profile["setup"] = "generated" /\ \A g \in Differs : state.profile[g] = "generated"
    /\ f = "setup" => Differs = {"setup"}
    /\ state' = [state EXCEPT !.profile[f] = "legacy"]
    /\ InitEnds("promote") /\ UNCHANGED <<up, serving, faults>>

\* A completed active profile wins; a changed file of a pending one stops
\* everything.
Promoted ==
    /\ init = "promote"
    /\ \/ /\ state.profile["setup"] = "legacy" /\ InitEnds("none")
          /\ up' = {"gateway", "workers"} /\ serving' = env.image /\ UNCHANGED <<state, faults>>
       \/ /\ state.profile["setup"] # "legacy" /\ \E f \in Differs : state.profile[f] = "edited"
          /\ InitFails

InitKilled ==
    /\ init # "none" /\ Fault /\ InitEnds("none") /\ UNCHANGED <<up, serving, state>>

-----------------------------------------------------------------------------
(* migrate-live.sh *)

MigrateLive ==
    /\ Ordered /\ up = {}
    /\ units' = FALSE
    /\ script' = [NoScript EXCEPT !.name = "migrate", !.at = "backup", !.runtime = env.runtime]
    /\ UNCHANGED <<home, up, serving, env, state, init, backup, slipped, writes, faults>>

\* The home is put in order in a stage, the present installation saved.
Prepublished ==
    /\ At("migrate", "backup")
    /\ backup' = [state |-> state, image |-> env.image, runtime |-> "legacy"]
    /\ script' = [script EXCEPT !.at = "state", !.back = backup']
    /\ UNCHANGED <<units, home, up, serving, env, state, init, slipped, writes, faults, orders>>

Staged == [data |-> home, layout |-> 2, profile |-> OldProfile, junk |-> FALSE, config |-> home, secrets |-> home]

\* The stage replaces the installation, one directory after the other.
Publish(d) ==
    /\ At("migrate", d) /\ Goes(Following[d]) /\ state' = Copied(d, Staged)
    /\ UNCHANGED <<units, home, up, serving, env, init, backup, slipped, writes, faults, orders>>

Published ==
    /\ At("migrate", "ready") /\ script' = NoScript /\ env' = [env EXCEPT !.runtime = "legacy"]
    /\ UNCHANGED <<units, home, up, serving, state, init, backup, slipped, writes, faults, orders>>

\* restart_legacy_on_failure: the units go on, at once if nothing was published yet.
MigrationFails ==
    /\ script.name = "migrate" /\ Fault
    /\ IF script.at = "backup" THEN units' = TRUE /\ script' = NoScript
       ELSE units' = units /\ script' = [script EXCEPT !.name = "undo", !.at = "state"]
    /\ \/ env' = env
       \/ script.at = "ready" /\ env' = [env EXCEPT !.runtime = "legacy"]
    /\ UNCHANGED <<home, up, serving, state, init, backup, slipped, writes, orders>>

\* restore_prepublish_state: the directories, then the environment.
PutBack(d) ==
    /\ At("undo", d) /\ Goes(Following[d]) /\ state' = Copied(d, script.back.state)
    /\ UNCHANGED <<units, home, up, serving, env, init, backup, slipped, writes, faults, orders>>

Undone ==
    /\ At("undo", "ready") /\ script' = NoScript /\ units' = TRUE
    /\ env' = [env EXCEPT !.runtime = script.runtime]
    /\ UNCHANGED <<home, up, serving, state, init, backup, slipped, writes, faults, orders>>

\* A restore that fails on the way is warned of, and the units go on all the same.
UndoFails ==
    /\ script.name = "undo" /\ Fault /\ script' = NoScript /\ units' = TRUE
    /\ UNCHANGED <<home, up, serving, env, state, init, backup, slipped, writes, orders>>

-----------------------------------------------------------------------------
(* deploy.sh *)

WritersAgree == IF env.runtime = "legacy" THEN "workers" \notin up ELSE ~units

\* The identity of the runtime is compared with what runs; every writer is
\* stopped.
Deploy(target) ==
    /\ Ordered /\ WritersAgree
    /\ script' = [NoScript EXCEPT !.name = "deploy", !.at = "backup", !.image = env.image, !.target = target]
    /\ IF env.runtime = "legacy" THEN units' = FALSE /\ UNCHANGED <<up, serving>>
       ELSE up' = {} /\ units' = units /\ serving' = serving
    /\ UNCHANGED <<home, env, state, init, backup, slipped, writes, faults>>

BackedUp ==
    /\ At("deploy", "backup") /\ Goes("gateway")
    /\ backup' = [state |-> state, image |-> script.image, runtime |-> env.runtime]
    /\ env' = [env EXCEPT !.image = script.target]
    /\ UNCHANGED <<units, home, up, serving, state, init, slipped, writes, faults, orders>>

\* restart_previous_on_prebackup_failure: the only place of the scripts that
\* starts the services together with what they depend on.
BackupFails ==
    /\ At("deploy", "backup") /\ Fault /\ script' = NoScript
    /\ IF env.runtime = "legacy" THEN units' = TRUE /\ init' = init ELSE units' = units /\ init' = "snapshot"
    /\ UNCHANGED <<home, up, serving, env, state, backup, slipped, writes, orders>>

\* The mount of a directory that is not there makes an empty one; the gateway
\* looks for the marker of the layout (verify_layout).
Mounted == IF state.layout = 3 THEN state ELSE [state EXCEPT !.layout = 0]

GatewayStarts ==
    /\ At("deploy", "gateway") /\ state' = Mounted
    /\ IF state.layout = 3 THEN Goes("smoke") /\ up' = {"gateway"} /\ serving' = env.image
       ELSE Goes("failed") /\ UNCHANGED <<up, serving>>
    /\ UNCHANGED <<units, home, env, init, backup, slipped, writes, faults, orders>>

\* The smoke test works off up to three mails.
Smoke ==
    /\ At("deploy", "smoke") /\ Goes("workers") /\ writes < MaxWrites
    /\ writes' = writes + 1 /\ state' = [state EXCEPT !.data = writes + 1]
    /\ UNCHANGED <<units, home, up, serving, env, init, backup, slipped, faults, orders>>

WorkersStart ==
    /\ At("deploy", "workers") /\ Goes("done") /\ up' = {"gateway", "workers"}
    /\ UNCHANGED <<units, home, serving, env, state, init, backup, slipped, writes, faults, orders>>

Deployed ==
    /\ At("deploy", "done") /\ script' = NoScript /\ env' = [env EXCEPT !.runtime = "docker"]
    /\ UNCHANGED <<units, home, up, serving, state, init, backup, slipped, writes, faults, orders>>

\* A command after the backup fails.
DeployFails ==
    /\ script.name = "deploy" /\ script.at \in {"gateway", "smoke", "workers", "done"} /\ Fault /\ Goes("failed")
    /\ UNCHANGED <<units, home, up, serving, env, state, init, backup, slipped, writes, orders>>

-----------------------------------------------------------------------------
(* rollback.sh *)

\* "compose down || true": containers that cannot be stopped stay, and the rollback
\* goes on.
Down(back, auto) ==
    /\ script' = [NoScript EXCEPT !.name = "rollback", !.at = "state", !.auto = auto, !.back = back]
    /\ \/ up' = {} /\ faults' = faults
       \/ Fault /\ up' \in SUBSET up \ {{}}
    /\ slipped' = (up' # {})
    /\ UNCHANGED <<units, home, serving, env, state, init, backup, writes>>

RollbackOnFailure == At("deploy", "failed") /\ Down(backup, TRUE) /\ orders' = orders

\* By hand, when the units do not run.
Rollback == Ordered /\ backup # NoBackup /\ ~units /\ Down(backup, FALSE)

\* Mutant: what the failed deployment left is kept.
RestoreNothing(d) ==
    /\ At("rollback", d) /\ Goes(Following[d])
    /\ UNCHANGED <<units, home, up, serving, env, state, init, backup, slipped, writes, faults, orders>>

\* restore-local-state.sh
Restore(d) ==
    /\ At("rollback", d) /\ Goes(Following[d]) /\ state' = Copied(d, script.back.state)
    /\ UNCHANGED <<units, home, up, serving, env, init, backup, slipped, writes, faults, orders>>

\* The former runtime goes on, the gateway and the workers one after the other; a
\* gateway that does not find the present layout does not start, nor do the workers.
StartAgain ==
    /\ At("rollback", "ready") /\ env' = [image |-> script.back.image, runtime |-> script.back.runtime]
    /\ script' = NoScript
    /\ IF script.back.runtime = "legacy" THEN units' = TRUE /\ UNCHANGED <<up, serving, state>>
       ELSE /\ state' = Mounted /\ units' = units
            /\ up' = IF state.layout = 3 THEN {"gateway", "workers"} ELSE up
            /\ serving' = script.back.image
    /\ UNCHANGED <<home, init, backup, slipped, writes, faults, orders>>

\* A script is killed, or a rollback fails: nothing is undone.
Killed ==
    /\ script.name # "none" /\ Fault /\ script' = NoScript
    /\ UNCHANGED <<units, home, up, serving, env, state, init, backup, slipped, writes, orders>>

Scripts ==
    \/ Prepublished \/ Published \/ MigrationFails \/ Undone \/ UndoFails
    \/ (\E d \in Directories : Publish(d) \/ PutBack(d) \/ Restore(d))
    \/ BackedUp \/ BackupFails \/ GatewayStarts \/ Smoke \/ WorkersStart \/ Deployed
    \/ DeployFails \/ RollbackOnFailure \/ StartAgain \/ Killed

Next ==
    \/ UnitsWrite \/ WorkersWrite \/ (\E f \in Profile : ProfileEdited(f) \/ PromoteFile(f))
    \/ OperatorUp \/ Snapshot \/ Stage \/ Promoted \/ InitKilled
    \/ MigrateLive \/ (\E target \in Images : Deploy(target)) \/ Rollback \/ Scripts

Spec == Init /\ [][Next]_deployVars

-----------------------------------------------------------------------------
(* Properties *)

\* Units and containers never write at the same time, wherever a script was
\* killed and whatever is tried next (deploy.sh: the gate of the single writer),
\* unless a rollback could not stop the workers.
OneRuntime == units /\ "workers" \in up => slipped

\* Wherever the migration of the profile was cut off: the setup state says
\* "complete" only over a profile that is whole
\* (_promote_completed_legacy_workspace_profile).
SetupMeansWhole == state.profile["setup"] = "legacy" => state.profile["identity"] # "generated"

\* Of every step: an automatic rollback after which anything runs has brought back what
\* the backup holds: the writers that go on find the data, the layout and the
\* configuration they left (rollback.sh), unless it could not stop the others.
RollbackRestores ==
    /\ script.name = "rollback" /\ script.auto /\ script'.name = "none" /\ faults' = faults
    /\ ~slipped /\ (units' \/ up' # {})
    => state' = backup.state /\ env'.runtime = backup.runtime

\* docs/DOCKER_DEPLOYMENT.md: step 9 runs layout-init before the gateway starts.  The
\* code does not keep it: no step of deploy.sh does.
DeployMigrates == script.name = "deploy" /\ script.at = "failed" => state.layout # 0
=============================================================================
