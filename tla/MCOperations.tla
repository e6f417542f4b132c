---------------------------- MODULE MCOperations ----------------------------
(***************************************************************************)
(* What keeps the assistant running and what comes back by itself, checked   *)
(* in one run: the switchboard of the jobs (JobControl), the gate of the     *)
(* mail job (MailOwner), the deployment and the migration of its state       *)
(* (Deployment, StateMigration), the switches of the tools (ToolSetup), the  *)
(* repair of the register of invoices (ActionPlans, whose other plans        *)
(* MCActionPlans checks) and the synchronisation with the cloud              *)
(* (NextcloudSync).  They share no state here, and a behaviour is one of one *)
(* of them: the first state says of which.                                   *)
(***************************************************************************)
EXTENDS JobControl, Integers, Sequences

CONSTANTS
    MailWorkers, Setups, MaxOwnerEdits, MaxTroubles,            \* MailOwner
    Images, MaxWrites, MaxFaults, MaxOrders,                    \* Deployment
    Projects, KnownProjects, MaxRuns,                           \* StateMigration
    Domains, Resources, KindOf, KindOfResource, MaxCommands,    \* ToolSetup
    CloudKinds, CloudPaths, ObjectUids, BatchSize, MaxItems, MaxCloudEdits, MaxBreaks \* NextcloudSync

\* 0 stands for the operator's own run.  Only the orders need a board of the kind
\* "deck-board" (tool_setup.py, configure_deck_orders_tools), whose rights they set.
\* The paths of a resource are finitely many and have an order.
OperationsAssumption ==
    /\ 0 \notin MailWorkers
    /\ Setups # {}
    /\ "orders" \in Domains => \A d \in Domains : KindOf[d] = KindOf["orders"] => d = "orders"
    /\ CloudPaths \subseteq Nat /\ IsFiniteSet(CloudPaths) /\ BatchSize \in Nat
ASSUME OperationsAssumption

VARIABLES
    turn,       \* which of the components the behaviour is about
    files, taught, mailGate, recovery, checks, holder, run, loop, tested, touched, failures,
    edits, troubles,
    units, volume, up, serving, env, state, init, backup, script, slipped, writes, faults, orders,
    home, secrets, given, migration,
    switches, registry, server, command,
    status, remote, version, calls, job, route, etag, granted, applied, strangers, lapses,
    deaths,
    kind, cloud, inventory, documents, cursor, sync, meddled, torn, etags, breaks

SomeDomains == {"calendar", "orders", "mail", "calendar_mail"}
SomeResources == {"cal", "board", "mail"}
SomeKindOf == [calendar |-> "calendar", orders |-> "board", mail |-> "mail", calendar_mail |-> "calendar"]
SomeKinds == [cal |-> "calendar", board |-> "board", mail |-> "mail"]

Owner == INSTANCE MailOwner WITH
    Workers <- MailWorkers, MaxEdits <- MaxOwnerEdits, gate <- mailGate

Deploy == INSTANCE Deployment WITH home <- volume

Migration == INSTANCE StateMigration WITH Known <- KnownProjects

Tools == INSTANCE ToolSetup WITH Kinds <- KindOfResource, tools <- switches

Register == INSTANCE ActionPlans WITH
    Plans <- {"register"}, Clients <- {1, 2}, Objects <- {"path"}, Contents <- {"x", "y"},
    Nothing <- "nothing", Kind <- [p \in {"register"} |-> "register"],
    Target <- [p \in {"register"} |-> "path"], Source <- [p \in {"register"} |-> "path"],
    Body <- [p \in {"register"} |-> "x"], NeedsApproval <- {}, Routes <- {"register"},
    MaxEdits <- 1, MaxFaults <- 1, MaxCrashes <- 0, pc <- calls, edits <- strangers,
    faults <- lapses, crashes <- deaths

Sync == INSTANCE NextcloudSync WITH
    Kinds <- CloudKinds, Paths <- CloudPaths, Uids <- ObjectUids, MaxEdits <- MaxCloudEdits,
    remote <- cloud, touched <- meddled

ownerVars == <<files, taught, mailGate, recovery, checks, holder, run, loop, tested, touched, failures,
    edits, troubles>>
deployVars == <<units, volume, up, serving, env, state, init, backup, script, slipped, writes, faults,
    orders>>
migrateVars == <<home, secrets, given, migration>>
toolsVars == <<switches, registry, server, command>>
registerVars == <<status, remote, version, calls, job, route, etag, granted, applied, strangers, lapses,
    deaths>>
syncVars == <<kind, cloud, inventory, documents, cursor, sync, meddled, torn, etags, breaks>>
allVars == <<turn, vars, ownerVars, deployVars, migrateVars, toolsVars, registerVars, syncVars>>

\* The variables of a component whose turn it is not are all 0.
AllInit ==
    /\ turn \in {"control", "owner", "deploy", "migrate", "tools", "register", "sync"}
    /\ Init
    /\ IF turn = "owner" THEN Owner!Init ELSE
         /\ files = 0 /\ taught = 0 /\ mailGate = 0 /\ recovery = 0 /\ checks = 0
         /\ holder = 0 /\ run = 0 /\ loop = 0 /\ tested = 0 /\ touched = 0 /\ failures = 0
         /\ edits = 0 /\ troubles = 0
    /\ IF turn = "deploy" THEN Deploy!Init ELSE
         /\ units = 0 /\ volume = 0 /\ up = 0 /\ serving = 0 /\ env = 0 /\ state = 0
         /\ init = 0 /\ backup = 0 /\ script = 0 /\ slipped = 0 /\ writes = 0 /\ faults = 0 /\ orders = 0
    /\ IF turn = "migrate" THEN Migration!Init ELSE
         /\ home = 0 /\ secrets = 0 /\ given = 0 /\ migration = 0
    /\ IF turn = "tools" THEN Tools!Init ELSE
         /\ switches = 0 /\ registry = 0 /\ server = 0 /\ command = 0
    /\ IF turn = "register" THEN Register!Init ELSE
         /\ status = 0 /\ remote = 0 /\ version = 0 /\ calls = 0 /\ job = 0 /\ route = 0
         /\ etag = 0 /\ granted = 0 /\ applied = 0 /\ strangers = 0 /\ lapses = 0
         /\ deaths = 0
    /\ IF turn = "sync" THEN Sync!Init ELSE
         /\ kind = 0 /\ cloud = 0 /\ inventory = 0 /\ documents = 0 /\ cursor = 0
         /\ sync = 0 /\ meddled = 0 /\ torn = 0 /\ etags = 0 /\ breaks = 0

ControlStep ==
    /\ turn = "control" /\ Next
    /\ UNCHANGED <<turn, ownerVars, deployVars, migrateVars, toolsVars, registerVars, syncVars>>

OwnerStep ==
    /\ turn = "owner" /\ Owner!Next
    /\ UNCHANGED <<turn, vars, deployVars, migrateVars, toolsVars, registerVars, syncVars>>

DeployStep ==
    /\ turn = "deploy" /\ Deploy!Next
    /\ UNCHANGED <<turn, vars, ownerVars, migrateVars, toolsVars, registerVars, syncVars>>

MigrationStep ==
    /\ turn = "migrate" /\ Migration!Next
    /\ UNCHANGED <<turn, vars, ownerVars, deployVars, toolsVars, registerVars, syncVars>>

ToolsStep ==
    /\ turn = "tools" /\ Tools!Next
    /\ UNCHANGED <<turn, vars, ownerVars, deployVars, migrateVars, registerVars, syncVars>>

RegisterStep ==
    /\ turn = "register" /\ Register!Next
    /\ UNCHANGED <<turn, vars, ownerVars, deployVars, migrateVars, toolsVars, syncVars>>

SyncStep ==
    /\ turn = "sync" /\ Sync!Next
    /\ UNCHANGED <<turn, vars, ownerVars, deployVars, migrateVars, toolsVars, registerVars>>

AllNext ==
    \/ ControlStep \/ OwnerStep \/ DeployStep \/ MigrationStep \/ ToolsStep \/ RegisterStep
    \/ SyncStep

AllSpec == AllInit /\ [][AllNext]_allVars

\* The fairness of JobControl and of MailOwner, each in its own behaviours.
ControlFairness ==
    /\ \A p \in Process : WF_vars(turn = "control" /\ Work(p))
    /\ \A p \in Observers : SF_vars(turn = "control" /\ Check(p))

OwnerFairness ==
    /\ \A w \in MailWorkers : WF_ownerVars(turn = "owner" /\ Owner!Work(w))
    /\ WF_ownerVars(turn = "owner" /\ Owner!World)

\* The register is asked for again and again.
RegisterFairness ==
    \A c \in {1, 2} :
      /\ WF_registerVars(turn = "register" /\ Register!Proceed(c))
      /\ WF_registerVars(turn = "register" /\ Register!Begin(c))

FairAllSpec ==
    AllSpec /\ ControlFairness /\ OwnerFairness /\ RegisterFairness

-----------------------------------------------------------------------------
(* Properties *)

\* JobControl: the alerts on record come to agree with the workers.
AlertsAreCurrent == turn = "control" => AlertsCatchUp

\* MailOwner: however the dry runs failed and whoever held the lock, mail is worked
\* off again and again.
MailGoesOn == []<>(turn = "owner" => Owner!Draining)

\* MailOwner: a productive run works only with what a dry run without errors
\* worked with, unless something was changed under the eyes of that dry run or of
\* the start of the productive one.
DrainsAreTested == turn = "owner" => Owner!DrainsAreTested

\* ToolSetup: outside the standard profile a function that is on has its right,
\* after every failure between the two files.
SetupIsWhole == turn = "tools" => Tools!SetupIsWhole

\* Wherever a script is killed: units and containers never write together, a
\* setup is called complete only over a whole profile, and a rollback that ends
\* brings back what the backup holds (Deployment).  A migration that ends well
\* leaves nothing of the host behind and lost no secret (StateMigration).
DeploysWhole ==
    /\ [](turn = "deploy" => Deploy!OneRuntime /\ Deploy!SetupMeansWhole)
    /\ [](turn = "migrate" => Migration!MigratesWhole)
    /\ [][turn = "deploy" => Deploy!RollbackRestores]_allVars

\* ActionPlans: the register of a year is whole again and again, whatever transfer
\* failed and whoever changed it meanwhile, as long as its runs are not killed.
\* "Auch ein Dublettenlauf versucht die Synchronisation erneut, sodass ein zuvor
\* fehlgeschlagener CSV-Transfer repariert werden kann." (docs/INVOICE_OCR_REGISTER.md)
RegisterComesBack == []<>(turn = "register" => Register!Holds("register"))

\* NextcloudSync: a run that calls the resource "ok" leaves the right document of
\* every object nobody touched meanwhile, and no run takes away the document of such
\* an object while it is in the cloud.
SyncIsFaithful ==
    /\ [](turn = "sync" => Sync!OkMeansWhole)
    /\ [][turn = "sync" => Sync!RemovedOnlyWhenGone]_allVars
=============================================================================
