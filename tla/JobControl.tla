------------------------------ MODULE JobControl ------------------------------
(***************************************************************************)
(* The switchboard of the background jobs (personal_assistant/job_control.py, *)
(* container mode): what is desired of each job, the alerts that are active  *)
(* and the last mail recovery, kept in one JSON file.  Every command is a    *)
(* process of its own that reads the file once, works for up to minutes, and *)
(* writes the whole of it back: through a temporary file whose name all      *)
(* processes share, and without a lock.                                      *)
(*                                                                          *)
(* A job has one alert code here.  Files are modelled as names of inodes,    *)
(* because two writers of the temporary file may hold the same one.          *)
(***************************************************************************)
EXTENDS Naturals, FiniteSets

CONSTANTS
    Jobs,           \* the registered jobs, without the supervisor
    Mail,           \* the job with a production gate
    DefaultOn,      \* jobs that are on unless the file says otherwise
    Observers,      \* supervisor processes: check without recovery
    Admins,         \* command line processes: on, off, check
    Inodes,         \* enough inodes for all writers
    None,           \* no inode
    Torn,           \* content that is not JSON: empty, or two documents over each other
    MaxEvents       \* bound: how often the user commands, a command is killed, a job's health or the gate changes

\* The recorded recovery: it failed less than 30 minutes ago at the gate as it still is,
\* or it does not hold back another one.
Attempts == {"none", "failed"}

ControlAssumption ==
    /\ Mail \in Jobs /\ DefaultOn \subseteq Jobs
    /\ Observers \cap Admins = {} /\ Inodes # {} /\ None \notin Inodes
    /\ Torn \notin [desired : SUBSET Jobs, alerts : SUBSET Jobs, attempt : Attempts]
    /\ MaxEvents \in Nat
ASSUME ControlAssumption

Process == Observers \cup Admins

\* The content of the state file.
State == [desired : SUBSET Jobs, alerts : SUBSET Jobs, attempt : Attempts]
Defaults == [desired |-> DefaultOn, alerts |-> {}, attempt |-> "none"]

VARIABLES
    disk,       \* the content of every inode
    stateName,  \* the inode job_control.json names
    tmpName,    \* the inode job_control.json.tmp names, or None
    pc,         \* where a process is
    cmd,        \* its command
    sel,        \* the jobs it selected
    mem,        \* its copy of the state
    handle,     \* the inode it writes
    back,       \* where it goes on after saving
    fresh,      \* the jobs an on command found switched off
    sick,       \* jobs whose worker has an issue
    stale,      \* is a stale dry run all that blocks the mail job?
    off,        \* history: jobs whose last switch was off, as the user was told
    events      \* how much of that happened

fileVars == <<disk, stateName, tmpName>>
procVars == <<pc, cmd, sel, mem, handle, back, fresh>>
world == <<sick, stale>>
history == <<off, events>>
vars == <<fileVars, procVars, world, history>>

Init ==
    /\ stateName = CHOOSE i \in Inodes : TRUE
    /\ disk = [i \in Inodes |-> IF i = stateName THEN Defaults ELSE Torn]
    /\ tmpName = None
    /\ pc = [p \in Process |-> "idle"] /\ cmd = [p \in Process |-> "check"]
    /\ sel = [p \in Process |-> {}] /\ mem = [p \in Process |-> Defaults]
    /\ handle = [p \in Process |-> None] /\ back = [p \in Process |-> "idle"]
    /\ fresh = [p \in Process |-> {}]
    /\ sick = {} /\ stale = FALSE
    /\ off = {} /\ events = 0

Happens == events < MaxEvents /\ events' = events + 1
Idle(p) == pc[p] = "idle"
Content == disk[stateName]

\* _load_state: whatever is not a JSON document counts as an empty one.
Load == IF Content = Torn THEN Defaults ELSE Content

-----------------------------------------------------------------------------
(* _save_state: truncate or create the temporary file, write it, rename it *)

\* Which free inode a new file gets makes no difference.
Unnamed == {i \in Inodes : i # stateName /\ i # tmpName /\ \A p \in Process : handle[p] # i}

Open(p) ==
    /\ pc[p] = "open"
    /\ tmpName = None => Unnamed # {}
    /\ tmpName' = IF tmpName = None THEN CHOOSE i \in Unnamed : TRUE ELSE tmpName
    /\ disk' = [disk EXCEPT ![tmpName'] = Torn]
    /\ handle' = [handle EXCEPT ![p] = tmpName']
    /\ pc' = [pc EXCEPT ![p] = "write"]
    /\ UNCHANGED <<stateName, cmd, sel, mem, back, fresh, world, history>>

\* Over a longer document somebody wrote meanwhile, the rest of that document stays.
Write(p) ==
    /\ pc[p] = "write"
    /\ \E text \in IF disk[handle[p]] \in {Torn, mem[p]} THEN {mem[p]} ELSE {mem[p], Torn} :
         disk' = [disk EXCEPT ![handle[p]] = text]
    /\ pc' = [pc EXCEPT ![p] = "rename"] /\ handle' = [handle EXCEPT ![p] = None]
    /\ UNCHANGED <<stateName, tmpName, cmd, sel, mem, back, fresh, world, history>>

\* A process ends, with what it knew.
Ends(p) ==
    /\ pc' = [pc EXCEPT ![p] = "idle"] /\ handle' = [handle EXCEPT ![p] = None]
    /\ sel' = [sel EXCEPT ![p] = {}] /\ fresh' = [fresh EXCEPT ![p] = {}]
    /\ mem' = [mem EXCEPT ![p] = Defaults]
    /\ cmd' = [cmd EXCEPT ![p] = "check"] /\ back' = [back EXCEPT ![p] = "idle"]

\* What the user is told to be switched.
Reported(p) ==
    off' = IF back[p] = "switched" /\ cmd[p] = "off" THEN off \cup sel[p] ELSE off

Rename(p) ==
    /\ pc[p] = "rename"
    /\ IF tmpName = None
       THEN /\ Ends(p)          \* FileNotFoundError
            /\ UNCHANGED <<fileVars, off>>
       ELSE /\ stateName' = tmpName /\ tmpName' = None
            /\ disk' = [disk EXCEPT ![stateName] = Torn]       \* the old file is gone
            /\ pc' = [pc EXCEPT ![p] = back[p]] /\ back' = [back EXCEPT ![p] = "idle"]
            /\ Reported(p)
            /\ UNCHANGED <<cmd, sel, mem, handle, fresh>>
    /\ UNCHANGED <<world, events>>

\* Saves the state s and goes on at place.
SaveThen(p, s, place) ==
    /\ mem' = [mem EXCEPT ![p] = s]
    /\ back' = [back EXCEPT ![p] = place]
    /\ pc' = [pc EXCEPT ![p] = "open"]

Goto(p, place) == pc' = [pc EXCEPT ![p] = place]

-----------------------------------------------------------------------------
(* The commands *)

\* Jobs named one by one or all together.
Targets == {Jobs} \cup {{j} : j \in Jobs}

Check(p) ==
    /\ Idle(p)
    /\ IF p \in Admins THEN Happens ELSE UNCHANGED events
    /\ \E target \in IF p \in Observers THEN {Jobs} ELSE Targets :
         sel' = [sel EXCEPT ![p] = target]
    /\ mem' = [mem EXCEPT ![p] = Load] /\ cmd' = [cmd EXCEPT ![p] = "check"]
    /\ Goto(p, IF p \in Observers THEN "look" ELSE "gate")
    /\ UNCHANGED <<fileVars, handle, back, fresh, world, off>>

On(p) ==
    /\ Idle(p) /\ p \in Admins /\ Happens
    /\ \E target \in Targets :
         /\ sel' = [sel EXCEPT ![p] = target]
         /\ fresh' = [fresh EXCEPT ![p] = target \ Load.desired]
         /\ SaveThen(p, [Load EXCEPT !.desired = @ \cup target], "switched")
         /\ off' = off \ target
    /\ cmd' = [cmd EXCEPT ![p] = "on"]
    /\ UNCHANGED <<fileVars, handle, world>>

Off(p) ==
    /\ Idle(p) /\ p \in Admins /\ Happens
    /\ \E target \in Targets :
         /\ sel' = [sel EXCEPT ![p] = target]
         /\ SaveThen(p, [Load EXCEPT !.desired = @ \ target], "switched")
         /\ off' = off \ target
    /\ cmd' = [cmd EXCEPT ![p] = "off"]
    /\ UNCHANGED <<fileVars, handle, fresh, world>>

\* off looks at all jobs.
Switched(p) ==
    /\ pc[p] = "switched"
    /\ sel' = [sel EXCEPT ![p] = IF cmd[p] = "off" THEN Jobs ELSE @]
    /\ Goto(p, "look")
    /\ UNCHANGED <<fileVars, cmd, mem, handle, back, fresh, world, history>>

-----------------------------------------------------------------------------
(* check: the recovery of the mail gate *)

NeedsRecovery(p) == Mail \in sel[p] \cap mem[p].desired /\ stale /\ mem[p].attempt = "none"

NoRecovery(p) ==
    /\ pc[p] = "gate" /\ ~NeedsRecovery(p)
    /\ Goto(p, "look")
    /\ UNCHANGED <<fileVars, cmd, sel, mem, handle, back, fresh, world, history>>

Quiesce(p) ==
    /\ pc[p] = "gate" /\ NeedsRecovery(p)
    /\ SaveThen(p, [mem[p] EXCEPT !.desired = @ \ {Mail}], "dry")
    /\ UNCHANGED <<fileVars, cmd, sel, handle, fresh, world, history>>

\* _restore_mail_timer.
Restore(p, place) == SaveThen(p, [mem[p] EXCEPT !.desired = @ \cup {Mail}], place)

\* The mail job did not become idle in two minutes, or its lock stayed taken.
Busy(p) ==
    /\ pc[p] = "dry" /\ Restore(p, "restored")
    /\ UNCHANGED <<fileVars, cmd, sel, handle, fresh, world, history>>

\* The dry run, and the attempt recorded.  A dry run that fails records its time in
\* the gate too, which is part of the attempt's signature: the attempt holds the next
\* one back only if the dry run ended before it could do so.
DryRun(p) ==
    /\ pc[p] = "dry"
    /\ \E result \in Attempts :
         /\ stale' \in IF result = "failed" THEN {stale} ELSE {stale, FALSE}
         /\ SaveThen(p, [mem[p] EXCEPT !.attempt = result], "recovered")
    /\ UNCHANGED <<fileVars, cmd, sel, handle, fresh, sick, history>>

\* Whatever came of it, the mail job is switched on again.
Recovered(p) ==
    /\ pc[p] = "recovered" /\ Restore(p, "restored")
    /\ UNCHANGED <<fileVars, cmd, sel, handle, fresh, world, history>>

Restored(p) ==
    /\ pc[p] = "restored" /\ Goto(p, "look")
    /\ UNCHANGED <<fileVars, cmd, sel, mem, handle, back, fresh, world, history>>

-----------------------------------------------------------------------------
(* _record *)

\* The issues of jobs that should run.
Issues(p) == sick \cap sel[p] \cap mem[p].desired

\* Mutant: what was on record stays there.
ActiveForever(p, issues, old) == issues \cup mem[p].alerts

\* Alerts of jobs not looked at stay for a day.
Active(p, issues, old) == issues \cup (mem[p].alerts \ (sel[p] \cup old))

\* A job just switched on gets time for its first heartbeat.
Record(p) ==
    /\ pc[p] = "look"
    /\ \E starting \in SUBSET (IF cmd[p] = "on" THEN fresh[p] ELSE {}), old \in SUBSET (mem[p].alerts \ sel[p]) :
         SaveThen(p, [mem[p] EXCEPT !.alerts = Active(p, Issues(p) \ starting, old)], "notify")
    /\ UNCHANGED <<fileVars, cmd, sel, handle, fresh, world, history>>

\* One event for what is new and what is over (GatewayEvents); nobody repeats it if
\* it cannot be queued.
Notify(p) ==
    /\ pc[p] = "notify" /\ Ends(p)
    /\ UNCHANGED <<fileVars, world, history>>

-----------------------------------------------------------------------------
(* The surroundings *)

Killed(p) ==
    /\ ~Idle(p) /\ Happens /\ Ends(p)
    /\ UNCHANGED <<fileVars, world, off>>

Sicken(j) == j \notin sick /\ sick' = sick \cup {j} /\ Happens /\ UNCHANGED <<fileVars, procVars, stale, off>>
Heal(j) == j \in sick /\ sick' = sick \ {j} /\ Happens /\ UNCHANGED <<fileVars, procVars, stale, off>>
Gate == stale' = ~stale /\ Happens /\ UNCHANGED <<fileVars, procVars, sick, off>>

\* Thirty minutes pass, or the gate's record changes: no attempt holds back the next.
Lapse ==
    /\ disk' = [i \in Inodes |-> IF disk[i] = Torn THEN Torn ELSE [disk[i] EXCEPT !.attempt = "none"]]
    /\ mem' = [p \in Process |-> [mem[p] EXCEPT !.attempt = "none"]]
    /\ UNCHANGED <<stateName, tmpName, pc, cmd, sel, handle, back, fresh, world, history>>

Start(p) == Check(p) \/ On(p) \/ Off(p)
Save(p) == Open(p) \/ Write(p) \/ Rename(p)
Recovery(p) == NoRecovery(p) \/ Quiesce(p) \/ Busy(p) \/ DryRun(p) \/ Recovered(p) \/ Restored(p)
Work(p) == Save(p) \/ Switched(p) \/ Recovery(p) \/ Record(p) \/ Notify(p)

Surroundings ==
    \/ \E j \in Jobs : Sicken(j) \/ Heal(j)
    \/ Gate \/ Lapse

Next == Surroundings \/ \E p \in Process : Start(p) \/ Work(p) \/ Killed(p)

Spec == Init /\ [][Next]_vars

\* Commands run to their end; the supervisor's check is started again and again.
FairSpec ==
    /\ Spec
    /\ \A p \in Process : WF_vars(Work(p))
    /\ \A p \in Observers : SF_vars(Check(p))

-----------------------------------------------------------------------------
(* Properties *)

TypeOK ==
    /\ disk \in [Inodes -> State \cup {Torn}] /\ stateName \in Inodes /\ tmpName \in Inodes \cup {None}
    /\ pc \in [Process -> {"idle", "open", "write", "rename", "gate", "dry", "recovered", "restored",
                           "switched", "look", "notify"}]
    /\ cmd \in [Process -> {"check", "on", "off"}] /\ sel \in [Process -> SUBSET Jobs]
    /\ \A p \in Process : handle[p] # None <=> pc[p] = "write"
    /\ mem \in [Process -> State] /\ handle \in [Process -> Inodes \cup {None}]
    /\ back \in [Process -> {"idle", "dry", "recovered", "restored", "switched", "notify"}]
    /\ fresh \in [Process -> SUBSET Jobs]
    /\ sick \subseteq Jobs /\ stale \in BOOLEAN
    /\ off \subseteq Jobs /\ events \in Nat

\* docs/JOB_CONTROL.md: "OFF: deliberately disabled by the user".  A job the user
\* switched off, and was told so, is off in the file until the user switches it on.
OffStaysOff == Content # Torn => off \cap Content.desired = {}

\* Whatever overlapping commands left in the file, lost alerts, stale ones or no
\* document at all, the checks of the supervisor put it right once nobody else writes:
\* what stays sick and is desired is on record for good, what stays well is not.
AdminsRest == \A a \in Admins : Idle(a)
AlertsCatchUp ==
    \A j \in Jobs :
      /\ <>[](AdminsRest /\ j \in sick) => <>[](j \in Load.desired => j \in Load.alerts)
      /\ <>[](AdminsRest /\ j \notin sick) => <>[](j \notin Load.alerts)
===============================================================================
