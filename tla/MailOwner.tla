------------------------------ MODULE MailOwner ------------------------------
(***************************************************************************)
(* The production gate of the mail job.  The job loop starts a cycle of the  *)
(* mail owner (personal_assistant/mail_owner_cycle.py), which starts the     *)
(* mail worker (mail_worker.py), which asks whether the gate is open, tries  *)
(* to open it by a dry run, and starts the productive run, which asks again  *)
(* (mail_agent/cli.py, setup_assistant.py).  The mail index is reconciled    *)
(* after a run that ended well.  Everything that touches the mailbox holds   *)
(* the process lock (mail_agent/lock.py) or gives up at once.                *)
(*                                                                          *)
(* The loop terminates only the cycle it started, so that a worker may       *)
(* outlive it and meet the worker of the next cycle.                         *)
(***************************************************************************)
EXTENDS Naturals, FiniteSets

CONSTANTS
    Workers,        \* workers that may be alive at once
    Setups,         \* contents of configuration, rules and program files
    MaxEdits,       \* bound: changes of these or of what was learnt
    MaxTroubles     \* bound: failures of any kind, and runs of the operator

VARIABLES
    files,          \* the current content of the files in the fingerprint
    taught,         \* changes of the corrections learnt
    gate,           \* setup_state.json
    recovery,       \* mail_worker_recovery.json
    checks,         \* whether the required checks of doctor() are good
    holder,         \* who holds the process lock: a worker, the operator, or nobody
    run,            \* the run of each worker, and of the operator
    loop,           \* the worker the job loop waits for, if any
    tested,         \* history: what a dry run without errors worked with
    touched,        \* history: what was changed while a run was about to rely on it
    failures,       \* history: failed dry runs of the workers in the last half hour
    edits, troubles \* the bounded events so far

history == <<tested, touched, failures>>
ownerVars == <<files, taught, gate, recovery, checks, holder, run, loop, history, edits, troubles>>

Setup == <<files, taught>>
Operator == 0

\* Where a run is, the configuration it works with, the dry runs that met a
\* taken lock, and what it saw behind a closed gate.
Idle == [at |-> "idle", sees |-> <<>>, try |-> 1, signature |-> <<>>]

At(w) == run[w].at

Init ==
    /\ files = (CHOOSE s \in Setups : TRUE) /\ taught = 0
    /\ gate = [at |-> 0, ok |-> FALSE, print |-> files]
    /\ recovery = [signature |-> <<>>, ok |-> TRUE, recent |-> FALSE]
    /\ checks = TRUE /\ holder = {} /\ loop = {}
    /\ run = [w \in Workers \cup {Operator} |-> Idle]
    /\ tested = {} /\ touched = {} /\ failures = 0 /\ edits = 0 /\ troubles = 0

-----------------------------------------------------------------------------
(* The world *)

\* Runs that work with what is current, or are about to have it approved.
Relying == {w \in DOMAIN run : At(w) \in {"testing", "load"}}

Edited ==
    /\ edits < MaxEdits /\ edits' = edits + 1 /\ failures' = 0 /\ tested' = tested
    /\ touched' = IF Relying = {} THEN touched
                  ELSE touched \cup {run[w].sees : w \in Relying} \cup {<<files', taught'>>}
    /\ UNCHANGED <<recovery, checks, holder, run, loop, troubles>>

\* Configuration, rules or the program change on disk.
Edit(s) == s # files /\ files' = s /\ taught' = taught /\ gate' = gate /\ Edited

\* A learning command changes the corrections and then closes the gate
\* (invalidate_dry_run); it takes no lock.
Teach ==
    /\ taught' = taught + 1 /\ files' = files /\ Edited
    /\ gate' = [gate EXCEPT !.ok = FALSE]

Trouble == troubles < MaxTroubles /\ troubles' = troubles + 1

ChecksFail ==
    /\ checks /\ checks' = FALSE /\ failures' = 0 /\ Trouble
    /\ UNCHANGED <<files, taught, gate, recovery, holder, run, loop, tested, touched, edits>>

ChecksRecover ==
    /\ ~checks /\ checks' = TRUE
    /\ UNCHANGED <<files, taught, gate, recovery, holder, run, loop, history, edits, troubles>>

HalfHour ==
    /\ recovery.recent /\ recovery' = [recovery EXCEPT !.recent = FALSE] /\ failures' = 0
    /\ UNCHANGED <<files, taught, gate, checks, holder, run, loop, tested, touched, edits, troubles>>

\* record_dry_run: the fingerprint is that of the files at the end of the run.
Recorded(ok, w) ==
    /\ gate' = [at |-> gate.at + 1, ok |-> ok, print |-> files]
    /\ tested' = IF ok THEN tested \cup {run[w].sees} ELSE tested

Goes(w, place, sees) == run' = [run EXCEPT ![w].at = place, ![w].sees = sees]

\* The operator's dry run, or another command that holds the lock for a time.
OperatorStarts ==
    /\ holder = {} /\ holder' = {Operator} /\ Goes(Operator, "testing", Setup) /\ Trouble
    /\ UNCHANGED <<files, taught, gate, recovery, checks, loop, history, edits>>

OperatorEnds ==
    /\ holder = {Operator} /\ holder' = {} /\ run' = [run EXCEPT ![Operator] = Idle]
    /\ Recorded(TRUE, Operator) \/ UNCHANGED <<gate, tested>>
    /\ UNCHANGED <<files, taught, recovery, checks, loop, touched, failures, edits, troubles>>

-----------------------------------------------------------------------------
(* The worker *)

Blocked == ~gate.ok \/ gate.print # files

\* _signature: blockers and gate, with the time of the last dry run.
Signature == <<gate, files>>

\* Mutant: the age of the failure does not count.
InCooldownForEver(s) == recovery.signature = s /\ ~recovery.ok

InCooldown(s) == recovery.signature = s /\ ~recovery.ok /\ recovery.recent

\* The worker ends with a code.  The cycle that still waits for it goes on to
\* the reconciliation of the index only if the run ended well.
Ends(w, well) ==
    IF well /\ loop = {w} THEN run' = [run EXCEPT ![w] = [Idle EXCEPT !.at = "index"]] /\ loop' = loop
    ELSE run' = [run EXCEPT ![w] = Idle] /\ loop' = loop \ {w}

Start(w) ==
    /\ loop = {} /\ At(w) = "idle"
    /\ loop' = {w} /\ Goes(w, "check", <<>>)
    /\ UNCHANGED <<files, taught, gate, recovery, checks, holder, history, edits, troubles>>

\* run_cycle up to the first child it may start.
Check(w) ==
    /\ At(w) = "check"
    /\ CASE checks /\ ~Blocked -> Goes(w, "ready", <<>>) /\ loop' = loop
         [] checks /\ Blocked /\ ~InCooldown(Signature) ->
               run' = [run EXCEPT ![w].at = "dry", ![w].signature = Signature] /\ loop' = loop
         [] OTHER -> Ends(w, FALSE)
    /\ UNCHANGED <<files, taught, gate, recovery, checks, holder, history, edits, troubles>>

\* The dry run takes the lock, or ends with code 3 and is tried again.
DryRun(w) ==
    /\ At(w) = "dry"
    /\ \/ holder = {} /\ holder' = {w} /\ Goes(w, "testing", Setup) /\ loop' = loop
       \/ /\ holder # {} /\ run[w].try < 3 /\ run' = [run EXCEPT ![w].try = @ + 1]
          /\ UNCHANGED <<holder, loop>>
       \/ holder # {} /\ run[w].try = 3 /\ Ends(w, FALSE) /\ holder' = holder
    /\ UNCHANGED <<files, taught, gate, recovery, checks, history, edits, troubles>>

\* _write_state
Remember(w, ok) == recovery' = [signature |-> run[w].signature, ok |-> ok, recent |-> TRUE]

Tested(w) ==
    /\ At(w) = "testing" /\ w # Operator /\ holder' = {}
    /\ Recorded(TRUE, w) /\ Goes(w, "recheck", <<>>)
    /\ UNCHANGED <<files, taught, recovery, checks, loop, touched, failures, edits, troubles>>

\* The dry run has errors and records them; has none, records that, and reports an
\* action that failed; ends before it can record anything; or is killed after 300 s.
Failed(w) ==
    /\ At(w) = "testing" /\ w # Operator /\ holder' = {} /\ Trouble /\ Ends(w, FALSE)
    /\ \/ /\ \E ok \in BOOLEAN : Recorded(ok, w)
          /\ Remember(w, FALSE) /\ failures' = failures + 1
       \/ Remember(w, FALSE) /\ failures' = failures + 1 /\ UNCHANGED <<gate, tested>>
       \/ UNCHANGED <<gate, recovery, failures, tested>>
    /\ UNCHANGED <<files, taught, checks, touched, edits>>

Recheck(w) ==
    /\ At(w) = "recheck"
    /\ IF checks /\ ~Blocked
       THEN Goes(w, "ready", <<>>) /\ Remember(w, TRUE) /\ loop' = loop
       ELSE Ends(w, FALSE) /\ Remember(w, FALSE)
    /\ UNCHANGED <<files, taught, gate, checks, holder, history, edits, troubles>>

\* The productive run starts and loads its configuration.
Load(w) ==
    /\ At(w) = "ready" /\ Goes(w, "load", Setup)
    /\ UNCHANGED <<files, taught, gate, recovery, checks, holder, loop, history, edits, troubles>>

TakesLockIf(allowed, w) ==
    /\ At(w) = "load"
    /\ IF allowed /\ holder = {}
       THEN holder' = {w} /\ Goes(w, "drain", run[w].sees) /\ loop' = loop
       ELSE Ends(w, FALSE) /\ holder' = holder
    /\ UNCHANGED <<files, taught, gate, recovery, checks, history, edits, troubles>>

\* Mutant: the productive run trusts the worker's look at the gate.
DrainUnasked(w) == TakesLockIf(TRUE, w)

\* It asks for the gate once more, and takes the lock.
Drain(w) == TakesLockIf(checks /\ ~Blocked, w)

Drained(w) ==
    /\ At(w) = "drain" /\ holder' = {}
    /\ (Ends(w, TRUE) /\ troubles' = troubles) \/ (Ends(w, FALSE) /\ Trouble)
    /\ UNCHANGED <<files, taught, gate, recovery, checks, history, edits>>

\* The owner's cycle reconciles the index, unless it is off or the lock is taken.
Reconcile(w) ==
    /\ At(w) = "index"
    /\ \/ holder = {} /\ holder' = {w} /\ Goes(w, "indexing", <<>>) /\ loop' = loop
       \/ Ends(w, FALSE) /\ holder' = holder
    /\ UNCHANGED <<files, taught, gate, recovery, checks, history, edits, troubles>>

Reconciled(w) ==
    /\ At(w) = "indexing" /\ holder' = {} /\ Ends(w, FALSE)
    /\ UNCHANGED <<files, taught, gate, recovery, checks, history, edits, troubles>>

\* The loop terminates the cycle it waits for, which has no handler: it is gone,
\* the process it started is not.
Abandoned(w) ==
    /\ loop = {w} /\ loop' = {} /\ Trouble
    /\ run' = IF At(w) = "index" THEN [run EXCEPT ![w] = Idle] ELSE run
    /\ UNCHANGED <<files, taught, gate, recovery, checks, holder, history, edits>>

\* The container stops: every process in it is gone, and with it its lock.
Stopped ==
    /\ Trouble /\ loop' = {} /\ holder' = holder \cap {Operator}
    /\ run' = [w \in DOMAIN run |-> IF w = Operator THEN run[w] ELSE Idle]
    /\ UNCHANGED <<files, taught, gate, recovery, checks, history, edits>>

Work(w) ==
    \/ Start(w) \/ Check(w) \/ DryRun(w) \/ Tested(w) \/ Failed(w) \/ Recheck(w)
    \/ Load(w) \/ Drain(w) \/ Drained(w) \/ Reconcile(w) \/ Reconciled(w)

World == OperatorEnds \/ ChecksRecover \/ HalfHour

Next ==
    \/ \E w \in Workers : Work(w) \/ Abandoned(w)
    \/ World \/ Stopped \/ OperatorStarts \/ ChecksFail \/ Teach
    \/ \E s \in Setups : Edit(s)

Spec == Init /\ [][Next]_ownerVars

\* The loop goes on with its cycles, commands end, the required checks are
\* repaired, and time passes.
Fairness == (\A w \in Workers : WF_ownerVars(Work(w))) /\ WF_ownerVars(World)

FairSpec == Spec /\ Fairness

-----------------------------------------------------------------------------
(* Properties *)

\* A productive run works only with what a dry run without errors worked with,
\* unless something was changed while that dry run, or the start of the
\* productive one, was under way (productive_run_blockers, record_dry_run).
DrainsAreTested ==
    \A w \in Workers : At(w) = "drain" => run[w].sees \in tested \cup touched

\* A worker is at the productive run.
Draining == \E w \in Workers : At(w) = "drain"

\* docs/JOB_CONTROL.md: failures of the model, of its JSON or of the
\* classification retain the cooldown, so that within half an hour, with nothing
\* changed, one dry run fails at most (_in_cooldown, record_dry_run).  The code
\* does not keep it: the failed run writes its time into the gate the cooldown is
\* keyed by.
OneFailurePerHalfHour == failures =< 1
=============================================================================
