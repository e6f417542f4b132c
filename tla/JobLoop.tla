-------------------------------- MODULE JobLoop --------------------------------
(***************************************************************************)
(* The worker containers (docker/job_loop.py) on top of the shared queue:  *)
(* one loop per job, its child process, the job switch of the user, and    *)
(* the signals and crashes a container meets.  Every step that touches the *)
(* database is the WorkScheduler action of the call it makes.              *)
(*                                                                         *)
(* One tick is the sleep(10) of the renewal loop.  With Timely = TRUE a    *)
(* worker that supervises a child, or polls for a claim (every 5 seconds), *)
(* does so at least once per tick, kills the child when its grace is over, *)
(* and passes from a claim to its child and from a dead child through      *)
(* finish() within a tick; with Timely = FALSE a worker may be suspended   *)
(* for any time between two steps.                                         *)
(***************************************************************************)
EXTENDS WorkScheduler

CONSTANTS
    MaxMisses,     \* lease_failures >= 3
    Grace,         \* process.wait(timeout=120), in ticks
    Timely,
    Switchable,    \* jobs the user may switch on and off during the run
    FirstOwner,    \* owner string of the first worker of a job
    Reincarnation, \* owner strings the next worker after an owner may get
    KeepHistory,   \* bound: FALSE if every closed attempt is old enough to prune
    MaxCrashes,    \* bound: worker processes that die without cleaning up
    Crashable,     \* bound: jobs whose worker may die
    MaxStops,      \* bound: SIGTERMs delivered
    MaxFaults      \* bound: renewals that fail with an SQLite error

VARIABLES
    pc,        \* where the loop of a worker is
    me,        \* scheduler_owner of the worker process
    mine,      \* claim.lease_token
    misses,    \* lease_failures
    beat,      \* the claim or the renewal of this tick has been tried
    child,     \* the child process is alive
    grace,     \* ticks left of process.wait
    stop,      \* STOP
    desired,   \* job_control.json: desired[job]
    crashes, stops, faults,
    astray     \* history: ticks the child has lived without a row of its own

workerVars == <<pc, me, mine, misses, beat, child, grace>>
envVars    == <<stop, desired, crashes, stops, faults>>
loopVars   == <<vars, workerVars, envVars>>

ASSUME LoopConstants ==
    /\ MaxMisses \in Nat \ {0}
    /\ Grace \in Nat
    /\ Timely \in BOOLEAN
    /\ Switchable \subseteq Job
    /\ FirstOwner \in [Job -> Owner]
    /\ Reincarnation \in [Owner -> SUBSET Owner]
    /\ KeepHistory \in BOOLEAN
    /\ {MaxCrashes, MaxStops, MaxFaults} \subseteq Nat

Places == {"off", "loop", "queue", "granted", "run", "stopping",
           "finish", "record", "release"}

LoopInit ==
    /\ Init
    /\ pc      = [j \in Job |-> "loop"]
    /\ me      = FirstOwner
    /\ mine    = [j \in Job |-> NoToken]
    /\ misses  = [j \in Job |-> 0]
    /\ beat    = [j \in Job |-> FALSE]
    /\ child   = [j \in Job |-> FALSE]
    /\ grace   = [j \in Job |-> 0]
    /\ stop    = [j \in Job |-> FALSE]
    /\ desired = [j \in Job |-> TRUE]
    /\ crashes = 0 /\ stops = 0 /\ faults = 0
    /\ astray  = [j \in Job |-> 0]

Goto(j, place) == pc' = [pc EXCEPT ![j] = place]

--------------------------------------------------------------------------------
(* The queueing half of the loop. *)

(* Switched on and due: take a ticket.  (Switched off, the loop only sleeps  *)
(* and looks again; that is no step here.)                                   *)
TakeTicket(j) ==
    /\ pc[j] = "loop" /\ ~stop[j] /\ desired[j]
    /\ Enqueue(j)
    /\ Goto(j, "queue")
    /\ UNCHANGED <<me, mine, misses, beat, child, grace>>

(* Switched off while waiting for the claim. *)
LeaveQueue(j) ==
    /\ pc[j] = "queue" /\ ~stop[j] /\ ~desired[j]
    /\ IF status[j] = "pending" THEN CancelPending(j) ELSE UNCHANGED vars
    /\ Goto(j, "loop")
    /\ beat' = [beat EXCEPT ![j] = FALSE]
    /\ UNCHANGED <<me, mine, misses, child, grace>>

(* One claim() of the poll loop that is granted.  Tokens are random, so which *)
(* unused one is drawn makes no difference.                                  *)
Unused == {t \in Token : Fresh(t) /\ \A k \in Job : mine[k] # t}

ClaimWon(j) ==
    /\ pc[j] = "queue" /\ ~stop[j] /\ desired[j]
    /\ Unused # {}
    /\ LET t == CHOOSE u \in Unused : TRUE
       IN  /\ ClaimGranted(j, me[j], t)
           /\ mine' = [mine EXCEPT ![j] = t]
    /\ Goto(j, "granted")
    /\ beat' = [beat EXCEPT ![j] = FALSE]
    /\ UNCHANGED <<me, misses, child, grace>>

(* A claim() that finds the row already running under this owner string: a   *)
(* worker restarted with the pid and the hostname of its predecessor.        *)
ClaimInherited(j) ==
    /\ pc[j] = "queue" /\ ~stop[j] /\ desired[j]
    /\ AlreadyOwned(j, me[j])
    /\ ClaimAnswered(j)
    /\ mine' = [mine EXCEPT ![j] = token[j]]
    /\ Goto(j, "granted")
    /\ beat' = [beat EXCEPT ![j] = FALSE]
    /\ UNCHANGED <<me, misses, child, grace>>

(* A claim() that is refused; the worker sleeps and polls again. *)
ClaimRefused(j) ==
    /\ pc[j] = "queue" /\ ~stop[j] /\ desired[j]
    /\ ~AlreadyOwned(j, me[j])
    /\ ClaimAnswered(j)
    /\ beat' = [beat EXCEPT ![j] = TRUE]
    /\ UNCHANGED <<pc, me, mine, misses, child, grace>>

(* STOP seen after the poll loop, also when its last claim was granted:      *)
(* cancel_pending() does nothing to a running row, and the process ends.     *)
QuitQueue(j) ==
    /\ pc[j] \in {"queue", "granted"} /\ stop[j]
    /\ IF status[j] = "pending" THEN CancelPending(j) ELSE UNCHANGED vars
    /\ Goto(j, "off")
    /\ mine' = [mine EXCEPT ![j] = NoToken]
    /\ beat' = [beat EXCEPT ![j] = FALSE]
    /\ UNCHANGED <<me, misses, child, grace>>

--------------------------------------------------------------------------------
(* The child process and its supervision. *)

StartChild(j) ==
    /\ pc[j] = "granted" /\ ~stop[j]
    /\ Goto(j, "run")
    /\ child'  = [child EXCEPT ![j] = TRUE]
    /\ UNCHANGED <<vars, me, mine, misses, beat, grace>>

(* The renewal of one round of the supervision loop.  It fails when the row  *)
(* is no longer held, or with an SQLite error.                               *)
RenewLease(j) ==
    /\ pc[j] = "run" /\ child[j] /\ ~stop[j] /\ ~beat[j]
    /\ Renew(j, me[j], mine[j])
    /\ misses' = [misses EXCEPT ![j] = 0]
    /\ beat'   = [beat EXCEPT ![j] = TRUE]
    /\ UNCHANGED <<pc, me, mine, child, grace>>

(* Variant: the failures are not counted. *)
MissUncounted(j) ==
    /\ pc[j] = "run" /\ child[j] /\ ~stop[j] /\ ~beat[j]
    /\ beat' = [beat EXCEPT ![j] = TRUE]
    /\ UNCHANGED <<vars, pc, me, mine, misses, child, grace>>

(* The third failure in a row terminates the child and waits for it. *)
MissRenewal(j) ==
    /\ pc[j] = "run" /\ child[j] /\ ~stop[j] /\ ~beat[j]
    /\ misses' = [misses EXCEPT ![j] = @ + 1]
    /\ beat'   = [beat EXCEPT ![j] = TRUE]
    /\ IF misses[j] + 1 >= MaxMisses
       THEN Goto(j, "stopping") /\ grace' = [grace EXCEPT ![j] = Grace]
       ELSE UNCHANGED <<pc, grace>>
    /\ UNCHANGED <<vars, me, mine, child>>

RenewalRefused(j) == ~Held(j, me[j], mine[j]) /\ MissRenewal(j)

(* STOP seen by the supervision loop: terminate and wait. *)
TerminateChild(j) ==
    /\ pc[j] = "run" /\ child[j] /\ stop[j]
    /\ Goto(j, "stopping")
    /\ grace' = [grace EXCEPT ![j] = Grace]
    /\ UNCHANGED <<vars, me, mine, misses, beat, child>>

(* The child ends: by itself, or because it was asked to.  The supervisor    *)
(* sees it at its next poll or at once in process.wait.                      *)
ChildExit(j) ==
    /\ child[j]
    /\ child' = [child EXCEPT ![j] = FALSE]
    /\ UNCHANGED <<vars, pc, me, mine, misses, beat, grace>>

WaitForChild(j) == FALSE   \* mutant: process.wait() without a timeout

KillChild(j) ==
    /\ pc[j] = "stopping" /\ child[j] /\ grace[j] = 0
    /\ child' = [child EXCEPT ![j] = FALSE]
    /\ UNCHANGED <<vars, pc, me, mine, misses, beat, grace>>

Reap(j) ==
    /\ pc[j] \in {"run", "stopping"} /\ ~child[j]
    /\ Goto(j, "finish")
    /\ grace' = [grace EXCEPT ![j] = 0]
    /\ beat'  = [beat EXCEPT ![j] = FALSE]
    /\ UNCHANGED <<vars, me, mine, misses, child>>

--------------------------------------------------------------------------------
(* finish(): the SELECT, the UPDATE of the attempt, the UPDATE of the row,   *)
(* each committed on its own.  Whatever it returns, the loop goes on, or     *)
(* ends when STOP is set.                                                    *)
Return(j) ==
    /\ Goto(j, IF stop[j] THEN "off" ELSE "loop")
    /\ mine'   = [mine EXCEPT ![j] = NoToken]
    /\ misses' = [misses EXCEPT ![j] = 0]
    /\ UNCHANGED <<me, beat, child, grace>>

FinishSelect(j) ==
    /\ pc[j] = "finish"
    /\ UNCHANGED vars
    /\ IF Held(j, me[j], mine[j])
       THEN Goto(j, "record") /\ UNCHANGED <<me, mine, misses, beat, child, grace>>
       ELSE Return(j)

(* resolve_job_run: an interrupted run stays "interrupted" whatever the exit *)
(* code of the child was.                                                    *)
Outcome(j) == IF stop[j] \/ misses[j] >= MaxMisses
              THEN {"interrupted"} ELSE Result \ {"interrupted"}

Record(j) ==
    /\ pc[j] = "record"
    /\ \/ \E r \in Outcome(j) : FinishAttempt(mine[j], r)
       \/ attempts[mine[j]] # "in-progress" /\ UNCHANGED vars
    /\ Goto(j, "release")
    /\ UNCHANGED <<me, mine, misses, beat, child, grace>>

Old == LET closed == {t \in Prunable : \A k \in Job : mine[k] # t}
       IN  IF KeepHistory THEN SUBSET closed ELSE {closed}

Release(j) ==
    /\ pc[j] = "release"
    /\ \/ \E pruned \in Old : FinishRow(j, mine[j], pruned)
       \/ ~(status[j] = "running" /\ token[j] = mine[j]) /\ UNCHANGED vars
    /\ Return(j)

--------------------------------------------------------------------------------
(* The surroundings: the user, the container runtime, the clock. *)

Switch(j) ==
    /\ j \in Switchable
    /\ desired' = [desired EXCEPT ![j] = ~@]
    /\ UNCHANGED <<vars, workerVars, stop, crashes, stops, faults>>

Stop(j) ==
    /\ pc[j] # "off" /\ ~stop[j] /\ stops < MaxStops
    /\ stop' = [stop EXCEPT ![j] = TRUE]
    /\ stops' = stops + 1
    /\ UNCHANGED <<vars, workerVars, desired, crashes, faults>>

(* The idle loop sees STOP. *)
Quit(j) ==
    /\ pc[j] = "loop" /\ stop[j]
    /\ Goto(j, "off")
    /\ UNCHANGED <<vars, me, mine, misses, beat, child, grace, envVars>>

(* The process dies, and its child with the container. *)
Crash(j) ==
    /\ pc[j] # "off" /\ j \in Crashable /\ crashes < MaxCrashes
    /\ crashes' = crashes + 1
    /\ Goto(j, "off")
    /\ mine'   = [mine EXCEPT ![j] = NoToken]
    /\ misses' = [misses EXCEPT ![j] = 0]
    /\ beat'   = [beat EXCEPT ![j] = FALSE]
    /\ child'  = [child EXCEPT ![j] = FALSE]
    /\ grace'  = [grace EXCEPT ![j] = 0]
    /\ UNCHANGED <<vars, me, stop, desired, stops, faults>>

(* Restarted by the container runtime, as the same owner or another. *)
Start(j) ==
    /\ pc[j] = "off"
    /\ Goto(j, "loop")
    /\ \E o \in Reincarnation[me[j]] : me' = [me EXCEPT ![j] = o]
    /\ stop' = [stop EXCEPT ![j] = FALSE]
    /\ UNCHANGED <<vars, mine, misses, beat, child, grace, desired, crashes, stops, faults>>

(* An SQLite error in the renewal. *)
RenewalError(j) ==
    /\ faults < MaxFaults
    /\ faults' = faults + 1
    /\ MissRenewal(j)
    /\ UNCHANGED <<stop, desired, crashes, stops>>

(* With Timely, the clock waits for a supervisor that has something to do. *)
OnTime(j) ==
    /\ pc[j] \notin {"granted", "finish", "record", "release"}
    /\ pc[j] \in {"queue", "run"} => beat[j]
    /\ pc[j] = "stopping" => child[j] /\ grace[j] > 0

Clock ==
    /\ Timely => \A j \in Job : OnTime(j)
    /\ Tick
    /\ beat'  = [j \in Job |-> FALSE]
    /\ grace' = [j \in Job |-> Less(grace[j])]
    /\ UNCHANGED <<pc, me, mine, misses, child, envVars>>

--------------------------------------------------------------------------------
Queueing(j) == TakeTicket(j) \/ LeaveQueue(j) \/ ClaimWon(j) \/ ClaimInherited(j)
                 \/ ClaimRefused(j) \/ QuitQueue(j)
Supervising(j) == StartChild(j) \/ RenewLease(j) \/ RenewalRefused(j)
                    \/ TerminateChild(j) \/ KillChild(j) \/ Reap(j)
Finishing(j) == FinishSelect(j) \/ Record(j) \/ Release(j)

Worker(j) == (Queueing(j) \/ Supervising(j) \/ Finishing(j)) /\ UNCHANGED envVars

Surroundings(j) ==
    \/ ChildExit(j) /\ UNCHANGED envVars
    \/ Switch(j) \/ Stop(j) \/ Quit(j) \/ Crash(j) \/ Start(j) \/ RenewalError(j)

(* A child is tracked while the queue shows its run as running.  How long one *)
(* has lived untracked is counted beside the program.                        *)
Tracked(j) == status[j] = "running" /\ token[j] = mine[j]
Stray(j)   == child[j] /\ ~Tracked(j)

Count(n) == astray' = [j \in Job |-> IF Stray(j)' THEN astray[j] + n ELSE 0]

LoopNext ==
    \/ (\E j \in Job : Worker(j) \/ Surroundings(j)) /\ Count(0)
    \/ Clock /\ Count(1)

(* Fairness.  A worker process that is alive is scheduled and restarted, the *)
(* child of a job ends some day (no runtime limit is enforced: this is the   *)
(* assumption on the jobs), unless it was asked to terminate, which it may   *)
(* ignore, and time passes.  Nothing is assumed of the user, of signals, of  *)
(* crashes and of errors.                                                    *)
ByItself(j) == pc[j] # "stopping" /\ ChildExit(j) /\ UNCHANGED envVars

Fairness ==
    /\ \A j \in Job : /\ WF_loopVars(Worker(j))
                      /\ WF_loopVars(ByItself(j))
                      /\ WF_loopVars(Quit(j))
                      /\ WF_loopVars(Start(j))
    /\ WF_loopVars(Clock)

LoopSpec == LoopInit /\ [][LoopNext]_<<loopVars, astray>>
FairSpec == LoopSpec /\ Fairness
--------------------------------------------------------------------------------
(* Properties. *)

(* docs/ADAPTIVE_SCHEDULER.md: "A worker that repeatedly cannot renew its    *)
(* lease stops its child process ...".  Whatever took the row away from under *)
(* a child (failed renewals, a stop, the sweep of another worker), the child *)
(* does not outlive the renewals its worker may miss and the grace it gets.  *)
StraysAreStopped == \A j \in Job : child[j] => astray[j] <= MaxMisses + Grace

(* "... so a second job cannot start alongside an untracked run": two        *)
(* children of the queue are never alive together.                           *)
NoOverlap == \A j, k \in Job : child[j] /\ child[k] => j = k

(* "starvation protection after a bounded wait": a worker that waits in the  *)
(* queue does not wait for ever.                                             *)
NobodyStarves == \A j \in Job : pc[j] = "queue" ~> pc[j] # "queue"

(* A stopped worker ends, with its child dead, whatever state the lease is   *)
(* in.                                                                       *)
StopEnds == \A j \in Job : stop[j] ~> pc[j] = "off" /\ ~child[j]

(* A row left running by a worker that died is picked up again: no run stays *)
(* open for ever.                                                            *)
NoRunStaysOpen == \A t \in Token : attempts[t] = "in-progress" ~> attempts[t] # "in-progress"

(* Nothing goes on for ever: neither a run whose worker died, nor a worker   *)
(* that was asked to stop.                                                   *)
RunsEnd == NoRunStaysOpen /\ StopEnds
================================================================================
