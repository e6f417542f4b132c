------------------------------ MODULE WorkScheduler ------------------------------
(***************************************************************************)
(* The persistent, non-preemptive job queue of                             *)
(* personal_assistant/work_scheduler.py: the tables task_queue,            *)
(* task_attempts and activity of one SQLite file that several worker       *)
(* processes open at the same time.                                        *)
(*                                                                         *)
(* What is abstracted.                                                     *)
(*  - A job has at most one live row (the partial unique index), so a row  *)
(*    is identified with its job.  Terminal rows are history: nothing      *)
(*    below reads them, and only their attempts are kept.                  *)
(*  - claim() draws a fresh lease token and a fresh attempt id in the same *)
(*    transaction; one Token stands for the pair.                          *)
(*  - Timestamps become countdowns (lease, hold, boost) and one saturating *)
(*    age per row, moved by Tick.  Scores are integers over the same       *)
(*    terms.                                                               *)
(* What is not.  The connection runs in autocommit mode                    *)
(* (isolation_level=None), so only _begin/_commit pairs are transactions:  *)
(* enqueue and claim are one step each, the two UPDATEs of finish are two. *)
(***************************************************************************)
EXTENDS Naturals, FiniteSets

CONSTANTS
    Job,               \* keys of TASK_POLICIES that have a worker loop
    Owner,             \* owner strings of worker processes
    Token,             \* lease tokens and attempt ids
    NoOwner, NoToken,  \* the empty strings of the row
    Result,            \* TERMINAL_RUN_RESULTS
    Lease,             \* SCHEDULER_LEASE_SECONDS, in ticks
    Arbitration,       \* SCHEDULER_ARBITRATION_SECONDS, in ticks
    Topic, TopicOf,    \* VALID_TOPICS and TaskPolicy.topic
    Base,              \* base_priority plus the points of scheduler_class
    Window,            \* TaskPolicy.deadline_seconds, in ticks
    MaxAge,            \* age from which the score no longer changes
    AgeCap,            \* cap of the waiting points
    StarvationAfter, StarvationPoints,
    UrgencyPoints, OverduePoints, OverdueCap,
    BoostTimes,        \* boost lengths record_activity may be called with
    BoostPoints

ASSUME ConstantTypes ==
    /\ NoOwner \notin Owner
    /\ NoToken \notin Token
    /\ "interrupted" \in Result
    /\ Result \cap {"none", "in-progress"} = {}
    /\ Lease \in Nat \ {0}
    /\ Arbitration \in Nat
    /\ MaxAge \in Nat
    /\ BoostTimes \subseteq Nat
    /\ TopicOf \in [Job -> Topic]
    /\ Base \in [Job -> Nat]
    /\ Window \in [Job -> Nat \ {0}]
    /\ {AgeCap, StarvationAfter, StarvationPoints, UrgencyPoints,
        OverduePoints, OverdueCap, BoostPoints} \subseteq Nat

VARIABLES
    status,    \* status of the live row of a job, "none" when it has none
    holder,    \* its owner column while it is running
    token,     \* its lease_token / current_attempt_id
    lease,     \* lease_expires_at - now
    age,       \* now - queued_at
    hold,      \* not_before - now
    attempts,  \* result column of task_attempts, "none" when there is no row
    boost      \* per topic: time left and length of the interactive boost

vars == <<status, holder, token, lease, age, hold, attempts, boost>>

--------------------------------------------------------------------------------
(* Time arithmetic. *)
Less(n)   == IF n = 0 THEN 0 ELSE n - 1
AtMost(n, cap) == IF n > cap THEN cap ELSE n

Init ==
    /\ status   = [j \in Job |-> "none"]
    /\ holder   = [j \in Job |-> NoOwner]
    /\ token    = [j \in Job |-> NoToken]
    /\ lease    = [j \in Job |-> 0]
    /\ age      = [j \in Job |-> 0]
    /\ hold     = [j \in Job |-> 0]
    /\ attempts = [t \in Token |-> "none"]
    /\ boost    = [p \in Topic |-> [left |-> 0, length |-> 1]]

--------------------------------------------------------------------------------
(* _recover_expired_locked: every running row whose lease has run out goes   *)
(* back to pending, keeping its place in the queue, and its open attempt is  *)
(* closed.  The four operators are the columns after that sweep, which is    *)
(* the first thing enqueue and claim do inside their transaction.            *)
(* Mutant: the expiry compared one tick too early. *)
ExpiredEarly == {j \in Job : status[j] = "running" /\ lease[j] <= 1}

Expired == {j \in Job : status[j] = "running" /\ lease[j] = 0}

SweptStatus == [j \in Job |-> IF j \in Expired THEN "pending" ELSE status[j]]
SweptHolder == [j \in Job |-> IF j \in Expired THEN NoOwner ELSE holder[j]]
SweptToken  == [j \in Job |-> IF j \in Expired THEN NoToken ELSE token[j]]
(* Mutant: the sweep closes no attempt. *)
AttemptsKept == attempts

SweptAttempts ==
    [t \in Token |-> IF attempts[t] = "in-progress" /\ \E j \in Expired : token[j] = t
                     THEN "interrupted" ELSE attempts[t]]

Sweep ==
    /\ status'   = SweptStatus
    /\ holder'   = SweptHolder
    /\ token'    = SweptToken
    /\ attempts' = SweptAttempts
    /\ UNCHANGED <<lease, age, hold, boost>>

--------------------------------------------------------------------------------
(* _score: the effective priority of a pending row. *)
AgePoints(j) == AtMost(age[j], AgeCap)

NeverStarving(j) == FALSE   \* mutant: no starvation bonus

Starving(j) == age[j] >= StarvationAfter

DeadlinePoints(j) ==
    IF age[j] >= Window[j]
    THEN OverduePoints + AtMost(age[j] - Window[j], OverdueCap)
    ELSE (UrgencyPoints * age[j]) \div Window[j]

ActivityPoints(j) ==
    LET b == boost[TopicOf[j]]
    IN  (BoostPoints * b.left) \div b.length

Score(j) ==
    Base[j] + AgePoints(j) + (IF Starving(j) THEN StarvationPoints ELSE 0)
            + DeadlinePoints(j) + ActivityPoints(j)

(* _pending_ranked_locked: the rows that take part in the choice, and the    *)
(* row at the head of the ranking.  Equal score falls back to queued_at and  *)
(* then to the random ticket id, so an exact tie may go either way.          *)
Eligible == {j \in Job : SweptStatus[j] = "pending" /\ hold[j] = 0}

Top(j) ==
    /\ j \in Eligible
    /\ \A k \in Eligible : \/ Score(k) < Score(j)
                           \/ Score(k) = Score(j) /\ age[k] <= age[j]

--------------------------------------------------------------------------------
(* enqueue(): the sweep, then the live row of the job if there is one, a new *)
(* pending row with the arbitration delay otherwise.                         *)
Enqueue(j) ==
    IF SweptStatus[j] # "none"
    THEN Sweep
    ELSE /\ status'   = [SweptStatus EXCEPT ![j] = "pending"]
         /\ holder'   = SweptHolder
         /\ token'    = SweptToken
         /\ attempts' = SweptAttempts
         /\ age'      = [age EXCEPT ![j] = 0]
         /\ hold'     = [hold EXCEPT ![j] = Arbitration]
         /\ UNCHANGED <<lease, boost>>

(* claim(), the granted branch: no unexpired running row, the row of the     *)
(* caller at the head of the ranking, a fresh lease and an open attempt.     *)
Grantable(j) ==
    /\ Top(j)
    /\ \A k \in Job : SweptStatus[k] # "running"

Fresh(t) == attempts[t] = "none" /\ \A j \in Job : token[j] # t

ClaimGranted(j, o, t) ==
    /\ Grantable(j)
    /\ Fresh(t)
    /\ status'   = [SweptStatus EXCEPT ![j] = "running"]
    /\ holder'   = [SweptHolder EXCEPT ![j] = o]
    /\ token'    = [SweptToken EXCEPT ![j] = t]
    /\ lease'    = [lease EXCEPT ![j] = Lease]
    /\ attempts' = [SweptAttempts EXCEPT ![t] = "in-progress"]
    /\ UNCHANGED <<age, hold, boost>>

(* claim(), "already-owned": the running row carries the caller's owner      *)
(* string, and the caller is handed the token of that row once more.         *)
AlreadyOwned(j, o) == SweptStatus[j] = "running" /\ SweptHolder[j] = o

(* claim(), every other answer ("missing", "state-...", "busy",              *)
(* "arbitration", "higher-priority") and "already-owned": only the sweep is  *)
(* committed.                                                                *)
ClaimAnswered(j) ==
    /\ ~Grantable(j)
    /\ Sweep

(* renew(): one UPDATE selected by status, token and owner.  It does not     *)
(* look at the expiry, so it revives a lease nobody has swept yet.           *)
Held(j, o, t) == status[j] = "running" /\ token[j] = t /\ holder[j] = o

Renew(j, o, t) ==
    /\ Held(j, o, t)
    /\ lease' = [lease EXCEPT ![j] = Lease]
    /\ UNCHANGED <<status, holder, token, age, hold, attempts, boost>>

(* finish(), its first UPDATE: close the attempt while it is still open.     *)
FinishAttempt(t, r) ==
    /\ attempts[t] = "in-progress"
    /\ attempts' = [attempts EXCEPT ![t] = r]
    /\ UNCHANGED <<status, holder, token, lease, age, hold, boost>>

(* finish(), its second UPDATE, which the caller reaches after the first:    *)
(* the row leaves the queue if it still runs under this token.  The prune()  *)
(* that follows deletes attempts of terminal rows that have become old.      *)
Prunable == {t \in Token : attempts[t] \in Result /\ \A j \in Job : token[j] # t}

FinishRow(j, t, pruned) ==
    /\ status[j] = "running" /\ token[j] = t
    /\ attempts[t] # "in-progress"
    /\ pruned \subseteq Prunable
    /\ status'   = [status EXCEPT ![j] = "none"]
    /\ holder'   = [holder EXCEPT ![j] = NoOwner]
    /\ token'    = [token EXCEPT ![j] = NoToken]
    /\ lease'    = [lease EXCEPT ![j] = 0]
    /\ age'      = [age EXCEPT ![j] = 0]
    /\ attempts' = [u \in Token |-> IF u \in pruned THEN "none" ELSE attempts[u]]
    /\ UNCHANGED <<hold, boost>>

(* Mutant: cancel_pending() without its condition on the status. *)
CancelAnything(j) ==
    /\ status[j] # "none"
    /\ status' = [status EXCEPT ![j] = "none"]
    /\ holder' = [holder EXCEPT ![j] = NoOwner]
    /\ token'  = [token EXCEPT ![j] = NoToken]
    /\ age'    = [age EXCEPT ![j] = 0]
    /\ hold'   = [hold EXCEPT ![j] = 0]
    /\ UNCHANGED <<lease, attempts, boost>>

(* cancel_pending(): only a pending row is taken out. *)
CancelPending(j) ==
    /\ status[j] = "pending"
    /\ status' = [status EXCEPT ![j] = "none"]
    /\ age'    = [age EXCEPT ![j] = 0]
    /\ hold'   = [hold EXCEPT ![j] = 0]
    /\ UNCHANGED <<holder, token, lease, attempts, boost>>

(* record_activity(): the boost starts now and ends at the later of its old  *)
(* and its new end.                                                          *)
RecordActivity(p, n) ==
    /\ LET left == IF boost[p].left > n THEN boost[p].left ELSE n
       IN  boost' = [boost EXCEPT ![p] = [left   |-> left,
                                          length |-> IF left > 1 THEN left ELSE 1]]
    /\ UNCHANGED <<status, holder, token, lease, age, hold, attempts>>

(* The clock. *)
Tick ==
    /\ lease' = [j \in Job |-> Less(lease[j])]
    /\ hold'  = [j \in Job |-> Less(hold[j])]
    /\ age'   = [j \in Job |-> IF status[j] = "none" THEN 0
                               ELSE AtMost(age[j] + 1, MaxAge)]
    /\ boost' = [p \in Topic |-> [boost[p] EXCEPT !.left = Less(@)]]
    /\ UNCHANGED <<status, holder, token, attempts>>

Next ==
    \/ \E j \in Job : Enqueue(j) \/ CancelPending(j) \/ ClaimAnswered(j)
    \/ \E j \in Job, o \in Owner, t \in Token : ClaimGranted(j, o, t) \/ Renew(j, o, t)
    \/ \E t \in Token, r \in Result : FinishAttempt(t, r)
    \/ \E j \in Job, t \in Token : \E pruned \in SUBSET Prunable : FinishRow(j, t, pruned)
    \/ \E p \in Topic : \E n \in BoostTimes : RecordActivity(p, n)
    \/ Tick

Spec == Init /\ [][Next]_vars
--------------------------------------------------------------------------------
(* Properties. *)

TypeOK ==
    /\ status \in [Job -> {"none", "pending", "running"}]
    /\ holder \in [Job -> Owner \cup {NoOwner}]
    /\ token \in [Job -> Token \cup {NoToken}]
    /\ lease \in [Job -> 0..Lease]
    /\ age \in [Job -> 0..MaxAge]
    /\ hold \in [Job -> 0..Arbitration]
    /\ attempts \in [Token -> {"none", "in-progress"} \cup Result]
    /\ boost \in [Topic -> [left : Nat, length : Nat \ {0}]]

(* A token is in the row of a job exactly while that row is running, and in  *)
(* one row only.                                                             *)
TokensMatchRows ==
    /\ \A j \in Job : (status[j] = "running") <=> (token[j] # NoToken)
    /\ \A j \in Job : (status[j] = "running") <=> (holder[j] # NoOwner)
    /\ \A j, k \in Job : token[j] = token[k] /\ token[j] # NoToken => j = k

(* The queue serves one job at a time: claim() finds "no unexpired running   *)
(* row" and takes the row in one transaction, and an expired row is swept    *)
(* before the search, so two rows are never running together.                *)
AtMostOneRunning ==
    \A j, k \in Job : status[j] = "running" /\ status[k] = "running" => j = k

(* "in-progress: the current attempt owns a live lease": an open attempt is  *)
(* always the current attempt of a running row, whatever the order of        *)
(* finish, expiry and re-claim.                                              *)
OpenAttemptsAreCurrent ==
    \A t \in Token : attempts[t] = "in-progress" =>
        \E j \in Job : status[j] = "running" /\ token[j] = t

(* The result of an attempt is written once: a late finish() of a worker     *)
(* whose lease was swept cannot overwrite "interrupted", and the sweep       *)
(* cannot overwrite a recorded result.                                       *)
ResultsAreFinal ==
    [][\A t \in Token : attempts[t] \in Result => attempts'[t] \in {attempts[t], "none"}]_vars

(* A granted job is never preempted: its row stops running, or changes       *)
(* hands, only when its attempt was closed by finish() or its lease had run  *)
(* out, however urgent the rows behind it have become.                       *)
NonPreemptive ==
    [][\A j \in Job : status[j] = "running" /\ token'[j] # token[j]
           => lease[j] = 0 \/ attempts[token[j]] \in Result]_vars

(* Recovery keeps the place in the queue: while a job stays live its age is  *)
(* never reset, so an interrupted run goes on collecting waiting and         *)
(* starvation points.                                                        *)
AgeSurvivesRecovery ==
    [][\A j \in Job : status[j] # "none" /\ status'[j] # "none" => age'[j] >= age[j]]_vars

(* Who has the slot is beyond doubt: one row runs, and every open attempt is *)
(* the one that row names (claim, finish and the sweep of expired rows).     *)
SlotIsOwned == AtMostOneRunning /\ OpenAttemptsAreCurrent

(* What has happened is not undone: results stay, a granted job is not       *)
(* preempted, and recovery keeps the place in the queue.                     *)
HistoryIsKept == ResultsAreFinal /\ NonPreemptive /\ AgeSurvivesRecovery

(* The queue implements the slot it promises: the current attempt of the     *)
(* running row has the slot, and the table of attempts is its history.       *)
Running == {j \in Job : status[j] = "running"}
Current == IF Running = {} THEN NoToken ELSE token[CHOOSE j \in Running : TRUE]

Slot == INSTANCE LeaseSlot WITH Attempt <- Token, Free <- NoToken, Outcome <- Result,
                                slot <- Current, state <- attempts

ImplementsSlot == Slot!SlotSpec
================================================================================
