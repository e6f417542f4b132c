------------------------------ MODULE JobLoopProofs ------------------------------
(***************************************************************************)
(* Proofs about WorkScheduler, for any set of jobs, owners and tokens and  *)
(* any constants of the score, and about JobLoop, which runs on it: how    *)
(* long a child may live that the queue no longer shows.                   *)
(*                                                                         *)
(* The inductive invariant of the queue speaks of the four columns that    *)
(* the sweep of expired leases rewrites.  It is stated for arbitrary       *)
(* values of these columns, so that it can be used of the state before a   *)
(* step, of the state in the middle of a transaction (after the sweep),    *)
(* and of the state after the step.                                        *)
(***************************************************************************)
EXTENDS JobLoop, TLAPS

--------------------------------------------------------------------------------
(* WorkScheduler: the queue *)

(* The columns are well typed. *)
Typed(st, ho, to, at) ==
    /\ st \in [Job -> {"none", "pending", "running"}]
    /\ ho \in [Job -> Owner \cup {NoOwner}]
    /\ to \in [Job -> Token \cup {NoToken}]
    /\ at \in [Token -> {"none", "in-progress"} \cup Result]

(* Exactly the running row has a token and an owner, there is at most one,   *)
(* its attempt exists, and no other attempt is open.                         *)
Sound(st, ho, to, at) ==
    /\ \A j \in Job : (st[j] = "running") <=> (to[j] # NoToken)
    /\ \A j \in Job : (st[j] = "running") <=> (ho[j] # NoOwner)
    /\ \A j, k \in Job : st[j] = "running" /\ st[k] = "running" => j = k
    /\ \A j \in Job : st[j] = "running" => at[to[j]] # "none"
    /\ \A t \in Token : at[t] = "in-progress" =>
           \E j \in Job : st[j] = "running" /\ to[j] = t

Rows(st, ho, to, at) == Typed(st, ho, to, at) /\ Sound(st, ho, to, at)

Clocks ==
    /\ lease \in [Job -> 0..Lease]
    /\ age \in [Job -> 0..MaxAge]
    /\ hold \in [Job -> 0..Arbitration]
    /\ boost \in [Topic -> [left : Nat, length : Nat \ {0}]]

IInv == Rows(status, holder, token, attempts) /\ Clocks

--------------------------------------------------------------------------------
(* The invariant implies the properties the runs check. *)
LEMMA InvariantImplies ==
    IInv => TypeOK /\ TokensMatchRows /\ AtMostOneRunning /\ OpenAttemptsAreCurrent
  <1> SUFFICES ASSUME IInv
               PROVE  TypeOK /\ TokensMatchRows /\ AtMostOneRunning /\ OpenAttemptsAreCurrent
      OBVIOUS
  <1>1. TypeOK
        BY DEF IInv, Rows, Typed, Clocks, TypeOK
  <1>2. AtMostOneRunning /\ OpenAttemptsAreCurrent
        BY DEF IInv, Rows, Sound, AtMostOneRunning, OpenAttemptsAreCurrent
  <1>3. TokensMatchRows
        BY DEF IInv, Rows, Sound, TokensMatchRows
  <1> QED BY <1>1, <1>2, <1>3

LEMMA InitInvariant == Init => IInv
  BY ConstantTypes DEF Init, IInv, Rows, Typed, Sound, Clocks

(* The sweep keeps the rows in order: it only turns running rows pending,    *)
(* takes their token and owner away, and closes their attempt.               *)
LEMMA SweepSound ==
    ASSUME IInv
    PROVE  Rows(SweptStatus, SweptHolder, SweptToken, SweptAttempts)
  <1>1. Typed(SweptStatus, SweptHolder, SweptToken, SweptAttempts)
        BY ConstantTypes
        DEF IInv, Rows, Typed, SweptStatus, SweptHolder, SweptToken, SweptAttempts, Expired
  <1>2. \A j \in Job : /\ (SweptStatus[j] = "running") <=> (SweptToken[j] # NoToken)
                       /\ (SweptStatus[j] = "running") <=> (SweptHolder[j] # NoOwner)
        BY DEF IInv, Rows, Sound, SweptStatus, SweptToken, SweptHolder, Expired
  <1>3. \A j, k \in Job : SweptStatus[j] = "running" /\ SweptStatus[k] = "running" => j = k
        BY DEF IInv, Rows, Sound, SweptStatus, Expired
  <1>4. ASSUME NEW j \in Job, SweptStatus[j] = "running"
        PROVE  SweptAttempts[SweptToken[j]] # "none"
    <2>1. j \notin Expired /\ status[j] = "running" /\ SweptToken[j] = token[j]
          BY <1>4 DEF SweptStatus, SweptToken
    <2>2. token[j] \in Token /\ attempts[token[j]] # "none"
          BY <2>1 DEF IInv, Rows, Typed, Sound
    <2> QED BY <2>1, <2>2 DEF SweptAttempts
  <1>5. ASSUME NEW t \in Token, SweptAttempts[t] = "in-progress"
        PROVE  \E j \in Job : SweptStatus[j] = "running" /\ SweptToken[j] = t
    <2>1. attempts[t] = "in-progress" /\ ~\E j \in Expired : token[j] = t
          BY <1>5 DEF SweptAttempts
    <2>2. PICK j \in Job : status[j] = "running" /\ token[j] = t
          BY <2>1 DEF IInv, Rows, Sound
    <2>3. j \notin Expired
          BY <2>1, <2>2 DEF Expired
    <2> QED BY <2>2, <2>3 DEF SweptStatus, SweptToken
  <1> QED BY <1>1, <1>2, <1>3, <1>4, <1>5 DEF Rows, Sound

LEMMA SweepStep ==
    ASSUME IInv, Sweep
    PROVE  IInv'
  BY SweepSound DEF Sweep, IInv, Rows, Typed, Sound, Clocks

--------------------------------------------------------------------------------
(* One lemma per operation that does more than sweep. *)

LEMMA EnqueueStep ==
    ASSUME IInv, NEW j \in Job, Enqueue(j)
    PROVE  IInv'
  <1>1. CASE SweptStatus[j] # "none"
        BY <1>1, SweepStep DEF Enqueue
  <1>2. CASE SweptStatus[j] = "none"
    <2>1. /\ status' = [SweptStatus EXCEPT ![j] = "pending"]
          /\ holder' = SweptHolder /\ token' = SweptToken /\ attempts' = SweptAttempts
          /\ age' = [age EXCEPT ![j] = 0] /\ hold' = [hold EXCEPT ![j] = Arbitration]
          /\ lease' = lease /\ boost' = boost
          BY <1>2 DEF Enqueue
    <2>2. Clocks'
          BY <2>1, ConstantTypes DEF IInv, Clocks
    <2>3. Rows(SweptStatus, SweptHolder, SweptToken, SweptAttempts)
          BY SweepSound
    <2>4. Typed(status', holder', token', attempts')
          BY <2>1, <2>3 DEF Rows, Typed
    <2>5. \A k \in Job : (status'[k] = "running") <=> (SweptStatus[k] = "running")
          BY <1>2, <2>1, <2>3 DEF Rows, Typed
    <2>6. Sound(status', holder', token', attempts')
          BY <2>1, <2>3, <2>5 DEF Rows, Sound
    <2> QED BY <2>2, <2>4, <2>6 DEF IInv, Rows
  <1> QED BY <1>1, <1>2

LEMMA ClaimStep ==
    ASSUME IInv, NEW j \in Job, NEW o \in Owner, NEW t \in Token, ClaimGranted(j, o, t)
    PROVE  IInv'
  <1>1. /\ status' = [SweptStatus EXCEPT ![j] = "running"]
        /\ holder' = [SweptHolder EXCEPT ![j] = o]
        /\ token' = [SweptToken EXCEPT ![j] = t]
        /\ attempts' = [SweptAttempts EXCEPT ![t] = "in-progress"]
        /\ lease' = [lease EXCEPT ![j] = Lease]
        /\ UNCHANGED <<age, hold, boost>>
        /\ \A k \in Job : SweptStatus[k] # "running"
        BY DEF ClaimGranted, Grantable
  <1>2. Rows(SweptStatus, SweptHolder, SweptToken, SweptAttempts)
        BY SweepSound
  <1>3. Typed(status', holder', token', attempts')
        BY <1>1, <1>2 DEF Rows, Typed
  <1>4. Clocks'
        BY <1>1, ConstantTypes DEF IInv, Clocks
  <1>5. \A k \in Job : SweptToken[k] = NoToken /\ SweptHolder[k] = NoOwner
        BY <1>1, <1>2 DEF Rows, Sound
  <1>6. \A u \in Token : SweptAttempts[u] # "in-progress"
        BY <1>1, <1>2 DEF Rows, Sound
  <1>7. \A k \in Job : status'[k] = "running" <=> k = j
        BY <1>1, <1>2 DEF Rows, Typed
  <1>8. token'[j] = t /\ holder'[j] = o /\ attempts'[t] = "in-progress"
        BY <1>1, <1>2 DEF Rows, Typed
  <1>9. \A k \in Job : k # j => token'[k] = NoToken /\ holder'[k] = NoOwner
        BY <1>1, <1>2, <1>5 DEF Rows, Typed
  <1>10. \A u \in Token : attempts'[u] = "in-progress" => u = t
        BY <1>1, <1>2, <1>6 DEF Rows, Typed
  <1>11. Sound(status', holder', token', attempts')
    <2>1. t # NoToken /\ o # NoOwner
          BY ConstantTypes
    <2>2. \A k \in Job : /\ status'[k] = "running" <=> token'[k] # NoToken
                         /\ status'[k] = "running" <=> holder'[k] # NoOwner
          BY <1>7, <1>8, <1>9, <2>1
    <2>3. \A k, l \in Job : status'[k] = "running" /\ status'[l] = "running" => k = l
          BY <1>7
    <2>4. \A k \in Job : status'[k] = "running" => attempts'[token'[k]] # "none"
          BY <1>7, <1>8
    <2>5. \A u \in Token : attempts'[u] = "in-progress" =>
              \E k \in Job : status'[k] = "running" /\ token'[k] = u
          BY <1>7, <1>8, <1>10
    <2> QED BY <2>2, <2>3, <2>4, <2>5 DEF Sound
  <1> QED BY <1>3, <1>4, <1>11 DEF IInv, Rows

LEMMA FinishAttemptStep ==
    ASSUME IInv, NEW t \in Token, NEW r \in Result, FinishAttempt(t, r)
    PROVE  IInv'
  <1>1. /\ attempts[t] = "in-progress"
        /\ attempts' = [attempts EXCEPT ![t] = r]
        /\ UNCHANGED <<status, holder, token, lease, age, hold, boost>>
        BY DEF FinishAttempt
  <1>2. r # "none" /\ r # "in-progress"
        BY ConstantTypes
  <1>3. Typed(status, holder, token, attempts) /\ Sound(status, holder, token, attempts)
        BY DEF IInv, Rows
  <1>4. Typed(status', holder', token', attempts')
        BY <1>1, <1>3 DEF Typed
  <1>5. \A u \in Token : /\ attempts'[u] # "none" <=> attempts[u] # "none"
                         /\ attempts'[u] = "in-progress" => attempts[u] = "in-progress"
        BY <1>1, <1>2, <1>3 DEF Typed
  <1>6. \A k \in Job : status[k] = "running" => token[k] \in Token
        BY <1>3 DEF Typed, Sound
  <1>7. Sound(status', holder', token', attempts')
        BY <1>1, <1>3, <1>5, <1>6 DEF Sound
  <1>8. Clocks'
        BY <1>1 DEF IInv, Clocks
  <1> QED BY <1>4, <1>7, <1>8 DEF IInv, Rows

LEMMA FinishRowStep ==
    ASSUME IInv, NEW j \in Job, NEW t \in Token, NEW pruned \in SUBSET Prunable,
           FinishRow(j, t, pruned)
    PROVE  IInv'
  <1>1. /\ status[j] = "running" /\ token[j] = t /\ attempts[t] # "in-progress"
        /\ status' = [status EXCEPT ![j] = "none"]
        /\ holder' = [holder EXCEPT ![j] = NoOwner]
        /\ token' = [token EXCEPT ![j] = NoToken]
        /\ lease' = [lease EXCEPT ![j] = 0]
        /\ age' = [age EXCEPT ![j] = 0]
        /\ attempts' = [u \in Token |-> IF u \in pruned THEN "none" ELSE attempts[u]]
        /\ hold' = hold /\ boost' = boost
        BY DEF FinishRow
  <1>2. Typed(status, holder, token, attempts) /\ Sound(status, holder, token, attempts)
        BY DEF IInv, Rows
  <1>3. Typed(status', holder', token', attempts')
        BY <1>1, <1>2 DEF Typed
  <1>4. Clocks'
        BY <1>1, ConstantTypes DEF IInv, Clocks
  <1>5. \A k \in Job : status'[k] # "running"
        BY <1>1, <1>2 DEF Typed, Sound
  <1>6. \A k \in Job : token'[k] = NoToken /\ holder'[k] = NoOwner
        BY <1>1, <1>2 DEF Typed, Sound
  <1>7. \A u \in Token : attempts'[u] # "in-progress"
        BY <1>1, <1>2 DEF Typed, Sound
  <1>8. Sound(status', holder', token', attempts')
        BY <1>5, <1>6, <1>7 DEF Sound
  <1> QED BY <1>3, <1>4, <1>8 DEF IInv, Rows

LEMMA CancelStep ==
    ASSUME IInv, NEW j \in Job, CancelPending(j)
    PROVE  IInv'
  <1>1. Typed(status, holder, token, attempts) /\ Sound(status, holder, token, attempts)
        BY DEF IInv, Rows
  <1>2. Typed(status', holder', token', attempts')
        BY <1>1 DEF CancelPending, Typed
  <1>3. \A k \in Job : (status'[k] = "running") <=> (status[k] = "running")
        BY <1>1 DEF CancelPending, Typed
  <1>4. Sound(status', holder', token', attempts')
        BY <1>1, <1>3 DEF CancelPending, Sound
  <1>5. Clocks'
        BY ConstantTypes DEF CancelPending, IInv, Clocks
  <1> QED BY <1>2, <1>4, <1>5 DEF IInv, Rows

(* The operations that touch only clocks. *)
LEMMA ClockStep ==
    ASSUME IInv, UNCHANGED <<status, holder, token, attempts>>, Clocks'
    PROVE  IInv'
  BY DEF IInv, Rows, Typed, Sound

LEMMA RenewStep ==
    ASSUME IInv, NEW j \in Job, NEW o \in Owner, NEW t \in Token, Renew(j, o, t)
    PROVE  IInv'
  <1>1. Clocks'
        BY ConstantTypes DEF Renew, IInv, Clocks
  <1> QED BY <1>1, ClockStep DEF Renew

LEMMA ActivityStep ==
    ASSUME IInv, NEW p \in Topic, NEW n \in BoostTimes, RecordActivity(p, n)
    PROVE  IInv'
  <1> DEFINE left == IF boost[p].left > n THEN boost[p].left ELSE n
             len  == IF left > 1 THEN left ELSE 1
  <1>1. n \in Nat /\ boost[p].left \in Nat
        BY ConstantTypes DEF IInv, Clocks
  <1>2. left \in Nat /\ len \in Nat \ {0}
        BY <1>1
  <1>3. boost' = [boost EXCEPT ![p] = [left |-> left, length |-> len]]
        BY DEF RecordActivity
  <1>4. boost' \in [Topic -> [left : Nat, length : Nat \ {0}]]
        BY <1>2, <1>3 DEF IInv, Clocks
  <1>5. Clocks'
        BY <1>4 DEF RecordActivity, IInv, Clocks
  <1> QED BY <1>5, ClockStep DEF RecordActivity

LEMMA LessStays ==
    ASSUME NEW n \in Nat, NEW m \in 0..n
    PROVE  Less(m) \in 0..n
  BY DEF Less

LEMMA TickStep ==
    ASSUME IInv, Tick
    PROVE  IInv'
  <1>1. \A n \in Nat : Less(n) \in Nat /\ Less(n) <= n
        BY DEF Less
  <1>2. lease' \in [Job -> 0..Lease] /\ hold' \in [Job -> 0..Arbitration]
    <2>1. \A j \in Job : Less(lease[j]) \in 0..Lease
      <3>1. Lease \in Nat /\ \A j \in Job : lease[j] \in 0..Lease
            BY ConstantTypes DEF IInv, Clocks
      <3> QED BY <3>1, LessStays
    <2>2. \A j \in Job : Less(hold[j]) \in 0..Arbitration
      <3>1. Arbitration \in Nat /\ \A j \in Job : hold[j] \in 0..Arbitration
            BY ConstantTypes DEF IInv, Clocks
      <3> QED BY <3>1, LessStays
    <2> QED BY <2>1, <2>2 DEF Tick
  <1>3. age' \in [Job -> 0..MaxAge]
        BY ConstantTypes DEF Tick, AtMost, IInv, Clocks
  <1>4. \A p \in Topic : [boost[p] EXCEPT !.left = Less(@)] \in [left : Nat, length : Nat \ {0}]
        BY <1>1 DEF IInv, Clocks
  <1>5. boost' \in [Topic -> [left : Nat, length : Nat \ {0}]]
        BY <1>4 DEF Tick
  <1>6. Clocks'
        BY <1>2, <1>3, <1>5 DEF Clocks
  <1> QED BY <1>6, ClockStep DEF Tick

LEMMA NextInvariant == IInv /\ [Next]_vars => IInv'
  <1> SUFFICES ASSUME IInv, [Next]_vars
               PROVE  IInv'
      OBVIOUS
  <1>1. CASE \E j \in Job : Enqueue(j)
        BY <1>1, EnqueueStep
  <1>2. CASE \E j \in Job : CancelPending(j)
        BY <1>2, CancelStep
  <1>3. CASE \E j \in Job : ClaimAnswered(j)
        BY <1>3, SweepStep DEF ClaimAnswered
  <1>4. CASE \E j \in Job, o \in Owner, t \in Token : ClaimGranted(j, o, t)
        BY <1>4, ClaimStep
  <1>5. CASE \E j \in Job, o \in Owner, t \in Token : Renew(j, o, t)
        BY <1>5, RenewStep
  <1>6. CASE \E t \in Token, r \in Result : FinishAttempt(t, r)
        BY <1>6, FinishAttemptStep
  <1>7. CASE \E j \in Job, t \in Token : \E pruned \in SUBSET Prunable : FinishRow(j, t, pruned)
        BY <1>7, FinishRowStep
  <1>8. CASE \E p \in Topic : \E n \in BoostTimes : RecordActivity(p, n)
        BY <1>8, ActivityStep
  <1>9. CASE Tick
        BY <1>9, TickStep
  <1>10. CASE UNCHANGED vars
        BY <1>10, ClockStep DEF vars, IInv, Clocks
  <1> QED BY <1>1, <1>2, <1>3, <1>4, <1>5, <1>6, <1>7, <1>8, <1>9, <1>10 DEF Next

--------------------------------------------------------------------------------
(* The columns keep their types, the sweep and every UPDATE included. *)
THEOREM TypeCorrect == Spec => []TypeOK
  BY InitInvariant, NextInvariant, InvariantImplies, PTL DEF Spec

(* claim() grants the single slot to one job at a time, for any number of    *)
(* workers and any order of their calls.                                     *)
THEOREM MutualExclusion == Spec => []AtMostOneRunning
  BY InitInvariant, NextInvariant, InvariantImplies, PTL DEF Spec

(* An attempt that is in progress is the current attempt of a running row,   *)
(* although finish() writes attempt and row in two commits.                  *)
THEOREM OpenAttemptsOwned == Spec => []OpenAttemptsAreCurrent
  BY InitInvariant, NextInvariant, InvariantImplies, PTL DEF Spec

(* Who has the slot is beyond doubt, for any jobs, owners and lease length.  *)
THEOREM SlotOwned == Spec => []SlotIsOwned
  BY MutualExclusion, OpenAttemptsOwned, PTL DEF SlotIsOwned

(* Tokens and owners are exactly in the running row. *)
THEOREM TokensInRows == Spec => []TokensMatchRows
  BY InitInvariant, NextInvariant, InvariantImplies, PTL DEF Spec

--------------------------------------------------------------------------------
(* The actions as a list of cases, for the proofs that go through them. *)
LEMMA NextCases ==
    ASSUME [Next]_vars,
           NEW ACTION Goal,
           (\E j \in Job : Enqueue(j)) => Goal,
           (\E j \in Job : CancelPending(j)) => Goal,
           Sweep => Goal,
           (\E j \in Job, o \in Owner, t \in Token : ClaimGranted(j, o, t)) => Goal,
           (\E t \in Token, r \in Result : FinishAttempt(t, r)) => Goal,
           (\E j \in Job, t \in Token : \E pruned \in SUBSET Prunable : FinishRow(j, t, pruned)) => Goal,
           UNCHANGED <<status, holder, token, attempts>> => Goal
    PROVE  Goal
  BY DEF Next, ClaimAnswered, Renew, RecordActivity, Tick, vars

(* A recorded result is never overwritten, by a late finish() or by the      *)
(* sweep; it can only be deleted.                                            *)
THEOREM ResultsStay == Spec => ResultsAreFinal
  <1> DEFINE Kept == \A t \in Token : attempts[t] \in Result => attempts'[t] \in {attempts[t], "none"}
  <1>1. IInv /\ [Next]_vars => [Kept]_vars
    <2> SUFFICES ASSUME IInv, [Next]_vars PROVE Kept
        OBVIOUS
    <2>1. \A t \in Token : attempts[t] \in Result => attempts[t] # "in-progress" /\ attempts[t] # "none"
          BY ConstantTypes
    <2>2. \A t \in Token : attempts[t] \in Result => SweptAttempts[t] = attempts[t]
          BY <2>1 DEF SweptAttempts
    <2>3. attempts \in [Token -> {"none", "in-progress"} \cup Result]
          BY DEF IInv, Rows, Typed
    <2>4. (\E j \in Job : Enqueue(j)) => Kept
          BY <2>2 DEF Enqueue, Sweep
    <2>5. (\E j \in Job : CancelPending(j)) => Kept
          BY DEF CancelPending
    <2>6. Sweep => Kept
          BY <2>2 DEF Sweep
    <2>7. (\E j \in Job, o \in Owner, t \in Token : ClaimGranted(j, o, t)) => Kept
      <3> SUFFICES ASSUME NEW j \in Job, NEW o \in Owner, NEW t \in Token, ClaimGranted(j, o, t)
                   PROVE  Kept
          OBVIOUS
      <3>1. attempts[t] = "none" /\ attempts' = [SweptAttempts EXCEPT ![t] = "in-progress"]
            BY DEF ClaimGranted, Fresh
      <3> QED BY <3>1, <2>1, <2>2 DEF SweptAttempts
    <2>8. (\E t \in Token, r \in Result : FinishAttempt(t, r)) => Kept
          BY <2>1, <2>3 DEF FinishAttempt
    <2>9. (\E j \in Job, t \in Token : \E pruned \in SUBSET Prunable : FinishRow(j, t, pruned)) => Kept
          BY DEF FinishRow
    <2>10. UNCHANGED <<status, holder, token, attempts>> => Kept
          OBVIOUS
    <2> HIDE DEF Kept
    <2> QED BY <2>4, <2>5, <2>6, <2>7, <2>8, <2>9, <2>10, NextCases
  <1> QED BY <1>1, InitInvariant, NextInvariant, PTL DEF Spec, ResultsAreFinal

(* A granted job is never preempted. *)
THEOREM NoPreemption == Spec => NonPreemptive
  <1> DEFINE Kept == \A j \in Job : status[j] = "running" /\ token'[j] # token[j]
                        => lease[j] = 0 \/ attempts[token[j]] \in Result
  <1>1. IInv /\ [Next]_vars => [Kept]_vars
    <2> SUFFICES ASSUME IInv, [Next]_vars PROVE Kept
        OBVIOUS
    <2>1. Typed(status, holder, token, attempts) /\ Sound(status, holder, token, attempts)
          BY DEF IInv, Rows
    <2>2. \A j \in Job : status[j] = "running" /\ SweptToken[j] # token[j] => lease[j] = 0
          BY DEF SweptToken, Expired
    <2>3. (\E j \in Job : Enqueue(j)) => Kept
          BY <2>2 DEF Enqueue, Sweep
    <2>4. (\E j \in Job : CancelPending(j)) => Kept
          BY DEF CancelPending
    <2>5. Sweep => Kept
          BY <2>2 DEF Sweep
    <2>6. (\E j \in Job, o \in Owner, t \in Token : ClaimGranted(j, o, t)) => Kept
      <3> SUFFICES ASSUME NEW j \in Job, NEW o \in Owner, NEW t \in Token, ClaimGranted(j, o, t),
                          NEW k \in Job, status[k] = "running"
                   PROVE  lease[k] = 0
          OBVIOUS
      <3>1. SweptStatus[k] # "running"
            BY DEF ClaimGranted, Grantable
      <3> QED BY <3>1 DEF SweptStatus, Expired
    <2>7. (\E t \in Token, r \in Result : FinishAttempt(t, r)) => Kept
          BY DEF FinishAttempt
    <2>8. (\E j \in Job, t \in Token : \E pruned \in SUBSET Prunable : FinishRow(j, t, pruned)) => Kept
      <3> SUFFICES ASSUME NEW j \in Job, NEW t \in Token, NEW pruned \in SUBSET Prunable,
                          FinishRow(j, t, pruned), NEW k \in Job, status[k] = "running"
                   PROVE  attempts[token[k]] \in Result
          OBVIOUS
      <3>1. status[j] = "running" /\ token[j] = t /\ attempts[t] # "in-progress"
            BY DEF FinishRow
      <3>2. k = j
            BY <3>1, <2>1 DEF Sound
      <3>3. attempts[t] # "none"
            BY <3>1, <2>1 DEF Sound
      <3> QED BY <3>1, <3>2, <3>3, <2>1 DEF Typed
    <2>9. UNCHANGED <<status, holder, token, attempts>> => Kept
          OBVIOUS
    <2> HIDE DEF Kept
    <2> QED BY <2>3, <2>4, <2>5, <2>6, <2>7, <2>8, <2>9, NextCases
  <1> QED BY <1>1, InitInvariant, NextInvariant, PTL DEF Spec, NonPreemptive

--------------------------------------------------------------------------------
(* The refinement: what occupies the slot of LeaseSlot. *)
LEMMA CurrentIsToken ==
    ASSUME IInv
    PROVE  /\ \A j \in Job : status[j] = "running" => Current = token[j]
           /\ (\A j \in Job : status[j] # "running") => Current = NoToken
  BY DEF IInv, Rows, Sound, Current, Running

LEMMA NextCurrentIsToken ==
    ASSUME IInv'
    PROVE  /\ \A j \in Job : status'[j] = "running" => Current' = token'[j]
           /\ (\A j \in Job : status'[j] # "running") => Current' = NoToken
  BY DEF IInv, Rows, Sound, Current, Running

(* If every running row has expired, the sweep evicts what is in the slot,   *)
(* and if none has, it does nothing.                                         *)
LEMMA SweepEvicts ==
    ASSUME IInv, \A j \in Job : SweptStatus[j] # "running"
    PROVE  SweptAttempts = Slot!Evicted
  <1>1. \A j \in Job : status[j] = "running" => j \in Expired
        BY DEF SweptStatus
  <1>2. \A t \in Token : (\E j \in Expired : token[j] = t) <=> t = Current
    <2>1. NoToken \notin Token
          BY ConstantTypes
    <2> QED BY <1>1, <2>1, CurrentIsToken DEF Expired
  <1> QED BY <1>2 DEF SweptAttempts, Slot!Evicted

LEMMA SweepIdle ==
    ASSUME IInv, NEW k \in Job, SweptStatus[k] = "running"
    PROVE  SweptStatus = status /\ SweptToken = token /\ SweptAttempts = attempts
  <1>1. Typed(status, holder, token, attempts) /\ Sound(status, holder, token, attempts)
        BY DEF IInv, Rows
  <1>2. Expired = {}
        BY <1>1 DEF SweptStatus, Expired, Sound
  <1> QED BY <1>1, <1>2 DEF SweptStatus, SweptToken, SweptAttempts, Typed

(* A step that only sweeps, apart from adding a pending row. *)
LEMMA SweepingStep ==
    ASSUME IInv, IInv',
           attempts' = SweptAttempts, token' = SweptToken,
           \A j \in Job : status'[j] = "running" <=> SweptStatus[j] = "running"
    PROVE  [Slot!SlotNext]_<<Current, attempts>>
  <1>1. CASE \E k \in Job : SweptStatus[k] = "running"
    <2>1. PICK k \in Job : SweptStatus[k] = "running"
          BY <1>1
    <2>2. attempts' = attempts /\ token' = token /\ status[k] = "running" /\ status'[k] = "running"
          BY <2>1, SweepIdle
    <2>3. Current' = Current
          BY <2>2, CurrentIsToken, NextCurrentIsToken
    <2> QED BY <2>2, <2>3
  <1>2. CASE \A k \in Job : SweptStatus[k] # "running"
    <2>1. Current' = NoToken
          BY <1>2, NextCurrentIsToken
    <2>2. attempts' = Slot!Evicted
          BY <1>2, SweepEvicts
    <2>3. CASE Current = NoToken
      <3>1. Slot!Evicted = attempts
            BY <2>3, ConstantTypes DEF Slot!Evicted, IInv, Rows, Typed
      <3> QED BY <2>1, <2>2, <2>3, <3>1
    <2>4. CASE Current # NoToken
          BY <2>1, <2>2, <2>4 DEF Slot!SlotNext, Slot!Expire
    <2> QED BY <2>3, <2>4
  <1> QED BY <1>1, <1>2

(* A row that stays live never gets younger, whatever sweeps, renewals and   *)
(* claims come: recovery keeps its place in the queue.                       *)
THEOREM AgesGrow == Spec => AgeSurvivesRecovery
  <1> DEFINE Kept == \A j \in Job : status[j] # "none" /\ status'[j] # "none" => age'[j] >= age[j]
  <1>1. TypeOK /\ [Next]_vars => [Kept]_vars
    <2> SUFFICES ASSUME TypeOK, [Next]_vars PROVE Kept
        OBVIOUS
    <2>1. \A j \in Job : age[j] \in Nat /\ age[j] =< MaxAge
          BY ConstantTypes DEF TypeOK
    <2>2. age \in [Job -> 0..MaxAge] /\ status \in [Job -> {"none", "pending", "running"}]
          BY DEF TypeOK
    <2>3. age' = age => Kept
          BY <2>1
    <2>4. ASSUME NEW j \in Job, Enqueue(j) PROVE Kept
      <3>1. CASE SweptStatus[j] # "none"
            BY <2>3, <2>4, <3>1 DEF Enqueue, Sweep
      <3>2. CASE SweptStatus[j] = "none"
        <4>1. status[j] = "none" /\ age' = [age EXCEPT ![j] = 0]
              BY <2>4, <3>2 DEF Enqueue, SweptStatus
        <4> QED BY <4>1, <2>1, <2>2
      <3> QED BY <3>1, <3>2
    <2>5. ASSUME NEW j \in Job, CancelPending(j) PROVE Kept
          BY <2>1, <2>2, <2>5 DEF CancelPending
    <2>6. ASSUME NEW j \in Job, NEW t \in Token, NEW pruned \in SUBSET Prunable,
                 FinishRow(j, t, pruned)
          PROVE  Kept
          BY <2>1, <2>2, <2>6 DEF FinishRow
    <2>7. CASE Tick
      <3> SUFFICES ASSUME NEW j \in Job, status[j] # "none" PROVE age'[j] >= age[j]
          OBVIOUS
      <3>1. age'[j] = AtMost(age[j] + 1, MaxAge)
            BY <2>7 DEF Tick
      <3> QED BY <3>1, <2>1, ConstantTypes DEF AtMost
    <2>8. CASE age' = age
          BY <2>3, <2>8
    <2> HIDE DEF Kept
    <2> QED BY <2>4, <2>5, <2>6, <2>7, <2>8
            DEF Next, ClaimAnswered, Sweep, ClaimGranted, Renew, FinishAttempt, RecordActivity, vars
  <1> QED BY <1>1, TypeCorrect, PTL DEF Spec, AgeSurvivesRecovery

(* Nothing that has happened is undone: the three together, as the run of    *)
(* the queue checks them.                                                    *)
THEOREM HistoryStays == Spec => HistoryIsKept
  BY ResultsStay, NoPreemption, AgesGrow, PTL DEF HistoryIsKept

(* The queue implements the slot: every operation of the queue is a step of  *)
(* LeaseSlot or leaves it unchanged.                                         *)
THEOREM QueueImplementsSlot == Spec => ImplementsSlot
  <1>1. Init => Slot!SlotInit
        BY DEF Init, Slot!SlotInit, Current, Running
  <1>2. IInv /\ IInv' /\ [Next]_vars => [Slot!SlotNext]_<<Current, attempts>>
    <2> DEFINE Goal == [Slot!SlotNext]_<<Current, attempts>>
    <2> SUFFICES ASSUME IInv, IInv', [Next]_vars PROVE Goal
        OBVIOUS
    <2>0. /\ Typed(status, holder, token, attempts) /\ Sound(status, holder, token, attempts)
          /\ Typed(status', holder', token', attempts') /\ Sound(status', holder', token', attempts')
          BY DEF IInv, Rows
    <2>1. (\E j \in Job : Enqueue(j)) => Goal
      <3> SUFFICES ASSUME NEW j \in Job, Enqueue(j) PROVE Goal
          OBVIOUS
      <3>1. \A k \in Job : status'[k] = "running" <=> SweptStatus[k] = "running"
            BY DEF Enqueue, Sweep, SweptStatus
      <3> QED BY <3>1, SweepingStep DEF Enqueue, Sweep
    <2>2. (\E j \in Job : CancelPending(j)) => Goal
      <3> SUFFICES ASSUME NEW j \in Job, CancelPending(j) PROVE Goal
          OBVIOUS
      <3>1. \A k \in Job : status'[k] = "running" <=> status[k] = "running"
            BY <2>0 DEF CancelPending, Typed
      <3>2. Current' = Current
            BY <3>1, CurrentIsToken, NextCurrentIsToken DEF CancelPending
      <3> QED BY <3>2 DEF CancelPending
    <2>3. Sweep => Goal
          BY SweepingStep DEF Sweep
    <2>4. (\E j \in Job, o \in Owner, t \in Token : ClaimGranted(j, o, t)) => Goal
      <3> SUFFICES ASSUME NEW j \in Job, NEW o \in Owner, NEW t \in Token, ClaimGranted(j, o, t)
                   PROVE  Goal
          OBVIOUS
      <3>1. status'[j] = "running" /\ token'[j] = t
            BY <2>0 DEF ClaimGranted, SweptStatus, SweptToken
      <3>2. Current' = t
            BY <3>1, NextCurrentIsToken
      <3>3. attempts[t] = "none" /\ Current # t
            BY ConstantTypes, CurrentIsToken DEF ClaimGranted, Fresh
      <3>4. attempts' = [Slot!Evicted EXCEPT ![t] = "in-progress"]
            BY SweepEvicts DEF ClaimGranted, Grantable
      <3> QED BY <3>2, <3>3, <3>4 DEF Slot!SlotNext, Slot!Take
    <2>5. (\E t \in Token, r \in Result : FinishAttempt(t, r)) => Goal
      <3> SUFFICES ASSUME NEW t \in Token, NEW r \in Result, FinishAttempt(t, r) PROVE Goal
          OBVIOUS
      <3>1. PICK j \in Job : status[j] = "running" /\ token[j] = t
            BY <2>0 DEF FinishAttempt, Sound
      <3>2. Current = t /\ Current' = t
            BY <3>1, CurrentIsToken, NextCurrentIsToken DEF FinishAttempt
      <3>3. Current # NoToken
            BY <3>2, ConstantTypes
      <3> QED BY <3>2, <3>3 DEF FinishAttempt, Slot!SlotNext, Slot!Close
    <2>6. (\E j \in Job, t \in Token : \E pruned \in SUBSET Prunable : FinishRow(j, t, pruned)) => Goal
      <3> SUFFICES ASSUME NEW j \in Job, NEW t \in Token, NEW pruned \in SUBSET Prunable,
                          FinishRow(j, t, pruned)
                   PROVE  Goal
          OBVIOUS
      <3>1. status[j] = "running" /\ token[j] = t /\ attempts[t] \in Result
            BY <2>0 DEF FinishRow, Typed, Sound
      <3>2. Current = t /\ t # NoToken
            BY <3>1, ConstantTypes, CurrentIsToken
      <3>3. Current' = NoToken
        <4>1. \A k \in Job : status'[k] # "running"
              BY <3>1, <2>0 DEF FinishRow, Typed, Sound
        <4> QED BY <4>1, NextCurrentIsToken
      <3>4. pruned \subseteq {a \in Token \ {Current} : attempts[a] \in Result}
            BY <3>1, <3>2 DEF Prunable
      <3>5. attempts' = [u \in Token |-> IF u \in pruned THEN "none" ELSE attempts[u]]
            BY DEF FinishRow
      <3>6. Slot!GiveBack
            BY <3>1, <3>2, <3>3, <3>4, <3>5 DEF Slot!GiveBack
      <3> QED BY <3>6 DEF Slot!SlotNext
    <2>7. UNCHANGED <<status, holder, token, attempts>> => Goal
          BY DEF Current, Running
    <2> HIDE DEF Goal
    <2> QED BY <2>1, <2>2, <2>3, <2>4, <2>5, <2>6, <2>7, NextCases
  <1>3. QED
        BY <1>1, <1>2, InitInvariant, NextInvariant, PTL
        DEF Spec, ImplementsSlot, Slot!SlotSpec, Slot!slotVars

--------------------------------------------------------------------------------
(* JobLoop: the workers *)

(* Where a worker holds a token. *)
Holding == {"granted", "run", "stopping", "finish", "record", "release"}

WInv ==
    /\ pc \in [Job -> Places]
    /\ me \in [Job -> Owner]
    /\ mine \in [Job -> Token \cup {NoToken}]
    /\ misses \in [Job -> Nat]
    /\ beat \in [Job -> BOOLEAN]
    /\ child \in [Job -> BOOLEAN]
    /\ grace \in [Job -> 0..Grace]
    /\ \A j \in Job : pc[j] \in Holding => mine[j] \in Token
    /\ \A j \in Job : child[j] => pc[j] \in {"run", "stopping"}
    /\ \A j \in Job : pc[j] \in {"off", "loop", "queue", "granted"} => misses[j] = 0
    /\ \A j \in Job : pc[j] = "run" => misses[j] < MaxMisses

LInv == IInv /\ WInv

LEMMA LoopInitInvariant == LoopInit => LInv
  BY InitInvariant, LoopConstants DEF LoopInit, LInv, WInv, Places, Holding

--------------------------------------------------------------------------------
(* Every step of a worker is an operation of the queue or leaves it alone. *)
LEMMA WorkerIsClient ==
    ASSUME LInv, NEW j \in Job, Worker(j)
    PROVE  [Next]_vars
  <1>1. me[j] \in Owner
        BY DEF LInv, WInv
  <1>2. CASE TakeTicket(j) BY <1>2 DEF TakeTicket, Next
  <1>3. CASE LeaveQueue(j) BY <1>3 DEF LeaveQueue, Next
  <1>4. CASE ClaimWon(j)
    <2>1. PICK t \in Token : ClaimGranted(j, me[j], t)
          BY <1>4 DEF ClaimWon, Unused
    <2> QED BY <1>1, <2>1 DEF Next
  <1>5. CASE ClaimInherited(j) BY <1>5 DEF ClaimInherited, Next
  <1>6. CASE ClaimRefused(j) BY <1>6 DEF ClaimRefused, Next
  <1>7. CASE QuitQueue(j) BY <1>7 DEF QuitQueue, Next
  <1>8. CASE StartChild(j) \/ TerminateChild(j) \/ KillChild(j) \/ Reap(j) \/ RenewalRefused(j)
        BY <1>8 DEF StartChild, TerminateChild, KillChild, Reap, RenewalRefused, MissRenewal
  <1>9. CASE RenewLease(j)
    <2>1. Renew(j, me[j], mine[j]) /\ pc[j] = "run"
          BY <1>9 DEF RenewLease
    <2>2. mine[j] \in Token
          BY <2>1 DEF LInv, WInv, Holding
    <2> QED BY <1>1, <2>1, <2>2 DEF Next
  <1>10. CASE FinishSelect(j) BY <1>10 DEF FinishSelect
  <1>11. CASE Record(j)
    <2>1. mine[j] \in Token
          BY <1>11 DEF Record, LInv, WInv, Holding
    <2>2. Outcome(j) \subseteq Result
          BY ConstantTypes DEF Outcome
    <2> QED BY <1>11, <2>1, <2>2 DEF Record, Next
  <1>12. CASE Release(j)
    <2>1. mine[j] \in Token
          BY <1>12 DEF Release, LInv, WInv, Holding
    <2>2. Old \subseteq SUBSET Prunable
          BY DEF Old
    <2> QED BY <1>12, <2>1, <2>2 DEF Release, Next
  <1> QED BY <1>2, <1>3, <1>4, <1>5, <1>6, <1>7, <1>8, <1>9, <1>10, <1>11, <1>12
          DEF Worker, Queueing, Supervising, Finishing

LEMMA LoopIsClient ==
    ASSUME LInv, [LoopNext]_<<loopVars, astray>>
    PROVE  [Next]_vars
  <1>1. CASE \E j \in Job : Worker(j)
        BY <1>1, WorkerIsClient
  <1>2. CASE \E j \in Job : Surroundings(j)
        BY <1>2 DEF Surroundings, ChildExit, Switch, Stop, Quit, Crash, Start, RenewalError, MissRenewal
  <1>3. CASE Clock
        BY <1>3 DEF Clock, Next
  <1>4. CASE UNCHANGED <<loopVars, astray>>
        BY <1>4 DEF loopVars
  <1> QED BY <1>1, <1>2, <1>3, <1>4 DEF LoopNext

--------------------------------------------------------------------------------
(* The bookkeeping of the workers is inductive. *)
LEMMA WorkerKeepsBooks ==
    ASSUME LInv, NEW j \in Job, Worker(j)
    PROVE  WInv'
  <1> USE DEF LInv, WInv, Places, Holding, Goto
  <1>1. CASE TakeTicket(j) BY <1>1 DEF TakeTicket
  <1>2. CASE LeaveQueue(j) BY <1>2 DEF LeaveQueue
  <1>3. CASE ClaimWon(j)
    <2>1. PICK t \in Token : mine' = [mine EXCEPT ![j] = t]
          BY <1>3 DEF ClaimWon, Unused
    <2>2. /\ pc[j] = "queue" /\ pc' = [pc EXCEPT ![j] = "granted"]
          /\ beat' = [beat EXCEPT ![j] = FALSE]
          /\ UNCHANGED <<me, misses, child, grace>>
          BY <1>3 DEF ClaimWon
    <2> QED BY <2>1, <2>2
  <1>4. CASE ClaimInherited(j)
    <2>1. token[j] \in Token
          BY <1>4 DEF ClaimInherited, AlreadyOwned, SweptStatus, Rows, Typed, Sound, IInv
    <2> QED BY <1>4, <2>1 DEF ClaimInherited
  <1>5. CASE ClaimRefused(j) BY <1>5 DEF ClaimRefused
  <1>6. CASE QuitQueue(j) BY <1>6 DEF QuitQueue
  <1>7. CASE StartChild(j) BY <1>7, LoopConstants DEF StartChild
  <1>8. CASE TerminateChild(j) BY <1>8, LoopConstants DEF TerminateChild
  <1>9. CASE KillChild(j) BY <1>9 DEF KillChild
  <1>10. CASE Reap(j) BY <1>10, LoopConstants DEF Reap
  <1>11. CASE RenewalRefused(j) BY <1>11, LoopConstants DEF RenewalRefused, MissRenewal
  <1>12. CASE RenewLease(j) BY <1>12, LoopConstants DEF RenewLease
  <1>13. CASE FinishSelect(j) BY <1>13 DEF FinishSelect, Return
  <1>14. CASE Record(j) BY <1>14 DEF Record
  <1>15. CASE Release(j) BY <1>15 DEF Release, Return
  <1> QED BY <1>1, <1>2, <1>3, <1>4, <1>5, <1>6, <1>7, <1>8, <1>9, <1>10, <1>11, <1>12,
             <1>13, <1>14, <1>15
          DEF Worker, Queueing, Supervising, Finishing

LEMMA SurroundingsKeepBooks ==
    ASSUME LInv, NEW j \in Job, Surroundings(j)
    PROVE  WInv'
  <1> USE DEF LInv, WInv, Places, Holding, Goto
  <1>1. CASE ChildExit(j) BY <1>1 DEF ChildExit
  <1>2. CASE Switch(j) \/ Stop(j) BY <1>2 DEF Switch, Stop, workerVars
  <1>3. CASE Quit(j) BY <1>3 DEF Quit
  <1>4. CASE Crash(j) BY <1>4, LoopConstants DEF Crash
  <1>5. CASE Start(j)
    <2>1. Reincarnation[me[j]] \subseteq Owner
          BY LoopConstants
    <2> QED BY <1>5, <2>1 DEF Start
  <1>6. CASE RenewalError(j) BY <1>6, LoopConstants DEF RenewalError, MissRenewal
  <1> QED BY <1>1, <1>2, <1>3, <1>4, <1>5, <1>6 DEF Surroundings

LEMMA ClockKeepsBooks ==
    ASSUME LInv, Clock
    PROVE  WInv'
  <1>1. Grace \in Nat /\ \A j \in Job : Less(grace[j]) \in 0..Grace
        BY LessStays, LoopConstants DEF LInv, WInv
  <1> QED BY <1>1 DEF Clock, LInv, WInv

LEMMA LoopInvariant == LInv /\ [LoopNext]_<<loopVars, astray>> => LInv'
  <1> SUFFICES ASSUME LInv, [LoopNext]_<<loopVars, astray>> PROVE LInv'
      OBVIOUS
  <1>1. IInv'
        BY LoopIsClient, NextInvariant DEF LInv
  <1>2. CASE \E j \in Job : Worker(j) BY <1>2, WorkerKeepsBooks, <1>1 DEF LInv
  <1>3. CASE \E j \in Job : Surroundings(j) BY <1>3, SurroundingsKeepBooks, <1>1 DEF LInv
  <1>4. CASE Clock BY <1>4, ClockKeepsBooks, <1>1 DEF LInv
  <1>5. CASE UNCHANGED <<loopVars, astray>>
        BY <1>1, <1>5 DEF loopVars, workerVars, LInv, WInv
  <1> QED BY <1>2, <1>3, <1>4, <1>5 DEF LoopNext

--------------------------------------------------------------------------------
(* How long a child may live untracked.                                      *)

(* A worker changes its own place only. *)
LEMMA OwnPlace ==
    ASSUME LInv, NEW j \in Job, NEW k \in Job, k # j, Worker(k) \/ Surroundings(k)
    PROVE  /\ pc'[j] = pc[j] /\ mine'[j] = mine[j] /\ misses'[j] = misses[j]
           /\ beat'[j] = beat[j] /\ child'[j] = child[j] /\ grace'[j] = grace[j]
  <1> USE DEF LInv, WInv, Goto
  <1>1. CASE TakeTicket(k) \/ LeaveQueue(k) \/ QuitQueue(k) \/ ClaimInherited(k) \/ ClaimRefused(k)
        BY <1>1 DEF TakeTicket, LeaveQueue, QuitQueue, ClaimInherited, ClaimRefused
  <1>2. CASE ClaimWon(k)
    <2>1. PICK t \in Token : mine' = [mine EXCEPT ![k] = t]
          BY <1>2 DEF ClaimWon, Unused
    <2>2. /\ pc' = [pc EXCEPT ![k] = "granted"] /\ beat' = [beat EXCEPT ![k] = FALSE]
          /\ UNCHANGED <<misses, child, grace>>
          BY <1>2 DEF ClaimWon
    <2> QED BY <2>1, <2>2
  <1>3. CASE StartChild(k) \/ TerminateChild(k) \/ KillChild(k) \/ Reap(k)
        BY <1>3 DEF StartChild, TerminateChild, KillChild, Reap
  <1>4. CASE RenewalRefused(k) BY <1>4 DEF RenewalRefused, MissRenewal
  <1>5. CASE RenewLease(k) BY <1>5 DEF RenewLease
  <1>6. CASE FinishSelect(k) BY <1>6 DEF FinishSelect, Return
  <1>7. CASE Record(k) BY <1>7 DEF Record
  <1>8. CASE Release(k) BY <1>8 DEF Release, Return
  <1>9. CASE Surroundings(k)
        BY <1>9 DEF Surroundings, ChildExit, Switch, Stop, Quit, Crash, Start, RenewalError,
                    MissRenewal, workerVars
  <1> QED BY <1>1, <1>2, <1>3, <1>4, <1>5, <1>6, <1>7, <1>8, <1>9
          DEF Worker, Queueing, Supervising, Finishing

(* What a worker has spent of the time its untracked child is allowed: a tick *)
(* per refused renewal and one for the renewal that is due, and then what is *)
(* gone of the grace.                                                        *)
TimeSpent(j) ==
    /\ astray[j] \in Nat
    /\ ~child[j] => astray[j] = 0
    /\ pc[j] = "run" /\ child[j] => astray[j] <= misses[j] + (IF beat[j] THEN 0 ELSE 1)
    /\ pc[j] = "stopping" /\ child[j] => astray[j] + grace[j] <= MaxMisses + Grace

SInv == LInv /\ \A j \in Job : TimeSpent(j)

LEMMA Numbers ==
    ASSUME LInv
    PROVE  /\ MaxMisses \in Nat \ {0} /\ Grace \in Nat
           /\ \A j \in Job : misses[j] \in Nat /\ grace[j] \in Nat /\ grace[j] <= Grace
  BY LoopConstants DEF LInv, WInv

LEMMA Counting ==
    ASSUME Count(0), NEW j \in Job, astray[j] \in Nat
    PROVE  /\ astray'[j] \in Nat /\ astray'[j] <= astray[j]
           /\ ~child'[j] => astray'[j] = 0
           /\ Tracked(j)' => astray'[j] = 0
  BY DEF Count, Stray

(* A step that leaves the worker of a job where it is costs it nothing.      *)
LEMMA Elsewhere ==
    ASSUME SInv, Count(0), NEW j \in Job,
           /\ pc'[j] = pc[j] /\ misses'[j] = misses[j]
           /\ beat'[j] = beat[j] /\ child'[j] = child[j] /\ grace'[j] = grace[j]
    PROVE  TimeSpent(j)'
  <1>1. TimeSpent(j) /\ astray'[j] \in Nat /\ astray'[j] <= astray[j]
        /\ (~child'[j] => astray'[j] = 0)
        BY Counting DEF SInv, TimeSpent
  <1> QED BY <1>1, Numbers DEF SInv, TimeSpent

(* So does one after which it has no child.                                  *)
LEMMA Childless ==
    ASSUME SInv, Count(0), NEW j \in Job, ~child'[j]
    PROVE  TimeSpent(j)'
  BY Counting DEF SInv, TimeSpent

(* One more missed renewal, by refusal or by error. *)
LEMMA MissSpends ==
    ASSUME SInv, Count(0), NEW j \in Job, MissRenewal(j)
    PROVE  TimeSpent(j)'
  <1>1. /\ pc[j] = "run" /\ child[j] /\ ~beat[j] /\ child'[j]
        /\ misses' = [misses EXCEPT ![j] = @ + 1] /\ beat' = [beat EXCEPT ![j] = TRUE]
        BY DEF MissRenewal
  <1>2. /\ misses[j] < MaxMisses /\ misses \in [Job -> Nat] /\ beat \in [Job -> BOOLEAN]
        /\ pc \in [Job -> Places] /\ grace \in [Job -> 0..Grace]
        BY <1>1 DEF SInv, LInv, WInv
  <1>3. /\ astray[j] \in Nat /\ astray[j] <= misses[j] + 1
        /\ astray'[j] \in Nat /\ astray'[j] <= astray[j]
        BY <1>1, Counting DEF SInv, TimeSpent
  <1>4. misses'[j] = misses[j] + 1 /\ beat'[j]
        BY <1>1, <1>2
  <1>5. CASE misses[j] + 1 >= MaxMisses
    <2>1. pc'[j] = "stopping" /\ grace'[j] = Grace
          BY <1>2, <1>5 DEF MissRenewal, Goto
    <2>2. astray'[j] + Grace <= MaxMisses + Grace
          BY <1>2, <1>3, Numbers DEF SInv
    <2> QED BY <1>1, <1>3, <2>1, <2>2 DEF TimeSpent
  <1>6. CASE ~(misses[j] + 1 >= MaxMisses)
    <2>1. pc'[j] = "run"
          BY <1>1, <1>6 DEF MissRenewal
    <2>2. astray'[j] <= misses'[j] + 0
          BY <1>2, <1>3, <1>4
    <2> QED BY <1>1, <1>3, <1>4, <2>1, <2>2 DEF TimeSpent
  <1> QED BY <1>5, <1>6

LEMMA OwnStepSpends ==
    ASSUME SInv, Count(0), NEW j \in Job, Worker(j)
    PROVE  TimeSpent(j)'
  <1>0. /\ pc \in [Job -> Places] /\ child \in [Job -> BOOLEAN] /\ grace \in [Job -> 0..Grace]
        /\ beat \in [Job -> BOOLEAN] /\ misses \in [Job -> Nat]
        /\ child[j] => pc[j] \in {"run", "stopping"}
        /\ pc[j] = "run" => misses[j] < MaxMisses
        /\ astray[j] \in Nat /\ TimeSpent(j)
        BY DEF SInv, LInv, WInv, TimeSpent
  <1>1. CASE Queueing(j)
    <2>1. ~child[j] /\ child' = child
          BY <1>0, <1>1 DEF Queueing, TakeTicket, LeaveQueue, ClaimWon, ClaimInherited, ClaimRefused, QuitQueue
    <2> QED BY <2>1, Childless
  <1>2. CASE StartChild(j)
    <2>1. /\ ~child[j] /\ pc'[j] = "run" /\ misses' = misses /\ beat' = beat
          BY <1>0, <1>2 DEF StartChild, Goto
    <2>2. astray'[j] = 0
          BY <1>0, <2>1, Counting DEF TimeSpent
    <2>3. astray'[j] <= misses'[j] + (IF beat'[j] THEN 0 ELSE 1)
          BY <1>0, <2>1, <2>2
    <2> QED BY <2>1, <2>2, <2>3 DEF TimeSpent
  <1>3. CASE RenewLease(j)
    <2>1. /\ pc'[j] = "run" /\ child'[j] /\ misses'[j] = 0 /\ beat'[j]
          /\ status'[j] = "running" /\ token'[j] = mine'[j]
          BY <1>0, <1>3 DEF RenewLease, Renew, Held
    <2>2. astray'[j] = 0
          BY <1>0, <2>1, Counting DEF Tracked
    <2> QED BY <2>1, <2>2 DEF TimeSpent
  <1>4. CASE RenewalRefused(j)
        BY <1>4, MissSpends DEF RenewalRefused
  <1>5. CASE TerminateChild(j)
    <2>1. pc[j] = "run" /\ child[j] /\ child'[j] /\ pc'[j] = "stopping" /\ grace'[j] = Grace
          BY <1>0, <1>5 DEF TerminateChild, Goto
    <2>2. astray[j] <= misses[j] + 1 /\ misses[j] < MaxMisses
          BY <1>0, <2>1 DEF TimeSpent
    <2>3. astray'[j] \in Nat /\ astray'[j] + Grace <= MaxMisses + Grace
          BY <1>0, <2>2, Counting, Numbers DEF SInv
    <2> QED BY <2>1, <2>3 DEF TimeSpent
  <1>6. CASE KillChild(j) \/ Reap(j)
    <2>1. ~child'[j]
          BY <1>0, <1>6 DEF KillChild, Reap
    <2> QED BY <2>1, Childless
  <1>7. CASE Finishing(j)
    <2>1. ~child[j] /\ child' = child
          BY <1>0, <1>7 DEF Finishing, FinishSelect, Record, Release, Return
    <2> QED BY <2>1, Childless
  <1> QED BY <1>1, <1>2, <1>3, <1>4, <1>5, <1>6, <1>7 DEF Worker, Supervising

LEMMA SurroundingsSpend ==
    ASSUME SInv, Count(0), NEW j \in Job, Surroundings(j)
    PROVE  TimeSpent(j)'
  <1>0. /\ pc \in [Job -> Places] /\ child \in [Job -> BOOLEAN]
        /\ child[j] => pc[j] \in {"run", "stopping"}
        BY DEF SInv, LInv, WInv
  <1>1. CASE ChildExit(j) \/ Quit(j) \/ Crash(j) \/ Start(j)
    <2>1. ~child'[j]
          BY <1>0, <1>1 DEF ChildExit, Quit, Crash, Start
    <2> QED BY <2>1, Childless
  <1>2. CASE Switch(j) \/ Stop(j)
        BY <1>2, Elsewhere DEF Switch, Stop, workerVars
  <1>3. CASE RenewalError(j)
        BY <1>3, MissSpends DEF RenewalError
  <1> QED BY <1>1, <1>2, <1>3 DEF Surroundings

(* A tick passes only once the renewal of the last one has been tried, or    *)
(* while there is grace left.                                                *)
LEMMA ClockSpends ==
    ASSUME SInv, Timely, Clock, Count(1), NEW j \in Job
    PROVE  TimeSpent(j)'
  <1>1. OnTime(j) /\ TimeSpent(j)
        BY DEF SInv, Clock
  <1>2. /\ UNCHANGED <<pc, misses, child>>
        /\ grace'[j] = Less(grace[j]) /\ beat'[j] = FALSE
        BY DEF Clock
  <1>3. astray'[j] \in Nat /\ astray'[j] <= astray[j] + 1 /\ (~child'[j] => astray'[j] = 0)
        BY <1>1 DEF Count, Stray, TimeSpent
  <1>4. CASE child[j] /\ pc[j] = "run"
    <2>1. beat[j] /\ astray[j] <= misses[j] + 0
          BY <1>1, <1>4 DEF OnTime, TimeSpent
    <2>2. astray'[j] <= misses'[j] + 1
          BY <1>1, <1>2, <1>3, <2>1, Numbers DEF SInv, TimeSpent
    <2> QED BY <1>2, <1>3, <1>4, <2>2 DEF TimeSpent
  <1>5. CASE child[j] /\ pc[j] = "stopping"
    <2>1. grace[j] > 0 /\ astray[j] + grace[j] <= MaxMisses + Grace
          BY <1>1, <1>5 DEF OnTime, TimeSpent
    <2>2. grace'[j] = grace[j] - 1
          BY <1>2, <2>1, Numbers DEF SInv, Less
    <2>3. astray'[j] + grace'[j] <= MaxMisses + Grace
          BY <1>1, <1>3, <2>1, <2>2, Numbers DEF SInv, TimeSpent
    <2> QED BY <1>2, <1>3, <1>5, <2>3 DEF TimeSpent
  <1>6. CASE ~child[j]
        BY <1>2, <1>3, <1>6 DEF TimeSpent
  <1> QED BY <1>4, <1>5, <1>6 DEF SInv, LInv, WInv

LEMMA StrayInvariant ==
    ASSUME Timely
    PROVE  SInv /\ [LoopNext]_<<loopVars, astray>> => SInv'
  <1> SUFFICES ASSUME SInv, [LoopNext]_<<loopVars, astray>>
               PROVE  SInv'
      OBVIOUS
  <1>1. LInv'
        BY LoopInvariant DEF SInv
  <1> SUFFICES ASSUME NEW j \in Job PROVE TimeSpent(j)'
      BY <1>1 DEF SInv
  <1>2. CASE UNCHANGED <<loopVars, astray>>
        BY <1>2 DEF SInv, loopVars, workerVars, TimeSpent
  <1>3. CASE (\E k \in Job : Worker(k) \/ Surroundings(k)) /\ Count(0)
    <2>1. PICK k \in Job : Worker(k) \/ Surroundings(k)
          BY <1>3
    <2>2. CASE k = j
          BY <1>3, <2>1, <2>2, OwnStepSpends, SurroundingsSpend
    <2>3. CASE k # j
      <3>1. /\ pc'[j] = pc[j] /\ misses'[j] = misses[j]
            /\ beat'[j] = beat[j] /\ child'[j] = child[j] /\ grace'[j] = grace[j]
            BY <2>1, <2>3, OwnPlace DEF SInv
      <3> QED BY <1>3, <3>1, Elsewhere
    <2> QED BY <2>2, <2>3
  <1>4. CASE Clock /\ Count(1)
        BY <1>4, ClockSpends
  <1> QED BY <1>2, <1>3, <1>4 DEF LoopNext

(* Workers that are scheduled in time stop a child the queue no longer shows, *)
(* whatever the length of the lease: it outlives the loss of its row by no   *)
(* more than the renewals a worker may miss and the grace, for any number of *)
(* jobs and with crashes, inherited leases, signals and failing renewals at  *)
(* any moment.                                                               *)
THEOREM NoChildStrays ==
    ASSUME Timely
    PROVE  LoopSpec => []StraysAreStopped
  <1>1. LoopInit => SInv
        BY LoopInitInvariant DEF SInv, LoopInit, TimeSpent
  <1>2. SInv => StraysAreStopped
    <2> SUFFICES ASSUME SInv, NEW j \in Job, child[j]
                 PROVE  astray[j] <= MaxMisses + Grace
        BY DEF StraysAreStopped
    <2>1. TimeSpent(j) /\ astray[j] \in Nat /\ pc[j] \in {"run", "stopping"}
          /\ (pc[j] = "run" => misses[j] < MaxMisses)
          BY DEF SInv, LInv, WInv, TimeSpent
    <2>2. CASE pc[j] = "run"
      <3>1. astray[j] <= misses[j] + 1
            BY <2>1, <2>2, Numbers DEF SInv, TimeSpent
      <3> QED BY <2>1, <2>2, <3>1, Numbers DEF SInv
    <2>3. CASE pc[j] = "stopping"
          BY <2>1, <2>3, Numbers DEF SInv, TimeSpent
    <2> QED BY <2>1, <2>2, <2>3
  <1> QED BY <1>1, <1>2, StrayInvariant, PTL DEF LoopSpec

================================================================================
