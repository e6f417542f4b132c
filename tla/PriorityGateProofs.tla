------------------------- MODULE PriorityGateProofs -------------------------
(***************************************************************************)
(* Proofs about PriorityGate for any clients, offers, limits and times:     *)
(* slots and lanes, that nobody is overtaken except as the code means, and  *)
(* that bursts wait for their grace.                                        *)
(***************************************************************************)
EXTENDS PriorityGate, FiniteSetTheorems, TLAPS

Request == [priority : Priorities, burst : BOOLEAN, timeout : Nat]

\* TypeOK without the modelling bounds on ages, which nothing below needs.
Types ==
    /\ pending \in Seq(Requests) /\ Len(pending) =< MaxPending
    /\ active \subseteq Requests
    /\ idle \in 0..BurstIdle /\ calm \in 0..BurstIdle
    /\ phase \in [Requests -> Phases]
    /\ offer \in [Requests -> Request]
    /\ waited \in [Requests -> 0..MaxAge]
    /\ quiet \in [Requests -> 0..UpstreamTimeout]

\* A queue without the ticket at position i is a queue, one shorter, in the same order.
LEMMA DropAtQueue ==
    ASSUME NEW q \in Seq(Requests), NEW i \in DOMAIN q
    PROVE  /\ DropAt(q, i) \in Seq(Requests)
           /\ Len(DropAt(q, i)) = Len(q) - 1
           /\ \A j \in DOMAIN DropAt(q, i) :
                DropAt(q, i)[j] = IF j < i THEN q[j] ELSE q[j + 1]
<1>1. Len(q) \in Nat /\ DOMAIN q = 1..Len(q) /\ i \in 1..Len(q)
  OBVIOUS
<1>2. \A j \in 1..(Len(q) - 1) : (IF j < i THEN q[j] ELSE q[j + 1]) \in Requests
  BY <1>1
<1>3. DropAt(q, i) \in [1..(Len(q) - 1) -> Requests]
  BY <1>2 DEF DropAt
<1>4. Len(q) - 1 \in Nat
  BY <1>1
<1> HIDE DEF DropAt
<1>5. DropAt(q, i) \in Seq(Requests) /\ Len(DropAt(q, i)) = Len(q) - 1
  BY <1>3, <1>4
<1> QED
  BY <1>5, <1>1 DEF DropAt

\* What Selected promises in either of its branches.
LEMMA SelectedCanRun ==
    ASSUME NEW q, NEW o, NEW w, NEW i, Selected(q, o, w, i)
    PROVE  i \in DOMAIN q /\ CanRun(q, o, q[i])
  BY DEF Selected, Starved, Eligible

-----------------------------------------------------------------------------
(* Type correctness *)

LEMMA InitTypes == Init => Types
<1> SUFFICES ASSUME Init PROVE Types
  OBVIOUS
<1> USE GateAssumption DEF GateAssumption, Init, Types
<1>1. pending \in Seq(Requests) /\ Len(pending) =< MaxPending
  OBVIOUS
<1>2. offer \in [Requests -> Request]
  BY DEF Off, Request, Priorities
<1> QED
  BY <1>1, <1>2 DEF Phases

\* Granting the ticket at position i of a queue q keeps the types.
LEMMA TakeTypes ==
    ASSUME Types, NEW q \in Seq(Requests), NEW o, NEW i \in DOMAIN q, Take(q, o, i),
           Len(q) =< MaxPending + 1
    PROVE  /\ pending' \in Seq(Requests) /\ Len(pending') =< MaxPending
           /\ active' \subseteq Requests /\ idle' \in 0..BurstIdle
           /\ phase' \in [Requests -> Phases]
           /\ quiet' \in [Requests -> 0..UpstreamTimeout]
<1>1. q[i] \in Requests
  OBVIOUS
<1>2. pending' \in Seq(Requests) /\ Len(pending') = Len(q) - 1
  BY DropAtQueue DEF Take
<1>3. Len(q) \in Nat
  OBVIOUS
<1>4. Len(pending') =< MaxPending
  BY <1>2, <1>3, GateAssumption DEF GateAssumption
<1>5. active' \subseteq Requests
  BY <1>1 DEF Types, Take
<1>6. idle' \in 0..BurstIdle
  BY GateAssumption DEF Types, Take, GateAssumption
<1>7. phase' \in [Requests -> Phases]
  BY <1>1 DEF Types, Take, Phases
<1>8. quiet' \in [Requests -> 0..UpstreamTimeout]
  BY <1>1, GateAssumption DEF Types, Take, GateAssumption
<1> QED
  BY <1>2, <1>4, <1>5, <1>6, <1>7, <1>8

LEMMA NextTypes == Types /\ [Next]_vars => Types'
<1> SUFFICES ASSUME Types, [Next]_vars PROVE Types'
  OBVIOUS
<1>0. /\ MaxPending \in Nat /\ MaxAge \in Nat /\ BurstIdle \in Nat /\ UpstreamTimeout \in Nat
      /\ \A r \in Requests : Offers[r] \subseteq Request
  BY GateAssumption DEF GateAssumption, Request
<1>1. CASE Tick
  <2>1. waited' \in [Requests -> 0..MaxAge]
    BY <1>0, <1>1 DEF Types, Tick, Older, Min2
  <2>2. quiet' \in [Requests -> 0..UpstreamTimeout]
    BY <1>0, <1>1 DEF Types, Tick, Older, Min2
  <2>4. idle' \in 0..BurstIdle /\ calm' \in 0..BurstIdle
    BY <1>0, <1>1 DEF Types, Tick, Min2
  <2> QED
    BY <1>0, <1>1, <2>1, <2>2, <2>4 DEF Types, Tick
<1>2. CASE Crash
  <2>1. pending' \in Seq(Requests) /\ Len(pending') =< MaxPending
    BY <1>0, <1>2 DEF Crash
  <2>2. offer' \in [Requests -> Request]
    BY <1>0, <1>2 DEF Crash, Off, Request, Priorities
  <2> QED
    BY <1>0, <1>2, <2>1, <2>2 DEF Types, Crash, Phases
<1>3. ASSUME NEW r \in Requests, Refuse(r) PROVE Types'
  BY <1>0, <1>3 DEF Types, Refuse, Phases, gate, clocks
<1>4. ASSUME NEW r \in Requests, NEW request \in Offers[r], Enter(r, request) PROVE Types'
  <2> DEFINE q == Append(pending, r)
             o == [offer EXCEPT ![r] = request]
             w == [waited EXCEPT ![r] = 0]
  <2>1. q \in Seq(Requests) /\ Len(q) = Len(pending) + 1 /\ Len(pending) \in Nat
        /\ Len(q) \in DOMAIN q
    BY <1>0 DEF Types
  <2>2. Len(pending) < MaxPending /\ offer' = o /\ waited' = w /\ calm' = calm
    BY <1>0, <1>4 DEF Enter
  <2>3. o \in [Requests -> Request]
    BY <1>0 DEF Types, Request
  <2>4. w \in [Requests -> 0..MaxAge]
    BY <1>0 DEF Types
  <2>5. CASE Take(q, o, Len(q))
    <3> HIDE DEF q, o, w
    <3>1. Len(q) =< MaxPending + 1
      BY <1>0, <2>1, <2>2
    <3>2. /\ pending' \in Seq(Requests) /\ Len(pending') =< MaxPending
          /\ active' \subseteq Requests /\ idle' \in 0..BurstIdle
          /\ phase' \in [Requests -> Phases]
          /\ quiet' \in [Requests -> 0..UpstreamTimeout]
      BY <1>0, <2>1, <2>5, <3>1, TakeTypes
    <3> QED
      BY <1>0, <3>2, <2>2, <2>3, <2>4 DEF Types
  <2>6. CASE /\ pending' = q /\ phase' = [phase EXCEPT ![r] = "waiting"]
             /\ UNCHANGED <<active, idle, quiet>>
    <3>1. Len(q) =< MaxPending
      BY <1>0, <2>1, <2>2
    <3> HIDE DEF q, o, w
    <3> QED
      BY <1>0, <3>1, <2>1, <2>2, <2>3, <2>4, <2>6 DEF Types, Phases
  <2> QED
    BY <1>0, <1>4, <2>5, <2>6 DEF Enter
<1>5. ASSUME NEW r \in Requests, Grant(r) PROVE Types'
  <2>1. PICK i \in DOMAIN pending : Take(pending, offer, i)
    BY <1>0, <1>5 DEF Grant
  <2>2. pending \in Seq(Requests) /\ Len(pending) =< MaxPending + 1
    BY <1>0 DEF Types
  <2>3. /\ pending' \in Seq(Requests) /\ Len(pending') =< MaxPending
        /\ active' \subseteq Requests /\ idle' \in 0..BurstIdle
        /\ phase' \in [Requests -> Phases]
        /\ quiet' \in [Requests -> 0..UpstreamTimeout]
    BY <1>0, <2>1, <2>2, TakeTypes
  <2>4. waited' \in [Requests -> 0..MaxAge] /\ offer' = offer /\ calm' = calm
    BY <1>0, <1>5 DEF Types, Grant
  <2> QED
    BY <1>0, <2>3, <2>4 DEF Types
<1>6. ASSUME NEW r \in Requests, Expire(r) PROVE Types'
  <2>1. PICK i \in DOMAIN pending : pending' = DropAt(pending, i)
    BY <1>0, <1>6 DEF Expire
  <2>2. pending \in Seq(Requests) /\ Len(pending) \in Nat /\ Len(pending) =< MaxPending
    BY <1>0 DEF Types
  <2>3. pending' \in Seq(Requests) /\ Len(pending') = Len(pending) - 1
    BY <1>0, <2>1, <2>2, DropAtQueue
  <2>4. Len(pending') =< MaxPending
    BY <1>0, <2>2, <2>3
  <2>5. offer' \in [Requests -> Request]
    BY <1>0, <1>6 DEF Types, Expire, Off, Request, Priorities
  <2>6. phase' = [phase EXCEPT ![r] = "refused"] /\ waited' = [waited EXCEPT ![r] = 0]
    BY <1>6 DEF Expire
  <2>7. phase' \in [Requests -> Phases] /\ waited' \in [Requests -> 0..MaxAge]
    BY <1>0, <2>6 DEF Types, Phases
  <2>8. active' = active /\ idle' = idle /\ quiet' = quiet /\ calm' = calm
    BY <1>0, <1>6 DEF Expire
  <2> QED
    BY <1>0, <2>3, <2>4, <2>5, <2>7, <2>8 DEF Types
<1>7. ASSUME NEW r \in Requests, FailOpen(r) PROVE Types'
  BY <1>0, <1>7 DEF Types, FailOpen, Phases, gate
<1>8. ASSUME NEW r \in Requests, Chunk(r) PROVE Types'
  BY <1>0, <1>8 DEF Types, Chunk, Phases, gate
<1>9. ASSUME NEW r \in Requests, Written(r) PROVE Types'
  BY <1>0, <1>9 DEF Types, Written, Phases, gate, clocks
<1>10. ASSUME NEW r \in Requests, Release(r) PROVE Types'
  <2>1. offer' \in [Requests -> Request]
    BY <1>0, <1>10 DEF Types, Release, Off, Request, Priorities
  <2> QED
    BY <1>0, <1>10, <2>1 DEF Types, Release, Phases
<1>11. CASE UNCHANGED vars
  BY <1>0, <1>11 DEF Types, vars, gate, clocks
<1> QED
  BY <1>0, <1>1, <1>2, <1>3, <1>4, <1>5, <1>6, <1>7, <1>8, <1>9, <1>10, <1>11
     DEF Next, Thread, Wake, Finish, ReadTimesOut

\* Every reachable state has the types of the gate, and the queue never holds more
\* than max_pending tickets, whatever fails (acquire checks before it appends).
THEOREM TypeCorrect == Spec => []TypeOK
<1>1. Types => TypeOK
  BY DEF Types, TypeOK, Request
<1> QED
  BY <1>1, InitTypes, NextTypes, PTL DEF Spec

-----------------------------------------------------------------------------
(* Slots and lanes *)

\* LanesKept, and what makes it inductive: a ticket with a slot is being forwarded,
\* so no new request of its client can change its data.
Lanes ==
    /\ LanesKept
    /\ IsFiniteSet(active)
    /\ \A r \in active : phase[r] \in {"reading", "writing"}

LEMMA BackgroundSubset ==
    ASSUME NEW o
    PROVE  BackgroundActive(o) \subseteq active /\ Unmarked(o) \subseteq BackgroundActive(o)
  BY DEF BackgroundActive, Unmarked

\* Giving up slots, with the data of the others left alone, keeps the lanes.
LEMMA FewerKeepLanes ==
    ASSUME Types, Lanes, active' \subseteq active,
           \A r \in active' : offer'[r] = offer[r]
    PROVE  LanesKept' /\ IsFiniteSet(active')
<1>1. IsFiniteSet(active)
  BY DEF Lanes
<1>2. IsFiniteSet(active') /\ Cardinality(active') =< Cardinality(active)
  BY <1>1, FS_Subset
<1>3. BackgroundActive(offer)' \subseteq BackgroundActive(offer)
  BY DEF BackgroundActive, IsBackground
<1>4. Unmarked(offer)' \subseteq Unmarked(offer)
  BY <1>3 DEF Unmarked, BackgroundActive
<1>5. IsFiniteSet(BackgroundActive(offer)) /\ IsFiniteSet(Unmarked(offer))
  BY <1>1, BackgroundSubset, FS_Subset
<1>6. /\ IsFiniteSet(BackgroundActive(offer)') /\ IsFiniteSet(Unmarked(offer)')
      /\ Cardinality(BackgroundActive(offer)') =< Cardinality(BackgroundActive(offer))
      /\ Cardinality(Unmarked(offer)') =< Cardinality(Unmarked(offer))
  BY <1>3, <1>4, <1>5, FS_Subset
<1>7. /\ Cardinality(active) \in Nat /\ Cardinality(active') \in Nat
      /\ Cardinality(BackgroundActive(offer)) \in Nat
      /\ Cardinality(BackgroundActive(offer)') \in Nat
      /\ Cardinality(Unmarked(offer)) \in Nat /\ Cardinality(Unmarked(offer)') \in Nat
  BY <1>1, <1>2, <1>5, <1>6, FS_CardinalityType
<1>8. LanesKept
  BY DEF Lanes
<1>9. MaxConcurrency \in Nat /\ BackgroundConcurrency \in Nat /\ BurstConcurrency \in Nat
  BY GateAssumption DEF GateAssumption
<1> QED
  BY <1>2, <1>6, <1>7, <1>8, <1>9 DEF LanesKept

\* A grant of a ticket that _can_run_locked lets through keeps the lanes.
LEMMA TakeKeepsLanes ==
    ASSUME Types, Lanes, NEW q \in Seq(Requests), NEW o, NEW i \in DOMAIN q,
           CanRun(q, o, q[i]), Take(q, o, i), offer' = o,
           q[i] \notin active, \A r \in active : o[r] = offer[r]
    PROVE  Lanes'
<1> DEFINE x == q[i]
           B == BackgroundActive(offer)
           U == Unmarked(offer)
<1>1. x \in Requests /\ active' = active \cup {x} /\ x \notin active
  BY DEF Take
<1>2. IsFiniteSet(active) /\ IsFiniteSet(B) /\ IsFiniteSet(U)
  BY BackgroundSubset, FS_Subset DEF Lanes
<1>3. IsFiniteSet(active') /\ Cardinality(active') = Cardinality(active) + 1
  BY <1>1, <1>2, FS_AddElement
<1>4. B = BackgroundActive(o)
  BY DEF BackgroundActive, IsBackground
<1>5. B' = IF IsBackground(o, x) THEN B \cup {x} ELSE B
  BY <1>1 DEF BackgroundActive, IsBackground
<1>6. U' = IF IsBackground(o, x) /\ ~o[x].burst THEN U \cup {x} ELSE U
  BY <1>1, <1>5 DEF Unmarked, BackgroundActive, IsBackground
<1>7. x \notin B /\ x \notin U
  BY <1>1 DEF BackgroundActive, Unmarked
<1>8. Cardinality(B') = IF IsBackground(o, x) THEN Cardinality(B) + 1 ELSE Cardinality(B)
  BY <1>2, <1>5, <1>7, FS_AddElement
<1>9. Cardinality(U') = IF IsBackground(o, x) /\ ~o[x].burst
                        THEN Cardinality(U) + 1 ELSE Cardinality(U)
  BY <1>2, <1>6, <1>7, FS_AddElement
<1>10. Cardinality(active) \in Nat /\ Cardinality(B) \in Nat /\ Cardinality(U) \in Nat
       /\ Cardinality(U) =< Cardinality(B)
  BY <1>2, BackgroundSubset, FS_Subset, FS_CardinalityType
<1>11. MaxConcurrency \in Nat /\ BackgroundConcurrency \in Nat /\ BurstConcurrency \in Nat
       /\ BackgroundConcurrency =< BurstConcurrency
  BY GateAssumption DEF GateAssumption
<1>12. /\ Cardinality(active) < MaxConcurrency
       /\ IsBackground(o, x) => \/ Cardinality(B) < BackgroundConcurrency
                                \/ o[x].burst /\ Cardinality(B) < BurstConcurrency
  BY <1>4 DEF CanRun
<1>13. Cardinality(B) =< BurstConcurrency /\ Cardinality(U) =< BackgroundConcurrency
  BY DEF Lanes, LanesKept
<1> HIDE DEF B, U, x
<1>14. /\ Cardinality(active') =< MaxConcurrency
       /\ Cardinality(B') =< BurstConcurrency
       /\ Cardinality(U') =< BackgroundConcurrency
  BY <1>3, <1>8, <1>9, <1>10, <1>11, <1>12, <1>13
<1>15. \A r \in active' : phase'[r] \in {"reading", "writing"}
  BY <1>1 DEF Take, Types, Lanes, x
<1> QED
  BY <1>3, <1>14, <1>15 DEF Lanes, LanesKept, B, U

LEMMA InitLanes == Init => Lanes
<1> SUFFICES ASSUME Init PROVE Lanes
  OBVIOUS
<1>1. active = {} /\ BackgroundActive(offer) = {} /\ Unmarked(offer) = {}
  BY DEF Init, BackgroundActive, Unmarked
<1>2. IsFiniteSet({}) /\ Cardinality({}) = 0
  BY FS_EmptySet
<1> QED
  BY <1>1, <1>2, GateAssumption DEF Lanes, LanesKept, GateAssumption

LEMMA NextLanes == Types /\ Lanes /\ [Next]_vars => Lanes'
<1> SUFFICES ASSUME Types, Lanes, [Next]_vars PROVE Lanes'
  OBVIOUS
<1>1. ASSUME active' = active, offer' = offer, phase' = phase PROVE Lanes'
  BY <1>1, FewerKeepLanes DEF Lanes
<1>2. CASE Crash
  BY <1>2, FewerKeepLanes DEF Lanes, Crash
<1>3. ASSUME NEW r \in Requests, Refuse(r) PROVE Lanes'
  <2>1. r \notin active /\ active' = active /\ offer' = offer
        /\ phase' = [phase EXCEPT ![r] = "refused"]
    BY <1>3 DEF Refuse, Lanes, gate
  <2> QED
    BY <2>1, FewerKeepLanes DEF Lanes, Types
<1>4. ASSUME NEW r \in Requests, NEW request \in Offers[r], Enter(r, request) PROVE Lanes'
  <2> DEFINE q == Append(pending, r)
             o == [offer EXCEPT ![r] = request]
             w == [waited EXCEPT ![r] = 0]
  <2>1. r \notin active /\ offer' = o
    BY <1>4 DEF Enter, Lanes
  <2>2. \A s \in active : o[s] = offer[s]
    BY <2>1 DEF Types
  <2>3. q \in Seq(Requests) /\ Len(q) \in DOMAIN q /\ q[Len(q)] = r
    BY DEF Types
  <2>4. CASE Selected(q, o, w, Len(q)) /\ Take(q, o, Len(q))
    <3> HIDE DEF q, o, w
    <3>1. CanRun(q, o, q[Len(q)])
      BY <2>4, SelectedCanRun
    <3> QED
      BY <2>1, <2>2, <2>3, <2>4, <3>1, TakeKeepsLanes
  <2>5. CASE phase' = [phase EXCEPT ![r] = "waiting"] /\ active' = active
    <3>1. LanesKept' /\ IsFiniteSet(active')
      BY <2>1, <2>2, <2>5, FewerKeepLanes
    <3>2. \A s \in active' : phase'[s] \in {"reading", "writing"}
      BY <2>1, <2>5 DEF Lanes, Types
    <3> QED
      BY <3>1, <3>2 DEF Lanes
  <2> QED
    BY <1>4, <2>4, <2>5 DEF Enter
<1>5. ASSUME NEW r \in Requests, Grant(r) PROVE Lanes'
  <2>1. PICK i \in DOMAIN pending : /\ pending[i] = r
                                    /\ Selected(pending, offer, waited, i)
                                    /\ Take(pending, offer, i)
    BY <1>5 DEF Grant
  <2>2. CanRun(pending, offer, pending[i])
    BY <2>1, SelectedCanRun
  <2>3. r \notin active /\ offer' = offer
    BY <1>5 DEF Grant, Lanes
  <2>4. pending \in Seq(Requests)
    BY DEF Types
  <2> QED
    BY <2>1, <2>2, <2>3, <2>4, TakeKeepsLanes
<1>6. ASSUME NEW r \in Requests, Expire(r) PROVE Lanes'
  <2>1. r \notin active /\ active' = active /\ offer' = [offer EXCEPT ![r] = Off]
        /\ phase' = [phase EXCEPT ![r] = "refused"]
    BY <1>6 DEF Expire, Lanes
  <2>2. \A s \in active' : offer'[s] = offer[s] /\ phase'[s] = phase[s]
    BY <2>1 DEF Types
  <2> QED
    BY <2>1, <2>2, FewerKeepLanes DEF Lanes
<1>7. ASSUME NEW r \in Requests, FailOpen(r) \/ Chunk(r) \/ Written(r) PROVE Lanes'
  <2>1. active' = active /\ offer' = offer
    BY <1>7 DEF FailOpen, Chunk, Written, gate
  <2>2. \A s \in active' : phase'[s] \in {"reading", "writing"}
    BY <1>7, <2>1 DEF FailOpen, Chunk, Written, Lanes, Types
  <2> QED
    BY <2>1, <2>2, FewerKeepLanes DEF Lanes
<1>8. ASSUME NEW r \in Requests, Release(r) PROVE Lanes'
  <2>1. active' \subseteq active /\ r \notin active'
    BY <1>8 DEF Release
  <2>2. \A s \in active' : offer'[s] = offer[s] /\ phase'[s] = phase[s]
    BY <1>8, <2>1 DEF Release, Types
  <2> QED
    BY <2>1, <2>2, FewerKeepLanes DEF Lanes
<1> QED
  BY <1>1, <1>2, <1>3, <1>4, <1>5, <1>6, <1>7, <1>8
     DEF Next, Thread, Wake, Finish, ReadTimesOut, Tick, vars, gate

\* For any number of clients and any limits the configuration accepts, the model never
\* gets more requests than it has slots, background work never more than the burst
\* limit, and unmarked background work keeps to its own lane (_can_run_locked).
THEOREM LanesAreKept == Spec => []LanesKept
<1>1. Lanes => LanesKept
  BY DEF Lanes
<1> QED
  BY <1>1, InitTypes, NextTypes, InitLanes, NextLanes, PTL DEF Spec

-----------------------------------------------------------------------------
(* The order of the queue *)

\* A ticket stands once in the queue, and whoever stands before it waits at least as long.
Ordered ==
    /\ \A i, j \in DOMAIN pending : pending[i] = pending[j] => i = j
    /\ \A i, j \in DOMAIN pending : i < j => waited[pending[j]] =< waited[pending[i]]

\* Dropping a ticket and forgetting its age keeps the order of the others.
LEMMA DropKeepsOrder ==
    ASSUME Types, NEW q \in Seq(Requests), NEW w \in [Requests -> Nat], NEW i \in DOMAIN q,
           \A j, k \in DOMAIN q : q[j] = q[k] => j = k,
           \A j, k \in DOMAIN q : j < k => w[q[k]] =< w[q[j]],
           pending' = DropAt(q, i),
           \A r \in Requests \ {q[i]} : waited'[r] = w[r]
    PROVE  Ordered'
<1>1. Len(q) \in Nat /\ DOMAIN q = 1..Len(q) /\ DOMAIN pending' = 1..(Len(q) - 1)
  BY DropAtQueue
<1> DEFINE at(j) == IF j < i THEN j ELSE j + 1
<1>2. \A j \in DOMAIN pending' : at(j) \in DOMAIN q /\ at(j) # i /\ pending'[j] = q[at(j)]
  <2>1. ASSUME NEW j \in DOMAIN pending'
        PROVE  at(j) \in DOMAIN q /\ at(j) # i
    BY <1>1
  <2>2. ASSUME NEW j \in DOMAIN pending'
        PROVE  pending'[j] = q[at(j)]
    BY DropAtQueue
  <2> QED
    BY <2>1, <2>2
<1>3. \A j, k \in DOMAIN pending' : /\ at(j) = at(k) => j = k
                                    /\ j < k => at(j) < at(k)
  BY <1>1
<1> HIDE DEF at
<1>4. \A j \in DOMAIN pending' : pending'[j] \in Requests \ {q[i]}
  BY <1>2
<1>5. \A j \in DOMAIN pending' : waited'[pending'[j]] = w[q[at(j)]]
  BY <1>2, <1>4
<1>6. ASSUME NEW j \in DOMAIN pending', NEW k \in DOMAIN pending'
      PROVE  /\ pending'[j] = pending'[k] => j = k
             /\ j < k => waited'[pending'[k]] =< waited'[pending'[j]]
  <2>1. at(j) \in DOMAIN q /\ at(k) \in DOMAIN q
    BY <1>2
  <2>2. pending'[j] = pending'[k] => j = k
    BY <2>1, <1>2, <1>3
  <2>3. ASSUME j < k PROVE waited'[pending'[k]] =< waited'[pending'[j]]
    <3>1. w[q[at(k)]] =< w[q[at(j)]]
      BY <2>1, <2>3, <1>3
    <3> QED
      BY <3>1, <1>5
  <2> QED
    BY <2>2, <2>3
<1> QED
  BY <1>6 DEF Ordered

LEMMA NextOrdered == Types /\ Ordered /\ [Next]_vars => Ordered'
<1> SUFFICES ASSUME Types, Ordered, [Next]_vars PROVE Ordered'
  OBVIOUS
<1>0. waited \in [Requests -> Nat] /\ pending \in Seq(Requests)
  BY GateAssumption DEF Types, GateAssumption
<1>1. ASSUME pending' = pending, waited' = waited PROVE Ordered'
  BY <1>1 DEF Ordered
<1>2. CASE Tick
  <2>1. pending' = pending
    BY <1>2 DEF Tick
  <2>2. \A i \in DOMAIN pending : waited'[pending[i]] = Min2(waited[pending[i]] + 1, MaxAge)
    BY <1>0, <1>2 DEF Tick, Older, Queued
  <2>3. MaxAge \in Nat /\ \A i \in DOMAIN pending : waited[pending[i]] \in Nat
    BY <1>0, GateAssumption DEF GateAssumption
  <2>4. \A a, b \in Nat : a =< b => Min2(a + 1, MaxAge) =< Min2(b + 1, MaxAge)
    BY <2>3 DEF Min2
  <2> QED
    BY <2>1, <2>2, <2>3, <2>4 DEF Ordered
<1>3. CASE Crash
  BY <1>3 DEF Crash, Ordered
<1>4. ASSUME NEW r \in Requests, NEW request \in Offers[r], Enter(r, request) PROVE Ordered'
  <2> DEFINE q == Append(pending, r)
             o == [offer EXCEPT ![r] = request]
             w == [waited EXCEPT ![r] = 0]
  <2>1. /\ q \in Seq(Requests) /\ Len(q) = Len(pending) + 1 /\ q[Len(q)] = r
        /\ Len(pending) \in Nat /\ DOMAIN pending = 1..Len(pending) /\ DOMAIN q = 1..Len(q)
        /\ \A i \in DOMAIN pending : q[i] = pending[i] /\ pending[i] \in Requests
    BY <1>0
  <2>2. w \in [Requests -> Nat] /\ w[r] = 0 /\ \A s \in Requests \ {r} : w[s] = waited[s]
    BY <1>0
  <2>3. waited' = w /\ \A i \in DOMAIN pending : pending[i] # r
    BY <1>4 DEF Enter, Queued
  <2>4. \A j, k \in DOMAIN q : q[j] = q[k] => j = k
    <3> HIDE DEF q, w
    <3> QED BY <2>1, <2>3 DEF Ordered
  <2>5. \A j, k \in DOMAIN q : j < k => w[q[k]] =< w[q[j]]
    <3> HIDE DEF q, w
    <3> SUFFICES ASSUME NEW j \in DOMAIN q, NEW k \in DOMAIN q, j < k
                 PROVE  w[q[k]] =< w[q[j]]
      OBVIOUS
    <3>1. j \in DOMAIN pending /\ w[q[j]] = waited[pending[j]] /\ w[q[j]] \in Nat
      BY <2>1, <2>2, <2>3
    <3>2. CASE k = Len(q)
      BY <3>1, <3>2, <2>1, <2>2
    <3>3. CASE k # Len(q)
      <4>1. k \in DOMAIN pending /\ w[q[k]] = waited[pending[k]]
        BY <3>3, <2>1, <2>2, <2>3
      <4> QED
        BY <3>1, <4>1 DEF Ordered
    <3> QED
      BY <3>2, <3>3
  <2>6. CASE Take(q, o, Len(q))
    <3>1. pending' = DropAt(q, Len(q)) /\ Len(q) \in DOMAIN q
      BY <2>1, <2>6 DEF Take
    <3> HIDE DEF q, o, w
    <3> QED
      BY <3>1, <2>1, <2>2, <2>3, <2>4, <2>5, DropKeepsOrder
  <2>7. CASE pending' = q
    <3> HIDE DEF q, o, w
    <3> QED
      BY <2>7, <2>3, <2>4, <2>5 DEF Ordered
  <2> QED
    BY <1>4, <2>6, <2>7 DEF Enter
<1>5. ASSUME NEW r \in Requests, NEW i \in DOMAIN pending, pending[i] = r,
             pending' = DropAt(pending, i), waited' = [waited EXCEPT ![r] = 0]
      PROVE  Ordered'
  <2>1. \A s \in Requests \ {pending[i]} : waited'[s] = waited[s]
    BY <1>0, <1>5
  <2> QED
    BY <1>0, <1>5, <2>1, DropKeepsOrder DEF Ordered
<1>6. ASSUME NEW r \in Requests, Grant(r) PROVE Ordered'
  BY <1>5, <1>6 DEF Grant, Take
<1>7. ASSUME NEW r \in Requests, Expire(r) PROVE Ordered'
  BY <1>5, <1>7 DEF Expire
<1> QED
  BY <1>1, <1>2, <1>3, <1>4, <1>6, <1>7
     DEF Next, Thread, Wake, Refuse, FailOpen, Chunk, Written, Finish, ReadTimesOut, Release,
         vars, gate, clocks

\* The choice of a ticket against one that stands before it and waits at least as long.
LEMMA ChoiceIsFair ==
    ASSUME NEW q \in Seq(Requests), NEW o \in [Requests -> Request],
           NEW w \in [Requests -> Nat], NEW i \in DOMAIN q, NEW j \in DOMAIN q,
           Selected(q, o, w, i), j < i, w[q[i]] =< w[q[j]],
           Cardinality(BackgroundActive(o)) \in Nat
    PROVE  \/ o[q[i]].priority < o[q[j]].priority /\ w[q[j]] < Starvation
           \/ /\ IsBackground(o, q[j])
              /\ Cardinality(BackgroundActive(o)) >= BackgroundConcurrency
              /\ IsBackground(o, q[i]) => o[q[i]].burst /\ ~o[q[j]].burst
<1> DEFINE s == q[i]
           r == q[j]
<1>1. i \in Nat /\ j \in Nat /\ ~(i =< j) /\ s \in Requests /\ r \in Requests
  OBVIOUS
<1>2. w[s] \in Nat /\ w[r] \in Nat /\ Starvation \in Nat
  BY <1>1, GateAssumption DEF GateAssumption
<1>3. o[s].priority \in 0..3 /\ o[r].priority \in 0..3
  BY <1>1 DEF Request, Priorities
<1>4. CanRun(q, o, s)
  BY SelectedCanRun
<1>5. CASE CanRun(q, o, r)
  <2>1. j \in Eligible(q, o) /\ i \in Eligible(q, o)
    BY <1>4, <1>5 DEF Eligible
  <2>2. Starved(q, o, w) = {}
    <3> SUFFICES ASSUME Starved(q, o, w) # {} PROVE FALSE
      OBVIOUS
    <3>1. i \in Starved(q, o, w) /\ \A k \in Starved(q, o, w) : i =< k
      BY DEF Selected
    <3>2. j \in Starved(q, o, w)
      BY <3>1, <2>1, <1>2 DEF Starved
    <3> QED
      BY <3>1, <3>2, <1>1
  <2>3. w[r] < Starvation
    BY <2>1, <2>2, <1>2 DEF Starved
  <2>4. o[s].priority < o[r].priority
    BY <2>1, <2>2, <1>1 DEF Selected
  <2> QED
    BY <2>3, <2>4
<1>6. CASE ~CanRun(q, o, r)
  <2> DEFINE B == Cardinality(BackgroundActive(o))
  <2>1. IsBackground(o, r) /\ ~(B < BackgroundConcurrency)
    BY <1>4, <1>6 DEF CanRun
  <2>2. ASSUME IsBackground(o, s) PROVE o[s].burst /\ ~o[r].burst
    BY <2>1, <2>2, <1>4, <1>6 DEF CanRun
  <2>3. B >= BackgroundConcurrency
    BY <2>1, GateAssumption DEF GateAssumption
  <2> QED
    BY <2>1, <2>2, <2>3
<1> QED
  BY <1>5, <1>6

\* The ticket a step grants is not one that had a slot, and it obeys the choice.
LEMMA GrantsAreFair ==
    ASSUME Types, Lanes, Ordered, [Next]_vars,
           NEW s \in Requests, NEW r \in Requests, Overtakes(s, r)
    PROVE  MayOvertake(s, r)
<1>0. /\ waited \in [Requests -> Nat] /\ pending \in Seq(Requests)
      /\ offer \in [Requests -> Request]
  BY GateAssumption DEF Types, GateAssumption
<1>1. s \in active' /\ s \notin active /\ Queued(r) /\ r # s
  BY DEF Overtakes
<1>2. PICK j \in DOMAIN pending : pending[j] = r
  BY <1>1 DEF Queued
<1>3. Cardinality(BackgroundActive(offer)) \in Nat
  BY BackgroundSubset, FS_Subset, FS_CardinalityType DEF Lanes
<1>4. ASSUME NEW request \in Offers[s], Enter(s, request) PROVE MayOvertake(s, r)
  <2> DEFINE q == Append(pending, s)
             o == [offer EXCEPT ![s] = request]
             w == [waited EXCEPT ![s] = 0]
  <2>1. /\ q \in Seq(Requests) /\ Len(q) \in DOMAIN q /\ q[Len(q)] = s
        /\ j \in DOMAIN q /\ j < Len(q) /\ q[j] = r
    BY <1>0, <1>2
  <2>2. w \in [Requests -> Nat] /\ w[s] = 0 /\ w[r] = waited[r] /\ w[r] \in Nat
    BY <1>0, <1>1
  <2>3. o \in [Requests -> Request] /\ o[r] = offer[r] /\ offer' = o
    BY <1>0, <1>1, <1>4, GateAssumption DEF Enter, GateAssumption, Request
  <2>4. Selected(q, o, w, Len(q))
    BY <1>1, <1>4 DEF Enter
  <2>5. BackgroundActive(o) = BackgroundActive(offer)
    BY <1>0, <1>1 DEF BackgroundActive, IsBackground
  <2> HIDE DEF q, o, w
  <2>6. w[q[Len(q)]] =< w[q[j]] /\ Cardinality(BackgroundActive(o)) \in Nat
    BY <2>1, <2>2, <2>5, <1>3
  <2>7. \/ o[q[Len(q)]].priority < o[q[j]].priority /\ w[q[j]] < Starvation
        \/ /\ IsBackground(o, q[j])
           /\ Cardinality(BackgroundActive(o)) >= BackgroundConcurrency
           /\ IsBackground(o, q[Len(q)]) => o[q[Len(q)]].burst /\ ~o[q[j]].burst
    <3> DEFINE n == Len(q)
    <3>1. q \in Seq(Requests) /\ n \in DOMAIN q /\ j \in DOMAIN q /\ j < n
          /\ Selected(q, o, w, n)
      BY <2>1, <2>4
    <3>2. o \in [Requests -> Request] /\ w \in [Requests -> Nat]
      BY <2>2, <2>3
    <3>3. w[q[n]] =< w[q[j]]
      BY <2>6
    <3> HIDE DEF n
    <3> QED
      BY <3>1, <3>2, <3>3, <2>6, ChoiceIsFair DEF n
  <2>8. \/ o[s].priority < o[r].priority /\ w[r] < Starvation
        \/ /\ IsBackground(o, r)
           /\ Cardinality(BackgroundActive(o)) >= BackgroundConcurrency
           /\ IsBackground(o, s) => o[s].burst /\ ~o[r].burst
    BY <2>1, <2>7
  <2> QED
    BY <2>2, <2>3, <2>5, <2>8 DEF MayOvertake, IsBackground
<1>5. ASSUME Grant(s) PROVE MayOvertake(s, r)
  <2>1. PICK i \in DOMAIN pending : pending[i] = s /\ Selected(pending, offer, waited, i)
    BY <1>5 DEF Grant
  <2>2. j < i
    BY <2>1, <1>2 DEF Overtakes
  <2>3. offer' = offer
    BY <1>5 DEF Grant
  <2>4. waited[pending[i]] =< waited[pending[j]]
    BY <2>2 DEF Ordered
  <2>5. \/ offer[s].priority < offer[r].priority /\ waited[r] < Starvation
        \/ /\ IsBackground(offer, r)
           /\ Cardinality(BackgroundActive(offer)) >= BackgroundConcurrency
           /\ IsBackground(offer, s) => offer[s].burst /\ ~offer[r].burst
    BY <1>0, <1>2, <1>3, <2>1, <2>2, <2>4, ChoiceIsFair
  <2> QED
    BY <2>3, <2>5 DEF MayOvertake, IsBackground
<1>6. ASSUME NEW t \in Requests, t # s, NEW request \in Offers[t], Enter(t, request)
      PROVE  FALSE
  <2>1. Append(pending, t)[Len(Append(pending, t))] = t
    BY <1>0
  <2> QED
    BY <1>1, <1>6, <2>1 DEF Enter, Take
<1>7. ASSUME NEW t \in Requests, t # s, Grant(t) PROVE FALSE
  BY <1>1, <1>7 DEF Grant, Take
<1>8. ASSUME active' \subseteq active PROVE FALSE
  BY <1>1, <1>8
<1> QED
  BY <1>4, <1>5, <1>6, <1>7, <1>8
     DEF Next, Thread, Wake, Refuse, Expire, FailOpen, Chunk, Written, Finish, ReadTimesOut,
         Release, Tick, Crash, vars, gate

\* For any clients, limits and times: whoever is granted past an earlier ticket has the
\* higher priority while that one is not starved, or room it may not use
\* (_select_next_locked, whatever wakes up when).
THEOREM NobodyIsOvertaken == Spec => NoOvertaking
<1> DEFINE Inv == Types /\ Lanes /\ Ordered
<1>1. Init => Inv
  BY InitTypes, InitLanes DEF Init, Ordered
<1>2. Inv /\ [Next]_vars => Inv'
  BY NextTypes, NextLanes, NextOrdered
<1>3. Inv /\ [Next]_vars
        => [\A s, r \in Requests : Overtakes(s, r) => MayOvertake(s, r)]_vars
  BY GrantsAreFair
<1> HIDE DEF Inv
<1> QED
  BY <1>1, <1>2, <1>3, PTL DEF Spec, NoOvertaking

-----------------------------------------------------------------------------
(* Bursts *)

\* While no foreground request has a slot, the gate's idle clock is not ahead of the
\* time for which there was none.
Calm == ~ForegroundWork => idle =< calm

\* A grant leaves the clock behind: foreground work sets it back, background work
\* leaves everything as it was.
LEMMA TakeKeepsCalm ==
    ASSUME Calm, NEW q, NEW o, NEW i, Take(q, o, i), offer' = o, calm' = calm,
           \A r \in active : o[r] = offer[r]
    PROVE  Calm'
<1>1. active' = active \cup {q[i]} /\ (IsBackground(o, q[i]) => idle' = idle)
  BY DEF Take
<1>2. ForegroundWork' <=> ForegroundWork \/ ~IsBackground(o, q[i])
  BY <1>1 DEF ForegroundWork, IsBackground
<1> QED
  BY <1>1, <1>2 DEF Calm

LEMMA NextCalm == Types /\ Lanes /\ Calm /\ [Next]_vars => Calm'
<1> SUFFICES ASSUME Types, Lanes, Calm, [Next]_vars PROVE Calm'
  OBVIOUS
<1>0. /\ idle \in Nat /\ calm \in Nat /\ BurstIdle \in Nat
      /\ offer \in [Requests -> Request] /\ active \subseteq Requests
  BY GateAssumption DEF Types, GateAssumption
<1>1. ASSUME active' = active, \A r \in active : offer'[r] = offer[r], idle' = idle, calm' = calm
      PROVE  Calm'
  BY <1>1 DEF Calm, ForegroundWork, IsBackground
<1>2. CASE Tick
  <2>1. active' = active /\ offer' = offer
    BY <1>2 DEF Tick
  <2>2. ForegroundWork' <=> ForegroundWork
    BY <2>1 DEF ForegroundWork, IsBackground
  <2>3. ~ForegroundWork => idle' = Min2(idle + 1, BurstIdle) /\ calm' = Min2(calm + 1, BurstIdle)
    BY <1>2 DEF Tick
  <2> QED
    BY <1>0, <2>2, <2>3 DEF Calm, Min2
<1>3. CASE Crash
  BY <1>3 DEF Crash, Calm
<1>4. ASSUME NEW r \in Requests, NEW request \in Offers[r], Enter(r, request) PROVE Calm'
  <2> DEFINE q == Append(pending, r)
             o == [offer EXCEPT ![r] = request]
  <2>1. r \notin active /\ offer' = o /\ calm' = calm
    BY <1>4 DEF Enter, Lanes
  <2>2. \A s \in active : o[s] = offer[s]
    BY <1>0, <2>1
  <2>3. Take(q, o, Len(q)) \/ UNCHANGED <<active, idle>>
    BY <1>4 DEF Enter
  <2> HIDE DEF q, o
  <2> QED
    BY <1>1, <2>1, <2>2, <2>3, TakeKeepsCalm
<1>5. ASSUME NEW r \in Requests, Grant(r) PROVE Calm'
  <2>1. PICK i \in DOMAIN pending : Take(pending, offer, i)
    BY <1>5 DEF Grant
  <2>2. offer' = offer /\ calm' = calm
    BY <1>5 DEF Grant
  <2> QED
    BY <2>1, <2>2, TakeKeepsCalm
<1>6. ASSUME NEW r \in Requests, Expire(r) PROVE Calm'
  <2>1. r \notin active
    BY <1>6 DEF Expire, Lanes
  <2>2. \A s \in active : offer'[s] = offer[s]
    BY <1>0, <1>6, <2>1 DEF Expire
  <2>3. active' = active /\ idle' = idle /\ calm' = calm
    BY <1>6 DEF Expire
  <2> QED
    BY <1>1, <2>2, <2>3
<1>7. ASSUME NEW r \in Requests, Release(r) PROVE Calm'
  <2>1. active' = active \ {r} /\ \A s \in active' : offer'[s] = offer[s]
    BY <1>0, <1>7 DEF Release
  <2>2. CASE r \in active /\ ~IsBackground(offer, r)
    BY <1>0, <1>7, <2>2 DEF Release, Calm
  <2>3. CASE ~(r \in active /\ ~IsBackground(offer, r))
    <3>1. idle' = idle /\ calm' = calm
      BY <1>7, <2>3 DEF Release
    <3>2. ForegroundWork' <=> ForegroundWork
      BY <2>1, <2>3 DEF ForegroundWork, IsBackground
    <3> QED
      BY <3>1, <3>2 DEF Calm
  <2> QED
    BY <2>2, <2>3
<1> QED
  BY <1>1, <1>2, <1>3, <1>4, <1>5, <1>6, <1>7
     DEF Next, Thread, Wake, Refuse, FailOpen, Chunk, Written, Finish, ReadTimesOut,
         vars, gate, clocks

\* A background ticket that may run although its lane is full is alone with the grace over.
LEMMA BurstsComeLate ==
    ASSUME Types, Lanes, Calm, NEW q, NEW o, NEW r, CanRun(q, o, r), IsBackground(o, r),
           \A s \in active : o[s] = offer[s],
           Cardinality(BackgroundActive(offer)) >= BackgroundConcurrency
    PROVE  ~ForegroundPresent(q, o) /\ calm >= BurstIdle
<1>1. BackgroundActive(o) = BackgroundActive(offer)
  BY DEF BackgroundActive, IsBackground
<1>2. Cardinality(BackgroundActive(offer)) \in Nat /\ BackgroundConcurrency \in Nat
  BY BackgroundSubset, FS_Subset, FS_CardinalityType, GateAssumption DEF Lanes, GateAssumption
<1>3. ~ForegroundPresent(q, o) /\ idle >= BurstIdle
  BY <1>1, <1>2 DEF CanRun
<1>4. ~ForegroundWork
  BY <1>3 DEF ForegroundPresent, ForegroundWork, IsBackground
<1>5. idle \in Nat /\ calm \in Nat /\ BurstIdle \in Nat
  BY GateAssumption DEF Types, GateAssumption
<1> QED
  BY <1>3, <1>4, <1>5 DEF Calm

LEMMA GrantsAreLate ==
    ASSUME Types, Lanes, Calm, [Next]_vars, NEW r \in active' \ active, IsBackground(offer', r),
           Cardinality(BackgroundActive(offer)) >= BackgroundConcurrency
    PROVE  ~ForegroundPresent(pending, offer) /\ calm >= BurstIdle
<1>0. pending \in Seq(Requests) /\ offer \in [Requests -> Request] /\ active \subseteq Requests
  BY DEF Types
<1>1. ASSUME NEW s \in Requests, NEW request \in Offers[s], Enter(s, request)
      PROVE  ~ForegroundPresent(pending, offer) /\ calm >= BurstIdle
  <2> DEFINE q == Append(pending, s)
             o == [offer EXCEPT ![s] = request]
             w == [waited EXCEPT ![s] = 0]
  <2>1. /\ q[Len(q)] = s /\ DOMAIN pending \subseteq DOMAIN q
        /\ \A i \in DOMAIN pending : q[i] = pending[i] /\ pending[i] \in Requests
    BY <1>0
  <2>2. s \notin active /\ \A i \in DOMAIN pending : pending[i] # s
    BY <1>1 DEF Enter, Lanes, Queued
  <2>3. \A t \in Requests \ {s} : o[t] = offer[t]
    BY <1>0
  <2>4. offer' = o /\ (UNCHANGED active \/ (Selected(q, o, w, Len(q)) /\ active' = active \cup {q[Len(q)]}))
    BY <1>1 DEF Enter, Take
  <2> HIDE DEF q, o, w
  <2>5. r = s /\ Selected(q, o, w, Len(q))
    BY <2>1, <2>4
  <2>6. CanRun(q, o, s)
    BY <2>1, <2>5, SelectedCanRun
  <2>7. ~ForegroundPresent(q, o) /\ calm >= BurstIdle
    BY <1>0, <2>2, <2>3, <2>4, <2>5, <2>6, BurstsComeLate
  <2>8. ~ForegroundPresent(pending, offer)
    BY <1>0, <2>1, <2>2, <2>3, <2>7 DEF ForegroundPresent, IsBackground
  <2> QED
    BY <2>7, <2>8
<1>2. ASSUME NEW s \in Requests, Grant(s)
      PROVE  ~ForegroundPresent(pending, offer) /\ calm >= BurstIdle
  <2>1. PICK i \in DOMAIN pending : /\ pending[i] = s
                                    /\ Selected(pending, offer, waited, i)
                                    /\ Take(pending, offer, i)
    BY <1>2 DEF Grant
  <2>2. r = s /\ offer' = offer
    BY <1>2, <2>1 DEF Grant, Take
  <2>3. CanRun(pending, offer, r)
    BY <2>1, <2>2, SelectedCanRun
  <2> QED
    BY <2>2, <2>3, BurstsComeLate
<1>3. ASSUME active' \subseteq active PROVE FALSE
  BY <1>3
<1> QED
  BY <1>1, <1>2, <1>3
     DEF Next, Thread, Wake, Refuse, Expire, FailOpen, Chunk, Written, Finish, ReadTimesOut,
         Release, Tick, Crash, vars, gate

\* For any clients, limits and times: background work takes a slot beyond its lane only
\* after no foreground request was there for the whole grace (_can_run_locked).
THEOREM BurstsWaitForCalm == Spec => BurstAfterGrace
<1> DEFINE Inv == Types /\ Lanes /\ Calm
<1>1. Init => Inv
  BY InitTypes, InitLanes DEF Init, Calm
<1>2. Inv /\ [Next]_vars => Inv'
  BY NextTypes, NextLanes, NextCalm
<1>3. Inv /\ [Next]_vars
        => [\A r \in active' \ active :
              IsBackground(offer', r) /\ Cardinality(BackgroundActive(offer)) >= BackgroundConcurrency
                => ~ForegroundPresent(pending, offer) /\ calm >= BurstIdle]_vars
  BY GrantsAreLate
<1> HIDE DEF Inv
<1> QED
  BY <1>1, <1>2, <1>3, PTL DEF Spec, BurstAfterGrace

\* Lanes, order and grace together: what a step grants is what the gate promises.
THEOREM GrantsKeepOrder == Spec => GrantsInOrder
  BY LanesAreKept, NobodyIsOvertaken, BurstsWaitForCalm DEF GrantsInOrder

-----------------------------------------------------------------------------
(* Tickets and threads *)

Threads ==
    /\ \A r \in Requests : Queued(r) <=> phase[r] = "waiting"
    /\ \A r \in Requests : r \in active <=> phase[r] \in {"reading", "writing"}

\* Dropping the ticket at position i takes that client out of the queue and nobody else.
LEMMA DropLeavesOthers ==
    ASSUME Types, NEW q \in Seq(Requests), NEW i \in DOMAIN q,
           \A j, k \in DOMAIN q : q[j] = q[k] => j = k,
           pending' = DropAt(q, i), NEW r \in Requests
    PROVE  Queued(r)' <=> r # q[i] /\ \E j \in DOMAIN q : q[j] = r
<1>1. Len(q) \in Nat /\ DOMAIN q = 1..Len(q) /\ DOMAIN pending' = 1..(Len(q) - 1)
  BY DropAtQueue
<1>2. \A j \in DOMAIN pending' : pending'[j] = IF j < i THEN q[j] ELSE q[j + 1]
  BY DropAtQueue
<1>3. ASSUME NEW j \in DOMAIN pending', pending'[j] = r
      PROVE  r # q[i] /\ \E k \in DOMAIN q : q[k] = r
  BY <1>1, <1>2, <1>3
<1>4. ASSUME r # q[i], NEW k \in DOMAIN q, q[k] = r
      PROVE  \E j \in DOMAIN pending' : pending'[j] = r
  <2>1. CASE k < i
    BY <1>1, <1>2, <1>4, <2>1
  <2>2. CASE k > i
    <3>1. k - 1 \in DOMAIN pending' /\ ~(k - 1 < i) /\ (k - 1) + 1 = k
      BY <1>1, <2>2
    <3> QED
      BY <3>1, <1>2, <1>4
  <2> QED
    BY <1>1, <1>4, <2>1, <2>2
<1> QED
  BY <1>3, <1>4 DEF Queued

LEMMA NextThreads ==
    ASSUME ~Faulty PROVE Types /\ Ordered /\ Threads /\ [Next]_vars => Threads'
<1> SUFFICES ASSUME Types, Ordered, Threads, [Next]_vars PROVE Threads'
  OBVIOUS
<1>0. pending \in Seq(Requests) /\ phase \in [Requests -> Phases]
  BY DEF Types
<1>1. ASSUME pending' = pending, active' = active, phase' = phase PROVE Threads'
  BY <1>1 DEF Threads, Queued
<1>2. CASE Crash
  BY <1>2 DEF Crash, Threads, Queued
<1>3. ASSUME NEW r \in Requests, Refuse(r) PROVE Threads'
  BY <1>0, <1>3 DEF Refuse, Threads, Queued, gate
<1>4. ASSUME NEW r \in Requests, NEW request \in Offers[r], Enter(r, request) PROVE Threads'
  <2> DEFINE q == Append(pending, r)
  <2>1. /\ q \in Seq(Requests) /\ Len(q) = Len(pending) + 1 /\ q[Len(q)] = r
        /\ Len(pending) \in Nat /\ DOMAIN pending = 1..Len(pending) /\ DOMAIN q = 1..Len(q)
        /\ \A i \in DOMAIN pending : q[i] = pending[i]
    BY <1>0
  <2>2. ~Queued(r) /\ phase[r] \notin {"reading", "writing"}
    BY <1>4 DEF Enter
  <2> HIDE DEF q
  <2>3. \A j, k \in DOMAIN q : q[j] = q[k] => j = k
    BY <2>1, <2>2 DEF Ordered, Queued
  <2>4. \A s \in Requests : (\E j \in DOMAIN q : q[j] = s) <=> s = r \/ Queued(s)
    BY <2>1 DEF Queued
  <2>5. CASE /\ pending' = DropAt(q, Len(q)) /\ active' = active \cup {r}
             /\ phase' = [phase EXCEPT ![r] = "reading"]
    <3> DEFINE n == Len(q)
    <3>1. n \in DOMAIN q /\ q[n] = r /\ pending' = DropAt(q, n) /\ q \in Seq(Requests)
      BY <2>1, <2>5
    <3> HIDE DEF n
    <3>2. \A s \in Requests : Queued(s)' <=> s # q[n] /\ \E j \in DOMAIN q : q[j] = s
      BY <3>1, <2>3, DropLeavesOthers
    <3>3. \A s \in Requests : Queued(s)' <=> s # r /\ Queued(s)
      BY <3>1, <3>2, <2>4
    <3> QED
      BY <3>3, <2>2, <2>5, <1>0 DEF Threads
  <2>6. CASE /\ pending' = q /\ active' = active
             /\ phase' = [phase EXCEPT ![r] = "waiting"]
    <3>1. \A s \in Requests : Queued(s)' <=> s = r \/ Queued(s)
      BY <2>4, <2>6 DEF Queued
    <3> QED
      BY <3>1, <2>2, <2>6, <1>0 DEF Threads
  <2> QED
    BY <1>4, <2>1, <2>5, <2>6 DEF Enter, Take, q
<1>5. ASSUME NEW r \in Requests, NEW i \in DOMAIN pending, pending[i] = r,
             pending' = DropAt(pending, i)
      PROVE  \A s \in Requests : Queued(s)' <=> s # r /\ Queued(s)
  <2>1. \A j, k \in DOMAIN pending : pending[j] = pending[k] => j = k
    BY DEF Ordered
  <2>2. \A s \in Requests : Queued(s)' <=> s # pending[i] /\ \E j \in DOMAIN pending : pending[j] = s
    BY <1>0, <1>5, <2>1, DropLeavesOthers
  <2> QED
    BY <1>5, <2>2 DEF Queued
<1>6. ASSUME NEW r \in Requests, Grant(r) PROVE Threads'
  <2>1. PICK i \in DOMAIN pending : pending[i] = r /\ Take(pending, offer, i)
    BY <1>6 DEF Grant
  <2>2. /\ \A s \in Requests : Queued(s)' <=> s # r /\ Queued(s)
        /\ active' = active \cup {r} /\ phase' = [phase EXCEPT ![r] = "reading"]
    BY <2>1, <1>5 DEF Take
  <2> QED
    BY <2>2, <1>0 DEF Threads
<1>7. ASSUME NEW r \in Requests, Expire(r) PROVE Threads'
  <2>1. /\ \A s \in Requests : Queued(s)' <=> s # r /\ Queued(s)
        /\ active' = active /\ phase' = [phase EXCEPT ![r] = "refused"] /\ phase[r] = "waiting"
    BY <1>7, <1>5 DEF Expire
  <2> QED
    BY <2>1, <1>0 DEF Threads
<1>8. ASSUME NEW r \in Requests, Chunk(r) \/ Written(r) PROVE Threads'
  <2>1. pending' = pending /\ active' = active
    BY <1>8 DEF Chunk, Written, gate
  <2> QED
    BY <2>1, <1>0, <1>8 DEF Threads, Queued, Chunk, Written
<1>9. ASSUME NEW r \in Requests, phase[r] \in {"reading", "writing"}, Release(r)
      PROVE  Threads'
  BY <1>0, <1>9 DEF Threads, Queued, Release
<1> QED
  BY <1>1, <1>2, <1>3, <1>4, <1>6, <1>7, <1>8, <1>9
     DEF Next, Thread, Wake, FailOpen, Finish, ReadTimesOut, Tick, vars, gate

\* Unless acquire itself fails inside, every queued ticket has its waiting thread and
\* every slot a thread that will give it back.
THEOREM NoTicketIsOrphaned == ASSUME ~Faulty PROVE Spec => []TicketsHaveThreads
<1> DEFINE Inv == Types /\ Ordered /\ Threads
<1>1. Init => Inv
  BY InitTypes DEF Init, Ordered, Threads, Queued
<1>2. Inv /\ [Next]_vars => Inv'
  BY NextTypes, NextOrdered, NextThreads
<1>3. Inv => TicketsHaveThreads
  BY DEF Ordered, Threads, TicketsHaveThreads
<1> HIDE DEF Inv
<1> QED
  BY <1>1, <1>2, <1>3, PTL DEF Spec

=============================================================================
