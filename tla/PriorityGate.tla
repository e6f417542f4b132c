---------------------------- MODULE PriorityGate ----------------------------
(***************************************************************************)
(* The Ollama priority proxy (personal_assistant/ollama_priority_proxy.py): *)
(* one handler thread per HTTP request, a shared PriorityGate that hands    *)
(* out the model's slots, and the forwarding of a granted request.          *)
(*                                                                          *)
(* A member of Requests is a client that sends one request at a time; its   *)
(* handler thread runs acquire, _forward and release.  Requests for paths   *)
(* that generate nothing bypass the gate and are left out.  Tickets are     *)
(* created under the gate's lock, so the list of pending tickets is in the  *)
(* order of their sequence and of their enqueued_at.                        *)
(*                                                                          *)
(* Time passes in Tick; every age is cut off at a bound beyond which no     *)
(* comparison of the code, or of a property, tells values apart.            *)
(***************************************************************************)
EXTENDS Integers, Sequences, FiniteSets

CONSTANTS
    Requests,               \* clients of the proxy
    Offers,                 \* what each client may ask for
    MaxPending,             \* max_pending
    Starvation,             \* starvation_seconds
    MaxConcurrency,         \* max_concurrency
    BackgroundConcurrency,  \* background_concurrency
    BurstConcurrency,       \* background_burst_concurrency
    BurstIdle,              \* background_burst_idle_seconds
    UpstreamTimeout,        \* the socket timeout of one upstream read
    MaxAge,                 \* bound: ages of tickets saturate here
    Faulty                  \* may acquire fail after it queued its ticket?

Priorities == 0..3              \* interactive, normal, maintenance, background
Background == 3

GateAssumption ==
    /\ IsFiniteSet(Requests)
    /\ \A r \in Requests : Offers[r] \subseteq
         [priority : Priorities, burst : BOOLEAN, timeout : Nat \ {0}]
    /\ MaxPending \in Nat \ {0} /\ Starvation \in Nat /\ MaxAge \in Nat
    /\ Starvation =< MaxAge
    /\ MaxConcurrency \in Nat /\ BackgroundConcurrency \in Nat \ {0}
    /\ BurstConcurrency \in Nat
    /\ BackgroundConcurrency =< BurstConcurrency
    /\ BurstConcurrency =< MaxConcurrency
    /\ BurstIdle \in Nat /\ UpstreamTimeout \in Nat \ {0}
    /\ Faulty \in BOOLEAN
ASSUME GateAssumption

Min2(a, b) == IF a =< b THEN a ELSE b
Off == [priority |-> 0, burst |-> FALSE, timeout |-> 1]     \* no request

VARIABLES
    pending,    \* PriorityGate._pending
    active,     \* PriorityGate._active
    idle,       \* time since PriorityGate._last_foreground_activity
    phase,      \* where each handler thread is
    offer,      \* priority, burst mark and queue timeout of its ticket
    waited,     \* time since its enqueued_at
    quiet,      \* time its upstream read is blocked
    calm        \* history: time since foreground work was last present

gate == <<pending, active, idle>>
clocks == <<waited, quiet>>
vars == <<gate, phase, offer, clocks, calm>>

Phases == {"out", "refused", "waiting", "reading", "writing"}

Init ==
    /\ pending = <<>> /\ active = {} /\ idle = 0
    /\ phase = [r \in Requests |-> "out"]
    /\ offer = [r \in Requests |-> Off]
    /\ waited = [r \in Requests |-> 0]
    /\ quiet = [r \in Requests |-> 0]
    /\ calm = 0

-----------------------------------------------------------------------------
(* Which ticket goes next, for a queue q of tickets with the data o.        *)

IsBackground(o, r) == o[r].priority = Background
BackgroundActive(o) == {r \in active : IsBackground(o, r)}

Unmarked(o) == {r \in BackgroundActive(o) : ~o[r].burst}

ForegroundPresent(q, o) ==
    \/ \E r \in active : ~IsBackground(o, r)
    \/ \E i \in DOMAIN q : ~IsBackground(o, q[i])

CanRun(q, o, r) ==
    /\ Cardinality(active) < MaxConcurrency
    /\ \/ ~IsBackground(o, r)
       \/ Cardinality(BackgroundActive(o)) < BackgroundConcurrency
       \/ /\ o[r].burst
          /\ Cardinality(BackgroundActive(o)) < BurstConcurrency
          /\ ~ForegroundPresent(q, o)
          /\ idle >= BurstIdle

Eligible(q, o) == {i \in DOMAIN q : CanRun(q, o, q[i])}
Starved(q, o, w) == {i \in Eligible(q, o) : w[q[i]] >= Starvation}

\* Mutant: no starvation protection.
SelectedByPriority(q, o, w, i) ==
    /\ i \in Eligible(q, o)
    /\ \A j \in Eligible(q, o) :
         \/ o[q[i]].priority < o[q[j]].priority
         \/ o[q[i]].priority = o[q[j]].priority /\ i =< j

\* The ticket at position i is the one _select_next_locked returns.
Selected(q, o, w, i) ==
    IF Starved(q, o, w) # {}
    THEN i \in Starved(q, o, w) /\ \A j \in Starved(q, o, w) : i =< j
    ELSE /\ i \in Eligible(q, o)
         /\ \A j \in Eligible(q, o) :
              \/ o[q[i]].priority < o[q[j]].priority
              \/ o[q[i]].priority = o[q[j]].priority /\ i =< j

Queued(r) == \E i \in DOMAIN pending : pending[i] = r

DropAt(q, i) == [j \in 1..(Len(q) - 1) |-> IF j < i THEN q[j] ELSE q[j + 1]]

-----------------------------------------------------------------------------
(* acquire *)

\* The ticket at position i of the queue q leaves it for a slot.
Take(q, o, i) ==
    /\ pending' = DropAt(q, i)
    /\ active' = active \cup {q[i]}
    /\ idle' = IF IsBackground(o, q[i]) THEN idle ELSE 0
    /\ phase' = [phase EXCEPT ![q[i]] = "reading"]
    /\ quiet' = [quiet EXCEPT ![q[i]] = 0]

\* No room: 503 queue_full.
Refuse(r) ==
    /\ phase[r] \in {"out", "refused"} /\ Offers[r] # {}
    /\ Len(pending) >= MaxPending
    /\ phase' = [phase EXCEPT ![r] = "refused"]
    /\ UNCHANGED <<gate, offer, clocks, calm>>

\* A ticket is queued and, in the same critical section, granted at once or left waiting.
Enter(r, request) ==
    LET q == Append(pending, r)
        o == [offer EXCEPT ![r] = request]
        w == [waited EXCEPT ![r] = 0]
    IN /\ phase[r] \in {"out", "refused"}
       /\ ~Queued(r)
       /\ Len(pending) < MaxPending
       /\ offer' = o /\ waited' = w
       /\ \/ Selected(q, o, w, Len(q)) /\ Take(q, o, Len(q))
          \/ /\ ~Selected(q, o, w, Len(q))
             /\ pending' = q
             /\ phase' = [phase EXCEPT ![r] = "waiting"]
             /\ UNCHANGED <<active, idle, quiet>>
       /\ UNCHANGED calm

\* A waiting thread wakes, by a notification or after half a second, and takes its turn.
Grant(r) ==
    /\ phase[r] = "waiting"
    /\ \E i \in DOMAIN pending :
         /\ pending[i] = r
         /\ Selected(pending, offer, waited, i)
         /\ Take(pending, offer, i)
    /\ waited' = [waited EXCEPT ![r] = 0]
    /\ UNCHANGED <<offer, calm>>

\* It wakes past its deadline and is not the next: 503 queue_timeout.
Expire(r) ==
    /\ phase[r] = "waiting" /\ waited[r] >= offer[r].timeout
    /\ \E i \in DOMAIN pending :
         /\ pending[i] = r
         /\ ~Selected(pending, offer, waited, i)
         /\ pending' = DropAt(pending, i)
    /\ phase' = [phase EXCEPT ![r] = "refused"]
    /\ offer' = [offer EXCEPT ![r] = Off]
    /\ waited' = [waited EXCEPT ![r] = 0]
    /\ UNCHANGED <<active, idle, quiet, calm>>

\* Any other exception inside acquire: the request is forwarded without a ticket.
FailOpen(r) ==
    /\ Faulty /\ phase[r] = "waiting"
    /\ phase' = [phase EXCEPT ![r] = "reading"]
    /\ quiet' = [quiet EXCEPT ![r] = 0]
    /\ UNCHANGED <<gate, offer, waited, calm>>

-----------------------------------------------------------------------------
(* _forward and release *)

\* A piece of the answer arrives and is written to the client.
Chunk(r) ==
    /\ phase[r] = "reading"
    /\ phase' = [phase EXCEPT ![r] = "writing"]
    /\ quiet' = [quiet EXCEPT ![r] = 0]
    /\ UNCHANGED <<gate, offer, waited, calm>>

\* The client has taken it; the next read begins.
Written(r) ==
    /\ phase[r] = "writing"
    /\ phase' = [phase EXCEPT ![r] = "reading"]
    /\ UNCHANGED <<gate, offer, clocks, calm>>

\* Mutant: the end of a foreground run is no activity.
ReleaseSilently(r) ==
    /\ phase' = [phase EXCEPT ![r] = "out"]
    /\ active' = active \ {r}
    /\ offer' = IF Queued(r) THEN offer ELSE [offer EXCEPT ![r] = Off]
    /\ quiet' = [quiet EXCEPT ![r] = 0]
    /\ UNCHANGED <<pending, idle, waited, calm>>

\* The data of a ticket that is gone is forgotten.
Release(r) ==
    /\ phase' = [phase EXCEPT ![r] = "out"]
    /\ active' = active \ {r}
    /\ idle' = IF r \in active /\ ~IsBackground(offer, r) THEN 0 ELSE idle
    /\ offer' = IF Queued(r) THEN offer ELSE [offer EXCEPT ![r] = Off]
    /\ quiet' = [quiet EXCEPT ![r] = 0]
    /\ UNCHANGED <<pending, waited, calm>>

\* The answer is complete, the upstream failed, or the client is gone.
Finish(r) == phase[r] \in {"reading", "writing"} /\ Release(r)

\* A read was blocked for the upstream timeout: 504.
ReadTimesOut(r) ==
    phase[r] = "reading" /\ quiet[r] >= UpstreamTimeout /\ Release(r)

\* The proxy dies and Compose starts it again: an empty gate, closed connections.
Crash ==
    /\ pending' = <<>> /\ active' = {} /\ idle' = 0
    /\ phase' = [r \in Requests |-> "out"]
    /\ offer' = [r \in Requests |-> Off]
    /\ waited' = [r \in Requests |-> 0]
    /\ quiet' = [r \in Requests |-> 0]
    /\ calm' = 0

-----------------------------------------------------------------------------
(* Time. *)

ForegroundWork == \E r \in active : ~IsBackground(offer, r)

Older(age, on, bound) ==
    [r \in Requests |-> IF on[r] THEN Min2(age[r] + 1, bound) ELSE age[r]]

\* A second passes.  A socket timeout fires before the next one does.
Tick ==
    /\ \A r \in Requests : phase[r] = "reading" => quiet[r] < UpstreamTimeout
    /\ waited' = Older(waited, [r \in Requests |-> Queued(r)], MaxAge)
    /\ quiet' = Older(quiet, [r \in Requests |-> phase[r] = "reading"], UpstreamTimeout)
    /\ idle' = Min2(idle + 1, BurstIdle)
    /\ calm' = IF ForegroundWork THEN 0 ELSE Min2(calm + 1, BurstIdle)
    /\ UNCHANGED <<pending, active, phase, offer>>

\* Mutant: a thread waits for a notification only.
WakeOnNotify(r) == Grant(r)

Wake(r) == Grant(r) \/ Expire(r)

Thread(r) ==
    \/ Refuse(r)
    \/ \E request \in Offers[r] : Enter(r, request)
    \/ Wake(r)
    \/ FailOpen(r)
    \/ Chunk(r) \/ Written(r) \/ Finish(r) \/ ReadTimesOut(r)

Next == Tick \/ Crash \/ \E r \in Requests : Thread(r)

Spec == Init /\ [][Next]_vars

\* A waiting thread polls every half second, a blocked read times out, time passes.
Polling ==
    /\ WF_vars(Tick)
    /\ \A r \in Requests : WF_vars(Wake(r)) /\ WF_vars(ReadTimesOut(r))
FairSpec == Spec /\ Polling

\* And every granted request ends: the upstream answers and its client reads.
ServingSpec == FairSpec /\ \A r \in Requests : WF_vars(Finish(r))

-----------------------------------------------------------------------------
(* Properties *)

TypeOK ==
    /\ pending \in Seq(Requests) /\ Len(pending) =< MaxPending
    /\ active \subseteq Requests
    /\ idle \in 0..BurstIdle /\ calm \in 0..BurstIdle
    /\ phase \in [Requests -> Phases]
    /\ offer \in [Requests -> [priority : Priorities, burst : BOOLEAN, timeout : Nat]]
    /\ waited \in [Requests -> 0..MaxAge]
    /\ quiet \in [Requests -> 0..UpstreamTimeout]

\* Never more requests at the model than it has slots, never more background work
\* than the burst limit, and background requests that did not ask for the burst
\* keep to their own lane whatever bursts came and went around them
\* (_can_run_locked judges each ticket only at its grant).
LanesKept ==
    /\ Cardinality(active) =< MaxConcurrency
    /\ Cardinality(BackgroundActive(offer)) =< BurstConcurrency
    /\ Cardinality(Unmarked(offer)) =< BackgroundConcurrency

\* Every ticket in the queue has exactly one thread that waits for it, every ticket
\* with a slot one that forwards: no wake-up, expiry or release in between
\* leaves a ticket behind that blocks the others, or a slot nobody gives back.
TicketsHaveThreads ==
    /\ \A i, j \in DOMAIN pending : pending[i] = pending[j] => i = j
    /\ \A r \in Requests : Queued(r) <=> phase[r] = "waiting"
    /\ \A r \in Requests : r \in active <=> phase[r] \in {"reading", "writing"}

\* Whoever goes past an earlier ticket has the higher priority while the earlier one
\* is not starved yet, or uses room the earlier one, background work whose lane
\* is full, may not: a foreground slot, or a burst it did not ask for.
Overtakes(s, r) ==
    /\ s \in active' \ active /\ Queued(r) /\ r # s
    /\ \A i, j \in DOMAIN pending : pending[i] = s /\ pending[j] = r => j < i
MayOvertake(s, r) ==
    \/ offer'[s].priority < offer[r].priority /\ waited[r] < Starvation
    \/ /\ IsBackground(offer, r)
       /\ Cardinality(BackgroundActive(offer)) >= BackgroundConcurrency
       /\ IsBackground(offer', s) => offer'[s].burst /\ ~offer[r].burst
NoOvertaking == [][\A s, r \in Requests : Overtakes(s, r) => MayOvertake(s, r)]_vars

\* Background work takes a second slot only after foreground work has been gone for
\* the whole grace (PriorityGate: "only while no foreground request is active
\* or waiting and the foreground idle grace elapsed").
BurstAfterGrace ==
    [][\A r \in active' \ active :
          IsBackground(offer', r) /\ Cardinality(BackgroundActive(offer)) >= BackgroundConcurrency
            => ~ForegroundPresent(pending, offer) /\ calm >= BurstIdle]_vars

\* Grants keep to the lanes and to the order the gate promises, of priority and age
\* and of the grace before a burst (_select_next_locked and _can_run_locked together).
GrantsInOrder == []LanesKept /\ NoOvertaking /\ BurstAfterGrace

\* Every queued request gets a slot or its 503, however the others behave.
EveryoneAnswered == \A r \in Requests : phase[r] = "waiting" ~> phase[r] # "waiting"

\* Starvation protection: a client that keeps waiting, or asking again, gets its turn
\* whatever arrives after it (docs/OLLAMA_PRIORITY.md: after 600 seconds an old
\* background request is no longer displaced for good).  Only a crash of the proxy
\* puts a waiting client "out".
Patient == {r \in Requests : \A request \in Offers[r] : request.timeout > MaxAge}
StarvedGetsTurn ==
    \A r \in Patient :
      []<>(phase[r] = "waiting") => []<>(phase[r] \in {"reading", "out"})

\* Patience is rewarded, and nothing that could stop it is left behind: neither a
\* ticket without a thread nor a slot nobody gives back.
WaitersAreServed == []TicketsHaveThreads /\ StarvedGetsTurn

=============================================================================
