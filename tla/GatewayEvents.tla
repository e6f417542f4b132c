---------------------------- MODULE GatewayEvents ----------------------------
(***************************************************************************)
(* The file queue that carries events from the workers to the gateway       *)
(* (personal_assistant/gateway_events.py): writers publish a file in        *)
(* pending/ under enqueue.lock, the one relay beside the gateway claims it   *)
(* by renaming it to processing/, delivers it, and unlinks it, puts it back  *)
(* with one attempt more, or moves it to failed/.  Only writers take the     *)
(* lock; the relay renames files while a writer counts them.                 *)
(*                                                                          *)
(* An event is its file name; names are compared as the relay sorts them.    *)
(* The content of a file that matters is its number of attempts.             *)
(***************************************************************************)
EXTENDS Integers, FiniteSets

CONSTANTS
    Events,         \* file names, ordered
    Writers,        \* worker processes
    MaxPending,     \* MAX_PENDING_EVENTS
    MaxFailed,      \* MAX_FAILED_EVENTS
    MaxAttempts,    \* MAX_DELIVERY_ATTEMPTS
    MaxCrashes,     \* bound: how often the relay dies
    Breakable,      \* events whose file may turn out unreadable or malformed
    Nobody          \* not a writer

EventsAssumption ==
    /\ Events \subseteq Nat /\ IsFiniteSet(Events)
    /\ MaxPending \in Nat \ {0} /\ MaxFailed \in Nat \ {0} /\ MaxAttempts \in Nat \ {0}
    /\ MaxCrashes \in Nat /\ Breakable \subseteq Events
    /\ Nobody \notin Writers
ASSUME EventsAssumption

Absent == -1                    \* no such file
NoEvent == -1                   \* no event claimed

VARIABLES
    pending,    \* attempts in pending/<event>.json, or Absent
    processing, \* attempts in processing/<event>.json, or Absent
    failed,     \* names in failed/
    cooling,    \* events whose last attempt is younger than the retry delay
    relay,      \* where the relay is
    current,    \* the event it has claimed
    todo,       \* what is left of its listing of pending/
    writer,     \* where each writer is
    seen,       \* what it counted in pending/
    lock,       \* who holds enqueue.lock
    born,       \* history: the events ever published
    acked,      \* history: the events the gateway acknowledged to the relay
    tries,      \* history: how often each was handed to the gateway
    crashes     \* how often the relay died

files == <<pending, processing, failed>>
relayVars == <<relay, current, todo>>
writerVars == <<writer, seen, lock>>
history == <<born, acked, tries, crashes>>
vars == <<files, cooling, relayVars, writerVars, history>>

RelayPlaces == {"down", "recover", "idle", "next", "claimed", "won", "lost", "again", "last"}

Init ==
    /\ pending = [e \in Events |-> Absent] /\ processing = [e \in Events |-> Absent]
    /\ failed = {} /\ cooling = {}
    /\ relay = "down" /\ current = NoEvent /\ todo = {}
    /\ writer = [w \in Writers |-> "out"] /\ seen = [w \in Writers |-> 0] /\ lock = Nobody
    /\ born = {} /\ acked = {} /\ tries = [e \in Events |-> 0] /\ crashes = 0

InPending == {e \in Events : pending[e] # Absent}
InProcessing == {e \in Events : processing[e] # Absent}

-----------------------------------------------------------------------------
(* enqueue_event *)

Lock(w) ==
    /\ writer[w] = "out" /\ lock = Nobody
    /\ lock' = w /\ writer' = [writer EXCEPT ![w] = "locked"]
    /\ UNCHANGED <<files, cooling, relayVars, seen, history>>

CountPending(w) ==
    /\ writer[w] = "locked"
    /\ seen' = [seen EXCEPT ![w] = Cardinality(InPending)]
    /\ writer' = [writer EXCEPT ![w] = "counted"]
    /\ UNCHANGED <<files, cooling, relayVars, lock, history>>

Room(w) == seen[w] + Cardinality(InProcessing) < MaxPending

CountProcessing(w) ==
    /\ writer[w] = "counted"
    /\ IF Room(w)
       THEN writer' = [writer EXCEPT ![w] = "publish"] /\ UNCHANGED lock
       ELSE writer' = [writer EXCEPT ![w] = "out"] /\ lock' = Nobody
    /\ UNCHANGED <<files, cooling, relayVars, seen, history>>

\* A fresh name, and a complete file under it in one rename.
Publish(w) ==
    /\ writer[w] = "publish"
    /\ \E e \in Events \ born :
         /\ pending' = [pending EXCEPT ![e] = 0]
         /\ born' = born \cup {e}
    /\ writer' = [writer EXCEPT ![w] = "out"] /\ lock' = Nobody
    /\ seen' = [seen EXCEPT ![w] = 0]
    /\ UNCHANGED <<processing, failed, cooling, relayVars, acked, tries, crashes>>

\* A writer dies, or cannot write; the operating system drops its lock.
WriterDies(w) ==
    /\ writer[w] # "out"
    /\ writer' = [writer EXCEPT ![w] = "out"] /\ lock' = Nobody
    /\ seen' = [seen EXCEPT ![w] = 0]
    /\ UNCHANGED <<files, cooling, relayVars, history>>

-----------------------------------------------------------------------------
(* serve_gateway and recover_processing *)

Start ==
    /\ relay = "down" /\ relay' = "recover"
    /\ UNCHANGED <<files, cooling, current, todo, writerVars, history>>

\* Mutant: a claim left behind is thrown away.
RecoverByUnlink(e) ==
    /\ relay = "recover" /\ processing[e] # Absent
    /\ processing' = [processing EXCEPT ![e] = Absent]
    /\ UNCHANGED <<pending, failed, cooling, relayVars, writerVars, history>>

\* A claim left behind goes back, unless its requeued copy is there already.
Recover(e) ==
    /\ relay = "recover" /\ processing[e] # Absent
    /\ processing' = [processing EXCEPT ![e] = Absent]
    /\ pending' = IF pending[e] # Absent THEN pending
                  ELSE [pending EXCEPT ![e] = processing[e]]
    /\ UNCHANGED <<failed, cooling, relayVars, writerVars, history>>

Recovered ==
    /\ relay = "recover" /\ InProcessing = {} /\ relay' = "idle"
    /\ UNCHANGED <<files, cooling, current, todo, writerVars, history>>

\* SIGTERM is noticed between two passes.
Stop ==
    /\ relay = "idle" /\ relay' = "down"
    /\ UNCHANGED <<files, cooling, current, todo, writerVars, history>>

\* The relay is killed wherever it is.
Crash ==
    /\ relay # "down" /\ crashes < MaxCrashes
    /\ relay' = "down" /\ current' = NoEvent /\ todo' = {} /\ crashes' = crashes + 1
    /\ UNCHANGED <<files, cooling, writerVars, born, acked, tries>>

-----------------------------------------------------------------------------
(* relay_once *)

List ==
    /\ relay = "idle" /\ relay' = "next" /\ todo' = InPending
    /\ UNCHANGED <<files, cooling, current, writerVars, history>>

\* The listing is worked off; the status is published.
PassEnds ==
    /\ relay = "next" /\ todo = {} /\ relay' = "idle"
    /\ UNCHANGED <<files, cooling, current, todo, writerVars, history>>

Claim(e) ==
    /\ relay = "next" /\ e \in todo /\ \A f \in todo : e =< f
    /\ processing' = [processing EXCEPT ![e] = pending[e]]
    /\ pending' = [pending EXCEPT ![e] = Absent]
    /\ relay' = "claimed" /\ current' = e /\ todo' = todo \ {e}
    /\ UNCHANGED <<failed, cooling, writerVars, history>>

Onward == relay' = "next" /\ current' = NoEvent /\ UNCHANGED todo

\* Moves the file of e from processing/ to failed/, which first makes room.
MoveFailed(e) ==
    /\ \E expired \in SUBSET failed :
         /\ Cardinality(expired) = IF Cardinality(failed) < MaxFailed THEN 0
                                   ELSE Cardinality(failed) - MaxFailed + 1
         /\ failed' = (failed \ expired) \cup {e}
    /\ processing' = [processing EXCEPT ![e] = Absent]

Unreadable(e) ==
    /\ relay = "claimed" /\ e = current /\ e \in Breakable
    /\ MoveFailed(e) /\ Onward
    /\ cooling' = cooling \ {e}
    /\ UNCHANGED <<pending, writerVars, history>>

\* Mutant: an event in its retry delay stays claimed.
TooEarlyKept(e) ==
    /\ relay = "claimed" /\ e = current
    /\ processing[e] > 0 /\ e \in cooling
    /\ Onward
    /\ UNCHANGED <<files, cooling, writerVars, history>>

\* Still in its retry delay: back to pending/.
TooEarly(e) ==
    /\ relay = "claimed" /\ e = current
    /\ processing[e] > 0 /\ e \in cooling
    /\ pending' = [pending EXCEPT ![e] = processing[e]]
    /\ processing' = [processing EXCEPT ![e] = Absent]
    /\ Onward
    /\ UNCHANGED <<failed, cooling, writerVars, history>>

\* openclaw system event: acknowledged, or not (refused, timed out after 30 s, delivered or not).
Deliver(e) ==
    /\ relay = "claimed" /\ e = current
    /\ ~(processing[e] > 0 /\ e \in cooling)
    /\ tries' = [tries EXCEPT ![e] = @ + 1]
    /\ \/ relay' = "won" /\ acked' = acked \cup {e}
       \/ relay' = "lost" /\ UNCHANGED acked
    /\ UNCHANGED <<files, cooling, current, todo, writerVars, born, crashes>>

Remove(e) ==
    /\ relay = "won" /\ e = current
    /\ processing' = [processing EXCEPT ![e] = Absent]
    /\ cooling' = cooling \ {e}
    /\ Onward
    /\ UNCHANGED <<pending, failed, writerVars, history>>

\* A failure is written down: in pending/, or for the last time in processing/.
Requeue(e) ==
    /\ relay = "lost" /\ e = current
    /\ LET attempts == processing[e] + 1 IN
       IF attempts >= MaxAttempts
       THEN /\ processing' = [processing EXCEPT ![e] = attempts] /\ relay' = "last"
            /\ UNCHANGED pending
       ELSE /\ pending' = [pending EXCEPT ![e] = attempts] /\ relay' = "again"
            /\ UNCHANGED processing
    /\ cooling' = cooling \cup {e}
    /\ UNCHANGED <<failed, current, todo, writerVars, history>>

\* After a failure the pass ends.
PassBreaks == relay' = "idle" /\ current' = NoEvent /\ todo' = {}

Unclaim(e) ==
    /\ relay = "again" /\ e = current
    /\ processing' = [processing EXCEPT ![e] = Absent]
    /\ PassBreaks
    /\ UNCHANGED <<pending, failed, cooling, writerVars, history>>

GiveUp(e) ==
    /\ relay = "last" /\ e = current
    /\ MoveFailed(e) /\ PassBreaks
    /\ cooling' = cooling \ {e}
    /\ UNCHANGED <<pending, writerVars, history>>

\* The retry delay of an event is over.
CoolDown(e) ==
    /\ e \in cooling /\ cooling' = cooling \ {e}
    /\ UNCHANGED <<files, relayVars, writerVars, history>>

Handle(e) ==
    \/ Recover(e) \/ Claim(e) \/ Unreadable(e) \/ TooEarly(e) \/ Deliver(e)
    \/ Remove(e) \/ Requeue(e) \/ Unclaim(e) \/ GiveUp(e)
Relay == Start \/ Recovered \/ List \/ PassEnds \/ \E e \in Events : Handle(e)
Enqueue(w) == Lock(w) \/ CountPending(w) \/ CountProcessing(w) \/ Publish(w)

Next ==
    \/ Relay \/ Stop \/ Crash
    \/ \E e \in Events : CoolDown(e)
    \/ \E w \in Writers : Enqueue(w) \/ WriterDies(w)

Spec == Init /\ [][Next]_vars

\* The gateway container is restarted (unless-stopped) and is not for ever stopped
\* before its first pass; the relay runs every two seconds; retry delays pass.
FairSpec ==
    /\ Spec /\ WF_vars(Relay) /\ SF_vars(List)
    /\ \A e \in Events : WF_vars(CoolDown(e))

-----------------------------------------------------------------------------
(* Properties *)

TypeOK ==
    /\ pending \in [Events -> Nat \cup {Absent}]
    /\ processing \in [Events -> Nat \cup {Absent}]
    /\ failed \subseteq Events /\ Cardinality(failed) =< MaxFailed
    /\ cooling \subseteq Events
    /\ relay \in RelayPlaces /\ current \in Events \cup {NoEvent} /\ todo \subseteq Events
    /\ writer \in [Writers -> {"out", "locked", "counted", "publish"}]
    /\ seen \in [Writers -> Nat] /\ lock \in Writers \cup {Nobody}
    /\ born \subseteq Events /\ acked \subseteq Events
    /\ tries \in [Events -> Nat] /\ crashes \in Nat

Queued == InPending \cup InProcessing

\* ADR 0025: delivery is guaranteed at least once.  Whatever crashes between two
\* renames, a published event has a file in the queue until the gateway has
\* acknowledged it or has been asked MaxAttempts times, as long as its file is readable.
AtLeastOnce ==
    \A e \in born \ Breakable : e \in Queued \/ e \in acked \/ tries[e] >= MaxAttempts

\* Nobody is asked for ever: an event is handed to the gateway at most MaxAttempts
\* times, and once more for every death of the relay.
RetriesBounded == \A e \in Events : tries[e] =< MaxAttempts + crashes

\* docs/architecture/DATA_CATALOG.md promises at most 256 active events.  What the two
\* counts of a writer, with the relay renaming in between, really keep: one more.
QueueNearlyBounded == Cardinality(Queued) =< MaxPending + 1

\* The queue keeps its two promises together: what was published is delivered, and
\* neither retries nor stored events grow without bound (enqueue_event, relay_once).
DeliveryIsKept == AtLeastOnce /\ RetriesBounded /\ QueueNearlyBounded

\* Every published event leaves the queue, although a pass ends with its first failure.
EventuallySettled == \A e \in Events : e \in Queued ~> e \notin Queued

=============================================================================
