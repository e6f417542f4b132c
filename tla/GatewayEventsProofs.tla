------------------------- MODULE GatewayEventsProofs -------------------------
(***************************************************************************)
(* Proofs about GatewayEvents: no crash between two renames loses an event, *)
(* none makes the relay ask for more than one extra time, and the queue     *)
(* stays within one event of its limit.                                     *)
(***************************************************************************)
EXTENDS GatewayEvents, FiniteSetTheorems, TLAPS

(* What the relay knows about the event it has claimed. *)
Holds == {"claimed", "won", "lost", "again", "last"}

RelayKnows ==
    /\ relay \in Holds =>
          /\ current \in Events /\ processing[current] # Absent
          /\ relay = "again" <=> pending[current] # Absent
    /\ relay = "won" => current \in acked
    /\ relay = "last" => processing[current] >= MaxAttempts
    /\ \A e \in todo : pending[e] # Absent

(* Everything that has a file was published, and nothing else was tried. *)
FilesAreBorn ==
    \A e \in Events :
        pending[e] # Absent \/ processing[e] # Absent \/ tries[e] > 0 => e \in born

(* The attempts in a file never exceed the attempts made ... *)
AttemptsWereMade ==
    \A e \in Events :
        /\ pending[e] =< tries[e]
        /\ processing[e] + (IF relay = "lost" /\ e = current THEN 1 ELSE 0) =< tries[e]

(* ... and fall behind them only by the deaths of the relay. *)
Counted(a) == IF a < MaxAttempts THEN a ELSE MaxAttempts - 1

AttemptsAreCounted ==
    \A e \in Events :
        /\ pending[e] # Absent => tries[e] =< Counted(pending[e]) + crashes
        /\ processing[e] # Absent =>
              tries[e] =< Counted(processing[e]) + crashes
                          + (IF relay \in Holds \ {"claimed"} /\ e = current THEN 1 ELSE 0)

LEMMA Numbers ==
    /\ Events \subseteq Nat /\ IsFiniteSet(Events)
    /\ MaxPending \in Nat \ {0} /\ MaxFailed \in Nat \ {0} /\ MaxAttempts \in Nat \ {0}
    /\ Nobody \notin Writers
  BY EventsAssumption DEF EventsAssumption

--------------------------------------------------------------------------------
(* Types *)

\* Moving a file to failed/ leaves at most MaxFailed names there.
LEMMA FailedStaysSmall ==
    ASSUME TypeOK, NEW e \in Events, MoveFailed(e)
    PROVE  /\ failed' \subseteq Events /\ Cardinality(failed') =< MaxFailed
           /\ processing' \in [Events -> Nat \cup {Absent}]
  <1>1. PICK expired \in SUBSET failed :
           /\ Cardinality(expired) = IF Cardinality(failed) < MaxFailed THEN 0
                                     ELSE Cardinality(failed) - MaxFailed + 1
           /\ failed' = (failed \ expired) \cup {e}
        BY DEF MoveFailed
  <1>2. IsFiniteSet(failed) /\ IsFiniteSet(expired)
        BY Numbers, FS_Subset DEF TypeOK
  <1>3. Cardinality(failed) \in Nat /\ Cardinality(expired) \in Nat
        BY <1>2, FS_CardinalityType
  <1>4. /\ IsFiniteSet(failed \ expired)
        /\ Cardinality(failed \ expired) = Cardinality(failed) - Cardinality(expired)
    <2>1. failed \cap expired = expired
          OBVIOUS
    <2> QED BY <2>1, <1>2, FS_Difference
  <1>5. Cardinality(failed \ expired) < MaxFailed
        BY <1>1, <1>3, <1>4, Numbers DEF TypeOK
  <1>6. Cardinality(failed') =< Cardinality(failed \ expired) + 1
    <2> DEFINE rest == failed \ expired
    <2>1. Cardinality(rest \cup {e}) = IF e \in rest THEN Cardinality(rest) ELSE Cardinality(rest) + 1
          BY <1>4, FS_AddElement
    <2>2. Cardinality(rest) \in Nat
          BY <1>4, FS_CardinalityType
    <2> QED BY <1>1, <2>1, <2>2
  <1>7. Cardinality(failed') =< MaxFailed
    <2>1. Cardinality(failed \ expired) \in Nat
          BY <1>4, FS_CardinalityType
    <2>2. Cardinality(failed') \in Nat
      <3>1. IsFiniteSet(failed')
            BY <1>1, <1>4, FS_AddElement
      <3> QED BY <3>1, FS_CardinalityType
    <2> QED BY <1>5, <1>6, <2>1, <2>2, Numbers
  <1> QED BY <1>1, <1>7 DEF MoveFailed, TypeOK

LEMMA StepKeepsTypes ==
    ASSUME TypeOK, [Next]_vars
    PROVE  TypeOK'
  <1> USE DEF TypeOK, RelayPlaces, NoEvent
  <1> USE Numbers
  <1>1. CASE Start BY <1>1 DEF Start, files, writerVars, history
  <1>2. CASE Recovered BY <1>2 DEF Recovered, files, writerVars, history
  <1>3. CASE List BY <1>3 DEF List, InPending, files, writerVars, history
  <1>4. CASE PassEnds BY <1>4 DEF PassEnds, files, writerVars, history
  <1>5. CASE Stop BY <1>5 DEF Stop, files, writerVars, history
  <1>6. CASE Crash BY <1>6 DEF Crash, files, writerVars
  <1>7. ASSUME NEW e \in Events, Recover(e) PROVE TypeOK'
        BY <1>7 DEF Recover, relayVars, writerVars, history
  <1>8. ASSUME NEW e \in Events, Claim(e) PROVE TypeOK'
        BY <1>8 DEF Claim, writerVars, history
  <1>9. ASSUME NEW e \in Events, Unreadable(e) PROVE TypeOK'
    <2>1. MoveFailed(e) BY <1>9 DEF Unreadable
    <2>2. /\ failed' \subseteq Events /\ Cardinality(failed') =< MaxFailed
          /\ processing' \in [Events -> Nat \cup {Absent}]
          BY <2>1, FailedStaysSmall
    <2> QED BY <1>9, <2>2 DEF Unreadable, Onward, writerVars, history
  <1>10. ASSUME NEW e \in Events, TooEarly(e) PROVE TypeOK'
        BY <1>10 DEF TooEarly, Onward, writerVars, history
  <1>11. ASSUME NEW e \in Events, Deliver(e) PROVE TypeOK'
    <2>1. tries' \in [Events -> Nat] /\ acked' \subseteq Events /\ relay' \in RelayPlaces
      <3>1. tries' = [tries EXCEPT ![e] = tries[e] + 1] /\ tries \in [Events -> Nat]
            BY <1>11 DEF Deliver
      <3>2. tries[e] + 1 \in Nat
            BY <3>1
      <3>3. tries' \in [Events -> Nat]
            BY <3>1, <3>2
      <3> HIDE DEF TypeOK
      <3>4. acked \subseteq Events
            BY DEF TypeOK
      <3> QED BY <1>11, <3>3, <3>4 DEF Deliver
    <2> QED BY <1>11, <2>1 DEF Deliver, files, writerVars
  <1>12. ASSUME NEW e \in Events, Remove(e) PROVE TypeOK'
        BY <1>12 DEF Remove, Onward, writerVars, history
  <1>13. ASSUME NEW e \in Events, Requeue(e) PROVE TypeOK'
    <2>1. processing[e] + 1 \in Nat
          BY DEF Absent
    <2> QED BY <1>13, <2>1 DEF Requeue, writerVars, history
  <1>14. ASSUME NEW e \in Events, Unclaim(e) PROVE TypeOK'
        BY <1>14 DEF Unclaim, PassBreaks, writerVars, history
  <1>15. ASSUME NEW e \in Events, GiveUp(e) PROVE TypeOK'
    <2>1. MoveFailed(e) BY <1>15 DEF GiveUp
    <2>2. /\ failed' \subseteq Events /\ Cardinality(failed') =< MaxFailed
          /\ processing' \in [Events -> Nat \cup {Absent}]
          BY <2>1, FailedStaysSmall
    <2> QED BY <1>15, <2>2 DEF GiveUp, PassBreaks, writerVars, history
  <1>16. ASSUME NEW e \in Events, CoolDown(e) PROVE TypeOK'
        BY <1>16 DEF CoolDown, files, relayVars, writerVars, history
  <1>17. ASSUME NEW w \in Writers, Lock(w) PROVE TypeOK'
        BY <1>17 DEF Lock, files, relayVars, history
  <1>18. ASSUME NEW w \in Writers, CountPending(w) PROVE TypeOK'
    <2>1. Cardinality(InPending) \in Nat
          BY FS_Subset, FS_CardinalityType DEF InPending
    <2> QED BY <1>18, <2>1 DEF CountPending, files, relayVars, history
  <1>19. ASSUME NEW w \in Writers, CountProcessing(w) PROVE TypeOK'
        BY <1>19 DEF CountProcessing, files, relayVars, history
  <1>20. ASSUME NEW w \in Writers, Publish(w) PROVE TypeOK'
        BY <1>20 DEF Publish, relayVars
  <1>21. ASSUME NEW w \in Writers, WriterDies(w) PROVE TypeOK'
        BY <1>21 DEF WriterDies, files, relayVars, history
  <1>22. CASE UNCHANGED vars
        BY <1>22 DEF vars, files, relayVars, writerVars, history
  <1> QED BY <1>1, <1>2, <1>3, <1>4, <1>5, <1>6, <1>7, <1>8, <1>9, <1>10, <1>11, <1>12, <1>13,
             <1>14, <1>15, <1>16, <1>17, <1>18, <1>19, <1>20, <1>21, <1>22
          DEF Next, Relay, Handle, Enqueue

\* The queue keeps its shape and failed/ its limit, whatever is killed when.
THEOREM QueueIsWellFormed == Spec => []TypeOK
  <1>1. Init => TypeOK
    <2>1. Cardinality({}) = 0
          BY FS_EmptySet
    <2> QED BY <2>1, Numbers DEF Init, TypeOK, RelayPlaces
  <1>2. TypeOK /\ [Next]_vars => TypeOK'
        BY StepKeepsTypes
  <1> QED BY <1>1, <1>2, PTL DEF Spec

--------------------------------------------------------------------------------
(* Bookkeeping *)

Books == TypeOK /\ RelayKnows /\ FilesAreBorn /\ AttemptsWereMade /\ AttemptsAreCounted

\* The conjuncts the theorems need, without the types.
Kept == RelayKnows /\ FilesAreBorn /\ AttemptsWereMade /\ AttemptsAreCounted

LEMMA RelayKeepsBooks ==
    ASSUME Books, Start \/ Recovered \/ List \/ PassEnds \/ Stop \/ Crash
    PROVE  Kept'
  <1> USE Numbers
  <1> USE DEF Books, Kept, RelayKnows, FilesAreBorn, AttemptsWereMade, AttemptsAreCounted, Counted, Holds
  <1>1. CASE Start BY <1>1 DEF Start, files, writerVars, history
  <1>2. CASE Recovered BY <1>2 DEF Recovered, files, writerVars, history
  <1>3. CASE List BY <1>3 DEF List, InPending, files, writerVars, history
  <1>4. CASE PassEnds BY <1>4 DEF PassEnds, files, writerVars, history
  <1>5. CASE Stop BY <1>5 DEF Stop, files, writerVars, history
  <1>6. CASE Crash BY <1>6 DEF Crash, files, writerVars, TypeOK, Absent, NoEvent
  <1> QED BY <1>1, <1>2, <1>3, <1>4, <1>5, <1>6

LEMMA HandlingKeepsBooks ==
    ASSUME Books, NEW e \in Events, Handle(e)
    PROVE  Kept'
  <1> USE Numbers
  <1> USE DEF Books, Kept, RelayKnows, FilesAreBorn, AttemptsWereMade, AttemptsAreCounted, Counted, Holds,
              TypeOK, Absent, NoEvent
  <1>1. CASE Recover(e) BY <1>1 DEF Recover, relayVars, writerVars, history
  <1>2. CASE Claim(e) BY <1>2 DEF Claim, writerVars, history
  <1>3. CASE Unreadable(e) BY <1>3 DEF Unreadable, MoveFailed, Onward, writerVars, history
  <1>4. CASE TooEarly(e) BY <1>4 DEF TooEarly, Onward, writerVars, history
  <1>5. CASE Deliver(e) BY <1>5 DEF Deliver, files, writerVars
  <1>6. CASE Remove(e) BY <1>6 DEF Remove, Onward, writerVars, history
  <1>7. CASE Requeue(e) BY <1>7 DEF Requeue, writerVars, history
  <1>8. CASE Unclaim(e) BY <1>8 DEF Unclaim, PassBreaks, writerVars, history
  <1>9. CASE GiveUp(e) BY <1>9 DEF GiveUp, MoveFailed, PassBreaks, writerVars, history
  <1> QED BY <1>1, <1>2, <1>3, <1>4, <1>5, <1>6, <1>7, <1>8, <1>9 DEF Handle

LEMMA OthersKeepBooks ==
    ASSUME Books,
           \/ \E e \in Events : CoolDown(e)
           \/ \E w \in Writers : Enqueue(w) \/ WriterDies(w)
           \/ UNCHANGED vars
    PROVE  Kept'
  <1> USE Numbers
  <1> USE DEF Books, Kept, RelayKnows, FilesAreBorn, AttemptsWereMade, AttemptsAreCounted, Counted, Holds
  <1>1. ASSUME NEW e \in Events, CoolDown(e) PROVE Kept'
        BY <1>1 DEF CoolDown, files, relayVars, writerVars, history
  <1>2. ASSUME NEW w \in Writers, Lock(w) \/ CountPending(w) \/ CountProcessing(w) \/ WriterDies(w)
        PROVE  Kept'
        BY <1>2 DEF Lock, CountPending, CountProcessing, WriterDies, files, relayVars, history
  <1>3. ASSUME NEW w \in Writers, Publish(w) PROVE Kept'
        BY <1>3 DEF Publish, relayVars, TypeOK, Absent
  <1>4. CASE UNCHANGED vars
        BY <1>4 DEF vars, files, relayVars, writerVars, history
  <1> QED BY <1>1, <1>2, <1>3, <1>4 DEF Enqueue

LEMMA BooksAreKept == Books /\ [Next]_vars => Books'
  <1>1. Kept' /\ TypeOK' => Books'
        BY DEF Books, Kept
  <1>2. Books => TypeOK
        BY DEF Books
  <1> QED BY <1>1, <1>2, StepKeepsTypes, RelayKeepsBooks, HandlingKeepsBooks, OthersKeepBooks
          DEF Next, Relay

LEMMA BooksAreOpened == Init => Books
  <1>1. Init => TypeOK
    <2>1. Cardinality({}) = 0
          BY FS_EmptySet
    <2> QED BY <2>1, Numbers DEF Init, TypeOK, RelayPlaces
  <1>2. Init => Kept
        BY Numbers DEF Init, Kept, RelayKnows, FilesAreBorn, AttemptsWereMade, AttemptsAreCounted, Holds, Absent
  <1> QED BY <1>1, <1>2 DEF Books, Kept

LEMMA BooksAlways == Spec => []Books
  BY BooksAreOpened, BooksAreKept, PTL DEF Spec

\* Nobody is asked for ever: one event costs at most MaxAttempts deliveries, and one
\* more for every time the relay died.
THEOREM RetriesAreBounded == Spec => []RetriesBounded
  <1> USE Numbers
  <1>1. Init => RetriesBounded
        BY DEF Init, RetriesBounded
  <1>2. Books /\ RetriesBounded /\ [Next]_vars => RetriesBounded'
    <2> SUFFICES ASSUME Books, RetriesBounded, [Next]_vars PROVE RetriesBounded'
          OBVIOUS
    <2>1. CASE UNCHANGED <<tries, crashes>>
          BY <2>1 DEF RetriesBounded
    <2>2. CASE Crash
          BY <2>2 DEF Crash, RetriesBounded, Books, TypeOK
    <2>3. ASSUME NEW e \in Events, Deliver(e) PROVE RetriesBounded'
      <3>1. tries[e] =< MaxAttempts - 1 + crashes
            BY <2>3 DEF Deliver, Books, AttemptsAreCounted, RelayKnows, Counted, Holds, TypeOK, Absent
      <3> QED BY <2>3, <3>1 DEF Deliver, Books, TypeOK, RetriesBounded
    <2>4. \/ UNCHANGED <<tries, crashes>> \/ Crash \/ \E e \in Events : Deliver(e)
      <3> USE DEF history
      <3>1. CASE Start \/ Recovered \/ List \/ PassEnds \/ Stop
            BY <3>1 DEF Start, Recovered, List, PassEnds, Stop
      <3>2. ASSUME NEW e \in Events, Handle(e), ~Deliver(e) PROVE UNCHANGED <<tries, crashes>>
            BY <3>2 DEF Handle, Recover, Claim, Unreadable, TooEarly, Remove, Requeue, Unclaim, GiveUp
      <3>3. ASSUME NEW e \in Events, CoolDown(e) PROVE UNCHANGED <<tries, crashes>>
            BY <3>3 DEF CoolDown
      <3>4. ASSUME NEW w \in Writers, Enqueue(w) \/ WriterDies(w) PROVE UNCHANGED <<tries, crashes>>
            BY <3>4 DEF Enqueue, Lock, CountPending, CountProcessing, Publish, WriterDies
      <3>5. CASE UNCHANGED vars
            BY <3>5 DEF vars
      <3> QED BY <3>1, <3>2, <3>3, <3>4, <3>5 DEF Next, Relay
    <2> QED BY <2>1, <2>2, <2>3, <2>4
  <1> QED BY <1>1, <1>2, BooksAlways, PTL DEF Spec

\* ADR 0025: at least once.  A published event whose file stays readable has a file
\* until it is acknowledged or MaxAttempts deliveries were made.
THEOREM NoEventIsLost == Spec => []AtLeastOnce
  <1> USE Numbers
  <1>1. Init => AtLeastOnce
        BY DEF Init, AtLeastOnce
  <1>2. Books /\ AtLeastOnce /\ [Next]_vars => AtLeastOnce'
    <2> SUFFICES ASSUME Books, AtLeastOnce, [Next]_vars PROVE AtLeastOnce'
          OBVIOUS
    <2> USE DEF AtLeastOnce, Queued, InPending, InProcessing
    <2>1. CASE Start \/ Recovered \/ List \/ PassEnds \/ Stop \/ Crash
          BY <2>1 DEF Start, Recovered, List, PassEnds, Stop, Crash, files, history
    <2>2. ASSUME NEW e \in Events, Handle(e) PROVE AtLeastOnce'
      <3> USE DEF Books, TypeOK, Absent
      <3>1. CASE Recover(e) BY <3>1 DEF Recover, history
      <3>2. CASE Claim(e) BY <3>2 DEF Claim, history, RelayKnows
      <3>3. CASE Unreadable(e) BY <3>3 DEF Unreadable, MoveFailed, history
      <3>4. CASE TooEarly(e) BY <3>4 DEF TooEarly, history
      <3>5. CASE Deliver(e) BY <3>5 DEF Deliver, files
      <3>6. CASE Remove(e) BY <3>6 DEF Remove, history, RelayKnows, Holds
      <3>7. CASE Requeue(e) BY <3>7 DEF Requeue, history
      <3>8. CASE Unclaim(e) BY <3>8 DEF Unclaim, history, RelayKnows, Holds
      <3>9. CASE GiveUp(e)
        <4>1. tries[e] >= MaxAttempts
              BY <3>9 DEF GiveUp, RelayKnows, AttemptsWereMade, Holds
        <4> QED BY <3>9, <4>1 DEF GiveUp, MoveFailed, history
      <3> QED BY <2>2, <3>1, <3>2, <3>3, <3>4, <3>5, <3>6, <3>7, <3>8, <3>9 DEF Handle
    <2>3. ASSUME NEW e \in Events, CoolDown(e) PROVE AtLeastOnce'
          BY <2>3 DEF CoolDown, files, history
    <2>4. ASSUME NEW w \in Writers, Lock(w) \/ CountPending(w) \/ CountProcessing(w) \/ WriterDies(w)
          PROVE  AtLeastOnce'
          BY <2>4 DEF Lock, CountPending, CountProcessing, WriterDies, files, relayVars, history
    <2>5. ASSUME NEW w \in Writers, Publish(w) PROVE AtLeastOnce'
      <3>1. PICK e \in Events :
               pending' = [pending EXCEPT ![e] = 0] /\ born' = born \cup {e}
            BY <2>5 DEF Publish
      <3>2. UNCHANGED <<processing, acked, tries>> /\ pending \in [Events -> Nat \cup {Absent}]
            BY <2>5 DEF Publish, Books, TypeOK
      <3>3. pending'[e] # Absent /\ \A f \in Events \ {e} : pending'[f] = pending[f]
            BY <3>1, <3>2 DEF Absent
      <3> QED BY <3>1, <3>2, <3>3
    <2>6. CASE UNCHANGED vars
          BY <2>6 DEF vars, files, history
    <2> QED BY <2>1, <2>2, <2>3, <2>4, <2>5, <2>6 DEF Next, Relay, Enqueue
  <1> QED BY <1>1, <1>2, BooksAlways, PTL DEF Spec

--------------------------------------------------------------------------------
(* Room in the queue *)

(* At most one event is claimed at a time, also while a death is recovered from. *)
OneClaimed ==
    /\ \A e, f \in InProcessing : e = f
    /\ relay \in {"idle", "next"} => InProcessing = {}
    /\ relay \in Holds => InProcessing \subseteq {current}

(* What a writer has counted is wrong by that one event at most: the relay may put it *)
(* back between the two counts, and nobody else publishes under the lock.             *)
WriterCounts(w) ==
    /\ writer[w] # "out" => lock = w
    /\ writer[w] = "counted" => Cardinality(Queued) =< seen[w] + 1
    /\ writer[w] = "publish" => Cardinality(Queued) =< MaxPending

HasRoom == QueueNearlyBounded /\ OneClaimed /\ \A w \in Writers : WriterCounts(w)

LEMMA FinitelyQueued ==
    /\ IsFiniteSet(InPending) /\ IsFiniteSet(InProcessing) /\ IsFiniteSet(Queued)
    /\ Cardinality(InPending) \in Nat /\ Cardinality(InProcessing) \in Nat
    /\ Cardinality(Queued) \in Nat
  <1>1. InPending \subseteq Events /\ InProcessing \subseteq Events /\ Queued \subseteq Events
        BY DEF InPending, InProcessing, Queued
  <1>2. IsFiniteSet(InPending) /\ IsFiniteSet(InProcessing) /\ IsFiniteSet(Queued)
        BY <1>1, Numbers, FS_Subset
  <1> QED BY <1>2, FS_CardinalityType

\* Two counts miss one event at most.
LEMMA CountsMissOne ==
    ASSUME OneClaimed
    PROVE  Cardinality(InProcessing) =< 1 /\ Cardinality(Queued) =< Cardinality(InPending) + 1
  <1>1. Cardinality(InProcessing) =< 1
    <2>1. CASE InProcessing = {} BY <2>1, FS_EmptySet
    <2>2. CASE InProcessing # {}
      <3>1. PICK e \in InProcessing : TRUE
            BY <2>2
      <3>2. InProcessing = {e}
            BY <3>1 DEF OneClaimed
      <3>3. Cardinality({e}) = 1
            BY FS_Singleton
      <3> QED BY <3>2, <3>3
    <2> QED BY <2>1, <2>2
  <1>2. /\ IsFiniteSet(InPending \cap InProcessing)
        /\ Cardinality(InPending \cup InProcessing) =
             Cardinality(InPending) + Cardinality(InProcessing) - Cardinality(InPending \cap InProcessing)
    <2>1. InPending \cap InProcessing \subseteq InPending
          OBVIOUS
    <2> QED BY <2>1, FinitelyQueued, FS_Union, FS_Subset
  <1>3. Cardinality(InPending \cap InProcessing) \in Nat
        BY <1>2, FS_CardinalityType
  <1> QED BY <1>1, <1>2, <1>3, FinitelyQueued DEF Queued

\* A step of the relay publishes nothing and claims one event at a time.
LEMMA RelayKeepsRoom ==
    ASSUME Books, OneClaimed,
           Relay \/ Stop \/ Crash \/ \E e \in Events : CoolDown(e)
    PROVE  OneClaimed' /\ Queued' \subseteq Queued
  <1> USE DEF OneClaimed, Queued, InPending, InProcessing, Holds
  <1>1. CASE Start BY <1>1 DEF Start, files
  <1>2. CASE Recovered BY <1>2 DEF Recovered, files
  <1>3. CASE List BY <1>3 DEF List, files
  <1>4. CASE PassEnds BY <1>4 DEF PassEnds, files
  <1>5. CASE Stop BY <1>5 DEF Stop, files
  <1>6. CASE Crash BY <1>6 DEF Crash, files
  <1>7. ASSUME NEW e \in Events, CoolDown(e) PROVE OneClaimed' /\ Queued' \subseteq Queued
        BY <1>7 DEF CoolDown, files, relayVars
  <1>8. ASSUME NEW e \in Events, Handle(e) PROVE OneClaimed' /\ Queued' \subseteq Queued
    <2> USE DEF Books, TypeOK, RelayKnows, Absent
    <2>1. CASE Recover(e) BY <2>1 DEF Recover, relayVars
    <2>2. CASE Claim(e) BY <2>2 DEF Claim
    <2>3. CASE Unreadable(e) BY <2>3 DEF Unreadable, MoveFailed, Onward
    <2>4. CASE TooEarly(e) BY <2>4 DEF TooEarly, Onward
    <2>5. CASE Deliver(e) BY <2>5 DEF Deliver, files
    <2>6. CASE Remove(e) BY <2>6 DEF Remove, Onward
    <2>7. CASE Requeue(e) BY <2>7 DEF Requeue
    <2>8. CASE Unclaim(e) BY <2>8 DEF Unclaim, PassBreaks
    <2>9. CASE GiveUp(e) BY <2>9 DEF GiveUp, MoveFailed, PassBreaks
    <2> QED BY <1>8, <2>1, <2>2, <2>3, <2>4, <2>5, <2>6, <2>7, <2>8, <2>9 DEF Handle
  <1> QED BY <1>1, <1>2, <1>3, <1>4, <1>5, <1>6, <1>7, <1>8 DEF Relay

LEMMA RoomIsKept == Books /\ HasRoom /\ [Next]_vars => HasRoom'
  <1> SUFFICES ASSUME Books, HasRoom, [Next]_vars PROVE HasRoom'
        OBVIOUS
  <1>1. Cardinality(Queued) \in Nat /\ MaxPending \in Nat /\ seen \in [Writers -> Nat]
        BY FinitelyQueued, Numbers DEF Books, TypeOK
  <1>2. ASSUME Queued' \subseteq Queued, UNCHANGED writerVars, OneClaimed' PROVE HasRoom'
    <2>1. Cardinality(Queued') =< Cardinality(Queued) /\ Cardinality(Queued') \in Nat
          BY <1>2, FinitelyQueued, FS_Subset, FS_CardinalityType
    <2> QED BY <1>1, <1>2, <2>1 DEF HasRoom, QueueNearlyBounded, WriterCounts, writerVars
  <1>3. CASE Relay \/ Stop \/ Crash \/ \E e \in Events : CoolDown(e)
    <2>1. OneClaimed' /\ Queued' \subseteq Queued
          BY <1>3, RelayKeepsRoom DEF HasRoom
    <2>2. UNCHANGED writerVars
      <3>1. CASE Start \/ Recovered \/ List \/ PassEnds \/ Stop \/ Crash
            BY <3>1 DEF Start, Recovered, List, PassEnds, Stop, Crash
      <3>2. ASSUME NEW e \in Events, Handle(e) \/ CoolDown(e) PROVE UNCHANGED writerVars
            BY <3>2 DEF Handle, CoolDown, Recover, Claim, Unreadable, TooEarly, Deliver, Remove,
                        Requeue, Unclaim, GiveUp
      <3> QED BY <1>3, <3>1, <3>2 DEF Relay
    <2> QED BY <1>2, <2>1, <2>2
  <1>4. ASSUME UNCHANGED <<files, relayVars>> PROVE OneClaimed' /\ Queued' = Queued
    <2>1. InPending' = InPending /\ InProcessing' = InProcessing
          BY <1>4 DEF InPending, InProcessing, files
    <2>2. OneClaimed'
          BY <1>4, <2>1 DEF HasRoom, OneClaimed, Holds, relayVars
    <2> QED BY <2>1, <2>2 DEF Queued
  <1>5. ASSUME NEW w \in Writers, Lock(w) \/ WriterDies(w) PROVE HasRoom'
    <2>2. \A v \in Writers : writer'[v] \in {"counted", "publish"} =>
              writer'[v] = writer[v] /\ seen'[v] = seen[v]
          BY <1>5 DEF Lock, WriterDies, Books, TypeOK
    <2>3. \A v \in Writers : writer'[v] # "out" => lock' = v
          BY <1>5, Numbers DEF Lock, WriterDies, HasRoom, WriterCounts, Books, TypeOK
    <2>4. OneClaimed' /\ Queued' = Queued
          BY <1>4, <1>5 DEF Lock, WriterDies
    <2> QED BY <2>2, <2>3, <2>4 DEF HasRoom, QueueNearlyBounded, WriterCounts
  <1>6. ASSUME NEW w \in Writers, CountPending(w) PROVE HasRoom'
    <2>1. OneClaimed' /\ Queued' = Queued
          BY <1>4, <1>6 DEF CountPending
    <2>2. Cardinality(Queued) =< seen'[w] + 1
          BY <1>6, CountsMissOne DEF CountPending, HasRoom, Books, TypeOK
    <2>3. \A v \in Writers \ {w} : writer'[v] = writer[v] /\ seen'[v] = seen[v]
          BY <1>6 DEF CountPending, Books, TypeOK
    <2>4. writer[w] = "locked" /\ writer'[w] = "counted" /\ lock' = lock
          BY <1>6 DEF CountPending, Books, TypeOK
    <2> QED BY <2>1, <2>2, <2>3, <2>4 DEF HasRoom, QueueNearlyBounded, WriterCounts
  <1>7. ASSUME NEW w \in Writers, CountProcessing(w) PROVE HasRoom'
    <2>1. OneClaimed' /\ Queued' = Queued
          BY <1>4, <1>7 DEF CountProcessing
    <2>2. Room(w) => Cardinality(Queued) =< MaxPending
          BY <1>1, <1>7, FinitelyQueued DEF CountProcessing, Room, HasRoom, WriterCounts
    <2>3. \A v \in Writers \ {w} : writer'[v] = writer[v] /\ (writer'[v] # "out" => lock' = lock)
          BY <1>7 DEF CountProcessing, Books, TypeOK, HasRoom, WriterCounts
    <2>4. /\ writer[w] = "counted" /\ seen' = seen
          /\ \/ writer'[w] = "publish" /\ Room(w) /\ lock' = lock
             \/ writer'[w] = "out"
          BY <1>7 DEF CountProcessing, Books, TypeOK
    <2> QED BY <2>1, <2>2, <2>3, <2>4 DEF HasRoom, QueueNearlyBounded, WriterCounts
  <1>8. ASSUME NEW w \in Writers, Publish(w) PROVE HasRoom'
    <2>1. PICK e \in Events : pending' = [pending EXCEPT ![e] = 0]
          BY <1>8 DEF Publish
    <2>2. /\ UNCHANGED <<processing, relay, current>>
          /\ pending \in [Events -> Nat \cup {Absent}]
          BY <1>8 DEF Publish, relayVars, Books, TypeOK
    <2>3. Queued' = Queued \cup {e} /\ InProcessing' = InProcessing
          BY <2>1, <2>2 DEF Queued, InPending, InProcessing, Absent
    <2>4. OneClaimed'
          BY <2>2, <2>3 DEF HasRoom, OneClaimed
    <2>5. Cardinality(Queued') =< Cardinality(Queued) + 1 /\ Cardinality(Queued') \in Nat
      <3> DEFINE q == Queued
      <3>1. IsFiniteSet(q) /\ Cardinality(q) \in Nat
            BY FinitelyQueued
      <3>2. Queued' = q \cup {e}
            BY <2>3
      <3> HIDE DEF q
      <3>3. /\ IsFiniteSet(q \cup {e})
            /\ Cardinality(q \cup {e}) = IF e \in q THEN Cardinality(q) ELSE Cardinality(q) + 1
            BY <3>1, FS_AddElement
      <3>4. Cardinality(q \cup {e}) \in Nat
            BY <3>3, FS_CardinalityType
      <3>5. Cardinality(q \cup {e}) =< Cardinality(q) + 1
            BY <3>1, <3>3
      <3> QED BY <3>2, <3>4, <3>5 DEF q
    <2>6. Cardinality(Queued) =< MaxPending
          BY <1>8 DEF Publish, HasRoom, WriterCounts
    <2>7. \A v \in Writers : writer'[v] = "out"
          BY <1>8 DEF Publish, Books, TypeOK, HasRoom, WriterCounts
    <2> QED BY <1>1, <2>4, <2>5, <2>6, <2>7 DEF HasRoom, QueueNearlyBounded, WriterCounts
  <1>9. CASE UNCHANGED vars
        BY <1>2, <1>4, <1>9 DEF vars
  <1> QED BY <1>3, <1>5, <1>6, <1>7, <1>8, <1>9 DEF Next, Enqueue

LEMMA RoomAtFirst == Init => HasRoom
  <1> SUFFICES ASSUME Init PROVE HasRoom
        OBVIOUS
  <1>1. InPending = {} /\ InProcessing = {} /\ Queued = {}
        BY DEF Init, InPending, InProcessing, Queued
  <1>2. Cardinality(Queued) = 0
        BY <1>1, FS_EmptySet
  <1> QED BY <1>1, <1>2, Numbers DEF Init, HasRoom, QueueNearlyBounded, OneClaimed, WriterCounts, Holds

\* However the two counts of a writer and the renames of the relay interleave, the
\* queue never holds more than one event above its limit (enqueue_event).
THEOREM QueueIsNearlyBounded == Spec => []QueueNearlyBounded
  <1>1. HasRoom => QueueNearlyBounded
        BY DEF HasRoom
  <1> QED BY <1>1, RoomAtFirst, RoomIsKept, BooksAlways, PTL DEF Spec

\* The promises of the queue together: at least once, a bounded number of times, in a
\* bounded queue.
THEOREM DeliveryStays == Spec => []DeliveryIsKept
  BY NoEventIsLost, RetriesAreBounded, QueueIsNearlyBounded, PTL DEF DeliveryIsKept
=============================================================================
