--------------------------- MODULE MCPriorityGate ---------------------------
(***************************************************************************)
(* Two small instances of PriorityGate for TLC, checked in one run: a proxy *)
(* whose acquire may fail, before clients in a hurry (the constants of the  *)
(* configuration), and one that serves every request it grants, before      *)
(* patient clients.  A behaviour is one of one of them.                     *)
(***************************************************************************)
EXTENDS PriorityGate

VARIABLE turn       \* of which instance the behaviour is

Offer(priority, burst, timeout) == [priority |-> priority, burst |-> burst, timeout |-> timeout]

\* A direct question, two ordinary requests of background work and one that may
\* use the burst.
MixedOffers ==
    [r \in Requests |->
       CASE r = "chat" -> {Offer(0, FALSE, 1)}
         [] r = "tool" -> {}
         [] OTHER -> {Offer(3, r = "burst", 2)}]

\* A direct question beside background work, which do not give up their places
\* within MaxAge, and a tool that does.
PatientOffers ==
    [r \in Requests |->
       CASE r = "chat" -> {Offer(0, FALSE, 9)}
         [] r = "tool" -> {Offer(1, FALSE, 1)}
         [] r = "burst" -> {}
         [] OTHER -> {Offer(3, FALSE, 9)}]

Patiently == INSTANCE PriorityGate WITH
    Offers <- PatientOffers, MaxPending <- 3, BurstConcurrency <- 1, MaxAge <- 3, Faulty <- FALSE

BothInit ==
    /\ turn \in {"mixed", "patient"}
    /\ IF turn = "mixed" THEN Init ELSE Patiently!Init

BothNext ==
    \/ turn = "mixed" /\ Next /\ UNCHANGED turn
    \/ turn = "patient" /\ Patiently!Next /\ UNCHANGED turn

\* The fairness of FairSpec for the one, of ServingSpec for the other.
MixedFairness ==
    /\ WF_vars(turn = "mixed" /\ Tick)
    /\ \A r \in Requests : /\ WF_vars(turn = "mixed" /\ Wake(r))
                           /\ WF_vars(turn = "mixed" /\ ReadTimesOut(r))

PatientFairness ==
    /\ WF_vars(turn = "patient" /\ Patiently!Tick)
    /\ \A r \in Requests : /\ WF_vars(turn = "patient" /\ Patiently!Wake(r))
                           /\ WF_vars(turn = "patient" /\ Patiently!ReadTimesOut(r))
                           /\ WF_vars(turn = "patient" /\ Patiently!Finish(r))

BothSpec == BothInit /\ [][BothNext]_<<vars, turn>> /\ MixedFairness /\ PatientFairness

-----------------------------------------------------------------------------
(* Properties *)

\* PriorityGate, WaitersAreServed: where every granted request ends, patience is
\* rewarded (docs/OLLAMA_PRIORITY.md), and neither a ticket without a thread nor a
\* slot nobody gives back stands in its way.
PatientAreServed == turn = "patient" => Patiently!WaitersAreServed

=============================================================================
