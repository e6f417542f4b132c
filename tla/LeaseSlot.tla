-------------------------------- MODULE LeaseSlot --------------------------------
(***************************************************************************)
(* What the job queue promises, without jobs, ranking, owners or time: one *)
(* slot, taken by one attempt at a time.  An attempt is open from the      *)
(* moment it takes the slot; it is closed once, by the result its holder   *)
(* reports or as "interrupted" when it loses the slot, and never opened    *)
(* again.                                                                  *)
(***************************************************************************)
CONSTANTS Attempt, Free, Outcome

VARIABLES slot, state

slotVars == <<slot, state>>

SlotInit == slot = Free /\ state = [a \in Attempt |-> "none"]

(* The states of the attempts once the slot has been taken away. *)
Evicted == [a \in Attempt |-> IF a = slot /\ state[a] = "in-progress"
                              THEN "interrupted" ELSE state[a]]

Expire == slot # Free /\ slot' = Free /\ state' = Evicted

(* A new attempt takes the slot, evicting an attempt that let it expire. *)
Take(a) ==
    /\ state[a] = "none" /\ slot # a
    /\ slot' = a
    /\ state' = [Evicted EXCEPT ![a] = "in-progress"]

Close(r) ==
    /\ slot # Free /\ state[slot] = "in-progress"
    /\ state' = [state EXCEPT ![slot] = r]
    /\ UNCHANGED slot

(* Only an attempt that has been closed gives the slot back; old closed      *)
(* attempts may be forgotten then.                                           *)
GiveBack ==
    /\ slot # Free /\ state[slot] \in Outcome
    /\ slot' = Free
    /\ \E old \in SUBSET {a \in Attempt \ {slot} : state[a] \in Outcome} :
          state' = [a \in Attempt |-> IF a \in old THEN "none" ELSE state[a]]

SlotNext ==
    \/ Expire
    \/ \E a \in Attempt : Take(a)
    \/ \E r \in Outcome : Close(r)
    \/ GiveBack

SlotSpec == SlotInit /\ [][SlotNext]_slotVars
================================================================================
