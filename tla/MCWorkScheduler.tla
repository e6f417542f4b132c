---------------------------- MODULE MCWorkScheduler ----------------------------
(***************************************************************************)
(* WorkScheduler for TLC: two jobs on their own topics, scaled so that in  *)
(* a few ticks a low job overtakes a high one by age, deadline and         *)
(* starvation, and a boost can outweigh the difference of their bases.     *)
(***************************************************************************)
EXTENDS WorkScheduler

CONSTANTS mail, sync

MCTopicOf == [j \in Job |-> IF j = mail THEN "mail" ELSE "knowledge"]
MCBase    == [j \in Job |-> IF j = mail THEN 4 ELSE 1]
MCWindow  == [j \in Job |-> IF j = mail THEN 2 ELSE 3]
MCTopic   == {"mail", "knowledge"}
MCBoosts  == {2}
================================================================================
