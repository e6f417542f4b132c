------------------------------- MODULE MCJobLoop -------------------------------
(***************************************************************************)
(* Two small instances of JobLoop for TLC: the mail worker (high base, may *)
(* be restarted under the same owner string or another) and the sync       *)
(* worker (low base).  In a rough behaviour the user switches, workers die *)
(* and nothing is scheduled fairly; in a fair one they meet a signal and a *)
(* failing renewal, under FairSpec.                                        *)
(***************************************************************************)
EXTENDS JobLoop

CONSTANTS mail, sync, m1, m2, m3, s1, s2

VARIABLE turn       \* of which instance the behaviour is

MCTopic   == {"mail", "knowledge"}
MCTopicOf == [j \in Job |-> IF j = mail THEN "mail" ELSE "knowledge"]
MCBase    == [j \in Job |-> IF j = mail THEN 9 ELSE 1]
MCWindow  == [j \in Job |-> 2]
MCFirstOwner == [j \in Job |-> IF j = mail THEN m1 ELSE s1]

(* After a restart the mail container comes back with the pid and hostname it had, or with   *)
(* others; or every container comes back with others.                        *)
MCMayRepeat == [o \in Owner |-> IF o \in {s1, s2} THEN {s1} ELSE {m1, m2}]
MCFresh     == [o \in Owner |-> CASE o \in {s1, s2} -> {s2} [] o = m1 -> {m2} [] OTHER -> {m3}]

Fairly == INSTANCE JobLoop WITH
    Lease <- 4, MaxAge <- 2, AgeCap <- 2, StarvationAfter <- 2, Switchable <- {},
    Reincarnation <- MCMayRepeat, KeepHistory <- FALSE, MaxCrashes <- 0, MaxStops <- 1, MaxFaults <- 1

bothVars == <<loopVars, astray, turn>>

BothInit == turn \in {"rough", "fair"} /\ LoopInit

BothNext ==
    \/ turn = "rough" /\ LoopNext /\ UNCHANGED turn
    \/ turn = "fair" /\ Fairly!LoopNext /\ UNCHANGED turn

BothFairness ==
    /\ \A j \in Job : /\ WF_loopVars(turn = "fair" /\ Fairly!Worker(j))
                      /\ WF_loopVars(turn = "fair" /\ Fairly!ByItself(j))
                      /\ WF_loopVars(turn = "fair" /\ Fairly!Quit(j))
                      /\ WF_loopVars(turn = "fair" /\ Fairly!Start(j))
    /\ WF_loopVars(turn = "fair" /\ Fairly!Clock)

BothSpec == BothInit /\ [][BothNext]_bothVars /\ BothFairness

(* With the real proportions of lease, misses and grace, in tens of seconds. *)
OverlapSpec == turn = "rough" /\ LoopInit /\ [][LoopNext /\ UNCHANGED turn]_bothVars
--------------------------------------------------------------------------------
(* Properties *)

(* "starvation protection after a bounded wait" (docs/ADAPTIVE_SCHEDULER.md): *)
(* a worker that waits in the queue does not wait for ever.                  *)
EveryoneIsServed == turn = "fair" => NobodyStarves

(* JobLoop: neither a run whose worker died goes on for ever, nor a worker   *)
(* that was asked to stop.                                                   *)
EverythingEnds == turn = "fair" => RunsEnd
================================================================================
