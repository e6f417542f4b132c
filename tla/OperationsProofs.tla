-------------------------- MODULE OperationsProofs --------------------------
(***************************************************************************)
(* Proofs about the components of MCOperations, for every set of commands,   *)
(* workers, setups, images, projects, domains and resources, and without the *)
(* bounds of the run: each component has an inductive invariant of its own,  *)
(* which holds in the behaviours that are about it (lemma OneTurn).          *)
(*                                                                          *)
(*   TypeOK         JobControl: the file and every copy of it have their     *)
(*                  shape, with every overlap of the commands                *)
(*   OwnerInv       what a run that relies on a setup saw is current, or the *)
(*                  change was noticed; an open gate was opened by a run     *)
(*                  that worked with what is current                         *)
(*   MigrationInv   what is done before a step is done whenever the script   *)
(*                  is past it; a credential is new only where nobody had    *)
(*                  one of its mode                                          *)
(*   DeployInv      who has the units off and the containers down, and what  *)
(*                  a rollback has put back so far                           *)
(*   ToolsInv       what is on is granted by the registry that is, by the    *)
(*                  one to come and by the one a failed setup puts back      *)
(*   SyncInv        what was listed, found and filed is what is there, as    *)
(*                  far as nobody touched it since the cycle began, and what *)
(*                  the run is past is filed                                 *)
(***************************************************************************)
EXTENDS MCOperations, FiniteSetTheorems, WellFoundedInduction, TLAPS

-----------------------------------------------------------------------------
(* JobControl: overlapping commands keep the shape of the file and of its copies *)

LEMMA Constants ==
    /\ Mail \in Jobs /\ DefaultOn \subseteq Jobs /\ None \notin Inodes /\ Torn \notin State /\ Inodes # {}
  BY ControlAssumption DEF ControlAssumption, State, Attempts

LEMMA LoadIsState == TypeOK => Load \in State
  BY Constants DEF TypeOK, Load, Content, State, Attempts, Defaults

LEMMA SavingKeepsTypes ==
    ASSUME TypeOK, NEW p \in Process, NEW s \in State,
           NEW place \in {"dry", "recovered", "restored", "switched", "notify"},
           SaveThen(p, s, place), ~(pc[p] = "write"), UNCHANGED handle
    PROVE  /\ mem' \in [Process -> State]
           /\ back' \in [Process -> {"idle", "dry", "recovered", "restored", "switched", "notify"}]
           /\ pc' \in [Process -> {"idle", "open", "write", "rename", "gate", "dry", "recovered",
                                   "restored", "switched", "look", "notify"}]
           /\ \A q \in Process : handle'[q] # None <=> pc'[q] = "write"
  BY DEF TypeOK, SaveThen

LEMMA SavingStepKeepsTypes ==
    ASSUME TypeOK, NEW p \in Process, NEW s \in State,
           NEW place \in {"dry", "recovered", "restored", "switched", "notify"},
           SaveThen(p, s, place), ~(pc[p] = "write"),
           UNCHANGED <<fileVars, cmd, sel, handle, fresh, sick, history>>, stale' \in BOOLEAN
    PROVE  TypeOK'
  <1>1. /\ mem' \in [Process -> State]
        /\ back' \in [Process -> {"idle", "dry", "recovered", "restored", "switched", "notify"}]
        /\ pc' \in [Process -> {"idle", "open", "write", "rename", "gate", "dry", "recovered",
                                 "restored", "switched", "look", "notify"}]
        /\ \A q \in Process : handle'[q] # None <=> pc'[q] = "write"
        BY SavingKeepsTypes
  <1> QED BY <1>1 DEF TypeOK, fileVars, history

LEMMA EndingKeepsTypes ==
    ASSUME TypeOK, NEW p \in Process, Ends(p),
           UNCHANGED <<fileVars, world>>, off' \subseteq Jobs, events' \in Nat
    PROVE  TypeOK'
  BY Constants DEF TypeOK, Ends, fileVars, world, State, Attempts, Defaults

LEMMA StepKeepsTypes ==
    ASSUME TypeOK, [Next]_vars
    PROVE  TypeOK'
  <1> USE Constants
  <1>1. ASSUME NEW p \in Process, Check(p) PROVE TypeOK'
    <2>1. Load \in State BY LoadIsState
    <2>2. \A target \in Targets : target \subseteq Jobs BY DEF Targets
    <2>3. Jobs \in Targets BY DEF Targets
    <2>4. sel' \in [Process -> SUBSET Jobs]
      <3>1. PICK target \in Targets : sel' = [sel EXCEPT ![p] = target]
            BY <1>1, <2>3 DEF Check
      <3> QED BY <2>2, <3>1 DEF TypeOK
    <2>5. events' \in Nat
          BY <1>1 DEF Check, Happens, TypeOK
    <2>6. /\ mem' = [mem EXCEPT ![p] = Load] /\ cmd' = [cmd EXCEPT ![p] = "check"]
          /\ pc' = [pc EXCEPT ![p] = "look"] \/ pc' = [pc EXCEPT ![p] = "gate"]
          /\ UNCHANGED <<disk, stateName, tmpName, handle, back, fresh, sick, stale, off>> /\ pc[p] = "idle"
          BY <1>1 DEF Check, Goto, Idle, fileVars, world
    <2>7. \A q \in Process : handle'[q] # None <=> pc'[q] = "write"
          BY <2>6 DEF TypeOK
    <2> HIDE DEF State
    <2> QED BY <2>1, <2>4, <2>5, <2>6, <2>7 DEF TypeOK
  <1>2. ASSUME NEW p \in Process, On(p) PROVE TypeOK'
    <2>1. PICK target \in Targets :
             /\ sel' = [sel EXCEPT ![p] = target]
             /\ fresh' = [fresh EXCEPT ![p] = target \ Load.desired]
             /\ SaveThen(p, [Load EXCEPT !.desired = @ \cup target], "switched")
             /\ off' = off \ target
          BY <1>2 DEF On
    <2>2. target \subseteq Jobs BY DEF Targets
    <2>3. [Load EXCEPT !.desired = @ \cup target] \in State
          BY <2>2, LoadIsState DEF State
    <2>4. ~(pc[p] = "write") /\ UNCHANGED handle BY <1>2 DEF On, Idle
    <2>5. /\ mem' \in [Process -> State]
          /\ back' \in [Process -> {"idle", "dry", "recovered", "restored", "switched", "notify"}]
          /\ pc' \in [Process -> {"idle", "open", "write", "rename", "gate", "dry", "recovered",
                                   "restored", "switched", "look", "notify"}]
          /\ \A q \in Process : handle'[q] # None <=> pc'[q] = "write"
          BY <2>1, <2>3, <2>4, SavingKeepsTypes
    <2>6. sel' \in [Process -> SUBSET Jobs] /\ off' \subseteq Jobs
          BY <2>1, <2>2 DEF TypeOK
    <2>7. /\ events' \in Nat /\ cmd' \in [Process -> {"check", "on", "off"}]
          /\ UNCHANGED <<disk, stateName, tmpName, handle, sick, stale>>
          BY <1>2 DEF On, Happens, TypeOK, fileVars, world
    <2>8. fresh' \in [Process -> SUBSET Jobs]
          BY <1>2, <2>1, <2>2 DEF On, TypeOK
    <2> QED BY <2>5, <2>6, <2>7, <2>8 DEF TypeOK
  <1>3. ASSUME NEW p \in Process, Off(p) PROVE TypeOK'
    <2>1. PICK target \in Targets :
             /\ sel' = [sel EXCEPT ![p] = target]
             /\ SaveThen(p, [Load EXCEPT !.desired = @ \ target], "switched")
             /\ off' = off \ target
          BY <1>3 DEF Off
    <2>2. target \subseteq Jobs BY DEF Targets
    <2>3. [Load EXCEPT !.desired = @ \ target] \in State
          BY LoadIsState DEF State
    <2>4. ~(pc[p] = "write") /\ UNCHANGED handle BY <1>3 DEF Off, Idle
    <2>5. /\ mem' \in [Process -> State]
          /\ back' \in [Process -> {"idle", "dry", "recovered", "restored", "switched", "notify"}]
          /\ pc' \in [Process -> {"idle", "open", "write", "rename", "gate", "dry", "recovered",
                                   "restored", "switched", "look", "notify"}]
          /\ \A q \in Process : handle'[q] # None <=> pc'[q] = "write"
          BY <2>1, <2>3, <2>4, SavingKeepsTypes
    <2>6. sel' \in [Process -> SUBSET Jobs] /\ off' \subseteq Jobs
          BY <2>1, <2>2 DEF TypeOK
    <2>7. /\ events' \in Nat /\ cmd' \in [Process -> {"check", "on", "off"}]
          /\ UNCHANGED <<disk, stateName, tmpName, handle, sick, stale>>
          BY <1>3 DEF Off, Happens, TypeOK, fileVars, world
    <2>8. fresh' \in [Process -> SUBSET Jobs]
          BY <1>3, <2>1, <2>2 DEF Off, TypeOK
    <2> QED BY <2>5, <2>6, <2>7, <2>8 DEF TypeOK
  <1>4. ASSUME NEW p \in Process, Open(p) PROVE TypeOK'
    <2>1. PICK i \in Inodes : /\ disk' = [disk EXCEPT ![i] = Torn] /\ tmpName' = i
                              /\ handle' = [handle EXCEPT ![p] = i]
          BY <1>4 DEF Open, Unnamed, TypeOK
    <2>2. pc' = [pc EXCEPT ![p] = "write"] /\ UNCHANGED <<stateName, cmd, sel, mem, back, fresh, sick, stale, off, events>>
          BY <1>4 DEF Open, world, history
    <2>3. \A q \in Process : handle'[q] # None <=> pc'[q] = "write"
          BY <2>1, <2>2 DEF TypeOK
    <2>4. disk' \in [Inodes -> State \cup {Torn}]
          BY <2>1 DEF TypeOK
    <2> HIDE DEF State
    <2> QED BY <2>1, <2>2, <2>3, <2>4 DEF TypeOK
  <1>5. ASSUME NEW p \in Process, Write(p) PROVE TypeOK'
    <2>1. PICK text \in State \cup {Torn} : disk' = [disk EXCEPT ![handle[p]] = text]
          BY <1>5 DEF Write, TypeOK
    <2> QED BY <1>5, <2>1 DEF Write, TypeOK, world, history
  <1>6. ASSUME NEW p \in Process, Rename(p) PROVE TypeOK'
    <2>1. CASE tmpName = None
          BY <1>6, <2>1, EndingKeepsTypes DEF Rename, TypeOK
    <2>2. CASE tmpName # None
      <3>1. off' \subseteq Jobs
            BY <1>6, <2>2 DEF Rename, Reported, TypeOK
      <3> QED BY <1>6, <2>2, <3>1 DEF Rename, TypeOK, world
    <2> QED BY <2>1, <2>2
  <1>7. ASSUME NEW p \in Process, Switched(p) PROVE TypeOK'
    <2>1. sel' \in [Process -> SUBSET Jobs]
          BY <1>7 DEF Switched, TypeOK
    <2> QED BY <1>7, <2>1 DEF Switched, Goto, TypeOK, fileVars, world, history
  <1>8. ASSUME NEW p \in Process, NoRecovery(p) PROVE TypeOK'
        BY <1>8 DEF NoRecovery, Goto, TypeOK, fileVars, world, history
  <1>9. ASSUME NEW p \in Process, Quiesce(p) PROVE TypeOK'
    <2>0. mem[p] \in State BY DEF TypeOK
    <2>1. [mem[p] EXCEPT !.desired = @ \ {Mail}] \in State BY <2>0, Constants DEF State
    <2> HIDE DEF State
    <2> QED BY <1>9, <2>1, SavingStepKeepsTypes DEF Quiesce, TypeOK, world
  <1>11. ASSUME NEW p \in Process PROVE [mem[p] EXCEPT !.desired = @ \cup {Mail}] \in State
    <2>1. mem[p] \in State BY DEF TypeOK
    <2> QED BY <2>1, Constants DEF State
  <1>12. ASSUME NEW p \in Process, Busy(p) PROVE TypeOK'
        BY <1>11, <1>12, SavingStepKeepsTypes DEF Busy, Restore, TypeOK, world
  <1>13. ASSUME NEW p \in Process, DryRun(p) PROVE TypeOK'
    <2>1. PICK result \in Attempts : /\ stale' \in IF result = "failed" THEN {stale} ELSE {stale, FALSE}
                                     /\ SaveThen(p, [mem[p] EXCEPT !.attempt = result], "recovered")
          BY <1>13 DEF DryRun
    <2>6. mem[p] \in State BY DEF TypeOK
    <2>2. [mem[p] EXCEPT !.attempt = result] \in State BY <2>6 DEF State
    <2>3. stale' \in BOOLEAN BY <2>1 DEF TypeOK
    <2>4. ~(pc[p] = "write") /\ UNCHANGED <<fileVars, cmd, sel, handle, fresh, sick, history>>
          BY <1>13 DEF DryRun
    <2> HIDE DEF State, Attempts
    <2> QED BY <2>1, <2>2, <2>3, <2>4, SavingStepKeepsTypes
  <1>14. ASSUME NEW p \in Process, Recovered(p) PROVE TypeOK'
        BY <1>11, <1>14, SavingStepKeepsTypes DEF Recovered, Restore, TypeOK, world
  <1>15. ASSUME NEW p \in Process, Restored(p) PROVE TypeOK'
        BY <1>15 DEF Restored, Goto, TypeOK, fileVars, world, history
  <1>16. ASSUME NEW p \in Process, Record(p) PROVE TypeOK'
    <2>1. PICK starting \in SUBSET (IF cmd[p] = "on" THEN fresh[p] ELSE {}),
               old \in SUBSET (mem[p].alerts \ sel[p]) :
             SaveThen(p, [mem[p] EXCEPT !.alerts = Active(p, Issues(p) \ starting, old)], "notify")
          BY <1>16 DEF Record
    <2> DEFINE active == Active(p, Issues(p) \ starting, old)
    <2>2. mem[p] \in State BY DEF TypeOK
    <2>3. active \subseteq Jobs BY <2>2 DEF Active, Issues, State
    <2>4. [mem[p] EXCEPT !.alerts = active] \in State BY <2>2, <2>3 DEF State
    <2>5. ~(pc[p] = "write") /\ UNCHANGED <<fileVars, cmd, sel, handle, fresh, sick, history>> /\ stale' \in BOOLEAN
          BY <1>16 DEF Record, world, TypeOK
    <2> HIDE DEF State, Attempts, active
    <2> QED BY <2>1, <2>4, <2>5, SavingStepKeepsTypes DEF active
  <1>17. ASSUME NEW p \in Process, Notify(p) PROVE TypeOK'
        BY <1>17, EndingKeepsTypes DEF Notify, TypeOK, history
  <1>18. ASSUME NEW p \in Process, Killed(p) PROVE TypeOK'
        BY <1>18, EndingKeepsTypes DEF Killed, Happens, TypeOK
  <1>19. CASE Surroundings
    <2>1. CASE Lapse
      <3>1. \A st \in State : [st EXCEPT !.attempt = "none"] \in State
            BY DEF State, Attempts
      <3>2. disk' \in [Inodes -> State \cup {Torn}] /\ mem' \in [Process -> State]
            BY <2>1, <3>1 DEF Lapse, TypeOK
      <3> QED BY <2>1, <3>2 DEF Lapse, TypeOK, world, history
    <2>2. ASSUME NEW j \in Jobs, Sicken(j) \/ Heal(j) PROVE TypeOK'
      <3>1. /\ sick' \subseteq Jobs /\ events' \in Nat
            /\ UNCHANGED <<disk, stateName, tmpName, pc, cmd, sel, mem, handle, back, fresh, stale, off>>
            BY <2>2 DEF Sicken, Heal, Happens, TypeOK, fileVars, procVars
      <3> QED BY <3>1 DEF TypeOK
    <2>3. CASE Gate
      <3>1. /\ stale' \in BOOLEAN /\ events' \in Nat
            /\ UNCHANGED <<disk, stateName, tmpName, pc, cmd, sel, mem, handle, back, fresh, sick, off>>
            BY <2>3 DEF Gate, Happens, TypeOK, fileVars, procVars
      <3> QED BY <3>1 DEF TypeOK
    <2> QED BY <1>19, <2>1, <2>2, <2>3 DEF Surroundings
  <1>20. CASE UNCHANGED vars
        BY <1>20 DEF vars, TypeOK, fileVars, procVars, world, history
  <1> QED BY <1>1, <1>2, <1>3, <1>4, <1>5, <1>6, <1>7, <1>8, <1>9, <1>12, <1>13, <1>14, <1>15, <1>16,
             <1>17, <1>18, <1>19, <1>20
          DEF Next, Start, Work, Save, Recovery

LEMMA InitTypes == Init => TypeOK
  <1> SUFFICES ASSUME Init PROVE TypeOK
      OBVIOUS
  <1>1. Defaults \in State
        BY Constants DEF State, Attempts, Defaults
  <1>2. disk \in [Inodes -> State \cup {Torn}] /\ stateName \in Inodes
        BY <1>1, Constants DEF Init
  <1>3. mem \in [Process -> State]
        BY <1>1 DEF Init
  <1> QED BY <1>2, <1>3, Constants DEF Init, TypeOK

\* The state file and every process's copy of it have their shape in every reachable
\* state, with and without overlapping commands.
THEOREM TypeCorrect == Spec => []TypeOK
  <1>1. TypeOK /\ [Next]_vars => TypeOK'
        BY StepKeepsTypes
  <1> QED BY <1>1, InitTypes, PTL DEF Spec

-----------------------------------------------------------------------------
(* MailOwner: no productive run of what was not tested *)

Looks == {<<>>} \cup (Setups \X Nat)
Gates == [at : Nat, ok : BOOLEAN, print : Setups]
Runs == [at : {"idle", "check", "dry", "testing", "recheck", "ready", "load", "drain", "index", "indexing"},
         sees : Looks, try : Nat, signature : {<<>>} \cup (Gates \X Setups)]

OwnerTypes ==
    /\ files \in Setups /\ taught \in Nat /\ mailGate \in Gates
    /\ run \in [MailWorkers \cup {0} -> Runs]

Current == <<files, taught>>
Vouched == tested \cup touched

\* A run that relies on what it saw saw what is current, or the change was noticed; a
\* gate that is open for what is current was opened by a run that worked with it.
OwnerInv ==
    /\ OwnerTypes
    /\ mailGate.ok => <<mailGate.print, taught>> \in Vouched
    /\ \A w \in MailWorkers \cup {0} :
         /\ run[w].at \in {"testing", "load"} => run[w].sees = Current \/ {run[w].sees, Current} \subseteq touched
         /\ run[w].at = "drain" => run[w].sees \in Vouched
    /\ 0 \in holder => run[0].at = "testing"

LEMMA OwnerStarts == Owner!Init => OwnerInv
  <1> SUFFICES ASSUME Owner!Init PROVE OwnerInv
      OBVIOUS
  <1>1. files \in Setups
        BY OperationsAssumption DEF OperationsAssumption, Owner!Init
  <1>2. Owner!Idle \in Runs /\ Owner!Idle.at = "idle"
        BY DEF Owner!Idle, Runs, Looks
  <1>3. run = [w \in MailWorkers \cup {0} |-> Owner!Idle]
        BY DEF Owner!Init, Owner!Operator
  <1> QED BY <1>1, <1>2, <1>3 DEF Owner!Init, OwnerInv, OwnerTypes, Gates

\* A step that leaves the files and the gate alone, and after which every run relies on
\* what it saw before, or on what is current, or on nothing.
LEMMA OwnerQuiet ==
    ASSUME OwnerInv, UNCHANGED <<files, taught, mailGate>>, tested \subseteq tested', touched' = touched,
           run' \in [MailWorkers \cup {0} -> Runs], 0 \in holder' => run'[0].at = "testing",
           \A w \in MailWorkers \cup {0} :
              \/ run'[w].at = run[w].at /\ run'[w].sees = run[w].sees
              \/ run'[w].sees = Current /\ run'[w].at # "drain"
              \/ run'[w].at \notin {"testing", "load", "drain"}
    PROVE  OwnerInv'
  BY DEF OwnerInv, OwnerTypes, Current, Vouched

LEMMA OwnerSets ==
    ASSUME OwnerTypes, NEW w \in MailWorkers \cup {0},
           NEW place \in {"idle", "check", "dry", "testing", "recheck", "ready", "load", "drain", "index", "indexing"},
           NEW look \in Looks, Owner!Goes(w, place, look)
    PROVE  /\ run' \in [MailWorkers \cup {0} -> Runs]
           /\ run'[w].at = place /\ run'[w].sees = look
           /\ \A v \in MailWorkers \cup {0} : v # w => run'[v] = run[v]
  BY DEF OwnerTypes, Owner!Goes, Runs

LEMMA OwnerEnds ==
    ASSUME OwnerTypes, NEW w \in MailWorkers \cup {0}, NEW well \in BOOLEAN, Owner!Ends(w, well)
    PROVE  /\ run' \in [MailWorkers \cup {0} -> Runs]
           /\ run'[w].at \in {"idle", "index"}
           /\ \A v \in MailWorkers \cup {0} : v # w => run'[v] = run[v]
  <1>1. Owner!Idle \in Runs /\ [Owner!Idle EXCEPT !.at = "index"] \in Runs
        BY DEF Owner!Idle, Runs, Looks
  <1>2. run' = [run EXCEPT ![w] = Owner!Idle] \/ run' = [run EXCEPT ![w] = [Owner!Idle EXCEPT !.at = "index"]]
        BY DEF Owner!Ends
  <1> QED BY <1>1, <1>2 DEF OwnerTypes, Owner!Idle

LEMMA OwnerWorks ==
    ASSUME OwnerInv, NEW w \in MailWorkers, Owner!Work(w)
    PROVE  OwnerInv'
  <1>0. w # 0 /\ w \in MailWorkers \cup {0} /\ OwnerTypes /\ Current \in Looks /\ <<>> \in Looks
        BY OperationsAssumption DEF OperationsAssumption, OwnerInv, OwnerTypes, Current, Looks
  <1>1. CASE Owner!Start(w)
    <2>1. Owner!Goes(w, "check", <<>>)
          BY <1>1 DEF Owner!Start
    <2> QED BY <1>0, <1>1, <2>1, OwnerSets, OwnerQuiet DEF Owner!Start, Owner!history, OwnerInv
  <1>2. CASE Owner!Check(w)
    <2>1. \/ Owner!Goes(w, "ready", <<>>)
          \/ run' = [run EXCEPT ![w].at = "dry", ![w].signature = Owner!Signature]
          \/ Owner!Ends(w, FALSE)
          BY <1>2 DEF Owner!Check
    <2>2. run' \in [MailWorkers \cup {0} -> Runs] /\ run'[w].at \in {"ready", "dry", "idle", "index"}
          /\ \A v \in MailWorkers \cup {0} : v # w => run'[v] = run[v]
      <3>1. CASE run' = [run EXCEPT ![w].at = "dry", ![w].signature = Owner!Signature]
        <4>1. Owner!Signature \in Gates \X Setups
              BY <1>0 DEF OwnerTypes, Owner!Signature
        <4>2. [run[w] EXCEPT !.at = "dry", !.signature = Owner!Signature] \in Runs
          <5>1. ASSUME NEW r \in Runs, NEW s \in Gates \X Setups
                PROVE  [[r EXCEPT !.at = "dry"] EXCEPT !.signature = s] \in Runs
                BY DEF Runs
          <5>2. run[w] \in Runs
                BY <1>0 DEF OwnerTypes
          <5> QED BY <4>1, <5>1, <5>2
        <4>3. run' = [run EXCEPT ![w] = [run[w] EXCEPT !.at = "dry", !.signature = Owner!Signature]]
              BY <3>1
        <4> QED BY <1>0, <4>2, <4>3 DEF OwnerTypes
      <3>2. CASE Owner!Goes(w, "ready", <<>>)
            BY <1>0, <3>2, OwnerSets
      <3>3. CASE Owner!Ends(w, FALSE)
            BY <1>0, <3>3, OwnerEnds
      <3> QED BY <2>1, <3>1, <3>2, <3>3
    <2> QED BY <1>0, <1>2, <2>2, OwnerQuiet DEF Owner!Check, Owner!history, OwnerInv
  <1>3. CASE Owner!DryRun(w)
    <2>0. UNCHANGED <<files, taught, mailGate, tested, touched>>
          BY <1>3 DEF Owner!DryRun, Owner!history
    <2>1. CASE holder' = {w} /\ Owner!Goes(w, "testing", Current)
          BY <1>0, <2>0, <2>1, OwnerSets, OwnerQuiet
    <2>2. CASE holder' = holder /\ Owner!Ends(w, FALSE)
          BY <1>0, <2>0, <2>2, OwnerEnds, OwnerQuiet DEF OwnerInv
    <2>3. CASE holder' = holder /\ run' = [run EXCEPT ![w].try = @ + 1]
      <3>1. run' \in [MailWorkers \cup {0} -> Runs]
            BY <1>0, <2>3 DEF OwnerTypes, Runs
      <3>2. \A v \in MailWorkers \cup {0} : run'[v].at = run[v].at /\ run'[v].sees = run[v].sees
            BY <1>0, <2>3 DEF OwnerTypes, Runs
      <3> QED BY <1>0, <2>0, <2>3, <3>1, <3>2, OwnerQuiet DEF OwnerInv
    <2> QED BY <1>3, <2>1, <2>2, <2>3 DEF Owner!DryRun, Owner!Setup, Current
  <1>4. CASE Owner!Tested(w)
    <2>1. /\ mailGate' = [at |-> mailGate.at + 1, ok |-> TRUE, print |-> files]
          /\ tested' = tested \cup {run[w].sees} /\ Owner!Goes(w, "recheck", <<>>) /\ run[w].at = "testing"
          /\ UNCHANGED <<files, taught, touched>> /\ holder' = {}
          BY <1>4 DEF Owner!Tested, Owner!Recorded, Owner!At
    <2>2. /\ run' \in [MailWorkers \cup {0} -> Runs] /\ run'[w].at = "recheck"
          /\ \A v \in MailWorkers \cup {0} : v # w => run'[v] = run[v]
          BY <1>0, <2>1, OwnerSets
    <2>3. mailGate' \in Gates
          BY <1>0, <2>1 DEF OwnerTypes, Gates
    <2>4. Current \in Vouched'
          BY <1>0, <2>1 DEF OwnerInv, Vouched
    <2> QED BY <1>0, <2>1, <2>2, <2>3, <2>4 DEF OwnerInv, OwnerTypes, Vouched, Current
  <1>5. CASE Owner!Failed(w)
    <2>1. /\ Owner!Ends(w, FALSE) /\ UNCHANGED <<files, taught, touched>> /\ holder' = {} /\ run[w].at = "testing"
          /\ (\E ok \in BOOLEAN : Owner!Recorded(ok, w)) \/ UNCHANGED <<mailGate, tested>>
          BY <1>5 DEF Owner!Failed, Owner!At
    <2>2. /\ run' \in [MailWorkers \cup {0} -> Runs] /\ run'[w].at \in {"idle", "index"}
          /\ \A v \in MailWorkers \cup {0} : v # w => run'[v] = run[v]
          BY <1>0, <2>1, OwnerEnds
    <2>3. CASE UNCHANGED <<mailGate, tested>>
          BY <1>0, <2>1, <2>2, <2>3 DEF OwnerInv, OwnerTypes, Vouched, Current
    <2>4. ASSUME NEW ok \in BOOLEAN, Owner!Recorded(ok, w) PROVE OwnerInv'
      <3>1. /\ mailGate' = [at |-> mailGate.at + 1, ok |-> ok, print |-> files]
            /\ tested' = IF ok THEN tested \cup {run[w].sees} ELSE tested
            BY <2>4 DEF Owner!Recorded
      <3>2. mailGate' \in Gates /\ mailGate'.ok = ok /\ mailGate'.print = files
            BY <1>0, <3>1 DEF OwnerTypes, Gates
      <3>3. tested \subseteq tested' /\ (ok => Current \in Vouched')
            BY <1>0, <2>1, <3>1 DEF OwnerInv, Vouched
      <3> QED BY <1>0, <2>1, <2>2, <3>2, <3>3 DEF OwnerInv, OwnerTypes, Vouched, Current
    <2> QED BY <2>1, <2>3, <2>4
  <1>6. CASE Owner!Recheck(w)
    <2>1. /\ UNCHANGED <<files, taught, mailGate, holder, tested, touched>>
          /\ Owner!Goes(w, "ready", <<>>) \/ Owner!Ends(w, FALSE)
          BY <1>6 DEF Owner!Recheck, Owner!history
    <2>2. CASE Owner!Goes(w, "ready", <<>>)
          BY <1>0, <2>1, <2>2, OwnerSets, OwnerQuiet DEF OwnerInv
    <2>3. CASE Owner!Ends(w, FALSE)
          BY <1>0, <2>1, <2>3, OwnerEnds, OwnerQuiet DEF OwnerInv
    <2> QED BY <2>1, <2>2, <2>3
  <1>7. CASE Owner!Load(w)
    <2>1. UNCHANGED <<files, taught, mailGate, holder, tested, touched>> /\ Owner!Goes(w, "load", Current)
          BY <1>7 DEF Owner!Load, Owner!history, Owner!Setup, Current
    <2> QED BY <1>0, <2>1, OwnerSets, OwnerQuiet DEF OwnerInv
  <1>8. CASE Owner!Drain(w)
    <2>1. /\ UNCHANGED <<files, taught, mailGate, tested, touched>> /\ run[w].at = "load"
          BY <1>8 DEF Owner!Drain, Owner!TakesLockIf, Owner!history, Owner!At
    <2>2. CASE ~Owner!Blocked /\ holder' = {w} /\ Owner!Goes(w, "drain", run[w].sees)
      <3>1. run[w].sees \in Looks
            BY <1>0 DEF OwnerTypes, Runs
      <3>2. /\ run' \in [MailWorkers \cup {0} -> Runs] /\ run'[w].at = "drain" /\ run'[w].sees = run[w].sees
            /\ \A v \in MailWorkers \cup {0} : v # w => run'[v] = run[v]
            BY <1>0, <2>2, <3>1, OwnerSets
      <3>3. Current \in Vouched
            BY <2>2 DEF OwnerInv, Owner!Blocked, Current
      <3>4. run[w].sees \in Vouched
            BY <1>0, <2>1, <3>3 DEF OwnerInv, Vouched
      <3>5. \A v \in MailWorkers \cup {0} :
              /\ run'[v].at \in {"testing", "load"} => run'[v].sees = Current' \/ {run'[v].sees, Current'} \subseteq touched'
              /\ run'[v].at = "drain" => run'[v].sees \in Vouched'
            BY <2>1, <3>2, <3>4 DEF OwnerInv, Vouched, Current
      <3>6. OwnerTypes' /\ (mailGate'.ok => <<mailGate'.print, taught'>> \in Vouched')
            BY <1>0, <2>1, <3>2 DEF OwnerInv, OwnerTypes, Vouched
      <3>7. 0 \notin holder'
            BY <1>0, <2>2
      <3> QED BY <3>5, <3>6, <3>7 DEF OwnerInv
    <2>3. CASE holder' = holder /\ Owner!Ends(w, FALSE)
          BY <1>0, <2>1, <2>3, OwnerEnds, OwnerQuiet DEF OwnerInv
    <2> QED BY <1>8, <2>2, <2>3 DEF Owner!Drain, Owner!TakesLockIf
  <1>9. CASE Owner!Drained(w) \/ Owner!Reconciled(w)
    <2>1. /\ UNCHANGED <<files, taught, mailGate, tested, touched>> /\ holder' = {}
          /\ \E well \in BOOLEAN : Owner!Ends(w, well)
          BY <1>9 DEF Owner!Drained, Owner!Reconciled, Owner!history
    <2> QED BY <1>0, <2>1, OwnerEnds, OwnerQuiet DEF OwnerInv
  <1>10. CASE Owner!Reconcile(w)
    <2>1. UNCHANGED <<files, taught, mailGate, tested, touched>>
          BY <1>10 DEF Owner!Reconcile, Owner!history
    <2>2. CASE holder' = {w} /\ Owner!Goes(w, "indexing", <<>>)
          BY <1>0, <2>1, <2>2, OwnerSets, OwnerQuiet DEF OwnerInv
    <2>3. CASE holder' = holder /\ Owner!Ends(w, FALSE)
          BY <1>0, <2>1, <2>3, OwnerEnds, OwnerQuiet DEF OwnerInv
    <2> QED BY <1>10, <2>2, <2>3 DEF Owner!Reconcile
  <1> QED BY <1>1, <1>2, <1>3, <1>4, <1>5, <1>6, <1>7, <1>8, <1>9, <1>10 DEF Owner!Work

LEMMA OwnerSteps == OwnerInv /\ [Owner!Next]_ownerVars => OwnerInv'
  <1> SUFFICES ASSUME OwnerInv, [Owner!Next]_ownerVars PROVE OwnerInv'
      OBVIOUS
  <1>0. OwnerTypes /\ Current \in Looks /\ <<>> \in Looks
        BY DEF OwnerInv, OwnerTypes, Current, Looks
  <1>1. ASSUME NEW w \in MailWorkers, Owner!Work(w) PROVE OwnerInv'
        BY <1>1, OwnerWorks
  <1>2. ASSUME NEW w \in MailWorkers, Owner!Abandoned(w) PROVE OwnerInv'
    <2>1. Owner!Idle \in Runs /\ Owner!Idle.at = "idle"
          BY DEF Owner!Idle, Runs, Looks
    <2>2. UNCHANGED <<files, taught, mailGate, tested, touched, holder>> /\ w # 0
          BY <1>2, OperationsAssumption DEF Owner!Abandoned, Owner!history, OperationsAssumption
    <2>3. run' = run \/ run' = [run EXCEPT ![w] = Owner!Idle]
          BY <1>2 DEF Owner!Abandoned
    <2>4. /\ run' \in [MailWorkers \cup {0} -> Runs]
          /\ \A v \in MailWorkers \cup {0} : run'[v] = run[v] \/ (v = w /\ run'[v].at = "idle")
          BY <1>0, <2>1, <2>3 DEF OwnerTypes
    <2> QED BY <2>2, <2>4, OwnerQuiet DEF OwnerInv
  <1>3. CASE Owner!OperatorEnds
    <2>1. Owner!Idle \in Runs /\ Owner!Idle.at = "idle"
          BY DEF Owner!Idle, Runs, Looks
    <2>2. /\ UNCHANGED <<files, taught, touched>> /\ holder' = {} /\ run[0].at = "testing"
          /\ run' = [run EXCEPT ![0] = Owner!Idle]
          BY <1>3 DEF Owner!OperatorEnds, Owner!Operator, OwnerInv
    <2>3. /\ run' \in [MailWorkers \cup {0} -> Runs] /\ run'[0].at = "idle"
          /\ \A v \in MailWorkers \cup {0} : v # 0 => run'[v] = run[v]
          BY <1>0, <2>1, <2>2 DEF OwnerTypes
    <2>4. CASE UNCHANGED <<mailGate, tested>>
          BY <2>2, <2>3, <2>4, OwnerQuiet
    <2>5. CASE Owner!Recorded(TRUE, 0)
      <3>1. /\ mailGate' = [at |-> mailGate.at + 1, ok |-> TRUE, print |-> files]
            /\ tested' = tested \cup {run[0].sees}
            BY <2>5 DEF Owner!Recorded
      <3>2. mailGate' \in Gates /\ Current \in Vouched'
            BY <1>0, <2>2, <3>1 DEF OwnerInv, OwnerTypes, Gates, Vouched
      <3> QED BY <2>2, <2>3, <3>1, <3>2 DEF OwnerInv, OwnerTypes, Vouched, Current
    <2> QED BY <1>3, <2>4, <2>5 DEF Owner!OperatorEnds, Owner!Operator
  <1>4. CASE Owner!ChecksRecover \/ Owner!HalfHour \/ Owner!ChecksFail \/ UNCHANGED ownerVars
    <2>1. UNCHANGED <<files, taught, mailGate, tested, touched, holder, run>>
          BY <1>4 DEF Owner!ChecksRecover, Owner!HalfHour, Owner!ChecksFail, Owner!history, ownerVars
    <2> QED BY <2>1 DEF OwnerInv, OwnerTypes, Vouched, Current
  <1>5. CASE Owner!Stopped
    <2>1. Owner!Idle \in Runs /\ Owner!Idle.at = "idle"
          BY DEF Owner!Idle, Runs, Looks
    <2>2. /\ UNCHANGED <<files, taught, mailGate, tested, touched>> /\ holder' = holder \cap {0}
          /\ run' = [w \in DOMAIN run |-> IF w = 0 THEN run[w] ELSE Owner!Idle]
          BY <1>5 DEF Owner!Stopped, Owner!history, Owner!Operator
    <2>3. /\ run' \in [MailWorkers \cup {0} -> Runs] /\ run'[0] = run[0]
          /\ \A v \in MailWorkers \cup {0} : v # 0 => run'[v].at = "idle"
          BY <1>0, <2>1, <2>2 DEF OwnerTypes
    <2> QED BY <2>2, <2>3, OwnerQuiet DEF OwnerInv
  <1>6. CASE Owner!OperatorStarts
    <2>1. UNCHANGED <<files, taught, mailGate, tested, touched>> /\ Owner!Goes(0, "testing", Current)
          BY <1>6 DEF Owner!OperatorStarts, Owner!history, Owner!Operator, Owner!Setup, Current
    <2> QED BY <1>0, <2>1, OwnerSets, OwnerQuiet
  <1>7. ASSUME Owner!Teach \/ \E s \in Setups : Owner!Edit(s) PROVE OwnerInv'
    <2>1. /\ files' \in Setups /\ taught' \in Nat /\ mailGate' \in Gates
          /\ mailGate'.ok => mailGate' = mailGate /\ taught' = taught
          /\ UNCHANGED <<run, holder, tested>>
      <3>1. ASSUME NEW s \in Setups, Owner!Edit(s)
            PROVE  files' \in Setups /\ taught' = taught /\ mailGate' = mailGate /\ UNCHANGED <<run, holder, tested>>
            BY <3>1 DEF Owner!Edit, Owner!Edited
      <3>2. ASSUME Owner!Teach
            PROVE  /\ files' = files /\ taught' \in Nat /\ mailGate' \in Gates /\ mailGate'.ok = FALSE
                   /\ UNCHANGED <<run, holder, tested>>
        <4>1. /\ mailGate' = [mailGate EXCEPT !.ok = FALSE] /\ files' = files /\ taught' = taught + 1
              /\ UNCHANGED <<run, holder, tested>>
              BY <3>2 DEF Owner!Teach, Owner!Edited
        <4>2. mailGate' \in Gates /\ mailGate'.ok = FALSE
              BY <1>0, <4>1 DEF OwnerTypes, Gates
        <4>3. taught' \in Nat
              BY <1>0, <4>1 DEF OwnerTypes
        <4> QED BY <4>1, <4>2, <4>3
      <3> QED BY <1>0, <1>7, <3>1, <3>2 DEF OwnerTypes
    <2>2. touched' = IF Owner!Relying = {} THEN touched
                     ELSE touched \cup {run[w].sees : w \in Owner!Relying} \cup {<<files', taught'>>}
          BY <1>7 DEF Owner!Teach, Owner!Edit, Owner!Edited
    <2>3. \A w \in MailWorkers \cup {0} : run[w].at \in {"testing", "load"} <=> w \in Owner!Relying
          BY <1>0 DEF OwnerTypes, Owner!Relying, Owner!At
    <2> QED BY <2>1, <2>2, <2>3 DEF OwnerInv, OwnerTypes, Vouched, Current
  <1> QED BY <1>1, <1>2, <1>3, <1>4, <1>5, <1>6, <1>7 DEF Owner!Next, Owner!World
-----------------------------------------------------------------------------
(* One component per behaviour *)

Turns == {"control", "owner", "deploy", "migrate", "tools", "register"}

LEMMA OneTurn ==
    ASSUME [AllNext]_allVars
    PROVE  /\ turn' = turn
           /\ turn = "owner" => [Owner!Next]_ownerVars
           /\ turn = "deploy" => [Deploy!Next]_deployVars
           /\ turn = "migrate" => [Migration!Next]_migrateVars
           /\ turn = "tools" => [Tools!Next]_toolsVars
           /\ turn = "sync" => [Sync!Next]_syncVars
  <1>1. CASE UNCHANGED allVars
        BY <1>1 DEF allVars
  <1>2. CASE ControlStep
        BY <1>2 DEF ControlStep
  <1>3. CASE OwnerStep
        BY <1>3 DEF OwnerStep
  <1>4. CASE DeployStep
        BY <1>4 DEF DeployStep
  <1>5. CASE MigrationStep
        BY <1>5 DEF MigrationStep
  <1>6. CASE ToolsStep
        BY <1>6 DEF ToolsStep
  <1>7. CASE RegisterStep
        BY <1>7 DEF RegisterStep
  <1>8. CASE SyncStep
        BY <1>8 DEF SyncStep
  <1> QED BY <1>1, <1>2, <1>3, <1>4, <1>5, <1>6, <1>7, <1>8 DEF AllNext

\* The productive run of the mail job works with what a dry run worked with.
THEOREM TestedDrains == AllSpec => []DrainsAreTested
  <1> DEFINE I == turn = "owner" => OwnerInv
  <1>1. AllInit => I
        BY OwnerStarts DEF AllInit
  <1>2. I /\ [AllNext]_allVars => I'
        BY OneTurn, OwnerSteps
  <1>3. I => DrainsAreTested
    <2>1. OwnerInv => Owner!DrainsAreTested
          BY DEF OwnerInv, OwnerTypes, Vouched, Owner!DrainsAreTested, Owner!At
    <2> QED BY <2>1 DEF DrainsAreTested
  <1> QED BY <1>1, <1>2, <1>3, PTL DEF AllSpec

-----------------------------------------------------------------------------
(* StateMigration: however often it is cut off *)

Places == {"stopped", "plugins", "paths", "index", "projects", "himalaya", "gateway", "credential", "proxy"}
Credentials == {"token", "password"} \X {"container", "systemd", "legacy", "openclaw.json", "new"}

Homes ==
    [paths : {"host", "container"}, plugins : {"host", "image"}, projects : SUBSET Projects,
     indexed : SUBSET Projects, command : [Migration!Accounts -> {"secret-tool", "cat", "none"}],
     mode : {"", "token", "password"}, proxy : {"host", "container"}]
Migrations == [step : Places, ok : BOOLEAN, runs : Nat]

MigrationTypes ==
    /\ home \in Homes
    /\ secrets \in [password : SUBSET Migration!Accounts, gateway : {<<>>} \cup {<<c>> : c \in Credentials}]
    /\ given \in [{"systemd", "legacy", "openclaw.json"} -> SUBSET {"token", "password"}]
    /\ migration \in Migrations

\* What is done before a step is done whenever the script is past it.
DoneBefore ==
    /\ migration.step \notin {"stopped", "plugins"} \/ migration.ok => home.plugins = "image"
    /\ migration.step \notin {"stopped", "plugins", "paths"} \/ migration.ok => home.paths = "container"
    /\ migration.step \notin {"stopped", "plugins", "paths", "index"} \/ migration.ok => home.indexed = {}
    /\ migration.step \in {"himalaya", "gateway", "credential", "proxy"} \/ migration.ok => home.projects = {}
    /\ migration.step = "proxy" \/ migration.ok => secrets.gateway # <<>>
    /\ migration.ok => migration.step = "stopped" /\ home.proxy = "container"

\* Some origin offers a credential of this mode.
Offers(mode) == \E i \in DOMAIN Migration!Origins : Migration!Compatible(Migration!Origins[i], mode) # {}

MigrationInv ==
    /\ MigrationTypes
    /\ Migration!NoLostSecret
    /\ DoneBefore
    /\ secrets.gateway # <<>> => secrets.gateway[1][1] = home.mode
    /\ Migration!CredentialKept
    /\ migration.step = "credential" => home.mode = "token" \/ (home.mode = "password" /\ Offers(home.mode))

LEMMA MigrationStarts == Migration!Init => MigrationInv
  <1> SUFFICES ASSUME Migration!Init PROVE MigrationInv
      OBVIOUS
  <1>1. home \in Homes
        BY DEF Migration!Init, Homes
  <1>2. /\ secrets = [password |-> {a \in Migration!Accounts : home.command[a] = "cat"}, gateway |-> <<>>]
        /\ migration = [step |-> "stopped", ok |-> FALSE, runs |-> 0]
        /\ given \in [{"systemd", "legacy", "openclaw.json"} -> SUBSET {"token", "password"}]
        BY DEF Migration!Init, Migration!Kinds
  <1>3. migration \in Migrations /\ migration.ok = FALSE /\ migration.step = "stopped"
        BY <1>2 DEF Migrations, Places
  <1>4. Migration!NoLostSecret
        BY <1>2 DEF Migration!NoLostSecret
  <1>5. /\ secrets \in [password : SUBSET Migration!Accounts, gateway : {<<>>} \cup {<<c>> : c \in Credentials}]
        /\ secrets.gateway = <<>>
        BY <1>2
  <1> QED BY <1>1, <1>2, <1>3, <1>4, <1>5
          DEF MigrationInv, MigrationTypes, DoneBefore, Migration!CredentialKept

\* Of an origin: a credential of the mode in force is one it was given or one the script wrote.
LEMMA OfferedIs ==
    ASSUME MigrationInv
    PROVE  /\ DOMAIN Migration!Origins = 1..4
           /\ Migration!Origins[1] = "container" /\ Migration!Origins[2] = "systemd"
           /\ Migration!Origins[3] = "legacy" /\ Migration!Origins[4] = "openclaw.json"
           /\ Migration!Offered("container") = (IF secrets.gateway = <<>> THEN {} ELSE {secrets.gateway[1][1]})
           /\ Migration!Offered("systemd") = given["systemd"]
           /\ Migration!Offered("legacy") = given["legacy"] \cup given["systemd"]
           /\ Migration!Offered("openclaw.json") = given["openclaw.json"]
  <1>1. CASE secrets.gateway = <<>>
        BY <1>1 DEF Migration!Offered, Migration!Origins
  <1>2. CASE secrets.gateway # <<>>
    <2>1. PICK c \in Credentials : secrets.gateway = <<c>>
          BY <1>2 DEF MigrationInv, MigrationTypes, Homes, Migrations
    <2>2. {d[1] : d \in {secrets.gateway[i] : i \in DOMAIN secrets.gateway}} = {c[1]}
      <3>1. DOMAIN secrets.gateway = {1} /\ secrets.gateway[1] = c
            BY <2>1
      <3>2. {secrets.gateway[i] : i \in DOMAIN secrets.gateway} = {c}
            BY <3>1
      <3> QED BY <3>2
    <2> QED BY <1>2, <2>1, <2>2 DEF Migration!Offered, Migration!Origins
  <1> QED BY <1>1, <1>2

LEMMA LeastOfFour ==
    ASSUME NEW S \in SUBSET (1..4), S # {}
    PROVE  \E i \in S : \A j \in S : i =< j
  <1>1. 1 \in S => \A j \in S : 1 =< j
        OBVIOUS
  <1>2. 1 \notin S /\ 2 \in S => \A j \in S : 2 =< j
        OBVIOUS
  <1>3. 1 \notin S /\ 2 \notin S /\ 3 \in S => \A j \in S : 3 =< j
        OBVIOUS
  <1>4. 1 \notin S /\ 2 \notin S /\ 3 \notin S => S = {4}
    <2>1. \A i \in 1..4 : i = 1 \/ i = 2 \/ i = 3 \/ i = 4
          OBVIOUS
    <2> QED BY <2>1
  <1> QED BY <1>1, <1>2, <1>3, <1>4

\* The mode a setup gets is the one it has, or one that some origin offers.
LEMMA ModeIs ==
    ASSUME MigrationInv, ~Migration!Refused(home.mode)
    PROVE  LET mode == Migration!Selected(home.mode)[1]
           IN /\ mode = "token" \/ (mode = "password" /\ Offers(mode))
              /\ home.mode # "" => mode = home.mode
  <1> DEFINE having == {i \in DOMAIN Migration!Origins : Migration!Compatible(Migration!Origins[i], home.mode) # {}}
             first == CHOOSE i \in having : \A j \in having : i =< j
             sort == CHOOSE k \in Migration!Compatible(Migration!Origins[first], home.mode) : TRUE
  <1>0. /\ home.mode \in {"", "token", "password"}
        /\ given \in [{"systemd", "legacy", "openclaw.json"} -> SUBSET {"token", "password"}]
        /\ secrets.gateway \in {<<>>} \cup {<<c>> : c \in Credentials}
        BY DEF MigrationInv, MigrationTypes, Homes, Migrations
  <1>1. CASE having = {}
    <2>1. Migration!Selected(home.mode) = <<"token", "new">>
          BY <1>1 DEF Migration!Selected
    <2>2. home.mode # "password"
          BY <1>1 DEF Migration!Refused
    <2>3. Migration!Selected(home.mode)[1] = "token"
          BY <2>1
    <2>4. home.mode \in {"", "token", "password"}
          BY <1>0
    <2> QED BY <2>2, <2>3, <2>4
  <1>2. CASE having # {}
    <2>1. having \subseteq 1..4
          BY OfferedIs
    <2>2. first \in having
      <3>1. \E i \in having : \A j \in having : i =< j
        <4> HIDE DEF having
        <4> QED BY <1>2, <2>1, LeastOfFour
      <3> HIDE DEF having
      <3> QED BY <3>1
    <2>3. first \in 1..4 /\ Migration!Compatible(Migration!Origins[first], home.mode) # {}
          BY <2>1, <2>2
    <2>4. sort \in Migration!Compatible(Migration!Origins[first], home.mode)
          BY <2>3
    <2>5. CASE first = 1
      <3>1. secrets.gateway # <<>> /\ Migration!Origins[first] = "container"
        <4>1. Migration!Origins[first] = "container"
              BY <2>5, OfferedIs
        <4>2. Migration!Offered("container") # {}
              BY <2>3, <4>1 DEF Migration!Compatible
        <4> QED BY <4>1, <4>2, OfferedIs
      <3>2. Migration!Selected(home.mode) = secrets.gateway[1]
            BY <1>2, <3>1 DEF Migration!Selected
      <3>3. secrets.gateway[1][1] \in {"token", "password"} /\ secrets.gateway[1][1] = home.mode
        <4>1. PICK c \in Credentials : secrets.gateway = <<c>>
              BY <1>0, <3>1
        <4>2. c[1] \in {"token", "password"} /\ secrets.gateway[1] = c
              BY <4>1 DEF Credentials
        <4>3. secrets.gateway[1][1] = home.mode
              BY <3>1 DEF MigrationInv
        <4> QED BY <4>2, <4>3
      <3>4. Offers(home.mode)
            BY <2>1, <2>2 DEF Offers
      <3> QED BY <3>2, <3>3, <3>4
    <2>6. CASE first # 1
      <3>1. Migration!Origins[first] \in {"systemd", "legacy", "openclaw.json"}
        <4>1. \A i \in 1..4 : i # 1 => Migration!Origins[i] \in {"systemd", "legacy", "openclaw.json"}
              BY OfferedIs
        <4> HIDE DEF first
        <4> QED BY <2>3, <2>6, <4>1
      <3>2. Migration!Selected(home.mode)[1] = sort
            BY <1>2, <3>1 DEF Migration!Selected
      <3>3. sort \in {"token", "password"} /\ (home.mode # "" => sort = home.mode)
        <4>1. Migration!Offered(Migration!Origins[first]) \subseteq {"token", "password"}
          <5>1. \A o \in {"systemd", "legacy", "openclaw.json"} :
                   Migration!Offered(o) \subseteq {"token", "password"}
                BY <1>0, OfferedIs
          <5> HIDE DEF first
          <5> QED BY <3>1, <5>1
        <4> HIDE DEF sort
        <4> QED BY <2>4, <4>1 DEF Migration!Compatible
      <3>4. Offers(sort)
        <4>1. sort \in Migration!Compatible(Migration!Origins[first], sort)
          <5> HIDE DEF sort
          <5> QED BY <2>4, <3>3 DEF Migration!Compatible
        <4> QED BY <2>3, <4>1, OfferedIs DEF Offers
      <3> HIDE DEF sort, first, having
      <3> QED BY <3>2, <3>3, <3>4
    <2> QED BY <2>5, <2>6
  <1> QED BY <1>1, <1>2

\* What the gateway keeps is new only where nobody had given it a credential of this mode.
LEMMA CredentialIs ==
    ASSUME MigrationInv, migration.step = "credential"
    PROVE  LET chosen == Migration!Selected(home.mode)
           IN /\ chosen \in Credentials
              /\ chosen[1] = home.mode
              /\ chosen[2] = "new" => \A o \in DOMAIN given : home.mode \notin given[o]
  <1> DEFINE having == {i \in DOMAIN Migration!Origins : Migration!Compatible(Migration!Origins[i], home.mode) # {}}
             first == CHOOSE i \in having : \A j \in having : i =< j
             sort == CHOOSE k \in Migration!Compatible(Migration!Origins[first], home.mode) : TRUE
             from == IF Migration!Origins[first] = "legacy" /\ home.mode \in given["systemd"] THEN "systemd"
                     ELSE Migration!Origins[first]
  <1>0. /\ home.mode \in {"token", "password"}
        /\ given \in [{"systemd", "legacy", "openclaw.json"} -> SUBSET {"token", "password"}]
        BY DEF MigrationInv, MigrationTypes, Homes, Migrations
  <1>1. CASE having = {}
    <2>1. Migration!Selected(home.mode) = <<"token", "new">>
          BY <1>1 DEF Migration!Selected
    <2>2. ~Offers(home.mode)
          BY <1>1 DEF Offers
    <2>3. home.mode = "token"
          BY <2>2 DEF MigrationInv
    <2>4. \A o \in {"systemd", "legacy", "openclaw.json"} : home.mode \notin given[o]
      <3>1. /\ Migration!Compatible("systemd", home.mode) = {} /\ Migration!Compatible("legacy", home.mode) = {}
            /\ Migration!Compatible("openclaw.json", home.mode) = {}
            BY <2>2, OfferedIs DEF Offers
      <3> QED BY <1>0, <3>1, OfferedIs DEF Migration!Compatible
    <2>5. DOMAIN given = {"systemd", "legacy", "openclaw.json"}
          BY <1>0
    <2>6. <<"token", "new">> \in Credentials
          BY DEF Credentials
    <2> QED BY <2>1, <2>3, <2>4, <2>5, <2>6
  <1>2. CASE having # {}
    <2>1. having \subseteq 1..4
          BY OfferedIs
    <2>2. first \in having
      <3>1. \E i \in having : \A j \in having : i =< j
        <4> HIDE DEF having
        <4> QED BY <1>2, <2>1, LeastOfFour
      <3> HIDE DEF having
      <3> QED BY <3>1
    <2>3. first \in 1..4 /\ Migration!Compatible(Migration!Origins[first], home.mode) # {}
          BY <2>1, <2>2
    <2>4. sort \in Migration!Compatible(Migration!Origins[first], home.mode)
          BY <2>3
    <2>5. CASE first = 1
      <3>1. Migration!Origins[first] = "container"
            BY <2>5, OfferedIs
      <3>2. home.mode \in Migration!Offered("container")
            BY <1>0, <2>3, <3>1 DEF Migration!Compatible
      <3>3. secrets.gateway # <<>> /\ secrets.gateway[1][1] = home.mode
            BY <3>2, OfferedIs
      <3>4. Migration!Selected(home.mode) = secrets.gateway[1]
            BY <1>2, <3>1 DEF Migration!Selected
      <3>5. secrets.gateway[1] \in Credentials
        <4>1. PICK c \in Credentials : secrets.gateway = <<c>>
              BY <3>3 DEF MigrationInv, MigrationTypes, Homes, Migrations
        <4>2. secrets.gateway[1] = c
              BY <4>1
        <4> QED BY <4>2
      <3> QED BY <3>3, <3>4, <3>5 DEF MigrationInv, Migration!CredentialKept
    <2>6. CASE first # 1
      <3>1. Migration!Origins[first] \in {"systemd", "legacy", "openclaw.json"}
        <4>1. \A i \in 1..4 : i # 1 => Migration!Origins[i] \in {"systemd", "legacy", "openclaw.json"}
              BY OfferedIs
        <4> HIDE DEF first
        <4> QED BY <2>3, <2>6, <4>1
      <3>2. Migration!Selected(home.mode) = <<sort, from>>
            BY <1>2, <3>1 DEF Migration!Selected
      <3>3. sort = home.mode
        <4> HIDE DEF sort
        <4> QED BY <1>0, <2>4 DEF Migration!Compatible
      <3>4. from \in {"systemd", "legacy", "openclaw.json"}
        <4> HIDE DEF first
        <4> QED BY <3>1
      <3> HIDE DEF sort, from, first, having
      <3>5. <<sort, from>> \in Credentials
            BY <1>0, <3>3, <3>4 DEF Credentials
      <3>6. from # "new"
            BY <3>4
      <3>7. /\ Migration!Selected(home.mode)[1] = home.mode /\ Migration!Selected(home.mode)[2] = from
            BY <3>2, <3>3
      <3> QED BY <3>2, <3>5, <3>6, <3>7
    <2> QED BY <2>5, <2>6
  <1> QED BY <1>1, <1>2

\* A step that changes neither the mode nor the credential of the gateway.
LEMMA MigrationWorks ==
    ASSUME MigrationInv, UNCHANGED given, secrets'.gateway = secrets.gateway, home'.mode = home.mode,
           home' \in Homes, migration' \in Migrations, migration'.step # "credential",
           secrets' \in [password : SUBSET Migration!Accounts, gateway : {<<>>} \cup {<<c>> : c \in Credentials}],
           Migration!NoLostSecret', DoneBefore'
    PROVE  MigrationInv'
  BY DEF MigrationInv, MigrationTypes, Migration!CredentialKept

LEMMA MigrationSteps == MigrationInv /\ [Migration!Next]_migrateVars => MigrationInv'
  <1> SUFFICES ASSUME MigrationInv, [Migration!Next]_migrateVars PROVE MigrationInv'
      OBVIOUS
  <1>0. /\ migration \in Migrations /\ home \in Homes
        /\ secrets \in [password : SUBSET Migration!Accounts, gateway : {<<>>} \cup {<<c>> : c \in Credentials}]
        /\ Migration!NoLostSecret /\ DoneBefore
        /\ given \in [{"systemd", "legacy", "openclaw.json"} -> SUBSET {"token", "password"}]
        BY DEF MigrationInv, MigrationTypes
  <1>a. ASSUME NEW place \in Places, migration' = [migration EXCEPT !.step = place]
        PROVE  migration' \in Migrations /\ migration'.step = place /\ migration'.ok = migration.ok
        BY <1>0, <1>a DEF Migrations
  <1>b. ASSUME NEW place \in Places, migration' = [migration EXCEPT !.step = place],
               migration.step # "stopped", place \in {"stopped", "himalaya"},
               place = "himalaya" => migration.step = "projects" /\ home.projects = {},
               UNCHANGED <<home, secrets, given>>
        PROVE  MigrationInv'
    <2>1. migration' \in Migrations /\ migration'.step = place /\ migration'.ok = migration.ok
          BY <1>a, <1>b
    <2>2. migration.ok = FALSE
          BY <1>0, <1>b DEF DoneBefore, Migrations
    <2>3. DoneBefore'
          BY <1>0, <1>b, <2>1, <2>2 DEF DoneBefore
    <2>4. Migration!NoLostSecret'
          BY <1>0, <1>b DEF Migration!NoLostSecret
    <2> QED BY <1>0, <1>b, <2>1, <2>3, <2>4, MigrationWorks
  <1>1. CASE Migration!Start
    <2>1. /\ UNCHANGED <<home, secrets, given>>
          /\ migration' = [step |-> "plugins", ok |-> FALSE, runs |-> migration.runs + 1]
          BY <1>1 DEF Migration!Start
    <2>2. /\ migration' \in Migrations
          /\ migration'.ok = FALSE /\ migration'.step = "plugins"
          BY <1>0, <2>1 DEF Places, Migrations
    <2>3. DoneBefore'
          BY <2>2 DEF DoneBefore
    <2>4. Migration!NoLostSecret'
          BY <1>0, <2>1 DEF Migration!NoLostSecret
    <2> QED BY <1>0, <2>1, <2>2, <2>3, <2>4, MigrationWorks
  <1>2. CASE Migration!Plugins
    <2>1. /\ migration.step = "plugins" /\ migration' = [migration EXCEPT !.step = "paths"]
          /\ home' = [home EXCEPT !.plugins = "image"] /\ UNCHANGED <<secrets, given>>
          BY <1>2 DEF Migration!Plugins, Migration!At, Migration!Goto
    <2>2. home' \in Homes /\ home' = [home EXCEPT !.plugins = home'.plugins] /\ home'.plugins = "image"
          BY <1>0, <2>1 DEF Homes
    <2>3. migration' \in Migrations /\ migration'.step = "paths" /\ migration'.ok = migration.ok
          BY <1>a, <2>1 DEF Places
    <2>4. home'.mode = home.mode /\ home'.command = home.command
          BY <1>0, <2>1 DEF Homes
    <2>5. DoneBefore'
          BY <1>0, <2>1, <2>2, <2>3 DEF DoneBefore
    <2>6. Migration!NoLostSecret'
          BY <1>0, <2>1, <2>4 DEF Migration!NoLostSecret
    <2> QED BY <1>0, <2>1, <2>2, <2>3, <2>4, <2>5, <2>6, MigrationWorks
  <1>3. CASE Migration!Paths
    <2>1. /\ migration.step = "paths" /\ migration' = [migration EXCEPT !.step = "index"]
          /\ home' = [home EXCEPT !.paths = "container"] /\ UNCHANGED <<secrets, given>>
          BY <1>3 DEF Migration!Paths, Migration!At, Migration!Goto
    <2>2. /\ home' \in Homes /\ home'.paths = "container" /\ home'.plugins = home.plugins
          /\ home'.mode = home.mode /\ home'.command = home.command
          BY <1>0, <2>1 DEF Homes
    <2>3. migration' \in Migrations /\ migration'.step = "index" /\ migration'.ok = migration.ok
          BY <1>a, <2>1 DEF Places
    <2>4. DoneBefore'
          BY <1>0, <2>1, <2>2, <2>3 DEF DoneBefore
    <2>5. Migration!NoLostSecret'
          BY <1>0, <2>1, <2>2 DEF Migration!NoLostSecret
    <2> QED BY <1>0, <2>1, <2>2, <2>3, <2>4, <2>5, MigrationWorks
  <1>4. CASE Migration!Index
    <2>1. CASE migration' = [migration EXCEPT !.step = "stopped"] /\ UNCHANGED home
          BY <1>4, <1>b, <2>1 DEF Migration!Index, Migration!At, Places
    <2>2. CASE home' = [home EXCEPT !.indexed = {}] /\ migration' = [migration EXCEPT !.step = "projects"]
      <3>1. migration.step = "index" /\ UNCHANGED <<secrets, given>>
            BY <1>4 DEF Migration!Index, Migration!At
      <3>2. /\ home' \in Homes /\ home'.indexed = {} /\ home'.plugins = home.plugins /\ home'.paths = home.paths
            /\ home'.mode = home.mode /\ home'.command = home.command
            BY <1>0, <2>2 DEF Homes
      <3>3. migration' \in Migrations /\ migration'.step = "projects" /\ migration'.ok = migration.ok
            BY <1>a, <2>2 DEF Places
      <3>4. DoneBefore'
            BY <1>0, <3>1, <3>2, <3>3 DEF DoneBefore
      <3>5. Migration!NoLostSecret'
            BY <1>0, <3>1, <3>2 DEF Migration!NoLostSecret
      <3> QED BY <1>0, <3>1, <3>2, <3>3, <3>4, <3>5, MigrationWorks
    <2> QED BY <1>4, <2>1, <2>2 DEF Migration!Index, Migration!Fail, Migration!Goto
  <1>5. CASE Migration!RemoveProject
    <2>1. CASE home.projects = {}
          BY <1>5, <1>b, <2>1 DEF Migration!RemoveProject, Migration!At, Migration!Goto, Places
    <2>2. CASE home.projects # {}
      <3>1. PICK p \in home.projects : home' = [home EXCEPT !.projects = @ \ {p}]
            BY <1>5, <2>2 DEF Migration!RemoveProject
      <3>2. migration.step = "projects" /\ UNCHANGED <<secrets, given, migration>>
            BY <1>5, <2>2 DEF Migration!RemoveProject, Migration!At
      <3>3. /\ home' \in Homes /\ home'.indexed = home.indexed /\ home'.plugins = home.plugins
            /\ home'.paths = home.paths /\ home'.mode = home.mode /\ home'.command = home.command
            BY <1>0, <3>1 DEF Homes
      <3>4. DoneBefore'
            BY <1>0, <3>2, <3>3 DEF DoneBefore
      <3>5. Migration!NoLostSecret'
            BY <1>0, <3>2, <3>3 DEF Migration!NoLostSecret
      <3> QED BY <1>0, <3>2, <3>3, <3>4, <3>5, MigrationWorks
    <2> QED BY <2>1, <2>2
  <1>6. CASE Migration!ExtractSecret
    <2>1. migration.step = "himalaya" /\ UNCHANGED <<home, given>>
          BY <1>6 DEF Migration!ExtractSecret, Migration!At
    <2>2. CASE migration' = [migration EXCEPT !.step = "stopped"] /\ UNCHANGED secrets
          BY <1>b, <2>1, <2>2 DEF Places
    <2>3. ASSUME NEW a \in Migration!Asking, secrets' = [secrets EXCEPT !.password = @ \cup {a}], UNCHANGED migration
          PROVE  MigrationInv'
      <3>1. /\ secrets' \in [password : SUBSET Migration!Accounts, gateway : {<<>>} \cup {<<c>> : c \in Credentials}]
            /\ secrets'.gateway = secrets.gateway /\ secrets'.password = secrets.password \cup {a}
            BY <1>0, <2>3 DEF Migration!Asking
      <3>2. DoneBefore'
            BY <1>0, <2>1, <2>3, <3>1 DEF DoneBefore
      <3>3. Migration!NoLostSecret'
            BY <1>0, <2>1, <3>1 DEF Migration!NoLostSecret
      <3> QED BY <1>0, <2>1, <2>3, <3>1, <3>2, <3>3, MigrationWorks
    <2> QED BY <1>6, <2>2, <2>3 DEF Migration!ExtractSecret, Migration!Fail
  <1>7. CASE Migration!Himalaya
    <2>1. /\ migration.step = "himalaya" /\ migration' = [migration EXCEPT !.step = "gateway"]
          /\ Migration!Asking \subseteq secrets.password /\ UNCHANGED <<secrets, given>>
          /\ home' = [home EXCEPT !.command =
                         [a \in Migration!Accounts |-> IF a \in Migration!Asking THEN "cat" ELSE @[a]]]
          BY <1>7 DEF Migration!Himalaya, Migration!At, Migration!Goto, Migration!HaveSecrets
    <2>2. /\ home' \in Homes /\ home'.indexed = home.indexed /\ home'.plugins = home.plugins
          /\ home'.paths = home.paths /\ home'.mode = home.mode /\ home'.projects = home.projects
          /\ \A a \in Migration!Accounts :
               home'.command[a] = IF a \in Migration!Asking THEN "cat" ELSE home.command[a]
          BY <1>0, <2>1 DEF Homes
    <2>3. migration' \in Migrations /\ migration'.step = "gateway" /\ migration'.ok = migration.ok
          BY <1>a, <2>1 DEF Places
    <2>4. DoneBefore'
          BY <1>0, <2>1, <2>2, <2>3 DEF DoneBefore
    <2>5. Migration!NoLostSecret'
          BY <1>0, <2>1, <2>2 DEF Migration!NoLostSecret
    <2> QED BY <1>0, <2>1, <2>2, <2>3, <2>4, <2>5, MigrationWorks
  <1>8. CASE Migration!GatewayMode
    <2>1. migration.step = "gateway" /\ UNCHANGED <<secrets, given>>
          BY <1>8 DEF Migration!GatewayMode, Migration!At
    <2>2. CASE Migration!Refused(home.mode)
          BY <1>8, <1>b, <2>1, <2>2 DEF Migration!GatewayMode, Migration!Fail, Places
    <2>3. CASE ~Migration!Refused(home.mode)
      <3>1. PICK mode : mode = Migration!Selected(home.mode)[1]
            OBVIOUS
      <3>2. home' = [home EXCEPT !.mode = mode] /\ migration' = [migration EXCEPT !.step = "credential"]
            BY <1>8, <2>3, <3>1 DEF Migration!GatewayMode, Migration!Goto
      <3>3. /\ mode = "token" \/ (mode = "password" /\ Offers(mode))
            /\ home.mode # "" => mode = home.mode
            BY <2>3, <3>1, ModeIs
      <3>4. /\ home' \in Homes /\ home'.indexed = home.indexed /\ home'.plugins = home.plugins
            /\ home'.paths = home.paths /\ home'.mode = mode /\ home'.projects = home.projects
            /\ home'.command = home.command
            BY <1>0, <3>2, <3>3 DEF Homes
      <3>5. migration' \in Migrations /\ migration'.step = "credential" /\ migration'.ok = migration.ok
            BY <1>a, <3>2 DEF Places
      <3>6. DoneBefore'
            BY <1>0, <2>1, <3>4, <3>5 DEF DoneBefore
      <3>7. Migration!NoLostSecret'
            BY <1>0, <2>1, <3>4 DEF Migration!NoLostSecret
      <3>8. secrets.gateway # <<>> => home.mode = secrets.gateway[1][1] /\ home.mode # ""
        <4>1. ASSUME secrets.gateway # <<>> PROVE home.mode = secrets.gateway[1][1] /\ home.mode # ""
          <5>1. PICK c \in Credentials : secrets.gateway = <<c>>
                BY <1>0, <4>1
          <5>2. secrets.gateway[1] = c
                BY <5>1
          <5>3. c[1] # ""
                BY <5>1 DEF Credentials
          <5> QED BY <4>1, <5>2, <5>3 DEF MigrationInv
        <4> QED BY <4>1
      <3>9. secrets.gateway # <<>> => mode = home.mode
            BY <3>3, <3>8
      <3>10. Offers(mode)' <=> Offers(mode)
            BY <2>1 DEF Offers, Migration!Compatible, Migration!Offered, Migration!Origins
      <3> QED BY <1>0, <2>1, <3>3, <3>4, <3>5, <3>6, <3>7, <3>9, <3>10
              DEF MigrationInv, MigrationTypes, Migration!CredentialKept
    <2> QED BY <2>2, <2>3
  <1>9. CASE Migration!GatewayCredential
    <2>1. PICK chosen : chosen = Migration!Selected(home.mode)
          OBVIOUS
    <2>2. /\ migration.step = "credential" /\ migration' = [migration EXCEPT !.step = "proxy"]
          /\ secrets' = [secrets EXCEPT !.gateway = <<chosen>>] /\ UNCHANGED <<home, given>>
          BY <1>9, <2>1 DEF Migration!GatewayCredential, Migration!At, Migration!Goto
    <2>3. /\ chosen \in Credentials /\ chosen[1] = home.mode
          /\ chosen[2] = "new" => \A o \in DOMAIN given : home.mode \notin given[o]
          BY <2>1, <2>2, CredentialIs
    <2>4. secrets'.gateway = <<chosen>> /\ secrets'.password = secrets.password
          BY <1>0, <2>2
    <2>5. secrets' \in [password : SUBSET Migration!Accounts, gateway : {<<>>} \cup {<<c>> : c \in Credentials}]
          BY <1>0, <2>2, <2>3
    <2>6. migration' \in Migrations /\ migration'.step = "proxy" /\ migration'.ok = migration.ok
          BY <1>a, <2>2 DEF Places
    <2>7. DoneBefore'
          BY <1>0, <2>2, <2>4, <2>6 DEF DoneBefore
    <2>8. Migration!NoLostSecret'
          BY <1>0, <2>2, <2>4 DEF Migration!NoLostSecret
    <2>9. secrets'.gateway[1] = chosen
          BY <2>4
    <2> QED BY <1>0, <2>2, <2>3, <2>5, <2>6, <2>7, <2>8, <2>9 DEF MigrationInv, MigrationTypes, Migration!CredentialKept
  <1>10. CASE Migration!Proxy
    <2>1. /\ migration.step = "proxy" /\ migration' = [migration EXCEPT !.step = "stopped", !.ok = TRUE]
          /\ home' = [home EXCEPT !.proxy = "container"] /\ UNCHANGED <<secrets, given>>
          BY <1>10 DEF Migration!Proxy, Migration!At
    <2>2. /\ home' \in Homes /\ home'.indexed = home.indexed /\ home'.plugins = home.plugins
          /\ home'.paths = home.paths /\ home'.mode = home.mode /\ home'.projects = home.projects
          /\ home'.command = home.command /\ home'.proxy = "container"
          BY <1>0, <2>1 DEF Homes
    <2>3. migration' \in Migrations /\ migration'.step = "stopped"
          BY <1>0, <2>1 DEF Migrations, Places
    <2>4. DoneBefore'
          BY <1>0, <2>1, <2>2, <2>3 DEF DoneBefore
    <2>5. Migration!NoLostSecret'
          BY <1>0, <2>1, <2>2 DEF Migration!NoLostSecret
    <2> QED BY <1>0, <2>1, <2>2, <2>3, <2>4, <2>5, MigrationWorks
  <1>11. CASE Migration!Killed
        BY <1>11, <1>b DEF Migration!Killed, Migration!Fail, Migration!At, Places
  <1>12. CASE UNCHANGED migrateVars
    <2>1. UNCHANGED <<home, secrets, given, migration>>
          BY <1>12 DEF migrateVars
    <2>2. Offers(home.mode)' <=> Offers(home.mode)
          BY <2>1 DEF Offers, Migration!Compatible, Migration!Offered, Migration!Origins
    <2>3. MigrationTypes' /\ DoneBefore'
          BY <1>0, <2>1 DEF MigrationTypes, DoneBefore
    <2>4. Migration!CredentialKept' /\ Migration!NoLostSecret'
          BY <2>1 DEF MigrationInv, Migration!CredentialKept, Migration!NoLostSecret
    <2> QED BY <2>1, <2>2, <2>3, <2>4 DEF MigrationInv
  <1> QED BY <1>1, <1>2, <1>3, <1>4, <1>5, <1>6, <1>7, <1>8, <1>9, <1>10, <1>11, <1>12 DEF Migration!Next
-----------------------------------------------------------------------------
(* Deployment: one writer, a sound profile, a backup that fits *)

Contents == {"generated", "legacy", "edited"}
States == [data : Nat, layout : {0, 2, 3}, profile : [Deploy!Profile -> Contents], junk : BOOLEAN,
           config : Nat, secrets : Nat]
Sound == {s \in States : s.profile["setup"] = "legacy" => s.profile["identity"] # "generated"}
Backups == [state : Sound, image : Images \cup {0, 1}, runtime : {"legacy", "docker"}]
Environments == [image : Images \cup {0, 1}, runtime : {"legacy", "docker"}]
ScriptPlaces == {"none", "backup", "state", "config", "secrets", "ready", "gateway", "smoke", "workers", "done", "failed"}
Scripts == [name : {"none", "migrate", "undo", "deploy", "rollback"}, at : ScriptPlaces,
            image : Images \cup {0, 1}, runtime : {"none", "legacy", "docker"}, target : Images \cup {0, 1},
            auto : BOOLEAN, back : {Deploy!NoBackup} \cup Backups]

DeployTypes ==
    /\ units \in BOOLEAN /\ up \in SUBSET {"gateway", "workers"} /\ slipped \in BOOLEAN
    /\ env \in Environments
    /\ state \in Sound /\ init \in {"none", "snapshot", "stage", "promote"}
    /\ backup \in {Deploy!NoBackup} \cup Backups /\ script \in Scripts
    /\ volume \in Nat /\ writes \in Nat /\ faults \in Nat

\* A script and layout-init have the units off, and never run both; what takes the
\* containers down, and a deployment from the units, finds no worker, unless a rollback
\* could not stop it.
OneWriter ==
    /\ Deploy!OneRuntime
    /\ script.name # "none" \/ init # "none" => ~units
    /\ init # "none" => script.name = "none"
    /\ script.name \in {"migrate", "undo"} => up = {}
    /\ script.name = "rollback" => up = {} \/ slipped
    /\ script.name = "deploy" /\ script.at = "backup" /\ env.runtime = "legacy" => "workers" \notin up

\* A script that is past the backup goes back to it; a rollback that could stop the
\* containers has put back the directories it is past.
BackupFits ==
    /\ script.name = "deploy" /\ script.at # "backup" => backup # Deploy!NoBackup
    /\ script.name = "migrate" /\ script.at # "backup" => script.back \in Backups
    /\ script.name = "undo" => script.back \in Backups /\ script.runtime \in {"legacy", "docker"}
    /\ script.name = "migrate" => script.runtime \in {"legacy", "docker"}
    /\ script.name = "rollback" => backup # Deploy!NoBackup /\ script.back = backup
    /\ script.name = "rollback" /\ ~slipped /\ script.at \in {"config", "secrets", "ready"} =>
         state = [backup.state EXCEPT !.config = state.config, !.secrets = state.secrets]
    /\ script.name = "rollback" /\ ~slipped /\ script.at \in {"secrets", "ready"} => state.config = backup.state.config
    /\ script.name = "rollback" /\ ~slipped /\ script.at = "ready" => state.secrets = backup.state.secrets

DeployInv == DeployTypes /\ OneWriter /\ BackupFits

LEMMA NoneIsNoBackup == Deploy!NoBackup \notin Backups /\ Deploy!NoScript \in Scripts
                        /\ Deploy!NoScript.name = "none"
  <1>1. Deploy!NoBackup.runtime = "none"
        BY DEF Deploy!NoBackup
  <1>2. \A b \in Backups : b.runtime # "none"
        BY DEF Backups
  <1>3. Deploy!NoScript \in Scripts /\ Deploy!NoScript.name = "none"
        BY DEF Deploy!NoScript, Scripts, ScriptPlaces
  <1> QED BY <1>1, <1>2, <1>3

LEMMA StateSets ==
    ASSUME NEW s \in Sound
    PROVE  /\ \A n \in Nat : [s EXCEPT !.data = n] \in Sound
           /\ \A n \in Nat : [s EXCEPT !.config = n] \in Sound /\ [s EXCEPT !.secrets = n] \in Sound
           /\ \A l \in {0, 2, 3} : [s EXCEPT !.layout = l] \in Sound
           /\ \A b \in BOOLEAN : [s EXCEPT !.junk = b] \in Sound
           /\ [s EXCEPT !.junk = FALSE, !.layout = 3] \in Sound
           /\ \A f \in Deploy!Profile :
                /\ [s EXCEPT !.profile[f] = "edited"] \in Sound
                /\ s.profile["setup"] = "generated" /\ (f = "setup" => s.profile["identity"] = "legacy") =>
                     [s EXCEPT !.profile[f] = "legacy"] \in Sound
           /\ s.config \in Nat /\ s.secrets \in Nat
  <1>1. \A n \in Nat : [s EXCEPT !.data = n] \in Sound
        BY DEF Sound, States
  <1>2. \A l \in {0, 2, 3} : [s EXCEPT !.layout = l] \in Sound
        BY DEF Sound, States
  <1>3. \A b \in BOOLEAN : [s EXCEPT !.junk = b] \in Sound
        BY DEF Sound, States
  <1>4. [s EXCEPT !.junk = FALSE, !.layout = 3] \in Sound
        BY DEF Sound, States
  <1>5. ASSUME NEW f \in Deploy!Profile
        PROVE  /\ [s EXCEPT !.profile[f] = "edited"] \in Sound
               /\ s.profile["setup"] = "generated" /\ (f = "setup" => s.profile["identity"] = "legacy") =>
                    [s EXCEPT !.profile[f] = "legacy"] \in Sound
        BY DEF Sound, States, Deploy!Profile, Contents
  <1>6. \A n \in Nat : [s EXCEPT !.config = n] \in Sound /\ [s EXCEPT !.secrets = n] \in Sound
        BY DEF Sound, States
  <1>7. s.config \in Nat /\ s.secrets \in Nat
        BY DEF Sound, States
  <1> QED BY <1>1, <1>2, <1>3, <1>4, <1>5, <1>6, <1>7

\* One directory copied over the present installation.
LEMMA CopiedIsSound ==
    ASSUME state \in Sound, NEW s \in Sound, NEW d \in Deploy!Directories
    PROVE  /\ Deploy!Copied(d, s) \in Sound
           /\ d = "state" => Deploy!Copied(d, s) = [s EXCEPT !.config = state.config, !.secrets = state.secrets]
           /\ d = "config" => Deploy!Copied(d, s) = [state EXCEPT !.config = s.config]
           /\ d = "secrets" => Deploy!Copied(d, s) = [state EXCEPT !.secrets = s.secrets]
  <1>1. [s EXCEPT !.config = state.config, !.secrets = state.secrets] \in Sound
        BY DEF Sound, States
  <1>2. d = "state" \/ d = "config" \/ d = "secrets"
        BY DEF Deploy!Directories
  <1>3. d = "config" => Deploy!Copied(d, s) = [state EXCEPT !.config = s.config]
        BY DEF Deploy!Copied, Sound, States
  <1>4. d = "secrets" => Deploy!Copied(d, s) = [state EXCEPT !.secrets = s.secrets]
        BY DEF Deploy!Copied, Sound, States
  <1>5. d = "state" => Deploy!Copied(d, s) = [s EXCEPT !.config = state.config, !.secrets = state.secrets]
        BY DEF Deploy!Copied
  <1>6. s.config \in Nat /\ s.secrets \in Nat
        BY DEF Sound, States
  <1>7. [state EXCEPT !.config = s.config] \in Sound /\ [state EXCEPT !.secrets = s.secrets] \in Sound
        BY <1>6, StateSets
  <1> QED BY <1>1, <1>2, <1>3, <1>4, <1>5, <1>7

\* The directories in their order.
LEMMA FollowingIs ==
    /\ Deploy!Following["state"] = "config" /\ Deploy!Following["config"] = "secrets"
    /\ Deploy!Following["secrets"] = "ready"
    /\ \A d \in Deploy!Directories : Deploy!Following[d] \in ScriptPlaces \ {"backup"}
  BY DEF Deploy!Following, Deploy!Directories, ScriptPlaces

LEMMA DeployStarts == Deploy!Init => DeployInv
  <1> SUFFICES ASSUME Deploy!Init PROVE DeployInv
      OBVIOUS
  <1>1. /\ units = TRUE /\ volume = 0 /\ up = {} /\ env = [image |-> 1, runtime |-> "legacy"]
        /\ init = "none" /\ backup = Deploy!NoBackup /\ script = Deploy!NoScript /\ writes = 0 /\ faults = 0
        BY DEF Deploy!Init
  <1>2. state \in Sound
    <2>1. \A c \in Contents : [f \in Deploy!Profile |-> c] \in [Deploy!Profile -> Contents]
          OBVIOUS
    <2>2. Deploy!OldProfile \in [Deploy!Profile -> Contents] /\ Deploy!Generated \in [Deploy!Profile -> Contents]
          BY <2>1 DEF Deploy!OldProfile, Deploy!Generated, Contents
    <2>3. Deploy!OldProfile["identity"] = "legacy" /\ Deploy!Generated["setup"] = "generated"
          BY DEF Deploy!OldProfile, Deploy!Generated, Deploy!Profile
    <2>4. ASSUME NEW p \in [Deploy!Profile -> Contents], NEW l \in {2, 3},
                 p["setup"] = "legacy" => p["identity"] # "generated"
          PROVE  [data |-> 0, layout |-> l, profile |-> p, junk |-> FALSE, config |-> 0, secrets |-> 0] \in Sound
          BY <2>4 DEF Sound, States
    <2>5. CASE state = [data |-> 0, layout |-> 2, profile |-> Deploy!OldProfile, junk |-> FALSE, config |-> 0, secrets |-> 0]
          BY <2>2, <2>3, <2>4, <2>5
    <2>6. CASE state = [data |-> 0, layout |-> 3, profile |-> Deploy!Generated, junk |-> FALSE, config |-> 0, secrets |-> 0]
          BY <2>2, <2>3, <2>4, <2>6
    <2> QED BY <2>5, <2>6 DEF Deploy!Init
  <1>3. env \in Environments /\ env.runtime = "legacy" /\ slipped = FALSE
        BY <1>1 DEF Environments, Deploy!Init
  <1> QED BY <1>1, <1>2, <1>3, NoneIsNoBackup DEF DeployInv, DeployTypes, OneWriter, BackupFits, Deploy!OneRuntime

\* A step that only writes to the state; no rollback that stopped the containers is
\* under way.
LEMMA StateWritten ==
    ASSUME DeployInv, state' \in Sound, script.name # "rollback" \/ slipped,
           writes' \in Nat, faults' \in Nat, UNCHANGED <<units, volume, up, env, init, backup, script, slipped>>
    PROVE  DeployInv'
  <1>1. DeployTypes'
        BY DEF DeployInv, DeployTypes
  <1>2. OneWriter'
        BY DEF DeployInv, OneWriter, Deploy!OneRuntime
  <1>3. BackupFits'
        BY DEF DeployInv, BackupFits
  <1> QED BY <1>1, <1>2, <1>3 DEF DeployInv

\* A script ends and the installation stays as it is: the units go on, or do not.
LEMMA ScriptEnds ==
    ASSUME DeployInv, script.name \in {"migrate", "undo"}, init = "none", script' = Deploy!NoScript,
           units' \in BOOLEAN, env' \in Environments, faults' \in Nat,
           UNCHANGED <<volume, up, state, init, backup, slipped, writes>>
    PROVE  DeployInv'
  <1>1. DeployTypes'
        BY NoneIsNoBackup DEF DeployInv, DeployTypes
  <1>2. OneWriter'
        BY NoneIsNoBackup DEF DeployInv, OneWriter, Deploy!OneRuntime
  <1>3. BackupFits'
        BY NoneIsNoBackup DEF BackupFits
  <1> QED BY <1>1, <1>2, <1>3 DEF DeployInv

\* A migration, or its undoing, goes on.
LEMMA ScriptGoesOn ==
    ASSUME DeployInv, script.name \in {"migrate", "undo"}, init = "none",
           script' \in Scripts, script'.name \in {"migrate", "undo"}, script'.runtime = script.runtime,
           script'.back \in Backups, state' \in Sound, env' \in Environments, faults' \in Nat,
           backup' \in {Deploy!NoBackup} \cup Backups,
           UNCHANGED <<units, volume, up, init, slipped, writes>>
    PROVE  DeployInv'
  <1>1. DeployTypes'
        BY DEF DeployInv, DeployTypes
  <1>2. OneWriter'
        BY DEF DeployInv, OneWriter, Deploy!OneRuntime
  <1>3. BackupFits'
        BY DEF DeployInv, BackupFits
  <1> QED BY <1>1, <1>2, <1>3 DEF DeployInv

LEMMA DeploySteps == DeployInv /\ [Deploy!Next]_deployVars => DeployInv'
  <1> SUFFICES ASSUME DeployInv, [Deploy!Next]_deployVars PROVE DeployInv'
      OBVIOUS
  <1>0. /\ state \in Sound /\ writes \in Nat /\ faults \in Nat /\ script \in Scripts
        BY DEF DeployInv, DeployTypes
  <1>1. CASE Deploy!UnitsWrite
    <2>1. /\ UNCHANGED <<units, up, env, state, init, backup, script, faults, slipped>>
          /\ writes' = writes + 1 /\ volume' = writes + 1
          BY <1>1 DEF Deploy!UnitsWrite
    <2> QED BY <1>0, <2>1 DEF DeployInv, DeployTypes, OneWriter, BackupFits, Deploy!OneRuntime
  <1>2. CASE Deploy!WorkersWrite
    <2>1. /\ state' = [state EXCEPT !.data = writes + 1] /\ up # {} /\ writes' = writes + 1
          /\ UNCHANGED <<units, volume, up, env, init, backup, script, faults, slipped>>
          BY <1>2 DEF Deploy!WorkersWrite
    <2>2. state' \in Sound
      <3>1. writes + 1 \in Nat
            BY <1>0
      <3>2. [state EXCEPT !.data = writes + 1] \in Sound
            BY <1>0, <3>1, StateSets
      <3> QED BY <2>1, <3>2
    <2>3. script.name # "rollback" \/ slipped
          BY <2>1 DEF DeployInv, OneWriter
    <2> QED BY <1>0, <2>1, <2>2, <2>3, StateWritten
  <1>3. ASSUME NEW f \in Deploy!Profile, Deploy!ProfileEdited(f) PROVE DeployInv'
    <2>1. /\ state' = [state EXCEPT !.profile[f] = "edited"] /\ up # {} /\ writes' = writes + 1
          /\ UNCHANGED <<units, volume, up, env, init, backup, script, faults, slipped>>
          BY <1>3 DEF Deploy!ProfileEdited
    <2>2. state' \in Sound
          BY <1>0, <2>1, StateSets
    <2>3. script.name # "rollback" \/ slipped
          BY <2>1 DEF DeployInv, OneWriter
    <2> QED BY <1>0, <2>1, <2>2, <2>3, StateWritten
  <1>4. ASSUME NEW f \in Deploy!Profile, Deploy!PromoteFile(f) PROVE DeployInv'
    <2>1. /\ state' = [state EXCEPT !.profile[f] = "legacy"] /\ init = "promote" /\ init' = init
          /\ UNCHANGED <<units, volume, up, env, backup, script, writes, faults, slipped>>
          /\ state.profile["setup"] = "generated" /\ (f = "setup" => Deploy!Differs = {"setup"})
          BY <1>4 DEF Deploy!PromoteFile, Deploy!InitEnds
    <2>2. f = "setup" => state.profile["identity"] = "legacy"
      <3>1. "identity" \in Deploy!Profile
            BY DEF Deploy!Profile
      <3> QED BY <2>1, <3>1 DEF Deploy!Differs
    <2>3. state' \in Sound
          BY <1>0, <2>1, <2>2, StateSets
    <2>4. script.name # "rollback"
          BY <2>1 DEF DeployInv, OneWriter
    <2> QED BY <1>0, <2>1, <2>3, <2>4, StateWritten
  <1>5. CASE Deploy!OperatorUp
    <2>1. /\ UNCHANGED <<units, volume, up, env, state, backup, script, writes, faults, slipped>>
          /\ init' = "snapshot" /\ ~units /\ script.name = "none"
          BY <1>5 DEF Deploy!OperatorUp, Deploy!Ordered
    <2> QED BY <2>1 DEF DeployInv, DeployTypes, OneWriter, BackupFits, Deploy!OneRuntime
  <1>6. CASE Deploy!Snapshot \/ Deploy!Stage \/ Deploy!InitKilled
    <2>1. /\ UNCHANGED <<units, volume, up, env, backup, script, writes, slipped>> /\ faults' \in Nat
          /\ init # "none" /\ init' \in {"none", "stage", "promote"}
          BY <1>0, <1>6 DEF Deploy!Snapshot, Deploy!Stage, Deploy!InitKilled, Deploy!InitEnds, Deploy!InitFails,
                            Deploy!Fault
    <2>2. \/ state' = state \/ state' = [state EXCEPT !.junk = TRUE] \/ state' = [state EXCEPT !.junk = FALSE]
          \/ state' = [state EXCEPT !.junk = FALSE, !.layout = 3]
          BY <1>6 DEF Deploy!Snapshot, Deploy!Stage, Deploy!InitKilled, Deploy!InitEnds, Deploy!InitFails
    <2>3. state' \in Sound
          BY <1>0, <2>2, StateSets
    <2>4. script.name = "none" /\ ~units
          BY <2>1 DEF DeployInv, OneWriter
    <2> QED BY <1>0, <2>1, <2>3, <2>4 DEF DeployInv, DeployTypes, OneWriter, BackupFits, Deploy!OneRuntime
  <1>7. CASE Deploy!Promoted
    <2>1. /\ UNCHANGED <<units, volume, env, state, backup, script, writes, faults, slipped>> /\ init' = "none"
          /\ init = "promote" /\ (up' = up \/ up' = {"gateway", "workers"})
          BY <1>7 DEF Deploy!Promoted, Deploy!InitEnds, Deploy!InitFails
    <2>2. script.name = "none" /\ ~units
          BY <2>1 DEF DeployInv, OneWriter
    <2> QED BY <1>0, <2>1, <2>2 DEF DeployInv, DeployTypes, OneWriter, BackupFits, Deploy!OneRuntime
  <1>8. CASE Deploy!MigrateLive
    <2>1. /\ UNCHANGED <<volume, up, env, state, init, backup, writes, faults, slipped>> /\ up = {} /\ units' = FALSE
          /\ init = "none"
          /\ script' = [Deploy!NoScript EXCEPT !.name = "migrate", !.at = "backup", !.runtime = env.runtime]
          BY <1>8 DEF Deploy!MigrateLive, Deploy!Ordered
    <2>2. env.runtime \in {"legacy", "docker"}
          BY DEF DeployInv, DeployTypes, Environments
    <2>3. /\ script' \in Scripts /\ script'.name = "migrate" /\ script'.at = "backup"
          /\ script'.runtime \in {"legacy", "docker"}
          BY <2>1, <2>2, NoneIsNoBackup DEF Scripts, ScriptPlaces
    <2> QED BY <1>0, <2>1, <2>3 DEF DeployInv, DeployTypes, OneWriter, BackupFits, Deploy!OneRuntime
  <1>9. CASE Deploy!Prepublished
    <2>1. /\ UNCHANGED <<units, volume, up, env, state, init, writes, faults, slipped>>
          /\ script.name = "migrate" /\ init = "none" /\ script' = [script EXCEPT !.at = "state", !.back = backup']
          /\ backup' = [state |-> state, image |-> env.image, runtime |-> "legacy"]
          BY <1>9 DEF Deploy!Prepublished, Deploy!At
    <2>2. backup' \in Backups
          BY <1>0, <2>1 DEF DeployInv, DeployTypes, Backups, Environments
    <2>3. /\ script' \in Scripts /\ script'.name = "migrate" /\ script'.runtime = script.runtime
          /\ script'.back \in Backups
          BY <1>0, <2>1, <2>2 DEF Scripts, ScriptPlaces
    <2> QED BY <1>0, <2>1, <2>2, <2>3, ScriptGoesOn DEF DeployInv, DeployTypes
  <1>24. ASSUME NEW d \in Deploy!Directories, Deploy!Publish(d) \/ Deploy!PutBack(d) PROVE DeployInv'
    <2>1. /\ UNCHANGED <<units, volume, up, env, init, backup, writes, faults, slipped>>
          /\ script.name \in {"migrate", "undo"} /\ script.at = d /\ init = "none"
          /\ script' = [script EXCEPT !.at = Deploy!Following[d]]
          /\ state' \in {Deploy!Copied(d, Deploy!Staged), Deploy!Copied(d, script.back.state)}
          BY <1>24 DEF Deploy!Publish, Deploy!PutBack, Deploy!At, Deploy!Goes
    <2>2. d # "backup"
          BY DEF Deploy!Directories
    <2>3. script.back \in Backups /\ script.back.state \in Sound
          BY <2>1, <2>2 DEF DeployInv, BackupFits, Backups
    <2>4. Deploy!Staged \in Sound
      <3>1. Deploy!OldProfile \in [Deploy!Profile -> Contents] /\ Deploy!OldProfile["identity"] = "legacy"
            BY DEF Deploy!OldProfile, Deploy!Profile, Contents
      <3>2. volume \in Nat
            BY DEF DeployInv, DeployTypes
      <3> QED BY <3>1, <3>2 DEF Deploy!Staged, Sound, States
    <2>5. state' \in Sound
      <3>1. state \in Sound
            BY DEF DeployInv, DeployTypes
      <3>2. Deploy!Copied(d, Deploy!Staged) \in Sound
            BY <2>4, <3>1, CopiedIsSound
      <3>3. Deploy!Copied(d, script.back.state) \in Sound
            BY <2>3, <3>1, CopiedIsSound
      <3> QED BY <2>1, <3>2, <3>3
    <2>6. /\ script' \in Scripts /\ script'.name \in {"migrate", "undo"} /\ script'.runtime = script.runtime
          /\ script'.back \in Backups
          BY <1>0, <2>1, <2>3, FollowingIs DEF Scripts
    <2> QED BY <1>0, <2>1, <2>5, <2>6, ScriptGoesOn DEF DeployInv, DeployTypes
  <1>25. CASE Deploy!Published \/ Deploy!Undone \/ Deploy!UndoFails
    <2>1. /\ UNCHANGED <<volume, up, state, init, backup, writes, slipped>> /\ script' = Deploy!NoScript
          /\ script.name \in {"migrate", "undo"} /\ faults' \in Nat
          /\ units' = units \/ units' = TRUE
          /\ \/ env' = env \/ env' = [env EXCEPT !.runtime = "legacy"]
             \/ script.name = "undo" /\ env' = [env EXCEPT !.runtime = script.runtime]
          BY <1>0, <1>25 DEF Deploy!Published, Deploy!Undone, Deploy!UndoFails, Deploy!At, Deploy!Fault
    <2>2. env' \in Environments
          BY <2>1 DEF DeployInv, DeployTypes, BackupFits, Environments
    <2>3. units' \in BOOLEAN /\ init = "none"
          BY <2>1 DEF DeployInv, DeployTypes, OneWriter
    <2> QED BY <2>1, <2>2, <2>3, ScriptEnds
  <1>10. CASE Deploy!MigrationFails
    <2>1. /\ UNCHANGED <<volume, up, state, init, backup, writes, slipped>>
          /\ script.name = "migrate" /\ faults' = faults + 1
          /\ IF script.at = "backup" THEN units' = TRUE /\ script' = Deploy!NoScript
             ELSE units' = units /\ script' = [script EXCEPT !.name = "undo", !.at = "state"]
          /\ env' = env \/ env' = [env EXCEPT !.runtime = "legacy"]
          BY <1>10 DEF Deploy!MigrationFails, Deploy!Fault
    <2>2. env' \in Environments /\ faults' \in Nat /\ init = "none"
          BY <1>0, <2>1 DEF DeployInv, DeployTypes, OneWriter, Environments
    <2>3. CASE script.at = "backup"
          BY <2>1, <2>2, <2>3, ScriptEnds
    <2>4. CASE script.at # "backup"
      <3>1. /\ script' \in Scripts /\ script'.name = "undo" /\ script'.runtime = script.runtime
            /\ script'.back = script.back
            BY <1>0, <2>1, <2>4 DEF Scripts, ScriptPlaces
      <3>2. script.back \in Backups
            BY <2>1, <2>4 DEF DeployInv, BackupFits
      <3> QED BY <1>0, <2>1, <2>2, <2>4, <3>1, <3>2, ScriptGoesOn DEF DeployInv, DeployTypes
    <2> QED BY <2>3, <2>4
  <1>11. ASSUME NEW target \in Images, Deploy!Deploy(target) PROVE DeployInv'
    <2>1. /\ UNCHANGED <<volume, env, state, init, backup, writes, faults, slipped>> /\ init = "none"
          /\ script' = [Deploy!NoScript EXCEPT !.name = "deploy", !.at = "backup", !.image = env.image,
                                                !.target = target]
          /\ IF env.runtime = "legacy" THEN "workers" \notin up /\ units' = FALSE /\ up' = up
             ELSE units' = units /\ ~units /\ up' = {}
          BY <1>11 DEF Deploy!Deploy, Deploy!Ordered, Deploy!WritersAgree
    <2>2. script' \in Scripts /\ script'.name = "deploy" /\ script'.at = "backup"
      <3>1. env.image \in Images \cup {0, 1}
            BY DEF DeployInv, DeployTypes, Environments
      <3> QED BY <2>1, <3>1, NoneIsNoBackup DEF Scripts, ScriptPlaces
    <2> QED BY <1>0, <2>1, <2>2 DEF DeployInv, DeployTypes, OneWriter, BackupFits, Deploy!OneRuntime
  <1>12. CASE Deploy!BackedUp
    <2>1. /\ UNCHANGED <<units, volume, up, state, init, writes, faults, slipped>>
          /\ script.name = "deploy" /\ script.at = "backup" /\ init = "none"
          /\ script' = [script EXCEPT !.at = "gateway"] /\ env' = [env EXCEPT !.image = script.target]
          /\ backup' = [state |-> state, image |-> script.image, runtime |-> env.runtime]
          BY <1>12 DEF Deploy!BackedUp, Deploy!At, Deploy!Goes
    <2>2. script' \in Scripts /\ script'.name = "deploy" /\ script'.at = "gateway"
          BY <1>0, <2>1 DEF Scripts, ScriptPlaces
    <2>3. backup' \in Backups /\ backup'.state = state /\ backup'.runtime = env.runtime
          BY <1>0, <2>1 DEF Backups, Scripts, Environments, DeployInv, DeployTypes
    <2>4. env' \in Environments /\ env'.runtime = env.runtime
          BY <1>0, <2>1 DEF Scripts, Environments, DeployInv, DeployTypes
    <2>5. backup' # Deploy!NoBackup
          BY <2>3, NoneIsNoBackup
    <2>6. DeployTypes'
          BY <1>0, <2>1, <2>2, <2>3, <2>4 DEF DeployInv, DeployTypes
    <2>7. OneWriter'
          BY <2>1, <2>2, <2>4 DEF DeployInv, OneWriter, Deploy!OneRuntime
    <2>8. BackupFits'
          BY <2>1, <2>2, <2>3, <2>4, <2>5 DEF DeployInv, BackupFits
    <2> QED BY <2>6, <2>7, <2>8 DEF DeployInv
  <1>13. CASE Deploy!BackupFails
    <2>1. /\ UNCHANGED <<volume, up, env, state, backup, writes, slipped>> /\ script' = Deploy!NoScript
          /\ script.name = "deploy" /\ script.at = "backup" /\ init = "none" /\ faults' = faults + 1
          /\ IF env.runtime = "legacy" THEN units' = TRUE /\ init' = init
             ELSE units' = units /\ init' = "snapshot"
          BY <1>13 DEF Deploy!BackupFails, Deploy!At, Deploy!Fault
    <2>2. DeployTypes'
      <3>1. units' \in BOOLEAN /\ init' \in {"none", "snapshot", "stage", "promote"}
            BY <2>1 DEF DeployInv, DeployTypes
      <3>2. script' \in Scripts /\ faults' \in Nat
            BY <1>0, <2>1, NoneIsNoBackup
      <3> QED BY <2>1, <3>1, <3>2 DEF DeployInv, DeployTypes
    <2>3. ~units /\ (env.runtime = "legacy" => "workers" \notin up)
          BY <2>1 DEF DeployInv, OneWriter
    <2>4. OneWriter'
          BY <2>1, <2>3, NoneIsNoBackup DEF OneWriter, Deploy!OneRuntime
    <2>5. BackupFits'
          BY <2>1, NoneIsNoBackup DEF DeployInv, BackupFits
    <2> QED BY <2>2, <2>4, <2>5 DEF DeployInv
  <1>14. CASE Deploy!GatewayStarts
    <2>1. /\ UNCHANGED <<units, volume, env, init, backup, writes, faults, slipped>>
          /\ script.name = "deploy" /\ script.at = "gateway" /\ state' = Deploy!Mounted
          /\ IF state.layout = 3 THEN script' = [script EXCEPT !.at = "smoke"] /\ up' = {"gateway"}
             ELSE script' = [script EXCEPT !.at = "failed"] /\ up' = up
          BY <1>14 DEF Deploy!GatewayStarts, Deploy!At, Deploy!Goes
    <2>2. state' \in Sound
          BY <1>0, <2>1, StateSets DEF Deploy!Mounted
    <2>3. /\ script' \in Scripts /\ script'.name = "deploy"
          /\ script'.at = IF state.layout = 3 THEN "smoke" ELSE "failed"
          BY <1>0, <2>1 DEF Scripts, ScriptPlaces
    <2>4. DeployTypes'
          BY <1>0, <2>1, <2>2, <2>3 DEF DeployInv, DeployTypes
    <2>5. OneWriter'
          BY <2>1, <2>3 DEF DeployInv, OneWriter, Deploy!OneRuntime
    <2>6. BackupFits'
          BY <2>1, <2>2, <2>3 DEF DeployInv, BackupFits
    <2> QED BY <2>4, <2>5, <2>6 DEF DeployInv
  <1>15. CASE Deploy!Smoke
    <2>1. /\ UNCHANGED <<units, volume, up, env, init, backup, faults, slipped>> /\ writes' = writes + 1
          /\ script.name = "deploy" /\ script.at = "smoke"
          /\ script' = [script EXCEPT !.at = "workers"] /\ state' = [state EXCEPT !.data = writes + 1]
          BY <1>15 DEF Deploy!Smoke, Deploy!At, Deploy!Goes
    <2>2. state' \in Sound
      <3>1. writes + 1 \in Nat
            BY <1>0
      <3>2. [state EXCEPT !.data = writes + 1] \in Sound
            BY <1>0, <3>1, StateSets
      <3> QED BY <2>1, <3>2
    <2>3. script' \in Scripts /\ script'.name = "deploy" /\ script'.at = "workers"
          BY <1>0, <2>1 DEF Scripts, ScriptPlaces
    <2>4. DeployTypes'
          BY <1>0, <2>1, <2>2, <2>3 DEF DeployInv, DeployTypes
    <2>5. OneWriter' /\ BackupFits'
          BY <2>1, <2>2, <2>3 DEF DeployInv, OneWriter, BackupFits, Deploy!OneRuntime
    <2> QED BY <2>4, <2>5 DEF DeployInv
  <1>16. CASE Deploy!WorkersStart
    <2>1. /\ UNCHANGED <<units, volume, env, state, init, backup, writes, faults, slipped>>
          /\ script.name = "deploy" /\ script.at = "workers"
          /\ script' = [script EXCEPT !.at = "done"] /\ up' = {"gateway", "workers"}
          BY <1>16 DEF Deploy!WorkersStart, Deploy!At, Deploy!Goes
    <2>2. script' \in Scripts /\ script'.name = "deploy" /\ script'.at = "done"
          BY <1>0, <2>1 DEF Scripts, ScriptPlaces
    <2> QED BY <1>0, <2>1, <2>2 DEF DeployInv, DeployTypes, OneWriter, BackupFits, Deploy!OneRuntime
  <1>17. CASE Deploy!Deployed
    <2>1. /\ UNCHANGED <<units, volume, up, state, init, backup, writes, faults, slipped>>
          /\ script.name = "deploy" /\ script.at = "done"
          /\ script' = Deploy!NoScript /\ env' = [env EXCEPT !.runtime = "docker"]
          BY <1>17 DEF Deploy!Deployed, Deploy!At
    <2>2. env' \in Environments /\ env'.runtime = "docker"
          BY <2>1 DEF DeployInv, DeployTypes, Environments
    <2> QED BY <1>0, <2>1, <2>2, NoneIsNoBackup DEF DeployInv, DeployTypes, OneWriter, BackupFits, Deploy!OneRuntime
  <1>18. CASE Deploy!DeployFails
    <2>1. /\ UNCHANGED <<units, volume, up, env, state, init, backup, writes, slipped>> /\ faults' = faults + 1
          /\ script.name = "deploy" /\ script.at # "backup" /\ script' = [script EXCEPT !.at = "failed"]
          BY <1>18 DEF Deploy!DeployFails, Deploy!Goes, Deploy!Fault
    <2>2. script' \in Scripts /\ script'.name = "deploy" /\ script'.at = "failed"
          BY <1>0, <2>1 DEF Scripts, ScriptPlaces
    <2> QED BY <1>0, <2>1, <2>2 DEF DeployInv, DeployTypes, OneWriter, BackupFits, Deploy!OneRuntime
  <1>19. CASE Deploy!RollbackOnFailure \/ Deploy!Rollback
    <2>1. /\ UNCHANGED <<units, volume, env, state, init, backup, writes>> /\ init = "none" /\ faults' \in Nat
          /\ up' \in SUBSET up /\ slipped' = (up' # {})
          /\ \E auto \in BOOLEAN : script' = [Deploy!NoScript EXCEPT !.name = "rollback", !.at = "state",
                                                                      !.auto = auto, !.back = backup]
          /\ \/ script.name = "deploy" /\ script.at = "failed"
             \/ backup # Deploy!NoBackup /\ ~units
      <3>1. faults \in Nat /\ up \in SUBSET {"gateway", "workers"}
            BY DEF DeployInv, DeployTypes
      <3>2. ASSUME NEW auto \in BOOLEAN, Deploy!Down(backup, auto)
            PROVE  /\ UNCHANGED <<units, volume, env, state, init, backup, writes>> /\ faults' \in Nat
                   /\ up' \in SUBSET up /\ slipped' = (up' # {})
                   /\ script' = [Deploy!NoScript EXCEPT !.name = "rollback", !.at = "state",
                                                         !.auto = auto, !.back = backup]
        <4>1. up' \in SUBSET up /\ faults' \in Nat
              BY <3>1, <3>2 DEF Deploy!Down, Deploy!Fault
        <4> QED BY <3>2, <4>1 DEF Deploy!Down
      <3>3. CASE Deploy!RollbackOnFailure
            BY <3>2, <3>3 DEF Deploy!RollbackOnFailure, Deploy!At
      <3>4. CASE Deploy!Rollback
            BY <3>2, <3>4 DEF Deploy!Rollback, Deploy!Ordered
      <3> QED BY <1>19, <3>3, <3>4
    <2>2. backup # Deploy!NoBackup /\ ~units /\ backup \in Backups
          BY <2>1 DEF DeployInv, DeployTypes, OneWriter, BackupFits
    <2>3. script' \in Scripts /\ script'.name = "rollback" /\ script'.at = "state" /\ script'.back = backup
          BY <2>1, <2>2, NoneIsNoBackup DEF Scripts, ScriptPlaces
    <2>4. DeployTypes'
          BY <1>0, <2>1, <2>3 DEF DeployInv, DeployTypes
    <2>5. OneWriter'
          BY <2>1, <2>2, <2>3 DEF OneWriter, Deploy!OneRuntime
    <2>6. BackupFits'
          BY <2>1, <2>2, <2>3 DEF BackupFits
    <2> QED BY <2>4, <2>5, <2>6 DEF DeployInv
  <1>20. ASSUME NEW d \in Deploy!Directories, Deploy!Restore(d) PROVE DeployInv'
    <2>1. /\ UNCHANGED <<units, volume, up, env, init, backup, writes, faults, slipped>>
          /\ script.name = "rollback" /\ script.at = d
          /\ script' = [script EXCEPT !.at = Deploy!Following[d]] /\ state' = Deploy!Copied(d, script.back.state)
          BY <1>20 DEF Deploy!Restore, Deploy!At, Deploy!Goes
    <2>2. script.back = backup /\ backup \in Backups /\ backup # Deploy!NoBackup /\ backup.state \in Sound
          BY <2>1 DEF DeployInv, DeployTypes, BackupFits, Backups
    <2>3. state' \in Sound
          BY <1>0, <2>1, <2>2, CopiedIsSound
    <2>4. /\ script' \in Scripts /\ script'.name = "rollback" /\ script'.at = Deploy!Following[d]
          /\ script'.back = script.back
          BY <1>0, <2>1, FollowingIs DEF Scripts
    <2>5. DeployTypes'
          BY <1>0, <2>1, <2>3, <2>4 DEF DeployInv, DeployTypes
    <2>6. OneWriter'
          BY <2>1, <2>4 DEF DeployInv, OneWriter, Deploy!OneRuntime
    <2>7. BackupFits'
      <3> SUFFICES ASSUME ~slipped
                   PROVE  /\ script'.at \in {"config", "secrets", "ready"} =>
                               state' = [backup.state EXCEPT !.config = state'.config, !.secrets = state'.secrets]
                          /\ script'.at \in {"secrets", "ready"} => state'.config = backup.state.config
                          /\ script'.at = "ready" => state'.secrets = backup.state.secrets
          BY <2>1, <2>2, <2>4 DEF BackupFits
      <3>1. CASE d = "state"
        <4>1. state' = [backup.state EXCEPT !.config = state.config, !.secrets = state.secrets]
              BY <1>0, <2>1, <2>2, <3>1, CopiedIsSound
        <4>2. state'.config = state.config /\ state'.secrets = state.secrets
              BY <2>2, <4>1 DEF Sound, States
        <4> QED BY <2>4, <3>1, <4>1, <4>2, FollowingIs
      <3>2. CASE d = "config"
        <4>1. state' = [state EXCEPT !.config = backup.state.config]
              BY <1>0, <2>1, <2>2, <3>2, CopiedIsSound
        <4>2. state = [backup.state EXCEPT !.config = state.config, !.secrets = state.secrets]
              BY <2>1, <3>2 DEF DeployInv, BackupFits
        <4>3. state' = [backup.state EXCEPT !.config = state'.config, !.secrets = state'.secrets]
              /\ state'.config = backup.state.config
              BY <1>0, <2>2, <4>1, <4>2 DEF Sound, States
        <4> QED BY <2>4, <3>2, <4>3, FollowingIs
      <3>3. CASE d = "secrets"
        <4>1. state' = [state EXCEPT !.secrets = backup.state.secrets]
              BY <1>0, <2>1, <2>2, <3>3, CopiedIsSound
        <4>2. /\ state = [backup.state EXCEPT !.config = state.config, !.secrets = state.secrets]
              /\ state.config = backup.state.config
              BY <2>1, <3>3 DEF DeployInv, BackupFits
        <4>3. state' = [backup.state EXCEPT !.config = state'.config, !.secrets = state'.secrets]
              /\ state'.config = backup.state.config /\ state'.secrets = backup.state.secrets
              BY <1>0, <2>2, <4>1, <4>2 DEF Sound, States
        <4> QED BY <4>3
      <3> QED BY <3>1, <3>2, <3>3 DEF Deploy!Directories
    <2> QED BY <2>5, <2>6, <2>7 DEF DeployInv
  <1>21. CASE Deploy!StartAgain
    <2>1. /\ UNCHANGED <<volume, init, backup, writes, faults, slipped>> /\ script' = Deploy!NoScript /\ init = "none"
          /\ script.name = "rollback"
          /\ env' = [image |-> script.back.image, runtime |-> script.back.runtime]
          /\ IF script.back.runtime = "legacy" THEN units' = TRUE /\ UNCHANGED <<up, state>>
             ELSE /\ state' = Deploy!Mounted /\ units' = units
                  /\ up' = IF state.layout = 3 THEN {"gateway", "workers"} ELSE up
          BY <1>21 DEF Deploy!StartAgain, Deploy!At
    <2>2. script.back = backup /\ backup \in Backups /\ ~units /\ (up = {} \/ slipped)
          BY <2>1 DEF DeployInv, DeployTypes, BackupFits, OneWriter
    <2>3. env' \in Environments
          BY <2>1, <2>2 DEF Backups, Environments
    <2>4. state' \in Sound
          BY <1>0, <2>1, StateSets DEF Deploy!Mounted
    <2>5. up' \in SUBSET {"gateway", "workers"} /\ units' \in BOOLEAN
          BY <2>1 DEF DeployInv, DeployTypes
    <2>6. DeployTypes'
          BY <1>0, <2>1, <2>3, <2>4, <2>5, NoneIsNoBackup DEF DeployInv, DeployTypes
    <2>7. OneWriter'
          BY <2>1, <2>2, NoneIsNoBackup DEF OneWriter, Deploy!OneRuntime
    <2>8. BackupFits'
          BY <2>1, NoneIsNoBackup DEF BackupFits
    <2> QED BY <2>6, <2>7, <2>8 DEF DeployInv
  <1>22. CASE Deploy!Killed
    <2>1. /\ UNCHANGED <<units, volume, up, env, state, init, backup, writes, slipped>> /\ faults' = faults + 1
          /\ script.name # "none" /\ script' = Deploy!NoScript
          BY <1>22 DEF Deploy!Killed, Deploy!Fault
    <2> QED BY <1>0, <2>1, NoneIsNoBackup DEF DeployInv, DeployTypes, OneWriter, BackupFits, Deploy!OneRuntime
  <1>23. CASE UNCHANGED deployVars
    <2>1. UNCHANGED <<units, volume, up, env, state, init, backup, script, writes, faults, slipped>>
          BY <1>23 DEF deployVars
    <2> QED BY <2>1 DEF DeployInv, DeployTypes, OneWriter, BackupFits, Deploy!OneRuntime
  <1> QED BY <1>1, <1>2, <1>3, <1>4, <1>5, <1>6, <1>7, <1>8, <1>9, <1>10, <1>11, <1>12, <1>13, <1>14, <1>15, <1>16,
             <1>17, <1>18, <1>19, <1>20, <1>21, <1>22, <1>23, <1>24, <1>25 DEF Deploy!Next, Deploy!Scripts
\* A rollback that was not killed ends with the state and the runtime of the backup.
LEMMA DeployRestores ==
    ASSUME DeployInv, [Deploy!Next]_deployVars
    PROVE  Deploy!RollbackRestores
  <1> SUFFICES ASSUME script.name = "rollback", script.auto, script'.name = "none", faults' = faults,
                      ~slipped, units' \/ up' # {}
               PROVE  state' = backup.state /\ env'.runtime = backup.runtime
      BY DEF Deploy!RollbackRestores
  <1>1. Deploy!Next
        BY DEF deployVars
  <1>2. init = "none" /\ up = {} /\ ~units /\ faults \in Nat
        BY DEF DeployInv, DeployTypes, OneWriter
  <1>3. CASE Deploy!StartAgain
    <2>1. /\ env' = [image |-> script.back.image, runtime |-> script.back.runtime] /\ script.at = "ready"
          /\ IF script.back.runtime = "legacy" THEN state' = state
             ELSE state' = Deploy!Mounted /\ units' = units /\ up' = IF state.layout = 3 THEN {"gateway", "workers"} ELSE up
          BY <1>3 DEF Deploy!StartAgain, Deploy!At
    <2>2. /\ script.back = backup /\ backup \in Backups
          /\ state = [backup.state EXCEPT !.config = state.config, !.secrets = state.secrets]
          /\ state.config = backup.state.config /\ state.secrets = backup.state.secrets
          BY <2>1 DEF DeployInv, DeployTypes, BackupFits
    <2>3. backup.state \in Sound
          BY <2>2 DEF Backups
    <2>4. state = backup.state
      <3>1. \A s \in States : [s EXCEPT !.config = s.config, !.secrets = s.secrets] = s
            BY DEF States
      <3>2. backup.state \in States
            BY <2>3 DEF Sound
      <3> QED BY <2>2, <3>1, <3>2
    <2>5. state' = state
          BY <1>2, <2>1 DEF Deploy!Mounted
    <2>6. env'.runtime = backup.runtime
          BY <2>1, <2>2
    <2> QED BY <2>4, <2>5, <2>6
  <1>4. ~Deploy!Killed
        BY <1>2 DEF Deploy!Killed, Deploy!Fault
  <1>5. /\ ~(Deploy!Prepublished \/ Deploy!Published \/ Deploy!MigrationFails \/ Deploy!Undone \/ Deploy!UndoFails
             \/ Deploy!BackedUp \/ Deploy!BackupFails \/ Deploy!GatewayStarts
             \/ Deploy!Smoke \/ Deploy!WorkersStart \/ Deploy!Deployed \/ Deploy!DeployFails \/ Deploy!RollbackOnFailure)
        /\ \A d \in Deploy!Directories : ~(Deploy!Publish(d) \/ Deploy!PutBack(d))
        BY DEF Deploy!Prepublished, Deploy!Published, Deploy!MigrationFails, Deploy!Undone, Deploy!UndoFails,
               Deploy!Publish, Deploy!PutBack, Deploy!BackedUp, Deploy!BackupFails, Deploy!GatewayStarts,
               Deploy!Smoke, Deploy!WorkersStart, Deploy!Deployed, Deploy!DeployFails, Deploy!RollbackOnFailure,
               Deploy!At
  <1>6. ASSUME NEW d \in Deploy!Directories PROVE ~Deploy!Restore(d)
    <2>1. ASSUME Deploy!Restore(d) PROVE FALSE
      <3>1. script' = [script EXCEPT !.at = Deploy!Following[d]]
            BY <2>1 DEF Deploy!Restore, Deploy!Goes
      <3>2. script'.name = script.name
            BY <3>1 DEF DeployInv, DeployTypes, Scripts
      <3> QED BY <3>2
    <2> QED BY <2>1
  <1>7. ~(Deploy!UnitsWrite \/ Deploy!WorkersWrite \/ (\E f \in Deploy!Profile : Deploy!ProfileEdited(f) \/ Deploy!PromoteFile(f))
          \/ Deploy!OperatorUp \/ Deploy!Snapshot \/ Deploy!Stage \/ Deploy!Promoted \/ Deploy!InitKilled
          \/ Deploy!MigrateLive \/ (\E target \in Images : Deploy!Deploy(target)) \/ Deploy!Rollback)
        BY <1>2 DEF Deploy!UnitsWrite, Deploy!WorkersWrite, Deploy!ProfileEdited, Deploy!PromoteFile, Deploy!OperatorUp,
               Deploy!Snapshot, Deploy!Stage, Deploy!Promoted, Deploy!InitKilled, Deploy!MigrateLive, Deploy!Deploy,
               Deploy!Rollback, Deploy!Ordered
  <1> QED BY <1>1, <1>3, <1>4, <1>5, <1>6, <1>7 DEF Deploy!Next, Deploy!Scripts

\* Wherever a script is killed: one writer, a complete profile, a faithful rollback, and a
\* migration that loses no password.
THEOREM DeploysAreWhole == AllSpec => DeploysWhole
  <1> DEFINE I == (turn = "deploy" => DeployInv) /\ (turn = "migrate" => MigrationInv)
             D == turn = "deploy" => Deploy!OneRuntime /\ Deploy!SetupMeansWhole
             M == turn = "migrate" => Migration!MigratesWhole
             R == turn = "deploy" => Deploy!RollbackRestores
  <1>1. AllInit => I
        BY DeployStarts, MigrationStarts DEF AllInit
  <1>2. I /\ [AllNext]_allVars => I'
        BY OneTurn, DeploySteps, MigrationSteps
  <1>3. I => D
        BY DEF DeployInv, DeployTypes, OneWriter, Deploy!SetupMeansWhole, Sound
  <1>4. I => M
    <2>1. MigrationInv => Migration!MigratesWhole
      <3> SUFFICES ASSUME MigrationInv PROVE Migration!MigratesWhole
          OBVIOUS
      <3>1. Migration!NoLostSecret /\ Migration!CredentialKept
            BY DEF MigrationInv
      <3>2. Migration!Whole
            BY DEF MigrationInv, DoneBefore, Migration!Whole
      <3> QED BY <3>1, <3>2 DEF Migration!MigratesWhole
    <2> QED BY <2>1
  <1>5. I /\ [AllNext]_allVars => [R]_allVars
        BY OneTurn, DeployRestores
  <1> QED BY <1>1, <1>2, <1>3, <1>4, <1>5, PTL DEF AllSpec, DeploysWhole

-----------------------------------------------------------------------------
(* ToolSetup: what is on is granted, and a failed setup undoes nothing *)

Rights == {"read", "create", "update"}
Sections == [on : BOOLEAN, resource : Resources \cup {""}, allow : SUBSET Rights]
Settings == [profile : {"standard", "restricted"}, mail : BOOLEAN, section : [Domains -> Sections]]
Registries == [Resources -> SUBSET Rights]
FoundFiles == {<<>>} \cup (Settings \X Registries)
PlannedTools == {<<>>} \cup {<<t>> : t \in Settings}
PlannedRegistry == {<<>>} \cup {<<r>> : r \in Registries}
Commands ==
    [step : {"none", "verified", "registry", "tools"}, standard : BOOLEAN, old : FoundFiles,
     tools : PlannedTools, registry : PlannedRegistry, verified : PlannedRegistry,
     outcome : {"", "ok", "error", "stuck"}, cut : BOOLEAN, upgraded : BOOLEAN, count : Nat]

ToolTypes ==
    /\ switches \in Settings /\ registry \in Registries /\ server \in Registries
    /\ command \in Commands

\* A function that is on, and that of moving mails, has a resource of the kind it needs.
Fits(t) ==
    \A d \in Domains : t.section[d].on \/ d = "mail" =>
        t.section[d].resource \in Resources /\ KindOfResource[t.section[d].resource] = KindOf[d]

\* A function of ds that is on has its right.
Granted(t, r, ds) ==
    \A d \in ds : t.section[d].on => t.section[d].allow \subseteq r[t.section[d].resource]

Spared == IF command.cut THEN {"orders"} ELSE {}
Restricted == switches.profile = "restricted"

\* What is on is granted before, between and after the two files: by the registry that is,
\* by the one to come, and by the one a failed setup puts back.
ToolsInv ==
    /\ ToolTypes
    /\ Fits(switches)
    /\ Restricted /\ command.step # "tools" => Granted(switches, registry, Domains \ Spared)
    /\ command.step = "verified" => command.verified # <<>> /\ command.standard
    /\ command.step \in {"registry", "tools"} =>
         /\ command.tools # <<>> /\ command.registry # <<>> /\ command.old # <<>>
         /\ Fits(command.tools[1]) /\ command.old[1] = switches
         /\ command.tools[1].profile = IF command.standard THEN "standard" ELSE switches.profile
         /\ ~command.standard /\ Restricted => Granted(command.tools[1], command.registry[1], Domains \ Spared)
         /\ Restricted => Granted(switches, command.registry[1], Domains \ {"orders"})
         /\ Restricted /\ command.standard => /\ Granted(switches, command.old[2], Domains \ Spared)
                                              /\ Granted(switches, command.registry[1], Domains \ Spared)
    /\ command.step = "registry" => command.old[2] = registry
    /\ command.step = "tools" => command.registry[1] = registry
    /\ command.step # "none" => command.outcome = ""
    /\ Tools!FailedChangesNothing

\* Every field of a command has a value of its kind.
LEMMA CommandHas ==
    ASSUME NEW c \in Commands
    PROVE  /\ c.tools # <<>> => c.tools[1] \in Settings
           /\ c.registry # <<>> => c.registry[1] \in Registries
           /\ c.verified # <<>> => c.verified[1] \in Registries
           /\ c.old # <<>> => c.old[1] \in Settings /\ c.old[2] \in Registries /\ c.old = <<c.old[1], c.old[2]>>
  <1>1. ASSUME c.tools # <<>> PROVE c.tools[1] \in Settings
    <2>1. PICK t \in Settings : c.tools = <<t>>
          BY <1>1 DEF Commands, FoundFiles, PlannedTools, PlannedRegistry
    <2> QED BY <2>1
  <1>2. ASSUME c.registry # <<>> PROVE c.registry[1] \in Registries
    <2>1. PICK t \in Registries : c.registry = <<t>>
          BY <1>2 DEF Commands, FoundFiles, PlannedTools, PlannedRegistry
    <2> QED BY <2>1
  <1>3. ASSUME c.verified # <<>> PROVE c.verified[1] \in Registries
    <2>1. PICK t \in Registries : c.verified = <<t>>
          BY <1>3 DEF Commands, FoundFiles, PlannedTools, PlannedRegistry
    <2> QED BY <2>1
  <1>4. ASSUME c.old # <<>>
        PROVE  c.old[1] \in Settings /\ c.old[2] \in Registries /\ c.old = <<c.old[1], c.old[2]>>
    <2>1. c.old \in Settings \X Registries
          BY <1>4 DEF Commands, FoundFiles, PlannedTools, PlannedRegistry
    <2> QED BY <2>1
  <1> QED BY <1>1, <1>2, <1>3, <1>4

LEMMA ToolsStart == Tools!Init => ToolsInv
  <1> SUFFICES ASSUME Tools!Init PROVE ToolsInv
      OBVIOUS
  <1>1. /\ switches \in [profile : {"standard", "restricted"}, mail : BOOLEAN,
                         section : {Tools!Unset(agent) : agent \in Tools!Agents}]
        /\ registry = [r \in Resources |-> {"read"}] /\ server \in [Resources -> {{"read"}, Rights}]
        /\ command = Tools!NoCommand
        BY DEF Tools!Init, Tools!Rights, Rights
  <1>2. PICK agent \in Tools!Agents : switches.section = Tools!Unset(agent)
        BY <1>1
  <1>6. ASSUME NEW d \in Domains
        PROVE  /\ switches.section[d] \in Sections /\ switches.section[d].on = FALSE
               /\ d = "mail" => switches.section[d].resource = agent
    <2>1. /\ Tools!Off \in Sections /\ Tools!Off.on = FALSE
          /\ [Tools!Off EXCEPT !.resource = agent] \in Sections
          /\ [Tools!Off EXCEPT !.resource = agent].on = FALSE
          /\ [Tools!Off EXCEPT !.resource = agent].resource = agent
          BY DEF Tools!Off, Sections, Tools!Agents
    <2>2. switches.section[d] = IF d = "mail" THEN [Tools!Off EXCEPT !.resource = agent] ELSE Tools!Off
          BY <1>2 DEF Tools!Unset
    <2> QED BY <2>1, <2>2
  <1>7. switches.section \in [Domains -> Sections]
        BY <1>2, <1>6 DEF Tools!Unset
  <1>3. switches \in Settings /\ (\A d \in Domains : switches.section[d].on = FALSE) /\ Fits(switches)
        BY <1>1, <1>6, <1>7 DEF Settings, Fits, Tools!Agents
  <1>4. registry \in Registries /\ server \in Registries
        BY <1>1 DEF Registries, Rights
  <1>5. command \in Commands /\ command.step = "none" /\ command.outcome = ""
    <2>1. <<>> \in FoundFiles /\ <<>> \in PlannedTools /\ <<>> \in PlannedRegistry
          BY DEF FoundFiles, PlannedTools, PlannedRegistry
    <2> QED BY <1>1, <2>1 DEF Tools!NoCommand, Commands
  <1> QED BY <1>3, <1>4, <1>5 DEF ToolsInv, ToolTypes, Granted, Tools!FailedChangesNothing

\* In the standard profile moving mails may come to be on; for which resource does not
\* change, and outside it what is on is as it was.
LEMMA EffectiveIs ==
    ASSUME NEW t \in Settings
    PROVE  /\ Tools!Effective(t) \in [Domains -> Sections]
           /\ \A d \in Domains : /\ Tools!Effective(t)[d].on => t.section[d].on \/ d = "mail"
                                 /\ Tools!Effective(t)[d].resource = t.section[d].resource
           /\ t.profile = "restricted" =>
                \A d \in Domains : Tools!Effective(t)[d].on => Tools!Effective(t)[d] = t.section[d]
  <1>1. ASSUME NEW d \in Domains
        PROVE  /\ Tools!Effective(t)[d] \in Sections
               /\ Tools!Effective(t)[d].on => t.section[d].on \/ d = "mail"
               /\ Tools!Effective(t)[d].resource = t.section[d].resource
               /\ t.profile = "restricted" /\ Tools!Effective(t)[d].on => Tools!Effective(t)[d] = t.section[d]
    <2> DEFINE whole == [t.section[d] EXCEPT !.on = TRUE, !.allow = Rights]
               none == [t.section[d] EXCEPT !.on = FALSE]
    <2>1. t.section[d] \in Sections
          BY DEF Settings
    <2>2. /\ whole \in Sections /\ whole.resource = t.section[d].resource
          /\ none \in Sections /\ none.on = FALSE /\ none.resource = t.section[d].resource
          BY <2>1 DEF Sections
    <2>3. Tools!Effective(t)[d] = IF Tools!Upgraded(t, d) THEN whole ELSE IF d = "mail" /\ ~t.mail THEN none ELSE t.section[d]
          BY DEF Tools!Effective, Tools!Rights, Rights
    <2>4. Tools!Upgraded(t, d) => t.profile # "restricted" /\ (t.section[d].on \/ d = "mail")
          BY DEF Tools!Upgraded
    <2> HIDE DEF whole, none
    <2> QED BY <2>1, <2>2, <2>3, <2>4
  <1>2. Tools!Effective(t) \in [Domains -> Sections]
        BY <1>1 DEF Tools!Effective
  <1> QED BY <1>1, <1>2

\* A command for one domain has planned what it writes.
LEMMA PlanKeeps ==
    ASSUME ToolsInv, command.step = "none", NEW t \in Settings, NEW r \in Registries, Tools!Plan(t, r),
           UNCHANGED <<switches, registry, server>>, Fits(t), t.profile = switches.profile,
           Restricted => Granted(t, r, Domains \ Spared) /\ Granted(switches, r, Domains \ {"orders"})
    PROVE  ToolsInv'
  <1>1. command \in Commands /\ switches \in Settings /\ registry \in Registries /\ server \in Registries
        BY DEF ToolsInv, ToolTypes
  <1>2. command' = [command EXCEPT !.step = IF r = registry THEN "tools" ELSE "registry",
                                   !.old = <<switches, registry>>, !.tools = <<t>>, !.registry = <<r>>,
                                   !.outcome = "", !.standard = FALSE, !.count = @ + 1]
        BY DEF Tools!Plan
  <1>3. /\ command'.step = (IF r = registry THEN "tools" ELSE "registry") /\ command'.old = <<switches, registry>>
        /\ command'.tools = <<t>> /\ command'.registry = <<r>> /\ command'.outcome = ""
        /\ command'.standard = FALSE /\ command'.cut = command.cut
        BY <1>1, <1>2 DEF Commands
  <1>4. command' \in Commands
    <2>1. /\ <<switches, registry>> \in FoundFiles /\ <<t>> \in PlannedTools /\ <<r>> \in PlannedRegistry
          BY <1>1 DEF FoundFiles, PlannedTools, PlannedRegistry
    <2>2. ASSUME NEW s \in {"registry", "tools"}, NEW o \in FoundFiles, NEW p \in PlannedTools,
                 NEW g \in PlannedRegistry, NEW n \in Nat
          PROVE  [command EXCEPT !.step = s, !.old = o, !.tools = p, !.registry = g, !.outcome = "",
                                 !.standard = FALSE, !.count = n] \in Commands
          BY <1>1 DEF Commands
    <2>3. command.count + 1 \in Nat
      <3>1. command.count \in Nat
            BY <1>1 DEF Commands
      <3> QED BY <3>1
    <2> QED BY <1>2, <2>1, <2>2, <2>3
  <1>5. /\ command'.tools[1] = t /\ command'.registry[1] = r
        /\ command'.old[1] = switches /\ command'.old[2] = registry
    <2>1. <<t>>[1] = t /\ <<r>>[1] = r /\ <<switches, registry>>[1] = switches /\ <<switches, registry>>[2] = registry
          OBVIOUS
    <2> QED BY <1>3, <2>1
  <1>6. command'.tools # <<>> /\ command'.registry # <<>> /\ command'.old # <<>>
    <2>1. <<t>> # <<>> /\ <<r>> # <<>> /\ <<switches, registry>> # <<>>
          OBVIOUS
    <2> QED BY <1>3, <2>1
  <1>7. Spared' = Spared /\ (Restricted <=> Restricted')
        BY <1>3 DEF Spared, Restricted
  <1>8. Restricted => Granted(switches, registry, Domains \ Spared)
        BY DEF ToolsInv
  <1> QED BY <1>1, <1>3, <1>4, <1>5, <1>6, <1>7, <1>8
          DEF ToolsInv, ToolTypes, Fits, Granted, Tools!FailedChangesNothing

\* The commands for one domain: its function gets its right, and every other that is on
\* keeps its own.
LEMMA DomainPlans ==
    ASSUME ToolsInv, command.step = "none", UNCHANGED <<switches, registry, server>>,
           NEW d \in Domains, NEW section \in Sections, NEW r \in Registries, NEW mail \in BOOLEAN,
           Tools!Plan([Tools!Updated(switches, d, section) EXCEPT !.mail = mail], r),
           section.on \/ d = "mail" => section.resource \in Resources /\ KindOfResource[section.resource] = KindOf[d],
           section.on => section.allow \subseteq r[section.resource],
           \A e \in Domains : e # d \/ e # "orders" =>
               (switches.section[e].on => registry[switches.section[e].resource] \subseteq r[switches.section[e].resource])
    PROVE  ToolsInv'
  <1>1. switches \in Settings /\ registry \in Registries /\ Fits(switches)
        /\ (Restricted => Granted(switches, registry, Domains \ Spared))
        BY DEF ToolsInv, ToolTypes
  <1> DEFINE E == Tools!Effective(switches)
             new == [E EXCEPT ![d] = section]
             t == [Tools!Updated(switches, d, section) EXCEPT !.mail = mail]
  <1>2. /\ E \in [Domains -> Sections]
        /\ \A e \in Domains : /\ E[e].on => switches.section[e].on \/ e = "mail"
                              /\ E[e].resource = switches.section[e].resource
        /\ Restricted => \A e \in Domains : E[e].on => E[e] = switches.section[e]
        BY <1>1, EffectiveIs DEF Restricted
  <1>3. new \in [Domains -> Sections] /\ new[d] = section /\ \A e \in Domains : e # d => new[e] = E[e]
    <2> HIDE DEF E
    <2> QED BY <1>2
  <1>4. t = [switches EXCEPT !.section = new, !.mail = mail]
        BY <1>1 DEF Tools!Updated, Settings
  <1>5. t \in Settings /\ t.section = new /\ t.profile = switches.profile
    <2> HIDE DEF t, new
    <2> QED BY <1>1, <1>3, <1>4 DEF Settings
  <1>6. Fits(t)
    <2> HIDE DEF t, new, E
    <2> QED BY <1>1, <1>2, <1>3, <1>5 DEF Fits
  <1>7. Restricted => Granted(t, r, Domains \ Spared)
    <2> SUFFICES ASSUME Restricted, NEW e \in Domains, e \notin Spared, t.section[e].on
                 PROVE  t.section[e].allow \subseteq r[t.section[e].resource]
        BY DEF Granted
    <2> HIDE DEF t, new, E
    <2>1. CASE e = d
          BY <1>3, <1>5, <2>1
    <2>2. CASE e # d
      <3>1. t.section[e] = switches.section[e]
            BY <1>2, <1>3, <1>5, <2>2
      <3>2. switches.section[e].allow \subseteq registry[switches.section[e].resource]
            BY <1>1, <3>1 DEF Granted
      <3> QED BY <2>2, <3>1, <3>2
    <2> QED BY <2>1, <2>2
  <1>8. Restricted => Granted(switches, r, Domains \ {"orders"})
    <2> SUFFICES ASSUME Restricted, NEW e \in Domains, e # "orders", switches.section[e].on
                 PROVE  switches.section[e].allow \subseteq r[switches.section[e].resource]
        BY DEF Granted
    <2>1. e \notin Spared
          BY DEF Spared
    <2>2. switches.section[e].allow \subseteq registry[switches.section[e].resource]
          BY <1>1, <2>1 DEF Granted
    <2> QED BY <2>2
  <1> HIDE DEF t, new, E
  <1>9. Tools!Plan(t, r)
        BY DEF t
  <1> QED BY <1>5, <1>6, <1>7, <1>8, <1>9, PlanKeeps

\* A right that is only added takes none from anyone.
LEMMA ExpandedIs ==
    ASSUME registry \in Registries, NEW resource \in Resources, NEW allow \in SUBSET Rights
    PROVE  /\ Tools!Expanded(resource, allow) \in Registries
           /\ allow \subseteq Tools!Expanded(resource, allow)[resource]
           /\ \A x \in Resources : registry[x] \subseteq Tools!Expanded(resource, allow)[x]
  BY DEF Registries, Tools!Expanded

\* A command that adds the rights it needs.
LEMMA ExpandedPlans ==
    ASSUME ToolsInv, command.step = "none", UNCHANGED <<switches, registry, server>>,
           NEW d \in Domains, NEW on \in BOOLEAN, NEW resource \in Resources, NEW allow \in SUBSET Rights,
           NEW mail \in BOOLEAN, KindOfResource[resource] = KindOf[d],
           Tools!Plan([Tools!Updated(switches, d, [on |-> on, resource |-> resource, allow |-> allow])
                          EXCEPT !.mail = mail],
                      Tools!Expanded(resource, allow))
    PROVE  ToolsInv'
  <1> DEFINE section == [on |-> on, resource |-> resource, allow |-> allow]
             r == Tools!Expanded(resource, allow)
  <1>1. section \in Sections /\ section.resource = resource /\ section.allow = allow
        BY DEF Sections
  <1>2. registry \in Registries /\ Fits(switches)
        BY DEF ToolsInv, ToolTypes
  <1>3. r \in Registries /\ allow \subseteq r[resource] /\ \A x \in Resources : registry[x] \subseteq r[x]
        BY <1>2, ExpandedIs
  <1>4. \A e \in Domains : switches.section[e].on => switches.section[e].resource \in Resources
        BY <1>2 DEF Fits
  <1>5. Tools!Plan([Tools!Updated(switches, d, section) EXCEPT !.mail = mail], r)
        OBVIOUS
  <1> HIDE DEF section, r
  <1> QED BY <1>1, <1>3, <1>4, <1>5, DomainPlans

\* A command that leaves mail.enabled alone.
LEMMA MailIsLeft ==
    ASSUME switches \in Settings, NEW d, NEW section
    PROVE  /\ [Tools!Updated(switches, d, section) EXCEPT !.mail = switches.mail] = Tools!Updated(switches, d, section)
           /\ switches.mail \in BOOLEAN
  BY DEF Settings, Tools!Updated

\* Every command for one domain.
LEMMA CommandsPlan ==
    ASSUME ToolsInv, NEW r \in Resources, NEW allow \in SUBSET Rights, NEW enable \in BOOLEAN, NEW approve \in BOOLEAN,
           \/ \E d \in Domains : Tools!Configure(d, r, allow, approve)
           \/ Tools!ConfigureWorkspace(r, allow, approve)
           \/ Tools!ConfigureOrders(r, allow, approve) \/ Tools!ConfigureMailTools(r, enable, approve)
    PROVE  ToolsInv'
  <1>0. /\ command.step = "none" /\ UNCHANGED <<switches, registry, server>>
        BY DEF Tools!Configure, Tools!ConfigureWorkspace, Tools!ConfigureOrders, Tools!ConfigureMailTools, Tools!Idle
  <1>00. switches \in Settings /\ registry \in Registries /\ Fits(switches)
         /\ (Restricted => Granted(switches, registry, Domains \ Spared))
         BY <1>0 DEF ToolsInv, ToolTypes
  <1>1. ASSUME NEW d \in Domains, Tools!Configure(d, r, allow, approve) PROVE ToolsInv'
    <2>1. /\ KindOfResource[r] = KindOf[d]
          /\ Tools!Plan(Tools!Updated(switches, d, [on |-> TRUE, resource |-> r, allow |-> allow]),
                        Tools!Expanded(r, allow))
          BY <1>1 DEF Tools!Configure
    <2>2. Tools!Plan([Tools!Updated(switches, d, [on |-> TRUE, resource |-> r, allow |-> allow])
                         EXCEPT !.mail = switches.mail],
                     Tools!Expanded(r, allow))
          BY <1>00, <2>1, MailIsLeft
    <2>3. switches.mail \in BOOLEAN
          BY <1>00, MailIsLeft
    <2> QED BY <1>0, <2>1, <2>2, <2>3, ExpandedPlans
  <1>2. CASE Tools!ConfigureWorkspace(r, allow, approve)
    <2>1. /\ "workspace" \in Domains /\ KindOfResource[r] = KindOf["workspace"]
          /\ Tools!Plan(Tools!Updated(switches, "workspace",
                                      [on |-> TRUE, resource |-> r, allow |-> allow \cup {"read"}]),
                        Tools!Expanded(r, allow \cup {"read"}))
          BY <1>2 DEF Tools!ConfigureWorkspace
    <2>2. allow \cup {"read"} \in SUBSET Rights
          BY DEF Rights
    <2>3. Tools!Plan([Tools!Updated(switches, "workspace",
                                    [on |-> TRUE, resource |-> r, allow |-> allow \cup {"read"}])
                         EXCEPT !.mail = switches.mail],
                     Tools!Expanded(r, allow \cup {"read"}))
          BY <1>00, <2>1, MailIsLeft
    <2>4. switches.mail \in BOOLEAN
          BY <1>00, MailIsLeft
    <2> QED BY <1>0, <2>1, <2>2, <2>3, <2>4, ExpandedPlans
  <1>4. CASE Tools!ConfigureOrders(r, allow, approve)
    <2> DEFINE section == [on |-> TRUE, resource |-> r, allow |-> allow]
               g == [registry EXCEPT ![r] = allow]
    <2>1. /\ "orders" \in Domains /\ KindOfResource[r] = KindOf["orders"]
          /\ Tools!Plan(Tools!Updated(switches, "orders", section), g)
          BY <1>4 DEF Tools!ConfigureOrders
    <2>2. section \in Sections /\ section.resource = r /\ section.allow = allow
          BY DEF Sections
    <2>3. g \in Registries /\ g[r] = allow /\ \A x \in Resources : x # r => g[x] = registry[x]
          BY <1>00 DEF Registries
    <2>4. \A e \in Domains : e # "orders" /\ switches.section[e].on =>
             switches.section[e].resource \in Resources \ {r}
          BY <1>00, <2>1, OperationsAssumption DEF Fits, OperationsAssumption
    <2> HIDE DEF section, g
    <2>5. Tools!Plan([Tools!Updated(switches, "orders", section) EXCEPT !.mail = switches.mail], g)
          BY <1>00, <2>1, MailIsLeft
    <2>6. switches.mail \in BOOLEAN
          BY <1>00, MailIsLeft
    <2> QED BY <1>0, <2>1, <2>2, <2>3, <2>4, <2>5, <2>6, DomainPlans
  <1>5. CASE Tools!ConfigureMailTools(r, enable, approve)
    <2>1. PICK on \in BOOLEAN :
             /\ "calendar_mail" \in Domains /\ KindOfResource[r] = KindOf["calendar_mail"]
             /\ Tools!Plan([Tools!Updated(switches, "calendar_mail",
                               [on |-> on, resource |-> r, allow |-> IF on THEN {"create"} ELSE {}]) EXCEPT !.mail = TRUE],
                           IF on THEN Tools!Expanded(r, {"create"}) ELSE registry)
      <3>1. (enable /\ (approve \/ "create" \in registry[r])) \in BOOLEAN
            OBVIOUS
      <3> QED BY <1>5, <3>1 DEF Tools!ConfigureMailTools
    <2>2. CASE on
      <3>1. {"create"} \in SUBSET Rights
            BY DEF Rights
      <3>2. Tools!Plan([Tools!Updated(switches, "calendar_mail", [on |-> on, resource |-> r, allow |-> {"create"}])
                           EXCEPT !.mail = TRUE],
                       Tools!Expanded(r, {"create"}))
            BY <2>1, <2>2
      <3> QED BY <1>0, <2>1, <3>1, <3>2, ExpandedPlans
    <2>3. CASE ~on
      <3> DEFINE section == [on |-> FALSE, resource |-> r, allow |-> {}]
      <3>1. section \in Sections /\ section.on = FALSE
            BY DEF Sections
      <3>2. Tools!Plan([Tools!Updated(switches, "calendar_mail", section) EXCEPT !.mail = TRUE], registry)
            BY <2>1, <2>3
      <3> HIDE DEF section
      <3> QED BY <1>0, <1>00, <2>1, <3>1, <3>2, DomainPlans
    <2> QED BY <2>2, <2>3
  <1> QED BY <1>1, <1>2, <1>4, <1>5

\* The switch of moving mails keeps its resource.
LEMMA MailPlans ==
    ASSUME ToolsInv, NEW enable \in BOOLEAN, NEW approve \in BOOLEAN, Tools!ConfigureMail(enable, approve)
    PROVE  ToolsInv'
  <1>0. command.step = "none" /\ UNCHANGED <<switches, registry, server>>
        BY DEF Tools!ConfigureMail, Tools!Idle
  <1>1. switches \in Settings /\ Fits(switches)
        BY DEF ToolsInv, ToolTypes
  <1>2. PICK rights \in SUBSET Rights :
           /\ "mail" \in Domains
           /\ Tools!Plan(Tools!Updated(switches, "mail",
                             [on |-> enable, resource |-> switches.section["mail"].resource, allow |-> rights]),
                         Tools!Expanded(switches.section["mail"].resource, rights))
    <2>1. {"read", "update"} \in SUBSET Rights /\ {"read"} \in SUBSET Rights
          BY DEF Rights
    <2> QED BY <2>1 DEF Tools!ConfigureMail
  <1>3. PICK resource \in Resources :
           resource = switches.section["mail"].resource /\ KindOfResource[resource] = KindOf["mail"]
        BY <1>1, <1>2 DEF Fits
  <1> QED BY <1>0, <1>1, <1>2, <1>3, MailIsLeft, ExpandedPlans

\* The command without a resource of its own writes what it found.
LEMMA PortfolioPlans ==
    ASSUME ToolsInv, NEW enable \in BOOLEAN, NEW approve \in BOOLEAN, Tools!ConfigurePortfolio(enable, approve)
    PROVE  ToolsInv'
  <1>0. command.step = "none" /\ UNCHANGED <<switches, registry, server>>
        BY DEF Tools!ConfigurePortfolio, Tools!Idle
  <1>00. switches \in Settings /\ registry \in Registries /\ Fits(switches)
         /\ (Restricted => Granted(switches, registry, Domains \ Spared))
         BY <1>0 DEF ToolsInv, ToolTypes
  <1> DEFINE t == [switches EXCEPT !.section = Tools!Effective(switches)]
  <1>1. Tools!Plan(t, registry)
        BY DEF Tools!ConfigurePortfolio
  <1>2. /\ Tools!Effective(switches) \in [Domains -> Sections]
        /\ \A e \in Domains : /\ Tools!Effective(switches)[e].on => switches.section[e].on \/ e = "mail"
                              /\ Tools!Effective(switches)[e].resource = switches.section[e].resource
        /\ Restricted => \A e \in Domains :
                            Tools!Effective(switches)[e].on => Tools!Effective(switches)[e] = switches.section[e]
        BY <1>00, EffectiveIs DEF Restricted
  <1>3. t \in Settings /\ t.section = Tools!Effective(switches) /\ t.profile = switches.profile
        BY <1>00, <1>2 DEF Settings
  <1> HIDE DEF t
  <1>4. Fits(t)
        BY <1>00, <1>2, <1>3 DEF Fits
  <1>5. Restricted => Granted(t, registry, Domains \ Spared)
        BY <1>00, <1>2, <1>3 DEF Granted
  <1>6. Restricted => Granted(switches, registry, Domains \ {"orders"})
        BY <1>00 DEF Granted, Spared
  <1> QED BY <1>0, <1>00, <1>1, <1>3, <1>4, <1>5, <1>6, PlanKeeps

\* The check of the server, and the plan of the standard profile.
LEMMA StandardPlans ==
    ASSUME ToolsInv, Tools!Verify \/ Tools!Standard
    PROVE  ToolsInv'
  <1>0. /\ UNCHANGED <<switches, registry, server>> /\ command \in Commands
        /\ switches \in Settings /\ registry \in Registries /\ server \in Registries /\ Fits(switches)
        BY DEF Tools!Verify, Tools!Standard, ToolsInv, ToolTypes
  <1>1. CASE Tools!Verify
    <2> DEFINE v == Tools!Verified
    <2>1. v \in Registries
          BY <1>0 DEF Tools!Verified, Registries
    <2>2. /\ command.step = "none"
          /\ command' = [command EXCEPT !.step = "verified", !.verified = <<v>>, !.standard = TRUE,
                                        !.outcome = "", !.count = @ + 1]
          BY <1>1 DEF Tools!Verify, Tools!Idle
    <2> HIDE DEF v
    <2>3. /\ command'.step = "verified" /\ command'.outcome = "" /\ command'.cut = command.cut
          /\ command'.verified = <<v>>
          BY <1>0, <2>2 DEF Commands
    <2>4. command' \in Commands
      <3>1. <<v>> \in PlannedRegistry
            BY <2>1 DEF PlannedRegistry
      <3>2. ASSUME NEW g \in PlannedRegistry, NEW n \in Nat
            PROVE  [command EXCEPT !.step = "verified", !.verified = g, !.standard = TRUE,
                                   !.outcome = "", !.count = n] \in Commands
            BY <1>0 DEF Commands
      <3>3. command.count \in Nat
            BY <1>0 DEF Commands
      <3>4. command.count + 1 \in Nat
            BY <3>3
      <3> QED BY <2>2, <3>1, <3>2, <3>4
    <2>5. command'.verified # <<>>
      <3>1. <<v>> # <<>>
            OBVIOUS
      <3> QED BY <2>3, <3>1
    <2>6. Spared' = Spared
          BY <2>3 DEF Spared
    <2> QED BY <1>0, <2>2, <2>3, <2>4, <2>5, <2>6
            DEF ToolsInv, ToolTypes, Fits, Granted, Restricted, Tools!FailedChangesNothing
  <1>2. CASE Tools!Standard
    <2>0. command.step = "verified" /\ command.verified # <<>> /\ command.outcome = ""
          BY <1>2 DEF Tools!Standard, ToolsInv
    <2>1. CASE command' = [command EXCEPT !.step = "none", !.outcome = "error", !.old = <<switches, registry>>]
      <3>1. <<switches, registry>> \in FoundFiles
            BY <1>0 DEF FoundFiles
      <3>2. command' \in Commands /\ command'.step = "none" /\ command'.old = <<switches, registry>>
            /\ command'.cut = command.cut
            BY <1>0, <2>1, <3>1 DEF Commands
      <3>3. Spared' = Spared
            BY <3>2 DEF Spared
      <3>4. UNCHANGED <<switches, registry, server>>
            BY <1>2 DEF Tools!Standard
      <3>5. <<switches, registry>>[1] = switches /\ <<switches, registry>>[2] = registry
            OBVIOUS
      <3>6. command'.outcome = "error"
            BY <1>0, <2>1 DEF Commands
      <3>7. Restricted => Granted(switches, registry, Domains \ Spared)
            BY <2>0 DEF ToolsInv
      <3>8. UNCHANGED <<Restricted, Fits(switches), Granted(switches, registry, Domains \ Spared)>>
            BY <3>3, <3>4 DEF Restricted, Fits, Granted
      <3>9. ToolTypes'
            BY <1>0, <3>2, <3>4 DEF ToolTypes, ToolsInv
      <3>10. Tools!FailedChangesNothing'
            BY <3>2, <3>4, <3>6 DEF Tools!FailedChangesNothing
      <3> QED BY <1>0, <3>2, <3>7, <3>8, <3>9, <3>10 DEF ToolsInv
    <2>2. CASE ~(Tools!Blocked # {} \/ Tools!Used = {})
      <3> DEFINE t == [profile |-> "standard", mail |-> switches.mail,
                       section |-> Tools!Effective([switches EXCEPT !.profile = "standard"])]
                 r == [x \in Resources |->
                         IF \E d \in Tools!Used : Tools!ResourceOf(d) = x /\ Tools!Lacking(d) # {}
                         THEN registry[x] \cup command.verified[1][x] ELSE registry[x]]
      <3>1. command' = [command EXCEPT !.step = IF r = registry THEN "tools" ELSE "registry",
                                       !.old = <<switches, registry>>, !.tools = <<t>>, !.registry = <<r>>]
            BY <1>2, <2>2 DEF Tools!Standard
      <3>2. r \in Registries /\ \A x \in Resources : registry[x] \subseteq r[x]
        <4>1. command.verified[1] \in Registries
              BY <1>0, <2>0, CommandHas
        <4> QED BY <1>0, <4>1 DEF Registries
      <3>3. t \in Settings /\ t.profile = "standard" /\ Fits(t)
        <4> DEFINE u == [switches EXCEPT !.profile = "standard"]
        <4>1. u \in Settings /\ u.section = switches.section
              BY <1>0 DEF Settings
        <4> HIDE DEF u
        <4>2. /\ Tools!Effective(u) \in [Domains -> Sections]
              /\ \A d \in Domains : /\ Tools!Effective(u)[d].on => switches.section[d].on \/ d = "mail"
                                    /\ Tools!Effective(u)[d].resource = switches.section[d].resource
              BY <4>1, EffectiveIs
        <4>3. t = [profile |-> "standard", mail |-> switches.mail, section |-> Tools!Effective(u)]
              BY DEF u
        <4>4. switches.mail \in BOOLEAN
              BY <1>0 DEF Settings
        <4> HIDE DEF t
        <4> QED BY <1>0, <4>2, <4>3, <4>4 DEF Settings, Fits
      <3> HIDE DEF t, r
      <3>4. /\ command'.step = (IF r = registry THEN "tools" ELSE "registry") /\ command'.old = <<switches, registry>>
            /\ command'.tools = <<t>> /\ command'.registry = <<r>> /\ command'.outcome = command.outcome
            /\ command'.standard = command.standard /\ command'.cut = command.cut
            BY <1>0, <3>1 DEF Commands
      <3>5. command' \in Commands
        <4>1. /\ <<switches, registry>> \in FoundFiles /\ <<t>> \in PlannedTools /\ <<r>> \in PlannedRegistry
              BY <1>0, <3>2, <3>3 DEF FoundFiles, PlannedTools, PlannedRegistry
        <4>2. ASSUME NEW x \in {"registry", "tools"}, NEW o \in FoundFiles, NEW p \in PlannedTools,
                     NEW g \in PlannedRegistry
              PROVE  [command EXCEPT !.step = x, !.old = o, !.tools = p, !.registry = g] \in Commands
              BY <1>0 DEF Commands
        <4> QED BY <3>1, <4>1, <4>2
      <3>6. /\ command'.tools[1] = t /\ command'.registry[1] = r
            /\ command'.old[1] = switches /\ command'.old[2] = registry
        <4>1. <<t>>[1] = t /\ <<r>>[1] = r /\ <<switches, registry>>[1] = switches /\ <<switches, registry>>[2] = registry
              OBVIOUS
        <4> QED BY <3>4, <4>1
      <3>7. command'.tools # <<>> /\ command'.registry # <<>> /\ command'.old # <<>>
        <4>1. <<t>> # <<>> /\ <<r>> # <<>> /\ <<switches, registry>> # <<>>
              OBVIOUS
        <4> QED BY <3>4, <4>1
      <3>8. Restricted => Granted(switches, registry, Domains \ Spared)
            BY <2>0 DEF ToolsInv
      <3>9. Restricted => Granted(switches, r, Domains \ Spared) /\ Granted(switches, r, Domains \ {"orders"})
            BY <1>0, <3>2, <3>8 DEF Granted, Spared, Fits
      <3>10. command.standard
            BY <2>0 DEF ToolsInv
      <3>11. Spared' = Spared
            BY <3>4 DEF Spared
      <3>12. command'.standard = TRUE /\ command'.outcome = ""
            BY <1>0, <2>0, <3>4, <3>10 DEF Commands
      <3> QED BY <1>0, <3>3, <3>4, <3>5, <3>6, <3>7, <3>8, <3>9, <3>11, <3>12
              DEF ToolsInv, ToolTypes, Fits, Granted, Restricted, Tools!FailedChangesNothing
    <2> QED BY <1>2, <2>1, <2>2 DEF Tools!Standard
  <1> QED BY <1>1, <1>2

LEMMA ToolsSteps == ToolsInv /\ [Tools!Next]_toolsVars => ToolsInv'
  <1> SUFFICES ASSUME ToolsInv, [Tools!Next]_toolsVars PROVE ToolsInv'
      OBVIOUS
  <1>0. /\ command \in Commands /\ switches \in Settings /\ registry \in Registries /\ server \in Registries
        /\ Fits(switches)
        BY DEF ToolsInv, ToolTypes
  <1>1. ASSUME NEW r \in Resources, NEW allow \in SUBSET Rights, NEW enable \in BOOLEAN, NEW approve \in BOOLEAN,
               \/ Tools!ConfigureCalendar(r, allow, approve) \/ Tools!ConfigureTasks(r, allow, approve)
               \/ Tools!ConfigureContacts(r, allow, approve) \/ Tools!ConfigureWorkspace(r, allow, approve)
               \/ Tools!ConfigureOrders(r, allow, approve) \/ Tools!ConfigureMailTools(r, enable, approve)
        PROVE  ToolsInv'
    <2>1. \A d : Tools!Configure(d, r, allow, approve) => d \in Domains
          BY DEF Tools!Configure
    <2> QED BY <1>1, <2>1, CommandsPlan
            DEF Tools!ConfigureCalendar, Tools!ConfigureTasks, Tools!ConfigureContacts
  <1>2. CASE Tools!Verify \/ Tools!Standard
        BY <1>2, StandardPlans
  <1>3. CASE Tools!WriteRegistry
    <2>1. /\ command.step = "registry" /\ registry' = command.registry[1]
          /\ command' = [command EXCEPT !.step = "tools"] /\ UNCHANGED <<switches, server>>
          BY <1>3 DEF Tools!WriteRegistry
    <2>2. command' \in Commands
          BY <1>0, <2>1 DEF Commands
    <2>3. /\ command'.step = "tools" /\ command'.cut = command.cut /\ command'.old = command.old
          /\ command'.tools = command.tools /\ command'.registry = command.registry
          /\ command'.standard = command.standard /\ command'.outcome = command.outcome
          BY <1>0, <2>1 DEF Commands
    <2>4. registry' \in Registries
          BY <1>0, <2>1, CommandHas DEF ToolsInv
    <2>5. Spared' = Spared /\ (Restricted' <=> Restricted)
          BY <2>1, <2>3 DEF Spared, Restricted
    <2> QED BY <1>0, <2>1, <2>2, <2>3, <2>4, <2>5
            DEF ToolsInv, ToolTypes, Fits, Granted, Tools!FailedChangesNothing
  <1>4. CASE Tools!WriteTools
    <2>1. /\ command.step = "tools" /\ switches' = command.tools[1] /\ UNCHANGED <<registry, server>>
          /\ command' = [Tools!NoCommand EXCEPT !.outcome = "ok", !.count = command.count, !.cut = command.cut,
                            !.upgraded = command.upgraded \/ command.tools[1].profile = "standard"]
          BY <1>4 DEF Tools!WriteTools
    <2>2. command' \in Commands /\ command'.step = "none" /\ command'.outcome = "ok" /\ command'.cut = command.cut
      <3>1. Tools!NoCommand \in Commands /\ Tools!NoCommand.step = "none"
        <4>1. <<>> \in FoundFiles /\ <<>> \in PlannedTools /\ <<>> \in PlannedRegistry
              BY DEF FoundFiles, PlannedTools, PlannedRegistry
        <4> QED BY <4>1 DEF Tools!NoCommand, Commands
      <3>2. (command.upgraded \/ command.tools[1].profile = "standard") \in BOOLEAN
            OBVIOUS
      <3>3. command.count \in Nat /\ command.cut \in BOOLEAN
            BY <1>0 DEF Commands
      <3>5. PICK u \in BOOLEAN : u = (command.upgraded \/ command.tools[1].profile = "standard")
            BY <3>2
      <3>6. PICK n \in Commands : n = Tools!NoCommand
            BY <3>1
      <3>7. PICK k \in Nat, c \in BOOLEAN : k = command.count /\ c = command.cut
            BY <3>3
      <3>8. n.step = "none" /\ command' = [n EXCEPT !.outcome = "ok", !.count = k, !.cut = c, !.upgraded = u]
            BY <2>1, <3>1, <3>5, <3>6, <3>7
      <3>9. command' \in Commands /\ command'.step = "none" /\ command'.outcome = "ok" /\ command'.cut = c
            BY <3>8 DEF Commands
      <3> QED BY <3>7, <3>9
    <2>3. switches' \in Settings /\ Fits(switches')
          BY <1>0, <2>1, CommandHas DEF ToolsInv
    <2>4. Restricted' => Granted(switches', registry', Domains \ Spared')
      <3>1. Spared' = Spared /\ registry = command.registry[1]
            BY <2>1, <2>2 DEF Spared, ToolsInv
      <3>2. Restricted' => command.tools[1].profile = "restricted"
            BY <2>1 DEF Restricted, ToolsInv
      <3>3. command.tools[1].profile = "restricted" => ~command.standard /\ Restricted
            BY <2>1 DEF ToolsInv, Restricted
      <3>4. ~command.standard /\ Restricted => Granted(command.tools[1], command.registry[1], Domains \ Spared)
            BY <2>1 DEF ToolsInv
      <3> QED BY <2>1, <3>1, <3>2, <3>3, <3>4
    <2> QED BY <1>0, <2>1, <2>2, <2>3, <2>4 DEF ToolsInv, ToolTypes, Fits, Granted, Tools!FailedChangesNothing
  <1>5. CASE Tools!Fails
    <2>1. /\ command.step \in {"registry", "tools"} /\ UNCHANGED <<switches, server>>
          /\ registry' = IF command.standard /\ command.step = "tools" THEN command.old[2] ELSE registry
          /\ command' = [command EXCEPT !.step = "none", !.outcome = "error",
                                        !.cut = @ \/ (command.step = "tools" /\ ~command.standard)]
          BY <1>5 DEF Tools!Fails, Tools!Restored
    <2>2. PICK c \in BOOLEAN : c <=> (command.cut \/ (command.step = "tools" /\ ~command.standard))
          OBVIOUS
    <2>3. command' = [command EXCEPT !.step = "none", !.outcome = "error", !.cut = c]
      <3>1. command.cut \in BOOLEAN
            BY <1>0 DEF Commands
      <3>2. c = (command.cut \/ (command.step = "tools" /\ ~command.standard))
            BY <2>2, <3>1
      <3> QED BY <2>1, <3>2
    <2>4. /\ command' \in Commands /\ command'.step = "none" /\ command'.cut = c
          /\ command'.old = command.old /\ command'.standard = command.standard
          BY <1>0, <2>3 DEF Commands
    <2>5. /\ command.old[2] \in Registries /\ command.old = <<switches, command.old[2]>>
          /\ command.step = "registry" => command.old[2] = registry
          BY <1>0, <2>1, CommandHas DEF ToolsInv
    <2>6. registry' \in Registries
          BY <1>0, <2>1, <2>5
    <2>7. Restricted => Granted(switches, registry', Domains \ Spared')
      <3>1. CASE command.step = "registry"
        <4>1. Spared' = Spared /\ registry' = registry
              BY <2>1, <2>2, <2>4, <3>1 DEF Spared
        <4> QED BY <3>1, <4>1 DEF ToolsInv
      <3>2. CASE command.step = "tools" /\ command.standard
        <4>1. Spared' = Spared /\ registry' = command.old[2]
              BY <2>1, <2>2, <2>4, <3>2 DEF Spared
        <4> QED BY <3>2, <4>1 DEF ToolsInv
      <3>3. CASE command.step = "tools" /\ ~command.standard
        <4>1. Spared' = {"orders"} /\ registry' = registry
              BY <2>1, <2>2, <2>4, <3>3 DEF Spared
        <4> QED BY <3>3, <4>1 DEF ToolsInv
      <3> QED BY <2>1, <3>1, <3>2, <3>3
    <2>8. Tools!FailedChangesNothing'
      <3>1. CASE command.standard
        <4>1. registry' = command.old[2]
              BY <2>1, <2>5, <3>1
        <4> QED BY <2>1, <2>4, <2>5, <4>1 DEF Tools!FailedChangesNothing
      <3>2. CASE ~command.standard
            BY <2>4, <3>2 DEF Tools!FailedChangesNothing
      <3> QED BY <3>1, <3>2
    <2> QED BY <1>0, <2>1, <2>4, <2>6, <2>7, <2>8 DEF ToolsInv, ToolTypes, Restricted, Fits
  <1>12. CASE Tools!Dies
    <2>1. /\ command.step # "none" /\ UNCHANGED <<switches, registry, server>>
          /\ command' = [command EXCEPT !.step = "none", !.outcome = "", !.cut = @ \/ command.step = "tools"]
          BY <1>12 DEF Tools!Dies
    <2>2. PICK c \in BOOLEAN : c <=> (command.cut \/ command.step = "tools")
          OBVIOUS
    <2>3. command' = [command EXCEPT !.step = "none", !.outcome = "", !.cut = c]
      <3>1. command.cut \in BOOLEAN
            BY <1>0 DEF Commands
      <3>2. c = (command.cut \/ command.step = "tools")
            BY <2>2, <3>1
      <3> QED BY <2>1, <3>2
    <2>4. command' \in Commands /\ command'.step = "none" /\ command'.cut = c /\ command'.outcome = ""
          BY <1>0, <2>3 DEF Commands
    <2>5. Restricted => Granted(switches, registry, Domains \ Spared')
      <3>1. CASE command.step = "tools"
        <4>1. Spared' = {"orders"}
              BY <2>2, <2>4, <3>1 DEF Spared
        <4> QED BY <3>1, <4>1 DEF ToolsInv
      <3>2. CASE command.step # "tools"
        <4>1. Spared' = Spared
              BY <2>2, <2>4, <3>2 DEF Spared
        <4> QED BY <3>2, <4>1 DEF ToolsInv
      <3> QED BY <3>1, <3>2
    <2> QED BY <1>0, <2>1, <2>4, <2>5 DEF ToolsInv, ToolTypes, Restricted, Fits, Granted, Tools!FailedChangesNothing
  <1>6. CASE Tools!Regrant
    <2>1. UNCHANGED <<switches, registry, command>> /\ server' \in Registries
      <3>1. PICK r \in Resources :
               server' = [server EXCEPT ![r] = IF @ = Rights THEN {"read"} ELSE Rights]
            BY <1>6 DEF Tools!Regrant, Tools!Rights, Rights
      <3>2. server' \in Registries
            BY <1>0, <3>1 DEF Registries, Rights
      <3> QED BY <1>6, <3>2 DEF Tools!Regrant
    <2> QED BY <2>1 DEF ToolsInv, ToolTypes, Fits, Granted, Spared, Restricted, Tools!FailedChangesNothing
  <1>7. CASE UNCHANGED toolsVars
        BY <1>7 DEF toolsVars, ToolsInv, ToolTypes, Fits, Granted, Spared, Restricted, Tools!FailedChangesNothing
  <1>8. Tools!Rights = Rights
        BY DEF Tools!Rights, Rights
  <1>9. CASE \E r \in Resources, allow \in SUBSET Rights, approve \in BOOLEAN :
               \/ Tools!ConfigureCalendar(r, allow, approve) \/ Tools!ConfigureTasks(r, allow, approve)
               \/ Tools!ConfigureContacts(r, allow, approve)
               \/ Tools!ConfigureWorkspace(r, allow, approve) \/ Tools!ConfigureOrders(r, allow, approve)
        BY <1>1, <1>9
  <1>10. CASE \E enable, approve \in BOOLEAN : Tools!ConfigureMail(enable, approve) \/ Tools!ConfigurePortfolio(enable, approve)
        BY <1>10, MailPlans, PortfolioPlans
  <1>11. CASE \E r \in Resources, enable, approve \in BOOLEAN : Tools!ConfigureMailTools(r, enable, approve)
    <2>1. {} \in SUBSET Rights
          OBVIOUS
    <2> QED BY <1>1, <1>11, <2>1
  <1>13. CASE Tools!RestoreFails
    <2>1. /\ command.step = "tools" /\ command.standard /\ UNCHANGED <<switches, registry, server>>
          /\ command' = [command EXCEPT !.step = "none", !.outcome = "stuck"]
          BY <1>13 DEF Tools!RestoreFails
    <2>2. /\ command' \in Commands /\ command'.step = "none" /\ command'.cut = command.cut
          /\ command'.outcome = "stuck" /\ command'.old = command.old /\ command'.registry = command.registry
          BY <1>0, <2>1 DEF Commands
    <2>3. command.old[1] = switches /\ command.registry[1] = registry
          BY <2>1 DEF ToolsInv
    <2>4. Restricted => Granted(switches, registry, Domains \ Spared')
      <3>1. Spared' = Spared
            BY <2>2 DEF Spared
      <3> QED BY <2>1, <2>3, <3>1 DEF ToolsInv
    <2>5. Tools!FailedChangesNothing'
          BY <2>1, <2>2, <2>3 DEF Tools!FailedChangesNothing
    <2> QED BY <1>0, <2>1, <2>2, <2>4, <2>5 DEF ToolsInv, ToolTypes, Restricted, Fits, Granted
  <1> QED BY <1>2, <1>3, <1>4, <1>5, <1>6, <1>7, <1>8, <1>9, <1>10, <1>11, <1>12, <1>13 DEF Tools!Next

\* Outside the standard profile what is on is granted, and a failed standard setup
\* leaves both files as they were.
THEOREM SetupsAreWhole == AllSpec => []SetupIsWhole
  <1> DEFINE I == turn = "tools" => ToolsInv
  <1>1. AllInit => I
        BY ToolsStart DEF AllInit
  <1>2. I /\ [AllNext]_allVars => I'
        BY OneTurn, ToolsSteps
  <1>3. I => SetupIsWhole
    <2>1. ASSUME ToolsInv PROVE Tools!EnabledIsGranted
      <3> SUFFICES ASSUME Restricted
                   PROVE  Granted(switches, registry,
                                  Domains \ (IF command.cut \/ command.step = "tools" THEN {"orders"} ELSE {}))
          BY DEF Tools!EnabledIsGranted, Granted, Restricted
      <3>1. CASE command.step = "tools"
            BY <2>1, <3>1 DEF ToolsInv
      <3>2. CASE command.step # "tools"
            BY <2>1, <3>2 DEF ToolsInv, Spared
      <3> QED BY <3>1, <3>2
    <2> QED BY <2>1 DEF SetupIsWhole, Tools!SetupIsWhole, ToolsInv
  <1> QED BY <1>1, <1>2, <1>3, PTL DEF AllSpec

-----------------------------------------------------------------------------
(* NextcloudSync: "ok" means whole, and nothing that is there is removed *)

Filed(p) == inventory[p] # <<>>
EtagOf(p) == IF Filed(p) THEN inventory[p][1].etag ELSE 0

CloudFits ==
    /\ cloud = [p \in CloudPaths |-> cloud[p]] /\ etags \in Nat
    /\ \A p \in Sync!Present : cloud[p][1].uid \in ObjectUids /\ cloud[p][1].etag \in 1..etags
    /\ \A p, q \in Sync!Present :
          p # q => cloud[p][1].uid # cloud[q][1].uid /\ cloud[p][1].etag # cloud[q][1].etag

KnowledgeFits ==
    /\ inventory = [p \in CloudPaths |-> inventory[p]] /\ documents = [s \in Sync!Sources |-> documents[s]]
    /\ \A p \in CloudPaths : Filed(p) => inventory[p][1].source \in Sync!Sources /\ inventory[p][1].etag \in 1..etags
    /\ \A s \in Sync!Sources : documents[s] \in 0..etags

\* What was listed is what is there, as far as nobody touched it.
ListingFits ==
    /\ DOMAIN sync.listing \subseteq CloudPaths /\ sync.left \subseteq DOMAIN sync.listing
    /\ \A c \in DOMAIN sync.listing : sync.listing[c].etag \in 1..etags
    /\ \A c \in DOMAIN sync.listing \ meddled : cloud[c] # <<>> /\ cloud[c][1] = sync.listing[c]
    /\ \A p \in Sync!Present \ meddled, c \in DOMAIN sync.listing :
          sync.listing[c].etag = cloud[p][1].etag => c = p
    /\ sync.whole /\ ~torn => Sync!Present \ meddled \subseteq DOMAIN sync.listing

FoundFits ==
    /\ sync.found # <<>> /\ sync.found[1].source \in Sync!Sources /\ sync.found[1].etag \in 1..etags
    /\ Sync!Current \notin meddled => sync.found[1].etag = Sync!Etag

SyncGoes(at, left, found, failed) ==
    sync' = [at |-> at, listing |-> sync.listing, whole |-> sync.whole, left |-> left, next |-> sync.next,
             found |-> found, failed |-> failed]

SyncShape ==
    /\ sync = [at |-> sync.at, listing |-> sync.listing, whole |-> sync.whole, left |-> sync.left,
               next |-> sync.next, found |-> sync.found, failed |-> sync.failed]
    /\ sync.at \in {"rest", "batch", "moved", "indexed", "save"} /\ sync.next \in Nat

RunFits ==
    /\ SyncShape
    /\ sync.at # "rest" => ListingFits
    /\ sync.at = "moved" => sync.left # {} /\ Sync!Moved
    /\ sync.at = "indexed" => sync.left # {} /\ FoundFits
    /\ sync.at = "save" => sync.left = {}

CursorFits == cursor = [generation |-> cursor.generation, offset |-> cursor.offset] /\ cursor.offset \in Nat

SyncTypes == CloudFits /\ KnowledgeFits /\ RunFits /\ CursorFits

-----------------------------------------------------------------------------
LEMMA SyncCount == ASSUME NEW S PROVE Sync!Cardinality(S) = Cardinality(S)
  BY DEF Sync!Cardinality, Cardinality

\* Every set of numbers has a least one.
LEMMA LeastPath == ASSUME NEW S, S \subseteq Nat, S # {} PROVE \E x \in S : \A y \in S : x =< y
  <1>1. PICK R : R = {p \in Nat \X Nat : p[1] < p[2]}
        OBVIOUS
  <1>2. IsWellFoundedOn(R, Nat)
        BY <1>1, NatLessThanWellFounded DEF OpToRel
  <1>3. PICK x \in S : \A y \in S : ~ (<<y, x>> \in R)
        BY <1>2, WFMin
  <1>4. \A y \in S : x =< y
    <2> TAKE y \in S
    <2>1. x \in Nat /\ y \in Nat /\ <<y, x>> \notin R
          BY <1>3
    <2>2. <<y, x>> \in R <=> y < x
          BY <1>1, <2>1
    <2> QED BY <2>1, <2>2
  <1> QED BY <1>4

LEMMA CurrentIsLeft ==
    ASSUME OperationsAssumption, ListingFits, sync.left # {}
    PROVE  Sync!Current \in sync.left /\ Sync!Current \in DOMAIN sync.listing /\ Sync!Current \in CloudPaths
  <1>1. sync.left \subseteq Nat /\ sync.left \subseteq DOMAIN sync.listing /\ DOMAIN sync.listing \subseteq CloudPaths
        BY DEF ListingFits, OperationsAssumption
  <1>2. \E x \in sync.left : \A y \in sync.left : x =< y
        BY <1>1, LeastPath
  <1>3. Sync!Current \in sync.left
        BY <1>2 DEF Sync!Current, Sync!Min
  <1> QED BY <1>1, <1>3

LEMMA MovedFromOne ==
    ASSUME OperationsAssumption, Sync!Moved
    PROVE  \E q \in CloudPaths \ {Sync!Current} :
              /\ Sync!MovedFrom = {q} /\ Filed(q) /\ inventory[q][1].etag = Sync!Etag
              /\ (CHOOSE r \in Sync!MovedFrom : TRUE) = q
  <1>1. IsFiniteSet(Sync!MovedFrom)
    <2>1. Sync!MovedFrom \in SUBSET CloudPaths /\ IsFiniteSet(CloudPaths)
          BY DEF Sync!MovedFrom, OperationsAssumption
    <2> QED BY <2>1, FS_Subset
  <1>2. Cardinality(Sync!MovedFrom) = 1
        BY SyncCount DEF Sync!Moved
  <1>3. PICK q : Sync!MovedFrom = {q}
        BY <1>1, <1>2, FS_Singleton
  <1>4. q \in CloudPaths \ {Sync!Current} /\ Filed(q) /\ inventory[q][1].etag = Sync!Etag
        BY <1>3 DEF Sync!MovedFrom, Filed
  <1> QED BY <1>3, <1>4

-----------------------------------------------------------------------------
(* What each step does to the run *)

LEMMA RunSteps ==
    ASSUME SyncShape
    PROVE  /\ Sync!Skip => SyncGoes("batch", sync.left \ {Sync!Current}, <<>>, sync.failed)
           /\ Sync!Relocate => SyncGoes("moved", sync.left, sync.found, sync.failed)
           /\ Sync!MoveInventory => SyncGoes("batch", sync.left \ {Sync!Current}, <<>>, sync.failed)
           /\ Sync!KeepInventory => SyncGoes("batch", sync.left \ {Sync!Current}, <<>>, sync.failed)
           /\ Sync!IndexFails => SyncGoes("batch", sync.left \ {Sync!Current}, <<>>, TRUE)
           /\ Sync!Reconcile => SyncGoes("save", sync.left, sync.found, sync.failed)
  <1>1. PICK left : left = sync.left \ {Sync!Current}
        OBVIOUS
  <1>2. PICK done : done = [sync EXCEPT !.at = "batch", !.left = left, !.found = <<>>]
        OBVIOUS
  <1>3. PICK failed : failed = [done EXCEPT !.failed = TRUE]
        OBVIOUS
  <1>4. done = [at |-> "batch", listing |-> sync.listing, whole |-> sync.whole, left |-> left,
                next |-> sync.next, found |-> <<>>, failed |-> sync.failed]
        BY <1>2 DEF SyncShape
  <1>5. failed = [at |-> "batch", listing |-> sync.listing, whole |-> sync.whole, left |-> left,
                  next |-> sync.next, found |-> <<>>, failed |-> TRUE]
        BY <1>3, <1>4
  <1>6. Sync!Done = done
        BY <1>1, <1>2 DEF Sync!Done
  <1>7. Sync!Skip => sync' = Sync!Done
        BY DEF Sync!Skip
  <1>8. Sync!MoveInventory \/ Sync!KeepInventory => sync' = Sync!Done
        BY DEF Sync!MoveInventory, Sync!KeepInventory
  <1>9. Sync!IndexFails => sync' = failed
        BY <1>3, <1>6 DEF Sync!IndexFails
  <1>10. Sync!Relocate => SyncGoes("moved", sync.left, sync.found, sync.failed)
        BY DEF Sync!Relocate, SyncShape, SyncGoes
  <1>11. Sync!Reconcile => SyncGoes("save", sync.left, sync.found, sync.failed)
        BY DEF Sync!Reconcile, SyncShape, SyncGoes
  <1> QED BY <1>1, <1>4, <1>5, <1>6, <1>7, <1>8, <1>9, <1>10, <1>11 DEF SyncGoes

LEMMA AsleepIs ==
    /\ Sync!Asleep.at = "rest" /\ Sync!Asleep.next = 0 /\ Sync!Asleep.left = {}
    /\ Sync!Asleep = [at |-> Sync!Asleep.at, listing |-> Sync!Asleep.listing, whole |-> Sync!Asleep.whole,
          left |-> Sync!Asleep.left, next |-> Sync!Asleep.next, found |-> Sync!Asleep.found,
          failed |-> Sync!Asleep.failed]
  BY DEF Sync!Asleep

LEMMA SyncStart == Sync!Init => SyncTypes
  <1> SUFFICES ASSUME Sync!Init PROVE SyncTypes
      OBVIOUS
  <1>1. CloudFits
        BY DEF CloudFits, Sync!Init, Sync!Present
  <1>2. KnowledgeFits
        BY DEF KnowledgeFits, Sync!Init, Filed
  <1>3. RunFits
        BY AsleepIs DEF RunFits, SyncShape, Sync!Init
  <1>4. CursorFits
        BY DEF CursorFits, Sync!NoCursor, Sync!Init
  <1> QED BY <1>1, <1>2, <1>3, <1>4 DEF SyncTypes

LEMMA RestFits == ASSUME sync' = Sync!Asleep PROVE RunFits'
  BY AsleepIs DEF RunFits, SyncShape

\* The listing of a run that goes on.
LEMMA ListingStays ==
    ASSUME RunFits, sync.at # "rest", NEW at, NEW left \in SUBSET sync.left, NEW found, NEW failed,
           SyncGoes(at, left, found, failed), UNCHANGED <<cloud, meddled, torn, etags>>
    PROVE  ListingFits'
  <1>1. /\ sync'.listing = sync.listing /\ sync'.whole = sync.whole /\ sync'.left \subseteq sync.left
        BY DEF SyncGoes
  <1> QED BY <1>1 DEF RunFits, ListingFits, Sync!Present

LEMMA GoesShape ==
    ASSUME RunFits, NEW at \in {"batch", "moved", "indexed", "save"}, NEW left, NEW found, NEW failed,
           SyncGoes(at, left, found, failed)
    PROVE  /\ SyncShape' /\ sync'.at = at /\ sync'.left = left /\ sync'.found = found /\ sync'.failed = failed
           /\ sync'.listing = sync.listing /\ sync'.whole = sync.whole /\ sync'.next = sync.next
  BY DEF SyncGoes, SyncShape, RunFits

\* An object is done with.
LEMMA DoneFits ==
    ASSUME RunFits, sync.at # "rest", NEW found, NEW failed,
           SyncGoes("batch", sync.left \ {Sync!Current}, found, failed),
           UNCHANGED <<cloud, meddled, torn, etags>>
    PROVE  RunFits'
  <1>1. SyncShape' /\ sync'.at = "batch"
        BY GoesShape
  <1>2. sync.left \ {Sync!Current} \in SUBSET sync.left
        OBVIOUS
  <1>3. ListingFits'
        BY <1>2, ListingStays
  <1> QED BY <1>1, <1>3 DEF RunFits
-----------------------------------------------------------------------------
(* Steps of the user *)

UserDid(T) ==
    /\ etags' = etags + 1 /\ meddled' = meddled \cup T
    /\ UNCHANGED <<kind, inventory, documents, cursor, sync, torn>>
    /\ \A p \in CloudPaths \ T : cloud'[p] = cloud[p]
    /\ \A p \in Sync!Present' : cloud'[p][1].etag = etags + 1 \/ \E q \in Sync!Present : cloud'[p][1] = cloud[q][1]
    /\ CloudFits'

LEMMA NextEtag ==
    ASSUME etags \in Nat, etags' = etags + 1
    PROVE  etags + 1 \in 1..etags' /\ \A e \in 1..etags : e \in 1..etags' /\ e # etags + 1
  OBVIOUS

LEMMA UserWritesDid == ASSUME CloudFits, NEW p \in CloudPaths, Sync!UserWrites(p) PROVE UserDid({p})
  <1>1. PICK u \in ObjectUids :
           /\ IF cloud[p] # <<>> THEN u = cloud[p][1].uid ELSE \A q \in Sync!Present : cloud[q][1].uid # u
           /\ cloud' = [cloud EXCEPT ![p] = <<[uid |-> u, etag |-> etags + 1]>>]
        BY DEF Sync!UserWrites
  <1>2. PICK new : new = <<[uid |-> u, etag |-> etags + 1]>>
        OBVIOUS
  <1>3. new # <<>> /\ new[1].uid = u /\ new[1].etag = etags + 1
        BY <1>2
  <1>4. cloud' = [q \in CloudPaths |-> IF q = p THEN new ELSE cloud[q]]
        BY <1>1, <1>2 DEF CloudFits
  <1>5. cloud' = [q \in CloudPaths |-> cloud'[q]] /\ cloud'[p] = new /\ \A q \in CloudPaths \ {p} : cloud'[q] = cloud[q]
        BY <1>4
  <1>6. etags' = etags + 1 /\ meddled' = meddled \cup {p} /\ etags' \in Nat
        BY DEF Sync!UserWrites, Sync!Edited, CloudFits
  <1>7. Sync!Present' = Sync!Present \cup {p}
        BY <1>3, <1>5 DEF Sync!Present
  <1>8. \A q \in Sync!Present' : q = p
           \/ (q \in Sync!Present /\ cloud'[q] = cloud[q] /\ cloud[q][1].etag \in 1..etags)
        BY <1>5, <1>7 DEF Sync!Present, CloudFits
  <1>9. \A q \in Sync!Present : q # p => cloud[q][1].uid # u
        BY <1>1 DEF CloudFits, Sync!Present
  <1>10. CloudFits'
    <2>1. etags + 1 \in 1..etags' /\ \A e \in 1..etags : e \in 1..etags' /\ e # etags + 1
          BY <1>6, NextEtag DEF CloudFits
    <2>2. ASSUME NEW q \in Sync!Present', q # p
          PROVE  /\ q \in Sync!Present /\ cloud'[q] = cloud[q] /\ cloud[q][1].etag \in 1..etags
                 /\ cloud'[q][1].uid \in ObjectUids \ {u} /\ cloud'[q][1].etag \in 1..etags' \ {etags + 1}
          BY <1>8, <1>9, <2>1, <2>2 DEF CloudFits
    <2>3. ASSUME NEW q \in Sync!Present' PROVE cloud'[q][1].uid \in ObjectUids /\ cloud'[q][1].etag \in 1..etags'
          BY <1>3, <1>5, <2>1, <2>2
    <2>4. ASSUME NEW q \in Sync!Present', NEW r \in Sync!Present', q # r
          PROVE  cloud'[q][1].uid # cloud'[r][1].uid /\ cloud'[q][1].etag # cloud'[r][1].etag
      <3>1. CASE q = p
            BY <1>3, <1>5, <2>2, <2>4, <3>1
      <3>2. CASE r = p
            BY <1>3, <1>5, <2>2, <2>4, <3>2
      <3>3. CASE q # p /\ r # p
            BY <2>2, <2>4, <3>3 DEF CloudFits
      <3> QED BY <3>1, <3>2, <3>3
    <2> QED BY <1>5, <1>6, <2>3, <2>4 DEF CloudFits
  <1>11. UNCHANGED <<kind, inventory, documents, cursor, sync, torn>>
         BY DEF Sync!UserWrites
  <1> QED BY <1>3, <1>5, <1>6, <1>8, <1>10, <1>11 DEF UserDid

LEMMA UserDeletesDid == ASSUME CloudFits, NEW p \in CloudPaths, Sync!UserDeletes(p) PROVE UserDid({p})
  <1>1. cloud' = [q \in CloudPaths |-> IF q = p THEN <<>> ELSE cloud[q]]
        BY DEF Sync!UserDeletes, CloudFits
  <1>2. cloud' = [q \in CloudPaths |-> cloud'[q]] /\ cloud'[p] = <<>> /\ \A q \in CloudPaths \ {p} : cloud'[q] = cloud[q]
        BY <1>1
  <1>3. etags' = etags + 1 /\ meddled' = meddled \cup {p} /\ etags' \in Nat
        BY DEF Sync!UserDeletes, Sync!Edited, CloudFits
  <1>4. \A q \in Sync!Present' : q \in Sync!Present /\ cloud'[q] = cloud[q]
        BY <1>2 DEF Sync!Present
  <1>5. CloudFits'
    <2>1. \A e \in 1..etags : e \in 1..etags'
          BY <1>3, NextEtag DEF CloudFits
    <2>2. ASSUME NEW q \in Sync!Present' PROVE cloud'[q][1].uid \in ObjectUids /\ cloud'[q][1].etag \in 1..etags'
          BY <1>4, <2>1 DEF CloudFits
    <2>3. ASSUME NEW q \in Sync!Present', NEW r \in Sync!Present', q # r
          PROVE  cloud'[q][1].uid # cloud'[r][1].uid /\ cloud'[q][1].etag # cloud'[r][1].etag
          BY <1>4, <2>3 DEF CloudFits
    <2> QED BY <1>2, <1>3, <2>2, <2>3 DEF CloudFits
  <1>6. UNCHANGED <<kind, inventory, documents, cursor, sync, torn>>
        BY DEF Sync!UserDeletes
  <1> QED BY <1>2, <1>3, <1>4, <1>5, <1>6 DEF UserDid

LEMMA UserMovesDid == ASSUME CloudFits, NEW p \in CloudPaths, NEW q \in CloudPaths, Sync!UserMoves(p, q) PROVE UserDid({p, q})
  <1>1. p # q /\ p \in Sync!Present
        BY DEF Sync!UserMoves, Sync!Present
  <1>2. cloud' = [r \in CloudPaths |-> IF r = q THEN cloud[p] ELSE IF r = p THEN <<>> ELSE cloud[r]]
        BY <1>1 DEF Sync!UserMoves, CloudFits
  <1>3. /\ cloud' = [r \in CloudPaths |-> cloud'[r]] /\ cloud'[p] = <<>> /\ cloud'[q] = cloud[p]
        /\ \A r \in CloudPaths \ {p, q} : cloud'[r] = cloud[r]
        BY <1>1, <1>2
  <1>4. etags' = etags + 1 /\ meddled' = meddled \cup {p, q} /\ etags' \in Nat
        BY DEF Sync!UserMoves, Sync!Edited, CloudFits
  <1>5. \A r \in Sync!Present' : \/ r = q /\ cloud'[r] = cloud[p]
                                 \/ r \in Sync!Present \ {p, q} /\ cloud'[r] = cloud[r]
        BY <1>3 DEF Sync!Present
  <1>6. CloudFits'
    <2>1. \A e \in 1..etags : e \in 1..etags'
          BY <1>4, NextEtag DEF CloudFits
    <2>2. ASSUME NEW r \in Sync!Present' PROVE cloud'[r][1].uid \in ObjectUids /\ cloud'[r][1].etag \in 1..etags'
          BY <1>1, <1>5, <2>1 DEF CloudFits
    <2>3. ASSUME NEW r \in Sync!Present', NEW s \in Sync!Present', r # s
          PROVE  cloud'[r][1].uid # cloud'[s][1].uid /\ cloud'[r][1].etag # cloud'[s][1].etag
      <3>1. PICK x \in Sync!Present, y \in Sync!Present : x # y /\ cloud'[r] = cloud[x] /\ cloud'[s] = cloud[y]
        <4>1. CASE r = q
              BY <1>1, <1>5, <2>3, <4>1
        <4>2. CASE s = q
              BY <1>1, <1>5, <2>3, <4>2
        <4>3. CASE r # q /\ s # q
              BY <1>1, <1>5, <2>3, <4>3
        <4> QED BY <4>1, <4>2, <4>3
      <3> QED BY <3>1 DEF CloudFits
    <2> QED BY <1>3, <1>4, <2>2, <2>3 DEF CloudFits
  <1>7. UNCHANGED <<kind, inventory, documents, cursor, sync, torn>>
        BY DEF Sync!UserMoves
  <1> QED BY <1>1, <1>3, <1>4, <1>5, <1>6, <1>7 DEF UserDid

LEMMA UserSteps == ASSUME CloudFits, Sync!UserStep PROVE \E T \in SUBSET CloudPaths : UserDid(T)
  <1>1. ASSUME NEW p \in CloudPaths, Sync!UserWrites(p) \/ Sync!UserDeletes(p) PROVE UserDid({p})
        BY <1>1, UserWritesDid, UserDeletesDid
  <1>2. ASSUME NEW p \in CloudPaths, NEW q \in CloudPaths, Sync!UserMoves(p, q) PROVE UserDid({p, q})
        BY <1>2, UserMovesDid
  <1>3. PICK p \in CloudPaths : Sync!UserWrites(p) \/ Sync!UserDeletes(p) \/ \E q \in CloudPaths : Sync!UserMoves(p, q)
        BY DEF Sync!UserStep
  <1>4. {p} \in SUBSET CloudPaths /\ \A q \in CloudPaths : {p, q} \in SUBSET CloudPaths
        OBVIOUS
  <1> QED BY <1>1, <1>2, <1>3, <1>4

LEMMA UserListing == ASSUME SyncTypes, NEW T, UserDid(T), sync.at # "rest" PROVE ListingFits'
  <1>1. ListingFits /\ etags \in Nat
        BY DEF SyncTypes, RunFits, CloudFits
  <1>2. \A p \in Sync!Present' \ meddled' : p \in Sync!Present \ meddled /\ cloud'[p] = cloud[p]
        BY DEF UserDid, Sync!Present
  <1>3. \A c \in DOMAIN sync.listing \ meddled' : cloud'[c] = cloud[c] /\ c \notin meddled
        BY <1>1 DEF UserDid, ListingFits
  <1>4. /\ sync' = sync /\ torn' = torn /\ etags' = etags + 1
        BY DEF UserDid
  <1> QED BY <1>1, <1>2, <1>3, <1>4 DEF ListingFits

LEMMA UserTypes == ASSUME SyncTypes, NEW T, UserDid(T) PROVE SyncTypes'
  <1>1. CloudFits' /\ etags \in Nat /\ etags' = etags + 1
        BY DEF UserDid, SyncTypes, CloudFits
  <1>2. KnowledgeFits'
        BY <1>1 DEF UserDid, SyncTypes, KnowledgeFits, Filed
  <1>3. RunFits'
    <2>1. sync' = sync /\ inventory' = inventory /\ meddled \subseteq meddled'
          BY DEF UserDid
    <2>2. SyncShape' /\ (Sync!Moved => Sync!Moved')
          BY <2>1 DEF SyncTypes, RunFits, SyncShape, Sync!Moved, Sync!MovedFrom, Sync!Etag, Sync!Current
    <2>3. sync.at = "indexed" => FoundFits'
          BY <1>1, <2>1 DEF SyncTypes, RunFits, FoundFits, Sync!Etag, Sync!Current
    <2> QED BY <2>1, <2>2, <2>3, UserListing DEF SyncTypes, RunFits
  <1>4. CursorFits'
        BY DEF UserDid, SyncTypes, CursorFits
  <1> QED BY <1>1, <1>2, <1>3, <1>4 DEF SyncTypes

-----------------------------------------------------------------------------
(* Steps of a run *)

LEMMA LeastOfTwo == ASSUME NEW a \in Nat, NEW b \in Nat PROVE Sync!Min({a, b}) = IF a =< b THEN a ELSE b
  <1>1. \E x \in {a, b} : \A y \in {a, b} : x =< y
        OBVIOUS
  <1>2. Sync!Min({a, b}) \in {a, b} /\ \A y \in {a, b} : Sync!Min({a, b}) =< y
        BY <1>1 DEF Sync!Min
  <1> QED BY <1>2

\* A new run: what is listed is as it is in the cloud.
Begun(paths, whole, listed, offset, next) ==
    /\ paths \in SUBSET CloudPaths /\ paths \subseteq Sync!Present
    /\ whole /\ ~torn' => paths = Sync!Present
    /\ listed = [p \in paths |-> cloud[p][1]] /\ offset = Sync!Offset(listed) /\ offset \in Nat /\ next \in Nat
    /\ sync' = [at |-> "batch", listing |-> listed, whole |-> whole,
                left |-> {p \in paths : Sync!Rank(listed, p) > offset /\ Sync!Rank(listed, p) <= next},
                next |-> next, found |-> <<>>, failed |-> FALSE]
    /\ UNCHANGED <<kind, cloud, inventory, documents, cursor, etags>>
    /\ meddled' = IF cursor = Sync!NoCursor THEN {} ELSE meddled
    /\ torn => torn'

LEMMA DiscoverBegins ==
    ASSUME SyncTypes, OperationsAssumption, Sync!Discover
    PROVE  \E paths, whole, listed, offset, next : Begun(paths, whole, listed, offset, next)
  <1>1. PICK paths \in SUBSET CloudPaths, whole \in BOOLEAN :
           LET objects == [p \in paths |-> cloud[p][1]]
               upto == Sync!Min({Sync!Cardinality(paths), Sync!Offset(objects) + BatchSize})
           IN /\ Sync!Listed(paths, whole)
              /\ sync' = [Sync!Asleep EXCEPT !.at = "batch", !.listing = objects, !.whole = whole, !.next = upto,
                    !.left = {p \in paths : Sync!Rank(objects, p) > Sync!Offset(objects) /\ Sync!Rank(objects, p) <= upto}]
              /\ meddled' = IF cursor = Sync!NoCursor THEN {} ELSE meddled
              /\ torn' = (torn \/ (whole /\ paths # Sync!Present))
        BY Zenon DEF Sync!Discover
  <1>2. UNCHANGED <<kind, cloud, inventory, documents, cursor, etags>>
        BY DEF Sync!Discover
  <1>3. PICK listed : listed = [p \in paths |-> cloud[p][1]]
        OBVIOUS
  <1>4. PICK offset \in Nat : offset = Sync!Offset(listed)
        BY DEF Sync!Offset, SyncTypes, CursorFits
  <1>5. PICK next \in Nat : next = Sync!Min({Sync!Cardinality(paths), offset + BatchSize})
    <2>1. Cardinality(paths) \in Nat
          BY FS_Subset, FS_CardinalityType DEF OperationsAssumption
    <2>2. Sync!Cardinality(paths) \in Nat /\ offset + BatchSize \in Nat
          BY <2>1, SyncCount DEF OperationsAssumption
    <2> QED BY <2>2, LeastOfTwo
  <1>6. PICK left : left = {p \in paths : Sync!Rank(listed, p) > offset /\ Sync!Rank(listed, p) <= next}
        OBVIOUS
  <1>7. sync' = [Sync!Asleep EXCEPT !.at = "batch", !.listing = listed, !.whole = whole, !.next = next, !.left = left]
        BY <1>1, <1>3, <1>4, <1>5, <1>6
  <1>8. sync' = [at |-> "batch", listing |-> listed, whole |-> whole, left |-> left, next |-> next,
                 found |-> <<>>, failed |-> FALSE]
        BY <1>7 DEF Sync!Asleep
  <1>9. paths \subseteq Sync!Present /\ (whole /\ ~torn' => paths = Sync!Present) /\ (torn => torn')
        BY <1>1 DEF Sync!Listed
  <1>10. Begun(paths, whole, listed, offset, next)
         BY <1>1, <1>2, <1>3, <1>4, <1>5, <1>6, <1>8, <1>9 DEF Begun
  <1> QED BY <1>10

LEMMA DiscoverTypes == ASSUME SyncTypes, OperationsAssumption, Sync!Discover PROVE SyncTypes'
  <1>1. PICK paths, whole, listed, offset, next : Begun(paths, whole, listed, offset, next)
        BY DiscoverBegins
  <1>2. UNCHANGED <<cloud, inventory, documents, etags, cursor>>
        BY <1>1 DEF Begun
  <1>3. CloudFits' /\ KnowledgeFits' /\ CursorFits'
        BY <1>2 DEF SyncTypes, CloudFits, KnowledgeFits, Filed, Sync!Present, CursorFits
  <1>4. SyncShape' /\ sync'.at = "batch" /\ sync'.listing = listed /\ sync'.left \subseteq paths /\ sync'.whole = whole
        BY <1>1 DEF Begun, SyncShape
  <1>5. DOMAIN listed = paths /\ \A p \in paths : listed[p] = cloud[p][1] /\ p \in Sync!Present
        BY <1>1 DEF Begun
  <1>6. ListingFits'
    <2>1. \A p \in paths : listed[p].etag \in 1..etags
          BY <1>5 DEF SyncTypes, CloudFits
    <2>2. \A p \in paths : cloud[p] # <<>>
          BY <1>5 DEF Sync!Present
    <2>3. ASSUME NEW p \in Sync!Present, NEW c \in paths, listed[c].etag = cloud[p][1].etag PROVE c = p
      <3>1. c \in Sync!Present /\ cloud[c][1].etag = cloud[p][1].etag
            BY <1>5, <2>3
      <3> QED BY <3>1 DEF SyncTypes, CloudFits
    <2>4. paths \subseteq CloudPaths /\ (whole /\ ~torn' => Sync!Present \subseteq paths)
          BY <1>1 DEF Begun
    <2>5. Sync!Present' = Sync!Present
          BY <1>2 DEF Sync!Present
    <2> QED BY <1>2, <1>4, <1>5, <2>1, <2>2, <2>3, <2>4, <2>5 DEF ListingFits
  <1>7. RunFits'
        BY <1>4, <1>6 DEF RunFits
  <1> QED BY <1>3, <1>7 DEF SyncTypes

LEMMA RowStays ==
    ASSUME KnowledgeFits, NEW r, r # <<>> => r[1].source \in Sync!Sources /\ r[1].etag \in 1..etags,
           NEW p \in CloudPaths, NEW change, change = [inventory EXCEPT ![p] = r], inventory' = change,
           UNCHANGED <<documents, etags>>
    PROVE  KnowledgeFits'
  <1>1. inventory' = [q \in CloudPaths |-> IF q = p THEN r ELSE inventory[q]]
        BY DEF KnowledgeFits
  <1>2. inventory' = [q \in CloudPaths |-> inventory'[q]]
        BY <1>1
  <1> QED BY <1>1, <1>2 DEF KnowledgeFits, Filed

LEMMA SkipTypes == ASSUME SyncTypes, OperationsAssumption, Sync!Skip PROVE SyncTypes'
  <1>1. UNCHANGED <<kind, cloud, documents, cursor, meddled, torn, etags>> /\ sync.at = "batch" /\ sync.left # {}
        BY DEF Sync!Skip, Sync!In
  <1>2. Sync!Current \in CloudPaths /\ Sync!Etag \in 1..etags
        BY <1>1, CurrentIsLeft DEF SyncTypes, RunFits, ListingFits, Sync!Etag
  <1>3. PICK r : r = <<[source |-> Sync!Current, etag |-> Sync!Etag]>>
        OBVIOUS
  <1>4. r[1].source \in Sync!Sources /\ r[1].etag \in 1..etags
        BY <1>2, <1>3 DEF Sync!Sources
  <1>5. inventory' = inventory \/ inventory' = [inventory EXCEPT ![Sync!Current] = r]
        BY <1>3 DEF Sync!Skip
  <1>6. KnowledgeFits'
    <2>1. CASE inventory' = inventory
          BY <1>1, <2>1 DEF SyncTypes, KnowledgeFits, Filed
    <2>2. CASE inventory' = [inventory EXCEPT ![Sync!Current] = r]
          BY <1>1, <1>2, <1>4, <2>2, RowStays DEF SyncTypes
    <2> QED BY <1>5, <2>1, <2>2
  <1>7. RunFits'
        BY <1>1, RunSteps, DoneFits DEF SyncTypes, RunFits
  <1> QED BY <1>1, <1>6, <1>7 DEF SyncTypes, CloudFits, CursorFits, Sync!Present

LEMMA RelocateTypes == ASSUME SyncTypes, OperationsAssumption, Sync!Relocate PROVE SyncTypes'
  <1>1. UNCHANGED <<kind, cloud, inventory, cursor, meddled, torn, etags>> /\ sync.at = "batch" /\ sync.left # {}
        BY DEF Sync!Relocate, Sync!In
  <1>2. Sync!Current \in CloudPaths /\ Sync!Etag \in 1..etags /\ etags \in Nat
        BY <1>1, CurrentIsLeft DEF SyncTypes, RunFits, ListingFits, Sync!Etag, CloudFits
  <1>3. KnowledgeFits'
    <2>1. documents' = documents \/ documents' = [documents EXCEPT ![Sync!Former] = 0, ![Sync!Current] = Sync!Etag]
          BY DEF Sync!Relocate
    <2>2. \A s \in Sync!Sources : documents[s] \in 0..etags /\ 0 \in 0..etags /\ Sync!Etag \in 0..etags
          BY <1>2 DEF SyncTypes, KnowledgeFits
    <2>3. documents = [s \in Sync!Sources |-> documents[s]]
          BY DEF SyncTypes, KnowledgeFits
    <2>4. documents' = [s \in Sync!Sources |-> documents'[s]] /\ \A s \in Sync!Sources : documents'[s] \in 0..etags
          BY <2>1, <2>2, <2>3
    <2> QED BY <1>1, <2>4 DEF SyncTypes, KnowledgeFits, Filed
  <1>4. RunFits'
    <2>1. SyncGoes("moved", sync.left, sync.found, sync.failed)
          BY RunSteps DEF SyncTypes, RunFits, Sync!Relocate
    <2>2. SyncShape' /\ sync'.at = "moved" /\ sync'.left = sync.left /\ sync'.listing = sync.listing
          BY <2>1, GoesShape DEF SyncTypes
    <2>3. ListingFits'
          BY <1>1, <2>1, ListingStays DEF SyncTypes
    <2>4. Sync!Moved'
          BY <1>1, <2>2 DEF Sync!Relocate, Sync!Relocatable, Sync!Moved, Sync!MovedFrom, Sync!Etag, Sync!Current
    <2> QED BY <1>1, <2>2, <2>3, <2>4 DEF RunFits
  <1> QED BY <1>1, <1>3, <1>4 DEF SyncTypes, CloudFits, CursorFits, Sync!Present

RowMoves(q) ==
    inventory' = [inventory EXCEPT ![q] = <<>>,
        ![Sync!Current] = <<[source |-> IF kind = "files" THEN Sync!Current ELSE inventory[q][1].source,
                             etag |-> Sync!Etag]>>]

LEMMA MoveDoes ==
    ASSUME SyncTypes, OperationsAssumption, Sync!MoveInventory
    PROVE  \E q \in CloudPaths \ {Sync!Current} : \E s \in Sync!Sources :
              /\ s = IF kind = "files" THEN Sync!Current ELSE inventory[q][1].source
              /\ Filed(q) /\ inventory[q][1].etag = Sync!Etag /\ Sync!MovedFrom = {q}
              /\ inventory' = [x \in CloudPaths |-> IF x = Sync!Current THEN <<[source |-> s, etag |-> Sync!Etag]>>
                                               ELSE IF x = q THEN <<>> ELSE inventory[x]]
  <1>1. Sync!Current \in CloudPaths /\ Sync!Moved
        BY CurrentIsLeft DEF SyncTypes, RunFits, ListingFits, Sync!MoveInventory, Sync!In
  <1>2. PICK q \in CloudPaths \ {Sync!Current} :
           /\ Filed(q) /\ inventory[q][1].etag = Sync!Etag /\ (CHOOSE r \in Sync!MovedFrom : TRUE) = q
           /\ Sync!MovedFrom = {q}
        BY <1>1, MovedFromOne
  <1>3. PICK s \in Sync!Sources : s = IF kind = "files" THEN Sync!Current ELSE inventory[q][1].source
        BY <1>1, <1>2 DEF SyncTypes, KnowledgeFits, Sync!Sources
  <1>4. inventory' = [inventory EXCEPT ![q] = <<>>, ![Sync!Current] = <<[source |-> s, etag |-> Sync!Etag]>>]
    <2>1. RowMoves(CHOOSE x \in Sync!MovedFrom : TRUE)
          BY Zenon DEF Sync!MoveInventory, RowMoves
    <2>2. RowMoves(q)
          BY <1>2, <2>1, Zenon
    <2> QED BY <1>3, <2>2, Zenon DEF RowMoves
  <1>5. PICK r : r = <<[source |-> s, etag |-> Sync!Etag]>>
        OBVIOUS
  <1>6. inventory' = [inventory EXCEPT ![q] = <<>>, ![Sync!Current] = r]
        BY <1>4, <1>5
  <1>7. inventory = [x \in CloudPaths |-> inventory[x]] /\ q # Sync!Current
        BY <1>2 DEF SyncTypes, KnowledgeFits
  <1>8. inventory' = [x \in CloudPaths |-> IF x = Sync!Current THEN r ELSE IF x = q THEN <<>> ELSE inventory[x]]
        BY <1>6, <1>7
  <1> QED BY <1>2, <1>3, <1>5, <1>8

LEMMA MoveTypes == ASSUME SyncTypes, OperationsAssumption, Sync!MoveInventory PROVE SyncTypes'
  <1>1. UNCHANGED <<kind, cloud, documents, cursor, meddled, torn, etags>> /\ sync.at = "moved"
        BY DEF Sync!MoveInventory, Sync!In
  <1>2. Sync!Current \in CloudPaths /\ Sync!Etag \in 1..etags
        BY <1>1, CurrentIsLeft DEF SyncTypes, RunFits, ListingFits, Sync!Etag
  <1>3. PICK q \in CloudPaths, s \in Sync!Sources : \E r :
           /\ r = <<[source |-> s, etag |-> Sync!Etag]>>
           /\ inventory' = [x \in CloudPaths |-> IF x = Sync!Current THEN r ELSE IF x = q THEN <<>> ELSE inventory[x]]
        BY MoveDoes
  <1>4. KnowledgeFits'
    <2>0. PICK r :
             /\ r = <<[source |-> s, etag |-> Sync!Etag]>>
             /\ inventory' = [x \in CloudPaths |-> IF x = Sync!Current THEN r ELSE IF x = q THEN <<>> ELSE inventory[x]]
          BY <1>3
    <2>1. r[1].source \in Sync!Sources /\ r[1].etag \in 1..etags
          BY <1>2, <2>0
    <2>2. inventory' = [x \in CloudPaths |-> inventory'[x]]
          BY <2>0
    <2> QED BY <1>1, <2>0, <2>1, <2>2 DEF SyncTypes, KnowledgeFits, Filed
  <1>5. RunFits'
        BY <1>1, RunSteps, DoneFits DEF SyncTypes, RunFits
  <1> QED BY <1>1, <1>4, <1>5 DEF SyncTypes, CloudFits, CursorFits, Sync!Present

LEMMA KeepTypes == ASSUME SyncTypes, OperationsAssumption, Sync!KeepInventory PROVE SyncTypes'
  <1>1. UNCHANGED <<kind, cloud, documents, cursor, meddled, torn, etags>> /\ sync.at = "indexed"
        BY DEF Sync!KeepInventory, Sync!In
  <1>2. Sync!Current \in CloudPaths /\ FoundFits
        BY <1>1, CurrentIsLeft DEF SyncTypes, RunFits
  <1>3. inventory' = [inventory EXCEPT ![Sync!Current] = sync.found]
        BY DEF Sync!KeepInventory
  <1>4. KnowledgeFits'
        BY <1>1, <1>2, <1>3, RowStays DEF SyncTypes, FoundFits
  <1>5. RunFits'
        BY <1>1, RunSteps, DoneFits DEF SyncTypes, RunFits
  <1> QED BY <1>1, <1>4, <1>5 DEF SyncTypes, CloudFits, CursorFits, Sync!Present

LEMMA FailsTypes == ASSUME SyncTypes, OperationsAssumption, Sync!IndexFails PROVE SyncTypes'
  <1>1. UNCHANGED <<kind, cloud, inventory, documents, cursor, meddled, torn, etags>> /\ sync.at = "batch"
        BY DEF Sync!IndexFails, Sync!In
  <1>2. RunFits'
        BY <1>1, RunSteps, DoneFits DEF SyncTypes, RunFits
  <1> QED BY <1>1, <1>2 DEF SyncTypes, CloudFits, CursorFits, Sync!Present, KnowledgeFits, Filed

\* What was found and read at the current place.
LEMMA IndexFinds ==
    ASSUME SyncTypes, OperationsAssumption, Sync!Index
    PROVE  \E source \in Sync!Sources, tag \in 1..etags :
              /\ source = Sync!Source(Sync!Current, cloud[Sync!Current][1])
              /\ tag = IF kind = "files" THEN Sync!Etag ELSE cloud[Sync!Current][1].etag
              /\ documents' = [s \in Sync!Sources |-> IF s = source THEN tag ELSE documents[s]]
              /\ SyncGoes("indexed", sync.left, <<[source |-> source, etag |-> tag]>>, sync.failed)
              /\ Sync!Current \in sync.left /\ Sync!Current \in DOMAIN sync.listing
              /\ Sync!Current \in Sync!Present /\ sync.at = "batch"
              /\ UNCHANGED <<kind, cloud, inventory, cursor, meddled, torn, etags>>
  <1>1. sync.at = "batch" /\ sync.left # {} /\ ListingFits /\ cloud[Sync!Current] # <<>>
        BY DEF Sync!Index, Sync!In, SyncTypes, RunFits
  <1>2. /\ Sync!Current \in sync.left /\ Sync!Current \in DOMAIN sync.listing /\ Sync!Current \in CloudPaths
        /\ Sync!Current \in Sync!Present /\ Sync!Etag \in 1..etags
        BY <1>1, CurrentIsLeft DEF Sync!Present, ListingFits, Sync!Etag
  <1>3. PICK object : object = cloud[Sync!Current][1]
        OBVIOUS
  <1>4. object.uid \in ObjectUids /\ object.etag \in 1..etags
        BY <1>2, <1>3 DEF SyncTypes, CloudFits
  <1>5. PICK source \in Sync!Sources : source = Sync!Source(Sync!Current, object)
        BY <1>2, <1>4 DEF Sync!Source, Sync!Sources
  <1>6. PICK tag \in 1..etags : tag = IF kind = "files" THEN Sync!Etag ELSE object.etag
        BY <1>2, <1>4
  <1>7. /\ documents' = [documents EXCEPT ![source] = tag]
        /\ sync' = [sync EXCEPT !.at = "indexed", !.found = <<[source |-> source, etag |-> tag]>>]
        BY <1>3, <1>5, <1>6 DEF Sync!Index
  <1>8. documents' = [s \in Sync!Sources |-> IF s = source THEN tag ELSE documents[s]]
        BY <1>7 DEF SyncTypes, KnowledgeFits
  <1>9. PICK found : found = <<[source |-> source, etag |-> tag]>>
        OBVIOUS
  <1>10. SyncGoes("indexed", sync.left, found, sync.failed)
         BY <1>7, <1>9 DEF SyncTypes, RunFits, SyncShape, SyncGoes
  <1>11. UNCHANGED <<kind, cloud, inventory, cursor, meddled, torn, etags>>
         BY DEF Sync!Index
  <1> QED BY <1>1, <1>2, <1>3, <1>5, <1>6, <1>8, <1>9, <1>10, <1>11

LEMMA IndexTypes == ASSUME SyncTypes, OperationsAssumption, Sync!Index PROVE SyncTypes'
  <1>1. PICK source \in Sync!Sources, tag \in 1..etags :
              /\ source = Sync!Source(Sync!Current, cloud[Sync!Current][1])
              /\ tag = IF kind = "files" THEN Sync!Etag ELSE cloud[Sync!Current][1].etag
              /\ documents' = [s \in Sync!Sources |-> IF s = source THEN tag ELSE documents[s]]
              /\ SyncGoes("indexed", sync.left, <<[source |-> source, etag |-> tag]>>, sync.failed)
              /\ Sync!Current \in sync.left /\ Sync!Current \in DOMAIN sync.listing
              /\ Sync!Current \in Sync!Present /\ sync.at = "batch"
              /\ UNCHANGED <<kind, cloud, inventory, cursor, meddled, torn, etags>>
        BY IndexFinds
  <1>2. KnowledgeFits'
    <2>1. documents' = [s \in Sync!Sources |-> documents'[s]]
          BY <1>1
    <2>2. \A s \in Sync!Sources : documents[s] \in 0..etags /\ tag \in 0..etags /\ etags \in Nat
          BY DEF SyncTypes, KnowledgeFits, CloudFits
    <2>3. \A s \in Sync!Sources : documents'[s] \in 0..etags
          BY <1>1, <2>2
    <2> QED BY <1>1, <2>1, <2>3 DEF SyncTypes, KnowledgeFits, Filed
  <1>3. PICK found : found = <<[source |-> source, etag |-> tag]>>
        OBVIOUS
  <1>4. SyncShape' /\ sync'.at = "indexed" /\ sync'.left = sync.left /\ sync'.found = found
        /\ sync'.listing = sync.listing
        BY <1>1, <1>3, GoesShape DEF SyncTypes
  <1>5. ListingFits'
        BY <1>1, ListingStays DEF SyncTypes
  <1>6. FoundFits'
    <2>1. Sync!Current' = Sync!Current /\ Sync!Etag' = Sync!Etag
          BY <1>4 DEF Sync!Current, Sync!Etag
    <2>2. found # <<>> /\ found[1].source = source /\ found[1].etag = tag
          BY <1>3
    <2>3. Sync!Current \notin meddled => tag = Sync!Etag
          BY <1>1 DEF SyncTypes, RunFits, ListingFits, Sync!Etag
    <2> QED BY <1>1, <1>4, <2>1, <2>2, <2>3 DEF FoundFits
  <1>7. RunFits'
        BY <1>1, <1>4, <1>5, <1>6 DEF RunFits
  <1> QED BY <1>1, <1>2, <1>7 DEF SyncTypes, CloudFits, CursorFits, Sync!Present

\* What the reconciliation takes away.
Vanished == {p \in CloudPaths : inventory[p] # <<>>} \ DOMAIN sync.listing
KeptSources == {inventory[p][1].source : p \in {q \in CloudPaths \ Vanished : inventory[q] # <<>>}}
LostSources == {inventory[p][1].source : p \in Vanished} \ KeptSources

LEMMA ReconcileDoes ==
    ASSUME SyncTypes, Sync!Reconcile
    PROVE  /\ UNCHANGED <<kind, cloud, cursor, meddled, torn, etags>> /\ sync.at = "batch" /\ sync.left = {}
           /\ SyncGoes("save", sync.left, sync.found, sync.failed)
           /\ \/ UNCHANGED <<documents, inventory>>
              \/ /\ Sync!Complete
                 /\ documents' = [s \in Sync!Sources |-> IF s \in LostSources THEN 0 ELSE documents[s]]
                 /\ inventory' = [p \in CloudPaths |-> IF p \in Vanished THEN <<>> ELSE inventory[p]]
  <1>1. \/ UNCHANGED <<documents, inventory>>
        \/ /\ Sync!Complete
           /\ documents' = [s \in Sync!Sources |-> IF s \in LostSources THEN 0 ELSE documents[s]]
           /\ inventory' = [p \in CloudPaths |-> IF p \in Vanished THEN <<>> ELSE inventory[p]]
        BY DEF Sync!Reconcile, LostSources, KeptSources, Vanished
  <1>2. SyncGoes("save", sync.left, sync.found, sync.failed)
        BY RunSteps DEF SyncTypes, RunFits
  <1>3. UNCHANGED <<kind, cloud, cursor, meddled, torn, etags>> /\ sync.at = "batch" /\ sync.left = {}
        BY DEF Sync!Reconcile, Sync!In
  <1> QED BY <1>1, <1>2, <1>3

LEMMA ReconcileTypes == ASSUME SyncTypes, Sync!Reconcile PROVE SyncTypes'
  <1>1. /\ UNCHANGED <<kind, cloud, cursor, meddled, torn, etags>> /\ sync.at = "batch" /\ sync.left = {}
        /\ SyncGoes("save", sync.left, sync.found, sync.failed)
        BY ReconcileDoes
  <1>2. KnowledgeFits'
    <2>1. CASE UNCHANGED <<documents, inventory>>
          BY <1>1, <2>1 DEF SyncTypes, KnowledgeFits, Filed
    <2>2. CASE /\ documents' = [s \in Sync!Sources |-> IF s \in LostSources THEN 0 ELSE documents[s]]
               /\ inventory' = [p \in CloudPaths |-> IF p \in Vanished THEN <<>> ELSE inventory[p]]
      <3>1. /\ documents' = [s \in Sync!Sources |-> documents'[s]] /\ inventory' = [p \in CloudPaths |-> inventory'[p]]
            /\ \A s \in Sync!Sources : documents'[s] = 0 \/ documents'[s] = documents[s]
            /\ \A p \in CloudPaths : inventory'[p] = <<>> \/ inventory'[p] = inventory[p]
            BY <2>2
      <3>2. 0 \in 0..etags
            BY DEF SyncTypes, CloudFits
      <3> QED BY <1>1, <3>1, <3>2 DEF SyncTypes, KnowledgeFits, Filed
    <2> QED BY <2>1, <2>2, ReconcileDoes
  <1>3. SyncShape' /\ sync'.at = "save" /\ sync'.left = sync.left
        BY <1>1, GoesShape DEF SyncTypes
  <1>4. ListingFits'
        BY <1>1, ListingStays DEF SyncTypes
  <1>5. RunFits'
        BY <1>1, <1>3, <1>4 DEF RunFits
  <1> QED BY <1>1, <1>2, <1>5 DEF SyncTypes, CloudFits, CursorFits, Sync!Present

LEMMA SleepTypes ==
    ASSUME SyncTypes, sync' = Sync!Asleep, UNCHANGED <<kind, cloud, inventory, documents, etags>>, CursorFits'
    PROVE  SyncTypes'
  BY RestFits DEF SyncTypes, CloudFits, KnowledgeFits, Filed, Sync!Present

LEMMA EndTypes ==
    ASSUME SyncTypes, Sync!SaveState \/ Sync!Killed \/ Sync!RelocateRefused
    PROVE  SyncTypes'
  <1>1. sync' = Sync!Asleep /\ UNCHANGED <<kind, cloud, inventory, documents, etags>>
        BY DEF Sync!SaveState, Sync!Killed, Sync!RelocateRefused
  <1>2. \/ cursor' = cursor \/ cursor' = Sync!NoCursor
        \/ cursor' = [generation |-> sync.listing, offset |-> sync.next]
        BY DEF Sync!SaveState, Sync!Killed, Sync!RelocateRefused
  <1>3. sync.next \in Nat
        BY DEF SyncTypes, RunFits, SyncShape
  <1>4. CursorFits'
        BY <1>2, <1>3 DEF SyncTypes, CursorFits, Sync!NoCursor
  <1> QED BY <1>1, <1>4, SleepTypes

LEMMA SyncTypesStay == ASSUME SyncTypes, OperationsAssumption, [Sync!Next]_syncVars PROVE SyncTypes'
  <1>1. CASE UNCHANGED syncVars
        BY <1>1 DEF syncVars, SyncTypes, CloudFits, KnowledgeFits, RunFits, CursorFits, SyncShape, ListingFits,
                    FoundFits, Filed, Sync!Present, Sync!Moved, Sync!MovedFrom, Sync!Etag, Sync!Current
  <1>2. CASE Sync!UserStep
        BY <1>2, UserSteps, UserTypes DEF SyncTypes
  <1>3. CASE Sync!Run
        BY <1>3, SkipTypes, RelocateTypes, MoveTypes, IndexTypes, KeepTypes, FailsTypes, EndTypes DEF Sync!Run
  <1> QED BY <1>1, <1>2, <1>3, DiscoverTypes, ReconcileTypes, EndTypes DEF Sync!Next

-----------------------------------------------------------------------------
(* Calendars and address books: no document is newer than its object *)

RowFits(s, e) ==
    /\ documents[s] >= e
    /\ \A p \in Sync!Present : e = cloud[p][1].etag => s = cloud[p][1].uid

ResourceFits ==
    /\ \A p \in CloudPaths : Filed(p) => RowFits(inventory[p][1].source, inventory[p][1].etag)
    /\ \A p \in Sync!Present : documents[cloud[p][1].uid] =< cloud[p][1].etag
    /\ sync.at = "indexed" => RowFits(sync.found[1].source, sync.found[1].etag)

\* A step that files nothing but what fits.
LEMMA RowsAreOld ==
    ASSUME ResourceFits, UNCHANGED <<documents, cloud>>, sync'.at # "indexed",
           \A p \in CloudPaths : Filed(p)' =>
              \E s, e : RowFits(s, e) /\ inventory'[p][1].source = s /\ inventory'[p][1].etag = e
    PROVE  ResourceFits'
  <1>1. Sync!Present' = Sync!Present
        BY DEF Sync!Present
  <1>2. ASSUME NEW p \in CloudPaths, Filed(p)' PROVE RowFits(inventory[p][1].source, inventory[p][1].etag)'
    <2>1. PICK s, e : RowFits(s, e) /\ inventory'[p][1].source = s /\ inventory'[p][1].etag = e
          BY <1>2
    <2> QED BY <1>1, <2>1 DEF RowFits
  <1> QED BY <1>1, <1>2 DEF ResourceFits

LEMMA QuietResource ==
    ASSUME ResourceFits, UNCHANGED <<documents, cloud, inventory>>, sync'.at # "indexed"
    PROVE  ResourceFits'
  <1>1. Sync!Present' = Sync!Present
        BY DEF Sync!Present
  <1> QED BY <1>1 DEF ResourceFits, RowFits, Filed

LEMMA ResourceSteps ==
    ASSUME SyncTypes, ResourceFits, OperationsAssumption, kind # "files", [Sync!Next]_syncVars
    PROVE  ResourceFits'
  <1>1. CASE UNCHANGED syncVars
        BY <1>1 DEF syncVars, ResourceFits, RowFits, Filed, Sync!Present
  <1>2. CASE Sync!UserStep
    <2>1. PICK T \in SUBSET CloudPaths : UserDid(T)
          BY <1>2, UserSteps DEF SyncTypes
    <2>2. UNCHANGED <<inventory, documents, sync>> /\ CloudFits'
          BY <2>1 DEF UserDid
    <2>3. ASSUME NEW s, NEW e \in 1..etags, RowFits(s, e) PROVE RowFits(s, e)'
      <3>1. documents'[s] >= e
            BY <2>2, <2>3 DEF RowFits
      <3>2. ASSUME NEW p \in Sync!Present', e = cloud'[p][1].etag PROVE s = cloud'[p][1].uid
        <4>1. e # etags + 1
              BY <2>3 DEF SyncTypes, CloudFits
        <4> QED BY <2>1, <2>3, <3>2, <4>1 DEF UserDid, RowFits
      <3> QED BY <3>1, <3>2 DEF RowFits
    <2>4. ASSUME NEW p \in CloudPaths, Filed(p)' PROVE RowFits(inventory[p][1].source, inventory[p][1].etag)'
      <3>1. PICK s, e : s = inventory[p][1].source /\ e = inventory[p][1].etag
            OBVIOUS
      <3>2. Filed(p) /\ e \in 1..etags /\ RowFits(s, e)
            BY <2>2, <2>4, <3>1 DEF Filed, ResourceFits, SyncTypes, KnowledgeFits
      <3>3. RowFits(s, e)'
            BY <2>3, <3>2
      <3> QED BY <2>2, <3>1, <3>3 DEF RowFits
    <2>5. ASSUME NEW p \in Sync!Present' PROVE documents'[cloud'[p][1].uid] =< cloud'[p][1].etag
      <3>1. CASE cloud'[p][1].etag = etags + 1
        <4>1. cloud'[p][1].uid \in Sync!Sources
              BY <2>2, <2>5 DEF CloudFits, Sync!Sources
        <4>2. documents[cloud'[p][1].uid] \in 0..etags /\ etags \in Nat
              BY <4>1 DEF SyncTypes, KnowledgeFits, CloudFits
        <4> QED BY <2>2, <3>1, <4>2
      <3>2. CASE \E q \in Sync!Present : cloud'[p][1] = cloud[q][1]
            BY <2>2, <3>2 DEF ResourceFits
      <3> QED BY <2>1, <2>5, <3>1, <3>2 DEF UserDid
    <2>6. sync.at = "indexed" => RowFits(sync.found[1].source, sync.found[1].etag)'
      <3> SUFFICES ASSUME sync.at = "indexed" PROVE RowFits(sync.found[1].source, sync.found[1].etag)'
          OBVIOUS
      <3>1. PICK s, e : s = sync.found[1].source /\ e = sync.found[1].etag
            OBVIOUS
      <3>2. e \in 1..etags /\ RowFits(s, e)
            BY <3>1 DEF ResourceFits, SyncTypes, RunFits, FoundFits
      <3>3. RowFits(s, e)'
            BY <2>3, <3>2
      <3> QED BY <2>2, <3>1, <3>3 DEF RowFits
    <2> QED BY <2>2, <2>4, <2>5, <2>6 DEF ResourceFits
  <1>3. CASE Sync!Discover
    <2>1. PICK paths, whole, listed, offset, next : Begun(paths, whole, listed, offset, next)
          BY <1>3, DiscoverBegins
    <2>2. UNCHANGED <<documents, cloud, inventory>> /\ sync'.at # "indexed"
          BY <2>1 DEF Begun
    <2> QED BY <2>2, QuietResource
  <1>4. CASE Sync!Skip
    <2>1. UNCHANGED <<documents, cloud>> /\ inventory' = inventory
          BY <1>4 DEF Sync!Skip, Sync!Unchanged, Sync!Known
    <2>2. sync'.at # "indexed"
          BY <1>4, RunSteps, GoesShape DEF SyncTypes, RunFits
    <2> QED BY <2>1, <2>2, QuietResource
  <1>5. CASE Sync!Relocate
    <2>1. UNCHANGED <<documents, cloud, inventory>>
          BY <1>5 DEF Sync!Relocate
    <2>2. sync'.at # "indexed"
          BY <1>5, RunSteps, GoesShape DEF SyncTypes, RunFits
    <2> QED BY <2>1, <2>2, QuietResource
  <1>6. CASE Sync!RelocateRefused \/ Sync!SaveState \/ Sync!Killed
    <2>1. UNCHANGED <<documents, cloud, inventory>> /\ sync' = Sync!Asleep
          BY <1>6 DEF Sync!RelocateRefused, Sync!SaveState, Sync!Killed
    <2> QED BY <2>1, QuietResource, AsleepIs
  <1>7. CASE Sync!IndexFails
    <2>1. UNCHANGED <<documents, cloud, inventory>>
          BY <1>7 DEF Sync!IndexFails
    <2>2. sync'.at # "indexed"
          BY <1>7, RunSteps, GoesShape DEF SyncTypes, RunFits
    <2> QED BY <2>1, <2>2, QuietResource
  <1>8. CASE Sync!MoveInventory
    <2>1. UNCHANGED <<documents, cloud>> /\ sync'.at # "indexed"
          BY <1>8, RunSteps, GoesShape DEF SyncTypes, RunFits, Sync!MoveInventory
    <2>2. PICK q \in CloudPaths \ {Sync!Current} : \E s :
             /\ s = IF kind = "files" THEN Sync!Current ELSE inventory[q][1].source
             /\ Filed(q) /\ inventory[q][1].etag = Sync!Etag
             /\ inventory' = [x \in CloudPaths |-> IF x = Sync!Current THEN <<[source |-> s, etag |-> Sync!Etag]>>
                                              ELSE IF x = q THEN <<>> ELSE inventory[x]]
          BY <1>8, MoveDoes
    <2>3. ASSUME NEW p \in CloudPaths, Filed(p)'
          PROVE  \E s, e : RowFits(s, e) /\ inventory'[p][1].source = s /\ inventory'[p][1].etag = e
      <3>1. CASE p = Sync!Current
            BY <2>2, <2>3, <3>1 DEF ResourceFits
      <3>2. CASE p # Sync!Current
            BY <2>2, <2>3, <3>2 DEF ResourceFits, Filed
      <3> QED BY <3>1, <3>2
    <2> QED BY <2>1, <2>3, RowsAreOld
  <1>9. CASE Sync!KeepInventory
    <2>1. UNCHANGED <<documents, cloud>> /\ sync'.at # "indexed" /\ sync.at = "indexed"
          BY <1>9, RunSteps, GoesShape DEF SyncTypes, RunFits, Sync!KeepInventory, Sync!In
    <2>2. \A x \in CloudPaths : inventory'[x] = sync.found \/ inventory'[x] = inventory[x]
          BY <1>9 DEF Sync!KeepInventory, SyncTypes, KnowledgeFits
    <2>3. ASSUME NEW p \in CloudPaths, Filed(p)'
          PROVE  \E s, e : RowFits(s, e) /\ inventory'[p][1].source = s /\ inventory'[p][1].etag = e
      <3>1. CASE inventory'[p] = sync.found
            BY <2>1, <3>1 DEF ResourceFits
      <3>2. CASE inventory'[p] = inventory[p]
            BY <2>3, <3>2 DEF ResourceFits, Filed
      <3> QED BY <2>2, <3>1, <3>2
    <2> QED BY <2>1, <2>3, RowsAreOld
  <1>10. CASE Sync!Index
    <2>1. PICK source \in Sync!Sources, tag \in 1..etags :
              /\ source = Sync!Source(Sync!Current, cloud[Sync!Current][1])
              /\ tag = IF kind = "files" THEN Sync!Etag ELSE cloud[Sync!Current][1].etag
              /\ documents' = [s \in Sync!Sources |-> IF s = source THEN tag ELSE documents[s]]
              /\ SyncGoes("indexed", sync.left, <<[source |-> source, etag |-> tag]>>, sync.failed)
              /\ Sync!Current \in sync.left /\ Sync!Current \in DOMAIN sync.listing
              /\ Sync!Current \in Sync!Present /\ sync.at = "batch"
              /\ UNCHANGED <<kind, cloud, inventory, cursor, meddled, torn, etags>>
          BY <1>10, IndexFinds
    <2>2. source = cloud[Sync!Current][1].uid /\ tag = cloud[Sync!Current][1].etag
          BY <2>1 DEF Sync!Source
    <2>3. Sync!Present' = Sync!Present
          BY <2>1 DEF Sync!Present
    <2>4. ASSUME NEW s \in Sync!Sources
          PROVE  documents[s] \in Nat /\ documents'[s] \in Nat /\ documents'[s] >= documents[s]
      <3>1. documents[s] \in 0..etags /\ etags \in Nat /\ tag \in Nat
            BY <2>1 DEF SyncTypes, KnowledgeFits, CloudFits
      <3>2. documents[source] =< tag
            BY <2>1, <2>2 DEF ResourceFits
      <3> QED BY <2>1, <3>1, <3>2
    <2>5. ASSUME NEW p \in Sync!Present PROVE documents'[cloud[p][1].uid] =< cloud[p][1].etag
      <3>1. cloud[p][1].uid \in Sync!Sources /\ cloud[p][1].etag \in Nat
            BY DEF SyncTypes, CloudFits, Sync!Sources
      <3>2. CASE p = Sync!Current
            BY <2>1, <2>2, <3>1, <3>2
      <3>3. CASE p # Sync!Current
        <4>1. cloud[p][1].uid # source
              BY <2>1, <2>2, <3>3 DEF SyncTypes, CloudFits
        <4> QED BY <2>1, <3>1, <4>1 DEF ResourceFits
      <3> QED BY <3>2, <3>3
    <2>6. ASSUME NEW p \in CloudPaths, Filed(p) PROVE RowFits(inventory[p][1].source, inventory[p][1].etag)'
      <3>1. PICK s \in Sync!Sources, e \in Nat : s = inventory[p][1].source /\ e = inventory[p][1].etag
            BY <2>6 DEF SyncTypes, KnowledgeFits, CloudFits
      <3>2. RowFits(s, e)
            BY <2>6, <3>1 DEF ResourceFits
      <3>3. documents'[s] >= e
            BY <2>4, <3>2 DEF RowFits
      <3> QED BY <2>1, <2>3, <3>1, <3>2, <3>3 DEF RowFits
    <2>7. RowFits(source, tag)'
      <3>1. documents'[source] = tag /\ tag \in Nat
            BY <2>1 DEF SyncTypes, CloudFits
      <3>2. ASSUME NEW p \in Sync!Present, tag = cloud[p][1].etag PROVE source = cloud[p][1].uid
            BY <2>1, <2>2, <3>2 DEF SyncTypes, CloudFits
      <3> QED BY <2>1, <2>3, <3>1, <3>2 DEF RowFits
    <2>8. sync'.found = <<[source |-> source, etag |-> tag]>>
          BY <2>1 DEF SyncGoes
    <2>9. RowFits(sync.found[1].source, sync.found[1].etag)'
          BY <2>7, <2>8 DEF RowFits
    <2>10. \A p \in CloudPaths : Filed(p)' => Filed(p)
           BY <2>1 DEF Filed
    <2> QED BY <2>1, <2>3, <2>5, <2>6, <2>9, <2>10 DEF ResourceFits
  <1>11. CASE Sync!Reconcile
    <2>1. /\ UNCHANGED <<kind, cloud, cursor, meddled, torn, etags>> /\ sync.at = "batch" /\ sync.left = {}
          /\ SyncGoes("save", sync.left, sync.found, sync.failed)
          BY <1>11, ReconcileDoes
    <2>2. sync'.at = "save"
          BY <2>1 DEF SyncGoes
    <2>3. CASE UNCHANGED <<documents, inventory>>
          BY <2>1, <2>2, <2>3, QuietResource
    <2>4. CASE /\ documents' = [s \in Sync!Sources |-> IF s \in LostSources THEN 0 ELSE documents[s]]
               /\ inventory' = [p \in CloudPaths |-> IF p \in Vanished THEN <<>> ELSE inventory[p]]
      <3>1. Sync!Present' = Sync!Present
            BY <2>1 DEF Sync!Present
      <3>2. ASSUME NEW p \in Sync!Present PROVE documents'[cloud[p][1].uid] =< cloud[p][1].etag
        <4>1. cloud[p][1].uid \in Sync!Sources /\ cloud[p][1].etag \in Nat
              BY DEF SyncTypes, CloudFits, Sync!Sources
        <4> QED BY <2>4, <4>1 DEF ResourceFits
      <3>3. ASSUME NEW p \in CloudPaths, Filed(p)' PROVE RowFits(inventory[p][1].source, inventory[p][1].etag)'
        <4>1. p \notin Vanished /\ inventory'[p] = inventory[p] /\ Filed(p)
              BY <2>4, <3>3 DEF Filed
        <4>2. inventory[p][1].source \in KeptSources
              BY <4>1 DEF KeptSources, Filed
        <4>3. inventory[p][1].source \in Sync!Sources /\ inventory[p][1].source \notin LostSources
              BY <4>1, <4>2 DEF SyncTypes, KnowledgeFits, LostSources
        <4>4. documents'[inventory[p][1].source] = documents[inventory[p][1].source]
              BY <2>4, <4>3
        <4> QED BY <2>1, <3>1, <4>1, <4>4 DEF ResourceFits, RowFits
      <3> QED BY <2>1, <2>2, <3>1, <3>2, <3>3 DEF ResourceFits
    <2> QED BY <1>11, <2>3, <2>4, ReconcileDoes
  <1> QED BY <1>1, <1>2, <1>3, <1>4, <1>5, <1>6, <1>7, <1>8, <1>9, <1>10, <1>11 DEF Sync!Next, Sync!Run

-----------------------------------------------------------------------------
(* Files: the row of a path and its document agree, but for the one in hand *)

Excused(p) ==
    \/ sync.at = "indexed" /\ p = Sync!Current
    \/ sync.at = "moved" /\ (p = Sync!Current \/ p \in Sync!MovedFrom)

FilesFit ==
    /\ \A p \in CloudPaths : Filed(p) => inventory[p][1].source = p
    /\ \A p \in CloudPaths : documents[p] = EtagOf(p) \/ Excused(p)
    /\ sync.at = "indexed" => /\ documents[Sync!Current] = Sync!Etag
                              /\ sync.found[1].source = Sync!Current /\ sync.found[1].etag = Sync!Etag
    /\ sync.at = "moved" => /\ documents[Sync!Current] = Sync!Etag /\ ~Filed(Sync!Current)
                            /\ \A q \in Sync!MovedFrom : documents[q] = 0

\* Once no path is in hand every path agrees.
Agrees == \A p \in CloudPaths : /\ Filed(p) => inventory[p][1].source = p
                           /\ documents[p] = EtagOf(p)

LEMMA AgreesFits == ASSUME sync.at \notin {"indexed", "moved"} PROVE FilesFit <=> Agrees
  BY DEF FilesFit, Agrees, Excused

LEMMA FilesQuiet ==
    ASSUME FilesFit, UNCHANGED <<documents, inventory>>, sync.at \notin {"indexed", "moved"},
           sync'.at \notin {"indexed", "moved"}
    PROVE  FilesFit'
  BY DEF FilesFit, Excused, Filed, EtagOf

LEMMA FilesSteps ==
    ASSUME SyncTypes, FilesFit, OperationsAssumption, kind = "files", ~torn', [Sync!Next]_syncVars
    PROVE  FilesFit'
  <1>1. ASSUME UNCHANGED <<documents, inventory, sync>> PROVE FilesFit'
        BY <1>1 DEF FilesFit, Excused, Filed, EtagOf, Sync!Current, Sync!Etag, Sync!MovedFrom
  <1>2. CASE Sync!UserStep
    <2>1. PICK T \in SUBSET CloudPaths : UserDid(T)
          BY <1>2, UserSteps DEF SyncTypes
    <2> QED BY <1>1, <2>1 DEF UserDid
  <1>3. CASE Sync!Discover
    <2>1. PICK paths, whole, listed, offset, next : Begun(paths, whole, listed, offset, next)
          BY <1>3, DiscoverBegins
    <2>2. UNCHANGED <<documents, inventory>> /\ sync'.at = "batch" /\ sync.at = "rest"
          BY <1>3, <2>1 DEF Begun, Sync!Discover, Sync!In
    <2> QED BY <2>2, FilesQuiet
  <1>4. CASE Sync!RelocateRefused \/ Sync!SaveState \/ Sync!Killed
    <2>1. UNCHANGED <<documents, inventory>> /\ sync' = Sync!Asleep /\ sync.at \notin {"indexed", "moved"}
          BY <1>4 DEF Sync!RelocateRefused, Sync!SaveState, Sync!Killed, Sync!In
    <2> QED BY <2>1, FilesQuiet, AsleepIs
  <1>5. CASE Sync!IndexFails
    <2>1. UNCHANGED <<documents, inventory>> /\ sync.at = "batch"
          BY <1>5 DEF Sync!IndexFails, Sync!In
    <2>2. sync'.at = "batch"
          BY <1>5, RunSteps, GoesShape DEF SyncTypes, RunFits
    <2> QED BY <2>1, <2>2, FilesQuiet
  <1>6. CASE Sync!Skip
    <2>1. documents' = documents /\ sync.at = "batch" /\ sync'.at = "batch" /\ Sync!Current \in CloudPaths
          BY <1>6, RunSteps, GoesShape, CurrentIsLeft DEF SyncTypes, RunFits, Sync!Skip, Sync!In
    <2>2. CASE Filed(Sync!Current)
      <3>1. inventory' = inventory
            BY <1>6, <2>2 DEF Sync!Skip, Filed
      <3> QED BY <2>1, <3>1, FilesQuiet
    <2>3. CASE ~Filed(Sync!Current)
      <3>1. documents[Sync!Current] = Sync!Etag
            BY <1>6, <2>3 DEF Sync!Skip, Sync!Unchanged, Sync!Known, Filed
      <3>2. PICK r : r = <<[source |-> Sync!Current, etag |-> Sync!Etag]>>
            OBVIOUS
      <3>3. inventory' = [inventory EXCEPT ![Sync!Current] = r]
            BY <1>6, <2>3, <3>2 DEF Sync!Skip, Filed
      <3>4. inventory' = [p \in CloudPaths |-> IF p = Sync!Current THEN r ELSE inventory[p]]
            BY <3>3 DEF SyncTypes, KnowledgeFits
      <3>5. r # <<>> /\ r[1].source = Sync!Current /\ r[1].etag = Sync!Etag
            BY <3>2
      <3>6. Agrees
            BY <2>1, AgreesFits
      <3>7. Agrees'
            BY <2>1, <3>1, <3>4, <3>5, <3>6 DEF Agrees, Filed, EtagOf
      <3> QED BY <2>1, <3>7 DEF FilesFit, Agrees, Excused
    <2> QED BY <2>2, <2>3
  <1>7. CASE Sync!Relocate
    <2>1. /\ sync.at = "batch" /\ sync'.at = "moved" /\ sync'.left = sync.left /\ sync'.listing = sync.listing
          /\ Sync!Current \in CloudPaths /\ inventory' = inventory
      <3>1. sync.at = "batch" /\ sync.left # {} /\ inventory' = inventory
            BY <1>7 DEF Sync!Relocate, Sync!In
      <3>2. Sync!Current \in CloudPaths
            BY <3>1, CurrentIsLeft DEF SyncTypes, RunFits
      <3> QED BY <1>7, <3>1, <3>2, RunSteps, GoesShape DEF SyncTypes, RunFits
    <2>2. PICK q \in CloudPaths \ {Sync!Current} :
             /\ Sync!MovedFrom = {q} /\ Filed(q) /\ inventory[q][1].etag = Sync!Etag
             /\ (CHOOSE r \in Sync!MovedFrom : TRUE) = q
          BY <1>7, MovedFromOne DEF Sync!Relocate, Sync!Relocatable
    <2>3. Agrees
          BY <2>1, AgreesFits
    <2>4. Sync!Former = q
          BY <2>2, <2>3 DEF Sync!Former, Agrees
    <2>5. documents' = [documents EXCEPT ![q] = 0, ![Sync!Current] = Sync!Etag] /\ documents[Sync!Current] = 0
          BY <1>7, <2>4 DEF Sync!Relocate
    <2>6. \A p \in CloudPaths : documents'[p] = IF p = Sync!Current THEN Sync!Etag ELSE IF p = q THEN 0 ELSE documents[p]
      <3>1. documents = [s \in Sync!Sources |-> documents[s]] /\ q \in Sync!Sources /\ CloudPaths \subseteq Sync!Sources
            BY <2>2 DEF SyncTypes, KnowledgeFits, Sync!Sources
      <3> QED BY <2>1, <2>2, <2>5, <3>1
    <2>7. ~Filed(Sync!Current)
      <3>1. EtagOf(Sync!Current) = 0
            BY <2>1, <2>3, <2>5 DEF Agrees
      <3>2. Filed(Sync!Current) => inventory[Sync!Current][1].etag \in 1..etags
            BY <2>1 DEF SyncTypes, KnowledgeFits
      <3> QED BY <3>1, <3>2 DEF EtagOf
    <2>8. Sync!Current' = Sync!Current /\ Sync!Etag' = Sync!Etag /\ Sync!MovedFrom' = {q}
          BY <2>1, <2>2 DEF Sync!Current, Sync!Etag, Sync!MovedFrom
    <2>9. \A p \in CloudPaths : Filed(p)' = Filed(p) /\ EtagOf(p)' = EtagOf(p)
          BY <2>1 DEF Filed, EtagOf
    <2>10. \A p \in CloudPaths : documents'[p] = EtagOf(p)' \/ Excused(p)'
           BY <2>1, <2>3, <2>6, <2>8, <2>9 DEF Excused, Agrees
    <2> QED BY <2>1, <2>2, <2>3, <2>6, <2>7, <2>8, <2>9, <2>10 DEF FilesFit, Agrees, Filed
  <1>8. CASE Sync!MoveInventory
    <2>1. documents' = documents /\ sync.at = "moved" /\ sync'.at = "batch" /\ Sync!Current \in CloudPaths
      <3>1. documents' = documents /\ sync.at = "moved"
            BY <1>8 DEF Sync!MoveInventory, Sync!In
      <3>2. Sync!Current \in CloudPaths
            BY <3>1, CurrentIsLeft DEF SyncTypes, RunFits
      <3> QED BY <1>8, <3>1, <3>2, RunSteps, GoesShape DEF SyncTypes, RunFits
    <2>2. PICK q \in CloudPaths \ {Sync!Current} : \E s \in Sync!Sources :
              /\ s = IF kind = "files" THEN Sync!Current ELSE inventory[q][1].source
              /\ Filed(q) /\ inventory[q][1].etag = Sync!Etag /\ Sync!MovedFrom = {q}
              /\ inventory' = [x \in CloudPaths |-> IF x = Sync!Current THEN <<[source |-> s, etag |-> Sync!Etag]>>
                                               ELSE IF x = q THEN <<>> ELSE inventory[x]]
          BY <1>8, MoveDoes
    <2>3. PICK r : r = <<[source |-> Sync!Current, etag |-> Sync!Etag]>>
          OBVIOUS
    <2>4. inventory' = [x \in CloudPaths |-> IF x = Sync!Current THEN r ELSE IF x = q THEN <<>> ELSE inventory[x]]
          BY <2>2, <2>3
    <2>5. r # <<>> /\ r[1].source = Sync!Current /\ r[1].etag = Sync!Etag
          BY <2>3
    <2>6. /\ documents[Sync!Current] = Sync!Etag /\ documents[q] = 0
          /\ \A p \in CloudPaths : p # Sync!Current /\ p # q => documents[p] = EtagOf(p)
          BY <2>1, <2>2 DEF FilesFit, Excused
    <2>7. Agrees'
      <3> SUFFICES ASSUME NEW p \in CloudPaths
                   PROVE  (Filed(p)' => inventory'[p][1].source = p) /\ documents'[p] = EtagOf(p)'
          BY DEF Agrees
      <3>1. CASE p = Sync!Current
            BY <2>1, <2>4, <2>5, <2>6, <3>1 DEF Filed, EtagOf
      <3>2. CASE p = q
            BY <2>1, <2>2, <2>4, <2>6, <3>2 DEF Filed, EtagOf
      <3>3. CASE p # Sync!Current /\ p # q
            BY <2>1, <2>4, <2>6, <3>3 DEF Filed, EtagOf, FilesFit
      <3> QED BY <3>1, <3>2, <3>3
    <2> QED BY <2>1, <2>7 DEF FilesFit, Agrees
  <1>9. CASE Sync!Index
    <2>1. PICK source \in Sync!Sources, tag \in 1..etags :
              /\ source = Sync!Source(Sync!Current, cloud[Sync!Current][1])
              /\ tag = IF kind = "files" THEN Sync!Etag ELSE cloud[Sync!Current][1].etag
              /\ documents' = [s \in Sync!Sources |-> IF s = source THEN tag ELSE documents[s]]
              /\ SyncGoes("indexed", sync.left, <<[source |-> source, etag |-> tag]>>, sync.failed)
              /\ Sync!Current \in sync.left /\ Sync!Current \in DOMAIN sync.listing
              /\ Sync!Current \in Sync!Present /\ sync.at = "batch"
              /\ UNCHANGED <<kind, cloud, inventory, cursor, meddled, torn, etags>>
          BY <1>9, IndexFinds
    <2>2. source = Sync!Current /\ tag = Sync!Etag /\ Sync!Current \in Sync!Sources
          BY <2>1 DEF Sync!Source
    <2>3. /\ sync'.at = "indexed" /\ sync'.left = sync.left /\ sync'.listing = sync.listing
          /\ sync'.found = <<[source |-> source, etag |-> tag]>>
          BY <2>1 DEF SyncGoes
    <2>4. sync'.found[1].source = Sync!Current /\ sync'.found[1].etag = Sync!Etag
          BY <2>2, <2>3
    <2>5. Sync!Current' = Sync!Current /\ Sync!Etag' = Sync!Etag
          BY <2>3 DEF Sync!Current, Sync!Etag
    <2>6. Agrees /\ CloudPaths \subseteq Sync!Sources
          BY <2>1, AgreesFits DEF Sync!Sources
    <2>7. \A p \in CloudPaths : Filed(p)' = Filed(p) /\ EtagOf(p)' = EtagOf(p)
          BY <2>1 DEF Filed, EtagOf
    <2>8. \A p \in CloudPaths : documents'[p] = EtagOf(p)' \/ Excused(p)'
          BY <2>1, <2>2, <2>3, <2>5, <2>6, <2>7 DEF Agrees, Excused
    <2> QED BY <2>1, <2>2, <2>3, <2>4, <2>5, <2>6, <2>7, <2>8 DEF FilesFit, Agrees
  <1>10. CASE Sync!KeepInventory
    <2>1. documents' = documents /\ sync.at = "indexed" /\ sync'.at = "batch" /\ Sync!Current \in CloudPaths
      <3>1. documents' = documents /\ sync.at = "indexed"
            BY <1>10 DEF Sync!KeepInventory, Sync!In
      <3>2. Sync!Current \in CloudPaths
            BY <3>1, CurrentIsLeft DEF SyncTypes, RunFits
      <3> QED BY <1>10, <3>1, <3>2, RunSteps, GoesShape DEF SyncTypes, RunFits
    <2>2. inventory' = [p \in CloudPaths |-> IF p = Sync!Current THEN sync.found ELSE inventory[p]]
          BY <1>10, <2>1 DEF Sync!KeepInventory, SyncTypes, KnowledgeFits
    <2>3. /\ documents[Sync!Current] = Sync!Etag /\ sync.found # <<>>
          /\ sync.found[1].source = Sync!Current /\ sync.found[1].etag = Sync!Etag
          BY <2>1 DEF FilesFit, SyncTypes, RunFits, FoundFits
    <2>4. \A p \in CloudPaths : p # Sync!Current => documents[p] = EtagOf(p)
          BY <2>1 DEF FilesFit, Excused
    <2>5. Agrees'
          BY <2>1, <2>2, <2>3, <2>4 DEF Agrees, FilesFit, Filed, EtagOf
    <2> QED BY <2>1, <2>5 DEF FilesFit, Agrees
  <1>11. CASE Sync!Reconcile
    <2>1. /\ UNCHANGED <<kind, cloud, cursor, meddled, torn, etags>> /\ sync.at = "batch" /\ sync.left = {}
          /\ SyncGoes("save", sync.left, sync.found, sync.failed)
          BY <1>11, ReconcileDoes
    <2>2. sync'.at = "save" /\ Agrees /\ CloudPaths \subseteq Sync!Sources
          BY <2>1, AgreesFits DEF SyncGoes, Sync!Sources
    <2>3. CASE UNCHANGED <<documents, inventory>>
          BY <2>1, <2>2, <2>3, FilesQuiet
    <2>4. CASE /\ documents' = [s \in Sync!Sources |-> IF s \in LostSources THEN 0 ELSE documents[s]]
               /\ inventory' = [p \in CloudPaths |-> IF p \in Vanished THEN <<>> ELSE inventory[p]]
      <3>1. Vanished \subseteq CloudPaths /\ \A p \in Vanished : Filed(p) /\ inventory[p][1].source = p
            BY <2>2 DEF Vanished, Filed, Agrees
      <3>2. KeptSources = {p \in CloudPaths \ Vanished : Filed(p)}
            BY <2>2 DEF KeptSources, Filed, Agrees
      <3>3. LostSources = Vanished
            BY <3>1, <3>2 DEF LostSources
      <3>4. Agrees'
            BY <2>2, <2>4, <3>1, <3>3 DEF Agrees, Filed, EtagOf
      <3> QED BY <2>2, <3>4 DEF FilesFit, Agrees
    <2> QED BY <1>11, <2>3, <2>4, ReconcileDoes
  <1> QED BY <1>1, <1>2, <1>3, <1>4, <1>5, <1>6, <1>7, <1>8, <1>9, <1>10, <1>11 DEF Sync!Next, Sync!Run, syncVars

-----------------------------------------------------------------------------
(* What was done stays done until the cycle ends *)

Good(p, e) == Filed(p) /\ inventory[p][1].etag = e

CursorKept ==
    /\ DOMAIN cursor.generation \subseteq CloudPaths
    /\ ~torn => \A p \in DOMAIN cursor.generation \ meddled :
          Sync!Rank(cursor.generation, p) <= cursor.offset =>
             cloud[p] # <<>> /\ cloud[p][1] = cursor.generation[p] /\ Good(p, cursor.generation[p].etag)

RunKept ==
    ~torn /\ sync.at # "rest" /\ ~sync.failed =>
        \A p \in DOMAIN sync.listing \ (meddled \cup sync.left) :
            Sync!Rank(sync.listing, p) <= sync.next => Good(p, sync.listing[p].etag)

SyncInv ==
    /\ SyncTypes
    /\ kind = "files" /\ ~torn => FilesFit
    /\ kind # "files" => ResourceFits
    /\ CursorKept /\ RunKept

\* The row of the path in hand, when it is filed.
LEMMA SkipFiles ==
    ASSUME SyncTypes, OperationsAssumption, SyncInv, ~torn, Sync!Skip
    PROVE  inventory'[Sync!Current] # <<>> /\ inventory'[Sync!Current][1].etag = Sync!Etag
  <1>1. sync.at = "batch" /\ Sync!Current \in CloudPaths
    <2>1. sync.at = "batch" /\ sync.left # {}
          BY DEF Sync!Skip, Sync!In
    <2> QED BY <2>1, CurrentIsLeft DEF SyncTypes, RunFits
  <1>2. CASE Filed(Sync!Current)
    <2>1. inventory' = inventory
          BY <1>2 DEF Sync!Skip, Filed
    <2>2. Sync!Known(Sync!Current)
      <3>1. CASE kind = "files"
        <4>1. Agrees
              BY <1>1, <3>1, AgreesFits DEF SyncInv
        <4>2. documents[Sync!Current] = inventory[Sync!Current][1].etag
              BY <1>1, <1>2, <4>1 DEF Agrees, EtagOf
        <4> QED BY <1>2, <4>2 DEF Sync!Skip, Sync!Unchanged, Sync!Known, Filed
      <3>2. CASE kind # "files"
            BY <3>2 DEF Sync!Skip, Sync!Unchanged
      <3> QED BY <3>1, <3>2
    <2> QED BY <2>1, <2>2 DEF Sync!Known
  <1>3. CASE ~Filed(Sync!Current)
    <2>1. PICK r : r = <<[source |-> Sync!Current, etag |-> Sync!Etag]>>
          OBVIOUS
    <2>2. inventory' = [inventory EXCEPT ![Sync!Current] = r]
          BY <1>3, <2>1 DEF Sync!Skip, Filed
    <2>3. inventory'[Sync!Current] = r
          BY <1>1, <2>2 DEF SyncTypes, KnowledgeFits
    <2> QED BY <2>1, <2>3
  <1> QED BY <1>2, <1>3

LEMMA RightStays ==
    ASSUME SyncTypes, OperationsAssumption, Sync!Next, ~torn',
           NEW p \in Sync!Present \ meddled', Good(p, cloud[p][1].etag)
    PROVE  /\ p \in Sync!Present' /\ cloud'[p] = cloud[p]
           /\ inventory'[p] # <<>> /\ inventory'[p][1].etag = cloud[p][1].etag
  <1> DEFINE Goal == /\ p \in Sync!Present' /\ cloud'[p] = cloud[p]
                     /\ inventory'[p] # <<>> /\ inventory'[p][1].etag = cloud[p][1].etag
  <1>1. p \in CloudPaths /\ Filed(p) /\ inventory[p][1].etag = cloud[p][1].etag /\ cloud[p] # <<>>
        BY DEF Good, Sync!Present
  <1>2. ASSUME UNCHANGED cloud, inventory'[p] = inventory[p] PROVE Goal
        BY <1>1, <1>2 DEF Sync!Present, Filed
  <1>3. CASE Sync!UserStep
    <2>1. PICK T \in SUBSET CloudPaths : UserDid(T)
          BY <1>3, UserSteps DEF SyncTypes
    <2> QED BY <1>1, <2>1 DEF UserDid, Sync!Present, Filed
  <1>4. CASE Sync!Discover \/ Sync!Relocate \/ Sync!RelocateRefused \/ Sync!Index \/ Sync!IndexFails
             \/ Sync!SaveState \/ Sync!Killed
    <2>1. UNCHANGED <<cloud, inventory>>
          BY <1>4 DEF Sync!Discover, Sync!Relocate, Sync!RelocateRefused, Sync!Index, Sync!IndexFails,
                      Sync!SaveState, Sync!Killed
    <2> QED BY <1>2, <2>1
  <1>5. CASE Sync!Skip
    <2>1. cloud' = cloud
          BY <1>5 DEF Sync!Skip
    <2>2. CASE inventory' = inventory
          BY <1>2, <2>1, <2>2
    <2>3. CASE ~Filed(Sync!Current)
      <3>1. PICK r : r = <<[source |-> Sync!Current, etag |-> Sync!Etag]>>
            OBVIOUS
      <3>2. inventory' = [inventory EXCEPT ![Sync!Current] = r] /\ p # Sync!Current
            BY <1>1, <1>5, <2>3, <3>1 DEF Sync!Skip, Filed
      <3>3. inventory'[p] = inventory[p]
            BY <1>1, <3>2 DEF SyncTypes, KnowledgeFits
      <3> QED BY <1>2, <2>1, <3>3
    <2> QED BY <1>5, <2>2, <2>3 DEF Sync!Skip, Filed
  <1>6. CASE Sync!MoveInventory
    <2>1. /\ sync.at = "moved" /\ sync.left # {} /\ ListingFits /\ UNCHANGED <<cloud, meddled>>
          BY <1>6 DEF Sync!MoveInventory, Sync!In, SyncTypes, RunFits
    <2>2. Sync!Current \in DOMAIN sync.listing /\ Sync!Current \in CloudPaths
          BY <2>1, CurrentIsLeft
    <2>3. PICK q \in CloudPaths \ {Sync!Current} : \E s \in Sync!Sources :
              /\ s = IF kind = "files" THEN Sync!Current ELSE inventory[q][1].source
              /\ Filed(q) /\ inventory[q][1].etag = Sync!Etag /\ Sync!MovedFrom = {q}
              /\ inventory' = [x \in CloudPaths |-> IF x = Sync!Current THEN <<[source |-> s, etag |-> Sync!Etag]>>
                                               ELSE IF x = q THEN <<>> ELSE inventory[x]]
          BY <1>6, MoveDoes
    <2>4. p # q
          BY <1>1, <2>1, <2>2, <2>3 DEF ListingFits, Sync!Etag
    <2>5. CASE p = Sync!Current
      <3>1. cloud[p][1].etag = Sync!Etag
            BY <2>1, <2>2, <2>5 DEF ListingFits, Sync!Etag
      <3> QED BY <1>1, <2>1, <2>3, <2>5, <3>1 DEF Sync!Present
    <2>6. CASE p # Sync!Current
          BY <1>1, <1>2, <2>1, <2>3, <2>4, <2>6
    <2> QED BY <2>5, <2>6
  <1>7. CASE Sync!KeepInventory
    <2>1. /\ sync.at = "indexed" /\ FoundFits /\ ListingFits /\ sync.left # {} /\ UNCHANGED <<cloud, meddled>>
          /\ inventory' = [inventory EXCEPT ![Sync!Current] = sync.found]
          BY <1>7 DEF Sync!KeepInventory, Sync!In, SyncTypes, RunFits
    <2>2. Sync!Current \in DOMAIN sync.listing /\ Sync!Current \in CloudPaths
          BY <2>1, CurrentIsLeft
    <2>3. inventory'[p] = IF p = Sync!Current THEN sync.found ELSE inventory[p]
          BY <1>1, <2>1 DEF SyncTypes, KnowledgeFits
    <2>4. CASE p = Sync!Current
      <3>1. cloud[p][1].etag = Sync!Etag /\ sync.found # <<>> /\ sync.found[1].etag = Sync!Etag
            BY <2>1, <2>2, <2>4 DEF ListingFits, Sync!Etag, FoundFits
      <3> QED BY <1>1, <2>1, <2>3, <2>4, <3>1 DEF Sync!Present
    <2> QED BY <1>2, <2>1, <2>3, <2>4
  <1>8. CASE Sync!Reconcile
    <2>1. UNCHANGED <<cloud, meddled, torn>> /\ sync.at = "batch"
          BY <1>8, ReconcileDoes
    <2>2. CASE UNCHANGED inventory
          BY <1>2, <2>1, <2>2
    <2>3. CASE Sync!Complete /\ inventory' = [x \in CloudPaths |-> IF x \in Vanished THEN <<>> ELSE inventory[x]]
      <3>1. p \in DOMAIN sync.listing
            BY <2>1, <2>3 DEF SyncTypes, RunFits, ListingFits, Sync!Complete
      <3> QED BY <1>1, <1>2, <2>1, <2>3, <3>1 DEF Vanished
    <2> QED BY <1>8, <2>2, <2>3, ReconcileDoes
  <1> QED BY <1>3, <1>4, <1>5, <1>6, <1>7, <1>8 DEF Sync!Next, Sync!Run

LEMMA CursorSteps == ASSUME SyncInv, OperationsAssumption, Sync!Next PROVE CursorKept'
  <1>1. ASSUME cursor' = cursor, meddled \subseteq meddled', torn => torn' PROVE CursorKept'
    <2>1. ASSUME NEW p \in DOMAIN cursor.generation \ meddled', ~torn',
                 Sync!Rank(cursor.generation, p) <= cursor.offset
          PROVE  cloud'[p] # <<>> /\ cloud'[p][1] = cursor.generation[p] /\ Good(p, cursor.generation[p].etag)'
      <3>1. /\ p \in CloudPaths /\ p \notin meddled /\ ~torn
            /\ cloud[p] # <<>> /\ cloud[p][1] = cursor.generation[p] /\ Good(p, cursor.generation[p].etag)
            BY <1>1, <2>1 DEF SyncInv, CursorKept
      <3>2. p \in Sync!Present \ meddled' /\ Good(p, cloud[p][1].etag)
            BY <2>1, <3>1 DEF Sync!Present
      <3>3. /\ p \in Sync!Present' /\ cloud'[p] = cloud[p] /\ inventory'[p] # <<>>
            /\ inventory'[p][1].etag = cloud[p][1].etag
            BY <2>1, <3>2, RightStays DEF SyncInv
      <3> QED BY <1>1, <3>1, <3>3 DEF Good, Filed
    <2> QED BY <1>1, <2>1 DEF CursorKept, SyncInv, Sync!Rank
  <1>2. CASE Sync!Discover
    <2>1. PICK paths, whole, listed, offset, next : Begun(paths, whole, listed, offset, next)
          BY <1>2, DiscoverBegins DEF SyncInv
    <2>2. cursor' = cursor /\ (torn => torn')
          BY <2>1 DEF Begun
    <2>3. CASE cursor = Sync!NoCursor
      <3>1. DOMAIN cursor'.generation = {}
            BY <2>2, <2>3 DEF Sync!NoCursor
      <3> QED BY <3>1 DEF CursorKept
    <2>4. CASE cursor # Sync!NoCursor
      <3>1. meddled' = meddled
            BY <2>1, <2>4 DEF Begun
      <3> QED BY <1>1, <2>2, <3>1
    <2> QED BY <2>3, <2>4
  <1>3. CASE Sync!UserStep
    <2>1. PICK T \in SUBSET CloudPaths : UserDid(T)
          BY <1>3, UserSteps DEF SyncInv, SyncTypes
    <2> QED BY <1>1, <2>1 DEF UserDid
  <1>4. CASE Sync!Run \/ Sync!Reconcile \/ Sync!Killed
    <2>1. Sync!Killed => cursor' = cursor /\ meddled' = meddled /\ (torn => torn')
          BY DEF Sync!Killed
    <2>2. Sync!Reconcile => UNCHANGED <<cursor, meddled, torn>>
          BY DEF Sync!Reconcile
    <2>3. Sync!Skip \/ Sync!Relocate \/ Sync!RelocateRefused => UNCHANGED <<cursor, meddled, torn>>
          BY DEF Sync!Skip, Sync!Relocate, Sync!RelocateRefused
    <2>4. Sync!MoveInventory \/ Sync!Index \/ Sync!KeepInventory \/ Sync!IndexFails
             => UNCHANGED <<cursor, meddled, torn>>
          BY DEF Sync!MoveInventory, Sync!Index, Sync!KeepInventory, Sync!IndexFails
    <2>5. cursor' = cursor /\ meddled' = meddled /\ (torn => torn')
          BY <1>4, <2>1, <2>2, <2>3, <2>4 DEF Sync!Run
    <2> QED BY <1>1, <2>5
  <1>5. CASE Sync!SaveState
    <2>1. /\ UNCHANGED <<cloud, inventory, meddled, torn>> /\ sync.at = "save"
          /\ \/ sync.failed /\ cursor' = cursor
             \/ cursor' = Sync!NoCursor
             \/ ~sync.failed /\ cursor' = [generation |-> sync.listing, offset |-> sync.next]
          BY <1>5 DEF Sync!SaveState, Sync!In
    <2>2. CASE cursor' = cursor
          BY <1>1, <2>1, <2>2
    <2>3. CASE cursor' = Sync!NoCursor
      <3>1. DOMAIN cursor'.generation = {}
            BY <2>3 DEF Sync!NoCursor
      <3> QED BY <3>1 DEF CursorKept
    <2>4. CASE ~sync.failed /\ cursor' = [generation |-> sync.listing, offset |-> sync.next]
      <3>1. ListingFits /\ sync.left = {}
            BY <2>1 DEF SyncInv, SyncTypes, RunFits
      <3>2. cursor'.generation = sync.listing /\ cursor'.offset = sync.next
            BY <2>4
      <3>3. ~torn => \A p \in DOMAIN sync.listing \ meddled :
               Sync!Rank(sync.listing, p) <= sync.next => Good(p, sync.listing[p].etag)
            BY <2>1, <2>4, <3>1 DEF SyncInv, RunKept
      <3>4. \A p \in DOMAIN sync.listing \ meddled : cloud[p] # <<>> /\ cloud[p][1] = sync.listing[p]
            BY <3>1 DEF ListingFits
      <3>5. DOMAIN sync.listing \subseteq CloudPaths
            BY <3>1 DEF ListingFits
      <3>6. \A p : Sync!Rank(cursor.generation, p)' = Sync!Rank(sync.listing, p)
            BY <3>2 DEF Sync!Rank
      <3>7. \A p : Good(p, sync.listing[p].etag) => inventory'[p] # <<>> /\ inventory'[p][1].etag = sync.listing[p].etag
            BY <2>1 DEF Good, Filed
      <3> QED BY <2>1, <3>2, <3>3, <3>4, <3>5, <3>6, <3>7 DEF CursorKept, Good, Filed
    <2> QED BY <2>1, <2>2, <2>3, <2>4
  <1> QED BY <1>2, <1>3, <1>4, <1>5 DEF Sync!Next

\* A run that goes on has done what it did, and the path in hand when that is done.
LEMMA RunGoesOn ==
    ASSUME SyncInv, OperationsAssumption, Sync!Next, meddled \subseteq meddled', torn => torn', sync.at # "rest",
           sync'.listing = sync.listing, sync'.next = sync.next, sync.failed => sync'.failed,
           sync.left \subseteq sync'.left \cup {Sync!Current},
           ~torn' /\ ~sync'.failed => \/ sync.left \subseteq sync'.left \/ Sync!Current \in meddled'
                                     \/ /\ inventory'[Sync!Current] # <<>>
                                        /\ inventory'[Sync!Current][1].etag = Sync!Etag
    PROVE  RunKept'
  <1>1. ASSUME ~torn', ~sync'.failed, NEW p \in DOMAIN sync.listing \ (meddled' \cup sync'.left),
               Sync!Rank(sync.listing, p) <= sync.next
        PROVE  inventory'[p] # <<>> /\ inventory'[p][1].etag = sync.listing[p].etag
    <2>1. ListingFits /\ ~torn /\ ~sync.failed /\ p \notin meddled /\ p \in CloudPaths
          BY <1>1 DEF SyncInv, SyncTypes, RunFits, ListingFits
    <2>2. CASE p \in sync.left
          BY <1>1, <2>2 DEF Sync!Etag
    <2>3. CASE p \notin sync.left
      <3>1. Good(p, sync.listing[p].etag)
            BY <1>1, <2>1, <2>3 DEF SyncInv, RunKept
      <3>2. cloud[p] # <<>> /\ cloud[p][1] = sync.listing[p]
            BY <1>1, <2>1 DEF ListingFits
      <3>3. p \in Sync!Present \ meddled' /\ Good(p, cloud[p][1].etag)
            BY <1>1, <2>1, <3>1, <3>2 DEF Sync!Present
      <3> QED BY <1>1, <3>2, <3>3, RightStays DEF SyncInv
    <2> QED BY <2>2, <2>3
  <1>2. \A p : Sync!Rank(sync.listing, p)' = Sync!Rank(sync.listing, p)
        BY DEF Sync!Rank
  <1> QED BY <1>1, <1>2 DEF RunKept, Good, Filed

LEMMA RankIsOne ==
    ASSUME NEW f, IsFiniteSet(DOMAIN f), NEW p \in DOMAIN f, DOMAIN f \subseteq Nat
    PROVE  Sync!Rank(f, p) \in Nat \ {0} /\ Sync!Rank(f, p) =< Cardinality(DOMAIN f)
  <1>1. PICK S : S = {q \in DOMAIN f : q <= p}
        OBVIOUS
  <1>2. S \subseteq DOMAIN f /\ p \in S
        BY <1>1
  <1>3. IsFiniteSet(S) /\ Cardinality(S) =< Cardinality(DOMAIN f)
        BY <1>2, FS_Subset
  <1>4. Cardinality(S) \in Nat /\ Cardinality(S) # 0
        BY <1>2, <1>3, FS_CardinalityType, FS_EmptySet
  <1> QED BY <1>1, <1>3, <1>4, SyncCount DEF Sync!Rank

LEMMA DiscoverKeeps == ASSUME SyncInv, OperationsAssumption, Sync!Discover PROVE RunKept'
  <1>1. PICK paths, whole, listed, offset, next : Begun(paths, whole, listed, offset, next)
        BY DiscoverBegins DEF SyncInv
  <1>2. /\ sync'.listing = listed /\ sync'.next = next /\ offset \in Nat /\ DOMAIN listed = paths
        /\ sync'.left = {p \in paths : Sync!Rank(listed, p) > offset /\ Sync!Rank(listed, p) <= next}
        BY <1>1 DEF Begun
  <1>3. ASSUME ~torn', NEW p \in paths \ (meddled' \cup sync'.left), Sync!Rank(listed, p) <= next
        PROVE  inventory'[p] # <<>> /\ inventory'[p][1].etag = listed[p].etag
    <2>1. IsFiniteSet(paths) /\ paths \subseteq Nat
          BY <1>1, FS_Subset DEF Begun, OperationsAssumption
    <2>2. Sync!Rank(listed, p) \in Nat \ {0}
          BY <1>2, <2>1, RankIsOne
    <2>3. Sync!Rank(listed, p) =< offset
          BY <1>2, <1>3, <2>2
    <2>4. cursor.generation = listed /\ offset = cursor.offset
          BY <1>1, <1>2, <2>2, <2>3 DEF Begun, Sync!Offset
    <2>5. cursor # Sync!NoCursor
          BY <1>2, <2>2, <2>3, <2>4 DEF Sync!NoCursor
    <2>6. meddled' = meddled /\ inventory' = inventory /\ ~torn
          BY <1>1, <1>3, <2>5 DEF Begun
    <2> QED BY <1>2, <1>3, <2>3, <2>4, <2>6 DEF SyncInv, CursorKept, Good, Filed
  <1>4. \A p : Sync!Rank(sync.listing, p)' = Sync!Rank(listed, p)
        BY <1>2 DEF Sync!Rank
  <1> QED BY <1>2, <1>3, <1>4 DEF RunKept, Good, Filed

LEMMA RunStays == ASSUME SyncInv, OperationsAssumption, Sync!Next PROVE RunKept'
  <1>1. CASE Sync!UserStep
    <2>1. PICK T \in SUBSET CloudPaths : UserDid(T)
          BY <1>1, UserSteps DEF SyncInv, SyncTypes
    <2>2. sync' = sync /\ torn' = torn /\ meddled \subseteq meddled'
          BY <2>1 DEF UserDid
    <2> QED BY <2>2, RunGoesOn DEF RunKept
  <1>2. CASE Sync!Discover
        BY <1>2, DiscoverKeeps
  <1>3. CASE Sync!RelocateRefused \/ Sync!SaveState \/ Sync!Killed
    <2>1. sync'.at = "rest"
          BY <1>3, AsleepIs DEF Sync!RelocateRefused, Sync!SaveState, Sync!Killed
    <2> QED BY <2>1 DEF RunKept
  <1>4. CASE Sync!Skip
    <2>1. SyncGoes("batch", sync.left \ {Sync!Current}, <<>>, sync.failed)
          BY <1>4, RunSteps DEF SyncInv, SyncTypes, RunFits
    <2>2. UNCHANGED <<meddled, torn>> /\ sync.at = "batch"
          BY <1>4 DEF Sync!Skip, Sync!In
    <2>3. ~torn => inventory'[Sync!Current] # <<>> /\ inventory'[Sync!Current][1].etag = Sync!Etag
          BY <1>4, SkipFiles DEF SyncInv
    <2> QED BY <2>1, <2>2, <2>3, RunGoesOn DEF SyncGoes
  <1>5. CASE Sync!MoveInventory
    <2>1. SyncGoes("batch", sync.left \ {Sync!Current}, <<>>, sync.failed)
          BY <1>5, RunSteps DEF SyncInv, SyncTypes, RunFits
    <2>2. UNCHANGED <<meddled, torn>> /\ sync.at = "moved" /\ Sync!Current \in CloudPaths
      <3>1. UNCHANGED <<meddled, torn>> /\ sync.at = "moved"
            BY <1>5 DEF Sync!MoveInventory, Sync!In
      <3> QED BY <3>1, CurrentIsLeft DEF SyncInv, SyncTypes, RunFits
    <2>3. inventory'[Sync!Current] # <<>> /\ inventory'[Sync!Current][1].etag = Sync!Etag
      <3>1. \E s : inventory'[Sync!Current] = <<[source |-> s, etag |-> Sync!Etag]>>
            BY <1>5, <2>2, MoveDoes DEF SyncInv
      <3> QED BY <3>1
    <2> QED BY <2>1, <2>2, <2>3, RunGoesOn DEF SyncGoes
  <1>6. CASE Sync!KeepInventory
    <2>1. SyncGoes("batch", sync.left \ {Sync!Current}, <<>>, sync.failed)
          BY <1>6, RunSteps DEF SyncInv, SyncTypes, RunFits
    <2>2. /\ UNCHANGED <<meddled, torn>> /\ sync.at = "indexed"
          /\ inventory' = [inventory EXCEPT ![Sync!Current] = sync.found]
          BY <1>6 DEF Sync!KeepInventory, Sync!In
    <2>3. FoundFits /\ ListingFits /\ sync.left # {} /\ inventory = [p \in CloudPaths |-> inventory[p]]
          BY <2>2 DEF SyncInv, SyncTypes, RunFits, KnowledgeFits
    <2>4. Sync!Current \in DOMAIN sync.listing /\ Sync!Current \in CloudPaths
          BY <2>3, CurrentIsLeft
    <2>5. inventory'[Sync!Current] = sync.found
          BY <2>2, <2>3, <2>4
    <2>6. Sync!Current \notin meddled => inventory'[Sync!Current] # <<>> /\ inventory'[Sync!Current][1].etag = Sync!Etag
          BY <2>3, <2>5 DEF FoundFits
    <2> QED BY <2>1, <2>2, <2>6, RunGoesOn DEF SyncGoes
  <1>7. CASE Sync!Relocate
    <2>1. SyncGoes("moved", sync.left, sync.found, sync.failed)
          BY <1>7, RunSteps DEF SyncInv, SyncTypes, RunFits
    <2>2. UNCHANGED <<meddled, torn>> /\ sync.at = "batch"
          BY <1>7 DEF Sync!Relocate, Sync!In
    <2> QED BY <2>1, <2>2, RunGoesOn DEF SyncGoes
  <1>8. CASE Sync!Index
    <2>1. /\ \E found : SyncGoes("indexed", sync.left, found, sync.failed)
          /\ UNCHANGED <<meddled, torn>> /\ sync.at = "batch"
          BY <1>8, IndexFinds DEF SyncInv
    <2> QED BY <2>1, RunGoesOn DEF SyncGoes
  <1>9. CASE Sync!IndexFails
    <2>1. SyncGoes("batch", sync.left \ {Sync!Current}, <<>>, TRUE)
          BY <1>9, RunSteps DEF SyncInv, SyncTypes, RunFits
    <2>2. sync'.failed
          BY <2>1 DEF SyncGoes
    <2> QED BY <2>2 DEF RunKept
  <1>10. CASE Sync!Reconcile
    <2>1. /\ UNCHANGED <<meddled, torn>> /\ sync.at = "batch"
          /\ SyncGoes("save", sync.left, sync.found, sync.failed)
          BY <1>10, ReconcileDoes DEF SyncInv
    <2> QED BY <2>1, RunGoesOn DEF SyncGoes
  <1> QED BY <1>1, <1>2, <1>3, <1>4, <1>5, <1>6, <1>7, <1>8, <1>9, <1>10 DEF Sync!Next, Sync!Run

LEMMA SyncStarts == Sync!Init => SyncInv
  <1> SUFFICES ASSUME Sync!Init PROVE SyncInv
      OBVIOUS
  <1>1. SyncTypes
        BY SyncStart
  <1>2. FilesFit /\ ResourceFits
    <2>1. \A p \in CloudPaths : ~Filed(p) /\ documents[p] = 0 /\ p \notin Sync!Present
          BY DEF Sync!Init, Filed, Sync!Sources, Sync!Present
    <2>2. Sync!Present = {} /\ sync.at = "rest"
          BY <2>1, AsleepIs DEF Sync!Present, Sync!Init
    <2> QED BY <2>1, <2>2 DEF FilesFit, ResourceFits, EtagOf
  <1>3. DOMAIN cursor.generation = {} /\ sync.at = "rest"
        BY AsleepIs DEF Sync!Init, Sync!NoCursor
  <1> QED BY <1>1, <1>2, <1>3 DEF SyncInv, CursorKept, RunKept

LEMMA SyncSteps == SyncInv /\ OperationsAssumption /\ [Sync!Next]_syncVars => SyncInv'
  <1> SUFFICES ASSUME SyncInv, OperationsAssumption, [Sync!Next]_syncVars PROVE SyncInv'
      OBVIOUS
  <1>1. SyncTypes'
        BY SyncTypesStay DEF SyncInv
  <1>2. kind' = kind /\ (torn => torn')
    <2>1. CASE Sync!UserStep
          BY <2>1, UserSteps DEF UserDid, SyncInv, SyncTypes
    <2>2. CASE Sync!Discover
          BY <2>2, DiscoverBegins DEF Begun, SyncInv
    <2>3. Sync!Skip \/ Sync!Relocate \/ Sync!RelocateRefused => UNCHANGED <<kind, torn>>
          BY DEF Sync!Skip, Sync!Relocate, Sync!RelocateRefused
    <2>4. Sync!MoveInventory \/ Sync!Index \/ Sync!KeepInventory \/ Sync!IndexFails => UNCHANGED <<kind, torn>>
          BY DEF Sync!MoveInventory, Sync!Index, Sync!KeepInventory, Sync!IndexFails
    <2>5. Sync!Reconcile \/ Sync!SaveState => UNCHANGED <<kind, torn>>
          BY DEF Sync!Reconcile, Sync!SaveState
    <2>6. Sync!Killed => kind' = kind /\ (torn => torn')
          BY DEF Sync!Killed
    <2> QED BY <2>1, <2>2, <2>3, <2>4, <2>5, <2>6 DEF Sync!Next, Sync!Run, syncVars
  <1>3. kind = "files" /\ ~torn' => FilesFit'
        BY <1>2, FilesSteps DEF SyncInv
  <1>4. kind # "files" => ResourceFits'
        BY ResourceSteps DEF SyncInv
  <1>5. CASE UNCHANGED syncVars
    <2>1. CursorKept'
          BY <1>5 DEF syncVars, SyncInv, CursorKept, Sync!Rank, Good, Filed
    <2>2. RunKept'
          BY <1>5 DEF syncVars, SyncInv, RunKept, Sync!Rank, Good, Filed
    <2> QED BY <1>1, <1>2, <1>3, <1>4, <2>1, <2>2 DEF SyncInv
  <1>6. CASE Sync!Next
        BY <1>1, <1>2, <1>3, <1>4, <1>6, CursorSteps, RunStays DEF SyncInv
  <1> QED BY <1>5, <1>6

\* Who has the document an untouched object was filed with.
LEMMA FiledIsIndexed ==
    ASSUME SyncInv, ~torn, sync.at \notin {"indexed", "moved"},
           NEW p \in Sync!Present, Good(p, cloud[p][1].etag)
    PROVE  /\ inventory[p][1].source = Sync!Source(p, cloud[p][1])
           /\ documents[inventory[p][1].source] = cloud[p][1].etag
  <1>1. p \in CloudPaths /\ Filed(p) /\ inventory[p][1].etag = cloud[p][1].etag
        BY DEF Good, Sync!Present
  <1>2. CASE kind = "files"
    <2>1. Agrees
          BY <1>2, AgreesFits DEF SyncInv
    <2> QED BY <1>1, <1>2, <2>1 DEF Agrees, EtagOf, Sync!Source
  <1>3. CASE kind # "files"
    <2>1. ResourceFits
          BY <1>3 DEF SyncInv
    <2>2. RowFits(inventory[p][1].source, inventory[p][1].etag) /\ documents[cloud[p][1].uid] =< cloud[p][1].etag
          BY <1>1, <2>1 DEF ResourceFits
    <2>3. inventory[p][1].source = cloud[p][1].uid /\ documents[inventory[p][1].source] >= cloud[p][1].etag
          BY <1>1, <2>2 DEF RowFits
    <2>4. documents[cloud[p][1].uid] \in 0..etags /\ cloud[p][1].etag \in 1..etags /\ etags \in Nat
          BY DEF SyncInv, SyncTypes, CloudFits, KnowledgeFits, Sync!Sources
    <2> QED BY <1>3, <2>2, <2>3, <2>4 DEF Sync!Source
  <1> QED BY <1>2, <1>3

\* What a run that ends well has listed is filed.
LEMMA WholeIsFiled ==
    ASSUME SyncInv, OperationsAssumption, ~torn, sync.at \in {"batch", "save"}, sync.left = {}, Sync!Complete,
           NEW p \in DOMAIN sync.listing \ meddled
    PROVE  p \in Sync!Present /\ cloud[p][1] = sync.listing[p] /\ Good(p, cloud[p][1].etag)
  <1>1. ListingFits /\ sync.next \in Nat /\ sync.at # "rest"
        BY DEF SyncInv, SyncTypes, RunFits, SyncShape
  <1>2. DOMAIN sync.listing \subseteq CloudPaths /\ IsFiniteSet(DOMAIN sync.listing) /\ DOMAIN sync.listing \subseteq Nat
        BY <1>1, FS_Subset DEF ListingFits, OperationsAssumption
  <1>3. Sync!Rank(sync.listing, p) \in Nat /\ Sync!Rank(sync.listing, p) =< Cardinality(DOMAIN sync.listing)
        BY <1>2, RankIsOne
  <1>4. sync.next >= Cardinality(DOMAIN sync.listing) /\ ~sync.failed
        BY SyncCount DEF Sync!Complete, Sync!LastBatch
  <1>5. Cardinality(DOMAIN sync.listing) \in Nat
        BY <1>2, FS_CardinalityType
  <1>6. Sync!Rank(sync.listing, p) <= sync.next
        BY <1>1, <1>3, <1>4, <1>5
  <1>7. Good(p, sync.listing[p].etag)
        BY <1>1, <1>4, <1>6 DEF SyncInv, RunKept
  <1>8. cloud[p] # <<>> /\ cloud[p][1] = sync.listing[p] /\ p \in CloudPaths
        BY <1>1, <1>2 DEF ListingFits
  <1> QED BY <1>7, <1>8 DEF Sync!Present

LEMMA SyncInvIsEnough == SyncInv /\ OperationsAssumption => Sync!OkMeansWhole
  <1> SUFFICES ASSUME SyncInv, OperationsAssumption, sync.at = "save", Sync!Complete, ~torn,
                      NEW p \in DOMAIN sync.listing \ meddled
               PROVE  documents[Sync!Source(p, sync.listing[p])] = sync.listing[p].etag
      BY DEF Sync!OkMeansWhole, Sync!In
  <1>1. sync.left = {}
        BY DEF SyncInv, SyncTypes, RunFits
  <1>2. p \in Sync!Present /\ cloud[p][1] = sync.listing[p] /\ Good(p, cloud[p][1].etag)
        BY <1>1, WholeIsFiled
  <1> QED BY <1>2, FiledIsIndexed

LEMMA NothingIsLost ==
    ASSUME SyncInv, OperationsAssumption, [Sync!Next]_syncVars
    PROVE  Sync!RemovedOnlyWhenGone
  <1> SUFFICES ASSUME NEW s \in Sync!Sources, NEW p \in Sync!Present \ meddled,
                      documents[s] = cloud[p][1].etag, ~torn
               PROVE  documents'[s] # 0 \/ \E x \in Sync!Sources : documents'[x] = documents[s]
      BY DEF Sync!RemovedOnlyWhenGone
  <1>1. documents[s] # 0
        BY DEF SyncInv, SyncTypes, CloudFits
  <1>2. ASSUME documents' = documents PROVE documents'[s] # 0
        BY <1>1, <1>2
  <1>3. CASE Sync!UserStep
        BY <1>2, <1>3, UserSteps DEF UserDid, SyncInv, SyncTypes
  <1>4. CASE Sync!Discover \/ Sync!Skip \/ Sync!RelocateRefused \/ Sync!MoveInventory \/ Sync!KeepInventory
             \/ Sync!IndexFails \/ Sync!SaveState \/ Sync!Killed
        BY <1>2, <1>4 DEF Sync!Discover, Sync!Skip, Sync!RelocateRefused, Sync!MoveInventory, Sync!KeepInventory,
                          Sync!IndexFails, Sync!SaveState, Sync!Killed
  <1>5. CASE Sync!Relocate
    <2>1. CASE kind # "files"
          BY <1>2, <1>5, <2>1 DEF Sync!Relocate
    <2>2. CASE kind = "files"
      <3>1. sync.at = "batch" /\ sync.left # {}
            BY <1>5 DEF Sync!Relocate, Sync!In
      <3>2. Sync!Current \in CloudPaths /\ Sync!Etag \in 1..etags /\ Agrees
            BY <2>2, <3>1, CurrentIsLeft, AgreesFits DEF SyncInv, SyncTypes, RunFits, ListingFits, Sync!Etag
      <3>3. PICK q \in CloudPaths \ {Sync!Current} :
               /\ Sync!MovedFrom = {q} /\ Filed(q) /\ inventory[q][1].etag = Sync!Etag
               /\ (CHOOSE r \in Sync!MovedFrom : TRUE) = q
            BY <1>5, MovedFromOne DEF Sync!Relocate, Sync!Relocatable
      <3>4. Sync!Former = q /\ documents[q] = Sync!Etag
            BY <3>2, <3>3 DEF Sync!Former, Agrees, EtagOf
      <3>5. documents' = [documents EXCEPT ![q] = 0, ![Sync!Current] = Sync!Etag]
            BY <1>5, <2>2, <3>4 DEF Sync!Relocate
      <3>6. documents = [x \in Sync!Sources |-> documents[x]] /\ CloudPaths \subseteq Sync!Sources
            BY DEF SyncInv, SyncTypes, KnowledgeFits, Sync!Sources
      <3>7. documents'[Sync!Current] = Sync!Etag /\ Sync!Current \in Sync!Sources
            BY <3>2, <3>5, <3>6
      <3>8. CASE s = q
            BY <3>4, <3>7, <3>8
      <3>9. CASE s # q
            BY <1>1, <3>2, <3>5, <3>6, <3>9
      <3> QED BY <3>8, <3>9
    <2> QED BY <2>1, <2>2
  <1>6. CASE Sync!Index
    <2>1. PICK source \in Sync!Sources, tag \in 1..etags :
              /\ source = Sync!Source(Sync!Current, cloud[Sync!Current][1])
              /\ tag = IF kind = "files" THEN Sync!Etag ELSE cloud[Sync!Current][1].etag
              /\ documents' = [x \in Sync!Sources |-> IF x = source THEN tag ELSE documents[x]]
              /\ SyncGoes("indexed", sync.left, <<[source |-> source, etag |-> tag]>>, sync.failed)
              /\ Sync!Current \in sync.left /\ Sync!Current \in DOMAIN sync.listing
              /\ Sync!Current \in Sync!Present /\ sync.at = "batch"
              /\ UNCHANGED <<kind, cloud, inventory, cursor, meddled, torn, etags>>
          BY <1>6, IndexFinds DEF SyncInv
    <2>2. etags \in Nat
          BY DEF SyncInv, SyncTypes, CloudFits
    <2> QED BY <1>1, <2>1, <2>2
  <1>7. CASE Sync!Reconcile
    <2>1. sync.at = "batch" /\ sync.left = {}
          BY <1>7, ReconcileDoes DEF SyncInv
    <2>2. CASE UNCHANGED documents
          BY <1>2, <2>2
    <2>3. CASE /\ Sync!Complete
               /\ documents' = [x \in Sync!Sources |-> IF x \in LostSources THEN 0 ELSE documents[x]]
      <3>1. p \in DOMAIN sync.listing
            BY <2>1, <2>3 DEF SyncInv, SyncTypes, RunFits, ListingFits, Sync!Complete
      <3>2. Good(p, cloud[p][1].etag)
            BY <2>1, <2>3, <3>1, WholeIsFiled
      <3>3. documents[inventory[p][1].source] = cloud[p][1].etag
            BY <2>1, <3>2, FiledIsIndexed
      <3>4. p \in CloudPaths \ Vanished /\ inventory[p] # <<>>
            BY <3>1, <3>2 DEF Vanished, Good, Filed, Sync!Present
      <3>5. inventory[p][1].source \in Sync!Sources /\ inventory[p][1].source \notin LostSources
            BY <3>4 DEF LostSources, KeptSources, SyncInv, SyncTypes, KnowledgeFits, Filed
      <3> QED BY <2>3, <3>3, <3>5
    <2> QED BY <1>7, <2>2, <2>3, ReconcileDoes DEF SyncInv
  <1>8. CASE UNCHANGED syncVars
        BY <1>2, <1>8 DEF syncVars
  <1> QED BY <1>3, <1>4, <1>5, <1>6, <1>7, <1>8 DEF Sync!Next, Sync!Run

SyncHoldsInv == turn = "sync" => SyncInv

\* A run that calls a resource "ok" leaves the right document of every object that nobody
\* touched meanwhile, and no run takes away the document of such an object while it is in the
\* cloud (incremental_sync.py, storage.py), for any paths, batches, edits and failures.
THEOREM SyncHolds == AllSpec => SyncIsFaithful
  <1>1. AllInit => SyncHoldsInv
        BY SyncStarts DEF AllInit, SyncHoldsInv
  <1>2. SyncHoldsInv /\ [AllNext]_allVars => SyncHoldsInv'
        BY OneTurn, SyncSteps, OperationsAssumption DEF SyncHoldsInv
  <1>3. SyncHoldsInv => (turn = "sync" => Sync!OkMeansWhole)
        BY SyncInvIsEnough, OperationsAssumption DEF SyncHoldsInv
  <1>4. SyncHoldsInv /\ [AllNext]_allVars => [turn = "sync" => Sync!RemovedOnlyWhenGone]_allVars
        BY OneTurn, NothingIsLost, OperationsAssumption DEF SyncHoldsInv
  <1> QED BY <1>1, <1>2, <1>3, <1>4, PTL DEF AllSpec, SyncIsFaithful
=============================================================================
