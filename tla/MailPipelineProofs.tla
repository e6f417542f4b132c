-------------------------- MODULE MailPipelineProofs --------------------------
(***************************************************************************)
(* Proofs about the mail agent (MailPipeline), for any number of mails, any *)
(* limits and bounds, and any folders the user may choose.                  *)
(*                                                                          *)
(* The inductive invariant IInv has one part per question: what is in work  *)
(* (Tracking) and why (Reasons), what is planned for it (Planned), what its *)
(* row says meanwhile (OpenRows), where it can be (Located), and what the   *)
(* rows of the others tell about moves (RowsAreTrue, SpamIsKnown), about    *)
(* mails the user took back (RestoresAreKnown) and about deliveries         *)
(* (DeliveriesAreKnown); Counts bounds a batch.  Each part is kept by a     *)
(* lemma of its own, and the properties follow from their conjunction.      *)
(***************************************************************************)
EXTENDS MailPipeline, FiniteSetTheorems, TLAPS

LEMMA Numbers ==
    /\ Mails \subseteq Nat /\ 0 \notin Mails /\ IsFiniteSet(Mails)
    /\ Limit \in Nat \ {0} /\ Prefetch \in Nat \ {0} /\ RescueOnly \in BOOLEAN
    /\ UserFolders \in [Mails -> SUBSET Places]
    /\ Kinds \in [Mails -> SUBSET Categories]
    /\ MaxMoves \in Nat /\ MaxFaults \in Nat /\ MaxCrashes \in Nat
  BY PipelineAssumption DEF PipelineAssumption

\* A set of mails that is not empty has a newest and an oldest one.
LEMMA Bounds ==
    ASSUME NEW S \in SUBSET Mails, S # {}
    PROVE  /\ \E x \in S : \A y \in S : x >= y
           /\ \E x \in S : \A y \in S : x =< y
  <1> DEFINE Bounded(U) == (\E x \in U : \A y \in U : x >= y) /\ (\E x \in U : \A y \in U : x =< y)
             Bad == {U \in FiniteSubsetsOf(Mails) : U # {} /\ ~Bounded(U)}
  <1>1. IsFiniteSet(S) /\ S \in FiniteSubsetsOf(Mails)
        BY Numbers, FS_Subset DEF FiniteSubsetsOf
  <1>2. SUFFICES ASSUME Bad # {} PROVE FALSE
        BY <1>1
  <1>3. PICK U \in Bad : \A V \in Bad : ~(<<V, U>> \in StrictSubsetOrdering(Mails))
        BY <1>2, FS_StrictSubsetOrderingWellFounded, WFMin
  <1>4. PICK x \in U : TRUE
        OBVIOUS
  <1>5. U \subseteq Mails /\ IsFiniteSet(U) /\ U \subseteq Nat
        BY Numbers DEF FiniteSubsetsOf
  <1> DEFINE V == U \ {x}
  <1>6. V \in FiniteSubsetsOf(Mails) /\ <<V, U>> \in StrictSubsetOrdering(Mails)
        BY <1>5, FS_Subset DEF FiniteSubsetsOf, StrictSubsetOrdering
  <1>7. V = {} \/ Bounded(V)
        BY <1>3, <1>6
  <1>8. Bounded(U)
    <2>1. CASE V = {}
          BY <2>1, <1>4, <1>5
    <2>2. CASE Bounded(V)
      <3>1. PICK a \in V : \A y \in V : a >= y
            BY <2>2
      <3>2. PICK b \in V : \A y \in V : b =< y
            BY <2>2
      <3>3. \E z \in {a, x} : \A y \in U : z >= y
            BY <3>1, <1>4, <1>5
      <3>4. \E z \in {b, x} : \A y \in U : z =< y
            BY <3>2, <1>4, <1>5
      <3> QED BY <3>1, <3>2, <3>3, <3>4, <1>4
    <2> QED BY <1>7, <2>1, <2>2
  <1> QED BY <1>3, <1>8

LEMMA NewestIsThere ==
    ASSUME NEW S \in SUBSET Mails, S # {}
    PROVE  Max(S) \in S
  BY Bounds DEF Max

LEMMA StagesAre ==
    /\ Len(Stages) = 6 /\ DOMAIN Stages = 1..6 /\ 1 \in DOMAIN Stages
    /\ \A i \in 1..4 : Stages[i] \in Corrections
    /\ Stages[5] = "quarantine" /\ Stages[6] = "INBOX"
  BY DEF Stages, Corrections

LEMMA FolderIs ==
    ASSUME stage \in DOMAIN Stages
    PROVE  /\ Folder \in Corrections \cup {"quarantine", "INBOX"}
           /\ stage # Len(Stages) => stage + 1 \in DOMAIN Stages
  <1>1. stage \in 1..4 \/ stage = 5 \/ stage = 6
        BY StagesAre
  <1> QED BY <1>1, StagesAre DEF Folder

-----------------------------------------------------------------------------
(* The inductive invariant *)

\* Which mail is in work, and what is left of the listing.
Tracking ==
    /\ pc \in {"idle", "list", "load"} => cur = 0
    /\ pc \in {"idle", "list"} => todo = {} /\ batch = {}
    /\ pc = "route" => IF how = "batch" THEN cur = 0 /\ batch # {} ELSE cur \in Mails
    /\ pc \in {"learn", "forward", "send", "sent", "move", "stamp", "settle"} => cur \in Mails
    /\ cur \notin todo \cup batch /\ todo \cap batch = {}
    /\ Folder \in Corrections => batch = {}

\* Why a mail is in work fits the folder it was found in.
Fitting == IF Folder \in Corrections THEN how = Folder
           ELSE how = "batch" \/ (how = "restore" /\ Folder = "INBOX")

Reasons ==
    /\ pc = "learn" => Fitting /\ how # "batch"
    /\ pc \in {"route", "forward", "send", "sent"} => Fitting
    /\ pc \in {"move", "settle"} => Fitting \/ how \in {"row", "scan"}
    /\ pc = "stamp" => how = "scan"

\* The folders a mail may get in a correction folder.
Allowed(f) ==
    {"error", "malware"} \cup
      CASE f = "fix-spam" -> {"spam"}
        [] f = "fix-routine" -> {"routine", "review"}
        [] f = "fix-relevant" -> {"relevant", "forwarded", "appointment-review", "routine"}
        [] OTHER -> Folders \ {"spam"}

Uncertain == [dest |-> "error", status |-> "delivery-uncertain"]

ScanPlans ==
    {[dest |-> "malware", status |-> s] : s \in {"none", "malware-detected"}} \cup
    {[dest |-> "error", status |-> s] : s \in {"none", "antivirus-error"}}

RoutePlans == {PlanFor(f) : f \in Folders \cup {"malware"}} \cup {Uncertain}

Planned ==
    /\ pc \in {"forward", "send", "sent"} => plan \in {PlanFor("forwarded"), PlanFor("appointment-review")}
    /\ pc \in {"move", "stamp", "settle"} => plan \in IF how = "scan" THEN ScanPlans ELSE RoutePlans
    /\ pc = "stamp" => plan.status # "none"
    /\ pc = "sent" => answer \in {"sent", "uncertain", "refused"}
    /\ pc \in {"stamp", "settle"} => answer \in {"moved", "failed"}
    /\ Folder \in Corrections /\ pc \in {"forward", "send", "sent", "move", "stamp", "settle"}
         => plan.dest \in Allowed(Folder)

\* The rows of the mails in work are open.
OpenRows ==
    /\ pc \in {"send", "sent"} => status[cur] = "forwarding" /\ cur \notin forwarded
    /\ pc \in {"forward", "send", "sent"} \/ (pc \in {"move", "settle"} /\ how # "scan")
         => status[cur] \notin Folders
    /\ \A m \in batch : /\ status[m] \notin Final /\ ~MustMove(m)
                        /\ Folder = "quarantine" \/ ~Interrupted(m)
    /\ \A m \in Mails : status[m] = "move-failed" => dest[m] # "none"

\* The user moved the mail while it was in work, and maybe before it was delivered.
TakenAway(m) == mover[m] = "user" /\ m \notin restored
AtSource(m) == place[m] = Folder \/ (TakenAway(m) /\ m \in touched)

Located ==
    /\ \A m \in batch : AtSource(m)
    /\ pc \in {"learn", "route", "forward", "send"} /\ cur # 0 => AtSource(cur)
    /\ pc \in {"sent", "move"} => place[cur] = Folder \/ TakenAway(cur)
    /\ pc \in {"stamp", "settle"} /\ answer = "moved"
         => place[cur] = plan.dest \/ (TakenAway(cur) /\ cur \in touched)
    /\ pc \in {"stamp", "settle"} /\ answer = "failed"
         => place[cur] = Folder \/ TakenAway(cur) \/ (place[cur] = plan.dest /\ cur \in strayed)

Recorded(m) ==
    status[m] \in Folders /\ mover[m] = "agent" /\ place[m] \notin {"error", "malware"}
      => place[m] = dest[m] /\ status[m] = StatusFor(dest[m])

RowsAreTrue == \A m \in Mails : Recorded(m)

\* The row of what the agent put into the spam folder says so.
SpamIsKnown ==
    \A m \in Mails : place[m] = "spam" /\ mover[m] = "agent" => m \in strayed \/ status[m] = "spam"

\* A mail that was taken back is known to be.
Restored(m) == place[m] = "INBOX" /\ m \in restored => m \in strayed \cup blotted

ToBlock == {"error", "malware"}

RestoreShows(m) ==
    \/ Restored(m)
    \/ status[m] \in {"spam", "quarantine-reviewed"}
    \/ (status[m] = "move-failed" /\ dest[m] \in ToBlock)

RestoresAreKnown ==
    /\ \A m \in Mails : RestoreShows(m)
    /\ \A m \in batch : Restored(m)
    /\ pc = "route" /\ cur # 0 => Restored(cur)
    /\ pc \in {"forward", "send", "sent"} => Restored(cur)
    /\ pc \in {"move", "settle"} /\ how # "scan" => Restored(cur) \/ plan.dest \in ToBlock

\* What was delivered is known to be.
Delivered(m) ==
    deliveries[m] > 0 /\ place[m] = "INBOX" /\ m \notin touched \cup slipped \cup blotted
      => m \in forwarded

Barred == {"forwarding", "delivery-uncertain", "error", "move-failed"}
DeliveryShows(m) == Delivered(m) \/ status[m] \in Barred

DeliveriesAreKnown ==
    /\ \A m \in Mails : DeliveryShows(m)
    /\ \A m \in batch : Delivered(m)
    /\ pc \in {"learn", "route", "forward", "send"} /\ cur # 0 => Delivered(cur)
    /\ pc = "sent" /\ answer = "refused" => Delivered(cur)


\* No batch takes more mails than its limit, the one in work among them.
Counts ==
    /\ taken \in Nat
    /\ taken + Cardinality(todo \cup batch) + (IF cur = 0 THEN 0 ELSE 1) =< Limit

-----------------------------------------------------------------------------
(* Types *)

LEMMA OneLess ==
    ASSUME NEW S \in SUBSET Mails, NEW m \in S
    PROVE  /\ Cardinality(S) \in Nat /\ Cardinality(S \ {m}) \in Nat
           /\ Cardinality(S \ {m}) = Cardinality(S) - 1
  <1>1. IsFiniteSet(S) /\ IsFiniteSet(S \ {m})
        BY Numbers, FS_Subset
  <1> QED BY <1>1, FS_RemoveElement, FS_CardinalityType

LEMMA Smaller ==
    ASSUME NEW S \in SUBSET Mails, NEW T \in SUBSET S
    PROVE  /\ Cardinality(S) \in Nat /\ Cardinality(T) \in Nat
           /\ Cardinality(T) =< Cardinality(S)
  <1>1. IsFiniteSet(S) /\ IsFiniteSet(T)
        BY Numbers, FS_Subset
  <1> QED BY <1>1, FS_Subset, FS_CardinalityType

\* A listing is no longer than there is room for.
LEMMA ListingFits ==
    ASSUME TypeOK, Counts, Room # 0, batch = {}, todo = {}
    PROVE  Listing \in SUBSET Mails /\ taken + Cardinality(Listing) =< Limit
  <1>1. Listing \in SUBSET Mails
        BY DEF Listing, InFolder
  <1>2. taken \in Nat /\ taken =< Limit
    <2>1. Cardinality(todo \cup batch) \in Nat
          BY Smaller
    <2> QED BY <2>1, Numbers DEF Counts
  <1>3. Room \in Nat /\ taken + Room =< Limit
        BY <1>2, Numbers DEF Room
  <1>4. CASE Listing = {}
        BY <1>4, <1>2, FS_EmptySet
  <1>5. CASE Listing # {}
    <2>1. PICK x \in Listing : \A y \in Listing : x =< y
          BY <1>5, <1>1, Bounds
    <2> DEFINE above == {n \in InFolder(Folder) : n >= x}
    <2>2. above \in SUBSET Mails /\ Cardinality(above) =< Room
          BY <2>1 DEF Listing, InFolder
    <2>3. Listing \subseteq above
          BY <2>1, <1>1, Numbers DEF Listing
    <2>4. Cardinality(Listing) =< Cardinality(above) /\ Cardinality(above) \in Nat /\ Cardinality(Listing) \in Nat
          BY <2>2, <2>3, Smaller
    <2> HIDE DEF above
    <2> QED BY <2>2, <2>4, <1>1, <1>2, <1>3, Numbers
  <1> QED BY <1>4, <1>5

LEMMA InitTypes == Init => TypeOK
  <1> SUFFICES ASSUME Init PROVE TypeOK
      OBVIOUS
  <1>1. place \in [Mails -> Places]
        BY DEF Init, Places
  <1>2. stage \in DOMAIN Stages /\ plan \in Plans /\ status \in [Mails -> Statuses]
        BY StagesAre DEF Init, NoPlan, Plans, Statuses
  <1>3. /\ todo \subseteq Mails /\ batch \subseteq Mails /\ forwarded \subseteq Mails
        /\ {touched, restored, slipped, strayed, blotted} \subseteq SUBSET Mails
        BY DEF Init
  <1>4. /\ taken \in 0..Limit /\ moves \in 0..MaxMoves /\ faults \in 0..MaxFaults
        /\ crashes \in 0..MaxCrashes
        BY Numbers DEF Init
  <1>5. /\ dest \in [Mails -> Folders \cup {"none", "malware"}] /\ deliveries \in [Mails -> Nat]
        /\ mover \in [Mails -> {"agent", "user"}]
        BY DEF Init
  <1> QED BY <1>1, <1>2, <1>3, <1>4, <1>5 DEF Init, TypeOK

LEMMA StepKeepsTypes ==
    ASSUME TypeOK, Tracking, Planned, [Next]_vars, taken' \in 0..Limit
    PROVE  TypeOK'
  <1> USE FolderIs, Numbers
  <1>1. CASE Start
        BY <1>1, StagesAre DEF Start, TypeOK, rows, item, history, budget
  <1>2. CASE List
        BY <1>2 DEF List, TypeOK, NextStage, Listing, InFolder, rows, item, history, budget
  <1>3. CASE ListError
    <2>1. stage' \in DOMAIN Stages /\ pc' \in {"idle", "list"} /\ failed' \in BOOLEAN
          BY <1>3 DEF ListError, TypeOK, NextStage
    <2>2. faults' \in 0..MaxFaults /\ moves' = moves /\ crashes' = crashes
          BY <1>3 DEF ListError, TypeOK, Fault
    <2> QED BY <1>3, <2>1, <2>2 DEF ListError, TypeOK, rows, item, history
  <1>4. CASE ListingEnds
        BY <1>4 DEF ListingEnds, TypeOK, NextStage, rows, history, budget
  <1>5. ASSUME NEW m \in Mails, Missing(m) PROVE TypeOK'
        BY <1>5 DEF Missing, TypeOK, rows, item, history, budget
  <1>6. ASSUME NEW m \in Mails, LoadError(m) PROVE TypeOK'
        BY <1>6 DEF LoadError, Fault, TypeOK, rows, item, history
  <1>7. ASSUME NEW m \in Mails, Blocked(m) PROVE TypeOK'
        BY <1>7 DEF Blocked, Fault, TypeOK, Plans, Statuses, Folders, rows, history
  <1>8. ASSUME NEW m \in Mails, Load(m) PROVE TypeOK'
    <2>1. CASE Step(m) = "skip"
          BY <1>8, <2>1 DEF Load, TypeOK, rows, history, budget
    <2>2. CASE Step(m) = "collect"
          BY <1>8, <2>2 DEF Load, TypeOK, rows, history, budget
    <2>3. CASE Step(m) = "learn"
          BY <1>8, <2>3 DEF Load, TypeOK, rows, history, budget, Step, MustMove, Interrupted
    <2>4. CASE Step(m) \in {"retry", "error"}
          BY <1>8, <2>4 DEF Load, TypeOK, rows, history, budget, Step, PlanFor, StatusFor, Plans, Folders, Statuses, Final, MustMove
    <2> QED BY <2>1, <2>2, <2>3, <2>4 DEF Step
  <1>9. CASE Learn
        BY <1>9 DEF Learn, TypeOK, rows, work, item, budget
  <1>10. ASSUME NEW m \in Mails, Keep(m) PROVE TypeOK'
        BY <1>10 DEF Keep, Routing, Proceed, TypeOK, Statuses, Final, item, history, budget
  <1>11. ASSUME NEW m \in Mails, Sort(m) PROVE TypeOK'
    <2>1. \A c \in {"spam", "routine", "relevant", "appointment", "uncertain"} : Outcomes(c) \subseteq Folders
          BY DEF Outcomes, Folders
    <2>2. plan' \in Plans
          BY <1>11 DEF Sort, Outcomes, PlanFor, StatusFor, Plans, Folders, Statuses, Final
    <2> QED BY <1>11, <2>2 DEF Sort, Routing, TypeOK, Statuses, history, budget
  <1>12. ASSUME NEW m \in Mails, SortToForward(m) PROVE TypeOK'
    <2>2. plan' \in Plans
          BY <1>12 DEF SortToForward, ForwardOutcomes, PlanFor, StatusFor, Plans, Folders, Statuses, Final
    <2> QED BY <1>12, <2>2 DEF SortToForward, Routing, TypeOK, Statuses, history, budget
  <1>13. CASE Forward
        BY <1>13 DEF Forward, Tracking, TypeOK, Statuses, work, item, history, budget
  <1>14. CASE Send
    <2>1. cur \in Mails
          BY <1>14 DEF Send, Tracking
    <2>2. deliveries' \in [Mails -> Nat] /\ touched' \subseteq Mails /\ slipped' \subseteq Mails
          BY <1>14, <2>1 DEF Send, Deliver, TypeOK
    <2>3. /\ answer' \in {"sent", "uncertain", "refused"}
          /\ moves' = moves /\ faults' \in 0..MaxFaults /\ crashes' = crashes
          BY <1>14 DEF Send, Fault, TypeOK, budget
    <2> QED BY <1>14, <2>2, <2>3 DEF Send, TypeOK, rows, work
  <1>15. CASE Record
    <2>1. cur \in Mails
          BY <1>15 DEF Record, Tracking
    <2>2. \E s \in {"forwarded-awaiting-move", "delivery-uncertain", "forward-failed"} :
            status' = [status EXCEPT ![cur] = s]
          BY <1>15 DEF Record
    <2>3. status' \in [Mails -> Statuses]
          BY <2>1, <2>2 DEF TypeOK, Statuses, Final
    <2>4. plan' \in Plans
          BY <1>15 DEF Record, TypeOK, Statuses, Final, PlanFor, StatusFor, Plans, Folders
    <2>5. forwarded' \subseteq Mails
          BY <1>15, <2>1 DEF Record, TypeOK
    <2> QED BY <1>15, <2>3, <2>4, <2>5 DEF Record, TypeOK, work, history, budget
  <1>16. CASE Move
    <2>1. cur \in Mails /\ pc' \in {"stamp", "settle"}
          BY <1>16 DEF Move, Tracking
    <2>2. plan.dest \in Places
          BY <1>16 DEF Move, Planned, ScanPlans, RoutePlans, Uncertain, PlanFor, Folders, Places
    <2>3. /\ place' \in [Mails -> Places] /\ strayed' \subseteq Mails /\ answer' \in {"moved", "failed"}
          /\ faults' \in 0..MaxFaults /\ moves' = moves /\ crashes' = crashes
          BY <1>16, <2>1, <2>2 DEF Move, Moves, Stays, Fault, TypeOK, budget
    <2>4. mover' \in [Mails -> {"agent", "user"}]
          BY <1>16, <2>1 DEF Move, TypeOK
    <2> QED BY <1>16, <2>1, <2>3, <2>4 DEF Move, TypeOK, rows, work
  <1>17. CASE Stamp
        BY <1>17 DEF Stamp, Tracking, TypeOK, Plans, work, item, budget
  <1>18. CASE Settle
        BY <1>18 DEF Settle, Settled, Proceed, Tracking, TypeOK, Plans, NoPlan, Statuses, budget
  <1>19. CASE Crash
        BY <1>19 DEF Crash, TypeOK, Plans, NoPlan, Statuses, rows, history
  <1>20. ASSUME NEW m \in Mails, UserMove(m) PROVE TypeOK'
        BY <1>20 DEF UserMove, TypeOK, rows, work, item
  <1>21. CASE UNCHANGED vars
        BY <1>21 DEF TypeOK, vars, rows, work, item, history, budget
  <1> QED BY <1>1, <1>2, <1>3, <1>4, <1>5, <1>6, <1>7, <1>8, <1>9, <1>10, <1>11, <1>12, <1>13, <1>14,
             <1>15, <1>16, <1>17, <1>18, <1>19, <1>20, <1>21 DEF Next, Agent

-----------------------------------------------------------------------------
(* The room of a batch *)

LEMMA LoadingIsListed ==
    ASSUME TypeOK, Tracking, NEW m \in Mails, Loading(m)
    PROVE  m \in todo /\ m \notin batch /\ cur = 0 /\ pc = "load"
  BY NewestIsThere DEF Loading, TypeOK, Tracking

LEMMA RoutingIsThere ==
    ASSUME TypeOK, Tracking, NEW m \in Mails, Routing(m)
    PROVE  /\ pc = "route"
           /\ how = "batch" => m \in batch /\ cur = 0 /\ batch' = batch \ {m}
           /\ how # "batch" => m = cur /\ batch' = batch
  BY NewestIsThere DEF Routing, TypeOK, Tracking

Pending == todo \cup batch

\* A batch never takes more than its limit: what is in work and what was taken
\* counts against what may still be listed.
LEMMA StepKeepsCounts ==
    ASSUME TypeOK, Tracking, Counts, [Next]_vars
    PROVE  Counts' /\ taken' \in 0..Limit
  <1> USE Numbers
  <1> DEFINE Fits == /\ Pending' \in SUBSET Mails /\ taken' \in Nat
                     /\ taken' + Cardinality(Pending') + (IF cur' = 0 THEN 0 ELSE 1) =< Limit
  <1>0. Pending \in SUBSET Mails /\ Cardinality(Pending) \in Nat /\ taken \in 0..Limit
    <2>1. Pending \in SUBSET Mails
          BY DEF Pending, TypeOK
    <2> QED BY <2>1, Smaller DEF TypeOK
  <1>a. taken + Cardinality(Pending) + (IF cur = 0 THEN 0 ELSE 1) =< Limit
        BY DEF Counts, Pending
  <1>b. SUFFICES Fits
    <2>1. Pending' \in SUBSET Mails => Cardinality(Pending') \in Nat
          BY Smaller
    <2> QED BY <2>1 DEF Counts, Pending
  <1>c. Pending' = Pending /\ taken' = taken /\ cur' = cur => Fits
        BY <1>0, <1>a
  <1>d. ASSUME Pending' \subseteq Pending, taken' = taken, cur' = cur PROVE Fits
    <2>1. Cardinality(Pending') =< Cardinality(Pending) /\ Cardinality(Pending') \in Nat
          BY <1>d, <1>0, Smaller
    <2> QED BY <1>d, <2>1, <1>0, <1>a
  <1>e. ASSUME NEW m \in Pending, Pending' = Pending \ {m}, cur = 0,
               (taken' = taken /\ cur' = m) \/ (taken' = taken + 1 /\ cur' = 0)
        PROVE  Fits
    <2>1. Cardinality(Pending') = Cardinality(Pending) - 1 /\ Cardinality(Pending') \in Nat
          BY <1>e, <1>0, OneLess
    <2> HIDE DEF Pending
    <2> QED BY <1>e, <2>1, <1>0, <1>a
  <1>f. ASSUME Pending' = {}, taken' \in {0, taken}, cur' = 0 PROVE Fits
        BY <1>f, <1>0, FS_EmptySet
  <1>1. CASE Start
        BY <1>1, <1>f DEF Start, Tracking, Pending, item
  <1>2. CASE List
    <2>1. todo = {} /\ batch = {} /\ cur = 0 /\ batch' = {} /\ cur' = 0 /\ taken' = taken
          BY <1>2 DEF List, Tracking, item
    <2>2. CASE Room = 0
          BY <1>2, <2>1, <2>2, <1>c DEF List, Pending
    <2>3. CASE Room # 0
      <3>1. Pending' = Listing
            BY <1>2, <2>1, <2>3 DEF List, Pending
      <3>2. Listing \in SUBSET Mails /\ taken + Cardinality(Listing) =< Limit /\ Cardinality(Listing) \in Nat
            BY <2>1, <2>3, ListingFits, Smaller
      <3> QED BY <3>1, <3>2, <2>1, <1>0
    <2> QED BY <2>2, <2>3
  <1>3. CASE ListError \/ ListingEnds \/ Learn \/ Forward \/ Send \/ Record \/ Move \/ Stamp \/ UNCHANGED vars
        BY <1>3, <1>c DEF ListError, ListingEnds, Learn, Forward, Send, Record, Move, Stamp, vars,
                          work, item, Pending
  <1>4. ASSUME NEW m \in Mails, Missing(m) \/ LoadError(m) PROVE Fits
        BY <1>4, <1>d DEF Missing, LoadError, item, Pending
  <1>5. ASSUME NEW m \in Mails, Blocked(m) PROVE Fits
    <2>1. m \in todo /\ m \notin batch /\ cur = 0
          BY <1>5, LoadingIsListed DEF Blocked
    <2>2. Pending' = Pending \ {m} /\ taken' = taken /\ cur' = m
          BY <1>5, <2>1 DEF Blocked, Pending
    <2> QED BY <2>1, <2>2, <1>e DEF Pending
  <1>6. ASSUME NEW m \in Mails, Load(m) PROVE Fits
    <2>1. m \in todo /\ m \notin batch /\ cur = 0
          BY <1>6, LoadingIsListed DEF Load
    <2>2. \/ Pending' = Pending \ {m} /\ cur' = cur
          \/ Pending' = Pending /\ cur' = cur
          \/ Pending' = Pending \ {m} /\ cur' = m
          BY <1>6, <2>1 DEF Load, Pending
    <2>3. taken' = taken
          BY <1>6 DEF Load
    <2> QED BY <2>1, <2>2, <2>3, <1>c, <1>d, <1>e DEF Pending
  <1>7. ASSUME NEW m \in Mails, Keep(m) PROVE Fits
    <2>1. how = "batch" /\ m \in batch /\ cur = 0 /\ batch' = batch \ {m} /\ m \notin todo
          BY <1>7, RoutingIsThere DEF Keep, InQuarantine, Tracking
    <2> QED BY <1>7, <2>1, <1>e DEF Keep, Pending, item
  <1>8. ASSUME NEW m \in Mails, Sort(m) \/ SortToForward(m) PROVE Fits
    <2>1. Routing(m) /\ cur' = m /\ taken' = taken /\ todo' = todo
          BY <1>8 DEF Sort, SortToForward
    <2>2. CASE how = "batch"
      <3>1. m \in batch /\ cur = 0 /\ batch' = batch \ {m} /\ m \notin todo
            BY <2>1, <2>2, RoutingIsThere DEF Tracking
      <3> QED BY <2>1, <3>1, <1>e DEF Pending
    <2>3. CASE how # "batch"
          BY <2>1, <2>3, RoutingIsThere, <1>c DEF Pending
    <2> QED BY <2>2, <2>3
  <1>9. CASE Settle
    <2>1. cur \in Mails /\ cur' = 0 /\ taken' = taken + 1 /\ Pending' = Pending
          BY <1>9 DEF Settle, Settled, Tracking, Pending
    <2> QED BY <2>1, <1>0, <1>a
  <1>10. CASE Crash
        BY <1>10, <1>f DEF Crash, Pending
  <1>11. ASSUME NEW m \in Mails, UserMove(m) PROVE Fits
        BY <1>11, <1>c DEF UserMove, work, item, Pending
  <1> QED BY <1>1, <1>2, <1>3, <1>4, <1>5, <1>6, <1>7, <1>8, <1>9, <1>10, <1>11 DEF Next, Agent

-----------------------------------------------------------------------------
(* What is in work, and why *)

LEMMA FolderStays == stage' = stage => Folder' = Folder
  BY DEF Folder

LEMMA StepKeepsTracking ==
    ASSUME TypeOK, Tracking, Reasons, [Next]_vars
    PROVE  Tracking'
  <1> USE FolderStays, Numbers
  <1>1. CASE Start \/ List \/ ListError \/ ListingEnds
    <2>1. cur = 0 /\ cur' = 0 /\ batch' = batch
          BY <1>1 DEF Start, List, ListError, ListingEnds, Tracking, item
    <2>2. CASE ListingEnds
          BY <2>1, <2>2 DEF ListingEnds, NextStage, Tracking
    <2>3. CASE Start \/ List \/ ListError
      <3>1. batch = {} /\ todo = {} /\ pc' \in {"idle", "list", "load"}
            BY <2>3 DEF Start, List, ListError, NextStage, Tracking
      <3>2. pc' \in {"idle", "list"} => todo' = {}
            BY <2>3, <3>1 DEF Start, List, ListError, NextStage
      <3>3. 0 \notin todo'
            BY <2>3, <3>1 DEF Start, List, ListError, Listing, InFolder
      <3> QED BY <2>1, <3>1, <3>2, <3>3 DEF Tracking
    <2> QED BY <1>1, <2>2, <2>3
  <1>2. ASSUME NEW m \in Mails, Missing(m) \/ LoadError(m) \/ Blocked(m) PROVE Tracking'
    <2>1. m \in todo /\ m \notin batch /\ cur = 0 /\ pc = "load"
          BY <1>2, LoadingIsListed DEF Missing, LoadError, Blocked
    <2> QED BY <1>2, <2>1 DEF Missing, LoadError, Blocked, Tracking, item
  <1>3. ASSUME NEW m \in Mails, Load(m) PROVE Tracking'
    <2>1. m \in todo /\ m \notin batch /\ cur = 0 /\ pc = "load"
          BY <1>3, LoadingIsListed DEF Load
    <2>2. CASE Step(m) = "skip"
          BY <1>3, <2>1, <2>2 DEF Load, Tracking
    <2>3. CASE Step(m) = "collect"
          BY <1>3, <2>1, <2>3 DEF Load, Tracking, Step
    <2>4. CASE Step(m) = "learn"
          BY <1>3, <2>1, <2>4 DEF Load, Tracking
    <2>5. CASE Step(m) \in {"retry", "error"}
          BY <1>3, <2>1, <2>5 DEF Load, Tracking
    <2> QED BY <2>2, <2>3, <2>4, <2>5 DEF Step
  <1>4. ASSUME NEW m \in Mails, Keep(m) \/ Sort(m) \/ SortToForward(m) PROVE Tracking'
    <2>1. CASE how = "batch"
      <3>1. m \in batch /\ cur = 0 /\ batch' = batch \ {m} /\ m \notin todo
            BY <1>4, <2>1, RoutingIsThere DEF Keep, Sort, SortToForward, Tracking
      <3> QED BY <1>4, <2>1, <3>1 DEF Keep, Sort, SortToForward, Proceed, Tracking, item
    <2>2. CASE how # "batch"
      <3>1. m = cur /\ batch' = batch
            BY <1>4, <2>2, RoutingIsThere DEF Keep, Sort, SortToForward
      <3> QED BY <1>4, <2>2, <3>1 DEF Keep, Sort, SortToForward, InQuarantine, Tracking
    <2> QED BY <2>1, <2>2
  <1>5. CASE Learn \/ Forward \/ Send \/ Record \/ Move \/ Stamp
        BY <1>5 DEF Learn, Forward, Send, Record, Move, Stamp, Tracking, Reasons, work, item
  <1>6. CASE Settle
        BY <1>6 DEF Settle, Settled, Proceed, Tracking, TypeOK
  <1>7. CASE Crash
        BY <1>7 DEF Crash, Tracking
  <1>8. ASSUME NEW m \in Mails, UserMove(m) PROVE Tracking'
        BY <1>8 DEF UserMove, Tracking, work, item
  <1>9. CASE UNCHANGED vars
        BY <1>9 DEF vars, Tracking, work, item
  <1> QED BY <1>1, <1>2, <1>3, <1>4, <1>5, <1>6, <1>7, <1>8, <1>9 DEF Next, Agent

LEMMA StepKeepsReasons ==
    ASSUME TypeOK, Tracking, Reasons, [Next]_vars
    PROVE  Reasons'
  <1> USE FolderStays, FolderIs
  <1>1. CASE Start \/ List \/ ListError \/ Crash
        BY <1>1 DEF Start, List, ListError, Crash, NextStage, Reasons
  <1>2. CASE ListingEnds
        BY <1>2 DEF ListingEnds, NextStage, Tracking, Reasons, Fitting
  <1>3. ASSUME NEW m \in Mails, Missing(m) \/ LoadError(m) \/ Blocked(m) PROVE Reasons'
        BY <1>3 DEF Missing, LoadError, Blocked, Loading, Reasons, Fitting, item
  <1>4. ASSUME NEW m \in Mails, Load(m) PROVE Reasons'
    <2>1. pc = "load" /\ stage' = stage
          BY <1>4 DEF Load, Loading
    <2>2. CASE Step(m) = "skip"
          BY <1>4, <2>1, <2>2 DEF Load, Reasons
    <2>3. CASE Step(m) = "collect"
          BY <1>4, <2>1, <2>3 DEF Load, Reasons, Fitting, Step
    <2>4. CASE Step(m) = "learn"
          BY <1>4, <2>1, <2>4 DEF Load, Reasons, Fitting, Step, Corrections, TypeOK
    <2>5. CASE Step(m) \in {"retry", "error"}
          BY <1>4, <2>1, <2>5 DEF Load, Reasons, Fitting
    <2> QED BY <2>2, <2>3, <2>4, <2>5 DEF Step
  <1>5. ASSUME NEW m \in Mails, Keep(m) \/ Sort(m) \/ SortToForward(m) PROVE Reasons'
        BY <1>5 DEF Keep, Sort, SortToForward, Routing, Proceed, Reasons, Fitting, item
  <1>6. CASE Learn \/ Forward \/ Send \/ Record \/ Move \/ Stamp \/ Settle
        BY <1>6 DEF Learn, Forward, Send, Record, Move, Stamp, Settle, Settled, Proceed,
                    Tracking, Reasons, Fitting, work, item
  <1>7. ASSUME NEW m \in Mails, UserMove(m) PROVE Reasons'
        BY <1>7 DEF UserMove, Reasons, Fitting, work, item
  <1>8. CASE UNCHANGED vars
        BY <1>8 DEF vars, Reasons, Fitting, work, item
  <1> QED BY <1>1, <1>2, <1>3, <1>4, <1>5, <1>6, <1>7, <1>8 DEF Next, Agent

LEMMA StepKeepsOpenRows ==
    ASSUME TypeOK, Tracking, Reasons, OpenRows, Planned, [Next]_vars
    PROVE  OpenRows'
  <1> USE FolderStays, FolderIs, Numbers
  <1>1. CASE Start \/ List \/ ListError \/ Crash
    <2>1. batch' = {} /\ pc' \in {"idle", "list", "load"} /\ UNCHANGED <<status, dest>>
          BY <1>1 DEF Start, List, ListError, Crash, NextStage, Tracking, rows
    <2> QED BY <2>1 DEF OpenRows
  <1>2. CASE ListingEnds
    <2>1. batch' = batch /\ pc' \in {"idle", "list", "load", "route"} /\ UNCHANGED <<status, dest, forwarded>>
          BY <1>2 DEF ListingEnds, NextStage, rows
    <2>2. batch' = {} \/ stage' = stage
          BY <1>2 DEF ListingEnds
    <2> QED BY <2>1, <2>2 DEF OpenRows, MustMove, Interrupted
  <1>3. ASSUME NEW m \in Mails, Missing(m) \/ LoadError(m) \/ Blocked(m) PROVE OpenRows'
        BY <1>3 DEF Missing, LoadError, Blocked, Loading, OpenRows, MustMove, Interrupted, item, rows
  <1>4. ASSUME NEW m \in Mails, Load(m) PROVE OpenRows'
    <2>1. pc = "load" /\ stage' = stage /\ UNCHANGED <<status, dest, forwarded>>
          BY <1>4 DEF Load, Loading, rows
    <2>2. CASE Step(m) = "skip"
          BY <1>4, <2>1, <2>2 DEF Load, OpenRows, MustMove, Interrupted
    <2>3. CASE Step(m) = "collect"
      <3>1. status[m] \notin Final /\ ~MustMove(m) /\ (Folder = "quarantine" \/ ~Interrupted(m))
            BY <2>3 DEF Step
      <3> QED BY <1>4, <2>1, <2>3, <3>1 DEF Load, OpenRows, MustMove, Interrupted
    <2>4. CASE Step(m) = "learn"
          BY <1>4, <2>1, <2>4 DEF Load, OpenRows, MustMove, Interrupted
    <2>5. CASE Step(m) \in {"retry", "error"}
      <3>1. status[m] \in {"forwarding", "move-failed"}
            BY <2>5 DEF Step, MustMove, Interrupted
      <3> QED BY <1>4, <2>1, <2>5, <3>1 DEF Load, OpenRows, MustMove, Interrupted, Folders
    <2> QED BY <2>2, <2>3, <2>4, <2>5 DEF Step
  <1>5. ASSUME NEW m \in Mails, Keep(m) \/ Sort(m) \/ SortToForward(m) PROVE OpenRows'
    <2>1. \A n \in batch' : n \in batch /\ n # m
      <3>1. Routing(m)
            BY <1>5 DEF Keep, Sort, SortToForward
      <3>2. how = "batch" => batch' = batch \ {m}
            BY <3>1, RoutingIsThere
      <3>3. how # "batch" => batch' = batch /\ m = cur
            BY <3>1, RoutingIsThere
      <3> QED BY <3>2, <3>3 DEF Tracking
    <2>2. \E s \in {"classified", "quarantine-reviewed"} : status' = [status EXCEPT ![m] = s]
          BY <1>5 DEF Keep, Sort, SortToForward
    <2>3. UNCHANGED <<dest, forwarded, stage>>
          BY <1>5 DEF Keep, Sort, SortToForward
    <2>4. \A n \in batch' : /\ status'[n] \notin Final /\ ~MustMove(n)'
                            /\ Folder' = "quarantine" \/ ~Interrupted(n)'
          BY <2>1, <2>2, <2>3 DEF OpenRows, MustMove, Interrupted, TypeOK
    <2>5. \A n \in Mails : status'[n] = "move-failed" => dest'[n] # "none"
          BY <2>2, <2>3 DEF OpenRows, TypeOK
    <2>6. pc' \in {"route", "load"} \/ (pc' \in {"move", "forward"} /\ cur' = m /\ status'[m] = "classified")
          BY <1>5 DEF Keep, Sort, SortToForward, Proceed, TypeOK
    <2> QED BY <2>4, <2>5, <2>6 DEF OpenRows, Folders
  <1>6. CASE Learn \/ Move
        BY <1>6 DEF Learn, Move, OpenRows, MustMove, Interrupted, work, item, rows, Tracking, Reasons
  <1>7. CASE Forward
    <2>1. \A n \in batch : n # cur
          BY DEF Tracking
    <2>2. cur \in Mails
          BY <1>7 DEF Forward, Tracking
    <2> QED BY <1>7, <2>1, <2>2 DEF Forward, OpenRows, MustMove, Interrupted, work, item, TypeOK, Folders
  <1>8. CASE Send
        BY <1>8 DEF Send, OpenRows, MustMove, Interrupted, work, rows
  <1>9. CASE Record
    <2>1. \A n \in batch : n # cur
          BY DEF Tracking
    <2>2. cur \in Mails
          BY <1>9 DEF Record, Tracking
    <2>3. \E s \in {"forwarded-awaiting-move", "delivery-uncertain", "forward-failed"} :
            status' = [status EXCEPT ![cur] = s]
          BY <1>9 DEF Record
    <2>4. forwarded' \in {forwarded, forwarded \cup {cur}} /\ UNCHANGED <<dest, stage, batch, cur>> /\ pc' = "move"
          BY <1>9 DEF Record, work
    <2> QED BY <2>1, <2>2, <2>3, <2>4 DEF OpenRows, MustMove, Interrupted, TypeOK, Folders
  <1>10. CASE Stamp
    <2>1. \A n \in batch : n # cur
          BY DEF Tracking
    <2>2. cur \in Mails /\ plan.status # "move-failed" /\ how = "scan"
          BY <1>10 DEF Stamp, Tracking, Reasons, Planned, ScanPlans
    <2> QED BY <1>10, <2>1, <2>2 DEF Stamp, OpenRows, MustMove, Interrupted, TypeOK, work, item
  <1>11. CASE Settle
    <2>1. \A n \in batch : n # cur
          BY DEF Tracking
    <2>2. cur \in Mails /\ plan.status # "move-failed" /\ plan.dest # "none"
          BY <1>11 DEF Settle, Tracking, Planned, ScanPlans, RoutePlans, Uncertain, PlanFor, StatusFor, Folders
    <2>3. /\ UNCHANGED <<stage, batch, forwarded>> /\ pc' \in {"route", "load"}
          /\ \/ UNCHANGED <<status, dest>>
             \/ \E s \in {plan.status, "move-failed"} :
                   /\ status' = [status EXCEPT ![cur] = s]
                   /\ dest' = [dest EXCEPT ![cur] = plan.dest]
          BY <1>11 DEF Settle, Settled, Proceed
    <2>4. \A n \in batch : /\ status'[n] = status[n] /\ dest'[n] = dest[n]
          BY <2>1, <2>3 DEF TypeOK
    <2>5. \A n \in Mails : status'[n] = "move-failed" => dest'[n] # "none"
          BY <2>2, <2>3 DEF TypeOK, OpenRows
    <2> QED BY <2>3, <2>4, <2>5 DEF OpenRows, MustMove, Interrupted
  <1>12. ASSUME NEW m \in Mails, UserMove(m) PROVE OpenRows'
        BY <1>12 DEF UserMove, OpenRows, MustMove, Interrupted, work, item, rows
  <1>13. CASE UNCHANGED vars
        BY <1>13 DEF vars, OpenRows, MustMove, Interrupted, work, item, rows
  <1> QED BY <1>1, <1>2, <1>3, <1>4, <1>5, <1>6, <1>7, <1>8, <1>9, <1>10, <1>11, <1>12, <1>13 DEF Next, Agent

-----------------------------------------------------------------------------
(* What is planned for a mail *)

\* What a mail gets by a route: its folder and the status for it, but for an
\* uncertain delivery; by the scanner: a folder that blocks it.
LEMMA PlansFit ==
    ASSUME Planned, pc \in {"move", "stamp", "settle"}
    PROVE  /\ plan.dest \in Folders \cup {"malware"} /\ plan.dest \notin {"INBOX", "none", "quarantine"}
           /\ how = "scan" => /\ plan.dest \in ToBlock
                              /\ plan.status \in {"none", "malware-detected", "antivirus-error"}
           /\ how # "scan" => /\ plan.status \in Statuses \ {"none", "move-failed"}
                              /\ plan.status \in Folders => plan.status = StatusFor(plan.dest)
                              /\ plan.dest = "spam" => plan.status = "spam"
  <1>1. CASE how = "scan"
        BY <1>1 DEF Planned, ScanPlans, ToBlock, Folders
  <1>2. CASE how # "scan"
    <2>1. CASE plan = Uncertain
          BY <1>2, <2>1 DEF Uncertain, Folders, Statuses, Final
    <2>2. ASSUME NEW f \in Folders \cup {"malware"}, plan = PlanFor(f) PROVE plan.dest = f /\ plan.status = StatusFor(f)
          BY <2>2 DEF PlanFor
    <2>3. plan = Uncertain \/ \E f \in Folders \cup {"malware"} : plan = PlanFor(f)
          BY <1>2 DEF Planned, RoutePlans
    <2> QED BY <1>2, <2>1, <2>2, <2>3 DEF StatusFor, Folders, Statuses, Final
  <1> QED BY <1>1, <1>2

\* In a correction folder, every outcome of the user's word is one it allows.
LEMMA OutcomesFit ==
    ASSUME TypeOK, NEW m \in Mails, Fitting, NEW c \in Verdicts(m),
           NEW f \in Outcomes(c) \cup ForwardOutcomes(c)
    PROVE  /\ f \in Folders /\ PlanFor(f) \in RoutePlans
           /\ f \in ForwardOutcomes(c) => f \in {"forwarded", "appointment-review"}
           /\ Folder \in Corrections => PlanFor(f).dest \in Allowed(Folder)
  <1>1. f \in Folders /\ (f \in ForwardOutcomes(c) => f \in {"forwarded", "appointment-review"})
        BY DEF Outcomes, ForwardOutcomes, Folders
  <1>2. ASSUME Folder \in Corrections PROVE f \in Allowed(Folder)
    <2>1. how = Folder
          BY <1>2 DEF Fitting
    <2>2. CASE how = "fix-spam"
          BY <2>1, <2>2 DEF Verdicts, Outcomes, ForwardOutcomes, Allowed
    <2>3. CASE how = "fix-routine"
          BY <2>1, <2>3 DEF Verdicts, Outcomes, ForwardOutcomes, Allowed
    <2>4. CASE how = "fix-relevant"
          BY <2>1, <2>4 DEF Verdicts, Outcomes, ForwardOutcomes, Allowed
    <2>5. CASE how = "fix-not-spam"
          BY <2>1, <2>5 DEF Verdicts, Outcomes, ForwardOutcomes, Allowed, Folders
    <2> QED BY <1>2, <2>1, <2>2, <2>3, <2>4, <2>5 DEF Corrections
  <1> QED BY <1>1, <1>2 DEF PlanFor, RoutePlans

LEMMA StepKeepsPlanned ==
    ASSUME TypeOK, Tracking, Reasons, Planned, [Next]_vars
    PROVE  Planned'
  <1> USE FolderStays, FolderIs
  <1>1. CASE Start \/ List \/ ListError \/ ListingEnds \/ Crash \/ Settle \/ Learn
    <2>1. pc' \in {"idle", "list", "load", "route"}
          BY <1>1 DEF Start, List, ListError, ListingEnds, Crash, Settle, Settled, Proceed, NextStage, Learn
    <2> QED BY <2>1 DEF Planned
  <1>2. ASSUME NEW m \in Mails, Missing(m) \/ LoadError(m) \/ Keep(m) PROVE Planned'
    <2>1. pc' \in {"load", "route"}
          BY <1>2 DEF Missing, LoadError, Loading, Keep, Proceed
    <2> QED BY <2>1 DEF Planned
  <1>3. ASSUME NEW m \in Mails, Blocked(m) PROVE Planned'
    <2>1. plan' \in ScanPlans /\ plan'.dest \in Allowed(Folder)
          BY <1>3 DEF Blocked, ScanPlans, Allowed
    <2>2. how' = "scan" /\ pc' = "move" /\ stage' = stage
          BY <1>3 DEF Blocked
    <2> QED BY <2>1, <2>2 DEF Planned
  <1>4. ASSUME NEW m \in Mails, Load(m) PROVE Planned'
    <2>1. pc = "load" /\ stage' = stage
          BY <1>4 DEF Load, Loading
    <2>2. CASE Step(m) \notin {"retry", "error"}
      <3>1. pc' \in {"load", "route", "learn"}
            BY <1>4, <2>1, <2>2 DEF Load, Step
      <3> QED BY <3>1 DEF Planned
    <2>3. CASE Step(m) \in {"retry", "error"}
      <3>1. pc' = "move" /\ how' = "row" /\ plan' = PlanFor(IF Step(m) = "retry" THEN dest[m] ELSE "error")
            BY <1>4, <2>3 DEF Load
      <3>2. Step(m) = "retry" => dest[m] \in Folders \cup {"malware"}
            BY DEF Step, MustMove, TypeOK
      <3>3. plan' \in RoutePlans
            BY <2>3, <3>1, <3>2 DEF RoutePlans, Folders
      <3>4. Folder \in Corrections => plan'.dest \in Allowed(Folder)
        <4>1. Folder \in Corrections => Step(m) # "retry"
              BY DEF Step
        <4> QED BY <2>3, <3>1, <4>1 DEF PlanFor, Allowed
      <3> QED BY <2>1, <3>1, <3>3, <3>4 DEF Planned
    <2> QED BY <2>2, <2>3
  <1>5. ASSUME NEW m \in Mails, Sort(m) PROVE Planned'
    <2>1. Fitting /\ how' = how /\ how # "scan" /\ stage' = stage /\ pc' = "move"
          BY <1>5 DEF Sort, Routing, Reasons, Fitting, Corrections
    <2>2. PICK c \in Verdicts(m) : \E f \in Outcomes(c) : plan' = PlanFor(f)
          BY <1>5 DEF Sort
    <2>3. PICK f \in Outcomes(c) : plan' = PlanFor(f)
          BY <2>2
    <2>4. plan' \in RoutePlans /\ (Folder \in Corrections => plan'.dest \in Allowed(Folder))
          BY <2>1, <2>3, OutcomesFit
    <2> QED BY <2>1, <2>4 DEF Planned
  <1>6. ASSUME NEW m \in Mails, SortToForward(m) PROVE Planned'
    <2>1. Fitting /\ how' = how /\ how # "scan" /\ stage' = stage /\ pc' = "forward"
          BY <1>6 DEF SortToForward, Routing, Reasons, Fitting, Corrections
    <2>2. PICK c \in Verdicts(m) : \E f \in ForwardOutcomes(c) : plan' = PlanFor(f)
          BY <1>6 DEF SortToForward
    <2>3. PICK f \in ForwardOutcomes(c) : plan' = PlanFor(f)
          BY <2>2
    <2>4. /\ plan' \in {PlanFor("forwarded"), PlanFor("appointment-review")}
          /\ Folder \in Corrections => plan'.dest \in Allowed(Folder)
          BY <2>1, <2>3, OutcomesFit
    <2> QED BY <2>1, <2>4 DEF Planned
  <1>7. CASE Forward \/ Record
    <2>1. /\ plan \in {PlanFor("forwarded"), PlanFor("appointment-review")}
          /\ plan \in RoutePlans /\ how # "scan" /\ how' = how /\ stage' = stage
          /\ Folder \in Corrections => plan.dest \in Allowed(Folder)
          BY <1>7 DEF Forward, Record, Planned, RoutePlans, Folders, Reasons, Fitting, Corrections, work, item
    <2>2. CASE Forward
          BY <2>1, <2>2 DEF Forward, Planned, item
    <2>3. CASE Record
      <3>1. plan' \in {plan, Uncertain, PlanFor("error")} /\ pc' = "move"
            BY <2>3 DEF Record, Uncertain
      <3>2. Uncertain \in RoutePlans /\ PlanFor("error") \in RoutePlans
            BY DEF RoutePlans, Folders
      <3>3. Uncertain.dest \in Allowed(Folder) /\ PlanFor("error").dest \in Allowed(Folder)
            BY DEF Uncertain, PlanFor, Allowed
      <3> QED BY <2>1, <3>1, <3>2, <3>3 DEF Planned
    <2> QED BY <1>7, <2>2, <2>3
  <1>8. CASE Send
        BY <1>8 DEF Send, Planned, work
  <1>9. CASE Move
        BY <1>9 DEF Move, Moves, Stays, Planned, work
  <1>10. CASE Stamp
        BY <1>10 DEF Stamp, Planned, work, item
  <1>11. ASSUME NEW m \in Mails, UserMove(m) PROVE Planned'
        BY <1>11 DEF UserMove, Planned, work, item
  <1>12. CASE UNCHANGED vars
        BY <1>12 DEF vars, Planned, work, item
  <1> QED BY <1>1, <1>2, <1>3, <1>4, <1>5, <1>6, <1>7, <1>8, <1>9, <1>10, <1>11, <1>12 DEF Next, Agent

-----------------------------------------------------------------------------
(* Where the mails are *)

\* The user moves a mail: one of the batch or in work is not one that was taken back,
\* and of one that was, the row told where it had been.
LEMMA UserMoves ==
    ASSUME TypeOK, Tracking, OpenRows, Located, SpamIsKnown, NEW m \in Mails, UserMove(m)
    PROVE  /\ \E f \in Places : place' = [place EXCEPT ![m] = f]
           /\ mover' = [mover EXCEPT ![m] = "user"]
           /\ touched' = touched \cup {m} /\ blotted' = blotted \ {m}
           /\ restored' \in {restored \cup {m}, restored \ {m}}
           /\ m \in batch \/ m = cur => m \notin restored'
           /\ m \in restored' => m \in strayed \/ status[m] \in {"spam", "quarantine-reviewed"}
           /\ UNCHANGED <<rows, pc, work, item, deliveries, slipped, strayed>>
  <1>1. PICK f \in UserFolders[m] :
          /\ place' = [place EXCEPT ![m] = f]
          /\ restored' = IF /\ f = "INBOX"
                            /\ cur # m
                            /\ \/ place[m] = "spam" /\ mover[m] = "agent"
                               \/ place[m] = "quarantine" /\ status[m] = "quarantine-reviewed"
                         THEN restored \cup {m} ELSE restored \ {m}
        BY DEF UserMove
  <1>2. f \in Places
        BY Numbers
  <1>3. m \in batch => m \notin restored'
    <2>1. m \in batch => /\ status[m] # "quarantine-reviewed"
                         /\ place[m] = Folder \/ mover[m] = "user"
                         /\ Folder \notin Corrections
          BY DEF OpenRows, Located, AtSource, TakenAway, Tracking, Final
    <2>2. m \in batch => Folder \in {"INBOX", "quarantine"}
          BY <2>1, FolderIs DEF TypeOK
    <2> QED BY <1>1, <2>1, <2>2
  <1>4. m \in restored' => m \in strayed \/ status[m] \in {"spam", "quarantine-reviewed"}
        BY <1>1 DEF SpamIsKnown
  <1> QED BY <1>1, <1>2, <1>3, <1>4 DEF UserMove

LEMMA StepKeepsLocated ==
    ASSUME TypeOK, Tracking, Reasons, Planned, OpenRows, SpamIsKnown, Located, [Next]_vars
    PROVE  Located'
  <1> USE FolderStays, FolderIs, Numbers
  <1>1. CASE Start \/ List \/ ListError \/ Crash
    <2>1. batch' = {} /\ pc' \in {"idle", "list", "load"}
          BY <1>1 DEF Start, List, ListError, Crash, NextStage, Tracking
    <2> QED BY <2>1 DEF Located
  <1>2. CASE ListingEnds
    <2>1. /\ batch' = batch /\ pc' \in {"idle", "list", "load", "route"} /\ cur' = 0
          /\ UNCHANGED <<place, mover, restored, touched>>
          BY <1>2 DEF ListingEnds, NextStage, Tracking, history
    <2>2. batch' = {} \/ stage' = stage
          BY <1>2 DEF ListingEnds
    <2> QED BY <2>1, <2>2 DEF Located, AtSource, TakenAway
  <1>3. ASSUME NEW m \in Mails, Missing(m) \/ LoadError(m) \/ Blocked(m) PROVE Located'
        BY <1>3 DEF Missing, LoadError, Blocked, Loading, Located, AtSource, TakenAway, item, history
  <1>4. ASSUME NEW m \in Mails, Load(m) PROVE Located'
    <2>1. /\ pc = "load" /\ stage' = stage /\ place[m] = Folder /\ cur = 0 /\ AtSource(m)
          /\ UNCHANGED <<place, mover, restored, touched>>
          BY <1>4, LoadingIsListed DEF Load, Loading, history, AtSource
    <2>2. /\ batch' \subseteq batch \cup {m} /\ cur' \in {cur, m}
          /\ pc' \in {"load", "learn", "move"} \/ (pc' = "route" /\ cur' = cur)
          BY <1>4, <2>1 DEF Load
    <2>3. pc' \in {"learn", "move"} => cur' = m
          BY <1>4, <2>1 DEF Load
    <2> QED BY <2>1, <2>2, <2>3 DEF Located, AtSource, TakenAway
  <1>5. ASSUME NEW m \in Mails, Keep(m) \/ Sort(m) \/ SortToForward(m) PROVE Located'
    <2>1. Routing(m)
          BY <1>5 DEF Keep, Sort, SortToForward
    <2>2. AtSource(m) /\ batch' \subseteq batch
          BY <2>1, RoutingIsThere DEF Located
    <2>3. /\ UNCHANGED <<place, mover, restored, touched, stage>>
          /\ (pc' \in {"route", "load"} /\ cur' = cur) \/ (pc' \in {"move", "forward"} /\ cur' = m)
          BY <1>5 DEF Keep, Sort, SortToForward, Proceed, item, history
    <2>4. pc' = "route" => cur' = 0
          BY <1>5, RoutingIsThere DEF Keep, InQuarantine, Sort, SortToForward, item
    <2> QED BY <2>2, <2>3, <2>4 DEF Located, AtSource, TakenAway
  <1>6. CASE Learn \/ Forward \/ Record
        BY <1>6 DEF Learn, Forward, Record, Tracking, Located, AtSource, TakenAway, work, item, history
  <1>7. CASE Send
    <2>1. /\ pc' = "sent" /\ UNCHANGED <<place, mover, restored, stage, batch, cur>>
          /\ touched' \in {touched, touched \ {cur}} /\ cur \notin batch
          BY <1>7 DEF Send, Deliver, work, Tracking
    <2>2. cur \in Mails /\ AtSource(cur)
          BY <1>7 DEF Send, Tracking, Located
    <2> QED BY <2>1, <2>2 DEF Located, AtSource, TakenAway
  <1>8. CASE Move
    <2>1. /\ cur \in Mails /\ cur \notin batch /\ pc' \in {"stamp", "settle"}
          /\ UNCHANGED <<restored, touched, stage, batch, cur, plan>>
          BY <1>8 DEF Move, Tracking, work
    <2>2. \/ /\ place' = [place EXCEPT ![cur] = plan.dest] /\ strayed' = strayed \cup {cur}
          \/ /\ UNCHANGED <<place, strayed>> /\ answer' = "failed"
             /\ mover' = mover \/ place[cur] = Folder
          BY <1>8 DEF Move, Moves, Stays
    <2>3. \A n \in Mails \ {cur} : place'[n] = place[n] /\ mover'[n] = mover[n]
          BY <1>8, <2>1, <2>2 DEF Move, TypeOK
    <2>4. \/ place'[cur] = plan.dest /\ cur \in strayed'
          \/ UNCHANGED place /\ answer' = "failed" /\ (mover' = mover \/ place[cur] = Folder)
          BY <2>1, <2>2 DEF TypeOK
    <2>5. place[cur] = Folder \/ TakenAway(cur)
          BY <1>8 DEF Move, Located
    <2>6. \A n \in batch' : AtSource(n)'
          BY <2>1, <2>3 DEF Located, AtSource, TakenAway, TypeOK
    <2> QED BY <2>1, <2>4, <2>5, <2>6 DEF Located, TakenAway
  <1>9. CASE Stamp
        BY <1>9 DEF Stamp, Located, AtSource, TakenAway, work, item
  <1>10. CASE Settle
    <2>1. /\ pc' \in {"route", "load"} /\ cur' = 0 /\ UNCHANGED <<place, mover, restored, touched, stage, batch>>
          BY <1>10 DEF Settle, Settled, Proceed
    <2> QED BY <2>1 DEF Located, AtSource, TakenAway
  <1>11. ASSUME NEW m \in Mails, UserMove(m) PROVE Located'
    <2>1. PICK f \in Places : place' = [place EXCEPT ![m] = f]
          BY <1>11, UserMoves
    <2>2. /\ mover' = [mover EXCEPT ![m] = "user"] /\ touched' = touched \cup {m}
          /\ restored' \in {restored \cup {m}, restored \ {m}}
          /\ m \in batch \/ m = cur => m \notin restored'
          /\ UNCHANGED <<pc, stage, batch, cur, plan, answer, strayed>>
          BY <1>11, UserMoves DEF work, item
    <2>3. \A n \in batch : AtSource(n)'
      <3> TAKE n \in batch
      <3>1. CASE n = m
            BY <3>1, <2>2 DEF AtSource, TakenAway, TypeOK
      <3>2. CASE n # m
            BY <3>2, <2>1, <2>2 DEF Located, AtSource, TakenAway, TypeOK
      <3> QED BY <3>1, <3>2
    <2>4. CASE cur = m
          BY <2>2, <2>3, <2>4 DEF Located, AtSource, TakenAway, TypeOK
    <2>5. CASE cur # m /\ cur # 0
      <3>1. place'[cur] = place[cur] /\ mover'[cur] = mover[cur] /\ (cur \in restored' <=> cur \in restored)
            /\ (cur \in touched' <=> cur \in touched) /\ Folder' = Folder
            BY <2>1, <2>2, <2>5 DEF TypeOK
      <3> QED BY <2>2, <2>3, <2>5, <3>1 DEF Located, AtSource, TakenAway
    <2>6. CASE cur = 0
          BY <2>2, <2>3, <2>6 DEF Located, Tracking
    <2> QED BY <2>4, <2>5, <2>6
  <1>12. CASE UNCHANGED vars
        BY <1>12 DEF vars, Located, AtSource, TakenAway, work, item, history
  <1> QED BY <1>1, <1>2, <1>3, <1>4, <1>5, <1>6, <1>7, <1>8, <1>9, <1>10, <1>11, <1>12 DEF Next, Agent

-----------------------------------------------------------------------------
(* What the rows say *)

\* A step changes the row or the place of one mail at most; those of every other are kept.
LEMMA QuietSteps ==
    ASSUME \/ Start \/ List \/ ListError \/ ListingEnds \/ Learn \/ Send \/ Crash
           \/ UNCHANGED vars
           \/ \E m \in Mails : Missing(m) \/ LoadError(m) \/ Blocked(m) \/ Load(m)
    PROVE  UNCHANGED <<place, status, dest, forwarded, mover, strayed, blotted>>
  <1>1. CASE Start \/ List \/ ListError \/ ListingEnds \/ Learn \/ Send \/ Crash \/ UNCHANGED vars
        BY <1>1 DEF Start, List, ListError, ListingEnds, Learn, Send, Crash, vars, rows, history
  <1>2. ASSUME NEW m \in Mails, Missing(m) \/ LoadError(m) \/ Blocked(m) \/ Load(m)
        PROVE  UNCHANGED <<place, status, dest, forwarded, mover, strayed, blotted>>
        BY <1>2 DEF Missing, LoadError, Blocked, Load, rows, history
  <1> QED BY <1>1, <1>2

\* The agent puts a mail where it was planned, or leaves it.
LEMMA AgentMoves ==
    ASSUME TypeOK, Tracking, Planned, Move
    PROVE  /\ cur \in Mails
           /\ \A n \in Mails \ {cur} : place'[n] = place[n] /\ mover'[n] = mover[n]
           /\ \/ place'[cur] = plan.dest /\ mover'[cur] \in {mover[cur], "agent"} /\ strayed' = strayed \cup {cur}
              \/ /\ UNCHANGED <<place, strayed>>
                 /\ mover'[cur] = mover[cur] \/ (how # "scan" /\ place[cur] = Folder /\ mover'[cur] = "agent")
           /\ UNCHANGED <<status, dest, forwarded, deliveries, touched, restored, slipped, blotted, batch, cur, how, plan>>
           /\ strayed \subseteq strayed' /\ pc' \in {"stamp", "settle"} /\ stage' = stage
  <1>1. /\ cur \in Mails /\ stage' = stage /\ pc' \in {"stamp", "settle"}
        /\ UNCHANGED <<status, dest, forwarded, deliveries, touched, restored, slipped, blotted, batch, cur, how, plan>>
        BY DEF Move, Tracking, rows, work
  <1>2. \/ place' = [place EXCEPT ![cur] = plan.dest] /\ strayed' = strayed \cup {cur}
        \/ UNCHANGED <<place, strayed>>
        BY DEF Move, Moves, Stays
  <1>3. mover' = IF place' = place /\ (how = "scan" \/ place[cur] # Folder) THEN mover
                 ELSE [mover EXCEPT ![cur] = "agent"]
        BY DEF Move
  <1> QED BY <1>1, <1>2, <1>3 DEF TypeOK

\* A row is brought up to date with what the mail client reported.
LEMMA Settles ==
    ASSUME TypeOK, Tracking, Planned, Settle
    PROVE  /\ cur \in Mails /\ answer \in {"moved", "failed"}
           /\ \A n \in Mails \ {cur} : status'[n] = status[n] /\ dest'[n] = dest[n]
           /\ \/ /\ plan.status = "none" /\ how = "scan"
                 /\ UNCHANGED <<status, dest, strayed, blotted>>
              \/ /\ plan.status # "none"
                 /\ status'[cur] = IF answer = "moved" THEN plan.status ELSE "move-failed"
                 /\ dest'[cur] = plan.dest
                 /\ strayed' = IF answer = "moved" THEN strayed \ {cur} ELSE strayed
                 /\ blotted' = IF how = "scan" THEN blotted \ {cur} ELSE blotted
           /\ UNCHANGED <<place, forwarded, deliveries, mover, touched, restored, slipped, batch>>
           /\ pc' \in {"route", "load"} /\ cur' = 0 /\ stage' = stage
  <1>1. cur \in Mails /\ answer \in {"moved", "failed"} /\ pc = "settle"
        BY DEF Settle, Tracking, Planned
  <1>2. how # "scan" => plan.status # "none"
        BY <1>1, PlansFit
  <1>3. CASE plan.status = "none"
        BY <1>1, <1>2, <1>3 DEF Settle, Settled, Proceed
  <1>4. CASE plan.status # "none"
        BY <1>1, <1>4 DEF Settle, Settled, Proceed, TypeOK
  <1> QED BY <1>3, <1>4

LEMMA StepKeepsRowsTrue ==
    ASSUME TypeOK, Tracking, Reasons, Planned, OpenRows, Located, SpamIsKnown, RowsAreTrue, [Next]_vars
    PROVE  RowsAreTrue'
  <1>1. CASE \/ Start \/ List \/ ListError \/ ListingEnds \/ Learn \/ Send \/ Crash \/ UNCHANGED vars
             \/ \E m \in Mails : Missing(m) \/ LoadError(m) \/ Blocked(m) \/ Load(m)
        BY <1>1, QuietSteps DEF RowsAreTrue, Recorded
  <1>2. ASSUME NEW m \in Mails, Keep(m) \/ Sort(m) \/ SortToForward(m) PROVE RowsAreTrue'
    <2>1. \E s \in {"classified", "quarantine-reviewed"} : status' = [status EXCEPT ![m] = s]
          BY <1>2 DEF Keep, Sort, SortToForward
    <2>2. UNCHANGED <<place, dest, mover>>
          BY <1>2 DEF Keep, Sort, SortToForward, history
    <2> QED BY <2>1, <2>2 DEF RowsAreTrue, Recorded, TypeOK, Folders
  <1>3. CASE Forward \/ Record \/ Stamp
    <2>1. cur \in Mails /\ UNCHANGED <<place, dest, mover>>
          BY <1>3 DEF Forward, Record, Stamp, Tracking, history
    <2>2. pc = "stamp" => plan.status \in {"malware-detected", "antivirus-error"}
          BY PlansFit DEF Reasons, Planned
    <2>3. status' = status \/ \E s \in Statuses \ Folders : status' = [status EXCEPT ![cur] = s]
      <3>1. \E s \in {"forwarding", "forwarded-awaiting-move", "delivery-uncertain", "forward-failed",
                      "malware-detected", "antivirus-error"} : status' \in {status, [status EXCEPT ![cur] = s]}
            BY <1>3, <2>2 DEF Forward, Record, Stamp
      <3> QED BY <3>1 DEF Statuses, Final, Folders
    <2> QED BY <2>1, <2>3 DEF RowsAreTrue, Recorded, TypeOK
  <1>4. CASE Move
    <2>1. /\ cur \in Mails
          /\ \A n \in Mails \ {cur} : place'[n] = place[n] /\ mover'[n] = mover[n]
          /\ \/ place'[cur] = plan.dest
             \/ UNCHANGED place /\ (mover'[cur] = mover[cur] \/ how # "scan")
          /\ UNCHANGED <<status, dest>>
          BY <1>4, AgentMoves
    <2>2. how = "scan" => plan.dest \in ToBlock
          BY <1>4, PlansFit DEF Move
    <2>3. how # "scan" => status[cur] \notin Folders
          BY <1>4 DEF Move, OpenRows
    <2> PICK c \in Mails : c = cur
        BY <2>1
    <2>4. \A n \in Mails \ {c} : Recorded(n)'
          BY <2>1 DEF RowsAreTrue, Recorded
    <2>5. Recorded(c)'
          BY <2>1, <2>2, <2>3 DEF RowsAreTrue, Recorded, ToBlock
    <2> QED BY <2>4, <2>5 DEF RowsAreTrue
  <1>5. CASE Settle
    <2>1. /\ cur \in Mails /\ answer \in {"moved", "failed"}
          /\ \A n \in Mails \ {cur} : status'[n] = status[n] /\ dest'[n] = dest[n]
          /\ UNCHANGED <<place, mover>>
          BY <1>5, Settles
    <2>2. \/ UNCHANGED <<status, dest>>
          \/ /\ status'[cur] = IF answer = "moved" THEN plan.status ELSE "move-failed"
             /\ dest'[cur] = plan.dest
          BY <1>5, Settles
    <2>3. answer = "moved" => place[cur] = plan.dest \/ mover[cur] = "user"
          BY <1>5 DEF Settle, Located, TakenAway
    <2>4. plan.status \in Folders => plan.status = StatusFor(plan.dest)
          BY <1>5, PlansFit DEF Settle, Folders
    <2> PICK c \in Mails : c = cur
        BY <2>1
    <2>5. \A n \in Mails \ {c} : Recorded(n)'
          BY <2>1 DEF RowsAreTrue, Recorded
    <2>6. Recorded(c)'
          BY <2>1, <2>2, <2>3, <2>4 DEF RowsAreTrue, Recorded, Folders
    <2> QED BY <2>5, <2>6 DEF RowsAreTrue
  <1>6. ASSUME NEW m \in Mails, UserMove(m) PROVE RowsAreTrue'
    <2>1. PICK f \in Places : place' = [place EXCEPT ![m] = f]
          BY <1>6, UserMoves
    <2>2. mover' = [mover EXCEPT ![m] = "user"] /\ UNCHANGED <<status, dest>>
          BY <1>6, UserMoves DEF rows
    <2> QED BY <2>1, <2>2 DEF RowsAreTrue, Recorded, TypeOK
  <1> QED BY <1>1, <1>2, <1>3, <1>4, <1>5, <1>6 DEF Next, Agent

LEMMA StepKeepsSpamKnown ==
    ASSUME TypeOK, Tracking, Reasons, Planned, OpenRows, Located, SpamIsKnown, [Next]_vars
    PROVE  SpamIsKnown'
  <1> DEFINE Known(m) == place[m] = "spam" /\ mover[m] = "agent" => m \in strayed \/ status[m] = "spam"
  <1>0. Folder # "spam"
        BY FolderIs DEF TypeOK, Corrections
  <1>1. CASE \/ Start \/ List \/ ListError \/ ListingEnds \/ Learn \/ Send \/ Crash \/ UNCHANGED vars
             \/ \E m \in Mails : Missing(m) \/ LoadError(m) \/ Blocked(m) \/ Load(m)
        BY <1>1, QuietSteps DEF SpamIsKnown
  <1>2. ASSUME NEW m \in Mails, Keep(m) \/ Sort(m) \/ SortToForward(m) PROVE SpamIsKnown'
    <2>1. Routing(m)
          BY <1>2 DEF Keep, Sort, SortToForward
    <2>2. AtSource(m)
          BY <2>1, RoutingIsThere, Numbers DEF Located
    <2>3. \E s \in {"classified", "quarantine-reviewed"} : status' = [status EXCEPT ![m] = s]
          BY <1>2 DEF Keep, Sort, SortToForward
    <2>4. UNCHANGED <<place, strayed, mover>>
          BY <1>2 DEF Keep, Sort, SortToForward, history
    <2> QED BY <1>0, <2>2, <2>3, <2>4 DEF SpamIsKnown, AtSource, TakenAway, TypeOK
  <1>3. CASE Forward \/ Record \/ Stamp
    <2>1. cur \in Mails /\ UNCHANGED <<place, strayed, mover>>
          BY <1>3 DEF Forward, Record, Stamp, Tracking, history
    <2>2. place[cur] # "spam" \/ mover[cur] = "user" \/ cur \in strayed
      <3>1. CASE Forward \/ Record
            BY <1>0, <2>1, <3>1, Numbers DEF Forward, Record, Located, AtSource, TakenAway
      <3>2. CASE Stamp
        <4>1. plan.dest # "spam" /\ answer \in {"moved", "failed"}
              BY <3>2, PlansFit DEF Stamp, Reasons, Planned, ToBlock
        <4> QED BY <1>0, <3>2, <4>1 DEF Stamp, Located, TakenAway
      <3> QED BY <1>3, <3>1, <3>2
    <2>3. \E s \in Statuses : status' \in {status, [status EXCEPT ![cur] = s]}
          BY <1>3 DEF Forward, Record, Stamp, Statuses, Final, TypeOK, Plans
    <2> QED BY <2>1, <2>2, <2>3 DEF SpamIsKnown, TypeOK
  <1>4. CASE Move
    <2>1. /\ cur \in Mails
          /\ \A n \in Mails \ {cur} : place'[n] = place[n] /\ mover'[n] = mover[n]
          /\ \/ cur \in strayed'
             \/ UNCHANGED place /\ (mover'[cur] = mover[cur] \/ place[cur] = Folder)
          /\ UNCHANGED <<status, dest>> /\ strayed \subseteq strayed'
          BY <1>4, AgentMoves
    <2> QED BY <1>0, <2>1 DEF SpamIsKnown
  <1>5. CASE Settle
    <2>1. /\ cur \in Mails /\ answer \in {"moved", "failed"}
          /\ \A n \in Mails \ {cur} : status'[n] = status[n]
          /\ UNCHANGED <<place, mover>>
          BY <1>5, Settles
    <2>2. \/ UNCHANGED <<status, strayed>>
          \/ /\ status'[cur] = IF answer = "moved" THEN plan.status ELSE "move-failed"
             /\ strayed' = IF answer = "moved" THEN strayed \ {cur} ELSE strayed
          BY <1>5, Settles
    <2>3. /\ answer = "moved" => place[cur] = plan.dest \/ mover[cur] = "user"
          /\ answer = "failed" => place[cur] = Folder \/ mover[cur] = "user" \/ cur \in strayed
          BY <1>5 DEF Settle, Located, TakenAway
    <2>4. plan.dest = "spam" => plan.status = "spam"
          BY <1>5, PlansFit DEF Settle, ToBlock
    <2> PICK c \in Mails : c = cur
        BY <2>1
    <2>5. \A n \in Mails \ {c} : Known(n)'
          BY <2>1, <2>2 DEF SpamIsKnown
    <2>6. Known(c)'
          BY <1>0, <2>1, <2>2, <2>3, <2>4 DEF SpamIsKnown
    <2> QED BY <2>5, <2>6 DEF SpamIsKnown
  <1>6. ASSUME NEW m \in Mails, UserMove(m) PROVE SpamIsKnown'
    <2>1. PICK f \in Places : place' = [place EXCEPT ![m] = f]
          BY <1>6, UserMoves
    <2>2. mover' = [mover EXCEPT ![m] = "user"] /\ UNCHANGED <<status, strayed>>
          BY <1>6, UserMoves DEF rows
    <2> QED BY <2>1, <2>2 DEF SpamIsKnown, TypeOK
  <1> QED BY <1>1, <1>2, <1>3, <1>4, <1>5, <1>6 DEF Next, Agent

\* A mail the user took back keeps a row that has it learned as feedback.
LEMMA StepKeepsRestores ==
    ASSUME TypeOK, Tracking, Reasons, Planned, OpenRows, Located, SpamIsKnown, RestoresAreKnown, [Next]_vars
    PROVE  RestoresAreKnown'
  <1> USE Numbers
  <1>1. CASE Start \/ List \/ ListError \/ ListingEnds \/ Crash
    <2>1. /\ UNCHANGED <<place, status, dest, restored, strayed, blotted>>
          /\ batch' \subseteq batch /\ (pc' = "route" => cur' = 0)
          /\ pc' \in {"idle", "list", "load", "route"}
          BY <1>1 DEF Start, List, ListError, ListingEnds, Crash, NextStage, Tracking, rows, history
    <2> QED BY <2>1 DEF RestoresAreKnown, RestoreShows, Restored
  <1>2. ASSUME NEW m \in Mails, Missing(m) \/ LoadError(m) \/ Blocked(m) PROVE RestoresAreKnown'
    <2>1. /\ UNCHANGED <<place, status, dest, restored, strayed, blotted, batch>>
          /\ pc' = "load" \/ (pc' = "move" /\ how' = "scan")
          BY <1>2 DEF Missing, LoadError, Blocked, Loading, rows, history
    <2> QED BY <2>1 DEF RestoresAreKnown, RestoreShows, Restored
  <1>3. ASSUME NEW m \in Mails, Load(m) PROVE RestoresAreKnown'
    <2>1. pc = "load" /\ cur = 0 /\ UNCHANGED <<place, status, dest, restored, strayed, blotted>>
          BY <1>3, LoadingIsListed DEF Load, rows, history
    <2>2. CASE Step(m) = "collect"
      <3>1. status[m] \notin Final /\ status[m] # "move-failed"
            BY <2>2 DEF Step, MustMove, OpenRows
      <3>2. Restored(m)
            BY <3>1 DEF RestoresAreKnown, RestoreShows, Final, Folders
      <3>3. batch' = batch \cup {m} /\ cur' = 0 /\ pc' \in {"load", "route"}
            BY <1>3, <2>1, <2>2 DEF Load
      <3> QED BY <2>1, <3>2, <3>3 DEF RestoresAreKnown, RestoreShows, Restored
    <2>3. CASE Step(m) \in {"skip", "learn"}
      <3>1. batch' = batch /\ pc' \in {"load", "learn"}
            BY <1>3, <2>1, <2>3 DEF Load
      <3> QED BY <2>1, <3>1 DEF RestoresAreKnown, RestoreShows, Restored
    <2>4. CASE Step(m) \in {"retry", "error"}
      <3>1. /\ batch' = batch /\ pc' = "move" /\ cur' = m
            /\ plan' = PlanFor(IF Step(m) = "retry" THEN dest[m] ELSE "error")
            BY <1>3, <2>4 DEF Load
      <3>2. Step(m) = "retry" => status[m] = "move-failed"
            BY DEF Step, MustMove
      <3>3. Restored(m) \/ plan'.dest \in ToBlock
            BY <2>4, <3>1, <3>2 DEF RestoresAreKnown, RestoreShows, PlanFor, ToBlock
      <3> QED BY <2>1, <3>1, <3>3 DEF RestoresAreKnown, RestoreShows, Restored
    <2> QED BY <2>2, <2>3, <2>4 DEF Step
  <1>4. CASE Learn
        BY <1>4 DEF Learn, RestoresAreKnown, RestoreShows, Restored, work, item, rows
  <1>5. ASSUME NEW m \in Mails, Keep(m) \/ Sort(m) \/ SortToForward(m) PROVE RestoresAreKnown'
    <2>1. Routing(m)
          BY <1>5 DEF Keep, Sort, SortToForward
    <2>2. Restored(m) /\ batch' \subseteq batch
          BY <2>1, RoutingIsThere DEF RestoresAreKnown
    <2>3. UNCHANGED <<place, dest, restored, strayed, blotted>>
          BY <1>5 DEF Keep, Sort, SortToForward, history
    <2>4. \E s \in Statuses : status' = [status EXCEPT ![m] = s]
          BY <1>5 DEF Keep, Sort, SortToForward, Statuses, Final
    <2>5. pc' = "route" => cur' = 0
          BY <1>5, RoutingIsThere DEF Keep, InQuarantine, Sort, SortToForward, item
    <2>6. pc' \in {"route", "load"} \/ cur' = m
          BY <1>5 DEF Keep, Proceed, Sort, SortToForward
    <2> QED BY <2>2, <2>3, <2>4, <2>5, <2>6 DEF RestoresAreKnown, RestoreShows, Restored, TypeOK
  <1>6. CASE Forward \/ Record
    <2>1. /\ cur \in Mails /\ Restored(cur) /\ pc' \in {"move", "send"} /\ UNCHANGED <<batch, cur>>
          /\ UNCHANGED <<place, dest, restored, strayed, blotted>>
          BY <1>6 DEF Forward, Record, Tracking, RestoresAreKnown, history, work, item
    <2>2. \E s \in Statuses : status' = [status EXCEPT ![cur] = s]
      <3>1. status = [status EXCEPT ![cur] = status[cur]] /\ status[cur] \in Statuses
            BY <2>1 DEF TypeOK
      <3> QED BY <1>6, <3>1 DEF Forward, Record, Statuses, Final
    <2> QED BY <2>1, <2>2 DEF RestoresAreKnown, RestoreShows, Restored, TypeOK
  <1>7. CASE Send
        BY <1>7 DEF Send, RestoresAreKnown, RestoreShows, Restored, work, rows
  <1>8. CASE Move
    <2>1. /\ cur \in Mails /\ UNCHANGED <<status, dest, restored, blotted, batch, cur, how, plan>>
          /\ \A n \in Mails \ {cur} : place'[n] = place[n]
          /\ place'[cur] = plan.dest \/ UNCHANGED place
          /\ strayed \subseteq strayed' /\ pc' \in {"stamp", "settle"}
          BY <1>8, AgentMoves
    <2>2. plan.dest # "INBOX" /\ pc = "move"
          BY <1>8, PlansFit DEF Move
    <2>3. \A n \in Mails : Restored(n) => Restored(n)'
          BY <2>1, <2>2 DEF Restored
    <2> QED BY <2>1, <2>2, <2>3 DEF RestoresAreKnown, RestoreShows, TypeOK
  <1>9. CASE Stamp
    <2>1. /\ cur \in Mails /\ UNCHANGED <<place, dest, restored, strayed, batch, cur, how>>
          /\ blotted' = blotted \cup {cur} /\ status' = [status EXCEPT ![cur] = plan.status]
          /\ pc' = "settle" /\ how = "scan"
          BY <1>9 DEF Stamp, Tracking, Reasons, work, item
    <2> QED BY <2>1 DEF RestoresAreKnown, RestoreShows, Restored, TypeOK
  <1>10. CASE Settle
    <2> PICK c \in Mails : c = cur
        BY <1>10, Settles
    <2>1. /\ answer \in {"moved", "failed"} /\ UNCHANGED <<place, restored, batch>> /\ pc' \in {"route", "load"}
          /\ \A n \in Mails \ {c} : status'[n] = status[n] /\ dest'[n] = dest[n]
          /\ cur' = 0
          BY <1>10, Settles
    <2>2. \/ UNCHANGED <<status, dest, strayed, blotted>>
          \/ /\ status'[c] = IF answer = "moved" THEN plan.status ELSE "move-failed"
             /\ dest'[c] = plan.dest
             /\ strayed' = IF answer = "moved" THEN strayed \ {c} ELSE strayed
             /\ blotted' = IF how = "scan" THEN blotted \ {c} ELSE blotted
          BY <1>10, Settles
    <2>3. /\ plan.dest # "INBOX" /\ (how = "scan" => plan.dest \in ToBlock)
          /\ answer = "moved" => place[c] = plan.dest \/ c \notin restored
          /\ how # "scan" => Restored(c) \/ plan.dest \in ToBlock
          BY <1>10, PlansFit DEF Settle, Located, TakenAway, RestoresAreKnown
    <2>4. RestoreShows(c)'
      <3>1. CASE UNCHANGED <<status, dest, strayed, blotted>>
            BY <2>1, <3>1 DEF RestoresAreKnown, RestoreShows, Restored
      <3>2. CASE answer = "moved"
            BY <2>1, <2>3, <3>2 DEF RestoreShows, Restored
      <3>3. CASE answer = "failed" /\ ~UNCHANGED <<status, dest, strayed, blotted>>
            BY <2>1, <2>2, <2>3, <3>3 DEF RestoreShows, Restored
      <3> QED BY <2>1, <3>1, <3>2, <3>3
    <2>5. \A n \in Mails \ {c} : (RestoreShows(n) => RestoreShows(n)') /\ (Restored(n) => Restored(n)')
          BY <2>1, <2>2 DEF RestoreShows, Restored
    <2>6. \A n \in batch : n \in Mails \ {c}
          BY DEF Tracking, TypeOK
    <2> QED BY <2>1, <2>4, <2>5, <2>6 DEF RestoresAreKnown
  <1>11. ASSUME NEW m \in Mails, UserMove(m) PROVE RestoresAreKnown'
    <2>1. PICK f \in Places : place' = [place EXCEPT ![m] = f]
          BY <1>11, UserMoves
    <2>2. /\ restored' \in {restored \cup {m}, restored \ {m}} /\ blotted' = blotted \ {m}
          /\ m \in batch \/ m = cur => m \notin restored'
          /\ m \in restored' => m \in strayed \/ status[m] \in {"spam", "quarantine-reviewed"}
          /\ UNCHANGED <<status, dest, pc, batch, cur, how, plan, strayed>>
          BY <1>11, UserMoves DEF rows, work, item
    <2>3. \A n \in Mails \ {m} : (RestoreShows(n) => RestoreShows(n)') /\ (Restored(n) => Restored(n)')
          BY <2>1, <2>2 DEF RestoreShows, Restored, TypeOK
    <2>4. RestoreShows(m)' /\ (m \in batch \/ m = cur => Restored(m)')
          BY <2>2 DEF RestoreShows, Restored
    <2>5. \A n \in Mails : (RestoreShows(n) => RestoreShows(n)')
                          /\ (n \in batch \/ n = cur => (Restored(n) => Restored(n)'))
          BY <2>3, <2>4
    <2>6. \A n \in batch : Restored(n)'
          BY <2>5 DEF RestoresAreKnown, TypeOK
    <2>7. cur # 0 => cur \in Mails /\ (Restored(cur) => Restored(cur)')
      <3>1. cur # 0 => cur \in Mails
            BY DEF TypeOK
      <3>2. ASSUME NEW c \in Mails, c = cur, Restored(c) PROVE Restored(cur)'
        <4>1. Restored(c)'
              BY <2>5, <3>2
        <4> QED BY <2>2, <3>2, <4>1
      <3> QED BY <3>1, <3>2
    <2>8. \A n \in Mails : RestoreShows(n)'
          BY <2>5 DEF RestoresAreKnown
    <2>9. pc \in {"forward", "send", "sent", "move", "settle"} => cur # 0
          BY DEF Tracking
    <2> QED BY <2>2, <2>6, <2>7, <2>8, <2>9 DEF RestoresAreKnown
  <1>12. CASE UNCHANGED vars
        BY <1>12 DEF vars, RestoresAreKnown, RestoreShows, Restored, work, item, rows, history
  <1> QED BY <1>1, <1>2, <1>3, <1>4, <1>5, <1>6, <1>7, <1>8, <1>9, <1>10, <1>11, <1>12 DEF Next, Agent

\* A delivery shows in the row of the mail, or keeps its mail from being taken up.
LEMMA StepKeepsDeliveries ==
    ASSUME TypeOK, Tracking, Reasons, Planned, OpenRows, Located, SpamIsKnown, DeliveriesAreKnown, [Next]_vars
    PROVE  DeliveriesAreKnown'
  <1> USE Numbers
  <1>1. CASE Start \/ List \/ ListError \/ ListingEnds \/ Crash
    <2>1. /\ UNCHANGED <<place, status, forwarded, deliveries, touched, slipped, blotted>>
          /\ batch' \subseteq batch /\ (pc' = "route" => cur' = 0)
          /\ pc' \in {"idle", "list", "load", "route"}
          BY <1>1 DEF Start, List, ListError, ListingEnds, Crash, NextStage, Tracking, rows, history
    <2> QED BY <2>1 DEF DeliveriesAreKnown, DeliveryShows, Delivered
  <1>2. ASSUME NEW m \in Mails, Missing(m) \/ LoadError(m) \/ Blocked(m) PROVE DeliveriesAreKnown'
    <2>1. /\ UNCHANGED <<place, status, forwarded, deliveries, touched, slipped, blotted, batch>>
          /\ pc' \in {"load", "move"}
          BY <1>2 DEF Missing, LoadError, Blocked, Loading, rows, history
    <2> QED BY <2>1 DEF DeliveriesAreKnown, DeliveryShows, Delivered
  <1>3. ASSUME NEW m \in Mails, Load(m) PROVE DeliveriesAreKnown'
    <2>1. /\ pc = "load" /\ cur = 0 /\ place[m] = Folder
          /\ UNCHANGED <<place, status, forwarded, deliveries, touched, slipped, blotted>>
          BY <1>3, LoadingIsListed DEF Load, rows, history
    <2>2. CASE Step(m) = "collect"
      <3>1. status[m] \notin Final /\ status[m] # "move-failed" /\ (Folder = "quarantine" \/ ~Interrupted(m))
            BY <2>2 DEF Step, MustMove, OpenRows
      <3>2. status[m] \in Barred => status[m] = "forwarding"
            BY <3>1 DEF Barred, Final, Folders
      <3>3. Delivered(m)
            BY <2>1, <3>1, <3>2 DEF DeliveriesAreKnown, DeliveryShows, Delivered, Interrupted
      <3>4. batch' = batch \cup {m} /\ cur' = 0 /\ pc' \in {"load", "route"}
            BY <1>3, <2>1, <2>2 DEF Load
      <3> QED BY <2>1, <3>3, <3>4 DEF DeliveriesAreKnown, DeliveryShows, Delivered
    <2>3. CASE Step(m) = "learn"
      <3>1. Folder = "INBOX" => status[m] \notin Barred
            BY <2>3 DEF Step, Barred, Corrections
      <3>2. Delivered(m)
            BY <2>1, <3>1 DEF DeliveriesAreKnown, DeliveryShows, Delivered
      <3>3. batch' = batch /\ cur' = m /\ pc' = "learn"
            BY <1>3, <2>1, <2>3 DEF Load
      <3> QED BY <2>1, <3>2, <3>3 DEF DeliveriesAreKnown, DeliveryShows, Delivered
    <2>4. CASE Step(m) \in {"skip", "retry", "error"}
      <3>1. batch' = batch /\ pc' \in {"load", "move"}
            BY <1>3, <2>1, <2>4 DEF Load
      <3> QED BY <2>1, <3>1 DEF DeliveriesAreKnown, DeliveryShows, Delivered
    <2> QED BY <2>2, <2>3, <2>4 DEF Step
  <1>4. CASE Learn
        BY <1>4 DEF Learn, DeliveriesAreKnown, DeliveryShows, Delivered, work, item, rows
  <1>5. ASSUME NEW m \in Mails, Keep(m) \/ Sort(m) \/ SortToForward(m) PROVE DeliveriesAreKnown'
    <2>1. Routing(m)
          BY <1>5 DEF Keep, Sort, SortToForward
    <2>2. Delivered(m) /\ batch' \subseteq batch
          BY <2>1, RoutingIsThere DEF DeliveriesAreKnown
    <2>3. UNCHANGED <<place, forwarded, deliveries, touched, slipped, blotted>>
          BY <1>5 DEF Keep, Sort, SortToForward, history
    <2>4. \E s \in Statuses : status' = [status EXCEPT ![m] = s]
          BY <1>5 DEF Keep, Sort, SortToForward, Statuses, Final
    <2>5. pc' = "route" => cur' = 0
          BY <1>5, RoutingIsThere DEF Keep, InQuarantine, Sort, SortToForward, item
    <2>6. pc' \in {"route", "load"} \/ (pc' \in {"move", "forward"} /\ cur' = m)
          BY <1>5 DEF Keep, Proceed, Sort, SortToForward
    <2> QED BY <2>2, <2>3, <2>4, <2>5, <2>6 DEF DeliveriesAreKnown, DeliveryShows, Delivered, TypeOK
  <1>6. CASE Forward
    <2>1. /\ cur \in Mails /\ Delivered(cur) /\ pc' \in {"move", "send"} /\ UNCHANGED <<batch, cur>>
          /\ UNCHANGED <<place, forwarded, deliveries, touched, slipped, blotted>>
          /\ status' \in {status, [status EXCEPT ![cur] = "forwarding"]}
          BY <1>6 DEF Forward, Tracking, DeliveriesAreKnown, history, work, item
    <2> QED BY <2>1 DEF DeliveriesAreKnown, DeliveryShows, Delivered, TypeOK
  <1>7. CASE Send
    <2> PICK c \in Mails : c = cur
        BY <1>7 DEF Send, Tracking
    <2>1. /\ status[c] \in Barred /\ c \notin batch /\ Delivered(c)
          BY <1>7 DEF Send, OpenRows, Barred, Tracking, DeliveriesAreKnown
    <2>2. /\ UNCHANGED <<place, status, forwarded, blotted, batch, cur>> /\ pc' = "sent"
          BY <1>7 DEF Send, rows, work
    <2>3. \/ Deliver /\ answer' = "refused" /\ slipped' = slipped \cup {c}
          \/ Deliver /\ answer' # "refused" /\ UNCHANGED slipped
          \/ UNCHANGED <<deliveries, touched, slipped>>
          BY <1>7 DEF Send
    <2>4. answer' = "refused" => Delivered(c)'
          BY <2>1, <2>2, <2>3 DEF Delivered
    <2>5. \A n \in Mails \ {c} : /\ deliveries'[n] = deliveries[n] /\ (n \in touched' <=> n \in touched)
                                 /\ n \in slipped' <=> n \in slipped
          BY <2>3 DEF Deliver, TypeOK
    <2>6. \A n \in Mails \ {c} : (DeliveryShows(n) => DeliveryShows(n)') /\ (Delivered(n) => Delivered(n)')
          BY <2>2, <2>5 DEF DeliveryShows, Delivered
    <2>7. DeliveryShows(c)'
          BY <2>1, <2>2 DEF DeliveryShows
    <2>8. \A n \in batch : n \in Mails \ {c}
          BY <2>1 DEF TypeOK
    <2>9. answer' = "refused" => Delivered(cur)'
          BY <2>2, <2>4
    <2> QED BY <2>1, <2>2, <2>6, <2>7, <2>8, <2>9 DEF DeliveriesAreKnown
  <1>8. CASE Record
    <2> PICK c \in Mails : c = cur
        BY <1>8 DEF Record, Tracking
    <2>1. /\ UNCHANGED <<place, deliveries, touched, slipped, blotted, batch, cur>> /\ pc' = "move"
          BY <1>8 DEF Record, work, history
    <2>2. \/ forwarded' = forwarded \cup {c} /\ \E s \in Statuses : status' = [status EXCEPT ![c] = s]
          \/ forwarded' = forwarded /\ \E s \in Barred : status' = [status EXCEPT ![c] = s]
          \/ forwarded' = forwarded /\ Delivered(c) /\ \E s \in Statuses : status' = [status EXCEPT ![c] = s]
          BY <1>8 DEF Record, Barred, Statuses, Final, DeliveriesAreKnown
    <2>3. DeliveryShows(c)'
          BY <2>1, <2>2 DEF DeliveryShows, Delivered, TypeOK
    <2>4. \A n \in Mails \ {c} : (DeliveryShows(n) => DeliveryShows(n)') /\ (Delivered(n) => Delivered(n)')
          BY <2>1, <2>2 DEF DeliveryShows, Delivered, TypeOK
    <2>5. \A n \in batch : n \in Mails \ {c}
          BY DEF TypeOK, Tracking
    <2> QED BY <2>1, <2>3, <2>4, <2>5 DEF DeliveriesAreKnown
  <1>9. CASE Move
    <2>1. /\ cur \in Mails /\ UNCHANGED <<status, forwarded, deliveries, touched, slipped, blotted, batch, cur>>
          /\ \A n \in Mails \ {cur} : place'[n] = place[n]
          /\ place'[cur] = plan.dest \/ UNCHANGED place
          /\ pc' \in {"stamp", "settle"}
          BY <1>9, AgentMoves
    <2>2. plan.dest # "INBOX"
          BY <1>9, PlansFit DEF Move
    <2>3. \A n \in Mails : Delivered(n) => Delivered(n)'
          BY <2>1, <2>2 DEF Delivered
    <2> QED BY <2>1, <2>3 DEF DeliveriesAreKnown, DeliveryShows, TypeOK
  <1>10. CASE Stamp
    <2>1. /\ cur \in Mails /\ UNCHANGED <<place, forwarded, deliveries, touched, slipped, batch>>
          /\ blotted' = blotted \cup {cur} /\ status' = [status EXCEPT ![cur] = plan.status]
          /\ pc' = "settle"
          BY <1>10 DEF Stamp, Tracking, work, item
    <2> QED BY <2>1 DEF DeliveriesAreKnown, DeliveryShows, Delivered, TypeOK
  <1>11. CASE Settle
    <2> PICK c \in Mails : c = cur
        BY <1>11, Settles
    <2>1. /\ answer \in {"moved", "failed"} /\ cur' = 0 /\ pc' \in {"route", "load"}
          /\ UNCHANGED <<place, forwarded, deliveries, touched, slipped, batch>>
          /\ \A n \in Mails \ {c} : status'[n] = status[n]
          BY <1>11, Settles
    <2>2. \/ UNCHANGED <<status, blotted>>
          \/ /\ status'[c] = IF answer = "moved" THEN plan.status ELSE "move-failed"
             /\ blotted' = IF how = "scan" THEN blotted \ {c} ELSE blotted
          BY <1>11, Settles
    <2>3. plan.dest # "INBOX" /\ (answer = "moved" => place[c] = plan.dest \/ c \in touched)
          BY <1>11, PlansFit DEF Settle, Located
    <2>4. DeliveryShows(c)'
      <3>1. CASE UNCHANGED <<status, blotted>>
            BY <2>1, <3>1 DEF DeliveriesAreKnown, DeliveryShows, Delivered
      <3>2. CASE answer = "moved"
            BY <2>1, <2>3, <3>2 DEF DeliveryShows, Delivered
      <3>3. CASE answer = "failed" /\ ~UNCHANGED <<status, blotted>>
            BY <2>2, <3>3 DEF DeliveryShows, Barred
      <3> QED BY <2>1, <3>1, <3>2, <3>3
    <2>5. \A n \in Mails \ {c} : (DeliveryShows(n) => DeliveryShows(n)') /\ (Delivered(n) => Delivered(n)')
          BY <2>1, <2>2 DEF DeliveryShows, Delivered
    <2>6. \A n \in batch : n \in Mails \ {c}
          BY DEF Tracking, TypeOK
    <2> QED BY <2>1, <2>4, <2>5, <2>6 DEF DeliveriesAreKnown
  <1>12. ASSUME NEW m \in Mails, UserMove(m) PROVE DeliveriesAreKnown'
    <2>1. PICK f \in Places : place' = [place EXCEPT ![m] = f]
          BY <1>12, UserMoves
    <2>2. /\ touched' = touched \cup {m} /\ blotted' = blotted \ {m}
          /\ UNCHANGED <<status, forwarded, pc, batch, cur, answer, deliveries, slipped>>
          BY <1>12, UserMoves DEF rows, work, item
    <2>3. \A n \in Mails : (Delivered(n) => Delivered(n)') /\ (DeliveryShows(n) => DeliveryShows(n)')
          BY <2>1, <2>2 DEF DeliveryShows, Delivered, TypeOK
    <2>4. cur # 0 => cur \in Mails
          BY DEF TypeOK
    <2>5. pc = "sent" => cur # 0
          BY DEF Tracking
    <2>6. cur # 0 /\ Delivered(cur) => Delivered(cur)'
          BY <2>2, <2>3, <2>4 DEF Delivered
    <2> QED BY <2>2, <2>3, <2>4, <2>5, <2>6 DEF DeliveriesAreKnown, TypeOK
  <1>13. CASE UNCHANGED vars
        BY <1>13 DEF vars, DeliveriesAreKnown, DeliveryShows, Delivered, work, item, rows, history
  <1> QED BY <1>1, <1>2, <1>3, <1>4, <1>5, <1>6, <1>7, <1>8, <1>9, <1>10, <1>11, <1>12, <1>13 DEF Next, Agent

-----------------------------------------------------------------------------
(* The theorems *)

IInv ==
    /\ TypeOK /\ Counts /\ Tracking /\ Reasons /\ Planned /\ OpenRows /\ Located
    /\ RowsAreTrue /\ SpamIsKnown /\ RestoresAreKnown /\ DeliveriesAreKnown

LEMMA InitInv == Init => IInv
  <1> SUFFICES ASSUME Init PROVE IInv
      OBVIOUS
  <1>1. TypeOK
        BY InitTypes
  <1>2. Counts
    <2>1. todo \cup batch = {} /\ taken = 0 /\ cur = 0
          BY DEF Init
    <2> QED BY <2>1, FS_EmptySet, Numbers DEF Counts
  <1>3. Tracking /\ Reasons /\ Planned
        BY DEF Init, Tracking, Reasons, Planned
  <1>4. OpenRows /\ Located /\ RowsAreTrue /\ SpamIsKnown
        BY DEF Init, OpenRows, Located, RowsAreTrue, Recorded, SpamIsKnown
  <1>5. RestoresAreKnown /\ DeliveriesAreKnown
        BY DEF Init, RestoresAreKnown, RestoreShows, Restored, DeliveriesAreKnown, DeliveryShows, Delivered
  <1> QED BY <1>1, <1>2, <1>3, <1>4, <1>5 DEF IInv

LEMMA StepInv == IInv /\ [Next]_vars => IInv'
  <1> SUFFICES ASSUME IInv, [Next]_vars PROVE IInv'
      OBVIOUS
  <1>1. Counts' /\ taken' \in 0..Limit
        BY StepKeepsCounts DEF IInv
  <1>2. TypeOK'
        BY <1>1, StepKeepsTypes DEF IInv
  <1>3. Tracking' /\ Reasons' /\ Planned'
        BY StepKeepsTracking, StepKeepsReasons, StepKeepsPlanned DEF IInv
  <1>4. OpenRows' /\ Located' /\ RowsAreTrue' /\ SpamIsKnown'
        BY StepKeepsOpenRows, StepKeepsLocated, StepKeepsRowsTrue, StepKeepsSpamKnown DEF IInv
  <1>5. RestoresAreKnown' /\ DeliveriesAreKnown'
        BY StepKeepsRestores, StepKeepsDeliveries DEF IInv
  <1> QED BY <1>1, <1>2, <1>3, <1>4, <1>5 DEF IInv

\* The invariant holds of every state the agent and the user can reach.
THEOREM Inductive == Spec => []IInv
  <1> QED BY InitInv, StepInv, PTL DEF Spec

\* Types: among them, that a batch never processes more mails than its limit
\* (RunSummary.processed against max_messages_per_run).
THEOREM TypeCorrect == Spec => []TypeOK
  <1>1. IInv => TypeOK
        BY DEF IInv
  <1> QED BY <1>1, Inductive, PTL

\* What was processed, is in work and may still come of a listing never exceeds the
\* limit of a batch (process_unread's remaining, list_messages' page size).
THEOREM BatchesFit == Spec => []Counts
  <1>1. IInv => Counts
        BY DEF IInv
  <1> QED BY <1>1, Inductive, PTL

\* What the row of a mail says is where the mail is (_move commits it last).
THEOREM RowsSayWhere == Spec => []RecordedIsThere
  <1>1. IInv => RecordedIsThere
        BY DEF IInv, RowsAreTrue, Recorded, RecordedIsThere
  <1> QED BY <1>1, Inductive, PTL

\* From the INBOX no mail is delivered twice by itself (_forward_once, the
\* "forwarding" check of _process_folder and FINAL_STATUSES together).
THEOREM NoMailIsResent == Spec => NoUnaskedResend
  <1> DEFINE Asked(m) == deliveries'[m] > deliveries[m] /\ deliveries[m] > 0 /\ Folder = "INBOX"
                           => m \in touched \cup slipped \cup blotted
  <1>1. ASSUME IInv, Next, NEW m \in Mails PROVE Asked(m)
    <2> SUFFICES ASSUME deliveries'[m] > deliveries[m], deliveries[m] > 0, Folder = "INBOX"
                 PROVE  m \in touched \cup slipped \cup blotted
        OBVIOUS
    <2>1. TypeOK /\ Tracking
          BY <1>1 DEF IInv
    <2>2. Send \/ UNCHANGED deliveries
      <3>1. CASE \/ Start \/ List \/ ListingEnds \/ Learn \/ Forward \/ Record
                 \/ Move \/ Stamp \/ Settle \/ ListError \/ Crash
            BY <3>1 DEF Start, List, ListingEnds, Learn, Forward, Record, Move, Stamp, Settle, Settled,
                        ListError, Crash, history
      <3>2. ASSUME NEW n \in Mails,
                   \/ Missing(n) \/ Blocked(n) \/ Load(n) \/ Keep(n) \/ Sort(n)
                   \/ SortToForward(n) \/ LoadError(n) \/ UserMove(n)
            PROVE  UNCHANGED deliveries
            BY <3>2 DEF Missing, Blocked, Load, Keep, Sort, SortToForward, LoadError, UserMove, history
      <3> QED BY <1>1, <3>1, <3>2 DEF Next, Agent
    <2>3. deliveries[m] \in Nat /\ deliveries' # deliveries
          BY <2>1 DEF TypeOK
    <2>4. Send /\ Deliver
          BY <2>2, <2>3 DEF Send
    <2>5. m = cur
          BY <2>1, <2>3, <2>4 DEF Deliver, TypeOK
    <2>6. pc = "send" /\ cur # 0 /\ cur \notin forwarded
          BY <1>1, <2>4, <2>5, Numbers DEF Send, IInv, OpenRows
    <2>7. Delivered(cur) /\ (place[cur] = "INBOX" \/ cur \in touched)
          BY <1>1, <2>6 DEF IInv, DeliveriesAreKnown, Located, AtSource
    <2> QED BY <2>5, <2>6, <2>7 DEF Delivered
  <1>2. IInv /\ [Next]_vars => [\A m \in Mails : Asked(m)]_vars
        BY <1>1
  <1> QED BY <1>2, Inductive, PTL DEF Spec, NoUnaskedResend

\* The agent moves one mail at a time, out of the folder it works on.
LEMMA OnlyMoveMoves ==
    ASSUME IInv, Next, NEW m \in Mails, place'[m] # place[m], mover'[m] = "agent"
    PROVE  Move /\ m = cur /\ place[m] = Folder /\ place'[m] = plan.dest
  <1>1. TypeOK /\ Tracking /\ Planned
        BY DEF IInv
  <1>2. CASE Move
    <2>1. m = cur /\ place'[m] = plan.dest
          BY <1>1, <1>2, AgentMoves
    <2>2. place[cur] = Folder
          BY <1>2, <2>1 DEF Move, Stays
    <2> QED BY <1>2, <2>1, <2>2
  <1>3. ASSUME NEW n \in Mails, UserMove(n) PROVE FALSE
        BY <1>1, <1>3 DEF UserMove, TypeOK
  <1>4. CASE \/ Start \/ List \/ ListingEnds \/ Learn \/ Forward \/ Send \/ Record
             \/ Stamp \/ Settle \/ ListError \/ Crash
        BY <1>4 DEF Start, List, ListingEnds, Learn, Forward, Send, Record, Stamp, Settle, Settled,
                    ListError, Crash, history
  <1>5. ASSUME NEW n \in Mails,
               \/ Missing(n) \/ Blocked(n) \/ Load(n) \/ Keep(n) \/ Sort(n)
               \/ SortToForward(n) \/ LoadError(n)
        PROVE  FALSE
        BY <1>5 DEF Missing, Blocked, Load, Keep, Sort, SortToForward, LoadError, history
  <1> QED BY <1>2, <1>3, <1>4, <1>5 DEF Next, Agent

\* A mail that the user took back from spam is not put there again unheard
\* (_process_folder: "Restoring a message ... is explicit not-spam feedback").
THEOREM RestoresAreHeard == Spec => RestoreIsHeard
  <1> DEFINE Heard(m) == place[m] = "INBOX" /\ place'[m] = "spam" /\ mover'[m] = "agent"
                           => m \notin restored \/ m \in strayed \cup blotted
  <1>1. ASSUME IInv, Next, NEW m \in Mails PROVE Heard(m)
    <2> SUFFICES ASSUME place[m] = "INBOX", place'[m] = "spam", mover'[m] = "agent"
                 PROVE  m \notin restored \/ m \in strayed \cup blotted
        OBVIOUS
    <2>1. Move /\ m = cur /\ plan.dest = "spam"
          BY <1>1, OnlyMoveMoves
    <2>2. plan.dest \notin ToBlock /\ how # "scan"
          BY <1>1, <2>1, PlansFit DEF IInv, Move, ToBlock
    <2>3. Restored(cur)
          BY <1>1, <2>1, <2>2 DEF IInv, Move, RestoresAreKnown
    <2> QED BY <2>1, <2>3 DEF Restored
  <1>2. IInv /\ [Next]_vars => [\A m \in Mails : Heard(m)]_vars
        BY <1>1
  <1> QED BY <1>2, Inductive, PTL DEF Spec, RestoreIsHeard

\* A correction overrides what the row of the mail had planned (_process_feedback:
\* "It must override an older failed move").
THEOREM CorrectionsAreKept == Spec => CorrectionsWin
  <1> DEFINE Kept(m) ==
        place[m] \in Corrections /\ place'[m] # place[m] /\ mover'[m] = "agent"
           => place'[m] \in {"error", "malware"} \cup
                 CASE place[m] = "fix-spam" -> {"spam"}
                   [] place[m] = "fix-routine" -> {"routine", "review"}
                   [] place[m] = "fix-relevant" -> {"relevant", "forwarded", "appointment-review", "routine"}
                   [] OTHER -> Folders \ {"spam"}
  <1>1. ASSUME IInv, Next, NEW m \in Mails PROVE Kept(m)
    <2> SUFFICES ASSUME place[m] \in Corrections, place'[m] # place[m], mover'[m] = "agent"
                 PROVE  place'[m] \in Allowed(place[m])
        BY DEF Allowed
    <2>1. Move /\ place[m] = Folder /\ place'[m] = plan.dest
          BY <1>1, OnlyMoveMoves
    <2> QED BY <1>1, <2>1 DEF IInv, Move, Planned
  <1>2. IInv /\ [Next]_vars => [\A m \in Mails : Kept(m)]_vars
        BY <1>1
  <1> QED BY <1>2, Inductive, PTL DEF Spec, CorrectionsWin

\* The user has the last word about a mail.
THEOREM UserHasLastWord == Spec => UserDecides
  <1> QED BY RestoresAreHeard, CorrectionsAreKept DEF UserDecides
=============================================================================
