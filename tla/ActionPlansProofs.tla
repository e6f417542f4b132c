------------------------- MODULE ActionPlansProofs -------------------------
(***************************************************************************)
(* Theorems about ActionPlans, for any plans, processes, objects and       *)
(* bounds: type correctness, that no effect comes before its approval, and *)
(* that an update comes to the server at most once.                        *)
(***************************************************************************)
EXTENDS ActionPlans, TLAPS

\* A plan may take effect: the policy asks for no approval, or it has one.
Cleared(p) == p \in NeedsApproval => p \in granted

\* What the rows and the places of the calls know of approvals.  This is what
\* makes EffectsAreApproved inductive: a call past Load or Review no longer
\* reads the row, but a row was approved when it did, and approvals stay.
RowsAreCleared ==
    \A p \in Plans : status[p] \in {"approved", "executing", "completed"} => Cleared(p)

Committed == {"reconcile", "reopen", "adopt", "complete", "check", "mark", "etag",
              "send", "finish"}

CallsAreCleared ==
    \A c \in Clients :
        /\ pc[c] \in Committed => Cleared(job[c])
        /\ pc[c] \notin Rest => Serves(route[c], job[c])
        /\ pc[c] \in {"adopt", "complete", "check"} => Kind[job[c]] = "event"
        /\ pc[c] = "plan" => route[c] \in Planners

EffectsAreCleared == \A p \in applied : Cleared(p)

IInv == TypeOK /\ RowsAreCleared /\ CallsAreCleared /\ EffectsAreCleared /\ UpdateOnce

\* Where a call goes once it knows the row of its plan.
LEMMA OnwardPlaces ==
    ASSUME NEW r \in Planners, NEW s PROVE
    Onward(r, s) \in {"review", "approve", "load", "duplicate", "refused"}
  BY DEF Planners, Onward, WorkspaceTool, GroupwareTool, ArchiveInvoice, TrustedCommand,
     SyncRegister

LEMMA InitIInv == Init => IInv
  <1> SUFFICES ASSUME Init PROVE IInv
    OBVIOUS
  <1>1. (CHOOSE p \in Plans : TRUE) \in Plans
    <2>1. \E p \in Plans : TRUE
      BY PlanAssumption
    <2> QED
      BY <2>1, Zenon
  <1>2. (CHOOSE r \in Routes : TRUE) \in Routes
    <2>1. \E r \in Routes : TRUE
      BY PlanAssumption
    <2> QED
      BY <2>1, Zenon
  <1>3. job \in [Clients -> Plans] /\ route \in [Clients -> Routes]
    <2>1. job = [c \in Clients |-> CHOOSE p \in Plans : TRUE]
          /\ route = [c \in Clients |-> CHOOSE r \in Routes : TRUE]
      BY Zenon DEF Init
    <2> QED
      <3> DEFINE somePlan == CHOOSE p \in Plans : TRUE
      <3> DEFINE someRoute == CHOOSE r \in Routes : TRUE
      <3>1. /\ somePlan \in Plans /\ someRoute \in Routes
            /\ job = [c \in Clients |-> somePlan] /\ route = [c \in Clients |-> someRoute]
        BY <1>1, <1>2, <2>1
      <3> HIDE DEF somePlan, someRoute
      <3> QED
        BY <3>1
  <1>4. /\ status = [p \in Plans |-> "absent"]
        /\ remote \in [Objects -> Contents \cup {Nothing}]
        /\ version = [p \in Plans |-> "none"]
        /\ pc = [c \in Clients |-> "idle"]
        /\ etag = [c \in Clients |-> FALSE]
        /\ granted = {} /\ applied = {}
        /\ edits = 0 /\ faults = 0 /\ crashes = 0
    BY Zenon DEF Init
  <1>5. TypeOK
    BY <1>3, <1>4, PlanAssumption DEF TypeOK, Statuses, Places, Rest
  <1> QED
    BY <1>4, <1>5 DEF IInv, RowsAreCleared, CallsAreCleared, EffectsAreCleared, UpdateOnce,
       Committed, Rest

\* Every step of a call keeps the types.
LEMMA StepType == IInv /\ [Next]_vars => TypeOK'
  <1> SUFFICES ASSUME IInv, [Next]_vars PROVE TypeOK'
    OBVIOUS
  <1> USE PlanAssumption DEF IInv, TypeOK, Statuses, Places, Rest
  <1>1. ASSUME NEW c \in Clients, Begin(c) PROVE TypeOK'
    BY <1>1 DEF Begin, Goto, Serves, Entries, Planners, row, budget
  <1>2. ASSUME NEW c \in Clients, Plan(c) PROVE TypeOK'
    <2> DEFINE s == IF status[job[c]] # "absent" THEN status[job[c]]
                    ELSE IF job[c] \in NeedsApproval THEN "proposed" ELSE "approved"
    <2>1. Onward(route[c], s) \in {"review", "approve", "load", "duplicate", "refused"}
      BY <1>2, OnwardPlaces DEF Plan, CallsAreCleared
    <2> QED
      BY <1>2, <2>1 DEF Plan, Goto, SetStatus, server, call, budget
  <1>3. ASSUME NEW c \in Clients, Approve(c) PROVE TypeOK'
    BY <1>3 DEF Approve, Goto, Resume, WorkspaceTool, Approvable, row, server, call, budget
  <1>4. ASSUME NEW c \in Clients, Grant(c) PROVE TypeOK'
    BY <1>4 DEF Grant, Goto, SetStatus, Resume, WorkspaceTool, server, call, budget
  <1>5. ASSUME NEW c \in Clients, Review(c) PROVE TypeOK'
    BY <1>5 DEF Review, Goto, row, server, call, budget
  <1>6. ASSUME NEW c \in Clients, Reconcile(c) PROVE TypeOK'
    BY <1>6 DEF Reconcile, Goto, Verdict, row, server, call, budget
  <1>7. ASSUME NEW c \in Clients, Reopen(c) PROVE TypeOK'
    BY <1>7 DEF Reopen, Goto, SetStatus, server, call, budget
  <1>8. ASSUME NEW c \in Clients, Reject(c) PROVE TypeOK'
    BY <1>8 DEF Reject, Goto, SetStatus, server, call, budget
  <1>9. ASSUME NEW c \in Clients, Adopt(c) PROVE TypeOK'
    BY <1>9 DEF Adopt, Goto, row, server, call, budget
  <1>10. ASSUME NEW c \in Clients, Complete(c) PROVE TypeOK'
    BY <1>10 DEF Complete, Goto, SetStatus, server, call, budget
  <1>11. ASSUME NEW c \in Clients, Check(c) PROVE TypeOK'
    BY <1>11 DEF Check, Goto, row, call, budget
  <1>12. ASSUME NEW c \in Clients, Load(c) PROVE TypeOK'
    BY <1>12 DEF Load, Goto, row, server, call, budget
  <1>13. ASSUME NEW c \in Clients, Mark(c) PROVE TypeOK'
    BY <1>13 DEF Mark, Goto, SetStatus, server, call, budget
  <1>14. ASSUME NEW c \in Clients, ReadETag(c) PROVE TypeOK'
    BY <1>14 DEF ReadETag, Goto, row, call, budget
  <1>15. ASSUME NEW c \in Clients, Send(c) PROVE TypeOK'
    BY <1>15 DEF Send, Goto, Accepts, Apply, Written, Outdate, row, call, budget
  <1>16. ASSUME NEW c \in Clients, SendRefused(c) PROVE TypeOK'
    BY <1>16 DEF SendRefused, Goto, row, server, call, budget
  <1>17. ASSUME NEW c \in Clients, Finish(c) PROVE TypeOK'
    BY <1>17 DEF Finish, Goto, SetStatus, Fault, server, call, budget
  <1>18. ASSUME NEW c \in Clients, Fail(c) PROVE TypeOK'
    BY <1>18 DEF Fail, Goto, SetStatus, server, call, budget
  <1>19. ASSUME NEW c \in Clients, ReadBack(c) PROVE TypeOK'
    BY <1>19 DEF ReadBack, Goto, row, server, call, budget
  <1>20. ASSUME NEW c \in Clients, ReadError(c) PROVE TypeOK'
    BY <1>20 DEF ReadError, Goto, Fault, row, server, call
  <1>21. ASSUME NEW c \in Clients, Deny(c) PROVE TypeOK'
    BY <1>21 DEF Deny, Goto, SetStatus, Fault, server, call
  <1>22. ASSUME NEW c \in Clients, AnswerLost(c) PROVE TypeOK'
    BY <1>22 DEF AnswerLost, Goto, Accepts, Apply, Written, Outdate, Fault, row, call
  <1>23. ASSUME NEW c \in Clients, RequestLost(c) PROVE TypeOK'
    BY <1>23 DEF RequestLost, Goto, Fault, row, server, call
  <1>24. ASSUME NEW c \in Clients, FinishError(c) PROVE TypeOK'
    BY <1>24 DEF FinishError, Goto, Fault, row, server, call
  <1>25. ASSUME NEW c \in Clients, Crash(c) PROVE TypeOK'
    BY <1>25 DEF Crash, Goto, row, server, call
  <1>26. ASSUME NEW o \in Objects, Edit(o) PROVE TypeOK'
    BY <1>26 DEF Edit, Outdate, row, call
  <1>27. CASE UNCHANGED vars
    BY <1>27 DEF vars
  <1> QED
    BY <1>1, <1>2, <1>3, <1>4, <1>5, <1>6, <1>7, <1>8, <1>9, <1>10, <1>11, <1>12, <1>13,
       <1>14, <1>15, <1>16, <1>17, <1>18, <1>19, <1>20, <1>21, <1>22, <1>23, <1>24,
       <1>25, <1>26, <1>27 DEF Next, Proceed, Trouble

\* Every step keeps what is known of approvals.
LEMMA StepCleared ==
    IInv /\ [Next]_vars => (RowsAreCleared /\ CallsAreCleared /\ EffectsAreCleared)'
  <1> DEFINE Known == RowsAreCleared /\ CallsAreCleared /\ EffectsAreCleared
  <1> SUFFICES ASSUME IInv, [Next]_vars PROVE Known'
    OBVIOUS
  <1> USE PlanAssumption DEF IInv, TypeOK, Places, Rest, RowsAreCleared, CallsAreCleared,
        EffectsAreCleared, Cleared, Committed, Serves
  <1>1. ASSUME NEW c \in Clients, Begin(c) PROVE Known'
    BY <1>1 DEF Begin, Goto, Entries, Planners, row, budget
  <1>2. ASSUME NEW c \in Clients, Plan(c) PROVE Known'
    <2> DEFINE s == IF status[job[c]] # "absent" THEN status[job[c]]
                    ELSE IF job[c] \in NeedsApproval THEN "proposed" ELSE "approved"
    <2>1. Onward(route[c], s) \in {"review", "approve", "load", "duplicate", "refused"}
      BY <1>2, OnwardPlaces DEF Plan, CallsAreCleared
    <2> QED
      BY <1>2, <2>1 DEF Plan, Goto, SetStatus, server, call, budget
  <1>3. ASSUME NEW c \in Clients, Approve(c) PROVE Known'
    BY <1>3 DEF Approve, Goto, Resume, WorkspaceTool, Approvable, row, server, call, budget
  <1>4. ASSUME NEW c \in Clients, Grant(c) PROVE Known'
    BY <1>4 DEF Grant, Goto, SetStatus, Resume, WorkspaceTool, server, call, budget
  <1>5. ASSUME NEW c \in Clients, Review(c) PROVE Known'
    BY <1>5 DEF Review, Goto, row, server, call, budget
  <1>6. ASSUME NEW c \in Clients, Reconcile(c) PROVE Known'
    BY <1>6 DEF Reconcile, Goto, Verdict, row, server, call, budget
  <1>7. ASSUME NEW c \in Clients, Reopen(c) PROVE Known'
    BY <1>7 DEF Reopen, Goto, SetStatus, server, call, budget
  <1>8. ASSUME NEW c \in Clients, Reject(c) PROVE Known'
    BY <1>8 DEF Reject, Goto, SetStatus, server, call, budget
  <1>9. ASSUME NEW c \in Clients, Adopt(c) PROVE Known'
    BY <1>9 DEF Adopt, Goto, row, server, call, budget
  <1>10. ASSUME NEW c \in Clients, Complete(c) PROVE Known'
    BY <1>10 DEF Complete, Goto, SetStatus, server, call, budget
  <1>11. ASSUME NEW c \in Clients, Check(c) PROVE Known'
    BY <1>11 DEF Check, Goto, row, call, budget
  <1>12. ASSUME NEW c \in Clients, Load(c) PROVE Known'
    BY <1>12 DEF Load, Goto, row, server, call, budget
  <1>13. ASSUME NEW c \in Clients, Mark(c) PROVE Known'
    BY <1>13 DEF Mark, Goto, SetStatus, server, call, budget
  <1>14. ASSUME NEW c \in Clients, ReadETag(c) PROVE Known'
    BY <1>14 DEF ReadETag, Goto, row, call, budget
  <1>15. ASSUME NEW c \in Clients, Send(c) PROVE Known'
    BY <1>15 DEF Send, Goto, Accepts, Apply, Written, Outdate, row, call, budget
  <1>16. ASSUME NEW c \in Clients, SendRefused(c) PROVE Known'
    BY <1>16 DEF SendRefused, Goto, row, server, call, budget
  <1>17. ASSUME NEW c \in Clients, Finish(c) PROVE Known'
    BY <1>17 DEF Finish, Goto, SetStatus, Fault, server, call, budget
  <1>18. ASSUME NEW c \in Clients, Fail(c) PROVE Known'
    BY <1>18 DEF Fail, Goto, SetStatus, server, call, budget
  <1>19. ASSUME NEW c \in Clients, ReadBack(c) PROVE Known'
    BY <1>19 DEF ReadBack, Goto, row, server, call, budget
  <1>20. ASSUME NEW c \in Clients, ReadError(c) PROVE Known'
    BY <1>20 DEF ReadError, Goto, Fault, row, server, call
  <1>21. ASSUME NEW c \in Clients, Deny(c) PROVE Known'
    BY <1>21 DEF Deny, Goto, SetStatus, Fault, server, call
  <1>22. ASSUME NEW c \in Clients, AnswerLost(c) PROVE Known'
    BY <1>22 DEF AnswerLost, Goto, Accepts, Apply, Written, Outdate, Fault, row, call
  <1>23. ASSUME NEW c \in Clients, RequestLost(c) PROVE Known'
    BY <1>23 DEF RequestLost, Goto, Fault, row, server, call
  <1>24. ASSUME NEW c \in Clients, FinishError(c) PROVE Known'
    BY <1>24 DEF FinishError, Goto, Fault, row, server, call
  <1>25. ASSUME NEW c \in Clients, Crash(c) PROVE Known'
    BY <1>25 DEF Crash, Goto, row, server, call
  <1>26. ASSUME NEW o \in Objects, Edit(o) PROVE Known'
    BY <1>26 DEF Edit, Outdate, row, call
  <1>27. CASE UNCHANGED vars
    BY <1>27 DEF vars
  <1> QED
    BY <1>1, <1>2, <1>3, <1>4, <1>5, <1>6, <1>7, <1>8, <1>9, <1>10, <1>11, <1>12, <1>13,
       <1>14, <1>15, <1>16, <1>17, <1>18, <1>19, <1>20, <1>21, <1>22, <1>23, <1>24,
       <1>25, <1>26, <1>27 DEF Next, Proceed, Trouble

\* An update that came to the server is outdated from then on.
LEMMA StepUpdateOnce == IInv /\ [Next]_vars => UpdateOnce'
  <1> SUFFICES ASSUME IInv, [Next]_vars PROVE UpdateOnce'
    OBVIOUS
  <1> USE PlanAssumption DEF IInv, TypeOK, UpdateOnce
  <1>1. ASSUME NEW c \in Clients, Begin(c) PROVE UpdateOnce'
    BY <1>1 DEF Begin
  <1>2. ASSUME NEW p \in Plans, NEW c \in Clients, Accepts(c, p), Apply(p) PROVE UpdateOnce'
    BY <1>2 DEF Accepts, Apply, Outdate
  <1>3. ASSUME NEW c \in Clients, Check(c) PROVE UpdateOnce'
    BY <1>3 DEF Check, CallsAreCleared
  <1>4. ASSUME NEW o \in Objects, Edit(o) PROVE UpdateOnce'
    BY <1>4 DEF Edit, Outdate
  <1>5. ASSUME UNCHANGED applied, UNCHANGED version PROVE UpdateOnce'
    BY <1>5
  <1>6. ASSUME NEW c \in Clients, Proceed(c) PROVE UpdateOnce'
    BY <1>2, <1>3, <1>5, <1>6 DEF Proceed, Plan, Approve, Grant, Review, Reconcile, Reopen,
       Reject, Adopt, Complete, Load, Mark, ReadETag, Send, SendRefused, Finish, Fail,
       ReadBack, server
  <1>7. ASSUME NEW c \in Clients, Trouble(c) PROVE UpdateOnce'
    BY <1>2, <1>5, <1>7 DEF Trouble, ReadError, Deny, AnswerLost, RequestLost, FinishError,
       Crash, server
  <1> QED
    BY <1>1, <1>4, <1>5, <1>6, <1>7 DEF Next, vars

\* The strengthened invariant holds in every reachable state.
THEOREM Invariance == Spec => []IInv
  <1>1. IInv /\ [Next]_vars => IInv'
    BY StepType, StepCleared, StepUpdateOnce DEF IInv
  <1> QED
    BY InitIInv, <1>1, PTL DEF Spec

\* Every reachable state has the types of the model.
THEOREM TypeCorrect == Spec => []TypeOK
  BY Invariance, PTL DEF IInv

\* No write that needs an approval reaches the server before it was given,
\* whatever processes plan, approve, execute, fail and retry it concurrently.
THEOREM ApprovalComesFirst == Spec => []EffectsAreApproved
  <1>1. IInv => EffectsAreApproved
    BY PlanAssumption DEF IInv, EffectsAreCleared, EffectsAreApproved, Cleared
  <1> QED
    BY Invariance, <1>1, PTL

\* The update of a plan comes to the server at most once.
THEOREM UpdatesApplyOnce == Spec => []UpdateOnce
  BY Invariance, PTL DEF IInv

\* What the rows say of the calls: a call that reports its plan completed had it
\* applied, and rows are executing or completed as the two properties say.
RowsTellTheTruth ==
    /\ \A c \in Clients : pc[c] = "finish" => job[c] \in applied
    /\ CompletedWasDone
    /\ ExecutingHasExecutor

LEMMA StepTruth == IInv /\ RowsTellTheTruth /\ [Next]_vars => RowsTellTheTruth'
  <1> SUFFICES ASSUME IInv, RowsTellTheTruth, [Next]_vars PROVE RowsTellTheTruth'
    OBVIOUS
  <1> USE PlanAssumption DEF IInv, TypeOK, Places, Rest, RowsTellTheTruth, CompletedWasDone,
        ExecutingHasExecutor
  <1>1. ASSUME NEW c \in Clients, Begin(c) PROVE RowsTellTheTruth'
    BY <1>1 DEF Begin, Goto, Entries, Planners, row, budget
  <1>2. ASSUME NEW c \in Clients, Plan(c) PROVE RowsTellTheTruth'
    <2> DEFINE s == IF status[job[c]] # "absent" THEN status[job[c]]
                    ELSE IF job[c] \in NeedsApproval THEN "proposed" ELSE "approved"
    <2>1. Onward(route[c], s) \in {"review", "approve", "load", "duplicate", "refused"}
      BY <1>2, OnwardPlaces DEF Plan, CallsAreCleared
    <2> QED
      BY <1>2, <2>1 DEF Plan, Goto, SetStatus, server, call, budget
  <1>3. ASSUME NEW c \in Clients, Approve(c) PROVE RowsTellTheTruth'
    BY <1>3 DEF Approve, Goto, Resume, WorkspaceTool, Approvable, row, server, call, budget
  <1>4. ASSUME NEW c \in Clients, Grant(c) PROVE RowsTellTheTruth'
    BY <1>4 DEF Grant, Goto, SetStatus, Resume, WorkspaceTool, server, call, budget
  <1>5. ASSUME NEW c \in Clients, Review(c) PROVE RowsTellTheTruth'
    BY <1>5 DEF Review, Goto, row, server, call, budget
  <1>6. ASSUME NEW c \in Clients, Reconcile(c) PROVE RowsTellTheTruth'
    BY <1>6 DEF Reconcile, Goto, Verdict, row, server, call, budget
  <1>7. ASSUME NEW c \in Clients, Reopen(c) PROVE RowsTellTheTruth'
    BY <1>7 DEF Reopen, Goto, SetStatus, server, call, budget
  <1>8. ASSUME NEW c \in Clients, Reject(c) PROVE RowsTellTheTruth'
    BY <1>8 DEF Reject, Goto, SetStatus, server, call, budget
  <1>9. ASSUME NEW c \in Clients, Adopt(c) PROVE RowsTellTheTruth'
    BY <1>9 DEF Adopt, Goto, row, server, call, budget
  <1>10. ASSUME NEW c \in Clients, Complete(c) PROVE RowsTellTheTruth'
    BY <1>10 DEF Complete, Goto, SetStatus, server, call, budget
  <1>11. ASSUME NEW c \in Clients, Check(c) PROVE RowsTellTheTruth'
    BY <1>11 DEF Check, Goto, row, call, budget
  <1>12. ASSUME NEW c \in Clients, Load(c) PROVE RowsTellTheTruth'
    BY <1>12 DEF Load, Goto, row, server, call, budget
  <1>13. ASSUME NEW c \in Clients, Mark(c) PROVE RowsTellTheTruth'
    BY <1>13 DEF Mark, Goto, SetStatus, server, call, budget
  <1>14. ASSUME NEW c \in Clients, ReadETag(c) PROVE RowsTellTheTruth'
    BY <1>14 DEF ReadETag, Goto, row, call, budget
  <1>15. ASSUME NEW c \in Clients, Send(c) PROVE RowsTellTheTruth'
    BY <1>15 DEF Send, Goto, Accepts, Apply, Written, Outdate, row, call, budget
  <1>16. ASSUME NEW c \in Clients, SendRefused(c) PROVE RowsTellTheTruth'
    BY <1>16 DEF SendRefused, Goto, row, server, call, budget
  <1>17. ASSUME NEW c \in Clients, Finish(c) PROVE RowsTellTheTruth'
    BY <1>17 DEF Finish, Goto, SetStatus, Fault, server, call, budget
  <1>18. ASSUME NEW c \in Clients, Fail(c) PROVE RowsTellTheTruth'
    BY <1>18 DEF Fail, Goto, SetStatus, server, call, budget
  <1>19. ASSUME NEW c \in Clients, ReadBack(c) PROVE RowsTellTheTruth'
    BY <1>19 DEF ReadBack, Goto, row, server, call, budget
  <1>20. ASSUME NEW c \in Clients, ReadError(c) PROVE RowsTellTheTruth'
    BY <1>20 DEF ReadError, Goto, Fault, row, server, call
  <1>21. ASSUME NEW c \in Clients, Deny(c) PROVE RowsTellTheTruth'
    BY <1>21 DEF Deny, Goto, SetStatus, Fault, server, call
  <1>22. ASSUME NEW c \in Clients, AnswerLost(c) PROVE RowsTellTheTruth'
    BY <1>22 DEF AnswerLost, Goto, Accepts, Apply, Written, Outdate, Fault, row, call
  <1>23. ASSUME NEW c \in Clients, RequestLost(c) PROVE RowsTellTheTruth'
    BY <1>23 DEF RequestLost, Goto, Fault, row, server, call
  <1>24. ASSUME NEW c \in Clients, FinishError(c) PROVE RowsTellTheTruth'
    BY <1>24 DEF FinishError, Goto, Fault, row, server, call
  <1>25. ASSUME NEW c \in Clients, Crash(c) PROVE RowsTellTheTruth'
    BY <1>25 DEF Crash, Goto, row, server, call
  <1>26. ASSUME NEW o \in Objects, Edit(o) PROVE RowsTellTheTruth'
    BY <1>26 DEF Edit, Outdate, row, call
  <1>27. CASE UNCHANGED vars
    BY <1>27 DEF vars
  <1> QED
    BY <1>1, <1>2, <1>3, <1>4, <1>5, <1>6, <1>7, <1>8, <1>9, <1>10, <1>11, <1>12, <1>13,
       <1>14, <1>15, <1>16, <1>17, <1>18, <1>19, <1>20, <1>21, <1>22, <1>23, <1>24,
       <1>25, <1>26, <1>27 DEF Next, Proceed, Trouble

\* A completed row stands for an effect, and a row stays executing for ever only
\* if its process died.
THEOREM RowsAreTrue == Spec => []StatusIsTrue
  <1>1. Init => RowsTellTheTruth
    <2>1. ASSUME Init PROVE status = [p \in Plans |-> "absent"] /\ pc = [c \in Clients |-> "idle"]
      BY <2>1, Zenon DEF Init
    <2> QED
      BY <2>1 DEF RowsTellTheTruth, CompletedWasDone, ExecutingHasExecutor
  <1>2. RowsTellTheTruth => StatusIsTrue
    BY DEF RowsTellTheTruth, StatusIsTrue
  <1> QED
    BY Invariance, StepTruth, <1>1, <1>2, PTL DEF Spec

\* Existing content is replaced only by an update planned on exactly that
\* content, by the managed register, or moved to where there was nothing.
THEOREM ReplacedKnowingly == Spec => NothingOverwritten
  <1> DEFINE Kept == \A o \in Objects :
                Exists(o) /\ remote'[o] # remote[o] /\ edits' = edits =>
                  \E p \in Plans :
                     \/ Kind[p] = "update" /\ Target[p] = o /\ version[p] = "current"
                     \/ Kind[p] = "register" /\ Target[p] = o
                     \/ Kind[p] = "move" /\ Source[p] = o /\ remote'[Target[p]] = remote[o]
                        /\ ~Exists(Target[p])
  <1>1. ASSUME IInv, [Next]_vars PROVE [Kept]_vars
    <2> SUFFICES Kept
      OBVIOUS
    <2>1. ASSUME NEW c \in Clients, Accepts(c, job[c]), Apply(job[c]) PROVE Kept
      BY <1>1, <2>1, PlanAssumption
         DEF IInv, TypeOK, Kinds, Accepts, Apply, Written, Exists
    <2>2. ASSUME UNCHANGED remote PROVE Kept
      BY <2>2
    <2>3. ASSUME NEW o \in Objects, Edit(o) PROVE Kept
      BY <1>1, <2>3 DEF Edit, IInv, TypeOK
    <2>4. ASSUME NEW c \in Clients, Proceed(c) PROVE Kept
      BY <2>1, <2>2, <2>4 DEF Proceed, Plan, Approve, Grant, Review, Reconcile, Reopen,
         Reject, Adopt, Complete, Check, Load, Mark, ReadETag, Send, SendRefused, Finish,
         Fail, ReadBack, server
    <2>5. ASSUME NEW c \in Clients, Trouble(c) PROVE Kept
      BY <2>1, <2>2, <2>5 DEF Trouble, ReadError, Deny, AnswerLost, RequestLost,
         FinishError, Crash, server
    <2>6. ASSUME NEW c \in Clients, Begin(c) PROVE Kept
      BY <2>2, <2>6 DEF Begin
    <2> QED
      BY <1>1, <2>2, <2>3, <2>4, <2>5, <2>6 DEF Next, vars
  <1> QED
    BY Invariance, <1>1, PTL DEF Spec, NothingOverwritten

\* An update is not sent twice over one ETag, and nothing is replaced that no plan
\* has seen, for any plans, calls, faults and crashes.
THEOREM ServerDecides == Spec => ServerIsRespected
  BY UpdatesApplyOnce, ReplacedKnowingly, PTL DEF ServerIsRespected

=============================================================================
