----------------------------- MODULE MailPipeline -----------------------------
(***************************************************************************)
(* The mail agent (mail_agent/app.py): one process that works through the   *)
(* correction folders, the provider's quarantine and the INBOX in batches,  *)
(* classifies each mail, forwards the important ones and moves every one to *)
(* the folder of its kind.  What it knows of a mail is a row of its         *)
(* database; each commit and each command of the mail client is a step of   *)
(* its own here, and the user moves mails between any two of them.          *)
(*                                                                          *)
(* A classification is a choice among the outcomes _route() has for it.     *)
(* Not modelled: calendar command and approval mails, invoices, orders and  *)
(* appointments beyond what their result does to the route, the learned     *)
(* patterns, audit rows, and everything the dry run leaves alone.           *)
(***************************************************************************)
EXTENDS Naturals, Sequences, FiniteSets, FiniteSetsExt

CONSTANTS
    Mails,       \* numbers, a newer mail has a larger one
    Limit,       \* mails per batch
    Prefetch,    \* mails classified together
    RescueOnly,  \* quarantine_rescue_only
    UserFolders, \* [Mails -> the folders the user moves it to]
    Kinds,       \* [Mails -> the categories the classifier may see in it]
    MaxMoves, MaxFaults, MaxCrashes   \* bounds on what the surroundings do

Categories == {"spam", "routine", "relevant", "appointment", "uncertain"}

Corrections == {"fix-spam", "fix-routine", "fix-relevant", "fix-not-spam"}
Folders == {"spam", "routine", "forwarded", "relevant", "review", "appointment-review", "error"}
Places == Corrections \cup Folders \cup {"INBOX", "quarantine", "malware", "elsewhere"}

PipelineAssumption ==
    /\ Mails \subseteq Nat \ {0} /\ IsFiniteSet(Mails)
    /\ Limit \in Nat \ {0} /\ Prefetch \in Nat \ {0}
    /\ RescueOnly \in BOOLEAN
    /\ UserFolders \in [Mails -> SUBSET Places]
    /\ Kinds \in [Mails -> SUBSET Categories] /\ \A m \in Mails : Kinds[m] \ {"spam"} # {}
    /\ {MaxMoves, MaxFaults, MaxCrashes} \subseteq Nat
ASSUME PipelineAssumption

\* The folders of a batch, in its order.
Stages == <<"fix-spam", "fix-routine", "fix-relevant", "fix-not-spam", "quarantine", "INBOX">>

\* FINAL_STATUSES; the others are passed through.
Final == Folders \cup {"delivery-uncertain", "quarantine-reviewed"}

Statuses == Final \cup {"none", "classified", "forwarding", "forwarded-awaiting-move",
                        "forward-failed", "move-failed", "malware-detected", "antivirus-error"}

VARIABLES
    place,      \* [Mails -> the folder it lies in]
    status,     \* [Mails -> the status of its row, "none" without one]
    dest,       \* [Mails -> destination_folder of the row, or "none"]
    forwarded,  \* mails whose row has a forwarded_at
    pc,         \* where the agent is
    stage,      \* the folder it works on, as an index of Stages
    todo,       \* what is left of the listing
    batch,      \* mails loaded, and to be classified together
    cur,        \* the mail in work, or 0
    how,        \* why: "batch", "restore", "row", "scan", or the correction folder
    plan,       \* the folder and the status it is to get
    answer,     \* what the mail client reported
    taken,      \* RunSummary.processed of the batch
    failed,     \* RunSummary.errors of the batch is not empty
    deliveries, \* history: how often the recipient got a mail
    mover,      \* history: who moved a mail last, or was to move it by its row: "agent" or "user"
    touched,    \* history: mails the user moved since their last delivery
    restored,   \* history: mails the user took back from spam or the quarantine, not learned yet
    slipped,    \* history: mails that were delivered although the client reported a failure
    strayed,    \* history: mails that were moved without their row telling so
    blotted,    \* history: mails whose row the scanner wrote over and did not bring up to date,
                \*   which the user did not move since
    moves, faults, crashes

rows == <<status, dest, forwarded>>
work == <<stage, todo, batch, taken, failed>>
item == <<cur, how, plan, answer>>
history == <<deliveries, mover, touched, restored, slipped, strayed, blotted>>
budget == <<moves, faults, crashes>>
vars == <<place, rows, pc, work, item, history, budget>>

NoPlan == [dest |-> "none", status |-> "none"]

\* _status_for_destination: a folder gives its name to the status, but for one.
StatusFor(folder) == IF folder \in Folders THEN folder ELSE "review"
PlanFor(folder) == [dest |-> folder, status |-> StatusFor(folder)]

Init ==
    /\ place \in [Mails -> {"INBOX", "quarantine"}]
    /\ status = [m \in Mails |-> "none"] /\ dest = [m \in Mails |-> "none"] /\ forwarded = {}
    /\ pc = "idle" /\ stage = 1 /\ todo = {} /\ batch = {}
    /\ cur = 0 /\ how = "batch" /\ plan = NoPlan /\ answer = "none"
    /\ taken = 0 /\ failed = FALSE
    /\ deliveries = [m \in Mails |-> 0] /\ mover = [m \in Mails |-> "user"]
    /\ touched = {} /\ restored = {} /\ slipped = {} /\ strayed = {}
    /\ blotted = {}
    /\ moves = 0 /\ faults = 0 /\ crashes = 0

Folder == Stages[stage]
InFolder(f) == {m \in Mails : place[m] = f}
Fault == faults < MaxFaults /\ faults' = faults + 1 /\ UNCHANGED <<moves, crashes>>

-----------------------------------------------------------------------------
(* The batch: its folders and their listings. *)

Start ==
    /\ pc = "idle" /\ pc' = "list"
    /\ stage' = 1 /\ taken' = 0 /\ failed' = FALSE
    /\ UNCHANGED <<place, rows, todo, batch, item, history, budget>>

\* The correction folders come first; after an error in one the batch ends.
NextStage ==
    IF stage = Len(Stages) \/ (failed /\ Stages[stage + 1] = "quarantine")
    THEN pc' = "idle" /\ UNCHANGED stage
    ELSE pc' = "list" /\ stage' = stage + 1

\* The room of the batch that the folder may take: a fifth for the quarantine.
Room == LET left == Limit - taken
        IN  IF Folder # "quarantine" \/ left = 0 THEN left
            ELSE IF left \div 5 > 1 THEN left \div 5 ELSE 1

\* The newest mails of the folder, as many as there is room for.
Listing == {m \in InFolder(Folder) : Cardinality({n \in InFolder(Folder) : n >= m}) =< Room}

List ==
    /\ pc = "list"
    /\ IF Room = 0 THEN NextStage /\ UNCHANGED todo
                   ELSE pc' = "load" /\ todo' = Listing /\ UNCHANGED stage
    /\ UNCHANGED <<place, rows, batch, taken, failed, item, history, budget>>

\* A folder that cannot be listed: only the quarantine is done without.
ListError ==
    /\ pc = "list"
    /\ IF Folder = "quarantine" THEN NextStage /\ UNCHANGED failed
                                ELSE pc' = "idle" /\ failed' = TRUE /\ UNCHANGED stage
    /\ Fault
    /\ UNCHANGED <<place, rows, todo, batch, taken, item, history>>

\* The listing is worked off: what was collected is classified, or the next folder listed.
ListingEnds ==
    /\ pc = "load" /\ todo = {}
    /\ IF batch # {} THEN pc' = "route" /\ how' = "batch" /\ UNCHANGED stage
                     ELSE NextStage /\ UNCHANGED how
    /\ UNCHANGED <<place, rows, todo, batch, taken, failed, cur, plan, answer, history, budget>>

-----------------------------------------------------------------------------
(* One mail: exported, scanned and looked up. *)

Loading(m) == pc = "load" /\ todo # {} /\ m = Max(todo)

\* It is not there any more.
Missing(m) ==
    /\ Loading(m) /\ place[m] # Folder
    /\ todo' = todo \ {m}
    /\ UNCHANGED <<place, rows, pc, stage, batch, taken, failed, item, history, budget>>

LoadError(m) ==
    /\ Loading(m)
    /\ todo' = todo \ {m} /\ failed' = TRUE
    /\ Fault
    /\ UNCHANGED <<place, rows, pc, stage, batch, taken, item, history>>

\* The scanner objects to the whole mail, of which there is no row yet to write
\* to, or to an attachment; or it fails, which blocks the mail as well.
Blocked(m) ==
    /\ Loading(m) /\ place[m] = Folder
    /\ \E found \in {"malware-detected", "antivirus-error"}, whole \in BOOLEAN :
         /\ plan' = [dest |-> IF found = "malware-detected" THEN "malware" ELSE "error",
                     status |-> IF whole THEN "none" ELSE found]
         /\ failed' = (failed \/ found = "antivirus-error")
    /\ todo' = todo \ {m} /\ cur' = m /\ how' = "scan" /\ pc' = "move"
    /\ Fault
    /\ UNCHANGED <<place, rows, stage, batch, taken, answer, history>>

Interrupted(m) == status[m] = "forwarding" /\ m \notin forwarded
MustMove(m) == status[m] = "move-failed" /\ dest[m] # "none"

\* Mutant: an older failed move goes first in the correction folders, too.
StepRetryFirst(m) ==
    IF Interrupted(m) /\ Folder # "quarantine" THEN "error"
    ELSE IF MustMove(m) THEN "retry"
    ELSE IF Folder \in Corrections THEN "learn"
    ELSE IF Folder = "INBOX" /\ status[m] \in {"spam", "quarantine-reviewed"} THEN "learn"
    ELSE IF status[m] \in Final THEN "skip"
    ELSE "collect"

\* Mutant: an interrupted forwarding is left alone.
StepSkipping(m) ==
    IF Interrupted(m) /\ Folder # "quarantine" THEN "skip"
    ELSE IF Folder \in Corrections THEN "learn"
    ELSE IF MustMove(m) THEN "retry"
    ELSE IF Folder = "INBOX" /\ status[m] \in {"spam", "quarantine-reviewed"} THEN "learn"
    ELSE IF status[m] \in Final THEN "skip"
    ELSE "collect"

\* What its row makes of it.
Step(m) ==
    IF Interrupted(m) /\ Folder # "quarantine" THEN "error"
    ELSE IF Folder \in Corrections THEN "learn"
    ELSE IF MustMove(m) THEN "retry"
    ELSE IF Folder = "INBOX" /\ status[m] \in {"spam", "quarantine-reviewed"} THEN "learn"
    ELSE IF status[m] \in Final THEN "skip"
    ELSE "collect"

Load(m) ==
    /\ Loading(m) /\ place[m] = Folder
    /\ todo' = todo \ {m}
    /\ CASE Step(m) = "skip" -> UNCHANGED <<pc, batch, cur, how, plan>>
         [] Step(m) = "collect" ->
              /\ batch' = batch \cup {m}
              /\ IF Cardinality(batch') >= Prefetch THEN pc' = "route" /\ how' = "batch"
                                                    ELSE UNCHANGED <<pc, how>>
              /\ UNCHANGED <<cur, plan>>
         [] Step(m) = "learn" ->
              /\ cur' = m /\ pc' = "learn"
              /\ how' = IF Folder = "INBOX" THEN "restore" ELSE Folder
              /\ UNCHANGED <<batch, plan>>
         [] OTHER ->
              /\ cur' = m /\ pc' = "move" /\ how' = "row"
              /\ plan' = PlanFor(IF Step(m) = "retry" THEN dest[m] ELSE "error")
              /\ UNCHANGED batch
    /\ UNCHANGED <<place, rows, stage, taken, failed, answer, history, budget>>

\* record_feedback.
Learn ==
    /\ pc = "learn" /\ pc' = "route"
    /\ restored' = restored \ {cur}
    /\ UNCHANGED <<place, rows, work, item, deliveries, mover, touched, slipped, strayed, blotted, budget>>

-----------------------------------------------------------------------------
(* One mail: routed by its category, and forwarded if it matters. *)

\* The categories a mail can get: the user's word, or the classifier's.
Verdicts(m) ==
    CASE how = "fix-spam" -> {"spam"}
      [] how = "fix-routine" -> {"routine"}
      [] how = "fix-relevant" -> {"relevant", "appointment"}
      [] how \in {"fix-not-spam", "restore"} -> Kinds[m] \ {"spam"}
      [] OTHER -> Kinds[m]

\* The folders for a category, depending on confidence, invoice and appointment.
Outcomes(c) ==
    CASE c = "spam" -> IF how = "fix-spam" THEN {"spam"} ELSE {"spam", "review"}
      [] c = "routine" -> {"routine", "review", "error"}
      [] c = "relevant" -> {"relevant"}
      [] c = "appointment" -> {"appointment-review", "routine", "error"}
      [] OTHER -> {"review"}

\* ... and where it goes once it is forwarded.
ForwardOutcomes(c) ==
    CASE c = "relevant" -> {"forwarded"}
      [] c = "appointment" -> {"forwarded", "appointment-review"}
      [] OTHER -> {}

InQuarantine == Folder = "quarantine" /\ how = "batch"

\* What is to be routed: the next of the batch, or the mail in work.
Routing(m) ==
    /\ pc = "route"
    /\ IF how = "batch" THEN m = Max(batch) /\ batch' = batch \ {m}
                        ELSE m = cur /\ UNCHANGED batch

\* After a mail: the rest of the batch, or of the listing.
Proceed == pc' = IF how = "batch" /\ batch' # {} THEN "route" ELSE "load"

\* Ordinary mail of the quarantine stays there and is final.
Keep(m) ==
    /\ Routing(m) /\ InQuarantine /\ RescueOnly /\ Verdicts(m) \cap {"spam", "routine"} # {}
    /\ status' = [status EXCEPT ![m] = "quarantine-reviewed"]
    /\ taken' = taken + 1 /\ Proceed
    /\ UNCHANGED <<place, dest, forwarded, stage, todo, failed, item, history, budget>>

\* The row is committed as "classified" before anything happens to the mail.
Sort(m) ==
    /\ Routing(m)
    /\ \E c \in Verdicts(m) : \E f \in Outcomes(c) :
         /\ ~(InQuarantine /\ RescueOnly /\ c = "spam")
         /\ plan' = PlanFor(f)
    /\ status' = [status EXCEPT ![m] = "classified"]
    /\ cur' = m /\ pc' = "move"
    /\ UNCHANGED <<place, dest, forwarded, stage, todo, taken, failed, how, answer, history, budget>>

SortToForward(m) ==
    /\ Routing(m)
    /\ \E c \in Verdicts(m) : \E f \in ForwardOutcomes(c) : plan' = PlanFor(f)
    /\ status' = [status EXCEPT ![m] = "classified"]
    /\ cur' = m /\ pc' = "forward"
    /\ UNCHANGED <<place, dest, forwarded, stage, todo, taken, failed, how, answer, history, budget>>

\* _forward_once: nothing to do for a mail that has a forwarded_at.
Forward ==
    /\ pc = "forward"
    /\ IF cur \in forwarded THEN pc' = "move" /\ UNCHANGED status
                             ELSE pc' = "send" /\ status' = [status EXCEPT ![cur] = "forwarding"]
    /\ UNCHANGED <<place, dest, forwarded, work, item, history, budget>>

\* The recipient gets the mail.
Deliver ==
    /\ deliveries' = [deliveries EXCEPT ![cur] = @ + 1]
    /\ touched' = touched \ {cur}

\* Sent; or the client failed only after the hand-over, which may have worked;
\* or it was refused; or it reported a failure (a timeout) of a mail that went out.
Send ==
    /\ pc = "send" /\ pc' = "sent"
    /\ \/ answer' = "sent" /\ Deliver /\ UNCHANGED <<slipped, budget>>
       \/ answer' = "uncertain" /\ Fault /\ Deliver /\ UNCHANGED slipped
       \/ answer' = "uncertain" /\ Fault /\ UNCHANGED <<deliveries, touched, slipped>>
       \/ answer' = "refused" /\ Fault /\ UNCHANGED <<deliveries, touched, slipped>>
       \/ answer' = "refused" /\ Fault /\ Deliver /\ slipped' = slipped \cup {cur}
    /\ UNCHANGED <<place, rows, work, cur, how, plan, mover, restored, strayed, blotted>>

\* Mutant: an uncertain delivery is a failed one.
RecordPlainly ==
    /\ pc = "sent" /\ pc' = "move" /\ answer' = "none"
    /\ status' = [status EXCEPT ![cur] = IF answer = "sent" THEN "forwarded-awaiting-move"
                                                          ELSE "forward-failed"]
    /\ forwarded' = IF answer = "sent" THEN forwarded \cup {cur} ELSE forwarded
    /\ plan' = IF answer = "sent" THEN plan ELSE PlanFor("error")
    /\ UNCHANGED <<place, dest, work, cur, how, history, budget>>

Record ==
    /\ pc = "sent" /\ pc' = "move" /\ answer' = "none"
    /\ \/ /\ answer = "sent"
          /\ status' = [status EXCEPT ![cur] = "forwarded-awaiting-move"]
          /\ forwarded' = forwarded \cup {cur}
          /\ UNCHANGED plan
       \/ /\ answer = "uncertain"
          /\ status' = [status EXCEPT ![cur] = "delivery-uncertain"]
          /\ plan' = [dest |-> "error", status |-> "delivery-uncertain"]
          /\ UNCHANGED forwarded
       \/ /\ answer = "refused"
          /\ status' = [status EXCEPT ![cur] = "forward-failed"]
          /\ plan' = PlanFor("error")
          /\ UNCHANGED forwarded
    /\ UNCHANGED <<place, dest, work, cur, how, history, budget>>

-----------------------------------------------------------------------------
(* One mail: moved, and its row brought up to date. *)

Moves(ok) ==
    /\ place' = [place EXCEPT ![cur] = plan.dest]
    /\ answer' = IF ok THEN "moved" ELSE "failed"
    /\ strayed' = strayed \cup {cur}

Stays == answer' = "failed" /\ UNCHANGED <<place, strayed>>

\* The mail is addressed in the folder it was found in.  The client may fail, and
\* may report a failure of a move that was made.
Move ==
    /\ pc = "move" /\ pc' = IF how = "scan" /\ plan.status # "none" THEN "stamp" ELSE "settle"
    /\ IF place[cur] # Folder THEN Stays /\ UNCHANGED budget
       ELSE \/ Moves(TRUE) /\ UNCHANGED budget
            \/ Moves(FALSE) /\ Fault
            \/ Stays /\ Fault
    /\ mover' = IF place' = place /\ (how = "scan" \/ place[cur] # Folder) THEN mover
                ELSE [mover EXCEPT ![cur] = "agent"]
    /\ UNCHANGED <<rows, work, cur, how, plan, deliveries, touched, restored, slipped, blotted>>

\* A row for the mail that the scanner objects to.
Stamp ==
    /\ pc = "stamp" /\ pc' = "settle"
    /\ status' = [status EXCEPT ![cur] = plan.status]
    /\ blotted' = blotted \cup {cur}
    /\ UNCHANGED <<place, dest, forwarded, work, item, deliveries, mover, touched, restored,
                   slipped, strayed, budget>>

Settled ==
    /\ taken' = taken + 1 /\ cur' = 0 /\ plan' = NoPlan /\ answer' = "none"
    /\ blotted' = IF how = "scan" /\ plan.status # "none" THEN blotted \ {cur} ELSE blotted
    /\ UNCHANGED batch /\ Proceed
    /\ UNCHANGED <<place, forwarded, stage, todo, failed, how,
                   deliveries, mover, touched, restored, slipped, budget>>

\* Mutant: the answer of the move is not looked at.
SettleTrusting ==
    /\ pc = "settle"
    /\ IF plan.status = "none" THEN UNCHANGED <<status, dest>>
       ELSE /\ status' = [status EXCEPT ![cur] = plan.status]
            /\ dest' = [dest EXCEPT ![cur] = plan.dest]
    /\ strayed' = IF answer = "moved" /\ plan.status # "none" THEN strayed \ {cur} ELSE strayed
    /\ Settled

Settle ==
    /\ pc = "settle"
    /\ IF plan.status = "none" THEN UNCHANGED <<status, dest>>
       ELSE /\ status' = [status EXCEPT ![cur] = IF answer = "moved" THEN plan.status ELSE "move-failed"]
            /\ dest' = [dest EXCEPT ![cur] = plan.dest]
    /\ strayed' = IF answer = "moved" /\ plan.status # "none" THEN strayed \ {cur} ELSE strayed
    /\ Settled

-----------------------------------------------------------------------------
(* The surroundings. *)

\* The process ends anywhere; what it held in memory is gone.  The runtime budget
\* and an exception in a mail's handling end a batch the same way.
Crash ==
    /\ pc # "idle" /\ crashes < MaxCrashes
    /\ crashes' = crashes + 1
    /\ pc' = "idle" /\ todo' = {} /\ batch' = {}
    /\ cur' = 0 /\ how' = "batch" /\ plan' = NoPlan /\ answer' = "none"
    /\ UNCHANGED <<place, rows, stage, taken, failed, history, moves, faults>>

\* The user moves a mail: back to the INBOX, into a correction folder, elsewhere.
UserMove(m) ==
    /\ moves < MaxMoves /\ moves' = moves + 1
    /\ \E f \in UserFolders[m] \ {place[m]} :
         /\ place' = [place EXCEPT ![m] = f]
         /\ restored' = IF /\ f = "INBOX"
                           /\ cur # m
                           /\ \/ place[m] = "spam" /\ mover[m] = "agent"
                              \/ place[m] = "quarantine" /\ status[m] = "quarantine-reviewed"
                        THEN restored \cup {m} ELSE restored \ {m}
    /\ mover' = [mover EXCEPT ![m] = "user"]
    /\ touched' = touched \cup {m} /\ blotted' = blotted \ {m}
    /\ UNCHANGED <<rows, pc, work, item, deliveries, slipped, strayed, faults, crashes>>

Agent ==
    \/ Start \/ List \/ ListingEnds \/ Learn \/ Forward \/ Send \/ Record
    \/ Move \/ Stamp \/ Settle
    \/ \E m \in Mails : Missing(m) \/ Blocked(m) \/ Load(m)
                       \/ Keep(m) \/ Sort(m) \/ SortToForward(m)

Next ==
    \/ Agent
    \/ ListError
    \/ \E m \in Mails : LoadError(m) \/ UserMove(m)
    \/ Crash

Spec == Init /\ [][Next]_vars

\* The mail jobs run again and again, and a batch goes on until it ends.
FairSpec == Spec /\ WF_vars(Agent)

-----------------------------------------------------------------------------
(* Properties. *)

Plans == [dest : Folders \cup {"none", "malware"}, status : Statuses]

TypeOK ==
    /\ place \in [Mails -> Places]
    /\ status \in [Mails -> Statuses] /\ dest \in [Mails -> Folders \cup {"none", "malware"}]
    /\ forwarded \subseteq Mails
    /\ pc \in {"idle", "list", "load", "learn", "route", "forward", "send", "sent",
              "move", "stamp", "settle"}
    /\ stage \in DOMAIN Stages /\ todo \subseteq Mails /\ batch \subseteq Mails
    /\ cur \in Mails \cup {0} /\ how \in Corrections \cup {"batch", "restore", "row", "scan"}
    /\ plan \in Plans /\ answer \in {"none", "sent", "uncertain", "refused", "moved", "failed"}
    /\ taken \in 0..Limit /\ failed \in BOOLEAN
    /\ deliveries \in [Mails -> Nat] /\ mover \in [Mails -> {"agent", "user"}]
    /\ {touched, restored, slipped, strayed, blotted} \subseteq SUBSET Mails
    /\ moves \in 0..MaxMoves /\ faults \in 0..MaxFaults /\ crashes \in 0..MaxCrashes

\* From the INBOX no mail is delivered a second time by itself, whatever crashed,
\* failed or was left uncertain in between: only after the user moved it, when the
\* client had reported a failure of a delivery that went out, or when the scanner
\* wrote over the row and the process was killed before the move was recorded
\* (_forward_once, the "forwarding" check of _process_folder and FINAL_STATUSES together).
NoUnaskedResend ==
    [][\A m \in Mails :
         deliveries'[m] > deliveries[m] /\ deliveries[m] > 0 /\ Folder = "INBOX"
           => m \in touched \cup slipped \cup blotted]_vars

\* A mail the user took back from spam or the quarantine into the INBOX, while it was
\* not in work, is not moved to spam again before that was learned as feedback, unless
\* its row never told of the move that brought it there, or the scanner wrote over its
\* row and the process was killed before the move was recorded (_process_folder,
\* "Restoring a message ... is explicit not-spam feedback").
RestoreIsHeard ==
    [][\A m \in Mails :
         place[m] = "INBOX" /\ place'[m] = "spam" /\ mover'[m] = "agent"
           => m \notin restored \/ m \in strayed \cup blotted]_vars

\* What the row of a mail says is where the mail is, unless the user moved it after
\* the agent had: no failed, lost or half-done move leaves a row that claims a folder
\* (_move commits it last).  The scanner moves mails without telling their row.
RecordedIsThere ==
    \A m \in Mails \ {cur} :
      status[m] \in Folders /\ mover[m] = "agent" /\ place[m] \notin {"error", "malware"}
        => place[m] = dest[m] /\ status[m] = StatusFor(dest[m])

\* A mail leaves a correction folder by the agent's hand only for a folder its
\* verdict allows, whatever its row had planned for it before (_process_feedback,
\* "It must override an older failed move").
CorrectionsWin ==
    [][\A m \in Mails :
         place[m] \in Corrections /\ place'[m] # place[m] /\ mover'[m] = "agent"
           => place'[m] \in {"error", "malware"} \cup
                 CASE place[m] = "fix-spam" -> {"spam"}
                   [] place[m] = "fix-routine" -> {"routine", "review"}
                   [] place[m] = "fix-relevant" -> {"relevant", "forwarded", "appointment-review", "routine"}
                   [] OTHER -> Folders \ {"spam"}]_vars

\* The user has the last word about a mail, in whichever way it is said: by taking
\* it back into the INBOX or by putting it into a correction folder.
UserDecides == RestoreIsHeard /\ CorrectionsWin

\* As many newer mails lie before m as a listing of its folder takes.
Crowded(m) == Cardinality({n \in InFolder(place[m]) : n > m}) >= Limit

Unsettled(m) ==
    \/ place[m] \in Corrections
    \/ place[m] = "INBOX" /\ status[m] \notin Final

\* Every mail of the INBOX gets a final row, and every correction is worked off,
\* unless mails that are final already fill the listings before it
\* (_process_folder lists only the newest ones and skips the final ones).
EverythingSettles == \A m \in Mails : <>[]Unsettled(m) => <>[]Crowded(m)
===============================================================================
