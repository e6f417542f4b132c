----------------------------- MODULE MailTools -----------------------------
(***************************************************************************)
(* The mail tools a user drives by hand (adapters/mail.py): drafts that    *)
(* are shown and then sent, mails moved or corrected by their mailbox id,  *)
(* and the quarantine of one infected mail.  Every effect has an action    *)
(* plan; the calls are processes that may overlap, fail or be killed.      *)
(***************************************************************************)
EXTENDS Integers, FiniteSets

CONSTANTS
  Letters,        \* the mails of the folder the tools look at
  Alike,          \* those of them that share one subject
  Infected,       \* the mail the index run found infected
  Slots,          \* the mailbox ids
  Callers,        \* processes that run a tool
  MaxMishaps,     \* bound on failures, kills and renumberings
  MaxCalls,       \* bound on the calls that get as far as a plan
  MaxDrafts       \* bound on the drafts

VARIABLES
  folder,         \* mailbox id -> the mail under it, 0 for none
  plans,          \* the action plans: key -> status
  callers,        \* what each process is doing
  done,           \* key -> how often its effect was tried on the server
  met,            \* keys two processes worked on at the same time
  taken,          \* effects: which mail went out or was moved for which key
  calls, mishaps

toolVars == <<folder, plans, callers, done, met, taken, calls, mishaps>>

Sends == {"letter", "reply", "forward"}

OneShot == Sends \cup {"correct"}

Subject(x) == IF x \in Alike THEN 0 ELSE x

\* What the plan's idempotency key is made of: the mailbox id and either the
\* subject or the exact content that was shown.
Key(kind, id, x) ==
  [kind |-> kind, id |-> id,
   of |-> IF kind \in {"forward", "quarantine"} THEN x ELSE Subject(x)]

Nobody == [at |-> "idle"]

Busy(c) == callers[c].at # "idle"

\* create_action inserts the plan only when its key is new.
Created(k) ==
  [q \in DOMAIN plans \cup {k} |-> IF q \in DOMAIN plans THEN plans[q] ELSE "proposed"]

At(c, place) == Busy(c) /\ callers[c].at = place

Goes(c, place) == callers' = [callers EXCEPT ![c].at = place]

Leaves(c) == callers' = [callers EXCEPT ![c] = Nobody]

Starts(c, k, place, x) ==
  /\ calls < MaxCalls
  /\ calls' = calls + 1
  /\ callers' = [callers EXCEPT ![c] = [at |-> place, key |-> k, mail |-> x,
                                        ended |-> "none", shifted |-> FALSE]]
  /\ met' = IF \E d \in Callers \ {c} : Busy(d) /\ callers[d].key = k
            THEN met \cup {k} ELSE met

Settles(c, s) == plans' = [plans EXCEPT ![callers[c].key] = s]

Mishap == mishaps < MaxMishaps /\ mishaps' = mishaps + 1

Init ==
  /\ folder = [s \in Slots |-> IF s \in Letters THEN s ELSE 0]
  /\ plans = [k \in {} |-> "none"]
  /\ callers = [c \in Callers |-> Nobody]
  /\ done = [k \in {} |-> 0]
  /\ met = {} /\ taken = {} /\ calls = 0 /\ mishaps = 0

-----------------------------------------------------------------------------
\* A draft only stores a plan; what is drafted again is the same plan.
Draft(k) ==
  /\ k \notin DOMAIN plans
  /\ Cardinality({q \in DOMAIN plans : q.kind \in Sends}) < MaxDrafts
  /\ plans' = Created(k)
  /\ UNCHANGED <<folder, callers, done, met, taken, calls, mishaps>>

DraftMessage == Draft([kind |-> "letter", id |-> 0, of |-> 0])

\* A reply and a forward read the mail under the id first.
DraftReply(s) == folder[s] # 0 /\ Draft(Key("reply", s, folder[s]))

DraftForward(s) == folder[s] # 0 /\ Draft(Key("forward", s, folder[s]))

\* A draft may be sent while its plan is proposed; a completed one is a
\* duplicate and every other status is refused.
Sendable(status) == status = "proposed"

SendDraft(c, k) ==
  /\ ~Busy(c) /\ k.kind \in Sends /\ Sendable(plans[k])
  /\ Starts(c, k, IF k.kind = "forward" THEN "reread" ELSE "approve", 0)
  /\ UNCHANGED <<folder, plans, done, taken, mishaps>>

\* The mail under the id must still be the one the plan was made for: its
\* hash is compared, not only its subject.
StillTheSame(k, x) == x # 0 /\ x = k.of

Reread(c) ==
  /\ At(c, "reread")
  /\ LET k == callers[c].key  x == folder[k.id] IN
     \/ /\ StillTheSame(k, x)
        /\ callers' = [callers EXCEPT ![c].at = "approve", ![c].mail = x]
        /\ UNCHANGED <<plans, mishaps>>
     \/ /\ \/ ~StillTheSame(k, x) /\ UNCHANGED mishaps
           \/ Mishap
        /\ Settles(c, "failed") /\ Leaves(c)
  /\ UNCHANGED <<folder, done, met, taken, calls>>

Approve(c) ==
  /\ At(c, "approve")
  /\ Settles(c, "approved")
  /\ Goes(c, IF callers[c].key.kind = "quarantine" THEN "verify" ELSE "go")
  /\ UNCHANGED <<folder, done, met, taken, calls, mishaps>>

\* move and review_correct read the mail under the id, then look at the plan.
Look(c, kind, s) ==
  /\ ~Busy(c) /\ folder[s] # 0
  /\ Starts(c, Key(kind, s, folder[s]), "plan", folder[s])
  /\ UNCHANGED <<folder, plans, done, taken, mishaps>>

Move(c, s) == Look(c, "move", s)

ReviewCorrect(c, s) == Look(c, "correct", s)

\* The candidates come from the checkpoint of the index run.
LookInfected(c) ==
  /\ ~Busy(c) /\ Infected \in Letters
  /\ Starts(c, Key("quarantine", Infected, Infected), "plan", Infected)
  /\ UNCHANGED <<folder, plans, done, taken, mishaps>>

\* A correction runs once; a move or a quarantine that failed runs again.
Runs(k, status) ==
  IF k.kind = "correct" THEN status = "proposed" ELSE status # "completed"

TakePlan(c) ==
  /\ At(c, "plan")
  /\ LET k == callers[c].key  s == Created(k)[k] IN
     /\ plans' = Created(k)
     /\ IF ~Runs(k, s) THEN Leaves(c)
        ELSE IF s = "proposed" \/ (k.kind = "quarantine" /\ s = "failed")
        THEN Goes(c, "approve")
        ELSE Goes(c, IF k.kind = "quarantine" THEN "verify" ELSE "go")
  /\ UNCHANGED <<folder, done, met, taken, calls, mishaps>>

\* move --dry-run approves its plan and stops there.
StopDry(c) ==
  /\ At(c, "go") /\ callers[c].key.kind = "move"
  /\ Leaves(c)
  /\ UNCHANGED <<folder, plans, done, met, taken, calls, mishaps>>

\* The quarantine holds the mail lock, exports the mail again, compares its
\* hash and scans it before it is moved.
Locked(c) ==
  \E d \in Callers \ {c} : At(d, "go") /\ callers[d].key.kind = "quarantine"

Verify(c) ==
  /\ At(c, "verify")
  /\ LET k == callers[c].key  x == folder[k.id]  good == StillTheSame(k, x) /\ ~Locked(c)
     IN \/ /\ good
           /\ callers' = [callers EXCEPT ![c].at = "go", ![c].mail = x, ![c].shifted = FALSE]
           /\ UNCHANGED <<plans, mishaps>>
        \/ /\ \/ ~good /\ UNCHANGED mishaps
              \/ Mishap
           /\ Settles(c, "failed") /\ Leaves(c)
  /\ UNCHANGED <<folder, done, met, taken, calls>>

Count(k) == [q \in DOMAIN done \cup {k} |->
               (IF q \in DOMAIN done THEN done[q] ELSE 0) + IF q = k THEN 1 ELSE 0]

\* send_template, or move_message by the mailbox id: the server may have done
\* it although the call reports a failure.
Execute(c) ==
  /\ At(c, "go")
  /\ LET k == callers[c].key
         x == IF k.kind \in Sends THEN callers[c].mail ELSE folder[k.id]
     IN \E worked \in BOOLEAN, said \in BOOLEAN :
          /\ IF worked /\ said THEN UNCHANGED mishaps ELSE ~(said /\ ~worked) /\ Mishap
          /\ done' = Count(k)
          /\ folder' = IF worked /\ k.kind \notin Sends THEN [folder EXCEPT ![k.id] = 0]
                       ELSE folder
          /\ taken' = IF worked /\ ~(k.kind \notin Sends /\ x = 0)
                      THEN taken \cup {[key |-> k, mail |-> x, shifted |-> callers[c].shifted]}
                      ELSE taken
          /\ callers' = [callers EXCEPT ![c].at = "record",
                                        ![c].ended = IF said THEN "completed" ELSE "failed"]
  /\ UNCHANGED <<plans, met, calls>>

Record(c) ==
  /\ At(c, "record")
  /\ Settles(c, callers[c].ended) /\ Leaves(c)
  /\ UNCHANGED <<folder, done, met, taken, calls, mishaps>>

\* The process is killed, or an exception leaves the call.
Killed(c) ==
  /\ Busy(c) /\ Mishap /\ Leaves(c)
  /\ UNCHANGED <<folder, plans, done, met, taken, calls>>

-----------------------------------------------------------------------------
\* The server gives the mails of the folder other ids (a new UIDVALIDITY).
Renumber ==
  /\ Mishap
  /\ \E s, t \in Slots :
       /\ s # t /\ folder[s] # folder[t]
       /\ folder' = [folder EXCEPT ![s] = folder[t], ![t] = folder[s]]
  /\ callers' = [c \in Callers |->
                   IF Busy(c) THEN [callers[c] EXCEPT !.shifted = TRUE] ELSE Nobody]
  /\ UNCHANGED <<plans, done, met, taken, calls>>

Call(c) ==
  \/ \E k \in DOMAIN plans : SendDraft(c, k)
  \/ \E s \in Slots : Move(c, s) \/ ReviewCorrect(c, s)
  \/ LookInfected(c) \/ TakePlan(c) \/ StopDry(c) \/ Reread(c) \/ Approve(c)
  \/ Verify(c) \/ Execute(c) \/ Record(c) \/ Killed(c)

Next ==
  \/ DraftMessage
  \/ \E s \in Slots : DraftReply(s) \/ DraftForward(s)
  \/ \E c \in Callers : Call(c)
  \/ Renumber

Spec == Init /\ [][Next]_toolVars

-----------------------------------------------------------------------------
\* A draft that was approved is handed to the mail server at most once, and a
\* correction is tried at most once, whatever fails, is killed or is called
\* again; only two calls that worked on the same plan at the same time can do
\* it twice, because the status is read and written in two transactions.
TriedOnce == \A k \in DOMAIN done : k.kind \in OneShot /\ done[k] > 1 => k \in met

\* What goes out with a forward, and what is put into quarantine, is the very
\* mail that was shown or found infected, even when its mailbox id has come to
\* name another mail with the same subject; the quarantine leaves the instant
\* between its comparison and the move to the server.
MeantIsTaken ==
  \A t \in taken : t.key.kind \in {"forward", "quarantine"}
                     => t.mail = t.key.of \/ (t.key.kind = "quarantine" /\ t.shifted)
=============================================================================
