---------------------------- MODULE LearningQuality ----------------------------
(***************************************************************************)
(* What is learnt from the user's corrections of the mail agent, and how it  *)
(* is measured: the snapshots of decisions and the feedback rows             *)
(* (mail_agent/storage.py), the report over them (learning_quality.py), and   *)
(* the gate over the newer subject patterns that the report opens or closes.  *)
(***************************************************************************)
EXTENDS Integers, Sequences, FiniteSets, SequencesExt

CONSTANTS
    Post,           \* mail: [sender, thread, pattern], the pattern by version; 0 is none
    Mails,          \* numbers of mail, DOMAIN Post
    Guesses,        \* categories the agent comes to
    MaxDecisions,   \* bound: classifications of the agent
    MaxCorrections  \* bound: what the user corrects and takes back

Categories == {"spam", "routine", "relevant"}
Verdicts == Categories \cup {"not_spam"}
None == "abstain"

\* The empty sender, thread or pattern, which groups nothing.
NoGroup == 0

VARIABLES
    feedback,       \* rows in the order of their ids: [id, mail, verdict, original]
    snapshots,      \* the first decision of each mail, as a category
    ids,            \* ids given to feedback rows so far (AUTOINCREMENT)
    cached,         \* the gate that was computed last: [key, allowed]
    history         \* decisions and corrections so far, and the mails corrected before they were decided

vars == <<feedback, snapshots, ids, cached, history>>

Init ==
    /\ feedback = <<>> /\ ids = 0
    /\ snapshots = [m \in Mails |-> None]
    /\ cached = [key |-> <<-1, -1>>, allowed |-> FALSE]
    /\ history = [decisions |-> 0, corrections |-> 0, corrected |-> {}, late |-> {}]

-----------------------------------------------------------------------------
(* Predictions from older corrections *)

\* The verdicts in these rows, which are older ones on mail that is alike.
Older(rows, alike) == [v \in Categories |-> Cardinality({j \in alike : rows[j].verdict = v})]

Seen(counts) == {v \in Categories : counts[v] > 0}
Only(counts) == CHOOSE v \in Seen(counts) : TRUE

\* _safe_pattern_prediction: one relevant, or two of another verdict, and no conflict.
Safe(counts) ==
    IF Cardinality(Seen(counts)) = 1 /\ counts[Only(counts)] >= (IF Only(counts) = "relevant" THEN 1 ELSE 2)
    THEN Only(counts) ELSE None

\* _consistent_prediction: two, and no conflict.
Consistent(counts) ==
    IF Cardinality(Seen(counts)) = 1 /\ counts[Only(counts)] >= 2 THEN Only(counts) ELSE None

Rated(rows) == SelectSeq(rows, LAMBDA r : r.verdict \in Categories)

Grouped(m, version) == Post[m].sender # NoGroup /\ Post[m].pattern[version] # NoGroup

\* _pattern_metrics: what the walk forward predicts for each row.
ByPattern(rows, version) ==
    [i \in DOMAIN rows |->
        Safe(Older(rows, {j \in 1..(i - 1) :
                            /\ Grouped(rows[i].mail, version)
                            /\ Post[rows[j].mail].sender = Post[rows[i].mail].sender
                            /\ Post[rows[j].mail].pattern[version] = Post[rows[i].mail].pattern[version]}))]

\* PredictorMetrics.observe: the two errors that count for safety.
Missed(rows, predicted) ==
    Cardinality({i \in DOMAIN rows : rows[i].verdict = "relevant" /\ predicted[i] \in {"spam", "routine"}})
Risky(rows, predicted) ==
    Cardinality({i \in DOMAIN rows : rows[i].verdict = "spam" /\ predicted[i] = "relevant"})

\* The activation gate: version 2 is worse in neither.
Allowed(rows) ==
    LET old == ByPattern(rows, 1)
        new == ByPattern(rows, 2)
    IN Missed(rows, new) =< Missed(rows, old) /\ Risky(rows, new) =< Risky(rows, old)

-----------------------------------------------------------------------------
(* The chronological holdout *)

Eligible(rows) == SelectSeq(rows, LAMBDA r : r.original # None)
Larger(a, b) == IF a > b THEN a ELSE b
Cutoff(n) == Larger(1, IF n - 1 < (n * 7) \div 10 THEN n - 1 ELSE (n * 7) \div 10)
Before(rows) == SubSeq(rows, 1, Cutoff(Len(rows)))
After(rows) == SubSeq(rows, Cutoff(Len(rows)) + 1, Len(rows))

SendersOf(rows) == {Post[rows[i].mail].sender : i \in DOMAIN rows}
ThreadsOf(rows) == {Post[rows[i].mail].thread : i \in DOMAIN rows}

\* Rows of a sender or a thread on both sides of the cut are left out.
Purged(part, rows) ==
    LET senders == (SendersOf(Before(rows)) \cap SendersOf(After(rows))) \ {NoGroup}
        threads == (ThreadsOf(Before(rows)) \cap ThreadsOf(After(rows))) \ {NoGroup}
    IN SelectSeq(part, LAMBDA r : Post[r.mail].sender \notin senders /\ Post[r.mail].thread \notin threads)

Train(rows) == Purged(Before(rows), rows)
Evaluation(rows) == Purged(After(rows), rows)

\* What the senders of the training part predict for the rest.
BySender(rows) ==
    LET all == Train(rows) \o Evaluation(rows)
        n == Len(Train(rows))
    IN [i \in 1..Len(Evaluation(rows)) |->
            Consistent(Older(all, {j \in 1..n : Post[all[j].mail].sender \in
                                                {Post[Evaluation(rows)[i].mail].sender} \ {NoGroup}}))]

-----------------------------------------------------------------------------
(* Decisions and corrections *)

\* upsert_message with a classification: the first one of a mail is its snapshot.
Decide(m) ==
    /\ history.decisions < MaxDecisions /\ m \notin history.corrected
    /\ \E category \in Guesses :
        /\ snapshots' = [snapshots EXCEPT ![m] = IF @ = None THEN category ELSE @]
        /\ history' = [history EXCEPT !.decisions = @ + 1]
    /\ UNCHANGED <<feedback, ids, cached>>

\* The decision a correction is bound to: the one it was bound to before, or
\* the snapshot of the mail.
Original(m) ==
    LET earlier == {i \in DOMAIN feedback : feedback[i].mail = m /\ feedback[i].original # None}
    IN IF earlier # {} THEN feedback[CHOOSE i \in earlier : TRUE].original ELSE snapshots[m]

\* Mutant: a number that is free again is given again (no AUTOINCREMENT).
NumberReused(m) ==
    LET others == {feedback[i].id : i \in {i \in DOMAIN feedback : feedback[i].mail # m}}
    IN IF others = {} THEN 1 ELSE 1 + (CHOOSE n \in others : \A k \in others : k =< n)

NumberFor(m) == ids + 1

\* record_feedback: the mail's older row is deleted, the new one is the newest.
Recorded(m, verdict) ==
    LET row == [id |-> NumberFor(m), mail |-> m, verdict |-> verdict, original |-> Original(m)]
    IN SortSeq(Append(SelectSeq(feedback, LAMBDA r : r.mail # m), row), LAMBDA a, b : a.id < b.id)

\* A mail in a correction folder, or back in the INBOX: the feedback is recorded,
\* and the mail is routed by a classification that comes from it.
Correct(m) ==
    /\ history.corrections < MaxCorrections
    /\ \E verdict \in Verdicts, other \in Guesses :
        /\ feedback' = Recorded(m, verdict)
        /\ ids' = IF NumberFor(m) > ids THEN NumberFor(m) ELSE ids
        /\ snapshots' = [snapshots EXCEPT ![m] = IF @ # None THEN @
                                                 ELSE IF verdict = "not_spam" THEN other ELSE verdict]
        /\ history' = [history EXCEPT !.corrections = @ + 1, !.corrected = @ \cup {m},
                                      !.late = IF snapshots[m] = None THEN @ \cup {m} ELSE @]
    /\ UNCHANGED cached

\* The rows the user takes back: one, or all of a sender.
Chosen == {{i} : i \in DOMAIN feedback}
            \cup {{i \in DOMAIN feedback : Post[feedback[i].mail].sender = s} :
                     s \in SendersOf(feedback) \ {NoGroup}}

\* delete_feedback_by_id, delete_feedback_for_sender: the rows go, the snapshots stay.
Forget ==
    /\ history.corrections < MaxCorrections
    /\ \E rows \in Chosen :
        feedback' = SelectSeq(feedback, LAMBDA r : \A i \in rows : feedback[i] # r)
    /\ history' = [history EXCEPT !.corrections = @ + 1]
    /\ UNCHANGED <<snapshots, ids, cached>>

\* pattern_activation_status: computed again when the count or the newest id changed.
Key == <<Len(feedback), IF feedback = <<>> THEN 0 ELSE feedback[Len(feedback)].id>>

AskGate ==
    /\ cached.key # Key
    /\ cached' = [key |-> Key, allowed |-> Allowed(Rated(feedback))]
    /\ UNCHANGED <<feedback, snapshots, ids, history>>

Next == AskGate \/ Forget \/ \E m \in Mails : Decide(m) \/ Correct(m)

Spec == Init /\ [][Next]_vars

-----------------------------------------------------------------------------
(***************************************************************************)
(* Whenever the cached gate is used, it is the one the report would give     *)
(* now: no corrections, and no rows taken back, lead to other rows with the   *)
(* same number and the same newest id.                                       *)
(***************************************************************************)
GateIsCurrent == cached.key = Key => cached.allowed = Allowed(Rated(feedback))

(***************************************************************************)
(* No known sender or thread is on both sides of the holdout, and everything   *)
(* that trains is older than everything that is tested.  As every sender of  *)
(* the later part is unknown to the earlier one, what was learnt by sender is *)
(* never put to the test: it abstains on every row.                           *)
(***************************************************************************)
HoldoutIsClean ==
    LET rows == Eligible(Rated(feedback))
    IN Len(rows) >= 2 =>
        /\ SendersOf(Train(rows)) \cap SendersOf(Evaluation(rows)) \subseteq {NoGroup}
        /\ ThreadsOf(Train(rows)) \cap ThreadsOf(Evaluation(rows)) \subseteq {NoGroup}
        /\ \A i \in DOMAIN Train(rows), j \in DOMAIN Evaluation(rows) : Train(rows)[i].id < Evaluation(rows)[j].id
        /\ \A i \in DOMAIN BySender(rows) : BySender(rows)[i] = None

(***************************************************************************)
(* "Original decisions are measured only from immutable snapshots captured   *)
(* before a user correction."  The code does not keep it for a mail whose    *)
(* first correction came before its snapshot.                                *)
(***************************************************************************)
OriginalsComeFirst == \A i \in DOMAIN feedback : feedback[i].original # None => feedback[i].mail \notin history.late
=============================================================================
