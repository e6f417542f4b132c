--------------------------- MODULE Classification ---------------------------
(***************************************************************************)
(* How a batch of mails gets its categories: rules and corrections first   *)
(* (rules.py, storage.py), then the language model, several mails to a     *)
(* request and several requests at a time, with bounded retries, splits    *)
(* and a deadline for the whole run (classifier.py).                       *)
(***************************************************************************)
EXTENDS Integers, FiniteSets, SequencesExt

CONSTANTS
  Post,           \* sequence: the mails to classify, as records of their traits [list,
                  \*   contact, bounce, promo, invite, receipt, heavy, restored, opinion]
  OldMails,       \* earlier mails with the same sender and subject pattern
  BatchSize, MaxDepth,
  QueueTime, BatchTime, SingleTime, RetryTime, Margin,
  LeastLeft, LeastTime,
  Deadline        \* time is counted in units of half a minute

VARIABLES
  feedback,       \* earlier mail -> the user's verdict, "" for none
  reached,        \* the mails whose sender was found in the address book
  phase,          \* "corrected", "asking", "done" or "stopped"
  contexts,       \* position -> what the rules said of the mail
  calls,          \* requests to the model that are still open
  results,        \* position -> the model's category, "" for none yet
  clock

classifierVars == <<feedback, reached, phase, contexts, calls, results, clock>>

Positions == 1..Len(Post)

Lesser(a, b) == IF a < b THEN a ELSE b

Greater(a, b) == IF a > b THEN a ELSE b

-----------------------------------------------------------------------------
(* The user's corrections.                                                 *)

Verdicts == {"spam", "routine", "relevant", "not_spam"}

HowMany(v) == Cardinality({o \in OldMails : feedback[o] = v})

Categories == {v \in Verdicts \ {"not_spam"} : HowMany(v) > 0}

\* One verdict for the pattern, none when they contradict each other; a
\* correction as no spam only takes spam away.
PatternVerdict ==
  IF Categories = {"spam"} /\ HowMany("not_spam") > 0 THEN "not_spam"
  ELSE IF Cardinality(Categories) = 1 THEN CHOOSE v \in Categories : TRUE
  ELSE IF Categories = {} /\ HowMany("not_spam") > 0 THEN "not_spam"
  ELSE ""

Context(forced, prevent, important) ==
  [forced |-> forced, prevent |-> prevent, important |-> important]

Important(x) == Context(IF x.invite THEN "appointment" ELSE "", TRUE, TRUE)

\* RuleEngine.evaluate: the first rule that fits decides.  A sender is known when
\* the address book tells so.
Evaluate(x, known) ==
  LET v == PatternVerdict
      sure == v # "" /\ HowMany(v) >= 2
      kept == HowMany("not_spam") > 0
  IN IF v = "spam" /\ sure THEN Context("spam", FALSE, FALSE)
     ELSE IF v = "routine" /\ sure THEN Context("routine", TRUE, FALSE)
     ELSE IF v = "relevant" \/ x.list = "important" THEN Important(x)
     ELSE IF x.list = "spam" /\ ~kept THEN Context("spam", FALSE, FALSE)
     ELSE IF x.list = "routine" THEN Context("routine", TRUE, FALSE)
     ELSE IF x.bounce THEN Context("relevant", TRUE, FALSE)
     ELSE IF x.promo /\ ~kept /\ ~known THEN Context("spam", FALSE, FALSE)
     ELSE IF x.receipt /\ ~x.invite THEN Context("routine", TRUE, FALSE)
     ELSE Context("", kept \/ known, FALSE)

\* A mail the user put back into the inbox is never forced to be spam.
RuleContext(x, known) ==
  LET c == Evaluate(x, known) IN
  IF ~x.restored THEN c
  ELSE [c EXCEPT !.prevent = TRUE, !.forced = IF @ = "spam" THEN "" ELSE @]

Fallback(c) == IF c.important THEN "relevant" ELSE "uncertain"

\* What the model said, under what the rules know.
ApplyContext(c, said) ==
  IF c.important THEN (IF said = "appointment" THEN said ELSE "relevant")
  ELSE IF c.prevent /\ said = "spam" THEN "uncertain"
  ELSE said

-----------------------------------------------------------------------------
(* The groups that are sent in one request.                                *)

\* the mails no rule has decided, in their order
OpenIn(rules) == SelectSeq([i \in Positions |-> i], LAMBDA i : rules[i].forced = "")

Weight(i) == IF Post[i].heavy THEN 2 ELSE 1

Full(g) == Len(g) >= BatchSize

Overfull(g, i) ==
  \/ Full(g) \/ Post[i].invite
  \/ \E n \in DOMAIN g : Weight(g[n]) + Weight(i) > 3

\* the groups, the last one possibly unfinished, with one more mail
Grouped(groups, i) ==
  LET last == groups[Len(groups)]
  IN IF last = <<>> THEN <<<<i>>>>
     ELSE IF Overfull(last, i) \/ Post[last[1]].invite THEN Append(groups, <<i>>)
     ELSE Append(SubSeq(groups, 1, Len(groups) - 1), Append(last, i))

ModelGroups(rules) ==
  LET groups == FoldLeft(Grouped, <<<<>>>>, OpenIn(rules))
  IN {groups[k] : k \in DOMAIN groups} \ {<<>>}

-----------------------------------------------------------------------------
(* One request.                                                            *)

\* Mutant: the model's time is cut to what is left, the queue's is not.
QueueUncut(wanted, available) ==
  <<QueueTime, Lesser(wanted, available)>>

\* The time in the queue and the model's time, cut to what the run has left.
Timeouts(wanted, available) ==
  IF QueueTime + wanted <= available THEN <<QueueTime, wanted>>
  ELSE LET q == Lesser(QueueTime, Greater(1, available \div 3))
       IN <<q, Lesser(wanted, available - q)>>

Wanted(c) == IF c.depth > 0 THEN RetryTime
             ELSE IF Len(c.group) = 1 THEN SingleTime ELSE BatchTime

NewCall(g, depth) ==
  [group |-> g, depth |-> depth, sent |-> FALSE, tries |-> 0, mode |-> "schema",
   json |-> FALSE, longer |-> FALSE, takes |-> 0, until |-> 0]

Becomes(c, new) == calls' = (calls \ {c}) \cup new

\* _request_timeouts looks at the clock once, before the first attempt.
Send(c) ==
  /\ phase = "asking" /\ ~c.sent
  /\ LET available == Deadline - clock - Margin
         t == Timeouts(Wanted(c), available)
     IN IF available < LeastLeft \/ t[2] < LeastTime
        THEN /\ phase' = "stopped" /\ calls' = {}
        ELSE /\ Becomes(c, {[c EXCEPT !.sent = TRUE, !.tries = 1,
                                      !.takes = t[1] + t[2] + Margin,
                                      !.until = clock + t[1] + t[2] + Margin]})
             /\ UNCHANGED phase
  /\ UNCHANGED <<feedback, reached, contexts, results, clock>>

Again(c, mode) ==
  [c EXCEPT !.tries = @ + 1, !.mode = mode, !.until = clock + c.takes,
            !.json = @ \/ mode = "json", !.longer = @ \/ mode = "schema"]

Settled(c, f) == results' = [i \in Positions |->
                               IF \E n \in DOMAIN c.group : c.group[n] = i THEN f[i] ELSE results[i]]

GivesUp(c) ==
  /\ Becomes(c, {})
  /\ Settled(c, [i \in Positions |-> Fallback(contexts[i])])

\* A group that failed is asked again in halves, to a bounded depth.
Splits(c) ==
  LET half == Len(c.group) \div 2 IN
  /\ Becomes(c, {NewCall(SubSeq(c.group, 1, half), c.depth + 1),
                 NewCall(SubSeq(c.group, half + 1, Len(c.group)), c.depth + 1)})
  /\ UNCHANGED results

SplitsOrGivesUp(c) ==
  IF Len(c.group) > 1 /\ c.depth < MaxDepth THEN Splits(c) ELSE GivesUp(c)

Answering(c) == phase = "asking" /\ c.sent

\* The entries are put to the mails by their local number.
ByNumber(c, answer) ==
  [i \in Positions |->
     IF \E n \in DOMAIN answer : c.group[answer[n]] = i
     THEN Post[c.group[answer[CHOOSE n \in DOMAIN answer : c.group[answer[n]] = i]]].opinion
     ELSE ""]

\* The answer names every mail once, in any order.
Orders(n) == {o \in [1..n -> 1..n] : \A i, j \in 1..n : i # j => o[i] # o[j]}

Answered(c) ==
  /\ Answering(c)
  /\ \E answer \in Orders(Len(c.group)) : Settled(c, ByNumber(c, answer))
  /\ Becomes(c, {})
  /\ UNCHANGED <<feedback, reached, contexts, phase, clock>>

\* The answer leaves a mail out, names one twice or one that was not asked.
Misnumbered(c) ==
  /\ Answering(c) /\ Len(c.group) > 1
  /\ SplitsOrGivesUp(c)
  /\ UNCHANGED <<feedback, reached, contexts, phase, clock>>

\* Cut at the token limit: one longer try for a single mail, otherwise halves.
CutOff(c) ==
  /\ Answering(c)
  /\ IF Len(c.group) = 1 /\ ~c.longer THEN Becomes(c, {Again(c, "schema")}) /\ UNCHANGED results
     ELSE SplitsOrGivesUp(c)
  /\ UNCHANGED <<feedback, reached, contexts, phase, clock>>

\* Not JSON, or the schema is refused: one try without the schema.
Unreadable(c) ==
  /\ Answering(c)
  /\ IF c.mode = "schema" /\ ~c.json THEN Becomes(c, {Again(c, "json")}) /\ UNCHANGED results
     ELSE SplitsOrGivesUp(c)
  /\ UNCHANGED <<feedback, reached, contexts, phase, clock>>

\* The gate's queue was too long, or nobody listens: no retry at all.
Refused(c) == Answering(c) /\ GivesUp(c) /\ UNCHANGED <<feedback, reached, contexts, phase, clock>>

\* The model took too long.
TimedOut(c) ==
  /\ Answering(c)
  /\ IF Len(c.group) > 1 THEN SplitsOrGivesUp(c) ELSE GivesUp(c)
  /\ UNCHANGED <<feedback, reached, contexts, phase, clock>>

\* No attempt outlives its own limit.
Tick ==
  /\ phase = "asking" /\ \E c \in calls : c.sent
  /\ \A c \in calls : c.sent => clock < c.until
  /\ clock' = clock + 1
  /\ UNCHANGED <<feedback, reached, phase, contexts, calls, results>>

-----------------------------------------------------------------------------
Init ==
  /\ feedback = [o \in OldMails |-> ""]
  /\ phase = "corrected" /\ calls = {} /\ reached = {}
  /\ contexts = [i \in Positions |-> Context("", FALSE, FALSE)]
  /\ results = [i \in Positions |-> ""]
  /\ clock = 0

\* The last correction of a mail is its only one.
RecordFeedback(o, v) ==
  /\ phase = "corrected" /\ feedback[o] = ""
  /\ \A p \in OldMails : p < o => feedback[p] # ""
  /\ feedback' = [feedback EXCEPT ![o] = v]
  /\ UNCHANGED <<reached, phase, contexts, calls, results, clock>>

\* The sender of a mail is looked up when no earlier rule decides, and an
\* address book that cannot be reached knows nobody.
ClassifyMany ==
  /\ phase = "corrected"
  /\ phase' = "asking"
  /\ \E known \in SUBSET {i \in Positions : Post[i].contact} :
       LET rules == [i \in Positions |-> RuleContext(Post[i], i \in known)]
       IN /\ reached' = known
          /\ contexts' = rules
          /\ calls' = {NewCall(g, 0) : g \in ModelGroups(rules)}
  /\ UNCHANGED <<feedback, results, clock>>

Finish ==
  /\ phase = "asking" /\ calls = {}
  /\ phase' = "done"
  /\ UNCHANGED <<feedback, reached, contexts, calls, results, clock>>

Next ==
  \/ \E o \in OldMails, v \in Verdicts : RecordFeedback(o, v)
  \/ ClassifyMany \/ Finish \/ Tick
  \/ \E c \in calls : \/ Send(c) \/ Answered(c) \/ Misnumbered(c) \/ CutOff(c)
                      \/ Unreadable(c) \/ Refused(c) \/ TimedOut(c)

Spec == Init /\ [][Next]_classifierVars

-----------------------------------------------------------------------------
Final(i) ==
  IF contexts[i].forced # "" THEN contexts[i].forced ELSE ApplyContext(contexts[i], results[i])

\* However the requests are grouped, split, retried, answered in another
\* order or interleaved, every mail ends with the category the model gave to
\* this very mail or with the safe one for a model that did not answer.
EachItsOwn ==
  phase = "done" =>
    \A i \in Positions :
      contexts[i].forced = "" =>
        results[i] \in {Post[i].opinion, Fallback(contexts[i])}

\* No mail is spam against the user: not after it was put back or any mail of
\* its pattern was corrected as no spam; without two corrections that agree not
\* from an important sender and, on the model's word or for advertising, neither
\* from a contact the address book told of nor when it says that a mail of the
\* user's was not delivered.
NoSpamAgainstTheUser ==
  phase = "done" =>
    \A i \in Positions : Final(i) = "spam" =>
      /\ ~Post[i].restored /\ HowMany("not_spam") = 0
      /\ \/ HowMany("spam") >= 2 /\ Categories = {"spam"}
         \/ Post[i].list = "spam"
         \/ Post[i].list # "important" /\ i \notin reached /\ ~Post[i].bounce

\* Of every step: a run goes past its deadline only in a request that is being tried again:
\* the limits are cut to the time left before the first attempt, and the
\* retries for a cut or unreadable answer are given the same limits anew.
FirstTryInTime ==
  clock' > clock /\ clock' > Deadline => \E c \in calls : c.tries > 1
=============================================================================
