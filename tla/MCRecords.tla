------------------------------ MODULE MCRecords ------------------------------
(***************************************************************************)
(* What the assistant keeps for its user, checked in one run: the approval   *)
(* mails of appointments (CalendarMail), invoices (InvoiceExtract, Invoices),*)
(* orders, the depot (Portfolio), the classification of mail and what it     *)
(* learns (Classification, LearningQuality), and the agreement to what it    *)
(* does (ActionObligation).  They share no state here, and a behaviour is    *)
(* one of one of them: the first state says of which.                        *)
(***************************************************************************)
EXTENDS CalendarMail, Integers, FiniteSetsExt, SequencesExt

CONSTANTS
    Layers, Pages, MaxPages, LongestPaper,                                  \* InvoiceExtract
    Years, Proposed, Applies, MaxStarts, MaxHitches,                        \* Invoices
    OrderMails, MaxRuns, MaxFaults, MaxCardEdits,                           \* Orders
    Isins, Alarmed, Listings, Abroad, Snapshots, MaxRefreshes, MaxTroubles, \* Portfolio
    Corrected, Guesses, MaxDecisions, MaxCorrections,                       \* LearningQuality
    Flights, Earlier, Prompts, Writes, MaxTurns, MaxBound, MaxToolCalls, MaxSlips \* ActionObligation

\* No version is 0, which stands for none; what is proposed for an order is one of the
\* nine entries of STACKS (orders.py); no operation both reads and writes; and what is
\* proposed for an invoice is a year.
ASSUME RecordsAssumption ==
    /\ 0 \notin Versions
    /\ \A mail \in OrderMails : mail.proposed \in 0..8
    /\ Writes \cap {"search", "read", "preview"} = {}
    /\ Years \subseteq Nat /\ Proposed \in Years

VARIABLES
    turn,       \* which of the components the behaviour is about
    paper, extract,
    invoice, audit, registers, clerk, issued, basis, starts, hitches,
    orders, latest, events, cards, desk, collided, runs, faults, edits,
    listing, imported, watchlist, quotes, rate, quoteRun, rule, refresher, valuer, alarms,
    refreshes, upsets,
    feedback, reached, phase, contexts, calls, results, clock,
    corrections, snapshots, ids, cached, history,
    entered, turns, bound, ledger, pending, slips

(* Text layers and pages of an invoice that are whole, that lack one thing, or *)
(* that say something twice.                                                 *)
Dated(v, label, near) == [value |-> <<v>>, label |-> label, near |-> near, odd |-> FALSE]
Money(role, value, currency) == [role |-> role, value |-> value, currency |-> currency, near |-> FALSE]
Named(label, v) == [label |-> label, value |-> <<v>>]
Number == [value |-> <<"R1">>, near |-> FALSE, valid |-> TRUE]
May == Dated("may", "invoice-date", FALSE)

SomeDates == {{}, {May}, {Dated("june", "invoice-date", TRUE)}, {May, Dated("june", "invoice-date", FALSE)}}

NetAndTax == {Money("net-total", 10000, "EUR"), Money("tax-amount", 1900, "EUR")}
Totals == NetAndTax \cup {Money("gross-total", 11900, "EUR")}

PageMoney ==
    {Totals, NetAndTax, {Money("gross-total", 19000, "EUR")}, {Money("net-total", 10000, "")},
     {Money("gross-total", 11900, "EUR"), Money("subtotal", 10000, "EUR"), Money("tax-amount", 1900, "EUR")}}

SomeMoney == PageMoney \cup
    {{}, {Money("gross-total", 11900, "EUR")}, NetAndTax \cup {Money("gross-total", 11903, "EUR")},
     {Money("amount-due", 11900, "EUR"), Money("gross-total", 12000, "EUR"), Money("discount", 100, "EUR")},
     {Money("gross-total", 11900, "EUR"), Money("net-total", 10000, "USD")},
     {Money("credit", 500, "EUR")}, {Money("credit", -500, "EUR"), Money("tax-amount", 80, "EUR")}}

Text(dates, numbers, money, supplier) ==
    [legible |-> TRUE, dates |-> dates, numbers |-> numbers, money |-> money, supplier |-> supplier]

Blank == Text({}, {}, {}, Named("none", "nobody"))

SomeLayers ==
    {Text(d, n, a, s) : d \in SomeDates, n \in {{}, {Number}}, a \in SomeMoney,
                        s \in {Named("none", "nobody"), Named("heading", "Muster")}}

SomePages ==
    {Blank, [Blank EXCEPT !.legible = FALSE]}
    \cup {Text({May}, {Number}, a, Named("heading", s)) : a \in {{}, Totals}, s \in {"Muster", "Master"}}
    \cup {Text({}, {}, a, Named("none", "nobody")) : a \in PageMoney}

OrderMail(id, proposed, number, tracking) ==
    [id |-> id, proposed |-> proposed, number |-> number, tracking |-> tracking]

SomeOrderMails ==
    {OrderMail(1, 0, TRUE, TRUE), OrderMail(2, 5, FALSE, TRUE), OrderMail(3, 6, TRUE, FALSE),
     OrderMail(4, 8, FALSE, FALSE), OrderMail(5, 1, TRUE, FALSE)}

(* Four mails to classify: advertising from a contact, one of the spam list *)
(* that was put back, an ordinary one, and the news that a mail was  *)
(* not delivered, which looks like advertising; the model takes all but the  *)
(* second for spam.                                                         *)
Plain == [list |-> "none", contact |-> FALSE, bounce |-> FALSE, promo |-> FALSE, invite |-> FALSE,
          receipt |-> FALSE, heavy |-> FALSE, restored |-> FALSE, opinion |-> "relevant"]

ToClassify ==
  << [Plain EXCEPT !.contact = TRUE, !.promo = TRUE, !.opinion = "spam"],
     [Plain EXCEPT !.restored = TRUE, !.list = "spam", !.receipt = TRUE, !.heavy = TRUE, !.opinion = "routine"],
     [Plain EXCEPT !.opinion = "spam"],
     [Plain EXCEPT !.bounce = TRUE, !.promo = TRUE, !.opinion = "spam"] >>

(* Two mails of one sender, alike by the newer pattern only; one of another  *)
(* sender in the first's thread; two without sender and thread.              *)
FiveMails ==
  << [sender |-> 1, thread |-> 1, pattern |-> <<1, 1>>], [sender |-> 1, thread |-> 2, pattern |-> <<2, 1>>],
     [sender |-> 2, thread |-> 1, pattern |-> <<1, 1>>],
     [sender |-> 0, thread |-> 0, pattern |-> <<1, 1>>], [sender |-> 0, thread |-> 0, pattern |-> <<1, 1>>] >>

Paper == INSTANCE InvoiceExtract

Register == INSTANCE Invoices

Board == INSTANCE Orders WITH
    Mails <- OrderMails, MaxEdits <- MaxCardEdits

Depot == INSTANCE Portfolio WITH
    Foreign <- Abroad

Classifier == INSTANCE Classification WITH
    Post <- ToClassify, OldMails <- {1}, BatchSize <- 3, MaxDepth <- 1, QueueTime <- 2,
    BatchTime <- 3, SingleTime <- 3, RetryTime <- 2, Margin <- 1, LeastLeft <- 3,
    LeastTime <- 2, Deadline <- 8

Learning == INSTANCE LearningQuality WITH
    Post <- Corrected, Mails <- DOMAIN Corrected, feedback <- corrections

Agreement == INSTANCE ActionObligation WITH
    MaxMishaps <- MaxSlips

paperVars == <<paper, extract>>
invoicesVars == <<invoice, audit, registers, clerk, issued, basis, starts, hitches>>
ordersVars == <<orders, latest, events, cards, desk, collided, runs, faults, edits>>
depotVars == <<listing, imported, watchlist, quotes, rate, quoteRun, rule, refresher, valuer, alarms,
    refreshes, upsets>>
classifierVars == <<feedback, reached, phase, contexts, calls, results, clock>>
learningVars == <<corrections, snapshots, ids, cached, history>>
agreeVars == <<entered, turns, bound, ledger, pending, slips>>
allVars == <<turn, calendarVars, paperVars, invoicesVars, ordersVars, depotVars, classifierVars, learningVars,
    agreeVars>>

\* The variables of a component whose turn it is not are all 0.
AllInit ==
    /\ turn \in {"calendar", "paper", "invoices", "orders", "depot", "classifier", "learning", "agree"}
    /\ Init
    /\ IF turn = "paper" THEN Paper!Init ELSE
         /\ paper = 0 /\ extract = 0
    /\ IF turn = "invoices" THEN Register!Init ELSE
         /\ invoice = 0 /\ audit = 0 /\ registers = 0 /\ clerk = 0 /\ issued = 0 /\ basis = 0
         /\ starts = 0 /\ hitches = 0
    /\ IF turn = "orders" THEN Board!Init ELSE
         /\ orders = 0 /\ latest = 0 /\ events = 0 /\ cards = 0 /\ desk = 0 /\ collided = 0
         /\ runs = 0 /\ faults = 0 /\ edits = 0
    /\ IF turn = "depot" THEN Depot!Init ELSE
         /\ listing = 0 /\ imported = 0 /\ watchlist = 0 /\ quotes = 0 /\ rate = 0
         /\ quoteRun = 0 /\ rule = 0 /\ refresher = 0 /\ valuer = 0 /\ alarms = 0
         /\ refreshes = 0 /\ upsets = 0
    /\ IF turn = "classifier" THEN Classifier!Init ELSE
         /\ feedback = 0 /\ reached = 0 /\ phase = 0 /\ contexts = 0 /\ calls = 0 /\ results = 0
         /\ clock = 0
    /\ IF turn = "learning" THEN Learning!Init ELSE
         /\ corrections = 0 /\ snapshots = 0 /\ ids = 0 /\ cached = 0 /\ history = 0
    /\ IF turn = "agree" THEN Agreement!Init ELSE
         /\ entered = 0 /\ turns = 0 /\ bound = 0 /\ ledger = 0 /\ pending = 0 /\ slips = 0

CalendarStep ==
    /\ turn = "calendar" /\ Next
    /\ UNCHANGED <<turn, paperVars, invoicesVars, ordersVars, depotVars, classifierVars, learningVars,
         agreeVars>>

PaperStep ==
    /\ turn = "paper" /\ Paper!Next
    /\ UNCHANGED <<turn, calendarVars, invoicesVars, ordersVars, depotVars, classifierVars,
         learningVars, agreeVars>>

RegisterStep ==
    /\ turn = "invoices" /\ Register!Next
    /\ UNCHANGED <<turn, calendarVars, paperVars, ordersVars, depotVars, classifierVars, learningVars,
         agreeVars>>

BoardStep ==
    /\ turn = "orders" /\ Board!Next
    /\ UNCHANGED <<turn, calendarVars, paperVars, invoicesVars, depotVars, classifierVars,
         learningVars, agreeVars>>

DepotStep ==
    /\ turn = "depot" /\ Depot!Next
    /\ UNCHANGED <<turn, calendarVars, paperVars, invoicesVars, ordersVars, classifierVars,
         learningVars, agreeVars>>

ClassifierStep ==
    /\ turn = "classifier" /\ Classifier!Next
    /\ UNCHANGED <<turn, calendarVars, paperVars, invoicesVars, ordersVars, depotVars, learningVars,
         agreeVars>>

LearningStep ==
    /\ turn = "learning" /\ Learning!Next
    /\ UNCHANGED <<turn, calendarVars, paperVars, invoicesVars, ordersVars, depotVars, classifierVars,
         agreeVars>>

AgreementStep ==
    /\ turn = "agree" /\ Agreement!Next
    /\ UNCHANGED <<turn, calendarVars, paperVars, invoicesVars, ordersVars, depotVars, classifierVars,
         learningVars>>

AllNext ==
    \/ CalendarStep \/ PaperStep \/ RegisterStep \/ BoardStep \/ DepotStep
    \/ ClassifierStep \/ LearningStep \/ AgreementStep

AllSpec == AllInit /\ [][AllNext]_allVars

-----------------------------------------------------------------------------
(* Properties *)

\* CalendarMail: what a mail approved is entered once and as it was approved, however
\* often the approval is sent and answered, and created means that it is there.
ApprovalsAreKept == []CreatedIsThere /\ EnteredAsApproved

\* Invoices, from the paper to the register.  InvoiceExtract: nothing is confirmed
\* that two readings tell differently, and the amounts of one reading add up.
\* Invoices: a proposal is applied only over the row the user saw, and completed
\* means that every register concerned was uploaded with the change in it.
InvoicesAreTrue ==
    /\ turn = "paper" => Paper!DisagreementIsReviewed /\ Paper!OneReadingAddsUp
    /\ turn = "invoices" => Register!AppliedOverWhatWasSeen /\ Register!CompletedWasPublished

\* Orders: mails come late, twice and out of order and the status is still that of
\* the one that got furthest; an order called "ok" is on the board as it stands.
BoardIsTrue == turn = "orders" => Board!StatusIsTheFurthest /\ Board!OkMeansShown

\* Portfolio: totals stand only for the whole depot in one money, and a process
\* reports a crossing once.
DepotIsTrue == turn = "depot" => Depot!TotalsAreOfOneMoney /\ Depot!OneAlarmPerCrossing

\* Classification: however requests are grouped, split, retried and interleaved,
\* every mail gets its own category, none is spam against the user's word, and only
\* a repeated request goes past the deadline.
MailsAreJudgedFairly ==
    /\ [](turn = "classifier" => Classifier!EachItsOwn /\ Classifier!NoSpamAgainstTheUser)
    /\ [][turn = "classifier" => Classifier!FirstTryInTime]_allVars

\* LearningQuality: the gate that is in use is the one its report would give now,
\* and nothing that is tested was learnt from.
LearningIsMeasured == turn = "learning" => Learning!GateIsCurrent /\ Learning!HoldoutIsClean

\* ActionObligation: a write happens once for every agreement, counts in the turn
\* that agreed to it, and "it is done" is said only over a write that is proved.
AssentIsKept ==
    turn = "agree" => Agreement!AgreedOnce /\ Agreement!CreditedInItsTurn /\ Agreement!AnswersAreCovered
=============================================================================
