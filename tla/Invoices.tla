------------------------------ MODULE Invoices ------------------------------
(***************************************************************************)
(* One archived invoice, its row in the database, and the yearly registers   *)
(* (CSV files in the cloud) that are rendered from the rows.  The mail run   *)
(* (mail_agent/invoices.py), and the commands "backfill", "correct" (cli.py) *)
(* and "reprocess-apply" (invoice_reprocess_apply.py) work on it at the same *)
(* time, each in a process of its own.                                       *)
(*                                                                          *)
(* A row is a few facts and a stamp that changes with every write: it stands *)
(* for the fingerprint of the row joined with the row of its mail.  The user *)
(* approved the preview of the row with stamp 1.                             *)
(***************************************************************************)
EXTENDS Naturals, FiniteSets, FiniteSetsExt

CONSTANTS
    Years,          \* years of registers
    Proposed,       \* the year the approved proposal gives the invoice
    Applies,        \* runs of reprocess-apply with the same approval
    MaxStarts,      \* bound: runs and commands started
    MaxHitches      \* bound: failed uploads, kills, claims that grow old, moves of the mail

VARIABLES
    invoice,        \* the row
    audit,          \* the row of the approval in invoice_reprocess_audit
    registers,      \* the stamp under which each register shows the invoice, 0 for not at all
    clerk,          \* what each process does
    issued,         \* history: the latest stamp known to a rendering of each register
    basis,          \* history: the stamp of the row the approved proposal was written over
    starts, hitches \* the bounded events so far

invoiceVars == <<invoice, audit, registers, clerk, issued, basis, starts, hitches>>

Others == {"mail", "backfill", "correct"}
Clerks == Applies \cup Others

Row(archived, status, year, stamp) ==
    [archived |-> archived, status |-> status, year |-> year, stamp |-> stamp]

NoAudit == [status |-> "none", stamp |-> 0, years |-> {}, claim |-> 0, attempts |-> 0, stale |-> FALSE]

\* What a process has read, the years it has yet to publish, the register it
\* rendered, and its claim on the audit row.
AtRest == [at |-> "rest", saw |-> Row(FALSE, "", 0, 0), years |-> {}, page |-> 0, knows |-> 0, token |-> 0]

Rendered(y, row) == IF row.archived /\ row.year = y THEN row.stamp ELSE 0

Init ==
    /\ \E archived \in BOOLEAN, status \in {"", "review"}, y \in Years : invoice = Row(archived, status, y, 1)
    /\ audit = NoAudit
    /\ registers = [y \in Years |-> Rendered(y, invoice)]
    /\ clerk = [c \in Clerks |-> AtRest]
    /\ issued = [y \in Years |-> 1] /\ basis = 1
    /\ starts = 0 /\ hitches = 0

At(c, place) == clerk[c].at = place
Started == starts < MaxStarts /\ starts' = starts + 1
Hitch == hitches < MaxHitches /\ hitches' = hitches + 1
Rests(c) == clerk' = [clerk EXCEPT ![c] = AtRest]
Goes(c, place) == clerk' = [clerk EXCEPT ![c].at = place]
Publishes(c, years) == clerk' = [clerk EXCEPT ![c] = [AtRest EXCEPT !.at = "render", !.years = years]]
Written(archived, status, year) == invoice' = Row(archived, status, year, invoice.stamp + 1)

Read(c, place) ==
    /\ At(c, "rest") /\ Started
    /\ clerk' = [clerk EXCEPT ![c] = [AtRest EXCEPT !.at = place, !.saw = invoice]]

-----------------------------------------------------------------------------
(* The mail run and the commands *)

\* InvoiceManager.process: what is archived and classified needs no work
\* but the register of its year.
MailReads ==
    /\ Read("mail", IF invoice.archived /\ invoice.status # "" THEN "known" ELSE "extract")
    /\ UNCHANGED <<invoice, audit, registers, issued, basis, hitches>>

MailKnows ==
    /\ At("mail", "known") /\ Publishes("mail", {clerk["mail"].saw.year})
    /\ UNCHANGED <<invoice, audit, registers, issued, basis, starts, hitches>>

\* The upload of the file and the extraction end in a write over whatever the
\* row holds by then; a failed upload is written down, too.
MailStores ==
    /\ At("mail", "extract")
    /\ \E status \in {"review", "confirmed"}, y \in Years :
          \/ Written(TRUE, status, y) /\ Publishes("mail", {y}) /\ hitches' = hitches
          \/ /\ ~clerk["mail"].saw.archived /\ Hitch
             /\ Written(FALSE, status, y) /\ Rests("mail")
    /\ UNCHANGED <<audit, registers, issued, basis, starts>>

BackfillReads ==
    /\ invoice.archived /\ invoice.status = "" /\ Read("backfill", "extract")
    /\ UNCHANGED <<invoice, audit, registers, issued, basis, hitches>>

\* Written without another look at the row; the register of the former year is
\* not among those it publishes.
BackfillStores ==
    /\ At("backfill", "extract")
    /\ \E status \in {"review", "confirmed"}, y \in Years :
          Written(invoice.archived, status, y) /\ Publishes("backfill", {y})
    /\ UNCHANGED <<audit, registers, issued, basis, starts, hitches>>

Correct ==
    /\ At("correct", "rest") /\ Started
    /\ \E y \in Years : Written(invoice.archived, "manual", y) /\ Publishes("correct", {invoice.year, y})
    /\ UNCHANGED <<audit, registers, issued, basis, hitches>>

\* The years are published one after the other: rendered from the rows, then
\* uploaded.
Render(c) ==
    /\ At(c, "render") /\ clerk[c].years # {}
    /\ clerk' = [clerk EXCEPT ![c].at = "upload", ![c].page = Rendered(Min(clerk[c].years), invoice),
                              ![c].knows = invoice.stamp]
    /\ UNCHANGED <<invoice, audit, registers, issued, basis, starts, hitches>>

Uploaded(c) ==
    LET y == Min(clerk[c].years) IN
    /\ registers' = [registers EXCEPT ![y] = clerk[c].page]
    /\ issued' = [issued EXCEPT ![y] = IF clerk[c].knows > @ THEN clerk[c].knows ELSE @]

\* Mutant: an apply goes on with the next year, as the commands do.
UploadOnward(c) ==
    LET rest == clerk[c].years \ {Min(clerk[c].years)} IN
    /\ At(c, "upload")
    /\ \/ Uploaded(c) /\ hitches' = hitches
       \/ Hitch /\ UNCHANGED <<registers, issued>>
    /\ clerk' = [clerk EXCEPT ![c].at = "render", ![c].years = rest, ![c].page = 0, ![c].knows = 0]
    /\ UNCHANGED <<invoice, audit, basis, starts>>

\* The commands go on with the next year whatever became of this one; the mail
\* run and an apply stop at a failure.
Upload(c) ==
    LET rest == clerk[c].years \ {Min(clerk[c].years)} IN
    /\ At(c, "upload")
    /\ \/ /\ Uploaded(c) /\ hitches' = hitches
          /\ clerk' = [clerk EXCEPT ![c].at = "render", ![c].years = rest, ![c].page = 0, ![c].knows = 0]
       \/ /\ Hitch /\ UNCHANGED <<registers, issued>>
          /\ clerk' = [clerk EXCEPT ![c].at = IF c \in Applies THEN "failed" ELSE "render",
                                    ![c].years = IF c \in {"backfill", "correct"} THEN rest ELSE {},
                                    ![c].page = 0, ![c].knows = 0]
    /\ UNCHANGED <<invoice, audit, basis, starts>>

Published(c) ==
    /\ c \in Others /\ At(c, "render") /\ clerk[c].years = {} /\ Rests(c)
    /\ UNCHANGED <<invoice, audit, registers, issued, basis, starts, hitches>>

-----------------------------------------------------------------------------
(* reprocess-apply *)

Eligible(row) == row.archived /\ row.status \in {"", "review"}

\* An approval that was applied before is only brought to its end, and only
\* over the row it left.
ApplyReads(c) ==
    /\ IF audit.status = "none" THEN Eligible(invoice) ELSE invoice.stamp = audit.stamp
    /\ Read(c, IF audit.status = "none" THEN "extracted" ELSE "claim")
    /\ UNCHANGED <<invoice, audit, registers, issued, basis, hitches>>

\* The proposal is made again; its digest must be the one that was approved.
MatchesPreview(c) == clerk[c].saw.stamp = 1

NotDrifted(c) == Eligible(invoice) /\ invoice.stamp = clerk[c].saw.stamp

\* _begin_local_apply: in one transaction the row and the audit row.
BeginLocalApply(c) ==
    /\ At(c, "extracted") /\ MatchesPreview(c)
    /\ audit.status = "none" /\ NotDrifted(c)
    /\ Written(TRUE, "confirmed", Proposed) /\ basis' = invoice.stamp
    /\ audit' = [NoAudit EXCEPT !.status = "pending", !.stamp = invoice.stamp + 1,
                                !.years = {invoice.year, Proposed}]
    /\ Goes(c, "claim")
    /\ UNCHANGED <<registers, issued, starts, hitches>>

\* Another run was first, or the row moved on.
AppliedBefore(c) ==
    /\ At(c, "extracted")
    /\ IF MatchesPreview(c) /\ audit.status # "none" THEN Goes(c, "claim")
       ELSE ~(MatchesPreview(c) /\ NotDrifted(c)) /\ Rests(c)
    /\ UNCHANGED <<invoice, audit, registers, issued, basis, starts, hitches>>

\* _claim_register_sync: a claim that is not old is left alone.
Claimable == audit.status # "syncing" \/ audit.stale

ClaimRegisterSync(c) ==
    /\ At(c, "claim") /\ invoice.stamp = audit.stamp /\ Claimable
    /\ audit' = [audit EXCEPT !.status = "syncing", !.claim = audit.attempts + 1, !.attempts = @ + 1, !.stale = FALSE]
    /\ clerk' = [clerk EXCEPT ![c].at = "render", ![c].years = audit.years, ![c].token = audit.attempts + 1]
    /\ UNCHANGED <<invoice, registers, issued, basis, starts, hitches>>

ClaimRefused(c) ==
    /\ At(c, "claim") /\ ~(invoice.stamp = audit.stamp /\ Claimable) /\ Rests(c)
    /\ UNCHANGED <<invoice, audit, registers, issued, basis, starts, hitches>>

\* Between two years the row is looked at again.
Drift(c) ==
    /\ c \in Applies /\ At(c, "render") /\ clerk[c].years # {} /\ invoice.stamp # audit.stamp
    /\ Goes(c, "failed")
    /\ UNCHANGED <<invoice, audit, registers, issued, basis, starts, hitches>>

\* _finish_register_sync: only under the own claim.
Finish(c) ==
    /\ c \in Applies /\ (At(c, "failed") \/ (At(c, "render") /\ clerk[c].years = {}))
    /\ audit' = IF audit.status = "syncing" /\ audit.claim = clerk[c].token
                THEN [audit EXCEPT !.status = IF At(c, "failed") THEN "failed" ELSE "completed", !.claim = 0]
                ELSE audit
    /\ Rests(c)
    /\ UNCHANGED <<invoice, registers, issued, basis, starts, hitches>>

-----------------------------------------------------------------------------
(* The world *)

\* REGISTER_CLAIM_SECONDS have passed.
ClaimAges ==
    /\ audit.status = "syncing" /\ ~audit.stale /\ Hitch /\ audit' = [audit EXCEPT !.stale = TRUE]
    /\ UNCHANGED <<invoice, registers, clerk, issued, basis, starts>>

\* The fingerprint of the row takes in the folder of its mail.
MailMoves ==
    /\ Hitch /\ invoice' = [invoice EXCEPT !.stamp = @ + 1]
    /\ UNCHANGED <<audit, registers, clerk, issued, basis, starts>>

Killed(c) ==
    /\ ~At(c, "rest") /\ Hitch /\ Rests(c)
    /\ UNCHANGED <<invoice, audit, registers, issued, basis, starts>>

Apply(c) ==
    \/ ApplyReads(c) \/ BeginLocalApply(c) \/ AppliedBefore(c) \/ ClaimRegisterSync(c) \/ ClaimRefused(c)
    \/ Drift(c) \/ Finish(c)

Register(c) == Render(c) \/ Upload(c) \/ Published(c) \/ Killed(c)

Next ==
    \/ MailReads \/ MailKnows \/ MailStores \/ BackfillReads \/ BackfillStores \/ Correct
    \/ (\E c \in Applies : Apply(c)) \/ (\E c \in Clerks : Register(c))
    \/ ClaimAges \/ MailMoves

Spec == Init /\ [][Next]_invoiceVars

-----------------------------------------------------------------------------
(* Properties *)

\* Whatever the mail run, a backfill or a correction wrote while the proposal
\* was made again, it is applied only over the very row the user saw
\* (_begin_local_apply).
AppliedOverWhatWasSeen == basis = 1

\* A completed audit says that every register of its years was uploaded since
\* the row was changed, by a run that knew of the change, whichever runs lost
\* their claim, stopped half way or came too late (run_reprocess_apply).
CompletedWasPublished ==
    audit.status = "completed" => \A y \in audit.years : issued[y] >= audit.stamp
=============================================================================
