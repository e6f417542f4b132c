# Verification of the personal assistant

TLA+ models of the parts of the personal assistant in which several processes,
crashes, retries and other people's changes meet: the work queue and its worker
containers, the plans of outgoing changes, the priority gate in front of the
language model, the event spool of the gateway, the control of the jobs, the
mail pipeline with its production gate, the mail index and its search, the
synchronisation with the cloud, invoices, orders, the depot, classification and
learning, the mail, contact and task tools, the agreement a write of the agent
needs, the set-up of the tools, and the deployment. TLC checks every model on a
small instance; the safety properties of the coordinating core are proved with
TLAPS for every value of the constants. Everything is translated from the
source; line numbers are in `PROJECT.json` under `map`.

Contents: [1 Inventory](#1-inventory) · [2 Modules](#2-modules-and-the-code) ·
[3 Runs](#3-runs) · [4 Fairness](#4-fairness) · [5 Findings](#5-what-the-code-does-not-keep) ·
[6 Proofs](#6-proofs) · [7 Not modelled](#7-what-is-not-modelled) · [8 Plan](#8-plan)

Running: `tlc -config WorkScheduler.cfg MCWorkScheduler.tla`, and so on for the
rows of the table in section 3; `tlapm JobLoopProofs.tla` for the proofs.

---

## 1 Inventory

### 1.1 The system

The assistant runs as a set of containers over one shared volume. A *gateway*
(OpenClaw, with a plugin) talks to the user. One *worker container per job*
(mail, sync, knowledge, supervisor, digest, ...) runs `docker/job_loop.py`, which
asks a SQLite queue for the right to run and then starts the job as a child
process. All language-model calls go through one *priority proxy* in front of
Ollama. Changes of the user's Nextcloud (files, calendar, tasks, contacts) go
through *action plans* in another SQLite database. Mail is read, sorted and
forwarded by the *mail agent* over IMAP/SMTP through a command-line client; it
also keeps the local mail index, whose generations the sync worker imports into
the *knowledge database* that searches read.

```
 user / plugin ──tools──> service + ActionService ──HTTP──> Nextcloud
       ▲                        ▲  plans (SQLite)
       │ events                 │ archive, register, trusted commands
   GatewayEvents <──notify── JobControl      MailPipeline ──IMAP/SMTP──> mail server
   (spool files)            (state file)         │ runs as the child of
                                 │ on/off        ▼
                                 └──────────> JobLoop ──claim/renew/finish──> WorkScheduler
                                                 │ children call                (SQLite)
                                                 ▼
                                            PriorityGate ──HTTP──> Ollama
```

### 1.2 Components

| component | state | operations | what is hard | what makes it correct |
|---|---|---|---|---|
| **Adaptive work scheduler** `work_scheduler.py` | SQLite: one row per job (status, owner, token, lease, ages), attempts, activity boosts | enqueue, claim, renew, finish, cancel_pending, record_activity, prune | several processes in one database; leases expire while their holder lives; `finish` reads before its transaction | one running row; no preemption; results final; ages kept over recoveries; nobody starves |
| **Job loop** `docker/job_loop.py` | place in the loop, token, missed renewals, child | the loop of each worker container | lease against grace of a terminated child, restarts under the same or another owner string, SIGTERM anywhere, lost renewals | a child whose row was taken does not live on; no attempt stays open; a stop ends; no child beside another (violated, section 5) |
| **Action plans** `actions.py`, `service.py`, `assistant_bridge.py`, connectors | a row per plan (proposed ... completed), the objects on the server and their ETags | plan, approve, execute, verify, adopt, retry; one entry point per tool | two processes on one plan, lost answers, deaths between mark and answer, edits by others | approval first; no effect twice; nothing of others overwritten; rows tell the truth |
| **Ollama priority gate** `ollama_priority_proxy.py` | tickets waiting and active, idle clock | acquire, release, forward | selection against starvation, judged at grant only; timeouts; failing acquires; slow upstream | slot and lane limits; order; every request answered; no orphaned ticket |
| **Gateway events** `gateway_events.py` | directories pending, processing, failed | enqueue, relay pass, recovery, retry, give up | death between any two renames; counting two directories that change; unreadable files | at least once; bounded retries; bounded queue; progress |
| **Job control** `job_control.py`, `monitoring.py` | one JSON file: desired switches, recoveries, alerts | check, on, off, mail recovery, notify | whole-file write-backs of stale copies, one shared temporary name, kills inside a recovery | the alerts on record become right, whatever overlapping commands wrote; the user's OFF stays (violated, section 5) |
| **Mail pipeline** `app.py`, `storage.py`, `forwarding.py` | a row per mail (status, destination, delivery record), the folders | feedback, rescue, quarantine and INBOX passes; forward; move | crash between hand-over and commit, failing or lying commands, the user moving mails meanwhile | no unasked second delivery; rows true; corrections win; every mail settled |
| **Mail worker and owner cycle** `mail_worker.py`, `mail_owner_cycle.py`, `setup_assistant.py`, `lock.py` | the gate file with its fingerprint, the recovery record with its cooldown, the process lock | check, dry run, record, productive run, reconcile | a configuration that changes under a dry run, workers that outlive the cycle the loop terminates, a lock held by another | what is drained was tested; mail goes on |
| **Mail search projection** `search_backfill.py`, `search_reconcile.py`, `search_projection_v2.py`, contracts | partition files, root manifest, archive, checkpoints; occurrences and tombstones; tables of the knowledge database | backfill, resume, reconcile, retention, import | files unlinked beside readers without a lock, interrupted backfills, moved and renumbered mail, skipped generations | published roots are readable; identities survive moves; the index catches up |
| **Mail search** `mail_hybrid_search.py`, `mail_embeddings.py`, `adapters/mail.py` | generation, chunks, vectors; the places of a hit | status, lexical and semantic query, decision, resolve | four reads with imports in between; mailbox ids given anew | "no such mail" is true; a hit is that mail |
| **Incremental sync** `incremental_sync.py`, connectors | inventory of ETags, cursor, documents | discover, index a batch, relocate, reconcile | listings cut short, objects moved, kills between two commits | "ok" means whole; nothing present is removed |
| **Calendar approvals** `calendar.py`, `nextcloud.py` | approvals with tokens and expiry, event rows | propose, send, reply, create, settle | crash in "sending"; several versions; late and repeated replies | only what the user said yes to; "created" is there |
| **Invoices** `invoices.py`, `invoice_extract.py`, `invoice_reprocess*.py`, `cli.py` | the row, the approval's audit row with its claim, yearly registers | read, archive, backfill, correct, apply, publish | four writers of one row; claims that grow old; upload of several years | an apply over the row the user saw; completed means published; disagreement is reviewed |
| **Orders** `orders.py`, `deck.py` | orders, events, cards of the board | record, sync, move a card, backfill dates | mails late, twice and out of order; two processes; kill between card and row | the status that got furthest; "ok" is shown |
| **Portfolio** `portfolio.py` | snapshots, listings, quotes, rates, alarm rules | import, map, refresh, evaluate, value | tables read one after another; two refreshes at once | totals in one currency and of the whole depot; one alarm per crossing |
| **Classifier, learning, rules** `classifier.py`, `rules.py`, `storage.py`, `learning_quality.py` | open requests, results, clock; decisions, corrections, the cached gate | batch, retry, split; decide, correct, report | a deadline shared by parallel groups; corrections of corrections | every mail gets its own answer; no spam against the user; the measure is clean |
| **Mail, contact and task tools** `adapters/mail.py`, `service.py` | drafts and plans; mailbox ids; cards and tasks | prepare, send, move, correct, quarantine; create, update | two calls on one draft; ids that name another mail; whole objects written back | tried once; the mail that was meant; only what was asked changes |
| **Action completion** plugin `index.js`, `runtime.js`, `action_completion.py` | obligation of a turn, ledger of agreements, evidence | bind, agree, execute, credit, guard the answer | calls resumed late, twice, or in the next turn | a write per agreement; credited in its turn; no uncovered answer |
| **Tool set-up, registry** `tool_setup.py`, `tool_settings.py`, `registry.py` | `tools.toml`, `resources.toml` | configure each tool, the standard set-up | two files, failing between them | what is on has its right; a failed set-up changes nothing |
| **Deployment, state migration** `docker/scripts/`, `runtime_layout.py` | units, containers, home, state directory, backups, profile | migrate, backup, deploy, roll back, promote | a kill or failure at any command | one writer; rollback restores; a migration loses no secret |
| Digest, antivirus, containers, prototypes, build scripts, systemd units | little or none | - | - | see section 7 |

`PROJECT.json` says which of them are modelled completely. The hazards found in
the survey, each with its line and the properties that guard it, are listed
there under `hazards`.

### 1.3 How the components interact

* `job_loop.py` imports `AdaptiveWorkScheduler` and calls it in-process: *shared
  database*. `JobLoop` therefore EXTENDS `WorkScheduler`, and every one of its
  steps that touches the database is composed of the queue's own action.
* `job_control.py` writes the switches that `job_loop.py` reads at the head of
  its loop (`desired`): *shared file*. In `JobLoop` the switch may change at any
  time; in `JobControl` its writers are modelled.
* The loop's child for mail is the owner cycle: `MailOwner` is the process tree
  below it, with the worker that outlives a terminated cycle; a productive run
  is `MailPipeline`, and the index run that follows it `SearchIndex`.
* `SearchIndex` has the files and crashes of the mail index, `MailGenerations`
  what one reconciliation and one import compute; `MailSearchAnswer` reads the
  result, and `MailLocators` looks for the hit on the server.
* The mail agent calls `assistant_bridge.py`, which plans and executes actions:
  the entry points `archive_invoice`, `create_calendar_event` and
  `sync_invoice_register` are routes of `ActionPlans`. `CalendarMail` takes the
  entry into the calendar, and `Invoices` the upload of a register, as a request
  that succeeds or fails. `DirectEdits` and `MailTools` model what goes into a
  plan and what its effect does; the life of the row in between is `ActionPlans`.
* Job control queues an announcement with `gateway_events.enqueue_event`; the
  relay in the gateway container delivers it. `JobControl` models the call's
  outcome, `GatewayEvents` the queue.
* The plugin's JavaScript and `action_completion.py` are twins: two
  implementations of one protocol, of which `ActionObligation` is the model.

---

## 2 Modules and the code

| module | models | proofs | checked through |
|---|---|---|---|
| `LeaseSlot` | abstract: what the queue promises | - | `MCWorkScheduler` |
| `WorkScheduler` | `work_scheduler.py` | `JobLoopProofs` | `MCWorkScheduler` |
| `JobLoop` (EXTENDS `WorkScheduler`) | `docker/job_loop.py` | `JobLoopProofs` | `MCJobLoop` |
| `ActionPlans` | `actions.py`, `service.py`, `assistant_bridge.py`, connectors | `ActionPlansProofs` | `MCActionPlans`, `MCOperations` |
| `PriorityGate` | `ollama_priority_proxy.py` | `PriorityGateProofs` | `MCPriorityGate` |
| `GatewayEvents` | `gateway_events.py` | `GatewayEventsProofs` | `MCGatewayEvents` |
| `JobControl` | `job_control.py`, container mode | `OperationsProofs` | `MCOperations` |
| `MailPipeline` | `app.py`, `storage.py`, `forwarding.py` | `MailPipelineProofs` | `MCMailPipeline` |
| `MailOwner` | `mail_worker.py`, `mail_owner_cycle.py`, `setup_assistant.py`, `lock.py` | `OperationsProofs` | `MCOperations` |
| `ToolSetup` | `tool_setup.py`, `tool_settings.py`, `registry.py` | `OperationsProofs` | `MCOperations` |
| `Deployment` | `migrate-live.sh`, `backup.sh`, `deploy.sh`, `rollback.sh`, `runtime_layout.py` | `OperationsProofs` | `MCOperations` |
| `StateMigration` | `migrate-container-state.py` | `OperationsProofs` | `MCOperations` |
| `NextcloudSync` | connectors, `incremental_sync.py`, `storage.py` | `OperationsProofs` | `MCOperations` |
| `SearchIndex` | `search_backfill.py`, `search_reconcile.py`, `search_projection_v2.py`, contracts, `knowledge.py` | `MailSearchProofs` | `MCMailSearch`, `MCSearchIndex` |
| `MailGenerations` | identities in `search_reconcile.py`, `apply_mail_projection` | - | `MCMailSearch` |
| `MailSearchAnswer` | `mail_hybrid_search.py`, `mail_embeddings.py`, `mail_search.py` | `MailSearchProofs` | `MCMailSearch` |
| `MailLocators` | `resolve_live_locators` of `adapters/mail.py` | `MailSearchProofs` | `MCMailSearch` |
| `MailTools` | `adapters/mail.py` | `MailSearchProofs` | `MCMailSearch` |
| `DirectEdits` | contact and task commands of `service.py`, connectors | `MailSearchProofs` | `MCMailSearch` |
| `CalendarMail` | `calendar.py`, `nextcloud.py` of the mail agent | `RecordsProofs` | `MCRecords` |
| `InvoiceExtract` | `invoice_extract.py` | `RecordsProofs` | `MCRecords` |
| `Invoices` | `invoices.py`, `cli.py`, `invoice_reprocess_apply.py` | `RecordsProofs` | `MCRecords` |
| `Orders` | `orders.py`, `deck.py` | `RecordsProofs` | `MCRecords` |
| `Portfolio` | `portfolio.py` | `RecordsProofs` | `MCRecords` |
| `Classification` | `classifier.py`, `rules.py` | - | `MCRecords` |
| `LearningQuality` | `learning_quality.py`, `storage.py` | - | `MCRecords` |
| `ActionObligation` | the plugin, `action_completion.py`, `calendar_from_mail.py` | `RecordsProofs` | `MCRecords` |

What a *step* is: one database transaction (or autocommitted statement), one
request to a server, one file-system call that others can see, one command of
the mail client, or one critical section under a lock. Between two steps any
other process may act and, where the container can be killed, die.

Time is never absolute. A deadline is a countdown and an age a counter that
saturates where the code's comparison or cap does; a `Tick` (or `Clock`) action
moves all of them together. Text, rendering, logging and audit rows are left out.

`MCOperations` (what keeps running and what comes back by itself), `MCMailSearch` (what the
assistant finds and does for its user) and `MCRecords` (what it keeps) check several components in one run.
These share no state here; the variable `turn`, fixed in the first state, says
whose behaviour it is, and the variables of the others stay 0. Such a run is the
union of the runs of its components, with one instance of each.

### 2.1 LeaseSlot and WorkScheduler

`LeaseSlot` is the promise: one slot, free or held under a fresh token until it
is closed by that token or its time is up (`Take`, `GiveBack`, `Expire`,
`Close`). `WorkScheduler` has the row, the holder, the token, the lease, the ages
and boosts, and the attempts. A row *is* its job (the code's unique index on
active rows), and an attempt *is* its lease token.

| action | code |
|---|---|
| `Enqueue` | `enqueue`: sweep, then insert or refresh |
| `ClaimGranted`, `ClaimAnswered` | `claim`: sweep, arbitration window, ranking by `_score`; a refused claim, or the repeated claim of the owner of the running row, which is answered with that row |
| `Renew` | `renew`, only for owner and token of a running row; a lease that ran out but was not swept yet is renewed too |
| `FinishAttempt`, `FinishRow` | `finish` outside a transaction: two UPDATEs, each committed by itself, which others may come between |
| `CancelPending`, `RecordActivity`, `Tick` | `cancel_pending`, `record_activity`, the clock |

Every operation begins with `Sweep` (`_recover_expired_locked`), as in the code.

### 2.2 JobLoop

One worker per job, `pc` is its place in `main()`: idle, queue, supervising,
terminating, finishing, off. `TakeTicket`, `ClaimWon`, `StartChild`, `RenewLease`, ...
are the calls in their order, each composed of the queue's own action.
`ClaimInherited` is the claim that finds the row of a dead predecessor with the
same owner string. Environment: `ChildExit`, `Switch`, `Stop` (SIGTERM), `Crash`,
`Start` (container restart), `RenewalError`, `Clock` (one turn of the 10 s loop).
`Timely` says that no worker sleeps over a whole turn, and kills its child when the
grace is over. `astray` counts, beside the program, the turns a child has lived
since the queue stopped showing its run.

### 2.3 ActionPlans

`Plans` are idempotency keys; `Kind` says how an object of that kind is written
(create if absent, move, conditional on an ETag, the managed register). A *client*
is a process running one call: the entry points `Planners`, and `approve` and
`execute` of the CLI. The places between its steps are the transactions of
`ActionService`: plan, reconcile, approve, load, mark, (read the ETag,) send, finish
or fail. `Edit` is somebody else's change, `AnswerLost` applies the request and
loses its answer, `RequestLost` loses the request, `Crash` kills the client anywhere.

### 2.4 PriorityGate

One thread per request: `Enter`/`Refuse`, `Wake` (the condition variable: expire,
wait or be granted), `Chunk` (the answer streams), `Finish` (release, also after
errors), `ReadTimesOut`, `FailOpen` (an exception inside the gate forwards
without a ticket), `Crash` of the whole proxy. `Selected` is `_select_next_locked`
with its starvation rule, `CanRun` the lanes and the burst grace.

### 2.5 GatewayEvents

`pending`, `processing` and `failed` are the three directories: for each event the
attempt number its file holds, or `Absent`. A writer is in `enqueue_event`: lock,
count one directory, count the other, publish; it may die in between. The relay
is in `relay_once`: list, claim, deliver, remove, or requeue in two steps, give up
in two steps. `Recover` runs at its start. Which of the failed events is evicted
is a choice (the code sorts by name).

### 2.6 JobControl

The state file is a name for an inode, because `_save_state` writes to one
temporary name shared by all commands: two open handles on it can interleave.
Every command keeps the copy it read at its start (`mem`) and saves it (`open`,
`write`, `rename`). The mail recovery is `Quiesce`, `DryRun`, `Recovered`, `Restore`,
with the saves in between. Nothing keeps two commands apart, as in the code: a
command line and the supervisor may be at any two places at once, and one may write or rename what the
other has just created. `off` remembers what the user was told is switched off.
Whether a worker is sick and whether the gate is stale change from outside; the files
that wake a job, and the text and queueing of announcements, are left out.

### 2.7 MailPipeline

One agent over the folders of a batch in the order of `_process_batch`: the four
correction folders, the quarantine, the INBOX. A mail's row is `status`, `dest` and
`forwarded`; `place` is the truth on the server. Steps: list, load (with the checks
for final rows, interrupted forwarding, retried moves, restored mails), learn,
route, claim the forwarding, send, record, move, settle. A classification is a
choice among the outcomes `_route` has for it. `Forward` commits *forwarding* before
the hand-over and `Record` commits its result after it, the window every
crash property here is about.

### 2.8 MailOwner

Workers (two may live, because the loop terminates only the cycle, not what the
cycle started) go through `Check` (`productive_run_blockers`), `DryRun`, `Remember`
(`record_dry_run`, whose fingerprint is of the files as they are *then*), `Tested`,
`Recheck`, `Load`, `Drain` and `Reconcile`; those that touch the mailbox take the process
lock or give up. `Edit`, `Teach`, `ChecksFail` and an operator with a dry run of
his own are the surroundings, `HalfHour` is the cooldown's time.

### 2.9 ToolSetup, Deployment, StateMigration

In `ToolSetup` a command loads both files (`Configure...`, `Standard`), writes the
registry, then the tool settings; it `Fails` (with the rollback of the standard
set-up, `Restored`, which may fail too, `RestoreFails`) or `Dies` in between. Mail as a whole and
the moving of mails are two switches, and switching off needs no approval. One command at
a time: two at once each write whole files from what they loaded, and the later one
undoes the earlier.

`Deployment` has one script at a time, each a sequence of commands of which every
one may fail (the ERR trap runs) or be killed (nothing runs): `MigrateLive`, `Deploy`,
`BackedUp`, `Smoke`, `Rollback`, `Restore`. A migration publishes, and its trap puts back,
directory after directory (`Publish`, `PutBack`), and any of them may fail (`UndoFails`);
`Down` may leave containers running, and the rollback goes on (`slipped`). The container *layout-init* (`Snapshot`, `Stage`,
`PromoteFile`, `Promoted`) moves an old profile file by file. `StateMigration` is the
Python script that rewrites the files of the old home: paths, plugin entries,
passwords into secret files, the gateway's credential.

### 2.10 SearchIndex, MailGenerations, MailSearchAnswer, MailLocators

`SearchIndex`: the owner's process is at one place of one run (`at`): a backfill
opens or resumes its checkpoint, fetches and marks pages, publishes and closes; a
reconciliation looks at every folder, examines what is new, writes partitions,
archives, publishes, and unlinks what no kept root names. Files are immutable
records, the root manifest is one rename, the sync worker reads without a lock.
`MailGenerations`: `Reconciled` computes occurrences, identities and tombstones of the
next generation from the former and the mailbox; `Import` is the replacement of the
tables. `MailSearchAnswer`: status, query, semantic candidates and decision as
separate reads (`question.step`) beside imports and the builder of embeddings.
`MailLocators`: the known places one by one, then folder by folder.

### 2.11 CalendarMail, NextcloudSync

`CalendarMail`: one appointment in several versions; `RequestApproval`, `SendMail`,
`Asked`, then `TakeReply`, `Put`, `CreateNormalized`, `RecordEvent`, `SettleApproval`,
`FileReply`, each a commit after which the process may be killed and the mail handled
again. A command mail has a plan of its own: `CommandMail` begins it, `ExecuteCommand` is the
request, which may fail with or without effect, `CommandExecuted` what becomes of the plan. `NextcloudSync`: `Discover` (a listing, perhaps cut), `Index`, `Relocate`, `Skip`
per object of the batch, `Reconcile` (removals), `SaveState`; the user writes,
moves and deletes meanwhile.

### 2.12 InvoiceExtract, Invoices, Orders, Portfolio

`InvoiceExtract` is a pure algorithm over readings (the labels a text has): selection
of candidates, which fields OCR is asked for, the fusion of two readings, the
status. `Invoices`: one row with a stamp that every write changes, two runs of the
approved reprocessing with their claim, the mail run, backfill and correction, and
the registers with the stamp they show. `Orders`: recorded events, the row's
synchronisation with its card step by step, with requests that fail and answers that are lost after
the request was carried out, the user on the board. `Portfolio`: two
refreshers and a valuation that reads holdings, health and prices in turn.

### 2.13 Classification, LearningQuality, MailTools, DirectEdits, ActionObligation

`Classification`: what the rules say first, in their order (bounces, sender lists, receipts and
invitations, an address book that may not be reached), and the corrections, then requests of several
mails with their timeouts cut to the time left, retries, splits and the
deadline. `LearningQuality`: decisions, corrections that replace one another or are
taken back (`Forget`), the report over them, in which rows without a sender or thread stay on both sides
of the split, and the gate that is cached under a key. `MailTools`: calls that
load a plan, compare the mail under an id, and act. `DirectEdits`: read, check,
build the whole new object, write it back. `ActionObligation`: turns, obligations,
agreements (asked, resolved, consumed, expired) and the answers that may leave.

---

## 3 Runs

| run | bounds | question and result |
|---|---|---|
| `work_scheduler` | 2 jobs, 1 owner, 3 tokens, lease 2, ages to 4 | The database alone under arbitrary clients. `SlotIsOwned` (one running row, and the open attempts are its own), `HistoryIsKept` (results stay, although `finish` reads outside its transaction; no preemption; ages survive recovery), and it implements `LeaseSlot`. Three tokens are a run, its successor and a third that meets the stale finish of the first; the scores are scaled so that age, deadline, starvation and boost each decide a ranking within the ages. |
| `job_loop` | 2 workers, lease 2, 2 misses, grace 1. Rough: one crash of the mail worker, two failed renewals, the switch, restarts under another owner string. Fair: lease 4, one signal, one failed renewal, restarts under the same or another string | `StraysAreStopped`: whatever took its row away, a child lives no longer untracked than the renewals its worker may miss and the grace; the lease is as short as the misses here, so that the sweep does come first. `EveryoneIsServed` (nobody waits for ever) and `EverythingEnds` (no attempt stays open, a stop ends), where the switch is left on: a job that is switched off waits by intent. |
| `job_loop_overlap` | 2 workers, 3 misses, grace 12, lease 9: the proportions of the code in turns of 10 s | **Violation** of `NoOverlap` (section 5). |
| `action_plans` | 2 processes; three file plans, or an event and its change, or two items of one UID, or the register of a year; one edit, fault and crash | `EffectsAreApproved`, `StatusIsTrue`, `ServerIsRespected` (an ETag is used once, nothing of others is overwritten unseen). Two processes suffice for every race of a row: a third changes the row only as one of the two could. The constraint `OneSubject` separates subjects that share no row and no path. |
| `gate` | mixed: 4 requests, 2 slots, queue of 2, crash and failing acquires; patient: 4 requests, queue of 3, no failing acquires, answers end | `GrantsInOrder` (lanes, no overtaking, bursts after their grace), `EveryoneAnswered`, and for the patient `PatientAreServed`: who does not give up gets a turn, and tickets, slots and threads belong together. Four requests overfill a queue of two beside a held slot; the burst client and two ordinary background clients meet in both lanes. |
| `events` | 3 events, a queue of 1, 1 writer, 2 attempts, one death of the relay, event 2 may be unreadable | `DeliveryIsKept` (at least once, bounded retries, a bounded queue), `EventuallySettled`. Three events against room for one show the slip of the count; one death between any two renames shows each duplicate. |
| `mail` | 2 mails, batch of 2, one mail moved twice by the user at any time, one failing or lying command, one crash | `RecordedIsThere`, `NoUnaskedResend`, `UserDecides` (a restore is heard, corrections win), `EverythingSettles`. One mail runs through all histories, the other sits in its batch with an outcome of its own, so that prefetch, the shared budget and a crash between the two are met. |
| `operations` | control: a supervisor and a command line that overlap, 3 events (commands, kills, changes of health or gate); owner: 2 workers, one edit, one trouble; deployment: 2 images, 2 faults or kills, 3 orders; migration: a known and an unknown plugin project, 2 runs; tools: 4 domains, 3 resources, 2 commands; register: 2 processes, one foreign edit, one fault; sync: 3 paths, batches of one, listings of 2, 2 edits, one break | `AlertsAreCurrent` (control: whatever overlapping or killed commands left in the file, no document included, the supervisor's checks put the alerts on record right), `DrainsAreTested` and `MailGoesOn` (owner), `SetupIsWhole` (tools), `DeploysWhole` (deployment and migration), `RegisterComesBack` (after a failed transfer or a foreign change the register comes to hold what it should, again and again; without a death, which leaves a row *executing*, section 5), `SyncIsFaithful` ("ok" means indexed as it is, and nothing that is there is taken out). Three paths with batches of one make a run span three batches; with listings of two MaxItems cuts. |
| `mail_search` | index: 2 mails, 2 folders, pages of one mail, 2 pages a run, one change, 2 runs, one trouble; generations: 3 places; locators: 4 changes; answers: 2 imports, one search; tools: 2 processes, 2 calls | `IndexIsWhole`, `IndexIsCaughtUp`, `MailboxIsShown`, `SearchIsTrue`, `ToolsDoAsTold`. Pages of one mail and two folders make a backfill stop and resume inside and between folders; three places hold a mail, its copy and where it moves. |
| `records` | approvals: 2 versions, 2 mails, 2 replies, 2 mishaps; invoices: 2 years, 2 applies, 2 other runs, 2 hitches; orders: 5 mails, 3 runs; depot: one instrument on two listings, 2 refreshes; classification: 4 mails and an earlier one; learning: 5 mails, 3 corrections or deletions; agreement: 2 turns, 2 writes | `ApprovalsAreKept`, `InvoicesAreTrue`, `BoardIsTrue`, `DepotIsTrue`, `MailsAreJudgedFairly`, `LearningIsMeasured`, `AssentIsKept`. Two of everything that writes is what a race needs. |
| `index_resume` | the index of `mail_search` alone | **Violation** of `ResumeLosesNothing` (section 5). |
| `control_overlap` | the switchboard of `operations` alone | **Violation** of `OffStaysOff` (section 5). |

The type invariants of the modules with proofs are proved and not run again.

Every property of a passing run is refuted by a plausible bug in the
mapped code, listed in `PROJECT.json` under `mutants`. Deadlock is checked in the
passing runs up to `mail`, and in `job_loop_overlap`: those systems can always do something. In
`operations`, `mail_search` and `records` a component may stop: a migration or an extraction ends,
and a bound on what the surroundings do is spent; and so in `index_resume` and `control_overlap`.

While the modules were built, each of the components in the combined runs was
also checked alone on larger instances: the index with a third mail and two changes (979 000
states), invoices with a third run (1.3 million), the depot with two instruments
(3 million), the owner with two edits (522 000), the tool set-up with all its domains,
the sync with three edits, classification with two earlier mails, and the
agreement with a third kind of prompt.

Bounds named in the modules: `MaxAge` (ages saturate), `MaxEdits`, `MaxFaults`,
`MaxCrashes`, `MaxStops`, `MaxMoves`, `MaxChanges`, `MaxTroubles`, `MaxMishaps`,
`MaxHitches`, `MaxBreaks`, `MaxEvents`, `MaxOrders`, `MaxRuns`, `MaxStarts`, ... (how often the
surroundings act, or runs are started), the
finite `Token` and `Inodes` (a token whose attempt was pruned and that no row names may be
drawn again; in the code it is a fresh UUID), `MaxPending`, `MaxFailed`, `MaxAttempts` (the code's
256, its limit of failed files, and its attempts, small).

---

## 4 Fairness

* `JobLoop`: weak fairness of each worker's own steps (it is a running process),
  of the end of a child that nobody asked to end (`ByItself`: jobs have time
  limits), of `Quit`, of the restart (`restart: unless-stopped`), and of the clock.
  A child that was asked to terminate has none: it may ignore SIGTERM, and
  `EverythingEnds` must come from the kill. Crashes, signals and switches have none.
* `ActionPlans`: a call proceeds, and clients begin calls. Which entry point, and
  whether anybody approves, is not fair. `RegisterComesBack` needs `Begin`, because the
  repair is the next run of the mail job.
* `PriorityGate`: `Polling` is time, the wake-ups of waiting threads
  (`condition.wait` has a timeout in the code) and the read timeout. Only
  `PatientAreServed` also assumes that granted requests end, which the code does not
  enforce for a stream that never stops.
* `GatewayEvents`: the relay loop runs; it lists again and again although it is
  restarted (`SF(List)`); a cooldown ends.
* `JobControl`: a command that began goes on (unless it is killed); the supervisor's profile
  starts a check again and again (`SF`: between two checks it is not idle).
* `MailPipeline`: the agent works, since its job is started again and again. The user, faults
  and crashes have no fairness.
* `MailOwner`: the loop starts cycles for ever and a worker proceeds; commands of
  the operator end, failing checks recover and the half hour of a cooldown passes (`World`).
  Failures of dry runs are bounded, not fair.
* `SearchIndex`: a run of the owner goes on, and the jobs that reconcile and import
  come round.
* The other components have safety properties only.

---

## 5 What the code does not keep

Checked as a violation, each in a run of its own:

1. **A resumed backfill may lose a mail** (`index_resume`, `ResumeLosesNothing`). An interrupted backfill
   goes on at the number of its next page (`search_backfill.py:507`), counted in the
   mailbox as it is now. If a mail of a page already read was deleted or moved,
   the rest has shifted by one, and a mail that was there all the time is in no page of
   an index that calls itself complete.
   `docs/MAIL_ANTIVIRUS_INDEX_ROLLOUT_ROADMAP.md:511` says that stopping and resuming
   neither duplicates nor loses a mail. `IndexIsCaughtUp` shows that a later
   reconciliation finds it.
2. **A terminated child may overlap the next job** (`job_loop_overlap`, `NoOverlap`). A worker that cannot renew
   terminates its child, but gives it 120 s (`job_loop.py:231`), in which nobody renews
   a lease of 90 s; `docs/ADAPTIVE_SCHEDULER.md:65-67` says that no second job can start
   alongside an untracked run. `StraysAreStopped` is what is left of the promise: the
   child that lost its row is dead after the tolerated misses and the grace.
3. **A check undoes a user's OFF** (`control_overlap`, `OffStaysOff`). A command
   reads the whole state when it starts, probes, and writes the whole of it back
   (`job_control.py:195`, `:222-230`) without a lock; an `off` in between is lost, while
   `docs/JOB_CONTROL.md:7` calls OFF deliberate and `:52` leaves switching on to the user.

Properties that documents state and the code does not keep; they are defined in
their modules, with a comment that says so, and TLC refutes each when it is added to the run
named here:

4. *The cooldown of a failed dry run does not hold* (`MailOwner.OneFailurePerHalfHour`,
   `operations` with two troubles). The failed run writes its time into the gate, the gate is part of the
   signature the cooldown is keyed by (`mail_worker.py:66-68`), so the next check sees
   another signature; `docs/JOB_CONTROL.md:145`. Only a dry run that dies
   unrecorded is held back.
5. *A deployment does not migrate the layout* (`Deployment.DeployMigrates`, `operations`).
   `docs/DOCKER_DEPLOYMENT.md:548` has layout-init before the gateway; `deploy.sh:276`
   starts the gateway without its dependencies.
6. *An empty answer is taken for absence although subjects were not searched*
   (`MailSearchAnswer.AbsenceIsTrue`, `mail_search` with a mail outside `Written`). A mail without
   a body has no chunk (`extractors.py:113-116`, `knowledge.py:144-153`), so neither its
   subject nor its sender is found; `docs/SEARCH.md:150`. And two imports within one search may prove a
   false absence (`NegativeIsProven` without its condition on `passed`, with three imports).
7. *Confirmed amounts need not add up* (`InvoiceExtract.ConfirmedAddsUp`, `records`).
   Amounts merged from two readings are never added (`invoice_extract.py:1683`);
   `docs/INVOICE_OCR_REGISTER.md:74`.
8. *An original decision may be recorded after the correction*
   (`LearningQuality.OriginalsComeFirst`, `records`), for a mail corrected before its
   first snapshot.
9. *A turn may complete with one flight entered twice* (`ActionObligation.AllAreEntered`,
   `records` with two flights, one of them entered before, and five calls a turn). Two writes of one flight count as two
   (`runtime.js:610-617`); `docs/AGENT_ACTION_COMPLETION_ROADMAP.md:440`.

Seen while modelling, excluded by name in a property rather than by the model, or
left out of the model as said here:

* *Queue and loop.* A restarted worker with its old owner string is handed its dead
  predecessor's run (`ClaimInherited`). A worker that dies queued and is switched off leaves its queued row.
  Terminating the cycle (`job_loop.py:225`) leaves its worker alive.
* *Plans.* A process that dies between marking a plan and its answer leaves it
  *executing* for good. `archive_invoice` reports a completed plan as a duplicate without
  looking at the server (`assistant_bridge.py:93`). The register's ETag is read right before the PUT
  (`files.py:202`), so that an edit in between is overwritten.
* *Events, control.* A relay and a writer can leave one event more than the documented 256.
  A recovery that is killed while the mail job is off leaves it off, and nothing switches it on again. Two
  overlapping checks announce one alert twice, although by `docs/JOB_CONTROL.md:83-84` an
  unchanged active alert is not queued repeatedly, and one that ends before its alert is queued never announces it, because the list of
  alerts is saved first (`job_control.py:1195`). Announcements are not modelled: what `AlertsAreCurrent`
  says is of the record.
* *Mail.* The quarantine pass does not look for an interrupted forwarding
  (`app.py:747`), so that a crash there may deliver twice; a hand-over that timed out after it worked may be
  repeated. Only the newest mails of a folder are listed, and enough final
  ones hide an older one (`Crowded`). The virus check moves a mail, then writes its whole row
  with the final status, then its state (`app.py:933`); a kill between the two commits forgets
  that a forwarding was interrupted, or that the user took the mail back (`blotted` exempts both).
* *Production gate.* `record_dry_run` computes the fingerprint after the run and
  overwrites an invalidation made meanwhile (`touched` exempts both).
* *Index.* Retention deletes the partition files of an interrupted backfill;
  `index canary` publishes a root that calls itself complete; a mail moved while folders are
  listed one by one is buried; one infected mail fails every reconciliation
  until it is quarantined. A hit moved from a searched to an unsearched place, or back, during the
  search is not found.
* *Calendar mails.* A command mail whose plan failed, or was cut off, is never executed again. An expired approval stays *pending* until a reply comes; a failed
  row of one version blocks the next; HTTP 412 counts as created.
* *Sync.* An object whose new path exists raises out of the run and stops every later one; any
  remote change resets the cursor; a listing cut by depth counts as whole. A kill between the
  commits of a document and its row may prove a wrong move later on, and a listing that
  `max_items` cuts within the last folder calls itself authoritative (`files.py:300-303`), so that the files
  it lacks are taken out of the index; `SyncIsFaithful` promises nothing after either (`torn`).
* *Invoices.* Backfill and mail run overwrite a correction made meanwhile. An apply that died before
  its register, followed by a correction, is rejected for ever.
* *Orders.* Any failed request for a card counts as a vanished card, and a kill
  between creating it and recording it, or a lost answer to its creation, leaves a duplicate. `BoardIsTrue`
  speaks of the card a row names, not of such duplicates. An
  unclear mail sets an order back, a tracking number first splits it in two, and the
  user's due date is overwritten.
* *Portfolio.* An alarm is committed before it is announced; two refreshes may both
  announce it; a crossing within its cooldown is lost; an older snapshot imported later
  becomes the current one.
* *Classifier.* Retries are given the limits of the first attempt and overrun the deadline; a
  spent budget in one group discards the results of the others.
* *Mail, contact and task tools.* Two sends of one draft that overlap both go out
  (`met` exempts them); a death after the approval makes it unsendable. A repeated creation
  of a contact writes the card first planned; overlapping sets of addresses
  make two cards.
* *Agreement.* An agreement typed while the dialog is open, and the button, are two; the preview's
  digest contains whether a flight is a duplicate, so that a turn with two flights cannot end.
* *Tool set-up, deployment.* Two commands at once lose one. A leftover snapshot directory
  blocks later promotions; a killed deployment has switched the environment already. The rollback
  goes on after a failed stop (`rollback.sh:138`), with containers over the directory it restores (`slipped`
  exempts it). A migration that is repeated over an installation with containers and killed before it
  sets the environment leaves the former layout under the runtime *docker*: no
  gateway starts over it, and the automatic rollback of the next deployment leaves everything stopped. A plugin project half removed stops
  every later migration.
* *Digest.* It is sent before its day is marked (`digest.py:46`).

---

## 6 Proofs

The properties below are proved for every value of the constants: any
number of jobs, owners, plans, requests, events, processes, any lease, weight, cap, mails, folders, setups, images, tools,
and any number of crashes and faults. The only assumptions are the named ones each module makes
on its constants (`ConstantTypes`, `LoopConstants`, `PlanAssumption`, `GateAssumption`,
`EventsAssumption`, `ControlAssumption`, `PipelineAssumption`, `OperationsAssumption`,
`SearchAssumption`, `RecordsAssumption`),
which say what kinds of values they are, and those of the table.

| module | theorems | inductive invariant and why it is needed | beyond the constants |
|---|---|---|---|
| `JobLoopProofs`, the queue | `TypeCorrect`, `MutualExclusion`, `OpenAttemptsOwned`, `SlotOwned`, `TokensInRows`, `ResultsStay`, `NoPreemption`, `AgesGrow`, `HistoryStays`, `QueueImplementsSlot` | `IInv` = rows `Typed` and `Sound`, clocks in range. `Sound` ties status, holder, token and attempts together; mutual exclusion alone is not inductive, because a claim looks at the rows *after* the sweep. Both are stated for arbitrary columns, so that the same lemma serves the stored and the swept rows. | - |
| `JobLoopProofs`, the workers | `NoChildStrays` | `LInv` adds the places of the workers to `IInv`; `SInv` adds `TimeSpent`: a supervised child has lived without its row no longer than renewals were missed (one turn more while this turn's renewal is to be tried), a terminated one no longer than what misses and grace have used up. Neither the length of the lease nor who sweeps it plays a part. | `Timely`: the workers are scheduled in time |
| `ActionPlansProofs` | `TypeCorrect`, `ApprovalComesFirst`, `UpdatesApplyOnce`, `ReplacedKnowingly`, `ServerDecides`, `RowsAreTrue` | `IInv` = types, and that rows, calls and effects are *cleared* by an approval where one is needed: the approval must be followed from the row through the call that loaded it (perhaps long before) to the effect. `RowsTellTheTruth` adds that a call which reports success had its plan applied. | - |
| `PriorityGateProofs` | `TypeCorrect`, `LanesAreKept`, `NobodyIsOvertaken`, `BurstsWaitForCalm`, `GrantsKeepOrder`, `NoTicketIsOrphaned` | `Types`, `Lanes` (with: a slot is held only by a thread that forwards), `Ordered` (no ticket twice in the queue, and nobody in it has waited longer than whoever stands before), `Calm` (while no foreground request has a slot the idle clock is not ahead of the time without one), `Threads` (tickets against threads). The order of overtaking needs that removal at a position keeps the order of the rest. | `NoTicketIsOrphaned`: acquire does not fail inside (`~Faulty`) |
| `GatewayEventsProofs` | `QueueIsWellFormed`, `RetriesAreBounded`, `NoEventIsLost`, `QueueIsNearlyBounded`, `DeliveryStays` | `Books`: what the relay knows of its event, that files belong to published events, and that the attempt number of a file and the deliveries made differ by at most the deaths. `HasRoom`: one event at a time is claimed, so that what a writer counted is wrong by one at most, until it publishes. | - |
| `MailPipelineProofs` | `TypeCorrect`, `BatchesFit`, `RowsSayWhere`, `NoMailIsResent`, `RestoresAreHeard`, `CorrectionsAreKept`, `UserHasLastWord` | `IInv` asks of the mail in work why it is (`Tracking`, `Reasons`), what is planned for it (`Planned`), what its row says meanwhile (`OpenRows`) and where it can be (`Located`); of every other row what it tells of moves (`RowsAreTrue`, `SpamIsKnown`), of mails taken back (`RestoresAreKnown`) and of deliveries (`DeliveriesAreKnown`). None holds alone: that a mail is not sent twice rests on the row that is committed before the hand-over, which in turn rests on the folder it was found in. | - |
| `OperationsProofs`, the jobs | `TypeCorrect` | The types alone: which process has which file open. What else one would want of the switchboard (the file is whole, an OFF stays) does not hold of overlapping commands. | - |
| `OperationsProofs`, the rest | `TestedDrains`, `DeploysAreWhole`, `SetupsAreWhole`, `SyncHolds` | One invariant a component. `OwnerInv`: a run between its look and its use saw what is current, or the change was noticed. `MigrationInv`: a step is past only when what is before it is done, and keeps so however often the script starts anew. `DeployInv`: who has units off and containers down (`OneWriter`), and the layout of the state, of the backup and of what the runtime needs (`BackupFits`). `ToolsInv`: what is on is granted by the registry that is, by the one to come, and by the one a failed setup puts back. `SyncInv`: the listing in hand shows what is there but for what was touched (`ListingFits`); what this run and the runs since the cursor's first batch are past is filed under the listed ETag (`RunKept`, `CursorKept`); and the document of a path agrees with its row (`FilesFit`), or, where documents go by UID, none is older than its row or newer than the object (`ResourceFits`). A run may end with "ok" over batches that others made, so that none of these holds without the cursor's. | only the resource of the orders is a board (in `OperationsAssumption`; `tool_setup.py:456`, `:1113`); the paths are finitely many numbers, by which they are ordered |
| `MailSearchProofs` | `IndexStaysWhole`, `SearchStaysTrue`, `ToolsHold` | One invariant a component. `SearchInv`: page by page, what a run has listed covers what nobody moved since it began (`Listed`, `Pass`), the files of every root that counts exist (`Safe`), and a root that calls itself whole comes from such a run (`Promises`). `LocatorInv`: every place that was read held the mail itself (`OwnPlace`). `AnswerInv`: what a search read stays true of the table it read it from until it decides. `LettersInv`: a plan nobody met another on was tried at most once (`Once`), and whoever works on it means its mail (`Means`). `EditsInv`: what a command is about to write keeps every field it was not asked to change as long as the ETag it read is the object's (`CommandFits`). | folders are numbered from one (the order in which they are searched); two mails differ |
| `RecordsProofs` | `ApprovalsHold`, `DepotHolds`, `AssentHolds`, `InvoicesHold`, `BoardHolds` | One invariant a component, each kept by its own steps only (`OneTurn`). `CalendarInv`: what every letter, row and reply knows of the version that was approved. `AlarmsInv` and `ValuationInv`: what a refresh holds of rules and quotes it read. `AssentInv`: a nonce in the ledger was neither used nor refused, a turn counts no more than was carried out in it and a proof is only of what was. `RegisterInv`: a run of reprocess-apply that holds its claim has behind it registers rendered by one who knew of the change (`Claims`), so that the claim which completes the audit has them all. `BoardInv`: every row names a card of its own order, and a process that is alone with an order holds the row as it is stored and the card as far as it has come (`DeskShows`); "ok" can then only be written over a card that is moved and rewritten. | - |

The temporal theorems all follow the same pattern: the initial states satisfy the
invariant, every action preserves it (one lemma or step per action), it implies the
property, and the last step is propositional temporal logic.

Only model-checked: liveness (`EveryoneIsServed`, `EverythingEnds`, `AlertsAreCurrent`, `RegisterComesBack`,
`EveryoneAnswered`, `PatientAreServed`, `EventuallySettled`, `MailGoesOn`,
`EverythingSettles`, `IndexIsCaughtUp`), because fairness and ENABLED are outside what
the installed provers handle; what recursive or folded functions compute for every
input, which would need induction over data (`LearningIsMeasured`, whose gate is sorted and
filtered from the history, `MailsAreJudgedFairly`, whose batches are cut recursively, and
`MailboxIsShown`, whose tables are folded from the mailbox). A least number of a set is had
without induction, from the well-founded order of the naturals (`LeastNumber`, `LeastPath`).
Every other safety property the passing runs check is proved, with the assumptions of the
last column.

---

## 7 What is not modelled

* *In the modelled components*: scores are integers on a coarse clock (the code
  uses floats of minutes and hours; the caps and comparisons are kept); audit rows, reports, previews and
  telemetry; in `JobControl` the frozen systemd mode, notification topics and run budgets, and
  the files that wake a job, announcements, and all but one alert code per job; in `MailPipeline` learned patterns and
  more than one quarantine folder, and the limit on moves from the quarantine in one
  run is taken to be large enough. An exception or a spent run budget that ends a run of
  the agent is the same step as its crash. In the search modules ranking, threads and the
  text itself; in `InvoiceExtract` the regular expressions that make a reading out of a
  text; in `Portfolio` research, performance reports and the other import formats; in
  `ActionObligation` the workflows besides the entry from a mail and the move of one; in
  `ToolSetup` two commands at once (section 5); in `Deployment` a directory that is copied half.
* *Composition*: the combined runs put components beside each other without shared
  state. `JobLoop` with `WorkScheduler` is the one pair composed over shared state;
  `MailOwner` over `MailPipeline` and `CalendarMail` over `ActionPlans` are cut at the
  interface described in section 1.3.
* *Antivirus*: its verdicts are choices of the modules that ask it; the transport
  to the daemon is I/O.
* *Digest*: one mail and one row a day, in sequence; its hazard is listed.
* *Containers' health checks, the rest of configuration, CLI and build tooling*: argument
  parsing, validation, rendering and I/O over the components above, without
  protocol state.
* *Prototypes and systemd units*: unused and frozen.

---

## 8 Plan

1. An abstract specification of `GatewayEvents` (a bag of events with bounded
   redelivery) and of `ActionPlans` (each plan applied after its approval), with the
   detailed modules shown to implement them.
2. `MailOwner` over `MailPipeline`, and `CalendarMail` over `ActionPlans`, composed over
   their shared state.
