----------------------------- MODULE SearchIndex -----------------------------
(***************************************************************************)
(* The local mail search index: the mail owner publishes generations of a    *)
(* projection directory (mail_agent/search_backfill.py, search_reconcile.py, *)
(* search_projection_v2.py), the sync worker imports them into the knowledge *)
(* database (personal_assistant/knowledge.py, storage.py), and a search      *)
(* answers from there (personal_assistant/mail_search.py).  The mailbox      *)
(* changes at any time.  Backfill and reconciliation exclude each other by   *)
(* the process lock of the mail owner; the sync worker takes no lock.        *)
(*                                                                          *)
(* A partition file is a record with its folder, page and messages; its name *)
(* holds the digest of its content, so that a file never changes.  The root  *)
(* manifest names partitions and is replaced in one rename.                  *)
(***************************************************************************)
EXTENDS Integers, FiniteSets, Sequences, SequencesExt

CONSTANTS
    Inbox,          \* the messages in folder 1 at first, in UID order
    Later,          \* messages that may arrive
    Folders,        \* searchable folders, in the order of their identities
    Canaries,       \* the folders the operator tries a backfill of one folder on
    PageSize,       \* messages of a page of the backfill
    MaxPages,       \* pages of one backfill run
    Keep,           \* retention_generations
    Rejected,       \* messages each version of the scanner finds infected
    MaxChanges,     \* bound: changes of the mailbox
    MaxOrders,      \* bound: backfills the operator asks for; one of a canary counts twice
    MaxTroubles     \* bound: crashes, errors of the mail server, new signatures, and
                    \* times at which the generations get too old

Elements(s) == {s[i] : i \in 1..Len(s)}
Msgs == Elements(Inbox) \cup Later
Versions == DOMAIN Rejected

IndexAssumption ==
    /\ Inbox \in Seq(Elements(Inbox))
    /\ Folders \subseteq Nat \ {0} /\ 1 \in Folders /\ IsFiniteSet(Folders)
    /\ Canaries \subseteq Folders
    /\ PageSize \in Nat \ {0} /\ MaxPages \in Nat \ {0} /\ Keep \in Nat \ {0, 1}
    /\ Versions \subseteq Nat \ {0} /\ 1 \in Versions
    /\ MaxChanges \in Nat /\ MaxOrders \in Nat /\ MaxTroubles \in Nat
ASSUME IndexAssumption

VARIABLES
    box,        \* the mailbox: each folder's messages in UID order
    moved,      \* history: when each message last changed its place
    tick,       \* history: changes of the mailbox so far
    scanner,    \* the scanner's version
    files,      \* partition files on disk
    root,       \* the manifest
    archive,    \* archived roots, newest first
    check,      \* the backfill's checkpoint
    scanned,    \* scanner version in the state of the reconciliation, 0 for none
    own,        \* the mail owner's run
    rd,         \* the sync worker's import
    index,      \* the generation in the knowledge database
    spent       \* the bounded events so far

mailVars == <<box, moved, tick, scanner>>
diskVars == <<files, root, archive, check, scanned>>
readVars == <<rd, index>>
vars == <<mailVars, diskVars, own, readVars, spent>>

\* A root: its partitions, whether it claims to be complete, whether its
\* timestamp is young enough, and as history how it came about and when the
\* run began that looked at the mailbox.
NoRoot == [parts |-> {}, full |-> FALSE, fresh |-> FALSE, by |-> "none", since |-> 0]

NoCheck == [status |-> "none", print |-> <<>>, next |-> <<>>, done |-> {}, parts |-> {},
            blocked |-> {}, fresh |-> FALSE, since |-> 0]

Idle == [at |-> "idle", sel |-> {}, left |-> {}, snap |-> <<>>, since |-> 0, pages |-> 0,
         part |-> NoRoot, version |-> 0, by |-> "none", restart |-> FALSE]

Init ==
    /\ box = [f \in Folders |-> IF f = 1 THEN Inbox ELSE <<>>]
    /\ moved = [m \in Msgs |-> 0] /\ tick = 0 /\ scanner = 1
    /\ files = {} /\ root = NoRoot /\ archive = <<>> /\ check = NoCheck /\ scanned = 0
    /\ own = Idle
    /\ rd = [at |-> "idle", root |-> NoRoot] /\ index = NoRoot
    /\ spent = [orders |-> 0, troubles |-> 0]

First(S) == CHOOSE x \in S : \A y \in S : x =< y

In(m, f) == m \in Elements(box[f])

\* _flatten_records: where the messages of a root are.
Places(r) == UNION {{<<m, p.folder>> : m \in p.msgs} : p \in r.parts}

Contents(r) == UNION {p.msgs : p \in r.parts}

\* load_search_projection: every file the root names is there, and whole.
Loads(r) == r # NoRoot /\ r.parts \subseteq files

-----------------------------------------------------------------------------
(* The mailbox and the world around it *)

Change(m) == tick < MaxChanges /\ tick' = tick + 1 /\ moved' = [moved EXCEPT ![m] = tick + 1]

Without(f, m) == RemoveAt(box[f], CHOOSE i \in 1..Len(box[f]) : box[f][i] = m)

Arrive(m, f) ==
    /\ Change(m) /\ \A g \in Folders : ~In(m, g)
    /\ box' = [box EXCEPT ![f] = Append(@, m)]
    /\ UNCHANGED <<scanner, diskVars, own, readVars, spent>>

Delete(m, f) ==
    /\ Change(m) /\ In(m, f)
    /\ box' = [box EXCEPT ![f] = Without(f, m)]
    /\ UNCHANGED <<scanner, diskVars, own, readVars, spent>>

\* A message that is moved gets a new UID in its new folder.
Move(m, f, g) ==
    /\ Change(m) /\ In(m, f) /\ f # g
    /\ box' = [box EXCEPT ![f] = Without(f, m), ![g] = Append(@, m)]
    /\ UNCHANGED <<scanner, diskVars, own, readVars, spent>>

\* verify_and_move_candidate: a message a backfill found infected, which the
\* scanner still finds infected, is moved to the malware folder, which is not
\* searched.
Quarantine(m, f) ==
    /\ own.at = "idle" /\ <<m, f>> \in check.blocked /\ In(m, f) /\ m \in Rejected[scanner]
    /\ tick' = tick /\ moved' = [moved EXCEPT ![m] = tick]
    /\ box' = [box EXCEPT ![f] = Without(f, m)]
    /\ UNCHANGED <<scanner, diskVars, own, readVars, spent>>

Trouble == spent.troubles < MaxTroubles /\ spent' = [spent EXCEPT !.troubles = @ + 1]

NewSignatures ==
    /\ scanner + 1 \in Versions /\ scanner' = scanner + 1 /\ Trouble
    /\ UNCHANGED <<box, moved, tick, diskVars, own, readVars>>

\* Time passes: every timestamp written so far gets too old.
Expire ==
    /\ Trouble
    /\ root' = [root EXCEPT !.fresh = FALSE] /\ index' = [index EXCEPT !.fresh = FALSE]
    /\ rd' = [rd EXCEPT !.root.fresh = FALSE] /\ check' = [check EXCEPT !.fresh = FALSE]
    /\ UNCHANGED <<mailVars, files, archive, scanned, own>>

-----------------------------------------------------------------------------
(* A run of the mail owner begins: the folders are listed one after another *)

Begin(sel, by, restart) ==
    own' = [Idle EXCEPT !.at = "list", !.sel = sel, !.left = sel, !.since = tick, !.by = by,
                        !.restart = restart, !.snap = [f \in sel |-> <<>>]]

\* mail-agent index backfill, or index canary for one folder.
StartBackfill(sel, restart) ==
    /\ own.at = "idle"
    /\ spent' = [spent EXCEPT !.orders = @ + IF sel = Folders THEN 1 ELSE 2] /\ spent'.orders =< MaxOrders
    /\ Begin(sel, IF sel = Folders THEN "backfill" ELSE "canary", restart)
    /\ UNCHANGED <<mailVars, diskVars, readVars>>

\* _load_graph: only a complete generation that can be read is reconciled.
StartReconcile ==
    /\ own.at = "idle" /\ root.full /\ Loads(root)
    /\ Begin(Folders, "reconcile", FALSE)
    /\ UNCHANGED <<mailVars, diskVars, readVars, spent>>

\* The UIDs of one folder, read between two looks at its UIDNEXT and its count.
Snapshot ==
    /\ own.at = "list"
    /\ LET f == First(own.left) IN
         own' = [own EXCEPT !.snap[f] = box[f], !.left = @ \ {f},
                            !.at = IF own.left # {f} THEN "list"
                                   ELSE IF own.by = "reconcile" THEN "examine" ELSE "open"]
    /\ UNCHANGED <<mailVars, diskVars, readVars, spent>>

-----------------------------------------------------------------------------
(* MailSearchBackfill.run *)

Fingerprint == <<own.sel, scanner>>

Resumable == ~own.restart /\ check.print = Fingerprint /\ check.status # "complete"

OpenCheckpoint ==
    /\ own.at = "open"
    /\ IF Resumable
       THEN /\ own' = [own EXCEPT !.at = "page",
                                  !.by = IF @ = "backfill" THEN "resumed" ELSE @]
            /\ UNCHANGED check
       ELSE /\ own' = [own EXCEPT !.at = "page"]
            /\ check' = [NoCheck EXCEPT !.status = "running", !.print = Fingerprint, !.fresh = TRUE,
                                        !.next = [f \in own.sel |-> 1], !.since = own.since]
    /\ UNCHANGED <<mailVars, files, root, archive, scanned, readVars, spent>>

Open == own.sel \ check.done
Current == First(Open)
Start == (check.next[Current] - 1) * PageSize
Cut(s) == SubSeq(s, Start + 1, IF Start + PageSize < Len(s) THEN Start + PageSize ELSE Len(s))

Page == Cut(own.snap[Current])

\* Every message of the page is fetched and scanned; what the scanner rejects
\* is left out, and the page then does not count as complete.
FetchPage ==
    /\ own.at = "page" /\ Open # {} /\ own.pages < MaxPages
    /\ \A m \in Elements(Page) : In(m, Current)
    /\ LET bad == Elements(Page) \cap Rejected[scanner]
           part == [folder |-> Current, page |-> check.next[Current], ok |-> bad = {},
                    msgs |-> Elements(Page) \ bad, since |-> check.since]
       IN /\ files' = files \cup {part}
          /\ own' = [own EXCEPT !.at = "mark", !.part = part]
    /\ UNCHANGED <<mailVars, root, archive, check, scanned, readVars, spent>>

\* A message of the snapshot is gone: the error is not one the loop handles.
Interrupted ==
    /\ own.at = "page" /\ Open # {} /\ own.pages < MaxPages
    /\ \E m \in Elements(Page) : ~In(m, Current)
    /\ check' = [check EXCEPT !.status = "interrupted"] /\ own' = Idle
    /\ UNCHANGED <<mailVars, files, root, archive, scanned, readVars, spent>>

\* "projection first, cursor/checkpoint second"
MarkPage ==
    /\ own.at = "mark"
    /\ LET f == own.part.folder
           more == Start + Len(Page) < Len(own.snap[f])
       IN check' = [check EXCEPT !.parts = @ \cup {own.part}, !.next[f] = @ + 1,
                                 !.done = IF more THEN @ ELSE @ \cup {f}, !.status = "running",
                                 !.blocked = @ \cup {<<m, f>> : m \in Elements(Page) \ own.part.msgs}]
    /\ own' = [own EXCEPT !.at = "page", !.pages = @ + 1, !.part = NoRoot]
    /\ UNCHANGED <<mailVars, files, root, archive, scanned, readVars, spent>>

\* Nothing left, a limit reached, or an error of the mail server that the loop
\* takes as a reason to stop.
LastPage ==
    /\ own.at = "page"
    /\ \/ (Open = {} \/ own.pages = MaxPages) /\ UNCHANGED spent
       \/ Open # {} /\ own.pages < MaxPages /\ Trouble
    /\ own' = [own EXCEPT !.at = "root"]
    /\ UNCHANGED <<mailVars, diskVars, readVars>>

\* Mutant: a page with mail that was left out counts as complete.
BackfilledCarelessly == Open = {}

Backfilled == Open = {} /\ \A p \in check.parts : p.ok

PublishBackfill ==
    /\ own.at = "root"
    /\ root' = [parts |-> check.parts, full |-> Backfilled, fresh |-> check.fresh, by |-> own.by,
                since |-> check.since]
    /\ own' = [own EXCEPT !.at = "close"]
    /\ UNCHANGED <<mailVars, files, archive, check, scanned, readVars, spent>>

CloseCheckpoint ==
    /\ own.at = "close"
    /\ check' = [check EXCEPT !.status = IF Backfilled THEN "complete" ELSE "incomplete"]
    /\ own' = Idle
    /\ UNCHANGED <<mailVars, files, root, archive, scanned, readVars, spent>>

-----------------------------------------------------------------------------
(* MailSearchReconciler.run *)

Seen == UNION {{<<m, f>> : m \in Elements(own.snap[f])} : f \in Folders}
Forced == scanned # 0 /\ scanned # scanner

\* Mail at a place the root does not know, and mail the new scanner must see.
Fetched == IF Forced THEN Seen ELSE Seen \ Places(root)

\* A message whose content is known from another place is not scanned again.
Scanned == ({pl[1] : pl \in Seen \ Places(root)} \ Contents(root))
           \cup {pl[1] : pl \in IF Forced THEN Seen \cap Places(root) ELSE {}}

Examinable == /\ \A pl \in Fetched : In(pl[1], pl[2])
              /\ Scanned \cap Rejected[scanner] = {}

Examine ==
    /\ own.at = "examine" /\ Examinable
    /\ own' = [own EXCEPT !.version = scanner,
                          !.at = IF Seen = Places(root) /\ ~Forced THEN "refresh" ELSE "write"]
    /\ UNCHANGED <<mailVars, diskVars, readVars, spent>>

\* A message that is gone or infected: nothing is published.
GiveUp ==
    /\ own.at = "examine" /\ ~Examinable
    /\ own' = Idle
    /\ UNCHANGED <<mailVars, diskVars, readVars, spent>>

\* Mutant: a root that did not change keeps its timestamp.
RefreshNothing ==
    /\ own.at = "refresh"
    /\ root' = [root EXCEPT !.by = own.by, !.since = own.since]
    /\ own' = [own EXCEPT !.at = "confirm"]
    /\ UNCHANGED <<mailVars, files, archive, check, scanned, readVars, spent>>

\* Nothing changed: the same root gets a new timestamp.
Refresh ==
    /\ own.at = "refresh"
    /\ root' = [root EXCEPT !.fresh = TRUE, !.by = own.by, !.since = own.since]
    /\ own' = [own EXCEPT !.at = "confirm"]
    /\ UNCHANGED <<mailVars, files, archive, check, scanned, readVars, spent>>

NewParts == {[folder |-> f, page |-> 0, ok |-> TRUE, msgs |-> Elements(own.snap[f]),
              since |-> own.since] : f \in Folders}

WriteParts ==
    /\ own.at = "write"
    /\ files' = files \cup NewParts
    /\ own' = [own EXCEPT !.at = "archive"]
    /\ UNCHANGED <<mailVars, root, archive, check, scanned, readVars, spent>>

Same(r, s) == r.parts = s.parts /\ r.full = s.full

\* _archive_root writes root-<generation>.json, over an older copy of it, of which
\* there is at most one.
Archived(r) ==
    LET copies == {i \in 1..Len(archive) : Same(r, archive[i])}
    IN <<r>> \o IF copies = {} THEN archive ELSE RemoveAt(archive, CHOOSE i \in copies : TRUE)

ArchiveOld ==
    /\ own.at = "archive"
    /\ archive' = Archived(root)
    /\ own' = [own EXCEPT !.at = "publish"]
    /\ UNCHANGED <<mailVars, files, root, check, scanned, readVars, spent>>

PublishReconciled ==
    /\ own.at = "publish"
    /\ root' = [parts |-> NewParts, full |-> TRUE, fresh |-> TRUE, by |-> own.by,
                since |-> own.since]
    /\ own' = [own EXCEPT !.at = "published"]
    /\ UNCHANGED <<mailVars, files, archive, check, scanned, readVars, spent>>

ArchiveNew ==
    /\ own.at = "published"
    /\ archive' = Archived(root)
    /\ own' = [own EXCEPT !.at = "state"]
    /\ UNCHANGED <<mailVars, files, root, check, scanned, readVars, spent>>

\* _write_state, after a publication and after a refresh.
SaveState ==
    /\ own.at \in {"state", "confirm"}
    /\ scanned' = own.version
    /\ own' = IF own.at = "confirm" THEN Idle ELSE [own EXCEPT !.at = "retain"]
    /\ UNCHANGED <<mailVars, files, root, archive, check, readVars, spent>>

Kept == SubSeq(archive, 1, IF Keep < Len(archive) THEN Keep ELSE Len(archive))

Unprotected == files \ UNION {r.parts : r \in Elements(Kept)}

\* _retention unlinks what no kept root names, file by file.
Unlink ==
    /\ own.at = "retain"
    /\ \E p \in Unprotected : files' = files \ {p}
    /\ UNCHANGED <<mailVars, root, archive, check, scanned, own, readVars, spent>>

Retained ==
    /\ own.at = "retain" /\ Unprotected = {}
    /\ archive' = Kept /\ own' = Idle
    /\ UNCHANGED <<mailVars, files, root, check, scanned, readVars, spent>>

\* The process is killed, or the mail server or the disk raises.
Crash ==
    /\ own.at # "idle" /\ Trouble /\ own' = Idle
    /\ UNCHANGED <<mailVars, diskVars, readVars>>

-----------------------------------------------------------------------------
(* index_mail_snapshots and a search *)

ReadManifest ==
    /\ rd.at = "idle" /\ root # NoRoot /\ rd' = [at |-> "read", root |-> root]
    /\ UNCHANGED <<mailVars, diskVars, own, index, spent>>

Importable == Loads(rd.root) /\ rd.root.full /\ rd.root.fresh

\* The files are read, and one transaction replaces the generation in the
\* database; a root that is stale, partial or broken leaves it as it was.
Import ==
    /\ rd.at = "read" /\ rd' = [at |-> "idle", root |-> NoRoot]
    /\ index' = IF Importable THEN rd.root ELSE index
    /\ UNCHANGED <<mailVars, diskVars, own, spent>>

\* MailSearchEvidence.decision: a search without a hit reports the absence as
\* proven when the generation it reads is complete and fresh.
ClaimsAbsence(m) == index.full /\ index.fresh /\ m \notin Contents(index)

-----------------------------------------------------------------------------

World ==
    \/ \E m \in Msgs, f \in Folders : Arrive(m, f) \/ Delete(m, f) \/ Quarantine(m, f)
    \/ \E m \in Msgs, f, g \in Folders : Move(m, f, g)
    \/ NewSignatures \/ Expire

Order == \/ \E restart \in BOOLEAN : StartBackfill(Folders, restart)
         \/ \E f \in Canaries : StartBackfill({f}, FALSE)

Backfill == \/ OpenCheckpoint \/ FetchPage \/ Interrupted \/ MarkPage \/ LastPage
            \/ PublishBackfill \/ CloseCheckpoint

Reconcile == \/ Examine \/ GiveUp \/ Refresh \/ WriteParts \/ ArchiveOld \/ PublishReconciled
             \/ ArchiveNew \/ SaveState \/ Unlink \/ Retained

Owner == StartReconcile \/ Snapshot \/ Backfill \/ Reconcile

SyncWorker == ReadManifest \/ Import

Next == World \/ Order \/ Owner \/ Crash \/ SyncWorker

Spec == Init /\ [][Next]_vars

\* A run of the owner goes on, and the jobs that reconcile and import come round.
FairSpec == Spec /\ WF_vars(Owner) /\ WF_vars(SyncWorker)

-----------------------------------------------------------------------------
(* Properties *)

\* A root that a backfill made in one run, or a reconciliation.
Honest(r) == r.by \in {"backfill", "reconcile"}

\* A search that reports the absence of a message as proven is right, whatever
\* pages, folders, generations, crashes and imports its generation went through:
\* the message is nowhere in the searched folders, unless it was put there
\* after the run began that made the generation.
NoFalseAbsence ==
    \A m \in Msgs, f \in Folders :
        ClaimsAbsence(m) /\ Honest(index) /\ In(m, f) => moved[m] > index.since

\* A backfill that is interrupted and resumed loses no mail.  The code does not keep
\* it when mail of a page already read goes away meanwhile.
ResumeLosesNothing ==
    root.full /\ root.by \in {"resumed", "backfill"}
      => \A f \in Folders, m \in Msgs :
           In(m, f) /\ moved[m] =< root.since => m \in Contents(root)

\* Readers and the next run find every file of the generation published last,
\* and of the generation before it once the retention is done: whatever is
\* unlinked, and wherever a run dies.
RootIsWhole ==
    /\ Honest(root) => root.parts \subseteq files
    /\ \A i \in 1..Len(archive) : i =< Keep /\ Honest(archive[i]) => archive[i].parts \subseteq files

\* When the mailbox stays as it is, holds nothing the scanner rejects and the
\* published generation can be read, the index comes to hold exactly what is
\* in the mailbox.
IndexCatchesUp ==
    <>[](/\ root.full /\ Loads(root) /\ scanner = 1
         /\ \A f \in Folders : Elements(box[f]) \cap Rejected[scanner] = {})
      => <>[](Places(index) = UNION {{<<m, f>> : m \in Elements(box[f])} : f \in Folders})
=============================================================================
