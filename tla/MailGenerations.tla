--------------------------- MODULE MailGenerations ---------------------------
(***************************************************************************)
(* How a reconciliation of the mail search index finds out which mail is     *)
(* which (mail_agent/search_reconcile.py), and how the knowledge database    *)
(* takes over a generation (personal_assistant/storage.py).                  *)
(*                                                                          *)
(* A locator is a folder, its UIDVALIDITY and a UID; the server never gives  *)
(* one twice.  An occurrence is a mail that keeps its identity while it is   *)
(* moved: the identity is made from its first locator and its raw content.   *)
(* SearchIndex has the files, crashes and interleavings of these two steps.  *)
(***************************************************************************)
EXTENDS Integers, FiniteSets, Sequences, SequencesExt

CONSTANTS
    MailFolders,    \* searchable folders, numbered in the order they are scanned
    Digests,        \* raw contents of mails
    MaxPlaces       \* bound: locators and UIDVALIDITY changes there ever are

VARIABLES
    mailbox,        \* the mails: locator and content
    uids,           \* UIDs given so far in each folder
    validity,       \* UIDVALIDITY of each folder
    generation,     \* the published graph: its occurrences and tombstones, and as
                    \* history the mailbox it was made from
    tables,         \* the tables of the knowledge database
    shown           \* history: the mailbox behind the generation in the tables

vars == <<mailbox, uids, validity, generation, tables, shown>>

Init ==
    /\ mailbox = {} /\ uids = [f \in MailFolders |-> 0] /\ validity = [f \in MailFolders |-> f]
    /\ generation = [occurrences |-> {}, tombstones |-> {}, from |-> {}]
    /\ tables = [contents |-> {}, occurrences |-> {}, locators |-> {}]
    /\ shown = {}

-----------------------------------------------------------------------------
(* The mailbox *)

Used == Cardinality({p \in MailFolders \X (1..MaxPlaces) : p[2] =< uids[p[1]]})

New(f, d) == [folder |-> f, validity |-> validity[f], uid |-> uids[f] + 1, raw |-> d]

\* A mail appears in a folder: it arrives, or it is copied or moved there.
Appear(f, d, gone) ==
    /\ Used < MaxPlaces
    /\ mailbox' = (mailbox \ gone) \cup {New(f, d)}
    /\ uids' = [uids EXCEPT ![f] = @ + 1]
    /\ UNCHANGED <<validity, generation, tables, shown>>

Move(m, f) == m.folder # f /\ Appear(f, m.raw, {m})

Delete(m) ==
    /\ mailbox' = mailbox \ {m}
    /\ UNCHANGED <<uids, validity, generation, tables, shown>>

\* The folder gets a new UIDVALIDITY: all its mails have new locators.  (The
\* UID that is left out only counts the change.)
Reset(f) ==
    /\ Used < MaxPlaces
    /\ validity' = [validity EXCEPT ![f] = @ + Cardinality(MailFolders)]
    /\ uids' = [uids EXCEPT ![f] = @ + 1]
    /\ mailbox' = {IF m.folder = f THEN [m EXCEPT !.validity = validity'[f]] ELSE m : m \in mailbox}
    /\ UNCHANGED <<generation, tables, shown>>

-----------------------------------------------------------------------------
(* MailSearchReconciler.run *)

Locator(m) == [folder |-> m.folder, validity |-> m.validity, uid |-> m.uid]
Seen == {Locator(m) : m \in mailbox}

\* occurrence_identity
Id(o) == <<o.first, o.raw>>
Ids(S) == {Id(o) : o \in S}

\* publish_reused: the occurrence is where it is seen now, and was elsewhere.
Reuse(o, now) == [o EXCEPT !.current = now, !.past = (@ \cup o.current) \ now]

Matched == {Reuse(o, o.current \cap Seen) : o \in {x \in generation.occurrences : x.current \cap Seen # {}}}

Before(m, n) == \/ m.folder < n.folder
                \/ m.folder = n.folder /\ m.uid < n.uid

Pending == LET known == UNION {o.current : o \in generation.occurrences}
           IN SetToSortSeq({m \in mailbox : Locator(m) \notin known}, Before)

\* The old occurrences that a mail at a new place may have been.
Sources(done, m) ==
    {o \in generation.occurrences :
        /\ o.raw = m.raw /\ Id(o) \notin Ids(done) /\ o.current \cap Seen = {}
        /\ \A l \in o.current : l.folder = m.folder => l.validity = m.validity}

Fresh(m) == [first |-> Locator(m), raw |-> m.raw, current |-> {Locator(m)}, past |-> {}]

Place(done, m) ==
    done \cup {IF Cardinality(Sources(done, m)) = 1
               THEN Reuse(CHOOSE o \in Sources(done, m) : TRUE, {Locator(m)})
               ELSE Fresh(m)}

Final == FoldLeft(Place, Matched, Pending)

\* Current locators the new graph no longer has under the same identity.
Tombstones ==
    UNION {{[id |-> Id(o), locator |-> l, moved |-> Id(o) \in Ids(Final)] :
              l \in {x \in o.current : ~\E p \in Final : Id(p) = Id(o) /\ x \in p.current}}
           : o \in generation.occurrences}

Reconciled == [occurrences |-> Final, tombstones |-> Tombstones, from |-> mailbox]

Publish(g) == generation' = g /\ UNCHANGED <<mailbox, uids, validity, tables, shown>>

Reconcile == Publish(Reconciled)

\* A backfill knows no earlier generation: every mail is new.
Backfill == Publish([occurrences |-> {Fresh(m) : m \in mailbox}, tombstones |-> {}, from |-> mailbox])

-----------------------------------------------------------------------------
(* KnowledgeStorage.apply_mail_projection *)

Contents == {o.raw : o \in generation.occurrences}

\* The rows of one occurrence's locators, by their key.
Rows(o) == {[id |-> Id(o), locator |-> l, current |-> l \in o.current] : l \in o.current \cup o.past}

Keys(S) == {<<r.id, r.locator>> : r \in S}

\* Mutant: the locators of mail that is not in the new generation stay current.
LocatorsAfterUpsert ==
    LET rows == UNION {Rows(o) : o \in generation.occurrences}
    IN {r \in tables.locators : <<r.id, r.locator>> \notin Keys(rows)} \cup rows

\* Every locator first counts as past; the generation's own are inserted or
\* updated.
LocatorsAfter ==
    LET rows == UNION {Rows(o) : o \in generation.occurrences}
        kept == {r \in tables.locators : <<r.id, r.locator>> \notin Keys(rows)}
    IN {[r EXCEPT !.current = FALSE] : r \in kept} \cup rows

\* Occurrences are never deleted: what the generation lacks gets a tombstone.
OccurrencesAfter ==
    LET ids == Ids(generation.occurrences)
    IN {[id |-> i, dead |-> i \notin ids] : i \in ids \cup {r.id : r \in tables.occurrences}}

Import ==
    /\ tables' = [contents |-> Contents, occurrences |-> OccurrencesAfter, locators |-> LocatorsAfter]
    /\ shown' = generation.from
    /\ UNCHANGED <<mailbox, uids, validity, generation>>

\* MailSearchService.locators: the places a hit is reported at.
Places ==
    {[raw |-> r.id[2], at |-> r.locator] :
        r \in {x \in tables.locators : x.current /\ [id |-> x.id, dead |-> FALSE] \in tables.occurrences}}

-----------------------------------------------------------------------------

Next ==
    \/ \E f \in MailFolders, d \in Digests : Appear(f, d, {})
    \/ \E m \in mailbox, f \in MailFolders : Move(m, f)
    \/ \E m \in mailbox : Delete(m)
    \/ \E f \in MailFolders : Reset(f)
    \/ Reconcile \/ Backfill \/ Import

Spec == Init /\ [][Next]_vars

-----------------------------------------------------------------------------
(* Properties *)

\* After any number of reconciliations, skipped generations and imports, and
\* whatever was copied, moved, deleted or renumbered, the database reports every
\* mail exactly where it was when the imported generation was made, and nothing
\* else: no mail at a place it left, no place without its mail, none twice.
SearchShowsTheMailbox ==
    /\ Places = {[raw |-> m.raw, at |-> Locator(m)] : m \in shown}
    /\ Cardinality({r \in tables.locators : r.current}) = Cardinality(shown)
    /\ tables.contents = {m.raw : m \in shown}

\* Of every step: a mail whose content there is only once keeps its identity when it is moved,
\* also between folders whose numbering differs; it is never taken for a new
\* mail unless its own folder was renumbered.
MoveKeepsIdentity ==
    generation' = Reconciled =>
        \A o \in generation.occurrences, m \in mailbox :
          (/\ m.raw = o.raw /\ Cardinality(o.current) = 1
           /\ \A p \in generation.occurrences : p.raw = o.raw => p = o
           /\ \A n \in mailbox : n.raw = o.raw => n = m
           /\ \A l \in o.current : l.folder = m.folder => l.validity = m.validity)
          => \E p \in generation'.occurrences : Id(p) = Id(o) /\ p.current = {Locator(m)}
=============================================================================
