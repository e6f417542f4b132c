---------------------------- MODULE NextcloudSync ----------------------------
(***************************************************************************)
(* The incremental synchronisation of one resource of the cloud into the     *)
(* knowledge index: its files, a calendar or an address book                 *)
(* (personal_assistant/connectors/nextcloud, incremental_sync.py,            *)
(* storage.py).                                                              *)
(*                                                                          *)
(* A run lists the objects, takes the next batch of them and compares their  *)
(* ETags with the inventory of the runs before.  An object is its ETag, a    *)
(* number that every change makes greater, and its UID; a document of the    *)
(* index is the ETag it was made from, 0 for none.  The user works in the    *)
(* cloud meanwhile, and a run may be killed between two of its commits.      *)
(***************************************************************************)
EXTENDS Naturals, FiniteSets, FiniteSetsExt

CONSTANTS
    Kinds,          \* of "files", "calendar" and "contacts"
    Paths,          \* paths or hrefs, in their order: an interval of numbers
    Uids,           \* numbers that are no paths
    BatchSize,
    MaxItems,       \* most files that are listed
    MaxEdits,       \* bound: changes made in the cloud
    MaxBreaks       \* bound: failed requests and killed runs

VARIABLES
    kind,           \* which resource it is
    remote,         \* the objects in the cloud
    inventory,      \* sync_inventory: per path the document and the ETag
    documents,      \* the index
    cursor,         \* the listing the next batch belongs to, and where it begins
    sync,           \* what the run does
    touched,        \* history: paths the user touched since the first batch of the cycle
    torn,           \* history: a run was killed between a document and its row, or took a
                    \* listing that MaxItems cut for the whole
    etags,          \* the last ETag
    breaks          \* failures so far

syncVars == <<kind, remote, inventory, documents, cursor, sync, touched, torn, etags, breaks>>

Sources == Paths \cup Uids
NoCursor == [generation |-> <<>>, offset |-> 0]
Asleep == [at |-> "rest", listing |-> <<>>, whole |-> TRUE, left |-> {}, next |-> 0, found |-> <<>>, failed |-> FALSE]

Init ==
    /\ kind \in Kinds
    /\ remote = [p \in Paths |-> <<>>]
    /\ inventory = [p \in Paths |-> <<>>]
    /\ documents = [s \in Sources |-> 0]
    /\ cursor = NoCursor
    /\ sync = Asleep
    /\ touched = {} /\ torn = FALSE /\ etags = 0 /\ breaks = 0

Present == {p \in Paths : remote[p] # <<>>}
Break == breaks < MaxBreaks /\ breaks' = breaks + 1
In(place) == sync.at = place

\* Files are indexed under their path, the others under their UID.
Source(p, object) == IF kind = "files" THEN p ELSE object.uid

-----------------------------------------------------------------------------
(* The user in the cloud *)

Edited(paths) == etags < MaxEdits /\ etags' = etags + 1 /\ touched' = touched \cup paths

UserWrites(p) ==
    /\ Edited({p})
    /\ \E u \in Uids :
          /\ IF remote[p] # <<>> THEN u = remote[p][1].uid ELSE \A q \in Present : remote[q][1].uid # u
          /\ remote' = [remote EXCEPT ![p] = <<[uid |-> u, etag |-> etags + 1]>>]
    /\ UNCHANGED <<kind, inventory, documents, cursor, sync, torn, breaks>>

UserDeletes(p) ==
    /\ remote[p] # <<>> /\ Edited({p}) /\ remote' = [remote EXCEPT ![p] = <<>>]
    /\ UNCHANGED <<kind, inventory, documents, cursor, sync, torn, breaks>>

\* Possibly over what is there; the ETag stays the same.
UserMoves(p, q) ==
    /\ p # q /\ remote[p] # <<>> /\ Edited({p, q})
    /\ remote' = [remote EXCEPT ![p] = <<>>, ![q] = remote[p]]
    /\ UNCHANGED <<kind, inventory, documents, cursor, sync, torn, breaks>>

-----------------------------------------------------------------------------
(* One run *)

Rank(listing, p) == Cardinality({q \in DOMAIN listing : q <= p})

\* plan_batch: a cursor of another listing is worth nothing.
Offset(listing) == IF cursor.generation = listing THEN cursor.offset ELSE 0

\* What is listed, and whether it is taken for the whole.  A folder that cannot
\* be listed makes it a part; what MaxItems cuts off does so only when folders
\* remain to be listed.
Listed(paths, whole) ==
    IF kind # "files" THEN paths = Present /\ whole
    ELSE \/ paths = Present /\ Cardinality(Present) <= MaxItems /\ whole
         \/ paths \subseteq Present /\ Cardinality(paths) = MaxItems /\ paths # Present
         \/ paths \subseteq Present /\ Cardinality(paths) <= MaxItems /\ ~whole

Discover ==
    /\ In("rest")
    /\ \E paths \in SUBSET Paths, whole \in BOOLEAN :
          /\ Listed(paths, whole)
          /\ IF whole THEN breaks' = breaks ELSE Break
          /\ LET listing == [p \in paths |-> remote[p][1]]
                 next == Min({Cardinality(paths), Offset(listing) + BatchSize})
             IN
             /\ sync' = [Asleep EXCEPT !.at = "batch", !.listing = listing, !.whole = whole, !.next = next,
                             !.left = {p \in paths : Rank(listing, p) > Offset(listing) /\ Rank(listing, p) <= next}]
             /\ touched' = IF cursor = NoCursor THEN {} ELSE touched
          /\ torn' = (torn \/ (whole /\ paths # Present))
    /\ UNCHANGED <<kind, remote, inventory, documents, cursor, etags>>

Current == Min(sync.left)
Etag == sync.listing[Current].etag
Done == [sync EXCEPT !.at = "batch", !.left = @ \ {Current}, !.found = <<>>]

Known(p) == inventory[p] # <<>> /\ inventory[p][1].etag = Etag
Unchanged == Known(Current) \/ (kind = "files" /\ documents[Current] = Etag)

\* The one row of another path with this ETag; two of them prove nothing.
MovedFrom == {q \in Paths \ {Current} : inventory[q] # <<>> /\ inventory[q][1].etag = Etag}
Moved == Cardinality(MovedFrom) = 1
Former == inventory[CHOOSE q \in MovedFrom : TRUE][1].source
Relocatable == Moved /\ (kind = "files" => documents[Former] # 0)

Skip ==
    /\ In("batch") /\ sync.left # {} /\ Unchanged
    /\ inventory' = IF inventory[Current] = <<>>
                    THEN [inventory EXCEPT ![Current] = <<[source |-> Current, etag |-> Etag]>>] ELSE inventory
    /\ sync' = Done
    /\ UNCHANGED <<kind, remote, documents, cursor, touched, torn, etags, breaks>>

\* update_document_locator: a commit of its own.
Relocate ==
    /\ In("batch") /\ sync.left # {} /\ ~Unchanged /\ Relocatable
    /\ kind = "files" => documents[Current] = 0
    /\ documents' = IF kind = "files" THEN [documents EXCEPT ![Former] = 0, ![Current] = Etag] ELSE documents
    /\ sync' = [sync EXCEPT !.at = "moved"]
    /\ UNCHANGED <<kind, remote, inventory, cursor, touched, torn, etags, breaks>>

\* A document at the new place stops the run, this one and all after it.
RelocateRefused ==
    /\ In("batch") /\ sync.left # {} /\ ~Unchanged /\ Relocatable
    /\ kind = "files" /\ documents[Current] # 0
    /\ sync' = Asleep
    /\ UNCHANGED <<kind, remote, inventory, documents, cursor, touched, torn, etags, breaks>>

MoveInventory ==
    /\ In("moved")
    /\ LET q == CHOOSE q \in MovedFrom : TRUE IN
          inventory' = [inventory EXCEPT ![q] = <<>>,
                ![Current] = <<[source |-> IF kind = "files" THEN Current ELSE inventory[q][1].source, etag |-> Etag]>>]
    /\ sync' = Done
    /\ UNCHANGED <<kind, remote, documents, cursor, touched, torn, etags, breaks>>

\* A file is filed under the ETag of the listing, whatever was downloaded; the
\* others under that of the answer.
Index ==
    /\ In("batch") /\ sync.left # {} /\ ~Unchanged /\ ~Relocatable /\ remote[Current] # <<>>
    /\ LET object == remote[Current][1]
           etag == IF kind = "files" THEN Etag ELSE object.etag
           source == Source(Current, object)
       IN  /\ documents' = [documents EXCEPT ![source] = etag]
           /\ sync' = [sync EXCEPT !.at = "indexed", !.found = <<[source |-> source, etag |-> etag]>>]
    /\ UNCHANGED <<kind, remote, inventory, cursor, touched, torn, etags, breaks>>

KeepInventory ==
    /\ In("indexed")
    /\ inventory' = [inventory EXCEPT ![Current] = sync.found]
    /\ sync' = Done
    /\ UNCHANGED <<kind, remote, documents, cursor, touched, torn, etags, breaks>>

\* The object is gone, or its download, scan or text extraction fails.
IndexFails ==
    /\ In("batch") /\ sync.left # {} /\ ~Unchanged /\ ~Relocatable
    /\ IF remote[Current] = <<>> THEN breaks' = breaks ELSE Break
    /\ sync' = [Done EXCEPT !.failed = TRUE]
    /\ UNCHANGED <<kind, remote, inventory, documents, cursor, touched, torn, etags>>

LastBatch == sync.next >= Cardinality(DOMAIN sync.listing)

\* Mutant: a part is taken for the whole.
CompleteInPart == LastBatch /\ ~sync.failed

Complete == LastBatch /\ sync.whole /\ ~sync.failed

\* The rows of vanished objects, and the documents no other row refers to.
Reconcile ==
    /\ In("batch") /\ sync.left = {}
    /\ LET stale == {p \in Paths : inventory[p] # <<>>} \ DOMAIN sync.listing
           kept == {inventory[p][1].source : p \in {q \in Paths \ stale : inventory[q] # <<>>}}
           lost == {inventory[p][1].source : p \in stale} \ kept
       IN  IF Complete
           THEN /\ documents' = [s \in Sources |-> IF s \in lost THEN 0 ELSE documents[s]]
                /\ inventory' = [p \in Paths |-> IF p \in stale THEN <<>> ELSE inventory[p]]
           ELSE UNCHANGED <<documents, inventory>>
    /\ sync' = [sync EXCEPT !.at = "save"]
    /\ UNCHANGED <<kind, remote, cursor, touched, torn, etags, breaks>>

\* set_sync_state: after a failure the same batch comes again.
SaveState ==
    /\ In("save")
    /\ cursor' = IF sync.failed THEN cursor
                 ELSE IF LastBatch THEN NoCursor
                 ELSE [generation |-> sync.listing, offset |-> sync.next]
    /\ sync' = Asleep
    /\ UNCHANGED <<kind, remote, inventory, documents, touched, torn, etags, breaks>>

Killed ==
    /\ ~In("rest") /\ Break /\ sync' = Asleep
    /\ torn' = (torn \/ In("indexed") \/ In("moved"))
    /\ UNCHANGED <<kind, remote, inventory, documents, cursor, touched, etags>>

UserStep == \E p \in Paths : UserWrites(p) \/ UserDeletes(p) \/ (\E q \in Paths : UserMoves(p, q))

Run == Skip \/ Relocate \/ RelocateRefused \/ MoveInventory \/ Index \/ KeepInventory \/ IndexFails

Next == UserStep \/ Discover \/ Run \/ Reconcile \/ SaveState \/ Killed

Spec == Init /\ [][Next]_syncVars

-----------------------------------------------------------------------------
(* Properties *)

\* A run killed between the commit of a document and that of its row leaves a
\* row that proves a wrong move later on, and MaxItems may cut the last folder of
\* a listing that calls itself authoritative; the properties leave that out.

\* A run that calls the resource "ok" leaves the right document of every object
\* that nobody touched since its first batch, although most of them were indexed by
\* earlier runs, some were moved, and runs were killed half way (sync_index).
OkMeansWhole ==
    In("save") /\ Complete /\ ~torn =>
        \A p \in DOMAIN sync.listing \ touched :
            documents[Source(p, sync.listing[p])] = sync.listing[p].etag

\* Of every step: a run never takes away the document of an object that is in the cloud
\* and was not touched since its first batch, whatever part of the listing failed
\* (reconcile_sync_inventory).
RemovedOnlyWhenGone ==
    \A s \in Sources, p \in Present \ touched : documents[s] = remote[p][1].etag /\ ~torn =>
          documents'[s] # 0 \/ \E t \in Sources : documents'[t] = documents[s]
=============================================================================
