------------------------------ MODULE DirectEdits ------------------------------
(***************************************************************************)
(* Contacts and tasks that are created and changed on Nextcloud by a direct *)
(* command (service.py contact_create, contact_from_mail, contact_update,   *)
(* task_update), while the user edits the same objects on a phone.           *)
(*                                                                          *)
(* A command reads the object, checks it, builds the whole new object from   *)
(* it, and writes that in a later step.  The life of the plan in between is   *)
(* ActionPlans'; here it is the row a creation is repeated from.              *)
(***************************************************************************)
EXTENDS Integers, FiniteSets

CONSTANTS
    Callers,        \* commands that run at the same time
    Addresses,      \* e-mail addresses
    Names,          \* names of contacts
    Times,          \* times a task may start or be due; one above 10 is a date
    MaxCalls,       \* bound: commands given
    MaxEdits,       \* bound: changes by the user
    MaxMishaps      \* bound: answers lost and commands killed

\* A created card's UID is made of its addresses; Foreign is a card of the user's.
Foreign == {}
Uids == SUBSET Addresses
Fields == {"name", "addresses", "note"}
Percents == {-1, 50}     \* what a command may give; -1: nothing

VARIABLES
    cards,          \* the address book: UID to {} or one card
    todo,           \* the task
    proposals,      \* rows of creations by UID: {} or one [card, status]
    desks,          \* the commands
    tick,           \* changes the server has seen; they give the ETags
    given,          \* commands given so far
    spent           \* edits and mishaps so far, and what the commands are about: contacts and tasks share nothing

vars == <<cards, todo, proposals, desks, tick, given, spent>>

Idle == [place |-> "idle"]
Here(u) == CHOOSE c \in cards[u] : TRUE
Present == {u \in Uids : cards[u] # {}}

\* A card's photo, birthday and unknown fields are its rest.
Card(name, addresses, note, rest, etag) ==
    [name |-> name, addresses |-> addresses, note |-> note, rest |-> rest, etag |-> etag]

Init ==
    /\ cards = [u \in Uids |-> IF u = Foreign THEN {Card(CHOOSE n \in Names : TRUE, {CHOOSE a \in Addresses : TRUE}, 0, 1, 0)}
                               ELSE {}]
    /\ todo \in [start : {0}, due : {0}, status : {"NEEDS-ACTION"}, percent : {0},
                 completed : {FALSE}, rest : {1}, series : BOOLEAN, etag : {0}]
    /\ proposals = [u \in Uids |-> {}]
    /\ desks = [c \in Callers |-> Idle]
    /\ tick = 0 /\ given = 0
    /\ spent \in [about : {"contacts", "tasks"}, edits : {0}, mishaps : {0}]

Asked(c, about) ==
    /\ desks[c] = Idle /\ spent.about = about
    /\ given < MaxCalls /\ given' = given + 1
Put(c, d) == desks' = [desks EXCEPT ![c] = d]

-----------------------------------------------------------------------------
(* Contacts *)

\* _contact_duplicate_report, and the collisions of a change.
Sharing(addresses, but) == {u \in Present \ but : Here(u).addresses \cap addresses # {}}
Called(name, but) == {u \in Present \ but : Here(u).name = name}

\* _create_contact_candidate from the list to the approved row.  A row that is
\* there keeps its card: INSERT OR IGNORE by the key of the addresses.
Create(c, addresses, name, note, anyway) ==
    /\ Asked(c, "contacts")
    /\ LET u == addresses
           new == [card |-> Card(name, addresses, note, 0, 0), status |-> "approved"]
           row == IF proposals[u] = {} THEN new ELSE CHOOSE r \in proposals[u] : TRUE
           again == IF row.status = "completed" THEN cards[u] = {} ELSE row.status # "executing"
       IN IF \/ Sharing(addresses, {}) # {}
             \/ Called(name, {}) # {} /\ ~anyway
             \/ ~again
          THEN UNCHANGED <<desks, proposals>>
          ELSE /\ proposals' = [proposals EXCEPT ![u] = {[row EXCEPT !.status = "approved"]}]
               /\ Put(c, [place |-> "creating", uid |-> u])
    /\ UNCHANGED <<cards, todo, tick, spent>>

ContactCreate(c) ==
    \E as \in Uids \ {{}}, n \in Names, note \in {0, 1}, anyway \in BOOLEAN : Create(c, as, n, note, anyway)

\* contact_from_mail: not from an automatic sender, not from a mail the scanner
\* blocks, and only with a name; the one address is the sender's.
ContactFromMail(c) ==
    \E a \in Addresses, automated, clean, preview \in BOOLEAN, n \in Names :
        /\ clean /\ ~automated /\ ~preview
        /\ Create(c, {a}, n, 2, FALSE)

\* Mutant: the vCard is built anew from the named fields.
UpdatedFromScratch(card, fields, to) ==
    [card EXCEPT !.name = IF "name" \in fields THEN to.name ELSE @,
                 !.addresses = IF "addresses" \in fields THEN to.addresses ELSE @,
                 !.note = IF "note" \in fields THEN to.note ELSE @, !.rest = 0]

\* update_vcard
Updated(card, fields, to) ==
    [card EXCEPT !.name = IF "name" \in fields THEN to.name ELSE @,
                 !.addresses = IF "addresses" \in fields THEN to.addresses ELSE @,
                 !.note = IF "note" \in fields THEN to.note ELSE @]

\* contact_update from the list to the plan with the ETag that was listed.
ContactUpdate(c) ==
    /\ Asked(c, "contacts")
    /\ \E u \in Present, fields \in SUBSET Fields \ {{}}, n \in Names, as \in Uids, anyway \in BOOLEAN :
        LET to == [name |-> n, addresses |-> as, note |-> 3]
        IN IF \/ "addresses" \in fields /\ Sharing(as, {u}) # {}
              \/ "name" \in fields /\ Called(n, {u}) # {} /\ ~anyway
           THEN UNCHANGED desks
           ELSE Put(c, [place |-> "changing", uid |-> u, fields |-> fields, etag |-> Here(u).etag,
                        card |-> Updated(Here(u), fields, to)])
    /\ UNCHANGED <<cards, todo, proposals, tick, spent>>

-----------------------------------------------------------------------------
(* Tasks *)

IsDate(t) == t > 10

\* The effective start and due date after the change, given or read.
Sound(start, due, asked) == start # 0 /\ due # 0 => IsDate(start) = IsDate(due) /\ start =< due

\* A new status sets or clears the stamp, and the percentage unless it is given.
WithStatus(task, status, percent) ==
    [task EXCEPT !.status = IF status = "none" THEN @ ELSE status,
                 !.completed = IF status = "none" THEN @ ELSE status = "COMPLETED",
                 !.percent = IF percent >= 0 THEN percent
                             ELSE IF status = "COMPLETED" THEN 100
                             ELSE IF status = "NEEDS-ACTION" THEN 0 ELSE @]

\* task_update from the selection to the plan; update_component replaces the
\* named properties, of a series only with the user's leave.
TaskUpdate(c) ==
    /\ Asked(c, "tasks")
    /\ \E asked \in {{"start"}, {"due"}, {"start", "due"}, {"status"}}, start, due \in {0} \cup Times,
          status \in {"none", "NEEDS-ACTION", "COMPLETED"}, percent \in Percents, allowed \in BOOLEAN :
        LET s == IF "start" \in asked THEN start ELSE todo.start
            d == IF "due" \in asked THEN due ELSE todo.due
            dated == [todo EXCEPT !.start = s, !.due = d]
        IN IF ~Sound(s, d, asked) \/ (todo.series /\ ~allowed)
           THEN UNCHANGED desks
           ELSE Put(c, [place |-> "tasking", fields |-> asked, etag |-> todo.etag,
                        task |-> IF "status" \in asked THEN WithStatus(dated, status, percent) ELSE dated])
    /\ UNCHANGED <<cards, todo, proposals, tick, spent>>

-----------------------------------------------------------------------------
(* The requests: If-None-Match: * for a new card, If-Match otherwise *)

Row(u, status) == proposals' = [proposals EXCEPT ![u] = {[r EXCEPT !.status = status] : r \in proposals[u]}]

Matches(current, seen) == current = seen

\* An answer may be lost after the server did it: the plan has failed then.
Lost(lost) == /\ lost => spent.mishaps < MaxMishaps
              /\ spent' = [spent EXCEPT !.mishaps = IF lost THEN @ + 1 ELSE @]

PutNew(c) ==
    /\ desks[c].place = "creating"
    /\ LET u == desks[c].uid
       IN \E lost \in BOOLEAN :
            /\ Lost(lost)
            /\ IF cards[u] = {}
               THEN /\ cards' = [cards EXCEPT ![u] = {[r.card EXCEPT !.etag = tick + 1] : r \in proposals[u]}]
                    /\ tick' = tick + 1 /\ Row(u, IF lost THEN "failed" ELSE "completed")
               ELSE Row(u, "failed") /\ UNCHANGED <<cards, tick>>
    /\ Put(c, Idle)
    /\ UNCHANGED <<todo, given>>

PutCard(c) ==
    /\ desks[c].place = "changing"
    /\ LET d == desks[c]
       IN IF \E card \in cards[d.uid] : Matches(card.etag, d.etag)
          THEN cards' = [cards EXCEPT ![d.uid] = {[d.card EXCEPT !.etag = tick + 1]}] /\ tick' = tick + 1
          ELSE UNCHANGED <<cards, tick>>
    /\ Put(c, Idle)
    /\ UNCHANGED <<todo, proposals, given, spent>>

PutTask(c) ==
    /\ desks[c].place = "tasking"
    /\ LET d == desks[c]
       IN IF Matches(todo.etag, d.etag)
          THEN todo' = [d.task EXCEPT !.etag = tick + 1] /\ tick' = tick + 1
          ELSE UNCHANGED <<todo, tick>>
    /\ Put(c, Idle)
    /\ UNCHANGED <<cards, proposals, given, spent>>

\* A command is killed; the row of its creation says "executing".
Killed(c) ==
    /\ desks[c] # Idle /\ spent.mishaps < MaxMishaps
    /\ spent' = [spent EXCEPT !.mishaps = @ + 1]
    /\ IF desks[c].place = "creating" THEN Row(desks[c].uid, "executing") ELSE UNCHANGED proposals
    /\ Put(c, Idle)
    /\ UNCHANGED <<cards, todo, tick, given>>

-----------------------------------------------------------------------------
(* The user on a phone *)

Edit ==
    /\ spent.edits < MaxEdits
    /\ spent' = [spent EXCEPT !.edits = @ + 1] /\ tick' = tick + 1
    /\ \/ \E u \in Present :
            /\ spent.about = "contacts"
            /\ cards' = [cards EXCEPT ![u] = IF u = Foreign THEN {[Here(u) EXCEPT !.rest = Here(u).rest + 1, !.etag = tick + 1]}
                                             ELSE {}]
            /\ UNCHANGED todo
       \/ \E start, due \in {0} \cup Times :
            /\ spent.about = "tasks" /\ Sound(start, due, {"start", "due"})
            /\ todo' = [todo EXCEPT !.start = start, !.due = due, !.rest = @ + 1, !.etag = tick + 1]
            /\ UNCHANGED cards
    /\ UNCHANGED <<proposals, desks, given>>

Request(c) == PutNew(c) \/ PutCard(c) \/ PutTask(c)

Next ==
    \/ \E c \in Callers :
        ContactCreate(c) \/ ContactFromMail(c) \/ ContactUpdate(c) \/ TaskUpdate(c) \/ Request(c) \/ Killed(c)
    \/ Edit

Spec == Init /\ [][Next]_vars

-----------------------------------------------------------------------------
(***************************************************************************)
(* Of every step: a request changes the fields it was asked for and no        *)
(* other: whatever the user or another command wrote since the object was     *)
(* read is not undone.                                                        *)
(***************************************************************************)
CardKeeps(u) ==
    \A c \in Callers : desks[c].place = "changing" /\ cards'[u] # cards[u] /\ desks'[c] = Idle =>
        /\ cards[u] # {} /\ cards'[u] # {}
        /\ \A old \in cards[u], new \in cards'[u] :
            /\ old.rest = new.rest
            /\ \A f \in Fields \ desks[c].fields : old[f] = new[f]

TaskKeeps ==
    \A c \in Callers : desks[c].place = "tasking" /\ todo' # todo /\ desks'[c] = Idle =>
        /\ todo'.rest = todo.rest /\ todo'.series = todo.series
        /\ \A f \in {"start", "due", "status"} \ desks[c].fields : todo'[f] = todo[f]

OnlyWhatWasAsked == (\A u \in Uids : CardKeeps(u)) /\ TaskKeeps

(***************************************************************************)
(* However partial changes follow each other, a task never ends before it    *)
(* starts, and carries a completion time exactly when it is completed.        *)
(***************************************************************************)
TaskIsSound == Sound(todo.start, todo.due, {"start", "due"}) /\ (todo.completed <=> todo.status = "COMPLETED")
=============================================================================
