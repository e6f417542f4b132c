------------------------------- MODULE Orders -------------------------------
(***************************************************************************)
(* Orders found in mails and the cards that show them on the Deck board      *)
(* (personal_assistant/orders.py).                                           *)
(*                                                                          *)
(* A mail is recorded as an event of its order and the order is then put on  *)
(* the board; `orders sync` does the second half for the orders it finds     *)
(* unfinished, `orders due-date-backfill` gives cards a date.  The mail      *)
(* owner and the command line are two processes with one database.  A row    *)
(* is a tuple of one record, <<>> if there is none; status and stack are     *)
(* numbers in the order of STACKS.                                           *)
(***************************************************************************)
EXTENDS Naturals, Sequences, FiniteSets, FiniteSetsExt

CONSTANTS
    Mails,          \* records: id, the status proposed, whether number and tracking are given
    MaxRuns,        \* bound: mails processed and commands run
    MaxFaults,      \* bound: failed requests and killed processes
    MaxEdits        \* bound: changes the user makes on the board

VARIABLES
    orders,         \* table orders
    latest,         \* the order with the greatest updated_at
    events,         \* table order_events
    cards,          \* the board: every card ever made
    desk,           \* per process what it does
    collided,       \* history: orders two processes worked on at a time
    runs, faults, edits

orderVars == <<orders, latest, events, cards, desk, collided, runs, faults, edits>>

Return == 6
Refunded == 7
Review == 8
Keys == {"number", "tracking", "review"}
Clerks == {"mail", "command"}
Rows == {k \in Keys : orders[k] # <<>>}
Free == [at |-> "free", todo |-> {}, key |-> "review", row |-> <<>>, card |-> <<>>]

Init ==
    /\ orders = [k \in Keys |-> <<>>] /\ latest = "review" /\ events = {}
    /\ cards = <<>>
    /\ desk = [c \in Clerks |-> Free]
    /\ collided = {}
    /\ runs = 0 /\ faults = 0 /\ edits = 0

Fault == faults < MaxFaults /\ faults' = faults + 1
Starts == runs < MaxRuns /\ runs' = runs + 1
At(c, place) == desk[c].at = place
Goes(c, place) == desk' = [desk EXCEPT ![c].at = place]
Works(c) == desk[c].at \notin {"free", "pick"}
Busy(c) == {r.key : r \in desk[c].todo} \cup (IF Works(c) THEN {desk[c].key} ELSE {})
Others(c) == UNION {Busy(d) : d \in Clerks \ {c}}

-----------------------------------------------------------------------------
(* Recording an event *)

\* The order a mail belongs to: by its number, by a parcel known already, or
\* none.
OrderOf(mail) ==
    IF mail.number THEN "number"
    ELSE IF ~mail.tracking THEN "review"
    ELSE LET known == {k \in Rows : orders[k][1].tracked}
         IN IF known = {} THEN "tracking" ELSE IF latest \in known THEN latest ELSE CHOOSE k \in known : TRUE

\* Mutant: the last mail is right.
LastWord(current, proposed) ==
    IF current = Refunded THEN Refunded ELSE IF current = Return /\ proposed # Refunded THEN Return ELSE proposed

\* Nothing ends a return but its refund, and nothing ends that; otherwise the
\* status only goes on, and anything is better than "review".
StatusAfter(current, proposed) ==
    IF current = Refunded THEN Refunded
    ELSE IF current = Return THEN IF proposed = Refunded THEN Refunded ELSE Return
    ELSE IF current = Review \/ proposed >= current THEN proposed ELSE current

\* The row of the order, which has to be shown anew.
Recorded(old, mail, k) ==
    [key |-> k, status |-> StatusAfter(IF old = <<>> THEN Review ELSE old[1].status, mail.proposed),
     tracked |-> mail.tracking \/ (old # <<>> /\ old[1].tracked), synced |-> "pending",
     card |-> IF old = <<>> THEN 0 ELSE old[1].card, stack |-> IF old = <<>> THEN 0 ELSE old[1].stack]

\* process_event: one transaction, and what it read back is put on the board.
\* A mail that was recorded before is a duplicate, shown or not.
ProcessEvent(mail) ==
    /\ At("mail", "free") /\ Starts
    /\ LET k == OrderOf(mail)
           event == [mail |-> mail.id, proposed |-> mail.proposed, key |-> k]
           row == Recorded(orders[k], mail, k)
       IN  IF orders[k] # <<>> /\ event \in events THEN UNCHANGED <<orders, latest, events, desk, collided>>
           ELSE /\ orders' = [orders EXCEPT ![k] = <<row>>] /\ latest' = k
                /\ events' = events \cup {event}
                /\ desk' = [desk EXCEPT !["mail"] = [Free EXCEPT !.at = "read", !.key = k, !.row = <<row>>]]
                /\ collided' = collided \cup ({k} \cap Others("mail"))
    /\ UNCHANGED <<cards, faults, edits>>

-----------------------------------------------------------------------------
(* Putting an order on the board *)

\* sync_pending: all unfinished rows, as they are now.
SyncPending ==
    /\ At("command", "free") /\ Starts
    /\ LET todo == {orders[k][1] : k \in {q \in Rows : orders[q][1].synced # "ok"}} IN
          /\ todo # {}
          /\ desk' = [desk EXCEPT !["command"] = [Free EXCEPT !.at = "pick", !.todo = todo]]
          /\ collided' = collided \cup ({r.key : r \in todo} \cap Others("command"))
    /\ UNCHANGED <<orders, latest, events, cards, faults, edits>>

Pick ==
    /\ At("command", "pick")
    /\ LET todo == desk["command"].todo IN
       IF todo = {} THEN desk' = [desk EXCEPT !["command"] = Free]
       ELSE \E r \in todo :
               desk' = [desk EXCEPT !["command"] =
                           [@ EXCEPT !.at = "read", !.key = r.key, !.row = <<r>>, !.todo = todo \ {r}]]
    /\ UNCHANGED <<orders, latest, events, cards, collided, runs, faults, edits>>

Mine(c) == desk[c].row[1]
Leaves(c) == desk' = [desk EXCEPT ![c] = IF c = "mail" THEN Free ELSE [@ EXCEPT !.at = "pick", !.row = <<>>, !.card = <<>>]]

\* The card is looked for in the stack the row names.
Found(r) == r.card # 0 /\ cards[r.card].stack = r.stack /\ ~cards[r.card].gone

\* Any failure of the request is taken for a card that is gone.
GetCard(c) ==
    /\ At(c, "read")
    /\ \/ /\ Found(Mine(c)) /\ faults' = faults
          /\ desk' = [desk EXCEPT ![c].at = IF cards[Mine(c).card].managed THEN "update" ELSE "refuse",
                                  ![c].card = <<cards[Mine(c).card]>>]
       \/ /\ ~Found(Mine(c)) /\ faults' = faults /\ Goes(c, "create")
       \/ /\ Mine(c).card # 0 /\ Found(Mine(c)) /\ Fault /\ Goes(c, "create")
    /\ UNCHANGED <<orders, latest, events, cards, collided, runs, edits>>

CreateCard(c) ==
    /\ At(c, "create")
    /\ cards' = Append(cards, [key |-> desk[c].key, stack |-> Mine(c).status, text |-> Mine(c).status,
                               managed |-> TRUE, gone |-> FALSE, dated |-> TRUE])
    /\ desk' = [desk EXCEPT ![c].at = "keep", ![c].row[1].card = Len(cards) + 1]
    /\ UNCHANGED <<orders, latest, events, collided, runs, faults, edits>>

\* The date the user gave stays; the whole card is written.
UpdateCard(c) ==
    /\ At(c, "update")
    /\ cards' = [cards EXCEPT ![Mine(c).card] = [desk[c].card[1] EXCEPT !.text = Mine(c).status, !.dated = TRUE,
                                                        !.stack = cards[Mine(c).card].stack, !.gone = cards[Mine(c).card].gone]]
    /\ Goes(c, IF Mine(c).stack # Mine(c).status THEN "move" ELSE "keep")
    /\ UNCHANGED <<orders, latest, events, collided, runs, faults, edits>>

MoveCard(c) ==
    /\ At(c, "move")
    /\ cards' = [cards EXCEPT ![Mine(c).card].stack = Mine(c).status]
    /\ Goes(c, "keep")
    /\ UNCHANGED <<orders, latest, events, collided, runs, faults, edits>>

SetDeck(c) ==
    /\ At(c, "keep")
    /\ orders' = [orders EXCEPT ![desk[c].key][1] =
                     [@ EXCEPT !.synced = "ok", !.card = Mine(c).card, !.stack = Mine(c).status]]
    /\ latest' = desk[c].key /\ Leaves(c)
    /\ UNCHANGED <<events, cards, collided, runs, faults, edits>>

\* A card without the marks; a request that was not carried out; or the answer to the
\* one before it, which was, is lost: nobody will know the card it created.
SyncFails(c) ==
    /\ \/ At(c, "refuse") /\ faults' = faults
       \/ desk[c].at \in {"read", "create", "update", "move", "keep"} /\ Fault
    /\ orders' = [orders EXCEPT ![desk[c].key][1].synced = "error"]
    /\ latest' = desk[c].key /\ Leaves(c)
    /\ UNCHANGED <<events, cards, collided, runs, edits>>

-----------------------------------------------------------------------------
(* backfill_missing_due_dates: one card *)

Backfill ==
    /\ At("command", "free") /\ Starts
    /\ \E k \in Rows :
          /\ Found(orders[k][1])
          /\ LET card == cards[orders[k][1].card] IN card.managed /\ ~card.dated
          /\ desk' = [desk EXCEPT !["command"] =
                         [Free EXCEPT !.at = "date", !.key = k, !.row = orders[k], !.card = <<cards[orders[k][1].card]>>]]
          /\ collided' = collided \cup ({k} \cap Others("command"))
    /\ UNCHANGED <<orders, latest, events, cards, faults, edits>>

WriteDate ==
    /\ At("command", "date")
    /\ cards' = [cards EXCEPT ![Mine("command").card] = [@ EXCEPT !.text = Mine("command").status, !.dated = TRUE]]
    /\ desk' = [desk EXCEPT !["command"] = Free]
    /\ UNCHANGED <<orders, latest, events, collided, runs, faults, edits>>

-----------------------------------------------------------------------------

Killed(c) ==
    /\ ~At(c, "free") /\ Fault /\ desk' = [desk EXCEPT ![c] = Free]
    /\ UNCHANGED <<orders, latest, events, cards, collided, runs, edits>>

\* The user moves, deletes, rewrites a card or takes its date away.
UserEdits ==
    /\ edits < MaxEdits /\ edits' = edits + 1
    /\ \E n \in 1..Len(cards) :
          /\ ~cards[n].gone
          /\ \/ \E s \in {m.proposed : m \in Mails} : cards' = [cards EXCEPT ![n].stack = s]
             \/ cards' = [cards EXCEPT ![n].gone = TRUE]
             \/ cards' = [cards EXCEPT ![n].managed = FALSE]
             \/ cards' = [cards EXCEPT ![n].dated = FALSE]
    /\ UNCHANGED <<orders, latest, events, desk, collided, runs, faults>>

Sync(c) == GetCard(c) \/ CreateCard(c) \/ UpdateCard(c) \/ MoveCard(c) \/ SetDeck(c) \/ SyncFails(c) \/ Killed(c)

Next ==
    \/ \E mail \in Mails : ProcessEvent(mail)
    \/ SyncPending \/ Pick \/ Backfill \/ WriteDate \/ UserEdits
    \/ \E c \in Clerks : Sync(c)

Spec == Init /\ [][Next]_orderVars

-----------------------------------------------------------------------------
(* Properties *)

\* Mails come late, twice and out of order, and the status is still that of the
\* one that got furthest, for every order no mail was unclear about (upsert_event).
StatusIsTheFurthest ==
    \A k \in Rows :
        LET told == {e.proposed : e \in {f \in events : f.key = k}}
        IN Review \notin told => orders[k][1].status = Max(told)

\* An order that is called "ok" is on the board as it stands, whatever request
\* failed and wherever a process was killed before, unless two processes worked
\* on it at once or the user changed the board (set_deck, upsert_event).
OkMeansShown ==
    edits = 0 => \A k \in Rows \ collided :
        orders[k][1].synced = "ok" =>
            LET card == cards[orders[k][1].card]
            IN card.key = k /\ card.stack = orders[k][1].status /\ card.text = orders[k][1].status
=============================================================================
