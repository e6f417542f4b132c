---------------------------- MODULE MailLocators ----------------------------
(***************************************************************************)
(* How a hit of the mail search is found on the server again               *)
(* (resolve_live_locators in adapters/mail.py): the places the index knew   *)
(* are looked up one by one, natively by UIDVALIDITY and UID or by mailbox  *)
(* id and envelope, and a hit that has moved is searched for folder by      *)
(* folder, while the mailbox goes on changing.                              *)
(***************************************************************************)
EXTENDS Integers, FiniteSets

CONSTANTS
  Folders,        \* 1 .. n, in the order they are searched
  Wanted,         \* the mail of the hit
  Alike,          \* another mail with its subject and sender
  Highest,        \* largest uid
  MaxChanges      \* bound on the changes of the mailbox

VARIABLES
  mailbox,        \* [folder, uid, mail]: what lies where
  validity,       \* folder -> UIDVALIDITY
  native,         \* the configured connector is the native one
  locators,       \* places the index knew that are still to be looked up
  seen,           \* folder -> the listing of this call, <<>> before it is read
  live,           \* places found valid
  searching,      \* the next folder to search, 0 while the places are looked up
  matches,        \* what the search found
  answer,         \* what the call returned: [state, mail, folder, uid]
  fled,           \* the mail was moved or deleted while the call was running
  changes

locatorVars == <<mailbox, validity, native, locators, seen, live, searching,
                 matches, answer, fled, changes>>

Start == {[folder |-> f, uid |-> f, mail |-> IF f = 1 THEN Wanted ELSE Alike] : f \in Folders}

NoAnswer == [state |-> "none", mail |-> 0, folder |-> 0, uid |-> 0]

\* The index saw the mail at its first places; the mailbox has lived since.
Init ==
  /\ mailbox = Start
  /\ validity = [f \in Folders |-> 1]
  /\ native \in BOOLEAN
  /\ locators = {[folder |-> x.folder, uid |-> x.uid, validity |-> 1] :
                   x \in {x \in Start : x.mail = Wanted}}
  /\ seen = [f \in Folders |-> <<>>]
  /\ live = {} /\ searching = 0 /\ matches = {}
  /\ answer = NoAnswer /\ fled = FALSE /\ changes = 0

Running == answer = NoAnswer

Began == (\E f \in Folders : seen[f] # <<>>) \/ searching > 0

-----------------------------------------------------------------------------
Uids(f) == {x.uid : x \in {x \in mailbox : x.folder = f}}

Change(x, y) ==
  /\ Running /\ changes < MaxChanges
  /\ changes' = changes + 1
  /\ mailbox' = (mailbox \ x) \cup y
  /\ fled' = (fled \/ (Began /\ \E z \in x : z.mail = Wanted))
  /\ UNCHANGED <<native, locators, seen, live, searching, matches, answer>>

\* A uid is never given out twice under one UIDVALIDITY.
Moved ==
  \E x \in mailbox, f \in Folders, u \in 1..Highest :
    /\ f # x.folder /\ \A v \in Uids(f) \cup {f} : v < u
    /\ Change({x}, {[folder |-> f, uid |-> u, mail |-> x.mail]})
    /\ UNCHANGED validity

Deleted == \E x \in mailbox : Change({x}, {}) /\ UNCHANGED validity

\* The folder is made anew: what it holds gets other uids.
Renumbered ==
  \E f \in Folders, u \in 1..Highest, x \in mailbox :
    /\ x.folder = f /\ u \notin Uids(f)
    /\ Change({x}, {[x EXCEPT !.uid = u]})
    /\ validity' = [validity EXCEPT ![f] = @ + 1]

-----------------------------------------------------------------------------
\* One listing per folder and call answers every place in that folder.
Listing(f) == IF seen[f] = <<>> THEN <<[mails |-> {x \in mailbox : x.folder = f},
                                        validity |-> validity[f]]>>
              ELSE seen[f]

\* The native connector compares UIDVALIDITY, UID and subject; the other one
\* has the mailbox id and the envelope.
Found(list, l) ==
  {x \in list.mails : x.uid = l.uid /\ (native => list.validity = l.validity)}

LookUp(l) ==
  /\ Running /\ searching = 0 /\ l \in locators
  /\ seen' = [seen EXCEPT ![l.folder] = Listing(l.folder)]
  /\ locators' = locators \ {l}
  /\ live' = live \cup Found(Listing(l.folder)[1], l)
  /\ UNCHANGED <<mailbox, validity, native, searching, matches, answer, fled, changes>>

Answers(state, x) ==
  answer' = [state |-> state, mail |-> x.mail, folder |-> x.folder, uid |-> x.uid]

\* The first of the valid places in a fixed order.
Select ==
  /\ Running /\ searching = 0 /\ locators = {} /\ live # {}
  /\ \E x \in live :
       /\ \A y \in live : x.folder < y.folder \/ (x.folder = y.folder /\ x.uid <= y.uid)
       /\ Answers("validated", x)
  /\ UNCHANGED <<mailbox, validity, native, locators, seen, live, searching, matches, fled,
                 changes>>

\* Natively a place that is not valid is a conflict or missing, and that is all.
GiveUp ==
  /\ Running /\ native /\ locators = {} /\ live = {}
  /\ answer' = [NoAnswer EXCEPT !.state = "missing"]
  /\ UNCHANGED <<mailbox, validity, native, locators, seen, live, searching, matches, fled,
                 changes>>

\* Otherwise every folder is searched for the subject and the sender.
Search ==
  /\ Running /\ ~native /\ locators = {} /\ live = {}
  /\ searching <= Cardinality(Folders)
  /\ searching' = searching + 1
  /\ matches' = matches \cup {x \in mailbox : x.folder = searching}
  /\ UNCHANGED <<mailbox, validity, native, locators, seen, live, answer, fled, changes>>

Unique(found) == Cardinality(found) = 1

Resolve ==
  /\ Running /\ searching > Cardinality(Folders)
  /\ IF Unique(matches) THEN \E x \in matches : Answers("resolved-after-move", x)
     ELSE answer' = [NoAnswer EXCEPT !.state = IF matches = {} THEN "missing" ELSE "conflict"]
  /\ UNCHANGED <<mailbox, validity, native, locators, seen, live, searching, matches, fled,
                 changes>>

Next ==
  \/ Moved \/ Deleted \/ Renumbered
  \/ \E l \in locators : LookUp(l)
  \/ Select \/ GiveUp \/ Search \/ Resolve

Spec == Init /\ [][Next]_locatorVars

-----------------------------------------------------------------------------
\* The place a search hit is shown with holds that very mail, and not another
\* one that has its subject and sender or has taken its uid: natively always,
\* otherwise as long as its folder kept its ids, and after a move unless the
\* mail slipped away from the search while it ran or is deleted.
HitIsTheMail ==
  answer.mail = Alike =>
    /\ ~native
    /\ answer.state = "validated" => \E f \in Folders : validity[f] > 1
    /\ answer.state = "resolved-after-move" =>
         fled \/ \A x \in mailbox : x.mail # Wanted
=============================================================================
