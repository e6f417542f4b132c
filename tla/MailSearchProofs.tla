--------------------------- MODULE MailSearchProofs ---------------------------
(***************************************************************************)
(* Proofs about the components of MCMailSearch, for every mailbox, set of     *)
(* folders, mails, contacts and commands, and without the bounds of the run.  *)
(* Each component has an inductive invariant of its own (lemma OneTurn).      *)
(*                                                                          *)
(*   SearchInv      what a run of the index has listed, page by page, covers *)
(*                  what the mailbox held when the run began and nobody moved *)
(*                  (Listed, Pass, Covered), the files of every root that    *)
(*                  counts exist (Safe), and a root that calls itself whole   *)
(*                  was made from such a run (Promise)                       *)
(*   LocatorInv     a place that was read, validated or found by the search  *)
(*                  of the other folders held the very mail (OwnPlace)       *)
(*   AnswerInv      what a search read stays true of the table it read it     *)
(*                  from until it decides (Followed, Queried, Decided)       *)
(*   LettersInv     a plan nobody worked on twice at once was tried at most  *)
(*                  once and only after it was approved (AtMostOnce), and     *)
(*                  who works on one means the mail it is about (Means)      *)
(*   EditsInv       what a command is about to write keeps every field it     *)
(*                  was not asked to change as long as the ETag it read is    *)
(*                  the object's (CommandFits)                               *)
(***************************************************************************)
EXTENDS MCMailSearch, SequenceTheorems, FiniteSetTheorems, FunctionTheorems, WellFoundedInduction, TLAPS

-----------------------------------------------------------------------------
(* A behaviour is one of one component *)

LEMMA OneTurn ==
    ASSUME [AllNext]_allVars
    PROVE  /\ turn' = turn
           /\ [Next]_vars
           /\ [Locators!Next]_locatorsVars /\ [Answer!Next]_answerVars
           /\ [Letters!Next]_lettersVars /\ [Edits!Next]_editsVars
  BY DEF AllNext, IndexStep, GenerationsStep, LocatorsStep, AnswerStep, LettersStep, EditsStep, allVars

-----------------------------------------------------------------------------
(* SearchIndex: types *)

Pages == [folder : Folders, page : Nat, ok : BOOLEAN, msgs : SUBSET Msgs, since : Nat]
Makers == {"none", "backfill", "canary", "resumed", "reconcile"}
Roots == [parts : SUBSET Pages, full : BOOLEAN, fresh : BOOLEAN, by : Makers, since : Nat]

Reading == {"page", "mark", "root", "close"}
Reconciling == {"examine", "refresh", "write", "archive", "publish", "published", "state", "confirm", "retain"}

MailTypes ==
    /\ box \in [Folders -> Seq(Msgs)] /\ scanner \in Versions
    /\ tick \in Nat /\ moved \in [Msgs -> Nat] /\ \A m \in Msgs : moved[m] =< tick

StoreTypes ==
    /\ root \in Roots /\ index \in Roots /\ rd \in [at : {"idle", "read"}, root : Roots]
    /\ archive \in Seq(Roots)

CheckTypes ==
    /\ check = [status |-> check.status, print |-> check.print, next |-> check.next, done |-> check.done,
                parts |-> check.parts, blocked |-> check.blocked, fresh |-> check.fresh, since |-> check.since]
    /\ check.parts \in SUBSET Pages /\ check.done \in SUBSET Folders /\ check.since \in Nat
    /\ check.fresh \in BOOLEAN
    /\ check.print # <<>> =>
         check.print \in (SUBSET Folders) \X Versions /\ check.next \in [check.print[1] -> Nat \ {0}]

OwnTypes ==
    /\ own = [at |-> own.at, sel |-> own.sel, left |-> own.left, snap |-> own.snap, since |-> own.since,
              pages |-> own.pages, part |-> own.part, version |-> own.version, by |-> own.by,
              restart |-> own.restart]
    /\ own.at \in {"idle", "list", "open"} \cup Reading \cup Reconciling
    /\ own.sel \in SUBSET Folders /\ own.left \subseteq own.sel
    /\ own.since \in Nat /\ own.by \in Makers
    /\ own.at # "idle" => own.snap \in [own.sel -> Seq(Msgs)]
    /\ own.at = "list" <=> own.left # {}

\* The run and its checkpoint belong together; the kind of a run fixes its steps and folders.
RunTypes ==
    /\ own.at \in Reading =>
         check.print # <<>> /\ check.print[1] = own.sel /\ own.by # "reconcile"
    /\ own.at = "mark" => own.part \in Pages /\ own.part.folder \in own.sel
    /\ own.at = "open" => own.by # "reconcile"
    /\ own.at \in Reconciling => own.by = "reconcile"
    /\ own.by \in {"backfill", "reconcile"} => own.sel = Folders

\* No run, root or checkpoint began after now.
Times ==
    /\ root.since =< tick /\ index.since =< tick /\ rd.root.since =< tick
    /\ check.since =< tick /\ own.since =< tick

-----------------------------------------------------------------------------
(* SearchIndex: what a run knows *)

\* A message a listed folder holds and the listing lacks came after the run began.
Listed ==
    own.at # "idle" =>
        \A f \in own.sel \ own.left, m \in Msgs :
            In(m, f) /\ m \notin Elements(own.snap[f]) => own.since < moved[m]

Blocked(parts) == \E p \in parts : ~p.ok
Holds(parts, m) == \E p \in parts : m \in p.msgs

\* The messages of the listing the pages read so far cover.
Upto(f) == (check.next[f] - 1) * PageSize

Covered ==
    \A f \in Folders : \A i \in 1..Len(own.snap[f]) :
        f \in check.done \/ i =< Upto(f) =>
            Holds(check.parts, own.snap[f][i]) \/ Blocked(check.parts)

\* A backfill in one run: its pages cover what it listed.
Pass ==
    own.by = "backfill" /\ own.at \in Reading =>
        /\ check.since = own.since /\ check.parts \subseteq files
        /\ Covered
        /\ own.at = "mark" =>
             /\ own.part \in files /\ own.part.folder = Current /\ Open # {}
             /\ own.part.ok => Elements(Page) \subseteq own.part.msgs

Unmoved == own.at = "refresh" => Seen = Places(root)

\* What a reconciliation needs stays on disk, and in the end the archive protects it.
Safe ==
    /\ own.by = "reconcile" => root.parts \subseteq files
    /\ own.at \in {"archive", "publish"} => NewParts \subseteq files
    /\ own.at \in {"state", "retain"} => archive # <<>> /\ archive[1].parts = root.parts

\* What a complete generation lacks was put into the mailbox after its run began.
Promise(r) ==
    r.full /\ Honest(r) =>
        \A m \in Msgs, f \in Folders : In(m, f) /\ m \notin Contents(r) => r.since < moved[m]

Promises == Promise(root) /\ Promise(rd.root) /\ Promise(index)

SearchTypes == MailTypes /\ StoreTypes /\ CheckTypes /\ OwnTypes /\ RunTypes /\ Times

SearchInv == SearchTypes /\ Listed /\ Pass /\ Unmoved /\ Safe /\ Promises /\ RootIsWhole

-----------------------------------------------------------------------------
(* Lemmas *)

\* Every set of numbers has a least one.
LEMMA LeastNumber == ASSUME NEW S, S \subseteq Nat, S # {} PROVE \E x \in S : \A y \in S : x =< y
  <1>1. PICK R : R = {p \in Nat \X Nat : p[1] < p[2]}
        OBVIOUS
  <1>2. IsWellFoundedOn(R, Nat)
        BY <1>1, NatLessThanWellFounded DEF OpToRel
  <1>3. PICK x \in S : \A y \in S : ~ (<<y, x>> \in R)
        BY <1>2, WFMin
  <1>4. \A y \in S : x =< y
    <2> TAKE y \in S
    <2>1. x \in Nat /\ y \in Nat /\ <<y, x>> \notin R
          BY <1>3
    <2>2. <<y, x>> \in R <=> y < x
          BY <1>1, <2>1
    <2> QED BY <2>1, <2>2
  <1> QED BY <1>4

LEMMA FirstIsThere == ASSUME NEW S \in SUBSET Folders, S # {} PROVE First(S) \in S
  <1>1. \E x \in S : \A y \in S : x =< y
        BY LeastNumber, IndexAssumption DEF IndexAssumption
  <1> QED BY <1>1 DEF First

\* A sequence that lost one element.
LEMMA RemovalShortens ==
    ASSUME NEW S, NEW s \in Seq(S), NEW k \in 1..Len(s)
    PROVE  /\ RemoveAt(s, k) \in Seq(S) /\ Len(RemoveAt(s, k)) = Len(s) - 1
           /\ \A j \in 1..Len(s) - 1 : RemoveAt(s, k)[j] = IF j < k THEN s[j] ELSE s[j + 1]
  <1> DEFINE a == SubSeq(s, 1, k - 1)
             b == SubSeq(s, k + 1, Len(s))
  <1>1. a \in Seq(S) /\ Len(a) = k - 1 /\ \A j \in 1..k - 1 : a[j] = s[j]
        OBVIOUS
  <1>2. b \in Seq(S) /\ Len(b) = Len(s) - k /\ \A j \in 1..Len(s) - k : b[j] = s[j + k]
        OBVIOUS
  <1> HIDE DEF a, b
  <1>3. RemoveAt(s, k) = a \o b
        BY DEF RemoveAt, a, b
  <1>4. a \o b \in Seq(S)
        BY <1>1, <1>2, ConcatProperties
  <1>5. Len(a \o b) = Len(a) + Len(b)
        BY <1>1, <1>2, ConcatProperties
  <1>6. \A j \in 1..Len(s) - 1 : (a \o b)[j] = IF j < k THEN s[j] ELSE s[j + 1]
        BY <1>1, <1>2
  <1>7. Len(a \o b) = Len(s) - 1
        BY <1>1, <1>2, <1>5
  <1> QED BY <1>3, <1>4, <1>6, <1>7

LEMMA RemovalKeepsNothingNew ==
    ASSUME NEW S, NEW s \in Seq(S), NEW k \in 1..Len(s)
    PROVE  Elements(RemoveAt(s, k)) \subseteq Elements(s)
  <1> SUFFICES ASSUME NEW j \in 1..Len(RemoveAt(s, k)) PROVE RemoveAt(s, k)[j] \in Elements(s)
      BY DEF Elements
  <1>1. Len(s) \in Nat /\ j \in 1..Len(s) - 1 /\ j \in 1..Len(s) /\ j + 1 \in 1..Len(s)
        BY RemovalShortens
  <1>2. RemoveAt(s, k)[j] = s[j] \/ RemoveAt(s, k)[j] = s[j + 1]
        BY <1>1, RemovalShortens
  <1> QED BY <1>1, <1>2 DEF Elements

LEMMA AppendAdds ==
    ASSUME NEW S, NEW s \in Seq(S), NEW m \in S
    PROVE  Append(s, m) \in Seq(S) /\ Elements(Append(s, m)) \subseteq Elements(s) \cup {m}
  <1>1. Append(s, m) \in Seq(S) /\ Len(Append(s, m)) = Len(s) + 1
        OBVIOUS
  <1>2. ASSUME NEW j \in 1..Len(s) + 1 PROVE Append(s, m)[j] \in Elements(s) \cup {m}
    <2>1. CASE j = Len(s) + 1 BY <2>1
    <2>2. CASE j \in 1..Len(s) BY <2>2 DEF Elements
    <2> QED BY <2>1, <2>2
  <1> QED BY <1>1, <1>2 DEF Elements

-----------------------------------------------------------------------------
(* SearchIndex: the mailbox lives on *)

\* What a message in the mailbox after a step was before it.
MailLives ==
    /\ MailTypes' /\ tick =< tick'
    /\ \A m \in Msgs, f \in Folders : In(m, f)' => (In(m, f) /\ moved[m] =< moved'[m]) \/ tick < moved'[m]

LEMMA MailStays == ASSUME MailTypes, UNCHANGED mailVars PROVE MailLives
  BY DEF MailTypes, mailVars, MailLives, In

LEMMA WithoutShrinks ==
    ASSUME MailTypes, NEW f \in Folders, NEW m \in Msgs, In(m, f)
    PROVE  Without(f, m) \in Seq(Msgs) /\ Elements(Without(f, m)) \subseteq Elements(box[f])
  <1>1. box[f] \in Seq(Msgs) /\ \E i \in 1..Len(box[f]) : box[f][i] = m
        BY DEF MailTypes, In, Elements
  <1>2. PICK k \in 1..Len(box[f]) : Without(f, m) = RemoveAt(box[f], k)
        BY <1>1 DEF Without
  <1> QED BY <1>1, <1>2, RemovalShortens, RemovalKeepsNothingNew

LEMMA ChangeMoves ==
    ASSUME MailTypes, NEW m \in Msgs, Change(m), box' \in [Folders -> Seq(Msgs)], scanner' = scanner,
           \A f \in Folders : Elements(box'[f]) \subseteq Elements(box[f]) \cup {m}
    PROVE  MailLives
  <1>1. tick' = tick + 1 /\ moved' = [moved EXCEPT ![m] = tick + 1]
        BY DEF Change
  <1>2. MailTypes' /\ tick =< tick'
        BY <1>1 DEF MailTypes
  <1>3. ASSUME NEW n \in Msgs, NEW f \in Folders, In(n, f)'
        PROVE  (In(n, f) /\ moved[n] =< moved'[n]) \/ tick < moved'[n]
    <2>1. CASE n = m BY <1>1, <2>1 DEF MailTypes
    <2>2. CASE n # m BY <1>1, <1>3, <2>2 DEF MailTypes, In
    <2> QED BY <2>1, <2>2
  <1> QED BY <1>2, <1>3 DEF MailLives

LEMMA WorldMoves == ASSUME MailTypes, World PROVE MailLives
  <1>1. ASSUME NEW m \in Msgs, NEW f \in Folders, Arrive(m, f) PROVE MailLives
    <2>1. box' = [box EXCEPT ![f] = Append(box[f], m)] /\ Change(m) /\ scanner' = scanner
          BY <1>1 DEF Arrive
    <2>2. Append(box[f], m) \in Seq(Msgs) /\ Elements(Append(box[f], m)) \subseteq Elements(box[f]) \cup {m}
          BY AppendAdds DEF MailTypes
    <2>3. box' \in [Folders -> Seq(Msgs)]
          BY <2>1, <2>2 DEF MailTypes
    <2>4. \A g \in Folders : Elements(box'[g]) \subseteq Elements(box[g]) \cup {m}
          BY <2>1, <2>2 DEF MailTypes
    <2> QED BY <2>1, <2>3, <2>4, ChangeMoves
  <1>2. ASSUME NEW m \in Msgs, NEW f \in Folders, Delete(m, f) PROVE MailLives
    <2>1. box' = [box EXCEPT ![f] = Without(f, m)] /\ Change(m) /\ scanner' = scanner /\ In(m, f)
          BY <1>2 DEF Delete
    <2>2. Without(f, m) \in Seq(Msgs) /\ Elements(Without(f, m)) \subseteq Elements(box[f])
          BY <2>1, WithoutShrinks
    <2>3. box' \in [Folders -> Seq(Msgs)]
          BY <2>1, <2>2 DEF MailTypes
    <2>4. \A g \in Folders : Elements(box'[g]) \subseteq Elements(box[g]) \cup {m}
          BY <2>1, <2>2 DEF MailTypes
    <2> QED BY <2>1, <2>3, <2>4, ChangeMoves
  <1>3. ASSUME NEW m \in Msgs, NEW f \in Folders, NEW g \in Folders, Move(m, f, g) PROVE MailLives
    <2>1. /\ box' = [box EXCEPT ![f] = Without(f, m), ![g] = Append(box[g], m)] /\ f # g
          /\ Change(m) /\ scanner' = scanner /\ In(m, f)
          BY <1>3 DEF Move, MailTypes
    <2>2. Without(f, m) \in Seq(Msgs) /\ Elements(Without(f, m)) \subseteq Elements(box[f])
          BY <2>1, WithoutShrinks
    <2>3. Append(box[g], m) \in Seq(Msgs) /\ Elements(Append(box[g], m)) \subseteq Elements(box[g]) \cup {m}
          BY AppendAdds DEF MailTypes
    <2>4. box' \in [Folders -> Seq(Msgs)]
          BY <2>1, <2>2, <2>3 DEF MailTypes
    <2>5. \A h \in Folders : Elements(box'[h]) \subseteq Elements(box[h]) \cup {m}
          BY <2>1, <2>2, <2>3 DEF MailTypes
    <2> QED BY <2>1, <2>4, <2>5, ChangeMoves
  <1>4. ASSUME NEW m \in Msgs, NEW f \in Folders, Quarantine(m, f) PROVE MailLives
    <2>1. /\ box' = [box EXCEPT ![f] = Without(f, m)] /\ scanner' = scanner /\ In(m, f)
          /\ tick' = tick /\ moved' = [moved EXCEPT ![m] = tick]
          BY <1>4 DEF Quarantine
    <2>2. Without(f, m) \in Seq(Msgs) /\ Elements(Without(f, m)) \subseteq Elements(box[f])
          BY <2>1, WithoutShrinks
    <2>3. MailTypes'
          BY <2>1, <2>2 DEF MailTypes
    <2>4. \A g \in Folders : Elements(box'[g]) \subseteq Elements(box[g])
          BY <2>1, <2>2 DEF MailTypes
    <2>5. \A n \in Msgs : moved[n] =< moved'[n]
          BY <2>1 DEF MailTypes
    <2>6. tick =< tick'
          BY <2>1 DEF MailTypes
    <2> QED BY <2>3, <2>4, <2>5, <2>6 DEF MailLives, In
  <1>5. ASSUME NewSignatures PROVE MailLives
        BY <1>5 DEF NewSignatures, MailTypes, MailLives, In
  <1>6. ASSUME Expire PROVE MailLives
        BY <1>6, MailStays DEF Expire
  <1> QED BY <1>1, <1>2, <1>3, <1>4, <1>5, <1>6 DEF World

-----------------------------------------------------------------------------
(* SearchIndex: what a step leaves as it was *)

\* The promise of a generation in the mailbox after the step.
StillTrue(r) ==
    r.full /\ Honest(r) =>
        \A m \in Msgs, f \in Folders : In(m, f)' /\ m \notin Contents(r) => r.since < moved'[m]

SameClaim(r, s) == r.parts = s.parts /\ r.full = s.full /\ r.by = s.by /\ r.since = s.since

LEMMA PromiseIsKept ==
    ASSUME MailTypes, MailLives, NEW r, NEW s, r.since \in Nat, r.since =< tick, Promise(r), SameClaim(r, s)
    PROVE  StillTrue(s)
  <1> SUFFICES ASSUME s.full, Honest(s), NEW m \in Msgs, NEW f \in Folders, In(m, f)', m \notin Contents(s)
               PROVE  s.since < moved'[m]
      BY DEF StillTrue
  <1>1. r.full /\ Honest(r) /\ m \notin Contents(r) /\ s.since = r.since
        BY DEF SameClaim, Honest, Contents
  <1>2. moved[m] \in Nat /\ moved'[m] \in Nat /\ tick \in Nat
        BY DEF MailTypes, MailLives
  <1>3. CASE In(m, f) /\ moved[m] =< moved'[m]
    <2>1. r.since < moved[m]
          BY <1>1, <1>3 DEF Promise
    <2> QED BY <1>1, <1>2, <1>3, <2>1
  <1>4. CASE tick < moved'[m]
        BY <1>1, <1>2, <1>4
  <1> QED BY <1>3, <1>4 DEF MailLives

LEMMA PromisesAreKept ==
    ASSUME MailTypes, MailLives, StoreTypes, Times, Promises,
           SameClaim(root, root'), SameClaim(index, index'), SameClaim(rd.root, rd'.root)
    PROVE  Promises'
  <1>1. root.since \in Nat /\ index.since \in Nat /\ rd.root.since \in Nat
        BY DEF StoreTypes, Roots
  <1>2. StillTrue(root') /\ StillTrue(index') /\ StillTrue(rd'.root)
        BY <1>1, PromiseIsKept DEF Promises, Times
  <1> QED BY <1>2 DEF StillTrue, Promise, Promises, Honest, Contents

Shape(o) ==
    o = [at |-> o.at, sel |-> o.sel, left |-> o.left, snap |-> o.snap, since |-> o.since, pages |-> o.pages,
         part |-> o.part, version |-> o.version, by |-> o.by, restart |-> o.restart]

\* The run goes on with another step and keeps what it listed.
GoesTo(a) ==
    /\ Shape(own') /\ own'.at = a
    /\ own'.sel = own.sel /\ own'.left = own.left /\ own'.snap = own.snap /\ own'.since = own.since
    /\ own'.by = own.by /\ own'.part = own.part

LEMMA Going ==
    ASSUME OwnTypes, NEW a, own' = [own EXCEPT !.at = a] \/ \E v : own' = [own EXCEPT !.version = v, !.at = a]
    PROVE  GoesTo(a)
  <1>1. Shape(own)
        BY DEF OwnTypes, Shape
  <1>2. CASE own' = [own EXCEPT !.at = a]
        BY <1>1, <1>2 DEF Shape, GoesTo
  <1>3. ASSUME NEW v, own' = [own EXCEPT !.version = v, !.at = a] PROVE GoesTo(a)
        BY <1>1, <1>3 DEF Shape, GoesTo
  <1> QED BY <1>2, <1>3

LEMMA GoingKeepsTypes ==
    ASSUME OwnTypes, NEW a \in {"open"} \cup Reading \cup Reconciling, GoesTo(a), own.at # "idle", own.at # "list"
    PROVE  OwnTypes'
  BY DEF OwnTypes, GoesTo, Shape, Reading, Reconciling

LEMMA GoingKeepsListed ==
    ASSUME Listed, NEW a, GoesTo(a), own.at # "idle", UNCHANGED mailVars
    PROVE  Listed'
  BY DEF Listed, GoesTo, mailVars, In

\* A run that ends leaves nothing behind but what is on disk.
LEMMA Stopping ==
    ASSUME own' = Idle, MailTypes'
    PROVE  OwnTypes' /\ RunTypes' /\ Listed' /\ Pass' /\ Unmoved' /\ Safe' /\ own'.since = 0
  <1>1. /\ own'.at = "idle" /\ own'.sel = {} /\ own'.left = {} /\ own'.since = 0 /\ own'.by = "none"
        /\ Shape(own')
        BY DEF Idle, Shape
  <1>2. OwnTypes'
        BY <1>1 DEF OwnTypes, Shape, Makers
  <1>3. RunTypes'
        BY <1>1 DEF RunTypes, Reading, Reconciling
  <1> QED BY <1>1, <1>2, <1>3 DEF Listed, Pass, Unmoved, Safe

-----------------------------------------------------------------------------
(* SearchIndex: the world around the run *)

\* The marks of freshness may go; nothing else of the stores changes.
Ages ==
    /\ UNCHANGED <<files, archive, own>>
    /\ root' \in Roots /\ index' \in Roots /\ rd' \in [at : {"idle", "read"}, root : Roots]
    /\ SameClaim(root, root') /\ SameClaim(index, index') /\ SameClaim(rd.root, rd'.root)
    /\ CheckTypes' /\ check'.print = check.print /\ check'.next = check.next /\ check'.done = check.done
    /\ check'.parts = check.parts /\ check'.since = check.since

LEMMA WorldAges == ASSUME StoreTypes, CheckTypes, World PROVE Ages
  <1>1. ASSUME Expire PROVE Ages
    <2>1. /\ root' = [root EXCEPT !.fresh = FALSE] /\ index' = [index EXCEPT !.fresh = FALSE]
          /\ rd' = [rd EXCEPT !.root.fresh = FALSE] /\ check' = [check EXCEPT !.fresh = FALSE]
          /\ UNCHANGED <<files, archive, own>>
          BY <1>1 DEF Expire
    <2>2. root' \in Roots /\ SameClaim(root, root')
          BY <2>1 DEF StoreTypes, Roots, SameClaim
    <2>3. index' \in Roots /\ SameClaim(index, index')
          BY <2>1 DEF StoreTypes, Roots, SameClaim
    <2>4. rd' \in [at : {"idle", "read"}, root : Roots] /\ SameClaim(rd.root, rd'.root)
          BY <2>1 DEF StoreTypes, Roots, SameClaim
    <2>5. /\ check'.print = check.print /\ check'.next = check.next /\ check'.done = check.done
          /\ check'.parts = check.parts /\ check'.since = check.since /\ CheckTypes'
          BY <2>1 DEF CheckTypes
    <2> QED BY <2>1, <2>2, <2>3, <2>4, <2>5 DEF Ages
  <1>2. ASSUME UNCHANGED <<diskVars, own, readVars>> PROVE Ages
        BY <1>2 DEF Ages, diskVars, readVars, StoreTypes, CheckTypes, SameClaim
  <1>3. Expire \/ UNCHANGED <<diskVars, own, readVars>>
        BY DEF World, Arrive, Delete, Move, Quarantine, NewSignatures
  <1> QED BY <1>1, <1>2, <1>3

LEMMA WorldKeeps == ASSUME SearchInv, World PROVE SearchInv'
  <1>1. Ages /\ MailLives
        BY WorldAges, WorldMoves DEF SearchInv, SearchTypes
  <1>2. MailTypes' /\ tick =< tick' /\ tick \in Nat /\ tick' \in Nat
        BY <1>1 DEF MailLives, MailTypes, SearchInv, SearchTypes
  <1>3. StoreTypes' /\ CheckTypes' /\ OwnTypes'
        BY <1>1 DEF Ages, StoreTypes, OwnTypes, SearchInv, SearchTypes
  <1>4. RunTypes'
        BY <1>1 DEF Ages, RunTypes, SearchInv, SearchTypes
  <1>5. Times'
        BY <1>1, <1>2 DEF Ages, Times, SameClaim, SearchInv, SearchTypes, StoreTypes, CheckTypes, OwnTypes, Roots
  <1>6. Listed'
    <2> SUFFICES ASSUME own.at # "idle", NEW f \in own.sel \ own.left, NEW m \in Msgs, In(m, f)',
                        m \notin Elements(own.snap[f])
                 PROVE  own.since < moved'[m]
        BY <1>1 DEF Listed, Ages
    <2>1. f \in Folders /\ own.since \in Nat /\ own.since =< tick /\ moved[m] \in Nat /\ moved'[m] \in Nat
          BY <1>2 DEF SearchInv, SearchTypes, OwnTypes, Times, MailTypes
    <2>2. CASE In(m, f) /\ moved[m] =< moved'[m]
      <3>1. own.since < moved[m]
            BY <2>2 DEF SearchInv, Listed
      <3> QED BY <2>1, <2>2, <3>1
    <2>3. CASE tick < moved'[m]
          BY <2>1, <2>3, <1>2
    <2> QED BY <1>1, <2>1, <2>2, <2>3 DEF MailLives
  <1>7. Pass'
        BY <1>1 DEF Ages, Pass, Covered, Upto, Page, Cut, Start, Current, Open, SearchInv
  <1>8. Unmoved' /\ Safe'
        BY <1>1 DEF Ages, Unmoved, Safe, Seen, Places, NewParts, SameClaim, SearchInv
  <1>9. Promises'
        BY <1>1, PromisesAreKept DEF Ages, SearchInv, SearchTypes
  <1>10. RootIsWhole'
        BY <1>1 DEF Ages, RootIsWhole, Honest, SameClaim, SearchInv
  <1> QED BY <1>2, <1>3, <1>4, <1>5, <1>6, <1>7, <1>8, <1>9, <1>10 DEF SearchInv, SearchTypes

-----------------------------------------------------------------------------
(* SearchIndex: the run *)

\* A step of the run leaves the mailbox and the readers alone.
LEMMA RunStep ==
    ASSUME SearchInv, UNCHANGED <<mailVars, readVars>>,
           root' \in Roots, archive' \in Seq(Roots), CheckTypes', OwnTypes', RunTypes',
           root'.since =< tick, check'.since =< tick, own'.since =< tick,
           Listed', Pass', Unmoved', Safe', Promise(root)', RootIsWhole'
    PROVE  SearchInv'
  <1>1. MailTypes' /\ tick' = tick
        BY DEF MailTypes, mailVars, SearchInv, SearchTypes
  <1>2. StoreTypes'
        BY DEF StoreTypes, readVars, SearchInv, SearchTypes
  <1>3. Times'
        BY <1>1 DEF Times, readVars, SearchInv, SearchTypes
  <1>4. Promise(index)' /\ Promise(rd.root)'
        BY DEF Promise, Promises, In, mailVars, readVars, SearchInv
  <1> QED BY <1>1, <1>2, <1>3, <1>4 DEF SearchInv, SearchTypes, Promises

LEMMA DiskStays ==
    ASSUME SearchInv, UNCHANGED <<mailVars, diskVars>>
    PROVE  /\ root' \in Roots /\ archive' \in Seq(Roots) /\ CheckTypes'
           /\ root'.since =< tick /\ check'.since =< tick /\ Promise(root)' /\ RootIsWhole'
  <1>1. CheckTypes'
        BY DEF CheckTypes, diskVars, SearchInv, SearchTypes
  <1>2. Promise(root)'
        BY DEF Promise, Promises, In, mailVars, diskVars, SearchInv
  <1>3. RootIsWhole'
        BY DEF RootIsWhole, diskVars, SearchInv
  <1> QED BY <1>1, <1>2, <1>3 DEF diskVars, SearchInv, SearchTypes, StoreTypes, Times

LEMMA Beginning ==
    ASSUME SearchInv, NEW sel \in SUBSET Folders, sel # {}, NEW by \in Makers, NEW restart,
           Begin(sel, by, restart), UNCHANGED <<mailVars, diskVars, readVars>>,
           by \in {"backfill", "reconcile"} => sel = Folders,
           by = "reconcile" => root.parts \subseteq files
    PROVE  SearchInv'
  <1>1. /\ own'.at = "list" /\ own'.sel = sel /\ own'.left = sel /\ own'.since = tick /\ own'.by = by
        /\ own'.snap = [f \in sel |-> <<>>] /\ Shape(own')
        BY DEF Begin, Idle, Shape
  <1>2. tick \in Nat
        BY DEF SearchInv, SearchTypes, MailTypes
  <1>3. OwnTypes'
        BY <1>1, <1>2 DEF OwnTypes, Shape
  <1>4. RunTypes'
        BY <1>1 DEF RunTypes, Reading, Reconciling
  <1>5. Listed' /\ Pass' /\ Unmoved'
        BY <1>1 DEF Listed, Pass, Unmoved, Reading
  <1>6. Safe'
        BY <1>1 DEF Safe, diskVars
  <1>7. own'.since =< tick
        BY <1>1, <1>2
  <1> QED BY <1>3, <1>4, <1>5, <1>6, <1>7, DiskStays, RunStep

LEMMA OrderKeeps == ASSUME SearchInv, Order PROVE SearchInv'
  <1>1. ASSUME NEW sel \in SUBSET Folders, sel # {}, NEW restart, StartBackfill(sel, restart) PROVE SearchInv'
    <2>1. PICK by \in Makers : by = IF sel = Folders THEN "backfill" ELSE "canary"
          BY DEF Makers
    <2>2. Begin(sel, by, restart) /\ UNCHANGED <<mailVars, diskVars, readVars>>
          BY <1>1, <2>1 DEF StartBackfill
    <2> QED BY <1>1, <2>1, <2>2, Beginning
  <1>2. Folders \in SUBSET Folders /\ Folders # {} /\ \A f \in Canaries : {f} \in SUBSET Folders /\ {f} # {}
        BY IndexAssumption DEF IndexAssumption
  <1> QED BY <1>1, <1>2 DEF Order

LEMMA StartReconcileKeeps == ASSUME SearchInv, StartReconcile PROVE SearchInv'
  <1>1. Begin(Folders, "reconcile", FALSE) /\ UNCHANGED <<mailVars, diskVars, readVars>> /\ root.parts \subseteq files
        BY DEF StartReconcile, Loads
  <1>2. "reconcile" \in Makers /\ Folders \in SUBSET Folders /\ Folders # {}
        BY IndexAssumption DEF IndexAssumption, Makers
  <1> QED BY <1>1, <1>2, Beginning

LEMMA SnapshotKeeps == ASSUME SearchInv, Snapshot PROVE SearchInv'
  <1>1. own.at = "list" /\ own.left \in SUBSET Folders /\ own.left # {} /\ own.left \subseteq own.sel
        BY DEF Snapshot, SearchInv, SearchTypes, OwnTypes
  <1>2. PICK f : f = First(own.left)
        OBVIOUS
  <1>3. f \in own.left /\ f \in own.sel /\ f \in Folders
        BY <1>1, <1>2, FirstIsThere
  <1>4. own.snap \in [own.sel -> Seq(Msgs)] /\ box[f] \in Seq(Msgs) /\ own.sel \in SUBSET Folders
        BY <1>1, <1>3 DEF SearchInv, SearchTypes, OwnTypes, MailTypes
  <1>5. PICK step : step = IF own.left # {f} THEN "list" ELSE IF own.by = "reconcile" THEN "examine" ELSE "open"
        OBVIOUS
  <1>6. /\ own' = [own EXCEPT !.snap[f] = box[f], !.left = own.left \ {f}, !.at = step]
        /\ UNCHANGED <<mailVars, diskVars, readVars>>
        BY <1>2, <1>5 DEF Snapshot, SearchInv, SearchTypes, OwnTypes
  <1>7. Shape(own)
        BY DEF Shape, SearchInv, SearchTypes, OwnTypes
  <1>8. /\ Shape(own') /\ own'.at = step /\ own'.sel = own.sel /\ own'.left = own.left \ {f}
        /\ own'.snap = [own.snap EXCEPT ![f] = box[f]] /\ own'.since = own.since /\ own'.by = own.by
        BY <1>6, <1>7 DEF Shape
  <1>9. own'.snap \in [own.sel -> Seq(Msgs)]
        BY <1>4, <1>8
  <1>10. step \in {"list", "open", "examine"} /\ (step = "list" <=> own.left \ {f} # {})
        BY <1>3, <1>5
  <1>11. OwnTypes'
    <2>1. own'.at \in {"idle", "list", "open"} \cup Reading \cup Reconciling
          BY <1>8, <1>10 DEF Reading, Reconciling
    <2>2. own'.left \subseteq own'.sel /\ own'.since \in Nat /\ own'.by \in Makers
          BY <1>1, <1>8 DEF SearchInv, SearchTypes, OwnTypes
    <2> QED BY <1>4, <1>8, <1>9, <1>10, <2>1, <2>2 DEF OwnTypes, Shape
  <1>12. RunTypes'
        BY <1>5, <1>8, <1>10 DEF RunTypes, Reading, Reconciling, SearchInv, SearchTypes
  <1>13. Listed'
    <2> SUFFICES ASSUME NEW g \in own.sel \ (own.left \ {f}), NEW m \in Msgs, In(m, g),
                        m \notin Elements(own'.snap[g])
                 PROVE  own.since < moved[m]
        BY <1>6, <1>8 DEF Listed, In, mailVars
    <2>1. g # f
          BY <1>4, <1>8 DEF In
    <2>2. own'.snap[g] = own.snap[g] /\ g \in own.sel \ own.left
          BY <1>4, <1>8, <2>1
    <2> QED BY <1>1, <2>2 DEF Listed, SearchInv
  <1>14. Pass' /\ Unmoved' /\ Safe'
        BY <1>6, <1>8, <1>10 DEF Pass, Unmoved, Safe, diskVars, Reading, SearchInv
  <1>15. own'.since =< tick
        BY <1>8 DEF SearchInv, SearchTypes, Times
  <1> QED BY <1>6, <1>11, <1>12, <1>13, <1>14, <1>15, DiskStays, RunStep

\* A run that ends, and changes nothing but the status of its checkpoint.
LEMMA EndKeeps ==
    ASSUME SearchInv, own' = Idle, UNCHANGED <<mailVars, files, root, archive, readVars>>,
           CheckTypes', check'.since = check.since
    PROVE  SearchInv'
  <1>1. MailTypes' /\ tick \in Nat
        BY DEF MailTypes, mailVars, SearchInv, SearchTypes
  <1>2. OwnTypes' /\ RunTypes' /\ Listed' /\ Pass' /\ Unmoved' /\ Safe' /\ own'.since = 0
        BY <1>1, Stopping
  <1>3. own'.since =< tick /\ root'.since =< tick /\ check'.since =< tick
        BY <1>1, <1>2 DEF SearchInv, SearchTypes, Times
  <1>4. Promise(root)' /\ RootIsWhole'
        BY DEF Promise, Promises, RootIsWhole, In, mailVars, SearchInv
  <1>5. root' \in Roots /\ archive' \in Seq(Roots)
        BY DEF StoreTypes, SearchInv, SearchTypes
  <1> QED BY <1>2, <1>3, <1>4, <1>5, RunStep

LEMMA EndsKeep == ASSUME SearchInv, Crash \/ GiveUp \/ Interrupted \/ CloseCheckpoint PROVE SearchInv'
  <1>1. own' = Idle /\ UNCHANGED <<mailVars, files, root, archive, readVars>>
        BY DEF Crash, GiveUp, Interrupted, CloseCheckpoint, diskVars
  <1>2. check' = check \/ \E s : check' = [check EXCEPT !.status = s]
        BY DEF Crash, GiveUp, Interrupted, CloseCheckpoint, diskVars
  <1>3. CheckTypes' /\ check'.since = check.since
    <2>1. CASE check' = check BY <2>1 DEF CheckTypes, SearchInv, SearchTypes
    <2>2. ASSUME NEW s, check' = [check EXCEPT !.status = s] PROVE CheckTypes' /\ check'.since = check.since
          BY <2>2 DEF CheckTypes, SearchInv, SearchTypes
    <2> QED BY <1>2, <2>1, <2>2
  <1> QED BY <1>1, <1>3, EndKeeps

-----------------------------------------------------------------------------
(* SearchIndex: a backfill reads its pages *)

\* What a page of n elements after the first a of a sequence holds.
LEMMA PageOf ==
    ASSUME NEW S, NEW s \in Seq(S), NEW a \in Nat, NEW n \in Nat \ {0},
           NEW c, c = SubSeq(s, a + 1, IF a + n < Len(s) THEN a + n ELSE Len(s))
    PROVE  /\ c \in Seq(S)
           /\ \A i \in 1..Len(s) : a < i /\ i =< a + n => s[i] \in Elements(c)
           /\ Len(s) =< a + Len(c) => \A i \in 1..Len(s) : a < i => s[i] \in Elements(c)
  <1>1. PICK h \in Int : h = IF a + n < Len(s) THEN a + n ELSE Len(s)
        OBVIOUS
  <1>2. /\ c \in Seq(S) /\ Len(c) = IF a + 1 =< h THEN h - a ELSE 0
        /\ \A j \in 1..h - a : c[j] = s[a + j]
    <2>1. c = SubSeq(s, a + 1, h) /\ a + 1 \in Int /\ h =< Len(s)
          BY <1>1
    <2>2. \A i \in a + 1..h : s[i] \in S
          BY <2>1
    <2> QED BY <2>1, <2>2, SMTT(30)
  <1>3. \A i \in 1..Len(s) : a < i /\ i =< h => s[i] \in Elements(c)
    <2> SUFFICES ASSUME NEW i \in 1..Len(s), a < i, i =< h PROVE s[i] \in Elements(c)
        OBVIOUS
    <2>1. i - a \in 1..Len(c) /\ c[i - a] = s[a + (i - a)] /\ a + (i - a) = i
          BY <1>2
    <2> QED BY <2>1 DEF Elements
  <1>4. \A i \in 1..Len(s) : a < i /\ i =< a + n => i =< h
        BY <1>1
  <1>5. Len(s) =< a + Len(c) => \A i \in 1..Len(s) : a < i => i =< h
    <2>1. CASE a + n < Len(s)
      <3>1. h = a + n /\ Len(c) = n /\ Len(s) \in Nat
            BY <1>1, <1>2, <2>1
      <3> QED BY <2>1, <3>1
    <2>2. CASE ~(a + n < Len(s))
          BY <1>1, <2>2
    <2> QED BY <2>1, <2>2
  <1> QED BY <1>2, <1>3, <1>4, <1>5

LEMMA PageSeen ==
    ASSUME SearchInv, own.at \in {"page", "mark"}, Open # {}
    PROVE  /\ Current \in Open /\ Current \in own.sel /\ Current \in Folders
           /\ own.snap[Current] \in Seq(Msgs) /\ check.next[Current] \in Nat \ {0}
           /\ check.next \in [own.sel -> Nat \ {0}]
           /\ Start = Upto(Current) /\ Start \in Nat /\ PageSize \in Nat \ {0}
           /\ Page \in Seq(Msgs)
           /\ \A i \in 1..Len(own.snap[Current]) :
                Start < i /\ i =< Start + PageSize => own.snap[Current][i] \in Elements(Page)
           /\ Len(own.snap[Current]) =< Start + Len(Page) =>
                \A i \in 1..Len(own.snap[Current]) : Start < i => own.snap[Current][i] \in Elements(Page)
  <1>1. Open \in SUBSET Folders /\ Open \subseteq own.sel /\ own.sel \in SUBSET Folders
        BY DEF Open, SearchInv, SearchTypes, OwnTypes
  <1>2. Current \in Open
        BY <1>1, FirstIsThere DEF Current
  <1>3. /\ own.snap \in [own.sel -> Seq(Msgs)] /\ check.next \in [own.sel -> Nat \ {0}]
        BY DEF SearchInv, SearchTypes, OwnTypes, RunTypes, CheckTypes, Reading
  <1>4. PICK s \in Seq(Msgs) : s = own.snap[Current]
        BY <1>1, <1>2, <1>3
  <1>5. PICK k \in Nat \ {0} : k = check.next[Current]
        BY <1>1, <1>2, <1>3
  <1>6. PageSize \in Nat \ {0}
        BY IndexAssumption DEF IndexAssumption
  <1>7. Start = (k - 1) * PageSize /\ k - 1 \in Nat
        BY <1>5 DEF Start
  <1>8. Start \in Nat
        BY <1>6, <1>7
  <1>9. Page = SubSeq(s, Start + 1, IF Start + PageSize < Len(s) THEN Start + PageSize ELSE Len(s))
        BY <1>4 DEF Page, Cut
  <1>10. /\ Page \in Seq(Msgs)
         /\ \A i \in 1..Len(s) : Start < i /\ i =< Start + PageSize => s[i] \in Elements(Page)
         /\ Len(s) =< Start + Len(Page) => \A i \in 1..Len(s) : Start < i => s[i] \in Elements(Page)
         BY <1>6, <1>8, <1>9, PageOf
  <1>11. Start = Upto(Current)
         BY <1>5, <1>7 DEF Upto
  <1> QED BY <1>1, <1>2, <1>3, <1>4, <1>5, <1>6, <1>8, <1>10, <1>11

LEMMA OpenCheckpointKeeps == ASSUME SearchInv, OpenCheckpoint PROVE SearchInv'
  <1>1. own.at = "open" /\ own.left = {} /\ own.by # "reconcile" /\ own.sel \in SUBSET Folders /\ own.by \in Makers
        BY DEF OpenCheckpoint, SearchInv, SearchTypes, OwnTypes, RunTypes
  <1>2. UNCHANGED <<mailVars, files, root, archive, readVars>>
        BY DEF OpenCheckpoint
  <1>3. Shape(own)
        BY DEF Shape, SearchInv, SearchTypes, OwnTypes
  <1>4. Fingerprint \in (SUBSET Folders) \X Versions /\ Fingerprint # <<>> /\ Fingerprint[1] = own.sel
        BY <1>1 DEF Fingerprint, SearchInv, SearchTypes, MailTypes
  <1>5. ASSUME NEW by \in Makers, own' = [own EXCEPT !.at = "page", !.by = by], by # "reconcile",
               by = "backfill" => own.by = "backfill", CheckTypes', check'.since =< tick,
               check'.print # <<>>, check'.print[1] = own.sel,
               by = "backfill" => /\ check'.parts = {} /\ check'.done = {} /\ check'.since = own.since
                                  /\ check'.next = [f \in own.sel |-> 1]
        PROVE  SearchInv'
    <2>1. /\ Shape(own') /\ own'.at = "page" /\ own'.sel = own.sel /\ own'.left = own.left
          /\ own'.snap = own.snap /\ own'.since = own.since /\ own'.by = by
          BY <1>3, <1>5 DEF Shape
    <2>2. OwnTypes'
          BY <1>1, <2>1 DEF OwnTypes, Shape, Reading, SearchInv, SearchTypes
    <2>3. RunTypes'
          BY <1>1, <1>5, <2>1 DEF RunTypes, Reading, Reconciling, SearchInv, SearchTypes
    <2>4. Listed'
          BY <1>1, <1>2, <2>1 DEF Listed, In, mailVars, SearchInv
    <2>5. Pass'
      <3> SUFFICES ASSUME by = "backfill" PROVE Pass'
          BY <2>1 DEF Pass
      <3>1. own.sel = Folders
            BY <1>5 DEF SearchInv, SearchTypes, RunTypes
      <3>2. \A f \in Folders : check'.next[f] = 1 /\ f \notin check'.done
            BY <1>5, <3>1
      <3>3. \A f \in Folders : Upto(f)' = 0
        <4>1. 0 * PageSize = 0
              BY IndexAssumption DEF IndexAssumption
        <4> QED BY <3>2, <4>1 DEF Upto
      <3>4. Covered'
            BY <2>1, <3>2, <3>3 DEF Covered
      <3> QED BY <1>5, <2>1, <3>4 DEF Pass
    <2>6. Unmoved' /\ Safe'
          BY <1>5, <2>1 DEF Unmoved, Safe
    <2>7. own'.since =< tick /\ root'.since =< tick
          BY <1>2, <2>1 DEF SearchInv, SearchTypes, Times
    <2>8. Promise(root)' /\ RootIsWhole'
          BY <1>2 DEF Promise, Promises, RootIsWhole, In, mailVars, SearchInv
    <2>9. root' \in Roots /\ archive' \in Seq(Roots)
          BY <1>2 DEF StoreTypes, SearchInv, SearchTypes
    <2> QED BY <1>2, <1>5, <2>2, <2>3, <2>4, <2>5, <2>6, <2>7, <2>8, <2>9, RunStep
  <1>6. CASE Resumable
    <2>1. PICK by \in Makers : by = IF own.by = "backfill" THEN "resumed" ELSE own.by
          BY <1>1 DEF Makers
    <2>2. own' = [own EXCEPT !.at = "page", !.by = by] /\ check' = check /\ by # "reconcile" /\ by # "backfill"
          BY <1>1, <1>3, <1>6, <2>1 DEF OpenCheckpoint, Shape
    <2>3. CheckTypes' /\ check'.since =< tick
          BY <2>2 DEF CheckTypes, SearchInv, SearchTypes, Times
    <2>4. check'.print # <<>> /\ check'.print[1] = own.sel
          BY <1>4, <1>6, <2>2 DEF Resumable
    <2> QED BY <1>1, <1>5, <2>2, <2>3, <2>4
  <1>7. CASE ~Resumable
    <2>1. /\ own' = [own EXCEPT !.at = "page", !.by = own.by]
          /\ check' = [NoCheck EXCEPT !.status = "running", !.print = Fingerprint, !.fresh = TRUE,
                                      !.next = [f \in own.sel |-> 1], !.since = own.since]
          BY <1>3, <1>7 DEF OpenCheckpoint, Shape
    <2>2. /\ check' = [status |-> "running", print |-> Fingerprint, next |-> [f \in own.sel |-> 1], done |-> {},
                       parts |-> {}, blocked |-> {}, fresh |-> TRUE, since |-> own.since]
          BY <2>1 DEF NoCheck
    <2>3. own.since \in Nat /\ own.since =< tick
          BY DEF SearchInv, SearchTypes, OwnTypes, Times
    <2>4. CheckTypes'
          BY <1>4, <2>2, <2>3 DEF CheckTypes
    <2>5. check'.since =< tick /\ check'.print # <<>> /\ check'.print[1] = own.sel
          BY <1>4, <2>2, <2>3
    <2>6. /\ check'.parts = {} /\ check'.done = {} /\ check'.since = own.since
          /\ check'.next = [f \in own.sel |-> 1]
          BY <2>2
    <2> QED BY <1>1, <1>5, <2>1, <2>4, <2>5, <2>6
  <1> QED BY <1>6, <1>7

\* Files are added, and the roots stay as they are.
LEMMA FilesGrow ==
    ASSUME SearchInv, files \subseteq files', UNCHANGED <<mailVars, root, archive, readVars>>
    PROVE  /\ root' \in Roots /\ archive' \in Seq(Roots) /\ root'.since =< tick
           /\ Promise(root)' /\ RootIsWhole'
  <1>1. Promise(root)'
        BY DEF Promise, Promises, In, mailVars, SearchInv
  <1>2. RootIsWhole'
        BY DEF RootIsWhole, SearchInv
  <1> QED BY <1>1, <1>2 DEF SearchInv, SearchTypes, StoreTypes, Times

LEMMA FetchPageKeeps == ASSUME SearchInv, FetchPage PROVE SearchInv'
  <1>1. own.at = "page" /\ Open # {} /\ own.left = {} /\ UNCHANGED <<mailVars, root, archive, check, readVars>>
        BY DEF FetchPage, SearchInv, SearchTypes, OwnTypes
  <1>2. /\ Current \in own.sel /\ Current \in Folders /\ check.next[Current] \in Nat \ {0} /\ Page \in Seq(Msgs)
        BY <1>1, PageSeen
  <1>3. PICK bad : bad = Elements(Page) \cap Rejected[scanner]
        OBVIOUS
  <1>4. PICK part : part = [folder |-> Current, page |-> check.next[Current], ok |-> bad = {},
                            msgs |-> Elements(Page) \ bad, since |-> check.since]
        OBVIOUS
  <1>5. files' = files \cup {part} /\ own' = [own EXCEPT !.at = "mark", !.part = part]
        BY <1>3, <1>4 DEF FetchPage
  <1>6. part \in Pages /\ part.folder = Current /\ (part.ok => Elements(Page) \subseteq part.msgs)
    <2>1. Elements(Page) \subseteq Msgs
          BY <1>2 DEF Elements
    <2>2. check.since \in Nat
          BY DEF SearchInv, SearchTypes, CheckTypes
    <2>3. (bad = {}) \in BOOLEAN
          OBVIOUS
    <2> QED BY <1>2, <1>4, <2>1, <2>2, <2>3 DEF Pages
  <1>7. /\ Shape(own') /\ own'.at = "mark" /\ own'.sel = own.sel /\ own'.left = own.left /\ own'.snap = own.snap
        /\ own'.since = own.since /\ own'.by = own.by /\ own'.part = part
        BY <1>5 DEF Shape, SearchInv, SearchTypes, OwnTypes
  <1>8. OwnTypes'
        BY <1>1, <1>7 DEF OwnTypes, Shape, Reading, SearchInv, SearchTypes
  <1>9. RunTypes'
        BY <1>1, <1>2, <1>6, <1>7 DEF RunTypes, Reading, Reconciling, SearchInv, SearchTypes
  <1>10. Listed'
        BY <1>1, <1>7 DEF Listed, In, mailVars, SearchInv
  <1>11. Pass'
    <2> SUFFICES ASSUME own.by = "backfill" PROVE Pass'
        BY <1>7 DEF Pass
    <2>1. check.since = own.since /\ check.parts \subseteq files /\ Covered
          BY <1>1 DEF SearchInv, Pass, Reading
    <2>2. Covered'
          BY <1>1, <1>7, <2>1 DEF Covered, Upto
    <2>3. Open' = Open /\ Current' = Current
          BY <1>1, <1>7 DEF Open, Current
    <2>4. Page' = Page
          BY <1>1, <1>7, <2>3 DEF Page, Cut, Start
    <2> QED BY <1>1, <1>5, <1>6, <1>7, <2>1, <2>2, <2>3, <2>4 DEF Pass
  <1>12. Unmoved' /\ Safe'
        BY <1>1, <1>7 DEF Unmoved, Safe, RunTypes, Reading, SearchInv, SearchTypes
  <1>13. own'.since =< tick /\ check'.since =< tick /\ CheckTypes'
        BY <1>1, <1>7 DEF SearchInv, SearchTypes, Times, CheckTypes
  <1> QED BY <1>1, <1>5, <1>8, <1>9, <1>10, <1>11, <1>12, <1>13, FilesGrow, RunStep

LEMMA MarkPageKeeps == ASSUME SearchInv, MarkPage PROVE SearchInv'
  <1>1. own.at = "mark" /\ own.left = {} /\ UNCHANGED <<mailVars, files, root, archive, readVars>>
        BY DEF MarkPage, SearchInv, SearchTypes, OwnTypes
  <1>2. PICK f : f = own.part.folder
        OBVIOUS
  <1>3. PICK more \in BOOLEAN : more <=> (Start + Len(Page) < Len(own.snap[f]))
    <2>1. CASE Start + Len(Page) < Len(own.snap[f])
          BY <2>1
    <2>2. CASE ~(Start + Len(Page) < Len(own.snap[f]))
          BY <2>2
    <2> QED BY <2>1, <2>2
  <1>4. own.part \in Pages /\ f \in own.sel /\ f \in Folders
        BY <1>1, <1>2 DEF SearchInv, SearchTypes, RunTypes, OwnTypes, Pages
  <1>5. check.print # <<>> /\ check.next \in [own.sel -> Nat \ {0}] /\ check.print[1] = own.sel
        BY <1>1 DEF SearchInv, SearchTypes, RunTypes, CheckTypes, Reading
  <1>6. PICK blocked : blocked = check.blocked \cup {<<m, f>> : m \in Elements(Page) \ own.part.msgs}
        OBVIOUS
  <1>7. PICK through : through = IF more THEN check.done ELSE check.done \cup {f}
        OBVIOUS
  <1>8. PICK next : next = [check.next EXCEPT ![f] = check.next[f] + 1]
        OBVIOUS
  <1>9. /\ check' = [check EXCEPT !.parts = check.parts \cup {own.part}, !.next = next, !.done = through,
                                  !.status = "running", !.blocked = blocked]
        /\ \E n : own' = [own EXCEPT !.at = "page", !.pages = n, !.part = NoRoot]
        BY <1>2, <1>3, <1>6, <1>7, <1>8 DEF MarkPage, SearchInv, SearchTypes, CheckTypes
  <1>10. /\ Shape(own') /\ own'.at = "page" /\ own'.sel = own.sel /\ own'.left = own.left
         /\ own'.snap = own.snap /\ own'.since = own.since /\ own'.by = own.by
        BY <1>9 DEF Shape, SearchInv, SearchTypes, OwnTypes
  <1>11. /\ check' = [status |-> "running", print |-> check.print, next |-> next, done |-> through,
                      parts |-> check.parts \cup {own.part}, blocked |-> blocked, fresh |-> check.fresh,
                      since |-> check.since]
        BY <1>9 DEF SearchInv, SearchTypes, CheckTypes
  <1>12. next \in [own.sel -> Nat \ {0}]
        BY <1>4, <1>5, <1>8
  <1>13. CheckTypes'
        BY <1>4, <1>5, <1>7, <1>11, <1>12 DEF CheckTypes, SearchInv, SearchTypes
  <1>14. OwnTypes'
        BY <1>1, <1>10 DEF OwnTypes, Shape, Reading, SearchInv, SearchTypes
  <1>15. RunTypes'
        BY <1>1, <1>5, <1>10, <1>11 DEF RunTypes, Reading, Reconciling, SearchInv, SearchTypes
  <1>16. Listed'
        BY <1>1, <1>10 DEF Listed, In, mailVars, SearchInv
  <1>17. Unmoved' /\ Safe'
        BY <1>1, <1>10 DEF Unmoved, Safe, RunTypes, Reading, SearchInv, SearchTypes
  <1>18. Pass'
    <2> SUFFICES ASSUME own.by = "backfill" PROVE Pass'
        BY <1>10 DEF Pass
    <2>1. /\ check.since = own.since /\ check.parts \subseteq files /\ Covered
          /\ own.part \in files /\ f = Current /\ Open # {}
          /\ own.part.ok => Elements(Page) \subseteq own.part.msgs
          BY <1>1, <1>2 DEF SearchInv, Pass, Reading
    <2>2. own.sel = Folders
          BY DEF SearchInv, SearchTypes, RunTypes
    <2>3. f \notin check.done
          BY <1>1, <2>1, PageSeen DEF Open
    <2>4. PICK s \in Seq(Msgs) : s = own.snap[f]
          BY <1>1, <2>1, PageSeen
    <2>5. /\ Start = Upto(f) /\ Start \in Nat /\ PageSize \in Nat \ {0}
          /\ \A i \in 1..Len(s) : Start < i /\ i =< Start + PageSize => s[i] \in Elements(Page)
          /\ Len(s) =< Start + Len(Page) => \A i \in 1..Len(s) : Start < i => s[i] \in Elements(Page)
          BY <1>1, <2>1, <2>4, PageSeen
    <2>6. Upto(f)' = Start + PageSize
      <3>1. PICK k \in Nat \ {0} : k = check.next[f]
            BY <1>4, <1>5
      <3>2. check'.next[f] = k + 1
            BY <1>4, <1>5, <1>8, <1>11, <3>1
      <3>3. (k + 1 - 1) * PageSize = (k - 1) * PageSize + PageSize
            BY <2>5, <3>1
      <3> QED BY <2>1, <3>1, <3>2, <3>3 DEF Upto, Start
    <2>7. Covered'
      <3> SUFFICES ASSUME NEW g \in Folders, NEW i \in 1..Len(own.snap[g]), g \in through \/ i =< Upto(g)',
                          ~Blocked(check'.parts)
                   PROVE  Holds(check'.parts, own.snap[g][i])
          BY <1>10, <1>11 DEF Covered
      <3>1. ~Blocked(check.parts) /\ own.part.ok
            BY <1>4, <1>11 DEF Blocked, Pages
      <3>2. ASSUME g \in check.done \/ i =< Upto(g) PROVE Holds(check'.parts, own.snap[g][i])
        <4>1. Holds(check.parts, own.snap[g][i])
              BY <2>1, <3>1, <3>2 DEF Covered
        <4> QED BY <1>11, <4>1 DEF Holds
      <3>3. CASE g # f
        <4>1. Upto(g)' = Upto(g)
              BY <1>8, <1>11, <1>5, <2>2, <3>3 DEF Upto
        <4>2. g \in through => g \in check.done
              BY <1>7, <3>3
        <4> QED BY <3>2, <4>1, <4>2
      <3>4. CASE g = f /\ Start < i
        <4>1. s[i] \in Elements(Page)
          <5>1. CASE i =< Upto(g)'
                BY <2>4, <2>5, <2>6, <3>4, <5>1
          <5>2. CASE g \in through
            <6>1. ~more /\ Len(Page) \in Nat /\ Len(s) \in Nat
                  BY <1>7, <2>3, <2>4, <3>4, <5>2, <1>1, <2>1, PageSeen
            <6>2. Len(s) =< Start + Len(Page)
                  BY <1>3, <2>4, <2>5, <6>1
            <6> QED BY <2>4, <2>5, <3>4, <6>2
          <5> QED BY <5>1, <5>2
        <4>2. s[i] \in own.part.msgs
              BY <2>1, <3>1, <4>1
        <4> QED BY <1>11, <2>4, <3>4, <4>2 DEF Holds
      <3>5. CASE g = f /\ ~(Start < i)
        <4>1. i =< Upto(g)
              BY <2>5, <2>4, <3>5
        <4> QED BY <3>2, <4>1
      <3> QED BY <3>3, <3>4, <3>5
    <2>8. check'.parts \subseteq files' /\ check'.since = own'.since
          BY <1>1, <1>10, <1>11, <2>1
    <2> QED BY <1>10, <2>7, <2>8 DEF Pass
  <1>19. own'.since =< tick /\ check'.since =< tick
        BY <1>10, <1>11 DEF SearchInv, SearchTypes, Times
  <1> QED BY <1>1, <1>13, <1>14, <1>15, <1>16, <1>17, <1>18, <1>19, FilesGrow, RunStep

\* The run goes on; of what a step changes, only the roots and files are left to show.
LEMMA GoesOn ==
    ASSUME SearchInv, NEW a \in {"open"} \cup Reading \cup Reconciling, GoesTo(a),
           own.at # "idle", own.at # "list", UNCHANGED <<mailVars, check, readVars>>,
           RunTypes', Pass', Unmoved', Safe',
           root' \in Roots, archive' \in Seq(Roots), root'.since =< tick, Promise(root)', RootIsWhole'
    PROVE  SearchInv'
  <1>1. OwnTypes'
        BY GoingKeepsTypes DEF SearchInv, SearchTypes
  <1>2. Listed'
        BY GoingKeepsListed DEF SearchInv
  <1>3. own'.since =< tick /\ check'.since =< tick /\ CheckTypes'
        BY DEF GoesTo, SearchInv, SearchTypes, Times, CheckTypes
  <1> QED BY <1>1, <1>2, <1>3, RunStep

LEMMA LastPageKeeps == ASSUME SearchInv, LastPage PROVE SearchInv'
  <1>1. own.at = "page" /\ own' = [own EXCEPT !.at = "root"] /\ UNCHANGED <<mailVars, diskVars, readVars>>
        BY DEF LastPage
  <1>2. GoesTo("root") /\ "root" \in {"open"} \cup Reading \cup Reconciling
        BY <1>1, Going DEF SearchInv, SearchTypes, Reading
  <1>3. RunTypes'
        BY <1>1, <1>2 DEF RunTypes, GoesTo, diskVars, Reading, Reconciling, SearchInv, SearchTypes
  <1>4. Pass'
        BY <1>1, <1>2 DEF Pass, GoesTo, Covered, Upto, diskVars, Reading, SearchInv
  <1>5. Unmoved' /\ Safe'
        BY <1>1, <1>2 DEF Unmoved, Safe, GoesTo, diskVars, SearchInv
  <1> QED BY <1>1, <1>2, <1>3, <1>4, <1>5, DiskStays, GoesOn DEF diskVars

LEMMA PublishBackfillKeeps == ASSUME SearchInv, PublishBackfill PROVE SearchInv'
  <1>1. /\ own.at = "root" /\ own' = [own EXCEPT !.at = "close"] /\ own.left = {}
        /\ UNCHANGED <<mailVars, files, archive, check, scanned, readVars>>
        BY DEF PublishBackfill, SearchInv, SearchTypes, OwnTypes
  <1>2. GoesTo("close") /\ "close" \in {"open"} \cup Reading \cup Reconciling
        BY <1>1, Going DEF SearchInv, SearchTypes, Reading
  <1>3. PICK full \in BOOLEAN : full <=> Backfilled
    <2>1. CASE Backfilled BY <2>1
    <2>2. CASE ~Backfilled BY <2>2
    <2> QED BY <2>1, <2>2
  <1>4. root' = [parts |-> check.parts, full |-> full, fresh |-> check.fresh, by |-> own.by, since |-> check.since]
    <2>1. Backfilled \in BOOLEAN
          BY DEF Backfilled
    <2> QED BY <1>3, <2>1 DEF PublishBackfill
  <1>5. root' \in Roots /\ root'.since =< tick /\ archive' \in Seq(Roots)
        BY <1>1, <1>4 DEF Roots, SearchInv, SearchTypes, CheckTypes, OwnTypes, StoreTypes, Times
  <1>6. RunTypes'
        BY <1>1, <1>2 DEF RunTypes, GoesTo, Reading, Reconciling, SearchInv, SearchTypes
  <1>7. Pass'
        BY <1>1, <1>2 DEF Pass, GoesTo, Covered, Upto, Reading, SearchInv
  <1>8. own.by # "reconcile"
        BY <1>1 DEF SearchInv, SearchTypes, RunTypes, Reading
  <1>9. Unmoved' /\ Safe'
        BY <1>1, <1>2, <1>8 DEF Unmoved, Safe, GoesTo
  <1>10. own.by = "backfill" => check.since = own.since /\ check.parts \subseteq files /\ Covered /\ own.sel = Folders
        BY <1>1 DEF SearchInv, SearchTypes, RunTypes, Pass, Reading
  <1>11. RootIsWhole'
        BY <1>1, <1>4, <1>8, <1>10 DEF RootIsWhole, Honest, SearchInv
  <1>12. Promise(root)'
    <2> SUFFICES ASSUME full, own.by = "backfill", NEW m \in Msgs, NEW f \in Folders, In(m, f),
                        m \notin UNION {p.msgs : p \in check.parts}
                 PROVE  check.since < moved[m]
        BY <1>1, <1>4, <1>8 DEF Promise, Honest, In, Contents, mailVars
    <2>1. f \in check.done /\ ~Blocked(check.parts)
          BY <1>3, <1>10 DEF Backfilled, Open, Blocked
    <2>2. ~Holds(check.parts, m)
          BY DEF Holds
    <2>3. m \notin Elements(own.snap[f])
          BY <1>10, <2>1, <2>2 DEF Covered, Elements
    <2>4. own.since < moved[m]
          BY <1>1, <1>10, <2>3 DEF SearchInv, Listed
    <2> QED BY <1>10, <2>4
  <1> QED BY <1>1, <1>2, <1>5, <1>6, <1>7, <1>9, <1>11, <1>12, GoesOn

-----------------------------------------------------------------------------
(* SearchIndex: a reconciliation publishes what it saw *)

\* A step of a reconciliation: what is not about the roots and the files.
LEMMA Reconciles ==
    ASSUME SearchInv, NEW a \in Reconciling, GoesTo(a), own.at \in Reconciling,
           UNCHANGED <<mailVars, check, readVars>>, Unmoved', Safe',
           root' \in Roots, archive' \in Seq(Roots), root'.since =< tick, Promise(root)', RootIsWhole'
    PROVE  SearchInv'
  <1>1. own.at # "idle" /\ own.at # "list" /\ a \in {"open"} \cup Reading \cup Reconciling
        BY DEF Reconciling
  <1>2. own.by = "reconcile"
        BY DEF SearchInv, SearchTypes, RunTypes
  <1>3. RunTypes' /\ Pass'
        BY <1>2 DEF RunTypes, Pass, GoesTo, Reading, Reconciling, SearchInv, SearchTypes
  <1> QED BY <1>1, <1>3, GoesOn

\* What a run that has listed every folder knows.
LEMMA AllListed ==
    ASSUME SearchInv, own.at \in Reconciling
    PROVE  /\ own.by = "reconcile" /\ own.sel = Folders /\ own.left = {}
           /\ own.snap \in [Folders -> Seq(Msgs)] /\ own.since \in Nat /\ own.since =< tick
           /\ NewParts \in SUBSET Pages
           /\ \A m \in Msgs, f \in Folders : In(m, f) /\ m \notin Elements(own.snap[f]) => own.since < moved[m]
           /\ root.parts \subseteq files
  <1>1. own.by = "reconcile" /\ own.sel = Folders /\ own.left = {}
        BY DEF SearchInv, SearchTypes, RunTypes, OwnTypes, Reconciling
  <1>2. own.snap \in [Folders -> Seq(Msgs)] /\ own.since \in Nat /\ own.since =< tick
        BY <1>1 DEF SearchInv, SearchTypes, OwnTypes, Times, Reconciling
  <1>3. \A f \in Folders : Elements(own.snap[f]) \subseteq Msgs
        BY <1>2 DEF Elements
  <1>4. NewParts \in SUBSET Pages
    <2> SUFFICES ASSUME NEW f \in Folders
                 PROVE  [folder |-> f, page |-> 0, ok |-> TRUE, msgs |-> Elements(own.snap[f]),
                         since |-> own.since] \in Pages
        BY DEF NewParts
    <2> QED BY <1>2, <1>3 DEF Pages
  <1>5. \A m \in Msgs, f \in Folders : In(m, f) /\ m \notin Elements(own.snap[f]) => own.since < moved[m]
        BY <1>1 DEF SearchInv, Listed, Reconciling
  <1> QED BY <1>1, <1>2, <1>4, <1>5 DEF SearchInv, Safe

LEMMA ExamineKeeps == ASSUME SearchInv, Examine PROVE SearchInv'
  <1>1. PICK a \in {"refresh", "write"} : a = IF Seen = Places(root) /\ ~Forced THEN "refresh" ELSE "write"
        OBVIOUS
  <1>2. /\ own.at = "examine" /\ own' = [own EXCEPT !.version = scanner, !.at = a]
        /\ UNCHANGED <<mailVars, diskVars, readVars>>
        BY <1>1 DEF Examine
  <1>3. GoesTo(a)
        BY <1>2, Going DEF SearchInv, SearchTypes
  <1>4. a \in Reconciling /\ own.at \in Reconciling
        BY <1>2 DEF Reconciling
  <1>5. Unmoved'
        BY <1>1, <1>2, <1>3 DEF Unmoved, GoesTo, Seen, Places, diskVars
  <1>6. Safe'
        BY <1>2, <1>3 DEF Safe, GoesTo, diskVars, SearchInv
  <1> QED BY <1>2, <1>3, <1>4, <1>5, <1>6, DiskStays, Reconciles DEF diskVars

LEMMA RefreshKeeps == ASSUME SearchInv, Refresh PROVE SearchInv'
  <1>1. /\ own.at = "refresh" /\ own' = [own EXCEPT !.at = "confirm"]
        /\ UNCHANGED <<mailVars, files, archive, check, scanned, readVars>>
        BY DEF Refresh
  <1>2. GoesTo("confirm") /\ "confirm" \in Reconciling /\ own.at \in Reconciling
        BY <1>1, Going DEF SearchInv, SearchTypes, Reconciling
  <1>3. /\ own.by = "reconcile" /\ own.since \in Nat /\ own.since =< tick /\ root.parts \subseteq files
        /\ \A m \in Msgs, f \in Folders : In(m, f) /\ m \notin Elements(own.snap[f]) => own.since < moved[m]
        BY <1>2, AllListed
  <1>4. root' = [root EXCEPT !.fresh = TRUE, !.by = own.by, !.since = own.since] /\ root \in Roots
        BY DEF Refresh, SearchInv, SearchTypes, StoreTypes
  <1>5. root' \in Roots /\ root'.parts = root.parts /\ root'.since = own.since
        BY <1>3, <1>4 DEF Roots, Makers
  <1>6. Unmoved' /\ Safe'
        BY <1>1, <1>2, <1>3, <1>5 DEF Unmoved, Safe, GoesTo
  <1>7. RootIsWhole'
        BY <1>1, <1>3, <1>5 DEF RootIsWhole, SearchInv
  <1>8. Promise(root)'
    <2> SUFFICES ASSUME NEW m \in Msgs, NEW f \in Folders, In(m, f), m \notin Contents(root)
                 PROVE  own.since < moved[m]
        BY <1>1, <1>5 DEF Promise, In, Contents, mailVars
    <2>1. <<m, f>> \notin Places(root)
          BY DEF Places, Contents
    <2>2. Seen = Places(root)
          BY <1>1 DEF SearchInv, Unmoved
    <2>3. m \notin Elements(own.snap[f])
          BY <2>1, <2>2 DEF Seen
    <2> QED BY <1>3, <2>3
  <1> QED BY <1>1, <1>2, <1>3, <1>5, <1>6, <1>7, <1>8, Reconciles DEF SearchInv, SearchTypes, StoreTypes

LEMMA WritePartsKeeps == ASSUME SearchInv, WriteParts PROVE SearchInv'
  <1>1. /\ own.at = "write" /\ own' = [own EXCEPT !.at = "archive"] /\ files' = files \cup NewParts
        /\ UNCHANGED <<mailVars, root, archive, check, readVars>>
        BY DEF WriteParts
  <1>2. GoesTo("archive") /\ "archive" \in Reconciling /\ own.at \in Reconciling
        BY <1>1, Going DEF SearchInv, SearchTypes, Reconciling
  <1>3. NewParts' = NewParts
        BY <1>2 DEF NewParts, GoesTo
  <1>4. Unmoved' /\ Safe'
        BY <1>1, <1>2, <1>3 DEF Unmoved, Safe, GoesTo, SearchInv
  <1> QED BY <1>1, <1>2, <1>4, FilesGrow, Reconciles

\* The archive has the root in front, and every other copy where it was or one further.
LEMMA ArchivedInFront ==
    ASSUME StoreTypes
    PROVE  /\ Archived(root) \in Seq(Roots) /\ Archived(root) # <<>> /\ Archived(root)[1] = root
           /\ \A i \in 2..Len(Archived(root)) :
                \E j \in 1..Len(archive) : j =< i /\ Archived(root)[i] = archive[j]
  <1>1. archive \in Seq(Roots) /\ root \in Roots /\ <<root>> \in Seq(Roots)
        BY DEF StoreTypes
  <1>2. ASSUME NEW rest \in Seq(Roots), Archived(root) = <<root>> \o rest,
               \A i \in 1..Len(rest) : \E j \in 1..Len(archive) : j =< i + 1 /\ rest[i] = archive[j]
        PROVE  /\ Archived(root) \in Seq(Roots) /\ Archived(root) # <<>> /\ Archived(root)[1] = root
               /\ \A i \in 2..Len(Archived(root)) :
                    \E j \in 1..Len(archive) : j =< i /\ Archived(root)[i] = archive[j]
    <2>1. /\ <<root>> \o rest \in Seq(Roots) /\ Len(<<root>> \o rest) = Len(rest) + 1
          /\ (<<root>> \o rest)[1] = root
          BY <1>1, ConcatProperties
    <2>2. \A i \in 2..Len(rest) + 1 : (<<root>> \o rest)[i] = rest[i - 1]
          BY <1>1
    <2>3. \A i \in 2..Len(rest) + 1 :
            i - 1 \in 1..Len(rest) /\ \E j \in 1..Len(archive) : j =< i /\ rest[i - 1] = archive[j]
      <3> TAKE i \in 2..Len(rest) + 1
      <3>1. Len(rest) \in Nat /\ i - 1 \in 1..Len(rest) /\ i - 1 + 1 = i
            OBVIOUS
      <3> QED BY <1>2, <3>1
    <2>4. <<root>> \o rest # <<>>
      <3>1. Len(<<root>> \o rest) > 0
            BY <2>1
      <3> QED BY <3>1
    <2> QED BY <1>2, <2>1, <2>2, <2>3, <2>4
  <1>3. PICK copies : copies = {i \in 1..Len(archive) : Same(root, archive[i])}
        OBVIOUS
  <1>4. CASE copies = {}
    <2>1. Archived(root) = <<root>> \o archive
          BY <1>3, <1>4 DEF Archived
    <2>2. \A i \in 1..Len(archive) : \E j \in 1..Len(archive) : j =< i + 1 /\ archive[i] = archive[j]
          OBVIOUS
    <2> QED BY <1>1, <1>2, <2>1, <2>2
  <1>5. CASE copies # {}
    <2>1. PICK k \in 1..Len(archive) : Archived(root) = <<root>> \o RemoveAt(archive, k)
          BY <1>3, <1>5 DEF Archived
    <2>2. RemoveAt(archive, k) \in Seq(Roots) /\ Len(RemoveAt(archive, k)) = Len(archive) - 1
          BY <1>1, RemovalShortens
    <2>3. \A i \in 1..Len(archive) - 1 : RemoveAt(archive, k)[i] = IF i < k THEN archive[i] ELSE archive[i + 1]
          BY <1>1, RemovalShortens
    <2>4. \A i \in 1..Len(RemoveAt(archive, k)) :
            \E j \in 1..Len(archive) : j =< i + 1 /\ RemoveAt(archive, k)[i] = archive[j]
      <3> TAKE i \in 1..Len(RemoveAt(archive, k))
      <3>1. Len(archive) \in Nat /\ i \in 1..Len(archive) - 1 /\ i \in 1..Len(archive) /\ i + 1 \in 1..Len(archive)
            BY <1>1, <2>2
      <3>2. CASE i < k BY <2>3, <3>1, <3>2
      <3>3. CASE ~(i < k) BY <2>3, <3>1, <3>3
      <3> QED BY <3>2, <3>3
    <2> QED BY <1>2, <2>1, <2>2, <2>4
  <1> QED BY <1>4, <1>5

LEMMA ArchiveKeepsRoots ==
    ASSUME SearchInv, archive' = Archived(root), root.parts \subseteq files, UNCHANGED <<files, root>>
    PROVE  archive' \in Seq(Roots) /\ archive' # <<>> /\ archive'[1].parts = root'.parts /\ RootIsWhole'
  <1>1. /\ archive' \in Seq(Roots) /\ archive' # <<>> /\ archive'[1] = root
        /\ \A i \in 2..Len(archive') : \E j \in 1..Len(archive) : j =< i /\ archive'[i] = archive[j]
        BY ArchivedInFront DEF SearchInv, SearchTypes
  <1>2. ASSUME NEW i \in 1..Len(archive'), i =< Keep, Honest(archive'[i]) PROVE archive'[i].parts \subseteq files
    <2>1. CASE i = 1 BY <1>1, <2>1
    <2>2. CASE i # 1
      <3>1. Len(archive') \in Nat /\ i \in 2..Len(archive')
            BY <1>1, <2>2
      <3>2. PICK j \in 1..Len(archive) : j =< i /\ archive'[i] = archive[j]
            BY <1>1, <3>1
      <3>3. archive \in Seq(Roots) /\ Keep \in Nat
            BY IndexAssumption DEF IndexAssumption, SearchInv, SearchTypes, StoreTypes
      <3>4. j =< Keep
            BY <1>2, <3>2, <3>3
      <3> QED BY <1>2, <3>2, <3>4 DEF SearchInv, RootIsWhole
    <2> QED BY <2>1, <2>2
  <1> QED BY <1>1, <1>2 DEF RootIsWhole

LEMMA ArchiveOldKeeps == ASSUME SearchInv, ArchiveOld PROVE SearchInv'
  <1>1. /\ own.at = "archive" /\ own' = [own EXCEPT !.at = "publish"] /\ archive' = Archived(root)
        /\ UNCHANGED <<mailVars, files, root, check, readVars>>
        BY DEF ArchiveOld
  <1>2. GoesTo("publish") /\ "publish" \in Reconciling /\ own.at \in Reconciling
        BY <1>1, Going DEF SearchInv, SearchTypes, Reconciling
  <1>3. root.parts \subseteq files
        BY <1>2, AllListed
  <1>4. archive' \in Seq(Roots) /\ RootIsWhole'
        BY <1>1, <1>3, ArchiveKeepsRoots
  <1>5. NewParts' = NewParts
        BY <1>2 DEF NewParts, GoesTo
  <1>6. Unmoved' /\ Safe'
        BY <1>1, <1>2, <1>3, <1>5 DEF Unmoved, Safe, GoesTo, SearchInv
  <1>7. root' \in Roots /\ root'.since =< tick /\ Promise(root)'
        BY <1>1 DEF SearchInv, SearchTypes, StoreTypes, Times, Promise, Promises, In, mailVars
  <1> QED BY <1>1, <1>2, <1>4, <1>6, <1>7, Reconciles

LEMMA PublishReconciledKeeps == ASSUME SearchInv, PublishReconciled PROVE SearchInv'
  <1>1. /\ own.at = "publish" /\ own' = [own EXCEPT !.at = "published"]
        /\ root' = [parts |-> NewParts, full |-> TRUE, fresh |-> TRUE, by |-> own.by, since |-> own.since]
        /\ UNCHANGED <<mailVars, files, archive, check, readVars>>
        BY DEF PublishReconciled
  <1>2. GoesTo("published") /\ "published" \in Reconciling /\ own.at \in Reconciling
        BY <1>1, Going DEF SearchInv, SearchTypes, Reconciling
  <1>3. /\ own.by = "reconcile" /\ own.since \in Nat /\ own.since =< tick /\ NewParts \in SUBSET Pages
        /\ \A m \in Msgs, f \in Folders : In(m, f) /\ m \notin Elements(own.snap[f]) => own.since < moved[m]
        BY <1>2, AllListed
  <1>4. NewParts \subseteq files
        BY <1>1 DEF SearchInv, Safe
  <1>5. root' \in Roots /\ root'.since =< tick
        BY <1>1, <1>3 DEF Roots, Makers
  <1>6. Unmoved' /\ Safe'
        BY <1>1, <1>2, <1>4 DEF Unmoved, Safe, GoesTo
  <1>7. RootIsWhole'
        BY <1>1, <1>4 DEF RootIsWhole, SearchInv
  <1>8. Promise(root)'
    <2> SUFFICES ASSUME NEW m \in Msgs, NEW f \in Folders, In(m, f), m \notin UNION {p.msgs : p \in NewParts}
                 PROVE  own.since < moved[m]
        BY <1>1 DEF Promise, In, Contents, mailVars
    <2>1. PICK p : p = [folder |-> f, page |-> 0, ok |-> TRUE, msgs |-> Elements(own.snap[f]), since |-> own.since]
          OBVIOUS
    <2>2. p \in NewParts /\ p.msgs = Elements(own.snap[f])
          BY <2>1 DEF NewParts
    <2>3. m \notin Elements(own.snap[f])
          BY <2>2
    <2> QED BY <1>3, <2>3
  <1>9. archive' \in Seq(Roots)
        BY <1>1 DEF SearchInv, SearchTypes, StoreTypes
  <1> QED BY <1>1, <1>2, <1>5, <1>6, <1>7, <1>8, <1>9, Reconciles

LEMMA ArchiveNewKeeps == ASSUME SearchInv, ArchiveNew PROVE SearchInv'
  <1>1. /\ own.at = "published" /\ own' = [own EXCEPT !.at = "state"] /\ archive' = Archived(root)
        /\ UNCHANGED <<mailVars, files, root, check, readVars>>
        BY DEF ArchiveNew
  <1>2. GoesTo("state") /\ "state" \in Reconciling /\ own.at \in Reconciling
        BY <1>1, Going DEF SearchInv, SearchTypes, Reconciling
  <1>3. root.parts \subseteq files
        BY <1>2, AllListed
  <1>4. archive' \in Seq(Roots) /\ archive' # <<>> /\ archive'[1].parts = root'.parts /\ RootIsWhole'
        BY <1>1, <1>3, ArchiveKeepsRoots
  <1>5. Unmoved' /\ Safe'
        BY <1>1, <1>2, <1>3, <1>4 DEF Unmoved, Safe, GoesTo
  <1>6. root' \in Roots /\ root'.since =< tick /\ Promise(root)'
        BY <1>1 DEF SearchInv, SearchTypes, StoreTypes, Times, Promise, Promises, In, mailVars
  <1> QED BY <1>1, <1>2, <1>4, <1>5, <1>6, Reconciles

LEMMA SaveStateKeeps == ASSUME SearchInv, SaveState PROVE SearchInv'
  <1>1. UNCHANGED <<mailVars, files, root, archive, check, readVars>> /\ own.at \in {"state", "confirm"}
        BY DEF SaveState
  <1>2. CASE own.at = "confirm"
    <2>1. own' = Idle
          BY <1>2 DEF SaveState
    <2>2. CheckTypes' /\ check'.since = check.since
          BY <1>1 DEF CheckTypes, SearchInv, SearchTypes
    <2> QED BY <1>1, <2>1, <2>2, EndKeeps
  <1>3. CASE own.at = "state"
    <2>1. own' = [own EXCEPT !.at = "retain"]
          BY <1>3 DEF SaveState
    <2>2. GoesTo("retain") /\ "retain" \in Reconciling /\ own.at \in Reconciling
          BY <1>3, <2>1, Going DEF SearchInv, SearchTypes, Reconciling
    <2>3. Unmoved' /\ Safe'
          BY <1>1, <1>3, <2>2 DEF Unmoved, Safe, GoesTo, SearchInv
    <2> QED BY <1>1, <2>2, <2>3, FilesGrow, Reconciles
  <1> QED BY <1>1, <1>2, <1>3

\* The generations the retention keeps.
LEMMA KeptAreFirst ==
    ASSUME StoreTypes
    PROVE  /\ Kept \in Seq(Roots) /\ Len(Kept) =< Len(archive)
           /\ \A i \in 1..Len(Kept) : Kept[i] = archive[i]
           /\ \A i \in 1..Len(archive) : i =< Keep => i \in 1..Len(Kept) /\ archive[i] \in Elements(Kept)
  <1>1. archive \in Seq(Roots) /\ Len(archive) \in Nat /\ Keep \in Nat
        BY IndexAssumption DEF StoreTypes, IndexAssumption
  <1>2. PICK h \in Nat : h = IF Keep < Len(archive) THEN Keep ELSE Len(archive)
        BY <1>1
  <1>3. Kept = SubSeq(archive, 1, h) /\ h =< Len(archive)
        BY <1>1, <1>2 DEF Kept
  <1>4. Kept \in Seq(Roots) /\ Len(Kept) = h /\ \A i \in 1..h : Kept[i] = archive[i]
        BY <1>1, <1>3
  <1>5. \A i \in 1..Len(archive) : i =< Keep => i \in 1..h
        BY <1>1, <1>2
  <1> QED BY <1>1, <1>3, <1>4, <1>5 DEF Elements

LEMMA UnlinkKeeps == ASSUME SearchInv, Unlink PROVE SearchInv'
  <1>1. own.at = "retain" /\ UNCHANGED <<mailVars, root, archive, check, own, readVars>>
        BY DEF Unlink
  <1>2. PICK p \in Unprotected : files' = files \ {p}
        BY DEF Unlink
  <1>3. \A i \in 1..Len(archive) : i =< Keep => p \notin archive[i].parts
        BY KeptAreFirst DEF Unprotected, SearchInv, SearchTypes
  <1>4. archive \in Seq(Roots) /\ archive # <<>> /\ archive[1].parts = root.parts
        BY <1>1 DEF SearchInv, SearchTypes, StoreTypes, Safe
  <1>5. p \notin root.parts
    <2>1. Len(archive) \in Nat /\ Len(archive) # 0
          BY <1>4
    <2>2. 1 \in 1..Len(archive) /\ 1 =< Keep
          BY <2>1, IndexAssumption DEF IndexAssumption
    <2> QED BY <1>3, <1>4, <2>2
  <1>6. RootIsWhole'
        BY <1>1, <1>2, <1>3, <1>5 DEF RootIsWhole, SearchInv
  <1>7. GoesTo("retain") /\ "retain" \in Reconciling /\ own.at \in Reconciling
        BY <1>1 DEF GoesTo, Shape, Reconciling, SearchInv, SearchTypes, OwnTypes
  <1>8. root.parts \subseteq files
        BY <1>7, AllListed
  <1>9. Unmoved' /\ Safe'
        BY <1>1, <1>2, <1>4, <1>5, <1>8 DEF Unmoved, Safe
  <1>10. root' \in Roots /\ root'.since =< tick /\ Promise(root)'
        BY <1>1 DEF SearchInv, SearchTypes, StoreTypes, Times, Promise, Promises, In, mailVars
  <1> QED BY <1>1, <1>4, <1>6, <1>7, <1>9, <1>10, Reconciles

LEMMA RetainedKeeps == ASSUME SearchInv, Retained PROVE SearchInv'
  <1>1. own' = Idle /\ archive' = Kept /\ UNCHANGED <<mailVars, files, root, check, readVars>>
        BY DEF Retained
  <1>2. MailTypes' /\ tick \in Nat
        BY <1>1 DEF MailTypes, mailVars, SearchInv, SearchTypes
  <1>3. OwnTypes' /\ RunTypes' /\ Listed' /\ Pass' /\ Unmoved' /\ Safe' /\ own'.since = 0
        BY <1>1, <1>2, Stopping
  <1>4. own'.since =< tick /\ root'.since =< tick /\ check'.since =< tick /\ CheckTypes'
        BY <1>1, <1>2, <1>3 DEF SearchInv, SearchTypes, Times, CheckTypes
  <1>5. /\ archive' \in Seq(Roots) /\ Len(archive') =< Len(archive) /\ archive \in Seq(Roots)
        /\ \A i \in 1..Len(archive') : archive'[i] = archive[i]
        BY <1>1, KeptAreFirst DEF SearchInv, SearchTypes, StoreTypes
  <1>6. \A i \in 1..Len(archive') : i \in 1..Len(archive)
        BY <1>5
  <1>7. Promise(root)' /\ RootIsWhole' /\ root' \in Roots
        BY <1>1, <1>5, <1>6 DEF Promise, Promises, RootIsWhole, In, mailVars, SearchInv, SearchTypes, StoreTypes
  <1> QED BY <1>1, <1>3, <1>4, <1>5, <1>7, RunStep

-----------------------------------------------------------------------------
(* SearchIndex: the readers, and the theorem *)

LEMMA ReadersKeep == ASSUME SearchInv, SyncWorker PROVE SearchInv'
  <1>1. UNCHANGED <<mailVars, diskVars, own>>
        BY DEF SyncWorker, ReadManifest, Import
  <1>2. NoRoot \in Roots /\ NoRoot.since = 0 /\ ~NoRoot.full
        BY DEF NoRoot, Roots, Makers
  <1>3. tick \in Nat /\ MailLives
        BY <1>1, MailStays DEF SearchInv, SearchTypes, MailTypes
  <1>4. rd.root \in Roots /\ index \in Roots /\ root \in Roots
        BY DEF SearchInv, SearchTypes, StoreTypes
  <1>5. /\ rd' \in [at : {"idle", "read"}, root : Roots]
        /\ index' \in {index, rd.root} /\ rd'.root \in {root, NoRoot}
        BY <1>2, <1>4 DEF SyncWorker, ReadManifest, Import
  <1>6. StoreTypes'
        BY <1>1, <1>4, <1>5 DEF StoreTypes, diskVars, SearchInv, SearchTypes
  <1>7. Times'
        BY <1>1, <1>2, <1>3, <1>5 DEF Times, diskVars, mailVars, SearchInv, SearchTypes
  <1>8. MailTypes' /\ CheckTypes' /\ OwnTypes' /\ RunTypes'
        BY <1>1, <1>3 DEF MailLives, CheckTypes, OwnTypes, RunTypes, diskVars, SearchInv, SearchTypes
  <1>9. Listed' /\ Pass' /\ Unmoved' /\ Safe' /\ RootIsWhole'
    <2>1. Listed' /\ Unmoved' /\ Safe' /\ RootIsWhole'
          BY <1>1 DEF Listed, Unmoved, Safe, RootIsWhole, In, Seen, Places, NewParts, diskVars, mailVars, SearchInv
    <2>2. Pass'
          BY <1>1 DEF Pass, Covered, Upto, Page, Cut, Start, Current, Open, diskVars, SearchInv
    <2> QED BY <2>1, <2>2
  <1>10. Promises'
    <2>1. Promise(root)' /\ Promise(rd.root)' /\ Promise(index)'
      <3>1. Promise(root)'
            BY <1>1 DEF Promise, Promises, In, diskVars, mailVars, SearchInv
      <3>2. Promise(rd.root)'
            BY <1>1, <1>2, <1>5 DEF Promise, Promises, In, diskVars, mailVars, SearchInv
      <3>3. Promise(index)'
            BY <1>1, <1>5 DEF Promise, Promises, In, diskVars, mailVars, SearchInv
      <3> QED BY <3>1, <3>2, <3>3
    <2> QED BY <2>1 DEF Promises
  <1> QED BY <1>6, <1>7, <1>8, <1>9, <1>10 DEF SearchInv, SearchTypes

LEMMA SearchStarts == Init => SearchInv
  <1> SUFFICES ASSUME Init PROVE SearchInv
      OBVIOUS
  <1>1. Inbox \in Seq(Msgs)
    <2>1. Elements(Inbox) \subseteq Msgs
          BY DEF Msgs
    <2> QED BY <2>1, IndexAssumption DEF IndexAssumption
  <1>2. MailTypes
    <2>1. box \in [Folders -> Seq(Msgs)]
      <3>1. \A f \in Folders : (IF f = 1 THEN Inbox ELSE <<>>) \in Seq(Msgs)
            BY <1>1
      <3> QED BY <3>1 DEF Init
    <2> QED BY <2>1, IndexAssumption DEF Init, MailTypes, IndexAssumption
  <1>3. NoRoot \in Roots /\ NoRoot.since = 0 /\ ~NoRoot.full /\ NoRoot.parts = {} /\ ~Honest(NoRoot)
        BY DEF NoRoot, Roots, Makers, Honest
  <1>4. StoreTypes
    <2>1. <<>> \in Seq(Roots)
          OBVIOUS
    <2> QED BY <1>3, <2>1 DEF Init, StoreTypes
  <1>5. CheckTypes /\ check.since = 0
        BY DEF Init, NoCheck, CheckTypes
  <1>6. /\ own.at = "idle" /\ own.sel = {} /\ own.left = {} /\ own.since = 0 /\ own.by = "none" /\ Shape(own)
        BY DEF Init, Idle, Shape
  <1>7. OwnTypes /\ RunTypes /\ Listed /\ Pass /\ Unmoved /\ Safe
    <2>1. OwnTypes
          BY <1>6 DEF OwnTypes, Shape, Makers
    <2>2. RunTypes
          BY <1>6 DEF RunTypes, Reading, Reconciling
    <2> QED BY <1>6, <2>1, <2>2 DEF Listed, Pass, Unmoved, Safe
  <1>8. Times
        BY <1>3, <1>5, <1>6 DEF Init, Times
  <1>9. Promises /\ RootIsWhole
        BY <1>3 DEF Init, Promises, Promise, RootIsWhole
  <1> QED BY <1>2, <1>4, <1>5, <1>7, <1>8, <1>9 DEF SearchInv, SearchTypes

LEMMA SearchSteps == SearchInv /\ [Next]_vars => SearchInv'
  <1> SUFFICES ASSUME SearchInv, [Next]_vars PROVE SearchInv'
      OBVIOUS
  <1>1. CASE World BY <1>1, WorldKeeps
  <1>2. CASE Order BY <1>2, OrderKeeps
  <1>3. CASE StartReconcile \/ Snapshot BY <1>3, StartReconcileKeeps, SnapshotKeeps
  <1>4. CASE Backfill
        BY <1>4, OpenCheckpointKeeps, FetchPageKeeps, EndsKeep, MarkPageKeeps, LastPageKeeps,
           PublishBackfillKeeps DEF Backfill
  <1>5. CASE Reconcile
        BY <1>5, ExamineKeeps, EndsKeep, RefreshKeeps, WritePartsKeeps, ArchiveOldKeeps, PublishReconciledKeeps,
           ArchiveNewKeeps, SaveStateKeeps, UnlinkKeeps, RetainedKeeps DEF Reconcile
  <1>6. CASE Crash BY <1>6, EndsKeep
  <1>7. CASE SyncWorker BY <1>7, ReadersKeep
  <1>8. CASE UNCHANGED vars
    <2>1. UNCHANGED <<mailVars, diskVars, own, readVars>>
          BY <1>8 DEF vars
    <2>2. SearchTypes'
          BY <2>1 DEF SearchTypes, MailTypes, StoreTypes, CheckTypes, OwnTypes, RunTypes, Times, mailVars,
             diskVars, readVars, SearchInv
    <2>3. Listed' /\ Unmoved' /\ Safe' /\ RootIsWhole' /\ Promises'
          BY <2>1 DEF Listed, Unmoved, Safe, RootIsWhole, Promises, Promise, In, Seen, Places, NewParts,
             mailVars, diskVars, readVars, SearchInv
    <2>4. Pass'
          BY <2>1 DEF Pass, Covered, Upto, Page, Cut, Start, Current, Open, diskVars, SearchInv
    <2> QED BY <2>2, <2>3, <2>4 DEF SearchInv
  <1> QED BY <1>1, <1>2, <1>3, <1>4, <1>5, <1>6, <1>7, <1>8 DEF Next, Owner

LEMMA SearchInvIsEnough == SearchInv => IndexIsWhole
  <1> SUFFICES ASSUME SearchInv PROVE NoFalseAbsence
      BY DEF SearchInv, IndexIsWhole
  <1> QED BY DEF SearchInv, Promises, Promise, NoFalseAbsence, ClaimsAbsence

\* Whatever the mailbox does meanwhile and wherever a run dies: the generation published
\* last and the archived ones that count have their files (_retention), and a search that
\* reports an absence as proven is right (MailSearchEvidence.decision), for any mailbox,
\* folders, sizes of a page and limits.
THEOREM IndexStaysWhole == AllSpec => []IndexIsWhole
  <1>1. AllInit => SearchInv
        BY SearchStarts DEF AllInit
  <1>2. SearchInv /\ [AllNext]_allVars => SearchInv'
        BY OneTurn, SearchSteps
  <1> QED BY <1>1, <1>2, SearchInvIsEnough, PTL DEF AllSpec

-----------------------------------------------------------------------------
(* MailLocators: the place of a hit holds its mail *)

MailPlaces == [folder : MailFolders, uid : Nat, mail : {Wanted, Alike}]
Listings == [mails : SUBSET MailPlaces, validity : Nat]
Known == [folder : MailFolders, uid : Nat, validity : Nat]
LocatorAnswers == [state : {"none", "validated", "resolved-after-move", "missing", "conflict"},
                   mail : {0, Wanted, Alike}, folder : Nat, uid : Nat]

LocatorTypes ==
    /\ folders \in SUBSET MailPlaces /\ numbering \in [MailFolders -> Nat \ {0}] /\ native \in BOOLEAN
    /\ locators \in SUBSET Known /\ seen \in [MailFolders -> {<<>>} \cup {<<l>> : l \in Listings}]
    /\ live \in SUBSET MailPlaces /\ searching \in Nat /\ matches \in SUBSET MailPlaces
    /\ answer \in LocatorAnswers /\ fled \in BOOLEAN
    /\ IsFiniteSet(folders) /\ IsFiniteSet(matches)

\* As long as the first folder kept its numbering its first place is the mail's own; so it
\* is in a listing made then.
OwnPlace(places) == \A x \in places : x.folder = 1 /\ x.uid = 1 => x.mail = Wanted

LocatorInv ==
    /\ LocatorTypes
    /\ \A l \in locators : l.folder = 1 /\ l.uid = 1 /\ l.validity = 1
    /\ numbering[1] = 1 => OwnPlace(folders)
    /\ seen[1] # <<>> => /\ seen[1][1].validity =< numbering[1] /\ 1 =< seen[1][1].validity
                         /\ seen[1][1].validity = 1 => OwnPlace(seen[1][1].mails)
                         /\ \A x \in seen[1][1].mails : x.folder = 1
    /\ \A x \in live : x.mail = Wanted \/ (~native /\ 1 < numbering[1])
    /\ Locators!Running /\ ~fled => \A x \in folders : x.mail = Wanted /\ x.folder < searching => x \in matches
    /\ native => searching = 0
    /\ Locators!HitIsTheMail

LEMMA MailFoldersAre ==
    /\ 1 \in MailFolders /\ Cardinality(MailFolders) \in Nat /\ MailFolders = 1..Cardinality(MailFolders)
  <1>1. Cardinality(MailFolders) \in Nat
        BY SearchAssumption, FS_CardinalityType DEF SearchAssumption
  <1> QED BY <1>1, SearchAssumption DEF SearchAssumption

\* The two names of one operator.
LEMMA SameCount == ASSUME NEW S PROVE Locators!Cardinality(S) = Cardinality(S)
  BY DEF Locators!Cardinality, Cardinality

LEMMA NoAnswerIs == /\ Locators!NoAnswer \in LocatorAnswers /\ Locators!NoAnswer.mail = 0
                    /\ Locators!NoAnswer.mail # Alike
  BY SearchAssumption DEF Locators!NoAnswer, LocatorAnswers, SearchAssumption

LEMMA LocatorsStart == Locators!Init => LocatorInv
  <1> SUFFICES ASSUME Locators!Init PROVE LocatorInv
      OBVIOUS
  <1>1. \A f \in MailFolders : f \in Nat
        BY MailFoldersAre
  <1>2. \A f \in MailFolders : [folder |-> f, uid |-> f, mail |-> IF f = 1 THEN Wanted ELSE Alike] \in MailPlaces
        BY <1>1 DEF MailPlaces
  <1>3. folders \in SUBSET MailPlaces /\ OwnPlace(folders)
    <2>1. folders \in SUBSET MailPlaces
          BY <1>2 DEF Locators!Init, Locators!Start
    <2>2. ASSUME NEW x \in folders, x.folder = 1 PROVE x.mail = Wanted
      <3>1. PICK f \in MailFolders : x = [folder |-> f, uid |-> f, mail |-> IF f = 1 THEN Wanted ELSE Alike]
            BY <2>2 DEF Locators!Init, Locators!Start
      <3> QED BY <2>2, <3>1
    <2> QED BY <2>1, <2>2 DEF OwnPlace
  <1>4. ASSUME NEW l \in locators PROVE l \in Known /\ l.folder = 1 /\ l.uid = 1 /\ l.validity = 1
    <2>1. PICK x \in Locators!Start : l = [folder |-> x.folder, uid |-> x.uid, validity |-> 1] /\ x.mail = Wanted
          BY <1>4 DEF Locators!Init
    <2>2. PICK f \in MailFolders : x = [folder |-> f, uid |-> f, mail |-> IF f = 1 THEN Wanted ELSE Alike]
          BY <2>1 DEF Locators!Start
    <2>3. f = 1
          BY <2>1, <2>2, SearchAssumption DEF SearchAssumption
    <2> QED BY <2>1, <2>2, <2>3, MailFoldersAre DEF Known
  <1>9. IsFiniteSet(folders)
    <2>1. PICK place : place = [x \in folders |-> x.folder]
          OBVIOUS
    <2>2. ASSUME NEW x \in folders, NEW y \in folders, place[x] = place[y] PROVE x = y
      <3>1. PICK f \in MailFolders : x = [folder |-> f, uid |-> f, mail |-> IF f = 1 THEN Wanted ELSE Alike]
            BY DEF Locators!Init, Locators!Start
      <3>2. PICK g \in MailFolders : y = [folder |-> g, uid |-> g, mail |-> IF g = 1 THEN Wanted ELSE Alike]
            BY DEF Locators!Init, Locators!Start
      <3>3. f = g
            BY <2>1, <2>2, <3>1, <3>2
      <3> QED BY <3>1, <3>2, <3>3
    <2>3. place \in [folders -> MailFolders]
          BY <1>3, <2>1 DEF MailPlaces
    <2>4. place \in Injection(folders, MailFolders)
          BY <2>2, <2>3, Fun_IsInj
    <2> QED BY <2>4, FS_Injection, SearchAssumption DEF SearchAssumption
  <1>5. LocatorTypes
    <2>1. numbering \in [MailFolders -> Nat \ {0}] /\ seen \in [MailFolders -> {<<>>} \cup {<<l>> : l \in Listings}]
          BY DEF Locators!Init
    <2>2. native \in BOOLEAN /\ fled \in BOOLEAN /\ answer \in LocatorAnswers /\ searching \in Nat
          BY NoAnswerIs DEF Locators!Init
    <2>3. live = {} /\ matches = {}
          BY DEF Locators!Init
    <2> QED BY <1>3, <1>4, <1>9, <2>1, <2>2, <2>3, FS_EmptySet DEF LocatorTypes
  <1>6. seen[1] = <<>>
        BY MailFoldersAre DEF Locators!Init
  <1>7. Locators!HitIsTheMail
        BY NoAnswerIs DEF Locators!Init, Locators!HitIsTheMail
  <1>8. \A x \in folders : ~(x.folder < searching)
    <2>1. \A x \in folders : x.folder \in MailFolders
          BY <1>3 DEF MailPlaces
    <2> QED BY <1>1, <2>1 DEF Locators!Init
  <1> QED BY <1>3, <1>4, <1>5, <1>6, <1>7, <1>8 DEF Locators!Init, LocatorInv

\* A change of the mailbox while the call is running.
LEMMA ChangeKeepsPlaces ==
    ASSUME LocatorInv, NEW x \in SUBSET folders, NEW y \in SUBSET MailPlaces, Locators!Change(x, y),
           numbering' \in [MailFolders -> Nat \ {0}], \A f \in MailFolders : numbering[f] =< numbering'[f],
           numbering'[1] = 1 => OwnPlace(y),
           \A z \in y : z.mail = Wanted => \E w \in x : w.mail = Wanted, IsFiniteSet(y)
    PROVE  LocatorInv'
  <1>1. /\ Locators!Running /\ folders' = (folders \ x) \cup y
        /\ UNCHANGED <<native, locators, seen, live, searching, matches, answer>>
        /\ fled' = (fled \/ (Locators!Began /\ \E z \in x : z.mail = Wanted))
        BY DEF Locators!Change
  <1>2. LocatorTypes'
    <2>1. fled' \in BOOLEAN
          BY <1>1 DEF LocatorInv, LocatorTypes
    <2>2. folders' \in SUBSET MailPlaces
          BY <1>1 DEF LocatorInv, LocatorTypes
    <2>3. IsFiniteSet(folders')
          BY <1>1, FS_Difference, FS_Union DEF LocatorInv, LocatorTypes
    <2> QED BY <1>1, <2>1, <2>2, <2>3 DEF LocatorInv, LocatorTypes
  <1>3. 1 \in MailFolders /\ numbering[1] \in Nat \ {0} /\ numbering'[1] \in Nat \ {0} /\ numbering[1] =< numbering'[1]
        BY MailFoldersAre DEF LocatorInv, LocatorTypes
  <1>4. numbering'[1] = 1 => OwnPlace(folders')
        BY <1>1, <1>3 DEF LocatorInv, OwnPlace
  <1>5. seen[1] # <<>> => seen[1][1].validity \in Nat
        BY <1>3 DEF LocatorInv, LocatorTypes, Listings
  <1>6. seen'[1] # <<>> => /\ seen'[1][1].validity =< numbering'[1] /\ 1 =< seen'[1][1].validity
                           /\ seen'[1][1].validity = 1 => OwnPlace(seen'[1][1].mails)
                           /\ \A z \in seen'[1][1].mails : z.folder = 1
        BY <1>1, <1>3, <1>5 DEF LocatorInv
  <1>7. \A z \in live' : z.mail = Wanted \/ (~native' /\ 1 < numbering'[1])
        BY <1>1, <1>3 DEF LocatorInv
  <1>8. Locators!HitIsTheMail'
        BY <1>1, NoAnswerIs DEF Locators!HitIsTheMail, Locators!Running
  <1>9. ASSUME ~fled', NEW z \in folders', z.mail = Wanted, z.folder < searching' PROVE z \in matches'
    <2>1. z \in folders \ x \/ z \in y
          BY <1>1, <1>9
    <2>2. CASE z \in folders \ x
          BY <1>1, <1>9, <2>2 DEF LocatorInv
    <2>3. CASE z \in y
      <3>1. ~Locators!Began
            BY <1>1, <1>9, <2>3
      <3>2. searching = 0
            BY <3>1 DEF Locators!Began, LocatorInv, LocatorTypes
      <3>3. z.folder \in Nat
            BY <2>3, MailFoldersAre DEF MailPlaces
      <3> QED BY <1>1, <1>9, <3>2, <3>3
    <2> QED BY <2>1, <2>2, <2>3
  <1> QED BY <1>1, <1>2, <1>4, <1>6, <1>7, <1>8, <1>9 DEF LocatorInv

LEMMA MailboxKeepsPlaces ==
    ASSUME LocatorInv, Locators!Moved \/ Locators!Deleted \/ Locators!Renumbered PROVE LocatorInv'
  <1>0. /\ folders \in SUBSET MailPlaces /\ numbering \in [MailFolders -> Nat \ {0}]
        /\ \A f \in MailFolders : f \in Nat
        BY MailFoldersAre DEF LocatorInv, LocatorTypes
  <1>1. CASE Locators!Moved
    <2>1. PICK x \in folders, f \in MailFolders, u \in 1..Highest :
            /\ \A v \in Locators!Uids(f) \cup {f} : v < u
            /\ Locators!Change({x}, {[folder |-> f, uid |-> u, mail |-> x.mail]}) /\ numbering' = numbering
          BY <1>1 DEF Locators!Moved
    <2>2. PICK y : y = [folder |-> f, uid |-> u, mail |-> x.mail]
          OBVIOUS
    <2>3. x \in MailPlaces /\ x.mail \in {Wanted, Alike} /\ u \in Nat /\ f < u
          BY <1>0, <2>1 DEF MailPlaces
    <2>4. y \in MailPlaces /\ y.mail = x.mail /\ ~(y.folder = 1 /\ y.uid = 1)
          BY <2>2, <2>3 DEF MailPlaces
    <2>5. \A g \in MailFolders : numbering[g] =< numbering'[g]
          BY <1>0, <2>1
    <2>6. OwnPlace({y}) /\ {x} \in SUBSET folders /\ {y} \in SUBSET MailPlaces /\ IsFiniteSet({y})
          BY <2>1, <2>4, FS_Singleton DEF OwnPlace
    <2> QED BY <1>0, <2>1, <2>2, <2>4, <2>5, <2>6, ChangeKeepsPlaces
  <1>2. CASE Locators!Deleted
    <2>1. PICK x \in folders : Locators!Change({x}, {}) /\ numbering' = numbering
          BY <1>2 DEF Locators!Deleted
    <2>2. OwnPlace({}) /\ {x} \in SUBSET folders /\ {} \in SUBSET MailPlaces /\ IsFiniteSet({})
          BY <2>1, FS_EmptySet DEF OwnPlace
    <2>3. \A g \in MailFolders : numbering[g] =< numbering'[g]
          BY <1>0, <2>1
    <2> QED BY <1>0, <2>1, <2>2, <2>3, ChangeKeepsPlaces
  <1>3. CASE Locators!Renumbered
    <2>1. PICK f \in MailFolders, u \in 1..Highest, x \in folders :
            /\ x.folder = f /\ Locators!Change({x}, {[x EXCEPT !.uid = u]})
            /\ numbering' = [numbering EXCEPT ![f] = numbering[f] + 1]
          BY <1>3 DEF Locators!Renumbered
    <2>2. PICK y : y = [x EXCEPT !.uid = u]
          OBVIOUS
    <2>3. y \in MailPlaces /\ y.mail = x.mail /\ y.folder = f
          BY <1>0, <2>1, <2>2 DEF MailPlaces
    <2>4. numbering' \in [MailFolders -> Nat \ {0}] /\ \A g \in MailFolders : numbering[g] =< numbering'[g]
          BY <1>0, <2>1
    <2>5. numbering'[1] = 1 => f # 1
          BY <1>0, <2>1, MailFoldersAre
    <2>6. /\ numbering'[1] = 1 => OwnPlace({y})
          /\ {x} \in SUBSET folders /\ {y} \in SUBSET MailPlaces /\ IsFiniteSet({y})
          BY <2>1, <2>3, <2>5, FS_Singleton DEF OwnPlace
    <2> QED BY <2>1, <2>2, <2>3, <2>4, <2>6, ChangeKeepsPlaces
  <1> QED BY <1>1, <1>2, <1>3

LEMMA LookUpKeepsPlaces == ASSUME LocatorInv, NEW l \in locators, Locators!LookUp(l) PROVE LocatorInv'
  <1>1. l \in Known /\ l.folder = 1 /\ l.uid = 1 /\ l.validity = 1
        BY DEF LocatorInv, LocatorTypes
  <1>2. PICK list : list = Locators!Listing(1)
        OBVIOUS
  <1>3. /\ Locators!Running /\ seen' = [seen EXCEPT ![1] = list] /\ locators' = locators \ {l}
        /\ live' = live \cup Locators!Found(list[1], l)
        /\ UNCHANGED <<folders, numbering, native, searching, matches, answer, fled>>
        BY <1>1, <1>2 DEF Locators!LookUp
  <1>4. 1 \in MailFolders /\ numbering[1] \in Nat \ {0} /\ folders \in SUBSET MailPlaces
        BY MailFoldersAre DEF LocatorInv, LocatorTypes
  <1>5. PICK first \in Listings :
          /\ list = <<first>> /\ first.validity =< numbering[1] /\ 1 =< first.validity
          /\ first.validity = 1 => OwnPlace(first.mails)
          /\ \A z \in first.mails : z.folder = 1
    <2>1. CASE seen[1] = <<>>
      <3>1. PICK now : now = [mails |-> {x \in folders : x.folder = 1}, validity |-> numbering[1]]
            OBVIOUS
      <3>2. list = <<now>>
            BY <1>2, <2>1, <3>1 DEF Locators!Listing
      <3>3. {x \in folders : x.folder = 1} \in SUBSET MailPlaces
            BY <1>4
      <3>4. now \in Listings /\ now.validity = numbering[1] /\ now.mails = {x \in folders : x.folder = 1}
            BY <1>4, <3>1, <3>3 DEF Listings
      <3>5. now.validity = 1 => OwnPlace(now.mails)
            BY <3>4 DEF LocatorInv, OwnPlace
      <3>6. now.validity =< numbering[1] /\ 1 =< now.validity
            BY <1>4, <3>4
      <3>7. \A z \in now.mails : z.folder = 1
            BY <3>4
      <3> QED BY <3>2, <3>4, <3>5, <3>6, <3>7
    <2>2. CASE seen[1] # <<>>
      <3>1. PICK old \in Listings : seen[1] = <<old>>
            BY <1>4, <2>2 DEF LocatorInv, LocatorTypes
      <3>2. list = <<old>>
            BY <1>2, <2>2, <3>1 DEF Locators!Listing
      <3> QED BY <2>2, <3>1, <3>2 DEF LocatorInv
    <2> QED BY <2>1, <2>2
  <1>6. seen' \in [MailFolders -> {<<>>} \cup {<<x>> : x \in Listings}] /\ seen'[1] = <<first>>
        BY <1>3, <1>4, <1>5 DEF LocatorInv, LocatorTypes
  <1>7. \A x \in Locators!Found(first, l) :
          x \in MailPlaces /\ (x.mail = Wanted \/ (~native /\ 1 < numbering[1]))
    <2> TAKE x \in Locators!Found(first, l)
    <2>1. x \in first.mails /\ x.uid = 1 /\ x.folder = 1 /\ (native => first.validity = 1)
          BY <1>1, <1>5 DEF Locators!Found
    <2>2. first.validity \in Nat /\ x \in MailPlaces
          BY <2>1 DEF Listings
    <2>3. CASE first.validity = 1
          BY <1>5, <2>1, <2>2, <2>3 DEF OwnPlace
    <2>4. CASE first.validity # 1
          BY <1>4, <1>5, <2>1, <2>2, <2>4
    <2> QED BY <2>3, <2>4
  <1>8. LocatorTypes'
        BY <1>3, <1>5, <1>6, <1>7 DEF LocatorInv, LocatorTypes
  <1>9. Locators!HitIsTheMail'
        BY <1>3, NoAnswerIs DEF Locators!HitIsTheMail, Locators!Running
  <1>10. \A x \in live' : x.mail = Wanted \/ (~native' /\ 1 < numbering'[1])
        BY <1>3, <1>5, <1>7 DEF LocatorInv
  <1> QED BY <1>3, <1>5, <1>6, <1>8, <1>9, <1>10 DEF LocatorInv, Locators!Running

\* A step that answers.
LEMMA AnswerKeepsPlaces ==
    ASSUME LocatorInv, UNCHANGED <<folders, numbering, native, locators, seen, live, searching, matches, fled>>,
           answer' \in LocatorAnswers, answer' # Locators!NoAnswer, Locators!HitIsTheMail'
    PROVE  LocatorInv'
  BY DEF LocatorInv, LocatorTypes, Locators!Running

LEMMA SelectKeepsPlaces == ASSUME LocatorInv, Locators!Select PROVE LocatorInv'
  <1>1. UNCHANGED <<folders, numbering, native, locators, seen, live, searching, matches, fled>>
        BY DEF Locators!Select
  <1>2. PICK x \in live :
          answer' = [state |-> "validated", mail |-> x.mail, folder |-> x.folder, uid |-> x.uid]
        BY DEF Locators!Select, Locators!Answers
  <1>3. x \in MailPlaces /\ (x.mail = Wanted \/ (~native /\ 1 < numbering[1])) /\ 1 \in MailFolders
        BY MailFoldersAre DEF LocatorInv, LocatorTypes
  <1>4. answer' \in LocatorAnswers
        BY <1>2, <1>3, MailFoldersAre DEF LocatorAnswers, MailPlaces
  <1>5. answer' # Locators!NoAnswer
        BY <1>2 DEF Locators!NoAnswer
  <1>6. Locators!HitIsTheMail'
        BY <1>1, <1>2, <1>3, SearchAssumption DEF Locators!HitIsTheMail, SearchAssumption
  <1> QED BY <1>1, <1>4, <1>5, <1>6, AnswerKeepsPlaces

LEMMA GiveUpKeepsPlaces == ASSUME LocatorInv, Locators!GiveUp PROVE LocatorInv'
  <1>1. /\ UNCHANGED <<folders, numbering, native, locators, seen, live, searching, matches, fled>>
        /\ answer' = [Locators!NoAnswer EXCEPT !.state = "missing"]
        BY DEF Locators!GiveUp
  <1>2. answer' \in LocatorAnswers /\ answer'.mail = 0 /\ answer' # Locators!NoAnswer
        BY <1>1 DEF Locators!NoAnswer, LocatorAnswers
  <1>3. Locators!HitIsTheMail'
        BY <1>2, SearchAssumption DEF Locators!HitIsTheMail, SearchAssumption
  <1> QED BY <1>1, <1>2, <1>3, AnswerKeepsPlaces

LEMMA SearchKeepsPlaces == ASSUME LocatorInv, Locators!Search PROVE LocatorInv'
  <1>1. /\ Locators!Running /\ searching' = searching + 1
        /\ matches' = matches \cup {x \in folders : x.folder = searching}
        /\ UNCHANGED <<folders, numbering, native, locators, seen, live, answer, fled>>
        BY DEF Locators!Search
  <1>5. IsFiniteSet(matches')
    <2>1. IsFiniteSet({x \in folders : x.folder = searching})
          BY FS_Subset DEF LocatorInv, LocatorTypes
    <2> QED BY <1>1, <2>1, FS_Union DEF LocatorInv, LocatorTypes
  <1>2. LocatorTypes'
        BY <1>1, <1>5 DEF LocatorInv, LocatorTypes
  <1>6. ~native
        BY DEF Locators!Search
  <1>3. ASSUME ~fled, NEW x \in folders, x.mail = Wanted, x.folder < searching + 1 PROVE x \in matches'
    <2>1. x.folder \in Nat /\ searching \in Nat
          BY MailFoldersAre DEF LocatorInv, LocatorTypes, MailPlaces
    <2>2. x.folder < searching \/ x.folder = searching
          BY <1>3, <2>1
    <2> QED BY <1>1, <1>3, <2>2 DEF LocatorInv
  <1>4. Locators!HitIsTheMail'
        BY <1>1 DEF Locators!HitIsTheMail, LocatorInv
  <1> QED BY <1>1, <1>2, <1>3, <1>4, <1>6 DEF LocatorInv, Locators!Running

LEMMA ResolveKeepsPlaces == ASSUME LocatorInv, Locators!Resolve PROVE LocatorInv'
  <1>4. searching > Locators!Cardinality(MailFolders)
        BY DEF Locators!Resolve
  <1>1. /\ Locators!Running /\ searching > Cardinality(MailFolders)
        /\ UNCHANGED <<folders, numbering, native, locators, seen, live, searching, matches, fled>>
        BY <1>4, SameCount DEF Locators!Resolve
  <1>2. CASE Locators!Unique(matches)
    <2>1. PICK x \in matches :
            answer' = [state |-> "resolved-after-move", mail |-> x.mail, folder |-> x.folder, uid |-> x.uid]
          BY <1>2 DEF Locators!Resolve, Locators!Answers
    <2>2. x \in MailPlaces /\ matches \in SUBSET MailPlaces
          BY DEF LocatorInv, LocatorTypes
    <2>3. answer' \in LocatorAnswers
          BY <2>1, <2>2, MailFoldersAre DEF LocatorAnswers, MailPlaces
    <2>4. answer' # Locators!NoAnswer
          BY <2>1 DEF Locators!NoAnswer
    <2>5. ASSUME ~native, ~fled, NEW y \in folders, y.mail = Wanted PROVE x.mail = Wanted
      <3>1. y.folder \in MailFolders /\ searching \in Nat
            BY DEF LocatorInv, LocatorTypes, MailPlaces
      <3>2. y.folder < searching
            BY <1>1, <3>1, MailFoldersAre
      <3>3. y \in matches
            BY <1>1, <2>5, <3>2 DEF LocatorInv
      <3>4. \A a, b \in matches : a = b
        <4>1. IsFiniteSet(matches)
              BY DEF LocatorInv, LocatorTypes
        <4>3. Cardinality(matches) = 1
              BY <1>2, SameCount DEF Locators!Unique
        <4>2. PICK m : matches = {m}
              BY <4>1, <4>3, FS_Singleton
        <4> QED BY <4>2
      <3> QED BY <2>1, <2>5, <3>3, <3>4
    <2>6. ~native
          BY <1>1, MailFoldersAre DEF LocatorInv, LocatorTypes
    <2>7. Locators!HitIsTheMail'
          BY <1>1, <2>1, <2>5, <2>6, SearchAssumption DEF Locators!HitIsTheMail, SearchAssumption
    <2> QED BY <1>1, <2>3, <2>4, <2>7, AnswerKeepsPlaces
  <1>3. CASE ~Locators!Unique(matches)
    <2>1. answer' = [Locators!NoAnswer EXCEPT !.state = IF matches = {} THEN "missing" ELSE "conflict"]
          BY <1>3 DEF Locators!Resolve
    <2>2. answer' \in LocatorAnswers /\ answer'.mail = 0 /\ answer' # Locators!NoAnswer
          BY <2>1 DEF Locators!NoAnswer, LocatorAnswers
    <2>3. Locators!HitIsTheMail'
          BY <2>2, SearchAssumption DEF Locators!HitIsTheMail, SearchAssumption
    <2> QED BY <1>1, <2>2, <2>3, AnswerKeepsPlaces
  <1> QED BY <1>2, <1>3

LEMMA LocatorsStay == LocatorInv /\ [Locators!Next]_locatorsVars => LocatorInv'
  <1>1. LocatorInv /\ UNCHANGED locatorsVars => LocatorInv'
        BY DEF LocatorInv, LocatorTypes, locatorsVars, Locators!Running, Locators!HitIsTheMail
  <1> QED BY <1>1, MailboxKeepsPlaces, LookUpKeepsPlaces, SelectKeepsPlaces, GiveUpKeepsPlaces,
             SearchKeepsPlaces, ResolveKeepsPlaces DEF Locators!Next

-----------------------------------------------------------------------------
(* MailSearchAnswer: an answer that denies *)

\* A search is between its look at the status and its answer.
Asking == question.step \in {"query", "state", "semantic", "fuse"}

AnswerTypes ==
    /\ post = [here |-> post.here, seen |-> post.seen]
    /\ imported = [mails |-> imported.mails, whole |-> imported.whole, fresh |-> imported.fresh,
                   chunks |-> imported.chunks, imports |-> imported.imports]
    /\ question = [step |-> question.step, mode |-> question.mode, eligible |-> question.eligible,
                   semantic |-> question.semantic, hits |-> question.hits, whole |-> question.whole,
                   near |-> question.near, decision |-> question.decision, base |-> question.base,
                   from |-> question.from, passed |-> question.passed, asked |-> question.asked]
    /\ imported.imports \in Nat /\ question.from \in Nat
    /\ IsFiniteSet(imported.chunks)

\* What was ever looked at has been in the mailbox, and does not come back.
Sighted == /\ post.seen \subseteq Mails /\ post.here \subseteq post.seen
         /\ projection.mails \subseteq post.seen /\ imported.mails \subseteq post.seen
         /\ question.base \subseteq post.seen

\* Every text of the index has a chunk, and a vector is one of a chunk.
Chunked == /\ imported.mails \cap Written \subseteq {c[1] : c \in imported.chunks}
           /\ embeddings \subseteq imported.chunks

\* An authoritative projection lacks no mail the index has and the mailbox still holds.
Complete == projection.whole => imported.mails \cap post.here \subseteq projection.mails

\* What the search may deny although it is there.
Overlooked == question.base \cap post.here \cap Matching \cap Written

\* The index a search began with, and what one import can have done to it.
Followed ==
    Asking =>
        /\ question.from =< imported.imports
        /\ imported.imports = question.from => imported.mails = question.base
        /\ imported.imports = question.from + 1 /\ imported.whole =>
             question.base \cap post.here \subseteq imported.mails

\* A query without a hit has overlooked a mail only in an import with a hole, and its
\* look at the state has seen that import.
Queried ==
    /\ question.step \in {"status", "query"} => ~question.whole
    /\ question.step = "state" /\ question.hits = {} /\ imported.imports =< question.from + 1 =>
         Overlooked = {} \/ (imported.imports = question.from + 1 /\ ~imported.whole)
    /\ question.step \in {"semantic", "fuse"} /\ question.hits = {} /\ question.whole
         /\ imported.imports =< question.from + 1 => Overlooked = {}

Decided ==
    /\ question.decision = "no-match" => question.step = "answered"
    /\ question.decision = "no-match" /\ question.passed =< 1 => Overlooked = {}

AnswerInv == AnswerTypes /\ Sighted /\ Chunked /\ Complete /\ Followed /\ Queried /\ Decided

LEMMA AnswerInvIsEnough == AnswerInv => Answer!NegativeIsProven /\ Answer!ReadyMeansEmbedded
  <1> SUFFICES ASSUME AnswerInv PROVE Answer!NegativeIsProven /\ Answer!ReadyMeansEmbedded
      OBVIOUS
  <1>1. Answer!NegativeIsProven
        BY DEF AnswerInv, Decided, Overlooked, Answer!NegativeIsProven
  <1>2. ASSUME Answer!SemanticState = "ready" PROVE imported.chunks \subseteq embeddings
    <2>1. \A S : Answer!Cardinality(S) = Cardinality(S)
          BY DEF Answer!Cardinality, Cardinality
    <2>2. Cardinality(embeddings) >= Cardinality(imported.chunks)
          BY <1>2, <2>1 DEF Answer!SemanticState
    <2>3. /\ IsFiniteSet(imported.chunks) /\ embeddings \subseteq imported.chunks
          BY DEF AnswerInv, AnswerTypes, Chunked
    <2>4. /\ Cardinality(embeddings) \in Nat /\ Cardinality(imported.chunks) \in Nat
          /\ Cardinality(embeddings) =< Cardinality(imported.chunks)
          /\ Cardinality(embeddings) = Cardinality(imported.chunks) => embeddings = imported.chunks
          BY <2>3, FS_Subset, FS_CardinalityType
    <2> QED BY <2>2, <2>4
  <1> QED BY <1>1, <1>2 DEF Answer!ReadyMeansEmbedded

LEMMA AnswerStarts == Answer!Init => AnswerInv
  <1> SUFFICES ASSUME Answer!Init PROVE AnswerInv
      OBVIOUS
  <1>1. /\ post = [here |-> {}, seen |-> {}] /\ projection = [mails |-> {}, whole |-> TRUE] /\ embeddings = {}
        /\ imported = [mails |-> {}, whole |-> FALSE, fresh |-> FALSE, chunks |-> {}, imports |-> 0]
        BY DEF Answer!Init
  <1>2. question = [step |-> "idle", mode |-> "none", eligible |-> FALSE, semantic |-> "missing", hits |-> {},
                    whole |-> FALSE, near |-> {}, decision |-> "none", base |-> {}, from |-> 0, passed |-> 0,
                    asked |-> 0]
        BY DEF Answer!Init, Answer!Idle
  <1>3. AnswerTypes
        BY <1>1, <1>2, FS_EmptySet DEF AnswerTypes
  <1>4. Sighted /\ Chunked /\ Complete
        BY <1>1, <1>2 DEF Sighted, Chunked, Complete
  <1>5. Followed /\ Queried /\ Decided
        BY <1>2 DEF Followed, Queried, Decided, Asking
  <1> QED BY <1>3, <1>4, <1>5 DEF AnswerInv

\* The mailbox changes: a mail that comes is a new one.
LEMMA PostKeeps == ASSUME AnswerInv, Answer!Arrive \/ Answer!Leave PROVE AnswerInv'
  <1>1. UNCHANGED <<projection, imported, embeddings, builder, question>>
        BY DEF Answer!Arrive, Answer!Leave
  <1>2. PICK here, seens : post' = [here |-> here, seen |-> seens] /\ post.seen \subseteq seens /\ here \subseteq seens
                           /\ seens \subseteq Mails /\ here \cap post.seen \subseteq post.here
    <2>1. post = [here |-> post.here, seen |-> post.seen] /\ post.here \subseteq post.seen /\ post.seen \subseteq Mails
          BY DEF AnswerInv, AnswerTypes, Sighted
    <2>2. CASE Answer!Arrive
          BY <2>1, <2>2 DEF Answer!Arrive
    <2>3. CASE Answer!Leave
      <3>1. PICK m \in post.here : post' = [post EXCEPT !.here = post.here \ {m}]
            BY <2>3 DEF Answer!Leave
      <3>2. post' = [here |-> post.here \ {m}, seen |-> post.seen]
            BY <2>1, <3>1
      <3> QED BY <2>1, <3>2
    <2> QED BY <2>2, <2>3
  <1>3. post'.here = here /\ post'.seen = seens
        BY <1>2
  <1>4. AnswerTypes'
        BY <1>1, <1>2, <1>3 DEF AnswerInv, AnswerTypes
  <1>5. Sighted' /\ Chunked' /\ Complete'
        BY <1>1, <1>2, <1>3 DEF AnswerInv, Sighted, Chunked, Complete
  <1>6. Overlooked' \subseteq Overlooked
        BY <1>1, <1>2, <1>3 DEF AnswerInv, Sighted, Overlooked
  <1>7. Followed'
        BY <1>1, <1>2, <1>3 DEF AnswerInv, Sighted, Followed, Asking
  <1>8. Queried' /\ Decided'
        BY <1>1, <1>6 DEF AnswerInv, Queried, Decided
  <1> QED BY <1>4, <1>5, <1>7, <1>8 DEF AnswerInv

LEMMA ProjectKeeps == ASSUME AnswerInv, Answer!Project PROVE AnswerInv'
  <1>1. UNCHANGED <<post, imported, embeddings, builder, question>>
        BY DEF Answer!Project
  <1>2. PICK M \in SUBSET post.here : projection' = [mails |-> M, whole |-> M = post.here]
        BY DEF Answer!Project
  <1>3. projection'.mails = M /\ (projection'.whole => M = post.here)
        BY <1>2
  <1>4. Sighted' /\ Complete'
        BY <1>1, <1>3 DEF AnswerInv, Sighted, Complete
  <1>5. AnswerTypes' /\ Chunked' /\ Followed' /\ Queried' /\ Decided'
        BY <1>1 DEF AnswerInv, AnswerTypes, Chunked, Followed, Queried, Decided, Asking, Overlooked
  <1> QED BY <1>4, <1>5 DEF AnswerInv

\* The index changes only its age, or the vectors are added to.
LEMMA VectorsKeep ==
    ASSUME AnswerInv, Answer!Age \/ Answer!Candidates \/ Answer!StoreBatch \/ Answer!Unavailable
    PROVE  AnswerInv'
  <1>1. UNCHANGED <<post, projection, question>>
        BY DEF Answer!Age, Answer!Candidates, Answer!StoreBatch, Answer!Unavailable
  <1>2. \/ imported' = imported
        \/ imported' = [imported EXCEPT !.fresh = FALSE]
        BY DEF Answer!Age, Answer!Candidates, Answer!StoreBatch, Answer!Unavailable
  <1>3. \/ embeddings' = embeddings
        \/ /\ imported' = imported /\ embeddings' = embeddings \cup Answer!Request
           /\ Answer!Request \subseteq imported.chunks
        BY DEF Answer!Age, Answer!Candidates, Answer!StoreBatch, Answer!Unavailable
  <1>4. PICK age : imported' = [mails |-> imported.mails, whole |-> imported.whole, fresh |-> age,
                                chunks |-> imported.chunks, imports |-> imported.imports]
        BY <1>2 DEF AnswerInv, AnswerTypes
  <1>5. /\ imported'.mails = imported.mails /\ imported'.whole = imported.whole /\ imported'.fresh = age
        /\ imported'.chunks = imported.chunks /\ imported'.imports = imported.imports
        BY <1>4
  <1>6. AnswerTypes'
        BY <1>1, <1>4, <1>5 DEF AnswerInv, AnswerTypes
  <1>7. Chunked'
        BY <1>3, <1>5 DEF AnswerInv, Chunked
  <1>8. Sighted' /\ Complete' /\ Followed' /\ Queried' /\ Decided'
        BY <1>1, <1>5 DEF AnswerInv, Sighted, Complete, Followed, Queried, Decided, Asking, Overlooked
  <1> QED BY <1>6, <1>7, <1>8 DEF AnswerInv

LEMMA ImportKeeps == ASSUME AnswerInv, Answer!Import PROVE AnswerInv'
  <1>1. UNCHANGED <<post, projection, question>>
        BY DEF Answer!Import
  <1>2. PICK old : old = {c \in imported.chunks : c[1] \in projection.mails}
        OBVIOUS
  <1>3. PICK new : new = (projection.mails \ imported.mails) \cap Written
        OBVIOUS
  <1>4. PICK added : added = new \X {imported.imports + 1}
        OBVIOUS
  <1>5. PICK chunks : chunks = old \cup added
        OBVIOUS
  <1>6. /\ imported' = [mails |-> projection.mails, whole |-> projection.whole, fresh |-> TRUE,
                        chunks |-> chunks, imports |-> imported.imports + 1]
        /\ embeddings' = embeddings \cap chunks
        BY <1>2, <1>3, <1>4, <1>5 DEF Answer!Import, Answer!Kept
  <1>7. /\ imported'.mails = projection.mails /\ imported'.whole = projection.whole /\ imported'.fresh = TRUE
        /\ imported'.chunks = chunks /\ imported'.imports = imported.imports + 1
        BY <1>6
  <1>8. IsFiniteSet(chunks)
    <2>1. IsFiniteSet(old)
          BY <1>2, FS_Subset DEF AnswerInv, AnswerTypes
    <2>2. IsFiniteSet(new)
          BY <1>3, SearchAssumption, FS_Subset DEF AnswerInv, Sighted, SearchAssumption
    <2>3. IsFiniteSet({imported.imports + 1})
          BY FS_Singleton
    <2>4. IsFiniteSet(added)
          BY <1>4, <2>2, <2>3, FS_Product
    <2> QED BY <1>5, <2>1, <2>4, FS_Union
  <1>9. AnswerTypes'
        BY <1>1, <1>6, <1>7, <1>8 DEF AnswerInv, AnswerTypes
  <1>10. Sighted' /\ Complete'
        BY <1>1, <1>7 DEF AnswerInv, Sighted, Complete
  <1>11. Chunked'
    <2>1. ASSUME NEW m \in projection.mails, m \in Written PROVE \E c \in chunks : c[1] = m
      <3>1. CASE m \in imported.mails
            BY <1>2, <1>5, <2>1, <3>1 DEF AnswerInv, Chunked
      <3>2. CASE m \notin imported.mails
        <4>1. <<m, imported.imports + 1>> \in added
              BY <1>3, <1>4, <2>1, <3>2
        <4> QED BY <1>5, <4>1
      <3> QED BY <3>1, <3>2
    <2> QED BY <1>6, <1>7, <2>1 DEF Chunked
  <1>12. Overlooked' = Overlooked /\ (Asking' <=> Asking)
        BY <1>1 DEF Overlooked, Asking
  <1>13. imported.imports \in Nat /\ question.from \in Nat
        BY DEF AnswerInv, AnswerTypes
  <1>14. Followed'
        BY <1>1, <1>7, <1>12, <1>13 DEF AnswerInv, Followed, Complete
  <1>15. Queried'
    <2>1. ASSUME question.step = "state", question.hits = {}, imported.imports + 1 =< question.from + 1
          PROVE  Overlooked = {}
      <3>1. imported.imports = question.from
            BY <1>13, <2>1 DEF AnswerInv, Followed, Asking
      <3> QED BY <1>13, <2>1, <3>1 DEF AnswerInv, Queried
    <2>2. ASSUME imported.imports + 1 =< question.from + 1 PROVE imported.imports =< question.from + 1
          BY <1>13, <2>2
    <2> QED BY <1>1, <1>7, <1>12, <2>1, <2>2 DEF AnswerInv, Queried
  <1>16. Decided'
        BY <1>1, <1>12 DEF AnswerInv, Decided
  <1> QED BY <1>9, <1>10, <1>11, <1>14, <1>15, <1>16 DEF AnswerInv

\* A step of the search.
QuestionIs(q) ==
    q = [step |-> q.step, mode |-> q.mode, eligible |-> q.eligible, semantic |-> q.semantic, hits |-> q.hits,
         whole |-> q.whole, near |-> q.near, decision |-> q.decision, base |-> q.base, from |-> q.from,
         passed |-> q.passed, asked |-> q.asked]

LEMMA QuestionKeeps ==
    ASSUME AnswerInv, Answer!others' = Answer!others, QuestionIs(question'), question'.from \in Nat,
           question'.base \subseteq post.seen, Followed', Queried', Decided'
    PROVE  AnswerInv'
  <1>1. UNCHANGED <<post, projection, imported, embeddings>>
        BY DEF Answer!others
  <1>2. AnswerTypes' /\ Sighted' /\ Chunked' /\ Complete'
        BY <1>1 DEF AnswerInv, AnswerTypes, Sighted, Chunked, Complete, QuestionIs
  <1> QED BY <1>2 DEF AnswerInv

\* A step that leaves the base of the search alone, and does not decide.
Onward ==
    /\ QuestionIs(question') /\ question'.step \in {"query", "state", "semantic", "fuse", "server"}
    /\ question'.decision = question.decision /\ question'.base = question.base
    /\ question'.from = question.from /\ question'.passed = question.passed
    /\ question'.step = "query" => ~question'.whole
    /\ question'.step = "state" => question'.hits = {c[1] : c \in imported.chunks} \cap Matching
    /\ question'.step \in {"semantic", "fuse"} =>
         \/ ~question'.whole
         \/ question.step = "state" /\ imported.whole /\ question'.hits = question.hits
         \/ /\ question.step = "semantic"
            /\ question'.whole = question.whole /\ question'.hits = question.hits

LEMMA OnwardKeeps == ASSUME AnswerInv, Answer!others' = Answer!others, Asking, Onward PROVE AnswerInv'
  <1>3. UNCHANGED <<post, projection, imported, embeddings>>
        BY DEF Answer!others
  <1>4. Overlooked' = Overlooked
        BY <1>3 DEF Overlooked, Onward
  <1>5. Followed'
        BY <1>3 DEF AnswerInv, Followed, Asking, Onward
  <1>6. question.decision # "no-match"
        BY DEF AnswerInv, Decided, Asking
  <1>7. Decided'
        BY <1>6 DEF Decided, Onward
  <1>8. imported.imports \in Nat /\ question.from \in Nat /\ question.from =< imported.imports
        BY DEF AnswerInv, AnswerTypes, Followed
  <1>9. ASSUME question'.step = "state", question'.hits = {}, imported.imports =< question.from + 1
        PROVE  Overlooked = {} \/ (imported.imports = question.from + 1 /\ ~imported.whole)
    <2>1. imported.mails \cap Written \cap Matching = {}
          BY <1>9 DEF AnswerInv, Chunked, Onward
    <2>2. CASE imported.imports = question.from
          BY <2>1, <2>2 DEF AnswerInv, Followed, Overlooked
    <2>3. CASE imported.imports = question.from + 1 /\ imported.whole
          BY <2>1, <2>3 DEF AnswerInv, Followed, Overlooked
    <2>4. imported.imports = question.from \/ imported.imports = question.from + 1
          BY <1>8, <1>9
    <2> QED BY <2>2, <2>3, <2>4
  <1>10. ASSUME question'.step \in {"semantic", "fuse"}, question'.hits = {}, question'.whole,
                imported.imports =< question.from + 1
         PROVE  Overlooked = {}
    <2>1. CASE question.step = "state" /\ imported.whole /\ question'.hits = question.hits
          BY <1>10, <2>1 DEF AnswerInv, Queried
    <2>2. CASE question.step = "semantic" /\ question'.whole = question.whole /\ question'.hits = question.hits
          BY <1>10, <2>2 DEF AnswerInv, Queried
    <2> QED BY <1>10, <2>1, <2>2 DEF Onward
  <1>11. Queried'
        BY <1>3, <1>4, <1>9, <1>10 DEF Queried, Onward
  <1>12. QuestionIs(question') /\ question'.from \in Nat /\ question'.base \subseteq post.seen
        BY <1>8 DEF AnswerInv, Sighted, Onward
  <1> QED BY <1>5, <1>7, <1>11, <1>12, QuestionKeeps

\* A step that ends at the server, or begins there.
LEMMA AsideKeeps ==
    ASSUME AnswerInv, Answer!others' = Answer!others, QuestionIs(question'), question'.from \in Nat,
           question'.base \subseteq post.seen, question'.decision # "no-match",
           question'.step \in {"status", "server", "answered"}, question'.step = "status" => ~question'.whole
    PROVE  AnswerInv'
  <1>1. Followed' /\ Queried' /\ Decided'
        BY DEF Followed, Queried, Decided, Asking
  <1> QED BY <1>1, QuestionKeeps

LEMMA AskKeeps == ASSUME AnswerInv, Answer!Ask PROVE AnswerInv'
  <1>1. Answer!others' = Answer!others
        BY DEF Answer!Ask, Answer!others
  <1>2. PICK mode \in {"auto", "local", "server"} :
          question' = [Answer!Idle EXCEPT !.mode = mode, !.step = IF mode = "server" THEN "server" ELSE "status",
                                          !.asked = question.asked + 1]
        BY DEF Answer!Ask
  <1>3. PICK step \in {"server", "status"} : step = IF mode = "server" THEN "server" ELSE "status"
        OBVIOUS
  <1>4. PICK asked : asked = question.asked + 1
        OBVIOUS
  <1>5. question' = [step |-> step, mode |-> mode, eligible |-> FALSE, semantic |-> "missing", hits |-> {},
                     whole |-> FALSE, near |-> {}, decision |-> "none", base |-> {}, from |-> 0, passed |-> 0,
                     asked |-> asked]
        BY <1>2, <1>3, <1>4 DEF Answer!Idle
  <1>6. /\ QuestionIs(question') /\ question'.from \in Nat /\ question'.base \subseteq post.seen
        /\ question'.decision # "no-match" /\ question'.step \in {"status", "server", "answered"}
        /\ ~question'.whole
        BY <1>5 DEF QuestionIs
  <1> QED BY <1>1, <1>6, AsideKeeps

LEMMA StatusKeeps == ASSUME AnswerInv, Answer!Status PROVE AnswerInv'
  <1>1. Answer!others' = Answer!others /\ UNCHANGED <<post, imported>> /\ question.step = "status"
        BY DEF Answer!Status, Answer!others
  <1>2. PICK step \in {"server", "query"} :
          step = IF question.mode = "auto" /\ ~Answer!AbsenceProven THEN "server" ELSE "query"
        OBVIOUS
  <1>3. PICK sure : sure = Answer!AbsenceProven
        OBVIOUS
  <1>4. PICK near : near = Answer!SemanticState
        OBVIOUS
  <1>5. question' = [question EXCEPT !.eligible = sure, !.semantic = near, !.base = imported.mails,
                                     !.from = imported.imports, !.step = step]
        BY <1>2, <1>3, <1>4 DEF Answer!Status
  <1>6. question' = [step |-> step, mode |-> question.mode, eligible |-> sure, semantic |-> near,
                     hits |-> question.hits, whole |-> question.whole, near |-> question.near,
                     decision |-> question.decision, base |-> imported.mails, from |-> imported.imports,
                     passed |-> question.passed, asked |-> question.asked]
        BY <1>5 DEF AnswerInv, AnswerTypes
  <1>7. /\ question'.step = step /\ question'.whole = question.whole /\ question'.decision = question.decision
        /\ question'.base = imported.mails /\ question'.from = imported.imports
        BY <1>6
  <1>8. /\ QuestionIs(question') /\ question'.from \in Nat /\ question'.base \subseteq post.seen
        BY <1>6, <1>7 DEF QuestionIs, AnswerInv, AnswerTypes, Sighted
  <1>9. Followed'
        BY <1>1, <1>7, <1>8 DEF Followed, Asking
  <1>10. question.decision # "no-match" /\ ~question.whole
        BY <1>1 DEF AnswerInv, Decided, Queried
  <1>11. Queried' /\ Decided'
        BY <1>7, <1>10 DEF Queried, Decided
  <1> QED BY <1>1, <1>8, <1>9, <1>11, QuestionKeeps

LEMMA QueryKeeps == ASSUME AnswerInv, Answer!Query PROVE AnswerInv'
  <1>1. Answer!others' = Answer!others /\ question.step = "query" /\ Asking
        BY DEF Answer!Query, Answer!others, Asking
  <1>2. ~question.whole
        BY <1>1 DEF AnswerInv, Queried
  <1>3. PICK step \in {"state", "server", "semantic"} : \E hits :
          /\ question' = [question EXCEPT !.step = step, !.hits = hits]
          /\ step = "state" => hits = {c[1] : c \in imported.chunks} \cap Matching
    <2>1. CASE question' = [question EXCEPT !.hits = {c[1] : c \in imported.chunks} \cap Matching, !.step = "state"]
      <3>1. PICK hits : hits = {c[1] : c \in imported.chunks} \cap Matching
            OBVIOUS
      <3>2. question' = [question EXCEPT !.step = "state", !.hits = hits]
            BY <2>1, <3>1 DEF AnswerInv, AnswerTypes
      <3> QED BY <3>1, <3>2
    <2>2. CASE question' = [question EXCEPT !.step = IF question.mode = "auto" THEN "server" ELSE "semantic"]
      <3>1. PICK step \in {"server", "semantic"} : step = IF question.mode = "auto" THEN "server" ELSE "semantic"
            OBVIOUS
      <3>2. question' = [question EXCEPT !.step = step, !.hits = question.hits]
            BY <2>2, <3>1 DEF AnswerInv, AnswerTypes
      <3> QED BY <3>1, <3>2
    <2> QED BY <2>1, <2>2 DEF Answer!Query, Answer!Hits
  <1>4. PICK hits :
          /\ question' = [question EXCEPT !.step = step, !.hits = hits]
          /\ step = "state" => hits = {c[1] : c \in imported.chunks} \cap Matching
        BY <1>3
  <1>5. question' = [step |-> step, mode |-> question.mode, eligible |-> question.eligible,
                     semantic |-> question.semantic, hits |-> hits, whole |-> question.whole,
                     near |-> question.near, decision |-> question.decision, base |-> question.base,
                     from |-> question.from, passed |-> question.passed, asked |-> question.asked]
        BY <1>4 DEF AnswerInv, AnswerTypes
  <1>6. Onward
        BY <1>2, <1>4, <1>5 DEF Onward, QuestionIs
  <1> QED BY <1>1, <1>6, OnwardKeeps

LEMMA StateKeeps == ASSUME AnswerInv, Answer!State PROVE AnswerInv'
  <1>1. Answer!others' = Answer!others /\ question.step = "state" /\ Asking
        BY DEF Answer!State, Answer!others, Asking
  <1>2. PICK whole : whole = Answer!AbsenceProven
        OBVIOUS
  <1>5. question' = [question EXCEPT !.whole = whole, !.step = "semantic"]
        BY <1>2 DEF Answer!State
  <1>3. question' = [step |-> "semantic", mode |-> question.mode, eligible |-> question.eligible,
                     semantic |-> question.semantic, hits |-> question.hits, whole |-> whole,
                     near |-> question.near, decision |-> question.decision, base |-> question.base,
                     from |-> question.from, passed |-> question.passed, asked |-> question.asked]
        BY <1>5 DEF AnswerInv, AnswerTypes
  <1>4. ~whole \/ imported.whole
        BY <1>2 DEF Answer!AbsenceProven
  <1>6. Onward
        BY <1>1, <1>3, <1>4 DEF Onward, QuestionIs
  <1> QED BY <1>1, <1>6, OnwardKeeps

LEMMA SemanticKeeps == ASSUME AnswerInv, Answer!Semantic PROVE AnswerInv'
  <1>1. Answer!others' = Answer!others /\ question.step = "semantic" /\ Asking
        BY DEF Answer!Semantic, Answer!others, Asking
  <1>2. PICK near : question' = [question EXCEPT !.near = near, !.step = "fuse"]
        BY DEF Answer!Semantic
  <1>3. question' = [step |-> "fuse", mode |-> question.mode, eligible |-> question.eligible,
                     semantic |-> question.semantic, hits |-> question.hits, whole |-> question.whole,
                     near |-> near, decision |-> question.decision, base |-> question.base,
                     from |-> question.from, passed |-> question.passed, asked |-> question.asked]
        BY <1>2 DEF AnswerInv, AnswerTypes
  <1>4. Onward
        BY <1>1, <1>3 DEF Onward, QuestionIs
  <1> QED BY <1>1, <1>4, OnwardKeeps

LEMMA FuseKeeps == ASSUME AnswerInv, Answer!Fuse PROVE AnswerInv'
  <1>1. Answer!others' = Answer!others /\ UNCHANGED <<post, imported>> /\ question.step = "fuse" /\ Asking
        BY DEF Answer!Fuse, Answer!others, Asking
  <1>2. question.base \subseteq post.seen /\ question.from \in Nat /\ imported.imports \in Nat
        /\ question.from =< imported.imports /\ question.decision # "no-match"
        BY <1>1 DEF AnswerInv, AnswerTypes, Sighted, Followed, Decided
  <1>3. CASE question' = [question EXCEPT !.step = "server"]
    <2>1. question' = [step |-> "server", mode |-> question.mode, eligible |-> question.eligible,
                       semantic |-> question.semantic, hits |-> question.hits, whole |-> question.whole,
                       near |-> question.near, decision |-> question.decision, base |-> question.base,
                       from |-> question.from, passed |-> question.passed, asked |-> question.asked]
          BY <1>3 DEF AnswerInv, AnswerTypes
    <2>2. Onward
          BY <2>1 DEF Onward, QuestionIs
    <2> QED BY <1>1, <2>2, OnwardKeeps
  <1>4. ASSUME NEW located \in BOOLEAN,
               Answer!Answer(Answer!Results, question.whole /\ question.eligible /\ located)
        PROVE  AnswerInv'
    <2>1. PICK decision :
            /\ decision = Answer!Evidence(Answer!Results, question, question.whole /\ question.eligible /\ located)
            /\ decision = "no-match" => question.hits = {} /\ question.whole
          BY DEF Answer!Evidence, Answer!Results
    <2>2. PICK passed : passed = imported.imports - question.from
          OBVIOUS
    <2>3. question' = [question EXCEPT !.step = "answered", !.decision = decision, !.passed = passed]
          BY <1>4, <2>1, <2>2 DEF Answer!Answer
    <2>4. question' = [step |-> "answered", mode |-> question.mode, eligible |-> question.eligible,
                       semantic |-> question.semantic, hits |-> question.hits, whole |-> question.whole,
                       near |-> question.near, decision |-> decision, base |-> question.base,
                       from |-> question.from, passed |-> passed, asked |-> question.asked]
          BY <2>3 DEF AnswerInv, AnswerTypes
    <2>5. /\ question'.step = "answered" /\ question'.decision = decision /\ question'.base = question.base
          /\ question'.from = question.from /\ question'.passed = passed
          BY <2>4
    <2>6. QuestionIs(question')
          BY <2>4 DEF QuestionIs
    <2>7. Followed' /\ Queried'
          BY <2>5 DEF Followed, Queried, Asking
    <2>8. ASSUME decision = "no-match", passed =< 1 PROVE Overlooked = {}
      <3>1. imported.imports =< question.from + 1
            BY <1>2, <2>2, <2>8
      <3> QED BY <1>1, <2>1, <2>8, <3>1 DEF AnswerInv, Queried
    <2>9. Decided'
          BY <1>1, <2>5, <2>8 DEF Decided, Overlooked
    <2> QED BY <1>1, <1>2, <2>5, <2>6, <2>7, <2>9, QuestionKeeps
  <1> QED BY <1>3, <1>4 DEF Answer!Fuse

LEMMA ServerKeeps == ASSUME AnswerInv, Answer!Server PROVE AnswerInv'
  <1>1. Answer!others' = Answer!others
        BY DEF Answer!Server, Answer!others
  <1>2. question.base \subseteq post.seen /\ question.from \in Nat
        BY DEF AnswerInv, AnswerTypes, Sighted
  <1>3. PICK decision, passed : /\ decision # "no-match"
                                /\ question' = [question EXCEPT !.step = "answered", !.decision = decision,
                                                                !.passed = passed]
    <2>1. CASE question' = [question EXCEPT !.step = "answered", !.decision = "error"]
      <3>1. question' = [question EXCEPT !.step = "answered", !.decision = "error", !.passed = question.passed]
            BY <2>1 DEF AnswerInv, AnswerTypes
      <3> QED BY <3>1
    <2>2. ASSUME NEW found, Answer!Answer(found, FALSE)
          PROVE  \E decision, passed :
                   /\ decision # "no-match"
                   /\ question' = [question EXCEPT !.step = "answered", !.decision = decision, !.passed = passed]
      <3>1. PICK decision : decision = Answer!Evidence(found, question, FALSE)
            OBVIOUS
      <3>2. decision # "no-match"
            BY <3>1 DEF Answer!Evidence
      <3>3. PICK passed : passed = imported.imports - question.from
            OBVIOUS
      <3>4. question' = [question EXCEPT !.step = "answered", !.decision = decision, !.passed = passed]
            BY <2>2, <3>1, <3>3 DEF Answer!Answer
      <3> QED BY <3>2, <3>4
    <2> QED BY <2>1, <2>2 DEF Answer!Server
  <1>4. question' = [step |-> "answered", mode |-> question.mode, eligible |-> question.eligible,
                     semantic |-> question.semantic, hits |-> question.hits, whole |-> question.whole,
                     near |-> question.near, decision |-> decision, base |-> question.base,
                     from |-> question.from, passed |-> passed, asked |-> question.asked]
        BY <1>3 DEF AnswerInv, AnswerTypes
  <1>5. /\ QuestionIs(question') /\ question'.from \in Nat /\ question'.base \subseteq post.seen
        /\ question'.decision # "no-match" /\ question'.step = "answered"
        BY <1>2, <1>3, <1>4 DEF QuestionIs
  <1> QED BY <1>1, <1>5, AsideKeeps

LEMMA AnswerSteps == AnswerInv /\ [Answer!Next]_answerVars => AnswerInv'
  <1>1. AnswerInv /\ UNCHANGED answerVars => AnswerInv'
        BY DEF AnswerInv, AnswerTypes, Sighted, Chunked, Complete, Followed, Queried, Decided, Asking, Overlooked,
           answerVars
  <1> QED BY <1>1, PostKeeps, ProjectKeeps, VectorsKeep, ImportKeeps, AskKeeps, StatusKeeps, QueryKeeps,
             StateKeeps, SemanticKeeps, FuseKeeps, ServerKeeps DEF Answer!Next

-----------------------------------------------------------------------------
SearchIsTrueInv ==
    /\ turn = "answer" => AnswerInv
    /\ turn = "locators" => LocatorInv

\* Whatever imports, builds and changes of the mailbox come between the statements of a search
\* (MailHybridSearch.search, mail_index_status): it denies only what the index proves and calls
\* its vectors ready only when every chunk has one; and the place resolve_live_locators returns
\* holds the mail of the hit, for any mails, folders, batches and limits.
THEOREM SearchStaysTrue == AllSpec => []SearchIsTrue
  <1>1. AllInit => SearchIsTrueInv
        BY AnswerStarts, LocatorsStart DEF AllInit, SearchIsTrueInv
  <1>2. SearchIsTrueInv /\ [AllNext]_allVars => SearchIsTrueInv'
    <2> SUFFICES ASSUME SearchIsTrueInv, [AllNext]_allVars PROVE SearchIsTrueInv'
        OBVIOUS
    <2> QED BY OneTurn, AnswerSteps, LocatorsStay DEF SearchIsTrueInv
  <1>3. SearchIsTrueInv => SearchIsTrue
        BY AnswerInvIsEnough DEF SearchIsTrueInv, SearchIsTrue, LocatorInv
  <1> QED BY <1>1, <1>2, <1>3, PTL DEF AllSpec

-----------------------------------------------------------------------------
(* MailTools: an effect is tried once, on the mail that was meant *)

Stations == {"plan", "reread", "approve", "verify", "go", "record"}
IsJob(j) ==
    /\ j = [at |-> j.at, key |-> j.key, mail |-> j.mail, ended |-> j.ended, shifted |-> j.shifted]
    /\ j.at \in Stations /\ j.ended \in {"none", "completed", "failed"}

Attempts(k) == IF k \in DOMAIN done THEN done[k] ELSE 0
Untried(k) == k \notin DOMAIN plans \/ plans[k] = "proposed"

LetterTypes ==
    /\ callers = [c \in Commands |-> callers[c]]
    /\ \A c \in Commands : callers[c] = Letters!Nobody \/ IsJob(callers[c])
    /\ folder = [s \in MailIds |-> folder[s]]
    /\ plans = [k \in DOMAIN plans |-> plans[k]]
    /\ \A k \in DOMAIN done : done[k] \in Nat

\* Where a process may be that works on a plan nobody else worked on meanwhile.
InOrder(j) ==
    /\ j.at \in {"reread", "approve"} => j.key \in DOMAIN plans /\ plans[j.key] = "proposed"
    /\ j.at = "go" => Attempts(j.key) = 0 /\ ~Untried(j.key)

On(c, k) == callers[c].at # "idle" /\ callers[c].key = k

AtMostOnce(k) ==
    /\ \A c, d \in Commands : On(c, k) /\ On(d, k) => c = d
    /\ Attempts(k) =< 1 /\ (Untried(k) => Attempts(k) = 0)
    /\ \A c \in Commands : On(c, k) => InOrder(callers[c])

Once == \A k : k.kind \in Letters!OneShot /\ k \notin met => AtMostOnce(k)

\* What a process is about: the mail that was meant.
Means(j, f) ==
    /\ j.at = "plan" => j.key.kind \in {"move", "correct", "quarantine"}
    /\ j.at = "reread" => j.key.kind = "forward"
    /\ j.at = "verify" => j.key.kind = "quarantine"
    /\ j.at \in {"approve", "go"} /\ j.key.kind = "forward" => j.mail = j.key.of
    /\ j.at # "idle" /\ j.key.kind = "quarantine" => j.key.id \in MailIds
    /\ j.at = "go" /\ j.key.kind = "quarantine" /\ ~j.shifted => f[j.key.id] \in {0, j.key.of}

LettersInv == /\ LetterTypes /\ Once
              /\ \A c \in Commands : Means(callers[c], folder)
              /\ Letters!MeantIsTaken

LEMMA JobFields ==
    ASSUME NEW o, IsJob(o), NEW place, NEW x, NEW j, j = [o EXCEPT !.at = place, !.mail = x]
    PROVE  j = [at |-> place, key |-> o.key, mail |-> x, ended |-> o.ended, shifted |-> o.shifted]
  BY DEF IsJob

LEMMA NobodyIsIdle == Letters!Nobody.at = "idle" /\ ~IsJob(Letters!Nobody)
  BY DEF Letters!Nobody, IsJob, Stations

LEMMA LettersStart == Letters!Init => LettersInv
  <1> SUFFICES ASSUME Letters!Init PROVE LettersInv
      OBVIOUS
  <1>1. /\ folder = [s \in MailIds |-> IF s \in Shown THEN s ELSE 0] /\ plans = [k \in {} |-> "none"]
        /\ callers = [c \in Commands |-> Letters!Nobody] /\ done = [k \in {} |-> 0] /\ taken = {}
        BY DEF Letters!Init
  <1>2. LetterTypes
        BY <1>1 DEF LetterTypes
  <1>3. \A c \in Commands : callers[c].at = "idle"
        BY <1>1, NobodyIsIdle
  <1>4. \A k : Attempts(k) = 0
        BY <1>1 DEF Attempts
  <1>5. Once
        BY <1>3, <1>4 DEF Once, AtMostOnce, On
  <1>6. \A c \in Commands : Means(callers[c], folder)
        BY <1>3 DEF Means
  <1> QED BY <1>1, <1>2, <1>5, <1>6 DEF LettersInv, Letters!MeantIsTaken

LEMMA LettersInvIsEnough == LettersInv => Letters!TriedOnce /\ Letters!MeantIsTaken
  <1> SUFFICES ASSUME LettersInv, NEW k \in DOMAIN done, k.kind \in Letters!OneShot, done[k] > 1, k \notin met
               PROVE  FALSE
      BY DEF LettersInv, Letters!TriedOnce
  <1>1. Attempts(k) =< 1 /\ Attempts(k) = done[k] /\ done[k] \in Nat
        BY DEF LettersInv, Once, AtMostOnce, Attempts, LetterTypes
  <1> QED BY <1>1

\* A mailbox in which mails only vanish keeps what a process means.
LEMMA MeaningStays ==
    ASSUME NEW j, NEW f, NEW g, \A s \in MailIds : g[s] \in {f[s], 0}, Means(j, f) PROVE Means(j, g)
  BY DEF Means

SameRow(k) ==
    /\ k \in DOMAIN plans' <=> k \in DOMAIN plans
    /\ k \in DOMAIN plans => plans'[k] = plans[k]

\* One process takes a step with its plan, and others see it only in the mailbox.
LEMMA ProcessKeeps ==
    ASSUME LettersInv, NEW c \in Commands, Letters!Busy(c), NEW q, q = callers[c].key, NEW j,
           callers' = [callers EXCEPT ![c] = j],
           j = Letters!Nobody \/ (IsJob(j) /\ j.key = q), met' = met,
           plans' = [k \in DOMAIN plans' |-> plans'[k]], \A k \in DOMAIN done' : done'[k] \in Nat,
           \A k : k # q =>
               SameRow(k) /\ Attempts(k)' = Attempts(k),
           q.kind \in Letters!OneShot /\ q \notin met =>
               /\ Attempts(q)' =< 1 /\ (Untried(q)' => Attempts(q)' = 0)
               /\ j # Letters!Nobody => InOrder(j)',
           folder' = [s \in MailIds |-> folder'[s]], \A s \in MailIds : folder'[s] \in {folder[s], 0},
           Means(j, folder'), Letters!MeantIsTaken'
    PROVE  LettersInv'
  <1>0. LetterTypes /\ Once /\ \A d \in Commands : Means(callers[d], folder)
        BY DEF LettersInv
  <1>1. callers' = [d \in Commands |-> IF d = c THEN j ELSE callers[d]]
        BY <1>0 DEF LetterTypes
  <1>2. callers'[c] = j /\ \A d \in Commands \ {c} : callers'[d] = callers[d]
        BY <1>1
  <1>3. callers' = [d \in Commands |-> callers'[d]]
        BY <1>1, <1>2
  <1>4. LetterTypes'
        BY <1>0, <1>2, <1>3 DEF LetterTypes
  <1>5. ASSUME NEW d \in Commands PROVE Means(callers'[d], folder')
        BY <1>0, <1>2, MeaningStays
  <1>6. ASSUME NEW k, k.kind \in Letters!OneShot, k \notin met PROVE AtMostOnce(k)'
    <2>1. AtMostOnce(k)
          BY <1>0, <1>6 DEF Once
    <2>2. \A d \in Commands : On(d, k)' => On(d, k)
          BY <1>2, NobodyIsIdle DEF On, Letters!Busy
    <2>3. \A d, e \in Commands : On(d, k)' /\ On(e, k)' => d = e
          BY <2>1, <2>2 DEF AtMostOnce
    <2>4. CASE k = q
      <3>1. ASSUME NEW d \in Commands, On(d, k)' PROVE InOrder(callers[d])'
        <4>1. d = c
          <5>1. On(d, k) /\ On(c, k)
                BY <2>2, <2>4, <3>1 DEF On, Letters!Busy
          <5> QED BY <2>1, <5>1 DEF AtMostOnce
        <4>2. j # Letters!Nobody
              BY <1>2, <3>1, <4>1, NobodyIsIdle DEF On
        <4> QED BY <1>2, <1>6, <2>4, <4>1, <4>2
      <3>2. Attempts(k)' =< 1 /\ (Untried(k)' => Attempts(k)' = 0)
            BY <1>6, <2>4
      <3> QED BY <2>3, <3>1, <3>2 DEF AtMostOnce
    <2>5. CASE k # q
      <3>1. SameRow(k) /\ Attempts(k)' = Attempts(k)
            BY <2>5
      <3>2. ASSUME NEW d \in Commands, On(d, k)' PROVE InOrder(callers[d])'
        <4>1. On(d, k)
              BY <2>2, <3>2
        <4>2. callers'[d] = callers[d] /\ callers[d].key = k
              BY <1>2, <2>5, <4>1 DEF On
        <4>3. InOrder(callers[d])
              BY <2>1, <4>1 DEF AtMostOnce
        <4> QED BY <3>1, <4>2, <4>3 DEF InOrder, Untried, SameRow
      <3>3. Attempts(k)' =< 1 /\ (Untried(k)' => Attempts(k)' = 0)
            BY <2>1, <3>1 DEF AtMostOnce, Untried, SameRow
      <3> QED BY <2>3, <3>2, <3>3 DEF AtMostOnce
    <2> QED BY <2>4, <2>5
  <1>7. Once'
        BY <1>6 DEF Once
  <1> QED BY <1>4, <1>5, <1>7 DEF LettersInv

\* ... and it leaves the mailbox and the server alone.
LEMMA QuietKeeps ==
    ASSUME LettersInv, NEW c \in Commands, Letters!Busy(c), NEW q, q = callers[c].key, NEW j,
           callers' = [callers EXCEPT ![c] = j],
           j = Letters!Nobody \/ (IsJob(j) /\ j.key = q), UNCHANGED <<folder, done, met, taken>>,
           plans' = [k \in DOMAIN plans' |-> plans'[k]],
           \A k : k # q => SameRow(k),
           q.kind \in Letters!OneShot /\ q \notin met =>
               /\ Untried(q)' => Untried(q)
               /\ j # Letters!Nobody => InOrder(j)',
           Means(j, folder)
    PROVE  LettersInv'
  <1>1. LetterTypes /\ Once /\ Letters!MeantIsTaken
        BY DEF LettersInv
  <1>2. \A k : Attempts(k)' = Attempts(k)
        BY DEF Attempts
  <1>3. folder' = [s \in MailIds |-> folder'[s]] /\ \A s \in MailIds : folder'[s] \in {folder[s], 0}
        BY <1>1 DEF LetterTypes
  <1>4. \A k \in DOMAIN done' : done'[k] \in Nat
        BY <1>1 DEF LetterTypes
  <1>5. Letters!MeantIsTaken'
        BY <1>1 DEF Letters!MeantIsTaken
  <1>6. q.kind \in Letters!OneShot /\ q \notin met => Attempts(q)' =< 1 /\ (Untried(q)' => Attempts(q)' = 0)
        BY <1>1, <1>2 DEF Once, AtMostOnce
  <1>7. \A k : k # q =>
            SameRow(k) /\ Attempts(k)' = Attempts(k)
        BY <1>2
  <1>8. Means(j, folder')
        OBVIOUS
  <1> QED BY <1>3, <1>4, <1>5, <1>6, <1>7, <1>8, ProcessKeeps

LEMMA SettledIs ==
    ASSUME LettersInv, NEW q, NEW s, plans' = [plans EXCEPT ![q] = s]
    PROVE  /\ plans' = [k \in DOMAIN plans' |-> plans'[k]] /\ DOMAIN plans' = DOMAIN plans
           /\ \A k : k # q => SameRow(k)
           /\ s # "proposed" => (Untried(q)' => q \notin DOMAIN plans)
  <1>1. plans = [k \in DOMAIN plans |-> plans[k]]
        BY DEF LettersInv, LetterTypes
  <1>2. plans' = [k \in DOMAIN plans |-> IF k = q THEN s ELSE plans[k]]
        BY <1>1
  <1>3. DOMAIN plans' = DOMAIN plans /\ plans' = [k \in DOMAIN plans' |-> plans'[k]]
        BY <1>2
  <1>4. q \in DOMAIN plans => plans'[q] = s
        BY <1>2
  <1>5. ASSUME NEW k, k # q PROVE SameRow(k)
        BY <1>2, <1>3, <1>5 DEF SameRow
  <1> QED BY <1>3, <1>4, <1>5 DEF Untried

LEMMA BusyHasJob ==
    ASSUME LettersInv, NEW c \in Commands, Letters!Busy(c)
    PROVE  IsJob(callers[c]) /\ Means(callers[c], folder)
  BY DEF LettersInv, LetterTypes, Letters!Busy, Letters!Nobody

LEMMA OneShotInOrder ==
    ASSUME LettersInv, NEW c \in Commands, Letters!Busy(c), NEW q, q = callers[c].key,
           q.kind \in Letters!OneShot, q \notin met
    PROVE  AtMostOnce(q) /\ InOrder(callers[c])
  BY DEF LettersInv, Once, AtMostOnce, On, Letters!Busy

\* The job of a process after a step, in which it keeps its plan.
LEMMA GoesIs ==
    ASSUME LettersInv, NEW c \in Commands, Letters!Busy(c), NEW place \in Stations, Letters!Goes(c, place)
    PROVE  \E j : /\ callers' = [callers EXCEPT ![c] = j] /\ IsJob(j) /\ j.at = place
                  /\ j.key = callers[c].key /\ j.mail = callers[c].mail /\ j.shifted = callers[c].shifted
  <1>1. callers = [d \in Commands |-> callers[d]] /\ IsJob(callers[c])
        BY BusyHasJob DEF LettersInv, LetterTypes
  <1>2. PICK j : j = [at |-> place, key |-> callers[c].key, mail |-> callers[c].mail, ended |-> callers[c].ended,
                      shifted |-> callers[c].shifted]
        OBVIOUS
  <1>3. j = [callers[c] EXCEPT !.at = place]
        BY <1>1, <1>2 DEF IsJob
  <1>4. callers' = [callers EXCEPT ![c] = j]
        BY <1>1, <1>3 DEF Letters!Goes
  <1>5. /\ IsJob(j) /\ j.at = place /\ j.key = callers[c].key /\ j.mail = callers[c].mail
        /\ j.shifted = callers[c].shifted
        BY <1>1, <1>2 DEF IsJob
  <1> QED BY <1>4, <1>5

LEMMA LeavesKeeps ==
    ASSUME LettersInv, NEW c \in Commands, Letters!Busy(c), Letters!Leaves(c), UNCHANGED <<folder, done, met, taken>>,
           plans' = plans \/ \E s : s # "proposed" /\ Letters!Settles(c, s)
    PROVE  LettersInv'
  <1>1. callers' = [callers EXCEPT ![c] = Letters!Nobody]
        BY DEF Letters!Leaves
  <1>2. Means(Letters!Nobody, folder)
        BY NobodyIsIdle DEF Means
  <1>3. PICK q : q = callers[c].key
        OBVIOUS
  <1>4. /\ plans' = [k \in DOMAIN plans' |-> plans'[k]] /\ \A k : k # q => SameRow(k)
        /\ Untried(q)' => Untried(q)
    <2>1. CASE plans' = plans
          BY <2>1 DEF LettersInv, LetterTypes, SameRow, Untried
    <2>2. ASSUME NEW s, s # "proposed", Letters!Settles(c, s)
          PROVE  <1>4
      <3>1. plans' = [plans EXCEPT ![q] = s]
            BY <1>3, <2>2 DEF Letters!Settles
      <3> QED BY <2>2, <3>1, SettledIs DEF Untried
    <2> QED BY <2>1, <2>2
  <1> QED BY <1>1, <1>2, <1>3, <1>4, QuietKeeps

LEMMA LettersEnd ==
    ASSUME LettersInv, NEW c \in Commands, Letters!StopDry(c) \/ Letters!Record(c) \/ Letters!Killed(c)
    PROVE  LettersInv'
  <1>1. /\ Letters!Busy(c) /\ Letters!Leaves(c) /\ UNCHANGED <<folder, done, met, taken>>
        /\ plans' = plans \/ Letters!Settles(c, callers[c].ended)
        BY DEF Letters!StopDry, Letters!Record, Letters!Killed, Letters!At
  <1>2. callers[c].ended # "proposed"
        BY <1>1, BusyHasJob DEF IsJob
  <1> QED BY <1>1, <1>2, LeavesKeeps

LEMMA RereadKeeps == ASSUME LettersInv, NEW c \in Commands, Letters!Reread(c) PROVE LettersInv'
  <1>1. Letters!Busy(c) /\ callers[c].at = "reread" /\ UNCHANGED <<folder, done, met, taken>>
        BY DEF Letters!Reread, Letters!At
  <1>2. PICK q : q = callers[c].key
        OBVIOUS
  <1>3. CASE Letters!Settles(c, "failed") /\ Letters!Leaves(c)
        BY <1>1, <1>3, LeavesKeeps
  <1>4. ASSUME Letters!StillTheSame(q, folder[q.id]), plans' = plans,
               callers' = [callers EXCEPT ![c].at = "approve", ![c].mail = folder[q.id]]
        PROVE  LettersInv'
    <2>1. callers = [d \in Commands |-> callers[d]] /\ plans = [k \in DOMAIN plans |-> plans[k]]
          BY DEF LettersInv, LetterTypes
    <2>2. IsJob(callers[c]) /\ Means(callers[c], folder)
          BY <1>1, BusyHasJob
    <2>3. PICK x : x = folder[q.id]
          OBVIOUS
    <2>4. PICK j : j = [callers[c] EXCEPT !.at = "approve", !.mail = x]
          OBVIOUS
    <2>5. j = [at |-> "approve", key |-> q, mail |-> x, ended |-> callers[c].ended,
               shifted |-> callers[c].shifted]
          BY <1>2, <2>2, <2>4, JobFields
    <2>6. IsJob(j) /\ j.at = "approve" /\ j.key = q /\ j.mail = x
          BY <2>2, <2>5 DEF IsJob, Stations
    <2>7. callers' = [callers EXCEPT ![c] = j]
          BY <1>4, <2>1, <2>3, <2>4
    <2>8. Means(j, folder)
          BY <1>1, <1>2, <1>4, <2>2, <2>3, <2>6 DEF Means, Letters!StillTheSame
    <2>9. q.kind \in Letters!OneShot /\ q \notin met => InOrder(j)'
          BY <1>1, <1>2, <1>4, <2>6, OneShotInOrder DEF InOrder
    <2>10. /\ plans' = [k \in DOMAIN plans' |-> plans'[k]] /\ (Untried(q)' => Untried(q))
           /\ \A k : k # q => SameRow(k)
          BY <1>4, <2>1 DEF SameRow, Untried
    <2> QED BY <1>1, <1>2, <2>6, <2>7, <2>8, <2>9, <2>10, QuietKeeps
  <1> QED BY <1>2, <1>3, <1>4 DEF Letters!Reread

LEMMA ApproveKeeps == ASSUME LettersInv, NEW c \in Commands, Letters!Approve(c) PROVE LettersInv'
  <1>1. Letters!Busy(c) /\ callers[c].at = "approve" /\ UNCHANGED <<folder, done, met, taken>>
        BY DEF Letters!Approve, Letters!At
  <1>2. PICK q : q = callers[c].key
        OBVIOUS
  <1>3. PICK place \in {"verify", "go"} : place = IF q.kind = "quarantine" THEN "verify" ELSE "go"
        OBVIOUS
  <1>4. Letters!Goes(c, place)
        BY <1>2, <1>3 DEF Letters!Approve
  <1>5. PICK j : /\ callers' = [callers EXCEPT ![c] = j] /\ IsJob(j) /\ j.at = place /\ j.key = q
                 /\ j.mail = callers[c].mail /\ j.shifted = callers[c].shifted
    <2>1. place \in Stations
          BY DEF Stations
    <2> QED BY <1>1, <1>2, <1>4, <2>1, GoesIs
  <1>6. plans' = [plans EXCEPT ![q] = "approved"]
        BY <1>2 DEF Letters!Approve, Letters!Settles
  <1>7. /\ plans' = [k \in DOMAIN plans' |-> plans'[k]] /\ \A k : k # q => SameRow(k)
        /\ Untried(q)' => q \notin DOMAIN plans
        BY <1>6, SettledIs
  <1>8. Means(j, folder)
    <2>1. Means(callers[c], folder)
          BY <1>1, BusyHasJob
    <2> QED BY <1>1, <1>2, <1>3, <1>5, <2>1 DEF Means
  <1>9. ASSUME q.kind \in Letters!OneShot, q \notin met PROVE InOrder(j)' /\ (Untried(q)' => Untried(q))
    <2>1. AtMostOnce(q) /\ InOrder(callers[c])
          BY <1>1, <1>2, <1>9, OneShotInOrder
    <2>2. Attempts(q) = 0 /\ q \in DOMAIN plans
          BY <1>1, <1>2, <2>1 DEF AtMostOnce, InOrder, Untried
    <2>3. Attempts(q)' = 0
          BY <1>1, <2>2 DEF Attempts
    <2> QED BY <1>3, <1>5, <1>7, <2>2, <2>3 DEF InOrder
  <1> QED BY <1>1, <1>2, <1>5, <1>7, <1>8, <1>9, QuietKeeps

LEMMA CreatedIs ==
    ASSUME LettersInv, NEW q, plans' = Letters!Created(q)
    PROVE  /\ plans' = [k \in DOMAIN plans' |-> plans'[k]] /\ \A k : k # q => SameRow(k)
           /\ Untried(q)' => Untried(q)
           /\ q \in DOMAIN plans' /\ plans'[q] = Letters!Created(q)[q]
  <1>1. plans' = [k \in DOMAIN plans \cup {q} |-> IF k \in DOMAIN plans THEN plans[k] ELSE "proposed"]
        BY DEF Letters!Created
  <1>2. DOMAIN plans' = DOMAIN plans \cup {q}
        BY <1>1
  <1>3. \A k \in DOMAIN plans' : plans'[k] = IF k \in DOMAIN plans THEN plans[k] ELSE "proposed"
        BY <1>1, <1>2
  <1>4. \A k : k # q => SameRow(k)
        BY <1>2, <1>3 DEF SameRow
  <1> QED BY <1>1, <1>2, <1>3, <1>4 DEF Untried

LEMMA TakePlanKeeps == ASSUME LettersInv, NEW c \in Commands, Letters!TakePlan(c) PROVE LettersInv'
  <1>1. Letters!Busy(c) /\ callers[c].at = "plan" /\ UNCHANGED <<folder, done, met, taken>>
        BY DEF Letters!TakePlan, Letters!At
  <1>2. PICK q : q = callers[c].key
        OBVIOUS
  <1>3. PICK s : s = Letters!Created(q)[q]
        OBVIOUS
  <1>4. plans' = Letters!Created(q)
        BY <1>2 DEF Letters!TakePlan
  <1>5. /\ plans' = [k \in DOMAIN plans' |-> plans'[k]] /\ \A k : k # q => SameRow(k)
        /\ Untried(q)' => Untried(q)
        /\ q \in DOMAIN plans' /\ plans'[q] = s
        BY <1>3, <1>4, CreatedIs
  <1>6. \/ Letters!Leaves(c)
        \/ /\ Letters!Runs(q, s)
           /\ \/ Letters!Goes(c, "approve") /\ (s = "proposed" \/ q.kind = "quarantine")
              \/ Letters!Goes(c, "verify") /\ q.kind = "quarantine"
              \/ Letters!Goes(c, "go") /\ s # "proposed" /\ q.kind # "quarantine"
        BY <1>2, <1>3 DEF Letters!TakePlan
  <1>7. q.kind \in {"move", "correct", "quarantine"} /\ Means(callers[c], folder)
        BY <1>1, <1>2, BusyHasJob DEF Means
  <1>8. CASE Letters!Leaves(c)
    <2>1. callers' = [callers EXCEPT ![c] = Letters!Nobody] /\ Means(Letters!Nobody, folder)
          BY <1>8, NobodyIsIdle DEF Letters!Leaves, Means
    <2> QED BY <1>1, <1>2, <1>5, <2>1, QuietKeeps
  <1>9. ASSUME NEW place \in {"approve", "verify", "go"}, Letters!Goes(c, place), Letters!Runs(q, s),
               place = "approve" => s = "proposed" \/ q.kind = "quarantine",
               place = "verify" => q.kind = "quarantine",
               place = "go" => s # "proposed" /\ q.kind # "quarantine"
        PROVE  LettersInv'
    <2>1. PICK j : /\ callers' = [callers EXCEPT ![c] = j] /\ IsJob(j) /\ j.at = place /\ j.key = q
                   /\ j.mail = callers[c].mail /\ j.shifted = callers[c].shifted
      <3>1. place \in Stations
            BY DEF Stations
      <3> QED BY <1>1, <1>2, <1>9, <3>1, GoesIs
    <2>2. Means(j, folder)
          BY <1>1, <1>2, <1>7, <1>9, <2>1 DEF Means
    <2>3. ASSUME q.kind \in Letters!OneShot PROVE place = "approve" /\ s = "proposed"
          BY <1>7, <1>9, <2>3 DEF Letters!Runs, Letters!OneShot, Letters!Sends
    <2>4. q.kind \in Letters!OneShot => InOrder(j)'
          BY <1>5, <2>1, <2>3 DEF InOrder
    <2> QED BY <1>1, <1>2, <1>5, <2>1, <2>2, <2>4, QuietKeeps
  <1>10. CASE ~Letters!Leaves(c)
         BY <1>6, <1>9, <1>10
  <1> QED BY <1>8, <1>10

LEMMA VerifyKeeps == ASSUME LettersInv, NEW c \in Commands, Letters!Verify(c) PROVE LettersInv'
  <1>1. Letters!Busy(c) /\ callers[c].at = "verify" /\ UNCHANGED <<folder, done, met, taken>>
        BY DEF Letters!Verify, Letters!At
  <1>2. PICK q : q = callers[c].key
        OBVIOUS
  <1>3. CASE Letters!Settles(c, "failed") /\ Letters!Leaves(c)
        BY <1>1, <1>3, LeavesKeeps
  <1>4. ASSUME Letters!StillTheSame(q, folder[q.id]), plans' = plans,
               callers' = [callers EXCEPT ![c].at = "go", ![c].mail = folder[q.id], ![c].shifted = FALSE]
        PROVE  LettersInv'
    <2>1. callers = [d \in Commands |-> callers[d]] /\ plans = [k \in DOMAIN plans |-> plans[k]]
          BY DEF LettersInv, LetterTypes
    <2>2. IsJob(callers[c]) /\ Means(callers[c], folder)
          BY <1>1, BusyHasJob
    <2>3. PICK x : x = folder[q.id]
          OBVIOUS
    <2>4. PICK j : j = [callers[c] EXCEPT !.at = "go", !.mail = x, !.shifted = FALSE]
          OBVIOUS
    <2>5. j = [at |-> "go", key |-> q, mail |-> x, ended |-> callers[c].ended, shifted |-> FALSE]
          BY <1>2, <2>2, <2>4 DEF IsJob
    <2>6. IsJob(j) /\ j.at = "go" /\ j.key = q /\ j.mail = x /\ ~j.shifted
          BY <2>2, <2>5 DEF IsJob, Stations
    <2>7. callers' = [callers EXCEPT ![c] = j]
          BY <1>4, <2>1, <2>3, <2>4
    <2>8. q.kind = "quarantine"
          BY <1>1, <1>2, <2>2 DEF Means
    <2>9. Means(j, folder)
          BY <1>1, <1>2, <1>4, <2>2, <2>6, <2>8 DEF Means, Letters!StillTheSame
    <2>10. q.kind \notin Letters!OneShot
          BY <2>8 DEF Letters!OneShot, Letters!Sends
    <2>11. plans' = [k \in DOMAIN plans' |-> plans'[k]] /\ \A k : k # q => SameRow(k)
          BY <1>4, <2>1 DEF SameRow
    <2> QED BY <1>1, <1>2, <2>6, <2>7, <2>9, <2>10, <2>11, QuietKeeps
  <1> QED BY <1>2, <1>3, <1>4 DEF Letters!Verify

LEMMA ExecuteKeeps == ASSUME LettersInv, NEW c \in Commands, Letters!Execute(c) PROVE LettersInv'
  <1>1. Letters!Busy(c) /\ callers[c].at = "go" /\ plans' = plans /\ met' = met
        BY DEF Letters!Execute, Letters!At
  <1>2. PICK q : q = callers[c].key
        OBVIOUS
  <1>3. PICK x : x = IF q.kind \in Letters!Sends THEN callers[c].mail ELSE folder[q.id]
        OBVIOUS
  <1>4. PICK worked \in BOOLEAN, said \in BOOLEAN :
          /\ done' = Letters!Count(q)
          /\ folder' = IF worked /\ q.kind \notin Letters!Sends THEN [folder EXCEPT ![q.id] = 0] ELSE folder
          /\ taken' = IF worked /\ ~(q.kind \notin Letters!Sends /\ x = 0)
                      THEN taken \cup {[key |-> q, mail |-> x, shifted |-> callers[c].shifted]} ELSE taken
          /\ callers' = [callers EXCEPT ![c].at = "record", ![c].ended = IF said THEN "completed" ELSE "failed"]
        BY <1>2, <1>3 DEF Letters!Execute
  <1>5. PICK ended \in {"completed", "failed"} : ended = IF said THEN "completed" ELSE "failed"
        OBVIOUS
  <1>6. /\ callers = [d \in Commands |-> callers[d]] /\ plans = [k \in DOMAIN plans |-> plans[k]]
        /\ folder = [s \in MailIds |-> folder[s]] /\ \A k \in DOMAIN done : done[k] \in Nat
        BY DEF LettersInv, LetterTypes
  <1>7. IsJob(callers[c]) /\ Means(callers[c], folder)
        BY <1>1, BusyHasJob
  <1>8. PICK j : /\ callers' = [callers EXCEPT ![c] = j] /\ IsJob(j) /\ j.at = "record" /\ j.key = q
    <2>1. PICK j : j = [callers[c] EXCEPT !.at = "record", !.ended = ended]
          OBVIOUS
    <2>2. j = [at |-> "record", key |-> q, mail |-> callers[c].mail, ended |-> ended, shifted |-> callers[c].shifted]
          BY <1>2, <1>7, <2>1 DEF IsJob
    <2>3. IsJob(j) /\ j.at = "record" /\ j.key = q
          BY <2>2 DEF IsJob, Stations
    <2>4. callers' = [callers EXCEPT ![c] = j]
          BY <1>4, <1>5, <1>6, <2>1
    <2> QED BY <2>3, <2>4
  <1>9. /\ \A k \in DOMAIN done' : done'[k] \in Nat
        /\ Attempts(q)' = Attempts(q) + 1 /\ \A k : k # q => Attempts(k)' = Attempts(k)
    <2>1. done' = [k \in DOMAIN done \cup {q} |-> (IF k \in DOMAIN done THEN done[k] ELSE 0) + IF k = q THEN 1 ELSE 0]
          BY <1>4 DEF Letters!Count
    <2>2. DOMAIN done' = DOMAIN done \cup {q}
          BY <2>1
    <2>3. \A k \in DOMAIN done' : done'[k] = Attempts(k) + IF k = q THEN 1 ELSE 0
          BY <2>1, <2>2 DEF Attempts
    <2>4. \A k : Attempts(k) \in Nat
          BY <1>6 DEF Attempts
    <2>5. Attempts(q)' = Attempts(q) + 1
          BY <2>2, <2>3 DEF Attempts
    <2>6. ASSUME NEW k, k # q PROVE Attempts(k)' = Attempts(k)
      <3>1. CASE k \in DOMAIN done'
            BY <2>3, <2>4, <2>6, <3>1 DEF Attempts
      <3>2. CASE k \notin DOMAIN done'
            BY <2>2, <3>2 DEF Attempts
      <3> QED BY <3>1, <3>2
    <2>7. ASSUME NEW k \in DOMAIN done' PROVE done'[k] \in Nat
          BY <2>3, <2>4
    <2> QED BY <2>5, <2>6, <2>7
  <1>10. folder' = [s \in MailIds |-> folder'[s]] /\ \A s \in MailIds : folder'[s] \in {folder[s], 0}
         BY <1>4, <1>6
  <1>11. ASSUME q.kind \in Letters!OneShot, q \notin met
         PROVE  /\ Attempts(q)' =< 1 /\ (Untried(q)' => Attempts(q)' = 0)
                /\ InOrder(j)'
    <2>1. Attempts(q) = 0 /\ ~Untried(q)
          BY <1>1, <1>2, <1>11, OneShotInOrder DEF InOrder
    <2> QED BY <1>1, <1>8, <1>9, <2>1 DEF InOrder, Untried
  <1>12. Means(j, folder')
         BY <1>1, <1>2, <1>7, <1>8 DEF Means
  <1>13. Letters!MeantIsTaken'
    <2>1. ASSUME q.kind \in {"forward", "quarantine"}, ~(q.kind \notin Letters!Sends /\ x = 0)
          PROVE  x = q.of \/ (q.kind = "quarantine" /\ callers[c].shifted)
      <3>1. CASE q.kind = "forward"
            BY <1>1, <1>2, <1>3, <1>7, <3>1 DEF Means, Letters!Sends
      <3>2. CASE q.kind = "quarantine"
            BY <1>1, <1>2, <1>3, <1>7, <2>1, <3>2 DEF Means, Letters!Sends
      <3> QED BY <2>1, <3>1, <3>2
    <2>2. \A t \in taken : t.key.kind \in {"forward", "quarantine"}
                             => t.mail = t.key.of \/ (t.key.kind = "quarantine" /\ t.shifted)
          BY DEF LettersInv, Letters!MeantIsTaken
    <2> QED BY <1>4, <2>1, <2>2 DEF Letters!MeantIsTaken
  <1>14. plans' = [k \in DOMAIN plans' |-> plans'[k]] /\ \A k : k # q => SameRow(k) /\ Attempts(k)' = Attempts(k)
         BY <1>1, <1>6, <1>9 DEF SameRow
  <1> QED BY <1>1, <1>2, <1>8, <1>9, <1>10, <1>11, <1>12, <1>13, <1>14, ProcessKeeps

\* A process begins with a plan; who meets another one on it is noted.
LEMMA StartKeeps ==
    ASSUME LettersInv, NEW c \in Commands, ~Letters!Busy(c), NEW q, NEW place \in Stations, NEW x,
           Letters!Starts(c, q, place, x), UNCHANGED <<folder, plans, done, taken>>,
           place = "plan" => q.kind \in {"move", "correct", "quarantine"},
           place # "plan" => q \in DOMAIN plans /\ plans[q] = "proposed" /\ q.kind # "quarantine",
           place = "reread" => q.kind = "forward", place = "approve" => q.kind # "forward",
           place \notin {"verify", "go"}, q.kind = "quarantine" => q.id \in MailIds
    PROVE  LettersInv'
  <1>0. LetterTypes /\ Once /\ \A d \in Commands : Means(callers[d], folder)
        BY DEF LettersInv
  <1>1. PICK j : j = [at |-> place, key |-> q, mail |-> x, ended |-> "none", shifted |-> FALSE]
        OBVIOUS
  <1>2. /\ callers' = [callers EXCEPT ![c] = j]
        /\ met' = IF \E d \in Commands \ {c} : Letters!Busy(d) /\ callers[d].key = q THEN met \cup {q} ELSE met
        BY <1>1 DEF Letters!Starts
  <1>3. callers' = [d \in Commands |-> IF d = c THEN j ELSE callers[d]]
        BY <1>0, <1>2 DEF LetterTypes
  <1>4. callers'[c] = j /\ \A d \in Commands \ {c} : callers'[d] = callers[d]
        BY <1>3
  <1>5. IsJob(j) /\ j.at = place /\ j.key = q
        BY <1>1 DEF IsJob, Stations
  <1>6. callers' = [d \in Commands |-> callers'[d]]
        BY <1>3, <1>4
  <1>7. LetterTypes'
        BY <1>0, <1>4, <1>5, <1>6 DEF LetterTypes
  <1>8. Means(j, folder)
        BY <1>5 DEF Means
  <1>9. \A d \in Commands : Means(callers[d], folder)'
        BY <1>0, <1>4, <1>8
  <1>10. Letters!MeantIsTaken'
         BY DEF LettersInv, Letters!MeantIsTaken
  <1>11. ASSUME NEW k, k.kind \in Letters!OneShot, k \notin met' PROVE AtMostOnce(k)'
    <2>1. k \notin met /\ (k = q => \A d \in Commands \ {c} : ~On(d, q))
          BY <1>2, <1>11 DEF On, Letters!Busy
    <2>2. AtMostOnce(k)
          BY <1>0, <1>11, <2>1 DEF Once
    <2>3. ASSUME NEW d \in Commands, On(d, k)' PROVE d = c \/ On(d, k)
          BY <1>4, <2>3 DEF On
    <2>4. On(c, k)' => k = q
          BY <1>4, <1>5 DEF On
    <2>5. \A d, e \in Commands : On(d, k)' /\ On(e, k)' => d = e
          BY <2>1, <2>2, <2>3, <2>4 DEF AtMostOnce
    <2>6. ASSUME NEW d \in Commands, On(d, k)' PROVE InOrder(callers[d])'
      <3>1. CASE d = c
            BY <1>4, <1>5, <3>1 DEF InOrder, Stations
      <3>2. CASE d # c
        <4>1. InOrder(callers[d]) /\ callers'[d] = callers[d]
              BY <1>4, <2>2, <2>3, <2>6, <3>2 DEF AtMostOnce
        <4> QED BY <4>1 DEF InOrder, Untried, Attempts
      <3> QED BY <3>1, <3>2
    <2>7. Attempts(k)' =< 1 /\ (Untried(k)' => Attempts(k)' = 0)
          BY <2>2 DEF AtMostOnce, Attempts, Untried
    <2> QED BY <2>5, <2>6, <2>7 DEF AtMostOnce
  <1>12. Once'
         BY <1>11 DEF Once
  <1> QED BY <1>7, <1>9, <1>10, <1>12 DEF LettersInv

LEMMA KeyIs == ASSUME NEW tool, NEW s, NEW x PROVE Letters!Key(tool, s, x).kind = tool /\ Letters!Key(tool, s, x).id = s
  <1>1. PICK of : of = IF tool \in {"forward", "quarantine"} THEN x ELSE Letters!Subject(x)
        OBVIOUS
  <1>2. Letters!Key(tool, s, x) = [kind |-> tool, id |-> s, of |-> of]
        BY <1>1 DEF Letters!Key
  <1> QED BY <1>2

LEMMA BeginKeeps ==
    ASSUME LettersInv, SearchAssumption, NEW c \in Commands,
           \/ \E k \in DOMAIN plans : Letters!SendDraft(c, k)
           \/ \E s \in MailIds : Letters!Move(c, s) \/ Letters!ReviewCorrect(c, s)
           \/ Letters!LookInfected(c)
    PROVE  LettersInv'
  <1>1. ASSUME NEW k \in DOMAIN plans, Letters!SendDraft(c, k) PROVE LettersInv'
    <2>1. PICK place \in {"reread", "approve"} : place = IF k.kind = "forward" THEN "reread" ELSE "approve"
          OBVIOUS
    <2>2. Letters!Starts(c, k, place, 0) /\ ~Letters!Busy(c) /\ UNCHANGED <<folder, plans, done, taken>>
          BY <1>1, <2>1 DEF Letters!SendDraft
    <2>3. k.kind # "quarantine" /\ plans[k] = "proposed"
          BY <1>1 DEF Letters!SendDraft, Letters!Sendable, Letters!Sends
    <2>4. place \in Stations
          BY DEF Stations
    <2> QED BY <2>1, <2>2, <2>3, <2>4, StartKeeps
  <1>2. ASSUME NEW s \in MailIds, NEW tool \in {"move", "correct"}, Letters!Look(c, tool, s) PROVE LettersInv'
    <2>1. PICK q : q = Letters!Key(tool, s, folder[s])
          OBVIOUS
    <2>2. Letters!Starts(c, q, "plan", folder[s]) /\ ~Letters!Busy(c) /\ UNCHANGED <<folder, plans, done, taken>>
          BY <1>2, <2>1 DEF Letters!Look
    <2>3. q.kind = tool /\ "plan" \in Stations
          BY <2>1, KeyIs DEF Stations
    <2> QED BY <2>2, <2>3, StartKeeps
  <1>3. CASE Letters!LookInfected(c)
    <2>1. PICK q : q = Letters!Key("quarantine", InfectedMail, InfectedMail)
          OBVIOUS
    <2>2. /\ Letters!Starts(c, q, "plan", InfectedMail) /\ ~Letters!Busy(c) /\ UNCHANGED <<folder, plans, done, taken>>
          /\ InfectedMail \in Shown
          BY <1>3, <2>1 DEF Letters!LookInfected
    <2>3. q.kind = "quarantine" /\ q.id \in MailIds /\ "plan" \in Stations
          BY <2>1, <2>2, KeyIs DEF Stations, SearchAssumption
    <2> QED BY <2>2, <2>3, StartKeeps
  <1> QED BY <1>1, <1>2, <1>3 DEF Letters!Move, Letters!ReviewCorrect

LEMMA DraftKeeps == ASSUME LettersInv, NEW q, Letters!Draft(q) PROVE LettersInv'
  <1>1. /\ q \notin DOMAIN plans /\ plans' = Letters!Created(q)
        /\ UNCHANGED <<folder, callers, done, met, taken>>
        BY DEF Letters!Draft
  <1>2. /\ plans' = [k \in DOMAIN plans' |-> plans'[k]] /\ \A k : k # q => SameRow(k)
        /\ Untried(q)' => Untried(q)
        BY <1>1, CreatedIs
  <1>3. ASSUME NEW k, k.kind \in Letters!OneShot, k \notin met PROVE AtMostOnce(k)'
    <2>1. AtMostOnce(k)
          BY <1>3 DEF LettersInv, Once
    <2>2. \A d : (On(d, k)' <=> On(d, k)) /\ Attempts(k)' = Attempts(k)
          BY <1>1 DEF On, Attempts
    <2>3. Untried(k)' => Untried(k)
          BY <1>2 DEF SameRow, Untried
    <2>4. ASSUME NEW d \in Commands, On(d, k) PROVE InOrder(callers[d])'
      <3>1. InOrder(callers[d]) /\ callers[d].key = k
            BY <2>1, <2>4 DEF AtMostOnce, On
      <3>2. CASE k = q
            BY <1>1, <3>1, <3>2 DEF InOrder, Untried
      <3>3. CASE k # q
            BY <1>1, <1>2, <2>2, <3>1, <3>3 DEF InOrder, Untried, SameRow
      <3> QED BY <3>2, <3>3
    <2> QED BY <2>1, <2>2, <2>3, <2>4 DEF AtMostOnce
  <1>4. LetterTypes' /\ Letters!MeantIsTaken' /\ \A c \in Commands : Means(callers[c], folder)'
        BY <1>1, <1>2 DEF LettersInv, LetterTypes, Letters!MeantIsTaken
  <1>5. Once'
        BY <1>1, <1>3 DEF Once
  <1> QED BY <1>4, <1>5 DEF LettersInv

LEMMA RenumberKeeps == ASSUME LettersInv, Letters!Renumber PROVE LettersInv'
  <1>1. UNCHANGED <<plans, done, met, taken>>
        BY DEF Letters!Renumber
  <1>2. callers' = [c \in Commands |-> IF Letters!Busy(c) THEN [callers[c] EXCEPT !.shifted = TRUE] ELSE Letters!Nobody]
        BY DEF Letters!Renumber
  <1>3. folder' = [s \in MailIds |-> folder'[s]]
        BY DEF Letters!Renumber, LettersInv, LetterTypes
  <1>4. ASSUME NEW c \in Commands
        PROVE  \/ callers'[c] = Letters!Nobody
               \/ /\ IsJob(callers'[c]) /\ callers'[c].at = callers[c].at /\ callers'[c].key = callers[c].key
                  /\ callers'[c].mail = callers[c].mail /\ callers'[c].shifted
                  /\ Letters!Busy(c) /\ Means(callers[c], folder)
    <2>1. CASE Letters!Busy(c)
      <3>1. IsJob(callers[c]) /\ Means(callers[c], folder)
            BY <2>1, BusyHasJob
      <3>2. callers'[c] = [callers[c] EXCEPT !.shifted = TRUE]
            BY <1>2, <2>1
      <3>3. callers'[c] = [at |-> callers[c].at, key |-> callers[c].key, mail |-> callers[c].mail,
                           ended |-> callers[c].ended, shifted |-> TRUE]
            BY <3>1, <3>2 DEF IsJob
      <3> QED BY <2>1, <3>1, <3>3 DEF IsJob
    <2> QED BY <1>2, <2>1
  <1>5. LetterTypes'
    <2>1. callers' = [c \in Commands |-> callers'[c]]
          BY <1>2
    <2> QED BY <1>1, <1>3, <1>4, <2>1 DEF LettersInv, LetterTypes
  <1>6. \A c \in Commands : Means(callers[c], folder)'
        BY <1>4, NobodyIsIdle DEF Means
  <1>7. ASSUME NEW k, k.kind \in Letters!OneShot, k \notin met PROVE AtMostOnce(k)'
    <2>1. AtMostOnce(k)
          BY <1>7 DEF LettersInv, Once
    <2>2. Attempts(k)' = Attempts(k) /\ (Untried(k)' <=> Untried(k))
          BY <1>1 DEF Attempts, Untried
    <2>3. \A d \in Commands : On(d, k)' =>
              On(d, k) /\ callers'[d].at = callers[d].at /\ callers'[d].key = callers[d].key
          BY <1>4, NobodyIsIdle DEF On
    <2>4. \A d \in Commands : On(d, k)' => InOrder(callers[d])'
          BY <1>1, <2>1, <2>2, <2>3 DEF AtMostOnce, InOrder, Attempts, Untried
    <2> QED BY <2>1, <2>2, <2>3, <2>4 DEF AtMostOnce
  <1>8. Once' /\ Letters!MeantIsTaken'
        BY <1>1, <1>7 DEF LettersInv, Once, Letters!MeantIsTaken
  <1> QED BY <1>5, <1>6, <1>8 DEF LettersInv

LEMMA LettersSteps == LettersInv /\ SearchAssumption /\ [Letters!Next]_lettersVars => LettersInv'
  <1> SUFFICES ASSUME LettersInv, SearchAssumption, [Letters!Next]_lettersVars PROVE LettersInv'
      OBVIOUS
  <1>1. CASE UNCHANGED lettersVars
        BY <1>1 DEF lettersVars, LettersInv, LetterTypes, Means, Once, AtMostOnce, On, InOrder, Untried, Attempts,
                    Letters!MeantIsTaken
  <1>2. ASSUME NEW c \in Commands, Letters!Call(c) PROVE LettersInv'
        BY <1>2, BeginKeeps, TakePlanKeeps, LettersEnd, RereadKeeps, ApproveKeeps, VerifyKeeps, ExecuteKeeps
           DEF Letters!Call
  <1>3. CASE \E q : Letters!Draft(q)
        BY <1>3, DraftKeeps
  <1>4. CASE Letters!Renumber
        BY <1>4, RenumberKeeps
  <1>5. \/ UNCHANGED lettersVars \/ Letters!Renumber \/ (\E q : Letters!Draft(q))
        \/ \E c \in Commands : Letters!Call(c)
    <2>1. Letters!DraftMessage => \E q : Letters!Draft(q)
          BY DEF Letters!DraftMessage
    <2>2. \A s : Letters!DraftReply(s) \/ Letters!DraftForward(s) => \E q : Letters!Draft(q)
          BY DEF Letters!DraftReply, Letters!DraftForward
    <2> QED BY <2>1, <2>2 DEF Letters!Next
  <1> QED BY <1>1, <1>2, <1>3, <1>4, <1>5

-----------------------------------------------------------------------------
(* DirectEdits: only what was asked, and no task in disorder *)

IsContact(x) == x = [name |-> x.name, addresses |-> x.addresses, note |-> x.note, rest |-> x.rest, etag |-> x.etag]
IsTask(t) == t = [start |-> t.start, due |-> t.due, status |-> t.status, percent |-> t.percent,
                  completed |-> t.completed, rest |-> t.rest, series |-> t.series, etag |-> t.etag]
IsCreation(r) == r = [card |-> r.card, status |-> r.status] /\ IsContact(r.card)

InOrderNow(t) == Edits!Sound(t.start, t.due, {"start", "due"}) /\ (t.completed <=> t.status = "COMPLETED")
Stamped(etag) == etag \in Nat /\ etag =< revision

\* What a command may write over the object it has read.
CardKept(old, new, fields) ==
    old.rest = new.rest /\ \A f \in Edits!Fields \ fields : old[f] = new[f]
TaskKept(old, new, fields) ==
    /\ new.rest = old.rest /\ new.series = old.series
    /\ \A f \in {"start", "due", "status"} \ fields : new[f] = old[f]

CommandFits(d) ==
    /\ d.place \in {"idle", "creating", "changing", "tasking"}
    /\ d.place = "creating" => d.uid \in Edits!Uids
    /\ d.place = "changing" =>
        /\ d.uid \in Edits!Uids /\ Stamped(d.etag) /\ IsContact(d.card)
        /\ \A x \in contacts[d.uid] : x.etag = d.etag => CardKept(x, d.card, d.fields)
    /\ d.place = "tasking" =>
        /\ Stamped(d.etag) /\ IsTask(d.task) /\ InOrderNow(d.task)
        /\ todo.etag = d.etag => TaskKept(todo, d.task, d.fields)

BookFits ==
    /\ contacts = [u \in Edits!Uids |-> contacts[u]]
    /\ \A u \in Edits!Uids : \A x \in contacts[u] : IsContact(x) /\ Stamped(x.etag) /\ contacts[u] = {x}

CreationsFit ==
    /\ proposals = [u \in Edits!Uids |-> proposals[u]]
    /\ \A u \in Edits!Uids : \A r \in proposals[u] : IsCreation(r) /\ proposals[u] = {r}

TaskFits == IsTask(todo) /\ InOrderNow(todo) /\ Stamped(todo.etag)

EditsInv ==
    /\ revision \in Nat /\ BookFits /\ CreationsFit /\ TaskFits
    /\ desks = [c \in Commands |-> desks[c]]
    /\ \A c \in Commands : CommandFits(desks[c])

LEMMA SoundIs == ASSUME NEW s, NEW d, NEW a, NEW b PROVE Edits!Sound(s, d, a) <=> Edits!Sound(s, d, b)
  BY DEF Edits!Sound

LEMMA IdleFits == Edits!Idle.place = "idle" /\ CommandFits(Edits!Idle) /\ CommandFits(Edits!Idle)'
  BY DEF Edits!Idle, CommandFits

LEMMA EditsStart == Edits!Init => EditsInv
  <1> SUFFICES ASSUME Edits!Init PROVE EditsInv
      OBVIOUS
  <1>1. PICK x : x = Edits!Card(CHOOSE n \in ContactNames : TRUE, {CHOOSE a \in Addresses : TRUE}, 0, 1, 0)
        OBVIOUS
  <1>2. IsContact(x) /\ x.etag = 0
        BY <1>1 DEF IsContact, Edits!Card
  <1>3. contacts = [u \in Edits!Uids |-> IF u = Edits!Foreign THEN {x} ELSE {}] /\ revision = 0
        BY <1>1 DEF Edits!Init
  <1>4. BookFits
        BY <1>2, <1>3 DEF BookFits, Stamped
  <1>5. CreationsFit
        BY DEF CreationsFit, Edits!Init
  <1>6. TaskFits
    <2>1. PICK series \in BOOLEAN :
             todo = [start |-> 0, due |-> 0, status |-> "NEEDS-ACTION", percent |-> 0, completed |-> FALSE,
                     rest |-> 1, series |-> series, etag |-> 0]
          BY DEF Edits!Init
    <2>2. todo.start = 0 /\ todo.completed = FALSE /\ todo.status = "NEEDS-ACTION" /\ todo.etag = 0
          BY <2>1
    <2>3. IsTask(todo)
          BY <2>1 DEF IsTask
    <2> QED BY <1>3, <2>2, <2>3 DEF TaskFits, InOrderNow, Edits!Sound, Stamped
  <1>7. desks = [c \in Commands |-> Edits!Idle]
        BY DEF Edits!Init
  <1> QED BY <1>3, <1>4, <1>5, <1>6, <1>7, IdleFits DEF EditsInv

\* One command goes on, and the rest stays as it is.
LEMMA DeskKeeps ==
    ASSUME EditsInv, NEW c \in Commands, NEW d, CommandFits(d), Edits!Put(c, d),
           UNCHANGED <<contacts, todo, revision>>, CreationsFit'
    PROVE  EditsInv'
  <1>1. desks' = [e \in Commands |-> IF e = c THEN d ELSE desks[e]]
        BY DEF EditsInv, Edits!Put
  <1>2. desks' = [e \in Commands |-> desks'[e]]
        BY <1>1
  <1>3. ASSUME NEW e \in Commands PROVE CommandFits(desks[e])'
    <2>1. CommandFits(desks'[e])
          BY <1>1 DEF EditsInv
    <2> QED BY <2>1 DEF CommandFits, Stamped
  <1>4. BookFits' /\ TaskFits'
        BY DEF EditsInv, BookFits, TaskFits, InOrderNow, Stamped
  <1> QED BY <1>2, <1>3, <1>4 DEF EditsInv

\* What is new has the next ETag.
CardsAreNew == \A u \in Edits!Uids : contacts'[u] = contacts[u] \/ \A x \in contacts'[u] : x.etag = revision + 1
TaskIsNew == todo' = todo \/ todo'.etag = revision + 1
DesksEnd ==
    /\ desks' = [c \in Commands |-> desks'[c]]
    /\ \A c \in Commands : desks'[c] = desks[c] \/ desks'[c] = Edits!Idle

\* What was read before a change is no longer what is there.
LEMMA ChangeKeeps ==
    ASSUME EditsInv, revision' = revision + 1, DesksEnd, BookFits', CreationsFit', TaskFits', CardsAreNew, TaskIsNew
    PROVE  EditsInv'
  <1>1. desks' = [c \in Commands |-> desks'[c]] /\ revision' \in Nat
        BY DEF EditsInv, DesksEnd
  <1>2. ASSUME NEW c \in Commands PROVE CommandFits(desks[c])'
    <2>1. CASE desks'[c] = Edits!Idle
          BY <2>1 DEF CommandFits, Edits!Idle
    <2>2. CASE desks'[c] = desks[c]
      <3>1. desks'[c] = desks[c] /\ CommandFits(desks[c])
            BY <2>2 DEF EditsInv
      <3>2. \A etag : Stamped(etag) => Stamped(etag)' /\ etag # revision + 1
            BY DEF Stamped, EditsInv
      <3> QED BY <3>1, <3>2 DEF CommandFits, CardsAreNew, TaskIsNew
    <2> QED BY <2>1, <2>2 DEF DesksEnd
  <1> QED BY <1>1, <1>2 DEF EditsInv

LEMMA HereIs ==
    ASSUME EditsInv, NEW u \in Edits!Present
    PROVE  u \in Edits!Uids /\ Edits!Here(u) \in contacts[u] /\ contacts[u] = {Edits!Here(u)}
  <1>1. u \in Edits!Uids /\ contacts[u] # {}
        BY DEF Edits!Present
  <1>2. Edits!Here(u) \in contacts[u]
        BY <1>1 DEF Edits!Here
  <1> QED BY <1>1, <1>2 DEF EditsInv, BookFits

LEMMA CreateKeeps ==
    ASSUME EditsInv, NEW c \in Commands, NEW u \in Edits!Uids, NEW name, NEW note, NEW anyway,
           Edits!Create(c, u, name, note, anyway)
    PROVE  EditsInv'
  <1> DEFINE new == [card |-> Edits!Card(name, u, note, 0, 0), status |-> "approved"]
  <1>1. PICK r : r = IF proposals[u] = {} THEN new ELSE CHOOSE p \in proposals[u] : TRUE
        OBVIOUS
  <1>2. IsCreation(new)
        BY DEF IsCreation, IsContact, Edits!Card
  <1>3. IsCreation(r)
    <2>1. CASE proposals[u] = {}
          BY <1>1, <1>2, <2>1
    <2>2. CASE proposals[u] # {}
      <3>1. r \in proposals[u]
            BY <1>1, <2>2
      <3> QED BY <3>1 DEF EditsInv, CreationsFit
    <2> QED BY <2>1, <2>2
  <1>4. UNCHANGED <<contacts, todo, revision>>
        BY DEF Edits!Create
  <1>5. CASE UNCHANGED <<desks, proposals>>
        BY <1>4, <1>5 DEF EditsInv, BookFits, CreationsFit, TaskFits, InOrderNow, Stamped, CommandFits
  <1>6. CASE /\ proposals' = [proposals EXCEPT ![u] = {[r EXCEPT !.status = "approved"]}]
             /\ Edits!Put(c, [place |-> "creating", uid |-> u])
    <2>1. PICK s : s = [r EXCEPT !.status = "approved"]
          OBVIOUS
    <2>2. IsCreation(s)
      <3>1. s = [card |-> r.card, status |-> "approved"]
            BY <1>3, <2>1 DEF IsCreation
      <3> QED BY <1>3, <3>1 DEF IsCreation
    <2>3. proposals' = [v \in Edits!Uids |-> IF v = u THEN {s} ELSE proposals[v]]
          BY <1>6, <2>1 DEF EditsInv, CreationsFit
    <2>4. CreationsFit'
      <3>1. \A v \in Edits!Uids : proposals'[v] = {s} \/ proposals'[v] = proposals[v]
            BY <2>3
      <3>2. proposals' = [v \in Edits!Uids |-> proposals'[v]]
            BY <2>3
      <3> QED BY <2>2, <3>1, <3>2 DEF EditsInv, CreationsFit
    <2>5. PICK d : d = [place |-> "creating", uid |-> u]
          OBVIOUS
    <2>6. CommandFits(d)
          BY <2>5 DEF CommandFits
    <2> QED BY <1>4, <1>6, <2>4, <2>5, <2>6, DeskKeeps
  <1>7. \/ UNCHANGED <<desks, proposals>>
        \/ /\ proposals' = [proposals EXCEPT ![u] = {[r EXCEPT !.status = "approved"]}]
           /\ Edits!Put(c, [place |-> "creating", uid |-> u])
        BY <1>1 DEF Edits!Create
  <1> QED BY <1>5, <1>6, <1>7

\* A change is built from the card that was read.
LEMMA UpdatedKeeps ==
    ASSUME NEW x, IsContact(x), NEW fields \in SUBSET Edits!Fields, NEW to, NEW y, y = Edits!Updated(x, fields, to)
    PROVE  IsContact(y) /\ CardKept(x, y, fields)
  <1>1. PICK name : name = IF "name" \in fields THEN to.name ELSE x.name
        OBVIOUS
  <1>2. PICK addresses : addresses = IF "addresses" \in fields THEN to.addresses ELSE x.addresses
        OBVIOUS
  <1>3. PICK note : note = IF "note" \in fields THEN to.note ELSE x.note
        OBVIOUS
  <1>4. y = [x EXCEPT !.name = name, !.addresses = addresses, !.note = note]
        BY <1>1, <1>2, <1>3 DEF Edits!Updated, IsContact
  <1>5. y = [name |-> name, addresses |-> addresses, note |-> note, rest |-> x.rest, etag |-> x.etag]
        BY <1>4 DEF IsContact
  <1>6. \A f \in Edits!Fields \ fields : x[f] = y[f]
        BY <1>1, <1>2, <1>3, <1>5 DEF Edits!Fields
  <1> QED BY <1>5, <1>6 DEF IsContact, CardKept

LEMMA UpdateKeeps ==
    ASSUME EditsInv, NEW c \in Commands, Edits!ContactUpdate(c) PROVE EditsInv'
  <1>1. UNCHANGED <<contacts, todo, proposals, revision>>
        BY DEF Edits!ContactUpdate
  <1>2. PICK u \in Edits!Present, fields \in SUBSET Edits!Fields \ {{}}, n \in ContactNames, as \in Edits!Uids :
            \/ UNCHANGED desks
            \/ Edits!Put(c, [place |-> "changing", uid |-> u, fields |-> fields, etag |-> Edits!Here(u).etag,
                  card |-> Edits!Updated(Edits!Here(u), fields, [name |-> n, addresses |-> as, note |-> 3])])
        BY DEF Edits!ContactUpdate
  <1>3. CASE UNCHANGED desks
        BY <1>1, <1>3 DEF EditsInv, BookFits, CreationsFit, TaskFits, InOrderNow, Stamped, CommandFits
  <1>4. PICK x : x = Edits!Here(u)
        OBVIOUS
  <1>5. u \in Edits!Uids /\ contacts[u] = {x} /\ IsContact(x) /\ Stamped(x.etag)
        BY <1>4, HereIs DEF EditsInv, BookFits
  <1>6. PICK y : y = Edits!Updated(x, fields, [name |-> n, addresses |-> as, note |-> 3])
        OBVIOUS
  <1>7. IsContact(y) /\ CardKept(x, y, fields)
        BY <1>5, <1>6, UpdatedKeeps
  <1>8. PICK d : d = [place |-> "changing", uid |-> u, fields |-> fields, etag |-> x.etag, card |-> y]
        OBVIOUS
  <1>9. CommandFits(d)
        BY <1>5, <1>7, <1>8 DEF CommandFits
  <1>10. CreationsFit'
         BY <1>1 DEF EditsInv, CreationsFit
  <1> QED BY <1>1, <1>2, <1>3, <1>4, <1>6, <1>8, <1>9, <1>10, DeskKeeps

LEMMA TaskStatusKeeps ==
    ASSUME NEW t, IsTask(t), InOrderNow(t), NEW status \in {"none", "NEEDS-ACTION", "COMPLETED"}, NEW percent, NEW v,
           v = Edits!WithStatus(t, status, percent)
    PROVE  IsTask(v) /\ InOrderNow(v) /\ TaskKept(t, v, {"status"}) /\ v.etag = t.etag
  <1>1. PICK p : p = IF percent >= 0 THEN percent ELSE IF status = "COMPLETED" THEN 100
                     ELSE IF status = "NEEDS-ACTION" THEN 0 ELSE t.percent
        OBVIOUS
  <1>2. PICK s : s = IF status = "none" THEN t.status ELSE status
        OBVIOUS
  <1>3. PICK b : b = IF status = "none" THEN t.completed ELSE status = "COMPLETED"
        OBVIOUS
  <1>4. v = [t EXCEPT !.status = s, !.completed = b, !.percent = p]
        BY <1>1, <1>2, <1>3 DEF Edits!WithStatus, IsTask
  <1>5. v = [start |-> t.start, due |-> t.due, status |-> s, percent |-> p, completed |-> b,
             rest |-> t.rest, series |-> t.series, etag |-> t.etag]
        BY <1>4 DEF IsTask
  <1>6. b <=> s = "COMPLETED"
        BY <1>2, <1>3 DEF InOrderNow
  <1>7. IsTask(v) /\ v.start = t.start /\ v.due = t.due /\ v.rest = t.rest /\ v.series = t.series /\ v.etag = t.etag
        /\ v.completed = b /\ v.status = s
        BY <1>5 DEF IsTask
  <1> QED BY <1>6, <1>7 DEF InOrderNow, TaskKept

LEMMA TaskUpdateKeeps ==
    ASSUME EditsInv, NEW c \in Commands, Edits!TaskUpdate(c) PROVE EditsInv'
  <1>1. UNCHANGED <<contacts, todo, proposals, revision>>
        BY DEF Edits!TaskUpdate
  <1>2. PICK asked \in {{"start"}, {"due"}, {"start", "due"}, {"status"}}, start, due \in {0} \cup TaskTimes,
             status \in {"none", "NEEDS-ACTION", "COMPLETED"}, percent \in Edits!Percents, allowed \in BOOLEAN :
            LET s == IF "start" \in asked THEN start ELSE todo.start
                d == IF "due" \in asked THEN due ELSE todo.due
                dated == [todo EXCEPT !.start = s, !.due = d]
            IN IF ~Edits!Sound(s, d, asked) \/ (todo.series /\ ~allowed)
               THEN UNCHANGED desks
               ELSE Edits!Put(c, [place |-> "tasking", fields |-> asked, etag |-> todo.etag,
                        task |-> IF "status" \in asked THEN Edits!WithStatus(dated, status, percent) ELSE dated])
        BY Zenon DEF Edits!TaskUpdate
  <1>3. CASE UNCHANGED desks
        BY <1>1, <1>3 DEF EditsInv, BookFits, CreationsFit, TaskFits, InOrderNow, Stamped, CommandFits
  <1>4. ASSUME NEW s, s = IF "start" \in asked THEN start ELSE todo.start,
               NEW e, e = IF "due" \in asked THEN due ELSE todo.due, Edits!Sound(s, e, asked),
               NEW t, t = [todo EXCEPT !.start = s, !.due = e],
               NEW v, v = IF "status" \in asked THEN Edits!WithStatus(t, status, percent) ELSE t,
               Edits!Put(c, [place |-> "tasking", fields |-> asked, etag |-> todo.etag, task |-> v])
        PROVE  EditsInv'
    <2>1. IsTask(todo) /\ InOrderNow(todo) /\ Stamped(todo.etag)
          BY DEF EditsInv, TaskFits
    <2>2. t = [start |-> s, due |-> e, status |-> todo.status, percent |-> todo.percent,
               completed |-> todo.completed, rest |-> todo.rest, series |-> todo.series, etag |-> todo.etag]
          BY <1>4, <2>1 DEF IsTask
    <2>3. Edits!Sound(t.start, t.due, {"start", "due"})
          BY <1>4, <2>2, SoundIs
    <2>4. IsTask(t) /\ InOrderNow(t)
          BY <2>1, <2>2, <2>3 DEF IsTask, InOrderNow
    <2>5. TaskKept(todo, t, asked)
      <3>1. /\ t.rest = todo.rest /\ t.series = todo.series /\ t.status = todo.status
            /\ t.start = s /\ t.due = e
            BY <2>2
      <3>2. ("start" \notin asked => t.start = todo.start) /\ ("due" \notin asked => t.due = todo.due)
            BY <1>4, <3>1
      <3> QED BY <3>1, <3>2 DEF TaskKept
    <2>6. IsTask(v) /\ InOrderNow(v) /\ TaskKept(todo, v, asked)
      <3>1. CASE "status" \in asked
        <4>1. IsTask(v) /\ InOrderNow(v) /\ TaskKept(t, v, {"status"})
              BY <1>4, <2>4, <3>1, TaskStatusKeeps
        <4> QED BY <2>5, <3>1, <4>1 DEF TaskKept
      <3>2. CASE "status" \notin asked
            BY <1>4, <2>4, <2>5, <3>2
      <3> QED BY <3>1, <3>2
    <2>7. PICK d : d = [place |-> "tasking", fields |-> asked, etag |-> todo.etag, task |-> v]
          OBVIOUS
    <2>8. CommandFits(d)
          BY <2>1, <2>6, <2>7 DEF CommandFits
    <2>9. CreationsFit'
          BY <1>1 DEF EditsInv, CreationsFit
    <2> QED BY <1>1, <1>4, <2>7, <2>8, <2>9, DeskKeeps
  <1> QED BY <1>2, <1>3, <1>4
LEMMA RowKeeps ==
    ASSUME EditsInv, NEW u \in Edits!Uids, NEW status, Edits!Row(u, status) PROVE CreationsFit'
  <1>0. CreationsFit
        BY DEF EditsInv
  <1>1. proposals' = [v \in Edits!Uids |->
            IF v = u THEN {[r EXCEPT !.status = status] : r \in proposals[u]} ELSE proposals[v]]
        BY <1>0 DEF Edits!Row, CreationsFit
  <1>2. ASSUME NEW v \in Edits!Uids, NEW s \in proposals'[v] PROVE IsCreation(s) /\ proposals'[v] = {s}
    <2>1. CASE v # u
          BY <1>0, <1>1, <1>2, <2>1 DEF CreationsFit
    <2>2. CASE v = u
      <3>1. proposals'[v] = {[r EXCEPT !.status = status] : r \in proposals[u]}
            BY <1>1, <2>2
      <3>2. PICK r \in proposals[u] : s = [r EXCEPT !.status = status]
            BY <1>2, <3>1
      <3>3. IsCreation(r) /\ proposals[u] = {r}
            BY <1>0 DEF CreationsFit
      <3>4. s = [card |-> r.card, status |-> status]
            BY <3>2, <3>3 DEF IsCreation
      <3>5. IsCreation(s)
            BY <3>3, <3>4 DEF IsCreation
      <3> QED BY <3>1, <3>2, <3>3, <3>5
    <2> QED BY <2>1, <2>2
  <1>3. proposals' = [v \in Edits!Uids |-> proposals'[v]]
        BY <1>1
  <1> QED BY <1>2, <1>3 DEF CreationsFit

\* A card is written with the next ETag.
LEMMA CardWritten ==
    ASSUME NEW x, IsContact(x), NEW etag, NEW y, y = [x EXCEPT !.etag = etag]
    PROVE  /\ IsContact(y) /\ y.etag = etag /\ y.rest = x.rest
           /\ \A f \in Edits!Fields : y[f] = x[f]
  <1>1. y = [name |-> x.name, addresses |-> x.addresses, note |-> x.note, rest |-> x.rest, etag |-> etag]
        BY DEF IsContact
  <1> QED BY <1>1 DEF IsContact, Edits!Fields

LEMMA BookWritten ==
    ASSUME EditsInv, revision' = revision + 1, NEW u \in Edits!Uids, NEW S, contacts' = [contacts EXCEPT ![u] = S],
           \A x \in S : IsContact(x) /\ x.etag = revision + 1 /\ S = {x}
    PROVE  BookFits' /\ CardsAreNew
  <1>1. contacts' = [v \in Edits!Uids |-> IF v = u THEN S ELSE contacts[v]]
        BY DEF EditsInv, BookFits
  <1>2. contacts' = [v \in Edits!Uids |-> contacts'[v]]
        BY <1>1
  <1>3. \A etag : Stamped(etag) \/ etag = revision + 1 => Stamped(etag)'
        BY DEF Stamped, EditsInv
  <1>4. \A v \in Edits!Uids : contacts'[v] = contacts[v] \/ contacts'[v] = S
        BY <1>1
  <1> QED BY <1>2, <1>3, <1>4 DEF BookFits, EditsInv, CardsAreNew

LEMMA TaskStays == ASSUME EditsInv, UNCHANGED todo, revision' = revision \/ revision' = revision + 1 PROVE TaskFits'
  BY DEF EditsInv, TaskFits, Stamped, InOrderNow

LEMMA BookStays == ASSUME EditsInv, UNCHANGED contacts, revision' = revision \/ revision' = revision + 1 PROVE BookFits'
  BY DEF EditsInv, BookFits, Stamped

LEMMA DesksAfter ==
    ASSUME EditsInv, NEW c \in Commands, Edits!Put(c, Edits!Idle)
    PROVE  DesksEnd
  BY DEF EditsInv, Edits!Put, DesksEnd

LEMMA PutNewKeeps ==
    ASSUME EditsInv, NEW c \in Commands, Edits!PutNew(c) PROVE EditsInv'
  <1>1. PICK u : u = desks[c].uid
        OBVIOUS
  <1>2. u \in Edits!Uids
        BY <1>1 DEF EditsInv, CommandFits, Edits!PutNew
  <1>3. Edits!Put(c, Edits!Idle) /\ UNCHANGED todo
        BY DEF Edits!PutNew
  <1>4. CASE UNCHANGED <<contacts, revision>> /\ Edits!Row(u, "failed")
        BY <1>2, <1>3, <1>4, RowKeeps, IdleFits, DeskKeeps
  <1>5. ASSUME NEW S, S = {[r.card EXCEPT !.etag = revision + 1] : r \in proposals[u]},
               contacts' = [contacts EXCEPT ![u] = S], revision' = revision + 1,
               NEW status, Edits!Row(u, status)
        PROVE  EditsInv'
    <2>1. ASSUME NEW y \in S PROVE IsContact(y) /\ y.etag = revision + 1 /\ S = {y}
      <3>1. PICK r \in proposals[u] : y = [r.card EXCEPT !.etag = revision + 1]
            BY <1>5, <2>1
      <3>2. IsCreation(r) /\ proposals[u] = {r}
            BY <1>2 DEF EditsInv, CreationsFit
      <3>3. IsContact(r.card)
            BY <3>2 DEF IsCreation
      <3>4. IsContact(y) /\ y.etag = revision + 1
            BY <3>1, <3>3, CardWritten
      <3> QED BY <1>5, <3>1, <3>2, <3>4
    <2>2. BookFits' /\ CardsAreNew
          BY <1>2, <1>5, <2>1, BookWritten
    <2>3. CreationsFit' /\ TaskFits'
          BY <1>2, <1>3, <1>5, RowKeeps, TaskStays
    <2> QED BY <1>3, <1>5, <2>2, <2>3, DesksAfter, ChangeKeeps DEF TaskIsNew
  <1>6. \/ UNCHANGED <<contacts, revision>> /\ Edits!Row(u, "failed")
        \/ /\ contacts' = [contacts EXCEPT ![u] = {[r.card EXCEPT !.etag = revision + 1] : r \in proposals[u]}]
           /\ revision' = revision + 1 /\ \E status : Edits!Row(u, status)
        BY <1>1 DEF Edits!PutNew
  <1> QED BY <1>4, <1>5, <1>6

LEMMA PutCardKeeps ==
    ASSUME EditsInv, NEW c \in Commands, Edits!PutCard(c) PROVE EditsInv'
  <1>1. PICK d : d = desks[c]
        OBVIOUS
  <1>2. d.uid \in Edits!Uids /\ IsContact(d.card)
        BY <1>1 DEF EditsInv, CommandFits, Edits!PutCard
  <1>3. Edits!Put(c, Edits!Idle) /\ UNCHANGED <<todo, proposals>>
        BY DEF Edits!PutCard
  <1>4. CreationsFit'
        BY <1>3 DEF EditsInv, CreationsFit
  <1>5. CASE UNCHANGED <<contacts, revision>>
        BY <1>3, <1>4, <1>5, IdleFits, DeskKeeps
  <1>6. ASSUME NEW y, y = [d.card EXCEPT !.etag = revision + 1],
               contacts' = [contacts EXCEPT ![d.uid] = {y}], revision' = revision + 1
        PROVE  EditsInv'
    <2>1. IsContact(y) /\ y.etag = revision + 1
          BY <1>2, <1>6, CardWritten
    <2>2. PICK S : S = {y}
          OBVIOUS
    <2>3. BookFits' /\ CardsAreNew
      <3>1. \A x \in S : IsContact(x) /\ x.etag = revision + 1 /\ S = {x}
            BY <2>1, <2>2
      <3> QED BY <1>2, <1>6, <2>2, <3>1, BookWritten
    <2> QED BY <1>3, <1>4, <1>6, <2>3, TaskStays, DesksAfter, ChangeKeeps DEF TaskIsNew
  <1>7. \/ UNCHANGED <<contacts, revision>>
        \/ contacts' = [contacts EXCEPT ![d.uid] = {[d.card EXCEPT !.etag = revision + 1]}] /\ revision' = revision + 1
        BY <1>1 DEF Edits!PutCard
  <1> QED BY <1>5, <1>6, <1>7

LEMMA TaskWritten ==
    ASSUME NEW t, IsTask(t), NEW etag, NEW v, v = [t EXCEPT !.etag = etag]
    PROVE  /\ IsTask(v) /\ v.etag = etag /\ v.rest = t.rest /\ v.series = t.series
           /\ v.start = t.start /\ v.due = t.due /\ v.status = t.status /\ v.completed = t.completed
  <1>1. v = [start |-> t.start, due |-> t.due, status |-> t.status, percent |-> t.percent,
             completed |-> t.completed, rest |-> t.rest, series |-> t.series, etag |-> etag]
        BY DEF IsTask
  <1> QED BY <1>1 DEF IsTask

LEMMA PutTaskKeeps ==
    ASSUME EditsInv, NEW c \in Commands, Edits!PutTask(c) PROVE EditsInv'
  <1>1. PICK d : d = desks[c]
        OBVIOUS
  <1>2. IsTask(d.task) /\ InOrderNow(d.task)
        BY <1>1 DEF EditsInv, CommandFits, Edits!PutTask
  <1>3. Edits!Put(c, Edits!Idle) /\ UNCHANGED <<contacts, proposals>>
        BY DEF Edits!PutTask
  <1>4. CreationsFit'
        BY <1>3 DEF EditsInv, CreationsFit
  <1>5. CASE UNCHANGED <<todo, revision>>
        BY <1>3, <1>4, <1>5, IdleFits, DeskKeeps
  <1>6. CASE todo' = [d.task EXCEPT !.etag = revision + 1] /\ revision' = revision + 1
    <2>1. IsTask(todo') /\ todo'.etag = revision + 1 /\ InOrderNow(todo')
          BY <1>2, <1>6, TaskWritten DEF InOrderNow
    <2>2. TaskFits'
          BY <1>6, <2>1 DEF TaskFits, Stamped, EditsInv, InOrderNow
    <2> QED BY <1>3, <1>4, <1>6, <2>1, <2>2, BookStays, DesksAfter, ChangeKeeps DEF TaskIsNew, CardsAreNew
  <1>7. UNCHANGED <<todo, revision>> \/ (todo' = [d.task EXCEPT !.etag = revision + 1] /\ revision' = revision + 1)
        BY <1>1 DEF Edits!PutTask
  <1> QED BY <1>5, <1>6, <1>7

LEMMA KilledKeeps ==
    ASSUME EditsInv, NEW c \in Commands, Edits!Killed(c) PROVE EditsInv'
  <1>1. Edits!Put(c, Edits!Idle) /\ UNCHANGED <<contacts, todo, revision>>
        BY DEF Edits!Killed
  <1>2. CreationsFit'
    <2>1. CASE UNCHANGED proposals
          BY <2>1 DEF EditsInv, CreationsFit
    <2>2. CASE desks[c].place = "creating" /\ Edits!Row(desks[c].uid, "executing")
      <3>1. desks[c].uid \in Edits!Uids
            BY <2>2 DEF EditsInv, CommandFits
      <3> QED BY <2>2, <3>1, RowKeeps
    <2> QED BY <2>1, <2>2 DEF Edits!Killed
  <1> QED BY <1>1, <1>2, IdleFits, DeskKeeps

\* What the user writes on a phone.
LEMMA PhoneKeeps == ASSUME EditsInv, Edits!Edit PROVE EditsInv'
  <1>1. revision' = revision + 1 /\ UNCHANGED <<proposals, desks>>
        BY DEF Edits!Edit
  <1>2. CreationsFit' /\ DesksEnd
        BY <1>1 DEF EditsInv, CreationsFit, DesksEnd
  <1>3. ASSUME NEW u \in Edits!Present, UNCHANGED todo,
               contacts' = [contacts EXCEPT ![u] =
                   IF u = Edits!Foreign
                   THEN {[Edits!Here(u) EXCEPT !.rest = Edits!Here(u).rest + 1, !.etag = revision + 1]}
                   ELSE {}]
        PROVE  EditsInv'
    <2>1. PICK x : x = Edits!Here(u)
          OBVIOUS
    <2>2. u \in Edits!Uids /\ IsContact(x)
          BY <2>1, HereIs DEF EditsInv, BookFits
    <2>3. PICK y : y = [x EXCEPT !.rest = x.rest + 1, !.etag = revision + 1]
          OBVIOUS
    <2>4. y = [name |-> x.name, addresses |-> x.addresses, note |-> x.note, rest |-> x.rest + 1, etag |-> revision + 1]
          BY <2>2, <2>3 DEF IsContact
    <2>5. IsContact(y) /\ y.etag = revision + 1
          BY <2>4 DEF IsContact
    <2>6. PICK S : S = IF u = Edits!Foreign THEN {y} ELSE {}
          OBVIOUS
    <2>7. contacts' = [contacts EXCEPT ![u] = S]
          BY <1>3, <2>1, <2>3, <2>6
    <2>8. BookFits' /\ CardsAreNew
      <3>1. \A z \in S : IsContact(z) /\ z.etag = revision + 1 /\ S = {z}
            BY <2>5, <2>6
      <3> QED BY <1>1, <2>2, <2>7, <3>1, BookWritten
    <2> QED BY <1>1, <1>2, <1>3, <2>8, TaskStays, ChangeKeeps DEF TaskIsNew
  <1>4. ASSUME NEW start \in {0} \cup TaskTimes, NEW due \in {0} \cup TaskTimes, UNCHANGED contacts,
               Edits!Sound(start, due, {"start", "due"}),
               todo' = [todo EXCEPT !.start = start, !.due = due, !.rest = @ + 1, !.etag = revision + 1]
        PROVE  EditsInv'
    <2>1. IsTask(todo) /\ InOrderNow(todo)
          BY DEF EditsInv, TaskFits
    <2>2. todo' = [start |-> start, due |-> due, status |-> todo.status, percent |-> todo.percent,
                   completed |-> todo.completed, rest |-> todo.rest + 1, series |-> todo.series, etag |-> revision + 1]
          BY <1>4, <2>1 DEF IsTask
    <2>3. IsTask(todo') /\ todo'.etag = revision + 1 /\ InOrderNow(todo')
          BY <1>4, <2>1, <2>2 DEF IsTask, InOrderNow
    <2>4. TaskFits'
          BY <1>1, <2>3 DEF TaskFits, Stamped, EditsInv, InOrderNow
    <2> QED BY <1>1, <1>2, <1>4, <2>3, <2>4, BookStays, ChangeKeeps DEF TaskIsNew, CardsAreNew
  <1> QED BY <1>3, <1>4 DEF Edits!Edit

LEMMA EditsSteps == EditsInv /\ [Edits!Next]_editsVars => EditsInv'
  <1> SUFFICES ASSUME EditsInv, [Edits!Next]_editsVars PROVE EditsInv'
      OBVIOUS
  <1>1. CASE UNCHANGED editsVars
        BY <1>1 DEF editsVars, EditsInv, BookFits, CreationsFit, TaskFits, InOrderNow, Stamped, CommandFits
  <1>2. ASSUME NEW c \in Commands, Edits!ContactCreate(c) PROVE EditsInv'
        BY <1>2, CreateKeeps DEF Edits!ContactCreate
  <1>3. ASSUME NEW c \in Commands, Edits!ContactFromMail(c) PROVE EditsInv'
    <2>1. PICK a \in Addresses, n \in ContactNames : Edits!Create(c, {a}, n, 2, FALSE)
          BY <1>3 DEF Edits!ContactFromMail
    <2>2. {a} \in Edits!Uids
          BY DEF Edits!Uids
    <2> QED BY <2>1, <2>2, CreateKeeps
  <1>4. ASSUME NEW c \in Commands, Edits!Request(c) PROVE EditsInv'
        BY <1>4, PutNewKeeps, PutCardKeeps, PutTaskKeeps DEF Edits!Request
  <1> QED BY <1>1, <1>2, <1>3, <1>4, UpdateKeeps, TaskUpdateKeeps, KilledKeeps, PhoneKeeps DEF Edits!Next
\* Who is done in a step has taken it.
LEMMA OwnStep ==
    ASSUME EditsInv, Edits!Next, NEW c \in Commands, desks[c].place \in {"changing", "tasking"}, desks'[c] = Edits!Idle
    PROVE  Edits!Request(c) \/ Edits!Killed(c)
  <1>1. desks[c] # Edits!Idle
        BY IdleFits
  <1>2. ASSUME NEW d \in Commands, NEW x, Edits!Put(d, x) PROVE d = c
        BY <1>1, <1>2 DEF EditsInv, Edits!Put
  <1>3. ~Edits!Edit /\ desks' # desks
        BY <1>1 DEF Edits!Edit
  <1>4. ASSUME NEW d \in Commands, Edits!Request(d) \/ Edits!Killed(d) PROVE d = c
        BY <1>2, <1>4 DEF Edits!Request, Edits!PutNew, Edits!PutCard, Edits!PutTask, Edits!Killed
  <1>5. ASSUME NEW d \in Commands, Edits!ContactCreate(d) \/ Edits!ContactFromMail(d)
        PROVE  FALSE
    <2>1. PICK u, name, note, anyway : Edits!Create(d, u, name, note, anyway)
          BY <1>5 DEF Edits!ContactCreate, Edits!ContactFromMail
    <2>2. desks[d] = Edits!Idle /\ (UNCHANGED desks \/ \E x : Edits!Put(d, x))
          BY <2>1 DEF Edits!Create, Edits!Asked
    <2> QED BY <1>1, <1>2, <1>3, <2>2
  <1>6. ASSUME NEW d \in Commands, Edits!ContactUpdate(d) \/ Edits!TaskUpdate(d)
        PROVE  FALSE
    <2>1. desks[d] = Edits!Idle
          BY <1>6 DEF Edits!ContactUpdate, Edits!TaskUpdate, Edits!Asked
    <2>2. UNCHANGED desks \/ \E x : Edits!Put(d, x)
      <3>1. Edits!ContactUpdate(d) => UNCHANGED desks \/ \E x : Edits!Put(d, x)
            BY Zenon DEF Edits!ContactUpdate
      <3>2. Edits!TaskUpdate(d) => UNCHANGED desks \/ \E x : Edits!Put(d, x)
            BY Zenon DEF Edits!TaskUpdate
      <3> QED BY <1>6, <3>1, <3>2
    <2> QED BY <1>1, <1>2, <1>3, <2>1, <2>2
  <1> QED BY <1>3, <1>4, <1>5, <1>6 DEF Edits!Next

LEMMA CardsAsAsked ==
    ASSUME EditsInv, [Edits!Next]_editsVars, NEW u \in Edits!Uids PROVE Edits!CardKeeps(u)
  <1> SUFFICES ASSUME NEW c \in Commands, desks[c].place = "changing", contacts'[u] # contacts[u],
                      desks'[c] = Edits!Idle
               PROVE  /\ contacts[u] # {} /\ contacts'[u] # {}
                      /\ \A old \in contacts[u], new \in contacts'[u] : CardKept(old, new, desks[c].fields)
      BY DEF Edits!CardKeeps, CardKept
  <1>1. Edits!Next
        BY DEF editsVars
  <1>2. Edits!PutCard(c)
    <2>1. Edits!Request(c) \/ Edits!Killed(c)
          BY <1>1, OwnStep
    <2>2. ~Edits!Killed(c) /\ ~Edits!PutNew(c) /\ ~Edits!PutTask(c)
          BY DEF Edits!Killed, Edits!PutNew, Edits!PutTask
    <2> QED BY <2>1, <2>2 DEF Edits!Request
  <1>3. PICK d : d = desks[c]
        OBVIOUS
  <1>4. PICK x \in contacts[d.uid] :
            x.etag = d.etag /\ contacts' = [contacts EXCEPT ![d.uid] = {[d.card EXCEPT !.etag = revision + 1]}]
        BY <1>2, <1>3 DEF Edits!PutCard, Edits!Matches
  <1>5. /\ d.uid \in Edits!Uids /\ IsContact(d.card) /\ CardKept(x, d.card, d.fields)
        BY <1>3, <1>4 DEF EditsInv, CommandFits
  <1>6. PICK y : y = [d.card EXCEPT !.etag = revision + 1]
        OBVIOUS
  <1>7. CardKept(x, y, d.fields)
        BY <1>5, <1>6, CardWritten DEF CardKept
  <1>8. u = d.uid /\ contacts[u] = {x} /\ contacts'[u] = {y}
        BY <1>4, <1>5, <1>6 DEF EditsInv, BookFits
  <1> QED BY <1>3, <1>7, <1>8

LEMMA TaskAsAsked == ASSUME EditsInv, [Edits!Next]_editsVars PROVE Edits!TaskKeeps
  <1> SUFFICES ASSUME NEW c \in Commands, desks[c].place = "tasking", todo' # todo, desks'[c] = Edits!Idle
               PROVE  TaskKept(todo, todo', desks[c].fields)
      BY DEF Edits!TaskKeeps, TaskKept
  <1>1. Edits!Next
        BY DEF editsVars
  <1>2. Edits!PutTask(c)
    <2>1. Edits!Request(c) \/ Edits!Killed(c)
          BY <1>1, OwnStep
    <2>2. ~Edits!Killed(c) /\ ~Edits!PutNew(c) /\ ~Edits!PutCard(c)
          BY DEF Edits!Killed, Edits!PutNew, Edits!PutCard
    <2> QED BY <2>1, <2>2 DEF Edits!Request
  <1>3. PICK d : d = desks[c]
        OBVIOUS
  <1>4. todo.etag = d.etag /\ todo' = [d.task EXCEPT !.etag = revision + 1]
        BY <1>2, <1>3 DEF Edits!PutTask, Edits!Matches
  <1>5. IsTask(d.task) /\ TaskKept(todo, d.task, d.fields)
        BY <1>3, <1>4 DEF EditsInv, CommandFits
  <1>6. /\ todo'.rest = d.task.rest /\ todo'.series = d.task.series /\ todo'.start = d.task.start
        /\ todo'.due = d.task.due /\ todo'.status = d.task.status
        BY <1>4, <1>5, TaskWritten
  <1> QED BY <1>3, <1>5, <1>6 DEF TaskKept

LEMMA EditsAsAsked == EditsInv /\ [Edits!Next]_editsVars => Edits!OnlyWhatWasAsked
  BY CardsAsAsked, TaskAsAsked DEF Edits!OnlyWhatWasAsked

LEMMA TaskStaysSound == EditsInv => Edits!TaskIsSound
  BY DEF EditsInv, TaskFits, InOrderNow, Edits!TaskIsSound

ToolsInv == (turn = "letters" => LettersInv) /\ (turn = "edits" => EditsInv)

\* A draft is sent once and a correction tried once unless two calls overlapped, what is
\* taken is the mail that was meant, a request changes what it was asked to change and
\* nothing else, and a task stays in order: for any commands, mails, edits and mishaps.
THEOREM ToolsHold == AllSpec => ToolsDoAsTold
  <1>1. AllInit => ToolsInv
        BY LettersStart, EditsStart DEF AllInit, ToolsInv
  <1>2. ToolsInv /\ [AllNext]_allVars => ToolsInv'
        BY OneTurn, LettersSteps, EditsSteps, SearchAssumption DEF ToolsInv
  <1>3. ToolsInv => /\ turn = "letters" => Letters!TriedOnce /\ Letters!MeantIsTaken
                    /\ turn = "edits" => Edits!TaskIsSound
        BY LettersInvIsEnough, TaskStaysSound DEF ToolsInv
  <1>4. ToolsInv /\ [AllNext]_allVars => [turn = "edits" => Edits!OnlyWhatWasAsked]_allVars
        BY OneTurn, EditsAsAsked DEF ToolsInv
  <1> QED BY <1>1, <1>2, <1>3, <1>4, PTL DEF AllSpec, ToolsDoAsTold
=============================================================================
