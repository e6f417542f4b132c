---------------------------- MODULE MCMailSearch ----------------------------
(***************************************************************************)
(* What the assistant finds and does for its user, checked in one run.  The  *)
(* search for mail: the generations of the index (SearchIndex), their tables  *)
(* in the knowledge database (MailGenerations), the answer that is made from *)
(* them (MailSearchAnswer) and the places of the hits in the mailbox          *)
(* (MailLocators).  The tools: mails (MailTools), contacts and tasks          *)
(* (DirectEdits).  They share no state here, and a behaviour is one of one    *)
(* component: the first state says of which.                                 *)
(***************************************************************************)
EXTENDS MCSearchIndex, SequencesExt

CONSTANTS
    MailFolders, Digests, MaxPlaces,                                \* MailGenerations
    Wanted, Alike, Highest, MaxMoves,                               \* MailLocators, in MailFolders
    Mails, Matching, Written, Batch, MaxImports, MaxQuestions,      \* MailSearchAnswer
    Shown, SameSubject, InfectedMail, MailIds, Commands, MaxToolMishaps, MaxPlanned, MaxDrafts, \* MailTools
    Addresses, ContactNames, TaskTimes, MaxCommands, MaxPhoneEdits, MaxLostAnswers \* DirectEdits

\* 0 is the mail of an answer without one, and every mail of a folder has an id in it.
SearchAssumption ==
    /\ MailFolders # {} /\ IsFiniteSet(MailFolders) /\ MailFolders = 1..Cardinality(MailFolders)
    /\ 0 \notin {Wanted, Alike} /\ Wanted # Alike
    /\ IsFiniteSet(Mails)
    /\ Shown \subseteq MailIds
ASSUME SearchAssumption

VARIABLES
    turn,       \* which of the components the behaviour is about
    mailbox, uids, validity, generation, tables, shown,
    folders, numbering, native, locators, seen, live, searching, matches, answer, fled, changes,
    post, projection, imported, embeddings, builder, question,
    folder, plans, callers, done, met, taken, callsMade, toolMishaps,
    contacts, todo, proposals, desks, revision, given, usage

Generations == INSTANCE MailGenerations

Locators == INSTANCE MailLocators WITH
    Folders <- MailFolders, MaxChanges <- MaxMoves, mailbox <- folders, validity <- numbering

Answer == INSTANCE MailSearchAnswer WITH index <- imported

Letters == INSTANCE MailTools WITH
    Letters <- Shown, Alike <- SameSubject, Infected <- InfectedMail, Slots <- MailIds, Callers <- Commands,
    MaxMishaps <- MaxToolMishaps, MaxCalls <- MaxPlanned, calls <- callsMade, mishaps <- toolMishaps

Edits == INSTANCE DirectEdits WITH
    Callers <- Commands, Names <- ContactNames, Times <- TaskTimes, MaxCalls <- MaxCommands,
    MaxEdits <- MaxPhoneEdits, MaxMishaps <- MaxLostAnswers, cards <- contacts, tick <- revision, spent <- usage

tablesVars == <<mailbox, uids, validity, generation, tables, shown>>
locatorsVars == <<folders, numbering, native, locators, seen, live, searching, matches, answer, fled, changes>>
answerVars == <<post, projection, imported, embeddings, builder, question>>
lettersVars == <<folder, plans, callers, done, met, taken, callsMade, toolMishaps>>
editsVars == <<contacts, todo, proposals, desks, revision, given, usage>>
allVars == <<turn, vars, tablesVars, locatorsVars, answerVars, lettersVars, editsVars>>

\* The variables of a component whose turn it is not are all 0.
AllInit ==
    /\ turn \in {"index", "tables", "locators", "answer", "letters", "edits"}
    /\ Init
    /\ IF turn = "tables" THEN Generations!Init ELSE
         /\ mailbox = 0 /\ uids = 0 /\ validity = 0 /\ generation = 0 /\ tables = 0
         /\ shown = 0
    /\ IF turn = "locators" THEN Locators!Init ELSE
         /\ folders = 0 /\ numbering = 0 /\ native = 0 /\ locators = 0 /\ seen = 0
         /\ live = 0 /\ searching = 0 /\ matches = 0 /\ answer = 0 /\ fled = 0 /\ changes = 0
    /\ IF turn = "answer" THEN Answer!Init ELSE
         /\ post = 0 /\ projection = 0 /\ imported = 0 /\ embeddings = 0 /\ builder = 0
         /\ question = 0
    /\ IF turn = "letters" THEN Letters!Init ELSE
         /\ folder = 0 /\ plans = 0 /\ callers = 0 /\ done = 0 /\ met = 0 /\ taken = 0
         /\ callsMade = 0 /\ toolMishaps = 0
    /\ IF turn = "edits" THEN Edits!Init ELSE
         /\ contacts = 0 /\ todo = 0 /\ proposals = 0 /\ desks = 0 /\ revision = 0 /\ given = 0
         /\ usage = 0

IndexStep ==
    /\ turn = "index" /\ Next
    /\ UNCHANGED <<turn, tablesVars, locatorsVars, answerVars, lettersVars, editsVars>>

GenerationsStep ==
    /\ turn = "tables" /\ Generations!Next
    /\ UNCHANGED <<turn, vars, locatorsVars, answerVars, lettersVars, editsVars>>

LocatorsStep ==
    /\ turn = "locators" /\ Locators!Next
    /\ UNCHANGED <<turn, vars, tablesVars, answerVars, lettersVars, editsVars>>

AnswerStep ==
    /\ turn = "answer" /\ Answer!Next
    /\ UNCHANGED <<turn, vars, tablesVars, locatorsVars, lettersVars, editsVars>>

LettersStep ==
    /\ turn = "letters" /\ Letters!Next
    /\ UNCHANGED <<turn, vars, tablesVars, locatorsVars, answerVars, editsVars>>

EditsStep ==
    /\ turn = "edits" /\ Edits!Next
    /\ UNCHANGED <<turn, vars, tablesVars, locatorsVars, answerVars, lettersVars>>

AllNext ==
    \/ IndexStep \/ GenerationsStep \/ LocatorsStep \/ AnswerStep \/ LettersStep \/ EditsStep

AllSpec == AllInit /\ [][AllNext]_allVars

\* The fairness of SearchIndex, in its own behaviours.
FairAllSpec ==
    /\ AllSpec
    /\ WF_vars(turn = "index" /\ Owner) /\ WF_vars(turn = "index" /\ SyncWorker)

-----------------------------------------------------------------------------
(* Properties *)

\* SearchIndex: the files of the published generation stay readable wherever a run
\* dies, and an absence reported as proven is one.
IndexIsWhole == RootIsWhole /\ NoFalseAbsence

\* SearchIndex: when the mailbox comes to rest, the index comes to hold what is in it.
IndexIsCaughtUp == turn = "index" => IndexCatchesUp

\* MailGenerations: the database shows every mail where it was when the generation
\* was made, and a mail that was moved keeps its identity.
MailboxIsShown ==
    /\ [](turn = "tables" => Generations!SearchShowsTheMailbox)
    /\ [][turn = "tables" => Generations!MoveKeepsIdentity]_allVars

\* MailSearchAnswer: a search denies only what the index proves, and calls its
\* vectors ready only when every text has one.  MailLocators: the place a hit is
\* shown with holds that very mail.
SearchIsTrue ==
    /\ turn = "answer" => Answer!NegativeIsProven /\ Answer!ReadyMeansEmbedded
    /\ turn = "locators" => Locators!HitIsTheMail

\* What the assistant does by itself is what it was told.  MailTools: a draft is
\* sent once and a correction is tried once unless two calls overlapped, and what
\* is taken is the mail that was meant.  DirectEdits: a request changes what it was
\* asked to change and nothing else, and no sequence of partial changes leaves a
\* task in disorder.
ToolsDoAsTold ==
    /\ [](turn = "letters" => Letters!TriedOnce /\ Letters!MeantIsTaken)
    /\ [](turn = "edits" => Edits!TaskIsSound)
    /\ [][turn = "edits" => Edits!OnlyWhatWasAsked]_allVars
=============================================================================
