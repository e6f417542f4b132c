-------------------------- MODULE MailSearchAnswer --------------------------
(***************************************************************************)
(* What `mail search` answers (personal_assistant/mail_hybrid_search.py):   *)
(* the status of the index, the lexical query with its own look at the      *)
(* generation, the semantic candidates and the live locators are read one   *)
(* after the other, while the knowledge import replaces the generation, the *)
(* embedding build fills in vectors and the mailbox changes.                *)
(*                                                                          *)
(* A mail is a member of Mails; Matching are the mails the words of the     *)
(* question occur in, Written those with a text of their own.  A chunk is a *)
(* mail and the import that wrote it.  The provider of the server search is *)
(* Himalaya, which declares itself not authoritative.                       *)
(***************************************************************************)
EXTENDS Integers, FiniteSets, Sequences, SequencesExt

CONSTANTS
    Mails,          \* mails there may be
    Matching,       \* those with the words of the question
    Written,        \* those with a body
    Batch,          \* chunks of a request to the embedding model
    MaxImports,     \* bound: imports there ever are
    MaxQuestions    \* bound: searches there ever are

VARIABLES
    post,           \* the mails that are there, and those that were
    projection,     \* the published projection: its mails, and whether it is authoritative
    index,          \* the generation in the tables, and the chunks of its mails
    embeddings,     \* the chunks that have a vector
    builder,        \* chunks the embedding build has still to do
    question        \* the search that goes on

vars == <<post, projection, index, embeddings, builder, question>>

Idle == [step |-> "idle", mode |-> "none", eligible |-> FALSE, semantic |-> "missing", hits |-> {},
         whole |-> FALSE, near |-> {}, decision |-> "none", base |-> {}, from |-> 0, passed |-> 0, asked |-> 0]

Init ==
    /\ post = [here |-> {}, seen |-> {}]
    /\ projection = [mails |-> {}, whole |-> TRUE]
    /\ index = [mails |-> {}, whole |-> FALSE, fresh |-> FALSE, chunks |-> {}, imports |-> 0]
    /\ embeddings = {} /\ builder = <<>>
    /\ question = Idle

-----------------------------------------------------------------------------
(* The mailbox and its projection *)

Arrive ==
    /\ \E m \in Mails \ post.seen : post' = [here |-> post.here \cup {m}, seen |-> post.seen \cup {m}]
    /\ UNCHANGED <<projection, index, embeddings, builder, question>>

Leave ==
    /\ \E m \in post.here : post' = [post EXCEPT !.here = @ \ {m}]
    /\ UNCHANGED <<projection, index, embeddings, builder, question>>

\* A reconciliation publishes what it found; SearchIndex has how.  Without the
\* authority over every folder it may lack mails.
Project ==
    /\ \E M \in SUBSET post.here :
         projection' = [mails |-> M, whole |-> M = post.here]
    /\ index.imports < MaxImports
    /\ projection' # projection
    /\ UNCHANGED <<post, index, embeddings, builder, question>>

Age ==
    /\ index.fresh /\ index' = [index EXCEPT !.fresh = FALSE]
    /\ UNCHANGED <<post, projection, embeddings, builder, question>>

-----------------------------------------------------------------------------
(* KnowledgeIndexer.index_mail_snapshots, Storage.apply_mail_projection *)

\* The foreign keys of the vectors: they go with their chunk.
Kept(rows, chunks) == rows \cap chunks

Import ==
    /\ index.imports < MaxImports
    /\ LET old == {c \in index.chunks : c[1] \in projection.mails}
           new == (projection.mails \ index.mails) \cap Written
           chunks == old \cup (new \X {index.imports + 1})
       IN /\ index' = [mails |-> projection.mails, whole |-> projection.whole, fresh |-> TRUE,
                       chunks |-> chunks, imports |-> index.imports + 1]
          /\ embeddings' = Kept(embeddings, chunks)
    /\ UNCHANGED <<post, projection, builder, question>>

-----------------------------------------------------------------------------
(* MailEmbeddingIndex.build *)

\* _candidates
Candidates ==
    /\ builder = <<>> /\ index.chunks \ embeddings # {}
    /\ builder' = SetToSortSeq(index.chunks \ embeddings,
                               LAMBDA c, d : c[1] < d[1] \/ (c[1] = d[1] /\ c[2] < d[2]))
    /\ UNCHANGED <<post, projection, index, embeddings, question>>

Request == {builder[i] : i \in 1..IF Len(builder) < Batch THEN Len(builder) ELSE Batch}

\* A batch is stored whole; a chunk that is gone meanwhile violates the foreign
\* key, which rolls the batch back and ends the build.
StoreBatch ==
    /\ builder # <<>>
    /\ IF Request \subseteq index.chunks
       THEN embeddings' = embeddings \cup Request /\ builder' = SubSeq(builder, Batch + 1, Len(builder))
       ELSE builder' = <<>> /\ UNCHANGED embeddings
    /\ UNCHANGED <<post, projection, index, question>>

\* The model does not answer: what is stored stays, the next build goes on.
Unavailable ==
    /\ builder # <<>> /\ builder' = <<>>
    /\ UNCHANGED <<post, projection, index, embeddings, question>>

-----------------------------------------------------------------------------
(* MailHybridSearch.search *)

others == <<post, projection, index, embeddings, builder>>

AbsenceProven == index.imports > 0 /\ index.whole /\ index.fresh

SemanticState ==
    IF embeddings = {} THEN "missing"
    ELSE IF Cardinality(embeddings) >= Cardinality(index.chunks) THEN "ready" ELSE "partial"

\* Mutant: the lexical query is taken for complete whenever the status was.
EvidenceOfStatus(matches, q, complete) ==
    IF matches # {} THEN "matches" ELSE IF q.eligible THEN "no-match" ELSE "inconclusive"

\* MailSearchEvidence.decision
Evidence(matches, q, complete) ==
    IF matches # {} THEN "matches" ELSE IF complete THEN "no-match" ELSE "inconclusive"

Answer(matches, complete) ==
    question' = [question EXCEPT !.step = "answered", !.decision = Evidence(matches, question, complete),
                                  !.passed = index.imports - question.from]

Ask ==
    /\ question.step \in {"idle", "answered"} /\ question.asked < MaxQuestions
    /\ \E mode \in {"auto", "local", "server"} :
         question' = [Idle EXCEPT !.mode = mode, !.step = IF mode = "server" THEN "server" ELSE "status",
                                  !.asked = question.asked + 1]
    /\ UNCHANGED others

\* mail_index_status; in automatic mode an index that cannot be trusted is left.
Status ==
    /\ question.step = "status"
    /\ question' = [question EXCEPT
         !.eligible = AbsenceProven, !.semantic = SemanticState, !.base = index.mails, !.from = index.imports,
         !.step = IF question.mode = "auto" /\ ~AbsenceProven THEN "server" ELSE "query"]
    /\ UNCHANGED others

\* MailLexicalSearch.search: the mails with a chunk that has the words.
Hits == {c[1] : c \in index.chunks} \cap Matching

\* The query, and in another statement the state of the index; or the full-text
\* search fails.
Query ==
    /\ question.step = "query"
    /\ \/ question' = [question EXCEPT !.hits = Hits, !.step = "state"]
       \/ question' = [question EXCEPT !.step = IF question.mode = "auto" THEN "server" ELSE "semantic"]
    /\ UNCHANGED others

State ==
    /\ question.step = "state"
    /\ question' = [question EXCEPT !.whole = AbsenceProven, !.step = "semantic"]
    /\ UNCHANGED others

\* The candidates of the vectors have no threshold: all mails with a vector are
\* near.
Near == {c[1] : c \in embeddings}

\* The model may fail.
Semantic ==
    /\ question.step = "semantic"
    /\ \E near \in {{}, Near} :
         /\ question.semantic = "missing" => near = {}
         /\ question' = [question EXCEPT !.near = near, !.step = "fuse"]
    /\ UNCHANGED others

\* _semantic_details: a candidate the newest generation no longer has is left out.
Detailed(near) == near \cap index.mails

\* _fuse: lexical hits and semantic candidates become one list.
Results == question.hits \cup Detailed(question.near)

Fuse ==
    /\ question.step = "fuse"
    /\ \E located \in BOOLEAN :
         /\ Results = {} => located
         /\ IF ~located /\ question.mode = "auto"
            THEN question' = [question EXCEPT !.step = "server"]
            ELSE Answer(Results, question.whole /\ question.eligible /\ located)
    /\ UNCHANGED others

\* search_messages: every folder is asked, and some may fail or be cut.
Found == SUBSET (post.here \cap Matching)

\* _server_result: what it does not find proves nothing; all folders failing is an error.
Server ==
    /\ question.step = "server"
    /\ \/ \E found \in Found : Answer(found, FALSE)
       \/ question' = [question EXCEPT !.step = "answered", !.decision = "error"]
    /\ UNCHANGED others

-----------------------------------------------------------------------------
Next ==
    \/ Arrive \/ Leave \/ Project \/ Age \/ Import
    \/ Candidates \/ StoreBatch \/ Unavailable
    \/ Ask \/ Status \/ Query \/ State \/ Semantic \/ Fuse \/ Server

Spec == Init /\ [][Next]_vars

(***************************************************************************)
(* "There is no such mail": when a search denies, no mail with these words   *)
(* that has a text, and was in the index when its status was read, is still  *)
(* in the mailbox, although status, query, state and vectors were read       *)
(* apart: as long as no more than one import came between them.  (With two,  *)
(* the first with a hole, the query sees the hole and the state does not.)   *)
(***************************************************************************)
NegativeIsProven ==
    question.decision = "no-match" /\ question.passed =< 1
        => question.base \cap post.here \cap Matching \cap Written = {}

(***************************************************************************)
(* The status calls the vectors ready only when every chunk of the           *)
(* generation has one, whatever imports and builds came across each other.   *)
(***************************************************************************)
ReadyMeansEmbedded == SemanticState = "ready" => index.chunks \subseteq embeddings

(***************************************************************************)
(* "A local empty result proves absence only when index.absence_proven is    *)
(* true" (docs/SEARCH.md:150): a search that denies has looked at every mail *)
(* of its index.  It has not looked at mails without a body: they have no    *)
(* chunk, and no row in the full-text table for their subject and sender: the *)
(* code does not keep it.                                                    *)
(***************************************************************************)
AbsenceIsTrue ==
    question.decision = "no-match" => question.base \cap post.here \cap Matching = {}
=============================================================================
