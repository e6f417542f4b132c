-------------------------- MODULE ActionObligation --------------------------
(***************************************************************************)
(* What the agent was asked to do in a turn, and what it may say about it:   *)
(* the gateway plugin (docker/openclaw-personal-assistant-plugin) binds a    *)
(* turn to an obligation, advances it by evidence of tool calls only         *)
(* (personal_assistant/action_completion.py is its twin in Python), binds    *)
(* every write to one agreement of the user and replaces an answer that the  *)
(* evidence does not cover.  The vertical workflow is the entry of flights   *)
(* of a mail into the calendar (personal_assistant/calendar_from_mail.py).   *)
(*                                                                          *)
(* The agent is free: it calls any tool in any order and says anything.  The *)
(* gateway may resume a bound call late, twice, or after a new turn began.   *)
(***************************************************************************)
EXTENDS Naturals, Sequences, FiniteSets

CONSTANTS
    Flights,        \* the flights the selected mail names
    Earlier,        \* those an earlier turn has entered
    Prompts,        \* what the user asks for
    Writes,         \* operations that write
    MaxTurns,       \* bound: turns of the session
    MaxBound,       \* bound: writes asked for
    MaxToolCalls,   \* calls of a turn before it is blocked
    MaxMishaps      \* bound: failing tools, expired agreements

VARIABLES
    entered,        \* flights in the calendar
    turns,          \* one record per run of the agent
    bound,          \* writes that were bound to an agreement; the index is the nonce
    ledger,         \* nonces that can still be consumed
    pending,        \* writes a plain "Ja" can still agree to
    slips

obligationVars == <<entered, turns, bound, ledger, pending, slips>>

Reads == {"search", "read", "preview"}
Texts == {"plain", "promise", "done"}

-----------------------------------------------------------------------------
(* The obligation *)

None == [kind |-> "none", step |-> "", target |-> 0, done |-> 0, calls |-> 0, end |-> ""]

\* buildActionObligation: only an instruction gives one.
Build(prompt) ==
    IF prompt \in {"flights", "entry"}
    THEN [None EXCEPT !.kind = "mail", !.step = "select-source",
                      !.target = IF prompt = "flights" THEN 2 ELSE 1]
    ELSE IF prompt \in {"send", "move"}
         THEN [None EXCEPT !.kind = "single", !.step = "resolve-target", !.target = 1]
         ELSE None

\* Steps and calls are of no interest any more.
Ends(o, end) == [o EXCEPT !.end = end, !.step = "", !.calls = 0]

MailSteps ==
    [s \in {"select-source", "read-source", "build-preview"} |->
        IF s = "select-source" THEN <<"search", "read-source">>
        ELSE IF s = "read-source" THEN <<"read", "build-preview">> ELSE <<"preview", "execute-one">>]

NextStep(o, op) ==
    IF o.kind = "mail"
    THEN IF o.step \in DOMAIN MailSteps /\ MailSteps[o.step][1] = op
         THEN MailSteps[o.step][2] ELSE ""
    ELSE IF o.step = "resolve-target" /\ op # "preview" THEN "execute-one" ELSE ""

\* A preview of fewer candidates than were asked for needs the user; one of
\* more raises the target.
AfterRead(o, op, candidates) ==
    IF NextStep(o, op) = "" THEN Ends(o, "blocked")
    ELSE IF op = "preview" /\ candidates < o.target THEN Ends(o, "information-required")
         ELSE [o EXCEPT !.step = NextStep(o, op),
                        !.target = IF op = "preview" THEN candidates ELSE @]

AfterWrite(o, op) ==
    IF (op = "create") # (o.kind = "mail") THEN Ends(o, "blocked")
    ELSE IF op = "draft" THEN Ends(o, "approval-required")
         ELSE IF o.step \notin {"resolve-target", "execute-one"} THEN Ends(o, "blocked")
              ELSE IF o.done + 1 >= o.target
                   THEN Ends([o EXCEPT !.done = @ + 1], "completed")
                   ELSE [o EXCEPT !.step = "execute-one", !.done = @ + 1]

\* advanceActionObligation: by what a tool call of its turn has shown.
Advance(o, op, result, candidates) ==
    IF o.kind = "none" \/ o.end # "" THEN o
    ELSE IF o.calls >= MaxToolCalls THEN Ends(o, "blocked")
         ELSE LET counted == [o EXCEPT !.calls = @ + 1]
              IN IF result = "refused" THEN Ends(counted, "approval-required")
                 ELSE IF result = "failed" THEN Ends(counted, "blocked")
                      ELSE IF op \in Reads THEN AfterRead(counted, op, candidates)
                           ELSE AfterWrite(counted, op)

-----------------------------------------------------------------------------
(* Turns *)

Now == Len(turns)
Running == Now > 0 /\ turns[Now].sent = <<>>

\* A run waits for the dialog and the result of its call, and gives up on a
\* dialog that ran out.
Free ==
    /\ Running
    /\ \A n \in 1..Len(bound) : bound[n].run = Now =>
            bound[n].said # "" /\ (bound[n].said = "allow" => bound[n].tries > 0)

Slip == slips < MaxMishaps /\ slips' = slips + 1

Turn(prompt, confirmed) ==
    [prompt |-> prompt, confirmed |-> confirmed, obligation |-> Build(prompt),
     seen |-> <<>>, evidence |-> {}, revised |-> FALSE, sent |-> <<>>]

Init ==
    /\ entered = Earlier
    /\ turns = <<>> /\ bound = <<>> /\ ledger = {} /\ pending = {}
    /\ slips = 0

\* before_prompt_build.  A plain "Ja" takes up the one write that waits for it,
\* with the prompt it came from; with none or several it is only talk.
BeforePromptBuild(prompt) ==
    /\ ~Running /\ Now < MaxTurns
    /\ IF prompt = "ja"
       THEN turns' = Append(turns, IF Cardinality(pending) = 1
                                   THEN LET it == CHOOSE p \in pending : TRUE
                                        IN Turn(it.prompt, <<[it EXCEPT !.prompt = ""]>>)
                                   ELSE Turn("chat", <<>>))
       ELSE turns' = Append(turns, Turn(prompt, <<>>))
    /\ UNCHANGED <<entered, bound, ledger, pending, slips>>

\* A pending confirmation runs out.
ForgetConfirmation ==
    /\ \E p \in pending : pending' = pending \ {p}
    /\ Slip
    /\ UNCHANGED <<entered, turns, bound, ledger>>

Evidence(op, result) == [wrote |-> op \in Writes /\ result = "verified"]

Records(run, op, result, candidates) ==
    [turns EXCEPT ![run].obligation = Advance(@, op, result, candidates),
                  ![run].evidence = IF turns[run].sent = <<>> THEN @ \cup {Evidence(op, result)} ELSE {}]

\* A read needs no agreement; a preview shows which candidates are in the
\* calendar already, and its digest covers that.  Where nothing is open, one
\* read stands for all.
Read(op) ==
    /\ Free
    /\ turns[Now].obligation.kind = "none" \/ turns[Now].obligation.end # "" => turns[Now].evidence = {}
    /\ \E result \in {"verified", "failed"} :
        /\ IF result = "failed" THEN Slip ELSE UNCHANGED slips
        /\ turns' = [Records(Now, op, result, Cardinality(Flights))
                     EXCEPT ![Now].seen = IF op = "preview" /\ result = "verified" THEN <<entered>> ELSE @]
    /\ UNCHANGED <<entered, bound, ledger, pending>>

-----------------------------------------------------------------------------
(* Agreements *)

Arguments == {a \in [op : Writes, flight : Flights \cup {0}, seen : SUBSET Flights] :
                (a.op = "create") = (a.flight # 0) /\ (a.op # "create" => a.seen = {})}

\* approvalDecision: what was confirmed with the same arguments, or an
\* instruction that names every argument; sending always asks.
Authorized(turn, a) ==
    \/ a.op # "send" /\ turn.confirmed = <<[op |-> a.op, flight |-> a.flight, seen |-> a.seen, prompt |-> ""]>>
    \/ a.op = turn.prompt /\ a.op = "move"

Waiting(a, turn) == [op |-> a.op, flight |-> a.flight, seen |-> a.seen, prompt |-> turn.prompt]

\* before_tool_call of a write: bound to a nonce, agreed to already or asked for.
BeforeToolCall(a) ==
    /\ Free /\ Len(bound) < MaxBound
    /\ a.op = "create" => \E t \in 1..Now : turns[t].seen = <<a.seen>>
    /\ LET agreed == Authorized(turns[Now], a)
       IN /\ bound' = Append(bound, [op |-> a.op, flight |-> a.flight, seen |-> a.seen, run |-> Now,
                                     said |-> IF agreed THEN "allow" ELSE "", ran |-> 0, tries |-> 0])
          /\ pending' = IF agreed THEN {p \in pending : turns[Now].confirmed # <<[p EXCEPT !.prompt = ""]>>}
                        ELSE IF a.op = "send" THEN pending
                             ELSE {p \in pending : <<p.op, p.flight, p.seen>> # <<a.op, a.flight, a.seen>>}
                                    \cup {Waiting(a, turns[Now])}
          /\ turns' = IF agreed THEN [turns EXCEPT ![Now].confirmed = <<>>] ELSE turns
    /\ ledger' = ledger \cup {Len(bound) + 1}
    /\ UNCHANGED <<entered, slips>>

Revoked(n, said) == IF said = "allow" THEN ledger ELSE ledger \ {n}

\* onResolution
Resolve(n, said) ==
    /\ bound[n].said = ""
    /\ bound' = [bound EXCEPT ![n].said = said]
    /\ ledger' = Revoked(n, said)
    /\ pending' = IF said = "timeout" THEN pending
                  ELSE pending \ {Waiting(bound[n], turns[bound[n].run])}
    /\ UNCHANGED <<entered, turns, slips>>

Expire(n) ==
    /\ n \in ledger /\ Slip
    /\ ledger' = ledger \ {n}
    /\ UNCHANGED <<entered, turns, bound, pending>>

-----------------------------------------------------------------------------
(* Writes *)

\* Mutant: the nonce can be used until it expires.
ConsumedStays(n) == ledger

Consumed(n) == ledger \ {n}

\* The run a call was bound in, whichever turn it is resumed in.
RunOf(n) == bound[n].run

\* select_unchanged_candidate: the preview is made again, with what is in the
\* calendar by now, and must be the one that was shown.
Unchanged(n) == bound[n].op = "create" => bound[n].seen = entered

\* executeOperation: a write the ledger does not know ends the obligation; one
\* that fails may have reached the calendar.  A call that is resumed once more,
\* or without an agreement, is a mishap of the gateway.
ExecuteOperation(n) ==
    /\ bound[n].said # ""
    /\ bound[n].tries > 0 \/ bound[n].said # "allow" => slips < MaxMishaps
    /\ ledger' = Consumed(n)
    /\ \E result \in {"refused", "verified", "failed"} :
        /\ (result = "refused") = (n \notin ledger)
        /\ result = "verified" => Unchanged(n)
        /\ IF bound[n].tries > 0 \/ bound[n].said # "allow" \/ (result = "failed" /\ Unchanged(n))
           THEN Slip ELSE UNCHANGED slips
        /\ bound' = [bound EXCEPT ![n].tries = @ + 1, ![n].ran = @ + IF result = "refused" THEN 0 ELSE 1]
        /\ turns' = Records(RunOf(n), bound[n].op, result, 0)
        /\ \E reached \in BOOLEAN :
            /\ reached => result # "refused" /\ Unchanged(n) /\ bound[n].op = "create"
            /\ result = "verified" /\ bound[n].op = "create" => reached
            /\ entered' = IF reached THEN entered \cup {bound[n].flight} ELSE entered
    /\ UNCHANGED pending

-----------------------------------------------------------------------------
(* The answer *)

\* guardActionCompletion
ActionIssue(o, text) ==
    \/ o.kind = "none" /\ text = "promise"
    \/ o.kind # "none" /\ o.end = ""
    \/ o.end \in {"approval-required", "information-required", "blocked"} /\ text = "promise"
    \/ o.end = "approval-required" /\ text = "done"

Shown(turn) == \E e \in turn.evidence : e.wrote

\* guardAnswer: success is claimed only with evidence of a write.
EvidenceIssue(turn, text) == turn.evidence = {} \/ (text = "done" /\ ~Shown(turn))

Issues(turn, text) ==
    turn.prompt # "chat" /\ (EvidenceIssue(turn, text) \/ ActionIssue(turn.obligation, text))

\* before_agent_finalize: one revision of the answer.
BeforeAgentFinalize(text) ==
    /\ Free /\ Issues(turns[Now], text) /\ ~turns[Now].revised
    /\ turns' = [turns EXCEPT ![Now].revised = TRUE]
    /\ UNCHANGED <<entered, bound, ledger, pending, slips>>

\* reply_payload_sending: what is still not covered is replaced, and an open
\* obligation ends blocked.
ReplyPayloadSending(text) ==
    /\ Free /\ (Issues(turns[Now], text) => turns[Now].revised)
    /\ LET turn == turns[Now]
           o == turn.obligation
           covered == ~Issues(turn, text)
       IN turns' = [turns EXCEPT ![Now].sent = <<IF covered THEN text ELSE "replaced">>,
                                 ![Now].evidence = {}, ![Now].revised = FALSE, ![Now].confirmed = <<>>,
                                 ![Now].obligation = IF ~covered /\ o.kind # "none" /\ o.end = ""
                                                     THEN Ends(o, "blocked") ELSE o]
    /\ UNCHANGED <<entered, bound, ledger, pending, slips>>

\* The gateway ends a run without an answer; its dialogs stay open.
Abort ==
    /\ Running /\ Slip
    /\ turns' = [turns EXCEPT ![Now].sent = <<"aborted">>, ![Now].evidence = {}, ![Now].revised = FALSE,
                              ![Now].confirmed = <<>>]
    /\ UNCHANGED <<entered, bound, ledger, pending>>

Next ==
    \/ Abort
    \/ \E prompt \in Prompts : BeforePromptBuild(prompt)
    \/ ForgetConfirmation
    \/ \E op \in Reads : Read(op)
    \/ \E a \in Arguments : BeforeToolCall(a)
    \/ \E n \in 1..Len(bound) : Expire(n) \/ ExecuteOperation(n)
    \/ \E n \in 1..Len(bound), said \in {"allow", "deny", "timeout"} : Resolve(n, said)
    \/ \E text \in Texts : BeforeAgentFinalize(text) \/ ReplyPayloadSending(text)

Spec == Init /\ [][Next]_obligationVars

-----------------------------------------------------------------------------
(* Properties *)

\* A write happens at most once for every agreement of the user, and never for
\* a dialog that was refused or ran out, whenever the gateway resumes the call
\* (createApprovalLedger, executeOperation).
AgreedOnce ==
    \A n \in 1..Len(bound) : bound[n].ran <= 1 /\ (bound[n].ran = 1 => bound[n].said = "allow")

\* What counts for a turn was done by a call of that turn: nothing a late call
\* of an earlier turn achieves completes the obligation of a later one
\* (recordActionEvidence with the bound run).
CreditedInItsTurn ==
    \A t \in 1..Now :
        turns[t].obligation.done <= Cardinality({n \in 1..Len(bound) : bound[n].run = t /\ bound[n].ran > 0})

\* An answer that says it is done leaves the plugin only in a turn of which a
\* write is proved, and no answered turn leaves its obligation open.
AnswersAreCovered ==
    \A t \in 1..Now :
        turns[t].sent \notin {<<>>, <<"aborted">>} /\ turns[t].prompt # "chat" =>
            /\ turns[t].sent = <<"done">> =>
                    \E n \in 1..Len(bound) : bound[n].run = t /\ bound[n].ran > 0
            /\ turns[t].obligation.kind # "none" => turns[t].obligation.end # ""

\* "Zwei erfolgreiche Creates liefern zwei unterschiedliche UIDs und einen
\* belegten Gesamtabschluss" (docs/AGENT_ACTION_COMPLETION_ROADMAP.md): a turn
\* that is completed has entered as many flights as it was asked for.  The code
\* does not keep it: two writes of one flight count as two.
AllAreEntered ==
    \A t \in 1..Now :
        turns[t].obligation.kind = "mail" /\ turns[t].obligation.end = "completed" =>
            Cardinality(entered) >= turns[t].obligation.target
=============================================================================
