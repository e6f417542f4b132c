---------------------------- MODULE ActionPlans ----------------------------
(***************************************************************************)
(* Action plans: the only way in which the assistant writes to Nextcloud.  *)
(* A plan is a row of assistant.sqlite3, found by its idempotency key; it  *)
(* is proposed or approved when it is made, approved by the user or by a   *)
(* narrow rule, executed against the server and then completed or failed.  *)
(* The gateway, the CLI and the mail bridge are processes of their own on  *)
(* the same database.  Each of their database transactions and requests is *)
(* a step here, so that they interleave, crash and lose answers.           *)
(*                                                                         *)
(* Not modelled: the audit rows, the payload files, and what a server does *)
(* to the text it stores.  update_action() reads the row back right after  *)
(* its commit; the two are one step.                                       *)
(***************************************************************************)
EXTENDS Naturals

CONSTANTS
    Plans,         \* idempotency keys; a row's id stands and falls with its key
    Clients,       \* processes with a connection to the database
    Objects,       \* paths and hrefs on the server
    Contents,      \* what an object may hold
    Nothing,       \* the content of an object that does not exist
    Kind,          \* [Plans -> Kinds]
    Target,        \* [Plans -> Objects], the object a plan writes
    Source,        \* [Plans -> Objects], what a move moves (else the target)
    Body,          \* [Plans -> Contents], what a plan writes
    NeedsApproval, \* plans for which the policy requires an approval
    Routes,        \* the entry points in use
    MaxEdits, MaxFaults, MaxCrashes  \* bounds on what the surroundings do

Kinds == {"file", "folder", "move", "event", "item", "update", "register"}

\* The entry points that first make (or find) a plan, and the two of the CLI
\* that take the id of one.
Planners == {"workspace", "tool", "archive", "command", "register"}
Entries == Planners \cup {"approve", "execute"}

Serves(r, p) ==
    CASE r = "workspace" -> Kind[p] \in {"file", "folder", "move"}
      [] r = "tool"      -> Kind[p] \in {"event", "item", "update"}
      [] r = "archive"   -> Kind[p] = "file"
      [] r = "command"   -> Kind[p] = "event"
      [] r = "register"  -> Kind[p] = "register"
      [] OTHER           -> TRUE

ASSUME PlanAssumption ==
    /\ Plans # {} /\ Routes # {}
    /\ Nothing \notin Contents
    /\ Kind \in [Plans -> Kinds]
    /\ Target \in [Plans -> Objects]
    /\ Source \in [Plans -> Objects]
    /\ Body \in [Plans -> Contents]
    /\ NeedsApproval \subseteq Plans
    /\ \A p \in Plans : Kind[p] = "register" => p \notin NeedsApproval
    /\ Routes \subseteq Entries
    /\ {MaxEdits, MaxFaults, MaxCrashes} \subseteq Nat

VARIABLES
    status,   \* [Plans -> status of the row, "absent" before it is made]
    remote,   \* [Objects -> content on the server]
    version,  \* [Plans -> "none", "current" or "stale"]: whether the ETag an
              \* update was planned with is still that of its object
    pc,       \* [Clients -> where the call is; at rest, how it ended]
    job,      \* [Clients -> the plan of the call]
    route,    \* [Clients -> the entry point of the call]
    etag,     \* [Clients -> BOOLEAN]: the ETag it read is still the current one
    granted,  \* plans somebody approved
    applied,  \* plans whose effect came to the server, or was found there
    edits, faults, crashes

row == <<status, granted>>
server == <<remote, version, etag, applied>>
call == <<job, route>>
budget == <<edits, faults, crashes>>
vars == <<status, remote, version, pc, job, route, etag, granted, applied,
          edits, faults, crashes>>

Rest == {"idle", "ok", "duplicate", "failed", "refused"}
Places == Rest \cup
    {"plan", "approve", "grant", "review", "reconcile", "reopen", "reject",
     "adopt", "complete", "check", "load", "mark", "etag", "send", "finish", "fail", "finished"}
Statuses == {"absent", "proposed", "approved", "executing", "completed", "failed"}

Init ==
    /\ status = [p \in Plans |-> "absent"]
    /\ remote \in [Objects -> Contents \cup {Nothing}]
    /\ version = [p \in Plans |-> "none"]
    /\ pc = [c \in Clients |-> "idle"]
    /\ job = [c \in Clients |-> CHOOSE p \in Plans : TRUE]
    /\ route = [c \in Clients |-> CHOOSE r \in Routes : TRUE]
    /\ etag = [c \in Clients |-> FALSE]
    /\ granted = {} /\ applied = {}
    /\ edits = 0 /\ faults = 0 /\ crashes = 0

Goto(c, place) == pc' = [pc EXCEPT ![c] = place]
SetStatus(p, s) == status' = [status EXCEPT ![p] = s]

\* A fault is a database error, a request that fails or an answer that is lost.
Fault == faults < MaxFaults /\ faults' = faults + 1 /\ UNCHANGED <<edits, crashes>>

-----------------------------------------------------------------------------
(* The server. *)

Exists(o) == remote[o] # Nothing

\* The objects in changed hold new content: every ETag of them is outdated.
Outdate(changed) ==
    /\ version' = [p \in Plans |->
                      IF Target[p] \in changed /\ version[p] = "current"
                      THEN "stale" ELSE version[p]]
    /\ etag' = [c \in Clients |-> etag[c] /\ Target[job[c]] \notin changed]

\* The state a completed plan promises, as far as the code asks for it.
Holds(p) ==
    CASE Kind[p] \in {"folder", "item"} -> Exists(Target[p])
      [] Kind[p] = "move" -> Exists(Target[p]) /\ ~Exists(Source[p])
      [] OTHER            -> remote[Target[p]] = Body[p]

\* Whether a completed plan that does not hold may simply be executed again.
Repeatable(p) ==
    /\ ~Exists(Target[p])
    /\ Kind[p] # "update"
    /\ Kind[p] = "move" => Exists(Source[p])

\* Variant: PUT and MOVE without their conditions.
AcceptsAlways(c, p) == TRUE

\* The condition under which the server accepts the request of client c.
Accepts(c, p) ==
    CASE Kind[p] \in {"file", "event", "item"} -> ~Exists(Target[p])
      [] Kind[p] = "folder"   -> TRUE
      [] Kind[p] = "move"     -> Exists(Source[p]) /\ ~Exists(Target[p])
      [] Kind[p] = "update"   -> version[p] = "current"
      [] Kind[p] = "register" -> etag[c]

Written(p) ==
    CASE Kind[p] = "move" -> [remote EXCEPT ![Target[p]] = remote[Source[p]],
                                            ![Source[p]] = Nothing]
      [] Kind[p] = "folder" /\ Exists(Target[p]) -> remote
      [] OTHER -> [remote EXCEPT ![Target[p]] = Body[p]]

Apply(p) ==
    /\ remote' = Written(p)
    /\ Outdate({o \in {Target[p], Source[p]} : Kind[p] # "folder" \/ ~Exists(o)})
    /\ applied' = applied \cup {p}

\* The user, a phone or another program changes an object.
Edit(o) ==
    /\ edits < MaxEdits
    /\ edits' = edits + 1
    /\ \E content \in (Contents \cup {Nothing}) \ {remote[o]} :
          remote' = [remote EXCEPT ![o] = content]
    /\ Outdate({o})
    /\ UNCHANGED <<row, pc, call, applied, faults, crashes>>

-----------------------------------------------------------------------------
(* The entry points: what each does with the status of the row it made, found, *)
(* or has just asked to be approved.  An operator called a variant in its      *)
(* comment is the mutated form of the definition after it.                     *)

WorkspaceTool(s) == IF s \in {"approved", "completed"} THEN "review" ELSE "refused"

GroupwareTool(s) ==
    CASE s \in {"proposed", "failed"}    -> "approve"
      [] s \in {"approved", "completed"} -> "review"
      [] OTHER                           -> "refused"

ArchiveInvoice(s) ==
    CASE s = "completed" -> "duplicate"
      [] s = "approved"  -> "load"
      [] OTHER           -> "refused"

TrustedCommand(s) ==
    CASE s = "completed" -> "duplicate"
      [] s = "proposed"  -> "approve"
      [] s = "approved"  -> "load"
      [] OTHER           -> "refused"

\* Variant: a failed register is not tried again.
SyncRegisterOnce(s) == IF s \in {"approved", "completed"} THEN "review" ELSE "refused"

SyncRegister(s) ==
    CASE s = "failed"                    -> "approve"
      [] s \in {"approved", "completed"} -> "review"
      [] OTHER                           -> "refused"

Onward(r, s) ==
    CASE r = "workspace" -> WorkspaceTool(s)
      [] r = "tool"      -> GroupwareTool(s)
      [] r = "archive"   -> ArchiveInvoice(s)
      [] r = "command"   -> TrustedCommand(s)
      [] r = "register"  -> SyncRegister(s)

\* After an approval that left (or found) the row at s.
Resume(r, s) ==
    CASE r = "approve" -> "ok"
      [] r = "command" -> IF s = "approved" THEN "load" ELSE "refused"
      [] OTHER         -> WorkspaceTool(s)

\* A call starts.  Planning an update reads its object first; the ETag is part
\* of the key, so a later call comes to the same plan only while it is current.
Begin(c) ==
    \E p \in Plans, r \in Routes :
        /\ pc[c] \in Rest
        /\ Serves(r, p)
        /\ job' = [job EXCEPT ![c] = p]
        /\ route' = [route EXCEPT ![c] = r]
        /\ etag' = [etag EXCEPT ![c] = FALSE]
        /\ CASE r = "approve" -> status[p] # "absent" /\ Goto(c, "approve")
             [] r = "execute" -> status[p] # "absent" /\ Goto(c, "load")
             [] OTHER         -> Goto(c, "plan")
        /\ IF Kind[p] = "update" /\ r \in Planners
           THEN /\ Exists(Target[p]) /\ version[p] # "stale"
                /\ version' = [version EXCEPT ![p] = "current"]
           ELSE UNCHANGED version
        /\ UNCHANGED <<row, remote, applied, budget>>

\* create_action(): insert or ignore, then read the row of the key.
Plan(c) ==
    LET p == job[c]
        s == IF status[p] # "absent" THEN status[p]
             ELSE IF p \in NeedsApproval THEN "proposed" ELSE "approved"
    IN  /\ pc[c] = "plan"
        /\ SetStatus(p, s)
        /\ Goto(c, Onward(route[c], s))
        /\ UNCHANGED <<granted, server, call, budget>>

\* The rows an approval changes; the register's retry takes failed ones only.
Approvable(r) == IF r = "register" THEN {"failed"} ELSE {"proposed", "failed"}

Approve(c) ==
    /\ pc[c] = "approve"
    /\ LET s == status[job[c]] IN
          Goto(c, IF s \in Approvable(route[c]) THEN "grant" ELSE Resume(route[c], s))
    /\ UNCHANGED <<row, server, call, budget>>

Grant(c) ==
    /\ pc[c] = "grant"
    /\ SetStatus(job[c], "approved")
    /\ granted' = IF route[c] = "register" THEN granted ELSE granted \cup {job[c]}
    /\ Goto(c, Resume(route[c], "approved"))
    /\ UNCHANGED <<server, call, budget>>

-----------------------------------------------------------------------------
(* execute_workspace() and its siblings compare a completed plan with the      *)
(* server before they believe it; a calendar event is also looked for first.   *)

Review(c) ==
    /\ pc[c] = "review"
    /\ LET s == status[job[c]] IN
          Goto(c, CASE s = "completed" -> "reconcile"
                    [] s = "approved" /\ Kind[job[c]] = "event" -> "adopt"
                    [] OTHER -> "load")
    /\ UNCHANGED <<row, server, call, budget>>

\* What the comparison of a completed plan with the server leads to; an update
\* whose object is gone ends in the error of the read.
Verdict(p) ==
    CASE Kind[p] = "event" -> IF Exists(Target[p]) THEN "check" ELSE "reopen"
      [] Kind[p] = "update" /\ ~Exists(Target[p]) -> "failed"
      [] Kind[p] # "event" /\ Holds(p) -> "duplicate"
      [] Kind[p] # "event" /\ Repeatable(p) -> "reopen"
      [] OTHER -> "reject"

Reconcile(c) ==
    /\ pc[c] = "reconcile"
    /\ Goto(c, Verdict(job[c]))
    /\ UNCHANGED <<row, server, call, budget>>

\* A calendar event whose object is gone is executed again; if it is back by
\* the time of the second look it is adopted.
Reopen(c) ==
    /\ pc[c] = "reopen"
    /\ SetStatus(job[c], "approved")
    /\ Goto(c, IF Kind[job[c]] = "event" THEN "adopt" ELSE "load")
    /\ UNCHANGED <<granted, server, call, budget>>

Reject(c) ==
    /\ pc[c] = "reject"
    /\ SetStatus(job[c], "failed")
    /\ Goto(c, "failed")
    /\ UNCHANGED <<granted, server, call, budget>>

\* event_exists(), then the row is completed before its content is compared.
Adopt(c) ==
    /\ pc[c] = "adopt"
    /\ Goto(c, IF Exists(Target[job[c]]) THEN "complete" ELSE "load")
    /\ UNCHANGED <<row, server, call, budget>>

Complete(c) ==
    /\ pc[c] = "complete"
    /\ SetStatus(job[c], "completed")
    /\ Goto(c, "check")
    /\ UNCHANGED <<granted, server, call, budget>>

\* verify_calendar_create(): read by UID and compare; an error is a mismatch.
Check(c) ==
    LET p == job[c] IN
    /\ pc[c] = "check"
    /\ IF Holds(p) THEN Goto(c, "duplicate") /\ applied' = applied \cup {p}
                   ELSE Goto(c, "reject") /\ UNCHANGED applied
    /\ UNCHANGED <<row, remote, version, etag, call, budget>>

ReadError(c) ==
    /\ \/ pc[c] \in {"reconcile", "adopt"} /\ Goto(c, "failed")
       \/ pc[c] = "check" /\ Goto(c, "reject")
    /\ Fault
    /\ UNCHANGED <<row, server, call>>

-----------------------------------------------------------------------------
(* execute(). *)

\* Variant: execute() does not test the status.
LoadAnything(c) ==
    /\ pc[c] = "load"
    /\ Goto(c, IF status[job[c]] = "completed" THEN "finished" ELSE "mark")
    /\ UNCHANGED <<row, server, call, budget>>

\* get_action(): only an approved plan goes on.
Load(c) ==
    /\ pc[c] = "load"
    /\ LET s == status[job[c]] IN
          Goto(c, CASE s = "completed" -> "finished"
                    [] s = "approved"  -> "mark"
                    [] OTHER           -> "refused")
    /\ UNCHANGED <<row, server, call, budget>>

\* The policy may have been tightened since the plan was made.
Deny(c) ==
    /\ pc[c] = "mark"
    /\ SetStatus(job[c], "failed")
    /\ Goto(c, "failed")
    /\ Fault
    /\ UNCHANGED <<granted, server, call>>

\* Variant: the row is completed before the request.
MarkCompleted(c) ==
    /\ pc[c] = "mark"
    /\ SetStatus(job[c], "completed")
    /\ Goto(c, "send")
    /\ UNCHANGED <<granted, server, call, budget>>

Mark(c) ==
    /\ pc[c] = "mark"
    /\ SetStatus(job[c], "executing")
    /\ Goto(c, IF Kind[job[c]] = "register" THEN "etag" ELSE "send")
    /\ UNCHANGED <<granted, server, call, budget>>

\* The managed register alone asks for the ETag it is going to replace.
ReadETag(c) ==
    /\ pc[c] = "etag"
    /\ etag' = [etag EXCEPT ![c] = TRUE]
    /\ Goto(c, "send")
    /\ UNCHANGED <<row, remote, version, applied, call, budget>>

Send(c) ==
    /\ pc[c] = "send"
    /\ Accepts(c, job[c])
    /\ Apply(job[c])
    /\ Goto(c, "finish")
    /\ UNCHANGED <<row, call, budget>>

SendRefused(c) ==
    /\ pc[c] = "send"
    /\ ~Accepts(c, job[c])
    /\ Goto(c, "fail")
    /\ UNCHANGED <<row, server, call, budget>>

\* The server did it, the answer (or the read that follows) did not come.
AnswerLost(c) ==
    /\ pc[c] = "send"
    /\ Accepts(c, job[c])
    /\ Apply(job[c])
    /\ Goto(c, "fail")
    /\ Fault
    /\ UNCHANGED <<row, call>>

RequestLost(c) ==
    /\ pc[c] \in {"etag", "send"}
    /\ Goto(c, "fail")
    /\ Fault
    /\ UNCHANGED <<row, server, call>>

\* Any error up to the audit row after the commit ends in the handler.
Finish(c) ==
    /\ pc[c] = "finish"
    /\ SetStatus(job[c], "completed")
    /\ \/ Goto(c, "finished") /\ UNCHANGED budget
       \/ Goto(c, "fail") /\ Fault
    /\ UNCHANGED <<granted, server, call>>

FinishError(c) ==
    /\ pc[c] = "finish"
    /\ Goto(c, "fail")
    /\ Fault
    /\ UNCHANGED <<row, server, call>>

Fail(c) ==
    /\ pc[c] = "fail"
    /\ SetStatus(job[c], "failed")
    /\ Goto(c, "failed")
    /\ UNCHANGED <<granted, server, call, budget>>

\* The direct calendar tool reads its event back before it reports success.
ReadBack(c) ==
    /\ pc[c] = "finished"
    /\ Goto(c, IF route[c] = "tool" /\ Kind[job[c]] = "event" /\ ~Holds(job[c])
                THEN "failed" ELSE "ok")
    /\ UNCHANGED <<row, server, call, budget>>

\* The process dies, or a database error escapes; nothing is undone.
Crash(c) ==
    /\ pc[c] \notin Rest
    /\ crashes < MaxCrashes
    /\ crashes' = crashes + 1
    /\ Goto(c, "idle")
    /\ UNCHANGED <<row, server, call, edits, faults>>

Proceed(c) ==
    \/ Plan(c) \/ Approve(c) \/ Grant(c)
    \/ Review(c) \/ Reconcile(c) \/ Reopen(c) \/ Reject(c)
    \/ Adopt(c) \/ Complete(c) \/ Check(c)
    \/ Load(c) \/ Mark(c) \/ ReadETag(c) \/ Send(c) \/ SendRefused(c)
    \/ Finish(c) \/ Fail(c) \/ ReadBack(c)

Trouble(c) ==
    \/ ReadError(c) \/ Deny(c) \/ AnswerLost(c) \/ RequestLost(c)
    \/ FinishError(c) \/ Crash(c)

Next ==
    \/ \E c \in Clients : Begin(c) \/ Proceed(c) \/ Trouble(c)
    \/ \E o \in Objects : Edit(o)

Spec == Init /\ [][Next]_vars

\* A call that has begun goes on, and the invoice run starts another one.
FairSpec == Spec /\ \A c \in Clients : WF_vars(Proceed(c)) /\ WF_vars(Begin(c))

-----------------------------------------------------------------------------
(* Properties. *)

TypeOK ==
    /\ status \in [Plans -> Statuses]
    /\ remote \in [Objects -> Contents \cup {Nothing}]
    /\ version \in [Plans -> {"none", "current", "stale"}]
    /\ pc \in [Clients -> Places]
    /\ job \in [Clients -> Plans]
    /\ route \in [Clients -> Routes]
    /\ etag \in [Clients -> BOOLEAN]
    /\ granted \subseteq Plans
    /\ applied \subseteq Plans
    /\ edits \in 0 .. MaxEdits /\ faults \in 0 .. MaxFaults /\ crashes \in 0 .. MaxCrashes

\* A write that needs an approval reaches the server only after somebody gave
\* it, whatever processes try and retry the plan (execute() and the approvals).
EffectsAreApproved == applied \cap NeedsApproval \subseteq granted

\* A plan is marked completed only when its effect came to the server or was
\* found there; the exception is the row adopt() completed ahead of its check.
CompletedWasDone ==
    \A p \in Plans : status[p] = "completed" =>
        \/ p \in applied \/ crashes > 0
        \/ \E c \in Clients : job[c] = p /\ pc[c] \in {"check", "reject"}

\* A row is left executing, where no approval or retry ever takes it up again,
\* only by a process that died.
ExecutingHasExecutor ==
    \A p \in Plans : status[p] = "executing" =>
        \/ crashes > 0
        \/ \E c \in Clients : job[c] = p /\ pc[c] \in {"etag", "send", "finish", "fail"}

\* A row tells the truth about its effect, however calls, retries and adoptions of
\* one plan cross each other (ActionService.execute, adopt and the reconciliations).
StatusIsTrue == CompletedWasDone /\ ExecutingHasExecutor

\* An update comes to the server once, however many calls execute its plan:
\* from then on its ETag is outdated.
UpdateOnce ==
    \A p \in applied : Kind[p] = "update" => version[p] = "stale"

\* What stands on the server is replaced only by an update planned on exactly
\* that content, by the managed register, or moved where there was nothing.
NothingOverwritten ==
    [][\A o \in Objects : Exists(o) /\ remote'[o] # remote[o] /\ edits' = edits =>
          \E p \in Plans :
             \/ Kind[p] = "update" /\ Target[p] = o /\ version[p] = "current"
             \/ Kind[p] = "register" /\ Target[p] = o
             \/ Kind[p] = "move" /\ Source[p] = o /\ remote'[Target[p]] = remote[o]
                /\ ~Exists(Target[p])]_vars

\* The server's word counts: nothing is replaced that no plan has seen, and an update
\* is not sent twice over the same ETag.
ServerIsRespected == []UpdateOnce /\ NothingOverwritten

=============================================================================
