---------------------------- MODULE CalendarMail ----------------------------
(***************************************************************************)
(* Appointments found in mails: the owner asks the user by mail, the user    *)
(* answers JA or NEIN, and only then the appointment is put into the         *)
(* calendar (mail_agent/calendar.py, mail_agent/nextcloud.py).  A command    *)
(* mail of the user is put there at once (mail_agent/assistant_bridge.py).   *)
(*                                                                          *)
(* One appointment, which is one UID, comes in several versions.  The mails  *)
(* are handled one at a time by the owner's process, which may be killed at  *)
(* every commit; the mail is then handled once more.                         *)
(***************************************************************************)
EXTENDS Naturals, Sequences, FiniteSets

CONSTANTS
    Versions,       \* fingerprints of the appointment
    MaxLetters,     \* bound: approvals asked for
    MaxReplies,     \* bound: answers of the user
    MaxMishaps      \* bound: failed requests, killed runs, entries of others, time passing

VARIABLES
    approvals,      \* table calendar_approvals: version, status, whether it has expired
    letters,        \* the approvals whose mail reached the user
    replies,        \* answers in the INBOX
    row,            \* table events, as a tuple of at most one
    calendar,       \* the version that is in the calendar, 0 for none
    commanded,      \* the command plan of each version
    owner,          \* what the owner's run does
    past,           \* the appointment has begun
    assent,         \* history: versions the user wanted
    removed,        \* history: the user took the appointment out of the calendar
    answers, mishaps

calendarVars ==
    <<approvals, letters, replies, row, calendar, commanded, owner, past, assent, removed, answers, mishaps>>

Waiting == [at |-> "idle", id |-> 0, version |-> 0, reply |-> <<>>, ok |-> FALSE]

Init ==
    /\ approvals = <<>> /\ letters = {} /\ replies = {}
    /\ row = <<>> /\ calendar = 0 /\ commanded = [v \in Versions |-> "proposed"]
    /\ owner = Waiting
    /\ past = FALSE /\ assent = {} /\ removed = FALSE
    /\ answers = 0 /\ mishaps = 0

Mishap == mishaps < MaxMishaps /\ mishaps' = mishaps + 1
At(place) == owner.at = place
Goes(place) == owner' = [owner EXCEPT !.at = place]
Becomes(id, status) == approvals' = [approvals EXCEPT ![id].status = status]
Entered(version) == row # <<>> /\ row[1] = [version |-> version, status |-> "created"]

-----------------------------------------------------------------------------
(* Asking *)

Open == {"sending", "pending", "approved-creating", "create-error"}

\* process, _request_approval: not for what has begun, what is entered already
\* and what was asked for; an approval that expired unanswered is still "pending".
RequestApproval(version) ==
    /\ At("idle") /\ ~past /\ Len(approvals) < MaxLetters
    /\ row # <<>> => row[1].status # "created"
    /\ \A n \in 1..Len(approvals) : approvals[n].version = version => approvals[n].status \notin Open
    /\ approvals' = Append(approvals, [version |-> version, status |-> "sending", late |-> FALSE])
    /\ owner' = [Waiting EXCEPT !.at = "ask", !.id = Len(approvals) + 1]
    /\ UNCHANGED <<letters, replies, row, calendar, commanded, past, assent, removed, answers, mishaps>>

\* A mail that is said not to have been sent may have been.
SendMail ==
    /\ At("ask")
    /\ \E ok \in BOOLEAN, sent \in BOOLEAN :
          /\ ok => sent
          /\ IF ok THEN mishaps' = mishaps ELSE Mishap
          /\ letters' = IF sent THEN letters \cup {owner.id} ELSE letters
          /\ owner' = [owner EXCEPT !.at = "asked", !.ok = ok]
    /\ UNCHANGED <<approvals, replies, row, calendar, commanded, past, assent, removed, answers>>

Asked ==
    /\ At("asked")
    /\ Becomes(owner.id, IF owner.ok THEN "pending" ELSE "send-error")
    /\ owner' = Waiting
    /\ UNCHANGED <<letters, replies, row, calendar, commanded, past, assent, removed, answers, mishaps>>

-----------------------------------------------------------------------------
(* The answer *)

Final == {"created", "rejected"}

\* Mutant: an answer is for the last approval.
MeantLast(reply) == Len(approvals)

\* The token in the subject names the approval.
Meant(reply) == reply.id

\* handle_approval_reply, up to the creation; what has its answer keeps it.
TakeReply(reply) ==
    /\ At("idle") /\ reply \in replies
    /\ LET id == Meant(reply)
           status == approvals[id].status
           waits == [Waiting EXCEPT !.id = id, !.reply = <<reply>>, !.version = approvals[id].version]
       IN  IF reply.yes /\ ~past /\ ~approvals[id].late /\ status \notin Final
           THEN Becomes(id, "approved-creating") /\ owner' = [waits EXCEPT !.at = "create"]
           ELSE /\ owner' = [waits EXCEPT !.at = "file"]
                /\ Becomes(id, IF status \in Final THEN status ELSE IF approvals[id].late THEN "expired"
                               ELSE IF ~reply.yes THEN "rejected" ELSE "past")
    /\ UNCHANGED <<letters, replies, row, calendar, commanded, past, assent, removed, answers, mishaps>>

Taken == calendar # 0

\* What the calendar calls a duplicate counts as created; a request that is
\* said to have failed may have been carried out.
Put ==
    \/ /\ calendar' = IF Taken THEN calendar ELSE owner.version
       /\ mishaps' = mishaps /\ owner' = [owner EXCEPT !.at = "put", !.ok = TRUE]
    \/ /\ calendar' \in {calendar, IF Taken THEN calendar ELSE owner.version}
       /\ Mishap /\ owner' = [owner EXCEPT !.at = "put", !.ok = FALSE]

\* _create_normalized: another version of the same appointment is never
\* overwritten.
CreateNormalized ==
    /\ At("create")
    /\ IF row # <<>> /\ row[1].version # owner.version
       THEN UNCHANGED <<calendar, mishaps>> /\ owner' = [owner EXCEPT !.at = "settle", !.ok = FALSE]
       ELSE IF Entered(owner.version)
       THEN UNCHANGED <<calendar, mishaps>> /\ owner' = [owner EXCEPT !.at = "settle", !.ok = TRUE]
       ELSE Put
    /\ UNCHANGED <<approvals, letters, replies, row, commanded, past, assent, removed, answers>>

RecordEvent ==
    /\ At("put")
    /\ row' = <<[version |-> owner.version, status |-> IF owner.ok THEN "created" ELSE "error"]>>
    /\ Goes("settle")
    /\ UNCHANGED <<approvals, letters, replies, calendar, commanded, past, assent, removed, answers, mishaps>>

SettleApproval ==
    /\ At("settle")
    /\ Becomes(owner.id, IF owner.ok THEN "created" ELSE "create-error")
    /\ Goes("file")
    /\ UNCHANGED <<letters, replies, row, calendar, commanded, past, assent, removed, answers, mishaps>>

\* The answer is filed in its folder.
FileReply ==
    /\ At("file") /\ replies' = replies \ {owner.reply[1]} /\ owner' = Waiting
    /\ UNCHANGED <<approvals, letters, row, calendar, commanded, past, assent, removed, answers, mishaps>>

-----------------------------------------------------------------------------
(* Command mails *)

\* process_command_mail, up to the execution.  There is one plan per version: one that
\* failed, or whose execution was cut off, is never executed again.
CommandMail(version) ==
    /\ At("idle") /\ ~past /\ answers < MaxReplies /\ answers' = answers + 1
    /\ assent' = assent \cup {version}
    /\ \/ /\ commanded[version] = "proposed" /\ commanded' = [commanded EXCEPT ![version] = "executing"]
          /\ owner' = [Waiting EXCEPT !.at = "execute", !.version = version]
       \/ /\ commanded[version] = "completed" /\ commanded' = commanded
          /\ owner' = [Waiting EXCEPT !.at = "command", !.version = version]
       \/ commanded[version] \in {"executing", "failed"} /\ UNCHANGED <<commanded, owner>>
    /\ UNCHANGED <<approvals, letters, replies, row, calendar, past, removed, mishaps>>

\* create_event of the connector: what is there is not overwritten, and fails.
ExecuteCommand ==
    /\ At("execute")
    /\ \/ /\ calendar' = IF Taken THEN calendar ELSE owner.version
          /\ mishaps' = mishaps /\ owner' = [owner EXCEPT !.at = "executed", !.ok = ~Taken]
       \/ /\ calendar' \in {calendar, IF Taken THEN calendar ELSE owner.version}
          /\ Mishap /\ owner' = [owner EXCEPT !.at = "executed", !.ok = FALSE]
    /\ UNCHANGED <<approvals, letters, replies, row, commanded, past, assent, removed, answers>>

\* ActionEngine.execute: what became of the plan.
CommandExecuted ==
    /\ At("executed")
    /\ commanded' = [commanded EXCEPT ![owner.version] = IF owner.ok THEN "completed" ELSE "failed"]
    /\ owner' = IF owner.ok THEN [owner EXCEPT !.at = "command"] ELSE Waiting
    /\ UNCHANGED <<approvals, letters, replies, row, calendar, past, assent, removed, answers, mishaps>>

RecordCommand ==
    /\ At("command")
    /\ row' = <<[version |-> owner.version, status |-> IF owner.ok THEN "created" ELSE "duplicate"]>>
    /\ owner' = Waiting
    /\ UNCHANGED <<approvals, letters, replies, calendar, commanded, past, assent, removed, answers, mishaps>>

-----------------------------------------------------------------------------
(* The user, the time and the process *)

\* To every mail that came, as often as the user likes.
UserAnswers(id) ==
    /\ id \in letters /\ answers < MaxReplies /\ answers' = answers + 1
    /\ \E yes \in BOOLEAN :
          /\ replies' = replies \cup {[id |-> id, yes |-> yes, number |-> answers]}
          /\ assent' = IF yes THEN assent \cup {approvals[id].version} ELSE assent
    /\ UNCHANGED <<approvals, letters, row, calendar, commanded, owner, past, removed, mishaps>>

\* The user's own client knows the same UID.
UserEnters ==
    /\ Mishap /\ calendar = 0 /\ \E version \in Versions : calendar' = version /\ assent' = assent \cup {version}
    /\ UNCHANGED <<approvals, letters, replies, row, commanded, owner, past, removed, answers>>

UserRemoves ==
    /\ Mishap /\ calendar # 0 /\ calendar' = 0 /\ removed' = TRUE
    /\ UNCHANGED <<approvals, letters, replies, row, commanded, owner, past, assent, answers>>

Expires ==
    /\ Mishap
    /\ \/ \E id \in 1..Len(approvals) : ~approvals[id].late /\ approvals' = [approvals EXCEPT ![id].late = TRUE] /\ past' = past
       \/ ~past /\ past' = TRUE /\ approvals' = approvals
    /\ UNCHANGED <<letters, replies, row, calendar, commanded, owner, assent, removed, answers>>

Killed ==
    /\ ~At("idle") /\ Mishap /\ owner' = Waiting
    /\ UNCHANGED <<approvals, letters, replies, row, calendar, commanded, past, assent, removed, answers>>

Ask == (\E version \in Versions : RequestApproval(version)) \/ SendMail \/ Asked
Answer == (\E reply \in replies : TakeReply(reply)) \/ CreateNormalized \/ RecordEvent \/ SettleApproval \/ FileReply
Command == (\E version \in Versions : CommandMail(version)) \/ ExecuteCommand \/ CommandExecuted \/ RecordCommand
User == (\E id \in letters : UserAnswers(id)) \/ UserEnters \/ UserRemoves

Next == Ask \/ Answer \/ Command \/ User \/ Expires \/ Killed

Spec == Init /\ [][Next]_calendarVars

-----------------------------------------------------------------------------
(* Properties *)

\* What enters the calendar is a version the user said yes to, whichever of
\* several mails about it is answered, late, twice or again after a crash
\* (handle_approval_reply).
EnteredAsApproved == [][calendar' # calendar /\ calendar' # 0 => calendar' \in assent']_calendarVars

\* An approval is called "created" only when the appointment is in the calendar
\* or the user has taken it out, whatever commit a run was killed at.
CreatedIsThere == \A n \in 1..Len(approvals) : approvals[n].status = "created" => calendar # 0 \/ removed
=============================================================================
