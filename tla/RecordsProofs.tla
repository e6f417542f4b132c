---------------------------- MODULE RecordsProofs ----------------------------
(***************************************************************************)
(* Proofs about the components that keep records (MCRecords).  A behaviour   *)
(* is one of one component, so that every component has an invariant of its  *)
(* own and needs only that its turn stays (OneTurn).                         *)
(***************************************************************************)
EXTENDS MCRecords, FiniteSetTheorems, TLAPS

LEMMA OneTurn ==
    ASSUME [AllNext]_allVars
    PROVE  /\ turn' = turn
           /\ [Next]_calendarVars
           /\ turn = "paper" => [Paper!Next]_paperVars
           /\ turn = "invoices" => [Register!Next]_invoicesVars
           /\ turn = "orders" => [Board!Next]_ordersVars
           /\ turn = "depot" => [Depot!Next]_depotVars
           /\ turn = "agree" => [Agreement!Next]_agreeVars
  <1>1. CASE UNCHANGED allVars
        BY <1>1 DEF allVars
  <1>2. CASE CalendarStep
        BY <1>2 DEF CalendarStep
  <1>3. CASE PaperStep
        BY <1>3 DEF PaperStep
  <1>4. CASE RegisterStep
        BY <1>4 DEF RegisterStep
  <1>5. CASE BoardStep
        BY <1>5 DEF BoardStep
  <1>6. CASE DepotStep
        BY <1>6 DEF DepotStep
  <1>7. CASE ClassifierStep
        BY <1>7 DEF ClassifierStep
  <1>8. CASE LearningStep
        BY <1>8 DEF LearningStep
  <1>9. CASE AgreementStep
        BY <1>9 DEF AgreementStep
  <1> QED BY <1>1, <1>2, <1>3, <1>4, <1>5, <1>6, <1>7, <1>8, <1>9 DEF AllNext

-----------------------------------------------------------------------------
(* CalendarMail: entered as approved, and created means there *)

Statuses == {"sending", "pending", "send-error", "approved-creating", "created", "create-error", "rejected", "expired", "past"}
Approvals == [version : Versions, status : Statuses, late : BOOLEAN]
EventRows == [version : Versions, status : {"created", "error", "duplicate"}]
CalendarTypes ==
    /\ approvals \in Seq(Approvals)
    /\ letters \subseteq 1..Len(approvals)
    /\ \A r \in replies : r.id \in 1..Len(approvals)
    /\ row = <<>> \/ row[1] \in EventRows
    /\ owner.at \in {"ask", "asked", "create", "put", "settle", "file"} => owner.id \in 1..Len(approvals)
    /\ owner.at \in {"create", "put", "settle", "execute", "executed", "command"} => owner.version \in Versions
    /\ owner.ok \in BOOLEAN

There == calendar # 0 \/ removed

\* A yes, and what is being entered because of it, is for a version the user wanted;
\* whatever says "created" says so of an appointment that is there or was taken out.
CalendarInv ==
    /\ CalendarTypes
    /\ \A r \in replies : r.yes => approvals[r.id].version \in assent
    /\ owner.at \in {"create", "put", "execute"} => owner.version \in assent
    /\ owner.at \in {"put", "settle", "executed", "command"} /\ owner.ok => There
    /\ row # <<>> /\ row[1].status = "created" => There
    /\ CreatedIsThere

LEMMA CalendarStarts == Init => CalendarInv
  <1> SUFFICES ASSUME Init PROVE CalendarInv
      OBVIOUS
  <1>1. /\ approvals = <<>> /\ letters = {} /\ replies = {} /\ row = <<>>
        /\ owner.at = "idle" /\ owner.ok = FALSE
        BY DEF Init, Waiting
  <1>2. approvals \in Seq(Approvals) /\ Len(approvals) = 0
        BY <1>1
  <1>3. CalendarTypes
        BY <1>1, <1>2 DEF CalendarTypes
  <1> QED BY <1>1, <1>2, <1>3 DEF CalendarInv, CreatedIsThere

\* What becomes of an approval or grows old keeps its version; a new one comes last.
LEMMA ApprovalBecomes ==
    ASSUME approvals \in Seq(Approvals), NEW n \in 1..Len(approvals), NEW s \in Statuses, Becomes(n, s)
    PROVE  /\ approvals' \in Seq(Approvals) /\ Len(approvals') = Len(approvals)
           /\ approvals'[n].status = s
           /\ \A k \in 1..Len(approvals) : /\ approvals'[k].version = approvals[k].version
                                           /\ k # n => approvals'[k].status = approvals[k].status
  <1>1. approvals[n] \in Approvals
        OBVIOUS
  <1>2. [approvals[n] EXCEPT !.status = s] \in Approvals
        BY <1>1 DEF Approvals
  <1>3. /\ approvals' = [approvals EXCEPT ![n] = [approvals[n] EXCEPT !.status = s]]
        /\ [approvals[n] EXCEPT !.status = s].version = approvals[n].version
        /\ [approvals[n] EXCEPT !.status = s].status = s
        BY <1>1 DEF Approvals, Becomes
  <1> QED BY <1>2, <1>3

LEMMA ApprovalAges ==
    ASSUME approvals \in Seq(Approvals), NEW n \in 1..Len(approvals), approvals' = [approvals EXCEPT ![n].late = TRUE]
    PROVE  /\ approvals' \in Seq(Approvals) /\ Len(approvals') = Len(approvals)
           /\ \A k \in 1..Len(approvals) : /\ approvals'[k].version = approvals[k].version
                                           /\ approvals'[k].status = approvals[k].status
  <1>1. approvals[n] \in Approvals
        OBVIOUS
  <1>2. [approvals[n] EXCEPT !.late = TRUE] \in Approvals
        BY <1>1 DEF Approvals
  <1>3. /\ approvals' = [approvals EXCEPT ![n] = [approvals[n] EXCEPT !.late = TRUE]]
        /\ [approvals[n] EXCEPT !.late = TRUE].version = approvals[n].version
        /\ [approvals[n] EXCEPT !.late = TRUE].status = approvals[n].status
        BY <1>1 DEF Approvals
  <1> QED BY <1>2, <1>3

LEMMA CalendarSteps == CalendarInv /\ [Next]_calendarVars => CalendarInv'
  <1> SUFFICES ASSUME CalendarInv, [Next]_calendarVars PROVE CalendarInv'
      OBVIOUS
  <1>0. /\ approvals \in Seq(Approvals) /\ 0 \notin Versions /\ Len(approvals) \in Nat
        BY RecordsAssumption DEF CalendarInv, CalendarTypes, RecordsAssumption
  <1>a. \A n \in 1..Len(approvals) : approvals[n].version \in Versions /\ approvals[n].status \in Statuses
    <2> TAKE n \in 1..Len(approvals)
    <2>1. approvals[n] \in Approvals
          BY <1>0
    <2> QED BY <2>1 DEF Approvals
  <1>1. ASSUME NEW version \in Versions, RequestApproval(version) PROVE CalendarInv'
    <2> DEFINE new == [version |-> version, status |-> "sending", late |-> FALSE]
    <2>1. new \in Approvals /\ approvals' = Append(approvals, new) /\ new.status = "sending"
      <3>1. approvals' = Append(approvals, new) /\ new.status = "sending"
            BY <1>1 DEF RequestApproval
      <3>2. ASSUME NEW s \in Statuses, NEW f \in BOOLEAN PROVE [version |-> version, status |-> s, late |-> f] \in Approvals
            BY Zenon DEF Approvals
      <3>3. "sending" \in Statuses
            BY DEF Statuses
      <3>4. FALSE \in BOOLEAN
            BY Zenon
      <3> QED BY <3>1, <3>2, <3>3, <3>4 DEF new
    <2> HIDE DEF new
    <2>2. /\ approvals' \in Seq(Approvals) /\ Len(approvals') = Len(approvals) + 1
          /\ \A n \in 1..Len(approvals) : approvals'[n] = approvals[n]
          /\ approvals'[Len(approvals) + 1].status = "sending"
          BY <1>0, <2>1
    <2>3. /\ owner'.at = "ask" /\ owner'.id = Len(approvals) + 1 /\ owner'.ok = FALSE
          BY <1>1 DEF RequestApproval, Waiting
    <2>4. UNCHANGED <<letters, replies, row, calendar, assent, removed>>
          BY <1>1 DEF RequestApproval
    <2>5. CalendarTypes'
      <3>1. letters' \subseteq 1..Len(approvals') /\ \A r \in replies' : r.id \in 1..Len(approvals')
            BY <1>0, <2>2, <2>4 DEF CalendarInv, CalendarTypes
      <3>2. row' = <<>> \/ row'[1] \in EventRows
            BY <2>4 DEF CalendarInv, CalendarTypes
      <3>3. owner'.id \in 1..Len(approvals')
            BY <1>0, <2>2, <2>3
      <3> QED BY <2>2, <2>3, <3>1, <3>2, <3>3 DEF CalendarTypes
    <2>6. CreatedIsThere'
          BY <1>0, <2>2, <2>4 DEF CalendarInv, CreatedIsThere
    <2> QED BY <1>0, <2>2, <2>3, <2>4, <2>5, <2>6 DEF CalendarInv, CalendarTypes, There
  <1>2. CASE SendMail
    <2>1. /\ owner.at = "ask" /\ owner'.at = "asked" /\ owner'.id = owner.id /\ owner'.ok \in BOOLEAN
          /\ letters' \in {letters, letters \cup {owner.id}}
          /\ UNCHANGED <<approvals, replies, row, calendar, assent, removed>>
          BY <1>2 DEF SendMail, At
    <2>2. owner.id \in 1..Len(approvals)
          BY <2>1 DEF CalendarInv, CalendarTypes
    <2>3. CalendarTypes'
          BY <2>1, <2>2 DEF CalendarInv, CalendarTypes
    <2> QED BY <2>1, <2>3 DEF CalendarInv, CreatedIsThere, There
  <1>3. CASE Asked
    <2>1. PICK s \in {"pending", "send-error"} : Becomes(owner.id, s)
          BY <1>3 DEF Asked
    <2>2. owner.id \in 1..Len(approvals)
          BY <1>3 DEF Asked, At, CalendarInv, CalendarTypes
    <2>3. /\ owner'.at = "idle" /\ owner'.ok = FALSE
          /\ UNCHANGED <<letters, replies, row, calendar, assent, removed>>
          BY <1>3 DEF Asked, Waiting
    <2>4. /\ approvals' \in Seq(Approvals) /\ Len(approvals') = Len(approvals)
          /\ approvals'[owner.id].status = s
          /\ \A k \in 1..Len(approvals) : /\ approvals'[k].version = approvals[k].version
                                          /\ k # owner.id => approvals'[k].status = approvals[k].status
      <3>1. PICK n \in 1..Len(approvals) : n = owner.id
            BY <2>2
      <3>2. Becomes(n, s) /\ s \in Statuses
            BY <2>1, <3>1 DEF Statuses
      <3> QED BY <1>0, <3>1, <3>2, ApprovalBecomes
    <2>5. CalendarTypes'
          BY <2>3, <2>4 DEF CalendarInv, CalendarTypes
    <2>6. CreatedIsThere'
          BY <2>2, <2>3, <2>4 DEF CalendarInv, CreatedIsThere
    <2> QED BY <2>3, <2>4, <2>5, <2>6 DEF CalendarInv, CalendarTypes, There
  <1>4. ASSUME NEW reply \in replies, TakeReply(reply) PROVE CalendarInv'
    <2> DEFINE id == reply.id
               status == approvals[id].status
    <2>1. id \in 1..Len(approvals)
          BY DEF CalendarInv, CalendarTypes
    <2>2. /\ owner'.id = id /\ owner'.version = approvals[id].version /\ owner'.ok = FALSE
          /\ owner'.at \in {"create", "file"} /\ (owner'.at = "create" => reply.yes)
          /\ UNCHANGED <<letters, replies, row, calendar, assent, removed>>
          BY <1>4 DEF TakeReply, Meant, Waiting
    <2>3. PICK s \in Statuses : Becomes(id, s) /\ (s = "created" => status = "created")
      <3>1. CASE reply.yes /\ ~past /\ ~approvals[id].late /\ status \notin Final
        <4>1. Becomes(id, "approved-creating")
              BY <1>4, <3>1 DEF TakeReply, Meant
        <4> QED BY <4>1 DEF Statuses
      <3>2. CASE ~(reply.yes /\ ~past /\ ~approvals[id].late /\ status \notin Final)
        <4> DEFINE s == IF status \in Final THEN status ELSE IF approvals[id].late THEN "expired"
                        ELSE IF ~reply.yes THEN "rejected" ELSE "past"
        <4>1. Becomes(id, s)
              BY <1>4, <3>2 DEF TakeReply, Meant
        <4>2. s \in Statuses /\ (s = "created" => status = "created")
              BY <1>a, <2>1 DEF Statuses, Final
        <4> QED BY <4>1, <4>2
      <3> QED BY <3>1, <3>2
    <2>4. /\ approvals' \in Seq(Approvals) /\ Len(approvals') = Len(approvals)
          /\ approvals'[id].status = s
          /\ \A k \in 1..Len(approvals) : /\ approvals'[k].version = approvals[k].version
                                          /\ k # id => approvals'[k].status = approvals[k].status
          BY <1>0, <2>1, <2>3, ApprovalBecomes
    <2>5. CalendarTypes'
          BY <1>a, <2>1, <2>2, <2>4 DEF CalendarInv, CalendarTypes
    <2>6. CreatedIsThere'
          BY <2>1, <2>2, <2>3, <2>4 DEF CalendarInv, CreatedIsThere
    <2>7. owner'.at = "create" => owner'.version \in assent'
          BY <2>2 DEF CalendarInv
    <2> QED BY <2>2, <2>4, <2>5, <2>6, <2>7 DEF CalendarInv, CalendarTypes, There
  <1>5. CASE CreateNormalized
    <2>1. /\ owner.at = "create" /\ owner'.at \in {"put", "settle"} /\ owner'.id = owner.id
          /\ owner'.version = owner.version /\ owner'.ok \in BOOLEAN
          /\ UNCHANGED <<approvals, letters, replies, row, assent, removed>>
      <3>1. owner.at = "create" /\ UNCHANGED <<approvals, letters, replies, row, assent, removed>>
            BY <1>5 DEF CreateNormalized, At
      <3>2. PICK a \in {"put", "settle"}, f \in BOOLEAN : owner' = [owner EXCEPT !.at = a, !.ok = f]
            BY <1>5 DEF CreateNormalized, Put
      <3> QED BY <3>1, <3>2
    <2>2. owner.version \in Versions /\ owner.version # 0
          BY <1>0, <2>1 DEF CalendarInv, CalendarTypes
    <2>3. There => There'
          BY <1>5, <2>2 DEF CreateNormalized, Put, There, Taken
    <2>4. owner'.ok => There'
      <3>1. CASE Entered(owner.version)
        <4>1. row # <<>> /\ row[1].status = "created"
              BY <3>1 DEF Entered
        <4> QED BY <2>3, <4>1 DEF CalendarInv
      <3>2. CASE ~Entered(owner.version)
        <4> DEFINE failed == \E place \in {"put", "settle"} : owner' = [owner EXCEPT !.at = place, !.ok = FALSE]
        <4>1. (calendar' = IF Taken THEN calendar ELSE owner.version) \/ failed
              BY <1>5, <3>2 DEF CreateNormalized, Put
        <4>2. failed => owner'.ok = FALSE
              OBVIOUS
        <4>3. (calendar' = IF Taken THEN calendar ELSE owner.version) => calendar' # 0
              BY <2>2 DEF Taken
        <4> HIDE DEF failed
        <4> QED BY <4>1, <4>2, <4>3 DEF There
      <3> QED BY <3>1, <3>2
    <2>5. CalendarTypes'
          BY <2>1, <2>2 DEF CalendarInv, CalendarTypes
    <2> QED BY <2>1, <2>3, <2>4, <2>5 DEF CalendarInv, CreatedIsThere, There
  <1>6. CASE RecordEvent
    <2>1. /\ owner.at = "put" /\ owner'.at = "settle" /\ owner'.id = owner.id
          /\ owner'.version = owner.version /\ owner'.ok = owner.ok
          /\ UNCHANGED <<approvals, letters, replies, calendar, assent, removed>>
          BY <1>6 DEF RecordEvent, At, Goes
    <2> DEFINE s == IF owner.ok THEN "created" ELSE "error"
               r == [version |-> owner.version, status |-> s]
    <2>2. row' = <<r>>
          BY <1>6 DEF RecordEvent
    <2>3. row'[1] \in EventRows /\ (row'[1].status = "created" => owner.ok)
          BY <2>1, <2>2 DEF EventRows, CalendarInv, CalendarTypes
    <2>4. CalendarTypes'
          BY <2>1, <2>3 DEF CalendarInv, CalendarTypes
    <2> QED BY <2>1, <2>3, <2>4 DEF CalendarInv, CreatedIsThere, There
  <1>7. CASE SettleApproval
    <2>1. PICK s \in {"created", "create-error"} : Becomes(owner.id, s) /\ (s = "created" => owner.ok)
          BY <1>7 DEF SettleApproval
    <2>2. owner.id \in 1..Len(approvals) /\ owner.at = "settle"
          BY <1>7 DEF SettleApproval, At, CalendarInv, CalendarTypes
    <2>3. /\ owner'.at = "file" /\ owner'.id = owner.id /\ owner'.ok = owner.ok
          /\ UNCHANGED <<letters, replies, row, calendar, assent, removed>>
          BY <1>7 DEF SettleApproval, Goes
    <2>4. /\ approvals' \in Seq(Approvals) /\ Len(approvals') = Len(approvals)
          /\ approvals'[owner.id].status = s
          /\ \A k \in 1..Len(approvals) : /\ approvals'[k].version = approvals[k].version
                                          /\ k # owner.id => approvals'[k].status = approvals[k].status
      <3>1. PICK n \in 1..Len(approvals) : n = owner.id
            BY <2>2
      <3>2. Becomes(n, s) /\ s \in Statuses
            BY <2>1, <3>1 DEF Statuses
      <3> QED BY <1>0, <3>1, <3>2, ApprovalBecomes
    <2>5. CalendarTypes'
          BY <2>2, <2>3, <2>4 DEF CalendarInv, CalendarTypes
    <2>6. CreatedIsThere'
          BY <2>1, <2>2, <2>3, <2>4 DEF CalendarInv, CreatedIsThere, There
    <2> QED BY <2>3, <2>4, <2>5, <2>6 DEF CalendarInv, CalendarTypes, There
  <1>8. CASE FileReply
    <2>1. /\ replies' \subseteq replies /\ owner'.at = "idle" /\ owner'.ok = FALSE
          /\ UNCHANGED <<approvals, letters, row, calendar, assent, removed>>
          BY <1>8 DEF FileReply, Waiting
    <2>2. CalendarTypes'
          BY <2>1 DEF CalendarInv, CalendarTypes
    <2> QED BY <2>1, <2>2 DEF CalendarInv, CreatedIsThere, There
  <1>9. ASSUME NEW version \in Versions, CommandMail(version) PROVE CalendarInv'
    <2>1. /\ assent' = assent \cup {version} /\ UNCHANGED <<approvals, letters, replies, row, calendar, removed>>
          /\ owner.at = "idle"
          BY <1>9 DEF CommandMail, At
    <2>2. \/ owner' = owner
          \/ owner'.at \in {"execute", "command"} /\ owner'.version = version /\ owner'.ok = FALSE
          BY <1>9 DEF CommandMail, Waiting
    <2>3. CalendarTypes'
          BY <2>1, <2>2 DEF CalendarInv, CalendarTypes
    <2> QED BY <2>1, <2>2, <2>3 DEF CalendarInv, CreatedIsThere, There
  <1>16. CASE ExecuteCommand
    <2>1. /\ owner.at = "execute" /\ UNCHANGED <<approvals, letters, replies, row, assent, removed>>
          BY <1>16 DEF ExecuteCommand, At
    <2>2. PICK f \in BOOLEAN : owner' = [owner EXCEPT !.at = "executed", !.ok = f]
          BY <1>16 DEF ExecuteCommand
    <2>3. /\ owner'.at = "executed" /\ owner'.version = owner.version /\ owner'.ok \in BOOLEAN
          /\ owner.version \in Versions /\ owner.version # 0
          BY <1>0, <2>1, <2>2 DEF CalendarInv, CalendarTypes
    <2>4. There => There'
          BY <1>16, <2>1, <2>3 DEF ExecuteCommand, There, Taken
    <2>5. owner'.ok => There'
      <3> DEFINE failed == owner' = [owner EXCEPT !.at = "executed", !.ok = FALSE]
      <3>1. (calendar' = IF Taken THEN calendar ELSE owner.version) \/ failed
            BY <1>16 DEF ExecuteCommand
      <3>2. failed => owner'.ok = FALSE
            OBVIOUS
      <3>3. (calendar' = IF Taken THEN calendar ELSE owner.version) => calendar' # 0
            BY <2>3 DEF Taken
      <3> HIDE DEF failed
      <3> QED BY <3>1, <3>2, <3>3 DEF There
    <2>6. CalendarTypes'
          BY <2>1, <2>3 DEF CalendarInv, CalendarTypes
    <2> QED BY <2>1, <2>3, <2>4, <2>5, <2>6 DEF CalendarInv, CreatedIsThere, There
  <1>17. CASE CommandExecuted
    <2>1. /\ owner.at = "executed" /\ UNCHANGED <<approvals, letters, replies, row, calendar, assent, removed>>
          BY <1>17 DEF CommandExecuted, At
    <2>2. \/ owner.ok /\ owner'.at = "command" /\ owner'.version = owner.version /\ owner'.ok = owner.ok
          \/ owner'.at = "idle" /\ owner'.ok = FALSE
      <3>1. CASE owner.ok
        <4>1. owner' = [owner EXCEPT !.at = "command"]
              BY <1>17, <3>1 DEF CommandExecuted
        <4>2. /\ owner'.at = "command" /\ owner'.version = owner.version /\ owner'.ok = owner.ok
              BY <4>1 DEF CalendarInv, CalendarTypes
        <4> QED BY <3>1, <4>2, Zenon
      <3>2. CASE ~owner.ok
        <4>1. owner' = Waiting
              BY <1>17, <3>2 DEF CommandExecuted
        <4> QED BY <4>1 DEF Waiting
      <3> QED BY <3>1, <3>2
    <2>3. CalendarTypes'
          BY <2>1, <2>2 DEF CalendarInv, CalendarTypes
    <2> QED BY <2>1, <2>2, <2>3 DEF CalendarInv, CreatedIsThere, There
  <1>10. CASE RecordCommand
    <2>1. /\ owner.at = "command" /\ owner'.at = "idle" /\ owner'.ok = FALSE
          /\ UNCHANGED <<approvals, letters, replies, calendar, assent, removed>>
          BY <1>10 DEF RecordCommand, At, Waiting
    <2> DEFINE s == IF owner.ok THEN "created" ELSE "duplicate"
               r == [version |-> owner.version, status |-> s]
    <2>2. row' = <<r>>
          BY <1>10 DEF RecordCommand
    <2>3. row'[1] \in EventRows /\ (row'[1].status = "created" => owner.ok)
          BY <2>1, <2>2 DEF EventRows, CalendarInv, CalendarTypes
    <2>4. CalendarTypes'
          BY <2>1, <2>3 DEF CalendarInv, CalendarTypes
    <2> QED BY <2>1, <2>3, <2>4 DEF CalendarInv, CreatedIsThere, There
  <1>11. ASSUME NEW id \in letters, UserAnswers(id) PROVE CalendarInv'
    <2>1. id \in 1..Len(approvals)
          BY DEF CalendarInv, CalendarTypes
    <2>2. PICK yes \in BOOLEAN :
             /\ replies' = replies \cup {[id |-> id, yes |-> yes, number |-> answers]}
             /\ assent' = IF yes THEN assent \cup {approvals[id].version} ELSE assent
          BY <1>11 DEF UserAnswers
    <2>3. UNCHANGED <<approvals, letters, row, calendar, owner, removed>>
          BY <1>11 DEF UserAnswers
    <2>4. \A r \in replies' : r.id \in 1..Len(approvals') /\ (r.yes => approvals'[r.id].version \in assent')
      <3>1. ASSUME NEW r \in replies PROVE r.id \in 1..Len(approvals) /\ (r.yes => approvals[r.id].version \in assent')
            BY <2>2 DEF CalendarInv, CalendarTypes
      <3>2. ASSUME NEW r, r = [id |-> id, yes |-> yes, number |-> answers]
            PROVE  r.id \in 1..Len(approvals) /\ (r.yes => approvals[r.id].version \in assent')
            BY <2>1, <2>2, <3>2
      <3> QED BY <2>2, <2>3, <3>1, <3>2
    <2>5. CalendarTypes'
          BY <2>3, <2>4 DEF CalendarInv, CalendarTypes
    <2> QED BY <2>2, <2>3, <2>4, <2>5 DEF CalendarInv, CreatedIsThere, There
  <1>12. CASE UserEnters \/ UserRemoves
    <2>1. /\ (There => There') /\ assent \subseteq assent'
          /\ UNCHANGED <<approvals, letters, replies, row, owner>>
          BY <1>0, <1>12 DEF UserEnters, UserRemoves, There
    <2> QED BY <2>1 DEF CalendarInv, CalendarTypes, CreatedIsThere, There
  <1>13. CASE Expires
    <2>1. UNCHANGED <<letters, replies, row, calendar, owner, assent, removed>>
          BY <1>13 DEF Expires
    <2>2. CASE UNCHANGED approvals
          BY <2>1, <2>2 DEF CalendarInv, CalendarTypes, CreatedIsThere, There
    <2>3. ASSUME NEW id \in 1..Len(approvals), approvals' = [approvals EXCEPT ![id].late = TRUE] PROVE CalendarInv'
      <3>1. /\ approvals' \in Seq(Approvals) /\ Len(approvals') = Len(approvals)
            /\ \A k \in 1..Len(approvals) : /\ approvals'[k].version = approvals[k].version
                                            /\ approvals'[k].status = approvals[k].status
            BY <1>0, <2>3, ApprovalAges
      <3>2. CalendarTypes'
            BY <2>1, <3>1 DEF CalendarInv, CalendarTypes
      <3> QED BY <2>1, <3>1, <3>2 DEF CalendarInv, CalendarTypes, CreatedIsThere, There
    <2> QED BY <1>13, <2>2, <2>3 DEF Expires
  <1>14. CASE Killed
    <2>1. /\ owner'.at = "idle" /\ owner'.ok = FALSE
          /\ UNCHANGED <<approvals, letters, replies, row, calendar, assent, removed>>
          BY <1>14 DEF Killed, Waiting
    <2>2. CalendarTypes'
          BY <2>1 DEF CalendarInv, CalendarTypes
    <2> QED BY <2>1, <2>2 DEF CalendarInv, CreatedIsThere, There
  <1>15. CASE UNCHANGED calendarVars
        BY <1>15 DEF calendarVars, CalendarInv, CalendarTypes, CreatedIsThere, There
  <1> QED BY <1>1, <1>2, <1>3, <1>4, <1>5, <1>6, <1>7, <1>8, <1>9, <1>10, <1>11, <1>12, <1>13, <1>14, <1>15,
             <1>16, <1>17
          DEF Next, Ask, Answer, Command, User

\* A step that puts something into the calendar puts in what the user wanted.
LEMMA EnteredStep ==
    ASSUME CalendarInv, [Next]_calendarVars
    PROVE  [calendar' # calendar /\ calendar' # 0 => calendar' \in assent']_calendarVars
  <1> SUFFICES ASSUME Next, calendar' # calendar, calendar' # 0 PROVE calendar' \in assent'
      OBVIOUS
  <1>1. CASE CreateNormalized
    <2>1. owner.at = "create" /\ calendar' = owner.version /\ assent' = assent
          BY <1>1 DEF CreateNormalized, Put, At
    <2> QED BY <2>1 DEF CalendarInv
  <1>2. ASSUME NEW version \in Versions, CommandMail(version) PROVE calendar' \in assent'
        BY <1>2 DEF CommandMail
  <1>8. CASE ExecuteCommand
    <2>1. owner.at = "execute" /\ calendar' = owner.version /\ assent' = assent
          BY <1>8 DEF ExecuteCommand, At
    <2> QED BY <2>1 DEF CalendarInv
  <1>3. CASE UserEnters \/ UserRemoves
        BY <1>3 DEF UserEnters, UserRemoves
  <1>4. CASE SendMail \/ Asked \/ RecordEvent \/ SettleApproval \/ FileReply \/ CommandExecuted \/ RecordCommand \/ Expires \/ Killed
        BY <1>4 DEF SendMail, Asked, RecordEvent, SettleApproval, FileReply, CommandExecuted, RecordCommand, Expires, Killed
  <1>5. ASSUME NEW version \in Versions, RequestApproval(version) PROVE calendar' \in assent'
        BY <1>5 DEF RequestApproval
  <1>6. ASSUME NEW reply \in replies, TakeReply(reply) PROVE calendar' \in assent'
        BY <1>6 DEF TakeReply
  <1>7. ASSUME NEW id \in letters, UserAnswers(id) PROVE calendar' \in assent'
        BY <1>7 DEF UserAnswers
  <1> QED BY <1>1, <1>2, <1>3, <1>4, <1>5, <1>6, <1>7, <1>8 DEF Next, Ask, Answer, Command, User

\* What a mail approved is entered as it was approved, and "created" means that it is
\* there or that the user took it out, for any versions, mails, replies and mishaps.
THEOREM ApprovalsHold == AllSpec => ApprovalsAreKept
  <1>1. AllInit => CalendarInv
        BY CalendarStarts DEF AllInit
  <1>2. CalendarInv /\ [AllNext]_allVars => CalendarInv'
        BY OneTurn, CalendarSteps
  <1>3. CalendarInv => CreatedIsThere
        BY DEF CalendarInv
  <1>4. CalendarInv /\ [AllNext]_allVars => [calendar' # calendar /\ calendar' # 0 => calendar' \in assent']_calendarVars
        BY OneTurn, EnteredStep
  <1> QED BY <1>1, <1>2, <1>3, <1>4, PTL DEF AllSpec, ApprovalsAreKept, EnteredAsApproved

-----------------------------------------------------------------------------
(* Portfolio: totals in one money, and one alarm for a crossing *)

\* A process that has reported a crossing finds the rule crossed until somebody clears
\* it, also in the row it read before it judges.
AlarmsInv ==
    /\ alarms \in [Depot!Refreshers -> {0, 1}]
    /\ DOMAIN refresher = Depot!Refreshers
    /\ \A p \in Depot!Refreshers : alarms[p] = 1 =>
          /\ rule.state = "crossed"
          /\ refresher[p].at = "judge" /\ refresher[p].saw.id = rule.id => refresher[p].saw.state = "crossed"

\* A valuation that has not failed has each position left or valued, in its own money.
ValuationInv ==
    valuer.at # "rest" =>
        /\ valuer.left \subseteq DOMAIN valuer.seen
        /\ valuer.failed \in BOOLEAN
        /\ ~valuer.failed => {v.isin : v \in valuer.valued} \cup valuer.left = DOMAIN valuer.seen
        /\ \A v \in valuer.valued : v.price \in Abroad <=> v.as \in Abroad

LEMMA DepotStarts == Depot!Init => AlarmsInv /\ ValuationInv
  <1> SUFFICES ASSUME Depot!Init PROVE AlarmsInv /\ ValuationInv
      OBVIOUS
  <1>1. AlarmsInv
        BY DEF Depot!Init, Depot!Quiet, AlarmsInv
  <1>2. valuer.at = "rest"
        BY DEF Depot!Init, Depot!Unread
  <1> QED BY <1>1, <1>2 DEF ValuationInv

\* What a process does to itself leaves the others alone.
LEMMA AlarmsSteps == AlarmsInv /\ [Depot!Next]_depotVars => AlarmsInv'
  <1> SUFFICES ASSUME AlarmsInv, [Depot!Next]_depotVars PROVE AlarmsInv'
      OBVIOUS
  <1>1. ASSUME UNCHANGED <<alarms, refresher>>, rule'.state = rule.state, rule'.id = rule.id PROVE AlarmsInv'
        BY <1>1 DEF AlarmsInv
  <1>2. CASE Depot!User
    <2>1. CASE Depot!AlertAdd
          BY <2>1 DEF Depot!AlertAdd, AlarmsInv
    <2>2. CASE Depot!AlertDisable
      <3>1. UNCHANGED <<alarms, refresher>> /\ rule' = [rule EXCEPT !.on = FALSE]
            BY <2>2 DEF Depot!AlertDisable
      <3>2. ASSUME NEW f, rule' = [rule EXCEPT !.on = f] PROVE rule'.state = rule.state /\ rule'.id = rule.id
            BY <3>2
      <3> QED BY <1>1, <3>1, <3>2
    <2>3. CASE ~(Depot!AlertAdd \/ Depot!AlertDisable)
          BY <1>1, <1>2, <2>3 DEF Depot!User, Depot!ImportSnapshot, Depot!WatchlistAdd, Depot!WatchlistDisable
    <2> QED BY <2>1, <2>2, <2>3
  <1>3. ASSUME NEW p \in Depot!Refreshers, Depot!Refresh(p) PROVE AlarmsInv'
    <2>0. PICK o : o = refresher[p]
          OBVIOUS
    <2>1. ASSUME NEW r, refresher' = [refresher EXCEPT ![p] = r], r.at # "judge", UNCHANGED <<rule, alarms>> PROVE AlarmsInv'
          BY <2>1 DEF AlarmsInv
    <2>2. CASE Depot!RefreshStarts(p)
      <3> DEFINE r == [Depot!Quiet EXCEPT !.at = "fetch", !.seen = [i \in Depot!Targets |-> listing[i]], !.held = imported.last]
      <3>1. refresher' = [refresher EXCEPT ![p] = r] /\ r.at # "judge" /\ UNCHANGED <<rule, alarms>>
            BY <2>2 DEF Depot!RefreshStarts, Depot!Quiet
      <3> HIDE DEF r
      <3> QED BY <2>1, <3>1
    <2>3. CASE Depot!Fetch(p)
      <3>1. PICK left, ended : refresher' = [refresher EXCEPT ![p].at = "store", ![p].left = left, ![p].ended = ended]
            BY <2>3 DEF Depot!Fetch
      <3>2. UNCHANGED <<rule, alarms>>
            BY <2>3 DEF Depot!Fetch
      <3> DEFINE r == [o EXCEPT !.at = "store", !.left = left, !.ended = ended]
      <3>3. refresher' = [refresher EXCEPT ![p] = r]
            BY <2>0, <3>1
      <3>4. r.at # "judge"
            BY <2>0, <3>1
      <3> HIDE DEF r
      <3> QED BY <2>1, <3>2, <3>3, <3>4
    <2>4. CASE Depot!StoreQuote(p)
      <3>1. PICK i \in refresher[p].left, lev \in (IF rule.on THEN Depot!Levels ELSE {"between"}) :
                refresher' = [refresher EXCEPT ![p].at = IF i = Alarmed THEN "rules" ELSE "store",
                                               ![p].left = @ \ {i}, ![p].level = IF i = Alarmed THEN lev ELSE @]
            BY <2>4 DEF Depot!StoreQuote
      <3>2. UNCHANGED <<rule, alarms>>
            BY <2>4 DEF Depot!StoreQuote
      <3> DEFINE r == [o EXCEPT !.at = IF i = Alarmed THEN "rules" ELSE "store",
                                   !.left = @ \ {i}, !.level = IF i = Alarmed THEN lev ELSE @]
      <3>3. refresher' = [refresher EXCEPT ![p] = r]
            BY <2>0, <3>1
      <3>4. r.at # "judge"
            BY <2>0, <3>1
      <3> HIDE DEF r
      <3> QED BY <2>1, <3>2, <3>3, <3>4
    <2>5. CASE Depot!RefuseQuote(p)
      <3>1. PICK left, ended : refresher' = [refresher EXCEPT ![p].left = left, ![p].ended = ended]
            BY <2>5 DEF Depot!RefuseQuote
      <3>2. UNCHANGED <<rule, alarms>> /\ refresher[p].at = "store"
            BY <2>5 DEF Depot!RefuseQuote, Depot!Is
      <3> DEFINE r == [o EXCEPT !.left = left, !.ended = ended]
      <3>3. refresher' = [refresher EXCEPT ![p] = r]
            BY <2>0, <3>1, <3>2
      <3>4. r.at # "judge"
            BY <2>0, <3>1, <3>2
      <3> HIDE DEF r
      <3> QED BY <2>1, <3>2, <3>3, <3>4
    <2>6. CASE Depot!ReadRules(p)
      <3>1. PICK place : refresher' = [refresher EXCEPT ![p].at = place, ![p].saw = rule]
            BY <2>6 DEF Depot!ReadRules
      <3>2. UNCHANGED <<rule, alarms>>
            BY <2>6 DEF Depot!ReadRules
      <3> DEFINE r == [o EXCEPT !.at = place, !.saw = rule]
      <3>3. refresher' = [refresher EXCEPT ![p] = r]
            BY <2>0, <3>1
      <3>4. r.saw = rule
            BY <2>0, <3>1
      <3> HIDE DEF r
      <3> QED BY <3>2, <3>3, <3>4 DEF AlarmsInv
    <2>7. CASE Depot!EvaluateAlerts(p)
      <3> DEFINE r == [o EXCEPT !.at = "store", !.saw = Depot!NoRule, !.level = "between"]
      <3>1. refresher' = [refresher EXCEPT ![p] = r] /\ refresher[p].at = "judge"
            BY <2>0, <2>7 DEF Depot!EvaluateAlerts, Depot!Is
      <3>5. r.at = "store"
            OBVIOUS
      <3> HIDE DEF r
      <3>2. CASE refresher[p].saw.id = rule.id /\ Depot!Triggers(p)
        <4>1. rule' = [rule EXCEPT !.state = "crossed", !.cooling = TRUE] /\ alarms' = [alarms EXCEPT ![p] = @ + 1]
              BY <2>7, <3>2 DEF Depot!EvaluateAlerts
        <4>2. alarms[p] = 0
              BY <3>1, <3>2 DEF Depot!Triggers, AlarmsInv
        <4>3. alarms' = [alarms EXCEPT ![p] = 1] /\ rule'.state = "crossed" /\ rule'.id = rule.id
              BY <4>1, <4>2
        <4> QED BY <3>1, <3>5, <4>1, <4>3 DEF AlarmsInv
      <3>3. CASE refresher[p].saw.id = rule.id /\ ~Depot!Triggers(p) /\ Depot!Clears(p)
        <4>1. alarms' = [q \in Depot!Refreshers |-> 0]
              BY <2>7, <3>3 DEF Depot!EvaluateAlerts
        <4> QED BY <3>1, <3>5, <4>1 DEF AlarmsInv
      <3>4. CASE ~(refresher[p].saw.id = rule.id /\ (Depot!Triggers(p) \/ Depot!Clears(p)))
        <4>1. UNCHANGED <<rule, alarms>>
              BY <2>7, <3>4 DEF Depot!EvaluateAlerts
        <4> QED BY <2>1, <3>1, <3>5, <4>1
      <3> QED BY <3>2, <3>3, <3>4
    <2>8. CASE Depot!RefreshEnds(p) \/ Depot!RefreshDies(p)
      <3>1. refresher' = [refresher EXCEPT ![p] = Depot!Quiet] /\ UNCHANGED <<rule, alarms>>
            BY <2>8 DEF Depot!RefreshEnds, Depot!RefreshDies
      <3>2. Depot!Quiet.at # "judge"
            BY DEF Depot!Quiet
      <3> QED BY <2>1, <3>1, <3>2
    <2> QED BY <1>3, <2>2, <2>3, <2>4, <2>5, <2>6, <2>7, <2>8 DEF Depot!Refresh
  <1>4. CASE Depot!Valuation
    <2>1. UNCHANGED <<alarms, refresher, rule>>
          BY <1>4 DEF Depot!Valuation, Depot!ReadHoldings, Depot!ReadHealth, Depot!ValuePosition, Depot!ValuationEnds
    <2> QED BY <1>1, <2>1
  <1>5. CASE Depot!Ages
    <2>1. UNCHANGED <<alarms, refresher>>
          BY <1>5 DEF Depot!Ages
    <2>2. rule' = rule \/ rule' = [rule EXCEPT !.cooling = FALSE]
          BY <1>5 DEF Depot!Ages
    <2>3. ASSUME NEW f, rule' = [rule EXCEPT !.cooling = f] PROVE rule'.state = rule.state /\ rule'.id = rule.id
          BY <2>3
    <2>4. rule'.state = rule.state /\ rule'.id = rule.id
          BY <2>2, <2>3
    <2> QED BY <1>1, <2>1, <2>4
  <1>6. CASE UNCHANGED depotVars
        BY <1>1, <1>6 DEF depotVars
  <1> QED BY <1>2, <1>3, <1>4, <1>5, <1>6 DEF Depot!Next

LEMMA ValuationSteps == ValuationInv /\ [Depot!Next]_depotVars => ValuationInv'
  <1> SUFFICES ASSUME ValuationInv, [Depot!Next]_depotVars PROVE ValuationInv'
      OBVIOUS
  <1>1. CASE Depot!ReadHoldings
    <2>1. /\ valuer'.left = imported.last /\ DOMAIN valuer'.seen = imported.last
          /\ valuer'.failed = FALSE /\ valuer'.valued = {}
          BY <1>1 DEF Depot!ReadHoldings, Depot!Unread
    <2> QED BY <2>1 DEF ValuationInv
  <1>2. CASE Depot!ReadHealth
    <2>1. /\ valuer.at # "rest" /\ valuer'.left = valuer.left /\ valuer'.seen = valuer.seen
          /\ valuer'.failed = valuer.failed /\ valuer'.valued = valuer.valued
          BY <1>2 DEF Depot!ReadHealth
    <2> QED BY <2>1 DEF ValuationInv
  <1>3. ASSUME NEW i \in Isins, Depot!ValuePosition(i) PROVE ValuationInv'
    <2> DEFINE confirmed == valuer.seen[i]
               sound == /\ i \in valuer.healthy /\ Depot!SameMoney(quotes[i].of, confirmed)
                        /\ Depot!Convertible(confirmed[1])
               v == [isin |-> i, price |-> quotes[i].of[1], as |-> confirmed[1]]
    <2>1. /\ valuer.at = "value" /\ i \in valuer.left /\ valuer'.left = valuer.left \ {i}
          /\ valuer'.seen = valuer.seen
          BY <1>3 DEF Depot!ValuePosition
    <2>2. valuer'.failed = (valuer.failed \/ ~sound)
      <3>1. valuer' = [valuer EXCEPT !.left = @ \ {i}, !.failed = @ \/ ~sound,
                         !.valued = IF sound THEN @ \cup {v} ELSE @]
            BY <1>3 DEF Depot!ValuePosition
      <3>2. PICK f : f = (valuer.failed \/ ~sound)
            OBVIOUS
      <3>3. valuer' = [valuer EXCEPT !.left = @ \ {i}, !.failed = f,
                         !.valued = IF sound THEN @ \cup {v} ELSE @]
            BY <3>1, <3>2, Zenon
      <3> HIDE DEF sound, v
      <3>4. valuer'.failed = f
            BY <3>3
      <3> QED BY <3>2, <3>4
    <2>3. valuer'.valued = IF sound THEN valuer.valued \cup {v} ELSE valuer.valued
          BY <1>3 DEF Depot!ValuePosition
    <2>4. v.isin = i /\ (sound => (v.price \in Abroad <=> v.as \in Abroad))
          BY DEF Depot!SameMoney
    <2> HIDE DEF v, sound
    <2>5. CASE sound
          BY <2>1, <2>2, <2>3, <2>4, <2>5 DEF ValuationInv
    <2>6. CASE ~sound
          BY <2>1, <2>2, <2>3, <2>6 DEF ValuationInv
    <2> QED BY <2>5, <2>6
  <1>4. CASE Depot!ValuationEnds
    <2>1. valuer'.at = "rest"
          BY <1>4 DEF Depot!ValuationEnds, Depot!Unread
    <2> QED BY <2>1 DEF ValuationInv
  <1>5. CASE UNCHANGED valuer
        BY <1>5 DEF ValuationInv
  <1>6. ASSUME NEW p \in Depot!Refreshers, Depot!Refresh(p) PROVE UNCHANGED valuer
        BY <1>6 DEF Depot!Refresh, Depot!RefreshStarts, Depot!Fetch, Depot!StoreQuote, Depot!RefuseQuote, Depot!ReadRules,
                    Depot!EvaluateAlerts, Depot!RefreshEnds, Depot!RefreshDies
  <1>7. CASE Depot!User \/ Depot!Ages
        BY <1>5, <1>7 DEF Depot!User, Depot!Ages, Depot!ImportSnapshot, Depot!WatchlistAdd, Depot!WatchlistDisable,
                    Depot!AlertAdd, Depot!AlertDisable
  <1> QED BY <1>1, <1>2, <1>3, <1>4, <1>5, <1>6, <1>7 DEF Depot!Next, Depot!Valuation, depotVars

LEMMA DepotShows == AlarmsInv /\ ValuationInv => Depot!TotalsAreOfOneMoney /\ Depot!OneAlarmPerCrossing
  <1> SUFFICES ASSUME AlarmsInv, ValuationInv PROVE Depot!TotalsAreOfOneMoney /\ Depot!OneAlarmPerCrossing
      OBVIOUS
  <1>1. Depot!TotalsAreOfOneMoney
        BY DEF ValuationInv, Depot!TotalsAreOfOneMoney, Depot!Totals
  <1>2. Depot!OneAlarmPerCrossing
        BY DEF AlarmsInv, Depot!OneAlarmPerCrossing
  <1> QED BY <1>1, <1>2

DepotInv == turn = "depot" => AlarmsInv /\ ValuationInv

\* Totals stand only for the whole depot in one money, and a process reports a crossing
\* once, for any depot, listings, snapshots and rules.
THEOREM DepotHolds == AllSpec => []DepotIsTrue
  <1>1. AllInit => DepotInv
        BY DepotStarts DEF AllInit, DepotInv
  <1>2. DepotInv /\ [AllNext]_allVars => DepotInv'
        BY OneTurn, AlarmsSteps, ValuationSteps DEF DepotInv
  <1>3. DepotInv => DepotIsTrue
        BY DepotShows DEF DepotInv, DepotIsTrue
  <1> QED BY <1>1, <1>2, <1>3, PTL DEF AllSpec
-----------------------------------------------------------------------------
(* ActionObligation: a write for an agreement, and an answer for a write *)

IsSeq(s) == \E S : s \in Seq(S)

\* The calls of a turn that were carried out.
RanIn(t) == {n \in 1..Len(bound) : bound[n].run = t /\ bound[n].ran > 0}

\* A turn counts no more than was carried out in it, has proof only of what was, and
\* once it is answered has no open obligation and says "done" only of what was.
Kept(run, ran) ==
    /\ run.obligation.done \in Nat /\ run.obligation.done <= Cardinality(ran)
    /\ Agreement!Shown(run) => ran # {}
    /\ run.sent \notin {<<>>, <<"aborted">>} /\ run.prompt # "chat" =>
          /\ run.sent = <<"done">> => ran # {}
          /\ run.obligation.kind # "none" => run.obligation.end # ""

\* A call that may yet be carried out, and one that was carried out at most once and
\* by agreement.
Waits(call) == call.ran = 0 /\ call.said \in {"", "allow"}
AgreedTo(call) == call.ran \in {0, 1} /\ (call.ran = 1 => call.said = "allow")

\* A nonce in the ledger was not used and not refused; what was used was agreed to.
LedgerInv ==
    /\ IsSeq(bound)
    /\ \A n \in ledger : n \in 1..Len(bound) /\ Waits(bound[n])
    /\ \A n \in 1..Len(bound) : AgreedTo(bound[n]) /\ bound[n].run \in 1..Len(turns)

AssentInv ==
    /\ LedgerInv /\ IsSeq(turns)
    /\ \A t \in 1..Len(turns) : Kept(turns[t], RanIn(t))

\* Sequences of whatever elements: a longer one and one with another element.
LEMMA SeqFacts ==
    ASSUME NEW s, IsSeq(s)
    PROVE  /\ Len(s) \in Nat /\ DOMAIN s = 1..Len(s)
           /\ \A x : /\ IsSeq(Append(s, x)) /\ Len(Append(s, x)) = Len(s) + 1
                     /\ Append(s, x)[Len(s) + 1] = x
                     /\ \A i \in 1..Len(s) : Append(s, x)[i] = s[i]
           /\ \A x, n : n \in 1..Len(s) =>
                 /\ IsSeq([s EXCEPT ![n] = x]) /\ Len([s EXCEPT ![n] = x]) = Len(s)
                 /\ [s EXCEPT ![n] = x][n] = x
                 /\ \A i \in 1..Len(s) : i # n => [s EXCEPT ![n] = x][i] = s[i]
  <1>1. PICK S : s \in Seq(S)
        BY DEF IsSeq
  <1>2. Len(s) \in Nat /\ DOMAIN s = 1..Len(s)
        BY <1>1
  <1>3. ASSUME NEW x
        PROVE  /\ IsSeq(Append(s, x)) /\ Len(Append(s, x)) = Len(s) + 1
               /\ Append(s, x)[Len(s) + 1] = x
               /\ \A i \in 1..Len(s) : Append(s, x)[i] = s[i]
    <2>1. s \in Seq(S \cup {x})
          BY <1>1
    <2>2. Append(s, x) \in Seq(S \cup {x})
          BY <2>1
    <2> QED BY <2>1, <2>2 DEF IsSeq
  <1>4. ASSUME NEW x, NEW n \in 1..Len(s)
        PROVE  /\ IsSeq([s EXCEPT ![n] = x]) /\ Len([s EXCEPT ![n] = x]) = Len(s)
               /\ [s EXCEPT ![n] = x][n] = x
               /\ \A i \in 1..Len(s) : i # n => [s EXCEPT ![n] = x][i] = s[i]
    <2>1. s \in Seq(S \cup {x})
          BY <1>1
    <2>2. [s EXCEPT ![n] = x] \in Seq(S \cup {x})
          BY <2>1
    <2> QED BY <1>2, <2>1, <2>2 DEF IsSeq
  <1> QED BY <1>2, <1>3, <1>4

Longer(s, s2, x) ==
    IsSeq(s2) /\ Len(s2) = Len(s) + 1 /\ s2[Len(s) + 1] = x /\ \A i \in 1..Len(s) : s2[i] = s[i]

LEMMA Appended == ASSUME NEW s, IsSeq(s), NEW x PROVE Longer(s, Append(s, x), x)
  BY SeqFacts DEF Longer

LEMMA RanIsFinite == ASSUME IsSeq(bound), NEW t PROVE IsFiniteSet(RanIn(t)) /\ Cardinality(RanIn(t)) \in Nat
  <1>1. IsFiniteSet(1..Len(bound))
        BY SeqFacts, FS_Interval
  <1>2. RanIn(t) \subseteq 1..Len(bound)
        BY DEF RanIn
  <1>3. IsFiniteSet(RanIn(t))
        BY <1>1, <1>2, FS_Subset
  <1> QED BY <1>3, FS_CardinalityType

\* The more is carried out, the more a turn may say.
LEMMA KeptOn ==
    ASSUME NEW run, NEW a, NEW b, Kept(run, a), a \subseteq b, IsFiniteSet(b)
    PROVE  Kept(run, b)
  <1>1. Cardinality(a) \in Nat /\ Cardinality(b) \in Nat /\ Cardinality(a) <= Cardinality(b)
        BY FS_Subset, FS_CardinalityType
  <1>2. run.obligation.done \in Nat /\ run.obligation.done <= Cardinality(b)
    <2> PICK d : d = run.obligation.done
        OBVIOUS
    <2>1. d \in Nat /\ d <= Cardinality(a)
          BY Zenon DEF Kept
    <2> QED BY <1>1, <2>1
  <1>3. a # {} => b # {}
        OBVIOUS
  <1>4. Agreement!Shown(run) => b # {}
        BY <1>3 DEF Kept
  <1> QED BY <1>2, <1>3, <1>4, Zenon DEF Kept

\* What has ended stays as it is; else a call ends the obligation, or is a read or a
\* write that counts.
LEMMA EndsCounts == ASSUME NEW x, NEW end PROVE Agreement!Ends(x, end).done = x.done
  BY DEF Agreement!Ends

LEMMA ReadCounts ==
    ASSUME NEW x, NEW op, NEW candidates
    PROVE  Agreement!AfterRead(x, op, candidates).done = x.done
  <1> DEFINE step == Agreement!NextStep(x, op)
             target == IF op = "preview" THEN candidates ELSE x.target
             next == [x EXCEPT !.step = step, !.target = target]
  <1>1. next.done = x.done
        OBVIOUS
  <1>2. \/ \E end : Agreement!AfterRead(x, op, candidates) = Agreement!Ends(x, end)
        \/ Agreement!AfterRead(x, op, candidates) = next
        BY DEF Agreement!AfterRead
  <1> HIDE DEF next
  <1> QED BY <1>1, <1>2, EndsCounts

LEMMA WriteCounts ==
    ASSUME NEW x, NEW op
    PROVE  Agreement!AfterWrite(x, op).done \in {x.done, x.done + 1}
  <1> DEFINE more == [x EXCEPT !.done = @ + 1]
             next == [x EXCEPT !.step = "execute-one", !.done = @ + 1]
  <1>1. more.done = x.done + 1 /\ next.done = x.done + 1
        OBVIOUS
  <1>2. \/ \E end : Agreement!AfterWrite(x, op) = Agreement!Ends(x, end)
        \/ Agreement!AfterWrite(x, op) = Agreement!Ends(more, "completed")
        \/ Agreement!AfterWrite(x, op) = next
        BY DEF Agreement!AfterWrite
  <1> HIDE DEF more, next
  <1> QED BY <1>1, <1>2, EndsCounts

LEMMA AdvanceEnds ==
    ASSUME NEW o, NEW op, NEW result, NEW candidates, o.kind = "none" \/ o.end # ""
    PROVE  Agreement!Advance(o, op, result, candidates) = o
  BY DEF Agreement!Advance

LEMMA AdvanceForms ==
    ASSUME NEW o, NEW op, NEW result, NEW candidates
    PROVE  \E x : /\ x.done = o.done
                  /\ \/ Agreement!Advance(o, op, result, candidates) = x
                     \/ \E end : Agreement!Advance(o, op, result, candidates) = Agreement!Ends(x, end)
                     \/ Agreement!Advance(o, op, result, candidates) = Agreement!AfterRead(x, op, candidates)
                     \/ /\ op \notin Agreement!Reads /\ result \notin {"refused", "failed"}
                        /\ Agreement!Advance(o, op, result, candidates) = Agreement!AfterWrite(x, op)
  <1> DEFINE counted == [o EXCEPT !.calls = @ + 1]
  <1>1. counted.done = o.done
        OBVIOUS
  <1>2. \/ Agreement!Advance(o, op, result, candidates) = o
        \/ \E end : Agreement!Advance(o, op, result, candidates) = Agreement!Ends(o, end)
        \/ \E end : Agreement!Advance(o, op, result, candidates) = Agreement!Ends(counted, end)
        \/ Agreement!Advance(o, op, result, candidates) = Agreement!AfterRead(counted, op, candidates)
        \/ /\ op \notin Agreement!Reads /\ result \notin {"refused", "failed"}
           /\ Agreement!Advance(o, op, result, candidates) = Agreement!AfterWrite(counted, op)
        BY DEF Agreement!Advance
  <1> HIDE DEF counted
  <1> QED BY <1>1, <1>2

\* A call counts at most once, and a read or what was not proved not at all.
LEMMA Counted ==
    ASSUME NEW o, NEW op, NEW result, NEW candidates
    PROVE  Agreement!Advance(o, op, result, candidates).done \in {o.done, o.done + 1}
  BY AdvanceForms, EndsCounts, ReadCounts, WriteCounts

LEMMA Uncounted ==
    ASSUME NEW o, NEW op, NEW result, NEW candidates, op \in Agreement!Reads \/ result \in {"refused", "failed"}
    PROVE  Agreement!Advance(o, op, result, candidates).done = o.done
  BY AdvanceForms, EndsCounts, ReadCounts

\* What a call leaves in its turn, and that it leaves the other turns alone.
LeftBy(run, new, op, result, candidates) ==
    /\ new.obligation = Agreement!Advance(run.obligation, op, result, candidates)
    /\ new.evidence = IF run.sent = <<>> THEN run.evidence \cup {Agreement!Evidence(op, result)} ELSE {}
    /\ new.sent = run.sent /\ new.prompt = run.prompt

OnlyAt(t, s, s2) ==
    IsSeq(s2) /\ Len(s2) = Len(s) /\ \A i \in 1..Len(s) : i # t => s2[i] = s[i]

With(s, t, x) == [s EXCEPT ![t] = x]

LEMMA ChangesAt ==
    ASSUME NEW s, IsSeq(s), NEW t \in 1..Len(s), NEW x
    PROVE  OnlyAt(t, s, With(s, t, x)) /\ With(s, t, x)[t] = x
  BY SeqFacts DEF OnlyAt, With

LEMMA Recorded ==
    ASSUME IsSeq(turns), NEW t \in 1..Len(turns), NEW op, NEW result, NEW candidates
    PROVE  /\ OnlyAt(t, turns, Agreement!Records(t, op, result, candidates))
           /\ LeftBy(turns[t], Agreement!Records(t, op, result, candidates)[t], op, result, candidates)
  <1> PICK ts : ts = Agreement!Records(t, op, result, candidates)
      OBVIOUS
  <1> PICK run : run = turns[t]
      OBVIOUS
  <1> DEFINE obligation == Agreement!Advance(run.obligation, op, result, candidates)
             evidence == IF run.sent = <<>> THEN run.evidence \cup {Agreement!Evidence(op, result)} ELSE {}
             new == [run EXCEPT !.obligation = obligation, !.evidence = evidence]
  <1>1. ts = [turns EXCEPT ![t].obligation = obligation, ![t].evidence = evidence]
        BY DEF Agreement!Records
  <1> HIDE DEF obligation, evidence
  <1>2. ts = With(turns, t, new)
        BY <1>1 DEF With
  <1>3. /\ new.obligation = obligation /\ new.evidence = evidence
        /\ new.sent = run.sent /\ new.prompt = run.prompt
        OBVIOUS
  <1> HIDE DEF new
  <1>4. OnlyAt(t, turns, ts) /\ ts[t] = new
        BY <1>2, ChangesAt
  <1>5. LeftBy(run, new, op, result, candidates)
        BY <1>3 DEF obligation, evidence, LeftBy
  <1> QED BY <1>4, <1>5

\* The preview that was shown is all the turn remembers more.
LEMMA Shows ==
    ASSUME NEW s, NEW ts, NEW t \in 1..Len(ts), OnlyAt(t, s, ts), NEW seen, NEW run, NEW op, NEW result, NEW candidates,
           LeftBy(run, ts[t], op, result, candidates)
    PROVE  /\ OnlyAt(t, s, [ts EXCEPT ![t].seen = seen])
           /\ LeftBy(run, [ts EXCEPT ![t].seen = seen][t], op, result, candidates)
  <1> PICK us : us = [ts EXCEPT ![t].seen = seen]
      OBVIOUS
  <1> PICK was : was = ts[t]
      OBVIOUS
  <1> DEFINE new == [was EXCEPT !.seen = seen]
  <1>1. us = With(ts, t, new)
        BY DEF With
  <1>2. /\ new.obligation = was.obligation /\ new.evidence = was.evidence
        /\ new.prompt = was.prompt /\ new.sent = was.sent
        OBVIOUS
  <1> HIDE DEF new
  <1>3. OnlyAt(t, ts, With(ts, t, new)) /\ With(ts, t, new)[t] = new
        BY ChangesAt DEF OnlyAt
  <1>4. OnlyAt(t, s, us) /\ us[t] = new
        BY <1>1, <1>3 DEF OnlyAt
  <1>5. LeftBy(run, new, op, result, candidates)
        BY <1>2 DEF LeftBy
  <1> QED BY <1>4, <1>5

\* One more was carried out, and one more may count.
LEMMA OneMore ==
    ASSUME NEW a, NEW b, a \subseteq b, IsFiniteSet(b), NEW n \in b, n \notin a,
           NEW d \in Nat, d <= Cardinality(a), NEW e \in {d, d + 1}
    PROVE  e \in Nat /\ e <= Cardinality(b)
  <1>1. IsFiniteSet(a) /\ IsFiniteSet(a \cup {n}) /\ Cardinality(a \cup {n}) = Cardinality(a) + 1
        BY FS_Subset, FS_AddElement
  <1>2. Cardinality(a \cup {n}) <= Cardinality(b)
        BY FS_Subset
  <1>3. Cardinality(a) \in Nat /\ Cardinality(b) \in Nat
        BY <1>1, FS_CardinalityType
  <1> QED BY <1>1, <1>2, <1>3

\* What is kept of a turn once a call of it was recorded: one that counts, or proves a
\* write, was carried out.
LEMMA KeptRecorded ==
    ASSUME NEW run, NEW new, NEW a, NEW b, NEW op, NEW result,
           Kept(run, a), a \subseteq b, IsFiniteSet(b),
           op \in Agreement!Reads \/ result \in {"refused", "failed"} \/ \E n \in b : n \notin a,
           op \in Writes /\ result = "verified" => b # {},
           new.obligation.done \in {run.obligation.done, run.obligation.done + 1},
           op \in Agreement!Reads \/ result \in {"refused", "failed"} => new.obligation.done = run.obligation.done,
           run.obligation.kind = "none" \/ run.obligation.end # "" => new.obligation = run.obligation,
           new.evidence = IF run.sent = <<>> THEN run.evidence \cup {Agreement!Evidence(op, result)} ELSE {},
           new.sent = run.sent, new.prompt = run.prompt
    PROVE  Kept(new, b)
  <1>1. Kept(run, b)
        BY KeptOn
  <1>2. run.obligation.done \in Nat /\ Cardinality(a) \in Nat /\ Cardinality(b) \in Nat
        BY FS_Subset, FS_CardinalityType DEF Kept
  <1>3. new.obligation.done \in Nat /\ new.obligation.done <= Cardinality(b)
    <2>1. CASE op \in Agreement!Reads \/ result \in {"refused", "failed"}
      <3>1. new.obligation.done = run.obligation.done
            BY <2>1
      <3> QED BY <1>1, <3>1 DEF Kept
    <2>2. CASE \E n \in b : n \notin a
      <3>1. PICK n \in b : n \notin a
            BY <2>2
      <3> DEFINE d == run.obligation.done
                 e == new.obligation.done
      <3>2. d \in Nat /\ d <= Cardinality(a)
            BY DEF Kept
      <3>3. e \in {d, d + 1}
            OBVIOUS
      <3> HIDE DEF d, e
      <3>4. e \in Nat /\ e <= Cardinality(b)
            BY <3>1, <3>2, <3>3, OneMore
      <3> QED BY <3>4 DEF e
    <2> QED BY <2>1, <2>2
  <1>4. Agreement!Shown(new) => b # {}
    <2> SUFFICES ASSUME NEW e \in new.evidence, e.wrote PROVE b # {}
        BY DEF Agreement!Shown
    <2>1. CASE e \in run.evidence
          BY <1>1, <2>1 DEF Kept, Agreement!Shown
    <2>2. CASE e = Agreement!Evidence(op, result)
      <3>1. Agreement!Evidence(op, result).wrote = (op \in Writes /\ result = "verified")
            BY DEF Agreement!Evidence
      <3> QED BY <2>2, <3>1
    <2> QED BY <2>1, <2>2
  <1>5. new.sent \notin {<<>>, <<"aborted">>} /\ new.prompt # "chat" =>
          /\ new.sent = <<"done">> => b # {}
          /\ new.obligation.kind # "none" => new.obligation.end # ""
    <2> SUFFICES ASSUME new.sent \notin {<<>>, <<"aborted">>}, new.prompt # "chat"
                 PROVE  /\ new.sent = <<"done">> => b # {}
                        /\ new.obligation.kind # "none" => new.obligation.end # ""
        OBVIOUS
    <2>1. /\ run.sent = <<"done">> => b # {}
          /\ run.obligation.kind # "none" => run.obligation.end # ""
          BY <1>1 DEF Kept
    <2>2. new.obligation = run.obligation
          BY <2>1
    <2> QED BY <2>1, <2>2
  <1> QED BY <1>3, <1>4, <1>5 DEF Kept

\* While a call is recorded, what was carried out in its turn grows from a to b: by
\* one if it counts, and to something if it proves a write.
CallMade(a, b, op, result) ==
    /\ a \subseteq b /\ IsFiniteSet(b)
    /\ op \in Agreement!Reads \/ result \in {"refused", "failed"} \/ \E n \in b : n \notin a
    /\ op \in Writes /\ result = "verified" => b # {}

LEMMA KeptCall ==
    ASSUME NEW run, NEW new, NEW a, NEW b, NEW op, NEW result, NEW candidates,
           Kept(run, a), LeftBy(run, new, op, result, candidates), CallMade(a, b, op, result)
    PROVE  Kept(new, b)
  <1>0. /\ new.obligation = Agreement!Advance(run.obligation, op, result, candidates)
        /\ new.evidence = IF run.sent = <<>> THEN run.evidence \cup {Agreement!Evidence(op, result)} ELSE {}
        /\ new.sent = run.sent /\ new.prompt = run.prompt
        BY Zenon DEF LeftBy
  <1>a. /\ a \subseteq b /\ IsFiniteSet(b)
        /\ op \in Agreement!Reads \/ result \in {"refused", "failed"} \/ \E n \in b : n \notin a
        /\ op \in Writes /\ result = "verified" => b # {}
        BY Zenon DEF CallMade
  <1>1. new.obligation.done \in {run.obligation.done, run.obligation.done + 1}
        BY <1>0, Counted
  <1>2. ASSUME op \in Agreement!Reads \/ result \in {"refused", "failed"}
        PROVE  new.obligation.done = run.obligation.done
        BY <1>0, <1>2, Uncounted
  <1>3. ASSUME run.obligation.kind = "none" \/ run.obligation.end # ""
        PROVE  new.obligation = run.obligation
        BY <1>0, <1>3, AdvanceEnds
  <1> QED BY <1>0, <1>a, <1>1, <1>2, <1>3, KeptRecorded

LEMMA SameCount == ASSUME NEW S PROVE Agreement!Cardinality(S) = Cardinality(S)
  BY DEF Agreement!Cardinality, Cardinality

LEMMA AssentStarts == Agreement!Init => AssentInv
  <1> SUFFICES ASSUME Agreement!Init PROVE AssentInv
      OBVIOUS
  <1>1. turns = <<>> /\ bound = <<>> /\ ledger = {}
        BY DEF Agreement!Init
  <1>2. <<>> \in Seq({}) /\ Len(<<>>) = 0
        OBVIOUS
  <1>3. IsSeq(turns) /\ IsSeq(bound) /\ Len(turns) = 0 /\ Len(bound) = 0
        BY <1>1, <1>2 DEF IsSeq
  <1>4. LedgerInv
        BY <1>1, <1>3 DEF LedgerInv
  <1> QED BY <1>3, <1>4 DEF AssentInv

LEMMA RanGrows ==
    ASSUME IsSeq(bound), IsSeq(bound'), Len(bound') >= Len(bound),
           \A n \in 1..Len(bound) : bound'[n].run = bound[n].run /\ (bound[n].ran > 0 => bound'[n].ran > 0),
           NEW t
    PROVE  RanIn(t) \subseteq RanIn(t)' /\ IsFiniteSet(RanIn(t)')
  <1>1. Len(bound) \in Nat /\ Len(bound') \in Nat
        BY SeqFacts
  <1>2. IsFiniteSet(1..Len(bound'))
        BY <1>1, FS_Interval
  <1>3. RanIn(t)' \subseteq 1..Len(bound')
        BY DEF RanIn
  <1>4. IsFiniteSet(RanIn(t)')
        BY <1>2, <1>3, FS_Subset
  <1>5. RanIn(t) \subseteq RanIn(t)'
        BY <1>1 DEF RanIn
  <1> QED BY <1>4, <1>5

LEMMA LedgerStays ==
    ASSUME LedgerInv, IsSeq(turns), IsSeq(turns'), UNCHANGED bound, ledger' \subseteq ledger, Len(turns') >= Len(turns)
    PROVE  LedgerInv'
  <1>1. Len(turns) \in Nat /\ Len(turns') \in Nat
        BY SeqFacts
  <1>2. IsSeq(bound')
        BY DEF LedgerInv
  <1>3. \A n \in ledger' : n \in 1..Len(bound') /\ Waits(bound'[n])
        BY DEF LedgerInv
  <1>4. ASSUME NEW n \in 1..Len(bound')
        PROVE  AgreedTo(bound'[n]) /\ bound'[n].run \in 1..Len(turns')
    <2>1. AgreedTo(bound[n]) /\ bound[n].run \in 1..Len(turns)
          BY DEF LedgerInv
    <2>2. 1..Len(turns) \subseteq 1..Len(turns')
          BY <1>1
    <2> QED BY <2>1, <2>2
  <1> QED BY <1>2, <1>3, <1>4 DEF LedgerInv

\* No call is undone.
CallsStay ==
    /\ Len(bound') >= Len(bound)
    /\ \A n \in 1..Len(bound) : bound'[n].run = bound[n].run /\ (bound[n].ran > 0 => bound'[n].ran > 0)

\* What one turn does leaves the others as they are.
LEMMA OneTurnChanges ==
    ASSUME AssentInv, LedgerInv', CallsStay, NEW t \in 1..Len(turns), OnlyAt(t, turns, turns'),
           Kept(turns'[t], RanIn(t)')
    PROVE  AssentInv'
  <1>1. IsSeq(bound) /\ IsSeq(bound') /\ \A i \in 1..Len(turns) : Kept(turns[i], RanIn(i))
        BY DEF AssentInv, LedgerInv
  <1>2. ASSUME NEW i \in 1..Len(turns') PROVE Kept(turns'[i], RanIn(i)')
    <2>1. RanIn(i) \subseteq RanIn(i)' /\ IsFiniteSet(RanIn(i)')
          BY <1>1, RanGrows DEF CallsStay
    <2>2. CASE i # t
      <3>1. turns'[i] = turns[i] /\ Kept(turns[i], RanIn(i))
            BY <1>1, <2>2 DEF OnlyAt
      <3>2. Kept(turns[i], RanIn(i)')
            BY <2>1, <3>1, KeptOn
      <3> QED BY <3>1, <3>2
    <2> QED BY <2>2
  <1> QED BY <1>2 DEF AssentInv, OnlyAt

LEMMA CallRecorded ==
    ASSUME AssentInv, LedgerInv', CallsStay, NEW t \in 1..Len(turns), OnlyAt(t, turns, turns'),
           NEW op, NEW result, NEW candidates, LeftBy(turns[t], turns'[t], op, result, candidates),
           NEW a, NEW b, a = RanIn(t), b = RanIn(t)', CallMade(a, b, op, result)
    PROVE  AssentInv'
  <1>1. Kept(turns[t], a)
        BY DEF AssentInv
  <1>2. Kept(turns'[t], b)
        BY <1>1, KeptCall
  <1> QED BY <1>2, OneTurnChanges

\* A turn that only forgets, or is ended without an answer.
LEMMA KeptLess ==
    ASSUME NEW run, NEW new, NEW ran, Kept(run, ran), new.obligation = run.obligation,
           new.evidence \subseteq run.evidence, new.prompt = run.prompt, new.sent = run.sent \/ new.sent = <<"aborted">>
    PROVE  Kept(new, ran)
  <1>1. Agreement!Shown(new) => Agreement!Shown(run)
        BY DEF Agreement!Shown
  <1> QED BY <1>1 DEF Kept

LEMMA ReadSteps ==
    ASSUME AssentInv, NEW op \in Agreement!Reads, Agreement!Read(op)
    PROVE  AssentInv'
  <1> PICK now : now = Len(turns)
      OBVIOUS
  <1>0. LedgerInv /\ IsSeq(bound) /\ IsSeq(turns) /\ Len(turns) \in Nat /\ Len(bound) \in Nat
        BY SeqFacts DEF AssentInv, LedgerInv
  <1>1. Agreement!Free /\ UNCHANGED <<bound, ledger>>
        BY Zenon DEF Agreement!Read
  <1>2. Agreement!Running
        BY <1>1, Zenon DEF Agreement!Free
  <1>3. now \in 1..Len(turns)
        BY <1>0, <1>2 DEF Agreement!Running, Agreement!Now
  <1>4. PICK result, candidates :
           turns' = [Agreement!Records(Agreement!Now, op, result, candidates)
                       EXCEPT ![Agreement!Now].seen = IF op = "preview" /\ result = "verified" THEN <<entered>> ELSE @]
        BY Zenon DEF Agreement!Read
  <1> PICK ts : ts = Agreement!Records(now, op, result, candidates)
      OBVIOUS
  <1> PICK seen : seen = IF op = "preview" /\ result = "verified" THEN <<entered>> ELSE ts[now].seen
      OBVIOUS
  <1>5. turns' = [ts EXCEPT ![now].seen = seen]
        BY <1>4 DEF Agreement!Now
  <1>6. OnlyAt(now, turns, ts) /\ LeftBy(turns[now], ts[now], op, result, candidates)
        BY <1>0, <1>3, Recorded
  <1>7. OnlyAt(now, turns, turns') /\ LeftBy(turns[now], turns'[now], op, result, candidates)
    <2>1. now \in 1..Len(ts)
          BY <1>3, <1>6 DEF OnlyAt
    <2> QED BY <1>5, <1>6, <2>1, Shows
  <1>8. RanIn(now)' = RanIn(now) /\ LedgerInv' /\ CallsStay
    <2>1. IsSeq(turns') /\ Len(turns') = Len(turns)
          BY <1>7 DEF OnlyAt
    <2>2. RanIn(now)' = RanIn(now)
          BY <1>1 DEF RanIn
    <2>3. LedgerInv'
          BY <1>0, <1>1, <2>1, LedgerStays
    <2>4. CallsStay
          BY <1>0, <1>1 DEF CallsStay
    <2> QED BY <2>2, <2>3, <2>4
  <1>9. CallMade(RanIn(now), RanIn(now), op, result)
    <2>1. op \notin Writes
          BY RecordsAssumption DEF RecordsAssumption, Agreement!Reads
    <2>2. IsFiniteSet(RanIn(now))
          BY <1>0, RanIsFinite
    <2> QED BY <2>1, <2>2, Zenon DEF CallMade
  <1> QED BY <1>3, <1>7, <1>8, <1>9, CallRecorded

Tried(call, result) == [call EXCEPT !.tries = @ + 1, !.ran = @ + IF result = "refused" THEN 0 ELSE 1]

MayRun(call, result) == AgreedTo(call) /\ (result # "refused" => call.ran = 0 /\ call.said = "allow")

LEMMA RanOnce ==
    ASSUME NEW call, NEW result, MayRun(call, result)
    PROVE  /\ AgreedTo(Tried(call, result)) /\ (call.ran > 0 => Tried(call, result).ran > 0)
           /\ Tried(call, result).run = call.run
           /\ result # "refused" => call.ran = 0 /\ Tried(call, result).ran = 1
  <1> PICK new : new = Tried(call, result)
      OBVIOUS
  <1>0. call.ran \in {0, 1} /\ (call.ran = 1 => call.said = "allow")
        BY DEF MayRun, AgreedTo
  <1>a. result # "refused" => call.ran = 0 /\ call.said = "allow"
        BY DEF MayRun
  <1>1. new.run = call.run /\ new.said = call.said
        BY DEF Tried
  <1>2. CASE result = "refused"
    <2>1. new.ran = call.ran + 0
          BY <1>2 DEF Tried
    <2> QED BY <1>0, <1>1, <1>2, <2>1 DEF AgreedTo
  <1>3. CASE result # "refused"
    <2>1. new.ran = call.ran + 1 /\ call.ran = 0 /\ call.said = "allow"
          BY <1>a, <1>3 DEF Tried
    <2> QED BY <1>1, <1>3, <2>1 DEF AgreedTo
  <1> QED BY <1>2, <1>3

\* A call is carried out only while its nonce is in the ledger, and is not in it after.
LEMMA ExecuteSteps ==
    ASSUME AssentInv, NEW n \in 1..Len(bound), Agreement!ExecuteOperation(n)
    PROVE  AssentInv'
  <1> PICK t : t = bound[n].run
      OBVIOUS
  <1> PICK op : op = bound[n].op
      OBVIOUS
  <1> PICK call : call = bound[n]
      OBVIOUS
  <1>0. LedgerInv /\ IsSeq(bound) /\ IsSeq(turns) /\ Len(turns) \in Nat /\ Len(bound) \in Nat
        BY SeqFacts DEF AssentInv, LedgerInv
  <1>1. /\ call.ran \in {0, 1} /\ (call.ran = 1 => call.said = "allow") /\ t \in 1..Len(turns) /\ call.run = t
        /\ n \in ledger => call.ran = 0 /\ call.said \in {"", "allow"}
        BY <1>0 DEF LedgerInv, AgreedTo, Waits
  <1>2. call.said # "" /\ ledger' = ledger \ {n}
        BY DEF Agreement!ExecuteOperation, Agreement!Consumed
  <1>3. PICK result \in {"refused", "verified", "failed"} :
           /\ (result = "refused") = (n \notin ledger)
           /\ bound' = [bound EXCEPT ![n].tries = @ + 1, ![n].ran = @ + IF result = "refused" THEN 0 ELSE 1]
           /\ turns' = Agreement!Records(t, op, result, 0)
    <2>1. Agreement!RunOf(n) = t
          BY DEF Agreement!RunOf
    <2>2. PICK result \in {"refused", "verified", "failed"} :
           /\ (result = "refused") = (n \notin ledger)
           /\ bound' = [bound EXCEPT ![n].tries = @ + 1, ![n].ran = @ + IF result = "refused" THEN 0 ELSE 1]
           /\ turns' = Agreement!Records(Agreement!RunOf(n), bound[n].op, result, 0)
          BY Zenon DEF Agreement!ExecuteOperation
    <2> QED BY <2>1, <2>2
  <1> PICK new : new = Tried(call, result)
      OBVIOUS
  <1>4. bound' = With(bound, n, new)
        BY <1>3 DEF With, Tried
  <1>5. result # "refused" => call.ran = 0 /\ call.said = "allow"
        BY <1>1, <1>2, <1>3
  <1>6. MayRun(call, result)
        BY <1>1, <1>5 DEF MayRun, AgreedTo
  <1>a. /\ AgreedTo(Tried(call, result)) /\ (call.ran > 0 => Tried(call, result).ran > 0)
        /\ Tried(call, result).run = call.run
        /\ result # "refused" => call.ran = 0 /\ Tried(call, result).ran = 1
        BY <1>6, RanOnce
  <1>7. /\ AgreedTo(new) /\ (call.ran > 0 => new.ran > 0) /\ new.run = t
        /\ result # "refused" => call.ran = 0 /\ new.ran = 1
        BY <1>1, <1>a
  <1>8. IsSeq(bound') /\ Len(bound') = Len(bound) /\ bound'[n] = new /\ \A m \in 1..Len(bound) : m # n => bound'[m] = bound[m]
        BY <1>0, <1>4, ChangesAt DEF OnlyAt
  <1>9. OnlyAt(t, turns, turns') /\ LeftBy(turns[t], turns'[t], op, result, 0)
        BY <1>0, <1>1, <1>3, Recorded
  <1>10. LedgerInv'
    <2>1. ASSUME NEW m \in ledger'
          PROVE  m \in 1..Len(bound') /\ Waits(bound'[m])
          BY <1>0, <1>2, <1>8, <2>1 DEF LedgerInv
    <2>2. ASSUME NEW m \in 1..Len(bound')
          PROVE  AgreedTo(bound'[m]) /\ bound'[m].run \in 1..Len(turns')
      <3>1. Len(turns') = Len(turns)
            BY <1>9 DEF OnlyAt
      <3>2. CASE m = n
            BY <1>1, <1>7, <1>8, <3>1, <3>2
      <3>3. CASE m # n
            BY <1>0, <1>8, <3>1, <3>3 DEF LedgerInv
      <3> QED BY <3>2, <3>3
    <2> QED BY <1>8, <2>1, <2>2 DEF LedgerInv
  <1>11. CallsStay
    <2>1. \A m \in 1..Len(bound) : bound'[m].run = bound[m].run /\ (bound[m].ran > 0 => bound'[m].ran > 0)
      <3> TAKE m \in 1..Len(bound)
      <3>1. CASE m = n
            BY <1>1, <1>5, <1>7, <1>8, <3>1
      <3>2. CASE m # n
            BY <1>8, <3>2
      <3> QED BY <3>1, <3>2
    <2> QED BY <1>0, <1>8, <2>1 DEF CallsStay
  <1> PICK a : a = RanIn(t)
      OBVIOUS
  <1> PICK b : b = RanIn(t)'
      OBVIOUS
  <1>12. CallMade(a, b, op, result)
    <2>1. a \subseteq b /\ IsFiniteSet(b)
          BY <1>0, <1>8, <1>11, RanGrows DEF CallsStay
    <2>2. ASSUME result # "refused" PROVE n \in b /\ n \notin a
      <3>1. call.ran = 0 /\ bound'[n].ran = 1 /\ bound'[n].run = t
            BY <1>5, <1>7, <1>8, <2>2
      <3>2. n \notin a
            BY <3>1 DEF RanIn
      <3>3. n \in 1..Len(bound') /\ bound'[n].run = t /\ bound'[n].ran > 0
            BY <1>8, <3>1
      <3>4. n \in b
            BY <3>3 DEF RanIn
      <3> QED BY <3>2, <3>4
    <2>3. result = "refused" \/ \E m \in b : m \notin a
          BY <2>2
    <2> QED BY <2>1, <2>2, <2>3 DEF CallMade
  <1> QED BY <1>1, <1>9, <1>10, <1>11, <1>12, CallRecorded

LEMMA CallsUnchanged ==
    ASSUME AssentInv, UNCHANGED bound, ledger' \subseteq ledger, NEW t \in 1..Len(turns), OnlyAt(t, turns, turns'),
           Kept(turns'[t], RanIn(t))
    PROVE  AssentInv'
  <1>0. LedgerInv /\ IsSeq(bound) /\ IsSeq(turns) /\ Len(turns) \in Nat /\ Len(bound) \in Nat
        BY SeqFacts DEF AssentInv, LedgerInv
  <1>1. IsSeq(turns') /\ Len(turns') = Len(turns)
        BY DEF OnlyAt
  <1>2. RanIn(t)' = RanIn(t)
        BY DEF RanIn
  <1>3. LedgerInv'
        BY <1>0, <1>1, LedgerStays
  <1>4. CallsStay
        BY <1>0 DEF CallsStay
  <1> QED BY <1>2, <1>3, <1>4, OneTurnChanges

LEMMA TurnsUnchanged ==
    ASSUME AssentInv, UNCHANGED <<bound, turns>>, ledger' \subseteq ledger
    PROVE  AssentInv'
  <1>0. LedgerInv /\ IsSeq(turns) /\ Len(turns) \in Nat
        BY SeqFacts DEF AssentInv, LedgerInv
  <1>1. LedgerInv'
        BY <1>0, LedgerStays
  <1>2. ASSUME NEW t PROVE RanIn(t)' = RanIn(t)
        BY DEF RanIn
  <1> QED BY <1>1, <1>2 DEF AssentInv

LEMMA PromptSteps ==
    ASSUME AssentInv, NEW prompt \in Prompts, Agreement!BeforePromptBuild(prompt)
    PROVE  AssentInv'
  <1>0. /\ LedgerInv /\ IsSeq(bound) /\ IsSeq(turns) /\ Len(turns) \in Nat /\ Len(bound) \in Nat
        /\ \A t \in 1..Len(turns) : Kept(turns[t], RanIn(t))
        BY SeqFacts DEF AssentInv, LedgerInv
  <1> PICK now : now = Len(turns)
      OBVIOUS
  <1>1. PICK asked, confirmed : turns' = Append(turns, Agreement!Turn(asked, confirmed))
        BY DEF Agreement!BeforePromptBuild
  <1>2. UNCHANGED <<bound, ledger>>
        BY DEF Agreement!BeforePromptBuild
  <1> PICK new : new = Agreement!Turn(asked, confirmed)
      OBVIOUS
  <1>3. new.obligation.done = 0 /\ new.evidence = {} /\ new.sent = <<>>
        BY DEF Agreement!Turn, Agreement!Build, Agreement!None
  <1>4. /\ IsSeq(turns') /\ Len(turns') = now + 1 /\ turns'[now + 1] = new
        /\ \A i \in 1..now : turns'[i] = turns[i]
        BY <1>0, <1>1, SeqFacts
  <1>5. LedgerInv'
        BY <1>0, <1>2, <1>4, LedgerStays
  <1>6. ASSUME NEW t PROVE RanIn(t)' = RanIn(t)
        BY <1>2 DEF RanIn
  <1>7. Kept(new, RanIn(now + 1))
    <2>1. Cardinality(RanIn(now + 1)) \in Nat
          BY <1>0, RanIsFinite
    <2>2. ~Agreement!Shown(new)
          BY <1>3 DEF Agreement!Shown
    <2> QED BY <1>3, <2>1, <2>2 DEF Kept
  <1>8. ASSUME NEW t \in 1..Len(turns') PROVE Kept(turns'[t], RanIn(t)')
    <2>1. CASE t = now + 1
          BY <1>4, <1>6, <1>7, <2>1
    <2>2. CASE t # now + 1
          BY <1>0, <1>4, <1>6, <2>2
    <2> QED BY <2>1, <2>2
  <1> QED BY <1>4, <1>5, <1>8 DEF AssentInv

Forgetful(run) == [run EXCEPT !.confirmed = <<>>]

LEMMA KeptForgetful ==
    ASSUME NEW run, NEW ran, Kept(run, ran)
    PROVE  Kept(Forgetful(run), ran)
  <1> PICK new : new = Forgetful(run)
      OBVIOUS
  <1>1. new.obligation = run.obligation /\ new.evidence = run.evidence /\ new.prompt = run.prompt /\ new.sent = run.sent
        BY DEF Forgetful
  <1>2. Kept(new, ran)
        BY <1>1, KeptLess
  <1> QED BY <1>2

\* The ledger takes up a new call, or one of its calls goes on.
LEMMA LedgerGrows ==
    ASSUME LedgerInv, NEW new, Longer(bound, bound', new), NEW last, last = Len(bound) + 1,
           ledger' = ledger \cup {last}, Waits(new), AgreedTo(new), new.run \in 1..Len(turns), Len(turns') = Len(turns)
    PROVE  LedgerInv' /\ CallsStay
  <1>0. Len(bound) \in Nat /\ IsSeq(bound)
        BY SeqFacts DEF LedgerInv
  <1>1. IsSeq(bound') /\ Len(bound') = last
        BY DEF Longer
  <1>2. bound'[last] = new
        BY DEF Longer
  <1>3. \A n \in 1..Len(bound) : bound'[n] = bound[n]
        BY DEF Longer
  <1>4. 1..Len(bound') = 1..Len(bound) \cup {last} /\ last \in Nat
        BY <1>0, <1>1
  <1>5. ASSUME NEW n \in ledger' PROVE n \in 1..Len(bound') /\ Waits(bound'[n])
    <2>1. CASE n = last
          BY <1>2, <1>4, <2>1
    <2>2. CASE n \in ledger
      <3>1. n \in 1..Len(bound) /\ Waits(bound[n])
            BY <2>2 DEF LedgerInv
      <3> QED BY <1>3, <1>4, <3>1
    <2> QED BY <2>1, <2>2
  <1>6. ASSUME NEW n \in 1..Len(bound') PROVE AgreedTo(bound'[n]) /\ bound'[n].run \in 1..Len(turns')
    <2>1. CASE n = last
          BY <1>2, <2>1
    <2>2. CASE n \in 1..Len(bound)
      <3>1. AgreedTo(bound[n]) /\ bound[n].run \in 1..Len(turns)
            BY <2>2 DEF LedgerInv
      <3> QED BY <1>3, <2>2, <3>1
    <2> QED BY <1>4, <2>1, <2>2
  <1>7. CallsStay
        BY <1>0, <1>1, <1>3 DEF CallsStay
  <1> QED BY <1>1, <1>5, <1>6, <1>7 DEF LedgerInv

LEMMA LedgerGoesOn ==
    ASSUME LedgerInv, NEW n \in 1..Len(bound), OnlyAt(n, bound, bound'), ledger' \subseteq ledger,
           NEW new, bound'[n] = new, NEW call, bound[n] = call, AgreedTo(new), n \in ledger' => Waits(new),
           new.run = call.run, call.ran > 0 => new.ran > 0, Len(turns') = Len(turns)
    PROVE  LedgerInv' /\ CallsStay
  <1>0. Len(bound) \in Nat /\ IsSeq(bound)
        BY SeqFacts DEF LedgerInv
  <1>1. IsSeq(bound') /\ Len(bound') = Len(bound)
        BY DEF OnlyAt
  <1>2. \A m \in 1..Len(bound) : m # n => bound'[m] = bound[m]
        BY DEF OnlyAt
  <1>3. ASSUME NEW m \in ledger' PROVE m \in 1..Len(bound') /\ Waits(bound'[m])
    <2>1. m \in 1..Len(bound) /\ Waits(bound[m])
          BY DEF LedgerInv
    <2>2. CASE m = n
          BY <1>1, <2>2
    <2>3. CASE m # n
          BY <1>1, <1>2, <2>1, <2>3
    <2> QED BY <2>2, <2>3
  <1>4. ASSUME NEW m \in 1..Len(bound') PROVE AgreedTo(bound'[m]) /\ bound'[m].run \in 1..Len(turns')
    <2>0. m \in 1..Len(bound)
          BY <1>1
    <2>1. AgreedTo(bound[m]) /\ bound[m].run \in 1..Len(turns)
          BY <2>0 DEF LedgerInv
    <2>2. CASE m = n
          BY <2>1, <2>2
    <2>3. CASE m # n
          BY <1>2, <2>0, <2>1, <2>3
    <2> QED BY <2>2, <2>3
  <1>5. ASSUME NEW m \in 1..Len(bound) PROVE bound'[m].run = bound[m].run /\ (bound[m].ran > 0 => bound'[m].ran > 0)
    <2>1. CASE m = n
          BY <2>1
    <2>2. CASE m # n
          BY <1>2, <2>2
    <2> QED BY <2>1, <2>2
  <1>6. CallsStay
        BY <1>0, <1>1, <1>5 DEF CallsStay
  <1> QED BY <1>1, <1>3, <1>4, <1>6 DEF LedgerInv

NewCall(a, run, said) ==
    [op |-> a.op, flight |-> a.flight, seen |-> a.seen, run |-> run, said |-> said, ran |-> 0, tries |-> 0]

LEMMA NewCallIs ==
    ASSUME NEW a, NEW run, NEW said
    PROVE  NewCall(a, run, said).ran = 0 /\ NewCall(a, run, said).said = said /\ NewCall(a, run, said).run = run
  BY DEF NewCall

Sayable(said) == said \in {"", "allow"}

LEMMA NewCalls ==
    ASSUME NEW a, NEW run, NEW said, Sayable(said)
    PROVE  Waits(NewCall(a, run, said)) /\ AgreedTo(NewCall(a, run, said)) /\ NewCall(a, run, said).run = run
  <1> PICK new : new = NewCall(a, run, said)
      OBVIOUS
  <1>1. new.ran = 0 /\ new.said = said /\ new.run = run
        BY NewCallIs
  <1>2. Waits(new)
        BY <1>1, Zenon DEF Waits, Sayable
  <1>3. AgreedTo(new)
    <2>1. 0 # 1
          OBVIOUS
    <2> QED BY <1>1, <2>1, Zenon DEF AgreedTo
  <1> QED BY <1>1, <1>2, <1>3

LEMMA BindSteps ==
    ASSUME AssentInv, NEW a, Agreement!BeforeToolCall(a)
    PROVE  AssentInv'
  <1>0. LedgerInv /\ IsSeq(bound) /\ IsSeq(turns) /\ Len(turns) \in Nat /\ Len(bound) \in Nat
        BY SeqFacts DEF AssentInv, LedgerInv
  <1> PICK now : now = Len(turns)
      OBVIOUS
  <1> PICK last : last = Len(bound) + 1
      OBVIOUS
  <1>1. now \in 1..Len(turns)
    <2>1. Agreement!Running
          BY Zenon DEF Agreement!BeforeToolCall, Agreement!Free
    <2> QED BY <1>0, <2>1 DEF Agreement!Running, Agreement!Now
  <1>2. ledger' = ledger \cup {last}
        BY DEF Agreement!BeforeToolCall
  <1>3. PICK said \in {"", "allow"} : bound' = Append(bound, NewCall(a, now, said))
        BY DEF Agreement!BeforeToolCall, Agreement!Now, NewCall
  <1>4. Longer(bound, bound', NewCall(a, now, said))
        BY <1>0, <1>3, Appended
  <1>5. turns' = turns \/ turns' = [turns EXCEPT ![now].confirmed = <<>>]
        BY DEF Agreement!BeforeToolCall, Agreement!Now
  <1>6. OnlyAt(now, turns, turns') /\ Kept(turns'[now], RanIn(now))
    <2> PICK run : run = turns[now]
        OBVIOUS
    <2>1. Kept(run, RanIn(now))
          BY <1>1 DEF AssentInv
    <2>2. CASE turns' = turns
          BY <1>0, <2>1, <2>2 DEF OnlyAt
    <2>3. CASE turns' = [turns EXCEPT ![now].confirmed = <<>>]
      <3>1. turns' = With(turns, now, Forgetful(run))
            BY <2>3 DEF With, Forgetful
      <3>2. Kept(Forgetful(run), RanIn(now))
            BY <2>1, KeptForgetful
      <3> QED BY <1>0, <1>1, <3>1, <3>2, ChangesAt
    <2> QED BY <1>5, <2>2, <2>3
  <1>7. LedgerInv' /\ CallsStay
    <2>1. Waits(NewCall(a, now, said)) /\ AgreedTo(NewCall(a, now, said)) /\ NewCall(a, now, said).run \in 1..Len(turns)
          BY <1>1, NewCalls DEF Sayable
    <2>2. Len(turns') = Len(turns)
          BY <1>6 DEF OnlyAt
    <2> QED BY <1>0, <1>2, <1>4, <2>1, <2>2, LedgerGrows
  <1>8. Kept(turns'[now], RanIn(now)')
    <2>1. IsSeq(bound')
          BY <1>7 DEF LedgerInv
    <2>2. RanIn(now) \subseteq RanIn(now)' /\ IsFiniteSet(RanIn(now)')
          BY <1>0, <1>7, <2>1, RanGrows DEF CallsStay
    <2> QED BY <1>6, <2>2, KeptOn
  <1> QED BY <1>1, <1>6, <1>7, <1>8, OneTurnChanges

Said(call, words) == [call EXCEPT !.said = words]

LEMMA SaidIs ==
    ASSUME NEW call, NEW words
    PROVE  Said(call, words).run = call.run /\ Said(call, words).ran = call.ran /\ Said(call, words).said = words
  BY DEF Said

LEMMA SaidOnly ==
    ASSUME NEW call, NEW words, AgreedTo(call), call.said = ""
    PROVE  /\ AgreedTo(Said(call, words)) /\ (words = "allow" => Waits(Said(call, words)))
           /\ Said(call, words).run = call.run /\ Said(call, words).ran = call.ran
  <1> PICK new : new = Said(call, words)
      OBVIOUS
  <1>1. new.run = call.run /\ new.ran = call.ran /\ new.said = words
        BY SaidIs
  <1>2. call.ran = 0
    <2>1. call.ran \in {0, 1} /\ (call.ran = 1 => call.said = "allow")
          BY Zenon DEF AgreedTo
    <2> QED BY <2>1
  <1>3. AgreedTo(new) /\ (words = "allow" => Waits(new))
        BY <1>1, <1>2 DEF AgreedTo, Waits
  <1> QED BY <1>1, <1>3

LEMMA ResolveSteps ==
    ASSUME AssentInv, NEW n \in 1..Len(bound), NEW said, Agreement!Resolve(n, said)
    PROVE  AssentInv'
  <1>0. LedgerInv /\ IsSeq(bound) /\ IsSeq(turns) /\ Len(turns) \in Nat /\ Len(bound) \in Nat
        BY SeqFacts DEF AssentInv, LedgerInv
  <1> PICK call : call = bound[n]
      OBVIOUS
  <1> PICK new : new = Said(call, said)
      OBVIOUS
  <1>1. call.said = "" /\ bound' = With(bound, n, new) /\ turns' = turns
        BY DEF Agreement!Resolve, With, Said
  <1>2. ledger' \subseteq ledger /\ (said # "allow" => n \notin ledger')
        BY DEF Agreement!Resolve, Agreement!Revoked
  <1>3. OnlyAt(n, bound, With(bound, n, new)) /\ With(bound, n, new)[n] = new
        BY <1>0, ChangesAt
  <1>4. OnlyAt(n, bound, bound') /\ bound'[n] = new
        BY <1>1, <1>3
  <1>a. AgreedTo(call)
        BY <1>0 DEF LedgerInv
  <1>5. AgreedTo(new) /\ (said = "allow" => Waits(new)) /\ new.run = call.run /\ new.ran = call.ran
        BY <1>1, <1>a, SaidOnly
  <1>6. LedgerInv' /\ CallsStay
    <2>1. n \in ledger' => Waits(new)
          BY <1>2, <1>5
    <2>2. call.ran > 0 => new.ran > 0
          BY <1>5
    <2>3. Len(turns') = Len(turns)
          BY <1>1
    <2> QED BY <1>0, <1>2, <1>4, <1>5, <2>1, <2>2, <2>3, LedgerGoesOn
  <1>7. ASSUME NEW t PROVE RanIn(t)' = RanIn(t)
    <2>1. Len(bound') = Len(bound) /\ \A m \in 1..Len(bound) : m # n => bound'[m] = bound[m]
          BY <1>4 DEF OnlyAt
    <2>2. \A m \in 1..Len(bound) : bound'[m].run = bound[m].run /\ bound'[m].ran = bound[m].ran
      <3> TAKE m \in 1..Len(bound)
      <3>1. CASE m = n
            BY <1>4, <1>5, <3>1
      <3>2. CASE m # n
            BY <2>1, <3>2
      <3> QED BY <3>1, <3>2
    <2> QED BY <2>1, <2>2 DEF RanIn
  <1> QED BY <1>1, <1>6, <1>7 DEF AssentInv

LEMMA FinalizeSteps ==
    ASSUME AssentInv, NEW text, Agreement!BeforeAgentFinalize(text)
    PROVE  AssentInv'
  <1>0. IsSeq(turns) /\ Len(turns) \in Nat
        BY SeqFacts DEF AssentInv
  <1> PICK now : now = Len(turns)
      OBVIOUS
  <1> PICK run : run = turns[now]
      OBVIOUS
  <1> PICK yes : yes = TRUE
      OBVIOUS
  <1> DEFINE new == [run EXCEPT !.revised = yes]
  <1>1. now \in 1..Len(turns)
    <2>1. Agreement!Running
          BY Zenon DEF Agreement!BeforeAgentFinalize, Agreement!Free
    <2> QED BY <1>0, <2>1 DEF Agreement!Running, Agreement!Now
  <1>2. UNCHANGED <<bound, ledger>>
        BY Zenon DEF Agreement!BeforeAgentFinalize
  <1>3. turns' = [turns EXCEPT ![now].revised = yes]
        BY Zenon DEF Agreement!BeforeAgentFinalize, Agreement!Now
  <1>4. turns' = With(turns, now, new)
        BY <1>3 DEF With
  <1>5. new.obligation = run.obligation /\ new.evidence = run.evidence /\ new.prompt = run.prompt /\ new.sent = run.sent
        OBVIOUS
  <1> HIDE DEF new
  <1>6. Kept(run, RanIn(now))
        BY <1>1 DEF AssentInv
  <1>7. Kept(new, RanIn(now))
        BY <1>5, <1>6, KeptLess
  <1>8. OnlyAt(now, turns, turns') /\ turns'[now] = new
        BY <1>0, <1>1, <1>4, ChangesAt
  <1> QED BY <1>1, <1>2, <1>7, <1>8, CallsUnchanged

LEMMA AbortSteps == ASSUME AssentInv, Agreement!Abort PROVE AssentInv'
  <1>0. IsSeq(turns) /\ Len(turns) \in Nat
        BY SeqFacts DEF AssentInv
  <1> PICK now : now = Len(turns)
      OBVIOUS
  <1> PICK run : run = turns[now]
      OBVIOUS
  <1> PICK no : no = FALSE
      OBVIOUS
  <1> DEFINE new == [run EXCEPT !.sent = <<"aborted">>, !.evidence = {}, !.revised = no, !.confirmed = <<>>]
  <1>1. now \in 1..Len(turns) /\ UNCHANGED <<bound, ledger>>
        BY <1>0 DEF Agreement!Abort, Agreement!Running, Agreement!Now
  <1>2. turns' = [turns EXCEPT ![now].sent = <<"aborted">>, ![now].evidence = {}, ![now].revised = no, ![now].confirmed = <<>>]
        BY DEF Agreement!Abort, Agreement!Now
  <1>3. turns' = With(turns, now, new)
        BY <1>2 DEF With
  <1>4. new.obligation = run.obligation /\ new.evidence = {} /\ new.prompt = run.prompt /\ new.sent = <<"aborted">>
        OBVIOUS
  <1> HIDE DEF new
  <1>5. Kept(run, RanIn(now)) /\ new.evidence \subseteq run.evidence
        BY <1>1, <1>4 DEF AssentInv
  <1>6. Kept(new, RanIn(now))
        BY <1>4, <1>5, KeptLess
  <1>7. OnlyAt(now, turns, turns') /\ turns'[now] = new
        BY <1>0, <1>1, <1>3, ChangesAt
  <1> QED BY <1>1, <1>6, <1>7, CallsUnchanged

\* An answer that goes out as it is has no issue, and one that is replaced ends the
\* obligation.
Answered(run, new, text) ==
    /\ new.prompt = run.prompt /\ new.evidence = {}
    /\ \/ ~Agreement!Issues(run, text) /\ new.sent = <<text>> /\ new.obligation = run.obligation
       \/ /\ new.sent = <<"replaced">>
          /\ \/ new.obligation = Agreement!Ends(run.obligation, "blocked")
             \/ new.obligation = run.obligation /\ (run.obligation.kind = "none" \/ run.obligation.end # "")

LEMMA KeptAnswered ==
    ASSUME NEW run, NEW new, NEW ran, Kept(run, ran), NEW text, Answered(run, new, text)
    PROVE  Kept(new, ran)
  <1> PICK was : was = run.obligation
      OBVIOUS
  <1> PICK o : o = new.obligation
      OBVIOUS
  <1>0. was.done \in Nat /\ was.done <= Cardinality(ran)
        BY DEF Kept
  <1>1. ~Agreement!Shown(new)
        BY DEF Agreement!Shown, Answered
  <1>2. o = was \/ o = Agreement!Ends(was, "blocked")
        BY Zenon DEF Answered
  <1>3. o.done \in Nat /\ o.done <= Cardinality(ran)
        BY <1>0, <1>2, EndsCounts
  <1>4. ASSUME new.prompt # "chat"
        PROVE  (new.sent = <<"done">> => ran # {}) /\ (o.kind # "none" => o.end # "")
    <2>1. CASE ~Agreement!Issues(run, text) /\ new.sent = <<text>> /\ o = was
      <3>0. run.prompt # "chat"
            BY <1>4, Zenon DEF Answered
      <3>1. ~Agreement!EvidenceIssue(run, text) /\ ~Agreement!ActionIssue(was, text)
            BY <2>1, <3>0, Zenon DEF Agreement!Issues
      <3>2. text = "done" => Agreement!Shown(run)
            BY <3>1, Zenon DEF Agreement!EvidenceIssue
      <3>3. was.kind # "none" => was.end # ""
            BY <3>1, Zenon DEF Agreement!ActionIssue
      <3>4. text = "done" => ran # {}
            BY <3>2, Zenon DEF Kept
      <3>5. new.sent = <<"done">> => text = "done"
            BY <2>1
      <3> QED BY <2>1, <3>3, <3>4, <3>5, Zenon
    <2>2. CASE new.sent = <<"replaced">> /\ o = Agreement!Ends(was, "blocked")
      <3>1. o.end = "blocked"
            BY <2>2 DEF Agreement!Ends
      <3>2. <<"replaced">> # <<"done">>
            OBVIOUS
      <3> QED BY <2>2, <3>1, <3>2
    <2>3. CASE new.sent = <<"replaced">> /\ o = was /\ (was.kind = "none" \/ was.end # "")
      <3>1. <<"replaced">> # <<"done">>
            OBVIOUS
      <3> QED BY <2>3, <3>1
    <2> QED BY <2>1, <2>2, <2>3, Zenon DEF Answered
  <1> QED BY <1>1, <1>3, <1>4, Zenon DEF Kept

Words(run, text) == <<IF Agreement!Issues(run, text) THEN "replaced" ELSE text>>

Closing(run, text) ==
    IF Agreement!Issues(run, text) /\ run.obligation.kind # "none" /\ run.obligation.end = ""
    THEN Agreement!Ends(run.obligation, "blocked") ELSE run.obligation

Closed(run, words, no, o) ==
    [run EXCEPT !.sent = words, !.evidence = {}, !.revised = no, !.confirmed = <<>>, !.obligation = o]

LEMMA ClosedIs ==
    ASSUME NEW run, NEW words, NEW no, NEW o
    PROVE  /\ Closed(run, words, no, o).obligation = o /\ Closed(run, words, no, o).evidence = {}
           /\ Closed(run, words, no, o).prompt = run.prompt /\ Closed(run, words, no, o).sent = words
  BY DEF Closed

LEMMA ReplySteps ==
    ASSUME AssentInv, NEW text, Agreement!ReplyPayloadSending(text)
    PROVE  AssentInv'
  <1>0. IsSeq(turns) /\ Len(turns) \in Nat
        BY SeqFacts DEF AssentInv
  <1> PICK now : now = Len(turns)
      OBVIOUS
  <1> PICK run : run = turns[now]
      OBVIOUS
  <1> PICK no : no = FALSE
      OBVIOUS
  <1>1. now \in 1..Len(turns)
    <2>1. Agreement!Running
          BY Zenon DEF Agreement!ReplyPayloadSending, Agreement!Free
    <2> QED BY <1>0, <2>1 DEF Agreement!Running, Agreement!Now
  <1>2. UNCHANGED <<bound, ledger>>
        BY Zenon DEF Agreement!ReplyPayloadSending
  <1> PICK o : o = Closing(run, text)
      OBVIOUS
  <1> PICK words : words = Words(run, text)
      OBVIOUS
  <1> PICK new : new = Closed(run, words, no, o)
      OBVIOUS
  <1>3. turns' = [turns EXCEPT ![now].sent = words, ![now].evidence = {}, ![now].revised = no,
                               ![now].confirmed = <<>>, ![now].obligation = o]
        BY DEF Agreement!ReplyPayloadSending, Agreement!Now, Words, Closing
  <1>4. turns' = With(turns, now, new)
        BY <1>3 DEF With, Closed
  <1>5. new.obligation = o /\ new.evidence = {} /\ new.prompt = run.prompt /\ new.sent = words
        BY ClosedIs
  <1>6. Kept(run, RanIn(now))
        BY <1>1 DEF AssentInv
  <1>a. Answered(run, new, text)
    <2>1. CASE Agreement!Issues(run, text)
          BY <1>5, <2>1 DEF Answered, Words, Closing
    <2>2. CASE ~Agreement!Issues(run, text)
          BY <1>5, <2>2 DEF Answered, Words, Closing
    <2> QED BY <2>1, <2>2
  <1>7. Kept(new, RanIn(now))
        BY <1>6, <1>a, KeptAnswered
  <1>8. OnlyAt(now, turns, turns') /\ turns'[now] = new
        BY <1>0, <1>1, <1>4, ChangesAt
  <1> QED BY <1>1, <1>2, <1>7, <1>8, CallsUnchanged

LEMMA AssentSteps == AssentInv /\ [Agreement!Next]_agreeVars => AssentInv'
  <1> SUFFICES ASSUME AssentInv, [Agreement!Next]_agreeVars PROVE AssentInv'
      OBVIOUS
  <1>1. CASE Agreement!Abort
        BY <1>1, AbortSteps
  <1>2. ASSUME NEW prompt \in Prompts, Agreement!BeforePromptBuild(prompt) PROVE AssentInv'
        BY <1>2, PromptSteps
  <1>3. CASE Agreement!ForgetConfirmation
    <2>1. UNCHANGED <<bound, turns>> /\ ledger' \subseteq ledger
          BY <1>3, Zenon DEF Agreement!ForgetConfirmation
    <2> QED BY <2>1, TurnsUnchanged
  <1>4. ASSUME NEW op \in Agreement!Reads, Agreement!Read(op) PROVE AssentInv'
        BY <1>4, ReadSteps
  <1>5. ASSUME NEW a, Agreement!BeforeToolCall(a) PROVE AssentInv'
        BY <1>5, BindSteps
  <1>6. ASSUME NEW n, Agreement!Expire(n) PROVE AssentInv'
    <2>1. UNCHANGED <<bound, turns>> /\ ledger' \subseteq ledger
          BY <1>6 DEF Agreement!Expire
    <2> QED BY <2>1, TurnsUnchanged
  <1>7. ASSUME NEW n \in 1..Len(bound), Agreement!ExecuteOperation(n) PROVE AssentInv'
        BY <1>7, ExecuteSteps
  <1>8. ASSUME NEW n \in 1..Len(bound), NEW said, Agreement!Resolve(n, said) PROVE AssentInv'
        BY <1>8, ResolveSteps
  <1>9. ASSUME NEW text, Agreement!BeforeAgentFinalize(text) PROVE AssentInv'
        BY <1>9, FinalizeSteps
  <1>10. ASSUME NEW text, Agreement!ReplyPayloadSending(text) PROVE AssentInv'
        BY <1>10, ReplySteps
  <1>11. CASE UNCHANGED agreeVars
    <2>1. UNCHANGED <<bound, turns>> /\ ledger' \subseteq ledger
          BY <1>11 DEF agreeVars
    <2> QED BY <2>1, TurnsUnchanged
  <1> QED BY <1>1, <1>2, <1>3, <1>4, <1>5, <1>6, <1>7, <1>8, <1>9, <1>10, <1>11, Zenon DEF Agreement!Next

LEMMA AssentShows ==
    AssentInv => Agreement!AgreedOnce /\ Agreement!CreditedInItsTurn /\ Agreement!AnswersAreCovered
  <1> SUFFICES ASSUME AssentInv
               PROVE  Agreement!AgreedOnce /\ Agreement!CreditedInItsTurn /\ Agreement!AnswersAreCovered
      OBVIOUS
  <1>1. Agreement!AgreedOnce
    <2>1. ASSUME NEW n \in 1..Len(bound) PROVE bound[n].ran <= 1 /\ (bound[n].ran = 1 => bound[n].said = "allow")
          BY DEF AssentInv, LedgerInv, AgreedTo
    <2> QED BY <2>1 DEF Agreement!AgreedOnce
  <1>2. ASSUME NEW t \in 1..Len(turns)
        PROVE  /\ Kept(turns[t], RanIn(t))
               /\ RanIn(t) = {n \in 1..Len(bound) : bound[n].run = t /\ bound[n].ran > 0}
        BY DEF AssentInv, RanIn
  <1>3. Agreement!CreditedInItsTurn
    <2>1. ASSUME NEW t \in 1..Len(turns)
          PROVE  turns[t].obligation.done
                   <= Agreement!Cardinality({n \in 1..Len(bound) : bound[n].run = t /\ bound[n].ran > 0})
      <3>1. turns[t].obligation.done <= Cardinality(RanIn(t))
            BY <1>2 DEF Kept
      <3>2. Agreement!Cardinality(RanIn(t)) = Cardinality(RanIn(t))
            BY SameCount
      <3> QED BY <1>2, <3>1, <3>2
    <2> QED BY <2>1 DEF Agreement!CreditedInItsTurn, Agreement!Now
  <1>4. Agreement!AnswersAreCovered
    <2>1. ASSUME NEW t \in 1..Len(turns), turns[t].sent \notin {<<>>, <<"aborted">>}, turns[t].prompt # "chat"
          PROVE  /\ turns[t].sent = <<"done">> => \E n \in 1..Len(bound) : bound[n].run = t /\ bound[n].ran > 0
                 /\ turns[t].obligation.kind # "none" => turns[t].obligation.end # ""
      <3>1. /\ turns[t].sent = <<"done">> => RanIn(t) # {}
            /\ turns[t].obligation.kind # "none" => turns[t].obligation.end # ""
            BY <1>2, <2>1, Zenon DEF Kept
      <3>2. RanIn(t) # {} => \E n \in 1..Len(bound) : bound[n].run = t /\ bound[n].ran > 0
            BY <1>2
      <3> QED BY <3>1, <3>2
    <2> QED BY <2>1, Zenon DEF Agreement!AnswersAreCovered, Agreement!Now
  <1> QED BY <1>1, <1>3, <1>4

AgreementInv == turn = "agree" => AssentInv

\* A write happens once for every agreement of the user, counts in the turn that agreed
\* to it, and "it is done" is said only over a write that is proved, for any flights,
\* prompts and tools, and however often a call is resumed.
THEOREM AssentHolds == AllSpec => []AssentIsKept
  <1>1. AllInit => AgreementInv
        BY AssentStarts DEF AllInit, AgreementInv
  <1>2. AgreementInv /\ [AllNext]_allVars => AgreementInv'
        BY OneTurn, AssentSteps DEF AgreementInv
  <1>3. AgreementInv => AssentIsKept
        BY AssentShows DEF AgreementInv, AssentIsKept
  <1> QED BY <1>1, <1>2, <1>3, PTL DEF AllSpec

-----------------------------------------------------------------------------
(* InvoiceExtract: what two readings tell differently is for the user *)

\* Confirmed is only what has no reason for a review.
LEMMA FinalizeConfirms ==
    ASSUME NEW fields, NEW reasons
    PROVE  /\ Paper!Finalize(fields, reasons).fields = fields /\ Paper!Finalize(fields, reasons).reasons = reasons
           /\ Paper!Finalize(fields, reasons).status = "confirmed" => reasons = {}
  BY DEF Paper!Finalize

LEMMA AmountIs ==
    ASSUME NEW found, Paper!Amount(found).value # <<>>
    PROVE  \E a \in found : Paper!Amount(found).value = <<a.value>>
  <1>1. found # {}
        BY DEF Paper!Amount, Paper!Empty, Paper!Field
  <1>2. PICK a : a = CHOOSE b \in found : TRUE
        OBVIOUS
  <1>3. a \in found
        BY <1>1, <1>2
  <1>4. Paper!Amount(found).value = <<a.value>>
        BY <1>1, <1>2 DEF Paper!Amount, Paper!Field
  <1> QED BY <1>3, <1>4

LEMMA NoMismatch ==
    ASSUME NEW gross, NEW net, NEW tax, Paper!Reasons(gross, net, tax) = {},
           NEW g \in gross, NEW n \in net, NEW t \in tax
    PROVE  Paper!AddsUp(g.value, n.value, t.value)
  <1> SUFFICES ASSUME ~Paper!AddsUp(g.value, n.value, t.value) PROVE FALSE
      OBVIOUS
  <1>1. "arithmetic-mismatch" \in Paper!Reasons(gross, net, tax)
        BY DEF Paper!Reasons
  <1> QED BY <1>1

\* How the amounts of a reading come about.
ReadAs(m, gross, net, tax) ==
    /\ \E lost : m.fields["gross_amount"] = IF lost THEN Paper!Field(<<>>, 30) ELSE Paper!Amount(gross)
    /\ m.fields["net_amount"] = Paper!Amount(net)
    /\ \E lost : m.fields["tax_amount"] = IF lost THEN Paper!Field(<<>>, 30) ELSE Paper!Amount(tax)
    /\ Paper!Reasons(gross, net, tax) \subseteq m.reasons

LEMMA Parsed ==
    ASSUME NEW reading, NEW filename, NEW sender
    PROVE  /\ \E gross, net, tax : ReadAs(Paper!ParseInvoiceText(reading, filename, sender), gross, net, tax)
           /\ Paper!ParseInvoiceText(reading, filename, sender).status = "confirmed" =>
                 Paper!ParseInvoiceText(reading, filename, sender).reasons = {}
  <1> DEFINE amounts == {a \in Paper!Priced(reading) : Paper!Counts(a)}
             gross == Paper!SelectRole(amounts, <<"amount-due", "gross-total", "credit">>)
             total == Paper!SelectRole(amounts, <<"net-total">>)
             tax == Paper!SelectRole(amounts, <<"tax-amount">>)
             subtotal == Paper!SelectSubtotal(amounts, gross.found, tax.found)
             net == IF total.found # {} THEN total.found ELSE subtotal.found
             currency == Paper!Currency(gross.found \cup net \cup tax.found, reading)
             fields == [f \in Paper!Fields |->
                CASE f = "invoice_date" -> Paper!InvoiceDate(reading)
                  [] f = "invoice_number" -> Paper!InvoiceNumber(reading, filename)
                  [] f = "supplier" -> Paper!Supplier(reading, sender)
                  [] f = "gross_amount" -> IF gross.conflict THEN Paper!Field(<<>>, 30) ELSE Paper!Amount(gross.found)
                  [] f = "net_amount" -> Paper!Amount(net)
                  [] f = "tax_amount" -> IF tax.conflict THEN Paper!Field(<<>>, 30) ELSE Paper!Amount(tax.found)
                  [] f = "currency" -> currency.field]
             others == Paper!Conflicting(gross, "gross_amount-conflict") \cup Paper!Conflicting(total, "net_amount-conflict")
                       \cup Paper!Conflicting(tax, "tax_amount-conflict") \cup (IF total.found = {} THEN subtotal.reason ELSE {})
                       \cup {"credit-sign-ambiguous" : a \in {b \in Paper!Priced(reading) : b.role = "credit" /\ b.value >= 0}}
                       \cup currency.reason
             reasons == others \cup Paper!Reasons(gross.found, net, tax.found)
             m == Paper!ParseInvoiceText(reading, filename, sender)
  <1>1. m = Paper!Finalize(fields, reasons)
        BY DEF Paper!ParseInvoiceText
  <1>2. /\ fields["gross_amount"] = IF gross.conflict THEN Paper!Field(<<>>, 30) ELSE Paper!Amount(gross.found)
        /\ fields["net_amount"] = Paper!Amount(net)
        /\ fields["tax_amount"] = IF tax.conflict THEN Paper!Field(<<>>, 30) ELSE Paper!Amount(tax.found)
    <2> HIDE DEF gross, net, tax, currency
    <2> QED BY DEF Paper!Fields
  <1>3. Paper!Reasons(gross.found, net, tax.found) \subseteq reasons
        OBVIOUS
  <1> HIDE DEF fields, reasons, gross, net, tax, m
  <1>4. m.fields = fields /\ m.reasons = reasons /\ (m.status = "confirmed" => m.reasons = {})
        BY <1>1, FinalizeConfirms
  <1>5. ReadAs(m, gross.found, net, tax.found)
        BY <1>2, <1>3, <1>4 DEF ReadAs
  <1> QED BY <1>4, <1>5 DEF m

\* The amounts of a reading that has no reason for a review add up.
AmountsAddUp(m) ==
    (\A f \in {"gross_amount", "net_amount", "tax_amount"} : m.fields[f].value # <<>>) =>
        Paper!Abs(m.fields["gross_amount"].value[1] - m.fields["net_amount"].value[1]
                    - m.fields["tax_amount"].value[1]) <= 2

LEMMA ReadingAddsUp ==
    ASSUME NEW m, NEW gross, NEW net, NEW tax, ReadAs(m, gross, net, tax), m.reasons = {}
    PROVE  AmountsAddUp(m)
  <1> SUFFICES ASSUME \A f \in {"gross_amount", "net_amount", "tax_amount"} : m.fields[f].value # <<>>
               PROVE  Paper!Abs(m.fields["gross_amount"].value[1] - m.fields["net_amount"].value[1]
                                - m.fields["tax_amount"].value[1]) <= 2
      BY DEF AmountsAddUp
  <1>0. Paper!Field(<<>>, 30).value = <<>>
        BY DEF Paper!Field
  <1>1. PICK g \in gross : m.fields["gross_amount"].value = <<g.value>>
    <2>1. m.fields["gross_amount"] = Paper!Amount(gross) \/ m.fields["gross_amount"] = Paper!Field(<<>>, 30)
          BY DEF ReadAs
    <2>2. m.fields["gross_amount"] = Paper!Amount(gross) /\ m.fields["gross_amount"].value # <<>>
          BY <1>0, <2>1
    <2> QED BY <2>2, AmountIs
  <1>2. PICK n \in net : m.fields["net_amount"].value = <<n.value>>
    <2>1. m.fields["net_amount"] = Paper!Amount(net) /\ m.fields["net_amount"].value # <<>>
          BY DEF ReadAs
    <2> QED BY <2>1, AmountIs
  <1>3. PICK t \in tax : m.fields["tax_amount"].value = <<t.value>>
    <2>1. m.fields["tax_amount"] = Paper!Amount(tax) \/ m.fields["tax_amount"] = Paper!Field(<<>>, 30)
          BY DEF ReadAs
    <2>2. m.fields["tax_amount"] = Paper!Amount(tax) /\ m.fields["tax_amount"].value # <<>>
          BY <1>0, <2>1
    <2> QED BY <2>2, AmountIs
  <1>4. Paper!Reasons(gross, net, tax) = {}
        BY DEF ReadAs
  <1>5. Paper!AddsUp(g.value, n.value, t.value)
        BY <1>4, NoMismatch
  <1>6. /\ m.fields["gross_amount"].value[1] = g.value /\ m.fields["net_amount"].value[1] = n.value
        /\ m.fields["tax_amount"].value[1] = t.value
        BY <1>1, <1>2, <1>3
  <1> QED BY <1>5, <1>6 DEF Paper!AddsUp

Reading(m) == m.reasons = {} => AmountsAddUp(m)

LEMMA ReadingIsSound ==
    ASSUME NEW reading, NEW filename, NEW sender
    PROVE  Reading(Paper!ParseInvoiceText(reading, filename, sender))
  BY Parsed, ReadingAddsUp DEF Reading

\* Two readings that are fused to something confirmed disagree in nothing, and what was
\* good enough stays.
Agreed(native, m, selected) ==
    /\ native.reasons = {} /\ m.reasons = {}
    /\ \A f \in Paper!Fields :
         /\ ~Paper!Contradict(f, native.fields[f], m.fields[f])
         /\ Paper!UsableField(f, native.fields[f]) => selected.fields[f] = native.fields[f]

LEMMA ChosenAgree ==
    ASSUME NEW native, NEW m, Paper!Choose(native, m).status = "confirmed"
    PROVE  Agreed(native, m, Paper!Choose(native, m))
  <1> DEFINE clash == {f \in Paper!Fields : Paper!Contradict(f, native.fields[f], m.fields[f])}
             fused(f) ==
                LET left == native.fields[f]
                    right == m.fields[f]
                IN  IF f \in clash THEN Paper!Empty
                    ELSE IF ~Paper!UsableField(f, left) /\ Paper!UsableField(f, right) THEN right
                    ELSE IF left.value # <<>> /\ left.value = right.value THEN left
                    ELSE IF Paper!UsableField(f, left) THEN left
                    ELSE IF right.value # <<>> /\ right.confidence > left.confidence THEN right
                    ELSE left
             fields == [f \in Paper!Fields |-> fused(f)]
             reasons == native.reasons \cup m.reasons \cup clash
             selected == Paper!Choose(native, m)
  <1>1. selected = Paper!Finalize(fields, reasons)
        BY DEF Paper!Choose
  <1>2. selected.fields = fields /\ reasons = {}
    <2> HIDE DEF fields, reasons
    <2> QED BY <1>1, FinalizeConfirms
  <1>3. native.reasons = {} /\ m.reasons = {} /\ clash = {}
        BY <1>2
  <1>4. ASSUME NEW f \in Paper!Fields, Paper!UsableField(f, native.fields[f])
        PROVE  selected.fields[f] = native.fields[f]
    <2>1. fields[f] = fused(f)
          OBVIOUS
    <2>2. f \notin clash
          BY <1>3
    <2> HIDE DEF clash, fields, selected
    <2>3. fused(f) = native.fields[f]
          BY <1>4, <2>2
    <2> QED BY <1>2, <2>1, <2>3
  <1> QED BY <1>3, <1>4 DEF Agreed

\* What a confirmed extraction rests on.
Rests(x) ==
    /\ Reading(x.native) /\ \A m \in x.ocr : Reading(m)
    /\ x.native.reasons = {}
    /\ \A m \in x.ocr : Agreed(x.native, m, x.selected)

LEMMA ExtractedRests ==
    ASSUME NEW p, Paper!Extracted(p).selected.status = "confirmed"
    PROVE  Rests(Paper!Extracted(p))
  <1> DEFINE native == Paper!ParseInvoiceText(p.native, p.filename, p.sender)
             wanted == Paper!RequiredOcrFields(native) # {}
             text == IF wanted /\ p.ocr THEN Paper!ExtractOcrText(p.pages) ELSE {}
             ocr == {Paper!ParseInvoiceText(r, p.filename, p.sender) : r \in text}
             doubted == [native EXCEPT !.reasons = @ \cup {"ocr"}]
             chosen == Paper!Choose(native, CHOOSE m \in ocr : TRUE)
             merged == IF ocr = {} THEN IF wanted THEN doubted ELSE native ELSE chosen
             review == [merged EXCEPT !.status = "review"]
             sure == Paper!UsableField("invoice_date", merged.fields["invoice_date"]) /\ Paper!ConfidentEnough(merged)
             x == Paper!Extracted(p)
  <1>1. x = [native |-> native, ocr |-> ocr, selected |-> IF sure THEN merged ELSE review]
        BY DEF Paper!Extracted
  <1>2. review.status = "review"
        BY DEF review
  <1>3. doubted.status = native.status
        OBVIOUS
  <1>4. native.status = "confirmed" => native.reasons = {}
        BY Parsed
  <1>5. Reading(native) /\ \A m \in ocr : Reading(m)
        BY ReadingIsSound
  <1>6. \A r, s \in text : r = s
    <2> HIDE DEF wanted
    <2>1. \A r, s \in Paper!ExtractOcrText(p.pages) : r = s
          BY DEF Paper!ExtractOcrText
    <2> QED BY <2>1
  <1>7. \A m, n \in ocr : m = n
    <2> HIDE DEF text
    <2> QED BY <1>6
  <1> HIDE DEF native, ocr, doubted, chosen, review, sure, x, wanted
  <1>8. x.native = native /\ x.ocr = ocr /\ x.selected = merged /\ merged.status = "confirmed"
    <2> HIDE DEF merged
    <2>1. x.selected = IF sure THEN merged ELSE review
          BY <1>1
    <2>2. x.selected.status = "confirmed"
          BY DEF x
    <2> QED BY <1>1, <1>2, <2>1, <2>2
  <1>9. CASE ocr = {}
    <2>1. native.status = "confirmed"
          BY <1>3, <1>8, <1>9
    <2> QED BY <1>4, <1>5, <1>8, <1>9, <2>1 DEF Rests, x
  <1>10. CASE ocr # {}
    <2>1. PICK m : m = CHOOSE n \in ocr : TRUE
          OBVIOUS
    <2>2. m \in ocr
          BY <1>10, <2>1
    <2>3. merged = Paper!Choose(native, m)
          BY <1>10, <2>1 DEF chosen
    <2>4. Agreed(native, m, merged)
          BY <1>8, <2>3, ChosenAgree
    <2>5. \A n \in ocr : n = m
          BY <1>7, <2>2
    <2>6. native.reasons = {}
          BY <2>4 DEF Agreed
    <2> QED BY <1>5, <1>8, <2>2, <2>4, <2>5, <2>6 DEF Rests, x
  <1> QED BY <1>9, <1>10

PaperInv == extract = <<>> \/ extract = <<Paper!Extracted(paper)>>

LEMMA PaperSteps == PaperInv /\ [Paper!Next]_paperVars => PaperInv'
  <1>1. ASSUME Paper!Extract PROVE PaperInv'
        BY <1>1 DEF Paper!Extract, PaperInv
  <1>2. ASSUME PaperInv, UNCHANGED paperVars PROVE PaperInv'
        BY <1>2 DEF PaperInv, paperVars
  <1> QED BY <1>1, <1>2 DEF Paper!Next

LEMMA PaperShows == PaperInv => Paper!DisagreementIsReviewed /\ Paper!OneReadingAddsUp
  <1> SUFFICES ASSUME PaperInv, Paper!Confirmed
               PROVE  Paper!DisagreementIsReviewed /\ Paper!OneReadingAddsUp
      BY DEF Paper!DisagreementIsReviewed, Paper!OneReadingAddsUp
  <1> PICK x : x = Paper!Extracted(paper)
      OBVIOUS
  <1>1. extract[1] = x /\ x.selected.status = "confirmed"
        BY DEF PaperInv, Paper!Confirmed
  <1>2. Rests(x)
        BY <1>1, ExtractedRests
  <1>3. ASSUME NEW m \in x.ocr, NEW f \in Paper!Fields
        PROVE  /\ ~Paper!Contradict(f, x.native.fields[f], m.fields[f])
               /\ Paper!UsableField(f, x.native.fields[f]) => x.selected.fields[f] = x.native.fields[f]
        BY <1>2, <1>3 DEF Rests, Agreed
  <1>4. Paper!DisagreementIsReviewed
        BY <1>1, <1>3 DEF Paper!DisagreementIsReviewed, Paper!Selected
  <1>5. ASSUME NEW m \in x.ocr \cup {x.native},
               \A f \in {"gross_amount", "net_amount", "tax_amount"} : m.fields[f].value # <<>>
        PROVE  Paper!Abs(m.fields["gross_amount"].value[1] - m.fields["net_amount"].value[1]
                           - m.fields["tax_amount"].value[1]) <= 2
    <2>1. Reading(m) /\ m.reasons = {}
          BY <1>2 DEF Rests, Agreed
    <2> QED BY <1>5, <2>1, Zenon DEF Reading, AmountsAddUp
  <1>6. Paper!OneReadingAddsUp
    <2> SUFFICES ASSUME NEW m \in x.ocr \cup {x.native}, NEW a,
                        a = [f \in {"gross_amount", "net_amount", "tax_amount"} |-> m.fields[f].value],
                        \A f \in DOMAIN a : a[f] # <<>>
                 PROVE  Paper!Abs(a["gross_amount"][1] - a["net_amount"][1] - a["tax_amount"][1]) <= 2
        BY <1>1 DEF Paper!OneReadingAddsUp
    <2>1. \A f \in {"gross_amount", "net_amount", "tax_amount"} : a[f] = m.fields[f].value /\ a[f] # <<>>
          OBVIOUS
    <2> QED BY <1>5, <2>1
  <1> QED BY <1>4, <1>6

-----------------------------------------------------------------------------
(* Invoices: a claim protects the change until the registers show it *)

\* A run of reprocess-apply that still holds its claim: the registers it has behind it
\* were rendered by one who knew of the change, as is the one it uploads.
Claims(c, k, a, knownBy) ==
    /\ k.knows \in Nat /\ k.token \in Nat /\ k.token <= a.attempts
    /\ c \in Applies /\ a.status = "syncing" /\ a.claim = k.token /\ k.at \in {"render", "upload"} =>
          /\ k.years \subseteq a.years
          /\ \A y \in a.years \ k.years : knownBy[y] >= a.stamp
          /\ k.at = "upload" => k.years # {} /\ k.knows >= a.stamp

AuditInv(a, knownBy) ==
    /\ a.stamp \in Nat /\ a.attempts \in Nat /\ a.claim \in Nat
    /\ a.years = {} \/ \E x, y \in Years : a.years = {x, y}
    /\ a.status = "none" => a.attempts = 0
    /\ a.status = "syncing" => a.claim > 0
    /\ a.status = "completed" => \A y \in a.years : knownBy[y] >= a.stamp

RegisterInv ==
    /\ basis = 1
    /\ invoice.stamp \in Nat /\ invoice.year \in Years /\ audit.stamp <= invoice.stamp
    /\ issued \in [Years -> Nat]
    /\ AuditInv(audit, issued)
    /\ DOMAIN clerk = Register!Clerks
    /\ \A c \in Register!Clerks : Claims(c, clerk[c], audit, issued)

LEMMA AtRestIs ==
    /\ Register!AtRest.at = "rest" /\ Register!AtRest.knows = 0 /\ Register!AtRest.token = 0
    /\ Register!NoAudit.status = "none" /\ Register!NoAudit.stamp = 0 /\ Register!NoAudit.years = {}
    /\ Register!NoAudit.claim = 0 /\ Register!NoAudit.attempts = 0
  BY DEF Register!AtRest, Register!NoAudit

LEMMA RegisterStarts == Register!Init => RegisterInv
  <1> SUFFICES ASSUME Register!Init PROVE RegisterInv
      OBVIOUS
  <1>1. invoice.stamp = 1 /\ invoice.year \in Years
    <2>1. PICK archived, status, y : y \in Years /\ invoice = Register!Row(archived, status, y, 1)
          BY Zenon DEF Register!Init
    <2> QED BY <2>1 DEF Register!Row
  <1>2. audit = Register!NoAudit /\ issued = [y \in Years |-> 1] /\ basis = 1
        BY DEF Register!Init
  <1>3. clerk = [c \in Register!Clerks |-> Register!AtRest]
        BY DEF Register!Init
  <1>4. AuditInv(audit, issued)
        BY <1>2, AtRestIs DEF AuditInv
  <1>5. ASSUME NEW c \in Register!Clerks PROVE Claims(c, clerk[c], audit, issued)
    <2>1. clerk[c].knows = 0 /\ clerk[c].token = 0 /\ audit.attempts = 0 /\ audit.status = "none"
          BY <1>2, <1>3, AtRestIs
    <2> QED BY <2>1 DEF Claims
  <1>6. audit.stamp = 0
        BY <1>2, AtRestIs
  <1> QED BY <1>1, <1>2, <1>3, <1>4, <1>5, <1>6 DEF RegisterInv

Seat(s, c, k) == [s EXCEPT ![c] = k]

\* What a clerk does by itself cannot hurt the audit, as long as it publishes without a
\* claim only.
Quiet(new, old) ==
    /\ new.knows \in Nat /\ new.token \in {0, old.token}
    /\ new.at # "upload" /\ (new.at = "render" => new.token = 0)

LEMMA QuietClaims ==
    ASSUME NEW c, NEW new, NEW old, NEW a, NEW knownBy, Claims(c, old, a, knownBy), AuditInv(a, knownBy), Quiet(new, old)
    PROVE  Claims(c, new, a, knownBy)
  <1>1. a.attempts \in Nat /\ a.claim \in Nat /\ (a.status = "syncing" => a.claim > 0)
        BY DEF AuditInv
  <1>2. old.token \in Nat /\ old.token <= a.attempts
        BY DEF Claims
  <1>3. new.knows \in Nat /\ new.token \in Nat /\ new.token <= a.attempts
        BY <1>1, <1>2 DEF Quiet
  <1>4. ~(a.status = "syncing" /\ a.claim = new.token /\ new.at \in {"render", "upload"})
    <2> SUFFICES ASSUME a.status = "syncing", new.at \in {"render", "upload"} PROVE a.claim # new.token
        OBVIOUS
    <2>1. new.token = 0
          BY DEF Quiet
    <2> QED BY <1>1, <2>1
  <1> QED BY <1>3, <1>4 DEF Claims

LEMMA QuietSteps ==
    ASSUME RegisterInv, UNCHANGED <<audit, issued, basis>>, invoice'.stamp \in Nat, invoice'.stamp >= invoice.stamp,
           invoice'.year \in Years, NEW c \in Register!Clerks, NEW new, clerk' = Seat(clerk, c, new), Quiet(new, clerk[c])
    PROVE  RegisterInv'
  <1>1. DOMAIN clerk' = Register!Clerks /\ clerk'[c] = new /\ \A d \in Register!Clerks : d # c => clerk'[d] = clerk[d]
        BY DEF RegisterInv, Seat
  <1>2. AuditInv(audit', issued') /\ issued' \in [Years -> Nat] /\ basis' = 1
        BY DEF RegisterInv
  <1>3. ASSUME NEW d \in Register!Clerks PROVE Claims(d, clerk'[d], audit', issued')
    <2>1. Claims(d, clerk[d], audit, issued) /\ AuditInv(audit, issued)
          BY DEF RegisterInv
    <2>2. CASE d = c
          BY <1>1, <2>1, <2>2, QuietClaims
    <2>3. CASE d # c
          BY <1>1, <2>1, <2>3
    <2> QED BY <2>2, <2>3
  <1>4. audit'.stamp <= invoice'.stamp
    <2>1. audit.stamp \in Nat /\ invoice.stamp \in Nat /\ audit.stamp <= invoice.stamp
          BY DEF RegisterInv, AuditInv
    <2> QED BY <2>1
  <1>5. Register!Clerks' = Register!Clerks
        BY DEF Register!Clerks, Register!Others
  <1> QED BY <1>1, <1>2, <1>3, <1>4, <1>5 DEF RegisterInv

LEMMA ReadIs ==
    ASSUME NEW place
    PROVE  LET k == [Register!AtRest EXCEPT !.at = place, !.saw = invoice]
           IN  k.at = place /\ k.knows = 0 /\ k.token = 0
  BY AtRestIs

LEMMA PublishesIs ==
    ASSUME NEW years
    PROVE  LET k == [Register!AtRest EXCEPT !.at = "render", !.years = years]
           IN  k.at = "render" /\ k.knows = 0 /\ k.token = 0
  BY AtRestIs

\* The ways a clerk does that.
LEMMA Reads ==
    ASSUME RegisterInv, UNCHANGED <<invoice, audit, issued, basis>>, NEW c \in Register!Clerks,
           NEW place \in {"known", "extract", "extracted", "claim"}, Register!Read(c, place)
    PROVE  RegisterInv'
  <1> PICK new : new = [Register!AtRest EXCEPT !.at = place, !.saw = invoice]
      OBVIOUS
  <1>1. clerk' = Seat(clerk, c, new)
        BY DEF Register!Read, Seat
  <1>2. new.at = place /\ new.knows = 0 /\ new.token = 0
        BY ReadIs
  <1>3. Quiet(new, clerk[c])
        BY <1>2 DEF Quiet
  <1>4. invoice'.stamp \in Nat /\ invoice'.stamp >= invoice.stamp /\ invoice'.year \in Years
        BY DEF RegisterInv
  <1> QED BY <1>1, <1>3, <1>4, QuietSteps

Rewritten == invoice' = invoice \/ \E a, s, y : y \in Years /\ Register!Written(a, s, y)

LEMMA RewrittenIs ==
    ASSUME RegisterInv, Rewritten
    PROVE  invoice'.stamp \in Nat /\ invoice'.stamp >= invoice.stamp /\ invoice'.year \in Years
  <1>1. invoice.stamp \in Nat /\ invoice.year \in Years
        BY DEF RegisterInv
  <1>2. CASE invoice' = invoice
        BY <1>1, <1>2
  <1>3. ASSUME NEW a, NEW s, NEW y \in Years, Register!Written(a, s, y)
        PROVE  invoice'.stamp = invoice.stamp + 1 /\ invoice'.year = y
        BY <1>3 DEF Register!Written, Register!Row
  <1> QED BY <1>1, <1>2, <1>3 DEF Rewritten

LEMMA Publishing ==
    ASSUME RegisterInv, UNCHANGED <<audit, issued, basis>>, Rewritten, NEW c \in Register!Clerks, NEW years,
           Register!Publishes(c, years)
    PROVE  RegisterInv'
  <1> PICK new : new = [Register!AtRest EXCEPT !.at = "render", !.years = years]
      OBVIOUS
  <1>1. clerk' = Seat(clerk, c, new)
        BY DEF Register!Publishes, Seat
  <1>2. new.at = "render" /\ new.knows = 0 /\ new.token = 0
        BY PublishesIs
  <1>3. Quiet(new, clerk[c])
        BY <1>2 DEF Quiet
  <1> QED BY <1>1, <1>3, RewrittenIs, QuietSteps

LEMMA Resting ==
    ASSUME RegisterInv, UNCHANGED <<audit, issued, basis>>, Rewritten, NEW c \in Register!Clerks, Register!Rests(c)
    PROVE  RegisterInv'
  <1> PICK new : new = Register!AtRest
      OBVIOUS
  <1>1. clerk' = Seat(clerk, c, new)
        BY DEF Register!Rests, Seat
  <1>2. new.at = "rest" /\ new.knows = 0 /\ new.token = 0
        BY AtRestIs
  <1>3. Quiet(new, clerk[c])
        BY <1>2 DEF Quiet
  <1> QED BY <1>1, <1>3, RewrittenIs, QuietSteps

LEMMA Going ==
    ASSUME RegisterInv, UNCHANGED <<invoice, audit, issued, basis>>, NEW c \in Register!Clerks,
           NEW place \in {"claim", "failed"}, Register!Goes(c, place)
    PROVE  RegisterInv'
  <1> PICK old : old = clerk[c]
      OBVIOUS
  <1> PICK new : new = [old EXCEPT !.at = place]
      OBVIOUS
  <1>1. clerk' = Seat(clerk, c, new)
        BY DEF Register!Goes, Seat
  <1>2. new.at = place /\ new.knows = old.knows /\ new.token = old.token
        BY SMT
  <1>3. old.knows \in Nat
        BY DEF RegisterInv, Claims
  <1>4. Quiet(new, old)
        BY <1>2, <1>3 DEF Quiet
  <1>5. Rewritten
        BY DEF Rewritten
  <1> QED BY <1>1, <1>4, <1>5, RewrittenIs, QuietSteps

LEMMA OneClerk ==
    ASSUME DOMAIN clerk = Register!Clerks, NEW c \in Register!Clerks, NEW new, clerk' = Seat(clerk, c, new),
           Claims(c, new, audit', issued'),
           \A d \in Register!Clerks : d # c => Claims(d, clerk[d], audit', issued'),
           AuditInv(audit', issued'), issued' \in [Years -> Nat], basis' = 1,
           invoice'.stamp \in Nat, invoice'.year \in Years, audit'.stamp <= invoice'.stamp
    PROVE  RegisterInv'
  <1>1. DOMAIN clerk' = Register!Clerks /\ clerk'[c] = new /\ \A d \in Register!Clerks : d # c => clerk'[d] = clerk[d]
        BY DEF Seat
  <1>2. ASSUME NEW d \in Register!Clerks PROVE Claims(d, clerk'[d], audit', issued')
        BY <1>1
  <1>3. Register!Clerks' = Register!Clerks
        BY DEF Register!Clerks, Register!Others
  <1> QED BY <1>1, <1>2, <1>3 DEF RegisterInv

LEMMA Unclaimed ==
    ASSUME NEW c, NEW old, NEW new, NEW a, NEW b, NEW knownBy, Claims(c, old, a, knownBy), AuditInv(a, knownBy),
           new.knows \in Nat, new.token \in {0, old.token}, b.attempts = a.attempts, b.status # "syncing"
    PROVE  Claims(c, new, b, knownBy)
  <1>1. a.attempts \in Nat
        BY DEF AuditInv
  <1>2. old.token \in Nat /\ old.token <= a.attempts
        BY DEF Claims
  <1>3. new.knows \in Nat /\ new.token \in Nat /\ new.token <= b.attempts
        BY <1>1, <1>2
  <1> QED BY <1>3 DEF Claims

\* The proposal is applied over the row the user saw, and nobody holds a claim yet.
LEMMA BeginSteps ==
    ASSUME RegisterInv, Proposed \in Years, NEW c \in Register!Clerks, Register!BeginLocalApply(c)
    PROVE  RegisterInv'
  <1> PICK old : old = clerk[c]
      OBVIOUS
  <1> PICK new : new = [old EXCEPT !.at = "claim"]
      OBVIOUS
  <1> PICK stamp : stamp = invoice.stamp + 1
      OBVIOUS
  <1> PICK years : years = {invoice.year, Proposed}
      OBVIOUS
  <1>0. /\ invoice.stamp \in Nat /\ invoice.year \in Years /\ AuditInv(audit, issued) /\ DOMAIN clerk = Register!Clerks
        /\ \A d \in Register!Clerks : Claims(d, clerk[d], audit, issued)
        BY DEF RegisterInv
  <1>1. audit.status = "none" /\ basis' = invoice.stamp /\ invoice.stamp = 1 /\ issued' = issued
        BY DEF Register!BeginLocalApply, Register!NotDrifted, Register!MatchesPreview
  <1>2. invoice'.stamp = stamp /\ invoice'.year = Proposed
        BY DEF Register!BeginLocalApply, Register!Written, Register!Row
  <1>3. audit' = [Register!NoAudit EXCEPT !.status = "pending", !.stamp = stamp, !.years = years]
        BY DEF Register!BeginLocalApply
  <1>4. audit'.status = "pending" /\ audit'.stamp = stamp /\ audit'.years = years /\ audit'.attempts = 0 /\ audit'.claim = 0
        BY <1>3, AtRestIs
  <1>5. audit'.attempts = audit.attempts
        BY <1>0, <1>1, <1>4 DEF AuditInv
  <1>6. AuditInv(audit', issued')
        BY <1>0, <1>4 DEF AuditInv
  <1>7. clerk' = Seat(clerk, c, new)
        BY DEF Register!BeginLocalApply, Register!Goes, Seat
  <1>8. new.knows = old.knows /\ new.token = old.token
        BY SMT
  <1>9. Claims(c, new, audit', issued')
    <2>1. Claims(c, old, audit, issued) /\ old.knows \in Nat
          BY <1>0 DEF Claims
    <2> QED BY <1>0, <1>1, <1>4, <1>5, <1>8, <2>1, Unclaimed
  <1>10. ASSUME NEW d \in Register!Clerks PROVE Claims(d, clerk[d], audit', issued')
    <2>1. Claims(d, clerk[d], audit, issued) /\ clerk[d].knows \in Nat
          BY <1>0 DEF Claims
    <2> QED BY <1>0, <1>1, <1>4, <1>5, <2>1, Unclaimed
  <1>11. issued' \in [Years -> Nat] /\ audit'.stamp <= invoice'.stamp /\ invoice'.stamp \in Nat
         BY <1>0, <1>1, <1>2, <1>4 DEF RegisterInv
  <1> QED BY <1>0, <1>1, <1>2, <1>6, <1>7, <1>9, <1>10, <1>11, OneClerk

LEMMA FinishSteps ==
    ASSUME RegisterInv, NEW c \in Register!Clerks, Register!Finish(c)
    PROVE  RegisterInv'
  <1> PICK old : old = clerk[c]
      OBVIOUS
  <1> PICK new : new = Register!AtRest
      OBVIOUS
  <1>0. /\ invoice.stamp \in Nat /\ invoice.year \in Years /\ AuditInv(audit, issued) /\ DOMAIN clerk = Register!Clerks
        /\ \A d \in Register!Clerks : Claims(d, clerk[d], audit, issued)
        /\ audit.stamp <= invoice.stamp /\ issued \in [Years -> Nat] /\ basis = 1
        BY DEF RegisterInv
  <1>1. UNCHANGED <<invoice, issued, basis>> /\ clerk' = Seat(clerk, c, new)
        BY DEF Register!Finish, Register!Rests, Seat
  <1>2. CASE audit' = audit
    <2>1. Rewritten /\ Register!Rests(c)
          BY <1>1 DEF Rewritten, Register!Finish
    <2> QED BY <1>1, <1>2, <2>1, Resting
  <1>3. CASE audit' # audit
    <2>1. audit.status = "syncing" /\ audit.claim = old.token /\ c \in Applies
          BY <1>3 DEF Register!Finish
    <2> PICK result : result = IF old.at = "failed" THEN "failed" ELSE "completed"
        OBVIOUS
    <2>2. audit' = [audit EXCEPT !.status = result, !.claim = 0]
          BY <1>3 DEF Register!Finish, Register!At
    <2>3. result = "completed" => old.at = "render" /\ old.years = {}
          BY DEF Register!Finish, Register!At
    <2>4. /\ audit'.status = result /\ audit'.claim = 0 /\ audit'.stamp = audit.stamp
          /\ audit'.years = audit.years /\ audit'.attempts = audit.attempts
          BY <2>2
    <2>5. AuditInv(audit', issued')
      <3>1. result = "completed" => \A y \in audit.years : issued[y] >= audit.stamp
            BY <1>0, <2>1, <2>3 DEF Claims
      <3>2. audit.stamp \in Nat /\ audit.attempts \in Nat /\ (audit.years = {} \/ \E x, y \in Years : audit.years = {x, y})
            BY <1>0 DEF AuditInv
      <3>3. result \in {"failed", "completed"}
            OBVIOUS
      <3> QED BY <1>1, <2>4, <3>1, <3>2, <3>3 DEF AuditInv
    <2>6. audit'.status # "syncing"
          BY <2>4
    <2>7. Claims(c, new, audit', issued')
      <3>1. new.knows = 0 /\ new.token = 0
            BY AtRestIs
      <3> QED BY <1>0, <1>1, <2>4, <2>6, <3>1, Unclaimed
    <2>8. ASSUME NEW d \in Register!Clerks PROVE Claims(d, clerk[d], audit', issued')
      <3>1. Claims(d, clerk[d], audit, issued) /\ clerk[d].knows \in Nat
            BY <1>0 DEF Claims
      <3> QED BY <1>0, <1>1, <2>4, <2>6, <3>1, Unclaimed
    <2> QED BY <1>0, <1>1, <2>4, <2>5, <2>7, <2>8, OneClerk
  <1> QED BY <1>2, <1>3

\* A new claim has a number nobody else has.
LEMMA ClaimSteps ==
    ASSUME RegisterInv, NEW c \in Register!Clerks, Register!ClaimRegisterSync(c)
    PROVE  RegisterInv'
  <1> PICK old : old = clerk[c]
      OBVIOUS
  <1> PICK number : number = audit.attempts + 1
      OBVIOUS
  <1> PICK years : years = audit.years
      OBVIOUS
  <1> PICK new : new = [old EXCEPT !.at = "render", !.years = years, !.token = number]
      OBVIOUS
  <1> PICK no : no = FALSE
      OBVIOUS
  <1>0. /\ invoice.stamp \in Nat /\ invoice.year \in Years /\ AuditInv(audit, issued) /\ DOMAIN clerk = Register!Clerks
        /\ \A d \in Register!Clerks : Claims(d, clerk[d], audit, issued)
        /\ audit.stamp <= invoice.stamp /\ issued \in [Years -> Nat] /\ basis = 1
        BY DEF RegisterInv
  <1>1. UNCHANGED <<invoice, issued, basis>>
        BY DEF Register!ClaimRegisterSync
  <1>2. clerk' = Seat(clerk, c, new)
        BY DEF Register!ClaimRegisterSync, Seat
  <1>3. audit' = [audit EXCEPT !.status = "syncing", !.claim = number, !.attempts = number, !.stale = no]
        BY DEF Register!ClaimRegisterSync
  <1>4. /\ audit'.status = "syncing" /\ audit'.claim = number /\ audit'.attempts = number
        /\ audit'.stamp = audit.stamp /\ audit'.years = years
        BY <1>3
  <1>5. new.at = "render" /\ new.years = years /\ new.token = number /\ new.knows = old.knows
        BY SMT
  <1>6. audit.attempts \in Nat /\ number \in Nat /\ number > 0 /\ audit.attempts < number
        BY <1>0 DEF AuditInv
  <1>7. AuditInv(audit', issued')
        BY <1>0, <1>1, <1>4, <1>6 DEF AuditInv
  <1>8. Claims(c, new, audit', issued')
    <2>1. old.knows \in Nat
          BY <1>0 DEF Claims
    <2> QED BY <1>4, <1>5, <1>6, <2>1 DEF Claims
  <1>9. ASSUME NEW d \in Register!Clerks PROVE Claims(d, clerk[d], audit', issued')
    <2>1. clerk[d].token \in Nat /\ clerk[d].token <= audit.attempts /\ clerk[d].knows \in Nat
          BY <1>0 DEF Claims
    <2>2. clerk[d].token # number /\ clerk[d].token <= number
          BY <1>6, <2>1
    <2> QED BY <1>4, <2>1, <2>2 DEF Claims
  <1> QED BY <1>0, <1>1, <1>2, <1>4, <1>7, <1>8, <1>9, OneClerk

\* What is rendered now knows of the change.
LEMMA RenderSteps ==
    ASSUME RegisterInv, NEW c \in Register!Clerks, Register!Render(c)
    PROVE  RegisterInv'
  <1> PICK old : old = clerk[c]
      OBVIOUS
  <1> PICK page : page = Register!Rendered(Register!Min(clerk[c].years), invoice)
      OBVIOUS
  <1> PICK stamp : stamp = invoice.stamp
      OBVIOUS
  <1> PICK new : new = [old EXCEPT !.at = "upload", !.page = page, !.knows = stamp]
      OBVIOUS
  <1>0. /\ stamp \in Nat /\ invoice.year \in Years /\ AuditInv(audit, issued) /\ DOMAIN clerk = Register!Clerks
        /\ \A d \in Register!Clerks : Claims(d, clerk[d], audit, issued)
        /\ audit.stamp <= stamp /\ issued \in [Years -> Nat] /\ basis = 1
        BY DEF RegisterInv
  <1>1. UNCHANGED <<invoice, audit, issued, basis>> /\ old.at = "render" /\ old.years # {}
        BY DEF Register!Render, Register!At
  <1>2. clerk' = Seat(clerk, c, new)
        BY DEF Register!Render, Seat
  <1>3. new.at = "upload" /\ new.years = old.years /\ new.token = old.token /\ new.knows = stamp
        BY SMT
  <1>4. Claims(c, new, audit', issued')
    <2>1. Claims(c, old, audit, issued) /\ audit.stamp \in Nat
          BY <1>0 DEF AuditInv
    <2> QED BY <1>0, <1>1, <1>3, <2>1 DEF Claims
  <1> QED BY <1>0, <1>1, <1>2, <1>4, OneClerk

\* A later rendering may take the place of an earlier one, but none that knows less.
LEMMA UploadedMore ==
    ASSUME NEW i \in [Years -> Nat], NEW knows \in Nat, NEW y,
           NEW j, j = [i EXCEPT ![y] = IF knows > i[y] THEN knows ELSE i[y]]
    PROVE  /\ j \in [Years -> Nat] /\ \A z \in Years : j[z] >= i[z]
           /\ y \in Years => j[y] >= knows
  <1>1. PICK v : v = IF knows > i[y] THEN knows ELSE i[y]
        OBVIOUS
  <1>2. j = [i EXCEPT ![y] = v]
        BY <1>1
  <1>3. CASE y \in Years
    <2>1. i[y] \in Nat /\ v \in Nat /\ v >= i[y] /\ v >= knows
          BY <1>1, <1>3
    <2>2. j[y] = v /\ \A z \in Years \ {y} : j[z] = i[z]
          BY <1>2, <1>3
    <2>3. j \in [Years -> Nat]
          BY <1>2, <2>1
    <2>4. ASSUME NEW z \in Years PROVE j[z] >= i[z]
      <3>1. i[z] \in Nat
            OBVIOUS
      <3> QED BY <2>1, <2>2, <3>1
    <2> QED BY <2>1, <2>2, <2>3, <2>4
  <1>4. CASE y \notin Years
    <2>1. \A z \in Years : j[z] = i[z] /\ i[z] \in Nat
          BY <1>2, <1>4
    <2>2. j \in [Years -> Nat]
          BY <1>2, <1>4
    <2>3. ASSUME NEW z \in Years PROVE j[z] >= i[z]
          BY <2>1
    <2> QED BY <2>2, <2>3, <1>4
  <1> QED BY <1>3, <1>4

LEMMA ClaimsMore ==
    ASSUME NEW c, NEW k, NEW a, NEW i \in [Years -> Nat], NEW j \in [Years -> Nat], \A z \in Years : j[z] >= i[z],
           AuditInv(a, i), Claims(c, k, a, i)
    PROVE  Claims(c, k, a, j) /\ AuditInv(a, j)
  <1>1. a.years \subseteq Years /\ a.stamp \in Nat
        BY DEF AuditInv
  <1>2. ASSUME NEW y \in a.years, i[y] >= a.stamp PROVE j[y] >= a.stamp
        BY <1>1, <1>2
  <1>3. Claims(c, k, a, j)
        BY <1>2 DEF Claims
  <1>4. AuditInv(a, j)
        BY <1>2 DEF AuditInv
  <1> QED BY <1>3, <1>4

LEMMA FirstYear ==
    ASSUME Years \subseteq Nat, NEW a, NEW knownBy, AuditInv(a, knownBy), NEW years, years \subseteq a.years, years # {}
    PROVE  Register!Min(years) \in years /\ Register!Min(years) \in Years
  <1>1. PICK x, y \in Years : a.years = {x, y}
        BY DEF AuditInv
  <1>2. x \in Nat /\ y \in Nat
        OBVIOUS
  <1>3. \E m \in years : \A n \in years : m =< n
        BY <1>1, <1>2
  <1>4. Register!Min(years) \in years
        BY <1>3, Zenon DEF Register!Min
  <1> QED BY <1>1, <1>4

LEMMA UploadSteps ==
    ASSUME RegisterInv, Years \subseteq Nat, NEW c \in Register!Clerks, Register!Upload(c)
    PROVE  RegisterInv'
  <1> PICK old : old = clerk[c]
      OBVIOUS
  <1> PICK y : y = Register!Min(clerk[c].years)
      OBVIOUS
  <1> PICK rest : rest = old.years \ {y}
      OBVIOUS
  <1>0. /\ invoice.stamp \in Nat /\ invoice.year \in Years /\ AuditInv(audit, issued) /\ DOMAIN clerk = Register!Clerks
        /\ \A d \in Register!Clerks : Claims(d, clerk[d], audit, issued)
        /\ audit.stamp <= invoice.stamp /\ issued \in [Years -> Nat] /\ basis = 1
        BY DEF RegisterInv
  <1>1. UNCHANGED <<invoice, audit, basis>> /\ old.at = "upload"
        BY DEF Register!Upload, Register!At
  <1>2. CASE Register!Uploaded(c)
            /\ clerk' = [clerk EXCEPT ![c].at = "render", ![c].years = rest, ![c].page = 0, ![c].knows = 0]
    <2> PICK new : new = [old EXCEPT !.at = "render", !.years = rest, !.page = 0, !.knows = 0]
        OBVIOUS
    <2>1. new.at = "render" /\ new.years = rest /\ new.token = old.token /\ new.knows = 0
          BY SMT
    <2>2. clerk' = Seat(clerk, c, new)
          BY <1>2 DEF Seat
    <2>3. issued' = [issued EXCEPT ![y] = IF old.knows > issued[y] THEN old.knows ELSE issued[y]]
          BY <1>2 DEF Register!Uploaded
    <2>4. old.knows \in Nat /\ Claims(c, old, audit, issued)
          BY <1>0 DEF Claims
    <2>5. /\ issued' \in [Years -> Nat] /\ \A z \in Years : issued'[z] >= issued[z]
          /\ y \in Years => issued'[y] >= old.knows
          BY <1>0, <2>3, <2>4, UploadedMore
    <2>6. ASSUME NEW d \in Register!Clerks PROVE Claims(d, clerk[d], audit', issued') /\ AuditInv(audit', issued')
          BY <1>0, <1>1, <2>5, ClaimsMore
    <2>7. Claims(c, new, audit', issued')
      <3>1. Claims(c, old, audit, issued') /\ AuditInv(audit, issued')
            BY <1>1, <2>6
      <3>2. ASSUME c \in Applies, audit.status = "syncing", audit.claim = old.token
            PROVE  rest \subseteq audit.years /\ \A z \in audit.years \ rest : issued'[z] >= audit.stamp
        <4>1. /\ old.years \subseteq audit.years /\ old.years # {} /\ old.knows >= audit.stamp
              /\ \A z \in audit.years \ old.years : issued'[z] >= audit.stamp
              BY <1>1, <3>1, <3>2 DEF Claims
        <4>2. y \in old.years /\ y \in Years
              BY <1>0, <4>1, FirstYear
        <4>3. audit.stamp \in Nat /\ issued'[y] \in Nat
              BY <1>0, <2>5, <4>2 DEF AuditInv
        <4>4. issued'[y] >= audit.stamp
              BY <2>4, <2>5, <4>1, <4>2, <4>3
        <4> QED BY <4>1, <4>4
      <3>3. old.token \in Nat /\ old.token <= audit.attempts
            BY <2>4 DEF Claims
      <3> QED BY <1>1, <2>1, <3>2, <3>3 DEF Claims
    <2> QED BY <1>0, <1>1, <2>2, <2>5, <2>6, <2>7, OneClerk
  <1>3. CASE issued' = issued
            /\ clerk' = [clerk EXCEPT ![c].at = IF c \in Applies THEN "failed" ELSE "render",
                                      ![c].years = IF c \in {"backfill", "correct"} THEN rest ELSE {},
                                      ![c].page = 0, ![c].knows = 0]
    <2> PICK place : place = IF c \in Applies THEN "failed" ELSE "render"
        OBVIOUS
    <2> PICK years : years = IF c \in {"backfill", "correct"} THEN rest ELSE {}
        OBVIOUS
    <2> PICK new : new = [old EXCEPT !.at = place, !.years = years, !.page = 0, !.knows = 0]
        OBVIOUS
    <2>1. new.at = place /\ new.token = old.token /\ new.knows = 0
          BY SMT
    <2>2. clerk' = Seat(clerk, c, new)
          BY <1>3 DEF Seat
    <2>3. old.token \in Nat /\ old.token <= audit.attempts
          BY <1>0 DEF Claims
    <2>4. c \in Applies => place = "failed"
          OBVIOUS
    <2>5. Claims(c, new, audit', issued')
          BY <1>1, <1>3, <2>1, <2>3, <2>4 DEF Claims
    <2> QED BY <1>0, <1>1, <1>3, <2>2, <2>5, OneClerk
  <1> QED BY <1>2, <1>3 DEF Register!Upload

LEMMA RegisterSteps ==
    ASSUME RegisterInv, RecordsAssumption, [Register!Next]_invoicesVars
    PROVE  RegisterInv'
  <1>0. {"mail", "backfill", "correct"} \subseteq Register!Clerks /\ Applies \subseteq Register!Clerks
        BY DEF Register!Clerks, Register!Others
  <1>a. Years \subseteq Nat /\ Proposed \in Years
        BY DEF RecordsAssumption
  <1>1. CASE Register!MailReads
    <2>1. UNCHANGED <<invoice, audit, issued, basis>>
          BY <1>1 DEF Register!MailReads
    <2>2. \E place \in {"known", "extract", "extracted", "claim"} : Register!Read("mail", place)
          BY <1>1 DEF Register!MailReads
    <2> QED BY <1>0, <2>1, <2>2, Reads
  <1>2. CASE Register!MailKnows
        BY <1>0, <1>2, Publishing DEF Register!MailKnows, Rewritten
  <1>3. CASE Register!MailStores
    <2>1. UNCHANGED <<audit, issued, basis>>
          BY <1>3 DEF Register!MailStores
    <2>2. Rewritten
          BY <1>3 DEF Register!MailStores, Rewritten
    <2>3. Register!Rests("mail") \/ \E years : Register!Publishes("mail", years)
          BY <1>3 DEF Register!MailStores
    <2> QED BY <1>0, <2>1, <2>2, <2>3, Publishing, Resting
  <1>4. CASE Register!BackfillReads
    <2>1. UNCHANGED <<invoice, audit, issued, basis>> /\ Register!Read("backfill", "extract")
          BY <1>4 DEF Register!BackfillReads
    <2> QED BY <1>0, <2>1, Reads
  <1>5. CASE Register!BackfillStores
    <2>1. UNCHANGED <<audit, issued, basis>>
          BY <1>5 DEF Register!BackfillStores
    <2>2. Rewritten
          BY <1>5 DEF Register!BackfillStores, Rewritten
    <2>3. \E years : Register!Publishes("backfill", years)
          BY <1>5 DEF Register!BackfillStores
    <2> QED BY <1>0, <2>1, <2>2, <2>3, Publishing
  <1>6. CASE Register!Correct
    <2>1. UNCHANGED <<audit, issued, basis>>
          BY <1>6 DEF Register!Correct
    <2>2. Rewritten
          BY <1>6 DEF Register!Correct, Rewritten
    <2>3. \E years : Register!Publishes("correct", years)
          BY <1>6 DEF Register!Correct
    <2> QED BY <1>0, <2>1, <2>2, <2>3, Publishing
  <1>7. ASSUME NEW c \in Applies, Register!Apply(c) PROVE RegisterInv'
    <2>0. c \in Register!Clerks
          BY <1>0
    <2>1. CASE Register!ApplyReads(c)
      <3>1. UNCHANGED <<invoice, audit, issued, basis>>
            BY <2>1 DEF Register!ApplyReads
      <3>2. \E place \in {"known", "extract", "extracted", "claim"} : Register!Read(c, place)
            BY <2>1 DEF Register!ApplyReads
      <3> QED BY <2>0, <3>1, <3>2, Reads
    <2>2. CASE Register!BeginLocalApply(c)
          BY <1>a, <2>0, <2>2, BeginSteps
    <2>3. CASE Register!AppliedBefore(c)
      <3>1. UNCHANGED <<invoice, audit, issued, basis>>
            BY <2>3 DEF Register!AppliedBefore
      <3>2. Register!Goes(c, "claim") \/ Register!Rests(c)
            BY <2>3 DEF Register!AppliedBefore
      <3>3. Rewritten
            BY <3>1 DEF Rewritten
      <3> QED BY <2>0, <3>1, <3>2, <3>3, Going, Resting
    <2>4. CASE Register!ClaimRegisterSync(c)
          BY <2>0, <2>4, ClaimSteps
    <2>5. CASE Register!ClaimRefused(c)
      <3>1. UNCHANGED <<invoice, audit, issued, basis>> /\ Register!Rests(c)
            BY <2>5 DEF Register!ClaimRefused
      <3> QED BY <2>0, <3>1, Resting DEF Rewritten
    <2>6. CASE Register!Drift(c)
      <3>1. UNCHANGED <<invoice, audit, issued, basis>> /\ Register!Goes(c, "failed")
            BY <2>6 DEF Register!Drift
      <3> QED BY <2>0, <3>1, Going
    <2>7. CASE Register!Finish(c)
          BY <2>0, <2>7, FinishSteps
    <2> QED BY <1>7, <2>1, <2>2, <2>3, <2>4, <2>5, <2>6, <2>7 DEF Register!Apply
  <1>8. ASSUME NEW c \in Register!Clerks, Register!Register(c) PROVE RegisterInv'
    <2>1. CASE Register!Render(c)
          BY <2>1, RenderSteps
    <2>2. CASE Register!Upload(c)
          BY <1>a, <2>2, UploadSteps
    <2>3. CASE Register!Published(c) \/ Register!Killed(c)
      <3>1. UNCHANGED <<invoice, audit, issued, basis>> /\ Register!Rests(c)
            BY <2>3 DEF Register!Published, Register!Killed
      <3> QED BY <3>1, Resting DEF Rewritten
    <2> QED BY <1>8, <2>1, <2>2, <2>3 DEF Register!Register
  <1>9. CASE Register!ClaimAges
    <2>1. UNCHANGED <<invoice, issued, basis, clerk>>
          BY <1>9 DEF Register!ClaimAges
    <2> PICK yes : yes = TRUE
        OBVIOUS
    <2>2. audit' = [audit EXCEPT !.stale = yes]
          BY <1>9 DEF Register!ClaimAges
    <2>3. /\ audit'.status = audit.status /\ audit'.claim = audit.claim /\ audit'.attempts = audit.attempts
          /\ audit'.stamp = audit.stamp /\ audit'.years = audit.years
          BY <2>2
    <2>4. AuditInv(audit', issued')
          BY <2>1, <2>3 DEF RegisterInv, AuditInv
    <2>5. ASSUME NEW c \in Register!Clerks PROVE Claims(c, clerk'[c], audit', issued')
      <3>1. Claims(c, clerk[c], audit, issued)
            BY DEF RegisterInv
      <3> QED BY <2>1, <2>3, <3>1 DEF Claims
    <2>6. Register!Clerks' = Register!Clerks
          BY DEF Register!Clerks, Register!Others
    <2> QED BY <2>1, <2>3, <2>4, <2>5, <2>6 DEF RegisterInv
  <1>10. CASE Register!MailMoves
    <2>1. UNCHANGED <<audit, issued, basis, clerk>>
          BY <1>10 DEF Register!MailMoves
    <2> PICK stamp : stamp = invoice.stamp + 1
        OBVIOUS
    <2>2. invoice' = [invoice EXCEPT !.stamp = stamp]
          BY <1>10 DEF Register!MailMoves
    <2>3. invoice'.stamp = stamp /\ invoice'.year = invoice.year
          BY <2>2
    <2>4. invoice.stamp \in Nat /\ audit.stamp \in Nat /\ audit.stamp <= invoice.stamp
          BY DEF RegisterInv, AuditInv
    <2>5. Register!Clerks' = Register!Clerks
          BY DEF Register!Clerks, Register!Others
    <2> QED BY <2>1, <2>3, <2>4, <2>5 DEF RegisterInv
  <1>11. CASE UNCHANGED invoicesVars
    <2>1. Register!Clerks' = Register!Clerks
          BY DEF Register!Clerks, Register!Others
    <2> QED BY <1>11, <2>1 DEF invoicesVars, RegisterInv
  <1> QED BY <1>1, <1>2, <1>3, <1>4, <1>5, <1>6, <1>7, <1>8, <1>9, <1>10, <1>11 DEF Register!Next

LEMMA RegisterShows == RegisterInv => Register!AppliedOverWhatWasSeen /\ Register!CompletedWasPublished
  BY DEF RegisterInv, AuditInv, Register!AppliedOverWhatWasSeen, Register!CompletedWasPublished

InvoicesInv == (turn = "paper" => PaperInv) /\ (turn = "invoices" => RegisterInv)

\* Nothing is confirmed that two readings of an invoice tell differently; a proposal is
\* applied only over the row the user saw; and completed means that every register it
\* concerns was uploaded with the change in it, for any layers, pages, years and runs of
\* reprocess-apply, and whatever fails, ages or is repeated between.
THEOREM InvoicesHold == AllSpec => []InvoicesAreTrue
  <1>1. AllInit => InvoicesInv
    <2>1. ASSUME AllInit, turn = "paper" PROVE PaperInv
          BY <2>1 DEF AllInit, Paper!Init, PaperInv
    <2>2. ASSUME AllInit, turn = "invoices" PROVE RegisterInv
          BY <2>2, RegisterStarts DEF AllInit
    <2> QED BY <2>1, <2>2 DEF InvoicesInv
  <1>2. InvoicesInv /\ [AllNext]_allVars => InvoicesInv'
        BY OneTurn, PaperSteps, RegisterSteps, RecordsAssumption DEF InvoicesInv
  <1>3. InvoicesInv => InvoicesAreTrue
        BY PaperShows, RegisterShows DEF InvoicesInv, InvoicesAreTrue
  <1> QED BY <1>1, <1>2, <1>3, PTL DEF AllSpec

-----------------------------------------------------------------------------
(* Orders: where a process is with an order, and what the board shows by then *)

BoardKeys == Board!Keys
BoardRows == [key : BoardKeys, status : 0..8, tracked : BOOLEAN, synced : {"pending", "ok", "error"}, card : Nat, stack : 0..8]
Cards == [key : BoardKeys, stack : 0..8, text : 0..8, managed : BOOLEAN, gone : BOOLEAN, dated : BOOLEAN]
Places == {"free", "pick", "read", "refuse", "create", "update", "move", "keep", "date"}
Desks == [at : Places, todo : SUBSET BoardRows, key : BoardKeys, row : Seq(BoardRows), card : Seq(Cards)]

\* The card a row names shows that order.
Names(r, cs) == r.card \in 0..Len(cs) /\ (r.card # 0 => cs[r.card].key = r.key)

Working(d) == d.at \notin {"free", "pick"}
BusyWith(d) == {r.key : r \in d.todo} \cup (IF Working(d) THEN {d.key} ELSE {})

OrderFits(k, o, cs) == o # <<>> => Len(o) = 1 /\ o[1].key = k /\ Names(o[1], cs)

DeskFits(c, d, os, cs) ==
    /\ d \in Desks
    /\ c = "mail" => d.todo = {} /\ d.at # "pick"
    /\ \A r \in d.todo : os[r.key] # <<>> /\ Names(r, cs)
    /\ Working(d) => os[d.key] # <<>> /\ Len(d.row) = 1 /\ d.row[1].key = d.key /\ Names(d.row[1], cs)
    /\ d.at = "update" => Len(d.card) = 1 /\ d.card[1].key = d.key
    /\ d.at \in {"update", "move", "keep", "date"} => d.row[1].card # 0

\* The status of the mail that got furthest.
Told(k, es) == {e.proposed : e \in {f \in es : f.key = k}}
Furthest(told, o) ==
    /\ told \subseteq 0..8 /\ (o = <<>> <=> told = {})
    /\ told # {} /\ 8 \notin told => o[1].status \in told /\ \A x \in told : x <= o[1].status

BoardTypes ==
    /\ edits \in Nat /\ cards \in Seq(Cards)
    /\ orders \in [BoardKeys -> Seq(BoardRows)]
    /\ DOMAIN desk = Board!Clerks
    /\ \A k \in BoardKeys : OrderFits(k, orders[k], cards) /\ Furthest(Told(k, events), orders[k])
    /\ \A c \in Board!Clerks : DeskFits(c, desk[c], orders, cards)

Untouched(cs) == \A n \in 1..Len(cs) : cs[n].managed /\ ~cs[n].gone /\ cs[n].dated

DeskShows(d, os, cs, col) ==
    /\ d.at \notin {"refuse", "date"}
    /\ d.at = "update" => d.card[1].managed /\ ~d.card[1].gone
    /\ \A r \in d.todo : r.key \notin col => r = os[r.key][1] /\ r.synced # "ok"
    /\ Working(d) /\ d.key \notin col =>
          /\ os[d.key][1].synced # "ok" /\ os[d.key][1].status = d.row[1].status
          /\ \A r \in d.todo : r.key # d.key
          /\ d.at = "update" => cs[d.row[1].card].stack = d.row[1].stack
          /\ d.at \in {"move", "keep"} => cs[d.row[1].card].text = d.row[1].status
          /\ d.at = "keep" => cs[d.row[1].card].stack = d.row[1].status

OrderShows(k, o, cs, col) ==
    o # <<>> /\ k \notin col /\ o[1].synced = "ok" =>
        o[1].card # 0 /\ cs[o[1].card].stack = o[1].status /\ cs[o[1].card].text = o[1].status

BoardShows ==
    /\ Untouched(cards)
    /\ \A k \in BoardKeys : OrderShows(k, orders[k], cards, collided)
    /\ \A c \in Board!Clerks : DeskShows(desk[c], orders, cards, collided)
    /\ \A c, d \in Board!Clerks : c # d => BusyWith(desk[c]) \cap BusyWith(desk[d]) \subseteq collided

BoardInv == BoardTypes /\ (edits = 0 => BoardShows)


OnlyOrder(j, os, os2) ==
    /\ os2 \in [BoardKeys -> Seq(BoardRows)]
    /\ \A k \in BoardKeys : (os[k] # <<>> => os2[k] # <<>>) /\ (k # j => os2[k] = os[k])

OnlyCards(j, cs, cs2) ==
    /\ cs2 \in Seq(Cards) /\ Len(cs2) >= Len(cs)
    /\ \A n \in 1..Len(cs) : cs2[n].key = cs[n].key /\ (cs[n].key # j => cs2[n] = cs[n])

LEMMA FirstIs ==
    ASSUME NEW S, NEW s \in Seq(S), Len(s) = 1 PROVE s[1] \in S /\ s # <<>>
  OBVIOUS

LEMMA OneIs ==
    ASSUME NEW S, NEW x \in S PROVE <<x>> \in Seq(S) /\ Len(<<x>>) = 1 /\ <<x>>[1] = x
  OBVIOUS

LEMMA NamesStay ==
    ASSUME NEW r \in BoardRows, NEW cs \in Seq(Cards), NEW j, NEW cs2, Names(r, cs), OnlyCards(j, cs, cs2)
    PROVE  /\ Names(r, cs2)
           /\ r.card # 0 => r.card \in 1..Len(cs) /\ (r.key # j => cs2[r.card] = cs[r.card])
  BY DEF Names, OnlyCards, BoardRows

LEMMA DeskIs ==
    ASSUME NEW d \in Desks
    PROVE  /\ d.todo \subseteq BoardRows /\ d.key \in BoardKeys /\ d.row \in Seq(BoardRows) /\ d.card \in Seq(Cards)
           /\ Len(d.row) = 1 => d.row[1] \in BoardRows
           /\ Len(d.card) = 1 => d.card[1] \in Cards
  BY DEF Desks

LEMMA RowIs ==
    ASSUME NEW r \in BoardRows
    PROVE  r.key \in BoardKeys /\ r.status \in 0..8 /\ r.card \in Nat /\ r.stack \in 0..8 /\ r.tracked \in BOOLEAN
  BY DEF BoardRows

LEMMA OtherFits ==
    ASSUME NEW c, NEW d, NEW j, NEW os, NEW os2, NEW cs \in Seq(Cards), NEW cs2,
           DeskFits(c, d, os, cs), OnlyOrder(j, os, os2), OnlyCards(j, cs, cs2)
    PROVE  DeskFits(c, d, os2, cs2)
  <1>1. d \in Desks
        BY DEF DeskFits
  <1>2. ASSUME NEW r \in d.todo PROVE os2[r.key] # <<>> /\ Names(r, cs2)
    <2>1. os[r.key] # <<>> /\ Names(r, cs) /\ r \in BoardRows
          BY <1>1, DeskIs DEF DeskFits
    <2>2. Names(r, cs2) /\ r.key \in BoardKeys
          BY <2>1, NamesStay, RowIs
    <2> QED BY <2>1, <2>2 DEF OnlyOrder
  <1>3. ASSUME Working(d) PROVE os2[d.key] # <<>> /\ Len(d.row) = 1 /\ d.row[1].key = d.key /\ Names(d.row[1], cs2)
    <2>1. os[d.key] # <<>> /\ Len(d.row) = 1 /\ d.row[1].key = d.key /\ Names(d.row[1], cs)
          BY <1>3 DEF DeskFits
    <2>2. d.row[1] \in BoardRows /\ d.key \in BoardKeys
          BY <1>1, <2>1, DeskIs
    <2>3. Names(d.row[1], cs2)
          BY <2>1, <2>2, NamesStay
    <2> QED BY <2>1, <2>2, <2>3 DEF OnlyOrder
  <1> QED BY <1>1, <1>2, <1>3 DEF DeskFits

\* Nobody is disturbed who does not work on the same order, or is known to.
LEMMA OtherShows ==
    ASSUME NEW c, NEW d, NEW j, NEW os, NEW os2, NEW cs \in Seq(Cards), NEW cs2, NEW col, NEW col2,
           DeskFits(c, d, os, cs), OnlyOrder(j, os, os2), OnlyCards(j, cs, cs2), DeskShows(d, os, cs, col),
           col \subseteq col2, j \in BusyWith(d) => j \in col2
    PROVE  DeskShows(d, os2, cs2, col2)
  <1>1. d \in Desks
        BY DEF DeskFits
  <1>2. ASSUME NEW r \in d.todo, r.key \notin col2 PROVE r = os2[r.key][1] /\ r.synced # "ok"
    <2>1. r.key \in BusyWith(d) /\ r \in BoardRows
          BY <1>1, DeskIs DEF BusyWith
    <2>2. r.key # j /\ r.key \notin col /\ r.key \in BoardKeys
          BY <1>2, <2>1, RowIs
    <2> QED BY <2>2 DEF DeskShows, OnlyOrder
  <1>3. ASSUME Working(d), d.key \notin col2
        PROVE  /\ os2[d.key][1].synced # "ok" /\ os2[d.key][1].status = d.row[1].status
               /\ \A r \in d.todo : r.key # d.key
               /\ d.at = "update" => cs2[d.row[1].card].stack = d.row[1].stack
               /\ d.at \in {"move", "keep"} => cs2[d.row[1].card].text = d.row[1].status
               /\ d.at = "keep" => cs2[d.row[1].card].stack = d.row[1].status
    <2>1. d.key # j /\ d.key \notin col
          BY <1>3 DEF BusyWith
    <2>2. Len(d.row) = 1 /\ d.row[1].key = d.key /\ Names(d.row[1], cs) /\ d.row[1] \in BoardRows /\ d.key \in BoardKeys
          BY <1>1, <1>3, DeskIs DEF DeskFits
    <2>3. os2[d.key] = os[d.key]
          BY <2>1, <2>2 DEF OnlyOrder
    <2>4. d.row[1].card # 0 => cs2[d.row[1].card] = cs[d.row[1].card]
          BY <2>1, <2>2, NamesStay
    <2>5. d.at \in {"update", "move", "keep"} => d.row[1].card # 0
          BY DEF DeskFits
    <2> QED BY <1>3, <2>1, <2>3, <2>4, <2>5 DEF DeskShows
  <1> QED BY <1>2, <1>3 DEF DeskShows

LEMMA OtherOrder ==
    ASSUME NEW k \in BoardKeys, NEW j, k # j, NEW os \in [BoardKeys -> Seq(BoardRows)], NEW os2,
           NEW cs \in Seq(Cards), NEW cs2, OnlyOrder(j, os, os2), OnlyCards(j, cs, cs2), OrderFits(k, os[k], cs)
    PROVE  /\ os2[k] = os[k] /\ OrderFits(k, os2[k], cs2)
           /\ \A col, col2 : col \subseteq col2 /\ OrderShows(k, os[k], cs, col) => OrderShows(k, os2[k], cs2, col2)
  <1>1. os2[k] = os[k]
        BY DEF OnlyOrder
  <1>2. CASE os[k] = <<>>
        BY <1>1, <1>2 DEF OrderFits, OrderShows
  <1>3. CASE os[k] # <<>>
    <2>1. Len(os[k]) = 1 /\ os[k][1].key = k /\ Names(os[k][1], cs)
          BY <1>3 DEF OrderFits
    <2>2. os[k] \in Seq(BoardRows) /\ os[k][1] \in BoardRows
      <3>1. os[k] \in Seq(BoardRows)
            OBVIOUS
      <3> QED BY <2>1, <3>1, FirstIs
    <2>3. Names(os[k][1], cs2) /\ (os[k][1].card # 0 => cs2[os[k][1].card] = cs[os[k][1].card])
          BY <2>1, <2>2, NamesStay
    <2> QED BY <1>1, <2>1, <2>3 DEF OrderFits, OrderShows
  <1> QED BY <1>2, <1>3

LEMMA Seated ==
    ASSUME NEW f, NEW S, DOMAIN f = S, NEW c \in S, NEW d
    PROVE  DOMAIN Seat(f, c, d) = S /\ Seat(f, c, d)[c] = d /\ \A b \in S \ {c} : Seat(f, c, d)[b] = f[b]
  BY DEF Seat

LEMMA SameClerks == Board!Clerks' = Board!Clerks /\ Board!Keys' = Board!Keys /\ BoardKeys' = BoardKeys
  BY DEF Board!Clerks, Board!Keys, BoardKeys

\* Doing d next for the order j, c is in nobody's way whom it is not known to meet.
Alone(c, d, j, ds, col) ==
    \A b \in Board!Clerks \ {c} :
        (j \in BusyWith(ds[b]) => j \in col) /\ BusyWith(d) \cap BusyWith(ds[b]) \subseteq col

\* c did something for the order j and does d next.
LEMMA ClerkWorked ==
    ASSUME BoardInv, NEW c \in Board!Clerks, NEW d, NEW j \in BoardKeys, edits' = edits, desk' = Seat(desk, c, d),
           OnlyOrder(j, orders, orders'), OnlyCards(j, cards, cards'), collided \subseteq collided',
           OrderFits(j, orders'[j], cards'), Furthest(Told(j, events'), orders'[j]),
           \A k \in BoardKeys \ {j} : Told(k, events') = Told(k, events),
           DeskFits(c, d, orders', cards'),
           edits = 0 => /\ Untouched(cards') /\ OrderShows(j, orders'[j], cards', collided')
                        /\ DeskShows(d, orders', cards', collided')
                        /\ Alone(c, d, j, desk, collided')
    PROVE  BoardInv'
  <1>0. BoardTypes /\ orders \in [BoardKeys -> Seq(BoardRows)] /\ cards \in Seq(Cards) /\ DOMAIN desk = Board!Clerks
        BY DEF BoardInv, BoardTypes
  <1>1. DOMAIN desk' = Board!Clerks /\ desk'[c] = d /\ \A b \in Board!Clerks \ {c} : desk'[b] = desk[b]
        BY <1>0, Seated
  <1>2. ASSUME NEW k \in BoardKeys PROVE OrderFits(k, orders'[k], cards') /\ Furthest(Told(k, events'), orders'[k])
    <2>1. CASE k = j
          BY <2>1
    <2>2. CASE k # j
      <3>1. OrderFits(k, orders[k], cards) /\ Furthest(Told(k, events), orders[k])
            BY <1>0 DEF BoardTypes
      <3>2. orders'[k] = orders[k] /\ OrderFits(k, orders'[k], cards')
            BY <1>0, <2>2, <3>1, OtherOrder
      <3>3. Told(k, events') = Told(k, events)
            BY <2>2
      <3> QED BY <3>1, <3>2, <3>3
    <2> QED BY <2>1, <2>2
  <1>3. ASSUME NEW b \in Board!Clerks PROVE DeskFits(b, desk'[b], orders', cards')
    <2>1. CASE b = c
          BY <1>1, <2>1
    <2>2. CASE b # c
      <3>1. DeskFits(b, desk[b], orders, cards) /\ desk'[b] = desk[b]
            BY <1>0, <1>1, <2>2 DEF BoardTypes
      <3> QED BY <1>0, <3>1, OtherFits
    <2> QED BY <2>1, <2>2
  <1>4. BoardTypes'
        BY <1>0, <1>1, <1>2, <1>3, SameClerks DEF BoardTypes, OnlyOrder, OnlyCards
  <1>5. ASSUME edits = 0 PROVE BoardShows'
    <2>0. BoardShows
          BY <1>5 DEF BoardInv
    <2>1. ASSUME NEW k \in BoardKeys PROVE OrderShows(k, orders'[k], cards', collided')
      <3>1. CASE k = j
            BY <1>5, <3>1
      <3>2. CASE k # j
        <4>1. OrderShows(k, orders[k], cards, collided) /\ OrderFits(k, orders[k], cards)
              BY <1>0, <2>0 DEF BoardShows, BoardTypes
        <4> QED BY <1>0, <3>2, <4>1, OtherOrder
      <3> QED BY <3>1, <3>2
    <2>2. ASSUME NEW b \in Board!Clerks PROVE DeskShows(desk'[b], orders', cards', collided')
      <3>1. CASE b = c
            BY <1>1, <1>5, <3>1
      <3>2. CASE b # c
        <4>1. DeskFits(b, desk[b], orders, cards) /\ desk'[b] = desk[b] /\ DeskShows(desk[b], orders, cards, collided)
              BY <1>0, <1>1, <2>0, <3>2 DEF BoardTypes, BoardShows
        <4>2. Alone(c, d, j, desk, collided')
              BY <1>5
        <4>3. j \in BusyWith(desk[b]) => j \in collided'
              BY <3>2, <4>2 DEF Alone
        <4> QED BY <1>0, <4>1, <4>3, OtherShows
      <3> QED BY <3>1, <3>2
    <2>3. ASSUME NEW a \in Board!Clerks, NEW b \in Board!Clerks, a # b
          PROVE  BusyWith(desk'[a]) \cap BusyWith(desk'[b]) \subseteq collided'
      <3>1. BusyWith(desk[a]) \cap BusyWith(desk[b]) \subseteq collided
            BY <2>0, <2>3 DEF BoardShows
      <3>2. ASSUME NEW e \in Board!Clerks \ {c} PROVE BusyWith(d) \cap BusyWith(desk[e]) \subseteq collided'
        <4>1. Alone(c, d, j, desk, collided')
              BY <1>5
        <4> QED BY <4>1 DEF Alone
      <3>3. CASE a = c
            BY <1>1, <2>3, <3>2, <3>3
      <3>4. CASE b = c
            BY <1>1, <2>3, <3>2, <3>4
      <3>5. CASE a # c /\ b # c
            BY <1>1, <3>1, <3>5
      <3> QED BY <3>3, <3>4, <3>5
    <2> QED BY <1>5, <2>1, <2>2, <2>3, SameClerks DEF BoardShows
  <1> QED BY <1>4, <1>5 DEF BoardInv

LEMMA NothingChanges ==
    ASSUME NEW j, BoardTypes PROVE OnlyOrder(j, orders, orders) /\ OnlyCards(j, cards, cards)
  BY DEF BoardTypes, OnlyOrder, OnlyCards

\* A process goes on and leaves the orders and the board alone.
LEMMA DeskMoved ==
    ASSUME BoardInv, NEW c \in Board!Clerks, NEW d, desk' = Seat(desk, c, d),
           orders' = orders, cards' = cards, events' = events, edits' = edits, collided \subseteq collided',
           DeskFits(c, d, orders, cards),
           edits = 0 => /\ DeskShows(d, orders, cards, collided')
                        /\ \A b \in Board!Clerks \ {c} : BusyWith(d) \cap BusyWith(desk[b]) \subseteq collided'
    PROVE  BoardInv'
  <1>0. BoardTypes /\ DOMAIN desk = Board!Clerks
        BY DEF BoardInv, BoardTypes
  <1>1. DOMAIN desk' = Board!Clerks /\ desk'[c] = d /\ \A b \in Board!Clerks \ {c} : desk'[b] = desk[b]
        BY <1>0, Seated
  <1>2. ASSUME NEW b \in Board!Clerks PROVE DeskFits(b, desk'[b], orders', cards')
        BY <1>0, <1>1 DEF BoardTypes
  <1>3. BoardTypes'
        BY <1>0, <1>1, <1>2, SameClerks DEF BoardTypes
  <1>4. ASSUME edits = 0 PROVE BoardShows'
    <2>0. BoardShows
          BY <1>4 DEF BoardInv
    <2>1. ASSUME NEW k \in BoardKeys PROVE OrderShows(k, orders'[k], cards', collided')
      <3>1. OrderShows(k, orders[k], cards, collided)
            BY <2>0 DEF BoardShows
      <3> QED BY <3>1 DEF OrderShows
    <2>2. ASSUME NEW b \in Board!Clerks PROVE DeskShows(desk'[b], orders', cards', collided')
      <3>1. CASE b = c
            BY <1>1, <1>4, <3>1
      <3>2. CASE b # c
        <4>1. desk'[b] = desk[b] /\ DeskShows(desk[b], orders, cards, collided)
              BY <1>1, <2>0, <3>2 DEF BoardShows
        <4> QED BY <4>1 DEF DeskShows
      <3> QED BY <3>1, <3>2
    <2>3. ASSUME NEW a \in Board!Clerks, NEW b \in Board!Clerks, a # b
          PROVE  BusyWith(desk'[a]) \cap BusyWith(desk'[b]) \subseteq collided'
      <3>1. BusyWith(desk[a]) \cap BusyWith(desk[b]) \subseteq collided
            BY <2>0, <2>3 DEF BoardShows
      <3>2. \A e \in Board!Clerks \ {c} : BusyWith(d) \cap BusyWith(desk[e]) \subseteq collided'
            BY <1>4
      <3>3. CASE a = c
            BY <1>1, <2>3, <3>2, <3>3
      <3>4. CASE b = c
            BY <1>1, <2>3, <3>2, <3>4
      <3>5. CASE a # c /\ b # c
            BY <1>1, <3>1, <3>5
      <3> QED BY <3>3, <3>4, <3>5
    <2> QED BY <1>4, <2>0, <2>1, <2>2, <2>3, SameClerks DEF BoardShows
  <1> QED BY <1>3, <1>4 DEF BoardInv

LEMMA AtDesk ==
    ASSUME BoardInv, NEW c \in Board!Clerks, Working(desk[c])
    PROVE  /\ DeskFits(c, desk[c], orders, cards) /\ desk[c] \in Desks /\ desk[c].key \in BoardKeys
           /\ Len(desk[c].row) = 1 /\ desk[c].row[1] \in BoardRows /\ desk[c].row[1].key = desk[c].key
           /\ Names(desk[c].row[1], cards)
           /\ orders[desk[c].key] \in Seq(BoardRows) /\ Len(orders[desk[c].key]) = 1
           /\ orders[desk[c].key][1] \in BoardRows /\ orders[desk[c].key][1].key = desk[c].key
           /\ OrderFits(desk[c].key, orders[desk[c].key], cards)
           /\ Furthest(Told(desk[c].key, events), orders[desk[c].key])
           /\ edits = 0 => Untouched(cards) /\ DeskShows(desk[c], orders, cards, collided)
  <1>0. BoardTypes
        BY DEF BoardInv
  <1>1. DeskFits(c, desk[c], orders, cards) /\ desk[c] \in Desks
        BY <1>0 DEF BoardTypes, DeskFits
  <1>2. desk[c].key \in BoardKeys /\ Len(desk[c].row) = 1 /\ desk[c].row[1] \in BoardRows
        BY <1>1, DeskIs DEF DeskFits
  <1>3. desk[c].row[1].key = desk[c].key /\ Names(desk[c].row[1], cards) /\ orders[desk[c].key] # <<>>
        BY <1>1 DEF DeskFits
  <1>4. orders[desk[c].key] \in Seq(BoardRows)
        BY <1>0, <1>2 DEF BoardTypes
  <1>5. OrderFits(desk[c].key, orders[desk[c].key], cards) /\ Furthest(Told(desk[c].key, events), orders[desk[c].key])
        BY <1>0, <1>2 DEF BoardTypes
  <1>6. Len(orders[desk[c].key]) = 1 /\ orders[desk[c].key][1].key = desk[c].key
        BY <1>3, <1>5 DEF OrderFits
  <1>7. orders[desk[c].key][1] \in BoardRows
        BY <1>4, <1>6, FirstIs
  <1>8. edits = 0 => Untouched(cards) /\ DeskShows(desk[c], orders, cards, collided)
        BY DEF BoardInv, BoardShows
  <1> QED BY <1>1, <1>2, <1>3, <1>4, <1>5, <1>6, <1>7, <1>8

\* Who works on no more than before is in nobody's way.
LEMMA SameTask ==
    ASSUME BoardInv, NEW c \in Board!Clerks, edits = 0, NEW d, BusyWith(d) \subseteq BusyWith(desk[c]),
           NEW j, j \in BusyWith(desk[c])
    PROVE  Alone(c, d, j, desk, collided)
  <1>1. \A b \in Board!Clerks \ {c} : BusyWith(desk[c]) \cap BusyWith(desk[b]) \subseteq collided
        BY DEF BoardInv, BoardShows
  <1> QED BY <1>1 DEF Alone

\* A card is found where the row says; not found, or not read, it is made anew.
LEMMA GetCardSteps ==
    ASSUME BoardInv, NEW c \in Board!Clerks, Board!GetCard(c) PROVE BoardInv'
  <1> PICK old : old = desk[c]
      OBVIOUS
  <1> PICK r : r = old.row[1]
      OBVIOUS
  <1>0. old.at = "read" /\ UNCHANGED <<orders, events, cards, collided, edits>>
        BY DEF Board!GetCard, Board!At
  <1>1. Working(old)
        BY <1>0 DEF Working
  <1>2. /\ DeskFits(c, old, orders, cards) /\ old \in Desks /\ old.key \in BoardKeys /\ r \in BoardRows
        /\ r.key = old.key /\ Names(r, cards) /\ Len(old.row) = 1
        /\ edits = 0 => Untouched(cards) /\ DeskShows(old, orders, cards, collided)
        BY <1>1, AtDesk
  <1>3. cards \in Seq(Cards)
        BY DEF BoardInv, BoardTypes
  <1>4. ASSUME Board!Found(r), NEW place \in {"update", "refuse"},
               place = IF cards[r.card].managed THEN "update" ELSE "refuse",
               desk' = [desk EXCEPT ![c].at = place, ![c].card = <<cards[r.card]>>]
        PROVE  BoardInv'
    <2> PICK card : card = cards[r.card]
        OBVIOUS
    <2> PICK new : new = [old EXCEPT !.at = place, !.card = <<card>>]
        OBVIOUS
    <2>1. desk' = Seat(desk, c, new)
          BY <1>4 DEF Seat
    <2>2. r.card # 0 /\ card.stack = r.stack /\ ~card.gone
          BY <1>4 DEF Board!Found
    <2>3. card \in Cards /\ card.key = old.key /\ r.card \in 1..Len(cards)
          BY <1>2, <1>3, <2>2 DEF Names
    <2>4. /\ new.at = place /\ new.card = <<card>> /\ new.todo = old.todo /\ new.key = old.key /\ new.row = old.row
          BY <1>2 DEF Desks
    <2>5. new \in Desks
      <3>1. <<card>> \in Seq(Cards)
            BY <2>3, OneIs
      <3>2. place \in Places
            BY <1>4 DEF Places
      <3> QED BY <1>2, <3>1, <3>2 DEF Desks
    <2>6. Working(new) /\ new.card[1] = card /\ Len(new.card) = 1
          BY <2>4, <1>4 DEF Working
    <2>7. DeskFits(c, new, orders, cards)
          BY <1>0, <1>1, <1>2, <1>4, <2>2, <2>3, <2>4, <2>5, <2>6 DEF DeskFits
    <2>8. ASSUME edits = 0 PROVE DeskShows(new, orders, cards, collided)
      <3>1. card.managed /\ place = "update"
            BY <1>2, <1>4, <2>3, <2>8 DEF Untouched
      <3>2. DeskShows(old, orders, cards, collided)
            BY <1>2, <2>8
      <3>3. new.row[1] = r /\ cards[r.card].stack = r.stack
            BY <2>2, <2>4
      <3>4. ASSUME NEW k \in new.todo, k.key \notin collided PROVE k = orders[k.key][1] /\ k.synced # "ok"
            BY <2>4, <3>2, <3>4 DEF DeskShows
      <3>5. ASSUME new.key \notin collided
            PROVE  /\ orders[new.key][1].synced # "ok" /\ orders[new.key][1].status = new.row[1].status
                   /\ \A k \in new.todo : k.key # new.key
            BY <1>1, <2>4, <3>2, <3>5 DEF DeskShows
      <3> QED BY <2>2, <2>4, <2>6, <3>1, <3>3, <3>4, <3>5 DEF DeskShows
    <2>9. BusyWith(new) = BusyWith(old) /\ old.key \in BusyWith(old)
          BY <1>1, <2>4, <2>6 DEF BusyWith
    <2>10. ASSUME edits = 0
           PROVE  \A b \in Board!Clerks \ {c} : BusyWith(new) \cap BusyWith(desk[b]) \subseteq collided'
      <3>1. Alone(c, new, old.key, desk, collided)
            BY <2>9, <2>10, SameTask
      <3> QED BY <1>0, <3>1 DEF Alone
    <2> QED BY <1>0, <2>1, <2>7, <2>8, <2>10, DeskMoved
  <1>5. ASSUME desk' = [desk EXCEPT ![c].at = "create"] PROVE BoardInv'
    <2> PICK new : new = [old EXCEPT !.at = "create"]
        OBVIOUS
    <2>1. desk' = Seat(desk, c, new)
          BY <1>5 DEF Seat
    <2>4. /\ new.at = "create" /\ new.card = old.card /\ new.todo = old.todo /\ new.key = old.key /\ new.row = old.row
          BY <1>2 DEF Desks
    <2>5. new \in Desks
          BY <1>2 DEF Desks, Places
    <2>6. Working(new)
          BY <2>4 DEF Working
    <2>7. DeskFits(c, new, orders, cards)
          BY <1>0, <1>1, <1>2, <2>4, <2>5, <2>6 DEF DeskFits
    <2>8. ASSUME edits = 0 PROVE DeskShows(new, orders, cards, collided)
          BY <1>0, <1>1, <1>2, <2>4, <2>6, <2>8 DEF DeskShows
    <2>9. BusyWith(new) = BusyWith(old) /\ old.key \in BusyWith(old)
          BY <1>1, <2>4, <2>6 DEF BusyWith
    <2>10. ASSUME edits = 0
           PROVE  \A b \in Board!Clerks \ {c} : BusyWith(new) \cap BusyWith(desk[b]) \subseteq collided'
      <3>1. Alone(c, new, old.key, desk, collided)
            BY <2>9, <2>10, SameTask
      <3> QED BY <1>0, <3>1 DEF Alone
    <2> QED BY <1>0, <2>1, <2>7, <2>8, <2>10, DeskMoved
  <1>6. CASE /\ Board!Found(Board!Mine(c))
             /\ desk' = [desk EXCEPT ![c].at = IF cards[Board!Mine(c).card].managed THEN "update" ELSE "refuse",
                                     ![c].card = <<cards[Board!Mine(c).card]>>]
    <2> PICK place : place = IF cards[r.card].managed THEN "update" ELSE "refuse"
        OBVIOUS
    <2>1. Board!Mine(c) = r /\ place \in {"update", "refuse"}
          BY DEF Board!Mine
    <2>2. desk' = [desk EXCEPT ![c].at = place, ![c].card = <<cards[r.card]>>]
          BY <1>6, <2>1
    <2> QED BY <1>4, <1>6, <2>1, <2>2
  <1> QED BY <1>5, <1>6 DEF Board!GetCard, Board!Goes

Brought(d, cs, col) ==
    d.key \notin col => /\ cs[d.row[1].card].text = d.row[1].status
                        /\ d.at = "keep" => cs[d.row[1].card].stack = d.row[1].status

\* A process wrote the card of its order and does d next.
Wrote(c, d) ==
    /\ Working(desk[c]) /\ d \in Desks /\ desk' = Seat(desk, c, d)
    /\ orders' = orders /\ events' = events /\ collided' = collided /\ edits' = edits
    /\ OnlyCards(desk[c].key, cards, cards')
    /\ d.at \in {"move", "keep"} /\ d.todo = desk[c].todo /\ d.key = desk[c].key /\ Len(d.row) = 1
    /\ d.row[1].key = d.key /\ d.row[1].status = desk[c].row[1].status
    /\ Names(d.row[1], cards') /\ d.row[1].card # 0
    /\ edits = 0 => Untouched(cards') /\ Brought(d, cards', collided)

LEMMA CardWritten ==
    ASSUME BoardInv, NEW c \in Board!Clerks, NEW new, Wrote(c, new)
    PROVE  BoardInv'
  <1> USE DEF Wrote
  <1> PICK old : old = desk[c]
      OBVIOUS
  <1>1. /\ DeskFits(c, old, orders, cards) /\ old.key \in BoardKeys
        /\ OrderFits(old.key, orders[old.key], cards) /\ Furthest(Told(old.key, events), orders[old.key])
        /\ orders[old.key] # <<>> /\ Len(orders[old.key]) = 1 /\ orders[old.key][1] \in BoardRows
        /\ edits = 0 => DeskShows(old, orders, cards, collided)
        BY AtDesk
  <1>2. BoardTypes /\ cards \in Seq(Cards) /\ OnlyOrder(old.key, orders, orders')
    <2>1. BoardTypes /\ cards \in Seq(Cards)
          BY DEF BoardInv, BoardTypes
    <2> QED BY <2>1, NothingChanges
  <1>3. Working(new)
        BY DEF Working
  <1>4. OrderFits(old.key, orders'[old.key], cards')
    <2>1. Len(orders[old.key]) = 1 /\ orders[old.key][1].key = old.key /\ Names(orders[old.key][1], cards)
          BY <1>1 DEF OrderFits
    <2>2. Names(orders[old.key][1], cards')
          BY <1>1, <1>2, <2>1, NamesStay
    <2> QED BY <2>1, <2>2 DEF OrderFits
  <1>5. DeskFits(c, new, orders', cards')
    <2>1. DeskFits(c, old, orders', cards')
          BY <1>1, <1>2, OtherFits
    <2>2. \A r \in new.todo : orders'[r.key] # <<>> /\ Names(r, cards')
          BY <2>1 DEF DeskFits
    <2>3. c = "mail" => new.todo = {}
          BY <2>1 DEF DeskFits
    <2> QED BY <1>1, <1>3, <2>2, <2>3 DEF DeskFits
  <1>6. ASSUME edits = 0
        PROVE  OrderShows(old.key, orders'[old.key], cards', collided') /\ DeskShows(new, orders', cards', collided')
    <2>1. DeskShows(old, orders, cards, collided)
          BY <1>1, <1>6
    <2>2. OrderShows(old.key, orders'[old.key], cards', collided')
          BY <2>1 DEF OrderShows, DeskShows
    <2>3. ASSUME NEW k \in new.todo, k.key \notin collided PROVE k = orders[k.key][1] /\ k.synced # "ok"
          BY <2>1, <2>3 DEF DeskShows
    <2>4. ASSUME new.key \notin collided
          PROVE  /\ orders[new.key][1].synced # "ok" /\ orders[new.key][1].status = new.row[1].status
                 /\ \A k \in new.todo : k.key # new.key
          BY <2>1, <2>4 DEF DeskShows
    <2>5. DeskShows(new, orders', cards', collided')
          BY <1>6, <2>3, <2>4 DEF DeskShows, Brought
    <2> QED BY <2>2, <2>5
  <1>7. BusyWith(new) = BusyWith(old) /\ old.key \in BusyWith(old)
        BY <1>3 DEF BusyWith
  <1>8. edits = 0 => Alone(c, new, old.key, desk, collided')
        BY <1>7, SameTask
  <1>9. Told(old.key, events') = Told(old.key, events) /\ \A k \in BoardKeys \ {old.key} : Told(k, events') = Told(k, events)
        OBVIOUS
  <1> QED BY <1>1, <1>2, <1>4, <1>5, <1>6, <1>8, <1>9, ClerkWorked

LEMMA CreateCardSteps ==
    ASSUME BoardInv, NEW c \in Board!Clerks, Board!CreateCard(c) PROVE BoardInv'
  <1> PICK old : old = desk[c]
      OBVIOUS
  <1> PICK r : r = old.row[1]
      OBVIOUS
  <1> PICK n : n = Len(cards) + 1
      OBVIOUS
  <1> PICK row2 : row2 = [r EXCEPT !.card = n]
      OBVIOUS
  <1> PICK new : new = [old EXCEPT !.at = "keep", !.row = [old.row EXCEPT ![1] = row2]]
      OBVIOUS
  <1> PICK card : card = [key |-> old.key, stack |-> r.status, text |-> r.status,
                          managed |-> TRUE, gone |-> FALSE, dated |-> TRUE]
      OBVIOUS
  <1>0. /\ old.at = "create" /\ UNCHANGED <<orders, events, collided, edits>> /\ cards' = Append(cards, card)
        /\ desk' = Seat(desk, c, new)
        BY DEF Board!CreateCard, Board!At, Board!Mine, Seat
  <1>1. Working(old)
        BY <1>0 DEF Working
  <1>2. /\ old \in Desks /\ old.key \in BoardKeys /\ r \in BoardRows /\ r.key = old.key /\ Len(old.row) = 1
        /\ edits = 0 => Untouched(cards)
        BY <1>1, AtDesk
  <1>3. cards \in Seq(Cards) /\ n \in Nat /\ n # 0
        BY DEF BoardInv, BoardTypes
  <1>4. card \in Cards
        BY <1>2, RowIs DEF Cards
  <1>5. row2 \in BoardRows /\ row2.card = n /\ row2.key = r.key /\ row2.status = r.status
        BY <1>2, <1>3 DEF BoardRows
  <1>6. /\ new.at = "keep" /\ new.row = [old.row EXCEPT ![1] = row2] /\ new.todo = old.todo /\ new.key = old.key
        /\ new.card = old.card
        BY <1>2 DEF Desks
  <1>7. new.row \in Seq(BoardRows) /\ Len(new.row) = 1 /\ new.row[1] = row2
    <2>1. old.row \in Seq(BoardRows)
          BY <1>2, DeskIs
    <2> QED BY <1>2, <1>5, <1>6, <2>1
  <1>8. new \in Desks
        BY <1>2, <1>7 DEF Desks, Places
  <1>9. OnlyCards(old.key, cards, cards') /\ Len(cards') = n /\ cards'[n] = card
        BY <1>0, <1>3, <1>4 DEF OnlyCards
  <1>10. Names(row2, cards')
        BY <1>2, <1>3, <1>5, <1>9 DEF Names
  <1>11. edits = 0 => Untouched(cards')
        BY <1>0, <1>2, <1>3 DEF Untouched
  <1>12. Brought(new, cards', collided)
        BY <1>5, <1>7, <1>9 DEF Brought
  <1>13. /\ new.row[1].key = new.key /\ new.row[1].status = desk[c].row[1].status
         /\ Names(new.row[1], cards') /\ new.row[1].card # 0
         BY <1>2, <1>3, <1>5, <1>6, <1>7, <1>10
  <1>14. Wrote(c, new)
         BY <1>0, <1>1, <1>2, <1>6, <1>7, <1>8, <1>9, <1>11, <1>12, <1>13 DEF Wrote
  <1> QED BY <1>14, CardWritten

\* One card is rewritten.
LEMMA OneCard ==
    ASSUME NEW cs \in Seq(Cards), NEW n \in 1..Len(cs), NEW card \in Cards, card.key = cs[n].key
    PROVE  /\ OnlyCards(card.key, cs, Seat(cs, n, card)) /\ Len(Seat(cs, n, card)) = Len(cs)
           /\ Seat(cs, n, card)[n] = card
           /\ Untouched(cs) /\ card.managed /\ ~card.gone /\ card.dated => Untouched(Seat(cs, n, card))
  BY DEF OnlyCards, Untouched, Seat

Rewrite(kept, shown, status) ==
    [kept EXCEPT !.text = status, !.dated = TRUE, !.stack = shown.stack, !.gone = shown.gone]

LEMMA RewriteIs ==
    ASSUME NEW kept \in Cards, NEW shown \in Cards, NEW status \in 0..8
    PROVE  /\ Rewrite(kept, shown, status) \in Cards
           /\ Rewrite(kept, shown, status).key = kept.key /\ Rewrite(kept, shown, status).text = status
           /\ Rewrite(kept, shown, status).stack = shown.stack /\ Rewrite(kept, shown, status).dated
           /\ Rewrite(kept, shown, status).gone = shown.gone
           /\ Rewrite(kept, shown, status).managed = kept.managed
  <1> PICK card : card = Rewrite(kept, shown, status)
      OBVIOUS
  <1> PICK yes : yes = TRUE
      OBVIOUS
  <1> PICK gone : gone = shown.gone
      OBVIOUS
  <1> PICK stack : stack = shown.stack
      OBVIOUS
  <1>1. gone \in BOOLEAN /\ stack \in 0..8 /\ yes \in BOOLEAN
        BY DEF Cards
  <1>2. card = [kept EXCEPT !.text = status, !.dated = yes, !.stack = stack, !.gone = gone]
        BY DEF Rewrite
  <1>3. card \in Cards
        BY <1>1, <1>2 DEF Cards
  <1>4. card.key = kept.key /\ card.text = status /\ card.stack = stack /\ card.managed = kept.managed
        BY <1>2 DEF Cards
  <1>5. card.dated = yes /\ card.gone = gone
        BY <1>2 DEF Cards
  <1> QED BY <1>3, <1>4, <1>5

LEMMA UpdateCardSteps ==
    ASSUME BoardInv, NEW c \in Board!Clerks, Board!UpdateCard(c) PROVE BoardInv'
  <1> PICK old : old = desk[c]
      OBVIOUS
  <1> PICK r : r = old.row[1]
      OBVIOUS
  <1> PICK shown : shown = cards[r.card]
      OBVIOUS
  <1> PICK place : place = IF r.stack # r.status THEN "move" ELSE "keep"
      OBVIOUS
  <1> PICK new : new = [old EXCEPT !.at = place]
      OBVIOUS
  <1> PICK kept : kept = old.card[1]
      OBVIOUS
  <1> PICK card : card = Rewrite(kept, shown, r.status)
      OBVIOUS
  <1>0. /\ old.at = "update" /\ UNCHANGED <<orders, events, collided, edits>>
        /\ cards' = Seat(cards, r.card, card) /\ desk' = Seat(desk, c, new)
        BY DEF Board!UpdateCard, Board!At, Board!Goes, Board!Mine, Seat, Rewrite
  <1>1. Working(old)
        BY <1>0 DEF Working
  <1>2. /\ old \in Desks /\ old.key \in BoardKeys /\ r \in BoardRows /\ r.key = old.key /\ Len(old.row) = 1
        /\ Names(r, cards) /\ DeskFits(c, old, orders, cards)
        /\ edits = 0 => Untouched(cards) /\ DeskShows(old, orders, cards, collided)
        BY <1>1, AtDesk
  <1>3. cards \in Seq(Cards)
        BY DEF BoardInv, BoardTypes
  <1>4. r.card # 0 /\ Len(old.card) = 1 /\ kept.key = old.key /\ kept \in Cards
    <2>1. r.card # 0 /\ Len(old.card) = 1 /\ kept.key = old.key
          BY <1>0, <1>2 DEF DeskFits
    <2> QED BY <1>2, <2>1, DeskIs
  <1>5. r.card \in 1..Len(cards) /\ shown \in Cards /\ shown.key = old.key
        BY <1>2, <1>3, <1>4 DEF Names
  <1>6. /\ card \in Cards /\ card.key = old.key /\ card.text = r.status /\ card.stack = shown.stack
        /\ card.dated /\ card.gone = shown.gone /\ card.managed = kept.managed
    <2>1. r.status \in 0..8
          BY <1>2, RowIs
    <2>2. kept \in Cards /\ shown \in Cards
          BY <1>4, <1>5
    <2>3. Rewrite(kept, shown, r.status) \in Cards
          BY <2>1, <2>2, RewriteIs
    <2>4. Rewrite(kept, shown, r.status).key = kept.key /\ Rewrite(kept, shown, r.status).text = r.status
          BY <2>1, <2>2, RewriteIs
    <2>5. Rewrite(kept, shown, r.status).stack = shown.stack /\ Rewrite(kept, shown, r.status).dated
          BY <2>1, <2>2, RewriteIs
    <2>6. Rewrite(kept, shown, r.status).gone = shown.gone
          BY <2>1, <2>2, RewriteIs
    <2>7. Rewrite(kept, shown, r.status).managed = kept.managed
          BY <2>1, <2>2, RewriteIs
    <2> QED BY <1>4, <2>3, <2>4, <2>5, <2>6, <2>7
  <1>7. /\ new.at = place /\ new.row = old.row /\ new.todo = old.todo /\ new.key = old.key /\ place \in {"move", "keep"}
        BY <1>2 DEF Desks
  <1>8. new \in Desks
        BY <1>2, <1>7 DEF Desks, Places
  <1>9. /\ OnlyCards(old.key, cards, cards') /\ cards'[r.card] = card /\ Len(cards') = Len(cards)
        /\ Untouched(cards) /\ card.managed /\ ~card.gone /\ card.dated => Untouched(cards')
    <2>1. card.key = cards[r.card].key /\ card \in Cards /\ r.card \in 1..Len(cards)
          BY <1>5, <1>6
    <2>2. OnlyCards(card.key, cards, Seat(cards, r.card, card))
          BY <1>3, <2>1, OneCard
    <2>3. Len(Seat(cards, r.card, card)) = Len(cards) /\ Seat(cards, r.card, card)[r.card] = card
          BY <1>3, <2>1 DEF Seat
    <2>4. Untouched(cards) /\ card.managed /\ ~card.gone /\ card.dated => Untouched(Seat(cards, r.card, card))
          BY <1>3, <2>1, OneCard
    <2> QED BY <1>0, <1>6, <2>2, <2>3, <2>4
  <1>10. Names(r, cards')
        BY <1>2, <1>4, <1>5, <1>6, <1>9 DEF Names
  <1>11. ASSUME edits = 0
         PROVE  Untouched(cards') /\ Brought(new, cards', collided)
    <2>1. DeskShows(old, orders, cards, collided) /\ Untouched(cards)
          BY <1>2, <1>11
    <2>2. Untouched(cards')
      <3>1. kept.managed /\ ~shown.gone
            BY <1>0, <1>5, <2>1 DEF DeskShows, Untouched
      <3> QED BY <1>6, <1>9, <2>1, <3>1
    <2>3. ASSUME new.key \notin collided, new.at = "keep" PROVE shown.stack = r.status
          BY <1>0, <1>1, <1>7, <2>1, <2>3 DEF DeskShows
    <2> QED BY <1>6, <1>7, <1>9, <2>2, <2>3 DEF Brought
  <1>12. Wrote(c, new)
         BY <1>0, <1>1, <1>2, <1>4, <1>7, <1>8, <1>9, <1>10, <1>11 DEF Wrote
  <1> QED BY <1>12, CardWritten

LEMMA MoveCardSteps ==
    ASSUME BoardInv, NEW c \in Board!Clerks, Board!MoveCard(c) PROVE BoardInv'
  <1> PICK old : old = desk[c]
      OBVIOUS
  <1> PICK r : r = old.row[1]
      OBVIOUS
  <1> PICK shown : shown = cards[r.card]
      OBVIOUS
  <1> PICK new : new = [old EXCEPT !.at = "keep"]
      OBVIOUS
  <1> PICK card : card = [shown EXCEPT !.stack = r.status]
      OBVIOUS
  <1>0. /\ old.at = "move" /\ UNCHANGED <<orders, events, collided, edits>>
        /\ cards' = Seat(cards, r.card, card) /\ desk' = Seat(desk, c, new)
        BY DEF Board!MoveCard, Board!At, Board!Goes, Board!Mine, Seat
  <1>1. Working(old)
        BY <1>0 DEF Working
  <1>2. /\ old \in Desks /\ old.key \in BoardKeys /\ r \in BoardRows /\ r.key = old.key /\ Len(old.row) = 1
        /\ Names(r, cards) /\ DeskFits(c, old, orders, cards)
        /\ edits = 0 => Untouched(cards) /\ DeskShows(old, orders, cards, collided)
        BY <1>1, AtDesk
  <1>3. cards \in Seq(Cards)
        BY DEF BoardInv, BoardTypes
  <1>4. r.card # 0
        BY <1>0, <1>2 DEF DeskFits
  <1>5. r.card \in 1..Len(cards) /\ shown \in Cards /\ shown.key = old.key
        BY <1>2, <1>3, <1>4 DEF Names
  <1>6. /\ card \in Cards /\ card.key = old.key /\ card.text = shown.text /\ card.stack = r.status
        /\ card.dated = shown.dated /\ card.gone = shown.gone /\ card.managed = shown.managed
        BY <1>2, <1>5, RowIs DEF Cards
  <1>7. /\ new.at = "keep" /\ new.row = old.row /\ new.todo = old.todo /\ new.key = old.key
        BY <1>2 DEF Desks
  <1>8. new \in Desks
        BY <1>2, <1>7 DEF Desks, Places
  <1>9. /\ OnlyCards(old.key, cards, cards') /\ cards'[r.card] = card /\ Len(cards') = Len(cards)
        /\ Untouched(cards) /\ card.managed /\ ~card.gone /\ card.dated => Untouched(cards')
    <2>1. card.key = cards[r.card].key /\ card \in Cards /\ r.card \in 1..Len(cards)
          BY <1>5, <1>6
    <2>2. OnlyCards(card.key, cards, Seat(cards, r.card, card))
          BY <1>3, <2>1, OneCard
    <2>3. Len(Seat(cards, r.card, card)) = Len(cards) /\ Seat(cards, r.card, card)[r.card] = card
          BY <1>3, <2>1 DEF Seat
    <2>4. Untouched(cards) /\ card.managed /\ ~card.gone /\ card.dated => Untouched(Seat(cards, r.card, card))
          BY <1>3, <2>1, OneCard
    <2> QED BY <1>0, <1>6, <2>2, <2>3, <2>4
  <1>10. Names(r, cards')
        BY <1>2, <1>4, <1>5, <1>6, <1>9 DEF Names
  <1>11. ASSUME edits = 0
         PROVE  Untouched(cards') /\ Brought(new, cards', collided)
    <2>1. DeskShows(old, orders, cards, collided) /\ Untouched(cards)
          BY <1>2, <1>11
    <2>2. Untouched(cards')
          BY <1>5, <1>6, <1>9, <2>1 DEF Untouched
    <2>3. ASSUME new.key \notin collided PROVE shown.text = r.status
          BY <1>0, <1>1, <1>7, <2>1, <2>3 DEF DeskShows
    <2> QED BY <1>6, <1>7, <1>9, <2>2, <2>3 DEF Brought
  <1>12. Wrote(c, new)
         BY <1>0, <1>1, <1>2, <1>4, <1>7, <1>8, <1>9, <1>10, <1>11 DEF Wrote
  <1> QED BY <1>12, CardWritten

LEMMA EmptyIs == ASSUME NEW S PROVE <<>> \in Seq(S)
  OBVIOUS

LEMMA FreeIs ==
    /\ Board!Free \in Desks /\ ~Working(Board!Free) /\ Board!Free.todo = {} /\ Board!Free.at = "free"
    /\ BusyWith(Board!Free) = {}
    /\ \A c, os, cs : DeskFits(c, Board!Free, os, cs)
    /\ \A os, cs, col : DeskShows(Board!Free, os, cs, col)
  <1>1. Board!Free.at = "free" /\ Board!Free.todo = {} /\ Board!Free \in Desks
    <2>1. <<>> \in Seq(BoardRows) /\ <<>> \in Seq(Cards) /\ "review" \in BoardKeys /\ "free" \in Places
          BY EmptyIs DEF BoardKeys, Board!Keys, Places
    <2> QED BY <2>1 DEF Board!Free, Desks
  <1>2. ~Working(Board!Free) /\ BusyWith(Board!Free) = {}
        BY <1>1 DEF Working, BusyWith
  <1>3. \A c, os, cs : DeskFits(c, Board!Free, os, cs)
        BY <1>1, <1>2 DEF DeskFits
  <1>4. \A os, cs, col : DeskShows(Board!Free, os, cs, col)
        BY <1>1, <1>2 DEF DeskShows
  <1> QED BY <1>1, <1>2, <1>3, <1>4

Gone(c, d) == IF c = "mail" THEN Board!Free ELSE [d EXCEPT !.at = "pick", !.row = <<>>, !.card = <<>>]

LEMMA GoneIs ==
    ASSUME NEW c, NEW d, NEW os, NEW cs, DeskFits(c, d, os, cs)
    PROVE  /\ Gone(c, d) \in Desks /\ ~Working(Gone(c, d)) /\ Gone(c, d).todo = d.todo
           /\ Gone(c, d).at \in {"free", "pick"} /\ (c = "mail" => Gone(c, d).at = "free")
  <1>1. d \in Desks /\ (c = "mail" => d.todo = {})
        BY DEF DeskFits
  <1>2. CASE c = "mail"
        BY <1>1, <1>2, FreeIs DEF Gone
  <1>3. CASE c # "mail"
    <2> PICK new : new = [d EXCEPT !.at = "pick", !.row = <<>>, !.card = <<>>]
        OBVIOUS
    <2>1. new.at = "pick" /\ new.todo = d.todo
          BY <1>1 DEF Desks
    <2>2. <<>> \in Seq(BoardRows) /\ <<>> \in Seq(Cards) /\ "pick" \in Places
          BY EmptyIs DEF Places
    <2>3. new \in Desks
          BY <1>1, <2>2 DEF Desks
    <2> QED BY <1>3, <2>1, <2>3 DEF Gone, Working
  <1> QED BY <1>2, <1>3

LEMMA Replaced ==
    ASSUME NEW S, NEW s \in Seq(S), Len(s) = 1, NEW x \in S
    PROVE  [s EXCEPT ![1] = x] \in Seq(S) /\ Len([s EXCEPT ![1] = x]) = 1 /\ [s EXCEPT ![1] = x][1] = x
  OBVIOUS

\* The orders with another row for j.
OneRow(j, entry) == Seat(orders, j, [orders[j] EXCEPT ![1] = entry])

LEMMA OneRowIs ==
    ASSUME NEW j \in BoardKeys, NEW entry \in BoardRows, orders \in [BoardKeys -> Seq(BoardRows)], Len(orders[j]) = 1
    PROVE  /\ OnlyOrder(j, orders, OneRow(j, entry))
           /\ Len(OneRow(j, entry)[j]) = 1 /\ OneRow(j, entry)[j][1] = entry /\ OneRow(j, entry)[j] # <<>>
  <1> PICK o : o = [orders[j] EXCEPT ![1] = entry]
      OBVIOUS
  <1>1. orders[j] \in Seq(BoardRows)
        OBVIOUS
  <1>2. o \in Seq(BoardRows) /\ Len(o) = 1 /\ o[1] = entry
        BY <1>1, Replaced
  <1>3. OneRow(j, entry)[j] = o /\ \A k \in BoardKeys \ {j} : OneRow(j, entry)[k] = orders[k]
        BY DEF OneRow, Seat
  <1>4. OneRow(j, entry) \in [BoardKeys -> Seq(BoardRows)]
        BY <1>2 DEF OneRow, Seat
  <1>5. o # <<>>
        BY <1>2, FirstIs
  <1> QED BY <1>2, <1>3, <1>4, <1>5 DEF OnlyOrder

OnBoard(entry, cs) == entry.card # 0 /\ cs[entry.card].stack = entry.status /\ cs[entry.card].text = entry.status

\* A process wrote down what became of its order, and leaves it.
Noted(c, entry) ==
    /\ Working(desk[c]) /\ desk' = Seat(desk, c, Gone(c, desk[c])) /\ orders' = OneRow(desk[c].key, entry)
    /\ cards' = cards /\ events' = events /\ collided' = collided /\ edits' = edits
    /\ entry \in BoardRows /\ entry.key = desk[c].key /\ entry.status = orders[desk[c].key][1].status /\ Names(entry, cards)
    /\ edits = 0 /\ desk[c].key \notin collided /\ entry.synced = "ok" => OnBoard(entry, cards)

LEMMA RowWritten ==
    ASSUME BoardInv, NEW c \in Board!Clerks, NEW entry, Noted(c, entry) PROVE BoardInv'
  <1> USE DEF Noted
  <1> PICK old : old = desk[c]
      OBVIOUS
  <1> PICK j : j = old.key
      OBVIOUS
  <1> PICK new : new = Gone(c, old)
      OBVIOUS
  <1>1. /\ DeskFits(c, old, orders, cards) /\ j \in BoardKeys /\ Len(orders[j]) = 1
        /\ Furthest(Told(j, events), orders[j])
        /\ edits = 0 => Untouched(cards) /\ DeskShows(old, orders, cards, collided)
        BY AtDesk
  <1>2. BoardTypes /\ orders \in [BoardKeys -> Seq(BoardRows)] /\ cards \in Seq(Cards)
        BY DEF BoardInv, BoardTypes
  <1>3. /\ OnlyOrder(j, orders, orders') /\ Len(orders'[j]) = 1 /\ orders'[j][1] = entry /\ orders'[j] # <<>>
        BY <1>1, <1>2, OneRowIs
  <1>4. OnlyCards(j, cards, cards')
        BY <1>2, NothingChanges
  <1>5. OrderFits(j, orders'[j], cards') /\ Furthest(Told(j, events'), orders'[j])
    <2>1. OrderFits(j, orders'[j], cards')
          BY <1>3 DEF OrderFits
    <2>2. orders[j] # <<>>
          BY <1>1
    <2>3. Furthest(Told(j, events), orders'[j])
          BY <1>1, <1>3, <2>2 DEF Furthest
    <2> QED BY <2>1, <2>3
  <1>6. /\ new \in Desks /\ ~Working(new) /\ new.todo = old.todo
        /\ new.at \in {"free", "pick"} /\ (c = "mail" => new.at = "free")
        BY <1>1, GoneIs
  <1>7. DeskFits(c, new, orders', cards')
    <2>1. DeskFits(c, old, orders', cards')
          BY <1>1, <1>2, <1>3, <1>4, OtherFits
    <2> QED BY <1>6, <2>1 DEF DeskFits
  <1>8. ASSUME edits = 0
        PROVE  OrderShows(j, orders'[j], cards', collided') /\ DeskShows(new, orders', cards', collided')
    <2>1. DeskShows(old, orders, cards, collided)
          BY <1>1, <1>8
    <2>2. OrderShows(j, orders'[j], cards', collided')
          BY <1>3, <1>8 DEF OrderShows, OnBoard
    <2>3. ASSUME NEW k \in old.todo, k.key \notin collided PROVE k = orders'[k.key][1] /\ k.synced # "ok"
      <3>1. k = orders[k.key][1] /\ k.synced # "ok"
            BY <2>1, <2>3 DEF DeskShows
      <3>2. k.key # j
            BY <2>1, <2>3 DEF DeskShows
      <3>3. k.key \in BoardKeys
        <4>1. k \in BoardRows
              BY <1>1, <2>3, DeskIs DEF DeskFits
        <4> QED BY <4>1, RowIs
      <3> QED BY <1>3, <3>1, <3>2, <3>3 DEF OnlyOrder
    <2>4. DeskShows(new, orders', cards', collided')
          BY <1>6, <2>3 DEF DeskShows
    <2> QED BY <2>2, <2>4
  <1>9. BusyWith(new) \subseteq BusyWith(old) /\ j \in BusyWith(old)
        BY <1>6 DEF BusyWith
  <1>10. edits = 0 => Alone(c, new, j, desk, collided')
         BY <1>9, SameTask
  <1>11. \A k \in BoardKeys \ {j} : Told(k, events') = Told(k, events)
         OBVIOUS
  <1>12. edits = 0 => Untouched(cards')
         BY <1>1
  <1> QED BY <1>1, <1>3, <1>4, <1>5, <1>7, <1>8, <1>10, <1>11, <1>12, ClerkWorked

LEMMA SetDeckSteps ==
    ASSUME BoardInv, NEW c \in Board!Clerks, Board!SetDeck(c) PROVE BoardInv'
  <1> PICK old : old = desk[c]
      OBVIOUS
  <1> PICK r : r = old.row[1]
      OBVIOUS
  <1> PICK was : was = orders[old.key][1]
      OBVIOUS
  <1> PICK card : card = r.card
      OBVIOUS
  <1> PICK status : status = r.status
      OBVIOUS
  <1> PICK row2 : row2 = [was EXCEPT !.synced = "ok", !.card = card, !.stack = status]
      OBVIOUS
  <1>0. old.at = "keep" /\ UNCHANGED <<events, cards, collided, edits>> /\ desk' = Seat(desk, c, Gone(c, old))
        BY DEF Board!SetDeck, Board!At, Board!Leaves, Seat, Gone
  <1>1. orders' = OneRow(old.key, row2)
        BY DEF Board!SetDeck, Board!Mine, OneRow, Seat
  <1>2. Working(old)
        BY <1>0 DEF Working
  <1>3. /\ r \in BoardRows /\ r.key = old.key /\ Names(r, cards) /\ was \in BoardRows /\ was.key = old.key
        /\ DeskFits(c, old, orders, cards)
        /\ edits = 0 => DeskShows(old, orders, cards, collided)
        BY <1>2, AtDesk
  <1>4. card \in Nat /\ status \in 0..8
        BY <1>3, RowIs
  <1>5. row2 \in BoardRows /\ row2.card = card /\ row2.status = was.status /\ row2.key = was.key /\ row2.synced = "ok"
        BY <1>3, <1>4 DEF BoardRows
  <1>6. Names(row2, cards)
        BY <1>3, <1>5 DEF Names
  <1>7. ASSUME edits = 0, old.key \notin collided PROVE OnBoard(row2, cards)
    <2>1. DeskShows(old, orders, cards, collided) /\ card # 0
          BY <1>0, <1>3, <1>7 DEF DeskFits
    <2>2. was.status = status /\ cards[card].text = status /\ cards[card].stack = status
          BY <1>0, <1>2, <1>7, <2>1 DEF DeskShows
    <2> QED BY <1>5, <2>1, <2>2 DEF OnBoard
  <1>8. Noted(c, row2)
        BY <1>0, <1>1, <1>2, <1>3, <1>5, <1>6, <1>7 DEF Noted
  <1> QED BY <1>8, RowWritten

LEMMA SyncFailsSteps ==
    ASSUME BoardInv, NEW c \in Board!Clerks, Board!SyncFails(c) PROVE BoardInv'
  <1> PICK old : old = desk[c]
      OBVIOUS
  <1> PICK was : was = orders[old.key][1]
      OBVIOUS
  <1> PICK row2 : row2 = [was EXCEPT !.synced = "error"]
      OBVIOUS
  <1>0. /\ old.at \in {"refuse", "read", "create", "update", "move", "keep"} /\ UNCHANGED <<events, cards, collided, edits>>
        /\ desk' = Seat(desk, c, Gone(c, old))
        BY DEF Board!SyncFails, Board!At, Board!Leaves, Seat, Gone
  <1>1. orders' = OneRow(old.key, row2)
        BY DEF Board!SyncFails, OneRow, Seat
  <1>2. Working(old)
        BY <1>0 DEF Working
  <1>3. was \in BoardRows /\ was.key = old.key /\ OrderFits(old.key, orders[old.key], cards) /\ Len(orders[old.key]) = 1
        BY <1>2, AtDesk
  <1>4. row2 \in BoardRows /\ row2.card = was.card /\ row2.status = was.status /\ row2.key = was.key /\ row2.synced = "error"
        BY <1>3 DEF BoardRows
  <1>5. Names(row2, cards)
    <2>1. Names(was, cards)
          BY <1>3 DEF OrderFits
    <2> QED BY <1>3, <1>4, <2>1 DEF Names
  <1>6. Noted(c, row2)
        BY <1>0, <1>1, <1>2, <1>3, <1>4, <1>5 DEF Noted
  <1> QED BY <1>6, RowWritten

LEMMA KilledSteps ==
    ASSUME BoardInv, NEW c \in Board!Clerks, Board!Killed(c) PROVE BoardInv'
  <1> PICK new : new = Board!Free
      OBVIOUS
  <1>1. desk' = Seat(desk, c, new) /\ UNCHANGED <<orders, events, cards, collided, edits>>
        BY DEF Board!Killed, Seat
  <1>2. DeskFits(c, new, orders, cards) /\ DeskShows(new, orders, cards, collided') /\ BusyWith(new) = {}
        BY FreeIs
  <1> QED BY <1>1, <1>2, DeskMoved

\* What the command line reads it works on, one row after the other.
LEMMA SyncPendingSteps ==
    ASSUME BoardInv, Board!SyncPending PROVE BoardInv'
  <1> PICK c : c = "command"
      OBVIOUS
  <1> PICK due : due = {orders[k][1] : k \in {q \in Board!Rows : orders[q][1].synced # "ok"}}
      OBVIOUS
  <1> PICK new : new = [Board!Free EXCEPT !.at = "pick", !.todo = due]
      OBVIOUS
  <1>1. /\ desk' = Seat(desk, c, new) /\ UNCHANGED <<orders, events, cards, edits>>
        /\ collided' = collided \cup ({r.key : r \in due} \cap Board!Others(c))
        BY DEF Board!SyncPending, Seat
  <1>2. c \in Board!Clerks /\ c # "mail"
        BY DEF Board!Clerks
  <1>3. ASSUME NEW r \in due
        PROVE  /\ r \in BoardRows /\ r = orders[r.key][1] /\ r.synced # "ok" /\ orders[r.key] # <<>> /\ Names(r, cards)
    <2>1. PICK k \in BoardKeys : orders[k] # <<>> /\ r = orders[k][1] /\ r.synced # "ok"
          BY DEF Board!Rows, BoardKeys
    <2>2. orders[k] \in Seq(BoardRows) /\ OrderFits(k, orders[k], cards)
          BY DEF BoardInv, BoardTypes
    <2>3. Len(orders[k]) = 1 /\ r.key = k /\ Names(r, cards)
          BY <2>1, <2>2 DEF OrderFits
    <2>4. r \in BoardRows
          BY <2>1, <2>2, <2>3, FirstIs
    <2> QED BY <2>1, <2>3, <2>4
  <1>4. new.at = "pick" /\ new.todo = due
        BY FreeIs DEF Desks
  <1>5. new \in Desks
    <2>1. due \subseteq BoardRows /\ "pick" \in Places
          BY <1>3 DEF Places
    <2> QED BY <2>1, FreeIs DEF Desks
  <1>6. ~Working(new)
        BY <1>4 DEF Working
  <1>7. DeskFits(c, new, orders, cards)
        BY <1>2, <1>3, <1>4, <1>5, <1>6 DEF DeskFits
  <1>8. DeskShows(new, orders, cards, collided')
        BY <1>3, <1>4, <1>6 DEF DeskShows
  <1>9. BusyWith(new) = {r.key : r \in due}
        BY <1>4, <1>6 DEF BusyWith
  <1>10. ASSUME NEW b \in Board!Clerks \ {c} PROVE BusyWith(new) \cap BusyWith(desk[b]) \subseteq collided'
    <2>1. Board!Busy(b) = BusyWith(desk[b])
          BY DEF Board!Busy, Board!Works, BusyWith, Working
    <2>2. BusyWith(desk[b]) \subseteq Board!Others(c)
          BY <2>1 DEF Board!Others
    <2> QED BY <1>1, <1>9, <2>2
  <1> QED BY <1>1, <1>2, <1>7, <1>8, <1>10, DeskMoved

LEMMA PickSteps ==
    ASSUME BoardInv, Board!Pick PROVE BoardInv'
  <1> PICK c : c = "command"
      OBVIOUS
  <1> PICK old : old = desk[c]
      OBVIOUS
  <1>1. old.at = "pick" /\ UNCHANGED <<orders, events, cards, collided, edits>>
        BY DEF Board!Pick, Board!At
  <1>2. c \in Board!Clerks /\ c # "mail"
        BY DEF Board!Clerks
  <1>3. DeskFits(c, old, orders, cards) /\ old \in Desks
        BY <1>2 DEF BoardInv, BoardTypes, DeskFits
  <1>4. CASE desk' = Seat(desk, c, Board!Free)
    <2> PICK new : new = Board!Free
        OBVIOUS
    <2>1. DeskFits(c, new, orders, cards) /\ DeskShows(new, orders, cards, collided') /\ BusyWith(new) = {}
          BY FreeIs
    <2> QED BY <1>1, <1>2, <1>4, <2>1, DeskMoved
  <1>5. ASSUME NEW r \in old.todo, NEW new,
               new = [old EXCEPT !.at = "read", !.key = r.key, !.row = <<r>>, !.todo = old.todo \ {r}],
               desk' = Seat(desk, c, new)
        PROVE  BoardInv'
    <2>1. r \in BoardRows /\ orders[r.key] # <<>> /\ Names(r, cards) /\ r.key \in BoardKeys
      <3>1. r \in BoardRows
            BY <1>3, DeskIs
      <3> QED BY <1>3, <3>1, RowIs DEF DeskFits
    <2>2. /\ new.at = "read" /\ new.key = r.key /\ new.row = <<r>> /\ new.todo = old.todo \ {r} /\ new.card = old.card
          BY <1>3, <1>5 DEF Desks
    <2>3. new \in Desks
      <3>1. <<r>> \in Seq(BoardRows) /\ "read" \in Places /\ old.todo \ {r} \subseteq BoardRows
        <4>1. <<r>> \in Seq(BoardRows)
              BY <2>1, OneIs
        <4> QED BY <1>3, <4>1, DeskIs DEF Places
      <3> QED BY <1>3, <1>5, <2>1, <3>1 DEF Desks
    <2>4. Working(new) /\ Len(new.row) = 1 /\ new.row[1] = r
          BY <2>2 DEF Working
    <2>5. DeskFits(c, new, orders, cards)
          BY <1>2, <1>3, <2>1, <2>2, <2>3, <2>4 DEF DeskFits
    <2>6. ASSUME edits = 0 PROVE DeskShows(new, orders, cards, collided)
      <3>1. \A k \in old.todo : k.key \notin collided => k = orders[k.key][1] /\ k.synced # "ok"
            BY <1>2, <2>6 DEF BoardInv, BoardShows, DeskShows
      <3> QED BY <2>2, <2>4, <3>1 DEF DeskShows
    <2>7. BusyWith(new) \subseteq BusyWith(old)
          BY <2>2 DEF BusyWith
    <2>8. ASSUME edits = 0, NEW b \in Board!Clerks \ {c}
          PROVE  BusyWith(new) \cap BusyWith(desk[b]) \subseteq collided'
      <3>1. BusyWith(desk[c]) \cap BusyWith(desk[b]) \subseteq collided
            BY <1>2, <2>8 DEF BoardInv, BoardShows
      <3> QED BY <1>1, <2>7, <3>1
    <2> QED BY <1>1, <1>2, <1>5, <2>5, <2>6, <2>8, DeskMoved
  <1>6. CASE old.todo # {}
    <2>0. desk["command"].todo # {}
          BY <1>6
    <2>1. ASSUME NEW r \in desk["command"].todo,
                 desk' = [desk EXCEPT !["command"] =
                             [@ EXCEPT !.at = "read", !.key = r.key, !.row = <<r>>, !.todo = desk["command"].todo \ {r}]]
          PROVE  BoardInv'
      <3> PICK new : new = [old EXCEPT !.at = "read", !.key = r.key, !.row = <<r>>, !.todo = old.todo \ {r}]
          OBVIOUS
      <3>1. new = [desk["command"] EXCEPT !.at = "read", !.key = r.key, !.row = <<r>>, !.todo = desk["command"].todo \ {r}]
            OBVIOUS
      <3>2. desk' = [desk EXCEPT !["command"] = new]
            BY <2>1, <3>1
      <3>3. desk' = Seat(desk, c, new)
            BY <3>2 DEF Seat
      <3> QED BY <1>5, <2>1, <3>3
    <2> QED BY <2>0, <2>1, Zenon DEF Board!Pick
  <1>7. CASE old.todo = {}
    <2>1. desk' = Seat(desk, c, Board!Free)
          BY <1>7 DEF Board!Pick, Seat
    <2> QED BY <1>4, <2>1
  <1> QED BY <1>6, <1>7

\* Only who took a date away gets one written.
LEMMA BackfillSteps ==
    ASSUME BoardInv, Board!Backfill PROVE BoardInv'
  <1> PICK c : c = "command"
      OBVIOUS
  <1>0. BoardTypes /\ cards \in Seq(Cards)
        BY DEF BoardInv, BoardTypes
  <1>1. PICK k \in Board!Rows :
            /\ Board!Found(orders[k][1]) /\ ~cards[orders[k][1].card].dated
            /\ desk' = [desk EXCEPT !["command"] =
                           [Board!Free EXCEPT !.at = "date", !.key = k, !.row = orders[k], !.card = <<cards[orders[k][1].card]>>]]
        BY DEF Board!Backfill
  <1>2. UNCHANGED <<orders, events, cards, edits>> /\ collided \subseteq collided'
        BY DEF Board!Backfill
  <1>3. c \in Board!Clerks /\ c # "mail"
        BY DEF Board!Clerks
  <1> PICK o : o = orders[k]
      OBVIOUS
  <1> PICK card : card = cards[o[1].card]
      OBVIOUS
  <1> PICK new : new = [Board!Free EXCEPT !.at = "date", !.key = k, !.row = o, !.card = <<card>>]
      OBVIOUS
  <1>4. desk' = Seat(desk, c, new)
        BY <1>1 DEF Seat
  <1>5. k \in BoardKeys /\ o # <<>> /\ o \in Seq(BoardRows)
        BY <1>0 DEF Board!Rows, BoardKeys, BoardTypes
  <1>6. Len(o) = 1 /\ o[1].key = k /\ Names(o[1], cards)
        BY <1>0, <1>5 DEF BoardTypes, OrderFits
  <1>7. o[1] \in BoardRows /\ o[1].card \in 1..Len(cards) /\ o[1].card # 0
    <2>1. o[1] \in BoardRows
          BY <1>5, <1>6, FirstIs
    <2>2. o[1].card # 0
          BY <1>1 DEF Board!Found
    <2> QED BY <1>6, <2>1, <2>2, RowIs DEF Names
  <1>8. <<card>> \in Seq(Cards)
    <2>1. card \in Cards
          BY <1>0, <1>7
    <2> QED BY <2>1, OneIs
  <1>9. new.at = "date" /\ new.key = k /\ new.row = o /\ new.todo = {}
        BY FreeIs DEF Desks
  <1>10. new \in Desks
         BY <1>5, <1>8, FreeIs DEF Desks, Places
  <1>11. DeskFits(c, new, orders, cards)
         BY <1>3, <1>5, <1>6, <1>7, <1>9, <1>10 DEF DeskFits, Working
  <1>12. edits # 0
         BY <1>1, <1>7 DEF BoardInv, BoardShows, Untouched
  <1> QED BY <1>2, <1>3, <1>4, <1>11, <1>12, DeskMoved

LEMMA WriteDateSteps ==
    ASSUME BoardInv, Board!WriteDate PROVE BoardInv'
  <1> PICK c : c = "command"
      OBVIOUS
  <1> PICK old : old = desk[c]
      OBVIOUS
  <1> PICK r : r = old.row[1]
      OBVIOUS
  <1> PICK shown : shown = cards[r.card]
      OBVIOUS
  <1> PICK card : card = [shown EXCEPT !.text = r.status, !.dated = TRUE]
      OBVIOUS
  <1>1. /\ old.at = "date" /\ UNCHANGED <<orders, events, collided, edits>>
        /\ cards' = Seat(cards, r.card, card) /\ desk' = Seat(desk, c, Board!Free)
        BY DEF Board!WriteDate, Board!At, Board!Mine, Seat
  <1>2. c \in Board!Clerks /\ Working(old)
        BY <1>1 DEF Board!Clerks, Working
  <1>3. /\ r \in BoardRows /\ r.key = old.key /\ Names(r, cards) /\ DeskFits(c, old, orders, cards)
        /\ old.key \in BoardKeys /\ OrderFits(old.key, orders[old.key], cards) /\ Len(orders[old.key]) = 1
        /\ Furthest(Told(old.key, events), orders[old.key])
        /\ orders[old.key][1] \in BoardRows
        /\ edits = 0 => DeskShows(old, orders, cards, collided)
        BY <1>2, AtDesk
  <1>4. BoardTypes /\ cards \in Seq(Cards) /\ OnlyOrder(old.key, orders, orders')
    <2>1. BoardTypes /\ cards \in Seq(Cards)
          BY DEF BoardInv, BoardTypes
    <2> QED BY <1>1, <2>1, NothingChanges
  <1>5. r.card \in 1..Len(cards) /\ shown \in Cards /\ shown.key = old.key
    <2>1. r.card # 0
          BY <1>1, <1>3 DEF DeskFits
    <2> QED BY <1>3, <1>4, <2>1 DEF Names
  <1>6. card \in Cards /\ card.key = old.key
    <2>1. PICK yes, n : yes = TRUE /\ n = r.status
          OBVIOUS
    <2>2. card = [shown EXCEPT !.text = n, !.dated = yes] /\ n \in 0..8
          BY <1>3, <2>1, RowIs
    <2> QED BY <1>5, <2>1, <2>2 DEF Cards
  <1>7. OnlyCards(old.key, cards, cards')
    <2>1. OnlyCards(card.key, cards, Seat(cards, r.card, card))
      <3>1. card.key = cards[r.card].key
            BY <1>5, <1>6
      <3> QED BY <1>4, <1>5, <1>6, <3>1, OneCard
    <2> QED BY <1>1, <1>6, <2>1
  <1>8. edits # 0
        BY <1>1, <1>3 DEF DeskShows
  <1>9. OrderFits(old.key, orders'[old.key], cards')
    <2>1. Len(orders[old.key]) = 1 /\ orders[old.key][1].key = old.key /\ Names(orders[old.key][1], cards)
          BY <1>3 DEF OrderFits
    <2>2. Names(orders[old.key][1], cards')
          BY <1>3, <1>4, <1>7, <2>1, NamesStay
    <2> QED BY <1>1, <2>1, <2>2 DEF OrderFits
  <1>10. Furthest(Told(old.key, events'), orders'[old.key]) /\ \A k \in BoardKeys \ {old.key} : Told(k, events') = Told(k, events)
         BY <1>1, <1>3
  <1>11. DeskFits(c, Board!Free, orders', cards')
         BY FreeIs
  <1> QED BY <1>1, <1>2, <1>3, <1>4, <1>7, <1>8, <1>9, <1>10, <1>11, ClerkWorked

LEMMA UserEditsSteps ==
    ASSUME BoardInv, Board!UserEdits, RecordsAssumption PROVE BoardInv'
  <1>0. BoardTypes /\ cards \in Seq(Cards) /\ edits \in Nat
        BY DEF BoardInv, BoardTypes
  <1>1. UNCHANGED <<orders, events, desk>> /\ edits' = edits + 1
        BY DEF Board!UserEdits
  <1>2. PICK n \in 1..Len(cards) :
            \/ \E s \in {m.proposed : m \in OrderMails} : cards' = [cards EXCEPT ![n].stack = s]
            \/ cards' = [cards EXCEPT ![n].gone = TRUE]
            \/ cards' = [cards EXCEPT ![n].managed = FALSE]
            \/ cards' = [cards EXCEPT ![n].dated = FALSE]
        BY DEF Board!UserEdits
  <1> PICK was : was = cards[n]
      OBVIOUS
  <1>3. was \in Cards
        BY <1>0
  <1>4. ASSUME NEW card \in Cards, card.key = was.key, cards' = Seat(cards, n, card) PROVE BoardInv'
    <2>1. OnlyCards(card.key, cards, cards')
          BY <1>0, <1>4, OneCard
    <2>2. OnlyOrder(card.key, orders, orders')
          BY <1>0, <1>1, NothingChanges
    <2>3. ASSUME NEW k \in BoardKeys PROVE OrderFits(k, orders'[k], cards') /\ Furthest(Told(k, events'), orders'[k])
      <3>1. OrderFits(k, orders[k], cards) /\ Furthest(Told(k, events), orders[k]) /\ orders[k] \in Seq(BoardRows)
            BY <1>0 DEF BoardTypes
      <3>2. CASE orders[k] = <<>>
            BY <1>1, <3>1, <3>2 DEF OrderFits
      <3>3. CASE orders[k] # <<>>
        <4>1. Len(orders[k]) = 1 /\ orders[k][1].key = k /\ Names(orders[k][1], cards)
              BY <3>1, <3>3 DEF OrderFits
        <4>2. orders[k][1] \in BoardRows
              BY <3>1, <4>1, FirstIs
        <4>3. Names(orders[k][1], cards')
              BY <1>0, <2>1, <4>1, <4>2, NamesStay
        <4> QED BY <1>1, <3>1, <4>1, <4>3 DEF OrderFits
      <3> QED BY <3>2, <3>3
    <2>4. ASSUME NEW b \in Board!Clerks PROVE DeskFits(b, desk'[b], orders', cards')
      <3>1. DeskFits(b, desk[b], orders, cards)
            BY <1>0 DEF BoardTypes
      <3>2. DeskFits(b, desk[b], orders', cards')
            BY <1>0, <2>1, <2>2, <3>1, OtherFits
      <3> QED BY <1>1, <3>2
    <2>5. BoardTypes'
          BY <1>0, <1>1, <2>1, <2>3, <2>4, SameClerks DEF BoardTypes, OnlyCards
    <2>6. edits' # 0
          BY <1>0, <1>1
    <2> QED BY <2>5, <2>6 DEF BoardInv
  <1>5. ASSUME NEW s \in {m.proposed : m \in OrderMails}, cards' = [cards EXCEPT ![n].stack = s] PROVE BoardInv'
    <2> PICK card : card = [was EXCEPT !.stack = s]
        OBVIOUS
    <2>1. s \in 0..8
          BY DEF RecordsAssumption
    <2>2. card \in Cards /\ card.key = was.key
          BY <1>3, <2>1 DEF Cards
    <2> QED BY <1>4, <1>5, <2>2 DEF Seat
  <1>6. ASSUME NEW no, no = FALSE, cards' = [cards EXCEPT ![n].managed = no] PROVE BoardInv'
    <2> PICK card : card = [was EXCEPT !.managed = no]
        OBVIOUS
    <2>1. card \in Cards /\ card.key = was.key
          BY <1>3, <1>6 DEF Cards
    <2> QED BY <1>4, <1>6, <2>1 DEF Seat
  <1>7. ASSUME NEW no, no = FALSE, cards' = [cards EXCEPT ![n].dated = no] PROVE BoardInv'
    <2> PICK card : card = [was EXCEPT !.dated = no]
        OBVIOUS
    <2>1. card \in Cards /\ card.key = was.key
          BY <1>3, <1>7 DEF Cards
    <2> QED BY <1>4, <1>7, <2>1 DEF Seat
  <1>8. ASSUME NEW yes, yes = TRUE, cards' = [cards EXCEPT ![n].gone = yes] PROVE BoardInv'
    <2> PICK card : card = [was EXCEPT !.gone = yes]
        OBVIOUS
    <2>1. card \in Cards /\ card.key = was.key
          BY <1>3, <1>8 DEF Cards
    <2> QED BY <1>4, <1>8, <2>1 DEF Seat
  <1> QED BY <1>2, <1>5, <1>6, <1>7, <1>8


\* The status is that of the mail that got furthest, as long as none was unclear.
LEMMA StatusGoesOn ==
    ASSUME NEW told, NEW o, Furthest(told, o), NEW p \in 0..8, NEW new \in BoardRows,
           o = <<>> \/ o[1].status \in 0..8,
           new.status = Board!StatusAfter(IF o = <<>> THEN 8 ELSE o[1].status, p)
    PROVE  Furthest(told \cup {p}, <<new>>)
  <1> PICK all : all = told \cup {p}
      OBVIOUS
  <1>1. all \subseteq 0..8 /\ all # {} /\ <<new>> # <<>> /\ <<new>>[1] = new
        BY DEF Furthest
  <1>2. ASSUME 8 \notin all PROVE new.status \in all /\ \A x \in all : x <= new.status
    <2>1. p \in 0..7 /\ 8 \notin told
          BY <1>2
    <2>2. CASE o = <<>>
      <3>1. told = {} /\ new.status = p
            BY <2>2 DEF Furthest, Board!StatusAfter, Board!Refunded, Board!Return, Board!Review
      <3> QED BY <3>1
    <2>3. CASE o # <<>>
      <3> PICK current : current = o[1].status
          OBVIOUS
      <3>1. told # {} /\ told \subseteq 0..8
            BY <2>3 DEF Furthest
      <3>2. current \in told /\ \A x \in told : x <= current
            BY <2>1, <3>1 DEF Furthest
      <3>3. current \in 0..7
            BY <2>1, <3>1, <3>2
      <3>4. new.status \in {current, p} /\ new.status >= current /\ new.status >= p
            BY <2>1, <2>3, <3>3 DEF Board!StatusAfter, Board!Refunded, Board!Return, Board!Review
      <3>5. \A x \in all : x <= new.status
        <4> TAKE x \in all
        <4>1. x = p \/ x <= current
              BY <3>2
        <4>2. x \in 0..8
              BY <1>1
        <4> QED BY <2>1, <3>3, <3>4, <4>1, <4>2
      <3> QED BY <3>2, <3>4, <3>5
    <2> QED BY <2>2, <2>3
  <1> QED BY <1>1, <1>2 DEF Furthest

LEMMA OrderOfIs ==
    ASSUME NEW mail PROVE Board!OrderOf(mail) \in BoardKeys
  <1>1. Board!Rows \subseteq BoardKeys
        BY DEF Board!Rows, BoardKeys
  <1> PICK known : known = {k \in Board!Rows : orders[k][1].tracked}
      OBVIOUS
  <1>2. known # {} => (CHOOSE k \in known : TRUE) \in known
        OBVIOUS
  <1>3. \/ Board!OrderOf(mail) \in {"number", "review", "tracking"}
        \/ Board!OrderOf(mail) \in known
        BY <1>2 DEF Board!OrderOf
  <1> QED BY <1>1, <1>3 DEF BoardKeys, Board!Keys

LEMMA StatusAfterIs ==
    ASSUME NEW current \in 0..8, NEW p \in 0..8 PROVE Board!StatusAfter(current, p) \in 0..8
  BY DEF Board!StatusAfter, Board!Refunded, Board!Return, Board!Review

\* The row a mail leaves behind.
LEMMA RecordedIs ==
    ASSUME NEW mail \in OrderMails, RecordsAssumption, NEW k \in BoardKeys, NEW o \in Seq(BoardRows),
           OrderFits(k, o, cards)
    PROVE  /\ Board!Recorded(o, mail, k) \in BoardRows
           /\ Board!Recorded(o, mail, k).key = k /\ Board!Recorded(o, mail, k).synced = "pending"
           /\ Names(Board!Recorded(o, mail, k), cards)
           /\ o = <<>> \/ o[1].status \in 0..8
           /\ Board!Recorded(o, mail, k).status
                = Board!StatusAfter(IF o = <<>> THEN 8 ELSE o[1].status, mail.proposed)
  <1> PICK new : new = Board!Recorded(o, mail, k)
      OBVIOUS
  <1> PICK current : current = IF o = <<>> THEN 8 ELSE o[1].status
      OBVIOUS
  <1> PICK status : status = Board!StatusAfter(current, mail.proposed)
      OBVIOUS
  <1> PICK tracked : tracked = (mail.tracking \/ (o # <<>> /\ o[1].tracked))
      OBVIOUS
  <1> PICK card : card = IF o = <<>> THEN 0 ELSE o[1].card
      OBVIOUS
  <1> PICK stack : stack = IF o = <<>> THEN 0 ELSE o[1].stack
      OBVIOUS
  <1>1. new = [key |-> k, status |-> status, tracked |-> tracked, synced |-> "pending", card |-> card, stack |-> stack]
        BY DEF Board!Recorded, Board!Review
  <1>2. o # <<>> => Len(o) = 1 /\ o[1] \in BoardRows /\ o[1].key = k /\ Names(o[1], cards)
        BY FirstIs DEF OrderFits
  <1>3. current \in 0..8 /\ stack \in 0..8 /\ card \in Nat /\ (o = <<>> \/ o[1].status \in 0..8)
        BY <1>2, RowIs
  <1>4. status \in 0..8
        BY <1>3, StatusAfterIs DEF RecordsAssumption
  <1>5. tracked \in BOOLEAN
        OBVIOUS
  <1>6. new \in BoardRows /\ new.key = k /\ new.synced = "pending" /\ new.status = status /\ new.card = card
        BY <1>1, <1>3, <1>4, <1>5 DEF BoardRows
  <1>7. card \in 0..Len(cards) /\ (card # 0 => cards[card].key = k)
    <2>1. CASE o = <<>>
      <3>1. card = 0 /\ Len(cards) \in Nat
            BY <2>1
      <3> QED BY <3>1
    <2>2. CASE o # <<>>
          BY <1>2, <2>2 DEF Names
    <2> QED BY <2>1, <2>2
  <1>8. Names(new, cards)
        BY <1>6, <1>7 DEF Names
  <1> QED BY <1>3, <1>6, <1>8

LEMMA ProcessEventSteps ==
    ASSUME BoardInv, RecordsAssumption, NEW mail \in OrderMails, Board!ProcessEvent(mail) PROVE BoardInv'
  <1> PICK c : c = "mail"
      OBVIOUS
  <1> PICK k : k = Board!OrderOf(mail)
      OBVIOUS
  <1> PICK e : e = [mail |-> mail.id, proposed |-> mail.proposed, key |-> k]
      OBVIOUS
  <1> PICK o : o = orders[k]
      OBVIOUS
  <1> PICK entry : entry = Board!Recorded(o, mail, k)
      OBVIOUS
  <1> PICK new : new = [Board!Free EXCEPT !.at = "read", !.key = k, !.row = <<entry>>]
      OBVIOUS
  <1>0. BoardTypes /\ cards \in Seq(Cards) /\ orders \in [BoardKeys -> Seq(BoardRows)] /\ DOMAIN desk = Board!Clerks
        BY DEF BoardInv, BoardTypes
  <1>1. c \in Board!Clerks /\ k \in BoardKeys /\ UNCHANGED <<cards, edits>>
        BY OrderOfIs DEF Board!Clerks, Board!ProcessEvent
  <1>2. CASE UNCHANGED <<orders, latest, events, desk, collided>>
    <2>1. BoardTypes'
          BY <1>0, <1>1, <1>2, SameClerks DEF BoardTypes
    <2>2. BoardShows => BoardShows'
          BY <1>1, <1>2, SameClerks DEF BoardShows
    <2> QED BY <1>1, <2>1, <2>2 DEF BoardInv
  <1>3. CASE /\ orders' = Seat(orders, k, <<entry>>) /\ events' = events \cup {e} /\ desk' = Seat(desk, c, new)
             /\ collided' = collided \cup ({k} \cap Board!Others(c))
    <2>1. OrderFits(k, o, cards) /\ Furthest(Told(k, events), o) /\ o \in Seq(BoardRows)
          BY <1>0, <1>1 DEF BoardTypes
    <2>2. /\ entry \in BoardRows /\ entry.key = k /\ entry.synced = "pending" /\ Names(entry, cards)
          /\ o = <<>> \/ o[1].status \in 0..8
          /\ entry.status = Board!StatusAfter(IF o = <<>> THEN 8 ELSE o[1].status, mail.proposed)
          BY <1>1, <2>1, RecordedIs
    <2>3. <<entry>> \in Seq(BoardRows) /\ Len(<<entry>>) = 1 /\ <<entry>>[1] = entry /\ <<entry>> # <<>>
      <3>1. <<entry>> \in Seq(BoardRows) /\ Len(<<entry>>) = 1 /\ <<entry>>[1] = entry
            BY <2>2, OneIs
      <3> QED BY <3>1
    <2>4. orders'[k] = <<entry>> /\ OnlyOrder(k, orders, orders')
          BY <1>0, <1>1, <1>3, <2>3 DEF Seat, OnlyOrder
    <2>5. OnlyCards(k, cards, cards')
          BY <1>0, <1>1, NothingChanges
    <2>6. OrderFits(k, orders'[k], cards')
          BY <1>1, <2>2, <2>3, <2>4 DEF OrderFits
    <2>7. e.key = k /\ e.proposed = mail.proposed /\ mail.proposed \in 0..8
          BY DEF RecordsAssumption
    <2>8. Furthest(Told(k, events'), orders'[k])
      <3>1. Told(k, events') = Told(k, events) \cup {mail.proposed}
        <4>1. Told(k, events \cup {e}) = Told(k, events) \cup {e.proposed}
              BY <2>7 DEF Told
        <4> QED BY <1>3, <2>7, <4>1
      <3>2. Furthest(Told(k, events) \cup {mail.proposed}, <<entry>>)
            BY <2>1, <2>2, <2>7, StatusGoesOn
      <3> QED BY <2>4, <3>1, <3>2
    <2>9. \A q \in BoardKeys \ {k} : Told(q, events') = Told(q, events)
      <3>1. ASSUME NEW q \in BoardKeys \ {k} PROVE Told(q, events \cup {e}) = Told(q, events)
        <4>1. e.key # q
              BY <2>7
        <4> QED BY <4>1 DEF Told
      <3> QED BY <1>3, <3>1
    <2>10. /\ new.at = "read" /\ new.key = k /\ new.row = <<entry>> /\ new.todo = {}
           BY FreeIs DEF Desks
    <2>11. new \in Desks
           BY <1>1, <2>3, FreeIs DEF Desks, Places
    <2>12. Working(new) /\ BusyWith(new) = {k}
           BY <2>10 DEF Working, BusyWith
    <2>13. DeskFits(c, new, orders', cards')
           BY <1>1, <2>2, <2>3, <2>4, <2>10, <2>11, <2>12 DEF DeskFits
    <2>14. DeskShows(new, orders', cards', collided') /\ OrderShows(k, orders'[k], cards', collided')
           BY <2>2, <2>3, <2>4, <2>10, <2>12 DEF DeskShows, OrderShows
    <2>15. Alone(c, new, k, desk, collided')
      <3>1. ASSUME NEW b \in Board!Clerks \ {c}, k \in BusyWith(desk[b]) PROVE k \in collided'
        <4>1. Board!Busy(b) = BusyWith(desk[b])
              BY DEF Board!Busy, Board!Works, BusyWith, Working
        <4>2. k \in Board!Others(c)
              BY <3>1, <4>1 DEF Board!Others
        <4> QED BY <1>3, <4>2
      <3> QED BY <2>12, <3>1 DEF Alone
    <2>16. edits = 0 => Untouched(cards')
           BY <1>1 DEF BoardInv, BoardShows
    <2> QED BY <1>1, <1>3, <2>4, <2>5, <2>6, <2>8, <2>9, <2>13, <2>14, <2>15, <2>16, ClerkWorked
  <1>4. CASE ~(o # <<>> /\ e \in events)
    <2>1. /\ orders' = Seat(orders, k, <<entry>>) /\ events' = events \cup {e} /\ desk' = Seat(desk, c, new)
          /\ collided' = collided \cup ({k} \cap Board!Others(c))
          BY <1>4 DEF Board!ProcessEvent, Seat
    <2> QED BY <1>3, <2>1
  <1>5. CASE o # <<>> /\ e \in events
    <2>1. UNCHANGED <<orders, latest, events, desk, collided>>
          BY <1>5 DEF Board!ProcessEvent
    <2> QED BY <1>2, <2>1
  <1> QED BY <1>4, <1>5

LEMMA BoardStarts == Board!Init => BoardInv
  <1> SUFFICES ASSUME Board!Init PROVE BoardInv
      OBVIOUS
  <1>1. /\ orders = [k \in BoardKeys |-> <<>>] /\ events = {} /\ cards = <<>> /\ edits = 0 /\ collided = {}
        /\ desk = [c \in Board!Clerks |-> Board!Free]
        BY DEF Board!Init, BoardKeys
  <1>2. orders \in [BoardKeys -> Seq(BoardRows)] /\ cards \in Seq(Cards)
        BY <1>1, EmptyIs
  <1>3. ASSUME NEW k \in BoardKeys
        PROVE  /\ OrderFits(k, orders[k], cards) /\ Furthest(Told(k, events), orders[k])
               /\ OrderShows(k, orders[k], cards, collided)
    <2>1. orders[k] = <<>> /\ Told(k, events) = {}
          BY <1>1 DEF Told
    <2> QED BY <2>1 DEF OrderFits, Furthest, OrderShows
  <1>4. ASSUME NEW c \in Board!Clerks
        PROVE  /\ DeskFits(c, desk[c], orders, cards) /\ DeskShows(desk[c], orders, cards, collided)
               /\ BusyWith(desk[c]) = {}
    <2>1. desk[c] = Board!Free
          BY <1>1
    <2> QED BY <2>1, FreeIs
  <1>5. Untouched(cards)
        BY <1>1 DEF Untouched
  <1>6. BoardTypes
        BY <1>1, <1>2, <1>3, <1>4 DEF BoardTypes
  <1>7. BoardShows
        BY <1>3, <1>4, <1>5 DEF BoardShows
  <1> QED BY <1>6, <1>7 DEF BoardInv

LEMMA BoardSteps ==
    ASSUME BoardInv, RecordsAssumption, [Board!Next]_ordersVars
    PROVE  BoardInv'
  <1>1. ASSUME NEW mail \in OrderMails, Board!ProcessEvent(mail) PROVE BoardInv'
        BY <1>1, ProcessEventSteps
  <1>2. ASSUME NEW c \in Board!Clerks, Board!Sync(c) PROVE BoardInv'
    <2>1. CASE Board!GetCard(c)
          BY <2>1, GetCardSteps
    <2>2. CASE Board!CreateCard(c)
          BY <2>2, CreateCardSteps
    <2>3. CASE Board!UpdateCard(c)
          BY <2>3, UpdateCardSteps
    <2>4. CASE Board!MoveCard(c)
          BY <2>4, MoveCardSteps
    <2>5. CASE Board!SetDeck(c)
          BY <2>5, SetDeckSteps
    <2>6. CASE Board!SyncFails(c)
          BY <2>6, SyncFailsSteps
    <2>7. CASE Board!Killed(c)
          BY <2>7, KilledSteps
    <2> QED BY <1>2, <2>1, <2>2, <2>3, <2>4, <2>5, <2>6, <2>7 DEF Board!Sync
  <1>3. CASE UNCHANGED ordersVars
    <2>1. UNCHANGED <<orders, events, cards, desk, collided, edits>>
          BY <1>3 DEF ordersVars
    <2>2. BoardTypes => BoardTypes'
          BY <2>1, SameClerks DEF BoardTypes
    <2>3. BoardShows => BoardShows'
          BY <2>1, SameClerks DEF BoardShows
    <2> QED BY <2>1, <2>2, <2>3 DEF BoardInv
  <1> QED BY <1>1, <1>2, <1>3, SyncPendingSteps, PickSteps, BackfillSteps, WriteDateSteps, UserEditsSteps
          DEF Board!Next

LEMMA BoardShowsIt == BoardInv => Board!StatusIsTheFurthest /\ Board!OkMeansShown
  <1> SUFFICES ASSUME BoardInv PROVE Board!StatusIsTheFurthest /\ Board!OkMeansShown
      OBVIOUS
  <1>0. BoardTypes
        BY DEF BoardInv
  <1>1. ASSUME NEW k \in Board!Rows
        PROVE  /\ k \in BoardKeys /\ orders[k] # <<>> /\ Furthest(Told(k, events), orders[k])
               /\ OrderFits(k, orders[k], cards)
        BY <1>0 DEF BoardTypes, Board!Rows, BoardKeys
  <1>2. ASSUME NEW k \in Board!Rows, NEW told, told = Told(k, events), 8 \notin told
        PROVE  orders[k][1].status = Board!Max(told)
    <2> PICK status : status = orders[k][1].status
        OBVIOUS
    <2>1. told \subseteq 0..8 /\ told # {} /\ status \in told /\ \A x \in told : x <= status
          BY <1>1, <1>2 DEF Furthest
    <2>2. \A x \in told : x \in Nat
          BY <2>1
    <2> PICK max : max = CHOOSE x \in told : \A y \in told : x >= y
        OBVIOUS
    <2>3. max \in told /\ \A y \in told : max >= y
          BY <2>1, <2>2
    <2>4. max = status
      <3>1. max >= status /\ max <= status
            BY <2>1, <2>3
      <3>2. max \in Nat /\ status \in Nat
            BY <2>1, <2>2, <2>3
      <3> QED BY <3>1, <3>2
    <2>5. Board!Max(told) = max
          BY DEF Board!Max
    <2> QED BY <2>4, <2>5
  <1>3. Board!StatusIsTheFurthest
    <2>1. ASSUME NEW k \in Board!Rows, NEW told, told = {e.proposed : e \in {f \in events : f.key = k}}, 8 \notin told
          PROVE  orders[k][1].status = Board!Max(told)
      <3>1. told = Told(k, events)
            BY <2>1 DEF Told
      <3> QED BY <1>2, <2>1, <3>1
    <2> QED BY <2>1 DEF Board!StatusIsTheFurthest, Board!Review
  <1>4. Board!OkMeansShown
    <2>1. ASSUME edits = 0, NEW k \in Board!Rows \ collided, orders[k][1].synced = "ok"
          PROVE  /\ cards[orders[k][1].card].key = k /\ cards[orders[k][1].card].stack = orders[k][1].status
                 /\ cards[orders[k][1].card].text = orders[k][1].status
      <3>1. OrderShows(k, orders[k], cards, collided)
            BY <1>1, <2>1 DEF BoardInv, BoardShows
      <3>2. OrderFits(k, orders[k], cards) /\ orders[k] # <<>>
            BY <1>1
      <3>3. /\ orders[k][1].card # 0 /\ cards[orders[k][1].card].stack = orders[k][1].status
            /\ cards[orders[k][1].card].text = orders[k][1].status
            BY <2>1, <3>1, <3>2 DEF OrderShows
      <3> QED BY <3>2, <3>3 DEF OrderFits, Names
    <2> QED BY <2>1 DEF Board!OkMeansShown
  <1> QED BY <1>3, <1>4

OrdersInv == turn = "orders" => BoardInv

\* The status of an order is that of the mail that got furthest, and an order called
\* "ok" is on the board as it stands unless two processes worked on it at once or the
\* user changed the board: for any mails, runs and faults.
THEOREM BoardHolds == AllSpec => []BoardIsTrue
  <1>1. AllInit => OrdersInv
        BY BoardStarts DEF AllInit, OrdersInv
  <1>2. OrdersInv /\ [AllNext]_allVars => OrdersInv'
        BY OneTurn, BoardSteps, RecordsAssumption DEF OrdersInv
  <1>3. OrdersInv => BoardIsTrue
        BY BoardShowsIt DEF OrdersInv, BoardIsTrue
  <1> QED BY <1>1, <1>2, <1>3, PTL DEF AllSpec
=============================================================================
