--------------------------- MODULE MCActionPlans ---------------------------
(* Small sets of plans for ActionPlans. *)
EXTENDS ActionPlans, FiniteSets, TLC

CONSTANTS
    upload, folder, move,  \* files of the workspace: all three concern one path
    event, change,         \* a calendar event and a change of it
    item1, item2,          \* two tasks (or contacts) that come to the same UID
    register,              \* the yearly register
    path, other, x, y

MCKind == [p \in Plans |->
    CASE p = upload -> "file"    [] p = folder -> "folder" [] p = move -> "move"
      [] p = event  -> "event"   [] p = change -> "update"
      [] p = register -> "register" [] OTHER -> "item"]
MCTarget == [p \in Plans |-> path]
MCSource == [p \in Plans |-> IF p = move THEN other ELSE path]
MCBody == [p \in Plans |-> IF p \in {change, item2} THEN y ELSE x]

Symmetry == Permutations(Clients)

Started == {p \in Plans : status[p] # "absent"} \cup {job[c] : c \in {d \in Clients : pc[d] \notin Rest}}
Used == {route[c] : c \in {d \in Clients : pc[d] \notin Rest}}

\* A behaviour is about the files, about the event, about the items or about the
\* register: the four have no row and no path in common.
OneSubject ==
    \/ /\ Started \subseteq {upload, folder, move}
       /\ Used \subseteq {"workspace", "archive"}
       /\ remote[other] # y /\ edits = 0 /\ faults = 0
    \/ /\ Started \subseteq {event, change}
       /\ remote[other] = Nothing /\ edits + faults + crashes =< 1
    \/ /\ Started \subseteq {item1, item2}
       /\ Used \subseteq {"tool"}
       /\ remote[other] = Nothing /\ edits + faults + crashes =< 1
    \/ /\ Started \subseteq {register}
       /\ Used \subseteq {"register"}
       /\ remote[other] = Nothing
=============================================================================
