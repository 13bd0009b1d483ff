-------------------------- MODULE ApprovalLifecycle --------------------------
(***************************************************************************)
(* What the approval store promises of each approval, with no file in      *)
(* sight: an approval is created pending, is decided at most once and only *)
(* in time, expires only when overdue, and a decision is never taken back. *)
(* The retention limit may forget any approval, whatever its status; a     *)
(* forgotten one can never be decided.                                     *)
(***************************************************************************)
CONSTANT Approvals

VARIABLES status,   \* the status of each approval
          overdue   \* the approvals whose expires_at has passed

vars == <<status, overdue>>

LifeStatuses == {"absent", "pending", "approved", "rejected", "expired", "forgotten"}

TypeOK == status \in [Approvals -> LifeStatuses] /\ overdue \subseteq Approvals

Init == status = [a \in Approvals |-> "absent"] /\ overdue = {}

\* Approval a moves to one of to, and retention may forget the others.
Moves(a, to) ==
    /\ status' \in [Approvals -> LifeStatuses]
    /\ status'[a] \in to
    /\ \A b \in Approvals \ {a} :
          \/ status'[b] = status[b]
          \/ status[b] # "absent" /\ status'[b] = "forgotten"

TimePasses == overdue' \in SUBSET Approvals /\ overdue \subseteq overdue'

\* The approval may be forgotten at once: its first snapshot may not be kept.
Create(a) ==
    /\ status[a] = "absent" /\ a \notin overdue'
    /\ Moves(a, {"pending", "forgotten"})
    /\ TimePasses

Decide(a) ==
    /\ status[a] = "pending" /\ a \notin overdue
    /\ Moves(a, {"approved", "rejected", "forgotten"})
    /\ UNCHANGED overdue

\* An expiring call works on snapshots it read earlier, so it may write the
\* expiry of an approval that retention has just forgotten.
Expire(a) ==
    /\ status[a] \in {"pending", "expired", "forgotten"} /\ a \in overdue
    /\ Moves(a, {"expired", "forgotten"})
    /\ UNCHANGED overdue

Lapse == TimePasses /\ UNCHANGED status

Next == Lapse \/ \E a \in Approvals : Create(a) \/ Decide(a) \/ Expire(a)

Spec == Init /\ [][Next]_vars
=============================================================================
