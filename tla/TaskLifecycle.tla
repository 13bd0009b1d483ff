--------------------------- MODULE TaskLifecycle ---------------------------
(***************************************************************************)
(* The life cycle of tasks (app/services/orchestrator.py, task_service.py  *)
(* and the routes that call them).                                         *)
(*                                                                         *)
(* Each request has a database session of its own.  Every statement on it  *)
(* is awaited, so requests interleave between any two statements, and each *)
(* commit is one.  The session keeps the row it first read: get_task gives *)
(* the same object again, and only refresh reads it anew.  SQLite takes no *)
(* snapshot for a read, so the last commit on a row wins.                  *)
(*                                                                         *)
(* What the policy, the providers and the executors answer is any answer.  *)
(***************************************************************************)
EXTENDS Integers, FiniteSets

CONSTANTS Tasks,      \* the ids uuid4 hands out
          Requests,   \* bound: the requests of a run
          MaxSteps,   \* bound: the steps of a plan
          DbFails     \* whether a commit or another statement may raise

ASSUME MaxStepsNat == MaxSteps \in Nat
ASSUME DbFailsBool == DbFails \in BOOLEAN
ASSUME RequestsFinite == IsFiniteSet(Requests)

VARIABLES status,     \* tasks.status of each row
          req,        \* the state of each request
          grants,     \* how often each task was approved, by a user or by its risk
          executions, \* how often the execution of each plan was begun
          stopped     \* whether a session broke or the process died

vars == <<status, req, grants, executions, stopped>>

Ended == {"completed", "failed", "rejected", "blocked"}
Statuses == Ended \cup {"missing", "pending", "planning", "awaiting_approval",
                        "approved", "executing"}
InTry == {"created", "planning", "granted", "running"}
InFlight == InTry \cup {"deciding", "decided", "raised"}
Decisions == {"approved", "rejected"}
NoRequest == [pc |-> "idle", task |-> {}, decision |-> "rejected", left |-> 0, good |-> TRUE]

TypeOK ==
    /\ status \in [Tasks -> Statuses]
    /\ req \in [Requests -> [pc : InFlight \cup {"idle", "done", "dead"},
                             task : SUBSET Tasks, decision : Decisions,
                             left : 0..MaxSteps, good : BOOLEAN]]
    /\ \A r \in Requests : req[r].pc = "idle" \/ \E t \in Tasks : req[r].task = {t}
    /\ grants \in [Tasks -> Nat] /\ executions \in [Tasks -> Nat]
    /\ stopped \in BOOLEAN

Init ==
    /\ status = [t \in Tasks |-> "missing"]
    /\ req = [r \in Requests |-> NoRequest]
    /\ grants = [t \in Tasks |-> 0] /\ executions = [t \in Tasks |-> 0]
    /\ stopped = FALSE

-----------------------------------------------------------------------------
At(r, pc, t) == req[r].pc = pc /\ req[r].task = {t}
Goto(r, pc) == req' = [req EXCEPT ![r].pc = pc]
Set(t, s) == status' = [status EXCEPT ![t] = s]
Plus(f, t) == [f EXCEPT ![t] = @ + 1]

\* ingest_chat: the task is created.
Create(r, t) ==
    /\ req[r].pc = "idle" /\ status[t] = "missing"
    /\ Set(t, "pending")
    /\ req' = [req EXCEPT ![r] = [NoRequest EXCEPT !.pc = "created", !.task = {t}]]
    /\ UNCHANGED <<grants, executions, stopped>>

\* The chat router answers, or the message is blocked before any model sees it.
Answer(r, t, s) ==
    /\ At(r, "created", t) /\ s \in {"completed", "failed", "blocked"}
    /\ Set(t, s) /\ Goto(r, "done")
    /\ UNCHANGED <<grants, executions, stopped>>

Classify(r, t) ==
    /\ At(r, "created", t)
    /\ Set(t, "planning") /\ Goto(r, "planning")
    /\ UNCHANGED <<grants, executions, stopped>>

\* A query is answered; or the intent, the user or the plan is blocked; or the
\* plan waits for its approval.
Plan(r, t, s) ==
    /\ At(r, "planning", t) /\ s \in {"completed", "blocked", "awaiting_approval"}
    /\ Set(t, s) /\ Goto(r, "done")
    /\ UNCHANGED <<grants, executions, stopped>>

\* The plan needs no approval: it is executed at once, and the task is approved
\* meanwhile, not executing.
PlanLowRisk(r, t, n) ==
    /\ At(r, "planning", t)
    /\ Set(t, "approved")
    /\ req' = [req EXCEPT ![r] = [NoRequest EXCEPT !.pc = "running", !.task = {t}, !.left = n]]
    /\ grants' = Plus(grants, t) /\ executions' = Plus(executions, t)
    /\ UNCHANGED stopped

-----------------------------------------------------------------------------
(* POST /v1/approvals/{task_id} *)

\* The request reads the task; it is refused unless the task waits for approval.
Read(r, t, d) ==
    /\ req[r].pc = "idle" /\ status[t] # "missing"
    /\ req' = [req EXCEPT ![r] = [NoRequest EXCEPT !.task = {t}, !.decision = d,
                  !.pc = IF status[t] = "awaiting_approval" THEN "deciding" ELSE "done"]]
    /\ UNCHANGED <<status, grants, executions, stopped>>

\* The commit of the decision, whatever the row has become since it was read.
Decide(r, t) ==
    /\ At(r, "deciding", t)
    /\ Set(t, req[r].decision) /\ Goto(r, "decided")
    /\ grants' = IF req[r].decision = "approved" THEN Plus(grants, t) ELSE grants
    /\ UNCHANGED <<executions, stopped>>

\* Mutant: the route executes whatever the decision was.
RefreshOnly(r, t) ==
    /\ At(r, "decided", t)
    /\ Goto(r, IF status[t] \in Decisions THEN "granted" ELSE "raised")
    /\ UNCHANGED <<status, grants, executions, stopped>>

\* The refresh after it.  execute_approved_task will look at what it read.
Refresh(r, t) ==
    /\ At(r, "decided", t)
    /\ Goto(r, IF req[r].decision = "rejected" THEN "done"
               ELSE IF status[t] = "approved" THEN "granted" ELSE "raised")
    /\ UNCHANGED <<status, grants, executions, stopped>>

Begin(r, t, n) ==
    /\ At(r, "granted", t)
    /\ Set(t, "executing")
    /\ req' = [req EXCEPT ![r].pc = "running", ![r].left = n]
    /\ executions' = Plus(executions, t)
    /\ UNCHANGED <<grants, stopped>>

-----------------------------------------------------------------------------
(* _execute_plan, of either request *)

\* A step is executed or skipped, and the loop goes on; or it fails or is
\* blocked, and ends the loop.
Step(r, t, good) ==
    /\ At(r, "running", t) /\ req[r].left > 0
    /\ req' = [req EXCEPT ![r].left = IF good THEN @ - 1 ELSE 0, ![r].good = good]
    /\ UNCHANGED <<status, grants, executions, stopped>>

\* Mutants: a failed plan is not finished, or its result is not stored.
FinishLater(r, t) ==
    /\ At(r, "running", t) /\ req[r].left = 0 /\ req[r].good
    /\ Set(t, "completed") /\ Goto(r, "done")
    /\ UNCHANGED <<grants, executions, stopped>>
FinishGood(r, t) ==
    /\ At(r, "running", t) /\ req[r].left = 0
    /\ IF req[r].good THEN Set(t, "completed") ELSE UNCHANGED status
    /\ Goto(r, "done")
    /\ UNCHANGED <<grants, executions, stopped>>

Finish(r, t) ==
    /\ At(r, "running", t) /\ req[r].left = 0
    /\ Set(t, IF req[r].good THEN "completed" ELSE "failed")
    /\ Goto(r, "done")
    /\ UNCHANGED <<grants, executions, stopped>>

-----------------------------------------------------------------------------
(* Errors *)

\* A provider or an executor raises: the handler has a clause for it.
Raise(r) ==
    /\ req[r].pc \in InTry
    /\ Goto(r, "raised")
    /\ UNCHANGED <<status, grants, executions, stopped>>

\* ... in which set_error stores it, whatever the row has become.
SetError(r, t) ==
    /\ At(r, "raised", t)
    /\ Set(t, "failed") /\ Goto(r, "done")
    /\ UNCHANGED <<grants, executions, stopped>>

\* A statement raises.  The session then refuses every other one, those of
\* set_error too: the request ends and the row stays as it is.
Break(r) ==
    /\ DbFails /\ req[r].pc \in InFlight
    /\ Goto(r, "dead") /\ stopped' = TRUE
    /\ UNCHANGED <<status, grants, executions>>

\* The process dies and starts again.  Nothing looks for the tasks it was at.
Crash ==
    /\ \E r \in Requests : req[r].pc \in InFlight
    /\ req' = [r \in Requests |-> IF req[r].pc \in InFlight
                                  THEN [req[r] EXCEPT !.pc = "dead"] ELSE req[r]]
    /\ stopped' = TRUE
    /\ UNCHANGED <<status, grants, executions>>

Progress(r, t) ==
    \/ \E s \in Statuses : Answer(r, t, s) \/ Plan(r, t, s)
    \/ \E n \in 0..MaxSteps : PlanLowRisk(r, t, n) \/ Begin(r, t, n)
    \/ \E good \in BOOLEAN : Step(r, t, good)
    \/ Classify(r, t) \/ Decide(r, t) \/ Refresh(r, t) \/ Finish(r, t) \/ SetError(r, t)

Next ==
    \/ Crash
    \/ \E r \in Requests :
         \/ Raise(r) \/ Break(r)
         \/ \E t \in Tasks :
              \/ Create(r, t) \/ Progress(r, t)
              \/ \E d \in Decisions : Read(r, t, d)

\* Every awaited statement, provider call and step ends: the loop resumes the
\* handler.
Fairness == \A r \in Requests : WF_vars(\E t \in Tasks : Progress(r, t))

Spec == Init /\ [][Next]_vars /\ Fairness

-----------------------------------------------------------------------------
(* Properties *)

\* A plan is begun at most as often as its task was approved: never for a task
\* that is only rejected, and once when there was one approval, however the
\* requests that decide it interleave.
ExecutionsGranted == \A t \in Tasks : executions[t] <= grants[t]

\* As long as no session breaks and the process lives, a task that no request
\* is at waits for its approval or has ended: none is left planning, approved
\* or executing.
Handled(t) == \E r \in Requests : req[r].pc \in InFlight /\ t \in req[r].task
NothingStuck ==
    ~stopped => \A t \in Tasks :
        Handled(t) \/ status[t] \in Ended \cup {"missing", "awaiting_approval"}

\* Every request ends.
RequestsEnd == \A r \in Requests : req[r].pc \in InFlight ~> req[r].pc \in {"done", "dead"}

\* A plan that waited for a decision is begun only while the row of its task
\* says approved (a plan of low risk goes from planning to approved and begins
\* in one step).  The check that should ensure it reads the session's own copy.
BegunWhenApproved ==
    [][\A t \in Tasks : executions'[t] > executions[t] /\ status[t] # "planning" =>
         status[t] = "approved"]_vars
=============================================================================
