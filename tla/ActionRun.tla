----------------------------- MODULE ActionRun -----------------------------
(***************************************************************************)
(* The approval and run endpoints of app/agent_router/main.py, on top of   *)
(* the approval store, the audit log, the run store and the runner.        *)
(*                                                                         *)
(* One asyncio loop serves every request and the stores are synchronous: a *)
(* handler is one step, except run_actions, which awaits each action it    *)
(* executes; other handlers run meanwhile.  A write works, fails without   *)
(* effect, fails after its effect, or leaves a part of its line, and then  *)
(* the next line of that file goes on where it stopped, so that neither    *)
(* can be read.  A handler that fails stops where it is.  A process that   *)
(* dies inside a handler leaves what a failure at that point leaves, and   *)
(* then Crash ends the runs in flight.                                     *)
(* The approvals are in the file of ApprovalFile, whose retention limit is *)
(* not reached here; the rotation of the audit log is in AuditLog.         *)
(***************************************************************************)
EXTENDS Integers, FiniteSets, Sequences, Functions

CONSTANTS Approvals, Runs,   \* the ids uuid4 hands out
          MaxActions,        \* bound: executable action_ids in a request
          MaxRecords,        \* settings.run_store_max_records
          Modes,             \* the deployments to consider
          Used(_)            \* bound: the ids that are asked for in such a deployment

ASSUME ApprovalsFinite == IsFiniteSet(Approvals)
ASSUME MaxActionsPos == MaxActions \in Nat \ {0}
ASSUME MaxRecordsPos == MaxRecords \in Nat \ {0}

VARIABLES mode,        \* what is true of this deployment, for good
          file,        \* the approval store
          lost,        \* the approvals of which a snapshot cannot be read (a ghost)
          overdue,     \* the approvals whose expires_at has passed
          noted,       \* the outcomes of each approval that the audit log shows
          trail,       \* the events about each run that the audit log took
          logCut,      \* whether the audit log ends in an unfinished line
          run,         \* the state of each call of run_actions
          records,     \* the run store: the records of runs, oldest first
          historyCut   \* whether the run store ends in an unfinished line

approvalVars == <<file, lost, overdue, noted>>
runVars == <<trail, run, records, historyCut>>
vars == <<mode, file, lost, overdue, noted, trail, logCut, run, records, historyCut>>

File == INSTANCE ApprovalFile WITH MaxRecords <- 0

\* The status of each approval, as _load_latest reads it.
status == file.seen

\* settings.audit_log_required, and what may fail here: the writes of the audit
\* log, those of the stores, and execute_action, which may raise; and whether the
\* disk may keep a part of a write that fails.
AuditRequired == "required" \in mode
AuditFails == "audit" \in mode
StoreFails == "stores" \in mode
ActionsRaise == "actions" \in mode
KeepsParts == "parts" \in mode

Statuses == {"missing", "pending", "approved", "rejected", "expired"}
Decisions == {"approved", "rejected"}
Outcomes == {"approved", "rejected", "expired"}
RunEvents == {"requested", "blocked", "started", "completed", "failed"}
Phases == {"unused", "executing", "answered", "error", "lost"}
Calls == [pc : Phases, approval : SUBSET Approvals, todo : 0..MaxActions,
          ok : 0..MaxActions, bad : 0..MaxActions]
NoRun == [pc |-> "unused", approval |-> {}, todo |-> 0, ok |-> 0, bad |-> 0]
Call(pc, a, n) == [pc |-> pc, approval |-> {a}, todo |-> n, ok |-> 0, bad |-> 0]

TypeOK ==
    /\ mode \in Modes
    /\ file \in File!Files
    /\ lost \subseteq Approvals
    /\ overdue \subseteq Approvals
    /\ noted \in [Approvals -> SUBSET Outcomes]
    /\ trail \in [Runs -> SUBSET RunEvents]
    /\ logCut \in BOOLEAN
    /\ run \in [Runs -> Calls]
    /\ records \in Seq(Runs)
    /\ historyCut \in BOOLEAN

Init ==
    /\ mode \in Modes
    /\ file = File!EmptyFile
    /\ lost = {}
    /\ overdue = {}
    /\ noted = [a \in Approvals |-> {}]
    /\ trail = [r \in Runs |-> {}]
    /\ logCut = FALSE
    /\ run = [r \in Runs |-> NoRun]
    /\ records = <<>>
    /\ historyCut = FALSE

-----------------------------------------------------------------------------
(* The calls the handlers make. *)

\* What the disk may do to a snapshot.  "ok" is the only one that does not raise;
\* an "unread" one is on the file although the call raised, an "open" one too,
\* without its newline.
StoreOutcomes ==
    {"ok"} \cup (IF StoreFails THEN {"none", "unread"} ELSE {})
           \cup (IF StoreFails /\ KeepsParts THEN {"torn", "open"} ELSE {})

\* _persist_snapshot of a with status s.  When to compact is not asked here, and
\* so the times of creation do not matter.
Persisted(f, a, s, o) == File!Persist(f, a, s, [b \in Approvals |-> 0], o)

\* The approvals a write leaves with a snapshot that cannot be read: its own and
\* the unfinished one that it continues.
Swallowed(f, a, o) ==
    IF f.tail = "clean" \/ o = "none" THEN {}
    ELSE {a} \cup {b \in Approvals : f.seen[b] # f.lines[b]}

Put(a, s, o) ==
    /\ file' = Persisted(file, a, s, o)
    /\ lost' = lost \cup Swallowed(file, a, o)

\* write_audit_event for each event of the sequence s, one after the other: the
\* events the log has then (told), those that continue an unfinished line, so
\* that the log took them but cannot show them (unread), whether all were taken,
\* and whether the log now ends in an unfinished line.  When the log is required
\* the first failure ends the handler.  The events whose line is not finished are
\* not counted, even if only the newline is missing.
Audits(s) ==
    LET Fates == {f \in [0..Len(s) -> {"ok", "none", "part"}] :
                    /\ f[0] = IF logCut THEN "part" ELSE "none"
                    /\ \A i \in 1..Len(s) : /\ f[i] # "ok" => AuditFails
                                            /\ f[i] = "part" => KeepsParts
                    /\ AuditRequired =>
                         \A i, j \in 1..Len(s) : i < j /\ f[i] # "ok" => f[j] = "none"}
        \* Before event i the log ends in an unfinished line.
        Cut(f, i) == \E j \in 0..i - 1 :
                        f[j] = "part" /\ \A k \in j + 1..i - 1 : f[k] = "none"
        Taken(f, cut) == {s[i] : i \in {i \in 1..Len(s) : f[i] = "ok" /\ Cut(f, i) = cut}}
    IN  {[told |-> Taken(f, FALSE), unread |-> Taken(f, TRUE),
          all |-> \A i \in 1..Len(s) : f[i] = "ok", cut |-> Cut(f, Len(s) + 1)] : f \in Fates}
Passes(w) == AuditRequired => w.all

\* The handler audits one event about an approval, and ends.
Notes(a, e) ==
    \E w \in Audits(<<e>>) :
        /\ noted' = [noted EXCEPT ![a] = @ \cup (w.told \cap Outcomes)]
        /\ logCut' = w.cut

\* The handler audits the events s about run r.
Trails(r, w) ==
    /\ trail' = [trail EXCEPT ![r] = @ \cup ((w.told \cup w.unread) \cap RunEvents)]
    /\ logCut' = w.cut

TrimToo(s) ==   \* a mutant of Trim: one record too many is dropped
    IF Len(s) > MaxRecords THEN SubSeq(s, Len(s) - MaxRecords + 2, Len(s)) ELSE s
Trim(s) == IF Len(s) > MaxRecords THEN SubSeq(s, Len(s) - MaxRecords + 1, Len(s)) ELSE s

\* append_run, whose failure, in the append or in the compaction after it, only
\* adds a warning.  A record that continues an unfinished line cannot be read.
Recorded(r) ==
    LET longer == IF historyCut THEN records ELSE Append(records, r)
    IN  {[records |-> Trim(longer), cut |-> FALSE]}
        \cup (IF ~StoreFails THEN {}
              ELSE {[records |-> records, cut |-> historyCut],
                    [records |-> longer, cut |-> FALSE]})
        \cup (IF ~StoreFails \/ ~KeepsParts THEN {}
              ELSE {[records |-> records, cut |-> TRUE]})
Records(r) ==
    \E h \in Recorded(r) : records' = h.records /\ historyCut' = h.cut

\* resolve_approval finds it pending and overdue.
Due(a) == status[a] = "pending" /\ a \in overdue
DuePending == {a \in Approvals : Due(a)}

-----------------------------------------------------------------------------
(* The approval endpoints. *)

\* request_approval.  A new id is not one of a snapshot that cannot be read.
RequestApproval(a, o) ==
    /\ status[a] = "missing" /\ a \notin lost /\ a \in Used(mode)
    /\ Put(a, "pending", o)
    /\ IF o = "ok" THEN Notes(a, "requested") ELSE UNCHANGED <<noted, logCut>>
    /\ UNCHANGED <<overdue, runVars>>

\* Time passes an approval's expires_at.
Lapse(a) ==
    /\ status[a] # "missing" /\ a \notin overdue
    /\ overdue' = overdue \cup {a}
    /\ UNCHANGED <<file, lost, noted, logCut, runVars>>

\* The file once expire_pending_approvals has written the expiry of each of S, in
\* the file's order, which is not kept here: first is the one that continues an
\* unfinished line.
Swept(S, first) ==
    LET kept == IF file.tail = "clean" THEN S ELSE S \ {first}
        l == [a \in Approvals |-> IF a \in kept THEN "expired" ELSE file.lines[a]]
    IN  IF S = {} THEN file ELSE [file EXCEPT !.lines = l, !.seen = l, !.tail = "clean"]
SweepLoses(S, first) == IF S = {} THEN {} ELSE Swallowed(file, first, "ok")

Orders(S) == {q \in [1..Cardinality(S) -> S] : Range(q) = S}

\* A mutant of ListAll: only the approvals read one by one are audited.
ListSilently(first) ==
    /\ file' = Swept(DuePending, first)
    /\ lost' = lost \cup SweepLoses(DuePending, first)
    /\ UNCHANGED <<noted, logCut>>

\* list_approvals_endpoint: expire_pending_approvals persists them all, and then
\* each is audited.
ListAll(first) ==
    /\ file' = Swept(DuePending, first)
    /\ lost' = lost \cup SweepLoses(DuePending, first)
    /\ \E q \in Orders(DuePending) : \E w \in Audits(q) :
          /\ noted' = [a \in Approvals |->
                         IF a \in w.told THEN noted[a] \cup {"expired"} ELSE noted[a]]
          /\ logCut' = w.cut

\* The same, but after S the write of the expiry of a raises, and nothing is
\* audited.
ListBreaks(S, first, a, o) ==
    /\ o # "ok"
    /\ file' = Persisted(Swept(S, first), a, "expired", o)
    /\ lost' = lost \cup SweepLoses(S, first) \cup Swallowed(Swept(S, first), a, o)
    /\ UNCHANGED <<noted, logCut>>

List ==
    /\ \E first \in DuePending :
          \/ ListAll(first)
          \/ \E S \in SUBSET DuePending, o \in StoreOutcomes : \E a \in DuePending \ S :
                /\ S # {} => first \in S
                /\ ListBreaks(S, first, a, o)
    /\ UNCHANGED <<overdue, runVars>>

\* get_approval_by_id, and the start of approve_request and reject_request,
\* of an approval that is pending and overdue; the two decisions also end here
\* when it is expired already, having persisted and audited that once more.
ReadOverdue(a, o) ==
    /\ Due(a) \/ status[a] = "expired"
    /\ Put(a, "expired", o)
    /\ IF o = "ok" THEN Notes(a, "expired") ELSE UNCHANGED <<noted, logCut>>
    /\ UNCHANGED <<overdue, runVars>>

\* A mutant of Decide: the event is written before the decision is stored.
DecideAuditedFirst(a, d, o) ==
    /\ status[a] = "pending" /\ a \notin overdue
    /\ Put(a, d, o)
    /\ Notes(a, d)
    /\ UNCHANGED <<overdue, runVars>>

\* approve_request and reject_request
Decide(a, d, o) ==
    /\ status[a] = "pending" /\ a \notin overdue
    /\ Put(a, d, o)
    /\ IF o = "ok" THEN Notes(a, d) ELSE UNCHANGED <<noted, logCut>>
    /\ UNCHANGED <<overdue, runVars>>

-----------------------------------------------------------------------------
(* run_actions.  A request names an approval, may be for another target than
   the approval, and has n action_ids that the gate lets through and possibly
   others that it blocks. *)

NewRun(r) == run[r].pc = "unused" /\ r \in Used(mode)

\* resolve_approval raises: nothing catches it, and nothing is audited.
RunUnresolved(r, a, o) ==
    /\ NewRun(r) /\ Due(a) /\ o # "ok"
    /\ Put(a, "expired", o)
    /\ run' = [run EXCEPT ![r] = Call("error", a, 0)]
    /\ UNCHANGED <<overdue, noted, trail, logCut, records, historyCut>>

\* The approval after resolve_approval, and whether the run may go on.
Resolved(a) == IF Due(a) THEN "expired" ELSE status[a]
BlocksUndecided(a, sameTarget, blockedSteps) ==   \* a mutant of Blocks
    Resolved(a) \in {"rejected", "expired"} \/ ~sameTarget \/ blockedSteps
Blocks(a, sameTarget, blockedSteps) ==
    Resolved(a) # "approved" \/ ~sameTarget \/ blockedSteps

\* The request is blocked.  An expired approval is audited as expired between
\* the two events of the run.
RunBlocked(r, a, sameTarget, blockedSteps) ==
    /\ NewRun(r) /\ status[a] # "missing"
    /\ Blocks(a, sameTarget, blockedSteps)
    /\ IF Due(a) THEN Put(a, "expired", "ok") ELSE UNCHANGED <<file, lost>>
    /\ LET events == IF Resolved(a) = "expired" THEN <<"requested", "expired", "blocked">>
                     ELSE <<"requested", "blocked">>
       IN  \E w \in Audits(events) :
             /\ Trails(r, w)
             /\ noted' = [noted EXCEPT ![a] = @ \cup (w.told \cap {"expired"})]
             /\ IF Passes(w)
                THEN Records(r) /\ run' = [run EXCEPT ![r] = Call("answered", a, 0)]
                ELSE /\ UNCHANGED <<records, historyCut>>
                     /\ run' = [run EXCEPT ![r] = Call("error", a, 0)]
    /\ UNCHANGED overdue

\* The request is accepted, and the handler awaits its first action.
RunStarted(r, a, n) ==
    /\ NewRun(r)
    /\ ~Blocks(a, TRUE, FALSE)
    /\ \E w \in Audits(<<"requested", "started">>) :
          /\ Trails(r, w)
          /\ run' = [run EXCEPT ![r] = IF Passes(w) THEN Call("executing", a, n)
                                       ELSE Call("error", a, 0)]
    /\ UNCHANGED <<approvalVars, records, historyCut>>

\* The status of a run from the numbers of its results.
FinalStatus(ok, bad) ==
    IF bad = 0 THEN "ok" ELSE IF ok > 0 THEN "partial" ELSE "failed"
FinalEvent(s) == IF s = "failed" THEN "failed" ELSE "completed"

\* Mutants of Finish: it forgets the event, it records the run whether or not
\* the event was written, and it ends only a run without a failed action.
FinishForgets(r, next) ==
    /\ run' = [run EXCEPT ![r] = [next EXCEPT !.pc = "answered"]]
    /\ UNCHANGED <<trail, logCut, records, historyCut>>
FinishRecords(r, next) ==
    \E w \in Audits(<<FinalEvent(FinalStatus(next.ok, next.bad))>>) :
        /\ Trails(r, w)
        /\ Records(r)
        /\ run' = [run EXCEPT ![r] = [next EXCEPT !.pc = "answered"]]
FinishUntilOk(r, next) ==
    /\ UNCHANGED <<logCut, records, historyCut>>
    /\ IF next.bad > 0 THEN UNCHANGED <<run, trail>>
       ELSE /\ trail' = [trail EXCEPT ![r] = @ \cup {"completed"}]
            /\ run' = [run EXCEPT ![r] = [next EXCEPT !.pc = "answered"]]

\* The handler audits the outcome of a run and records it.
Finish(r, next) ==
    \E w \in Audits(<<FinalEvent(FinalStatus(next.ok, next.bad))>>) :
        /\ Trails(r, w)
        /\ IF Passes(w)
           THEN Records(r) /\ run' = [run EXCEPT ![r] = [next EXCEPT !.pc = "answered"]]
           ELSE /\ UNCHANGED <<records, historyCut>>
                /\ run' = [run EXCEPT ![r] = [next EXCEPT !.pc = "error"]]

\* The run after one more result.
Counted(c, good) ==
    [pc |-> c.pc, approval |-> c.approval, todo |-> c.todo - 1,
     ok |-> c.ok + (IF good THEN 1 ELSE 0), bad |-> c.bad + (IF good THEN 0 ELSE 1)]
MoreToDo(c) == c.todo > 0

\* An action ends, well or not, and the handler awaits the next one or, after
\* the last, finishes the run.
Execute(r, good) ==
    /\ run[r].pc = "executing"
    /\ LET next == Counted(run[r], good)
       IN  IF MoreToDo(next)
           THEN /\ run' = [run EXCEPT ![r] = next]
                /\ UNCHANGED <<trail, logCut, records, historyCut>>
           ELSE Finish(r, next)
    /\ UNCHANGED approvalVars

\* execute_action raises, for instance because the repository root is gone,
\* and nothing in run_actions catches it.
ExecuteRaises(r) ==
    /\ ActionsRaise /\ run[r].pc = "executing"
    /\ run' = [run EXCEPT ![r].pc = "error"]
    /\ UNCHANGED <<approvalVars, trail, logCut, records, historyCut>>

\* The process dies and starts again: the files stay, the calls do not.
Crash ==
    /\ \E r \in Runs : run[r].pc = "executing"
    /\ run' = [r \in Runs |-> IF run[r].pc = "executing" THEN [run[r] EXCEPT !.pc = "lost"]
                              ELSE run[r]]
    /\ UNCHANGED <<approvalVars, trail, logCut, records, historyCut>>

Step ==
    \/ List \/ Crash
    \/ \E a \in Approvals, o \in StoreOutcomes :
         \/ RequestApproval(a, o) \/ ReadOverdue(a, o)
         \/ \E d \in Decisions : Decide(a, d, o)
         \/ \E r \in Runs : RunUnresolved(r, a, o)
    \/ \E a \in Approvals : Lapse(a)
    \/ \E r \in Runs, a \in Approvals :
         \/ \E sameTarget, blockedSteps \in BOOLEAN : RunBlocked(r, a, sameTarget, blockedSteps)
         \/ \E n \in 1..MaxActions : RunStarted(r, a, n)
    \/ \E r \in Runs : ExecuteRaises(r) \/ \E good \in BOOLEAN : Execute(r, good)

Next == Step /\ UNCHANGED mode

\* The loop resumes a handler when the action it awaits ends, and every action
\* ends: requests and processes have timeouts.
Fairness ==
    \A r \in Runs : WF_vars(\E good \in BOOLEAN : Execute(r, good) /\ UNCHANGED mode)

Spec == Init /\ [][Next]_vars /\ Fairness

-----------------------------------------------------------------------------
(* Properties. *)

Executed(r) == run[r].pc = "executing" \/ run[r].ok + run[r].bad > 0
Finals == {"completed", "failed", "blocked"}

\* Nothing is executed but for an approval that the store holds as approved, unless
\* an unfinished line swallowed a snapshot of it; and, when the audit log is required,
\* nothing before the log took that the run was requested and started, whatever else
\* fails and whoever decides meanwhile.
ExecutedUnderApproval ==
    \A r \in Runs : Executed(r) =>
        /\ \A a \in run[r].approval \ lost : status[a] = "approved"
        /\ AuditRequired => {"requested", "started"} \subseteq trail[r]

\* The audit log never tells of an outcome other than the one in the store: not of two
\* outcomes of one approval, nor of one that was not persisted; except of an approval
\* of which an unfinished line, its own or another's, swallowed a snapshot.
NotedAgrees == \A a \in Approvals \ lost : noted[a] \subseteq {status[a]}

\* When the audit log is required, of a run that is in the history the log took
\* the beginning and the end.
RecordedIsAudited ==
    \A r \in Range(records) :
        /\ run[r].pc = "answered"
        /\ AuditRequired => "requested" \in trail[r] /\ trail[r] \cap Finals # {}

\* The history changes by one newer record at its end and by older ones that
\* leave its beginning, and these leave only a history that is full.
RecordsKept ==
    [][\E n \in 0..Len(records) :
          /\ Len(records') \in {Len(records) - n, Len(records) - n + 1}
          /\ SubSeq(records', 1, Len(records) - n) = SubSeq(records, n + 1, Len(records))
          /\ n > 0 => Len(records') >= MaxRecords]_records

\* No write fails.
Sound == ~AuditFails /\ ~StoreFails

\* Unless a write fails, every transition out of pending is in the audit log,
\* whichever of the five endpoints that can expire an approval or decide it has
\* made it.
TransitionsAudited ==
    Sound => \A a \in Approvals : status[a] \in Outcomes => status[a] \in noted[a]

\* Unless a write fails or an action raises, a run whose handler is over is in the
\* audit log from before and from after what it executed.
RunsAuditedAfter ==
    Sound /\ ~ActionsRaise => \A r \in Runs :
        Executed(r) /\ run[r].pc \in {"answered", "error"} =>
            "started" \in trail[r] /\ trail[r] \cap {"completed", "failed"} # {}

\* Every run that was started ends, with an answer, an error or its process.
RunsEnd == \A r \in Runs : run[r].pc = "executing" ~> run[r].pc # "executing"
=============================================================================
