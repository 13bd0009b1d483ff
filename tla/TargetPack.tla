----------------------------- MODULE TargetPack -----------------------------
(***************************************************************************)
(* init of the target pack: a preview, which prints a plan, and an apply,  *)
(* which takes the hash of the plan that its caller approved and, holding  *)
(* the target exclusively, changes it only if the same plan comes out      *)
(* again (target_pack_apply_v2.py, target_pack_operation_v2.py and         *)
(* target_pack_install_v2.py of app/agent_review).                         *)
(*                                                                         *)
(* The pack ships one file, the target's profile, which init writes once   *)
(* and the target then owns, and a receipt, written last, that tells what  *)
(* the profile was.  A receipt names the receipt it replaced by its hash,  *)
(* so it is modelled as the sequence of the profiles it tells of, newest   *)
(* first, and the hash of a plan as the plan.  Owners edit the two files   *)
(* whenever they like: they know nothing of the lease.                     *)
(***************************************************************************)
EXTENDS TargetPackLease, Integers, Sequences

CONSTANTS Absent,      \* no profile
          Seed,        \* the profile that the pack ships
          Profiles,    \* the profiles an owner may write
          Invalid,     \* the ones that do not load, or name another repository
          MaxEdits     \* bound: the edits of the owners

ASSUME Contents == {Absent, Seed} \cap Profiles = {} /\ Absent # Seed
ASSUME InvalidProfiles == Invalid \subseteq Profiles
ASSUME MaxEditsNat == MaxEdits \in Nat

VARIABLES profile,    \* .aiops/target-profile.v2.yaml
          receipt,    \* .aiops/install-receipt.v2.json, <<>> when there is none
          job,        \* how far the call of init of each process is
          plan,       \* the plan that the caller of each process has approved
          edits,      \* the number of edits
          raced,      \* whether one happened under the present or last lease
          edited      \* whether one happened since the last answer not raced

fileVars == <<profile, receipt>>
historyVars == <<edits, raced, edited>>
vars == <<holds, fileVars, job, plan, historyVars>>

File == {Absent, Seed} \cup Profiles
Receipts == Seq({Seed} \cup Profiles)
Plans == [action : {"none", "write", "reconcile", "noop"}, installed : BOOLEAN,
          accepted : BOOLEAN, expected : Receipts]
NoPlan == [action |-> "none", installed |-> FALSE, accepted |-> FALSE, expected |-> <<>>]
NoJob == [at |-> "none", receipt |-> <<>>, absent |-> FALSE]
Steps == {"none", "preview", "load", "inspect", "observe", "write", "record", "done"}
Leased == {"load", "inspect", "observe", "write", "record", "done"}

\* A call holds the target exclusively from its first read to its answer.
TypeOK ==
    /\ profile \in File /\ receipt \in Receipts
    /\ job \in [Procs -> [at : Steps, receipt : Receipts, absent : BOOLEAN]]
    /\ plan \in [Procs -> Plans]
    /\ edits \in 0..MaxEdits /\ raced \in BOOLEAN /\ edited \in BOOLEAN
    /\ holds = [p \in Procs |-> IF job[p].at \in Leased THEN "exclusive" ELSE "none"]

Init ==
    /\ LeaseInit
    /\ profile \in {Absent} \cup Profiles /\ receipt = <<>>
    /\ job = [p \in Procs |-> NoJob]
    /\ plan = [p \in Procs |-> NoPlan]
    /\ edits = 0 /\ raced = FALSE /\ edited = FALSE

-----------------------------------------------------------------------------
(* compute_target_pack_operation_plan_v2, of receipt r and profile c       *)

\* It refuses a profile that is invalid, or one that is gone after the install.
Plannable(r, c) == c \notin Invalid /\ (c = Absent => r = <<>>)

ActionFor(r, c) ==
    IF c = Absent THEN "write" ELSE IF r # <<>> /\ r[1] = c THEN "noop" ELSE "reconcile"

\* Mutant: the receipt does not name the one before.
PlanWithoutLineage(r, c, accepted) ==
    [action |-> ActionFor(r, c), installed |-> r # <<>>, accepted |-> accepted,
     expected |-> IF ActionFor(r, c) = "noop" THEN r
                  ELSE <<IF c = Absent THEN Seed ELSE c>>]

PlanFor(r, c, accepted) ==
    [action |-> ActionFor(r, c), installed |-> r # <<>>, accepted |-> accepted,
     expected |-> IF ActionFor(r, c) = "noop" THEN r
                  ELSE <<IF c = Absent THEN Seed ELSE c>> \o r]

\* Mutant: nobody has to accept what the target has become.
AcceptedAnyhow(a) == TRUE

\* require_target_owned_reconciliation_acceptance_v2
Accepted(a) == a.action = "reconcile" => a.accepted

-----------------------------------------------------------------------------
(* A preview, which takes no lease                                         *)

PreviewReceipt(p) ==
    /\ job[p].at = "none"
    /\ job' = [job EXCEPT ![p].at = "preview", ![p].receipt = receipt]
    /\ UNCHANGED <<holds, fileVars, plan, historyVars>>

PreviewProfile(p) ==
    /\ job[p].at = "preview"
    /\ IF Plannable(job[p].receipt, profile)
       THEN \E a \in BOOLEAN : plan' = [plan EXCEPT ![p] = PlanFor(job[p].receipt, profile, a)]
       ELSE UNCHANGED plan
    /\ job' = [job EXCEPT ![p] = NoJob]
    /\ UNCHANGED <<holds, fileVars, historyVars>>

-----------------------------------------------------------------------------
(* apply_authorized_target_pack_init_v2                                    *)

GoOn(p, there) == job' = [job EXCEPT ![p].at = there]
End(p) == job' = [job EXCEPT ![p] = NoJob]

\* A call that is refused the lease changes nothing.
Start(p) ==
    /\ job[p].at = "none" /\ plan[p] # NoPlan
    /\ Acquire(p, "exclusive") /\ GoOn(p, "load")
    /\ raced' = FALSE
    /\ UNCHANGED <<fileVars, plan, edits, edited>>

LoadReceipt(p) ==
    /\ job[p].at = "load"
    /\ job' = [job EXCEPT ![p].at = "inspect", ![p].receipt = receipt]
    /\ UNCHANGED <<holds, fileVars, plan, historyVars>>

\* compute_install_plan_v2 looks for the profile before the operation reads it.
Inspect(p) ==
    /\ job[p].at = "inspect"
    /\ job' = [job EXCEPT ![p].at = "observe", ![p].absent = (profile = Absent)]
    /\ UNCHANGED <<holds, fileVars, plan, historyVars>>

\* Mutant: the plan that was approved is not compared.
Agrees(p) == Plannable(job[p].receipt, profile) /\ Accepted(plan[p])

Authorized(p) ==
    /\ Plannable(job[p].receipt, profile)
    /\ PlanFor(job[p].receipt, profile, plan[p].accepted) = plan[p]
    /\ Accepted(plan[p])

\* Mutant: a plan that is refused keeps the lease.
DecideOnly(p) ==
    /\ job[p].at = "observe"
    /\ IF Authorized(p) THEN GoOn(p, "write") ELSE End(p)
    /\ UNCHANGED <<holds, fileVars, plan, historyVars>>

Decide(p) ==
    /\ job[p].at = "observe"
    /\ IF Authorized(p) THEN GoOn(p, "write") /\ UNCHANGED holds
       ELSE End(p) /\ Release(p)
    /\ UNCHANGED <<fileVars, plan, historyVars>>

\* Mutant: the profile is written whenever the operation changes anything.
WriteAnyhow(p) ==
    /\ job[p].at = "write" /\ GoOn(p, "record")
    /\ profile' = IF plan[p].action # "noop" THEN Seed ELSE profile
    /\ UNCHANGED <<holds, receipt, plan, historyVars>>

\* apply_install_plan_v2: what is written replaces whatever is there by then.
Write(p) ==
    /\ job[p].at = "write" /\ GoOn(p, "record")
    /\ profile' = IF job[p].absent THEN Seed ELSE profile
    /\ UNCHANGED <<holds, receipt, plan, historyVars>>

\* write_receipt_v2, if the plan changes anything, and the answer.
Record(p) ==
    /\ job[p].at = "record" /\ GoOn(p, "done")
    /\ receipt' = IF plan[p].action = "noop" THEN receipt ELSE plan[p].expected
    /\ edited' = (edited /\ raced)
    /\ UNCHANGED <<holds, profile, plan, edits, raced>>

Finish(p) ==
    /\ job[p].at = "done" /\ Release(p) /\ End(p)
    /\ UNCHANGED <<fileVars, plan, historyVars>>

\* An operation raises or the process dies: nothing is undone, and the lease is
\* given back.
Stop(p) ==
    /\ job[p].at \notin {"none", "done"} /\ End(p)
    /\ IF job[p].at \in Leased THEN Release(p) ELSE UNCHANGED holds
    /\ UNCHANGED <<fileVars, plan, historyVars>>

-----------------------------------------------------------------------------
\* An owner writes or removes the profile, or takes the receipt back to an
\* earlier one or to none.
Edit ==
    /\ edits < MaxEdits /\ edits' = edits + 1
    /\ \/ UNCHANGED receipt /\ profile' \in ({Absent} \cup Profiles) \ {profile}
       \/ UNCHANGED profile /\ receipt # <<>> /\ receipt' \in {<<>>, Tail(receipt)}
    /\ raced' = TRUE /\ edited' = TRUE
    /\ UNCHANGED <<holds, job, plan>>

Next ==
    \/ \E p \in Procs : \/ PreviewReceipt(p) \/ PreviewProfile(p)
                        \/ Start(p) \/ LoadReceipt(p) \/ Inspect(p) \/ Decide(p)
                        \/ Write(p) \/ Record(p) \/ Finish(p) \/ Stop(p)
    \/ Edit

Spec == Init /\ [][Next]_vars

-----------------------------------------------------------------------------
(* Properties.  An edit that races with the holder of the lease is outside *)
(* what the lease protects, as the target pack's document says.            *)

ByOwner == edits' # edits

\* Only its owner changes a profile that is there.
NeverOverwritten ==
    [][profile' # profile => ByOwner \/ raced \/ profile = Absent]_vars

\* A new receipt names the one it replaces: no install is lost from the history
\* of the target, whichever calls overlap or break off.
LineageKept ==
    [][receipt' # receipt => ByOwner \/ raced \/ Tail(receipt') = receipt]_vars

\* If no owner has touched the files since, the receipt tells what the profile is.
Described == receipt # <<>> /\ ~edited => receipt[1] = profile

\* A call that ends well leaves the target as its caller approved it, and has
\* adopted only what the caller named.
AnswersTrue ==
    \A p \in Procs :
        job[p].at = "done" /\ ~raced =>
            /\ receipt = plan[p].expected /\ receipt[1] = profile
            /\ plan[p].accepted \/ plan[p].action # "reconcile"
=============================================================================
