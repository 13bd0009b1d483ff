------------------------ MODULE TaskLifecycle_proofs ------------------------
(***************************************************************************)
(* Proofs about the life cycle of tasks, for any tasks, any finite set of  *)
(* requests and plans of any length: no plan is begun without an approval  *)
(* of its own, no task is left half done while sessions and process live,  *)
(* and every request only comes closer to its end.                         *)
(***************************************************************************)
EXTENDS TaskLifecycle, FiniteSetTheorems, TLAPS

\* The requests whose approval was counted and not used yet.
Claims(t) == {r \in Requests : /\ req[r].task = {t} /\ req[r].decision = "approved"
                               /\ req[r].pc \in {"decided", "granted"}}
ClaimsCounted == \A t \in Tasks : executions[t] + Cardinality(Claims(t)) <= grants[t]
GrantedApproves == \A r \in Requests : req[r].pc = "granted" => req[r].decision = "approved"

\* The requests that will still set the status of a task, or raise.
Owns(r, t) == /\ req[r].task = {t}
              /\ \/ req[r].pc \in InTry \cup {"raised"}
                 \/ req[r].pc = "decided" /\ req[r].decision = "approved"
Settled == Ended \cup {"missing", "awaiting_approval"}
Owned == ~stopped => \A t \in Tasks : status[t] \in Settled \/ \E r \in Requests : Owns(r, t)

IInv == TypeOK /\ ClaimsCounted /\ GrantedApproves /\ Owned

Request == [pc : InFlight \cup {"idle", "done", "dead"}, task : SUBSET Tasks,
            decision : Decisions, left : 0..MaxSteps, good : BOOLEAN]

LEMMA NoRequestType == NoRequest \in Request /\ NoRequest.pc = "idle" /\ NoRequest.decision = "rejected"
  BY MaxStepsNat DEF NoRequest, Request, Decisions

LEMMA ClaimsFinite == \A t : IsFiniteSet(Claims(t)) /\ Cardinality(Claims(t)) \in Nat
  BY RequestsFinite, FS_Subset, FS_CardinalityType DEF Claims

\* A step that gives no approval keeps the count, if no request gains a claim.
LEMMA ClaimsShrink ==
    ASSUME TypeOK, ClaimsCounted, UNCHANGED <<grants, executions>>,
           \A t \in Tasks : Claims(t)' \subseteq Claims(t)
    PROVE  ClaimsCounted'
  <1> SUFFICES ASSUME NEW t \in Tasks
               PROVE  executions'[t] + Cardinality(Claims(t)') <= grants'[t]
    BY DEF ClaimsCounted
  <1>1. /\ Cardinality(Claims(t)') <= Cardinality(Claims(t))
        /\ Cardinality(Claims(t)') \in Nat /\ Cardinality(Claims(t)) \in Nat
    BY ClaimsFinite, FS_Subset, FS_CardinalityType
  <1> QED
    BY <1>1 DEF ClaimsCounted, TypeOK

LEMMA InitIInv == Init => IInv
  <1> SUFFICES ASSUME Init PROVE IInv
    OBVIOUS
  <1>1. TypeOK
    BY NoRequestType DEF Init, TypeOK, Request, Statuses
  <1>2. \A t \in Tasks : Claims(t) = {}
    BY NoRequestType DEF Init, Claims
  <1>3. ClaimsCounted
    BY <1>2, FS_EmptySet DEF Init, ClaimsCounted
  <1>4. GrantedApproves /\ Owned
    BY NoRequestType DEF Init, GrantedApproves, Owned, Settled
  <1> QED
    BY <1>1, <1>3, <1>4 DEF IInv

-----------------------------------------------------------------------------
(***************************************************************************)
(* What the actions have in common: one request changes, to the record q,  *)
(* and the row of its task, to the status s.                               *)
(***************************************************************************)
Changes(r, t, q, s) ==
    /\ req' = [req EXCEPT ![r] = q] /\ q \in Request /\ q.task = {t}
    /\ status' = [status EXCEPT ![t] = s] /\ s \in Statuses

LEMMA ChangesTypeOK ==
    ASSUME TypeOK, NEW r \in Requests, NEW t \in Tasks, NEW q, NEW s, Changes(r, t, q, s),
           grants' \in [Tasks -> Nat], executions' \in [Tasks -> Nat], stopped' \in BOOLEAN
    PROVE  TypeOK'
  BY DEF Changes, TypeOK, Request

\* The request keeps the task, or the task has come to rest.
LEMMA ChangesOwned ==
    ASSUME TypeOK, Owned, NEW r \in Requests, NEW t \in Tasks, NEW q, NEW s,
           Changes(r, t, q, s), stopped' = stopped, req[r].task = {t} \/ req[r].pc = "idle",
           \/ s \in Settled
           \/ q.pc \in InTry \cup {"raised"}
           \/ q.pc = "decided" /\ q.decision = "approved"
           \/ s = status[t] /\ ~Owns(r, t)
    PROVE  Owned'
  <1> SUFFICES ASSUME ~stopped, NEW u \in Tasks, status'[u] \notin Settled
               PROVE  \E p \in Requests : Owns(p, u)'
    BY DEF Owned
  <1>1. /\ req'[r] = q /\ \A p \in Requests \ {r} : req'[p] = req[p]
        /\ status'[t] = s /\ \A v \in Tasks \ {t} : status'[v] = status[v]
    BY DEF Changes, TypeOK
  <1>2. CASE u # t
    <2>1. PICK p \in Requests : Owns(p, u)
      BY <1>1, <1>2 DEF Owned
    <2>2. p # r
      BY <1>2, <2>1 DEF Owns, InTry
    <2> QED
      BY <1>1, <2>1, <2>2 DEF Owns
  <1>3. CASE u = t /\ ~(s = status[t] /\ ~Owns(r, t))
    BY <1>1, <1>3 DEF Owns, Changes
  <1>4. CASE u = t /\ s = status[t] /\ ~Owns(r, t)
    <2>1. PICK p \in Requests : Owns(p, t)
      BY <1>1, <1>4 DEF Owned
    <2>2. p # r
      BY <1>4, <2>1
    <2> QED
      BY <1>1, <1>4, <2>1, <2>2 DEF Owns
  <1> QED
    BY <1>2, <1>3, <1>4

\* The request changed gains no claim.
LEMMA ChangesClaims ==
    ASSUME TypeOK, NEW r \in Requests, NEW t \in Tasks, NEW q, NEW s, Changes(r, t, q, s),
           q.decision = "approved" /\ q.pc \in {"decided", "granted"} => r \in Claims(t)
    PROVE  \A u \in Tasks : Claims(u)' \subseteq Claims(u)
  <1>1. req'[r] = q /\ \A p \in Requests \ {r} : req'[p] = req[p]
    BY DEF Changes, TypeOK
  <1> SUFFICES ASSUME NEW u \in Tasks, NEW p \in Claims(u)' PROVE p \in Claims(u)
    OBVIOUS
  <1>2. CASE p = r
    BY <1>1, <1>2 DEF Claims, Changes
  <1>3. CASE p # r
    BY <1>1, <1>3 DEF Claims
  <1> QED
    BY <1>2, <1>3

-----------------------------------------------------------------------------
\* A request that goes on to pc, its row unchanged.
LEMMA GotoChanges ==
    ASSUME TypeOK, NEW r \in Requests, NEW t \in Tasks, req[r].task = {t}, status' = status,
           NEW pc \in InFlight \cup {"done", "dead"}, Goto(r, pc)
    PROVE  Changes(r, t, [req[r] EXCEPT !.pc = pc], status[t])
  <1>1. req[r] \in Request /\ req' = [req EXCEPT ![r] = [req[r] EXCEPT !.pc = pc]]
    BY DEF TypeOK, Request, Goto
  <1> QED
    BY <1>1 DEF Changes, TypeOK, Request

\* ... or set to s.
LEMMA SetChanges ==
    ASSUME TypeOK, NEW r \in Requests, NEW t \in Tasks, req[r].task = {t},
           NEW s \in Statuses, Set(t, s),
           NEW pc \in InFlight \cup {"done", "dead"}, Goto(r, pc)
    PROVE  Changes(r, t, [req[r] EXCEPT !.pc = pc], s)
  <1>1. req[r] \in Request /\ req' = [req EXCEPT ![r] = [req[r] EXCEPT !.pc = pc]]
    BY DEF TypeOK, Request, Goto
  <1> QED
    BY <1>1 DEF Changes, TypeOK, Request, Set

\* A step that neither approves nor begins, and gives no claim.
LEMMA QuietStep ==
    ASSUME IInv, NEW r \in Requests, NEW t \in Tasks, NEW q, NEW s, Changes(r, t, q, s),
           UNCHANGED <<grants, executions, stopped>>, req[r].task = {t} \/ req[r].pc = "idle",
           q.decision = "approved" /\ q.pc \in {"decided", "granted"} => r \in Claims(t),
           q.pc = "granted" => q.decision = "approved",
           \/ s \in Settled
           \/ q.pc \in InTry \cup {"raised"}
           \/ q.pc = "decided" /\ q.decision = "approved"
           \/ s = status[t] /\ ~Owns(r, t)
    PROVE  IInv'
  <1>1. TypeOK /\ ClaimsCounted /\ GrantedApproves /\ Owned
    BY DEF IInv
  <1>2. TypeOK'
    <2>1. /\ grants' \in [Tasks -> Nat] /\ executions' \in [Tasks -> Nat]
          /\ stopped' \in BOOLEAN
      BY <1>1 DEF TypeOK
    <2> QED
      BY <1>1, <2>1, ChangesTypeOK
  <1>3. ClaimsCounted'
    BY <1>1, ChangesClaims, ClaimsShrink
  <1>4. GrantedApproves'
    BY <1>1 DEF GrantedApproves, Changes, TypeOK
  <1>5. Owned'
    BY <1>1, ChangesOwned
  <1> QED
    BY <1>2, <1>3, <1>4, <1>5 DEF IInv

LEMMA CreateIInv == ASSUME IInv, NEW r \in Requests, NEW t \in Tasks, Create(r, t) PROVE IInv'
  <1> DEFINE q == [NoRequest EXCEPT !.pc = "created", !.task = {t}]
  <1>1. q \in Request /\ q.pc = "created" /\ q.task = {t}
    BY NoRequestType DEF Request, InFlight, InTry
  <1>2. Changes(r, t, q, "pending")
    BY <1>1 DEF Create, Changes, Set, Statuses
  <1> HIDE DEF q
  <1> QED
    BY <1>1, <1>2, QuietStep DEF Create, InTry

LEMMA ReadIInv ==
    ASSUME IInv, NEW r \in Requests, NEW t \in Tasks, NEW d \in Decisions, Read(r, t, d)
    PROVE  IInv'
  <1> DEFINE q == [NoRequest EXCEPT !.task = {t}, !.decision = d,
                      !.pc = IF status[t] = "awaiting_approval" THEN "deciding" ELSE "done"]
  <1>1. q \in Request /\ q.pc \in {"deciding", "done"} /\ q.task = {t}
    BY NoRequestType DEF Request, InFlight
  <1>2. Changes(r, t, q, status[t])
    BY <1>1 DEF Read, Changes, IInv, TypeOK
  <1>3. ~Owns(r, t)
    BY DEF Read, Owns, InTry
  <1> HIDE DEF q
  <1> QED
    BY <1>1, <1>2, <1>3, QuietStep DEF Read

\* The steps that only set the row, move the request on, or both.
LEMMA MovesIInv ==
    ASSUME IInv, NEW r \in Requests, NEW t \in Tasks, NEW s \in Statuses, NEW pc,
           req[r].task = {t}, Set(t, s) \/ (s = status[t] /\ status' = status), Goto(r, pc),
           UNCHANGED <<grants, executions, stopped>>,
           \/ pc = "done" /\ (s \in Settled \/ (s = status[t] /\ ~Owns(r, t)))
           \/ pc \in {"planning", "running", "raised"}
           \/ pc = "granted" /\ r \in Claims(t)
    PROVE  IInv'
  <1> DEFINE q == [req[r] EXCEPT !.pc = pc]
  <1>1. pc \in InFlight \cup {"done", "dead"} /\ TypeOK
    BY DEF InFlight, InTry, IInv
  <1>2. Changes(r, t, q, s)
    BY <1>1, GotoChanges, SetChanges
  <1>3. q.pc = pc /\ q.decision = req[r].decision
    BY <1>1 DEF TypeOK
  <1>4. pc = "granted" => req[r].decision = "approved"
    BY DEF Claims
  <1> HIDE DEF q
  <1> QED
    BY <1>2, <1>3, <1>4, QuietStep DEF InTry

\* ... and those that bring the task to rest.
LEMMA RestIInv ==
    ASSUME IInv, NEW r \in Requests, NEW t \in Tasks, NEW s \in Settled, req[r].task = {t},
           Set(t, s), Goto(r, "done"), UNCHANGED <<grants, executions, stopped>>
    PROVE  IInv'
  <1> DEFINE q == [req[r] EXCEPT !.pc = "done"]
  <1>1. s \in Statuses /\ "done" \in InFlight \cup {"done", "dead"} /\ TypeOK
    BY DEF Settled, Statuses, IInv
  <1>2. Changes(r, t, q, s)
    BY <1>1, SetChanges
  <1>3. q.pc = "done"
    BY <1>1 DEF TypeOK
  <1> HIDE DEF q
  <1> QED
    BY <1>2, <1>3, QuietStep

LEMMA StepIInv ==
    ASSUME IInv, NEW r \in Requests, NEW t \in Tasks, NEW good \in BOOLEAN, Step(r, t, good)
    PROVE  IInv'
  <1> DEFINE q == [req[r] EXCEPT !.left = IF good THEN @ - 1 ELSE 0, !.good = good]
  <1>1. /\ req[r] \in Request /\ req[r].pc = "running" /\ req[r].task = {t}
        /\ req[r].left > 0 /\ req' = [req EXCEPT ![r] = q]
    BY DEF Step, At, IInv, TypeOK, Request
  <1>2. (IF good THEN req[r].left - 1 ELSE 0) \in 0..MaxSteps
    BY <1>1, MaxStepsNat DEF Request
  <1>3. q \in Request /\ q.pc = "running" /\ q.task = {t}
    BY <1>1, <1>2 DEF Request
  <1>4. Changes(r, t, q, status[t])
    BY <1>1, <1>3 DEF Step, Changes, IInv, TypeOK
  <1> HIDE DEF q
  <1> QED
    BY <1>1, <1>3, <1>4, QuietStep DEF Step, InTry

-----------------------------------------------------------------------------
(* The steps that approve or begin *)

LEMMA PlanLowRiskIInv ==
    ASSUME IInv, NEW r \in Requests, NEW t \in Tasks, NEW n \in 0..MaxSteps,
           PlanLowRisk(r, t, n)
    PROVE  IInv'
  <1> DEFINE q == [NoRequest EXCEPT !.pc = "running", !.task = {t}, !.left = n]
  <1>1. q \in Request /\ q.pc = "running" /\ q.task = {t}
    BY NoRequestType DEF Request, InFlight, InTry
  <1>2. Changes(r, t, q, "approved") /\ req[r].task = {t} /\ stopped' = stopped
    BY <1>1 DEF PlanLowRisk, At, Changes, Set, Statuses
  <1> HIDE DEF q
  <1>3. TypeOK /\ ClaimsCounted /\ GrantedApproves /\ Owned
    BY DEF IInv
  <1>4. /\ grants' = [grants EXCEPT ![t] = @ + 1] /\ grants' \in [Tasks -> Nat]
        /\ executions' = [executions EXCEPT ![t] = @ + 1] /\ executions' \in [Tasks -> Nat]
    BY <1>3 DEF PlanLowRisk, Plus, TypeOK
  <1>5. TypeOK'
    BY <1>2, <1>3, <1>4, ChangesTypeOK DEF TypeOK
  <1>6. ClaimsCounted'
    <2> SUFFICES ASSUME NEW u \in Tasks
                 PROVE  executions'[u] + Cardinality(Claims(u)') <= grants'[u]
      BY DEF ClaimsCounted
    <2>1. Claims(u)' \subseteq Claims(u)
      BY <1>1, <1>2, <1>3, ChangesClaims
    <2>2. /\ Cardinality(Claims(u)') <= Cardinality(Claims(u))
          /\ Cardinality(Claims(u)') \in Nat /\ Cardinality(Claims(u)) \in Nat
      BY <2>1, ClaimsFinite, FS_Subset, FS_CardinalityType
    <2>3. executions[u] \in Nat /\ grants[u] \in Nat
          /\ executions[u] + Cardinality(Claims(u)) <= grants[u]
      BY <1>3 DEF ClaimsCounted, TypeOK
    <2>4. CASE u = t
      BY <1>3, <1>4, <2>2, <2>3, <2>4 DEF TypeOK
    <2>5. CASE u # t
      BY <1>3, <1>4, <2>2, <2>3, <2>5 DEF TypeOK
    <2> QED
      BY <2>4, <2>5
  <1>7. GrantedApproves' /\ Owned'
    BY <1>1, <1>2, <1>3, ChangesOwned DEF GrantedApproves, Changes, TypeOK, InTry
  <1> QED
    BY <1>5, <1>6, <1>7 DEF IInv

LEMMA DecideIInv ==
    ASSUME IInv, NEW r \in Requests, NEW t \in Tasks, Decide(r, t) PROVE IInv'
  <1> DEFINE q == [req[r] EXCEPT !.pc = "decided"]
  <1>1. TypeOK /\ ClaimsCounted /\ GrantedApproves /\ Owned
    BY DEF IInv
  <1>2. req[r].pc = "deciding" /\ req[r].task = {t} /\ req[r].decision \in Decisions
    BY <1>1 DEF Decide, At, TypeOK
  <1>3. Changes(r, t, q, req[r].decision) /\ q.pc = "decided" /\ q.decision = req[r].decision
    <2>1. "decided" \in InFlight /\ req[r].decision \in Statuses
      BY <1>2 DEF InFlight, Statuses, Ended, Decisions
    <2> QED
      BY <1>1, <1>2, <2>1, SetChanges DEF Decide, TypeOK
  <1> HIDE DEF q
  <1>4. CASE req[r].decision = "rejected"
    BY <1>2, <1>3, <1>4, QuietStep DEF Decide, Settled, Ended
  <1>5. CASE req[r].decision = "approved"
    <2>1. /\ grants' = [grants EXCEPT ![t] = @ + 1] /\ grants' \in [Tasks -> Nat]
          /\ executions' = executions /\ stopped' = stopped
      BY <1>1, <1>5 DEF Decide, Plus, TypeOK
    <2>2. TypeOK'
      BY <1>1, <1>3, <2>1, ChangesTypeOK DEF TypeOK
    <2>3. \A u \in Tasks : Claims(u)' \subseteq IF u = t THEN Claims(t) \cup {r} ELSE Claims(u)
      <3>1. req'[r] = q /\ \A p \in Requests \ {r} : req'[p] = req[p]
        BY <1>1, <1>3 DEF Changes, TypeOK
      <3> QED
        BY <1>3, <3>1 DEF Claims, Changes
    <2>4. ClaimsCounted'
      <3> SUFFICES ASSUME NEW u \in Tasks
                   PROVE  executions'[u] + Cardinality(Claims(u)') <= grants'[u]
        BY DEF ClaimsCounted
      <3>1. executions[u] \in Nat /\ grants[u] \in Nat
            /\ executions[u] + Cardinality(Claims(u)) <= grants[u]
        BY <1>1 DEF ClaimsCounted, TypeOK
      <3>2. CASE u # t
        <4>1. /\ Cardinality(Claims(u)') <= Cardinality(Claims(u))
              /\ Cardinality(Claims(u)') \in Nat /\ Cardinality(Claims(u)) \in Nat
          BY <2>3, <3>2, ClaimsFinite, FS_Subset, FS_CardinalityType
        <4> QED
          BY <1>1, <2>1, <3>1, <3>2, <4>1 DEF TypeOK
      <3>3. CASE u = t
        <4>1. IsFiniteSet(Claims(t)) /\ Cardinality(Claims(t)) \in Nat
          BY ClaimsFinite
        <4>2. /\ IsFiniteSet(Claims(t) \cup {r})
              /\ Cardinality(Claims(t) \cup {r}) \in Nat
              /\ Cardinality(Claims(t) \cup {r}) <= Cardinality(Claims(t)) + 1
          <5>1. /\ IsFiniteSet(Claims(t) \cup {r})
                /\ \/ Cardinality(Claims(t) \cup {r}) = Cardinality(Claims(t))
                   \/ Cardinality(Claims(t) \cup {r}) = Cardinality(Claims(t)) + 1
            BY <4>1, FS_AddElement
          <5> QED
            BY <4>1, <5>1
        <4>3. /\ Cardinality(Claims(t)') <= Cardinality(Claims(t) \cup {r})
              /\ Cardinality(Claims(t)') \in Nat
          BY <2>3, <4>2, FS_Subset, FS_CardinalityType
        <4> QED
          BY <1>1, <2>1, <3>1, <3>3, <4>1, <4>2, <4>3 DEF TypeOK
      <3> QED
        BY <3>2, <3>3
    <2>5. GrantedApproves' /\ Owned'
      BY <1>1, <1>2, <1>3, <1>5, <2>1, ChangesOwned DEF GrantedApproves, Changes, TypeOK
    <2> QED
      BY <2>2, <2>4, <2>5 DEF IInv
  <1> QED
    BY <1>2, <1>4, <1>5 DEF Decisions

LEMMA BeginIInv ==
    ASSUME IInv, NEW r \in Requests, NEW t \in Tasks, NEW n \in 0..MaxSteps, Begin(r, t, n)
    PROVE  IInv'
  <1> DEFINE q == [req[r] EXCEPT !.pc = "running", !.left = n]
  <1>1. TypeOK /\ ClaimsCounted /\ GrantedApproves /\ Owned
    BY DEF IInv
  <1>2. /\ req[r] \in Request /\ req[r].pc = "granted" /\ req[r].task = {t}
        /\ req[r].decision = "approved" /\ req' = [req EXCEPT ![r] = q]
        /\ stopped' = stopped
    BY <1>1 DEF Begin, At, TypeOK, Request, GrantedApproves
  <1>3. q \in Request /\ q.pc = "running" /\ q.task = {t}
    BY <1>2 DEF Request, InFlight, InTry
  <1>4. Changes(r, t, q, "executing")
    BY <1>2, <1>3 DEF Begin, Changes, Set, Statuses
  <1> HIDE DEF q
  <1>5. /\ executions' = [executions EXCEPT ![t] = @ + 1] /\ executions' \in [Tasks -> Nat]
        /\ grants' = grants
    BY <1>1 DEF Begin, Plus, TypeOK
  <1>6. TypeOK'
    BY <1>1, <1>2, <1>4, <1>5, ChangesTypeOK DEF TypeOK
  <1>7. /\ \A u \in Tasks : Claims(u)' \subseteq Claims(u)
        /\ r \in Claims(t) /\ r \notin Claims(t)'
    <2>1. req'[r] = q
      BY <1>1, <1>4 DEF Changes, TypeOK
    <2> QED
      BY <1>1, <1>2, <1>3, <1>4, <2>1, ChangesClaims DEF Claims
  <1>8. ClaimsCounted'
    <2> SUFFICES ASSUME NEW u \in Tasks
                 PROVE  executions'[u] + Cardinality(Claims(u)') <= grants'[u]
      BY DEF ClaimsCounted
    <2>1. executions[u] \in Nat /\ grants[u] \in Nat
          /\ executions[u] + Cardinality(Claims(u)) <= grants[u]
      BY <1>1 DEF ClaimsCounted, TypeOK
    <2>2. CASE u # t
      <3>1. /\ Cardinality(Claims(u)') <= Cardinality(Claims(u))
            /\ Cardinality(Claims(u)') \in Nat /\ Cardinality(Claims(u)) \in Nat
        BY <1>7, ClaimsFinite, FS_Subset, FS_CardinalityType
      <3> QED
        BY <1>1, <1>5, <2>1, <2>2, <3>1 DEF TypeOK
    <2>3. CASE u = t
      <3>1. IsFiniteSet(Claims(t)) /\ Cardinality(Claims(t)) \in Nat
        BY ClaimsFinite
      <3>2. /\ IsFiniteSet(Claims(t) \ {r})
            /\ Cardinality(Claims(t) \ {r}) = Cardinality(Claims(t)) - 1
        BY <1>7, <3>1, FS_RemoveElement
      <3>3. Claims(t)' \subseteq Claims(t) \ {r}
        BY <1>7
      <3>4. /\ Cardinality(Claims(t)') <= Cardinality(Claims(t) \ {r})
            /\ Cardinality(Claims(t)') \in Nat
        BY <3>2, <3>3, FS_Subset, FS_CardinalityType
      <3> QED
        BY <1>1, <1>5, <2>1, <2>3, <3>1, <3>2, <3>4 DEF TypeOK
    <2> QED
      BY <2>2, <2>3
  <1>9. GrantedApproves' /\ Owned'
    BY <1>1, <1>2, <1>3, <1>4, ChangesOwned DEF GrantedApproves, Changes, TypeOK, InTry
  <1> QED
    BY <1>6, <1>8, <1>9 DEF IInv

-----------------------------------------------------------------------------
(* The steps that end requests abruptly *)

LEMMA StoppedIInv ==
    ASSUME IInv, UNCHANGED <<status, grants, executions>>, stopped',
           req' \in [Requests -> Request],
           \A r \in Requests : req'[r] = req[r] \/ req'[r] = [req[r] EXCEPT !.pc = "dead"],
           \A r \in Requests : req'[r] # req[r] => req[r].pc # "idle"
    PROVE  IInv'
  <1>1. TypeOK /\ ClaimsCounted /\ GrantedApproves /\ req \in [Requests -> Request]
    BY DEF IInv, TypeOK, Request
  <1>2. \A r \in Requests : /\ req'[r].task = req[r].task /\ req'[r].decision = req[r].decision
                            /\ req'[r].pc = req[r].pc \/ req'[r].pc = "dead"
                            /\ req'[r].pc = "idle" <=> req[r].pc = "idle"
    <2> TAKE r \in Requests
    <2>1. /\ [req[r] EXCEPT !.pc = "dead"].pc = "dead"
          /\ [req[r] EXCEPT !.pc = "dead"].task = req[r].task
          /\ [req[r] EXCEPT !.pc = "dead"].decision = req[r].decision
      BY <1>1 DEF Request
    <2> QED
      BY <2>1
  <1>3. TypeOK'
    BY <1>1, <1>2 DEF TypeOK, Request
  <1>4. ClaimsCounted'
    <2>1. \A t \in Tasks : Claims(t)' \subseteq Claims(t)
      BY <1>2 DEF Claims
    <2> QED
      BY <1>1, <2>1, ClaimsShrink
  <1>5. GrantedApproves' /\ Owned'
    BY <1>1, <1>2 DEF GrantedApproves, Owned
  <1> QED
    BY <1>3, <1>4, <1>5 DEF IInv

LEMMA BreakIInv == ASSUME IInv, NEW r \in Requests, Break(r) PROVE IInv'
  <1>1. req \in [Requests -> Request] /\ req[r].pc # "idle" /\ stopped'
    BY DEF IInv, TypeOK, Request, Break, InFlight, InTry
  <1>2. req' = [req EXCEPT ![r] = [req[r] EXCEPT !.pc = "dead"]]
    BY <1>1 DEF Break, Goto
  <1>3. [req[r] EXCEPT !.pc = "dead"] \in Request
    BY <1>1 DEF Request
  <1> QED
    BY <1>1, <1>2, <1>3, StoppedIInv DEF Break

LEMMA CrashIInv == ASSUME IInv, Crash PROVE IInv'
  <1>1. req \in [Requests -> Request] /\ stopped'
        /\ req' = [r \in Requests |-> IF req[r].pc \in InFlight
                                      THEN [req[r] EXCEPT !.pc = "dead"] ELSE req[r]]
    BY DEF IInv, TypeOK, Request, Crash
  <1>2. \A r \in Requests : [req[r] EXCEPT !.pc = "dead"] \in Request
    BY <1>1 DEF Request
  <1>3. "idle" \notin InFlight
    BY DEF InFlight, InTry
  <1>4. req' \in [Requests -> Request]
    BY <1>1, <1>2
  <1> QED
    BY <1>1, <1>3, <1>4, StoppedIInv DEF Crash

LEMMA RaiseIInv == ASSUME IInv, NEW r \in Requests, Raise(r) PROVE IInv'
  <1>1. PICK t \in Tasks : req[r].task = {t}
    BY DEF IInv, TypeOK, Raise, InTry
  <1>2. status[t] \in Statuses
    BY DEF IInv, TypeOK
  <1> QED
    BY <1>1, <1>2, MovesIInv DEF Raise

-----------------------------------------------------------------------------
LEMMA ProgressIInv ==
    ASSUME IInv, NEW r \in Requests, NEW t \in Tasks, Progress(r, t) PROVE IInv'
  <1>1. "completed" \in Settled /\ "failed" \in Settled /\ "planning" \in Statuses
    BY DEF Settled, Ended, Statuses
  <1>2. status[t] \in Statuses /\ req[r].decision \in Decisions
    BY DEF IInv, TypeOK
  <1>3. ASSUME NEW s \in Statuses, Answer(r, t, s) \/ Plan(r, t, s) PROVE IInv'
    <2>1. /\ req[r].task = {t} /\ Set(t, s) /\ Goto(r, "done")
          /\ UNCHANGED <<grants, executions, stopped>>
      BY <1>3 DEF Answer, Plan, At
    <2>2. s \in Settled
      BY <1>3 DEF Answer, Plan, Settled, Ended
    <2> QED
      BY <2>1, <2>2, RestIInv
  <1>4. ASSUME NEW n \in 0..MaxSteps, PlanLowRisk(r, t, n) PROVE IInv'
    BY <1>4, PlanLowRiskIInv
  <1>5. ASSUME NEW n \in 0..MaxSteps, Begin(r, t, n) PROVE IInv'
    BY <1>5, BeginIInv
  <1>6. ASSUME NEW good \in BOOLEAN, Step(r, t, good) PROVE IInv'
    BY <1>6, StepIInv
  <1>7. CASE Classify(r, t)
    BY <1>1, <1>7, MovesIInv DEF Classify, At
  <1>8. CASE Decide(r, t)
    BY <1>8, DecideIInv
  <1>9. CASE Refresh(r, t)
    <2>1. req[r].pc = "decided" /\ req[r].task = {t} /\ status' = status
          /\ UNCHANGED <<grants, executions, stopped>>
      BY <1>9 DEF Refresh, At
    <2>2. CASE req[r].decision = "rejected"
      <3>1. Goto(r, "done") /\ ~Owns(r, t)
        BY <1>9, <2>1, <2>2 DEF Refresh, Owns, InTry
      <3> QED
        BY <1>2, <2>1, <3>1, MovesIInv
    <2>3. CASE req[r].decision # "rejected"
      <3>1. r \in Claims(t)
        BY <1>2, <2>1, <2>3 DEF Claims, Decisions
      <3>2. Goto(r, "granted") \/ Goto(r, "raised")
        BY <1>9, <2>3 DEF Refresh
      <3> QED
        BY <1>2, <2>1, <3>1, <3>2, MovesIInv
    <2> QED
      BY <2>2, <2>3
  <1>10. CASE Finish(r, t)
    <2>1. /\ req[r].task = {t}
          /\ Set(t, "completed") \/ Set(t, "failed")
          /\ Goto(r, "done") /\ UNCHANGED <<grants, executions, stopped>>
      BY <1>10 DEF Finish, At
    <2> QED
      BY <1>1, <2>1, RestIInv
  <1>11. CASE SetError(r, t)
    BY <1>1, <1>11, RestIInv DEF SetError, At
  <1> QED
    BY <1>3, <1>4, <1>5, <1>6, <1>7, <1>8, <1>9, <1>10, <1>11 DEF Progress

LEMMA NextIInv == IInv /\ [Next]_vars => IInv'
  <1> SUFFICES ASSUME IInv, [Next]_vars PROVE IInv'
    OBVIOUS
  <1>1. ASSUME NEW r \in Requests, Raise(r) \/ Break(r) PROVE IInv'
    BY <1>1, RaiseIInv, BreakIInv
  <1>2. ASSUME NEW r \in Requests, NEW t \in Tasks, Create(r, t) \/ Progress(r, t) PROVE IInv'
    BY <1>2, CreateIInv, ProgressIInv
  <1>3. ASSUME NEW r \in Requests, NEW t \in Tasks, NEW d \in Decisions, Read(r, t, d) PROVE IInv'
    BY <1>3, ReadIInv
  <1>4. CASE Crash
    BY <1>4, CrashIInv
  <1>5. CASE UNCHANGED vars
    BY <1>5
    DEF vars, IInv, TypeOK, ClaimsCounted, Claims, GrantedApproves, Owned, Owns
  <1> QED
    BY <1>1, <1>2, <1>3, <1>4, <1>5 DEF Next

\* The invariant holds of every reachable state.
LEMMA Inductive == Spec => []IInv
  BY InitIInv, NextIInv, PTL DEF Spec

\* The state of the tasks and of their requests is well formed.
THEOREM TypeCorrect == Spec => []TypeOK
  BY Inductive, PTL DEF IInv

\* However many requests decide a task and however they interleave, its plan is
\* begun at most as often as it was approved.
THEOREM Granted == Spec => []ExecutionsGranted
  <1>1. IInv => ExecutionsGranted
    <2> SUFFICES ASSUME IInv, NEW t \in Tasks PROVE executions[t] <= grants[t]
      BY DEF ExecutionsGranted
    <2>1. Cardinality(Claims(t)) \in Nat /\ executions[t] \in Nat /\ grants[t] \in Nat
      BY ClaimsFinite DEF IInv, TypeOK
    <2>2. executions[t] + Cardinality(Claims(t)) <= grants[t]
      BY DEF IInv, ClaimsCounted
    <2> QED
      BY <2>1, <2>2
  <1> QED
    BY <1>1, Inductive, PTL

\* While no session breaks and the process lives, a task is at rest or some
\* request is at it.
THEOREM Unstuck == Spec => []NothingStuck
  <1>1. IInv => NothingStuck
    BY DEF IInv, Owned, Owns, Settled, NothingStuck, Handled, InFlight
  <1> QED
    BY <1>1, Inductive, PTL

-----------------------------------------------------------------------------
(* The way of a request *)

\* What is ahead of a request at most: the statements of its handler, the steps
\* of a plan and the clause for its error.
Ahead(q) ==
    CASE q.pc = "idle" -> MaxSteps + 7
      [] q.pc \in {"created", "deciding"} -> MaxSteps + 6
      [] q.pc \in {"planning", "decided"} -> MaxSteps + 5
      [] q.pc = "granted" -> MaxSteps + 4
      [] q.pc = "running" -> q.left + 2
      [] q.pc = "raised" -> 1
      [] OTHER -> 0
Advance(r) == req'[r] = req[r] \/ (Ahead(req'[r]) \in Nat /\ Ahead(req'[r]) < Ahead(req[r]))
Others(r) == \A q \in Requests \ {r} : req'[q] = req[q]

LEMMA AheadNat == ASSUME NEW q \in Request PROVE Ahead(q) \in Nat
  BY MaxStepsNat DEF Ahead, Request, InFlight, InTry

LEMMA ReqType == ASSUME TypeOK, NEW r \in Requests PROVE req[r] \in Request
  BY DEF TypeOK, Request

\* The begin of a request: it has its whole handler ahead, or was refused.
LEMMA BeginAdvances ==
    ASSUME TypeOK, NEW r \in Requests, NEW q \in Request, req[r].pc = "idle",
           req' = [req EXCEPT ![r] = q], q.pc \in {"created", "deciding", "done"}
    PROVE  Advance(r) /\ Others(r)
  <1>1. req'[r] = q /\ Others(r)
    BY DEF TypeOK, Others
  <1>2. Ahead(req[r]) = MaxSteps + 7 /\ Ahead(q) \in {0, MaxSteps + 6}
    BY DEF Ahead
  <1> QED
    BY <1>1, <1>2, MaxStepsNat DEF Advance

\* A step that only moves a request on.
LEMMA GotoAdvances ==
    ASSUME TypeOK, NEW r \in Requests, NEW pc, Goto(r, pc),
           \/ req[r].pc \in InTry /\ pc = "raised"
           \/ req[r].pc \in InFlight /\ pc \in {"done", "dead"}
           \/ req[r].pc = "created" /\ pc = "planning"
           \/ req[r].pc = "deciding" /\ pc = "decided"
           \/ req[r].pc = "decided" /\ pc \in {"granted", "raised"}
    PROVE  Advance(r) /\ Others(r)
  <1>1. /\ req'[r] = [req[r] EXCEPT !.pc = pc] /\ Others(r)
        /\ req[r] \in Request /\ req'[r].pc = pc
    BY ReqType DEF Goto, TypeOK, Others, Request
  <1>2. req[r].left \in Nat /\ MaxSteps \in Nat
    BY <1>1, MaxStepsNat DEF Request
  <1>3. req[r].pc \in InTry /\ pc = "raised" => Advance(r)
    BY <1>1, <1>2 DEF Advance, Ahead, InTry
  <1>4. req[r].pc \in InFlight /\ pc \in {"done", "dead"} => Advance(r)
    BY <1>1, <1>2 DEF Advance, Ahead, InTry, InFlight
  <1>5. req[r].pc = "created" /\ pc = "planning" => Advance(r)
    BY <1>1, <1>2 DEF Advance, Ahead
  <1>6. req[r].pc = "deciding" /\ pc = "decided" => Advance(r)
    BY <1>1, <1>2 DEF Advance, Ahead
  <1>7. req[r].pc = "decided" /\ pc \in {"granted", "raised"} => Advance(r)
    BY <1>1, <1>2 DEF Advance, Ahead
  <1> QED
    BY <1>1, <1>3, <1>4, <1>5, <1>6, <1>7

\* The begin of a plan: its steps are fewer than what was ahead of it.
LEMMA PlanAdvances ==
    ASSUME TypeOK, NEW r \in Requests, NEW n \in 0..MaxSteps,
           req[r].pc \in {"planning", "granted"}, req'[r].pc = "running", req'[r].left = n
    PROVE  Advance(r)
  <1>1. Ahead(req'[r]) = n + 2 /\ Ahead(req[r]) \in {MaxSteps + 4, MaxSteps + 5}
    BY DEF Ahead
  <1> QED
    BY <1>1, MaxStepsNat DEF Advance

LEMMA StepAdvances ==
    ASSUME TypeOK, NEW r \in Requests, NEW t \in Tasks, NEW good \in BOOLEAN, Step(r, t, good)
    PROVE  Advance(r) /\ Others(r)
  <1>1. /\ req[r] \in Request /\ req[r].pc = "running" /\ req[r].left > 0
        /\ req'[r] = [req[r] EXCEPT !.left = IF good THEN @ - 1 ELSE 0, !.good = good]
        /\ Others(r)
    BY ReqType DEF Step, At, TypeOK, Others
  <1>2. /\ req'[r].pc = "running"
        /\ req'[r].left = IF good THEN req[r].left - 1 ELSE 0
        /\ req[r].left \in Nat
    BY <1>1, MaxStepsNat DEF Request
  <1>3. Ahead(req[r]) = req[r].left + 2 /\ Ahead(req'[r]) = req'[r].left + 2
    BY <1>1, <1>2 DEF Ahead
  <1> QED
    BY <1>1, <1>2, <1>3 DEF Advance

LEMMA ProgressAdvances ==
    ASSUME TypeOK, NEW r \in Requests, NEW t \in Tasks, Progress(r, t)
    PROVE  Advance(r) /\ Others(r)
  <1>1. ASSUME NEW s \in Statuses, Answer(r, t, s) \/ Plan(r, t, s)
        PROVE  Advance(r) /\ Others(r)
    BY <1>1, GotoAdvances DEF Answer, Plan, At, InFlight, InTry
  <1>2. ASSUME NEW n \in 0..MaxSteps, PlanLowRisk(r, t, n) PROVE Advance(r) /\ Others(r)
    <2>1. /\ req[r].pc = "planning" /\ Others(r)
          /\ req'[r] = [NoRequest EXCEPT !.pc = "running", !.task = {t}, !.left = n]
      BY <1>2 DEF PlanLowRisk, At, TypeOK, Others
    <2> QED
      BY <2>1, PlanAdvances DEF NoRequest
  <1>3. ASSUME NEW n \in 0..MaxSteps, Begin(r, t, n) PROVE Advance(r) /\ Others(r)
    <2>1. /\ req[r].pc = "granted" /\ Others(r) /\ req[r] \in Request
          /\ req'[r] = [req[r] EXCEPT !.pc = "running", !.left = n]
      BY <1>3, ReqType DEF Begin, At, TypeOK, Others
    <2> QED
      BY <2>1, PlanAdvances DEF Request
  <1>4. ASSUME NEW good \in BOOLEAN, Step(r, t, good) PROVE Advance(r) /\ Others(r)
    BY <1>4, StepAdvances
  <1>5. CASE Classify(r, t)
    BY <1>5, GotoAdvances DEF Classify, At
  <1>6. CASE Decide(r, t)
    BY <1>6, GotoAdvances DEF Decide, At
  <1>7. CASE Refresh(r, t)
    <2>1. /\ req[r].pc = "decided"
          /\ Goto(r, "done") \/ Goto(r, "granted") \/ Goto(r, "raised")
      BY <1>7 DEF Refresh, At
    <2> QED
      BY <2>1, GotoAdvances DEF InFlight
  <1>8. CASE Finish(r, t) \/ SetError(r, t)
    BY <1>8, GotoAdvances DEF Finish, SetError, At, InFlight, InTry
  <1> QED
    BY <1>1, <1>2, <1>3, <1>4, <1>5, <1>6, <1>7, <1>8 DEF Progress

LEMMA NextAdvances == TypeOK /\ [Next]_vars => \A r \in Requests : Advance(r)
  <1> SUFFICES ASSUME TypeOK, [Next]_vars PROVE \A r \in Requests : Advance(r)
    OBVIOUS
  <1>1. ASSUME NEW r \in Requests, Others(r), Advance(r) PROVE \A q \in Requests : Advance(q)
    BY <1>1 DEF Others, Advance
  <1>2. ASSUME NEW r \in Requests, Raise(r) \/ Break(r) PROVE \A q \in Requests : Advance(q)
    BY <1>1, <1>2, GotoAdvances DEF Raise, Break
  <1>3. ASSUME NEW r \in Requests, NEW t \in Tasks, Create(r, t)
        PROVE  \A q \in Requests : Advance(q)
    <2> DEFINE q == [NoRequest EXCEPT !.pc = "created", !.task = {t}]
    <2>1. q \in Request /\ q.pc = "created"
      BY NoRequestType DEF Request, InFlight, InTry
    <2>2. req[r].pc = "idle" /\ req' = [req EXCEPT ![r] = q]
      BY <1>3 DEF Create
    <2> QED
      BY <1>1, <2>1, <2>2, BeginAdvances
  <1>4. ASSUME NEW r \in Requests, NEW t \in Tasks, NEW d \in Decisions, Read(r, t, d)
        PROVE  \A q \in Requests : Advance(q)
    <2> DEFINE pc == IF status[t] = "awaiting_approval" THEN "deciding" ELSE "done"
               q  == [NoRequest EXCEPT !.task = {t}, !.decision = d, !.pc = pc]
    <2>1. q \in Request /\ q.pc = pc
      BY NoRequestType DEF Request, InFlight
    <2>2. req[r].pc = "idle" /\ req' = [req EXCEPT ![r] = q]
      BY <1>4 DEF Read
    <2> QED
      BY <1>1, <2>1, <2>2, BeginAdvances
  <1>5. ASSUME NEW r \in Requests, NEW t \in Tasks, Progress(r, t)
        PROVE  \A q \in Requests : Advance(q)
    BY <1>1, <1>5, ProgressAdvances
  <1>6. CASE Crash
    <2> SUFFICES ASSUME NEW r \in Requests PROVE Advance(r)
      OBVIOUS
    <2>1. req'[r] = IF req[r].pc \in InFlight THEN [req[r] EXCEPT !.pc = "dead"] ELSE req[r]
      BY <1>6 DEF Crash
    <2>2. req[r] \in Request
      BY ReqType
    <2>3. ASSUME req[r].pc \in InFlight PROVE Ahead(req[r]) > 0
      BY <2>2, <2>3, MaxStepsNat DEF Ahead, Request, InFlight, InTry
    <2>4. ASSUME req[r].pc \in InFlight PROVE Ahead(req'[r]) = 0
      BY <2>1, <2>2, <2>4 DEF Ahead, Request
    <2> QED
      BY <2>1, <2>3, <2>4 DEF Advance
  <1>7. CASE UNCHANGED vars
    BY <1>7 DEF vars, Advance
  <1> QED
    BY <1>2, <1>3, <1>4, <1>5, <1>6, <1>7 DEF Next

\* Whatever the other requests and the process do, a request only comes closer
\* to its end: no refused or failed statement and no other request's commit
\* sends it back, and it takes at most MaxSteps + 7 steps of its own.  That it
\* does take them is RequestsEnd, which needs the fairness.
THEOREM RequestsAdvance == Spec => [][\A r \in Requests : Advance(r)]_vars
  <1>1. TypeOK /\ [Next]_vars => [\A r \in Requests : Advance(r)]_vars
    BY NextAdvances
  <1> QED
    BY <1>1, TypeCorrect, PTL DEF Spec
=============================================================================
