----------------------- MODULE ReviewReadiness_proofs -----------------------
(***************************************************************************)
(* Proofs about ReviewReadiness, for any diffs, any number of chunks, of   *)
(* pushes, of claims and of rulings, and either policy.                    *)
(*                                                                         *)
(* The invariant is RInv: the type invariant, with decisions as the typed  *)
(* records that the gate changes field by field, and that a synthesis that *)
(* is there is what came of the answers and the rulings that are there.    *)
(* What a decision says is then what its parts say, and what it tells by   *)
(* name is what its blockers say.                                          *)
(***************************************************************************)
EXTENDS ReviewReadiness, FiniteSetTheorems, TLAPS

-----------------------------------------------------------------------------
(* Blockers, and what a decision tells with them. *)

LEMMA BlockerOf ==
    ASSUME NEW r, NEW q, NEW K, NEW k
    PROVE  Blocker(r, k) \in BlockersOf(q, K) <=> r = q /\ k \in K
  BY DEF Blocker, BlockersOf

\* What is told under a reason are the findings of its blockers.
LEMMA ToldOf ==
    ASSUME NEW d, NEW r, NEW K, \A k : Blocker(r, k) \in d.blockers <=> k \in K
    PROVE  Told(d, r) = K
  <1>1. ASSUME NEW k \in K PROVE k \in Told(d, r)
    <2>1. Blocker(r, k) \in d.blockers /\ Blocker(r, k).finding = k
      BY <1>1 DEF Blocker
    <2> QED
      BY <2>1 DEF Told
  <1>2. ASSUME NEW k \in Told(d, r) PROVE k \in K
    BY <1>2 DEF Told
  <1> QED
    BY <1>1, <1>2

\* No reason, nothing told.
LEMMA UntoldOf ==
    ASSUME NEW d, NEW r, r \notin {b.reason : b \in d.blockers}
    PROVE  Told(d, r) = {}
  <1>1. \A k : Blocker(r, k).reason = r
    BY DEF Blocker
  <1> QED
    BY <1>1 DEF Told

-----------------------------------------------------------------------------
(* The decision. *)

Gap(s) == IF s.uncovered THEN {"coverage_failure"} ELSE {}
Doubt(s) == IF s.limited THEN {"model_uncertainty"} ELSE {}
OneKey(reasons) == IF reasons # {} THEN {NoKey} ELSE {}
Confirmed(s) == Severe(s.findings, "confirmed")
Pending(s) == Severe(s.findings, "new")
StateOf(s) ==
    IF Confirmed(s) # {} THEN "blocked_code"
    ELSE IF Doubt(s) # {} THEN "manual_required"
    ELSE IF Gap(s) # {} THEN failureState
    ELSE IF Pending(s) # {} THEN "manual_required"
    ELSE "ready"
Asked(s) == IF StateOf(s) = "manual_required" THEN Pending(s) ELSE {}

LEMMA DecideIs ==
    ASSUME NEW s
    PROVE  Decide(s) =
             [state |-> StateOf(s),
              reasons |-> Gap(s) \cup Doubt(s)
                          \cup (IF Confirmed(s) # {} THEN {"confirmed_code_finding"} ELSE {})
                          \cup (IF Asked(s) # {} THEN {"finding_confirmation_required"} ELSE {}),
              blockers |-> BlockersOf("coverage_failure", OneKey(Gap(s)))
                           \cup BlockersOf("model_uncertainty", OneKey(Doubt(s)))
                           \cup BlockersOf("confirmed_code_finding", Confirmed(s))
                           \cup BlockersOf("finding_confirmation_required", Asked(s)),
              causes |-> Gap(s) \cup Doubt(s),
              head |-> run.head]
  BY DEF Decide, StateOf, Asked, Gap, Doubt, OneKey, Confirmed, Pending

LEMMA DecideTells ==
    ASSUME NEW s
    PROVE  /\ Told(Decide(s), "confirmed_code_finding") = Confirmed(s)
           /\ Told(Decide(s), "finding_confirmation_required") = Asked(s)
  <1>1. \A k : Blocker("confirmed_code_finding", k) \in Decide(s).blockers <=> k \in Confirmed(s)
    BY BlockerOf, DecideIs
  <1>2. \A k : Blocker("finding_confirmation_required", k) \in Decide(s).blockers
                 <=> k \in Asked(s)
    BY BlockerOf, DecideIs
  <1> QED
    BY <1>1, <1>2, ToldOf

-----------------------------------------------------------------------------
(* A review. *)

LEMMA ReviewsFact ==
    ASSUME NEW answer \in Reviews
    PROVE  /\ answer.bound \subseteq Chunks /\ answer.level \in Levels(answer.bound)
           /\ answer.claims \in ClaimSets(answer.bound) /\ answer.limited \in BOOLEAN
  <1>1. PICK chunks \in SUBSET Chunks :
            answer \in [bound : {chunks}, level : Levels(chunks), claims : ClaimSets(chunks),
                        limited : {FALSE, chunks # {}}]
    BY DEF Reviews
  <1>2. (chunks # {}) \in BOOLEAN
    OBVIOUS
  <1>3. {FALSE, chunks # {}} \subseteq BOOLEAN
    BY <1>2
  <1>4. answer.bound = chunks /\ answer.limited \in {FALSE, chunks # {}}
    BY <1>1
  <1> QED
    BY <1>1, <1>3, <1>4

\* What a model claims is of a chunk that it answered, and inside it.
LEMMA ClaimsFact ==
    ASSUME NEW answer \in Reviews, NEW q \in answer.claims
    PROVE  /\ answer.bound \subseteq Chunks
           /\ q \in Claims(answer.bound) /\ InChunk(q)
  <1> DEFINE chunks == answer.bound
  <1>2. chunks \subseteq Chunks /\ answer.claims \in ClaimSets(chunks)
    BY ReviewsFact
  <1>3. q \in {r \in Claims(chunks) : InChunk(r)}
    <2> DEFINE may == {r \in Claims(chunks) : InChunk(r)}
               choices == [1..MaxClaims -> may]
    <2> HIDE DEF may
    <2>1. \/ answer.claims = {}
          \/ answer.claims \in {{f[i] : i \in 1..MaxClaims} : f \in choices}
      BY <1>2 DEF ClaimSets, may
    <2>2. PICK f \in choices : answer.claims = {f[i] : i \in 1..MaxClaims}
      BY <2>1
    <2> QED
      BY <2>2 DEF may
  <1> QED
    BY <1>2, <1>3

\* The manifest of a run that was planned.
Planned ==
    /\ run.head \in 1..MaxHead
    /\ run.changed \in Diffs /\ Assembles(run.changed)
    /\ run.diff = Kept(run.changed) /\ run.chunks \in Plans(run.diff)

\* The identity of a claim is a finding's.
LEMMA KeyFact ==
    ASSUME Planned, NEW chunks \in SUBSET Chunks, NEW q \in Claims(chunks), InChunk(q)
    PROVE  KeyOf(q) \in Keys
  <1>1. run.diff \subseteq Fragments /\ \A c \in chunks : c \subseteq run.diff
    <2>1. run.diff \subseteq run.changed.fragments /\ run.changed.fragments \subseteq Fragments
      BY DiffsKnown DEF Planned, Kept
    <2>2. \A c \in Chunks : c \subseteq run.diff
      BY DEF Planned, Plans, Chunks
    <2> QED
      BY <2>1, <2>2
  <1>2. CASE q.kind = "lines"
    <2>1. q.of \in run.diff
      BY <1>2 DEF Claims
    <2> QED
      BY <1>1, <1>2, <2>1 DEF KeyOf, Keys
  <1>3. CASE q.kind # "lines"
    <2>1. q.chunk \in chunks /\ q.of \in PathsIn(q.chunk)
      BY <1>3 DEF Claims, InChunk
    <2> DEFINE scope == Scope(q.chunk, q.of)
    <2>2. scope \in SUBSET Fragments /\ {PathOf[f] : f \in scope} = {q.of}
      BY <1>1, <2>1 DEF Scope, PathsIn
    <2>3. Cardinality({PathOf[f] : f \in scope}) = 1
      BY <2>2, FS_Singleton
    <2>4. KeyOf(q) = [file |-> TRUE, at |-> scope]
      BY <1>3 DEF KeyOf
    <2> HIDE DEF scope
    <2> QED
      BY <2>2, <2>3, <2>4 DEF Keys
  <1> QED
    BY <1>2, <1>3

\* A ruling is a record of a finding, and not that it is new.
LEMMA PriorsFact ==
    ASSUME NEW rulings \in Priors
    PROVE  /\ DOMAIN rulings \subseteq Keys
           /\ \A k \in DOMAIN rulings : rulings[k] \in Records /\ rulings[k].disposition # "new"
  <1>1. PICK keys \in SUBSET PriorKeys :
            rulings \in [keys -> {r \in Records : r.disposition # "new"}]
    BY DEF Priors
  <1> QED
    BY <1>1, PriorKeysKnown

\* What a review finds: all that was ruled, as it was ruled, and whatever else
\* was claimed, as new.
Reviewing == Planned /\ prior \in Priors /\ answers \in Reviews

LEMMA FindingsFact ==
    ASSUME Reviewing
    PROVE  /\ Observed \subseteq Keys /\ DOMAIN Findings = DOMAIN prior \cup Observed
           /\ \A k \in DOMAIN prior : Findings[k] = prior[k]
           /\ \A k \in Observed \ DOMAIN prior :
                 Findings[k] = [severity |-> MostSevere(k), disposition |-> "new",
                                head |-> run.head]
           /\ IsRecords(Findings)
  <1>1. Observed \subseteq Keys
    <2> SUFFICES ASSUME NEW q \in answers.claims PROVE KeyOf(q) \in Keys
      BY DEF Observed
    <2> QED
      BY ClaimsFact, KeyFact, ReviewsFact DEF Reviewing
  <1>2. /\ DOMAIN Findings = DOMAIN prior \cup Observed
        /\ \A k \in DOMAIN prior : Findings[k] = prior[k]
        /\ \A k \in Observed \ DOMAIN prior :
              Findings[k] = [severity |-> MostSevere(k), disposition |-> "new",
                             head |-> run.head]
    BY DEF Findings
  <1>3. \A k : MostSevere(k) \in Severities
    BY DEF MostSevere, Severities
  <1>4. ASSUME NEW k \in DOMAIN Findings PROVE Findings[k] \in Records
    <2>1. CASE k \in DOMAIN prior
      BY <1>2, <2>1, PriorsFact DEF Reviewing
    <2>2. CASE k \notin DOMAIN prior
      BY <1>2, <1>3, <1>4, <2>2 DEF Records, Reviewing, Planned
    <2> QED
      BY <2>1, <2>2
  <1>5. DOMAIN Findings \subseteq Keys
    BY <1>1, <1>2, PriorsFact DEF Reviewing
  <1> QED
    BY <1>1, <1>2, <1>4, <1>5 DEF IsRecords

\* What is synthesised is well formed.
LEMMA SynthesisTyped ==
    Reviewing => IsRecords(Findings) /\ Uncovered \in BOOLEAN /\ answers.limited \in BOOLEAN
  <1>1. Uncovered \in BOOLEAN
    BY DEF Uncovered
  <1> QED
    BY <1>1, FindingsFact, ReviewsFact DEF Reviewing

-----------------------------------------------------------------------------
(* Types.  A decision is a record of five fields, which the gate only changes *)
(* field by field.                                                            *)

States == {"ready", "blocked_code", "blocked_pipeline", "manual_required", "stale"}
Reasons == PipelineReasons \cup {"confirmed_code_finding", "finding_confirmation_required",
                                 "head_mismatch"}
Blockers == [reason : Reasons, finding : Keys \cup {NoKey}]
Decisions == [state : States, reasons : SUBSET Reasons, blockers : SUBSET Blockers,
              causes : SUBSET Reasons, head : 1..MaxHead]
DecisionTyped == decision # None => decision \in Decisions

LEMMA BlockersTyped ==
    ASSUME NEW r \in Reasons, NEW K \in SUBSET (Keys \cup {NoKey})
    PROVE  BlockersOf(r, K) \subseteq Blockers
  BY DEF BlockersOf, Blocker, Blockers

LEMMA DecideTyped ==
    ASSUME NEW s, IsRecords(s.findings), Planned, failureState \in FailureStates
    PROVE  /\ Decide(s) \in Decisions
           /\ Decide(s).causes \subseteq Decide(s).reasons /\ Decide(s).head = run.head
           /\ Decide(s).state \in States \ {"stale"}
  <1>1. Confirmed(s) \subseteq Keys /\ Pending(s) \subseteq Keys /\ Asked(s) \subseteq Keys
    BY DEF Confirmed, Pending, Asked, Severe, IsRecords
  <1>2. StateOf(s) \in States \ {"stale"}
    BY FailureStatesKnown DEF StateOf, States
  <1>3. OneKey(Gap(s)) \subseteq {NoKey} /\ OneKey(Doubt(s)) \subseteq {NoKey}
    BY DEF OneKey
  <1>4. Decide(s).blockers \subseteq Blockers
    <2>1. /\ BlockersOf("coverage_failure", OneKey(Gap(s))) \subseteq Blockers
          /\ BlockersOf("model_uncertainty", OneKey(Doubt(s))) \subseteq Blockers
      BY <1>3, BlockersTyped DEF Reasons, PipelineReasons
    <2>2. /\ BlockersOf("confirmed_code_finding", Confirmed(s)) \subseteq Blockers
          /\ BlockersOf("finding_confirmation_required", Asked(s)) \subseteq Blockers
      BY <1>1, BlockersTyped DEF Reasons
    <2> QED
      BY <2>1, <2>2, DecideIs
  <1>5. /\ Decide(s).reasons \subseteq Reasons /\ Decide(s).causes \subseteq Decide(s).reasons
        /\ Decide(s).head = run.head /\ Decide(s).state = StateOf(s)
    BY DecideIs DEF Gap, Doubt, Reasons, PipelineReasons
  <1>6. Decide(s) \in Decisions
    <2>1. Decide(s) = [state |-> Decide(s).state, reasons |-> Decide(s).reasons,
                       blockers |-> Decide(s).blockers, causes |-> Decide(s).causes,
                       head |-> Decide(s).head]
      BY DecideIs
    <2>2. run.head \in 1..MaxHead
      BY DEF Planned
    <2> QED
      BY <1>2, <1>4, <1>5, <2>1, <2>2 DEF Decisions
  <1> QED
    BY <1>2, <1>5, <1>6

LEMMA InitTypes == Init => TypeOK /\ DecisionTyped
  BY BoundsNat DEF Init, TypeOK, DecisionTyped

\* A run that is there was planned.
LEMMA PlannedFact == ASSUME TypeOK, run # None PROVE Planned
  <1>1. 1..head \subseteq 1..MaxHead
    BY BoundsNat DEF TypeOK
  <1> QED
    BY <1>1 DEF TypeOK, Planned

LEMMA PushTypes == ASSUME TypeOK, DecisionTyped, Push PROVE TypeOK' /\ DecisionTyped'
  <1>1. head' \in 1..MaxHead /\ 1..head \subseteq 1..head'
    BY BoundsNat DEF Push, TypeOK
  <1>2. UNCHANGED <<failureState, run, answers, prior, synthesis, decision>>
    BY DEF Push
  <1>3. Reviews' = Reviews
    BY <1>2 DEF Reviews, Levels, ClaimSets, Claims, InChunk, Shown, Known, Scope, PathsIn, Chunks,
                Expected, FragmentsOf, KeyOf
  <1> QED
    BY <1>1, <1>2, <1>3 DEF TypeOK, DecisionTyped

LEMMA PlanTypes == ASSUME TypeOK, DecisionTyped, Plan PROVE TypeOK' /\ DecisionTyped'
  <1>1. PICK diff \in Diffs :
            /\ Assembles(diff)
            /\ \E chunks \in Plans(Kept(diff)) :
                  run' = [head |-> head, changed |-> diff, diff |-> Kept(diff), chunks |-> chunks]
    BY DEF Plan, NewRun
  <1>2. PICK chunks \in Plans(Kept(diff)) :
            run' = [head |-> head, changed |-> diff, diff |-> Kept(diff), chunks |-> chunks]
    BY <1>1
  <1>3. /\ run' # None /\ run'.head = head
        /\ run'.changed \in Diffs /\ Assembles(run'.changed)
        /\ run'.diff = Kept(run'.changed) /\ run'.chunks \in Plans(run'.diff)
    BY <1>1, <1>2 DEF None
  <1>4. head \in 1..head
    BY DEF TypeOK
  <1> QED
    BY <1>3, <1>4 DEF Plan, TypeOK, DecisionTyped

LEMMA ReviewTypes == ASSUME TypeOK, DecisionTyped, Review PROVE TypeOK' /\ DecisionTyped'
  <1>1. Planned
    BY PlannedFact DEF Review
  <1>2. /\ run' = run /\ run # None /\ failureState' = failureState /\ head' = head
        /\ prior' \in Priors /\ answers' \in Reviews
        /\ synthesis' = [findings |-> Findings', uncovered |-> Uncovered',
                         limited |-> answers'.limited]
    BY DEF Review
  <1>6. Reviews' = Reviews /\ Priors' = Priors
    BY <1>2 DEF Reviews, Levels, ClaimSets, Claims, InChunk, Shown, Known, Scope, PathsIn, Chunks,
                Expected, FragmentsOf, KeyOf, Priors
  <1>5. Reviewing'
    BY <1>1, <1>2, <1>6 DEF Reviewing, Planned, Plans
  <1>3. synthesis' # None
    BY <1>2 DEF None
  <1>4. IsRecords(synthesis'.findings)
        /\ synthesis'.uncovered \in BOOLEAN /\ synthesis'.limited \in BOOLEAN
    <2>1. IsRecords(Findings)' /\ (Uncovered \in BOOLEAN)' /\ (answers.limited \in BOOLEAN)'
      BY <1>5, SynthesisTyped, PTL
    <2> QED
      BY <1>2, <2>1 DEF IsRecords
  <1>7. decision' = Decide(synthesis') \/ decision' = decision
    BY <1>2 DEF Review, Decide
  <1>8. CASE decision' = Decide(synthesis')
    <2>1. /\ decision' \in Decisions /\ decision'.causes \subseteq decision'.reasons
          /\ decision'.head = run.head /\ decision'.state \in States
      BY <1>1, <1>4, <1>8, DecideTyped DEF TypeOK
    <2>2. run.head \in 1..head
      BY <1>2 DEF TypeOK
    <2> QED
      BY <1>2, <1>3, <1>4, <1>6, <2>1, <2>2 DEF TypeOK, DecisionTyped, States
  <1>9. CASE decision' = decision
    BY <1>2, <1>3, <1>4, <1>6, <1>9 DEF TypeOK, DecisionTyped
  <1> QED
    BY <1>7, <1>8, <1>9

LEMMA DecideStaleTypes == ASSUME TypeOK, DecisionTyped, DecideStale PROVE TypeOK' /\ DecisionTyped'
  <1>1. run # None /\ run.head \in 1..MaxHead /\ run.head \in 1..head
    <2>1. run # None
      BY DEF DecideStale, TypeOK
    <2> QED
      BY <2>1, PlannedFact DEF Planned, TypeOK
  <1>2. /\ decision' = [state |-> "stale", reasons |-> {"head_mismatch"}, blockers |-> {},
                        causes |-> {}, head |-> run.head]
        /\ UNCHANGED <<failureState, head, run, answers, prior, synthesis>>
    BY DEF DecideStale, StaleDecision
  <1>3. decision' \in Decisions
    BY <1>1, <1>2 DEF Decisions, States, Reasons
  <1>4. Reviews' = Reviews
    BY <1>2 DEF Reviews, Levels, ClaimSets, Claims, InChunk, Shown, Known, Scope, PathsIn, Chunks,
                Expected, FragmentsOf, KeyOf
  <1> QED
    BY <1>1, <1>2, <1>3, <1>4 DEF TypeOK, DecisionTyped

LEMMA NextTypes == TypeOK /\ DecisionTyped /\ [Next]_vars => TypeOK' /\ DecisionTyped'
  <1> SUFFICES ASSUME TypeOK, DecisionTyped, [Next]_vars PROVE TypeOK' /\ DecisionTyped'
    OBVIOUS
  <1>1. CASE Repeat
    BY <1>1 DEF Repeat, TypeOK, DecisionTyped
  <1>2. CASE Emit \/ UNCHANGED vars
    <2>1. UNCHANGED <<failureState, head, run, answers, prior, synthesis, decision>>
      BY <1>2 DEF Emit, vars
    <2>2. Reviews' = Reviews
      BY <2>1 DEF Reviews, Levels, ClaimSets, Claims, InChunk, Shown, Known, Scope, PathsIn, Chunks,
                  Expected, FragmentsOf, KeyOf
    <2> QED
      BY <2>1, <2>2 DEF TypeOK, DecisionTyped
  <1> QED
    BY <1>1, <1>2, PushTypes, PlanTypes, ReviewTypes, DecideStaleTypes DEF Next

LEMMA Types == Spec => [](TypeOK /\ DecisionTyped)
  BY InitTypes, NextTypes, PTL DEF Spec

\* What a review is made of and what it makes is well formed, however often it is
\* made again and HEAD moves.
THEOREM TypeCorrect == Spec => []TypeOK
  BY Types, PTL

-----------------------------------------------------------------------------
(* Ready is earned.  The synthesis is what came of the answers and the rulings *)
(* as long as it is there.                                                     *)

Synthesised ==
    synthesis # None =>
        /\ Reviewing /\ Chunks # {} /\ PriorCurrent
        /\ synthesis = [findings |-> Findings, uncovered |-> Uncovered,
                        limited |-> answers.limited]
RInv == TypeOK /\ DecisionTyped /\ Synthesised

LEMMA SynthesisedStays ==
    ASSUME Synthesised, UNCHANGED <<run, answers, prior, synthesis>>
    PROVE  Synthesised'
  <1>1. UNCHANGED <<Chunks, Expected>> /\ Planned' = Planned /\ Priors' = Priors
    BY DEF Chunks, Expected, Planned, Plans, Priors, Records
  <1>2. \A path : FragmentsOf(path)' = FragmentsOf(path) /\ Divided(path)' = Divided(path)
    BY DEF FragmentsOf, Divided, Chunks, PathsIn
  <1>3. Reviews' = Reviews
    BY DEF Reviews, Levels, ClaimSets, Claims, InChunk, Shown, Known, Scope, PathsIn, Chunks,
           Expected, FragmentsOf, KeyOf
  <1>4. Observed' = Observed /\ \A k : MostSevere(k)' = MostSevere(k)
    BY DEF Observed, MostSevere, KeyOf, Scope
  <1>5. PriorCurrent' = PriorCurrent /\ Findings' = Findings
    BY <1>4 DEF PriorCurrent, Findings
  <1>6. \A f : FragmentStatus(f)' = FragmentStatus(f)
    BY <1>2 DEF FragmentStatus
  <1>7. \A path : FileStatus(path)' = FileStatus(path)
    BY <1>2, <1>6 DEF FileStatus
  <1>8. Uncovered' = Uncovered
    BY <1>1, <1>7 DEF Uncovered
  <1> QED
    BY <1>1, <1>3, <1>5, <1>8 DEF Synthesised, Reviewing

LEMMA NextSynthesised == ASSUME TypeOK, Synthesised, [Next]_vars PROVE Synthesised'
  <1>1. CASE Review
    <2>1. Planned
      BY <1>1, PlannedFact DEF Review
    <2>2. /\ run' = run /\ prior' \in Priors /\ answers' \in Reviews /\ PriorCurrent'
          /\ synthesis' = [findings |-> Findings', uncovered |-> Uncovered',
                           limited |-> answers'.limited]
      BY <1>1 DEF Review
    <2>3. Reviews' = Reviews /\ Priors' = Priors
      BY <2>2 DEF Reviews, Levels, ClaimSets, Claims, InChunk, Shown, Known, Scope, PathsIn,
                  Chunks, Expected, FragmentsOf, KeyOf, Priors
    <2>4. Reviewing'
      BY <2>1, <2>2, <2>3 DEF Reviewing, Planned, Plans
    <2>5. (Chunks # {})'
      BY <1>1, <2>2 DEF Review, Chunks
    <2> QED
      BY <2>2, <2>4, <2>5 DEF Synthesised
  <1>2. CASE Plan \/ Repeat
    BY <1>2 DEF Plan, Repeat, Synthesised
  <1>3. CASE Push \/ DecideStale \/ Emit \/ UNCHANGED vars
    <2>1. UNCHANGED <<run, answers, prior, synthesis>>
      BY <1>3 DEF Push, DecideStale, Emit, vars
    <2> QED
      BY <2>1, SynthesisedStays
  <1> QED
    BY <1>1, <1>2, <1>3 DEF Next

LEMMA Inductive == Spec => []RInv
  <1>1. Init => RInv
    BY InitTypes DEF RInv, Init, Synthesised
  <1>2. RInv /\ [Next]_vars => RInv'
    BY NextTypes, NextSynthesised DEF RInv
  <1> QED
    BY <1>1, <1>2, PTL DEF Spec

\* A file that is reviewed was wholly in one chunk, whose answer said so.
LEMMA CoveredFact ==
    ASSUME Reviewing, NEW path \in Expected, FileStatus(path) = Reviewed
    PROVE  ReviewedWhole(path)
  <1>1. PICK f \in FragmentsOf(path) : TRUE
    BY DEF Expected, FragmentsOf
  <1>2. PathOf[f] = path
    BY DEF FragmentsOf
  <1>3. FragmentStatus(f) = Reviewed
    BY <1>1 DEF FileStatus, Reviewed, Missing, Partial
  <1>4. f \in UNION answers.bound
    BY <1>3 DEF FragmentStatus, Missing, Reviewed
  <1> DEFINE c == CHOOSE c \in answers.bound : f \in c
  <1>5. c \in answers.bound /\ f \in c
    BY <1>4
  <1>6. FragmentStatus(f) = IF answers.level[<<c, path>>] = Reviewed /\ Divided(path) THEN Partial
                            ELSE answers.level[<<c, path>>]
    BY <1>2, <1>4 DEF FragmentStatus
  <1> HIDE DEF c
  <1>7. answers.level[<<c, path>>] = Reviewed
    BY <1>3, <1>6 DEF Partial, Reviewed
  <1>8. <<c, path>> \in Shown(answers.bound)
    BY <1>2, <1>5 DEF Shown, PathsIn
  <1>9. answers.level[<<c, path>>] <= Known(c, path)
    BY <1>8, ReviewsFact DEF Reviewing, Levels
  <1>10. Scope(c, path) = FragmentsOf(path)
    <2> SUFFICES ASSUME Scope(c, path) # FragmentsOf(path) PROVE FALSE
      OBVIOUS
    <2>1. Known(c, path) = 1
      BY DEF Known, Partial
    <2> QED
      BY <1>7, <1>9, <2>1 DEF Reviewed
  <1>11. path \in PathsIn(c)
    BY <1>2, <1>5 DEF PathsIn
  <1>12. FragmentsOf(path) = {g \in run.changed.fragments : PathOf[g] = path}
    <2>1. path \notin run.changed.problems
      BY <1>1, <1>2 DEF FragmentsOf, Reviewing, Planned, Kept
    <2> QED
      BY <2>1 DEF FragmentsOf, Reviewing, Planned, Kept
  <1> QED
    BY <1>5, <1>7, <1>10, <1>11, <1>12 DEF ReviewedWhole

\* A file that the HEAD changes is to be reviewed, or excluded and need not be.
LEMMA EveryFile ==
    ASSUME Planned, NEW path \in ChangedPaths(run.changed)
    PROVE  path \in run.changed.problems \ MustReview \/ path \in Expected
  <1>1. CASE path \in run.changed.problems
    BY <1>1 DEF Planned, Assembles
  <1>2. CASE path \notin run.changed.problems
    <2>1. PICK f \in run.changed.fragments : PathOf[f] = path
      BY <1>2 DEF ChangedPaths
    <2>2. f \in run.diff
      BY <1>2, <2>1 DEF Planned, Kept
    <2> QED
      BY <2>1, <2>2 DEF Expected
  <1> QED
    BY <1>1, <1>2

\* Nothing but the answers and rulings that earn it makes a decision say ready.
LEMMA EarnedFact ==
    ASSUME TypeOK, Synthesised, synthesis # None, Decide(synthesis).state = "ready"
    PROVE  Earned
  <1> DEFINE s == synthesis
  <1>1. /\ Reviewing /\ PriorCurrent
        /\ s.findings = Findings /\ s.uncovered = Uncovered /\ s.limited = answers.limited
    BY DEF Synthesised
  <1>2. StateOf(s) = "ready"
    BY DecideIs
  <1>3. Confirmed(s) = {} /\ Pending(s) = {} /\ Doubt(s) = {} /\ Gap(s) = {}
    BY <1>2, FailureStatesKnown DEF StateOf, TypeOK
  <1>4. ~Uncovered /\ ~answers.limited
    BY <1>1, <1>3 DEF Doubt, Gap
  <1>5. \A path \in Expected : ReviewedWhole(path)
    BY <1>1, <1>4, CoveredFact DEF Uncovered
  <1>8. \A path \in ChangedPaths(run.changed) :
            path \in run.changed.problems \ MustReview \/ ReviewedWhole(path)
    BY <1>1, <1>5, EveryFile DEF Reviewing
  <1>9. answers.bound # {}
    <2>1. PICK c \in Chunks : TRUE
      BY DEF Synthesised
    <2>2. c # {} /\ c \subseteq run.diff
      <3>1. Chunks \in SUBSET ((SUBSET run.diff) \ {{}})
        BY <1>1 DEF Reviewing, Planned, Plans, Chunks
      <3> QED
        BY <2>1, <3>1
    <2>3. PICK f \in c : TRUE
      BY <2>2
    <2>4. PathOf[f] \in Expected
      BY <2>2, <2>3 DEF Expected
    <2> QED
      BY <1>5, <2>4 DEF ReviewedWhole
  <1>6. ASSUME NEW q \in answers.claims, q.severity = "severe"
        PROVE  /\ KeyOf(q) \in DOMAIN s.findings
               /\ s.findings[KeyOf(q)] =
                      [severity |-> "severe", disposition |-> "closed", head |-> run.head]
    <2> DEFINE k == KeyOf(q)
               r == s.findings[k]
    <2>1. k \in Observed /\ MostSevere(k) = "severe"
      BY <1>6 DEF Observed, MostSevere
    <2> HIDE DEF k
    <2>2. k \in DOMAIN s.findings /\ r \in Records
      BY <1>1, <2>1, FindingsFact DEF IsRecords
    <2>3. CASE k \in DOMAIN prior
      <3>1. r = prior[k] /\ r.severity = "severe" /\ r.head = run.head
        BY <1>1, <2>1, <2>3, FindingsFact DEF PriorCurrent
      <3>2. r.disposition # "new"
        BY <1>1, <2>3, <3>1, PriorsFact DEF Reviewing
      <3>3. r.disposition # "confirmed"
        BY <1>3, <2>2, <3>1 DEF Confirmed, Severe
      <3>4. r.disposition = "closed"
        BY <2>2, <3>2, <3>3 DEF Records
      <3> QED
        BY <2>2, <3>1, <3>4 DEF Records, k
    <2>4. CASE k \notin DOMAIN prior
      <3>1. r = [severity |-> "severe", disposition |-> "new", head |-> run.head]
        BY <1>1, <2>1, <2>4, FindingsFact
      <3>2. k \in Pending(s)
        BY <2>2, <3>1 DEF Pending, Severe
      <3> QED
        BY <1>3, <3>2
    <2> QED
      BY <2>3, <2>4
  <1>7. Severe(s.findings, "confirmed") = {}
    BY <1>3 DEF Confirmed
  <1> QED
    BY <1>4, <1>6, <1>7, <1>8, <1>9 DEF Earned

\* Where there is a synthesis after a step, the run and the policy are those before it.
LEMMA SynthesisStep ==
    ASSUME [Next]_vars, synthesis' # None
    PROVE  /\ run' = run /\ failureState' = failureState
           /\ synthesis' # synthesis => Review
  BY DEF Next, Push, Plan, Review, Repeat, DecideStale, Emit, vars

\* A review that was made can only be ready if something was reviewed, each file the
\* HEAD changes was excluded, and need not be reviewed, or was wholly in a chunk whose
\* answer reviewed it, nothing was limited, every severe claim was
\* closed by a human as severe, and nothing is confirmed.
THEOREM Ready == Spec => ReadyIsEarned
  <1>1. RInv /\ synthesis # None /\ Decide(synthesis).state = "ready" => Earned
    BY EarnedFact DEF RInv
  <1>2. (RInv /\ synthesis # None /\ Decide(synthesis).state = "ready" => Earned)'
    BY <1>1, PTL
  <1>3. RInv' /\ [Next]_vars =>
            [synthesis' # None => (Decide(synthesis').state = "ready" => Earned')]_vars
    <2> SUFFICES ASSUME RInv', [Next]_vars, synthesis' # None,
                        Decide(synthesis').state = "ready"
                 PROVE  Earned'
      OBVIOUS
    <2>1. Decide(synthesis)' = Decide(synthesis')
      BY SynthesisStep DEF Decide
    <2> QED
      BY <1>2, <2>1
  <1> QED
    BY <1>3, Inductive, PTL DEF Spec, ReadyIsEarned

\* What a human has confirmed at the HEAD blocks the code, by name, whether it was
\* claimed again or not.
THEOREM Blocks == Spec => ConfirmedBlocks
  <1>1. RInv' /\ [Next]_vars =>
            [synthesis' # synthesis /\ synthesis' # None =>
                \A k \in Severe(prior', "confirmed") :
                    LET d == Decide(synthesis')
                    IN  d.state = "blocked_code" /\ k \in Told(d, "confirmed_code_finding")]_vars
    <2> SUFFICES ASSUME RInv', [Next]_vars, synthesis' # synthesis, synthesis' # None,
                        NEW k \in Severe(prior', "confirmed")
                 PROVE  /\ Decide(synthesis').state = "blocked_code"
                        /\ k \in Told(Decide(synthesis'), "confirmed_code_finding")
      OBVIOUS
    <2>1. synthesis'.findings = Findings'
      BY DEF RInv, Synthesised
    <2>2. k \in DOMAIN prior' /\ Findings'[k] = prior'[k] /\ k \in DOMAIN Findings'
      BY DEF Severe, Findings
    <2>3. k \in Confirmed(synthesis')
      BY <2>1, <2>2 DEF Confirmed, Severe
    <2>4. StateOf(synthesis') = "blocked_code"
      BY <2>3 DEF StateOf
    <2> QED
      BY <2>3, <2>4, DecideIs, DecideTells
  <1> QED
    BY <1>1, Inductive, PTL DEF Spec, ConfirmedBlocks

-----------------------------------------------------------------------------
(* The gate. *)

LEMMA WidenedIs ==
    ASSUME NEW d \in Decisions
    PROVE  /\ Widened(d).state =
                 IF d.state = "blocked_code" THEN d.state
                 ELSE IF /\ d.state = "blocked_pipeline"
                         /\ d.reasons \subseteq {"coverage_failure", "policy_failure"}
                      THEN d.state ELSE "manual_required"
           /\ Widened(d).reasons = d.reasons \cup {"policy_failure"}
           /\ Widened(d).blockers = d.blockers \cup {Blocker("policy_failure", NoKey)}
           /\ Widened(d).causes = d.causes \cup {"policy_failure"}
           /\ Widened(d).head = d.head
  BY DEF Widened, Decisions

\* The only step that writes an artifact is the gate's.
LEMMA EmitWrites ==
    ASSUME RInv, [Next]_vars, vars' # vars, artifact' # None
    PROVE  /\ UNCHANGED <<run, synthesis, decision>>
           /\ decision \in Decisions /\ decision.head = run.head
           /\ CommonMaterial(decision, synthesis.findings)
           /\ \E expected \in {run.head, head} :
                 StaleMaterial(decision, expected) /\ artifact' = Artifact(expected)
  <1>1. Emit
    BY DEF Next, Push, Plan, Review, Repeat, DecideStale
  <1> QED
    BY <1>1 DEF Emit, RInv, DecisionTyped

\* What the contract allows masks nothing.
LEMMA AllowedMasksNothing ==
    ASSUME NEW d, NEW findings, d.state # "stale", Allows(d, findings)
    PROVE  /\ d.state # "ready"
           /\ d.state = "blocked_code" <=> Severe(findings, "confirmed") # {}
           /\ Told(d, "confirmed_code_finding") = Severe(findings, "confirmed")
           /\ d.state = "manual_required" =>
                 Told(d, "finding_confirmation_required") = Severe(findings, "new")
  <1>1. CASE AllowsCode(d, findings)
    BY <1>1 DEF AllowsCode
  <1>2. CASE AllowsPipeline(d, findings)
    <2>1. "confirmed_code_finding" \notin {b.reason : b \in d.blockers}
      BY <1>2 DEF Allows, AllowsPipeline, PipelineReasons
    <2>2. Told(d, "confirmed_code_finding") = {}
      BY <2>1, UntoldOf
    <2> QED
      BY <1>2, <2>2 DEF AllowsPipeline
  <1>3. CASE AllowsManual(d, findings)
    <2>1. "confirmed_code_finding" \notin {b.reason : b \in d.blockers}
      BY <1>3 DEF Allows, AllowsManual, PipelineReasons
    <2>2. Told(d, "confirmed_code_finding") = {}
      BY <2>1, UntoldOf
    <2> QED
      BY <1>3, <2>2 DEF AllowsManual
  <1> QED
    BY <1>1, <1>2, <1>3 DEF Allows

\* Whichever decision of the run comes with whichever findings of it, the artifact
\* that is made for the HEAD it is about hides none of what either says.
THEOREM Unmasked == Spec => NothingMasked
  <1>1. RInv /\ [Next]_vars =>
            [Writes("emitted") /\ artifact'.decision.state # "stale" => ~Masks(artifact')]_vars
    <2> SUFFICES ASSUME RInv, [Next]_vars, vars' # vars, Writes("emitted"),
                        artifact'.decision.state # "stale"
                 PROVE  ~Masks(artifact')
      OBVIOUS
    <2> DEFINE findings == synthesis.findings
               w == Widened(decision)
    <2>1. PICK expected \in {run.head, head} :
              StaleMaterial(decision, expected) /\ artifact' = Artifact(expected)
      BY EmitWrites DEF Writes
    <2>2. /\ decision \in Decisions /\ decision.head = run.head
          /\ CommonMaterial(decision, findings)
      BY EmitWrites DEF Writes
    <2>3. /\ decision.state # "stale" /\ Allows(w, findings)
          /\ artifact' = [kind |-> "emitted", decision |-> w, findings |-> findings,
                          head |-> expected]
      BY <2>1 DEF Artifact, Writes
    <2>4. expected = run.head
      BY <2>1, <2>3 DEF StaleMaterial
    <2>5. \A k \in DOMAIN findings : findings[k].head = run.head
      BY <2>2 DEF CommonMaterial
    <2>6. /\ w.head = run.head
          /\ decision.reasons \subseteq w.reasons /\ decision.causes \subseteq w.causes
      BY <2>2, WidenedIs
    <2> HIDE DEF w
    <2>7. w.state # "stale"
      BY <2>3
    <2> QED
      BY <2>3, <2>4, <2>5, <2>6, <2>7, AllowedMasksNothing DEF Masks
  <1> QED
    BY <1>1, Inductive, PTL DEF Spec, NothingMasked

LEMMA ToldIs ==
    ASSUME NEW d, NEW r, NEW k
    PROVE  k \in Told(d, r) <=> Blocker(r, k) \in d.blockers
  <1>1. Blocker(r, k).finding = k
    BY DEF Blocker
  <1> QED
    BY <1>1 DEF Told

\* The gate's own blocker tells nothing under another reason.
LEMMA WidenedTells ==
    ASSUME NEW d \in Decisions, NEW r, r # "policy_failure"
    PROVE  Told(Widened(d), r) = Told(d, r)
  <1>1. \A k : Blocker(r, k) # Blocker("policy_failure", NoKey)
    <2>1. \A k : Blocker(r, k).reason = r
      BY DEF Blocker
    <2>2. Blocker("policy_failure", NoKey).reason = "policy_failure"
      BY DEF Blocker
    <2> QED
      BY <2>1, <2>2
  <1>2. \A k : Blocker(r, k) \in Widened(d).blockers <=> k \in Told(d, r)
    BY <1>1, ToldIs, WidenedIs
  <1> QED
    BY <1>2, ToldOf

LEMMA ReasonOf ==
    ASSUME NEW r, NEW K
    PROVE  {b.reason : b \in BlockersOf(r, K)} = IF K # {} THEN {r} ELSE {}
  <1>1. \A k : Blocker(r, k).reason = r
    BY DEF Blocker
  <1>2. \A b \in BlockersOf(r, K) : b.reason = r
    BY <1>1 DEF BlockersOf
  <1>3. K # {} <=> BlockersOf(r, K) # {}
    BY DEF BlockersOf
  <1> QED
    BY <1>2, <1>3

\* A decision gives a blocker for each of its reasons, and for no other.
LEMMA ReasonsAreBlockers ==
    ASSUME NEW s
    PROVE  {b.reason : b \in Decide(s).blockers} = Decide(s).reasons
  <1> DEFINE A == BlockersOf("coverage_failure", OneKey(Gap(s)))
             B == BlockersOf("model_uncertainty", OneKey(Doubt(s)))
             C == BlockersOf("confirmed_code_finding", Confirmed(s))
             D == BlockersOf("finding_confirmation_required", Asked(s))
  <1>1. {b.reason : b \in A} = Gap(s) /\ {b.reason : b \in B} = Doubt(s)
    <2>1. OneKey(Gap(s)) # {} <=> Gap(s) # {}
      BY DEF OneKey
    <2>2. OneKey(Doubt(s)) # {} <=> Doubt(s) # {}
      BY DEF OneKey
    <2> QED
      BY <2>1, <2>2, ReasonOf DEF Gap, Doubt
  <1>2. /\ {b.reason : b \in C} = IF Confirmed(s) # {} THEN {"confirmed_code_finding"} ELSE {}
        /\ {b.reason : b \in D} = IF Asked(s) # {} THEN {"finding_confirmation_required"} ELSE {}
    BY ReasonOf
  <1>3. Decide(s).blockers = A \cup B \cup C \cup D
    BY DecideIs
  <1> HIDE DEF A, B, C, D
  <1>4. {b.reason : b \in A \cup B \cup C \cup D} =
            {b.reason : b \in A} \cup {b.reason : b \in B} \cup {b.reason : b \in C}
            \cup {b.reason : b \in D}
    OBVIOUS
  <1> QED
    BY <1>1, <1>2, <1>3, <1>4, DecideIs

\* What is decided on the findings it comes with makes an artifact the contract allows.
LEMMA DecisionAllowed ==
    ASSUME NEW s, Decide(s) \in Decisions, failureState \in FailureStates
    PROVE  Allows(Widened(Decide(s)), s.findings)
  <1> DEFINE d == Decide(s)
             w == Widened(Decide(s))
  <1>1. /\ d.state = StateOf(s) /\ d.causes = Gap(s) \cup Doubt(s)
        /\ d.reasons = Gap(s) \cup Doubt(s)
                       \cup (IF Confirmed(s) # {} THEN {"confirmed_code_finding"} ELSE {})
                       \cup (IF Asked(s) # {} THEN {"finding_confirmation_required"} ELSE {})
    BY DecideIs
  <1>2. /\ w.reasons = d.reasons \cup {"policy_failure"}
        /\ w.causes = d.causes \cup {"policy_failure"}
        /\ w.blockers = d.blockers \cup {Blocker("policy_failure", NoKey)}
        /\ w.state = IF d.state = "blocked_code" THEN d.state
                     ELSE IF /\ d.state = "blocked_pipeline"
                             /\ d.reasons \subseteq {"coverage_failure", "policy_failure"}
                          THEN d.state ELSE "manual_required"
    BY WidenedIs
  <1>3. /\ Told(w, "confirmed_code_finding") = Confirmed(s)
        /\ Told(w, "finding_confirmation_required") = Asked(s)
    BY WidenedTells, DecideTells
  <1>4. w.reasons # {} /\ w.reasons = {b.reason : b \in w.blockers}
    <2>1. {b.reason : b \in d.blockers} = d.reasons
      BY ReasonsAreBlockers
    <2>2. Blocker("policy_failure", NoKey).reason = "policy_failure"
      BY DEF Blocker
    <2> HIDE DEF w, d
    <2> QED
      BY <1>2, <2>1, <2>2
  <1> SUFFICES Allows(w, s.findings)
    OBVIOUS
  <1> HIDE DEF w, d
  <1>5. Gap(s) \subseteq {"coverage_failure"} /\ Doubt(s) \subseteq {"model_uncertainty"}
    BY DEF Gap, Doubt
  <1>6. CASE Confirmed(s) # {}
    <2>1. StateOf(s) = "blocked_code" /\ Asked(s) = {}
      BY <1>6 DEF StateOf, Asked
    <2>2. AllowsCode(w, s.findings)
      BY <1>1, <1>2, <1>3, <1>5, <1>6, <2>1 DEF AllowsCode, PipelineReasons, Confirmed
    <2> QED
      BY <1>4, <2>2 DEF Allows
  <1>7. CASE Confirmed(s) = {} /\ StateOf(s) = "blocked_pipeline"
    <2>1. Doubt(s) = {} /\ Asked(s) = {}
      BY <1>7 DEF StateOf, Asked
    <2>2. w.reasons = Gap(s) \cup {"policy_failure"} /\ w.causes = w.reasons
          /\ w.state = "blocked_pipeline"
      BY <1>1, <1>2, <1>5, <1>7, <2>1
    <2>3. AllowsPipeline(w, s.findings)
      BY <1>5, <1>7, <2>2 DEF AllowsPipeline, PipelineReasons, Confirmed
    <2> QED
      BY <1>4, <2>3 DEF Allows
  <1>8. CASE Confirmed(s) = {} /\ StateOf(s) # "blocked_pipeline"
    <2>1. Asked(s) = Pending(s) /\ StateOf(s) \in {"manual_required", "ready"}
      BY <1>8, FailureStatesKnown DEF StateOf, Asked
    <2>2. w.state = "manual_required"
      BY <1>1, <1>2, <2>1
    <2>3. /\ w.causes = w.reasons \ {"finding_confirmation_required"}
          /\ w.causes \subseteq PipelineReasons
          /\ "finding_confirmation_required" \in w.reasons <=> Pending(s) # {}
      BY <1>1, <1>2, <1>5, <1>8, <2>1 DEF PipelineReasons
    <2>4. AllowsManual(w, s.findings)
      BY <1>3, <1>8, <2>1, <2>2, <2>3 DEF AllowsManual, Confirmed, Pending
    <2> QED
      BY <1>4, <2>4 DEF Allows
  <1> QED
    BY <1>6, <1>7, <1>8

\* No decision that was computed from the findings it comes with, nor one that only
\* says that HEAD has moved, makes an artifact that the contract does not allow.
THEOREM Consistent == Spec => NoDefects
  <1>1. RInv /\ [Next]_vars =>
            [Writes("invalid") => decision \notin {Decide(synthesis), StaleDecision}]_vars
    <2> SUFFICES ASSUME RInv, [Next]_vars, vars' # vars, Writes("invalid"),
                        decision \in {Decide(synthesis), StaleDecision}
                 PROVE  FALSE
      OBVIOUS
    <2> DEFINE findings == synthesis.findings
               d == IF decision.state = "stale" THEN decision ELSE Widened(decision)
    <2>1. PICK expected \in {run.head, head} : artifact' = Artifact(expected)
      BY EmitWrites DEF Writes
    <2>2. ~Allows(d, findings)
      BY <2>1 DEF Artifact, Writes
    <2>3. decision.state # "stale"
      BY <2>2 DEF Allows
    <2>4. decision = Decide(synthesis)
      BY <2>3 DEF StaleDecision
    <2>5. decision \in Decisions /\ failureState \in FailureStates
      BY EmitWrites DEF RInv, TypeOK, Writes
    <2> QED
      BY <2>2, <2>3, <2>4, <2>5, DecisionAllowed
  <1> QED
    BY <1>1, Inductive, PTL DEF Spec, NoDefects
=============================================================================
