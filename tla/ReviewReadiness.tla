--------------------------- MODULE ReviewReadiness ---------------------------
(***************************************************************************)
(* AgentReview v2 of one pull request: from a HEAD to a readiness artifact *)
(*                                                                         *)
(* A run is planned for one HEAD: its diff, cut into fragments, is packed  *)
(* into chunks; a file that cannot be cut is excluded, or the run refused  *)
(* if it must be reviewed.  A model reviews the chunks, and answers with   *)
(* claims about them.  What it answered, and what humans have ruled on     *)
(* findings before, is synthesised into a coverage of the files and a set  *)
(* of findings; a decision is computed from that; and the gate makes an    *)
(* artifact of the decision, the findings and the required checks.  The    *)
(* stages hand each other values and files: HEAD may move, and a review    *)
(* may be made again, between any two, and the gate may be handed what     *)
(* belongs to an earlier review.  A stage that refuses its input writes    *)
(* nothing: it is not enabled.                                             *)
(***************************************************************************)
EXTENDS Integers, FiniteSets

CONSTANTS Fragments,      \* what a diff may consist of, by its content
          PathOf,         \* the file a fragment is of
          MustReview,     \* the files the target profile says must be reviewed
          Diffs,          \* the diffs a HEAD may have: fragments, and files with problems
          MaxChunks,      \* budgets.max_chunks
          MaxHead,        \* HEAD moves MaxHead - 1 times
          MaxClaims,      \* what a model claims in one review ...
          MaxClaimed,     \* ... and of how many findings
          PriorKeys,      \* the findings humans may have ruled on
          MaxPrior,       \* what a review is told of earlier ones
          FailureStates   \* what a policy may say of incomplete coverage

Paths == {PathOf[f] : f \in Fragments}
ASSUME PathsKnown == PathOf \in [Fragments -> Paths] /\ MustReview \subseteq Paths
ASSUME DiffsKnown == Diffs \subseteq [fragments : SUBSET Fragments, problems : SUBSET Paths]
ASSUME BoundsNat == MaxChunks \in Nat /\ MaxHead \in Nat \ {0}
ASSUME MoreBoundsNat == MaxClaims \in Nat /\ MaxClaimed \in Nat /\ MaxPrior \in Nat
ASSUME FailureStatesKnown == FailureStates \subseteq {"blocked_pipeline", "manual_required"}

VARIABLES
    failureState,   \* policies.coverage_failure_state
    head,           \* the HEAD of the pull request
    run,            \* the manifest of the last run that was planned
    answers,        \* of its chunks in the last review, or None
    prior,          \* what humans had ruled, as that review was told, or None
    synthesis,      \* of the run, or None
    decision,       \* what the gate is handed, maybe of an earlier review, or None
    artifact        \* what the last step wrote, or None

vars == <<failureState, head, run, answers, prior, synthesis, decision, artifact>>

None == [none |-> TRUE]
Severities == {"severe", "minor"}   \* P0 to P2, and P3
Missing == 0
Partial == 1
Reviewed == 2

\* The identity of a finding: lines of a fragment, or a file as far as one chunk
\* shows it.  Neither the place of the chunk nor the severity is in it.
Keys ==
    [file : {FALSE}, at : {{f} : f \in Fragments}]
    \cup [file : {TRUE}, at : {s \in SUBSET Fragments : Cardinality({PathOf[f] : f \in s}) = 1}]
Records == [severity : Severities, disposition : {"new", "confirmed", "closed"},
            head : 1..MaxHead]
Priors ==
    UNION {[keys -> {r \in Records : r.disposition # "new"}] :
              keys \in {s \in SUBSET PriorKeys : Cardinality(s) <= MaxPrior}}
ASSUME PriorKeysKnown == PriorKeys \subseteq Keys

-----------------------------------------------------------------------------
(* The plan.  A chunk is the fragments in it: no result depends on the order  *)
(* in which the chunks were filled.                                           *)

\* A file is a problem when it is binary, a submodule, without hunks, truncated, has
\* a name the contracts refuse, or is missing from the diff though it was expected.
\* It is excluded with such fragments as it has, and no later stage knows of it; but
\* if it must be reviewed there is no manifest.
\* Mutant: it is excluded whether or not it must be reviewed.
AssemblesAny(diff) == TRUE
Assembles(diff) == diff.problems \cap MustReview = {}
Kept(diff) == {f \in diff.fragments : PathOf[f] \notin diff.problems}

Chunks == run.chunks
FragmentsOf(path) == {f \in run.diff : PathOf[f] = path}
Expected == {PathOf[f] : f \in run.diff}
Scope(c, path) == {f \in c : PathOf[f] = path}
PathsIn(c) == {PathOf[f] : f \in c}
Divided(path) == Cardinality({c \in Chunks : path \in PathsIn(c)}) > 1

\* What must be reviewed is in a chunk, or there is no manifest; what need not
\* be is dropped when it does not fit.
Plans(of) ==
    {chunks \in SUBSET ((SUBSET of) \ {{}}) :
        /\ Cardinality(chunks) <= MaxChunks
        /\ \A c, d \in chunks : c # d => c \cap d = {}
        /\ {f \in of : PathOf[f] \in MustReview} \subseteq UNION chunks}

-----------------------------------------------------------------------------
(* A review: what the chunks that got an answer say. *)

\* A claim is about lines of a fragment, about a file, or about lines of a file
\* that the chunk does not show.
Shown(chunks) == {s \in chunks \X Expected : s[2] \in PathsIn(s[1])}
Claims(chunks) ==
    [chunk : chunks, kind : {"lines"}, of : run.diff, severity : Severities]
    \cup [chunk : chunks, kind : {"file", "astray"}, of : Expected, severity : Severities]
InChunk(q) ==
    IF q.kind = "lines" THEN q.of \in q.chunk ELSE q.of \in PathsIn(q.chunk)

\* A payload knows a file whose fragments are not all in its chunk in part only,
\* and an answer that claims to know more of a file does not bind.
Known(c, path) == IF Scope(c, path) = FragmentsOf(path) THEN Reviewed ELSE Partial
Levels(chunks) ==
    {level \in [Shown(chunks) -> {Missing, Partial, Reviewed}] :
        \A s \in Shown(chunks) : level[s] <= Known(s[1], s[2])}

KeyOf(q) ==
    IF q.kind = "lines" THEN [file |-> FALSE, at |-> {q.of}]
                        ELSE [file |-> TRUE, at |-> Scope(q.chunk, q.of)]

ClaimSets(chunks) ==
    LET may == {q \in Claims(chunks) : InChunk(q)}
    IN  {{}} \cup {s \in {{f[i] : i \in 1..MaxClaims} : f \in [1..MaxClaims -> may]} :
                     Cardinality({KeyOf(q) : q \in s}) <= MaxClaimed}

\* An answer that does not bind counts as none.
Reviews ==
    UNION {[bound : {chunks},
            level : Levels(chunks),
            claims : ClaimSets(chunks),
            limited : {FALSE, chunks # {}}] : chunks \in SUBSET Chunks}

-----------------------------------------------------------------------------
(* Synthesis. *)

InScope == \A q \in answers.claims : q.kind # "astray"

Observed == {KeyOf(q) : q \in answers.claims}
MostSevere(k) ==
    IF \E q \in answers.claims : KeyOf(q) = k /\ q.severity = "severe"
    THEN "severe" ELSE "minor"

\* Mutant: a ruling on a minor finding holds for a severe claim.
PriorCurrentLax == \A k \in DOMAIN prior : prior[k].head = run.head
PriorCurrent ==
    /\ \A k \in DOMAIN prior : prior[k].head = run.head
    /\ \A k \in DOMAIN prior \cap Observed : prior[k].severity = MostSevere(k)

\* Mutant: a ruling lapses when its finding is not claimed again.
FindingsObserved ==
    [k \in Observed |->
       IF k \in DOMAIN prior THEN prior[k]
       ELSE [severity |-> MostSevere(k), disposition |-> "new", head |-> run.head]]
Findings ==
    [k \in DOMAIN prior \cup Observed |->
       IF k \in DOMAIN prior THEN prior[k]
       ELSE [severity |-> MostSevere(k), disposition |-> "new", head |-> run.head]]

\* What is known of a fragment, of a file, and of which files it is too little.
FragmentStatus(f) ==
    IF f \notin UNION answers.bound THEN Missing
    ELSE LET c == CHOOSE c \in answers.bound : f \in c
             level == answers.level[<<c, PathOf[f]>>]
         IN  IF level = Reviewed /\ Divided(PathOf[f]) THEN Partial ELSE level
FileStatus(path) ==
    LET of == {FragmentStatus(f) : f \in FragmentsOf(path)}
    IN  IF of = {Reviewed} /\ ~Divided(path) THEN Reviewed
        ELSE IF of = {Missing} THEN Missing ELSE Partial
Uncovered == \E path \in Expected : FileStatus(path) # Reviewed

-----------------------------------------------------------------------------
(* The decision. *)

Severe(findings, disposition) ==
    {k \in DOMAIN findings : /\ findings[k].disposition = disposition
                             /\ findings[k].severity = "severe"}
PipelineReasons == {"coverage_failure", "model_uncertainty", "policy_failure"}
NoKey == [file |-> FALSE, at |-> {}]
Blocker(reason, k) == [reason |-> reason, finding |-> k]
BlockersOf(reason, keys) == {Blocker(reason, k) : k \in keys}
Told(d, reason) == {k \in {b.finding : b \in d.blockers} : Blocker(reason, k) \in d.blockers}

StaleDecision == [state |-> "stale", reasons |-> {"head_mismatch"}, blockers |-> {},
                  causes |-> {}, head |-> run.head]

Decide(s) ==
    LET uncovered == IF s.uncovered THEN {"coverage_failure"} ELSE {}
        uncertain == IF s.limited THEN {"model_uncertainty"} ELSE {}
        confirmed == Severe(s.findings, "confirmed")
        pending == Severe(s.findings, "new")
        state == IF confirmed # {} THEN "blocked_code"
                 ELSE IF uncertain # {} THEN "manual_required"
                 ELSE IF uncovered # {} THEN failureState
                 ELSE IF pending # {} THEN "manual_required"
                 ELSE "ready"
        tell == IF state = "manual_required" THEN pending ELSE {}
    IN  [state |-> state,
         reasons |-> uncovered \cup uncertain
                     \cup (IF confirmed # {} THEN {"confirmed_code_finding"} ELSE {})
                     \cup (IF tell # {} THEN {"finding_confirmation_required"} ELSE {}),
         blockers |-> BlockersOf("coverage_failure", IF uncovered # {} THEN {NoKey} ELSE {})
                      \cup BlockersOf("model_uncertainty",
                                      IF uncertain # {} THEN {NoKey} ELSE {})
                      \cup BlockersOf("confirmed_code_finding", confirmed)
                      \cup BlockersOf("finding_confirmation_required", tell),
         causes |-> uncovered \cup uncertain,
         head |-> run.head]

-----------------------------------------------------------------------------
(* The gate.  No required check can be established: one that is submitted is *)
(* refused, and without one the policy is not met.                           *)

\* Mutant: a blocked pipeline becomes a question to a human.
WidenedToManual(d) ==
    [d EXCEPT !.state = IF @ = "blocked_code" THEN @ ELSE "manual_required",
              !.reasons = @ \cup {"policy_failure"},
              !.blockers = @ \cup {Blocker("policy_failure", NoKey)},
              !.causes = @ \cup {"policy_failure"}]
Widened(d) ==
    LET keeps == {"coverage_failure", "policy_failure"}
    IN  [d EXCEPT
            !.state = IF @ = "blocked_code" THEN @
                      ELSE IF @ = "blocked_pipeline" /\ d.reasons \subseteq keeps THEN @
                      ELSE "manual_required",
            !.reasons = @ \cup {"policy_failure"},
            !.blockers = @ \cup {Blocker("policy_failure", NoKey)},
            !.causes = @ \cup {"policy_failure"}]

\* What is handed over fits together ...
CommonMaterial(d, findings) ==
    /\ \A k \in DOMAIN findings : findings[k].head = run.head
    /\ Told(d, "confirmed_code_finding") \subseteq DOMAIN findings
    /\ Told(d, "finding_confirmation_required") \subseteq Severe(findings, "new")
StaleMaterial(d, expected) ==
    IF d.state = "stale"
    THEN expected # run.head /\ d.reasons = {"head_mismatch"} /\ d.blockers = {}
    ELSE expected = run.head

\* ... and the artifact that is made of it is one the contract allows.
AllowsCode(d, findings) ==
    /\ d.state = "blocked_code"
    /\ d.reasons = d.causes \cup {"confirmed_code_finding"}
    /\ d.causes \subseteq PipelineReasons
    /\ Severe(findings, "confirmed") # {}
    /\ Told(d, "confirmed_code_finding") = Severe(findings, "confirmed")
\* Mutant: a blocked pipeline may have confirmed findings.
AllowsPipelineMasking(d, findings) ==
    /\ d.state = "blocked_pipeline"
    /\ d.reasons \subseteq PipelineReasons \ {"model_uncertainty"}
    /\ d.causes = d.reasons
AllowsPipeline(d, findings) ==
    /\ d.state = "blocked_pipeline"
    /\ d.reasons \subseteq PipelineReasons \ {"model_uncertainty"}
    /\ d.causes = d.reasons
    /\ Severe(findings, "confirmed") = {}
AllowsManual(d, findings) ==
    LET pending == Severe(findings, "new")
    IN  /\ d.state = "manual_required"
        /\ d.causes = d.reasons \ {"finding_confirmation_required"}
        /\ d.causes \subseteq PipelineReasons
        /\ Severe(findings, "confirmed") = {}
        /\ Told(d, "finding_confirmation_required") = pending
        /\ "finding_confirmation_required" \in d.reasons <=> pending # {}
Allows(d, findings) ==
    \/ d.state = "stale"
    \/ /\ d.reasons # {} /\ d.reasons = {b.reason : b \in d.blockers}
       /\ \/ AllowsCode(d, findings)
          \/ AllowsPipeline(d, findings)
          \/ AllowsManual(d, findings)

Artifact(expected) ==
    LET d == IF decision.state = "stale" THEN decision ELSE Widened(decision)
        findings == synthesis.findings
    IN  IF Allows(d, findings)
        THEN [kind |-> "emitted", decision |-> d, findings |-> findings, head |-> expected]
        ELSE [kind |-> "invalid", head |-> expected]

-----------------------------------------------------------------------------
Init ==
    /\ failureState \in FailureStates
    /\ head = 1
    /\ run = None
    /\ answers = None
    /\ prior = None
    /\ synthesis = None
    /\ decision = None
    /\ artifact = None

\* The author pushes.
Push ==
    /\ head < MaxHead
    /\ head' = head + 1
    /\ artifact' = None
    /\ UNCHANGED <<failureState, run, answers, prior, synthesis, decision>>

\* A run is planned for the HEAD.  How it is packed depends on the diff alone.
NewRun ==
    \E diff \in Diffs :
        /\ Assembles(diff)
        /\ \E chunks \in Plans(Kept(diff)) :
               run' = [head |-> head, changed |-> diff, diff |-> Kept(diff), chunks |-> chunks]

\* Mutant: the synthesis of the last run is kept.
PlanKeeps ==
    /\ IF run = None THEN TRUE ELSE run.head # head
    /\ NewRun
    /\ artifact' = None
    /\ UNCHANGED <<failureState, head, answers, prior, synthesis, decision>>
Plan ==
    /\ IF run = None THEN TRUE ELSE run.head # head
    /\ NewRun
    /\ answers' = None /\ prior' = None
    /\ synthesis' = None
    /\ artifact' = None
    /\ UNCHANGED <<failureState, head, decision>>

\* The chunks of the run are reviewed, one after the other, and what came of it is
\* synthesised and decided on: nobody sees anything before the end.  The gate may
\* yet be handed an earlier decision.  There is no content to review, and so no
\* review, of a run without chunks.
Review ==
    /\ run # None
    /\ Chunks # {}
    /\ synthesis = None
    /\ prior' \in Priors
    /\ answers' \in Reviews
    /\ UNCHANGED <<failureState, head, run>>
    /\ InScope'
    /\ PriorCurrent'
    /\ synthesis' = [findings |-> Findings, uncovered |-> Uncovered,
                     limited |-> answers.limited]'
    /\ decision' \in {Decide(synthesis'), decision}
    /\ artifact' = None

\* The same run is to be reviewed again: it has the same identity.
Repeat ==
    /\ synthesis # None
    /\ answers' = None /\ prior' = None
    /\ synthesis' = None
    /\ artifact' = None
    /\ UNCHANGED <<failureState, head, run, decision>>

\* Whoever knows that HEAD has moved says so, and the decision is only that.
DecideStale ==
    /\ synthesis # None
    /\ head # run.head
    /\ decision' = StaleDecision
    /\ artifact' = None
    /\ UNCHANGED <<failureState, head, run, answers, prior, synthesis>>

\* The gate is given a decision, the findings, the run they are for and the one
\* that is expected now.
Emit ==
    /\ synthesis # None
    /\ decision # None
    /\ decision.head = run.head
    /\ CommonMaterial(decision, synthesis.findings)
    /\ \E expected \in {run.head, head} :
           StaleMaterial(decision, expected) /\ artifact' = Artifact(expected)
    /\ UNCHANGED <<failureState, head, run, answers, prior, synthesis, decision>>

Next ==
    \/ Push \/ Plan \/ Review \/ Repeat \/ DecideStale \/ Emit
Spec == Init /\ [][Next]_vars

-----------------------------------------------------------------------------
IsRecords(rs) == DOMAIN rs \subseteq Keys /\ \A k \in DOMAIN rs : rs[k] \in Records

\* The state of a review has the form its parts give it.
TypeOK ==
    /\ failureState \in FailureStates /\ head \in 1..MaxHead
    /\ run # None =>
           /\ run.head \in 1..head
           /\ run.changed \in Diffs /\ Assembles(run.changed)
           /\ run.diff = Kept(run.changed) /\ run.chunks \in Plans(run.diff)
    /\ run = None => synthesis = None /\ decision = None
    /\ synthesis = None => answers = None
    /\ synthesis # None => answers \in Reviews /\ prior \in Priors
    /\ synthesis # None =>
           /\ IsRecords(synthesis.findings)
           /\ synthesis.uncovered \in BOOLEAN /\ synthesis.limited \in BOOLEAN
    /\ decision # None =>
           /\ decision.state \in {"ready", "blocked_code", "blocked_pipeline",
                                  "manual_required", "stale"}
           /\ decision.causes \subseteq decision.reasons
           /\ decision.head \in 1..head

\* run_assembly_v2.py, payload_builder_v2.py, synthesis_v2.py and
\* readiness_decision_v2.py: what was reviewed is "ready" only if something was
\* reviewed, and each file the HEAD changes is excluded, and need not be reviewed,
\* or was wholly in one chunk whose answer claimed to have reviewed it; no answer had
\* a limitation, every severe claim was closed by a human as severe at the evaluated
\* HEAD, and nothing that is confirmed is left.
ChangedPaths(diff) == diff.problems \cup {PathOf[f] : f \in diff.fragments}
ReviewedWhole(path) ==
    \E c \in answers.bound :
        /\ path \in PathsIn(c)
        /\ Scope(c, path) = {f \in run.changed.fragments : PathOf[f] = path}
        /\ answers.level[<<c, path>>] = Reviewed
Earned ==
    /\ answers.bound # {}
    /\ \A path \in ChangedPaths(run.changed) :
           path \in run.changed.problems \ MustReview \/ ReviewedWhole(path)
    /\ ~answers.limited
    /\ \A q \in answers.claims : q.severity = "severe" =>
           /\ KeyOf(q) \in DOMAIN synthesis.findings
           /\ synthesis.findings[KeyOf(q)] =
                  [severity |-> "severe", disposition |-> "closed", head |-> run.head]
    /\ Severe(synthesis.findings, "confirmed") = {}
ReadyIsEarned ==
    [][synthesis' # None => (Decide(synthesis').state = "ready" => Earned')]_vars

\* lifecycle_v2.py and readiness_decision_v2.py: what a human confirmed at the
\* HEAD blocks the code, by name, whether or not a chunk claims it again.
ConfirmedBlocks ==
    [][synthesis' # synthesis /\ synthesis' # None =>
           \A k \in Severe(prior', "confirmed") :
               LET d == Decide(synthesis')
               IN  d.state = "blocked_code" /\ k \in Told(d, "confirmed_code_finding")]_vars

Writes(kind) == artifact' # None /\ artifact'.kind = kind

\* review_readiness_emission_v2.py and ReviewReadinessV2: whichever decision of
\* the run comes with whichever findings of it, an artifact about the HEAD is
\* never "ready", blocks the code when its findings have a confirmed one, and
\* names exactly those; it asks for the confirmation of all that is pending when a
\* human has to look; and it does not drop what the decision had found.
Masks(made) ==
    LET d == made.decision
        confirmed == Severe(made.findings, "confirmed")
    IN  \/ made.head # d.head \/ \E k \in DOMAIN made.findings : made.findings[k].head # d.head
        \/ d.state = "ready"
        \/ ~(d.state = "blocked_code" <=> confirmed # {})
        \/ Told(d, "confirmed_code_finding") # confirmed
        \/ ~(decision.reasons \subseteq d.reasons /\ decision.causes \subseteq d.causes)
        \/ /\ d.state = "manual_required"
           /\ Told(d, "finding_confirmation_required") # Severe(made.findings, "new")
NothingMasked ==
    [][Writes("emitted") /\ artifact'.decision.state # "stale" => ~Masks(artifact')]_vars

\* readiness_decision_v2.py, _apply_required_check_assessment_v2: no decision that
\* was computed from the findings it comes with makes an artifact that the
\* contract does not allow.
NoDefects ==
    [][Writes("invalid") => decision \notin {Decide(synthesis), StaleDecision}]_vars
=============================================================================
