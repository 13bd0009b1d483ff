-------------------------- MODULE MCReviewReadiness --------------------------
(* Two fragments of a file that must be reviewed, and one of a file that need *)
(* not be.  The diffs: one file, in two fragments; both; both, with either of *)
(* them cut short; and a binary file alone.                                   *)
EXTENDS ReviewReadiness, TLC

CONSTANTS a1, a2, b1

MCFragments == {a1, a2, b1}
MCPathOf == (a1 :> "a") @@ (a2 :> "a") @@ (b1 :> "b")
MCMustReview == {"a"}
Diff(fragments, problems) == [fragments |-> fragments, problems |-> problems]
MCDiffs == {Diff({a1, a2}, {}), Diff({a1, b1}, {}), Diff({a1, b1}, {"b"}),
            Diff({a1, b1}, {"a"}), Diff({}, {"b"})}
MCPriorKeys == {[file |-> FALSE, at |-> {a1}], [file |-> TRUE, at |-> {a1}]}
MCFailureStates == {"blocked_pipeline", "manual_required"}

\* What was answered, what was written and what an earlier run decided does not
\* matter to any later step.
Sight ==
    <<failureState, head, run, synthesis,
      IF decision = None THEN None
      ELSE IF decision.head # run.head THEN [head |-> decision.head] ELSE decision>>
=============================================================================
