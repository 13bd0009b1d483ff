-------------------------- MODULE MCPostReadyGuard --------------------------
(* The instance for PostReadyGuard.cfg.                                    *)
EXTENDS PostReadyGuard

\* A second commit is marked ready at time 2, after a review of the first one
\* at time 1; its checks have passed.
Marked ==
    [NewWorld EXCEPT
       !.reviews = [at |-> 1, of |-> {[id |-> 1, head |-> 1, submitted |-> 1,
                                       state |-> "COMMENTED"]}],
       !.timeline = [at |-> 2, ready |-> 2],
       !.checks.is = "success", !.runs.is = "success"]

\* The connector completes with a thumb, after somebody's request or not.
ByThumb ==
    [Marked EXCEPT !.talk.at = 3, !.talk.row = [head |-> 2, done |-> 3,
                                                trigger |-> "Draft marked ready"],
                   !.reactions.thumb = 4]
OnRequest ==
    [ByThumb EXCEPT !.talk.request = 2, !.talk.row.trigger = "Manual request"]

\* Or with a review; the finding of the first review was fixed.
ByReview ==
    [Marked EXCEPT
       !.reviews = [at |-> 3, of |-> @.of \cup {[id |-> 3, head |-> 2, submitted |-> 3,
                                                 state |-> "COMMENTED"]}],
       !.inline = [at |-> 1, of |-> {1}],
       !.talk = [at |-> 4, request |-> 0,
                 row |-> [head |-> 2, done |-> 4, trigger |-> "Draft marked ready"],
                 answers |-> {[finding |-> 1, subject |-> 2, kind |-> "FIXED"]}]]

StartsDone ==
    {[now |-> 4, pr |-> [head |-> 2, draft |-> FALSE, open |-> TRUE], world |-> w] :
        w \in {OnRequest, ByReview}}

\* What a run that held had read no longer matters.
Sight == IF verdict \in Held THEN <<"held", verdict>> ELSE vars
=============================================================================
