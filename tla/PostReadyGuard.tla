--------------------------- MODULE PostReadyGuard ---------------------------
(***************************************************************************)
(* The post-Ready guard (scripts/github_codex_post_ready_guard.py).  One   *)
(* run of it reads the surfaces of a pull request one by one, reads them   *)
(* all again, and judges the first reading if the second did not differ.   *)
(* Meanwhile the pull request goes on living: its people and the Codex     *)
(* connector change one surface or several at a time, in any order.        *)
(*                                                                         *)
(* A surface is what the verdict can tell of it, with the time of its last *)
(* change: the payloads that the guard compares carry ids and time stamps  *)
(* that do not come back.  Of what is modelled only the reactions can look *)
(* as they did before, when one that was added is taken away again, and so *)
(* can the lifecycle of the pull request, of which the guard compares no   *)
(* time stamp.  Nobody pushes an earlier commit again or deletes comments. *)
(***************************************************************************)
EXTENDS Integers, FiniteSets, Sequences

CONSTANTS MaxHead,      \* bound: the commits that are pushed, in order
          MaxTime,      \* bound: the time of the last change
          Starts,       \* what the pull request may have come to before the guard
          Touched,      \* the commits that change the file of the findings
          Requesters    \* whether --trusted-requester names anybody

VARIABLES now,       \* how many changes there were: the time of the last one
          pr,        \* the lifecycle of the pull request and its head
          world,     \* the other surfaces
          expected,  \* --expected-head
          step,      \* the next read of the guard
          seenPr,    \* what its first read returned
          seen,      \* and what those of its first pass did
          turn,      \* what there really was when the first pass ended
          verdict    \* the state of the GuardResult

vars == <<now, pr, world, expected, step, seenPr, seen, turn, verdict>>

Heads == 1 .. MaxHead
NoRow == [head |-> 0, done |-> 0, trigger |-> "none"]
Triggers == {"Draft marked ready", "Manual request"}
Status == {"running", "success", "failure"}
Dispositions == {"FIXED", "DISMISSED"}
Held == {"HELD_CODEX_UNAVAILABLE", "HELD_STALE", "HELD_PENDING_CODEX",
         "HELD_PENDING_REQUIRED_CI", "HELD_WITH_MATERIAL_FINDINGS"}
Ready == "READY_FOR_HUMAN_INTEGRATION_DECISION"

\* The surfaces in the order in which both passes read them.
Order == <<"reviews", "inline", "talk", "timeline", "reactions", "checks", "runs">>
Surfaces == {"reviews", "inline", "talk", "timeline", "reactions", "checks", "runs"}

Lifecycles == [head : Heads, draft : BOOLEAN, open : BOOLEAN]
Reviews == [id : Nat, head : Heads, submitted : Nat, state : {"PENDING", "COMMENTED"}]
Rows == [head : Heads, done : Nat, trigger : Triggers] \cup {NoRow}
Answers == [finding : Nat, subject : Heads, kind : Dispositions]

ReviewLists == [at : Nat, of : SUBSET Reviews]
FindingLists == [at : Nat, of : SUBSET Nat]     \* the reviews that have a finding
Talks == [at : Nat, row : Rows, request : Nat, answers : SUBSET Answers]
Timelines == [at : Nat, ready : Nat]            \* when it was marked ready last
Reactions == [eyes : Nat, thumb : Nat]
Outcomes == [at : Nat, is : Status]

Worlds ==
    [reviews : ReviewLists, inline : FindingLists, talk : Talks, timeline : Timelines,
     reactions : Reactions, checks : Outcomes, runs : Outcomes]

\* Nothing is stamped later than it is.
Stamped(w, t) ==
    /\ \A s \in Surfaces \ {"reactions"} : w[s].at <= t
    /\ w.reactions.thumb <= t

ASSUME Bounds == MaxHead \in Nat /\ MaxTime \in Nat /\ Requesters \in BOOLEAN
ASSUME StartsPossible ==
    \A s \in Starts :
        /\ s.now \in Nat /\ s.pr \in Lifecycles /\ s.world \in Worlds
        /\ Stamped(s.world, s.now)

TypeOK ==
    /\ now \in Nat
    /\ pr \in Lifecycles /\ seenPr \in Lifecycles
    /\ world \in Worlds /\ seen \in Worlds
    /\ turn \in [pr : Lifecycles, world : Worlds]
    /\ expected \in Heads
    /\ step \in 0 .. 16
    /\ verdict \in Held \cup {Ready, "none"}

\* A pull request on which nothing has happened yet.
NewWorld ==
    [reviews   |-> [at |-> 0, of |-> {}],
     inline    |-> [at |-> 0, of |-> {}],
     talk      |-> [at |-> 0, row |-> NoRow, request |-> 0, answers |-> {}],
     timeline  |-> [at |-> 0, ready |-> 0],
     reactions |-> [eyes |-> 0, thumb |-> 0],
     checks    |-> [at |-> 0, is |-> "running"],
     runs      |-> [at |-> 0, is |-> "running"]]

\* The guard has read nothing.
Init ==
    /\ \E s \in Starts : now = s.now /\ pr = s.pr /\ world = s.world
    /\ expected = pr.head /\ step = 0
    /\ seenPr = pr /\ seen = NewWorld
    /\ turn = [pr |-> pr, world |-> NewWorld]
    /\ verdict = "none"

-----------------------------------------------------------------------------
(* What may happen to the pull request                                     *)

\* The time moves with every change.  What happens after the verdict is of no
\* interest here.
Change ==
    /\ verdict = "none" /\ now < MaxTime
    /\ now' = now + 1
    /\ UNCHANGED <<expected, step, seenPr, seen, turn, verdict>>

Lives == Change /\ UNCHANGED pr

MarkReady ==
    /\ Change /\ pr.open /\ pr.draft
    /\ pr' = [pr EXCEPT !.draft = FALSE]
    /\ world' = [world EXCEPT !.timeline = [at |-> now', ready |-> now']]

ConvertToDraft ==
    /\ Change /\ pr.open /\ ~pr.draft
    /\ pr' = [pr EXCEPT !.draft = TRUE]
    /\ world' = [world EXCEPT !.timeline.at = now']

CloseOrReopen ==
    /\ Change
    /\ pr' = [pr EXCEPT !.open = ~@]
    /\ world' = [world EXCEPT !.timeline.at = now']

\* The checks of a head that is left are no longer of interest: the guard
\* that began with that head finds another one in the end.
Push ==
    /\ Change /\ pr.open /\ pr.head < MaxHead
    /\ pr' = [pr EXCEPT !.head = @ + 1]
    /\ world' = [world EXCEPT !.checks = [at |-> now', is |-> "running"],
                              !.runs = [at |-> now', is |-> "running"]]

\* A job ends; its run ends after it; somebody runs it again.
JobEnds(s) ==
    /\ Lives /\ world.checks.is = "running" /\ s # "running"
    /\ world' = [world EXCEPT !.checks = [at |-> now', is |-> s], !.runs.at = now']

RunEnds ==
    /\ Lives /\ world.runs.is = "running" /\ world.checks.is # "running"
    /\ world' = [world EXCEPT !.runs = [at |-> now', is |-> world.checks.is]]

Rerun ==
    /\ Lives /\ world.runs.is # "running"
    /\ world' = [world EXCEPT !.checks = [at |-> now', is |-> "running"],
                              !.runs = [at |-> now', is |-> "running"]]

\* The connector drafts a review of the head, or submits one of any commit,
\* with a finding or without; a draft that it had begun becomes the review.
Draft ==
    /\ Lives
    /\ world' = [world EXCEPT !.reviews =
                   [at |-> now',
                    of |-> @.of \cup {[id |-> now', head |-> pr.head, submitted |-> 0,
                                       state |-> "PENDING"]}]]

Submit(h, drafts, found) ==
    /\ Lives /\ h <= pr.head
    /\ \A r \in drafts : r.state = "PENDING" /\ r.head = h
    /\ world' = [world EXCEPT
         !.reviews = [at |-> now',
                      of |-> (@.of \ drafts)
                             \cup {[id |-> now', head |-> h, submitted |-> now',
                                    state |-> "COMMENTED"]}],
         !.inline = IF found THEN [at |-> now', of |-> @.of \cup {now'}] ELSE @]

\* Its summary comment tells that it has completed.
Complete(h, t) ==
    /\ Lives /\ h <= pr.head
    /\ world' = [world EXCEPT !.talk.at = now',
                              !.talk.row = [head |-> h, done |-> now', trigger |-> t]]

\* Its reactions: eyes while it is at work, a thumb when it finds nothing.
ShowEyes ==
    /\ Lives /\ world.reactions.eyes = 0
    /\ world' = [world EXCEPT !.reactions.eyes = now']

HideEyes ==
    /\ Lives /\ world.reactions.eyes # 0
    /\ world' = [world EXCEPT !.reactions.eyes = 0]

ShowThumb ==
    /\ Lives
    /\ world' = [world EXCEPT !.reactions.thumb = now']

\* A trusted requester asks for a review; a trusted adjudicator disposes of a
\* finding at the present head.
Request ==
    /\ Lives
    /\ world' = [world EXCEPT !.talk.at = now', !.talk.request = now']

Dispose(f, k) ==
    /\ Lives /\ f \in world.inline.of
    /\ world' = [world EXCEPT !.talk.at = now',
                   !.talk.answers = @ \cup {[finding |-> f, subject |-> pr.head, kind |-> k]}]

Happens ==
    \/ MarkReady \/ ConvertToDraft \/ CloseOrReopen \/ Push
    \/ \E s \in Status : JobEnds(s)
    \/ RunEnds \/ Rerun
    \/ Draft
    \/ \E h \in Heads, found \in BOOLEAN : \E drafts \in SUBSET world.reviews.of :
         Cardinality(drafts) <= 1 /\ Submit(h, drafts, found)
    \/ \E h \in Heads, t \in Triggers : Complete(h, t)
    \/ ShowEyes \/ HideEyes \/ ShowThumb \/ Request
    \/ \E f \in world.inline.of, k \in Dispositions : Dispose(f, k)

-----------------------------------------------------------------------------
(* The judgement                                                           *)

\* A published finding of a review of commit c has an explicit disposition: an
\* answer for this head, whose repair is the head, and which says FIXED only
\* of a repair that comes after the review and changes the file.
Differs(c, h) == \E t \in Touched : c < t /\ t <= h
Disposed(f, c, head, answers) ==
    \E a \in answers :
        /\ a.finding = f /\ a.subject = head
        /\ a.kind = "FIXED" => c < head /\ Differs(c, head)

OpenFindings(w, head) ==
    {r \in w.reviews.of :
        /\ r.id \in w.inline.of /\ r.state # "PENDING"
        /\ ~Disposed(r.id, r.head, head, w.talk.answers)}

\* The latest request of this Ready cycle.
Requested(w) == IF w.talk.request >= w.timeline.ready THEN w.talk.request ELSE 0

Start(w) ==
    IF w.talk.row.trigger = "Manual request" THEN Requested(w) ELSE w.timeline.ready

Pending(w, head) == \E r \in w.reviews.of : r.head = head /\ r.state = "PENDING"

Current(w, head) ==
    {r \in w.reviews.of : /\ r.head = head /\ r.state # "PENDING"
                          /\ r.submitted >= Start(w)}

\* The row of the summary completes what the latest trigger of this cycle began.
RowBound(w, head) ==
    /\ w.timeline.ready # 0
    /\ w.talk.row # NoRow
    /\ Requested(w) # 0 => Requesters
    /\ Requested(w) <= w.talk.row.done
    /\ w.talk.row.trigger = "Manual request" <=> Requested(w) # 0
    /\ w.talk.row.head = head
    /\ Start(w) <= w.talk.row.done

\* It ended in one review of this head, or in a thumb and no review.
Terminal(w, head) ==
    \/ \E r \in Current(w, head) :
         Current(w, head) = {r} /\ r.submitted <= w.talk.row.done
    \/ /\ Current(w, head) = {}
       /\ w.reactions.thumb > Start(w) /\ w.reactions.thumb >= w.talk.row.done

AtWork(w) == w.reactions.eyes # 0 /\ w.reactions.eyes >= Start(w)

ChecksPass(w) == w.checks.is = "success" /\ w.runs.is = "success"

CycleDone(w, head) ==
    ~Pending(w, head) /\ RowBound(w, head) /\ Terminal(w, head)

\* Every review of this head is from before the pull request was marked ready.
OnlyEarlier(w, head) ==
    LET submitted == {r \in w.reviews.of : r.head = head /\ r.state # "PENDING"}
    IN  submitted # {} /\ \A r \in submitted : r.submitted < w.timeline.ready

Judge(life, w, head) ==
    CASE life.head # head \/ ~life.open -> "HELD_STALE"
      [] OTHER -> IF life.draft THEN "HELD_PENDING_CODEX"
         ELSE IF ~ChecksPass(w) THEN "HELD_PENDING_REQUIRED_CI"
         ELSE IF w.timeline.ready = 0 THEN "HELD_CODEX_UNAVAILABLE"
         ELSE IF Pending(w, head) THEN "HELD_PENDING_CODEX"
         ELSE IF ~(CycleDone(w, head) /\ ~AtWork(w))
              THEN IF OnlyEarlier(w, head) THEN "HELD_STALE" ELSE "HELD_PENDING_CODEX"
         ELSE IF OpenFindings(w, head) # {} THEN "HELD_WITH_MATERIAL_FINDINGS"
         ELSE Ready

-----------------------------------------------------------------------------
(* The guard                                                               *)

Reads == verdict = "none" /\ UNCHANGED <<now, pr, world>>

Begin(h) ==
    /\ Reads /\ step = 0 /\ h <= pr.head
    /\ expected' = h /\ step' = 1
    /\ UNCHANGED <<seenPr, seen, turn, verdict>>

ReadPr ==
    /\ Reads /\ step = 1
    /\ seenPr' = pr /\ step' = 2
    /\ UNCHANGED <<expected, seen, turn, verdict>>

\* Every inline comment needs the review that it belongs to.
Belong(w) == w.inline.of \subseteq {r.id : r \in w.reviews.of}

\* The first pass.  At its end the evidence is put together, which raises if
\* an inline comment belongs to no review that was read.
Read ==
    /\ Reads /\ step \in 2 .. 8
    /\ seen' = [seen EXCEPT ![Order[step - 1]] = world[Order[step - 1]]]
    /\ IF step = 8
       THEN /\ turn' = [pr |-> pr, world |-> world]
            /\ IF Belong(seen') THEN step' = 9 /\ UNCHANGED verdict
               ELSE verdict' = "HELD_CODEX_UNAVAILABLE" /\ UNCHANGED step
       ELSE step' = step + 1 /\ UNCHANGED <<turn, verdict>>
    /\ UNCHANGED <<expected, seenPr>>

\* Mutant: the second pass does not read the issue comments again.
RereadFewer ==
    /\ Reads /\ step \in 9 .. 15
    /\ IF Order[step - 8] = "talk" \/ seen[Order[step - 8]] = world[Order[step - 8]]
       THEN step' = step + 1 /\ UNCHANGED verdict
       ELSE verdict' = "HELD_CODEX_UNAVAILABLE" /\ UNCHANGED step
    /\ UNCHANGED <<expected, seenPr, seen, turn>>

\* The second pass.  After a difference the guard reads on, but it will hold.
Reread ==
    /\ Reads /\ step \in 9 .. 15
    /\ IF seen[Order[step - 8]] = world[Order[step - 8]]
       THEN step' = step + 1 /\ UNCHANGED verdict
       ELSE verdict' = "HELD_CODEX_UNAVAILABLE" /\ UNCHANGED step
    /\ UNCHANGED <<expected, seenPr, seen, turn>>

RereadPr ==
    /\ Reads /\ step = 16
    /\ verdict' = IF seenPr = pr THEN Judge(seenPr, seen, expected)
                  ELSE "HELD_CODEX_UNAVAILABLE"
    /\ UNCHANGED <<expected, step, seenPr, seen, turn>>

\* A request fails, is refused or times out.
Fail ==
    /\ Reads /\ step # 0
    /\ verdict' = "HELD_CODEX_UNAVAILABLE"
    /\ UNCHANGED <<expected, step, seenPr, seen, turn>>

Guard ==
    \/ \E h \in Heads : Begin(h)
    \/ ReadPr \/ Read \/ Reread \/ RereadPr \/ Fail

Next == Happens \/ Guard

Spec == Init /\ [][Next]_vars

-----------------------------------------------------------------------------
(* Properties                                                              *)

\* A positive verdict is about one moment, though no two of its reads were: when
\* the first pass ended, the cycle of the latest Ready was complete on the
\* expected head, its required checks had passed, and every finding published
\* until then was disposed of.  The pull request was then what the verdict says
\* of it, unless it has been put back since: its events tell, but they were
\* reread before.
DoneAtTheTurn ==
    verdict = Ready =>
        /\ CycleDone(turn.world, expected)
        /\ ChecksPass(turn.world)
        /\ OpenFindings(turn.world, expected) = {}
        /\ turn.pr.head = expected
        /\ turn.pr = seenPr \/ turn.world.timeline.at < world.timeline.at
=============================================================================
