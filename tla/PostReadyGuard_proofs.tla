----------------------- MODULE PostReadyGuard_proofs -----------------------
(***************************************************************************)
(* Proofs about PostReadyGuard, for any commits, any changes and any state *)
(* of the pull request when the guard begins.  The argument is that of a   *)
(* double reading: a stamp only grows, so a surface that reads the same    *)
(* before and after the turn is the same at the turn.                      *)
(***************************************************************************)
EXTENDS PostReadyGuard, TLAPS

\* w is what v was, or came to be later.
Follows(v, w, s) ==
    IF s = "reactions" THEN v[s].thumb <= w[s].thumb
    ELSE v[s].at <= w[s].at /\ (v[s].at = w[s].at => v[s] = w[s])

\* They tell the same of the surface, as far as it does not come back.
Tells(v, w, s) ==
    IF s = "reactions" THEN v[s].thumb = w[s].thumb ELSE v[s] = w[s]

\* The lifecycle is as it was, or the events tell that it changed.
LifeFollows(l, v, m, w) ==
    /\ l.head <= m.head
    /\ (l.draft = m.draft /\ l.open = m.open) \/ v.timeline.at < w.timeline.at

FirstPass == \A i \in 1 .. 7 : i <= step - 2 => Follows(seen, world, Order[i])

SecondPass ==
    /\ \A s \in Surfaces : Follows(seen, turn.world, s) /\ Follows(turn.world, world, s)
    /\ \A i \in 1 .. 7 : i <= step - 9 => Tells(seen, turn.world, Order[i])
    /\ seenPr.head <= turn.pr.head
    /\ LifeFollows(turn.pr, turn.world, pr, world)

Judged ==
    verdict = Ready => step = 16 /\ seenPr = pr /\ Judge(seenPr, seen, expected) = Ready

IInv ==
    /\ TypeOK
    /\ Stamped(world, now)
    /\ step >= 2 => seenPr.head <= pr.head
    /\ step <= 8 => FirstPass
    /\ step >= 9 => SecondPass
    /\ Judged

-----------------------------------------------------------------------------
(* The pull request                                                        *)

\* What a change makes of the surfaces: each is as before or stamped now.
Fresh(a, b) == b = a \/ b.at = now'

SurfacesMove ==
    /\ world' \in Worlds
    /\ Fresh(world.reviews, world'.reviews) /\ Fresh(world.inline, world'.inline)
    /\ Fresh(world.talk, world'.talk) /\ Fresh(world.timeline, world'.timeline)
    /\ Fresh(world.checks, world'.checks) /\ Fresh(world.runs, world'.runs)
    /\ world'.reactions.thumb \in {world.reactions.thumb, now'}

Moves ==
    /\ now' = now + 1
    /\ SurfacesMove
    /\ pr' \in Lifecycles
    /\ pr.head <= pr'.head
    /\ (pr'.draft = pr.draft /\ pr'.open = pr.open) \/ world'.timeline.at = now'

\* What the surfaces are when one of them is written.
LEMMA Written ==
    ASSUME NEW w \in Worlds
    PROVE  /\ \A v \in ReviewLists : [w EXCEPT !.reviews = v] \in Worlds
           /\ \A v \in FindingLists : [w EXCEPT !.inline = v] \in Worlds
           /\ \A v \in Talks : [w EXCEPT !.talk = v] \in Worlds
           /\ \A v \in Timelines : [w EXCEPT !.timeline = v] \in Worlds
           /\ \A v \in Reactions : [w EXCEPT !.reactions = v] \in Worlds
           /\ \A v \in Outcomes : [w EXCEPT !.checks = v] \in Worlds
           /\ \A v \in Outcomes : [w EXCEPT !.runs = v] \in Worlds
  BY DEF Worlds

LEMMA Lived ==
    ASSUME NEW l \in Lifecycles
    PROVE  /\ \A b \in BOOLEAN : /\ [l EXCEPT !.draft = b] \in Lifecycles
                                /\ [l EXCEPT !.draft = b].head = l.head
           /\ \A b \in BOOLEAN : /\ [l EXCEPT !.open = b] \in Lifecycles
                                /\ [l EXCEPT !.open = b].head = l.head
           /\ \A h \in Heads : /\ [l EXCEPT !.head = h] \in Lifecycles
                              /\ [l EXCEPT !.head = h].head = h
                              /\ [l EXCEPT !.head = h].draft = l.draft
                              /\ [l EXCEPT !.head = h].open = l.open
           /\ l.head \in Heads /\ l.draft \in BOOLEAN /\ l.open \in BOOLEAN
  BY DEF Lifecycles

LEMMA LifeMoves ==
    ASSUME TypeOK, MarkReady \/ ConvertToDraft \/ CloseOrReopen \/ Push
    PROVE  Moves
  <1> USE Bounds DEF Change, TypeOK
  <1>1. ASSUME NEW v \in Timelines, v.at = now', world' = [world EXCEPT !.timeline = v]
        PROVE  SurfacesMove /\ world'.timeline.at = now'
    <2>1. world' \in Worlds
      BY <1>1, Written
    <2> QED
      BY <1>1, <2>1 DEF SurfacesMove, Fresh, Worlds
  <1>2. CASE MarkReady
    <2> DEFINE v == [at |-> now', ready |-> now']
    <2>1. v \in Timelines /\ v.at = now'
      BY <1>2 DEF MarkReady, Timelines
    <2>2. SurfacesMove /\ world'.timeline.at = now'
      BY <1>1, <1>2, <2>1 DEF MarkReady
    <2>3. pr' \in Lifecycles /\ pr'.head = pr.head /\ pr.head \in Heads
      BY <1>2, Lived DEF MarkReady
    <2> QED
      BY <1>2, <2>2, <2>3 DEF MarkReady, Moves, Heads
  <1>3. CASE ConvertToDraft \/ CloseOrReopen
    <2> DEFINE v == [world.timeline EXCEPT !.at = now']
    <2>1. v \in Timelines /\ v.at = now'
      BY <1>3 DEF ConvertToDraft, CloseOrReopen, Timelines, Worlds
    <2>2. world' = [world EXCEPT !.timeline = v]
      BY <1>3 DEF ConvertToDraft, CloseOrReopen
    <2>3. SurfacesMove /\ world'.timeline.at = now'
      BY <1>1, <2>1, <2>2
    <2>4. pr' \in Lifecycles /\ pr'.head = pr.head /\ pr.head \in Heads
      <3>1. pr \in Lifecycles
        OBVIOUS
      <3>2. pr.head \in Heads /\ pr.open \in BOOLEAN
        BY <3>1, Lived
      <3>3. (~pr.open) \in BOOLEAN
        OBVIOUS
      <3>4. \/ pr' = [pr EXCEPT !.draft = TRUE]
            \/ pr' = [pr EXCEPT !.open = ~pr.open]
        BY <1>3 DEF ConvertToDraft, CloseOrReopen
      <3>5. /\ [pr EXCEPT !.draft = TRUE] \in Lifecycles
            /\ [pr EXCEPT !.draft = TRUE].head = pr.head
        BY <3>1, Lived
      <3>6. /\ [pr EXCEPT !.open = ~pr.open] \in Lifecycles
            /\ [pr EXCEPT !.open = ~pr.open].head = pr.head
        BY <3>1, <3>3, Lived
      <3> QED
        BY <3>2, <3>4, <3>5, <3>6
    <2> QED
      BY <1>3, <2>3, <2>4 DEF ConvertToDraft, CloseOrReopen, Moves, Heads
  <1>4. CASE Push
    <2> DEFINE v == [at |-> now', is |-> "running"]
               w == [world EXCEPT !.checks = v]
    <2>1. v \in Outcomes /\ v.at = now'
      BY <1>4 DEF Push, Outcomes, Status
    <2>2. w \in Worlds /\ world' = [w EXCEPT !.runs = v]
      BY <1>4, <2>1, Written DEF Push
    <2>3. world' \in Worlds
      BY <2>1, <2>2, Written
    <2>4. SurfacesMove
      BY <2>1, <2>2, <2>3 DEF SurfacesMove, Fresh, Worlds
    <2>5. /\ pr.head \in Heads /\ pr.head + 1 \in Heads
          /\ pr' = [pr EXCEPT !.head = pr.head + 1]
      BY <1>4, Lived DEF Push, Heads
    <2>6. /\ pr' \in Lifecycles /\ pr'.head = pr.head + 1
          /\ pr'.draft = pr.draft /\ pr'.open = pr.open
      BY <2>5, Lived
    <2>7. now' = now + 1 /\ pr.head <= pr'.head
      BY <1>4, <2>5, <2>6 DEF Push, Heads
    <2> QED
      BY <2>4, <2>6, <2>7 DEF Moves
  <1> QED
    BY <1>2, <1>3, <1>4

\* The other changes leave the lifecycle alone.
LEMMA OnlySurfaces ==
    ASSUME TypeOK, Lives, SurfacesMove
    PROVE  Moves
  BY Lived, Bounds DEF TypeOK, Lives, Change, Moves, Heads

LEMMA ChecksMove ==
    ASSUME TypeOK, (\E s \in Status : JobEnds(s)) \/ RunEnds \/ Rerun
    PROVE  Moves
  <1>0. Lives
    BY DEF JobEnds, RunEnds, Rerun
  <1> SUFFICES SurfacesMove
    BY <1>0, OnlySurfaces
  <1>1. /\ world \in Worlds /\ now' \in Nat
        /\ world.checks \in Outcomes /\ world.runs \in Outcomes
    BY <1>0 DEF Lives, Change, TypeOK, Worlds
  <1>2. ASSUME NEW v \in Outcomes, NEW x \in Outcomes, v.at = now', x.at = now',
               world' = [world EXCEPT !.checks = v, !.runs = x]
        PROVE  SurfacesMove
    <2> DEFINE w == [world EXCEPT !.checks = v]
    <2>1. w \in Worlds /\ world' = [w EXCEPT !.runs = x]
      BY <1>1, <1>2, Written
    <2>2. world' \in Worlds
      BY <1>2, <2>1, Written
    <2> QED
      BY <1>1, <1>2, <2>2 DEF SurfacesMove, Fresh, Worlds
  <1>3. ASSUME NEW s \in Status, JobEnds(s) PROVE SurfacesMove
    <2> DEFINE v == [at |-> now', is |-> s]
               x == [world.runs EXCEPT !.at = now']
    <2>1. v \in Outcomes /\ x \in Outcomes /\ v.at = now' /\ x.at = now'
      BY <1>1 DEF Outcomes
    <2>2. world' = [world EXCEPT !.checks = v, !.runs = x]
      BY <1>3 DEF JobEnds
    <2> QED
      BY <1>2, <2>1, <2>2
  <1>4. CASE RunEnds
    <2> DEFINE x == [at |-> now', is |-> world.checks.is]
    <2>1. x \in Outcomes /\ x.at = now'
      BY <1>1 DEF Outcomes
    <2>2. world' = [world EXCEPT !.runs = x] /\ world' \in Worlds
      BY <1>1, <1>4, <2>1, Written DEF RunEnds
    <2> QED
      BY <1>1, <2>1, <2>2 DEF SurfacesMove, Fresh, Worlds
  <1>5. CASE Rerun
    <2> DEFINE v == [at |-> now', is |-> "running"]
    <2>1. v \in Outcomes /\ v.at = now'
      BY <1>1 DEF Outcomes, Status
    <2> QED
      BY <1>2, <1>5, <2>1 DEF Rerun
  <1> QED
    BY <1>3, <1>4, <1>5

LEMMA ReviewsMove ==
    ASSUME TypeOK, NEW h \in Heads, NEW found \in BOOLEAN,
           NEW drafts \in SUBSET world.reviews.of, Draft \/ Submit(h, drafts, found)
    PROVE  Moves
  <1> SUFFICES SurfacesMove
    BY OnlySurfaces DEF Draft, Submit
  <1>1. /\ world \in Worlds /\ now' \in Nat /\ pr.head \in Heads
        /\ world.reviews \in ReviewLists /\ world.inline \in FindingLists
    BY Lived DEF Draft, Submit, Lives, Change, TypeOK, Worlds
  <1>2. world.reviews.of \subseteq Reviews /\ world.inline.of \subseteq Nat
    BY <1>1 DEF ReviewLists, FindingLists
  <1>3. CASE Draft
    <2> DEFINE r == [id |-> now', head |-> pr.head, submitted |-> 0, state |-> "PENDING"]
               v == [at |-> now', of |-> world.reviews.of \cup {r}]
    <2>1. r \in Reviews
      BY <1>1 DEF Reviews
    <2>2. v \in ReviewLists /\ v.at = now'
      BY <1>1, <1>2, <2>1 DEF ReviewLists
    <2>3. world' = [world EXCEPT !.reviews = v] /\ world' \in Worlds
      BY <1>1, <1>3, <2>2, Written DEF Draft
    <2> QED
      BY <1>1, <2>2, <2>3 DEF SurfacesMove, Fresh, Worlds
  <1>4. CASE Submit(h, drafts, found)
    <2> DEFINE r == [id |-> now', head |-> h, submitted |-> now', state |-> "COMMENTED"]
               v == [at |-> now', of |-> (world.reviews.of \ drafts) \cup {r}]
               x == IF found THEN [at |-> now', of |-> world.inline.of \cup {now'}]
                    ELSE world.inline
               w == [world EXCEPT !.reviews = v]
    <2>1. r \in Reviews
      BY <1>1 DEF Reviews
    <2>2. v \in ReviewLists /\ v.at = now'
      BY <1>1, <1>2, <2>1 DEF ReviewLists
    <2>3. x \in FindingLists /\ Fresh(world.inline, x)
      BY <1>1, <1>2 DEF FindingLists, Fresh
    <2>4. w \in Worlds /\ world' = [w EXCEPT !.inline = x]
      BY <1>1, <1>4, <2>2, Written DEF Submit
    <2>5. world' \in Worlds
      BY <2>3, <2>4, Written
    <2> HIDE DEF x
    <2> QED
      BY <1>1, <2>2, <2>3, <2>4, <2>5 DEF SurfacesMove, Fresh, Worlds
  <1> QED
    BY <1>3, <1>4

LEMMA TalkMoves ==
    ASSUME TypeOK,
           \/ \E h \in Heads, t \in Triggers : Complete(h, t)
           \/ Request
           \/ \E f \in world.inline.of, k \in Dispositions : Dispose(f, k)
    PROVE  Moves
  <1>0. Lives
    BY DEF Complete, Request, Dispose
  <1> SUFFICES SurfacesMove
    BY <1>0, OnlySurfaces
  <1>1. /\ world \in Worlds /\ now' \in Nat /\ pr.head \in Heads
        /\ world.talk \in Talks /\ world.inline \in FindingLists
    BY <1>0, Lived DEF Lives, Change, TypeOK, Worlds
  <1>2. ASSUME NEW v \in Talks, v.at = now', world' = [world EXCEPT !.talk = v]
        PROVE  SurfacesMove
    <2>1. world' \in Worlds
      BY <1>1, <1>2, Written
    <2> QED
      BY <1>1, <1>2, <2>1 DEF SurfacesMove, Fresh, Worlds
  <1>3. ASSUME NEW h \in Heads, NEW t \in Triggers, Complete(h, t) PROVE SurfacesMove
    <2> DEFINE row == [head |-> h, done |-> now', trigger |-> t]
               v == [world.talk EXCEPT !.at = now', !.row = row]
    <2>1. row \in Rows
      BY <1>1 DEF Rows
    <2>2. v \in Talks /\ v.at = now'
      BY <1>1, <2>1 DEF Talks
    <2>3. world' = [world EXCEPT !.talk = v]
      BY <1>1, <1>3 DEF Complete, Worlds, Talks
    <2> QED
      BY <1>2, <2>2, <2>3
  <1>4. CASE Request
    <2> DEFINE v == [world.talk EXCEPT !.at = now', !.request = now']
    <2>1. v \in Talks /\ v.at = now'
      BY <1>1 DEF Talks
    <2>2. world' = [world EXCEPT !.talk = v]
      BY <1>1, <1>4 DEF Request, Worlds, Talks
    <2> QED
      BY <1>2, <2>1, <2>2
  <1>5. ASSUME NEW f \in world.inline.of, NEW k \in Dispositions, Dispose(f, k)
        PROVE  SurfacesMove
    <2> DEFINE a == [finding |-> f, subject |-> pr.head, kind |-> k]
               v == [world.talk EXCEPT !.at = now', !.answers = @ \cup {a}]
    <2>1. a \in Answers
      BY <1>1 DEF Answers, FindingLists
    <2>2. v \in Talks /\ v.at = now'
      BY <1>1, <2>1 DEF Talks
    <2>3. world' = [world EXCEPT !.talk = v]
      BY <1>1, <1>5 DEF Dispose, Worlds, Talks
    <2> QED
      BY <1>2, <2>2, <2>3
  <1> QED
    BY <1>3, <1>4, <1>5

LEMMA ReactionsMove ==
    ASSUME TypeOK, ShowEyes \/ HideEyes \/ ShowThumb
    PROVE  Moves
  <1>0. Lives
    BY DEF ShowEyes, HideEyes, ShowThumb
  <1> SUFFICES SurfacesMove
    BY <1>0, OnlySurfaces
  <1>1. world \in Worlds /\ now' \in Nat /\ world.reactions \in Reactions
    BY <1>0 DEF Lives, Change, TypeOK, Worlds
  <1>2. PICK v \in Reactions : /\ v.thumb \in {world.reactions.thumb, now'}
                               /\ world' = [world EXCEPT !.reactions = v]
    <2>1. CASE ShowEyes
      <3>1. [world.reactions EXCEPT !.eyes = now'] \in Reactions
        BY <1>1 DEF Reactions
      <3> QED
        BY <1>1, <2>1, <3>1 DEF ShowEyes, Reactions, Worlds
    <2>2. CASE HideEyes
      <3>1. [world.reactions EXCEPT !.eyes = 0] \in Reactions
        BY <1>1 DEF Reactions
      <3> QED
        BY <1>1, <2>2, <3>1 DEF HideEyes, Reactions, Worlds
    <2>3. CASE ShowThumb
      <3>1. [world.reactions EXCEPT !.thumb = now'] \in Reactions
        BY <1>1 DEF Reactions
      <3> QED
        BY <1>1, <2>3, <3>1 DEF ShowThumb, Reactions, Worlds
    <2> QED
      BY <2>1, <2>2, <2>3
  <1>3. world' \in Worlds
    BY <1>1, <1>2, Written
  <1> QED
    BY <1>1, <1>2, <1>3 DEF SurfacesMove, Fresh, Worlds

LEMMA WorldMoves ==
    ASSUME TypeOK, Happens
    PROVE  Moves
  <1>1. CASE MarkReady \/ ConvertToDraft \/ CloseOrReopen \/ Push
    BY <1>1, LifeMoves
  <1>2. CASE (\E s \in Status : JobEnds(s)) \/ RunEnds \/ Rerun
    BY <1>2, ChecksMove
  <1>3. CASE Draft
    <2>1. 1 \in Heads
      BY <1>3, Lived, Bounds DEF TypeOK, Heads
    <2> QED
      BY <1>3, <2>1, ReviewsMove
  <1>4. ASSUME NEW h \in Heads, NEW found \in BOOLEAN,
               NEW drafts \in SUBSET world.reviews.of, Submit(h, drafts, found)
        PROVE  Moves
    BY <1>4, ReviewsMove
  <1>5. CASE \/ \E h \in Heads, t \in Triggers : Complete(h, t)
             \/ Request
             \/ \E f \in world.inline.of, k \in Dispositions : Dispose(f, k)
    BY <1>5, TalkMoves
  <1>6. CASE ShowEyes \/ HideEyes \/ ShowThumb
    BY <1>6, ReactionsMove
  <1> QED
    BY <1>1, <1>2, <1>3, <1>4, <1>5, <1>6 DEF Happens

-----------------------------------------------------------------------------
(* The surfaces                                                            *)

LEMMA Listed ==
    /\ \A i \in 1 .. 7 : Order[i] \in Surfaces
    /\ \A s \in Surfaces : \E i \in 1 .. 7 : s = Order[i]
  <1>1. ASSUME NEW i \in 1 .. 7 PROVE Order[i] \in Surfaces
    <2>1. i = 1 \/ i = 2 \/ i = 3 \/ i = 4 \/ i = 5 \/ i = 6 \/ i = 7
      OBVIOUS
    <2> QED
      BY <2>1 DEF Order, Surfaces
  <1>2. ASSUME NEW s \in Surfaces PROVE \E i \in 1 .. 7 : s = Order[i]
    <2>1. /\ Order[1] = "reviews" /\ Order[2] = "inline" /\ Order[3] = "talk"
          /\ Order[4] = "timeline" /\ Order[5] = "reactions" /\ Order[6] = "checks"
          /\ Order[7] = "runs"
      BY DEF Order
    <2> QED
      BY <2>1 DEF Surfaces
  <1> QED
    BY <1>1, <1>2

\* What a stamp is.
LEMMA Stamps ==
    ASSUME NEW w \in Worlds
    PROVE  /\ \A s \in Surfaces \ {"reactions"} : w[s].at \in Nat
           /\ w["reactions"].thumb \in Nat
  BY DEF Worlds, Surfaces, ReviewLists, FindingLists, Talks, Timelines, Reactions, Outcomes

LEMMA Same ==
    ASSUME NEW v \in Worlds, NEW w \in Worlds, NEW s \in Surfaces, v[s] = w[s]
    PROVE  Follows(v, w, s) /\ Tells(v, w, s)
  BY Stamps DEF Follows, Tells

LEMMA Unread ==
    ASSUME NEW u, NEW v, NEW w, NEW s, u[s] = v[s], Follows(v, w, s)
    PROVE  Follows(u, w, s)
  BY DEF Follows

\* A surface that is read is copied, and the others stay as they were read.
LEMMA Copied ==
    ASSUME NEW v \in Worlds, NEW w \in Worlds, NEW s \in Surfaces
    PROVE  /\ [v EXCEPT ![s] = w[s]] \in Worlds
           /\ \A t \in Surfaces :
                [v EXCEPT ![s] = w[s]][t] = IF s = t THEN w[t] ELSE v[t]
  <1>1. s = "reviews" \/ s = "inline" \/ s = "talk" \/ s = "timeline"
        \/ s = "reactions" \/ s = "checks" \/ s = "runs"
    BY DEF Surfaces
  <1>2. [v EXCEPT ![s] = w[s]] \in Worlds
    BY <1>1, Written DEF Worlds
  <1>3. ASSUME NEW t \in Surfaces
        PROVE  [v EXCEPT ![s] = w[s]][t] = IF s = t THEN w[t] ELSE v[t]
    BY DEF Worlds, Surfaces
  <1> QED
    BY <1>2, <1>3

LEMMA MoveOne ==
    ASSUME world \in Worlds, SurfacesMove, NEW s \in Surfaces
    PROVE  IF s = "reactions" THEN world'[s].thumb \in {world[s].thumb, now'}
           ELSE world'[s] = world[s] \/ world'[s].at = now'
  BY DEF SurfacesMove, Fresh, Surfaces

\* What was there before a change is before what is there after it.
LEMMA FollowsMove ==
    ASSUME TypeOK, Stamped(world, now), Moves, NEW w \in Worlds, NEW s \in Surfaces,
           Follows(w, world, s)
    PROVE  Follows(w, world', s)
  <1>1. /\ world \in Worlds /\ world' \in Worlds /\ SurfacesMove
        /\ now \in Nat /\ now' = now + 1
    BY DEF TypeOK, Moves, SurfacesMove
  <1>2. CASE s = "reactions"
    <2>1. world'[s].thumb \in {world[s].thumb, now'} /\ world[s].thumb <= now
      BY <1>1, <1>2, MoveOne DEF Stamped
    <2>2. w[s].thumb \in Nat /\ world[s].thumb \in Nat
      BY <1>1, <1>2, Stamps
    <2> QED
      BY <1>1, <1>2, <2>1, <2>2 DEF Follows
  <1>3. CASE s # "reactions"
    <2>1. world'[s] = world[s] \/ world'[s].at = now'
      BY <1>1, <1>3, MoveOne
    <2>2. world[s].at <= now /\ w[s].at \in Nat /\ world[s].at \in Nat
      BY <1>1, <1>3, Stamps DEF Stamped
    <2> QED
      BY <1>1, <1>3, <2>1, <2>2 DEF Follows
  <1> QED
    BY <1>2, <1>3

LEMMA StampedMove ==
    ASSUME TypeOK, Stamped(world, now), Moves
    PROVE  Stamped(world', now')
  <1>1. /\ world \in Worlds /\ world' \in Worlds /\ SurfacesMove
        /\ now \in Nat /\ now' = now + 1
    BY DEF TypeOK, Moves, SurfacesMove
  <1>2. ASSUME NEW s \in Surfaces \ {"reactions"} PROVE world'[s].at <= now'
    <2>1. world'[s] = world[s] \/ world'[s].at = now'
      BY <1>1, MoveOne
    <2> QED
      BY <1>1, <2>1, Stamps DEF Stamped
  <1>3. world'["reactions"].thumb <= now'
    <2>1. world'["reactions"].thumb \in {world["reactions"].thumb, now'}
      BY <1>1, MoveOne DEF Surfaces
    <2> QED
      BY <1>1, <2>1, Stamps DEF Stamped
  <1> QED
    BY <1>2, <1>3 DEF Stamped

-----------------------------------------------------------------------------
(* The invariant                                                           *)

LEMMA Begins == Init => IInv
  <1> SUFFICES ASSUME Init PROVE IInv
    OBVIOUS
  <1>1. PICK s \in Starts : now = s.now /\ pr = s.pr /\ world = s.world
    BY DEF Init
  <1>2. NewWorld \in Worlds
    <2>1. /\ [at |-> 0, of |-> {}] \in ReviewLists
          /\ [at |-> 0, of |-> {}] \in FindingLists
          /\ [at |-> 0, row |-> NoRow, request |-> 0, answers |-> {}] \in Talks
          /\ [at |-> 0, ready |-> 0] \in Timelines
          /\ [eyes |-> 0, thumb |-> 0] \in Reactions
          /\ [at |-> 0, is |-> "running"] \in Outcomes
      BY DEF ReviewLists, FindingLists, Talks, Rows, Timelines, Reactions, Outcomes, Status
    <2> QED
      BY <2>1 DEF NewWorld, Worlds
  <1>3. /\ now \in Nat /\ pr \in Lifecycles /\ world \in Worlds
        /\ Stamped(world, now)
    BY <1>1, StartsPossible
  <1>4. TypeOK
    <2>1. seenPr \in Lifecycles /\ expected \in Heads
      BY <1>3, Lived DEF Init
    <2>2. turn \in [pr : Lifecycles, world : Worlds]
      BY <1>2, <1>3 DEF Init
    <2> QED
      BY <1>2, <1>3, <2>1, <2>2 DEF TypeOK, Init
  <1>5. FirstPass
    BY DEF Init, FirstPass
  <1> QED
    BY <1>3, <1>4, <1>5 DEF IInv, Init, Judged, Ready

\* A change of the pull request.
LEMMA ChangeKeeps ==
    ASSUME IInv, Happens
    PROVE  IInv'
  <1>1. /\ TypeOK /\ Stamped(world, now) /\ Moves
        /\ UNCHANGED <<expected, step, seenPr, seen, turn, verdict>> /\ verdict = "none"
    <2>1. Change
      BY DEF Happens, MarkReady, ConvertToDraft, CloseOrReopen, Push, Lives, JobEnds,
             RunEnds, Rerun, Draft, Submit, Complete, ShowEyes, HideEyes, ShowThumb,
             Request, Dispose
    <2> QED
      BY <2>1, WorldMoves DEF IInv, Change
  <1>2. Stamped(world', now')
    BY <1>1, StampedMove
  <1>3. TypeOK'
    BY <1>1 DEF TypeOK, Moves, SurfacesMove
  <1>4. /\ pr.head \in Int /\ pr'.head \in Int /\ seenPr.head \in Int
        /\ turn.pr.head \in Int /\ turn.world \in Worlds /\ seen \in Worlds
        /\ pr.head <= pr'.head
    BY <1>1, <1>3, Lived, Bounds DEF TypeOK, Heads, Moves
  <1>5. step >= 2 => seenPr'.head <= pr'.head
    BY <1>1, <1>4 DEF IInv
  <1>6. ASSUME step <= 8 PROVE FirstPass'
    <2>1. ASSUME NEW i \in 1 .. 7, i <= step - 2 PROVE Follows(seen, world', Order[i])
      BY <1>1, <1>4, <1>6, <2>1, Listed, FollowsMove DEF IInv, FirstPass
    <2> QED
      BY <1>1, <2>1 DEF FirstPass
  <1>7. ASSUME step >= 9 PROVE SecondPass'
    <2>1. SecondPass
      BY <1>7 DEF IInv
    <2>2. ASSUME NEW s \in Surfaces PROVE Follows(turn.world, world', s)
      BY <1>1, <1>4, <2>1, FollowsMove DEF SecondPass
    <2>3. LifeFollows(turn.pr, turn.world, pr', world')
      <3>1. "timeline" \in Surfaces \ {"reactions"}
        BY DEF Surfaces
      <3>2. /\ world.timeline.at <= now /\ now' = now + 1 /\ now \in Nat
            /\ turn.world.timeline.at \in Nat /\ world.timeline.at \in Nat
            /\ world'.timeline = world.timeline \/ world'.timeline.at = now'
        BY <1>1, <1>4, <3>1, Stamps DEF Stamped, TypeOK, Moves, SurfacesMove, Fresh
      <3>3. turn.world.timeline.at <= world.timeline.at
        BY <2>1, <3>1 DEF SecondPass, Follows
      <3>4. (pr'.draft = pr.draft /\ pr'.open = pr.open) \/ world'.timeline.at = now'
        BY <1>1 DEF Moves
      <3> QED
        BY <1>4, <2>1, <3>2, <3>3, <3>4 DEF SecondPass, LifeFollows
    <2> QED
      BY <1>1, <2>1, <2>2, <2>3 DEF SecondPass
  <1>8. Judged'
    BY <1>1 DEF Judged, Ready
  <1> QED
    BY <1>1, <1>2, <1>3, <1>5, <1>6, <1>7, <1>8 DEF IInv

LEMMA Typed ==
    ASSUME TypeOK
    PROVE  /\ world \in Worlds /\ seen \in Worlds /\ turn.world \in Worlds
           /\ pr.head \in Int /\ seenPr.head \in Int /\ turn.pr.head \in Int
           /\ step \in Int
  BY Lived, Bounds DEF TypeOK, Heads

\* The guard starts and reads the lifecycle.
LEMMA BeginKeeps ==
    ASSUME IInv, (\E h \in Heads : Begin(h)) \/ ReadPr
    PROVE  IInv'
  <1>1. TypeOK /\ Stamped(world, now) /\ Judged /\ verdict = "none"
    BY DEF IInv, Begin, ReadPr, Reads
  <1>2. CASE \E h \in Heads : Begin(h)
    <2>1. step' = 1 /\ UNCHANGED <<now, pr, world, seenPr, seen, turn, verdict>>
      BY <1>2 DEF Begin, Reads
    <2>2. TypeOK'
      BY <1>1, <1>2, <2>1 DEF TypeOK, Begin
    <2>3. FirstPass'
      BY <2>1 DEF FirstPass
    <2> QED
      BY <1>1, <2>1, <2>2, <2>3 DEF IInv, Stamped, Judged, Ready
  <1>3. CASE ReadPr
    <2>1. /\ step' = 2 /\ seenPr' = pr
          /\ UNCHANGED <<now, pr, world, expected, seen, turn, verdict>>
      BY <1>3 DEF ReadPr, Reads
    <2>2. TypeOK'
      BY <1>1, <2>1 DEF TypeOK
    <2>3. FirstPass'
      BY <2>1 DEF FirstPass
    <2>4. seenPr'.head <= pr'.head
      BY <1>1, <2>1, Typed
    <2> QED
      BY <1>1, <2>1, <2>2, <2>3, <2>4 DEF IInv, Stamped, Judged, Ready
  <1> QED
    BY <1>2, <1>3

\* A read of the first pass; the last one is the turn.
LEMMA ReadKeeps ==
    ASSUME IInv, Read
    PROVE  IInv'
  <1> DEFINE i == step - 1
             s == Order[i]
  <1>1. /\ TypeOK /\ Stamped(world, now) /\ seenPr.head <= pr.head /\ FirstPass
        /\ step \in 2 .. 8 /\ i \in 1 .. 7 /\ s \in Surfaces
        /\ verdict = "none" /\ UNCHANGED <<now, pr, world, expected, seenPr>>
        /\ seen' = [seen EXCEPT ![s] = world[s]]
    BY Listed DEF IInv, Read, Reads
  <1>2. /\ seen' \in Worlds
        /\ \A t \in Surfaces : seen'[t] = IF s = t THEN world[t] ELSE seen[t]
    <2>1. /\ seen \in Worlds /\ world \in Worlds /\ s \in Surfaces
          /\ seen' = [seen EXCEPT ![s] = world[s]]
      BY <1>1, Typed
    <2> HIDE DEF s
    <2>2. [seen EXCEPT ![s] = world[s]] \in Worlds
      BY <2>1, Copied
    <2>3. \A t \in Surfaces :
            [seen EXCEPT ![s] = world[s]][t] = IF s = t THEN world[t] ELSE seen[t]
      BY <2>1, Copied
    <2> QED
      BY <2>1, <2>2, <2>3
  <1>3. ASSUME NEW j \in 1 .. 7, j <= step - 1
        PROVE  Follows(seen', world, Order[j])
    <2> DEFINE t == Order[j]
    <2>1. t \in Surfaces
      BY Listed
    <2>2. CASE t = s
      BY <1>1, <1>2, <2>1, <2>2, Typed, Same
    <2>3. CASE t # s
      <3>1. j # i
        BY <2>3
      <3>2. Follows(seen, world, t)
        BY <1>1, <1>3, <3>1 DEF FirstPass
      <3>3. seen'[t] = seen[t]
        BY <1>2, <2>1, <2>3
      <3> QED
        BY <3>2, <3>3, Unread
    <2> QED
      BY <2>2, <2>3
  <1>4. CASE step # 8
    <2>1. step' = step + 1 /\ UNCHANGED <<turn, verdict>>
      BY <1>4 DEF Read
    <2>2. TypeOK'
      BY <1>1, <1>2, <1>4, <2>1 DEF TypeOK
    <2>3. FirstPass'
      BY <1>1, <1>3, <2>1 DEF FirstPass
    <2> QED
      BY <1>1, <1>4, <2>1, <2>2, <2>3 DEF IInv, Stamped, Judged, Ready
  <1>5. CASE step = 8
    <2>1. /\ turn' = [pr |-> pr, world |-> world]
          /\ \/ step' = 9 /\ verdict' = verdict
             \/ verdict' = "HELD_CODEX_UNAVAILABLE" /\ step' = step
      BY <1>5 DEF Read
    <2>2. TypeOK'
      BY <1>1, <1>2, <1>5, <2>1 DEF TypeOK, Held
    <2>3. FirstPass'
      <3>1. ASSUME NEW j \in 1 .. 7, j <= step' - 2, step' = step
            PROVE  Follows(seen', world', Order[j])
        BY <1>1, <1>3, <1>5, <3>1
      <3>2. ASSUME NEW j \in 1 .. 7, j <= step' - 2, step' = 9
            PROVE  Follows(seen', world', Order[j])
        BY <1>1, <1>3, <1>5, <3>2
      <3> QED
        BY <2>1, <3>1, <3>2 DEF FirstPass
    <2>4. SecondPass' \/ step' = 8
      <3>1. ASSUME NEW t \in Surfaces
            PROVE  Follows(seen', turn'.world, t) /\ Follows(turn'.world, world', t)
        <4>1. PICK j \in 1 .. 7 : t = Order[j]
          BY Listed
        <4>2. Follows(seen', world, t)
          BY <1>3, <1>5, <4>1
        <4>3. Follows(world, world, t)
          BY <1>1, Typed, Same
        <4> QED
          BY <1>1, <2>1, <4>2, <4>3
      <3>2. LifeFollows(turn'.pr, turn'.world, pr', world')
        BY <1>1, <2>1, Typed DEF LifeFollows
      <3>3. seenPr'.head <= turn'.pr.head
        BY <1>1, <2>1
      <3>4. ASSUME step' = 9, NEW j \in 1 .. 7, j <= step' - 9
            PROVE  Tells(seen', turn'.world, Order[j])
        BY <3>4
      <3> QED
        BY <1>5, <2>1, <3>1, <3>2, <3>3, <3>4 DEF SecondPass
    <2> QED
      BY <1>1, <1>5, <2>1, <2>2, <2>3, <2>4 DEF IInv, Stamped, Judged, Ready
  <1> QED
    BY <1>4, <1>5

\* What reads the same before and after the turn is the same at the turn.
LEMMA Between ==
    ASSUME NEW a \in Worlds, NEW b \in Worlds, NEW c \in Worlds, NEW s \in Surfaces,
           Follows(a, b, s), Follows(b, c, s), a[s] = c[s]
    PROVE  Tells(a, b, s)
  BY Stamps DEF Follows, Tells

LEMMA RereadKeeps ==
    ASSUME IInv, Reread
    PROVE  IInv'
  <1> DEFINE i == step - 8
             s == Order[i]
  <1>1. /\ TypeOK /\ Stamped(world, now) /\ seenPr.head <= pr.head /\ SecondPass
        /\ step \in 9 .. 15 /\ i \in 1 .. 7 /\ s \in Surfaces
        /\ verdict = "none"
        /\ UNCHANGED <<now, pr, world, expected, seenPr, seen, turn>>
    BY Listed DEF IInv, Reread, Reads
  <1>2. CASE step' = step
    <2>1. verdict' = "HELD_CODEX_UNAVAILABLE"
      BY <1>1, <1>2, Typed DEF Reread
    <2>2. TypeOK'
      BY <1>1, <1>2, <2>1 DEF TypeOK, Held
    <2>3. SecondPass'
      BY <1>1, <1>2 DEF SecondPass, Follows, Tells, LifeFollows
    <2> QED
      BY <1>1, <1>2, <2>1, <2>2, <2>3 DEF IInv, Stamped, Judged, Ready
  <1>3. CASE step' # step
    <2>1. step' = step + 1 /\ seen[s] = world[s] /\ verdict' = verdict
      BY <1>1, <1>3 DEF Reread
    <2>2. TypeOK'
      BY <1>1, <2>1 DEF TypeOK
    <2>3. Tells(seen, turn.world, s)
      BY <1>1, <2>1, Typed, Between DEF SecondPass
    <2>4. ASSUME NEW j \in 1 .. 7, j <= step' - 9 PROVE Tells(seen, turn.world, Order[j])
      <3>1. CASE j = i
        BY <2>3, <3>1
      <3>2. CASE j # i
        BY <1>1, <2>1, <2>4, <3>2 DEF SecondPass
      <3> QED
        BY <3>1, <3>2
    <2>5. SecondPass'
      BY <1>1, <2>4 DEF SecondPass
    <2> QED
      BY <1>1, <2>1, <2>2, <2>5 DEF IInv, Stamped, Judged, Ready
  <1> QED
    BY <1>2, <1>3

LEMMA JudgeHolds ==
    ASSUME NEW l, NEW w, NEW h
    PROVE  Judge(l, w, h) \in Held \cup {Ready}
  BY DEF Judge, Held

LEMMA EndKeeps ==
    ASSUME IInv, RereadPr \/ Fail
    PROVE  IInv'
  <1>1. /\ TypeOK /\ UNCHANGED <<now, pr, world, expected, step, seenPr, seen, turn>>
        /\ \/ verdict' = "HELD_CODEX_UNAVAILABLE"
           \/ /\ step = 16 /\ seenPr = pr
              /\ verdict' = Judge(seenPr, seen, expected)
    BY DEF IInv, RereadPr, Fail, Reads
  <1>2. verdict' \in Held \cup {Ready}
    BY <1>1, JudgeHolds DEF Held
  <1>3. TypeOK'
    BY <1>1, <1>2 DEF TypeOK
  <1>4. Judged'
    BY <1>1 DEF Judged, Ready
  <1> QED
    BY <1>1, <1>3, <1>4 DEF IInv, Stamped, FirstPass, SecondPass, Follows, Tells, LifeFollows

LEMMA Inductive == Spec => []IInv
  <1>1. IInv /\ [Next]_vars => IInv'
    <2> SUFFICES ASSUME IInv, [Next]_vars PROVE IInv'
      OBVIOUS
    <2>1. CASE Happens
      BY <2>1, ChangeKeeps
    <2>2. CASE Guard
      BY <2>2, BeginKeeps, ReadKeeps, RereadKeeps, EndKeeps DEF Guard
    <2>3. CASE UNCHANGED vars
      BY <2>3 DEF vars, IInv, TypeOK, Stamped, FirstPass, SecondPass, Follows, Tells,
                  LifeFollows, Judged
    <2> QED
      BY <2>1, <2>2, <2>3 DEF Next
  <1> QED
    BY <1>1, Begins, PTL DEF Spec

-----------------------------------------------------------------------------
(* The theorems                                                            *)

\* The surfaces, the lifecycle and the reads of the guard are well formed.
THEOREM TypeCorrect == Spec => []TypeOK
  <1>1. IInv => TypeOK
    BY DEF IInv
  <1> QED
    BY <1>1, Inductive, PTL

\* The judgement looks at nothing else.
LEMMA SameEvidence ==
    ASSUME NEW v, NEW w, NEW h,
           v.reviews = w.reviews, v.inline = w.inline, v.talk = w.talk,
           v.timeline = w.timeline, v.reactions.thumb = w.reactions.thumb,
           v.checks = w.checks, v.runs = w.runs
    PROVE  /\ CycleDone(v, h) => CycleDone(w, h)
           /\ ChecksPass(v) => ChecksPass(w)
           /\ OpenFindings(v, h) = OpenFindings(w, h)
  <1>1. Requested(v) = Requested(w)
    BY DEF Requested
  <1>2. Start(v) = Start(w)
    BY <1>1 DEF Start
  <1>3. Current(v, h) = Current(w, h)
    BY <1>2 DEF Current
  <1>4. Pending(v, h) = Pending(w, h)
    BY DEF Pending
  <1>5. RowBound(v, h) = RowBound(w, h)
    BY <1>1, <1>2 DEF RowBound
  <1>6. Terminal(v, h) = Terminal(w, h)
    BY <1>2, <1>3 DEF Terminal
  <1>7. CycleDone(v, h) => CycleDone(w, h)
    BY <1>4, <1>5, <1>6 DEF CycleDone
  <1>8. ChecksPass(v) => ChecksPass(w)
    BY DEF ChecksPass
  <1>9. OpenFindings(v, h) = OpenFindings(w, h)
    BY DEF OpenFindings
  <1> QED
    BY <1>7, <1>8, <1>9

LEMMA Positive ==
    ASSUME NEW l, NEW w, NEW h, Judge(l, w, h) = Ready
    PROVE  /\ l.head = h
           /\ CycleDone(w, h) /\ ChecksPass(w) /\ OpenFindings(w, h) = {}
  BY DEF Judge, Ready

\* A positive verdict tells of the moment between the passes.
THEOREM OneMoment == Spec => []DoneAtTheTurn
  <1>1. ASSUME IInv, verdict = Ready
        PROVE  /\ CycleDone(turn.world, expected)
               /\ ChecksPass(turn.world)
               /\ OpenFindings(turn.world, expected) = {}
               /\ turn.pr.head = expected
               /\ turn.pr = seenPr \/ turn.world.timeline.at < world.timeline.at
    <2>1. /\ TypeOK /\ step = 16 /\ seenPr = pr /\ SecondPass
          /\ Judge(seenPr, seen, expected) = Ready
      BY <1>1 DEF IInv, Judged
    <2>2. ASSUME NEW s \in Surfaces PROVE Tells(seen, turn.world, s)
      <3>1. PICK i \in 1 .. 7 : s = Order[i]
        BY Listed
      <3> QED
        BY <2>1, <3>1 DEF SecondPass
    <2>3. /\ seen.reviews = turn.world.reviews /\ seen.inline = turn.world.inline
          /\ seen.talk = turn.world.talk /\ seen.timeline = turn.world.timeline
          /\ seen.reactions.thumb = turn.world.reactions.thumb
          /\ seen.checks = turn.world.checks /\ seen.runs = turn.world.runs
      BY <2>2 DEF Tells, Surfaces
    <2>4. turn.pr.head = seenPr.head
      BY <2>1, Typed DEF SecondPass, LifeFollows
    <2>5. turn.pr = seenPr \/ turn.world.timeline.at < world.timeline.at
      <3>1. /\ turn.pr \in Lifecycles /\ seenPr \in Lifecycles
        BY <2>1 DEF TypeOK
      <3>2. ASSUME turn.pr.draft = seenPr.draft, turn.pr.open = seenPr.open
            PROVE  turn.pr = seenPr
        BY <2>4, <3>1, <3>2 DEF Lifecycles
      <3> QED
        BY <2>1, <3>2 DEF SecondPass, LifeFollows
    <2> QED
      BY <2>1, <2>3, <2>4, <2>5, SameEvidence, Positive
  <1>2. IInv => DoneAtTheTurn
    BY <1>1 DEF DoneAtTheTurn
  <1> QED
    BY <1>2, Inductive, PTL
=============================================================================
