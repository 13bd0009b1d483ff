------------------------ MODULE TrustedCheck_proofs ------------------------
(***************************************************************************)
(* What the trusted checks promise, for any number of checks.              *)
(*                                                                         *)
(* A result repeats what a reply or a report said, and those repeat what   *)
(* became of the subject: IInv says of each of these copies that it is     *)
(* true, and that what it is a copy of does not change any more.           *)
(***************************************************************************)
EXTENDS TrustedCheck, TLAPS

\* The namespace is over: nothing can start in it again.
Over(n) == n.init = "gone" /\ n.inside = {}

\* What is true of a namespace.
Sound(n) ==
    /\ n.init \in {"none", "config", "blocked"} =>
          n.fate = "none" /\ n.inside = {} /\ n.report = "none"
    /\ n.init \in {"waiting", "exiting"} => n.fate \notin {"none", "killed"}
    /\ "subject" \in n.inside => n.fate = "running"
    /\ n.report # "none" => n.fate = n.report

\* The copies of a check's report, of its containment, and its result.
CopiesTrue(c) ==
    /\ own[c].pinned => ns[c].init # "none"
    /\ own[c].took # "none" => ns[c].fate = own[c].took
    /\ chan[c].reply.exit # "none" => ns[c].fate = chan[c].reply.exit
    /\ chan[c].reply.contained => Over(ns[c])
    /\ result[c].containment = "verified" => Over(ns[c])
    /\ result[c].outcome = "SUCCESS" => result[c].containment = "verified" /\ ns[c].fate = "ok"
    /\ result[c].outcome = "FAILURE" => ns[c].fate = "bad"

IInv == TypeOK /\ \A c \in Checks : Sound(ns[c]) /\ CopiesTrue(c)

\* What a step from m to n within a namespace does: it keeps it sound, ends
\* nothing that was over, and changes no fate that a copy may have been made of.
Follows(m, n) ==
    /\ n \in Namespace /\ Sound(n)
    /\ Over(m) => Over(n)
    /\ m.init # "none" => n.init # "none"
    /\ m.fate \in {"setup", "ok", "bad"} => n.fate = m.fate

\* Three kinds of step: to a namespace without init, to one whose init lives,
\* and one that leaves init, subject and report alone.
LEMMA GoneFollows ==
    ASSUME NEW m \in Namespace, Sound(m), m.init # "none",
           NEW n \in Namespace, n.init = "gone",
           n.inside = m.inside, n.fate = m.fate, n.report = m.report
    PROVE  Follows(m, n)
  BY DEF Follows, Sound, Over

LEMMA InitFollows ==
    ASSUME NEW m \in Namespace, Sound(m), NEW n \in Namespace,
           m.init \notin {"none", "gone"}, n.init # "none",
           \/ n.init = "blocked" /\ m.init = "config" /\ n.inside = m.inside
              /\ n.fate = m.fate /\ n.report = m.report
           \/ n.init = "waiting" /\ m.init = "blocked" /\ n.report = m.report
              /\ \/ n.fate = "setup" /\ n.inside = m.inside
                 \/ n.fate = "running" /\ n.inside = {"subject"}
           \/ n.init = "exiting" /\ m.init = "waiting" /\ m.fate # "running"
              /\ n.inside = m.inside /\ n.fate = m.fate /\ n.report \in {"none", m.fate}
    PROVE  Follows(m, n)
  BY DEF Follows, Sound, Over

LEMMA InsideFollows ==
    ASSUME NEW m \in Namespace, Sound(m), NEW n \in Namespace,
           n.init = m.init, n.report = m.report,
           \/ n.inside = m.inside /\ n.fate = m.fate
           \/ /\ "subject" \in m.inside
              /\ m.init # "gone" /\ n.inside = m.inside \ {"subject"} /\ n.fate \in {"ok", "bad"}
           \/ /\ "subject" \in m.inside
              /\ m.init # "gone" /\ n.inside = m.inside \cup {"descendant"} /\ n.fate = m.fate
           \/ n.inside = m.inside \ {"descendant"} /\ n.fate = m.fate
           \/ /\ m.init = "gone" /\ "subject" \in m.inside
              /\ n.inside = m.inside \ {"subject"} /\ n.fate = "killed"
    PROVE  Follows(m, n)
  BY DEF Follows, Sound, Over, Namespace, Exits

\* A namespace whose supervisor has not been started yet.
LEMMA NewFollows ==
    ASSUME NEW m \in Namespace, Sound(m), NEW n \in Namespace,
           m.init = "none", n.init \in {"none", "config"},
           n.inside = m.inside, n.fate = m.fate, n.report = m.report
    PROVE  Follows(m, n)
  BY DEF Follows, Sound, Over

\* A step in the namespace of a check puts one record for another.
LEMMA Put ==
    ASSUME TypeOK, NEW c \in Checks, NEW n \in Namespace, InNamespace(c, n)
    PROVE  /\ ns' \in [Checks -> Namespace] /\ ns'[c] = n
           /\ \A d \in Checks : d # c => ns'[d] = ns[d]
           /\ UNCHANGED <<deployment, cancelEvent, executor, own, chan>>
  BY DEF TypeOK, InNamespace

\* Every step of supervisor, subject and kernel follows.
NsSteps(c) == SupervisorStep(c) \/ SubjectStep(c) \/ KernelStep(c) \/ SupervisorDies(c)
LEMMA NsStep ==
    ASSUME IInv, NEW c \in Checks, NsSteps(c)
    PROVE  \E n \in Namespace : Follows(ns[c], n) /\ InNamespace(c, n)
<1> DEFINE m == ns[c]
           Goal == \E n \in Namespace : Follows(m, n) /\ InNamespace(c, n)
<1>m. m \in Namespace /\ Sound(m)
  BY DEF IInv, TypeOK
<1>gone. ASSUME m.init # "none", InNamespace(c, Gone(c)) PROVE Goal
  <2> DEFINE n == [m EXCEPT !.init = "gone"]
  <2>1. /\ n \in Namespace /\ n.init = "gone" /\ n.inside = m.inside
        /\ n.fate = m.fate /\ n.report = m.report
    BY <1>m DEF Namespace, Exits
  <2>2. Follows(m, n) BY <1>m, <1>gone, <2>1, GoneFollows
  <2>3. QED BY <1>gone, <2>1, <2>2 DEF Gone
<1>1. CASE Greet(c)
  <2> DEFINE n == [m EXCEPT !.init = "blocked", !.hello = TRUE]
  <2>1. n \in Namespace /\ n.init = "blocked" /\ n.inside = m.inside
        /\ n.fate = m.fate /\ n.report = m.report
    BY <1>m DEF Namespace, Exits
  <2>2. m.init = "config" /\ (InNamespace(c, Gone(c)) \/ InNamespace(c, n))
    BY <1>1 DEF Greet
  <2>3. Follows(m, n) BY <1>m, <2>1, <2>2, InitFollows
  <2>4. QED BY <1>gone, <2>1, <2>2, <2>3
<1>2. CASE Leave(c) BY <1>2, <1>gone DEF Leave
<1>3. CASE Begin(c)
  <2> DEFINE n == [m EXCEPT !.init = "waiting", !.fate = "setup"]
             k == [m EXCEPT !.init = "waiting", !.fate = "running", !.inside = {"subject"}]
  <2>1. n \in Namespace /\ n.init = "waiting" /\ n.inside = m.inside
        /\ n.fate = "setup" /\ n.report = m.report
    BY <1>m DEF Namespace, Exits
  <2>2. k \in Namespace /\ k.init = "waiting" /\ k.inside = {"subject"}
        /\ k.fate = "running" /\ k.report = m.report
    BY <1>m DEF Namespace, Exits
  <2>3. /\ m.init = "blocked"
        /\ InNamespace(c, Gone(c)) \/ InNamespace(c, n) \/ InNamespace(c, k)
    BY <1>3 DEF Begin, Executed, NotExecuted
  <2>4. Follows(m, n) BY <1>m, <2>1, <2>3, InitFollows
  <2>5. Follows(m, k) BY <1>m, <2>2, <2>3, InitFollows
  <2>6. QED BY <1>gone, <2>1, <2>2, <2>3, <2>4, <2>5
<1>4. CASE Report(c)
  <2> DEFINE r == IF OwnerShut(c) THEN "none" ELSE m.fate
             n == [m EXCEPT !.init = "exiting", !.report = r]
  <2>1. m.init = "waiting" /\ m.fate # "running" /\ InNamespace(c, n)
    BY <1>4 DEF Report
  <2>2. r \in {"none", m.fate} OBVIOUS
  <2>3. m.fate \in {"setup", "ok", "bad"}
    BY <1>m, <2>1 DEF Sound, Namespace
  <2>4. r \in Exits BY <2>2, <2>3 DEF Exits
  <2> HIDE DEF r
  <2>5. n \in Namespace /\ n.init = "exiting" /\ n.inside = m.inside
        /\ n.fate = m.fate /\ n.report = r
    BY <1>m, <2>4 DEF Namespace, Exits
  <2>6. Follows(m, n) BY <1>m, <2>1, <2>2, <2>5, InitFollows
  <2>7. QED BY <2>1, <2>5, <2>6
<1>5. CASE Exit(c) BY <1>5, <1>gone DEF Exit
<1>6. CASE Spread(c)
  <2> DEFINE n == [m EXCEPT !.inside = @ \cup {"descendant"}]
  <2>1. n \in Namespace /\ n.init = m.init /\ n.inside = m.inside \cup {"descendant"}
        /\ n.fate = m.fate /\ n.report = m.report
    BY <1>m DEF Namespace, Exits
  <2>2. "subject" \in m.inside /\ m.init # "gone" /\ InNamespace(c, n)
    BY <1>6 DEF Spread, InitLives
  <2>3. Follows(m, n) BY <1>m, <2>1, <2>2, InsideFollows
  <2>4. QED BY <2>1, <2>2, <2>3
<1>7. ASSUME NEW f \in {"ok", "bad"}, SubjectEnds(c, f) PROVE Goal
  <2> DEFINE n == [m EXCEPT !.inside = @ \ {"subject"}, !.fate = f]
  <2>1. n \in Namespace /\ n.init = m.init /\ n.inside = m.inside \ {"subject"}
        /\ n.fate = f /\ n.report = m.report
    BY <1>m DEF Namespace, Exits
  <2>2. "subject" \in m.inside /\ m.init # "gone" /\ InNamespace(c, n)
    BY <1>7 DEF SubjectEnds, InitLives
  <2>3. Follows(m, n) BY <1>m, <2>1, <2>2, InsideFollows
  <2>4. QED BY <2>1, <2>2, <2>3
<1>8. CASE DescendantEnds(c)
  <2> DEFINE n == [m EXCEPT !.inside = @ \ {"descendant"}]
  <2>1. n \in Namespace /\ n.init = m.init /\ n.inside = m.inside \ {"descendant"}
        /\ n.fate = m.fate /\ n.report = m.report
    BY <1>m DEF Namespace, Exits
  <2>2. InNamespace(c, n) BY <1>8 DEF DescendantEnds
  <2>3. Follows(m, n) BY <1>m, <2>1, InsideFollows
  <2>4. QED BY <2>1, <2>2, <2>3
<1>o. ASSUME NEW o \in {"unshare", "gone"}, InNamespace(c, [m EXCEPT !.outside = o])
      PROVE  Goal
  <2> DEFINE n == [m EXCEPT !.outside = o]
  <2>1. n \in Namespace /\ n.init = m.init /\ n.inside = m.inside
        /\ n.fate = m.fate /\ n.report = m.report
    BY <1>m DEF Namespace, Exits
  <2>2. Follows(m, n) BY <1>m, <2>1, InsideFollows
  <2>3. QED BY <1>o, <2>1, <2>2
<1>9. CASE Arm(c) BY <1>9, <1>o DEF Arm
<1>10. CASE Enter(c)
  <2> DEFINE n == [m EXCEPT !.init = "config"]
  <2>1. n \in Namespace /\ n.init = "config" /\ n.inside = m.inside
        /\ n.fate = m.fate /\ n.report = m.report
    BY <1>m DEF Namespace, Exits
  <2>2. m.init = "none" /\ InNamespace(c, n) BY <1>10 DEF Enter
  <2>3. Follows(m, n) BY <1>m, <2>1, <2>2, NewFollows
  <2>4. QED BY <2>1, <2>2, <2>3
<1>11. CASE OutsideEnds(c) BY <1>11, <1>o DEF OutsideEnds
<1>12. CASE InitEnds(c) BY <1>12, <1>gone DEF InitEnds, InitLives
<1>13. CASE Reap(c)
  <2>1. PICK p \in m.inside :
           InNamespace(c, [m EXCEPT !.inside = @ \ {p},
                                    !.fate = IF p = "subject" THEN "killed" ELSE @])
    BY <1>13 DEF Reap
  <2> DEFINE n == [m EXCEPT !.inside = @ \ {p},
                            !.fate = IF p = "subject" THEN "killed" ELSE @]
  <2>2. n \in Namespace /\ n.init = m.init /\ n.inside = m.inside \ {p}
        /\ n.fate = (IF p = "subject" THEN "killed" ELSE m.fate) /\ n.report = m.report
    BY <1>m DEF Namespace, Exits
  <2>3. m.init = "gone" /\ p \in {"subject", "descendant"}
    BY <1>13, <1>m DEF Reap, Namespace
  <2>4. Follows(m, n) BY <1>m, <2>1, <2>2, <2>3, InsideFollows
  <2>5. QED BY <2>1, <2>2, <2>4
<1>14. CASE SupervisorDies(c) BY <1>14, <1>gone DEF SupervisorDies, InitLives
<1>15. QED
  BY <1>1, <1>2, <1>3, <1>4, <1>5, <1>6, <1>7, <1>8, <1>9, <1>10, <1>11, <1>12, <1>13, <1>14
  DEF NsSteps, SupervisorStep, SubjectStep, KernelStep

\* Such a step keeps the invariant, since the copies are of fates that stay.
LEMMA NsKeeps ==
    ASSUME IInv, NEW c \in Checks, NsSteps(c)
    PROVE  IInv'
<1>1. PICK n \in Namespace : Follows(ns[c], n) /\ InNamespace(c, n)
  BY NsStep
<1>2. /\ ns' \in [Checks -> Namespace] /\ ns'[c] = n
      /\ \A d \in Checks : d # c => ns'[d] = ns[d]
      /\ UNCHANGED <<deployment, cancelEvent, executor, own, chan>>
  BY <1>1, Put DEF IInv
<1>3. TypeOK'
  BY <1>2 DEF IInv, TypeOK, deployment, executor
<1>4. ASSUME NEW d \in Checks PROVE Sound(ns'[d]) /\ CopiesTrue(d)'
  <2>1. CASE d # c
    BY <2>1, <1>2 DEF IInv, CopiesTrue, executor
  <2>2. CASE d = c
    <3>1. own[c] \in Owner /\ chan[c] \in Channel
      BY DEF IInv, TypeOK
    <3>2. own[c].took \in Exits /\ chan[c].reply.exit \in Exits
      BY <3>1 DEF Owner, Channel
    <3>3. QED BY <2>2, <1>1, <1>2, <3>2 DEF IInv, CopiesTrue, Follows, Exits, executor
  <2>3. QED BY <2>1, <2>2
<1>5. QED BY <1>3, <1>4 DEF IInv

\* What a step outside the namespaces has to be to keep it: it leaves in them
\* what the copies are of, and copies it truly.
Untouched(d) ==
    /\ ns'[d].init = ns[d].init /\ ns'[d].inside = ns[d].inside
    /\ ns'[d].fate = ns[d].fate /\ ns'[d].report = ns[d].report
OwnCopied(d) ==
    /\ own'[d].pinned => own[d].pinned \/ ns[d].init # "none"
    /\ own'[d].took \in {own[d].took, "none", ns[d].report}
ReplyCopied(d) ==
    \/ chan'[d].reply = chan[d].reply
    \/ /\ chan'[d].reply.exit \in {"none", own[d].took}
       /\ chan'[d].reply.contained => Verified(d)
ResultCopied(d) ==
    \/ result'[d] = result[d]
    \/ \E exit \in {own[d].took, chan[d].reply.exit}, b \in BOOLEAN :
          /\ b => Verified(d) \/ chan[d].reply.contained
          /\ result'[d].containment = "verified" => b
          /\ result'[d].outcome = "SUCCESS" => exit = "ok" /\ result'[d].containment = "verified"
          /\ result'[d].outcome = "FAILURE" => exit = "bad"

LEMMA CopiesKept ==
    ASSUME IInv, NEW d \in Checks,
           Untouched(d), OwnCopied(d), ReplyCopied(d), ResultCopied(d)
    PROVE  Sound(ns'[d]) /\ CopiesTrue(d)'
<1>1. Sound(ns'[d])
  BY DEF IInv, Sound, Untouched
<1>2. Over(ns'[d]) <=> Over(ns[d])
  BY DEF Over, Untouched
<1>3. ns[d] \in Namespace
  BY DEF IInv, TypeOK
<1>4. Verified(d) => Over(ns[d])
  BY <1>3 DEF IInv, CopiesTrue, Verified, Live, InitLives, Over, Namespace
<1>5. /\ own'[d].pinned => ns'[d].init # "none"
      /\ own'[d].took # "none" => ns'[d].fate = own'[d].took
  BY DEF IInv, CopiesTrue, Sound, Untouched, OwnCopied
<1>6. /\ chan'[d].reply.exit # "none" => ns'[d].fate = chan'[d].reply.exit
      /\ chan'[d].reply.contained => Over(ns'[d])
  BY <1>2, <1>4 DEF IInv, CopiesTrue, Untouched, ReplyCopied
<1>7. /\ result'[d].containment = "verified" => Over(ns'[d])
      /\ result'[d].outcome = "SUCCESS" =>
            result'[d].containment = "verified" /\ ns'[d].fate = "ok"
      /\ result'[d].outcome = "FAILURE" => ns'[d].fate = "bad"
  <2>1. CASE result'[d] = result[d]
    BY <2>1, <1>2 DEF IInv, CopiesTrue, Untouched
  <2>2. CASE result'[d] # result[d]
    BY <2>2, <1>2, <1>4 DEF IInv, CopiesTrue, Untouched, ResultCopied
  <2>3. QED BY <2>1, <2>2
<1>8. QED BY <1>1, <1>5, <1>6, <1>7 DEF CopiesTrue

\* The updates the steps outside are made of.
Skin == ns' \in [Checks -> Namespace] /\ \A d \in Checks : Untouched(d)
LEMMA SkinSame == ASSUME IInv, UNCHANGED ns PROVE Skin
  BY DEF IInv, TypeOK, Skin, Untouched
LEMMA SkinKills ==
    ASSUME IInv, NEW c \in Checks, NEW kills \in SUBSET {"unshare", "init"},
           ns' = [ns EXCEPT ![c].killed = @ \cup kills]
    PROVE  Skin
  BY DEF IInv, TypeOK, Skin, Untouched, Namespace, Exits
LEMMA SkinFork ==
    ASSUME IInv, NEW c \in Checks, Fork(c) PROVE Skin
  BY DEF IInv, TypeOK, Skin, Untouched, Namespace, Exits, Fork
LEMMA SkinFlags ==
    ASSUME IInv, NEW c \in Checks,
           \/ ns' = [ns EXCEPT ![c].hello = FALSE]
           \/ ns' = [ns EXCEPT ![c].ready = TRUE]
    PROVE  Skin
<1>1. ns[c] \in Namespace
  BY DEF IInv, TypeOK
<1>2. /\ [ns[c] EXCEPT !.hello = FALSE] \in Namespace
      /\ [ns[c] EXCEPT !.ready = TRUE] \in Namespace
  BY <1>1 DEF Namespace, Exits
<1>3. ns' \in [Checks -> Namespace]
  BY <1>2 DEF IInv, TypeOK
<1>4. \A d \in Checks : Untouched(d)
  BY <1>1 DEF IInv, TypeOK, Untouched, Namespace
<1>5. QED BY <1>3, <1>4 DEF Skin

OwnKept == own' \in [Checks -> Owner] /\ \A d \in Checks : OwnCopied(d)
LEMMA OwnSame == ASSUME IInv, UNCHANGED own PROVE OwnKept
  BY DEF IInv, TypeOK, OwnKept, OwnCopied
LEMMA OwnStage ==
    ASSUME IInv, NEW c \in Checks, NEW s \in Stages, own' = [own EXCEPT ![c].stage = s]
    PROVE  OwnKept
  BY DEF IInv, TypeOK, OwnKept, OwnCopied, Owner

ResultKept ==
    /\ result' \in [Checks -> Result] /\ alive' \in BOOLEAN
    /\ at' \in 1..(NumChecks + 1)
    /\ pc' \in {"idle", "driving", "starting", "watching", "stopping", "collecting"}
    /\ cause' \in {"none", "CANCELLED", "TIMEOUT"}
    /\ \A d \in Checks : ResultCopied(d)
LEMMA ResultSame == ASSUME IInv, UNCHANGED executor PROVE ResultKept
  BY DEF IInv, TypeOK, ResultKept, ResultCopied, executor
LEMMA ResultAnswered ==
    ASSUME IInv, NEW c \in Checks, NEW o \in Outcomes,
           NEW k \in {"unknown", "verified", "failed"}, Answer(c, o, k),
           \E exit \in {own[c].took, chan[c].reply.exit}, b \in BOOLEAN :
              /\ b => Verified(c) \/ chan[c].reply.contained
              /\ k = "verified" => b
              /\ o = "SUCCESS" => exit = "ok" /\ k = "verified"
              /\ o = "FAILURE" => exit = "bad"
    PROVE  ResultKept
<1>1. /\ result' \in [Checks -> Result]
      /\ result'[c].outcome = o /\ result'[c].containment = k
      /\ \A d \in Checks : d # c => result'[d] = result[d]
  BY DEF IInv, TypeOK, Answer, Result
<1>2. c + 1 \in 1..(NumChecks + 1)
  BY NumChecksPos DEF Checks
<1>3. \A d \in Checks : ResultCopied(d)
  BY <1>1 DEF ResultCopied
<1>4. QED BY <1>1, <1>2, <1>3 DEF IInv, TypeOK, Answer, ResultKept
LEMMA ResultRefused ==
    ASSUME IInv, NEW c \in Checks, NEW o \in {"none", "TIMEOUT", "CANCELLED", "INFRA_FAILURE"},
           NEW k \in {"unknown", "failed"}, Answer(c, o, k)
    PROVE  ResultKept
  BY ResultAnswered DEF Outcomes

ChanKept == chan' \in [Checks -> Channel] /\ \A d \in Checks : ReplyCopied(d)
LEMMA ChanSame == ASSUME IInv, UNCHANGED chan PROVE ChanKept
  BY DEF IInv, TypeOK, ChanKept, ReplyCopied
LEMMA ChanFlags ==
    ASSUME IInv, NEW c \in Checks,
           \/ chan' = [chan EXCEPT ![c].ready = TRUE]
           \/ chan' = [chan EXCEPT ![c].ready = FALSE]
           \/ chan' = [chan EXCEPT ![c].cancel = TRUE]
    PROVE  ChanKept
<1>1. chan[c] \in Channel
  BY DEF IInv, TypeOK
<1>2. /\ [chan[c] EXCEPT !.ready = TRUE] \in Channel
      /\ [chan[c] EXCEPT !.ready = FALSE] \in Channel
      /\ [chan[c] EXCEPT !.cancel = TRUE] \in Channel
  BY <1>1 DEF Channel
<1>3. chan' \in [Checks -> Channel]
  BY <1>2 DEF IInv, TypeOK
<1>4. \A d \in Checks : chan'[d].reply = chan[d].reply
  BY <1>1 DEF IInv, TypeOK, Channel
<1>5. QED BY <1>3, <1>4 DEF ChanKept, ReplyCopied

LEMMA KeptInv ==
    ASSUME IInv, Skin, OwnKept, ResultKept, ChanKept,
           UNCHANGED deployment, cancelEvent' \in BOOLEAN
    PROVE  IInv'
<1>1. TypeOK'
  BY DEF IInv, TypeOK, Skin, OwnKept, ResultKept, ChanKept, deployment
<1>2. \A d \in Checks : Sound(ns'[d]) /\ CopiesTrue(d)'
  BY CopiesKept DEF Skin, OwnKept, ResultKept, ChanKept
<1>3. QED BY <1>1, <1>2 DEF IInv

LEMMA GiveUpKeeps ==
    ASSUME IInv, NEW c \in Checks, NEW kills \in SUBSET {"unshare", "init"},
           NEW k \in {"unknown", "failed"}, GiveUp(c, kills, k)
    PROVE  IInv'
<1>1. ResultKept
  BY ResultSame, ResultRefused DEF GiveUp
<1>2. Skin /\ OwnKept /\ ChanKept
  BY SkinKills, OwnStage, ChanSame DEF GiveUp, Stages
<1>3. QED BY <1>1, <1>2, KeptInv DEF GiveUp, IInv, TypeOK

LEMMA GoOnKeeps ==
    ASSUME IInv, NEW c \in Checks, NEW s \in Stages, GoOn(c, s), Skin
    PROVE  IInv'
  BY OwnStage, ResultSame, ChanSame, KeptInv DEF GoOn, IInv, TypeOK

LEMMA TargetsKilled == \A o : Targets(o) \in SUBSET {"unshare", "init"}
  BY DEF Targets

LEMMA OwnerKeeps ==
    ASSUME IInv, NEW c \in Checks, OwnerStep(c)
    PROVE  IInv'
<1> USE DEF Stages
<1>1. CASE BrokerBoots(c)
  BY <1>1, GoOnKeeps, SkinFork, GiveUpKeeps DEF BrokerBoots
<1>2. CASE Attach(c)
  <2>1. ASSUME NEW p \in BOOLEAN,
               own' = [own EXCEPT ![c].stage = "hello", ![c].pidfd = p],
               UNCHANGED <<deployment, cancelEvent, executor, ns, chan>>
        PROVE  IInv'
    <3>1. OwnKept
      BY <2>1 DEF IInv, TypeOK, OwnKept, OwnCopied, Owner
    <3>2. QED BY <2>1, <3>1, SkinSame, ResultSame, ChanSame, KeptInv DEF IInv, TypeOK
  <2>2. QED BY <1>2, <2>1, GiveUpKeeps DEF Attach
<1>3. CASE HearHello(c)
  BY <1>3, GoOnKeeps, SkinFlags DEF HearHello
<1>4. CASE HearNothing(c)
  BY <1>4, GiveUpKeeps, TargetsKilled DEF HearNothing
<1>5. CASE Discover(c)
  <2>1. OwnKept
    BY <1>5 DEF Discover, InitLives, IInv, TypeOK, OwnKept, OwnCopied, Owner
  <2>2. QED BY <1>5, <2>1, SkinSame, ResultSame, ChanSame, KeptInv DEF Discover, IInv, TypeOK
<1>6. CASE DiscoverNothing(c)
  BY <1>6, GiveUpKeeps, TargetsKilled DEF DiscoverNothing
<1>7. CASE LetStart(c)
  BY <1>7, GoOnKeeps, SkinFlags, GiveUpKeeps, TargetsKilled DEF LetStart
<1>8. CASE Announce(c)
  <2>1. CASE ExecutorShut(c)
    BY <1>8, <2>1, GiveUpKeeps, TargetsKilled DEF Announce
  <2>2. CASE ~ExecutorShut(c)
    BY <1>8, <2>2, OwnStage, SkinSame, ResultSame, ChanFlags, KeptInv DEF Announce, IInv, TypeOK
  <2>3. QED BY <2>1, <2>2
<1>9. CASE SeeEnd(c)
  <2>1. ns[c].report \in Exits
    BY DEF IInv, TypeOK, Namespace
  <2>2. OwnKept
    BY <1>9, <2>1 DEF SeeEnd, IInv, TypeOK, OwnKept, OwnCopied, Owner
  <2>3. QED BY <1>9, <2>2, SkinSame, ResultSame, ChanSame, KeptInv DEF SeeEnd, IInv, TypeOK
<1>c. ASSUME Cut(c) PROVE Skin /\ OwnKept
  <2>1. Skin BY <1>c, SkinKills, TargetsKilled DEF Cut
  <2>2. OwnKept
    BY <1>c DEF Cut, IInv, TypeOK, OwnKept, OwnCopied, Owner
  <2>3. QED BY <2>1, <2>2
<1>10. CASE BrokerCutOff(c)
  BY <1>10, <1>c, ResultSame, ChanSame, KeptInv DEF BrokerCutOff, IInv, TypeOK
<1>11. ASSUME NEW why \in {"CANCELLED", "TIMEOUT"}, CutOff(c, why) PROVE IInv'
  <2>1. ResultKept
    BY <1>11 DEF CutOff, IInv, TypeOK, ResultKept, ResultCopied
  <2>2. QED BY <1>11, <1>c, <2>1, ChanSame, KeptInv DEF CutOff, IInv, TypeOK
<1>12. CASE Conclude(c)
  <2> DEFINE b == Verified(c)
             o == IF own[c].cut THEN cause ELSE Classified(own[c].took, b)
  <2>1. own[c].took \in Exits /\ b \in BOOLEAN
    BY DEF IInv, TypeOK, Owner, Verified
  <2>2. /\ o \in Outcomes
        /\ o = "SUCCESS" => own[c].took = "ok" /\ b
        /\ o = "FAILURE" => own[c].took = "bad"
    BY <2>1 DEF IInv, TypeOK, Classified, Exits, Outcomes
  <2>3. /\ Contained(b) \in {"unknown", "verified", "failed"}
        /\ Contained(b) = "verified" <=> b
    BY <2>1 DEF Contained
  <2>4. ResultKept
    <3>1. Answer(c, o, Contained(b)) BY <1>12 DEF Conclude
    <3> HIDE DEF o
    <3>2. QED BY <2>1, <2>2, <2>3, <3>1, ResultAnswered
  <2>5. QED BY <1>12, <2>4, OwnStage, SkinSame, ChanSame, KeptInv DEF Conclude, IInv, TypeOK
<1>13. CASE Reply(c)
  <2> DEFINE r == [sent |-> TRUE, contained |-> Verified(c),
                   exit |-> IF own[c].cut THEN "none" ELSE own[c].took]
  <2>1. chan[c] \in Channel /\ own[c].took \in Exits /\ Verified(c) \in BOOLEAN
    BY DEF IInv, TypeOK, Owner, Verified
  <2>2. /\ r \in [sent : BOOLEAN, exit : Exits, contained : BOOLEAN]
        /\ r.exit \in {"none", own[c].took} /\ (r.contained <=> Verified(c))
    BY <2>1 DEF Exits
  <2>3. chan' = chan \/ chan' = [chan EXCEPT ![c].reply = r]
    BY <1>13 DEF Reply
  <2> HIDE DEF r
  <2>4. [chan[c] EXCEPT !.reply = r] \in Channel /\ [chan[c] EXCEPT !.reply = r].reply = r
    BY <2>1, <2>2 DEF Channel
  <2>5. ASSUME chan' = [chan EXCEPT ![c].reply = r] PROVE ChanKept
    <3>1. /\ chan' = [chan EXCEPT ![c] = [chan[c] EXCEPT !.reply = r]]
      BY <2>5
    <3>2. chan' \in [Checks -> Channel] /\ chan'[c].reply = r
          /\ \A d \in Checks : d # c => chan'[d] = chan[d]
      BY <2>4, <3>1 DEF IInv, TypeOK
    <3>3. QED BY <2>2, <3>2 DEF ChanKept, ReplyCopied
  <2>6. ChanKept BY <2>3, <2>5, ChanSame
  <2>7. QED BY <1>13, <2>6, OwnStage, SkinSame, ResultSame, KeptInv DEF Reply, IInv, TypeOK
<1>14. QED
  BY <1>1, <1>2, <1>3, <1>4, <1>5, <1>6, <1>7, <1>8, <1>9, <1>10, <1>11, <1>12, <1>13
  DEF OwnerStep

LEMMA ExecutorKeeps ==
    ASSUME IInv, ExecutorStep
    PROVE  IInv'
<1>1. CASE RefusePlan
  <2>1. ResultKept
    <3>1. \A d \in Checks : result'[d] = [outcome |-> "INFRA_FAILURE", containment |-> "unknown"]
      BY <1>1 DEF RefusePlan
    <3>2. \A d \in Checks : ResultCopied(d)
      <4>1. \A d \in Checks : /\ result'[d].outcome = "INFRA_FAILURE"
                              /\ result'[d].containment = "unknown"
        BY <3>1
      <4>2. QED BY <4>1 DEF ResultCopied
    <3>3. result' \in [Checks -> Result]
      <4>1. [outcome |-> "INFRA_FAILURE", containment |-> "unknown"] \in Result
        BY DEF Result, Outcomes
      <4>2. QED BY <1>1, <4>1 DEF RefusePlan
    <3>4. at' \in 1..(NumChecks + 1)
      BY <1>1, NumChecksPos DEF RefusePlan
    <3>5. QED BY <1>1, <3>2, <3>3, <3>4 DEF RefusePlan, IInv, TypeOK, ResultKept
  <2>2. QED BY <1>1, <2>1, SkinSame, OwnSame, ChanSame, KeptInv DEF RefusePlan, IInv, TypeOK
<1>2. ASSUME NEW c \in Checks, Decline(c) PROVE IInv'
  BY <1>2, ResultRefused, SkinSame, OwnSame, ChanSame, KeptInv DEF Decline, IInv, TypeOK
<1>3. ASSUME NEW c \in Checks, BeginDirect(c) PROVE IInv'
  <2>1. ResultKept
    BY <1>3 DEF BeginDirect, IInv, TypeOK, ResultKept, ResultCopied
  <2>2. QED
    BY <1>3, <2>1, SkinFork, OwnStage, ChanSame, KeptInv DEF BeginDirect, Stages, IInv, TypeOK
<1>4. ASSUME NEW c \in Checks, BeginBroker(c) PROVE IInv'
  <2>1. ResultKept
    BY <1>4 DEF BeginBroker, IInv, TypeOK, ResultKept, ResultCopied
  <2>2. QED
    BY <1>4, <2>1, SkinSame, OwnStage, ChanSame, KeptInv DEF BeginBroker, Stages, IInv, TypeOK
<1>5. ASSUME NEW c \in Checks, Proceed(c) PROVE IInv'
  <2>1. ResultKept
    BY <1>5 DEF Proceed, IInv, TypeOK, ResultKept, ResultCopied
  <2>2. QED BY <1>5, <2>1, SkinSame, OwnSame, ChanFlags, KeptInv DEF Proceed, IInv, TypeOK
<1>6. ASSUME NEW c \in Checks, NotReady(c) PROVE IInv'
  BY <1>6, ResultRefused, SkinSame, OwnSame, ChanSame, KeptInv DEF NotReady, IInv, TypeOK
<1>7. ASSUME NEW c \in Checks, NEW why \in {"CANCELLED", "TIMEOUT"}, Abandon(c, why) PROVE IInv'
  <2>1. ResultKept
    BY <1>7 DEF Abandon, IInv, TypeOK, ResultKept, ResultCopied
  <2>2. QED BY <1>7, <2>1, SkinSame, OwnSame, ChanFlags, KeptInv DEF Abandon, IInv, TypeOK
<1>r. ASSUME NEW c \in Checks
      PROVE  /\ chan[c].reply.sent \in BOOLEAN /\ chan[c].reply.contained \in BOOLEAN
             /\ chan[c].reply.exit \in Exits
  BY DEF IInv, TypeOK, Channel
<1>8. ASSUME NEW c \in Checks, Abandoned(c) PROVE IInv'
  <2> DEFINE b == chan[c].reply.sent /\ chan[c].reply.contained
  <2>1. b \in BOOLEAN /\ (b => chan[c].reply.contained)
    BY <1>r
  <2>2. Answer(c, cause, Contained(b)) BY <1>8 DEF Abandoned
  <2>3. cause \in Outcomes /\ cause \notin {"SUCCESS", "FAILURE"}
    BY DEF IInv, TypeOK, Outcomes
  <2> HIDE DEF b
  <2>4. /\ Contained(b) \in {"unknown", "verified", "failed"}
        /\ Contained(b) = "verified" => b
    BY <2>1 DEF Contained
  <2>5. ResultKept BY <2>1, <2>2, <2>3, <2>4, ResultAnswered
  <2>6. QED BY <1>8, <2>5, SkinSame, OwnSame, ChanSame, KeptInv DEF Abandoned, IInv, TypeOK
<1>9. ASSUME NEW c \in Checks, SeeBrokerEnd(c) PROVE IInv'
  <2>1. ResultKept
    BY <1>9 DEF SeeBrokerEnd, IInv, TypeOK, ResultKept, ResultCopied
  <2>2. QED BY <1>9, <2>1, SkinSame, OwnSame, ChanSame, KeptInv DEF SeeBrokerEnd, IInv, TypeOK
<1>10. ASSUME NEW c \in Checks, Collect(c) PROVE IInv'
  <2> DEFINE b == chan[c].reply.sent /\ chan[c].reply.contained
             o == Classified(chan[c].reply.exit, b)
  <2>1. b \in BOOLEAN /\ (b => chan[c].reply.contained)
    BY <1>r
  <2>2. Answer(c, o, Contained(b)) BY <1>10 DEF Collect
  <2> HIDE DEF b
  <2>3. /\ o \in Outcomes
        /\ o = "SUCCESS" => chan[c].reply.exit = "ok" /\ b
        /\ o = "FAILURE" => chan[c].reply.exit = "bad"
    BY <2>1, <1>r DEF Classified, Exits, Outcomes
  <2>4. /\ Contained(b) \in {"unknown", "verified", "failed"}
        /\ Contained(b) = "verified" <=> b
    BY <2>1 DEF Contained
  <2> HIDE DEF o
  <2>5. ResultKept BY <2>1, <2>2, <2>3, <2>4, ResultAnswered
  <2>6. QED BY <1>10, <2>5, SkinSame, OwnSame, ChanSame, KeptInv DEF Collect, IInv, TypeOK
<1>11. QED
  BY <1>1, <1>2, <1>3, <1>4, <1>5, <1>6, <1>7, <1>8, <1>9, <1>10 DEF ExecutorStep

LEMMA InitHolds == Init => IInv
<1> SUFFICES ASSUME Init PROVE IInv
  OBVIOUS
<1>1. TypeOK
  <2>1. Unanswered \in Result
    BY DEF Unanswered, Result, Outcomes
  <2>2. NoOwner \in Owner
    BY DEF NoOwner, Owner, Stages, Exits
  <2>3. NoNamespace \in Namespace
    BY DEF NoNamespace, Namespace, Exits
  <2>4. NoChannel \in Channel
    BY DEF NoChannel, Channel, Exits
  <2>5. 1 \in 1..(NumChecks + 1)
    BY NumChecksPos
  <2>6. QED BY <2>1, <2>2, <2>3, <2>4, <2>5 DEF Init, TypeOK
<1>2. ASSUME NEW c \in Checks PROVE Sound(ns[c]) /\ CopiesTrue(c)
  BY DEF Init, Sound, CopiesTrue, Unanswered, NoOwner, NoNamespace, NoChannel
<1>3. QED BY <1>1, <1>2 DEF IInv

LEMMA NextKeeps == IInv /\ [Next]_vars => IInv'
<1> SUFFICES ASSUME IInv, [Next]_vars PROVE IInv'
  OBVIOUS
<1>1. CASE ExecutorStep BY <1>1, ExecutorKeeps
<1>2. CASE ExecutorDies
  <2>1. ResultKept
    BY <1>2 DEF ExecutorDies, IInv, TypeOK, ResultKept, ResultCopied
  <2>2. QED BY <1>2, <2>1, SkinSame, OwnSame, ChanSame, KeptInv DEF ExecutorDies, IInv, TypeOK
<1>3. CASE Cancel
  BY <1>3, SkinSame, OwnSame, ResultSame, ChanSame, KeptInv DEF Cancel
<1>4. ASSUME NEW c \in Checks, OwnerStep(c) PROVE IInv'
  BY <1>4, OwnerKeeps
<1>5. ASSUME NEW c \in Checks, NsSteps(c) PROVE IInv'
  BY <1>5, NsKeeps
<1>6. ASSUME NEW c \in Checks, BrokerDies(c) PROVE IInv'
  BY <1>6, GoOnKeeps, SkinSame DEF BrokerDies, Stages
<1>7. CASE UNCHANGED vars
  BY <1>7, SkinSame, OwnSame, ResultSame, ChanSame, KeptInv DEF vars, IInv, TypeOK
<1>8. QED BY <1>1, <1>2, <1>3, <1>4, <1>5, <1>6, <1>7 DEF Next, NsSteps, Faults

\* The strengthened invariant holds of every run.
THEOREM Invariance == Spec => []IInv
  BY InitHolds, NextKeeps, PTL DEF Spec

\* Every variable has its type.
THEOREM Types == Spec => []TypeOK
  BY Invariance, PTL DEF IInv

\* A verified containment stays true for good: nothing lives in the namespace
\* of the check, whatever owner, supervisor and executor went through.
THEOREM ContainedIsTrue == Spec => []ContainedIsEmpty
<1>1. IInv => ContainedIsEmpty
  BY DEF IInv, CopiesTrue, ContainedIsEmpty, Over, Live, InitLives
<1>2. QED BY <1>1, Invariance, PTL

\* A success is the subject's own exit 0 in a namespace that is over, a failure
\* the subject's own exit with something else.
THEOREM VerdictsAreTrue == Spec => []VerdictIsTrue
<1>1. IInv => VerdictIsTrue
  BY DEF IInv, CopiesTrue, VerdictIsTrue, Over, Live, InitLives
<1>2. QED BY <1>1, Invariance, PTL

-----------------------------------------------------------------------------
(* Where a subject can start. *)

\* In this namespace no subject can start any more, or nobody has let it yet.
Barred(n) == ~n.ready \/ n.init = "gone" \/ "init" \in n.killed \/ n.outside = "gone"

\* Owners past the discovery have pinned; a subject is let start by such an owner.
Pinned(c) ==
    /\ own[c].stage # "none" => ~Refused(c)
    /\ own[c].stage \in {"ready", "announce", "watch", "verify"} => own[c].pinned
    /\ ns[c].ready => own[c].pinned /\ own[c].stage \in {"announce", "watch", "verify", "gone"}

\* A check that is still to come has no owner.
Ahead(c) == at < c \/ (at = c /\ pc = "idle") => own[c].stage = "none"

\* Where the executor is the owner it is past the checks it has answered, and
\* leaves a check with its namespace barred.
InTurn(c) ==
    /\ pc \in {"idle", "driving"}
    /\ result[c] # Unanswered => at > c
    /\ own[c].stage = "verify" \/ result[c] # Unanswered => Barred(ns[c])

Fit(c) == Pinned(c) /\ Ahead(c) /\ (~Brokered => InTurn(c))
FInv == IInv /\ \A c \in Checks : Fit(c)

\* What a step may do to a check that it is not about: the executor may move on.
Aside(d) ==
    /\ own'[d] = own[d] /\ result'[d] = result[d]
    /\ ns'[d].ready = ns[d].ready /\ (Barred(ns[d]) => Barred(ns'[d]))
    /\ at' < d => at < d
    /\ at' = d /\ pc' = "idle" => at < d \/ (at = d /\ pc = "idle")
    /\ at > d => at' > d
    /\ Brokered \/ pc' \in {pc, "idle", "driving"}

LEMMA AsideFits ==
    ASSUME NEW d \in Checks, Fit(d), Aside(d), UNCHANGED deployment
    PROVE  Fit(d)'
<1>1. (Refused(d)' <=> Refused(d)) /\ (Brokered' <=> Brokered)
  BY DEF deployment, Refused, Brokered
<1>2. Pinned(d)'
  BY <1>1 DEF Fit, Pinned, Aside
<1>3. Ahead(d)'
  BY DEF Fit, Ahead, Aside
<1>4. ASSUME ~Brokered PROVE InTurn(d)'
  BY <1>4 DEF Fit, InTurn, Aside
<1>5. QED BY <1>1, <1>2, <1>3, <1>4 DEF Fit

\* A step of no check's owner: of a namespace it bars no less, or of the rest.
LEMMA NsAside ==
    ASSUME IInv, NEW c \in Checks, NsSteps(c)
    PROVE  (\A d \in Checks : Aside(d)) /\ UNCHANGED deployment
<1> DEFINE m == ns[c]
           Goal == (\A d \in Checks : Aside(d)) /\ UNCHANGED deployment
<1>m. m \in Namespace
  BY DEF IInv, TypeOK
<1>1. ASSUME NEW n, InNamespace(c, n), n.ready = m.ready, n.killed = m.killed,
             m.init = "gone" => n.init = "gone", m.outside = "gone" => n.outside = "gone"
      PROVE  Goal
  <2>1. /\ ns'[c] = n /\ \A d \in Checks : d # c => ns'[d] = ns[d]
        /\ UNCHANGED <<deployment, cancelEvent, executor, own, chan>>
    BY <1>1 DEF InNamespace, IInv, TypeOK
  <2>2. QED BY <1>1, <2>1 DEF Aside, Barred, executor
<1>2. CASE InNamespace(c, Gone(c))
  BY <1>1, <1>2, <1>m DEF Gone, Namespace
<1>3. CASE SupervisorStep(c)
  <2>1. CASE Greet(c)
    BY <1>1, <1>2, <1>m, <2>1 DEF Greet, Namespace
  <2>2. CASE Begin(c)
    <3>1. \A n \in {Executed(c), NotExecuted(c)} :
             n.ready = m.ready /\ n.killed = m.killed /\ n.outside = m.outside
      BY <1>m DEF Executed, NotExecuted, Namespace
    <3>2. m.init # "gone"
      BY <2>2 DEF Begin
    <3>3. QED BY <1>1, <1>2, <2>2, <3>1, <3>2 DEF Begin
  <2>3. CASE Report(c)
    <3> DEFINE r == IF OwnerShut(c) THEN "none" ELSE m.fate
               n == [m EXCEPT !.init = "exiting", !.report = r]
    <3>1. InNamespace(c, n) /\ m.init # "gone"
      BY <2>3 DEF Report
    <3> HIDE DEF r
    <3>2. n.ready = m.ready /\ n.killed = m.killed /\ n.outside = m.outside
      BY <1>m DEF Namespace
    <3>3. QED BY <1>1, <3>1, <3>2
  <2>4. CASE Leave(c) \/ Exit(c)
    BY <1>2, <2>4 DEF Leave, Exit
  <2>5. QED BY <1>3, <2>1, <2>2, <2>3, <2>4 DEF SupervisorStep
<1>4. CASE SubjectStep(c)
  BY <1>1, <1>4, <1>m DEF SubjectStep, Spread, SubjectEnds, DescendantEnds, Namespace
<1>5. CASE KernelStep(c)
  <2>1. CASE Arm(c) \/ OutsideEnds(c)
    <3>1. PICK o \in {"unshare", "gone"} : InNamespace(c, [m EXCEPT !.outside = o])
      BY <2>1 DEF Arm, OutsideEnds
    <3>2. m.outside = "gone" => o = "gone"
      BY <2>1 DEF Arm, OutsideEnds
    <3>3. QED BY <1>1, <1>m, <3>1, <3>2 DEF Namespace
  <2>2. CASE Enter(c)
    BY <1>1, <1>m, <2>2 DEF Enter, Namespace
  <2>3. CASE InitEnds(c)
    BY <1>2, <2>3 DEF InitEnds
  <2>4. CASE Reap(c)
    <3>1. PICK p \in m.inside :
             InNamespace(c, [m EXCEPT !.inside = @ \ {p},
                                      !.fate = IF p = "subject" THEN "killed" ELSE @])
      BY <2>4 DEF Reap
    <3> DEFINE n == [m EXCEPT !.inside = @ \ {p},
                              !.fate = IF p = "subject" THEN "killed" ELSE @]
    <3>2. /\ n.ready = m.ready /\ n.killed = m.killed
          /\ n.init = m.init /\ n.outside = m.outside
      BY <1>m DEF Namespace
    <3>3. QED BY <1>1, <3>1, <3>2
  <2>5. QED BY <1>5, <2>1, <2>2, <2>3, <2>4 DEF KernelStep
<1>6. CASE SupervisorDies(c)
  BY <1>2, <1>6 DEF SupervisorDies
<1>7. QED BY <1>3, <1>4, <1>5, <1>6 DEF NsSteps

\* A step of one check is aside of the others, whether it answers the check or not.
LEMMA OthersAside ==
    ASSUME IInv, NEW c \in Checks, NEW d \in Checks, d # c,
           own'[d] = own[d], ns'[d] = ns[d],
           \/ UNCHANGED <<result, at, pc>>
           \/ UNCHANGED <<result, at>> /\ (Brokered \/ pc' = "driving") /\ pc' # "idle"
           \/ at = c /\ \E o, k : Answer(c, o, k)
    PROVE  Aside(d)
<1>1. c \in Int /\ d \in Int /\ at \in Int
  BY NumChecksPos DEF Checks, IInv, TypeOK
<1>2. CASE UNCHANGED <<result, at, pc>>
  BY <1>2 DEF Aside
<1>3. CASE UNCHANGED <<result, at>> /\ (Brokered \/ pc' = "driving") /\ pc' # "idle"
  BY <1>3 DEF Aside
<1>4. ASSUME NEW o, NEW k, at = c, Answer(c, o, k) PROVE Aside(d)
  <2>1. result'[d] = result[d] /\ at' = c + 1 /\ pc' = "idle"
    BY <1>4 DEF Answer, IInv, TypeOK
  <2>2. QED BY <1>1, <1>4, <2>1 DEF Aside
<1>5. QED BY <1>2, <1>3, <1>4

\* What a step has to do to the check it is about.
LEMMA StepFits ==
    ASSUME FInv, NEW c \in Checks, UNCHANGED deployment,
           \A d \in Checks : d # c => Aside(d),
           own[c].stage # "none" \/ own'[c].stage = "none" \/ ~Refused(c),
           Pinned(c) /\ own'[c].stage \in {"ready", "announce", "watch", "verify"}
             => own'[c].pinned,
           Pinned(c) /\ ns'[c].ready => own'[c].pinned
                           /\ own'[c].stage \in {"announce", "watch", "verify", "gone"},
           Ahead(c)', ~Brokered => InTurn(c)'
    PROVE  \A d \in Checks : Fit(d)'
<1>1. \A d \in Checks : (Refused(d)' <=> Refused(d)) /\ (Brokered' <=> Brokered)
  BY DEF deployment, Refused, Brokered
<1>2. Fit(c)'
  BY <1>1 DEF FInv, Fit, Pinned
<1>3. QED BY <1>2, AsideFits DEF FInv

\* An executor that answers a check leaves it behind, with its namespace barred.
LEMMA AnswerInTurn ==
    ASSUME IInv, NEW c \in Checks, NEW o, NEW k, at = c, Answer(c, o, k), Barred(ns'[c])
    PROVE  InTurn(c)' /\ Ahead(c)'
<1>1. pc' = "idle" /\ at' = c + 1 /\ c \in Int
  BY DEF Answer, Checks
<1>2. at' > c /\ ~(at' < c) /\ at' # c
  BY <1>1
<1>3. QED BY <1>1, <1>2 DEF InTurn, Ahead

\* The rest of a check stays as it is.
Elsewhere(c) == \A d \in Checks : d # c => own'[d] = own[d] /\ ns'[d] = ns[d]


LEMMA GiveUpFits ==
    ASSUME FInv, NEW c \in Checks, NEW kills \in SUBSET {"unshare", "init"}, NEW k,
           GiveUp(c, kills, k), Brokered \/ Busy(c), own[c].stage # "none",
           ~Brokered => Barred(ns[c])
    PROVE  \A d \in Checks : Fit(d)'
<1>1. own[c] \in Owner /\ ns[c] \in Namespace
  BY DEF FInv, IInv, TypeOK
<1>2. /\ own'[c] = [own[c] EXCEPT !.stage = "gone"]
      /\ ns'[c] = [ns[c] EXCEPT !.killed = @ \cup kills]
      /\ Elsewhere(c)
  BY DEF GiveUp, FInv, IInv, TypeOK, Elsewhere
<1>3. /\ own'[c].stage = "gone" /\ own'[c].pinned = own[c].pinned
      /\ ns'[c].ready = ns[c].ready /\ (Barred(ns[c]) => Barred(ns'[c]))
  BY <1>1, <1>2 DEF Owner, Namespace, Barred
<1>4. IF Brokered THEN UNCHANGED executor ELSE at = c /\ Answer(c, "INFRA_FAILURE", k)
  BY DEF GiveUp, Busy
<1>5. \A d \in Checks : d # c => Aside(d)
  BY <1>2, <1>4, OthersAside DEF Elsewhere, FInv, executor
<1>6. Ahead(c)' /\ (~Brokered => InTurn(c)')
  <2>1. CASE Brokered
    BY <1>4, <2>1 DEF FInv, Fit, Ahead, executor
  <2>2. CASE ~Brokered
    BY <1>3, <1>4, <2>2, AnswerInTurn DEF FInv
  <2>3. QED BY <2>1, <2>2
<1>7. QED BY <1>3, <1>5, <1>6, StepFits DEF GiveUp, Pinned

\* An owner goes on: only its stage and its own check change.
LEMMA OwnFits ==
    ASSUME FInv, NEW c \in Checks, UNCHANGED <<deployment, result, at, pc>>,
           Brokered \/ Busy(c), own[c].stage # "none", Elsewhere(c),
           Pinned(c) /\ own'[c].stage \in {"ready", "announce", "watch", "verify"}
             => own'[c].pinned,
           Pinned(c) /\ ns'[c].ready => own'[c].pinned
                           /\ own'[c].stage \in {"announce", "watch", "verify", "gone"},
           own'[c].stage = "verify" => Brokered \/ Barred(ns'[c])
    PROVE  \A d \in Checks : Fit(d)'
<1>1. \A d \in Checks : d # c => Aside(d)
  BY OthersAside DEF Elsewhere, FInv
<1>2. Ahead(c)'
  BY DEF FInv, Fit, Ahead
<1>3. ASSUME ~Brokered PROVE InTurn(c)'
  <2>1. at = c /\ c \in Int
    BY <1>3 DEF Busy, Checks
  <2>2. result[c] = Unanswered /\ pc = "driving"
    BY <1>3, <2>1 DEF FInv, Fit, InTurn, Ahead
  <2>3. QED BY <1>3, <2>1, <2>2 DEF InTurn
<1>4. QED BY <1>1, <1>2, <1>3, StepFits

LEMMA OwnerFits ==
    ASSUME FInv, NEW c \in Checks, OwnerStep(c)
    PROVE  \A d \in Checks : Fit(d)'
<1> DEFINE Goal == \A d \in Checks : Fit(d)'
<1>t. own[c] \in Owner /\ ns[c] \in Namespace
  BY DEF FInv, IInv, TypeOK
<1>f. Pinned(c) /\ (~Brokered => InTurn(c))
  BY DEF FInv, Fit
<1>u. ASSUME own[c].stage \in {"boot", "spawn", "hello", "discover", "ready"}
      PROVE  Barred(ns[c])
  BY <1>f, <1>u DEF Pinned, Barred
<1>1. CASE BrokerBoots(c)
  <2>1. ASSUME GoOn(c, "spawn"), Fork(c) PROVE Goal
    <3>1. /\ own'[c] = [own[c] EXCEPT !.stage = "spawn"]
          /\ ns'[c] = [ns[c] EXCEPT !.outside = "fork"]
          /\ Elsewhere(c)
      BY <2>1 DEF GoOn, Fork, FInv, IInv, TypeOK, Elsewhere
    <3>2. own'[c].stage = "spawn" /\ ns'[c].ready = ns[c].ready /\ ~ns[c].ready
      BY <1>1, <1>f, <1>t, <3>1 DEF Owner, Namespace, Pinned, BrokerBoots, Acts
    <3>3. QED BY <1>1, <2>1, <3>1, <3>2, OwnFits DEF GoOn, BrokerBoots, Acts, executor
  <2>2. QED BY <1>1, <1>u, <2>1, GiveUpFits DEF BrokerBoots, Acts
<1>2. CASE Attach(c)
  <2>1. ASSUME NEW p \in BOOLEAN,
               own' = [own EXCEPT ![c].stage = "hello", ![c].pidfd = p],
               UNCHANGED <<deployment, cancelEvent, executor, ns, chan>>
        PROVE  Goal
    <3>1. own'[c].stage = "hello" /\ ns'[c] = ns[c] /\ ~ns[c].ready /\ Elsewhere(c)
      BY <1>2, <1>f, <1>t, <2>1
      DEF Owner, Pinned, Attach, Acts, Elsewhere, FInv, IInv, TypeOK
    <3>2. QED BY <1>2, <2>1, <3>1, OwnFits DEF Attach, Acts, executor
  <2>2. QED BY <1>2, <1>u, <2>1, GiveUpFits DEF Attach, Acts
<1>3. CASE HearHello(c)
  <2>1. /\ own'[c] = [own[c] EXCEPT !.stage = "discover"]
        /\ ns'[c] = [ns[c] EXCEPT !.hello = FALSE]
        /\ Elsewhere(c)
    BY <1>3 DEF HearHello, GoOn, FInv, IInv, TypeOK, Elsewhere
  <2>2. own'[c].stage = "discover" /\ ns'[c].ready = ns[c].ready /\ ~ns[c].ready
    BY <1>3, <1>f, <1>t, <2>1 DEF Owner, Namespace, Pinned, HearHello, Acts
  <2>3. QED BY <1>3, <2>1, <2>2, OwnFits DEF HearHello, GoOn, Acts, executor
<1>4. CASE HearNothing(c) \/ DiscoverNothing(c)
  BY <1>4, <1>u, GiveUpFits, TargetsKilled DEF HearNothing, DiscoverNothing, Acts
<1>5. CASE Discover(c)
  <2>1. own'[c].stage = "ready" /\ own'[c].pinned /\ ns'[c] = ns[c] /\ ~ns[c].ready /\ Elsewhere(c)
    BY <1>5, <1>f, <1>t DEF Owner, Pinned, Discover, Acts, Elsewhere, FInv, IInv, TypeOK
  <2>2. QED BY <1>5, <2>1, OwnFits DEF Discover, Acts, executor
<1>6. CASE LetStart(c)
  <2>1. CASE InitLives(c)
    <3>1. PICK s \in {"announce", "watch"} : GoOn(c, s) /\ ns' = [ns EXCEPT ![c].ready = TRUE]
      BY <1>6, <2>1 DEF LetStart
    <3>2. own'[c] = [own[c] EXCEPT !.stage = s] /\ Elsewhere(c)
      BY <3>1 DEF GoOn, FInv, IInv, TypeOK, Elsewhere
    <3>3. own'[c].stage = s /\ own'[c].pinned
      BY <1>6, <1>f, <1>t, <3>2 DEF Owner, Pinned, LetStart, Acts
    <3>4. QED BY <1>6, <3>1, <3>2, <3>3, OwnFits DEF GoOn, LetStart, Acts, executor
  <2>2. CASE ~InitLives(c)
    BY <1>6, <1>u, <2>2, GiveUpFits, TargetsKilled DEF LetStart, Acts
  <2>3. QED BY <2>1, <2>2
<1>7. CASE Announce(c)
  <2>1. CASE ExecutorShut(c)
    <3>1. Brokered
      BY <1>7, <2>1 DEF Announce, Acts, ExecutorShut
    <3>2. QED BY <1>7, <2>1, <3>1, GiveUpFits, TargetsKilled DEF Announce, Acts
  <2>2. CASE ~ExecutorShut(c)
    <3>1. own'[c].stage = "watch" /\ own'[c].pinned /\ ns'[c] = ns[c] /\ Elsewhere(c)
      BY <1>7, <1>f, <1>t, <2>2
      DEF Owner, Pinned, Announce, Acts, Elsewhere, FInv, IInv, TypeOK
    <3>2. QED BY <1>7, <2>2, <3>1, OwnFits DEF Announce, Acts, executor
  <2>3. QED BY <2>1, <2>2
<1>8. CASE SeeEnd(c)
  <2>1. own'[c].stage = "verify" /\ own'[c].pinned /\ ns'[c] = ns[c] /\ Elsewhere(c)
    BY <1>8, <1>f, <1>t DEF Owner, Pinned, SeeEnd, Acts, Elsewhere, FInv, IInv, TypeOK
  <2>2. Brokered \/ Barred(ns'[c])
    BY <1>8, <2>1 DEF SeeEnd, Barred
  <2>3. QED BY <1>8, <2>1, <2>2, OwnFits DEF SeeEnd, Acts, executor
<1>9. ASSUME Cut(c), Acts(c, "watch"), UNCHANGED <<deployment, result, at, pc>> PROVE Goal
  <2>1. /\ own'[c] = [own[c] EXCEPT !.stage = "verify", !.cut = TRUE]
        /\ ns'[c] = [ns[c] EXCEPT !.killed = @ \cup Targets(own[c])]
        /\ Elsewhere(c)
    BY <1>9 DEF Cut, FInv, IInv, TypeOK, Elsewhere
  <2>2. own'[c].stage = "verify" /\ own'[c].pinned /\ "init" \in ns'[c].killed
    BY <1>9, <1>f, <1>t, <2>1 DEF Owner, Namespace, Pinned, Acts, Targets
  <2>3. QED BY <1>9, <2>1, <2>2, OwnFits DEF Acts, Barred
<1>10. CASE BrokerCutOff(c) BY <1>9, <1>10 DEF BrokerCutOff, executor
<1>11. ASSUME NEW why \in {"CANCELLED", "TIMEOUT"}, CutOff(c, why) PROVE Goal
  BY <1>9, <1>11 DEF CutOff
<1>e. ASSUME own' = [own EXCEPT ![c].stage = "gone"], Acts(c, "verify"), UNCHANGED ns
      PROVE  own'[c].stage = "gone" /\ own'[c].pinned /\ Elsewhere(c)
  BY <1>e, <1>f, <1>t DEF Owner, Pinned, Acts, Elsewhere, FInv, IInv, TypeOK
<1>12. CASE Conclude(c)
  <2>1. own'[c].stage = "gone" /\ own'[c].pinned /\ Elsewhere(c) /\ UNCHANGED <<deployment, ns>>
    BY <1>12, <1>e DEF Conclude
  <2>2. at = c /\ ~Brokered /\ \E o, k : Answer(c, o, k)
    BY <1>12 DEF Conclude, Acts, Busy
  <2>3. \A d \in Checks : d # c => Aside(d)
    BY <2>1, <2>2, OthersAside DEF Elsewhere, FInv
  <2>4. Barred(ns[c])
    BY <1>12, <1>f, <2>2 DEF InTurn, Conclude, Acts
  <2>5. InTurn(c)' /\ Ahead(c)'
    BY <2>1, <2>2, <2>4, AnswerInTurn DEF FInv
  <2>6. QED BY <1>12, <2>1, <2>3, <2>5, StepFits DEF Conclude, Acts
<1>13. CASE Reply(c)
  BY <1>13, <1>e, OwnFits DEF Reply, executor, Acts
<1>14. QED
  BY <1>1, <1>2, <1>3, <1>4, <1>5, <1>6, <1>7, <1>8, <1>10, <1>11, <1>12, <1>13
  DEF OwnerStep

LEMMA ExecutorFits ==
    ASSUME FInv, ExecutorStep
    PROVE  \A d \in Checks : Fit(d)'
<1> DEFINE Goal == \A d \in Checks : Fit(d)'
<1>f. \A c \in Checks : Pinned(c) /\ Ahead(c) /\ (~Brokered => InTurn(c))
  BY DEF FInv, Fit
<1>1. CASE RefusePlan
  <2>1. \A d \in Checks : Ahead(d)' /\ (~Brokered => InTurn(d)')
    <3>1. ASSUME NEW d \in Checks PROVE Ahead(d)' /\ InTurn(d)'
      <4>1. /\ at = 1 /\ pc = "idle" /\ pc' = "idle" /\ at' = NumChecks + 1
            /\ UNCHANGED <<own, ns>>
        BY <1>1 DEF RefusePlan, Turn, Busy
      <4>2. d \in Int /\ at' > d /\ ~(at' < d) /\ at' # d /\ (at < d \/ at = d)
        BY <4>1, NumChecksPos DEF Checks
      <4>3. own[d].stage = "none" /\ ~ns[d].ready
        BY <1>f, <4>1, <4>2 DEF Ahead, Pinned
      <4>4. QED BY <4>1, <4>2, <4>3 DEF InTurn, Ahead, Barred
    <3>2. QED BY <3>1
  <2>2. \A d \in Checks : /\ Refused(d)' <=> Refused(d)
                          /\ Brokered' <=> Brokered
                          /\ UNCHANGED <<own, ns>>
    BY <1>1 DEF RefusePlan, deployment, Refused, Brokered
  <2>3. QED BY <1>f, <2>1, <2>2 DEF Fit, Pinned
\* The executor answers a check whose namespace a broker has, or nobody.
<1>a. ASSUME NEW c \in Checks, NEW o, NEW k, at = c, Answer(c, o, k),
             UNCHANGED <<deployment, own, ns>>, Brokered \/ ~ns[c].ready
      PROVE  Goal
  <2>1. \A d \in Checks : d # c => Aside(d)
    BY <1>a, OthersAside DEF FInv
  <2>2. Ahead(c)' /\ (~Brokered => InTurn(c)')
    <3>1. CASE Brokered
      <4>1. at' = c + 1 /\ c \in Int
        BY <1>a DEF Answer, Checks
      <4>2. QED BY <3>1, <4>1 DEF Ahead
    <3>2. CASE ~Brokered
      BY <1>a, <3>2, AnswerInTurn DEF FInv, Barred
    <3>3. QED BY <3>1, <3>2
  <2>3. QED BY <1>a, <2>1, <2>2, StepFits DEF Pinned
<1>2. ASSUME NEW c \in Checks, Decline(c) PROVE Goal
  <2>1. at = c /\ pc = "idle" /\ Answer(c, "INFRA_FAILURE", "unknown")
        /\ UNCHANGED <<deployment, own, ns>>
    BY <1>2 DEF Decline, Turn, Busy
  <2>2. ~ns[c].ready
    BY <1>f, <2>1 DEF Ahead, Pinned
  <2>3. QED BY <1>a, <2>1, <2>2
<1>3. ASSUME NEW c \in Checks, BeginDirect(c) PROVE Goal
  <2>1. /\ at = c /\ pc = "idle" /\ pc' = "driving" /\ ~Brokered /\ ~Refused(c)
        /\ UNCHANGED <<deployment, result, at>>
    BY <1>3 DEF BeginDirect, Turn, Busy, Runnable
  <2>2. /\ own'[c] = [own[c] EXCEPT !.stage = "spawn"]
        /\ ns'[c] = [ns[c] EXCEPT !.outside = "fork"]
        /\ Elsewhere(c)
    BY <1>3 DEF BeginDirect, Fork, FInv, IInv, TypeOK, Elsewhere
  <2>3. own[c].stage = "none" /\ ~ns[c].ready
    BY <1>f, <2>1 DEF Ahead, Pinned
  <2>4. own'[c].stage = "spawn" /\ ~ns'[c].ready
    BY <2>2, <2>3 DEF FInv, IInv, TypeOK, Owner, Namespace
  <2>5. \A d \in Checks : d # c => Aside(d)
    BY <2>1, <2>2, OthersAside DEF Elsewhere, FInv
  <2>6. InTurn(c)' /\ Ahead(c)'
    <3>1. c \in Int BY DEF Checks
    <3>2. QED BY <1>f, <2>1, <2>4, <3>1 DEF InTurn, Ahead, Barred
  <2>7. QED BY <2>1, <2>4, <2>5, <2>6, StepFits
<1>4. ASSUME NEW c \in Checks, BeginBroker(c) PROVE Goal
  <2>1. /\ at = c /\ pc = "idle" /\ pc' = "starting" /\ Brokered /\ ~Refused(c)
        /\ UNCHANGED <<deployment, result, at, ns>>
        /\ own'[c] = [own[c] EXCEPT !.stage = "boot"] /\ Elsewhere(c)
    BY <1>4 DEF BeginBroker, Turn, Busy, Runnable, FInv, IInv, TypeOK, Elsewhere
  <2>2. own[c].stage = "none" /\ ~ns'[c].ready
    BY <1>f, <2>1 DEF Ahead, Pinned
  <2>3. own'[c].stage = "boot"
    BY <2>1 DEF FInv, IInv, TypeOK, Owner
  <2>4. \A d \in Checks : d # c => Aside(d)
    BY <2>1, OthersAside DEF Elsewhere, FInv
  <2>5. Ahead(c)'
    <3>1. c \in Int BY DEF Checks
    <3>2. QED BY <2>1, <3>1 DEF Ahead
  <2>6. QED BY <2>1, <2>2, <2>3, <2>4, <2>5, StepFits
<1>5. ASSUME NEW c \in Checks, NotReady(c) \/ Abandoned(c) \/ Collect(c) PROVE Goal
  <2>1. /\ pc \notin {"idle", "driving"} /\ at = c /\ UNCHANGED <<deployment, own, ns>>
        /\ \E o, k : Answer(c, o, k)
    BY <1>5 DEF NotReady, Abandoned, Collect, Waits, Busy
  <2>2. Brokered
    BY <1>f, <2>1 DEF InTurn
  <2>3. QED BY <1>a, <2>1, <2>2
<1>6. ASSUME NEW c \in Checks, NEW why, Proceed(c) \/ SeeBrokerEnd(c) \/ Abandon(c, why)
      PROVE  Goal
  <2>1. /\ pc \notin {"idle", "driving"} /\ pc' # "idle"
        /\ UNCHANGED <<deployment, own, ns, result, at>>
    BY <1>6 DEF Proceed, SeeBrokerEnd, Abandon, Waits
  <2>2. Brokered
    BY <1>f, <2>1 DEF InTurn
  <2>3. \A d \in Checks : (Refused(d)' <=> Refused(d)) /\ Brokered'
    BY <2>1, <2>2 DEF deployment, Refused, Brokered
  <2>4. QED BY <1>f, <2>1, <2>3 DEF Fit, Pinned, Ahead
<1>7. QED BY <1>1, <1>2, <1>3, <1>4, <1>5, <1>6 DEF ExecutorStep

LEMMA InitFits == Init => FInv
<1> SUFFICES ASSUME Init PROVE FInv
  OBVIOUS
<1>1. \A c \in Checks : /\ own[c].stage = "none" /\ ~ns[c].ready /\ result[c] = Unanswered
                        /\ pc = "idle"
  BY DEF Init, NoOwner, NoNamespace
<1>2. QED BY <1>1, InitHolds DEF FInv, Fit, Pinned, InTurn, Ahead

LEMMA NextFits == FInv /\ [Next]_vars => FInv'
<1> SUFFICES ASSUME FInv, [Next]_vars PROVE \A d \in Checks : Fit(d)'
  BY NextKeeps DEF FInv
<1>1. CASE ExecutorStep BY <1>1, ExecutorFits
<1>2. ASSUME UNCHANGED <<deployment, own, ns, result, at, pc>> PROVE \A d \in Checks : Fit(d)'
  BY <1>2 DEF FInv, Fit, Pinned, InTurn, Ahead, Brokered, Refused, deployment
<1>3. CASE ExecutorDies \/ Cancel \/ UNCHANGED vars
  BY <1>2, <1>3 DEF ExecutorDies, Cancel, vars, executor
<1>4. ASSUME NEW c \in Checks, OwnerStep(c) PROVE \A d \in Checks : Fit(d)'
  BY <1>4, OwnerFits
<1>5. ASSUME NEW c \in Checks, NsSteps(c) PROVE \A d \in Checks : Fit(d)'
  BY <1>5, NsAside, AsideFits DEF FInv
<1>6. ASSUME NEW c \in Checks, BrokerDies(c) PROVE \A d \in Checks : Fit(d)'
  <2>1. /\ Brokered /\ own[c].stage # "none" /\ UNCHANGED <<deployment, executor, ns>>
        /\ own'[c] = [own[c] EXCEPT !.stage = "gone"] /\ Elsewhere(c)
    BY <1>6 DEF BrokerDies, GoOn, FInv, IInv, TypeOK, Elsewhere
  <2>2. own'[c].stage = "gone" /\ own'[c].pinned = own[c].pinned
    BY <2>1 DEF FInv, IInv, TypeOK, Owner
  <2>3. QED BY <2>1, <2>2, OwnFits DEF executor, Pinned
<1>7. QED BY <1>1, <1>3, <1>4, <1>5, <1>6 DEF Next, NsSteps, Faults

\* Only the supervisor's own step, once it was let, starts a subject.
LEMMA StartIsLet ==
    ASSUME IInv, [Next]_vars, NEW c \in Checks, Starts(c)
    PROVE  ns[c].ready /\ ~Barred(ns[c])
<1>q. ASSUME "subject" \in ns'[c].inside => "subject" \in ns[c].inside PROVE FALSE
  BY <1>q DEF Starts
<1>1. ASSUME Skin PROVE FALSE
  BY <1>1, <1>q DEF Skin, Untouched
<1>2. CASE ExecutorStep
  BY <1>1, <1>2, SkinSame, SkinFork
  DEF ExecutorStep, RefusePlan, Decline, BeginDirect, BeginBroker, Proceed, NotReady,
      Abandoned, SeeBrokerEnd, Collect, Abandon
<1>3. CASE ExecutorDies \/ Cancel \/ UNCHANGED vars
  BY <1>1, <1>3, SkinSame DEF ExecutorDies, Cancel, vars
<1>4. ASSUME NEW d \in Checks, OwnerStep(d) PROVE FALSE
  <2>1. ASSUME NEW kills \in SUBSET {"unshare", "init"}, NEW k, GiveUp(d, kills, k) PROVE FALSE
    BY <1>1, <2>1, SkinKills DEF GiveUp
  <2>2. CASE BrokerBoots(d) \/ Attach(d) \/ HearHello(d) \/ HearNothing(d) \/ Discover(d)
             \/ DiscoverNothing(d)
    BY <1>1, <2>1, <2>2, SkinSame, SkinFork, SkinFlags, TargetsKilled
    DEF BrokerBoots, Attach, HearHello, HearNothing, Discover, DiscoverNothing, GoOn
  <2>3. CASE LetStart(d) \/ Announce(d)
    BY <1>1, <2>1, <2>3, SkinSame, SkinFlags, TargetsKilled DEF LetStart, Announce, GoOn
  <2>4. CASE SeeEnd(d) \/ Conclude(d) \/ Reply(d)
    BY <1>1, <2>4, SkinSame DEF SeeEnd, Conclude, Reply
  <2>5. ASSUME Cut(d) PROVE FALSE
    BY <1>1, <2>5, SkinKills, TargetsKilled DEF Cut
  <2>6. QED BY <1>4, <2>2, <2>3, <2>4, <2>5 DEF OwnerStep, BrokerCutOff, CutOff
<1>5. ASSUME NEW d \in Checks, BrokerDies(d) PROVE FALSE
  BY <1>1, <1>5, SkinSame DEF BrokerDies
<1>6. ASSUME NEW d \in Checks, NsSteps(d) PROVE ns[c].ready /\ ~Barred(ns[c])
  <2> DEFINE m == ns[d]
  <2>m. m \in Namespace
    BY DEF IInv, TypeOK
  <2>1. ASSUME NEW n, InNamespace(d, n), "subject" \in n.inside => "subject" \in m.inside
        PROVE  FALSE
    BY <1>q, <2>1 DEF InNamespace, IInv, TypeOK
  <2>2. CASE InNamespace(d, Gone(d))
    BY <2>1, <2>2, <2>m DEF Gone, Namespace
  <2>3. CASE Begin(d)
    <3>1. d = c
      BY <1>q, <2>3 DEF Begin, InNamespace, IInv, TypeOK
    <3>2. QED BY <2>3, <3>1 DEF Begin, InitRuns, Barred
  <2>4. CASE Greet(d) \/ Leave(d) \/ Exit(d)
    BY <2>1, <2>2, <2>4, <2>m DEF Greet, Leave, Exit, Namespace
  <2>5. CASE Report(d)
    <3> DEFINE r == IF OwnerShut(d) THEN "none" ELSE m.fate
               n == [m EXCEPT !.init = "exiting", !.report = r]
    <3>1. InNamespace(d, n)
      BY <2>5 DEF Report
    <3> HIDE DEF r
    <3>2. n.inside = m.inside
      BY <2>m DEF Namespace
    <3>3. QED BY <2>1, <3>1, <3>2
  <2>6. CASE SubjectStep(d)
    BY <2>1, <2>6, <2>m DEF SubjectStep, Spread, SubjectEnds, DescendantEnds, Namespace
  <2>7. CASE Arm(d) \/ Enter(d) \/ OutsideEnds(d) \/ InitEnds(d)
    BY <2>1, <2>2, <2>7, <2>m DEF Arm, Enter, OutsideEnds, InitEnds, Namespace
  <2>8. CASE Reap(d)
    <3>1. PICK p \in m.inside :
             InNamespace(d, [m EXCEPT !.inside = @ \ {p},
                                      !.fate = IF p = "subject" THEN "killed" ELSE @])
      BY <2>8 DEF Reap
    <3> DEFINE n == [m EXCEPT !.inside = @ \ {p},
                              !.fate = IF p = "subject" THEN "killed" ELSE @]
    <3>2. n.inside = m.inside \ {p}
      BY <2>m DEF Namespace
    <3>3. QED BY <2>1, <3>1, <3>2
  <2>9. CASE SupervisorDies(d)
    BY <2>2, <2>9 DEF SupervisorDies
  <2>10. QED
    BY <1>6, <2>3, <2>4, <2>5, <2>6, <2>7, <2>8, <2>9
    DEF NsSteps, SupervisorStep, KernelStep
<1>7. QED BY <1>2, <1>3, <1>4, <1>5, <1>6 DEF Next, NsSteps, Faults

\* A subject starts only where its owner has pinned the namespace and its check
\* may run; where the executor is the owner, never after the check was answered.
THEOREM StartsArePinned == Spec => StartsPinned
<1>1. ASSUME FInv, [Next]_vars, NEW c \in Checks, Starts(c)
      PROVE  /\ own[c].pinned /\ ~Refused(c)
             /\ ~Brokered => result[c] = Unanswered
  BY <1>1, StartIsLet DEF FInv, Fit, Pinned, InTurn
<1>2. FInv /\ [Next]_vars =>
         [\A c \in Checks : Starts(c) =>
             /\ own[c].pinned /\ ~Refused(c)
             /\ ~Brokered => result[c] = Unanswered]_vars
  BY <1>1
<1>3. QED BY <1>2, InitFits, NextFits, PTL DEF Spec, StartsPinned
-----------------------------------------------------------------------------
(* One result for each check, in the order of the plan, and for good. *)

Answered(c) == result[c].outcome # "none"
InOrder == \A c \in Checks : Answered(c) <=> c < at

\* A check that was stopped was stopped for a reason, which its result will give.
CutLate(c) == own[c].cut => own[c].stage \in {"verify", "gone"}
Caused(c) == ~Brokered /\ at = c /\ own[c].stage = "verify" /\ own[c].cut => cause # "none"
CInv ==
    /\ InOrder
    /\ pc = "stopping" => cause # "none"
    /\ \A c \in Checks : CutLate(c) /\ Caused(c)

Final == \A c \in Checks : Answered(c) => result'[c] = result[c]

\* An owner goes from stage to stage, and cuts off only at the end and for a reason.
OwnGoes(c) ==
    \/ /\ own'[c].cut = own[c].cut
       /\ own[c].cut => own'[c].stage \in {own[c].stage, "gone"}
    \/ own'[c].stage = "verify" /\ (Brokered \/ cause' # "none")

\* A step that answers no check.
LEMMA UnansweredKeeps ==
    ASSUME FInv, CInv, UNCHANGED <<deployment, result, at>>, \A d \in Checks : OwnGoes(d),
           cause' \in {cause, "CANCELLED", "TIMEOUT"},
           pc' = "stopping" => pc = "stopping" \/ cause' # "none"
    PROVE  CInv' /\ Final
<1>1. InOrder' /\ Final
  BY DEF CInv, InOrder, Answered, Final
<1>2. Brokered' <=> Brokered
  BY DEF deployment, Brokered
<1>3. \A d \in Checks : CutLate(d)' /\ Caused(d)'
  BY <1>2 DEF CInv, CutLate, Caused, OwnGoes
<1>4. pc' = "stopping" => cause' # "none"
  BY DEF CInv
<1>5. QED BY <1>1, <1>3, <1>4 DEF CInv

\* A step in which the executor answers its check, whichever owner it had.
LEMMA AnsweredKeeps ==
    ASSUME FInv, CInv, NEW c \in Checks, NEW o \in Outcomes \ {"none"}, NEW k,
           at = c, Answer(c, o, k), UNCHANGED deployment, OwnGoes(c),
           \A d \in Checks : d # c => own'[d] = own[d]
    PROVE  CInv' /\ Final
<1>1. /\ at' = c + 1 /\ pc' = "idle" /\ result'[c].outcome = o
      /\ \A d \in Checks : d # c => result'[d] = result[d]
  BY DEF Answer, FInv, IInv, TypeOK
<1>2. \A d \in Checks : /\ d \in Int /\ c \in Int
                        /\ d < at' <=> d < at \/ d = c
                        /\ at' = d => at < d /\ d # c
  BY <1>1 DEF Checks
<1>3. ~Answered(c)
  BY <1>2 DEF CInv, InOrder
<1>4. InOrder' /\ Final
  BY <1>1, <1>2, <1>3 DEF CInv, InOrder, Answered, Final
<1>5. ASSUME NEW d \in Checks PROVE CutLate(d)' /\ Caused(d)'
  <2>1. CASE d = c
    BY <1>2, <2>1 DEF CInv, CutLate, Caused, OwnGoes
  <2>2. CASE d # c
    <3>1. own'[d] = own[d] /\ (at' = d => own[d].stage = "none")
      BY <1>2, <2>2 DEF FInv, Fit, Ahead
    <3>2. QED BY <3>1 DEF CInv, CutLate, Caused
  <2>3. QED BY <2>1, <2>2
<1>6. QED BY <1>1, <1>4, <1>5 DEF CInv

LEMMA StageGoes ==
    ASSUME FInv, CInv, NEW c \in Checks, NEW s, own' = [own EXCEPT ![c].stage = s],
           s = "gone" \/ own[c].stage \notin {"verify", "gone"}
    PROVE  OwnGoes(c) /\ \A d \in Checks : d # c => own'[d] = own[d]
<1>1. own[c] \in Owner /\ (own[c].cut => own[c].stage \in {"verify", "gone"})
  BY DEF FInv, IInv, TypeOK, CInv, CutLate
<1>2. /\ own'[c] = [own[c] EXCEPT !.stage = s]
      /\ \A d \in Checks : d # c => own'[d] = own[d]
  BY DEF FInv, IInv, TypeOK
<1>3. own'[c].cut = own[c].cut /\ own'[c].stage = s
  BY <1>1, <1>2 DEF Owner
<1>4. QED BY <1>1, <1>2, <1>3 DEF OwnGoes

LEMMA OwnStays == ASSUME NEW d, own'[d] = own[d] PROVE OwnGoes(d)
  BY DEF OwnGoes

LEMMA GiveUpAnswers ==
    ASSUME FInv, CInv, NEW c \in Checks, NEW kills, NEW k, GiveUp(c, kills, k),
           Brokered \/ Busy(c)
    PROVE  CInv' /\ Final
<1>1. /\ own' = [own EXCEPT ![c].stage = "gone"] /\ UNCHANGED deployment
      /\ IF Brokered THEN UNCHANGED executor ELSE at = c /\ Answer(c, "INFRA_FAILURE", k)
  BY DEF GiveUp, Busy
<1>2. OwnGoes(c) /\ \A d \in Checks : d # c => own'[d] = own[d]
  BY <1>1, StageGoes
<1>3. CASE Brokered
  BY <1>1, <1>2, <1>3, OwnStays, UnansweredKeeps DEF executor
<1>4. CASE ~Brokered
  <2>1. "INFRA_FAILURE" \in Outcomes \ {"none"}
    BY DEF Outcomes
  <2>2. QED BY <1>1, <1>2, <1>4, <2>1, AnsweredKeeps
<1>5. QED BY <1>3, <1>4

LEMMA OwnerAnswers == ASSUME FInv, CInv, NEW c \in Checks, OwnerStep(c) PROVE CInv' /\ Final
<1>t. own[c] \in Owner /\ own \in [Checks -> Owner]
  BY DEF FInv, IInv, TypeOK
<1>s. ASSUME NEW s, own' = [own EXCEPT ![c].stage = s], UNCHANGED <<deployment, executor>>,
             own[c].stage \notin {"verify", "gone"} \/ s = "gone"
      PROVE  CInv' /\ Final
  BY <1>s, StageGoes, OwnStays, UnansweredKeeps DEF executor
<1>1. CASE BrokerBoots(c)
  BY <1>1, <1>s, GiveUpAnswers DEF BrokerBoots, Acts, GoOn
<1>2. CASE Attach(c)
  <2>1. ASSUME NEW p \in BOOLEAN,
               own' = [own EXCEPT ![c].stage = "hello", ![c].pidfd = p],
               UNCHANGED <<deployment, executor>>
        PROVE  CInv' /\ Final
    <3>1. ~own[c].cut
      BY <1>2 DEF Attach, Acts, CInv, CutLate
    <3>2. OwnGoes(c) /\ \A d \in Checks : d # c => own'[d] = own[d]
      BY <1>t, <2>1, <3>1 DEF Owner, OwnGoes
    <3>3. QED BY <2>1, <3>2, OwnStays, UnansweredKeeps DEF executor
  <2>2. QED BY <1>2, <2>1, GiveUpAnswers DEF Attach, Acts
<1>3. CASE HearHello(c)
  BY <1>3, <1>s DEF HearHello, Acts, GoOn
<1>4. CASE HearNothing(c) \/ DiscoverNothing(c)
  BY <1>4, GiveUpAnswers DEF HearNothing, DiscoverNothing, Acts
<1>5. CASE Discover(c)
  <2>1. ~own[c].cut /\ own' = [own EXCEPT ![c].stage = "ready", ![c].pinned = TRUE]
    BY <1>5 DEF Discover, Acts, CInv, CutLate
  <2>2. OwnGoes(c) /\ \A d \in Checks : d # c => own'[d] = own[d]
    BY <1>t, <2>1 DEF Owner, OwnGoes
  <2>3. QED BY <1>5, <2>2, OwnStays, UnansweredKeeps DEF Discover, executor
<1>6. CASE LetStart(c)
  BY <1>6, <1>s, GiveUpAnswers DEF LetStart, Acts, GoOn
<1>7. CASE Announce(c)
  BY <1>7, <1>s, GiveUpAnswers DEF Announce, Acts
<1>8. CASE SeeEnd(c)
  <2>1. ~own[c].cut /\ own' = [own EXCEPT ![c].stage = "verify", ![c].took = ns[c].report]
    BY <1>8 DEF SeeEnd, Acts, CInv, CutLate
  <2>2. OwnGoes(c) /\ \A d \in Checks : d # c => own'[d] = own[d]
    BY <1>t, <2>1 DEF Owner, OwnGoes
  <2>3. QED BY <1>8, <2>2, OwnStays, UnansweredKeeps DEF SeeEnd, executor
<1>9. ASSUME Cut(c), Brokered \/ cause' # "none"
      PROVE  \A d \in Checks : OwnGoes(d)
  <2>1. own'[c].stage = "verify" /\ \A d \in Checks : d # c => own'[d] = own[d]
    BY <1>9, <1>t DEF Cut, Owner
  <2>2. QED BY <1>9, <2>1 DEF OwnGoes
<1>10. CASE BrokerCutOff(c)
  BY <1>9, <1>10, UnansweredKeeps DEF BrokerCutOff, executor
<1>11. ASSUME NEW why \in {"CANCELLED", "TIMEOUT"}, CutOff(c, why) PROVE CInv' /\ Final
  BY <1>9, <1>11, UnansweredKeeps DEF CutOff
<1>12. CASE Conclude(c)
  <2> DEFINE o == IF own[c].cut THEN cause ELSE Classified(own[c].took, Verified(c))
  <2>1. /\ at = c /\ ~Brokered /\ own[c].stage = "verify"
        /\ own' = [own EXCEPT ![c].stage = "gone"]
        /\ UNCHANGED deployment /\ \E k : Answer(c, o, k)
    BY <1>12 DEF Conclude, Acts, Busy
  <2>2. Classified(own[c].took, Verified(c)) \in {"INFRA_FAILURE", "FAILURE", "SUCCESS"}
    BY <1>t DEF Classified, Owner, Exits
  <2>3. own[c].cut => cause \in {"CANCELLED", "TIMEOUT"}
    BY <2>1 DEF CInv, Caused, FInv, IInv, TypeOK
  <2>4. o \in Outcomes \ {"none"}
    BY <2>2, <2>3 DEF Outcomes
  <2> HIDE DEF o
  <2>5. QED BY <2>1, <2>4, StageGoes, AnsweredKeeps
<1>13. CASE Reply(c)
  BY <1>13, <1>s DEF Reply, Acts
<1>14. QED
  BY <1>1, <1>2, <1>3, <1>4, <1>5, <1>6, <1>7, <1>8, <1>10, <1>11, <1>12, <1>13
  DEF OwnerStep

LEMMA ExecutorAnswers == ASSUME FInv, CInv, ExecutorStep PROVE CInv' /\ Final
<1>1. CASE RefusePlan
  <2>1. /\ at = 1 /\ pc = "idle" /\ at' = NumChecks + 1
        /\ result' = [c \in Checks |-> [outcome |-> "INFRA_FAILURE", containment |-> "unknown"]]
        /\ UNCHANGED <<deployment, pc, cause, own>>
    BY <1>1 DEF RefusePlan, Turn, Busy
  <2>2. \A c \in Checks : c < at' /\ ~(c < at) /\ at' # c
    BY <2>1, NumChecksPos DEF Checks
  <2>3. \A c \in Checks : result'[c].outcome # "none" /\ ~Answered(c)
    BY <2>1, <2>2 DEF CInv, InOrder
  <2>4. QED BY <2>1, <2>2, <2>3 DEF CInv, InOrder, Answered, Final, CutLate, Caused
<1>a. ASSUME NEW c \in Checks, NEW o \in Outcomes \ {"none"}, NEW k, at = c, Answer(c, o, k),
             UNCHANGED <<deployment, own>>
      PROVE  CInv' /\ Final
  BY <1>a, OwnStays, AnsweredKeeps
<1>2. ASSUME NEW c \in Checks, Decline(c) \/ NotReady(c) PROVE CInv' /\ Final
  <2>1. "INFRA_FAILURE" \in Outcomes \ {"none"}
    BY DEF Outcomes
  <2>2. QED BY <1>2, <1>a, <2>1 DEF Decline, NotReady, Turn, Waits, Busy
<1>3. ASSUME NEW c \in Checks, BeginDirect(c) \/ BeginBroker(c) PROVE CInv' /\ Final
  <2>1. /\ at = c /\ pc = "idle" /\ pc' # "stopping" /\ UNCHANGED <<deployment, result, at, cause>>
        /\ \E s : own' = [own EXCEPT ![c].stage = s]
    BY <1>3 DEF BeginDirect, BeginBroker, Turn, Busy
  <2>2. own[c].stage = "none"
    BY <2>1 DEF FInv, Fit, Ahead
  <2>3. QED BY <2>1, <2>2, StageGoes, OwnStays, UnansweredKeeps
<1>4. ASSUME NEW c \in Checks, Abandoned(c) PROVE CInv' /\ Final
  <2>1. /\ at = c /\ pc = "stopping" /\ UNCHANGED <<deployment, own>>
        /\ \E k : Answer(c, cause, k)
    BY <1>4 DEF Abandoned, Waits, Busy
  <2>2. cause \in Outcomes \ {"none"}
    BY <2>1 DEF CInv, FInv, IInv, TypeOK, Outcomes
  <2>3. QED BY <1>a, <2>1, <2>2
<1>5. ASSUME NEW c \in Checks, Collect(c) PROVE CInv' /\ Final
  <2> DEFINE reply == chan[c].reply
             b == reply.sent /\ reply.contained
             o == Classified(reply.exit, b)
  <2>1. at = c /\ UNCHANGED <<deployment, own>> /\ \E k : Answer(c, o, k)
    BY <1>5 DEF Collect, Waits, Busy
  <2>2. reply.exit \in Exits
    BY DEF FInv, IInv, TypeOK, Channel
  <2> HIDE DEF b
  <2>3. o \in Outcomes \ {"none"}
    BY <2>2 DEF Classified, Exits, Outcomes
  <2> HIDE DEF o
  <2>4. QED BY <1>a, <2>1, <2>3
<1>6. ASSUME NEW c \in Checks, NEW why \in {"CANCELLED", "TIMEOUT"},
             Proceed(c) \/ SeeBrokerEnd(c) \/ Abandon(c, why)
      PROVE  CInv' /\ Final
  BY <1>6, OwnStays, UnansweredKeeps DEF Proceed, SeeBrokerEnd, Abandon
<1>7. QED BY <1>1, <1>2, <1>3, <1>4, <1>5, <1>6 DEF ExecutorStep

LEMMA NextAnswers == FInv /\ CInv /\ [Next]_vars => CInv' /\ Final
<1> SUFFICES ASSUME FInv, CInv, [Next]_vars PROVE CInv' /\ Final
  OBVIOUS
<1>1. CASE ExecutorDies \/ Cancel \/ UNCHANGED vars
  BY <1>1, OwnStays, UnansweredKeeps DEF ExecutorDies, Cancel, vars, executor
<1>2. ASSUME NEW c \in Checks, NsSteps(c) PROVE CInv' /\ Final
  <2>1. \E n \in Namespace : InNamespace(c, n)
    BY <1>2, NsStep DEF FInv
  <2>2. QED BY <2>1, OwnStays, UnansweredKeeps DEF InNamespace, executor
<1>3. ASSUME NEW c \in Checks, BrokerDies(c) PROVE CInv' /\ Final
  BY <1>3, StageGoes, OwnStays, UnansweredKeeps DEF BrokerDies, GoOn, executor
<1>4. QED BY <1>1, <1>2, <1>3, ExecutorAnswers, OwnerAnswers DEF Next, NsSteps, Faults

LEMMA Answers == Spec => [](FInv /\ CInv)
<1>1. Init => CInv
  <2> SUFFICES ASSUME Init PROVE CInv
    OBVIOUS
  <2>1. \A c \in Checks : ~Answered(c) /\ ~(c < at) /\ ~own[c].cut
    BY DEF Init, Answered, Unanswered, NoOwner, Checks
  <2>2. QED BY <2>1 DEF Init, CInv, InOrder, CutLate, Caused
<1>2. QED BY <1>1, InitFits, NextFits, NextAnswers, PTL DEF Spec

\* The checks of a plan are answered in its order, each with an outcome, whatever is
\* refused, cancelled or late and whichever owner gives up: at any time those before
\* the one the executor is at, and no other.
THEOREM OneByOne == Spec => []InOrder
<1>1. CInv => InOrder
  BY DEF CInv
<1>2. QED BY <1>1, Answers, PTL

\* A check is answered once: no result is replaced, neither by what a broker replies
\* later nor by a plan that is refused as a whole.
THEOREM AnsweredForGood ==
    Spec => [][\A c \in Checks : Answered(c) => result'[c] = result[c]]_vars
<1>1. FInv /\ CInv /\ [Next]_vars => [\A c \in Checks : Answered(c) => result'[c] = result[c]]_vars
  BY NextAnswers DEF Final
<1>2. QED BY <1>1, Answers, PTL DEF Spec
=============================================================================
