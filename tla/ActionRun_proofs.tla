-------------------------- MODULE ActionRun_proofs --------------------------
(***************************************************************************)
(* Proofs about the approval and run endpoints, for any finite set of      *)
(* approvals, any runs, limits and bounds, and whatever may fail.          *)
(***************************************************************************)
EXTENDS ActionRun, FiniteSetTheorems, TLAPS

-----------------------------------------------------------------------------
(* What the audit log can hold of the events a handler writes. *)

SetOf(s) == {s[i] : i \in 1..Len(s)}

\* No event is written but those the handler writes, and where none fails and the
\* log ends well it shows them all; without parts of writes it ends well again.
LEMMA AuditsFact ==
    ASSUME NEW s, Len(s) \in Nat, logCut \in BOOLEAN, NEW w \in Audits(s)
    PROVE  /\ w.told \subseteq SetOf(s) /\ w.unread \subseteq SetOf(s) /\ w.cut \in BOOLEAN
           /\ w.all => w.told \cup w.unread = SetOf(s)
           /\ ~AuditFails /\ ~logCut => w.told = SetOf(s) /\ w.all
           /\ (~AuditFails \/ ~KeepsParts) /\ ~logCut => ~w.cut
  <1> DEFINE Cut(f, i) == \E j \in 0..i - 1 :
                             f[j] = "part" /\ \A k \in j + 1..i - 1 : f[k] = "none"
             Taken(f, cut) == {s[i] : i \in {i \in 1..Len(s) : f[i] = "ok" /\ Cut(f, i) = cut}}
  <1>1. PICK f \in [0..Len(s) -> {"ok", "none", "part"}] :
          /\ f[0] = IF logCut THEN "part" ELSE "none"
          /\ \A i \in 1..Len(s) : /\ f[i] # "ok" => AuditFails
                                  /\ f[i] = "part" => KeepsParts
          /\ w = [told |-> Taken(f, FALSE), unread |-> Taken(f, TRUE),
                  all |-> \A i \in 1..Len(s) : f[i] = "ok", cut |-> Cut(f, Len(s) + 1)]
    BY DEF Audits
  <1>2. \A i \in 1..Len(s) + 1 : Cut(f, i) \in BOOLEAN
    OBVIOUS
  <1>3. ASSUME ~AuditFails \/ ~KeepsParts, ~logCut, NEW i \in 1..Len(s) + 1 PROVE ~Cut(f, i)
    <2>1. \A j \in 0..Len(s) : f[j] # "part"
      BY <1>1, <1>3
    <2> QED
      BY <2>1
  <1> HIDE DEF Cut
  <1>4. w.told = Taken(f, FALSE) /\ w.unread = Taken(f, TRUE) /\ w.cut = Cut(f, Len(s) + 1)
        /\ w.all = \A i \in 1..Len(s) : f[i] = "ok"
    BY <1>1
  <1>5. Taken(f, FALSE) \subseteq SetOf(s) /\ Taken(f, TRUE) \subseteq SetOf(s)
    BY DEF SetOf
  <1>6. ASSUME w.all PROVE Taken(f, FALSE) \cup Taken(f, TRUE) = SetOf(s)
    <2>1. \A i \in 1..Len(s) : f[i] = "ok" /\ Cut(f, i) \in BOOLEAN
      BY <1>2, <1>4, <1>6
    <2> QED
      BY <2>1 DEF SetOf
  <1>7. ASSUME ~AuditFails, ~logCut PROVE Taken(f, FALSE) = SetOf(s) /\ w.all
    <2>1. \A i \in 1..Len(s) : f[i] = "ok" /\ Cut(f, i) = FALSE
      BY <1>1, <1>2, <1>3, <1>7
    <2> QED
      BY <1>4, <2>1 DEF SetOf
  <1>8. Len(s) + 1 \in 1..Len(s) + 1
    OBVIOUS
  <1> QED
    BY <1>2, <1>3, <1>4, <1>5, <1>6, <1>7, <1>8

LEMMA SetOfOne == ASSUME NEW x PROVE SetOf(<<x>>) = {x} /\ Len(<<x>>) \in Nat
  BY DEF SetOf
LEMMA SetOfTwo ==
    ASSUME NEW x, NEW y PROVE SetOf(<<x, y>>) = {x, y} /\ Len(<<x, y>>) \in Nat
  BY DEF SetOf
LEMMA SetOfThree ==
    ASSUME NEW x, NEW y, NEW z
    PROVE  SetOf(<<x, y, z>>) = {x, y, z} /\ Len(<<x, y, z>>) \in Nat
  BY DEF SetOf

-----------------------------------------------------------------------------
(* The approval store: what one write, and what a sweep, does to what readers *)
(* see of each approval.                                                      *)

\* Only a snapshot without its newline is seen and not on a line of its own.
Good(f) == f \in File!Files /\ (f.tail # "open" => f.seen = f.lines)

StoreStatuses == {"missing", "pending", "approved", "rejected", "expired"}

LEMMA FilesFact ==
    ASSUME NEW f
    PROVE  f \in File!Files <=>
             /\ f = [lines |-> f.lines, seen |-> f.seen, tail |-> f.tail, count |-> f.count]
             /\ f.lines \in [Approvals -> StoreStatuses]
             /\ f.seen \in [Approvals -> StoreStatuses]
             /\ f.tail \in {"clean", "open", "torn"} /\ f.count \in Nat
  <1>1. File!Statuses \cup {File!Missing} = StoreStatuses
    BY DEF File!Statuses, File!Missing, StoreStatuses
  <1> QED
    BY <1>1 DEF File!Files

\* A write changes the status of no approval but its own, unless an unfinished line
\* swallows a snapshot, and works when it does not raise.
LEMMA PersistFact ==
    ASSUME NEW f, Good(f), NEW a \in Approvals, NEW s \in StoreStatuses,
           NEW o \in StoreOutcomes
    PROVE  LET g == Persisted(f, a, s, o)
               gone == Swallowed(f, a, o)
           IN  /\ Good(g)
               /\ \A b \in Approvals \ gone : b # a => g.seen[b] = f.seen[b]
               /\ a \notin gone => g.seen[a] \in {f.seen[a], s}
               /\ a \notin gone /\ o = "ok" => g.seen[a] = s
               /\ f.tail = "clean" => gone = {}
               /\ f.tail = "clean" /\ (~StoreFails \/ ~KeepsParts) => g.tail = "clean"
  <1> DEFINE g == Persisted(f, a, s, o)
             whole == File!Whole(f, a, s)
             l == [f.lines EXCEPT ![a] = s]
  <1>1. /\ f = [lines |-> f.lines, seen |-> f.seen, tail |-> f.tail, count |-> f.count]
        /\ f.lines \in [Approvals -> StoreStatuses]
        /\ f.seen \in [Approvals -> StoreStatuses]
        /\ f.tail \in {"clean", "open", "torn"} /\ f.count \in Nat
        /\ f.tail # "open" => f.seen = f.lines
    BY FilesFact DEF Good
  <1>2. o \in {"ok", "none", "unread", "torn", "open"}
        /\ (~StoreFails \/ ~KeepsParts => o \in {"ok", "none", "unread"})
    BY DEF StoreOutcomes
  <1>3. f.tail = "clean" => Swallowed(f, a, o) = {}
    BY DEF Swallowed
  <1>4. l \in [Approvals -> StoreStatuses] /\ l[a] = s
        /\ \A b \in Approvals : b # a => l[b] = f.lines[b]
    BY <1>1
  <1> HIDE DEF l
  <1>5. CASE o \in {"ok", "unread"}
    <2>1. g = whole
      BY <1>5 DEF Persisted, File!Persist, File!CompactIfNeeded
    <2>2. CASE f.tail = "clean"
      <3>1. whole = [lines |-> l, seen |-> l, tail |-> "clean", count |-> File!OneMore(f.count)]
        BY <2>2 DEF File!Whole, l
      <3>2. File!OneMore(f.count) \in Nat
        BY <1>1 DEF File!OneMore
      <3> HIDE DEF whole, g
      <3>3. g.seen = l /\ g.tail = "clean" /\ Good(g)
        BY <1>4, <2>1, <3>1, <3>2, FilesFact DEF Good
      <3> QED
        BY <1>1, <1>3, <1>4, <2>2, <3>3 DEF g
    <2>3. CASE f.tail # "clean"
      <3>1. whole = [lines |-> f.lines, seen |-> f.lines, tail |-> "clean", count |-> f.count]
        BY <1>1, <2>3 DEF File!Whole
      <3> HIDE DEF whole, g
      <3>2. g.seen = f.lines /\ g.tail = "clean" /\ Good(g)
        BY <1>1, <2>1, <3>1, FilesFact DEF Good
      <3>3. a \in Swallowed(f, a, o)
            /\ \A b \in Approvals \ Swallowed(f, a, o) : f.seen[b] = f.lines[b]
        BY <1>5, <2>3 DEF Swallowed
      <3> QED
        BY <2>3, <3>2, <3>3 DEF g
    <2> QED
      BY <2>2, <2>3
  <1>6. CASE o = "none"
    <2>1. g = f
      BY <1>6 DEF Persisted, File!Persist
    <2> HIDE DEF g
    <2> QED
      BY <1>3, <1>6, <2>1 DEF g
  <1>7. CASE o = "torn"
    <2>1. g = [lines |-> f.lines, seen |-> f.lines, tail |-> "torn", count |-> f.count]
      BY <1>1, <1>7 DEF Persisted, File!Persist, File!Torn
    <2> HIDE DEF g
    <2>2. g.seen = f.lines /\ Good(g)
      BY <1>1, <2>1, FilesFact DEF Good
    <2>3. \A b \in Approvals \ Swallowed(f, a, o) : f.seen[b] = f.lines[b]
      BY <1>1, <1>7 DEF Swallowed
    <2> QED
      BY <1>2, <1>3, <1>7, <2>2, <2>3 DEF g
  <1>8. CASE o = "open"
    <2>1. g = File!Open(f, a, s)
      BY <1>8 DEF Persisted, File!Persist
    <2>2. CASE f.tail = "clean"
      <3>1. f.seen = f.lines
        BY <1>1, <2>2
      <3>2. g = [lines |-> f.lines, seen |-> l, tail |-> "open", count |-> f.count]
        BY <2>1, <2>2 DEF File!Open, l
      <3> HIDE DEF g
      <3>3. g.seen = l /\ Good(g)
        BY <1>1, <1>4, <3>2, FilesFact DEF Good
      <3> QED
        BY <1>2, <1>3, <1>4, <1>8, <3>1, <3>3 DEF g
    <2>3. CASE f.tail # "clean"
      <3>1. g = [lines |-> f.lines, seen |-> f.lines, tail |-> "torn", count |-> f.count]
        BY <1>1, <2>1, <2>3 DEF File!Open
      <3> HIDE DEF g
      <3>2. g.seen = f.lines /\ Good(g)
        BY <1>1, <3>1, FilesFact DEF Good
      <3>3. a \in Swallowed(f, a, o)
            /\ \A b \in Approvals \ Swallowed(f, a, o) : f.seen[b] = f.lines[b]
        BY <1>8, <2>3 DEF Swallowed
      <3> QED
        BY <2>3, <3>2, <3>3 DEF g
    <2> QED
      BY <2>2, <2>3
  <1> QED
    BY <1>2, <1>5, <1>6, <1>7, <1>8

\* A sweep expires those it writes, unless an unfinished line swallows a snapshot.
LEMMA SweptFact ==
    ASSUME Good(file), NEW S \in SUBSET Approvals, NEW first \in Approvals,
           S # {} => first \in S
    PROVE  LET g == Swept(S, first)
               gone == SweepLoses(S, first)
           IN  /\ Good(g)
               /\ \A b \in Approvals \ gone :
                     g.seen[b] = IF b \in S THEN "expired" ELSE file.seen[b]
               /\ file.tail = "clean" => gone = {} /\ g.tail = "clean"
  <1> DEFINE g == Swept(S, first)
             kept == IF file.tail = "clean" THEN S ELSE S \ {first}
             l == [a \in Approvals |-> IF a \in kept THEN "expired" ELSE file.lines[a]]
  <1>1. /\ file = [lines |-> file.lines, seen |-> file.seen, tail |-> file.tail,
                   count |-> file.count]
        /\ file.lines \in [Approvals -> StoreStatuses] /\ file.count \in Nat
        /\ file.tail # "open" => file.seen = file.lines
    BY FilesFact DEF Good
  <1>2. CASE S = {}
    BY <1>2 DEF Swept, SweepLoses
  <1>3. CASE S # {}
    <2>1. l \in [Approvals -> StoreStatuses]
          /\ \A b \in Approvals : l[b] = IF b \in kept THEN "expired" ELSE file.lines[b]
      BY <1>1 DEF StoreStatuses
    <2>2. SweepLoses(S, first) =
            IF file.tail = "clean" THEN {}
            ELSE {first} \cup {b \in Approvals : file.seen[b] # file.lines[b]}
      BY <1>3 DEF SweepLoses, Swallowed
    <2>3. g = [file EXCEPT !.lines = l, !.seen = l, !.tail = "clean"]
      BY <1>3 DEF Swept
    <2> HIDE DEF l, g
    <2>4. g = [lines |-> l, seen |-> l, tail |-> "clean", count |-> file.count]
      BY <1>1, <2>3
    <2>5. g.seen = l /\ g.tail = "clean" /\ Good(g)
      BY <1>1, <2>1, <2>4, FilesFact DEF Good
    <2> QED
      BY <1>1, <2>1, <2>2, <2>5 DEF g
  <1> QED
    BY <1>2, <1>3

-----------------------------------------------------------------------------
(* The approvals: what each endpoint does to their status and their events. *)

\* What a disk that does not keep a part of a write never leaves.
Tidy == /\ ~StoreFails \/ ~KeepsParts => file.tail = "clean" /\ lost = {}
        /\ ~AuditFails \/ ~KeepsParts => ~logCut

ApprovalsOK == /\ mode \in Modes
               /\ Good(file)
               /\ lost \subseteq Approvals
               /\ overdue \subseteq Approvals
               /\ noted \in [Approvals -> SUBSET Outcomes]
               /\ logCut \in BOOLEAN
               /\ Tidy

AInv == ApprovalsOK /\ NotedAgrees

\* What a step may do to an approval of which no snapshot is lost: the life cycle of
\* ApprovalLifecycle, and the log shows of it what the store has.
Kept(a) ==
    /\ status'[a] = status[a] /\ (a \in overdue => a \in overdue')
    /\ status[a] = "missing" => (a \in overdue' => a \in overdue)
Moved(a, from, to) == status[a] = from /\ status'[a] = to /\ overdue' = overdue
Fate(a) ==
    /\ noted'[a] \subseteq noted[a] \cup {status'[a]}
    /\ \/ Kept(a)
       \/ Moved(a, "missing", "pending")
       \/ a \notin overdue /\ \E d \in Decisions : Moved(a, "pending", d)
       \/ a \in overdue /\ Moved(a, "pending", "expired")
Fates == lost \subseteq lost' /\ \A a \in Approvals \ lost' : Fate(a)

\* An endpoint may write status s for approval a.
MayBecome(a, s) ==
    \/ status[a] = "missing" /\ s = "pending"
    \/ status[a] = "pending" /\ a \notin overdue /\ s \in Decisions
    \/ status[a] = "pending" /\ a \in overdue /\ s = "expired"
    \/ status[a] = "expired" /\ s = "expired"

\* A handler that writes one approval, and what it audits when that worked.
LEMMA PutSteps ==
    ASSUME ApprovalsOK, mode' = mode, NEW a \in Approvals, NEW s, MayBecome(a, s),
           NEW o \in StoreOutcomes, Put(a, s, o), overdue' = overdue,
           NEW n \in SUBSET (Outcomes \cap {s}), o # "ok" => n = {},
           noted' = [noted EXCEPT ![a] = @ \cup n], logCut' \in BOOLEAN,
           ~AuditFails \/ ~KeepsParts => ~logCut'
    PROVE  ApprovalsOK' /\ Fates
  <1> DEFINE gone == Swallowed(file, a, o)
  <1>1. s \in StoreStatuses
    BY DEF MayBecome, StoreStatuses, Decisions
  <1>2. /\ Good(file')
        /\ \A b \in Approvals \ gone : b # a => file'.seen[b] = file.seen[b]
        /\ a \notin gone => file'.seen[a] \in {file.seen[a], s}
        /\ a \notin gone /\ o = "ok" => file'.seen[a] = s
        /\ file.tail = "clean" => gone = {}
        /\ file.tail = "clean" /\ (~StoreFails \/ ~KeepsParts) => file'.tail = "clean"
    BY <1>1, PersistFact DEF Put, ApprovalsOK
  <1>3. lost' = lost \cup gone /\ gone \subseteq Approvals
    BY DEF Put, Swallowed
  <1> HIDE DEF gone
  <1>4. noted' \in [Approvals -> SUBSET Outcomes]
    BY DEF ApprovalsOK
  <1>5. ApprovalsOK'
    BY <1>2, <1>3, <1>4 DEF ApprovalsOK, Tidy, AuditFails, StoreFails, KeepsParts
  <1>6. ASSUME NEW b \in Approvals \ lost' PROVE Fate(b)
    <2>1. b \notin gone
      BY <1>3
    <2>2. CASE b # a
      <3>1. status'[b] = status[b] /\ noted'[b] = noted[b]
        BY <1>2, <2>1, <2>2 DEF ApprovalsOK, status
      <3> QED
        BY <3>1 DEF Fate, Kept
    <2>3. CASE b = a
      <3>1. noted'[a] = noted[a] \cup n
        BY DEF ApprovalsOK
      <3>2. status'[a] \in {status[a], s} /\ (o = "ok" => status'[a] = s)
        BY <1>2, <2>1, <2>3 DEF status
      <3> QED
        BY <2>3, <3>1, <3>2 DEF MayBecome, Fate, Kept, Moved
    <2> QED
      BY <2>2, <2>3
  <1> QED
    BY <1>3, <1>5, <1>6 DEF Fates

\* What a handler audits about an approval.
LEMMA NotesFact ==
    ASSUME ApprovalsOK, NEW a \in Approvals, NEW e, Notes(a, e)
    PROVE  /\ \E n \in SUBSET (Outcomes \cap {e}) : noted' = [noted EXCEPT ![a] = @ \cup n]
           /\ ~AuditFails => noted' = [noted EXCEPT ![a] = @ \cup (Outcomes \cap {e})]
           /\ logCut' \in BOOLEAN /\ (~AuditFails \/ ~KeepsParts => ~logCut')
  <1>1. PICK w \in Audits(<<e>>) :
          noted' = [noted EXCEPT ![a] = @ \cup (w.told \cap Outcomes)] /\ logCut' = w.cut
    BY DEF Notes
  <1>2. /\ w.told \subseteq {e} /\ w.cut \in BOOLEAN
        /\ ~AuditFails /\ ~logCut => w.told = {e}
        /\ (~AuditFails \/ ~KeepsParts) /\ ~logCut => ~w.cut
    BY AuditsFact, SetOfOne DEF ApprovalsOK
  <1>3. w.told \cap Outcomes \in SUBSET (Outcomes \cap {e})
        /\ (~AuditFails => w.told \cap Outcomes = Outcomes \cap {e})
    BY <1>2 DEF ApprovalsOK, Tidy
  <1> QED
    BY <1>1, <1>2, <1>3 DEF ApprovalsOK, Tidy

\* The three endpoints that write one approval and audit it if that worked.
LEMMA EndpointSteps ==
    ASSUME ApprovalsOK, mode' = mode, NEW a \in Approvals, NEW s, MayBecome(a, s),
           NEW e, e \in Outcomes => e = s,
           NEW o \in StoreOutcomes, Put(a, s, o), overdue' = overdue,
           IF o = "ok" THEN Notes(a, e) ELSE UNCHANGED <<noted, logCut>>
    PROVE  ApprovalsOK' /\ Fates
  <1>1. CASE o = "ok"
    <2>1. PICK n \in SUBSET (Outcomes \cap {e}) : noted' = [noted EXCEPT ![a] = @ \cup n]
      BY <1>1, NotesFact
    <2>2. n \in SUBSET (Outcomes \cap {s})
      <3>1. Outcomes \cap {e} \subseteq Outcomes \cap {s}
        OBVIOUS
      <3> QED
        BY <3>1
    <2>3. logCut' \in BOOLEAN /\ (~AuditFails \/ ~KeepsParts => ~logCut')
      BY <1>1, NotesFact
    <2> QED
      BY <1>1, <2>1, <2>2, <2>3, PutSteps
  <1>2. CASE o # "ok"
    <2> DEFINE n == {}
    <2>1. noted' = [noted EXCEPT ![a] = @ \cup n] /\ logCut' = logCut
          /\ n \in SUBSET (Outcomes \cap {s}) /\ n = {}
      BY <1>2 DEF ApprovalsOK
    <2>2. logCut' \in BOOLEAN /\ (~AuditFails \/ ~KeepsParts => ~logCut')
      BY <2>1 DEF ApprovalsOK, Tidy
    <2> HIDE DEF n
    <2> QED
      BY <2>1, <2>2, PutSteps
  <1> QED
    BY <1>1, <1>2

\* A list of what is due expires some of it, and audits only what it expired.
Expires ==
    /\ Good(file') /\ lost \subseteq lost' /\ lost' \subseteq Approvals
    /\ ~StoreFails \/ ~KeepsParts => file'.tail = "clean" /\ lost' = {}
    /\ noted' \in [Approvals -> SUBSET Outcomes] /\ logCut' \in BOOLEAN
    /\ ~AuditFails \/ ~KeepsParts => ~logCut'
    /\ \A b \in Approvals \ lost' :
          \/ status'[b] = status[b] /\ noted'[b] = noted[b]
          \/ /\ b \in DuePending /\ status'[b] = "expired"
             /\ noted'[b] \subseteq noted[b] \cup {"expired"}

LEMMA OrdersFact ==
    ASSUME NEW S \in SUBSET Approvals, NEW q \in Orders(S)
    PROVE  SetOf(q) = S /\ Len(q) \in Nat
  <1>1. Cardinality(S) \in Nat
    BY ApprovalsFinite, FS_Subset, FS_CardinalityType
  <1>2. q \in [1..Cardinality(S) -> S] /\ Range(q) = S
    BY DEF Orders
  <1>3. q \in Seq(S) /\ Len(q) = Cardinality(S)
    BY <1>1, <1>2
  <1> QED
    BY <1>1, <1>2, <1>3 DEF SetOf, Range

LEMMA ListAllEffect ==
    ASSUME ApprovalsOK, NEW first \in DuePending, ListAll(first)
    PROVE  /\ Expires
           /\ Sound => /\ \A b \in Approvals : status'[b] =
                            IF b \in DuePending THEN "expired" ELSE status[b]
                       /\ \A b \in DuePending : "expired" \in noted'[b]
  <1> DEFINE gone == SweepLoses(DuePending, first)
  <1>1. DuePending \in SUBSET Approvals
    BY DEF DuePending
  <1>2. /\ Good(file')
        /\ \A b \in Approvals \ gone :
              file'.seen[b] = IF b \in DuePending THEN "expired" ELSE file.seen[b]
        /\ file.tail = "clean" => gone = {} /\ file'.tail = "clean"
    BY <1>1, SweptFact DEF ListAll, ApprovalsOK
  <1>3. lost' = lost \cup gone /\ gone \subseteq Approvals
    BY <1>1 DEF ListAll, SweepLoses, Swallowed
  <1>0. PICK q \in Orders(DuePending) : \E w \in Audits(q) :
          /\ noted' = [a \in Approvals |->
                         IF a \in w.told THEN noted[a] \cup {"expired"} ELSE noted[a]]
          /\ logCut' = w.cut
    BY DEF ListAll
  <1>4. PICK w \in Audits(q) :
          /\ noted' = [a \in Approvals |->
                         IF a \in w.told THEN noted[a] \cup {"expired"} ELSE noted[a]]
          /\ logCut' = w.cut
    BY <1>0
  <1>5. /\ w.told \subseteq DuePending /\ w.cut \in BOOLEAN
        /\ ~AuditFails /\ ~logCut => w.told = DuePending
        /\ (~AuditFails \/ ~KeepsParts) /\ ~logCut => ~w.cut
    BY <1>1, AuditsFact, OrdersFact DEF ApprovalsOK
  <1>6. noted' \in [Approvals -> SUBSET Outcomes]
    BY <1>4 DEF ApprovalsOK, Outcomes
  <1>7. \A b \in Approvals \ lost' :
          \/ status'[b] = status[b] /\ noted'[b] = noted[b]
          \/ /\ b \in DuePending /\ status'[b] = "expired"
             /\ noted'[b] \subseteq noted[b] \cup {"expired"}
    <2> SUFFICES ASSUME NEW b \in Approvals \ lost'
                 PROVE  \/ status'[b] = status[b] /\ noted'[b] = noted[b]
                        \/ /\ b \in DuePending /\ status'[b] = "expired"
                           /\ noted'[b] \subseteq noted[b] \cup {"expired"}
      OBVIOUS
    <2>1. status'[b] = IF b \in DuePending THEN "expired" ELSE status[b]
      BY <1>2, <1>3 DEF status
    <2>2. noted'[b] = IF b \in w.told THEN noted[b] \cup {"expired"} ELSE noted[b]
      BY <1>4
    <2> QED
      BY <1>5, <2>1, <2>2
  <1>8. Expires
    <2> HIDE DEF gone
    <2> QED
      BY <1>2, <1>3, <1>4, <1>5, <1>6, <1>7 DEF Expires, ApprovalsOK, Tidy
  <1>9. ASSUME Sound
        PROVE  /\ \A b \in Approvals :
                     status'[b] = IF b \in DuePending THEN "expired" ELSE status[b]
               /\ \A b \in DuePending : "expired" \in noted'[b]
    <2>1. gone = {} /\ w.told = DuePending
      BY <1>2, <1>5, <1>9 DEF Sound, ApprovalsOK, Tidy
    <2> HIDE DEF gone
    <2> QED
      BY <1>1, <1>2, <1>4, <2>1 DEF status
  <1> QED
    BY <1>8, <1>9

LEMMA ListBreaksEffect ==
    ASSUME ApprovalsOK, NEW first \in DuePending, NEW S \in SUBSET DuePending,
           NEW o \in StoreOutcomes, NEW a \in DuePending \ S, S # {} => first \in S,
           ListBreaks(S, first, a, o)
    PROVE  Expires /\ ~Sound
  <1> DEFINE f == Swept(S, first)
             gone == SweepLoses(S, first)
             more == Swallowed(f, a, o)
  <1>1. S \in SUBSET Approvals /\ first \in Approvals /\ a \in Approvals
    BY DEF DuePending
  <1>2. /\ Good(f)
        /\ \A b \in Approvals \ gone : f.seen[b] = IF b \in S THEN "expired" ELSE file.seen[b]
        /\ file.tail = "clean" => gone = {} /\ f.tail = "clean"
    <2>1. Good(file)
      BY DEF ApprovalsOK
    <2> HIDE DEF Good
    <2> QED
      BY <1>1, <2>1, SweptFact
  <1>3. file' = Persisted(f, a, "expired", o) /\ lost' = lost \cup gone \cup more
        /\ noted' = noted /\ logCut' = logCut /\ o # "ok"
    BY DEF ListBreaks
  <1>4. gone \subseteq Approvals /\ more \subseteq Approvals
    BY <1>1 DEF SweepLoses, Swallowed
  <1>5. "expired" \in StoreStatuses
    BY DEF StoreStatuses
  <1> HIDE DEF f, gone
  <1>6. /\ Good(file')
        /\ \A b \in Approvals \ more : b # a => file'.seen[b] = f.seen[b]
        /\ a \notin more => file'.seen[a] \in {f.seen[a], "expired"}
        /\ f.tail = "clean" => more = {}
        /\ f.tail = "clean" /\ (~StoreFails \/ ~KeepsParts) => file'.tail = "clean"
    BY <1>1, <1>2, <1>3, <1>5, PersistFact
  <1> HIDE DEF more
  <1>7. ASSUME NEW b \in Approvals \ lost'
        PROVE  \/ status'[b] = status[b]
               \/ b \in DuePending /\ status'[b] = "expired"
    <2>1. b \notin gone /\ b \notin more
      BY <1>3
    <2>2. f.seen[b] = IF b \in S THEN "expired" ELSE file.seen[b]
      BY <1>2, <2>1
    <2>3. file'.seen[b] = f.seen[b] \/ (b = a /\ file'.seen[b] \in {f.seen[b], "expired"})
      BY <1>6, <2>1
    <2> QED
      BY <2>2, <2>3 DEF status
  <1>8. Expires
    BY <1>2, <1>3, <1>4, <1>6, <1>7 DEF Expires, ApprovalsOK, Tidy
  <1>9. ~Sound
    BY <1>3 DEF Sound, StoreOutcomes
  <1> QED
    BY <1>8, <1>9

LEMMA ListEffect ==
    ASSUME ApprovalsOK, List
    PROVE  /\ Expires /\ overdue' = overdue
           /\ Sound => /\ \A b \in Approvals : status'[b] =
                            IF b \in DuePending THEN "expired" ELSE status[b]
                       /\ \A b \in DuePending : "expired" \in noted'[b]
  <1>1. overdue' = overdue
    BY DEF List
  <1>2. PICK first \in DuePending :
          \/ ListAll(first)
          \/ \E S \in SUBSET DuePending, o \in StoreOutcomes : \E a \in DuePending \ S :
                /\ S # {} => first \in S
                /\ ListBreaks(S, first, a, o)
    BY DEF List
  <1>3. CASE ListAll(first)
    BY <1>1, <1>3, ListAllEffect
  <1>4. CASE ~ListAll(first)
    <2>1. PICK S \in SUBSET DuePending, o \in StoreOutcomes : \E a \in DuePending \ S :
             (S # {} => first \in S) /\ ListBreaks(S, first, a, o)
      BY <1>2, <1>4
    <2>2. PICK a \in DuePending \ S : (S # {} => first \in S) /\ ListBreaks(S, first, a, o)
      BY <2>1
    <2> QED
      BY <1>1, <2>2, ListBreaksEffect
  <1> QED
    BY <1>3, <1>4

LEMMA ListSteps == ASSUME ApprovalsOK, mode' = mode, List PROVE ApprovalsOK' /\ Fates
  <1>1. Expires /\ overdue' = overdue
    BY ListEffect
  <1>2. ApprovalsOK'
    BY <1>1 DEF Expires, ApprovalsOK, Tidy, AuditFails, StoreFails, KeepsParts
  <1>3. ASSUME NEW b \in Approvals \ lost' PROVE Fate(b)
    <2>1. CASE status'[b] = status[b] /\ noted'[b] = noted[b]
      BY <1>1, <2>1 DEF Fate, Kept
    <2>2. CASE b \in DuePending /\ status'[b] = "expired"
               /\ noted'[b] \subseteq noted[b] \cup {"expired"}
      BY <1>1, <2>2 DEF Fate, Moved, DuePending, Due
    <2> QED
      BY <1>1, <2>1, <2>2 DEF Expires
  <1> QED
    BY <1>1, <1>2, <1>3 DEF Fates, Expires

\* Run blocked: an overdue approval is written as expired, and the log may show it.
LEMMA BlockedApproval ==
    ASSUME ApprovalsOK, mode' = mode, NEW r \in Runs, NEW a \in Approvals,
           NEW sameTarget \in BOOLEAN, NEW blockedSteps \in BOOLEAN,
           RunBlocked(r, a, sameTarget, blockedSteps)
    PROVE  ApprovalsOK' /\ Fates
           /\ (Sound => /\ status'[a] = Resolved(a)
                        /\ \A b \in Approvals \ {a} : status'[b] = status[b]
                        /\ \A b \in Approvals : noted[b] \subseteq noted'[b]
                        /\ Resolved(a) = "expired" => "expired" \in noted'[a])
  <1> DEFINE events == IF Resolved(a) = "expired" THEN <<"requested", "expired", "blocked">>
                       ELSE <<"requested", "blocked">>
  <1>1. PICK w \in Audits(events) :
          noted' = [noted EXCEPT ![a] = @ \cup (w.told \cap {"expired"})] /\ logCut' = w.cut
    BY DEF RunBlocked, Trails
  <1>2. /\ Len(events) \in Nat
        /\ SetOf(events) = IF Resolved(a) = "expired" THEN {"requested", "expired", "blocked"}
                           ELSE {"requested", "blocked"}
    BY SetOfTwo, SetOfThree
  <1> HIDE DEF events
  <1>3. /\ w.told \subseteq SetOf(events) /\ w.cut \in BOOLEAN
        /\ ~AuditFails /\ ~logCut => w.told = SetOf(events)
        /\ (~AuditFails \/ ~KeepsParts) /\ ~logCut => ~w.cut
    BY <1>1, <1>2, AuditsFact DEF ApprovalsOK
  <1> DEFINE n == w.told \cap {"expired"}
  <1>4. n # {} => n = {"expired"} /\ Resolved(a) = "expired"
    BY <1>2, <1>3
  <1>5. logCut' \in BOOLEAN /\ (~AuditFails \/ ~KeepsParts => ~logCut')
    BY <1>1, <1>3 DEF ApprovalsOK, Tidy
  <1>6. overdue' = overdue /\ (IF Due(a) THEN Put(a, "expired", "ok") ELSE UNCHANGED <<file, lost>>)
    BY DEF RunBlocked
  <1>7. noted' = [noted EXCEPT ![a] = @ \cup n]
    BY <1>1
  <1> HIDE DEF n
  <1>8. ASSUME Due(a) PROVE ApprovalsOK' /\ Fates
    <2>1. MayBecome(a, "expired") /\ "ok" \in StoreOutcomes
      BY <1>8 DEF Due, MayBecome, StoreOutcomes
    <2>2. n \in SUBSET (Outcomes \cap {"expired"})
      BY <1>4 DEF Outcomes
    <2>3. Put(a, "expired", "ok")
      BY <1>6, <1>8
    <2> HIDE DEF Put
    <2> QED
      BY <1>5, <1>6, <1>7, <2>1, <2>2, <2>3, PutSteps
  <1>9. ASSUME ~Due(a) PROVE ApprovalsOK' /\ Fates
    <2>1. status' = status /\ file' = file /\ lost' = lost /\ Resolved(a) = status[a]
      BY <1>6, <1>9 DEF Resolved, status
    <2>2. n \subseteq {status[a]} \cap Outcomes
      BY <1>4, <2>1 DEF Outcomes
    <2>3. ApprovalsOK'
      BY <1>5, <1>6, <1>7, <2>1, <2>2
      DEF ApprovalsOK, Tidy, AuditFails, StoreFails, KeepsParts
    <2>4. \A b \in Approvals : Fate(b)
      BY <1>6, <1>7, <2>1, <2>2 DEF ApprovalsOK, Fate, Kept
    <2> QED
      BY <1>6, <1>9, <2>3, <2>4 DEF Fates
  <1>10. ASSUME Sound
         PROVE  /\ status'[a] = Resolved(a)
                /\ \A b \in Approvals \ {a} : status'[b] = status[b]
                /\ \A b \in Approvals : noted[b] \subseteq noted'[b]
                /\ Resolved(a) = "expired" => "expired" \in noted'[a]
    <2>1. w.told = SetOf(events) /\ file.tail = "clean"
      BY <1>3, <1>10 DEF ApprovalsOK, Tidy, Sound
    <2>2. /\ \A b \in Approvals : noted[b] \subseteq noted'[b]
          /\ Resolved(a) = "expired" => "expired" \in noted'[a]
      BY <1>2, <1>7, <2>1 DEF ApprovalsOK, n
    <2>3. CASE ~Due(a)
      <3>1. status' = status /\ Resolved(a) = status[a]
        BY <1>6, <2>3 DEF Resolved, status
      <3> QED
        BY <2>2, <3>1
    <2>4. CASE Due(a)
      <3>1. "expired" \in StoreStatuses /\ "ok" \in StoreOutcomes
        BY DEF StoreStatuses, StoreOutcomes
      <3>2. file' = Persisted(file, a, "expired", "ok") /\ Resolved(a) = "expired"
        BY <1>6, <2>4 DEF Put, Resolved
      <3>3. file'.seen[a] = "expired" /\ \A b \in Approvals : b # a => file'.seen[b] = file.seen[b]
        BY <2>1, <3>1, <3>2, PersistFact DEF ApprovalsOK
      <3> QED
        BY <2>2, <3>2, <3>3 DEF status
    <2> QED
      BY <2>3, <2>4
  <1> QED
    BY <1>8, <1>9, <1>10

LEMMA ApprovalSteps ==
    ASSUME ApprovalsOK, [Next]_vars
    PROVE  ApprovalsOK' /\ mode' = mode /\ Fates
  <1>0. mode' = mode
    BY DEF Next, vars
  <1>1. ASSUME NEW a \in Approvals, NEW o \in StoreOutcomes, RequestApproval(a, o)
        PROVE  ApprovalsOK' /\ Fates
    <2>1. MayBecome(a, "pending") /\ "requested" \notin Outcomes
      BY <1>1 DEF RequestApproval, MayBecome, Outcomes
    <2> QED
      BY <1>0, <1>1, <2>1, EndpointSteps DEF RequestApproval
  <1>2. ASSUME NEW a \in Approvals, NEW o \in StoreOutcomes, ReadOverdue(a, o)
        PROVE  ApprovalsOK' /\ Fates
    <2>1. MayBecome(a, "expired")
      BY <1>2 DEF ReadOverdue, MayBecome, Due
    <2> QED
      BY <1>0, <1>2, <2>1, EndpointSteps DEF ReadOverdue
  <1>3. ASSUME NEW a \in Approvals, NEW o \in StoreOutcomes, NEW d \in Decisions,
               Decide(a, d, o)
        PROVE  ApprovalsOK' /\ Fates
    <2>1. MayBecome(a, d)
      BY <1>3 DEF Decide, MayBecome
    <2> QED
      BY <1>0, <1>3, <2>1, EndpointSteps DEF Decide
  <1>4. ASSUME NEW a \in Approvals, NEW o \in StoreOutcomes, NEW r \in Runs,
               RunUnresolved(r, a, o)
        PROVE  ApprovalsOK' /\ Fates
    <2>1. MayBecome(a, "expired") /\ o # "ok"
      BY <1>4 DEF RunUnresolved, MayBecome, Due
    <2>2. IF o = "ok" THEN Notes(a, "expired") ELSE UNCHANGED <<noted, logCut>>
      BY <1>4, <2>1 DEF RunUnresolved
    <2> QED
      BY <1>0, <1>4, <2>1, <2>2, EndpointSteps DEF RunUnresolved
  <1>5. ASSUME List PROVE ApprovalsOK' /\ Fates
    BY <1>0, <1>5, ListSteps
  <1>6. ASSUME NEW r \in Runs, NEW a \in Approvals, NEW sameTarget \in BOOLEAN,
               NEW blockedSteps \in BOOLEAN, RunBlocked(r, a, sameTarget, blockedSteps)
        PROVE  ApprovalsOK' /\ Fates
    BY <1>0, <1>6, BlockedApproval
  <1>7. ASSUME file' = file, lost' = lost, noted' = noted, overdue' \subseteq Approvals,
               overdue \subseteq overdue', logCut' \in BOOLEAN,
               ~AuditFails \/ ~KeepsParts => ~logCut',
               \A a \in Approvals : status[a] = "missing" /\ a \in overdue' => a \in overdue
        PROVE  ApprovalsOK' /\ Fates
    <2>1. status' = status
      BY <1>7 DEF status
    <2>2. ApprovalsOK'
      BY <1>0, <1>7 DEF ApprovalsOK, Tidy, AuditFails, StoreFails, KeepsParts
    <2> QED
      BY <1>7, <2>1, <2>2 DEF Fates, Fate, Kept
  <1>8. logCut \in BOOLEAN /\ (~AuditFails \/ ~KeepsParts => ~logCut) /\ overdue \subseteq Approvals
    BY DEF ApprovalsOK, Tidy
  <1>9. ASSUME NEW a \in Approvals, Lapse(a) PROVE ApprovalsOK' /\ Fates
    BY <1>7, <1>8, <1>9 DEF Lapse
  <1>10. ASSUME NEW s, Len(s) \in Nat, NEW w \in Audits(s), logCut' = w.cut,
                UNCHANGED approvalVars
         PROVE  ApprovalsOK' /\ Fates
    <2>1. w.cut \in BOOLEAN /\ ((~AuditFails \/ ~KeepsParts) /\ ~logCut => ~w.cut)
      BY <1>8, <1>10, AuditsFact
    <2> QED
      BY <1>7, <1>8, <1>10, <2>1 DEF approvalVars
  <1>11. ASSUME NEW r \in Runs, NEW a \in Approvals, NEW n \in 1..MaxActions,
                RunStarted(r, a, n)
         PROVE  ApprovalsOK' /\ Fates
    BY <1>10, <1>11, SetOfTwo DEF RunStarted, Trails
  <1>12. ASSUME UNCHANGED <<approvalVars, logCut>> PROVE ApprovalsOK' /\ Fates
    BY <1>7, <1>8, <1>12 DEF approvalVars
  <1>13. ASSUME NEW r \in Runs, NEW good \in BOOLEAN, Execute(r, good)
         PROVE  ApprovalsOK' /\ Fates
    <2> DEFINE next == Counted(run[r], good)
               e == FinalEvent(FinalStatus(next.ok, next.bad))
    <2>1. UNCHANGED approvalVars /\ (logCut' = logCut \/ \E w \in Audits(<<e>>) : logCut' = w.cut)
      BY <1>13 DEF Execute, Finish, Trails
    <2> HIDE DEF e
    <2> QED
      BY <1>10, <1>12, <2>1, SetOfOne
  <1>14. ASSUME Crash \/ UNCHANGED vars \/ \E r \in Runs : ExecuteRaises(r)
         PROVE  UNCHANGED <<approvalVars, logCut>>
    BY <1>14 DEF Crash, vars, ExecuteRaises, approvalVars
  <1> QED
    BY <1>0, <1>1, <1>2, <1>3, <1>4, <1>5, <1>6, <1>9, <1>11, <1>12, <1>13, <1>14
    DEF Next, Step

\* A status changes only from missing or pending, while no snapshot of it is lost.
StatusSteps ==
  /\ mode' = mode /\ lost \subseteq lost'
  /\ \A a \in Approvals \ lost' :
        status'[a] = status[a] \/ status[a] \in {"missing", "pending"}

LEMMA AgreeSteps ==
    ASSUME AInv, [Next]_vars
    PROVE  AInv' /\ StatusSteps
  <1>1. ApprovalsOK' /\ mode' = mode /\ Fates
    BY ApprovalSteps DEF AInv
  <1>2. StatusSteps
    BY <1>1 DEF Fates, Fate, Kept, Moved, StatusSteps
  <1>3. ASSUME NEW a \in Approvals \ lost' PROVE noted'[a] \subseteq {status'[a]}
    <2>1. Fate(a) /\ noted[a] \subseteq {status[a]} \cap Outcomes
      BY <1>1 DEF Fates, AInv, NotedAgrees, ApprovalsOK
    <2> QED
      BY <2>1 DEF Fate, Kept, Moved, Outcomes
  <1> QED
    BY <1>1, <1>2, <1>3 DEF AInv, NotedAgrees

LEMMA InitAInv == Init => AInv
  <1> SUFFICES ASSUME Init PROVE AInv
    OBVIOUS
  <1>1. file = [lines |-> [a \in Approvals |-> "missing"], seen |-> [a \in Approvals |-> "missing"],
                tail |-> "clean", count |-> 0]
    BY DEF Init, File!EmptyFile, File!Missing
  <1>2. Good(file) /\ file.tail = "clean"
    BY <1>1, FilesFact DEF Good, StoreStatuses
  <1> QED
    BY <1>2 DEF Init, AInv, ApprovalsOK, Tidy, NotedAgrees, Outcomes

LEMMA ApprovalsInductive == Spec => []AInv
  BY InitAInv, AgreeSteps, PTL DEF Spec

\* The audit log never tells of an outcome of an approval other than the one in the
\* store, whichever write fails and whatever part of it stays, unless an unfinished
\* line swallowed a snapshot of that approval.
THEOREM Agrees == Spec => []NotedAgrees
  BY ApprovalsInductive, PTL DEF AInv

\* On a disk that keeps no part of a failed write no snapshot is ever lost, so that
\* there the log agrees with the store without exception.
THEOREM NothingLost == Spec => [](~KeepsParts => lost = {})
  <1>1. AInv => (~KeepsParts => lost = {})
    BY DEF AInv, ApprovalsOK, Tidy
  <1> QED
    BY <1>1, ApprovalsInductive, PTL

-----------------------------------------------------------------------------
(* The runs. *)

\* What is left to do and what was done add up to what the request named.
CallOK(c) ==
    /\ c \in Calls
    /\ c.todo + c.ok + c.bad <= MaxActions
    /\ c.pc = "executing" => c.todo > 0
HasExecuted(c) == c.pc = "executing" \/ c.ok + c.bad > 0

\* What the properties ask of a run with call c and trail t.
Covered(c, t, st, gone, m) ==
    HasExecuted(c) => /\ \A a \in c.approval \ gone : st[a] = "approved"
                      /\ "required" \in m => {"requested", "started"} \subseteq t
Closed(c, t, m) ==
    /\ c.pc = "answered"
    /\ "required" \in m => "requested" \in t /\ t \cap Finals # {}

RInv ==
    /\ trail \in [Runs -> SUBSET RunEvents]
    /\ run \in [Runs -> Calls]
    /\ records \in Seq(Runs)
    /\ historyCut \in BOOLEAN
    /\ \A r \in Runs : CallOK(run[r]) /\ Covered(run[r], trail[r], status, lost, mode)
    /\ \A r \in Range(records) : Closed(run[r], trail[r], mode)

LEMMA PropertiesOfRInv == AInv /\ RInv => TypeOK /\ ExecutedUnderApproval /\ RecordedIsAudited
  BY DEF AInv, ApprovalsOK, Good, RInv, CallOK, Covered, Closed, HasExecuted, TypeOK,
         ExecutedUnderApproval, RecordedIsAudited, Executed, AuditRequired

\* What a record that is on a line of its own is kept with, and one that is not.
OnLines(new, old) == new = old \/ new = Trim(old)

LEMMA RecordedCases ==
    ASSUME historyCut \in BOOLEAN, NEW r \in Runs, NEW h \in Recorded(r)
    PROVE  /\ h.cut \in BOOLEAN
           /\ OnLines(h.records, records) \/ OnLines(h.records, Append(records, r))
  <1> DEFINE longer == IF historyCut THEN records ELSE Append(records, r)
  <1>1. longer = records \/ longer = Append(records, r)
    OBVIOUS
  <1>2. h \in {[records |-> Trim(longer), cut |-> FALSE], [records |-> records, cut |-> historyCut],
               [records |-> longer, cut |-> FALSE], [records |-> records, cut |-> TRUE]}
    BY DEF Recorded
  <1> HIDE DEF longer
  <1>3. h.cut \in BOOLEAN
    <2>1. CASE h = [records |-> Trim(longer), cut |-> FALSE]
      BY <2>1
    <2>2. CASE h = [records |-> records, cut |-> historyCut]
      BY <2>2
    <2>3. CASE h = [records |-> longer, cut |-> FALSE]
      BY <2>3
    <2>4. CASE h = [records |-> records, cut |-> TRUE]
      BY <2>4
    <2> QED
      BY <1>2, <2>1, <2>2, <2>3, <2>4
  <1>4. h.records \in {Trim(longer), records, longer}
    BY <1>2
  <1> QED
    BY <1>1, <1>3, <1>4 DEF OnLines

LEMMA TrimFact ==
    ASSUME NEW longer \in Seq(Runs), NEW new, OnLines(new, longer)
    PROVE  new \in Seq(Runs) /\ Range(new) \subseteq Range(longer)
  <1>1. longer \in Seq(Runs)
    OBVIOUS
  <1>2. ASSUME Len(longer) > MaxRecords
        PROVE  /\ SubSeq(longer, Len(longer) - MaxRecords + 1, Len(longer)) \in Seq(Runs)
               /\ Range(SubSeq(longer, Len(longer) - MaxRecords + 1, Len(longer)))
                    \subseteq Range(longer)
    <2> DEFINE n == Len(longer)
               m == n - MaxRecords + 1
               sub == SubSeq(longer, m, n)
    <2>1. n \in Nat /\ m \in 1..n + 1
      BY <1>1, <1>2, MaxRecordsPos
    <2>2. sub = [i \in 1..n - m + 1 |-> longer[i + m - 1]]
      BY <1>1, <2>1
    <2>3. \A i \in 1..n - m + 1 : i + m - 1 \in 1..n
      BY <2>1
    <2> HIDE DEF m
    <2>4. sub \in Seq(Runs)
      BY <1>1, <2>1, <2>2, <2>3
    <2>5. DOMAIN longer = 1..n
      BY <1>1
    <2>6. Range(sub) \subseteq Range(longer)
      <3>1. \A i \in DOMAIN sub : sub[i] \in Range(longer)
        <4> SUFFICES ASSUME NEW i \in DOMAIN sub PROVE sub[i] \in Range(longer)
          OBVIOUS
        <4>1. i \in 1..n - m + 1
          BY <2>2
        <4>2. sub[i] = longer[i + m - 1]
          BY <2>2, <4>1
        <4> HIDE DEF sub, n
        <4> QED
          BY <2>3, <2>5, <4>1, <4>2 DEF Range
      <3> HIDE DEF sub
      <3> QED
        BY <3>1 DEF Range
    <2> QED
      BY <2>4, <2>6 DEF m
  <1> QED
    BY <1>1, <1>2 DEF OnLines, Trim

\* Recording a run keeps the history a sequence of the runs it had and that one.
LEMMA RecordedFact ==
    ASSUME records \in Seq(Runs), historyCut \in BOOLEAN, NEW r \in Runs, Records(r)
    PROVE  /\ records' \in Seq(Runs) /\ Range(records') \subseteq Range(records) \cup {r}
           /\ historyCut' \in BOOLEAN
  <1> DEFINE longer == Append(records, r)
  <1>1. longer \in Seq(Runs) /\ Range(longer) \subseteq Range(records) \cup {r}
    BY DEF Range
  <1>2. historyCut' \in BOOLEAN /\ (OnLines(records', records) \/ OnLines(records', longer))
    BY RecordedCases DEF Records
  <1> HIDE DEF longer
  <1> QED
    BY <1>1, <1>2, TrimFact

\* A handler that has not answered goes on: RInv needs to be seen for its run.
LEMMA OneRunChanges ==
    ASSUME AInv, RInv, StatusSteps, NEW r \in Runs, NEW c, NEW t \in SUBSET RunEvents,
           run' = [run EXCEPT ![r] = c], trail' = [trail EXCEPT ![r] = t],
           run[r].pc # "answered", CallOK(c), Covered(c, t, status, lost, mode),
           \/ UNCHANGED <<records, historyCut>>
           \/ Records(r) /\ Closed(c, t, mode)
    PROVE  RInv'
  <1>0. mode' = mode
    BY DEF StatusSteps
  <1>1. \A a \in Approvals \ lost' :
           a \notin lost /\ (status[a] = "approved" => status'[a] = "approved")
    BY DEF StatusSteps
  <1>2. \A x \in Runs : run[x].approval \subseteq Approvals
    BY DEF RInv, Calls
  <1>3. c \in Calls /\ c.approval \subseteq Approvals
    BY DEF CallOK, Calls
  <1>4. trail' \in [Runs -> SUBSET RunEvents] /\ run' \in [Runs -> Calls]
    BY <1>3 DEF RInv
  <1>5. records' \in Seq(Runs) /\ Range(records') \subseteq Range(records) \cup {r}
        /\ historyCut' \in BOOLEAN
    BY RecordedFact DEF RInv
  <1>6. Range(records) \subseteq Runs
    BY DEF RInv, Range
  <1>7. r \notin Range(records)
    BY DEF RInv, Closed
  <1>8. \A x \in Runs : CallOK(run'[x]) /\ Covered(run'[x], trail'[x], status', lost', mode')
    <2> SUFFICES ASSUME NEW x \in Runs
                 PROVE  CallOK(run'[x]) /\ Covered(run'[x], trail'[x], status', lost', mode')
      OBVIOUS
    <2>1. CASE x = r
      <3>1. run'[x] = c /\ trail'[x] = t
        BY <2>1 DEF RInv
      <3> QED
        BY <3>1, <1>0, <1>1, <1>3 DEF Covered
    <2>2. CASE x # r
      <3>1. run'[x] = run[x] /\ trail'[x] = trail[x]
        BY <2>2 DEF RInv
      <3>2. CallOK(run[x]) /\ Covered(run[x], trail[x], status, lost, mode)
        BY DEF RInv
      <3> QED
        BY <3>1, <3>2, <1>0, <1>1, <1>2 DEF Covered
    <2> QED
      BY <2>1, <2>2
  <1>9. \A x \in Range(records') : Closed(run'[x], trail'[x], mode')
    <2> SUFFICES ASSUME NEW x \in Range(records') PROVE Closed(run'[x], trail'[x], mode')
      OBVIOUS
    <2>1. CASE x = r
      <3>1. Closed(c, t, mode)
        BY <2>1, <1>7
      <3> QED
        BY <3>1, <2>1, <1>0 DEF RInv
    <2>2. CASE x # r
      <3>1. x \in Range(records) /\ x \in Runs
        BY <2>2, <1>5, <1>6
      <3>2. run'[x] = run[x] /\ trail'[x] = trail[x]
        BY <3>1, <2>2 DEF RInv
      <3> QED
        BY <3>1, <3>2, <1>0 DEF RInv
    <2> QED
      BY <2>1, <2>2
  <1> QED
    BY <1>4, <1>5, <1>8, <1>9 DEF RInv

\* The calls that handlers leave without having executed anything.
LEMMA QuietCall ==
    ASSUME NEW a \in Approvals, NEW pc \in Phases \ {"executing"},
           NEW t
    PROVE  CallOK(Call(pc, a, 0)) /\ Call(pc, a, 0).pc = pc
           /\ Covered(Call(pc, a, 0), t, status, lost, mode)
  <1> DEFINE c == Call(pc, a, 0)
  <1>1. c = [pc |-> pc, approval |-> {a}, todo |-> 0, ok |-> 0, bad |-> 0]
    BY DEF Call
  <1>2. c \in Calls
    BY <1>1, MaxActionsPos DEF Calls
  <1>3. c.pc = pc /\ c.pc # "executing" /\ c.todo = 0 /\ c.ok = 0 /\ c.bad = 0
    BY <1>1
  <1> HIDE DEF c
  <1>4. CallOK(c)
    BY <1>2, <1>3, MaxActionsPos DEF CallOK
  <1>5. ~HasExecuted(c)
    BY <1>3 DEF HasExecuted
  <1> QED
    BY <1>3, <1>4, <1>5 DEF Covered, c

LEMMA RunBlockedStep ==
    ASSUME AInv, RInv, StatusSteps, NEW r \in Runs, NEW a \in Approvals,
           NEW sameTarget \in BOOLEAN, NEW blockedSteps \in BOOLEAN,
           RunBlocked(r, a, sameTarget, blockedSteps)
    PROVE  RInv'
  <1> DEFINE events == IF Resolved(a) = "expired" THEN <<"requested", "expired", "blocked">>
                       ELSE <<"requested", "blocked">>
             done == Call("answered", a, 0)
             failed == Call("error", a, 0)
  <1>1. PICK w \in Audits(events) :
          /\ Trails(r, w)
          /\ IF Passes(w)
             THEN Records(r) /\ run' = [run EXCEPT ![r] = done]
             ELSE UNCHANGED <<records, historyCut>> /\ run' = [run EXCEPT ![r] = failed]
    BY DEF RunBlocked
  <1>2. {"requested", "blocked"} \subseteq SetOf(events) /\ Len(events) \in Nat
    BY SetOfTwo, SetOfThree
  <1> DEFINE t == trail[r] \cup ((w.told \cup w.unread) \cap RunEvents)
  <1>3. AuditRequired /\ Passes(w) => {"requested", "blocked"} \subseteq t
    <2>1. w.all => w.told \cup w.unread = SetOf(events)
      BY <1>2, AuditsFact DEF AInv, ApprovalsOK
    <2> HIDE DEF events
    <2> QED
      BY <1>2, <2>1 DEF Passes, RunEvents
  <1>4. run[r].pc # "answered" /\ trail' = [trail EXCEPT ![r] = t] /\ t \in SUBSET RunEvents
    BY <1>1 DEF RunBlocked, NewRun, Trails, RInv
  <1> HIDE DEF t
  <1>6. CallOK(done) /\ done.pc = "answered" /\ Covered(done, t, status, lost, mode)
    <2>1. "answered" \in Phases \ {"executing"}
      BY DEF Phases
    <2> QED
      BY <2>1, QuietCall
  <1>7. CallOK(failed) /\ Covered(failed, t, status, lost, mode)
    <2>1. "error" \in Phases \ {"executing"}
      BY DEF Phases
    <2> QED
      BY <2>1, QuietCall
  <1> HIDE DEF events, done, failed
  <1>8. CASE Passes(w)
    <2>1. Closed(done, t, mode)
      BY <1>3, <1>6, <1>8 DEF Closed, Finals, AuditRequired
    <2> QED
      BY <1>1, <1>4, <1>6, <1>8, <2>1, OneRunChanges
  <1>9. CASE ~Passes(w)
    BY <1>1, <1>4, <1>7, <1>9, OneRunChanges
  <1> QED
    BY <1>8, <1>9

LEMMA RunStartedStep ==
    ASSUME AInv, RInv, StatusSteps, NEW r \in Runs, NEW a \in Approvals,
           NEW n \in 1..MaxActions, RunStarted(r, a, n)
    PROVE  RInv'
  <1> DEFINE events == <<"requested", "started">>
             begun == Call("executing", a, n)
             failed == Call("error", a, 0)
  <1>1. PICK w \in Audits(events) :
          /\ Trails(r, w)
          /\ run' = [run EXCEPT ![r] = IF Passes(w) THEN begun ELSE failed]
    BY DEF RunStarted
  <1> DEFINE t == trail[r] \cup ((w.told \cup w.unread) \cap RunEvents)
  <1>2. AuditRequired /\ Passes(w) => {"requested", "started"} \subseteq t
    <2>1. w.all => w.told \cup w.unread = {"requested", "started"}
      BY <1>1, SetOfTwo, AuditsFact DEF AInv, ApprovalsOK
    <2> QED
      BY <2>1 DEF Passes, RunEvents
  <1>3. status[a] = "approved"
    BY DEF RunStarted, Blocks, Resolved
  <1>4. run[r].pc # "answered" /\ UNCHANGED <<records, historyCut>>
    BY DEF RunStarted, NewRun
  <1>5. trail' = [trail EXCEPT ![r] = t] /\ t \in SUBSET RunEvents
    BY <1>1 DEF Trails, RInv
  <1> HIDE DEF t
  <1>6. CallOK(failed) /\ Covered(failed, t, status, lost, mode)
    <2>1. "error" \in Phases \ {"executing"}
      BY DEF Phases
    <2> QED
      BY <2>1, QuietCall
  <1>7. begun = [pc |-> "executing", approval |-> {a}, todo |-> n, ok |-> 0, bad |-> 0]
    BY DEF Call
  <1>8. CallOK(begun) /\ begun.approval = {a}
    <2>1. begun \in Calls
      BY <1>7, MaxActionsPos DEF Calls, Phases
    <2> QED
      BY <1>7, <2>1, MaxActionsPos DEF CallOK
  <1> HIDE DEF begun, failed
  <1>9. CASE Passes(w)
    <2>1. Covered(begun, t, status, lost, mode)
      BY <1>2, <1>3, <1>8, <1>9 DEF Covered, AuditRequired
    <2> QED
      BY <1>1, <1>4, <1>5, <1>8, <1>9, <2>1, OneRunChanges
  <1>10. CASE ~Passes(w)
    BY <1>1, <1>4, <1>5, <1>6, <1>10, OneRunChanges
  <1> QED
    BY <1>9, <1>10

\* One more result moves a unit from what is left to what was done.
LEMMA CountedFact ==
    ASSUME NEW c, CallOK(c), c.pc = "executing", NEW good \in BOOLEAN
    PROVE  LET d == Counted(c, good)
           IN  /\ d \in [pc : {"executing"}, approval : {c.approval}, todo : 0..MaxActions,
                          ok : 0..MaxActions, bad : 0..MaxActions]
               /\ d.todo + d.ok + d.bad <= MaxActions
               /\ d.ok + d.bad > 0
  <1>1. /\ c.todo \in 0..MaxActions /\ c.ok \in 0..MaxActions /\ c.bad \in 0..MaxActions
        /\ c.todo > 0 /\ c.todo + c.ok + c.bad <= MaxActions /\ MaxActions \in Nat
    BY MaxActionsPos DEF CallOK, Calls
  <1>2. c = [pc |-> "executing", approval |-> c.approval, todo |-> c.todo, ok |-> c.ok,
             bad |-> c.bad]
    BY DEF CallOK, Calls
  <1>3. Counted(c, good) =
          [pc |-> "executing", approval |-> c.approval, todo |-> c.todo - 1,
           ok |-> c.ok + (IF good THEN 1 ELSE 0), bad |-> c.bad + (IF good THEN 0 ELSE 1)]
    BY <1>2 DEF Counted
  <1> QED
    BY <1>1, <1>3

LEMMA ExecuteStep ==
    ASSUME AInv, RInv, StatusSteps, NEW r \in Runs, NEW good \in BOOLEAN, Execute(r, good)
    PROVE  RInv'
  <1> DEFINE c == run[r]
             t == trail[r]
             next == Counted(c, good)
             s == FinalStatus(next.ok, next.bad)
             events == <<FinalEvent(s)>>
             answer == [next EXCEPT !.pc = "answered"]
             failed == [next EXCEPT !.pc = "error"]
  <1>1. /\ c.pc = "executing" /\ CallOK(c) /\ Covered(c, t, status, lost, mode)
        /\ t \in SUBSET RunEvents
    BY DEF Execute, RInv
  <1>2. /\ \A a \in c.approval \ lost : status[a] = "approved"
        /\ AuditRequired => {"requested", "started"} \subseteq t
    BY <1>1 DEF Covered, HasExecuted, AuditRequired
  <1>3. /\ next \in [pc : {"executing"}, approval : {c.approval}, todo : 0..MaxActions,
                      ok : 0..MaxActions, bad : 0..MaxActions]
        /\ next.todo + next.ok + next.bad <= MaxActions
        /\ next.ok + next.bad > 0
    BY <1>1, CountedFact
  <1>4. c.approval \in SUBSET Approvals
    BY <1>1 DEF CallOK, Calls
  <1>5. FinalEvent(s) \in Finals \cap RunEvents
    BY DEF FinalStatus, FinalEvent, Finals, RunEvents
  <1> HIDE DEF next, s
  <1>6. next = [pc |-> "executing", approval |-> c.approval, todo |-> next.todo,
                ok |-> next.ok, bad |-> next.bad]
    BY <1>3
  <1>7. answer = [pc |-> "answered", approval |-> c.approval, todo |-> next.todo,
                  ok |-> next.ok, bad |-> next.bad]
    BY <1>6
  <1>8. failed = [pc |-> "error", approval |-> c.approval, todo |-> next.todo,
                  ok |-> next.ok, bad |-> next.bad]
    BY <1>6
  <1> HIDE DEF c, t, events, answer, failed
  <1>9. ASSUME NEW u \in SUBSET RunEvents, t \subseteq u
        PROVE  Covered(next, u, status, lost, mode) /\ Covered(answer, u, status, lost, mode)
               /\ Covered(failed, u, status, lost, mode)
    BY <1>2, <1>6, <1>7, <1>8, <1>9 DEF Covered, AuditRequired
  <1>10. CallOK(answer) /\ CallOK(failed)
    <2>1. answer \in Calls /\ failed \in Calls
      BY <1>3, <1>4, <1>5, <1>7, <1>8 DEF Calls, Phases
    <2> QED
      BY <1>3, <1>7, <1>8, <2>1 DEF CallOK
  <1>11. CASE MoreToDo(next)
    <2>1. /\ run' = [run EXCEPT ![r] = next] /\ trail' = trail
          /\ UNCHANGED <<records, historyCut>>
      BY <1>11 DEF Execute, next, c
    <2>2. trail' = [trail EXCEPT ![r] = t]
      BY <2>1 DEF RInv, t
    <2>3. CallOK(next)
      <3>1. next \in Calls
        BY <1>3, <1>4 DEF Calls, Phases
      <3> QED
        BY <1>3, <1>11, <3>1 DEF CallOK, MoreToDo
    <2>4. run[r].pc # "answered"
      BY <1>1 DEF c
    <2> QED
      BY <1>1, <1>9, <2>1, <2>2, <2>3, <2>4, OneRunChanges
  <1>12. CASE ~MoreToDo(next)
    <2>1. Finish(r, next)
      BY <1>12 DEF Execute, next, c
    <2>2. PICK w \in Audits(events) :
            /\ Trails(r, w)
            /\ IF Passes(w)
               THEN Records(r) /\ run' = [run EXCEPT ![r] = answer]
               ELSE UNCHANGED <<records, historyCut>> /\ run' = [run EXCEPT ![r] = failed]
      BY <2>1 DEF Finish, events, s, answer, failed
    <2> DEFINE u == t \cup ((w.told \cup w.unread) \cap RunEvents)
    <2>3. AuditRequired /\ Passes(w) => FinalEvent(s) \in u
      <3>1. w.all => w.told \cup w.unread = {FinalEvent(s)}
        BY <2>2, SetOfOne, AuditsFact DEF events, AInv, ApprovalsOK
      <3> QED
        BY <1>5, <3>1 DEF Passes
    <2>4. trail' = [trail EXCEPT ![r] = u] /\ u \in SUBSET RunEvents /\ t \subseteq u
      BY <1>1, <2>2 DEF Trails, t, RInv
    <2>5. run[r].pc # "answered"
      BY <1>1 DEF c
    <2> HIDE DEF u
    <2>6. CASE Passes(w)
      <3>1. Closed(answer, u, mode)
        BY <1>2, <1>5, <1>7, <2>3, <2>4, <2>6 DEF Closed, AuditRequired
      <3> QED
        BY <1>9, <1>10, <2>2, <2>4, <2>5, <2>6, <3>1, OneRunChanges
    <2>7. CASE ~Passes(w)
      BY <1>9, <1>10, <2>2, <2>4, <2>5, <2>7, OneRunChanges
    <2> QED
      BY <2>6, <2>7
  <1> QED
    BY <1>11, <1>12

LEMMA ExecuteRaisesStep ==
    ASSUME AInv, RInv, StatusSteps, NEW r \in Runs, ExecuteRaises(r)
    PROVE  RInv'
  <1> DEFINE c == run[r]
             d == [c EXCEPT !.pc = "error"]
  <1>1. CallOK(c) /\ Covered(c, trail[r], status, lost, mode) /\ c.pc = "executing"
        /\ trail[r] \in SUBSET RunEvents
    BY DEF RInv, ExecuteRaises
  <1>2. c = [pc |-> "executing", approval |-> c.approval, todo |-> c.todo, ok |-> c.ok,
             bad |-> c.bad]
    BY <1>1 DEF CallOK, Calls
  <1>3. d = [pc |-> "error", approval |-> c.approval, todo |-> c.todo, ok |-> c.ok,
             bad |-> c.bad]
    BY <1>2
  <1>4. run' = [run EXCEPT ![r] = d] /\ trail' = trail /\ UNCHANGED <<records, historyCut>>
    BY DEF ExecuteRaises
  <1>5. trail' = [trail EXCEPT ![r] = trail[r]]
    BY <1>4 DEF RInv
  <1>6. run[r].pc # "answered"
    BY <1>1
  <1> HIDE DEF c, d
  <1>7. CallOK(d)
    <2>1. d \in Calls
      BY <1>1, <1>3 DEF CallOK, Calls, Phases
    <2> QED
      BY <1>1, <1>3, <2>1 DEF CallOK
  <1>8. Covered(d, trail[r], status, lost, mode)
    BY <1>1, <1>3 DEF Covered, HasExecuted
  <1> QED
    BY <1>1, <1>4, <1>5, <1>6, <1>7, <1>8, OneRunChanges

LEMMA RunUnresolvedStep ==
    ASSUME AInv, RInv, StatusSteps, NEW r \in Runs, NEW a \in Approvals,
           NEW o \in StoreOutcomes, RunUnresolved(r, a, o)
    PROVE  RInv'
  <1> DEFINE failed == Call("error", a, 0)
  <1>1. /\ run' = [run EXCEPT ![r] = failed] /\ trail' = trail
        /\ UNCHANGED <<records, historyCut>> /\ run[r].pc # "answered"
    BY DEF RunUnresolved, NewRun
  <1>2. trail' = [trail EXCEPT ![r] = trail[r]] /\ trail[r] \in SUBSET RunEvents
    BY <1>1 DEF RInv
  <1>3. CallOK(failed) /\ Covered(failed, trail[r], status, lost, mode)
    <2>1. "error" \in Phases \ {"executing"}
      BY DEF Phases
    <2> QED
      BY <2>1, QuietCall
  <1> HIDE DEF failed
  <1> QED
    BY <1>1, <1>2, <1>3, OneRunChanges

\* The process dies: the calls in flight are lost, with what they have done.
LEMMA CrashStep ==
    ASSUME AInv, RInv, StatusSteps, Crash
    PROVE  RInv'
  <1>1. /\ trail' = trail /\ records' = records /\ historyCut' = historyCut
        /\ status' = status /\ lost' = lost /\ mode' = mode
    BY DEF Crash, approvalVars, StatusSteps, status
  <1>2. ASSUME NEW r \in Runs
        PROVE  CallOK(run'[r]) /\ Covered(run'[r], trail[r], status, lost, mode)
               /\ (run[r].pc = "answered" => run'[r] = run[r])
    <2> DEFINE c == run[r]
               d == [c EXCEPT !.pc = "lost"]
    <2>1. CallOK(c) /\ Covered(c, trail[r], status, lost, mode)
      BY DEF RInv
    <2>2. CASE c.pc = "executing"
      <3>1. d = [pc |-> "lost", approval |-> c.approval, todo |-> c.todo, ok |-> c.ok,
                 bad |-> c.bad]
        BY <2>1 DEF CallOK, Calls
      <3>2. run'[r] = d
        BY <2>2 DEF Crash
      <3> HIDE DEF c, d
      <3>3. d \in Calls
        BY <2>1, <3>1 DEF CallOK, Calls, Phases
      <3>4. CallOK(d)
        BY <2>1, <3>1, <3>3 DEF CallOK
      <3>5. Covered(d, trail[r], status, lost, mode)
        BY <2>1, <2>2, <3>1 DEF Covered, HasExecuted
      <3> QED
        BY <2>2, <3>2, <3>4, <3>5 DEF c
    <2>3. CASE c.pc # "executing"
      <3>1. run'[r] = c
        BY <2>3 DEF Crash
      <3> QED
        BY <2>1, <3>1
    <2> QED
      BY <2>2, <2>3
  <1>3. run' \in [Runs -> Calls]
    <2>1. run' = [r \in Runs |-> run'[r]]
      BY DEF Crash
    <2> QED
      BY <1>2, <2>1 DEF CallOK
  <1>4. ASSUME NEW r \in Range(records) PROVE Closed(run'[r], trail[r], mode')
    <2>1. r \in Runs /\ Closed(run[r], trail[r], mode)
      BY DEF RInv, Range
    <2> QED
      BY <1>1, <1>2, <2>1 DEF Closed
  <1> QED
    BY <1>1, <1>2, <1>3, <1>4 DEF RInv

\* The approval endpoints leave the runs alone.
LEMMA RunsUnchanged ==
    ASSUME AInv, RInv, StatusSteps, UNCHANGED runVars
    PROVE  RInv'
  <1>1. /\ run' = run /\ trail' = trail /\ records' = records /\ historyCut' = historyCut
        /\ mode' = mode
    BY DEF runVars, StatusSteps
  <1>2. \A a \in Approvals \ lost' :
           a \notin lost /\ (status[a] = "approved" => status'[a] = "approved")
    BY DEF StatusSteps
  <1>3. \A r \in Runs : run[r].approval \subseteq Approvals
    BY DEF RInv, Calls
  <1>4. \A r \in Runs : Covered(run[r], trail[r], status', lost', mode')
    BY <1>1, <1>2, <1>3 DEF RInv, Covered
  <1> QED
    BY <1>1, <1>4 DEF RInv

LEMMA RunSteps ==
    ASSUME AInv, RInv, [Next]_vars
    PROVE  RInv'
  <1>1. StatusSteps
    BY AgreeSteps
  <1>2. ASSUME NEW a \in Approvals, NEW o \in StoreOutcomes,
               RequestApproval(a, o) \/ ReadOverdue(a, o) \/ \E d \in Decisions : Decide(a, d, o)
        PROVE  UNCHANGED runVars
    BY <1>2 DEF RequestApproval, ReadOverdue, Decide
  <1>3. ASSUME NEW a \in Approvals, Lapse(a) PROVE UNCHANGED runVars
    BY <1>3 DEF Lapse
  <1>4. ASSUME List PROVE UNCHANGED runVars
    BY <1>4 DEF List
  <1>5. ASSUME UNCHANGED vars PROVE UNCHANGED runVars
    BY <1>5 DEF vars, runVars
  <1> QED
    BY <1>1, <1>2, <1>3, <1>4, <1>5, RunsUnchanged, CrashStep, RunUnresolvedStep,
       RunBlockedStep, RunStartedStep, ExecuteStep, ExecuteRaisesStep DEF Next, Step

LEMMA InitRInv == Init => RInv
  <1> SUFFICES ASSUME Init PROVE RInv
    OBVIOUS
  <1>1. NoRun \in Calls /\ NoRun.pc = "unused" /\ NoRun.todo = 0 /\ NoRun.ok = 0
        /\ NoRun.bad = 0
    BY MaxActionsPos DEF NoRun, Calls, Phases
  <1>2. /\ run = [r \in Runs |-> NoRun] /\ trail = [r \in Runs |-> {}]
        /\ records = <<>> /\ historyCut = FALSE
    BY DEF Init
  <1> HIDE DEF NoRun
  <1>3. CallOK(NoRun) /\ ~HasExecuted(NoRun)
    BY <1>1, MaxActionsPos DEF CallOK, HasExecuted
  <1>4. Range(records) = {}
    BY <1>2 DEF Range
  <1>5. \A r \in Runs : CallOK(run[r]) /\ Covered(run[r], trail[r], status, lost, mode)
    BY <1>2, <1>3 DEF Covered
  <1>6. historyCut \in BOOLEAN
    BY <1>2
  <1>7. run \in [Runs -> Calls] /\ trail \in [Runs -> SUBSET RunEvents]
        /\ records \in Seq(Runs)
    BY <1>1, <1>2
  <1> QED
    BY <1>4, <1>5, <1>6, <1>7 DEF RInv

LEMMA Inductive == Spec => [](AInv /\ RInv)
  <1>1. Init => AInv /\ RInv
    BY InitAInv, InitRInv
  <1>2. AInv /\ RInv /\ [Next]_vars => (AInv /\ RInv)'
    BY AgreeSteps, RunSteps
  <1> QED
    BY <1>1, <1>2, PTL DEF Spec

\* The state of the endpoints is well formed.
THEOREM TypeCorrect == Spec => []TypeOK
  BY Inductive, PropertiesOfRInv, PTL

\* Whatever fails and whoever decides meanwhile, nothing is executed but for an
\* approved approval, unless an unfinished line swallowed a snapshot of it, and, when
\* the audit log is required, after the log took it.
THEOREM Covers == Spec => []ExecutedUnderApproval
  BY Inductive, PropertiesOfRInv, PTL

\* When the audit log is required, it took the beginning and the end of what the
\* history has.
THEOREM Audited == Spec => []RecordedIsAudited
  BY Inductive, PropertiesOfRInv, PTL

-----------------------------------------------------------------------------
(* The run history. *)

\* A part of a history that one record was added to, without that record.
LEMMA OlderPart ==
    ASSUME NEW s \in Seq(Runs), NEW r \in Runs, NEW n \in 0..Len(s), NEW new \in Seq(Runs),
           Len(new) >= Len(s) - n, \A i \in 1..Len(s) - n : new[i] = Append(s, r)[i + n]
    PROVE  SubSeq(new, 1, Len(s) - n) = SubSeq(s, n + 1, Len(s))
  <1> DEFINE k == Len(s) - n
  <1>1. Len(s) \in Nat /\ k \in Nat /\ Len(new) \in Nat
    OBVIOUS
  <1>2. SubSeq(new, 1, k) = [i \in 1..k |-> new[i]]
    BY <1>1
  <1>3. SubSeq(s, n + 1, Len(s)) = [i \in 1..k |-> s[i + n]]
    BY <1>1
  <1>4. ASSUME NEW i \in 1..k PROVE new[i] = s[i + n]
    <2>1. i + n \in 1..Len(s)
      BY <1>1
    <2> QED
      BY <2>1
  <1> QED
    BY <1>2, <1>3, <1>4

\* What append_run does to the history, whatever of it fails.
KeptAs(new) ==
    \E n \in 0..Len(records) :
       /\ Len(new) \in {Len(records) - n, Len(records) - n + 1}
       /\ SubSeq(new, 1, Len(records) - n) = SubSeq(records, n + 1, Len(records))
       /\ n > 0 => Len(new) >= MaxRecords

LEMMA AppendKeeps ==
    ASSUME records \in Seq(Runs), NEW r \in Runs, NEW new, OnLines(new, Append(records, r))
    PROVE  KeptAs(new)
  <1> DEFINE longer == Append(records, r)
             m == Len(records)
  <1>1. longer \in Seq(Runs) /\ Len(longer) = m + 1 /\ m \in Nat
    OBVIOUS
  <1>2. CASE new = longer
    <2>1. SubSeq(new, 1, m - 0) = SubSeq(records, 0 + 1, m)
      BY <1>1, <1>2, OlderPart
    <2> QED
      BY <1>1, <1>2, <2>1 DEF KeptAs
  <1>4. CASE /\ Len(longer) > MaxRecords
             /\ new = SubSeq(longer, Len(longer) - MaxRecords + 1, Len(longer))
    <2> DEFINE n == m + 1 - MaxRecords
    <2>1. n \in 1..m
      BY <1>1, <1>4, MaxRecordsPos
    <2>2. new \in Seq(Runs)
      BY <1>1, TrimFact
    <2>3. n + 1 \in Nat /\ MaxRecords \in Nat /\ Len(longer) = n + MaxRecords
          /\ Len(longer) - MaxRecords + 1 = n + 1 /\ m - n = MaxRecords - 1
      BY <1>1, <2>1, MaxRecordsPos
    <2>4. /\ Len(new) = MaxRecords
          /\ \A i \in 1..MaxRecords : new[i] = longer[i + n]
      <3>1. new = SubSeq(longer, n + 1, n + MaxRecords)
        BY <1>4, <2>3
      <3> HIDE DEF n, longer
      <3>2. new = [i \in 1..(n + MaxRecords) - (n + 1) + 1 |-> longer[i + (n + 1) - 1]]
        BY <1>1, <2>1, <2>3, <3>1
      <3>3. (n + MaxRecords) - (n + 1) + 1 = MaxRecords
            /\ \A i \in 1..MaxRecords : i + (n + 1) - 1 = i + n
        BY <1>1, <2>1, <2>3
      <3>4. new = [i \in 1..MaxRecords |-> longer[i + (n + 1) - 1]]
        BY <3>2, <3>3
      <3>5. DOMAIN new = 1..MaxRecords
        BY <3>4
      <3>6. \A i \in 1..MaxRecords : new[i] = longer[i + n]
        BY <3>3, <3>4
      <3>7. Len(new) = MaxRecords
        BY <2>2, <2>3, <3>5
      <3> QED
        BY <3>6, <3>7
    <2>5. \A i \in 1..m - n : new[i] = longer[i + n]
      <3> HIDE DEF n, longer, m
      <3>1. \A i \in 1..m - n : i \in 1..MaxRecords
        BY <2>3
      <3> QED
        BY <2>4, <3>1
    <2>6. SubSeq(new, 1, m - n) = SubSeq(records, n + 1, m)
      <3>1. n \in 0..m /\ Len(new) >= m - n
        BY <1>1, <2>1, <2>3, <2>4
      <3> HIDE DEF n
      <3> QED
        BY <2>2, <2>5, <3>1, OlderPart
    <2>7. Len(new) = m - n + 1
      BY <2>3, <2>4
    <2> HIDE DEF n
    <2> QED
      BY <2>1, <2>4, <2>6, <2>7, MaxRecordsPos DEF KeptAs
  <1> QED
    BY <1>2, <1>4 DEF OnLines, Trim

\* The history when the record that was written continues an unfinished line.
LEMMA SwallowedKeeps ==
    ASSUME records \in Seq(Runs), NEW new, OnLines(new, records)
    PROVE  KeptAs(new)
  <1> DEFINE m == Len(records)
             n == m - MaxRecords
  <1>1. m \in Nat /\ records \in Seq(Runs)
    OBVIOUS
  <1>2. CASE new = records
    <2>1. SubSeq(new, 1, m - 0) = SubSeq(records, 0 + 1, m)
      BY <1>2
    <2> QED
      BY <1>1, <1>2, <2>1 DEF KeptAs
  <1>3. CASE m > MaxRecords /\ new = SubSeq(records, n + 1, m)
    <2>1. n \in 1..m /\ m - n = MaxRecords /\ MaxRecords \in Nat
      BY <1>1, <1>3, MaxRecordsPos
    <2>2. new \in Seq(Runs) /\ Len(new) = m - n
      BY <1>1, <1>3, <2>1
    <2>3. SubSeq(new, 1, m - n) = new
      BY <2>1, <2>2
    <2> HIDE DEF n
    <2> QED
      BY <1>3, <2>1, <2>2, <2>3 DEF KeptAs
  <1>4. new = records \/ (m > MaxRecords /\ new = SubSeq(records, n + 1, m))
    BY DEF OnLines, Trim
  <1> QED
    BY <1>2, <1>3, <1>4

LEMMA RecordsKeep ==
    ASSUME records \in Seq(Runs), historyCut \in BOOLEAN, NEW r \in Runs, Records(r)
    PROVE  KeptAs(records')
  BY RecordedCases, AppendKeeps, SwallowedKeeps DEF Records

\* Only the end of a run changes the history, which changes as append_run does:
\* old records leave a full history, at its beginning.
THEOREM HistoryKept == Spec => RecordsKept
  <1>1. ASSUME AInv /\ RInv, [Next]_vars PROVE records' = records \/ KeptAs(records')
    <2>1. ASSUME NEW r \in Runs, NEW good \in BOOLEAN, Execute(r, good)
          PROVE  records' = records \/ KeptAs(records')
      <3>1. records' = records \/ Records(r)
        BY <2>1 DEF Execute, Finish
      <3> QED
        BY <1>1, <3>1, RecordsKeep DEF RInv
    <2>2. ASSUME NEW a \in Approvals, NEW o \in StoreOutcomes,
                 \/ RequestApproval(a, o) \/ ReadOverdue(a, o)
                 \/ \E d \in Decisions : Decide(a, d, o)
                 \/ \E r \in Runs : RunUnresolved(r, a, o)
          PROVE  records' = records
      BY <2>2 DEF RequestApproval, ReadOverdue, Decide, RunUnresolved, runVars
    <2>3. ASSUME NEW a \in Approvals, NEW r \in Runs, NEW t \in BOOLEAN, NEW b \in BOOLEAN,
                 RunBlocked(r, a, t, b)
          PROVE  records' = records \/ KeptAs(records')
      <3>1. records' = records \/ Records(r)
        BY <2>3 DEF RunBlocked
      <3> QED
        BY <1>1, <3>1, RecordsKeep DEF RInv
    <2>4. ASSUME NEW a \in Approvals, NEW r \in Runs, NEW n \in 1..MaxActions,
                 RunStarted(r, a, n)
          PROVE  records' = records
      BY <2>4 DEF RunStarted
    <2>5. CASE \/ List \/ Crash \/ UNCHANGED vars
               \/ \E a \in Approvals : Lapse(a)
               \/ \E r \in Runs : ExecuteRaises(r)
      BY <2>5 DEF List, Crash, vars, Lapse, ExecuteRaises, runVars
    <2> QED
      BY <1>1, <2>1, <2>2, <2>3, <2>4, <2>5 DEF Next, Step
  <1>2. AInv /\ RInv /\ [Next]_vars =>
          [\E n \in 0..Len(records) :
             /\ Len(records') \in {Len(records) - n, Len(records) - n + 1}
             /\ SubSeq(records', 1, Len(records) - n) = SubSeq(records, n + 1, Len(records))
             /\ n > 0 => Len(records') >= MaxRecords]_records
    BY <1>1 DEF KeptAs
  <1> QED
    BY <1>2, Inductive, PTL DEF Spec, RecordsKept

-----------------------------------------------------------------------------
(* The deployments where no write fails. *)

\* Then each store call works, and each event is written and can be read.
LEMMA SoundFact ==
    ASSUME Sound, ApprovalsOK
    PROVE  /\ StoreOutcomes = {"ok"}
           /\ \A s : Len(s) \in Nat => \A w \in Audits(s) : w.told = SetOf(s) /\ w.all
           /\ ~AuditFails
  BY AuditsFact DEF Sound, StoreOutcomes, ApprovalsOK, Tidy

LEMMA SoundPut ==
    ASSUME Sound, ApprovalsOK, NEW a \in Approvals, NEW s \in StoreStatuses,
           NEW o \in StoreOutcomes, Put(a, s, o)
    PROVE  status'[a] = s /\ \A b \in Approvals : b # a => status'[b] = status[b]
  <1>1. o = "ok" /\ file.tail = "clean"
    BY SoundFact DEF ApprovalsOK, Tidy, Sound
  <1> QED
    BY <1>1, PersistFact DEF Put, ApprovalsOK, status

LEMMA TransitionSteps ==
    ASSUME ApprovalsOK, TransitionsAudited, [Next]_vars
    PROVE  TransitionsAudited'
  <1>0. mode' = mode
    BY DEF Next, vars
  <1> SUFFICES ASSUME Sound
               PROVE  \A a \in Approvals : status'[a] \in Outcomes => status'[a] \in noted'[a]
    BY <1>0 DEF TransitionsAudited, Sound, AuditFails, StoreFails
  <1> DEFINE Told == \A a \in Approvals : status'[a] \in Outcomes => status'[a] \in noted'[a]
  <1>1. /\ \A a \in Approvals : status[a] \in Outcomes => status[a] \in noted[a]
        /\ noted \in [Approvals -> SUBSET Outcomes]
    BY DEF TransitionsAudited, ApprovalsOK
  \* One approval changes, and its event is written.
  <1>2. ASSUME NEW a \in Approvals, NEW s, s \in Outcomes => s \in noted'[a],
               status'[a] = s, \A b \in Approvals : b # a => status'[b] = status[b],
               \A b \in Approvals : noted[b] \subseteq noted'[b]
        PROVE  Told
    <2> SUFFICES ASSUME NEW b \in Approvals, status'[b] \in Outcomes
                 PROVE  status'[b] \in noted'[b]
      OBVIOUS
    <2>1. CASE b = a
      BY <1>2, <2>1
    <2>2. CASE b # a
      BY <1>1, <1>2, <2>2
    <2> QED
      BY <2>1, <2>2
  <1>3. ASSUME NEW a \in Approvals, NEW o \in StoreOutcomes, NEW s \in StoreStatuses, NEW e,
               Put(a, s, o), s \in Outcomes => e = s,
               IF o = "ok" THEN Notes(a, e) ELSE UNCHANGED <<noted, logCut>>
        PROVE  Told
    <2>1. o = "ok" /\ ~AuditFails
      BY SoundFact
    <2>2. noted' = [noted EXCEPT ![a] = @ \cup (Outcomes \cap {e})]
      BY <1>3, <2>1, NotesFact
    <2>3. /\ s \in Outcomes => s \in noted'[a]
          /\ \A b \in Approvals : noted[b] \subseteq noted'[b]
      BY <1>1, <1>3, <2>2
    <2>4. status'[a] = s /\ \A b \in Approvals : b # a => status'[b] = status[b]
      BY <1>3, SoundPut
    <2> QED
      BY <1>2, <2>3, <2>4
  <1>4. {"pending", "expired", "approved", "rejected"} \subseteq StoreStatuses
        /\ "pending" \notin Outcomes
    BY DEF StoreStatuses, Outcomes
  <1>5. ASSUME NEW a \in Approvals, NEW o \in StoreOutcomes,
               \/ RequestApproval(a, o) \/ ReadOverdue(a, o)
               \/ \E d \in Decisions : Decide(a, d, o)
        PROVE  Told
    BY <1>3, <1>4, <1>5 DEF RequestApproval, ReadOverdue, Decide, Decisions
  <1>6. ASSUME NEW a \in Approvals, NEW o \in StoreOutcomes, NEW r \in Runs,
               RunUnresolved(r, a, o)
        PROVE  FALSE
    BY <1>6, SoundFact DEF RunUnresolved
  <1>7. ASSUME List PROVE Told
    <2>1. /\ \A b \in Approvals : status'[b] = IF b \in DuePending THEN "expired" ELSE status[b]
          /\ \A b \in DuePending : "expired" \in noted'[b]
          /\ Expires /\ lost' = {}
      BY <1>7, ListEffect DEF Sound, Expires
    <2>2. \A b \in Approvals \ DuePending : noted'[b] = noted[b]
      BY <2>1 DEF Expires
    <2> QED
      BY <1>1, <2>1, <2>2
  <1>8. ASSUME NEW r \in Runs, NEW a \in Approvals, NEW sameTarget \in BOOLEAN,
               NEW blockedSteps \in BOOLEAN, RunBlocked(r, a, sameTarget, blockedSteps)
        PROVE  Told
    <2>1. /\ status'[a] = Resolved(a)
          /\ \A b \in Approvals \ {a} : status'[b] = status[b]
          /\ \A b \in Approvals : noted[b] \subseteq noted'[b]
          /\ Resolved(a) = "expired" => "expired" \in noted'[a]
      BY <1>0, <1>8, BlockedApproval
    <2>2. Resolved(a) = "expired" \/ Resolved(a) = status[a]
      BY DEF Resolved
    <2> QED
      BY <1>1, <1>2, <2>1, <2>2
  <1>9. ASSUME UNCHANGED <<file, noted>> PROVE Told
    BY <1>1, <1>9 DEF status
  <1>10. ASSUME \/ Crash \/ UNCHANGED vars
                \/ \E a \in Approvals : Lapse(a)
                \/ \E r \in Runs, a \in Approvals, n \in 1..MaxActions : RunStarted(r, a, n)
                \/ \E r \in Runs : ExecuteRaises(r) \/ \E good \in BOOLEAN : Execute(r, good)
         PROVE  UNCHANGED <<file, noted>>
    BY <1>10 DEF Crash, vars, Lapse, RunStarted, ExecuteRaises, Execute, approvalVars
  <1> HIDE DEF Told
  <1> QED
    BY <1>5, <1>6, <1>7, <1>8, <1>9, <1>10 DEF Next, Step, Told

\* Unless a write fails, an approval that is not pending any more has the event of it
\* in the audit log, whichever endpoint made it so.
THEOREM TransitionsNoted == Spec => []TransitionsAudited
  <1>1. Init => TransitionsAudited
    BY DEF Init, TransitionsAudited, Outcomes, status, File!EmptyFile, File!Missing
  <1>2. AInv /\ TransitionsAudited /\ [Next]_vars => TransitionsAudited'
    BY TransitionSteps DEF AInv
  <1> QED
    BY <1>1, <1>2, ApprovalsInductive, PTL DEF Spec

\* What RunsAuditedAfter asks of a run with call c and trail t, and what it takes
\* to come to that while the run goes on or after it is lost.
EndNoted(c, t) ==
    HasExecuted(c) => /\ "started" \in t
                      /\ c.pc \in {"answered", "error"} => t \cap {"completed", "failed"} # {}
EInv == Sound /\ ~ActionsRaise => \A r \in Runs : EndNoted(run[r], trail[r])

LEMMA EndSteps ==
    ASSUME AInv, RInv, EInv, [Next]_vars
    PROVE  EInv'
  <1>0. mode' = mode
    BY DEF Next, vars
  <1> DEFINE Ends == \A r \in Runs : EndNoted(run'[r], trail'[r])
  <1> SUFFICES ASSUME Sound, ~ActionsRaise PROVE Ends
    BY <1>0 DEF EInv, Sound, AuditFails, StoreFails, ActionsRaise
  <1>1. \A r \in Runs : EndNoted(run[r], trail[r])
    BY DEF EInv
  <1>2. run \in [Runs -> Calls] /\ trail \in [Runs -> SUBSET RunEvents]
    BY DEF RInv
  <1>3. ASSUME NEW r \in Runs, NEW c, NEW t, EndNoted(c, t),
               run' = [run EXCEPT ![r] = c], trail' = [trail EXCEPT ![r] = t]
        PROVE  Ends
    <2> SUFFICES ASSUME NEW x \in Runs PROVE EndNoted(run'[x], trail'[x])
      OBVIOUS
    <2>1. CASE x = r
      <3>1. run'[x] = c /\ trail'[x] = t
        BY <1>2, <1>3, <2>1
      <3> QED
        BY <1>3, <3>1
    <2>2. CASE x # r
      <3>1. run'[x] = run[x] /\ trail'[x] = trail[x]
        BY <1>2, <1>3, <2>2
      <3> QED
        BY <1>1, <3>1
    <2> QED
      BY <2>1, <2>2
  \* A handler that ends without having executed anything.
  <1>4. ASSUME NEW a, NEW pc \in {"answered", "error"}, NEW t
        PROVE  EndNoted(Call(pc, a, 0), t)
    <2>1. ~HasExecuted(Call(pc, a, 0))
      BY <1>4 DEF HasExecuted, Call
    <2> QED
      BY <2>1 DEF EndNoted
  <1>5. ASSUME NEW r \in Runs, NEW a \in Approvals, NEW sameTarget \in BOOLEAN,
               NEW blockedSteps \in BOOLEAN, RunBlocked(r, a, sameTarget, blockedSteps)
        PROVE  Ends
    <2> DEFINE events == IF Resolved(a) = "expired" THEN <<"requested", "expired", "blocked">>
                         ELSE <<"requested", "blocked">>
    <2>1. PICK w \in Audits(events) :
            /\ Trails(r, w)
            /\ IF Passes(w) THEN run' = [run EXCEPT ![r] = Call("answered", a, 0)]
               ELSE run' = [run EXCEPT ![r] = Call("error", a, 0)]
      BY <1>5 DEF RunBlocked
    <2> HIDE DEF events
    <2>2. PICK c \in {Call("answered", a, 0), Call("error", a, 0)} : run' = [run EXCEPT ![r] = c]
      BY <2>1
    <2>3. PICK t : trail' = [trail EXCEPT ![r] = t]
      BY <2>1 DEF Trails
    <2>4. EndNoted(c, t)
      BY <1>4
    <2> QED
      BY <1>3, <2>2, <2>3, <2>4
  <1>6. ASSUME NEW r \in Runs, NEW a \in Approvals, NEW n \in 1..MaxActions, RunStarted(r, a, n)
        PROVE  Ends
    <2>1. PICK w \in Audits(<<"requested", "started">>) :
             /\ Trails(r, w)
             /\ run' = [run EXCEPT ![r] = IF Passes(w) THEN Call("executing", a, n)
                                          ELSE Call("error", a, 0)]
      BY <1>6 DEF RunStarted
    <2> DEFINE t == trail[r] \cup ((w.told \cup w.unread) \cap RunEvents)
    <2>2. "started" \in t
      BY SoundFact, SetOfTwo DEF AInv, RunEvents
    <2>3. trail' = [trail EXCEPT ![r] = t]
      BY <2>1 DEF Trails
    <2>4. PICK c \in {Call("executing", a, n), Call("error", a, 0)} : run' = [run EXCEPT ![r] = c]
      BY <2>1
    <2> HIDE DEF t
    <2>5. EndNoted(Call("executing", a, n), t)
      <3>1. Call("executing", a, n).pc = "executing"
        BY DEF Call
      <3> QED
        BY <2>2, <3>1 DEF EndNoted
    <2>6. EndNoted(c, t)
      BY <1>4, <2>4, <2>5
    <2> QED
      BY <1>3, <2>3, <2>4, <2>6
  <1>7. ASSUME NEW r \in Runs, NEW good \in BOOLEAN, Execute(r, good)
        PROVE  Ends
    <2> DEFINE next == Counted(run[r], good)
    <2>1. "started" \in trail[r] /\ next.pc = "executing"
      BY <1>1, <1>7 DEF Execute, EndNoted, HasExecuted, Counted
    <2>2. CASE MoreToDo(next)
      <3>1. run' = [run EXCEPT ![r] = next] /\ trail' = trail
        BY <1>7, <2>2 DEF Execute
      <3>2. trail' = [trail EXCEPT ![r] = trail[r]]
        BY <1>2, <3>1
      <3>3. EndNoted(next, trail[r])
        BY <2>1 DEF EndNoted
      <3> HIDE DEF next
      <3> QED
        BY <1>3, <3>1, <3>2, <3>3
    <2>3. CASE ~MoreToDo(next)
      <3> DEFINE e == FinalEvent(FinalStatus(next.ok, next.bad))
      <3>1. Finish(r, next)
        BY <1>7, <2>3 DEF Execute
      <3>2. PICK w \in Audits(<<e>>) : Trails(r, w) /\ \E c : run' = [run EXCEPT ![r] = c]
        BY <3>1 DEF Finish
      <3>3. PICK c : run' = [run EXCEPT ![r] = c]
        BY <3>2
      <3> DEFINE t == trail[r] \cup ((w.told \cup w.unread) \cap RunEvents)
      <3>4. trail' = [trail EXCEPT ![r] = t]
        BY <3>2 DEF Trails
      <3>5. e \in {"completed", "failed"} /\ e \in RunEvents
        BY DEF FinalEvent, RunEvents
      <3>6. w.told = {e}
        BY SoundFact, SetOfOne DEF AInv
      <3>7. EndNoted(c, t)
        BY <2>1, <3>5, <3>6 DEF EndNoted
      <3> HIDE DEF e, next, t
      <3> QED
        BY <1>3, <3>3, <3>4, <3>7
    <2> QED
      BY <2>2, <2>3
  <1>8. ASSUME Crash PROVE Ends
    <2> SUFFICES ASSUME NEW r \in Runs PROVE EndNoted(run'[r], trail'[r])
      OBVIOUS
    <2>1. trail' = trail
      BY <1>8 DEF Crash
    <2>2. CASE run[r].pc = "executing"
      <3>1. run'[r] = [run[r] EXCEPT !.pc = "lost"]
        BY <1>8, <2>2 DEF Crash
      <3>2. run'[r].pc = "lost"
        BY <1>2, <3>1 DEF Calls
      <3>3. "started" \in trail[r]
        BY <1>1, <2>2 DEF EndNoted, HasExecuted
      <3> QED
        BY <2>1, <3>2, <3>3 DEF EndNoted
    <2>3. CASE run[r].pc # "executing"
      <3>1. run'[r] = run[r]
        BY <1>8, <2>3 DEF Crash
      <3> QED
        BY <1>1, <2>1, <3>1
    <2> QED
      BY <2>2, <2>3
  \* Nothing else happens to a run when no write fails and no action raises.
  <1>9. ASSUME NEW r \in Runs, ExecuteRaises(r) PROVE FALSE
    BY <1>9 DEF ExecuteRaises
  <1>10. ASSUME NEW a \in Approvals, NEW o \in StoreOutcomes, NEW r \in Runs,
                RunUnresolved(r, a, o)
         PROVE  FALSE
    BY <1>10, SoundFact DEF RunUnresolved, AInv
  <1>11. ASSUME \/ List \/ UNCHANGED vars
                \/ \E a \in Approvals : Lapse(a)
                \/ \E a \in Approvals, o \in StoreOutcomes :
                     \/ RequestApproval(a, o) \/ ReadOverdue(a, o)
                     \/ \E d \in Decisions : Decide(a, d, o)
         PROVE  Ends
    <2>1. run' = run /\ trail' = trail
      BY <1>11 DEF List, Lapse, RequestApproval, ReadOverdue, Decide, vars, runVars
    <2> QED
      BY <1>1, <2>1
  <1> HIDE DEF Ends
  <1> QED
    BY <1>5, <1>6, <1>7, <1>8, <1>9, <1>10, <1>11 DEF Next, Step

\* Unless a write fails or an action raises, the audit log tells that a run whose handler
\* is over was started and that it ended, for any number of interleaved runs.
THEOREM RunsNoted == Spec => []RunsAuditedAfter
  <1>1. Init => EInv
    <2> SUFFICES ASSUME Init, NEW r \in Runs PROVE EndNoted(run[r], trail[r])
      BY DEF EInv
    <2>1. ~HasExecuted(run[r])
      BY DEF Init, NoRun, HasExecuted
    <2> QED
      BY <2>1 DEF EndNoted
  <1>2. AInv /\ RInv /\ EInv /\ [Next]_vars => EInv'
    BY EndSteps
  <1>3. EInv => RunsAuditedAfter
    BY DEF EInv, RunsAuditedAfter, EndNoted, HasExecuted, Executed
  <1> QED
    BY <1>1, <1>2, <1>3, Inductive, PTL DEF Spec
-----------------------------------------------------------------------------
(* The approvals, each as the store's contract has it.  One approval at a time: *)
(* List persists the expiry of many, which is as many steps of the contract.    *)

Life(a) == INSTANCE ApprovalLifecycle WITH
    Approvals <- {a}, overdue <- overdue \cap {a},
    status <- [b \in {a} |-> IF status[b] = "missing" THEN "absent" ELSE status[b]]

\* Only what was created has an expiry, and only what is overdue has expired.
LInv == \A a \in Approvals \ lost :
            /\ a \in overdue => status[a] # "missing"
            /\ status[a] = "expired" => a \in overdue

LEMMA LInvStep == AInv /\ LInv /\ [Next]_vars => LInv'
  <1> SUFFICES ASSUME AInv, LInv, [Next]_vars, NEW a \in Approvals \ lost'
               PROVE  /\ a \in overdue' => status'[a] # "missing"
                      /\ status'[a] = "expired" => a \in overdue'
    BY DEF LInv
  <1>1. Fate(a) /\ a \notin lost
    BY ApprovalSteps DEF Fates, AInv
  <1> QED
    BY <1>1 DEF LInv, Fate, Kept, Moved, Decisions

\* Each fate of an approval is a step that the contract has, or none.
LEMMA FateFollows ==
    ASSUME AInv, AInv', LInv, LInv', NEW a \in Approvals, a \notin lost, a \notin lost',
           Fate(a)
    PROVE  [Life(a)!Next]_(Life(a)!vars)
  <1> DEFINE s == [b \in {a} |-> IF status[b] = "missing" THEN "absent" ELSE status[b]]
             o == overdue \cap {a}
  <1>0. status[a] \in StoreStatuses /\ status'[a] \in StoreStatuses
    BY FilesFact DEF AInv, ApprovalsOK, Good, status
  <1>1. s' \in [{a} -> Life(a)!LifeStatuses]
    BY <1>0 DEF StoreStatuses, Life!LifeStatuses
  <1>2. ASSUME Kept(a) PROVE [Life(a)!Next]_(Life(a)!vars)
    <2>1. s' = s /\ o \subseteq o'
      BY <1>2 DEF Kept
    <2> QED
      BY <2>1 DEF Life!Next, Life!Lapse, Life!TimePasses, Life!vars
  <1>3. ASSUME Moved(a, "missing", "pending") PROVE Life(a)!Create(a)
    <2>1. s[a] = "absent" /\ s'[a] = "pending" /\ o' = o /\ a \notin o'
      BY <1>3 DEF Moved, LInv
    <2> QED
      BY <1>1, <2>1 DEF Life!Create, Life!Moves, Life!TimePasses
  <1>4. ASSUME a \notin overdue, NEW d \in Decisions, Moved(a, "pending", d)
        PROVE  Life(a)!Decide(a)
    <2>1. s[a] = "pending" /\ s'[a] \in {"approved", "rejected"} /\ o' = o /\ a \notin o
      BY <1>4 DEF Moved, Decisions
    <2> QED
      BY <1>1, <2>1 DEF Life!Decide, Life!Moves
  <1>5. ASSUME a \in overdue, Moved(a, "pending", "expired") PROVE Life(a)!Expire(a)
    <2>1. s[a] = "pending" /\ s'[a] = "expired" /\ o' = o /\ a \in o
      BY <1>5 DEF Moved
    <2> QED
      BY <1>1, <2>1 DEF Life!Expire, Life!Moves
  <1> QED
    BY <1>2, <1>3, <1>4, <1>5 DEF Fate, Life!Next

\* Whatever fails, whoever decides and whichever runs are in flight, each approval of
\* which no unfinished line ever swallows a snapshot does what the approval store
\* promises of it.  On a disk that keeps no part of a failed write that is every
\* approval (NothingLost); one whose snapshot is swallowed may go back to pending, and
\* be decided again.
THEOREM ApprovalRefinement ==
    ASSUME NEW a \in Approvals PROVE Spec /\ [](a \notin lost) => Life(a)!Spec
  <1>1. Init => LInv
    BY DEF Init, LInv, status, File!EmptyFile, File!Missing
  <1>2. Init => Life(a)!Init
    BY DEF Init, Life!Init, status, File!EmptyFile, File!Missing
  <1>3. /\ AInv /\ AInv' /\ LInv /\ LInv' /\ [Next]_vars
        /\ a \notin lost /\ (a \notin lost)'
        => [Life(a)!Next]_(Life(a)!vars)
    <2> SUFFICES ASSUME AInv, AInv', LInv, LInv', [Next]_vars, a \notin lost, a \notin lost'
                 PROVE  [Life(a)!Next]_(Life(a)!vars)
      OBVIOUS
    <2>1. Fate(a)
      BY ApprovalSteps DEF Fates, AInv
    <2> QED
      BY <2>1, FateFollows
  <1> QED
    BY <1>1, <1>2, <1>3, LInvStep, ApprovalsInductive, PTL DEF Spec, Life!Spec
-----------------------------------------------------------------------------
(* What is left of a run only shrinks.  That the handler is resumed as long as *)
(* something is left is the fairness of Execute, which TLC checks RunsEnd with. *)

\* The actions a run has yet to execute, and one step more before it begins.
Left(c) ==
    IF c.pc = "unused" THEN MaxActions + 1 ELSE IF c.pc = "executing" THEN c.todo ELSE 0
Advance(r) == run'[r] = run[r] \/ Left(run'[r]) < Left(run[r])

LEMMA Begins ==
    ASSUME RInv, NEW r \in Runs, run[r].pc = "unused", NEW c,
           run' = [run EXCEPT ![r] = c], c.pc # "unused",
           c.pc = "executing" => c.todo \in 0..MaxActions
    PROVE  \A x \in Runs : Advance(x)
  <1>1. run'[r] = c /\ \A x \in Runs : x # r => run'[x] = run[x]
    BY DEF RInv
  <1>2. Left(c) < MaxActions + 1
    BY MaxActionsPos DEF Left
  <1> QED
    BY <1>1, <1>2 DEF Advance, Left

LEMMA Ends ==
    ASSUME RInv, NEW r \in Runs, run[r].pc = "executing", NEW c,
           run' = [run EXCEPT ![r] = c], c.pc \notin {"unused", "executing"}
    PROVE  \A x \in Runs : Advance(x)
  <1>1. run'[r] = c /\ \A x \in Runs : x # r => run'[x] = run[x]
    BY DEF RInv
  <1>2. Left(c) = 0 /\ Left(run[r]) = run[r].todo /\ run[r].todo > 0
    BY DEF Left, RInv, CallOK
  <1> QED
    BY <1>1, <1>2 DEF Advance

LEMMA NextAdvances == AInv /\ RInv /\ [Next]_vars => \A x \in Runs : Advance(x)
  <1> SUFFICES ASSUME AInv, RInv, [Next]_vars PROVE \A x \in Runs : Advance(x)
    OBVIOUS
  <1>1. ASSUME NEW r \in Runs, NEW a \in Approvals, NEW pc \in {"answered", "error"},
               run[r].pc = "unused", run' = [run EXCEPT ![r] = Call(pc, a, 0)]
        PROVE  \A x \in Runs : Advance(x)
    <2>1. Call(pc, a, 0).pc = pc
      BY DEF Call
    <2> QED
      BY <1>1, <2>1, Begins
  <1>2. ASSUME NEW r \in Runs, NEW a \in Approvals, NEW sameTarget \in BOOLEAN,
               NEW blockedSteps \in BOOLEAN, RunBlocked(r, a, sameTarget, blockedSteps)
        PROVE  \A x \in Runs : Advance(x)
    BY <1>1, <1>2 DEF RunBlocked, NewRun
  <1>3. ASSUME NEW r \in Runs, NEW a \in Approvals, NEW o \in StoreOutcomes,
               RunUnresolved(r, a, o)
        PROVE  \A x \in Runs : Advance(x)
    BY <1>1, <1>3 DEF RunUnresolved, NewRun
  <1>4. ASSUME NEW r \in Runs, NEW a \in Approvals, NEW n \in 1..MaxActions,
               RunStarted(r, a, n)
        PROVE  \A x \in Runs : Advance(x)
    <2>1. run[r].pc = "unused"
      BY <1>4 DEF RunStarted, NewRun
    <2>2. \/ run' = [run EXCEPT ![r] = Call("executing", a, n)]
          \/ run' = [run EXCEPT ![r] = Call("error", a, 0)]
      BY <1>4 DEF RunStarted
    <2>3. Call("executing", a, n).pc = "executing" /\ Call("executing", a, n).todo = n
      BY DEF Call
    <2>4. n \in 0..MaxActions
      BY MaxActionsPos
    <2> QED
      BY <1>1, <2>1, <2>2, <2>3, <2>4, Begins
  <1>5. ASSUME NEW r \in Runs, NEW good \in BOOLEAN, Execute(r, good)
        PROVE  \A x \in Runs : Advance(x)
    <2> DEFINE next == Counted(run[r], good)
               answer == [next EXCEPT !.pc = "answered"]
               failed == [next EXCEPT !.pc = "error"]
    <2>1. run[r].pc = "executing" /\ CallOK(run[r])
      BY <1>5 DEF Execute, RInv
    <2>2. /\ next.pc = "executing" /\ next.todo = run[r].todo - 1
          /\ answer.pc = "answered" /\ failed.pc = "error"
      BY <2>1 DEF Counted
    <2>3. \/ run' = [run EXCEPT ![r] = next]
          \/ run' = [run EXCEPT ![r] = answer] \/ run' = [run EXCEPT ![r] = failed]
      BY <1>5 DEF Execute, Finish
    <2> HIDE DEF next, answer, failed
    <2>4. CASE run' = [run EXCEPT ![r] = next]
      <3>1. run'[r] = next /\ \A x \in Runs : x # r => run'[x] = run[x]
        BY <2>4 DEF RInv
      <3>2. run[r].todo \in Nat
        BY <2>1, MaxActionsPos DEF CallOK, Calls
      <3> QED
        BY <2>1, <2>2, <3>1, <3>2 DEF Advance, Left
    <2> QED
      BY <2>1, <2>2, <2>3, <2>4, Ends
  <1>6. ASSUME NEW r \in Runs, ExecuteRaises(r) PROVE \A x \in Runs : Advance(x)
    <2> DEFINE c == [run[r] EXCEPT !.pc = "error"]
    <2>1. run[r].pc = "executing" /\ run' = [run EXCEPT ![r] = c]
      BY <1>6 DEF ExecuteRaises, RInv
    <2>2. c.pc = "error"
      BY DEF RInv, Calls
    <2> HIDE DEF c
    <2> QED
      BY <2>1, <2>2, Ends
  <1>7. CASE Crash
    <2> SUFFICES ASSUME NEW x \in Runs PROVE Advance(x)
      OBVIOUS
    <2>1. CASE run[x].pc = "executing"
      <3>1. run'[x] = [run[x] EXCEPT !.pc = "lost"]
        BY <1>7, <2>1 DEF Crash
      <3>2. run'[x].pc = "lost"
        BY <3>1 DEF RInv, Calls
      <3> QED
        BY <2>1, <3>2 DEF Advance, Left, RInv, CallOK
    <2>2. CASE run[x].pc # "executing"
      BY <1>7, <2>2 DEF Crash, Advance
    <2> QED
      BY <2>1, <2>2
  <1>8. ASSUME \/ List \/ UNCHANGED vars
               \/ \E a \in Approvals : Lapse(a)
               \/ \E a \in Approvals, o \in StoreOutcomes :
                    \/ RequestApproval(a, o) \/ ReadOverdue(a, o)
                    \/ \E d \in Decisions : Decide(a, d, o)
        PROVE  \A x \in Runs : Advance(x)
    <2>1. run' = run
      BY <1>8 DEF List, Lapse, RequestApproval, ReadOverdue, Decide, vars, runVars
    <2> QED
      BY <2>1 DEF Advance
  <1> QED
    BY <1>2, <1>3, <1>4, <1>5, <1>6, <1>7, <1>8 DEF Next, Step

\* A run executes at most as many actions as its request named and never begins again:
\* whatever a step changes of a run, less is left of it than before, however many
\* runs, decisions and crashes come between.
THEOREM RunsAdvance == Spec => [][\A r \in Runs : Advance(r)]_vars
  <1>1. AInv /\ RInv /\ [Next]_vars => [\A r \in Runs : Advance(r)]_vars
    BY NextAdvances
  <1> QED
    BY <1>1, Inductive, PTL DEF Spec
=============================================================================
