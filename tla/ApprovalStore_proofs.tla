------------------------ MODULE ApprovalStore_proofs ------------------------
(***************************************************************************)
(* Proofs about the approval store, for any set of ids, limit and clock    *)
(* bound.  The type invariant and ApprovedInTime hold on any disk; that    *)
(* answers are kept and final, and that the store implements               *)
(* ApprovalLifecycle, on a disk that keeps no part of a write.             *)
(***************************************************************************)
EXTENDS ApprovalStore, FiniteSetTheorems, TLAPS

-----------------------------------------------------------------------------
(* What one append does to the file. *)

\* compact_approval_store returns a well formed, clean file in which each id
\* keeps its status or is gone.
LEMMA CompactedFile ==
    ASSUME NEW f \in Files, NEW c
    PROVE  /\ Compacted(f, c) \in Files
           /\ Compacted(f, c).tail = "clean"
           /\ Compacted(f, c).seen = Compacted(f, c).lines
           /\ \A b \in Approvals : Compacted(f, c).seen[b] \in {f.seen[b], Missing}
  <1> DEFINE kept == Newest(Known(f), c)
             l == [a \in Approvals |-> IF a \in kept THEN f.seen[a] ELSE Missing]
  <1>1. kept \subseteq Approvals
    BY DEF Newest, Known
  <1>2. Cardinality(kept) \in Nat
    BY <1>1, ApprovalsFinite, FS_Subset, FS_CardinalityType
  <1>3. l \in [Approvals -> Statuses \cup {Missing}]
    BY DEF Files
  <1>4. Compacted(f, c) = [lines |-> l, seen |-> l, tail |-> "clean",
                           count |-> Cardinality(kept)]
    BY DEF Compacted
  <1> HIDE DEF kept
  <1> QED
    BY <1>2, <1>3, <1>4 DEF Files

\* A whole append, on a clean tail and on one that is not.
LEMMA WholeFile ==
    ASSUME NEW f \in Files, NEW a \in Approvals, NEW s \in Statuses
    PROVE  /\ Whole(f, a, s) \in Files
           /\ Whole(f, a, s).tail = "clean"
           /\ Whole(f, a, s).seen = Whole(f, a, s).lines
           /\ \A b \in Approvals :
                Whole(f, a, s).seen[b] = f.lines[b] \/ (b = a /\ Whole(f, a, s).seen[b] = s)
           /\ f.tail = "clean" => Whole(f, a, s).seen[a] = s
  <1>1. OneMore(f.count) \in Nat
    BY MaxRecordsNat DEF Files, OneMore
  <1>2. CASE f.tail = "clean"
    BY <1>1, <1>2 DEF Whole, Files
  <1>3. CASE f.tail # "clean"
    BY <1>3 DEF Whole, Files
  <1> QED
    BY <1>2, <1>3

\* _persist_snapshot leaves a well formed file; an id other than the one it
\* writes keeps a status that it had, or is gone; and what a reader sees differs
\* from what the whole lines say only for the id of an unterminated snapshot.
LEMMA PersistFile ==
    ASSUME NEW f \in Files, NEW a \in Approvals, NEW s \in Statuses, NEW c,
           NEW o \in Outcomes
    PROVE  LET g == Persist(f, a, s, c, o)
           IN  /\ g \in Files
               /\ \A b \in Approvals :
                    /\ \/ g.seen[b] \in {f.seen[b], f.lines[b], Missing}
                       \/ b = a /\ g.seen[b] = s
                    /\ \/ g.lines[b] \in {f.lines[b], Missing}
                       \/ b = a /\ g.lines[b] = s
                    /\ \/ g = f
                       \/ g.seen[b] = g.lines[b]
                       \/ b = a /\ g.seen[b] = s /\ g.lines[b] = f.lines[b]
  <1>1. CASE o = "ok"
    <2> DEFINE w == Whole(f, a, s)
    <2>1. w \in Files
      BY WholeFile
    <2>2. Persist(f, a, s, c, o) \in {w, Compacted(w, c)}
      BY <1>1 DEF Persist, CompactIfNeeded
    <2>3. CASE Persist(f, a, s, c, o) = w
      BY <2>1, <2>3, WholeFile
    <2>4. CASE Persist(f, a, s, c, o) = Compacted(w, c)
      <3> HIDE DEF w
      <3>1. \A b \in Approvals : w.seen[b] = f.lines[b] \/ (b = a /\ w.seen[b] = s)
        BY WholeFile DEF w
      <3>2. \A b \in Approvals : Compacted(w, c).seen[b] \in {w.seen[b], Missing}
        BY <2>1, CompactedFile
      <3>3. Compacted(w, c).seen = Compacted(w, c).lines /\ Compacted(w, c) \in Files
        BY <2>1, CompactedFile
      <3> QED
        BY <2>4, <3>1, <3>2, <3>3
    <2> QED
      BY <2>2, <2>3, <2>4
  <1>2. CASE o = "none"
    BY <1>2 DEF Persist
  <1>3. CASE o = "torn"
    BY <1>3 DEF Persist, Torn, Files
  <1>4. CASE o = "open"
    <2>1. Persist(f, a, s, c, o) = Open(f, a, s)
      BY <1>4 DEF Persist
    <2>2. CASE f.tail = "clean"
      BY <2>1, <2>2 DEF Open, Files
    <2>3. CASE f.tail # "clean"
      BY <2>1, <2>3 DEF Open, Files
    <2> QED
      BY <2>2, <2>3
  <1>5. CASE o = "unread"
    BY <1>5, WholeFile DEF Persist
  <1> QED
    BY <1>1, <1>2, <1>3, <1>4, <1>5 DEF Outcomes

-----------------------------------------------------------------------------
(***************************************************************************)
(* The inductive invariant.  ApprovedInTime is about the file as readers   *)
(* see it, and an append to a broken tail makes readers see the whole      *)
(* lines again: so it must be known that no line holds an approval that    *)
(* readers do not see, and that a sweep, which writes from a list it made  *)
(* earlier, never holds an approved id.                                    *)
(***************************************************************************)
UnissuedMissing ==
    \A a \in Approvals \ issued : file.seen[a] = Missing /\ file.lines[a] = Missing
ApprovalsVisible ==
    \A a \in Approvals : file.lines[a] = "approved" => file.seen[a] = "approved"
SweepUnapproved ==
    \A a \in sweep : file.seen[a] # "approved"

IInv == TypeOK /\ UnissuedMissing /\ ApprovalsVisible /\ SweepUnapproved

LEMMA InitIInv == Init => IInv
  <1>1. Init => file \in Files
    BY DEF Init, EmptyFile, Files
  <1>2. Init => TypeOK
    BY <1>1 DEF Init, TypeOK
  <1>3. Init => UnissuedMissing /\ ApprovalsVisible /\ SweepUnapproved
    BY DEF Init, EmptyFile, UnissuedMissing, ApprovalsVisible, SweepUnapproved, Missing
  <1> QED
    BY <1>2, <1>3 DEF IInv

\* A write of a snapshot keeps the three file invariants, when the id written
\* is issued and not approved, and no id of the sweep is given an approval.
LEMMA PersistIInv ==
    ASSUME IInv, NEW a \in Approvals, NEW s \in Statuses, NEW c, NEW o \in Outcomes,
           file' = Persist(file, a, s, c, o),
           a \in issued', issued \subseteq issued', file.seen[a] # "approved",
           sweep' \subseteq sweep, a \in sweep => s # "approved"
    PROVE  /\ file' \in Files
           /\ UnissuedMissing' /\ ApprovalsVisible' /\ SweepUnapproved'
  <1> DEFINE g == Persist(file, a, s, c, o)
  <1>1. file \in Files
    BY DEF IInv, TypeOK
  <1>2. /\ g \in Files
        /\ \A b \in Approvals :
             /\ \/ g.seen[b] \in {file.seen[b], file.lines[b], Missing}
                \/ b = a /\ g.seen[b] = s
             /\ \/ g.lines[b] \in {file.lines[b], Missing}
                \/ b = a /\ g.lines[b] = s
             /\ \/ g = file
                \/ g.seen[b] = g.lines[b]
                \/ b = a /\ g.seen[b] = s /\ g.lines[b] = file.lines[b]
    BY <1>1, PersistFile
  <1>3. file' = g
    OBVIOUS
  <1> HIDE DEF g
  <1>4. UnissuedMissing'
    BY <1>2, <1>3 DEF IInv, UnissuedMissing
  <1>5. ApprovalsVisible'
    <2> SUFFICES ASSUME NEW b \in Approvals, g.lines[b] = "approved"
                 PROVE  g.seen[b] = "approved"
      BY <1>3 DEF ApprovalsVisible
    <2>1. file.lines[b] = "approved" => file.seen[b] = "approved"
      BY DEF IInv, ApprovalsVisible
    <2> QED
      BY <1>2, <2>1
  <1>6. SweepUnapproved'
    <2> SUFFICES ASSUME NEW b \in sweep PROVE g.seen[b] # "approved"
      BY <1>3 DEF SweepUnapproved
    <2>1. b \in Approvals /\ file.seen[b] # "approved" /\ file.lines[b] # "approved"
      BY DEF IInv, TypeOK, SweepUnapproved, ApprovalsVisible
    <2> QED
      BY <1>2, <2>1 DEF Missing
  <1> QED
    BY <1>2, <1>3, <1>4, <1>5, <1>6

LEMMA StatusFacts ==
    /\ "pending" \in Statuses /\ "expired" \in Statuses /\ Decisions \subseteq Statuses
    /\ Missing # "approved" /\ Missing # "pending" /\ Missing # "expired"
  BY DEF Statuses, Decisions, Missing

LEMMA NextIInv == IInv /\ [Next]_vars => IInv'
  <1> SUFFICES ASSUME IInv, [Next]_vars PROVE IInv'
    OBVIOUS
  <1> USE StatusFacts
  <1>0. Disk \subseteq Outcomes
    BY DiskOutcomes
  <1>t. TypeOK
    BY DEF IInv
  <1>s. \A a \in Approvals : file.seen[a] # Missing => a \in issued
    BY DEF IInv, UnissuedMissing
  <1>a. ASSUME NEW a \in Approvals, NEW s \in Statuses, NEW o
        PROVE  Answer(a, s, o) \in [Approvals -> SUBSET Statuses]
    BY <1>t DEF Answer, TypeOK
  <1>1. CASE Tick
    BY <1>1, <1>t DEF Tick, IInv, TypeOK, UnissuedMissing, ApprovalsVisible, SweepUnapproved
  <1>2. CASE SweepBegin
    <2>1. sweep' \subseteq issued
      BY <1>2, <1>s DEF SweepBegin
    <2>2. TypeOK' /\ UnissuedMissing' /\ ApprovalsVisible'
      BY <1>2, <1>t, <2>1 DEF SweepBegin, IInv, TypeOK, UnissuedMissing, ApprovalsVisible
    <2>3. SweepUnapproved'
      BY <1>2 DEF SweepBegin, SweepUnapproved
    <2> QED
      BY <2>2, <2>3 DEF IInv
  <1>3. CASE Crash
    BY <1>3, <1>t DEF Crash, IInv, TypeOK, UnissuedMissing, ApprovalsVisible, SweepUnapproved
  <1>4. ASSUME NEW a \in Approvals, NEW o \in Disk, NEW ttl \in Ttls, Create(a, ttl, o)
        PROVE  IInv'
    <2>1. /\ file' \in Files
          /\ UnissuedMissing' /\ ApprovalsVisible' /\ SweepUnapproved'
      <3>1. file.seen[a] = Missing
        BY <1>4 DEF Create, IInv, UnissuedMissing
      <3>2. file' = Persist(file, a, "pending", created', o) /\ sweep' = sweep
        BY <1>4 DEF Create
      <3>3. a \in issued' /\ issued \subseteq issued'
        BY <1>4 DEF Create
      <3> QED
        BY <1>0, <3>1, <3>2, <3>3, PersistIInv
    <2>2. TypeOK'
      BY <1>4, <1>t, <1>a, <2>1, TtlsInt DEF Create, TypeOK
    <2> QED
      BY <2>1, <2>2 DEF IInv
  <1>5. ASSUME NEW a \in Approvals, NEW o \in Disk, NEW s \in Statuses,
               file.seen[a] \notin {Missing, "approved"}, Writes(a, s, o), Idle,
               UNCHANGED <<now, issued, created, expires, sweep, swept>>
        PROVE  IInv'
    <2>1. a \in issued
      BY <1>5, <1>s
    <2>2. /\ file' \in Files
          /\ UnissuedMissing' /\ ApprovalsVisible' /\ SweepUnapproved'
      <3>1. file' = Persist(file, a, s, created, o) /\ a \notin sweep
        BY <1>5 DEF Writes, Idle
      <3> QED
        BY <1>0, <1>5, <2>1, <3>1, PersistIInv
    <2>3. TypeOK'
      BY <1>5, <1>t, <1>a, <2>2 DEF Writes, TypeOK
    <2> QED
      BY <2>2, <2>3 DEF IInv
  <1>6. ASSUME NEW a \in Approvals, NEW o \in Disk, Resolve(a, o) PROVE IInv'
    BY <1>5, <1>6 DEF Resolve
  <1>7. ASSUME NEW a \in Approvals, NEW o \in Disk, NEW d \in Decisions, Decide(a, d, o)
        PROVE  IInv'
    BY <1>5, <1>7 DEF Decide
  <1>8. ASSUME NEW a \in Approvals, NEW o \in Disk, DecideExpired(a, o) PROVE IInv'
    BY <1>5, <1>8 DEF DecideExpired
  <1>9. ASSUME NEW a \in Approvals, NEW o \in Disk, SweepOne(a, o) PROVE IInv'
    <2>1. a \in sweep /\ a \in issued /\ sweep' \subseteq sweep
      BY <1>9, <1>t DEF SweepOne, TypeOK
    <2>2. /\ file' \in Files
          /\ UnissuedMissing' /\ ApprovalsVisible' /\ SweepUnapproved'
      <3>1. file.seen[a] # "approved"
        BY <2>1 DEF IInv, SweepUnapproved
      <3>2. file' = Persist(file, a, "expired", created, o) /\ issued' = issued
        BY <1>9 DEF SweepOne
      <3> QED
        BY <1>0, <2>1, <3>1, <3>2, PersistIInv
    <2>3. answered' \in [Approvals -> SUBSET Statuses] /\ swept' \subseteq issued
      BY <1>9, <1>t, <2>1 DEF SweepOne, TypeOK
    <2>4. TypeOK'
      BY <1>9, <1>t, <2>1, <2>2, <2>3 DEF SweepOne, TypeOK
    <2> QED
      BY <2>2, <2>4 DEF IInv
  <1>10. CASE UNCHANGED vars
    BY <1>10 DEF vars, IInv, TypeOK, UnissuedMissing, ApprovalsVisible, SweepUnapproved
  <1> QED
    BY <1>1, <1>2, <1>3, <1>4, <1>6, <1>7, <1>8, <1>9, <1>10 DEF Next

\* The invariant holds of every reachable state.
LEMMA Inductive == Spec => []IInv
  BY InitIInv, NextIInv, PTL DEF Spec

\* The state of the store is well formed, whatever the disk keeps of a write.
THEOREM TypeCorrect == Spec => []TypeOK
  BY Inductive, PTL DEF IInv

-----------------------------------------------------------------------------
(* Approvals are given in time, on any disk. *)

\* When an id starts to read as approved, the write was an approval of that id.
LEMMA PersistApproves ==
    ASSUME IInv, NEW a \in Approvals, NEW s \in Statuses, NEW c, NEW o \in Outcomes,
           file' = Persist(file, a, s, c, o),
           NEW b \in Approvals, file.seen[b] # "approved", file'.seen[b] = "approved"
    PROVE  b = a /\ s = "approved"
  <1>1. file \in Files
    BY DEF IInv, TypeOK
  <1>2. \/ file'.seen[b] \in {file.seen[b], file.lines[b], Missing}
        \/ b = a /\ file'.seen[b] = s
    BY <1>1, PersistFile
  <1>3. file.lines[b] # "approved"
    BY DEF IInv, ApprovalsVisible
  <1> QED
    BY <1>2, <1>3 DEF Missing

\* No approval becomes approved unless it was pending and not overdue.
THEOREM InTime == Spec => ApprovedInTime
  <1> DEFINE A == \A a \in Approvals :
                    file.seen[a] # "approved" /\ file'.seen[a] = "approved"
                       => file.seen[a] = "pending" /\ now <= expires[a]
  <1>1. IInv /\ [Next]_vars => [A]_vars
    <2> SUFFICES ASSUME IInv, Next,
                        NEW b \in Approvals,
                        file.seen[b] # "approved", file'.seen[b] = "approved"
                 PROVE  file.seen[b] = "pending" /\ now <= expires[b]
      OBVIOUS
    <2> USE StatusFacts
    <2>0. Disk \subseteq Outcomes
      BY DiskOutcomes
    <2>1. CASE Tick \/ SweepBegin \/ Crash
      BY <2>1 DEF Tick, SweepBegin, Crash
    <2>2. ASSUME NEW a \in Approvals, NEW o \in Disk, NEW ttl \in Ttls, Create(a, ttl, o)
          PROVE  FALSE
      <3>1. file' = Persist(file, a, "pending", created', o)
        BY <2>2 DEF Create
      <3> QED
        BY <2>0, <3>1, PersistApproves
    <2>3. ASSUME NEW a \in Approvals, NEW o \in Disk,
                 Resolve(a, o) \/ DecideExpired(a, o) \/ SweepOne(a, o)
          PROVE  FALSE
      <3>1. file' = Persist(file, a, "expired", created, o)
        BY <2>3 DEF Resolve, DecideExpired, SweepOne, Writes
      <3> QED
        BY <2>0, <3>1, PersistApproves
    <2>4. ASSUME NEW a \in Approvals, NEW o \in Disk, NEW d \in Decisions, Decide(a, d, o)
          PROVE  file.seen[b] = "pending" /\ now <= expires[b]
      <3>1. file' = Persist(file, a, d, created, o)
        BY <2>4 DEF Decide, Writes
      <3>2. b = a
        BY <2>0, <3>1, PersistApproves
      <3>3. file.seen[a] = "pending" /\ ~Overdue(a)
        BY <2>4 DEF Decide
      <3>4. now \in Int /\ expires[a] \in Int
        BY DEF IInv, TypeOK
      <3> QED
        BY <3>2, <3>3, <3>4 DEF Overdue
    <2> QED
      BY <2>1, <2>2, <2>3, <2>4 DEF Next
  <1>2. Spec => [][A]_vars
    BY <1>1, Inductive, PTL DEF Spec
  <1> QED
    BY <1>2 DEF ApprovedInTime

-----------------------------------------------------------------------------
(***************************************************************************)
(* A disk that keeps each write whole or not at all.  Then the lines and   *)
(* what readers see agree, and the answers can be compared with the file.  *)
(* The sweep answers at its end for all the ids it has persisted, so what  *)
(* the answers of those ids may be by then is part of the invariant.       *)
(***************************************************************************)
TailClean == file.tail = "clean" /\ file.seen = file.lines
ExpiredOverdue == \A a \in issued : file.seen[a] = "expired" => Overdue(a)
SweepOpen ==
    /\ \A a \in sweep : Overdue(a) /\ file.seen[a] \in {"pending", "expired", Missing}
    /\ \A a \in swept : file.seen[a] \in {"expired", Missing}
    /\ \A a \in sweep \cup swept : answered[a] \subseteq {"pending", "expired"}
UnissuedUnanswered == \A a \in Approvals \ issued : answered[a] = {}
SweptOnlySweeping == swept # {} => sweep # {}

WInv == /\ TailClean /\ ExpiredOverdue /\ SweepOpen /\ UnissuedUnanswered
        /\ SweptOnlySweeping /\ AnswersKept /\ DecisionsAreFinal

\* On such a disk a write to a clean file leaves it clean, changes no other id
\* but by forgetting it, and, unless nothing was written, the id written too
\* has the new status or is forgotten.
LEMMA PersistWhole ==
    ASSUME NEW f \in Files, f.tail = "clean", f.seen = f.lines,
           NEW a \in Approvals, NEW s \in Statuses, NEW c, NEW o \in WholeWrites
    PROVE  LET g == Persist(f, a, s, c, o)
           IN  /\ g.tail = "clean" /\ g.seen = g.lines
               /\ \A b \in Approvals \ {a} : g.seen[b] \in {f.seen[b], Missing}
               /\ g = f \/ g.seen[a] \in {s, Missing}
               /\ o = "ok" => g.seen[a] \in {s, Missing}
               /\ o = "none" => g = f
               /\ o # "none" => g.seen[a] \in {s, Missing}
  <1> DEFINE w == Whole(f, a, s)
  <1>1. /\ w \in Files /\ w.tail = "clean" /\ w.seen = w.lines /\ w.seen[a] = s
        /\ \A b \in Approvals \ {a} : w.seen[b] = f.seen[b]
    BY WholeFile
  <1> HIDE DEF w
  <1>2. /\ Compacted(w, c).tail = "clean" /\ Compacted(w, c).seen = Compacted(w, c).lines
        /\ \A b \in Approvals : Compacted(w, c).seen[b] \in {w.seen[b], Missing}
    BY <1>1, CompactedFile
  <1>3. CASE o = "ok"
    <2>1. Persist(f, a, s, c, o) \in {w, Compacted(w, c)}
      BY <1>3 DEF Persist, CompactIfNeeded, w
    <2> QED
      BY <1>1, <1>2, <1>3, <2>1
  <1>4. CASE o = "none"
    BY <1>4 DEF Persist
  <1>5. CASE o = "unread"
    BY <1>1, <1>5 DEF Persist, w
  <1> QED
    BY <1>3, <1>4, <1>5 DEF WholeWrites

LEMMA InitWInv == Init => WInv
  BY DEF Init, EmptyFile, WInv, TailClean, ExpiredOverdue, SweepOpen, UnissuedUnanswered,
         SweptOnlySweeping, AnswersKept, DecisionsAreFinal, Missing

\* A call, outside a sweep, that writes s for an approval of which nothing but
\* s has been answered.
LEMMA WritesWInv ==
    ASSUME Disk \subseteq WholeWrites, IInv, WInv, Idle,
           NEW a \in issued, NEW s \in Statuses, NEW o \in Disk, Writes(a, s, o),
           answered[a] \subseteq {"pending", s}, s = "expired" => Overdue(a),
           UNCHANGED <<now, issued, created, expires, sweep, swept>>
    PROVE  WInv'
  <1>1. file \in Files /\ a \in Approvals /\ issued \subseteq Approvals
        /\ answered \in [Approvals -> SUBSET Statuses]
    BY DEF IInv, TypeOK
  <1>2. sweep = {} /\ swept = {} /\ file' = Persist(file, a, s, created, o)
    BY DEF Idle, WInv, SweptOnlySweeping, Writes
  <1>3. /\ file'.tail = "clean" /\ file'.seen = file'.lines
        /\ \A b \in Approvals \ {a} : file'.seen[b] \in {file.seen[b], Missing}
        /\ file' = file \/ file'.seen[a] \in {s, Missing}
        /\ o = "ok" => file'.seen[a] \in {s, Missing}
    BY <1>1, <1>2, PersistWhole DEF WInv, TailClean
  <1>4. /\ \A b \in Approvals \ {a} : answered'[b] = answered[b]
        /\ answered'[a] = answered[a] \/ (o = "ok" /\ answered'[a] = answered[a] \cup {s})
    BY <1>1 DEF Writes, Answer
  <1>5. TailClean'
    BY <1>3 DEF TailClean
  <1>6. ExpiredOverdue'
    <2> SUFFICES ASSUME NEW b \in issued, file'.seen[b] = "expired" PROVE Overdue(b)
      BY DEF ExpiredOverdue, Overdue
    <2>1. CASE b # a
      BY <1>1, <1>3, <2>1 DEF WInv, ExpiredOverdue, Missing
    <2>2. CASE b = a
      BY <1>3, <2>2 DEF WInv, ExpiredOverdue, Missing
    <2> QED
      BY <2>1, <2>2
  <1>7. SweepOpen' /\ SweptOnlySweeping'
    BY <1>2 DEF SweepOpen, SweptOnlySweeping
  <1>8. UnissuedUnanswered'
    BY <1>4 DEF WInv, UnissuedUnanswered
  <1>9. AnswersKept'
    <2> SUFFICES ASSUME NEW b \in Approvals, NEW t \in answered'[b] \ {"pending"}
                 PROVE  file'.seen[b] \in {t, Missing}
      BY DEF AnswersKept
    <2>1. CASE b # a
      BY <1>3, <1>4, <2>1 DEF WInv, AnswersKept
    <2>2. CASE b = a
      BY <1>3, <1>4, <2>2 DEF WInv, AnswersKept
    <2> QED
      BY <2>1, <2>2
  <1>10. DecisionsAreFinal'
    BY <1>4 DEF WInv, DecisionsAreFinal
  <1> QED
    BY <1>5, <1>6, <1>7, <1>8, <1>9, <1>10 DEF WInv

LEMMA SweepOneWInv ==
    ASSUME Disk \subseteq WholeWrites, IInv, WInv,
           NEW a \in Approvals, NEW o \in Disk, SweepOne(a, o)
    PROVE  WInv'
  <1>1. /\ file \in Files /\ issued \subseteq Approvals /\ a \in issued
        /\ sweep \subseteq issued /\ swept \subseteq issued
        /\ answered \in [Approvals -> SUBSET Statuses]
    BY DEF IInv, TypeOK, SweepOne
  <1>2. /\ a \in sweep /\ file' = Persist(file, a, "expired", created, o)
        /\ UNCHANGED <<now, issued, created, expires>>
    BY DEF SweepOne
  <1>3. /\ file'.tail = "clean" /\ file'.seen = file'.lines
        /\ \A b \in Approvals \ {a} : file'.seen[b] \in {file.seen[b], Missing}
        /\ file' = file \/ file'.seen[a] \in {"expired", Missing}
        /\ o = "ok" => file'.seen[a] \in {"expired", Missing}
    BY <1>1, <1>2, StatusFacts, PersistWhole DEF WInv, TailClean
  <1>4. Overdue(a) /\ answered[a] \subseteq {"pending", "expired"}
    BY <1>2 DEF WInv, SweepOpen
  <1>5. \A b \in Approvals :
          \/ answered'[b] = answered[b]
          \/ b \in swept \cup {a} /\ o = "ok" /\ answered'[b] = answered[b] \cup {"expired"}
    BY <1>1 DEF SweepOne
  <1>6. \/ o = "ok" /\ sweep' = sweep \ {a} /\ swept' \subseteq swept \cup {a}
           /\ (sweep' = {} => swept' = {})
           /\ (sweep' # {} => answered' = answered)
        \/ sweep' = {} /\ swept' = {} /\ answered' = answered
    BY DEF SweepOne
  <1>7. TailClean'
    BY <1>3 DEF TailClean
  <1>8. ExpiredOverdue'
    <2> SUFFICES ASSUME NEW b \in issued, file'.seen[b] = "expired" PROVE Overdue(b)
      BY <1>2 DEF ExpiredOverdue, Overdue
    <2>1. CASE b # a
      BY <1>1, <1>3, <2>1 DEF WInv, ExpiredOverdue, Missing
    <2> QED
      BY <1>4, <2>1
  <1>9. SweepOpen'
    <2>1. ASSUME NEW b \in sweep'
          PROVE  Overdue(b) /\ file'.seen[b] \in {"pending", "expired", Missing}
      <3>1. b \in sweep /\ b # a /\ b \in Approvals
        BY <1>1, <1>6, <2>1
      <3> QED
        BY <1>3, <3>1 DEF WInv, SweepOpen
    <2>2. ASSUME NEW b \in swept' PROVE file'.seen[b] \in {"expired", Missing}
      <3>1. b \in swept \cup {a} /\ b \in Approvals /\ o = "ok"
        BY <1>1, <1>6, <2>2
      <3> QED
        BY <1>3, <3>1 DEF WInv, SweepOpen
    <2>3. ASSUME NEW b \in sweep' \cup swept'
          PROVE  answered'[b] \subseteq {"pending", "expired"}
      <3>1. b \in sweep \cup swept /\ answered' = answered
        BY <1>2, <1>6, <2>3
      <3> QED
        BY <3>1 DEF WInv, SweepOpen
    <2>4. \A b : Overdue(b)' <=> Overdue(b)
      BY <1>2 DEF Overdue
    <2> QED
      BY <2>1, <2>2, <2>3, <2>4 DEF SweepOpen
  <1>10. UnissuedUnanswered' /\ SweptOnlySweeping'
    BY <1>1, <1>2, <1>5, <1>6 DEF WInv, UnissuedUnanswered, SweptOnlySweeping
  <1>11. AnswersKept'
    <2> SUFFICES ASSUME NEW b \in Approvals, NEW t \in answered'[b] \ {"pending"}
                 PROVE  file'.seen[b] \in {t, Missing}
      BY DEF AnswersKept
    <2>1. CASE answered'[b] = answered[b] /\ b # a
      BY <1>3, <2>1 DEF WInv, AnswersKept
    <2>2. CASE answered'[b] = answered[b] /\ b = a
      BY <1>3, <1>4, <2>2 DEF WInv, AnswersKept
    <2>3. CASE b \in swept \cup {a} /\ o = "ok" /\ answered'[b] = answered[b] \cup {"expired"}
      <3>1. answered[b] \subseteq {"pending", "expired"}
        BY <1>4, <2>3 DEF WInv, SweepOpen
      <3>2. file'.seen[b] \in {"expired", Missing}
        BY <1>3, <2>3 DEF WInv, SweepOpen
      <3> QED
        BY <2>3, <3>1, <3>2
    <2> QED
      BY <1>5, <2>1, <2>2, <2>3
  <1>12. DecisionsAreFinal'
    <2> SUFFICES ASSUME NEW b \in Approvals, NEW t \in answered'[b] \ {"pending"},
                        NEW u \in answered'[b] \ {"pending"}
                 PROVE  t = u
      BY DEF DecisionsAreFinal
    <2>1. CASE answered'[b] = answered[b]
      BY <2>1 DEF WInv, DecisionsAreFinal
    <2>2. CASE b \in swept \cup {a} /\ answered'[b] = answered[b] \cup {"expired"}
      BY <1>4, <2>2 DEF WInv, SweepOpen
    <2> QED
      BY <1>5, <2>1, <2>2
  <1> QED
    BY <1>7, <1>8, <1>9, <1>10, <1>11, <1>12 DEF WInv

LEMMA CreateWInv ==
    ASSUME Disk \subseteq WholeWrites, IInv, WInv,
           NEW a \in Approvals, NEW o \in Disk, NEW ttl \in Ttls, Create(a, ttl, o)
    PROVE  WInv'
  <1>1. /\ file \in Files /\ issued \subseteq Approvals /\ a \notin issued
        /\ answered \in [Approvals -> SUBSET Statuses]
        /\ expires \in [Approvals -> Int] /\ now \in Int
    BY DEF IInv, TypeOK, Create
  <1>2. /\ sweep = {} /\ swept = {} /\ sweep' = {} /\ swept' = {}
        /\ issued' = issued \cup {a}
        /\ \A b \in issued : expires'[b] = expires[b]
        /\ now' = now + 1
    BY <1>1 DEF Create, Idle, WInv, SweptOnlySweeping
  <1>3. file.seen[a] = Missing /\ answered[a] = {}
    BY <1>1 DEF IInv, UnissuedMissing, WInv, UnissuedUnanswered
  <1>4. file' = Persist(file, a, "pending", created', o)
    BY DEF Create
  <1>5. /\ file'.tail = "clean" /\ file'.seen = file'.lines
        /\ \A b \in Approvals \ {a} : file'.seen[b] \in {file.seen[b], Missing}
        /\ file' = file \/ file'.seen[a] \in {"pending", Missing}
    BY <1>1, <1>4, StatusFacts, PersistWhole DEF WInv, TailClean
  <1>6. /\ \A b \in Approvals \ {a} : answered'[b] = answered[b]
        /\ answered'[a] \subseteq {"pending"}
    BY <1>1, <1>3 DEF Create, Answer
  <1>7. TailClean' /\ SweepOpen' /\ SweptOnlySweeping'
    BY <1>2, <1>5 DEF TailClean, SweepOpen, SweptOnlySweeping
  <1>8. ExpiredOverdue'
    <2> SUFFICES ASSUME NEW b \in issued', file'.seen[b] = "expired" PROVE Overdue(b)'
      BY DEF ExpiredOverdue
    <2>1. b # a
      BY <1>3, <1>5, StatusFacts
    <2>2. b \in issued /\ Overdue(b)
      BY <1>1, <1>2, <1>5, <2>1, StatusFacts DEF WInv, ExpiredOverdue
    <2> QED
      BY <1>1, <1>2, <2>2 DEF Overdue
  <1>9. UnissuedUnanswered'
    BY <1>2, <1>6 DEF WInv, UnissuedUnanswered
  <1>10. AnswersKept' /\ DecisionsAreFinal'
    BY <1>5, <1>6 DEF WInv, AnswersKept, DecisionsAreFinal
  <1> QED
    BY <1>7, <1>8, <1>9, <1>10 DEF WInv

LEMMA NextWInv == Disk \subseteq WholeWrites /\ IInv /\ WInv /\ [Next]_vars => WInv'
  <1> SUFFICES ASSUME Disk \subseteq WholeWrites, IInv, WInv, [Next]_vars PROVE WInv'
    OBVIOUS
  <1>t. /\ issued \subseteq Approvals /\ expires \in [Approvals -> Int] /\ now \in Int
        /\ sweep \subseteq issued /\ swept \subseteq issued
        /\ \A a \in Approvals : file.seen[a] # Missing => a \in issued
    BY DEF IInv, TypeOK, UnissuedMissing
  <1>1. CASE Tick
    <2>1. \A a \in issued : Overdue(a) => Overdue(a)'
      BY <1>1, <1>t DEF Tick, Overdue
    <2>2. sweep' = {} /\ swept' = {} /\ UNCHANGED <<file, issued, answered>>
      BY <1>1 DEF Tick, Idle, WInv, SweptOnlySweeping
    <2> QED
      BY <2>1, <2>2 DEF WInv, TailClean, ExpiredOverdue, SweepOpen, UnissuedUnanswered,
                        SweptOnlySweeping, AnswersKept, DecisionsAreFinal
  <1>2. CASE SweepBegin
    <2>1. /\ \A a \in sweep' : /\ Overdue(a) /\ a \in Approvals
                               /\ file.seen[a] = "pending"
          /\ swept' = {} /\ UNCHANGED <<now, file, issued, expires, answered>>
      BY <1>2 DEF SweepBegin
    <2>2. \A a \in sweep' : answered[a] \subseteq {"pending", "expired"}
      BY <2>1, StatusFacts DEF WInv, AnswersKept
    <2>3. SweepOpen' /\ SweptOnlySweeping'
      BY <2>1, <2>2 DEF SweepOpen, SweptOnlySweeping, Overdue
    <2> QED
      BY <2>1, <2>3 DEF WInv, TailClean, ExpiredOverdue, UnissuedUnanswered, Overdue,
                        AnswersKept, DecisionsAreFinal
  <1>3. CASE Crash
    BY <1>3 DEF Crash, WInv, TailClean, ExpiredOverdue, SweepOpen, UnissuedUnanswered, Overdue,
                SweptOnlySweeping, AnswersKept, DecisionsAreFinal
  <1>4. ASSUME NEW a \in Approvals, NEW o \in Disk, NEW ttl \in Ttls, Create(a, ttl, o)
        PROVE  WInv'
    BY <1>4, CreateWInv
  <1>5. ASSUME NEW a \in Approvals, NEW o \in Disk,
               Resolve(a, o) \/ DecideExpired(a, o)
        PROVE  WInv'
    <2>1. /\ Idle /\ Writes(a, "expired", o)
          /\ UNCHANGED <<now, issued, created, expires, sweep, swept>>
          /\ file.seen[a] = "expired" \/ (file.seen[a] = "pending" /\ Overdue(a))
      BY <1>5 DEF Resolve, DecideExpired
    <2>2. a \in issued /\ Overdue(a)
      BY <1>t, <2>1, StatusFacts DEF WInv, ExpiredOverdue
    <2>3. answered[a] \subseteq {"pending", "expired"}
      BY <2>1, StatusFacts DEF WInv, AnswersKept
    <2> QED
      BY <2>1, <2>2, <2>3, StatusFacts, WritesWInv
  <1>6. ASSUME NEW a \in Approvals, NEW o \in Disk, NEW d \in Decisions, Decide(a, d, o)
        PROVE  WInv'
    <2>1. /\ Idle /\ Writes(a, d, o) /\ file.seen[a] = "pending"
          /\ UNCHANGED <<now, issued, created, expires, sweep, swept>>
      BY <1>6 DEF Decide
    <2>2. a \in issued /\ d \in Statuses /\ d # "expired"
      BY <1>t, <2>1, StatusFacts DEF Decisions
    <2>3. answered[a] \subseteq {"pending", d}
      BY <2>1, StatusFacts DEF WInv, AnswersKept
    <2> QED
      BY <2>1, <2>2, <2>3, WritesWInv
  <1>7. ASSUME NEW a \in Approvals, NEW o \in Disk, SweepOne(a, o) PROVE WInv'
    BY <1>7, SweepOneWInv
  <1>8. CASE UNCHANGED vars
    BY <1>8 DEF vars, WInv, TailClean, ExpiredOverdue, SweepOpen, UnissuedUnanswered, Overdue,
                SweptOnlySweeping, AnswersKept, DecisionsAreFinal
  <1> QED
    BY <1>1, <1>2, <1>3, <1>4, <1>5, <1>6, <1>7, <1>8 DEF Next

LEMMA InductiveWhole == ASSUME Disk \subseteq WholeWrites PROVE Spec => []WInv
  <1>1. WInv /\ (IInv /\ [Next]_vars) => WInv'
    BY NextWInv
  <1> QED
    BY <1>1, InitWInv, Inductive, PTL DEF Spec

\* No approval is answered with two different final statuses.
THEOREM Final == ASSUME Disk \subseteq WholeWrites PROVE Spec => []DecisionsAreFinal
  <1>1. WInv => DecisionsAreFinal
    BY DEF WInv
  <1> QED
    BY <1>1, InductiveWhole, PTL

\* What was answered is what the file says, until retention drops the approval.
THEOREM Kept == ASSUME Disk \subseteq WholeWrites PROVE Spec => []AnswersKept
  <1>1. WInv => AnswersKept
    BY DEF WInv
  <1> QED
    BY <1>1, InductiveWhole, PTL

-----------------------------------------------------------------------------
(***************************************************************************)
(* The store implements ApprovalLifecycle on such a disk: every step moves *)
(* one approval as the life cycle allows and forgets others, or changes    *)
(* nothing that the life cycle sees.                                       *)
(***************************************************************************)
OverdueIds == {a \in issued : Overdue(a)}

\* The abstract step behind a write, from what the write does to the file.
LEMMA MovesOf ==
    ASSUME IInv, IInv', NEW a \in Approvals, NEW s \in {"pending", "approved", "rejected", "expired"},
           issued' = issued \cup {a},
           \A b \in Approvals \ {a} : file'.seen[b] \in {file.seen[b], Missing},
           file'.seen[a] \in {s, Missing}
    PROVE  Lifecycle!Moves(a, {s, "forgotten"})
  <1>1. /\ \A b \in Approvals : file.seen[b] \in Statuses \cup {Missing}
        /\ \A b \in Approvals : file'.seen[b] \in Statuses \cup {Missing}
        /\ \A b \in Approvals : file.seen[b] # Missing => b \in issued
    BY DEF IInv, TypeOK, Files, UnissuedMissing
  <1>2. LifeStatus' = [b \in Approvals |->
                         IF file'.seen[b] # Missing THEN file'.seen[b]
                         ELSE IF b \in issued' THEN "forgotten" ELSE "absent"]
    BY DEF LifeStatus
  <1>3. LifeStatus' \in [Approvals -> Lifecycle!LifeStatuses]
    BY <1>1, <1>2 DEF Lifecycle!LifeStatuses, Statuses
  <1>4. LifeStatus'[a] \in {s, "forgotten"}
    BY <1>2
  <1>5. ASSUME NEW b \in Approvals \ {a}
        PROVE  \/ LifeStatus'[b] = LifeStatus[b]
               \/ LifeStatus[b] # "absent" /\ LifeStatus'[b] = "forgotten"
    <2>1. CASE file'.seen[b] = file.seen[b]
      BY <1>2, <1>5, <2>1 DEF LifeStatus
    <2>2. CASE file'.seen[b] = Missing /\ file.seen[b] # Missing
      BY <1>1, <1>2, <1>5, <2>2 DEF LifeStatus, Statuses
    <2> QED
      BY <1>5, <2>1, <2>2
  <1> QED
    BY <1>3, <1>4, <1>5 DEF Lifecycle!Moves

LEMMA RefineInit == Init => Lifecycle!Init
  BY DEF Init, EmptyFile, LifeStatus, Lifecycle!Init, Missing

LEMMA RefineNext ==
    ASSUME Disk \subseteq WholeWrites, IInv, IInv', WInv, [Next]_vars
    PROVE  [Lifecycle!Next]_(Lifecycle!vars)
  <1>t. /\ file \in Files /\ issued \subseteq Approvals /\ sweep \subseteq issued
        /\ expires \in [Approvals -> Int] /\ now \in Int
        /\ \A a \in Approvals : file.seen[a] # Missing => a \in issued
    BY DEF IInv, TypeOK, UnissuedMissing
  <1>c. file.tail = "clean" /\ file.seen = file.lines
    BY DEF WInv, TailClean
  <1>1. CASE Tick
    <2>1. LifeStatus' = LifeStatus
      BY <1>1 DEF Tick, LifeStatus
    <2>2. OverdueIds \subseteq OverdueIds' /\ OverdueIds' \subseteq Approvals
      BY <1>1, <1>t DEF Tick, OverdueIds, Overdue
    <2> QED
      BY <2>1, <2>2 DEF Lifecycle!Next, Lifecycle!Lapse, Lifecycle!TimePasses, OverdueIds
  <1>2. CASE UNCHANGED <<now, file, issued, expires>>
    <2>1. LifeStatus' = LifeStatus /\ OverdueIds' = OverdueIds
      BY <1>2 DEF LifeStatus, OverdueIds, Overdue
    <2> QED
      BY <2>1 DEF Lifecycle!vars, OverdueIds
  <1>3. ASSUME NEW a \in Approvals, NEW o \in Disk, NEW ttl \in Ttls, Create(a, ttl, o)
        PROVE  Lifecycle!Next
    <2>1. /\ a \notin issued /\ issued' = issued \cup {a} /\ 0 < ttl /\ ttl \in Int
          /\ now' = now + 1 /\ expires' = [expires EXCEPT ![a] = now' + ttl]
          /\ file' = Persist(file, a, "pending", created', o)
      BY <1>3, TtlsInt DEF Create, ValidTtl
    <2>2. file.seen[a] = Missing
      BY <1>t, <2>1
    <2>3. Lifecycle!Moves(a, {"pending", "forgotten"})
      BY <1>t, <1>c, <2>1, <2>2, StatusFacts, PersistWhole, MovesOf
    <2>4. LifeStatus[a] = "absent"
      BY <2>1, <2>2 DEF LifeStatus
    <2>5. /\ OverdueIds \subseteq OverdueIds' /\ OverdueIds' \subseteq Approvals
          /\ a \notin OverdueIds'
      BY <1>t, <2>1 DEF OverdueIds, Overdue
    <2> QED
      BY <2>3, <2>4, <2>5 DEF Lifecycle!Next, Lifecycle!Create, Lifecycle!TimePasses, OverdueIds
  <1>4. ASSUME NEW a \in issued, Overdue(a), NEW o \in Disk, NEW c,
               file.seen[a] \in {"pending", "expired", Missing},
               file' = Persist(file, a, "expired", c, o),
               UNCHANGED <<now, issued, created, expires>>
        PROVE  [Lifecycle!Next]_(Lifecycle!vars)
    <2>1. CASE o = "none"
      BY <1>2, <1>4, <1>t, <2>1 DEF Persist
    <2>2. CASE o # "none"
      <3>1. Lifecycle!Moves(a, {"expired", "forgotten"})
        BY <1>4, <1>t, <1>c, <2>2, StatusFacts, PersistWhole, MovesOf
      <3>2. LifeStatus[a] \in {"pending", "expired", "forgotten"} /\ a \in OverdueIds
        BY <1>4, <1>t DEF LifeStatus, OverdueIds
      <3>3. OverdueIds' = OverdueIds
        BY <1>4 DEF OverdueIds, Overdue
      <3> QED
        BY <1>t, <3>1, <3>2, <3>3 DEF Lifecycle!Next, Lifecycle!Expire, OverdueIds
    <2> QED
      BY <2>1, <2>2
  <1>5. ASSUME NEW a \in Approvals, NEW o \in Disk, Resolve(a, o) \/ DecideExpired(a, o)
        PROVE  [Lifecycle!Next]_(Lifecycle!vars)
    <2>1. a \in issued /\ Overdue(a) /\ file.seen[a] \in {"pending", "expired", Missing}
      BY <1>5, <1>t, StatusFacts DEF Resolve, DecideExpired, WInv, ExpiredOverdue
    <2>2. /\ file' = Persist(file, a, "expired", created, o)
          /\ UNCHANGED <<now, issued, created, expires>>
      BY <1>5 DEF Resolve, DecideExpired, Writes
    <2> QED
      BY <1>4, <2>1, <2>2
  <1>6. ASSUME NEW a \in Approvals, NEW o \in Disk, SweepOne(a, o)
        PROVE  [Lifecycle!Next]_(Lifecycle!vars)
    <2>1. a \in issued /\ Overdue(a) /\ file.seen[a] \in {"pending", "expired", Missing}
      BY <1>6, <1>t DEF SweepOne, WInv, SweepOpen
    <2>2. /\ file' = Persist(file, a, "expired", created, o)
          /\ UNCHANGED <<now, issued, created, expires>>
      BY <1>6 DEF SweepOne
    <2> QED
      BY <1>4, <2>1, <2>2
  <1>7. ASSUME NEW a \in Approvals, NEW o \in Disk, NEW d \in Decisions, Decide(a, d, o)
        PROVE  [Lifecycle!Next]_(Lifecycle!vars)
    <2>1. /\ a \in issued /\ ~Overdue(a) /\ file.seen[a] = "pending"
          /\ file' = Persist(file, a, d, created, o)
          /\ UNCHANGED <<now, issued, created, expires>>
      BY <1>7, <1>t, StatusFacts DEF Decide, Writes
    <2>2. CASE o = "none"
      BY <1>2, <2>1, <2>2 DEF Persist
    <2>3. CASE o # "none"
      <3>1. Lifecycle!Moves(a, {d, "forgotten"})
        BY <1>t, <1>c, <2>1, <2>3, StatusFacts, PersistWhole, MovesOf DEF Decisions
      <3>2. Lifecycle!Moves(a, {"approved", "rejected", "forgotten"})
        BY <3>1 DEF Lifecycle!Moves, Decisions
      <3>3. LifeStatus[a] = "pending" /\ a \notin OverdueIds
        BY <1>t, <2>1, StatusFacts DEF LifeStatus, OverdueIds
      <3>4. OverdueIds' = OverdueIds
        BY <2>1 DEF OverdueIds, Overdue
      <3> QED
        BY <3>2, <3>3, <3>4 DEF Lifecycle!Next, Lifecycle!Decide, OverdueIds
    <2> QED
      BY <2>2, <2>3
  <1> QED
    BY <1>1, <1>2, <1>3, <1>5, <1>6, <1>7 DEF Next, SweepBegin, Crash, vars

\* The store implements the life cycle of an approval.
THEOREM Refinement == ASSUME Disk \subseteq WholeWrites PROVE Spec => FollowsLifecycle
  <1>1. IInv /\ IInv' /\ WInv /\ [Next]_vars => [Lifecycle!Next]_(Lifecycle!vars)
    BY RefineNext
  <1> QED
    BY <1>1, RefineInit, Inductive, InductiveWhole, PTL DEF Spec, FollowsLifecycle, Lifecycle!Spec

-----------------------------------------------------------------------------
(***************************************************************************)
(* What retention keeps, and how much: on such a disk, with the clock that *)
(* gives no two approvals the same creation time.                          *)
(***************************************************************************)
Above(S, c, a) == {b \in S : c[b] > c[a]}
Below(S, c, a) == {b \in S : c[b] < c[a]}

LEMMA SubsetsSmaller ==
    ASSUME NEW T \in SUBSET Approvals
    PROVE  /\ IsFiniteSet(T) /\ Cardinality(T) \in Nat
           /\ \A U \in SUBSET T : /\ IsFiniteSet(U) /\ Cardinality(U) \in Nat
                                  /\ Cardinality(U) <= Cardinality(T)
  BY ApprovalsFinite, FS_Subset, FS_CardinalityType

\* Of a set of approvals there is an oldest.
LEMMA OldestOf ==
    ASSUME NEW T \in SUBSET Approvals, T # {}, NEW c \in [Approvals -> Nat]
    PROVE  \E a \in T : \A b \in T : c[a] <= c[b]
  <1> DEFINE Belows == {Below(T, c, a) : a \in T}
             R == StrictSubsetOrdering(T)
  <1>1. IsFiniteSet(T)
    BY SubsetsSmaller
  <1>2. IsWellFoundedOn(R, SUBSET T)
    BY <1>1, FS_StrictSubsetOrderingWellFounded, FS_FiniteSubsetsOfFinite
  <1>3. Belows \subseteq SUBSET T /\ Belows # {}
    BY DEF Below
  <1> HIDE DEF Belows, R
  <1>4. PICK x \in Belows : \A y \in Belows : ~(<<y, x>> \in R)
    BY <1>2, <1>3, WFMin
  <1>5. PICK a \in T : x = Below(T, c, a)
    BY <1>4 DEF Belows
  <1>6. ASSUME NEW b \in T, c[b] < c[a] PROVE FALSE
    <2>1. Below(T, c, b) \subseteq Below(T, c, a)
      <3>1. \A d \in T : c[d] \in Nat /\ c[b] \in Nat /\ c[a] \in Nat
        OBVIOUS
      <3> QED
        BY <1>6, <3>1 DEF Below
    <2>2. b \in Below(T, c, a) /\ b \notin Below(T, c, b)
      BY <1>6 DEF Below
    <2>3. <<Below(T, c, b), Below(T, c, a)>> \in R
      <3>1. Below(T, c, b) \in SUBSET T /\ Below(T, c, a) \in SUBSET T
        BY DEF Below
      <3>2. Below(T, c, b) # Below(T, c, a)
        BY <2>2
      <3> QED
        BY <2>1, <3>1, <3>2 DEF R, StrictSubsetOrdering
    <2> QED
      BY <1>4, <1>5, <2>3 DEF Belows
  <1>7. \A b \in T : c[b] \in Nat /\ c[a] \in Nat
    OBVIOUS
  <1> QED
    BY <1>6, <1>7

\* compact_approval_store keeps as many as the limit says: all that it keeps but the
\* oldest of them are newer than that one.
LEMMA FewKept ==
    ASSUME NEW S \in SUBSET Approvals, NEW c \in [Approvals -> Nat], MaxRecords > 0,
           \A a, b \in S : a # b => c[a] # c[b]
    PROVE  Cardinality(Newest(S, c)) <= MaxRecords
  <1> DEFINE kept == Newest(S, c)
  <1>1. kept \in SUBSET Approvals /\ kept \subseteq S
    BY DEF Newest
  <1>2. CASE kept = {}
    BY <1>2, FS_EmptySet, MaxRecordsNat
  <1>3. CASE kept # {}
    <2> HIDE DEF kept
    <2>1. PICK a \in kept : \A b \in kept : c[a] <= c[b]
      BY <1>1, <1>3, OldestOf
    <2>2. kept \ {a} \subseteq Above(S, c, a)
      <3>1. \A b \in kept \ {a} : c[b] # c[a] /\ c[a] <= c[b] /\ c[a] \in Nat /\ c[b] \in Nat
        BY <1>1, <2>1
      <3> QED
        BY <1>1, <3>1 DEF Above
    <2>3. Cardinality(Above(S, c, a)) < MaxRecords
      BY DEF kept, Newest, Above
    <2>4. Above(S, c, a) \in SUBSET Approvals
      BY DEF Above
    <2>5. Cardinality(kept \ {a}) <= Cardinality(Above(S, c, a))
      BY <2>2, <2>4, SubsetsSmaller
    <2>6. Cardinality(kept \ {a}) = Cardinality(kept) - 1
      BY <1>1, SubsetsSmaller, FS_RemoveElement
    <2>7. /\ Cardinality(kept) \in Nat /\ Cardinality(kept \ {a}) \in Nat
          /\ Cardinality(Above(S, c, a)) \in Nat
      BY <1>1, <2>4, SubsetsSmaller
    <2> QED
      BY <2>3, <2>5, <2>6, <2>7, MaxRecordsNat DEF kept
  <1> QED
    BY <1>2, <1>3

\* A compaction keeps an approval that few known ones are newer than.
LEMMA CompactedKeeps ==
    ASSUME NEW f \in Files, NEW c, NEW a \in Approvals, f.seen[a] # Missing,
           Cardinality(Above(Known(f), c, a)) < MaxRecords
    PROVE  Compacted(f, c).seen[a] = f.seen[a]
  BY DEF Compacted, Newest, Known, Above

\* A file has a line for each approval it knows, unless it is over the limit.
Counted(f) == f.count > MaxRecords \/ Cardinality(Known(f)) <= f.count

\* A whole append to a clean file.
LEMMA WholeCounted ==
    ASSUME NEW f \in Files, f.tail = "clean", f.seen = f.lines, Counted(f),
           NEW a \in Approvals, NEW s \in Statuses
    PROVE  LET w == Whole(f, a, s)
           IN  /\ w \in Files /\ w.tail = "clean" /\ w.seen = w.lines /\ Counted(w)
               /\ w.seen[a] = s /\ \A b \in Approvals \ {a} : w.seen[b] = f.seen[b]
               /\ Known(w) = Known(f) \cup {a}
  <1> DEFINE w == Whole(f, a, s)
  <1>1. /\ w \in Files /\ w.tail = "clean" /\ w.seen = w.lines /\ w.seen[a] = s
        /\ \A b \in Approvals \ {a} : w.seen[b] = f.seen[b]
    BY WholeFile
  <1>2. w.count = OneMore(f.count) /\ f.count \in Nat
    BY DEF Whole, Files
  <1> HIDE DEF w
  <1>3. Known(w) = Known(f) \cup {a}
    BY <1>1, StatusFacts DEF Known, Missing, Statuses
  <1>4. /\ Known(f) \in SUBSET Approvals /\ IsFiniteSet(Known(f))
        /\ Cardinality(Known(f)) \in Nat /\ Cardinality(Known(w)) <= Cardinality(Known(f)) + 1
        /\ Cardinality(Known(w)) \in Nat
    <2>1. Known(f) \in SUBSET Approvals /\ Known(w) \in SUBSET Approvals
      BY DEF Known
    <2>2. IsFiniteSet(Known(f)) /\ Cardinality(Known(f)) \in Nat /\ Cardinality(Known(w)) \in Nat
      BY <2>1, SubsetsSmaller
    <2>3. Cardinality(Known(w)) \in {Cardinality(Known(f)), Cardinality(Known(f)) + 1}
      BY <1>3, <2>2, FS_AddElement
    <2> QED
      BY <2>1, <2>2, <2>3
  <1>5. Counted(w)
    BY <1>2, <1>4, MaxRecordsNat DEF Counted, OneMore
  <1> QED
    BY <1>1, <1>3, <1>5 DEF w

\* A write of s for a that makes g of f spares the approvals few known ones are newer than.
Spares(f, g, a, s, c, o) ==
    \A b \in Approvals :
        /\ f.seen[b] # Missing \/ (b = a /\ o = "ok")
        /\ MaxRecords > 0 => Cardinality(Above(Known(f) \cup {a}, c, b)) < MaxRecords
        => /\ g.seen[b] # Missing
           /\ b = a /\ o = "ok" => g.seen[b] = s

\* What a write leaves: a file that is counted, within the limit if it was compacted
\* or not found to be over it, with what few known approvals are newer than.
LEMMA PersistCounted ==
    ASSUME NEW f \in Files, f.tail = "clean", f.seen = f.lines, Counted(f),
           NEW a \in Approvals, NEW s \in Statuses, NEW o \in WholeWrites,
           NEW c \in [Approvals -> Nat],
           \A b, d \in Known(f) \cup {a} : b # d => c[b] # c[d]
    PROVE  LET g == Persist(f, a, s, c, o)
           IN  /\ Counted(g)
               /\ o = "ok" /\ MaxRecords > 0 => Records(g) <= MaxRecords
               /\ Spares(f, g, a, s, c, o)
  <1> DEFINE w == Whole(f, a, s)
             k == Compacted(w, c)
  <1>1. /\ w \in Files /\ w.tail = "clean" /\ w.seen = w.lines /\ Counted(w)
        /\ w.seen[a] = s /\ \A b \in Approvals \ {a} : w.seen[b] = f.seen[b]
        /\ Known(w) = Known(f) \cup {a}
    BY WholeCounted
  <1>0. s # Missing
    BY DEF Statuses, Missing
  <1> HIDE DEF w
  <1>2. /\ k \in Files /\ k.tail = "clean" /\ k.count = Cardinality(Newest(Known(w), c))
        /\ Known(k) \subseteq Newest(Known(w), c)
    <2>1. k \in Files /\ k.tail = "clean"
      BY <1>1, CompactedFile
    <2>2. k.count = Cardinality(Newest(Known(w), c))
      BY DEF Compacted
    <2>3. Known(k) \subseteq Newest(Known(w), c)
      BY DEF Compacted, Known
    <2> QED
      BY <2>1, <2>2, <2>3
  <1>3. Counted(k)
    <2>1. Newest(Known(w), c) \in SUBSET Approvals
      BY DEF Newest, Known
    <2> HIDE DEF k
    <2> QED
      BY <1>2, <2>1, SubsetsSmaller DEF Counted
  <1>4. MaxRecords > 0 => k.count <= MaxRecords
    <2>1. Known(w) \in SUBSET Approvals
      BY DEF Known
    <2>2. \A b, d \in Known(w) : b # d => c[b] # c[d]
      BY <1>1
    <2> HIDE DEF k
    <2> QED
      BY <1>2, <2>1, <2>2, FewKept
  <1>5. ASSUME NEW b \in Approvals, w.seen[b] # Missing,
               Cardinality(Above(Known(f) \cup {a}, c, b)) < MaxRecords
        PROVE  k.seen[b] = w.seen[b]
    BY <1>1, <1>5, CompactedKeeps
  <1> HIDE DEF k
  <1>6. CASE o = "ok"
    <2>1. Persist(f, a, s, c, o) = CompactIfNeeded(w, c)
      BY <1>6 DEF Persist, w
    <2>2. CASE MaxRecords > 0 /\ Records(w) > MaxRecords
      <3>1. Persist(f, a, s, c, o) = k
        BY <2>1, <2>2 DEF CompactIfNeeded, k
      <3>2. Records(k) <= MaxRecords
        BY <1>2, <1>4, <2>2 DEF Records
      <3> QED
        BY <1>0, <1>1, <1>3, <1>5, <1>6, <2>2, <3>1, <3>2 DEF Spares
    <2>3. CASE ~(MaxRecords > 0 /\ Records(w) > MaxRecords)
      <3>1. Persist(f, a, s, c, o) = w
        BY <2>1, <2>3 DEF CompactIfNeeded
      <3>2. MaxRecords > 0 => Records(w) <= MaxRecords
        BY <1>1, <2>3, MaxRecordsNat DEF Records, Files
      <3> QED
        BY <1>0, <1>1, <1>6, <3>1, <3>2 DEF Spares
    <2> QED
      BY <2>2, <2>3
  <1>7. CASE o = "none"
    BY <1>7 DEF Persist, Spares
  <1>8. CASE o = "unread"
    BY <1>0, <1>1, <1>8 DEF Persist, Spares, w
  <1> QED
    BY <1>6, <1>7, <1>8 DEF WholeWrites

\* The clock of the creations, and the count of the file.
Stamped ==
    /\ \A a \in issued : created[a] <= now
    /\ \A a, b \in issued : a # b => created[a] # created[b]
RetentionInv == Stamped /\ Counted(file) /\ NewestRetained

\* A write for an issued approval, whatever it answers but a creation.
LEMMA WriteRetains ==
    ASSUME IInv, WInv, RetentionInv, NEW a \in issued, NEW s \in Statuses, NEW o \in WholeWrites,
           file' = Persist(file, a, s, created, o), UNCHANGED <<now, issued, created>>,
           \A b \in Approvals : "pending" \in answered'[b] => "pending" \in answered[b]
    PROVE  RetentionInv'
  <1>1. /\ file \in Files /\ file.tail = "clean" /\ file.seen = file.lines /\ Counted(file)
        /\ issued \in SUBSET Approvals /\ a \in Approvals
        /\ created \in [Approvals -> Nat] /\ Known(file) \cup {a} \subseteq issued
    BY DEF IInv, TypeOK, WInv, TailClean, RetentionInv, UnissuedMissing, Known
  <1>2. \A b, d \in Known(file) \cup {a} : b # d => created[b] # created[d]
    BY <1>1 DEF RetentionInv, Stamped
  <1>3. /\ Counted(file')
        /\ \A b \in Approvals :
              /\ file.seen[b] # Missing
              /\ MaxRecords > 0 => Cardinality(Above(Known(file) \cup {a}, created, b)) < MaxRecords
              => file'.seen[b] # Missing
    <2>1. Counted(file') /\ Spares(file, file', a, s, created, o)
      BY <1>1, <1>2, PersistCounted
    <2> QED
      BY <2>1 DEF Spares
  <1>4. NewestRetained'
    <2> SUFFICES ASSUME NEW b \in issued, "pending" \in answered'[b], MaxRecords > 0,
                        Cardinality(Above(issued, created, b)) < MaxRecords
                 PROVE  file'.seen[b] # Missing
      BY DEF NewestRetained, Above
    <2>1. file.seen[b] # Missing
      BY <1>1 DEF RetentionInv, NewestRetained, Above
    <2>2. Cardinality(Above(Known(file) \cup {a}, created, b)) < MaxRecords
      <3>1. /\ Above(issued, created, b) \in SUBSET Approvals
            /\ Above(Known(file) \cup {a}, created, b) \in SUBSET Above(issued, created, b)
        BY <1>1 DEF Above
      <3>2. /\ Cardinality(Above(issued, created, b)) \in Nat
            /\ Cardinality(Above(Known(file) \cup {a}, created, b)) \in Nat
            /\ Cardinality(Above(Known(file) \cup {a}, created, b))
                 <= Cardinality(Above(issued, created, b))
        BY <3>1, SubsetsSmaller
      <3> QED
        BY <3>2, MaxRecordsNat
    <2> QED
      BY <1>1, <1>3, <2>1, <2>2
  <1> QED
    BY <1>3, <1>4 DEF RetentionInv, Stamped, Counted

LEMMA CreateRetains ==
    ASSUME Disk \subseteq WholeWrites, IInv, WInv, RetentionInv,
           NEW a \in Approvals, NEW o \in Disk, NEW ttl \in Ttls, Create(a, ttl, o)
    PROVE  RetentionInv'
  <1>1. /\ file \in Files /\ file.tail = "clean" /\ file.seen = file.lines /\ Counted(file)
        /\ issued \in SUBSET Approvals /\ a \notin issued /\ now \in Nat
        /\ created \in [Approvals -> Nat] /\ Known(file) \subseteq issued
        /\ answered \in [Approvals -> SUBSET Statuses]
    BY DEF IInv, TypeOK, WInv, TailClean, RetentionInv, UnissuedMissing, Known, Create
  <1>2. /\ now' = now + 1 /\ issued' = issued \cup {a}
        /\ created' = [created EXCEPT ![a] = now + 1]
        /\ file' = Persist(file, a, "pending", created', o)
        /\ answered' = Answer(a, "pending", o)
    BY DEF Create
  <1>3. /\ created' \in [Approvals -> Nat] /\ created'[a] = now + 1
        /\ \A b \in issued : created'[b] = created[b] /\ created[b] <= now /\ created[b] \in Nat
    BY <1>1, <1>2 DEF RetentionInv, Stamped
  <1>4. Stamped'
    BY <1>1, <1>2, <1>3 DEF RetentionInv, Stamped
  <1>5. \A b, d \in Known(file) \cup {a} : b # d => created'[b] # created'[d]
    BY <1>1, <1>2, <1>4 DEF Stamped
  <1>6. /\ Counted(file')
        /\ \A b \in Approvals :
              /\ file.seen[b] # Missing \/ (b = a /\ o = "ok")
              /\ MaxRecords > 0 => Cardinality(Above(Known(file) \cup {a}, created', b)) < MaxRecords
              => file'.seen[b] # Missing
    <2>1. o \in WholeWrites
      OBVIOUS
    <2>2. Counted(file') /\ Spares(file, file', a, "pending", created', o)
      BY <1>1, <1>2, <1>3, <1>5, <2>1, StatusFacts, PersistCounted
    <2> QED
      BY <2>2 DEF Spares
  <1>7. NewestRetained'
    <2> SUFFICES ASSUME NEW b \in issued', "pending" \in answered'[b], MaxRecords > 0,
                        Cardinality(Above(issued', created', b)) < MaxRecords
                 PROVE  file'.seen[b] # Missing
      BY DEF NewestRetained, Above
    <2>s. ASSUME NEW U, U \subseteq Above(issued', created', b)
          PROVE  Cardinality(U) < MaxRecords
      <3>1. Above(issued', created', b) \in SUBSET Approvals
        BY <1>1, <1>2 DEF Above
      <3>2. /\ Cardinality(Above(issued', created', b)) \in Nat /\ Cardinality(U) \in Nat
            /\ Cardinality(U) <= Cardinality(Above(issued', created', b))
        BY <2>s, <3>1, SubsetsSmaller
      <3> QED
        BY <3>2, MaxRecordsNat
    <2>1. Cardinality(Above(Known(file) \cup {a}, created', b)) < MaxRecords
      BY <1>1, <1>2, <2>s DEF Above
    <2>2. file.seen[b] # Missing \/ (b = a /\ o = "ok")
      <3>1. CASE b = a
        <4>1. answered[a] = {}
          BY <1>1 DEF WInv, UnissuedUnanswered
        <4> QED
          BY <1>2, <3>1, <4>1 DEF Answer
      <3>2. CASE b # a
        <4>1. b \in issued /\ "pending" \in answered[b]
          BY <1>1, <1>2, <3>2 DEF Answer
        <4>2. Above(issued, created, b) \subseteq Above(issued', created', b)
          BY <1>1, <1>2, <1>3, <4>1 DEF Above
        <4>3. Cardinality(Above(issued, created, b)) < MaxRecords
          BY <2>s, <4>2
        <4> QED
          BY <4>1, <4>3 DEF RetentionInv, NewestRetained, Above
      <3> QED
        BY <3>1, <3>2
    <2> QED
      BY <1>1, <1>2, <1>6, <2>1, <2>2
  <1> QED
    BY <1>4, <1>6, <1>7 DEF RetentionInv, Counted

LEMMA InitRetains == Init => RetentionInv
  <1> SUFFICES ASSUME Init PROVE RetentionInv
    OBVIOUS
  <1>1. Known(file) = {} /\ issued = {} /\ file.count = 0
    BY DEF Init, EmptyFile, Known
  <1> QED
    BY <1>1, FS_EmptySet DEF RetentionInv, Stamped, Counted, NewestRetained

LEMMA NextRetains ==
    ASSUME Disk \subseteq WholeWrites, IInv, WInv, RetentionInv, [Next]_vars
    PROVE  RetentionInv'
  <1> USE StatusFacts
  <1>t. /\ answered \in [Approvals -> SUBSET Statuses] /\ sweep \subseteq issued
        /\ \A a \in Approvals : file.seen[a] # Missing => a \in issued
    BY DEF IInv, TypeOK, UnissuedMissing
  <1>1. CASE \/ Tick \/ SweepBegin \/ Crash \/ UNCHANGED vars
    <2>1. UNCHANGED <<file, issued, created, answered>> /\ now' \in {now, now + 1}
      BY <1>1 DEF Tick, SweepBegin, Crash, vars
    <2>2. Stamped'
      <3>1. now \in Nat /\ created \in [Approvals -> Nat] /\ issued \subseteq Approvals
        BY DEF IInv, TypeOK
      <3>2. \A a \in issued : created[a] \in Nat /\ created[a] <= now
        BY <3>1 DEF RetentionInv, Stamped
      <3>3. \A a \in issued : created[a] <= now'
        BY <2>1, <3>1, <3>2
      <3> QED
        BY <2>1, <3>3 DEF RetentionInv, Stamped
    <2> QED
      BY <2>1, <2>2 DEF RetentionInv, Counted, NewestRetained
  <1>2. ASSUME NEW a \in Approvals, NEW o \in Disk, NEW ttl \in Ttls, Create(a, ttl, o)
        PROVE  RetentionInv'
    BY <1>2, CreateRetains
  <1>3. ASSUME NEW a \in Approvals, NEW o \in Disk, NEW s \in Statuses \ {"pending"},
               file.seen[a] # Missing, Writes(a, s, o), UNCHANGED <<now, issued, created>>
        PROVE  RetentionInv'
    <2>1. \A b \in Approvals : "pending" \in answered'[b] => "pending" \in answered[b]
      BY <1>3, <1>t DEF Writes, Answer
    <2>2. a \in issued /\ o \in WholeWrites /\ file' = Persist(file, a, s, created, o)
      BY <1>3, <1>t DEF Writes
    <2> QED
      BY <1>3, <2>1, <2>2, WriteRetains
  <1>4. ASSUME NEW a \in Approvals, NEW o \in Disk, Resolve(a, o) \/ DecideExpired(a, o)
        PROVE  RetentionInv'
    BY <1>3, <1>4 DEF Resolve, DecideExpired
  <1>5. ASSUME NEW a \in Approvals, NEW o \in Disk, NEW d \in Decisions, Decide(a, d, o)
        PROVE  RetentionInv'
    BY <1>3, <1>5 DEF Decide, Decisions
  <1>6. ASSUME NEW a \in Approvals, NEW o \in Disk, SweepOne(a, o) PROVE RetentionInv'
    <2>1. \A b \in Approvals : "pending" \in answered'[b] => "pending" \in answered[b]
      BY <1>6, <1>t DEF SweepOne
    <2>2. a \in issued /\ o \in WholeWrites /\ file' = Persist(file, a, "expired", created, o)
          /\ UNCHANGED <<now, issued, created>>
      BY <1>6, <1>t DEF SweepOne
    <2> QED
      BY <2>1, <2>2, WriteRetains
  <1> QED
    BY <1>1, <1>2, <1>4, <1>5, <1>6 DEF Next

LEMMA InductiveRetention == ASSUME Disk \subseteq WholeWrites PROVE Spec => []RetentionInv
  <1>1. RetentionInv /\ (IInv /\ WInv /\ [Next]_vars) => RetentionInv'
    BY NextRetains
  <1> QED
    BY <1>1, InitRetains, Inductive, InductiveWhole, PTL DEF Spec

\* On such a disk an approval whose creation was answered stays readable as long as
\* fewer than the limit are newer.
THEOREM Retained == ASSUME Disk \subseteq WholeWrites PROVE Spec => []NewestRetained
  <1>1. RetentionInv => NewestRetained
    BY DEF RetentionInv
  <1> QED
    BY <1>1, InductiveRetention, PTL

\* A decision finds its approval among those that a file within its limit knows.
LEMMA DecisionStays ==
    ASSUME Disk \subseteq WholeWrites, IInv, WInv, RetentionInv,
           NEW a \in Approvals, NEW d \in Decisions, Decide(a, d, "ok"), WithinLimit
    PROVE  file'.seen[a] = d
  <1>1. /\ file \in Files /\ file.tail = "clean" /\ file.seen = file.lines /\ Counted(file)
        /\ created \in [Approvals -> Nat] /\ Known(file) \subseteq issued /\ a \in Known(file)
        /\ issued \subseteq Approvals /\ d \in Statuses
    BY StatusFacts
    DEF IInv, TypeOK, WInv, TailClean, RetentionInv, UnissuedMissing, Known, Decide
  <1>2. \A b, e \in Known(file) \cup {a} : b # e => created[b] # created[e]
    BY <1>1 DEF RetentionInv, Stamped
  <1>3. file' = Persist(file, a, d, created, "ok") /\ file.seen[a] # Missing
    BY StatusFacts DEF Decide, Writes
  <1>4. ASSUME MaxRecords > 0
        PROVE  Cardinality(Above(Known(file) \cup {a}, created, a)) < MaxRecords
    <2> DEFINE K == Known(file)
               U == Above(K, created, a)
    <2>1. K \in SUBSET Approvals /\ K \cup {a} = K /\ U \subseteq K \ {a}
      <3>1. created[a] \in Nat
        BY <1>1
      <3> QED
        BY <1>1, <3>1 DEF Above
    <2>2. Cardinality(K) <= MaxRecords
      <3>1. Cardinality(K) \in Nat /\ file.count \in Nat
        BY <1>1, <2>1, SubsetsSmaller DEF Files
      <3>2. file.count <= MaxRecords
        BY <1>1, <1>4 DEF WithinLimit, Records
      <3>3. file.count > MaxRecords \/ Cardinality(K) <= file.count
        BY <1>1 DEF Counted
      <3> HIDE DEF K
      <3> QED
        BY <3>1, <3>2, <3>3, MaxRecordsNat
    <2> HIDE DEF K, U
    <2>3. /\ IsFiniteSet(K) /\ Cardinality(K) \in Nat
          /\ Cardinality(K \ {a}) = Cardinality(K) - 1
      BY <1>1, <2>1, SubsetsSmaller, FS_RemoveElement DEF K
    <2>4. Cardinality(U) \in Nat /\ Cardinality(U) <= Cardinality(K \ {a})
      BY <2>1, SubsetsSmaller
    <2>5. Cardinality(U) < MaxRecords
      BY <2>2, <2>3, <2>4, MaxRecordsNat
    <2> QED
      BY <2>1, <2>5 DEF K, U
  <1> QED
    <2>1. Spares(file, file', a, d, created, "ok")
      BY <1>1, <1>2, <1>3, PersistCounted DEF WholeWrites
    <2> QED
      BY <1>3, <1>4, <2>1 DEF Spares

LEMMA AnsweringWrite ==
    ASSUME IInv, WInv, RetentionInv', RetentionInv, NEW a \in Approvals, NEW s \in Statuses,
           a \in issued', Known(file) \subseteq issued', created' \in [Approvals -> Nat],
           file' = Persist(file, a, s, created', "ok")
    PROVE  WithinLimit'
  <1>1. /\ file \in Files /\ file.tail = "clean" /\ file.seen = file.lines /\ Counted(file)
    BY DEF IInv, TypeOK, WInv, TailClean, RetentionInv
  <1>2. \A b, d \in Known(file) \cup {a} : b # d => created'[b] # created'[d]
    BY DEF RetentionInv, Stamped
  <1>3. MaxRecords > 0 => Records(file') <= MaxRecords
    BY <1>1, <1>2, PersistCounted DEF WholeWrites
  <1> QED
    BY <1>3 DEF WithinLimit, Records

\* On such a disk a call that answers leaves the file within its limit, and the
\* decision it answers is there unless an earlier failure left the file too long.
THEOREM Limited == ASSUME Disk \subseteq WholeWrites PROVE Spec => RetentionHolds
  <1> DEFINE Holds == /\ answered' # answered => WithinLimit'
                      /\ \A a \in Approvals, s \in Decisions :
                           WithinLimit /\ s \in answered'[a] \ answered[a] => file'.seen[a] = s
             Inv == IInv /\ WInv /\ RetentionInv
  <1>1. Inv /\ Inv' /\ [Next]_vars => [Holds]_vars
    <2> SUFFICES ASSUME Inv, Inv', Next PROVE Holds
      OBVIOUS
    <2> USE StatusFacts
    <2>t. /\ answered \in [Approvals -> SUBSET Statuses] /\ sweep \subseteq issued
          /\ created' \in [Approvals -> Nat] /\ Known(file) \subseteq issued
          /\ \A a \in Approvals : file.seen[a] # Missing => a \in issued
      BY DEF IInv, TypeOK, UnissuedMissing, Known
    <2>1. CASE answered' = answered
      BY <2>1
    <2>2. ASSUME NEW a \in Approvals, NEW s \in Statuses \ Decisions, a \in issued',
                 issued \subseteq issued', file' = Persist(file, a, s, created', "ok"),
                 \A b \in Approvals : answered'[b] \subseteq answered[b] \cup {s}
          PROVE  Holds
      <3>1. WithinLimit'
        BY <2>t, <2>2, AnsweringWrite
      <3> QED
        BY <2>2, <3>1
    <2>3. ASSUME NEW a \in Approvals, NEW o \in Disk, NEW ttl \in Ttls, Create(a, ttl, o),
                 answered' # answered
          PROVE  Holds
      <3>1. o = "ok" /\ \A b \in Approvals : answered'[b] \subseteq answered[b] \cup {"pending"}
        BY <2>t, <2>3 DEF Create, Answer
      <3>2. file' = Persist(file, a, "pending", created', "ok") /\ issued' = issued \cup {a}
        BY <2>3, <3>1 DEF Create
      <3> QED
        BY <2>2, <3>1, <3>2 DEF Decisions
    <2>4. ASSUME NEW a \in Approvals, NEW o \in Disk, answered' # answered,
                 Resolve(a, o) \/ DecideExpired(a, o) \/ SweepOne(a, o)
          PROVE  Holds
      <3>1. o = "ok" /\ \A b \in Approvals : answered'[b] \subseteq answered[b] \cup {"expired"}
        BY <2>t, <2>4 DEF Resolve, DecideExpired, SweepOne, Writes, Answer
      <3>2. /\ file' = Persist(file, a, "expired", created', "ok")
            /\ issued' = issued /\ a \in issued
        BY <2>t, <2>4, <3>1 DEF Resolve, DecideExpired, SweepOne, Writes
      <3> QED
        BY <2>2, <3>1, <3>2 DEF Decisions
    <2>5. ASSUME NEW a \in Approvals, NEW o \in Disk, NEW d \in Decisions, Decide(a, d, o),
                 answered' # answered
          PROVE  Holds
      <3>1. o = "ok" /\ answered' = [answered EXCEPT ![a] = @ \cup {d}]
        BY <2>5 DEF Decide, Writes, Answer
      <3>2. /\ file' = Persist(file, a, d, created', "ok")
            /\ issued' = issued /\ a \in issued
        BY <2>t, <2>5, <3>1 DEF Decide, Writes
      <3>3. WithinLimit'
        BY <2>t, <3>2, AnsweringWrite
      <3>4. WithinLimit => file'.seen[a] = d
        BY <2>5, <3>1, DecisionStays
      <3>5. \A b \in Approvals : answered'[b] \ answered[b] \subseteq IF b = a THEN {d} ELSE {}
        BY <2>t, <3>1
      <3> QED
        BY <3>3, <3>4, <3>5
    <2>6. CASE Tick \/ SweepBegin \/ Crash
      BY <2>1, <2>6 DEF Tick, SweepBegin, Crash
    <2> QED
      BY <2>1, <2>3, <2>4, <2>5, <2>6 DEF Next
  <1>2. Spec => [][Holds]_vars
    BY <1>1, Inductive, InductiveWhole, InductiveRetention, PTL DEF Spec
  <1> QED
    BY <1>2 DEF RetentionHolds
=============================================================================
