--------------------------- MODULE AuditLog_proofs ---------------------------
(***************************************************************************)
(* Proofs about the audit log, for any limit, sizes and numbers of         *)
(* backups: the backups stay in order of age whatever is interrupted, and  *)
(* an acknowledged event outlives as many rotations as there are backups,  *)
(* unless the write just before it left a part of itself.                  *)
(***************************************************************************)
EXTENDS AuditLog, TLAPS

\* The event being written is newer than all that the files hold.
EventsOld ==
    \A i \in Numbers : \A e \in log[i].events : e <= event /\ (pc # "idle" => e < event)
Writing == pc # "idle" => event \in Events /\ event \notin acked
TurnBelow == pc = "move" => turn < keep

USE DEF Files

IInv == TypeOK /\ EventsOld /\ Writing /\ TurnBelow /\ BackupsOrdered

LEMMA NumbersFacts ==
    /\ MaxBackups \in Nat /\ MaxEvents \in Nat
    /\ Numbers \subseteq Int /\ 0 \in Numbers
    /\ BackupCounts \subseteq Numbers
    /\ \A i \in Numbers : i \in Nat
    /\ \A i \in Numbers, n \in Numbers : i < n => i + 1 \in Numbers
    /\ \A i \in Numbers : i # 0 => i - 1 \in Numbers
  BY MaxBackupsNat, BackupCountsRange, MaxEventsNat DEF Numbers

\* The number of backups is one of those an event's age is compared with.
LEMMA CountsFacts ==
    ASSUME TypeOK PROVE keep \in Counts /\ Counts \subseteq BackupCounts
  BY RegimesType DEF Counts, TypeOK

LEMMA NoFileType ==
    /\ NoFile \in Files
    /\ NoFile.events = {} /\ ~NoFile.exists
  BY DEF NoFile

LEMMA InitIInv == Init => IInv
  BY NumbersFacts, NoFileType
  DEF Init, IInv, TypeOK, EventsOld, Writing, TurnBelow, BackupsOrdered, Events

LEMMA NextIInv == IInv /\ [Next]_vars => IInv'
  <1> SUFFICES ASSUME IInv, [Next]_vars PROVE IInv'
    OBVIOUS
  <1> USE NumbersFacts, NoFileType
  <1>0. regime' = regime
    BY DEF Next, vars
  <1> USE <1>0
  <1>t. TypeOK /\ EventsOld /\ Writing /\ TurnBelow /\ BackupsOrdered
    BY DEF IInv
  <1>c. keep \in Counts /\ keep \in Numbers /\ Counts' = Counts
    BY <1>t, CountsFacts DEF Counts
  <1> USE <1>c
  \* A file that is unlinked.
  <1>u. ASSUME NEW i \in Numbers, log' = [log EXCEPT ![i] = NoFile],
               UNCHANGED <<event>>, pc # "idle"
        PROVE  /\ log' \in [Numbers -> Files]
               /\ EventsOld' /\ BackupsOrdered'
    <2>1. \A j \in Numbers : log'[j] = NoFile \/ log'[j] = log[j]
      BY <1>t, <1>u DEF TypeOK
    <2>2. log' \in [Numbers -> Files]
      BY <1>t, <1>u DEF TypeOK
    <2>3. EventsOld'
      BY <1>t, <1>u, <2>1 DEF EventsOld
    <2>4. BackupsOrdered'
      BY <1>t, <2>1 DEF BackupsOrdered
    <2> QED
      BY <2>2, <2>3, <2>4
  <1>1. ASSUME NEW s \in Sizes, Write(s) PROVE IInv'
    <2>1. event \in Int /\ event' = event + 1 /\ event' \in Events /\ s \in Nat
      BY <1>t, <1>1, SizesPos DEF Write, TypeOK, Events
    <2>2. TypeOK'
      BY <1>t, <1>1, <2>1 DEF Write, TypeOK
    <2>3. \A i \in Numbers : log[i].events \subseteq Int
      BY <1>t DEF TypeOK, Events
    <2>4. EventsOld'
      <3> SUFFICES ASSUME NEW i \in Numbers, NEW e \in log[i].events
                   PROVE  e < event'
        BY <1>1, <2>1, <2>3 DEF Write, EventsOld
      <3>1. e \in Int /\ e <= event
        BY <1>t, <2>3 DEF EventsOld
      <3> QED
        BY <2>1, <3>1
    <2>5. Writing'
      BY <1>t, <1>1, <2>1 DEF Write, Writing, TypeOK
    <2> QED
      BY <1>t, <1>1, <2>2, <2>4, <2>5 DEF Write, IInv, TurnBelow, BackupsOrdered
  <1>2. ASSUME NEW i \in Numbers, Unlink(i) PROVE IInv'
    <2>1. /\ log' \in [Numbers -> Files]
          /\ EventsOld' /\ BackupsOrdered'
      BY <1>2, <1>u DEF Unlink
    <2> QED
      BY <1>t, <1>2, <2>1 DEF Unlink, IInv, TypeOK, Writing, TurnBelow
  <1>3. CASE Check
    BY <1>t, <1>3
    DEF Check, IInv, TypeOK, EventsOld, Writing, TurnBelow, BackupsOrdered
  <1>4. CASE Rotate
    <2>1. keep \in Numbers /\ log' = [log EXCEPT ![keep] = NoFile] /\ UNCHANGED <<event>>
      BY <1>t, <1>4 DEF Rotate, TypeOK
    <2>2. /\ log' \in [Numbers -> Files]
          /\ EventsOld' /\ BackupsOrdered'
      BY <1>4, <2>1, <1>u DEF Rotate
    <2>3. TypeOK' /\ TurnBelow'
      BY <1>t, <1>4, <2>1, <2>2 DEF Rotate, TypeOK, TurnBelow
    <2> QED
      BY <1>t, <1>4, <2>2, <2>3 DEF Rotate, IInv, Writing
  <1>5. CASE Move
    <2>1. turn \in Numbers /\ turn + 1 \in Numbers /\ keep \in Numbers
      BY <1>t, <1>5 DEF Move, TypeOK, TurnBelow
    <2>2. \/ log' = log
          \/ log' = [log EXCEPT ![turn + 1] = log[turn], ![turn] = NoFile]
      BY <1>5 DEF Move
    <2>3. \/ log' = log
          \/ /\ log'[turn + 1] = log[turn] /\ log'[turn] = NoFile
             /\ \A j \in Numbers \ {turn, turn + 1} : log'[j] = log[j]
      BY <1>t, <2>1, <2>2 DEF TypeOK
    <2>4. TypeOK' /\ TurnBelow'
      BY <1>t, <1>5, <2>1, <2>2 DEF Move, TypeOK, TurnBelow
    <2>5. EventsOld'
      BY <1>t, <1>5, <2>1, <2>3 DEF Move, EventsOld
    <2>6. BackupsOrdered'
      <3> SUFFICES ASSUME NEW i \in Numbers, NEW j \in Numbers, i < j,
                          NEW e \in log'[i].events, NEW f \in log'[j].events
                   PROVE  f < e
        BY DEF BackupsOrdered
      <3>1. CASE log' = log
        BY <1>t, <3>1 DEF BackupsOrdered
      <3>2. CASE log' # log
        <4>1. i # turn /\ j # turn
          BY <2>3, <3>2
        <4>2. CASE i = turn + 1
          BY <1>t, <2>1, <2>3, <3>2, <4>1, <4>2 DEF BackupsOrdered
        <4>3. CASE j = turn + 1
          BY <1>t, <2>1, <2>3, <3>2, <4>1, <4>3 DEF BackupsOrdered
        <4>4. CASE i # turn + 1 /\ j # turn + 1
          BY <1>t, <2>1, <2>3, <3>2, <4>1, <4>4 DEF BackupsOrdered
        <4> QED
          BY <4>2, <4>3, <4>4
      <3> QED
        BY <3>1, <3>2
    <2> QED
      BY <1>t, <1>5, <2>4, <2>5, <2>6 DEF Move, IInv, Writing
  <1>6. CASE Enforced
    BY <1>t, <1>6
    DEF Enforced, IInv, TypeOK, EventsOld, Writing, TurnBelow, BackupsOrdered
  <1>7. CASE Append \/ EmptyAppend \/ TornAppend
    <2>1. /\ event \in Events /\ pc # "idle" /\ pc' = "idle"
          /\ UNCHANGED <<event, keep, turn, size, tries>> /\ acked' \subseteq acked \cup {event}
          /\ log'[0].events \subseteq log[0].events \cup {event}
          /\ \A j \in Numbers \ {0} : log'[j] = log[j]
          /\ log' \in [Numbers -> Files]
      <3>1. PICK es \in SUBSET (log[0].events \cup {event}), bytes \in Nat, torn \in BOOLEAN :
               Appended(log[0], es, bytes, torn)
        <4>1. size \in Nat /\ log[0].torn \in BOOLEAN
          BY <1>t DEF TypeOK
        <4>2. CASE Append
          BY <4>1, <4>2 DEF Append
        <4>3. CASE EmptyAppend
          BY <4>1, <4>3 DEF EmptyAppend
        <4>4. CASE TornAppend
          BY <4>1, <4>4 DEF TornAppend
        <4> QED
          BY <1>7, <4>2, <4>3, <4>4
      <3> DEFINE f == [exists |-> TRUE, events |-> es, size |-> log[0].size + bytes,
                       torn |-> torn]
      <3>2. /\ event \in Events /\ pc # "idle" /\ pc' = "idle"
            /\ UNCHANGED <<event, keep, turn, size, tries>> /\ log' = [log EXCEPT ![0] = f]
        BY <1>t, <3>1 DEF Appended, Writing
      <3>3. f \in Files
        BY <1>t, <3>2 DEF TypeOK
      <3>4. acked' \subseteq acked \cup {event}
        BY <1>7 DEF Append, EmptyAppend, TornAppend
      <3> QED
        BY <1>t, <3>2, <3>3, <3>4 DEF TypeOK
    <2>2. EventsOld'
      BY <1>t, <2>1 DEF EventsOld, Events
    <2>3. BackupsOrdered'
      <3> SUFFICES ASSUME NEW i \in Numbers, NEW j \in Numbers, i < j,
                          NEW e \in log'[i].events, NEW f \in log'[j].events
                   PROVE  f < e
        BY DEF BackupsOrdered
      <3>1. j # 0 /\ f \in log[j].events
        <4>1. i \in Nat /\ j \in Nat
          BY NumbersFacts
        <4> QED
          BY <2>1, <4>1
      <3>2. CASE e \in log[i].events
        BY <1>t, <3>1, <3>2 DEF BackupsOrdered
      <3>3. CASE e \notin log[i].events
        BY <1>t, <2>1, <3>1, <3>3 DEF EventsOld
      <3> QED
        BY <3>2, <3>3
    <2>4. TypeOK'
      <3>1. acked' \subseteq 1..event'
        <4>1. acked \subseteq 1..event /\ event \in 1..event
          BY <1>t, <2>1 DEF TypeOK, Events
        <4> QED
          BY <2>1, <4>1
      <3> QED
        BY <1>t, <2>1, <3>1 DEF TypeOK
    <2> QED
      BY <2>1, <2>2, <2>3, <2>4 DEF IInv, Writing, TurnBelow
  <1>8. CASE Raise
    BY <1>t, <1>8
    DEF Raise, IInv, TypeOK, EventsOld, Writing, TurnBelow, BackupsOrdered
  <1>9. ASSUME NEW n \in Counts, Restart(n) PROVE IInv'
    BY <1>t, <1>9
    DEF Restart, IInv, TypeOK, EventsOld, Writing, TurnBelow, BackupsOrdered
  <1>10. CASE UNCHANGED vars
    BY <1>t, <1>10
    DEF vars, IInv, TypeOK, EventsOld, Writing, TurnBelow, BackupsOrdered
  <1> QED
    BY <1>1, <1>2, <1>3, <1>4, <1>5, <1>6, <1>7, <1>8, <1>9, <1>10 DEF Next, Step

\* The invariant holds of every reachable state.
LEMMA Inductive == Spec => []IInv
  BY InitIInv, NextIInv, PTL DEF Spec

\* The state of the audit log is well formed.
THEOREM TypeCorrect == Spec => []TypeOK
  BY Inductive, PTL DEF IInv

\* The backups stay in order of age, also when a rotation is interrupted at any
\* step and when the number of backups changes.
THEOREM Ordered == Spec => []BackupsOrdered
  BY Inductive, PTL DEF IInv

-----------------------------------------------------------------------------
(***************************************************************************)
(* An event outlives the rotations.  On a disk that keeps parts of writes  *)
(* this is said of the events whose predecessor was acknowledged, of all   *)
(* events on any other.  The file that holds an event has at most the      *)
(* number of attempts made since; a file that the present rotation has yet *)
(* to move is one short of it; and the place a file moves to is free.  The *)
(* active file ends in an unfinished line only after a write that failed.  *)
(***************************************************************************)
Held(e) == \E i \in Numbers :
              /\ e \in log[i].events
              /\ i <= tries[e]
              /\ pc = "move" /\ i <= turn => i < tries[e]
Safe == {e \in acked : Cuts => e - 1 \in acked \cup {0}}
YoungHeld == \A e \in Safe : Young(e) => Held(e)
EventsInFiles == \A i \in Numbers : ~Exists(i) => log[i].events = {}
PlaceFree == pc = "move" => ~Exists(turn + 1)
LastFailed ==
    log[0].torn =>
       Cuts /\ (IF pc = "idle" THEN event ELSE event - 1) \notin acked \cup {0}

SInv == YoungHeld /\ EventsInFiles /\ PlaceFree /\ LastFailed

LEMMA InitSInv == Init => SInv
  BY NumbersFacts
  DEF Init, SInv, YoungHeld, Safe, EventsInFiles, PlaceFree, LastFailed, NoFile

LEMMA SafeAcked == ASSUME IInv, NEW e \in Safe PROVE e \in acked /\ e \in Events
  BY NumbersFacts DEF Safe, IInv, TypeOK, Events

\* A step that leaves the files, the attempts and the place of a move alone.
LEMMA SameFiles ==
    ASSUME IInv, SInv, UNCHANGED <<regime, log, acked, tries>>, pc' # "move",
           LastFailed'
    PROVE  SInv'
  BY DEF SInv, YoungHeld, Safe, EventsInFiles, PlaceFree, Held, Young, Counts, Cuts, Exists

LEMMA UnlinkSInv == ASSUME IInv, SInv, UNCHANGED regime, NEW i \in Numbers, Unlink(i) PROVE SInv'
  <1> USE NumbersFacts, NoFileType, SafeAcked
  <1>0. Counts' = Counts /\ keep \in Counts /\ keep \in BackupCounts /\ Cuts' = Cuts
    BY CountsFacts DEF Counts, Cuts, IInv
  <1> USE <1>0
  <1>1. /\ log' = [log EXCEPT ![i] = NoFile] /\ i > keep /\ pc # "move" /\ pc' = pc
        /\ UNCHANGED <<acked, tries>> /\ keep \in BackupCounts
        /\ log \in [Numbers -> Files]
        /\ tries \in [Events -> Nat] /\ acked \subseteq Events
    <2>1. acked \subseteq Events
      BY DEF IInv, TypeOK, Events
    <2> QED
      BY <2>1 DEF Unlink, Stale, IInv, TypeOK
  <1>2. YoungHeld'
    <2> SUFFICES ASSUME NEW e \in Safe, Young(e) PROVE Held(e)'
      BY <1>1 DEF YoungHeld, Young, Safe
    <2>1. PICK j \in Numbers : e \in log[j].events /\ j <= tries[e]
      BY DEF SInv, YoungHeld, Held
    <2>2. tries[e] <= keep /\ tries[e] \in Nat
      BY <1>1 DEF Young
    <2>3. j # i
      BY <1>1, <2>1, <2>2
    <2> QED
      BY <1>1, <2>1, <2>3 DEF Held
  <1>3. EventsInFiles' /\ PlaceFree'
    BY <1>1 DEF SInv, EventsInFiles, PlaceFree, Exists, NoFile
  <1>4. LastFailed'
    BY <1>1 DEF Unlink, SInv, LastFailed, NoFile
  <1> QED
    BY <1>2, <1>3, <1>4 DEF SInv

LEMMA RotateSInv == ASSUME IInv, SInv, UNCHANGED regime, Rotate PROVE SInv'
  <1> USE NumbersFacts, NoFileType, SafeAcked
  <1>0. Counts' = Counts /\ keep \in Counts /\ keep \in BackupCounts /\ Cuts' = Cuts
    BY CountsFacts DEF Counts, Cuts, IInv
  <1> USE <1>0
  <1>1. /\ log' = [log EXCEPT ![keep] = NoFile]
        /\ pc = "rotate" /\ keep' = keep /\ keep \in BackupCounts /\ acked' = acked
        /\ log \in [Numbers -> Files]
        /\ tries \in [Events -> Nat] /\ acked \subseteq Events
        /\ \A e \in acked : tries'[e] = tries[e] + 1
        /\ pc' = "move" => turn' + 1 = keep
    <2>1. acked \subseteq Events
      BY DEF IInv, TypeOK, Events
    <2> QED
      BY <2>1 DEF Rotate, IInv, TypeOK
  <1>2. YoungHeld'
    <2> SUFFICES ASSUME NEW e \in Safe, Young(e)' PROVE Held(e)'
      BY <1>1 DEF YoungHeld, Safe
    <2>1. /\ tries[e] \in Nat /\ tries'[e] = tries[e] + 1
          /\ \A n \in Counts : tries[e] + 1 <= n
      BY <1>1 DEF Young
    <2>2. Young(e)
      <3>1. \A n \in Counts : n \in Int
        BY CountsFacts
      <3> QED
        BY <2>1, <3>1 DEF Young
    <2>3. PICK j \in Numbers : e \in log[j].events /\ j <= tries[e]
      BY <2>2 DEF SInv, YoungHeld, Held
    <2>4. j # keep
      BY <1>1, <2>1, <2>3
    <2>5. e \in log'[j].events
      BY <1>1, <2>3, <2>4
    <2>6. j \in Nat /\ j <= tries'[e] /\ j < tries'[e]
      BY <2>1, <2>3
    <2> QED
      BY <2>5, <2>6 DEF Held
  <1>3. EventsInFiles' /\ PlaceFree'
    BY <1>1 DEF SInv, EventsInFiles, PlaceFree, Exists, NoFile
  <1>4. LastFailed'
    BY <1>1 DEF Rotate, SInv, LastFailed, NoFile
  <1> QED
    BY <1>2, <1>3, <1>4 DEF SInv

LEMMA MoveSInv == ASSUME IInv, SInv, UNCHANGED regime, Move PROVE SInv'
  <1> USE NumbersFacts, NoFileType, SafeAcked
  <1>0. Counts' = Counts /\ keep \in Counts /\ keep \in BackupCounts /\ Cuts' = Cuts
    BY CountsFacts DEF Counts, Cuts, IInv
  <1> USE <1>0
  <1>1. /\ turn \in Numbers /\ turn + 1 \in Numbers /\ pc = "move"
        /\ log \in [Numbers -> Files]
        /\ UNCHANGED <<acked, tries>>
        /\ tries \in [Events -> Nat] /\ acked \subseteq Events
        /\ pc' = "move" => turn' = turn - 1 /\ turn' \in Numbers
    <2>1. acked \subseteq Events
      BY DEF IInv, TypeOK, Events
    <2> QED
      BY <2>1 DEF Move, IInv, TypeOK, TurnBelow
  <1>2. /\ ~Exists(turn + 1) /\ log[turn + 1].events = {}
        /\ ~Exists(turn) => log[turn].events = {}
    BY <1>1 DEF SInv, PlaceFree, EventsInFiles
  <1>3. \/ ~Exists(turn) /\ log' = log
        \/ /\ log'[turn + 1] = log[turn] /\ log'[turn] = NoFile
           /\ \A j \in Numbers \ {turn, turn + 1} : log'[j] = log[j]
    BY <1>1 DEF Move
  <1>4. YoungHeld'
    <2> SUFFICES ASSUME NEW e \in Safe, Young(e) PROVE Held(e)'
      BY <1>1 DEF YoungHeld, Young, Safe
    <2>1. PICK j \in Numbers : /\ e \in log[j].events /\ j <= tries[e]
                               /\ j <= turn => j < tries[e]
      BY <1>1 DEF SInv, YoungHeld, Held
    <2>2. tries[e] \in Nat /\ j # turn + 1
      BY <1>1, <1>2, <2>1
    <2>3. CASE j = turn
      <3>1. e \in log'[turn + 1].events
        BY <1>2, <1>3, <2>1, <2>3
      <3>2. turn + 1 <= tries[e]
        BY <1>1, <2>1, <2>2, <2>3
      <3>3. pc' = "move" => ~(turn + 1 <= turn')
        BY <1>1
      <3> QED
        BY <1>1, <3>1, <3>2, <3>3 DEF Held
    <2>4. CASE j # turn
      <3>1. e \in log'[j].events
        BY <1>3, <2>1, <2>2, <2>4
      <3>2. pc' = "move" /\ j <= turn' => j < tries[e]
        BY <1>1, <2>1
      <3> QED
        BY <1>1, <2>1, <3>1, <3>2 DEF Held
    <2> QED
      BY <2>3, <2>4
  <1>5. EventsInFiles'
    <2> SUFFICES ASSUME NEW j \in Numbers
                 PROVE  Exists(j)' \/ log'[j].events = {}
      BY DEF EventsInFiles
    <2>1. log'[j] = NoFile \/ \E k \in Numbers : log'[j] = log[k]
      BY <1>1, <1>3
    <2> QED
      BY <2>1 DEF SInv, EventsInFiles, Exists, NoFile
  <1>6. PlaceFree'
    BY <1>1, <1>2, <1>3 DEF PlaceFree, Exists, NoFile
  <1>7. LastFailed'
    <2>1. pc' # "idle" /\ UNCHANGED <<event, size, acked>> /\ (log'[0] = log[0] \/ log'[0] = NoFile)
      BY <1>1, <1>3 DEF Move
    <2> QED
      BY <1>1, <2>1 DEF SInv, LastFailed, NoFile
  <1> QED
    BY <1>4, <1>5, <1>6, <1>7 DEF SInv

\* What the ways an append may end have in common.
LEMMA AppendedEffect ==
    ASSUME IInv, SInv, NEW es \in SUBSET Events, NEW bytes \in Nat, NEW torn \in BOOLEAN,
           Appended(log[0], es, bytes, torn)
    PROVE  /\ event \in Events /\ event \notin acked /\ pc # "idle" /\ pc' = "idle"
           /\ UNCHANGED <<keep, event, tries>>
           /\ log \in [Numbers -> Files] /\ tries \in [Events -> Nat] /\ acked \subseteq Events
           /\ log'[0].events = es /\ log'[0].torn = torn
           /\ \A j \in Numbers \ {0} : log'[j] = log[j]
           /\ EventsInFiles' /\ PlaceFree'
  <1> USE NumbersFacts
  <1> DEFINE f == [exists |-> TRUE, events |-> es, size |-> log[0].size + bytes, torn |-> torn]
  <1>1. /\ event \in Events /\ event \notin acked /\ pc # "idle" /\ pc' = "idle"
        /\ UNCHANGED <<keep, event, tries>> /\ log' = [log EXCEPT ![0] = f]
        /\ log \in [Numbers -> Files] /\ tries \in [Events -> Nat] /\ acked \subseteq Events
    <2>1. acked \subseteq Events
      BY DEF IInv, TypeOK, Events
    <2> QED
      BY <2>1 DEF Appended, IInv, Writing, TypeOK
  <1>2. log'[0] = f /\ \A j \in Numbers \ {0} : log'[j] = log[j]
    BY <1>1
  <1>3. EventsInFiles'
    <2> SUFFICES ASSUME NEW j \in Numbers PROVE Exists(j)' \/ log'[j].events = {}
      BY DEF EventsInFiles
    <2>1. CASE j = 0
      BY <1>2, <2>1 DEF Exists
    <2>2. CASE j # 0
      BY <1>2, <2>2 DEF SInv, EventsInFiles, Exists
    <2> QED
      BY <2>1, <2>2
  <1>4. PlaceFree'
    BY <1>1 DEF PlaceFree
  <1> QED
    BY <1>1, <1>2, <1>3, <1>4

LEMMA AppendSInv == ASSUME IInv, SInv, UNCHANGED regime, Append PROVE SInv'
  <1> USE NumbersFacts
  <1>0. Counts' = Counts /\ Cuts' = Cuts
    BY DEF Counts, Cuts
  <1> USE <1>0
  <1> DEFINE es == IF log[0].torn THEN log[0].events ELSE log[0].events \cup {event}
  <1>1. /\ pc = "append" /\ event \in Events /\ event \notin acked /\ pc' = "idle"
        /\ UNCHANGED <<event, tries>> /\ acked' = acked \cup {event}
        /\ tries \in [Events -> Nat] /\ acked \subseteq Events
        /\ log'[0].events = es /\ ~log'[0].torn
        /\ \A j \in Numbers \ {0} : log'[j] = log[j]
        /\ EventsInFiles' /\ PlaceFree'
    <2>1. es \in SUBSET Events /\ size \in Nat
      BY DEF IInv, TypeOK, Append, Appended, Writing
    <2>2. Appended(log[0], es, size, FALSE) /\ acked' = acked \cup {event}
      BY DEF Append
    <2> QED
      BY <2>1, <2>2, AppendedEffect DEF Appended
  <1>3. \A j \in Numbers : log[j].events \subseteq log'[j].events
    BY <1>1
  <1>4. YoungHeld'
    <2> SUFFICES ASSUME NEW e \in Safe', Young(e) PROVE Held(e)'
      BY <1>1 DEF YoungHeld, Young, Safe
    <2>1. CASE e = event
      <3>1. Cuts => event - 1 \in acked \cup {0}
        BY <1>1, <2>1 DEF Safe, Events
      <3>2. ~log[0].torn
        BY <1>1, <3>1 DEF SInv, LastFailed
      <3>3. event \in log'[0].events /\ 0 <= tries[event]
        BY <1>1, <3>2
      <3> QED
        BY <1>1, <2>1, <3>3 DEF Held
    <2>2. CASE e # event
      <3>1. e \in acked /\ (Cuts => e - 1 \in acked \cup {event, 0})
        BY <1>1, <2>2 DEF Safe
      <3>2. e <= event /\ e \in Int /\ event \in Int
        BY <1>1, <3>1 DEF IInv, TypeOK, Events
      <3>3. e \in Safe
        BY <3>1, <3>2 DEF Safe
      <3> QED
        BY <1>1, <1>3, <3>3 DEF SInv, YoungHeld, Held
    <2> QED
      BY <2>1, <2>2
  <1>6. LastFailed'
    BY <1>1 DEF LastFailed
  <1> QED
    BY <1>1, <1>4, <1>6 DEF SInv

LEMMA FailedAppendSInv ==
    ASSUME IInv, SInv, UNCHANGED regime, EmptyAppend \/ TornAppend PROVE SInv'
  <1> USE NumbersFacts
  <1>0. Counts' = Counts /\ Cuts' = Cuts
    BY DEF Counts, Cuts
  <1> USE <1>0
  <1>1. /\ event \in Events /\ event \notin acked /\ pc # "idle" /\ pc' = "idle"
        /\ UNCHANGED <<event, tries, acked>> /\ log'[0].events = log[0].events
        /\ log'[0].torn => Cuts
        /\ \A j \in Numbers \ {0} : log'[j] = log[j]
        /\ EventsInFiles' /\ PlaceFree'
    <2>1. log[0].events \in SUBSET Events /\ log[0].torn \in BOOLEAN /\ (log[0].torn => Cuts)
      BY DEF IInv, TypeOK, SInv, LastFailed
    <2>2. CASE EmptyAppend
      BY <2>1, <2>2, AppendedEffect DEF EmptyAppend
    <2>3. CASE TornAppend
      BY <2>1, <2>3, AppendedEffect DEF TornAppend
    <2> QED
      BY <2>2, <2>3
  <1>2. \A j \in Numbers : log'[j].events = log[j].events
    BY <1>1
  <1>3. YoungHeld'
    BY <1>1, <1>2 DEF SInv, YoungHeld, Safe, Young, Held
  <1>4. LastFailed'
    BY <1>1 DEF LastFailed, Events
  <1> QED
    BY <1>1, <1>3, <1>4 DEF SInv

LEMMA NextSInv == ASSUME IInv, SInv, [Next]_vars PROVE SInv'
  <1>0. regime' = regime
    BY DEF Next, vars
  <1> USE <1>0 DEF Counts, Cuts
  <1>1. ASSUME NEW s \in Sizes, Write(s) PROVE SInv'
    <2>2. event' = event + 1 /\ event \in Int /\ pc = "idle" /\ pc' # "idle"
          /\ UNCHANGED <<log, acked>>
      BY <1>1 DEF Write, IInv, TypeOK
    <2>3. LastFailed'
      BY <2>2 DEF SInv, LastFailed
    <2> QED
      BY <1>1, <2>3, SameFiles DEF Write
  <1>2. ASSUME NEW i \in Numbers, Unlink(i) PROVE SInv'
    BY <1>2, UnlinkSInv
  <1>3. CASE Check \/ Enforced
    <2>1. LastFailed'
      BY <1>3 DEF Check, Enforced, SInv, LastFailed
    <2> QED
      BY <1>3, <2>1, SameFiles DEF Check, Enforced, SInv
  <1>4. CASE Rotate
    BY <1>4, RotateSInv
  <1>5. CASE Move
    BY <1>5, MoveSInv
  <1>6. CASE Append
    BY <1>6, AppendSInv
  <1>7. CASE EmptyAppend \/ TornAppend
    BY <1>7, FailedAppendSInv
  <1>8. CASE Raise
    <2>1. LastFailed'
      BY <1>8 DEF Raise, IInv, Writing, SInv, LastFailed, Events
    <2> QED
      BY <1>8, <2>1, SameFiles DEF Raise
  <1>9. ASSUME NEW n \in Counts, Restart(n) PROVE SInv'
    <2>1. LastFailed'
      BY <1>9 DEF Restart, SInv, LastFailed
    <2> QED
      BY <1>9, <2>1, SameFiles DEF Restart
  <1>10. CASE UNCHANGED vars
    BY <1>10
    DEF vars, SInv, YoungHeld, Safe, EventsInFiles, PlaceFree, LastFailed, Held, Young, Exists
  <1> QED
    BY <1>1, <1>2, <1>3, <1>4, <1>5, <1>6, <1>7, <1>8, <1>9, <1>10 DEF Next, Step

\* And so does its strengthening.
LEMMA Holds == Spec => []SInv
  <1>1. IInv /\ SInv /\ [Next]_vars => SInv'
    BY NextSInv
  <1> QED
    BY <1>1, InitSInv, Inductive, PTL DEF Spec

\* On a disk that keeps no part of a failed write, an acknowledged event is in some
\* file until more rotations have been attempted than the smallest number of backups
\* that the process was ever configured with.
THEOREM Survives == Spec => []SurvivesRotations
  <1>1. SInv => SurvivesRotations
    BY DEF SInv, YoungHeld, Safe, Held, SurvivesRotations, Present
  <1> QED
    BY <1>1, Holds, PTL

\* On any disk, so is one that was written after an acknowledged event.
THEOREM Confined == Spec => []LossConfined
  <1>1. SInv => LossConfined
    BY DEF SInv, YoungHeld, Safe, Held, LossConfined, Present
  <1> QED
    BY <1>1, Holds, PTL

-----------------------------------------------------------------------------
(***************************************************************************)
(* No hole.  In the steady regime no file has a number above the setting,  *)
(* so that the only file a rotation drops is the oldest there is; what is  *)
(* moved is moved to a free place; and what is appended is the newest.     *)
(***************************************************************************)
NoneAbove == \A i \in Numbers : i > keep => ~Exists(i)
HInv == Steady => NoneAbove /\ NoHoles

LEMMA SameHistory ==
    ASSUME HInv, UNCHANGED <<regime, log, keep, acked>>
    PROVE  HInv'
  BY DEF HInv, Steady, Cuts, Counts, NoneAbove, NoHoles, Present, Exists

\* The setting of this process.
LEMMA KeepFacts == ASSUME IInv PROVE keep \in Numbers /\ keep \in Nat
  <1>1. TypeOK
    BY DEF IInv
  <1>2. keep \in Numbers
    BY <1>1, NumbersFacts, CountsFacts
  <1> QED
    BY <1>2, NumbersFacts

LEMMA RotateHInv == ASSUME IInv, SInv, HInv, UNCHANGED regime, Rotate PROVE HInv'
  <1> USE NumbersFacts, NoFileType
  <1> SUFFICES ASSUME Steady PROVE NoneAbove' /\ NoHoles'
    <2>1. Steady' => Steady
      BY DEF Steady, Cuts, Counts, Rotate
    <2> QED
      BY <2>1 DEF HInv
  <1>1. /\ log \in [Numbers -> Files]
        /\ log' = [log EXCEPT ![keep] = NoFile] /\ keep \in Numbers
        /\ UNCHANGED <<keep, acked>> /\ acked \subseteq Int
    BY KeepFacts DEF Rotate, IInv, TypeOK
  <1>2. NoneAbove /\ NoHoles
    BY DEF HInv
  <1>3. NoneAbove'
    BY <1>1, <1>2 DEF NoneAbove, Exists
  <1>4. ASSUME NEW e \in acked, NEW f \in acked, e < f, e \in Present'
        PROVE  f \in Present'
    <2>1. PICK i \in Numbers : e \in log'[i].events
      BY <1>4 DEF Present
    <2>2. i # keep /\ e \in log[i].events
      BY <1>1, <2>1
    <2>3. i < keep
      <3>1. ~(i > keep)
        BY <1>2, <2>2 DEF NoneAbove, SInv, EventsInFiles
      <3> QED
        BY <1>1, <2>2, <3>1
    <2>4. PICK j \in Numbers : f \in log[j].events
      BY <1>2, <1>4, <2>2 DEF NoHoles, Present
    <2>5. j # keep
      <3> SUFFICES ASSUME j = keep PROVE FALSE
        OBVIOUS
      <3>1. f < e
        BY <2>2, <2>3, <2>4 DEF IInv, BackupsOrdered
      <3> QED
        BY <1>1, <1>4, <3>1
    <2>6. f \in log'[j].events
      BY <1>1, <2>4, <2>5
    <2> QED
      BY <2>6 DEF Present
  <1> QED
    BY <1>1, <1>3, <1>4 DEF NoHoles

LEMMA MoveHInv == ASSUME IInv, SInv, HInv, UNCHANGED regime, Move PROVE HInv'
  <1> USE NumbersFacts, NoFileType
  <1> SUFFICES ASSUME Steady PROVE NoneAbove' /\ NoHoles'
    <2>1. Steady' => Steady
      BY DEF Steady, Cuts, Counts, Move
    <2> QED
      BY <2>1 DEF HInv
  <1>1. /\ turn \in Numbers /\ turn + 1 \in Numbers /\ turn < keep /\ keep \in Numbers
        /\ log \in [Numbers -> Files]
        /\ UNCHANGED <<keep, acked>>
    BY KeepFacts DEF Move, IInv, TypeOK, TurnBelow
  <1>2. NoneAbove /\ NoHoles
    BY DEF HInv
  <1>3. log[turn + 1].events = {}
    BY <1>1 DEF Move, SInv, PlaceFree, EventsInFiles
  <1>4. \/ log' = log
        \/ /\ log'[turn + 1] = log[turn] /\ log'[turn] = NoFile
           /\ \A j \in Numbers \ {turn, turn + 1} : log'[j] = log[j]
    BY <1>1 DEF Move
  <1>5. NoneAbove'
    <2> SUFFICES ASSUME NEW i \in Numbers, i > keep PROVE ~Exists(i)'
      BY <1>1 DEF NoneAbove
    <2>1. i # turn /\ i # turn + 1
      BY <1>1
    <2> QED
      BY <1>2, <1>4, <2>1 DEF NoneAbove, Exists
  <1>6. \A e : (\E i \in Numbers : e \in log'[i].events) <=>
               (\E i \in Numbers : e \in log[i].events)
    <2>1. CASE log' = log
      BY <2>1
    <2>2. CASE log' # log
      <3>1. \A e : \A i \in Numbers : e \in log'[i].events =>
               \E j \in Numbers : e \in log[j].events
        BY <1>1, <1>4, <2>2
      <3>2. \A e : \A i \in Numbers : e \in log[i].events =>
               \E j \in Numbers : e \in log'[j].events
        <4> SUFFICES ASSUME NEW e, NEW i \in Numbers, e \in log[i].events
                     PROVE  \E j \in Numbers : e \in log'[j].events
          OBVIOUS
        <4>1. CASE i = turn
          BY <1>1, <1>4, <2>2, <4>1
        <4>2. CASE i # turn
          <5>1. i # turn + 1
            BY <1>3
          <5> QED
            BY <1>4, <2>2, <4>2, <5>1
        <4> QED
          BY <4>1, <4>2
      <3> QED
        BY <3>1, <3>2
    <2> QED
      BY <2>1, <2>2
  <1>7. \A e : e \in Present' <=> e \in Present
    BY <1>6 DEF Present
  <1> QED
    BY <1>1, <1>2, <1>5, <1>7 DEF NoHoles

LEMMA AppendHInv == ASSUME IInv, SInv, HInv, UNCHANGED regime, Append PROVE HInv'
  <1> USE NumbersFacts
  <1> SUFFICES ASSUME Steady PROVE NoneAbove' /\ NoHoles'
    <2>1. Steady' => Steady
      BY DEF Steady, Cuts, Counts, Append, Appended
    <2> QED
      BY <2>1 DEF HInv
  <1>1. /\ keep \in Nat /\ keep' = keep /\ event \in Nat
        /\ acked' = acked \cup {event} /\ acked \subseteq 1..event
        /\ log'[0].events = log[0].events \cup {event}
        /\ \A j \in Numbers \ {0} : log'[j] = log[j]
    <2>1. ~log[0].torn
      BY DEF SInv, LastFailed, Steady
    <2>2. /\ log[0].events \cup {event} \in SUBSET Events /\ size \in Nat
          /\ event \in Nat /\ acked \subseteq 1..event
      BY DEF IInv, TypeOK, Append, Appended, Writing
    <2>3. Appended(log[0], log[0].events \cup {event}, size, FALSE)
      BY <2>1 DEF Append
    <2>4. acked' = acked \cup {event}
      BY DEF Append
    <2> QED
      BY <2>2, <2>3, <2>4, KeepFacts, AppendedEffect
  <1>2. NoneAbove /\ NoHoles
    BY DEF HInv
  <1>4. NoneAbove'
    BY <1>1, <1>2 DEF NoneAbove, Exists
  <1>5. ASSUME NEW e \in acked', NEW f \in acked', e < f, e \in Present'
        PROVE  f \in Present'
    <2>1. CASE f = event
      BY <1>1, <2>1 DEF Present
    <2>2. CASE f # event
      <3>1. f \in acked /\ e \in acked /\ e # event
        BY <1>1, <1>5, <2>2
      <3>2. PICK i \in Numbers : e \in log'[i].events
        BY <1>5 DEF Present
      <3>3. e \in log[i].events
        BY <1>1, <3>1, <3>2
      <3>4. PICK j \in Numbers : f \in log[j].events
        BY <1>2, <1>5, <3>1, <3>3 DEF NoHoles, Present
      <3>5. f \in log'[j].events
        BY <1>1, <3>4
      <3> QED
        BY <3>5 DEF Present
    <2> QED
      BY <2>1, <2>2
  <1> QED
    BY <1>4, <1>5 DEF NoHoles

LEMMA NextHInv == ASSUME IInv, SInv, HInv, [Next]_vars PROVE HInv'
  <1>0. regime' = regime
    BY DEF Next, vars
  <1>1. ASSUME NEW s \in Sizes, Write(s) PROVE HInv'
    BY <1>0, <1>1, SameHistory DEF Write
  <1>2. ASSUME NEW i \in Numbers, Unlink(i) PROVE HInv'
    <2>1. i > keep /\ Exists(i)
      BY <1>2 DEF Unlink, Stale
    <2>2. ~Steady'
      BY <1>0, <1>2, <2>1 DEF HInv, NoneAbove, Steady, Cuts, Counts, Unlink
    <2> QED
      BY <2>2 DEF HInv
  <1>3. CASE Check \/ Enforced \/ Raise
    BY <1>0, <1>3, SameHistory DEF Check, Enforced, Raise
  <1>4. CASE Rotate
    BY <1>0, <1>4, RotateHInv
  <1>5. CASE Move
    BY <1>0, <1>5, MoveHInv
  <1>6. CASE Append
    BY <1>0, <1>6, AppendHInv
  <1>7. CASE EmptyAppend
    <2>1. /\ UNCHANGED <<keep, acked>>
          /\ \A i \in Numbers : log'[i].events = log[i].events /\ (i # 0 => log'[i] = log[i])
      <3>1. log[0].events \in SUBSET Events /\ log[0].torn \in BOOLEAN
        BY NumbersFacts DEF IInv, TypeOK
      <3> QED
        BY <1>7, <3>1, AppendedEffect DEF EmptyAppend
    <2>2. Present' = Present
      BY <2>1 DEF Present
    <2>3. Steady' = Steady
      BY <1>0, <2>1 DEF Steady, Cuts, Counts
    <2>4. NoneAbove => NoneAbove'
      BY <2>1, KeepFacts DEF NoneAbove, Exists
    <2>5. NoHoles => NoHoles'
      BY <2>1, <2>2, <2>3 DEF NoHoles
    <2> QED
      BY <2>3, <2>4, <2>5 DEF HInv
  <1>8. ASSUME TornAppend \/ \E n \in Counts : Restart(n) PROVE HInv'
    <2>1. ~Steady'
      <3>1. keep \in Counts
        BY CountsFacts DEF IInv
      <3> QED
        BY <1>0, <1>8, <3>1 DEF TornAppend, Restart, Steady, Cuts, Counts
    <2> QED
      BY <2>1 DEF HInv
  <1>9. CASE UNCHANGED vars
    BY <1>0, <1>9, SameHistory DEF vars
  <1> QED
    BY <1>1, <1>2, <1>3, <1>4, <1>5, <1>6, <1>7, <1>8, <1>9 DEF Next, Step

\* In a steady regime what the rotations have left of the acknowledged events is the
\* newest of them, without a hole.
THEOREM Dense == Spec => []NoHoles
  <1>1. Init => HInv
    BY NumbersFacts, NoFileType DEF Init, HInv, NoneAbove, NoHoles, Exists
  <1>2. Init => IInv /\ SInv
    BY InitIInv, InitSInv
  <1>3. IInv /\ SInv /\ HInv /\ [Next]_vars => (IInv /\ SInv /\ HInv)'
    BY NextIInv, NextSInv, NextHInv
  <1>4. HInv => NoHoles
    BY DEF HInv, NoHoles
  <1> QED
    BY <1>1, <1>2, <1>3, <1>4, PTL DEF Spec
=============================================================================
