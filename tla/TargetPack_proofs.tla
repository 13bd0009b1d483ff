-------------------------- MODULE TargetPack_proofs --------------------------
(***************************************************************************)
(* Proofs about a target pack.  First the epoch, for any processes and any *)
(* number of objects: what is held keeps its name, no two processes hold   *)
(* the target when one holds it exclusively, and the file operations       *)
(* implement the lease of TargetPackLease.  Then the apply, which relies   *)
(* on that lease, for any processes, profiles and number of edits.         *)
(***************************************************************************)
EXTENDS TargetPack, TargetPackEpoch, TLAPS

-----------------------------------------------------------------------------
(* The epoch.                                                              *)

\* A process that has checked the directory keeps its name, because the cleaner
\* and it cannot both have it locked; the carrier in it then keeps its own.
DirectoryNamed ==
    \A p \in Users : lease[p].at \in WithDirectory => lease[p].dir = directory /\ directory # 0
CarrierNamed ==
    \A p \in Users : lease[p].at \in WithFile => lease[p].file = carrier /\ carrier # 0
SweptApart ==
    sweep.at = "locked" => \A p \in Users : HoldsDirectory(p) => lease[p].dir # sweep.dir
LocksCompatible ==
    \A p, q \in Users :
        /\ p # q /\ HoldsCarrier(p) /\ HoldsCarrier(q) /\ lease[p].file = lease[q].file
        => lease[p].mode = "shared" /\ lease[q].mode = "shared"

DirectoryOpen == \A p \in Users : lease[p].at \in {"lock_dir"} \cup Locking => lease[p].dir # 0

EInv == EpochOK /\ DirectoryOpen /\ DirectoryNamed /\ CarrierNamed /\ SweptApart /\ LocksCompatible

LeaseRecord == [at : {"none"} \cup Opening \cup Locking, dir : Objects, file : Objects, mode : LockModes]
Places == {"none", "open_dir", "lock_dir", "check_dir", "open_file", "lock_file", "check_file",
           "held", "unlock"}

LEMMA PlacesFact == {"none"} \cup Opening \cup Locking = Places
  BY DEF Opening, Locking, WithDirectory, WithFile, Places

LEMMA NoLeaseType == NoLease \in LeaseRecord
  BY MaxObjectsNat DEF NoLease, LeaseRecord, Objects, LockModes

LEMMA InitEInv == EpochInit => EInv
  BY NoLeaseType, MaxObjectsNat
  DEF EpochInit, EInv, EpochOK, LeaseRecord, NoLease, DirectoryOpen, Locking, DirectoryNamed, CarrierNamed, SweptApart,
      LocksCompatible, HoldsCarrier, Objects, WithDirectory, WithFile

-----------------------------------------------------------------------------
(* Steps that change the lease of one process and nothing else             *)

LEMMA OneLease ==
    ASSUME EInv, NEW p \in Users, NEW l \in LeaseRecord,
           lease' = [lease EXCEPT ![p] = l],
           UNCHANGED <<directory, carrier, made, sweep>>,
           l.at \in {"none", "open_dir"} => l.dir = 0 /\ l.file = 0,
           l.at \in {"lock_dir"} \cup Locking => l.dir # 0,
           l.at \in WithDirectory => l.dir = directory /\ directory # 0,
           l.at \in WithFile => l.file = carrier /\ carrier # 0,
           l.at \in Locking /\ sweep.at = "locked" => l.dir # sweep.dir,
           l.at \in {"check_file", "held"} =>
               \A q \in Users : q # p /\ HoldsCarrier(q) /\ lease[q].file = l.file
                                => lease[q].mode = "shared" /\ l.mode = "shared"
    PROVE  EInv'
  <1>1. lease \in [Users -> LeaseRecord]
    BY DEF EInv, EpochOK, LeaseRecord
  <1>2. lease'[p] = l /\ \A q \in Users : q # p => lease'[q] = lease[q]
    BY <1>1
  <1>3. lease' \in [Users -> LeaseRecord]
    BY <1>1
  <1>4. EpochOK'
    BY <1>2, <1>3 DEF EInv, EpochOK, LeaseRecord
  <1>5. DirectoryOpen' /\ DirectoryNamed' /\ CarrierNamed'
    BY <1>2 DEF EInv, DirectoryOpen, DirectoryNamed, CarrierNamed
  <1>6. SweptApart'
    BY <1>2 DEF EInv, SweptApart, HoldsDirectory
  <1>7. LocksCompatible'
    <2> SUFFICES ASSUME NEW r \in Users, NEW q \in Users, r # q, HoldsCarrier(r)', HoldsCarrier(q)',
                        lease'[r].file = lease'[q].file
                 PROVE  lease'[r].mode = "shared" /\ lease'[q].mode = "shared"
      BY DEF LocksCompatible
    <2>1. CASE r = p
      BY <1>2, <2>1 DEF HoldsCarrier
    <2>2. CASE q = p
      BY <1>2, <2>2 DEF HoldsCarrier
    <2>3. CASE r # p /\ q # p
      BY <1>2, <2>3 DEF EInv, LocksCompatible, HoldsCarrier
    <2> QED
      BY <2>1, <2>2, <2>3
  <1> QED
    BY <1>4, <1>5, <1>6, <1>7 DEF EInv

\* What is closed holds nothing.
LEMMA CloseEInv ==
    ASSUME EInv, NEW p \in Users, Close(p), UNCHANGED <<directory, carrier, made, sweep>>
    PROVE  EInv'
  <1>1. /\ NoLease.at = "none" /\ NoLease.dir = 0 /\ NoLease.file = 0
        /\ NoLease.at \notin {"lock_dir"} \cup Locking /\ NoLease.at \notin WithDirectory /\ NoLease.at \notin WithFile
    BY DEF NoLease, Locking, WithDirectory, WithFile
  <1> QED
    BY <1>1, NoLeaseType, OneLease DEF Close

\* A process that goes from one place to another, with what it has open.
LEMMA GotoEInv ==
    ASSUME EInv, NEW p \in Users, NEW there \in Places \ {"none", "open_dir"}, Goto(p, there),
           UNCHANGED <<directory, carrier, made, sweep>>,
           lease[p].dir # 0,
           there \in WithDirectory => lease[p].dir = directory /\ directory # 0,
           there \in WithFile => lease[p].file = carrier /\ carrier # 0,
           there \in Locking /\ sweep.at = "locked" => lease[p].dir # sweep.dir,
           there \in {"check_file", "held"} =>
               \A q \in Users : q # p /\ HoldsCarrier(q) /\ lease[q].file = lease[p].file
                                => lease[q].mode = "shared" /\ lease[p].mode = "shared"
    PROVE  EInv'
  <1> DEFINE l == [lease[p] EXCEPT !.at = there]
  <1>1. lease \in [Users -> LeaseRecord]
    BY DEF EInv, EpochOK, LeaseRecord
  <1>2. lease[p] \in LeaseRecord
    BY <1>1
  <1>3. /\ l \in LeaseRecord
        /\ l.at = there /\ l.dir = lease[p].dir /\ l.file = lease[p].file /\ l.mode = lease[p].mode
    BY <1>2, PlacesFact DEF LeaseRecord
  <1>4. lease' = [lease EXCEPT ![p] = l]
    BY DEF Goto
  <1> HIDE DEF l
  <1> QED
    BY <1>3, <1>4, OneLease

LEMMA RefuseEInv ==
    ASSUME EInv, NEW p \in Users, Refuse(p), UNCHANGED <<directory, carrier, made, sweep>>
    PROVE  EInv'
  <1>1. CASE HoldsDirectory(p)
    <2>1. Goto(p, "unlock") /\ "unlock" \notin WithDirectory /\ "unlock" \notin WithFile
      BY <1>1 DEF Refuse, WithDirectory, WithFile
    <2>2. lease[p].dir # 0 /\ (sweep.at = "locked" => lease[p].dir # sweep.dir)
      BY <1>1 DEF EInv, DirectoryOpen, SweptApart, HoldsDirectory
    <2> QED
      BY <2>1, <2>2, GotoEInv DEF Places
  <1>2. CASE ~HoldsDirectory(p)
    BY <1>2, CloseEInv DEF Refuse
  <1> QED
    BY <1>1, <1>2

-----------------------------------------------------------------------------
(* The steps                                                               *)

LEMMA AskEInv == ASSUME EInv, NEW p \in Users, NEW mode \in LockModes, Ask(p, mode) PROVE EInv'
  <1> DEFINE l == [lease[p] EXCEPT !.at = "open_dir", !.mode = mode]
  <1>1. lease \in [Users -> LeaseRecord]
    BY DEF EInv, EpochOK, LeaseRecord
  <1>2. lease[p] \in LeaseRecord /\ lease[p].dir = 0 /\ lease[p].file = 0
    BY <1>1 DEF EInv, EpochOK, Ask, At
  <1>3. l \in LeaseRecord /\ l.at = "open_dir" /\ l.dir = 0 /\ l.file = 0
    BY <1>2, PlacesFact DEF LeaseRecord, Places
  <1>4. lease' = [lease EXCEPT ![p] = l]
    BY DEF Ask
  <1> HIDE DEF l
  <1>5. l.at \notin {"lock_dir"} \cup Locking /\ l.at \notin WithDirectory /\ l.at \notin WithFile
    BY <1>3 DEF Locking, WithDirectory, WithFile
  <1> QED
    BY <1>3, <1>4, <1>5, OneLease DEF Ask

\* A name that leads nowhere is relied on by no process, and may get an object.
LEMMA OpenDirectoryEInv == ASSUME EInv, NEW p \in Users, OpenDirectory(p) PROVE EInv'
  <1> DEFINE l == [lease[p] EXCEPT !.at = "lock_dir", !.dir = directory']
  <1>1. /\ lease \in [Users -> LeaseRecord] /\ lease[p] \in LeaseRecord
        /\ directory \in Nat /\ made \in Nat
    BY MaxObjectsNat DEF EInv, EpochOK, LeaseRecord, Objects
  <1>2. directory' \in Objects /\ made' \in Objects /\ directory' # 0
    BY <1>1, MaxObjectsNat DEF OpenDirectory, EInv, EpochOK, Objects
  <1>3. l \in LeaseRecord /\ l.at = "lock_dir" /\ l.dir = directory'
    BY <1>1, <1>2, PlacesFact DEF LeaseRecord, Places
  <1>4. lease' = [lease EXCEPT ![p] = l]
    BY DEF OpenDirectory
  <1> HIDE DEF l
  <1>5. lease'[p] = l /\ \A q \in Users : q # p => lease'[q] = lease[q]
    BY <1>1, <1>4
  <1>6. l.at \notin Locking /\ l.at \notin WithDirectory /\ l.at \notin WithFile
    BY <1>3 DEF Locking, WithDirectory, WithFile
  <1>7. EpochOK'
    BY <1>1, <1>2, <1>3, <1>4, <1>5 DEF OpenDirectory, EInv, EpochOK, LeaseRecord
  <1>8. DirectoryOpen' /\ DirectoryNamed'
    <2>1. directory' = directory \/ directory = 0
      BY DEF OpenDirectory
    <2> QED
      BY <1>2, <1>3, <1>5, <1>6, <2>1 DEF EInv, DirectoryOpen, DirectoryNamed
  <1>9. CarrierNamed' /\ SweptApart'
    BY <1>5, <1>6 DEF OpenDirectory, EInv, CarrierNamed, SweptApart, HoldsDirectory
  <1>10. LocksCompatible'
    BY <1>3, <1>5 DEF EInv, LocksCompatible, HoldsCarrier
  <1> QED
    BY <1>7, <1>8, <1>9, <1>10 DEF EInv

LEMMA LockDirectoryEInv == ASSUME EInv, NEW p \in Users, LockDirectory(p) PROVE EInv'
  <1>1. CASE sweep.at # "locked" \/ sweep.dir # lease[p].dir
    <2>1. Goto(p, "check_dir") /\ lease[p].dir # 0
      BY <1>1 DEF LockDirectory, Require, At, EInv, DirectoryOpen
    <2>2. "check_dir" \notin WithDirectory /\ "check_dir" \notin WithFile
      BY DEF WithDirectory, WithFile
    <2> QED
      BY <1>1, <2>1, <2>2, GotoEInv DEF LockDirectory, Places
  <1>2. CASE ~(sweep.at # "locked" \/ sweep.dir # lease[p].dir)
    BY <1>2, RefuseEInv DEF LockDirectory, Require
  <1> QED
    BY <1>1, <1>2

\* A process is where its locks are: it holds the directory from here on.
LEMMA HoldsWhere ==
    ASSUME EInv, NEW p \in Users
    PROVE  /\ HoldsDirectory(p) => lease[p].dir # 0
           /\ HoldsDirectory(p) /\ sweep.at = "locked" => lease[p].dir # sweep.dir
           /\ At(p, "check_dir") \/ At(p, "open_file") \/ At(p, "lock_file") \/ At(p, "check_file")
              \/ At(p, "held") => HoldsDirectory(p)
           /\ At(p, "open_file") \/ At(p, "lock_file") \/ At(p, "check_file") \/ At(p, "held")
              => lease[p].dir = directory /\ directory # 0
           /\ At(p, "lock_file") \/ At(p, "check_file") \/ At(p, "held")
              => lease[p].file = carrier /\ carrier # 0
  BY DEF EInv, DirectoryOpen, SweptApart, DirectoryNamed, CarrierNamed, HoldsDirectory, At, Locking, WithDirectory,
         WithFile

LEMMA CheckDirectoryEInv == ASSUME EInv, NEW p \in Users, CheckDirectory(p) PROVE EInv'
  <1>1. CASE lease[p].dir = directory
    <2>1. Goto(p, "open_file") /\ "open_file" \notin WithFile
      BY <1>1 DEF CheckDirectory, Require, WithFile
    <2>2. HoldsDirectory(p) /\ lease[p].dir # 0
      BY HoldsWhere DEF CheckDirectory
    <2> QED
      BY <1>1, <2>1, <2>2, HoldsWhere, GotoEInv DEF CheckDirectory, Places
  <1>2. CASE lease[p].dir # directory
    BY <1>2, RefuseEInv DEF CheckDirectory, Require
  <1> QED
    BY <1>1, <1>2

\* A carrier that is made or found in the directory has the name there.
LEMMA OpenCarrierEInv == ASSUME EInv, NEW p \in Users, OpenCarrier(p) PROVE EInv'
  <1>1. CASE lease[p].dir # directory
    BY <1>1, RefuseEInv DEF OpenCarrier
  <1>2. CASE lease[p].dir = directory
    <2> DEFINE l == [lease[p] EXCEPT !.at = "lock_file", !.file = carrier']
    <2>1. /\ lease \in [Users -> LeaseRecord] /\ lease[p] \in LeaseRecord
          /\ carrier \in Nat /\ made \in Nat
      BY MaxObjectsNat DEF EInv, EpochOK, LeaseRecord, Objects
    <2>2. carrier' \in Objects /\ made' \in Objects /\ carrier' # 0 /\ (carrier' = carrier \/ carrier = 0)
      BY <1>2, <2>1, MaxObjectsNat DEF OpenCarrier, EInv, EpochOK, Objects
    <2>3. l \in LeaseRecord /\ l.at = "lock_file" /\ l.dir = lease[p].dir /\ l.file = carrier'
      BY <2>1, <2>2, PlacesFact DEF LeaseRecord, Places
    <2>4. lease' = [lease EXCEPT ![p] = l]
      BY <1>2 DEF OpenCarrier
    <2> HIDE DEF l
    <2>5. lease'[p] = l /\ \A q \in Users : q # p => lease'[q] = lease[q]
      BY <2>1, <2>4
    <2>6. HoldsDirectory(p) /\ directory # 0 /\ UNCHANGED <<directory, sweep>>
      BY HoldsWhere DEF OpenCarrier
    <2>7. EpochOK'
      BY <2>1, <2>2, <2>3, <2>4, <2>5, <2>6 DEF EInv, EpochOK, LeaseRecord
    <2>8. DirectoryOpen' /\ DirectoryNamed'
      BY <1>2, <2>3, <2>5, <2>6 DEF EInv, DirectoryOpen, DirectoryNamed
    <2>9. CarrierNamed'
      BY <2>2, <2>3, <2>5 DEF EInv, CarrierNamed
    <2>10. SweptApart'
      BY <2>3, <2>5, <2>6 DEF EInv, SweptApart, HoldsDirectory
    <2>11. LocksCompatible'
      BY <2>3, <2>5 DEF EInv, LocksCompatible, HoldsCarrier
    <2> QED
      BY <2>7, <2>8, <2>9, <2>10, <2>11 DEF EInv
  <1> QED
    BY <1>1, <1>2

LEMMA LockCarrierEInv == ASSUME EInv, NEW p \in Users, LockCarrier(p) PROVE EInv'
  <1>1. CASE \A q \in Users : ~Conflict(p, q)
    <2>1. Goto(p, "check_file")
      BY <1>1 DEF LockCarrier, Require
    <2>2. \A q \in Users : lease[q].mode \in LockModes
      BY DEF EInv, EpochOK
    <2>3. \A q \in Users : q # p /\ HoldsCarrier(q) /\ lease[q].file = lease[p].file
                           => lease[q].mode = "shared" /\ lease[p].mode = "shared"
      BY <1>1, <2>2 DEF Conflict, LockModes
    <2> QED
      BY <2>1, <2>3, HoldsWhere, GotoEInv DEF LockCarrier, Places
  <1>2. CASE ~(\A q \in Users : ~Conflict(p, q))
    BY <1>2, RefuseEInv DEF LockCarrier, Require
  <1> QED
    BY <1>1, <1>2

LEMMA CheckCarrierEInv == ASSUME EInv, NEW p \in Users, CheckCarrier(p) PROVE EInv'
  <1>1. CASE lease[p].dir = directory /\ lease[p].file = carrier
    <2>1. Goto(p, "held") /\ HoldsCarrier(p)
      BY <1>1 DEF CheckCarrier, Require, At, HoldsCarrier
    <2>2. \A q \in Users : q # p /\ HoldsCarrier(q) /\ lease[q].file = lease[p].file
                           => lease[q].mode = "shared" /\ lease[p].mode = "shared"
      BY <2>1 DEF EInv, LocksCompatible
    <2> QED
      BY <2>1, <2>2, HoldsWhere, GotoEInv DEF CheckCarrier, Places
  <1>2. CASE ~(lease[p].dir = directory /\ lease[p].file = carrier)
    BY <1>2, RefuseEInv DEF CheckCarrier, Require
  <1> QED
    BY <1>1, <1>2

LEMMA ReleaseEInv == ASSUME EInv, NEW p \in Users, ReleaseEpoch(p) PROVE EInv'
  <1>1. CASE At(p, "held")
    <2>1. Goto(p, "unlock") /\ "unlock" \notin WithDirectory /\ "unlock" \notin WithFile
      BY <1>1 DEF ReleaseEpoch, At, WithDirectory, WithFile
    <2> QED
      BY <1>1, <2>1, HoldsWhere, GotoEInv DEF ReleaseEpoch, Places
  <1>2. CASE ~At(p, "held")
    BY <1>2, CloseEInv DEF ReleaseEpoch
  <1> QED
    BY <1>1, <1>2

\* The cleaner locks no directory that is locked, and removes what is in the one
\* it has locked.
LEMMA SweepEInv == ASSUME EInv, Sweep PROVE EInv'
  <1>t. /\ directory \in Objects /\ carrier \in Objects /\ 0 \in Objects /\ sweep.dir \in Objects
        /\ sweep \in [at : {"none", "opened", "locked"}, dir : Objects]
    BY MaxObjectsNat DEF EInv, EpochOK, Objects
  <1>l. UNCHANGED <<lease, made>>
    BY DEF Sweep, SweepOpen, SweepLock, SweepCarrier, SweepDirectory, SweepClose
  <1>k. DirectoryOpen' /\ LocksCompatible'
    BY <1>l DEF EInv, DirectoryOpen, LocksCompatible, HoldsCarrier
  <1>n. ASSUME sweep.at = "locked", sweep.dir = directory
        PROVE  \A p \in Users : lease[p].at \notin WithDirectory
    BY <1>n DEF EInv, SweptApart, DirectoryNamed, HoldsDirectory, Locking
  <1>1. CASE SweepOpen
    BY <1>1, <1>t, <1>k
    DEF SweepOpen, EInv, EpochOK, DirectoryNamed, CarrierNamed, SweptApart
  <1>2. CASE SweepLock
    BY <1>2, <1>t, <1>k
    DEF SweepLock, EInv, EpochOK, DirectoryNamed, CarrierNamed, SweptApart, HoldsDirectory
  <1>3. CASE SweepCarrier
    BY <1>3, <1>t, <1>k, <1>n
    DEF SweepCarrier, EInv, EpochOK, DirectoryNamed, CarrierNamed, SweptApart, HoldsDirectory,
        WithDirectory
  <1>4. CASE SweepDirectory
    BY <1>4, <1>t, <1>k, <1>n
    DEF SweepDirectory, EInv, EpochOK, DirectoryNamed, CarrierNamed, SweptApart, HoldsDirectory
  <1>5. CASE SweepClose
    BY <1>5, <1>t, <1>k
    DEF SweepClose, EInv, EpochOK, DirectoryNamed, CarrierNamed, SweptApart
  <1> QED
    BY <1>1, <1>2, <1>3, <1>4, <1>5 DEF Sweep

LEMMA NextEInv == EInv /\ [EpochNext]_epochVars => EInv'
  <1> SUFFICES ASSUME EInv, [EpochNext]_epochVars PROVE EInv'
    OBVIOUS
  <1>1. ASSUME NEW p \in Users, NEW mode \in LockModes, Ask(p, mode) PROVE EInv'
    BY <1>1, AskEInv
  <1>2. ASSUME NEW p \in Users, AcquireEpoch(p) PROVE EInv'
    <2>1. CASE Raise(p)
      BY <2>1, RefuseEInv DEF Raise
    <2> QED
      BY <1>2, <2>1, OpenDirectoryEInv, LockDirectoryEInv, CheckDirectoryEInv, OpenCarrierEInv,
         LockCarrierEInv, CheckCarrierEInv DEF AcquireEpoch
  <1>3. ASSUME NEW p \in Users, ReleaseEpoch(p) PROVE EInv'
    BY <1>3, ReleaseEInv
  <1>4. ASSUME NEW p \in Users, Die(p) PROVE EInv'
    BY <1>4, CloseEInv DEF Die
  <1>5. CASE Sweep
    BY <1>5, SweepEInv
  <1>6. CASE UNCHANGED epochVars
    BY <1>6
    DEF epochVars, EInv, EpochOK, DirectoryOpen, DirectoryNamed, CarrierNamed, SweptApart, LocksCompatible,
        HoldsDirectory, HoldsCarrier
  <1> QED
    BY <1>1, <1>2, <1>3, <1>4, <1>5, <1>6 DEF EpochNext

LEMMA EpochInductive == EpochSpec => []EInv
  BY InitEInv, NextEInv, PTL DEF EpochSpec

\* The locks of every process are well formed, and a call that has ended has
\* nothing left open.
THEOREM EpochTypeCorrect == EpochSpec => []EpochOK
  <1>1. EInv => EpochOK
    BY DEF EInv
  <1> QED
    BY <1>1, EpochInductive, PTL

\* What a lease rests on keeps its name for as long as the lease is held.
THEOREM Named == EpochSpec => []HeldIsNamed
  <1>1. EInv => HeldIsNamed
    BY DEF EInv, DirectoryNamed, CarrierNamed, HeldIsNamed, Held, WithDirectory, WithFile
  <1> QED
    BY <1>1, EpochInductive, PTL

\* No two processes hold the target when one of them holds it exclusively.
THEOREM NoTwoHolders == EpochSpec => []Exclusive
  <1>1. EInv => Exclusive
    BY DEF EInv, CarrierNamed, LocksCompatible, Exclusive, Held, HoldsCarrier, WithFile
  <1> QED
    BY <1>1, EpochInductive, PTL

-----------------------------------------------------------------------------
(* The lease that the file operations implement                            *)

HoldsOf == [p \in Users |-> IF Held(p) THEN lease[p].mode ELSE "none"]

LEMMA RefineInit == EpochInit => Leases!LeaseInit
  BY DEF EpochInit, Leases!LeaseInit, Held, NoLease

\* A step of one process that ends no lease and begins none is not seen.
LEMMA SameLease ==
    ASSUME EInv, NEW p \in Users, ~Held(p), Goto(p, "unlock") \/ Close(p)
    PROVE  HoldsOf' = HoldsOf
  <1>1. lease \in [Users -> LeaseRecord]
    BY DEF EInv, EpochOK, LeaseRecord
  <1>2. /\ \A q \in Users : q # p => lease'[q] = lease[q]
        /\ lease'[p].at \in {"unlock", "none"}
    BY <1>1 DEF Goto, Close, NoLease, LeaseRecord
  <1> QED
    BY <1>2 DEF HoldsOf, Held

\* A lease that ends, by the first unlock or with the process.
LEMMA EndedLease ==
    ASSUME EInv, NEW p \in Users, Held(p), Goto(p, "unlock") \/ Close(p)
    PROVE  Leases!Release(p)
  <1>1. lease \in [Users -> LeaseRecord]
    BY DEF EInv, EpochOK, LeaseRecord
  <1>2. /\ \A q \in Users : q # p => lease'[q] = lease[q]
        /\ lease'[p].at \in {"unlock", "none"}
    BY <1>1 DEF Goto, Close, NoLease, LeaseRecord
  <1>3. HoldsOf' = [HoldsOf EXCEPT ![p] = "none"]
    BY <1>2 DEF HoldsOf, Held
  <1>4. HoldsOf[p] # "none"
    BY <1>1 DEF HoldsOf, Held, LeaseRecord, LockModes
  <1> QED
    BY <1>3, <1>4 DEF Leases!Release, HoldsOf

\* A lease that begins: whoever else holds one has the same carrier locked.
LEMMA BegunLease ==
    ASSUME EInv, NEW p \in Users, At(p, "check_file"), Goto(p, "held")
    PROVE  \E mode \in Leases!Modes : Leases!Acquire(p, mode)
  <1>1. lease \in [Users -> LeaseRecord]
    BY DEF EInv, EpochOK, LeaseRecord
  <1>2. /\ \A q \in Users : q # p => lease'[q] = lease[q]
        /\ lease'[p].at = "held" /\ lease'[p].mode = lease[p].mode
    BY <1>1 DEF Goto, LeaseRecord
  <1>3. HoldsOf' = [HoldsOf EXCEPT ![p] = lease[p].mode]
    BY <1>2 DEF HoldsOf, Held
  <1>4. \A q \in Users \ {p} : Held(q) => lease[p].mode = "shared" /\ lease[q].mode = "shared"
    BY DEF EInv, CarrierNamed, LocksCompatible, Held, HoldsCarrier, At, WithFile
  <1>5. Leases!Compatible(p, lease[p].mode)
    BY <1>4 DEF Leases!Compatible, Held
  <1>6. HoldsOf[p] = "none"
    BY DEF HoldsOf, Held, At
  <1>7. lease[p].mode \in Leases!Modes
    BY <1>1 DEF LeaseRecord, LockModes, Leases!Modes
  <1> QED
    BY <1>3, <1>5, <1>6, <1>7 DEF Leases!Acquire, HoldsOf

LEMMA RefineNext == EInv /\ [EpochNext]_epochVars => [Leases!LeaseNext]_HoldsOf
  <1> SUFFICES ASSUME EInv, [EpochNext]_epochVars PROVE Leases!LeaseNext \/ HoldsOf' = HoldsOf
    OBVIOUS
  <1>t. lease \in [Users -> LeaseRecord]
    BY DEF EInv, EpochOK, LeaseRecord
  <1>r. ASSUME NEW p \in Users, Refuse(p), ~Held(p) PROVE HoldsOf' = HoldsOf
    BY <1>r, SameLease DEF Refuse
  <1>g. ASSUME NEW p \in Users, ~Held(p), lease'[p].at # "held",
               \A q \in Users : q # p => lease'[q] = lease[q]
        PROVE  HoldsOf' = HoldsOf
    BY <1>g DEF HoldsOf, Held
  <1>1. ASSUME NEW p \in Users, NEW mode \in LockModes, Ask(p, mode) PROVE HoldsOf' = HoldsOf
    BY <1>1, <1>t, <1>g DEF Ask, At, Held, LeaseRecord
  <1>2. ASSUME NEW p \in Users, AcquireEpoch(p), ~CheckCarrier(p) PROVE HoldsOf' = HoldsOf
    <2>1. ~Held(p)
      BY <1>2 DEF AcquireEpoch, Held, At, OpenDirectory, LockDirectory, CheckDirectory, OpenCarrier,
                  LockCarrier, Raise
    <2>2. CASE Refuse(p)
      BY <2>1, <2>2, <1>r
    <2>3. CASE ~Refuse(p)
      <3>1. \A q \in Users : q # p => lease'[q] = lease[q]
        BY <1>2, <1>t, <2>3 DEF AcquireEpoch, Require, Goto, OpenDirectory, LockDirectory, CheckDirectory,
                                OpenCarrier, LockCarrier, Raise
      <3>2. lease'[p].at # "held"
        BY <1>2, <1>t, <2>3 DEF AcquireEpoch, Require, Goto, OpenDirectory, LockDirectory, CheckDirectory,
                                OpenCarrier, LockCarrier, Raise, LeaseRecord
      <3> QED
        BY <2>1, <3>1, <3>2, <1>g
    <2> QED
      BY <2>2, <2>3
  <1>3. ASSUME NEW p \in Users, CheckCarrier(p) PROVE Leases!LeaseNext \/ HoldsOf' = HoldsOf
    <2>1. CASE Goto(p, "held")
      BY <1>3, <2>1, BegunLease DEF CheckCarrier, Leases!LeaseNext
    <2>2. CASE Refuse(p)
      BY <1>3, <2>2, <1>r DEF CheckCarrier, At, Held
    <2> QED
      BY <1>3, <2>1, <2>2 DEF CheckCarrier, Require
  <1>4. ASSUME NEW p \in Users, ReleaseEpoch(p) \/ Die(p) PROVE Leases!LeaseNext \/ HoldsOf' = HoldsOf
    <2>1. Goto(p, "unlock") \/ Close(p)
      BY <1>4 DEF ReleaseEpoch, Die
    <2> QED
      BY <2>1, SameLease, EndedLease DEF Leases!LeaseNext
  <1>5. CASE Sweep \/ UNCHANGED epochVars
    <2>1. UNCHANGED lease
      BY <1>5 DEF Sweep, SweepOpen, SweepLock, SweepCarrier, SweepDirectory, SweepClose, epochVars
    <2> QED
      BY <2>1 DEF HoldsOf, Held
  <1> QED
    BY <1>1, <1>2, <1>3, <1>4, <1>5 DEF EpochNext

\* The file operations of acquire and release implement the lease on which the
\* calls of TargetPack rely.
THEOREM EpochRefinement == EpochSpec => FollowsLease
  <1>1. EInv /\ [EpochNext]_epochVars => [Leases!LeaseNext]_HoldsOf
    BY RefineNext
  <1> QED
    BY <1>1, RefineInit, EpochInductive, PTL DEF EpochSpec, FollowsLease, Leases!LeaseSpec, HoldsOf

-----------------------------------------------------------------------------
(* The apply.                                                              *)

\* What a call has read, as long as no owner edits behind its back.
Known(p) ==
    /\ job[p].at \in {"inspect", "observe", "write"} => job[p].receipt = receipt
    /\ job[p].at \in {"observe", "write"} => job[p].absent = (profile = Absent)
    /\ job[p].at = "write" => /\ Plannable(receipt, profile)
                              /\ plan[p] = PlanFor(receipt, profile, plan[p].accepted)
                              /\ Accepted(plan[p])
    /\ job[p].at = "record" => /\ Accepted(plan[p]) /\ plan[p].expected # <<>>
                               /\ plan[p].expected[1] = profile
                               /\ receipt = IF plan[p].action = "noop" THEN plan[p].expected
                                            ELSE Tail(plan[p].expected)
    /\ job[p].at = "done" => /\ Accepted(plan[p]) /\ receipt = plan[p].expected
                             /\ receipt # <<>> /\ receipt[1] = profile

\* The holder of the lease is alone, and every edit it raced with is remembered.
Alone == \A p, q \in Procs : p # q => job[p].at \notin Leased \/ job[q].at \notin Leased
IInv ==
    /\ TypeOK /\ Alone /\ Described
    /\ raced => edited
    /\ \A p \in Procs : raced \/ Known(p)

Contained == {Seed} \cup Profiles
Job == [at : Steps, receipt : Receipts, absent : BOOLEAN]

LEMMA NoJobType == NoJob \in Job /\ NoJob.at = "none" /\ NoPlan \in Plans
  BY DEF NoJob, Job, Steps, NoPlan, Plans, Receipts

LEMMA LeasedFact ==
    /\ \A at \in {"load", "inspect", "observe", "write", "record", "done"} : at \in Leased
    /\ "none" \notin Leased /\ "preview" \notin Leased
    /\ Leased \subseteq Steps
  BY DEF Leased, Steps

\* The receipt that tells of one more profile.
LEMMA Extended ==
    ASSUME NEW r \in Receipts, NEW c \in Contained
    PROVE  /\ <<c>> \o r \in Receipts /\ <<c>> \o r # <<>>
           /\ (<<c>> \o r)[1] = c /\ Tail(<<c>> \o r) = r
  <1>1. r \in Seq(Contained)
    BY DEF Receipts, Contained
  <1>2. <<c>> \o r \in Seq(Contained) /\ Len(<<c>> \o r) = Len(r) + 1 /\ (<<c>> \o r)[1] = c
    BY <1>1
  <1>3. Tail(<<c>> \o r) = r
    BY <1>1
  <1> QED
    BY <1>2, <1>3 DEF Receipts, Contained

LEMMA PlanFacts ==
    ASSUME NEW r \in Receipts, NEW c \in File, NEW a \in BOOLEAN
    PROVE  LET o == PlanFor(r, c, a)
               kept == IF c = Absent THEN Seed ELSE c
           IN  /\ o \in Plans /\ o.accepted = a /\ o.expected # <<>>
               /\ Plannable(r, c) => o.expected[1] = kept
               /\ r = IF o.action = "noop" THEN o.expected ELSE Tail(o.expected)
  <1> DEFINE kept == IF c = Absent THEN Seed ELSE c
             e == <<kept>> \o r
  <1>1. kept \in Contained
    BY DEF File, Contained
  <1>2. e \in Receipts /\ e # <<>> /\ e[1] = kept /\ Tail(e) = r
    BY <1>1, Extended
  <1>3. ActionFor(r, c) = "noop" => r # <<>> /\ r[1] = kept
    BY DEF ActionFor
  <1>4. ActionFor(r, c) \in {"write", "reconcile", "noop"}
    BY DEF ActionFor
  <1>5. PlanFor(r, c, a) = [action |-> ActionFor(r, c), installed |-> r # <<>>, accepted |-> a,
                            expected |-> IF ActionFor(r, c) = "noop" THEN r ELSE e]
    BY DEF PlanFor
  <1> HIDE DEF kept, e
  <1>6. PlanFor(r, c, a) \in Plans
    BY <1>2, <1>4, <1>5 DEF Plans
  <1> QED
    BY <1>2, <1>3, <1>5, <1>6 DEF kept

LEMMA InitIInv == Init => IInv
  <1> SUFFICES ASSUME Init PROVE IInv
    OBVIOUS
  <1>1. <<>> \in Receipts
    BY DEF Receipts
  <1>2. TypeOK
    <2>1. holds = [p \in Procs |-> IF job[p].at \in Leased THEN "exclusive" ELSE "none"]
      <3>1. \A p \in Procs : job[p].at \notin Leased
        BY NoJobType, LeasedFact DEF Init
      <3> QED
        BY <3>1 DEF Init, LeaseInit
    <2>2. job \in [Procs -> Job] /\ plan \in [Procs -> Plans]
      BY NoJobType DEF Init
    <2>3. profile \in File /\ receipt \in Receipts /\ edits \in 0..MaxEdits
      BY <1>1, MaxEditsNat DEF Init, File
    <2> QED
      BY <2>1, <2>2, <2>3 DEF Init, TypeOK, Job
  <1>3. Alone /\ Described /\ \A p \in Procs : Known(p)
    BY NoJobType, LeasedFact DEF Init, Alone, Described, Known
  <1> QED
    BY <1>2, <1>3 DEF Init, IInv

-----------------------------------------------------------------------------
(* Steps of one process                                                    *)

LEMMA OneJob ==
    ASSUME IInv, NEW p \in Procs, NEW l \in Job,
           job' = [job EXCEPT ![p] = l],
           holds' = [holds EXCEPT ![p] = IF l.at \in Leased THEN "exclusive" ELSE "none"],
           l.at \in Leased \/ UNCHANGED <<profile, receipt, raced>>,
           l.at \in Leased => \A q \in Procs : q # p => job[q].at \notin Leased,
           profile' \in File, receipt' \in Receipts,
           plan' \in [Procs -> Plans], \A q \in Procs : q # p => plan'[q] = plan[q],
           edits' = edits, raced' \in BOOLEAN, edited' \in BOOLEAN,
           Described', raced' => edited', raced' \/ Known(p)'
    PROVE  IInv'
  <1>1. /\ job \in [Procs -> Job]
        /\ holds = [q \in Procs |-> IF job[q].at \in Leased THEN "exclusive" ELSE "none"]
    BY DEF IInv, TypeOK, Job
  <1>2. job'[p] = l /\ \A q \in Procs : q # p => job'[q] = job[q]
    BY <1>1
  <1>3. holds' = [q \in Procs |-> IF job'[q].at \in Leased THEN "exclusive" ELSE "none"]
    BY <1>1, <1>2
  <1>4. job' \in [Procs -> Job]
    BY <1>1
  <1>5. TypeOK'
    BY <1>3, <1>4 DEF IInv, TypeOK, Job
  <1>6. Alone'
    BY <1>2 DEF IInv, Alone
  <1>7. ASSUME NEW q \in Procs, q # p PROVE raced' \/ Known(q)'
    <2>1. CASE job[q].at \in Leased
      <3>1. UNCHANGED <<profile, receipt, raced>> /\ plan'[q] = plan[q] /\ job'[q] = job[q]
        BY <1>2, <1>7, <2>1
      <3> QED
        BY <3>1 DEF IInv, Known
    <2>2. CASE job[q].at \notin Leased
      BY <1>2, <1>7, <2>2, LeasedFact DEF Known
    <2> QED
      BY <2>1, <2>2
  <1> QED
    BY <1>5, <1>6, <1>7 DEF IInv

\* A call goes on, under the lease it has.
LEMMA GoOnJob ==
    ASSUME IInv, NEW p \in Procs, NEW l \in Job, job[p].at \in Leased, l.at \in Leased,
           job' = [job EXCEPT ![p] = l], UNCHANGED holds
    PROVE  /\ holds' = [holds EXCEPT ![p] = IF l.at \in Leased THEN "exclusive" ELSE "none"]
           /\ \A q \in Procs : q # p => job[q].at \notin Leased
  BY DEF IInv, TypeOK, Alone

LEMMA EndIInv ==
    ASSUME IInv, NEW p \in Procs, End(p), UNCHANGED <<fileVars, plan, historyVars>>,
           IF job[p].at \in Leased THEN Release(p) ELSE UNCHANGED holds
    PROVE  IInv'
  <1>1. holds' = [holds EXCEPT ![p] = "none"]
    BY DEF IInv, TypeOK, Release
  <1>2. job' = [job EXCEPT ![p] = NoJob] /\ job'[p] = NoJob
    BY DEF End, IInv, TypeOK
  <1>3. Known(p)'
    BY <1>2, NoJobType DEF Known
  <1>4. NoJob.at \notin Leased
    BY NoJobType, LeasedFact
  <1>5. Described' /\ (raced' => edited') /\ UNCHANGED <<profile, receipt, raced, edits, edited, plan>>
    BY DEF IInv, Described, fileVars, historyVars
  <1>6. /\ profile' \in File /\ receipt' \in Receipts /\ plan' \in [Procs -> Plans]
        /\ raced' \in BOOLEAN /\ edited' \in BOOLEAN
    BY <1>5 DEF IInv, TypeOK
  <1> QED
    BY <1>1, <1>2, <1>3, <1>4, <1>5, <1>6, NoJobType, OneJob

LEMMA PreviewIInv ==
    ASSUME IInv, NEW p \in Procs, PreviewReceipt(p) \/ PreviewProfile(p)
    PROVE  IInv'
  <1>t. job \in [Procs -> Job] /\ job[p] \in Job
    BY DEF IInv, TypeOK, Job
  <1>u. /\ UNCHANGED <<profile, receipt, raced, edits, edited, holds>>
        /\ Described' /\ (raced' => edited')
        /\ profile' \in File /\ receipt' \in Receipts /\ raced' \in BOOLEAN /\ edited' \in BOOLEAN
    BY DEF PreviewReceipt, PreviewProfile, IInv, TypeOK, Described, fileVars, historyVars
  <1>h. job[p].at \notin Leased /\ holds' = [holds EXCEPT ![p] = "none"]
    BY <1>u, LeasedFact DEF PreviewReceipt, PreviewProfile, IInv, TypeOK
  <1>1. CASE PreviewReceipt(p)
    <2> DEFINE l == [job[p] EXCEPT !.at = "preview", !.receipt = receipt]
    <2>1. l \in Job /\ l.at = "preview"
      BY <1>t DEF Job, Steps, IInv, TypeOK
    <2>2. job' = [job EXCEPT ![p] = l]
      BY <1>1 DEF PreviewReceipt
    <2> HIDE DEF l
    <2>3. Known(p)'
      BY <1>t, <2>1, <2>2 DEF Known
    <2>4. plan' \in [Procs -> Plans] /\ plan' = plan
      BY <1>1 DEF PreviewReceipt, IInv, TypeOK
    <2> QED
      BY <1>u, <1>h, <2>1, <2>2, <2>3, <2>4, LeasedFact, OneJob
  <1>2. CASE PreviewProfile(p)
    <2>1. job' = [job EXCEPT ![p] = NoJob] /\ job'[p] = NoJob
      BY <1>2, <1>t DEF PreviewProfile
    <2>2. Known(p)'
      BY <2>1, NoJobType DEF Known
    <2>3. \A a \in BOOLEAN : PlanFor(job[p].receipt, profile, a) \in Plans
      BY <1>t, PlanFacts DEF Job, IInv, TypeOK
    <2>4. plan' \in [Procs -> Plans] /\ \A q \in Procs : q # p => plan'[q] = plan[q]
      BY <1>2, <2>3 DEF PreviewProfile, IInv, TypeOK
    <2> QED
      BY <1>u, <1>h, <2>1, <2>2, <2>4, NoJobType, LeasedFact, OneJob
  <1> QED
    BY <1>1, <1>2

LEMMA StartIInv == ASSUME IInv, NEW p \in Procs, Start(p) PROVE IInv'
  <1> DEFINE l == [job[p] EXCEPT !.at = "load"]
  <1>1. job \in [Procs -> Job] /\ job[p] \in Job
    BY DEF IInv, TypeOK, Job
  <1>2. l \in Job /\ l.at = "load"
    BY <1>1 DEF Job, Steps
  <1>3. job' = [job EXCEPT ![p] = l]
    BY DEF Start, GoOn
  <1> HIDE DEF l
  <1>4. Known(p)'
    BY <1>1, <1>2, <1>3 DEF Known
  <1>5. \A q \in Procs : q # p => job[q].at \notin Leased
    BY DEF Start, Acquire, Compatible, IInv, TypeOK
  <1>6. /\ profile' \in File /\ receipt' \in Receipts /\ plan' = plan /\ plan' \in [Procs -> Plans]
        /\ edits' = edits /\ raced' = FALSE /\ edited' \in BOOLEAN /\ Described'
    BY DEF Start, IInv, TypeOK, Described, fileVars
  <1>7. holds' = [holds EXCEPT ![p] = IF l.at \in Leased THEN "exclusive" ELSE "none"]
    BY <1>2, LeasedFact DEF Start, Acquire
  <1> QED
    BY <1>2, <1>3, <1>4, <1>5, <1>6, <1>7, LeasedFact, OneJob

\* The steps that only read.
LEMMA ReadIInv == ASSUME IInv, NEW p \in Procs, LoadReceipt(p) \/ Inspect(p) PROVE IInv'
  <1>1. job \in [Procs -> Job] /\ job[p] \in Job
    BY DEF IInv, TypeOK, Job
  <1>2. PICK l \in Job :
            /\ job' = [job EXCEPT ![p] = l]
            /\ \/ job[p].at = "load" /\ l.at = "inspect" /\ l.receipt = receipt
               \/ /\ job[p].at = "inspect" /\ l.at = "observe" /\ l.receipt = job[p].receipt
                  /\ l.absent = (profile = Absent)
    <2>1. CASE LoadReceipt(p)
      <3> DEFINE l == [job[p] EXCEPT !.at = "inspect", !.receipt = receipt]
      <3>1. l \in Job /\ l.at = "inspect" /\ l.receipt = receipt
        BY <1>1 DEF Job, Steps, IInv, TypeOK
      <3>2. job' = [job EXCEPT ![p] = l] /\ job[p].at = "load"
        BY <2>1 DEF LoadReceipt
      <3> QED
        BY <3>1, <3>2
    <2>2. CASE Inspect(p)
      <3> DEFINE l == [job[p] EXCEPT !.at = "observe", !.absent = (profile = Absent)]
      <3>1. l \in Job /\ l.at = "observe" /\ l.receipt = job[p].receipt /\ l.absent = (profile = Absent)
        BY <1>1 DEF Job, Steps
      <3>2. job' = [job EXCEPT ![p] = l] /\ job[p].at = "inspect"
        BY <2>2 DEF Inspect
      <3> QED
        BY <3>1, <3>2
    <2> QED
      BY <2>1, <2>2
  <1>3. /\ UNCHANGED <<profile, receipt, raced, edits, edited, holds, plan>>
        /\ Described' /\ (raced' => edited')
        /\ profile' \in File /\ receipt' \in Receipts /\ raced' \in BOOLEAN /\ edited' \in BOOLEAN
        /\ plan' \in [Procs -> Plans]
    BY DEF LoadReceipt, Inspect, IInv, TypeOK, Described, fileVars, historyVars
  <1>4. raced' \/ Known(p)'
    <2>1. job'[p] = l
      BY <1>1, <1>2
    <2> QED
      BY <1>2, <1>3, <2>1 DEF IInv, Known
  <1>5. job[p].at \in Leased /\ l.at \in Leased
    BY <1>2, LeasedFact
  <1> QED
    BY <1>2, <1>3, <1>4, <1>5, GoOnJob, OneJob

LEMMA DecideIInv == ASSUME IInv, NEW p \in Procs, Decide(p) PROVE IInv'
  <1>1. CASE Authorized(p)
    <2> DEFINE l == [job[p] EXCEPT !.at = "write"]
    <2>1. job \in [Procs -> Job] /\ job[p] \in Job
      BY DEF IInv, TypeOK, Job
    <2>2. l \in Job /\ l.at = "write" /\ l.receipt = job[p].receipt /\ l.absent = job[p].absent
      BY <2>1 DEF Job, Steps
    <2>3. job' = [job EXCEPT ![p] = l] /\ UNCHANGED holds /\ job[p].at = "observe"
      BY <1>1 DEF Decide, GoOn
    <2> HIDE DEF l
    <2>4. /\ UNCHANGED <<profile, receipt, raced, edits, edited, plan>>
          /\ Described' /\ (raced' => edited')
          /\ profile' \in File /\ receipt' \in Receipts /\ raced' \in BOOLEAN /\ edited' \in BOOLEAN
          /\ plan' \in [Procs -> Plans]
      BY DEF Decide, IInv, TypeOK, Described, fileVars, historyVars
    <2>5. raced' \/ Known(p)'
      <3>1. job'[p] = l
        BY <2>1, <2>3
      <3> QED
        BY <1>1, <2>2, <2>3, <2>4, <3>1 DEF IInv, Known, Authorized, Plannable, Accepted
    <2>6. job[p].at \in Leased /\ l.at \in Leased
      BY <2>2, <2>3, LeasedFact
    <2> QED
      BY <2>2, <2>3, <2>4, <2>5, <2>6, GoOnJob, OneJob
  <1>2. CASE ~Authorized(p)
    BY <1>2, LeasedFact, EndIInv DEF Decide
  <1> QED
    BY <1>1, <1>2

\* Where nobody edits, what is written is the profile that the plan told of.
LEMMA WriteIInv == ASSUME IInv, NEW p \in Procs, Write(p) PROVE IInv'
  <1> DEFINE l == [job[p] EXCEPT !.at = "record"]
  <1>1. job \in [Procs -> Job] /\ job[p] \in Job /\ plan[p] \in Plans
    BY DEF IInv, TypeOK, Job
  <1>2. l \in Job /\ l.at = "record"
    BY <1>1 DEF Job, Steps
  <1>3. job' = [job EXCEPT ![p] = l] /\ UNCHANGED holds /\ job[p].at = "write"
    BY DEF Write, GoOn
  <1> HIDE DEF l
  <1>4. /\ UNCHANGED <<receipt, raced, edits, edited, plan>>
        /\ receipt' \in Receipts /\ raced' \in BOOLEAN /\ edited' \in BOOLEAN
        /\ plan' \in [Procs -> Plans] /\ (raced' => edited')
    BY DEF Write, IInv, TypeOK, historyVars
  <1>5. profile \in File /\ profile' \in File /\ profile' = IF job[p].absent THEN Seed ELSE profile
    BY DEF Write, IInv, TypeOK, File
  <1>6. ASSUME ~raced
        PROVE  /\ Plannable(receipt, profile) /\ Accepted(plan[p])
               /\ plan[p] = PlanFor(receipt, profile, plan[p].accepted)
               /\ job[p].absent = (profile = Absent)
    BY <1>3, <1>6 DEF IInv, Known
  <1>7. raced' \/ Known(p)'
    <2> SUFFICES ASSUME ~raced PROVE Known(p)'
      BY <1>4
    <2>1. job'[p] = l
      BY <1>1, <1>3
    <2>2. profile' = IF profile = Absent THEN Seed ELSE profile
      BY <1>5, <1>6
    <2>3. plan[p].accepted \in BOOLEAN /\ receipt \in Receipts
      BY <1>1 DEF Plans, IInv, TypeOK
    <2>4. /\ plan[p].expected # <<>> /\ plan[p].expected[1] = profile'
          /\ receipt = IF plan[p].action = "noop" THEN plan[p].expected ELSE Tail(plan[p].expected)
      BY <1>5, <1>6, <2>2, <2>3, PlanFacts
    <2> QED
      BY <1>2, <1>4, <1>6, <2>1, <2>4 DEF Known, Accepted
  <1>8. Described'
    <2>1. CASE edited
      BY <1>4, <2>1 DEF Described
    <2>2. CASE ~edited
      <3>1. ~raced
        BY <2>2 DEF IInv
      <3>2. profile' # profile => receipt = <<>>
        BY <1>5, <1>6, <3>1 DEF Plannable
      <3> QED
        BY <1>4, <3>2 DEF IInv, Described
    <2> QED
      BY <2>1, <2>2
  <1>9. job[p].at \in Leased /\ l.at \in Leased
    BY <1>2, <1>3, LeasedFact
  <1> QED
    BY <1>2, <1>3, <1>4, <1>5, <1>7, <1>8, <1>9, GoOnJob, OneJob

LEMMA RecordIInv == ASSUME IInv, NEW p \in Procs, Record(p) PROVE IInv'
  <1> DEFINE l == [job[p] EXCEPT !.at = "done"]
  <1>1. job \in [Procs -> Job] /\ job[p] \in Job /\ plan[p] \in Plans
    BY DEF IInv, TypeOK, Job
  <1>2. l \in Job /\ l.at = "done"
    BY <1>1 DEF Job, Steps
  <1>3. job' = [job EXCEPT ![p] = l] /\ UNCHANGED holds /\ job[p].at = "record"
    BY DEF Record, GoOn
  <1> HIDE DEF l
  <1>4. /\ UNCHANGED <<profile, raced, edits, plan>> /\ edited' = (edited /\ raced)
        /\ profile' \in File /\ raced' \in BOOLEAN /\ edited' \in BOOLEAN
        /\ plan' \in [Procs -> Plans] /\ (raced' => edited')
    BY DEF Record, IInv, TypeOK
  <1>5. receipt' \in Receipts
    BY <1>1 DEF Record, IInv, TypeOK, Plans
  <1>6. ASSUME ~raced
        PROVE  /\ Accepted(plan[p]) /\ receipt' = plan[p].expected
               /\ plan[p].expected # <<>> /\ plan[p].expected[1] = profile
    BY <1>3, <1>6 DEF IInv, Known, Record
  <1>7. raced' \/ Known(p)'
    <2>1. job'[p] = l
      BY <1>1, <1>3
    <2> QED
      BY <1>2, <1>4, <1>6, <2>1 DEF Known, Accepted
  <1>8. Described'
    <2>1. raced => edited'
      BY <1>4 DEF IInv
    <2> QED
      BY <1>4, <1>6, <2>1 DEF Described
  <1>9. job[p].at \in Leased /\ l.at \in Leased
    BY <1>2, <1>3, LeasedFact
  <1> QED
    BY <1>2, <1>3, <1>4, <1>5, <1>7, <1>8, <1>9, GoOnJob, OneJob

LEMMA EditIInv == ASSUME IInv, Edit PROVE IInv'
  <1>1. profile' \in File /\ receipt' \in Receipts
    <2>1. receipt \in Seq(Contained) /\ profile \in File
      BY DEF IInv, TypeOK, Receipts, Contained
    <2>2. receipt # <<>> => Tail(receipt) \in Seq(Contained)
      BY <2>1
    <2>3. <<>> \in Seq(Contained)
      OBVIOUS
    <2> QED
      BY <2>1, <2>2, <2>3 DEF Edit, File, Receipts, Contained
  <1>2. edits' \in 0..MaxEdits
    BY MaxEditsNat DEF Edit, IInv, TypeOK
  <1>3. TypeOK'
    BY <1>1, <1>2 DEF Edit, IInv, TypeOK
  <1> QED
    BY <1>3 DEF Edit, IInv, Alone, Described

LEMMA NextIInv == IInv /\ [Next]_vars => IInv'
  <1> SUFFICES ASSUME IInv, [Next]_vars PROVE IInv'
    OBVIOUS
  <1>1. ASSUME NEW p \in Procs, Finish(p) PROVE IInv'
    BY <1>1, EndIInv, LeasedFact DEF Finish
  <1>2. ASSUME NEW p \in Procs, Stop(p) PROVE IInv'
    BY <1>2, EndIInv DEF Stop
  <1>3. CASE UNCHANGED vars
    BY <1>3 DEF vars, fileVars, historyVars, IInv, TypeOK, Alone, Described, Known
  <1> QED
    BY <1>1, <1>2, <1>3, PreviewIInv, StartIInv, ReadIInv, DecideIInv, WriteIInv, RecordIInv, EditIInv
    DEF Next

LEMMA Inductive == Spec => []IInv
  BY InitIInv, NextIInv, PTL DEF Spec

\* Calls, plans and files are well formed, and a call holds the target from its
\* first read to its answer, for any processes, profiles and number of edits.
THEOREM TypeCorrect == Spec => []TypeOK
  <1>1. IInv => TypeOK
    BY DEF IInv
  <1> QED
    BY <1>1, Inductive, PTL

\* If no owner has touched the files since, the receipt tells what the profile is.
THEOREM Describes == Spec => []Described
  <1>1. IInv => Described
    BY DEF IInv
  <1> QED
    BY <1>1, Inductive, PTL

\* A call that ends well leaves the target as its caller approved it.
THEOREM AnswersAreTrue == Spec => []AnswersTrue
  <1>1. IInv => AnswersTrue
    BY DEF IInv, Known, AnswersTrue, Accepted
  <1> QED
    BY <1>1, Inductive, PTL

\* Only its owner changes a profile that is there.
THEOREM Untouched == Spec => NeverOverwritten
  <1>1. IInv /\ [Next]_vars => [profile' # profile => ByOwner \/ raced \/ profile = Absent]_vars
    <2> SUFFICES ASSUME IInv, Next, profile' # profile, ~raced
                 PROVE  ByOwner \/ profile = Absent
      OBVIOUS
    <2>1. CASE Edit
      BY <2>1 DEF Edit, ByOwner, IInv, TypeOK
    <2>2. ASSUME NEW p \in Procs, Write(p) PROVE profile = Absent
      BY <2>2 DEF Write, IInv, Known
    <2> QED
      BY <2>1, <2>2 DEF Next, PreviewReceipt, PreviewProfile, Start, LoadReceipt, Inspect, Decide,
                        Record, Finish, Stop, fileVars
  <1> QED
    BY <1>1, Inductive, PTL DEF Spec, NeverOverwritten

\* A new receipt names the one it replaces.
THEOREM Lineage == Spec => LineageKept
  <1>1. IInv /\ [Next]_vars => [receipt' # receipt => ByOwner \/ raced \/ Tail(receipt') = receipt]_vars
    <2> SUFFICES ASSUME IInv, Next, receipt' # receipt, ~raced
                 PROVE  ByOwner \/ Tail(receipt') = receipt
      OBVIOUS
    <2>1. CASE Edit
      BY <2>1 DEF Edit, ByOwner, IInv, TypeOK
    <2>2. ASSUME NEW p \in Procs, Record(p) PROVE Tail(receipt') = receipt
      BY <2>2 DEF Record, IInv, Known
    <2> QED
      BY <2>1, <2>2 DEF Next, PreviewReceipt, PreviewProfile, Start, LoadReceipt, Inspect, Decide,
                        Write, Finish, Stop, fileVars
  <1> QED
    BY <1>1, Inductive, PTL DEF Spec, LineageKept

-----------------------------------------------------------------------------
(* The calls and their lease *)

\* A call takes the lease once, before its first read, and gives it back when it ends,
\* however it ends: calls of init use the lease of TargetPackEpoch in no other way than
\* TargetPackLease, which the epoch implements, has it.
THEOREM LeaseFollowed == Spec => LeaseSpec
  <1>1. Init => LeaseInit
    BY DEF Init
  <1>2. [Next]_vars => [LeaseNext]_holds
    <2> SUFFICES ASSUME Next PROVE [LeaseNext]_holds
      BY DEF vars
    <2>1. ASSUME NEW p \in Procs, Start(p) PROVE LeaseNext
      BY <2>1 DEF Start, LeaseNext, Modes
    <2>2. ASSUME NEW p \in Procs, Decide(p) \/ Finish(p) \/ Stop(p) PROVE [LeaseNext]_holds
      BY <2>2 DEF Decide, Finish, Stop, LeaseNext
    <2>3. ASSUME NEW p \in Procs, \/ PreviewReceipt(p) \/ PreviewProfile(p) \/ LoadReceipt(p)
                                  \/ Inspect(p) \/ Write(p) \/ Record(p)
          PROVE  UNCHANGED holds
      BY <2>3 DEF PreviewReceipt, PreviewProfile, LoadReceipt, Inspect, Write, Record
    <2>4. Edit => UNCHANGED holds
      BY DEF Edit
    <2> QED
      BY <2>1, <2>2, <2>3, <2>4 DEF Next
  <1> QED
    BY <1>1, <1>2, PTL DEF Spec, LeaseSpec

\* Two calls of init are never under way on one target between their first read and
\* their answer, so what one has read no other call changes.
Overlap(p, q) == p # q /\ job[p].at \in Leased /\ job[q].at \in Leased
THEOREM OneCall == Spec => [](\A p, q \in Procs : ~Overlap(p, q))
  <1>1. IInv => \A p, q \in Procs : ~Overlap(p, q)
    BY DEF IInv, Alone, Overlap
  <1> QED
    BY <1>1, Inductive, PTL
=============================================================================
