-------------------------- MODULE TargetPackEpoch --------------------------
(***************************************************************************)
(* The epoch K of a target (app/agent_review/target_pack_epoch_v2.py): the *)
(* shared or exclusive flock on a carrier file in a protocol directory     *)
(* below /tmp, which the processes that read or write one target agree on. *)
(*                                                                         *)
(* Both objects may be removed by the cleaner of /tmp, so that a process   *)
(* opens one, locks it, and only then knows whether the name still leads   *)
(* to what it locked.  Each operation on the file system is a step; a lock *)
(* is never waited for.  Objects are numbered as they are made, and 0 is   *)
(* none.                                                                   *)
(***************************************************************************)
EXTENDS Integers

CONSTANTS Users,        \* the processes of one user in one mount namespace
          MaxObjects    \* bound: the directories and carriers ever made

ASSUME MaxObjectsNat == MaxObjects \in Nat

VARIABLES directory,    \* what the name of the protocol directory leads to
          carrier,      \* what <key>.lock leads to in that directory
          made,         \* the number of objects made
          lease,        \* how far each process is, and what it has open
          sweep         \* the cleaner of /tmp, and the directory it has open

epochVars == <<directory, carrier, made, lease, sweep>>

Objects == 0..MaxObjects
LockModes == {"shared", "exclusive"}
NoLease == [at |-> "none", dir |-> 0, file |-> 0, mode |-> "shared"]

\* A process is where its next operation is.  After CheckDirectory it relies on
\* the directory, and after OpenCarrier on the carrier too.
Opening == {"open_dir", "lock_dir"}
WithFile == {"lock_file", "check_file", "held"}
WithDirectory == {"open_file"} \cup WithFile
Locking == {"check_dir", "unlock"} \cup WithDirectory

\* Mutant: the protocol directory is unlocked as soon as the carrier is locked.
HoldsDirectoryBriefly(p) == lease[p].at \in Locking \ {"check_file", "held"}

HoldsDirectory(p) == lease[p].at \in Locking
HoldsCarrier(p) == lease[p].at \in {"check_file", "held"}
Held(p) == lease[p].at = "held"

\* A call that has ended, however it ended, has nothing left open.
EpochOK ==
    /\ directory \in Objects /\ carrier \in Objects /\ made \in Objects
    /\ lease \in [Users -> [at : {"none"} \cup Opening \cup Locking,
                            dir : Objects, file : Objects, mode : LockModes]]
    /\ sweep \in [at : {"none", "opened", "locked"}, dir : Objects]
    /\ \A p \in Users :
           lease[p].at \in {"none", "open_dir"} => lease[p].dir = 0 /\ lease[p].file = 0

EpochInit ==
    /\ directory = 0 /\ carrier = 0 /\ made = 0
    /\ lease = [p \in Users |-> NoLease]
    /\ sweep = [at |-> "none", dir |-> 0]

-----------------------------------------------------------------------------
(* acquire_target_pack_epoch_v2                                            *)

At(p, here) == lease[p].at = here
Goto(p, there) == lease' = [lease EXCEPT ![p].at = there]

\* What was locked is unlocked, the carrier first, and all is closed.
Close(p) == lease' = [lease EXCEPT ![p] = NoLease]

\* Mutant: a refused call leaves open what it has opened.
RefuseOnly(p) == Goto(p, "none")

Refuse(p) == IF HoldsDirectory(p) THEN Goto(p, "unlock") ELSE Close(p)
Require(p, ok, next) == IF ok THEN Goto(p, next) ELSE Refuse(p)

Ask(p, mode) ==
    /\ At(p, "none")
    /\ lease' = [lease EXCEPT ![p].at = "open_dir", ![p].mode = mode]
    /\ UNCHANGED <<directory, carrier, made, sweep>>

\* Each of the two objects is checked as soon as it is open, which can only
\* refuse what the check after the lock refuses, and Raise stands for that.
OpenDirectory(p) ==
    /\ At(p, "open_dir")
    /\ IF directory # 0 THEN UNCHANGED <<directory, made>>
       ELSE made < MaxObjects /\ made' = made + 1 /\ directory' = made'
    /\ lease' = [lease EXCEPT ![p].at = "lock_dir", ![p].dir = directory']
    /\ UNCHANGED <<carrier, sweep>>

LockDirectory(p) ==
    /\ At(p, "lock_dir")
    /\ Require(p, sweep.at # "locked" \/ sweep.dir # lease[p].dir, "check_dir")
    /\ UNCHANGED <<directory, carrier, made, sweep>>

\* _validate_protocol_directory_v2: what is locked may have lost its name.
CheckDirectory(p) ==
    /\ At(p, "check_dir") /\ Require(p, lease[p].dir = directory, "open_file")
    /\ UNCHANGED <<directory, carrier, made, sweep>>

\* O_CREAT in a directory that was removed fails.
OpenCarrier(p) ==
    /\ At(p, "open_file")
    /\ IF lease[p].dir # directory THEN Refuse(p) /\ UNCHANGED <<carrier, made>>
       ELSE /\ IF carrier # 0 THEN UNCHANGED <<carrier, made>>
               ELSE made < MaxObjects /\ made' = made + 1 /\ carrier' = made'
            /\ lease' = [lease EXCEPT ![p].at = "lock_file", ![p].file = carrier']
    /\ UNCHANGED <<directory, sweep>>

\* Mutant: every lock is shared.
ConflictNever(p, q) == FALSE

Conflict(p, q) ==
    /\ p # q /\ HoldsCarrier(q) /\ lease[q].file = lease[p].file
    /\ "exclusive" \in {lease[p].mode, lease[q].mode}
LockCarrier(p) ==
    /\ At(p, "lock_file")
    /\ Require(p, \A q \in Users : ~Conflict(p, q), "check_file")
    /\ UNCHANGED <<directory, carrier, made, sweep>>

\* _validate_carrier_v2
CheckCarrier(p) ==
    /\ At(p, "check_file")
    /\ Require(p, lease[p].dir = directory /\ lease[p].file = carrier, "held")
    /\ UNCHANGED <<directory, carrier, made, sweep>>

\* An operation raises, or the path of the target no longer leads where it did.
Raise(p) ==
    /\ lease[p].at \in (Opening \cup Locking) \ {"held", "unlock"}
    /\ Refuse(p)
    /\ UNCHANGED <<directory, carrier, made, sweep>>

AcquireEpoch(p) ==
    \/ OpenDirectory(p) \/ LockDirectory(p) \/ CheckDirectory(p)
    \/ OpenCarrier(p) \/ LockCarrier(p) \/ CheckCarrier(p) \/ Raise(p)

\* TargetPackEpochLeaseV2.release; nothing is removed.
ReleaseEpoch(p) ==
    /\ \/ At(p, "held") /\ Goto(p, "unlock")
       \/ At(p, "unlock") /\ Close(p)
    /\ UNCHANGED <<directory, carrier, made, sweep>>

\* The process dies, and the kernel closes what it had open.
Die(p) ==
    /\ ~At(p, "none") /\ Close(p)
    /\ UNCHANGED <<directory, carrier, made, sweep>>

-----------------------------------------------------------------------------
(* The cleaner of /tmp: it leaves alone a directory that is locked, and    *)
(* removes what is old enough of one that it could lock.                   *)

SweepOpen ==
    /\ sweep.at = "none" /\ directory # 0
    /\ sweep' = [at |-> "opened", dir |-> directory]
    /\ UNCHANGED <<directory, carrier, made, lease>>

SweepLock ==
    /\ sweep.at = "opened"
    /\ \A p \in Users : HoldsDirectory(p) => lease[p].dir # sweep.dir
    /\ sweep' = [sweep EXCEPT !.at = "locked"]
    /\ UNCHANGED <<directory, carrier, made, lease>>

SweepCarrier ==
    /\ sweep.at = "locked" /\ sweep.dir = directory /\ carrier # 0
    /\ carrier' = 0
    /\ UNCHANGED <<directory, made, lease, sweep>>

SweepDirectory ==
    /\ sweep.at = "locked" /\ sweep.dir = directory /\ carrier = 0
    /\ directory' = 0
    /\ UNCHANGED <<carrier, made, lease, sweep>>

SweepClose ==
    /\ sweep.at # "none"
    /\ sweep' = [at |-> "none", dir |-> 0]
    /\ UNCHANGED <<directory, carrier, made, lease>>

Sweep == SweepOpen \/ SweepLock \/ SweepCarrier \/ SweepDirectory \/ SweepClose

-----------------------------------------------------------------------------
EpochNext ==
    \/ \E p \in Users : \/ \E mode \in LockModes : Ask(p, mode)
                        \/ AcquireEpoch(p) \/ ReleaseEpoch(p) \/ Die(p)
    \/ Sweep

EpochSpec == EpochInit /\ [][EpochNext]_epochVars

-----------------------------------------------------------------------------
(* Properties                                                              *)

\* Whatever the cleaner removes in between, the objects a lease rests on are
\* still those that the names lead to: whoever asks next meets the same lock.
HeldIsNamed ==
    \A p \in Users :
        Held(p) => lease[p].dir = directory /\ lease[p].file = carrier

\* No two processes hold the target when one of them holds it exclusively.
Exclusive ==
    \A p, q \in Users :
        p # q /\ Held(p) /\ Held(q) => lease[p].mode = "shared"

\* The steps on the file system are those of the lease that TargetPack relies
\* on: a lease begins with the last check and ends with the first unlock.
Leases ==
    INSTANCE TargetPackLease
    WITH Procs <- Users,
         holds <- [p \in Users |-> IF Held(p) THEN lease[p].mode ELSE "none"]
FollowsLease == Leases!LeaseSpec

=============================================================================
