-------------------------- MODULE TargetPackLease --------------------------
(***************************************************************************)
(* What acquire_target_pack_epoch_v2 promises the processes that read or   *)
(* write one target: any number of them hold it shared, or one exclusively.*)
(* Nobody waits for a lease: it is had at once, or the call is refused and *)
(* nothing changes.  A process that dies gives back what it held.          *)
(***************************************************************************)
CONSTANT Procs    \* the processes of one user in one mount namespace

VARIABLE holds    \* the lease each process holds

Modes == {"shared", "exclusive"}

\* Mutant: only leases of the other kind exclude each other.
CompatibleIfSame(p, mode) == \A q \in Procs \ {p} : holds[q] \in {"none", mode}

Compatible(p, mode) ==
    \A q \in Procs \ {p} :
        holds[q] # "none" => mode = "shared" /\ holds[q] = "shared"

LeaseInit == holds = [p \in Procs |-> "none"]

Acquire(p, mode) ==
    /\ holds[p] = "none" /\ Compatible(p, mode)
    /\ holds' = [holds EXCEPT ![p] = mode]

Release(p) == holds[p] # "none" /\ holds' = [holds EXCEPT ![p] = "none"]

LeaseNext == \E p \in Procs : Release(p) \/ \E mode \in Modes : Acquire(p, mode)

LeaseSpec == LeaseInit /\ [][LeaseNext]_holds
=============================================================================
