-------------------------- MODULE MCApprovalStore --------------------------
(* Instances of the approval store for TLC. *)
EXTENDS ApprovalStore, TLC

\* Ids are interchangeable; TLC uses this only where no property is temporal.
Symmetry == Permutations(Approvals)
=============================================================================
