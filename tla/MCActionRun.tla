---------------------------- MODULE MCActionRun ----------------------------
(* Instances of the approval and run endpoints for TLC. *)
EXTENDS ActionRun

CONSTANTS a1, a2, r1, r2

\* Everything fails, with and without a required audit log; the same on a disk that
\* keeps parts of writes; parts of snapshots only; no write fails.
AllModes == {{"required", "audit", "stores", "actions"}, {"audit", "stores", "actions"},
             {"required", "audit", "stores", "actions", "parts"},
             {"audit", "stores", "actions", "parts"},
             {"required", "stores", "parts"}, {"required"}}

\* Two approvals where snapshots are lost or nothing is, one where all may fail; and
\* two runs but where the log is not required and keeps parts, or two approvals.
AllUsed(m) ==
    CASE m = {"required", "stores", "parts"} -> {a1, a2, r1}
      [] m = {"audit", "stores", "actions", "parts"} -> {a1, r1}
      [] m = {"required"} -> {a1, a2, r1, r2}
      [] OTHER -> {a1, r1, r2}
=============================================================================
