----------------------------- MODULE MCAuditLog -----------------------------
(* Instances of the audit log for TLC. *)
EXTENDS AuditLog

\* No backup, one and three; a number that changes between restarts; and the
\* same on a disk that keeps parts of writes, where the smallest number is one,
\* so that an event has a rotation to survive, or none.
MCRegimes ==
    [cuts : {FALSE}, counts : {{0}, {1}, {3}, {1, 3}}]
      \cup [cuts : {TRUE}, counts : {{1, 3}, {0, 3}}]
=============================================================================
