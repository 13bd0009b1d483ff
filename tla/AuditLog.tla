------------------------------ MODULE AuditLog ------------------------------
(***************************************************************************)
(* The audit log (app/agent_router/services/audit_log.py): one active      *)
(* JSONL file and its numbered backups, rotated by size.                   *)
(*                                                                         *)
(* A write holds _AUDIT_LOCK from the first check to the append, but it is *)
(* a sequence of operations on the file system: each of them is a step,    *)
(* and any of them may raise, or be the last one before the process dies.  *)
(* File 0 is the active file and file i its backup `.i`, so that moving    *)
(* the active file to `.1` is the last turn of the loop of renames.        *)
(***************************************************************************)
EXTENDS Integers, FiniteSets

CONSTANTS MaxBackups,     \* no setting and no file has a larger number
          BackupCounts,   \* the values that audit_log_backup_count may take
          MaxBytes,       \* settings.audit_log_max_bytes
          Rotation,       \* settings.audit_log_rotation_enabled
          Sizes,          \* the sizes of events
          MaxEvents,      \* bound: the writes of a run
          Regimes         \* the deployments to consider

ASSUME MaxBackupsNat == MaxBackups \in Nat
ASSUME BackupCountsRange == BackupCounts \subseteq 0..MaxBackups /\ BackupCounts # {}
ASSUME MaxBytesNat == MaxBytes \in Nat
ASSUME SizesPos == Sizes \subseteq Nat \ {0}
ASSUME MaxEventsNat == MaxEvents \in Nat
ASSUME Flags == Rotation \in BOOLEAN
ASSUME RegimesType == Regimes \subseteq [cuts : BOOLEAN, counts : SUBSET BackupCounts]

VARIABLES regime,   \* what this deployment is exposed to, for good
          log,      \* log[i]: the events, the bytes and the tail of file i
          keep,     \* the audit_log_backup_count of this process
          pc,       \* where write_audit_event is
          turn,     \* rotate_audit_log: the file to move next
          event,    \* the number of the event being written
          size,     \* and its size
          acked,    \* the events whose write returned True
          tries     \* for each of them, the rotations attempted since

vars == <<regime, log, keep, pc, turn, event, size, acked, tries>>

\* Whether a write that fails may leave a part of itself (a disk that is full,
\* a power failure), and the numbers of backups that the process is configured
\* with, from one start to another.
Cuts == regime.cuts
Counts == regime.counts

Numbers == 0..MaxBackups
Events == 1..MaxEvents

\* The events of a file are the ones whose line parses; torn says that its last
\* line is unfinished.
Files == [exists : BOOLEAN, events : SUBSET Events, size : Nat, torn : BOOLEAN]
NoFile == [exists |-> FALSE, events |-> {}, size |-> 0, torn |-> FALSE]
Exists(i) == log[i].exists

TypeOK ==
    /\ regime \in Regimes
    /\ log \in [Numbers -> Files]
    /\ keep \in Counts
    /\ pc \in {"idle", "retain", "rotate", "move", "enforce", "append"}
    /\ turn \in Numbers
    /\ event \in 0..MaxEvents
    /\ size \in Nat
    /\ acked \subseteq 1..event
    /\ tries \in [Events -> Nat]

Init ==
    /\ regime \in Regimes
    /\ log = [i \in Numbers |-> NoFile]
    /\ keep \in Counts
    /\ pc = "idle" /\ turn = 0
    /\ event = 0 /\ size = 0
    /\ acked = {}
    /\ tries = [e \in Events |-> 0]

-----------------------------------------------------------------------------
Rotates == Rotation /\ MaxBytes > 0

\* should_rotate_audit_log
ShouldRotate == Exists(0) /\ log[0].size + size > MaxBytes

\* write_audit_event is called with an event of s bytes.
Write(s) ==
    /\ pc = "idle" /\ event < MaxEvents
    /\ event' = event + 1 /\ size' = s
    /\ pc' = IF Rotates THEN "retain" ELSE "append"
    /\ UNCHANGED <<log, keep, turn, acked, tries>>

\* enforce_audit_retention: with a count of 0 every backup goes, otherwise
\* the backups with a larger number; one unlink a step.
Stale == {i \in Numbers \ {0} : i > keep /\ Exists(i)}

Unlink(i) ==
    /\ pc = "enforce" \/ (pc = "retain" /\ keep = 0)
    /\ i \in Stale
    /\ log' = [log EXCEPT ![i] = NoFile]
    /\ UNCHANGED <<keep, pc, turn, event, size, acked, tries>>

\* Before the append, with a count of 0 the old backups go first.
Check ==
    /\ pc = "retain" /\ (keep = 0 => Stale = {})
    /\ pc' = IF ShouldRotate THEN "rotate" ELSE "append"
    /\ UNCHANGED <<log, keep, turn, event, size, acked, tries>>

\* rotate_audit_log unlinks the oldest file it may keep (the active one when
\* it may keep no backup), ...
Rotate ==
    /\ pc = "rotate"
    /\ log' = [log EXCEPT ![keep] = NoFile]
    /\ tries' = [e \in Events |-> IF e \in acked THEN tries[e] + 1 ELSE tries[e]]
    /\ turn' = IF keep = 0 THEN 0 ELSE keep - 1
    /\ pc' = IF keep = 0 THEN "enforce" ELSE "move"
    /\ UNCHANGED <<keep, event, size, acked>>

\* Mutant: the backups are renamed from the newest to the oldest.
MoveUp ==
    /\ pc = "move"
    /\ LET i == (keep - 1) - turn
       IN  log' = IF Exists(i) THEN [log EXCEPT ![i + 1] = log[i], ![i] = NoFile] ELSE log
    /\ turn' = IF turn = 0 THEN 0 ELSE turn - 1
    /\ pc' = IF turn = 0 THEN "enforce" ELSE "move"
    /\ UNCHANGED <<keep, event, size, acked, tries>>

\* Mutant: the active file takes the first number that is free.
MoveToFree ==
    /\ pc = "move"
    /\ LET free == {i \in 1..keep : ~Exists(i)}
           to == IF free = {} THEN keep ELSE CHOOSE i \in free : \A j \in free : i <= j
       IN  log' = [log EXCEPT ![to] = log[0], ![0] = NoFile]
    /\ turn' = 0 /\ pc' = "enforce"
    /\ UNCHANGED <<keep, event, size, acked, tries>>

\* ... then renames the others, from the oldest to the active one.
Move ==
    /\ pc = "move"
    /\ log' = IF Exists(turn)
              THEN [log EXCEPT ![turn + 1] = log[turn], ![turn] = NoFile] ELSE log
    /\ turn' = IF turn = 0 THEN 0 ELSE turn - 1
    /\ pc' = IF turn = 0 THEN "enforce" ELSE "move"
    /\ UNCHANGED <<keep, event, size, acked, tries>>

Enforced ==
    /\ pc = "enforce" /\ Stale = {}
    /\ pc' = "append"
    /\ UNCHANGED <<log, keep, turn, event, size, acked, tries>>

\* The append: path.open("a") makes the file, and what is written goes to its end.
Appended(file, events, bytes, torn) ==
    /\ pc = "append"
    /\ log' = [log EXCEPT ![0] = [exists |-> TRUE, events |-> events,
                                  size |-> file.size + bytes, torn |-> torn]]
    /\ pc' = "idle"
    /\ UNCHANGED <<keep, turn, event, size, tries>>

\* Mutant: no newline is written.  The file is one line, and it parses while it
\* has one event.
AppendOneLine ==
    /\ Appended(log[0], IF log[0].torn THEN {} ELSE {event}, size, TRUE)
    /\ acked' = acked \cup {event}

\* On an unfinished line the event completes a line that does not parse; the
\* call returns True all the same.
Append ==
    /\ LET file == log[0]
       IN  Appended(file, IF file.torn THEN file.events ELSE file.events \cup {event},
                    size, FALSE)
    /\ acked' = acked \cup {event}

\* The write fails with the file made and nothing in it, ...
EmptyAppend ==
    /\ Appended(log[0], log[0].events, 0, log[0].torn)
    /\ UNCHANGED acked

\* ... or with a part of the event at its end.
TornAppend ==
    /\ Cuts
    /\ Appended(log[0], log[0].events, 1, TRUE)
    /\ UNCHANGED acked

\* An operation raises, and the call with it, or the process dies.
Raise ==
    /\ pc # "idle"
    /\ pc' = "idle"
    /\ UNCHANGED <<log, keep, turn, event, size, acked, tries>>

\* The process starts again, perhaps with another setting.
Restart(n) ==
    /\ pc = "idle" /\ n # keep
    /\ keep' = n
    /\ UNCHANGED <<log, pc, turn, event, size, acked, tries>>

Step ==
    \/ \E s \in Sizes : Write(s)
    \/ \E i \in Numbers : Unlink(i)
    \/ Check \/ Rotate \/ Move \/ Enforced \/ Append \/ EmptyAppend \/ TornAppend \/ Raise
    \/ \E n \in Counts : Restart(n)

Next == Step /\ UNCHANGED regime

Spec == Init /\ [][Next]_vars

-----------------------------------------------------------------------------
Present == UNION {log[i].events : i \in Numbers}

\* Backups are in order of age, even after a rotation that was interrupted:
\* every event of a file is newer than every event of the files after it.
BackupsOrdered ==
    \A i, j \in Numbers : i < j =>
        \A e \in log[i].events, f \in log[j].events : f < e

\* Each attempt to rotate, completed or not, ages an event by at most one
\* file.  On a disk that keeps no part of a failed write, an event that was
\* acknowledged is still there until more rotations have been attempted than
\* the smallest number of backups the process was ever configured with, also
\* when that number changes from one start to another.
Young(e) == \A n \in Counts : tries[e] <= n
SurvivesRotations == ~Cuts => \A e \in acked : Young(e) => e \in Present

\* A write that left a part of itself costs one acknowledged event at most, the
\* one written after it: on any disk an event whose predecessor was
\* acknowledged survives as many rotations.
LossConfined ==
    \A e \in acked : Young(e) /\ e - 1 \in acked \cup {0} => e \in Present

\* Rotation drops history from the old end only: while the number of backups
\* stays the same and no part of a failed write is kept, the acknowledged
\* events still present are the newest, with no hole.
Steady == ~Cuts /\ Counts = {keep}
NoHoles ==
    Steady => \A e, f \in acked : e < f /\ e \in Present => f \in Present
=============================================================================
