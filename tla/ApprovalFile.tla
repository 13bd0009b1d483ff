---------------------------- MODULE ApprovalFile ----------------------------
(***************************************************************************)
(* The JSONL file of app/agent_router/services/approval_store.py, reduced  *)
(* to what its readers can tell apart.                                     *)
(*                                                                         *)
(* Every transition of an approval appends a whole snapshot; a reader      *)
(* keeps the last parseable snapshot of each id and skips the lines that   *)
(* do not parse.  All the fields of a snapshot but its status are fixed    *)
(* when the approval is created, so a snapshot is its status.  The file is *)
(*   lines  the status the newline-terminated lines give each id,          *)
(*   seen   the status a reader gets (it also reads an unterminated tail), *)
(*   tail   how the file ends: "clean" after a newline, "open" after a     *)
(*          whole snapshot whose newline is missing, "torn" after a part   *)
(*          of a snapshot,                                                 *)
(*   count  how many newline-terminated lines parse; any number over the   *)
(*          limit calls for the same compaction, so MaxRecords + 1 stands  *)
(*          for all of them.                                               *)
(***************************************************************************)
EXTENDS Integers, FiniteSets

CONSTANTS Approvals,   \* the ids uuid4 may hand out
          MaxRecords   \* settings.approval_store_max_records; 0 never compacts

ASSUME ApprovalsFinite == IsFiniteSet(Approvals)
ASSUME MaxRecordsNat == MaxRecords \in Nat

Missing == "missing"   \* no snapshot of this id: latest.get(id) is None
Statuses == {"pending", "approved", "rejected", "expired"}
Decisions == {"approved", "rejected"}

\* What one call of _persist_snapshot may do to the file.  "ok" is the only
\* one that does not raise; after "unread" the snapshot is written, but the
\* read-back or the compaction that follows it raised.
Outcomes == {"ok", "none", "torn", "open", "unread"}
\* The outcomes of a disk that never keeps a part of a write.
WholeWrites == {"ok", "none", "unread"}

Files == [lines : [Approvals -> Statuses \cup {Missing}],
          seen  : [Approvals -> Statuses \cup {Missing}],
          tail  : {"clean", "open", "torn"},
          count : Nat]

EmptyFile == [lines |-> [a \in Approvals |-> Missing],
              seen  |-> [a \in Approvals |-> Missing],
              tail  |-> "clean",
              count |-> 0]

Known(f) == {a \in Approvals : f.seen[a] # Missing}

\* len(_read_all_records(path))
Records(f) == IF f.tail = "open" THEN f.count + 1 ELSE f.count

-----------------------------------------------------------------------------
OneMore(n) == IF n > MaxRecords THEN n ELSE n + 1

\* What the append leaves when every byte of it reaches the file.  On a tail
\* that is not clean the snapshot continues a line that was left unfinished,
\* the joined line does not parse, and both snapshots are gone.
Whole(f, a, s) ==
    IF f.tail = "clean"
    THEN LET l == [f.lines EXCEPT ![a] = s]
         IN  [lines |-> l, seen |-> l, tail |-> "clean", count |-> OneMore(f.count)]
    ELSE [f EXCEPT !.seen = f.lines, !.tail = "clean"]

\* What it leaves when the write stops before the newline.
Open(f, a, s) ==
    IF f.tail = "clean"
    THEN [lines |-> f.lines, seen |-> [f.lines EXCEPT ![a] = s], tail |-> "open",
          count |-> f.count]
    ELSE [f EXCEPT !.seen = f.lines, !.tail = "torn"]

\* What it leaves when the write stops inside the snapshot.
Torn(f) == [f EXCEPT !.seen = f.lines, !.tail = "torn"]

-----------------------------------------------------------------------------
\* Mutant: the snapshots are sorted oldest first.
OldestFirst(S, created) ==
    {a \in S : Cardinality({b \in S : created[b] < created[a]}) < MaxRecords}

\* Mutant: one id too few is kept.
OneTooFew(S, created) ==
    {a \in S : Cardinality({b \in S : created[b] > created[a]}) < MaxRecords - 1}

\* compact_approval_store: the MaxRecords ids created last, one line each.
Newest(S, created) ==
    {a \in S : Cardinality({b \in S : created[b] > created[a]}) < MaxRecords}

Compacted(f, created) ==
    LET kept == Newest(Known(f), created)
        l == [a \in Approvals |-> IF a \in kept THEN f.seen[a] ELSE Missing]
    IN  [lines |-> l, seen |-> l, tail |-> "clean", count |-> Cardinality(kept)]

CompactIfNeeded(f, created) ==
    IF MaxRecords > 0 /\ Records(f) > MaxRecords THEN Compacted(f, created) ELSE f

\* _persist_snapshot of a snapshot of a with status s, when the disk does o.
Persist(f, a, s, created, o) ==
    CASE o = "ok"     -> CompactIfNeeded(Whole(f, a, s), created)
      [] o = "none"   -> f
      [] o = "torn"   -> Torn(f)
      [] o = "open"   -> Open(f, a, s)
      [] o = "unread" -> Whole(f, a, s)

\* The read-back happens only when compaction is configured.
Possible(o) == o = "unread" => MaxRecords > 0
=============================================================================
