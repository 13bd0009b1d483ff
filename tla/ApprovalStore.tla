--------------------------- MODULE ApprovalStore ---------------------------
(***************************************************************************)
(* The approval store (app/agent_router/services/approval_store.py): the   *)
(* calls the endpoints make on it, each one atomic under _APPROVAL_LOCK,   *)
(* over the JSONL file of ApprovalFile.                                    *)
(***************************************************************************)
EXTENDS ApprovalFile

CONSTANTS Ttls,         \* the ttl_seconds that clients ask for
          TtlMax,       \* settings.approval_ttl_max_seconds
          HardTtlMax,   \* _MAX_TTL_SECONDS
          MaxTime,      \* bound: the clock of a run stops here
          Disk          \* the outcomes of a write that this disk can produce

ASSUME TtlsInt == Ttls \subseteq Int
ASSUME TtlMaxInt == TtlMax \in Int /\ HardTtlMax \in Int
ASSUME MaxTimeNat == MaxTime \in Nat
ASSUME DiskOutcomes == Disk \subseteq Outcomes

VARIABLES now,       \* the clock that utcnow reads
          file,      \* the approval store's file
          issued,    \* the ids uuid4 has handed out
          created,   \* created_at of each issued id
          expires,   \* expires_at of each issued id
          sweep,     \* expire_pending_approvals: the expired ids still to persist
          swept,     \* and the ones it has persisted
          answered   \* the statuses callers have been told without an error

vars == <<now, file, issued, created, expires, sweep, swept, answered>>

TypeOK ==
    /\ now \in Nat
    /\ file \in Files
    /\ issued \subseteq Approvals
    /\ created \in [Approvals -> Nat]
    /\ expires \in [Approvals -> Int]
    /\ sweep \subseteq issued
    /\ swept \subseteq issued
    /\ answered \in [Approvals -> SUBSET Statuses]

Init ==
    /\ now = 0
    /\ file = EmptyFile
    /\ issued = {}
    /\ created = [a \in Approvals |-> 0]
    /\ expires = [a \in Approvals |-> 0]
    /\ sweep = {} /\ swept = {}
    /\ answered = [a \in Approvals |-> {}]

-----------------------------------------------------------------------------
\* _validate_ttl
TtlLimit ==
    LET low == IF TtlMax < HardTtlMax THEN TtlMax ELSE HardTtlMax
    IN  IF low < 1 THEN 1 ELSE low
ValidTtl(ttl) == 0 < ttl /\ ttl <= TtlLimit

\* The negation of the code's `now <= expires_at`.
Overdue(a) == now > expires[a]

\* The store's lock is free, and no sweep is under way in this process.
Idle == sweep = {}

Answer(a, s, o) == IF o = "ok" THEN [answered EXCEPT ![a] = @ \cup {s}] ELSE answered

\* Persist the snapshot of a with status s and, unless it raises, return it.
Writes(a, s, o) ==
    /\ Possible(o)
    /\ file' = Persist(file, a, s, created, o)
    /\ answered' = Answer(a, s, o)

-----------------------------------------------------------------------------
\* create_approval.  The clock has microseconds: no two approvals share a
\* created_at, so the clock moves with each creation.
Create(a, ttl, o) ==
    /\ Idle /\ now < MaxTime
    /\ a \notin issued
    /\ ValidTtl(ttl)
    /\ now' = now + 1
    /\ issued' = issued \cup {a}
    /\ created' = [created EXCEPT ![a] = now']
    /\ expires' = [expires EXCEPT ![a] = now' + ttl]
    /\ Possible(o)
    /\ file' = Persist(file, a, "pending", created', o)
    /\ answered' = Answer(a, "pending", o)
    /\ UNCHANGED <<sweep, swept>>

\* Mutant: the expiry is not checked again when the approval is read.
ResolveEarly(a, o) ==
    /\ Idle
    /\ file.seen[a] = "pending"
    /\ Writes(a, "expired", o)
    /\ UNCHANGED <<now, issued, created, expires, sweep, swept>>

\* resolve_approval, when it finds the approval pending and overdue; on any
\* other approval it only reads.
Resolve(a, o) ==
    /\ Idle
    /\ file.seen[a] = "pending" /\ Overdue(a)
    /\ Writes(a, "expired", o)
    /\ UNCHANGED <<now, issued, created, expires, sweep, swept>>

\* Mutant: decide_approval without _apply_expiration.
DecideLate(a, d, o) ==
    /\ Idle
    /\ file.seen[a] = "pending"
    /\ Writes(a, d, o)
    /\ UNCHANGED <<now, issued, created, expires, sweep, swept>>

\* Mutant: decide_approval without the check that the approval is pending.
DecideAgain(a, d, o) ==
    /\ Idle
    /\ file.seen[a] \in {"pending", "approved", "rejected"} /\ ~Overdue(a)
    /\ Writes(a, d, o)
    /\ UNCHANGED <<now, issued, created, expires, sweep, swept>>

\* decide_approval, when _apply_expiration leaves the approval pending.
Decide(a, d, o) ==
    /\ Idle
    /\ file.seen[a] = "pending" /\ ~Overdue(a)
    /\ Writes(a, d, o)
    /\ UNCHANGED <<now, issued, created, expires, sweep, swept>>

\* decide_approval of an approval that is or now counts as expired: it is
\* persisted as expired, once more if it already was.
DecideExpired(a, o) ==
    /\ Idle
    /\ file.seen[a] = "expired" \/ (file.seen[a] = "pending" /\ Overdue(a))
    /\ Writes(a, "expired", o)
    /\ UNCHANGED <<now, issued, created, expires, sweep, swept>>

\* Mutant: the sweep forgets to skip what is not pending.
SweepBeginAll ==
    /\ Idle
    /\ sweep' = {a \in issued : Overdue(a)}
    /\ swept' = {}
    /\ UNCHANGED <<now, file, issued, created, expires, answered>>

\* Mutant: the sweep takes ids that no snapshot holds.
SweepBeginAny ==
    /\ Idle
    /\ sweep' = {a \in Approvals : Overdue(a)}
    /\ swept' = {}
    /\ UNCHANGED <<now, file, issued, created, expires, answered>>

\* expire_pending_approvals reads the store once, ...
SweepBegin ==
    /\ Idle
    /\ sweep' = {a \in Approvals : file.seen[a] = "pending" /\ Overdue(a)}
    /\ swept' = {}
    /\ UNCHANGED <<now, file, issued, created, expires, answered>>

\* ... then persists the expiry of each approval it found, whatever the file
\* holds by then, and returns them all, or raises at the first failure.
SweepOne(a, o) ==
    /\ a \in sweep /\ Possible(o)
    /\ file' = Persist(file, a, "expired", created, o)
    /\ IF o = "ok"
       THEN /\ sweep' = sweep \ {a}
            /\ swept' = IF sweep' = {} THEN {} ELSE swept \cup {a}
            /\ answered' = IF sweep' = {}
                           THEN [b \in Approvals |->
                                   IF b \in swept \cup {a} THEN answered[b] \cup {"expired"}
                                   ELSE answered[b]]
                           ELSE answered
       ELSE sweep' = {} /\ swept' = {} /\ UNCHANGED answered
    /\ UNCHANGED <<now, issued, created, expires>>

\* The process dies in the middle of a sweep; the file is all that survives.
Crash ==
    /\ ~Idle
    /\ sweep' = {} /\ swept' = {}
    /\ UNCHANGED <<now, file, issued, created, expires, answered>>

Tick ==
    /\ Idle /\ now < MaxTime
    /\ now' = now + 1
    /\ UNCHANGED <<file, issued, created, expires, sweep, swept, answered>>

Next ==
    \/ Tick \/ SweepBegin \/ Crash
    \/ \E a \in Approvals, o \in Disk :
         \/ \E ttl \in Ttls : Create(a, ttl, o)
         \/ Resolve(a, o)
         \/ \E d \in Decisions : Decide(a, d, o)
         \/ DecideExpired(a, o)
         \/ SweepOne(a, o)

Spec == Init /\ [][Next]_vars

-----------------------------------------------------------------------------
\* An approval that reads as approved became so while it was pending and in
\* time: decide_approval applies the expiry before it checks the status.
ApprovedInTime ==
    [][\A a \in Approvals :
         file.seen[a] # "approved" /\ file'.seen[a] = "approved"
            => file.seen[a] = "pending" /\ now <= expires[a]]_vars

\* No caller is ever told two different final statuses of one approval:
\* "approved cannot be rejected, rejected cannot be approved, expired cannot
\* be approved" (docs/ACTIONS.md).
DecisionsAreFinal ==
    \A a \in Approvals : \A s, t \in answered[a] \ {"pending"} : s = t

\* What a caller has been told is what the store says, until retention drops
\* the approval: compaction and later appends never bring an older status back.
AnswersKept ==
    \A a \in Approvals : \A s \in answered[a] \ {"pending"} :
        file.seen[a] \in {s, Missing}

\* Compaction drops only what is over the limit: an approval whose creation
\* was answered is readable as long as fewer than MaxRecords are newer.
NewestRetained ==
    \A a \in issued :
        /\ "pending" \in answered[a]
        /\ MaxRecords > 0
        /\ Cardinality({b \in issued : created[b] > created[a]}) < MaxRecords
        => file.seen[a] # Missing

\* A call that answers leaves the file within its limit, however far earlier
\* failures of the compaction let it grow, and a decision it answers is there to
\* be used by the next call: the compaction that follows the append does not
\* drop the approval it was for, unless one that failed earlier has left the
\* file over its limit.
WithinLimit == MaxRecords > 0 => Records(file) <= MaxRecords
RetentionHolds ==
    [][/\ answered' # answered => WithinLimit'
       /\ \A a \in Approvals, s \in Decisions :
            WithinLimit /\ s \in answered'[a] \ answered[a] => file'.seen[a] = s]_vars

\* The store implements the life cycle it promises.
LifeStatus ==
    [a \in Approvals |-> IF file.seen[a] # Missing THEN file.seen[a]
                         ELSE IF a \in issued THEN "forgotten" ELSE "absent"]
Lifecycle == INSTANCE ApprovalLifecycle
               WITH status <- LifeStatus, overdue <- {a \in issued : Overdue(a)}
FollowsLifecycle == Lifecycle!Spec
=============================================================================
