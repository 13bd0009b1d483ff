# Verification of aiops-orchestrator

TLA+ models, TLC runs and TLAPS proofs of the stateful parts of the
aiops-orchestrator repository. Paths are relative to the repository; line
numbers of every definition are in `PROJECT.json` under `map`.

Contents: 1 inventory; 2 modules and how they correspond to the code; 3 runs,
bounds and fairness; 4 proofs; 5 what the checks found; 6 what is not modelled;
7 plan.

## 1. Inventory

The repository holds two programs that share a package.

**The AIOps runtime** (`app/api`, `app/agent_router`, `app/services`,
`app/policies`, `app/models`): a FastAPI application that runs as one uvicorn
worker on one asyncio loop (`deploy/docker-compose.yml`, `restart: always`). Its
handlers are coroutines. The stores of the agent router are synchronous, so a
handler of that router is atomic towards the others except where it awaits; the
task service awaits every database statement. A second container may serve the
same API during a blue/green switch (`deploy/docker-compose.bluegreen.yml`);
`var/` is not shared between them.

**AgentReview** (`app/agent_review`, `scripts/github_agent_review.py`,
`scripts/github_codex_post_ready_guard.py`): a command-line reviewer of pull
requests. Each invocation is one process, with children for the isolated checks,
and several may share the file system.

### Components of the runtime

| part | state | operations | interactions | hard behaviour | what makes it correct |
| --- | --- | --- | --- | --- | --- |
| approval store (`approval_store.py`) | one JSONL file of snapshots, the last one of an id counts | create, resolve, sweep, decide, compact, list | every approval endpoint and `run_actions` | failing and partial writes, compaction that raises after the append, a sweep that works on an old read, the instant of expiry | decided once and in time; an answered decision stays; only the oldest approvals are dropped |
| audit log (`audit_log.py`) | an active file and numbered backups | write, rotate, enforce retention | every endpoint that changes state | a rotation is a loop of renames that can stop anywhere; the number of backups changes between restarts; partial writes | history is lost only from its old end, no faster than the setting says |
| run store (`run_store.py`) | one JSONL file of runs | append with compaction, list, get | last step of `run_actions` | append or compaction fails and only a warning is added | the newest records are kept |
| action runner (`action_runner.py`) | child processes | execute one of the fixed actions | awaited by `run_actions` once per action | raises, times out, ends badly | see the endpoints |
| endpoints (`agent_router/main.py`) | catalog cache and readiness | request, list, read and decide approvals, run actions, history | compose all of the above | store, audit log and answer are three effects without a transaction; other requests run while an action is awaited | nothing executed without an approval and, if required, without its trail; log and stores agree |
| task life cycle (`orchestrator.py`, `task_service.py`, `api/routes.py`) | rows of `tasks` in SQLite, one session per request | ingest (answer, classify, plan, execute at once), approve or reject and execute | policy, providers, executors | a status read before other requests commit; the session's own copy of a row; a session that breaks; a process that dies | no execution without an approval of its own; nothing left half done; every request ends |
| catalog, planner, dry run, mapper | none | pure functions of a request and the catalog | called by the endpoints | cached catalog and readiness can disagree | a plan contains only what the catalog allows |
| policy engine and guardrails | loaded YAML | verdict on messages, intents, plans, commands | called by the orchestrator | combination of risks | a plan is at least as risky as its riskiest step |
| diagnostics, health score, signals, chat router | none | read metrics, weigh them | called by the endpoints | services that do not answer | - |
| providers and executors (`app/adapters`) | none | call processes and services | called by the orchestrator | timeouts, errors | - |

### Components of AgentReview

| part | state | hard behaviour | what makes it correct |
| --- | --- | --- | --- |
| target packs: epochs (`target_pack_epoch_v2.py`) | a carrier file and its directory below `/tmp`, locked by the processes that use a target | several processes at once, a cleaner that removes both objects, a process that dies | no two hold a target when one holds it exclusively |
| target packs: preview and apply (`target_pack_apply_v2.py`, `_operation_`, `_plan_`, `_install_`) | the profile and the receipt of a target | a target that changes between preview and apply, a crash between the two writes, retries | only what was approved and is still the case is applied; the owner's profile is not replaced; receipts form a chain |
| target packs: build, manifest, validate, doctor | none | what is on disk | reports what is there |
| trusted checks (`isolated_executor_v2.py`, `trusted_check_broker_v2.py`, `trusted_check_supervisor_v2.py`, `trusted_check_namespace_kernel_v2.py`) | a PID namespace per check, with the processes that own it, supervise it and run in it | three processes and the kernel, any of which dies or is too late; answers that cross a cancel; a subject that forks, hangs and ignores its end | an answer is what became of the subject; nothing of it is left when the answer says so, and in the end nothing is left; every check is answered |
| review life cycle and readiness (`run_assembly_v2.py`, `synthesis_v2.py`, `lifecycle_v2.py`, `readiness_decision_v2.py`, `review_readiness_emission_v2.py`, ...) | the files each stage hands the next: manifest, results, findings, decision, artifact | HEAD moves and a review is made again between two stages; files cut into several chunks, or left out; rulings of humans that meet new claims; a decision and findings that are not of one review | ready only when everything was seen that is not left out, nothing is left out that must be reviewed, and nothing is open; what a human confirmed blocks; no artifact says less than its findings |
| planner and chunker (`planner_v2.py`, `semantic_chunker.py`, ...) | none | budgets | no hunk lost, no budget exceeded |
| quality gate and synthesis | none | duplicates, false positives | the verdict follows from the findings |
| subjects and trusted objects (git objects, mounts, snapshots) | file system | files that change while they are read | what is reviewed is what was named |
| contracts, transport, profiles | none | malformed documents | rejected, never repaired |
| post-ready guard (`github_codex_post_ready_guard.py`) | none of its own; the surfaces of a pull request, read twice | the surfaces are read one after the other while people and the Codex connector change them | the verdict is true of one moment, although nothing was read at one moment |
| GitHub review script | the comments of a pull request | retries, deadlines | one answer per head |

The CAEM consumer, `app/common`, `app/ri_b0a`, the other scripts, the deployment
files and the vendored documents keep no state of their own.

## 2. Modules

| module | models | main state | actions |
| --- | --- | --- | --- |
| `ApprovalFile` | the JSONL file of the approval store as its readers see it (operators only) | a record `lines`, `seen`, `tail`, `count` | `Persist` = append, read-back and compaction, with each outcome a write may have |
| `ApprovalStore` | the store's calls, each atomic under `_APPROVAL_LOCK`, except the sweep, which is one step per approval because it may die or fail between two | `file`, clock, ids, what callers were told | `Create`, `Resolve`, `Decide`, `DecideExpired`, `SweepBegin`, `SweepOne`, `Crash`, `Tick` |
| `ApprovalLifecycle` | what the store promises, with no file in sight | status of each approval, which are overdue | `Create`, `Decide`, `Expire`, `Lapse` |
| `AuditLog` | `write_audit_event` with rotation and retention, one step per file operation | the files, a program counter | `Write`, `Check`, `Unlink`, `Rotate`, `Move`, `Enforced`, `Append`, `EmptyAppend`, `TornAppend`, `Raise`, `Restart` |
| `ActionRun` | the approval and run endpoints composed with the three stores and the runner | the approval store as `ApprovalFile` has it, the events logged of each approval and run, the calls in flight, the run history, and which of the logs ends in an unfinished line | one per endpoint and per way it can end, `Execute`, `ExecuteRaises`, `Crash` |
| `TaskLifecycle` | `ingest_chat`, `approve_task`, `execute_approved_task` and `_execute_plan`, one step per commit or read | the rows and the requests | one per commit or refresh, `Raise`, `SetError`, `Break`, `Crash` |
| `TargetPackLease` | what an epoch promises | the lease each process holds | `Acquire`, `Release` |
| `TargetPackEpoch` | acquire and release of an epoch, one step per file operation, and the cleaner of `/tmp` | what the two names lead to, what each process has open and locked | `Ask`, one per operation of `AcquireEpoch`, `Raise`, `ReleaseEpoch`, `Die`, five of the cleaner |
| `TrustedCheck` | `execute_trusted_check_plan_v2` over the isolated executor, the broker, the supervisor in the namespace, the subject and the kernel, one step per wait, message, kill or exit | the executor's place in the plan and its results; of each check its owner, its namespace and the two channels | of the executor, of the owner (executor or broker), of the supervisor, of the subject, of the kernel; `Cancel` and the deaths |
| `PostReadyGuard` | one run of the guard, one step per surface read, and the pull request it reads | the surfaces with the time of their last change, what was read | fifteen ways a pull request changes (external); `Begin`, `ReadPr`, `Read`, `Reread`, `RereadPr`, `Fail` |
| `ReviewReadiness` | a review of a pull request from the plan of its chunks to the readiness artifact | HEAD, the manifest of the run, the answers and rulings of the last review, its synthesis, the decision and the artifact | `Push`, `Plan`, `Review`, `Repeat`, `DecideStale`, `Emit` |
| `TargetPack` | preview and apply of `init`, on top of `TargetPackLease` | profile, receipt, calls in flight, approved plans | `PreviewReceipt`, `PreviewProfile`, `Start`, `LoadReceipt`, `Inspect`, `Decide`, `Write`, `Record`, `Finish`, `Stop`, `Edit` |

`MC*` modules only give the model values a name; `*_proofs` modules hold the
proofs. Operators commented "Mutant" are plausible mistakes in the code, used to
confirm that the properties notice them; no behaviour uses them.

### Correspondence and abstractions

*ApprovalFile.* A snapshot repeats every field of the approval and only the
status ever changes, so a snapshot is a status. `seen` is what `_load_latest`
returns; it differs from `lines` only while the last line has no newline
(`tail = "open"`), because the next append then continues that line and both
snapshots are lost. `count` is the number of lines `_read_all_records` counts,
cut off just above the limit: any larger number calls for the same compaction.
`_persist_snapshot` has five outcomes: "ok", "none" (nothing written), "torn"
and "open" (a part was written, or all but the newline), "unread" (written,
but the read-back or the compaction raised). Compaction writes a temporary file
and renames it, so it happens or it does not.

*ApprovalStore.* The lock is a `threading.Lock` and the clock is read under it.
`answered` is a history variable: the statuses returned to callers without an
error. The microsecond clock makes `created_at` unique; the model moves its
clock with each creation for that reason.

*AuditLog.* A regime is a deployment: whether a write that fails may leave a part of
itself (`cuts`), and the numbers of backups the process is started with, from one
start to another (`counts`). A file is whether it exists, the set of events that a
reader parses, its size and whether its last line is unfinished. Each rename and
unlink is a step, and a call may raise or the process die between any two (`Raise`);
an append that fails may have made an empty file (`EmptyAppend`). `acked` and `tries`
are history variables: the events whose call returned True, and the rotations
attempted since.

*ActionRun.* Handlers without an await are one step each, with the outcomes of
every store call and audit write inside it; `run_actions` is one step up to its
first await and one per action. A crash inside a handler leaves what a failure
at that point leaves, followed by `Crash`. The outcome of the catalog, risk and
target checks is a Boolean for each reason to block. `mode` is a deployment, fixed at
the start: whether the audit log is `required`; which of `audit`, `stores` and
`actions` may fail; and whether a write that fails may leave a part of its line
(`parts`). A part that stays is what it is in the code, in each of the three files,
none of which is looked at before an append:

- the approval store is the record of `ApprovalFile`, with its five outcomes of a
  write. `lost` is a history variable: the approvals of which a snapshot was
  swallowed, its own or another's having been left unfinished. Such an approval may go
  back to what it was before, and be decided again (section 5, 1);
- `logCut` says that the audit log ends in an unfinished line. The event after it is
  taken, as its call returns True, and cannot be read. `noted` has the outcomes of an
  approval that the log shows, and `trail` the events of a run that it took, those
  that cannot be read with them. An event of which only the newline is missing is
  not counted in either, although a reader would parse it until the next append;
- `historyCut` is the same of the run history.

The audit log does not rotate here, nor does the store reach its retention limit:
`AuditLog` and `ApprovalStore` do.

*TaskLifecycle.* Each request has its own SQLAlchemy session made with
`expire_on_commit=False`; `get_task` returns the object that the session already
holds, and only `refresh` reads the row again. The model therefore reads a row
at `Read` and at `Refresh` only, and the last commit on a row wins. Policy
verdicts, provider answers and exit codes are arbitrary. Two commits that no
other step can tell apart are one step: the audit row after a status, the row
per execution.

*TargetPackEpoch.* An object is a number, given when it is made, and stands for
the device and inode that `_same_identity_v2` compares. The lock of the directory
is always shared, so only the cleaner's exclusive lock conflicts with it. The
cleaner is `systemd-tmpfiles` as the repository's tests describe it: it skips a
directory that it cannot lock. The checks of the runtime parent, mounts and
paths, and the first of the two checks of each object, are `Raise`. The epoch
implements `TargetPackLease` (property `FollowsLease`): a lease begins with the
last check and ends with the first unlock.

*TargetPack.* The shipped manifest has one file, the target-owned profile, and no
rollout; the other branches of the planner and the writer cannot be reached with
it. Hashes are modelled as what they are taken of: a plan by its actions and
expected receipt, a receipt by the profiles it and its predecessors tell of. The
preview reads without a lease, so that it may see a receipt and a profile that
never were there together. `Edit` is the owner, who knows nothing of the lease.
`raced` and `edited` are history variables. The model is small only because the
lease is the abstract one: composed with `TargetPackEpoch` it is out of TLC's
reach, and the refinement is what makes the two runs one argument.

*TrustedCheck.* The stages of an owner are its waits: each wait ends with what it
waits for, or by its timeout at any moment before that. A namespace is what lies
outside it (`unshare`, which is forked before its death signal is armed), its init,
and what is inside; a kill is sent at once and carried out by the kernel later,
which destroys the inside of a namespace whose init has died. Copies of the
subject's fate travel from the supervisor to the owner and, through a broker, to
the executor. The checks' commands, output, digests and environments, nonces and
frames, the probe of the isolation strategies (its result is `strategy`), and the
simulator of the tests are left out: no decision depends on them, or the model
takes every outcome. A send raises when the other end is gone; that it raises
although the other end is there, as at the release of the subject
(`isolated_executor_v2.py:839`), is not a case.

*PostReadyGuard.* The guard compares payloads that carry ids and time stamps, so a
surface is what the verdict can tell of it together with the time of its last
change. Of what is modelled, only reactions, which can be taken away without a
trace, and the identity of the pull request, of which no time is compared, can look
as they did before; a push back to an earlier commit and an inline comment that is
made and deleted between two reads could as well, and are left out.
`Read` and `Reread` are the two passes of `_collect` in their order,
`Belong` the binding of inline findings to reviews, `Judge` the chain of verdicts
of `evaluate_evidence`. A difference ends the model's run at once; the code notices it a
few reads later, with the same verdict. The history variable `turn` is what there
was when the first pass ended. Left out: texts and authors, pages, the base, several
summary comments, runs that are not of the present head, changes within the same
second, and the file of the evidence; of findings, those in the body of a review
(lines 803-819), which count as an inline one that no path or blob is known of, the
dispositions given as a reply to the inline comment (832) rather than in the
conversation, and a file that is put back to the blob it had; and of reviews, the
states besides pending and commented, so that the check of terminal states (453, 672)
is always met. A reply that supersedes a finding is treated as one that dismisses it.

*ReviewReadiness.* A fragment is its content and a chunk the set of its fragments,
which is all that the plan, the coverage and the identity of a finding tell of it.
A diff is its fragments and its problems: the files that are binary, a submodule,
without hunks, cut short, missing, or of a name that the contracts refuse
(`validate_diff_completeness_v2`). A problem that must be reviewed refuses the whole
manifest (`Assembles`); any other is excluded, with such fragments as it has (`Kept`),
and is not among the expected files, so that no later stage knows of it. The plan is
any packing of what is kept that the budget allows, with what must be reviewed in it.
A run without chunks is not reviewed, as there is no content to give a model.
`Reviews` is all that the chunks may answer and still bind: of each
file shown at most as much as the payload knows, and claims about lines, about
files, or about lines the chunk does not show. `Priors` is what humans may have ruled; a
ruling names a finding by its identity (`KeyOf`), which the severity is not a part
of, and a HEAD. `Findings`, `FileStatus`, `Decide` and `Widened` are the functions
of the four stages, `Allows` the validator of the artifact. Reviewing, synthesis
and decision are one step because nothing else reads or writes what they use: a
manifest has its HEAD in it. The findings and the decision are files, and `Emit`
takes any decision that was made before and passes the code's checks of what fits
together; where the validator refuses what came through them, the step writes an
`invalid` artifact, which is the `ValidationError` that escapes. A stage that
refuses its input with a reason of its own is not enabled. Both identities that
`produce_review_readiness_v2` compares differ in their HEAD only. As the code
stands, a required check that is submitted is refused, and an empty submission is a
policy failure (`authoritative_producer_evidence_v2.py:458`), so that `Widened` always
adds that reason and no artifact is ready: only a decision is.

## 3. Runs

Every run finishes exhaustively. "Violation" runs state what a document or a
comment of the repository says; see section 5.

| run | properties | what it shows |
| --- | --- | --- |
| `approval_store` | `TypeOK`, `DecisionsAreFinal`, `AnswersKept`, `NewestRetained`, `ApprovedInTime`, `RetentionHolds`, `FollowsLifecycle` | with writes kept whole or not at all, and a read-back or compaction that may raise, the store is `ApprovalLifecycle`, keeps what it answered and comes back within its limit whenever it answers |
| `approval_store_torn` (violation) | `DecisionsAreFinal` | with partial writes two opposite decisions are answered |
| `audit_log` | `SurvivesRotations`, `NoHoles`, `BackupsOrdered`, `LossConfined` | whatever step is interrupted, the backups stay in order, and an acknowledged event outlives as many rotations as the smallest number of backups configured, also when that number changes between restarts; while it stays the same, what is left is the newest, without a hole; on a disk that keeps parts of writes, a part costs one acknowledged event at most |
| `action_run` | `ExecutedUnderApproval`, `NotedAgrees`, `RecordedIsAudited`, `TransitionsAudited`, `RunsAuditedAfter`, `RecordsKept`, `RunsEnd` | approvals and runs interleaved with every endpoint, where everything may fail, with and without a required audit log, on disks that keep parts of failed writes and on disks that do not, and where no write fails; the run history at its limit |
| `task_lifecycle` | `ExecutionsGranted`, `NothingStuck`, `RequestsEnd` | three requests at one task, interleaved at every statement, with sessions that break and a process that dies |
| `task_lifecycle_race` (violation) | `BegunWhenApproved` | a plan is executed while the row of its task says rejected |
| `target_pack_epoch` | `EpochOK`, `HeldIsNamed`, `FollowsLease` | three processes, shared and exclusive, against a cleaner, refused or dying anywhere |
| `target_pack` | `TypeOK`, `Described`, `AnswersTrue`, `NeverOverwritten`, `LineageKept` | two processes preview and apply, break off and try again, while the owner edits |
| `trusted_check` | `ContainedIsEmpty`, `VerdictIsTrue`, `StartsPinned`, `NoOrphans`, `EveryCheckAnswered` | two checks under each strategy and authority; timeouts, cancels and deaths anywhere |
| `trusted_check_late` (violation) | `StartsInTime` | through a broker, a subject starts after its check was answered |
| `post_ready_guard` | `DoneAtTheTurn` | a completed review cycle changes three more times, at any point of a run of the guard: READY was true at the turn of the two passes |
| `review_readiness` | `TypeOK`, `NothingMasked`, `NoDefects`, `ReadyIsEarned`, `ConfirmedBlocks` | two HEADs, every packing of five diffs, among them a file that is cut short or binary, up to two claims on a finding and one ruling: ready is earned, what is confirmed blocks, and whichever decision of the run meets whichever findings of it, the artifact masks nothing |

**Bounds.** Approvals only interact through the retention limit, so three of them with
`MaxRecords = 2` give a compaction that drops one, keeps one and is caused by another;
`TtlMax` below and at the requested ttl exercises both ends of the validation, and
`MaxTime` lets an approval be created, expire and be found again. Six events of sizes
below, at and above the limit with no backup, one or three are the three cases the
code separates (none, one, several): they fill every file and rotate past the last
one. The number changes between one and three, which leaves an event a rotation to
outlive, and on a disk that keeps parts also between none and three; with two values
every change between a smaller and a larger one is there. In `ActionRun` approvals
interact only when one swallows the snapshot of another, and otherwise a list audits
several: there are two in the deployments where only parts of snapshots are lost or
nothing fails, and one in the others (`Used`). Two runs of up to two actions use an
approval twice, each while it is decided or found overdue, with good and bad actions;
there is one run where the log keeps parts and is not required, and where there are
two approvals and writes fail. `MaxRecords = 1` makes every second record trim the
history. Three requests at one task are a chat and two decisions that overlap; tasks
do not share rows, so a second task adds nothing but states. Three processes are a
holder, one with an older object open and one that makes a new one; four objects let
the cleaner remove both and both be made again. Two appliers overlap in every way that
matters to one lease, and three edits change the files before, during and after a
call. Checks of a plan run one after the other and share only the executor, the cancel
event and what an earlier broker leaves running, so of two checks one runs (the first
or the second) and the other is declined; two that run have more states than TLC
explores in minutes. The pull request starts with a cycle completed on request with a
thumb, or by a review after a finding was fixed: three changes can then undo the cycle
and hide it, or begin the next one, and a third commit is neither the reviewed one nor
the one that repaired. The view of that run forgets what a run that held had read,
which nothing looks at again. A file of two fragments that must be reviewed can be
whole in a chunk or divided; one that need not be is beside it whole, cut short, or
alone and binary; one that must be is cut short in a diff that no manifest is made of;
two claims by two chunks, or with two severities, on one finding are all that
`MostSevere` tells apart, and findings do not interact otherwise; one ruling, on one
of two findings, agrees with a claim, differs from it in severity or in HEAD, or
stands alone; the second HEAD makes the first run stale. The view of that run forgets
the answers, which no later step reads, and what is in a decision of an earlier run,
which the gate refuses. What the bounds leave open of safety the theorems of section 4
settle for every value.

`CHECK_DEADLOCK FALSE` is set where a bounded number of ids or requests, or the
bounded clock, runs out: the real program waits for the next request.

**Fairness.** `ActionRun!Fairness` is weak fairness of each run's `Execute`:
every action is a child process or a request with a timeout, and the loop
resumes the awaiting handler. `TaskLifecycle!Fairness` is weak fairness of each
request's next statement: provider calls and executors have timeouts, and a
statement ends with a result or an error. `TrustedCheck!Fairness` is weak fairness
of the executor's, each owner's, each supervisor's and the kernel's next step: they
only wait for a time, and the kernel delivers signals and exits. Nothing is assumed
of the subject, which may hang, or of a death. None of them assumes that anything
succeeds. Safety runs do not depend on fairness.

## 4. Proofs

All proofs are complete and hold for every value of the constants that satisfies the
modules' named assumptions.

*`ApprovalStore_proofs`.* `TypeCorrect` and `InTime` hold on any disk. `Final`, `Kept`
and `Refinement` assume `Disk \subseteq WholeWrites`, and need it: run
`approval_store_torn` is a counterexample otherwise. The properties are not inductive:
a sweep writes expiries from an old read, so one must also know that the ids it still
has to persist are overdue and were never answered otherwise, that `lines` and `seen`
agree, and that compaction carries the last status of what it keeps. `Refinement` maps
every step of the store to a step of `ApprovalLifecycle` or to a stutter. `Retained`
and `Limited`, on the same disks, count: all that a compaction keeps beside its oldest
is newer than that one (`FewKept`), so it keeps at most the limit; creation times are
distinct (`Stamped`); and a file has a line for every approval it knows (`Counted`),
so one that is within its limit knows few enough for a decision's compaction to keep
them all.

*`AuditLog_proofs`.* `Ordered` (from `IInv`: the event being written is newer than all
that is on file) holds whatever step is interrupted. `Confined` and `Survives` follow
from `SInv`: the file that holds a young event has a number at most equal to the
rotations attempted since, and one less while the present rotation has yet to move it;
the place a file moves to is free; and the active file ends in an unfinished line only
when the last write failed. Both count against every number of backups the process may
be started with, so they hold when it changes. `Survives` speaks of disks that keep no
part of a failed write, `Confined` of any. `Dense` (from `HInv`) needs a number that
stays the same: no backup has a number above the setting, so what a rotation drops is
always the oldest file. After a restart with fewer backups a larger number may hold
older events than the file that the next rotation drops, until the retention comes to
it, and there `Dense` is not claimed.

*`ActionRun_proofs`.* `TypeCorrect`; `Agrees`: events are written after the status is
stored, and a stored outcome of an approval that is not `lost` never changes,
whichever write fails and whatever part of it stays. `NothingLost` bounds the
exception: where no part of a write is kept nothing is ever `lost`. The invariant has
what readers see equal to what the lines hold unless the last line lacks its newline
(`Good`), so that an approval whose status goes back when that line is continued is
`lost` in the same step. `Covers` and `Audited` come from an invariant over each run
that relates its phase to its trail, its approval and the history. `TransitionsNoted`
and `RunsNoted` need one invariant each of the same kind, in deployments where no
write fails and, for the second, no action raises. `HistoryKept` needs no invariant
beyond the types: the one step that records appends and cuts to the limit.
`ApprovalRefinement` says that the endpoints use the approvals only as
`ApprovalLifecycle` has it, the contract that `ApprovalStore` is proved to implement:
each step maps to one of the contract's or to a stutter, given that only what was
created is overdue and only what is overdue is expired (`LInv`). It speaks of each
approval by itself, as a listing sweeps all that are overdue in one step where the
contract expires one at a time, and only of an approval that never is `lost`: the life
cycle of one that is breaks, as run `approval_store_torn` shows. `RunsAdvance` is the
safety half of `RunsEnd`: what is left of a run (`Left`) shrinks with every step that
changes the run, and nothing else ever lets it begin again.

*`TaskLifecycle_proofs`.* `Granted` counts: executions begun, plus the requests that
hold an approval not used yet (`Claims`), never exceed the approvals given; the proof
needs that finite set's cardinality step by step. `Unstuck` needs an owner: a task
whose row is not at rest has a request that will still set it (`Owned`); a request
that is only deciding is no owner. `RequestsAdvance` is the safety half of
`RequestsEnd`: whatever step changes a request, less is ahead of it than before
(`Ahead`, a number that the length of a plan bounds), whatever the others commit.

*`TargetPack_proofs`.* First the epoch. `NoTwoHolders` is not inductive: one must know
that a process which has checked the directory keeps its name, as it and the cleaner
cannot both have it locked (`SweptApart`), that the carrier then keeps its own, and
that locks on one carrier are compatible (`LocksCompatible`). All who hold then hold
the same carrier. `EpochRefinement` maps each step to one of `TargetPackLease` or to a
stutter. Then the calls. What a call has read stays true until it answers, unless an
edit raced with it (`Known`), because it is alone under its lease (`Alone`).
`Describes`, `AnswersAreTrue`, `Untouched` and `Lineage` follow from that, and
`OneCall`. `LeaseFollowed` closes the gap between the two: `TargetPack` takes and
gives back the lease in no other way than `TargetPackLease` has it.

*`TrustedCheck_proofs`.* `Invariance` is one inductive invariant for any number of
checks and any inventory: per namespace, how the processes outside, init and inside
can be alive together (`Sound`); and `CopiesTrue`: the fate of a subject is written
once, so every copy of it in a channel or a variable is true and stays so, and what is
verified as contained was pinned before it died, which never turns back.
`ContainedIsTrue` and `VerdictsAreTrue` follow. `StartsArePinned` takes an invariant
of its own (`FInv`): whoever is let start was let by an owner that had pinned, and a
check that is left is left barred. `OneByOne` (those answered are those before the one
the executor is at) and `AnsweredForGood` need to know that a check which was stopped
or cut has a cause (`CInv`), as without one its result would be left empty.

*`PostReadyGuard_proofs`.* No surface was read at the turn. The argument is that
stamps only grow: a surface whose two readings, one before the turn and one after, are
equal did not change between them, so both are what it was at the turn (`FirstPass`,
`SecondPass`). For the identity, which has no stamp, the invariant `LifeFollows` says
what must have changed with it; `Judged` ties the verdict to what was read.
`OneMoment` follows, for any number of commits, changes and starts.

*`ReviewReadiness_proofs`.* The invariant `RInv` has the types of the manifest, the
answers and the decision, and `Synthesised`: the synthesis holds what the answers and
the rulings of the run make, and nothing older. `Ready` and `Blocks` are about the
step that makes a decision and read it off `Decide`; what they need are facts about
the operators, for every input: what the status of a file says of the answers
(`CoveredFact`), that a file the HEAD changes is expected or was excluded (`EveryFile`),
and what is kept of claims and rulings (`FindingsFact`). `Unmasked`
pairs any decision of the run with any findings of it: what the contract allows masks
none of the findings (`AllowedMasksNothing`), and the gate widens a decision without
dropping a reason or a cause. `Consistent` is the converse for decisions that the
synthesis makes: it counts out what `Decide` tells and what it leaves untold
(`ToldOf`, `UntoldOf`), that the widening keeps it (`WidenedTells`), and that the
contract allows the result (`DecisionAllowed`).

Only model-checked is liveness (`RunsEnd`, `RequestsEnd`, `NoOrphans`,
`EveryCheckAnswered`), which like ENABLED is out of the prover's reach; `RunsAdvance`,
`RequestsAdvance` and `OneByOne` are what is proved beside it. The type invariants of
`AuditLog`, `ActionRun`, `TaskLifecycle`, `TrustedCheck` and `PostReadyGuard` are
proved and no longer run.

## 5. What the checks found

1. **A partial write swallows the next snapshot** (`approval_store.py:106`). The
   store appends without checking that the file ends in a newline. After a write
   that a full disk cut short, an approval can be answered as approved, still
   read as pending, and then be rejected; `docs/ACTIONS.md` says that an approved
   one cannot be rejected. The audit log appends in the same way (`audit_log.py:228`):
   an event may be acknowledged although no reader can parse its line, which
   `LossConfined` shows to cost that one event.
2. **Executed although rejected** (`orchestrator.py:218`): two overlapping
   decisions; the one that commits last rejects, and the one that approved checks
   its session's copy and executes.
3. **A subject that starts late** (`trusted_check_broker_v2.py:331`): the broker
   lets the subject start before it tells the executor, or notices that the executor
   gave up; `isolated_executor_v2.py:823` promises the contrary. `NoOrphans` shows
   that the broker destroys it in the end.

Not runs of their own:

- *A run without an end* (`main.py:659`): `execute_action` may raise, for instance
  because a file of the repository is missing, nothing catches it, and neither the
  final event nor the record is written, although `docs/ACTIONS.md:562` says that
  events are recorded before and after the execution. `RunsAuditedAfter` is therefore
  stated of deployments where no write fails and no action raises; without the second
  condition, and with the mode `{"required", "actions"}`, TLC finds this run.
- The last conjunct of `DoneAtTheTurn`: the guard can say READY although the pull
  request was a draft at the turn, when it was converted after the first read of its
  identity and marked ready again after its timeline was reread
  (`docs/CODEX_REVIEW_WORKFLOW.md:187` says that an identity change stays held).
- `NoDefects` speaks of decisions computed from the findings they come with. An older
  decision of the same run can pass the checks of the gate and still make an
  artifact that the contract refuses: a `ValidationError` escapes, of which the
  docstring of `review_readiness_emission_v2.py` says that it is a defect of the
  repository, where it is one of the caller's files.
- A claim about lines that its chunk does not show binds, and then the synthesis of
  the whole review raises (`chunk_result_scope_v2.py:136`); the docstring at line 86
  says that what is bound satisfies its checks. `InScope` is that guard.

## 6. What is not modelled

Each component with its reason is in `PROJECT.json`. Within the modelled ones:

- The diagnostic, chat, planning and history endpoints, which read or audit once.
- The content of run records, redaction and truncation; wording of answers.
- An approval that retention drops while an endpoint uses it: `ActionRun` has no
  retention limit, `ApprovalStore` has no endpoints. Composing them is planned.
- A process that dies in the middle of a handler, where the failure at that point
  is disabled by the deployment's `mode`.
- A run that nothing closes because its process died: the code has no recovery, and
  `RecordedIsAudited` and `RunsAuditedAfter` do not speak of it. That an event which was
  taken can also be read is `LossConfined`'s, one file at a time; `RecordedIsAudited`
  speaks of what the log took.
- A transition whose audit write fails stays without an event: the decision is
  stored first, the answer is 500, and a second request is answered with 409.
  `TransitionsAudited` is stated only where writes succeed.
- In a review: a list of expected paths that leaves out a file of the diff, which would
  then pass although it is cut short (no code passes such a list), the order in which
  fragments are packed, degraded plans (no code
  makes one), the snapshot and provenance of required checks, the state of the pull
  request, decisions made by hand, and a file of no findings that is another run's.
- Edits under a lease: the profile may then be overwritten between the look and
  the write, which the target pack's document leaves out of its claim
  (`docs/AGENT_REVIEW_V2_TARGET_PACK.md:118`).
- A torn line that is not valid UTF-8: readers skip lines that do not parse but
  raise on bytes that do not decode, so every call fails until the file is
  repaired. Bytes are below the models.
- Two containers on one `var/` directory: the deployment does not share it.
- Approved approvals do not expire and may serve several runs; the code intends
  this, and no property contradicts it.

## 7. Plan

In this order; each step is a module, its run and, where named, its theorem.

1. `TargetPack` with generated and merged files and changes of the pack's version.
2. `ReviewPlanner` (`planner_v2.py`): every hunk in exactly one chunk, no budget
   exceeded, for all small inputs.
3. `Catalog` with readiness and the cache; `ActionPlan` and dry run as operators.
4. The comment of the review script: retries and deadlines.
5. Composition of `ActionRun` with `ApprovalLifecycle`'s forgetting.
