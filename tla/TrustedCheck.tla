---------------------------- MODULE TrustedCheck ----------------------------
(***************************************************************************)
(* execute_trusted_check_plan_v2: the checks of a plan run one after the   *)
(* other, each in a PID namespace of its own, and each gets one result.    *)
(*                                                                         *)
(* A namespace has an owner: the process that spawned its `unshare', that  *)
(* discovers and pins the namespace's init, lets the subject start, and    *)
(* verifies that nothing is left.  The owner is the executor itself, or,   *)
(* where the executor reaches root only through sudo, a broker: a process  *)
(* that executor and owner talk to over a channel, that neither the        *)
(* executor nor its end of the channel outlives, and that may outlive the  *)
(* executor's interest in the check.  Inside the namespace the supervisor  *)
(* is init: with it the kernel destroys everything else, in its own time.  *)
(*                                                                         *)
(* Executor, brokers and supervisors may die at any step, and a wait may   *)
(* end by its timeout whenever what it waits for is not there.             *)
(***************************************************************************)
EXTENDS Integers, FiniteSets

CONSTANTS NumChecks,    \* the checks of the plan are 1..NumChecks
          Strategies,   \* the ways to isolate that the probe may have found
          Inventories   \* what the inventory may say of each check

ASSUME NumChecksPos == NumChecks \in Nat \ {0}
Checks == 1..NumChecks

\* "weak" is an unprivileged user namespace, "none" that no probe succeeded.
AllStrategies == {"direct", "weak", "broker", "none"}
\* An entry of the inventory; "missing" is a token without one, "unbound" stands
\* in every place of an inventory that is not the one the plan is bound to.
Entry == [declared : {"host_tool", "subject_code", "unknown", "missing", "unbound"},
          plugins : BOOLEAN, hostConfig : BOOLEAN, absolute : BOOLEAN]

ASSUME StrategiesKnown == Strategies \subseteq AllStrategies
ASSUME InventoriesKnown ==
    /\ Inventories \subseteq [Checks -> Entry]
    /\ \A i \in Inventories :
          (\E c \in Checks : i[c].declared = "unbound") =>
             \A c \in Checks : i[c].declared = "unbound"

VARIABLES
    strategy, authority, entry,   \* the deployment and the call, for good
    cancelEvent,                  \* cancel_event.is_set()
    alive,                        \* the executor's process
    at, pc, cause,                \* its check, where it stands in it, why it stops it
    result,                       \* the results so far
    own,                          \* the owner of each check's namespace
    ns,                           \* each check's namespace and the channel out of it
    chan                          \* each check's channel between executor and broker

deployment == <<strategy, authority, entry>>
executor == <<alive, at, pc, cause, result>>
vars == <<deployment, cancelEvent, executor, own, ns, chan>>

Outcomes == {"none", "SUCCESS", "FAILURE", "TIMEOUT", "CANCELLED", "INFRA_FAILURE"}
Exits == {"none", "ok", "bad", "setup"}
Result == [outcome : Outcomes, containment : {"unknown", "verified", "failed"}]
Unanswered == [outcome |-> "none", containment |-> "unknown"]

Stages == {"none", "boot", "spawn", "hello", "discover", "ready", "announce", "watch",
           "verify", "gone"}
Owner == [stage : Stages, pinned : BOOLEAN, pidfd : BOOLEAN, cut : BOOLEAN, took : Exits]
NoOwner == [stage |-> "none", pinned |-> FALSE, pidfd |-> FALSE, cut |-> FALSE,
            took |-> "none"]

\* outside: the process that becomes `unshare'; init: the supervisor; inside:
\* what else lives in the namespace; killed: who was sent a SIGKILL; ready,
\* hello, report: the messages; fate: what became of the subject.
Namespace == [outside : {"none", "fork", "unshare", "gone"},
              init : {"none", "config", "blocked", "waiting", "exiting", "gone"},
              inside : SUBSET {"subject", "descendant"},
              killed : SUBSET {"unshare", "init"},
              ready : BOOLEAN, hello : BOOLEAN, report : Exits,
              fate : {"none", "setup", "running", "ok", "bad", "killed"}]
NoNamespace == [outside |-> "none", init |-> "none", inside |-> {}, killed |-> {},
                ready |-> FALSE, hello |-> FALSE, report |-> "none", fate |-> "none"]

Channel == [cancel : BOOLEAN, ready : BOOLEAN,
            reply : [sent : BOOLEAN, exit : Exits, contained : BOOLEAN]]
NoChannel == [cancel |-> FALSE, ready |-> FALSE,
              reply |-> [sent |-> FALSE, exit |-> "none", contained |-> FALSE]]

TypeOK ==
    /\ strategy \in Strategies
    /\ authority \in {"trusted", "advisory"}
    /\ entry \in Inventories
    /\ cancelEvent \in BOOLEAN /\ alive \in BOOLEAN
    /\ at \in 1..(NumChecks + 1)
    /\ pc \in {"idle", "driving", "starting", "watching", "stopping", "collecting"}
    /\ cause \in {"none", "CANCELLED", "TIMEOUT"}
    /\ result \in [Checks -> Result]
    /\ own \in [Checks -> Owner]
    /\ ns \in [Checks -> Namespace]
    /\ chan \in [Checks -> Channel]

Init ==
    /\ strategy \in Strategies
    /\ authority \in {"trusted", "advisory"}
    /\ entry \in Inventories
    /\ cancelEvent = FALSE /\ alive = TRUE
    /\ at = 1 /\ pc = "idle" /\ cause = "none"
    /\ result = [c \in Checks |-> Unanswered]
    /\ own = [c \in Checks |-> NoOwner]
    /\ ns = [c \in Checks |-> NoNamespace]
    /\ chan = [c \in Checks |-> NoChannel]

-----------------------------------------------------------------------------
(* What the steps are made of. *)

Brokered == strategy = "broker"
Busy(c) == alive /\ at = c
\* The process whose death the kernel tells `unshare' of.
OwnerLives(c) == IF Brokered THEN own[c].stage # "gone" ELSE alive
\* The owner's end of the channel into the namespace, and the executor's end
\* of the channel to the broker.
OwnerShut(c) == own[c].stage = "gone" \/ ~OwnerLives(c)
ExecutorShut(c) == ~Busy(c)

\* namespace_has_live_processes_v2
InitLives(c) == ns[c].init \notin {"none", "gone"}
Live(c) == InitLives(c) \/ ns[c].inside # {}
\* Who has a SIGKILL pending executes nothing any more.
InitRuns(c) == InitLives(c) /\ "init" \notin ns[c].killed /\ ns[c].outside = "unshare"
OutsideRuns(c) ==
    ns[c].outside = "unshare" /\ "unshare" \notin ns[c].killed /\ OwnerLives(c)
\* tear_down_execution_v2: whom it has a pidfd for.
Targets(o) == (IF o.pinned THEN {"init"} ELSE {}) \cup (IF o.pidfd THEN {"unshare"} ELSE {})
\* A mutant of Verified: an empty answer is taken for an empty namespace.
VerifiedBlindly(c) == own[c].pinned
\* verify_containment_v2, once the namespace is empty or its time is over.
Verified(c) == own[c].pinned /\ ~Live(c)

Contained(b) == IF b THEN "verified" ELSE "failed"
\* _classify_from_record_v2
Classified(exit, b) ==
    CASE exit \in {"none", "setup"} -> "INFRA_FAILURE"
      [] exit = "bad" -> "FAILURE"
      [] exit = "ok" -> IF b THEN "SUCCESS" ELSE "INFRA_FAILURE"

\* classify_command_spec_v2: what is declared a tool of the host and is one
HostTool(e) == e.declared = "host_tool" /\ ~e.plugins /\ e.hostConfig /\ e.absolute
\* trusted_refusal_reason_v2, and the strategies that are refused
Refused(c) == authority = "trusted" /\ ~HostTool(entry[c])
NotIsolated == strategy = "none" \/ (strategy = "weak" /\ authority = "trusted")

\* One result is appended, and the loop goes on to the next check.
Answer(c, outcome, containment) ==
    /\ result' = [result EXCEPT ![c] = [outcome |-> outcome, containment |-> containment]]
    /\ at' = c + 1 /\ pc' = "idle" /\ cause' = "none"
    /\ UNCHANGED alive

-----------------------------------------------------------------------------
(* The executor, between checks. *)

Turn(c) == Busy(c) /\ pc = "idle" /\ c \in Checks
Runnable(c) == entry[c].declared # "missing" /\ ~Refused(c) /\ ~NotIsolated

\* _refuse_whole_plan_v2
RefusePlan ==
    /\ Turn(1) /\ entry[1].declared = "unbound"
    /\ result' = [c \in Checks |-> [outcome |-> "INFRA_FAILURE", containment |-> "unknown"]]
    /\ at' = NumChecks + 1
    /\ UNCHANGED <<deployment, cancelEvent, alive, pc, cause, own, ns, chan>>

\* The token has no entry, the entry is refused, there is no way to isolate it
\* or the process or its configuration cannot be sent off.
Decline(c) ==
    /\ Turn(c) /\ entry[c].declared # "unbound"
    /\ Answer(c, "INFRA_FAILURE", "unknown")
    /\ UNCHANGED <<deployment, cancelEvent, own, ns, chan>>

Fork(c) == ns' = [ns EXCEPT ![c].outside = "fork"]

\* _run_isolated_direct_v2 up to Popen's fork
BeginDirect(c) ==
    /\ Turn(c) /\ Runnable(c) /\ entry[c].declared # "unbound" /\ ~Brokered
    /\ pc' = "driving"
    /\ own' = [own EXCEPT ![c].stage = "spawn"]
    /\ Fork(c)
    /\ UNCHANGED <<deployment, cancelEvent, alive, at, cause, result, chan>>

\* _run_isolated_via_broker_v2 up to the configuration
BeginBroker(c) ==
    /\ Turn(c) /\ Runnable(c) /\ entry[c].declared # "unbound" /\ Brokered
    /\ pc' = "starting"
    /\ own' = [own EXCEPT ![c].stage = "boot"]
    /\ UNCHANGED <<deployment, cancelEvent, alive, at, cause, result, ns, chan>>

-----------------------------------------------------------------------------
(* The executor, while a broker runs its check. *)

Waits(c, where) == Busy(c) /\ pc = where

\* The broker's ready arrives, or it does not and the check is answered
\* whatever the broker may still do: it is another user's process.
Proceed(c) ==
    /\ Waits(c, "starting") /\ chan[c].ready
    /\ pc' = "watching"
    /\ chan' = [chan EXCEPT ![c].ready = FALSE]
    /\ UNCHANGED <<deployment, cancelEvent, alive, at, cause, result, own, ns>>
NotReady(c) ==
    /\ Waits(c, "starting") /\ ~chan[c].ready
    /\ Answer(c, "INFRA_FAILURE", "failed")
    /\ UNCHANGED <<deployment, cancelEvent, own, ns, chan>>

\* A mutant of Stops: a check that nobody cancels is never stopped.
StopsCancelled(why) == why = "CANCELLED" /\ cancelEvent
\* Why a run is stopped, whoever watches it: the deadline may pass at any time.
Stops(why) == why = "TIMEOUT" \/ (why = "CANCELLED" /\ cancelEvent)

Abandon(c, why) ==
    /\ Waits(c, "watching") /\ Stops(why)
    /\ pc' = "stopping" /\ cause' = why
    /\ chan' = [chan EXCEPT ![c].cancel = TRUE]
    /\ UNCHANGED <<deployment, cancelEvent, alive, at, result, own, ns>>
\* A reply may be there that was sent before the cancel arrived, or none in time.
Abandoned(c) ==
    /\ Waits(c, "stopping")
    /\ LET reply == chan[c].reply
       IN  Answer(c, cause, Contained(reply.sent /\ reply.contained))
    /\ UNCHANGED <<deployment, cancelEvent, own, ns, chan>>

SeeBrokerEnd(c) ==
    /\ Waits(c, "watching") /\ own[c].stage = "gone"
    /\ pc' = "collecting"
    /\ UNCHANGED <<deployment, cancelEvent, alive, at, cause, result, own, ns, chan>>
Collect(c) ==
    /\ Waits(c, "collecting")
    /\ LET reply == chan[c].reply
           b == reply.sent /\ reply.contained
       IN  Answer(c, Classified(reply.exit, b), Contained(b))
    /\ UNCHANGED <<deployment, cancelEvent, own, ns, chan>>

-----------------------------------------------------------------------------
(* The owner of a namespace: the executor, or the broker's main. *)

Acts(c, stage) == own[c].stage = stage /\ (Brokered \/ Busy(c))

\* The owner ends, having killed what it can; an executor then answers.
GiveUp(c, kills, containment) ==
    /\ own' = [own EXCEPT ![c].stage = "gone"]
    /\ ns' = [ns EXCEPT ![c].killed = @ \cup kills]
    /\ IF Brokered THEN UNCHANGED executor ELSE Answer(c, "INFRA_FAILURE", containment)
    /\ UNCHANGED <<deployment, cancelEvent, chan>>
\* It goes on, and nobody else notices.
GoOn(c, stage) ==
    /\ own' = [own EXCEPT ![c].stage = stage]
    /\ UNCHANGED <<deployment, cancelEvent, executor, chan>>

BrokerBoots(c) ==
    /\ Acts(c, "boot")
    /\ \/ GoOn(c, "spawn") /\ Fork(c)
       \/ GiveUp(c, {}, "unknown")

\* Popen has returned.  Without a pidfd an executor gives the check up, having
\* killed the child by its handle; a broker goes on without.  The
\* configuration cannot be sent to a supervisor that is gone.
Attach(c) ==
    /\ Acts(c, "spawn") /\ ns[c].outside # "fork"
    /\ \/ /\ ~Brokered
          /\ GiveUp(c, {"unshare"}, "unknown")
       \/ /\ ns[c].outside = "gone"
          /\ GiveUp(c, {}, "unknown")
       \/ \E p \in BOOLEAN :
             /\ p \/ Brokered
             /\ own' = [own EXCEPT ![c].stage = "hello", ![c].pidfd = p]
             /\ UNCHANGED <<deployment, cancelEvent, executor, ns, chan>>

HearHello(c) ==
    /\ Acts(c, "hello") /\ ns[c].hello
    /\ GoOn(c, "discover")
    /\ ns' = [ns EXCEPT ![c].hello = FALSE]
HearNothing(c) ==
    /\ Acts(c, "hello") /\ ~ns[c].hello
    /\ GiveUp(c, Targets(own[c]), "failed")

\* discover_namespace_leader_v2
Discover(c) ==
    /\ Acts(c, "discover") /\ InitLives(c)
    /\ own' = [own EXCEPT ![c].stage = "ready", ![c].pinned = TRUE]
    /\ UNCHANGED <<deployment, cancelEvent, executor, ns, chan>>
DiscoverNothing(c) ==
    /\ Acts(c, "discover")
    /\ GiveUp(c, Targets(own[c]), "failed")

\* The subject may start.  When the supervisor is gone the send raises.
LetStart(c) ==
    /\ Acts(c, "ready")
    /\ IF InitLives(c)
       THEN /\ GoOn(c, IF Brokered THEN "announce" ELSE "watch")
            /\ ns' = [ns EXCEPT ![c].ready = TRUE]
       ELSE GiveUp(c, IF Brokered THEN Targets(own[c]) ELSE {}, "unknown")
\* Only then does the broker say so to the executor, if there is still one.
Announce(c) ==
    /\ Acts(c, "announce")
    /\ IF ExecutorShut(c)
       THEN GiveUp(c, Targets(own[c]), "unknown")
       ELSE /\ chan' = [chan EXCEPT ![c].ready = TRUE]
            /\ own' = [own EXCEPT ![c].stage = "watch"]
            /\ UNCHANGED <<deployment, cancelEvent, executor, ns>>

\* A broker reads the report as soon as it is there, an executor when the
\* child has exited; what was sent before the exit can still be read.
SeeEnd(c) ==
    /\ Acts(c, "watch")
    /\ ns[c].outside = "gone" \/ (Brokered /\ ns[c].report # "none")
    /\ own' = [own EXCEPT ![c].stage = "verify", ![c].took = ns[c].report]
    /\ UNCHANGED <<deployment, cancelEvent, executor, ns, chan>>

Cut(c) ==
    /\ own' = [own EXCEPT ![c].stage = "verify", ![c].cut = TRUE]
    /\ ns' = [ns EXCEPT ![c].killed = @ \cup Targets(own[c])]
\* The executor stops its own check.
CutOff(c, why) ==
    /\ ~Brokered /\ Acts(c, "watch") /\ Stops(why)
    /\ Cut(c)
    /\ cause' = why
    /\ UNCHANGED <<deployment, cancelEvent, alive, at, pc, result, chan>>
\* A mutant of Dismissed: the broker only looks for the message.
DismissedExpressly(c) == chan[c].cancel
\* The message, or _host_channel_closed_v2
Dismissed(c) == chan[c].cancel \/ ExecutorShut(c)
\* The broker is told to stop, or nobody is there any more.
BrokerCutOff(c) ==
    /\ Brokered /\ Acts(c, "watch") /\ Dismissed(c)
    /\ Cut(c)
    /\ UNCHANGED <<deployment, cancelEvent, executor, chan>>

\* The executor answers; the broker replies, if there is still somebody.
Conclude(c) ==
    /\ ~Brokered /\ Acts(c, "verify")
    /\ LET b == Verified(c)
       IN  Answer(c, IF own[c].cut THEN cause ELSE Classified(own[c].took, b), Contained(b))
    /\ own' = [own EXCEPT ![c].stage = "gone"]
    /\ UNCHANGED <<deployment, cancelEvent, ns, chan>>
\* A mutant of Reply: the exit status is that of the supervisor itself.
ReplyOfSupervisor(c) ==
    /\ Brokered /\ Acts(c, "verify")
    /\ chan' = IF ExecutorShut(c) THEN chan
               ELSE [chan EXCEPT ![c].reply = [sent |-> TRUE, contained |-> Verified(c),
                                               exit |-> IF own[c].cut THEN "none" ELSE "ok"]]
    /\ own' = [own EXCEPT ![c].stage = "gone"]
    /\ UNCHANGED <<deployment, cancelEvent, executor, ns>>
Reply(c) ==
    /\ Brokered /\ Acts(c, "verify")
    /\ chan' = IF ExecutorShut(c) THEN chan
               ELSE [chan EXCEPT ![c].reply =
                        [sent |-> TRUE, contained |-> Verified(c),
                         exit |-> IF own[c].cut THEN "none" ELSE own[c].took]]
    /\ own' = [own EXCEPT ![c].stage = "gone"]
    /\ UNCHANGED <<deployment, cancelEvent, executor, ns>>

-----------------------------------------------------------------------------
(* The supervisor and the subject. *)

InNamespace(c, next) ==
    /\ ns' = [ns EXCEPT ![c] = next]
    /\ UNCHANGED <<deployment, cancelEvent, executor, own, chan>>
Gone(c) == [ns[c] EXCEPT !.init = "gone"]

\* The configuration, or the end of the channel, has arrived.
Greet(c) ==
    /\ InitRuns(c) /\ ns[c].init = "config" /\ own[c].stage # "spawn"
    /\ InNamespace(c, IF OwnerShut(c) THEN Gone(c)
                      ELSE [ns[c] EXCEPT !.init = "blocked", !.hello = TRUE])
Leave(c) ==
    /\ InitRuns(c) /\ ns[c].init = "blocked" /\ ~ns[c].ready /\ OwnerShut(c)
    /\ InNamespace(c, Gone(c))
\* _exec_subject_v2: the child becomes the subject, or fails before.
Executed(c) == [ns[c] EXCEPT !.init = "waiting", !.fate = "running", !.inside = {"subject"}]
NotExecuted(c) == [ns[c] EXCEPT !.init = "waiting", !.fate = "setup"]
\* A mutant of Begin: the supervisor does not wait to be told.
BeginAtOnce(c) ==
    /\ InitRuns(c) /\ ns[c].init = "blocked"
    /\ \E next \in {Gone(c), Executed(c), NotExecuted(c)} : InNamespace(c, next)
\* The supervisor is told to go on: it forks, or fails to.
Begin(c) ==
    /\ InitRuns(c) /\ ns[c].init = "blocked" /\ ns[c].ready
    /\ \E next \in {Gone(c), Executed(c), NotExecuted(c)} : InNamespace(c, next)
Report(c) ==
    /\ InitRuns(c) /\ ns[c].init = "waiting" /\ ns[c].fate # "running"
    /\ InNamespace(c, [ns[c] EXCEPT !.init = "exiting",
                                    !.report = IF OwnerShut(c) THEN "none" ELSE ns[c].fate])
Exit(c) ==
    /\ InitRuns(c) /\ ns[c].init = "exiting"
    /\ InNamespace(c, Gone(c))
SupervisorStep(c) == Greet(c) \/ Leave(c) \/ Begin(c) \/ Report(c) \/ Exit(c)

\* The subject may leave processes behind, that end when they like.
Spread(c) ==
    /\ InitLives(c) /\ "subject" \in ns[c].inside /\ "descendant" \notin ns[c].inside
    /\ InNamespace(c, [ns[c] EXCEPT !.inside = @ \cup {"descendant"}])
SubjectEnds(c, fate) ==
    /\ InitLives(c) /\ "subject" \in ns[c].inside
    /\ InNamespace(c, [ns[c] EXCEPT !.inside = @ \ {"subject"}, !.fate = fate])
DescendantEnds(c) ==
    /\ InitLives(c) /\ "descendant" \in ns[c].inside
    /\ InNamespace(c, [ns[c] EXCEPT !.inside = @ \ {"descendant"}])
SubjectStep(c) ==
    Spread(c) \/ (\E fate \in {"ok", "bad"} : SubjectEnds(c, fate)) \/ DescendantEnds(c)

-----------------------------------------------------------------------------
(* The kernel, and what dies by itself. *)

\* set_pdeathsig_to_parent_v2, before the exec, which may fail
Arm(c) ==
    /\ ns[c].outside = "fork"
    /\ \E next \in (IF OwnerLives(c) THEN {"unshare", "gone"} ELSE {"gone"}) :
          InNamespace(c, [ns[c] EXCEPT !.outside = next])
Enter(c) ==
    /\ OutsideRuns(c) /\ ns[c].init = "none"
    /\ InNamespace(c, [ns[c] EXCEPT !.init = "config"])
\* `unshare' is killed, dies with its parent, fails, or exits after its child.
OutsideEnds(c) ==
    /\ ns[c].outside = "unshare"
    /\ \/ "unshare" \in ns[c].killed \/ ~OwnerLives(c)
       \/ ns[c].init \in {"none", "gone"}
    /\ InNamespace(c, [ns[c] EXCEPT !.outside = "gone"])
\* init is killed, or dies with `unshare' (--kill-child).
InitEnds(c) ==
    /\ InitLives(c)
    /\ "init" \in ns[c].killed \/ ns[c].outside = "gone"
    /\ InNamespace(c, Gone(c))
\* Without init the others are killed, one by one.
Reap(c) ==
    /\ ns[c].init = "gone"
    /\ \E p \in ns[c].inside :
          InNamespace(c, [ns[c] EXCEPT !.inside = @ \ {p},
                                       !.fate = IF p = "subject" THEN "killed" ELSE @])
KernelStep(c) == Arm(c) \/ Enter(c) \/ OutsideEnds(c) \/ InitEnds(c) \/ Reap(c)

SupervisorDies(c) ==
    /\ InitLives(c)
    /\ InNamespace(c, Gone(c))
BrokerDies(c) ==
    /\ Brokered /\ own[c].stage \notin {"none", "gone"}
    /\ GoOn(c, "gone") /\ UNCHANGED ns
ExecutorDies ==
    /\ alive /\ alive' = FALSE
    /\ UNCHANGED <<deployment, cancelEvent, at, pc, cause, result, own, ns, chan>>
Cancel ==
    /\ ~cancelEvent /\ cancelEvent' = TRUE
    /\ UNCHANGED <<deployment, executor, own, ns, chan>>

-----------------------------------------------------------------------------
OwnerStep(c) ==
    \/ BrokerBoots(c) \/ Attach(c) \/ HearHello(c) \/ HearNothing(c)
    \/ Discover(c) \/ DiscoverNothing(c) \/ LetStart(c) \/ Announce(c)
    \/ SeeEnd(c) \/ BrokerCutOff(c) \/ Conclude(c) \/ Reply(c)
    \/ \E why \in {"CANCELLED", "TIMEOUT"} : CutOff(c, why)
ExecutorStep ==
    \/ RefusePlan
    \/ \E c \in Checks :
          \/ Decline(c) \/ BeginDirect(c) \/ BeginBroker(c)
          \/ Proceed(c) \/ NotReady(c) \/ Abandoned(c) \/ SeeBrokerEnd(c) \/ Collect(c)
          \/ \E why \in {"CANCELLED", "TIMEOUT"} : Abandon(c, why)
Faults(c) == SupervisorDies(c) \/ BrokerDies(c)

Next ==
    \/ ExecutorStep \/ ExecutorDies \/ Cancel
    \/ \E c \in Checks :
          OwnerStep(c) \/ SupervisorStep(c) \/ SubjectStep(c) \/ KernelStep(c) \/ Faults(c)

\* Executor and brokers only wait for a time; kernel and supervisor run while
\* they live.  Nothing is assumed of the subject and what it leaves behind.
Fairness ==
    /\ WF_vars(ExecutorStep)
    /\ \A c \in Checks :
          WF_vars(OwnerStep(c)) /\ WF_vars(SupervisorStep(c)) /\ WF_vars(KernelStep(c))
Spec == Init /\ [][Next]_vars /\ Fairness

-----------------------------------------------------------------------------
(* Properties. *)

\* A result that says the containment was verified stays true: nothing lives in
\* the check's namespace then, or at any time after.
ContainedIsEmpty ==
    \A c \in Checks : result[c].containment = "verified" => ~Live(c)

\* A success is an exit 0 of the subject itself, in a namespace that was left
\* empty, and a failure an exit of the subject itself with anything else: what
\* the harness, a kill or a death does is neither.
VerdictIsTrue ==
    \A c \in Checks :
       /\ result[c].outcome = "SUCCESS" => ns[c].fate = "ok" /\ ~Live(c)
       /\ result[c].outcome = "FAILURE" => ns[c].fate = "bad"

\* A subject starts only when its check may run under this authority, and after
\* its owner has pinned the namespace it starts in; where the executor is the
\* owner, also never after the check was answered.
Starts(c) == "subject" \notin ns[c].inside /\ "subject" \in ns'[c].inside
StartsPinned ==
    [][\A c \in Checks : Starts(c) =>
          /\ own[c].pinned /\ ~Refused(c)
          /\ ~Brokered => result[c] = Unanswered]_vars

\* What a check's docs promise of every owner: no subject starts once its check
\* has been answered.
StartsInTime ==
    [][\A c \in Checks : Starts(c) => result[c] = Unanswered]_vars

\* Once its check is answered, or the executor is dead, everything that was
\* started for it is gone in the end, however long it wanted to run.
Quiet(c) == ns[c].outside \in {"none", "gone"} /\ ~Live(c)
NoOrphans ==
    \A c \in Checks : (~alive \/ result[c] # Unanswered) ~> Quiet(c)

\* While the executor lives every check of the plan gets its result.
EveryCheckAnswered == <>(~alive \/ \A c \in Checks : result[c] # Unanswered)

=============================================================================
