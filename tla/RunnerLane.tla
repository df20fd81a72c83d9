----------------------------- MODULE RunnerLane -----------------------------
(***************************************************************************)
(* A workflow task that runs on a runner, from the scheduling request to   *)
(* the acknowledged result (runner_scheduler.rs, result_reconciler.rs, the *)
(* runner half of executor.rs with the v2 gate of                          *)
(* expression_completion.rs, approval.rs, lease_reaper.rs and the attempt  *)
(* rows of repositories.rs).  The task may ask for an approval of its      *)
(* result; an approved result is carried out by a second, fixed-action     *)
(* execution.  Several schedulers and reconcilers share one database; the  *)
(* execution authority they talk to keeps the requests and the attempts.   *)
(* A reconciler works on a page fetched earlier, so it may meet a result   *)
(* that another one has acknowledged since; how pages are walked is the    *)
(* subject of ResultSweep.                                                 *)
(***************************************************************************)
EXTENDS Naturals, Sequences, FiniteSets

CONSTANTS
    Scheduler,     \* RunnerScheduler instances
    Reconciler,    \* ResultReconciler instances
    Setups,        \* the kinds of task to consider
    MaxAttempts,   \* bound: attempts the authority creates
    MaxFaults      \* bound: lost answers and crashes

VARIABLES
    setup,       \* profile and policy of the task, never changed
    row,         \* its task_info_t, process_info_t and invocation rows
    approval,    \* its workflow_approval_t row
    request,     \* runner_scheduling_request_t: the run and the fixed action
    attempts,    \* execution_attempt_t, in the order of attempt_number
    scheduler,   \* where each scheduler is
    reconciler,  \* where each reconciler is, and with which result
    faults       \* bound on what may go wrong

vars == <<setup, row, approval, request, attempts, scheduler, reconciler, faults>>

ASSUME LaneAssumption == MaxAttempts \in Nat /\ MaxFaults \in Nat
ASSUME SetupAssumption ==
    Setups \subseteq [profile : {"v1", "v2"}, approval : BOOLEAN, last : BOOLEAN]

V2 == setup.profile = "v2"

(* moves counts the transitions the task's result has caused.              *)
Init ==
    /\ setup \in Setups
    /\ row = [status |-> "A", linked |-> FALSE, accepted |-> 0, marker |-> "none",
              proc |-> "A", ended |-> FALSE, moves |-> 0]
    /\ approval = [state |-> "none", consumer |-> 0]
    /\ request = [run |-> "none", fixed |-> "none"]
    /\ attempts = <<>>
    /\ scheduler = [s \in Scheduler |-> "idle"]
    /\ reconciler = [r \in Reconciler |-> [pc |-> "idle", item |-> 0]]
    /\ faults = 0

-----------------------------------------------------------------------------
(* The scheduler: create_pending_request.                                  *)

(* live_selection, and a parent that is not blocked.                       *)
ParentLive == row.proc \in {"A", "W"} /\ ~row.ended

(* A bug: a task whose request exists is not claimed again.                *)
ScheduleClaimNew(s) ==
    /\ scheduler[s] = "idle"
    /\ row.status = "A" /\ ~row.linked /\ row.accepted = 0
    /\ request.run = "none"
    /\ ParentLive
    /\ scheduler' = [scheduler EXCEPT ![s] = "claimed"]
    /\ UNCHANGED <<setup, row, approval, request, attempts, reconciler, faults>>

(* The claim holds a row lock only until its transaction commits, before   *)
(* the request is submitted.                                               *)
ScheduleClaim(s) ==
    /\ scheduler[s] = "idle"
    /\ row.status = "A" /\ ~row.linked /\ row.accepted = 0
    /\ ParentLive
    /\ scheduler' = [scheduler EXCEPT ![s] = "claimed"]
    /\ UNCHANGED <<setup, row, approval, request, attempts, reconciler, faults>>

Submitted == [request EXCEPT !.run = IF @ = "none" THEN "PENDING_CAPACITY" ELSE @]

(* submit_request: the task is the request's identity, so a repeated       *)
(* submission finds the first.                                             *)
ScheduleSubmit(s) ==
    /\ scheduler[s] = "claimed"
    /\ request' = Submitted
    /\ scheduler' = [scheduler EXCEPT ![s] = "submitted"]
    /\ UNCHANGED <<setup, row, approval, attempts, reconciler, faults>>

(* The answer is lost or the scheduler dies, before or after the request   *)
(* arrived.                                                                *)
ScheduleFails(s) ==
    /\ faults < MaxFaults
    /\ scheduler[s] # "idle"
    /\ request' \in (IF scheduler[s] = "claimed" THEN {request, Submitted} ELSE {request})
    /\ scheduler' = [scheduler EXCEPT ![s] = "idle"]
    /\ faults' = faults + 1
    /\ UNCHANGED <<setup, row, approval, attempts, reconciler>>

(* The conditional update of scheduling_request_id; the loser only reports *)
(* an error.                                                               *)
ScheduleLink(s) ==
    /\ scheduler[s] = "submitted"
    /\ row' = IF ~row.linked /\ (V2 => row.status = "A" /\ ParentLive)
              THEN [row EXCEPT !.linked = TRUE]
              ELSE row
    /\ scheduler' = [scheduler EXCEPT ![s] = "idle"]
    /\ UNCHANGED <<setup, approval, request, attempts, reconciler, faults>>

-----------------------------------------------------------------------------
(* The execution authority.                                                *)

(* started is set once and for all by the runner's report; safe marks an   *)
(* attempt that was given back to the queue.                               *)
NewAttempt(kind) ==
    [kind |-> kind, state |-> "CREATED", started |-> FALSE, safe |-> FALSE, acked |-> FALSE]

(* A runner with capacity is reserved for the request and claim_reserved_- *)
(* request with create_attempt_from_reservation makes the attempt.  The    *)
(* authority lets an approval be consumed by one execution.                *)
CreateAttempt(kind) ==
    /\ request[kind] = "PENDING_CAPACITY"
    /\ Len(attempts) < MaxAttempts
    /\ attempts' = Append(attempts, NewAttempt(kind))
    /\ request' = [request EXCEPT ![kind] = "ATTEMPT_CREATED"]
    /\ IF kind = "fixed"
       THEN /\ approval.state = "APPROVED"
            /\ approval' = [state |-> "CONSUMED", consumer |-> Len(attempts) + 1]
       ELSE UNCHANGED approval
    /\ UNCHANGED <<setup, row, scheduler, reconciler, faults>>

(* The runner's report that it starts, and its terminal report; both name  *)
(* the attempt's lease and are refused once the attempt has ended.         *)
Start(a) ==
    /\ attempts[a].state = "CREATED"
    /\ attempts' = [attempts EXCEPT ![a].state = "STARTED", ![a].started = TRUE]
    /\ UNCHANGED <<setup, row, approval, request, scheduler, reconciler, faults>>

Report(a) ==
    /\ attempts[a].state = "STARTED"
    /\ \E state \in {"SUCCEEDED", "FAILED"} :
           attempts' = [attempts EXCEPT ![a].state = state]
    /\ UNCHANGED <<setup, row, approval, request, scheduler, reconciler, faults>>

(* A bug: a state the result protocol does not have.                       *)
ReapAsExpired(a) ==
    /\ attempts[a].state \in {"CREATED", "STARTED"}
    /\ attempts' = [attempts EXCEPT ![a].state = "EXPIRED"]
    /\ UNCHANGED <<setup, row, approval, request, scheduler, reconciler, faults>>

(* A bug: an attempt that has started goes back to the queue.              *)
ReapAlwaysSafe(a) ==
    /\ attempts[a].state \in {"CREATED", "STARTED"}
    /\ attempts' = [attempts EXCEPT ![a] =
                       [@ EXCEPT !.state = "CANCELLED", !.safe = TRUE, !.acked = TRUE]]
    /\ request' = [request EXCEPT ![attempts[a].kind] = "PENDING_CAPACITY"]
    /\ UNCHANGED <<setup, row, approval, scheduler, reconciler, faults>>

(* LeaseReaper::run_once, for a lease that has run out: what never started *)
(* goes back to the queue, what started has an unknown outcome.            *)
Reap(a) ==
    /\ attempts[a].state \in {"CREATED", "STARTED"}
    /\ IF attempts[a].state = "CREATED"
       THEN /\ attempts' = [attempts EXCEPT ![a] =
                               [@ EXCEPT !.state = "CANCELLED", !.safe = TRUE, !.acked = TRUE]]
            /\ request' = [request EXCEPT ![attempts[a].kind] = "PENDING_CAPACITY"]
       ELSE /\ attempts' = [attempts EXCEPT ![a].state = "UNKNOWN"]
            /\ UNCHANGED request
    /\ UNCHANGED <<setup, row, approval, scheduler, reconciler, faults>>

-----------------------------------------------------------------------------
(* What a reconciled result does to the rows.                              *)

Fixed(a) == approval.state = "CONSUMED" /\ approval.consumer = a

(* advance_transition: a successor, or the end of the process.             *)
Advance(x) == [x EXCEPT !.moves = @ + 1, !.proc = IF setup.last THEN "C" ELSE @]

(* sync_invocation_state.                                                  *)
Sync(x) == [x EXCEPT !.ended = @ \/ x.proc \in {"C", "F"}]

(* record_failure.                                                         *)
RecordFailure(x) ==
    [x EXCEPT !.status = "F", !.marker = "FAILED", !.proc = "F", !.ended = TRUE]

(* w4_transition; the exports may fail to evaluate.                        *)
TransitionV2(x, evaluates) ==
    IF evaluates
    THEN Sync(Advance([x EXCEPT !.status = "C", !.marker = "DONE", !.proc = "A"]))
    ELSE RecordFailure(x)

(* finish_task of a v1 task, whose update of the row has no condition.     *)
FinishV1(x, ok) ==
    IF ok THEN Sync(Advance([x EXCEPT !.status = "C"]))
          ELSE Sync([x EXCEPT !.status = "F", !.proc = "F"])

(* finish_runner_task_waiting_approval.                                    *)
WaitForApproval(x) ==
    [x EXCEPT !.status = "C", !.marker = IF V2 THEN "PENDING" ELSE @,
              !.proc = IF @ = "A" THEN "W" ELSE @]

(* reconcile_fixed_action_attempt.  A v1 process is written without a      *)
(* condition, except that it only resumes from W.                          *)
FixedAction(x, state, evaluates) ==
    CASE state = "UNKNOWN" -> [x EXCEPT !.proc = "W"]
      [] state = "FAILED" ->
            IF V2 THEN RecordFailure(x) ELSE [x EXCEPT !.proc = "F"]
      [] OTHER ->
            IF V2 THEN TransitionV2(x, evaluates)
            ELSE Advance([x EXCEPT !.proc = IF @ = "W" THEN "A" ELSE @])

-----------------------------------------------------------------------------
(* The reconciler: reconcile_item.                                         *)

Terminal == {"SUCCEEDED", "FAILED", "CANCELLED", "UNKNOWN"}

(* A bug: an ended process hides that the result was applied.              *)
GateChecksParentFirst(a) ==
    CASE ~V2 -> "ready"
      [] V2 /\ ~ParentLive -> "deferred"
      [] V2 /\ ParentLive /\ row.marker \in {"DONE", "FAILED"} -> "replay"
      [] OTHER -> "ready"

(* A bug: a task without its request counts as done.                       *)
GateReplaysUnlinked(a) ==
    IF V2 /\ ~Fixed(a) /\ (row.marker # "none" \/ ~row.linked) THEN "replay" ELSE "ready"

(* w4_runner_gate.                                                         *)
Gate(a) ==
    CASE ~V2 -> "ready"
      [] V2 /\ row.marker \in {"DONE", "FAILED"} -> "replay"
      [] V2 /\ row.marker \in {"none", "PENDING"} /\ ~ParentLive -> "deferred"
      [] V2 /\ row.marker = "PENDING" /\ ParentLive /\ ~Fixed(a) -> "replay"
      [] V2 /\ row.marker = "none" /\ ParentLive /\ ~Fixed(a)
            /\ ~(attempts[a].kind = "run" /\ row.linked /\ row.status = "A" /\ row.accepted = 0)
                -> "deferred"
      [] OTHER -> "ready"

(* The first gate, before the result is parsed and its artifacts promoted. *)
(* A result that is acknowledged already is met only on a page that was    *)
(* fetched before another instance acknowledged it.                        *)
Examine(r, a) ==
    /\ reconciler[r].pc = "idle"
    /\ attempts[a].state \in Terminal
    /\ ~attempts[a].safe
    /\ attempts[a].acked => Reconciler # {r}
    /\ Gate(a) # "deferred"
    /\ reconciler' = [reconciler EXCEPT ![r] =
                        [pc |-> IF Gate(a) = "replay" THEN "ack" ELSE "gated", item |-> a]]
    /\ UNCHANGED <<setup, row, approval, request, attempts, scheduler, faults>>

(* A bug: a task that has completed accepts another result.                *)
AcceptsClosed(a) == attempts[a].state # "UNKNOWN" /\ row.status \in {"A", "C"}

(* A bug: neither the row nor an earlier result is looked at.              *)
AcceptsAnything(a) == attempts[a].state # "UNKNOWN"

(* conditionally_accept_terminal_attempt.                                  *)
Accepts(a) ==
    attempts[a].state # "UNKNOWN" /\ row.accepted = 0 /\ row.status = "A"

(* The rows after a result that is ready; the row of a v1 task is closed   *)
(* by the same transaction that accepts the result.                        *)
Applied(a, evaluates) ==
    LET x  == [row EXCEPT !.accepted = a]
        ok == attempts[a].state = "SUCCEEDED"
    IN  CASE Fixed(a) -> FixedAction(row, attempts[a].state, evaluates)
          [] ~Fixed(a) /\ ok /\ setup.approval -> WaitForApproval(x)
          [] ~Fixed(a) /\ V2 /\ ~(ok /\ setup.approval) ->
                 IF ok THEN TransitionV2(x, evaluates) ELSE RecordFailure(x)
          [] OTHER -> FinishV1(x, ok)

(* reconcile_runner_attempt behind the second gate, in one transaction.    *)
(* The acknowledgement is a call of its own.                               *)
Reconcile(r) ==
    LET a == reconciler[r].item IN
    /\ reconciler[r].pc = "gated"
    /\ IF Gate(a) = "ready" /\ (Fixed(a) \/ Accepts(a))
       THEN /\ \E evaluates \in BOOLEAN : row' = Applied(a, evaluates)
            /\ approval' = IF ~Fixed(a) /\ attempts[a].state = "SUCCEEDED" /\ setup.approval
                           THEN [approval EXCEPT !.state = "REQUESTED"]
                           ELSE approval
            /\ reconciler' = [reconciler EXCEPT ![r].pc = "ack"]
       ELSE /\ reconciler' = [reconciler EXCEPT ![r].pc =
                                IF Gate(a) = "replay" THEN "ack" ELSE "idle"]
            /\ UNCHANGED <<row, approval>>
    /\ UNCHANGED <<setup, request, attempts, scheduler, faults>>

(* acknowledge_result.                                                     *)
Acknowledge(r) ==
    /\ reconciler[r].pc = "ack"
    /\ attempts' = [attempts EXCEPT ![reconciler[r].item].acked = TRUE]
    /\ reconciler' = [reconciler EXCEPT ![r].pc = "idle"]
    /\ UNCHANGED <<setup, row, approval, request, scheduler, faults>>

(* The call fails, an artifact cannot be promoted or the service dies.     *)
ReconcileFails(r) ==
    /\ faults < MaxFaults
    /\ reconciler[r].pc # "idle"
    /\ reconciler' = [reconciler EXCEPT ![r].pc = "idle"]
    /\ faults' = faults + 1
    /\ UNCHANGED <<setup, row, approval, request, attempts, scheduler>>

-----------------------------------------------------------------------------
(* The approval service, the cancel API and the rest of the process.       *)

(* approve: the request for the fixed action and the decision are one      *)
(* transaction, which does not look at the process.                        *)
Approve ==
    /\ approval.state = "REQUESTED"
    /\ approval' = [approval EXCEPT !.state = "APPROVED"]
    /\ request' = [request EXCEPT !.fixed = "PENDING_CAPACITY"]
    /\ UNCHANGED <<setup, row, attempts, scheduler, reconciler, faults>>

(* decide_terminal and expire_due.                                         *)
Refuse ==
    /\ approval.state = "REQUESTED"
    /\ \/ /\ approval' = [approval EXCEPT !.state = "REJECTED"]
          /\ row' = [row EXCEPT !.proc = "F"]
       \/ /\ approval' = [approval EXCEPT !.state = "EXPIRED"]
          /\ row' = [row EXCEPT !.proc = IF @ = "W" THEN "F" ELSE @]
    /\ UNCHANGED <<setup, request, attempts, scheduler, reconciler, faults>>

(* cancel_invocation: a runner task raises no effect state, so the         *)
(* invocation is cancelled outright.  The requests and attempts stay.      *)
Cancel ==
    /\ ~row.ended
    /\ row' = [row EXCEPT !.ended = TRUE,
                          !.status = IF @ = "A" THEN "F" ELSE @,
                          !.proc = IF @ \in {"A", "W"} THEN "F" ELSE @]
    /\ UNCHANGED <<setup, approval, request, attempts, scheduler, reconciler, faults>>

(* The tasks that follow complete the process.                             *)
RestCompletes ==
    /\ row.moves > 0
    /\ row.proc = "A"
    /\ row' = [row EXCEPT !.proc = "C", !.ended = TRUE]
    /\ UNCHANGED <<setup, approval, request, attempts, scheduler, reconciler, faults>>

-----------------------------------------------------------------------------

SchedulerStep(s) == ScheduleClaim(s) \/ ScheduleSubmit(s) \/ ScheduleLink(s)

ReconcilerStep(r) ==
    Reconcile(r) \/ Acknowledge(r) \/ \E a \in DOMAIN attempts : Examine(r, a)

Authority ==
    \/ \E kind \in {"run", "fixed"} : CreateAttempt(kind)
    \/ \E a \in DOMAIN attempts : Start(a) \/ Report(a) \/ Reap(a)

Next ==
    \/ \E s \in Scheduler : SchedulerStep(s) \/ ScheduleFails(s)
    \/ \E r \in Reconciler : ReconcilerStep(r) \/ ReconcileFails(r)
    \/ Authority
    \/ Approve \/ Refuse \/ Cancel \/ RestCompletes

Spec == Init /\ [][Next]_vars

(* The loops run for as long as the service; a sweep comes to every result *)
(* that is not acknowledged (Drained of ResultSweep), as long as no result *)
(* of another task poisons it: that exception of Drained is assumed away   *)
(* here.  The authority, the runner, the approver and the owner of the     *)
(* invocation promise nothing.                                             *)
Fairness ==
    /\ \A s \in Scheduler : WF_vars(SchedulerStep(s))
    /\ \A r \in Reconciler :
          /\ WF_vars(Reconcile(r) \/ Acknowledge(r))
          /\ \A a \in 1..MaxAttempts :
                SF_vars(/\ a \in DOMAIN attempts
                        /\ ~attempts[a].acked
                        /\ Examine(r, a))

FairSpec == Spec /\ Fairness

-----------------------------------------------------------------------------
(* Every row keeps its type.                                               *)
LaneTypeOK ==
    /\ setup \in Setups
    /\ row \in [status : {"A", "C", "F"}, linked : BOOLEAN, accepted : 0..MaxAttempts,
                marker : {"none", "PENDING", "DONE", "FAILED"},
                proc : {"A", "W", "C", "F"}, ended : BOOLEAN, moves : Nat]
    /\ approval \in [state : {"none", "REQUESTED", "APPROVED", "REJECTED", "EXPIRED", "CONSUMED"},
                     consumer : 0..MaxAttempts]
    /\ request \in [{"run", "fixed"} -> {"none", "PENDING_CAPACITY", "ATTEMPT_CREATED"}]
    /\ attempts \in Seq([kind : {"run", "fixed"}, started : BOOLEAN, safe : BOOLEAN, acked : BOOLEAN,
                         state : {"CREATED", "STARTED"} \cup Terminal])
    /\ Len(attempts) <= MaxAttempts
    /\ scheduler \in [Scheduler -> {"idle", "claimed", "submitted"}]
    /\ reconciler \in [Reconciler -> [pc : {"idle", "gated", "ack"}, item : 0..MaxAttempts]]
    /\ faults \in 0..MaxFaults

-----------------------------------------------------------------------------
(* Properties.                                                             *)

(* However often a result is fetched, examined by several reconcilers,     *)
(* reconciled without its acknowledgement and fetched again, it moves the  *)
(* process once.                                                           *)
MovesOnce == row.moves <= 1

(* An acknowledged result is not lost: its task no longer waits for it,    *)
(* and a fixed action that was carried out has moved the process or come   *)
(* after its end.                                                          *)
AcknowledgedIsSettled ==
    \A a \in DOMAIN attempts :
        (attempts[a].acked /\ ~attempts[a].safe) =>
            /\ row.status # "A"
            /\ (attempts[a].kind = "fixed" /\ attempts[a].state = "SUCCEEDED")
                    => row.moves = 1 \/ row.proc = "F"

(* The task and its fixed action are each started on one runner at most:   *)
(* only an attempt that never started is followed by another, however its  *)
(* lease ended and however often the request was submitted.                *)
StartedOnce ==
    \A kind \in {"run", "fixed"} :
        Cardinality({a \in DOMAIN attempts : attempts[a].kind = kind /\ attempts[a].started}) <= 1

(* Late results, decisions and links do not reopen what has ended: a       *)
(* process that has completed or failed, and a task that has failed.       *)
NoReopening ==
    [][/\ row.proc \in {"C", "F"} => row'.proc = row.proc
       /\ row.status = "F" => row'.status = "F"]_vars

(* An open task of a live process is linked to its request or ends, lost   *)
(* answers and crashed schedulers notwithstanding.                         *)
Scheduled == [](row.status = "A" => <>(row.linked \/ row.status # "A"))

(* What a v2 task accepted is acknowledged in the end, after a lost        *)
(* acknowledgement too: a repeated delivery is recognised even when the    *)
(* process has ended, unless it ended while the approval was pending.  The *)
(* result is taken to be reached by the sweep, so a poisoned result of     *)
(* another task that holds the sweep up is outside this property.          *)
AcceptedIsAcknowledged ==
    \A a \in 1..MaxAttempts :
        (V2 /\ row.accepted = a)
            ~> \/ a \in DOMAIN attempts /\ attempts[a].acked
               \/ row.marker = "PENDING" /\ ~ParentLive

=============================================================================
