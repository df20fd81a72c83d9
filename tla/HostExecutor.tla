---------------------------- MODULE HostExecutor ----------------------------
(***************************************************************************)
(* One workflow invocation as light-workflow's host executors run it       *)
(* (executor.rs, expression_completion.rs, durable_timer.rs, the cancel    *)
(* API of rule_api.rs and the functions of the operational store).  The    *)
(* database is one record and a transaction one step that maps it to its   *)
(* successor; several executors share it, each at its own place between    *)
(* two transactions.  Statements the code issues outside a transaction     *)
(* are steps of their own, and so is the count in reconcile_compensation-  *)
(* _task, which reads, at READ COMMITTED, rows nobody holds a lock on.     *)
(***************************************************************************)
EXTENDS Naturals, Sequences, FiniteSets

CONSTANTS
    Worker,         \* the executors, each with its worker_id
    NoWorker,       \* lease_owner NULL
    Setups,         \* the definitions and admissions to consider
    MaxFaults,      \* bound: lost leases, abandoned tasks, deferrals
    MaxUndo         \* bound: compensation rows before another cancellation

VARIABLES
    setup,    \* the admitted definition, never changed
    db,       \* the rows of this invocation
    budget,   \* task_attempt_used and task_attempt_reserved
    late,     \* deadline_ts has passed
    worker,   \* what each executor is doing
    sent,     \* the requests that left, and the steps they belong to
    faults    \* bound on what may go wrong

vars == <<setup, db, budget, late, worker, sent, faults>>

ASSUME HostAssumption ==
    /\ NoWorker \notin Worker
    /\ MaxFaults \in Nat
    /\ MaxUndo \in Nat
    /\ IsFiniteSet(Worker)

End      == "end"

(* A definition names its own steps, as the validation at admission says.  *)
ASSUME SetupAssumption ==
    \A s \in Setups :
        /\ s.first \in DOMAIN s.steps
        /\ s.limit \in Nat
        /\ \A x \in DOMAIN s.steps :
              /\ s.steps[x].next \in DOMAIN s.steps \cup {End}
              /\ s.steps[x].undo \in DOMAIN s.steps \cup {End}
              /\ s.steps[x].branches \in Seq(DOMAIN s.steps)

Live     == {"ACCEPTED", "RUNNING", "WAITING"}
Terminal == {"COMPLETED", "FAILED", "CANCELLED"}
V2       == setup.profile = "v2"

(* A row of task_info_t, with its workflow_fork_branch_t and               *)
(* workflow_task_timer_t rows.  A row with a deadline_ts is timed: its     *)
(* lease, LEAST(deadline_ts, ...), lapses with the deadline.               *)
NewRow(step, timed) ==
    [step |-> step, status |-> "A", owner |-> NoWorker, fence |-> 0, lapsed |-> FALSE,
     attempt |-> 1, effect |-> "none", undo |-> FALSE, branch |-> "none",
     timed |-> timed, timer |-> "none"]

Idle == [pc |-> "idle", task |-> 0, fence |-> 0, out |-> "NONE"]

Init ==
    /\ setup \in Setups
    /\ db = [state |-> "ACCEPTED", effect |-> "none", proc |-> "A", join |-> "none",
             tasks |-> <<NewRow(setup.first, TRUE)>>,
             ledger |-> [s \in DOMAIN setup.steps |-> "none"]]
    /\ budget = [used |-> 0, reserved |-> 0]
    /\ late = FALSE
    /\ worker = [w \in Worker |-> Idle]
    /\ sent = [count |-> 0, steps |-> {}]
    /\ faults = 0

-----------------------------------------------------------------------------
(* What the code looks up.                                                 *)

Task(t)   == setup.steps[db.tasks[t].step]
Row(w)    == db.tasks[worker[w].task]
Expired(r) == r.lapsed \/ (r.timed /\ late)

(* A bug: a success is taken again after the lease has gone.               *)
HoldsOrRepeats(w) ==
    /\ worker[w].task \in DOMAIN db.tasks
    /\ \/ Row(w).owner = w /\ Row(w).fence = worker[w].fence /\ ~Expired(Row(w))
       \/ Row(w).status = "C" /\ worker[w].out = "OK"

(* lease_owner, lease_fencing_token and lease_expires_ts still stand.      *)
Holds(w) ==
    /\ worker[w].task \in DOMAIN db.tasks
    /\ Row(w).owner = w
    /\ Row(w).fence = worker[w].fence
    /\ ~Expired(Row(w))

(* The parent lock_parent reads is not blocked and not past its deadline.  *)
ParentLive == db.proc \in {"A", "W"} /\ db.state \in Live /\ ~late

(* What the completion of a task must still find: the lease, and for a v2  *)
(* process w6_state_authority.                                             *)
Authority(w) == Holds(w) /\ (V2 => ParentLive /\ Row(w).status = "A")

-----------------------------------------------------------------------------
(* Updates of the rows.                                                    *)

(* A bug: the trigger that stops the timer is missing.                     *)
ClosedKeepsTimer(r, s) ==
    [r EXCEPT !.status = s, !.owner = NoWorker, !.lapsed = FALSE]

(* A row that reaches status s loses its lease; the trigger on a failed    *)
(* wait task stops its timer.                                              *)
Closed(r, s) ==
    [r EXCEPT !.status = s, !.owner = NoWorker, !.lapsed = FALSE,
              !.timer = IF s = "F" /\ @ = "ARMED" THEN "STOPPED" ELSE @]

CloseRow(d, t, s) == [d EXCEPT !.tasks[t] = Closed(@, s)]

CloseRows(d, T, s) ==
    [d EXCEPT !.tasks = [t \in DOMAIN @ |-> IF t \in T THEN Closed(@[t], s) ELSE @[t]]]

Open(d) == {t \in DOMAIN d.tasks : d.tasks[t].status \in {"A", "W"}}

FailProcess(d) == [d EXCEPT !.proc = IF @ \in {"A", "W"} THEN "F" ELSE @]

MoveInvocation(d, from, to) == [d EXCEPT !.state = IF @ \in from THEN to ELSE @]

(* durable_timer::stop.                                                    *)
Stop(d, t) == MoveInvocation(FailProcess(CloseRow(d, t, "F")), Live, "FAILED")

(* fail_invocation_budget.                                                 *)
FailBudget(d, t) ==
    MoveInvocation(FailProcess(CloseRow(d, t, "F")), Live \cup {"COMPENSATING"}, "FAILED")

(* A bug: an invocation that has ended is not left alone.                  *)
SyncReopens(d, valid) ==
    [d EXCEPT !.state = CASE d.proc = "C" -> "COMPLETED" [] d.proc = "F" -> "FAILED"
                          [] d.proc = "W" -> "WAITING" [] OTHER -> "RUNNING"]

(* A bug: a process that failed is not reported.                           *)
SyncHidesFailure(d, valid) ==
    [d EXCEPT !.state = IF @ \in Terminal THEN @
                        ELSE IF d.proc = "C" THEN "COMPLETED" ELSE "RUNNING"]

(* sync_invocation_state; the public output may prove invalid.             *)
Sync(d, valid) ==
    [d EXCEPT !.state =
        IF @ \in Terminal THEN @
        ELSE CASE d.proc = "C" -> IF valid THEN "COMPLETED" ELSE "FAILED"
               [] d.proc = "F" -> "FAILED"
               [] d.proc = "W" -> "WAITING"
               [] OTHER        -> "RUNNING"]

(* advance_transition: the next task, without a deadline of its own, or    *)
(* the end of the process.  w4_transition first takes the process to A.    *)
Advance(d, step) ==
    LET next == setup.steps[step].next
    IN  IF next = End
        THEN [d EXCEPT !.proc = "C"]
        ELSE [d EXCEPT !.tasks = Append(@, NewRow(next, FALSE)),
                       !.proc = IF V2 THEN "A" ELSE @]

(* start_fork.                                                             *)
StartFork(d, step) ==
    [d EXCEPT !.join = "RUNNING",
              !.tasks = @ \o [i \in 1..Len(setup.steps[step].branches) |->
                  [NewRow(setup.steps[step].branches[i], TRUE)
                      EXCEPT !.branch = "RUNNING"]]]

Branches(d) == {t \in DOMAIN d.tasks : d.tasks[t].branch # "none"}

InState(d, s) == {t \in Branches(d) : d.tasks[t].branch = s}

(* A bug: one completed branch is enough for every fork.                   *)
JoinSuccessAny(d, compete) == InState(d, "COMPLETED") # {}

(* fork_status.                                                            *)
JoinTerminal(d, compete) ==
    InState(d, "RUNNING") = {} \/ (compete /\ InState(d, "COMPLETED") # {})

JoinSuccess(d, compete) ==
    IF compete THEN InState(d, "COMPLETED") # {} ELSE InState(d, "FAILED") = {}

(* The rows of the fork that wait for its join: W4_FORK_PENDING.           *)
Pending(d, fork) ==
    {u \in DOMAIN d.tasks :
        d.tasks[u].step = fork /\ ~d.tasks[u].undo /\ d.tasks[u].status = "C"}

(* w4_transition of a fork whose exports or whose public output cannot be  *)
(* evaluated: record_failure fails the row, completed as it is, and the    *)
(* process with it.                                                        *)
FailFork(d, fork) == [CloseRows(d, Pending(d, fork), "F") EXCEPT !.proc = "F"]

(* reconcile_fork_branch: the branch is recorded; a competing fork ends    *)
(* with its first success and cancels what still runs, the other kind ends *)
(* with its last branch.  The fork of a v2 process is continued only if    *)
(* its own expressions are valid.                                          *)
BranchDone(d, t, ok, valid) ==
    LET fork     == CHOOSE s \in DOMAIN setup.steps : setup.steps[s].kind = "fork"
        compete  == setup.steps[fork].compete
        state    == d.tasks[t].branch
        counted  == [d EXCEPT !.tasks[t].branch =
                        IF state # "RUNNING" THEN state
                        ELSE IF ok THEN "COMPLETED" ELSE "FAILED"]
        terminal == JoinTerminal(counted, compete)
        success  == JoinSuccess(counted, compete)
        losers   == IF compete THEN InState(counted, "RUNNING") ELSE {}
        cut      == [counted EXCEPT !.tasks = [u \in DOMAIN @ |->
                        IF u \in losers THEN [@[u] EXCEPT !.branch = "CANCELLED"] ELSE @[u]]]
        active   == {u \in Branches(cut) : cut.tasks[u].status = "A"}
    IN  CASE d.join # "RUNNING" \/ ~terminal -> counted
          [] d.join = "RUNNING" /\ terminal /\ success ->
               LET joined == [CloseRows(cut, IF compete THEN active ELSE {}, "F")
                                 EXCEPT !.join = "COMPLETED"]
               IN  IF V2 /\ ~valid THEN FailFork(joined, fork) ELSE Advance(joined, fork)
          [] OTHER -> [counted EXCEPT !.join = "FAILED", !.proc = "F"]

(* finish_task from the update of the row on, and finish_task_v2 with      *)
(* w4_transition and w4_failed_task: the v2 path synchronises the          *)
(* invocation when it advances the process or a task fails, not when a     *)
(* branch succeeds without completing the join.  The public output of a v1 *)
(* process is validated by that synchronisation, that of a v2 process      *)
(* before, with the exports of the last task.                              *)
Conclude(d, t, ok, valid) ==
    LET step   == d.tasks[t].step
        closed == CloseRow(d, t, IF ok THEN "C" ELSE "F")
        branch == d.tasks[t].branch # "none"
        fork   == setup.steps[step].kind = "fork"
        done   == CASE branch                 -> BranchDone(closed, t, ok, valid)
                    [] ~branch /\ ~ok         -> [closed EXCEPT !.proc = "F"]
                    [] ~branch /\ ok /\ fork  -> StartFork(closed, step)
                    [] OTHER                  -> Advance(closed, step)
        silent == \/ ~branch /\ fork
                  \/ branch /\ ~(d.join = "RUNNING" /\ done.join = "COMPLETED")
    IN  IF V2 /\ ok /\ silent THEN done ELSE Sync(done, valid \/ V2)

-----------------------------------------------------------------------------
(* An executor takes a task: claim_next_task over workflow_claim_host-     *)
(* _task_v2.  Neither looks at the invocation of a v1 process.             *)

At(w, pcs) == worker[w].pc \in pcs

Goto(w, pc) == worker' = [worker EXCEPT ![w].pc = pc]

(* A bug: a lease that ran out is not taken over.                          *)
ClaimableUnlocked(r) == r.status = "A" /\ r.owner = NoWorker /\ ~(r.timed /\ late)

(* A row that may be claimed; a lease that ran out is taken over.          *)
Claimable(r) == r.status = "A" /\ (r.owner = NoWorker \/ Expired(r)) /\ ~(r.timed /\ late)

Claim(w) ==
    /\ At(w, {"idle"})
    /\ \E t \in DOMAIN db.tasks :
        LET r == db.tasks[t] IN
        /\ Claimable(r)
        /\ ~\E u \in Worker : worker[u].pc = "counted" /\ worker[u].task = t
        /\ V2 => ParentLive
        /\ db' = MoveInvocation(
                    [db EXCEPT !.tasks[t] =
                        [r EXCEPT !.owner = w, !.fence = r.fence + 1, !.lapsed = FALSE]],
                    {"ACCEPTED"}, "RUNNING")
        /\ worker' = [worker EXCEPT ![w] =
                        [pc |-> "claimed", task |-> t, fence |-> r.fence + 1, out |-> "NONE"]]
    /\ UNCHANGED <<setup, budget, late, sent, faults>>

(* A bug: attempts under way are not counted.                              *)
ReserveIgnoresReserved(w) ==
    /\ At(w, {"claimed"})
    /\ ~late
    /\ budget.used + 1 <= setup.limit
    /\ budget' = [budget EXCEPT !.reserved = @ + 1]
    /\ Goto(w, "running")
    /\ UNCHANGED <<setup, db, late, sent, faults>>

(* A bug: the attempt is counted twice, here and when it is settled.       *)
ReserveAsUsed(w) ==
    /\ At(w, {"claimed"})
    /\ ~late
    /\ budget.used + 1 <= setup.limit
    /\ budget' = [budget EXCEPT !.used = @ + 1]
    /\ Goto(w, "running")
    /\ UNCHANGED <<setup, db, late, sent, faults>>

(* workflow_reserve_budget_v1 for the attempt.                             *)
Reserve(w) ==
    /\ At(w, {"claimed"})
    /\ ~late
    /\ budget.used + budget.reserved + 1 <= setup.limit
    /\ budget' = [budget EXCEPT !.reserved = @ + 1]
    /\ Goto(w, "running")
    /\ UNCHANGED <<setup, db, late, sent, faults>>

(* The reservation may be refused for the attempts, the deadline, or the   *)
(* bytes and cost units, which are not modelled.                           *)
ReserveRefused(w) ==
    /\ At(w, {"claimed"})
    /\ db' = IF Holds(w) THEN FailBudget(db, worker[w].task) ELSE db
    /\ worker' = [worker EXCEPT ![w] = Idle]
    /\ UNCHANGED <<setup, budget, late, sent, faults>>

-----------------------------------------------------------------------------
(* execute_task.                                                           *)

Kind(w) == Task(worker[w].task).kind

Result(w, out) == worker' = [worker EXCEPT ![w].pc = "settling", ![w].out = out]

(* Tasks with no effect outside the executor.                              *)
RunLocal(w) ==
    /\ At(w, {"running"})
    /\ Kind(w) \in {"set", "fork", "wait"}
    /\ Result(w, IF Kind(w) = "wait" THEN "WAIT" ELSE "OK")
    /\ UNCHANGED <<setup, db, budget, late, sent, faults>>

(* A bug: any earlier ledger row counts as a confirmed one.                *)
ClaimLedgerReplaysClaims(w) ==
    /\ At(w, {"running"})
    /\ Kind(w) = "write"
    /\ LET s == Row(w).step IN
        /\ db' = [db EXCEPT !.ledger[s] = IF @ = "none" THEN "claimed" ELSE @]
        /\ worker' = [worker EXCEPT ![w].pc = "ledger",
                        ![w].out = IF db.ledger[s] = "none" THEN "NONE" ELSE "OK"]
    /\ UNCHANGED <<setup, budget, late, sent, faults>>

(* claim_task_effect is three statements: the ledger, the task row (no     *)
(* lease is asked for) and the invocation.  A confirmed ledger row is      *)
(* replayed instead of sent: out is already OK.                            *)
ClaimLedger(w) ==
    /\ At(w, {"running"})
    /\ Kind(w) = "write"
    /\ LET s == Row(w).step IN
        /\ db' = [db EXCEPT !.ledger[s] = IF @ = "none" THEN "claimed" ELSE @]
        /\ worker' = [worker EXCEPT ![w].pc = "ledger",
                        ![w].out = IF db.ledger[s] = "confirmed" THEN "OK" ELSE "NONE"]
    /\ UNCHANGED <<setup, budget, late, sent, faults>>

Replayed(w) == worker[w].out = "OK"

(* A bug: the invocation is not marked before the request leaves.          *)
MarkTaskOnly(w) ==
    /\ At(w, {"ledger"})
    /\ db' = [db EXCEPT !.tasks[worker[w].task].effect =
                IF Replayed(w) THEN "confirmed" ELSE "possible"]
    /\ Goto(w, IF Replayed(w) THEN "settling" ELSE "open")
    /\ UNCHANGED <<setup, budget, late, sent, faults>>

MarkTask(w) ==
    /\ At(w, {"ledger"})
    /\ db' = [db EXCEPT !.tasks[worker[w].task].effect =
                IF Replayed(w) THEN "confirmed" ELSE "possible"]
    /\ Goto(w, "marked")
    /\ UNCHANGED <<setup, budget, late, sent, faults>>

MarkInvocation(w) ==
    /\ At(w, {"marked"})
    /\ db' = [db EXCEPT !.effect = IF Replayed(w) THEN "confirmed"
                                   ELSE IF @ = "none" THEN "possible" ELSE @]
    /\ Goto(w, IF Replayed(w) THEN "settling" ELSE "open")
    /\ UNCHANGED <<setup, budget, late, sent, faults>>

(* w5_fence, for a v2 process: the task must still be live.  Otherwise the *)
(* executor gives the task up as it stands.                                *)
Fence(w) ==
    /\ At(w, {"open"})
    /\ V2
    /\ IF Authority(w) THEN Goto(w, "fenced") ELSE worker' = [worker EXCEPT ![w] = Idle]
    /\ UNCHANGED <<setup, db, budget, late, sent, faults>>

(* The request leaves.  It comes back with success, with an HTTP failure,  *)
(* or not at all, when it may still have been carried out.                 *)
Send(w) ==
    /\ At(w, IF V2 THEN {"fenced"} ELSE {"open"})
    /\ sent' = [count |-> sent.count + 1, steps |-> sent.steps \cup {Row(w).step}]
    /\ \/ Goto(w, "answered")
       \/ \E out \in {"HTTP", "ERROR"} : Result(w, out)
    /\ UNCHANGED <<setup, db, budget, late, faults>>

(* confirm_task_effect is three statements too.                            *)
ConfirmLedger(w) ==
    /\ At(w, {"answered"})
    /\ db' = [db EXCEPT !.ledger[Row(w).step] = "confirmed"]
    /\ Goto(w, "confirmTask")
    /\ UNCHANGED <<setup, budget, late, sent, faults>>

ConfirmTask(w) ==
    /\ At(w, {"confirmTask"})
    /\ db' = [db EXCEPT !.tasks[worker[w].task].effect = "confirmed"]
    /\ Goto(w, "confirmInvocation")
    /\ UNCHANGED <<setup, budget, late, sent, faults>>

ConfirmInvocation(w) ==
    /\ At(w, {"confirmInvocation"})
    /\ db' = [db EXCEPT !.effect = "confirmed"]
    /\ Result(w, "OK")
    /\ UNCHANGED <<setup, budget, late, sent, faults>>

Executing ==
    {"running", "ledger", "marked", "open", "fenced",
     "answered", "confirmTask", "confirmInvocation"}

(* The execution fails or its timeout drops it, between any two of its     *)
(* statements.                                                             *)
Interrupt(w) ==
    /\ At(w, Executing)
    /\ \E out \in {"ERROR", "FATAL"} : Result(w, out)
    /\ UNCHANGED <<setup, db, budget, late, sent, faults>>

(* The bytes of the output are reserved, which the deadline or the byte    *)
(* budget may refuse; then the attempt is reconciled.                      *)
Settle(w) ==
    /\ At(w, {"settling"})
    /\ \/ ~late /\ Goto(w, "finishing")
       \/ worker' = [worker EXCEPT ![w].pc = "finishing", ![w].out = "FATAL"]
    /\ budget' = [used |-> budget.used + 1, reserved |-> budget.reserved - 1]
    /\ UNCHANGED <<setup, db, late, sent, faults>>

-----------------------------------------------------------------------------
(* finish_task.                                                            *)

Finished(w, d) ==
    /\ db' = d
    /\ worker' = [worker EXCEPT ![w] = Idle]
    /\ UNCHANGED <<setup, budget, late, sent, faults>>

(* WORKFLOW_STALE_HOST_TASK_FENCE or WORKFLOW_STALE_COMPLETION: rolled     *)
(* back.                                                                   *)
FinishStale(w) ==
    /\ At(w, {"finishing"})
    /\ ~Authority(w)
    /\ Finished(w, db)

(* durable_timer::arm.                                                     *)
FinishWait(w) ==
    /\ At(w, {"finishing"})
    /\ Authority(w)
    /\ worker[w].out = "WAIT"
    /\ LET t == worker[w].task
           waiting == [Closed(Row(w), "W") EXCEPT !.timer = "ARMED"]
       IN  Finished(w,
              IF ParentLive
              THEN MoveInvocation([db EXCEPT !.tasks[t] = waiting,
                                             !.proc = IF @ = "A" THEN "W" ELSE @],
                                  Live, "WAITING")
              ELSE Stop(db, t))

RetryAllowed(w) ==
    /\ worker[w].out \in (IF V2 THEN {"HTTP"} ELSE {"HTTP", "ERROR"})
    /\ Row(w).attempt < Task(worker[w].task).tries
    /\ ~late

(* schedule_retry_if_allowed; it declines when the delay would cross the   *)
(* deadline, and the task then fails below.                                *)
FinishRetry(w) ==
    /\ At(w, {"finishing"})
    /\ Authority(w)
    /\ RetryAllowed(w)
    /\ LET t == worker[w].task
           again == [Closed(Row(w), "A") EXCEPT !.attempt = @ + 1]
       IN  Finished(w, MoveInvocation([db EXCEPT !.tasks[t] = again],
                          IF Row(w).undo THEN Live ELSE Live \cup {"COMPENSATING"}, "RUNNING"))

(* The exports of a v2 task that has succeeded are evaluated, and with the *)
(* last task the public output; an expression that fails fails the task.   *)
(* A fork is asked for its own when it joins.                              *)
Outcomes(t, ok) == {ok} \cup {o \in {FALSE} : V2 /\ Task(t).kind # "fork"}

FinishTask(w) ==
    /\ At(w, {"finishing"})
    /\ Authority(w)
    /\ worker[w].out # "WAIT"
    /\ ~Row(w).undo
    /\ \E ok \in Outcomes(worker[w].task, worker[w].out = "OK"), valid \in BOOLEAN :
           Finished(w, Conclude(db, worker[w].task, ok, valid))

(* reconcile_compensation_task after a failure.                            *)
FinishUndoFailed(w) ==
    /\ At(w, {"finishing"})
    /\ Authority(w)
    /\ Row(w).undo
    /\ worker[w].out \notin {"OK", "WAIT"}
    /\ Finished(w, [MoveInvocation(CloseRow(db, worker[w].task, "F"),
                                   {"COMPENSATING"}, "FAILED") EXCEPT !.proc = "F"])

(* And after a success: the row is updated and the compensations that      *)
(* others have not committed are counted ...                               *)
Remaining(d) == {t \in Open(d) : d.tasks[t].undo}

FinishUndoCount(w) ==
    /\ At(w, {"finishing"})
    /\ Authority(w)
    /\ Row(w).undo
    /\ worker[w].out = "OK"
    /\ worker' = [worker EXCEPT ![w].pc = "counted",
                    ![w].out = IF Remaining(db) = {worker[w].task} THEN "LAST" ELSE "OK"]
    /\ UNCHANGED <<setup, db, budget, late, sent, faults>>

(* ... and the transaction commits.                                        *)
FinishUndoCommit(w) ==
    /\ At(w, {"counted"})
    /\ LET done == CloseRow(db, worker[w].task, "C")
       IN  Finished(w, IF worker[w].out = "LAST"
                       THEN [MoveInvocation(done, {"COMPENSATING"}, "CANCELLED")
                                EXCEPT !.proc = "F"]
                       ELSE done)

-----------------------------------------------------------------------------
(* The sweeps every executor runs, and the cancel API.                     *)

(* fire_durable_timer: a due timer, or one whose parent has ended.         *)
FireTimer(t) ==
    /\ db.tasks[t].timer = "ARMED"
    /\ \E ok \in Outcomes(t, TRUE), valid \in BOOLEAN :
        db' = IF ParentLive /\ db.tasks[t].status = "W"
              THEN Conclude([db EXCEPT !.tasks[t].timer = "FIRED",
                                       !.proc = IF @ = "W" THEN "A" ELSE @], t, ok, valid)
              ELSE Stop(db, t)
    /\ UNCHANGED <<setup, budget, late, worker, sent, faults>>

(* record_wake_failure gives a timer up after three failures.              *)
TimerGivesUp(t) ==
    /\ faults < MaxFaults
    /\ db.tasks[t].timer = "ARMED"
    /\ db' = Stop(db, t)
    /\ faults' = faults + 1
    /\ UNCHANGED <<setup, budget, late, worker, sent>>

(* expire_interactive_deadlines.                                           *)
Expire ==
    /\ setup.class = "interactive"
    /\ late
    /\ db.state \in Live
    /\ db' = MoveInvocation(FailProcess(CloseRows(db, Open(db), "F")), Live, "FAILED")
    /\ UNCHANGED <<setup, budget, late, worker, sent, faults>>

(* The compensations of the confirmed effects, one row each.               *)
Compensations ==
    {setup.steps[db.tasks[t].step].undo :
        t \in {u \in DOMAIN db.tasks : db.tasks[u].effect = "confirmed"}} \ {End}

Compensate(d, names) ==
    [d EXCEPT !.state = "COMPENSATING",
              !.tasks = [t \in DOMAIN d.tasks |->
                            IF t \in Open(d) /\ ~d.tasks[t].undo
                            THEN [Closed(d.tasks[t], "F") EXCEPT !.fence = @ + 1]
                            ELSE d.tasks[t]]
                        \o [i \in 1..Len(names) |-> [NewRow(names[i], TRUE) EXCEPT !.undo = TRUE]]]

(* The order they get by priority, which no property tells apart.          *)
Ordered(S) == CHOOSE f \in [1..Cardinality(S) -> S] : \A s \in S : \E i \in DOMAIN f : f[i] = s

(* cancel_invocation.  A policy that forbids it only records why.          *)
Cancel ==
    /\ db.state \notin Terminal
    /\ \/ /\ setup.policy # "DISABLED"
          /\ db.effect = "none"
          /\ db' = [FailProcess(CloseRows(db, Open(db), "F")) EXCEPT !.state = "CANCELLED"]
       \/ /\ setup.policy = "COOPERATIVE"
          /\ db.effect # "none"
          /\ Compensations # {}
          /\ Cardinality({t \in DOMAIN db.tasks : db.tasks[t].undo}) < MaxUndo
          /\ db' = Compensate(db, Ordered(Compensations))
    /\ UNCHANGED <<setup, budget, late, worker, sent, faults>>

-----------------------------------------------------------------------------
(* Time, and what goes wrong.                                              *)

(* A private execution without a declared timeout has no deadline.         *)
Deadline ==
    /\ setup.dated
    /\ ~late
    /\ late' = TRUE
    /\ UNCHANGED <<setup, db, budget, worker, sent, faults>>

Attended(t) ==
    \E w \in Worker : worker[w].pc # "idle" /\ worker[w].task = t /\ Holds(w)

(* The lease of a task nobody works on runs out.                           *)
Lapse(t) ==
    /\ db.tasks[t].owner # NoWorker
    /\ ~db.tasks[t].lapsed
    /\ ~Attended(t)
    /\ db' = [db EXCEPT !.tasks[t].lapsed = TRUE]
    /\ UNCHANGED <<setup, budget, late, worker, sent, faults>>

(* renew_host_task_lease fails for a lease's length: the task is taken     *)
(* from an executor that is still at it.                                   *)
LoseLease(w) ==
    /\ faults < MaxFaults
    /\ ~At(w, {"idle"})
    /\ Holds(w)
    /\ db' = [db EXCEPT !.tasks[worker[w].task].lapsed = TRUE]
    /\ faults' = faults + 1
    /\ UNCHANGED <<setup, budget, late, worker, sent>>

(* The executor dies or returns an error outside the task: its reservation *)
(* stays reserved, its task owned.                                         *)
GiveUp(w) ==
    /\ faults < MaxFaults
    /\ ~At(w, {"idle"})
    /\ worker' = [worker EXCEPT ![w] = Idle]
    /\ faults' = faults + 1
    /\ UNCHANGED <<setup, db, budget, late, sent>>

(* defer_retryable_authority: nothing was sent, the task goes back and the *)
(* reservation is refunded.                                                *)
Defer(w) ==
    /\ faults < MaxFaults
    /\ At(w, {"running"})
    /\ IF Holds(w)
       THEN /\ db' = CloseRow(db, worker[w].task, "A")
            /\ budget' = [budget EXCEPT !.reserved = @ - 1]
       ELSE UNCHANGED <<db, budget>>
    /\ worker' = [worker EXCEPT ![w] = Idle]
    /\ faults' = faults + 1
    /\ UNCHANGED <<setup, late, sent>>

-----------------------------------------------------------------------------

Step(w) ==
    \/ Claim(w) \/ Reserve(w) \/ ReserveRefused(w)
    \/ RunLocal(w) \/ ClaimLedger(w) \/ MarkTask(w) \/ MarkInvocation(w)
    \/ Fence(w) \/ Send(w)
    \/ ConfirmLedger(w) \/ ConfirmTask(w) \/ ConfirmInvocation(w)
    \/ Interrupt(w) \/ Settle(w)
    \/ FinishStale(w) \/ FinishWait(w) \/ FinishRetry(w) \/ FinishTask(w)
    \/ FinishUndoFailed(w) \/ FinishUndoCount(w) \/ FinishUndoCommit(w)

Fault(w) == LoseLease(w) \/ GiveUp(w) \/ Defer(w)

Next ==
    \/ \E w \in Worker : Step(w) \/ Fault(w)
    \/ \E t \in DOMAIN db.tasks : FireTimer(t) \/ TimerGivesUp(t) \/ Lapse(t)
    \/ Expire \/ Cancel \/ Deadline

Spec == Init /\ [][Next]_vars

(* The executors' loops run for as long as the service, the sweeps with    *)
(* them, and a lease that is not renewed runs out.  The deadline need not  *)
(* come and nobody need cancel.                                            *)
Fairness ==
    /\ \A w \in Worker : WF_vars(Step(w))
    /\ WF_vars(\E t \in DOMAIN db.tasks : FireTimer(t))
    /\ WF_vars(\E t \in DOMAIN db.tasks : Lapse(t))
    /\ WF_vars(Expire)

FairSpec == Spec /\ Fairness

-----------------------------------------------------------------------------
(* Types and bounds.                                                       *)

RowType ==
    [step : DOMAIN setup.steps, status : {"A", "W", "C", "F"}, owner : Worker \cup {NoWorker},
     fence : Nat, lapsed : BOOLEAN, attempt : Nat \ {0},
     effect : {"none", "possible", "confirmed"}, undo : BOOLEAN,
     branch : {"none", "RUNNING", "COMPLETED", "FAILED", "CANCELLED"},
     timed : BOOLEAN, timer : {"none", "ARMED", "FIRED", "STOPPED"}]

Pc == Executing \cup {"idle", "claimed", "settling", "finishing", "counted"}

(* Every row, every executor and every counter keeps its type.             *)
HostTypeOK ==
    /\ setup \in Setups
    /\ db.state \in Live \cup Terminal \cup {"COMPENSATING"}
    /\ db.effect \in {"none", "possible", "confirmed"}
    /\ db.proc \in {"A", "W", "C", "F"}
    /\ db.join \in {"none", "RUNNING", "COMPLETED", "FAILED"}
    /\ db.tasks \in Seq(RowType)
    /\ db.ledger \in [DOMAIN setup.steps -> {"none", "claimed", "confirmed"}]
    /\ budget \in [used : Nat, reserved : Nat]
    /\ late \in BOOLEAN
    /\ worker \in [Worker -> [pc : Pc, task : Nat, fence : Nat,
                     out : {"NONE", "OK", "LAST", "WAIT", "HTTP", "ERROR", "FATAL"}]]
    /\ sent.count \in Nat
    /\ sent.steps \subseteq DOMAIN setup.steps
    /\ faults \in 0..MaxFaults

-----------------------------------------------------------------------------
(* Properties.                                                             *)

Ended(s) == s \in {"C", "F"}

(* A v2 fork has completed its own task and its branches still run.        *)
Joining(t) ==
    V2 /\ Task(t).kind = "fork" /\ db.tasks[t].status = "C" /\ db.join = "RUNNING"

(* What has ended stays ended: a terminal invocation, a task that has      *)
(* completed or failed; and a compensating invocation is only cancelled or *)
(* failed.  Late executors, timers, sweeps and cancellations all write     *)
(* these rows, each with a condition of its own.  One completed row may    *)
(* still fail, that of a v2 fork in the transaction that ends its join,    *)
(* and only if the join succeeded and the invocation fails with it.        *)
EndedStaysEnded ==
    [][/\ db.state \in Terminal => db'.state = db.state
       /\ db.state = "COMPENSATING" => db'.state \in {"COMPENSATING", "CANCELLED", "FAILED"}
       /\ \A t \in DOMAIN db.tasks :
             Ended(db.tasks[t].status) =>
                 \/ db'.tasks[t].status = db.tasks[t].status
                 \/ /\ Joining(t)
                    /\ db'.tasks[t].status = "F" /\ db'.join = "COMPLETED"
                    /\ db'.proc = "F" /\ db'.state = "FAILED"]_vars

(* No step of the definition is started twice, whatever became of the      *)
(* lease under which its predecessor finished: the transition and the      *)
(* predecessor's end are one transaction behind one fence.                 *)
StepOnce ==
    \A t, u \in DOMAIN db.tasks :
        (t # u /\ ~db.tasks[t].undo /\ ~db.tasks[u].undo) => db.tasks[t].step # db.tasks[u].step

(* When an invocation is cancelled outright no request has left: the state *)
(* cancel_invocation trusts is raised before any does, although the        *)
(* executor does not look at the invocation again.  It says nothing of     *)
(* later: an executor of a v1 process that holds the task may still send.  *)
CancelledBeforeEffects ==
    [][db.state \in Live /\ db'.state = "CANCELLED" => sent.count = 0]_vars

(* Retries, competing branches, executors that lost their lease and        *)
(* refunds included, no more requests leave than the budget has attempts.  *)
RequestsWithinBudget == sent.count <= setup.limit

(* A call that counts as done has a confirmed ledger row and a request     *)
(* that really left; a replay has both from an earlier attempt.            *)
SuccessHasEvidence ==
    \A t \in DOMAIN db.tasks :
        LET s == db.tasks[t].step IN
        (setup.steps[s].kind = "write" /\ db.tasks[t].status = "C")
            => db.ledger[s] = "confirmed" /\ s \in sent.steps

(* The join has ended exactly when its branches say so, and only a join    *)
(* that succeeded is continued.                                            *)
JoinExact ==
    \A f \in DOMAIN setup.steps : setup.steps[f].kind = "fork" =>
        LET running   == InState(db, "RUNNING") # {}
            completed == InState(db, "COMPLETED") # {}
            failed    == InState(db, "FAILED") # {}
        IN  /\ db.join = "RUNNING" => running /\ (setup.steps[f].compete => ~completed)
            /\ db.join = "COMPLETED" => ~running /\ completed
            /\ db.join = "COMPLETED" /\ ~setup.steps[f].compete => ~failed
            /\ db.join = "FAILED" => ~running /\ failed
            /\ (\E t \in DOMAIN db.tasks : db.tasks[t].step = setup.steps[f].next)
                   => db.join = "COMPLETED"

(* A task sleeps exactly while its alarm is set: none is left waiting      *)
(* without a timer, and no timer outlives its task.                        *)
SleeperHasAlarm ==
    \A t \in DOMAIN db.tasks : db.tasks[t].status = "W" <=> db.tasks[t].timer = "ARMED"

(* The v2 process failed because its last branch succeeded after another   *)
(* had failed: finish_task_v2 returns without telling the invocation.      *)
Untold == V2 /\ db.join = "FAILED"

(* The process and its invocation end together, but for the case above,    *)
(* which leaves the invocation open.                                       *)
EndsTogether ==
    /\ db.state \in Terminal => Ended(db.proc)
    /\ Ended(db.proc) => db.state \in Terminal \/ Untold

(* Every invocation ends or is being compensated for: lost leases,         *)
(* abandoned tasks, timers and joins all come to an end.  Two cases are    *)
(* stranded: a deadline that only an interactive invocation is rescued     *)
(* from, and the failed join that is not told.                             *)
Concludes ==
    <>(\/ db.state \in Terminal \cup {"COMPENSATING"}
       \/ late /\ setup.class = "standard"
       \/ Untold)

-----------------------------------------------------------------------------
(* What is assumed of a definition where a result needs it: it has no      *)
(* loop, and its compensations are plain.                                  *)

(* A step is the first one, the successor of one step, or one branch of    *)
(* the only fork, which has branches.                                      *)
OneWay(s) ==
    /\ End \notin DOMAIN s.steps
    /\ \A x \in DOMAIN s.steps : s.steps[x].next # s.first
    /\ \A x, y \in DOMAIN s.steps :
          s.steps[x].next = s.steps[y].next /\ s.steps[x].next # End => x = y
    /\ \A x, y \in DOMAIN s.steps :
          s.steps[x].kind = "fork" /\ s.steps[y].kind = "fork" => x = y
    /\ \A f \in DOMAIN s.steps : s.steps[f].kind = "fork" =>
          LET b == s.steps[f].branches IN
          /\ b # <<>>
          /\ \A i, j \in DOMAIN b : b[i] = b[j] => i = j
          /\ \A i \in DOMAIN b :
                b[i] # s.first /\ \A x \in DOMAIN s.steps : s.steps[x].next # b[i]

(* A compensation is not a wait, nor what follows the fork.                *)
PlainUndo(s) ==
    \A x \in DOMAIN s.steps : s.steps[x].undo # End =>
        /\ s.steps[s.steps[x].undo].kind # "wait"
        /\ \A f \in DOMAIN s.steps :
              s.steps[f].kind = "fork" => s.steps[f].next # s.steps[x].undo

=============================================================================
