# Verification of light-fabric: the execution core

This directory holds TLA+ models of the parts of light-fabric that carry work
through failures:

* the workflow runner (`src/apps/light-workflow-runner`), the execution backends
  it drives, its durable journal, and the broker through which an agent worker
  reaches providers;
* light-workflow (`src/apps/light-workflow`): the executors that share an
  invocation through PostgreSQL, and the lane that takes a task to a runner and
  its result back;
* the audit log of the LLM gateway (`src/crates/llm-gateway/src/audit`).

TLC checks the models on small instances; TLAPS proves the main safety
properties of the runner, the broker, the executors, the runner lane, the
result sweep and the audit log for every instance.
`PROJECT.json` maps every definition to the lines it models.

## Inventory

The repository is a workspace of about 40 applications and crates. Most of them
adapt requests, load configuration or wrap SQL and remote services. The parts
with a protocol of their own, and with state that must survive failures, are:

| part | state it keeps | operations | hard behaviour | what makes it correct |
|---|---|---|---|---|
| runner supervisor, command lane (`supervisor.rs`) | `active`, `pending_results`, `draining`, a permit semaphore | accept, spawn, finish, recover, acknowledge, cancel, reconcile, watchdog, orphan reconciliation | a task outlives the connection that delivered its lease; recovery on the next connection meets it | a command runs at most once; an outcome is neither lost nor re-decided; cleanup claims are true |
| runner journal (`journal.rs`) | SQLite rows per execution, per broker request, per runtime event, native resources, operator fences | record_intent, set_state, set_terminal, unfinished, begin/complete/mark_unknown of a broker request | the process dies between two writes; a write fails | each row only moves forward; the payload is replayable |
| runner transport (`transport.rs`) | one WebSocket, a bounded channel of 128 messages | connect, register, recover, select loop, heartbeat, drain | reconnect at any time; a handler error drops the connection | every result is eventually delivered |
| attempt broker (`broker.rs`, `worker_process.rs`) | active request set, journal rows, usage counters | handle, dispatch, mark unknown, settle, shut down | an upstream call may have had its effect although its answer is lost; several connections in parallel | an effect is never repeated; budgets hold; an uncertain effect never ends in a success |
| agent-worker lane (`supervisor.rs`, `worker_process.rs`, native modules) | worker process, cgroup, workspace, native cleanup rows | accept_agent_worker, runtime events, checkpoint, native cleanup, operator fence | output, exit, deadline, cancel and broker signals race | one terminal result; no process left behind |
| runner sessions (`supervisor.rs`) | held sandboxes in the journal and the backend | hold, resume, cleanup | directives redelivered; resume races expiry | a session has one writer |
| execution backends (`execution-backend-oci`, `-cube`) | sandboxes of a container runtime | prepare, execute, cancel, cleanup, reconcile_orphans, checkpoint | create succeeds and its answer is lost; removal fails | reclaim is idempotent and keyed by execution |
| light-workflow executors (`executor.rs`, `expression_completion.rs`, `durable_timer.rs`) | tasks, process, invocation, forks, timers, effect ledger, budget in PostgreSQL | claim, renew, execute, retry, wait, fork, join, compensate, cancel, expire | several executors; a lease lapses while its holder works; statements outside a transaction; cancellation at any point | a step starts once; no request beyond the budget; nothing ended is reopened; no request had left when an invocation is cancelled outright |
| light-workflow scheduler, lease reaper, approvals, result reconciler | requests, attempts, leases, approvals in PostgreSQL | claim, submit, link, reserve, reap, approve, examine, reconcile, acknowledge | several instances; lost answers; late results; leases that run out | a command is started once; its result moves the process once and is acknowledged |
| result sweep (`result_sweep.rs`) | a page, a cursor, a next cursor | fetch, process, reset | the list changes between pages; an item that always fails | no result is skipped or starved |
| llm-gateway audit log (`audit/wal.rs`, `audit/sink.rs`) | segment files, checkpoint file, numbers in memory | open, append, rotate, ship, acknowledge, reclaim | killed at any byte; failing disk | a confirmed event reaches the database |
| gateway policy | rate limit windows | admit | counter at its limit; window rollover | limit is never exceeded within a window |

How they meet: light-workflow claims a task and writes a lease; the controller
(another repository) forwards it over the runner's WebSocket; the runner
journals the intent, asks a backend for a sandbox, runs the command, removes the
sandbox, persists and sends the terminal result, and forgets it once the
controller acknowledges it. Inside the runner the transport task handles one
directive at a time to its end; every execution has a spawned task; a watchdog
and an orphan reconciler tick on their own. They share the in-memory maps, each
under its own lock, and the journal under its mutex.

## Modules

| module | models |
|---|---|
| `RunnerJournal` | the execution rows of `journal.rs`, as operators from table to table |
| `RunnerSupervisor` | transport task, supervisor, spawned tasks, watchdog, reconciler, backend, process death; fairness; properties |
| `LeaseContract` | abstract specification: what the runner promises the controller of each execution |
| `RunnerInvariants` | the inductive invariant, as a conjunction of named parts |
| `RunnerSupervisorProofs` | theorems and proofs |
| `AttemptBroker` | broker handlers, the broker's table in the journal, accept loop, death and rebinding of the runner; properties and inductive invariant |
| `WorkerAttempt` | extends `AttemptBroker` with the worker loop, deadline, cancellation, report and recovery of an agent attempt |
| `AttemptBrokerProofs`, `WorkerAttemptProofs` | theorems and proofs |
| `HostExecutor` | one invocation under several host executors: claim, lease, budget, effects, retry, wait, fork, compensation, cancellation, deadline |
| `HostExecutorProofs` | its inductive invariant, theorems and proofs, for every definition |
| `HostShapeProofs` | theorems and proofs for definitions that reach each step in one way |
| `RunnerLane` | a runner task from the scheduling request to the acknowledged result, with approval and fixed action |
| `RunnerLaneProofs` | its inductive invariant, theorems and proofs |
| `ResultSweep`, `ResultSweepProofs` | how the reconciler walks the pages of results; theorems and proofs |
| `AuditWal` | the write-ahead log, its writer and its sink |
| `AuditWalProofs` | its inductive invariant, theorems and proofs |
| `MC...` | the instances TLC checks |

### RunnerSupervisor

A step of the model is the code between two points where another actor can
observe or change shared state. The transport task has a program counter `tpc`
(dead, disconnected, recovery, serving, inside a handler) and the execution
`cur` its handler works on; each spawned task has a program counter `task[e]`.
So `accept_execute` is `NewExecute` (intent durable), `Admit` (permit,
PREPARING), `Prepare` (backend call), `RecordPrepared` (PREPARED row, entry in
`active`), `Spawn` (EXECUTING row, task). The task is `TaskStart`,
`TaskExecuted`, `TaskCleanup`, `TaskRecordCleanup`, `TaskPersist`
(set_terminal), `TaskRetire` (active.remove), `TaskPublish` (pending insert),
`TaskSend`. Recovery is one action per test or write of the loop in
`recover()`, working from the snapshot `snap` that `unfinished()` returned. A
handler that returns an error drops the connection (`Fail`), as `connect_once`
does. `JournalFault` is a write that fails without effect, `CheckpointFault` one
that commits and whose checkpoint then returns an error: the row has moved on
and the caller believes it has not. `Crash` may happen between any two steps; the journal, the sandboxes and
the clock survive.

Abstractions. A lease id with its fencing token is a member of `Lease`; a
backend operation id is a function of the execution id in both backends, so the
row records only whether it is known; of a result, its attempt state and its
cleanup state are kept; a sandbox is ABSENT, PREPARED, RUNNING, STOPPED or
REMOVED. Deadlines are a set `expired` that grows. The connection is the set of
results put on it; it may deliver any subset in any order any number of times.
The controller is external: it keeps the first terminal result it stores and
acknowledges with what it stored.

### AttemptBroker and WorkerAttempt

A connection has one handler, a task that outlives the accept loop. Its program
counter names the next step of `handle` and `dispatch`: read the frame and take
the request id (`Receive`), begin the request in one SQLite transaction (one
action per disposition: `BeginNew`, `BeginReplay`, `BeginInterrupted`,
`BeginUnknown`, `BeginReused`, `BeginOverBudget`), call the provider (`Send`,
then `Receives` or `AnswerLost`) or read the credential (`Deliver`), read the
usage, record the reply (`Complete`), release the id (`Finish`), answer
(`Respond`). Each journal call has a failing variant, with and without its
effect. `Crash` loses every handler, the active set and the signal; `Bind` binds
a broker again over the same journal, as the runner's README promises and the
broker's test does.

`WorkerAttempt` adds the actor that the broker serves. Its steps are steps of the
broker or leave the broker alone. The select loop is a choice among
`WorkerTerminal`, `WorkerFails`, `CancelStops`, `DeadlineKills` and
`UnknownKills`: tokio's `select!` takes any ready branch. After the loop come
`WorkerExits` (`child.wait()`), `Shutdown`, `Report`. In `WorkerAttempt` no
broker is bound after a crash: `recover` reports the attempt as UNKNOWN and
`record_intent` refuses a second one.

Abstractions. A request is an id and a content; the content stands for the
digest of the request and decides its route and charge. The checks before the
journal (identity, authority, method, path, body) are the set `Refused` and the
flag `expired`. Of the usage in a reply the number of requests is kept. An error
text is one of the three verdicts it can lead to.

### HostExecutor

The database is one record `db`; a transaction is one step that maps it to its
successor, so the operators `Conclude`, `BranchDone`, `Sync`, `Stop` and so on
take and return such records and read like the functions they model. An
executor `w` is at a place between two transactions (`worker[w].pc`), with the
task and the fence it claimed. `process_next_task` is `Claim`, `Reserve` (or
`ReserveRefused`), the execution, `Settle`, and one of the `Finish...` actions.
`claim_task_effect` and `confirm_task_effect` issue three statements each
outside a transaction and are three steps each; `w5_fence` and the request
follow. An executor may lose its lease while it works (`LoseLease`), fail or
time out between any two steps (`Interrupt`), leave a task behind (`GiveUp`) or
give it back (`Defer`). Timers, the deadline sweep and the cancel API are
actions of their own. Both profiles are modelled: v1, whose completions look
only at the lease, and v2, which checks the parent (`Authority`) and has its
own completion path. A v2 task that ran may still fail, because its exports or
its outputs cannot be evaluated (`Outcomes`). The expressions of a fork are
evaluated when its join succeeds, long after its row was completed to start the
branches: then the row goes from C to F, and process and invocation fail with it
in the same transaction (`FailFork`; `record_failure`,
`expression_completion.rs:848`). `EndedStaysEnded` allows a completed row this one
change and no other.

`CancelledBeforeEffects` speaks of the step that cancels: whoever could have sent
a request by then has marked the invocation, and the cancellation sees the mark.
A v1 executor that is still at its task does not look at the invocation again and
may mark and send afterwards; the property does not deny it.

Abstractions. Task kinds are reduced to those that differ in their effect on
the rows: local (`set`), `write`, `wait` and `fork`. `ask`, `switch`, `assert`
and agent tasks, nested calls and development runs are left out. Of the budget
the attempts are counted; bytes and cost units may refuse at any time
(`ReserveRefused`, `Settle`). Claim order and tenant fairness are not modelled.
Deadlines are one flag, `late`.

### RunnerLane and ResultSweep

`RunnerLane` follows one task. The scheduler is `ScheduleClaim` (whose row lock
ends with its transaction), `ScheduleSubmit` (a call to the authority) and
`ScheduleLink`. The authority, external where it is not `repositories.rs`,
creates attempts; `Reap` is the lease reaper. `Examine`, `Reconcile` and
`Acknowledge` are the three stretches of `reconcile_item` between calls that
others can observe: first gate, transaction behind the second gate,
acknowledgement. `Approve` and `Refuse` are the approval service; an approved
result is carried out by a second request, the fixed action. `row.moves` counts
the transitions the task has caused. The lease reaper and the approval service
are library code: at this commit `main.rs` starts the scheduler and the
reconciler only; the model has them as the documents describe their use.

`ResultSweep` abstracts an item to what becomes of it (ready, deferred,
poison: an item whose failure counts as one of the system) and models the walk
itself: page, cursor, next cursor, with `owed` remembering what a round began
with. A poison result that another instance has settled is recognised if its
process has the v2 gate and fails again if it is v1, which has no gate
(`w4_runner_gate` returns early); `Recognise` may therefore happen and is never
counted on.

### AuditWal

The directory is a sequence of segments, each with its records, whether its
header is complete and whether its end is torn. The writer takes a batch from
the queue (`TakeBatch`), writes it record by record (`WriteRecord`, the loop of
`append_batch`) and synchronises and confirms it (`SyncBatch`), all under the I/O
lock; `writer` counts the records of the batch and those of them on disk. Events
are appended meanwhile, and a sink that has its batch already ingests it. `Kill`
and `WriteFails` interrupt the writer after any number of records, in the middle
of one, or in the creation of a segment. The sink reads, ingests in one transaction, writes the checkpoint and reclaims
segments file by file. An I/O error of its own (`SinkFails`: reading a batch,
writing the checkpoint, removing a segment) ends the sink until the gateway is
started again; an error after the rename leaves a checkpoint on disk that memory
does not know of. Byte reservations are left out, and so is power loss:
what was written survives a kill.

## Runs

| run | instance | shows |
|---|---|---|
| `runner_safety` | one execution, two leases, all outcomes, journal faults, cancellation, expiry | no double execution; cleanup claims are true; no outcome lost or unsettled; CANCELLED only by the controller; the lane implements `LeaseContract` |
| `runner_recovery` | one execution, journal faults, no promise of a connection | every sandbox is reclaimed after its deadline; the outcome in the journal at a crash is the one replayed |
| `runner_delivery` | two executions, one permit | once a connection is kept, each execution taken on is concluded |
| `broker_safety` | two connections, two ids, four contents, a grant that admits some of them, journal faults, deaths | one provider call per id; budget; replies durable and repeatable; settled rows final |
| `attempt` | one id on two connections, all faults, fairness | a success is reported only after the accept loop ended; a raised unknown outcome ends the worker loop; request ids are released |
| `host_safety` | two executors, six admitted workflows, one fault | a step starts once; requests within budget; success has evidence; joins and timers exact; process and invocation end together; nothing reopened; no request had left when an invocation is cancelled outright |
| `host_progress` | two executors, four admitted workflows, one fault, fairness | every invocation concludes, but for two named cases |
| `lane_safety` | two schedulers, two reconcilers, five kinds of task, three attempts, one fault, fairness | started once, moved once, acknowledged, never reopened, always scheduled |
| `lane_duplicate` | violation: the v1 task with an approval, one reconciler | a lost acknowledgement moves the process twice |
| `sweep` | four results, pages of two, fairness | a round skips nothing; ready results drain |
| `wal_safety` | four events, segments and batches of two records, two faults, fairness | confirmed events are kept, and shipped unless the sink has ended and is not restarted; a directory is refused for one reason only |
| `runner_race` | violation | recovery's stale snapshot replaces a persisted outcome |

Bounds. `runner_*`: executions touch each other only through the permits, the
connection and the recovery loop, all exercised with two executions in
`runner_delivery`; everything else is per execution, so one execution with every
outcome is the interesting instance of the safety run. Two leases suffice to
tell the current fence from a stale one. No counter needs a cap: `execs` is
bounded by the property itself and the rest of the state is finite.
`broker_safety`: two connections and two ids are what it takes for a repetition
to meet its original and for two admissions to compete for the budget; the
contents cover both routes, a refused request and two sizes. `attempt` needs one
id: what matters there is the race of one request with the worker's end.
`host_*`: two executors are what a takeover, a race of branches and a late
completion take; `MaxFaults` is one lost lease, abandoned task, deferral or
given-up timer, `MaxUndo` two compensation rows; each definition exercises a
kind of task with its neighbours (write then wait; two writes to undo; a write
racing a wait), in both profiles, with and without a deadline, with a limit that
the retries can exhaust. `lane_*`: two of each service for the duplicate work,
three attempts so that a requeued run and a fixed action both happen.
`sweep`: a deferred prefix fills a page and a round takes two fetches.
`wal_safety`: a batch crosses a rotation, and every restart finds something.

Fairness. `DeliverySpec`: the tokio runtime keeps polling the transport task
and the spawned tasks, `run()` reconnects for ever, the heartbeat ticks, the
execution ends at the latest with its local timeout, the process is restarted,
and the controller answers what it received. Nothing is assumed of the
directives it sends, of cleanup ever succeeding, or of crashes ceasing, except
where `Delivered` says so in its hypothesis (a connection that is kept).
`ReclaimSpec`: only the clock, the restart and the reconciler's ticks; a
connection may never come about.
`FairSpec` of `WorkerAttempt`: the runtime polls every handler that is not
waiting for the worker's frame, the HTTP client ends with its timeout, a branch
of the select loop that stays ready is taken. Nothing is assumed of the clock
(else the deadline would end the loop and hide a lost signal) or of the worker:
it may never finish a frame, end its turn or exit.
`HostExecutor`: each executor's loop goes on (`loop` in `run`, with its sweeps),
a lease that nobody renews runs out; no deadline need come, nobody need cancel.
`RunnerLane`: the loops of the two services go on; a sweep comes to every result
that is not acknowledged, again and again (strong fairness of `Examine` per
result). That leans on `Drained` of `ResultSweep` and assumes its exception away:
no other result with a lasting system failure keeps the sweep at its place. An
acknowledged result is examined only by an instance whose page is older than
another instance's acknowledgement. The authority, the runner and
the approver promise nothing. `ResultSweep`: `run()` polls again after every
poll. `AuditWal`: the gateway is started again, its writer and sink run, the
database answers in the end. A gateway whose sink has failed need not be
restarted.

Deadlock is not checked where the system really may stop: an invocation that
has ended, a lane or a log at its bound, an attempt that is over.

## Findings

1. `TerminalImmutable` (`runner_race`). `recover()` reads the unfinished rows
   once, then tests `pending_results` and `active` row by row. A task that
   outlived the previous connection persists its outcome, leaves `active` and
   enters `pending_results` in three steps. With the snapshot taken before the
   first and the tests made between the second and the third, recovery
   overwrites the persisted outcome by UNKNOWN. Everything the proofs state
   still holds (no second execution, evidence sound, outcome kept), but the
   outcome reported is wrong.
2. `MovesOnce` (`lane_duplicate`). The result of a fixed action of a v1 process
   is recognised by its consumed approval, and nothing records that it was
   applied. If the transaction commits and the acknowledgement is lost, the next
   poll advances the process again and inserts the successor a second time. The
   run has a single reconciler, which never examines a result it has
   acknowledged, so the trace is precisely that. A v2
   process has a marker (`w4_runner_gate`), and `lane_safety` shows that it
   works; a v1 task without an approval is protected by
   `conditionally_accept_terminal_attempt`.

Further disagreements between code and documents, met while modelling. Each is
behaviour of the model, named in the property that has to except it, or in the
hazard list:

* A crash between `prepare` and the PREPARED row leaves a sandbox behind a row
  that ends in CLEANUP_CONFIRMED with NOT_REQUIRED. It is reclaimed at its
  deadline (`Reclaimed`), not before (`light-workflow-runner.md:514`).
* A failed `set_terminal` (or EXECUTING write) leaves the execution in `active`;
  recovery skips it for the life of the process (`light-workflow-runner.md:534`).
* The worker's terminal frame wins over the unknown-outcome signal: SUCCEEDED
  may be persisted with a request already UNKNOWN (the runner's README, line
  157). `UnknownStops` states what holds: once the signal is raised the worker
  loop ends.
* After the terminal frame `child.wait()` has no deadline and listens to no
  cancellation (`light-workflow-runner.md:527`).
* A v2 all-join whose last branch succeeds after another has failed ends the
  process and does not tell the invocation (`Untold` in `HostExecutor`;
  `workflow-invoke.md:1648` promises the failure on the first call).
* A non-interactive invocation past its deadline is not swept: an open task with
  a deadline is not claimable any more, and the invocation stays open
  (`Concludes`).
* Two compensations that finish together each count the other as remaining, and
  the invocation stays COMPENSATING (`FinishUndoCount`).
* The audit log numbers records from the last one found on disk, not from the
  checkpoint: when every segment with records has been reclaimed or lost its
  tail, new records may be numbered at or below the checkpoint and are taken for
  acknowledged (`renumbered` in `AuditWal`).
* A segment killed before its header was written makes `open` refuse the whole
  directory from then on (`RefusedOnlyHeaderless`).
* An I/O error while the checkpoint is written or a segment removed ends the sink
  for good although the writer goes on confirming events (`sink.rs:98-105`); they
  are kept and stay unshipped until the next start (`Shipped` excepts a
  sink that has failed and is never started again).
* One result whose failure counts as one of the system keeps the sweep at its
  place (`Drained`).

## Proofs

`RunnerSupervisorProofs` proves, for any sets of executions and leases, any
capacity, any outcomes and with journal faults allowed or not:

* `InvariantHolds`: `Spec => []InductiveInvariant`
* `TypesHold`, `ExecutesAtMostOnce`, `EvidenceIsSound`, `NoOutcomeIsLost`: the
  type invariant `TypeOK` and the invariants `AtMostOneExecution`, `CleanupEvidence`,
  `OutcomeKept`
* `SettledStays`: the action property `SettledForGood`
* `CancellationIsGenuine`: the invariant `CancelledByController`
* `RestartKeepsOutcome`: `RestartReplays`
* `ImplementsContract`: every behaviour is one of `LeaseContract` (`ContractSpec`)

Assumptions: the named ASSUMEs of `RunnerJournal` and `RunnerSupervisor` (the
two "none" values are no members of their sets, `Capacity` is a natural number,
the environment's sets are subsets of their types).

The argument has layers, each with an Init and a Step lemma that may use the
layers below:

1. `WellFormed`: types; a handler under way has an execution; a task past its
   execution has a result.
2. `Freshness`, `NotStarted`, `AtMostOneExecution`: an execution without a row
   has left no trace, and stays traceless until `Spawn`. `NewExecute` requires
   that there is no row, so `TaskStart` happens at most once.
3. `CleanupEvidence`, `RecoveryEvidence`: a claim is written only past a
   removal; a sandbox is created only for a fresh execution, so it cannot come
   back under a claim. The recovery snapshot needs its own copy of the claim,
   since it is replayed after the journal has moved on.
4. `OutcomeKept`, `RecoveryKept`: settled rows, and what the snapshot takes for
   settled rows, have an outcome at the controller.
5. `Ownership`: while a task may still write, its execution is active,
   unpublished and not settled, which keeps acknowledgements and recovery's
   writes away; recovery's stale snapshot still tells settled rows from others.
6. `Unreported`: as long as a task may still write its row, nothing of the
   execution is on the wire or at the controller. The contract needs it: its
   `Run` asks that no outcome has been stored.
7. `Provenance`: along the whole way of a result (task, row, snapshot, pending
   table, wire, controller) a success belongs to a command that was started and
   a cancellation to a lease the controller cancelled.
8. `Replaying(e, r)`: after a death with result `r` in the row of `e` there is no
   task of `e`, what recovery's snapshot still has to replay is `r`, and the row
   holds `r` or is settled. It holds at the death and is inductive from there,
   which turns the nested `[]` of `RestartReplays` into an invariant.

The refinement maps a row to its phase (no row, unsettled, settled), the ghost
`execs` to `ran` and the controller's copy to `outcome`. Each action is shown to
be one of the contract's steps on one execution, or a stutter.

None of the properties is inductive alone: `SettledForGood` needs `Ownership`,
because recovery's `RecoverPersist` writes TERMINAL_PENDING from a snapshot and
only ownership says that the row was not settled meanwhile.

`AttemptBrokerProofs` proves, for any finite set of request ids and any sets of
connections, contents, answers and credentials, any grant, with journal faults
and deaths allowed or not: `BrokerInvariantHolds`, `SendsAtMostOnce`,
`RepliesAreRecorded`, `RowsAreOwned`, `SecretsStayOut`, `SettledRowsAreFinal`.
The invariant rests on `Exclusive`: a handler between insert and remove holds
its id alone. Therefore the row it admitted stays in flight until it settles it
itself (`OwnedRow`); therefore a row found in flight by `Begin` belongs to
nobody, and marking it UNKNOWN instead of sending again keeps `sent` at one
(`Unsent`). A row changes only from absent or from in flight, so what was
answered stays recorded (`AnswerRecorded`, `ReplyRecorded`).

`GrantIsKept` (`WithinBudget`) needs `BudgetInv`, which adds that the charges
are finite. The sum over the rows is written as the number of charged units,
pairs of a request and an ordinal, since the prover has theorems about
cardinality and none about sums. A step leaves the set of units as it is or, in
`BeginNew` and in a `BeginFails` that committed, adds those of a request that
had none.

`WorkerAttemptProofs` proves that an attempt implements `BrokerSpec`
(`AttemptImplementsBroker`), so that all of this holds of attempts;
`AttemptTypesHold`; and `SuccessIsLast`, from `EndsInvariant`: a killed worker
has no success to report.

`ResultSweepProofs` proves, for any finite set of results, any page size and any
number of faults, `SweepTypeCorrect` and `RoundComplete` (`RoundVisitsAll`).
`RoundVisitsAll` speaks of the end of a round
only; the invariant `SweepInv` says of every moment where the results still owed
are: in the page or beyond the cursor the walk will fetch from next (`OwedAhead`),
and a next cursor exists only while there is a page to leave (`NoStaleNext`). A
fetch keeps it because the first `PageSize` members of what lies beyond the
cursor are exactly those up to the next cursor, which is the lemma the proof
spends most of its steps on.

`RunnerLaneProofs` proves, for any sets of schedulers and reconcilers and any
number of attempts and faults, `TypesHold` (`LaneTypeOK`) and `StartsOnce`
(`StartedOnce`) for every kind of task. `LaneInvariant` says why: an attempt that
was given back has not started, at most one attempt of a kind was not given
back, and none while the request is in the queue (`Exclusive`); the fixed action
is requested once, by an approval that is consumed (`ApprovedOnce`).
`ResultMovesOnce` (`MovesOnce`), `NothingAcknowledgedIsLost`
(`AcknowledgedIsSettled`) and `NothingReopens` (`NoReopening`) carry the hypothesis
`NoV1Approval`: no v1 task asks for an approval. It excludes exactly the case
in which the code does not do it (run `lane_duplicate`, see Findings). They need
`RowsAgree`, which ties the marker of a v2 task, the number of moves and the
states of task and process to one another, and `AcksFollow`, which says the
same of a reconciler between its transaction and the acknowledgement.

`HostExecutorProofs` proves, for any definition, loops and forks without limit
included, any finite set of executors and any number of faults: `HostTypesHold`
(`HostTypeOK`), `SleepersWake` (`SleeperHasAlarm`), `NothingRestarts`
(`EndedStaysEnded`), `OutrightCancelIsClean` (`CancelledBeforeEffects`),
`BudgetHolds` (`RequestsWithinBudget`) and `SuccessIsReal` (`SuccessHasEvidence`).
Assumptions: `HostAssumption`, and `SetupAssumption`, which says that a
definition names its own steps only.

A transaction is a composition of operators on the database, so the proof first
says once what each operator does to the rows (`CloseRowEffect`,
`CloseRowsEffect`, `AdvanceEffect`, `StartForkEffect`, `BranchDoneEffect`,
`SyncEffect`, `ConcludeEffect`). From these every action is shown to give a
database that `Follows` the one before: a row keeps its step and its kind and,
when it has ended, its status, the row of a v2 fork apart, which may be `Refuted`
as its join succeeds (`ForkFails` adds that the invocation then fails); only an
executor with a success or an armed timer
completes a row; new rows are unclaimed; the invocation moves along its states.
The invariant has layers, and all but the budget are preserved by whatever
follows:

1. `Typed`: types; an executor at work has a row.
2. `Orderly`: leases are held on active rows only, rows sleep with an alarm;
   compensations exist only after an effect, while nothing else is open. Neither
   `SleeperHasAlarm` nor `EndedStaysEnded` is inductive without the first part:
   a row that has ended is safe because it has no owner, and every write of a
   completion asks for the owner. `counted` executors are named because they
   commit without asking again.
3. `Marked`: the invocation carries the mark of an effect before a request
   leaves. Marking and sending are separate statements, so the executors
   between the two are part of it.
4. `Budgeted`: each executor at a task has an attempt reserved, each request
   sent or about to be is one of the attempts used or reserved. An executor that
   dies leaves its reservation behind, hence inequalities and not equations; it
   also shows that the refunds never take `reserved` below zero.
5. `Evidence`: a confirmed ledger row stands for a request that left, an
   executor with a success for a confirmed row. The row may have been confirmed
   by another executor, under an earlier lease.

`HostShapeProofs` proves `StepsStartOnce` (`StepOnce`), `JoinsAreExact`
(`JoinExact`) and `ProcessEndsWithInvocation` (`EndsTogether`). They are false for
some definitions: a loop starts a step again, two forks share the model's one
join, and a compensation that is a wait task advances the process when its timer
fires. So they carry hypotheses on the definitions, for any number of steps and
branches, executors and faults:

* `OneWay`: a step is the first one, the successor of one step, or one branch of
  the only fork, which has branches;
* `PlainUndo` (not for `StepOnce`): a compensation is neither a wait nor the step
  after the fork.

`MCHostExecutor` assumes both of the definitions TLC checks (`ShapesAssumption`),
so TLC evaluates that they hold there. The argument:

1. `Shape` sorts the steps. Every transaction but one kind is `Calm`: it adds
   compensations at most, keeps join and branches, and ends process and
   invocation together or not at all (`Tells`). The other kind concludes a task,
   its timer fired before or not (`Concluding`).
2. `Lineage` says where a row comes from (`Origin`): it is for the first step,
   its predecessor or its fork was `Passed`, or the join before it has succeeded.
   A row is passed when it is completed or, for a fork, failed after its join
   succeeded, and stays so. `StepOnce` is not inductive without it: that the next step has no
   row yet follows because its row would have the task that is being concluded,
   still open, as its completed predecessor (`SuccessorIsNew`, `BranchIsNew`,
   `JoinedIsNew`). `ForkFirst` keeps the join closed until the fork's own row ends.
3. `Joins` has, besides `JoinExact`, that no branch is marked before the fork
   starts and none is cancelled while it runs; `ConcludeShape` shows that
   `reconcile_fork_branch` keeps it, losers of a race and late branches included.
4. `Together` is `EndsTogether`. Outside conclusions only a compensation that
   waits could end the process without its invocation, and there is none
   (`Awake`).

`AuditWalProofs` proves the safety of the audit log: `WalTypesHold` (`WalTypeOK`),
`PromisesAreKept` (`PromisedKept`) and `RefusalIsHeaderless`
(`RefusedOnlyHeaderless`), for any number of events and faults and any sizes of
segments and batches (`WalAssumption`: the sizes are not zero). `PromisedKept`
alone is not inductive, so `WalInvariant` has four more layers:

1. `Typed`: the types.
2. `Disk`: the directory is `Sound` at every moment, the writer's batch under way
   or not: the numbers increase from record to record and from segment to
   segment, and only the newest segment may be torn or without its header. Then
   recovery can refuse a directory for a missing header only.
3. `Memory`: as long as the writer works, its segments are complete, the queue
   bears the numbers after the last durable one, without a gap, and no record on
   disk has a number beyond those the writer has written of its batch. So the
   next record keeps the order, and a confirmed record is above the checkpoint
   unless numbering began again below it. The number in memory is the checkpoint
   unless the sink has failed. A failed write ends this for good: the
   records it left are on disk, not durable, and no others come.
4. `Batch`: the batch the sink carries is everything on disk between the
   checkpoint and its last record, whatever the writer has added since it was
   read. So the checkpoint passes over nothing that is not in the database, and a
   segment that is removed, its last number being at or below the checkpoint, has
   by `Sound` no record above it.

The lemmas on files (`WrittenEffect`, `InterruptedEffect`, `TruncatedEffect`,
`RemovedEffect`) say what rotation and writing, an interruption, recovery and a
removal do to the records and to `Sound`.

Only model-checked is liveness (`Delivered`, `Reclaimed`, `UnknownStops`,
`IdsReleased`, `Concludes`, `Scheduled`, `AcceptedIsAcknowledged`, `Drained`,
`Shipped`), which the prover cannot treat.

## Not modelled

* Of the agent-worker lane: admission, input staging, runtime events and their
  sequence numbers, coding patches, checkpoints, native cleanup.
* Sessions (`_executionSession` in `accept_execute`
  resumes a held sandbox under a foreign operation id), native containment.
* The bounded outbound channel: results go on an unbounded wire, so the
  transport task waiting for itself with more than 128 pending results is a
  hazard listed without a property.
* Message order on a connection: an acknowledgement that is refused drops the
  connection, and the model lets any result go first on the next one.
* Of light-workflow: the expression language and definitions, ask, switch, agent
  and nested tasks, byte and cost budgets, artifacts, publication, retention,
  execution sessions.
* Of the audit log: byte reservations (`reserve_envelope`), power loss (an
  earlier segment of a batch that was not synchronised), the clock order of
  event ids.
* Payloads: output capture, redaction, truncation, artifacts, digests.
* The rest of the repository, per component, in `PROJECT.json`.

## Plan

1. light-agent: the turn state machine of `domain.rs` with its gateway results
   and leases over SQL. Late results of turns that have ended are the first
   thing to look at.
2. Transport of the runner: bounded channel, message order, flapping; liveness
   of delivery with more than one pending result.
3. Composition: `WorkerAttempt` as the task of `RunnerSupervisor` for agent
   leases; `LeaseContract` as the authority of `RunnerLane`.
4. Native cleanup, operator fence, sessions; the rate limiter.
