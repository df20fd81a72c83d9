-------------------------- MODULE RunnerSupervisor --------------------------
(***************************************************************************)
(* The command lane of light-workflow-runner: the transport task that      *)
(* serves one controller connection at a time (transport.rs), the          *)
(* supervisor it calls (supervisor.rs), the task spawned per execution,    *)
(* the watchdog, the orphan reconciler, the durable journal and the        *)
(* backend that holds the sandboxes.  The process may die between any two  *)
(* steps; the journal and the backend survive it.                          *)
(*                                                                         *)
(* One step of the model is the code between two points where another      *)
(* actor (a spawned task, the watchdog, the reconciler, the death of the   *)
(* process) can observe or change shared state.                            *)
(***************************************************************************)
EXTENDS RunnerJournal, FiniteSets, Naturals

CONSTANTS
    NoExec,          \* "the transport task is handling no execution"
    Capacity,        \* permits of the semaphore (maximum_concurrency)
    JournalMayFail,  \* whether SQLite writes may return errors
    Outcomes,        \* attempt states backend calls may lead to
    Revocable,       \* executions the controller may cancel
    Perishable       \* executions whose deadline may pass

ASSUME NoExecAssumption   == NoExec \notin Exec
ASSUME CapacityAssumption == Capacity \in Nat
ASSUME FaultAssumption    == JournalMayFail \in BOOLEAN
ASSUME EnvironmentAssumption ==
    /\ Outcomes   \subseteq AttemptState
    /\ Revocable  \subseteq Exec
    /\ Perishable \subseteq Exec

VARIABLES
    journal,    \* durable: execution_journal
    backend,    \* external: the sandbox of each execution
    expired,    \* executions whose lease deadline has passed
    active,     \* Supervisor.active
    cancelled,  \* active executions whose cancel signal was sent
    pending,    \* Supervisor.pending_results
    task,       \* program counter of each spawned task
    result,     \* the result each spawned task has built so far
    linked,     \* tasks whose outbound channel is the current connection's
    draining,   \* Supervisor.draining
    tpc,        \* program counter of the transport task
    cur,        \* the execution its handler is working on
    todo,       \* rows of the recovery snapshot not visited yet
    snap,       \* the recovery snapshot itself
    wire,       \* terminal results put on the current connection
    ctl,        \* external: the result the controller stored
    revoked,    \* external: cancellations the controller sent
    execs       \* history: calls of backend.execute that started a sandbox

durable  == <<journal, backend, expired>>
memory   == <<active, cancelled, pending, task, result, linked, draining>>
transport == <<tpc, cur, todo, snap, wire>>
observer == <<ctl, revoked, execs>>
vars     == <<durable, memory, transport, observer>>

(* Backend sandboxes.  "PRESENT" means: something is left to reclaim.      *)
BackendState == {"ABSENT", "PREPARED", "RUNNING", "STOPPED", "REMOVED"}
Present(e)   == backend[e] \in {"PREPARED", "RUNNING", "STOPPED"}

TaskState ==
    {"none", "start", "running", "cleanup", "cleaned", "persist",
     "retire", "publish", "send"}

TransportState ==
    {"dead", "disconnected",
     "recover", "recActive", "recReclaim", "recConfirm", "recStop",
     "recCleanup", "recPersist", "recPublish",
     "serve", "admit", "preparing", "prepared", "started", "ackReported"}

Up == tpc # "dead"

TypeOK ==
    /\ journal   \in [Exec -> JournalRecord]
    /\ backend   \in [Exec -> BackendState]
    /\ expired   \in SUBSET Exec
    /\ active    \in SUBSET Exec
    /\ cancelled \in SUBSET Exec
    /\ pending   \in [Exec -> MaybeResult]
    /\ task      \in [Exec -> TaskState]
    /\ result    \in [Exec -> MaybeResult]
    /\ linked    \in SUBSET Exec
    /\ draining  \in BOOLEAN
    /\ tpc       \in TransportState
    /\ cur       \in Exec \cup {NoExec}
    /\ todo      \in SUBSET Exec
    /\ snap      \in [Exec -> JournalRecord]
    /\ wire      \in [Exec -> SUBSET TerminalResult]
    /\ ctl       \in [Exec -> MaybeResult]
    /\ revoked   \in SUBSET (Exec \X Lease)
    /\ execs     \in [Exec -> Nat]

NoRecords == [e \in Exec |-> NoRecord]
NoResults == [e \in Exec |-> NoResult]
NoWire    == [e \in Exec |-> {}]

Init ==
    /\ journal   = NoRecords
    /\ backend   = [e \in Exec |-> "ABSENT"]
    /\ expired   = {}
    /\ active    = {}
    /\ cancelled = {}
    /\ pending   = NoResults
    /\ task      = [e \in Exec |-> "none"]
    /\ result    = NoResults
    /\ linked    = {}
    /\ draining  = FALSE
    /\ tpc       = "disconnected"
    /\ cur       = NoExec
    /\ todo      = {}
    /\ snap      = NoRecords
    /\ wire      = NoWire
    /\ ctl       = NoResults
    /\ revoked   = {}
    /\ execs     = [e \in Exec |-> 0]

-----------------------------------------------------------------------------
(* The transport task: connecting, losing the connection, dying.           *)

(* An error returned by a handler or by recovery leaves connect_once; the  *)
(* receiver of the outbound channel is dropped and the run loop retries.   *)
DropConnection ==
    /\ tpc'    = "disconnected"
    /\ cur'    = NoExec
    /\ todo'   = {}
    /\ snap'   = NoRecords
    /\ wire'   = NoWire
    /\ linked' = {}

Fail ==
    /\ DropConnection
    /\ UNCHANGED <<active, cancelled, pending, task, result, draining>>
    /\ UNCHANGED <<durable, observer>>

(* Registration accepted: recover() reads the unfinished rows once.        *)
Connect ==
    /\ tpc = "disconnected"
    /\ tpc'  = "recover"
    /\ todo' = Unfinished(journal)
    /\ snap' = [e \in Exec |-> IF e \in Unfinished(journal)
                               THEN journal[e] ELSE NoRecord]
    /\ UNCHANGED <<cur, wire, durable, memory, observer>>

(* The socket fails or is closed; noticed by the select loop.              *)
Disconnect ==
    /\ tpc = "serve"
    /\ Fail

(* The process dies: everything in memory is lost, sandboxes keep running. *)
Crash ==
    /\ Up
    /\ tpc'       = "dead"
    /\ cur'       = NoExec
    /\ todo'      = {}
    /\ snap'      = NoRecords
    /\ wire'      = NoWire
    /\ linked'    = {}
    /\ active'    = {}
    /\ cancelled' = {}
    /\ pending'   = NoResults
    /\ task'      = [e \in Exec |-> "none"]
    /\ result'    = NoResults
    /\ draining'  = FALSE
    /\ UNCHANGED <<durable, observer>>

(* Backend::reconcile_orphans: a labelled sandbox is deleted when it is    *)
(* not retained and its expiry label, the lease deadline, has passed; the  *)
(* supervisor retains only rows before that same deadline.                 *)
Sweepable(e) == Present(e) /\ e \in expired

(* main(): one orphan reconciliation pass over the expired sandboxes must  *)
(* succeed before the transport task is spawned.                           *)
Restart ==
    /\ tpc = "dead"
    /\ tpc'     = "disconnected"
    /\ backend' = [e \in Exec |-> IF Sweepable(e) THEN "REMOVED" ELSE backend[e]]
    /\ UNCHANGED <<journal, expired, cur, todo, snap, wire, memory, observer>>

(* A journal write inside a handler or inside recovery returns an error,   *)
(* which `?` propagates: the row keeps its old content.                    *)
JournalFault ==
    /\ JournalMayFail
    /\ tpc \in {"admit", "preparing", "prepared", "started",
                "recConfirm", "recStop", "recPersist", "ackReported"}
    /\ Fail

-----------------------------------------------------------------------------
(* Supervisor::recover, one unfinished row after the other.                *)

Skip ==
    /\ tpc'  = "recover"
    /\ cur'  = NoExec
    /\ snap' = [snap EXCEPT ![cur] = NoRecord]

(* pending_results.contains_key                                            *)
RecoverPick(e) ==
    /\ tpc = "recover"
    /\ e \in todo
    /\ todo' = todo \ {e}
    /\ IF pending[e] # NoResult
       THEN /\ snap' = [snap EXCEPT ![e] = NoRecord]
            /\ UNCHANGED <<tpc, cur>>
       ELSE /\ tpc' = "recActive"
            /\ cur' = e
            /\ UNCHANGED snap
    /\ UNCHANGED <<wire, durable, memory, observer>>

(* active.contains_key, then the branch on the snapshot's row              *)
RecoverSkipActive ==
    /\ tpc = "recActive"
    /\ cur \in active
    /\ Skip
    /\ UNCHANGED <<todo, wire, durable, memory, observer>>

RecoverReplay ==
    /\ tpc = "recActive"
    /\ cur \notin active
    /\ snap[cur].terminal # NoResult
    /\ pending' = [pending EXCEPT ![cur] = snap[cur].terminal]
    /\ wire'    = [wire EXCEPT ![cur] = @ \cup {snap[cur].terminal}]
    /\ Skip
    /\ UNCHANGED <<todo, active, cancelled, task, result, linked, draining>>
    /\ UNCHANGED <<durable, observer>>

(* A bug: the payload that was persisted is not looked at.                 *)
RecoverBranchReDecides ==
    /\ tpc = "recActive"
    /\ cur \notin active
    /\ tpc' = IF snap[cur].op THEN "recStop" ELSE "recPersist"
    /\ UNCHANGED <<cur, todo, snap, wire, durable, memory, observer>>

(* A bug: the window after an acknowledgement is not recognised and the    *)
(* row is recovered like any unfinished one.                               *)
RecoverBranchIgnoresReported ==
    /\ tpc = "recActive"
    /\ cur \notin active
    /\ snap[cur].terminal = NoResult
    /\ tpc' = IF snap[cur].op THEN "recStop" ELSE "recPersist"
    /\ UNCHANGED <<cur, todo, snap, wire, durable, memory, observer>>

RecoverBranch ==
    /\ tpc = "recActive"
    /\ cur \notin active
    /\ snap[cur].terminal = NoResult
    /\ tpc' = CASE snap[cur].state = "TERMINAL_REPORTED" /\ snap[cur].op -> "recReclaim"
                [] snap[cur].state = "TERMINAL_REPORTED" /\ ~snap[cur].op -> "recConfirm"
                [] snap[cur].state # "TERMINAL_REPORTED" /\ snap[cur].op -> "recStop"
                [] snap[cur].state # "TERMINAL_REPORTED" /\ ~snap[cur].op -> "recPersist"
    /\ UNCHANGED <<cur, todo, snap, wire, durable, memory, observer>>

(* cleanup_recovery_record of a result the controller already accepted     *)
RecoverReclaim ==
    /\ tpc = "recReclaim"
    /\ backend' = [backend EXCEPT ![cur] = "REMOVED"]
    /\ tpc' = "recConfirm"
    /\ UNCHANGED <<journal, expired, cur, todo, snap, wire, memory, observer>>

RecoverConfirm ==
    /\ tpc = "recConfirm"
    /\ journal' = SetState(journal, cur, "CLEANUP_CONFIRMED", snap[cur].op)
    /\ Skip
    /\ UNCHANGED <<backend, expired, todo, wire, memory, observer>>

(* inspect, best-effort cancel, then the durable CLEANUP_REQUIRED          *)
RecoverStop ==
    /\ tpc = "recStop"
    /\ \/ UNCHANGED backend
       \/ /\ backend[cur] \in {"PREPARED", "RUNNING"}
          /\ backend' = [backend EXCEPT ![cur] = "STOPPED"]
    /\ journal' = SetState(journal, cur, "CLEANUP_REQUIRED", TRUE)
    /\ tpc' = "recCleanup"
    /\ UNCHANGED <<expired, cur, todo, snap, wire, memory, observer>>

(* A bug: the operation id is taken as evidence that nothing is left.      *)
RecoverCleanupAssumed ==
    /\ tpc = "recCleanup"
    /\ tpc' = "recPersist"
    /\ UNCHANGED <<cur, todo, snap, wire, durable, memory, observer>>

RecoverCleanup ==
    /\ tpc = "recCleanup"
    /\ backend' = [backend EXCEPT ![cur] = "REMOVED"]
    /\ tpc' = "recPersist"
    /\ UNCHANGED <<journal, expired, cur, todo, snap, wire, memory, observer>>

(* cleanup_with_retry used up its attempts: recovery is aborted.           *)
RecoverCleanupFails ==
    /\ tpc \in {"recCleanup", "recReclaim"}
    /\ Fail

RecoveredResult ==
    [ state   |-> "UNKNOWN",
      cleanup |-> IF snap[cur].op THEN "CONFIRMED" ELSE "NOT_REQUIRED" ]

RecoverPersist ==
    /\ tpc = "recPersist"
    /\ journal' = SetTerminal(journal, cur, RecoveredResult)
    /\ tpc' = "recPublish"
    /\ UNCHANGED <<backend, expired, cur, todo, snap, wire, memory, observer>>

RecoverPublish ==
    /\ tpc = "recPublish"
    /\ pending' = [pending EXCEPT ![cur] = RecoveredResult]
    /\ wire'    = [wire EXCEPT ![cur] = @ \cup {RecoveredResult}]
    /\ Skip
    /\ UNCHANGED <<todo, active, cancelled, task, result, linked, draining>>
    /\ UNCHANGED <<durable, observer>>

(* A bug: pending results are not sent again.                              *)
NothingResent == wire

(* resend_pending: every pending result goes out on this connection.       *)
Resent == [e \in Exec |-> IF pending[e] # NoResult
                          THEN wire[e] \cup {pending[e]} ELSE wire[e]]

RecoverDone ==
    /\ tpc = "recover"
    /\ todo = {}
    /\ tpc'  = "serve"
    /\ wire' = Resent
    /\ UNCHANGED <<cur, todo, snap, durable, memory, observer>>

-----------------------------------------------------------------------------
(* Supervisor::accept_execute and the select loop of the transport task.   *)

Heartbeat ==
    /\ tpc = "serve"
    /\ wire' = Resent
    /\ UNCHANGED <<tpc, cur, todo, snap, durable, memory, observer>>

Drain ==
    /\ tpc = "serve"
    /\ draining' = TRUE
    /\ UNCHANGED <<active, cancelled, pending, task, result, linked>>
    /\ UNCHANGED <<durable, transport, observer>>

(* Draining, expired, a stale lease or fence, or validate_command.         *)
RefuseExecute(e, l) ==
    /\ tpc = "serve"
    /\ \/ draining
       \/ e \in expired
       \/ journal[e].lease # l
    /\ Fail

DuplicateExecute(e, l) ==
    /\ tpc = "serve"
    /\ ~draining
    /\ e \notin expired
    /\ journal[e].lease = l
    /\ wire' = IF pending[e] # NoResult
               THEN [wire EXCEPT ![e] = @ \cup {pending[e]}] ELSE wire
    /\ UNCHANGED <<tpc, cur, todo, snap, durable, memory, observer>>

(* A bug: only the in-memory maps are consulted for a duplicate.           *)
NewExecuteIgnoresJournal(e, l) ==
    /\ tpc = "serve"
    /\ ~draining
    /\ e \notin expired
    /\ e \notin active
    /\ pending[e] = NoResult
    /\ journal' = RecordIntent(journal, e, l)
    /\ tpc' = "admit"
    /\ cur' = e
    /\ UNCHANGED <<backend, expired, todo, snap, wire, memory, observer>>

NewExecute(e, l) ==
    /\ tpc = "serve"
    /\ ~draining
    /\ e \notin expired
    /\ ~Recorded(journal, e)
    /\ journal' = RecordIntent(journal, e, l)
    /\ tpc' = "admit"
    /\ cur' = e
    /\ UNCHANGED <<backend, expired, todo, snap, wire, memory, observer>>

Permits == {e \in Exec : task[e] # "none"}

Admit ==
    /\ tpc = "admit"
    /\ Cardinality(Permits) < Capacity
    /\ journal' = SetState(journal, cur, "PREPARING", FALSE)
    /\ tpc' = "preparing"
    /\ UNCHANGED <<backend, expired, cur, todo, snap, wire, memory, observer>>

(* "runner capacity was exhausted": the intent is already durable.         *)
CapacityExhausted ==
    /\ tpc = "admit"
    /\ Cardinality(Permits) >= Capacity
    /\ Fail

(* report_setup_failure: the lane has no operation to clean up.            *)
SetupResult(s) == [state |-> s, cleanup |-> "NOT_REQUIRED"]

(* Staging, validation or preparation fails; report_setup_failure.  A      *)
(* create call whose answer was lost may leave a sandbox behind.           *)
SetupFailure(s) ==
    LET r == SetupResult(s) IN
    /\ tpc = "preparing"
    /\ s \in Outcomes \cap {"FAILED", "TIMED_OUT", "UNKNOWN"}
    /\ \/ UNCHANGED backend
       \/ /\ ~Present(cur)
          /\ backend' = [backend EXCEPT ![cur] = "PREPARED"]
    /\ journal' = SetTerminal(journal, cur, r)
    /\ pending' = [pending EXCEPT ![cur] = r]
    /\ wire'    = [wire EXCEPT ![cur] = @ \cup {r}]
    /\ tpc' = "serve"
    /\ cur' = NoExec
    /\ UNCHANGED <<expired, todo, snap, observer>>
    /\ UNCHANGED <<active, cancelled, task, result, linked, draining>>

(* The backend reuses a sandbox of that name, or creates it.               *)
Prepare ==
    /\ tpc = "preparing"
    /\ backend' = IF Present(cur) THEN backend
                  ELSE [backend EXCEPT ![cur] = "PREPARED"]
    /\ tpc' = "prepared"
    /\ UNCHANGED <<journal, expired, cur, todo, snap, wire, memory, observer>>

(* PREPARED with the operation id, active.insert, RunnerLeaseStarted.      *)
RecordPrepared ==
    /\ tpc = "prepared"
    /\ journal' = SetState(journal, cur, "PREPARED", TRUE)
    /\ active'  = active \cup {cur}
    /\ tpc' = "started"
    /\ UNCHANGED <<cancelled, pending, task, result, linked, draining>>
    /\ UNCHANGED <<backend, expired, cur, todo, snap, wire, observer>>

Spawn ==
    /\ tpc = "started"
    /\ journal' = SetState(journal, cur, "EXECUTING", TRUE)
    /\ task'    = [task EXCEPT ![cur] = "start"]
    /\ linked'  = linked \cup {cur}
    /\ tpc' = "serve"
    /\ cur' = NoExec
    /\ UNCHANGED <<active, cancelled, pending, result, draining>>
    /\ UNCHANGED <<backend, expired, todo, snap, wire, observer>>

-----------------------------------------------------------------------------
(* The task spawned for each execution.                                    *)

TaskStart(e) ==
    /\ task[e] = "start"
    /\ backend[e] = "PREPARED"
    /\ backend' = [backend EXCEPT ![e] = "RUNNING"]
    /\ execs'   = [execs EXCEPT ![e] = @ + 1]
    /\ task'    = [task EXCEPT ![e] = "running"]
    /\ UNCHANGED <<active, cancelled, pending, result, linked, draining>>
    /\ UNCHANGED <<journal, expired, transport, ctl, revoked>>

(* A bug: a deadline stop surfaces as the backend reported it.             *)
ErrorStateAsReported(e) ==
    {s \in Outcomes \ {"SUCCEEDED"} : s = "CANCELLED" => e \in cancelled}

(* from_backend_error; past the deadline every error is a deadline expiry. *)
ErrorState(e) ==
    IF e \in expired THEN {"TIMED_OUT"}
    ELSE {s \in Outcomes \ {"SUCCEEDED"} : s = "CANCELLED" => e \in cancelled}

(* backend.execute returns output: the command ran to its end.             *)
ExecuteOutput(e, s) ==
    /\ task[e] = "running"
    /\ s \in Outcomes \cap {"SUCCEEDED", "FAILED"}
    /\ backend' = IF backend[e] = "RUNNING"
                  THEN [backend EXCEPT ![e] = "STOPPED"] ELSE backend

(* It returns an error, or the local wall-clock timeout fires and the      *)
(* operation is cancelled; either may leave the sandbox running.  An       *)
(* invalid artifact manifest turns any outcome into FAILED.                *)
ExecuteError(e, s) ==
    /\ task[e] = "running" \/ task[e] = "start"
    /\ s \in ErrorState(e) \cup (Outcomes \cap {"TIMED_OUT", "FAILED"})
    /\ \/ UNCHANGED backend
       \/ /\ backend[e] \in {"PREPARED", "RUNNING"}
          /\ backend' = [backend EXCEPT ![e] = "STOPPED"]

TaskExecuted(e, s) ==
    /\ ExecuteOutput(e, s) \/ ExecuteError(e, s)
    /\ result' = [result EXCEPT ![e] = [state |-> s, cleanup |-> "FAILED"]]
    /\ task'   = [task EXCEPT ![e] = "cleanup"]
    /\ UNCHANGED <<active, cancelled, pending, linked, draining>>
    /\ UNCHANGED <<journal, expired, transport, observer>>

(* cleanup_with_retry                                                      *)
TaskCleanup(e) ==
    /\ task[e] = "cleanup"
    /\ backend' = [backend EXCEPT ![e] = "REMOVED"]
    /\ result'  = [result EXCEPT ![e] = [@ EXCEPT !.cleanup = "CONFIRMED"]]
    /\ task'    = [task EXCEPT ![e] = "cleaned"]
    /\ UNCHANGED <<active, cancelled, pending, linked, draining>>
    /\ UNCHANGED <<journal, expired, transport, observer>>

TaskCleanupFails(e) ==
    /\ task[e] = "cleanup"
    /\ task' = [task EXCEPT ![e] = "persist"]
    /\ UNCHANGED <<active, cancelled, pending, result, linked, draining>>
    /\ UNCHANGED <<durable, transport, observer>>

(* let _ = set_state(CLEANUP_REQUIRED): an error is ignored.               *)
TaskRecordCleanup(e) ==
    /\ task[e] = "cleaned"
    /\ \/ journal' = SetState(journal, e, "CLEANUP_REQUIRED", TRUE)
       \/ JournalMayFail /\ UNCHANGED journal
    /\ task' = [task EXCEPT ![e] = "persist"]
    /\ UNCHANGED <<active, cancelled, pending, result, linked, draining>>
    /\ UNCHANGED <<backend, expired, transport, observer>>

TaskPersist(e) ==
    /\ task[e] = "persist"
    /\ journal' = SetTerminal(journal, e, result[e])
    /\ task'    = [task EXCEPT ![e] = "retire"]
    /\ UNCHANGED <<active, cancelled, pending, result, linked, draining>>
    /\ UNCHANGED <<backend, expired, transport, observer>>

(* set_terminal failed, before or after its update: the task logs and      *)
(* returns, still listed as active.                                        *)
TaskPersistFails(e) ==
    /\ JournalMayFail
    /\ task[e] = "persist"
    /\ \/ UNCHANGED journal
       \/ journal' = SetTerminal(journal, e, result[e])
    /\ task'   = [task EXCEPT ![e] = "none"]
    /\ result' = [result EXCEPT ![e] = NoResult]
    /\ linked' = linked \ {e}
    /\ UNCHANGED <<active, cancelled, pending, draining>>
    /\ UNCHANGED <<backend, expired, transport, observer>>

TaskRetire(e) ==
    /\ task[e] = "retire"
    /\ active'    = active \ {e}
    /\ cancelled' = cancelled \ {e}
    /\ task'      = [task EXCEPT ![e] = "publish"]
    /\ UNCHANGED <<pending, result, linked, draining>>
    /\ UNCHANGED <<durable, transport, observer>>

TaskPublish(e) ==
    /\ task[e] = "publish"
    /\ pending' = [pending EXCEPT ![e] = result[e]]
    /\ task'    = [task EXCEPT ![e] = "send"]
    /\ UNCHANGED <<active, cancelled, result, linked, draining>>
    /\ UNCHANGED <<durable, transport, observer>>

(* A bug: sending the result is taken for its delivery.                    *)
TaskSendReports(e) ==
    /\ task[e] = "send"
    /\ wire'    = IF e \in linked
                  THEN [wire EXCEPT ![e] = @ \cup {result[e]}] ELSE wire
    /\ journal' = SetState(journal, e, "TERMINAL_REPORTED", FALSE)
    /\ task'    = [task EXCEPT ![e] = "none"]
    /\ result'  = [result EXCEPT ![e] = NoResult]
    /\ linked'  = linked \ {e}
    /\ UNCHANGED <<active, cancelled, pending, draining>>
    /\ UNCHANGED <<tpc, cur, todo, snap, backend, expired, observer>>

(* The result goes out if the connection that delivered the lease is still *)
(* there; otherwise it waits for resend_pending.                           *)
TaskSend(e) ==
    /\ task[e] = "send"
    /\ wire'   = IF e \in linked
                 THEN [wire EXCEPT ![e] = @ \cup {result[e]}] ELSE wire
    /\ task'   = [task EXCEPT ![e] = "none"]
    /\ result' = [result EXCEPT ![e] = NoResult]
    /\ linked' = linked \ {e}
    /\ UNCHANGED <<active, cancelled, pending, draining>>
    /\ UNCHANGED <<tpc, cur, todo, snap, durable, observer>>

-----------------------------------------------------------------------------
(* Supervisor::result_accepted                                             *)

(* The acknowledgement the controller sends for a terminal result it       *)
(* received on this connection carries the state it has stored.            *)
AckArrives(e) ==
    /\ tpc = "serve"
    /\ wire[e] # {}
    /\ ctl[e] # NoResult

AckMatches(e) ==
    /\ pending[e] # NoResult
    /\ pending[e].state = ctl[e].state
    /\ pending[e].cleanup \in {"CONFIRMED", "NOT_REQUIRED"}

(* Unknown, conflicting, or for a result whose cleanup failed.             *)
RefuseAck(e) ==
    /\ AckArrives(e)
    /\ ~AckMatches(e)
    /\ Fail

(* The staged inputs cannot be removed: the result stays for replay.       *)
AckReclaimFails(e) ==
    /\ AckArrives(e)
    /\ AckMatches(e)
    /\ Fail

AckReported(e) ==
    /\ AckArrives(e)
    /\ AckMatches(e)
    /\ journal' = SetState(journal, e, "TERMINAL_REPORTED", FALSE)
    /\ tpc' = "ackReported"
    /\ cur' = e
    /\ UNCHANGED <<backend, expired, todo, snap, wire, memory, observer>>

AckConfirmed ==
    /\ tpc = "ackReported"
    /\ journal' = SetState(journal, cur, "CLEANUP_CONFIRMED", FALSE)
    /\ pending' = [pending EXCEPT ![cur] = NoResult]
    /\ tpc' = "serve"
    /\ cur' = NoExec
    /\ UNCHANGED <<active, cancelled, task, result, linked, draining>>
    /\ UNCHANGED <<backend, expired, todo, snap, wire, observer>>

-----------------------------------------------------------------------------
(* Supervisor::cancel_lease, reconcile_lease, the watchdog and the orphan  *)
(* reconciler.                                                             *)

(* backend.cancel stops a sandbox that has not ended.                      *)
Stop(e) ==
    backend' = IF backend[e] \in {"PREPARED", "RUNNING"}
               THEN [backend EXCEPT ![e] = "STOPPED"] ELSE backend

CancelActive(e, l) ==
    /\ tpc = "serve"
    /\ e \in Revocable
    /\ e \in active
    /\ journal[e].lease = l
    /\ revoked'   = revoked \cup {<<e, l>>}
    /\ cancelled' = cancelled \cup {e}
    /\ Stop(e)
    /\ UNCHANGED <<active, pending, task, result, linked, draining>>
    /\ UNCHANGED <<journal, expired, transport, ctl, execs>>

(* The signal is sent but backend.cancel returns an error.                 *)
CancelActiveFails(e, l) ==
    /\ tpc = "serve"
    /\ e \in Revocable
    /\ e \in active
    /\ journal[e].lease = l
    /\ revoked'   = revoked \cup {<<e, l>>}
    /\ cancelled' = cancelled \cup {e}
    /\ DropConnection
    /\ UNCHANGED <<active, pending, task, result, draining>>
    /\ UNCHANGED <<durable, ctl, execs>>

(* A delayed duplicate: a pending or an acknowledged result of that lease. *)
CancelIdempotent(e, l) ==
    /\ tpc = "serve"
    /\ e \in Revocable
    /\ e \notin active
    /\ journal[e].lease = l
    /\ \/ pending[e] # NoResult
       \/ journal[e].state \in {"TERMINAL_REPORTED", "CLEANUP_CONFIRMED"}
    /\ revoked' = revoked \cup {<<e, l>>}
    /\ UNCHANGED <<durable, memory, transport, ctl, execs>>

(* A stale fence, an unknown execution, or a row that recovery owns.       *)
RefuseCancel(e, l) ==
    /\ tpc = "serve"
    /\ e \in Revocable
    /\ \/ journal[e].lease # l
       \/ /\ e \notin active
          /\ pending[e] = NoResult
          /\ journal[e].state \notin {"TERMINAL_REPORTED", "CLEANUP_CONFIRMED"}
    /\ revoked' = revoked \cup {<<e, l>>}
    /\ DropConnection
    /\ UNCHANGED <<active, cancelled, pending, task, result, draining>>
    /\ UNCHANGED <<durable, ctl, execs>>

(* reconcile_lease replays the pending result; an active lease is answered *)
(* with Accepted and Started, which carry no outcome.                      *)
ReconcileLease(e, l) ==
    /\ tpc = "serve"
    /\ journal[e].lease = l
    /\ pending[e] # NoResult \/ e \in active
    /\ wire' = IF pending[e] # NoResult
               THEN [wire EXCEPT ![e] = @ \cup {pending[e]}] ELSE wire
    /\ UNCHANGED <<tpc, cur, todo, snap, durable, memory, observer>>

RefuseReconcile(e, l) ==
    /\ tpc = "serve"
    /\ \/ journal[e].lease # l
       \/ pending[e] = NoResult /\ e \notin active
    /\ Fail

(* run_watchdog: every 250 ms, whatever the state of the connection.       *)
Watchdog(e) ==
    /\ Up
    /\ e \in active
    /\ e \in expired
    /\ cancelled' = cancelled \cup {e}
    /\ UNCHANGED backend \/ Stop(e)
    /\ UNCHANGED <<active, pending, task, result, linked, draining>>
    /\ UNCHANGED <<journal, expired, transport, observer>>

(* A bug: every unfinished row keeps its sandbox, expired or not.          *)
OrphanRetainsUnfinished(e) ==
    /\ Up
    /\ Sweepable(e)
    /\ ~(e \in Unfinished(journal) /\ journal[e].op)
    /\ backend' = [backend EXCEPT ![e] = "REMOVED"]
    /\ UNCHANGED <<journal, expired, memory, transport, observer>>

(* reconcile_backend_orphans_once, on its own interval.                    *)
OrphanReclaim(e) ==
    /\ Up
    /\ Sweepable(e)
    /\ backend' = [backend EXCEPT ![e] = "REMOVED"]
    /\ UNCHANGED <<journal, expired, memory, transport, observer>>

-----------------------------------------------------------------------------
(* The environment: time, and the controller's compare-and-set on the      *)
(* attempt row, which keeps the first terminal result.                     *)

Expire(e) ==
    /\ e \in Perishable
    /\ e \notin expired
    /\ expired' = expired \cup {e}
    /\ UNCHANGED <<journal, backend, memory, transport, observer>>

ControllerStore(e) ==
    /\ ctl[e] = NoResult
    /\ \E r \in wire[e] : ctl' = [ctl EXCEPT ![e] = r]
    /\ UNCHANGED <<durable, memory, transport, revoked, execs>>

(* The update is committed, but the checkpoint after it returns an error:  *)
(* the row has its new content and the caller fails all the same.  (After  *)
(* the other writes this is the state of a fault at the next step.)        *)
CheckpointFault ==
    /\ JournalMayFail
    /\ \/ /\ tpc = "preparing"
          /\ \E s \in Outcomes \cap {"FAILED", "TIMED_OUT", "UNKNOWN"} :
                journal' = SetTerminal(journal, cur, SetupResult(s))
       \/ tpc = "prepared"    /\ journal' = SetState(journal, cur, "PREPARED", TRUE)
       \/ tpc = "started"     /\ journal' = SetState(journal, cur, "EXECUTING", TRUE)
       \/ tpc = "recConfirm"  /\ journal' = SetState(journal, cur, "CLEANUP_CONFIRMED", snap[cur].op)
       \/ tpc = "recPersist"  /\ journal' = SetTerminal(journal, cur, RecoveredResult)
       \/ tpc = "ackReported" /\ journal' = SetState(journal, cur, "CLEANUP_CONFIRMED", FALSE)
    /\ DropConnection
    /\ UNCHANGED <<active, cancelled, pending, task, result, draining>>
    /\ UNCHANGED <<backend, expired, observer>>

-----------------------------------------------------------------------------
Recover ==
    \/ \E e \in Exec : RecoverPick(e)
    \/ RecoverSkipActive \/ RecoverReplay \/ RecoverBranch
    \/ RecoverReclaim \/ RecoverConfirm \/ RecoverStop \/ RecoverCleanup
    \/ RecoverCleanupFails \/ RecoverPersist \/ RecoverPublish
    \/ RecoverDone

Setup ==
    \/ Admit \/ CapacityExhausted \/ Prepare \/ RecordPrepared \/ Spawn
    \/ \E s \in AttemptState : SetupFailure(s)

Task(e) ==
    \/ TaskStart(e)
    \/ \E s \in AttemptState : TaskExecuted(e, s)
    \/ TaskCleanup(e) \/ TaskCleanupFails(e) \/ TaskRecordCleanup(e)
    \/ TaskPersist(e) \/ TaskPersistFails(e)
    \/ TaskRetire(e) \/ TaskPublish(e) \/ TaskSend(e)

Directive(e, l) ==
    \/ RefuseExecute(e, l) \/ DuplicateExecute(e, l) \/ NewExecute(e, l)
    \/ CancelActive(e, l) \/ CancelActiveFails(e, l)
    \/ CancelIdempotent(e, l) \/ RefuseCancel(e, l)
    \/ ReconcileLease(e, l) \/ RefuseReconcile(e, l)

Next ==
    \/ Connect \/ Disconnect \/ Crash \/ Restart \/ JournalFault \/ CheckpointFault
    \/ Recover \/ Setup \/ Heartbeat \/ Drain \/ AckConfirmed
    \/ \E e \in Exec, l \in Lease : Directive(e, l)
    \/ \E e \in Exec :
          \/ Task(e) \/ RefuseAck(e) \/ AckReclaimFails(e) \/ AckReported(e)
          \/ Watchdog(e) \/ OrphanReclaim(e)
          \/ Expire(e) \/ ControllerStore(e)

Spec == Init /\ [][Next]_vars

-----------------------------------------------------------------------------
(* Fairness.  The tokio runtime keeps polling the transport task and the   *)
(* spawned tasks (an execution ends at the latest by its local timeout);   *)
(* run() retries the connection for ever; the reconciler, the heartbeat    *)
(* and the clock tick on their own; a supervisor of the process restarts   *)
(* it.  The controller stores and acknowledges what it received.  Nothing  *)
(* is assumed of the directives it sends.                                  *)

ReclaimFairness ==
    /\ WF_vars(Restart)
    /\ \A e \in Exec : WF_vars(Expire(e)) /\ WF_vars(OrphanReclaim(e))

RecoverProgress == Recover /\ ~RecoverCleanupFails

DeliveryFairness ==
    /\ WF_vars(Restart)
    /\ WF_vars(Connect)
    /\ WF_vars(RecoverProgress)
    /\ WF_vars(Setup)
    /\ WF_vars(Heartbeat)
    /\ WF_vars(AckConfirmed)
    /\ \A e \in Exec :
          WF_vars(Task(e)) /\ WF_vars(ControllerStore(e)) /\ WF_vars(AckReported(e))

(* No connection is promised here: the sandboxes are reclaimed without it. *)
ReclaimSpec  == Spec /\ ReclaimFairness
DeliverySpec == Spec /\ DeliveryFairness

-----------------------------------------------------------------------------
(* Properties                                                              *)

Settled(e) == journal[e].state \in {"TERMINAL_REPORTED", "CLEANUP_CONFIRMED"}

(* Every copy of a terminal result of e, in the journal, in memory, on the *)
(* connection or at the controller.                                        *)
Copies(e) == {journal[e].terminal, pending[e], result[e], ctl[e]} \cup wire[e]

(* accept_execute consults the durable journal before it creates anything: *)
(* however often a lease is redelivered, and across restarts, the command  *)
(* of an execution is started at most once.                                *)
AtMostOneExecution == \A e \in Exec : execs[e] <= 1

(* A result that claims confirmed cleanup, wherever it is stored or sent,  *)
(* belongs to an execution whose sandbox is gone: cleanup_with_retry or    *)
(* recovery removed it before the claim was written.                       *)
CleanupEvidence ==
    \A e \in Exec : \A r \in Copies(e) :
        r.cleanup = "CONFIRMED" => backend[e] = "REMOVED"

(* result_accepted discards a durable result only for an acknowledgement:  *)
(* a row that no longer holds its outcome means the controller holds it.   *)
OutcomeKept == \A e \in Exec : Settled(e) => ctl[e] # NoResult

(* An outcome says CANCELLED only if the controller cancelled that very    *)
(* lease: neither a stale fence nor the watchdog's stop at the deadline    *)
(* may surface as a user cancellation.                                     *)
CancelledByController ==
    \A e \in Exec : \A r \in Copies(e) :
        r.state = "CANCELLED" => <<e, journal[e].lease>> \in revoked

(* A row that was acknowledged never becomes an unfinished one again:      *)
(* recovery finishes local reclamation and invents no new outcome.         *)
SettledForGood ==
    [][\A e \in Exec : Settled(e) => Settled(e)']_vars

(* What the journal holds when the process dies is what it holds until it  *)
(* is discarded: a restart changes no outcome.                             *)
RestartReplays ==
    \A e \in Exec : \A r \in TerminalResult :
        [](tpc = "dead" /\ journal[e].terminal = r
           => [](journal[e].terminal \in {r, NoResult}))

(* journal.rs, set_terminal: a persisted terminal payload is replayable    *)
(* "without changing the outcome to UNKNOWN"; no step replaces it.         *)
TerminalImmutable ==
    [][\A e \in Exec :
          journal[e].terminal # NoResult
          => journal'[e].terminal \in {journal[e].terminal, NoResult}]_vars

(* The comment in reconcile_backend_orphans_once: resources must not leak  *)
(* "whenever controller connectivity prevents journal recovery".  Every    *)
(* sandbox is eventually reclaimed even if no connection is ever made.     *)
Reclaimed == \A e \in Perishable : Present(e) ~> ~Present(e)

(* The controller stored another outcome than the one the runner offers.   *)
Conflict(e) == ctl[e] # NoResult /\ pending[e] # NoResult /\ pending[e].state # ctl[e].state

(* What an execution that was taken on ends in: it is acknowledged and     *)
(* closed, or waits for an operator with failed cleanup, or is disputed.   *)
Concluded(e) ==
    \/ journal[e].state = "CLEANUP_CONFIRMED"
    \/ pending[e].cleanup = "FAILED"
    \/ Conflict(e)

(* Once a connection is kept, every execution the runner took on is        *)
(* concluded: resend_pending, recovery and redelivery leave no result      *)
(* waiting for a message that nobody will send again.                      *)
Delivered ==
    <>[](tpc \notin {"dead", "disconnected"}) =>
        \A e \in Exec : Recorded(journal, e) ~> Concluded(e)

(* The runner implements its contract with the controller.                 *)
Contract == INSTANCE LeaseContract WITH
    Outcome   <- AttemptState,
    NoOutcome <- "NONE",
    phase     <- [e \in Exec |-> CASE ~Recorded(journal, e) -> "unseen"
                                   [] Settled(e) -> "settled"
                                   [] OTHER -> "owned"],
    ran       <- execs,
    outcome   <- [e \in Exec |-> ctl[e].state]

(* Every behaviour of the command lane is a behaviour of LeaseContract.    *)
ContractSpec == Contract!Spec

=============================================================================
