---------------------------- MODULE WorkerAttempt ----------------------------
(***************************************************************************)
(* An agent worker's attempt with a broker: run_worker_process             *)
(* (worker_process.rs), the task around it (accept_agent_worker in         *)
(* supervisor.rs) and the broker it serves the worker with.  The select    *)
(* loop races the worker's terminal frame, its end, the deadline, a        *)
(* cancellation and the broker's unknown-outcome channel; after the loop   *)
(* the process is awaited, the broker shut down and the outcome persisted. *)
(***************************************************************************)
EXTENDS AttemptBroker

VARIABLES
    worker,    \* the worker process, as run_worker_process sees it
    verdict,   \* what run_worker_process makes of the attempt
    outcome,   \* durable: the attempt's state, "NONE" before set_terminal
    late,      \* the execution deadline has passed
    cancel     \* who has set the cancellation channel

attempt == <<worker, verdict, outcome, late, cancel>>
vars    == <<brokerVars, attempt>>

AttemptOutcome == {"NONE", "SUCCEEDED", "FAILED", "CANCELLED", "TIMED_OUT", "UNKNOWN"}

(* running: in the select loop; ending: its terminal frame was read;       *)
(* exited: cleanly; killed: run_worker_process returned an error; over:    *)
(* the task has ended; dead: the runner has died.                          *)
WorkerState == {"running", "ending", "exited", "killed", "over", "dead"}

(* The broker's types, and those of the attempt.                           *)
TypeOK ==
    /\ BrokerTypeOK
    /\ worker  \in WorkerState
    /\ verdict \in AttemptOutcome
    /\ outcome \in AttemptOutcome
    /\ late    \in BOOLEAN
    /\ cancel  \in {"NOBODY", "CONTROLLER", "WATCHDOG"}

Init ==
    /\ BrokerInit
    /\ worker  = "running"
    /\ verdict = "NONE"
    /\ outcome = "NONE"
    /\ late    = FALSE
    /\ cancel  = "NOBODY"

-----------------------------------------------------------------------------
(* The select loop and what follows it.                                    *)

Kill(v) ==
    /\ worker = "running"
    /\ worker'  = "killed"
    /\ verdict' = v
    /\ UNCHANGED <<brokerVars, outcome, late, cancel>>

(* The terminal frame ends the loop, whatever the channel says.            *)
WorkerTerminal(v) ==
    /\ worker = "running"
    /\ worker'  = "ending"
    /\ verdict' = v
    /\ UNCHANGED <<brokerVars, outcome, late, cancel>>

(* An error is told from its text, which may quote the worker's output:    *)
(* "deadline" makes it TIMED_OUT, "cancelled" CANCELLED, others UNKNOWN.   *)
ErrorVerdict == {"TIMED_OUT", "CANCELLED", "UNKNOWN"}

(* A protocol error, or an end without a terminal frame.                   *)
WorkerFails(v) == Kill(v)

(* The worker is told, and has a second to send a terminal frame.          *)
CancelStops ==
    /\ cancel # "NOBODY"
    /\ \/ Kill("CANCELLED")
       \/ WorkerTerminal("CANCELLED")

DeadlineKills == late /\ Kill("TIMED_OUT")

(* wait_for_broker_unknown                                                 *)
UnknownKills == flagged /\ Kill("UNKNOWN")

(* child.wait() after the terminal frame; a non-zero status, or more on    *)
(* stderr than is admitted, is an error.                                   *)
WorkerExits ==
    /\ worker = "ending"
    /\ \/ worker' = "exited" /\ UNCHANGED verdict
       \/ worker' = "killed" /\ verdict' \in ErrorVerdict
    /\ UNCHANGED <<brokerVars, outcome, late, cancel>>

(* The broker is shut down after a clean exit; an error drops the channel. *)
Shutdown ==
    /\ worker \in {"exited", "killed", "over"}
    /\ StopServing
    /\ UNCHANGED attempt

(* A bug: the broker's task is not awaited.                                *)
ReturnedEarly == worker \in {"killed", "exited"}

(* run_worker_process has returned; after a clean exit it has awaited the  *)
(* accept loop, not the handlers.                                          *)
Returned == worker = "killed" \/ (worker = "exited" /\ serving # "serving")

(* The loop's own error, a failed cleanup, and usage that cannot be read   *)
(* make the outcome UNKNOWN.                                               *)
Report ==
    /\ Returned
    /\ worker'  = "over"
    /\ outcome' \in IF worker = "exited" /\ serving = "error"
                    THEN {"UNKNOWN"} ELSE {verdict, "UNKNOWN"}
    /\ UNCHANGED <<brokerVars, verdict, late, cancel>>

(* set_terminal fails: the task returns and leaves its entry in active.    *)
ReportFails ==
    /\ JournalMayFail
    /\ Returned
    /\ worker' = "over"
    /\ UNCHANGED <<brokerVars, verdict, outcome, late, cancel>>

RunnerDies ==
    /\ Crash
    /\ worker'  = "dead"
    /\ verdict' = "NONE"
    /\ cancel'  = "NOBODY"
    /\ UNCHANGED <<outcome, late>>

(* recover: an execution without a terminal result is reported as UNKNOWN. *)
(* Its worker is not started again, so no broker is bound.                 *)
RecoverOutcome ==
    /\ worker  = "dead"
    /\ outcome = "NONE"
    /\ worker'  = "over"
    /\ outcome' = "UNKNOWN"
    /\ UNCHANGED <<brokerVars, verdict, late, cancel>>

DeadlinePasses ==
    /\ ~late
    /\ late' = TRUE
    /\ UNCHANGED <<brokerVars, worker, verdict, outcome, cancel>>

(* cancel_lease, or the watchdog at the lease deadline, while the task has *)
(* its entry in active.                                                    *)
Cancel(who) ==
    /\ worker \notin {"over", "dead"}
    /\ who = "WATCHDOG" => late
    /\ cancel  = "NOBODY"
    /\ cancel' = who
    /\ UNCHANGED <<brokerVars, worker, verdict, outcome, late>>

BrokerStep ==
    /\ \/ \E c \in Conn : Accept(c) \/ HandlerStep(c)
       \/ ServeFails \/ Expire \/ \E s \in Secret \cup {None} : Rotate(s)
    /\ UNCHANGED attempt

Next ==
    \/ BrokerStep
    \/ \E v \in {"SUCCEEDED", "FAILED", "CANCELLED", "UNKNOWN"} : WorkerTerminal(v)
    \/ \E v \in ErrorVerdict : WorkerFails(v)
    \/ \E who \in {"CONTROLLER", "WATCHDOG"} : Cancel(who)
    \/ CancelStops \/ DeadlineKills \/ UnknownKills \/ WorkerExits
    \/ Shutdown \/ Report \/ ReportFails
    \/ RunnerDies \/ RecoverOutcome \/ DeadlinePasses

Spec == Init /\ [][Next]_vars

(* The runtime polls the handlers, the select loop and the task.  Nothing  *)
(* is assumed of the deadline, which may be far, or of the worker: it need *)
(* not end its frames, send a terminal one, or exit after it.              *)
FairSpec ==
    /\ Spec
    /\ \A c \in Conn : WF_vars(Dispatching(c) /\ UNCHANGED attempt)
    /\ WF_vars(CancelStops) /\ WF_vars(UnknownKills) /\ WF_vars(DeadlineKills)
    /\ WF_vars(Shutdown) /\ WF_vars(Report)
-----------------------------------------------------------------------------
(* Properties.                                                             *)

(* A success is reported only when the accept loop has ended: no request   *)
(* on a new connection follows it (broker_task is awaited).                *)
SuccessEndsService == outcome = "SUCCEEDED" => serving # "serving"

(* A handler that recorded a request as UNKNOWN takes the attempt out of   *)
(* the worker loop, without the help of the deadline and whatever journal  *)
(* calls fail elsewhere: no further event of the worker is waited for.     *)
UnknownStops == \A c \in Conn : At(c, "flag") ~> worker # "running"
=============================================================================
