------------------------- MODULE WorkerAttemptProofs -------------------------
(***************************************************************************)
(* An attempt uses its broker as AttemptBroker says, so the broker's       *)
(* theorems hold of attempts; and a success ends the broker's service.     *)
(***************************************************************************)
EXTENDS WorkerAttempt, AttemptBrokerProofs

(* Every step of the attempt is one of the broker's or leaves it alone.    *)
LEMMA AttemptStepIsBrokerStep == [Next]_vars => [BrokerNext]_brokerVars
  <1> SUFFICES ASSUME Next PROVE [BrokerNext]_brokerVars
    BY DEF vars, brokerVars
  <1>1. CASE BrokerStep
    BY <1>1 DEF BrokerStep, BrokerNext
  <1>2. CASE Shutdown \/ RunnerDies
    BY <1>2 DEF Shutdown, RunnerDies, BrokerNext
  <1>3. CASE UNCHANGED brokerVars
    BY <1>3
  <1>4. QED
    BY <1>1, <1>2, <1>3
    DEF Next, WorkerTerminal, WorkerFails, CancelStops, DeadlineKills, UnknownKills,
        Kill, WorkerExits, Report, ReportFails, RecoverOutcome, DeadlinePasses, Cancel

(* The attempt implements the broker's specification: run_worker_process   *)
(* stops the broker and a crash takes it down only as the broker allows.   *)
THEOREM AttemptImplementsBroker == Spec => BrokerSpec
  <1>1. Init => BrokerInit
    BY DEF Init
  <1>2. QED
    BY <1>1, AttemptStepIsBrokerStep, PTL DEF Spec, BrokerSpec

(* In an attempt, too, the provider is called at most once per request.    *)
THEOREM AttemptSendsAtMostOnce == Spec => []AtMostOneSend
  BY AttemptImplementsBroker, SendsAtMostOnce, PTL

(* The variables the attempt adds to the broker's keep their types.        *)
AttemptTypes ==
    /\ worker  \in WorkerState
    /\ verdict \in AttemptOutcome
    /\ outcome \in AttemptOutcome
    /\ late    \in BOOLEAN
    /\ cancel  \in {"NOBODY", "CONTROLLER", "WATCHDOG"}

(* The type invariant of the attempt: the select loop, the report and      *)
(* recovery write only states the journal knows.                           *)
THEOREM AttemptTypesHold == Spec => []TypeOK
  <1>1. Init => AttemptTypes
    BY DEF Init, AttemptTypes, WorkerState, AttemptOutcome
  <1>2. AttemptTypes /\ [Next]_vars => AttemptTypes'
    <2> SUFFICES ASSUME AttemptTypes, [Next]_vars PROVE AttemptTypes'
      OBVIOUS
    <2> USE DEF AttemptTypes, WorkerState, AttemptOutcome
    <2>1. CASE BrokerStep \/ Shutdown \/ UNCHANGED vars
      BY <2>1 DEF BrokerStep, Shutdown, vars, attempt
    <2>2. CASE \/ \E v \in {"SUCCEEDED", "FAILED", "CANCELLED", "UNKNOWN"} : WorkerTerminal(v)
               \/ \E v \in ErrorVerdict : WorkerFails(v)
               \/ CancelStops \/ DeadlineKills \/ UnknownKills \/ WorkerExits
      BY <2>2
      DEF WorkerTerminal, WorkerFails, ErrorVerdict, CancelStops, DeadlineKills, UnknownKills,
          Kill, WorkerExits
    <2>3. CASE \/ Report \/ ReportFails \/ RunnerDies \/ RecoverOutcome \/ DeadlinePasses
               \/ \E who \in {"CONTROLLER", "WATCHDOG"} : Cancel(who)
      BY <2>3 DEF Report, ReportFails, RunnerDies, RecoverOutcome, DeadlinePasses, Cancel
    <2>4. QED
      BY <2>1, <2>2, <2>3 DEF Next
  <1>3. BrokerInvariant /\ AttemptTypes => TypeOK
    BY DEF BrokerInvariant, TypeOK, AttemptTypes
  <1>4. QED
    BY <1>1, <1>2, <1>3, AttemptImplementsBroker, BrokerInvariantHolds, PTL DEF Spec

(* No step of a handler opens or closes the accept loop.                   *)
LEMMA HandlersKeepServing ==
    ASSUME NEW c \in Conn, Accept(c) \/ HandlerStep(c)
    PROVE  serving' = serving
  BY DEF HandlerStep, Accept, ReadFails, RefuseActive, Receive, Finish, FinishFailed,
         Respond, Refuse, BeginReused, BeginReplay, BeginInterrupted, BeginUnknown,
         BeginOverBudget, BeginNew, BeginFails, Send, AnswerLost, Receives,
         MarkUnknown, MarkFails, RaiseFlag, Deliver, DeliverFails, ReadUsage,
         UsageFails, Complete, CompleteFails, OnlyHandler

(* SuccessEndsService with what it needs: an error is never a success.     *)
EndsInvariant ==
    /\ SuccessEndsService
    /\ worker = "killed" => verdict # "SUCCEEDED"

(* A success is reported only after the accept loop was awaited, and the   *)
(* loop of this attempt is never started again.                            *)
THEOREM SuccessIsLast == Spec => []SuccessEndsService
  <1>1. Init => EndsInvariant
    BY DEF Init, EndsInvariant, SuccessEndsService
  <1>2. EndsInvariant /\ [Next]_vars => EndsInvariant'
    <2> SUFFICES ASSUME EndsInvariant, [Next]_vars PROVE EndsInvariant'
      OBVIOUS
    <2>1. CASE BrokerStep
      <3>1. serving' = serving \/ serving' = "error"
        BY <2>1, HandlersKeepServing DEF BrokerStep, ServeFails, Expire, Rotate
      <3>2. QED
        BY <2>1, <3>1 DEF BrokerStep, attempt, EndsInvariant, SuccessEndsService
    <2>2. CASE Shutdown
      BY <2>2 DEF Shutdown, StopServing, attempt, EndsInvariant, SuccessEndsService
    <2>3. CASE RunnerDies
      BY <2>3 DEF RunnerDies, Crash, EndsInvariant, SuccessEndsService
    <2>4. CASE Report
      BY <2>4 DEF Report, Returned, brokerVars, EndsInvariant, SuccessEndsService
    <2>5. CASE \/ \E v \in {"SUCCEEDED", "FAILED", "CANCELLED", "UNKNOWN"} : WorkerTerminal(v)
               \/ \E v \in ErrorVerdict : WorkerFails(v)
               \/ CancelStops \/ DeadlineKills \/ UnknownKills \/ WorkerExits
      BY <2>5
      DEF WorkerTerminal, WorkerFails, ErrorVerdict, CancelStops, DeadlineKills, UnknownKills, Kill, WorkerExits,
          brokerVars, EndsInvariant, SuccessEndsService
    <2>6. CASE \/ ReportFails \/ RecoverOutcome \/ DeadlinePasses \/ UNCHANGED vars
               \/ \E who \in {"CONTROLLER", "WATCHDOG"} : Cancel(who)
      BY <2>6
      DEF ReportFails, RecoverOutcome, DeadlinePasses, Cancel, vars, attempt, brokerVars,
          EndsInvariant, SuccessEndsService
    <2>7. QED
      BY <2>1, <2>2, <2>3, <2>4, <2>5, <2>6 DEF Next
  <1>3. EndsInvariant => SuccessEndsService
    BY DEF EndsInvariant
  <1>4. QED
    BY <1>1, <1>2, <1>3, PTL DEF Spec
=============================================================================
