----------------------- MODULE RunnerSupervisorProofs -----------------------
(***************************************************************************)
(* Machine-checked proofs about the command lane: the conjuncts of         *)
(* InductiveInvariant, layer by layer, and with them the safety            *)
(* properties, for every value of the constants.                           *)
(***************************************************************************)
EXTENDS RunnerInvariants, TLAPS

-----------------------------------------------------------------------------
(* The journal operators.                                                  *)

(* A journal row has the fields its type says, and no row is a row.        *)
LEMMA RecordFields ==
    /\ NoRecord \in JournalRecord
    /\ NoResult \in MaybeResult
    /\ NoResult \notin TerminalResult
    /\ \A r \in JournalRecord :
          /\ r.state \in JournalState \cup {"ABSENT"}
          /\ r.op \in BOOLEAN
          /\ r.terminal \in MaybeResult
    /\ \A r \in MaybeResult : r # NoResult => r \in TerminalResult
    /\ TerminalResult \subseteq MaybeResult
  BY DEF NoRecord, JournalRecord, MaybeResult, TerminalResult, NoResult,
         AttemptState, CleanupState

(* record_intent writes one row, in its first state and without payload.   *)
LEMMA RecordIntentEffect ==
    ASSUME NEW j \in [Exec -> JournalRecord], NEW e \in Exec, NEW l \in Lease
    PROVE  LET k == RecordIntent(j, e, l) IN
           /\ k \in [Exec -> JournalRecord]
           /\ k[e].state = "INTENT_RECORDED"
           /\ k[e].terminal = NoResult
           /\ ~k[e].op
           /\ \A x \in Exec : x # e => k[x] = j[x]
  BY DEF RecordIntent, JournalRecord, JournalState, MaybeResult

(* set_terminal stores the payload and keeps the lease and the operation.  *)
LEMMA SetTerminalEffect ==
    ASSUME NEW j \in [Exec -> JournalRecord], NEW e \in Exec,
           NEW r \in MaybeResult
    PROVE  LET k == SetTerminal(j, e, r) IN
           /\ k \in [Exec -> JournalRecord]
           /\ k[e].state = "TERMINAL_PENDING"
           /\ k[e].op = j[e].op
           /\ k[e].lease = j[e].lease
           /\ k[e].terminal = r
           /\ \A x \in Exec : x # e => k[x] = j[x]
  BY DEF SetTerminal, JournalRecord, JournalState

-----------------------------------------------------------------------------
(* Types                                                                   *)

(* A cleared recovery or connection state is well typed.                   *)
LEMMA ClearedTypes ==
    /\ NoRecords \in [Exec -> JournalRecord]
    /\ NoResults \in [Exec -> MaybeResult]
    /\ NoWire \in [Exec -> SUBSET TerminalResult]
  BY RecordFields DEF NoRecords, NoResults, NoWire

(* The result recovery builds is a terminal result.                        *)
LEMMA RecoveredType == RecoveredResult \in TerminalResult
  BY DEF RecoveredResult, TerminalResult, AttemptState, CleanupState

(* Confirming the cleanup of a result gives a result.                      *)
LEMMA ConfirmedType ==
    \A r \in TerminalResult : [r EXCEPT !.cleanup = "CONFIRMED"] \in TerminalResult
  BY DEF TerminalResult, CleanupState

(* The initial state is well typed.                                        *)
LEMMA TypeInit == Init => WellFormed
  <1> SUFFICES ASSUME Init PROVE WellFormed
    OBVIOUS
  <1>1. TypeOK
    BY ClearedTypes DEF Init, TypeOK, BackendState, TaskState, TransportState
  <1>2. CurOK /\ BuiltOK
    BY DEF Init, CurOK, BuiltOK, Handling
  <1>. QED
    BY <1>1, <1>2 DEF WellFormed

(* Every step keeps the types, and a handler under way has an execution.   *)
LEMMA TypeStep == WellFormed /\ [Next]_vars => WellFormed'
  <1> SUFFICES ASSUME WellFormed, [Next]_vars
               PROVE  WellFormed'
    OBVIOUS
  <1> USE RecordFields, ClearedTypes
  <1> USE DEF WellFormed, TypeOK, CurOK, BuiltOK, Handling, TransportState, durable, memory, transport, observer
  <1>1. CASE Connect
    BY <1>1 DEF Connect, Unfinished
  <1>2. CASE Disconnect
    BY <1>2 DEF Disconnect, Fail, DropConnection
  <1>3. CASE Crash
    BY <1>3 DEF Crash, TaskState
  <1>4. CASE Restart
    BY <1>4 DEF Restart, Sweepable, BackendState
  <1>5. CASE JournalFault
    BY <1>5 DEF JournalFault, Fail, DropConnection
  <1>6. ASSUME NEW e \in Exec, RecoverPick(e) PROVE WellFormed'
    BY <1>6 DEF RecoverPick
  <1>7. CASE RecoverSkipActive
    BY <1>7 DEF RecoverSkipActive, Skip
  <1>8. CASE RecoverReplay
    BY <1>8 DEF RecoverReplay, Skip
  <1>9. CASE RecoverBranch
    BY <1>9 DEF RecoverBranch
  <1>10. CASE RecoverReclaim
    BY <1>10 DEF RecoverReclaim, BackendState
  <1>11. CASE RecoverConfirm
    <2>1. journal' \in [Exec -> JournalRecord]
      BY <1>11 DEF RecoverConfirm, SetState, JournalState, JournalRecord
    <2>. QED
      BY <1>11, <2>1 DEF RecoverConfirm, Skip
  <1>12. CASE RecoverStop
    <2>1. journal' \in [Exec -> JournalRecord]
      BY <1>12 DEF RecoverStop, SetState, JournalState, JournalRecord
    <2>. QED
      BY <1>12, <2>1 DEF RecoverStop, BackendState
  <1>13. CASE RecoverCleanup
    BY <1>13 DEF RecoverCleanup, BackendState
  <1>14. CASE RecoverCleanupFails
    BY <1>14 DEF RecoverCleanupFails, Fail, DropConnection
  <1>15. CASE RecoverPersist
    BY <1>15, SetTerminalEffect, RecoveredType DEF RecoverPersist
  <1>16. CASE RecoverPublish
    BY <1>16, RecoveredType DEF RecoverPublish, Skip
  <1>17. CASE RecoverDone
    BY <1>17 DEF RecoverDone, Resent
  <1>18. CASE Heartbeat
    BY <1>18 DEF Heartbeat, Resent
  <1>19. CASE Drain
    BY <1>19 DEF Drain
  <1>20. ASSUME NEW e \in Exec, NEW l \in Lease, RefuseExecute(e, l) PROVE WellFormed'
    BY <1>20 DEF RefuseExecute, Fail, DropConnection
  <1>21. ASSUME NEW e \in Exec, NEW l \in Lease, DuplicateExecute(e, l) PROVE WellFormed'
    BY <1>21 DEF DuplicateExecute
  <1>22. ASSUME NEW e \in Exec, NEW l \in Lease, NewExecute(e, l) PROVE WellFormed'
    BY <1>22, RecordIntentEffect DEF NewExecute
  <1>23. CASE Admit
    <2>1. journal' \in [Exec -> JournalRecord]
      BY <1>23 DEF Admit, SetState, JournalState, JournalRecord
    <2>. QED
      BY <1>23, <2>1 DEF Admit
  <1>24. CASE CapacityExhausted
    BY <1>24 DEF CapacityExhausted, Fail, DropConnection
  <1>25. ASSUME NEW s \in AttemptState, SetupFailure(s) PROVE WellFormed'
    <2> DEFINE r == SetupResult(s)
    <2>1. r \in TerminalResult
      BY DEF SetupResult, TerminalResult, CleanupState
    <2>2. journal' \in [Exec -> JournalRecord]
      BY <1>25, <2>1, SetTerminalEffect DEF SetupFailure
    <2>3. backend' \in [Exec -> BackendState]
      BY <1>25 DEF SetupFailure, BackendState
    <2> HIDE DEF r
    <2>4. pending' \in [Exec -> TerminalResult \cup {NoResult}]
      BY <1>25, <2>1 DEF SetupFailure, r
    <2>5. wire' \in [Exec -> SUBSET TerminalResult]
      BY <1>25, <2>1 DEF SetupFailure, r
    <2>. QED
      BY <1>25, <2>2, <2>3, <2>4, <2>5, SMTT(40) DEF SetupFailure
  <1>26. CASE Prepare
    BY <1>26 DEF Prepare, BackendState
  <1>27. CASE RecordPrepared
    <2>1. journal' \in [Exec -> JournalRecord]
      BY <1>27 DEF RecordPrepared, SetState, JournalState, JournalRecord
    <2>. QED
      BY <1>27, <2>1 DEF RecordPrepared
  <1>28. CASE Spawn
    <2>1. journal' \in [Exec -> JournalRecord]
      BY <1>28 DEF Spawn, SetState, JournalState, JournalRecord
    <2>. QED
      BY <1>28, <2>1 DEF Spawn, TaskState
  <1>29. ASSUME NEW e \in Exec, TaskStart(e) PROVE WellFormed'
    BY <1>29 DEF TaskStart, BackendState, TaskState
  <1>30. ASSUME NEW e \in Exec, NEW s \in AttemptState, TaskExecuted(e, s) PROVE WellFormed'
    BY <1>30 DEF TaskExecuted, ExecuteOutput, ExecuteError, BackendState, TaskState, TerminalResult, CleanupState
  <1>31. ASSUME NEW e \in Exec, TaskCleanup(e) PROVE WellFormed'
    <2>1. [result[e] EXCEPT !.cleanup = "CONFIRMED"] \in TerminalResult
      BY <1>31, ConfirmedType DEF TaskCleanup
    <2>2. backend' \in [Exec -> BackendState]
      BY <1>31 DEF TaskCleanup, BackendState
    <2>. QED
      BY <1>31, <2>1, <2>2 DEF TaskCleanup, TaskState
  <1>32. ASSUME NEW e \in Exec, TaskCleanupFails(e) PROVE WellFormed'
    BY <1>32 DEF TaskCleanupFails, TaskState
  <1>33. ASSUME NEW e \in Exec, TaskRecordCleanup(e) PROVE WellFormed'
    <2>1. journal' \in [Exec -> JournalRecord]
      <3>1. CASE journal' = SetState(journal, e, "CLEANUP_REQUIRED", TRUE)
        BY <3>1 DEF SetState, JournalState, JournalRecord
      <3>. QED
        BY <1>33, <3>1 DEF TaskRecordCleanup
    <2>. QED
      BY <1>33, <2>1 DEF TaskRecordCleanup, TaskState
  <1>34. ASSUME NEW e \in Exec, TaskPersist(e) PROVE WellFormed'
    <2>1. journal' \in [Exec -> JournalRecord]
      BY <1>34 DEF TaskPersist, SetTerminal, JournalState, JournalRecord
    <2>. QED
      BY <1>34, <2>1 DEF TaskPersist, TaskState
  <1>35. ASSUME NEW e \in Exec, TaskPersistFails(e) PROVE WellFormed'
    <2>1. journal' \in [Exec -> JournalRecord]
      <3>1. CASE UNCHANGED journal
        BY <3>1
      <3>2. CASE journal' = SetTerminal(journal, e, result[e])
        BY <3>2 DEF SetTerminal, JournalState, JournalRecord
      <3>. QED
        BY <1>35, <3>1, <3>2 DEF TaskPersistFails
    <2>. QED
      BY <1>35, <2>1 DEF TaskPersistFails, TaskState
  <1>36. ASSUME NEW e \in Exec, TaskRetire(e) PROVE WellFormed'
    BY <1>36 DEF TaskRetire, TaskState
  <1>37. ASSUME NEW e \in Exec, TaskPublish(e) PROVE WellFormed'
    BY <1>37 DEF TaskPublish, TaskState
  <1>38. ASSUME NEW e \in Exec, TaskSend(e) PROVE WellFormed'
    BY <1>38 DEF TaskSend, TaskState
  <1>39. ASSUME NEW e \in Exec, RefuseAck(e) PROVE WellFormed'
    BY <1>39 DEF RefuseAck, Fail, DropConnection
  <1>40. ASSUME NEW e \in Exec, AckReclaimFails(e) PROVE WellFormed'
    BY <1>40 DEF AckReclaimFails, Fail, DropConnection
  <1>41. ASSUME NEW e \in Exec, AckReported(e) PROVE WellFormed'
    <2>1. journal' \in [Exec -> JournalRecord]
      BY <1>41 DEF AckReported, SetState, JournalState, JournalRecord
    <2>. QED
      BY <1>41, <2>1 DEF AckReported
  <1>42. CASE AckConfirmed
    <2>1. journal' \in [Exec -> JournalRecord]
      BY <1>42 DEF AckConfirmed, SetState, JournalState, JournalRecord
    <2>. QED
      BY <1>42, <2>1 DEF AckConfirmed
  <1>43. ASSUME NEW e \in Exec, NEW l \in Lease, CancelActive(e, l) PROVE WellFormed'
    BY <1>43 DEF CancelActive, Stop, BackendState
  <1>44. ASSUME NEW e \in Exec, NEW l \in Lease, CancelActiveFails(e, l) PROVE WellFormed'
    BY <1>44 DEF CancelActiveFails, DropConnection
  <1>45. ASSUME NEW e \in Exec, NEW l \in Lease, CancelIdempotent(e, l) PROVE WellFormed'
    BY <1>45 DEF CancelIdempotent
  <1>46. ASSUME NEW e \in Exec, NEW l \in Lease, RefuseCancel(e, l) PROVE WellFormed'
    BY <1>46 DEF RefuseCancel, DropConnection
  <1>47. ASSUME NEW e \in Exec, NEW l \in Lease, ReconcileLease(e, l) PROVE WellFormed'
    BY <1>47 DEF ReconcileLease
  <1>48. ASSUME NEW e \in Exec, NEW l \in Lease, RefuseReconcile(e, l) PROVE WellFormed'
    BY <1>48 DEF RefuseReconcile, Fail, DropConnection
  <1>49. ASSUME NEW e \in Exec, Watchdog(e) PROVE WellFormed'
    BY <1>49 DEF Watchdog, Stop, BackendState
  <1>50. ASSUME NEW e \in Exec, OrphanReclaim(e) PROVE WellFormed'
    BY <1>50 DEF OrphanReclaim, Sweepable, BackendState
  <1>51. ASSUME NEW e \in Exec, Expire(e) PROVE WellFormed'
    BY <1>51 DEF Expire
  <1>52. ASSUME NEW e \in Exec, ControllerStore(e) PROVE WellFormed'
    BY <1>52 DEF ControllerStore
  <1>53. CASE CheckpointFault
    <2>1. DropConnection /\ UNCHANGED <<backend, expired, active, cancelled, pending, task, result, draining, ctl, revoked, execs>>
      BY <1>53 DEF CheckpointFault
    <2>2. journal' \in [Exec -> JournalRecord]
      <3>1. CASE tpc = "preparing"
        <4>1. PICK s \in AttemptState : journal' = SetTerminal(journal, cur, SetupResult(s))
          BY <1>53, <3>1 DEF CheckpointFault, AttemptState
        <4>2. SetupResult(s) \in MaybeResult
          BY DEF SetupResult, MaybeResult, TerminalResult, CleanupState
        <4>. QED
          BY <3>1, <4>1, <4>2, SetTerminalEffect
      <3>2. CASE tpc = "recPersist"
        <4>1. journal' = SetTerminal(journal, cur, RecoveredResult)
          BY <1>53, <3>2 DEF CheckpointFault
        <4>. QED
          BY <3>2, <4>1, RecoveredType, SetTerminalEffect
      <3>3. CASE tpc = "prepared"
        <4>1. journal' = SetState(journal, cur, "PREPARED", TRUE)
          BY <1>53, <3>3 DEF CheckpointFault
        <4>. QED
          BY <3>3, <4>1 DEF SetState, JournalState, JournalRecord
      <3>4. CASE tpc = "started"
        <4>1. journal' = SetState(journal, cur, "EXECUTING", TRUE)
          BY <1>53, <3>4 DEF CheckpointFault
        <4>. QED
          BY <3>4, <4>1 DEF SetState, JournalState, JournalRecord
      <3>5. CASE tpc = "recConfirm"
        <4>1. journal' = SetState(journal, cur, "CLEANUP_CONFIRMED", snap[cur].op)
          BY <1>53, <3>5 DEF CheckpointFault
        <4>. QED
          BY <3>5, <4>1 DEF SetState, JournalState, JournalRecord
      <3>6. CASE tpc = "ackReported"
        <4>1. journal' = SetState(journal, cur, "CLEANUP_CONFIRMED", FALSE)
          BY <1>53, <3>6 DEF CheckpointFault
        <4>. QED
          BY <3>6, <4>1 DEF SetState, JournalState, JournalRecord
      <3>. QED
        BY <1>53, <3>1, <3>2, <3>3, <3>4, <3>5, <3>6 DEF CheckpointFault
    <2>. QED
      BY <2>1, <2>2 DEF DropConnection
  <1>54. CASE UNCHANGED vars
    BY <1>54 DEF vars
  <1>. QED
    BY <1>1, <1>2, <1>3, <1>4, <1>5, <1>6, <1>7, <1>8, <1>9, <1>10, <1>11, <1>12, <1>13, <1>14, <1>15, <1>16, <1>17, <1>18, <1>19, <1>20, <1>21, <1>22, <1>23, <1>24, <1>25, <1>26, <1>27, <1>28, <1>29, <1>30, <1>31, <1>32, <1>33, <1>34, <1>35, <1>36, <1>37, <1>38, <1>39, <1>40, <1>41, <1>42, <1>43, <1>44, <1>45, <1>46, <1>47, <1>48, <1>49, <1>50, <1>51, <1>52, <1>53, <1>54
       DEF Next, Recover, Setup, Directive, Task

-----------------------------------------------------------------------------
(* At most one execution                                                   *)

ExecutedOnce == Freshness /\ NotStarted /\ AtMostOneExecution

(* Nothing has happened to any execution in the initial state.             *)
LEMMA OnceInit == Init => ExecutedOnce
  BY RecordFields
  DEF Init, ExecutedOnce, Freshness, NotStarted, AtMostOneExecution, Fresh,
      Recorded, SettingUp, NoRecords, NoResults, NoWire, NoRecord, Handling

(* A step starts a command only for an execution whose task has just been  *)
(* spawned, and spawns a task only for one that had no row before.         *)
LEMMA OnceStep ==
    WellFormed /\ WellFormed' /\ ExecutedOnce /\ [Next]_vars => ExecutedOnce'
  <1> SUFFICES ASSUME WellFormed, WellFormed', ExecutedOnce, [Next]_vars
               PROVE  ExecutedOnce'
    OBVIOUS
  <1> USE RecordFields
  <1> USE DEF WellFormed, TypeOK, CurOK, BuiltOK, Handling, TransportState,
              ExecutedOnce, Freshness, NotStarted, AtMostOneExecution, Fresh,
              Recorded, SettingUp, NoRecords, NoResults, NoWire, NoRecord,
              durable, memory, transport, observer
  <1>1. CASE Connect
    BY <1>1 DEF Connect, Unfinished
  <1>2. CASE Disconnect
    BY <1>2 DEF Disconnect, Fail, DropConnection
  <1>3. CASE Crash
    BY <1>3 DEF Crash
  <1>4. CASE Restart
    BY <1>4 DEF Restart, Sweepable
  <1>5. CASE JournalFault
    BY <1>5 DEF JournalFault, Fail, DropConnection
  <1>6. ASSUME NEW e \in Exec, RecoverPick(e) PROVE ExecutedOnce'
    BY <1>6, SMTT(40) DEF RecoverPick
  <1>7. CASE RecoverSkipActive
    BY <1>7 DEF RecoverSkipActive, Skip
  <1>8. CASE RecoverReplay
    BY <1>8 DEF RecoverReplay, Skip
  <1>9. CASE RecoverBranch
    BY <1>9 DEF RecoverBranch
  <1>10. CASE RecoverReclaim
    BY <1>10 DEF RecoverReclaim
  <1>11. CASE RecoverConfirm
    BY <1>11 DEF RecoverConfirm, Skip, SetState
  <1>12. CASE RecoverStop
    BY <1>12 DEF RecoverStop, SetState
  <1>13. CASE RecoverCleanup
    BY <1>13 DEF RecoverCleanup
  <1>14. CASE RecoverCleanupFails
    BY <1>14 DEF RecoverCleanupFails, Fail, DropConnection
  <1>15. CASE RecoverPersist
    BY <1>15 DEF RecoverPersist, SetTerminal
  <1>16. CASE RecoverPublish
    BY <1>16 DEF RecoverPublish, Skip
  <1>17. CASE RecoverDone
    BY <1>17 DEF RecoverDone, Resent
  <1>18. CASE Heartbeat
    BY <1>18 DEF Heartbeat, Resent
  <1>19. CASE Drain
    BY <1>19 DEF Drain
  <1>20. ASSUME NEW e \in Exec, NEW l \in Lease, RefuseExecute(e, l) PROVE ExecutedOnce'
    BY <1>20 DEF RefuseExecute, Fail, DropConnection
  <1>21. ASSUME NEW e \in Exec, NEW l \in Lease, DuplicateExecute(e, l) PROVE ExecutedOnce'
    BY <1>21 DEF DuplicateExecute
  <1>22. ASSUME NEW e \in Exec, NEW l \in Lease, NewExecute(e, l) PROVE ExecutedOnce'
    BY <1>22 DEF NewExecute, RecordIntent
  <1>23. CASE Admit
    BY <1>23 DEF Admit, SetState
  <1>24. CASE CapacityExhausted
    BY <1>24 DEF CapacityExhausted, Fail, DropConnection
  <1>25. ASSUME NEW s \in AttemptState, SetupFailure(s) PROVE ExecutedOnce'
    BY <1>25 DEF SetupFailure, SetupResult, SetTerminal
  <1>26. CASE Prepare
    BY <1>26 DEF Prepare
  <1>27. CASE RecordPrepared
    BY <1>27 DEF RecordPrepared, SetState
  <1>28. CASE Spawn
    BY <1>28 DEF Spawn, SetState
  <1>29. ASSUME NEW e \in Exec, TaskStart(e) PROVE ExecutedOnce'
    BY <1>29 DEF TaskStart
  <1>30. ASSUME NEW e \in Exec, NEW s \in AttemptState, TaskExecuted(e, s) PROVE ExecutedOnce'
    BY <1>30 DEF TaskExecuted, ExecuteOutput, ExecuteError
  <1>31. ASSUME NEW e \in Exec, TaskCleanup(e) PROVE ExecutedOnce'
    BY <1>31 DEF TaskCleanup
  <1>32. ASSUME NEW e \in Exec, TaskCleanupFails(e) PROVE ExecutedOnce'
    BY <1>32 DEF TaskCleanupFails
  <1>33. ASSUME NEW e \in Exec, TaskRecordCleanup(e) PROVE ExecutedOnce'
    BY <1>33, SMTT(40) DEF TaskRecordCleanup, SetState
  <1>34. ASSUME NEW e \in Exec, TaskPersist(e) PROVE ExecutedOnce'
    BY <1>34 DEF TaskPersist, SetTerminal
  <1>35. ASSUME NEW e \in Exec, TaskPersistFails(e) PROVE ExecutedOnce'
    <2>1. CASE UNCHANGED journal
      BY <1>35, <2>1 DEF TaskPersistFails
    <2>2. CASE journal' = SetTerminal(journal, e, result[e])
      BY <1>35, <2>2 DEF TaskPersistFails, SetTerminal
    <2>. QED
      BY <1>35, <2>1, <2>2 DEF TaskPersistFails
  <1>36. ASSUME NEW e \in Exec, TaskRetire(e) PROVE ExecutedOnce'
    BY <1>36 DEF TaskRetire
  <1>37. ASSUME NEW e \in Exec, TaskPublish(e) PROVE ExecutedOnce'
    BY <1>37 DEF TaskPublish
  <1>38. ASSUME NEW e \in Exec, TaskSend(e) PROVE ExecutedOnce'
    BY <1>38 DEF TaskSend
  <1>39. ASSUME NEW e \in Exec, RefuseAck(e) PROVE ExecutedOnce'
    BY <1>39 DEF RefuseAck, Fail, DropConnection
  <1>40. ASSUME NEW e \in Exec, AckReclaimFails(e) PROVE ExecutedOnce'
    BY <1>40 DEF AckReclaimFails, Fail, DropConnection
  <1>41. ASSUME NEW e \in Exec, AckReported(e) PROVE ExecutedOnce'
    BY <1>41 DEF AckReported, AckArrives, SetState
  <1>42. CASE AckConfirmed
    BY <1>42 DEF AckConfirmed, SetState
  <1>43. ASSUME NEW e \in Exec, NEW l \in Lease, CancelActive(e, l) PROVE ExecutedOnce'
    BY <1>43 DEF CancelActive, Stop
  <1>44. ASSUME NEW e \in Exec, NEW l \in Lease, CancelActiveFails(e, l) PROVE ExecutedOnce'
    BY <1>44 DEF CancelActiveFails, DropConnection
  <1>45. ASSUME NEW e \in Exec, NEW l \in Lease, CancelIdempotent(e, l) PROVE ExecutedOnce'
    BY <1>45 DEF CancelIdempotent
  <1>46. ASSUME NEW e \in Exec, NEW l \in Lease, RefuseCancel(e, l) PROVE ExecutedOnce'
    BY <1>46 DEF RefuseCancel, DropConnection
  <1>47. ASSUME NEW e \in Exec, NEW l \in Lease, ReconcileLease(e, l) PROVE ExecutedOnce'
    BY <1>47 DEF ReconcileLease
  <1>48. ASSUME NEW e \in Exec, NEW l \in Lease, RefuseReconcile(e, l) PROVE ExecutedOnce'
    BY <1>48 DEF RefuseReconcile, Fail, DropConnection
  <1>49. ASSUME NEW e \in Exec, Watchdog(e) PROVE ExecutedOnce'
    BY <1>49 DEF Watchdog, Stop
  <1>50. ASSUME NEW e \in Exec, OrphanReclaim(e) PROVE ExecutedOnce'
    BY <1>50 DEF OrphanReclaim, Sweepable
  <1>51. ASSUME NEW e \in Exec, Expire(e) PROVE ExecutedOnce'
    BY <1>51 DEF Expire
  <1>52. ASSUME NEW e \in Exec, ControllerStore(e) PROVE ExecutedOnce'
    BY <1>52 DEF ControllerStore
  <1>53. CASE CheckpointFault
    <2>1. DropConnection /\ UNCHANGED <<backend, expired, active, cancelled, pending, task, result, draining, ctl, revoked, execs>>
      BY <1>53 DEF CheckpointFault
    <2>2. CASE tpc = "preparing"
      <3>1. PICK s \in AttemptState : journal' = SetTerminal(journal, cur, SetupResult(s))
        BY <1>53, <2>2 DEF CheckpointFault, AttemptState
      <3>. QED
        BY <2>1, <2>2, <3>1 DEF SetupResult, SetTerminal, DropConnection
    <2>3. CASE tpc = "recPersist"
      <3>1. journal' = SetTerminal(journal, cur, RecoveredResult)
        BY <1>53, <2>3 DEF CheckpointFault
      <3>. QED
        BY <2>1, <2>3, <3>1 DEF RecoveredResult, SetTerminal, DropConnection
    <2>4. CASE tpc = "prepared"
      <3>1. journal' = SetState(journal, cur, "PREPARED", TRUE)
        BY <1>53, <2>4 DEF CheckpointFault
      <3>. QED
        BY <2>1, <2>4, <3>1 DEF SetState, DropConnection
    <2>5. CASE tpc = "started"
      <3>1. journal' = SetState(journal, cur, "EXECUTING", TRUE)
        BY <1>53, <2>5 DEF CheckpointFault
      <3>. QED
        BY <2>1, <2>5, <3>1 DEF SetState, DropConnection
    <2>6. CASE tpc = "recConfirm"
      <3>1. journal' = SetState(journal, cur, "CLEANUP_CONFIRMED", snap[cur].op)
        BY <1>53, <2>6 DEF CheckpointFault
      <3>. QED
        BY <2>1, <2>6, <3>1 DEF SetState, DropConnection
    <2>7. CASE tpc = "ackReported"
      <3>1. journal' = SetState(journal, cur, "CLEANUP_CONFIRMED", FALSE)
        BY <1>53, <2>7 DEF CheckpointFault
      <3>. QED
        BY <2>1, <2>7, <3>1 DEF SetState, DropConnection
    <2>. QED
      BY <1>53, <2>2, <2>3, <2>4, <2>5, <2>6, <2>7 DEF CheckpointFault
  <1>54. CASE UNCHANGED vars
    BY <1>54 DEF vars
  <1>. QED
    BY <1>1, <1>2, <1>3, <1>4, <1>5, <1>6, <1>7, <1>8, <1>9, <1>10, <1>11,
       <1>12, <1>13, <1>14, <1>15, <1>16, <1>17, <1>18, <1>19, <1>20, <1>21,
       <1>22, <1>23, <1>24, <1>25, <1>26, <1>27, <1>28, <1>29, <1>30, <1>31,
       <1>32, <1>33, <1>34, <1>35, <1>36, <1>37, <1>38, <1>39, <1>40, <1>41,
       <1>42, <1>43, <1>44, <1>45, <1>46, <1>47, <1>48, <1>49, <1>50, <1>51,
       <1>52, <1>53, <1>54
       DEF Next, Recover, Setup, Directive, Task

-----------------------------------------------------------------------------
(* Cleanup evidence                                                        *)

Evidence == CleanupEvidence /\ RecoveryEvidence

(* There is no result in the initial state.                                *)
LEMMA EvidenceInit == Init => Evidence
  BY DEF Init, Evidence, CleanupEvidence, RecoveryEvidence, Copies, NoRecords,
         NoResults, NoWire, NoRecord, NoResult

(* A claim is written only past the removal of the sandbox, and a sandbox  *)
(* is created only for an execution that has no result yet.                *)
LEMMA EvidenceStep ==
    WellFormed /\ WellFormed' /\ ExecutedOnce /\ Evidence /\ [Next]_vars => Evidence'
  <1> SUFFICES ASSUME WellFormed, WellFormed', ExecutedOnce, Evidence, [Next]_vars
               PROVE  Evidence'
    OBVIOUS
  <1> USE RecordFields
  <1> USE DEF WellFormed, TypeOK, CurOK, BuiltOK, Handling, TransportState,
              ExecutedOnce, Freshness, Fresh, SettingUp, Evidence, CleanupEvidence,
              RecoveryEvidence, Copies, Present, NoRecords, NoResults, NoWire,
              NoRecord, NoResult, durable, memory, transport, observer
  <1>1. CASE Connect
    BY <1>1 DEF Connect, Unfinished
  <1>2. CASE Disconnect
    BY <1>2 DEF Disconnect, Fail, DropConnection
  <1>3. CASE Crash
    BY <1>3 DEF Crash
  <1>4. CASE Restart
    BY <1>4 DEF Restart, Sweepable
  <1>5. CASE JournalFault
    BY <1>5 DEF JournalFault, Fail, DropConnection
  <1>6. ASSUME NEW e \in Exec, RecoverPick(e) PROVE Evidence'
    <2>1. RecoveryEvidence'
      BY <1>6, SMTT(40) DEF RecoverPick
    <2>2. CleanupEvidence'
      BY <1>6 DEF RecoverPick
    <2>. QED
      BY <2>1, <2>2
  <1>7. CASE RecoverSkipActive
    BY <1>7 DEF RecoverSkipActive, Skip
  <1>8. CASE RecoverReplay
    BY <1>8 DEF RecoverReplay, Skip
  <1>9. CASE RecoverBranch
    BY <1>9 DEF RecoverBranch
  <1>10. CASE RecoverReclaim
    BY <1>10 DEF RecoverReclaim
  <1>11. CASE RecoverConfirm
    BY <1>11 DEF RecoverConfirm, Skip, SetState
  <1>12. CASE RecoverStop
    BY <1>12 DEF RecoverStop, SetState
  <1>13. CASE RecoverCleanup
    BY <1>13 DEF RecoverCleanup
  <1>14. CASE RecoverCleanupFails
    BY <1>14 DEF RecoverCleanupFails, Fail, DropConnection
  <1>15. CASE RecoverPersist
    BY <1>15 DEF RecoverPersist, SetTerminal, RecoveredResult
  <1>16. CASE RecoverPublish
    BY <1>16 DEF RecoverPublish, Skip, RecoveredResult
  <1>17. CASE RecoverDone
    BY <1>17 DEF RecoverDone, Resent
  <1>18. CASE Heartbeat
    BY <1>18 DEF Heartbeat, Resent
  <1>19. CASE Drain
    BY <1>19 DEF Drain
  <1>20. ASSUME NEW e \in Exec, NEW l \in Lease, RefuseExecute(e, l) PROVE Evidence'
    BY <1>20 DEF RefuseExecute, Fail, DropConnection
  <1>21. ASSUME NEW e \in Exec, NEW l \in Lease, DuplicateExecute(e, l) PROVE Evidence'
    BY <1>21 DEF DuplicateExecute
  <1>22. ASSUME NEW e \in Exec, NEW l \in Lease, NewExecute(e, l) PROVE Evidence'
    BY <1>22 DEF NewExecute, RecordIntent
  <1>23. CASE Admit
    BY <1>23 DEF Admit, SetState
  <1>24. CASE CapacityExhausted
    BY <1>24 DEF CapacityExhausted, Fail, DropConnection
  <1>25. ASSUME NEW s \in AttemptState, SetupFailure(s) PROVE Evidence'
    BY <1>25 DEF SetupFailure, SetupResult, SetTerminal
  <1>26. CASE Prepare
    BY <1>26 DEF Prepare
  <1>27. CASE RecordPrepared
    BY <1>27 DEF RecordPrepared, SetState
  <1>28. CASE Spawn
    BY <1>28 DEF Spawn, SetState
  <1>29. ASSUME NEW e \in Exec, TaskStart(e) PROVE Evidence'
    BY <1>29 DEF TaskStart
  <1>30. ASSUME NEW e \in Exec, NEW s \in AttemptState, TaskExecuted(e, s) PROVE Evidence'
    BY <1>30 DEF TaskExecuted, ExecuteOutput, ExecuteError
  <1>31. ASSUME NEW e \in Exec, TaskCleanup(e) PROVE Evidence'
    BY <1>31 DEF TaskCleanup
  <1>32. ASSUME NEW e \in Exec, TaskCleanupFails(e) PROVE Evidence'
    BY <1>32 DEF TaskCleanupFails
  <1>33. ASSUME NEW e \in Exec, TaskRecordCleanup(e) PROVE Evidence'
    BY <1>33, SMTT(40) DEF TaskRecordCleanup, SetState
  <1>34. ASSUME NEW e \in Exec, TaskPersist(e) PROVE Evidence'
    BY <1>34 DEF TaskPersist, SetTerminal
  <1>35. ASSUME NEW e \in Exec, TaskPersistFails(e) PROVE Evidence'
    <2>1. CASE UNCHANGED journal
      BY <1>35, <2>1 DEF TaskPersistFails
    <2>2. CASE journal' = SetTerminal(journal, e, result[e])
      BY <1>35, <2>2 DEF TaskPersistFails, SetTerminal
    <2>. QED
      BY <1>35, <2>1, <2>2 DEF TaskPersistFails
  <1>36. ASSUME NEW e \in Exec, TaskRetire(e) PROVE Evidence'
    BY <1>36 DEF TaskRetire
  <1>37. ASSUME NEW e \in Exec, TaskPublish(e) PROVE Evidence'
    BY <1>37 DEF TaskPublish
  <1>38. ASSUME NEW e \in Exec, TaskSend(e) PROVE Evidence'
    BY <1>38 DEF TaskSend
  <1>39. ASSUME NEW e \in Exec, RefuseAck(e) PROVE Evidence'
    BY <1>39 DEF RefuseAck, Fail, DropConnection
  <1>40. ASSUME NEW e \in Exec, AckReclaimFails(e) PROVE Evidence'
    BY <1>40 DEF AckReclaimFails, Fail, DropConnection
  <1>41. ASSUME NEW e \in Exec, AckReported(e) PROVE Evidence'
    BY <1>41 DEF AckReported, AckArrives, SetState
  <1>42. CASE AckConfirmed
    BY <1>42 DEF AckConfirmed, SetState
  <1>43. ASSUME NEW e \in Exec, NEW l \in Lease, CancelActive(e, l) PROVE Evidence'
    BY <1>43 DEF CancelActive, Stop
  <1>44. ASSUME NEW e \in Exec, NEW l \in Lease, CancelActiveFails(e, l) PROVE Evidence'
    BY <1>44 DEF CancelActiveFails, DropConnection
  <1>45. ASSUME NEW e \in Exec, NEW l \in Lease, CancelIdempotent(e, l) PROVE Evidence'
    BY <1>45 DEF CancelIdempotent
  <1>46. ASSUME NEW e \in Exec, NEW l \in Lease, RefuseCancel(e, l) PROVE Evidence'
    BY <1>46 DEF RefuseCancel, DropConnection
  <1>47. ASSUME NEW e \in Exec, NEW l \in Lease, ReconcileLease(e, l) PROVE Evidence'
    BY <1>47 DEF ReconcileLease
  <1>48. ASSUME NEW e \in Exec, NEW l \in Lease, RefuseReconcile(e, l) PROVE Evidence'
    BY <1>48 DEF RefuseReconcile, Fail, DropConnection
  <1>49. ASSUME NEW e \in Exec, Watchdog(e) PROVE Evidence'
    BY <1>49 DEF Watchdog, Stop
  <1>50. ASSUME NEW e \in Exec, OrphanReclaim(e) PROVE Evidence'
    BY <1>50 DEF OrphanReclaim, Sweepable
  <1>51. ASSUME NEW e \in Exec, Expire(e) PROVE Evidence'
    BY <1>51 DEF Expire
  <1>52. ASSUME NEW e \in Exec, ControllerStore(e) PROVE Evidence'
    BY <1>52 DEF ControllerStore
  <1>53. CASE CheckpointFault
    <2>1. DropConnection /\ UNCHANGED <<backend, expired, active, cancelled, pending, task, result, draining, ctl, revoked, execs>>
      BY <1>53 DEF CheckpointFault
    <2>2. CASE tpc = "preparing"
      <3>1. PICK s \in AttemptState : journal' = SetTerminal(journal, cur, SetupResult(s))
        BY <1>53, <2>2 DEF CheckpointFault, AttemptState
      <3>. QED
        BY <2>1, <2>2, <3>1 DEF SetupResult, SetTerminal, DropConnection
    <2>3. CASE tpc = "recPersist"
      <3>1. journal' = SetTerminal(journal, cur, RecoveredResult)
        BY <1>53, <2>3 DEF CheckpointFault
      <3>. QED
        BY <2>1, <2>3, <3>1 DEF RecoveredResult, SetTerminal, DropConnection
    <2>4. CASE tpc = "prepared"
      <3>1. journal' = SetState(journal, cur, "PREPARED", TRUE)
        BY <1>53, <2>4 DEF CheckpointFault
      <3>. QED
        BY <2>1, <2>4, <3>1 DEF SetState, DropConnection
    <2>5. CASE tpc = "started"
      <3>1. journal' = SetState(journal, cur, "EXECUTING", TRUE)
        BY <1>53, <2>5 DEF CheckpointFault
      <3>. QED
        BY <2>1, <2>5, <3>1 DEF SetState, DropConnection
    <2>6. CASE tpc = "recConfirm"
      <3>1. journal' = SetState(journal, cur, "CLEANUP_CONFIRMED", snap[cur].op)
        BY <1>53, <2>6 DEF CheckpointFault
      <3>. QED
        BY <2>1, <2>6, <3>1 DEF SetState, DropConnection
    <2>7. CASE tpc = "ackReported"
      <3>1. journal' = SetState(journal, cur, "CLEANUP_CONFIRMED", FALSE)
        BY <1>53, <2>7 DEF CheckpointFault
      <3>. QED
        BY <2>1, <2>7, <3>1 DEF SetState, DropConnection
    <2>. QED
      BY <1>53, <2>2, <2>3, <2>4, <2>5, <2>6, <2>7 DEF CheckpointFault
  <1>54. CASE UNCHANGED vars
    BY <1>54 DEF vars
  <1>. QED
    BY <1>1, <1>2, <1>3, <1>4, <1>5, <1>6, <1>7, <1>8, <1>9, <1>10, <1>11,
       <1>12, <1>13, <1>14, <1>15, <1>16, <1>17, <1>18, <1>19, <1>20, <1>21,
       <1>22, <1>23, <1>24, <1>25, <1>26, <1>27, <1>28, <1>29, <1>30, <1>31,
       <1>32, <1>33, <1>34, <1>35, <1>36, <1>37, <1>38, <1>39, <1>40, <1>41,
       <1>42, <1>43, <1>44, <1>45, <1>46, <1>47, <1>48, <1>49, <1>50, <1>51,
       <1>52, <1>53, <1>54
       DEF Next, Recover, Setup, Directive, Task

-----------------------------------------------------------------------------
(* Outcomes                                                                *)

Kept == OutcomeKept /\ RecoveryKept

(* No row is settled in the initial state.                                 *)
LEMMA KeptInit == Init => Kept
  BY DEF Init, Kept, OutcomeKept, RecoveryKept, Settled, NoRecords, NoRecord

(* A row is settled only when the controller has stored an outcome, which  *)
(* it never gives up.                                                      *)
LEMMA KeptStep ==
    WellFormed /\ WellFormed' /\ Kept /\ [Next]_vars => Kept'
  <1> SUFFICES ASSUME WellFormed, WellFormed', Kept, [Next]_vars
               PROVE  Kept'
    OBVIOUS
  <1> USE RecordFields
  <1> USE DEF WellFormed, TypeOK, CurOK, BuiltOK, Handling, TransportState,
              Kept, OutcomeKept, RecoveryKept, Settled, NoRecords, NoRecord,
              durable, memory, transport, observer
  <1>1. CASE Connect
    BY <1>1 DEF Connect, Unfinished
  <1>2. CASE Disconnect
    BY <1>2 DEF Disconnect, Fail, DropConnection
  <1>3. CASE Crash
    BY <1>3 DEF Crash
  <1>4. CASE Restart
    BY <1>4 DEF Restart, Sweepable
  <1>5. CASE JournalFault
    BY <1>5 DEF JournalFault, Fail, DropConnection
  <1>6. ASSUME NEW e \in Exec, RecoverPick(e) PROVE Kept'
    BY <1>6, SMTT(40) DEF RecoverPick
  <1>7. CASE RecoverSkipActive
    BY <1>7 DEF RecoverSkipActive, Skip
  <1>8. CASE RecoverReplay
    BY <1>8 DEF RecoverReplay, Skip
  <1>9. CASE RecoverBranch
    BY <1>9 DEF RecoverBranch
  <1>10. CASE RecoverReclaim
    BY <1>10 DEF RecoverReclaim
  <1>11. CASE RecoverConfirm
    BY <1>11 DEF RecoverConfirm, Skip, SetState
  <1>12. CASE RecoverStop
    BY <1>12 DEF RecoverStop, SetState
  <1>13. CASE RecoverCleanup
    BY <1>13 DEF RecoverCleanup
  <1>14. CASE RecoverCleanupFails
    BY <1>14 DEF RecoverCleanupFails, Fail, DropConnection
  <1>15. CASE RecoverPersist
    BY <1>15 DEF RecoverPersist, SetTerminal
  <1>16. CASE RecoverPublish
    BY <1>16 DEF RecoverPublish, Skip
  <1>17. CASE RecoverDone
    BY <1>17 DEF RecoverDone, Resent
  <1>18. CASE Heartbeat
    BY <1>18 DEF Heartbeat, Resent
  <1>19. CASE Drain
    BY <1>19 DEF Drain
  <1>20. ASSUME NEW e \in Exec, NEW l \in Lease, RefuseExecute(e, l) PROVE Kept'
    BY <1>20 DEF RefuseExecute, Fail, DropConnection
  <1>21. ASSUME NEW e \in Exec, NEW l \in Lease, DuplicateExecute(e, l) PROVE Kept'
    BY <1>21 DEF DuplicateExecute
  <1>22. ASSUME NEW e \in Exec, NEW l \in Lease, NewExecute(e, l) PROVE Kept'
    BY <1>22 DEF NewExecute, RecordIntent
  <1>23. CASE Admit
    BY <1>23 DEF Admit, SetState
  <1>24. CASE CapacityExhausted
    BY <1>24 DEF CapacityExhausted, Fail, DropConnection
  <1>25. ASSUME NEW s \in AttemptState, SetupFailure(s) PROVE Kept'
    BY <1>25 DEF SetupFailure, SetupResult, SetTerminal
  <1>26. CASE Prepare
    BY <1>26 DEF Prepare
  <1>27. CASE RecordPrepared
    BY <1>27 DEF RecordPrepared, SetState
  <1>28. CASE Spawn
    BY <1>28 DEF Spawn, SetState
  <1>29. ASSUME NEW e \in Exec, TaskStart(e) PROVE Kept'
    BY <1>29 DEF TaskStart
  <1>30. ASSUME NEW e \in Exec, NEW s \in AttemptState, TaskExecuted(e, s) PROVE Kept'
    BY <1>30 DEF TaskExecuted, ExecuteOutput, ExecuteError
  <1>31. ASSUME NEW e \in Exec, TaskCleanup(e) PROVE Kept'
    BY <1>31 DEF TaskCleanup
  <1>32. ASSUME NEW e \in Exec, TaskCleanupFails(e) PROVE Kept'
    BY <1>32 DEF TaskCleanupFails
  <1>33. ASSUME NEW e \in Exec, TaskRecordCleanup(e) PROVE Kept'
    BY <1>33 DEF TaskRecordCleanup, SetState
  <1>34. ASSUME NEW e \in Exec, TaskPersist(e) PROVE Kept'
    BY <1>34 DEF TaskPersist, SetTerminal
  <1>35. ASSUME NEW e \in Exec, TaskPersistFails(e) PROVE Kept'
    <2>1. CASE UNCHANGED journal
      BY <1>35, <2>1 DEF TaskPersistFails
    <2>2. CASE journal' = SetTerminal(journal, e, result[e])
      BY <1>35, <2>2 DEF TaskPersistFails, SetTerminal
    <2>. QED
      BY <1>35, <2>1, <2>2 DEF TaskPersistFails
  <1>36. ASSUME NEW e \in Exec, TaskRetire(e) PROVE Kept'
    BY <1>36 DEF TaskRetire
  <1>37. ASSUME NEW e \in Exec, TaskPublish(e) PROVE Kept'
    BY <1>37 DEF TaskPublish
  <1>38. ASSUME NEW e \in Exec, TaskSend(e) PROVE Kept'
    BY <1>38 DEF TaskSend
  <1>39. ASSUME NEW e \in Exec, RefuseAck(e) PROVE Kept'
    BY <1>39 DEF RefuseAck, Fail, DropConnection
  <1>40. ASSUME NEW e \in Exec, AckReclaimFails(e) PROVE Kept'
    BY <1>40 DEF AckReclaimFails, Fail, DropConnection
  <1>41. ASSUME NEW e \in Exec, AckReported(e) PROVE Kept'
    BY <1>41 DEF AckReported, AckArrives, SetState
  <1>42. CASE AckConfirmed
    BY <1>42 DEF AckConfirmed, SetState
  <1>43. ASSUME NEW e \in Exec, NEW l \in Lease, CancelActive(e, l) PROVE Kept'
    BY <1>43 DEF CancelActive, Stop
  <1>44. ASSUME NEW e \in Exec, NEW l \in Lease, CancelActiveFails(e, l) PROVE Kept'
    BY <1>44 DEF CancelActiveFails, DropConnection
  <1>45. ASSUME NEW e \in Exec, NEW l \in Lease, CancelIdempotent(e, l) PROVE Kept'
    BY <1>45 DEF CancelIdempotent
  <1>46. ASSUME NEW e \in Exec, NEW l \in Lease, RefuseCancel(e, l) PROVE Kept'
    BY <1>46 DEF RefuseCancel, DropConnection
  <1>47. ASSUME NEW e \in Exec, NEW l \in Lease, ReconcileLease(e, l) PROVE Kept'
    BY <1>47 DEF ReconcileLease
  <1>48. ASSUME NEW e \in Exec, NEW l \in Lease, RefuseReconcile(e, l) PROVE Kept'
    BY <1>48 DEF RefuseReconcile, Fail, DropConnection
  <1>49. ASSUME NEW e \in Exec, Watchdog(e) PROVE Kept'
    BY <1>49 DEF Watchdog, Stop
  <1>50. ASSUME NEW e \in Exec, OrphanReclaim(e) PROVE Kept'
    BY <1>50 DEF OrphanReclaim, Sweepable
  <1>51. ASSUME NEW e \in Exec, Expire(e) PROVE Kept'
    BY <1>51 DEF Expire
  <1>52. ASSUME NEW e \in Exec, ControllerStore(e) PROVE Kept'
    BY <1>52 DEF ControllerStore
  <1>53. CASE CheckpointFault
    <2>1. DropConnection /\ UNCHANGED <<backend, expired, active, cancelled, pending, task, result, draining, ctl, revoked, execs>>
      BY <1>53 DEF CheckpointFault
    <2>2. CASE tpc = "preparing"
      <3>1. PICK s \in AttemptState : journal' = SetTerminal(journal, cur, SetupResult(s))
        BY <1>53, <2>2 DEF CheckpointFault, AttemptState
      <3>. QED
        BY <2>1, <2>2, <3>1 DEF SetupResult, SetTerminal, DropConnection
    <2>3. CASE tpc = "recPersist"
      <3>1. journal' = SetTerminal(journal, cur, RecoveredResult)
        BY <1>53, <2>3 DEF CheckpointFault
      <3>. QED
        BY <2>1, <2>3, <3>1 DEF RecoveredResult, SetTerminal, DropConnection
    <2>4. CASE tpc = "prepared"
      <3>1. journal' = SetState(journal, cur, "PREPARED", TRUE)
        BY <1>53, <2>4 DEF CheckpointFault
      <3>. QED
        BY <2>1, <2>4, <3>1 DEF SetState, DropConnection
    <2>5. CASE tpc = "started"
      <3>1. journal' = SetState(journal, cur, "EXECUTING", TRUE)
        BY <1>53, <2>5 DEF CheckpointFault
      <3>. QED
        BY <2>1, <2>5, <3>1 DEF SetState, DropConnection
    <2>6. CASE tpc = "recConfirm"
      <3>1. journal' = SetState(journal, cur, "CLEANUP_CONFIRMED", snap[cur].op)
        BY <1>53, <2>6 DEF CheckpointFault
      <3>. QED
        BY <2>1, <2>6, <3>1 DEF SetState, DropConnection
    <2>7. CASE tpc = "ackReported"
      <3>1. journal' = SetState(journal, cur, "CLEANUP_CONFIRMED", FALSE)
        BY <1>53, <2>7 DEF CheckpointFault
      <3>. QED
        BY <2>1, <2>7, <3>1 DEF SetState, DropConnection
    <2>. QED
      BY <1>53, <2>2, <2>3, <2>4, <2>5, <2>6, <2>7 DEF CheckpointFault
  <1>54. CASE UNCHANGED vars
    BY <1>54 DEF vars
  <1>. QED
    BY <1>1, <1>2, <1>3, <1>4, <1>5, <1>6, <1>7, <1>8, <1>9, <1>10, <1>11,
       <1>12, <1>13, <1>14, <1>15, <1>16, <1>17, <1>18, <1>19, <1>20, <1>21,
       <1>22, <1>23, <1>24, <1>25, <1>26, <1>27, <1>28, <1>29, <1>30, <1>31,
       <1>32, <1>33, <1>34, <1>35, <1>36, <1>37, <1>38, <1>39, <1>40, <1>41,
       <1>42, <1>43, <1>44, <1>45, <1>46, <1>47, <1>48, <1>49, <1>50, <1>51,
       <1>52, <1>53, <1>54
       DEF Next, Recover, Setup, Directive, Task

-----------------------------------------------------------------------------
(* Ownership of rows                                                       *)

(* Nobody owns anything in the initial state.                              *)
LEMMA OwnershipInit == Init => Ownership
  BY DEF Init, Ownership, Writing, Settled, SettingUp, Recovering, NoRecords, NoRecord

(* Every step keeps the task, recovery and the acknowledgement apart.      *)
LEMMA OwnershipStep ==
    WellFormed /\ WellFormed' /\ ExecutedOnce /\ Ownership /\ [Next]_vars => Ownership'
  <1> SUFFICES ASSUME WellFormed, WellFormed', ExecutedOnce, Ownership, [Next]_vars
               PROVE  Ownership'
    OBVIOUS
  <1> USE RecordFields, NoExecAssumption
  <1> USE DEF WellFormed, TypeOK, CurOK, Handling, TransportState,
              ExecutedOnce, Freshness, Fresh, Recorded, SettingUp, Ownership, Writing,
              Recovering, Settled, NoRecords, NoRecord, NoResults,
              durable, memory, transport, observer
  <1>1. CASE Connect
    BY <1>1 DEF Connect, Unfinished
  <1>2. CASE Disconnect
    BY <1>2 DEF Disconnect, Fail, DropConnection
  <1>3. CASE Crash
    BY <1>3 DEF Crash
  <1>4. CASE Restart
    BY <1>4 DEF Restart, Sweepable
  <1>5. CASE JournalFault
    BY <1>5 DEF JournalFault, Fail, DropConnection
  <1>6. ASSUME NEW e \in Exec, RecoverPick(e) PROVE Ownership'
    BY <1>6 DEF RecoverPick
  <1>7. CASE RecoverSkipActive
    BY <1>7 DEF RecoverSkipActive, Skip
  <1>8. CASE RecoverReplay
    BY <1>8 DEF RecoverReplay, Skip
  <1>9. CASE RecoverBranch
    BY <1>9 DEF RecoverBranch
  <1>10. CASE RecoverReclaim
    BY <1>10 DEF RecoverReclaim
  <1>11. CASE RecoverConfirm
    BY <1>11 DEF RecoverConfirm, Skip, SetState
  <1>12. CASE RecoverStop
    BY <1>12 DEF RecoverStop, SetState
  <1>13. CASE RecoverCleanup
    BY <1>13 DEF RecoverCleanup
  <1>14. CASE RecoverCleanupFails
    BY <1>14 DEF RecoverCleanupFails, Fail, DropConnection
  <1>15. CASE RecoverPersist
    BY <1>15 DEF RecoverPersist, SetTerminal
  <1>16. CASE RecoverPublish
    BY <1>16 DEF RecoverPublish, Skip
  <1>17. CASE RecoverDone
    BY <1>17 DEF RecoverDone, Resent
  <1>18. CASE Heartbeat
    BY <1>18 DEF Heartbeat, Resent
  <1>19. CASE Drain
    BY <1>19 DEF Drain
  <1>20. ASSUME NEW e \in Exec, NEW l \in Lease, RefuseExecute(e, l) PROVE Ownership'
    BY <1>20 DEF RefuseExecute, Fail, DropConnection
  <1>21. ASSUME NEW e \in Exec, NEW l \in Lease, DuplicateExecute(e, l) PROVE Ownership'
    BY <1>21 DEF DuplicateExecute
  <1>22. ASSUME NEW e \in Exec, NEW l \in Lease, NewExecute(e, l) PROVE Ownership'
    BY <1>22 DEF NewExecute, RecordIntent
  <1>23. CASE Admit
    BY <1>23 DEF Admit, SetState
  <1>24. CASE CapacityExhausted
    BY <1>24 DEF CapacityExhausted, Fail, DropConnection
  <1>25. ASSUME NEW s \in AttemptState, SetupFailure(s) PROVE Ownership'
    BY <1>25 DEF SetupFailure, SetupResult, SetTerminal
  <1>26. CASE Prepare
    BY <1>26 DEF Prepare
  <1>27. CASE RecordPrepared
    BY <1>27 DEF RecordPrepared, SetState
  <1>28. CASE Spawn
    BY <1>28 DEF Spawn, SetState
  <1>29. ASSUME NEW e \in Exec, TaskStart(e) PROVE Ownership'
    BY <1>29 DEF TaskStart
  <1>30. ASSUME NEW e \in Exec, NEW s \in AttemptState, TaskExecuted(e, s) PROVE Ownership'
    BY <1>30 DEF TaskExecuted, ExecuteOutput, ExecuteError
  <1>31. ASSUME NEW e \in Exec, TaskCleanup(e) PROVE Ownership'
    BY <1>31 DEF TaskCleanup
  <1>32. ASSUME NEW e \in Exec, TaskCleanupFails(e) PROVE Ownership'
    BY <1>32 DEF TaskCleanupFails
  <1>33. ASSUME NEW e \in Exec, TaskRecordCleanup(e) PROVE Ownership'
    <2>1. CASE journal' = SetState(journal, e, "CLEANUP_REQUIRED", TRUE)
      BY <1>33, <2>1 DEF TaskRecordCleanup, SetState
    <2>2. CASE UNCHANGED journal
      BY <1>33, <2>2 DEF TaskRecordCleanup
    <2>. QED
      BY <1>33, <2>1, <2>2 DEF TaskRecordCleanup
  <1>34. ASSUME NEW e \in Exec, TaskPersist(e) PROVE Ownership'
    BY <1>34 DEF TaskPersist, SetTerminal
  <1>35. ASSUME NEW e \in Exec, TaskPersistFails(e) PROVE Ownership'
    <2>1. CASE UNCHANGED journal
      BY <1>35, <2>1 DEF TaskPersistFails
    <2>2. CASE journal' = SetTerminal(journal, e, result[e])
      BY <1>35, <2>2 DEF TaskPersistFails, SetTerminal
    <2>. QED
      BY <1>35, <2>1, <2>2 DEF TaskPersistFails
  <1>36. ASSUME NEW e \in Exec, TaskRetire(e) PROVE Ownership'
    BY <1>36 DEF TaskRetire
  <1>37. ASSUME NEW e \in Exec, TaskPublish(e) PROVE Ownership'
    BY <1>37 DEF TaskPublish
  <1>38. ASSUME NEW e \in Exec, TaskSend(e) PROVE Ownership'
    BY <1>38 DEF TaskSend
  <1>39. ASSUME NEW e \in Exec, RefuseAck(e) PROVE Ownership'
    BY <1>39 DEF RefuseAck, Fail, DropConnection
  <1>40. ASSUME NEW e \in Exec, AckReclaimFails(e) PROVE Ownership'
    BY <1>40 DEF AckReclaimFails, Fail, DropConnection
  <1>41. ASSUME NEW e \in Exec, AckReported(e) PROVE Ownership'
    BY <1>41 DEF AckReported, AckArrives, SetState, AckMatches
  <1>42. CASE AckConfirmed
    BY <1>42 DEF AckConfirmed, SetState
  <1>43. ASSUME NEW e \in Exec, NEW l \in Lease, CancelActive(e, l) PROVE Ownership'
    BY <1>43 DEF CancelActive, Stop
  <1>44. ASSUME NEW e \in Exec, NEW l \in Lease, CancelActiveFails(e, l) PROVE Ownership'
    BY <1>44 DEF CancelActiveFails, DropConnection
  <1>45. ASSUME NEW e \in Exec, NEW l \in Lease, CancelIdempotent(e, l) PROVE Ownership'
    BY <1>45 DEF CancelIdempotent
  <1>46. ASSUME NEW e \in Exec, NEW l \in Lease, RefuseCancel(e, l) PROVE Ownership'
    BY <1>46 DEF RefuseCancel, DropConnection
  <1>47. ASSUME NEW e \in Exec, NEW l \in Lease, ReconcileLease(e, l) PROVE Ownership'
    BY <1>47 DEF ReconcileLease
  <1>48. ASSUME NEW e \in Exec, NEW l \in Lease, RefuseReconcile(e, l) PROVE Ownership'
    BY <1>48 DEF RefuseReconcile, Fail, DropConnection
  <1>49. ASSUME NEW e \in Exec, Watchdog(e) PROVE Ownership'
    BY <1>49 DEF Watchdog, Stop
  <1>50. ASSUME NEW e \in Exec, OrphanReclaim(e) PROVE Ownership'
    BY <1>50 DEF OrphanReclaim, Sweepable
  <1>51. ASSUME NEW e \in Exec, Expire(e) PROVE Ownership'
    BY <1>51 DEF Expire
  <1>52. ASSUME NEW e \in Exec, ControllerStore(e) PROVE Ownership'
    BY <1>52 DEF ControllerStore
  <1>53. CASE CheckpointFault
    <2>1. DropConnection /\ UNCHANGED <<backend, expired, active, cancelled, pending, task, result, draining, ctl, revoked, execs>>
      BY <1>53 DEF CheckpointFault
    <2>2. CASE tpc = "preparing"
      <3>1. PICK s \in AttemptState : journal' = SetTerminal(journal, cur, SetupResult(s))
        BY <1>53, <2>2 DEF CheckpointFault, AttemptState
      <3>. QED
        BY <2>1, <2>2, <3>1 DEF SetupResult, SetTerminal, DropConnection
    <2>3. CASE tpc = "recPersist"
      <3>1. journal' = SetTerminal(journal, cur, RecoveredResult)
        BY <1>53, <2>3 DEF CheckpointFault
      <3>. QED
        BY <2>1, <2>3, <3>1 DEF RecoveredResult, SetTerminal, DropConnection
    <2>4. CASE tpc = "prepared"
      <3>1. journal' = SetState(journal, cur, "PREPARED", TRUE)
        BY <1>53, <2>4 DEF CheckpointFault
      <3>. QED
        BY <2>1, <2>4, <3>1 DEF SetState, DropConnection
    <2>5. CASE tpc = "started"
      <3>1. journal' = SetState(journal, cur, "EXECUTING", TRUE)
        BY <1>53, <2>5 DEF CheckpointFault
      <3>. QED
        BY <2>1, <2>5, <3>1 DEF SetState, DropConnection
    <2>6. CASE tpc = "recConfirm"
      <3>1. journal' = SetState(journal, cur, "CLEANUP_CONFIRMED", snap[cur].op)
        BY <1>53, <2>6 DEF CheckpointFault
      <3>. QED
        BY <2>1, <2>6, <3>1 DEF SetState, DropConnection
    <2>7. CASE tpc = "ackReported"
      <3>1. journal' = SetState(journal, cur, "CLEANUP_CONFIRMED", FALSE)
        BY <1>53, <2>7 DEF CheckpointFault
      <3>. QED
        BY <2>1, <2>7, <3>1 DEF SetState, DropConnection
    <2>. QED
      BY <1>53, <2>2, <2>3, <2>4, <2>5, <2>6, <2>7 DEF CheckpointFault
  <1>54. CASE UNCHANGED vars
    BY <1>54 DEF vars
  <1>. QED
    BY <1>1, <1>2, <1>3, <1>4, <1>5, <1>6, <1>7, <1>8, <1>9, <1>10, <1>11,
       <1>12, <1>13, <1>14, <1>15, <1>16, <1>17, <1>18, <1>19, <1>20, <1>21,
       <1>22, <1>23, <1>24, <1>25, <1>26, <1>27, <1>28, <1>29, <1>30, <1>31,
       <1>32, <1>33, <1>34, <1>35, <1>36, <1>37, <1>38, <1>39, <1>40, <1>41,
       <1>42, <1>43, <1>44, <1>45, <1>46, <1>47, <1>48, <1>49, <1>50, <1>51,
       <1>52, <1>53, <1>54
       DEF Next, Recover, Setup, Directive, Task

-----------------------------------------------------------------------------
(* Where outcomes come from                                                *)

(* Nobody has been told anything in the initial state.                     *)
LEMMA UnreportedInit == Init => Unreported
  BY DEF Init, Unreported, Writing

(* A result reaches the connection only from the pending results, from     *)
(* recovery of an execution that is not active, or from a set-up or a task *)
(* that writes no more.                                                    *)
LEMMA UnreportedStep ==
    WellFormed /\ ExecutedOnce /\ Ownership /\ Unreported /\ [Next]_vars => Unreported'
  <1> SUFFICES ASSUME WellFormed, ExecutedOnce, Ownership, Unreported, [Next]_vars
               PROVE  Unreported'
    OBVIOUS
  <1> USE RecordFields
  <1> USE DEF WellFormed, TypeOK, CurOK, Handling, TransportState,
              ExecutedOnce, Freshness, Fresh, SettingUp, Ownership, Writing,
              Recovering, Unreported, NoWire, durable, memory, transport, observer
  <1>1. CASE Connect
    BY <1>1 DEF Connect, Unfinished
  <1>2. CASE Disconnect
    BY <1>2 DEF Disconnect, Fail, DropConnection
  <1>3. CASE Crash
    BY <1>3 DEF Crash
  <1>4. CASE Restart
    BY <1>4 DEF Restart
  <1>5. CASE JournalFault
    BY <1>5 DEF JournalFault, Fail, DropConnection
  <1>6. ASSUME NEW e \in Exec, RecoverPick(e) PROVE Unreported'
    BY <1>6 DEF RecoverPick
  <1>7. CASE RecoverSkipActive
    BY <1>7 DEF RecoverSkipActive, Skip
  <1>8. CASE RecoverReplay
    BY <1>8 DEF RecoverReplay, Skip
  <1>9. CASE RecoverBranch
    BY <1>9 DEF RecoverBranch
  <1>10. CASE RecoverReclaim
    BY <1>10 DEF RecoverReclaim
  <1>11. CASE RecoverConfirm
    BY <1>11 DEF RecoverConfirm, Skip, SetState
  <1>12. CASE RecoverStop
    BY <1>12 DEF RecoverStop, SetState
  <1>13. CASE RecoverCleanup
    BY <1>13 DEF RecoverCleanup
  <1>14. CASE RecoverCleanupFails
    BY <1>14 DEF RecoverCleanupFails, Fail, DropConnection
  <1>15. CASE RecoverPersist
    BY <1>15 DEF RecoverPersist, SetTerminal
  <1>16. CASE RecoverPublish
    BY <1>16 DEF RecoverPublish, Skip
  <1>17. CASE RecoverDone
    BY <1>17 DEF RecoverDone, Resent
  <1>18. CASE Heartbeat
    BY <1>18 DEF Heartbeat, Resent
  <1>19. CASE Drain
    BY <1>19 DEF Drain
  <1>20. ASSUME NEW e \in Exec, NEW l \in Lease, RefuseExecute(e, l) PROVE Unreported'
    BY <1>20 DEF RefuseExecute, Fail, DropConnection
  <1>21. ASSUME NEW e \in Exec, NEW l \in Lease, DuplicateExecute(e, l) PROVE Unreported'
    BY <1>21 DEF DuplicateExecute
  <1>22. ASSUME NEW e \in Exec, NEW l \in Lease, NewExecute(e, l) PROVE Unreported'
    BY <1>22 DEF NewExecute, RecordIntent
  <1>23. CASE Admit
    BY <1>23 DEF Admit, SetState
  <1>24. CASE CapacityExhausted
    BY <1>24 DEF CapacityExhausted, Fail, DropConnection
  <1>25. ASSUME NEW s \in AttemptState, SetupFailure(s) PROVE Unreported'
    BY <1>25 DEF SetupFailure, SetTerminal
  <1>26. CASE Prepare
    BY <1>26 DEF Prepare
  <1>27. CASE RecordPrepared
    BY <1>27 DEF RecordPrepared, SetState
  <1>28. CASE Spawn
    BY <1>28 DEF Spawn, SetState
  <1>29. ASSUME NEW e \in Exec, TaskStart(e) PROVE Unreported'
    BY <1>29 DEF TaskStart
  <1>30. ASSUME NEW e \in Exec, NEW s \in AttemptState, TaskExecuted(e, s) PROVE Unreported'
    BY <1>30 DEF TaskExecuted, ExecuteOutput, ExecuteError
  <1>31. ASSUME NEW e \in Exec, TaskCleanup(e) PROVE Unreported'
    BY <1>31 DEF TaskCleanup
  <1>32. ASSUME NEW e \in Exec, TaskCleanupFails(e) PROVE Unreported'
    BY <1>32 DEF TaskCleanupFails
  <1>33. ASSUME NEW e \in Exec, TaskRecordCleanup(e) PROVE Unreported'
    <2>1. CASE journal' = SetState(journal, e, "CLEANUP_REQUIRED", TRUE)
      BY <1>33, <2>1 DEF TaskRecordCleanup, SetState
    <2>2. CASE UNCHANGED journal
      BY <1>33, <2>2 DEF TaskRecordCleanup
    <2>. QED
      BY <1>33, <2>1, <2>2 DEF TaskRecordCleanup
  <1>34. ASSUME NEW e \in Exec, TaskPersist(e) PROVE Unreported'
    BY <1>34 DEF TaskPersist, SetTerminal
  <1>35. ASSUME NEW e \in Exec, TaskPersistFails(e) PROVE Unreported'
    <2>1. CASE UNCHANGED journal
      BY <1>35, <2>1 DEF TaskPersistFails
    <2>2. CASE journal' = SetTerminal(journal, e, result[e])
      BY <1>35, <2>2 DEF TaskPersistFails, SetTerminal
    <2>. QED
      BY <1>35, <2>1, <2>2 DEF TaskPersistFails
  <1>36. ASSUME NEW e \in Exec, TaskRetire(e) PROVE Unreported'
    BY <1>36 DEF TaskRetire
  <1>37. ASSUME NEW e \in Exec, TaskPublish(e) PROVE Unreported'
    BY <1>37 DEF TaskPublish
  <1>38. ASSUME NEW e \in Exec, TaskSend(e) PROVE Unreported'
    BY <1>38 DEF TaskSend
  <1>39. ASSUME NEW e \in Exec, RefuseAck(e) PROVE Unreported'
    BY <1>39 DEF RefuseAck, Fail, DropConnection
  <1>40. ASSUME NEW e \in Exec, AckReclaimFails(e) PROVE Unreported'
    BY <1>40 DEF AckReclaimFails, Fail, DropConnection
  <1>41. ASSUME NEW e \in Exec, AckReported(e) PROVE Unreported'
    BY <1>41 DEF AckReported, AckArrives, SetState
  <1>42. CASE AckConfirmed
    BY <1>42 DEF AckConfirmed, SetState
  <1>43. ASSUME NEW e \in Exec, NEW l \in Lease, CancelActive(e, l) PROVE Unreported'
    BY <1>43 DEF CancelActive, Stop
  <1>44. ASSUME NEW e \in Exec, NEW l \in Lease, CancelActiveFails(e, l) PROVE Unreported'
    BY <1>44 DEF CancelActiveFails, DropConnection
  <1>45. ASSUME NEW e \in Exec, NEW l \in Lease, CancelIdempotent(e, l) PROVE Unreported'
    BY <1>45 DEF CancelIdempotent
  <1>46. ASSUME NEW e \in Exec, NEW l \in Lease, RefuseCancel(e, l) PROVE Unreported'
    BY <1>46 DEF RefuseCancel, DropConnection
  <1>47. ASSUME NEW e \in Exec, NEW l \in Lease, ReconcileLease(e, l) PROVE Unreported'
    BY <1>47 DEF ReconcileLease
  <1>48. ASSUME NEW e \in Exec, NEW l \in Lease, RefuseReconcile(e, l) PROVE Unreported'
    BY <1>48 DEF RefuseReconcile, Fail, DropConnection
  <1>49. ASSUME NEW e \in Exec, Watchdog(e) PROVE Unreported'
    BY <1>49 DEF Watchdog, Stop
  <1>50. ASSUME NEW e \in Exec, OrphanReclaim(e) PROVE Unreported'
    BY <1>50 DEF OrphanReclaim
  <1>51. ASSUME NEW e \in Exec, Expire(e) PROVE Unreported'
    BY <1>51 DEF Expire
  <1>52. ASSUME NEW e \in Exec, ControllerStore(e) PROVE Unreported'
    BY <1>52 DEF ControllerStore
  <1>53. CASE CheckpointFault
    <2>1. DropConnection /\ UNCHANGED <<backend, expired, active, cancelled, pending, task, result, draining, ctl, revoked, execs>>
      BY <1>53 DEF CheckpointFault
    <2>2. CASE tpc = "preparing"
      <3>1. PICK s \in AttemptState : s \in {"FAILED", "TIMED_OUT", "UNKNOWN"} /\ journal' = SetTerminal(journal, cur, SetupResult(s))
        BY <1>53, <2>2 DEF CheckpointFault, AttemptState
      <3>. QED
        BY <2>1, <2>2, <3>1 DEF SetupResult, SetTerminal, DropConnection
    <2>3. CASE tpc = "recPersist"
      <3>1. journal' = SetTerminal(journal, cur, RecoveredResult)
        BY <1>53, <2>3 DEF CheckpointFault
      <3>. QED
        BY <2>1, <2>3, <3>1 DEF RecoveredResult, SetTerminal, DropConnection
    <2>4. CASE tpc = "prepared"
      <3>1. journal' = SetState(journal, cur, "PREPARED", TRUE)
        BY <1>53, <2>4 DEF CheckpointFault
      <3>. QED
        BY <2>1, <2>4, <3>1 DEF SetState, DropConnection
    <2>5. CASE tpc = "started"
      <3>1. journal' = SetState(journal, cur, "EXECUTING", TRUE)
        BY <1>53, <2>5 DEF CheckpointFault
      <3>. QED
        BY <2>1, <2>5, <3>1 DEF SetState, DropConnection
    <2>6. CASE tpc = "recConfirm"
      <3>1. journal' = SetState(journal, cur, "CLEANUP_CONFIRMED", snap[cur].op)
        BY <1>53, <2>6 DEF CheckpointFault
      <3>. QED
        BY <2>1, <2>6, <3>1 DEF SetState, DropConnection
    <2>7. CASE tpc = "ackReported"
      <3>1. journal' = SetState(journal, cur, "CLEANUP_CONFIRMED", FALSE)
        BY <1>53, <2>7 DEF CheckpointFault
      <3>. QED
        BY <2>1, <2>7, <3>1 DEF SetState, DropConnection
    <2>. QED
      BY <1>53, <2>2, <2>3, <2>4, <2>5, <2>6, <2>7 DEF CheckpointFault
  <1>54. CASE UNCHANGED vars
    BY <1>54 DEF vars
  <1>. QED
    BY <1>1, <1>2, <1>3, <1>4, <1>5, <1>6, <1>7, <1>8, <1>9, <1>10, <1>11,
       <1>12, <1>13, <1>14, <1>15, <1>16, <1>17, <1>18, <1>19, <1>20, <1>21,
       <1>22, <1>23, <1>24, <1>25, <1>26, <1>27, <1>28, <1>29, <1>30, <1>31,
       <1>32, <1>33, <1>34, <1>35, <1>36, <1>37, <1>38, <1>39, <1>40, <1>41,
       <1>42, <1>43, <1>44, <1>45, <1>46, <1>47, <1>48, <1>49, <1>50, <1>51,
       <1>52, <1>53, <1>54
       DEF Next, Recover, Setup, Directive, Task

(* There is no outcome in the initial state.                               *)
LEMMA ProvenanceInit == Init => Provenance
  BY DEF Init, Provenance, Copies, NoRecords, NoResults, NoWire, NoRecord, NoResult

(* Success is built only for a running command, a cancellation only for a  *)
(* signal sent before the deadline; every other step copies or drops what  *)
(* is there, or writes another state.                                      *)
LEMMA ProvenanceStep ==
    WellFormed /\ WellFormed' /\ ExecutedOnce /\ Provenance /\ [Next]_vars => Provenance'
  <1> SUFFICES ASSUME WellFormed, WellFormed', ExecutedOnce, Provenance, [Next]_vars
               PROVE  Provenance'
    OBVIOUS
  <1> USE RecordFields
  <1> USE DEF WellFormed, TypeOK, CurOK, BuiltOK, Handling, TransportState,
              ExecutedOnce, Freshness, Fresh, Recorded, SettingUp, Provenance, Copies,
              NoRecords, NoResults, NoWire, NoRecord, NoResult,
              durable, memory, transport, observer
  <1>1. CASE Connect
    BY <1>1 DEF Connect, Unfinished
  <1>2. CASE Disconnect
    BY <1>2 DEF Disconnect, Fail, DropConnection
  <1>3. CASE Crash
    BY <1>3 DEF Crash
  <1>4. CASE Restart
    BY <1>4 DEF Restart
  <1>5. CASE JournalFault
    BY <1>5 DEF JournalFault, Fail, DropConnection
  <1>6. ASSUME NEW e \in Exec, RecoverPick(e) PROVE Provenance'
    <2>1. UNCHANGED <<journal, pending, result, ctl, wire, execs, revoked, task, cancelled, active, expired>>
      BY <1>6 DEF RecoverPick
    <2>2. \A x \in Exec : snap'[x] = snap[x] \/ snap'[x] = NoRecord
      BY <1>6 DEF RecoverPick
    <2>. QED
      BY <2>1, <2>2
  <1>7. CASE RecoverSkipActive
    BY <1>7 DEF RecoverSkipActive, Skip
  <1>8. CASE RecoverReplay
    BY <1>8 DEF RecoverReplay, Skip
  <1>9. CASE RecoverBranch
    BY <1>9 DEF RecoverBranch
  <1>10. CASE RecoverReclaim
    BY <1>10 DEF RecoverReclaim
  <1>11. CASE RecoverConfirm
    BY <1>11 DEF RecoverConfirm, Skip, SetState
  <1>12. CASE RecoverStop
    BY <1>12 DEF RecoverStop, SetState
  <1>13. CASE RecoverCleanup
    BY <1>13 DEF RecoverCleanup
  <1>14. CASE RecoverCleanupFails
    BY <1>14 DEF RecoverCleanupFails, Fail, DropConnection
  <1>15. CASE RecoverPersist
    BY <1>15 DEF RecoverPersist, SetTerminal, RecoveredResult
  <1>16. CASE RecoverPublish
    BY <1>16 DEF RecoverPublish, Skip, RecoveredResult
  <1>17. CASE RecoverDone
    BY <1>17 DEF RecoverDone, Resent
  <1>18. CASE Heartbeat
    BY <1>18 DEF Heartbeat, Resent
  <1>19. CASE Drain
    BY <1>19 DEF Drain
  <1>20. ASSUME NEW e \in Exec, NEW l \in Lease, RefuseExecute(e, l) PROVE Provenance'
    BY <1>20 DEF RefuseExecute, Fail, DropConnection
  <1>21. ASSUME NEW e \in Exec, NEW l \in Lease, DuplicateExecute(e, l) PROVE Provenance'
    BY <1>21 DEF DuplicateExecute
  <1>22. ASSUME NEW e \in Exec, NEW l \in Lease, NewExecute(e, l) PROVE Provenance'
    BY <1>22 DEF NewExecute, RecordIntent
  <1>23. CASE Admit
    BY <1>23 DEF Admit, SetState
  <1>24. CASE CapacityExhausted
    BY <1>24 DEF CapacityExhausted, Fail, DropConnection
  <1>25. ASSUME NEW s \in AttemptState, SetupFailure(s) PROVE Provenance'
    BY <1>25 DEF SetupFailure, SetTerminal, SetupResult
  <1>26. CASE Prepare
    BY <1>26 DEF Prepare
  <1>27. CASE RecordPrepared
    BY <1>27 DEF RecordPrepared, SetState
  <1>28. CASE Spawn
    BY <1>28 DEF Spawn, SetState
  <1>29. ASSUME NEW e \in Exec, TaskStart(e) PROVE Provenance'
    BY <1>29 DEF TaskStart
  <1>30. ASSUME NEW e \in Exec, NEW s \in AttemptState, TaskExecuted(e, s) PROVE Provenance'
    BY <1>30 DEF TaskExecuted, ExecuteOutput, ExecuteError, ErrorState
  <1>31. ASSUME NEW e \in Exec, TaskCleanup(e) PROVE Provenance'
    <2>1. result[e].state = result'[e].state /\ \A x \in Exec : x # e => result'[x] = result[x]
      BY <1>31 DEF TaskCleanup, TerminalResult
    <2>2. UNCHANGED <<journal, pending, ctl, wire, snap, execs, revoked, cancelled, active, expired>>
      BY <1>31 DEF TaskCleanup
    <2>3. \A x \in Exec : task'[x] = "running" => task[x] = "running"
      BY <1>31 DEF TaskCleanup
    <2>4. \A x \in Exec : result[x] \in Copies(x)
      BY DEF Copies
    <2>5. \A x \in Exec : Copies(x)' \subseteq (Copies(x) \cup {result'[x]})
      BY <2>2
    <2>6. ASSUME NEW x \in Exec, NEW r \in (Copies(x) \cup {snap[x].terminal})'
          PROVE  (r.state = "SUCCEEDED" => execs[x] # 0)
                 /\ (r.state = "CANCELLED" => <<x, journal[x].lease>> \in revoked)
      <3>1. r \in Copies(x) \cup {snap[x].terminal} \/ r = result'[x]
        BY <2>2, <2>5, <2>6
      <3>2. CASE r \in Copies(x) \cup {snap[x].terminal}
        BY <3>2
      <3>3. CASE r = result'[x]
        BY <2>1, <2>4, <3>3
      <3>. QED
        BY <3>1, <3>2, <3>3
    <2>. QED
      BY <2>2, <2>3, <2>6
  <1>32. ASSUME NEW e \in Exec, TaskCleanupFails(e) PROVE Provenance'
    BY <1>32 DEF TaskCleanupFails
  <1>33. ASSUME NEW e \in Exec, TaskRecordCleanup(e) PROVE Provenance'
    <2>1. CASE journal' = SetState(journal, e, "CLEANUP_REQUIRED", TRUE)
      BY <1>33, <2>1 DEF TaskRecordCleanup, SetState
    <2>2. CASE UNCHANGED journal
      BY <1>33, <2>2 DEF TaskRecordCleanup
    <2>. QED
      BY <1>33, <2>1, <2>2 DEF TaskRecordCleanup
  <1>34. ASSUME NEW e \in Exec, TaskPersist(e) PROVE Provenance'
    BY <1>34 DEF TaskPersist, SetTerminal
  <1>35. ASSUME NEW e \in Exec, TaskPersistFails(e) PROVE Provenance'
    <2>1. CASE UNCHANGED journal
      BY <1>35, <2>1 DEF TaskPersistFails
    <2>2. CASE journal' = SetTerminal(journal, e, result[e])
      BY <1>35, <2>2 DEF TaskPersistFails, SetTerminal
    <2>. QED
      BY <1>35, <2>1, <2>2 DEF TaskPersistFails
  <1>36. ASSUME NEW e \in Exec, TaskRetire(e) PROVE Provenance'
    BY <1>36 DEF TaskRetire
  <1>37. ASSUME NEW e \in Exec, TaskPublish(e) PROVE Provenance'
    BY <1>37 DEF TaskPublish
  <1>38. ASSUME NEW e \in Exec, TaskSend(e) PROVE Provenance'
    BY <1>38 DEF TaskSend
  <1>39. ASSUME NEW e \in Exec, RefuseAck(e) PROVE Provenance'
    BY <1>39 DEF RefuseAck, Fail, DropConnection
  <1>40. ASSUME NEW e \in Exec, AckReclaimFails(e) PROVE Provenance'
    BY <1>40 DEF AckReclaimFails, Fail, DropConnection
  <1>41. ASSUME NEW e \in Exec, AckReported(e) PROVE Provenance'
    BY <1>41 DEF AckReported, AckArrives, SetState
  <1>42. CASE AckConfirmed
    BY <1>42 DEF AckConfirmed, SetState
  <1>43. ASSUME NEW e \in Exec, NEW l \in Lease, CancelActive(e, l) PROVE Provenance'
    BY <1>43 DEF CancelActive, Stop
  <1>44. ASSUME NEW e \in Exec, NEW l \in Lease, CancelActiveFails(e, l) PROVE Provenance'
    BY <1>44 DEF CancelActiveFails, DropConnection
  <1>45. ASSUME NEW e \in Exec, NEW l \in Lease, CancelIdempotent(e, l) PROVE Provenance'
    BY <1>45 DEF CancelIdempotent
  <1>46. ASSUME NEW e \in Exec, NEW l \in Lease, RefuseCancel(e, l) PROVE Provenance'
    BY <1>46 DEF RefuseCancel, DropConnection
  <1>47. ASSUME NEW e \in Exec, NEW l \in Lease, ReconcileLease(e, l) PROVE Provenance'
    BY <1>47 DEF ReconcileLease
  <1>48. ASSUME NEW e \in Exec, NEW l \in Lease, RefuseReconcile(e, l) PROVE Provenance'
    BY <1>48 DEF RefuseReconcile, Fail, DropConnection
  <1>49. ASSUME NEW e \in Exec, Watchdog(e) PROVE Provenance'
    BY <1>49 DEF Watchdog, Stop
  <1>50. ASSUME NEW e \in Exec, OrphanReclaim(e) PROVE Provenance'
    BY <1>50 DEF OrphanReclaim
  <1>51. ASSUME NEW e \in Exec, Expire(e) PROVE Provenance'
    BY <1>51 DEF Expire
  <1>52. ASSUME NEW e \in Exec, ControllerStore(e) PROVE Provenance'
    BY <1>52 DEF ControllerStore
  <1>53. CASE CheckpointFault
    <2>1. DropConnection /\ UNCHANGED <<backend, expired, active, cancelled, pending, task, result, draining, ctl, revoked, execs>>
      BY <1>53 DEF CheckpointFault
    <2>2. CASE tpc = "preparing"
      <3>1. PICK s \in AttemptState : s \in {"FAILED", "TIMED_OUT", "UNKNOWN"} /\ journal' = SetTerminal(journal, cur, SetupResult(s))
        BY <1>53, <2>2 DEF CheckpointFault, AttemptState
      <3>. QED
        BY <2>1, <2>2, <3>1 DEF SetupResult, SetTerminal, DropConnection
    <2>3. CASE tpc = "recPersist"
      <3>1. journal' = SetTerminal(journal, cur, RecoveredResult)
        BY <1>53, <2>3 DEF CheckpointFault
      <3>. QED
        BY <2>1, <2>3, <3>1 DEF RecoveredResult, SetTerminal, DropConnection
    <2>4. CASE tpc = "prepared"
      <3>1. journal' = SetState(journal, cur, "PREPARED", TRUE)
        BY <1>53, <2>4 DEF CheckpointFault
      <3>. QED
        BY <2>1, <2>4, <3>1 DEF SetState, DropConnection
    <2>5. CASE tpc = "started"
      <3>1. journal' = SetState(journal, cur, "EXECUTING", TRUE)
        BY <1>53, <2>5 DEF CheckpointFault
      <3>. QED
        BY <2>1, <2>5, <3>1 DEF SetState, DropConnection
    <2>6. CASE tpc = "recConfirm"
      <3>1. journal' = SetState(journal, cur, "CLEANUP_CONFIRMED", snap[cur].op)
        BY <1>53, <2>6 DEF CheckpointFault
      <3>. QED
        BY <2>1, <2>6, <3>1 DEF SetState, DropConnection
    <2>7. CASE tpc = "ackReported"
      <3>1. journal' = SetState(journal, cur, "CLEANUP_CONFIRMED", FALSE)
        BY <1>53, <2>7 DEF CheckpointFault
      <3>. QED
        BY <2>1, <2>7, <3>1 DEF SetState, DropConnection
    <2>. QED
      BY <1>53, <2>2, <2>3, <2>4, <2>5, <2>6, <2>7 DEF CheckpointFault
  <1>54. CASE UNCHANGED vars
    BY <1>54 DEF vars
  <1>. QED
    BY <1>1, <1>2, <1>3, <1>4, <1>5, <1>6, <1>7, <1>8, <1>9, <1>10, <1>11,
       <1>12, <1>13, <1>14, <1>15, <1>16, <1>17, <1>18, <1>19, <1>20, <1>21,
       <1>22, <1>23, <1>24, <1>25, <1>26, <1>27, <1>28, <1>29, <1>30, <1>31,
       <1>32, <1>33, <1>34, <1>35, <1>36, <1>37, <1>38, <1>39, <1>40, <1>41,
       <1>42, <1>43, <1>44, <1>45, <1>46, <1>47, <1>48, <1>49, <1>50, <1>51,
       <1>52, <1>53, <1>54
       DEF Next, Recover, Setup, Directive, Task

-----------------------------------------------------------------------------
(* The theorems                                                            *)

(* The conjunction of the layers is preserved by every step.               *)
LEMMA InductiveStep == InductiveInvariant /\ [Next]_vars => InductiveInvariant'
  BY TypeStep, OnceStep, EvidenceStep, KeptStep, OwnershipStep, UnreportedStep,
     ProvenanceStep
  DEF InductiveInvariant, ExecutedOnce, Evidence, Kept

(* InductiveInvariant holds in every reachable state of the command lane,  *)
(* for any sets of executions and leases and any capacity.                 *)
THEOREM InvariantHolds == Spec => []InductiveInvariant
  <1>1. Init => InductiveInvariant
    BY TypeInit, OnceInit, EvidenceInit, KeptInit, OwnershipInit,
       UnreportedInit, ProvenanceInit
    DEF InductiveInvariant, ExecutedOnce, Evidence, Kept
  <1>. QED
    BY <1>1, InductiveStep, PTL DEF Spec

(* Type correctness of the command lane.                                   *)
THEOREM TypesHold == Spec => []TypeOK
  <1>1. InductiveInvariant => TypeOK
    BY DEF InductiveInvariant, WellFormed
  <1>. QED
    BY <1>1, InvariantHolds, PTL

(* accept_execute starts the command of an execution at most once, across  *)
(* any number of redeliveries, reconnects and restarts.                    *)
THEOREM ExecutesAtMostOnce == Spec => []AtMostOneExecution
  <1>1. InductiveInvariant => AtMostOneExecution
    BY DEF InductiveInvariant
  <1>. QED
    BY <1>1, InvariantHolds, PTL

(* Wherever a result claims confirmed cleanup, the sandbox is gone.        *)
THEOREM EvidenceIsSound == Spec => []CleanupEvidence
  <1>1. InductiveInvariant => CleanupEvidence
    BY DEF InductiveInvariant
  <1>. QED
    BY <1>1, InvariantHolds, PTL

(* result_accepted and recovery settle a row only when the controller      *)
(* holds an outcome: no outcome is lost.                                   *)
THEOREM NoOutcomeIsLost == Spec => []OutcomeKept
  <1>1. InductiveInvariant => OutcomeKept
    BY DEF InductiveInvariant
  <1>. QED
    BY <1>1, InvariantHolds, PTL

(* No step of a handler, a task or recovery unsettles a settled row.       *)
LEMMA SettledStep ==
    ASSUME InductiveInvariant, InductiveInvariant', [Next]_vars, NEW x \in Exec, Settled(x)
    PROVE  Settled(x)'
  <1> USE DEF InductiveInvariant, WellFormed, TypeOK, CurOK, Handling, TransportState,
              Freshness, Recorded, SettingUp, Ownership, Writing, Settled,
              durable, memory, transport, observer
  <1>1. CASE Connect
    BY <1>1 DEF Connect, Unfinished
  <1>2. CASE Disconnect
    BY <1>2 DEF Disconnect, Fail, DropConnection
  <1>3. CASE Crash
    BY <1>3 DEF Crash
  <1>4. CASE Restart
    BY <1>4 DEF Restart, Sweepable
  <1>5. CASE JournalFault
    BY <1>5 DEF JournalFault, Fail, DropConnection
  <1>6. ASSUME NEW e \in Exec, RecoverPick(e) PROVE Settled(x)'
    BY <1>6 DEF RecoverPick
  <1>7. CASE RecoverSkipActive
    BY <1>7 DEF RecoverSkipActive, Skip
  <1>8. CASE RecoverReplay
    BY <1>8 DEF RecoverReplay, Skip
  <1>9. CASE RecoverBranch
    BY <1>9 DEF RecoverBranch
  <1>10. CASE RecoverReclaim
    BY <1>10 DEF RecoverReclaim
  <1>11. CASE RecoverConfirm
    BY <1>11 DEF RecoverConfirm, Skip, SetState
  <1>12. CASE RecoverStop
    BY <1>12 DEF RecoverStop, SetState
  <1>13. CASE RecoverCleanup
    BY <1>13 DEF RecoverCleanup
  <1>14. CASE RecoverCleanupFails
    BY <1>14 DEF RecoverCleanupFails, Fail, DropConnection
  <1>15. CASE RecoverPersist
    BY <1>15 DEF RecoverPersist, SetTerminal
  <1>16. CASE RecoverPublish
    BY <1>16 DEF RecoverPublish, Skip
  <1>17. CASE RecoverDone
    BY <1>17 DEF RecoverDone, Resent
  <1>18. CASE Heartbeat
    BY <1>18 DEF Heartbeat, Resent
  <1>19. CASE Drain
    BY <1>19 DEF Drain
  <1>20. ASSUME NEW e \in Exec, NEW l \in Lease, RefuseExecute(e, l) PROVE Settled(x)'
    BY <1>20 DEF RefuseExecute, Fail, DropConnection
  <1>21. ASSUME NEW e \in Exec, NEW l \in Lease, DuplicateExecute(e, l) PROVE Settled(x)'
    BY <1>21 DEF DuplicateExecute
  <1>22. ASSUME NEW e \in Exec, NEW l \in Lease, NewExecute(e, l) PROVE Settled(x)'
    BY <1>22 DEF NewExecute, RecordIntent
  <1>23. CASE Admit
    BY <1>23 DEF Admit, SetState
  <1>24. CASE CapacityExhausted
    BY <1>24 DEF CapacityExhausted, Fail, DropConnection
  <1>25. ASSUME NEW s \in AttemptState, SetupFailure(s) PROVE Settled(x)'
    BY <1>25 DEF SetupFailure, SetupResult, SetTerminal
  <1>26. CASE Prepare
    BY <1>26 DEF Prepare
  <1>27. CASE RecordPrepared
    BY <1>27 DEF RecordPrepared, SetState
  <1>28. CASE Spawn
    BY <1>28 DEF Spawn, SetState
  <1>29. ASSUME NEW e \in Exec, TaskStart(e) PROVE Settled(x)'
    BY <1>29 DEF TaskStart
  <1>30. ASSUME NEW e \in Exec, NEW s \in AttemptState, TaskExecuted(e, s) PROVE Settled(x)'
    BY <1>30 DEF TaskExecuted, ExecuteOutput, ExecuteError
  <1>31. ASSUME NEW e \in Exec, TaskCleanup(e) PROVE Settled(x)'
    BY <1>31 DEF TaskCleanup
  <1>32. ASSUME NEW e \in Exec, TaskCleanupFails(e) PROVE Settled(x)'
    BY <1>32 DEF TaskCleanupFails
  <1>33. ASSUME NEW e \in Exec, TaskRecordCleanup(e) PROVE Settled(x)'
    <2>1. CASE journal' = SetState(journal, e, "CLEANUP_REQUIRED", TRUE)
      BY <1>33, <2>1 DEF TaskRecordCleanup, SetState
    <2>2. CASE UNCHANGED journal
      BY <2>2
    <2>. QED
      BY <1>33, <2>1, <2>2 DEF TaskRecordCleanup
  <1>34. ASSUME NEW e \in Exec, TaskPersist(e) PROVE Settled(x)'
    BY <1>34 DEF TaskPersist, SetTerminal
  <1>35. ASSUME NEW e \in Exec, TaskPersistFails(e) PROVE Settled(x)'
    <2>1. CASE UNCHANGED journal
      BY <1>35, <2>1 DEF TaskPersistFails
    <2>2. CASE journal' = SetTerminal(journal, e, result[e])
      BY <1>35, <2>2 DEF TaskPersistFails, SetTerminal
    <2>. QED
      BY <1>35, <2>1, <2>2 DEF TaskPersistFails
  <1>36. ASSUME NEW e \in Exec, TaskRetire(e) PROVE Settled(x)'
    BY <1>36 DEF TaskRetire
  <1>37. ASSUME NEW e \in Exec, TaskPublish(e) PROVE Settled(x)'
    BY <1>37 DEF TaskPublish
  <1>38. ASSUME NEW e \in Exec, TaskSend(e) PROVE Settled(x)'
    BY <1>38 DEF TaskSend
  <1>39. ASSUME NEW e \in Exec, RefuseAck(e) PROVE Settled(x)'
    BY <1>39 DEF RefuseAck, Fail, DropConnection
  <1>40. ASSUME NEW e \in Exec, AckReclaimFails(e) PROVE Settled(x)'
    BY <1>40 DEF AckReclaimFails, Fail, DropConnection
  <1>41. ASSUME NEW e \in Exec, AckReported(e) PROVE Settled(x)'
    BY <1>41 DEF AckReported, AckArrives, SetState
  <1>42. CASE AckConfirmed
    BY <1>42 DEF AckConfirmed, SetState
  <1>43. ASSUME NEW e \in Exec, NEW l \in Lease, CancelActive(e, l) PROVE Settled(x)'
    BY <1>43 DEF CancelActive, Stop
  <1>44. ASSUME NEW e \in Exec, NEW l \in Lease, CancelActiveFails(e, l) PROVE Settled(x)'
    BY <1>44 DEF CancelActiveFails, DropConnection
  <1>45. ASSUME NEW e \in Exec, NEW l \in Lease, CancelIdempotent(e, l) PROVE Settled(x)'
    BY <1>45 DEF CancelIdempotent
  <1>46. ASSUME NEW e \in Exec, NEW l \in Lease, RefuseCancel(e, l) PROVE Settled(x)'
    BY <1>46 DEF RefuseCancel, DropConnection
  <1>47. ASSUME NEW e \in Exec, NEW l \in Lease, ReconcileLease(e, l) PROVE Settled(x)'
    BY <1>47 DEF ReconcileLease
  <1>48. ASSUME NEW e \in Exec, NEW l \in Lease, RefuseReconcile(e, l) PROVE Settled(x)'
    BY <1>48 DEF RefuseReconcile, Fail, DropConnection
  <1>49. ASSUME NEW e \in Exec, Watchdog(e) PROVE Settled(x)'
    BY <1>49 DEF Watchdog, Stop
  <1>50. ASSUME NEW e \in Exec, OrphanReclaim(e) PROVE Settled(x)'
    BY <1>50 DEF OrphanReclaim, Sweepable
  <1>51. ASSUME NEW e \in Exec, Expire(e) PROVE Settled(x)'
    BY <1>51 DEF Expire
  <1>52. ASSUME NEW e \in Exec, ControllerStore(e) PROVE Settled(x)'
    BY <1>52 DEF ControllerStore
  <1>53. CASE CheckpointFault
    <2>1. DropConnection /\ UNCHANGED <<backend, expired, active, cancelled, pending, task, result, draining, ctl, revoked, execs>>
      BY <1>53 DEF CheckpointFault
    <2>2. CASE tpc = "preparing"
      <3>1. PICK s \in AttemptState : journal' = SetTerminal(journal, cur, SetupResult(s))
        BY <1>53, <2>2 DEF CheckpointFault, AttemptState
      <3>. QED
        BY <2>1, <2>2, <3>1 DEF SetupResult, SetTerminal, DropConnection
    <2>3. CASE tpc = "recPersist"
      <3>1. journal' = SetTerminal(journal, cur, RecoveredResult)
        BY <1>53, <2>3 DEF CheckpointFault
      <3>. QED
        BY <2>1, <2>3, <3>1 DEF RecoveredResult, SetTerminal, DropConnection
    <2>4. CASE tpc = "prepared"
      <3>1. journal' = SetState(journal, cur, "PREPARED", TRUE)
        BY <1>53, <2>4 DEF CheckpointFault
      <3>. QED
        BY <2>1, <2>4, <3>1 DEF SetState, DropConnection
    <2>5. CASE tpc = "started"
      <3>1. journal' = SetState(journal, cur, "EXECUTING", TRUE)
        BY <1>53, <2>5 DEF CheckpointFault
      <3>. QED
        BY <2>1, <2>5, <3>1 DEF SetState, DropConnection
    <2>6. CASE tpc = "recConfirm"
      <3>1. journal' = SetState(journal, cur, "CLEANUP_CONFIRMED", snap[cur].op)
        BY <1>53, <2>6 DEF CheckpointFault
      <3>. QED
        BY <2>1, <2>6, <3>1 DEF SetState, DropConnection
    <2>7. CASE tpc = "ackReported"
      <3>1. journal' = SetState(journal, cur, "CLEANUP_CONFIRMED", FALSE)
        BY <1>53, <2>7 DEF CheckpointFault
      <3>. QED
        BY <2>1, <2>7, <3>1 DEF SetState, DropConnection
    <2>. QED
      BY <1>53, <2>2, <2>3, <2>4, <2>5, <2>6, <2>7 DEF CheckpointFault
  <1>54. CASE UNCHANGED vars
    BY <1>54 DEF vars
  <1>. QED
    BY <1>1, <1>2, <1>3, <1>4, <1>5, <1>6, <1>7, <1>8, <1>9, <1>10, <1>11,
       <1>12, <1>13, <1>14, <1>15, <1>16, <1>17, <1>18, <1>19, <1>20, <1>21,
       <1>22, <1>23, <1>24, <1>25, <1>26, <1>27, <1>28, <1>29, <1>30, <1>31,
       <1>32, <1>33, <1>34, <1>35, <1>36, <1>37, <1>38, <1>39, <1>40, <1>41,
       <1>42, <1>43, <1>44, <1>45, <1>46, <1>47, <1>48, <1>49, <1>50, <1>51,
       <1>52, <1>53, <1>54
       DEF Next, Recover, Setup, Directive, Task

(* A row that was acknowledged is never unfinished again.                  *)
THEOREM SettledStays == Spec => SettledForGood
  <1>1. InductiveInvariant /\ InductiveInvariant' /\ [Next]_vars
        => [\A e \in Exec : Settled(e) => Settled(e)']_vars
    BY SettledStep
  <1>. QED
    BY <1>1, InvariantHolds, PTL DEF Spec, SettledForGood

-----------------------------------------------------------------------------
(* The contract with the controller                                        *)

(* An outcome says CANCELLED only if the controller cancelled that lease,  *)
(* for any executions, leases and deadlines.                               *)
THEOREM CancellationIsGenuine == Spec => []CancelledByController
  <1>1. InductiveInvariant => CancelledByController
    BY DEF InductiveInvariant, Provenance, CancelledByController
  <1>. QED
    BY <1>1, InvariantHolds, PTL

(* The initial state maps to the initial state of the contract.            *)
LEMMA ContractInit == Init => Contract!Init
  <1> SUFFICES ASSUME Init PROVE Contract!Init
    OBVIOUS
  <1>1. \A x \in Exec : ~Recorded(journal, x) /\ ~Settled(x) /\ ctl[x].state = "NONE"
    BY DEF Init, Recorded, Settled, NoRecords, NoRecord, NoResults, NoResult
  <1>2. execs = [x \in Exec |-> 0]
    BY DEF Init
  <1>. QED
    BY <1>1, <1>2 DEF Contract!Init

(* A step that touches no row, starts no command and stores no outcome is  *)
(* a stutter of the contract.                                              *)
LEMMA Untouched ==
    ASSUME UNCHANGED <<journal, execs, ctl>>
    PROVE  UNCHANGED Contract!vars
  BY DEF Contract!vars, Recorded, Settled

(* A step that updates one row is a stutter, or settles it: an outcome is  *)
(* stored by then, and no step unsettles a row.                            *)
LEMMA RowWrite ==
    ASSUME InductiveInvariant, InductiveInvariant', [Next]_vars, NEW e \in Exec,
           Recorded(journal, e), Recorded(journal, e)',
           \A x \in Exec : x # e => journal'[x] = journal[x],
           UNCHANGED <<execs, ctl>>
    PROVE  [Contract!Next]_Contract!vars
  <1> DEFINE phase(x) == CASE ~Recorded(journal, x) -> "unseen"
                           [] Settled(x) -> "settled"
                           [] OTHER -> "owned"
             phases == [x \in Exec |-> phase(x)]
  <1>1. \A x \in Exec : x # e => phase(x)' = phase(x)
    BY DEF Recorded, Settled
  <1>2. CASE Settled(e)
    <2>1. Settled(e)'
      BY <1>2, SettledStep
    <2>2. phase(e)' = phase(e)
      BY <1>2, <2>1
    <2>3. phases' = phases
      BY <1>1, <2>2
    <2>. QED
      BY <2>3 DEF Contract!vars
  <1>3. CASE ~Settled(e) /\ ~Settled(e)'
    <2>1. phase(e)' = phase(e)
      BY <1>3
    <2>2. phases' = phases
      BY <1>1, <2>1
    <2>. QED
      BY <2>2 DEF Contract!vars
  <1>4. CASE ~Settled(e) /\ Settled(e)'
    <2>1. phase(e) = "owned" /\ phase(e)' = "settled"
      BY <1>4
    <2>2. phases' = [phases EXCEPT ![e] = "settled"]
      BY <1>1, <2>1
    <2>3. ctl[e].state # "NONE"
      <3>1. ctl[e] \in MaybeResult /\ ctl[e] # NoResult
        BY <1>4 DEF InductiveInvariant, WellFormed, TypeOK, OutcomeKept
      <3>2. ctl[e] \in TerminalResult
        BY <3>1, RecordFields
      <3>. QED
        BY <3>2 DEF TerminalResult, AttemptState
    <2>4. Contract!Settle(e)
      BY <2>1, <2>2, <2>3 DEF Contract!Settle
    <2>. QED
      BY <2>4 DEF Contract!Next
  <1>. QED
    BY <1>2, <1>3, <1>4

(* record_intent takes the execution on.                                   *)
LEMMA TakeStep ==
    ASSUME InductiveInvariant, NEW e \in Exec, NEW l \in Lease, NewExecute(e, l)
    PROVE  Contract!Next
  <1> DEFINE phase(x) == CASE ~Recorded(journal, x) -> "unseen"
                           [] Settled(x) -> "settled"
                           [] OTHER -> "owned"
             phases == [x \in Exec |-> phase(x)]
  <1>1. journal \in [Exec -> JournalRecord]
    BY DEF InductiveInvariant, WellFormed, TypeOK
  <1>2. \A x \in Exec : x # e => journal'[x] = journal[x]
    BY <1>1 DEF NewExecute, RecordIntent
  <1>3. \A x \in Exec : x # e => phase(x)' = phase(x)
    BY <1>2 DEF Recorded, Settled
  <1>4. phase(e) = "unseen" /\ phase(e)' = "owned"
    BY <1>1 DEF NewExecute, RecordIntent, Recorded, Settled
  <1>5. phases' = [phases EXCEPT ![e] = "owned"]
    BY <1>3, <1>4
  <1>6. UNCHANGED <<execs, ctl>>
    BY DEF NewExecute, observer
  <1>7. Contract!Take(e)
    BY <1>4, <1>5, <1>6 DEF Contract!Take
  <1>. QED
    BY <1>7 DEF Contract!Next

(* The spawned task starts the command of a row it owns, once, and before  *)
(* anybody was told of an outcome.                                         *)
LEMMA RunStep ==
    ASSUME InductiveInvariant, NEW e \in Exec, TaskStart(e)
    PROVE  Contract!Next
  <1> DEFINE phase(x) == CASE ~Recorded(journal, x) -> "unseen"
                           [] Settled(x) -> "settled"
                           [] OTHER -> "owned"
             phases == [x \in Exec |-> phase(x)]
  <1> USE DEF InductiveInvariant
  <1>1. Writing(e)
    BY DEF TaskStart, Writing
  <1>2. Recorded(journal, e) /\ ~Settled(e) /\ execs[e] = 0 /\ ctl[e] = NoResult
    BY <1>1 DEF TaskStart, Freshness, Fresh, Ownership, NotStarted, Unreported
  <1>3. phase(e) = "owned"
    BY <1>2
  <1>4. UNCHANGED <<journal, ctl>>
    BY DEF TaskStart
  <1>5. phases' = phases
    BY <1>4 DEF Recorded, Settled
  <1>6. execs' = [execs EXCEPT ![e] = 1]
    BY <1>2 DEF TaskStart, WellFormed, TypeOK
  <1>7. Contract!Run(e)
    BY <1>2, <1>3, <1>4, <1>5, <1>6 DEF Contract!Run, NoResult
  <1>. QED
    BY <1>7 DEF Contract!Next

(* The controller concludes an execution the runner still owns with the    *)
(* outcome of a copy on the connection, and success with evidence.         *)
LEMMA ConcludeStep ==
    ASSUME InductiveInvariant, NEW e \in Exec, ControllerStore(e)
    PROVE  Contract!Next
  <1> DEFINE phase(x) == CASE ~Recorded(journal, x) -> "unseen"
                           [] Settled(x) -> "settled"
                           [] OTHER -> "owned"
             phases == [x \in Exec |-> phase(x)]
             outcomes == [x \in Exec |-> ctl[x].state]
  <1> USE DEF InductiveInvariant, WellFormed, TypeOK
  <1>1. PICK r \in wire[e] : ctl' = [ctl EXCEPT ![e] = r]
    BY DEF ControllerStore
  <1>2. r \in TerminalResult
    BY <1>1
  <1>3. r.state \in AttemptState
    BY <1>2 DEF TerminalResult
  <1>4. Recorded(journal, e) /\ ~Settled(e) /\ ctl[e] = NoResult
    BY <1>1 DEF ControllerStore, Freshness, Fresh, OutcomeKept
  <1>5. phase(e) = "owned"
    BY <1>4
  <1>6. UNCHANGED <<journal, execs>>
    BY DEF ControllerStore, durable
  <1>7. phases' = phases
    BY <1>6 DEF Recorded, Settled
  <1>8. outcomes' = [outcomes EXCEPT ![e] = r.state]
    BY <1>1
  <1>9. r.state = "SUCCEEDED" => execs[e] = 1
    <2>1. r.state = "SUCCEEDED" => execs[e] # 0
      BY <1>1 DEF Provenance, Copies
    <2>. QED
      BY <2>1 DEF AtMostOneExecution
  <1>10. Contract!Conclude(e, r.state)
    BY <1>4, <1>5, <1>6, <1>7, <1>8, <1>9 DEF Contract!Conclude, NoResult
  <1>. QED
    BY <1>3, <1>10 DEF Contract!Next

(* Every step of the command lane is a step of the contract or a stutter.  *)
LEMMA ContractStep ==
    InductiveInvariant /\ InductiveInvariant' /\ [Next]_vars
    => [Contract!Next]_Contract!vars
  <1> SUFFICES ASSUME InductiveInvariant, InductiveInvariant', [Next]_vars
               PROVE  [Contract!Next]_Contract!vars
    OBVIOUS
  <1> USE DEF InductiveInvariant, WellFormed, TypeOK, CurOK, Handling, TransportState,
              Freshness, Recorded, durable, memory, transport, observer
  <1>1. CASE Connect
    BY <1>1, Untouched DEF Connect, Unfinished
  <1>2. CASE Disconnect
    BY <1>2, Untouched DEF Disconnect, Fail, DropConnection
  <1>3. CASE Crash
    BY <1>3, Untouched DEF Crash
  <1>4. CASE Restart
    BY <1>4, Untouched DEF Restart
  <1>5. CASE JournalFault
    BY <1>5, Untouched DEF JournalFault, Fail, DropConnection
  <1>6. ASSUME NEW e \in Exec, RecoverPick(e) PROVE [Contract!Next]_Contract!vars
    BY <1>6, Untouched DEF RecoverPick
  <1>7. CASE RecoverSkipActive
    BY <1>7, Untouched DEF RecoverSkipActive, Skip
  <1>8. CASE RecoverReplay
    BY <1>8, Untouched DEF RecoverReplay, Skip
  <1>9. CASE RecoverBranch
    BY <1>9, Untouched DEF RecoverBranch
  <1>10. CASE RecoverReclaim
    BY <1>10, Untouched DEF RecoverReclaim
  <1>11. CASE RecoverConfirm
    BY <1>11, RowWrite DEF RecoverConfirm, SetState
  <1>12. CASE RecoverStop
    BY <1>12, RowWrite DEF RecoverStop, SetState
  <1>13. CASE RecoverCleanup
    BY <1>13, Untouched DEF RecoverCleanup
  <1>14. CASE RecoverCleanupFails
    BY <1>14, Untouched DEF RecoverCleanupFails, Fail, DropConnection
  <1>15. CASE RecoverPersist
    BY <1>15, RowWrite DEF RecoverPersist, SetTerminal
  <1>16. CASE RecoverPublish
    BY <1>16, Untouched DEF RecoverPublish, Skip
  <1>17. CASE RecoverDone
    BY <1>17, Untouched DEF RecoverDone, Resent
  <1>18. CASE Heartbeat
    BY <1>18, Untouched DEF Heartbeat, Resent
  <1>19. CASE Drain
    BY <1>19, Untouched DEF Drain
  <1>20. ASSUME NEW e \in Exec, NEW l \in Lease, RefuseExecute(e, l) PROVE [Contract!Next]_Contract!vars
    BY <1>20, Untouched DEF RefuseExecute, Fail, DropConnection
  <1>21. ASSUME NEW e \in Exec, NEW l \in Lease, DuplicateExecute(e, l) PROVE [Contract!Next]_Contract!vars
    BY <1>21, Untouched DEF DuplicateExecute
  <1>22. ASSUME NEW e \in Exec, NEW l \in Lease, NewExecute(e, l) PROVE [Contract!Next]_Contract!vars
    BY <1>22, TakeStep
  <1>23. CASE Admit
    BY <1>23, RowWrite DEF Admit, SetState
  <1>24. CASE CapacityExhausted
    BY <1>24, Untouched DEF CapacityExhausted, Fail, DropConnection
  <1>25. ASSUME NEW s \in AttemptState, SetupFailure(s) PROVE [Contract!Next]_Contract!vars
    BY <1>25, RowWrite DEF SetupFailure, SetTerminal
  <1>26. CASE Prepare
    BY <1>26, Untouched DEF Prepare
  <1>27. CASE RecordPrepared
    BY <1>27, RowWrite DEF RecordPrepared, SetState
  <1>28. CASE Spawn
    BY <1>28, RowWrite DEF Spawn, SetState
  <1>29. ASSUME NEW e \in Exec, TaskStart(e) PROVE [Contract!Next]_Contract!vars
    BY <1>29, RunStep
  <1>30. ASSUME NEW e \in Exec, NEW s \in AttemptState, TaskExecuted(e, s) PROVE [Contract!Next]_Contract!vars
    BY <1>30, Untouched DEF TaskExecuted, ExecuteOutput, ExecuteError
  <1>31. ASSUME NEW e \in Exec, TaskCleanup(e) PROVE [Contract!Next]_Contract!vars
    BY <1>31, Untouched DEF TaskCleanup
  <1>32. ASSUME NEW e \in Exec, TaskCleanupFails(e) PROVE [Contract!Next]_Contract!vars
    BY <1>32, Untouched DEF TaskCleanupFails
  <1>33. ASSUME NEW e \in Exec, TaskRecordCleanup(e) PROVE [Contract!Next]_Contract!vars
    <2>0. Recorded(journal, e)
      BY <1>33 DEF TaskRecordCleanup, Fresh
    <2>1. CASE journal' = SetState(journal, e, "CLEANUP_REQUIRED", TRUE)
      BY <1>33, <2>0, <2>1, RowWrite DEF TaskRecordCleanup, SetState
    <2>2. CASE UNCHANGED journal
      BY <1>33, <2>2, Untouched DEF TaskRecordCleanup
    <2>. QED
      BY <1>33, <2>1, <2>2 DEF TaskRecordCleanup
  <1>34. ASSUME NEW e \in Exec, TaskPersist(e) PROVE [Contract!Next]_Contract!vars
    <2>1. Recorded(journal, e)
      BY <1>34 DEF TaskPersist, Fresh
    <2>. QED
      BY <1>34, <2>1, RowWrite DEF TaskPersist, SetTerminal
  <1>35. ASSUME NEW e \in Exec, TaskPersistFails(e) PROVE [Contract!Next]_Contract!vars
    <2>0. Recorded(journal, e)
      BY <1>35 DEF TaskPersistFails, Fresh
    <2>1. CASE UNCHANGED journal
      BY <1>35, <2>1, Untouched DEF TaskPersistFails
    <2>2. CASE journal' = SetTerminal(journal, e, result[e])
      BY <1>35, <2>0, <2>2, RowWrite DEF TaskPersistFails, SetTerminal
    <2>. QED
      BY <1>35, <2>1, <2>2 DEF TaskPersistFails
  <1>36. ASSUME NEW e \in Exec, TaskRetire(e) PROVE [Contract!Next]_Contract!vars
    BY <1>36, Untouched DEF TaskRetire
  <1>37. ASSUME NEW e \in Exec, TaskPublish(e) PROVE [Contract!Next]_Contract!vars
    BY <1>37, Untouched DEF TaskPublish
  <1>38. ASSUME NEW e \in Exec, TaskSend(e) PROVE [Contract!Next]_Contract!vars
    BY <1>38, Untouched DEF TaskSend
  <1>39. ASSUME NEW e \in Exec, RefuseAck(e) PROVE [Contract!Next]_Contract!vars
    BY <1>39, Untouched DEF RefuseAck, Fail, DropConnection
  <1>40. ASSUME NEW e \in Exec, AckReclaimFails(e) PROVE [Contract!Next]_Contract!vars
    BY <1>40, Untouched DEF AckReclaimFails, Fail, DropConnection
  <1>41. ASSUME NEW e \in Exec, AckReported(e) PROVE [Contract!Next]_Contract!vars
    BY <1>41, RowWrite DEF AckReported, AckMatches, SetState, Fresh
  <1>42. CASE AckConfirmed
    BY <1>42, RowWrite DEF AckConfirmed, SetState
  <1>43. ASSUME NEW e \in Exec, NEW l \in Lease, CancelActive(e, l) PROVE [Contract!Next]_Contract!vars
    BY <1>43, Untouched DEF CancelActive, Stop
  <1>44. ASSUME NEW e \in Exec, NEW l \in Lease, CancelActiveFails(e, l) PROVE [Contract!Next]_Contract!vars
    BY <1>44, Untouched DEF CancelActiveFails, DropConnection
  <1>45. ASSUME NEW e \in Exec, NEW l \in Lease, CancelIdempotent(e, l) PROVE [Contract!Next]_Contract!vars
    BY <1>45, Untouched DEF CancelIdempotent
  <1>46. ASSUME NEW e \in Exec, NEW l \in Lease, RefuseCancel(e, l) PROVE [Contract!Next]_Contract!vars
    BY <1>46, Untouched DEF RefuseCancel, DropConnection
  <1>47. ASSUME NEW e \in Exec, NEW l \in Lease, ReconcileLease(e, l) PROVE [Contract!Next]_Contract!vars
    BY <1>47, Untouched DEF ReconcileLease
  <1>48. ASSUME NEW e \in Exec, NEW l \in Lease, RefuseReconcile(e, l) PROVE [Contract!Next]_Contract!vars
    BY <1>48, Untouched DEF RefuseReconcile, Fail, DropConnection
  <1>49. ASSUME NEW e \in Exec, Watchdog(e) PROVE [Contract!Next]_Contract!vars
    BY <1>49, Untouched DEF Watchdog, Stop
  <1>50. ASSUME NEW e \in Exec, OrphanReclaim(e) PROVE [Contract!Next]_Contract!vars
    BY <1>50, Untouched DEF OrphanReclaim
  <1>51. ASSUME NEW e \in Exec, Expire(e) PROVE [Contract!Next]_Contract!vars
    BY <1>51, Untouched DEF Expire
  <1>52. ASSUME NEW e \in Exec, ControllerStore(e) PROVE [Contract!Next]_Contract!vars
    BY <1>52, ConcludeStep
  <1>53. CASE CheckpointFault
    <2>1. UNCHANGED <<execs, ctl>>
      BY <1>53 DEF CheckpointFault
    <2>2. cur \in Exec /\ Recorded(journal, cur)
      BY <1>53 DEF CheckpointFault
    <2>3. PICK row : row.state # "ABSENT" /\ journal' = [journal EXCEPT ![cur] = row]
      BY <1>53 DEF CheckpointFault, SetState, SetTerminal
    <2>. QED
      BY <2>1, <2>2, <2>3, RowWrite
  <1>54. CASE UNCHANGED vars
    BY <1>54, Untouched DEF vars
  <1>. QED
    BY <1>1, <1>2, <1>3, <1>4, <1>5, <1>6, <1>7, <1>8, <1>9, <1>10, <1>11,
       <1>12, <1>13, <1>14, <1>15, <1>16, <1>17, <1>18, <1>19, <1>20, <1>21,
       <1>22, <1>23, <1>24, <1>25, <1>26, <1>27, <1>28, <1>29, <1>30, <1>31,
       <1>32, <1>33, <1>34, <1>35, <1>36, <1>37, <1>38, <1>39, <1>40, <1>41,
       <1>42, <1>43, <1>44, <1>45, <1>46, <1>47, <1>48, <1>49, <1>50, <1>51,
       <1>52, <1>53, <1>54
       DEF Next, Recover, Setup, Directive, Task

(* The command lane implements its contract with the controller: for any   *)
(* executions and leases, with crashes, lost connections, redeliveries and *)
(* journal faults, an execution is taken once, started at most once and    *)
(* never after an outcome was reported, concluded once, and forgotten only *)
(* after the controller has its outcome.                                   *)
THEOREM ImplementsContract == Spec => ContractSpec
  BY ContractInit, ContractStep, InvariantHolds, PTL
  DEF Spec, ContractSpec, Contract!Spec

-----------------------------------------------------------------------------
(* Restarts                                                                *)

(* No step of a restarted runner leaves Replaying.                         *)
LEMMA ReplayingStep ==
    ASSUME InductiveInvariant, InductiveInvariant', [Next]_vars,
           NEW x \in Exec, NEW r \in TerminalResult, Replaying(x, r)
    PROVE  Replaying(x, r)'
  <1> USE RecordFields
  <1> USE DEF InductiveInvariant, WellFormed, TypeOK, CurOK, Handling, TransportState,
              Freshness, Fresh, Recorded, SettingUp, Ownership, Recovering, Settled,
              Replaying, NoRecords, NoRecord, durable, memory, transport, observer
  <1>1. CASE Connect
    BY <1>1 DEF Connect, Unfinished
  <1>2. CASE Disconnect
    BY <1>2 DEF Disconnect, Fail, DropConnection
  <1>3. CASE Crash
    BY <1>3 DEF Crash
  <1>4. CASE Restart
    BY <1>4 DEF Restart
  <1>5. CASE JournalFault
    BY <1>5 DEF JournalFault, Fail, DropConnection
  <1>6. ASSUME NEW e \in Exec, RecoverPick(e) PROVE Replaying(x, r)'
    BY <1>6 DEF RecoverPick
  <1>7. CASE RecoverSkipActive
    BY <1>7 DEF RecoverSkipActive, Skip
  <1>8. CASE RecoverReplay
    BY <1>8 DEF RecoverReplay, Skip
  <1>9. CASE RecoverBranch
    BY <1>9 DEF RecoverBranch
  <1>10. CASE RecoverReclaim
    BY <1>10 DEF RecoverReclaim
  <1>11. CASE RecoverConfirm
    BY <1>11 DEF RecoverConfirm, Skip, SetState
  <1>12. CASE RecoverStop
    BY <1>12 DEF RecoverStop, SetState
  <1>13. CASE RecoverCleanup
    BY <1>13 DEF RecoverCleanup
  <1>14. CASE RecoverCleanupFails
    BY <1>14 DEF RecoverCleanupFails, Fail, DropConnection
  <1>15. CASE RecoverPersist
    BY <1>15 DEF RecoverPersist, SetTerminal
  <1>16. CASE RecoverPublish
    BY <1>16 DEF RecoverPublish, Skip
  <1>17. CASE RecoverDone
    BY <1>17 DEF RecoverDone, Resent
  <1>18. CASE Heartbeat
    BY <1>18 DEF Heartbeat, Resent
  <1>19. CASE Drain
    BY <1>19 DEF Drain
  <1>20. ASSUME NEW e \in Exec, NEW l \in Lease, RefuseExecute(e, l) PROVE Replaying(x, r)'
    BY <1>20 DEF RefuseExecute, Fail, DropConnection
  <1>21. ASSUME NEW e \in Exec, NEW l \in Lease, DuplicateExecute(e, l) PROVE Replaying(x, r)'
    BY <1>21 DEF DuplicateExecute
  <1>22. ASSUME NEW e \in Exec, NEW l \in Lease, NewExecute(e, l) PROVE Replaying(x, r)'
    BY <1>22 DEF NewExecute, RecordIntent
  <1>23. CASE Admit
    BY <1>23 DEF Admit, SetState
  <1>24. CASE CapacityExhausted
    BY <1>24 DEF CapacityExhausted, Fail, DropConnection
  <1>25. ASSUME NEW s \in AttemptState, SetupFailure(s) PROVE Replaying(x, r)'
    BY <1>25 DEF SetupFailure, SetTerminal
  <1>26. CASE Prepare
    BY <1>26 DEF Prepare
  <1>27. CASE RecordPrepared
    BY <1>27 DEF RecordPrepared, SetState
  <1>28. CASE Spawn
    BY <1>28 DEF Spawn, SetState
  <1>29. ASSUME NEW e \in Exec, TaskStart(e) PROVE Replaying(x, r)'
    BY <1>29 DEF TaskStart
  <1>30. ASSUME NEW e \in Exec, NEW s \in AttemptState, TaskExecuted(e, s) PROVE Replaying(x, r)'
    BY <1>30 DEF TaskExecuted, ExecuteOutput, ExecuteError
  <1>31. ASSUME NEW e \in Exec, TaskCleanup(e) PROVE Replaying(x, r)'
    BY <1>31 DEF TaskCleanup
  <1>32. ASSUME NEW e \in Exec, TaskCleanupFails(e) PROVE Replaying(x, r)'
    BY <1>32 DEF TaskCleanupFails
  <1>33. ASSUME NEW e \in Exec, TaskRecordCleanup(e) PROVE Replaying(x, r)'
    <2>1. CASE journal' = SetState(journal, e, "CLEANUP_REQUIRED", TRUE)
      BY <1>33, <2>1 DEF TaskRecordCleanup, SetState
    <2>2. CASE UNCHANGED journal
      BY <1>33, <2>2 DEF TaskRecordCleanup
    <2>. QED
      BY <1>33, <2>1, <2>2 DEF TaskRecordCleanup
  <1>34. ASSUME NEW e \in Exec, TaskPersist(e) PROVE Replaying(x, r)'
    BY <1>34 DEF TaskPersist, SetTerminal
  <1>35. ASSUME NEW e \in Exec, TaskPersistFails(e) PROVE Replaying(x, r)'
    <2>1. CASE UNCHANGED journal
      BY <1>35, <2>1 DEF TaskPersistFails
    <2>2. CASE journal' = SetTerminal(journal, e, result[e])
      BY <1>35, <2>2 DEF TaskPersistFails, SetTerminal
    <2>. QED
      BY <1>35, <2>1, <2>2 DEF TaskPersistFails
  <1>36. ASSUME NEW e \in Exec, TaskRetire(e) PROVE Replaying(x, r)'
    BY <1>36 DEF TaskRetire
  <1>37. ASSUME NEW e \in Exec, TaskPublish(e) PROVE Replaying(x, r)'
    BY <1>37 DEF TaskPublish
  <1>38. ASSUME NEW e \in Exec, TaskSend(e) PROVE Replaying(x, r)'
    BY <1>38 DEF TaskSend
  <1>39. ASSUME NEW e \in Exec, RefuseAck(e) PROVE Replaying(x, r)'
    BY <1>39 DEF RefuseAck, Fail, DropConnection
  <1>40. ASSUME NEW e \in Exec, AckReclaimFails(e) PROVE Replaying(x, r)'
    BY <1>40 DEF AckReclaimFails, Fail, DropConnection
  <1>41. ASSUME NEW e \in Exec, AckReported(e) PROVE Replaying(x, r)'
    BY <1>41 DEF AckReported, AckArrives, SetState
  <1>42. CASE AckConfirmed
    BY <1>42 DEF AckConfirmed, SetState
  <1>43. ASSUME NEW e \in Exec, NEW l \in Lease, CancelActive(e, l) PROVE Replaying(x, r)'
    BY <1>43 DEF CancelActive, Stop
  <1>44. ASSUME NEW e \in Exec, NEW l \in Lease, CancelActiveFails(e, l) PROVE Replaying(x, r)'
    BY <1>44 DEF CancelActiveFails, DropConnection
  <1>45. ASSUME NEW e \in Exec, NEW l \in Lease, CancelIdempotent(e, l) PROVE Replaying(x, r)'
    BY <1>45 DEF CancelIdempotent
  <1>46. ASSUME NEW e \in Exec, NEW l \in Lease, RefuseCancel(e, l) PROVE Replaying(x, r)'
    BY <1>46 DEF RefuseCancel, DropConnection
  <1>47. ASSUME NEW e \in Exec, NEW l \in Lease, ReconcileLease(e, l) PROVE Replaying(x, r)'
    BY <1>47 DEF ReconcileLease
  <1>48. ASSUME NEW e \in Exec, NEW l \in Lease, RefuseReconcile(e, l) PROVE Replaying(x, r)'
    BY <1>48 DEF RefuseReconcile, Fail, DropConnection
  <1>49. ASSUME NEW e \in Exec, Watchdog(e) PROVE Replaying(x, r)'
    BY <1>49 DEF Watchdog, Stop
  <1>50. ASSUME NEW e \in Exec, OrphanReclaim(e) PROVE Replaying(x, r)'
    BY <1>50 DEF OrphanReclaim
  <1>51. ASSUME NEW e \in Exec, Expire(e) PROVE Replaying(x, r)'
    BY <1>51 DEF Expire
  <1>52. ASSUME NEW e \in Exec, ControllerStore(e) PROVE Replaying(x, r)'
    BY <1>52 DEF ControllerStore
  <1>53. CASE CheckpointFault
    <2>1. DropConnection /\ UNCHANGED <<backend, expired, active, cancelled, pending, task, result, draining, ctl, revoked, execs>>
      BY <1>53 DEF CheckpointFault
    <2>2. CASE tpc = "preparing"
      <3>1. PICK s \in AttemptState : s \in {"FAILED", "TIMED_OUT", "UNKNOWN"} /\ journal' = SetTerminal(journal, cur, SetupResult(s))
        BY <1>53, <2>2 DEF CheckpointFault, AttemptState
      <3>. QED
        BY <2>1, <2>2, <3>1 DEF SetupResult, SetTerminal, DropConnection
    <2>3. CASE tpc = "recPersist"
      <3>1. journal' = SetTerminal(journal, cur, RecoveredResult)
        BY <1>53, <2>3 DEF CheckpointFault
      <3>. QED
        BY <2>1, <2>3, <3>1 DEF RecoveredResult, SetTerminal, DropConnection
    <2>4. CASE tpc = "prepared"
      <3>1. journal' = SetState(journal, cur, "PREPARED", TRUE)
        BY <1>53, <2>4 DEF CheckpointFault
      <3>. QED
        BY <2>1, <2>4, <3>1 DEF SetState, DropConnection
    <2>5. CASE tpc = "started"
      <3>1. journal' = SetState(journal, cur, "EXECUTING", TRUE)
        BY <1>53, <2>5 DEF CheckpointFault
      <3>. QED
        BY <2>1, <2>5, <3>1 DEF SetState, DropConnection
    <2>6. CASE tpc = "recConfirm"
      <3>1. journal' = SetState(journal, cur, "CLEANUP_CONFIRMED", snap[cur].op)
        BY <1>53, <2>6 DEF CheckpointFault
      <3>. QED
        BY <2>1, <2>6, <3>1 DEF SetState, DropConnection
    <2>7. CASE tpc = "ackReported"
      <3>1. journal' = SetState(journal, cur, "CLEANUP_CONFIRMED", FALSE)
        BY <1>53, <2>7 DEF CheckpointFault
      <3>. QED
        BY <2>1, <2>7, <3>1 DEF SetState, DropConnection
    <2>. QED
      BY <1>53, <2>2, <2>3, <2>4, <2>5, <2>6, <2>7 DEF CheckpointFault
  <1>54. CASE UNCHANGED vars
    BY <1>54 DEF vars
  <1>. QED
    BY <1>1, <1>2, <1>3, <1>4, <1>5, <1>6, <1>7, <1>8, <1>9, <1>10, <1>11,
       <1>12, <1>13, <1>14, <1>15, <1>16, <1>17, <1>18, <1>19, <1>20, <1>21,
       <1>22, <1>23, <1>24, <1>25, <1>26, <1>27, <1>28, <1>29, <1>30, <1>31,
       <1>32, <1>33, <1>34, <1>35, <1>36, <1>37, <1>38, <1>39, <1>40, <1>41,
       <1>42, <1>43, <1>44, <1>45, <1>46, <1>47, <1>48, <1>49, <1>50, <1>51,
       <1>52, <1>53, <1>54
       DEF Next, Recover, Setup, Directive, Task

(* What the journal holds when the process dies is what it holds until the *)
(* outcome has been acknowledged: a restart changes no outcome.            *)
THEOREM RestartKeepsOutcome == Spec => RestartReplays
  <1> SUFFICES ASSUME NEW e \in Exec, NEW r \in TerminalResult
               PROVE  Spec => [](tpc = "dead" /\ journal[e].terminal = r
                                 => [](journal[e].terminal \in {r, NoResult}))
    BY DEF RestartReplays
  <1>1. InductiveInvariant /\ tpc = "dead" /\ journal[e].terminal = r => Replaying(e, r)
    BY RecordFields
    DEF InductiveInvariant, Freshness, Fresh, SettingUp, Recovering, Replaying, Ownership
  <1>2. InductiveInvariant /\ InductiveInvariant' /\ [Next]_vars /\ Replaying(e, r)
        => Replaying(e, r)'
    BY ReplayingStep
  <1>3. Replaying(e, r) => journal[e].terminal \in {r, NoResult}
    BY DEF Replaying
  <1>. QED
    BY <1>1, <1>2, <1>3, InvariantHolds, PTL DEF Spec

=============================================================================
