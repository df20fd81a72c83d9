-------------------------- MODULE RunnerLaneProofs --------------------------
(***************************************************************************)
(* Machine-checked proofs about the runner lane, for any number of         *)
(* schedulers, reconcilers, attempts and faults.  That the task and its    *)
(* fixed action are started once holds for every kind of task; that the    *)
(* result moves the process once, reopens nothing and is not lost holds    *)
(* for every kind but the v1 task with an approval, for which it is false. *)
(***************************************************************************)
EXTENDS RunnerLane, FiniteSetTheorems, SequenceTheorems, TLAPS

-----------------------------------------------------------------------------
(* The inductive invariant.                                                *)

(* A reconciler works on a result that exists, has ended and was not given *)
(* back to the queue.                                                      *)
ItemsExist ==
    \A r \in Reconciler : reconciler[r].pc # "idle" =>
        /\ reconciler[r].item \in DOMAIN attempts
        /\ attempts[reconciler[r].item].state \in Terminal
        /\ ~attempts[reconciler[r].item].safe

(* An attempt given back has not started; at most one attempt of a kind    *)
(* was not given back, and none while the request is in the queue.         *)
Exclusive ==
    /\ \A a \in DOMAIN attempts :
          /\ attempts[a].state = "CREATED" => ~attempts[a].started
          /\ attempts[a].safe => ~attempts[a].started /\ attempts[a].state = "CANCELLED"
    /\ \A a, b \in DOMAIN attempts :
          attempts[a].kind = attempts[b].kind /\ ~attempts[a].safe /\ ~attempts[b].safe
          => a = b
    /\ \A kind \in {"run", "fixed"} : request[kind] # "ATTEMPT_CREATED" =>
          \A a \in DOMAIN attempts : attempts[a].kind = kind => attempts[a].safe

(* An approval is asked for once, by the result that closes the task, and  *)
(* consumed once, by the fixed action it lets through.                     *)
ApprovedOnce ==
    /\ row.status = "A" => approval.state = "none"
    /\ approval.state \in {"none", "REQUESTED"} => request["fixed"] = "none"
    /\ \A a \in DOMAIN attempts : attempts[a].kind = "fixed" => Fixed(a)

LaneInvariant == LaneTypeOK /\ ItemsExist /\ Exclusive /\ ApprovedOnce

(* What is known of the rows: an open task has moved nothing, what has     *)
(* ended cannot be written by a result that is ready, and the marker of a  *)
(* v2 task tells whether its result was applied.                           *)
RowsAgree ==
    /\ row.moves <= 1
    /\ row.status = "A" => row.proc = "A" /\ row.moves = 0 /\ row.marker = "none"
    /\ row.status = "F" => row.ended
    /\ row.proc = "C" => row.moves = 1
    /\ approval.state = "REQUESTED" => row.moves = 0
    /\ ~V2 => approval.state = "none"
    /\ V2 => /\ row.marker \in {"none", "PENDING"} => row.moves = 0
             /\ row.marker = "DONE" => row.moves = 1
             /\ row.marker = "FAILED" => row.proc = "F"

(* What an acknowledged result, or one about to be, has done.              *)
SettledBy(a) ==
    /\ row.status # "A"
    /\ (attempts[a].kind = "fixed" /\ attempts[a].state = "SUCCEEDED")
            => row.moves = 1 \/ row.proc = "F"

AcksFollow ==
    /\ \A a \in DOMAIN attempts : (attempts[a].acked /\ ~attempts[a].safe) =>
          attempts[a].state \in Terminal /\ SettledBy(a)
    /\ \A r \in Reconciler : reconciler[r].pc = "ack" => SettledBy(reconciler[r].item)

(* The kinds of task that are approved at most under the v2 profile.       *)
NoV1Approval == \A s \in Setups : s.profile = "v2" \/ ~s.approval

-----------------------------------------------------------------------------
(* The attempts of the authority.                                          *)

Attempt ==
    [kind : {"run", "fixed"}, started : BOOLEAN, safe : BOOLEAN, acked : BOOLEAN,
     state : {"CREATED", "STARTED"} \cup Terminal]

(* Updating one attempt leaves the others, and the number of attempts.     *)
LEMMA UpdateAttempt ==
    ASSUME NEW s \in Seq(Attempt), NEW a \in DOMAIN s, NEW x \in Attempt
    PROVE  LET t == [s EXCEPT ![a] = x] IN
           /\ t \in Seq(Attempt)
           /\ Len(t) = Len(s)
           /\ DOMAIN t = DOMAIN s
           /\ t[a] = x
           /\ \A b \in DOMAIN s : b # a => t[b] = s[b]
  <1> DEFINE t == [s EXCEPT ![a] = x]
  <1>1. t \in Seq(Attempt) /\ Len(t) = Len(s)
    BY ExceptSeq
  <1>. QED
    BY <1>1

(* A new attempt comes last.                                               *)
LEMMA AppendAttempt ==
    ASSUME NEW s \in Seq(Attempt), NEW x \in Attempt
    PROVE  LET t == Append(s, x) IN
           /\ t \in Seq(Attempt)
           /\ Len(t) = Len(s) + 1
           /\ DOMAIN t = DOMAIN s \cup {Len(s) + 1}
           /\ Len(s) + 1 \notin DOMAIN s
           /\ t[Len(s) + 1] = x
           /\ \A b \in DOMAIN s : t[b] = s[b]
  <1>1. Len(s) \in Nat /\ DOMAIN s = 1..Len(s)
    OBVIOUS
  <1>. QED
    BY <1>1

(* What Start, Report, Reap and Acknowledge leave alone.                   *)
Updates(a) ==
    /\ attempts' \in Seq(Attempt)
    /\ Len(attempts') = Len(attempts)
    /\ DOMAIN attempts' = DOMAIN attempts
    /\ attempts'[a].kind = attempts[a].kind
    /\ \A b \in DOMAIN attempts : b # a => attempts'[b] = attempts[b]

(* The row of an attempt is an attempt.                                    *)
LEMMA AttemptType ==
    ASSUME LaneTypeOK
    PROVE  attempts \in Seq(Attempt) /\ \A a \in DOMAIN attempts : attempts[a] \in Attempt
  <1>1. attempts \in Seq(Attempt)
    BY DEF LaneTypeOK, Attempt
  <1>. QED
    BY <1>1

(* A report that the runner starts.                                        *)
LEMMA StartEffect ==
    ASSUME LaneTypeOK, NEW a \in DOMAIN attempts, Start(a)
    PROVE  /\ Updates(a)
           /\ attempts'[a].state = "STARTED"
           /\ attempts'[a].started
           /\ attempts'[a].safe = attempts[a].safe
           /\ attempts'[a].acked = attempts[a].acked
  <1> DEFINE x == [attempts[a] EXCEPT !.state = "STARTED", !.started = TRUE]
  <1>1. attempts \in Seq(Attempt) /\ attempts[a] \in Attempt
    BY AttemptType
  <1>2. x \in Attempt /\ attempts' = [attempts EXCEPT ![a] = x]
    BY <1>1 DEF Start, Attempt, Terminal
  <1>3. attempts'[a] = x /\ Updates(a)
    <2> HIDE DEF x
    <2>1. attempts'[a] = x
      BY <1>1, <1>2
    <2>2. x.kind = attempts[a].kind
      BY <1>1 DEF Attempt, x
    <2>. QED
      BY <1>1, <1>2, <2>1, <2>2, UpdateAttempt DEF Updates
  <1>. QED
    BY <1>1, <1>3 DEF Attempt

(* A terminal report.                                                      *)
LEMMA ReportEffect ==
    ASSUME LaneTypeOK, NEW a \in DOMAIN attempts, Report(a)
    PROVE  /\ Updates(a)
           /\ attempts'[a].state \in {"SUCCEEDED", "FAILED"}
           /\ attempts'[a].started = attempts[a].started
           /\ attempts'[a].safe = attempts[a].safe
           /\ attempts'[a].acked = attempts[a].acked
  <1>1. attempts \in Seq(Attempt) /\ attempts[a] \in Attempt
    BY AttemptType
  <1>2. PICK state \in {"SUCCEEDED", "FAILED"} :
            attempts' = [attempts EXCEPT ![a] = [@ EXCEPT !.state = state]]
    BY DEF Report
  <1> DEFINE x == [attempts[a] EXCEPT !.state = state]
  <1>3. x \in Attempt /\ attempts' = [attempts EXCEPT ![a] = x]
    BY <1>1, <1>2 DEF Attempt, Terminal
  <1>. QED
    BY <1>1, <1>3, UpdateAttempt DEF Updates, Attempt

(* The reaper gives back what never started, and gives up what started.    *)
LEMMA ReapEffect ==
    ASSUME LaneTypeOK, NEW a \in DOMAIN attempts, Reap(a)
    PROVE  /\ Updates(a)
           /\ attempts'[a].started = attempts[a].started
           /\ \/ /\ attempts[a].state = "CREATED"
                 /\ attempts'[a].state = "CANCELLED"
                 /\ attempts'[a].safe
              \/ /\ attempts[a].state = "STARTED"
                 /\ attempts'[a].state = "UNKNOWN"
                 /\ attempts'[a].safe = attempts[a].safe
                 /\ attempts'[a].acked = attempts[a].acked
                 /\ UNCHANGED request
  <1>1. attempts \in Seq(Attempt) /\ attempts[a] \in Attempt
    BY AttemptType
  <1>2. CASE attempts[a].state = "CREATED"
    <2> DEFINE x == [attempts[a] EXCEPT !.state = "CANCELLED", !.safe = TRUE, !.acked = TRUE]
    <2>1. x \in Attempt /\ attempts' = [attempts EXCEPT ![a] = x]
      BY <1>1, <1>2 DEF Reap, Attempt, Terminal
    <2>. QED
      BY <1>1, <1>2, <2>1, UpdateAttempt DEF Updates, Attempt
  <1>3. CASE attempts[a].state # "CREATED"
    <2> DEFINE x == [attempts[a] EXCEPT !.state = "UNKNOWN"]
    <2>1. x \in Attempt /\ attempts' = [attempts EXCEPT ![a] = x] /\ UNCHANGED request
      BY <1>1, <1>3 DEF Reap, Attempt, Terminal
    <2>2. attempts[a].state = "STARTED"
      BY <1>3 DEF Reap
    <2>. QED
      BY <1>1, <2>1, <2>2, UpdateAttempt DEF Updates, Attempt
  <1>. QED
    BY <1>2, <1>3

(* An acknowledgement only marks the attempt.                              *)
LEMMA AcknowledgeEffect ==
    ASSUME LaneTypeOK, ItemsExist, NEW r \in Reconciler, Acknowledge(r)
    PROVE  LET a == reconciler[r].item IN
           /\ a \in DOMAIN attempts
           /\ Updates(a)
           /\ attempts'[a].acked
           /\ attempts'[a].started = attempts[a].started
           /\ attempts'[a].safe = attempts[a].safe
           /\ attempts'[a].state = attempts[a].state
  <1> DEFINE a == reconciler[r].item
             x == [attempts[a] EXCEPT !.acked = TRUE]
  <1>0. a \in DOMAIN attempts
    BY DEF ItemsExist, Acknowledge
  <1>1. attempts \in Seq(Attempt) /\ attempts[a] \in Attempt
    BY <1>0, AttemptType
  <1>2. x \in Attempt /\ attempts' = [attempts EXCEPT ![a] = x]
    BY <1>1 DEF Acknowledge, Attempt
  <1>. QED
    BY <1>0, <1>1, <1>2, UpdateAttempt DEF Updates, Attempt

(* The authority adds a fresh attempt of the kind.                         *)
LEMMA CreateEffect ==
    ASSUME LaneTypeOK, NEW kind \in {"run", "fixed"}, CreateAttempt(kind)
    PROVE  LET n == Len(attempts) + 1 IN
           /\ attempts' \in Seq(Attempt)
           /\ Len(attempts') = n
           /\ n \in 1..MaxAttempts
           /\ DOMAIN attempts' = DOMAIN attempts \cup {n}
           /\ n \notin DOMAIN attempts
           /\ attempts'[n] = NewAttempt(kind)
           /\ \A b \in DOMAIN attempts : attempts'[b] = attempts[b]
  <1>1. attempts \in Seq(Attempt) /\ Len(attempts) \in Nat
    BY AttemptType
  <1>2. NewAttempt(kind) \in Attempt
    BY DEF NewAttempt, Attempt
  <1>. QED
    BY <1>1, <1>2, AppendAttempt, LaneAssumption DEF CreateAttempt

-----------------------------------------------------------------------------
(* Types                                                                   *)

RowType ==
    [status : {"A", "C", "F"}, linked : BOOLEAN, accepted : 0..MaxAttempts,
     marker : {"none", "PENDING", "DONE", "FAILED"},
     proc : {"A", "W", "C", "F"}, ended : BOOLEAN, moves : Nat]

(* What a result does to a row gives a row.                                *)
LEMMA AppliedType ==
    ASSUME LaneTypeOK, NEW a \in 0..MaxAttempts, NEW evaluates \in BOOLEAN
    PROVE  Applied(a, evaluates) \in RowType
  <1> DEFINE x == [row EXCEPT !.accepted = a]
  <1>1. row \in RowType /\ x \in RowType
    BY DEF LaneTypeOK, RowType
  <1>2. \A y \in RowType : Advance(y) \in RowType /\ Sync(y) \in RowType
    <2> TAKE y \in RowType
    <2>1. Advance(y) \in RowType
      <3>1. (IF setup.last THEN "C" ELSE y.proc) \in {"A", "W", "C", "F"}
        BY DEF RowType
      <3>2. y.moves + 1 \in Nat
        BY DEF RowType
      <3>. QED
        BY <3>1, <3>2 DEF Advance, RowType
    <2>2. Sync(y) \in RowType
      <3>1. (y.ended \/ y.proc \in {"C", "F"}) \in BOOLEAN
        OBVIOUS
      <3>. QED
        BY <3>1 DEF Sync, RowType
    <2>. QED
      BY <2>1, <2>2
  <1>3. \A y \in RowType : RecordFailure(y) \in RowType /\ WaitForApproval(y) \in RowType
    BY DEF RecordFailure, WaitForApproval, RowType
  <1>4. \A y \in RowType : TransitionV2(y, evaluates) \in RowType
    <2> TAKE y \in RowType
    <2>1. [y EXCEPT !.status = "C", !.marker = "DONE", !.proc = "A"] \in RowType
      BY DEF RowType
    <2>. QED
      BY <2>1, <1>2, <1>3 DEF TransitionV2
  <1>5. \A y \in RowType, ok \in BOOLEAN : FinishV1(y, ok) \in RowType
    <2> TAKE y \in RowType, ok \in BOOLEAN
    <2>1. [y EXCEPT !.status = "C"] \in RowType
      BY DEF RowType
    <2>2. [y EXCEPT !.status = "F", !.proc = "F"] \in RowType
      BY DEF RowType
    <2>. QED
      BY <2>1, <2>2, <1>2 DEF FinishV1
  <1>6. \A y \in RowType : FixedAction(y, attempts[a].state, evaluates) \in RowType
    <2> TAKE y \in RowType
    <2>1. [y EXCEPT !.proc = "W"] \in RowType /\ [y EXCEPT !.proc = "F"] \in RowType
      BY DEF RowType
    <2>2. [y EXCEPT !.proc = IF @ = "W" THEN "A" ELSE @] \in RowType
      BY DEF RowType
    <2>. QED
      BY <2>1, <2>2, <1>2, <1>3, <1>4 DEF FixedAction
  <1>. QED
    BY <1>1, <1>3, <1>4, <1>5, <1>6 DEF Applied

(* The initial state is well typed.                                        *)
LEMMA TypeInit == Init => LaneTypeOK /\ ItemsExist
  <1> SUFFICES ASSUME Init PROVE LaneTypeOK /\ ItemsExist
    OBVIOUS
  <1>1. attempts \in Seq(Attempt) /\ Len(attempts) = 0
    BY EmptySeq DEF Init
  <1>2. request \in [{"run", "fixed"} -> {"none", "PENDING_CAPACITY", "ATTEMPT_CREATED"}]
    BY DEF Init
  <1>. QED
    BY <1>1, <1>2, LaneAssumption DEF Init, LaneTypeOK, ItemsExist, Attempt

(* Every step keeps the types, and a reconciler its result.                *)
LEMMA TypeStep == LaneTypeOK /\ ItemsExist /\ [Next]_vars => (LaneTypeOK /\ ItemsExist)'
  <1> SUFFICES ASSUME LaneTypeOK, ItemsExist, [Next]_vars
               PROVE  (LaneTypeOK /\ ItemsExist)'
    OBVIOUS
  <1> USE LaneAssumption
  <1> USE DEF LaneTypeOK, ItemsExist
  <1>1. ASSUME NEW s \in Scheduler, ScheduleClaim(s)
        PROVE  (LaneTypeOK /\ ItemsExist)'
    BY <1>1 DEF ScheduleClaim
  <1>2. ASSUME NEW s \in Scheduler, ScheduleSubmit(s)
        PROVE  (LaneTypeOK /\ ItemsExist)'
    BY <1>2 DEF ScheduleSubmit, Submitted
  <1>3. ASSUME NEW s \in Scheduler, ScheduleFails(s)
        PROVE  (LaneTypeOK /\ ItemsExist)'
    BY <1>3 DEF ScheduleFails, Submitted
  <1>4. ASSUME NEW s \in Scheduler, ScheduleLink(s)
        PROVE  (LaneTypeOK /\ ItemsExist)'
    BY <1>4 DEF ScheduleLink
  <1>5. ASSUME NEW kind \in {"run", "fixed"}, CreateAttempt(kind)
        PROVE  (LaneTypeOK /\ ItemsExist)'
    <2>1. request' \in [{"run", "fixed"} -> {"none", "PENDING_CAPACITY", "ATTEMPT_CREATED"}]
      BY <1>5 DEF CreateAttempt
    <2>2. approval' \in [state : {"none", "REQUESTED", "APPROVED", "REJECTED", "EXPIRED", "CONSUMED"},
                         consumer : 0..MaxAttempts]
      BY <1>5, CreateEffect DEF CreateAttempt
    <2>3. UNCHANGED <<setup, row, scheduler, reconciler, faults>>
      BY <1>5 DEF CreateAttempt
    <2>. QED
      BY <1>5, <2>1, <2>2, <2>3, CreateEffect DEF Attempt
  <1>6. ASSUME NEW a \in DOMAIN attempts, Start(a)
        PROVE  (LaneTypeOK /\ ItemsExist)'
    <2>1. Updates(a) /\ attempts[a].state \notin Terminal
      BY <1>6, StartEffect DEF Start, Terminal
    <2>2. UNCHANGED <<setup, row, approval, scheduler, reconciler, faults>>
      BY <1>6 DEF Start
    <2>3. request' \in [{"run", "fixed"} -> {"none", "PENDING_CAPACITY", "ATTEMPT_CREATED"}]
      BY <1>6 DEF Start
    <2>4. LaneTypeOK'
      BY <2>1, <2>2, <2>3 DEF Updates, Attempt
    <2>5. ItemsExist'
      BY <2>1, <2>2 DEF Updates
    <2>. QED
      BY <2>4, <2>5
  <1>7. ASSUME NEW a \in DOMAIN attempts, Report(a)
        PROVE  (LaneTypeOK /\ ItemsExist)'
    <2>1. Updates(a) /\ attempts[a].state \notin Terminal
      BY <1>7, ReportEffect DEF Report, Terminal
    <2>2. UNCHANGED <<setup, row, approval, scheduler, reconciler, faults>>
      BY <1>7 DEF Report
    <2>3. request' \in [{"run", "fixed"} -> {"none", "PENDING_CAPACITY", "ATTEMPT_CREATED"}]
      BY <1>7 DEF Report
    <2>4. LaneTypeOK'
      BY <2>1, <2>2, <2>3 DEF Updates, Attempt
    <2>5. ItemsExist'
      BY <2>1, <2>2 DEF Updates
    <2>. QED
      BY <2>4, <2>5
  <1>8. ASSUME NEW a \in DOMAIN attempts, Reap(a)
        PROVE  (LaneTypeOK /\ ItemsExist)'
    <2>1. Updates(a) /\ attempts[a].state \notin Terminal
      BY <1>8, ReapEffect DEF Reap, Terminal
    <2>2. UNCHANGED <<setup, row, approval, scheduler, reconciler, faults>>
      BY <1>8 DEF Reap
    <2>3. request' \in [{"run", "fixed"} -> {"none", "PENDING_CAPACITY", "ATTEMPT_CREATED"}]
      BY <1>8 DEF Reap
    <2>4. LaneTypeOK'
      BY <2>1, <2>2, <2>3 DEF Updates, Attempt
    <2>5. ItemsExist'
      BY <2>1, <2>2 DEF Updates
    <2>. QED
      BY <2>4, <2>5
  <1>9. ASSUME NEW r \in Reconciler, NEW a \in DOMAIN attempts, Examine(r, a)
        PROVE  (LaneTypeOK /\ ItemsExist)'
    BY <1>9, AttemptType DEF Examine
  <1>10. ASSUME NEW r \in Reconciler, Reconcile(r)
        PROVE  (LaneTypeOK /\ ItemsExist)'
    <2>1. row' \in RowType
      BY <1>10, AppliedType DEF Reconcile, RowType
    <2>2. UNCHANGED <<setup, request, attempts, scheduler, faults>>
      BY <1>10 DEF Reconcile
    <2>3. approval' \in [state : {"none", "REQUESTED", "APPROVED", "REJECTED", "EXPIRED", "CONSUMED"},
                         consumer : 0..MaxAttempts]
      BY <1>10 DEF Reconcile
    <2>4. PICK pc \in {"idle", "ack"} : reconciler' = [reconciler EXCEPT ![r].pc = pc]
      BY <1>10 DEF Reconcile
    <2>5. LaneTypeOK'
      BY <2>1, <2>2, <2>3, <2>4 DEF RowType
    <2>6. \A q \in Reconciler : /\ reconciler'[q].item = reconciler[q].item
                                /\ reconciler'[q].pc # "idle" => reconciler[q].pc # "idle"
      BY <1>10, <2>4 DEF Reconcile
    <2>7. ItemsExist'
      BY <2>2, <2>6
    <2>. QED
      BY <2>5, <2>7
  <1>11. ASSUME NEW r \in Reconciler, Acknowledge(r)
        PROVE  (LaneTypeOK /\ ItemsExist)'
    <2> DEFINE a == reconciler[r].item
    <2>1. /\ Updates(a)
          /\ attempts'[a].safe = attempts[a].safe
          /\ attempts'[a].state = attempts[a].state
      BY <1>11, AcknowledgeEffect
    <2>2. UNCHANGED <<setup, row, approval, request, scheduler, faults>>
      BY <1>11 DEF Acknowledge
    <2>3. reconciler' \in [Reconciler -> [pc : {"idle", "gated", "ack"}, item : 0..MaxAttempts]]
      BY <1>11 DEF Acknowledge
    <2>4. LaneTypeOK'
      BY <2>1, <2>2, <2>3 DEF Updates, Attempt
    <2>5. \A q \in Reconciler : reconciler'[q].pc # "idle" => reconciler'[q] = reconciler[q]
      BY <1>11 DEF Acknowledge
    <2>6. ItemsExist'
      BY <2>1, <2>3, <2>5 DEF Updates
    <2>. QED
      BY <2>4, <2>6
  <1>12. ASSUME NEW r \in Reconciler, ReconcileFails(r)
        PROVE  (LaneTypeOK /\ ItemsExist)'
    BY <1>12 DEF ReconcileFails
  <1>13. CASE Approve
    BY <1>13 DEF Approve
  <1>14. CASE Refuse
    BY <1>14 DEF Refuse
  <1>15. CASE Cancel
    BY <1>15 DEF Cancel
  <1>16. CASE RestCompletes
    BY <1>16 DEF RestCompletes
  <1>17. CASE UNCHANGED vars
    BY <1>17 DEF vars
  <1>. QED
    BY <1>1, <1>2, <1>3, <1>4, <1>5, <1>6, <1>7, <1>8, <1>9, <1>10,
       <1>11, <1>12, <1>13, <1>14, <1>15, <1>16, <1>17
       DEF Next, SchedulerStep, ReconcilerStep, Authority

-----------------------------------------------------------------------------
(* Started once                                                            *)

(* A result that is applied leaves the task closed.                        *)
LEMMA AppliedCloses ==
    ASSUME LaneTypeOK, ApprovedOnce, NEW a, NEW evaluates \in BOOLEAN,
           Fixed(a) \/ Accepts(a)
    PROVE  Applied(a, evaluates).status # "A"
  <1> DEFINE x == [row EXCEPT !.accepted = a]
  <1>1. Fixed(a) => row.status # "A"
    BY DEF ApprovedOnce, Fixed
  <1>2. CASE Fixed(a)
    BY <1>1, <1>2 DEF Applied, FixedAction, TransitionV2, RecordFailure, Advance, Sync, LaneTypeOK
  <1>3. CASE ~Fixed(a)
    BY <1>3 DEF Applied, TransitionV2, RecordFailure, FinishV1, WaitForApproval, Advance, Sync,
                LaneTypeOK
  <1>. QED
    BY <1>2, <1>3

(* There is no attempt in the initial state.                               *)
LEMMA ExclusiveInit == Init => Exclusive /\ ApprovedOnce
  BY DEF Init, Exclusive, ApprovedOnce

(* Only an attempt that never started is given back, a new one is made     *)
(* only for a request in the queue, and the request of the fixed action    *)
(* enters the queue by the one approval.                                   *)
LEMMA ExclusiveStep ==
    LaneTypeOK /\ ItemsExist /\ LaneTypeOK' /\ Exclusive /\ ApprovedOnce /\ [Next]_vars
    => (Exclusive /\ ApprovedOnce)'
  <1> SUFFICES ASSUME LaneTypeOK, ItemsExist, LaneTypeOK', Exclusive, ApprovedOnce, [Next]_vars
               PROVE  (Exclusive /\ ApprovedOnce)'
    OBVIOUS
  <1> USE DEF Exclusive, ApprovedOnce, Fixed
  <1>1. ASSUME NEW s \in Scheduler, ScheduleClaim(s)
        PROVE  (Exclusive /\ ApprovedOnce)'
    BY <1>1 DEF ScheduleClaim
  <1>2. ASSUME NEW s \in Scheduler, ScheduleSubmit(s)
        PROVE  (Exclusive /\ ApprovedOnce)'
    BY <1>2 DEF ScheduleSubmit, Submitted
  <1>3. ASSUME NEW s \in Scheduler, ScheduleFails(s)
        PROVE  (Exclusive /\ ApprovedOnce)'
    <2>1. UNCHANGED <<row, approval, attempts>>
      BY <1>3 DEF ScheduleFails
    <2>2. \A kind \in {"run", "fixed"} :
              /\ request'[kind] = "ATTEMPT_CREATED" <=> request[kind] = "ATTEMPT_CREATED"
              /\ kind = "fixed" => request'[kind] = request[kind]
      BY <1>3 DEF ScheduleFails, Submitted, LaneTypeOK
    <2>. QED
      BY <2>1, <2>2
  <1>4. ASSUME NEW s \in Scheduler, ScheduleLink(s)
        PROVE  (Exclusive /\ ApprovedOnce)'
    BY <1>4 DEF ScheduleLink
  <1>5. ASSUME NEW kind \in {"run", "fixed"}, CreateAttempt(kind)
        PROVE  (Exclusive /\ ApprovedOnce)'
    <2> DEFINE n == Len(attempts) + 1
    <2>1. /\ DOMAIN attempts' = DOMAIN attempts \cup {n}
          /\ n \notin DOMAIN attempts
          /\ attempts'[n] = NewAttempt(kind)
          /\ \A b \in DOMAIN attempts : attempts'[b] = attempts[b]
      BY <1>5, CreateEffect
    <2>2. /\ request' = [request EXCEPT ![kind] = "ATTEMPT_CREATED"]
          /\ request[kind] = "PENDING_CAPACITY"
          /\ row' = row
      BY <1>5 DEF CreateAttempt
    <2>3. request \in [{"run", "fixed"} -> {"none", "PENDING_CAPACITY", "ATTEMPT_CREATED"}]
      BY DEF LaneTypeOK
    <2>4. kind = "fixed" => approval.state = "APPROVED" /\ approval' = [state |-> "CONSUMED", consumer |-> n]
      BY <1>5 DEF CreateAttempt
    <2>5. kind # "fixed" => approval' = approval
      BY <1>5 DEF CreateAttempt
    <2>6. \A b \in DOMAIN attempts : attempts[b].kind = kind => attempts[b].safe
      BY <2>2
    <2>7. Exclusive'
      BY <2>1, <2>2, <2>3, <2>6 DEF NewAttempt
    <2>8. ApprovedOnce'
      <3>1. CASE kind = "fixed"
        <4>1. \A b \in DOMAIN attempts : attempts[b].kind # "fixed"
          BY <3>1, <2>4
        <4>. QED
          BY <3>1, <4>1, <2>1, <2>2, <2>3, <2>4 DEF NewAttempt
      <3>2. CASE kind = "run"
        BY <3>2, <2>1, <2>2, <2>3, <2>5 DEF NewAttempt
      <3>. QED
        BY <3>1, <3>2
    <2>. QED
      BY <2>7, <2>8
  <1>6. ASSUME NEW a \in DOMAIN attempts, Start(a)
        PROVE  (Exclusive /\ ApprovedOnce)'
    <2>1. /\ Updates(a)
          /\ attempts'[a].state = "STARTED"
          /\ attempts'[a].safe = attempts[a].safe
      BY <1>6, StartEffect
    <2>2. ~attempts[a].safe
      BY <1>6 DEF Start
    <2>. QED
      BY <1>6, <2>1, <2>2 DEF Start, Updates
  <1>7. ASSUME NEW a \in DOMAIN attempts, Report(a)
        PROVE  (Exclusive /\ ApprovedOnce)'
    <2>1. /\ Updates(a)
          /\ attempts'[a].state \in {"SUCCEEDED", "FAILED"}
          /\ attempts'[a].safe = attempts[a].safe
      BY <1>7, ReportEffect
    <2>2. ~attempts[a].safe
      BY <1>7 DEF Report
    <2>. QED
      BY <1>7, <2>1, <2>2 DEF Report, Updates
  <1>8. ASSUME NEW a \in DOMAIN attempts, Reap(a)
        PROVE  (Exclusive /\ ApprovedOnce)'
    <2>1. Updates(a) /\ ~attempts[a].safe
      BY <1>8, ReapEffect DEF Reap
    <2>2. UNCHANGED <<row, approval>>
      BY <1>8 DEF Reap
    <2>3. CASE attempts[a].state = "CREATED"
      <3>1. attempts'[a].state = "CANCELLED" /\ attempts'[a].safe /\ ~attempts'[a].started
        BY <1>8, <2>3, ReapEffect
      <3>2. request' = [request EXCEPT ![attempts[a].kind] = "PENDING_CAPACITY"]
        BY <1>8, <2>3 DEF Reap
      <3>3. request \in [{"run", "fixed"} -> {"none", "PENDING_CAPACITY", "ATTEMPT_CREATED"}]
        BY DEF LaneTypeOK
      <3>4. attempts[a].kind \in {"run", "fixed"}
        BY AttemptType DEF Attempt
      <3>5. request[attempts[a].kind] = "ATTEMPT_CREATED"
        BY <2>1, <3>4
      <3>6. Exclusive'
        BY <2>1, <3>1, <3>2, <3>3, <3>4 DEF Updates
      <3>7. ApprovedOnce'
        BY <2>1, <2>2, <3>2, <3>3, <3>4, <3>5 DEF Updates
      <3>. QED
        BY <3>6, <3>7
    <2>4. CASE attempts[a].state # "CREATED"
      <3>1. /\ attempts'[a].state = "UNKNOWN"
            /\ attempts'[a].safe = attempts[a].safe
            /\ UNCHANGED request
        BY <1>8, <2>4, ReapEffect
      <3>. QED
        BY <2>1, <2>2, <3>1 DEF Updates
    <2>. QED
      BY <2>3, <2>4
  <1>9. ASSUME NEW r \in Reconciler, NEW a \in DOMAIN attempts, Examine(r, a)
        PROVE  (Exclusive /\ ApprovedOnce)'
    BY <1>9 DEF Examine
  <1>10. ASSUME NEW r \in Reconciler, Reconcile(r)
        PROVE  (Exclusive /\ ApprovedOnce)'
    <2>1. UNCHANGED <<request, attempts>>
      BY <1>10 DEF Reconcile
    <2>2. CASE UNCHANGED <<row, approval>>
      BY <2>1, <2>2
    <2>3. CASE ~UNCHANGED <<row, approval>>
      <3> DEFINE a == reconciler[r].item
      <3>1. PICK evaluates \in BOOLEAN : row' = Applied(a, evaluates)
        BY <1>10, <2>3 DEF Reconcile
      <3>2. Fixed(a) \/ Accepts(a)
        BY <1>10, <2>3 DEF Reconcile
      <3>3. row'.status # "A"
        BY <3>1, <3>2, AppliedCloses
      <3>4. CASE approval' = approval
        BY <2>1, <3>3, <3>4
      <3>5. CASE approval' # approval
        <4>1. ~Fixed(a) /\ approval' = [approval EXCEPT !.state = "REQUESTED"]
          BY <1>10, <3>5 DEF Reconcile
        <4>2. approval.state = "none"
          BY <3>2, <4>1 DEF Accepts
        <4>3. approval'.state = "REQUESTED"
          BY <4>1 DEF LaneTypeOK
        <4>4. \A b \in DOMAIN attempts : attempts[b].kind # "fixed"
          BY <4>2
        <4>. QED
          BY <2>1, <3>3, <4>2, <4>3, <4>4
      <3>. QED
        BY <3>4, <3>5
    <2>. QED
      BY <2>2, <2>3
  <1>11. ASSUME NEW r \in Reconciler, Acknowledge(r)
        PROVE  (Exclusive /\ ApprovedOnce)'
    BY <1>11, AcknowledgeEffect DEF Acknowledge, Updates
  <1>12. ASSUME NEW r \in Reconciler, ReconcileFails(r)
        PROVE  (Exclusive /\ ApprovedOnce)'
    BY <1>12 DEF ReconcileFails
  <1>13. CASE Approve
    BY <1>13 DEF Approve
  <1>14. CASE Refuse
    <2>1. UNCHANGED <<request, attempts>>
      BY <1>14 DEF Refuse
    <2>2. approval.state = "REQUESTED" /\ approval'.state \in {"REJECTED", "EXPIRED"}
      BY <1>14 DEF Refuse, LaneTypeOK
    <2>3. row'.status = row.status
      BY <1>14 DEF Refuse, LaneTypeOK
    <2>. QED
      BY <2>1, <2>2, <2>3
  <1>15. CASE Cancel
    BY <1>15 DEF Cancel
  <1>16. CASE RestCompletes
    BY <1>16 DEF RestCompletes
  <1>17. CASE UNCHANGED vars
    BY <1>17 DEF vars
  <1>. QED
    BY <1>1, <1>2, <1>3, <1>4, <1>5, <1>6, <1>7, <1>8, <1>9, <1>10,
       <1>11, <1>12, <1>13, <1>14, <1>15, <1>16, <1>17
       DEF Next, SchedulerStep, ReconcilerStep, Authority

(* The invariant behind StartedOnce.                                       *)
LEMMA InvariantHolds == Spec => []LaneInvariant
  <1>1. Init => LaneInvariant
    BY TypeInit, ExclusiveInit DEF LaneInvariant
  <1>2. LaneInvariant /\ [Next]_vars => LaneInvariant'
    BY TypeStep, ExclusiveStep DEF LaneInvariant
  <1>. QED
    BY <1>1, <1>2, PTL DEF Spec

(* The task and its fixed action are each started on one runner at most,   *)
(* for every kind of task and any number of attempts, schedulers and       *)
(* expired leases.                                                         *)
THEOREM StartsOnce == Spec => []StartedOnce
  <1>1. LaneInvariant => StartedOnce
    <2> SUFFICES ASSUME LaneInvariant, NEW kind \in {"run", "fixed"}
                 PROVE  Cardinality({a \in DOMAIN attempts :
                                        attempts[a].kind = kind /\ attempts[a].started}) <= 1
      BY DEF StartedOnce
    <2> DEFINE S == {a \in DOMAIN attempts : attempts[a].kind = kind /\ attempts[a].started}
    <2>1. \A a, b \in S : a = b
      BY DEF LaneInvariant, Exclusive
    <2>2. CASE S = {}
      BY <2>2, FS_EmptySet
    <2>3. CASE S # {}
      <3>1. PICK a : a \in S
        BY <2>3
      <3>2. S = {a}
        BY <2>1, <3>1
      <3>3. Cardinality(S) = 1
        <4> HIDE DEF S
        <4>. QED
          BY <3>2, FS_Singleton
      <3>. QED
        BY <3>3
    <2>. QED
      BY <2>2, <2>3
  <1>. QED
    BY <1>1, InvariantHolds, PTL

(* The rows of the lane keep their types.                                  *)
THEOREM TypesHold == Spec => []LaneTypeOK
  <1>1. LaneInvariant => LaneTypeOK
    BY DEF LaneInvariant
  <1>. QED
    BY <1>1, InvariantHolds, PTL

-----------------------------------------------------------------------------
(* Moved once, for the kinds of task under NoV1Approval                    *)

(* A row x that a result may leave behind, with the approval then.         *)
Good(x) ==
    /\ x.status # "A"
    /\ x.moves <= 1
    /\ x.status = "F" => x.ended
    /\ x.proc = "C" => x.moves = 1
    /\ V2 => /\ x.marker \in {"none", "PENDING"} => x.moves = 0
             /\ x.marker = "DONE" => x.moves = 1
             /\ x.marker = "FAILED" => x.proc = "F"
    /\ row.proc \in {"C", "F"} => x.proc = row.proc
    /\ row.status = "F" => x.status = "F"
    /\ row.moves = 1 => x.moves = 1

(* What a result that is ready does to the rows: it finds the task open,   *)
(* or waiting with its approval consumed, and leaves it closed, having     *)
(* moved the process at most once.                                         *)
LEMMA AppliedGood ==
    ASSUME LaneInvariant, RowsAgree, V2 \/ ~setup.approval,
           NEW a \in DOMAIN attempts, NEW evaluates \in BOOLEAN,
           Gate(a) = "ready", Fixed(a) \/ Accepts(a)
    PROVE  LET x == Applied(a, evaluates) IN
           /\ Good(x)
           /\ Fixed(a) /\ attempts[a].state = "SUCCEEDED" => x.moves = 1 \/ x.proc = "F"
           /\ (~Fixed(a) /\ attempts[a].state = "SUCCEEDED" /\ setup.approval) => x.moves = 0
  <1> DEFINE x == Applied(a, evaluates)
  <1>0. row \in RowType
    BY DEF LaneInvariant, LaneTypeOK, RowType
  <1>1. CASE ~V2
    <2>1. ~Fixed(a) /\ Accepts(a) /\ ~setup.approval
      BY <1>1 DEF RowsAgree, Fixed
    <2>2. row.status = "A" /\ row.proc = "A" /\ row.moves = 0 /\ row.marker = "none"
      BY <2>1 DEF Accepts, RowsAgree
    <2>3. x = FinishV1([row EXCEPT !.accepted = a], attempts[a].state = "SUCCEEDED")
      BY <1>1, <2>1 DEF Applied
    <2>4. CASE attempts[a].state = "SUCCEEDED"
      <3>1. x = Sync(Advance([row EXCEPT !.accepted = a, !.status = "C"]))
        BY <1>0, <2>3, <2>4 DEF FinishV1, RowType
      <3>2. x.status = "C" /\ x.moves = 1 /\ x.marker = "none" /\ x.proc \in {"A", "C"}
        BY <1>0, <2>2, <3>1 DEF Advance, Sync, RowType
      <3>. QED
        BY <1>1, <2>1, <2>2, <3>2 DEF Good
    <2>5. CASE attempts[a].state # "SUCCEEDED"
      <3>1. x = Sync([row EXCEPT !.accepted = a, !.status = "F", !.proc = "F"])
        BY <1>0, <2>3, <2>5 DEF FinishV1, RowType
      <3>2. x.status = "F" /\ x.moves = 0 /\ x.proc = "F" /\ x.ended
        BY <1>0, <2>2, <3>1 DEF Sync, RowType
      <3>. QED
        BY <1>1, <2>1, <2>2, <2>5, <3>2 DEF Good
    <2>. QED
      BY <2>4, <2>5
  <1>2. CASE V2
    <2>1. row.marker \in {"none", "PENDING"} /\ ParentLive
      BY <1>0, <1>2 DEF Gate, RowType
    <2>2. row.moves = 0 /\ row.proc \in {"A", "W"} /\ ~row.ended /\ row.status # "F"
      BY <1>2, <2>1 DEF ParentLive, RowsAgree
    <2>3. CASE Fixed(a)
      <3>1. row.status # "A"
        BY <2>3 DEF LaneInvariant, ApprovedOnce, Fixed
      <3>2. x = FixedAction(row, attempts[a].state, evaluates)
        BY <2>3 DEF Applied
      <3>. QED
        BY <1>0, <1>2, <2>1, <2>2, <2>3, <3>1, <3>2
        DEF FixedAction, RecordFailure, TransitionV2, Advance, Sync, RowType, Good
    <2>4. CASE ~Fixed(a)
      <3> DEFINE y == [row EXCEPT !.accepted = a]
      <3>1. CASE attempts[a].state = "SUCCEEDED" /\ setup.approval
        <4>1. x = WaitForApproval(y)
          BY <2>4, <3>1 DEF Applied
        <4>. QED
          BY <1>0, <1>2, <2>1, <2>2, <2>4, <4>1 DEF WaitForApproval, RowType, Good
      <3>2. CASE ~(attempts[a].state = "SUCCEEDED" /\ setup.approval)
        <4>1. x = TransitionV2(y, evaluates) \/ x = RecordFailure(y)
          BY <1>2, <2>4, <3>2 DEF Applied
        <4>2. y \in RowType /\ y.moves = 0
          <5>1. attempts \in Seq(Attempt) /\ Len(attempts) <= MaxAttempts
            BY AttemptType DEF LaneInvariant, LaneTypeOK
          <5>2. a \in 0..MaxAttempts
            BY <5>1, LaneAssumption
          <5>. QED
            BY <1>0, <2>2, <5>2 DEF RowType
        <4>3. CASE x = RecordFailure(y)
          <5>1. x.status = "F" /\ x.moves = 0 /\ x.proc = "F" /\ x.ended /\ x.marker = "FAILED"
            BY <4>2, <4>3 DEF RecordFailure, RowType
          <5>. QED
            BY <2>2, <2>4, <3>2, <5>1 DEF Good
        <4>4. CASE x = TransitionV2(y, evaluates) /\ evaluates
          <5>1. x.status = "C" /\ x.moves = 1 /\ x.marker = "DONE" /\ x.proc \in {"A", "C"}
            <6> DEFINE z == [y EXCEPT !.status = "C", !.marker = "DONE", !.proc = "A"]
            <6>1. z \in RowType /\ z.status = "C" /\ z.marker = "DONE" /\ z.proc = "A" /\ z.moves = 0
              BY <4>2 DEF RowType
            <6>2. x = Sync(Advance(z))
              BY <4>4 DEF TransitionV2
            <6>. QED
              BY <6>1, <6>2 DEF Advance, Sync, RowType
          <5>. QED
            BY <2>2, <2>4, <3>2, <5>1 DEF Good
        <4>. QED
          BY <4>1, <4>3, <4>4 DEF TransitionV2
      <3>. QED
        BY <3>1, <3>2
    <2>. QED
      BY <2>3, <2>4
  <1>. QED
    BY <1>1, <1>2

(* What Reconcile does: it applies a good row, or leaves the rows alone.   *)
LEMMA ReconcileEffect ==
    ASSUME LaneInvariant, RowsAgree, V2 \/ ~setup.approval,
           NEW r \in Reconciler, Reconcile(r)
    PROVE  LET a == reconciler[r].item IN
           \/ UNCHANGED <<row, approval>>
           \/ /\ Good(row')
              /\ Fixed(a) /\ attempts[a].state = "SUCCEEDED"
                     => row'.moves = 1 \/ row'.proc = "F"
              /\ \/ approval' = approval /\ approval.state # "REQUESTED"
                 \/ V2 /\ approval'.state = "REQUESTED" /\ row'.moves = 0
              /\ reconciler'[r].pc = "ack"
  <1> DEFINE a == reconciler[r].item
  <1> SUFFICES ASSUME ~UNCHANGED <<row, approval>>
               PROVE  /\ Good(row')
                      /\ Fixed(a) /\ attempts[a].state = "SUCCEEDED"
                             => row'.moves = 1 \/ row'.proc = "F"
                      /\ \/ approval' = approval /\ approval.state # "REQUESTED"
                         \/ V2 /\ approval'.state = "REQUESTED" /\ row'.moves = 0
                      /\ reconciler'[r].pc = "ack"
    OBVIOUS
  <1>1. a \in DOMAIN attempts /\ Gate(a) = "ready" /\ (Fixed(a) \/ Accepts(a))
    BY DEF LaneInvariant, ItemsExist, Reconcile
  <1>2. PICK evaluates \in BOOLEAN : row' = Applied(a, evaluates)
    BY DEF Reconcile
  <1>3. reconciler'[r].pc = "ack"
    BY DEF Reconcile, LaneInvariant, LaneTypeOK
  <1>4. approval.state # "REQUESTED"
    BY <1>1 DEF Fixed, Accepts, LaneInvariant, ApprovedOnce
  <1>5. CASE approval' = approval
    BY <1>1, <1>2, <1>3, <1>4, <1>5, AppliedGood
  <1>6. CASE approval' # approval
    <2>1. ~Fixed(a) /\ attempts[a].state = "SUCCEEDED" /\ setup.approval
      BY <1>6 DEF Reconcile
    <2>2. approval'.state = "REQUESTED"
      BY <1>1, <2>1 DEF Reconcile, LaneInvariant, LaneTypeOK
    <2>. QED
      BY <1>1, <1>2, <1>3, <2>1, <2>2, AppliedGood
  <1>. QED
    BY <1>5, <1>6

(* The kind of task never changes.                                         *)
LEMMA SetupFixed == [Next]_vars => setup' = setup
  BY DEF Next, SchedulerStep, ReconcilerStep, Authority, ScheduleClaim, ScheduleSubmit,
         ScheduleFails, ScheduleLink, CreateAttempt, Start, Report, Reap, Examine, Reconcile,
         Acknowledge, ReconcileFails, Approve, Refuse, Cancel, RestCompletes, vars

(* Under NoV1Approval the task is approved only if it is a v2 task.        *)
LEMMA ApprovalIsV2 == ASSUME NoV1Approval, LaneTypeOK PROVE V2 \/ ~setup.approval
  BY DEF NoV1Approval, LaneTypeOK, V2

(* Nothing has moved in the initial state.                                 *)
LEMMA RowsInit == Init => RowsAgree
  BY DEF Init, RowsAgree

(* Every step keeps the rows in agreement.                                 *)
LEMMA RowsStep ==
    NoV1Approval /\ LaneInvariant /\ LaneInvariant' /\ RowsAgree /\ [Next]_vars => RowsAgree'
  <1> SUFFICES ASSUME NoV1Approval, LaneInvariant, LaneInvariant', RowsAgree, [Next]_vars
               PROVE  RowsAgree'
    OBVIOUS
  <1>a. row \in RowType
    BY DEF LaneInvariant, LaneTypeOK, RowType
  <1>b. V2' = V2
    BY SetupFixed DEF V2
  <1> USE <1>a, <1>b
  <1> USE DEF RowsAgree
  <1>1. ASSUME NEW s \in Scheduler, ScheduleClaim(s)
        PROVE  RowsAgree'
    BY <1>1 DEF ScheduleClaim
  <1>2. ASSUME NEW s \in Scheduler, ScheduleSubmit(s)
        PROVE  RowsAgree'
    BY <1>2 DEF ScheduleSubmit, Submitted
  <1>3. ASSUME NEW s \in Scheduler, ScheduleFails(s)
        PROVE  RowsAgree'
    BY <1>3 DEF ScheduleFails, Submitted
  <1>4. ASSUME NEW s \in Scheduler, ScheduleLink(s)
        PROVE  RowsAgree'
    BY <1>4 DEF ScheduleLink, RowType
  <1>5. ASSUME NEW kind \in {"run", "fixed"}, CreateAttempt(kind)
        PROVE  RowsAgree'
    <2>1. row' = row
      BY <1>5 DEF CreateAttempt
    <2>2. CASE kind = "fixed"
      <3>1. approval.state = "APPROVED" /\ approval'.state = "CONSUMED"
        BY <1>5, <2>2 DEF CreateAttempt
      <3>. QED
        BY <2>1, <3>1
    <2>3. CASE kind = "run"
      BY <1>5, <2>1, <2>3 DEF CreateAttempt
    <2>. QED
      BY <2>2, <2>3
  <1>6. ASSUME NEW a \in DOMAIN attempts, Start(a)
        PROVE  RowsAgree'
    BY <1>6 DEF Start
  <1>7. ASSUME NEW a \in DOMAIN attempts, Report(a)
        PROVE  RowsAgree'
    BY <1>7 DEF Report
  <1>8. ASSUME NEW a \in DOMAIN attempts, Reap(a)
        PROVE  RowsAgree'
    BY <1>8 DEF Reap
  <1>9. ASSUME NEW r \in Reconciler, NEW a \in DOMAIN attempts, Examine(r, a)
        PROVE  RowsAgree'
    BY <1>9 DEF Examine
  <1>10. ASSUME NEW r \in Reconciler, Reconcile(r)
        PROVE  RowsAgree'
    <2>1. V2 \/ ~setup.approval
      BY ApprovalIsV2 DEF LaneInvariant
    <2>2. CASE UNCHANGED <<row, approval>>
      BY <2>2
    <2>3. CASE ~UNCHANGED <<row, approval>>
      <3>1. Good(row')
        BY <1>10, <2>1, <2>3, ReconcileEffect
      <3>2. \/ approval' = approval /\ approval.state # "REQUESTED"
            \/ V2 /\ approval'.state = "REQUESTED" /\ row'.moves = 0
        BY <1>10, <2>1, <2>3, ReconcileEffect
      <3>. QED
        BY <3>1, <3>2 DEF Good
    <2>. QED
      BY <2>2, <2>3
  <1>11. ASSUME NEW r \in Reconciler, Acknowledge(r)
        PROVE  RowsAgree'
    BY <1>11 DEF Acknowledge
  <1>12. ASSUME NEW r \in Reconciler, ReconcileFails(r)
        PROVE  RowsAgree'
    BY <1>12 DEF ReconcileFails
  <1>13. CASE Approve
    <2>1. approval'.state = "APPROVED"
      BY <1>13 DEF Approve, LaneInvariant, LaneTypeOK
    <2>. QED
      BY <1>13, <2>1 DEF Approve
  <1>14. CASE Refuse
    <2>1. approval.state = "REQUESTED" /\ row.status # "A" /\ row.proc # "C"
      BY <1>14 DEF Refuse, LaneInvariant, ApprovedOnce
    <2>2. approval'.state \in {"REJECTED", "EXPIRED"}
      BY <1>14 DEF Refuse, LaneInvariant, LaneTypeOK
    <2>. QED
      BY <1>14, <2>1, <2>2 DEF Refuse, RowType
  <1>15. CASE Cancel
    BY <1>15 DEF Cancel, RowType
  <1>16. CASE RestCompletes
    BY <1>16 DEF RestCompletes, RowType
  <1>17. CASE UNCHANGED vars
    BY <1>17 DEF vars
  <1>. QED
    BY <1>1, <1>2, <1>3, <1>4, <1>5, <1>6, <1>7, <1>8, <1>9, <1>10,
       <1>11, <1>12, <1>13, <1>14, <1>15, <1>16, <1>17
       DEF Next, SchedulerStep, ReconcilerStep, Authority

-----------------------------------------------------------------------------
(* Nothing is reopened, and nothing acknowledged is lost                   *)

(* What has ended stays ended, and what has moved stays moved.             *)
LEMMA ClosedStep ==
    ASSUME NoV1Approval, LaneInvariant, LaneInvariant', RowsAgree, [Next]_vars
    PROVE  /\ row.proc \in {"C", "F"} => row'.proc = row.proc
           /\ row.status = "F" => row'.status = "F"
           /\ row.status # "A" => row'.status # "A"
           /\ row.moves = 1 => row'.moves = 1
  <1> DEFINE Goal == /\ row.proc \in {"C", "F"} => row'.proc = row.proc
                     /\ row.status = "F" => row'.status = "F"
                     /\ row.status # "A" => row'.status # "A"
                     /\ row.moves = 1 => row'.moves = 1
  <1>a. row \in RowType
    BY DEF LaneInvariant, LaneTypeOK, RowType
  <1> USE <1>a
  <1>1. ASSUME NEW s \in Scheduler, ScheduleClaim(s)
        PROVE  Goal
    BY <1>1 DEF ScheduleClaim
  <1>2. ASSUME NEW s \in Scheduler, ScheduleSubmit(s)
        PROVE  Goal
    BY <1>2 DEF ScheduleSubmit, Submitted
  <1>3. ASSUME NEW s \in Scheduler, ScheduleFails(s)
        PROVE  Goal
    BY <1>3 DEF ScheduleFails, Submitted
  <1>4. ASSUME NEW s \in Scheduler, ScheduleLink(s)
        PROVE  Goal
    BY <1>4 DEF ScheduleLink, RowType
  <1>5. ASSUME NEW kind \in {"run", "fixed"}, CreateAttempt(kind)
        PROVE  Goal
    BY <1>5 DEF CreateAttempt
  <1>6. ASSUME NEW a \in DOMAIN attempts, Start(a)
        PROVE  Goal
    BY <1>6 DEF Start
  <1>7. ASSUME NEW a \in DOMAIN attempts, Report(a)
        PROVE  Goal
    BY <1>7 DEF Report
  <1>8. ASSUME NEW a \in DOMAIN attempts, Reap(a)
        PROVE  Goal
    BY <1>8 DEF Reap
  <1>9. ASSUME NEW r \in Reconciler, NEW a \in DOMAIN attempts, Examine(r, a)
        PROVE  Goal
    BY <1>9 DEF Examine
  <1>10. ASSUME NEW r \in Reconciler, Reconcile(r)
        PROVE  Goal
    <2>1. V2 \/ ~setup.approval
      BY ApprovalIsV2 DEF LaneInvariant
    <2>2. CASE UNCHANGED <<row, approval>>
      BY <2>2
    <2>3. CASE ~UNCHANGED <<row, approval>>
      <3>1. Good(row')
        BY <1>10, <2>1, <2>3, ReconcileEffect
      <3>. QED
        BY <3>1 DEF Good
    <2>. QED
      BY <2>2, <2>3
  <1>11. ASSUME NEW r \in Reconciler, Acknowledge(r)
        PROVE  Goal
    BY <1>11 DEF Acknowledge
  <1>12. ASSUME NEW r \in Reconciler, ReconcileFails(r)
        PROVE  Goal
    BY <1>12 DEF ReconcileFails
  <1>13. CASE Approve
    BY <1>13 DEF Approve
  <1>14. CASE Refuse
    <2>1. approval.state = "REQUESTED" /\ row.proc # "C"
      BY <1>14 DEF Refuse, RowsAgree
    <2>. QED
      BY <1>14, <2>1 DEF Refuse, RowType
  <1>15. CASE Cancel
    BY <1>15 DEF Cancel, RowType
  <1>16. CASE RestCompletes
    BY <1>16 DEF RestCompletes, RowType
  <1>17. CASE UNCHANGED vars
    BY <1>17 DEF vars
  <1>. QED
    BY <1>1, <1>2, <1>3, <1>4, <1>5, <1>6, <1>7, <1>8, <1>9, <1>10,
       <1>11, <1>12, <1>13, <1>14, <1>15, <1>16, <1>17
       DEF Next, SchedulerStep, ReconcilerStep, Authority

(* No result is there to acknowledge in the initial state.                 *)
LEMMA AcksInit == Init => AcksFollow
  BY DEF Init, AcksFollow

(* A result the gate calls a replay has been applied.                      *)
LEMMA ReplayIsSettled ==
    ASSUME LaneInvariant, RowsAgree, NEW a \in DOMAIN attempts, Gate(a) = "replay"
    PROVE  SettledBy(a)
  <1>1. V2 /\ row.marker # "none"
    BY DEF Gate
  <1>2. row.status # "A"
    BY <1>1 DEF RowsAgree
  <1>3. CASE attempts[a].kind = "fixed"
    <2>1. Fixed(a)
      BY <1>3 DEF LaneInvariant, ApprovedOnce
    <2>2. row.marker \in {"DONE", "FAILED"}
      BY <1>1, <2>1 DEF Gate
    <2>. QED
      BY <1>1, <1>2, <2>2 DEF RowsAgree, SettledBy
  <1>. QED
    BY <1>2, <1>3 DEF SettledBy

(* Only a result that was applied is acknowledged, and it stays applied.   *)
LEMMA AcksStep ==
    NoV1Approval /\ LaneInvariant /\ LaneInvariant' /\ RowsAgree /\ AcksFollow /\ [Next]_vars
    => AcksFollow'
  <1> SUFFICES ASSUME NoV1Approval, LaneInvariant, LaneInvariant', RowsAgree, AcksFollow,
                      [Next]_vars
               PROVE  AcksFollow'
    OBVIOUS
  <1>a. /\ row.proc \in {"C", "F"} => row'.proc = row.proc
        /\ row.status # "A" => row'.status # "A"
        /\ row.moves = 1 => row'.moves = 1
    BY ClosedStep
  <1>b. ItemsExist /\ reconciler \in [Reconciler -> [pc : {"idle", "gated", "ack"}, item : 0..MaxAttempts]]
    BY DEF LaneInvariant, LaneTypeOK
  <1>c. LaneTypeOK
    BY DEF LaneInvariant
  <1> USE <1>a, <1>b, <1>c
  <1> USE DEF AcksFollow, SettledBy, ItemsExist
  <1>1. ASSUME NEW s \in Scheduler, ScheduleClaim(s)
        PROVE  AcksFollow'
    BY <1>1 DEF ScheduleClaim
  <1>2. ASSUME NEW s \in Scheduler, ScheduleSubmit(s)
        PROVE  AcksFollow'
    BY <1>2 DEF ScheduleSubmit, Submitted
  <1>3. ASSUME NEW s \in Scheduler, ScheduleFails(s)
        PROVE  AcksFollow'
    BY <1>3 DEF ScheduleFails, Submitted
  <1>4. ASSUME NEW s \in Scheduler, ScheduleLink(s)
        PROVE  AcksFollow'
    BY <1>4 DEF ScheduleLink
  <1>5. ASSUME NEW kind \in {"run", "fixed"}, CreateAttempt(kind)
        PROVE  AcksFollow'
    <2> DEFINE n == Len(attempts) + 1
    <2>1. /\ DOMAIN attempts' = DOMAIN attempts \cup {n}
          /\ attempts'[n] = NewAttempt(kind)
          /\ \A b \in DOMAIN attempts : attempts'[b] = attempts[b]
      BY <1>5, CreateEffect
    <2>2. UNCHANGED <<row, reconciler>>
      BY <1>5 DEF CreateAttempt
    <2>. QED
      BY <2>1, <2>2 DEF NewAttempt
  <1>6. ASSUME NEW a \in DOMAIN attempts, Start(a)
        PROVE  AcksFollow'
    <2>1. Updates(a) /\ attempts[a].state \notin Terminal /\ UNCHANGED <<row, reconciler>>
      BY <1>6, StartEffect DEF Start, Terminal
    <2>2. ~attempts'[a].acked \/ attempts'[a].safe
      BY <1>6, <2>1, StartEffect
    <2>. QED
      BY <2>1, <2>2 DEF Updates
  <1>7. ASSUME NEW a \in DOMAIN attempts, Report(a)
        PROVE  AcksFollow'
    <2>1. Updates(a) /\ attempts[a].state \notin Terminal /\ UNCHANGED <<row, reconciler>>
      BY <1>7, ReportEffect DEF Report, Terminal
    <2>2. ~attempts'[a].acked \/ attempts'[a].safe
      BY <1>7, <2>1, ReportEffect
    <2>. QED
      BY <2>1, <2>2 DEF Updates
  <1>8. ASSUME NEW a \in DOMAIN attempts, Reap(a)
        PROVE  AcksFollow'
    <2>1. Updates(a) /\ attempts[a].state \notin Terminal /\ UNCHANGED <<row, reconciler>>
      BY <1>8, ReapEffect DEF Reap, Terminal
    <2>2. ~attempts'[a].acked \/ attempts'[a].safe
      BY <1>8, <2>1, ReapEffect
    <2>. QED
      BY <2>1, <2>2 DEF Updates
  <1>9. ASSUME NEW r \in Reconciler, NEW a \in DOMAIN attempts, Examine(r, a)
        PROVE  AcksFollow'
    <2>1. Gate(a) = "replay" => SettledBy(a)
      BY ReplayIsSettled
    <2>2. UNCHANGED <<row, attempts>>
      BY <1>9 DEF Examine
    <2>3. \A q \in Reconciler : q # r => reconciler'[q] = reconciler[q]
      BY <1>9 DEF Examine
    <2>4. reconciler'[r].pc = "ack" => reconciler'[r].item = a /\ Gate(a) = "replay"
      BY <1>9 DEF Examine
    <2>. QED
      BY <2>1, <2>2, <2>3, <2>4
  <1>10. ASSUME NEW r \in Reconciler, Reconcile(r)
        PROVE  AcksFollow'
    <2> DEFINE b == reconciler[r].item
    <2>1. V2 \/ ~setup.approval
      BY ApprovalIsV2
    <2>2. attempts' = attempts
      BY <1>10 DEF Reconcile
    <2>3. /\ \A q \in Reconciler : q # r => reconciler'[q] = reconciler[q]
          /\ reconciler'[r].item = b
      BY <1>10 DEF Reconcile
    <2>4. b \in DOMAIN attempts
      BY <1>10 DEF Reconcile
    <2>5. reconciler'[r].pc = "ack" => SettledBy(b)'
      <3>1. CASE Gate(b) = "ready" /\ (Fixed(b) \/ Accepts(b))
        <4>1. CASE UNCHANGED <<row, approval>>
          <5>1. PICK evaluates \in BOOLEAN : row = Applied(b, evaluates)
            BY <1>10, <3>1, <4>1 DEF Reconcile
          <5>2. Good(row) /\ (Fixed(b) /\ attempts[b].state = "SUCCEEDED" => row.moves = 1 \/ row.proc = "F")
            BY <2>1, <2>4, <3>1, <5>1, AppliedGood
          <5>3. attempts[b].kind = "fixed" => Fixed(b)
            BY <2>4 DEF LaneInvariant, ApprovedOnce
          <5>. QED
            BY <2>2, <2>3, <4>1, <5>2, <5>3 DEF Good
        <4>2. CASE ~UNCHANGED <<row, approval>>
          <5>1. Good(row') /\ (Fixed(b) /\ attempts[b].state = "SUCCEEDED" => row'.moves = 1 \/ row'.proc = "F")
            BY <1>10, <2>1, <4>2, ReconcileEffect
          <5>2. attempts[b].kind = "fixed" => Fixed(b)
            BY <2>4 DEF LaneInvariant, ApprovedOnce
          <5>. QED
            BY <2>2, <2>3, <5>1, <5>2 DEF Good
        <4>. QED
          BY <4>1, <4>2
      <3>2. CASE ~(Gate(b) = "ready" /\ (Fixed(b) \/ Accepts(b)))
        <4>1. row' = row /\ (reconciler'[r].pc = "ack" => Gate(b) = "replay")
          BY <1>10, <3>2 DEF Reconcile
        <4>2. Gate(b) = "replay" => SettledBy(b)
          BY <2>4, ReplayIsSettled
        <4>. QED
          BY <2>2, <2>3, <4>1, <4>2
      <3>. QED
        BY <3>1, <3>2
    <2>. QED
      BY <2>2, <2>3, <2>5
  <1>11. ASSUME NEW r \in Reconciler, Acknowledge(r)
        PROVE  AcksFollow'
    <2> DEFINE b == reconciler[r].item
    <2>1. /\ b \in DOMAIN attempts
          /\ Updates(b)
          /\ attempts'[b].safe = attempts[b].safe
          /\ attempts'[b].state = attempts[b].state
      BY <1>11, AcknowledgeEffect
    <2>2. row' = row /\ SettledBy(b) /\ attempts[b].state \in Terminal
      BY <1>11 DEF Acknowledge
    <2>3. \A q \in Reconciler : reconciler'[q].pc = "ack" => reconciler'[q] = reconciler[q]
      BY <1>11 DEF Acknowledge
    <2>. QED
      BY <2>1, <2>2, <2>3 DEF Updates
  <1>12. ASSUME NEW r \in Reconciler, ReconcileFails(r)
        PROVE  AcksFollow'
    <2>1. UNCHANGED <<row, attempts>>
      BY <1>12 DEF ReconcileFails
    <2>2. \A q \in Reconciler : reconciler'[q].pc = "ack" => reconciler'[q] = reconciler[q]
      BY <1>12 DEF ReconcileFails
    <2>. QED
      BY <2>1, <2>2
  <1>13. CASE Approve
    BY <1>13 DEF Approve
  <1>14. CASE Refuse
    BY <1>14 DEF Refuse
  <1>15. CASE Cancel
    BY <1>15 DEF Cancel
  <1>16. CASE RestCompletes
    BY <1>16 DEF RestCompletes
  <1>17. CASE UNCHANGED vars
    BY <1>17 DEF vars
  <1>. QED
    BY <1>1, <1>2, <1>3, <1>4, <1>5, <1>6, <1>7, <1>8, <1>9, <1>10,
       <1>11, <1>12, <1>13, <1>14, <1>15, <1>16, <1>17
       DEF Next, SchedulerStep, ReconcilerStep, Authority

(* The rows and the acknowledgements of a task under NoV1Approval.         *)
LEMMA RowsHold == ASSUME NoV1Approval PROVE Spec => [](LaneInvariant /\ RowsAgree /\ AcksFollow)
  <1>1. Init => RowsAgree /\ AcksFollow
    BY RowsInit, AcksInit
  <1>2. LaneInvariant /\ LaneInvariant' /\ RowsAgree /\ AcksFollow /\ [Next]_vars
        => (RowsAgree /\ AcksFollow)'
    BY RowsStep, AcksStep
  <1>. QED
    BY <1>1, <1>2, InvariantHolds, PTL DEF Spec

(* However often and by however many reconcilers a result is reconciled,   *)
(* it moves the process once, unless a v1 task asks for an approval.       *)
THEOREM ResultMovesOnce == ASSUME NoV1Approval PROVE Spec => []MovesOnce
  <1>1. RowsAgree => MovesOnce
    BY DEF RowsAgree, MovesOnce
  <1>. QED
    BY <1>1, RowsHold, PTL

(* An acknowledged result has closed its task, and a fixed action that was *)
(* carried out has moved the process or come after its end.                *)
THEOREM NothingAcknowledgedIsLost == ASSUME NoV1Approval PROVE Spec => []AcknowledgedIsSettled
  <1>1. AcksFollow => AcknowledgedIsSettled
    BY DEF AcksFollow, SettledBy, AcknowledgedIsSettled
  <1>. QED
    BY <1>1, RowsHold, PTL

(* Late results, decisions and links reopen neither a process that has     *)
(* completed or failed nor a task that has failed.                         *)
THEOREM NothingReopens == ASSUME NoV1Approval PROVE Spec => NoReopening
  <1>1. LaneInvariant /\ LaneInvariant' /\ RowsAgree /\ [Next]_vars
        => [/\ row.proc \in {"C", "F"} => row'.proc = row.proc
            /\ row.status = "F" => row'.status = "F"]_vars
    BY ClosedStep
  <1>. QED
    BY <1>1, RowsHold, PTL DEF Spec, NoReopening

=============================================================================
