-------------------------- MODULE HostShapeProofs --------------------------
(***************************************************************************)
(* What the executors promise of a definition in which every step is       *)
(* reached in one way: each step is started once, the join ends as its     *)
(* branches say, and the process ends with its invocation.  A definition   *)
(* with a loop has none of this for free: it starts steps again.           *)
(***************************************************************************)
EXTENDS HostExecutorProofs

IsFork(x) == setup.steps[x].kind = "fork"

-----------------------------------------------------------------------------
(* The invariants.                                                         *)

(* Row t has been followed: it completed, or it is a fork whose own        *)
(* expressions failed after its join had succeeded.                        *)
Passed(d, t) ==
    \/ d.tasks[t].status = "C"
    \/ d.tasks[t].status = "F" /\ IsFork(d.tasks[t].step) /\ d.join = "COMPLETED"

(* Why there is a row for the step of row t: it is the first step, its     *)
(* predecessor is done, its fork has been started, or the join before it   *)
(* has succeeded.                                                          *)
Origin(d, t) ==
    LET x == d.tasks[t].step IN
    \/ x = setup.first
    \/ \E u \in DOMAIN d.tasks :
          /\ ~d.tasks[u].undo
          /\ Passed(d, u)
          /\ \/ ~IsFork(d.tasks[u].step) /\ x = setup.steps[d.tasks[u].step].next
             \/ /\ IsFork(d.tasks[u].step)
                /\ \E i \in DOMAIN setup.steps[d.tasks[u].step].branches :
                      x = setup.steps[d.tasks[u].step].branches[i]
    \/ d.join = "COMPLETED" /\ \E f \in StepName : IsFork(f) /\ x = setup.steps[f].next

Once(d) ==
    \A t, u \in DOMAIN d.tasks :
        (t # u /\ ~d.tasks[t].undo /\ ~d.tasks[u].undo) => d.tasks[t].step # d.tasks[u].step

(* The join begins with the fork's own row, and only there.                *)
ForkFirst(d) ==
    /\ \A t \in DOMAIN d.tasks :
          ~d.tasks[t].undo /\ IsFork(d.tasks[t].step) /\ ~Passed(d, t)
          => d.join = "none"
    /\ d.join # "none" =>
          \E t \in DOMAIN d.tasks : ~d.tasks[t].undo /\ IsFork(d.tasks[t].step)

Undoes(r) == \E x \in StepName : r.step = setup.steps[x].undo

Lineage(d) ==
    /\ Once(d)
    /\ \A t \in DOMAIN d.tasks : ~d.tasks[t].undo => Origin(d, t)
    /\ ForkFirst(d)
    /\ \A t \in DOMAIN d.tasks : d.tasks[t].undo => Undoes(d.tasks[t])

-----------------------------------------------------------------------------
(* A step that is about to be reached has no row yet.                      *)

(* OneWay, of the definition admitted.                                     *)
LEMMA Ways ==
    ASSUME OneWay(setup)
    PROVE  /\ End \notin StepName
           /\ \A x \in StepName : setup.steps[x].next # setup.first
           /\ \A x, y \in StepName :
                 setup.steps[x].next = setup.steps[y].next /\ setup.steps[x].next # End => x = y
           /\ \A f, g \in StepName : IsFork(f) /\ IsFork(g) => f = g
           /\ \A f \in StepName : IsFork(f) =>
                 /\ setup.steps[f].branches # <<>>
                 /\ \A i, j \in DOMAIN setup.steps[f].branches :
                       setup.steps[f].branches[i] = setup.steps[f].branches[j] => i = j
                 /\ \A i \in DOMAIN setup.steps[f].branches :
                       setup.steps[f].branches[i] # setup.first
                 /\ \A i \in DOMAIN setup.steps[f].branches : \A x \in StepName :
                       setup.steps[x].next # setup.steps[f].branches[i]
  BY Zenon DEF OneWay, StepName, IsFork

(* A row is for a step of the definition.                                  *)
LEMMA RowSteps ==
    ASSUME NEW d \in DbType
    PROVE  \A t \in DOMAIN d.tasks : d.tasks[t].step \in StepName
  BY DbRows DEF RowType, StepName

(* The successor of an open task.                                          *)
LEMMA SuccessorIsNew ==
    ASSUME OneWay(setup), NEW d \in DbType, Lineage(d), NEW t \in DOMAIN d.tasks,
           ~d.tasks[t].undo, ~Passed(d, t), ~IsFork(d.tasks[t].step),
           NEW u \in DOMAIN d.tasks, ~d.tasks[u].undo,
           d.tasks[u].step = setup.steps[d.tasks[t].step].next
    PROVE  FALSE
  <1> DEFINE x == d.tasks[t].step
             n == d.tasks[u].step
  <1>1. \A v \in DOMAIN d.tasks : d.tasks[v].step \in StepName
    BY RowSteps
  <1>2. x \in StepName /\ n \in StepName /\ n = setup.steps[x].next /\ n # End
    BY <1>1, Ways
  <1>3. n # setup.first
    BY <1>2, Ways
  <1>4. ASSUME NEW v \in DOMAIN d.tasks, ~d.tasks[v].undo, Passed(d, v),
               n = setup.steps[d.tasks[v].step].next
        PROVE  FALSE
    <2>1. d.tasks[v].step = x
      BY <1>1, <1>2, <1>4, Ways
    <2>2. v = t
      BY <1>4, <2>1 DEF Lineage, Once
    <2>. QED
      BY <1>4, <2>2
  <1>5. ASSUME NEW f \in StepName, IsFork(f), NEW i \in DOMAIN setup.steps[f].branches,
               n = setup.steps[f].branches[i]
        PROVE  FALSE
    BY <1>2, <1>5, Ways
  <1>6. ASSUME NEW f \in StepName, IsFork(f), n = setup.steps[f].next
        PROVE  FALSE
    BY <1>2, <1>6, Ways
  <1>7. Origin(d, u)
    BY DEF Lineage
  <1>. QED
    BY <1>1, <1>3, <1>4, <1>5, <1>6, <1>7 DEF Origin

(* The branches of an open fork.                                           *)
LEMMA BranchIsNew ==
    ASSUME OneWay(setup), NEW d \in DbType, Lineage(d), NEW t \in DOMAIN d.tasks,
           ~d.tasks[t].undo, ~Passed(d, t), IsFork(d.tasks[t].step),
           NEW i \in DOMAIN setup.steps[d.tasks[t].step].branches,
           NEW u \in DOMAIN d.tasks, ~d.tasks[u].undo,
           d.tasks[u].step = setup.steps[d.tasks[t].step].branches[i]
    PROVE  FALSE
  <1> DEFINE f == d.tasks[t].step
             n == d.tasks[u].step
  <1>1. \A v \in DOMAIN d.tasks : d.tasks[v].step \in StepName
    BY RowSteps
  <1>2. f \in StepName /\ IsFork(f) /\ n = setup.steps[f].branches[i]
    BY <1>1
  <1>3. n # setup.first /\ \A x \in StepName : n # setup.steps[x].next
    BY <1>2, Ways
  <1>4. ASSUME NEW v \in DOMAIN d.tasks, ~d.tasks[v].undo, Passed(d, v),
               IsFork(d.tasks[v].step)
        PROVE  FALSE
    <2>1. d.tasks[v].step = f
      BY <1>1, <1>2, <1>4, Ways
    <2>2. v = t
      BY <1>4, <2>1 DEF Lineage, Once
    <2>. QED
      BY <1>4, <2>2
  <1>5. Origin(d, u)
    BY DEF Lineage
  <1>. QED
    BY <1>1, <1>3, <1>4, <1>5 DEF Origin

(* What follows the fork, before the join has succeeded.                   *)
LEMMA JoinedIsNew ==
    ASSUME OneWay(setup), NEW d \in DbType, Lineage(d), d.join # "COMPLETED",
           NEW f \in StepName, IsFork(f),
           NEW u \in DOMAIN d.tasks, ~d.tasks[u].undo,
           d.tasks[u].step = setup.steps[f].next
    PROVE  FALSE
  <1> DEFINE n == d.tasks[u].step
  <1>1. \A v \in DOMAIN d.tasks : d.tasks[v].step \in StepName
    BY RowSteps
  <1>2. n \in StepName /\ n # End /\ n # setup.first
    BY <1>1, Ways
  <1>3. ASSUME NEW v \in DOMAIN d.tasks, ~IsFork(d.tasks[v].step),
               n = setup.steps[d.tasks[v].step].next
        PROVE  FALSE
    BY <1>1, <1>2, <1>3, Ways
  <1>4. ASSUME NEW g \in StepName, IsFork(g), NEW i \in DOMAIN setup.steps[g].branches,
               n = setup.steps[g].branches[i]
        PROVE  FALSE
    BY <1>4, Ways
  <1>5. Origin(d, u)
    BY DEF Lineage
  <1>. QED
    BY <1>1, <1>2, <1>3, <1>4, <1>5 DEF Origin

-----------------------------------------------------------------------------
(* The steps of the invariant.                                             *)

(* Every row of d is still there, for the same step, and passed if it was. *)
Carries(d, e) ==
    /\ DOMAIN d.tasks \subseteq DOMAIN e.tasks
    /\ \A t \in DOMAIN d.tasks :
          /\ e.tasks[t].step = d.tasks[t].step
          /\ e.tasks[t].undo = d.tasks[t].undo
          /\ Passed(d, t) => Passed(e, t)

Fresh(d, e) == DOMAIN e.tasks \ DOMAIN d.tasks

(* The rows of d keep their origin.                                        *)
LEMMA OriginCarries ==
    ASSUME NEW d, NEW e, Lineage(d), Carries(d, e), d.join = "COMPLETED" => e.join = "COMPLETED",
           NEW t \in DOMAIN d.tasks
    PROVE  /\ ~e.tasks[t].undo => Origin(e, t)
           /\ e.tasks[t].undo => Undoes(e.tasks[t])
  <1>1. e.tasks[t].undo => Undoes(e.tasks[t])
    BY DEF Lineage, Carries, Undoes
  <1>2. ASSUME ~e.tasks[t].undo PROVE Origin(e, t)
    <2>1. Origin(d, t) /\ e.tasks[t].step = d.tasks[t].step
      BY <1>2 DEF Lineage, Carries
    <2>2. CASE d.tasks[t].step = setup.first
      BY <2>1, <2>2 DEF Origin
    <2>3. CASE \E u \in DOMAIN d.tasks :
                 /\ ~d.tasks[u].undo
                 /\ Passed(d, u)
                 /\ \/ ~IsFork(d.tasks[u].step) /\ d.tasks[t].step = setup.steps[d.tasks[u].step].next
                    \/ /\ IsFork(d.tasks[u].step)
                       /\ \E i \in DOMAIN setup.steps[d.tasks[u].step].branches :
                             d.tasks[t].step = setup.steps[d.tasks[u].step].branches[i]
      <3>1. PICK u \in DOMAIN d.tasks :
                 /\ ~d.tasks[u].undo
                 /\ Passed(d, u)
                 /\ \/ ~IsFork(d.tasks[u].step) /\ d.tasks[t].step = setup.steps[d.tasks[u].step].next
                    \/ /\ IsFork(d.tasks[u].step)
                       /\ \E i \in DOMAIN setup.steps[d.tasks[u].step].branches :
                             d.tasks[t].step = setup.steps[d.tasks[u].step].branches[i]
        BY <2>3
      <3>2. u \in DOMAIN e.tasks /\ e.tasks[u].step = d.tasks[u].step
            /\ ~e.tasks[u].undo /\ Passed(e, u)
        BY <3>1 DEF Carries
      <3>. QED
        BY <2>1, <3>1, <3>2 DEF Origin
    <2>4. CASE d.join = "COMPLETED" /\ \E f \in StepName : IsFork(f) /\ d.tasks[t].step = setup.steps[f].next
      BY <2>1, <2>4 DEF Origin
    <2>. QED
      BY <2>1, <2>2, <2>3, <2>4 DEF Origin
  <1>. QED
    BY <1>1, <1>2

(* A transaction that adds compensations at most, and may fail the join.   *)
LEMMA LineageSame ==
    ASSUME NEW d, NEW e, Lineage(d), Carries(d, e),
           e.join = d.join \/ (d.join = "RUNNING" /\ e.join = "FAILED"),
           \A t \in Fresh(d, e) : e.tasks[t].undo /\ Undoes(e.tasks[t])
    PROVE  Lineage(e)
  <1>1. \A t \in DOMAIN e.tasks : ~e.tasks[t].undo => t \in DOMAIN d.tasks
    BY DEF Fresh
  <1>2. Once(e)
    BY <1>1 DEF Once, Lineage, Carries
  <1>3. \A t \in DOMAIN e.tasks : ~e.tasks[t].undo => Origin(e, t)
    BY <1>1, OriginCarries
  <1>4. \A t \in DOMAIN e.tasks : e.tasks[t].undo => Undoes(e.tasks[t])
    BY OriginCarries DEF Fresh
  <1>5. ForkFirst(e)
    BY <1>1 DEF ForkFirst, Lineage, Carries
  <1>. QED
    BY <1>2, <1>3, <1>4, <1>5, Zenon DEF Lineage

(* New rows that are no compensations: they are for steps without a row,   *)
(* one each, they have an origin, and if a fork is among them there was    *)
(* none.                                                                   *)
LEMMA LineageGrows ==
    ASSUME OneWay(setup), NEW d \in DbType, NEW e \in DbType, Lineage(d), Carries(d, e),
           d.join = "COMPLETED" => e.join = "COMPLETED",
           \A t \in Fresh(d, e) : ~e.tasks[t].undo /\ Origin(e, t),
           \A t, u \in Fresh(d, e) : t # u => e.tasks[t].step # e.tasks[u].step,
           \A t \in Fresh(d, e) : \A u \in DOMAIN d.tasks :
               ~d.tasks[u].undo => d.tasks[u].step # e.tasks[t].step,
           \A t \in DOMAIN d.tasks :
               ~d.tasks[t].undo /\ IsFork(d.tasks[t].step) /\ ~Passed(e, t)
               => e.join = "none",
           e.join # "none" =>
               \E t \in DOMAIN d.tasks : ~d.tasks[t].undo /\ IsFork(d.tasks[t].step)
    PROVE  Lineage(e)
  <1>1. ASSUME NEW t \in DOMAIN e.tasks, NEW u \in DOMAIN e.tasks, t # u,
               ~e.tasks[t].undo, ~e.tasks[u].undo
        PROVE  e.tasks[t].step # e.tasks[u].step
    <2>1. CASE t \in DOMAIN d.tasks /\ u \in DOMAIN d.tasks
      BY <1>1, <2>1 DEF Lineage, Once, Carries
    <2>2. CASE t \in DOMAIN d.tasks /\ u \in Fresh(d, e)
      BY <1>1, <2>2 DEF Carries
    <2>3. CASE t \in Fresh(d, e) /\ u \in DOMAIN d.tasks
      BY <1>1, <2>3 DEF Carries
    <2>4. CASE t \in Fresh(d, e) /\ u \in Fresh(d, e)
      BY <1>1, <2>4
    <2>. QED
      BY <2>1, <2>2, <2>3, <2>4 DEF Fresh
  <1>u. \A t \in DOMAIN e.tasks : e.tasks[t].undo => Undoes(e.tasks[t])
    BY OriginCarries DEF Fresh
  <1>2. \A t \in DOMAIN e.tasks : ~e.tasks[t].undo => Origin(e, t)
    BY OriginCarries DEF Fresh
  <1>3. ASSUME NEW t \in DOMAIN e.tasks, ~e.tasks[t].undo, IsFork(e.tasks[t].step),
               ~Passed(e, t)
        PROVE  e.join = "none"
    <2>1. CASE t \in DOMAIN d.tasks
      BY <1>3, <2>1 DEF Carries
    <2>2. CASE t \in Fresh(d, e)
      <3> SUFFICES ASSUME e.join # "none" PROVE FALSE
        OBVIOUS
      <3>1. PICK u \in DOMAIN d.tasks : ~d.tasks[u].undo /\ IsFork(d.tasks[u].step)
        OBVIOUS
      <3>2. d.tasks[u].step \in StepName /\ e.tasks[t].step \in StepName
        BY RowSteps DEF Fresh
      <3>3. d.tasks[u].step = e.tasks[t].step
        BY <1>3, <3>1, <3>2, Ways
      <3>. QED
        BY <2>2, <3>1, <3>3
    <2>. QED
      BY <2>1, <2>2 DEF Fresh
  <1>4. e.join # "none" =>
            \E t \in DOMAIN e.tasks : ~e.tasks[t].undo /\ IsFork(e.tasks[t].step)
    BY DEF Carries
  <1>5. Once(e)
    BY <1>1 DEF Once
  <1>6. ForkFirst(e)
    BY <1>3, <1>4 DEF ForkFirst
  <1>. QED
    BY <1>u, <1>2, <1>5, <1>6, Zenon DEF Lineage

-----------------------------------------------------------------------------
(* The transactions that conclude no task.                                 *)

(* The join, the rows and their branches are as they were.                 *)
SameBranches(d, e) ==
    /\ e.join = d.join
    /\ DOMAIN e.tasks = DOMAIN d.tasks
    /\ \A t \in DOMAIN d.tasks : e.tasks[t].branch = d.tasks[t].branch

(* They are, and compensations may follow.                                 *)
Calm(d, e) ==
    /\ e.join = d.join
    /\ DOMAIN d.tasks \subseteq DOMAIN e.tasks
    /\ \A t \in DOMAIN d.tasks : e.tasks[t].branch = d.tasks[t].branch
    /\ \A t \in Fresh(d, e) :
          e.tasks[t].undo /\ e.tasks[t].branch = "none" /\ Undoes(e.tasks[t])

(* The process and the invocation end together or not at all.              *)
Tells(e) ==
    \/ /\ e.state \in Terminal <=> db.state \in Terminal
       /\ Ended(e.proc) <=> Ended(db.proc)
    \/ e.state \in Terminal /\ Ended(e.proc)

(* No compensation sleeps.                                                 *)
Awake == \A t \in DOMAIN db.tasks : db.tasks[t].undo => Task(t).kind # "wait"

(* The operators the transactions are made of.                             *)
LEMMA ClosedBranch ==
    ASSUME NEW r \in RowType, NEW s \in {"A", "W", "C", "F"}
    PROVE  Closed(r, s).branch = r.branch
  BY DEF Closed, RowType

(* A row is written, its branch apart.                                     *)
LEMMA WriteKeeps ==
    ASSUME NEW d \in DbType, NEW t \in DOMAIN d.tasks, NEW r \in RowType,
           r.branch = d.tasks[t].branch
    PROVE  LET e == [d EXCEPT !.tasks[t] = r] IN
           e \in DbType /\ SameBranches(d, e) /\ FieldsKept(d, e)
  <1> DEFINE e == [d EXCEPT !.tasks[t] = r]
  <1>1. e \in DbType /\ OthersKept(d, e, t) /\ FieldsKept(d, e) /\ e.tasks[t] = r
    BY WriteRow
  <1> HIDE DEF e
  <1>2. SameBranches(d, e)
    BY <1>1 DEF SameBranches, OthersKept, FieldsKept
  <1>. QED
    BY <1>1, <1>2 DEF e

(* A row is closed.                                                        *)
LEMMA CloseKeeps ==
    ASSUME NEW d \in DbType, NEW t \in DOMAIN d.tasks, NEW s \in {"A", "W", "C", "F"}
    PROVE  LET e == CloseRow(d, t, s) IN
           e \in DbType /\ SameBranches(d, e) /\ FieldsKept(d, e)
  <1>1. d.tasks[t] \in RowType
    BY DbRows
  <1>2. Closed(d.tasks[t], s) \in RowType /\ Closed(d.tasks[t], s).branch = d.tasks[t].branch
    BY <1>1, ClosedType, ClosedBranch
  <1>3. CloseRow(d, t, s) = [d EXCEPT !.tasks[t] = Closed(d.tasks[t], s)]
    BY DEF CloseRow
  <1>. QED
    BY <1>2, <1>3, WriteKeeps

(* Several rows are closed.                                                *)
LEMMA CloseRowsKeeps ==
    ASSUME NEW d \in DbType, NEW T, NEW s \in {"A", "W", "C", "F"}
    PROVE  LET e == CloseRows(d, T, s) IN
           e \in DbType /\ SameBranches(d, e) /\ FieldsKept(d, e)
  <1> DEFINE e  == CloseRows(d, T, s)
             ts == [t \in DOMAIN d.tasks |->
                      IF t \in T THEN Closed(d.tasks[t], s) ELSE d.tasks[t]]
  <1>1. e \in DbType /\ FieldsKept(d, e)
    BY CloseRowsEffect
  <1>2. \A t \in DOMAIN d.tasks : Closed(d.tasks[t], s).branch = d.tasks[t].branch
    BY DbRows, ClosedBranch
  <1>3. e.tasks = ts
    BY DEF CloseRows, DbType
  <1>4. DOMAIN ts = DOMAIN d.tasks /\ \A t \in DOMAIN d.tasks : ts[t].branch = d.tasks[t].branch
    BY <1>2
  <1> HIDE DEF e, ts
  <1>5. SameBranches(d, e)
    BY <1>1, <1>3, <1>4 DEF SameBranches, FieldsKept
  <1>. QED
    BY <1>1, <1>5 DEF e

(* The invocation moves, if it may.                                        *)
LEMMA MoveKeeps ==
    ASSUME NEW d \in DbType, NEW from, NEW to \in InvocationState
    PROVE  LET e == MoveInvocation(d, from, to) IN
           /\ e \in DbType /\ e.tasks = d.tasks /\ e.join = d.join /\ e.proc = d.proc
           /\ e.state = IF d.state \in from THEN to ELSE d.state
  BY DEF MoveInvocation, DbType, InvocationState

(* The process fails, if it has not ended.                                 *)
LEMMA FailKeeps ==
    ASSUME NEW d \in DbType
    PROVE  LET e == FailProcess(d) IN
           /\ e \in DbType /\ e.tasks = d.tasks /\ e.join = d.join /\ e.state = d.state
           /\ Ended(e.proc)
  BY DEF FailProcess, DbType, Ended

(* Only rows and fields other than the join differ.                        *)
LEMMA SameTasks ==
    ASSUME NEW d, NEW c, NEW e, SameBranches(d, c), e.tasks = c.tasks, e.join = c.join
    PROVE  SameBranches(d, e)
  BY DEF SameBranches

(* A transaction without new rows is calm.                                 *)
LEMMA SameIsCalm ==
    ASSUME NEW d, NEW e, SameBranches(d, e)
    PROVE  Calm(d, e)
  BY DEF SameBranches, Calm, Fresh

(* durable_timer::stop and fail_invocation_budget.                         *)
LEMMA StopShape ==
    ASSUME db \in DbType, NEW t \in DOMAIN db.tasks
    PROVE  /\ SameBranches(db, Stop(db, t)) /\ SameBranches(db, FailBudget(db, t))
           /\ db.state # "COMPENSATING" => Tells(Stop(db, t))
           /\ Tells(FailBudget(db, t))
  <1> DEFINE c == CloseRow(db, t, "F")
             f == FailProcess(c)
  <1>1. c \in DbType /\ SameBranches(db, c) /\ FieldsKept(db, c)
    BY CloseKeeps
  <1> HIDE DEF c
  <1>2. f \in DbType /\ f.tasks = c.tasks /\ f.join = c.join /\ f.state = db.state
        /\ Ended(f.proc)
    BY <1>1, FailKeeps DEF FieldsKept
  <1> HIDE DEF f
  <1>3. "FAILED" \in InvocationState
    BY DEF InvocationState, Terminal
  <1>4. ASSUME NEW from, from = Live \/ from = Live \cup {"COMPENSATING"}
        PROVE  LET e == MoveInvocation(f, from, "FAILED") IN
               /\ SameBranches(db, e) /\ Ended(e.proc)
               /\ e.state = IF db.state \in from THEN "FAILED" ELSE db.state
    <2> DEFINE e == MoveInvocation(f, from, "FAILED")
    <2>1. /\ e.tasks = f.tasks /\ e.join = f.join /\ e.proc = f.proc
          /\ e.state = IF db.state \in from THEN "FAILED" ELSE db.state
      BY <1>2, <1>3, MoveKeeps
    <2> HIDE DEF e
    <2>2. SameBranches(db, e) /\ Ended(e.proc)
      BY <1>1, <1>2, <2>1, SameTasks
    <2>. QED
      BY <2>1, <2>2 DEF e
  <1>5. db.state \in Live \cup Terminal \cup {"COMPENSATING"}
    BY DEF DbType
  <1>6. Stop(db, t) = MoveInvocation(f, Live, "FAILED")
        /\ FailBudget(db, t) = MoveInvocation(f, Live \cup {"COMPENSATING"}, "FAILED")
    BY DEF Stop, FailBudget, f, c
  <1>. QED
    BY <1>4, <1>5, <1>6 DEF Tells, Terminal

(* What an executor's transaction says of the process, the timers apart.   *)
Quieted(e) == SameBranches(db, e) /\ (Awake => Tells(e))

(* The marks of an effect, on the ledger, the task and the invocation.     *)
LEMMA EffectShape ==
    ASSUME Typed, NEW w \in Worker,
           \/ ClaimLedger(w) \/ MarkTask(w) \/ MarkInvocation(w)
           \/ ConfirmLedger(w) \/ ConfirmTask(w) \/ ConfirmInvocation(w)
    PROVE  Quieted(db')
  <1>1. db \in DbType
    BY DEF Typed
  <1>2. CASE ClaimLedger(w) \/ MarkInvocation(w) \/ ConfirmLedger(w) \/ ConfirmInvocation(w)
    <2>1. db'.tasks = db.tasks /\ db'.join = db.join /\ db'.state = db.state /\ db'.proc = db.proc
      BY <1>1, <1>2 DEF ClaimLedger, MarkInvocation, ConfirmLedger, ConfirmInvocation, DbType
    <2>. QED
      BY <2>1 DEF Quieted, SameBranches, Tells
  <1>3. CASE MarkTask(w) \/ ConfirmTask(w)
    <2>1. worker[w].pc # "idle"
      BY <1>3 DEF MarkTask, ConfirmTask, At
    <2>2. worker[w].task \in DOMAIN db.tasks /\ Row(w) \in RowType
      BY <2>1, BusyRow
    <2>3. PICK x \in {"none", "possible", "confirmed"} :
              db' = [db EXCEPT !.tasks[worker[w].task].effect = x]
      BY <1>3 DEF MarkTask, ConfirmTask
    <2> DEFINE r == [Row(w) EXCEPT !.effect = x]
    <2>4. db' = [db EXCEPT !.tasks[worker[w].task] = r]
      BY <2>3 DEF Row
    <2>5. r \in RowType /\ r.branch = db.tasks[worker[w].task].branch
      BY <2>2 DEF RowType, Row
    <2> HIDE DEF r
    <2>6. SameBranches(db, db') /\ FieldsKept(db, db')
      BY <1>1, <2>2, <2>4, <2>5, WriteKeeps
    <2>. QED
      BY <2>6 DEF Quieted, FieldsKept, Tells
  <1>. QED
    BY <1>2, <1>3

(* A task is claimed.                                                      *)
LEMMA ClaimShape ==
    ASSUME Typed, NEW w \in Worker, Claim(w)
    PROVE  Quieted(db')
  <1>1. PICK t \in DOMAIN db.tasks :
          db' = MoveInvocation(
                      [db EXCEPT !.tasks[t] =
                          [db.tasks[t] EXCEPT !.owner = w, !.fence = db.tasks[t].fence + 1,
                                              !.lapsed = FALSE]],
                      {"ACCEPTED"}, "RUNNING")
    BY DEF Claim
  <1> DEFINE q == [db.tasks[t] EXCEPT !.owner = w, !.fence = db.tasks[t].fence + 1,
                                      !.lapsed = FALSE]
             c == [db EXCEPT !.tasks[t] = q]
  <1>2. db \in DbType /\ db.tasks[t] \in RowType
    BY DbRows DEF Typed
  <1>3. q \in RowType /\ q.branch = db.tasks[t].branch
    BY <1>2, ClaimedRow
  <1> HIDE DEF q
  <1>4. c \in DbType /\ SameBranches(db, c) /\ FieldsKept(db, c)
    BY <1>2, <1>3, WriteKeeps
  <1>5. db' = MoveInvocation(c, {"ACCEPTED"}, "RUNNING")
    BY <1>1 DEF q
  <1> HIDE DEF c
  <1>6. "RUNNING" \in InvocationState
    BY DEF InvocationState, Live
  <1>7. /\ db'.tasks = c.tasks /\ db'.join = c.join /\ db'.proc = c.proc
        /\ db'.state = IF c.state \in {"ACCEPTED"} THEN "RUNNING" ELSE c.state
    BY <1>4, <1>5, <1>6, MoveKeeps
  <1>8. SameBranches(db, db')
    BY <1>4, <1>7, SameTasks
  <1>9. Tells(db')
    BY <1>4, <1>7 DEF Tells, Terminal, FieldsKept
  <1>. QED
    BY <1>8, <1>9 DEF Quieted

(* A wait is no compensation.                                              *)
LEMMA WaitShape ==
    ASSUME Typed, Orderly, Evidence, NEW w \in Worker, FinishWait(w)
    PROVE  Quieted(db')
  <1> DEFINE t == worker[w].task
             q == [Closed(Row(w), "W") EXCEPT !.timer = "ARMED"]
             p == IF db.proc = "A" THEN "W" ELSE db.proc
             c == [db EXCEPT !.tasks[t] = q]
             f == [c EXCEPT !.proc = p]
             e == MoveInvocation(f, Live, "WAITING")
  <1>1. Holds(w) /\ worker[w].pc = "finishing" /\ worker[w].out = "WAIT"
    BY DEF FinishWait, Authority, At
  <1>2. /\ t \in DOMAIN db.tasks /\ Row(w) \in RowType /\ Row(w).status = "A"
        /\ Row(w).undo \/ db.state # "COMPENSATING"
    BY <1>1, HeldRow
  <1>3. db \in DbType /\ Row(w) = db.tasks[t]
    BY DEF Typed, Row
  <1>4. db' = IF ParentLive THEN e ELSE Stop(db, t)
    BY <1>3 DEF FinishWait, Finished, DbType
  <1>5. CASE ~ParentLive
    <2>1. Kind(w) = "wait"
      BY <1>1 DEF Evidence, ExecutorEvidence
    <2>2. Awake => db.state # "COMPENSATING"
      BY <1>2, <1>3, <2>1 DEF Awake, Kind, Task, Row
    <2>. QED
      BY <1>2, <1>3, <1>4, <1>5, <2>2, StopShape DEF Quieted
  <1>6. CASE ParentLive
    <2>1. Closed(Row(w), "W") \in RowType /\ Closed(Row(w), "W").branch = Row(w).branch
      BY <1>2, ClosedType, ClosedBranch
    <2>2. q \in RowType /\ q.branch = db.tasks[t].branch
      BY <1>3, <2>1 DEF RowType
    <2> HIDE DEF q
    <2>3. c \in DbType /\ SameBranches(db, c) /\ FieldsKept(db, c)
      BY <1>2, <1>3, <2>2, WriteKeeps
    <2> HIDE DEF c
    <2>4. p \in {"A", "W", "C", "F"} /\ (Ended(p) <=> Ended(db.proc))
      BY <1>3 DEF DbType, Ended
    <2> HIDE DEF p
    <2>5. f \in DbType /\ f.tasks = c.tasks /\ f.join = c.join /\ f.state = c.state /\ f.proc = p
      BY <2>3, <2>4 DEF DbType
    <2> HIDE DEF f
    <2>6. "WAITING" \in InvocationState
      BY DEF InvocationState, Live
    <2>7. /\ e.tasks = f.tasks /\ e.join = f.join /\ e.proc = f.proc
          /\ e.state = IF f.state \in Live THEN "WAITING" ELSE f.state
      BY <2>5, <2>6, MoveKeeps
    <2> HIDE DEF e
    <2>8. SameBranches(db, e)
      BY <2>3, <2>5, <2>7, SameTasks
    <2>9. Tells(e)
      BY <2>3, <2>4, <2>5, <2>7 DEF Tells, Terminal, FieldsKept, Live
    <2>. QED
      BY <1>4, <1>6, <2>8, <2>9 DEF Quieted
  <1>. QED
    BY <1>5, <1>6

(* A task goes back for its next attempt.                                  *)
LEMMA RetryShape ==
    ASSUME Typed, Orderly, NEW w \in Worker, FinishRetry(w)
    PROVE  Quieted(db')
  <1> DEFINE t    == worker[w].task
             a    == Closed(Row(w), "A")
             q    == [a EXCEPT !.attempt = a.attempt + 1]
             c    == [db EXCEPT !.tasks[t] = q]
             from == IF Row(w).undo THEN Live ELSE Live \cup {"COMPENSATING"}
             e    == MoveInvocation(c, from, "RUNNING")
  <1>1. Holds(w)
    BY DEF FinishRetry, Authority
  <1>2. t \in DOMAIN db.tasks /\ Row(w) \in RowType
    BY <1>1, HeldRow
  <1>3. db \in DbType /\ Row(w) = db.tasks[t]
    BY DEF Typed, Row
  <1>4. db' = e
    BY DEF FinishRetry, Finished
  <1>5. a \in RowType /\ a.branch = Row(w).branch
    BY <1>2, ClosedType, ClosedBranch
  <1> HIDE DEF a
  <1>6. q \in RowType /\ q.branch = db.tasks[t].branch
    BY <1>3, <1>5 DEF RowType
  <1> HIDE DEF q
  <1>7. c \in DbType /\ SameBranches(db, c) /\ FieldsKept(db, c)
    BY <1>2, <1>3, <1>6, WriteKeeps
  <1> HIDE DEF c
  <1>8. "RUNNING" \in InvocationState
    BY DEF InvocationState, Live
  <1>9. /\ e.tasks = c.tasks /\ e.join = c.join /\ e.proc = c.proc
        /\ e.state = IF c.state \in from THEN "RUNNING" ELSE c.state
    BY <1>7, <1>8, MoveKeeps
  <1> HIDE DEF e
  <1>10. SameBranches(db, e)
    BY <1>7, <1>9, SameTasks
  <1>11. Tells(e)
    BY <1>7, <1>9 DEF Tells, Terminal, FieldsKept, Live
  <1>. QED
    BY <1>4, <1>10, <1>11 DEF Quieted

(* reconcile_compensation_task ends the process with the invocation.       *)
LEMMA UndoShape ==
    ASSUME Typed, Orderly, NEW w \in Worker, FinishUndoFailed(w) \/ FinishUndoCommit(w)
    PROVE  Quieted(db')
  <1> DEFINE t == worker[w].task
  <1>1. t \in DOMAIN db.tasks /\ db.tasks[t].undo
    <2>1. CASE FinishUndoFailed(w)
      <3>1. Holds(w) /\ Row(w).undo
        BY <2>1 DEF FinishUndoFailed, Authority
      <3>. QED
        BY <3>1, HeldRow DEF Row
    <2>2. CASE FinishUndoCommit(w)
      BY <2>2 DEF FinishUndoCommit, At, Typed, Orderly, Row
    <2>. QED
      BY <2>1, <2>2
  <1>2. db \in DbType
    BY DEF Typed
  <1>3. db.state \in Terminal \cup {"COMPENSATING"}
    BY <1>1, <1>2 DEF Orderly, DbType
  <1>4. ASSUME NEW s \in {"C", "F"}, NEW to \in {"FAILED", "CANCELLED"}
        PROVE  /\ Quieted([MoveInvocation(CloseRow(db, t, s), {"COMPENSATING"}, to)
                              EXCEPT !.proc = "F"])
               /\ Quieted(CloseRow(db, t, s))
    <2> DEFINE c == CloseRow(db, t, s)
               f == MoveInvocation(c, {"COMPENSATING"}, to)
               e == [f EXCEPT !.proc = "F"]
    <2>1. c \in DbType /\ SameBranches(db, c) /\ FieldsKept(db, c)
      BY <1>1, <1>2, CloseKeeps
    <2> HIDE DEF c
    <2>2. to \in InvocationState
      BY DEF InvocationState, Terminal
    <2>3. /\ f \in DbType /\ f.tasks = c.tasks /\ f.join = c.join
          /\ f.state = IF c.state \in {"COMPENSATING"} THEN to ELSE c.state
      BY <2>1, <2>2, MoveKeeps
    <2> HIDE DEF f
    <2>4. e.tasks = f.tasks /\ e.join = f.join /\ e.state = f.state /\ e.proc = "F"
      BY <2>3 DEF DbType
    <2> HIDE DEF e
    <2>5. SameBranches(db, e)
      BY <2>1, <2>3, <2>4, SameTasks
    <2>6. e.state \in Terminal /\ Ended(e.proc)
      BY <1>3, <2>1, <2>3, <2>4 DEF Terminal, Ended, FieldsKept
    <2>7. Quieted(e)
      BY <2>5, <2>6 DEF Quieted, Tells
    <2>8. Quieted(c)
      BY <2>1 DEF Quieted, Tells, FieldsKept
    <2>. QED
      BY <2>7, <2>8 DEF e, f, c
  <1>5. CASE FinishUndoFailed(w)
    BY <1>4, <1>5 DEF FinishUndoFailed, Finished
  <1>6. CASE FinishUndoCommit(w)
    BY <1>4, <1>6 DEF FinishUndoCommit, Finished
  <1>. QED
    BY <1>5, <1>6

(* A lease lapses.                                                         *)
LEMMA LapseShape ==
    ASSUME Typed, NEW t \in DOMAIN db.tasks, db' = [db EXCEPT !.tasks[t].lapsed = TRUE]
    PROVE  Quieted(db')
  <1> DEFINE r == [db.tasks[t] EXCEPT !.lapsed = TRUE]
  <1>1. db \in DbType /\ db.tasks[t] \in RowType
    BY DbRows DEF Typed
  <1>2. r \in RowType /\ r.branch = db.tasks[t].branch
    BY <1>1 DEF RowType
  <1>3. db' = [db EXCEPT !.tasks[t] = r]
    OBVIOUS
  <1> DEFINE e == [db EXCEPT !.tasks[t] = r]
  <1> HIDE DEF r
  <1>4. SameBranches(db, e) /\ FieldsKept(db, e)
    BY <1>1, <1>2, WriteKeeps
  <1>5. db' = e
    BY <1>3
  <1> HIDE DEF e
  <1>. QED
    BY <1>4, <1>5 DEF Quieted, Tells, FieldsKept

(* Every step of an executor but the one that concludes a task.            *)
LEMMA ExecutorShape ==
    ASSUME Typed, Orderly, Evidence, NEW w \in Worker, Step(w) \/ Fault(w), ~FinishTask(w)
    PROVE  Quieted(db')
  <1>1. db \in DbType /\ Quieted(db)
    BY DEF Typed, Quieted, SameBranches, Tells
  <1>2. CASE \/ ClaimLedger(w) \/ MarkTask(w) \/ MarkInvocation(w)
             \/ ConfirmLedger(w) \/ ConfirmTask(w) \/ ConfirmInvocation(w)
    BY <1>2, EffectShape
  <1>3. CASE ReserveRefused(w)
    <2>1. CASE Holds(w)
      <3>1. worker[w].task \in DOMAIN db.tasks /\ db' = FailBudget(db, worker[w].task)
        BY <1>3, <2>1 DEF Holds, ReserveRefused
      <3>. QED
        BY <1>1, <3>1, StopShape DEF Quieted
    <2>2. CASE ~Holds(w)
      BY <1>1, <1>3, <2>2 DEF ReserveRefused
    <2>. QED
      BY <2>1, <2>2
  <1>4. CASE FinishWait(w) \/ FinishRetry(w) \/ FinishUndoFailed(w) \/ FinishUndoCommit(w)
    BY <1>4, WaitShape, RetryShape, UndoShape
  <1>5. CASE Defer(w)
    <2>1. CASE Holds(w)
      <3>1. worker[w].task \in DOMAIN db.tasks /\ db' = CloseRow(db, worker[w].task, "A")
        BY <1>5, <2>1 DEF Holds, Defer
      <3>2. SameBranches(db, db') /\ FieldsKept(db, db')
        BY <1>1, <3>1, CloseKeeps
      <3>. QED
        BY <3>2 DEF Quieted, Tells, FieldsKept
    <2>2. CASE ~Holds(w)
      BY <1>1, <1>5, <2>2 DEF Defer
    <2>. QED
      BY <2>1, <2>2
  <1>6. CASE Claim(w)
    BY <1>6, ClaimShape
  <1>7. CASE \/ Reserve(w) \/ RunLocal(w) \/ Fence(w) \/ Send(w) \/ Interrupt(w) \/ Settle(w)
             \/ FinishStale(w) \/ FinishUndoCount(w) \/ GiveUp(w)
    <2>1. db' = db
      BY <1>7 DEF Reserve, RunLocal, Fence, Send, Interrupt, Settle, FinishStale, Finished,
                  FinishUndoCount, GiveUp
    <2>. QED
      BY <1>1, <2>1
  <1>8. CASE LoseLease(w)
    <2>1. worker[w].task \in DOMAIN db.tasks
          /\ db' = [db EXCEPT !.tasks[worker[w].task].lapsed = TRUE]
      BY <1>8 DEF LoseLease, Holds
    <2>. QED
      BY <2>1, LapseShape
  <1>. QED
    BY <1>2, <1>3, <1>4, <1>5, <1>6, <1>7, <1>8 DEF Step, Fault

(* Closing everything, and cancel_invocation.                              *)
LEMMA CloseAllShape ==
    ASSUME Typed, Orderly, Expire \/ (Cancel /\ db.effect = "none")
    PROVE  Quieted(db')
  <1> DEFINE c == CloseRows(db, Open(db), "F")
             f == FailProcess(c)
  <1>1. db \in DbType
    BY DEF Typed
  <1>2. c \in DbType /\ SameBranches(db, c) /\ FieldsKept(db, c)
    BY <1>1, CloseRowsKeeps
  <1> HIDE DEF c
  <1>3. f \in DbType /\ f.tasks = c.tasks /\ f.join = c.join /\ f.state = c.state /\ Ended(f.proc)
    BY <1>2, FailKeeps
  <1> HIDE DEF f
  <1>4. CASE Expire
    <2> DEFINE e == MoveInvocation(f, Live, "FAILED")
    <2>1. db' = e /\ db.state \in Live
      BY <1>4 DEF Expire, f, c
    <2>2. "FAILED" \in InvocationState
      BY DEF InvocationState, Terminal
    <2>3. /\ e.tasks = f.tasks /\ e.join = f.join /\ e.proc = f.proc
          /\ e.state = IF f.state \in Live THEN "FAILED" ELSE f.state
      BY <1>3, <2>2, MoveKeeps
    <2> HIDE DEF e
    <2>4. SameBranches(db, e)
      BY <1>2, <1>3, <2>3, SameTasks
    <2>5. e.state \in Terminal /\ Ended(e.proc)
      BY <1>2, <1>3, <2>1, <2>3 DEF Terminal, FieldsKept
    <2>. QED
      BY <2>1, <2>4, <2>5 DEF Quieted, Tells
  <1>5. CASE Cancel /\ db.effect = "none"
    <2> DEFINE e == [f EXCEPT !.state = "CANCELLED"]
    <2>1. db' = e
      BY <1>5 DEF Cancel, f, c
    <2>2. e.tasks = f.tasks /\ e.join = f.join /\ e.proc = f.proc /\ e.state = "CANCELLED"
      BY <1>3 DEF DbType
    <2> HIDE DEF e
    <2>3. SameBranches(db, e)
      BY <1>2, <1>3, <2>2, SameTasks
    <2>4. e.state \in Terminal /\ Ended(e.proc)
      BY <1>3, <2>2 DEF Terminal
    <2>. QED
      BY <2>1, <2>3, <2>4 DEF Quieted, Tells
  <1>. QED
    BY <1>4, <1>5

(* Every compensation is the undo of a step.                               *)
LEMMA CompensationsUndo ==
    ASSUME Typed
    PROVE  LET names == Ordered(Compensations) IN
           /\ names \in Seq(StepName)
           /\ \A i \in 1..Len(names) : \E x \in StepName : names[i] = setup.steps[x].undo
  <1> DEFINE C     == Compensations
             names == Ordered(C)
  <1>1. names \in Seq(StepName)
    BY CompensationsOrdered
  <1>2. ASSUME NEW y \in C
        PROVE  \E x \in StepName : y = setup.steps[x].undo
    <2>1. PICK t \in DOMAIN db.tasks : y = setup.steps[db.tasks[t].step].undo
      BY <1>2 DEF Compensations
    <2>2. db.tasks[t].step \in StepName
      BY RowSteps DEF Typed
    <2>. QED
      BY <2>1, <2>2
  <1>3. names \in [1..Cardinality(C) -> C]
    BY CompensationsOrdered
  <1> HIDE DEF C, names
  <1>4. \A i \in 1..Len(names) : names[i] \in C
    <2>1. DOMAIN names = 1..Len(names)
      BY <1>1
    <2>2. \A i \in DOMAIN names : names[i] \in C
      BY <1>3
    <2>. QED
      BY <2>1, <2>2
  <1>. QED
    BY <1>1, <1>2, <1>4 DEF names, C

(* cancel_invocation with compensations.                                   *)
LEMMA CompensateShape ==
    ASSUME Typed, Cancel, db.effect # "none"
    PROVE  Calm(db, db') /\ Tells(db')
  <1> DEFINE names == Ordered(Compensations)
             old  == [t \in DOMAIN db.tasks |->
                        IF t \in Open(db) /\ ~db.tasks[t].undo
                        THEN [Closed(db.tasks[t], "F") EXCEPT !.fence = @ + 1]
                        ELSE db.tasks[t]]
             more == [i \in 1..Len(names) |->
                        [NewRow(names[i], TRUE) EXCEPT !.undo = TRUE]]
             c    == [db EXCEPT !.tasks = old]
             f    == [c EXCEPT !.tasks = c.tasks \o more]
             e    == [f EXCEPT !.state = "COMPENSATING"]
  <1>1. db' = [db EXCEPT !.state = "COMPENSATING", !.tasks = old \o more]
        /\ db.state \notin Terminal
    BY DEF Cancel, Compensate
  <1>2. db \in DbType /\ db.tasks \in Seq(RowType)
        /\ \A t \in DOMAIN db.tasks : db.tasks[t] \in RowType
    BY DbRows DEF Typed
  <1>3. names \in Seq(StepName)
        /\ \A i \in 1..Len(names) : \E x \in StepName : names[i] = setup.steps[x].undo
    BY CompensationsUndo
  <1> HIDE DEF names
  <1>4. ASSUME NEW t \in DOMAIN db.tasks
        PROVE  old[t] \in RowType /\ old[t].branch = db.tasks[t].branch
    <2> DEFINE k == Closed(db.tasks[t], "F")
               n == k.fence + 1
    <2>1. k \in RowType /\ k.branch = db.tasks[t].branch
      BY <1>2, ClosedBranch, ClosedType
    <2>2. old[t] = [k EXCEPT !.fence = n] \/ old[t] = db.tasks[t]
      OBVIOUS
    <2> HIDE DEF k
    <2>3. n \in Nat
      BY <2>1 DEF RowType
    <2> HIDE DEF n
    <2>4. [k EXCEPT !.fence = n] \in RowType /\ [k EXCEPT !.fence = n].branch = k.branch
      BY <2>1, <2>3 DEF RowType
    <2>. QED
      BY <1>2, <2>1, <2>2, <2>4
  <1>5. DOMAIN old = DOMAIN db.tasks
    OBVIOUS
  <1>6. old \in Seq(RowType)
    <2>1. Len(db.tasks) \in Nat /\ DOMAIN db.tasks = 1..Len(db.tasks)
      BY <1>2
    <2>2. old \in [1..Len(db.tasks) -> RowType]
      BY <1>4, <2>1
    <2> HIDE DEF old
    <2>. QED
      BY <2>1, <2>2, SegmentIsSeq
  <1> HIDE DEF old
  <1>7. ASSUME NEW i \in 1..Len(names)
        PROVE  more[i] \in RowType /\ more[i].undo /\ more[i].branch = "none" /\ Undoes(more[i])
    <2>1. names[i] \in StepName
      BY <1>3
    <2>2. NewRow(names[i], TRUE) \in RowType
      BY <2>1, NewRowType
    <2>3. more[i] = [NewRow(names[i], TRUE) EXCEPT !.undo = TRUE]
      OBVIOUS
    <2>4. more[i] \in RowType
      BY <2>2, <2>3 DEF RowType
    <2>5. more[i].undo /\ more[i].branch = "none" /\ more[i].step = names[i]
      BY <2>3 DEF NewRow
    <2>. QED
      BY <1>3, <2>4, <2>5 DEF Undoes
  <1>8. Len(names) \in Nat /\ DOMAIN more = 1..Len(names)
    BY <1>3
  <1>9. more \in [1..Len(names) -> RowType]
    BY <1>7
  <1> HIDE DEF more
  <1>10. more \in Seq(RowType)
    BY <1>8, <1>9, SegmentIsSeq
  <1>11. c \in DbType /\ FieldsKept(db, c) /\ c.tasks = old
    BY <1>2, <1>6, WriteRows
  <1>12. f = [db EXCEPT !.tasks = old \o more]
    BY <1>2, <1>11 DEF DbType
  <1> HIDE DEF c
  <1>13. /\ f \in DbType /\ FieldsKept(c, f)
         /\ DOMAIN c.tasks \subseteq DOMAIN f.tasks
         /\ \A t \in DOMAIN c.tasks : f.tasks[t] = c.tasks[t]
         /\ \A t \in DOMAIN f.tasks \ DOMAIN c.tasks :
               \E i \in DOMAIN more : f.tasks[t] = more[i]
    <2>1. c \in DbType
      BY <1>11
    <2>. QED
      BY <1>10, <2>1, AddRows
  <1>14. db' = e
    BY <1>1, <1>2, <1>12 DEF DbType
  <1> HIDE DEF f
  <1>15. e.tasks = f.tasks /\ e.join = f.join /\ e.proc = f.proc /\ e.state = "COMPENSATING"
    BY <1>13 DEF DbType
  <1> HIDE DEF e
  <1>16. \A t \in DOMAIN db.tasks :
            t \in DOMAIN e.tasks /\ e.tasks[t].branch = db.tasks[t].branch
    BY <1>4, <1>5, <1>11, <1>13, <1>15
  <1>17. ASSUME NEW t \in Fresh(db, e)
         PROVE  e.tasks[t].undo /\ e.tasks[t].branch = "none" /\ Undoes(e.tasks[t])
    <2>1. PICK i \in DOMAIN more : e.tasks[t] = more[i]
      BY <1>5, <1>11, <1>13, <1>15 DEF Fresh
    <2>. QED
      BY <1>7, <1>8, <2>1
  <1>18. Calm(db, e)
    BY <1>11, <1>13, <1>15, <1>16, <1>17 DEF Calm, FieldsKept
  <1>19. Tells(e)
    BY <1>1, <1>11, <1>13, <1>15 DEF Tells, FieldsKept, Terminal
  <1>. QED
    BY <1>14, <1>18, <1>19

-----------------------------------------------------------------------------
(* The transactions of the system: the calm ones, and those that conclude  *)
(* a task, its timer fired or not.                                         *)

Concluding(d, t) ==
    /\ d \in DbType
    /\ OthersKept(db, d, t)
    /\ d.tasks[t].step = db.tasks[t].step
    /\ d.tasks[t].undo = db.tasks[t].undo
    /\ d.tasks[t].branch = db.tasks[t].branch
    /\ d.tasks[t].status = db.tasks[t].status
    /\ ~db.tasks[t].undo /\ db.tasks[t].status \in {"A", "W"}
    /\ d.join = db.join
    /\ d.state = db.state /\ db.state # "COMPENSATING"
    /\ Ended(d.proc) <=> Ended(db.proc)
    /\ V2 => db.state \in Live /\ d.proc \in {"A", "W"}

(* A timer fires: it stops its task, or concludes it.                      *)
LEMMA TimerShape ==
    ASSUME Typed, Orderly, Evidence, NEW t \in DOMAIN db.tasks, FireTimer(t) \/ TimerGivesUp(t)
    PROVE  \/ Quieted(db')
           \/ \E d : \E ok, valid \in BOOLEAN :
                 Concluding(d, t) /\ db' = Conclude(d, t, ok, valid)
  <1>1. db.tasks[t].timer = "ARMED"
    BY DEF FireTimer, TimerGivesUp
  <1>2. db.tasks[t].status = "W"
    BY <1>1 DEF Orderly, RowOK
  <1>3. db \in DbType /\ db.tasks[t] \in RowType
    BY DbRows DEF Typed
  <1>4. CASE db' = Stop(db, t)
    <2>1. Task(t).kind = "wait"
      BY <1>1 DEF Evidence, RowEvidence
    <2>2. Awake => db.state # "COMPENSATING"
      BY <1>2, <2>1 DEF Awake, Orderly, Ended
    <2>. QED
      BY <1>3, <1>4, <2>2, StopShape DEF Quieted
  <1>5. CASE db' # Stop(db, t)
    <2> DEFINE p == IF db.proc = "W" THEN "A" ELSE db.proc
               q == [db.tasks[t] EXCEPT !.timer = "FIRED"]
               c == [db EXCEPT !.tasks[t] = q]
               d == [c EXCEPT !.proc = p]
    <2>1. PICK ok \in BOOLEAN, valid \in BOOLEAN :
              ParentLive /\ db' = Conclude([db EXCEPT !.tasks[t].timer = "FIRED",
                                            !.proc = IF @ = "W" THEN "A" ELSE @], t, ok, valid)
      BY <1>5 DEF FireTimer, TimerGivesUp, Outcomes
    <2>2. [db EXCEPT !.tasks[t].timer = "FIRED", !.proc = IF @ = "W" THEN "A" ELSE @] = d
      BY <1>3 DEF DbType
    <2>3. db' = Conclude(d, t, ok, valid)
      BY <2>1, <2>2
    <2>4. q \in RowType /\ q.step = db.tasks[t].step /\ q.status = db.tasks[t].status
          /\ q.undo = db.tasks[t].undo /\ q.branch = db.tasks[t].branch
      BY <1>3 DEF RowType
    <2> HIDE DEF q
    <2>5. c \in DbType /\ OthersKept(db, c, t) /\ FieldsKept(db, c) /\ c.tasks[t] = q
      BY <1>3, <2>4, WriteRow
    <2> HIDE DEF c
    <2>6. p \in {"A", "W", "C", "F"} /\ (Ended(p) <=> Ended(db.proc))
      BY <1>3 DEF DbType, Ended
    <2>7. db.state \in Live /\ p \in {"A", "W"}
      BY <2>1 DEF ParentLive
    <2> HIDE DEF p
    <2>8. d \in DbType /\ d.tasks = c.tasks /\ d.join = c.join /\ d.proc = p /\ d.state = c.state
      BY <2>5, <2>6 DEF DbType
    <2> HIDE DEF d
    <2>9. db.state # "COMPENSATING" /\ ~db.tasks[t].undo
      BY <2>7 DEF Orderly, Live
    <2>10. OthersKept(db, d, t) /\ d.tasks[t] = q
      BY <2>5, <2>8 DEF OthersKept
    <2>11. Concluding(d, t)
      BY <1>2, <2>4, <2>5, <2>6, <2>7, <2>8, <2>9, <2>10 DEF Concluding, FieldsKept
    <2>. QED
      BY <2>3, <2>11
  <1>. QED
    BY <1>4, <1>5

(* An executor concludes its task.                                         *)
LEMMA FinishShape ==
    ASSUME Typed, Orderly, NEW w \in Worker, FinishTask(w)
    PROVE  \E t \in DOMAIN db.tasks : \E ok, valid \in BOOLEAN :
               Concluding(db, t) /\ db' = Conclude(db, t, ok, valid)
  <1> DEFINE t == worker[w].task
  <1>1. Authority(w) /\ Holds(w) /\ ~Row(w).undo
    BY DEF FinishTask, Authority
  <1>2. PICK ok \in BOOLEAN, valid \in BOOLEAN : db' = Conclude(db, t, ok, valid)
    BY DEF FinishTask, Finished, Outcomes
  <1>3. t \in DOMAIN db.tasks /\ Row(w).status = "A" /\ db.state # "COMPENSATING"
    BY <1>1, HeldRow
  <1>4. V2 => db.state \in Live /\ db.proc \in {"A", "W"}
    BY <1>1 DEF Authority, ParentLive
  <1>5. Concluding(db, t)
    BY <1>1, <1>3, <1>4 DEF Concluding, Typed, OthersKept, Row
  <1> HIDE DEF t
  <1>. QED
    BY <1>2, <1>3, <1>5

(* Every step.                                                             *)
LEMMA Shape ==
    ASSUME Typed, Orderly, Evidence, Next
    PROVE  \/ Calm(db, db') /\ (Awake => Tells(db'))
           \/ \E t \in DOMAIN db.tasks : \E d : \E ok, valid \in BOOLEAN :
                 Concluding(d, t) /\ db' = Conclude(d, t, ok, valid)
  <1>1. ASSUME Quieted(db') PROVE Calm(db, db') /\ (Awake => Tells(db'))
    BY <1>1, SameIsCalm DEF Quieted
  <1>2. CASE \E w \in Worker : FinishTask(w)
    BY <1>2, FinishShape
  <1>3. CASE \E w \in Worker : (Step(w) \/ Fault(w)) /\ ~FinishTask(w)
    BY <1>1, <1>3, ExecutorShape
  <1>4. CASE \E t \in DOMAIN db.tasks : FireTimer(t) \/ TimerGivesUp(t)
    BY <1>1, <1>4, TimerShape
  <1>5. CASE \E t \in DOMAIN db.tasks : Lapse(t)
    BY <1>1, <1>5, LapseShape DEF Lapse
  <1>6. CASE Expire \/ Cancel
    <2>1. CASE Expire \/ (Cancel /\ db.effect = "none")
      BY <1>1, <2>1, CloseAllShape
    <2>2. CASE Cancel /\ db.effect # "none"
      BY <2>2, CompensateShape
    <2>. QED
      BY <1>6, <2>1, <2>2
  <1>7. CASE Deadline
    <2>1. db' = db
      BY <1>7 DEF Deadline
    <2>2. Quieted(db')
      BY <2>1 DEF Quieted, SameBranches, Tells
    <2>. QED
      BY <1>1, <2>2
  <1>. QED
    BY <1>2, <1>3, <1>4, <1>5, <1>6, <1>7 DEF Next, Step

-----------------------------------------------------------------------------
(* What the conclusion of a task adds.                                     *)

(* Rows added at the end, each at its own place.                           *)
LEMMA AddedAt ==
    ASSUME NEW d \in DbType, NEW more \in Seq(RowType)
    PROVE  LET e == [d EXCEPT !.tasks = d.tasks \o more] IN
           /\ e \in DbType /\ FieldsKept(d, e)
           /\ DOMAIN d.tasks \subseteq DOMAIN e.tasks
           /\ \A t \in DOMAIN d.tasks : e.tasks[t] = d.tasks[t]
           /\ \A t \in Fresh(d, e) :
                 \E i \in DOMAIN more : t = Len(d.tasks) + i /\ e.tasks[t] = more[i]
           /\ \A i \in DOMAIN more :
                 Len(d.tasks) + i \in Fresh(d, e) /\ e.tasks[Len(d.tasks) + i] = more[i]
  <1> DEFINE ts == d.tasks \o more
             e  == [d EXCEPT !.tasks = ts]
             n  == Len(d.tasks)
  <1>1. d.tasks \in Seq(RowType)
    BY DbRows
  <1>2. /\ ts \in Seq(RowType)
        /\ Len(ts) = n + Len(more)
        /\ \A i \in 1 .. n + Len(more) : ts[i] = IF i <= n THEN d.tasks[i] ELSE more[i - n]
    BY <1>1, ConcatProperties
  <1>3. n \in Nat /\ DOMAIN d.tasks = 1..n
        /\ Len(more) \in Nat /\ DOMAIN more = 1..Len(more)
        /\ DOMAIN ts = 1..(n + Len(more))
    BY <1>1, <1>2
  <1>4. \A t \in DOMAIN d.tasks : t \in DOMAIN ts /\ ts[t] = d.tasks[t]
    BY <1>2, <1>3
  <1>5. ASSUME NEW t \in DOMAIN ts \ DOMAIN d.tasks
        PROVE  \E i \in DOMAIN more : t = n + i /\ ts[t] = more[i]
    <2>1. t - n \in DOMAIN more /\ t = n + (t - n) /\ ts[t] = more[t - n]
      BY <1>2, <1>3
    <2>. QED
      BY <2>1
  <1>6. ASSUME NEW i \in DOMAIN more
        PROVE  n + i \in DOMAIN ts \ DOMAIN d.tasks /\ ts[n + i] = more[i]
    <2>1. n + i \in 1 .. n + Len(more) /\ ~(n + i <= n) /\ (n + i) - n = i
      BY <1>3
    <2>. QED
      BY <1>2, <1>3, <2>1
  <1> HIDE DEF ts, n
  <1>7. e \in DbType /\ FieldsKept(d, e) /\ e.tasks = ts
    BY <1>2, WriteRows
  <1> HIDE DEF e
  <1>. QED
    BY <1>4, <1>5, <1>6, <1>7 DEF e, ts, n, Fresh

(* The rows of d are as they were.                                         *)
Extends(d, e) ==
    /\ DOMAIN d.tasks \subseteq DOMAIN e.tasks
    /\ \A t \in DOMAIN d.tasks : e.tasks[t] = d.tasks[t]

(* At most one new row, for step x.                                        *)
OneFor(d, e, x) ==
    /\ \A t \in Fresh(d, e) :
          ~e.tasks[t].undo /\ e.tasks[t].branch = "none" /\ e.tasks[t].step = x
    /\ \A t, u \in Fresh(d, e) : t = u

(* The process ends, goes on as it was, or a v2 process is taken to A.     *)
ProcMoves(d, e) == Ended(e.proc) \/ e.proc = d.proc \/ (V2 /\ e.proc = "A")

(* advance_transition: the successor, or the end of the process.           *)
LEMMA AdvanceShape ==
    ASSUME setup \in Setups, NEW d \in DbType, NEW step \in StepName
    PROVE  LET e == Advance(d, step) IN
           /\ e \in DbType /\ e.join = d.join /\ e.state = d.state
           /\ Extends(d, e) /\ OneFor(d, e, setup.steps[step].next)
           /\ ProcMoves(d, e)
  <1> DEFINE next == setup.steps[step].next
             e    == Advance(d, step)
  <1>1. CASE next = End
    <2>1. e = [d EXCEPT !.proc = "C"]
      BY <1>1 DEF Advance
    <2>2. e \in DbType /\ e.tasks = d.tasks /\ e.state = d.state /\ e.join = d.join
          /\ e.proc = "C"
      BY <2>1 DEF DbType
    <2>. QED
      BY <2>2 DEF Extends, OneFor, Fresh, ProcMoves, Ended
  <1>2. CASE next # End
    <2> DEFINE more == <<NewRow(next, FALSE)>>
               f    == [d EXCEPT !.tasks = d.tasks \o more]
               p    == IF V2 THEN "A" ELSE d.proc
    <2>1. next \in StepName
      BY <1>2, StepsClosed
    <2>2. NewRow(next, FALSE) \in RowType
      BY <2>1, NewRowType
    <2>3. more \in Seq(RowType) /\ DOMAIN more = {1} /\ more[1] = NewRow(next, FALSE)
      BY <2>2, SingleIsSeq
    <2>4. d.tasks \in Seq(RowType)
      BY DbRows
    <2>5. Append(d.tasks, NewRow(next, FALSE)) = d.tasks \o more
      BY <2>2, <2>4, AppendIsConcat
    <2>6. e = [f EXCEPT !.proc = p]
      BY <1>2, <2>5 DEF Advance, DbType
    <2>7. ~more[1].undo /\ more[1].branch = "none" /\ more[1].step = next
      BY <2>3 DEF NewRow
    <2> HIDE DEF more
    <2>m. more \in Seq(RowType)
      BY <2>3
    <2>8. /\ f \in DbType /\ FieldsKept(d, f)
          /\ DOMAIN d.tasks \subseteq DOMAIN f.tasks
          /\ \A t \in DOMAIN d.tasks : f.tasks[t] = d.tasks[t]
          /\ \A t \in Fresh(d, f) :
                \E i \in DOMAIN more : t = Len(d.tasks) + i /\ f.tasks[t] = more[i]
      BY <2>m, AddedAt
    <2> HIDE DEF f
    <2>9. p \in {"A", "W", "C", "F"} /\ (p = d.proc \/ (V2 /\ p = "A"))
      BY DEF DbType
    <2> HIDE DEF p
    <2>10. e \in DbType /\ e.tasks = f.tasks /\ e.state = f.state /\ e.join = f.join /\ e.proc = p
      BY <2>6, <2>8, <2>9 DEF DbType
    <2> HIDE DEF e
    <2>11. \A t \in Fresh(d, e) : t = Len(d.tasks) + 1 /\ e.tasks[t] = more[1]
      BY <2>3, <2>8, <2>10 DEF Fresh
    <2>12. OneFor(d, e, next)
      BY <2>7, <2>11 DEF OneFor
    <2>. QED
      BY <2>8, <2>9, <2>10, <2>12 DEF Extends, ProcMoves, FieldsKept, e
  <1>. QED
    BY <1>1, <1>2

(* One new row for each branch, all of them running.                       *)
AllFor(d, e, branches) ==
    /\ \A t \in Fresh(d, e) :
          /\ ~e.tasks[t].undo /\ e.tasks[t].branch = "RUNNING"
          /\ \E i \in DOMAIN branches :
                t = Len(d.tasks) + i /\ e.tasks[t].step = branches[i]
    /\ branches # <<>> => Fresh(d, e) # {}

(* The branches of a fork.                                                 *)
LEMMA StartForkShape ==
    ASSUME setup \in Setups, NEW d \in DbType, NEW step \in StepName
    PROVE  LET e == StartFork(d, step) IN
           /\ e \in DbType /\ e.join = "RUNNING" /\ e.state = d.state /\ e.proc = d.proc
           /\ Extends(d, e) /\ AllFor(d, e, setup.steps[step].branches)
  <1> DEFINE branches == setup.steps[step].branches
             more     == [i \in 1..Len(branches) |->
                            [NewRow(branches[i], TRUE) EXCEPT !.branch = "RUNNING"]]
             f        == [d EXCEPT !.tasks = d.tasks \o more]
             e        == StartFork(d, step)
  <1>1. branches \in Seq(StepName)
    BY StepsClosed
  <1>2. ASSUME NEW i \in 1..Len(branches)
        PROVE  /\ more[i] \in RowType
               /\ ~more[i].undo /\ more[i].branch = "RUNNING" /\ more[i].step = branches[i]
    <2>1. branches[i] \in StepName
      BY <1>1
    <2>2. NewRow(branches[i], TRUE) \in RowType
      BY <2>1, NewRowType
    <2>3. more[i] = [NewRow(branches[i], TRUE) EXCEPT !.branch = "RUNNING"]
      OBVIOUS
    <2>4. more[i] \in RowType
      BY <2>2, <2>3 DEF RowType
    <2>. QED
      BY <2>3, <2>4 DEF NewRow
  <1>3. Len(branches) \in Nat /\ DOMAIN branches = 1..Len(branches)
    BY <1>1
  <1>4. DOMAIN more = 1..Len(branches)
    OBVIOUS
  <1>5. e = [f EXCEPT !.join = "RUNNING"]
    BY DEF StartFork, DbType
  <1>6. more \in [1..Len(branches) -> RowType]
    BY <1>2
  <1> HIDE DEF more
  <1>7. more \in Seq(RowType)
    BY <1>3, <1>6, SegmentIsSeq
  <1>8. /\ f \in DbType /\ FieldsKept(d, f)
        /\ DOMAIN d.tasks \subseteq DOMAIN f.tasks
        /\ \A t \in DOMAIN d.tasks : f.tasks[t] = d.tasks[t]
        /\ \A t \in Fresh(d, f) :
              \E i \in DOMAIN more : t = Len(d.tasks) + i /\ f.tasks[t] = more[i]
        /\ \A i \in DOMAIN more :
              Len(d.tasks) + i \in Fresh(d, f) /\ f.tasks[Len(d.tasks) + i] = more[i]
    BY <1>7, AddedAt
  <1> HIDE DEF f
  <1>9. e \in DbType /\ e.tasks = f.tasks /\ e.state = f.state /\ e.proc = f.proc
        /\ e.join = "RUNNING"
    BY <1>5, <1>8 DEF DbType
  <1> HIDE DEF e
  <1>10. Fresh(d, e) = Fresh(d, f)
    BY <1>9 DEF Fresh
  <1>11. ASSUME NEW t \in Fresh(d, e)
         PROVE  /\ ~e.tasks[t].undo /\ e.tasks[t].branch = "RUNNING"
                /\ \E i \in DOMAIN branches :
                      t = Len(d.tasks) + i /\ e.tasks[t].step = branches[i]
    <2>1. PICK i \in DOMAIN more : t = Len(d.tasks) + i /\ f.tasks[t] = more[i]
      BY <1>8, <1>10
    <2>. QED
      BY <1>2, <1>3, <1>4, <1>9, <2>1
  <1>12. branches # <<>> => Fresh(d, e) # {}
    <2> SUFFICES ASSUME branches # <<>>
                 PROVE  Fresh(d, e) # {}
      OBVIOUS
    <2>1. 1 \in 1..Len(branches)
      BY <1>1, <1>3, EmptySeq
    <2>. QED
      BY <1>4, <1>8, <1>10, <2>1
  <1>. QED
    BY <1>8, <1>9, <1>11, <1>12 DEF Extends, AllFor, FieldsKept, e

-----------------------------------------------------------------------------
(* The join.                                                               *)

Has(d, s) == \E t \in DOMAIN d.tasks : d.tasks[t].branch = s

(* The join of fork f is what its branches say.                            *)
JoinOK(d, f) ==
    /\ d.join = "none" => \A t \in DOMAIN d.tasks : d.tasks[t].branch = "none"
    /\ d.join = "RUNNING" =>
          /\ Has(d, "RUNNING") /\ ~Has(d, "CANCELLED")
          /\ setup.steps[f].compete => ~Has(d, "COMPLETED")
    /\ d.join = "COMPLETED" =>
          /\ ~Has(d, "RUNNING") /\ Has(d, "COMPLETED")
          /\ ~setup.steps[f].compete => ~Has(d, "FAILED")
    /\ d.join = "FAILED" => ~Has(d, "RUNNING") /\ Has(d, "FAILED")

Joins(d) == \A f \in StepName : IsFork(f) => JoinOK(d, f)

(* InState, by its rows.                                                   *)
LEMMA HasState ==
    ASSUME NEW d, NEW s, s # "none"
    PROVE  InState(d, s) # {} <=> Has(d, s)
  BY DEF InState, Branches, Has

(* New rows without a branch say nothing.                                  *)
LEMMA HasSame ==
    ASSUME NEW d, NEW e, DOMAIN d.tasks \subseteq DOMAIN e.tasks,
           \A t \in DOMAIN d.tasks : e.tasks[t].branch = d.tasks[t].branch,
           \A t \in Fresh(d, e) : e.tasks[t].branch = "none"
    PROVE  \A s : s # "none" => (Has(e, s) <=> Has(d, s))
  BY DEF Has, Fresh

(* So the join is still what its branches say.                             *)
LEMMA JoinSame ==
    ASSUME NEW d, NEW e, NEW f, JoinOK(d, f), e.join = d.join,
           DOMAIN d.tasks \subseteq DOMAIN e.tasks,
           \A t \in DOMAIN d.tasks : e.tasks[t].branch = d.tasks[t].branch,
           \A t \in Fresh(d, e) : e.tasks[t].branch = "none"
    PROVE  JoinOK(e, f)
  <1>1. \A s : s # "none" => (Has(e, s) <=> Has(d, s))
    BY HasSame
  <1>2. d.join = "none" => \A t \in DOMAIN e.tasks : e.tasks[t].branch = "none"
    BY DEF JoinOK, Fresh
  <1>. QED
    BY <1>1, <1>2 DEF JoinOK

(* What reconcile_fork_branch makes of the join.                           *)
LEMMA BranchDoneShape ==
    ASSUME setup \in Setups, OneWay(setup), NEW f \in StepName, IsFork(f),
           NEW d \in DbType, NEW t \in DOMAIN d.tasks,
           d.tasks[t].branch # "none", NEW ok \in BOOLEAN, NEW valid \in BOOLEAN,
           JoinOK(d, f)
    PROVE  LET e == BranchDone(d, t, ok, valid) IN
           /\ e \in DbType /\ e.state = d.state /\ JoinOK(e, f)
           /\ \/ e.join = d.join /\ e.proc = d.proc /\ Fresh(d, e) = {}
              \/ d.join = "RUNNING" /\ e.join = "FAILED" /\ e.proc = "F" /\ Fresh(d, e) = {}
              \/ /\ d.join = "RUNNING" /\ e.join = "COMPLETED"
                 /\ OneFor(d, e, setup.steps[f].next) /\ ProcMoves(d, e)
  <1> DEFINE fork     == CHOOSE s \in DOMAIN setup.steps : setup.steps[s].kind = "fork"
             compete  == setup.steps[fork].compete
             state    == d.tasks[t].branch
             mark     == IF state # "RUNNING" THEN state
                         ELSE IF ok THEN "COMPLETED" ELSE "FAILED"
             counted  == [d EXCEPT !.tasks[t].branch = mark]
             terminal == JoinTerminal(counted, compete)
             success  == JoinSuccess(counted, compete)
             losers   == IF compete THEN InState(counted, "RUNNING") ELSE {}
             ts       == [u \in DOMAIN counted.tasks |->
                            IF u \in losers
                            THEN [counted.tasks[u] EXCEPT !.branch = "CANCELLED"]
                            ELSE counted.tasks[u]]
             cut      == [counted EXCEPT !.tasks = ts]
             active   == {u \in Branches(cut) : cut.tasks[u].status = "A"}
             end      == IF compete THEN active ELSE {}
             shut     == CloseRows(cut, end, "F")
             joined   == [shut EXCEPT !.join = "COMPLETED"]
             failed   == [counted EXCEPT !.join = "FAILED", !.proc = "F"]
             next     == IF V2 /\ ~valid THEN FailFork(joined, fork) ELSE Advance(joined, fork)
             e        == BranchDone(d, t, ok, valid)
  <1>1. e = CASE d.join # "RUNNING" \/ ~terminal -> counted
              [] d.join = "RUNNING" /\ terminal /\ success -> next
              [] OTHER -> failed
    BY DEF BranchDone
  <1>2. \/ (d.join # "RUNNING" \/ ~terminal) /\ e = counted
        \/ d.join = "RUNNING" /\ terminal /\ success /\ e = next
        \/ d.join = "RUNNING" /\ terminal /\ ~success /\ e = failed
    <2>1. CASE d.join # "RUNNING" \/ ~terminal
      BY <1>1, <2>1
    <2>2. CASE d.join = "RUNNING" /\ terminal /\ success
      BY <1>1, <2>2
    <2>3. CASE d.join = "RUNNING" /\ terminal /\ ~success
      BY <1>1, <2>3
    <2>. QED
      BY <2>1, <2>2, <2>3
  <1>3. fork = f
    <2>1. fork \in StepName /\ IsFork(fork)
      BY DEF IsFork, StepName
    <2>. QED
      BY <2>1, Ways
  <1>4. d.tasks[t] \in RowType
    BY DbRows
  <1>5. mark \in BranchState \ {"none"}
    BY <1>4 DEF RowType, BranchState
  <1>m. /\ state # "RUNNING" => mark = state
        /\ state = "RUNNING" => mark = IF ok THEN "COMPLETED" ELSE "FAILED"
    OBVIOUS
  <1>n. next = IF V2 /\ ~valid THEN FailFork(joined, fork) ELSE Advance(joined, fork)
    OBVIOUS
  <1> HIDE DEF mark, fork, next, e
  <1>6. [d.tasks[t] EXCEPT !.branch = mark] \in RowType
        /\ [d.tasks[t] EXCEPT !.branch = mark].branch = mark
    BY <1>4, <1>5 DEF RowType, BranchState
  <1>7. counted = [d EXCEPT !.tasks[t] = [d.tasks[t] EXCEPT !.branch = mark]]
    OBVIOUS
  <1>8. /\ counted \in DbType /\ OthersKept(d, counted, t) /\ FieldsKept(d, counted)
        /\ counted.tasks[t].branch = mark
    BY <1>6, <1>7, WriteRow
  <1> HIDE DEF counted
  <1>9. /\ DOMAIN counted.tasks = DOMAIN d.tasks
        /\ \A u \in DOMAIN d.tasks : u # t => counted.tasks[u].branch = d.tasks[u].branch
    BY <1>8 DEF OthersKept
  <1>10. Fresh(d, counted) = {}
    BY <1>9 DEF Fresh
  <1>11. /\ terminal <=> (~Has(counted, "RUNNING") \/ (compete /\ Has(counted, "COMPLETED")))
         /\ success <=> IF compete THEN Has(counted, "COMPLETED") ELSE ~Has(counted, "FAILED")
    BY HasState DEF JoinTerminal, JoinSuccess
  <1>12. compete <=> setup.steps[f].compete
    BY <1>3
  <1>c. /\ \A u \in losers : compete /\ u \in DOMAIN counted.tasks /\ counted.tasks[u].branch = "RUNNING"
        /\ compete => \A u \in DOMAIN counted.tasks :
              counted.tasks[u].branch = "RUNNING" => u \in losers
    BY DEF InState, Branches
  <1> HIDE DEF terminal, success, losers
  <1>13. /\ d.join = "RUNNING" =>
              state \in {"RUNNING", "COMPLETED", "FAILED"} /\ (compete => state # "COMPLETED")
         /\ d.join \in {"COMPLETED", "FAILED"} => state # "RUNNING"
         /\ d.join # "none" /\ d.join \in {"none", "RUNNING", "COMPLETED", "FAILED"}
    <2>1. d.join \in {"none", "RUNNING", "COMPLETED", "FAILED"}
      BY DEF DbType
    <2>2. state \in BranchState \ {"none"}
      BY <1>4 DEF RowType, BranchState
    <2>. QED
      BY <1>12, <2>1, <2>2 DEF JoinOK, Has, BranchState
  <1>14. CASE state # "RUNNING"
    <2>1. \A u \in DOMAIN d.tasks : counted.tasks[u].branch = d.tasks[u].branch
      BY <1>8, <1>9, <1>m, <1>14
    <2>2. JoinOK(counted, f)
      BY <1>8, <1>9, <1>10, <2>1, JoinSame DEF FieldsKept
    <2>3. d.join = "RUNNING" => ~terminal
      <3> SUFFICES ASSUME d.join = "RUNNING"
                   PROVE  ~terminal
        OBVIOUS
      <3>1. counted.join = "RUNNING"
        BY <1>8 DEF FieldsKept
      <3>. QED
        BY <1>11, <1>12, <2>2, <3>1 DEF JoinOK
    <2>4. e = counted
      BY <1>2, <2>3
    <2>. QED
      BY <1>8, <1>10, <2>2, <2>4 DEF FieldsKept, e
  <1>15. CASE state = "RUNNING"
    <2>1. d.join = "RUNNING" /\ mark = IF ok THEN "COMPLETED" ELSE "FAILED"
      BY <1>13, <1>15, <1>m
    <2>2. Has(d, "RUNNING") /\ ~Has(d, "CANCELLED") /\ (compete => ~Has(d, "COMPLETED"))
      BY <1>12, <2>1 DEF JoinOK
    <2>3. counted.join = "RUNNING" /\ counted.proc = d.proc /\ counted.state = d.state
      BY <1>8, <2>1 DEF FieldsKept
    <2>4. ~Has(counted, "CANCELLED") /\ Has(counted, mark)
      BY <1>8, <1>9, <2>1, <2>2 DEF Has
    <2>5. CASE ~terminal
      <3>1. JoinOK(counted, f)
        BY <1>11, <1>12, <2>3, <2>4, <2>5 DEF JoinOK
      <3>2. e = counted
        BY <1>2, <2>5
      <3>. QED
        BY <1>8, <1>10, <2>1, <2>3, <3>1, <3>2 DEF e
    <2>6. CASE terminal /\ ~success
      <3>1. e = failed
        BY <1>2, <2>1, <2>6
      <3>2. /\ failed \in DbType /\ failed.tasks = counted.tasks /\ failed.state = counted.state
            /\ failed.join = "FAILED" /\ failed.proc = "F"
        BY <1>8 DEF DbType
      <3> HIDE DEF failed
      <3>3. ~Has(counted, "RUNNING") /\ Has(counted, "FAILED")
        <4>1. CASE compete
          BY <1>11, <2>1, <2>4, <2>6, <4>1
        <4>2. CASE ~compete
          BY <1>11, <2>6, <4>2
        <4>. QED
          BY <4>1, <4>2
      <3>4. JoinOK(failed, f)
        BY <3>2, <3>3 DEF JoinOK, Has
      <3>5. Fresh(d, failed) = {}
        BY <1>10, <3>2 DEF Fresh
      <3>. QED
        BY <2>1, <2>3, <3>1, <3>2, <3>4, <3>5 DEF e
    <2>7. CASE terminal /\ success
      <3>1. e = next
        BY <1>2, <2>1, <2>7
      <3>2. \A u \in DOMAIN counted.tasks : counted.tasks[u] \in RowType
        BY <1>8, DbRows
      <3>3. ASSUME NEW u \in DOMAIN counted.tasks
            PROVE  /\ ts[u] \in RowType
                   /\ ts[u].branch = IF u \in losers THEN "CANCELLED" ELSE counted.tasks[u].branch
        <4>1. CASE u \in losers
          BY <3>2, <4>1 DEF RowType
        <4>2. CASE u \notin losers
          BY <3>2, <4>2
        <4>. QED
          BY <4>1, <4>2
      <3>4. DOMAIN ts = DOMAIN counted.tasks
        OBVIOUS
      <3>5. ts \in Seq(RowType)
        <4>1. counted.tasks \in Seq(RowType)
          BY <1>8, DbRows
        <4>2. Len(counted.tasks) \in Nat /\ DOMAIN counted.tasks = 1..Len(counted.tasks)
          BY <4>1
        <4>3. ts \in [1..Len(counted.tasks) -> RowType]
          BY <3>3, <4>2
        <4> HIDE DEF ts
        <4>. QED
          BY <4>2, <4>3, SegmentIsSeq
      <3> HIDE DEF ts
      <3>6. cut \in DbType /\ FieldsKept(counted, cut) /\ cut.tasks = ts
        BY <1>8, <3>5, WriteRows
      <3> HIDE DEF cut, end
      <3>7. shut \in DbType /\ SameBranches(cut, shut) /\ FieldsKept(cut, shut)
        BY <3>6, CloseRowsKeeps
      <3> HIDE DEF shut
      <3>8. /\ joined \in DbType /\ joined.tasks = shut.tasks /\ joined.state = shut.state
            /\ joined.proc = shut.proc /\ joined.join = "COMPLETED"
        BY <3>7 DEF DbType
      <3> HIDE DEF joined
      <3>9. /\ DOMAIN joined.tasks = DOMAIN d.tasks
            /\ \A u \in DOMAIN d.tasks :
                  joined.tasks[u].branch =
                      IF u \in losers THEN "CANCELLED" ELSE counted.tasks[u].branch
        BY <1>9, <3>3, <3>4, <3>6, <3>7, <3>8 DEF SameBranches
      <3>10. ~Has(joined, "RUNNING") /\ Has(joined, "COMPLETED")
             /\ (~compete => ~Has(joined, "FAILED"))
        <4>1. CASE compete
          <5>1. PICK u \in DOMAIN d.tasks : counted.tasks[u].branch = "COMPLETED"
            BY <1>9, <1>11, <2>7, <4>1 DEF Has
          <5>2. u \notin losers
            BY <1>c, <5>1
          <5>3. Has(joined, "COMPLETED")
            BY <3>9, <5>1, <5>2 DEF Has
          <5>4. ~Has(joined, "RUNNING")
            BY <1>9, <1>c, <3>9, <4>1 DEF Has
          <5>. QED
            BY <4>1, <5>3, <5>4
        <4>2. CASE ~compete
          <5>1. \A u \in DOMAIN d.tasks : joined.tasks[u].branch = counted.tasks[u].branch
            BY <1>c, <3>9, <4>2
          <5>2. ~Has(counted, "RUNNING") /\ ~Has(counted, "FAILED")
            BY <1>11, <2>7, <4>2
          <5>3. Has(counted, "COMPLETED")
            BY <2>1, <2>4, <5>2
          <5>. QED
            BY <1>9, <3>9, <5>1, <5>2, <5>3 DEF Has
        <4>. QED
          BY <4>1, <4>2
      <3>11. JoinOK(joined, f)
        BY <1>12, <3>8, <3>10 DEF JoinOK
      <3>12. joined.state = d.state /\ joined.proc = d.proc
        BY <2>3, <3>6, <3>7, <3>8 DEF FieldsKept
      <3>13. CASE ~(V2 /\ ~valid)
        <4>1. e = Advance(joined, fork)
          BY <1>n, <3>1, <3>13
        <4>2. /\ e \in DbType /\ e.join = joined.join /\ e.state = joined.state
              /\ Extends(joined, e) /\ OneFor(joined, e, setup.steps[fork].next)
              /\ ProcMoves(joined, e)
          BY <1>3, <3>8, <4>1, AdvanceShape
        <4>3. JoinOK(e, f)
          BY <3>11, <4>2, JoinSame DEF Extends, OneFor
        <4>4. Fresh(d, e) = Fresh(joined, e)
          BY <3>9 DEF Fresh
        <4>5. OneFor(d, e, setup.steps[f].next) /\ ProcMoves(d, e)
          BY <1>3, <3>12, <4>2, <4>4 DEF OneFor, ProcMoves
        <4>. QED
          BY <2>1, <3>8, <3>12, <4>2, <4>3, <4>5 DEF e
      <3>14. CASE V2 /\ ~valid
        <4> DEFINE rest == CloseRows(joined, Pending(joined, fork), "F")
        <4>1. e = [rest EXCEPT !.proc = "F"]
          BY <1>n, <3>1, <3>14 DEF FailFork
        <4>2. rest \in DbType /\ SameBranches(joined, rest) /\ FieldsKept(joined, rest)
          BY <3>8, CloseRowsKeeps
        <4> HIDE DEF rest
        <4>3. /\ e \in DbType /\ e.tasks = rest.tasks /\ e.state = rest.state
              /\ e.join = rest.join /\ e.proc = "F"
          BY <4>1, <4>2 DEF DbType
        <4>4. /\ e.join = joined.join /\ e.state = joined.state
              /\ DOMAIN e.tasks = DOMAIN joined.tasks
              /\ \A u \in DOMAIN joined.tasks : e.tasks[u].branch = joined.tasks[u].branch
          BY <4>2, <4>3 DEF SameBranches, FieldsKept
        <4>5. Fresh(joined, e) = {} /\ Fresh(d, e) = {}
          BY <3>9, <4>4 DEF Fresh
        <4>6. JoinOK(e, f)
          BY <3>11, <4>4, <4>5, JoinSame
        <4>7. OneFor(d, e, setup.steps[f].next) /\ ProcMoves(d, e)
          BY <4>3, <4>5 DEF OneFor, ProcMoves, Ended
        <4>. QED
          BY <2>1, <3>8, <3>12, <4>3, <4>4, <4>6, <4>7 DEF e
      <3>. QED
        BY <3>13, <3>14
    <2>. QED
      BY <2>5, <2>6, <2>7
  <1>. QED
    BY <1>14, <1>15

-----------------------------------------------------------------------------
(* The conclusion of a task.                                               *)

(* Conclude, up to the synchronisation of the invocation.                  *)
Done(d, t, ok, valid) ==
    LET step   == d.tasks[t].step
        closed == CloseRow(d, t, IF ok THEN "C" ELSE "F")
        branch == d.tasks[t].branch # "none"
        fork   == setup.steps[step].kind = "fork"
    IN  CASE branch                 -> BranchDone(closed, t, ok, valid)
          [] ~branch /\ ~ok         -> [closed EXCEPT !.proc = "F"]
          [] ~branch /\ ok /\ fork  -> StartFork(closed, step)
          [] OTHER                  -> Advance(closed, step)

Silent(d, t, ok, valid) ==
    LET branch == d.tasks[t].branch # "none"
    IN  \/ ~branch /\ IsFork(d.tasks[t].step)
        \/ branch /\ ~(d.join = "RUNNING" /\ Done(d, t, ok, valid).join = "COMPLETED")

(* The four things it may add.                                             *)
Stays(d, e) ==
    Fresh(d, e) = {} /\ (e.join = d.join \/ (d.join = "RUNNING" /\ e.join = "FAILED"))

Advances(d, t, e) ==
    /\ e.join = d.join /\ e.tasks[t].status = "C"
    /\ ~IsFork(d.tasks[t].step)
    /\ OneFor(d, e, setup.steps[d.tasks[t].step].next)

Forks(d, t, e) ==
    /\ e.join = "RUNNING" /\ e.tasks[t].status = "C"
    /\ IsFork(d.tasks[t].step)
    /\ \A u \in Fresh(d, e) : ~e.tasks[u].undo
    /\ \E n \in Nat : \A u \in Fresh(d, e) :
          \E i \in DOMAIN setup.steps[d.tasks[t].step].branches :
              u = n + i /\ e.tasks[u].step = setup.steps[d.tasks[t].step].branches[i]

Joined(d, e) ==
    /\ d.join = "RUNNING" /\ e.join = "COMPLETED"
    /\ \E f \in StepName : IsFork(f) /\ OneFor(d, e, setup.steps[f].next)

Outcome(d, t, e) == Stays(d, e) \/ Advances(d, t, e) \/ Forks(d, t, e) \/ Joined(d, e)

(* What the end of a task adds, and the join and process it leaves.        *)
LEMMA DoneShape ==
    ASSUME setup \in Setups, OneWay(setup), NEW d \in DbType, NEW t \in DOMAIN d.tasks,
           d.tasks[t].branch # "none" => HasFork, ~d.tasks[t].undo, ~Passed(d, t),
           Lineage(d), Joins(d), NEW ok \in BOOLEAN, NEW valid \in BOOLEAN
    PROVE  LET e == Done(d, t, ok, valid) IN
           /\ e \in DbType /\ e.state = d.state
           /\ Joins(e) /\ Outcome(d, t, e) /\ ProcMoves(d, e)
           /\ ok /\ Silent(d, t, ok, valid) => e.proc = d.proc \/ (e.join = "FAILED" /\ Ended(e.proc))
  <1> DEFINE s    == IF ok THEN "C" ELSE "F"
             c    == CloseRow(d, t, s)
             step == d.tasks[t].step
             b    == d.tasks[t].branch # "none"
             e    == Done(d, t, ok, valid)
  <1>1. s \in {"A", "W", "C", "F"} /\ (ok => s = "C")
    OBVIOUS
  <1>2. /\ e = CASE b                           -> BranchDone(c, t, ok, valid)
                 [] ~b /\ ~ok                   -> [c EXCEPT !.proc = "F"]
                 [] ~b /\ ok /\ IsFork(step)    -> StartFork(c, step)
                 [] OTHER                       -> Advance(c, step)
    BY DEF Done, IsFork
  <1> HIDE DEF s
  <1>3. c \in DbType /\ SameBranches(d, c) /\ FieldsKept(d, c) /\ OthersKept(d, c, t)
        /\ Shut(d.tasks[t], c.tasks[t], s)
    BY <1>1, CloseKeeps, CloseRowEffect
  <1> HIDE DEF c
  <1>4. step \in StepName
    BY RowSteps
  <1>5. /\ DOMAIN c.tasks = DOMAIN d.tasks /\ c.join = d.join /\ c.proc = d.proc
        /\ c.state = d.state /\ c.tasks[t].branch = d.tasks[t].branch
        /\ t \in DOMAIN c.tasks /\ (ok => c.tasks[t].status = "C")
    BY <1>1, <1>3 DEF SameBranches, FieldsKept, Shut
  <1>6. \A x : Fresh(c, x) = Fresh(d, x)
    BY <1>5 DEF Fresh
  <1>7. Fresh(d, c) = {}
    BY <1>5 DEF Fresh
  <1>8. ASSUME NEW f \in StepName, IsFork(f)
        PROVE  JoinOK(c, f)
    BY <1>3, <1>7, <1>8, JoinSame DEF Joins, SameBranches
  <1>9. CASE b
    <2>1. e = BranchDone(c, t, ok, valid)
      BY <1>2, <1>9
    <2> HIDE DEF e
    <2>2. PICK f \in StepName : IsFork(f)
      BY <1>9 DEF HasFork, IsFork
    <2>3. /\ e \in DbType /\ e.state = c.state /\ JoinOK(e, f)
          /\ \/ e.join = c.join /\ e.proc = c.proc /\ Fresh(c, e) = {}
             \/ c.join = "RUNNING" /\ e.join = "FAILED" /\ e.proc = "F" /\ Fresh(c, e) = {}
             \/ /\ c.join = "RUNNING" /\ e.join = "COMPLETED"
                /\ OneFor(c, e, setup.steps[f].next) /\ ProcMoves(c, e)
      BY <1>3, <1>5, <1>8, <1>9, <2>1, <2>2, BranchDoneShape
    <2>4. Joins(e)
      BY <2>2, <2>3, Ways DEF Joins
    <2>5. Outcome(d, t, e)
      BY <1>5, <1>6, <2>2, <2>3 DEF Outcome, Stays, Joined, OneFor
    <2>6. ProcMoves(d, e)
      BY <1>5, <2>3 DEF ProcMoves, Ended
    <2>7. Silent(d, t, ok, valid) => e.proc = d.proc \/ (e.join = "FAILED" /\ Ended(e.proc))
      BY <1>5, <1>9, <2>3 DEF Silent, Ended, e
    <2>. QED
      BY <1>5, <2>3, <2>4, <2>5, <2>6, <2>7 DEF e
  <1>10. CASE ~b /\ ~ok
    <2>1. e = [c EXCEPT !.proc = "F"]
      BY <1>2, <1>10
    <2>2. e \in DbType /\ e.tasks = c.tasks /\ e.state = c.state /\ e.join = c.join /\ e.proc = "F"
      BY <1>3, <2>1 DEF DbType
    <2> HIDE DEF e
    <2>3. Joins(e)
      BY <1>8, <2>2, JoinSame DEF Joins, Fresh
    <2>4. Outcome(d, t, e)
      BY <1>5, <2>2 DEF Outcome, Stays, Fresh
    <2>. QED
      BY <1>5, <1>10, <2>2, <2>3, <2>4 DEF ProcMoves, Ended, e
  <1>11. CASE ~b /\ ok /\ IsFork(step)
    <2> DEFINE branches == setup.steps[step].branches
    <2>1. e = StartFork(c, step)
      BY <1>2, <1>11
    <2> HIDE DEF e
    <2>2. /\ e \in DbType /\ e.join = "RUNNING" /\ e.state = c.state /\ e.proc = c.proc
          /\ Extends(c, e) /\ AllFor(c, e, branches)
      BY <1>3, <1>4, <2>1, StartForkShape
    <2>3. d.join = "none"
      BY <1>11 DEF Lineage, ForkFirst
    <2>4. \A u \in DOMAIN d.tasks : c.tasks[u].branch = "none"
      BY <1>3, <1>4, <1>11, <2>3 DEF Joins, JoinOK, SameBranches
    <2>5. branches # <<>>
      BY <1>4, <1>11, Ways
    <2>6. PICK u \in Fresh(c, e) : e.tasks[u].branch = "RUNNING"
      BY <2>2, <2>5 DEF AllFor
    <2>7. \A v \in DOMAIN e.tasks : e.tasks[v].branch \in {"none", "RUNNING"}
      BY <1>5, <2>2, <2>4 DEF AllFor, Extends, Fresh
    <2>8. Joins(e)
      BY <2>2, <2>6, <2>7 DEF Joins, JoinOK, Has, Fresh
    <2>9. e.tasks[t].status = "C"
      BY <1>5, <1>11, <2>2 DEF Extends
    <2>10. Len(c.tasks) \in Nat
      BY <1>3, DbRows
    <2>11. Forks(d, t, e)
      <3>1. \A v \in Fresh(d, e) : /\ ~e.tasks[v].undo
                                   /\ \E i \in DOMAIN branches :
                                         v = Len(c.tasks) + i /\ e.tasks[v].step = branches[i]
        BY <1>6, <2>2 DEF AllFor
      <3>. QED
        BY <1>11, <2>2, <2>9, <2>10, <3>1 DEF Forks
    <2>. QED
      BY <1>5, <2>2, <2>8, <2>11 DEF Outcome, ProcMoves, e
  <1>12. CASE ~b /\ ok /\ ~IsFork(step)
    <2>1. e = Advance(c, step)
      BY <1>2, <1>12
    <2> HIDE DEF e
    <2>2. /\ e \in DbType /\ e.join = c.join /\ e.state = c.state
          /\ Extends(c, e) /\ OneFor(c, e, setup.steps[step].next)
          /\ ProcMoves(c, e)
      BY <1>3, <1>4, <2>1, AdvanceShape
    <2>3. Joins(e)
      BY <1>8, <2>2, JoinSame DEF Joins, Extends, OneFor
    <2>4. Advances(d, t, e)
      BY <1>5, <1>6, <1>12, <2>2 DEF Advances, OneFor, Extends
    <2>5. ~Silent(d, t, ok, valid)
      BY <1>12 DEF Silent
    <2>. QED
      BY <1>5, <2>2, <2>3, <2>4, <2>5 DEF Outcome, ProcMoves, e
  <1>. QED
    BY <1>9, <1>10, <1>11, <1>12

(* The process and its invocation, as EndsTogether has it.                 *)
Together(d) ==
    /\ d.state \in Terminal => Ended(d.proc)
    /\ Ended(d.proc) => d.state \in Terminal \/ (V2 /\ d.join = "FAILED")

(* The synchronisation of the invocation with its process.                 *)
LEMMA SyncTogether ==
    ASSUME NEW d \in DbType, NEW valid \in BOOLEAN, d.state \in Terminal => Ended(d.proc)
    PROVE  Together(Sync(d, valid))
  <1> DEFINE e == Sync(d, valid)
  <1>1. e.proc = d.proc /\ d.proc \in {"A", "W", "C", "F"}
    BY SyncEffect DEF Synced, DbType
  <1>2. CASE d.state \in Terminal
    <2>1. e.state = d.state
      BY <1>2, SyncEffect DEF Synced
    <2> HIDE DEF e
    <2>2. Together(e)
      BY <1>1, <1>2, <2>1 DEF Together
    <2>. QED
      BY <2>2 DEF e
  <1>3. CASE d.state \notin Terminal
    <2>1. e.state = CASE d.proc = "C" -> IF valid THEN "COMPLETED" ELSE "FAILED"
                      [] d.proc = "F" -> "FAILED"
                      [] d.proc = "W" -> "WAITING"
                      [] OTHER        -> "RUNNING"
      BY <1>3 DEF Sync, DbType
    <2> HIDE DEF e
    <2>2. e.state \in Terminal <=> Ended(e.proc)
      BY <1>1, <2>1 DEF Terminal, Ended
    <2>3. Together(e)
      BY <2>2 DEF Together
    <2>. QED
      BY <2>3 DEF e
  <1>. QED
    BY <1>2, <1>3

(* Conclude: what it adds, the join it leaves, and the end it tells.       *)
LEMMA ConcludeShape ==
    ASSUME setup \in Setups, OneWay(setup), NEW d \in DbType, NEW t \in DOMAIN d.tasks,
           d.tasks[t].branch # "none" => HasFork, ~d.tasks[t].undo, ~Passed(d, t),
           Lineage(d), Joins(d), NEW ok \in BOOLEAN, NEW valid \in BOOLEAN
    PROVE  LET e == Conclude(d, t, ok, valid) IN
           /\ e \in DbType /\ Carries(d, e) /\ Joins(e) /\ Outcome(d, t, e)
           /\ Together(d) /\ (V2 => d.state \in Live /\ d.proc \in {"A", "W"}) => Together(e)
  <1> DEFINE s == IF ok THEN "C" ELSE "F"
             c == CloseRow(d, t, s)
             g == Done(d, t, ok, valid)
             v == valid \/ V2
             e == Conclude(d, t, ok, valid)
  <1>1. e = IF V2 /\ ok /\ Silent(d, t, ok, valid) THEN g ELSE Sync(g, v)
    BY DEF Conclude, Done, Silent, IsFork
  <1>v. v \in BOOLEAN
    OBVIOUS
  <1> HIDE DEF v
  <1>2. /\ g \in DbType /\ g.state = d.state
        /\ Joins(g) /\ Outcome(d, t, g) /\ ProcMoves(d, g)
        /\ ok /\ Silent(d, t, ok, valid) => g.proc = d.proc \/ (g.join = "FAILED" /\ Ended(g.proc))
    BY DoneShape
  <1>3. RowsConclude(c, e)
    BY ConcludeEffect
  <1>4. s \in {"A", "W", "C", "F"}
    OBVIOUS
  <1> HIDE DEF s
  <1>5. OthersKept(d, c, t) /\ Shut(d.tasks[t], c.tasks[t], s) /\ c.join = d.join
    BY <1>4, CloseRowEffect DEF FieldsKept
  <1> HIDE DEF c, g, e
  <1>6. e \in DbType /\ e.tasks = g.tasks /\ e.join = g.join
    BY <1>1, <1>2, <1>v, SyncEffect DEF Synced
  <1>j. d.join = "COMPLETED" => e.join = "COMPLETED"
    <2>1. ~(d.join = "COMPLETED" /\ IsFork(d.tasks[t].step))
      BY DEF Lineage, ForkFirst
    <2>. QED
      BY <1>2, <1>6, <2>1 DEF Outcome, Stays, Advances, Forks, Joined
  <1>7. Carries(d, e)
    <2>1. DOMAIN c.tasks = DOMAIN d.tasks
      BY <1>5 DEF OthersKept
    <2>2. ASSUME NEW u \in DOMAIN d.tasks
          PROVE  /\ c.tasks[u].step = d.tasks[u].step
                 /\ c.tasks[u].undo = d.tasks[u].undo
                 /\ Passed(d, u) => Passed(c, u)
      BY <1>5 DEF OthersKept, Shut, Passed
    <2>3. ASSUME NEW u \in DOMAIN d.tasks
          PROVE  /\ u \in DOMAIN e.tasks
                 /\ e.tasks[u].step = c.tasks[u].step
                 /\ e.tasks[u].undo = c.tasks[u].undo
                 /\ Passed(c, u) => Passed(e, u)
      <3>1. u \in DOMAIN c.tasks /\ u \in DOMAIN e.tasks
        BY <1>3, <2>1 DEF RowsConclude
      <3>2. CASE Quiet(c.tasks[u], e.tasks[u])
        BY <1>5, <1>j, <3>1, <3>2 DEF Quiet, Passed
      <3>3. CASE c.tasks[u].status = "A" /\ Shut(c.tasks[u], e.tasks[u], "F")
        BY <3>1, <3>3 DEF Shut, Passed
      <3>4. CASE Refuted(c, e, u)
        BY <3>1, <3>4 DEF Refuted, Shut, Passed, IsFork
      <3>. QED
        BY <1>3, <3>1, <3>2, <3>3, <3>4 DEF RowsConclude
    <2>. QED
      BY <2>2, <2>3 DEF Carries
  <1>8. Joins(e)
    BY <1>2, <1>6, JoinSame DEF Joins, Fresh
  <1>9. Outcome(d, t, e)
    <2>1. Fresh(d, e) = Fresh(d, g)
      BY <1>6 DEF Fresh
    <2>2. ASSUME NEW x, OneFor(d, g, x) PROVE OneFor(d, e, x)
      BY <1>6, <2>1, <2>2 DEF OneFor
    <2>3. CASE Stays(d, g)
      BY <1>6, <2>1, <2>3 DEF Outcome, Stays
    <2>4. CASE Advances(d, t, g)
      BY <1>6, <2>2, <2>4 DEF Outcome, Advances
    <2>5. CASE Forks(d, t, g)
      BY <1>6, <2>1, <2>5 DEF Outcome, Forks
    <2>6. CASE Joined(d, g)
      BY <1>6, <2>2, <2>6 DEF Outcome, Joined
    <2>. QED
      BY <1>2, <2>3, <2>4, <2>5, <2>6 DEF Outcome
  <1>10. ASSUME Together(d), V2 => d.state \in Live /\ d.proc \in {"A", "W"}
         PROVE  Together(e)
    <2>1. CASE V2 /\ ok /\ Silent(d, t, ok, valid)
      <3>1. e = g /\ d.state \notin Terminal /\ ~Ended(d.proc)
        BY <1>1, <1>10, <2>1 DEF Live, Terminal, Ended
      <3>. QED
        BY <1>2, <2>1, <3>1 DEF Together
    <2>2. CASE ~(V2 /\ ok /\ Silent(d, t, ok, valid))
      <3>1. g.state \in Terminal => Ended(g.proc)
        <4> SUFFICES ASSUME g.state \in Terminal
                     PROVE  Ended(g.proc)
          OBVIOUS
        <4>1. ~V2 /\ Ended(d.proc)
          BY <1>2, <1>10 DEF Together, Live, Terminal
        <4>. QED
          BY <1>2, <4>1 DEF ProcMoves
      <3>2. e = Sync(g, v)
        BY <1>1, <2>2
      <3>. QED
        BY <1>2, <1>v, <3>1, <3>2, SyncTogether
    <2>. QED
      BY <2>1, <2>2
  <1>. QED
    BY <1>6, <1>7, <1>8, <1>9, <1>10 DEF e

(* No conclusion starts a step again.                                      *)
LEMMA LineageConclude ==
    ASSUME OneWay(setup), NEW d \in DbType, NEW e \in DbType, Lineage(d), Carries(d, e),
           NEW t \in DOMAIN d.tasks, ~d.tasks[t].undo, ~Passed(d, t),
           Outcome(d, t, e)
    PROVE  Lineage(e)
  <1> DEFINE step == d.tasks[t].step
  <1>1. step \in StepName /\ t \in DOMAIN e.tasks /\ e.tasks[t].step = step /\ ~e.tasks[t].undo
    BY RowSteps DEF Carries
  <1>2. ForkFirst(d) /\ Once(d)
    BY DEF Lineage
  <1>3. ASSUME NEW u \in DOMAIN d.tasks, ~d.tasks[u].undo, IsFork(d.tasks[u].step),
               ~Passed(e, u)
        PROVE  d.join = "none"
    <2>1. ~Passed(d, u)
      BY <1>3 DEF Carries
    <2>. QED
      BY <1>2, <1>3, <2>1 DEF ForkFirst
  <1>4. CASE Stays(d, e)
    <2>1. /\ e.join = d.join \/ (d.join = "RUNNING" /\ e.join = "FAILED")
          /\ \A u \in Fresh(d, e) : e.tasks[u].undo /\ Undoes(e.tasks[u])
      BY <1>4 DEF Stays
    <2>. QED
      BY <2>1, LineageSame
  <1>5. CASE Advances(d, t, e)
    <2> DEFINE x == setup.steps[step].next
    <2>1. e.join = d.join /\ e.tasks[t].status = "C" /\ ~IsFork(step)
      BY <1>5 DEF Advances
    <2>2. ASSUME NEW u \in Fresh(d, e)
          PROVE  ~e.tasks[u].undo /\ e.tasks[u].step = x /\ Origin(e, u)
      <3>1. ~e.tasks[u].undo /\ e.tasks[u].step = x
        BY <1>5 DEF Advances, OneFor
      <3>. QED
        BY <1>1, <2>1, <3>1 DEF Origin, Passed
    <2>3. \A u, v \in Fresh(d, e) : u = v
      BY <1>5 DEF Advances, OneFor
    <2>4. ASSUME NEW u \in DOMAIN d.tasks, ~d.tasks[u].undo, d.tasks[u].step = x
          PROVE  FALSE
      BY <2>1, <2>4, SuccessorIsNew
    <2>5. e.join # "none" =>
            \E u \in DOMAIN d.tasks : ~d.tasks[u].undo /\ IsFork(d.tasks[u].step)
      BY <1>2, <2>1 DEF ForkFirst
    <2>6. \A u \in Fresh(d, e) : \A v \in DOMAIN d.tasks :
            ~d.tasks[v].undo => d.tasks[v].step # e.tasks[u].step
      BY <2>2, <2>4
    <2> HIDE DEF x, step
    <2>. QED
      BY <1>3, <2>1, <2>2, <2>3, <2>5, <2>6, LineageGrows
  <1>6. CASE Forks(d, t, e)
    <2> DEFINE branches == setup.steps[step].branches
    <2>1. e.join = "RUNNING" /\ e.tasks[t].status = "C" /\ IsFork(step)
          /\ \A u \in Fresh(d, e) : ~e.tasks[u].undo
      BY <1>6 DEF Forks
    <2>2. PICK n \in Nat : \A u \in Fresh(d, e) :
              \E i \in DOMAIN branches : u = n + i /\ e.tasks[u].step = branches[i]
      BY <1>6 DEF Forks
    <2>3. d.join = "none"
      BY <1>2, <2>1 DEF ForkFirst
    <2>4. ASSUME NEW u \in Fresh(d, e)
          PROVE  Origin(e, u)
      BY <1>1, <2>1, <2>2 DEF Origin, Passed
    <2>5. ASSUME NEW u \in Fresh(d, e), NEW v \in Fresh(d, e), u # v
          PROVE  e.tasks[u].step # e.tasks[v].step
      <3>1. PICK i \in DOMAIN branches : u = n + i /\ e.tasks[u].step = branches[i]
        BY <2>2
      <3>2. PICK j \in DOMAIN branches : v = n + j /\ e.tasks[v].step = branches[j]
        BY <2>2
      <3>3. i # j
        BY <2>5, <3>1, <3>2
      <3>4. branches[i] # branches[j]
        BY <1>1, <2>1, <3>3, Ways
      <3>. QED
        BY <3>1, <3>2, <3>4
    <2>6. ASSUME NEW u \in Fresh(d, e), NEW v \in DOMAIN d.tasks, ~d.tasks[v].undo,
                 d.tasks[v].step = e.tasks[u].step
          PROVE  FALSE
      <3>1. PICK i \in DOMAIN branches : e.tasks[u].step = branches[i]
        BY <2>2
      <3>. QED
        BY <2>1, <2>6, <3>1, BranchIsNew
    <2>7. ASSUME NEW u \in DOMAIN d.tasks, ~d.tasks[u].undo, IsFork(d.tasks[u].step)
          PROVE  Passed(e, u)
      <3>1. d.tasks[u].step = step
        BY <1>1, <2>1, <2>7, RowSteps, Ways
      <3>2. u = t
        BY <1>2, <2>7, <3>1 DEF Once
      <3>. QED
        BY <2>1, <3>2 DEF Passed
    <2> HIDE DEF step
    <2>8. \A u \in DOMAIN d.tasks :
            ~d.tasks[u].undo /\ IsFork(d.tasks[u].step) /\ ~Passed(e, u) => e.join = "none"
      BY <2>7
    <2>9. \E u \in DOMAIN d.tasks : ~d.tasks[u].undo /\ IsFork(d.tasks[u].step)
      BY <2>1 DEF step
    <2>10. d.join = "COMPLETED" => e.join = "COMPLETED"
      BY <2>3
    <2>11. /\ \A u \in Fresh(d, e) : ~e.tasks[u].undo /\ Origin(e, u)
           /\ \A u, v \in Fresh(d, e) : u # v => e.tasks[u].step # e.tasks[v].step
           /\ \A u \in Fresh(d, e) : \A v \in DOMAIN d.tasks :
                 ~d.tasks[v].undo => d.tasks[v].step # e.tasks[u].step
      BY <2>1, <2>4, <2>5, <2>6
    <2>. QED
      BY <2>8, <2>9, <2>10, <2>11, LineageGrows
  <1>7. CASE Joined(d, e)
    <2>1. PICK f \in StepName : IsFork(f) /\ OneFor(d, e, setup.steps[f].next)
      BY <1>7 DEF Joined
    <2>2. d.join = "RUNNING" /\ e.join = "COMPLETED"
      BY <1>7 DEF Joined
    <2>3. ASSUME NEW u \in Fresh(d, e)
          PROVE  ~e.tasks[u].undo /\ e.tasks[u].step = setup.steps[f].next /\ Origin(e, u)
      BY <2>1, <2>2 DEF OneFor, Origin
    <2>4. \A u, v \in Fresh(d, e) : u = v
      BY <2>1 DEF OneFor
    <2>5. ASSUME NEW u \in DOMAIN d.tasks, ~d.tasks[u].undo, d.tasks[u].step = setup.steps[f].next
          PROVE  FALSE
      BY <2>1, <2>2, <2>5, JoinedIsNew
    <2>6. \A u \in DOMAIN d.tasks :
            ~d.tasks[u].undo /\ IsFork(d.tasks[u].step) /\ ~Passed(e, u) => e.join = "none"
      BY <1>3, <2>2
    <2>7. \E u \in DOMAIN d.tasks : ~d.tasks[u].undo /\ IsFork(d.tasks[u].step)
      BY <1>2, <2>2 DEF ForkFirst
    <2>8. /\ \A u \in Fresh(d, e) : ~e.tasks[u].undo /\ Origin(e, u)
          /\ \A u, v \in Fresh(d, e) : u # v => e.tasks[u].step # e.tasks[v].step
          /\ \A u \in Fresh(d, e) : \A v \in DOMAIN d.tasks :
                ~d.tasks[v].undo => d.tasks[v].step # e.tasks[u].step
      BY <2>3, <2>4, <2>5
    <2>. QED
      BY <2>2, <2>6, <2>7, <2>8, LineageGrows
  <1>. QED
    BY <1>4, <1>5, <1>6, <1>7 DEF Outcome

-----------------------------------------------------------------------------
(* The invariants are kept by every step.                                  *)

(* The definition an invocation was admitted with stays.                   *)
LEMMA SetupStays ==
    ASSUME Typed, Next
    PROVE  setup' = setup
  <1>1. CASE Sweep
    BY <1>1, SweepLeaves
  <1>2. CASE \E w \in Worker : Step(w) \/ Fault(w)
    BY <1>2, ExecutorLeaves
  <1>. QED
    BY <1>1, <1>2 DEF Next, Sweep

(* No compensation is a wait, so none sleeps.                              *)
LEMMA NoneSleeps ==
    ASSUME Typed, OneWay(setup), PlainUndo(setup), Lineage(db)
    PROVE  Awake
  <1> SUFFICES ASSUME NEW t \in DOMAIN db.tasks, db.tasks[t].undo
               PROVE  Task(t).kind # "wait"
    BY DEF Awake
  <1>1. PICK x \in StepName : db.tasks[t].step = setup.steps[x].undo
    BY DEF Lineage, Undoes
  <1>2. setup.steps[x].undo # End
    BY <1>1, RowSteps, Ways DEF Typed
  <1>. QED
    BY <1>1, <1>2 DEF PlainUndo, StepName, Task

(* The rows a step leaves.                                                 *)
LEMMA RowsCarry ==
    ASSUME Typed, Orderly, Next
    PROVE  db' \in DbType /\ (db'.join = db.join => Carries(db, db'))
  <1>1. PICK A : Follows(db', A)
    BY LayersStep
  <1>2. ASSUME db'.join = db.join, NEW t \in DOMAIN db.tasks
        PROVE  /\ db'.tasks[t].step = db.tasks[t].step
               /\ db'.tasks[t].undo = db.tasks[t].undo
               /\ Passed(db, t) => Passed(db', t)
    <2>1. RowFollows(t, db'.tasks[t])
      BY <1>1, <1>2 DEF Follows, ForkFails, Joining
    <2>. QED
      BY <1>2, <2>1 DEF RowFollows, RowMoves, Passed, Ended
  <1>. QED
    BY <1>1, <1>2 DEF Follows, Carries

(* A task that is about to be concluded, its timer fired or not, leaves    *)
(* the invariants as they are.                                             *)
LEMMA BeforeConclusion ==
    ASSUME Typed, Lineage(db), Joins(db), NEW t \in DOMAIN db.tasks, NEW d, Concluding(d, t)
    PROVE  /\ Lineage(d) /\ Joins(d) /\ t \in DOMAIN d.tasks
           /\ d.tasks[t].branch # "none" => HasFork
           /\ Together(db) => Together(d)
  <1>1. /\ DOMAIN d.tasks = DOMAIN db.tasks /\ d.join = db.join
        /\ \A u \in DOMAIN db.tasks :
              /\ d.tasks[u].step = db.tasks[u].step
              /\ d.tasks[u].undo = db.tasks[u].undo
              /\ d.tasks[u].branch = db.tasks[u].branch
              /\ d.tasks[u].status = db.tasks[u].status
    BY DEF Concluding, OthersKept
  <1>2. Fresh(db, d) = {}
    BY <1>1 DEF Fresh
  <1>3. Carries(db, d)
    BY <1>1 DEF Carries, Passed
  <1>4. \A u \in Fresh(db, d) : d.tasks[u].undo /\ Undoes(d.tasks[u])
    BY <1>2
  <1>5. Lineage(d)
    BY <1>1, <1>3, <1>4, LineageSame
  <1>6. Joins(d)
    BY <1>1, <1>2, JoinSame DEF Joins
  <1>7. Together(db) => Together(d)
    BY DEF Together, Concluding
  <1>. QED
    BY <1>1, <1>5, <1>6, <1>7 DEF Typed

(* Every step, of the database it leaves.                                  *)
LEMMA ShapeStep ==
    ASSUME Typed, Orderly, Evidence, OneWay(setup), Lineage(db), Joins(db), Next
    PROVE  /\ Lineage(db') /\ Joins(db')
           /\ PlainUndo(setup) /\ Together(db) => Together(db')
  <1>1. db' \in DbType /\ (db'.join = db.join => Carries(db, db'))
    BY RowsCarry
  <1>2. CASE Calm(db, db') /\ (Awake => Tells(db'))
    <2>1. /\ db'.join = db.join
          /\ \A t \in Fresh(db, db') : db'.tasks[t].undo /\ Undoes(db'.tasks[t])
      BY <1>2 DEF Calm
    <2>2. Lineage(db')
      BY <1>1, <2>1, LineageSame
    <2>3. ASSUME NEW f \in StepName, IsFork(f)
          PROVE  JoinOK(db', f)
      <3>1. /\ DOMAIN db.tasks \subseteq DOMAIN db'.tasks
            /\ \A t \in DOMAIN db.tasks : db'.tasks[t].branch = db.tasks[t].branch
            /\ \A t \in Fresh(db, db') : db'.tasks[t].branch = "none"
        BY <1>2 DEF Calm
      <3>2. JoinOK(db, f)
        BY <2>3 DEF Joins
      <3>. QED
        BY <2>1, <3>1, <3>2, JoinSame
    <2>4. ASSUME PlainUndo(setup), Together(db)
          PROVE  Together(db')
      <3>1. Tells(db')
        BY <1>2, <2>4, NoneSleeps
      <3>. QED
        BY <2>1, <2>4, <3>1 DEF Tells, Together
    <2>. QED
      BY <2>2, <2>3, <2>4 DEF Joins
  <1>3. ASSUME NEW t \in DOMAIN db.tasks, NEW d, NEW ok \in BOOLEAN, NEW valid \in BOOLEAN,
               Concluding(d, t), db' = Conclude(d, t, ok, valid)
        PROVE  Lineage(db') /\ Joins(db') /\ (Together(db) => Together(db'))
    <2>1. /\ Lineage(d) /\ Joins(d) /\ t \in DOMAIN d.tasks
          /\ d.tasks[t].branch # "none" => HasFork
          /\ Together(db) => Together(d)
      BY <1>3, BeforeConclusion
    <2>2. /\ setup \in Setups /\ d \in DbType /\ ~d.tasks[t].undo /\ ~Passed(d, t)
          /\ V2 => d.state \in Live /\ d.proc \in {"A", "W"}
      BY <1>3 DEF Typed, Concluding, Passed
    <2>3. /\ db' \in DbType /\ Carries(d, db') /\ Joins(db') /\ Outcome(d, t, db')
          /\ Together(d) => Together(db')
      BY <1>3, <2>1, <2>2, ConcludeShape
    <2>4. Lineage(db')
      BY <2>1, <2>2, <2>3, LineageConclude
    <2>. QED
      BY <2>1, <2>3, <2>4
  <1>. QED
    BY <1>2, <1>3, Shape

(* The same of the next state.                                             *)
LEMMA NextState ==
    ASSUME setup' = setup
    PROVE  /\ OneWay(setup)' <=> OneWay(setup)
           /\ PlainUndo(setup)' <=> PlainUndo(setup)
           /\ Lineage(db)' <=> Lineage(db')
           /\ Joins(db)' <=> Joins(db')
           /\ Together(db)' <=> Together(db')
  <1>1. OneWay(setup)' <=> OneWay(setup)
    BY DEF OneWay
  <1>2. PlainUndo(setup)' <=> PlainUndo(setup)
    BY DEF PlainUndo
  <1>3. Lineage(db)' <=> Lineage(db')
    <2>1. Once(db)' <=> Once(db')
      BY DEF Once
    <2>2. ForkFirst(db)' <=> ForkFirst(db')
      BY DEF ForkFirst, Passed, IsFork
    <2>3. ASSUME NEW t
          PROVE  Origin(db, t)' <=> Origin(db', t)
      BY Zenon DEF Origin, Passed, IsFork, StepName
    <2>4. ASSUME NEW t
          PROVE  Undoes(db.tasks[t])' <=> Undoes(db'.tasks[t])
      BY DEF Undoes, StepName
    <2>. QED
      BY <2>1, <2>2, <2>3, <2>4 DEF Lineage
  <1>4. Joins(db)' <=> Joins(db')
    BY Zenon DEF Joins, JoinOK, Has, IsFork, StepName
  <1>5. Together(db)' <=> Together(db')
    BY DEF Together, V2
  <1>. QED
    BY <1>1, <1>2, <1>3, <1>4, <1>5

(* The first row.                                                          *)
LEMMA ShapeInit ==
    ASSUME Init
    PROVE  Lineage(db) /\ Joins(db) /\ Together(db)
  <1>1. /\ DOMAIN db.tasks = {1} /\ db.tasks[1].step = setup.first /\ ~db.tasks[1].undo
        /\ db.tasks[1].branch = "none"
    BY DEF Init, NewRow
  <1>2. db.join = "none" /\ db.state = "ACCEPTED" /\ db.proc = "A"
    BY DEF Init
  <1>3. Once(db)
    BY <1>1 DEF Once
  <1>4. ForkFirst(db)
    BY <1>2 DEF ForkFirst
  <1>5. Origin(db, 1)
    BY <1>1 DEF Origin
  <1>6. Lineage(db)
    BY <1>1, <1>3, <1>4, <1>5 DEF Lineage
  <1>7. Joins(db)
    BY <1>1, <1>2 DEF Joins, JoinOK
  <1>8. Together(db)
    BY <1>2 DEF Together, Terminal, Ended
  <1>. QED
    BY <1>6, <1>7, <1>8

-----------------------------------------------------------------------------
(* The results.                                                            *)

(* Every definition considered reaches each of its steps in one way.       *)
EachOneWay == \A s \in Setups : OneWay(s)

(* Its compensations are plain too.                                        *)
EachPlainUndo == \A s \in Setups : PlainUndo(s)

(* Lineage and the join's state are invariants.                            *)
LEMMA LineageAlways == ASSUME EachOneWay PROVE Spec => [](Lineage(db) /\ Joins(db))
  <1>1. Init => Lineage(db) /\ Joins(db)
    BY ShapeInit
  <1>2. (Typed /\ Orderly) /\ Evidence /\ (Lineage(db) /\ Joins(db)) /\ [Next]_vars
        => (Lineage(db) /\ Joins(db))'
    <2> SUFFICES ASSUME Typed, Orderly, Evidence, Lineage(db), Joins(db), [Next]_vars
                 PROVE  (Lineage(db) /\ Joins(db))'
      OBVIOUS
    <2>1. OneWay(setup)
      BY DEF Typed, EachOneWay
    <2>2. CASE Next
      BY <2>1, <2>2, ShapeStep, SetupStays, NextState
    <2>3. CASE UNCHANGED vars
      <3>1. setup' = setup /\ db' = db
        BY <2>3 DEF vars
      <3>2. Lineage(db') /\ Joins(db')
        BY <3>1
      <3>. QED
        BY <3>1, <3>2, NextState
    <2>. QED
      BY <2>2, <2>3
  <1>. QED
    BY <1>1, <1>2, Layers, EvidenceAlways, PTL DEF Spec

(* A definition without loops starts each of its steps once, however often *)
(* a lease lapses, a task is taken over and an executor finishes late: the *)
(* transition is one transaction with the end of the task before it.       *)
THEOREM StepsStartOnce == ASSUME EachOneWay PROVE Spec => []StepOnce
  <1>1. Lineage(db) /\ Joins(db) => StepOnce
    BY DEF Lineage, Once, StepOnce
  <1>. QED
    BY <1>1, LineageAlways, PTL

(* The join ends exactly when its branches say so, whichever order they    *)
(* end in and whoever loses the race, and only a join that succeeded is    *)
(* continued.                                                              *)
THEOREM JoinsAreExact == ASSUME EachOneWay, EachPlainUndo PROVE Spec => []JoinExact
  <1>1. (Typed /\ Orderly) /\ (Lineage(db) /\ Joins(db)) => JoinExact
    <2> SUFFICES ASSUME Typed, Lineage(db), Joins(db), NEW f \in StepName, IsFork(f)
                 PROVE  LET running   == InState(db, "RUNNING") # {}
                            completed == InState(db, "COMPLETED") # {}
                            failed    == InState(db, "FAILED") # {}
                        IN  /\ db.join = "RUNNING" => running /\ (setup.steps[f].compete => ~completed)
                            /\ db.join = "COMPLETED" => ~running /\ completed
                            /\ db.join = "COMPLETED" /\ ~setup.steps[f].compete => ~failed
                            /\ db.join = "FAILED" => ~running /\ failed
                            /\ (\E t \in DOMAIN db.tasks : db.tasks[t].step = setup.steps[f].next)
                                   => db.join = "COMPLETED"
      BY DEF JoinExact, StepName, IsFork
    <2>1. OneWay(setup) /\ PlainUndo(setup) /\ db \in DbType
      BY DEF Typed, EachOneWay, EachPlainUndo
    <2>2. JoinOK(db, f)
      BY DEF Joins
    <2>3. /\ InState(db, "RUNNING") # {} <=> Has(db, "RUNNING")
          /\ InState(db, "COMPLETED") # {} <=> Has(db, "COMPLETED")
          /\ InState(db, "FAILED") # {} <=> Has(db, "FAILED")
      BY HasState
    <2>4. ASSUME NEW t \in DOMAIN db.tasks, db.tasks[t].step = setup.steps[f].next
          PROVE  db.join = "COMPLETED"
      <3>1. CASE ~db.tasks[t].undo
        BY <2>1, <2>4, <3>1, JoinedIsNew
      <3>2. CASE db.tasks[t].undo
        <4>1. PICK x \in StepName : db.tasks[t].step = setup.steps[x].undo
          BY <3>2 DEF Lineage, Undoes
        <4>2. setup.steps[x].undo # End
          BY <2>1, <4>1, RowSteps, Ways
        <4>. QED
          BY <2>1, <2>4, <4>1, <4>2 DEF PlainUndo, StepName, IsFork
      <3>. QED
        BY <3>1, <3>2
    <2>. QED
      BY <2>2, <2>3, <2>4 DEF JoinOK
  <1>. QED
    BY <1>1, Layers, LineageAlways, PTL

(* A process and its invocation end in the same transaction, whoever ends  *)
(* them, but for the failed join of a v2 process, which tells nobody.      *)
THEOREM ProcessEndsWithInvocation ==
    ASSUME EachOneWay, EachPlainUndo PROVE Spec => []EndsTogether
  <1>1. Init => Together(db)
    BY ShapeInit
  <1>2. (Typed /\ Orderly) /\ Evidence /\ (Lineage(db) /\ Joins(db)) /\ Together(db) /\ [Next]_vars
        => Together(db)'
    <2> SUFFICES ASSUME Typed, Orderly, Evidence, Lineage(db), Joins(db), Together(db), [Next]_vars
                 PROVE  Together(db)'
      OBVIOUS
    <2>1. OneWay(setup) /\ PlainUndo(setup)
      BY DEF Typed, EachOneWay, EachPlainUndo
    <2>2. CASE Next
      BY <2>1, <2>2, ShapeStep, SetupStays, NextState
    <2>3. CASE UNCHANGED vars
      <3>1. setup' = setup /\ db' = db
        BY <2>3 DEF vars
      <3>2. Together(db')
        BY <3>1
      <3>. QED
        BY <3>1, <3>2, NextState
    <2>. QED
      BY <2>2, <2>3
  <1>3. Together(db) => EndsTogether
    BY DEF Together, EndsTogether, Untold
  <1>. QED
    BY <1>1, <1>2, <1>3, Layers, EvidenceAlways, LineageAlways, PTL DEF Spec
=============================================================================
