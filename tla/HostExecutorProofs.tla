------------------------- MODULE HostExecutorProofs -------------------------
(***************************************************************************)
(* Machine-checked proofs about the host executors of one invocation, for  *)
(* any number of executors, any well-formed definition, any budget and any *)
(* number of faults.                                                       *)
(***************************************************************************)
EXTENDS HostExecutor, FiniteSetTheorems, SequenceTheorems, TLAPS

-----------------------------------------------------------------------------
(* The rows.                                                               *)

StepName == DOMAIN setup.steps

DbType ==
    [state : Live \cup Terminal \cup {"COMPENSATING"},
     effect : {"none", "possible", "confirmed"},
     proc : {"A", "W", "C", "F"},
     join : {"none", "RUNNING", "COMPLETED", "FAILED"},
     tasks : Seq(RowType),
     ledger : [StepName -> {"none", "claimed", "confirmed"}]]

(* A row as it was, but for its branch, its effect and the age of its      *)
(* lease.                                                                  *)
Quiet(r, q) ==
    /\ q.status = r.status
    /\ q.owner = r.owner
    /\ q.fence = r.fence
    /\ q.timer = r.timer
    /\ q.step = r.step
    /\ q.undo = r.undo
    /\ q.branch = "none" <=> r.branch = "none"

(* A row that reached status s and lost its lease.                         *)
Shut(r, q, s) ==
    /\ q.status = s
    /\ q.owner = NoWorker
    /\ q.timer = IF s = "F" /\ r.timer = "ARMED" THEN "STOPPED" ELSE r.timer
    /\ q.step = r.step
    /\ q.undo = r.undo
    /\ q.branch = "none" <=> r.branch = "none"

(* A row nobody has claimed yet.                                           *)
New(q) ==
    /\ q.status = "A"
    /\ q.owner = NoWorker
    /\ q.timer = "none"

(* The rows but t, and everything that is not a row.                       *)
OthersKept(d, e, t) ==
    /\ DOMAIN e.tasks = DOMAIN d.tasks
    /\ \A u \in DOMAIN d.tasks : u # t => e.tasks[u] = d.tasks[u]

FieldsKept(d, e) ==
    /\ e.state = d.state
    /\ e.effect = d.effect
    /\ e.proc = d.proc
    /\ e.join = d.join
    /\ e.ledger = d.ledger

(* A fresh row is a row.                                                   *)
LEMMA NewRowType ==
    ASSUME NEW step \in StepName, NEW timed \in BOOLEAN
    PROVE  NewRow(step, timed) \in RowType
  BY DEF NewRow, RowType, StepName

(* Closing a row gives a row.                                              *)
LEMMA ClosedType ==
    ASSUME NEW r \in RowType, NEW s \in {"A", "W", "C", "F"}
    PROVE  Closed(r, s) \in RowType /\ Shut(r, Closed(r, s), s)
  <1> DEFINE x == IF s = "F" /\ r.timer = "ARMED" THEN "STOPPED" ELSE r.timer
             a == [r EXCEPT !.status = s]
             b == [a EXCEPT !.owner = NoWorker]
             c == [b EXCEPT !.lapsed = FALSE]
             q == [c EXCEPT !.timer = x]
  <1>1. a \in RowType /\ a.timer = r.timer /\ a.status = s /\ a.step = r.step
        /\ a.undo = r.undo /\ a.branch = r.branch
    BY DEF RowType
  <1>2. x \in {"none", "ARMED", "FIRED", "STOPPED"}
    BY DEF RowType
  <1>3. Closed(r, s) = q
    BY DEF Closed, RowType
  <1> HIDE DEF a, x
  <1>4. b \in RowType /\ b.timer = r.timer /\ b.status = s /\ b.step = r.step
        /\ b.undo = r.undo /\ b.branch = r.branch /\ b.owner = NoWorker
    BY <1>1 DEF RowType
  <1> HIDE DEF b
  <1>5. c \in RowType /\ c.timer = r.timer /\ c.status = s /\ c.step = r.step
        /\ c.undo = r.undo /\ c.branch = r.branch /\ c.owner = NoWorker
    BY <1>4 DEF RowType
  <1> HIDE DEF c
  <1>6. q \in RowType /\ q.timer = x /\ q.status = s /\ q.step = r.step
        /\ q.undo = r.undo /\ q.branch = r.branch /\ q.owner = NoWorker
    BY <1>2, <1>5 DEF RowType
  <1> HIDE DEF q
  <1>7. Shut(r, q, s)
    BY <1>6 DEF Shut, x
  <1>. QED
    BY <1>3, <1>6, <1>7

(* Rows of a database of its type.                                         *)
LEMMA DbRows ==
    ASSUME NEW d \in DbType
    PROVE  /\ d.tasks \in Seq(RowType)
           /\ \A t \in DOMAIN d.tasks : d.tasks[t] \in RowType
  <1>1. d.tasks \in Seq(RowType)
    BY DEF DbType
  <1>. QED
    BY <1>1

(* Writing one row.                                                        *)
LEMMA WriteRow ==
    ASSUME NEW d \in DbType, NEW t \in DOMAIN d.tasks, NEW r \in RowType
    PROVE  LET e == [d EXCEPT !.tasks[t] = r] IN
           e \in DbType /\ OthersKept(d, e, t) /\ FieldsKept(d, e) /\ e.tasks[t] = r
  <1> DEFINE ts == [d.tasks EXCEPT ![t] = r]
             e  == [d EXCEPT !.tasks = ts]
  <1>1. d.tasks \in Seq(RowType) /\ t \in 1..Len(d.tasks)
    BY DbRows
  <1>2. ts \in Seq(RowType) /\ DOMAIN ts = DOMAIN d.tasks /\ ts[t] = r
        /\ \A u \in DOMAIN d.tasks : u # t => ts[u] = d.tasks[u]
    BY <1>1, ExceptSeq
  <1> HIDE DEF ts
  <1>3. e \in DbType /\ e.tasks = ts /\ FieldsKept(d, e)
    BY <1>2 DEF DbType, FieldsKept
  <1>4. OthersKept(d, e, t) /\ e.tasks[t] = r
    BY <1>2, <1>3 DEF OthersKept
  <1>5. e = [d EXCEPT !.tasks[t] = r]
    BY DEF ts
  <1>. QED
    BY <1>3, <1>4, <1>5

-----------------------------------------------------------------------------
(* The operators that transactions are made of.                            *)

HasFork == \E s \in StepName : setup.steps[s].kind = "fork"

(* What a completion does to the other rows: they keep their status, but   *)
(* for the branches a competing fork cuts off; new rows may follow.        *)
RowsFollow(d, e) ==
    /\ DOMAIN d.tasks \subseteq DOMAIN e.tasks
    /\ \A t \in DOMAIN d.tasks :
          \/ Quiet(d.tasks[t], e.tasks[t])
          \/ /\ d.tasks[t].status = "A"
             /\ d.tasks[t].branch # "none"
             /\ Shut(d.tasks[t], e.tasks[t], "F")
    /\ \A t \in DOMAIN e.tasks \ DOMAIN d.tasks :
          /\ New(e.tasks[t])
          /\ ~e.tasks[t].undo
          /\ e.tasks[t].branch # "none" => HasFork

EvidenceKept(d, e) == e.effect = d.effect /\ e.ledger = d.ledger

Grows(d, e) == e \in DbType /\ RowsFollow(d, e) /\ EvidenceKept(d, e) /\ e.state = d.state

(* The row of a v2 fork that fails as its join succeeds.                   *)
Refuted(d, e, t) ==
    /\ V2
    /\ d.join = "RUNNING" /\ e.join = "COMPLETED" /\ e.proc = "F"
    /\ setup.steps[d.tasks[t].step].kind = "fork"
    /\ d.tasks[t].status = "C" /\ ~d.tasks[t].undo
    /\ Shut(d.tasks[t], e.tasks[t], "F")

(* The same for a completion that may refute a fork.                       *)
RowsConclude(d, e) ==
    /\ DOMAIN d.tasks \subseteq DOMAIN e.tasks
    /\ \A t \in DOMAIN d.tasks :
          \/ Quiet(d.tasks[t], e.tasks[t])
          \/ /\ d.tasks[t].status = "A"
             /\ d.tasks[t].branch # "none"
             /\ Shut(d.tasks[t], e.tasks[t], "F")
          \/ Refuted(d, e, t)
    /\ \A t \in DOMAIN e.tasks \ DOMAIN d.tasks :
          /\ New(e.tasks[t])
          /\ ~e.tasks[t].undo
          /\ e.tasks[t].branch # "none" => HasFork

Resolves(d, e) ==
    e \in DbType /\ RowsConclude(d, e) /\ EvidenceKept(d, e) /\ e.state = d.state

(* Closing one row.                                                        *)
LEMMA CloseRowEffect ==
    ASSUME NEW d \in DbType, NEW t \in DOMAIN d.tasks, NEW s \in {"A", "W", "C", "F"}
    PROVE  LET e == CloseRow(d, t, s) IN
           e \in DbType /\ OthersKept(d, e, t) /\ FieldsKept(d, e)
           /\ Shut(d.tasks[t], e.tasks[t], s)
  <1>1. d.tasks[t] \in RowType
    BY DbRows
  <1>2. Closed(d.tasks[t], s) \in RowType /\ Shut(d.tasks[t], Closed(d.tasks[t], s), s)
    BY <1>1, ClosedType
  <1>3. CloseRow(d, t, s) = [d EXCEPT !.tasks[t] = Closed(d.tasks[t], s)]
    BY DEF CloseRow
  <1>. QED
    BY <1>2, <1>3, WriteRow

(* Replacing all the rows.                                                 *)
LEMMA WriteRows ==
    ASSUME NEW d \in DbType, NEW ts \in Seq(RowType)
    PROVE  LET e == [d EXCEPT !.tasks = ts] IN
           e \in DbType /\ FieldsKept(d, e) /\ e.tasks = ts
  BY DEF DbType, FieldsKept

(* Closing several.                                                        *)
LEMMA CloseRowsEffect ==
    ASSUME NEW d \in DbType, NEW T, NEW s \in {"A", "W", "C", "F"}
    PROVE  LET e == CloseRows(d, T, s) IN
           /\ e \in DbType /\ FieldsKept(d, e)
           /\ DOMAIN e.tasks = DOMAIN d.tasks
           /\ \A t \in DOMAIN d.tasks :
                 IF t \in T THEN Shut(d.tasks[t], e.tasks[t], s) ELSE e.tasks[t] = d.tasks[t]
  <1> DEFINE ts == [t \in DOMAIN d.tasks |->
                      IF t \in T THEN Closed(d.tasks[t], s) ELSE d.tasks[t]]
  <1>1. d.tasks \in Seq(RowType) /\ \A t \in DOMAIN d.tasks : d.tasks[t] \in RowType
    BY DbRows
  <1>2. \A t \in DOMAIN d.tasks :
            Closed(d.tasks[t], s) \in RowType /\ Shut(d.tasks[t], Closed(d.tasks[t], s), s)
    BY <1>1, ClosedType
  <1>3. Len(d.tasks) \in Nat /\ DOMAIN d.tasks = 1..Len(d.tasks)
    BY <1>1
  <1>4. \A t \in 1..Len(d.tasks) : ts[t] \in RowType
    BY <1>1, <1>2, <1>3
  <1>5. ts = [t \in 1..Len(d.tasks) |-> ts[t]]
    BY <1>3
  <1> HIDE DEF ts
  <1>6. ts \in Seq(RowType)
    BY <1>3, <1>4, <1>5, IsASeq
  <1>7. CloseRows(d, T, s) = [d EXCEPT !.tasks = ts]
    BY DEF CloseRows, ts
  <1>8. DOMAIN ts = DOMAIN d.tasks
        /\ \A t \in DOMAIN d.tasks :
              ts[t] = IF t \in T THEN Closed(d.tasks[t], s) ELSE d.tasks[t]
    BY DEF ts
  <1>. QED
    BY <1>2, <1>6, <1>7, <1>8, WriteRows

(* Adding rows at the end.                                                 *)
LEMMA AddRows ==
    ASSUME NEW d \in DbType, NEW more \in Seq(RowType)
    PROVE  LET e == [d EXCEPT !.tasks = d.tasks \o more] IN
           /\ e \in DbType /\ FieldsKept(d, e)
           /\ e.tasks = d.tasks \o more
           /\ DOMAIN d.tasks \subseteq DOMAIN e.tasks
           /\ \A t \in DOMAIN d.tasks : e.tasks[t] = d.tasks[t]
           /\ \A t \in DOMAIN e.tasks \ DOMAIN d.tasks :
                 \E i \in DOMAIN more : e.tasks[t] = more[i]
  <1>1. d.tasks \in Seq(RowType)
    BY DbRows
  <1>2. /\ d.tasks \o more \in Seq(RowType)
        /\ Len(d.tasks \o more) = Len(d.tasks) + Len(more)
        /\ \A i \in 1 .. Len(d.tasks) + Len(more) :
              (d.tasks \o more)[i] = IF i <= Len(d.tasks) THEN d.tasks[i]
                                     ELSE more[i - Len(d.tasks)]
    BY <1>1, ConcatProperties
  <1>3. Len(d.tasks) \in Nat /\ DOMAIN d.tasks = 1..Len(d.tasks)
        /\ Len(more) \in Nat /\ DOMAIN more = 1..Len(more)
        /\ DOMAIN (d.tasks \o more) = 1..(Len(d.tasks) + Len(more))
    BY <1>1, <1>2
  <1> DEFINE ts == d.tasks \o more
  <1>4. \A t \in DOMAIN d.tasks : t \in DOMAIN ts /\ ts[t] = d.tasks[t]
    BY <1>2, <1>3
  <1>5. ASSUME NEW t \in DOMAIN ts \ DOMAIN d.tasks
        PROVE  t - Len(d.tasks) \in DOMAIN more /\ ts[t] = more[t - Len(d.tasks)]
    BY <1>2, <1>3
  <1>6. ts \in Seq(RowType)
    BY <1>2
  <1> HIDE DEF ts
  <1>7. [d EXCEPT !.tasks = ts] \in DbType /\ FieldsKept(d, [d EXCEPT !.tasks = ts])
        /\ [d EXCEPT !.tasks = ts].tasks = ts
    BY <1>6, WriteRows
  <1>. QED
    BY <1>4, <1>5, <1>7 DEF ts

(* What follows a database that follows another without new rows follows   *)
(* that other.                                                             *)
LEMMA GrowsTransitive ==
    ASSUME NEW d \in DbType, NEW e, NEW f, Grows(d, e), Grows(e, f),
           DOMAIN e.tasks = DOMAIN d.tasks
    PROVE  Grows(d, f)
  <1>1. DOMAIN d.tasks \subseteq DOMAIN f.tasks
    BY DEF Grows, RowsFollow
  <1>2. ASSUME NEW t \in DOMAIN d.tasks
        PROVE  \/ Quiet(d.tasks[t], f.tasks[t])
               \/ /\ d.tasks[t].status = "A"
                  /\ d.tasks[t].branch # "none"
                  /\ Shut(d.tasks[t], f.tasks[t], "F")
    <2>1. CASE Quiet(d.tasks[t], e.tasks[t]) /\ Quiet(e.tasks[t], f.tasks[t])
      BY <2>1 DEF Quiet
    <2>2. CASE /\ Quiet(d.tasks[t], e.tasks[t])
               /\ e.tasks[t].status = "A"
               /\ e.tasks[t].branch # "none"
               /\ Shut(e.tasks[t], f.tasks[t], "F")
      BY <2>2 DEF Quiet, Shut
    <2>3. CASE /\ d.tasks[t].status = "A"
               /\ d.tasks[t].branch # "none"
               /\ Shut(d.tasks[t], e.tasks[t], "F")
               /\ Quiet(e.tasks[t], f.tasks[t])
      BY <2>3 DEF Quiet, Shut
    <2>4. ~(Shut(d.tasks[t], e.tasks[t], "F") /\ e.tasks[t].status = "A")
      BY DEF Shut
    <2>. QED
      BY <2>1, <2>2, <2>3, <2>4 DEF Grows, RowsFollow
  <1>3. ASSUME NEW t \in DOMAIN f.tasks \ DOMAIN d.tasks
        PROVE  /\ New(f.tasks[t])
               /\ ~f.tasks[t].undo
               /\ f.tasks[t].branch # "none" => HasFork
    BY DEF Grows, RowsFollow
  <1>. QED
    BY <1>1, <1>2, <1>3 DEF Grows, RowsFollow, EvidenceKept

(* Functions on an initial segment, and single elements, as sequences.     *)
LEMMA SegmentIsSeq ==
    ASSUME NEW S, NEW n \in Nat, NEW f \in [1..n -> S]
    PROVE  f \in Seq(S) /\ DOMAIN f = 1..n /\ Len(f) = n
  OBVIOUS

LEMMA SingleIsSeq ==
    ASSUME NEW S, NEW r \in S
    PROVE  <<r>> \in Seq(S) /\ DOMAIN <<r>> = {1} /\ <<r>>[1] = r
  OBVIOUS

(* A definition names its own steps.                                       *)
LEMMA StepsClosed ==
    ASSUME setup \in Setups, NEW x \in StepName
    PROVE  /\ setup.steps[x].next \in StepName \cup {End}
           /\ setup.steps[x].undo \in StepName \cup {End}
           /\ setup.steps[x].branches \in Seq(StepName)
  BY SetupAssumption DEF StepName

(* advance_transition adds at most one task.                               *)
LEMMA AdvanceEffect ==
    ASSUME setup \in Setups, NEW d \in DbType, NEW step \in StepName
    PROVE  Grows(d, Advance(d, step)) /\ Advance(d, step).join = d.join
  <1> DEFINE next == setup.steps[step].next
             e    == Advance(d, step)
  <1>1. CASE next = End
    <2>1. e = [d EXCEPT !.proc = "C"]
      BY <1>1 DEF Advance
    <2>2. e \in DbType /\ e.tasks = d.tasks /\ e.state = d.state /\ e.effect = d.effect
          /\ e.ledger = d.ledger /\ e.join = d.join
      BY <2>1 DEF DbType
    <2>. QED
      BY <2>2 DEF Grows, RowsFollow, EvidenceKept, Quiet
  <1>2. CASE next # End
    <2> DEFINE more == <<NewRow(next, FALSE)>>
               f    == [d EXCEPT !.tasks = d.tasks \o more]
               p    == IF V2 THEN "A" ELSE d.proc
    <2>1. next \in StepName
      BY <1>2, StepsClosed
    <2>2. NewRow(next, FALSE) \in RowType
      BY <2>1, NewRowType
    <2>3. more \in Seq(RowType) /\ DOMAIN more = {1} /\ more[1] = NewRow(next, FALSE)
      BY <2>2, SingleIsSeq
    <2>4. d.tasks \in Seq(RowType)
      BY DbRows
    <2>5. Append(d.tasks, NewRow(next, FALSE)) = d.tasks \o more
      BY <2>2, <2>4, AppendIsConcat
    <2>6. e = [f EXCEPT !.proc = p]
      BY <1>2, <2>5 DEF Advance, DbType
    <2>7. New(more[1]) /\ ~more[1].undo /\ more[1].branch = "none"
      BY <2>3 DEF New, NewRow
    <2> HIDE DEF more
    <2>m. more \in Seq(RowType)
      BY <2>3
    <2>8. /\ f \in DbType /\ FieldsKept(d, f)
          /\ DOMAIN d.tasks \subseteq DOMAIN f.tasks
          /\ \A t \in DOMAIN d.tasks : f.tasks[t] = d.tasks[t]
          /\ \A t \in DOMAIN f.tasks \ DOMAIN d.tasks :
                \E i \in DOMAIN more : f.tasks[t] = more[i]
      BY <2>m, AddRows
    <2> HIDE DEF f
    <2>9. p \in {"A", "W", "C", "F"}
      BY DEF DbType
    <2> HIDE DEF p
    <2>10. e \in DbType /\ e.tasks = f.tasks /\ e.state = f.state /\ e.effect = f.effect
           /\ e.ledger = f.ledger /\ e.join = f.join
      BY <2>6, <2>8, <2>9 DEF DbType
    <2> HIDE DEF e
    <2>11. RowsFollow(d, e)
      BY <2>3, <2>7, <2>8, <2>10 DEF RowsFollow, Quiet
    <2>. QED
      BY <2>8, <2>10, <2>11 DEF Grows, EvidenceKept, FieldsKept, e
  <1>. QED
    BY <1>1, <1>2

(* start_fork adds a task for every branch.                                *)
LEMMA StartForkEffect ==
    ASSUME setup \in Setups, NEW d \in DbType, NEW step \in StepName,
           setup.steps[step].kind = "fork"
    PROVE  Grows(d, StartFork(d, step))
  <1> DEFINE branches == setup.steps[step].branches
             more     == [i \in 1..Len(branches) |->
                            [NewRow(branches[i], TRUE) EXCEPT !.branch = "RUNNING"]]
             f        == [d EXCEPT !.tasks = d.tasks \o more]
             e        == StartFork(d, step)
  <1>1. branches \in Seq(StepName)
    BY StepsClosed
  <1>2. ASSUME NEW i \in 1..Len(branches)
        PROVE  /\ more[i] \in RowType
               /\ New(more[i])
               /\ ~more[i].undo
    <2>1. branches[i] \in StepName
      BY <1>1
    <2>2. NewRow(branches[i], TRUE) \in RowType
      BY <2>1, NewRowType
    <2>3. more[i] = [NewRow(branches[i], TRUE) EXCEPT !.branch = "RUNNING"]
      OBVIOUS
    <2>4. more[i] \in RowType
      BY <2>2, <2>3 DEF RowType
    <2>. QED
      BY <2>3, <2>4 DEF New, NewRow
  <1>3. Len(branches) \in Nat
    BY <1>1
  <1>4. more = [i \in 1..Len(branches) |-> more[i]] /\ DOMAIN more = 1..Len(branches)
    OBVIOUS
  <1>5. e = [f EXCEPT !.join = "RUNNING"]
    BY DEF StartFork, DbType
  <1> HIDE DEF more
  <1>6. more \in Seq(RowType)
    <2>1. more \in [1..Len(branches) -> RowType]
      BY <1>2, <1>4
    <2>. QED
      BY <1>3, <2>1, SegmentIsSeq
  <1>7. /\ f \in DbType /\ FieldsKept(d, f)
        /\ DOMAIN d.tasks \subseteq DOMAIN f.tasks
        /\ \A t \in DOMAIN d.tasks : f.tasks[t] = d.tasks[t]
        /\ \A t \in DOMAIN f.tasks \ DOMAIN d.tasks :
              \E i \in DOMAIN more : f.tasks[t] = more[i]
    BY <1>6, AddRows
  <1> HIDE DEF f
  <1>8. e \in DbType /\ e.tasks = f.tasks /\ e.state = f.state /\ e.effect = f.effect
        /\ e.ledger = f.ledger
    BY <1>5, <1>7 DEF DbType
  <1> HIDE DEF e
  <1>9. HasFork
    BY DEF HasFork
  <1>10. ASSUME NEW t \in DOMAIN e.tasks \ DOMAIN d.tasks
         PROVE  New(e.tasks[t]) /\ ~e.tasks[t].undo
    <2>1. PICK i \in DOMAIN more : f.tasks[t] = more[i]
      BY <1>7, <1>8
    <2>. QED
      BY <1>2, <1>4, <1>8, <2>1
  <1>11. \A t \in DOMAIN d.tasks : e.tasks[t] = d.tasks[t]
    BY <1>7, <1>8
  <1>12. RowsFollow(d, e)
    BY <1>7, <1>8, <1>9, <1>10, <1>11 DEF RowsFollow, Quiet
  <1>. QED
    BY <1>7, <1>8, <1>12 DEF Grows, EvidenceKept, FieldsKept, e

(* A branch recorded in its row, in one row and in several.                *)
BranchState == {"none", "RUNNING", "COMPLETED", "FAILED", "CANCELLED"}

LEMMA MarkedRow ==
    ASSUME NEW r \in RowType, r.branch # "none", NEW b \in BranchState \ {"none"}
    PROVE  [r EXCEPT !.branch = b] \in RowType /\ Quiet(r, [r EXCEPT !.branch = b])
  BY DEF RowType, Quiet, BranchState

(* Fields of the database that are not rows, their type known.             *)
LEMMA JoinProc ==
    ASSUME NEW d \in DbType, NEW j \in {"none", "RUNNING", "COMPLETED", "FAILED"},
           NEW p \in {"A", "W", "C", "F"}
    PROVE  LET e == [d EXCEPT !.join = j, !.proc = p] IN
           e \in DbType /\ e.tasks = d.tasks /\ e.state = d.state
           /\ e.effect = d.effect /\ e.ledger = d.ledger
  BY DEF DbType

(* reconcile_fork_branch.                                                  *)
LEMMA BranchDoneEffect ==
    ASSUME setup \in Setups, HasFork, NEW d \in DbType, NEW t \in DOMAIN d.tasks,
           d.tasks[t].branch # "none", NEW ok \in BOOLEAN, NEW valid \in BOOLEAN
    PROVE  Resolves(d, BranchDone(d, t, ok, valid))
  <1> DEFINE fork     == CHOOSE s \in DOMAIN setup.steps : setup.steps[s].kind = "fork"
             compete  == setup.steps[fork].compete
             state    == d.tasks[t].branch
             mark     == IF state # "RUNNING" THEN state
                         ELSE IF ok THEN "COMPLETED" ELSE "FAILED"
             counted  == [d EXCEPT !.tasks[t].branch = mark]
             terminal == JoinTerminal(counted, compete)
             success  == JoinSuccess(counted, compete)
             losers   == IF compete THEN InState(counted, "RUNNING") ELSE {}
             ts       == [u \in DOMAIN counted.tasks |->
                            IF u \in losers
                            THEN [counted.tasks[u] EXCEPT !.branch = "CANCELLED"]
                            ELSE counted.tasks[u]]
             cut      == [counted EXCEPT !.tasks = ts]
             active   == {u \in Branches(cut) : cut.tasks[u].status = "A"}
             end      == IF compete THEN active ELSE {}
             shut     == CloseRows(cut, end, "F")
             joined   == [shut EXCEPT !.join = "COMPLETED"]
             failed   == [counted EXCEPT !.join = "FAILED", !.proc = "F"]
             e        == BranchDone(d, t, ok, valid)
  <1>1. /\ e = CASE d.join # "RUNNING" \/ ~terminal -> counted
                [] d.join = "RUNNING" /\ terminal /\ success ->
                      IF V2 /\ ~valid THEN FailFork(joined, fork) ELSE Advance(joined, fork)
                [] OTHER -> failed
    BY DEF BranchDone
  <1>2. \/ e = counted
        \/ e = Advance(joined, fork)
        \/ e = failed
        \/ e = FailFork(joined, fork) /\ V2 /\ d.join = "RUNNING"
    <2>1. CASE d.join # "RUNNING" \/ ~terminal
      BY <1>1, <2>1
    <2>2. CASE d.join = "RUNNING" /\ terminal /\ success
      <3>1. e = IF V2 /\ ~valid THEN FailFork(joined, fork) ELSE Advance(joined, fork)
        BY <1>1, <2>2
      <3>. QED
        BY <2>2, <3>1
    <2>3. CASE d.join = "RUNNING" /\ terminal /\ ~success
      BY <1>1, <2>3
    <2>. QED
      BY <2>1, <2>2, <2>3
  <1> HIDE DEF e
  <1>3. fork \in StepName /\ setup.steps[fork].kind = "fork"
    BY DEF HasFork, StepName
  <1>4. d.tasks[t] \in RowType
    BY DbRows
  <1>5. mark \in BranchState \ {"none"}
    BY <1>4 DEF RowType, BranchState
  <1> HIDE DEF mark, fork, compete
  <1>6. [d.tasks[t] EXCEPT !.branch = mark] \in RowType
        /\ Quiet(d.tasks[t], [d.tasks[t] EXCEPT !.branch = mark])
    BY <1>4, <1>5, MarkedRow
  <1>7. counted = [d EXCEPT !.tasks[t] = [d.tasks[t] EXCEPT !.branch = mark]]
    OBVIOUS
  <1>8. counted \in DbType /\ OthersKept(d, counted, t) /\ FieldsKept(d, counted)
        /\ Quiet(d.tasks[t], counted.tasks[t])
    BY <1>6, <1>7, WriteRow
  <1> HIDE DEF counted
  <1>9. DOMAIN counted.tasks = DOMAIN d.tasks
        /\ \A u \in DOMAIN d.tasks : Quiet(d.tasks[u], counted.tasks[u])
    BY <1>8 DEF OthersKept, Quiet
  <1>10. Grows(d, counted)
    BY <1>8, <1>9 DEF Grows, RowsFollow, EvidenceKept, FieldsKept
  <1>11. \A u \in DOMAIN counted.tasks : counted.tasks[u] \in RowType
    BY <1>8, DbRows
  <1>12. losers \subseteq Branches(counted)
    BY DEF InState
  <1> HIDE DEF losers
  <1>13. ASSUME NEW u \in DOMAIN counted.tasks
         PROVE  ts[u] \in RowType /\ Quiet(counted.tasks[u], ts[u])
    <2>1. CASE u \in losers
      <3>1. counted.tasks[u].branch # "none"
        BY <1>12, <2>1 DEF Branches
      <3>2. "CANCELLED" \in BranchState \ {"none"}
        BY DEF BranchState
      <3>3. ts[u] = [counted.tasks[u] EXCEPT !.branch = "CANCELLED"]
        BY <2>1
      <3>. QED
        BY <1>11, <3>1, <3>2, <3>3, MarkedRow
    <2>2. CASE u \notin losers
      BY <1>11, <2>2 DEF Quiet
    <2>. QED
      BY <2>1, <2>2
  <1>14. DOMAIN ts = DOMAIN counted.tasks
    OBVIOUS
  <1>15. ts \in Seq(RowType)
    <2>1. counted.tasks \in Seq(RowType)
      BY <1>8, DbRows
    <2>2. Len(counted.tasks) \in Nat /\ DOMAIN counted.tasks = 1..Len(counted.tasks)
      BY <2>1
    <2>3. ts \in [1..Len(counted.tasks) -> RowType]
      BY <1>13, <2>2
    <2> HIDE DEF ts
    <2>. QED
      BY <2>2, <2>3, SegmentIsSeq
  <1> HIDE DEF ts
  <1>16. cut \in DbType /\ FieldsKept(counted, cut) /\ cut.tasks = ts
    BY <1>8, <1>15, WriteRows
  <1> HIDE DEF cut
  <1>17. DOMAIN cut.tasks = DOMAIN d.tasks
    BY <1>9, <1>14, <1>16
  <1>18. Grows(d, cut)
    <2>1. Grows(counted, cut)
      BY <1>13, <1>14, <1>16 DEF Grows, RowsFollow, EvidenceKept, FieldsKept
    <2>. QED
      BY <1>9, <1>10, <2>1, GrowsTransitive
  <1>19. \A u \in end : u \in DOMAIN cut.tasks /\ cut.tasks[u].status = "A"
                        /\ cut.tasks[u].branch # "none"
    BY DEF Branches
  <1> HIDE DEF end
  <1>20. /\ shut \in DbType /\ FieldsKept(cut, shut)
         /\ DOMAIN shut.tasks = DOMAIN cut.tasks
         /\ \A u \in DOMAIN cut.tasks :
               IF u \in end THEN Shut(cut.tasks[u], shut.tasks[u], "F")
               ELSE shut.tasks[u] = cut.tasks[u]
    BY <1>16, CloseRowsEffect
  <1> HIDE DEF shut
  <1>21. joined \in DbType /\ joined.tasks = shut.tasks /\ joined.state = shut.state
         /\ joined.effect = shut.effect /\ joined.ledger = shut.ledger
         /\ joined.join = "COMPLETED"
    BY <1>20 DEF DbType
  <1> HIDE DEF joined
  <1>22. ASSUME NEW u \in DOMAIN cut.tasks
         PROVE  \/ Quiet(cut.tasks[u], joined.tasks[u])
                \/ /\ cut.tasks[u].status = "A"
                   /\ cut.tasks[u].branch # "none"
                   /\ Shut(cut.tasks[u], joined.tasks[u], "F")
    BY <1>19, <1>20, <1>21 DEF Quiet
  <1>23. Grows(cut, joined)
    BY <1>20, <1>21, <1>22 DEF Grows, RowsFollow, EvidenceKept, FieldsKept
  <1>24. Grows(d, joined) /\ DOMAIN joined.tasks = DOMAIN d.tasks
    BY <1>17, <1>18, <1>20, <1>21, <1>23, GrowsTransitive
  <1>25. Grows(d, Advance(joined, fork))
    <2>1. Grows(joined, Advance(joined, fork))
      BY <1>3, <1>21, AdvanceEffect
    <2>. QED
      BY <1>24, <2>1, GrowsTransitive
  <1>26. Grows(d, failed)
    <2>1. failed \in DbType /\ failed.tasks = counted.tasks /\ failed.state = counted.state
          /\ failed.effect = counted.effect /\ failed.ledger = counted.ledger
      BY <1>8, JoinProc
    <2>. QED
      BY <1>10, <2>1 DEF Grows, RowsFollow, EvidenceKept
  <1>27. CASE Grows(d, e)
    BY <1>27 DEF Grows, RowsFollow, Resolves, RowsConclude, e
  <1>28. CASE e = FailFork(joined, fork) /\ V2 /\ d.join = "RUNNING"
    <2> DEFINE P == Pending(joined, fork)
               g == CloseRows(joined, P, "F")
    <2>1. e = [g EXCEPT !.proc = "F"]
      BY <1>28 DEF FailFork
    <2>2. \A u \in P : u \in DOMAIN joined.tasks /\ joined.tasks[u].step = fork
                       /\ ~joined.tasks[u].undo /\ joined.tasks[u].status = "C"
      BY DEF Pending
    <2> HIDE DEF P
    <2>3. /\ g \in DbType /\ FieldsKept(joined, g)
          /\ DOMAIN g.tasks = DOMAIN joined.tasks
          /\ \A u \in DOMAIN joined.tasks :
                IF u \in P THEN Shut(joined.tasks[u], g.tasks[u], "F")
                ELSE g.tasks[u] = joined.tasks[u]
      BY <1>21, CloseRowsEffect
    <2> HIDE DEF g
    <2>4. e \in DbType /\ e.tasks = g.tasks /\ e.state = g.state /\ e.effect = g.effect
          /\ e.ledger = g.ledger /\ e.join = g.join /\ e.proc = "F"
      BY <2>1, <2>3 DEF DbType
    <2>5. ASSUME NEW u \in DOMAIN d.tasks
          PROVE  \/ Quiet(d.tasks[u], e.tasks[u])
                 \/ /\ d.tasks[u].status = "A"
                    /\ d.tasks[u].branch # "none"
                    /\ Shut(d.tasks[u], e.tasks[u], "F")
                 \/ Refuted(d, e, u)
      <3>1. \/ Quiet(d.tasks[u], joined.tasks[u])
            \/ /\ d.tasks[u].status = "A"
               /\ d.tasks[u].branch # "none"
               /\ Shut(d.tasks[u], joined.tasks[u], "F")
        BY <1>24 DEF Grows, RowsFollow
      <3>2. CASE u \notin P
        BY <1>24, <2>3, <2>4, <3>1, <3>2
      <3>3. CASE u \in P
        <4>1. joined.tasks[u].status = "C" /\ joined.tasks[u].step = fork
              /\ ~joined.tasks[u].undo
          BY <2>2, <3>3
        <4>2. Quiet(d.tasks[u], joined.tasks[u])
          BY <3>1, <4>1 DEF Shut
        <4>3. Shut(joined.tasks[u], e.tasks[u], "F")
          BY <1>24, <2>3, <2>4, <3>3
        <4>4. Shut(d.tasks[u], e.tasks[u], "F")
          BY <4>2, <4>3 DEF Shut, Quiet
        <4>5. d.tasks[u].status = "C" /\ ~d.tasks[u].undo /\ d.tasks[u].step = fork
          BY <4>1, <4>2 DEF Quiet
        <4>6. e.join = "COMPLETED"
          BY <1>21, <2>3, <2>4 DEF FieldsKept
        <4>. QED
          BY <1>3, <1>28, <2>4, <4>4, <4>5, <4>6 DEF Refuted
      <3>. QED
        BY <3>2, <3>3
    <2>6. RowsConclude(d, e)
      BY <1>24, <2>3, <2>4, <2>5 DEF RowsConclude
    <2>7. EvidenceKept(d, e) /\ e.state = d.state
      BY <1>24, <2>3, <2>4 DEF Grows, EvidenceKept, FieldsKept
    <2>. QED
      BY <2>4, <2>6, <2>7 DEF Resolves, e
  <1>. QED
    BY <1>2, <1>10, <1>25, <1>26, <1>27, <1>28

(* e is d with at most the invocation brought in line with its process.    *)
Synced(d, e) ==
    /\ e \in DbType
    /\ e.tasks = d.tasks /\ e.effect = d.effect /\ e.ledger = d.ledger
    /\ e.proc = d.proc /\ e.join = d.join
    /\ d.state \in Terminal => e.state = d.state
    /\ e.state # "COMPENSATING"
    /\ e.state = "CANCELLED" => d.state = "CANCELLED"
    /\ d.proc = "F" /\ d.state \notin Terminal => e.state = "FAILED"

(* sync_invocation_state.                                                  *)
LEMMA SyncEffect ==
    ASSUME NEW d \in DbType, NEW valid \in BOOLEAN
    PROVE  Synced(d, Sync(d, valid))
  BY DEF Synced, Sync, DbType, Live, Terminal

(* finish_task, from the row on: the row is closed, the others follow, and *)
(* an invocation that has ended stays as it is.                            *)
LEMMA ConcludeEffect ==
    ASSUME setup \in Setups, NEW d \in DbType, NEW t \in DOMAIN d.tasks,
           d.tasks[t].branch # "none" => HasFork,
           NEW ok \in BOOLEAN, NEW valid \in BOOLEAN
    PROVE  LET c == CloseRow(d, t, IF ok THEN "C" ELSE "F")
               e == Conclude(d, t, ok, valid) IN
           /\ e \in DbType
           /\ RowsConclude(c, e)
           /\ EvidenceKept(c, e)
           /\ d.state \in Terminal => e.state = d.state
           /\ d.state # "COMPENSATING" => e.state # "COMPENSATING"
           /\ e.state = "CANCELLED" => d.state = "CANCELLED"
           /\ V2 /\ d.join = "RUNNING" /\ e.join = "COMPLETED" /\ e.proc = "F"
                 /\ d.state \notin Terminal => e.state = "FAILED"
  <1> DEFINE step   == d.tasks[t].step
             s      == IF ok THEN "C" ELSE "F"
             closed == CloseRow(d, t, s)
             branch == d.tasks[t].branch # "none"
             fork   == setup.steps[step].kind = "fork"
             done   == CASE branch                 -> BranchDone(closed, t, ok, valid)
                         [] ~branch /\ ~ok         -> [closed EXCEPT !.proc = "F"]
                         [] ~branch /\ ok /\ fork  -> StartFork(closed, step)
                         [] OTHER                  -> Advance(closed, step)
             silent == \/ ~branch /\ fork
                       \/ branch /\ ~(d.join = "RUNNING" /\ done.join = "COMPLETED")
             e      == Conclude(d, t, ok, valid)
  <1>1. e = IF V2 /\ ok /\ silent THEN done ELSE Sync(done, valid \/ V2)
    BY DEF Conclude
  <1>2. s \in {"A", "W", "C", "F"}
    OBVIOUS
  <1>3. closed \in DbType /\ OthersKept(d, closed, t) /\ FieldsKept(d, closed)
        /\ Shut(d.tasks[t], closed.tasks[t], s)
    BY <1>2, CloseRowEffect
  <1> HIDE DEF closed, s
  <1>4. step \in StepName
    BY DbRows DEF RowType, StepName
  <1> HIDE DEF step
  <1>5. Resolves(closed, done)
    <2>1. CASE branch
      <3>1. closed.tasks[t].branch # "none" /\ t \in DOMAIN closed.tasks
        BY <1>3, <2>1 DEF Shut, OthersKept
      <3>2. done = BranchDone(closed, t, ok, valid)
        BY <2>1
      <3>. QED
        BY <1>3, <2>1, <3>1, <3>2, BranchDoneEffect
    <2>2. CASE ~branch /\ ~ok
      <3>1. done = [closed EXCEPT !.proc = "F"]
        BY <2>2
      <3>2. done \in DbType /\ done.tasks = closed.tasks /\ done.state = closed.state
            /\ done.effect = closed.effect /\ done.ledger = closed.ledger
        BY <1>3, <3>1 DEF DbType
      <3> HIDE DEF done
      <3>. QED
        BY <3>2 DEF Resolves, RowsConclude, EvidenceKept, Quiet
    <2>3. CASE ~branch /\ ok /\ fork
      <3>1. done = StartFork(closed, step)
        BY <2>3
      <3>2. Grows(closed, done)
        BY <1>3, <1>4, <2>3, <3>1, StartForkEffect
      <3> HIDE DEF done
      <3>. QED
        BY <3>2 DEF Grows, RowsFollow, Resolves, RowsConclude
    <2>4. CASE ~branch /\ ok /\ ~fork
      <3>1. done = Advance(closed, step)
        BY <2>4
      <3>2. Grows(closed, done)
        BY <1>3, <1>4, <3>1, AdvanceEffect
      <3> HIDE DEF done
      <3>. QED
        BY <3>2 DEF Grows, RowsFollow, Resolves, RowsConclude
    <2>. QED
      BY <2>1, <2>2, <2>3, <2>4
  <1>s. ok /\ silent => ~(d.join = "RUNNING" /\ done.join = "COMPLETED")
    <2>1. CASE branch
      <3> HIDE DEF done
      <3>. QED
        BY <2>1
    <2>2. CASE ~branch /\ fork /\ ok
      <3>1. done = StartFork(closed, step)
        BY <2>2
      <3>2. done.join = "RUNNING"
        BY <1>3, <3>1 DEF StartFork, DbType
      <3>. QED
        BY <3>2
    <2> HIDE DEF done
    <2>. QED
      BY <2>1, <2>2
  <1> HIDE DEF done, silent
  <1>6. done \in DbType /\ done.state = d.state
    BY <1>3, <1>5 DEF Resolves, FieldsKept
  <1>7. CASE e = done /\ ok /\ silent
    BY <1>5, <1>6, <1>7, <1>s DEF Resolves, closed, s
  <1>8. CASE e = Sync(done, valid \/ V2)
    <2>1. /\ e \in DbType
          /\ e.tasks = done.tasks /\ e.effect = done.effect /\ e.ledger = done.ledger
          /\ done.state \in Terminal => e.state = done.state
          /\ e.state # "COMPENSATING"
          /\ e.state = "CANCELLED" => done.state = "CANCELLED"
          /\ e.proc = done.proc /\ e.join = done.join
          /\ done.proc = "F" /\ done.state \notin Terminal => e.state = "FAILED"
      <3> DEFINE v == valid \/ V2
      <3>1. v \in BOOLEAN
        BY DEF V2
      <3>2. e = Sync(done, v)
        BY <1>8
      <3> HIDE DEF v, done
      <3>3. Synced(done, Sync(done, v))
        BY <1>6, <3>1, SyncEffect
      <3> HIDE DEF e
      <3>. QED
        BY <3>2, <3>3 DEF Synced
    <2>2. RowsConclude(closed, e) /\ EvidenceKept(closed, e)
      BY <1>5, <2>1 DEF Resolves, RowsConclude, EvidenceKept, Refuted
    <2>. QED
      BY <1>6, <2>1, <2>2 DEF closed, s
  <1>. QED
    BY <1>1, <1>7, <1>8

-----------------------------------------------------------------------------
(* The invariants.                                                         *)

WorkerType ==
    [pc : Pc, task : Nat, fence : Nat,
     out : {"NONE", "OK", "LAST", "WAIT", "HTTP", "ERROR", "FATAL"}]

(* The types, but for the budget, whose counters only stay natural because *)
(* of what Budgeted says; an executor at work has a row, and a branch      *)
(* comes from a fork.                                                      *)
Typed ==
    /\ setup \in Setups
    /\ db \in DbType
    /\ late \in BOOLEAN
    /\ worker \in [Worker -> WorkerType]
    /\ sent \in [count : Nat, steps : SUBSET StepName]
    /\ faults \in 0..MaxFaults
    /\ \A w \in Worker : worker[w].pc # "idle" => worker[w].task \in DOMAIN db.tasks
    /\ \A t \in DOMAIN db.tasks : db.tasks[t].branch # "none" => HasFork

(* A lease is held on an active row only, a row sleeps with its alarm set, *)
(* and a compensation is no branch of a fork.                              *)
RowOK(r) ==
    /\ r.owner # NoWorker => r.status = "A"
    /\ r.status = "W" <=> r.timer = "ARMED"
    /\ r.undo => r.branch = "none"

(* Compensations exist only once the invocation has had an effect and is   *)
(* no longer live; while it is compensated for, nothing else is left to    *)
(* do; and whoever has counted the remaining compensations still has the   *)
(* row it counted itself out of.                                           *)
Orderly ==
    /\ \A t \in DOMAIN db.tasks : RowOK(db.tasks[t])
    /\ \A t \in DOMAIN db.tasks : db.tasks[t].undo => db.state \notin Live /\ db.effect # "none"
    /\ db.state = "COMPENSATING" =>
          \A t \in DOMAIN db.tasks : db.tasks[t].undo \/ Ended(db.tasks[t].status)
    /\ \A w \in Worker : worker[w].pc = "counted" =>
          Row(w).owner = w /\ Row(w).undo /\ worker[w].out \in {"OK", "LAST"}

(* The invocation carries the mark of an effect before a request leaves.   *)
Marked ==
    (sent.count > 0 \/ \E w \in Worker : worker[w].pc \in {"open", "fenced"})
        => db.effect # "none"

Busy   == {w \in Worker : worker[w].pc \in Executing \cup {"settling"}}
Unsent == {w \in Worker : worker[w].pc \in {"running", "ledger", "marked", "open", "fenced"}}

(* Every executor at a task has an attempt reserved; every request, sent   *)
(* or about to be, is one of the attempts used or reserved; and they stay  *)
(* within the budget.                                                      *)
Budgeted ==
    /\ budget \in [used : Nat, reserved : Nat]
    /\ Cardinality(Busy) <= budget.reserved
    /\ sent.count + Cardinality(Unsent) <= budget.used + budget.reserved
    /\ budget.used + budget.reserved <= setup.limit

Confirmed(step) == db.ledger[step] = "confirmed"

(* Where a success comes from: a confirmed ledger row stands for a request *)
(* that left, an executor with a success for a confirmed ledger row, and   *)
(* only a wait has a timer.                                                *)
ExecutorEvidence(w) ==
    /\ worker[w].pc = "answered" => Row(w).step \in sent.steps
    /\ worker[w].pc \in {"confirmTask", "confirmInvocation"} => Confirmed(Row(w).step)
    /\ worker[w].pc # "idle" /\ worker[w].out \in {"OK", "LAST"} /\ Kind(w) = "write"
          => Confirmed(Row(w).step)
    /\ worker[w].pc # "idle" /\ worker[w].out = "WAIT" => Kind(w) = "wait"

RowEvidence(t) ==
    /\ db.tasks[t].timer # "none" => Task(t).kind = "wait"
    /\ db.tasks[t].status = "C" /\ Task(t).kind = "write" => Confirmed(db.tasks[t].step)

Evidence ==
    /\ \A s \in StepName : Confirmed(s) => s \in sent.steps
    /\ \A w \in Worker : ExecutorEvidence(w)
    /\ \A t \in DOMAIN db.tasks : RowEvidence(t)

-----------------------------------------------------------------------------
(* What any transaction may do.                                            *)

(* A row keeps what it stands for and, once it has ended, its status.      *)
RowMoves(r, q) ==
    /\ q.step = r.step
    /\ q.undo = r.undo
    /\ q.branch = "none" <=> r.branch = "none"
    /\ Ended(r.status) => q.status = r.status
    /\ RowOK(q)

(* The steps whose answer has come.                                        *)
Answered ==
    {s \in StepName : \E w \in Worker : worker[w].pc = "answered" /\ Row(w).step = s}

(* So does the invocation; it is cancelled outright before any effect.     *)
(* The ledger confirms only what has been answered, and for good.          *)
StateMoves(d, e) ==
    /\ d.state \in Terminal => e.state = d.state
    /\ d.state = "COMPENSATING" => e.state \in {"COMPENSATING", "CANCELLED", "FAILED"}
    /\ d.state \in Live /\ e.state = "CANCELLED" => d.effect = "none"
    /\ d.effect # "none" => e.effect # "none"
    /\ \A s \in StepName :
          /\ d.ledger[s] = "confirmed" => e.ledger[s] = "confirmed"
          /\ e.ledger[s] = "confirmed" => d.ledger[s] = "confirmed" \/ s \in Answered

(* The rows that may be completed, and those that may get a timer.         *)
Fulfilled ==
    {t \in DOMAIN db.tasks :
        \/ db.tasks[t].timer = "ARMED"
        \/ \E w \in Worker : /\ worker[w].pc # "idle" /\ worker[w].task = t
                             /\ worker[w].out \in {"OK", "LAST"}}

Sleeping ==
    {t \in DOMAIN db.tasks :
        \E w \in Worker : worker[w].pc # "idle" /\ worker[w].task = t /\ worker[w].out = "WAIT"}

RowFollows(t, q) ==
    /\ RowMoves(db.tasks[t], q)
    /\ q.status = "C" => db.tasks[t].status = "C" \/ t \in Fulfilled
    /\ q.timer # "none" => db.tasks[t].timer # "none" \/ t \in Sleeping

(* The row of a v2 fork fails as its join succeeds, and the invocation     *)
(* with it.                                                                *)
ForkFails(t, e) ==
    /\ Joining(t)
    /\ Shut(db.tasks[t], e.tasks[t], "F")
    /\ RowOK(e.tasks[t])
    /\ e.join = "COMPLETED" /\ e.proc = "F" /\ e.state = "FAILED"

(* What a row keeps in either case.                                        *)
RowKept(t, q) ==
    /\ q.step = db.tasks[t].step
    /\ q.undo = db.tasks[t].undo
    /\ q.branch = "none" <=> db.tasks[t].branch = "none"
    /\ Ended(db.tasks[t].status) => Ended(q.status)
    /\ RowOK(q)
    /\ q.status = "C" => db.tasks[t].status = "C" \/ t \in Fulfilled
    /\ q.timer # "none" => db.tasks[t].timer # "none" \/ t \in Sleeping

(* e is what a transaction may make of the database, when the executors    *)
(* outside A do nothing.                                                   *)
Follows(e, A) ==
    /\ e \in DbType
    /\ DOMAIN db.tasks \subseteq DOMAIN e.tasks
    /\ \A t \in DOMAIN db.tasks : RowFollows(t, e.tasks[t]) \/ ForkFails(t, e)
    /\ \A t \in DOMAIN e.tasks \ DOMAIN db.tasks :
          /\ New(e.tasks[t]) /\ RowOK(e.tasks[t])
          /\ e.tasks[t].branch # "none" => HasFork
          /\ e.tasks[t].undo => e.state = "COMPENSATING" /\ e.effect # "none"
    /\ StateMoves(db, e)
    /\ e.state = "COMPENSATING" =>
          \A t \in DOMAIN e.tasks : e.tasks[t].undo \/ Ended(e.tasks[t].status)
    /\ \A u \in Worker \ A : worker[u].pc = "counted" => e.tasks[worker[u].task].owner = u

LEMMA FollowsKeeps ==
    ASSUME NEW e, NEW A, Follows(e, A), NEW t \in DOMAIN db.tasks
    PROVE  RowKept(t, e.tasks[t])
  <1>1. CASE RowFollows(t, e.tasks[t])
    BY <1>1 DEF RowFollows, RowMoves, RowKept
  <1>2. CASE ForkFails(t, e)
    BY <1>2 DEF ForkFails, Shut, RowKept, Ended
  <1>. QED
    BY <1>1, <1>2 DEF Follows

(* A row that is left alone, or whose effect, branch or lease's age is     *)
(* written.                                                                *)
LEMMA QuietFollows ==
    ASSUME Typed, Orderly, NEW t \in DOMAIN db.tasks, NEW q, Quiet(db.tasks[t], q)
    PROVE  RowFollows(t, q)
  BY DEF Orderly, RowFollows, RowMoves, RowOK, Quiet

(* A row that is closed while it is open.                                  *)
LEMMA ShutFollows ==
    ASSUME Typed, Orderly, NEW t \in DOMAIN db.tasks, NEW q, NEW s \in {"A", "C", "F"},
           Shut(db.tasks[t], q, s), ~Ended(db.tasks[t].status),
           db.tasks[t].status = "W" => s = "F",
           s = "C" => t \in Fulfilled
    PROVE  RowFollows(t, q)
  <1>1. RowOK(db.tasks[t]) /\ db.tasks[t] \in RowType
    BY DbRows DEF Orderly, Typed
  <1>2. RowOK(q)
    BY <1>1 DEF Shut, RowOK, Ended, RowType
  <1>3. RowMoves(db.tasks[t], q)
    BY <1>2 DEF RowMoves, Shut
  <1>4. q.timer # "none" => db.tasks[t].timer # "none"
    BY DEF Shut
  <1>. QED
    BY <1>3, <1>4 DEF RowFollows, Shut

(* A transaction that leaves the rows alone.                               *)
LEMMA FieldsFollow ==
    ASSUME Typed, Orderly, NEW A, NEW e \in DbType, e.tasks = db.tasks, e.state = db.state,
           db.effect # "none" => e.effect # "none",
           \A s \in StepName :
              /\ db.ledger[s] = "confirmed" => e.ledger[s] = "confirmed"
              /\ e.ledger[s] = "confirmed" => db.ledger[s] = "confirmed" \/ s \in Answered
    PROVE  Follows(e, A)
  <1>1. \A t \in DOMAIN db.tasks : RowFollows(t, e.tasks[t])
    BY QuietFollows DEF Quiet
  <1>2. StateMoves(db, e)
    BY DEF StateMoves, Live
  <1>3. \A u \in Worker \ A : worker[u].pc = "counted" => e.tasks[worker[u].task].owner = u
    BY DEF Orderly, Row
  <1>. QED
    BY <1>1, <1>2, <1>3 DEF Follows, Orderly

(* A transaction that writes one row.                                      *)
LEMMA OneRowFollows ==
    ASSUME Typed, Orderly, NEW A, NEW e \in DbType, NEW t \in DOMAIN db.tasks,
           OthersKept(db, e, t), RowFollows(t, e.tasks[t]), StateMoves(db, e),
           e.state = "COMPENSATING" =>
               db.state = "COMPENSATING" /\ (db.tasks[t].undo \/ Ended(e.tasks[t].status)),
           \A u \in Worker \ A :
               worker[u].pc = "counted" /\ worker[u].task = t => e.tasks[t].owner = u
    PROVE  Follows(e, A)
  <1>1. DOMAIN e.tasks = DOMAIN db.tasks
    BY DEF OthersKept
  <1>2. \A u \in DOMAIN db.tasks : u # t => e.tasks[u] = db.tasks[u]
    BY DEF OthersKept
  <1>3. \A u \in DOMAIN db.tasks : RowFollows(u, e.tasks[u])
    BY <1>2, QuietFollows DEF Quiet
  <1>4. e.tasks[t].undo = db.tasks[t].undo
    BY DEF RowFollows, RowMoves
  <1>5. e.state = "COMPENSATING" =>
          \A u \in DOMAIN e.tasks : e.tasks[u].undo \/ Ended(e.tasks[u].status)
    BY <1>1, <1>2, <1>4 DEF Orderly
  <1>6. \A u \in Worker \ A : worker[u].pc = "counted" => e.tasks[worker[u].task].owner = u
    BY <1>2 DEF Orderly, Row, Typed
  <1>. QED
    BY <1>1, <1>3, <1>5, <1>6 DEF Follows

(* Whoever holds the lease of a row is the only one to have counted it.    *)
LEMMA HolderAlone ==
    ASSUME Orderly, NEW w \in Worker, Holds(w), NEW u \in Worker,
           worker[u].pc = "counted", worker[u].task = worker[w].task
    PROVE  u = w
  BY DEF Orderly, Holds, Row

(* A held row is active.                                                   *)
LEMMA HeldRow ==
    ASSUME Typed, Orderly, NEW w \in Worker, Holds(w)
    PROVE  /\ worker[w].task \in DOMAIN db.tasks
           /\ Row(w) \in RowType /\ Row(w).status = "A" /\ ~Ended(Row(w).status)
           /\ Row(w).timer # "ARMED"
           /\ Row(w).undo \/ db.state # "COMPENSATING"
  <1>1. worker[w].task \in DOMAIN db.tasks /\ Row(w).owner = w
    BY DEF Holds
  <1>2. Row(w) \in RowType
    BY <1>1, DbRows DEF Row, Typed
  <1>3. w # NoWorker
    BY HostAssumption
  <1>4. Row(w).status = "A" /\ Row(w).timer # "ARMED"
    BY <1>1, <1>3 DEF Orderly, RowOK, Row
  <1>5. ~Ended(Row(w).status)
    BY <1>4 DEF Ended
  <1>. QED
    BY <1>1, <1>2, <1>4, <1>5 DEF Orderly, Row

InvocationState == Live \cup Terminal \cup {"COMPENSATING"}

LEMMA MoveEffect ==
    ASSUME NEW d \in DbType, NEW from, NEW to \in InvocationState
    PROVE  LET e == MoveInvocation(d, from, to) IN
           /\ e \in DbType
           /\ e.tasks = d.tasks /\ e.effect = d.effect /\ e.ledger = d.ledger
           /\ e.state = IF d.state \in from THEN to ELSE d.state
  BY DEF MoveInvocation, DbType, InvocationState

LEMMA FailProcessEffect ==
    ASSUME NEW d \in DbType
    PROVE  LET e == FailProcess(d) IN
           /\ e \in DbType
           /\ e.tasks = d.tasks /\ e.effect = d.effect /\ e.ledger = d.ledger
           /\ e.state = d.state
  BY DEF FailProcess, DbType

LEMMA ProcEffect ==
    ASSUME NEW d \in DbType, NEW p \in {"A", "W", "C", "F"}
    PROVE  LET e == [d EXCEPT !.proc = p] IN
           /\ e \in DbType
           /\ e.tasks = d.tasks /\ e.effect = d.effect /\ e.ledger = d.ledger
           /\ e.state = d.state /\ e.join = d.join
  BY DEF DbType

(* A transaction that closes one row.                                      *)
LEMMA CloseFollows ==
    ASSUME Typed, Orderly, NEW A, NEW t \in DOMAIN db.tasks, NEW s \in {"A", "C", "F"},
           NEW e \in DbType, e.tasks = CloseRow(db, t, s).tasks,
           ~Ended(db.tasks[t].status), db.tasks[t].status = "W" => s = "F",
           s = "C" => t \in Fulfilled,
           StateMoves(db, e),
           e.state = "COMPENSATING" =>
               db.state = "COMPENSATING" /\ (db.tasks[t].undo \/ s # "A"),
           \A u \in Worker \ A : worker[u].pc = "counted" => worker[u].task # t
    PROVE  Follows(e, A)
  <1> DEFINE c == CloseRow(db, t, s)
  <1>1. c \in DbType /\ OthersKept(db, c, t) /\ Shut(db.tasks[t], c.tasks[t], s)
    BY CloseRowEffect DEF Typed
  <1> HIDE DEF c
  <1>2. OthersKept(db, e, t) /\ Shut(db.tasks[t], e.tasks[t], s)
    BY <1>1 DEF OthersKept, c
  <1>3. RowFollows(t, e.tasks[t])
    BY <1>2, ShutFollows
  <1>4. s # "A" => Ended(e.tasks[t].status)
    BY <1>2 DEF Shut, Ended
  <1>. QED
    BY <1>2, <1>3, <1>4, OneRowFollows

(* durable_timer::stop and fail_invocation_budget.                         *)
LEMMA StopFollows ==
    ASSUME Typed, Orderly, NEW A, NEW t \in DOMAIN db.tasks, ~Ended(db.tasks[t].status),
           \A u \in Worker \ A : worker[u].pc = "counted" => worker[u].task # t
    PROVE  Follows(Stop(db, t), A) /\ Follows(FailBudget(db, t), A)
  <1> DEFINE c == CloseRow(db, t, "F")
             f == FailProcess(c)
  <1>1. c \in DbType /\ FieldsKept(db, c)
    BY CloseRowEffect DEF Typed
  <1>2. f \in DbType /\ f.tasks = c.tasks /\ f.effect = db.effect /\ f.ledger = db.ledger /\ f.state = db.state
    BY <1>1, FailProcessEffect DEF FieldsKept
  <1> HIDE DEF f
  <1>3. ASSUME NEW from, from = Live \/ from = Live \cup {"COMPENSATING"}
        PROVE  Follows(MoveInvocation(f, from, "FAILED"), A)
    <2> DEFINE e == MoveInvocation(f, from, "FAILED")
    <2>1. "FAILED" \in InvocationState
      BY DEF InvocationState, Terminal
    <2>2. e \in DbType /\ e.tasks = c.tasks /\ e.effect = db.effect /\ e.ledger = db.ledger
          /\ e.state = IF db.state \in from THEN "FAILED" ELSE db.state
      BY <1>2, <2>1, MoveEffect
    <2> HIDE DEF e
    <2>3. StateMoves(db, e)
      BY <1>3, <2>2 DEF StateMoves, Live, Terminal
    <2>4. e.state = "COMPENSATING" => db.state = "COMPENSATING"
      BY <2>2
    <2>5. Follows(e, A)
      BY <2>2, <2>3, <2>4, CloseFollows
    <2>. QED
      BY <2>5 DEF e
  <1>. QED
    BY <1>3 DEF Stop, FailBudget, f

(* A transaction that concludes a task, its timer fired or not.            *)
LEMMA ConcludeFollows ==
    ASSUME Typed, Orderly, NEW A, NEW t \in DOMAIN db.tasks, NEW d \in DbType,
           OthersKept(db, d, t), d.state = db.state, d.join = db.join, EvidenceKept(db, d),
           d.tasks[t].step = db.tasks[t].step, d.tasks[t].undo = db.tasks[t].undo,
           d.tasks[t].branch = db.tasks[t].branch, d.tasks[t].timer # "ARMED",
           d.tasks[t].timer # "none" => db.tasks[t].timer # "none",
           ~Ended(db.tasks[t].status), ~db.tasks[t].undo, db.state # "COMPENSATING",
           V2 => db.state \in Live,
           NEW ok \in BOOLEAN, ok => t \in Fulfilled, NEW valid \in BOOLEAN
    PROVE  Follows(Conclude(d, t, ok, valid), A)
  <1> DEFINE s == IF ok THEN "C" ELSE "F"
             c == CloseRow(d, t, s)
             e == Conclude(d, t, ok, valid)
  <1>1. t \in DOMAIN d.tasks /\ DOMAIN d.tasks = DOMAIN db.tasks
    BY DEF OthersKept
  <1>2. d.tasks[t].branch # "none" => HasFork
    BY DEF Typed
  <1>3. setup \in Setups
    BY DEF Typed
  <1>4. /\ e \in DbType
        /\ RowsConclude(c, e)
        /\ EvidenceKept(c, e)
        /\ d.state \in Terminal => e.state = d.state
        /\ d.state # "COMPENSATING" => e.state # "COMPENSATING"
        /\ e.state = "CANCELLED" => d.state = "CANCELLED"
        /\ V2 /\ d.join = "RUNNING" /\ e.join = "COMPLETED" /\ e.proc = "F"
              /\ d.state \notin Terminal => e.state = "FAILED"
    BY <1>1, <1>2, <1>3, ConcludeEffect
  <1> HIDE DEF e
  <1>5. s \in {"A", "W", "C", "F"} /\ Ended(s) /\ (s = "C" => ok)
    BY DEF Ended
  <1> HIDE DEF s
  <1>6. c \in DbType /\ OthersKept(d, c, t) /\ FieldsKept(d, c)
        /\ Shut(d.tasks[t], c.tasks[t], s)
    BY <1>1, <1>5, CloseRowEffect
  <1> HIDE DEF c
  <1>7. DOMAIN c.tasks = DOMAIN db.tasks
        /\ \A u \in DOMAIN db.tasks : u # t => c.tasks[u] = db.tasks[u]
    BY <1>6 DEF OthersKept
  <1>8. ASSUME NEW u \in DOMAIN db.tasks, u # t
        PROVE  \/ Quiet(db.tasks[u], e.tasks[u])
               \/ /\ db.tasks[u].status = "A"
                  /\ db.tasks[u].branch # "none"
                  /\ Shut(db.tasks[u], e.tasks[u], "F")
               \/ Refuted(c, e, u)
    BY <1>4, <1>7, <1>8 DEF RowsConclude
  <1>r. ASSUME NEW u \in DOMAIN db.tasks, u # t, Refuted(c, e, u)
        PROVE  ForkFails(u, e) /\ ~db.tasks[u].undo
    <2>1. c.tasks[u] = db.tasks[u] /\ c.join = db.join
      BY <1>6, <1>7, <1>r DEF FieldsKept
    <2>2. /\ V2 /\ db.join = "RUNNING" /\ e.join = "COMPLETED" /\ e.proc = "F"
          /\ setup.steps[db.tasks[u].step].kind = "fork"
          /\ db.tasks[u].status = "C" /\ ~db.tasks[u].undo
          /\ Shut(db.tasks[u], e.tasks[u], "F")
      BY <1>r, <2>1 DEF Refuted
    <2>3. e.state = "FAILED"
      BY <1>4, <2>2 DEF Live, Terminal
    <2>4. RowOK(db.tasks[u])
      BY DEF Orderly
    <2>5. RowOK(e.tasks[u])
      BY <2>2, <2>4 DEF RowOK, Shut
    <2>6. Joining(u)
      BY <2>2 DEF Joining, Task
    <2>. QED
      BY <2>2, <2>3, <2>5, <2>6 DEF ForkFails
  <1>9. ASSUME NEW u \in DOMAIN db.tasks, u # t
        PROVE  RowFollows(u, e.tasks[u]) \/ ForkFails(u, e)
    <2>1. CASE Quiet(db.tasks[u], e.tasks[u])
      BY <2>1, QuietFollows
    <2>2. CASE db.tasks[u].status = "A" /\ Shut(db.tasks[u], e.tasks[u], "F")
      <3>1. ~Ended(db.tasks[u].status)
        BY <2>2 DEF Ended
      <3>. QED
        BY <2>2, <3>1, ShutFollows
    <2>. QED
      BY <1>8, <1>9, <1>r, <2>1, <2>2
  <1>10. Quiet(c.tasks[t], e.tasks[t]) \/ Shut(c.tasks[t], e.tasks[t], "F")
    <2>1. c.tasks[t].status # "A"
      BY <1>5, <1>6 DEF Shut, Ended
    <2>. QED
      BY <1>4, <1>7, <2>1 DEF RowsConclude, Refuted
  <1>11. RowFollows(t, e.tasks[t])
    <2>1. /\ e.tasks[t].status = s \/ e.tasks[t].status = "F"
          /\ e.tasks[t].owner = NoWorker
          /\ e.tasks[t].timer # "ARMED"
          /\ e.tasks[t].timer # "none" => db.tasks[t].timer # "none"
          /\ e.tasks[t].step = db.tasks[t].step
          /\ e.tasks[t].undo = db.tasks[t].undo
          /\ e.tasks[t].branch = "none" <=> db.tasks[t].branch = "none"
      BY <1>6, <1>10 DEF Shut, Quiet
    <2>2. RowOK(e.tasks[t])
      BY <1>5, <2>1 DEF RowOK, Ended
    <2>. QED
      BY <1>5, <2>1, <2>2 DEF RowFollows, RowMoves
  <1>12. ASSUME NEW u \in DOMAIN e.tasks \ DOMAIN db.tasks
         PROVE  /\ New(e.tasks[u]) /\ RowOK(e.tasks[u])
                /\ e.tasks[u].branch # "none" => HasFork
                /\ ~e.tasks[u].undo
    <2>1. New(e.tasks[u]) /\ ~e.tasks[u].undo /\ (e.tasks[u].branch # "none" => HasFork)
      BY <1>4, <1>7 DEF RowsConclude
    <2>. QED
      BY <2>1 DEF New, RowOK
  <1>13. e.state # "COMPENSATING"
    BY <1>4
  <1>14. StateMoves(db, e)
    BY <1>4, <1>6 DEF StateMoves, EvidenceKept, FieldsKept, Live
  <1>15. ASSUME NEW u \in Worker, worker[u].pc = "counted"
         PROVE  e.tasks[worker[u].task].owner = u
    <2> DEFINE r == db.tasks[worker[u].task]
    <2>1. worker[u].task \in DOMAIN db.tasks /\ r.owner = u /\ r.undo /\ r.branch = "none"
      BY <1>15 DEF Typed, Orderly, Row, RowOK
    <2>2. Quiet(r, e.tasks[worker[u].task])
      BY <1>8, <1>r, <2>1
    <2>. QED
      BY <2>1, <2>2 DEF Quiet
  <1>16. DOMAIN db.tasks \subseteq DOMAIN e.tasks
    BY <1>4, <1>7 DEF RowsConclude
  <1>17. Follows(e, A)
    BY <1>4, <1>9, <1>11, <1>12, <1>13, <1>14, <1>15, <1>16 DEF Follows
  <1>. QED
    BY <1>17 DEF e

(* A transaction that writes nothing, and one that marks one row.          *)
LEMMA SameFollows ==
    ASSUME Typed, Orderly, NEW A
    PROVE  Follows(db, A)
  BY FieldsFollow DEF Typed

LEMMA MarkFollows ==
    ASSUME Typed, Orderly, NEW A, NEW t \in DOMAIN db.tasks, NEW r \in RowType,
           Quiet(db.tasks[t], r)
    PROVE  Follows([db EXCEPT !.tasks[t] = r], A)
  <1> DEFINE e == [db EXCEPT !.tasks[t] = r]
  <1>1. db \in DbType
    BY DEF Typed
  <1>2. e \in DbType /\ OthersKept(db, e, t) /\ FieldsKept(db, e) /\ e.tasks[t] = r
    BY <1>1, WriteRow
  <1> HIDE DEF e
  <1>3. RowFollows(t, e.tasks[t])
    BY <1>2, QuietFollows
  <1>4. StateMoves(db, e)
    BY <1>2 DEF StateMoves, FieldsKept, Live
  <1>5. e.state = "COMPENSATING" =>
          db.state = "COMPENSATING" /\ (db.tasks[t].undo \/ Ended(e.tasks[t].status))
    BY <1>2 DEF Orderly, FieldsKept, Quiet
  <1>6. \A u \in Worker \ A :
          worker[u].pc = "counted" /\ worker[u].task = t => e.tasks[t].owner = u
    BY <1>2 DEF Orderly, Row, Quiet
  <1>7. Follows(e, A)
    BY <1>2, <1>3, <1>4, <1>5, <1>6, OneRowFollows
  <1>. QED
    BY <1>7 DEF e

(* An executor at a task has its row.                                      *)
LEMMA BusyRow ==
    ASSUME Typed, NEW w \in Worker, worker[w].pc # "idle"
    PROVE  worker[w].task \in DOMAIN db.tasks /\ Row(w) \in RowType /\ Row(w).step \in StepName
  <1>1. worker[w].task \in DOMAIN db.tasks
    BY DEF Typed
  <1>2. Row(w) \in RowType
    BY <1>1, DbRows DEF Row, Typed
  <1>. QED
    BY <1>1, <1>2 DEF RowType, StepName

(* The effect of a row, and the age of its lease, may be written.          *)
LEMMA QuietWrites ==
    ASSUME NEW r \in RowType, NEW x \in {"none", "possible", "confirmed"}, NEW b \in BOOLEAN
    PROVE  /\ [r EXCEPT !.effect = x] \in RowType /\ Quiet(r, [r EXCEPT !.effect = x])
           /\ [r EXCEPT !.lapsed = b] \in RowType /\ Quiet(r, [r EXCEPT !.lapsed = b])
  BY DEF RowType, Quiet

(* claim_task_effect and confirm_task_effect.                              *)
LEMMA EffectFollows ==
    ASSUME Typed, Orderly, NEW w \in Worker,
           \/ ClaimLedger(w) \/ MarkTask(w) \/ MarkInvocation(w)
           \/ ConfirmLedger(w) \/ ConfirmTask(w) \/ ConfirmInvocation(w)
    PROVE  Follows(db', {w})
  <1>1. worker[w].pc # "idle"
    BY DEF ClaimLedger, MarkTask, MarkInvocation, ConfirmLedger, ConfirmTask,
           ConfirmInvocation, At
  <1>2. worker[w].task \in DOMAIN db.tasks /\ Row(w) \in RowType /\ Row(w).step \in StepName
    BY <1>1, BusyRow
  <1>3. db \in DbType
    BY DEF Typed
  <1>4. CASE ClaimLedger(w) \/ ConfirmLedger(w)
    <2>1. PICK l \in [StepName -> {"none", "claimed", "confirmed"}] :
              /\ db' = [db EXCEPT !.ledger = l]
              /\ \A s \in StepName :
                    /\ db.ledger[s] = "confirmed" => l[s] = "confirmed"
                    /\ l[s] = "confirmed" => db.ledger[s] = "confirmed" \/ s \in Answered
      <3>1. CASE ClaimLedger(w)
        <4> DEFINE x == IF db.ledger[Row(w).step] = "none" THEN "claimed"
                        ELSE db.ledger[Row(w).step]
        <4>1. db' = [db EXCEPT !.ledger = [db.ledger EXCEPT ![Row(w).step] = x]]
          BY <3>1 DEF ClaimLedger
        <4>2. [db.ledger EXCEPT ![Row(w).step] = x]
                  \in [StepName -> {"none", "claimed", "confirmed"}]
              /\ \A s \in StepName :
                    [db.ledger EXCEPT ![Row(w).step] = x][s] = "confirmed"
                        <=> db.ledger[s] = "confirmed"
          BY <1>2, <1>3 DEF DbType
        <4>. QED
          BY <4>1, <4>2
      <3>2. CASE ConfirmLedger(w)
        <4>1. db' = [db EXCEPT !.ledger = [db.ledger EXCEPT ![Row(w).step] = "confirmed"]]
          BY <3>2 DEF ConfirmLedger
        <4>2. [db.ledger EXCEPT ![Row(w).step] = "confirmed"]
                  \in [StepName -> {"none", "claimed", "confirmed"}]
              /\ \A s \in StepName :
                    [db.ledger EXCEPT ![Row(w).step] = "confirmed"][s] =
                        IF s = Row(w).step THEN "confirmed" ELSE db.ledger[s]
          BY <1>2, <1>3 DEF DbType
        <4>3. Row(w).step \in Answered
          BY <1>2, <3>2 DEF Answered, ConfirmLedger, At
        <4> DEFINE k == [db.ledger EXCEPT ![Row(w).step] = "confirmed"]
        <4> HIDE DEF k
        <4>4. /\ db' = [db EXCEPT !.ledger = k]
              /\ k \in [StepName -> {"none", "claimed", "confirmed"}]
              /\ \A s \in StepName :
                    k[s] = IF s = Row(w).step THEN "confirmed" ELSE db.ledger[s]
          BY <4>1, <4>2 DEF k
        <4>. QED
          BY <4>3, <4>4
      <3>. QED
        BY <1>4, <3>1, <3>2
    <2>2. [db EXCEPT !.ledger = l] \in DbType /\ [db EXCEPT !.ledger = l].tasks = db.tasks
          /\ [db EXCEPT !.ledger = l].state = db.state
          /\ [db EXCEPT !.ledger = l].effect = db.effect
          /\ [db EXCEPT !.ledger = l].ledger = l
      BY <1>3 DEF DbType
    <2>. QED
      BY <2>1, <2>2, FieldsFollow
  <1>5. CASE MarkInvocation(w) \/ ConfirmInvocation(w)
    <2>1. PICK x \in {"possible", "confirmed"} : db' = [db EXCEPT !.effect = x]
      <3>1. CASE MarkInvocation(w)
        <4> DEFINE x == IF Replayed(w) THEN "confirmed"
                        ELSE IF db.effect = "none" THEN "possible" ELSE db.effect
        <4>1. db' = [db EXCEPT !.effect = x]
          BY <3>1 DEF MarkInvocation
        <4>2. x \in {"possible", "confirmed"}
          BY <1>3 DEF DbType
        <4>. QED
          BY <4>1, <4>2
      <3>2. CASE ConfirmInvocation(w)
        BY <3>2 DEF ConfirmInvocation
      <3>. QED
        BY <1>5, <3>1, <3>2
    <2>2. [db EXCEPT !.effect = x] \in DbType /\ [db EXCEPT !.effect = x].tasks = db.tasks
          /\ [db EXCEPT !.effect = x].state = db.state
          /\ [db EXCEPT !.effect = x].effect # "none"
          /\ [db EXCEPT !.effect = x].ledger = db.ledger
      BY <1>3, <2>1 DEF DbType
    <2>. QED
      BY <2>1, <2>2, FieldsFollow
  <1>6. CASE MarkTask(w) \/ ConfirmTask(w)
    <2>1. PICK x \in {"none", "possible", "confirmed"} :
              db' = [db EXCEPT !.tasks[worker[w].task].effect = x]
      BY <1>6 DEF MarkTask, ConfirmTask
    <2>2. db' = [db EXCEPT !.tasks[worker[w].task] = [Row(w) EXCEPT !.effect = x]]
      BY <2>1 DEF Row
    <2>3. [Row(w) EXCEPT !.effect = x] \in RowType
          /\ Quiet(Row(w), [Row(w) EXCEPT !.effect = x])
      BY <1>2, QuietWrites
    <2> DEFINE r == [Row(w) EXCEPT !.effect = x]
    <2> HIDE DEF r
    <2>4. r \in RowType /\ Quiet(db.tasks[worker[w].task], r)
          /\ db' = [db EXCEPT !.tasks[worker[w].task] = r]
      BY <2>2, <2>3 DEF Row, r
    <2>. QED
      BY <1>2, <2>4, MarkFollows
  <1>. QED
    BY <1>4, <1>5, <1>6

(* The row as a claim leaves it.                                           *)
LEMMA ClaimedRow ==
    ASSUME NEW r \in RowType, NEW w \in Worker
    PROVE  LET q == [r EXCEPT !.owner = w, !.fence = r.fence + 1, !.lapsed = FALSE] IN
           /\ q \in RowType /\ q.status = r.status /\ q.timer = r.timer /\ q.step = r.step
           /\ q.undo = r.undo /\ q.branch = r.branch
  <1> DEFINE a == [r EXCEPT !.owner = w]
             b == [a EXCEPT !.fence = r.fence + 1]
             q == [b EXCEPT !.lapsed = FALSE]
  <1>1. a \in RowType /\ a.status = r.status /\ a.timer = r.timer /\ a.step = r.step
        /\ a.undo = r.undo /\ a.branch = r.branch
    BY DEF RowType
  <1>2. q = [r EXCEPT !.owner = w, !.fence = r.fence + 1, !.lapsed = FALSE]
    OBVIOUS
  <1> HIDE DEF a
  <1>3. r.fence + 1 \in Nat
    BY DEF RowType
  <1>4. b \in RowType /\ b.status = r.status /\ b.timer = r.timer /\ b.step = r.step
        /\ b.undo = r.undo /\ b.branch = r.branch
    BY <1>1, <1>3 DEF RowType
  <1> HIDE DEF b
  <1>5. q \in RowType /\ q.status = r.status /\ q.timer = r.timer /\ q.step = r.step
        /\ q.undo = r.undo /\ q.branch = r.branch
    BY <1>4 DEF RowType
  <1>. QED
    BY <1>2, <1>5

(* A claim: the row is active, and not one that another has counted.       *)
LEMMA ClaimFollows ==
    ASSUME Typed, Orderly, NEW w \in Worker, Claim(w)
    PROVE  Follows(db', {w})
  <1>1. PICK t \in DOMAIN db.tasks :
          /\ Claimable(db.tasks[t])
          /\ ~\E u \in Worker : worker[u].pc = "counted" /\ worker[u].task = t
          /\ db' = MoveInvocation(
                      [db EXCEPT !.tasks[t] =
                          [db.tasks[t] EXCEPT !.owner = w, !.fence = db.tasks[t].fence + 1,
                                              !.lapsed = FALSE]],
                      {"ACCEPTED"}, "RUNNING")
    BY DEF Claim
  <1> DEFINE r == db.tasks[t]
             q == [r EXCEPT !.owner = w, !.fence = r.fence + 1, !.lapsed = FALSE]
             c == [db EXCEPT !.tasks[t] = q]
             e == MoveInvocation(c, {"ACCEPTED"}, "RUNNING")
  <1>2. db \in DbType /\ r \in RowType
    BY DbRows DEF Typed
  <1>3. RowOK(r) /\ r.status = "A"
    BY <1>1 DEF Orderly, Claimable
  <1>4. q \in RowType /\ q.status = r.status /\ q.timer = r.timer /\ q.step = r.step
        /\ q.undo = r.undo /\ q.branch = r.branch
    BY <1>2, ClaimedRow
  <1>5. RowOK(q)
    BY <1>3, <1>4 DEF RowOK
  <1>6. db' = e
    BY <1>1
  <1> HIDE DEF q
  <1>7. c \in DbType /\ OthersKept(db, c, t) /\ FieldsKept(db, c) /\ c.tasks[t] = q
    BY <1>2, <1>4, WriteRow
  <1> HIDE DEF c
  <1>8. "RUNNING" \in InvocationState
    BY DEF InvocationState, Live
  <1>9. e \in DbType /\ e.tasks = c.tasks /\ e.effect = db.effect /\ e.ledger = db.ledger
        /\ e.state = IF db.state \in {"ACCEPTED"} THEN "RUNNING" ELSE db.state
    BY <1>7, <1>8, MoveEffect DEF FieldsKept
  <1> HIDE DEF e
  <1>10. OthersKept(db, e, t) /\ e.tasks[t] = q
    BY <1>7, <1>9 DEF OthersKept
  <1>11. RowFollows(t, e.tasks[t])
    BY <1>3, <1>4, <1>5, <1>10 DEF RowFollows, RowMoves
  <1>12. StateMoves(db, e)
    BY <1>9 DEF StateMoves, Live, Terminal
  <1>13. e.state = "COMPENSATING" => db.state = "COMPENSATING" /\ db.tasks[t].undo
    BY <1>3, <1>9 DEF Orderly, Ended
  <1>. QED
    BY <1>1, <1>6, <1>9, <1>10, <1>11, <1>12, <1>13, OneRowFollows

(* The transactions of an executor that holds its lease and closes its     *)
(* row, but for the one that concludes it.                                 *)
LEMMA HeldFollows ==
    ASSUME Typed, Orderly, NEW w \in Worker,
           \/ ReserveRefused(w) \/ FinishWait(w) \/ FinishRetry(w)
           \/ FinishUndoFailed(w) \/ Defer(w)
    PROVE  Follows(db', {w})
  <1> DEFINE t == worker[w].task
  <1>1. CASE ~Holds(w)
    <2>1. db' = db
      BY <1>1 DEF ReserveRefused, FinishWait, FinishRetry, FinishUndoFailed, Defer, Authority
    <2>. QED
      BY <2>1, SameFollows
  <1>2. CASE Holds(w)
    <2>1. /\ t \in DOMAIN db.tasks
          /\ Row(w) \in RowType /\ Row(w).status = "A" /\ ~Ended(Row(w).status)
          /\ Row(w).timer # "ARMED"
          /\ Row(w).undo \/ db.state # "COMPENSATING"
      BY <1>2, HeldRow
    <2>2. \A u \in Worker \ {w} : worker[u].pc = "counted" => worker[u].task # t
      BY <1>2, HolderAlone
    <2>3. Row(w) = db.tasks[t]
      BY DEF Row
    <2>4. db \in DbType
      BY DEF Typed
    <2>a. db.tasks[t].status = "A" /\ ~Ended(db.tasks[t].status)
      BY <2>1, <2>3
    <2>5. CASE ReserveRefused(w)
      <3>1. db' = FailBudget(db, t)
        BY <1>2, <2>5 DEF ReserveRefused
      <3>. QED
        BY <2>1, <2>2, <2>3, <3>1, StopFollows
    <2>6. CASE FinishWait(w)
      <3> DEFINE q == [Closed(Row(w), "W") EXCEPT !.timer = "ARMED"]
                 p == IF db.proc = "A" THEN "W" ELSE db.proc
                 c == [db EXCEPT !.tasks[t] = q]
                 f == [c EXCEPT !.proc = p]
                 e == MoveInvocation(f, Live, "WAITING")
      <3>1. db' = IF ParentLive THEN e ELSE Stop(db, t)
        BY <2>6 DEF FinishWait, Finished, DbType
      <3>2. CASE ~ParentLive
        BY <2>1, <2>2, <2>3, <3>1, <3>2, StopFollows
      <3>3. CASE ParentLive
        <4>1. Closed(Row(w), "W") \in RowType /\ Shut(Row(w), Closed(Row(w), "W"), "W")
          BY <2>1, ClosedType
        <4>2. q \in RowType /\ q.status = "W" /\ q.timer = "ARMED" /\ q.owner = NoWorker
              /\ q.step = Row(w).step /\ q.undo = Row(w).undo
              /\ (q.branch = "none" <=> Row(w).branch = "none")
          BY <4>1 DEF RowType, Shut
        <4> HIDE DEF q
        <4>3. c \in DbType /\ OthersKept(db, c, t) /\ FieldsKept(db, c) /\ c.tasks[t] = q
          BY <2>1, <2>4, <4>2, WriteRow
        <4> HIDE DEF c
        <4>4. p \in {"A", "W", "C", "F"}
          BY <2>4 DEF DbType
        <4> HIDE DEF p
        <4>5. f \in DbType /\ f.tasks = c.tasks /\ f.effect = db.effect /\ f.ledger = db.ledger /\ f.state = db.state
          BY <4>3, <4>4, ProcEffect DEF FieldsKept
        <4> HIDE DEF f
        <4>6. "WAITING" \in InvocationState
          BY DEF InvocationState, Live
        <4>7. e \in DbType /\ e.tasks = c.tasks /\ e.effect = db.effect /\ e.ledger = db.ledger
              /\ e.state = IF db.state \in Live THEN "WAITING" ELSE db.state
          BY <4>5, <4>6, MoveEffect
        <4> HIDE DEF e
        <4>8. db.state \in Live
          BY <3>3 DEF ParentLive
        <4>9. OthersKept(db, e, t) /\ e.tasks[t] = q
          BY <4>3, <4>7 DEF OthersKept
        <4>10. RowOK(q)
          BY <2>1, <2>3, <4>2 DEF RowOK, Orderly
        <4>11. t \in Sleeping
          BY <2>1, <2>6 DEF FinishWait, At, Sleeping
        <4>12. RowFollows(t, e.tasks[t])
          BY <2>1, <2>3, <4>2, <4>9, <4>10, <4>11 DEF RowFollows, RowMoves, Ended
        <4>13. e.state = "WAITING"
          BY <4>7, <4>8
        <4>14. StateMoves(db, e)
          BY <4>7, <4>8, <4>13 DEF StateMoves, Live, Terminal
        <4>15. Follows(e, {w})
          BY <2>1, <2>2, <4>7, <4>9, <4>12, <4>13, <4>14, OneRowFollows
        <4>. QED
          BY <3>1, <3>3, <4>15
      <3>. QED
        BY <3>2, <3>3
    <2>7. CASE FinishRetry(w)
      <3> DEFINE a    == Closed(Row(w), "A")
                 q    == [a EXCEPT !.attempt = a.attempt + 1]
                 c    == [db EXCEPT !.tasks[t] = q]
                 from == IF Row(w).undo THEN Live ELSE Live \cup {"COMPENSATING"}
                 e    == MoveInvocation(c, from, "RUNNING")
      <3>1. db' = e
        BY <2>7 DEF FinishRetry, Finished
      <3>2. a \in RowType /\ Shut(Row(w), a, "A")
        BY <2>1, ClosedType
      <3> HIDE DEF a
      <3>3. q \in RowType /\ Shut(Row(w), q, "A")
        BY <3>2 DEF RowType, Shut
      <3> HIDE DEF q
      <3>4. c \in DbType /\ OthersKept(db, c, t) /\ FieldsKept(db, c) /\ c.tasks[t] = q
        BY <2>1, <2>4, <3>3, WriteRow
      <3> HIDE DEF c
      <3>5. "RUNNING" \in InvocationState
        BY DEF InvocationState, Live
      <3>6. e \in DbType /\ e.tasks = c.tasks /\ e.effect = db.effect /\ e.ledger = db.ledger
            /\ e.state = IF db.state \in from THEN "RUNNING" ELSE db.state
        BY <3>4, <3>5, MoveEffect DEF FieldsKept
      <3> HIDE DEF e
      <3>7. OthersKept(db, e, t) /\ e.tasks[t] = q
        BY <3>4, <3>6 DEF OthersKept
      <3>8. RowFollows(t, e.tasks[t])
        BY <2>1, <2>3, <3>3, <3>7, ShutFollows
      <3>9. StateMoves(db, e)
        BY <2>1, <3>6 DEF StateMoves, Live, Terminal
      <3>10. e.state = "COMPENSATING" => db.state = "COMPENSATING" /\ db.tasks[t].undo
        BY <2>1, <2>3, <3>6
      <3>. QED
        BY <2>1, <2>2, <3>1, <3>6, <3>7, <3>8, <3>9, <3>10, OneRowFollows
    <2>8. CASE FinishUndoFailed(w)
      <3> DEFINE c == CloseRow(db, t, "F")
                 f == MoveInvocation(c, {"COMPENSATING"}, "FAILED")
                 e == [f EXCEPT !.proc = "F"]
      <3>1. db' = e
        BY <2>8 DEF FinishUndoFailed, Finished
      <3>2. c \in DbType /\ FieldsKept(db, c)
        BY <2>1, <2>4, CloseRowEffect
      <3>3. "FAILED" \in InvocationState
        BY DEF InvocationState, Terminal
      <3>4. f \in DbType /\ f.tasks = c.tasks /\ f.effect = db.effect /\ f.ledger = db.ledger
            /\ f.state = IF db.state \in {"COMPENSATING"} THEN "FAILED" ELSE db.state
        BY <3>2, <3>3, MoveEffect DEF FieldsKept
      <3> HIDE DEF f
      <3>5. e \in DbType /\ e.tasks = c.tasks /\ e.effect = db.effect /\ e.ledger = db.ledger /\ e.state = f.state
        BY <3>4, ProcEffect
      <3> HIDE DEF e
      <3>6. StateMoves(db, e)
        BY <3>4, <3>5 DEF StateMoves, Live, Terminal
      <3>7. e.state # "COMPENSATING"
        BY <3>4, <3>5
      <3>. QED
        <4>1. "F" \in {"A", "C", "F"} /\ e \in DbType /\ t \in DOMAIN db.tasks
              /\ e.tasks = CloseRow(db, t, "F").tasks
          BY <2>1, <3>5
        <4> HIDE DEF t
        <4>2. Follows(e, {w})
          BY <2>2, <2>a, <3>6, <3>7, <4>1, CloseFollows
        <4>. QED
          BY <3>1, <4>2
    <2>9. CASE Defer(w)
      <3> DEFINE e == CloseRow(db, t, "A")
      <3>1. db' = e
        BY <1>2, <2>9 DEF Defer
      <3>2. e \in DbType /\ FieldsKept(db, e)
        BY <2>1, <2>4, CloseRowEffect
      <3>3. StateMoves(db, e)
        BY <3>2 DEF StateMoves, FieldsKept, Live
      <3>4. e.state = "COMPENSATING" => db.state = "COMPENSATING" /\ db.tasks[t].undo
        BY <2>1, <2>3, <3>2 DEF FieldsKept
      <3>5. e.tasks = CloseRow(db, t, "A").tasks
        OBVIOUS
      <3> HIDE DEF e
      <3>. QED
        <4>1. db.tasks[t].status = "W" => "A" = "F"
          BY <2>a
        <4>2. e.state = "COMPENSATING" =>
                db.state = "COMPENSATING" /\ (db.tasks[t].undo \/ "A" # "A")
          BY <3>4
        <4>3. "A" \in {"A", "C", "F"} /\ e \in DbType /\ t \in DOMAIN db.tasks
          BY <2>1, <3>2
        <4> HIDE DEF t
        <4>4. Follows(e, {w})
          BY <2>2, <2>a, <3>3, <3>5, <4>1, <4>2, <4>3, CloseFollows
        <4>. QED
          BY <3>1, <4>4
    <2>. QED
      BY <2>5, <2>6, <2>7, <2>8, <2>9
  <1>. QED
    BY <1>1, <1>2

(* The transaction that concludes a task under its lease.                  *)
LEMMA FinishTaskFollows ==
    ASSUME Typed, Orderly, NEW w \in Worker, FinishTask(w)
    PROVE  Follows(db', {w})
  <1> DEFINE t  == worker[w].task
  <1>1. /\ Holds(w) /\ ~Row(w).undo /\ worker[w].pc = "finishing"
        /\ V2 => db.state \in Live
    BY DEF FinishTask, Authority, At, ParentLive
  <1>2. PICK ok \in Outcomes(t, worker[w].out = "OK"), valid \in BOOLEAN :
            db' = Conclude(db, t, ok, valid)
    BY DEF FinishTask, Finished
  <1>3. /\ t \in DOMAIN db.tasks
        /\ Row(w).status = "A" /\ ~Ended(Row(w).status)
        /\ Row(w).timer # "ARMED"
        /\ db.state # "COMPENSATING"
    BY <1>1, HeldRow
  <1>4. Row(w) = db.tasks[t]
    BY DEF Row
  <1>5. ok \in BOOLEAN /\ (ok => t \in Fulfilled)
    <2>1. ok \in BOOLEAN /\ (ok => worker[w].out = "OK")
      BY <1>2 DEF Outcomes
    <2>. QED
      BY <1>1, <1>3, <2>1 DEF Fulfilled
  <1>6. db \in DbType /\ OthersKept(db, db, t) /\ EvidenceKept(db, db)
    BY DEF Typed, OthersKept, EvidenceKept
  <1> HIDE DEF t
  <1>7. Follows(Conclude(db, t, ok, valid), {w})
    BY <1>1, <1>3, <1>4, <1>5, <1>6, ConcludeFollows
  <1>. QED
    BY <1>2, <1>7

(* The transaction of the last but one step of a compensation.             *)
LEMMA UndoCommitFollows ==
    ASSUME Typed, Orderly, NEW w \in Worker, FinishUndoCommit(w)
    PROVE  Follows(db', {w})
  <1> DEFINE t == worker[w].task
             c == CloseRow(db, t, "C")
             f == MoveInvocation(c, {"COMPENSATING"}, "CANCELLED")
             g == [f EXCEPT !.proc = "F"]
             e == IF worker[w].out = "LAST" THEN g ELSE c
  <1>1. worker[w].pc = "counted" /\ db' = e
    BY DEF FinishUndoCommit, Finished, At
  <1>2. t \in DOMAIN db.tasks /\ Row(w).owner = w /\ Row(w).undo
        /\ worker[w].out \in {"OK", "LAST"}
    BY <1>1 DEF Orderly, Typed
  <1>3. db.tasks[t].status = "A" /\ ~Ended(db.tasks[t].status) /\ db.tasks[t].undo
    BY <1>2, HostAssumption DEF Orderly, RowOK, Row, Ended
  <1>4. \A u \in Worker \ {w} : worker[u].pc = "counted" => worker[u].task # t
    BY <1>2 DEF Orderly, Row
  <1>5. t \in Fulfilled
    BY <1>1, <1>2 DEF Fulfilled
  <1>6. db \in DbType
    BY DEF Typed
  <1>7. c \in DbType /\ FieldsKept(db, c)
    BY <1>2, <1>6, CloseRowEffect
  <1>8. "CANCELLED" \in InvocationState
    BY DEF InvocationState, Terminal
  <1>9. f \in DbType /\ f.tasks = c.tasks /\ f.effect = db.effect /\ f.ledger = db.ledger
        /\ f.state = IF db.state \in {"COMPENSATING"} THEN "CANCELLED" ELSE db.state
    BY <1>7, <1>8, MoveEffect DEF FieldsKept
  <1> HIDE DEF f
  <1>10. g \in DbType /\ g.tasks = c.tasks /\ g.effect = db.effect /\ g.ledger = db.ledger /\ g.state = f.state
    BY <1>9, ProcEffect
  <1> HIDE DEF g
  <1>11. e \in DbType /\ e.tasks = CloseRow(db, t, "C").tasks /\ e.effect = db.effect /\ e.ledger = db.ledger
         /\ (e.state = db.state \/ (db.state = "COMPENSATING" /\ e.state = "CANCELLED"))
    BY <1>7, <1>9, <1>10 DEF FieldsKept
  <1> HIDE DEF e, t
  <1>12. StateMoves(db, e)
    BY <1>11 DEF StateMoves, Live, Terminal
  <1>13. e.state = "COMPENSATING" => db.state = "COMPENSATING" /\ db.tasks[t].undo
    BY <1>3, <1>11
  <1>14. Follows(e, {w})
    BY <1>2, <1>3, <1>4, <1>5, <1>11, <1>12, <1>13, CloseFollows
  <1>. QED
    BY <1>1, <1>14

(* The timers.                                                             *)
LEMMA TimerFollows ==
    ASSUME Typed, Orderly, NEW t \in DOMAIN db.tasks, FireTimer(t) \/ TimerGivesUp(t)
    PROVE  Follows(db', {})
  <1>1. db.tasks[t].timer = "ARMED"
    BY DEF FireTimer, TimerGivesUp
  <1>2. db.tasks[t].status = "W" /\ ~Ended(db.tasks[t].status)
    BY <1>1 DEF Orderly, RowOK, Ended
  <1>3. \A u \in Worker : worker[u].pc = "counted" => worker[u].task # t
    BY <1>2, HostAssumption DEF Orderly, RowOK, Row, Typed
  <1>4. CASE db' = Stop(db, t)
    BY <1>2, <1>3, <1>4, StopFollows
  <1>5. CASE db' # Stop(db, t)
    <2> DEFINE p == IF db.proc = "W" THEN "A" ELSE db.proc
               q == [db.tasks[t] EXCEPT !.timer = "FIRED"]
               c == [db EXCEPT !.tasks[t] = q]
               d == [c EXCEPT !.proc = p]
    <2>1. PICK ok \in Outcomes(t, TRUE), valid \in BOOLEAN :
              ParentLive /\ db' = Conclude([db EXCEPT !.tasks[t].timer = "FIRED",
                                            !.proc = IF @ = "W" THEN "A" ELSE @], t, ok, valid)
      BY <1>5 DEF FireTimer, TimerGivesUp
    <2>o. ok \in BOOLEAN
      BY DEF Outcomes
    <2>2. db \in DbType /\ db.tasks[t] \in RowType
      BY DbRows DEF Typed
    <2>3. [db EXCEPT !.tasks[t].timer = "FIRED", !.proc = IF @ = "W" THEN "A" ELSE @] = d
      BY <2>2 DEF DbType
    <2>4. db' = Conclude(d, t, ok, valid)
      BY <2>1, <2>3
    <2>5. q \in RowType /\ q.timer = "FIRED" /\ q.step = db.tasks[t].step
          /\ q.undo = db.tasks[t].undo /\ q.branch = db.tasks[t].branch
      BY <2>2 DEF RowType
    <2> HIDE DEF q
    <2>6. c \in DbType /\ OthersKept(db, c, t) /\ FieldsKept(db, c) /\ c.tasks[t] = q
      BY <2>2, <2>5, WriteRow
    <2> HIDE DEF c
    <2>7. p \in {"A", "W", "C", "F"}
      BY <2>2 DEF DbType
    <2> HIDE DEF p
    <2>8. d \in DbType /\ d.tasks = c.tasks /\ d.effect = c.effect /\ d.ledger = c.ledger
          /\ d.state = c.state /\ d.join = c.join
      BY <2>6, <2>7, ProcEffect
    <2> HIDE DEF d
    <2>9. OthersKept(db, d, t) /\ d.state = db.state /\ d.join = db.join /\ EvidenceKept(db, d) /\ d.tasks[t] = q
      BY <2>6, <2>8 DEF OthersKept, FieldsKept, EvidenceKept
    <2>10. db.state \in Live
      BY <2>1 DEF ParentLive
    <2>11. db.state # "COMPENSATING"
      BY <2>10 DEF Live
    <2>12. ~db.tasks[t].undo
      BY <2>10 DEF Orderly
    <2>13. t \in Fulfilled
      BY <1>1 DEF Fulfilled
    <2>14. /\ d.tasks[t].step = db.tasks[t].step /\ d.tasks[t].undo = db.tasks[t].undo
           /\ d.tasks[t].branch = db.tasks[t].branch /\ d.tasks[t].timer # "ARMED"
           /\ db.tasks[t].timer # "none"
      BY <1>1, <2>5, <2>9
    <2>15. Follows(Conclude(d, t, ok, valid), {})
      BY <1>2, <2>o, <2>8, <2>9, <2>10, <2>11, <2>12, <2>13, <2>14, ConcludeFollows
    <2>. QED
      BY <2>4, <2>15
  <1>. QED
    BY <1>4, <1>5

(* A lease that lapses.                                                    *)
LEMMA LapseFollows ==
    ASSUME Typed, Orderly, NEW A, NEW t \in DOMAIN db.tasks,
           db' = [db EXCEPT !.tasks[t].lapsed = TRUE]
    PROVE  Follows(db', A)
  <1> DEFINE r == [db.tasks[t] EXCEPT !.lapsed = TRUE]
  <1>1. db.tasks[t] \in RowType
    BY DbRows DEF Typed
  <1>2. r \in RowType /\ Quiet(db.tasks[t], r)
    BY <1>1, QuietWrites
  <1>3. db' = [db EXCEPT !.tasks[t] = r]
    OBVIOUS
  <1> HIDE DEF r
  <1>4. Follows([db EXCEPT !.tasks[t] = r], A)
    BY <1>2, MarkFollows
  <1>. QED
    BY <1>3, <1>4

(* Closing everything that is open, where there is nothing to undo.        *)
LEMMA CloseAllFollows ==
    ASSUME Typed, Orderly, NEW A, NEW e \in DbType,
           e.tasks = CloseRows(db, Open(db), "F").tasks,
           \A t \in DOMAIN db.tasks : ~db.tasks[t].undo,
           StateMoves(db, e), e.state # "COMPENSATING"
    PROVE  Follows(e, A)
  <1> DEFINE c == CloseRows(db, Open(db), "F")
  <1>1. /\ DOMAIN c.tasks = DOMAIN db.tasks
        /\ \A t \in DOMAIN db.tasks :
              IF t \in Open(db) THEN Shut(db.tasks[t], c.tasks[t], "F")
              ELSE c.tasks[t] = db.tasks[t]
    BY CloseRowsEffect DEF Typed
  <1> HIDE DEF c
  <1>2. DOMAIN e.tasks = DOMAIN db.tasks
    BY <1>1 DEF c
  <1>3. ASSUME NEW t \in DOMAIN db.tasks
        PROVE  RowFollows(t, e.tasks[t])
    <2>1. CASE t \in Open(db)
      <3>1. ~Ended(db.tasks[t].status)
        BY <2>1 DEF Open, Ended
      <3>2. Shut(db.tasks[t], e.tasks[t], "F")
        BY <1>1, <2>1 DEF c
      <3>. QED
        BY <3>1, <3>2, ShutFollows
    <2>2. CASE t \notin Open(db)
      <3>1. e.tasks[t] = db.tasks[t]
        BY <1>1, <2>2 DEF c
      <3>. QED
        BY <3>1, QuietFollows DEF Quiet
    <2>. QED
      BY <2>1, <2>2
  <1>4. \A u \in Worker : worker[u].pc # "counted"
    BY DEF Orderly, Typed, Row
  <1>. QED
    BY <1>2, <1>3, <1>4 DEF Follows

(* expire_interactive_deadlines.                                           *)
LEMMA ExpireFollows ==
    ASSUME Typed, Orderly, Expire
    PROVE  Follows(db', {})
  <1> DEFINE c == CloseRows(db, Open(db), "F")
             f == FailProcess(c)
             e == MoveInvocation(f, Live, "FAILED")
  <1>1. db' = e /\ db.state \in Live
    BY DEF Expire
  <1>2. c \in DbType /\ FieldsKept(db, c)
    BY CloseRowsEffect DEF Typed
  <1>3. f \in DbType /\ f.tasks = c.tasks /\ f.effect = db.effect /\ f.ledger = db.ledger /\ f.state = db.state
    BY <1>2, FailProcessEffect DEF FieldsKept
  <1> HIDE DEF f
  <1>4. "FAILED" \in InvocationState
    BY DEF InvocationState, Terminal
  <1>5. e \in DbType /\ e.tasks = c.tasks /\ e.effect = db.effect /\ e.ledger = db.ledger /\ e.state = "FAILED"
    BY <1>1, <1>3, <1>4, MoveEffect
  <1> HIDE DEF e
  <1>6. StateMoves(db, e)
    BY <1>1, <1>5 DEF StateMoves, Live, Terminal
  <1>7. \A t \in DOMAIN db.tasks : ~db.tasks[t].undo
    BY <1>1 DEF Orderly
  <1>8. Follows(e, {})
    BY <1>5, <1>6, <1>7, CloseAllFollows
  <1>. QED
    BY <1>1, <1>8

(* The compensations are finitely many steps, and come in some order.      *)
LEMMA CompensationsOrdered ==
    ASSUME Typed
    PROVE  /\ Ordered(Compensations) \in Seq(StepName)
           /\ Ordered(Compensations) \in [1..Cardinality(Compensations) -> Compensations]
  <1> DEFINE ran == {u \in DOMAIN db.tasks : db.tasks[u].effect = "confirmed"}
             f   == [t \in ran |-> setup.steps[db.tasks[t].step].undo]
             all == {f[t] : t \in ran}
             C   == Compensations
  <1>1. db.tasks \in Seq(RowType) /\ \A t \in DOMAIN db.tasks : db.tasks[t] \in RowType
    BY DbRows DEF Typed
  <1>2. IsFiniteSet(DOMAIN db.tasks)
    <2>1. Len(db.tasks) \in Nat /\ DOMAIN db.tasks = 1..Len(db.tasks)
      BY <1>1
    <2>2. 1 \in Int /\ Len(db.tasks) \in Int
      BY <2>1
    <2>. QED
      BY <2>1, <2>2, FS_Interval
  <1>3. IsFiniteSet(ran)
    <2>1. ran \in SUBSET DOMAIN db.tasks
      OBVIOUS
    <2>. QED
      BY <1>2, <2>1, FS_Subset
  <1>4. C = all \ {End}
    BY DEF Compensations
  <1>5. f \in Surjection(ran, all)
    BY DEF Surjection
  <1>6. IsFiniteSet(all)
    <2> HIDE DEF f, all, ran
    <2>. QED
      BY <1>3, <1>5, FS_Surjection
  <1>7. ASSUME NEW t \in ran
        PROVE  f[t] \in StepName \cup {End}
    <2>1. db.tasks[t].step \in StepName
      BY <1>1 DEF RowType, StepName
    <2>. QED
      BY <2>1, StepsClosed DEF Typed
  <1>8. C \subseteq StepName
    BY <1>4, <1>7
  <1> HIDE DEF all
  <1>9. IsFiniteSet(C)
    <2>1. C \in SUBSET all
      BY <1>4
    <2>. QED
      BY <1>6, <2>1, FS_Subset
  <1> HIDE DEF C
  <1>10. Cardinality(C) \in Nat /\ ExistsBijection(1..Cardinality(C), C)
    BY <1>9, FS_CardinalityType
  <1>11. \E g \in [1..Cardinality(C) -> C] : \A x \in C : \E i \in DOMAIN g : g[i] = x
    <2>1. PICK g : g \in Bijection(1..Cardinality(C), C)
      BY <1>10 DEF ExistsBijection
    <2>2. g \in [1..Cardinality(C) -> C] /\ \A x \in C : \E i \in 1..Cardinality(C) : g[i] = x
      BY <2>1 DEF Bijection, Surjection
    <2>. QED
      BY <2>2
  <1>12. Ordered(C) \in [1..Cardinality(C) -> C]
    BY <1>11 DEF Ordered
  <1>13. Ordered(C) \in [1..Cardinality(C) -> StepName]
    BY <1>8, <1>12
  <1>14. Ordered(C) \in Seq(StepName)
    BY <1>10, <1>13, SegmentIsSeq
  <1>. QED
    BY <1>12, <1>14 DEF C

(* A row that a compensating cancellation takes from its executor.         *)
LEMMA TakenRow ==
    ASSUME NEW r \in RowType
    PROVE  LET q == [Closed(r, "F") EXCEPT !.fence = @ + 1] IN
           q \in RowType /\ Shut(r, q, "F")
  <1> DEFINE c == Closed(r, "F")
             n == c.fence + 1
             q == [c EXCEPT !.fence = n]
  <1>1. c \in RowType /\ Shut(r, c, "F")
    BY ClosedType
  <1> HIDE DEF c
  <1>2. n \in Nat
    BY <1>1 DEF RowType
  <1> HIDE DEF n
  <1>3. q \in RowType /\ Shut(r, q, "F")
    BY <1>1, <1>2 DEF RowType, Shut
  <1>. QED
    BY <1>3 DEF c, n

(* cancel_invocation with compensations: the open tasks are taken, a       *)
(* compensation that runs is not.                                          *)
LEMMA CompensateFollows ==
    ASSUME Typed, Orderly, db.state \notin Terminal, db.effect # "none",
           NEW names \in Seq(StepName)
    PROVE  Follows(Compensate(db, names), {})
  <1> DEFINE cut  == {t \in Open(db) : ~db.tasks[t].undo}
             old  == [t \in DOMAIN db.tasks |->
                        IF t \in Open(db) /\ ~db.tasks[t].undo
                        THEN [Closed(db.tasks[t], "F") EXCEPT !.fence = @ + 1]
                        ELSE db.tasks[t]]
             more == [i \in 1..Len(names) |->
                        [NewRow(names[i], TRUE) EXCEPT !.undo = TRUE]]
             c    == [db EXCEPT !.tasks = old]
             f    == [c EXCEPT !.tasks = c.tasks \o more]
             e    == [f EXCEPT !.state = "COMPENSATING"]
  <1>1. Compensate(db, names) = [db EXCEPT !.state = "COMPENSATING", !.tasks = old \o more]
    BY DEF Compensate
  <1>2. db \in DbType /\ db.tasks \in Seq(RowType)
        /\ \A t \in DOMAIN db.tasks : db.tasks[t] \in RowType
    BY DbRows DEF Typed
  <1>3. ASSUME NEW t \in DOMAIN db.tasks
        PROVE  /\ old[t] \in RowType
               /\ IF t \in cut THEN Shut(db.tasks[t], old[t], "F") ELSE old[t] = db.tasks[t]
    <2>1. CASE t \in cut
      <3>1. old[t] = [Closed(db.tasks[t], "F") EXCEPT !.fence = @ + 1]
        BY <2>1
      <3>. QED
        BY <1>2, <2>1, <3>1, TakenRow
    <2>2. CASE t \notin cut
      BY <1>2, <2>2
    <2>. QED
      BY <2>1, <2>2
  <1>4. DOMAIN old = DOMAIN db.tasks
    OBVIOUS
  <1>5. old \in Seq(RowType)
    <2>1. Len(db.tasks) \in Nat /\ DOMAIN db.tasks = 1..Len(db.tasks)
      BY <1>2
    <2>2. old \in [1..Len(db.tasks) -> RowType]
      BY <1>3, <2>1
    <2> HIDE DEF old
    <2>. QED
      BY <2>1, <2>2, SegmentIsSeq
  <1> HIDE DEF old
  <1>6. ASSUME NEW i \in 1..Len(names)
        PROVE  more[i] \in RowType /\ New(more[i]) /\ more[i].undo /\ more[i].branch = "none"
               /\ RowOK(more[i])
    <2>1. names[i] \in StepName
      OBVIOUS
    <2>2. NewRow(names[i], TRUE) \in RowType
      BY <2>1, NewRowType
    <2>3. more[i] = [NewRow(names[i], TRUE) EXCEPT !.undo = TRUE]
      OBVIOUS
    <2>4. more[i] \in RowType
      BY <2>2, <2>3 DEF RowType
    <2>5. New(more[i]) /\ more[i].undo /\ more[i].branch = "none"
      BY <2>3 DEF New, NewRow
    <2>. QED
      BY <2>4, <2>5 DEF New, RowOK
  <1>7. Len(names) \in Nat /\ DOMAIN more = 1..Len(names)
    OBVIOUS
  <1>8. more \in [1..Len(names) -> RowType]
    BY <1>6
  <1> HIDE DEF more
  <1>9. more \in Seq(RowType)
    BY <1>7, <1>8, SegmentIsSeq
  <1>10. c \in DbType /\ FieldsKept(db, c) /\ c.tasks = old
    BY <1>2, <1>5, WriteRows
  <1>11. f = [db EXCEPT !.tasks = old \o more]
    BY <1>2, <1>10 DEF DbType
  <1> HIDE DEF c
  <1>12. /\ f \in DbType /\ FieldsKept(c, f)
         /\ DOMAIN c.tasks \subseteq DOMAIN f.tasks
         /\ \A t \in DOMAIN c.tasks : f.tasks[t] = c.tasks[t]
         /\ \A t \in DOMAIN f.tasks \ DOMAIN c.tasks :
               \E i \in DOMAIN more : f.tasks[t] = more[i]
    <2>1. c \in DbType
      BY <1>10
    <2>. QED
      BY <1>9, <2>1, AddRows
  <1>13. e = Compensate(db, names)
    BY <1>1, <1>2, <1>11 DEF DbType
  <1> HIDE DEF f
  <1>14. e \in DbType /\ e.tasks = f.tasks /\ e.effect = f.effect /\ e.ledger = f.ledger
         /\ e.state = "COMPENSATING"
    BY <1>12 DEF DbType
  <1> HIDE DEF e, cut
  <1>15. \A t \in DOMAIN db.tasks : t \in DOMAIN e.tasks /\ e.tasks[t] = old[t]
    BY <1>4, <1>10, <1>12, <1>14
  <1>16. ASSUME NEW t \in DOMAIN db.tasks
         PROVE  RowFollows(t, e.tasks[t])
    <2>1. CASE t \in cut
      <3>1. ~Ended(db.tasks[t].status)
        BY <2>1 DEF cut, Open, Ended
      <3>2. Shut(db.tasks[t], e.tasks[t], "F")
        BY <1>3, <1>15, <2>1
      <3>. QED
        BY <3>1, <3>2, ShutFollows
    <2>2. CASE t \notin cut
      <3>1. e.tasks[t] = db.tasks[t]
        BY <1>3, <1>15, <2>2
      <3>. QED
        BY <3>1, QuietFollows DEF Quiet
    <2>. QED
      BY <2>1, <2>2
  <1>17. ASSUME NEW t \in DOMAIN e.tasks \ DOMAIN db.tasks
         PROVE  New(e.tasks[t]) /\ RowOK(e.tasks[t]) /\ e.tasks[t].undo
                /\ e.tasks[t].branch = "none"
    <2>1. PICK i \in DOMAIN more : e.tasks[t] = more[i]
      BY <1>4, <1>10, <1>12, <1>14
    <2>. QED
      BY <1>6, <1>7, <2>1
  <1>18. ASSUME NEW t \in DOMAIN e.tasks
         PROVE  e.tasks[t].undo \/ Ended(e.tasks[t].status)
    <2>1. CASE t \notin DOMAIN db.tasks
      BY <1>17, <2>1
    <2>2. CASE t \in cut
      BY <1>3, <1>15, <2>2 DEF Shut, Ended, cut, Open
    <2>3. CASE t \in DOMAIN db.tasks /\ t \notin cut
      <3>1. e.tasks[t] = db.tasks[t]
        BY <1>3, <1>15, <2>3
      <3>2. db.tasks[t].undo \/ db.tasks[t].status \notin {"A", "W"}
        BY <2>3 DEF cut, Open
      <3>3. db.tasks[t].status \in {"A", "W", "C", "F"}
        BY <1>2, <2>3 DEF RowType
      <3>. QED
        BY <3>1, <3>2, <3>3 DEF Ended
    <2>. QED
      BY <2>1, <2>2, <2>3
  <1>19. StateMoves(db, e)
    BY <1>10, <1>12, <1>14 DEF StateMoves, FieldsKept
  <1>20. ASSUME NEW u \in Worker, worker[u].pc = "counted"
         PROVE  e.tasks[worker[u].task].owner = u
    <2>1. worker[u].task \in DOMAIN db.tasks /\ Row(u).owner = u /\ Row(u).undo
      BY <1>20 DEF Orderly, Typed
    <2>2. worker[u].task \notin cut
      BY <2>1 DEF cut, Row
    <2>. QED
      BY <1>3, <1>15, <2>1, <2>2 DEF Row
  <1>21. e.effect # "none"
    BY <1>10, <1>12, <1>14 DEF FieldsKept
  <1>22. Follows(e, {})
    BY <1>14, <1>15, <1>16, <1>17, <1>18, <1>19, <1>20, <1>21 DEF Follows
  <1>. QED
    BY <1>13, <1>22

(* cancel_invocation.                                                      *)
LEMMA CancelFollows ==
    ASSUME Typed, Orderly, Cancel
    PROVE  Follows(db', {})
  <1>1. CASE /\ db.effect = "none"
             /\ db' = [FailProcess(CloseRows(db, Open(db), "F")) EXCEPT !.state = "CANCELLED"]
    <2> DEFINE c == CloseRows(db, Open(db), "F")
               f == FailProcess(c)
               e == [f EXCEPT !.state = "CANCELLED"]
    <2>1. c \in DbType /\ FieldsKept(db, c)
      BY CloseRowsEffect DEF Typed
    <2>2. f \in DbType /\ f.tasks = c.tasks /\ f.effect = db.effect /\ f.ledger = db.ledger
      BY <2>1, FailProcessEffect DEF FieldsKept
    <2> HIDE DEF f
    <2>3. e \in DbType /\ e.tasks = c.tasks /\ e.effect = db.effect /\ e.ledger = db.ledger /\ e.state = "CANCELLED"
      BY <2>2 DEF DbType, Terminal
    <2>4. db' = e
      BY <1>1 DEF f
    <2> HIDE DEF e
    <2>5. StateMoves(db, e)
      BY <1>1, <2>3 DEF StateMoves, Cancel
    <2>6. \A t \in DOMAIN db.tasks : ~db.tasks[t].undo
      BY <1>1 DEF Orderly
    <2>7. Follows(e, {})
      BY <2>3, <2>5, <2>6, CloseAllFollows
    <2>. QED
      BY <2>4, <2>7
  <1>2. CASE /\ db.effect # "none"
             /\ db' = Compensate(db, Ordered(Compensations))
    <2>1. Ordered(Compensations) \in Seq(StepName)
      BY CompensationsOrdered
    <2>2. db.state \notin Terminal
      BY DEF Cancel
    <2>3. Follows(Compensate(db, Ordered(Compensations)), {})
      BY <1>2, <2>1, <2>2, CompensateFollows
    <2>. QED
      BY <1>2, <2>3
  <1>. QED
    BY <1>1, <1>2 DEF Cancel

(* Every step of an executor.                                              *)
LEMMA ExecutorFollows ==
    ASSUME Typed, Orderly, NEW w \in Worker, Step(w) \/ Fault(w)
    PROVE  Follows(db', {w})
  <1>1. CASE \/ ClaimLedger(w) \/ MarkTask(w) \/ MarkInvocation(w)
             \/ ConfirmLedger(w) \/ ConfirmTask(w) \/ ConfirmInvocation(w)
    BY <1>1, EffectFollows
  <1>2. CASE \/ ReserveRefused(w) \/ FinishWait(w) \/ FinishRetry(w)
             \/ FinishUndoFailed(w) \/ Defer(w)
    BY <1>2, HeldFollows
  <1>3. CASE Claim(w)
    BY <1>3, ClaimFollows
  <1>4. CASE FinishTask(w)
    BY <1>4, FinishTaskFollows
  <1>5. CASE FinishUndoCommit(w)
    BY <1>5, UndoCommitFollows
  <1>6. CASE \/ Reserve(w) \/ RunLocal(w) \/ Fence(w) \/ Send(w) \/ Interrupt(w) \/ Settle(w)
             \/ FinishStale(w) \/ FinishUndoCount(w) \/ GiveUp(w)
    <2>1. db' = db
      BY <1>6 DEF Reserve, RunLocal, Fence, Send, Interrupt, Settle, FinishStale, Finished,
                  FinishUndoCount, GiveUp
    <2>. QED
      BY <2>1, SameFollows
  <1>7. CASE LoseLease(w)
    <2>1. worker[w].task \in DOMAIN db.tasks
          /\ db' = [db EXCEPT !.tasks[worker[w].task].lapsed = TRUE]
      BY <1>7 DEF LoseLease, Holds
    <2>. QED
      BY <2>1, LapseFollows
  <1>. QED
    BY <1>1, <1>2, <1>3, <1>4, <1>5, <1>6, <1>7 DEF Step, Fault

Sweep ==
    \/ \E t \in DOMAIN db.tasks : FireTimer(t) \/ TimerGivesUp(t) \/ Lapse(t)
    \/ Expire \/ Cancel \/ Deadline

(* Every other step, and what it leaves alone.                             *)
LEMMA SweepFollows ==
    ASSUME Typed, Orderly, Sweep
    PROVE  Follows(db', {})
  <1>1. CASE \E t \in DOMAIN db.tasks : FireTimer(t) \/ TimerGivesUp(t)
    BY <1>1, TimerFollows
  <1>2. CASE \E t \in DOMAIN db.tasks : Lapse(t)
    <2>1. PICK t \in DOMAIN db.tasks : db' = [db EXCEPT !.tasks[t].lapsed = TRUE]
      BY <1>2 DEF Lapse
    <2>. QED
      BY <2>1, LapseFollows
  <1>3. CASE Expire
    BY <1>3, ExpireFollows
  <1>4. CASE Cancel
    BY <1>4, CancelFollows
  <1>5. CASE Deadline
    BY <1>5, SameFollows DEF Deadline
  <1>. QED
    BY <1>1, <1>2, <1>3, <1>4, <1>5 DEF Sweep

LEMMA SweepLeaves ==
    ASSUME Typed, Sweep
    PROVE  /\ UNCHANGED <<setup, budget, worker, sent>>
           /\ late' \in BOOLEAN /\ faults' \in 0..MaxFaults
  <1>1. late \in BOOLEAN /\ faults \in 0..MaxFaults /\ MaxFaults \in Nat
    BY HostAssumption DEF Typed
  <1>2. CASE \E t \in DOMAIN db.tasks : FireTimer(t) \/ Lapse(t)
    BY <1>1, <1>2 DEF FireTimer, Lapse
  <1>3. CASE \E t \in DOMAIN db.tasks : TimerGivesUp(t)
    <2>1. faults < MaxFaults /\ faults' = faults + 1 /\ UNCHANGED <<setup, budget, late, worker, sent>>
      BY <1>3 DEF TimerGivesUp
    <2>2. faults' \in 0..MaxFaults
      BY <1>1, <2>1
    <2>. QED
      BY <1>1, <2>1, <2>2
  <1>4. CASE Expire \/ Cancel \/ Deadline
    <2>1. UNCHANGED <<setup, budget, worker, sent, faults>>
      BY <1>4 DEF Expire, Cancel, Deadline
    <2>2. late' = late \/ late' = TRUE
      BY <1>4 DEF Expire, Cancel, Deadline
    <2>. QED
      BY <1>1, <2>1, <2>2
  <1>. QED
    BY <1>2, <1>3, <1>4 DEF Sweep

-----------------------------------------------------------------------------
(* What an executor's step does to the executor.                           *)

Moves(w, pc, out) ==
    /\ worker' \in [Worker -> WorkerType]
    /\ \A u \in Worker : u # w => worker'[u] = worker[u]
    /\ worker'[w].pc = pc /\ worker'[w].out = out /\ worker'[w].task = worker[w].task

Idles(w) ==
    /\ worker' \in [Worker -> WorkerType]
    /\ \A u \in Worker : u # w => worker'[u] = worker[u]
    /\ worker'[w].pc = "idle"

LEMMA GotoMoves ==
    ASSUME Typed, NEW w \in Worker, NEW pc \in Pc, Goto(w, pc)
    PROVE  Moves(w, pc, worker[w].out)
  BY DEF Typed, Goto, Moves, WorkerType

LEMMA ResultMoves ==
    ASSUME Typed, NEW w \in Worker,
           NEW pc \in Pc, NEW out \in {"NONE", "OK", "LAST", "WAIT", "HTTP", "ERROR", "FATAL"},
           worker' = [worker EXCEPT ![w].pc = pc, ![w].out = out]
    PROVE  Moves(w, pc, out)
  BY DEF Typed, Moves, WorkerType

LEMMA IdleMoves ==
    ASSUME Typed, NEW w \in Worker, worker' = [worker EXCEPT ![w] = Idle]
    PROVE  Idles(w)
  BY DEF Typed, Idles, Idle, WorkerType, Pc

(* A row to begin with.                                                    *)
Takes(w) ==
    /\ worker' \in [Worker -> WorkerType]
    /\ \A u \in Worker : u # w => worker'[u] = worker[u]
    /\ worker'[w].pc = "claimed" /\ worker'[w].out = "NONE"
    /\ worker'[w].task \in DOMAIN db.tasks

(* Giving the task up or ending it, either way.                            *)
Leaves(w) ==
    \/ ReserveRefused(w) \/ FinishStale(w) \/ FinishWait(w) \/ FinishRetry(w) \/ FinishTask(w)
    \/ FinishUndoFailed(w) \/ FinishUndoCommit(w) \/ GiveUp(w) \/ Defer(w)

(* Where each action takes the executor.                                   *)
LEMMA Transitions ==
    ASSUME Typed, NEW w \in Worker
    PROVE  /\ Claim(w) => Takes(w)
           /\ Leaves(w) => Idles(w)
           /\ LoseLease(w) => worker' = worker
           /\ Reserve(w) => Moves(w, "running", worker[w].out)
           /\ RunLocal(w) => Moves(w, "settling", IF Kind(w) = "wait" THEN "WAIT" ELSE "OK")
           /\ ClaimLedger(w) => Moves(w, "ledger", IF Confirmed(Row(w).step) THEN "OK" ELSE "NONE")
           /\ MarkTask(w) => Moves(w, "marked", worker[w].out)
           /\ MarkInvocation(w) => Moves(w, IF Replayed(w) THEN "settling" ELSE "open", worker[w].out)
           /\ Fence(w) => Moves(w, "fenced", worker[w].out) \/ Idles(w)
           /\ Send(w) => Moves(w, "answered", worker[w].out)
                  \/ Moves(w, "settling", "HTTP") \/ Moves(w, "settling", "ERROR")
           /\ ConfirmLedger(w) => Moves(w, "confirmTask", worker[w].out)
           /\ ConfirmTask(w) => Moves(w, "confirmInvocation", worker[w].out)
           /\ ConfirmInvocation(w) => Moves(w, "settling", "OK")
           /\ Interrupt(w) => Moves(w, "settling", "ERROR") \/ Moves(w, "settling", "FATAL")
           /\ Settle(w) => Moves(w, "finishing", worker[w].out) \/ Moves(w, "finishing", "FATAL")
           /\ FinishUndoCount(w) => Moves(w, "counted", "LAST") \/ Moves(w, "counted", "OK")
  <1>1. {"running", "settling", "ledger", "marked", "open", "fenced", "answered", "confirmTask",
         "confirmInvocation", "finishing", "counted"} \subseteq Pc
    BY DEF Pc, Executing
  <1>2. ASSUME Reserve(w)
        PROVE  Moves(w, "running", worker[w].out)
    BY <1>1, <1>2, GotoMoves DEF Reserve
  <1>3. ASSUME RunLocal(w)
        PROVE  Moves(w, "settling", IF Kind(w) = "wait" THEN "WAIT" ELSE "OK")
    BY <1>1, <1>3, ResultMoves DEF RunLocal, Result
  <1>4. ASSUME ClaimLedger(w)
        PROVE  Moves(w, "ledger", IF Confirmed(Row(w).step) THEN "OK" ELSE "NONE")
    BY <1>1, <1>4, ResultMoves DEF ClaimLedger, Confirmed
  <1>5. ASSUME MarkTask(w)
        PROVE  Moves(w, "marked", worker[w].out)
    BY <1>1, <1>5, GotoMoves DEF MarkTask
  <1>6. ASSUME MarkInvocation(w)
        PROVE  Moves(w, IF Replayed(w) THEN "settling" ELSE "open", worker[w].out)
    BY <1>1, <1>6, GotoMoves DEF MarkInvocation
  <1>7. ASSUME Fence(w)
        PROVE  Moves(w, "fenced", worker[w].out) \/ Idles(w)
    BY <1>1, <1>7, GotoMoves, IdleMoves DEF Fence
  <1>8. ASSUME Send(w)
        PROVE  Moves(w, "answered", worker[w].out)
               \/ Moves(w, "settling", "HTTP") \/ Moves(w, "settling", "ERROR")
    BY <1>1, <1>8, GotoMoves, ResultMoves DEF Send, Result
  <1>9. ASSUME ConfirmLedger(w)
        PROVE  Moves(w, "confirmTask", worker[w].out)
    BY <1>1, <1>9, GotoMoves DEF ConfirmLedger
  <1>10. ASSUME ConfirmTask(w)
        PROVE  Moves(w, "confirmInvocation", worker[w].out)
    BY <1>1, <1>10, GotoMoves DEF ConfirmTask
  <1>11. ASSUME ConfirmInvocation(w)
        PROVE  Moves(w, "settling", "OK")
    BY <1>1, <1>11, ResultMoves DEF ConfirmInvocation, Result
  <1>12. ASSUME Interrupt(w)
        PROVE  Moves(w, "settling", "ERROR") \/ Moves(w, "settling", "FATAL")
    BY <1>1, <1>12, ResultMoves DEF Interrupt, Result
  <1>13. ASSUME Settle(w)
        PROVE  Moves(w, "finishing", worker[w].out) \/ Moves(w, "finishing", "FATAL")
    BY <1>1, <1>13, GotoMoves, ResultMoves DEF Settle
  <1>14. ASSUME FinishUndoCount(w)
        PROVE  Moves(w, "counted", "LAST") \/ Moves(w, "counted", "OK")
    BY <1>1, <1>14, ResultMoves DEF FinishUndoCount
  <1>15. ASSUME Claim(w)
         PROVE  Takes(w)
    <2>1. PICK t \in DOMAIN db.tasks :
              worker' = [worker EXCEPT ![w] = [pc |-> "claimed", task |-> t,
                                               fence |-> db.tasks[t].fence + 1, out |-> "NONE"]]
      BY <1>15 DEF Claim
    <2>2. db.tasks \in Seq(RowType) /\ db.tasks[t] \in RowType
      BY DbRows DEF Typed
    <2>3. t \in Nat /\ db.tasks[t].fence + 1 \in Nat
      BY <2>2 DEF RowType
    <2>4. "claimed" \in Pc
      BY DEF Pc
    <2> DEFINE v == [pc |-> "claimed", task |-> t, fence |-> db.tasks[t].fence + 1, out |-> "NONE"]
    <2>5. v \in WorkerType /\ v.pc = "claimed" /\ v.out = "NONE" /\ v.task = t
      BY <2>3, <2>4 DEF WorkerType
    <2>6. worker' = [worker EXCEPT ![w] = v]
      BY <2>1
    <2> HIDE DEF v
    <2>. QED
      BY <2>5, <2>6 DEF Takes, Typed
  <1>16. ASSUME Leaves(w)
         PROVE  Idles(w)
    <2>1. worker' = [worker EXCEPT ![w] = Idle]
      BY <1>16 DEF Leaves, ReserveRefused, FinishStale, FinishWait, FinishRetry, FinishTask,
                  FinishUndoFailed, FinishUndoCommit, Finished, GiveUp, Defer
    <2>. QED
      BY <2>1, IdleMoves
  <1>17. LoseLease(w) => worker' = worker
    BY DEF LoseLease
  <1>. QED
    BY <1>2, <1>3, <1>4, <1>5, <1>6, <1>7, <1>8, <1>9, <1>10, <1>11, <1>12, <1>13, <1>14, <1>15, <1>16, <1>17

(* What an executor's step leaves alone.                                   *)
LEMMA ExecutorLeaves ==
    ASSUME Typed, NEW w \in Worker, Step(w) \/ Fault(w)
    PROVE  /\ UNCHANGED <<setup, late>>
           /\ faults' \in 0..MaxFaults
           /\ ~Send(w) => sent' = sent
           /\ ~(Reserve(w) \/ Settle(w) \/ Defer(w)) => budget' = budget
  <1>1. faults \in 0..MaxFaults /\ MaxFaults \in Nat
    BY HostAssumption DEF Typed
  <1>2. CASE Step(w)
    <2>1. UNCHANGED <<setup, late, faults>>
      BY <1>2 DEF Step, Claim, Reserve, ReserveRefused, RunLocal, ClaimLedger, MarkTask,
            MarkInvocation, Fence, Send, ConfirmLedger, ConfirmTask, ConfirmInvocation, Interrupt,
            Settle, FinishStale, FinishWait, FinishRetry, FinishTask, FinishUndoFailed,
            FinishUndoCount, FinishUndoCommit, Finished
    <2>2. ~Send(w) => sent' = sent
      BY <1>2 DEF Step, Claim, Reserve, ReserveRefused, RunLocal, ClaimLedger, MarkTask,
            MarkInvocation, Fence, ConfirmLedger, ConfirmTask, ConfirmInvocation, Interrupt,
            Settle, FinishStale, FinishWait, FinishRetry, FinishTask, FinishUndoFailed,
            FinishUndoCount, FinishUndoCommit, Finished
    <2>3. ~(Reserve(w) \/ Settle(w)) => budget' = budget
      BY <1>2 DEF Step, Claim, ReserveRefused, RunLocal, ClaimLedger, MarkTask,
            MarkInvocation, Fence, Send, ConfirmLedger, ConfirmTask, ConfirmInvocation, Interrupt,
            FinishStale, FinishWait, FinishRetry, FinishTask, FinishUndoFailed,
            FinishUndoCount, FinishUndoCommit, Finished
    <2>. QED
      BY <1>1, <2>1, <2>2, <2>3
  <1>3. CASE Fault(w)
    <2>1. faults < MaxFaults /\ faults' = faults + 1 /\ UNCHANGED <<setup, late, sent>>
      BY <1>3 DEF Fault, LoseLease, GiveUp, Defer
    <2>2. ~Defer(w) => budget' = budget
      BY <1>3 DEF Fault, LoseLease, GiveUp
    <2>3. faults' \in 0..MaxFaults
      BY <1>1, <2>1
    <2>. QED
      BY <2>1, <2>2, <2>3
  <1>. QED
    BY <1>2, <1>3

-----------------------------------------------------------------------------
(* The first two layers are inductive.                                     *)

LEMMA SameDefinition ==
    ASSUME setup' = setup
    PROVE  StepName' = StepName /\ DbType' = DbType /\ HasFork' = HasFork /\ RowType' = RowType
  BY DEF StepName, DbType, HasFork, RowType

LEMMA TypedNext ==
    ASSUME Typed, setup' = setup, NEW A, Follows(db', A),
           late' \in BOOLEAN, worker' \in [Worker -> WorkerType], faults' \in 0..MaxFaults,
           sent' \in [count : Nat, steps : SUBSET StepName],
           \A w \in Worker : worker'[w].pc # "idle" => worker'[w].task \in DOMAIN db.tasks
    PROVE  Typed'
  <1>1. setup' \in Setups /\ db' \in DbType
    BY DEF Typed, Follows
  <1>2. ASSUME NEW t \in DOMAIN db'.tasks
        PROVE  db'.tasks[t].branch # "none" => HasFork
    <2>1. CASE t \in DOMAIN db.tasks
      BY <2>1, FollowsKeeps DEF Typed, RowKept
    <2>2. CASE t \notin DOMAIN db.tasks
      BY <2>2 DEF Follows
    <2>. QED
      BY <2>1, <2>2
  <1>3. \A w \in Worker : worker'[w].pc # "idle" => worker'[w].task \in DOMAIN db'.tasks
    BY DEF Follows
  <1>. QED
    BY <1>1, <1>2, <1>3, SameDefinition DEF Typed, WorkerType

LEMMA OrderlyNext ==
    ASSUME Typed, Orderly, NEW A, Follows(db', A),
           \A w \in Worker : worker'[w].pc = "counted" =>
               /\ worker[w].task \in DOMAIN db.tasks /\ worker'[w].task = worker[w].task
               /\ worker'[w].out \in {"OK", "LAST"} /\ Row(w).undo
               /\ db'.tasks[worker[w].task].owner = w
    PROVE  Orderly'
  <1>1. ASSUME NEW t \in DOMAIN db'.tasks
        PROVE  RowOK(db'.tasks[t])
    BY FollowsKeeps DEF Follows, RowKept
  <1>2. ASSUME NEW t \in DOMAIN db'.tasks, db'.tasks[t].undo
        PROVE  db'.state \notin Live /\ db'.effect # "none"
    <2>1. CASE t \in DOMAIN db.tasks
      <3>1. db.tasks[t].undo
        BY <1>2, <2>1, FollowsKeeps DEF RowKept
      <3>2. db.state \notin Live /\ db.effect # "none"
        BY <2>1, <3>1 DEF Orderly
      <3>3. db.state \in Terminal \cup {"COMPENSATING"}
        BY <3>2 DEF Typed, DbType
      <3>4. StateMoves(db, db')
        BY DEF Follows
      <3>. QED
        BY <3>2, <3>3, <3>4 DEF StateMoves, Live, Terminal
    <2>2. CASE t \notin DOMAIN db.tasks
      BY <1>2, <2>2 DEF Follows, Live
    <2>. QED
      BY <2>1, <2>2
  <1>3. db'.state = "COMPENSATING" =>
          \A t \in DOMAIN db'.tasks : db'.tasks[t].undo \/ Ended(db'.tasks[t].status)
    BY DEF Follows
  <1>4. ASSUME NEW w \in Worker, worker'[w].pc = "counted"
        PROVE  LET r == db'.tasks[worker'[w].task] IN
               r.owner = w /\ r.undo /\ worker'[w].out \in {"OK", "LAST"}
    BY <1>4, FollowsKeeps DEF RowKept, Row
  <1>. QED
    BY <1>1, <1>2, <1>3, <1>4 DEF Orderly, Row

(* What a step leaves behind.                                              *)
LEMMA LayersStep ==
    ASSUME Typed, Orderly, Next
    PROVE  Typed' /\ Orderly' /\ \E A : Follows(db', A)
  <1>1. CASE Sweep
    <2>1. Follows(db', {})
      BY <1>1, SweepFollows
    <2>2. /\ UNCHANGED <<setup, budget, worker, sent>>
          /\ late' \in BOOLEAN /\ faults' \in 0..MaxFaults
      BY <1>1, SweepLeaves
    <2>3. Typed'
      BY <2>1, <2>2, TypedNext DEF Typed
    <2>4. Orderly'
      <3>1. \A w \in Worker : worker'[w].pc = "counted" =>
               /\ worker[w].task \in DOMAIN db.tasks /\ worker'[w].task = worker[w].task
               /\ worker'[w].out \in {"OK", "LAST"} /\ Row(w).undo
               /\ db'.tasks[worker[w].task].owner = w
        BY <2>1, <2>2 DEF Follows, Orderly, Typed
      <3>. QED
        BY <2>1, <3>1, OrderlyNext
    <2>. QED
      BY <2>1, <2>3, <2>4
  <1>2. ASSUME NEW w \in Worker, Step(w) \/ Fault(w)
        PROVE  Typed' /\ Orderly' /\ Follows(db', {w})
    <2>1. Follows(db', {w})
      BY <1>2, ExecutorFollows
    <2>2. UNCHANGED <<setup, late>> /\ faults' \in 0..MaxFaults /\ (~Send(w) => sent' = sent)
      BY <1>2, ExecutorLeaves
    <2>3. /\ worker' \in [Worker -> WorkerType]
          /\ \A u \in Worker : u # w => worker'[u] = worker[u]
          /\ worker'[w].pc # "idle" => worker'[w].task \in DOMAIN db.tasks
          /\ worker'[w].pc = "counted" => FinishUndoCount(w) \/ worker' = worker
      <3>1. CASE Claim(w)
        BY <3>1, Transitions DEF Takes
      <3>2. CASE Leaves(w)
        BY <3>2, Transitions DEF Idles
      <3>3. CASE LoseLease(w)
        BY <3>3, Transitions DEF Typed
      <3>4. CASE \/ Reserve(w) \/ RunLocal(w) \/ ClaimLedger(w) \/ MarkTask(w)
                 \/ MarkInvocation(w) \/ Fence(w) \/ Send(w) \/ ConfirmLedger(w)
                 \/ ConfirmTask(w) \/ ConfirmInvocation(w) \/ Interrupt(w) \/ Settle(w)
                 \/ FinishUndoCount(w)
        <4>1. worker[w].pc # "idle"
          BY <3>4 DEF Reserve, RunLocal, ClaimLedger, MarkTask, MarkInvocation, Fence, Send,
               ConfirmLedger, ConfirmTask, ConfirmInvocation, Interrupt, Settle, FinishUndoCount,
               At, Executing
        <4>2. worker[w].task \in DOMAIN db.tasks
          BY <4>1 DEF Typed
        <4>3. \/ Idles(w)
              \/ \E pc \in Pc : \E out : Moves(w, pc, out) /\ (pc = "counted" => FinishUndoCount(w))
          <5>1. {"running", "settling", "ledger", "marked", "open", "fenced", "answered",
                 "confirmTask", "confirmInvocation", "finishing", "counted"} \subseteq Pc
            BY DEF Pc, Executing
          <5>. QED
            BY <3>4, <5>1, Transitions
        <4>. QED
          BY <4>2, <4>3 DEF Moves, Idles
      <3>. QED
        BY <1>2, <3>1, <3>2, <3>3, <3>4 DEF Step, Fault, Leaves
    <2>4. sent' \in [count : Nat, steps : SUBSET StepName]
      <3>1. CASE ~Send(w)
        BY <2>2, <3>1 DEF Typed
      <3>2. CASE Send(w)
        <4>1. worker[w].pc # "idle"
          BY <3>2 DEF Send, At
        <4>2. Row(w).step \in StepName
          BY <4>1, BusyRow
        <4>3. sent' = [count |-> sent.count + 1, steps |-> sent.steps \cup {Row(w).step}]
          BY <3>2 DEF Send
        <4>. QED
          BY <4>2, <4>3 DEF Typed
      <3>. QED
        BY <3>1, <3>2
    <2>5. \A u \in Worker : worker'[u].pc # "idle" => worker'[u].task \in DOMAIN db.tasks
      BY <2>3 DEF Typed
    <2>6. Typed'
      <3>1. setup' = setup /\ late' \in BOOLEAN /\ faults' \in 0..MaxFaults
            /\ worker' \in [Worker -> WorkerType]
        BY <2>2, <2>3 DEF Typed
      <3>. QED
        BY <2>1, <2>4, <2>5, <3>1, TypedNext
    <2>7. ASSUME NEW u \in Worker, worker'[u].pc = "counted"
          PROVE  /\ worker[u].task \in DOMAIN db.tasks /\ worker'[u].task = worker[u].task
                 /\ worker'[u].out \in {"OK", "LAST"} /\ Row(u).undo
                 /\ db'.tasks[worker[u].task].owner = u
      <3>1. CASE u # w
        BY <2>1, <2>3, <2>7, <3>1 DEF Follows, Orderly, Typed
      <3>2. CASE u = w /\ FinishUndoCount(w)
        <4>1. Moves(w, "counted", "LAST") \/ Moves(w, "counted", "OK")
          BY <3>2, Transitions
        <4>2. Holds(w) /\ Row(w).undo /\ db' = db
          BY <3>2 DEF FinishUndoCount, Authority
        <4>. QED
          BY <3>2, <4>1, <4>2 DEF Moves, Holds, Row
      <3>3. CASE u = w /\ ~FinishUndoCount(w)
        <4>1. worker' = worker /\ worker[w].pc = "counted"
          BY <2>3, <2>7, <3>3
        <4>2. LoseLease(w)
          <5>1. CASE Leaves(w) \/ Claim(w)
            BY <2>7, <3>3, <5>1, Transitions DEF Idles, Takes
          <5>2. CASE \/ Reserve(w) \/ RunLocal(w) \/ ClaimLedger(w) \/ MarkTask(w)
                     \/ MarkInvocation(w) \/ Fence(w) \/ Send(w) \/ ConfirmLedger(w)
                     \/ ConfirmTask(w) \/ ConfirmInvocation(w) \/ Interrupt(w) \/ Settle(w)
            BY <4>1, <5>2 DEF Reserve, RunLocal, ClaimLedger, MarkTask, MarkInvocation, Fence,
                 Send, ConfirmLedger, ConfirmTask, ConfirmInvocation, Interrupt, Settle, At,
                 Executing
          <5>. QED
            BY <1>2, <3>3, <5>1, <5>2 DEF Step, Fault, Leaves
        <4>3. Follows(db', {})
          BY <4>2, LapseFollows DEF LoseLease, Holds
        <4>. QED
          BY <3>3, <4>1, <4>3 DEF Follows, Orderly, Typed
      <3>. QED
        BY <3>1, <3>2, <3>3
    <2>8. Orderly'
      BY <2>1, <2>7, OrderlyNext
    <2>. QED
      BY <2>1, <2>6, <2>8
  <1>3. CASE \E w \in Worker : Step(w) \/ Fault(w)
    BY <1>2, <1>3
  <1>. QED
    BY <1>1, <1>3 DEF Next, Sweep

LEMMA LayersStutter ==
    ASSUME Typed, Orderly, UNCHANGED vars
    PROVE  Typed' /\ Orderly' /\ \E A : Follows(db', A)
  <1>1. Typed' /\ Orderly'
    BY SameDefinition DEF vars, Typed, Orderly, Row, WorkerType
  <1>2. Follows(db', {})
    BY SameFollows DEF vars
  <1>. QED
    BY <1>1, <1>2

LEMMA LayersInit ==
    ASSUME Init
    PROVE  Typed /\ Orderly
  <1> DEFINE r == NewRow(setup.first, TRUE)
  <1>1. setup \in Setups /\ setup.first \in StepName
    BY SetupAssumption DEF Init, StepName
  <1>2. r \in RowType
    BY <1>1, NewRowType
  <1>3. <<r>> \in Seq(RowType) /\ DOMAIN <<r>> = {1} /\ <<r>>[1] = r
    BY <1>2, SingleIsSeq
  <1>4. db.tasks = <<r>> /\ db.state = "ACCEPTED"
    BY DEF Init
  <1>5. r.branch = "none" /\ ~r.undo /\ r.owner = NoWorker /\ r.status = "A" /\ r.timer = "none"
    BY DEF NewRow
  <1> HIDE DEF r
  <1>6. db \in DbType
    BY <1>3 DEF Init, DbType, Live, StepName, r
  <1>7. Idle \in WorkerType /\ Idle.pc = "idle"
    BY DEF Idle, WorkerType, Pc
  <1>8. worker \in [Worker -> WorkerType] /\ \A w \in Worker : worker[w].pc = "idle"
    BY <1>7 DEF Init
  <1>9. sent \in [count : Nat, steps : SUBSET StepName] /\ faults \in 0..MaxFaults
        /\ late \in BOOLEAN
    <2>1. sent = [count |-> 0, steps |-> {}] /\ faults = 0 /\ late = FALSE
      BY DEF Init
    <2>2. 0 \in 0..MaxFaults
      BY HostAssumption
    <2>. QED
      BY <2>1, <2>2
  <1>10. Typed
    BY <1>1, <1>3, <1>4, <1>5, <1>6, <1>8, <1>9 DEF Typed
  <1>11. RowOK(r)
    BY <1>5 DEF RowOK
  <1>12. Orderly
    BY <1>3, <1>4, <1>5, <1>8, <1>11 DEF Orderly
  <1>. QED
    BY <1>10, <1>12

(* Both layers hold throughout, and every step follows.                    *)
LEMMA Layers == Spec => [](Typed /\ Orderly)
  <1>1. Init => Typed /\ Orderly
    BY LayersInit
  <1>2. (Typed /\ Orderly) /\ [Next]_vars => (Typed /\ Orderly)'
    BY LayersStep, LayersStutter
  <1>. QED
    BY <1>1, <1>2, PTL DEF Spec

(* A task sleeps exactly while its alarm is set, whatever the executors,   *)
(* the sweeps and the cancel API do to its row.                            *)
THEOREM SleepersWake == Spec => []SleeperHasAlarm
  <1>1. Typed /\ Orderly => SleeperHasAlarm
    BY DEF Orderly, RowOK, SleeperHasAlarm
  <1>. QED
    BY <1>1, Layers, PTL

(* What has ended stays ended: no executor, timer, sweep or cancellation   *)
(* brings a task or an invocation back, for any definition; a v2 fork may  *)
(* fail as its join succeeds, and takes its invocation with it.            *)
THEOREM NothingRestarts == Spec => EndedStaysEnded
  <1> DEFINE Lasts ==
        /\ db.state \in Terminal => db'.state = db.state
        /\ db.state = "COMPENSATING" => db'.state \in {"COMPENSATING", "CANCELLED", "FAILED"}
        /\ \A t \in DOMAIN db.tasks :
              Ended(db.tasks[t].status) =>
                  \/ db'.tasks[t].status = db.tasks[t].status
                  \/ /\ Joining(t)
                     /\ db'.tasks[t].status = "F" /\ db'.join = "COMPLETED"
                     /\ db'.proc = "F" /\ db'.state = "FAILED"
  <1>1. ASSUME Typed, Orderly, [Next]_vars
        PROVE  Lasts
    <2>1. PICK A : Follows(db', A)
      BY <1>1, LayersStep, LayersStutter
    <2>. QED
      BY <2>1 DEF Follows, StateMoves, RowFollows, RowMoves, ForkFails, Shut
  <1>2. (Typed /\ Orderly) /\ [Next]_vars => [Lasts]_vars
    BY <1>1
  <1> HIDE DEF Lasts
  <1>3. Spec => [][Lasts]_vars
    BY <1>2, Layers, PTL DEF Spec
  <1>. QED
    BY <1>3 DEF EndedStaysEnded, Lasts

-----------------------------------------------------------------------------
(* The effect mark and the budget.                                         *)

(* Where an executor can have come from.                                   *)
LEMMA Backwards ==
    ASSUME Typed, NEW w \in Worker, Step(w) \/ Fault(w)
    PROVE  /\ \A u \in Worker : u # w => worker'[u] = worker[u]
           /\ w \in Unsent' => w \in Unsent \/ Reserve(w)
           /\ w \in Busy' => w \in Busy \/ Reserve(w)
           /\ worker'[w].pc \in {"open", "fenced"} =>
                 worker[w].pc \in {"open", "fenced"} \/ MarkInvocation(w)
  <1>1. CASE Claim(w)
    BY <1>1, Transitions DEF Takes, Unsent, Busy, Executing
  <1>2. CASE Leaves(w)
    BY <1>2, Transitions DEF Idles, Unsent, Busy, Executing
  <1>3. CASE LoseLease(w)
    BY <1>3, Transitions DEF Unsent, Busy, Executing
  <1>4. CASE Reserve(w)
    BY <1>4, Transitions DEF Moves, Unsent, Busy, Executing
  <1>5. CASE RunLocal(w) \/ ClaimLedger(w)
    BY <1>5, Transitions DEF Moves, Unsent, Busy, Executing, RunLocal, ClaimLedger, At
  <1>6. CASE MarkTask(w) \/ MarkInvocation(w)
    BY <1>6, Transitions DEF Moves, Unsent, Busy, Executing, MarkTask, MarkInvocation, At
  <1>7. CASE Fence(w) \/ Send(w)
    BY <1>7, Transitions DEF Moves, Idles, Unsent, Busy, Executing, Fence, Send, At
  <1>8. CASE ConfirmLedger(w) \/ ConfirmTask(w) \/ ConfirmInvocation(w)
    BY <1>8, Transitions DEF Moves, Unsent, Busy, Executing, ConfirmLedger, ConfirmTask,
                             ConfirmInvocation, At
  <1>9. CASE Interrupt(w) \/ Settle(w) \/ FinishUndoCount(w)
    BY <1>9, Transitions DEF Moves, Unsent, Busy, Executing, Interrupt, Settle,
                             FinishUndoCount, At
  <1>. QED
    BY <1>1, <1>2, <1>3, <1>4, <1>5, <1>6, <1>7, <1>8, <1>9 DEF Step, Fault, Leaves

LEMMA MarkedStep ==
    ASSUME Typed, Orderly, Marked, Next
    PROVE  Marked'
  <1>1. PICK A : Follows(db', A)
    BY LayersStep
  <1>2. db.effect # "none" => db'.effect # "none"
    BY <1>1 DEF Follows, StateMoves
  <1>3. CASE Sweep
    BY <1>2, <1>3, SweepLeaves DEF Marked
  <1>4. ASSUME NEW w \in Worker, Step(w) \/ Fault(w)
        PROVE  Marked'
    <2>1. CASE MarkInvocation(w)
      <3>1. db'.effect # "none"
        BY <2>1 DEF MarkInvocation, Typed, DbType
      <3>. QED
        BY <3>1 DEF Marked
    <2>2. CASE Send(w)
      <3>1. db.effect # "none"
        BY <2>2 DEF Send, At, Marked
      <3>. QED
        BY <1>2, <3>1 DEF Marked
    <2>3. CASE ~MarkInvocation(w) /\ ~Send(w)
      <3>1. sent' = sent
        BY <1>4, <2>3, ExecutorLeaves
      <3>2. \A u \in Worker : worker'[u].pc \in {"open", "fenced"} =>
                worker[u].pc \in {"open", "fenced"}
        BY <1>4, <2>3, Backwards
      <3>. QED
        BY <1>2, <3>1, <3>2 DEF Marked
    <2>. QED
      BY <2>1, <2>2, <2>3
  <1>. QED
    BY <1>3, <1>4 DEF Next, Sweep

(* The mark is there before a request leaves.                              *)
LEMMA MarkedAlways == Spec => []Marked
  <1>1. Init => Marked
    BY DEF Init, Marked, Idle
  <1>2. Typed /\ Orderly /\ Marked /\ [Next]_vars => Marked'
    <2>1. UNCHANGED vars /\ Marked => Marked'
      BY DEF vars, Marked
    <2>. QED
      BY <2>1, MarkedStep
  <1>. QED
    BY <1>1, <1>2, Layers, PTL DEF Spec

(* A cancellation without compensation finds no request sent: the mark it  *)
(* trusts is written, outside any transaction, before the request leaves.  *)
THEOREM OutrightCancelIsClean == Spec => CancelledBeforeEffects
  <1> DEFINE Clean == db.state \in Live /\ db'.state = "CANCELLED" => sent.count = 0
  <1>1. ASSUME Typed, Orderly, Marked, [Next]_vars
        PROVE  Clean
    <2>1. PICK A : Follows(db', A)
      BY <1>1, LayersStep, LayersStutter
    <2>2. db.state \in Live /\ db'.state = "CANCELLED" => db.effect = "none"
      BY <2>1 DEF Follows, StateMoves
    <2>3. sent.count \in Nat
      BY <1>1 DEF Typed
    <2>. QED
      BY <1>1, <2>2, <2>3 DEF Marked
  <1>2. Typed /\ Orderly /\ Marked /\ [Next]_vars => [Clean]_vars
    BY <1>1
  <1> HIDE DEF Clean
  <1>3. Spec => [][Clean]_vars
    BY <1>2, Layers, MarkedAlways, PTL DEF Spec
  <1>. QED
    BY <1>3 DEF CancelledBeforeEffects, Clean

(* Two sets of executors that differ in one at most.                       *)
LEMMA CountOne ==
    ASSUME NEW S \in SUBSET Worker, NEW T \in SUBSET Worker, NEW w \in Worker,
           \A u \in Worker : u # w => (u \in S <=> u \in T)
    PROVE  /\ Cardinality(S) \in Nat /\ Cardinality(T) \in Nat
           /\ (w \in S <=> w \in T) => Cardinality(T) = Cardinality(S)
           /\ w \in S /\ w \notin T => Cardinality(S) = Cardinality(T) + 1
           /\ w \notin S /\ w \in T => Cardinality(T) = Cardinality(S) + 1
  <1>1. IsFiniteSet(S) /\ IsFiniteSet(T)
    BY HostAssumption, FS_Subset
  <1>2. Cardinality(S) \in Nat /\ Cardinality(T) \in Nat
    BY <1>1, FS_CardinalityType
  <1>3. Cardinality(S \ {w}) = IF w \in S THEN Cardinality(S) - 1 ELSE Cardinality(S)
    BY <1>1, FS_RemoveElement
  <1>4. Cardinality(T \ {w}) = IF w \in T THEN Cardinality(T) - 1 ELSE Cardinality(T)
    BY <1>1, FS_RemoveElement
  <1>5. S \ {w} = T \ {w}
    OBVIOUS
  <1>6. CASE w \in S /\ w \in T
    BY <1>2, <1>3, <1>4, <1>5, <1>6
  <1>7. CASE w \in S /\ w \notin T
    <2>1. Cardinality(S) - 1 = Cardinality(T)
      BY <1>3, <1>4, <1>5, <1>7
    <2>2. Cardinality(S) = Cardinality(T) + 1
      BY <1>2, <2>1
    <2>. QED
      BY <1>2, <1>7, <2>2
  <1>8. CASE w \notin S /\ w \in T
    <2>1. Cardinality(T) - 1 = Cardinality(S)
      BY <1>3, <1>4, <1>5, <1>8
    <2>2. Cardinality(T) = Cardinality(S) + 1
      BY <1>2, <2>1
    <2>. QED
      BY <1>2, <1>8, <2>2
  <1>9. CASE w \notin S /\ w \notin T
    BY <1>2, <1>3, <1>4, <1>5, <1>9
  <1>. QED
    BY <1>6, <1>7, <1>8, <1>9

LEMMA BudgetedStep ==
    ASSUME Typed, Orderly, Budgeted, Next
    PROVE  Budgeted'
  <1>1. Busy \in SUBSET Worker /\ Unsent \in SUBSET Worker
        /\ Busy' \in SUBSET Worker /\ Unsent' \in SUBSET Worker
    BY DEF Busy, Unsent
  <1>2. /\ budget.used \in Nat /\ budget.reserved \in Nat /\ sent.count \in Nat
        /\ Cardinality(Busy) <= budget.reserved
        /\ sent.count + Cardinality(Unsent) <= budget.used + budget.reserved
        /\ budget.used + budget.reserved <= setup.limit
        /\ setup.limit \in Nat
    BY SetupAssumption DEF Budgeted, Typed
  <1>3. CASE Sweep
    <2>1. UNCHANGED <<setup, budget, worker, sent>>
      BY <1>3, SweepLeaves
    <2>. QED
      BY <2>1 DEF Budgeted, Busy, Unsent
  <1>4. ASSUME NEW w \in Worker, Step(w) \/ Fault(w)
        PROVE  Budgeted'
    <2>1. \A u \in Worker : u # w => worker'[u] = worker[u]
      BY <1>4, Backwards
    <2>2. \A u \in Worker : u # w => (u \in Busy <=> u \in Busy') /\ (u \in Unsent <=> u \in Unsent')
      BY <2>1 DEF Busy, Unsent
    <2> DEFINE b == Cardinality(Busy)
               c == Cardinality(Busy')
               m == Cardinality(Unsent)
               n == Cardinality(Unsent')
    <2>3. /\ b \in Nat /\ c \in Nat
          /\ (w \in Busy <=> w \in Busy') => c = b
          /\ w \in Busy /\ w \notin Busy' => b = c + 1
          /\ w \notin Busy /\ w \in Busy' => c = b + 1
      BY <1>1, <2>2, CountOne
    <2>4. /\ m \in Nat /\ n \in Nat
          /\ (w \in Unsent <=> w \in Unsent') => n = m
          /\ w \in Unsent /\ w \notin Unsent' => m = n + 1
          /\ w \notin Unsent /\ w \in Unsent' => n = m + 1
      BY <1>1, <2>2, CountOne
    <2> HIDE DEF b, c, m, n
    <2>5. setup' = setup
      BY <1>4, ExecutorLeaves
    <2>6. SUFFICES /\ budget' \in [used : Nat, reserved : Nat]
                   /\ c <= budget'.reserved
                   /\ sent'.count + n <= budget'.used + budget'.reserved
                   /\ budget'.used + budget'.reserved <= setup.limit
      BY <2>5 DEF Budgeted, c, n
    <2>7. /\ b <= budget.reserved
          /\ sent.count + m <= budget.used + budget.reserved
          /\ budget \in [used : Nat, reserved : Nat]
      BY <1>2 DEF b, m, Budgeted
    <2>8. CASE Reserve(w)
      <3>1. w \notin Busy /\ w \notin Unsent
        BY <2>8 DEF Reserve, At, Busy, Unsent, Executing
      <3>2. c <= b + 1 /\ n <= m + 1
        BY <2>3, <2>4, <3>1
      <3>3. sent' = sent /\ budget' = [budget EXCEPT !.reserved = budget.reserved + 1]
            /\ budget.used + budget.reserved + 1 <= setup.limit
        BY <2>8 DEF Reserve
      <3>4. budget' \in [used : Nat, reserved : Nat] /\ budget'.used = budget.used
            /\ budget'.reserved = budget.reserved + 1
        BY <1>2, <2>7, <3>3
      <3>. QED
        BY <1>2, <2>3, <2>4, <2>7, <3>2, <3>3, <3>4
    <2>9. CASE Send(w)
      <3>1. w \in Unsent /\ w \in Busy
        BY <2>9 DEF Send, At, Busy, Unsent, Executing
      <3>2. w \notin Unsent'
        BY <2>9, Transitions DEF Moves, Unsent
      <3>3. c <= b /\ m = n + 1
        BY <2>3, <2>4, <3>1, <3>2
      <3>4. sent'.count = sent.count + 1 /\ budget' = budget
        BY <2>9 DEF Send
      <3>. QED
        BY <1>2, <2>3, <2>4, <2>7, <3>3, <3>4
    <2>10. CASE Settle(w)
      <3>1. w \in Busy /\ w \notin Unsent
        BY <2>10 DEF Settle, At, Busy, Unsent, Executing
      <3>2. w \notin Unsent' /\ w \notin Busy'
        BY <2>10, Transitions DEF Moves, Unsent, Busy, Executing
      <3>3. b = c + 1 /\ m = n
        BY <2>3, <2>4, <3>1, <3>2
      <3>4. sent' = sent
            /\ budget' = [used |-> budget.used + 1, reserved |-> budget.reserved - 1]
        BY <2>10 DEF Settle
      <3>5. budget.reserved - 1 \in Nat
        BY <1>2, <2>3, <2>7, <3>3
      <3>. QED
        BY <1>2, <2>3, <2>4, <2>7, <3>3, <3>4, <3>5
    <2>11. CASE Defer(w)
      <3>1. w \in Busy /\ w \in Unsent
        BY <2>11 DEF Defer, At, Busy, Unsent, Executing
      <3>2. w \notin Unsent' /\ w \notin Busy'
        BY <2>11, Transitions DEF Leaves, Idles, Unsent, Busy, Executing
      <3>3. b = c + 1 /\ m = n + 1
        BY <2>3, <2>4, <3>1, <3>2
      <3>4. sent' = sent
            /\ \/ budget' = [budget EXCEPT !.reserved = budget.reserved - 1]
               \/ budget' = budget
        BY <2>11 DEF Defer
      <3>5. budget.reserved - 1 \in Nat
        BY <1>2, <2>3, <2>7, <3>3
      <3>6. CASE budget' = [budget EXCEPT !.reserved = budget.reserved - 1]
        <4>1. budget' \in [used : Nat, reserved : Nat] /\ budget'.used = budget.used
              /\ budget'.reserved = budget.reserved - 1
          BY <1>2, <2>7, <3>5, <3>6
        <4>. QED
          BY <1>2, <2>3, <2>4, <2>7, <3>3, <3>4, <4>1
      <3>7. CASE budget' = budget
        BY <1>2, <2>3, <2>4, <2>7, <3>3, <3>4, <3>7
      <3>. QED
        BY <3>4, <3>6, <3>7
    <2>12. CASE ~(Reserve(w) \/ Send(w) \/ Settle(w) \/ Defer(w))
      <3>1. budget' = budget /\ sent' = sent
        BY <1>4, <2>12, ExecutorLeaves
      <3>2. (w \in Unsent' => w \in Unsent) /\ (w \in Busy' => w \in Busy)
        BY <1>4, <2>12, Backwards
      <3>3. c <= b /\ n <= m
        BY <2>3, <2>4, <3>2
      <3>. QED
        BY <1>2, <2>3, <2>4, <2>7, <3>1, <3>3
    <2>. QED
      BY <2>8, <2>9, <2>10, <2>11, <2>12
  <1>. QED
    BY <1>3, <1>4 DEF Next, Sweep

LEMMA BudgetedAlways == Spec => []Budgeted
  <1>1. Init => Budgeted
    <2> SUFFICES ASSUME Init
                 PROVE  Budgeted
      OBVIOUS
    <2>1. Busy = {} /\ Unsent = {}
      BY DEF Init, Busy, Unsent, Idle, Executing
    <2>2. Cardinality({}) = 0
      BY FS_EmptySet
    <2>3. budget = [used |-> 0, reserved |-> 0] /\ sent.count = 0 /\ setup.limit \in Nat
      BY SetupAssumption DEF Init
    <2>. QED
      BY <2>1, <2>2, <2>3 DEF Budgeted
  <1>2. Typed /\ Orderly /\ Budgeted /\ [Next]_vars => Budgeted'
    <2>1. UNCHANGED vars /\ Budgeted => Budgeted'
      BY DEF vars, Budgeted, Busy, Unsent
    <2>. QED
      BY <2>1, BudgetedStep
  <1>. QED
    BY <1>1, <1>2, Layers, PTL DEF Spec

(* No more requests leave than the budget has attempts, whatever leases    *)
(* are lost, tasks abandoned and reservations refunded.                    *)
THEOREM BudgetHolds == Spec => []RequestsWithinBudget
  <1>1. Typed /\ Budgeted => RequestsWithinBudget
    <2> SUFFICES ASSUME Typed, Budgeted
                 PROVE  RequestsWithinBudget
      OBVIOUS
    <2>1. Unsent \in SUBSET Worker
      BY DEF Unsent
    <2>2. IsFiniteSet(Unsent)
      BY <2>1, HostAssumption, FS_Subset
    <2>3. Cardinality(Unsent) \in Nat
      BY <2>2, FS_CardinalityType
    <2>4. /\ budget.used \in Nat /\ budget.reserved \in Nat /\ sent.count \in Nat
          /\ sent.count + Cardinality(Unsent) <= budget.used + budget.reserved
          /\ budget.used + budget.reserved <= setup.limit
          /\ setup.limit \in Nat
      BY SetupAssumption DEF Budgeted, Typed
    <2>. QED
      BY <2>3, <2>4 DEF RequestsWithinBudget
  <1>. QED
    BY <1>1, Layers, BudgetedAlways, PTL

(* Every row, executor and counter keeps its type; that the reservations   *)
(* never go below zero is part of it.                                      *)
THEOREM HostTypesHold == Spec => []HostTypeOK
  <1>1. Typed /\ Budgeted => HostTypeOK
    BY DEF Typed, Budgeted, HostTypeOK, DbType, WorkerType, StepName
  <1>. QED
    BY <1>1, Layers, BudgetedAlways, PTL

-----------------------------------------------------------------------------
(* The evidence of a success.                                              *)

(* A step that is confirmed afterwards.                                    *)
Later(s) == db'.ledger[s] = "confirmed"

(* What never changes or only grows.                                       *)
Grown ==
    /\ setup' = setup
    /\ \A t \in DOMAIN db.tasks :
          t \in DOMAIN db'.tasks /\ db'.tasks[t].step = db.tasks[t].step
    /\ sent.steps \subseteq sent'.steps
    /\ \A s \in StepName :
          /\ Confirmed(s) => Later(s)
          /\ Later(s) => Confirmed(s) \/ s \in Answered

LEMMA StepGrows ==
    ASSUME Typed, Orderly, Next
    PROVE  Grown
  <1>1. PICK A : Follows(db', A)
    BY LayersStep
  <1>2. setup' = setup /\ sent.steps \subseteq sent'.steps
    <2>1. CASE Sweep
      BY <2>1, SweepLeaves
    <2>2. ASSUME NEW w \in Worker, Step(w) \/ Fault(w)
          PROVE  setup' = setup /\ sent.steps \subseteq sent'.steps
      <3>1. CASE ~Send(w)
        BY <2>2, <3>1, ExecutorLeaves
      <3>2. CASE Send(w)
        BY <3>2 DEF Send
      <3>. QED
        BY <3>1, <3>2
    <2>. QED
      BY <2>1, <2>2 DEF Next, Sweep
  <1>. QED
    BY <1>1, <1>2, FollowsKeeps DEF Grown, Follows, StateMoves, RowKept, Confirmed, Later

(* The rows keep their evidence; a row is completed by an executor with a  *)
(* success or by its timer.                                                *)
LEMMA RowEvidenceStep ==
    ASSUME Typed, Orderly, Evidence, Next, NEW t \in DOMAIN db'.tasks
    PROVE  RowEvidence(t)'
  <1>1. PICK A : Follows(db', A)
    BY LayersStep
  <1>2. Grown
    BY StepGrows
  <1>3. CASE t \notin DOMAIN db.tasks
    BY <1>1, <1>3 DEF Follows, New, RowEvidence
  <1>4. CASE t \in DOMAIN db.tasks
    <2>1. /\ db'.tasks[t].status = "C" => db.tasks[t].status = "C" \/ t \in Fulfilled
          /\ db'.tasks[t].timer # "none" => db.tasks[t].timer # "none" \/ t \in Sleeping
      BY <1>1, <1>4, FollowsKeeps DEF RowKept
    <2>2. Task(t)' = Task(t) /\ db'.tasks[t].step = db.tasks[t].step
      BY <1>2, <1>4 DEF Grown, Task
    <2>3. db.tasks[t].step \in StepName
      BY <1>4, DbRows DEF Typed, RowType, StepName
    <2>4. Confirmed(db.tasks[t].step) => Later(db.tasks[t].step)
      BY <1>2, <2>3 DEF Grown
    <2>5. RowEvidence(t)
      BY <1>4 DEF Evidence
    <2>6. db'.tasks[t].timer # "none" => Task(t).kind = "wait"
      <3>1. CASE db.tasks[t].timer # "none"
        BY <2>5, <3>1 DEF RowEvidence
      <3>2. CASE t \in Sleeping
        BY <3>2 DEF Sleeping, Evidence, ExecutorEvidence, Kind
      <3>. QED
        BY <2>1, <3>1, <3>2
    <2>7. db'.tasks[t].status = "C" /\ Task(t).kind = "write" => Confirmed(db.tasks[t].step)
      <3>1. CASE db.tasks[t].status = "C"
        BY <2>5, <3>1 DEF RowEvidence
      <3>2. CASE db.tasks[t].timer = "ARMED"
        BY <2>5, <3>2 DEF RowEvidence
      <3>3. ASSUME NEW w \in Worker, worker[w].pc # "idle", worker[w].task = t,
                   worker[w].out \in {"OK", "LAST"}, Task(t).kind = "write"
            PROVE  Confirmed(db.tasks[t].step)
        <4>1. ExecutorEvidence(w)
          BY DEF Evidence
        <4>. QED
          BY <3>3, <4>1 DEF ExecutorEvidence, Kind, Row
      <3>. QED
        BY <2>1, <3>1, <3>2, <3>3 DEF Fulfilled
    <2>. QED
      BY <2>2, <2>4, <2>6, <2>7 DEF RowEvidence, Confirmed, Later
  <1>. QED
    BY <1>3, <1>4

(* An executor that keeps its row keeps its evidence if its place and its  *)
(* result, read against the grown ledger and the requests sent, allow it.  *)
LEMMA EvidenceCarries ==
    ASSUME Typed, Grown, NEW w \in Worker, worker[w].pc # "idle",
           worker'[w].task = worker[w].task,
           LET s == Row(w).step IN
           /\ worker'[w].pc = "answered" => s \in sent'.steps
           /\ worker'[w].pc \in {"confirmTask", "confirmInvocation"} => Later(s)
           /\ worker'[w].out \in {"OK", "LAST"} /\ Kind(w) = "write" => Later(s)
           /\ worker'[w].out = "WAIT" => Kind(w) = "wait"
    PROVE  ExecutorEvidence(w)'
  <1>1. worker[w].task \in DOMAIN db.tasks
    BY DEF Typed
  <1>2. Row(w)'.step = Row(w).step
    BY <1>1 DEF Grown, Row
  <1>3. Kind(w)' = Kind(w)
    BY <1>1 DEF Grown, Kind, Task
  <1>. QED
    BY <1>2, <1>3 DEF ExecutorEvidence, Confirmed, Later

LEMMA ExecutorEvidenceStep ==
    ASSUME Typed, Orderly, Evidence, Next, NEW w \in Worker, Step(w) \/ Fault(w)
    PROVE  ExecutorEvidence(w)'
  <1> DEFINE s == Row(w).step
  <1>1. Grown
    BY StepGrows
  <1>2. ExecutorEvidence(w)
    BY DEF Evidence
  <1>3. CASE Claim(w)
    BY <1>3, Transitions DEF Takes, ExecutorEvidence
  <1>4. CASE Leaves(w)
    BY <1>4, Transitions DEF Idles, ExecutorEvidence
  <1>5. ASSUME worker[w].pc # "idle", worker'[w].task = worker[w].task,
               worker'[w].pc \notin {"answered", "confirmTask", "confirmInvocation"},
               \/ worker'[w].out = worker[w].out
               \/ worker'[w].out \notin {"OK", "LAST", "WAIT"}
        PROVE  ExecutorEvidence(w)'
    <2>1. s \in StepName
      BY <1>5, BusyRow
    <2>2. Confirmed(s) => Later(s)
      BY <1>1, <2>1 DEF Grown
    <2>3. worker'[w].out \in {"OK", "LAST"} /\ Kind(w) = "write" => Later(s)
      BY <1>2, <1>5, <2>2 DEF ExecutorEvidence
    <2>4. worker'[w].out = "WAIT" => Kind(w) = "wait"
      BY <1>2, <1>5 DEF ExecutorEvidence
    <2>. QED
      BY <1>1, <1>5, <2>3, <2>4, EvidenceCarries
  <1>6. CASE \/ Reserve(w) \/ MarkTask(w) \/ MarkInvocation(w) \/ Fence(w) \/ Interrupt(w)
             \/ Settle(w)
    <2>1. worker[w].pc # "idle"
      BY <1>6 DEF Reserve, MarkTask, MarkInvocation, Fence, Interrupt, Settle, At, Executing
    <2>2. CASE Idles(w)
      BY <2>2 DEF Idles, ExecutorEvidence
    <2>3. CASE ~Idles(w)
      <3>1. /\ worker'[w].task = worker[w].task
            /\ worker'[w].pc \notin {"answered", "confirmTask", "confirmInvocation"}
            /\ \/ worker'[w].out = worker[w].out
               \/ worker'[w].out \notin {"OK", "LAST", "WAIT"}
        BY <1>6, <2>3, Transitions DEF Moves
      <3>. QED
        BY <1>5, <2>1, <3>1
    <2>. QED
      BY <2>2, <2>3
  <1>7. CASE LoseLease(w)
    <2>1. worker' = worker /\ worker[w].pc # "idle"
      BY <1>7 DEF LoseLease, At
    <2>2. s \in StepName
      BY <2>1, BusyRow
    <2>3. Confirmed(s) => Later(s)
      BY <1>1, <2>2 DEF Grown
    <2>. QED
      BY <1>1, <1>2, <2>1, <2>3, EvidenceCarries DEF ExecutorEvidence, Grown
  <1>8. CASE RunLocal(w)
    <2>1. /\ worker[w].pc # "idle" /\ Kind(w) # "write"
          /\ worker'[w].task = worker[w].task /\ worker'[w].pc = "settling"
          /\ worker'[w].out = "WAIT" => Kind(w) = "wait"
      BY <1>8, Transitions DEF RunLocal, At, Moves
    <2>. QED
      BY <1>1, <2>1, EvidenceCarries
  <1>9. CASE ClaimLedger(w)
    <2>1. /\ worker[w].pc # "idle"
          /\ worker'[w].task = worker[w].task /\ worker'[w].pc = "ledger"
          /\ worker'[w].out = IF Confirmed(s) THEN "OK" ELSE "NONE"
      BY <1>9, Transitions DEF ClaimLedger, At, Moves
    <2>2. s \in StepName
      BY <2>1, BusyRow
    <2>3. Confirmed(s) => Later(s)
      BY <1>1, <2>2 DEF Grown
    <2>4. worker'[w].out \in {"OK", "LAST"} => Later(s)
      BY <2>1, <2>3
    <2>. QED
      BY <1>1, <2>1, <2>4, EvidenceCarries
  <1>10. CASE Send(w)
    <2>1. worker[w].pc # "idle" /\ s \in sent'.steps
      BY <1>10 DEF Send, At
    <2>2. CASE Moves(w, "answered", worker[w].out)
      <3>1. s \in StepName
        BY <2>1, BusyRow
      <3>2. Confirmed(s) => Later(s)
        BY <1>1, <3>1 DEF Grown
      <3>3. worker'[w].out \in {"OK", "LAST"} /\ Kind(w) = "write" => Later(s)
        BY <1>2, <2>1, <2>2, <3>2 DEF ExecutorEvidence, Moves
      <3>4. worker'[w].out = "WAIT" => Kind(w) = "wait"
        BY <1>2, <2>1, <2>2 DEF ExecutorEvidence, Moves
      <3>5. worker'[w].task = worker[w].task /\ worker'[w].pc = "answered"
        BY <2>2 DEF Moves
      <3>. QED
        BY <1>1, <2>1, <3>3, <3>4, <3>5, EvidenceCarries
    <2>3. CASE ~Moves(w, "answered", worker[w].out)
      <3>1. /\ worker'[w].task = worker[w].task
            /\ worker'[w].pc \notin {"answered", "confirmTask", "confirmInvocation"}
            /\ worker'[w].out \notin {"OK", "LAST", "WAIT"}
        BY <1>10, <2>3, Transitions DEF Moves
      <3>. QED
        BY <1>5, <2>1, <3>1
    <2>. QED
      BY <2>2, <2>3
  <1>11. CASE ConfirmLedger(w) \/ ConfirmTask(w) \/ ConfirmInvocation(w)
    <2>1. /\ worker[w].pc # "idle"
          /\ worker'[w].task = worker[w].task /\ worker'[w].pc # "answered"
          /\ worker'[w].out \in {"OK", worker[w].out}
      BY <1>11, Transitions
         DEF ConfirmLedger, ConfirmTask, ConfirmInvocation, At, Moves
    <2>2. s \in StepName
      BY <2>1, BusyRow
    <2>3. Later(s)
      <3>1. CASE ConfirmLedger(w)
        BY <2>2, <3>1 DEF ConfirmLedger, Later, Typed, DbType
      <3>2. CASE ConfirmTask(w) \/ ConfirmInvocation(w)
        <4>1. Confirmed(s)
          BY <1>2, <3>2 DEF ConfirmTask, ConfirmInvocation, At, ExecutorEvidence
        <4>. QED
          BY <1>1, <2>2, <4>1 DEF Grown
      <3>. QED
        BY <1>11, <3>1, <3>2
    <2>4. worker'[w].out = "WAIT" => Kind(w) = "wait"
      BY <1>2, <2>1 DEF ExecutorEvidence
    <2>. QED
      BY <1>1, <2>1, <2>3, <2>4, EvidenceCarries
  <1>12. CASE FinishUndoCount(w)
    <2>1. /\ worker[w].pc # "idle" /\ worker[w].out = "OK"
          /\ worker'[w].task = worker[w].task /\ worker'[w].pc = "counted"
          /\ worker'[w].out # "WAIT"
      BY <1>12, Transitions DEF FinishUndoCount, At, Moves
    <2>2. s \in StepName
      BY <2>1, BusyRow
    <2>3. Kind(w) = "write" => Later(s)
      BY <1>1, <1>2, <2>1, <2>2 DEF Grown, ExecutorEvidence
    <2>. QED
      BY <1>1, <2>1, <2>3, EvidenceCarries
  <1>. QED
    BY <1>3, <1>4, <1>6, <1>7, <1>8, <1>9, <1>10, <1>11, <1>12 DEF Step, Fault, Leaves

LEMMA EvidenceStep ==
    ASSUME Typed, Orderly, Evidence, Next
    PROVE  Evidence'
  <1>1. Grown
    BY StepGrows
  <1>2. ASSUME NEW s \in StepName, Later(s)
        PROVE  s \in sent'.steps
    <2>1. CASE Confirmed(s)
      BY <1>1, <2>1 DEF Grown, Evidence
    <2>2. CASE s \in Answered
      BY <1>1, <2>2 DEF Answered, Grown, Evidence, ExecutorEvidence
    <2>. QED
      BY <1>1, <1>2, <2>1, <2>2 DEF Grown
  <1>3. ASSUME NEW u \in Worker, worker'[u] = worker[u]
        PROVE  ExecutorEvidence(u)'
    <2>1. ExecutorEvidence(u)
      BY DEF Evidence
    <2>2. CASE worker[u].pc = "idle"
      BY <1>3, <2>2 DEF ExecutorEvidence
    <2>3. CASE worker[u].pc # "idle"
      <3>1. Row(u).step \in StepName
        BY <2>3, BusyRow
      <3>3. ASSUME NEW x \in StepName, Confirmed(x)
            PROVE  Later(x)
        BY <1>1, <3>3 DEF Grown
      <3>. QED
        BY <1>1, <1>3, <2>1, <2>3, <3>1, <3>3, EvidenceCarries DEF ExecutorEvidence, Grown
    <2>. QED
      BY <2>2, <2>3
  <1>4. ASSUME NEW u \in Worker
        PROVE  ExecutorEvidence(u)'
    <2>1. CASE Sweep
      <3>1. worker' = worker
        BY <2>1, SweepLeaves
      <3>. QED
        BY <1>3, <3>1
    <2>2. ASSUME NEW w \in Worker, Step(w) \/ Fault(w)
          PROVE  ExecutorEvidence(u)'
      <3>1. CASE u = w
        BY <2>2, <3>1, ExecutorEvidenceStep
      <3>2. CASE u # w
        BY <1>3, <2>2, <3>2, Backwards
      <3>. QED
        BY <3>1, <3>2
    <2>. QED
      BY <2>1, <2>2 DEF Next, Sweep
  <1>5. \A t \in DOMAIN db'.tasks : RowEvidence(t)'
    BY RowEvidenceStep
  <1>. QED
    BY <1>1, <1>2, <1>4, <1>5, SameDefinition DEF Evidence, Grown, Later, Confirmed

(* Evidence holds throughout.                                              *)
LEMMA EvidenceAlways == Spec => []Evidence
  <1>1. Init => Evidence
    <2> SUFFICES ASSUME Init
                 PROVE  Evidence
      OBVIOUS
    <2>1. \A s \in StepName : ~Confirmed(s)
      BY DEF Init, Confirmed, StepName
    <2>2. \A w \in Worker : worker[w].pc = "idle"
      BY DEF Init, Idle
    <2>3. \A w \in Worker : ExecutorEvidence(w)
      BY <2>2 DEF ExecutorEvidence
    <2>4. DOMAIN db.tasks = {1} /\ db.tasks[1].timer = "none" /\ db.tasks[1].status = "A"
      BY DEF Init, NewRow
    <2>5. \A t \in DOMAIN db.tasks : RowEvidence(t)
      BY <2>4 DEF RowEvidence
    <2>. QED
      BY <2>1, <2>3, <2>5 DEF Evidence
  <1>2. Typed /\ Orderly /\ Evidence /\ [Next]_vars => Evidence'
    <2>1. UNCHANGED vars /\ Evidence => Evidence'
      BY SameDefinition
         DEF vars, Evidence, ExecutorEvidence, RowEvidence, Confirmed, Row, Kind, Task
    <2>. QED
      BY <2>1, EvidenceStep
  <1>. QED
    BY <1>1, <1>2, Layers, PTL DEF Spec

(* A call that counts as done has a confirmed ledger row and a request     *)
(* that left, for any number of retries, replays, takeovers and timeouts.  *)
THEOREM SuccessIsReal == Spec => []SuccessHasEvidence
  <1>1. Typed /\ Evidence => SuccessHasEvidence
    <2> SUFFICES ASSUME Typed, Evidence, NEW t \in DOMAIN db.tasks,
                        setup.steps[db.tasks[t].step].kind = "write", db.tasks[t].status = "C"
                 PROVE  /\ db.ledger[db.tasks[t].step] = "confirmed"
                        /\ db.tasks[t].step \in sent.steps
      BY DEF SuccessHasEvidence
    <2>1. Confirmed(db.tasks[t].step)
      BY DEF Evidence, RowEvidence, Task
    <2>2. db.tasks[t].step \in StepName
      BY DbRows DEF Typed, RowType, StepName
    <2>. QED
      BY <2>1, <2>2 DEF Evidence, Confirmed
  <1>. QED
    BY <1>1, EvidenceAlways, Layers, PTL

=============================================================================
