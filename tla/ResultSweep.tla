---------------------------- MODULE ResultSweep -----------------------------
(***************************************************************************)
(* How a reconciler walks the results that wait for acknowledgement        *)
(* (result_sweep.rs and ResultReconciler::run_poll): bounded pages behind  *)
(* a cursor, round after round.  What happens to one result is the subject *)
(* of RunnerLane; here it is reconciled, deferred, or fails in a way that  *)
(* condemns the item or the whole poll.  Results are numbered in the       *)
(* authority's order, so a page is a set whose front is its least member.  *)
(***************************************************************************)
EXTENDS Naturals, FiniteSets

CONSTANTS
    Result,     \* the results there may be, in the authority's order
    PageSize,   \* the limit of a page: 32 in the code
    MaxFaults   \* bound: restarts, rejected cursors, passing failures

ASSUME SweepAssumption ==
    /\ IsFiniteSet(Result)
    /\ Result \subseteq Nat \ {0}
    /\ PageSize \in Nat \ {0}
    /\ MaxFaults \in Nat

VARIABLES
    kind,      \* what reconcile_item makes of a result
    waiting,   \* the authority's results without acknowledgement
    arrived,   \* those that have ever been there
    page,      \* Sweep.page
    cursor,    \* Sweep.cursor, 0 for none
    next,      \* Sweep.next_cursor, 0 for none
    owed,      \* of the results listed when the round began: not yet visited
    faults     \* bound on what may go wrong

vars == <<kind, waiting, arrived, page, cursor, next, owed, faults>>

Kind == {"ready", "deferred", "poison"}

(* Sweep::default, an empty authority.                                     *)
Init ==
    /\ kind \in [Result -> Kind]
    /\ waiting = {}
    /\ arrived = {}
    /\ page = {}
    /\ cursor = 0
    /\ next = 0
    /\ owed = {}
    /\ faults = 0

-----------------------------------------------------------------------------
(* The authority, modelled from pending_results_page.                      *)

(* A result arrives anywhere in the order, behind the cursor too.          *)
Arrive(i) ==
    /\ i \notin arrived
    /\ arrived' = arrived \cup {i}
    /\ waiting' = waiting \cup {i}
    /\ UNCHANGED <<kind, page, cursor, next, owed, faults>>

(* Another instance has acknowledged the result.                           *)
SettledElsewhere(i) ==
    /\ i \in waiting
    /\ waiting' = waiting \ {i}
    /\ UNCHANGED <<kind, arrived, page, cursor, next, owed, faults>>

(* The profile, or the task, of a deferred result has become available.    *)
Supported(i) ==
    /\ kind[i] = "deferred"
    /\ kind' = [kind EXCEPT ![i] = "ready"]
    /\ UNCHANGED <<waiting, arrived, page, cursor, next, owed, faults>>

Beyond(c) == {i \in waiting : i > c}

FirstOf(S) == {i \in S : Cardinality({j \in S : j < i}) < PageSize}

-----------------------------------------------------------------------------
(* Sweep::poll.                                                            *)

(* A bug: every page has a next cursor, the last one too.                  *)
FetchLastAlways ==
    /\ page = {}
    /\ page' = FirstOf(Beyond(cursor))
    /\ IF page' # {}
       THEN \E last \in page' : (\A i \in page' : i <= last) /\ next' = last
       ELSE next' = cursor
    /\ owed' = IF cursor = 0 THEN waiting ELSE owed
    /\ cursor' = IF page' = {} THEN next' ELSE cursor
    /\ UNCHANGED <<kind, waiting, arrived, faults>>

(* An empty page is fetched from the cursor; the next cursor is the last   *)
(* item's when there are more behind it.  A page with nothing in it ends   *)
(* the poll and with it the round.                                         *)
Fetch ==
    /\ page = {}
    /\ page' = FirstOf(Beyond(cursor))
    /\ IF Cardinality(Beyond(cursor)) > PageSize
       THEN \E last \in page' : (\A i \in page' : i <= last) /\ next' = last
       ELSE next' = 0
    /\ owed' = IF cursor = 0 THEN waiting ELSE owed
    /\ cursor' = IF page' = {} THEN next' ELSE cursor
    /\ UNCHANGED <<kind, waiting, arrived, faults>>

Front(i) == i \in page /\ \A j \in page : i <= j

(* A bug: after a page the sweep begins again.                             *)
PopForgetsCursor(i) ==
    /\ page' = page \ {i}
    /\ owed' = owed \ {i}
    /\ IF page' = {} THEN cursor' = 0 /\ next' = 0 ELSE UNCHANGED <<cursor, next>>

(* pop_front; after the last item the cursor moves on, or back to the      *)
(* start.                                                                  *)
Pop(i) ==
    /\ page' = page \ {i}
    /\ owed' = owed \ {i}
    /\ IF page' = {} THEN cursor' = next /\ next' = 0 ELSE UNCHANGED <<cursor, next>>

(* The front item is reconciled and acknowledged, or deferred, or its own  *)
(* error condemns it: each time the sweep goes on behind it.               *)
Process(i) ==
    /\ Front(i)
    /\ kind[i] # "poison"
    /\ waiting' = IF kind[i] = "ready" THEN waiting \ {i} ELSE waiting
    /\ Pop(i)
    /\ UNCHANGED <<kind, arrived, faults>>

(* What another instance has settled may be recognised before it can fail: *)
(* the gate of a v2 process does so.  A v1 process has no gate, its        *)
(* artifact step comes first and may fail again, so nothing may count on   *)
(* this step.                                                              *)
Recognise(i) ==
    /\ Front(i)
    /\ kind[i] = "poison"
    /\ i \notin waiting
    /\ Pop(i)
    /\ UNCHANGED <<kind, waiting, arrived, faults>>

(* A ready result fails on its own this time: its acknowledgement was      *)
(* refused.                                                                *)
ItemFails(i) ==
    /\ faults < MaxFaults
    /\ Front(i)
    /\ kind[i] = "ready"
    /\ Pop(i)
    /\ faults' = faults + 1
    /\ UNCHANGED <<kind, waiting, arrived>>

(* A failure of the system, passing or, for a poisoned result, lasting,    *)
(* leaves the sweep where it is; so does a fetch that fails.  The loop     *)
(* tries again a second later, so nothing changes but the count.           *)
SystemFails ==
    /\ faults < MaxFaults
    /\ faults' = faults + 1
    /\ UNCHANGED <<kind, waiting, arrived, page, cursor, next, owed>>

(* A fetch whose cursor is refused, or a restart of the service: the sweep *)
(* begins again.                                                           *)
Reset ==
    /\ faults < MaxFaults
    /\ page' = {}
    /\ cursor' = 0
    /\ next' = 0
    /\ owed' = {}
    /\ faults' = faults + 1
    /\ UNCHANGED <<kind, waiting, arrived>>

-----------------------------------------------------------------------------

Poll == Fetch \/ \E i \in Result : Process(i)

Next ==
    \/ \E i \in Result :
          \/ Arrive(i) \/ SettledElsewhere(i) \/ Supported(i)
          \/ Process(i) \/ Recognise(i) \/ ItemFails(i)
    \/ Fetch \/ SystemFails \/ Reset

Spec == Init /\ [][Next]_vars

(* run() polls again after every poll, however it ended.                   *)
FairSpec == Spec /\ WF_vars(Poll)

-----------------------------------------------------------------------------
(* The sweep's state keeps its type and its bound: a page is never larger  *)
(* than asked for, and the next cursor never lies before an item of it.    *)
SweepTypeOK ==
    /\ kind \in [Result -> Kind]
    /\ waiting \subseteq arrived
    /\ arrived \subseteq Result
    /\ page \subseteq Result
    /\ cursor \in Result \cup {0}
    /\ next \in Result \cup {0}
    /\ owed \subseteq arrived
    /\ faults \in 0..MaxFaults
    /\ Cardinality(page) <= PageSize
    /\ next # 0 => \A i \in page : i <= next

(* A round that was not reset comes back to the start only after it has    *)
(* visited every result that was listed when it began, unless another      *)
(* instance settled it: no arrival, departure or page boundary makes the   *)
(* cursor jump over a result.                                              *)
RoundVisitsAll == (page = {} /\ cursor = 0) => owed \cap waiting = {}

(* A result that can be reconciled is, whatever number of deferred results *)
(* sorts before it, unless the sweep meets a result whose failure counts   *)
(* as one of the system: that one keeps its place at the front and every   *)
(* other result behind it.                                                 *)
Drained ==
    \A i \in Result :
        (i \in waiting /\ kind[i] = "ready")
            ~> (i \notin waiting \/ \E p \in page : Front(p) /\ kind[p] = "poison")

=============================================================================
