------------------------- MODULE ResultSweepProofs --------------------------
(***************************************************************************)
(* A round of the sweep visits every result it owes, for every set of      *)
(* results and every page size.                                            *)
(***************************************************************************)
EXTENDS ResultSweep, FiniteSetTheorems, TLAPS

(* Where the results are that a round still owes: on the page, behind the  *)
(* next cursor, or, between two pages, behind the cursor.                  *)
OwedAhead ==
    \A i \in owed \cap waiting :
        IF page = {} THEN cursor # 0 /\ i > cursor
                     ELSE i \in page \/ (next # 0 /\ i > next)

NoStaleNext == page = {} => next = 0

SweepInv == SweepTypeOK /\ NoStaleNext /\ OwedAhead

-----------------------------------------------------------------------------
(* What a page takes from a set of results.                                *)

(* A set that fits on a page is taken whole (pending_results_page with no  *)
(* next cursor).                                                           *)
LEMMA PageTakesAll ==
    ASSUME NEW S \in SUBSET Nat, IsFiniteSet(S), Cardinality(S) <= PageSize
    PROVE  FirstOf(S) = S
<1> SUFFICES ASSUME NEW i \in S
             PROVE  Cardinality({j \in S : j < i}) < PageSize
  BY DEF FirstOf
<1> DEFINE T == {j \in S : j < i}
<1>1. T \subseteq S /\ T # S
  BY DEF T
<1>2. Cardinality(T) < Cardinality(S)
  BY <1>1, FS_Subset, FS_CardinalityType DEF T
<1>3. Cardinality(T) \in Nat /\ Cardinality(S) \in Nat
  BY <1>1, FS_Subset, FS_CardinalityType
<1> QED
  BY <1>2, <1>3, SweepAssumption

(* What is left for a later page sorts behind the whole page.              *)
LEMMA PageIsPrefix ==
    ASSUME NEW S \in SUBSET Nat, IsFiniteSet(S),
           NEW k \in FirstOf(S), NEW i \in S, i \notin FirstOf(S)
    PROVE  k < i
<1>1. k \in S /\ k \in Nat /\ i \in Nat
  BY DEF FirstOf
<1>2. SUFFICES ASSUME i <= k
               PROVE  FALSE
  BY <1>1
<1> DEFINE I == {j \in S : j < i}
           K == {j \in S : j < k}
<1>3. I \subseteq K
  <2> SUFFICES ASSUME NEW j \in S, j < i
               PROVE  j < k
    OBVIOUS
  <2>1. j \in Nat
    OBVIOUS
  <2> QED
    BY <1>1, <1>2, <2>1
<1>4. IsFiniteSet(K)
  BY FS_Subset
<1>5. Cardinality(I) <= Cardinality(K)
  BY <1>3, <1>4, FS_Subset
<1>6. Cardinality(K) < PageSize /\ ~(Cardinality(I) < PageSize)
  BY DEF FirstOf
<1>7. Cardinality(K) \in Nat /\ Cardinality(I) \in Nat
  BY <1>3, <1>4, FS_Subset, FS_CardinalityType
<1> HIDE DEF I, K
<1> QED
  BY <1>5, <1>6, <1>7, SweepAssumption

(* A page with a last item is no larger than the limit.                    *)
LEMMA PageBounded ==
    ASSUME NEW S \in SUBSET Nat, IsFiniteSet(S),
           NEW last \in FirstOf(S), \A i \in FirstOf(S) : i <= last
    PROVE  Cardinality(FirstOf(S)) <= PageSize
<1> DEFINE F == FirstOf(S)
           B == {j \in S : j < last}
<1>1. last \in S /\ last \in Nat /\ F \subseteq S
  BY DEF FirstOf
<1>2. IsFiniteSet(F) /\ IsFiniteSet(B)
  BY <1>1, FS_Subset
<1>3. F \ {last} \subseteq B
  <2> SUFFICES ASSUME NEW j \in F, j # last
               PROVE  j \in S /\ j < last
    OBVIOUS
  <2>1. j \in S /\ j \in Nat /\ j <= last
    BY <1>1
  <2> QED
    BY <1>1, <2>1
<1>4. Cardinality(F \ {last}) <= Cardinality(B)
  BY <1>2, <1>3, FS_Subset
<1>5. Cardinality(F \ {last}) = Cardinality(F) - 1
  BY <1>2, FS_RemoveElement
<1>6. Cardinality(B) < PageSize
  BY DEF FirstOf
<1>7. Cardinality(B) \in Nat /\ Cardinality(F) \in Nat
  BY <1>2, FS_CardinalityType
<1> HIDE DEF F, B
<1>8. Cardinality(F) <= PageSize
  BY <1>4, <1>5, <1>6, <1>7, SweepAssumption
<1> QED
  BY <1>8 DEF F

-----------------------------------------------------------------------------
(* The invariant is inductive.                                             *)

LEMMA SweepInit == Init => SweepInv
  BY FS_EmptySet, SweepAssumption
     DEF Init, SweepInv, SweepTypeOK, NoStaleNext, OwedAhead

LEMMA FetchKeeps ==
    ASSUME SweepInv, Fetch
    PROVE  SweepInv'
<1> DEFINE S == Beyond(cursor)
<1> USE DEF SweepInv
<1>1. S \in SUBSET Nat /\ S \subseteq Result /\ S \subseteq waiting
  BY SweepAssumption DEF SweepTypeOK, Beyond
<1>2. IsFiniteSet(S)
  BY <1>1, FS_Subset, SweepAssumption
<1>3. page = {} /\ page' = FirstOf(S) /\ page' \subseteq S
  BY DEF Fetch, FirstOf
<1>4. \A i \in owed' \cap waiting : i \in S
  BY <1>1, <1>3, SweepAssumption DEF Fetch, Beyond, OwedAhead, SweepTypeOK
<1>5. CASE Cardinality(S) > PageSize
  <2>1. PICK last \in page' : (\A i \in page' : i <= last) /\ next' = last
    BY <1>5 DEF Fetch
  <2>2. page' # {} /\ cursor' = cursor /\ next' # 0 /\ next' \in Result
    BY <2>1, <1>1, <1>3, SweepAssumption DEF Fetch
  <2>3. \A i \in S : i \in page' \/ i > next'
    <3> SUFFICES ASSUME NEW i \in S, i \notin page'
                 PROVE  i > next'
      OBVIOUS
    <3> QED
      BY <1>1, <1>2, <1>3, <2>1, PageIsPrefix
  <2>4. Cardinality(page') <= PageSize
    BY <1>1, <1>2, <1>3, <2>1, PageBounded
  <2>5. OwedAhead'
    BY <1>4, <2>2, <2>3 DEF OwedAhead, Fetch
  <2>6. SweepTypeOK'
    BY <1>1, <1>3, <2>1, <2>2, <2>4 DEF SweepTypeOK, Fetch
  <2> QED
    BY <2>2, <2>5, <2>6 DEF NoStaleNext
<1>6. CASE ~(Cardinality(S) > PageSize)
  <2>1. Cardinality(S) <= PageSize
    BY <1>2, <1>6, FS_CardinalityType, SweepAssumption
  <2>2. page' = S
    BY <1>1, <1>2, <1>3, <2>1, PageTakesAll
  <2>3. next' = 0 /\ cursor' = (IF page' = {} THEN 0 ELSE cursor)
    BY <1>6 DEF Fetch
  <2>4. OwedAhead'
    BY <1>4, <2>2 DEF OwedAhead, Fetch
  <2>5. SweepTypeOK'
    BY <1>1, <2>1, <2>2, <2>3 DEF SweepTypeOK, Fetch
  <2> QED
    BY <2>3, <2>4, <2>5 DEF NoStaleNext
<1> QED
  BY <1>5, <1>6

LEMMA PopKeeps ==
    ASSUME SweepInv, NEW i \in Result, i \in page, Pop(i),
           waiting' \subseteq waiting, UNCHANGED <<kind, arrived>>,
           faults' \in 0..MaxFaults
    PROVE  SweepInv'
<1> USE DEF SweepInv
<1>1. IsFiniteSet(page)
  BY FS_Subset, SweepAssumption DEF SweepTypeOK
<1>2. Cardinality(page') <= PageSize
  <2>1. IsFiniteSet(page \ {i}) /\ Cardinality(page \ {i}) = Cardinality(page) - 1
    BY <1>1, FS_RemoveElement
  <2>2. Cardinality(page) \in Nat /\ Cardinality(page \ {i}) \in Nat
    BY <1>1, <2>1, FS_CardinalityType
  <2> QED
    BY <2>1, <2>2, SweepAssumption DEF SweepTypeOK, Pop
<1>3. SweepTypeOK'
  BY <1>2 DEF SweepTypeOK, Pop
<1>4. NoStaleNext'
  BY DEF NoStaleNext, Pop
<1>5. OwedAhead'
  BY DEF OwedAhead, Pop
<1> QED
  BY <1>3, <1>4, <1>5

LEMMA SweepStep == SweepInv /\ [Next]_vars => SweepInv'
<1> SUFFICES ASSUME SweepInv, [Next]_vars
             PROVE  SweepInv'
  OBVIOUS
<1> USE DEF SweepInv
<1>1. ASSUME NEW i \in Result, Arrive(i)
      PROVE  SweepInv'
  BY <1>1 DEF Arrive, SweepTypeOK, NoStaleNext, OwedAhead
<1>2. ASSUME NEW i \in Result, SettledElsewhere(i)
      PROVE  SweepInv'
  BY <1>2 DEF SettledElsewhere, SweepTypeOK, NoStaleNext, OwedAhead
<1>3. ASSUME NEW i \in Result, Supported(i)
      PROVE  SweepInv'
  BY <1>3 DEF Supported, SweepTypeOK, NoStaleNext, OwedAhead, Kind
<1>4. ASSUME NEW i \in Result, Process(i)
      PROVE  SweepInv'
  <2>1. i \in page /\ Pop(i) /\ waiting' \subseteq waiting /\ faults' \in 0..MaxFaults
    BY <1>4 DEF Process, Front, SweepTypeOK
  <2> QED
    BY <1>4, <2>1, PopKeeps DEF Process
<1>5. ASSUME NEW i \in Result, ItemFails(i)
      PROVE  SweepInv'
  <2>1. i \in page /\ Pop(i) /\ waiting' \subseteq waiting /\ faults' \in 0..MaxFaults
    BY <1>5, SweepAssumption DEF ItemFails, Front, SweepTypeOK
  <2> QED
    BY <1>5, <2>1, PopKeeps DEF ItemFails
<1>r. ASSUME NEW i \in Result, Recognise(i)
      PROVE  SweepInv'
  <2>1. i \in page /\ Pop(i) /\ waiting' \subseteq waiting /\ faults' \in 0..MaxFaults
    BY <1>r DEF Recognise, Front, SweepTypeOK
  <2> QED
    BY <1>r, <2>1, PopKeeps DEF Recognise
<1>6. CASE Fetch
  BY <1>6, FetchKeeps
<1>7. CASE SystemFails
  BY <1>7, SweepAssumption DEF SystemFails, SweepTypeOK, NoStaleNext, OwedAhead
<1>8. CASE Reset
  BY <1>8, FS_EmptySet, SweepAssumption DEF Reset, SweepTypeOK, NoStaleNext, OwedAhead
<1>9. CASE UNCHANGED vars
  BY <1>9 DEF vars, SweepTypeOK, NoStaleNext, OwedAhead
<1> QED
  BY <1>1, <1>2, <1>3, <1>4, <1>5, <1>r, <1>6, <1>7, <1>8, <1>9 DEF Next

-----------------------------------------------------------------------------

LEMMA SweepInvariant == Spec => []SweepInv
  BY SweepInit, SweepStep, PTL DEF Spec

(* A page is never larger than the limit and nothing on it lies behind the *)
(* next cursor, whatever arrives and leaves while the sweep is under way.  *)
THEOREM SweepTypeCorrect == Spec => []SweepTypeOK
<1>1. SweepInv => SweepTypeOK
  BY DEF SweepInv
<1> QED
  BY <1>1, SweepInvariant, PTL

(* No page boundary, arrival, departure or failure of an item makes a      *)
(* round of Sweep::poll jump over a result it set out with.                *)
THEOREM RoundComplete == Spec => []RoundVisitsAll
<1>1. SweepInv => RoundVisitsAll
  BY DEF SweepInv, OwedAhead, RoundVisitsAll
<1> QED
  BY <1>1, SweepInvariant, PTL

=============================================================================
