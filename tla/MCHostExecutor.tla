--------------------------- MODULE MCHostExecutor ---------------------------
(* Instances of HostExecutor: three definitions and the ways they can be   *)
(* admitted.                                                               *)
EXTENDS HostExecutor, TLC

Local(kind, next) ==
    [kind |-> kind, next |-> next, tries |-> 1, undo |-> End, branches |-> <<>>, compete |-> FALSE]

Write(next, tries, undo) ==
    [Local("write", next) EXCEPT !.tries = tries, !.undo = undo]

Fork(next, branches, compete) ==
    [Local("fork", next) EXCEPT !.branches = branches, !.compete = compete]

(* A write that may be retried and undone, then a durable wait.            *)
Chain ==
    [write |-> Write("pause", 2, "undo"), pause |-> Local("wait", End), undo |-> Local("set", End)]

(* The same with nothing to undo and a step after the wait.                *)
Longer ==
    [write |-> Write("pause", 2, End), pause |-> Local("wait", "last"), last |-> Local("set", End)]

(* Two writes side by side, both to be undone, and a step after the join.  *)
Both ==
    [fork |-> Fork("last", <<"left", "right">>, FALSE),
     left |-> Write(End, 1, "undoLeft"), right |-> Write(End, 1, "undoRight"),
     last |-> Local("set", End),
     undoLeft |-> Local("set", End), undoRight |-> Local("set", End)]

(* A write races a wait; the first to succeed goes on.                     *)
Race ==
    [fork |-> Fork(End, <<"left", "right">>, TRUE),
     left |-> Write(End, 1, End), right |-> Local("wait", End)]

Admit(first, steps, limit, profile, policy, class) ==
    [first |-> first, steps |-> steps, limit |-> limit, profile |-> profile,
     policy |-> policy, class |-> class, dated |-> TRUE]

EverySetup ==
    {Admit("write", Chain, 2, "v1", "COOPERATIVE", "interactive"),
     Admit("write", Longer, 3, "v2", "BEFORE", "standard"),
     [Admit("fork", Both, 4, "v1", "COOPERATIVE", "interactive") EXCEPT !.dated = FALSE],
     [Admit("fork", Both, 4, "v2", "COOPERATIVE", "interactive") EXCEPT !.dated = FALSE],
     Admit("fork", Race, 3, "v1", "COOPERATIVE", "standard"),
     Admit("fork", Race, 3, "v2", "BEFORE", "interactive")}

(* Without a compensation, for the run about progress.                     *)
Progressing ==
    {Admit("write", Longer, 4, "v1", "COOPERATIVE", "interactive"),
     Admit("write", Longer, 3, "v2", "BEFORE", "standard"),
     Admit("fork", Race, 3, "v1", "BEFORE", "standard"),
     [Admit("fork", Both, 4, "v2", "BEFORE", "standard") EXCEPT !.dated = FALSE]}

(* The definitions are among those the results on shapes are about.        *)
ASSUME ShapesAssumption == \A s \in Setups : OneWay(s) /\ PlainUndo(s)

Symmetry == Permutations(Worker)
=============================================================================
