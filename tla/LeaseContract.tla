--------------------------- MODULE LeaseContract ---------------------------
(***************************************************************************)
(* What the runner promises the controller about each execution, whatever  *)
(* crashes, reconnects and redeliveries happen in between: it is taken at  *)
(* most once, its command is started at most once and never after an       *)
(* outcome has been reported, only a command that was started is reported  *)
(* as succeeded, the first outcome stands, and the runner forgets an       *)
(* execution only after the controller has its outcome.                    *)
(***************************************************************************)
EXTENDS Naturals

CONSTANTS
    Exec,       \* execution ids
    Outcome,    \* terminal attempt states
    NoOutcome   \* no outcome stored yet

VARIABLES
    phase,      \* what the runner's durable state says of an execution
    ran,        \* how often its command was started
    outcome     \* the outcome the controller has stored

vars == <<phase, ran, outcome>>

Init ==
    /\ phase   = [e \in Exec |-> "unseen"]
    /\ ran     = [e \in Exec |-> 0]
    /\ outcome = [e \in Exec |-> NoOutcome]

Take(e) ==
    /\ phase[e] = "unseen"
    /\ phase' = [phase EXCEPT ![e] = "owned"]
    /\ UNCHANGED <<ran, outcome>>

Run(e) ==
    /\ phase[e] = "owned"
    /\ ran[e] = 0
    /\ outcome[e] = NoOutcome
    /\ ran' = [ran EXCEPT ![e] = 1]
    /\ UNCHANGED <<phase, outcome>>

Conclude(e, s) ==
    /\ phase[e] = "owned"
    /\ outcome[e] = NoOutcome
    /\ s = "SUCCEEDED" => ran[e] = 1
    /\ outcome' = [outcome EXCEPT ![e] = s]
    /\ UNCHANGED <<phase, ran>>

Settle(e) ==
    /\ phase[e] = "owned"
    /\ outcome[e] # NoOutcome
    /\ phase' = [phase EXCEPT ![e] = "settled"]
    /\ UNCHANGED <<ran, outcome>>

Next ==
    \E e \in Exec :
        \/ Take(e) \/ Run(e) \/ Settle(e)
        \/ \E s \in Outcome : Conclude(e, s)

Spec == Init /\ [][Next]_vars

=============================================================================
