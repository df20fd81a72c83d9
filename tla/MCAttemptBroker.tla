--------------------------- MODULE MCAttemptBroker ---------------------------
(* Instances of AttemptBroker: a grant that admits only some of the        *)
(* requests, for one is larger than the other.                             *)
EXTENDS AttemptBroker, TLC

CONSTANTS small, large

Charges  == [b \in Content |->
                [m \in Resource |-> CASE b = small -> 1 [] b = large -> 2 [] OTHER -> 0]]
Maxima   == [m \in Resource |-> 2]
Symmetry == Permutations(Conn) \cup Permutations(Req)
=============================================================================
