--------------------------- MODULE MCWorkerAttempt ---------------------------
(* Instances of WorkerAttempt: charges play no part here.                  *)
EXTENDS WorkerAttempt

Charges == [b \in Content |-> [m \in Resource |-> 1]]
Maxima  == [m \in Resource |-> 9]
=============================================================================
