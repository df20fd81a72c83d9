--------------------------- MODULE RunnerJournal ---------------------------
(***************************************************************************)
(* The runner's durable execution journal (journal.rs): one SQLite table   *)
(* keyed by execution id.  Every method takes the connection mutex, runs   *)
(* one statement or transaction with synchronous=FULL and checkpoints, so  *)
(* each is one atomic, durable update; here it is an operator from the     *)
(* table to the updated table.                                             *)
(*                                                                         *)
(* Abstractions: a lease id together with its fencing token is one member  *)
(* of Lease; the backend operation id is a function of the execution id in *)
(* every backend, so a row only says whether it has been recorded; of a    *)
(* terminal payload the attempt state and the cleanup state are kept.      *)
(***************************************************************************)

CONSTANTS
    Exec,      \* execution ids
    Lease,     \* lease identities: a lease id with its fencing token
    NoLease    \* the lease of an execution that has no row

ASSUME NoLeaseAssumption == NoLease \notin Lease

JournalState ==
    { "INTENT_RECORDED", "PREPARING", "PREPARED", "EXECUTING",
      "TERMINAL_PENDING", "TERMINAL_REPORTED", "CLEANUP_REQUIRED",
      "CLEANUP_CONFIRMED", "UNKNOWN" }

(* The terminal attempt states send_terminal accepts, and the cleanup      *)
(* states the runner writes into a result it persists.                     *)
AttemptState == {"SUCCEEDED", "FAILED", "CANCELLED", "TIMED_OUT", "UNKNOWN"}
CleanupState == {"NOT_REQUIRED", "CONFIRMED", "FAILED"}

TerminalResult == [state : AttemptState, cleanup : CleanupState]
NoResult       == [state |-> "NONE", cleanup |-> "NONE"]
MaybeResult    == TerminalResult \cup {NoResult}

JournalRecord ==
    [ state    : JournalState \cup {"ABSENT"},
      lease    : Lease \cup {NoLease},
      op       : BOOLEAN,
      terminal : MaybeResult ]

NoRecord ==
    [state |-> "ABSENT", lease |-> NoLease, op |-> FALSE, terminal |-> NoResult]

Recorded(j, e) == j[e].state # "ABSENT"

(* Inserts the row of an execution that has none.  The callers look the    *)
(* execution up first, so the two early returns for an existing row        *)
(* (same lease: false; other lease: error) are their guards.               *)
RecordIntent(j, e, l) ==
    [j EXCEPT ![e] = [ state    |-> "INTENT_RECORDED",
                       lease    |-> l,
                       op       |-> FALSE,
                       terminal |-> NoResult ]]

(* A state update keeps an operation id already recorded (COALESCE) and    *)
(* drops the terminal payload only when it marks the result as reported.   *)
SetState(j, e, s, op) ==
    [j EXCEPT ![e] = [ state    |-> s,
                       lease    |-> j[e].lease,
                       op       |-> op \/ j[e].op,
                       terminal |-> IF s = "TERMINAL_REPORTED"
                                    THEN NoResult ELSE j[e].terminal ]]

SetTerminal(j, e, r) ==
    [j EXCEPT ![e] = [ state    |-> "TERMINAL_PENDING",
                       lease    |-> j[e].lease,
                       op       |-> j[e].op,
                       terminal |-> r ]]

(* The rows recovery has to look at.                                       *)
Unfinished(j) == {e \in Exec : j[e].state \notin {"ABSENT", "CLEANUP_CONFIRMED"}}

=============================================================================
