-------------------------- MODULE RunnerInvariants --------------------------
(***************************************************************************)
(* The inductive invariant behind the safety properties of                 *)
(* RunnerSupervisor.  TLC checks it on small instances, TLAPS for every    *)
(* value of the constants (RunnerSupervisorProofs).                        *)
(***************************************************************************)
EXTENDS RunnerSupervisor

Handling   == TransportState \ {"dead", "disconnected", "recover", "serve"}
SettingUp  == {"admit", "preparing", "prepared", "started"}

(* A handler or a recovery step that is under way, and only that, has an   *)
(* execution.                                                              *)
CurOK == IF tpc \in Handling THEN cur \in Exec ELSE cur = NoExec

(* Past the end of its execution a task has a result.                      *)
BuiltOK ==
    \A e \in Exec :
        task[e] \notin {"none", "start", "running"} => result[e] # NoResult

WellFormed == TypeOK /\ CurOK /\ BuiltOK

(* Nothing is known of e: no task was spawned, no command was started and  *)
(* no result of e exists anywhere, the recovery snapshot included.         *)
Fresh(e) ==
    /\ task[e] = "none"
    /\ execs[e] = 0
    /\ journal[e].terminal = NoResult
    /\ pending[e] = NoResult
    /\ result[e] = NoResult
    /\ ctl[e] = NoResult
    /\ wire[e] = {}
    /\ snap[e].terminal = NoResult

(* An execution without a row is fresh, and it stays so until the task is  *)
(* spawned: the row is what keeps a second delivery out.                   *)
Freshness ==
    /\ \A e \in Exec : ~Recorded(journal, e) => Fresh(e)
    /\ tpc \in SettingUp => Fresh(cur)
    /\ tpc \in Handling => Recorded(journal, cur)
    /\ \A e \in todo : Recorded(journal, e)

NotStarted == \A e \in Exec : task[e] = "start" => execs[e] = 0

(* Recovery claims confirmed cleanup only past its own removal.            *)
RecoveryEvidence ==
    /\ \A e \in Exec :
          snap[e].terminal.cleanup = "CONFIRMED" => backend[e] = "REMOVED"
    /\ tpc \in {"recPersist", "recPublish"} /\ snap[cur].op
          => backend[cur] = "REMOVED"

(* What recovery takes for acknowledged was acknowledged.                  *)
RecoveryKept ==
    /\ \A e \in Exec :
          snap[e].state \in {"TERMINAL_REPORTED", "CLEANUP_CONFIRMED"}
          => ctl[e] # NoResult
    /\ tpc \in {"recReclaim", "recConfirm"} => snap[cur].state = "TERMINAL_REPORTED"
    /\ tpc = "ackReported" => ctl[cur] # NoResult

(* A task that may still write the journal.                                *)
Writing(e) ==
    task[e] \in {"start", "running", "cleanup", "cleaned", "persist", "retire"}

Recovering ==
    {"recover", "recActive", "recReclaim", "recConfirm", "recStop",
     "recCleanup", "recPersist", "recPublish"}

(* Who may write which row: as long as the task may, the execution is      *)
(* active, unpublished and not settled, so recovery and acknowledgements   *)
(* stay away from it; recovery decides only rows that are not settled, and *)
(* its snapshot, though stale, still tells which rows are.  A process that *)
(* died owns nothing.                                                      *)
Ownership ==
    /\ \A e \in Exec :
          Writing(e) => e \in active /\ pending[e] = NoResult /\ ~Settled(e)
    /\ tpc = "started" => cur \in active
    /\ tpc \in SettingUp => ~Settled(cur)
    /\ tpc = "ackReported" => Settled(cur)
    /\ tpc \in Recovering \ {"recover", "recActive"} => cur \notin active
    /\ tpc \in {"recStop", "recCleanup", "recPersist", "recPublish"} => ~Settled(cur)
    /\ tpc = "recActive" /\ Settled(cur) => snap[cur].state = "TERMINAL_REPORTED"
    /\ \A e \in todo : Settled(e) => snap[e].state = "TERMINAL_REPORTED"
    /\ tpc \notin Recovering => todo = {}
    /\ cur \notin todo
    /\ tpc = "dead" => active = {} /\ \A e \in Exec : task[e] = "none"

(* As long as the task may still write its row, nobody has been told of    *)
(* an outcome.                                                             *)
Unreported ==
    \A e \in Exec : Writing(e) => wire[e] = {} /\ ctl[e] = NoResult

(* Where outcomes come from: whoever claims success, or a cancellation, at *)
(* any stage of delivery, claims it of a command that was started, or of   *)
(* the lease the controller cancelled.  A lease is fixed with its row, so  *)
(* a cancelled execution keeps the lease it was cancelled under.           *)
Provenance ==
    /\ \A e \in Exec : \A r \in Copies(e) \cup {snap[e].terminal} :
          /\ r.state = "SUCCEEDED" => execs[e] # 0
          /\ r.state = "CANCELLED" => <<e, journal[e].lease>> \in revoked
    /\ \A e \in Exec : task[e] = "running" => execs[e] # 0
    /\ \A e \in cancelled : e \in expired \/ <<e, journal[e].lease>> \in revoked
    /\ \A e \in active \cup cancelled : Recorded(journal, e)

(* After a restart the runner holds r as the outcome of e: no task of e is *)
(* left, so only recovery and acknowledgements touch the row; recovery     *)
(* finds r in its snapshot and replays it, and what is discarded has been  *)
(* acknowledged.                                                           *)
Replaying(e, r) ==
    /\ Recorded(journal, e)
    /\ task[e] = "none"
    /\ e \notin active
    /\ tpc \in SettingUp => cur # e
    /\ \/ /\ journal[e].terminal = r
          /\ e \in todo \/ (tpc = "recActive" /\ cur = e) => snap[e].terminal = r
          /\ tpc \in Recovering \ {"recover", "recActive"} => cur # e
       \/ journal[e].terminal = NoResult /\ Settled(e)

(* The conjunction TLAPS shows to be inductive.  Each of the properties    *)
(* alone is not: a step of recovery relies on what its snapshot says, and  *)
(* a step of set-up on the row having been absent.                         *)
InductiveInvariant ==
    /\ WellFormed
    /\ Freshness
    /\ NotStarted
    /\ AtMostOneExecution
    /\ CleanupEvidence
    /\ RecoveryEvidence
    /\ OutcomeKept
    /\ RecoveryKept
    /\ Ownership
    /\ Unreported
    /\ Provenance

=============================================================================
