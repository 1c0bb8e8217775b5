---------------------------- MODULE RunDispatch ----------------------------
(***************************************************************************)
(* Dispatch of desktop runs: the control plane's run records, the Agent's  *)
(* SQLite replica of them, the durable report outbox and the unreliable    *)
(* HTTP between the two.                                                   *)
(*                                                                         *)
(* The control plane (postgres.repository.ts) commits one transaction per  *)
(* request.  The Agent talks to it from one background thread              *)
(* (run_control_plane_cycle, ipc.rs) that repeats: fetch cancellations,    *)
(* apply them, report finished tasks, launch claimed runs, flush the       *)
(* outbox, claim new runs, launch those, flush again.  Every SQLite        *)
(* transaction and every HTTP exchange of that thread is a step here; the  *)
(* user's own requests reach the Agent on other threads and interleave.    *)
(*                                                                         *)
(*   run         server: status, error code and cancelRequestedAt          *)
(*   grant       server: the permission grant all modelled runs depend on  *)
(*   device      server: whether the device registration is still active   *)
(*   remote      Agent: table remote_runs (state, bound task, and whether  *)
(*               the stored authorization lease is still within its time)  *)
(*   outbox      Agent: table run_report_outbox in outbox_id order; `hold` *)
(*               is the number of cycles an entry still sits out           *)
(*   task        Agent: table tasks, with the Runner process of each task  *)
(*               (child: the handle is in the in-memory map; exit: the     *)
(*               unread exit code) and its row in table leases             *)
(*   installed   Agent: the release has an active local installation       *)
(*   pc, round, batch, cur, curTask    the background thread               *)
(*   lateReports, lateClaim            requests the Agent gave up on that  *)
(*                                     the server may still execute        *)
(*   crashes, timeouts                 counters that bound the faults      *)
(*                                                                         *)
(* All runs belong to one device and one release.  `attempt` is not        *)
(* modelled: the server writes 1 and never changes it.                     *)
(***************************************************************************)
EXTENDS Integers, Sequences, FiniteSets, SequencesExt

CONSTANTS
  Runs,          \* run ids
  Tasks,         \* local task ids, each used at most once
  NoRun, NoTask, \* null values
  Kind,          \* Kind[r]: how the run's release must be started
  Parallel,      \* the manifest's run mode allows several active tasks
  ClaimLimit,    \* RUN_CLAIM_LIMIT
  MaxBackoff,    \* bound on delivery_attempts and on the cycles sat out
  MaxCrashes,    \* bound on Agent crashes
  MaxTimeouts,   \* bound on HTTP exchanges that time out
  Environment    \* outside events this instance allows

ASSUME KindAssumption == Kind \in [Runs -> {"process", "foreground", "elevated"}]
ASSUME NullAssumption == NoRun \notin Runs /\ NoTask \notin Tasks
ASSUME BoundAssumption ==
  /\ Parallel \in BOOLEAN
  /\ ClaimLimit \in Nat \ {0}
  /\ MaxBackoff \in Nat \ {0}
  /\ MaxCrashes \in Nat
  /\ MaxTimeouts \in Nat

VARIABLES run, grant, device, remote, outbox, task, installed,
          pc, round, batch, cur, curTask,
          lateReports, lateClaim, crashes, timeouts

serverVars == <<run, grant, device>>
threadVars == <<pc, round, batch, cur, curTask>>
netVars    == <<lateReports, lateClaim, timeouts>>
vars == <<run, grant, device, remote, outbox, task, installed,
          pc, round, batch, cur, curTask,
          lateReports, lateClaim, crashes, timeouts>>

----------------------------------------------------------------------------
(* The control plane's rules for one run record. *)

Terminal    == {"succeeded", "failed", "cancelled"}
Cancellable == {"dispatched", "running", "needs_user_approval"}
RunStatus   == {"absent", "queued"} \cup Cancellable \cup Terminal
ErrorCode   == {"none", "permission_grant_inactive", "elevation_required",
                "foreground_required", "application_unavailable",
                "agent_run_failed", "runner_failed", "task_stopped"}
ReportStatus == {"running", "needs_user_approval"} \cup Terminal
Report       == [run : Runs, status : ReportStatus, code : ErrorCode]

NewReport(r, status, code) == [run |-> r, status |-> status, code |-> code]

\* Mutant: a report may revive a finished run.
AllowedRevival == [s \in RunStatus |->
  CASE s = "dispatched"          -> ReportStatus
    [] s = "running"             -> ReportStatus \ {"running"}
    [] s = "needs_user_approval" -> {"running", "failed", "cancelled"}
    [] OTHER                     -> {"running"}]

\* The transition table of reportRun.
Allowed == [s \in RunStatus |->
  CASE s = "dispatched"          -> ReportStatus
    [] s = "running"             -> ReportStatus \ {"running"}
    [] s = "needs_user_approval" -> {"running", "failed", "cancelled"}
    [] OTHER                     -> {}]

SameReport(p) == run[p.run].status = p.status /\ run[p.run].code = p.code

Accepts(p) ==
  \/ SameReport(p)
  \/ /\ p.status \in Allowed[run[p.run].status]
     /\ p.status = "cancelled" => run[p.run].cancelRequested

\* The run table after reportRun has executed (a rejected report changes nothing).
AfterReport(p) ==
  IF Accepts(p) THEN [run EXCEPT ![p.run].status = p.status, ![p.run].code = p.code]
                ELSE run

QueuedRuns == {r \in Runs : run[r].status = "queued"}

\* The runs claimRuns locks: every queued run up to the limit.
ClaimSets ==
  {S \in SUBSET QueuedRuns :
     Cardinality(S) = IF Cardinality(QueuedRuns) < ClaimLimit
                      THEN Cardinality(QueuedRuns) ELSE ClaimLimit}

\* The run table after claimRuns took S: dispatched under an active grant,
\* failed without one.
AfterClaim(S) ==
  [r \in Runs |->
     IF r \notin S THEN run[r]
     ELSE IF grant = "active"
          THEN [run[r] EXCEPT !.status = "dispatched"]
          ELSE [run[r] EXCEPT !.status = "failed", !.code = "permission_grant_inactive"]]
----------------------------------------------------------------------------
(* The Agent's tables. *)

RemoteState == {"unknown", "claimed", "running", "needs_user_approval", "terminal"}
TaskStatus  == {"unused", "running", "succeeded", "failed", "stopped"}
Finished    == {"succeeded", "failed", "stopped"}

OutboxEntry == [run : Runs, status : ReportStatus, code : ErrorCode,
                attempts : 0..MaxBackoff, hold : 0..MaxBackoff]

ReportOf(e) == NewReport(e.run, e.status, e.code)

\* INSERT OR IGNORE on UNIQUE(run_id, attempt, status): due at once.
Enqueued(r, status, code) ==
  IF \E i \in 1..Len(outbox) : outbox[i].run = r /\ outbox[i].status = status
  THEN outbox
  ELSE Append(outbox, [run |-> r, status |-> status, code |-> code,
                       attempts |-> 0, hold |-> 0])

StateFor(status) == IF status \in Terminal THEN "terminal" ELSE status

\* Mutant: the report is queued but the run's local state is not updated.
EnqueueReportOnly(r, status, code) ==
  /\ remote' = remote
  /\ outbox' = Enqueued(r, status, code)

\* enqueue_run_report: one SQLite transaction over remote_runs and the outbox.
EnqueueReport(r, status, code) ==
  /\ remote' = [remote EXCEPT ![r].state = StateFor(status)]
  /\ outbox' = Enqueued(r, status, code)

\* refresh_tasks: every Runner that has exited gives its task a final status
\* and loses its leases.
Refreshed(t) ==
  IF t.child /\ t.exit # "none"
  THEN [t EXCEPT !.status = IF t.exit = "ok" THEN "succeeded" ELSE "failed",
                 !.child = FALSE, !.exit = "none", !.lease = FALSE]
  ELSE t
RefreshedTasks == [t \in Tasks |-> Refreshed(task[t])]

\* stop: kills the Runner, ends an active task and revokes its leases.
StoppedTask(t) ==
  [t EXCEPT !.status = IF t.status = "running" THEN "stopped" ELSE t.status,
            !.child = FALSE, !.exit = "none", !.lease = FALSE]

\* Mutants: every task fails at restart; an interrupted task keeps its lease.
RecoveredTaskOverwriting(t) ==
  IF t.status # "unused"
  THEN [t EXCEPT !.status = "failed", !.child = FALSE, !.exit = "none", !.lease = FALSE]
  ELSE t
RecoveredTaskKeepingLease(t) ==
  IF t.status = "running"
  THEN [t EXCEPT !.status = "failed", !.child = FALSE, !.exit = "none"]
  ELSE [t EXCEPT !.child = FALSE, !.exit = "none"]

\* Agent::open after a crash: handles are gone, interrupted tasks fail.
RecoveredTask(t) ==
  IF t.status = "running"
  THEN [t EXCEPT !.status = "failed", !.child = FALSE, !.exit = "none", !.lease = FALSE]
  ELSE [t EXCEPT !.child = FALSE, !.exit = "none"]

Busy(tasks) == ~Parallel /\ \E t \in Tasks : tasks[t].status = "running"

Init ==
  /\ run = [r \in Runs |-> [status |-> "absent", code |-> "none", cancelRequested |-> FALSE]]
  /\ grant = "active"
  /\ device = "active"
  /\ remote = [r \in Runs |-> [state |-> "unknown", task |-> NoTask, lease |-> FALSE]]
  /\ outbox = <<>>
  /\ task = [t \in Tasks |-> [run |-> NoRun, status |-> "unused", child |-> FALSE,
                              exit |-> "none", lease |-> FALSE]]
  /\ installed = TRUE
  /\ pc = "idle" /\ round = 1 /\ batch = {} /\ cur = NoRun /\ curTask = NoTask
  /\ lateReports = {} /\ lateClaim = FALSE
  /\ crashes = 0 /\ timeouts = 0

----------------------------------------------------------------------------
(* Requests of users to the control plane. *)

CreateManualRun(r) ==
  /\ run[r].status = "absent"
  /\ device = "active"
  /\ grant = "active"
  /\ run' = [run EXCEPT ![r].status = "queued"]
  /\ UNCHANGED <<grant, device, remote, outbox, task, installed, threadVars, netVars, crashes>>

CancelRun(r) ==
  /\ run[r].status \in Cancellable \cup {"queued"}
  /\ ~run[r].cancelRequested
  /\ run' = [run EXCEPT ![r].cancelRequested = TRUE,
                        ![r].status = IF @ = "queued" THEN "cancelled" ELSE @]
  /\ UNCHANGED <<grant, device, remote, outbox, task, installed, threadVars, netVars, crashes>>

RevokePermissionGrant ==
  /\ "revoke_grant" \in Environment
  /\ grant # "revoked"
  /\ grant' = "revoked"
  /\ run' = [r \in Runs |->
               IF run[r].status = "queued"
               THEN [run[r] EXCEPT !.status = "failed", !.code = "permission_grant_inactive"]
               ELSE run[r]]
  /\ UNCHANGED <<device, remote, outbox, task, installed, threadVars, netVars, crashes>>

ApprovePermissionGrant ==
  /\ grant # "active"
  /\ device = "active"
  /\ grant' = "active"
  /\ UNCHANGED <<run, device, remote, outbox, task, installed, threadVars, netVars, crashes>>

\* expiresAt passes; nothing is written.
GrantExpires ==
  /\ "expire_grant" \in Environment
  /\ grant = "active"
  /\ grant' = "expired"
  /\ UNCHANGED <<run, device, remote, outbox, task, installed, threadVars, netVars, crashes>>

RevokeDevice ==
  /\ "revoke_device" \in Environment
  /\ device = "active"
  /\ device' = "revoked"
  /\ UNCHANGED <<run, grant, remote, outbox, task, installed, threadVars, netVars, crashes>>

----------------------------------------------------------------------------
(* Local events on the device, on other threads than the background loop. *)

\* The Runner process of a task exits.
RunnerExits(t, exit) ==
  /\ task[t].child
  /\ task[t].exit = "none"
  /\ task' = [task EXCEPT ![t].exit = exit]
  /\ UNCHANGED <<serverVars, remote, outbox, installed, threadVars, netVars, crashes>>

\* The desktop UI asks for a snapshot, which refreshes the tasks.
Snapshot ==
  /\ RefreshedTasks # task
  /\ task' = RefreshedTasks
  /\ UNCHANGED <<serverVars, remote, outbox, installed, threadVars, netVars, crashes>>

UserStop(t) ==
  /\ "user_stop" \in Environment
  /\ task[t].status = "running"
  /\ task' = [task EXCEPT ![t] = StoppedTask(@)]
  /\ UNCHANGED <<serverVars, remote, outbox, installed, threadVars, netVars, crashes>>

Uninstall ==
  /\ "uninstall" \in Environment
  /\ installed
  /\ \A t \in Tasks : task[t].status # "running"
  /\ installed' = FALSE
  /\ UNCHANGED <<serverVars, remote, outbox, task, threadVars, netVars, crashes>>

Reinstall ==
  /\ ~installed
  /\ installed' = TRUE
  /\ UNCHANGED <<serverVars, remote, outbox, task, threadVars, netVars, crashes>>

\* The authorization lease stored with a claimed run runs out.
LeaseExpires(r) ==
  /\ "expire_lease" \in Environment
  /\ remote[r].lease
  /\ remote' = [remote EXCEPT ![r].lease = FALSE]
  /\ UNCHANGED <<serverVars, outbox, task, installed, threadVars, netVars, crashes>>

\* The Agent process dies at any point and is started again.
CrashAndRestart ==
  /\ crashes < MaxCrashes
  /\ crashes' = crashes + 1
  /\ task' = [t \in Tasks |-> RecoveredTask(task[t])]
  /\ pc' = IF pc = "unregistered" THEN pc ELSE "idle"
  /\ round' = 1 /\ batch' = {} /\ cur' = NoRun /\ curTask' = NoTask
  /\ UNCHANGED <<serverVars, remote, outbox, installed, netVars>>
----------------------------------------------------------------------------
(* The background thread: run_control_plane_cycle. *)

\* 401/403 from any call: the registration is cleared and the loop idles for good.
Unauthorized ==
  /\ device = "revoked"
  /\ \/ pc \in {"controls", "claim"}
     \/ pc = "flush" /\ \E i \in 1..Len(outbox) : outbox[i].hold = 0
  /\ pc' = "unregistered"
  /\ round' = 1
  /\ UNCHANGED <<serverVars, remote, outbox, task, installed, batch, cur, curTask,
                 netVars, crashes>>

\* A cycle begins; one cycle interval has passed for every delayed report.
BeginCycle ==
  /\ pc = "idle"
  /\ outbox' = [i \in 1..Len(outbox) |->
                  [outbox[i] EXCEPT !.hold = IF @ = 0 THEN 0 ELSE @ - 1]]
  /\ pc' = "controls"
  /\ round' = 1
  /\ UNCHANGED <<serverVars, remote, task, installed, batch, cur, curTask, netVars, crashes>>

\* Mutant: runs that wait for their user are not offered for cancellation.
FetchStartedRunControls ==
  /\ pc = "controls" /\ device = "active"
  /\ pc' = "apply"
  /\ batch' = {r \in Runs : run[r].cancelRequested /\ run[r].status \in {"dispatched", "running"}}
  /\ task' = RefreshedTasks
  /\ UNCHANGED <<serverVars, remote, outbox, installed, round, cur, curTask, netVars, crashes>>

\* listRunCancellations; apply_run_controls begins with refresh_tasks.
FetchRunControls ==
  /\ pc = "controls" /\ device = "active"
  /\ pc' = "apply"
  /\ batch' = {r \in Runs : run[r].cancelRequested /\ run[r].status \in Cancellable}
  /\ task' = RefreshedTasks
  /\ UNCHANGED <<serverVars, remote, outbox, installed, round, cur, curTask, netVars, crashes>>

RunControlsTimeOut ==
  /\ pc = "controls"
  /\ timeouts < MaxTimeouts
  /\ timeouts' = timeouts + 1
  /\ pc' = "apply"
  /\ batch' = {}
  /\ UNCHANGED <<serverVars, remote, outbox, task, installed, round, cur, curTask,
                 lateReports, lateClaim, crashes>>

\* A control for a run the Agent does not know, or has already ended, is ignored.
IgnoreControl(r) ==
  /\ pc = "apply" /\ r \in batch
  /\ remote[r].state \in {"unknown", "terminal"}
  /\ batch' = batch \ {r}
  /\ UNCHANGED <<serverVars, remote, outbox, task, installed, pc, round, cur, curTask,
                 netVars, crashes>>

\* Mutant: the cancellation is reported without stopping the task.
ControlWithoutStop(r) ==
  /\ pc = "apply" /\ r \in batch
  /\ remote[r].state \notin {"unknown", "terminal"}
  /\ pc' = "cancel"
  /\ cur' = r
  /\ UNCHANGED <<serverVars, remote, outbox, task, installed, round, batch, curTask,
                 netVars, crashes>>

\* Otherwise the bound task, if any, is stopped ...
StopForControl(r) ==
  /\ pc = "apply" /\ r \in batch
  /\ remote[r].state \notin {"unknown", "terminal"}
  /\ task' = [t \in Tasks |-> IF t = remote[r].task THEN StoppedTask(task[t]) ELSE task[t]]
  /\ pc' = "cancel"
  /\ cur' = r
  /\ UNCHANGED <<serverVars, remote, outbox, installed, round, batch, curTask, netVars, crashes>>

\* ... and then the cancellation is recorded for delivery.
EnqueueCancelled ==
  /\ pc = "cancel"
  /\ EnqueueReport(cur, "cancelled", "none")
  /\ pc' = "apply"
  /\ batch' = batch \ {cur}
  /\ cur' = NoRun
  /\ UNCHANGED <<serverVars, task, installed, round, curTask, netVars, crashes>>

\* completed_remote_runs: refresh, then the running runs whose task has ended.
CollectCompletions ==
  /\ pc = "apply" /\ batch = {}
  /\ pc' = "complete"
  /\ task' = RefreshedTasks
  /\ batch' = {r \in Runs : /\ remote[r].state = "running"
                            /\ remote[r].task \in Tasks
                            /\ RefreshedTasks[remote[r].task].status \in Finished}
  /\ UNCHANGED <<serverVars, remote, outbox, installed, round, cur, curTask, netVars, crashes>>

CompletionReport(r) ==
  CASE task[remote[r].task].status = "succeeded" -> NewReport(r, "succeeded", "none")
    [] task[remote[r].task].status = "failed"    -> NewReport(r, "failed", "runner_failed")
    [] OTHER                                     -> NewReport(r, "failed", "task_stopped")

EnqueueCompleted(r) ==
  /\ pc = "complete" /\ r \in batch
  /\ EnqueueReport(r, CompletionReport(r).status, CompletionReport(r).code)
  /\ batch' = batch \ {r}
  /\ UNCHANGED <<serverVars, task, installed, pc, round, cur, curTask, netVars, crashes>>

\* Mutant: runs that already have a task are pending too.
CollectUnfinished ==
  /\ pc \in {"complete", "record"} /\ batch = {}
  /\ pc' = "pending"
  /\ batch' = {r \in Runs : remote[r].state \in {"claimed", "running"} /\ remote[r].lease /\ installed}
  /\ UNCHANGED <<serverVars, remote, outbox, task, installed, round, cur, curTask,
                 netVars, crashes>>

\* pending_authorized_remote_runs: the claimed runs whose release is installed
\* and whose authorization lease still holds.
CollectPending ==
  /\ pc \in {"complete", "record"} /\ batch = {}
  /\ pc' = "pending"
  /\ batch' = {r \in Runs : remote[r].state = "claimed" /\ remote[r].lease /\ installed}
  /\ UNCHANGED <<serverVars, remote, outbox, task, installed, round, cur, curTask,
                 netVars, crashes>>

\* A run that must not start unattended waits for its user.
AskForApproval(r) ==
  /\ pc = "pending" /\ r \in batch
  /\ \/ /\ Kind[r] = "elevated"
        /\ EnqueueReport(r, "needs_user_approval", "elevation_required")
     \/ /\ Kind[r] = "foreground" /\ installed
        /\ EnqueueReport(r, "needs_user_approval", "foreground_required")
  /\ batch' = batch \ {r}
  /\ UNCHANGED <<serverVars, task, installed, pc, round, cur, curTask, netVars, crashes>>

ApplicationUnavailable(r) ==
  /\ pc = "pending" /\ r \in batch
  /\ Kind[r] # "elevated" /\ ~installed
  /\ EnqueueReport(r, "failed", "application_unavailable")
  /\ batch' = batch \ {r}
  /\ UNCHANGED <<serverVars, task, installed, pc, round, cur, curTask, netVars, crashes>>

\* run_server_authorized spawns the Runner: task row, lease and child handle.
Launch(r, t) ==
  /\ pc = "pending" /\ r \in batch
  /\ Kind[r] = "process" /\ installed
  /\ remote[r].lease
  /\ ~Busy(RefreshedTasks)
  /\ task[t].status = "unused"
  /\ task' = [RefreshedTasks EXCEPT ![t] = [run |-> r, status |-> "running",
                                            child |-> TRUE, exit |-> "none", lease |-> TRUE]]
  /\ pc' = "bind" /\ cur' = r /\ curTask' = t
  /\ UNCHANGED <<serverVars, remote, outbox, installed, round, batch, netVars, crashes>>

\* run_server_authorized fails: lease out of time, another active task, no process.
LaunchFails(r) ==
  /\ pc = "pending" /\ r \in batch
  /\ Kind[r] = "process" /\ installed
  /\ ~remote[r].lease \/ Busy(RefreshedTasks) \/ "spawn_error" \in Environment
  /\ EnqueueReport(r, "failed", "agent_run_failed")
  /\ task' = RefreshedTasks
  /\ batch' = batch \ {r}
  /\ UNCHANGED <<serverVars, installed, pc, round, cur, curTask, netVars, crashes>>

\* bind_remote_task_and_enqueue_running: one SQLite transaction, after the spawn.
BindRemoteTask ==
  /\ pc = "bind"
  /\ remote' = [remote EXCEPT ![cur].state = "running", ![cur].task = curTask]
  /\ outbox' = Enqueued(cur, "running", "none")
  /\ pc' = "pending"
  /\ batch' = batch \ {cur}
  /\ cur' = NoRun /\ curTask' = NoTask
  /\ UNCHANGED <<serverVars, task, installed, round, netVars, crashes>>

BeginFlush ==
  /\ pc = "pending" /\ batch = {}
  /\ pc' = "flush"
  /\ UNCHANGED <<serverVars, remote, outbox, task, installed, round, batch, cur, curTask,
                 netVars, crashes>>

\* flush_run_report_outbox: due entries in outbox_id order, stopping at the
\* first failure.
NextDue(i) ==
  /\ i \in 1..Len(outbox)
  /\ outbox[i].hold = 0
  /\ \A j \in 1..(i - 1) : outbox[j].hold # 0

\* Mutant: an undelivered report is dropped.
DelayedForGood(i) == RemoveAt(outbox, i)

\* retry_run_report: the delay grows with every failed delivery up to its cap.
Delayed(i) ==
  LET n == IF outbox[i].attempts < MaxBackoff THEN outbox[i].attempts + 1 ELSE MaxBackoff
  IN  [outbox EXCEPT ![i].attempts = n, ![i].hold = n]

\* A failed flush ends the cycle's work on runs: nothing is claimed.
EndCycle == pc' = "idle" /\ round' = 1

ReportAccepted(i) ==
  /\ pc = "flush" /\ device = "active" /\ NextDue(i)
  /\ Accepts(ReportOf(outbox[i]))
  /\ run' = AfterReport(ReportOf(outbox[i]))
  /\ outbox' = RemoveAt(outbox, i)
  /\ UNCHANGED <<grant, device, remote, task, installed, threadVars, netVars, crashes>>

ReportRejected(i) ==
  /\ pc = "flush" /\ device = "active" /\ NextDue(i)
  /\ ~Accepts(ReportOf(outbox[i]))
  /\ outbox' = Delayed(i)
  /\ EndCycle
  /\ UNCHANGED <<serverVars, remote, task, installed, batch, cur, curTask, netVars, crashes>>

ReportTimesOut(i) ==
  /\ pc = "flush" /\ NextDue(i)
  /\ timeouts < MaxTimeouts
  /\ timeouts' = timeouts + 1
  /\ lateReports' = lateReports \cup {ReportOf(outbox[i])}
  /\ outbox' = Delayed(i)
  /\ EndCycle
  /\ UNCHANGED <<serverVars, remote, task, installed, batch, cur, curTask, lateClaim, crashes>>

\* Everything due was delivered: claim in the first round, rest after the second.
FlushDone ==
  /\ pc = "flush"
  /\ \A i \in 1..Len(outbox) : outbox[i].hold # 0
  /\ IF round = 1 THEN pc' = "claim" /\ round' = 2 ELSE EndCycle
  /\ UNCHANGED <<serverVars, remote, outbox, task, installed, batch, cur, curTask,
                 netVars, crashes>>

ClaimRuns(S) ==
  /\ pc = "claim" /\ device = "active"
  /\ S \in ClaimSets
  /\ run' = AfterClaim(S)
  /\ batch' = IF grant = "active" THEN S ELSE {}
  /\ pc' = "record"
  /\ UNCHANGED <<grant, device, remote, outbox, task, installed, round, cur, curTask,
                 netVars, crashes>>

ClaimTimesOut ==
  /\ pc = "claim"
  /\ timeouts < MaxTimeouts
  /\ timeouts' = timeouts + 1
  /\ lateClaim' = TRUE
  /\ batch' = {}
  /\ pc' = "record"
  /\ UNCHANGED <<serverVars, remote, outbox, task, installed, round, cur, curTask,
                 lateReports, crashes>>

\* record_authorized_remote_claim: stored if the release is installed here and
\* the attempt is newer than the stored one; otherwise the claim is dropped.
RecordRemoteClaim(r) ==
  /\ pc = "record" /\ r \in batch
  /\ remote' = IF installed /\ remote[r].state = "unknown"
               THEN [remote EXCEPT ![r].state = "claimed", ![r].lease = TRUE]
               ELSE remote
  /\ batch' = batch \ {r}
  /\ UNCHANGED <<serverVars, outbox, task, installed, pc, round, cur, curTask,
                 netVars, crashes>>

----------------------------------------------------------------------------
(* Requests whose client has given up: executed late, or never. *)

LateReportExecutes(p) ==
  /\ p \in lateReports
  /\ device = "active"
  /\ run' = AfterReport(p)
  /\ lateReports' = lateReports \ {p}
  /\ UNCHANGED <<grant, device, remote, outbox, task, installed, threadVars,
                 lateClaim, timeouts, crashes>>

LateClaimExecutes(S) ==
  /\ lateClaim
  /\ device = "active"
  /\ S \in ClaimSets
  /\ run' = AfterClaim(S)
  /\ lateClaim' = FALSE
  /\ UNCHANGED <<grant, device, remote, outbox, task, installed, threadVars,
                 lateReports, timeouts, crashes>>

LateRequestsLost ==
  /\ lateReports # {} \/ lateClaim
  /\ lateReports' = {} /\ lateClaim' = FALSE
  /\ UNCHANGED <<serverVars, remote, outbox, task, installed, threadVars, timeouts, crashes>>

----------------------------------------------------------------------------

UserStep ==
  \/ \E r \in Runs : CreateManualRun(r) \/ CancelRun(r) \/ LeaseExpires(r)
  \/ RevokePermissionGrant \/ ApprovePermissionGrant \/ GrantExpires \/ RevokeDevice
  \/ \E t \in Tasks : UserStop(t)
  \/ Snapshot \/ Uninstall \/ Reinstall \/ CrashAndRestart

ThreadStep ==
  \/ Unauthorized \/ BeginCycle
  \/ FetchRunControls \/ RunControlsTimeOut
  \/ \E r \in Runs : IgnoreControl(r) \/ StopForControl(r)
  \/ EnqueueCancelled
  \/ CollectCompletions
  \/ \E r \in Runs : EnqueueCompleted(r)
  \/ CollectPending
  \/ \E r \in Runs : AskForApproval(r) \/ ApplicationUnavailable(r) \/ LaunchFails(r)
  \/ \E r \in Runs, t \in Tasks : Launch(r, t)
  \/ BindRemoteTask
  \/ BeginFlush
  \/ \E i \in 1..Len(outbox) : ReportAccepted(i) \/ ReportRejected(i) \/ ReportTimesOut(i)
  \/ FlushDone
  \/ \E S \in SUBSET Runs : ClaimRuns(S)
  \/ ClaimTimesOut
  \/ \E r \in Runs : RecordRemoteClaim(r)

LateStep ==
  \/ \E p \in lateReports : LateReportExecutes(p)
  \/ \E S \in SUBSET Runs : LateClaimExecutes(S)
  \/ LateRequestsLost

Next ==
  \/ UserStep
  \/ ThreadStep
  \/ \E t \in Tasks : RunnerExits(t, "ok") \/ RunnerExits(t, "error")
  \/ LateStep

Spec == Init /\ [][Next]_vars

\* The loop never stops of its own accord (std thread with a 1 s sleep), and the
\* modelled applications are batch jobs, whose Runner exits.
Fairness ==
  /\ WF_vars(ThreadStep)
  /\ \A t \in Tasks : WF_vars(RunnerExits(t, "ok") \/ RunnerExits(t, "error"))

FairSpec == Spec /\ Fairness
----------------------------------------------------------------------------
(* Properties *)

Phases == {"idle", "controls", "apply", "cancel", "complete", "pending", "bind",
           "flush", "claim", "record", "unregistered"}

RunRecord    == [status : RunStatus, code : ErrorCode, cancelRequested : BOOLEAN]
RemoteRecord == [state : RemoteState, task : Tasks \cup {NoTask}, lease : BOOLEAN]
TaskRecord   == [run : Runs \cup {NoRun}, status : TaskStatus, child : BOOLEAN,
                 exit : {"none", "ok", "error"}, lease : BOOLEAN]

\* Every variable stays in its domain; while the thread is between two
\* transactions on one run, that run (and its new task) is known.
TypeOK ==
  /\ run \in [Runs -> RunRecord]
  /\ grant \in {"active", "expired", "revoked"}
  /\ device \in {"active", "revoked"}
  /\ remote \in [Runs -> RemoteRecord]
  /\ outbox \in Seq(OutboxEntry)
  /\ task \in [Tasks -> TaskRecord]
  /\ installed \in BOOLEAN
  /\ pc \in Phases
  /\ round \in {1, 2}
  /\ batch \in SUBSET Runs
  /\ cur \in Runs \cup {NoRun}
  /\ curTask \in Tasks \cup {NoTask}
  /\ pc \in {"cancel", "bind"} => cur \in Runs
  /\ pc = "bind" => curTask \in Tasks
  /\ lateReports \in SUBSET Report
  /\ lateClaim \in BOOLEAN
  /\ crashes \in 0..MaxCrashes
  /\ timeouts \in 0..MaxTimeouts

TasksOf(r)  == {t \in Tasks : task[t].run = r}
LeasedTasks(r) == {t \in TasksOf(r) : task[t].lease}
BoundStatus(r) == IF remote[r].task \in Tasks THEN task[remote[r].task].status ELSE "unused"

\* A verdict about the work of a run is what the bound task really did, whatever
\* was lost, repeated, delayed or interrupted on the way from the Runner's exit
\* to the control plane (completed_remote_runs, the outbox and reportRun).
VerdictMatchesExecution ==
  \A r \in Runs :
    /\ run[r].status = "succeeded"   => BoundStatus(r) = "succeeded"
    /\ run[r].code = "runner_failed" => BoundStatus(r) = "failed"
    /\ run[r].code = "task_stopped"  => BoundStatus(r) = "stopped"

\* Once the control plane shows a run as finished, or as waiting for its user,
\* no task of that run holds a lease: the Agent no longer acts for it.
SettledRunHoldsNoLease ==
  \A r \in Runs :
    run[r].status \in Terminal \cup {"needs_user_approval"} => LeasedTasks(r) = {}

\* A run may be started again after a crash, but only one of its tasks at a time
\* has authority, and a task that has it is the one the Agent tracks for the run.
OneLeasedTaskPerRun ==
  \A r \in Runs : \A s, t \in LeasedTasks(r) : s = t

\* Authority follows the run: one task of it at most has a lease, and none once the
\* control plane shows the run as finished or waiting, whichever of stop, exit,
\* cancellation, revocation and crash came first.
AuthorityFollowsTheRun == OneLeasedTaskPerRun /\ SettledRunHoldsNoLease

\* A run is executed again only because a crash fell between the spawn of its
\* Runner and the transaction that binds the task to the run.
ReexecutionNeedsCrash ==
  \A r \in Runs : Cardinality(TasksOf(r)) <= 1 + crashes

\* The control plane never shows a run as started, blocked or finished by the
\* device unless the device has recorded at least that much: no report gets
\* ahead of the transaction that enqueued it.
ServerNeverAheadOfAgent ==
  \A r \in Runs :
    /\ run[r].status = "running" => remote[r].state \in {"running", "terminal"}
    /\ run[r].status = "needs_user_approval" =>
         remote[r].state \in {"needs_user_approval", "terminal"}
    /\ (run[r].status \in Terminal /\ remote[r].state # "unknown") =>
         remote[r].state = "terminal"

\* Every run the Agent has recorded is eventually finished, or handed to its
\* user, in the control plane's eyes, although a rejected report is retried for
\* ever ahead of the others.
RecordedRunSettles ==
  \A r \in Runs :
    remote[r].state # "unknown" ~>
      run[r].status \in Terminal \cup {"needs_user_approval"}

\* A cancellation of a run the Agent has recorded completes, also for a run that
\* waits for its user.
CancellationCompletes ==
  \A r \in Runs :
    (remote[r].state # "unknown" /\ run[r].cancelRequested) ~> run[r].status \in Terminal

----------------------------------------------------------------------------
(* Why the safety properties hold: the inductive invariant of the proofs. *)

OutboxReports == {ReportOf(outbox[i]) : i \in 1..Len(outbox)}

\* A live Runner handle and a lease belong to a task that has not ended; a bound
\* task was started for its run.
TaskInv ==
  /\ \A t \in Tasks : task[t].child \/ task[t].lease => task[t].status = "running"
  /\ \A r \in Runs :
       /\ remote[r].task \in Tasks => /\ task[remote[r].task].run = r
                                      /\ task[remote[r].task].status # "unused"
       /\ remote[r].state \in {"unknown", "claimed", "needs_user_approval"} =>
            remote[r].task = NoTask
       /\ remote[r].state = "running" => remote[r].task \in Tasks

\* Only the bound task of a running run has authority, or the task that was just
\* spawned for a claimed run and is about to be bound.
LeaseInv ==
  \A t \in Tasks : task[t].lease =>
    \/ \E r \in Runs : task[t].run = r /\ remote[r].state = "running" /\ remote[r].task = t
    \/ /\ pc = "bind" /\ curTask = t
       /\ task[t].run = cur /\ remote[cur].state = "claimed"

\* What the thread read before it last left a transaction is still so.
ThreadInv ==
  /\ pc = "record" => \A r \in batch : run[r].status = "dispatched" /\ remote[r].state = "unknown"
  /\ pc \in {"pending", "bind"} => \A r \in batch : remote[r].state = "claimed"
  /\ pc = "bind" => /\ remote[cur].state = "claimed"
                    /\ task[curTask].run = cur /\ task[curTask].status # "unused"
  /\ pc = "cancel" => /\ remote[cur].state \notin {"unknown", "terminal"}
                      /\ \A t \in Tasks : task[t].run = cur => ~task[t].lease
  /\ pc = "complete" => \A r \in batch : /\ remote[r].state = "running"
                                         /\ task[remote[r].task].status \in Finished

\* A report says no more than the device has recorded, and no other verdict than
\* the bound task's.
ReportSound(p) ==
  /\ p.status = "running" => remote[p.run].state \in {"running", "terminal"}
  /\ p.status = "needs_user_approval" =>
       remote[p.run].state \in {"needs_user_approval", "terminal"}
  /\ p.status \in Terminal => remote[p.run].state = "terminal"
  /\ p.status = "succeeded" => BoundStatus(p.run) = "succeeded"
  /\ p.code = "runner_failed" => BoundStatus(p.run) = "failed"
  /\ p.code = "task_stopped" => BoundStatus(p.run) = "stopped"

ReportInv == \A p \in OutboxReports \cup lateReports : ReportSound(p)

UnclaimedInv ==
  \A r \in Runs : run[r].status \in {"absent", "queued"} => remote[r].state = "unknown"

DispatchInv ==
  /\ TaskInv
  /\ LeaseInv
  /\ ThreadInv
  /\ ReportInv
  /\ UnclaimedInv
  /\ ServerNeverAheadOfAgent
  /\ VerdictMatchesExecution

\* What the refinement needs besides: a running task has its lease; a run that was
\* handed to its user, by a report in flight or already at the control plane, was
\* never worked on and can only be cancelled; a failure is not reported for work that
\* succeeded.
HandedOver(r) ==
  \/ run[r].status = "needs_user_approval"
  \/ \E q \in OutboxReports \cup lateReports : q.run = r /\ q.status = "needs_user_approval"

HandoverInv ==
  /\ \A t \in Tasks : task[t].status = "running" => task[t].lease
  /\ \A r \in Runs : HandedOver(r) =>
       remote[r].task = NoTask /\ run[r].status \notin {"running", "succeeded", "failed"}
  /\ \A p \in OutboxReports \cup lateReports :
       /\ HandedOver(p.run) => p.status \in {"needs_user_approval", "cancelled"}
       /\ p.status = "failed" => BoundStatus(p.run) \in {"unused", "failed", "stopped"}

----------------------------------------------------------------------------
(* Refinement: the whole machinery implements RunLifecycle. *)

ShownStatus(r) ==
  CASE run[r].status = "queued"                    -> "waiting"
    [] run[r].status \in {"dispatched", "running"} -> "assigned"
    [] run[r].status = "needs_user_approval"       -> "blocked"
    [] OTHER                                       -> run[r].status

\* A task without authority that is not bound to its run has left no trace.
WorkOf(r) ==
  IF LeasedTasks(r) # {} THEN "active"
  ELSE IF BoundStatus(r) \in Finished THEN BoundStatus(r) ELSE "idle"

Lifecycle == INSTANCE RunLifecycle WITH
  status    <- [r \in Runs |-> ShownStatus(r)],
  requested <- [r \in Runs |-> run[r].cancelRequested],
  work      <- [r \in Runs |-> WorkOf(r)]

\* Lost and late requests, crashes, stops and races included, a watcher of the
\* control plane sees only what RunLifecycle allows.
ImplementsRunLifecycle == Lifecycle!Spec
=============================================================================
