--------------------------- MODULE ScheduleStore ---------------------------
(***************************************************************************)
(* Schedules, permission grants and devices as the control plane keeps     *)
(* them (postgres.repository.ts).                                          *)
(*                                                                         *)
(* Every change of a schedule takes the next revision of its workspace and *)
(* writes a row of schedule_changes per device concerned: `upsert' for the *)
(* device the schedule runs on, `remove' for a device that loses it.  The  *)
(* row of schedule_workspace_revisions is locked until the commit, so      *)
(* revisions are committed in order and each operation is one step here.   *)
(*                                                                         *)
(*   now       the clock; it stops at MaxTime                              *)
(*   revoked   devices that were revoked, with the time of it              *)
(*   grant     grant[d][r]: when the active grant expires; 0 when there is *)
(*             none or it was revoked; Forever when it never expires       *)
(*   schedule  the rows; a schedule stays in the workspace of its device   *)
(*   revision  schedule_workspace_revisions                                *)
(*   changes   schedule_changes; `listed' is not stored, it notes for the  *)
(*             properties whether the schedule was not disabled            *)
(*                                                                         *)
(* Refused requests (a stale expectedRevision, a missing grant, a revoked  *)
(* device) change nothing and have no step.                                *)
(***************************************************************************)
EXTENDS Integers, FiniteSets

CONSTANTS
  Workspaces, Devices, Schedules, Releases,
  Workspace,    \* Workspace[d]: where device d is registered
  Occurrences,  \* what users set as the next run of a schedule
  MaxRevision,  \* bound: beyond it users change no schedule
  MaxTime       \* bound on the clock

ASSUME WorkspaceAssumption == Workspace \in [Devices -> Workspaces]
ASSUME OccurrenceAssumption == Occurrences \subseteq Nat
ASSUME StoreBoundAssumption == MaxRevision \in Nat /\ MaxTime \in Nat

VARIABLES now, revoked, grant, schedule, revision, changes

storeVars == <<now, revoked, grant, schedule, revision, changes>>

Forever == MaxTime + 1
Never   == MaxTime + 1

NoSchedule == [status |-> "absent"]
Row == [status : {"active", "paused", "disabled"}, target : Devices, release : Releases,
        next : Nat, revision : Nat]
Record == [release : Releases, next : Nat, revision : Nat, enabled : BOOLEAN]
Change == [schedule : Schedules, target : Devices, revision : Nat, at : Nat,
           op : {"upsert"}, record : Record, listed : BOOLEAN]
     \cup [schedule : Schedules, target : Devices, revision : Nat, at : Nat, op : {"remove"}]

Exists(s) == schedule[s].status # "absent"
Listed(s) == schedule[s].status \in {"active", "paused"}
IsActive(d) == revoked[d] = Never
GrantActive(d, r) == grant[d][r] > now

\* mapScheduleRecord: what a device gets to see of a row.
RecordOf(row) == [release |-> row.release, next |-> row.next, revision |-> row.revision,
                  enabled |-> row.status = "active"]

Upsert(s, row) ==
  [schedule |-> s, target |-> row.target, revision |-> row.revision, at |-> now,
   op |-> "upsert", record |-> RecordOf(row), listed |-> row.status # "disabled"]
Remove(s, d, rev) ==
  [schedule |-> s, target |-> d, revision |-> rev, at |-> now, op |-> "remove"]

StoreInit ==
  /\ now = 0
  /\ revoked = [d \in Devices |-> Never]
  /\ grant = [d \in Devices |-> [r \in Releases |-> 0]]
  /\ schedule = [s \in Schedules |-> NoSchedule]
  /\ revision = [w \in Workspaces |-> 0]
  /\ changes = {}
-----------------------------------------------------------------------------
\* Row s becomes `row' under the next revision of workspace w.
Write(s, row, w) ==
  /\ revision[w] < MaxRevision
  /\ revision' = [revision EXCEPT ![w] = @ + 1]
  /\ schedule' = [schedule EXCEPT ![s] = row]
  /\ UNCHANGED <<now, revoked, grant>>

CreateSchedule(s, d, r, t) ==
  LET w   == Workspace[d]
      row == [status |-> "active", target |-> d, release |-> r, next |-> t,
              revision |-> revision[w] + 1]
  IN  /\ ~Exists(s)
      /\ IsActive(d)
      /\ GrantActive(d, r)
      /\ Write(s, row, w)
      /\ changes' = changes \cup {Upsert(s, row)}

\* Mutant: the device that loses the schedule is not told.
UpdateUnannounced(s, d, r, t) ==
  LET w   == Workspace[d]
      old == schedule[s]
      row == [status |-> old.status, target |-> d, release |-> r, next |-> t,
              revision |-> revision[w] + 1]
  IN  /\ Exists(s)
      /\ Workspace[old.target] = w
      /\ IsActive(d)
      /\ GrantActive(d, r)
      /\ Write(s, row, w)
      /\ changes' = changes \cup {Upsert(s, row)}

\* The device that loses the schedule is told to remove it.
UpdateSchedule(s, d, r, t) ==
  LET w   == Workspace[d]
      old == schedule[s]
      row == [status |-> old.status, target |-> d, release |-> r, next |-> t,
              revision |-> revision[w] + 1]
  IN  /\ Exists(s)
      /\ Workspace[old.target] = w
      /\ IsActive(d)
      /\ GrantActive(d, r)
      /\ Write(s, row, w)
      /\ changes' = changes \cup {Upsert(s, row)} \cup
                      (IF d = old.target THEN {} ELSE {Remove(s, old.target, row.revision)})

SetStatus(s, status) ==
  LET w   == Workspace[schedule[s].target]
      row == [schedule[s] EXCEPT !.status = status, !.revision = revision[w] + 1]
  IN  /\ Exists(s)
      /\ schedule[s].status # status
      /\ Write(s, row, w)
      /\ changes' = changes \cup {Upsert(s, row)}

\* Pausing asks for no grant, not even when the schedule is disabled.
PauseSchedule(s) == SetStatus(s, "paused")

ResumeSchedule(s) ==
  /\ Exists(s)
  /\ IsActive(schedule[s].target)
  /\ GrantActive(schedule[s].target, schedule[s].release)
  /\ SetStatus(s, "active")

\* The schedules S of device d are disabled, under one new revision if there are any.
Disable(S, d) ==
  LET w   == Workspace[d]
      rev == revision[w] + 1
  IN  IF S = {} THEN UNCHANGED <<schedule, revision, changes>>
      ELSE /\ revision' = [revision EXCEPT ![w] = rev]
           /\ schedule' = [s \in Schedules |->
                             IF s \in S
                             THEN [schedule[s] EXCEPT !.status = "disabled", !.revision = rev]
                             ELSE schedule[s]]
           /\ changes' = changes \cup {Remove(s, d, rev) : s \in S}

ApprovePermissionGrant(d, r, expires) ==
  /\ IsActive(d)
  /\ expires > now
  /\ grant' = [grant EXCEPT ![d][r] = expires]
  /\ UNCHANGED <<now, revoked, schedule, revision, changes>>

RevokePermissionGrant(d, r) ==
  /\ grant[d][r] # 0
  /\ grant' = [grant EXCEPT ![d][r] = 0]
  /\ Disable({s \in Schedules : Listed(s) /\ schedule[s].target = d /\ schedule[s].release = r}, d)
  /\ UNCHANGED <<now, revoked>>

RevokeDevice(d) ==
  /\ IsActive(d)
  /\ revoked' = [revoked EXCEPT ![d] = now]
  /\ UNCHANGED <<now, grant, schedule, revision, changes>>

Tick ==
  /\ now < MaxTime
  /\ now' = now + 1
  /\ UNCHANGED <<revoked, grant, schedule, revision, changes>>

StoreNext ==
  \/ \E s \in Schedules :
       \/ \E d \in Devices, r \in Releases, t \in Occurrences :
            CreateSchedule(s, d, r, t) \/ UpdateSchedule(s, d, r, t)
       \/ PauseSchedule(s)
       \/ ResumeSchedule(s)
  \/ \E d \in Devices, r \in Releases :
       \/ \E expires \in 1 .. Forever : ApprovePermissionGrant(d, r, expires)
       \/ RevokePermissionGrant(d, r)
  \/ \E d \in Devices : RevokeDevice(d)
  \/ Tick
-----------------------------------------------------------------------------
\* What syncSchedules finds for device d: schedules it may run, and schedules
\* whose grant has gone, which it disables.
Authorized(d) ==
  {s \in Schedules : Listed(s) /\ schedule[s].target = d /\ GrantActive(d, schedule[s].release)}
Unauthorized(d) ==
  {s \in Schedules : Listed(s) /\ schedule[s].target = d /\ ~GrantActive(d, schedule[s].release)}

Entry(s, record) == [schedule |-> s, record |-> record]
SnapshotFor(d) == {Entry(s, RecordOf(schedule[s])) : s \in Authorized(d)}

\* The changes in `log' after revision `from', of which the last of each schedule counts.
Since(d, from, log) == {c \in log : c.target = d /\ c.revision > from}
LastSince(d, from, log) ==
  {c \in Since(d, from, log) :
     \A e \in Since(d, from, log) : e.schedule = c.schedule => e.revision <= c.revision}
Upserts(d, from, log) ==
  {Entry(c.schedule, c.record) :
     c \in {e \in LastSince(d, from, log) : e.op = "upsert" /\ e.schedule \in Authorized(d)}}
Removed(d, from, log) ==
  {c.schedule : c \in Since(d, from, log)} \ {e.schedule : e \in Upserts(d, from, log)}

\* What the log says device d has at revision k.
Published(d, k) ==
  {Entry(c.schedule, c.record) :
     c \in {e \in changes :
              /\ e.target = d /\ e.revision <= k /\ e.op = "upsert" /\ e.listed
              /\ \A f \in changes :
                   f.target = d /\ f.schedule = e.schedule /\ f.revision <= k
                     => f.revision <= e.revision}}
=============================================================================
