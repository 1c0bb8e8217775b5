------------------------- MODULE ControlPlaneProofs ------------------------
(***************************************************************************)
(* The properties of the run control_plane for every number of users,      *)
(* workspaces, devices, releases, schedules and runs.                      *)
(*                                                                         *)
(* A change that was suspended must still be right when it goes on.        *)
(* Pending says what it relies on: the device, the release and the grant   *)
(* it found, and for a schedule that moves, who owns it.  It is kept       *)
(* because the queue lets no other change in between.                      *)
(*                                                                         *)
(* Copies of schedules are compared with the table through the log: ViewOf *)
(* is what the log said was active as of a revision.  The current view is  *)
(* the table (LogInv), every copy is the view of its revision, and so is   *)
(* what an answer under way makes of it (CopyInv).                         *)
(***************************************************************************)
EXTENDS ControlPlane, FiniteSetTheorems, TLAPS

\* Rows refer to rows that exist, and only to approved releases.
Linked ==
  /\ \A d \in Devices : IF device[d].status = "absent"
                          THEN device[d].workspace = None
                          ELSE device[d].workspace \in Workspaces /\ device[d].owner \in Users
  /\ \A a \in Applications : application[a].kind # "absent" => application[a].workspace \in Workspaces
  /\ \A r \in Releases : release[r].status # "absent" =>
       release[r].application \in Applications /\ application[release[r].application].kind # "absent"
  /\ \A r \in Releases : release[r].artifact = "pending_upload" => release[r].status = "uploading"

Usable(d, r) == device[d].status # "absent" /\ release[r].status = "approved"

Based ==
  /\ \A d \in Devices, r \in Releases :
       grant[d][r] # "absent" \/ installation[d][r] # "absent" => Usable(d, r)
  /\ \A s \in Schedules : schedule[s].status # "absent" =>
       /\ schedule[s].target \in Devices /\ schedule[s].release \in Releases
       /\ Usable(schedule[s].target, schedule[s].release)
  /\ \A n \in Runs : run[n].status # "absent" =>
       /\ run[n].device \in Devices /\ run[n].release \in Releases
       /\ Usable(run[n].device, run[n].release)

\* What the change that has the queue has found.
Pending ==
  /\ writer.op \in {"install", "installed", "create", "update", "resume", "run"} =>
       LET d == writer.device  r == writer.release IN
         /\ Usable(d, r)
         /\ device[d].workspace = WorkspaceOf(r)
         /\ grant[d][r] \in {"active", "expired"}
  /\ writer.op \in {"create", "run"} => writer.user = device[writer.device].owner
  /\ writer.op \in {"update", "resume"} =>
       LET s == writer.schedule IN
         /\ schedule[s].status # "absent"
         /\ schedule[s].createdBy = device[writer.device].owner
         /\ schedule[s].workspace = device[writer.device].workspace
  /\ writer.op = "resume" =>
       schedule[writer.schedule].target = writer.device /\ schedule[writer.schedule].release = writer.release
  /\ writer.op = "claim" => \A n \in writer.todo : run[n].status # "absent"
  /\ writer.op = "sync" => \A s \in writer.todo : schedule[s].status # "absent"

Inv == TypeOK /\ Linked /\ Based /\ DeviceObeysItsOwner /\ NoWorkWithoutGrant /\ Pending

\* The operations that have found a grant
Grantees == {"install", "installed", "create", "update", "resume", "run"}

\* The fields of an operation.
LEMMA OperationFields ==
  ASSUME NEW op \in Operation
  PROVE  /\ op.op \in Grantees => op.device \in Devices /\ op.release \in Releases
         /\ op.op \in {"create", "update", "resume"} => op.schedule \in Schedules
         /\ op.op \in {"create", "run"} => op.user \in Users
         /\ op.op = "run" => op.run \in Runs
         /\ op.op \in {"sync", "claim"} => op.device \in Devices
         /\ op.op = "sync" => op.todo \subseteq Schedules
         /\ op.op = "claim" => op.todo \subseteq Runs
BY DEF Operation, Idle, Grantees

\* The queue may be free.
LEMMA IdleIsOperation == Idle \in Operation
BY DEF Operation

\* Rows keep their types when a revision changes.
LEMMA RequestedRow ==
  ASSUME device \in [Devices -> DeviceRow], NEW d \in Devices
  PROVE  [device EXCEPT ![d].revision = @ + 1] \in [Devices -> DeviceRow]
BY SMTT(45) DEF DeviceRow

\* So does a schedule that gets its revision.
LEMMA RevisedRow ==
  ASSUME NEW row \in ScheduleRow, NEW k \in Nat
  PROVE  LET new == [row EXCEPT !.revision = k] IN
           /\ new \in ScheduleRow
           /\ new.target = row.target /\ new.release = row.release /\ new.status = row.status
           /\ new.createdBy = row.createdBy /\ new.workspace = row.workspace
BY DEF ScheduleRow

\* Whatever leaves the tables and the queue alone.
LEMMA ReadsKeep ==
  ASSUME Inv, UNCHANGED <<tables, writer>>
  PROVE  Inv'
BY DEF Inv, TypeOK, Linked, Usable, Based, Pending, DeviceObeysItsOwner, NoWorkWithoutGrant,
       WorkspaceOf, tables, registry, plans

\* A workspace gets its owner.
LEMMA CreateWorkspaceKeeps ==
  ASSUME Inv, NEW u \in Users, NEW w \in Workspaces, CreateWorkspace(u, w)
  PROVE  Inv'
<1> USE ControlPlaneAssumption DEF Inv, TypeOK, CreateWorkspace, Turn, registry, plans, answers,
    tables
<1>1. TypeOK'
  OBVIOUS
<1>2. Linked'
  BY DEF Linked, DeviceRow, ApplicationRow, ReleaseRow
<1>3. Based'
  BY DEF Based, Usable
<1>4. DeviceObeysItsOwner'
  BY DEF DeviceObeysItsOwner, WorkspaceOf, Linked, Based, Usable
<1>5. NoWorkWithoutGrant'
  BY DEF NoWorkWithoutGrant, Based, Usable
<1>6. Pending'
  BY DEF Pending, WorkspaceOf, Usable, Idle
<1> QED
  BY <1>1, <1>2, <1>3, <1>4, <1>5, <1>6

\* Nothing is recorded for a device that is new.
LEMMA RegisterDeviceKeeps ==
  ASSUME Inv, NEW u \in Users, NEW w \in Workspaces, NEW d \in Devices, RegisterDevice(u, w, d)
  PROVE  Inv'
<1> USE ControlPlaneAssumption DEF Inv, TypeOK, RegisterDevice, Turn, registry, plans, answers,
    tables
<1>1. TypeOK'
  BY DEF DeviceRow
<1>2. Linked'
  BY DEF Linked, DeviceRow, ApplicationRow, ReleaseRow
<1>3. Based'
  BY DEF Based, Usable
<1>4. DeviceObeysItsOwner'
  BY DEF DeviceObeysItsOwner, WorkspaceOf, Linked, Based, Usable
<1>5. NoWorkWithoutGrant'
  BY DEF NoWorkWithoutGrant, Based, Usable
<1>6. Pending'
  BY DEF Pending, WorkspaceOf, Usable, Idle
<1> QED
  BY <1>1, <1>2, <1>3, <1>4, <1>5, <1>6

\* A revoked device keeps its owner and its workspace.
LEMMA RevokeDeviceKeeps ==
  ASSUME Inv, NEW u \in Users, NEW d \in Devices, RevokeDevice(u, d)
  PROVE  Inv'
<1> USE ControlPlaneAssumption DEF Inv, TypeOK, RevokeDevice, ActiveDevice, Turn, registry, plans,
    answers, tables
<1>1. TypeOK'
  BY ZenonT(60) DEF DeviceRow
<1>2. Linked'
  BY DEF Linked, DeviceRow, ApplicationRow, ReleaseRow
<1>3. Based'
  BY DEF Based, Usable
<1>4. DeviceObeysItsOwner'
  BY DEF DeviceObeysItsOwner, WorkspaceOf, Linked, Based, Usable
<1>5. NoWorkWithoutGrant'
  BY DEF NoWorkWithoutGrant, Based, Usable
<1>6. Pending'
  BY DEF Pending, WorkspaceOf, Usable, Idle
<1> QED
  BY <1>1, <1>2, <1>3, <1>4, <1>5, <1>6

\* No release belongs to an application that is new.
LEMMA CreateApplicationKeeps ==
  ASSUME Inv, NEW u \in Users, NEW w \in Workspaces, NEW a \in Applications, NEW kind \in {"web", "desktop"},
         CreateApplication(u, w, a, kind)
  PROVE  Inv'
<1> USE ControlPlaneAssumption DEF Inv, TypeOK, CreateApplication, Turn, registry, plans, answers,
    tables
<1>0. ASSUME NEW r \in Releases, release[r].status = "approved"
      PROVE  WorkspaceOf(r)' = WorkspaceOf(r)
  BY <1>0 DEF WorkspaceOf, Linked, ApplicationRow
<1>1. TypeOK'
  BY DEF ApplicationRow
<1>2. Linked'
  BY DEF Linked, DeviceRow, ApplicationRow, ReleaseRow
<1>3. Based'
  BY DEF Based, Usable
<1>4. DeviceObeysItsOwner'
  <2>1. \A d \in Devices, r \in Releases :
          (grant[d][r] # "absent" \/ installation[d][r] # "absent" =>
             device[d].workspace = WorkspaceOf(r))'
    BY <1>0 DEF DeviceObeysItsOwner, Based, Usable
  <2>2. ASSUME NEW s \in Schedules, schedule[s].status # "absent"
        PROVE  WorkspaceOf(schedule[s].release)' = WorkspaceOf(schedule[s].release)
    BY <1>0, <2>2 DEF Based, Usable
  <2>3. ASSUME NEW n \in Runs, run[n].status # "absent"
        PROVE  WorkspaceOf(run[n].release)' = WorkspaceOf(run[n].release)
    BY <1>0, <2>3 DEF Based, Usable
  <2> QED
    BY <2>1, <2>2, <2>3 DEF DeviceObeysItsOwner
<1>5. NoWorkWithoutGrant'
  BY DEF NoWorkWithoutGrant, Based, Usable
<1>6. Pending'
  BY DEF Pending, WorkspaceOf, Usable, Idle
<1> QED
  BY <1>1, <1>2, <1>3, <1>4, <1>5, <1>6

\* Channels are no part of the argument.
LEMMA PromoteKeeps ==
  ASSUME Inv, NEW u \in Users, NEW a \in Applications, NEW r \in Releases, Promote(u, a, r)
  PROVE  Inv'
<1> USE ControlPlaneAssumption DEF Inv, TypeOK, Promote, Turn, registry, plans, answers, tables
<1>1. TypeOK'
  OBVIOUS
<1>2. Linked'
  BY DEF Linked, DeviceRow, ApplicationRow, ReleaseRow
<1>3. Based'
  BY DEF Based, Usable
<1>4. DeviceObeysItsOwner'
  BY DEF DeviceObeysItsOwner, WorkspaceOf, Linked, Based, Usable
<1>5. NoWorkWithoutGrant'
  BY DEF NoWorkWithoutGrant, Based, Usable
<1>6. Pending'
  BY DEF Pending, WorkspaceOf, Usable, Idle
<1> QED
  BY <1>1, <1>2, <1>3, <1>4, <1>5, <1>6

\* A grant is for a release of the device's workspace.
LEMMA ApproveKeeps ==
  ASSUME Inv, NEW u \in Users, NEW d \in Devices, NEW r \in Releases,
         ApprovePermissionGrant(u, d, r)
  PROVE  Inv'
<1> USE ControlPlaneAssumption DEF Inv, TypeOK, ApprovePermissionGrant, ActiveDevice,
    DesktopRelease, Turn, registry, plans, answers, tables
<1>1. TypeOK'
  OBVIOUS
<1>2. Linked'
  BY DEF Linked, DeviceRow, ApplicationRow, ReleaseRow
<1>3. Based'
  BY DEF Based, Usable
<1>4. DeviceObeysItsOwner'
  BY DEF DeviceObeysItsOwner, WorkspaceOf, Linked, Based, Usable
<1>5. NoWorkWithoutGrant'
  BY DEF NoWorkWithoutGrant, Based, Usable
<1>6. Pending'
  BY DEF Pending, WorkspaceOf, Usable, Idle
<1> QED
  BY <1>1, <1>2, <1>3, <1>4, <1>5, <1>6

\* A grant that runs out is still not revoked.
LEMMA ExpiryKeeps ==
  ASSUME Inv, NEW d \in Devices, NEW r \in Releases, GrantExpires(d, r)
  PROVE  Inv'
<1> USE ControlPlaneAssumption DEF Inv, TypeOK, GrantExpires, Turn, registry, plans, answers,
    tables
<1>1. TypeOK'
  OBVIOUS
<1>2. Linked'
  BY DEF Linked, DeviceRow, ApplicationRow, ReleaseRow
<1>3. Based'
  BY DEF Based, Usable
<1>4. DeviceObeysItsOwner'
  BY DEF DeviceObeysItsOwner, WorkspaceOf, Linked, Based, Usable
<1>5. NoWorkWithoutGrant'
  BY DEF NoWorkWithoutGrant, Based, Usable
<1>6. Pending'
  BY DEF Pending, WorkspaceOf, Usable, Idle
<1> QED
  BY <1>1, <1>2, <1>3, <1>4, <1>5, <1>6

\* Only installations that exist change their status.
LEMMA UpdateInstallationKeeps ==
  ASSUME Inv, NEW d \in Devices, NEW r \in Releases, NEW to \in {"downloading", "failed", "removed"},
         UpdateInstallationStatus(d, r, to)
  PROVE  Inv'
<1> USE ControlPlaneAssumption DEF Inv, TypeOK, UpdateInstallationStatus, AllowedInstallation,
    Turn, registry, plans, answers, tables
<1>1. TypeOK'
  OBVIOUS
<1>2. Linked'
  BY SMTT(45) DEF Linked, DeviceRow, ApplicationRow, ReleaseRow
<1>3. Based'
  BY DEF Based, Usable
<1>4. DeviceObeysItsOwner'
  BY DEF DeviceObeysItsOwner, WorkspaceOf, Linked, Based, Usable
<1>5. NoWorkWithoutGrant'
  BY DEF NoWorkWithoutGrant, Based, Usable
<1>6. Pending'
  BY DEF Pending, WorkspaceOf, Usable, Idle
<1> QED
  BY <1>1, <1>2, <1>3, <1>4, <1>5, <1>6

\* What a change of an installation that its writer ends leaves to show: the
\* device keeps what the tables say of it, and one more installation exists.
LEMMA InstallationWriterKeeps ==
  ASSUME Inv, NEW d \in Devices, NEW r \in Releases, NEW status \in DOMAIN AllowedInstallation,
         Usable(d, r), device[d].workspace = WorkspaceOf(r), writer' = Idle,
         installation' = [installation EXCEPT ![d][r] = status],
         device' \in [Devices -> DeviceRow],
         \A e \in Devices : /\ device'[e].status = device[e].status
                            /\ device'[e].owner = device[e].owner
                            /\ device'[e].workspace = device[e].workspace,
         UNCHANGED <<owner, application, release, channel, grant, schedule, revision, changes, run>>
  PROVE  Inv'
<1>1. /\ installation' \in [Devices -> [Releases -> DOMAIN AllowedInstallation]]
      /\ \A e \in Devices, q \in Releases :
           installation'[e][q] # "absent" => installation[e][q] # "absent" \/ (e = d /\ q = r)
  BY DEF Inv, TypeOK
<1>2. TypeOK'
  BY <1>1, IdleIsOperation DEF Inv, TypeOK
<1>3. Linked'
  BY DEF Inv, Linked
<1>4. Based'
  BY <1>1 DEF Inv, Based, Usable
<1>5. DeviceObeysItsOwner'
  <2>1. \A q \in Releases : WorkspaceOf(q)' = WorkspaceOf(q)
    BY DEF WorkspaceOf
  <2>2. (\A e \in Devices, q \in Releases :
           grant[e][q] # "absent" \/ installation[e][q] # "absent" =>
             device[e].workspace = WorkspaceOf(q))'
    BY <1>1, <2>1 DEF Inv, DeviceObeysItsOwner
  <2>3. (\A s \in Schedules : schedule[s].status # "absent" =>
           LET e == schedule[s].target IN
             /\ schedule[s].createdBy = device[e].owner
             /\ schedule[s].workspace = device[e].workspace
             /\ device[e].workspace = WorkspaceOf(schedule[s].release))'
    BY <2>1 DEF Inv, DeviceObeysItsOwner, Based
  <2>4. (\A n \in Runs : run[n].status # "absent" =>
           LET e == run[n].device IN
             /\ run[n].triggeredBy = device[e].owner
             /\ device[e].workspace = WorkspaceOf(run[n].release))'
    BY <2>1 DEF Inv, DeviceObeysItsOwner, Based
  <2> QED
    BY <2>2, <2>3, <2>4 DEF DeviceObeysItsOwner
<1>6. NoWorkWithoutGrant'
  BY DEF Inv, NoWorkWithoutGrant
<1>7. Pending'
  BY DEF Pending, Idle
<1> QED
  BY <1>2, <1>3, <1>4, <1>5, <1>6, <1>7 DEF Inv

\* A request is for what its change has found.
LEMMA InstallationRequestedKeeps ==
  ASSUME Inv, InstallationRequested
  PROVE  Inv'
<1> DEFINE d == writer.device  r == writer.release
<1>1. d \in Devices /\ r \in Releases
  BY OperationFields DEF Inv, TypeOK, InstallationRequested, Grantees
<1>2. Usable(d, r) /\ device[d].workspace = WorkspaceOf(r)
  BY DEF Inv, Pending, InstallationRequested
<1>3. /\ device' \in [Devices -> DeviceRow]
      /\ \A e \in Devices : /\ device'[e].status = device[e].status
                            /\ device'[e].owner = device[e].owner
                            /\ device'[e].workspace = device[e].workspace
  <2>1. device \in [Devices -> DeviceRow] /\ device' = [device EXCEPT ![d].revision = @ + 1]
    BY DEF Inv, TypeOK, InstallationRequested
  <2> HIDE DEF d
  <2> QED
    BY <1>1, <2>1, RequestedRow DEF DeviceRow
<1>4. /\ writer' = Idle /\ installation' = [installation EXCEPT ![d][r] = "requested"]
      /\ UNCHANGED <<owner, application, release, channel, grant, schedule, revision, changes, run>>
  BY DEF InstallationRequested, plans
<1> HIDE DEF d, r
<1> QED
  BY <1>1, <1>2, <1>3, <1>4, InstallationWriterKeeps DEF AllowedInstallation

\* So is the installation that is complete.
LEMMA InstallationInstalledKeeps ==
  ASSUME Inv, InstallationInstalled
  PROVE  Inv'
<1> DEFINE d == writer.device  r == writer.release
<1>1. d \in Devices /\ r \in Releases
  BY OperationFields DEF Inv, TypeOK, InstallationInstalled, Grantees
<1>2. Usable(d, r) /\ device[d].workspace = WorkspaceOf(r)
  BY DEF Inv, Pending, InstallationInstalled
<1>3. device' \in [Devices -> DeviceRow] /\ device' = device
  BY DEF Inv, TypeOK, InstallationInstalled, registry
<1>4. /\ writer' = Idle /\ installation' = [installation EXCEPT ![d][r] = "installed"]
      /\ UNCHANGED <<owner, application, release, channel, grant, schedule, revision, changes, run>>
  BY DEF InstallationInstalled, registry, plans
<1> HIDE DEF d, r
<1> QED
  BY <1>1, <1>2, <1>3, <1>4, InstallationWriterKeeps DEF AllowedInstallation


\* A change begins: Pending holds of what it has found.
LEMMA BeginKeeps ==
  ASSUME Inv, NEW op \in Operation, op.op \in Grantees, Begin(op),
         op.op \in {"create", "run"} => op.user = device[op.device].owner,
         op.op \in {"update", "resume"} =>
           /\ schedule[op.schedule].status # "absent"
           /\ schedule[op.schedule].createdBy = device[op.device].owner
           /\ schedule[op.schedule].workspace = device[op.device].workspace,
         op.op = "resume" =>
           schedule[op.schedule].target = op.device /\ schedule[op.schedule].release = op.release
  PROVE  Inv'
<1> USE DEF Begin, tables, registry, plans, answers
<1>1. op.device \in Devices /\ op.release \in Releases
  BY OperationFields
<1>2. TypeOK' /\ Linked' /\ Based' /\ DeviceObeysItsOwner' /\ NoWorkWithoutGrant'
  BY DEF Inv, TypeOK, Linked, Based, Usable, DeviceObeysItsOwner, NoWorkWithoutGrant, WorkspaceOf
<1>3. Pending'
  BY <1>1 DEF Pending, Grantees, Usable, WorkspaceOf, RequireActivePermissionGrant, ActiveDevice,
              DesktopRelease
<1> QED
  BY <1>2, <1>3 DEF Inv

\* A release changes that nothing refers to yet.
LEMMA ReleaseBecomesKeeps ==
  ASSUME Inv, NEW r \in Releases, NEW new \in ReleaseRow, ReleaseBecomes(r, new),
         release[r].status # "approved",
         new.application \in Applications, application[new.application].kind # "absent",
         new.artifact = "pending_upload" => new.status = "uploading"
  PROVE  Inv'
<1> USE DEF Inv, TypeOK, ReleaseBecomes, Turn, registry, plans, answers, tables
<1>1. TypeOK'
  OBVIOUS
<1>2. Linked'
  BY DEF Linked
<1>3. \A q \in Releases : release[q].status = "approved" =>
        release'[q] = release[q] /\ WorkspaceOf(q)' = WorkspaceOf(q)
  BY DEF WorkspaceOf
<1>4. Based'
  BY <1>3 DEF Based, Usable
<1>5. DeviceObeysItsOwner'
  <2>1. \A d \in Devices, q \in Releases :
          (grant[d][q] # "absent" \/ installation[d][q] # "absent" =>
             device[d].workspace = WorkspaceOf(q))'
    BY <1>3 DEF DeviceObeysItsOwner, Based, Usable
  <2>2. \A s \in Schedules : schedule[s].status # "absent" =>
          WorkspaceOf(schedule[s].release)' = WorkspaceOf(schedule[s].release)
    BY <1>3 DEF Based, Usable
  <2>3. \A n \in Runs : run[n].status # "absent" =>
          WorkspaceOf(run[n].release)' = WorkspaceOf(run[n].release)
    BY <1>3 DEF Based, Usable
  <2> QED
    BY <2>1, <2>2, <2>3 DEF DeviceObeysItsOwner
<1>6. NoWorkWithoutGrant' /\ Pending'
  BY DEF NoWorkWithoutGrant, Pending, Idle
<1> QED
  BY <1>1, <1>2, <1>4, <1>5, <1>6

\* A schedule changes to a row that is right.
LEMMA ScheduleBecomesKeeps ==
  ASSUME Inv, NEW s \in Schedules, NEW new \in ScheduleRow, ScheduleBecomes(s, new), writer' = Idle,
         new.target \in Devices, new.release \in Releases, new.status # "absent",
         Usable(new.target, new.release),
         new.createdBy = device[new.target].owner,
         new.workspace = device[new.target].workspace,
         device[new.target].workspace = WorkspaceOf(new.release),
         new.status = "active" => grant[new.target][new.release] \in {"active", "expired"}
  PROVE  Inv'
<1> USE DEF Inv, TypeOK, ScheduleBecomes, registry, answers
<1> DEFINE row == [new EXCEPT !.revision = revision[new.workspace] + 1]
<1>1. new.workspace \in Workspaces
  BY DEF Linked, Usable
<1>2. schedule' = [schedule EXCEPT ![s] = row] /\ revision' \in [Workspaces -> Nat]
  BY <1>1
<1>3. /\ row \in ScheduleRow
      /\ row.target = new.target /\ row.release = new.release /\ row.status = new.status
      /\ row.createdBy = new.createdBy /\ row.workspace = new.workspace
  <2>1. revision[new.workspace] + 1 \in Nat
    BY <1>1
  <2> QED
    BY <2>1, RevisedRow
<1> HIDE DEF row
<1>4. TypeOK'
  BY ZenonT(60), <1>2, <1>3, IdleIsOperation
<1>5. Linked'
  BY DEF Linked
<1>6. Based'
  BY SMTT(45), <1>2, <1>3 DEF Based, Usable
<1>7. DeviceObeysItsOwner'
  <2>1. \A t \in Schedules : schedule'[t] = IF t = s THEN row ELSE schedule[t]
    BY <1>2
  <2>2. device' = device /\ application' = application /\ release' = release /\ run' = run
        /\ grant' = grant /\ installation' = installation
    OBVIOUS
  <2>3. \A t \in Schedules : schedule'[t].status # "absent" =>
          /\ schedule'[t].createdBy = device[schedule'[t].target].owner
          /\ schedule'[t].workspace = device[schedule'[t].target].workspace
          /\ device[schedule'[t].target].workspace = WorkspaceOf(schedule'[t].release)
    BY <1>3, <2>1 DEF DeviceObeysItsOwner
  <2> HIDE DEF TypeOK, ScheduleBecomes
  <2> QED
    BY <2>2, <2>3 DEF DeviceObeysItsOwner, WorkspaceOf
<1>8. NoWorkWithoutGrant'
  BY <1>2, <1>3 DEF NoWorkWithoutGrant
<1>9. Pending'
  BY DEF Pending, Idle
<1> QED
  BY <1>4, <1>5, <1>6, <1>7, <1>8, <1>9

\* A run changes to a row that is right.
LEMMA RunBecomesKeeps ==
  ASSUME Inv, NEW n \in Runs, NEW new \in RunRow, RunBecomes(n, new),
         writer' = Idle \/ (writer.op = "claim" /\ writer' = [writer EXCEPT !.todo = @ \ {n}]),
         new.device \in Devices, new.release \in Releases, new.status # "absent",
         Usable(new.device, new.release),
         new.triggeredBy = device[new.device].owner,
         device[new.device].workspace = WorkspaceOf(new.release),
         new.status = "queued" => grant[new.device][new.release] \in {"active", "expired"}
  PROVE  Inv'
<1> USE DEF Inv, TypeOK, RunBecomes, registry, plans, answers
<1>1. writer' \in Operation
  BY IdleIsOperation DEF Operation, Idle
<1>2. TypeOK' /\ Linked'
  BY SMTT(45), <1>1 DEF Linked
<1>3. Based'
  BY DEF Based, Usable
<1>4. DeviceObeysItsOwner'
  BY DEF DeviceObeysItsOwner, WorkspaceOf
<1>5. NoWorkWithoutGrant'
  BY DEF NoWorkWithoutGrant
<1>6. Pending'
  <2>1. CASE writer' = Idle
    BY <2>1 DEF Pending, Idle
  <2>2. CASE writer.op = "claim" /\ writer' = [writer EXCEPT !.todo = @ \ {n}]
    <3>1. writer'.op = "claim" /\ writer'.todo \subseteq writer.todo /\ writer.todo \subseteq Runs
      BY SMTT(45), <2>2 DEF Operation, Idle
    <3> QED
      BY <2>2, <3>1 DEF Pending
  <2> QED
    BY <2>1, <2>2
<1> QED
  BY <1>2, <1>3, <1>4, <1>5, <1>6

\* Disabling keeps everything of a schedule but its status and revision.
LEMMA DisableAllKeeps ==
  ASSUME Inv, NEW S \in SUBSET Schedules, NEW w \in Workspaces, DisableAll(S, w)
  PROVE  /\ schedule' \in [Schedules -> ScheduleRow]
         /\ revision' \in [Workspaces -> Nat]
         /\ \A s \in Schedules :
              /\ schedule'[s].target = schedule[s].target
              /\ schedule'[s].release = schedule[s].release
              /\ schedule'[s].createdBy = schedule[s].createdBy
              /\ schedule'[s].workspace = schedule[s].workspace
              /\ schedule'[s].status = IF s \in S THEN "disabled" ELSE schedule[s].status
<1>1. Cardinality(S) \in Nat
  BY SMTT(45), FS_Subset, FS_CardinalityType, ControlPlaneAssumption
<1>2. PICK order \in [S -> 1 .. Cardinality(S)] :
        /\ schedule' = [s \in Schedules |->
             IF s \in S THEN [schedule[s] EXCEPT !.status = "disabled", !.revision = revision[w] + order[s]]
                        ELSE schedule[s]]
        /\ revision' = [revision EXCEPT ![w] = @ + Cardinality(S)]
  BY DEF DisableAll
<1>3. schedule \in [Schedules -> ScheduleRow] /\ revision \in [Workspaces -> Nat]
  BY DEF Inv, TypeOK
<1>4. \A s \in S : revision[w] + order[s] \in Nat
  <2>1. revision[w] \in Nat /\ 1 .. Cardinality(S) \subseteq Nat
    BY <1>1, <1>3
  <2>2. ASSUME NEW s \in S
        PROVE  order[s] \in 1 .. Cardinality(S)
    BY <1>2
  <2> QED
    BY <2>1, <2>2
<1>5. revision' \in [Workspaces -> Nat]
  <2>1. revision[w] + Cardinality(S) \in Nat
    BY <1>1, <1>3
  <2> QED
    BY <1>2, <1>3, <2>1
<1>6. ASSUME NEW s \in Schedules
      PROVE  /\ schedule'[s] \in ScheduleRow
             /\ schedule'[s].target = schedule[s].target
             /\ schedule'[s].release = schedule[s].release
             /\ schedule'[s].createdBy = schedule[s].createdBy
             /\ schedule'[s].workspace = schedule[s].workspace
             /\ schedule'[s].status = IF s \in S THEN "disabled" ELSE schedule[s].status
  <2>1. CASE s \in S
    <3>1. schedule'[s] = [schedule[s] EXCEPT !.status = "disabled", !.revision = revision[w] + order[s]]
      BY <1>2, <2>1
    <3>2. schedule[s] \in ScheduleRow /\ revision[w] + order[s] \in Nat
      BY <1>3, <1>4, <2>1
    <3> QED
      BY <2>1, <3>1, <3>2 DEF ScheduleRow
  <2>2. CASE s \notin S
    BY <1>2, <1>3, <2>2
  <2> QED
    BY <2>1, <2>2
<1>7. schedule' = [s \in Schedules |-> schedule'[s]]
  BY <1>2
<1> QED
  BY SMTT(45), <1>5, <1>6, <1>7


\* Revoking a grant takes the schedules and the queued runs with it.
LEMMA RevokeGrantKeeps ==
  ASSUME Inv, NEW u \in Users, NEW d \in Devices, NEW r \in Releases, RevokePermissionGrant(u, d, r)
  PROVE  Inv'
<1> DEFINE S == ScheduledFor(d, r)
           lost(n) == run[n].device = d /\ run[n].release = r /\ run[n].status = "queued"
<1>1. device[d].workspace \in Workspaces /\ S \in SUBSET Schedules /\ DisableAll(S, device[d].workspace)
  BY DEF RevokePermissionGrant, RequireDeviceOwnerOrWorkspaceAdministrator, Inv, TypeOK, DeviceRow,
         ScheduledFor
<1>2. /\ schedule' \in [Schedules -> ScheduleRow]
      /\ revision' \in [Workspaces -> Nat]
      /\ \A s \in Schedules :
           /\ schedule'[s].target = schedule[s].target
           /\ schedule'[s].release = schedule[s].release
           /\ schedule'[s].createdBy = schedule[s].createdBy
           /\ schedule'[s].workspace = schedule[s].workspace
           /\ schedule'[s].status = IF s \in S THEN "disabled" ELSE schedule[s].status
  <2> HIDE DEF S
  <2> QED
    BY <1>1, DisableAllKeeps
<1>3. /\ writer = Idle /\ writer' = Idle
      /\ grant' = [grant EXCEPT ![d][r] = "revoked"] /\ grant[d][r] # "absent"
      /\ run' = [n \in Runs |-> IF lost(n) THEN [run[n] EXCEPT !.status = "failed"] ELSE run[n]]
      /\ UNCHANGED <<owner, device, application, release, channel, installation>>
  BY DEF RevokePermissionGrant, Turn, registry
<1>4. \A n \in Runs :
        /\ run'[n] \in RunRow
        /\ run'[n].device = run[n].device /\ run'[n].release = run[n].release
        /\ run'[n].triggeredBy = run[n].triggeredBy
        /\ run'[n].status = IF lost(n) THEN "failed" ELSE run[n].status
  BY ZenonT(60), <1>3 DEF Inv, TypeOK, RunRow, AllowedRun
<1>5. TypeOK'
  <2>1. run' \in [Runs -> RunRow]
    BY <1>3, <1>4
  <2>2. grant' \in [Devices -> [Releases -> {"absent", "active", "expired", "revoked"}]]
    BY <1>3 DEF Inv, TypeOK
  <2> QED
    BY <1>2, <1>3, <2>1, <2>2 DEF Inv, TypeOK
<1>6. Linked'
  BY <1>3 DEF Inv, Linked
<1>11. /\ \A e \in Devices, q \in Releases : grant'[e][q] # "absent" => grant[e][q] # "absent"
       /\ \A s \in Schedules : schedule'[s].status # "absent" => schedule[s].status # "absent"
       /\ \A n \in Runs : run'[n].status # "absent" => run[n].status # "absent"
  BY <1>2, <1>3, <1>4 DEF Inv, TypeOK, ScheduledFor
<1>7. Based'
  BY <1>2, <1>3, <1>4, <1>11 DEF Inv, Based, Usable
<1>8. DeviceObeysItsOwner'
  BY <1>2, <1>3, <1>4, <1>11 DEF Inv, DeviceObeysItsOwner, WorkspaceOf
<1>9. NoWorkWithoutGrant'
  <2>1. ASSUME NEW n \in Runs, run'[n].status = "queued"
        PROVE  grant'[run'[n].device][run'[n].release] \in {"active", "expired"}
    <3>1. run[n].status = "queued" /\ ~(run[n].device = d /\ run[n].release = r)
      BY <1>4, <2>1
    <3>2. run[n].device \in Devices /\ run[n].release \in Releases
      BY <3>1 DEF Inv, Based
    <3> QED
      BY <1>3, <1>4, <3>1, <3>2 DEF Inv, NoWorkWithoutGrant, TypeOK
  <2>2. ASSUME NEW s \in Schedules, schedule'[s].status = "active"
        PROVE  grant'[schedule'[s].target][schedule'[s].release] \in {"active", "expired"}
    <3>1. schedule[s].status = "active" /\ ~(schedule[s].target = d /\ schedule[s].release = r)
      BY <1>2, <2>2 DEF ScheduledFor
    <3>2. schedule[s].target \in Devices /\ schedule[s].release \in Releases
      BY <3>1 DEF Inv, Based
    <3> QED
      BY <1>2, <1>3, <3>1, <3>2 DEF Inv, NoWorkWithoutGrant, TypeOK
  <2> QED
    BY <2>1, <2>2 DEF NoWorkWithoutGrant
<1>10. Pending'
  BY <1>3 DEF Pending, Idle
<1> QED
  BY <1>5, <1>6, <1>7, <1>8, <1>9, <1>10 DEF Inv

\* On its way a synchronisation only disables schedules.
LEMMA CheckScheduleKeeps ==
  ASSUME Inv, NEW s \in Schedules, CheckSchedule(s)
  PROVE  Inv'
<1>1. /\ writer.op = "sync" /\ s \in writer.todo
      /\ writer' = [writer EXCEPT !.todo = @ \ {s}]
      /\ UNCHANGED <<owner, device, application, release, channel, grant, installation, run>>
  BY DEF CheckSchedule, registry
<1>2. /\ writer' \in Operation /\ writer'.op = "sync"
      /\ writer'.todo \subseteq writer.todo /\ writer.todo \subseteq Schedules
  <2>1. writer \in [op : {"sync"}, device : Devices, refresh : BOOLEAN, todo : SUBSET Schedules]
    BY <1>1 DEF Inv, TypeOK, Operation, Idle
  <2>2. /\ writer' \in [op : {"sync"}, device : Devices, refresh : BOOLEAN, todo : SUBSET Schedules]
        /\ writer'.todo = writer.todo \ {s}
    BY <1>1, <2>1
  <2> QED
    BY <2>1, <2>2 DEF Operation
<1>3. /\ schedule' \in [Schedules -> ScheduleRow]
      /\ revision' \in [Workspaces -> Nat]
      /\ \A t \in Schedules :
           /\ schedule'[t].target = schedule[t].target
           /\ schedule'[t].release = schedule[t].release
           /\ schedule'[t].createdBy = schedule[t].createdBy
           /\ schedule'[t].workspace = schedule[t].workspace
           /\ schedule'[t].status = "absent" <=> schedule[t].status = "absent"
           /\ schedule'[t].status = "active" => schedule[t].status = "active"
  <2>1. schedule[s].status # "absent"
    BY <1>1 DEF Inv, Pending
  <2>2. schedule[s].workspace \in Workspaces
    BY <2>1 DEF Inv, DeviceObeysItsOwner, Based, Usable, Linked
  <2>3. CASE schedule' = schedule /\ revision' = revision
    BY <2>3 DEF Inv, TypeOK
  <2>4. CASE DisableAll({s}, schedule[s].workspace)
    <3>1. {s} \in SUBSET Schedules
      OBVIOUS
    <3>2. /\ schedule' \in [Schedules -> ScheduleRow]
          /\ revision' \in [Workspaces -> Nat]
          /\ \A t \in Schedules :
               /\ schedule'[t].target = schedule[t].target
               /\ schedule'[t].release = schedule[t].release
               /\ schedule'[t].createdBy = schedule[t].createdBy
               /\ schedule'[t].workspace = schedule[t].workspace
               /\ schedule'[t].status = IF t \in {s} THEN "disabled" ELSE schedule[t].status
      BY <2>2, <2>4, <3>1, DisableAllKeeps
    <3> QED
      BY <2>1, <3>2
  <2> QED
    BY <2>3, <2>4 DEF CheckSchedule, plans
<1>4. TypeOK' /\ Linked'
  BY <1>1, <1>2, <1>3 DEF Inv, TypeOK, Linked
<1>5. Based'
  BY <1>1, <1>3 DEF Inv, Based, Usable
<1>6. DeviceObeysItsOwner'
  BY <1>1, <1>3 DEF Inv, DeviceObeysItsOwner, WorkspaceOf
<1>7. NoWorkWithoutGrant'
  BY <1>1, <1>3 DEF Inv, NoWorkWithoutGrant
<1>8. Pending'
  BY <1>1, <1>2, <1>3 DEF Inv, Pending
<1> QED
  BY <1>4, <1>5, <1>6, <1>7, <1>8 DEF Inv

\* The queue goes to a change that needs no grant, or comes free.
LEMMA QueueKeeps ==
  ASSUME Inv, UNCHANGED tables, writer' \in Operation,
         \/ writer' = Idle
         \/ writer'.op = "sync" /\ (\A s \in writer'.todo : schedule[s].status # "absent")
         \/ writer'.op = "claim" /\ (\A n \in writer'.todo : run[n].status # "absent")
  PROVE  Inv'
<1> USE DEF tables, registry, plans
<1>1. TypeOK' /\ Linked' /\ Based' /\ DeviceObeysItsOwner' /\ NoWorkWithoutGrant'
  BY DEF Inv, TypeOK, Linked, Based, Usable, DeviceObeysItsOwner, NoWorkWithoutGrant, WorkspaceOf
<1>2. Pending'
  BY DEF Pending, Idle
<1> QED
  BY <1>1, <1>2 DEF Inv

\* A synchronisation checks schedules that exist.
LEMMA StartSyncKeeps ==
  ASSUME Inv, NEW d \in Devices, NEW refresh \in BOOLEAN, StartSync(d, refresh)
  PROVE  Inv'
<1>1. writer' \in Operation /\ writer'.op = "sync"
      /\ \A s \in writer'.todo : schedule[s].status # "absent"
  BY DEF StartSync, Operation
<1>2. UNCHANGED tables
  BY DEF StartSync
<1> QED
  BY <1>1, <1>2, QueueKeeps

\* A claim takes runs that exist.
LEMMA ClaimRunsKeeps ==
  ASSUME Inv, NEW d \in Devices, ClaimRuns(d)
  PROVE  Inv'
<1>1. PICK todo \in SUBSET {n \in Runs : run[n].device = d /\ run[n].status = "queued"} :
        writer' = [op |-> "claim", device |-> d, todo |-> todo]
  BY DEF ClaimRuns
<1>2. writer' \in Operation /\ writer'.op = "claim"
      /\ \A n \in writer'.todo : run[n].status # "absent"
  BY <1>1 DEF Operation
<1>3. UNCHANGED tables
  BY DEF ClaimRuns
<1> QED
  BY <1>1, <1>2, <1>3, QueueKeeps

\* The row of a run that exists
LEMMA RunFacts ==
  ASSUME Inv, NEW n \in Runs, run[n].status # "absent"
  PROVE  /\ run[n] \in RunRow
         /\ run[n].device \in Devices /\ run[n].release \in Releases
         /\ Usable(run[n].device, run[n].release)
         /\ run[n].triggeredBy = device[run[n].device].owner
         /\ device[run[n].device].workspace = WorkspaceOf(run[n].release)
BY DEF Inv, TypeOK, Based, DeviceObeysItsOwner

\* A run that exists only changes its status, and not back to queued.
LEMMA RunMovesKeeps ==
  ASSUME Inv, NEW n \in Runs, run[n].status # "absent",
         NEW to \in DOMAIN AllowedRun \ {"absent", "queued"}, NEW cancel \in BOOLEAN,
         RunBecomes(n, [run[n] EXCEPT !.status = to, !.cancel = cancel]),
         writer' = Idle \/ (writer.op = "claim" /\ writer' = [writer EXCEPT !.todo = @ \ {n}])
  PROVE  Inv'
<1> DEFINE new == [run[n] EXCEPT !.status = to, !.cancel = cancel]
<1>1. /\ new \in RunRow /\ new.status = to
      /\ new.device = run[n].device /\ new.release = run[n].release
      /\ new.triggeredBy = run[n].triggeredBy
  BY RunFacts DEF RunRow
<1> HIDE DEF new
<1>2. RunBecomes(n, new)
  BY DEF new
<1> QED
  BY <1>1, <1>2, RunFacts, RunBecomesKeeps


-----------------------------------------------------------------------------
\* The orders that need a grant find what Pending says.
LEMMA OrdersBegin ==
  ASSUME Inv, NEW u \in Users, NEW d \in Devices, NEW r \in Releases
  PROVE  /\ RequestInstallation(u, d, r) => Inv'
         /\ \A s \in Schedules : CreateSchedule(u, s, d, r) \/ UpdateSchedule(u, s, d, r) => Inv'
         /\ \A n \in Runs : CreateManualRun(u, n, d, r) => Inv'
<1>1. ASSUME RequestInstallation(u, d, r) PROVE Inv'
  <2>1. [op |-> "install", device |-> d, release |-> r] \in Operation
    BY DEF Operation
  <2> QED
    BY <1>1, <2>1, BeginKeeps DEF RequestInstallation, Grantees
<1>3. ASSUME NEW s \in Schedules, CreateSchedule(u, s, d, r) PROVE Inv'
  <2> DEFINE op == [op |-> "create", device |-> d, release |-> r, schedule |-> s, user |-> u]
  <2>1. op \in Operation /\ op.op = "create" /\ op.user = u /\ op.device = d
    BY DEF Operation
  <2>2. Begin(op) /\ device[d].owner = u
    BY <1>3 DEF CreateSchedule, RequireActiveDeviceOwner
  <2> QED
    BY <2>1, <2>2, BeginKeeps DEF Grantees
<1>4. ASSUME NEW s \in Schedules, UpdateSchedule(u, s, d, r) PROVE Inv'
  <2> DEFINE op == [op |-> "update", device |-> d, release |-> r, schedule |-> s]
  <2>1. op \in Operation /\ op.op = "update" /\ op.schedule = s /\ op.device = d
    BY DEF Operation
  <2>2. Begin(op) /\ device[d].owner = u /\ device[d].workspace = schedule[s].workspace
        /\ schedule[s].status # "absent" /\ device[schedule[s].target].owner = u
    BY <1>4 DEF UpdateSchedule, RequireActiveDeviceOwner, AuthorizeScheduleWrite
  <2>3. schedule[s].createdBy = u
    BY <2>2 DEF Inv, DeviceObeysItsOwner
  <2> HIDE DEF op
  <2> QED
    BY <2>1, <2>2, <2>3, BeginKeeps DEF Grantees
<1>5. ASSUME NEW n \in Runs, CreateManualRun(u, n, d, r) PROVE Inv'
  <2> DEFINE op == [op |-> "run", device |-> d, release |-> r, run |-> n, user |-> u]
  <2>1. op \in Operation /\ op.op = "run" /\ op.user = u /\ op.device = d
    BY DEF Operation
  <2>2. Begin(op) /\ device[d].owner = u
    BY <1>5 DEF CreateManualRun, RequireActiveDeviceOwner
  <2> HIDE DEF op
  <2> QED
    BY <2>1, <2>2, BeginKeeps DEF Grantees
<1> QED
  BY <1>1, <1>3, <1>4, <1>5

\* A report of an installation finds what Pending says.
LEMMA ReportInstalledBegins ==
  ASSUME Inv, NEW d \in Devices, NEW r \in Releases, ReportInstalled(d, r)
  PROVE  Inv'
<1>1. [op |-> "installed", device |-> d, release |-> r] \in Operation
  BY DEF Operation
<1> QED
  BY <1>1, BeginKeeps DEF ReportInstalled, Grantees

\* So does a schedule that is resumed.
LEMMA ResumeBegins ==
  ASSUME Inv, NEW u \in Users, NEW s \in Schedules, ResumeSchedule(u, s)
  PROVE  Inv'
<1> DEFINE op == [op |-> "resume", device |-> schedule[s].target, release |-> schedule[s].release,
                  schedule |-> s]
<1>1. /\ schedule[s].status # "absent"
      /\ schedule[s].target \in Devices /\ schedule[s].release \in Releases
      /\ schedule[s].createdBy = device[schedule[s].target].owner
      /\ schedule[s].workspace = device[schedule[s].target].workspace
  BY DEF ResumeSchedule, Inv, Based, DeviceObeysItsOwner
<1>2. /\ op \in Operation /\ op.op = "resume" /\ op.schedule = s
      /\ op.device = schedule[s].target /\ op.release = schedule[s].release
  BY <1>1 DEF Operation
<1>3. Begin(op)
  BY DEF ResumeSchedule
<1> HIDE DEF op
<1> QED
  BY <1>1, <1>2, <1>3, BeginKeeps DEF Grantees

\* What a change has found is right for the row it writes.
LEMMA PendingFacts ==
  ASSUME Inv, writer.op \in Grantees
  PROVE  /\ writer.device \in Devices /\ writer.release \in Releases
         /\ Usable(writer.device, writer.release)
         /\ device[writer.device].workspace = WorkspaceOf(writer.release)
         /\ device[writer.device].workspace \in Workspaces
         /\ grant[writer.device][writer.release] \in {"active", "expired"}
<1>1. writer.device \in Devices /\ writer.release \in Releases
  BY OperationFields DEF Inv, TypeOK
<1> QED
  BY <1>1 DEF Inv, Pending, Grantees, Linked, Usable

\* A new schedule is for the device and the release that were found.
LEMMA ScheduleCreatedKeeps ==
  ASSUME Inv, ScheduleCreated
  PROVE  Inv'
<1> DEFINE new == [status |-> "active", workspace |-> device[writer.device].workspace,
                   release |-> writer.release, target |-> writer.device, revision |-> 0,
                   createdBy |-> writer.user]
<1>1. /\ writer.op = "create" /\ writer.op \in Grantees /\ writer' = Idle
      /\ ScheduleBecomes(writer.schedule, new)
  BY DEF ScheduleCreated, Grantees
<1>2. /\ writer.schedule \in Schedules /\ writer.user \in Users
      /\ writer.user = device[writer.device].owner
  BY <1>1, OperationFields DEF Inv, TypeOK, Pending
<1>3. /\ new \in ScheduleRow /\ new.status = "active" /\ new.target = writer.device
      /\ new.release = writer.release /\ new.createdBy = writer.user
      /\ new.workspace = device[writer.device].workspace
  BY <1>1, <1>2, PendingFacts DEF ScheduleRow
<1> HIDE DEF new
<1> QED
  BY <1>1, <1>2, <1>3, PendingFacts, ScheduleBecomesKeeps

\* A schedule that moves keeps its creator, who owns the new device.
LEMMA ScheduleUpdatedKeeps ==
  ASSUME Inv, ScheduleUpdated
  PROVE  Inv'
<1> DEFINE s == writer.schedule
           new == [schedule[s] EXCEPT !.target = writer.device, !.release = writer.release]
<1>1. /\ writer.op = "update" /\ writer.op \in Grantees /\ writer' = Idle /\ ScheduleBecomes(s, new)
  BY DEF ScheduleUpdated, Grantees
<1>2. /\ s \in Schedules /\ schedule[s] \in ScheduleRow /\ schedule[s].status # "absent"
      /\ schedule[s].createdBy = device[writer.device].owner
      /\ schedule[s].workspace = device[writer.device].workspace
  BY <1>1, OperationFields DEF Inv, TypeOK, Pending
<1>3. /\ new \in ScheduleRow /\ new.status = schedule[s].status /\ new.target = writer.device
      /\ new.release = writer.release /\ new.createdBy = schedule[s].createdBy
      /\ new.workspace = schedule[s].workspace
  BY <1>1, <1>2, PendingFacts DEF ScheduleRow
<1> HIDE DEF new, s
<1> QED
  BY <1>1, <1>2, <1>3, PendingFacts, ScheduleBecomesKeeps

\* A status that may be set without a grant, or with the one that was found
LEMMA StatusChangeKeeps ==
  ASSUME Inv, NEW s \in Schedules, schedule[s].status # "absent",
         NEW status \in {"active", "paused"},
         status = "active" => grant[schedule[s].target][schedule[s].release] \in {"active", "expired"},
         ScheduleBecomes(s, [schedule[s] EXCEPT !.status = status]), writer' = Idle
  PROVE  Inv'
<1> DEFINE new == [schedule[s] EXCEPT !.status = status]
<1>1. /\ schedule[s] \in ScheduleRow
      /\ schedule[s].target \in Devices /\ schedule[s].release \in Releases
      /\ Usable(schedule[s].target, schedule[s].release)
      /\ schedule[s].createdBy = device[schedule[s].target].owner
      /\ schedule[s].workspace = device[schedule[s].target].workspace
      /\ device[schedule[s].target].workspace = WorkspaceOf(schedule[s].release)
  BY DEF Inv, TypeOK, Based, DeviceObeysItsOwner
<1>2. /\ new \in ScheduleRow /\ new.status = status /\ new.target = schedule[s].target
      /\ new.release = schedule[s].release /\ new.createdBy = schedule[s].createdBy
      /\ new.workspace = schedule[s].workspace
  BY <1>1 DEF ScheduleRow
<1>3. ScheduleBecomes(s, new)
  OBVIOUS
<1> HIDE DEF new
<1> QED
  BY <1>1, <1>2, <1>3, ScheduleBecomesKeeps

\* A schedule is active again under the grant that was found.
LEMMA ScheduleResumedKeeps ==
  ASSUME Inv, ScheduleResumed
  PROVE  Inv'
<1>1. /\ writer.op = "resume" /\ writer.op \in Grantees /\ writer' = Idle
      /\ ScheduleBecomes(writer.schedule, [schedule[writer.schedule] EXCEPT !.status = "active"])
  BY DEF ScheduleResumed, Grantees
<1>2. /\ writer.schedule \in Schedules /\ schedule[writer.schedule].status # "absent"
      /\ schedule[writer.schedule].target = writer.device
      /\ schedule[writer.schedule].release = writer.release
  BY <1>1, OperationFields DEF Inv, TypeOK, Pending
<1> QED
  BY <1>1, <1>2, PendingFacts, StatusChangeKeeps

\* A pause needs no grant.
LEMMA PauseScheduleKeeps ==
  ASSUME Inv, NEW u \in Users, NEW s \in Schedules, PauseSchedule(u, s)
  PROVE  Inv'
BY StatusChangeKeeps DEF PauseSchedule, Turn

\* A run is of the user who owns the device.
LEMMA RunCreatedKeeps ==
  ASSUME Inv, RunCreated
  PROVE  Inv'
<1> DEFINE new == [status |-> "queued", workspace |-> device[writer.device].workspace,
                   release |-> writer.release, device |-> writer.device, cancel |-> FALSE,
                   triggeredBy |-> writer.user]
<1>1. writer.op = "run" /\ writer.op \in Grantees /\ writer' = Idle
  BY DEF RunCreated, Grantees
<1>2. /\ writer.run \in Runs /\ writer.user \in Users
      /\ writer.user = device[writer.device].owner
  BY <1>1, OperationFields DEF Inv, TypeOK, Pending
<1>3. CASE RunBecomes(writer.run, new)
  <2>1. /\ new \in RunRow /\ new.status = "queued" /\ new.device = writer.device
        /\ new.release = writer.release /\ new.triggeredBy = writer.user
    BY <1>1, <1>2, PendingFacts DEF RunRow, AllowedRun
  <2> HIDE DEF new
  <2> QED
    BY <1>1, <1>2, <1>3, <2>1, PendingFacts, RunBecomesKeeps
<1>4. CASE UNCHANGED tables
  BY <1>1, <1>4, QueueKeeps, IdleIsOperation
<1> QED
  BY <1>3, <1>4 DEF RunCreated


\* The operations of the release pipeline: nothing refers to a release before
\* it is approved, and an approved release does not change.
LEMMA ReleaseStepsKeep ==
  ASSUME Inv, NEW r \in Releases
  PROVE  /\ \A u \in Users, a \in Applications : CreateRelease(u, a, r) => Inv'
         /\ \A u \in Users : CreateArtifact(u, r) \/ FinalizeArtifact(u, r) \/ SubmitRelease(u, r) => Inv'
         /\ \A u \in Users, decision \in {"approved", "rejected"} : CreateReview(u, r, decision) => Inv'
         /\ \A success \in BOOLEAN : ApplyValidationResult(r, success) => Inv'
<1> DEFINE Steps == {"draft", "uploading", "validating", "ready", "approved", "rejected"}
           Files == {"absent", "pending_upload", "uploaded", "validated", "rejected"}
<1>1. release[r] \in ReleaseRow
  BY DEF Inv, TypeOK
<1>2. ASSUME NEW status \in Steps, NEW artifact \in Files,
             release[r].status \notin {"absent", "approved"},
             artifact = "pending_upload" => status = "uploading",
             ReleaseBecomes(r, [release[r] EXCEPT !.status = status, !.artifact = artifact])
      PROVE  Inv'
  <2> DEFINE new == [release[r] EXCEPT !.status = status, !.artifact = artifact]
  <2>1. /\ new \in ReleaseRow /\ new.application = release[r].application
        /\ new.status = status /\ new.artifact = artifact
    BY <1>1 DEF ReleaseRow
  <2>2. release[r].application \in Applications /\ application[release[r].application].kind # "absent"
    BY <1>2 DEF Inv, Linked
  <2>3. ReleaseBecomes(r, new)
    BY <1>2
  <2> HIDE DEF new
  <2> QED
    BY <1>2, <2>1, <2>2, <2>3, ReleaseBecomesKeeps
<1>3. ASSUME NEW u \in Users, NEW a \in Applications, CreateRelease(u, a, r) PROVE Inv'
  <2>1. [NoRelease EXCEPT !.status = "draft", !.application = a] \in ReleaseRow
    BY DEF NoRelease, ReleaseRow
  <2> QED
    BY <1>3, <2>1, ReleaseBecomesKeeps DEF CreateRelease, NoRelease
<1>4. /\ release[r].status \in Steps \cup {"absent"} /\ release[r].artifact \in Files
      /\ release[r] = [release[r] EXCEPT !.status = release[r].status]
      /\ release[r] = [release[r] EXCEPT !.artifact = release[r].artifact]
  BY <1>1 DEF ReleaseRow
<1>5. ASSUME NEW u \in Users, CreateArtifact(u, r) PROVE Inv'
  BY <1>2, <1>5 DEF CreateArtifact
<1>6. ASSUME NEW u \in Users, SubmitRelease(u, r) PROVE Inv'
  <2>1. [release[r] EXCEPT !.status = "validating"]
          = [release[r] EXCEPT !.status = "validating", !.artifact = release[r].artifact]
    BY <1>1 DEF ReleaseRow
  <2> QED
    BY <1>2, <1>4, <1>6, <2>1 DEF SubmitRelease
<1>7. ASSUME NEW u \in Users, NEW decision \in {"approved", "rejected"}, CreateReview(u, r, decision) PROVE Inv'
  <2>1. [release[r] EXCEPT !.status = decision]
          = [release[r] EXCEPT !.status = decision, !.artifact = release[r].artifact]
    BY <1>1 DEF ReleaseRow
  <2> QED
    BY <1>2, <1>4, <1>7, <2>1 DEF CreateReview, Inv, Linked
<1>8. ASSUME NEW success \in BOOLEAN, ApplyValidationResult(r, success) PROVE Inv'
  BY <1>2, <1>8 DEF ApplyValidationResult
<1>9. ASSUME NEW u \in Users, FinalizeArtifact(u, r) PROVE Inv'
  <2>1. [release[r] EXCEPT !.artifact = "uploaded"]
          = [release[r] EXCEPT !.status = release[r].status, !.artifact = "uploaded"]
    BY <1>1 DEF ReleaseRow
  <2>2. release[r].status \notin {"absent", "approved"}
    BY <1>9 DEF FinalizeArtifact, Inv, Linked
  <2> QED
    BY <1>2, <1>4, <1>9, <2>1, <2>2 DEF FinalizeArtifact
<1> QED
  BY <1>3, <1>5, <1>6, <1>7, <1>8, <1>9


\* Runs that are cancelled, claimed or reported on.
LEMMA RunStepsKeep ==
  ASSUME Inv, NEW n \in Runs
  PROVE  /\ \A u \in Users : CancelRun(u, n) => Inv'
         /\ \A d \in Devices, to \in Open \cup {"succeeded", "failed", "cancelled"} :
              ReportRun(d, n, to) => Inv'
         /\ ClaimRun(n) => Inv'
<1>1. run[n] \in RunRow
  BY DEF Inv, TypeOK
<1>2. ASSUME NEW u \in Users, CancelRun(u, n) PROVE Inv'
  <2> DEFINE to == IF run[n].status = "queued" THEN "cancelled" ELSE run[n].status
  <2>1. [run[n] EXCEPT !.cancel = TRUE, !.status = IF @ = "queued" THEN "cancelled" ELSE @]
          = [run[n] EXCEPT !.status = to, !.cancel = TRUE]
    BY <1>1 DEF RunRow
  <2>2. to \in DOMAIN AllowedRun \ {"absent", "queued"} /\ run[n].status # "absent" /\ writer' = Idle
    BY <1>2 DEF CancelRun, Open, AllowedRun, Turn
  <2>3. RunBecomes(n, [run[n] EXCEPT !.status = to, !.cancel = TRUE])
    BY <1>2, <2>1 DEF CancelRun
  <2> HIDE DEF to
  <2> QED
    BY <2>2, <2>3, RunMovesKeeps
<1>3. ASSUME NEW to \in DOMAIN AllowedRun \ {"absent", "queued"}, run[n].status # "absent",
             RunBecomes(n, [run[n] EXCEPT !.status = to]),
             \/ writer' = Idle
             \/ writer.op = "claim" /\ writer' = [writer EXCEPT !.todo = @ \ {n}]
      PROVE  Inv'
  <2>1. [run[n] EXCEPT !.status = to] = [run[n] EXCEPT !.status = to, !.cancel = run[n].cancel]
        /\ run[n].cancel \in BOOLEAN
    BY <1>1 DEF RunRow
  <2> QED
    BY ZenonT(60), <1>3, <2>1, RunMovesKeeps
<1>4. ASSUME NEW d \in Devices, NEW to \in Open \cup {"succeeded", "failed", "cancelled"},
             ReportRun(d, n, to)
      PROVE  Inv'
  <2>1. run[n].status # "absent" /\ writer' = Idle /\ to \in DOMAIN AllowedRun \ {"absent", "queued"}
    BY <1>4 DEF ReportRun, AllowedRun, Turn, Open
  <2> QED
    BY <1>3, <1>4, <2>1 DEF ReportRun
<1>5. ASSUME ClaimRun(n) PROVE Inv'
  <2> DEFINE to == IF RequireActivePermissionGrant(writer.device, run[n].release)
                     THEN "dispatched" ELSE "failed"
  <2>1. /\ run[n].status # "absent"
        /\ writer' = Idle \/ (writer.op = "claim" /\ writer' = [writer EXCEPT !.todo = @ \ {n}])
        /\ RunBecomes(n, [run[n] EXCEPT !.status = to])
    BY <1>5 DEF ClaimRun, Inv, Pending
  <2>2. to \in DOMAIN AllowedRun \ {"absent", "queued"}
    BY DEF AllowedRun
  <2> HIDE DEF to
  <2> QED
    BY <1>3, <2>1, <2>2
<1> QED
  BY <1>2, <1>4, <1>5

\* Answers only read the tables.
LEMMA AnswersKeep ==
  ASSUME Inv
  PROVE  /\ SchedulesListed => Inv'
         /\ \A d \in Devices :
              /\ SyncInstallations(d) \/ InstallationsAnswered(d) => Inv'
              /\ InstallationsRefused(d) \/ InstallationsLost(d) => Inv'
              /\ \A r \in Releases : AuthorizeInstallation(d, r) => Inv'
              /\ SchedulesAnswered(d) \/ SchedulesRefused(d) \/ SchedulesLost(d) => Inv'
              /\ \A s \in Schedules : AuthorizeScheduleRecord(d, s) => Inv'
              /\ RefreshLeases(d) => Inv'
<1>1. ASSUME SchedulesListed PROVE Inv'
  BY SMTT(45), <1>1, QueueKeeps, IdleIsOperation DEF SchedulesListed
<1>2. ASSUME NEW d \in Devices
      PROVE  /\ SyncInstallations(d) \/ InstallationsAnswered(d) => Inv'
             /\ InstallationsRefused(d) \/ InstallationsLost(d) => Inv'
             /\ \A r \in Releases : AuthorizeInstallation(d, r) => Inv'
  BY ReadsKeep DEF SyncInstallations, InstallationsAnswered, InstallationsRefused,
                   InstallationsLost, AuthorizeInstallation
<1>3. ASSUME NEW d \in Devices
      PROVE  /\ SchedulesAnswered(d) \/ SchedulesRefused(d) \/ SchedulesLost(d) => Inv'
             /\ \A s \in Schedules : AuthorizeScheduleRecord(d, s) => Inv'
  BY ReadsKeep DEF SchedulesAnswered, SchedulesRefused, SchedulesLost, AuthorizeScheduleRecord
<1>4. ASSUME NEW d \in Devices, RefreshLeases(d) PROVE Inv'
  BY <1>4, StartSyncKeeps DEF RefreshLeases
<1> QED
  BY <1>1, <1>2, <1>3, <1>4

-----------------------------------------------------------------------------
\* Empty tables satisfy the invariant.
LEMMA InitInv == ASSUME Init PROVE Inv
<1> USE DEF Init, NoDevice, NoApplication, NoRelease, NoSchedule, NoRun, Idle
<1>1. TypeOK
  BY IdleIsOperation DEF TypeOK, DeviceRow, ApplicationRow, ReleaseRow, ScheduleRow, RunRow,
                         AllowedInstallation, AllowedRun
<1>2. Linked /\ Based /\ DeviceObeysItsOwner /\ NoWorkWithoutGrant /\ Pending
  BY DEF Linked, Based, DeviceObeysItsOwner, NoWorkWithoutGrant, Pending
<1> QED
  BY <1>1, <1>2 DEF Inv

\* Every route keeps it.
LEMMA NextInv == ASSUME Inv, Next PROVE Inv'
<1>1. ASSUME Preparation PROVE Inv'
  BY <1>1, CreateWorkspaceKeeps, RegisterDeviceKeeps, CreateApplicationKeeps, ReleaseStepsKeep
     DEF Preparation
<1>2. ASSUME Orders PROVE Inv'
  BY <1>2, PromoteKeeps, RevokeDeviceKeeps, ApproveKeeps, RevokeGrantKeeps, OrdersBegin,
     ResumeBegins, PauseScheduleKeeps, RunStepsKeep
     DEF Orders
<1>3. ASSUME DeviceRoutes PROVE Inv'
  <2>1. PICK d \in Devices :
          \/ SyncInstallations(d) \/ SyncSchedules(d) \/ ClaimRuns(d)
          \/ \E r \in Releases :
               \/ \E to \in {"downloading", "failed", "removed"} : UpdateInstallationStatus(d, r, to)
               \/ ReportInstalled(d, r)
          \/ \E n \in Runs, to \in Open \cup {"succeeded", "failed", "cancelled"} : ReportRun(d, n, to)
    BY <1>3 DEF DeviceRoutes
  <2>2. ASSUME SyncSchedules(d) PROVE Inv'
    BY <2>2, StartSyncKeeps DEF SyncSchedules
  <2>3. ASSUME NEW r \in Releases, ReportInstalled(d, r) PROVE Inv'
    BY <2>3, ReportInstalledBegins
  <2> QED
    BY <2>1, <2>2, <2>3, AnswersKeep, ClaimRunsKeeps, UpdateInstallationKeeps, RunStepsKeep
<1>4. ASSUME WorkerRoute PROVE Inv'
  <2>1. PICK r \in Releases, success \in BOOLEAN : ApplyValidationResult(r, success)
    BY <1>4 DEF WorkerRoute
  <2> QED
    BY <2>1, ReleaseStepsKeep
<1>5. ASSUME QueueProceeds PROVE Inv'
  BY <1>5, InstallationRequestedKeeps, InstallationInstalledKeeps, ScheduleCreatedKeeps,
     ScheduleUpdatedKeeps, ScheduleResumedKeeps, RunCreatedKeeps, AnswersKeep, CheckScheduleKeeps,
     RunStepsKeep
     DEF QueueProceeds
<1>6. ASSUME AnswersProceed PROVE Inv'
  BY <1>6, AnswersKeep DEF AnswersProceed
<1> QED
  BY <1>1, <1>2, <1>3, <1>4, <1>5, <1>6, ExpiryKeeps DEF Next

\* The invariant holds in every state.
THEOREM ControlPlaneInvariant == Spec => []Inv
<1>1. Inv /\ UNCHANGED vars => Inv'
  BY ReadsKeep DEF vars
<1> QED
  BY InitInv, NextInv, <1>1, PTL DEF Spec

\* A device works only for its owner and inside its workspace
\* (requireActiveDeviceOwner, desktopRelease, updateSchedule).
THEOREM DevicesObeyTheirOwners == Spec => []DeviceObeysItsOwner
BY ControlPlaneInvariant, PTL DEF Inv

\* No run is queued and no schedule is active without a grant that is not
\* revoked (revokePermissionGrant and the changes that wait in the queue).
THEOREM WorkIsGranted == Spec => []NoWorkWithoutGrant
BY ControlPlaneInvariant, PTL DEF Inv

-----------------------------------------------------------------------------
(* The copies of the devices and the log of changes.                       *)

\* What the log may hold.
Change == [schedule : Schedules, device : Devices, revision : Nat, op : {"upsert", "remove"},
           enabled : BOOLEAN]

\* The last change of a log, up to a revision, for its schedule and device.
SamePair(c, e) == c.schedule = e.schedule /\ c.device = e.device
LastUpTo(log, c, k) ==
  c.revision <= k /\ \A e \in log : SamePair(e, c) /\ e.revision <= k => e.revision <= c.revision

\* The schedules of a device that a log says were active at a revision ...
ViewOf(log, d, k) ==
  {s \in Schedules : \E c \in log :
     c.device = d /\ c.schedule = s /\ c.op = "upsert" /\ c.enabled /\ LastUpTo(log, c, k)}

\* ... and those that are.
ActiveOn(d) == {s \in Schedules : schedule[s].target = d /\ schedule[s].status = "active"}

Current(d) == revision[device[d].workspace]

\* The log is of registered devices, has a last change for each schedule and
\* device, and tells what the table says.
LogInv ==
  /\ changes \subseteq Change
  /\ \A c \in changes : device[c.device].status # "absent" /\ c.revision <= Current(c.device)
  /\ \A c \in changes : \E e \in changes :
       SamePair(e, c) /\ \A f \in changes : SamePair(f, e) => f.revision <= e.revision
  /\ \A d \in Devices : device[d].status # "absent" => ViewOf(changes, d, Current(d)) = ActiveOn(d)
  /\ \A s \in Schedules : schedule[s].status = "absent" => schedule[s].target = None

\* What an answer turns on, and what it says anything about.
On(a) == {c.schedule : c \in {e \in a.upserts : e.enabled}}
Touched(a) == a.removed \cup {c.schedule : c \in a.upserts}

\* A copy is what the log says as of its revision, and so is what an answer
\* under way will make of it.
CopyInv ==
  /\ copy \in [Devices -> [at : Nat \cup {-1}, held : SUBSET Schedules]]
  /\ \A d \in Devices : copy[d].at # -1 =>
       /\ device[d].status # "absent" /\ copy[d].at <= Current(d)
       /\ copy[d].held = ViewOf(changes, d, copy[d].at)
  /\ DOMAIN reply = Devices
  /\ \A d \in Devices : reply[d].kind \in {"snapshot", "delta"} =>
       /\ device[d].status # "absent" /\ reply[d].at \in Nat /\ reply[d].at <= Current(d)
       /\ reply[d].kind = "snapshot" => On(reply[d]) = ViewOf(changes, d, reply[d].at)
       /\ reply[d].kind = "delta" =>
            /\ copy[d].at # -1
            /\ (copy[d].held \ Touched(reply[d])) \cup On(reply[d]) = ViewOf(changes, d, reply[d].at)
  /\ writer.op = "sync" => device[writer.device].status # "absent"
  /\ writer.op = "create" => schedule[writer.schedule].status = "absent"

\* A request that a device was not told of has its answer still to come, or is
\* noted as left out, or has moved the revision.
SeenInv ==
  /\ seen \in [Devices -> [at : Nat, requests : SUBSET Releases, excused : SUBSET Releases]]
  /\ index \in [Devices -> {Quiet} \cup [kind : {"list"}, authorized : SUBSET Releases,
                                         excused : SUBSET Releases, todo : SUBSET Releases]]
  /\ \A d \in Devices : seen[d].at <= device[d].revision
  /\ \A d \in Devices : device[d].status = "absent" => device[d].revision = 0
  /\ \A d \in Devices, r \in Releases :
       index[d].kind = "list" /\ installation[d][r] = "requested" =>
         r \in index[d].todo \cup index[d].authorized \cup index[d].excused
  /\ RequestsAreSeen

\* Later changes do not alter what a log said.
LEMMA ViewGrows ==
  ASSUME NEW log \in SUBSET Change, NEW added \in SUBSET Change, NEW d, NEW k \in Nat,
         \A c \in added : c.device = d => k < c.revision
  PROVE  \A s : s \in ViewOf(log \cup added, d, k) <=> s \in ViewOf(log, d, k)
<1>1. \A c \in log \cup added : c.device = d /\ c.revision <= k => c \in log
  BY DEF Change
<1>2. \A c \in log : c.device = d => (LastUpTo(log \cup added, c, k) <=> LastUpTo(log, c, k))
  BY <1>1 DEF LastUpTo, SamePair
<1> QED
  BY <1>1, <1>2 DEF ViewOf, LastUpTo

\* A schedule that no new change is about is seen as before.
LEMMA ViewElsewhere ==
  ASSUME NEW log \in SUBSET Change, NEW added \in SUBSET Change, NEW d, NEW s, NEW k \in Nat,
         NEW l \in Nat, k <= l,
         \A c \in log : c.device = d => c.revision <= k,
         \A c \in added : c.device = d => c.schedule # s
  PROVE  s \in ViewOf(log \cup added, d, l) <=> s \in ViewOf(log, d, k)
<1>1. \A c \in log : c.device = d => c.revision <= k /\ c.revision <= l
  BY DEF Change
<1>2. \A c \in log : c.device = d /\ c.schedule = s =>
        (LastUpTo(log \cup added, c, l) <=> LastUpTo(log, c, k))
  BY <1>1 DEF LastUpTo, SamePair
<1>3. \A c \in log \cup added : c.device = d /\ c.schedule = s => c \in log
  OBVIOUS
<1> QED
  BY <1>2, <1>3 DEF ViewOf

\* A schedule with a new change is as that change says.
LEMMA ViewOfNew ==
  ASSUME NEW log \in SUBSET Change, NEW added \in SUBSET Change, NEW k \in Nat, NEW l \in Nat,
         NEW new \in added, k < new.revision, new.revision <= l,
         \A c \in log : c.device = new.device => c.revision <= k,
         \A c \in added : SamePair(c, new) => c = new
  PROVE  new.schedule \in ViewOf(log \cup added, new.device, l) <=> new.op = "upsert" /\ new.enabled
<1>1. \A c \in log \cup added : SamePair(c, new) =>
        c.revision <= l /\ c.revision <= new.revision /\ (c # new => c.revision < new.revision)
  BY DEF Change, SamePair
<1>2. LastUpTo(log \cup added, new, l)
  BY <1>1 DEF LastUpTo
<1>3. \A c \in log \cup added : SamePair(c, new) /\ LastUpTo(log \cup added, c, l) => c = new
  <2> SUFFICES ASSUME NEW c \in log \cup added, SamePair(c, new), LastUpTo(log \cup added, c, l), c # new
               PROVE  FALSE
    OBVIOUS
  <2>1. new.revision <= c.revision /\ c.revision < new.revision
    BY <1>1 DEF LastUpTo, SamePair
  <2> QED
    BY <2>1 DEF Change
<1>4. new.schedule \in Schedules
  BY DEF Change
<1> QED
  BY <1>2, <1>3, <1>4 DEF ViewOf, SamePair

\* A delta makes of an older view the current one.
LEMMA DeltaView ==
  ASSUME LogInv, TypeOK, NEW d \in Devices, NEW k \in Nat, Current(d) \in Nat, k <= Current(d)
  PROVE  (ViewOf(changes, d, k) \ Touched(Delta(d, k))) \cup On(Delta(d, k))
           = ViewOf(changes, d, Current(d))
<1> DEFINE later == {c \in changes : c.device = d /\ c.revision > k}
           last  == {c \in later : \A e \in later : e.schedule = c.schedule => e.revision <= c.revision}
           R == Current(d)
<1>1. \A c \in changes : c \in Change /\ (c.device = d => c.revision <= R)
  BY DEF LogInv
<1>2. \A c \in changes : c.device = d => (c \in last <=> c.revision > k /\ LastUpTo(changes, c, R))
  BY <1>1 DEF LastUpTo, SamePair, Change
<1>3. \A c \in later : \E e \in last : e.schedule = c.schedule
  <2> SUFFICES ASSUME NEW c \in later PROVE \E e \in last : e.schedule = c.schedule
    OBVIOUS
  <2>1. PICK e \in changes : SamePair(e, c) /\ \A f \in changes : SamePair(f, e) => f.revision <= e.revision
    BY DEF LogInv
  <2>2. e.device = d /\ e.schedule = c.schedule /\ e.revision >= c.revision
    BY <2>1 DEF SamePair
  <2>3. e.revision > k /\ \A f \in later : f.schedule = e.schedule => f.revision <= e.revision
    BY <1>1, <2>1, <2>2 DEF SamePair, Change
  <2> QED
    BY <2>1, <2>2, <2>3
<1>4. /\ On(Delta(d, k)) = {c.schedule : c \in {e \in last : e.op = "upsert" /\ e.enabled}}
      /\ Touched(Delta(d, k)) = {c.schedule : c \in last}
  <2>1. \A c \in last : c.op \in {"upsert", "remove"}
    BY <1>1 DEF Change
  <2> DEFINE D == Delta(d, k)
  <2>2. D.upserts = {c \in last : c.op = "upsert"}
    BY DEF Delta
  <2>3. D.removed = {c.schedule : c \in {e \in last : e.op = "remove"}}
    BY DEF Delta
  <2> HIDE DEF D, last
  <2>4. On(D) = {c.schedule : c \in {e \in last : e.op = "upsert" /\ e.enabled}}
    BY <2>2 DEF On
  <2>5. Touched(D) = {c.schedule : c \in last}
    BY <2>1, <2>2, <2>3 DEF Touched
  <2> QED
    BY <2>4, <2>5 DEF D
<1> HIDE DEF last
<1>5. ASSUME NEW s \in Schedules, \E c \in last : c.schedule = s
      PROVE  s \in On(Delta(d, k)) <=> s \in ViewOf(changes, d, R)
  <2>1. s \in On(Delta(d, k)) <=> \E c \in last : c.schedule = s /\ c.op = "upsert" /\ c.enabled
    BY <1>4
  <2>2. ASSUME NEW c \in last, c.schedule = s, c.op = "upsert", c.enabled
        PROVE  s \in ViewOf(changes, d, R)
    BY <1>2, <2>2 DEF ViewOf, last
  <2>3. ASSUME NEW c \in changes, c.device = d, c.schedule = s, LastUpTo(changes, c, R)
        PROVE  c \in last
    <3>1. PICK e \in last : e.schedule = s
      BY <1>5
    <3>2. e \in changes /\ e.device = d /\ e.revision > k /\ e.revision <= R
      BY <1>1 DEF last
    <3>3. e.revision <= c.revision
      BY <2>3, <3>1, <3>2 DEF LastUpTo, SamePair
    <3>4. c.revision > k
      BY <1>1, <3>2, <3>3 DEF Change
    <3> QED
      BY <1>2, <2>3, <3>4
  <2> QED
    BY <2>1, <2>2, <2>3 DEF ViewOf
<1>6. ASSUME NEW s \in Schedules, ~\E c \in last : c.schedule = s
      PROVE  s \in ViewOf(changes, d, k) <=> s \in ViewOf(changes, d, R)
  <2>1. \A c \in changes : c.device = d /\ c.schedule = s => c.revision <= k /\ c.revision <= R
    BY <1>1, <1>3, <1>6 DEF Change
  <2>2. \A c \in changes : c.device = d /\ c.schedule = s =>
          (LastUpTo(changes, c, k) <=> LastUpTo(changes, c, R))
    BY <2>1 DEF LastUpTo, SamePair
  <2> QED
    BY <2>2 DEF ViewOf
<1>7. \A s : s \in On(Delta(d, k)) => \E c \in last : c.schedule = s
  BY <1>4
<1>8. \A s : s \in Touched(Delta(d, k)) <=> \E c \in last : c.schedule = s
  BY <1>4
<1>9. On(Delta(d, k)) \subseteq Schedules
  BY <1>1, <1>4 DEF last, Change
<1>10. ViewOf(changes, d, k) \subseteq Schedules /\ ViewOf(changes, d, R) \subseteq Schedules
  BY DEF ViewOf
<1> QED
  BY <1>5, <1>6, <1>7, <1>8, <1>9, <1>10

\* The workspace of a registered device has a revision.
LEMMA CurrentIsNat ==
  ASSUME Inv, NEW d \in Devices, device[d].status # "absent"
  PROVE  device[d].workspace \in Workspaces /\ Current(d) \in Nat
BY DEF Inv, TypeOK, Linked, Current

\* The log and the table grow together.
LEMMA LogGrows ==
  ASSUME Inv, LogInv, CopyInv, NEW w \in Workspaces, NEW n \in Nat, NEW added \in SUBSET Change,
         UNCHANGED <<device, copy, reply>>, writer'.op # "create",
         writer'.op = "sync" => writer.op = "sync" /\ writer'.device = writer.device,
         \A s \in Schedules : schedule'[s].status = "absent" => schedule'[s].target = None,
         changes' = changes \cup added,
         revision' = [revision EXCEPT ![w] = @ + n],
         \A c \in added : /\ device[c.device].status # "absent" /\ device[c.device].workspace = w
                          /\ revision[w] < c.revision /\ c.revision <= revision[w] + n,
         \A c, e \in added : SamePair(c, e) => c = e,
         \A c \in added : c.schedule \in ActiveOn(c.device)' <=> c.op = "upsert" /\ c.enabled,
         \A d \in Devices, s \in Schedules :
           (\A c \in added : c.device = d => c.schedule # s) =>
             (s \in ActiveOn(d)' <=> s \in ActiveOn(d))
  PROVE  LogInv' /\ CopyInv'
<1>1. \A d \in Devices : device[d].status # "absent" =>
        /\ Current(d) \in Nat /\ Current(d)' \in Nat /\ Current(d) <= Current(d)'
        /\ device[d].workspace = w => Current(d) = revision[w] /\ Current(d)' = revision[w] + n
  BY CurrentIsNat DEF Current, Inv, TypeOK
<1>2. changes \subseteq Change /\ changes' \subseteq Change
  BY DEF LogInv
<1>3. \A c \in changes' : device'[c.device].status # "absent" /\ c.revision <= Current(c.device)'
  <2>1. ASSUME NEW c \in changes
        PROVE  device'[c.device].status # "absent" /\ c.revision <= Current(c.device)'
    <3>1. device[c.device].status # "absent" /\ c.revision <= Current(c.device)
          /\ c.device \in Devices /\ c.revision \in Nat
      BY <1>2 DEF LogInv, Change
    <3> QED
      BY <1>1, <3>1
  <2>2. ASSUME NEW c \in added
        PROVE  device'[c.device].status # "absent" /\ c.revision <= Current(c.device)'
    <3>1. c.device \in Devices
      BY DEF Change
    <3> QED
      BY <1>1, <3>1
  <2> QED
    BY <2>1, <2>2
<1>4. \A c \in changes' : \E e \in changes' :
        SamePair(e, c) /\ \A f \in changes' : SamePair(f, e) => f.revision <= e.revision
  <2> SUFFICES ASSUME NEW c \in changes'
               PROVE  \E e \in changes' :
                        SamePair(e, c) /\ \A f \in changes' : SamePair(f, e) => f.revision <= e.revision
    OBVIOUS
  <2>1. CASE \E e \in added : SamePair(e, c)
    <3>1. PICK e \in added : SamePair(e, c)
      BY <2>1
    <3>2. e \in Change /\ e.device \in Devices /\ Current(e.device) = revision[w]
      BY <1>1, <3>1 DEF Change
    <3>3. ASSUME NEW f \in changes', SamePair(f, e) PROVE f.revision <= e.revision
      <4>1. CASE f \in added
        <5>1. f = e
          BY <3>3, <4>1
        <5> QED
          BY <5>1, <3>2 DEF Change
      <4>2. CASE f \in changes
        <5>1. f.revision <= revision[w] /\ f.revision \in Nat /\ e.revision \in Nat /\ revision[w] \in Nat
              /\ revision[w] < e.revision
          BY <1>1, <1>2, <3>2, <3>3, <4>2 DEF LogInv, SamePair, Change
        <5> QED
          BY <5>1
      <4> QED
        BY <4>1, <4>2
    <3> QED
      BY <3>1, <3>3
  <2>2. CASE ~\E e \in added : SamePair(e, c)
    <3>1. c \in changes
      BY <2>2 DEF SamePair
    <3>2. PICK e \in changes : SamePair(e, c) /\ \A f \in changes : SamePair(f, e) => f.revision <= e.revision
      BY <3>1 DEF LogInv
    <3>3. \A f \in added : ~SamePair(f, e)
      BY <2>2, <3>2 DEF SamePair
    <3> QED
      BY <3>2, <3>3
  <2> QED
    BY <2>1, <2>2
<1>5. ASSUME NEW d \in Devices, device[d].status # "absent"
      PROVE  ViewOf(changes', d, Current(d)') = ActiveOn(d)'
  <2>1. \A c \in changes : c.device = d => c.revision <= Current(d)
    BY DEF LogInv
  <2>2. ASSUME NEW s \in Schedules, \A c \in added : c.device = d => c.schedule # s
        PROVE  s \in ViewOf(changes', d, Current(d)') <=> s \in ActiveOn(d)'
    <3>1. s \in ViewOf(changes', d, Current(d)') <=> s \in ViewOf(changes, d, Current(d))
      <4> DEFINE k == Current(d)  l == Current(d)'  log == changes
      <4>1. k \in Nat /\ l \in Nat /\ k <= l
        BY <1>1, <1>5
      <4>2. log \in SUBSET Change /\ \A c \in log : c.device = d => c.revision <= k
        BY <1>2, <2>1
      <4> HIDE DEF k, l, log
      <4>3. s \in ViewOf(log \cup added, d, l) <=> s \in ViewOf(log, d, k)
        BY <2>2, <4>1, <4>2, ViewElsewhere
      <4> QED
        BY <4>3 DEF k, l, log
    <3> QED
      BY <1>5, <2>2, <3>1 DEF LogInv
  <2>3. ASSUME NEW c \in added, c.device = d
        PROVE  c.schedule \in ViewOf(changes', d, Current(d)') <=> c.schedule \in ActiveOn(d)'
    <3> DEFINE k == Current(d)  l == Current(d)'  log == changes
    <3>1. k \in Nat /\ l \in Nat /\ k < c.revision /\ c.revision <= l
      BY <1>1, <1>5, <2>3
    <3>2. log \in SUBSET Change /\ \A e \in log : e.device = c.device => e.revision <= k
      BY <1>2, <2>1, <2>3
    <3> HIDE DEF k, l, log
    <3>3. c.schedule \in ViewOf(log \cup added, c.device, l) <=> c.op = "upsert" /\ c.enabled
      BY <3>1, <3>2, ViewOfNew
    <3> QED
      BY <2>3, <3>3 DEF k, l, log
  <2>4. ViewOf(changes', d, Current(d)') \subseteq Schedules /\ ActiveOn(d)' \subseteq Schedules
    BY DEF ViewOf, ActiveOn
  <2> DEFINE view == ViewOf(changes', d, Current(d)')  active == ActiveOn(d)'
  <2> HIDE DEF view, active
  <2>5. ASSUME NEW s \in Schedules PROVE s \in view <=> s \in active
    <3>1. CASE \E c \in added : c.device = d /\ c.schedule = s
      <4>1. PICK c \in added : c.device = d /\ c.schedule = s
        BY <3>1
      <4> QED
        BY <2>3, <4>1 DEF view, active
    <3>2. CASE ~\E c \in added : c.device = d /\ c.schedule = s
      BY <2>2, <3>2 DEF view, active
    <3> QED
      BY <3>1, <3>2
  <2>6. view = active
    BY <2>4, <2>5 DEF view, active
  <2> QED
    BY <2>6 DEF view, active
<1>6. LogInv'
  BY <1>2, <1>3, <1>4, <1>5 DEF LogInv
<1>7. ASSUME NEW d \in Devices, device[d].status # "absent", NEW k \in Nat, k <= Current(d)
      PROVE  ViewOf(changes', d, k) = ViewOf(changes, d, k) /\ k <= Current(d)'
  <2>1. \A c \in added : c.device = d => k < c.revision
    BY <1>1, <1>7 DEF Change
  <2>2. k <= Current(d)'
    BY <1>1, <1>7
  <2> DEFINE log == changes
  <2>3. log \in SUBSET Change
    BY <1>2
  <2> HIDE DEF log
  <2>4. \A c \in added : c.device = d => k < c.revision
    BY <2>1
  <2>5. ViewOf(log \cup added, d, k) = ViewOf(log, d, k)
    <3>1. \A s : s \in ViewOf(log \cup added, d, k) <=> s \in ViewOf(log, d, k)
      BY <2>3, <2>4, ViewGrows
    <3> QED
      BY <3>1 DEF ViewOf
  <2> QED
    BY <2>2, <2>5 DEF log
<1>8. CopyInv'
  <2>1. \A d \in Devices : copy[d].at # -1 =>
          /\ device[d].status # "absent" /\ copy[d].at <= Current(d)'
          /\ copy[d].held = ViewOf(changes', d, copy[d].at)
    BY ZenonT(60), <1>7 DEF CopyInv
  <2>2. \A d \in Devices : reply[d].kind \in {"snapshot", "delta"} =>
          /\ device[d].status # "absent" /\ reply[d].at \in Nat /\ reply[d].at <= Current(d)'
          /\ ViewOf(changes', d, reply[d].at) = ViewOf(changes, d, reply[d].at)
    BY <1>7 DEF CopyInv
  <2> QED
    BY ZenonT(60), <2>1, <2>2 DEF CopyInv
<1> QED
  BY <1>6, <1>8

\* Whatever leaves schedules, log, copies and answers alone.
LEMMA CopiesStay ==
  ASSUME Inv, LogInv, CopyInv, UNCHANGED <<schedule, revision, changes, copy, reply>>,
         \A d \in Devices : device[d].status # "absent" =>
           device'[d].status # "absent" /\ device'[d].workspace = device[d].workspace,
         writer'.op = "sync" =>
           writer'.device \in Devices /\ device[writer'.device].status # "absent",
         writer'.op = "create" => schedule[writer'.schedule].status = "absent"
  PROVE  LogInv' /\ CopyInv'
<1>1. \A d \in Devices : device[d].status # "absent" =>
        device'[d].status # "absent" /\ Current(d)' = Current(d)
  BY DEF Current
<1>2. \A c \in changes : c.device \in Devices
  BY DEF LogInv, Change
<1>3. ASSUME NEW d \in Devices, device[d].status = "absent"
      PROVE  ViewOf(changes, d, Current(d)') = {} /\ ActiveOn(d)' = {}
  <2>1. \A c \in changes : c.device # d
    BY <1>3 DEF LogInv
  <2>2. \A s \in Schedules : schedule[s].status = "active" => schedule[s].target # d
    BY <1>3 DEF Inv, Based, Usable
  <2> QED
    BY <2>1, <2>2 DEF ViewOf, ActiveOn
<1>4. \A d \in Devices : ActiveOn(d)' = ActiveOn(d)
  BY DEF ActiveOn
<1>5. \A d \in Devices : device'[d].status # "absent" =>
        ViewOf(changes', d, Current(d)') = ActiveOn(d)'
  <2> SUFFICES ASSUME NEW d \in Devices, device'[d].status # "absent"
               PROVE  ViewOf(changes', d, Current(d)') = ActiveOn(d)'
    OBVIOUS
  <2>1. CASE device[d].status # "absent"
    BY <1>1, <1>4, <2>1 DEF LogInv
  <2>2. CASE device[d].status = "absent"
    BY <1>3, <2>2
  <2> QED
    BY <2>1, <2>2
<1>6. LogInv'
  BY <1>1, <1>2, <1>5 DEF LogInv
<1>7. CopyInv'
  <2>1. \A d \in Devices : copy'[d].at # -1 =>
          /\ device'[d].status # "absent" /\ copy'[d].at <= Current(d)'
          /\ copy'[d].held = ViewOf(changes', d, copy'[d].at)
    BY <1>1 DEF CopyInv
  <2>2. \A d \in Devices : reply'[d].kind \in {"snapshot", "delta"} =>
          /\ device'[d].status # "absent" /\ reply'[d].at \in Nat /\ reply'[d].at <= Current(d)'
    BY <1>1 DEF CopyInv
  <2>3. writer'.op = "sync" => device'[writer'.device].status # "absent"
    OBVIOUS
  <2> QED
    BY <2>1, <2>2, <2>3 DEF CopyInv
<1> QED
  BY <1>6, <1>7

\* One schedule changes, and the device that loses it is told as well.
LEMMA ScheduleBecomesTells ==
  ASSUME Inv, LogInv, CopyInv, NEW s \in Schedules, NEW new \in ScheduleRow, ScheduleBecomes(s, new),
         writer' = Idle, new.status # "absent",
         new.target \in Devices, device[new.target].status # "absent",
         new.workspace = device[new.target].workspace,
         schedule[s].status # "absent" => schedule[s].workspace = new.workspace
  PROVE  LogInv' /\ CopyInv'
<1> DEFINE w == new.workspace
           k == revision[w] + 1
           old == schedule[s].target
           row == [new EXCEPT !.revision = k]
           up == Upsert(s, new.target, k, new.status)
           down == Removal(s, old, k)
           added == {up} \cup (IF old \notin {None, new.target} THEN {down} ELSE {})
<1>1. w \in Workspaces /\ revision[w] \in Nat /\ k \in Nat /\ revision[w] < k
  BY CurrentIsNat DEF Current
<1>2. schedule' = [schedule EXCEPT ![s] = row] /\ schedule \in [Schedules -> ScheduleRow]
  BY DEF ScheduleBecomes, Inv, TypeOK
<1>3. row.target = new.target /\ row.status = new.status
  BY <1>1, RevisedRow
<1>4. /\ up \in Change /\ up.schedule = s /\ up.device = new.target /\ up.revision = k
      /\ up.op = "upsert" /\ (up.enabled <=> new.status = "active")
  BY <1>1 DEF Upsert, Change
<1>5. old \in Devices \cup {None} /\ (schedule[s].status # "absent" => old \in Devices)
  BY DEF Inv, TypeOK, Based, ScheduleRow
<1>6. old \notin {None, new.target} =>
        /\ down \in Change /\ down.schedule = s /\ down.device = old /\ down.revision = k
        /\ down.op = "remove"
  BY <1>1, <1>5 DEF Removal, Change
<1>7. schedule[s].status = "absent" => old = None
  BY DEF LogInv
<1> HIDE DEF row, up, down
<1>8. changes' = changes \cup added /\ revision' = [revision EXCEPT ![w] = @ + 1]
      /\ UNCHANGED <<device, copy, reply>>
  BY DEF ScheduleBecomes, up, down, registry, answers
<1>9. added \in SUBSET Change /\ \A c \in added :
        /\ c.schedule = s /\ c.device \in {new.target, old} \cap Devices /\ c.revision = k
        /\ c = up \/ (c = down /\ old \notin {None, new.target})
  BY <1>4, <1>5, <1>6
<1>10. \A c \in added : /\ device[c.device].status # "absent" /\ device[c.device].workspace = w
                        /\ revision[w] < c.revision /\ c.revision <= revision[w] + 1
  <2>1. old # None => device[old].status # "absent" /\ device[old].workspace = w
    BY <1>5, <1>7 DEF Inv, Based, Usable, DeviceObeysItsOwner
  <2>2. None \notin Devices
    BY ControlPlaneAssumption
  <2>3. \A c \in added : c.device = new.target \/ (c.device = old /\ old # None)
    BY <1>9, <2>2
  <2>4. \A c \in added : revision[w] < c.revision /\ c.revision <= revision[w] + 1
    BY <1>1, <1>9
  <2> QED
    BY <2>1, <2>3, <2>4
<1>11. \A c, e \in added : SamePair(c, e) => c = e
  BY <1>4, <1>6, <1>9 DEF SamePair
<1>12. \A d \in Devices, t \in Schedules : t # s => (t \in ActiveOn(d)' <=> t \in ActiveOn(d))
  BY <1>2 DEF ActiveOn
<1>13. \A d \in Devices : s \in ActiveOn(d)' <=> d = new.target /\ new.status = "active"
  BY <1>2, <1>3 DEF ActiveOn
<1>14. \A c \in added : c.schedule \in ActiveOn(c.device)' <=> c.op = "upsert" /\ c.enabled
  BY <1>4, <1>6, <1>9, <1>13
<1>15. \A d \in Devices, t \in Schedules : (\A c \in added : c.device = d => c.schedule # t) =>
         (t \in ActiveOn(d)' <=> t \in ActiveOn(d))
  <2> SUFFICES ASSUME NEW d \in Devices, \A c \in added : c.device = d => c.schedule # s
               PROVE  s \in ActiveOn(d)' <=> s \in ActiveOn(d)
    BY <1>12
  <2>1. d # new.target
    BY <1>4
  <2>2. d # old \/ old = None
    BY <1>6, <2>1
  <2>3. None \notin Devices
    BY ControlPlaneAssumption
  <2> QED
    BY <1>13, <2>1, <2>2, <2>3 DEF ActiveOn
<1>16. \A t \in Schedules : schedule'[t].status = "absent" => schedule'[t].target = None
  <2>1. row.status # "absent"
    BY <1>3
  <2> QED
    BY <1>2, <2>1 DEF LogInv
<1> HIDE DEF added, w, k
<1> QED
  BY <1>1, <1>8, <1>9, <1>10, <1>11, <1>14, <1>15, <1>16, LogGrows DEF Idle

\* Every schedule that is disabled is removed from its device.
LEMMA DisableAllTells ==
  ASSUME Inv, LogInv, CopyInv, NEW S \in SUBSET Schedules, NEW w \in Workspaces, DisableAll(S, w),
         \A s \in S : schedule[s].status # "absent" /\ schedule[s].workspace = w,
         UNCHANGED <<device, copy, reply>>, writer'.op # "create",
         writer'.op = "sync" => writer.op = "sync" /\ writer'.device = writer.device
  PROVE  LogInv' /\ CopyInv'
<1>1. Cardinality(S) \in Nat /\ revision[w] \in Nat
  BY FS_Subset, FS_CardinalityType, ControlPlaneAssumption DEF Inv, TypeOK
<1>2. PICK order \in [S -> 1 .. Cardinality(S)] :
        /\ revision' = [revision EXCEPT ![w] = @ + Cardinality(S)]
        /\ changes' = changes \cup {Removal(s, schedule[s].target, revision[w] + order[s]) : s \in S}
  BY DEF DisableAll
<1>3. \A s \in Schedules : schedule'[s].target = schedule[s].target
        /\ schedule'[s].status = IF s \in S THEN "disabled" ELSE schedule[s].status
  BY DisableAllKeeps
<1> DEFINE n == Cardinality(S)
           of(s) == Removal(s, schedule[s].target, revision[w] + order[s])
           added == {of(s) : s \in S}
<1>4. \A s \in S : /\ revision[w] + order[s] \in Nat
                   /\ revision[w] < revision[w] + order[s] /\ revision[w] + order[s] <= revision[w] + n
  <2> SUFFICES ASSUME NEW s \in S
               PROVE  /\ revision[w] + order[s] \in Nat
                      /\ revision[w] < revision[w] + order[s] /\ revision[w] + order[s] <= revision[w] + n
    OBVIOUS
  <2>1. order[s] \in 1 .. Cardinality(S)
    BY <1>2
  <2> QED
    BY <1>1, <2>1
<1>5. \A s \in S : /\ schedule[s].target \in Devices /\ device[schedule[s].target].status # "absent"
                   /\ device[schedule[s].target].workspace = w
  BY DEF Inv, Based, Usable, DeviceObeysItsOwner
<1>6. \A s \in S : /\ of(s) \in Change /\ of(s).schedule = s /\ of(s).device = schedule[s].target
                   /\ of(s).op = "remove" /\ of(s).revision = revision[w] + order[s]
  BY <1>4, <1>5 DEF Removal, Change
<1> HIDE DEF of
<1>7. added \in SUBSET Change /\ \A c \in added : c.schedule \in S /\ c = of(c.schedule)
  BY <1>6
<1>8. \A c \in added : /\ device[c.device].status # "absent" /\ device[c.device].workspace = w
                       /\ revision[w] < c.revision /\ c.revision <= revision[w] + n
  BY <1>4, <1>5, <1>6
<1>9. \A c, e \in added : SamePair(c, e) => c = e
  BY <1>7 DEF SamePair
<1>10. \A c \in added : c.schedule \in ActiveOn(c.device)' <=> c.op = "upsert" /\ c.enabled
  <2>1. \A c \in added : c.op = "remove" /\ schedule'[c.schedule].status = "disabled"
    BY <1>3, <1>6
  <2> QED
    BY <2>1 DEF ActiveOn
<1>11. \A d \in Devices, t \in Schedules : (\A c \in added : c.device = d => c.schedule # t) =>
         (t \in ActiveOn(d)' <=> t \in ActiveOn(d))
  <2> SUFFICES ASSUME NEW d \in Devices, NEW t \in Schedules,
                      \A c \in added : c.device = d => c.schedule # t
               PROVE  t \in ActiveOn(d)' <=> t \in ActiveOn(d)
    OBVIOUS
  <2>1. t \in S => schedule[t].target # d
    BY <1>6
  <2> QED
    BY <1>3, <2>1 DEF ActiveOn
<1>12. \A t \in Schedules : schedule'[t].status = "absent" => schedule'[t].target = None
  BY <1>3 DEF LogInv
<1>13. changes' = changes \cup added
  BY <1>2 DEF of
<1> HIDE DEF added, n
<1>14. n \in Nat /\ revision' = [revision EXCEPT ![w] = @ + n]
  BY <1>1, <1>2 DEF n
<1> QED
  BY <1>7, <1>8, <1>9, <1>10, <1>11, <1>12, <1>13, <1>14, LogGrows

\* The schedules that lose their grant belong to the workspace of the device.
LEMMA RevokeGrantTells ==
  ASSUME Inv, LogInv, CopyInv, NEW u \in Users, NEW d \in Devices, NEW r \in Releases,
         RevokePermissionGrant(u, d, r)
  PROVE  LogInv' /\ CopyInv'
<1> DEFINE S == ScheduledFor(d, r)
<1>1. device[d].workspace \in Workspaces /\ S \in SUBSET Schedules /\ DisableAll(S, device[d].workspace)
  BY DEF RevokePermissionGrant, RequireDeviceOwnerOrWorkspaceAdministrator, Inv, TypeOK, DeviceRow,
         ScheduledFor
<1>2. \A s \in S : schedule[s].status # "absent" /\ schedule[s].workspace = device[d].workspace
  BY DEF ScheduledFor, Inv, DeviceObeysItsOwner
<1>3. UNCHANGED <<device, copy, reply>> /\ writer' = Idle
  BY DEF RevokePermissionGrant, Turn, registry, answers
<1> HIDE DEF S
<1> QED
  BY <1>1, <1>2, <1>3, DisableAllTells DEF Idle

\* A synchronisation in the queue keeps its device.
LEMMA SyncFacts ==
  ASSUME Inv, writer.op = "sync"
  PROVE  /\ writer.device \in Devices /\ writer.refresh \in BOOLEAN /\ writer.todo \subseteq Schedules
         /\ \A s : [writer EXCEPT !.todo = @ \ {s}].op = "sync"
         /\ \A s : [writer EXCEPT !.todo = @ \ {s}].device = writer.device
BY DEF Inv, TypeOK, Operation, Idle

\* So does the schedule that a synchronisation finds without a grant.
LEMMA CheckScheduleTells ==
  ASSUME Inv, LogInv, CopyInv, NEW s \in Schedules, CheckSchedule(s)
  PROVE  LogInv' /\ CopyInv'
<1>1. /\ writer.op = "sync" /\ s \in writer.todo
      /\ writer'.op = "sync" /\ writer'.device = writer.device /\ writer.device \in Devices
      /\ UNCHANGED <<device, copy, reply>>
  BY SyncFacts DEF CheckSchedule, registry, answers
<1>2. CASE UNCHANGED plans
  BY <1>1, <1>2, CopiesStay DEF plans, CopyInv
<1>3. CASE DisableAll({s}, schedule[s].workspace)
  <2>1. schedule[s].status # "absent" /\ schedule[s].workspace \in Workspaces
    BY <1>1 DEF Inv, Pending, DeviceObeysItsOwner, Based, Usable, Linked
  <2> DEFINE S == {s}
  <2>2. S \in SUBSET Schedules /\ \A t \in S : t = s
    OBVIOUS
  <2>3. DisableAll(S, schedule[s].workspace)
    BY <1>3
  <2> HIDE DEF S
  <2> QED
    BY <1>1, <2>1, <2>2, <2>3, DisableAllTells
<1> QED
  BY <1>2, <1>3 DEF CheckSchedule

\* The operations on one schedule.
LEMMA ScheduleStepsTell ==
  ASSUME Inv, LogInv, CopyInv,
         ScheduleCreated \/ ScheduleUpdated \/ ScheduleResumed
           \/ \E u \in Users, s \in Schedules : PauseSchedule(u, s)
  PROVE  LogInv' /\ CopyInv'
<1>1. CASE ScheduleCreated
  <2> DEFINE new == [status |-> "active", workspace |-> device[writer.device].workspace,
                     release |-> writer.release, target |-> writer.device, revision |-> 0,
                     createdBy |-> writer.user]
  <2>1. /\ writer.op = "create" /\ writer.op \in Grantees /\ writer' = Idle
        /\ ScheduleBecomes(writer.schedule, new)
    BY <1>1 DEF ScheduleCreated, Grantees
  <2>2. /\ writer.schedule \in Schedules /\ writer.user \in Users
        /\ schedule[writer.schedule].status = "absent"
    BY <2>1, OperationFields DEF Inv, TypeOK, CopyInv
  <2>3. /\ new \in ScheduleRow /\ new.status = "active" /\ new.target = writer.device
        /\ new.workspace = device[writer.device].workspace
    BY <2>1, <2>2, PendingFacts DEF ScheduleRow
  <2> HIDE DEF new
  <2> QED
    BY <2>1, <2>2, <2>3, PendingFacts, ScheduleBecomesTells DEF Usable
<1>2. CASE ScheduleUpdated
  <2> DEFINE s == writer.schedule
             new == [schedule[s] EXCEPT !.target = writer.device, !.release = writer.release]
  <2>1. writer.op = "update" /\ writer.op \in Grantees /\ writer' = Idle /\ ScheduleBecomes(s, new)
    BY <1>2 DEF ScheduleUpdated, Grantees
  <2>2. /\ s \in Schedules /\ schedule[s] \in ScheduleRow /\ schedule[s].status # "absent"
        /\ schedule[s].workspace = device[writer.device].workspace
    BY <2>1, OperationFields DEF Inv, TypeOK, Pending
  <2>3. /\ new \in ScheduleRow /\ new.status = schedule[s].status /\ new.target = writer.device
        /\ new.workspace = schedule[s].workspace
    BY <2>1, <2>2, PendingFacts DEF ScheduleRow
  <2> HIDE DEF new, s
  <2> QED
    BY <2>1, <2>2, <2>3, PendingFacts, ScheduleBecomesTells DEF Usable
<1>3. ASSUME NEW s \in Schedules, schedule[s].status # "absent", NEW status \in {"active", "paused"},
             ScheduleBecomes(s, [schedule[s] EXCEPT !.status = status]), writer' = Idle
      PROVE  LogInv' /\ CopyInv'
  <2> DEFINE new == [schedule[s] EXCEPT !.status = status]
  <2>1. /\ schedule[s] \in ScheduleRow /\ schedule[s].target \in Devices
        /\ device[schedule[s].target].status # "absent"
        /\ schedule[s].workspace = device[schedule[s].target].workspace
    BY <1>3 DEF Inv, TypeOK, Based, Usable, DeviceObeysItsOwner
  <2>2. /\ new \in ScheduleRow /\ new.status = status /\ new.target = schedule[s].target
        /\ new.workspace = schedule[s].workspace
    BY <2>1 DEF ScheduleRow
  <2>3. ScheduleBecomes(s, new)
    BY <1>3
  <2> HIDE DEF new
  <2> QED
    BY <1>3, <2>1, <2>2, <2>3, ScheduleBecomesTells
<1>4. CASE ScheduleResumed
  <2>1. /\ writer.op = "resume" /\ writer.op \in Grantees /\ writer' = Idle
        /\ ScheduleBecomes(writer.schedule, [schedule[writer.schedule] EXCEPT !.status = "active"])
    BY <1>4 DEF ScheduleResumed, Grantees
  <2>2. writer.schedule \in Schedules /\ schedule[writer.schedule].status # "absent"
    BY <2>1, OperationFields DEF Inv, TypeOK, Pending
  <2> QED
    BY <1>3, <2>1, <2>2
<1>5. ASSUME NEW u \in Users, NEW s \in Schedules, PauseSchedule(u, s)
      PROVE  LogInv' /\ CopyInv'
  <2>1. /\ schedule[s].status # "absent" /\ writer' = Idle
        /\ ScheduleBecomes(s, [schedule[s] EXCEPT !.status = "paused"])
    BY <1>5 DEF PauseSchedule, Turn
  <2> QED
    BY <1>3, <2>1
<1> QED
  BY <1>1, <1>2, <1>4, <1>5

\* An answer is put together from the table or from the log, and applied.
LEMMA AnswersTell ==
  ASSUME Inv, LogInv, CopyInv
  PROVE  /\ SchedulesListed => LogInv' /\ CopyInv'
         /\ \A d \in Devices :
              /\ SyncSchedules(d) \/ RefreshLeases(d) => LogInv' /\ CopyInv'
              /\ SchedulesAnswered(d) \/ SchedulesRefused(d) \/ SchedulesLost(d) => LogInv' /\ CopyInv'
              /\ \A s \in Schedules : AuthorizeScheduleRecord(d, s) => LogInv' /\ CopyInv'
<1>1. ASSUME UNCHANGED tables PROVE LogInv'
  BY <1>1 DEF LogInv, tables, registry, plans, Current, ActiveOn
<1>2. ASSUME SchedulesListed PROVE LogInv' /\ CopyInv'
  <2> DEFINE d == writer.device
             R == Current(d)
  <2>1. /\ UNCHANGED <<tables, copy>> /\ writer' = Idle /\ writer.op = "sync"
        /\ reply' = [reply EXCEPT ![d] =
             IF writer.refresh \/ copy[d].at = -1 THEN Snapshot(d)
             ELSE IF copy[d].at = R THEN [kind |-> "refresh"]
             ELSE Delta(d, copy[d].at)]
    BY <1>2 DEF SchedulesListed, Current
  <2>2. d \in Devices /\ device[d].status # "absent" /\ R \in Nat
    BY <2>1, SyncFacts, CurrentIsNat DEF CopyInv
  <2>3. /\ Snapshot(d).kind = "snapshot" /\ Snapshot(d).at = R
        /\ On(Snapshot(d)) = ViewOf(changes, d, R)
    <3>1. On(Snapshot(d)) = ActiveOn(d)
      <4> DEFINE of(s) == Upsert(s, d, schedule[s].revision, schedule[s].status)
                 S == {s \in Schedules : schedule[s].target = d /\ schedule[s].status \in {"active", "paused"}}
      <4>1. Snapshot(d).upserts = {of(s) : s \in S}
        BY DEF Snapshot
      <4>2. \A s \in S : of(s).schedule = s /\ (of(s).enabled <=> schedule[s].status = "active")
        BY DEF Upsert
      <4> HIDE DEF of
      <4>3. On(Snapshot(d)) = {s \in S : schedule[s].status = "active"}
        BY <4>1, <4>2 DEF On
      <4> QED
        BY <4>3 DEF ActiveOn
    <3> QED
      BY <2>2, <3>1 DEF Snapshot, Current, LogInv
  <2>4. ASSUME copy[d].at # -1
        PROVE  /\ Delta(d, copy[d].at).kind = "delta" /\ Delta(d, copy[d].at).at = R
               /\ (copy[d].held \ Touched(Delta(d, copy[d].at))) \cup On(Delta(d, copy[d].at))
                    = ViewOf(changes, d, R)
    <3>1. /\ copy[d].at \in Nat /\ copy[d].at <= R
          /\ copy[d].held = ViewOf(changes, d, copy[d].at)
      BY <2>2, <2>4 DEF CopyInv
    <3>2. TypeOK
      BY DEF Inv
    <3> HIDE DEF d
    <3> QED
      BY <2>2, <3>1, <3>2, DeltaView DEF Delta, Current
  <2>5. \A e \in Devices : e # d => reply'[e] = reply[e]
    BY <2>1
  <2>6. DOMAIN reply' = Devices
    BY <2>1 DEF CopyInv
  <2>7. reply'[d] = Snapshot(d) \/ reply'[d] = [kind |-> "refresh"]
        \/ (copy[d].at # -1 /\ reply'[d] = Delta(d, copy[d].at))
    BY <2>1, <2>2 DEF CopyInv
  <2>8. UNCHANGED <<device, revision, changes, copy>>
    BY <2>1 DEF tables, registry, plans
  <2>9. reply'[d].kind \in {"snapshot", "delta"} =>
          /\ reply'[d].at = R
          /\ reply'[d].kind = "snapshot" => On(reply'[d]) = ViewOf(changes, d, R)
          /\ reply'[d].kind = "delta" =>
               /\ copy[d].at # -1
               /\ (copy[d].held \ Touched(reply'[d])) \cup On(reply'[d]) = ViewOf(changes, d, R)
    BY <2>3, <2>4, <2>7
  <2> HIDE DEF d, R
  <2>10. CopyInv'
    BY <2>1, <2>2, <2>5, <2>6, <2>8, <2>9 DEF CopyInv, Idle, Current, R
  <2> QED
    BY <1>1, <2>1, <2>10
<1>3. ASSUME NEW d \in Devices, NEW refresh \in BOOLEAN, StartSync(d, refresh)
      PROVE  LogInv' /\ CopyInv'
  <2>1. /\ UNCHANGED <<tables, copy>> /\ reply' = [reply EXCEPT ![d] = [kind |-> "waiting"]]
        /\ writer'.op = "sync" /\ writer'.device = d /\ device[d].status # "absent"
    BY <1>3 DEF StartSync, ActiveDevice
  <2>2. CopyInv'
    BY <2>1 DEF CopyInv, tables, registry, plans, Current
  <2> QED
    BY <1>1, <2>1, <2>2
<1>4. ASSUME NEW d \in Devices, SchedulesRefused(d) \/ SchedulesLost(d)
      PROVE  LogInv' /\ CopyInv'
  <2>1. UNCHANGED <<tables, copy, writer>> /\ reply' = [reply EXCEPT ![d] = Quiet]
    BY <1>4 DEF SchedulesRefused, SchedulesLost
  <2>2. CopyInv'
    BY <2>1 DEF CopyInv, tables, registry, plans, Current, Quiet
  <2> QED
    BY <1>1, <2>1, <2>2
<1>5. ASSUME NEW d \in Devices, NEW s \in Schedules, AuthorizeScheduleRecord(d, s)
      PROVE  LogInv' /\ CopyInv'
  <2>1. UNCHANGED <<tables, copy, writer>> /\ reply' = [reply EXCEPT ![d].todo = @ \ {s}]
    BY <1>5 DEF AuthorizeScheduleRecord
  <2>2. /\ reply'[d].kind = reply[d].kind /\ reply'[d].at = reply[d].at
        /\ On(reply'[d]) = On(reply[d]) /\ Touched(reply'[d]) = Touched(reply[d])
    BY <2>1 DEF CopyInv, On, Touched
  <2>3. DOMAIN reply' = Devices /\ \A e \in Devices : e # d => reply'[e] = reply[e]
    BY <2>1 DEF CopyInv
  <2>4. UNCHANGED <<device, revision, changes, schedule, copy, writer>>
    BY <2>1 DEF tables, registry, plans
  <2>5. ASSUME NEW e \in Devices, reply'[e].kind \in {"snapshot", "delta"}
        PROVE  /\ device[e].status # "absent" /\ reply'[e].at \in Nat /\ reply'[e].at <= Current(e)
               /\ reply'[e].kind = "snapshot" => On(reply'[e]) = ViewOf(changes, e, reply'[e].at)
               /\ reply'[e].kind = "delta" =>
                    /\ copy[e].at # -1
                    /\ (copy[e].held \ Touched(reply'[e])) \cup On(reply'[e]) = ViewOf(changes, e, reply'[e].at)
    <3>1. /\ reply'[e].kind = reply[e].kind /\ reply'[e].at = reply[e].at
          /\ On(reply'[e]) = On(reply[e]) /\ Touched(reply'[e]) = Touched(reply[e])
      BY <2>2, <2>3
    <3> QED
      BY <2>5, <3>1 DEF CopyInv
  <2>6. CopyInv'
    BY <2>3, <2>4, <2>5 DEF CopyInv, Current
  <2> QED
    BY <1>1, <2>1, <2>6
<1>6. ASSUME NEW d \in Devices, SchedulesAnswered(d) PROVE LogInv' /\ CopyInv'
  <2> DEFINE held == IF reply[d].kind = "snapshot" THEN On(reply[d])
                     ELSE (copy[d].held \ Touched(reply[d])) \cup On(reply[d])
  <2>1. /\ UNCHANGED <<tables, writer>> /\ reply' = [reply EXCEPT ![d] = Quiet]
        /\ reply[d].kind \in {"snapshot", "delta"}
        /\ copy' = [copy EXCEPT ![d] = [at |-> reply[d].at, held |-> held]]
    BY <1>6 DEF SchedulesAnswered, On, Touched
  <2>2. /\ device[d].status # "absent" /\ reply[d].at \in Nat /\ reply[d].at <= Current(d)
        /\ held = ViewOf(changes, d, reply[d].at)
    BY <2>1 DEF CopyInv
  <2>3. held \subseteq Schedules
    BY <2>2 DEF ViewOf
  <2> HIDE DEF held
  <2>4. copy' \in [Devices -> [at : Nat \cup {-1}, held : SUBSET Schedules]]
    BY <2>1, <2>2, <2>3 DEF CopyInv
  <2>5. /\ copy'[d].at = reply[d].at /\ copy'[d].held = held
        /\ reply'[d] = Quiet /\ DOMAIN reply' = Devices
        /\ \A e \in Devices : e # d => copy'[e] = copy[e] /\ reply'[e] = reply[e]
    BY <2>1 DEF CopyInv
  <2>6. UNCHANGED <<device, revision, changes, schedule, writer>>
    BY <2>1 DEF tables, registry, plans
  <2>7. CopyInv'
    BY SMTT(45), <2>2, <2>4, <2>5, <2>6 DEF CopyInv, Current, Quiet
  <2> QED
    BY <1>1, <2>1, <2>7
<1> QED
  BY <1>2, <1>3, <1>4, <1>5, <1>6 DEF SyncSchedules, RefreshLeases

-----------------------------------------------------------------------------
(* What devices were told of the requests for installations.               *)

\* Whatever leaves requests and revisions alone.
LEMMA SeenStays ==
  ASSUME SeenInv, UNCHANGED <<device, installation, seen, index>>
  PROVE  SeenInv'
BY DEF SeenInv, RequestsAreSeen

\* Devices are registered and revoked, and requests are settled.
LEMMA SeenThrough ==
  ASSUME Inv, SeenInv, UNCHANGED <<seen, index>>,
         \A d \in Devices : device'[d].revision = device[d].revision
                            /\ (device'[d].status = "absent" => device[d].status = "absent"),
         \A d \in Devices, r \in Releases :
           installation'[d][r] = "requested" => installation[d][r] = "requested"
  PROVE  SeenInv'
BY DEF SeenInv, RequestsAreSeen

\* A request moves the revision of its device, and no other change makes one.
LEMMA SeenSteps ==
  ASSUME Inv, SeenInv
  PROVE  /\ \A d \in Devices : \A u \in Users :
              (\E w \in Workspaces : RegisterDevice(u, w, d)) \/ RevokeDevice(u, d) => SeenInv'
         /\ InstallationInstalled => SeenInv'
         /\ \A d \in Devices, r \in Releases, to \in {"downloading", "failed", "removed"} :
              UpdateInstallationStatus(d, r, to) => SeenInv'
         /\ InstallationRequested => SeenInv'
<1> USE DEF Inv, TypeOK
<1>1. ASSUME NEW u \in Users, NEW w \in Workspaces, NEW d \in Devices, RegisterDevice(u, w, d)
      PROVE  SeenInv'
  BY <1>1, SeenThrough DEF RegisterDevice, answers, SeenInv
<1>2. ASSUME NEW u \in Users, NEW d \in Devices, RevokeDevice(u, d) PROVE SeenInv'
  <2>1. UNCHANGED <<seen, index, installation>> /\ device' = [device EXCEPT ![d].status = "revoked"]
    BY <1>2 DEF RevokeDevice, answers
  <2>2. \A e \in Devices : device'[e].revision = device[e].revision
          /\ (device'[e].status = "absent" => device[e].status = "absent")
    BY <2>1 DEF DeviceRow
  <2> QED
    BY <2>1, <2>2, SeenThrough
<1>3. ASSUME InstallationInstalled PROVE SeenInv'
  <2>1. UNCHANGED <<seen, index, device>>
        /\ installation' = [installation EXCEPT ![writer.device][writer.release] = "installed"]
    BY <1>3 DEF InstallationInstalled, answers, registry
  <2>2. \A d \in Devices, r \in Releases :
          installation'[d][r] = "requested" => installation[d][r] = "requested"
    BY <2>1
  <2> QED
    BY <2>1, <2>2, SeenThrough
<1>4. ASSUME NEW d \in Devices, NEW r \in Releases, NEW to \in {"downloading", "failed", "removed"},
             UpdateInstallationStatus(d, r, to)
      PROVE  SeenInv'
  <2>1. UNCHANGED <<seen, index, device>> /\ installation' = [installation EXCEPT ![d][r] = to]
    BY <1>4 DEF UpdateInstallationStatus, answers, registry
  <2>2. \A e \in Devices, q \in Releases :
          installation'[e][q] = "requested" => installation[e][q] = "requested"
    BY <2>1
  <2> QED
    BY <2>1, <2>2, SeenThrough
<1>5. ASSUME InstallationRequested PROVE SeenInv'
  <2> DEFINE d == writer.device  r == writer.release
  <2>1. /\ d \in Devices /\ r \in Releases /\ device[d].status # "absent"
        /\ installation' = [installation EXCEPT ![d][r] = "requested"]
        /\ device' = [device EXCEPT ![d].revision = @ + 1]
        /\ seen' = [seen EXCEPT ![d].requests = @ \ {r}, ![d].excused = @ \ {r}]
        /\ index' = IF index[d].kind = "list" THEN [index EXCEPT ![d].excused = @ \cup {r}] ELSE index
    BY <1>5, PendingFacts DEF InstallationRequested, Grantees, Usable
  <2> HIDE DEF d, r
  <2>2. /\ seen' \in [Devices -> [at : Nat, requests : SUBSET Releases, excused : SUBSET Releases]]
        /\ \A e \in Devices : seen'[e].at = seen[e].at /\ (e # d => seen'[e] = seen[e])
    <3> DEFINE x == seen[d]  y == [x EXCEPT !.requests = @ \ {r}, !.excused = @ \ {r}]
               Row == [at : Nat, requests : SUBSET Releases, excused : SUBSET Releases]
    <3>1. seen \in [Devices -> Row] /\ x \in Row
      BY <2>1 DEF SeenInv
    <3>2. y \in Row /\ y.at = x.at
      BY <3>1
    <3>3. seen' = [seen EXCEPT ![d] = y]
      BY <2>1, <3>1
    <3> HIDE DEF y, Row
    <3> QED
      BY ZenonT(60), <2>1, <3>1, <3>2, <3>3 DEF Row
  <2>3. /\ \A e \in Devices : e # d => device'[e] = device[e]
        /\ device'[d].revision = device[d].revision + 1 /\ device'[d].status = device[d].status
        /\ device[d].revision \in Nat
    BY <2>1 DEF DeviceRow
  <2>4. /\ index' \in [Devices -> {Quiet} \cup [kind : {"list"}, authorized : SUBSET Releases,
                                                excused : SUBSET Releases, todo : SUBSET Releases]]
        /\ \A e \in Devices : e # d => index'[e] = index[e]
        /\ index'[d].kind = "list" =>
             /\ index[d].kind = "list"
             /\ index'[d].todo = index[d].todo /\ index'[d].authorized = index[d].authorized
             /\ index'[d].excused = index[d].excused \cup {r}
    <3>1. CASE index[d].kind = "list"
      <4>1. index[d] \in [kind : {"list"}, authorized : SUBSET Releases,
                          excused : SUBSET Releases, todo : SUBSET Releases]
        BY <2>1, <3>1 DEF SeenInv, Quiet
      <4>2. index' = [index EXCEPT ![d].excused = @ \cup {r}]
        BY <2>1, <3>1
      <4> QED
        <5> DEFINE x == index[d]  y == [x EXCEPT !.excused = @ \cup {r}]
                   Row == [kind : {"list"}, authorized : SUBSET Releases, excused : SUBSET Releases,
                           todo : SUBSET Releases]
        <5>1. index \in [Devices -> {Quiet} \cup Row] /\ x \in Row
          BY <4>1 DEF SeenInv
        <5>2. y \in Row /\ y.todo = x.todo /\ y.authorized = x.authorized /\ y.excused = x.excused \cup {r}
          BY <2>1, <5>1
        <5>3. index' = [index EXCEPT ![d] = y]
          BY <2>1, <4>2, <5>1
        <5> HIDE DEF y, Row
        <5> QED
          BY ZenonT(60), <2>1, <3>1, <5>1, <5>2, <5>3 DEF Row
    <3>2. CASE index[d].kind # "list"
      BY <2>1, <3>2 DEF SeenInv
    <3> QED
      BY <3>1, <3>2
  <2>5. \A e \in Devices, q \in Releases : e # d \/ q # r => installation'[e][q] = installation[e][q]
    BY <2>1
  <2>6. \A e \in Devices : seen[e].at \in Nat /\ seen[e].at <= device[e].revision
    BY DEF SeenInv
  <2>7. \A e \in Devices : seen'[e].at <= device'[e].revision
    <3> SUFFICES ASSUME NEW e \in Devices PROVE seen'[e].at <= device'[e].revision
      OBVIOUS
    <3>1. seen'[e].at = seen[e].at /\ seen[e].at \in Nat /\ seen[e].at <= device[e].revision
      BY <2>2, <2>6
    <3>2. CASE e = d
      BY <2>3, <3>1, <3>2
    <3>3. CASE e # d
      BY <2>3, <3>1, <3>3
    <3> QED
      BY <3>2, <3>3
  <2>8. seen'[d].at # device'[d].revision
    BY <2>1, <2>2, <2>3, <2>6
  <2>9. \A e \in Devices : device'[e].status = "absent" => device'[e].revision = 0
    BY <2>1, <2>3 DEF SeenInv
  <2>10. ASSUME NEW e \in Devices, NEW q \in Releases, index'[e].kind = "list",
                installation'[e][q] = "requested"
         PROVE  q \in index'[e].todo \cup index'[e].authorized \cup index'[e].excused
    BY <2>1, <2>4, <2>5, <2>10 DEF SeenInv
  <2>11. RequestsAreSeen'
    <3> SUFFICES ASSUME NEW e \in Devices, NEW q \in Releases, installation'[e][q] = "requested",
                        seen'[e].at = device'[e].revision
                 PROVE  q \in seen'[e].requests \cup seen'[e].excused
      BY DEF RequestsAreSeen
    <3>1. e # d
      BY <2>8
    <3> QED
      BY <2>2, <2>3, <2>5, <3>1 DEF SeenInv, RequestsAreSeen
  <2> QED
    BY <2>2, <2>4, <2>7, <2>9, <2>10, <2>11 DEF SeenInv
<1> QED
  BY <1>1, <1>2, <1>3, <1>4, <1>5

\* The answer to a synchronisation of installations.
LEMMA SeenAnswers ==
  ASSUME Inv, SeenInv, NEW d \in Devices
  PROVE  /\ SyncInstallations(d) => SeenInv'
         /\ \A r \in Releases : AuthorizeInstallation(d, r) => SeenInv'
         /\ InstallationsAnswered(d) => SeenInv'
         /\ InstallationsRefused(d) \/ InstallationsLost(d) => SeenInv'
<1> DEFINE Listing == [kind : {"list"}, authorized : SUBSET Releases, excused : SUBSET Releases,
                       todo : SUBSET Releases]
<1>1. ASSUME NEW new \in {Quiet} \cup Listing, index' = [index EXCEPT ![d] = new],
             UNCHANGED <<device, installation, seen>>,
             \A r \in Releases : new.kind = "list" /\ installation[d][r] = "requested" =>
               r \in new.todo \cup new.authorized \cup new.excused
      PROVE  SeenInv'
  BY <1>1 DEF SeenInv, RequestsAreSeen
<1>2. ASSUME SyncInstallations(d) PROVE SeenInv'
  <2> DEFINE new == [kind |-> "list", authorized |-> {}, excused |-> {},
        todo |-> {r \in Releases : installation[d][r] \in {"requested", "downloading", "installed"}}]
  <2>1. index' = [index EXCEPT ![d] = new] /\ UNCHANGED <<device, installation, seen>>
    BY <1>2 DEF SyncInstallations, tables, registry
  <2>2. new \in Listing /\ \A r \in Releases : installation[d][r] = "requested" => r \in new.todo
    OBVIOUS
  <2> HIDE DEF new
  <2> QED
    BY <1>1, <2>1, <2>2
<1>3. ASSUME NEW r \in Releases, AuthorizeInstallation(d, r) PROVE SeenInv'
  <2> DEFINE ok == RequireActivePermissionGrant(d, r)
             a == index[d]
             new == [a EXCEPT !.todo = @ \ {r},
                              !.authorized = IF ok THEN @ \cup {r} ELSE @,
                              !.excused = IF ok THEN @ ELSE @ \cup {r}]
  <2>1. a.kind = "list" /\ a \in Listing
    BY <1>3 DEF AuthorizeInstallation, SeenInv, Quiet
  <2>2. index' = [index EXCEPT ![d] = new] /\ UNCHANGED <<device, installation, seen>>
    <3>1. index \in [Devices -> {Quiet} \cup Listing]
      BY DEF SeenInv
    <3> QED
      BY <1>3, <2>1, <3>1 DEF AuthorizeInstallation, tables, registry
  <2>3. new \in Listing /\ a.todo \cup a.authorized \cup a.excused
                             \subseteq new.todo \cup new.authorized \cup new.excused
    BY <2>1
  <2>4. \A q \in Releases : installation[d][q] = "requested" =>
          q \in a.todo \cup a.authorized \cup a.excused
    BY <2>1 DEF SeenInv
  <2> HIDE DEF new, a
  <2> QED
    BY <1>1, <2>2, <2>3, <2>4
<1>4. ASSUME InstallationsRefused(d) \/ InstallationsLost(d) PROVE SeenInv'
  <2>1. index' = [index EXCEPT ![d] = Quiet] /\ UNCHANGED <<device, installation, seen>>
    BY <1>4 DEF InstallationsRefused, InstallationsLost, tables, registry
  <2> QED
    <3>1. Quiet \in {Quiet} \cup Listing /\ Quiet.kind # "list"
      BY DEF Quiet
    <3> HIDE DEF Listing
    <3> QED
      BY <1>1, <2>1, <3>1
<1>5. ASSUME InstallationsAnswered(d) PROVE SeenInv'
  <2>1. /\ index[d].kind = "list" /\ index[d].todo = {}
        /\ seen' = [seen EXCEPT ![d] =
             [at |-> device[d].revision, requests |-> index[d].authorized, excused |-> index[d].excused]]
        /\ index' = [index EXCEPT ![d] = Quiet]
        /\ UNCHANGED <<device, installation>>
    BY <1>5 DEF InstallationsAnswered, tables, registry
  <2>2. index[d] \in Listing /\ device[d].revision \in Nat
    BY <2>1 DEF SeenInv, Quiet, Inv, TypeOK, DeviceRow
  <2>3. \A r \in Releases : installation[d][r] = "requested" => r \in index[d].authorized \cup index[d].excused
    BY SMTT(45), <2>1 DEF SeenInv
  <2> QED
    BY <2>1, <2>2, <2>3 DEF SeenInv, RequestsAreSeen, Quiet
<1> QED
  BY <1>2, <1>3, <1>4, <1>5

-----------------------------------------------------------------------------
\* The inductive invariant about the copies and the requests.
Told == LogInv /\ CopyInv /\ SeenInv

\* What leaves the log, the copies and the requests alone.
Elsewhere == UNCHANGED <<device, installation, schedule, revision, changes, answers>>
             /\ writer'.op \notin {"sync", "create"}

\* It keeps what is told.
LEMMA ElsewhereTells ==
  ASSUME Inv, Told, Elsewhere
  PROVE  Told'
<1>1. UNCHANGED <<schedule, revision, changes, copy, reply, device, installation, seen, index>>
  BY SMTT(45) DEF Elsewhere, answers
<1> QED
  BY SMTT(45), <1>1, CopiesStay, SeenStays DEF Told, Elsewhere

\* Nobody has told a new device anything.
LEMMA PreparationTells ==
  ASSUME Inv, Told, Preparation \/ WorkerRoute
  PROVE  Told'
<1>1. ASSUME NEW u \in Users, NEW w \in Workspaces, CreateWorkspace(u, w) PROVE Told'
  BY <1>1, ElsewhereTells DEF CreateWorkspace, Elsewhere, plans, Turn, Idle
<1>2. ASSUME NEW u \in Users, NEW w \in Workspaces, NEW d \in Devices, RegisterDevice(u, w, d) PROVE Told'
  <2>1. UNCHANGED <<schedule, revision, changes, copy, reply>> /\ writer' = Idle
    BY <1>2 DEF RegisterDevice, plans, answers, Turn
  <2>2. \A e \in Devices : device[e].status # "absent" =>
          device'[e].status # "absent" /\ device'[e].workspace = device[e].workspace
    BY <1>2 DEF RegisterDevice, Inv, TypeOK
  <2> QED
    BY <1>2, <2>1, <2>2, CopiesStay, SeenSteps DEF Told, Idle
<1>3. ASSUME NEW u \in Users, NEW w \in Workspaces, NEW a \in Applications, NEW kind \in {"web", "desktop"},
             CreateApplication(u, w, a, kind)
      PROVE  Told'
  BY <1>3, ElsewhereTells DEF CreateApplication, Elsewhere, plans, Turn, Idle
<1>4. ASSUME NEW r \in Releases, NEW new, ReleaseBecomes(r, new) PROVE Told'
  BY <1>4, ElsewhereTells DEF ReleaseBecomes, Elsewhere, plans, Turn, Idle
<1> QED
  BY <1>1, <1>2, <1>3, <1>4 DEF Preparation, WorkerRoute, CreateRelease, CreateArtifact,
     FinalizeArtifact, SubmitRelease, CreateReview, ApplyValidationResult

\* A change that begins only takes the queue.
LEMMA BeginTells ==
  ASSUME Inv, Told, NEW op, Begin(op), op.op # "sync",
         op.op = "create" => schedule[op.schedule].status = "absent"
  PROVE  Told'
<1>1. UNCHANGED <<schedule, revision, changes, copy, reply, device, installation, seen, index>>
      /\ writer' = op
  BY DEF Begin, tables, registry, plans, answers
<1> QED
  BY <1>1, CopiesStay, SeenStays DEF Told

\* What users order.
LEMMA OrdersTell ==
  ASSUME Inv, Told, Orders
  PROVE  Told'
<1>1. ASSUME NEW u \in Users, NEW a \in Applications, NEW r \in Releases, Promote(u, a, r) PROVE Told'
  BY <1>1, ElsewhereTells DEF Promote, Elsewhere, plans, Turn, Idle
<1>2. ASSUME NEW u \in Users, NEW d \in Devices, RevokeDevice(u, d) PROVE Told'
  <2>1. UNCHANGED <<schedule, revision, changes, copy, reply>> /\ writer' = Idle
        /\ device' = [device EXCEPT ![d].status = "revoked"]
    BY <1>2 DEF RevokeDevice, plans, answers, Turn
  <2>2. \A e \in Devices : device[e].status # "absent" =>
          device'[e].status # "absent" /\ device'[e].workspace = device[e].workspace
    BY <2>1 DEF Inv, TypeOK, DeviceRow
  <2> QED
    BY <1>2, <2>1, <2>2, CopiesStay, SeenSteps DEF Told, Idle
<1>3. ASSUME NEW u \in Users, NEW d \in Devices, NEW r \in Releases, ApprovePermissionGrant(u, d, r)
      PROVE  Told'
  BY <1>3, ElsewhereTells DEF ApprovePermissionGrant, Elsewhere, registry, plans, Turn, Idle
<1>4. ASSUME NEW u \in Users, NEW d \in Devices, NEW r \in Releases, RevokePermissionGrant(u, d, r)
      PROVE  Told'
  <2>1. UNCHANGED <<device, installation, seen, index>>
    BY <1>4 DEF RevokePermissionGrant, registry, answers
  <2> QED
    BY <1>4, <2>1, RevokeGrantTells, SeenStays DEF Told
<1>5. ASSUME NEW u \in Users, NEW d \in Devices, NEW r \in Releases, RequestInstallation(u, d, r)
      PROVE  Told'
  BY <1>5, BeginTells DEF RequestInstallation
<1>6. ASSUME NEW u \in Users, NEW d \in Devices, NEW r \in Releases, NEW s \in Schedules,
             CreateSchedule(u, s, d, r) \/ UpdateSchedule(u, s, d, r)
      PROVE  Told'
  BY <1>6, BeginTells DEF CreateSchedule, UpdateSchedule
<1>7. ASSUME NEW u \in Users, NEW d \in Devices, NEW r \in Releases, NEW n \in Runs,
             CreateManualRun(u, n, d, r)
      PROVE  Told'
  BY <1>7, BeginTells DEF CreateManualRun
<1>8. ASSUME NEW u \in Users, NEW s \in Schedules, ResumeSchedule(u, s) PROVE Told'
  BY <1>8, BeginTells DEF ResumeSchedule
<1>9. ASSUME NEW u \in Users, NEW s \in Schedules, PauseSchedule(u, s) PROVE Told'
  <2>1. UNCHANGED <<device, installation, seen, index>>
    BY <1>9 DEF PauseSchedule, ScheduleBecomes, registry, answers
  <2> QED
    BY <1>9, <2>1, ScheduleStepsTell, SeenStays DEF Told
<1>10. ASSUME NEW u \in Users, NEW n \in Runs, CancelRun(u, n) PROVE Told'
  BY <1>10, ElsewhereTells DEF CancelRun, RunBecomes, Elsewhere, registry, plans, Turn, Idle
<1> QED
  BY <1>1, <1>2, <1>3, <1>4, <1>5, <1>6, <1>7, <1>8, <1>9, <1>10 DEF Orders

\* What devices ask for and report.
LEMMA DeviceRoutesTell ==
  ASSUME Inv, Told, DeviceRoutes
  PROVE  Told'
<1>1. ASSUME NEW d \in Devices, SyncInstallations(d) PROVE Told'
  <2>1. UNCHANGED <<schedule, revision, changes, copy, reply, device, writer>>
    BY <1>1 DEF SyncInstallations, tables, registry, plans
  <2> QED
    BY <1>1, <2>1, CopiesStay, SyncFacts, SeenAnswers DEF Told, CopyInv
<1>2. ASSUME NEW d \in Devices, SyncSchedules(d) PROVE Told'
  <2>1. UNCHANGED <<device, installation, seen, index>>
    BY <1>2 DEF SyncSchedules, StartSync, tables, registry
  <2> QED
    BY <1>2, <2>1, AnswersTell, SeenStays DEF Told
<1>3. ASSUME NEW d \in Devices, ClaimRuns(d) PROVE Told'
  <2>1. UNCHANGED <<tables, answers>> /\ writer'.op = "claim"
    BY <1>3 DEF ClaimRuns
  <2> QED
    BY <2>1, ElsewhereTells DEF Elsewhere, tables, registry, plans
<1>4. ASSUME NEW d \in Devices, NEW r \in Releases, NEW to \in {"downloading", "failed", "removed"},
             UpdateInstallationStatus(d, r, to)
      PROVE  Told'
  <2>1. UNCHANGED <<schedule, revision, changes, copy, reply, device>> /\ writer' = Idle
    BY <1>4 DEF UpdateInstallationStatus, registry, plans, answers, Turn
  <2> QED
    BY <1>4, <2>1, CopiesStay, SeenSteps DEF Told, Idle
<1>5. ASSUME NEW d \in Devices, NEW r \in Releases, ReportInstalled(d, r) PROVE Told'
  BY <1>5, BeginTells DEF ReportInstalled
<1>6. ASSUME NEW d \in Devices, NEW n \in Runs, NEW to \in Open \cup {"succeeded", "failed", "cancelled"},
             ReportRun(d, n, to)
      PROVE  Told'
  BY <1>6, ElsewhereTells DEF ReportRun, RunBecomes, Elsewhere, registry, plans, Turn, Idle
<1> QED
  BY <1>1, <1>2, <1>3, <1>4, <1>5, <1>6 DEF DeviceRoutes

\* The change that has the queue goes on.
LEMMA QueueTells ==
  ASSUME Inv, Told, QueueProceeds
  PROVE  Told'
<1>1. ASSUME InstallationRequested PROVE Told'
  <2>1. UNCHANGED <<schedule, revision, changes, copy, reply>> /\ writer' = Idle
        /\ device' = [device EXCEPT ![writer.device].revision = @ + 1]
    BY <1>1 DEF InstallationRequested, plans
  <2>2. \A e \in Devices : device[e].status # "absent" =>
          device'[e].status # "absent" /\ device'[e].workspace = device[e].workspace
    BY <2>1 DEF Inv, TypeOK, DeviceRow
  <2> QED
    BY <1>1, <2>1, <2>2, CopiesStay, SeenSteps DEF Told, Idle
<1>2. ASSUME InstallationInstalled PROVE Told'
  <2>1. UNCHANGED <<schedule, revision, changes, copy, reply, device>> /\ writer' = Idle
    BY <1>2 DEF InstallationInstalled, registry, plans, answers
  <2> QED
    BY <1>2, <2>1, CopiesStay, SeenSteps DEF Told, Idle
<1>3. ASSUME ScheduleCreated \/ ScheduleUpdated \/ ScheduleResumed PROVE Told'
  <2>1. UNCHANGED <<device, installation, seen, index>>
    BY <1>3 DEF ScheduleCreated, ScheduleUpdated, ScheduleResumed, ScheduleBecomes, registry, answers
  <2> QED
    BY SMTT(45), <1>3, <2>1, ScheduleStepsTell, SeenStays DEF Told
<1>4. ASSUME RunCreated PROVE Told'
  BY <1>4, ElsewhereTells DEF RunCreated, RunBecomes, Elsewhere, tables, registry, plans, Idle
<1>5. ASSUME SchedulesListed PROVE Told'
  <2>1. UNCHANGED <<device, installation, seen, index>>
    BY <1>5 DEF SchedulesListed, tables, registry
  <2> QED
    BY <1>5, <2>1, AnswersTell, SeenStays DEF Told
<1>6. ASSUME NEW s \in Schedules, CheckSchedule(s) PROVE Told'
  <2>1. UNCHANGED <<device, installation, seen, index>>
    BY <1>6 DEF CheckSchedule, registry, answers
  <2> QED
    BY <1>6, <2>1, CheckScheduleTells, SeenStays DEF Told
<1>7. ASSUME NEW n \in Runs, ClaimRun(n) PROVE Told'
  <2>1. writer'.op \in {"none", "claim"}
    BY <1>7 DEF ClaimRun, Idle, Inv, TypeOK, Operation
  <2> QED
    BY <1>7, <2>1, ElsewhereTells DEF ClaimRun, RunBecomes, Elsewhere, registry, plans
<1> QED
  BY <1>1, <1>2, <1>3, <1>4, <1>5, <1>6, <1>7 DEF QueueProceeds

\* Answers under way go on outside of the queue.
LEMMA AnswersProceedTells ==
  ASSUME Inv, Told, AnswersProceed
  PROVE  Told'
<1>1. ASSUME NEW d \in Devices,
             \/ \E r \in Releases : AuthorizeInstallation(d, r)
             \/ InstallationsAnswered(d) \/ InstallationsRefused(d) \/ InstallationsLost(d)
      PROVE  Told'
  <2>1. UNCHANGED <<schedule, revision, changes, copy, reply, device, writer>>
    BY <1>1 DEF AuthorizeInstallation, InstallationsAnswered, InstallationsRefused,
                InstallationsLost, tables, registry, plans
  <2> QED
    BY SMTT(45), <1>1, <2>1, CopiesStay, SyncFacts, SeenAnswers DEF Told, CopyInv
<1>2. ASSUME NEW d \in Devices,
             \/ RefreshLeases(d)
             \/ \E s \in Schedules : AuthorizeScheduleRecord(d, s)
             \/ SchedulesAnswered(d) \/ SchedulesRefused(d) \/ SchedulesLost(d)
      PROVE  Told'
  <2>1. UNCHANGED <<device, installation, seen, index>>
    BY <1>2 DEF RefreshLeases, StartSync, AuthorizeScheduleRecord, SchedulesAnswered,
                SchedulesRefused, SchedulesLost, tables, registry
  <2> QED
    BY <1>2, <2>1, AnswersTell, SeenStays DEF Told
<1> QED
  BY <1>1, <1>2 DEF AnswersProceed

\* A grant that runs out changes no schedule.
LEMMA ExpiryTells ==
  ASSUME Inv, Told, NEW d \in Devices, NEW r \in Releases, GrantExpires(d, r)
  PROVE  Told'
<1>1. UNCHANGED <<schedule, revision, changes, copy, reply, device, installation, seen, index, writer>>
  BY DEF GrantExpires, registry, plans, answers
<1> QED
  BY <1>1, CopiesStay, SyncFacts, SeenStays DEF Told, CopyInv

\* Nothing is told at first.
LEMMA InitTells == ASSUME Init PROVE Told
<1>1. LogInv
  BY DEF Init, LogInv, NoDevice, NoSchedule, Change
<1>2. CopyInv
  BY DEF Init, CopyInv, Quiet, Idle
<1>3. SeenInv
  BY DEF Init, SeenInv, RequestsAreSeen, NoDevice, Quiet
<1> QED
  BY <1>1, <1>2, <1>3 DEF Told

\* The log tells the table, the copies and the answers under way tell the log,
\* and requests that a device has not seen are on their way or accounted for.
THEOREM ControlPlaneTells == Spec => []Told
<1>1. ASSUME Inv, Told, Next PROVE Told'
  BY <1>1, PreparationTells, OrdersTell, DeviceRoutesTell, QueueTells, AnswersProceedTells, ExpiryTells
     DEF Next
<1>2. ASSUME Inv, Told, UNCHANGED vars PROVE Told'
  <2>1. UNCHANGED <<schedule, revision, changes, copy, reply, device, installation, seen, index, writer>>
    BY <1>2 DEF vars, tables, registry, plans, answers
  <2> QED
    BY <1>2, <2>1, CopiesStay, SyncFacts, SeenStays DEF Told, CopyInv
<1> QED
  BY InitTells, ControlPlaneInvariant, <1>1, <1>2, PTL DEF Spec

\* A device whose copy is of the current revision holds exactly the schedules
\* that are active on it (syncSchedules, disableSchedule, updateSchedule).
THEOREM CopiesAlwaysTellTheTable == Spec => []CopiesTellTheTable
<1>1. Inv /\ Told => CopiesTellTheTable
  <2> SUFFICES ASSUME Inv, Told, NEW d \in Devices, device[d].status # "absent",
                      copy[d].at = revision[device[d].workspace]
               PROVE  copy[d].held = ActiveOn(d)
    BY DEF CopiesTellTheTable, ActiveOn
  <2>1. Current(d) \in Nat /\ copy[d].at = Current(d)
    BY CurrentIsNat DEF Current
  <2>2. copy[d].held = ViewOf(changes, d, copy[d].at)
    BY <2>1 DEF Told, CopyInv
  <2> QED
    BY <2>1, <2>2 DEF Told, LogInv
<1> QED
  BY <1>1, ControlPlaneInvariant, ControlPlaneTells, PTL

\* A device that is up to date was told of every open request, but for those
\* the code leaves out (syncInstallations, requestInstallation).
THEOREM RequestsAreAlwaysSeen == Spec => []RequestsAreSeen
<1>1. Told => RequestsAreSeen
  BY DEF Told, SeenInv
<1> QED
  BY <1>1, ControlPlaneTells, PTL
=============================================================================
