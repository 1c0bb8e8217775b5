---------------------------- MODULE ControlPlane ---------------------------
(***************************************************************************)
(* The control plane behind its controller: the authorization in           *)
(* ControlPlaneService and the tables of MemoryPlatformRepository, the     *)
(* repository the API runs on without a database.                          *)
(*                                                                         *)
(* The repository puts every change into a queue (write) and works it off  *)
(* one by one.  A change that needs no permission grant runs without an    *)
(* await and is one step.  One that needs a grant suspends while the hash  *)
(* of the capabilities is computed and is two steps: the checks up to that *)
(* point, then the effect; in between `writer` says who has the queue.     *)
(* Reads do not queue and may fall between.                                *)
(*                                                                         *)
(* What a request is checked against never changes, namely who belongs to  *)
(* a workspace, whose a device is and where an application belongs, or is  *)
(* checked again in the queue: authorization is taken together with the    *)
(* turn in the queue.  Requests that are refused change nothing and are    *)
(* left out.  Identities, credentials and the audit log are left out;      *)
(* releases have one declared artifact and there is one channel.           *)
(***************************************************************************)
EXTENDS Integers, FiniteSets

CONSTANTS
  Users, Reviewers,      \* Reviewers: users with a platform role that may review
  Workspaces, Devices, Applications, Releases, Schedules, Runs,
  MaxAnswers,            \* bound: synchronisations under way at the same time
  MaxOrders,             \* bound: what users order once releases and devices exist
  None

ASSUME ControlPlaneAssumption ==
  /\ Reviewers \subseteq Users
  /\ IsFiniteSet(Schedules)
  /\ MaxAnswers \in Nat /\ MaxOrders \in Nat
  /\ None \notin Users \cup Workspaces \cup Devices \cup Applications \cup Releases

VARIABLES
  owner,         \* owner[w]: the only member of w, with role 'owner'; no operation adds another
  device,
  application,
  release,
  channel,       \* channel[a]: the release that is promoted
  grant,         \* grant[d][r]: of d for the capabilities of r
  installation,  \* installation[d][r]: its status
  schedule,
  revision,      \* scheduleWorkspaceRevisions
  changes,       \* scheduleChanges
  run,
  writer,        \* the change that has the queue and waits for a grant to be checked
  reply,         \* reply[d]: what a device's schedule synchronisation is about to answer
  index,         \* index[d]: what its installation synchronisation has read
  copy,          \* copy[d]: the schedules the Agent of d holds, and as of which revision
  seen,          \* seen[d]: the requests the Agent of d was told of, and as of which revision;
                 \*   excused: those that were left out, for the two reasons the code has
  orders         \* how many orders there were

registry == <<owner, device, application, release, channel>>
plans    == <<schedule, revision, changes>>
tables   == <<registry, grant, installation, plans, run>>
answers  == <<reply, index, copy, seen>>
vars     == <<tables, writer, answers, orders>>

NoDevice      == [status |-> "absent", workspace |-> None, owner |-> None, revision |-> 0]
NoApplication == [kind |-> "absent", workspace |-> None]
NoRelease     == [status |-> "absent", application |-> None, artifact |-> "absent"]
NoSchedule    == [status |-> "absent", workspace |-> None, release |-> None, target |-> None,
                  revision |-> 0, createdBy |-> None]
NoRun         == [status |-> "absent", workspace |-> None, release |-> None, device |-> None,
                  cancel |-> FALSE, triggeredBy |-> None]
Idle  == [op |-> "none"]
Quiet == [kind |-> "none"]

Init ==
  /\ owner = [w \in Workspaces |-> None]
  /\ device = [d \in Devices |-> NoDevice]
  /\ application = [a \in Applications |-> NoApplication]
  /\ release = [r \in Releases |-> NoRelease]
  /\ channel = [a \in Applications |-> None]
  /\ grant = [d \in Devices |-> [r \in Releases |-> "absent"]]
  /\ installation = [d \in Devices |-> [r \in Releases |-> "absent"]]
  /\ schedule = [s \in Schedules |-> NoSchedule]
  /\ revision = [w \in Workspaces |-> 0]
  /\ changes = {}
  /\ run = [n \in Runs |-> NoRun]
  /\ writer = Idle
  /\ reply = [d \in Devices |-> Quiet]
  /\ index = [d \in Devices |-> Quiet]
  /\ copy = [d \in Devices |-> [at |-> -1, held |-> {}]]
  /\ seen = [d \in Devices |-> [at |-> 0, requests |-> {}, excused |-> {}]]
  /\ orders = 0

(***************************************************************************)
(* Who may do what.                                                        *)
(***************************************************************************)

\* requireWorkspaceRole.  An owner has every role the service asks for.
RequireWorkspaceRole(u, w) == owner[w] = u

\* requireActiveDeviceOwner
RequireActiveDeviceOwner(u, d, w) ==
  device[d].workspace = w /\ device[d].owner = u /\ device[d].status = "active"

\* requireDeviceOwnerOrWorkspaceAdministrator, after requireWorkspaceRole
RequireDeviceOwnerOrWorkspaceAdministrator(u, d) ==
  LET w == device[d].workspace IN
    w # None /\ RequireWorkspaceRole(u, w) /\ (device[d].owner = u \/ owner[w] = u)

\* authorizeRelease, with the role the operation needs
AuthorizeRelease(u, r) ==
  LET a == release[r].application IN
    a # None /\ RequireWorkspaceRole(u, application[a].workspace)

\* authorizeScheduleWrite: every schedule has a target.
AuthorizeScheduleWrite(u, s) ==
  LET t == schedule[s].target IN
    t # None /\ RequireActiveDeviceOwner(u, t, schedule[s].workspace)

\* findActiveDeviceByCredentialHash, and activeDevice in the repository
ActiveDevice(d) == device[d].status = "active"

\* Mutant: an application of any workspace will do.
DesktopReleaseAnywhere(r, w) ==
  LET a == release[r].application IN
    release[r].status = "approved" /\ a # None /\ application[a].kind = "desktop"

\* desktopRelease
DesktopRelease(r, w) ==
  LET a == release[r].application IN
    /\ release[r].status = "approved"
    /\ a # None /\ application[a].workspace = w /\ application[a].kind = "desktop"

\* requireActivePermissionGrant
RequireActivePermissionGrant(d, r) ==
  /\ ActiveDevice(d)
  /\ DesktopRelease(r, device[d].workspace)
  /\ grant[d][r] = "active"

\* Mutant: changes do not queue.
NoQueue == TRUE

\* A change that gets its turn finds the queue empty.
Turn == writer = Idle

(***************************************************************************)
(* Workspaces, devices, applications and releases.                         *)
(***************************************************************************)
CreateWorkspace(u, w) ==
  /\ Turn /\ owner[w] = None
  /\ owner' = [owner EXCEPT ![w] = u]
  /\ UNCHANGED <<device, application, release, channel, grant, installation, plans, run, writer, answers>>

\* A device that is registered again only gets another credential.
RegisterDevice(u, w, d) ==
  /\ Turn /\ RequireWorkspaceRole(u, w) /\ device[d].status = "absent"
  /\ device' = [device EXCEPT ![d] =
       [status |-> "active", workspace |-> w, owner |-> u, revision |-> 0]]
  /\ UNCHANGED <<owner, application, release, channel, grant, installation, plans, run, writer, answers>>

\* Schedules, installations and runs of the device stay as they are.
RevokeDevice(u, d) ==
  /\ Turn /\ ActiveDevice(d) /\ RequireDeviceOwnerOrWorkspaceAdministrator(u, d)
  /\ device' = [device EXCEPT ![d].status = "revoked"]
  /\ UNCHANGED <<owner, application, release, channel, grant, installation, plans, run, writer, answers>>

CreateApplication(u, w, a, kind) ==
  /\ Turn /\ RequireWorkspaceRole(u, w) /\ application[a].kind = "absent"
  /\ application' = [application EXCEPT ![a] = [kind |-> kind, workspace |-> w]]
  /\ UNCHANGED <<owner, device, release, channel, grant, installation, plans, run, writer, answers>>

\* Only the release changes.
ReleaseBecomes(r, new) ==
  /\ Turn
  /\ release' = [release EXCEPT ![r] = new]
  /\ UNCHANGED <<owner, device, application, channel, grant, installation, plans, run, writer, answers>>

CreateRelease(u, a, r) ==
  /\ release[r].status = "absent" /\ application[a].kind # "absent"
  /\ RequireWorkspaceRole(u, application[a].workspace)
  /\ ReleaseBecomes(r, [NoRelease EXCEPT !.status = "draft", !.application = a])

CreateArtifact(u, r) ==
  /\ release[r].status \in {"draft", "uploading"} /\ release[r].artifact = "absent"
  /\ AuthorizeRelease(u, r)
  /\ ReleaseBecomes(r, [release[r] EXCEPT !.status = "uploading", !.artifact = "pending_upload"])

FinalizeArtifact(u, r) ==
  /\ release[r].artifact = "pending_upload"
  /\ AuthorizeRelease(u, r)
  /\ ReleaseBecomes(r, [release[r] EXCEPT !.artifact = "uploaded"])

SubmitRelease(u, r) ==
  /\ release[r].status \in {"draft", "uploading"} /\ release[r].artifact = "uploaded"
  /\ AuthorizeRelease(u, r)
  /\ ReleaseBecomes(r, [release[r] EXCEPT !.status = "validating"])

\* The worker reports; a report that repeats an earlier one changes nothing.
ApplyValidationResult(r, success) ==
  /\ release[r].status = "validating"
  /\ ReleaseBecomes(r, [release[r] EXCEPT
       !.status = IF success THEN "ready" ELSE "rejected",
       !.artifact = IF success THEN "validated" ELSE "rejected"])

CreateReview(u, r, decision) ==
  /\ u \in Reviewers /\ release[r].status = "ready"
  /\ ReleaseBecomes(r, [release[r] EXCEPT !.status = decision])

\* The caller may say which release it expects to replace; if another is there it is refused.
Promote(u, a, r) ==
  /\ Turn /\ application[a].kind # "absent" /\ RequireWorkspaceRole(u, application[a].workspace)
  /\ release[r].application = a /\ release[r].status = "approved"
  /\ channel' = [channel EXCEPT ![a] = r]
  /\ UNCHANGED <<owner, device, application, release, grant, installation, plans, run, writer, answers>>

(***************************************************************************)
(* Permission grants.                                                      *)
(***************************************************************************)
ApprovePermissionGrant(u, d, r) ==
  LET w == device[d].workspace IN
    /\ Turn /\ ActiveDevice(d) /\ RequireWorkspaceRole(u, w) /\ RequireActiveDeviceOwner(u, d, w)
    /\ DesktopRelease(r, w) /\ grant[d][r] # "active"
    /\ grant' = [grant EXCEPT ![d][r] = "active"]
    /\ UNCHANGED <<registry, installation, plans, run, writer, answers>>

\* The expiry of a grant passes: no step of the repository, only of the clock
\* (materializePermissionGrant).
GrantExpires(d, r) ==
  /\ grant[d][r] = "active"
  /\ grant' = [grant EXCEPT ![d][r] = "expired"]
  /\ UNCHANGED <<registry, installation, plans, run, writer, answers>>

\* nextScheduleRevision and the change that is logged with it
Removal(s, d, k) == [schedule |-> s, device |-> d, revision |-> k, op |-> "remove", enabled |-> FALSE]
Upsert(s, d, k, status) ==
  [schedule |-> s, device |-> d, revision |-> k, op |-> "upsert", enabled |-> status = "active"]

\* The schedules of a device that run a release and are not disabled yet
ScheduledFor(d, r) ==
  {s \in Schedules : schedule[s].target = d /\ schedule[s].release = r
                     /\ schedule[s].status \in {"active", "paused"}}

\* Each of them gets a revision of its own, in some order.
DisableAll(S, w) ==
  \E order \in [S -> 1 .. Cardinality(S)] :
    /\ \A s, t \in S : order[s] = order[t] => s = t
    /\ schedule' = [s \in Schedules |->
         IF s \in S THEN [schedule[s] EXCEPT !.status = "disabled", !.revision = revision[w] + order[s]]
                    ELSE schedule[s]]
    /\ revision' = [revision EXCEPT ![w] = @ + Cardinality(S)]
    /\ changes' = changes \cup {Removal(s, schedule[s].target, revision[w] + order[s]) : s \in S}

RevokePermissionGrant(u, d, r) ==
  /\ Turn /\ grant[d][r] \in {"active", "expired"}
  /\ RequireDeviceOwnerOrWorkspaceAdministrator(u, d)
  /\ grant' = [grant EXCEPT ![d][r] = "revoked"]
  /\ DisableAll(ScheduledFor(d, r), device[d].workspace)
  /\ run' = [n \in Runs |->
       IF run[n].device = d /\ run[n].release = r /\ run[n].status = "queued"
       THEN [run[n] EXCEPT !.status = "failed"] ELSE run[n]]
  /\ UNCHANGED <<registry, installation, writer, answers>>

\* A change that needs a grant gets its turn and finds one; then it is suspended.
Begin(op) ==
  /\ Turn
  /\ RequireActivePermissionGrant(op.device, op.release)
  /\ writer' = op
  /\ UNCHANGED <<tables, answers>>

(***************************************************************************)
(* Installations.                                                          *)
(***************************************************************************)
RequestInstallation(u, d, r) ==
  LET w == device[d].workspace IN
    /\ ActiveDevice(d) /\ RequireWorkspaceRole(u, w) /\ RequireActiveDeviceOwner(u, d, w)
    /\ installation[d][r] \in {"absent", "failed", "removed"}
    /\ Begin([op |-> "install", device |-> d, release |-> r])

\* Mutant: the device's revision stays.
RequestedSilently ==
  LET d == writer.device  r == writer.release IN
    /\ writer.op = "install"
    /\ installation' = [installation EXCEPT ![d][r] = "requested"]
    /\ seen' = [seen EXCEPT ![d].requests = @ \ {r}, ![d].excused = @ \ {r}]
    /\ writer' = Idle
    /\ UNCHANGED <<registry, grant, plans, run, reply, index, copy>>

\* The request is recorded.  A synchronisation that has already listed the
\* installations of the device may miss it.
InstallationRequested ==
  LET d == writer.device  r == writer.release IN
    /\ writer.op = "install"
    /\ installation' = [installation EXCEPT ![d][r] = "requested"]
    /\ device' = [device EXCEPT ![d].revision = @ + 1]
    /\ seen' = [seen EXCEPT ![d].requests = @ \ {r}, ![d].excused = @ \ {r}]
    /\ index' = IF index[d].kind = "list" THEN [index EXCEPT ![d].excused = @ \cup {r}] ELSE index
    /\ writer' = Idle
    /\ UNCHANGED <<owner, application, release, channel, grant, plans, run, reply, copy>>

AllowedInstallation ==
  [absent |-> {}, requested |-> {"downloading", "failed"}, downloading |-> {"installed", "failed"},
   installed |-> {"removed"}, failed |-> {}, removed |-> {}]

UpdateInstallationStatus(d, r, to) ==
  /\ Turn /\ ActiveDevice(d)
  /\ to \in AllowedInstallation[installation[d][r]] \ {"installed"}
  /\ installation' = [installation EXCEPT ![d][r] = to]
  /\ UNCHANGED <<registry, grant, plans, run, writer, answers>>

ReportInstalled(d, r) ==
  /\ "installed" \in AllowedInstallation[installation[d][r]]
  /\ Begin([op |-> "installed", device |-> d, release |-> r])

InstallationInstalled ==
  LET d == writer.device  r == writer.release IN
    /\ writer.op = "installed"
    /\ installation' = [installation EXCEPT ![d][r] = "installed"]
    /\ writer' = Idle
    /\ UNCHANGED <<registry, grant, plans, run, answers>>

\* An Agent asks for one thing after the other.  Answers to different devices
\* have nothing in common but the tables, so few need to be under way at once.
Ready(d) ==
  LET busy == {e \in Devices : index[e] # Quiet \/ reply[e] # Quiet} IN
    d \notin busy /\ Cardinality(busy) < MaxAnswers

\* syncInstallations does not queue.  It lists the installations ...
SyncInstallations(d) ==
  /\ ActiveDevice(d) /\ Ready(d) /\ seen[d].at < device[d].revision
  /\ index' = [index EXCEPT ![d] =
       [kind |-> "list", authorized |-> {}, excused |-> {},
        todo |-> {r \in Releases : installation[d][r] \in {"requested", "downloading", "installed"}}]]
  /\ UNCHANGED <<tables, writer, reply, copy, seen>>

\* ... checks the grant of each; without one the installation is left out ...
AuthorizeInstallation(d, r) ==
  /\ index[d].kind = "list" /\ r \in index[d].todo /\ ActiveDevice(d)
  /\ index' = [index EXCEPT
       ![d].todo = @ \ {r},
       ![d].authorized = IF RequireActivePermissionGrant(d, r) THEN @ \cup {r} ELSE @,
       ![d].excused = IF RequireActivePermissionGrant(d, r) THEN @ ELSE @ \cup {r}]
  /\ UNCHANGED <<tables, writer, reply, copy, seen>>

\* ... and answers with the revision as it is by then.
InstallationsAnswered(d) ==
  /\ index[d].kind = "list" /\ index[d].todo = {}
  /\ \A r \in index[d].authorized : installation[d][r] \in {"requested", "downloading", "installed"}
  /\ seen' = [seen EXCEPT ![d] =
       [at |-> device[d].revision, requests |-> index[d].authorized, excused |-> index[d].excused]]
  /\ index' = [index EXCEPT ![d] = Quiet]
  /\ UNCHANGED <<tables, writer, reply, copy>>

\* The request fails: a device was revoked, or an installation that was listed
\* is settled by now (installation_not_actionable).
InstallationsRefused(d) ==
  /\ index[d].kind = "list"
  /\ \/ ~ActiveDevice(d)
     \/ \E r \in index[d].authorized : installation[d][r] \in {"failed", "removed"}
  /\ index' = [index EXCEPT ![d] = Quiet]
  /\ UNCHANGED <<tables, writer, reply, copy, seen>>

InstallationsLost(d) ==
  /\ index[d].kind = "list"
  /\ index' = [index EXCEPT ![d] = Quiet]
  /\ UNCHANGED <<tables, writer, reply, copy, seen>>

(***************************************************************************)
(* Schedules.                                                              *)
(***************************************************************************)
CreateSchedule(u, s, d, r) ==
  LET w == device[d].workspace IN
    /\ ActiveDevice(d) /\ RequireWorkspaceRole(u, w) /\ RequireActiveDeviceOwner(u, d, w)
    /\ schedule[s].status = "absent"
    /\ Begin([op |-> "create", device |-> d, release |-> r, schedule |-> s, user |-> u])

\* expectedRevision is the current one, or the change is refused.  The owner
\* of the old target asks, and must own the new one.
UpdateSchedule(u, s, d, r) ==
  /\ schedule[s].status # "absent"
  /\ RequireWorkspaceRole(u, schedule[s].workspace)
  /\ AuthorizeScheduleWrite(u, s)
  /\ RequireActiveDeviceOwner(u, d, schedule[s].workspace)
  /\ release[r].application = release[schedule[s].release].application
  /\ Begin([op |-> "update", device |-> d, release |-> r, schedule |-> s])

ResumeSchedule(u, s) ==
  /\ schedule[s].status \in {"paused", "disabled"}
  /\ RequireWorkspaceRole(u, schedule[s].workspace) /\ AuthorizeScheduleWrite(u, s)
  /\ Begin([op |-> "resume", device |-> schedule[s].target, release |-> schedule[s].release,
            schedule |-> s])

\* Mutant: the old target is not told.
BecomesSilently(s, new) ==
  LET w == new.workspace  k == revision[new.workspace] + 1 IN
    /\ schedule' = [schedule EXCEPT ![s] = [new EXCEPT !.revision = k]]
    /\ revision' = [revision EXCEPT ![w] = k]
    /\ changes' = changes \cup {Upsert(s, new.target, k, new.status)}
    /\ UNCHANGED <<registry, grant, installation, run, answers>>

\* Schedule s becomes `new` at the next revision of its workspace.  A target
\* that loses it is told to remove it.
ScheduleBecomes(s, new) ==
  LET w == new.workspace  k == revision[new.workspace] + 1  old == schedule[s].target IN
    /\ schedule' = [schedule EXCEPT ![s] = [new EXCEPT !.revision = k]]
    /\ revision' = [revision EXCEPT ![w] = k]
    /\ changes' = changes \cup {Upsert(s, new.target, k, new.status)}
                          \cup IF old \notin {None, new.target} THEN {Removal(s, old, k)} ELSE {}
    /\ UNCHANGED <<registry, grant, installation, run, answers>>

ScheduleCreated ==
  /\ writer.op = "create"
  /\ ScheduleBecomes(writer.schedule,
       [status |-> "active", workspace |-> device[writer.device].workspace, release |-> writer.release,
        target |-> writer.device, revision |-> 0, createdBy |-> writer.user])
  /\ writer' = Idle

\* The status stays, that of a disabled schedule too.
ScheduleUpdated ==
  /\ writer.op = "update"
  /\ ScheduleBecomes(writer.schedule,
       [schedule[writer.schedule] EXCEPT !.target = writer.device, !.release = writer.release])
  /\ writer' = Idle

ScheduleResumed ==
  /\ writer.op = "resume"
  /\ ScheduleBecomes(writer.schedule, [schedule[writer.schedule] EXCEPT !.status = "active"])
  /\ writer' = Idle

\* A disabled schedule becomes a paused one; no grant is asked for.
PauseSchedule(u, s) ==
  /\ Turn /\ schedule[s].status \in {"active", "disabled"}
  /\ RequireWorkspaceRole(u, schedule[s].workspace) /\ AuthorizeScheduleWrite(u, s)
  /\ ScheduleBecomes(s, [schedule[s] EXCEPT !.status = "paused"])
  /\ UNCHANGED writer

\* syncSchedules asks for what came after the revision of the copy, or for a
\* snapshot when there is none or the leases are to be refreshed.
StartSync(d, refresh) ==
  /\ Turn /\ ActiveDevice(d)
  /\ writer' = [op |-> "sync", device |-> d, refresh |-> refresh,
                todo |-> {s \in Schedules : schedule[s].target = d
                                            /\ schedule[s].status \in {"active", "paused"}}]
  /\ reply' = [reply EXCEPT ![d] = [kind |-> "waiting"]]
  /\ UNCHANGED <<tables, index, copy, seen>>

SyncSchedules(d) ==
  /\ Ready(d)
  /\ StartSync(d, FALSE)

\* Schedules without an active grant are disabled on the way ...
CheckSchedule(s) ==
  /\ writer.op = "sync" /\ s \in writer.todo
  /\ writer' = [writer EXCEPT !.todo = @ \ {s}]
  /\ IF RequireActivePermissionGrant(writer.device, schedule[s].release)
       THEN UNCHANGED <<plans>>
       ELSE DisableAll({s}, schedule[s].workspace)
  /\ UNCHANGED <<registry, grant, installation, run, answers>>

\* ... then the answer is put together from the table or from the log.
Snapshot(d) ==
  LET S == {s \in Schedules : schedule[s].target = d /\ schedule[s].status \in {"active", "paused"}} IN
    [kind |-> "snapshot", at |-> revision[device[d].workspace], removed |-> {}, todo |-> S,
     upserts |-> {Upsert(s, d, schedule[s].revision, schedule[s].status) : s \in S}]

Delta(d, from) ==
  LET later == {c \in changes : c.device = d /\ c.revision > from}
      last  == {c \in later : \A e \in later : e.schedule = c.schedule => e.revision <= c.revision}
  IN  [kind |-> "delta", at |-> revision[device[d].workspace],
       removed |-> {c.schedule : c \in {e \in last : e.op = "remove"}},
       upserts |-> {c \in last : c.op = "upsert"},
       todo |-> {c.schedule : c \in {e \in last : e.op = "upsert"}}]

\* An empty delta is thrown away: the service asks again, for a snapshot, to
\* refresh the leases.
SchedulesListed ==
  LET d == writer.device IN
    /\ writer.op = "sync" /\ writer.todo = {}
    /\ reply' = [reply EXCEPT ![d] =
         IF writer.refresh \/ copy[d].at = -1 THEN Snapshot(d)
         ELSE IF copy[d].at = revision[device[d].workspace] THEN [kind |-> "refresh"]
         ELSE Delta(d, copy[d].at)]
    /\ writer' = Idle
    /\ UNCHANGED <<tables, index, copy, seen>>

RefreshLeases(d) ==
  /\ reply[d].kind = "refresh"
  /\ StartSync(d, TRUE)

\* The conditions of authorizeScheduleRecord
Leasable(d, s) ==
  /\ RequireActivePermissionGrant(d, schedule[s].release)
  /\ schedule[s].target = d
  /\ \E c \in reply[d].upserts : c.schedule = s /\ c.revision = schedule[s].revision

\* authorizeScheduleRecord reads the table again, outside of the queue.
AuthorizeScheduleRecord(d, s) ==
  /\ reply[d].kind \in {"snapshot", "delta"} /\ s \in reply[d].todo
  /\ Leasable(d, s)
  /\ reply' = [reply EXCEPT ![d].todo = @ \ {s}]
  /\ UNCHANGED <<tables, writer, index, copy, seen>>

\* One record that cannot be leased fails the answer.
SchedulesRefused(d) ==
  /\ \/ reply[d].kind \in {"snapshot", "delta"} /\ \E s \in reply[d].todo : ~Leasable(d, s)
     \/ reply[d].kind = "refresh" /\ ~ActiveDevice(d)
  /\ reply' = [reply EXCEPT ![d] = Quiet]
  /\ UNCHANGED <<tables, writer, index, copy, seen>>

SchedulesAnswered(d) ==
  LET on(a) == {c.schedule : c \in {e \in a.upserts : e.enabled}}
      touched(a) == a.removed \cup {c.schedule : c \in a.upserts}
  IN  /\ reply[d].kind \in {"snapshot", "delta"} /\ reply[d].todo = {}
      /\ copy' = [copy EXCEPT ![d] =
           [at |-> reply[d].at,
            held |-> IF reply[d].kind = "snapshot" THEN on(reply[d])
                                                   ELSE (@.held \ touched(reply[d])) \cup on(reply[d])]]
      /\ reply' = [reply EXCEPT ![d] = Quiet]
      /\ UNCHANGED <<tables, writer, index, seen>>

SchedulesLost(d) ==
  /\ reply[d].kind \in {"snapshot", "delta"}
  /\ reply' = [reply EXCEPT ![d] = Quiet]
  /\ UNCHANGED <<tables, writer, index, copy, seen>>

(***************************************************************************)
(* Runs.                                                                   *)
(***************************************************************************)
CreateManualRun(u, n, d, r) ==
  LET w == device[d].workspace IN
    /\ ActiveDevice(d) /\ RequireWorkspaceRole(u, w) /\ RequireActiveDeviceOwner(u, d, w)
    /\ run[n].status = "absent"
    /\ Begin([op |-> "run", device |-> d, release |-> r, run |-> n, user |-> u])

\* Only the table of runs changes.
RunBecomes(n, new) ==
  /\ run' = [run EXCEPT ![n] = new]
  /\ UNCHANGED <<registry, grant, installation, plans, answers>>

\* The installation is looked up after the grant.
RunCreated ==
  /\ writer.op = "run"
  /\ IF installation[writer.device][writer.release] = "installed"
       THEN RunBecomes(writer.run,
              [status |-> "queued", workspace |-> device[writer.device].workspace,
               release |-> writer.release, device |-> writer.device, cancel |-> FALSE,
               triggeredBy |-> writer.user])
       ELSE UNCHANGED <<tables, answers>>
  /\ writer' = Idle

Open == {"dispatched", "running", "needs_user_approval"}

CancelRun(u, n) ==
  /\ Turn /\ run[n].status \in {"queued"} \cup Open /\ ~run[n].cancel
  /\ RequireDeviceOwnerOrWorkspaceAdministrator(u, run[n].device)
  /\ RunBecomes(n, [run[n] EXCEPT !.cancel = TRUE, !.status = IF @ = "queued" THEN "cancelled" ELSE @])
  /\ UNCHANGED writer

ClaimRuns(d) ==
  /\ Turn /\ ActiveDevice(d)
  /\ \E todo \in SUBSET {n \in Runs : run[n].device = d /\ run[n].status = "queued"} :
       /\ todo # {}
       /\ writer' = [op |-> "claim", device |-> d, todo |-> todo]
  /\ UNCHANGED <<tables, answers>>

\* One by one; a run without an active grant fails.
ClaimRun(n) ==
  /\ writer.op = "claim" /\ n \in writer.todo
  /\ writer' = IF writer.todo = {n} THEN Idle ELSE [writer EXCEPT !.todo = @ \ {n}]
  /\ RunBecomes(n, [run[n] EXCEPT !.status =
       IF RequireActivePermissionGrant(writer.device, run[n].release) THEN "dispatched" ELSE "failed"])

AllowedRun ==
  [absent |-> {}, queued |-> {}, succeeded |-> {}, failed |-> {}, cancelled |-> {},
   dispatched |-> {"running", "succeeded", "failed", "cancelled", "needs_user_approval"},
   running |-> {"succeeded", "failed", "cancelled", "needs_user_approval"},
   needs_user_approval |-> {"running", "failed", "cancelled"}]

ReportRun(d, n, to) ==
  /\ Turn /\ ActiveDevice(d) /\ run[n].device = d
  /\ to \in AllowedRun[run[n].status] /\ (to = "cancelled" => run[n].cancel)
  /\ RunBecomes(n, [run[n] EXCEPT !.status = to])
  /\ UNCHANGED writer

(***************************************************************************)
(* Routes: what users, devices and the worker may call, and what goes on   *)
(* in between.                                                             *)
(***************************************************************************)
Preparation ==
  \E u \in Users :
    \/ \E w \in Workspaces :
         \/ CreateWorkspace(u, w)
         \/ \E d \in Devices : RegisterDevice(u, w, d)
         \/ \E a \in Applications, kind \in {"web", "desktop"} : CreateApplication(u, w, a, kind)
    \/ \E r \in Releases :
         \/ \E a \in Applications : CreateRelease(u, a, r)
         \/ CreateArtifact(u, r) \/ FinalizeArtifact(u, r) \/ SubmitRelease(u, r)
         \/ \E decision \in {"approved", "rejected"} : CreateReview(u, r, decision)

Orders ==
  \E u \in Users :
    \/ \E a \in Applications, r \in Releases : Promote(u, a, r)
    \/ \E d \in Devices :
         \/ RevokeDevice(u, d)
         \/ \E r \in Releases :
              \/ ApprovePermissionGrant(u, d, r) \/ RevokePermissionGrant(u, d, r)
              \/ RequestInstallation(u, d, r)
              \/ \E s \in Schedules : CreateSchedule(u, s, d, r) \/ UpdateSchedule(u, s, d, r)
              \/ \E n \in Runs : CreateManualRun(u, n, d, r)
    \/ \E s \in Schedules : ResumeSchedule(u, s) \/ PauseSchedule(u, s)
    \/ \E n \in Runs : CancelRun(u, n)

DeviceRoutes ==
  \E d \in Devices :
    \/ SyncInstallations(d) \/ SyncSchedules(d) \/ ClaimRuns(d)
    \/ \E r \in Releases : \/ \E to \in {"downloading", "failed", "removed"} :
                                UpdateInstallationStatus(d, r, to)
                           \/ ReportInstalled(d, r)
    \/ \E n \in Runs, to \in Open \cup {"succeeded", "failed", "cancelled"} : ReportRun(d, n, to)

WorkerRoute == \E r \in Releases, success \in BOOLEAN : ApplyValidationResult(r, success)

QueueProceeds ==
  \/ InstallationRequested \/ InstallationInstalled
  \/ ScheduleCreated \/ ScheduleUpdated \/ ScheduleResumed
  \/ RunCreated \/ SchedulesListed
  \/ \E s \in Schedules : CheckSchedule(s)
  \/ \E n \in Runs : ClaimRun(n)

AnswersProceed ==
  \E d \in Devices :
    \/ \E r \in Releases : AuthorizeInstallation(d, r)
    \/ InstallationsAnswered(d) \/ InstallationsRefused(d) \/ InstallationsLost(d)
    \/ RefreshLeases(d)
    \/ \E s \in Schedules : AuthorizeScheduleRecord(d, s)
    \/ SchedulesAnswered(d) \/ SchedulesRefused(d) \/ SchedulesLost(d)

Next ==
  \/ Orders /\ orders < MaxOrders /\ orders' = orders + 1
  \/ /\ \/ Preparation \/ DeviceRoutes \/ WorkerRoute \/ QueueProceeds \/ AnswersProceed
        \/ \E d \in Devices, r \in Releases : GrantExpires(d, r)
     /\ UNCHANGED orders

Spec == Init /\ [][Next]_vars

-----------------------------------------------------------------------------
DeviceRow      == [status : {"absent", "active", "revoked"}, workspace : Workspaces \cup {None},
                   owner : Users \cup {None}, revision : Nat]
ApplicationRow == [kind : {"absent", "web", "desktop"}, workspace : Workspaces \cup {None}]
ReleaseRow     == [status : {"absent", "draft", "uploading", "validating", "ready", "approved", "rejected"},
                   application : Applications \cup {None},
                   artifact : {"absent", "pending_upload", "uploaded", "validated", "rejected"}]
ScheduleRow    == [status : {"absent", "active", "paused", "disabled"}, workspace : Workspaces \cup {None},
                   release : Releases \cup {None}, target : Devices \cup {None}, revision : Nat,
                   createdBy : Users \cup {None}]
RunRow         == [status : DOMAIN AllowedRun, workspace : Workspaces \cup {None},
                   release : Releases \cup {None}, device : Devices \cup {None}, cancel : BOOLEAN,
                   triggeredBy : Users \cup {None}]
Operation ==
  {Idle}
  \cup [op : {"install", "installed"}, device : Devices, release : Releases]
  \cup [op : {"create"}, device : Devices, release : Releases, schedule : Schedules, user : Users]
  \cup [op : {"update", "resume"}, device : Devices, release : Releases, schedule : Schedules]
  \cup [op : {"run"}, device : Devices, release : Releases, run : Runs, user : Users]
  \cup [op : {"sync"}, device : Devices, refresh : BOOLEAN, todo : SUBSET Schedules]
  \cup [op : {"claim"}, device : Devices, todo : SUBSET Runs]

\* The rows of the tables and the operation that has the queue.
TypeOK ==
  /\ owner \in [Workspaces -> Users \cup {None}]
  /\ device \in [Devices -> DeviceRow]
  /\ application \in [Applications -> ApplicationRow]
  /\ release \in [Releases -> ReleaseRow]
  /\ channel \in [Applications -> Releases \cup {None}]
  /\ grant \in [Devices -> [Releases -> {"absent", "active", "expired", "revoked"}]]
  /\ installation \in [Devices -> [Releases -> DOMAIN AllowedInstallation]]
  /\ schedule \in [Schedules -> ScheduleRow]
  /\ revision \in [Workspaces -> Nat]
  /\ run \in [Runs -> RunRow]
  /\ writer \in Operation

WorkspaceOf(r) == application[release[r].application].workspace

\* A device works only for its owner and inside its workspace: whatever is
\* recorded for it, be it a grant, an installation, a schedule or a run, is of
\* a release of its own workspace, and schedules and runs were ordered by the
\* user who owns it, also after a schedule has moved between devices.
DeviceObeysItsOwner ==
  /\ \A d \in Devices, r \in Releases :
       grant[d][r] # "absent" \/ installation[d][r] # "absent" =>
         device[d].workspace = WorkspaceOf(r)
  /\ \A s \in Schedules : schedule[s].status # "absent" =>
       LET d == schedule[s].target IN
         /\ schedule[s].createdBy = device[d].owner
         /\ schedule[s].workspace = device[d].workspace
         /\ device[d].workspace = WorkspaceOf(schedule[s].release)
  /\ \A n \in Runs : run[n].status # "absent" =>
       LET d == run[n].device IN
         /\ run[n].triggeredBy = device[d].owner
         /\ device[d].workspace = WorkspaceOf(run[n].release)

\* Nothing waits for a device after its owner has withdrawn the permission:
\* the grant behind a queued run or an active schedule may have run out, but
\* it is not revoked.  The changes that check a grant and are suspended rely
\* on the queue for this.
NoWorkWithoutGrant ==
  /\ \A n \in Runs : run[n].status = "queued" =>
       grant[run[n].device][run[n].release] \in {"active", "expired"}
  /\ \A s \in Schedules : schedule[s].status = "active" =>
       grant[schedule[s].target][schedule[s].release] \in {"active", "expired"}

\* A device whose copy is of the current revision has exactly the schedules
\* that are active and meant for it, whichever snapshots and deltas brought it
\* there and however many answers got lost.
CopiesTellTheTable ==
  \A d \in Devices :
    device[d].status # "absent" /\ copy[d].at = revision[device[d].workspace] =>
      copy[d].held = {s \in Schedules : schedule[s].target = d /\ schedule[s].status = "active"}

\* A device that is up to date was told of every open request, but for those
\* that came while a synchronisation was under way and those whose grant was
\* not active at the time.
RequestsAreSeen ==
  \A d \in Devices, r \in Releases :
    installation[d][r] = "requested" /\ seen[d].at = device[d].revision =>
      r \in seen[d].requests \cup seen[d].excused
=============================================================================
