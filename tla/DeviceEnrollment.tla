-------------------------- MODULE DeviceEnrollment --------------------------
(***************************************************************************)
(* How a machine becomes a device and stops being one: enrolment by a      *)
(* desktop process (lib.rs, auth.rs), registration and revocation in the   *)
(* API (postgres.repository.ts), and the Agent's stored registration       *)
(* (control_plane.rs, ipc.rs, agent.rs).                                   *)
(*                                                                         *)
(* An enrolment is a sequence of calls without a lock: ask the Agent       *)
(* whether it is enrolled, prepare the machine's identity, register it     *)
(* with the API, hand the credential to the Agent, which stores it in two  *)
(* places.  The background thread goes on meanwhile, and forgets the       *)
(* registration when the API refuses the credential.  The desktop gives up *)
(* on answers, processes die, the keychain and the file system fail.       *)
(*                                                                         *)
(* The machine has one identity, so an owner has one device on it: devices *)
(* are named after their owners.                                           *)
(*                                                                         *)
(*   device    rows of `devices': status, workspace, the credential whose  *)
(*             hash is stored                                              *)
(*   issued    number of credentials made so far; a credential is its      *)
(*             number                                                      *)
(*   identity  device-identity: missing, created and still empty, written  *)
(*   config    control-plane.json: the device the Agent is enrolled as     *)
(*   keychain  the device credentials in the operating system's store      *)
(*   enrolment the enrolments of the desktop windows                       *)
(*   late      registrations the desktop gave up on and the API may still  *)
(*             execute                                                     *)
(*   cycle     the background thread in run_control_plane_cycle            *)
(*   faults    counts crashes and failing operations                       *)
(*   overlapped  noted for the properties: enrolments overlapped           *)
(***************************************************************************)
EXTENDS Naturals, FiniteSets

CONSTANTS
  Owners, Workspaces, Windows,
  NoOwner, NoWorkspace,
  MaxIssued,       \* bound on credentials
  MaxFaults        \* bound on faults

ASSUME EnrollmentAssumption ==
  /\ NoOwner \notin Owners /\ NoWorkspace \notin Workspaces
  /\ MaxIssued \in Nat /\ MaxFaults \in Nat

VARIABLES device, issued, identity, config, keychain, enrolment, late, cycle, faults, overlapped

registry == <<device, issued, late>>
stored == <<identity, config, keychain>>
enrollmentVars == <<registry, stored, enrolment, cycle, faults, overlapped>>

NoCredential == 0
Credentials == 1..MaxIssued

Registration == [owner : Owners, workspace : Workspaces]

Unregistered == [status |-> "none", workspace |-> NoWorkspace, credential |-> NoCredential]
NoEnrolment  == [at |-> "idle", owner |-> NoOwner, workspace |-> NoWorkspace, credential |-> NoCredential]
NoCycle      == [at |-> "idle", device |-> NoOwner, credential |-> NoCredential]

EnrollmentInit ==
  /\ device = [o \in Owners |-> Unregistered]
  /\ issued = 0
  /\ identity = "missing"
  /\ config = NoOwner
  /\ keychain = [o \in Owners |-> NoCredential]
  /\ enrolment = [w \in Windows |-> NoEnrolment]
  /\ late = {}
  /\ cycle = NoCycle
  /\ faults = 0
  /\ overlapped = FALSE

Fault == faults < MaxFaults /\ faults' = faults + 1
-----------------------------------------------------------------------------
(* The API. *)

\* Mutant: a device that registers again keeps its credential.
RegisteredOnce(o, ws) ==
  IF device[o].status = "none"
  THEN [device EXCEPT ![o] = [status |-> "active", workspace |-> ws, credential |-> issued + 1]]
  ELSE device

\* registerDevice: a new row, or a new credential for the old one.
Registered(o, ws) ==
  [device EXCEPT ![o] = [status |-> "active", workspace |-> ws, credential |-> issued + 1]]

\* A device that was revoked or belongs to another workspace is refused.
Registrable(o, ws) ==
  \/ device[o].status = "none"
  \/ device[o].status = "active" /\ device[o].workspace = ws

RegisterDevice(o, ws) ==
  /\ Registrable(o, ws)
  /\ issued < MaxIssued
  /\ device' = Registered(o, ws)
  /\ issued' = issued + 1

RevokeDevice(o) ==
  /\ device[o].status = "active"
  /\ device' = [device EXCEPT ![o].status = "revoked"]
  /\ UNCHANGED <<issued, late, stored, enrolment, cycle, faults, overlapped>>

\* A registration nobody waits for is executed after all, or never.
LateRegistration(r) ==
  /\ r \in late
  /\ late' = late \ {r}
  /\ RegisterDevice(r.owner, r.workspace) \/ UNCHANGED <<device, issued>>
  /\ UNCHANGED <<stored, enrolment, cycle, faults, overlapped>>

\* findActiveDeviceByCredentialHash.
Accepts(credential) ==
  \E o \in Owners : device[o].status = "active" /\ device[o].credential = credential
-----------------------------------------------------------------------------
(* The enrolment, up to its request to the Agent to store the registration. *)

Moves(w, at) == enrolment' = [enrolment EXCEPT ![w].at = at]
Ends(w) == enrolment' = [enrolment EXCEPT ![w] = NoEnrolment]

\* snapshot() shows no device.
BeginEnrollment(w, o, ws) ==
  /\ enrolment[w] = NoEnrolment
  /\ config = NoOwner
  /\ enrolment' = [enrolment EXCEPT ![w] = [NoEnrolment EXCEPT !.at = "prepare", !.owner = o, !.workspace = ws]]
  /\ overlapped' = (overlapped \/ late # {} \/ \E v \in Windows : enrolment[v] # NoEnrolment)
  /\ UNCHANGED <<registry, stored, cycle, faults>>

\* prepare_device_enrollment: the identity is read, or made in two steps.
Prepare(w) ==
  /\ enrolment[w].at = "prepare"
  /\ CASE identity = "missing" -> identity' = "empty" /\ Moves(w, "identify")
       [] identity = "empty"   -> identity' = "empty" /\ Ends(w)
       [] identity = "written" -> identity' = "written" /\ Moves(w, "register")
  /\ UNCHANGED <<registry, config, keychain, cycle, faults, overlapped>>

WriteIdentity(w) ==
  /\ enrolment[w].at = "identify"
  /\ identity' = "written"
  /\ Moves(w, "register")
  /\ UNCHANGED <<registry, config, keychain, cycle, faults, overlapped>>

Register(w) ==
  LET e == enrolment[w]
  IN  /\ e.at = "register"
      /\ RegisterDevice(e.owner, e.workspace)
      /\ enrolment' = [enrolment EXCEPT ![w].at = "complete", ![w].credential = issued + 1]
      /\ UNCHANGED <<late, stored, cycle, faults, overlapped>>

RegisterRefused(w) ==
  /\ enrolment[w].at = "register"
  /\ ~Registrable(enrolment[w].owner, enrolment[w].workspace)
  /\ Ends(w)
  /\ UNCHANGED <<registry, stored, cycle, faults, overlapped>>

\* The HTTP client or the desktop process gives up.
GiveUp(w) ==
  LET e == enrolment[w]
  IN  /\ e.at \in {"register", "complete"}
      /\ Fault
      /\ late' = IF e.at = "register" THEN late \cup {[owner |-> e.owner, workspace |-> e.workspace]} ELSE late
      /\ Ends(w)
      /\ UNCHANGED <<device, issued, stored, cycle, overlapped>>
-----------------------------------------------------------------------------
(* persist_device_registration, in a thread of the Agent. *)

Complete(w) ==
  LET e == enrolment[w]
  IN  /\ e.at = "complete"
      /\ CASE config = NoOwner -> Moves(w, "save")
           [] config = e.owner -> Moves(w, "rotate")
           [] OTHER            -> Ends(w)
      /\ UNCHANGED <<registry, stored, cycle, faults, overlapped>>

SavedCredential(w) == [keychain EXCEPT ![enrolment[w].owner] = enrolment[w].credential]

SaveCredential(w) ==
  /\ enrolment[w].at = "save"
  /\ keychain' = SavedCredential(w)
  /\ Moves(w, "write")
  /\ UNCHANGED <<registry, identity, config, cycle, faults, overlapped>>

\* The Agent is enrolled as this device already: only its credential is new.
RotateCredential(w) ==
  /\ enrolment[w].at = "rotate"
  /\ keychain' = SavedCredential(w)
  /\ Ends(w)
  /\ UNCHANGED <<registry, identity, config, cycle, faults, overlapped>>

SaveFails(w) ==
  /\ enrolment[w].at \in {"save", "rotate"}
  /\ Fault
  /\ Ends(w)
  /\ UNCHANGED <<registry, stored, cycle, overlapped>>

WriteConfig(w) ==
  /\ enrolment[w].at = "write"
  /\ config' = enrolment[w].owner
  /\ Ends(w)
  /\ UNCHANGED <<registry, identity, keychain, cycle, faults, overlapped>>

WriteConfigFails(w) ==
  /\ enrolment[w].at = "write"
  /\ Fault
  /\ keychain' = [keychain EXCEPT ![enrolment[w].owner] = NoCredential]
  /\ Ends(w)
  /\ UNCHANGED <<registry, identity, config, cycle, overlapped>>
-----------------------------------------------------------------------------
(* The background thread. *)

CycleAt(at) == cycle' = [cycle EXCEPT !.at = at]

BeginCycle ==
  /\ cycle = NoCycle
  /\ config # NoOwner
  /\ cycle' = [NoCycle EXCEPT !.at = "start", !.device = config]
  /\ UNCHANGED <<registry, stored, enrolment, faults, overlapped>>

\* Mutant: a missing credential is one more transport error.
AskQuietly ==
  /\ cycle.at \in {"start", "ready"}
  /\ cycle' = IF keychain[cycle.device] = NoCredential THEN NoCycle
              ELSE [cycle EXCEPT !.at = "asked", !.credential = keychain[cycle.device]]
  /\ UNCHANGED <<registry, stored, enrolment, faults, overlapped>>

\* request() loads the credential every time; a missing one counts as refused.
Ask ==
  /\ cycle.at \in {"start", "ready"}
  /\ cycle' = [cycle EXCEPT !.at = IF keychain[cycle.device] = NoCredential THEN "refused" ELSE "asked",
                            !.credential = keychain[cycle.device]]
  /\ UNCHANGED <<registry, stored, enrolment, faults, overlapped>>

\* Mutant: whatever is not a success invalidates the registration.
AnsweredStrictly ==
  /\ cycle.at = "asked"
  /\ CycleAt("ready") \/ CycleAt("refused")
  /\ UNCHANGED <<registry, stored, enrolment, faults, overlapped>>

Answered ==
  /\ cycle.at = "asked"
  /\ CycleAt(IF Accepts(cycle.credential) THEN "ready" ELSE "refused")
  /\ UNCHANGED <<registry, stored, enrolment, faults, overlapped>>

\* No request is left, or no answer came: the next cycle tries again.  A cycle
\* has a request at least (fetch_run_controls).
EndCycle ==
  /\ cycle.at \in {"ready", "asked"}
  /\ cycle' = NoCycle
  /\ UNCHANGED <<registry, stored, enrolment, faults, overlapped>>

\* The keychain cannot be read, which is no refusal.
LoadFails ==
  /\ cycle.at \in {"start", "ready"}
  /\ Fault
  /\ cycle' = NoCycle
  /\ UNCHANGED <<registry, stored, enrolment, overlapped>>

\* clear_device_registration: the file goes first, whatever it says by now; the
\* credential goes even if the file cannot be removed.
RemoveConfig ==
  /\ cycle.at = "refused"
  /\ \/ config' = NoOwner /\ UNCHANGED faults
     \/ config' = config /\ Fault
  /\ CycleAt("removed")
  /\ UNCHANGED <<registry, identity, keychain, enrolment, overlapped>>

DeleteCredential ==
  /\ cycle.at = "removed"
  /\ \/ keychain' = [keychain EXCEPT ![cycle.device] = NoCredential] /\ UNCHANGED faults
     \/ keychain' = keychain /\ Fault
  /\ cycle' = NoCycle
  /\ UNCHANGED <<registry, identity, config, enrolment, overlapped>>

InAgent == {"identify", "save", "rotate", "write"}

\* The Agent dies and starts again; desktop processes live on.
AgentDies ==
  /\ Fault
  /\ cycle' = NoCycle
  /\ enrolment' = [w \in Windows |-> IF enrolment[w].at \in InAgent THEN NoEnrolment ELSE enrolment[w]]
  /\ UNCHANGED <<registry, stored, overlapped>>
-----------------------------------------------------------------------------
EnrolmentStep(w) ==
  \/ \E o \in Owners, ws \in Workspaces : BeginEnrollment(w, o, ws)
  \/ Prepare(w) \/ WriteIdentity(w)
  \/ Register(w) \/ RegisterRefused(w) \/ GiveUp(w)
  \/ Complete(w)
  \/ SaveCredential(w) \/ RotateCredential(w) \/ SaveFails(w)
  \/ WriteConfig(w) \/ WriteConfigFails(w)

CycleStep == BeginCycle \/ Ask \/ LoadFails \/ Answered \/ EndCycle \/ RemoveConfig \/ DeleteCredential

EnrollmentNext ==
  \/ \E w \in Windows : EnrolmentStep(w)
  \/ \E o \in Owners : RevokeDevice(o)
  \/ \E r \in Registration : LateRegistration(r)
  \/ CycleStep
  \/ AgentDies

EnrollmentSpec == EnrollmentInit /\ [][EnrollmentNext]_enrollmentVars

(* The loop of the background thread goes on; requests are not left without *)
(* an answer for ever, and a cycle has finitely many of them.               *)
Fairness ==
  /\ WF_enrollmentVars(BeginCycle) /\ WF_enrollmentVars(Ask)
  /\ SF_enrollmentVars(Answered) /\ SF_enrollmentVars(EndCycle)
  /\ WF_enrollmentVars(RemoveConfig) /\ WF_enrollmentVars(DeleteCredential)

FairEnrollmentSpec == EnrollmentSpec /\ Fairness
-----------------------------------------------------------------------------
(* Properties *)

\* Rows, files and requests stay in their domains.
EnrollmentTypeOK ==
  /\ device \in [Owners -> [status : {"none", "active", "revoked"},
                            workspace : Workspaces \cup {NoWorkspace}, credential : 0..MaxIssued]]
  /\ issued \in 0..MaxIssued
  /\ identity \in {"missing", "empty", "written"}
  /\ config \in Owners \cup {NoOwner}
  /\ keychain \in [Owners -> 0..MaxIssued]
  /\ enrolment \in [Windows ->
       [at : {"idle", "prepare", "register", "complete"} \cup InAgent, owner : Owners \cup {NoOwner},
        workspace : Workspaces \cup {NoWorkspace}, credential : 0..MaxIssued]]
  /\ late \subseteq Registration
  /\ cycle \in [at : {"idle", "start", "ready", "asked", "refused", "removed"},
                device : Owners \cup {NoOwner}, credential : 0..MaxIssued]
  /\ faults \in 0..MaxFaults
  /\ overlapped \in BOOLEAN

Succeeds(w) == WriteConfig(w) \/ RotateCredential(w)

(* Who is told that the machine is enrolled has it enrolled with the        *)
(* credential the API knows, however many enrolments failed half-way before *)
(* it, as long as none overlapped it (desktop_device_enroll has no lock).   *)
SuccessMeansUsable ==
  [][\A w \in Windows : Succeeds(w) /\ ~overlapped =>
       LET o == enrolment[w].owner
       IN  config' = o /\ device[o].credential # NoCredential /\ keychain'[o] = device[o].credential]_enrollmentVars

(* An enrolment ends by revocation only: no failure, restart or half-done   *)
(* enrolment makes the Agent forget it or take another device's place,      *)
(* unless enrolments overlap.                                               *)
HoldsUnlessOverlapped ==
  [][config # NoOwner /\ config' # config =>
       overlapped \/ (device[config].status = "revoked" /\ config' = NoOwner)]_enrollmentVars

Usable ==
  device[config].status = "active" /\ keychain[config] = device[config].credential

(* After whatever overlap, failure or revocation the Agent does not stay    *)
(* enrolled with a credential that the API refuses.                         *)
RefusedRegistrationEnds == []<>(config = NoOwner \/ Usable)
=============================================================================
