---------------------------- MODULE ScheduleSync ---------------------------
(***************************************************************************)
(* How the Agent of one machine follows the schedules of its device, and   *)
(* how it executes what is due (control_plane.rs, agent.rs, db.rs, ipc.rs).*)
(*                                                                         *)
(* The Agent asks for everything (`Whole') or for the changes since its    *)
(* revision.  The API answers in several transactions: syncSchedules       *)
(* decides what to send; when nothing changed it runs a second time for a  *)
(* snapshot with fresh leases; then each record is checked again and       *)
(* signed on its own.  Any step may fail, and the Agent then keeps what it *)
(* has.  The background thread claims due schedules and runs them one by   *)
(* one between synchronisations; the claim is durable, the list of claimed *)
(* schedules is not.                                                       *)
(*                                                                         *)
(*   enrolled  control-plane.json exists                                   *)
(*   dev       the device of the present or the last enrolment             *)
(*   copy      the Agent's table schedules                                 *)
(*   at, synced, offline   the Agent's sync_state: revision, whether       *)
(*             last_sync_at is set, offline                                *)
(*   exchange  the request on its way, up to the signed answer             *)
(*   claimed   what run_due_schedules has still to start                   *)
(*   built, ran   noted for the properties: the revision of the snapshot   *)
(*             that last replaced the table; the executions, each with     *)
(*             the snapshot it goes back to                                *)
(***************************************************************************)
EXTENDS ScheduleStore

CONSTANTS
  NoDevice, Whole,
  TTL,          \* AUTHORIZATION_LEASE_TTL_SECONDS
  Period,       \* of every cron expression
  Enrollable    \* the devices this machine may be enrolled as, one per owner

ASSUME SyncAssumption ==
  /\ NoDevice \notin Devices
  /\ Whole \notin Nat
  /\ TTL \in Nat \ {0} /\ Period \in Nat \ {0}
  /\ Enrollable \subseteq Devices

VARIABLES enrolled, dev, copy, at, synced, offline, exchange, claimed, built, ran

agentVars == <<enrolled, dev, copy, at, synced, offline, claimed, built, ran>>
vars == <<storeVars, agentVars, exchange>>

Lease == [device : Devices, record : Record, issued : Nat, expires : Nat]
Copied == [next : Nat, enabled : BOOLEAN, lease : Lease]
NoCopy == [lease |-> "none"]
Held(s) == copy[s] # NoCopy

Idle == [stage |-> "idle"]
Claim == [schedule : Schedules, lease : Lease]
Execution == [schedule : Schedules, revision : Nat, built : Nat]

Init ==
  /\ StoreInit
  /\ enrolled = FALSE
  /\ dev = NoDevice
  /\ copy = [s \in Schedules |-> NoCopy]
  /\ at = 0
  /\ synced = FALSE
  /\ offline = TRUE
  /\ exchange = Idle
  /\ claimed = {}
  /\ built = 0
  /\ ran = {}
-----------------------------------------------------------------------------
(* The exchange.  Its steps in the API run beside all operations of the store. *)

\* The background thread is at the end of its cycle.
Ready == enrolled /\ exchange = Idle /\ claimed = {}

Signing(kind, to, records, removed) ==
  [stage |-> "signing", kind |-> kind, to |-> to, unsigned |-> records, signed |-> {},
   removed |-> removed]

\* The first syncSchedules of a request.
SyncSchedules ==
  LET from == IF synced THEN at ELSE Whole
      to   == revision'[Workspace[dev]]
  IN  /\ Ready
      /\ IsActive(dev)
      /\ synced => at <= revision[Workspace[dev]]
      /\ Disable(Unauthorized(dev), dev)
      /\ exchange' =
           IF from = Whole THEN Signing("snapshot", to, SnapshotFor(dev), {})
           ELSE IF from = to THEN [stage |-> "refreshing"]
           ELSE Signing("delta", to, Upserts(dev, from, changes'), Removed(dev, from, changes'))
      /\ UNCHANGED <<now, revoked, grant, agentVars>>

\* The second one, when the first found no change.
RefreshSchedules ==
  /\ exchange.stage = "refreshing"
  /\ IsActive(dev)
  /\ Disable(Unauthorized(dev), dev)
  /\ exchange' = Signing("snapshot", revision'[Workspace[dev]], SnapshotFor(dev), {})
  /\ UNCHANGED <<now, revoked, grant, agentVars>>

\* Mutants: the record may have been superseded; a paused schedule is refused.
StillSent(e) ==
  /\ schedule[e.schedule].target = dev
  /\ IsActive(dev)
  /\ GrantActive(dev, e.record.release)
StillEnabled(e) ==
  /\ e.record.enabled
  /\ StillSent(e)
  /\ schedule[e.schedule].revision = e.record.revision

\* The schedule is read again: nothing may have happened to it since.
StillCurrent(e) ==
  /\ schedule[e.schedule].target = dev
  /\ schedule[e.schedule].revision = e.record.revision
  /\ IsActive(dev)
  /\ GrantActive(dev, e.record.release)

LeaseFor(e) ==
  [device |-> dev, record |-> e.record, issued |-> now,
   expires |-> IF now + TTL < grant[dev][e.record.release] \/ grant[dev][e.record.release] = Forever
               THEN now + TTL ELSE grant[dev][e.record.release]]

AuthorizeScheduleRecord(e) ==
  /\ exchange.stage = "signing"
  /\ e \in exchange.unsigned
  /\ StillCurrent(e)
  /\ exchange' = [exchange EXCEPT !.unsigned = @ \ {e},
                                  !.signed = @ \cup {[schedule |-> e.schedule, lease |-> LeaseFor(e)]}]
  /\ UNCHANGED <<storeVars, agentVars>>

\* Anything goes wrong, in the API, on the way or in the Agent's checks.
SyncFails ==
  /\ exchange # Idle \/ Ready
  /\ exchange' = Idle
  /\ offline' = TRUE
  /\ UNCHANGED <<storeVars, enrolled, dev, copy, at, synced, claimed, built, ran>>
-----------------------------------------------------------------------------
(* The Agent. *)

\* Mutant: a lease counts whatever device it is for.
Fresh(lease) == lease.expires > now

\* verify_schedule_authorization, as far as it depends on the lease's scope and age.
Valid(lease) == lease.device = dev /\ lease.expires > now

Answered(kind) ==
  /\ exchange.stage = "signing"
  /\ exchange.kind = kind
  /\ exchange.unsigned = {}
  /\ \A c \in exchange.signed : Valid(c.lease)

\* A record as insert_schedule stores it: the signed occurrence is kept even if it is past.
Inserted(lease) == [next |-> lease.record.next, enabled |-> lease.record.enabled, lease |-> lease]
LeasesOf(s) == {c.lease : c \in {x \in exchange.signed : x.schedule = s}}

SyncSucceeds(to) ==
  /\ at' = to
  /\ synced' = TRUE
  /\ offline' = FALSE
  /\ exchange' = Idle
  /\ UNCHANGED <<storeVars, enrolled, dev, claimed, ran>>

\* Mutant: rows that the snapshot does not name stay.
ReplaceNamedSchedules ==
  /\ Answered("snapshot")
  /\ exchange.to > at
  /\ copy' = [s \in Schedules |-> IF LeasesOf(s) = {} THEN copy[s]
                                  ELSE Inserted(CHOOSE l \in LeasesOf(s) : TRUE)]
  /\ built' = exchange.to
  /\ SyncSucceeds(exchange.to)

\* A snapshot of a later revision replaces the table.
ReplaceSchedules ==
  /\ Answered("snapshot")
  /\ exchange.to > at
  /\ copy' = [s \in Schedules |-> IF LeasesOf(s) = {} THEN NoCopy
                                  ELSE Inserted(CHOOSE l \in LeasesOf(s) : TRUE)]
  /\ built' = exchange.to
  /\ SyncSucceeds(exchange.to)

\* refresh_schedule_authorization refuses a lease older than the stored one.
Replay(s, lease) ==
  /\ Held(s)
  /\ \/ lease.record.revision < copy[s].lease.record.revision
     \/ lease.record.revision = copy[s].lease.record.revision /\ lease.issued < copy[s].lease.issued

\* Mutant: a snapshot of the same revision also restores the rows.
RefreshRows ==
  /\ Answered("snapshot")
  /\ exchange.to = at
  /\ \A c \in exchange.signed : ~Replay(c.schedule, c.lease)
  /\ copy' = [s \in Schedules |-> IF LeasesOf(s) = {} \/ ~Held(s) THEN copy[s]
                                  ELSE Inserted(CHOOSE l \in LeasesOf(s) : TRUE)]
  /\ UNCHANGED built
  /\ SyncSucceeds(at)

\* A snapshot of the same revision renews the leases and nothing else.
RefreshLeases ==
  /\ Answered("snapshot")
  /\ exchange.to = at
  /\ \A c \in exchange.signed : ~Replay(c.schedule, c.lease)
  /\ copy' = [s \in Schedules |-> IF LeasesOf(s) = {} \/ ~Held(s) THEN copy[s]
                                  ELSE [copy[s] EXCEPT !.lease = CHOOSE l \in LeasesOf(s) : TRUE]]
  /\ UNCHANGED built
  /\ SyncSucceeds(at)

ApplyDelta ==
  /\ Answered("delta")
  /\ copy' = [s \in Schedules |-> IF LeasesOf(s) # {} THEN Inserted(CHOOSE l \in LeasesOf(s) : TRUE)
                                  ELSE IF s \in exchange.removed THEN NoCopy
                                  ELSE copy[s]]
  /\ UNCHANGED built
  /\ SyncSucceeds(exchange.to)

\* The user interface tells the Agent that it is offline.
MarkOffline ==
  /\ ~offline
  /\ offline' = TRUE
  /\ UNCHANGED <<storeVars, enrolled, dev, copy, at, synced, exchange, claimed, built, ran>>

Due(s) == Held(s) /\ copy[s].enabled /\ copy[s].next <= now

\* next_occurrence_after validates the row, whose intent must be the signed one.
Intact(s) ==
  copy[s].next = copy[s].lease.record.next /\ copy[s].enabled = copy[s].lease.record.enabled

NextOccurrence == now + Period

\* claim_due_schedules moves every due row on, or disables it when it is not
\* what was signed; only claims with a valid lease are kept.
ClaimDueSchedules ==
  /\ Ready
  /\ \E s \in Schedules : Due(s)
  /\ copy' = [s \in Schedules |->
                IF ~Due(s) THEN copy[s]
                ELSE IF Intact(s) THEN [copy[s] EXCEPT !.next = NextOccurrence]
                ELSE [copy[s] EXCEPT !.enabled = FALSE]]
  /\ claimed' = {[schedule |-> s, lease |-> copy[s].lease] :
                   s \in {x \in Schedules : Due(x) /\ Intact(x) /\ Valid(copy[x].lease)}}
  /\ UNCHANGED <<storeVars, enrolled, dev, at, synced, offline, exchange, built, ran>>

ExecutionOf(c) ==
  [schedule |-> c.schedule, revision |-> c.lease.record.revision, built |-> built]

Run(c) ==
  /\ c \in claimed
  /\ Valid(c.lease)
  /\ claimed' = claimed \ {c}
  /\ ran' = ran \cup {ExecutionOf(c)}
  /\ UNCHANGED <<storeVars, enrolled, dev, copy, at, synced, offline, exchange, built>>

\* It needs the foreground, is not installed, is running already, or its lease ran out.
Skip(c) ==
  /\ c \in claimed
  /\ claimed' = claimed \ {c}
  /\ UNCHANGED <<storeVars, enrolled, dev, copy, at, synced, offline, exchange, built, ran>>

AgentRestarts ==
  /\ exchange # Idle \/ claimed # {}
  /\ exchange' = Idle
  /\ claimed' = {}
  /\ UNCHANGED <<storeVars, enrolled, dev, copy, at, synced, offline, built, ran>>

\* The API or the keychain refuses the device's credential.
ClearDeviceRegistration ==
  /\ Ready
  /\ enrolled' = FALSE
  /\ offline' = TRUE
  /\ UNCHANGED <<storeVars, dev, copy, at, synced, exchange, claimed, built, ran>>

\* A registered device is enrolled; nothing else in the Agent's data changes.
PersistDeviceRegistration(d) ==
  /\ ~enrolled
  /\ IsActive(d)
  /\ d \in Enrollable
  /\ enrolled' = TRUE
  /\ dev' = d
  /\ UNCHANGED <<storeVars, copy, at, synced, offline, exchange, claimed, built, ran>>

\* One of the last n records is signed.
AuthorizeNext(n) ==
  /\ exchange.stage = "signing"
  /\ Cardinality(exchange.unsigned) = n
  /\ \E e \in exchange.unsigned : AuthorizeScheduleRecord(e)

ExchangeNext ==
  \/ SyncSchedules
  \/ RefreshSchedules
  \/ exchange.stage = "signing" /\ \E e \in exchange.unsigned : AuthorizeScheduleRecord(e)
  \/ SyncFails

AgentNext ==
  \/ ReplaceSchedules \/ RefreshLeases \/ ApplyDelta
  \/ MarkOffline
  \/ ClaimDueSchedules
  \/ \E c \in claimed : Run(c) \/ Skip(c)
  \/ AgentRestarts
  \/ ClearDeviceRegistration
  \/ \E d \in Devices : PersistDeviceRegistration(d)

Next ==
  \/ StoreNext /\ UNCHANGED <<agentVars, exchange>>
  \/ ExchangeNext
  \/ AgentNext

Spec == Init /\ [][Next]_vars

(* The loop of the background thread goes on and every request ends, if only *)
(* by a timeout.  Synchronisation may fail any number of times, but not       *)
(* forever at the same step.                                                  *)
Fairness ==
  /\ WF_vars(exchange # Idle /\ SyncFails)
  /\ SF_vars(SyncSchedules)
  /\ SF_vars(RefreshSchedules)
  /\ \A n \in 1 .. Cardinality(Schedules) : SF_vars(AuthorizeNext(n))
  /\ SF_vars(ReplaceSchedules)
  /\ SF_vars(RefreshLeases)
  /\ SF_vars(ApplyDelta)
  /\ WF_vars(\E c \in claimed : Run(c) \/ Skip(c))

FairSpec == Spec /\ Fairness
-----------------------------------------------------------------------------
StoreTypeOK ==
  /\ now \in 0 .. MaxTime
  /\ revoked \in [Devices -> Nat]
  /\ grant \in [Devices -> [Releases -> Nat]]
  /\ schedule \in [Schedules -> {NoSchedule} \cup Row]
  /\ revision \in [Workspaces -> Nat]
  /\ changes \subseteq Change

Entries == [schedule : Schedules, record : Record]
Exchange ==
       {Idle, [stage |-> "refreshing"]}
  \cup [stage : {"signing"}, kind : {"snapshot", "delta"}, to : Nat, unsigned : SUBSET Entries,
        signed : SUBSET Claim, removed : SUBSET Schedules]

(* The values of the tables of both sides, of requests and of claims. *)
TypeOK ==
  /\ StoreTypeOK
  /\ enrolled \in BOOLEAN /\ dev \in Devices \cup {NoDevice}
  /\ copy \in [Schedules -> {NoCopy} \cup Copied]
  /\ at \in Nat /\ synced \in BOOLEAN /\ offline \in BOOLEAN
  /\ exchange \in Exchange
  /\ claimed \subseteq Claim
  /\ built \in Nat
  /\ ran \subseteq Execution

(* The change log tells the same story as the table: what the log says a    *)
(* device has is what the rows give it.  Deltas are made from the log,      *)
(* snapshots from the rows (createSchedule, updateSchedule, pauseSchedule,  *)
(* revokePermissionGrant, syncSchedules).                                   *)
LogTellsTheTable ==
  \A d \in Devices :
    Published(d, revision[Workspace[d]]) =
      {Entry(s, RecordOf(schedule[s])) : s \in {x \in Schedules : Listed(x) /\ schedule[x].target = d}}

(* Whatever the Agent executes, the control plane once decided: an enabled *)
(* record of this revision for the device the Agent is enrolled as, due at  *)
(* the time (verify_schedule_authorization, claim_due_schedules).           *)
RunsAreDecisions ==
  [][\A c \in claimed : Run(c) =>
       \E h \in changes :
         /\ h.op = "upsert" /\ h.schedule = c.schedule /\ h.target = dev
         /\ h.record = c.lease.record
         /\ h.record.enabled /\ h.record.next <= now]_vars

(* A change in the control plane (pause, update, revocation of the grant or  *)
(* the device) reaches executions within the lifetime of one lease, online   *)
(* or not: authorizeScheduleRecord signs nothing that has been superseded.   *)
ChangesBindWithinLease ==
  [][\A c \in claimed : Run(c) =>
       /\ \A h \in changes :
            h.schedule = c.schedule /\ h.revision > c.lease.record.revision => now < h.at + TTL
       /\ now < revoked[dev] + TTL]_vars

(* A signed occurrence is executed once per table (claim_due_schedules moves *)
(* the row on in the transaction that claims it).  It may run again after a  *)
(* later snapshot has replaced the table, which a lease refresh also brings  *)
(* when another schedule changes between the API's two reads.                *)
OneRunPerTable == [][\A c \in claimed : Run(c) => ExecutionOf(c) \notin ran]_vars

\* What runs by schedule was decided in the control plane, and is decided anew for each run.
ExecutionsAreDecided == RunsAreDecisions /\ OneRunPerTable

CaughtUp == enrolled /\ synced /\ at = revision[Workspace[dev]]

(* An Agent that stays enrolled as an active device catches up whenever the  *)
(* control plane stops changing its schedules.                               *)
Converges == <>[](enrolled /\ IsActive(dev)) => []<>(CaughtUp /\ ~offline)
-----------------------------------------------------------------------------
HeldRecords == {Entry(s, copy[s].lease.record) : s \in {x \in Schedules : Held(x)}}

(* While the machine is enrolled as one device only:                         *)
(* the Agent's table is at all times the device's part of one revision of   *)
(* the control plane, and never goes back (apply_schedule_snapshot,          *)
(* apply_schedule_delta).                                                    *)
Replica == INSTANCE ScheduleReplica WITH
  Items     <- Entries,
  latest    <- IF dev = NoDevice THEN 0 ELSE revision[Workspace[dev]],
  published <- IF dev = NoDevice THEN [k \in {0} |-> {}]
               ELSE [k \in 0 .. revision[Workspace[dev]] |-> Published(dev, k)],
  held      <- HeldRecords
ImplementsScheduleReplica == Replica!Spec
=============================================================================
