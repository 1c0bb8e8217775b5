------------------------- MODULE InstallationSync -------------------------
(***************************************************************************)
(* Installations of one device: the control plane's rows, the snapshot the *)
(* Agent fetches when the device's installation revision has moved, and    *)
(* the status reports that travel back through the Agent's outbox.         *)
(*                                                                         *)
(*   status, grant, release  the API's rows, one release per installation  *)
(*   revision       devices.installationRevision                           *)
(*   local          the Agent's copy: `files' is a directory without a row *)
(*   committed      installation_sync_state; outbox: the pending reports   *)
(*   pc, todo, target, waiting, batch, cur  the background thread in       *)
(*                  run_control_plane_cycle                                *)
(*   late           requests the Agent stopped waiting for                 *)
(*   requests, changes, faults  counters of what users did and what failed *)
(* For the properties:                                                     *)
(*   round          how often the installation was requested; a report     *)
(*                  names the round of the snapshot that caused it         *)
(*   verdict        the round of the report that settled the installation  *)
(*   excluded       left out of the last snapshot for want of a grant      *)
(*   refused        had a report rejected, which stays and is sent again   *)
(***************************************************************************)
EXTENDS DesktopReleases

CONSTANTS
  Installations,
  Catalogs,     \* the releases that may be behind the installations
  MaxRequests,  \* bound on the requests for installations
  MaxChanges,   \* bound on grants changed and copies touched by users
  MaxFaults,    \* bound on lost answers, failed installations and crashes
  Backoff       \* cycles a report sits out after it was not accepted; more than
                \* the reports that are rejected for ever, or they hold up the rest

ASSUME InstallationBoundAssumption ==
  MaxRequests \in Nat /\ MaxChanges \in Nat /\ MaxFaults \in Nat
ASSUME BackoffAssumption == Backoff \in Nat

VARIABLES status, grant, release, revision, local, committed, outbox,
          pc, todo, target, waiting, batch, cur, late,
          requests, changes, faults, round, verdict, excluded, refused

server   == <<status, grant, release, revision>>
thread   == <<pc, todo, target, waiting, batch, cur>>
counters == <<requests, changes, faults>>
history  == <<round, verdict, excluded, refused>>
vars == <<server, local, committed, outbox, thread, late, counters, history>>

Pending == {"requested", "downloading"}
Settled == {"installed", "failed"}
NoReport == [inst |-> "none"]

Init ==
  /\ status = [i \in Installations |-> "absent"]
  /\ grant = [i \in Installations |-> TRUE]
  /\ release \in Catalogs
  /\ revision = 0
  /\ local = [i \in Installations |-> "absent"]
  /\ committed = 0 /\ outbox = <<>>
  /\ pc = "idle" /\ todo = {} /\ target = 0 /\ waiting = FALSE
  /\ batch = {} /\ cur = NoReport
  /\ late = {}
  /\ requests = 0 /\ changes = 0 /\ faults = 0
  /\ round = [i \in Installations |-> 0]
  /\ verdict = [i \in Installations |-> 0]
  /\ excluded = {} /\ refused = {}
-----------------------------------------------------------------------------
(* The control plane. *)

\* A request for what is already requested or installed changes nothing.
\* Nobody asks whether the release has a runtime for the device.
RequestInstallation(i) ==
  /\ requests < MaxRequests
  /\ grant[i]
  /\ status[i] \in {"absent", "failed"}
  /\ requests' = requests + 1
  /\ status' = [status EXCEPT ![i] = "requested"]
  /\ revision' = revision + 1
  /\ round' = [round EXCEPT ![i] = @ + 1]
  /\ UNCHANGED <<grant, release, local, committed, outbox, thread, late, changes,
                 faults, verdict, excluded, refused>>

\* The grant expires, is revoked, or is approved again; no revision moves.
GrantChanges(i) ==
  /\ changes < MaxChanges
  /\ changes' = changes + 1
  /\ grant' = [grant EXCEPT ![i] = ~@]
  /\ UNCHANGED <<status, release, revision, local, committed, outbox, thread, late,
                 requests, faults, history>>

Allowed(from, to) ==
  \/ from = "requested" /\ to \in {"downloading", "failed"}
  \/ from = "downloading" /\ to \in {"installed", "failed"}

Accepts(r) ==
  \/ status[r.inst] = r.status
  \/ Allowed(status[r.inst], r.status) /\ (r.status = "installed" => grant[r.inst])

UpdateInstallationStatus(r) ==
  /\ status' = [status EXCEPT ![r.inst] = r.status]
  /\ verdict' = IF status[r.inst] # r.status /\ r.status \in Settled
                THEN [verdict EXCEPT ![r.inst] = r.round] ELSE verdict

LateReportExecutes(r) ==
  /\ late' = late \ {r}
  /\ IF Accepts(r) THEN UpdateInstallationStatus(r) ELSE UNCHANGED <<status, verdict>>
  /\ UNCHANGED <<grant, release, revision, local, committed, outbox, thread,
                 counters, round, excluded, refused>>

LateReportIsLost(r) ==
  /\ late' = late \ {r}
  /\ UNCHANGED <<server, local, committed, outbox, thread, counters, history>>
-----------------------------------------------------------------------------
(* The background thread: flush, fetch, apply, commit, flush. *)
Goto(place) == pc' = place /\ UNCHANGED <<todo, target, waiting, batch, cur>>

Report(e) == [inst |-> e.inst, status |-> e.status, round |-> e.round]

\* The reports that are due are read once, and sent in the outbox's order.
BeginFlush(from, to) ==
  /\ pc = from
  /\ pc' = to
  /\ batch' = {Report(outbox'[n]) : n \in {m \in DOMAIN outbox' : outbox'[m].wait = 0}}
  /\ UNCHANGED <<server, local, committed, todo, target, waiting, cur, late,
                 counters, history>>

\* Every cycle is a step nearer to the next attempt of a report.
BeginCycle ==
  /\ outbox' = [n \in DOMAIN outbox |-> [outbox[n] EXCEPT !.wait = IF @ = 0 THEN 0 ELSE @ - 1]]
  /\ BeginFlush("idle", "flush")

FlushAgain == UNCHANGED outbox /\ BeginFlush("applied", "reflush")

Sending(n) ==
  /\ pc \in {"flush", "reflush"}
  /\ Report(outbox[n]) \in batch
  /\ \A m \in DOMAIN outbox : m < n => Report(outbox[m]) \notin batch

\* Mutant: a delivered report is not acknowledged.
Unacknowledged(n) == outbox

Without(n) == RemoveAt(outbox, n)

ReportAccepted(n) ==
  LET e == Report(outbox[n])
  IN  /\ Sending(n)
      /\ Accepts(e)
      /\ UpdateInstallationStatus(e)
      /\ outbox' = Without(n)
      /\ batch' = batch \ {e}
      /\ UNCHANGED <<grant, release, revision, local, committed, pc, todo, target,
                     waiting, cur, late, counters, round, excluded, refused>>

\* Mutant: the next attempt is due at once.
FlushFailsAtOnce(n) ==
  /\ pc' = "idle" /\ batch' = {}
  /\ UNCHANGED <<server, local, committed, outbox, todo, target, waiting, cur,
                 requests, changes, round, verdict, excluded>>

\* A report that is not accepted ends the flush, and the cycle's
\* installation part with it; the report waits for its next attempt.
FlushFails(n) ==
  /\ outbox' = [outbox EXCEPT ![n].wait = Backoff]
  /\ pc' = "idle" /\ batch' = {}
  /\ UNCHANGED <<server, local, committed, todo, target, waiting, cur,
                 requests, changes, round, verdict, excluded>>

ReportRejected(n) ==
  /\ Sending(n)
  /\ ~Accepts(Report(outbox[n]))
  /\ FlushFails(n)
  /\ refused' = refused \cup {outbox[n].inst}
  /\ UNCHANGED <<late, faults>>

ReportTimesOut(n) ==
  /\ Sending(n)
  /\ faults < MaxFaults
  /\ faults' = faults + 1
  /\ late' = late \cup {Report(outbox[n])}
  /\ FlushFails(n)
  /\ UNCHANGED refused

FlushDone ==
  /\ pc \in {"flush", "reflush"} /\ batch = {}
  /\ Goto(IF pc = "flush" THEN "fetch" ELSE "idle")
  /\ UNCHANGED <<server, local, committed, outbox, late, counters, history>>

\* syncInstallations, answered by the rows that have an active grant.
Listed == {i \in Installations : status[i] \in Pending \cup {"installed"} /\ grant[i]}
Item(i) == [inst |-> i, status |-> status[i], round |-> round[i]]

\* The API cannot make an item without a runtime for the device, and the
\* Agent refuses a snapshot with an item it cannot read: it is all or none.
Deliverable(i) == Servable(release[i]) /\ Readable(InstallationItem(release[i]))

FetchInstallationSync ==
  /\ pc = "fetch"
  /\ committed = revision \/ \A i \in Listed : Deliverable(i)
  /\ IF committed = revision
     THEN Goto("applied") /\ UNCHANGED excluded
     ELSE /\ pc' = "apply"
          /\ todo' = {Item(i) : i \in Listed}
          /\ target' = revision
          /\ waiting' = FALSE
          /\ excluded' = {i \in Installations : status[i] \in Pending} \ Listed
          /\ UNCHANGED <<batch, cur>>
  /\ UNCHANGED <<server, local, committed, outbox, late, counters, round, verdict,
                 refused>>

SnapshotRefused ==
  /\ pc = "fetch"
  /\ committed # revision
  /\ \E i \in Listed : ~Deliverable(i)
  /\ Goto("applied")
  /\ UNCHANGED <<server, local, committed, outbox, late, counters, history>>

\* The request or its answer is lost, or a grant goes before the item is signed.
FetchFails ==
  /\ pc = "fetch"
  /\ faults < MaxFaults
  /\ faults' = faults + 1
  /\ Goto("applied")
  /\ UNCHANGED <<server, local, committed, outbox, late, requests, changes, history>>

\* INSERT OR IGNORE on the installation and the status.
Enqueued(item, result) ==
  IF \E n \in DOMAIN outbox : outbox[n].inst = item.inst /\ outbox[n].status = result
  THEN outbox
  ELSE Append(outbox, [inst |-> item.inst, status |-> result, round |-> item.round,
                       wait |-> 0])

\* What is present is reported, what is requested announced, what is
\* downloading (or installed, but no longer here) installed.
ApplyItem(item) ==
  /\ pc = "apply"
  /\ item \in todo
  /\ todo' = todo \ {item}
  /\ \/ /\ local[item.inst] = "present"
        /\ outbox' = IF item.status = "installed" THEN outbox
                     ELSE Enqueued(item, "installed")
        /\ UNCHANGED <<pc, waiting, cur>>
     \/ /\ local[item.inst] # "present"
        /\ item.status = "requested"
        /\ outbox' = Enqueued(item, "downloading")
        /\ waiting' = TRUE
        /\ UNCHANGED <<pc, cur>>
     \/ /\ local[item.inst] # "present"
        /\ item.status \in {"downloading", "installed"}
        /\ pc' = "install" /\ cur' = item
        /\ UNCHANGED <<outbox, waiting>>
  /\ UNCHANGED <<server, local, committed, target, batch, late, counters, history>>

\* install_synced: the directory, then the row.
PlaceFiles ==
  /\ pc = "install"
  /\ local[cur.inst] = "absent"
  /\ Installable(release[cur.inst])
  /\ local' = [local EXCEPT ![cur.inst] = "files"]
  /\ Goto("activate")
  /\ UNCHANGED <<server, committed, outbox, late, counters, history>>

ActivateInstall ==
  /\ pc = "activate"
  /\ local' = [local EXCEPT ![cur.inst] = "present"]
  /\ Goto("installed")
  /\ UNCHANGED <<server, committed, outbox, late, counters, history>>

\* The release does not pass the Agent's checks, something is there already,
\* or the download or the activation fails.
InstallFails ==
  /\ pc \in {"install", "activate"}
  /\ \/ /\ pc = "install"
        /\ local[cur.inst] # "absent" \/ ~Installable(release[cur.inst])
        /\ UNCHANGED faults
     \/ /\ pc = "install" => local[cur.inst] = "absent" /\ Installable(release[cur.inst])
        /\ faults < MaxFaults
        /\ faults' = faults + 1
  /\ local' = IF pc = "activate" THEN [local EXCEPT ![cur.inst] = "absent"] ELSE local
  /\ Goto(IF cur.status = "installed" THEN "applied" ELSE "failed")
  /\ UNCHANGED <<server, committed, outbox, late, requests, changes, history>>

\* A repair is not reported, and a failed one ended the application above.
EnqueueResult ==
  /\ pc \in {"installed", "failed"}
  /\ outbox' = IF cur.status = "installed" THEN outbox ELSE Enqueued(cur, pc)
  /\ pc' = "apply" /\ cur' = NoReport
  /\ UNCHANGED <<server, local, committed, todo, target, waiting, batch, late,
                 counters, history>>

\* Mutant: the revision is committed while a download is being announced.
CommitAlways ==
  /\ pc = "apply" /\ todo = {}
  /\ committed' = target
  /\ Goto("applied")
  /\ UNCHANGED <<server, local, outbox, late, counters, history>>

CommitRevision ==
  /\ pc = "apply" /\ todo = {}
  /\ committed' = IF waiting THEN committed ELSE target
  /\ Goto("applied")
  /\ UNCHANGED <<server, local, outbox, late, counters, history>>
-----------------------------------------------------------------------------
(* Users install and uninstall on their own, and the Agent crashes. *)
UserTouches(i) ==
  /\ changes < MaxChanges
  /\ changes' = changes + 1
  /\ \/ /\ local[i] = "absent" /\ Installable(release[i]) /\ AppletManifest(release[i].manifest)
        /\ local' = [local EXCEPT ![i] = "present"]
     \/ local[i] = "present" /\ local' = [local EXCEPT ![i] = "absent"]
  /\ UNCHANGED <<server, committed, outbox, thread, late, requests, faults, history>>

Crash ==
  /\ pc # "idle"
  /\ faults < MaxFaults
  /\ faults' = faults + 1
  /\ pc' = "idle" /\ todo' = {} /\ batch' = {} /\ cur' = NoReport
  /\ waiting' = FALSE /\ target' = 0
  /\ UNCHANGED <<server, local, committed, outbox, late, requests, changes, history>>
-----------------------------------------------------------------------------
ThreadStep ==
  \/ BeginCycle \/ FlushAgain \/ FlushDone
  \/ (\E n \in DOMAIN outbox : ReportAccepted(n) \/ ReportRejected(n))
  \/ FetchInstallationSync \/ SnapshotRefused \/ (\E item \in todo : ApplyItem(item))
  \/ PlaceFiles \/ ActivateInstall \/ EnqueueResult \/ CommitRevision
  \/ InstallFails

Next ==
  \/ ThreadStep \/ FetchFails \/ Crash
  \/ \E n \in DOMAIN outbox : ReportTimesOut(n)
  \/ \E i \in Installations : RequestInstallation(i) \/ GrantChanges(i) \/ UserTouches(i)
  \/ \E r \in late : LateReportExecutes(r) \/ LateReportIsLost(r)

Spec == Init /\ [][Next]_vars

(* The background thread runs its cycle for ever.                          *)
FairSpec == Spec /\ WF_vars(ThreadStep)
-----------------------------------------------------------------------------
Reports == [inst : Installations, status : {"downloading", "installed", "failed"},
            round : 0..MaxRequests]

(* Type invariant; the outbox holds at most one report of a status.        *)
TypeOK ==
  /\ status \in [Installations -> {"absent"} \cup Pending \cup Settled]
  /\ local \in [Installations -> {"absent", "files", "present"}]
  /\ revision \in 0..MaxRequests /\ committed \in 0..revision /\ target \in 0..revision
  /\ \A n \in DOMAIN outbox : Report(outbox[n]) \in Reports /\ outbox[n].wait \in 0..Backoff
  /\ \A m, n \in DOMAIN outbox :
       m # n => <<outbox[m].inst, outbox[m].status>> # <<outbox[n].inst, outbox[n].status>>
  /\ pc \in {"idle", "flush", "fetch", "apply", "install", "activate", "installed",
             "failed", "applied", "reflush"}
  /\ late \subseteq Reports
  /\ excluded \subseteq Installations /\ refused \subseteq Installations

HasReport(i) == \E n \in DOMAIN outbox : outbox[n].inst = i

(* A device that has committed the current revision owes no installation   *)
(* an answer: what is still pending has a report on its way, or was left   *)
(* out of the snapshot because its grant was gone.                         *)
CommittedMeansAnswered ==
  \A i \in Installations :
    /\ committed = revision /\ status[i] \in Pending
    => HasReport(i) \/ i \in excluded

(* A request is settled by what the device did for that request, not by a  *)
(* report about an earlier one, unless an answer was lost or the control   *)
(* plane had rejected a report about this installation: such a report      *)
(* stays in the outbox and may settle the next request as well.            *)
VerdictIsOfThisRequest ==
  \A i \in Installations :
    faults = 0 /\ i \notin refused /\ status[i] \in Settled => verdict[i] = round[i]

(* What can keep an installation pending for ever: no grant, a snapshot    *)
(* without it (no revision moves when the grant returns), a snapshot that  *)
(* is refused for the sake of any installation in it, a copy the Agent     *)
(* cannot replace, and a copy that was there before the Agent announced a  *)
(* download (`requested' cannot become `installed').                       *)
Blocked(i) ==
  \/ ~grant[i]
  \/ i \in excluded
  \/ \E j \in Listed : ~Deliverable(j)
  \/ \E j \in Installations : local[j] = "files"
  \/ status[i] = "requested" /\
       \E n \in DOMAIN outbox : outbox[n].inst = i /\ outbox[n].status = "installed"

(* Every requested installation is installed or fails, unless one of those *)
(* five holds for good.                                                    *)
StuckOnlyIfBlocked ==
  \A i \in Installations : <>[](status[i] \in Pending) => <>[]Blocked(i)
=============================================================================
