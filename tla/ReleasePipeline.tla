-------------------------- MODULE ReleasePipeline --------------------------
(***************************************************************************)
(* How a release gets from its creation to a reviewer's decision.          *)
(*                                                                         *)
(* Publishers register and upload artifacts and submit the release         *)
(* (control-plane.service.ts, postgres.repository.ts); submission queues a *)
(* validation job in BullMQ (validation-queue.port.ts); a worker validates *)
(* the artifacts and calls the API back (apps/worker); a reviewer decides. *)
(* The repository's transactions are atomic; submission, queueing,         *)
(* validation and callback are not, and the queue may hand out a job more  *)
(* than once: workers die, lose the lock of a job, or get no answer from   *)
(* the API although it executed the callback.                              *)
(*                                                                         *)
(*   status    releases.status                                             *)
(*   artifact  artifacts: status, and the stored object, whose content is  *)
(*             immutable because its key contains its digest               *)
(*   client    the progress of each submitter inside submitRelease         *)
(*   job       the BullMQ job `release-<id>`: one per release              *)
(*   exec      the worker slots: an execution of a job, and whether it     *)
(*             still owns the job's lock                                   *)
(*   late      callbacks the worker gave up on, still to be executed       *)
(*   faults    counts crashes, lost locks, lost answers and errors         *)
(***************************************************************************)
EXTENDS Integers, FiniteSets

CONSTANTS
  Releases, Artifacts,
  Declared,      \* Declared[r]: the artifacts in r's manifest; none for links and frames
  Genuine,       \* the releases whose manifest itself passes: policy, trusted signature
  Clients,       \* submitters: CLI, CI, web remote
  Slots,         \* executions that run at a time, over all workers
  NoRelease,
  MaxAttempts,   \* `attempts` of the job
  MaxStalls,     \* maxStalledCount of BullMQ
  MaxFaults      \* bound on faults

ASSUME DeclaredAssumption == Declared \in [Releases -> SUBSET Artifacts]
ASSUME GenuineAssumption == Genuine \subseteq Releases
ASSUME NoReleaseAssumption == NoRelease \notin Releases
ASSUME LimitAssumption ==
  MaxAttempts \in Nat \ {0} /\ MaxStalls \in Nat /\ MaxFaults \in Nat

VARIABLES status, artifact, client, job, exec, late, faults

repoVars  == <<status, artifact>>
queueVars == <<job, exec>>
pipelineVars == <<status, artifact, client, job, exec, late, faults>>

Decided       == {"ready", "approved", "rejected"}
ReleaseStatus == {"absent", "draft", "uploading", "validating"} \cup Decided

AllArtifacts(r, st) == \A a \in Declared[r] : artifact[r][a].status = st
Sound(r) == r \in Genuine /\ \A a \in Declared[r] : artifact[r][a].object = "good"

NoJob   == [state |-> "none", attempts |-> 0, stalls |-> 0]
NoExec  == [at |-> "idle", release |-> NoRelease, ok |-> FALSE, owner |-> FALSE]
NoClient == [at |-> "idle", release |-> NoRelease]

PipelineInit ==
  /\ status = [r \in Releases |-> "absent"]
  /\ artifact = [r \in Releases |-> [a \in Artifacts |-> [status |-> "none", object |-> "missing"]]]
  /\ client = [c \in Clients |-> NoClient]
  /\ job = [r \in Releases |-> NoJob]
  /\ exec = [s \in Slots |-> NoExec]
  /\ late = {}
  /\ faults = 0

----------------------------------------------------------------------------
(* The publisher prepares the release. *)

CreateRelease(r) ==
  /\ status[r] = "absent"
  /\ status' = [status EXCEPT ![r] = "draft"]
  /\ UNCHANGED <<artifact, client, queueVars, late, faults>>

\* Only declared artifacts are registered, each once; the first one starts the upload.
CreateArtifact(r, a) ==
  /\ a \in Declared[r]
  /\ status[r] \in {"draft", "uploading"}
  /\ artifact[r][a].status = "none"
  /\ artifact' = [artifact EXCEPT ![r][a].status = "pending_upload"]
  /\ status' = [status EXCEPT ![r] = "uploading"]
  /\ UNCHANGED <<client, queueVars, late, faults>>

\* The publisher uses the presigned URL.  The object has the declared digest;
\* whether it passes validation is up to the publisher.
Upload(r, a, content) ==
  /\ artifact[r][a].status = "pending_upload"
  /\ artifact[r][a].object = "missing"
  /\ artifact' = [artifact EXCEPT ![r][a].object = content]
  /\ UNCHANGED <<status, client, queueVars, late, faults>>

FinalizeArtifact(r, a) ==
  /\ artifact[r][a].status = "pending_upload"
  /\ artifact[r][a].object # "missing"
  /\ artifact' = [artifact EXCEPT ![r][a].status = "uploaded"]
  /\ UNCHANGED <<status, client, queueVars, late, faults>>

----------------------------------------------------------------------------
(* Submission: read the release, maybe move it to validating, queue its job. *)

SubmitBegins(c, r) ==
  /\ client[c] = NoClient
  /\ status[r] # "absent"
  /\ client' = [client EXCEPT ![c] =
       [at |-> IF status[r] = "validating" THEN "enqueue" ELSE "submit", release |-> r]]
  /\ UNCHANGED <<repoVars, queueVars, late, faults>>

\* Mutant: submission does not wait for the uploads.
SubmitUnchecked(c) ==
  LET r == client[c].release
  IN  /\ client[c].at = "submit"
      /\ status[r] \in {"draft", "uploading"}
      /\ status' = [status EXCEPT ![r] = "validating"]
      /\ client' = [client EXCEPT ![c].at = "enqueue"]
      /\ UNCHANGED <<artifact, queueVars, late, faults>>

\* repository.submitRelease.
SubmitRelease(c) ==
  LET r == client[c].release
  IN  /\ client[c].at = "submit"
      /\ status[r] \in {"draft", "uploading"}
      /\ AllArtifacts(r, "uploaded")
      /\ status' = [status EXCEPT ![r] = "validating"]
      /\ client' = [client EXCEPT ![c].at = "enqueue"]
      /\ UNCHANGED <<artifact, queueVars, late, faults>>

SubmitRefused(c) ==
  LET r == client[c].release
  IN  /\ client[c].at = "submit"
      /\ status[r] \notin {"draft", "uploading"} \/ ~AllArtifacts(r, "uploaded")
      /\ client' = [client EXCEPT ![c] = NoClient]
      /\ UNCHANGED <<repoVars, queueVars, late, faults>>

\* queue.add: a job with this id that is still known is left as it is.
Enqueue(c) ==
  LET r == client[c].release
  IN  /\ client[c].at = "enqueue"
      /\ job' = IF job[r].state = "none" THEN [job EXCEPT ![r].state = "waiting"] ELSE job
      /\ client' = [client EXCEPT ![c] = NoClient]
      /\ UNCHANGED <<repoVars, exec, late, faults>>

\* Redis is away: 503, "retry submission safely".
EnqueueFails(c) ==
  /\ client[c].at = "enqueue"
  /\ client' = [client EXCEPT ![c] = NoClient]
  /\ UNCHANGED <<repoVars, queueVars, late, faults>>

----------------------------------------------------------------------------
(* The repository's decision about a validation result. *)

\* Mutant: a decided release may be decided again.
TakesResultAgain(r) == status[r] \in {"validating"} \cup Decided

TakesResult(r) == status[r] = "validating"

AlreadyApplied(r, ok) ==
  IF ok THEN status[r] \in {"ready", "approved"} /\ AllArtifacts(r, "validated")
        ELSE status[r] = "rejected" /\ AllArtifacts(r, "rejected")

ApplyValidationResult(r, ok) ==
  IF TakesResult(r)
  THEN /\ status' = [status EXCEPT ![r] = IF ok THEN "ready" ELSE "rejected"]
       /\ artifact' = [artifact EXCEPT ![r] = [a \in Artifacts |->
            IF a \in Declared[r]
            THEN [@[a] EXCEPT !.status = IF ok THEN "validated" ELSE "rejected"]
            ELSE @[a]]]
  ELSE UNCHANGED repoVars

ReviewRelease(r, decision) ==
  /\ status[r] = "ready"
  /\ status' = [status EXCEPT ![r] = decision]
  /\ UNCHANGED <<artifact, client, queueVars, late, faults>>

----------------------------------------------------------------------------
(* The queue and the worker. *)

\* Mutant: a job has only one attempt.
AfterFailureFinal(j) == [j EXCEPT !.attempts = @ + 1, !.state = "failed"]

\* The owner ended its attempt with an error.
AfterFailure(j) ==
  [j EXCEPT !.attempts = @ + 1,
            !.state = IF j.attempts + 1 < MaxAttempts THEN "delayed" ELSE "failed"]

\* The job was active and nobody renewed its lock.
AfterStall(j) ==
  IF j.stalls < MaxStalls THEN [j EXCEPT !.state = "waiting", !.stalls = @ + 1]
                          ELSE [j EXCEPT !.state = "failed"]

\* An execution without the lock cannot change the job.
EndsAs(s, j) ==
  /\ job' = IF exec[s].owner THEN [job EXCEPT ![exec[s].release] = j] ELSE job
  /\ exec' = [exec EXCEPT ![s] = NoExec]

AttemptFails(s)    == EndsAs(s, AfterFailure(job[exec[s].release]))
AttemptSucceeds(s) == EndsAs(s, [job[exec[s].release] EXCEPT !.state = "completed"])

TakeJob(s, r) ==
  /\ exec[s].at = "idle"
  /\ job[r].state \in {"waiting", "delayed"}
  /\ job' = [job EXCEPT ![r].state = "active"]
  /\ exec' = [exec EXCEPT ![s] = [at |-> "validate", release |-> r, ok |-> FALSE, owner |-> TRUE]]
  /\ UNCHANGED <<repoVars, client, late, faults>>

\* ReleaseValidationResultSchema: `success` is whether every artifact succeeded, so a
\* release without artifacts has no negative result.
WellFormed(r, ok) == ok \/ Declared[r] # {}

\* Mutant: one sound artifact is enough.
ValidateSome(s, ok) ==
  /\ exec[s].at = "validate"
  /\ WellFormed(exec[s].release, ok)
  /\ ok => \E a \in Declared[exec[s].release] : artifact[exec[s].release][a].object = "good"
  /\ exec' = [exec EXCEPT ![s].at = "send", ![s].ok = ok]
  /\ UNCHANGED <<repoVars, client, job, late, faults>>

\* Sound artifacts may still be found wanting: a download that fails is a failed check.
ValidateRelease(s, ok) ==
  /\ exec[s].at = "validate"
  /\ ok => Sound(exec[s].release)
  /\ WellFormed(exec[s].release, ok)
  /\ exec' = [exec EXCEPT ![s].at = "send", ![s].ok = ok]
  /\ UNCHANGED <<repoVars, client, job, late, faults>>

\* The worker parses its own result before it sends it.
ResultMalformed(s) ==
  /\ exec[s].at = "validate"
  /\ ~Sound(exec[s].release) /\ ~WellFormed(exec[s].release, FALSE)
  /\ AttemptFails(s)
  /\ UNCHANGED <<repoVars, client, late, faults>>

ValidationThrows(s) ==
  /\ exec[s].at = "validate"
  /\ faults < MaxFaults
  /\ faults' = faults + 1
  /\ AttemptFails(s)
  /\ UNCHANGED <<repoVars, client, late>>

ResultAccepted(s) ==
  /\ exec[s].at = "send"
  /\ TakesResult(exec[s].release) \/ AlreadyApplied(exec[s].release, exec[s].ok)
  /\ ApplyValidationResult(exec[s].release, exec[s].ok)
  /\ AttemptSucceeds(s)
  /\ UNCHANGED <<client, late, faults>>

ResultRefused(s) ==
  /\ exec[s].at = "send"
  /\ ~(TakesResult(exec[s].release) \/ AlreadyApplied(exec[s].release, exec[s].ok))
  /\ AttemptFails(s)
  /\ UNCHANGED <<repoVars, client, late, faults>>

\* Mutant: the worker takes no answer for a good one.
SilenceAccepted(s) ==
  /\ exec[s].at = "send"
  /\ faults < MaxFaults
  /\ faults' = faults + 1
  /\ late' = late \cup {[release |-> exec[s].release, ok |-> exec[s].ok]}
  /\ AttemptSucceeds(s)
  /\ UNCHANGED <<repoVars, client>>

\* No answer within 15 s: the API may execute the callback later, or never.
ResultUnanswered(s) ==
  /\ exec[s].at = "send"
  /\ faults < MaxFaults
  /\ faults' = faults + 1
  /\ late' = late \cup {[release |-> exec[s].release, ok |-> exec[s].ok]}
  /\ AttemptFails(s)
  /\ UNCHANGED <<repoVars, client>>

LateResultExecutes(p) ==
  /\ p \in late
  /\ ApplyValidationResult(p.release, p.ok)
  /\ late' = late \ {p}
  /\ UNCHANGED <<client, queueVars, faults>>

LateResultLost(p) ==
  /\ p \in late
  /\ late' = late \ {p}
  /\ UNCHANGED <<repoVars, client, queueVars, faults>>

WorkerCrashes(s) ==
  /\ exec[s].at # "idle"
  /\ faults < MaxFaults
  /\ faults' = faults + 1
  /\ exec' = [exec EXCEPT ![s] = NoExec]
  /\ UNCHANGED <<repoVars, client, job, late>>

Owned(r) == \E s \in Slots : exec[s].release = r /\ exec[s].owner

RecoverStalled(r) ==
  /\ job[r].state = "active" /\ ~Owned(r)
  /\ job' = [job EXCEPT ![r] = AfterStall(@)]
  /\ UNCHANGED <<repoVars, client, exec, late, faults>>

\* A worker that still executes the job did not renew its lock in time.
LoseLock(r) ==
  /\ job[r].state = "active" /\ Owned(r)
  /\ faults < MaxFaults
  /\ faults' = faults + 1
  /\ job' = [job EXCEPT ![r] = AfterStall(@)]
  /\ exec' = [s \in Slots |-> IF exec[s].release = r THEN [exec[s] EXCEPT !.owner = FALSE] ELSE exec[s]]
  /\ UNCHANGED <<repoVars, client, late>>

\* removeOnComplete, removeOnFail.
RemoveOldJob(r) ==
  /\ job[r].state \in {"completed", "failed"}
  /\ job' = [job EXCEPT ![r] = NoJob]
  /\ UNCHANGED <<repoVars, client, exec, late, faults>>

----------------------------------------------------------------------------

PublisherStep ==
  \/ \E r \in Releases : CreateRelease(r)
  \/ \E r \in Releases, a \in Artifacts :
       CreateArtifact(r, a) \/ Upload(r, a, "good") \/ Upload(r, a, "bad") \/ FinalizeArtifact(r, a)
  \/ \E c \in Clients :
       \/ \E r \in Releases : SubmitBegins(c, r)
       \/ SubmitRelease(c) \/ SubmitRefused(c) \/ Enqueue(c) \/ EnqueueFails(c)

ExecutionStep(s) ==
  \/ \E r \in Releases : TakeJob(s, r)
  \/ \E ok \in BOOLEAN : ValidateRelease(s, ok)
  \/ ResultMalformed(s)
  \/ ResultAccepted(s) \/ ResultRefused(s)

FaultStep ==
  \/ \E s \in Slots : ValidationThrows(s) \/ ResultUnanswered(s) \/ WorkerCrashes(s)
  \/ \E p \in late : LateResultExecutes(p) \/ LateResultLost(p)
  \/ \E r \in Releases : LoseLock(r)

PipelineNext ==
  \/ PublisherStep
  \/ \E s \in Slots : ExecutionStep(s)
  \/ FaultStep
  \/ \E r \in Releases :
       RecoverStalled(r) \/ RemoveOldJob(r) \/ ReviewRelease(r, "approved") \/ ReviewRelease(r, "rejected")

\* Worker processes keep taking and executing jobs, and BullMQ looks for stalled ones.
PipelineFairness ==
  /\ \A s \in Slots : WF_pipelineVars(ExecutionStep(s))
  /\ \A r \in Releases : WF_pipelineVars(RecoverStalled(r))

----------------------------------------------------------------------------
(* Properties *)

ArtifactRecord == [status : {"none", "pending_upload", "uploaded", "validated", "rejected"},
                   object : {"missing", "good", "bad"}]
ClientRecord == [at : {"submit", "enqueue"}, release : Releases] \cup {NoClient}
JobRecord    == [state : {"none", "waiting", "active", "delayed", "completed", "failed"},
                 attempts : 0..MaxAttempts, stalls : 0..MaxStalls]
ExecRecord   == [at : {"validate", "send"}, release : Releases, ok : BOOLEAN, owner : BOOLEAN]
                  \cup {NoExec}
Result       == [release : Releases, ok : BOOLEAN]

\* Every variable stays in its domain; no job makes more attempts than it has.
PipelineTypeOK ==
  /\ status \in [Releases -> ReleaseStatus]
  /\ artifact \in [Releases -> [Artifacts -> ArtifactRecord]]
  /\ client \in [Clients -> ClientRecord]
  /\ job \in [Releases -> JobRecord]
  /\ exec \in [Slots -> ExecRecord]
  /\ late \in SUBSET Result
  /\ faults \in 0..MaxFaults

\* A release and its artifacts tell the same story, whoever submitted when and in
\* whatever order results arrived: AlreadyApplied relies on it.
ArtifactsAgreeWithRelease ==
  \A r \in Releases :
    /\ status[r] = "validating" => AllArtifacts(r, "uploaded")
    /\ status[r] \in {"ready", "approved"} => AllArtifacts(r, "validated")
    /\ status[r] = "rejected" => AllArtifacts(r, "validated") \/ AllArtifacts(r, "rejected")

\* No job ends as completed while its release still waits for the result: the
\* queue's and the database's view of the validation agree.
CompletedJobMeansDecided ==
  \A r \in Releases : job[r].state = "completed" => status[r] \in Decided

\* Only a release whose objects all pass validation gets past it, although failed,
\* repeated and late executions of the same job report in any order.
OnlySoundReleasesPass ==
  \A r \in Releases : status[r] \in {"ready", "approved"} => Sound(r)

\* Release, artifacts, job and objects tell the same story at any time, although
\* submitters, executions of the job and their results overtake each other.
StoresAgree == ArtifactsAgreeWithRelease /\ CompletedJobMeansDecided /\ OnlySoundReleasesPass

\* As long as fewer executions fail than a job has attempts, a queued validation is
\* decided: a lost job, lock or answer does not leave the release validating.
QueuedReleaseIsDecided ==
  \A r \in Releases :
    (status[r] = "validating" /\ job[r].state # "none") ~> status[r] \in Decided

----------------------------------------------------------------------------
(* Why the safety properties hold: the inductive invariant of the proofs. *)

\* A job has one owner, and only while it is active; it has attempts left until it
\* has failed.
QueueInv ==
  /\ \A r \in Releases :
       /\ job[r].state \in {"none", "waiting", "active", "delayed"} => job[r].attempts < MaxAttempts
       /\ job[r].state = "completed" => status[r] \in Decided
  /\ \A s \in Slots : exec[s].owner =>
       /\ job[exec[s].release].state = "active"
       /\ \A t \in Slots : exec[t].owner /\ exec[t].release = exec[s].release => t = s

\* A good result, on its way or given up on, is about a sound release.
ResultInv ==
  /\ \A s \in Slots : exec[s].at = "send" /\ exec[s].ok => Sound(exec[s].release)
  /\ \A p \in late : p.ok => Sound(p.release)

PipelineInv ==
  /\ ArtifactsAgreeWithRelease
  /\ OnlySoundReleasesPass
  /\ QueueInv
  /\ ResultInv
=============================================================================
