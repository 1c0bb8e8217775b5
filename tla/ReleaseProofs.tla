--------------------------- MODULE ReleaseProofs ---------------------------
(***************************************************************************)
(* Proofs about ReleasePipeline, for every number of releases, artifacts,  *)
(* submitters and workers and every limit of the queue.                    *)
(*                                                                         *)
(* Whatever the queue does, a step changes the repository in one of a few  *)
(* ways (RepositoryMoves); what they preserve is proved once, for all the  *)
(* actions that make them.  The queue's own invariant is proved action by  *)
(* action and needs of the repository only that decisions are final and    *)
(* sound releases stay sound.                                              *)
(***************************************************************************)
EXTENDS ReleaseChannels, TLAPS

RepoTypeOK ==
  /\ status \in [Releases -> ReleaseStatus]
  /\ artifact \in [Releases -> [Artifacts -> ArtifactRecord]]

\* What a step may do to the repository.
Submitted(r) ==
  /\ status[r] \in {"draft", "uploading"} /\ AllArtifacts(r, "uploaded")
  /\ status' = [status EXCEPT ![r] = "validating"]
  /\ UNCHANGED artifact

Validated(r, ok) ==
  /\ TakesResult(r) /\ (ok => Sound(r))
  /\ ApplyValidationResult(r, ok)

RepositoryMoves ==
  \/ UNCHANGED repoVars
  \/ \E r \in Releases : CreateRelease(r)
  \/ \E r \in Releases, a \in Artifacts : CreateArtifact(r, a)
  \/ \E r \in Releases, a \in Artifacts, content \in {"good", "bad"} : Upload(r, a, content)
  \/ \E r \in Releases, a \in Artifacts : FinalizeArtifact(r, a)
  \/ \E r \in Releases : Submitted(r)
  \/ \E r \in Releases, ok \in BOOLEAN : Validated(r, ok)
  \/ \E r \in Releases, decision \in {"approved", "rejected"} : ReviewRelease(r, decision)

\* What they all preserve.
RepositoryKeeps ==
  /\ RepoTypeOK'
  /\ ArtifactsAgreeWithRelease'
  /\ OnlySoundReleasesPass'
  /\ \A r \in Releases :
       /\ Sound(r) => Sound(r)'
       /\ status[r] \in Decided => status'[r] \in Decided
       /\ status[r] = "approved" => status'[r] = "approved"

----------------------------------------------------------------------------
(* The repository *)

\* An artifact's status and object are edited independently of each other.
LEMMA RecordEdit ==
  ASSUME NEW x \in ArtifactRecord
  PROVE  /\ \A st \in {"none", "pending_upload", "uploaded", "validated", "rejected"} :
              /\ [x EXCEPT !.status = st] \in ArtifactRecord
              /\ [x EXCEPT !.status = st].status = st
              /\ [x EXCEPT !.status = st].object = x.object
         /\ \A ob \in {"missing", "good", "bad"} :
              /\ [x EXCEPT !.object = ob] \in ArtifactRecord
              /\ [x EXCEPT !.object = ob].status = x.status
              /\ [x EXCEPT !.object = ob].object = ob
  BY DEF ArtifactRecord

\* Editing one artifact of one release leaves all others alone.
LEMMA ArtifactEdit ==
  ASSUME artifact \in [Releases -> [Artifacts -> ArtifactRecord]],
         NEW r \in Releases, NEW a \in Artifacts, NEW x \in ArtifactRecord,
         artifact' = [artifact EXCEPT ![r] = [artifact[r] EXCEPT ![a] = x]]
  PROVE  /\ artifact' \in [Releases -> [Artifacts -> ArtifactRecord]]
         /\ artifact'[r][a] = x
         /\ \A b \in Artifacts \ {a} : artifact'[r][b] = artifact[r][b]
         /\ \A q \in Releases \ {r} : artifact'[q] = artifact[q]
<1>1. [artifact[r] EXCEPT ![a] = x] \in [Artifacts -> ArtifactRecord]
  OBVIOUS
<1> QED
  BY <1>1

\* The three invariants below only look at a release's status and at the status and
\* object of its declared artifacts: a release that a step leaves alone keeps them.
LEMMA OthersKept ==
  ASSUME RepoTypeOK, RepoTypeOK',
         ArtifactsAgreeWithRelease, OnlySoundReleasesPass,
         NEW r \in Releases,
         \A q \in Releases \ {r} : status'[q] = status[q] /\ artifact'[q] = artifact[q],
         status'[r] = "validating" => AllArtifacts(r, "uploaded")',
         status'[r] \in {"ready", "approved"} => AllArtifacts(r, "validated")' /\ Sound(r)',
         status'[r] = "rejected" => AllArtifacts(r, "validated")' \/ AllArtifacts(r, "rejected")',
         Sound(r) => Sound(r)',
         status[r] \in Decided => status'[r] \in Decided,
         status[r] = "approved" => status'[r] = "approved"
  PROVE  RepositoryKeeps
<1>1. ArtifactsAgreeWithRelease'
  BY DEF ArtifactsAgreeWithRelease, AllArtifacts
<1>2. OnlySoundReleasesPass'
  BY DEF OnlySoundReleasesPass, Sound
<1>3. \A q \in Releases : /\ Sound(q) => Sound(q)'
                          /\ status[q] \in Decided => status'[q] \in Decided
                          /\ status[q] = "approved" => status'[q] = "approved"
  BY DEF Sound
<1> QED
  BY <1>1, <1>2, <1>3 DEF RepositoryKeeps

LEMMA RepositoryKept ==
  ASSUME RepoTypeOK, ArtifactsAgreeWithRelease, OnlySoundReleasesPass, RepositoryMoves
  PROVE  RepositoryKeeps
<1> USE DeclaredAssumption
<1>1. CASE UNCHANGED repoVars
  BY <1>1 DEF repoVars, RepositoryKeeps, RepoTypeOK, ArtifactsAgreeWithRelease,
              OnlySoundReleasesPass, AllArtifacts, Sound
<1>2. ASSUME NEW r \in Releases, CreateRelease(r) PROVE RepositoryKeeps
  <2>1. /\ status' = [status EXCEPT ![r] = "draft"] /\ artifact' = artifact
        /\ status[r] = "absent"
    BY <1>2 DEF CreateRelease
  <2>2. RepoTypeOK'
    BY <2>1 DEF RepoTypeOK, ReleaseStatus, Decided
  <2>3. status'[r] = "draft" /\ (Sound(r) => Sound(r)')
    BY <2>1 DEF RepoTypeOK, Sound
  <2> QED
    BY <2>1, <2>2, <2>3, OthersKept DEF RepoTypeOK, Decided
<1>3. ASSUME NEW r \in Releases, NEW a \in Artifacts, CreateArtifact(r, a)
      PROVE  RepositoryKeeps
  <2> DEFINE x == [artifact[r][a] EXCEPT !.status = "pending_upload"]
  <2>1. /\ status' = [status EXCEPT ![r] = "uploading"]
        /\ artifact' = [artifact EXCEPT ![r] = [artifact[r] EXCEPT ![a] = x]]
        /\ status[r] \in {"draft", "uploading"}
    BY <1>3 DEF CreateArtifact
  <2>2. artifact[r][a] \in ArtifactRecord
    BY DEF RepoTypeOK
  <2>3. x \in ArtifactRecord /\ x.object = artifact[r][a].object
    BY <2>2, RecordEdit
  <2> HIDE DEF x
  <2>4. /\ artifact' \in [Releases -> [Artifacts -> ArtifactRecord]]
        /\ \A b \in Artifacts : artifact'[r][b].object = artifact[r][b].object
        /\ \A q \in Releases \ {r} : artifact'[q] = artifact[q]
    BY <2>1, <2>3, ArtifactEdit DEF RepoTypeOK
  <2>5. /\ status' \in [Releases -> ReleaseStatus]
        /\ status'[r] = "uploading"
        /\ \A q \in Releases \ {r} : status'[q] = status[q]
    BY <2>1 DEF RepoTypeOK, ReleaseStatus
  <2>6. Sound(r) => Sound(r)'
    BY <2>4 DEF Sound
  <2> QED
    BY <2>1, <2>4, <2>5, <2>6, OthersKept DEF RepoTypeOK, Decided
<1>4. ASSUME NEW r \in Releases, NEW a \in Artifacts, NEW content \in {"good", "bad"},
             Upload(r, a, content)
      PROVE  RepositoryKeeps
  <2> DEFINE x == [artifact[r][a] EXCEPT !.object = content]
  <2>1. /\ artifact' = [artifact EXCEPT ![r] = [artifact[r] EXCEPT ![a] = x]]
        /\ status' = status /\ artifact[r][a].object = "missing"
    BY <1>4 DEF Upload
  <2>2. artifact[r][a] \in ArtifactRecord
    BY DEF RepoTypeOK
  <2> content \in {"missing", "good", "bad"}
    OBVIOUS
  <2>3. x \in ArtifactRecord /\ x.status = artifact[r][a].status
    BY ZenonT(60), <2>2, RecordEdit
  <2> HIDE DEF x
  <2>4. /\ artifact' \in [Releases -> [Artifacts -> ArtifactRecord]]
        /\ \A b \in Artifacts : artifact'[r][b].status = artifact[r][b].status
        /\ \A b \in Artifacts \ {a} : artifact'[r][b] = artifact[r][b]
        /\ \A q \in Releases \ {r} : artifact'[q] = artifact[q]
    BY <2>1, <2>3, ArtifactEdit DEF RepoTypeOK
  <2>5. \A st : AllArtifacts(r, st)' <=> AllArtifacts(r, st)
    BY <2>4 DEF AllArtifacts
  <2>6. Sound(r) => Sound(r)'
    BY <2>1, <2>4 DEF Sound
  <2>7. /\ status[r] = "validating" => AllArtifacts(r, "uploaded")
        /\ status[r] \in {"ready", "approved"} => AllArtifacts(r, "validated") /\ Sound(r)
        /\ status[r] = "rejected" => AllArtifacts(r, "validated") \/ AllArtifacts(r, "rejected")
    BY DEF ArtifactsAgreeWithRelease, OnlySoundReleasesPass
  <2> QED
    BY <2>1, <2>4, <2>5, <2>6, <2>7, OthersKept DEF RepoTypeOK
<1>5. ASSUME NEW r \in Releases, NEW a \in Artifacts, FinalizeArtifact(r, a)
      PROVE  RepositoryKeeps
  <2> DEFINE x == [artifact[r][a] EXCEPT !.status = "uploaded"]
  <2>1. /\ artifact' = [artifact EXCEPT ![r] = [artifact[r] EXCEPT ![a] = x]]
        /\ status' = status /\ artifact[r][a].status = "pending_upload"
    BY <1>5 DEF FinalizeArtifact
  <2>2. artifact[r][a] \in ArtifactRecord
    BY DEF RepoTypeOK
  <2>3. x \in ArtifactRecord /\ x.object = artifact[r][a].object
    BY <2>2, RecordEdit
  <2> HIDE DEF x
  <2>4. /\ artifact' \in [Releases -> [Artifacts -> ArtifactRecord]]
        /\ \A b \in Artifacts : artifact'[r][b].object = artifact[r][b].object
        /\ \A b \in Artifacts \ {a} : artifact'[r][b] = artifact[r][b]
        /\ \A q \in Releases \ {r} : artifact'[q] = artifact[q]
    BY <2>1, <2>3, ArtifactEdit DEF RepoTypeOK
  <2>5. \A st \in {"uploaded", "validated", "rejected"} :
          AllArtifacts(r, st) => AllArtifacts(r, st)'
    BY <2>1, <2>4 DEF AllArtifacts
  <2>6. Sound(r) <=> Sound(r)'
    BY <2>4 DEF Sound
  <2>7. /\ status[r] = "validating" => AllArtifacts(r, "uploaded")
        /\ status[r] \in {"ready", "approved"} => AllArtifacts(r, "validated") /\ Sound(r)
        /\ status[r] = "rejected" => AllArtifacts(r, "validated") \/ AllArtifacts(r, "rejected")
    BY DEF ArtifactsAgreeWithRelease, OnlySoundReleasesPass
  <2> QED
    BY <2>1, <2>4, <2>5, <2>6, <2>7, OthersKept DEF RepoTypeOK
<1>6. ASSUME NEW r \in Releases, Submitted(r) PROVE RepositoryKeeps
  <2>1. /\ status' = [status EXCEPT ![r] = "validating"] /\ artifact' = artifact
        /\ status[r] \in {"draft", "uploading"} /\ AllArtifacts(r, "uploaded")
    BY <1>6 DEF Submitted
  <2>2. RepoTypeOK'
    BY <2>1 DEF RepoTypeOK, ReleaseStatus
  <2>3. /\ status'[r] = "validating" /\ (Sound(r) => Sound(r)')
        /\ AllArtifacts(r, "uploaded")'
    BY <2>1 DEF RepoTypeOK, Sound, AllArtifacts
  <2> QED
    BY <2>1, <2>2, <2>3, OthersKept DEF RepoTypeOK, Decided
<1>7. ASSUME NEW r \in Releases, NEW ok \in BOOLEAN, Validated(r, ok) PROVE RepositoryKeeps
  <2> DEFINE st == IF ok THEN "validated" ELSE "rejected"
  <2>1. /\ status[r] = "validating" /\ (ok => Sound(r))
        /\ status' = [status EXCEPT ![r] = IF ok THEN "ready" ELSE "rejected"]
        /\ artifact' = [artifact EXCEPT ![r] = [a \in Artifacts |->
             IF a \in Declared[r] THEN [artifact[r][a] EXCEPT !.status = st] ELSE artifact[r][a]]]
    BY <1>7 DEF Validated, ApplyValidationResult, TakesResult, RepoTypeOK
  <2> st \in {"none", "pending_upload", "uploaded", "validated", "rejected"}
    OBVIOUS
  <2>2. \A a \in Artifacts : /\ artifact'[r][a] \in ArtifactRecord
                             /\ artifact'[r][a].object = artifact[r][a].object
                             /\ a \in Declared[r] => artifact'[r][a].status = st
    <3> TAKE a \in Artifacts
    <3>1. artifact[r][a] \in ArtifactRecord
      BY DEF RepoTypeOK
    <3> DEFINE x == [artifact[r][a] EXCEPT !.status = st]
    <3>2. artifact'[r][a] = IF a \in Declared[r] THEN x ELSE artifact[r][a]
      BY <2>1 DEF RepoTypeOK
    <3> HIDE DEF st
    <3>3. x \in ArtifactRecord /\ x.status = st /\ x.object = artifact[r][a].object
      <4>1. \A u \in {"none", "pending_upload", "uploaded", "validated", "rejected"} :
              /\ [artifact[r][a] EXCEPT !.status = u] \in ArtifactRecord
              /\ [artifact[r][a] EXCEPT !.status = u].status = u
              /\ [artifact[r][a] EXCEPT !.status = u].object = artifact[r][a].object
        BY <3>1, RecordEdit
      <4> QED
        BY <4>1
    <3> HIDE DEF x
    <3> QED
      BY <3>1, <3>2, <3>3
  <2>3. RepoTypeOK'
    <3>1. status' \in [Releases -> ReleaseStatus]
      BY <2>1 DEF RepoTypeOK, ReleaseStatus, Decided
    <3>2. artifact'[r] \in [Artifacts -> ArtifactRecord]
      BY <2>1, <2>2 DEF RepoTypeOK
    <3>3. artifact' = [artifact EXCEPT ![r] = artifact'[r]]
      BY <2>1 DEF RepoTypeOK
    <3> QED
      BY <3>1, <3>2, <3>3 DEF RepoTypeOK
  <2>4. /\ status'[r] = IF ok THEN "ready" ELSE "rejected"
        /\ AllArtifacts(r, st)' /\ (Sound(r) => Sound(r)')
    BY <2>1, <2>2 DEF RepoTypeOK, AllArtifacts, Sound
  <2>5. \A q \in Releases \ {r} : status'[q] = status[q] /\ artifact'[q] = artifact[q]
    BY <2>1 DEF RepoTypeOK
  <2> QED
    BY <2>1, <2>3, <2>4, <2>5, OthersKept DEF Decided
<1>8. ASSUME NEW r \in Releases, NEW decision \in {"approved", "rejected"},
             ReviewRelease(r, decision)
      PROVE  RepositoryKeeps
  <2>1. /\ status' = [status EXCEPT ![r] = decision] /\ artifact' = artifact
        /\ status[r] = "ready" /\ AllArtifacts(r, "validated") /\ Sound(r)
    BY <1>8 DEF ReviewRelease, ArtifactsAgreeWithRelease, OnlySoundReleasesPass
  <2>2. RepoTypeOK'
    BY <2>1 DEF RepoTypeOK, ReleaseStatus, Decided
  <2>3. /\ status'[r] = decision /\ Sound(r)' /\ AllArtifacts(r, "validated")'
    BY <2>1 DEF RepoTypeOK, Sound, AllArtifacts
  <2> QED
    BY <2>1, <2>2, <2>3, OthersKept DEF RepoTypeOK, Decided
<1> QED
  BY <1>1, <1>2, <1>3, <1>4, <1>5, <1>6, <1>7, <1>8 DEF RepositoryMoves
----------------------------------------------------------------------------
(* The queue *)

WorkTypeOK ==
  /\ job \in [Releases -> JobRecord]
  /\ exec \in [Slots -> ExecRecord]

Unended == {"none", "waiting", "active", "delayed"}

\* An edited job has no owner afterwards; whoever owns another one owned it before.
LEMMA JobKept ==
  ASSUME WorkTypeOK, QueueInv, exec' \in [Slots -> ExecRecord],
         NEW r \in Releases, NEW j \in JobRecord, job' = [job EXCEPT ![r] = j],
         j.state \in Unended => j.attempts < MaxAttempts,
         j.state = "completed" => status'[r] \in Decided,
         \A q \in Releases : status[q] \in Decided => status'[q] \in Decided,
         \A s \in Slots : exec'[s].owner =>
           exec[s].owner /\ exec'[s].release = exec[s].release /\ exec[s].release # r
  PROVE  WorkTypeOK' /\ QueueInv'
<1>1. /\ job' \in [Releases -> JobRecord] /\ job'[r] = j
      /\ \A q : q # r => job'[q] = job[q]
  BY DEF WorkTypeOK
<1>2. \A q \in Releases :
        /\ job'[q].state \in Unended => job'[q].attempts < MaxAttempts
        /\ job'[q].state = "completed" => status'[q] \in Decided
  BY <1>1 DEF QueueInv, Unended
<1>3. \A s \in Slots : exec'[s].owner =>
        /\ job'[exec'[s].release].state = "active"
        /\ \A t \in Slots : exec'[t].owner /\ exec'[t].release = exec'[s].release => t = s
  BY <1>1 DEF QueueInv
<1> QED
  BY <1>1, <1>2, <1>3 DEF WorkTypeOK, QueueInv, Unended

\* Executions may end, lose their lock or go on, as long as none becomes an owner.
LEMMA ExecKept ==
  ASSUME WorkTypeOK, QueueInv, exec' \in [Slots -> ExecRecord], job' = job,
         \A q \in Releases : status[q] \in Decided => status'[q] \in Decided,
         \A s \in Slots : exec'[s].owner => exec[s].owner /\ exec'[s].release = exec[s].release
  PROVE  WorkTypeOK' /\ QueueInv'
BY DEF WorkTypeOK, QueueInv

LEMMA BusySlot ==
  ASSUME WorkTypeOK, NEW s \in Slots, exec[s].at # "idle"
  PROVE  exec[s] \in [at : {"validate", "send"}, release : Releases, ok : BOOLEAN, owner : BOOLEAN]
BY DEF WorkTypeOK, ExecRecord, NoExec

\* The owner of an active job ends its attempt; anyone else just goes away.
LEMMA EndsAsKept ==
  ASSUME WorkTypeOK, QueueInv, NEW s \in Slots, exec[s].at # "idle",
         NEW j \in JobRecord, EndsAs(s, j),
         exec[s].owner => (j.state \in Unended => j.attempts < MaxAttempts),
         j.state = "completed" => status'[exec[s].release] \in Decided,
         \A q \in Releases : status[q] \in Decided => status'[q] \in Decided
  PROVE  /\ WorkTypeOK' /\ QueueInv'
         /\ \A t \in Slots : exec'[t] = exec[t] \/ exec'[t] = NoExec
<1>1. exec[s].release \in Releases
  BY BusySlot
<1>2. /\ exec' \in [Slots -> ExecRecord] /\ exec'[s] = NoExec
      /\ \A t \in Slots \ {s} : exec'[t] = exec[t]
  BY DEF EndsAs, WorkTypeOK, ExecRecord
<1>3. \A t \in Slots : exec'[t].owner => t # s /\ exec[t].owner /\ exec'[t] = exec[t]
  BY <1>2 DEF NoExec
<1>4. CASE exec[s].owner
  <2>1. job' = [job EXCEPT ![exec[s].release] = j]
    BY <1>4 DEF EndsAs
  <2>2. \A t \in Slots : exec'[t].owner => exec[t].release # exec[s].release
    BY <1>3, <1>4 DEF QueueInv
  <2>3. WorkTypeOK' /\ QueueInv'
    BY <1>1, <1>2, <1>3, <1>4, <2>1, <2>2, JobKept
  <2> QED
    BY <2>3, <1>2
<1>5. CASE ~exec[s].owner
  <2>1. job' = job
    BY <1>5 DEF EndsAs
  <2>2. WorkTypeOK' /\ QueueInv'
    BY <1>2, <1>3, <2>1, ExecKept
  <2> QED
    BY <2>2, <1>2
<1> QED
  BY <1>4, <1>5

\* How jobs are edited: only a failure counts an attempt, and the last one is final.
LEMMA JobEdits ==
  ASSUME NEW x \in JobRecord
  PROVE  /\ \A st \in {"none", "waiting", "active", "delayed", "completed", "failed"} :
              /\ [x EXCEPT !.state = st] \in JobRecord
              /\ [x EXCEPT !.state = st].state = st
              /\ [x EXCEPT !.state = st].attempts = x.attempts
         /\ AfterStall(x) \in JobRecord
         /\ AfterStall(x).state \in {"waiting", "failed"}
         /\ AfterStall(x).attempts = x.attempts
         /\ NoJob \in JobRecord
         /\ x.attempts < MaxAttempts =>
              /\ AfterFailure(x) \in JobRecord
              /\ AfterFailure(x).state \in {"delayed", "failed"}
              /\ AfterFailure(x).state = "delayed" => AfterFailure(x).attempts < MaxAttempts
<1> USE LimitAssumption
<1>1. /\ x.attempts \in 0..MaxAttempts /\ x.stalls \in 0..MaxStalls
      /\ x = [state |-> x.state, attempts |-> x.attempts, stalls |-> x.stalls]
      /\ x.state \in {"none", "waiting", "active", "delayed", "completed", "failed"}
  BY DEF JobRecord
<1>2. \A st \in {"none", "waiting", "active", "delayed", "completed", "failed"} :
        /\ [x EXCEPT !.state = st] \in JobRecord
        /\ [x EXCEPT !.state = st].state = st
        /\ [x EXCEPT !.state = st].attempts = x.attempts
  BY DEF JobRecord
<1>3. /\ AfterStall(x) \in JobRecord /\ AfterStall(x).state \in {"waiting", "failed"}
      /\ AfterStall(x).attempts = x.attempts
  <2>1. CASE x.stalls < MaxStalls
    <3>1. AfterStall(x) = [state |-> "waiting", attempts |-> x.attempts, stalls |-> x.stalls + 1]
      BY <1>1, <2>1 DEF AfterStall, JobRecord
    <3> QED
      BY <1>1, <2>1, <3>1 DEF JobRecord
  <2>2. CASE ~(x.stalls < MaxStalls)
    <3>1. AfterStall(x) = [state |-> "failed", attempts |-> x.attempts, stalls |-> x.stalls]
      BY <1>1, <2>2 DEF AfterStall, JobRecord
    <3> QED
      BY <1>1, <2>2, <3>1 DEF JobRecord
  <2> QED
    BY <2>1, <2>2
<1>4. NoJob \in JobRecord
  BY DEF NoJob, JobRecord
<1>5. ASSUME x.attempts < MaxAttempts
      PROVE  /\ AfterFailure(x) \in JobRecord
             /\ AfterFailure(x).state \in {"delayed", "failed"}
             /\ AfterFailure(x).state = "delayed" => AfterFailure(x).attempts < MaxAttempts
  <2> DEFINE y == [state |-> x.state, attempts |-> x.attempts + 1, stalls |-> x.stalls]
  <2>1. [x EXCEPT !.attempts = @ + 1] = y
    BY <1>1 DEF JobRecord
  <2>2. x.attempts + 1 \in 0..MaxAttempts
    BY <1>1, <1>5
  <2>3. CASE x.attempts + 1 < MaxAttempts
    <3>1. AfterFailure(x) = [y EXCEPT !.state = "delayed"]
      BY <2>1, <2>3 DEF AfterFailure
    <3> QED
      BY <1>1, <2>2, <2>3, <3>1 DEF JobRecord
  <2>4. CASE ~(x.attempts + 1 < MaxAttempts)
    <3>1. AfterFailure(x) = [y EXCEPT !.state = "failed"]
      BY <2>1, <2>4 DEF AfterFailure
    <3> QED
      BY <1>1, <2>2, <3>1 DEF JobRecord
  <2> QED
    BY <2>3, <2>4
<1> QED
  BY <1>2, <1>3, <1>4, <1>5
----------------------------------------------------------------------------
(* The steps of the pipeline *)

PipelineIInv == PipelineTypeOK /\ PipelineInv

\* The repository's invariant is a fact about repository transactions; results that
\* arrive, in time or late, were computed from objects that still exist.
LEMMA PipelineMoves ==
  ASSUME PipelineIInv, PipelineNext
  PROVE  RepositoryMoves
<1> USE DEF PipelineIInv, PipelineInv
<1>1. ASSUME NEW s \in Slots, ResultAccepted(s) PROVE RepositoryMoves
  <2>1. exec[s] \in [at : {"validate", "send"}, release : Releases, ok : BOOLEAN, owner : BOOLEAN]
    BY <1>1, BusySlot DEF ResultAccepted, PipelineTypeOK, WorkTypeOK
  <2>2. exec[s].ok => Sound(exec[s].release)
    BY <1>1 DEF ResultAccepted, ResultInv
  <2> QED
    BY <1>1, <2>1, <2>2 DEF ResultAccepted, ApplyValidationResult, RepositoryMoves, Validated
<1>2. ASSUME NEW p \in late, LateResultExecutes(p) PROVE RepositoryMoves
  <2>1. p.release \in Releases /\ p.ok \in BOOLEAN /\ (p.ok => Sound(p.release))
    BY DEF PipelineTypeOK, Result, ResultInv
  <2> QED
    BY <1>2, <2>1 DEF LateResultExecutes, ApplyValidationResult, RepositoryMoves, Validated
<1>3. ASSUME NEW c \in Clients, SubmitRelease(c) PROVE RepositoryMoves
  <2>1. client[c].release \in Releases
    BY <1>3 DEF SubmitRelease, PipelineTypeOK, ClientRecord, NoClient
  <2> QED
    BY <1>3, <2>1 DEF SubmitRelease, RepositoryMoves, Submitted
<1>4. CASE PublisherStep
  BY <1>3, <1>4 DEF PublisherStep, RepositoryMoves, SubmitBegins, SubmitRefused, Enqueue, EnqueueFails
<1>5. CASE \E s \in Slots : ExecutionStep(s)
  BY <1>1, <1>5 DEF ExecutionStep, RepositoryMoves, TakeJob, ValidateRelease, ResultMalformed,
                    ResultRefused
<1>6. CASE FaultStep
  BY <1>2, <1>6 DEF FaultStep, RepositoryMoves, ValidationThrows, ResultUnanswered, WorkerCrashes,
                    LateResultLost, LoseLock
<1>7. ASSUME NEW r \in Releases,
             \/ RecoverStalled(r) \/ RemoveOldJob(r)
             \/ ReviewRelease(r, "approved") \/ ReviewRelease(r, "rejected")
      PROVE  RepositoryMoves
  BY <1>7 DEF RepositoryMoves, RecoverStalled, RemoveOldJob
<1> QED
  BY <1>4, <1>5, <1>6, <1>7 DEF PipelineNext

\* Results on their way stay correct while sound releases stay sound.
LEMMA ResultsKept ==
  ASSUME ResultInv, exec \in [Slots -> ExecRecord], late \in SUBSET Result,
         \A r \in Releases : Sound(r) => Sound(r)',
         \A t \in Slots : \/ exec'[t].at # "send" \/ ~exec'[t].ok
                          \/ exec'[t].release \in Releases /\ Sound(exec'[t].release)
                          \/ /\ exec[t].at = "send" /\ exec[t].ok
                             /\ exec'[t].release = exec[t].release,
         \A p \in late' : p \in late \/ (p \in Result /\ (p.ok => Sound(p.release)))
  PROVE  ResultInv' /\ late' \in SUBSET Result
<1>1. \A t \in Slots : exec[t].at = "send" => exec[t].release \in Releases
  BY DEF ExecRecord, NoExec
<1>2. \A p \in Result : p.release \in Releases
  BY DEF Result
<1>3. \A t \in Slots : exec'[t].at = "send" /\ exec'[t].ok =>
        exec'[t].release \in Releases /\ Sound(exec'[t].release)
  BY <1>1 DEF ResultInv
<1>4. \A p \in late' : p \in Result /\ (p.ok => Sound(p.release))
  BY DEF ResultInv
<1>5. \A r \in Releases : Sound(r) => Sound(r)'
  OBVIOUS
<1>6. (\A t \in Slots : exec[t].at = "send" /\ exec[t].ok => Sound(exec[t].release))'
  BY <1>3, <1>5 DEF Sound
<1>7. (\A p \in late : p.ok => Sound(p.release))'
  BY <1>2, <1>4, <1>5 DEF Sound
<1> QED
  BY <1>4, <1>6, <1>7 DEF ResultInv
\* What a step leaves of the queue, the workers and the submitters.
WorkKept ==
  /\ WorkTypeOK' /\ QueueInv' /\ ResultInv'
  /\ client' \in [Clients -> ClientRecord]
  /\ late' \in SUBSET Result
  /\ faults' \in 0..MaxFaults

LEMMA QuietStep ==
  ASSUME PipelineIInv, RepositoryKeeps, UNCHANGED <<job, exec, late, faults>>,
         client' \in [Clients -> ClientRecord]
  PROVE  WorkKept
<1>1. WorkTypeOK /\ exec' \in [Slots -> ExecRecord]
  BY DEF PipelineIInv, PipelineTypeOK, WorkTypeOK
<1>2. WorkTypeOK' /\ QueueInv'
  BY <1>1, ExecKept DEF PipelineIInv, PipelineInv, RepositoryKeeps
<1>3. ResultInv' /\ late' \in SUBSET Result
  <2>1. \A t \in Slots : \/ exec'[t].at # "send" \/ ~exec'[t].ok
                         \/ /\ exec[t].at = "send" /\ exec[t].ok
                            /\ exec'[t].release = exec[t].release
    OBVIOUS
  <2>2. \A p \in late' : p \in late
    OBVIOUS
  <2> QED
    BY <2>1, <2>2, ResultsKept DEF PipelineIInv, PipelineInv, PipelineTypeOK, RepositoryKeeps
<1> QED
  BY <1>2, <1>3 DEF WorkKept, PipelineIInv, PipelineTypeOK

LEMMA PublisherKept ==
  ASSUME PipelineIInv, RepositoryKeeps, PublisherStep
  PROVE  WorkKept
<1> USE DEF PipelineIInv, PipelineTypeOK
<1>1. ASSUME NEW r \in Releases, CreateRelease(r) PROVE WorkKept
  BY <1>1, QuietStep DEF CreateRelease, queueVars
<1>2. ASSUME NEW r \in Releases, NEW a \in Artifacts,
             CreateArtifact(r, a) \/ Upload(r, a, "good") \/ Upload(r, a, "bad") \/ FinalizeArtifact(r, a)
      PROVE  WorkKept
  BY <1>2, QuietStep DEF CreateArtifact, Upload, FinalizeArtifact, queueVars
<1>3. ASSUME NEW c \in Clients, NEW r \in Releases, SubmitBegins(c, r) PROVE WorkKept
  <2>1. [at |-> IF status[r] = "validating" THEN "enqueue" ELSE "submit", release |-> r] \in ClientRecord
    BY DEF ClientRecord
  <2>2. client' \in [Clients -> ClientRecord]
    BY <1>3, <2>1 DEF SubmitBegins
  <2> QED
    BY <1>3, <2>2, QuietStep DEF SubmitBegins, queueVars
<1>4. ASSUME NEW c \in Clients, SubmitRelease(c) PROVE WorkKept
  <2>1. client[c] \in [at : {"submit", "enqueue"}, release : Releases]
    BY <1>4 DEF SubmitRelease, ClientRecord, NoClient
  <2>2. [client[c] EXCEPT !.at = "enqueue"] \in ClientRecord
    BY <2>1 DEF ClientRecord
  <2>3. client' = [client EXCEPT ![c] = [client[c] EXCEPT !.at = "enqueue"]]
    BY <1>4 DEF SubmitRelease
  <2>4. client' \in [Clients -> ClientRecord]
    BY <2>2, <2>3
  <2> QED
    BY <1>4, <2>4, QuietStep DEF SubmitRelease, queueVars
<1>5. NoClient \in ClientRecord
  BY DEF ClientRecord
<1>6. ASSUME NEW c \in Clients, SubmitRefused(c) \/ EnqueueFails(c) PROVE WorkKept
  <2>1. client' \in [Clients -> ClientRecord]
    BY <1>5, <1>6 DEF SubmitRefused, EnqueueFails
  <2> QED
    BY <1>6, <2>1, QuietStep DEF SubmitRefused, EnqueueFails, queueVars
<1>7. ASSUME NEW c \in Clients, Enqueue(c) PROVE WorkKept
  <2> DEFINE r == client[c].release
             j == [job[r] EXCEPT !.state = "waiting"]
  <2>1. r \in Releases
    BY <1>7 DEF Enqueue, ClientRecord, NoClient
  <2>2. client' \in [Clients -> ClientRecord] /\ UNCHANGED <<exec, late, faults>>
    BY <1>5, <1>7 DEF Enqueue
  <2>3. CASE job[r].state # "none"
    BY <1>7, <2>2, <2>3, QuietStep DEF Enqueue
  <2>4. CASE job[r].state = "none"
    <3>1. job' = [job EXCEPT ![r] = j]
      BY <1>7, <2>4 DEF Enqueue
    <3>2. /\ j \in JobRecord /\ j.state = "waiting" /\ j.attempts = job[r].attempts
          /\ job[r].attempts < MaxAttempts
          /\ \A s \in Slots : exec[s].owner => exec[s].release # r
      <4>1. job[r] \in JobRecord
        BY <2>1
      <4>2. /\ j \in JobRecord /\ j.state = "waiting" /\ j.attempts = job[r].attempts
        BY <4>1, JobEdits
      <4> QED
        BY <2>1, <2>4, <4>2 DEF PipelineInv, QueueInv
    <3> HIDE DEF j, r
    <3>3. WorkTypeOK' /\ QueueInv'
      <4>1. WorkTypeOK /\ QueueInv /\ exec' \in [Slots -> ExecRecord]
        BY <2>2 DEF WorkTypeOK, PipelineInv
      <4>2. \A s \in Slots : exec'[s].owner =>
              exec[s].owner /\ exec'[s].release = exec[s].release /\ exec[s].release # r
        BY <2>2, <3>2
      <4> QED
        BY <2>1, <3>1, <3>2, <4>1, <4>2, JobKept DEF RepositoryKeeps
    <3>4. ResultInv' /\ late' \in SUBSET Result
      <4>1. /\ \A t \in Slots : \/ exec'[t].at # "send" \/ ~exec'[t].ok
                               \/ /\ exec[t].at = "send" /\ exec[t].ok
                                  /\ exec'[t].release = exec[t].release
            /\ \A p \in late' : p \in late
        BY <2>2
      <4> QED
        BY <4>1, ResultsKept DEF PipelineInv, RepositoryKeeps
    <3> QED
      BY <2>2, <3>3, <3>4 DEF WorkKept
  <2> QED
    BY <2>3, <2>4
<1> QED
  BY <1>1, <1>2, <1>3, <1>4, <1>6, <1>7 DEF PublisherStep
\* No execution gets a result it did not have, and no result is given up on.
LEMMA NoNewResults ==
  ASSUME PipelineIInv, RepositoryKeeps, late' \subseteq late,
         \A t \in Slots : exec'[t] = exec[t] \/ exec'[t].at # "send"
  PROVE  ResultInv' /\ late' \in SUBSET Result
BY ResultsKept DEF PipelineIInv, PipelineInv, PipelineTypeOK, RepositoryKeeps

\* An attempt that ends gives its result away, and at most fails the job.
LEMMA AttemptKept ==
  ASSUME PipelineIInv, RepositoryKeeps, NEW s \in Slots, exec[s].at # "idle",
         \/ AttemptFails(s)
         \/ AttemptSucceeds(s) /\ status'[exec[s].release] \in Decided
  PROVE  /\ WorkTypeOK' /\ QueueInv'
         /\ \A t \in Slots : exec'[t] = exec[t] \/ exec'[t] = NoExec
<1> DEFINE r == exec[s].release
<1>1. WorkTypeOK /\ QueueInv
  BY DEF PipelineIInv, PipelineInv, PipelineTypeOK, WorkTypeOK
<1>2. r \in Releases /\ job[r] \in JobRecord
  BY <1>1, BusySlot DEF WorkTypeOK
<1>3. exec[s].owner => job[r].attempts < MaxAttempts
  BY <1>1, <1>2 DEF QueueInv
<1>4. \A q \in Releases : status[q] \in Decided => status'[q] \in Decided
  BY DEF RepositoryKeeps
<1>5. CASE AttemptFails(s)
  <2>1. CASE exec[s].owner
    <3> DEFINE j == AfterFailure(job[r])
    <3>1. /\ j \in JobRecord /\ j.state \in {"delayed", "failed"}
          /\ j.state = "delayed" => j.attempts < MaxAttempts
      BY <1>2, <1>3, <2>1, JobEdits
    <3>2. EndsAs(s, j)
      BY <1>5 DEF AttemptFails
    <3> HIDE DEF j
    <3>3. /\ j.state \in Unended => j.attempts < MaxAttempts
          /\ j.state # "completed"
      BY <3>1 DEF Unended
    <3> QED
      BY <1>1, <1>4, <3>1, <3>2, <3>3, EndsAsKept
  <2>2. CASE ~exec[s].owner
    <3>1. /\ job' = job /\ exec' = [exec EXCEPT ![s] = NoExec]
      BY <1>5, <2>2 DEF AttemptFails, EndsAs
    <3>2. /\ exec' \in [Slots -> ExecRecord]
          /\ \A t \in Slots : exec'[t] = exec[t] \/ exec'[t] = NoExec
      BY <1>1, <3>1 DEF WorkTypeOK, ExecRecord
    <3>3. \A t \in Slots : exec'[t].owner => exec[t].owner /\ exec'[t].release = exec[t].release
      BY <3>2 DEF NoExec
    <3> QED
      BY <1>1, <1>4, <3>1, <3>2, <3>3, ExecKept
  <2> QED
    BY <2>1, <2>2
<1>6. CASE AttemptSucceeds(s) /\ status'[exec[s].release] \in Decided
  <2> DEFINE j == [job[r] EXCEPT !.state = "completed"]
  <2>1. j \in JobRecord /\ j.state = "completed"
    BY <1>2, JobEdits
  <2>2. EndsAs(s, j)
    BY <1>6 DEF AttemptSucceeds
  <2> HIDE DEF j
  <2>3. j.state \notin Unended
    BY <2>1 DEF Unended
  <2> QED
    BY <1>1, <1>4, <1>6, <2>1, <2>2, <2>3, EndsAsKept
<1> QED
  BY <1>5, <1>6

LEMMA ExecutionKept ==
  ASSUME PipelineIInv, RepositoryKeeps, NEW s \in Slots, ExecutionStep(s)
  PROVE  WorkKept
<1> USE DEF PipelineIInv, PipelineTypeOK
<1>0. WorkTypeOK /\ QueueInv /\ ResultInv
  BY DEF WorkTypeOK, PipelineInv
<1>1. ASSUME NEW r \in Releases, TakeJob(s, r) PROVE WorkKept
  <2> DEFINE j == [job[r] EXCEPT !.state = "active"]
             e == [at |-> "validate", release |-> r, ok |-> FALSE, owner |-> TRUE]
  <2>1. /\ job' = [job EXCEPT ![r] = j] /\ exec' = [exec EXCEPT ![s] = e]
        /\ UNCHANGED <<status, client, late, faults>>
        /\ exec[s].at = "idle" /\ job[r].state \in {"waiting", "delayed"}
    BY <1>1 DEF TakeJob, repoVars
  <2>2. j \in JobRecord /\ j.state = "active" /\ j.attempts = job[r].attempts
    BY ZenonT(60), JobEdits
  <2>3. e \in ExecRecord
    BY DEF ExecRecord
  <2> HIDE DEF j
  <2>4. /\ job' \in [Releases -> JobRecord] /\ job'[r] = j
        /\ \A q \in Releases \ {r} : job'[q] = job[q]
        /\ exec' \in [Slots -> ExecRecord] /\ exec'[s] = e
        /\ \A t \in Slots \ {s} : exec'[t] = exec[t]
    BY <2>1, <2>2, <2>3
  <2>5. \A t \in Slots : exec[t].owner => exec[t].release \in Releases \ {r}
    BY <1>0, <2>1 DEF QueueInv, ExecRecord, NoExec
  <2>6. \A q \in Releases :
          /\ job'[q].state \in {"none", "waiting", "active", "delayed"} => job'[q].attempts < MaxAttempts
          /\ job'[q].state = "completed" => status'[q] \in Decided
    BY <1>0, <2>1, <2>2, <2>4 DEF QueueInv
  <2>7. \A t \in Slots : exec'[t].owner =>
          /\ job'[exec'[t].release].state = "active"
          /\ \A u \in Slots : exec'[u].owner /\ exec'[u].release = exec'[t].release => u = t
    <3>1. \A t \in Slots : exec'[t].owner => (IF t = s THEN exec'[t].release = r
                                             ELSE exec[t].owner /\ exec'[t] = exec[t])
      BY <2>4
    <3>2. \A t \in Slots : exec'[t].owner => job'[exec'[t].release].state = "active"
      BY <1>0, <2>2, <2>4, <2>5, <3>1 DEF QueueInv
    <3>3. \A t, u \in Slots : exec'[t].owner /\ exec'[u].owner /\ exec'[u].release = exec'[t].release => u = t
      BY <1>0, <2>5, <3>1 DEF QueueInv
    <3> QED
      BY <3>2, <3>3
  <2>8. QueueInv'
    BY <2>6, <2>7 DEF QueueInv
  <2>9. ResultInv' /\ late' \in SUBSET Result
    <3>1. \A t \in Slots : exec'[t] = exec[t] \/ exec'[t].at # "send"
      BY <2>4
    <3> QED
      BY <2>1, <3>1, NoNewResults
  <2> QED
    BY <2>1, <2>4, <2>8, <2>9 DEF WorkKept, WorkTypeOK
<1>2. ASSUME NEW ok \in BOOLEAN, ValidateRelease(s, ok) PROVE WorkKept
  <2>1. exec[s] \in [at : {"validate", "send"}, release : Releases, ok : BOOLEAN, owner : BOOLEAN]
    BY <1>0, <1>2, BusySlot DEF ValidateRelease
  <2> DEFINE e == [at |-> "send", release |-> exec[s].release, ok |-> ok, owner |-> exec[s].owner]
  <2>2. exec' = [exec EXCEPT ![s] = e]
    <3> DEFINE f == [[exec[s] EXCEPT !.at = "send"] EXCEPT !.ok = ok]
    <3>1. exec' = [exec EXCEPT ![s] = f]
      BY <1>2 DEF ValidateRelease
    <3>2. f = e
      <4> DEFINE g == [at |-> "send", release |-> exec[s].release, ok |-> exec[s].ok,
                       owner |-> exec[s].owner]
      <4>1. [exec[s] EXCEPT !.at = "send"] = g
        BY <2>1
      <4>2. [g EXCEPT !.ok = ok] = e
        OBVIOUS
      <4> QED
        BY <4>1, <4>2
    <3> HIDE DEF e, f
    <3> QED
      BY <3>1, <3>2
  <2>3. e \in ExecRecord
    BY <2>1 DEF ExecRecord
  <2>4. /\ exec' \in [Slots -> ExecRecord] /\ exec'[s] = e
        /\ \A t \in Slots \ {s} : exec'[t] = exec[t]
    BY <2>2, <2>3
  <2>5. /\ UNCHANGED <<status, client, job, late, faults>> /\ (ok => Sound(exec[s].release))
    BY <1>2 DEF ValidateRelease, repoVars
  <2>6. WorkTypeOK' /\ QueueInv'
    <3>1. \A t \in Slots : exec'[t].owner => exec[t].owner /\ exec'[t].release = exec[t].release
      BY <2>4
    <3> QED
      BY <1>0, <2>4, <2>5, <3>1, ExecKept DEF RepositoryKeeps
  <2>7. ResultInv' /\ late' \in SUBSET Result
    <3>1. \A t \in Slots : \/ exec'[t].at # "send" \/ ~exec'[t].ok
                           \/ exec'[t].release \in Releases /\ Sound(exec'[t].release)
                           \/ /\ exec[t].at = "send" /\ exec[t].ok
                              /\ exec'[t].release = exec[t].release
      BY <2>1, <2>4, <2>5
    <3>2. \A p \in late' : p \in late
      BY <2>5
    <3> QED
      BY <1>0, <3>1, <3>2, ResultsKept DEF RepositoryKeeps
  <2> QED
    BY <2>5, <2>6, <2>7 DEF WorkKept
<1>3. ASSUME ResultAccepted(s) \/ ResultRefused(s) PROVE WorkKept
  <2>1. exec[s].at = "send" /\ UNCHANGED <<client, late, faults>>
    BY <1>3 DEF ResultAccepted, ResultRefused
  <2>2. exec[s].release \in Releases /\ exec[s].ok \in BOOLEAN
    BY <1>0, <2>1, BusySlot
  <2>3. ResultAccepted(s) => status'[exec[s].release] \in Decided
    BY <2>2 DEF ResultAccepted, ApplyValidationResult, AlreadyApplied, TakesResult, repoVars, Decided
  <2>4. AttemptFails(s) \/ (AttemptSucceeds(s) /\ status'[exec[s].release] \in Decided)
    BY <1>3, <2>3 DEF ResultAccepted, ResultRefused
  <2>5. /\ WorkTypeOK' /\ QueueInv'
        /\ \A t \in Slots : exec'[t] = exec[t] \/ exec'[t] = NoExec
    BY <2>1, <2>4, AttemptKept
  <2>6. ResultInv' /\ late' \in SUBSET Result
    BY <2>1, <2>5, NoNewResults DEF NoExec
  <2> QED
    BY <2>1, <2>5, <2>6 DEF WorkKept
<1>4. ASSUME ResultMalformed(s) PROVE WorkKept
  <2>1. exec[s].at = "validate" /\ AttemptFails(s) /\ UNCHANGED <<client, late, faults>>
    BY <1>4 DEF ResultMalformed
  <2>2. /\ WorkTypeOK' /\ QueueInv'
        /\ \A t \in Slots : exec'[t] = exec[t] \/ exec'[t] = NoExec
    BY <2>1, AttemptKept
  <2>3. ResultInv' /\ late' \in SUBSET Result
    BY <2>1, <2>2, NoNewResults DEF NoExec
  <2> QED
    BY <2>1, <2>2, <2>3 DEF WorkKept
<1> QED
  BY <1>1, <1>2, <1>3, <1>4 DEF ExecutionStep
\* A job that stalls or is removed has no owner, or loses it in the same step.
LEMMA JobLeft ==
  ASSUME PipelineIInv, RepositoryKeeps, NEW r \in Releases,
         RecoverStalled(r) \/ LoseLock(r) \/ RemoveOldJob(r)
  PROVE  /\ WorkTypeOK' /\ QueueInv'
         /\ \A s \in Slots : exec'[s].at = exec[s].at /\ exec'[s].ok = exec[s].ok
                            /\ exec'[s].release = exec[s].release
<1> USE DEF PipelineIInv, PipelineInv, PipelineTypeOK
<1>0. WorkTypeOK /\ QueueInv /\ job[r] \in JobRecord
      /\ (\A q \in Releases : status[q] \in Decided => status'[q] \in Decided)
  BY DEF WorkTypeOK, RepositoryKeeps
<1>1. \A s \in Slots : LET e == [exec[s] EXCEPT !.owner = FALSE]
                     IN  /\ e \in ExecRecord /\ e.owner = FALSE
                         /\ e.at = exec[s].at /\ e.ok = exec[s].ok /\ e.release = exec[s].release
  <2> TAKE s \in Slots
  <2>1. CASE exec[s] = NoExec
    <3> DEFINE Idle == [at : {"idle"}, release : {NoRelease}, ok : {FALSE}, owner : {FALSE}]
               e    == [NoExec EXCEPT !.owner = FALSE]
    <3>1. e = NoExec
      <4>1. NoExec \in Idle /\ e \in Idle
        BY DEF NoExec
      <4>2. \A x \in Idle : x = [at |-> x.at, release |-> x.release, ok |-> x.ok, owner |-> x.owner]
        OBVIOUS
      <4>3. \A x \in Idle : x.at = "idle" /\ x.release = NoRelease /\ x.ok = FALSE /\ x.owner = FALSE
        OBVIOUS
      <4> HIDE DEF Idle, e
      <4>4. e = [at |-> "idle", release |-> NoRelease, ok |-> FALSE, owner |-> FALSE]
        BY <4>1, <4>2, <4>3
      <4> QED
        BY <4>4 DEF NoExec
    <3>2. NoExec \in ExecRecord /\ NoExec.owner = FALSE
      BY DEF ExecRecord, NoExec
    <3> QED
      BY <2>1, <3>1, <3>2
  <2>2. CASE exec[s] \in [at : {"validate", "send"}, release : Releases, ok : BOOLEAN, owner : BOOLEAN]
    BY <2>2 DEF ExecRecord
  <2> QED
    BY <2>1, <2>2 DEF ExecRecord
<1>2. /\ exec' \in [Slots -> ExecRecord]
      /\ \A s \in Slots :
           /\ exec'[s].at = exec[s].at /\ exec'[s].ok = exec[s].ok
           /\ exec'[s].release = exec[s].release
           /\ exec'[s].owner => exec[s].owner /\ exec[s].release # r
  <2>1. CASE RecoverStalled(r) \/ RemoveOldJob(r)
    <3>1. exec' = exec
      BY <2>1 DEF RecoverStalled, RemoveOldJob
    <3>2. \A s \in Slots : exec[s].owner => exec[s].release # r
      BY <2>1 DEF RecoverStalled, RemoveOldJob, Owned, QueueInv
    <3> QED
      BY <3>1, <3>2
  <2>2. CASE LoseLock(r)
    <3>1. exec' = [s \in Slots |-> IF exec[s].release = r THEN [exec[s] EXCEPT !.owner = FALSE] ELSE exec[s]]
      BY <2>2 DEF LoseLock
    <3> DEFINE e(s) == [exec[s] EXCEPT !.owner = FALSE]
    <3>2. \A s \in Slots : e(s) \in ExecRecord /\ e(s).owner = FALSE
            /\ e(s).at = exec[s].at /\ e(s).ok = exec[s].ok /\ e(s).release = exec[s].release
      BY <1>1
    <3>3. exec' = [s \in Slots |-> IF exec[s].release = r THEN e(s) ELSE exec[s]]
      BY <3>1
    <3> HIDE DEF e
    <3> QED
      BY <3>2, <3>3
  <2> QED
    BY <2>1, <2>2
<1>3. ASSUME NEW j \in JobRecord, job' = [job EXCEPT ![r] = j],
             j.state \in Unended => j.attempts < MaxAttempts,
             j.state # "completed"
      PROVE  WorkTypeOK' /\ QueueInv'
  BY <1>0, <1>2, <1>3, JobKept
<1>4. CASE RecoverStalled(r) \/ LoseLock(r)
  <2> DEFINE j == AfterStall(job[r])
  <2>1. job' = [job EXCEPT ![r] = j] /\ job[r].state = "active"
    BY <1>4 DEF RecoverStalled, LoseLock
  <2>2. j \in JobRecord /\ j.state \in {"waiting", "failed"} /\ j.attempts = job[r].attempts
    BY <1>0, JobEdits
  <2>3. job[r].attempts < MaxAttempts
    BY <2>1 DEF QueueInv
  <2> HIDE DEF j
  <2>4. WorkTypeOK' /\ QueueInv'
    BY <1>3, <2>1, <2>2, <2>3
  <2> QED
    BY <1>2, <2>4
<1>5. CASE RemoveOldJob(r)
  <2>1. NoJob \in JobRecord /\ NoJob.state = "none" /\ NoJob.attempts < MaxAttempts
    BY LimitAssumption DEF NoJob, JobRecord
  <2>2. job' = [job EXCEPT ![r] = NoJob]
    BY <1>5 DEF RemoveOldJob
  <2>3. WorkTypeOK' /\ QueueInv'
    BY <1>3, <2>1, <2>2
  <2> QED
    BY <1>2, <2>3
<1> QED
  BY <1>4, <1>5

LEMMA FaultKept ==
  ASSUME PipelineIInv, RepositoryKeeps,
         FaultStep \/ (\E r \in Releases : RecoverStalled(r) \/ RemoveOldJob(r))
  PROVE  WorkKept
<1> USE DEF PipelineIInv, PipelineTypeOK
<1>0. /\ WorkTypeOK /\ QueueInv /\ ResultInv
      /\ \A q \in Releases : status[q] \in Decided => status'[q] \in Decided
  BY DEF WorkTypeOK, PipelineInv, RepositoryKeeps
<1>1. faults < MaxFaults => faults + 1 \in 0..MaxFaults
  BY LimitAssumption
<1>2. ASSUME NEW s \in Slots, ValidationThrows(s) PROVE WorkKept
  <2>1. /\ exec[s].at # "idle" /\ AttemptFails(s) /\ UNCHANGED <<client, late>>
        /\ faults' \in 0..MaxFaults
    BY <1>1, <1>2 DEF ValidationThrows
  <2>2. /\ WorkTypeOK' /\ QueueInv'
        /\ \A t \in Slots : exec'[t] = exec[t] \/ exec'[t] = NoExec
    BY <2>1, AttemptKept
  <2>3. ResultInv' /\ late' \in SUBSET Result
    BY <2>1, <2>2, NoNewResults DEF NoExec
  <2> QED
    BY <2>1, <2>2, <2>3 DEF WorkKept
<1>3. ASSUME NEW s \in Slots, ResultUnanswered(s) PROVE WorkKept
  <2> DEFINE p == [release |-> exec[s].release, ok |-> exec[s].ok]
  <2>1. /\ exec[s].at = "send" /\ AttemptFails(s) /\ client' = client
        /\ late' = late \cup {p} /\ faults' \in 0..MaxFaults
    BY <1>1, <1>3 DEF ResultUnanswered
  <2>2. /\ WorkTypeOK' /\ QueueInv'
        /\ \A t \in Slots : exec'[t] = exec[t] \/ exec'[t] = NoExec
    BY <2>1, AttemptKept
  <2>3. exec[s].release \in Releases /\ exec[s].ok \in BOOLEAN
    BY <1>0, <2>1, BusySlot
  <2>4. p \in Result /\ (p.ok => Sound(p.release))
    BY <1>0, <2>1, <2>3 DEF Result, ResultInv
  <2> HIDE DEF p
  <2>5. \A q \in late' : q \in late \/ (q \in Result /\ (q.ok => Sound(q.release)))
    BY <2>1, <2>4
  <2>6. \A t \in Slots : \/ exec'[t].at # "send" \/ ~exec'[t].ok
                         \/ /\ exec[t].at = "send" /\ exec[t].ok
                            /\ exec'[t].release = exec[t].release
    BY <2>2 DEF NoExec
  <2>7. ResultInv' /\ late' \in SUBSET Result
    BY <1>0, <2>5, <2>6, ResultsKept DEF RepositoryKeeps
  <2> QED
    BY <2>1, <2>2, <2>7 DEF WorkKept
<1>4. ASSUME NEW s \in Slots, WorkerCrashes(s) PROVE WorkKept
  <2>1. /\ exec' = [exec EXCEPT ![s] = NoExec] /\ UNCHANGED <<client, job, late>>
        /\ faults' \in 0..MaxFaults
    BY <1>1, <1>4 DEF WorkerCrashes
  <2>2. /\ exec' \in [Slots -> ExecRecord]
        /\ \A t \in Slots : exec'[t] = exec[t] \/ exec'[t] = NoExec
    BY <2>1 DEF ExecRecord
  <2>3. \A t \in Slots : exec'[t].owner => exec[t].owner /\ exec'[t].release = exec[t].release
    BY <2>2 DEF NoExec
  <2>4. WorkTypeOK' /\ QueueInv'
    BY <1>0, <2>1, <2>2, <2>3, ExecKept
  <2>5. ResultInv' /\ late' \in SUBSET Result
    BY <2>1, <2>2, NoNewResults DEF NoExec
  <2> QED
    BY <2>1, <2>4, <2>5 DEF WorkKept
<1>5. ASSUME NEW p \in late, LateResultExecutes(p) \/ LateResultLost(p) PROVE WorkKept
  <2>1. UNCHANGED <<client, job, exec, faults>> /\ late' \subseteq late
    BY <1>5 DEF LateResultExecutes, LateResultLost, queueVars
  <2>2. WorkTypeOK' /\ QueueInv'
    BY <1>0, <2>1, ExecKept
  <2>3. ResultInv' /\ late' \in SUBSET Result
    BY <2>1, NoNewResults
  <2> QED
    BY <2>1, <2>2, <2>3 DEF WorkKept
<1>6. ASSUME NEW r \in Releases, LoseLock(r) \/ RecoverStalled(r) \/ RemoveOldJob(r) PROVE WorkKept
  <2>1. UNCHANGED <<client, late>> /\ faults' \in 0..MaxFaults
    BY <1>1, <1>6 DEF LoseLock, RecoverStalled, RemoveOldJob
  <2>2. /\ WorkTypeOK' /\ QueueInv'
        /\ \A s \in Slots : exec'[s].at = exec[s].at /\ exec'[s].ok = exec[s].ok
                           /\ exec'[s].release = exec[s].release
    BY <1>6, JobLeft
  <2>3. ResultInv' /\ late' \in SUBSET Result
    BY <1>0, <2>1, <2>2, ResultsKept DEF RepositoryKeeps
  <2> QED
    BY <2>1, <2>2, <2>3 DEF WorkKept
<1> QED
  BY <1>2, <1>3, <1>4, <1>5, <1>6 DEF FaultStep
----------------------------------------------------------------------------
(* The invariant *)

LEMMA PipelineStarts ==
  ASSUME PipelineInit
  PROVE  PipelineIInv
<1> USE DEF PipelineInit
<1>1. NoJob \in JobRecord /\ NoJob.attempts < MaxAttempts /\ NoJob.state = "none"
  BY LimitAssumption DEF NoJob, JobRecord
<1>2. NoExec \in ExecRecord /\ NoClient \in ClientRecord
      /\ NoExec.owner = FALSE /\ NoExec.at = "idle"
  BY DEF ExecRecord, ClientRecord, NoExec
<1>3. [status |-> "none", object |-> "missing"] \in ArtifactRecord
  BY DEF ArtifactRecord
<1>4. PipelineTypeOK
  BY <1>1, <1>2, <1>3, LimitAssumption DEF PipelineTypeOK, ReleaseStatus
<1>5. ArtifactsAgreeWithRelease /\ OnlySoundReleasesPass
  BY DEF ArtifactsAgreeWithRelease, OnlySoundReleasesPass
<1>6. QueueInv /\ ResultInv
  BY <1>1, <1>2 DEF QueueInv, ResultInv
<1> QED
  BY <1>4, <1>5, <1>6 DEF PipelineIInv, PipelineInv

LEMMA PipelineKept ==
  ASSUME PipelineIInv, [PipelineNext]_pipelineVars
  PROVE  PipelineIInv' /\ RepositoryKeeps /\ RepositoryMoves
<1>1. CASE PipelineNext
  <2>1. RepositoryMoves
    BY <1>1, PipelineMoves
  <2>2. RepositoryKeeps
    BY <2>1, RepositoryKept DEF PipelineIInv, PipelineInv, PipelineTypeOK, RepoTypeOK
  <2>3. ASSUME NEW r \in Releases, ReviewRelease(r, "approved") \/ ReviewRelease(r, "rejected")
        PROVE  WorkKept
    <3>1. UNCHANGED <<job, exec, late, faults>> /\ client' \in [Clients -> ClientRecord]
      BY <2>3 DEF ReviewRelease, queueVars, PipelineIInv, PipelineTypeOK
    <3> QED
      BY <2>2, <3>1, QuietStep
  <2>4. WorkKept
    BY <1>1, <2>2, <2>3, PublisherKept, ExecutionKept, FaultKept DEF PipelineNext
  <2> QED
    BY <2>1, <2>2, <2>4 DEF WorkKept, WorkTypeOK, RepositoryKeeps, RepoTypeOK,
                            PipelineIInv, PipelineInv, PipelineTypeOK
<1>2. CASE UNCHANGED pipelineVars
  <2>1. RepositoryMoves
    BY <1>2 DEF pipelineVars, repoVars, RepositoryMoves
  <2>2. RepositoryKeeps
    BY <2>1, RepositoryKept DEF PipelineIInv, PipelineInv, PipelineTypeOK, RepoTypeOK
  <2>3. WorkKept
    BY <1>2, <2>2, QuietStep DEF pipelineVars, queueVars, PipelineIInv, PipelineTypeOK
  <2> QED
    BY <2>1, <2>2, <2>3 DEF WorkKept, WorkTypeOK, RepositoryKeeps, RepoTypeOK,
                            PipelineIInv, PipelineInv, PipelineTypeOK
<1> QED
  BY <1>1, <1>2
----------------------------------------------------------------------------
(***************************************************************************)
(* The release pipeline composed with promotion: what runs of              *)
(* ReleaseChannels!Spec never do, and that it implements ReleaseLife.      *)
(*                                                                         *)
(* Promotion only reads what the pipeline has finished with: an approved   *)
(* release stays approved, so a transaction may commit long after it       *)
(* looked.  The row lock is needed for the comparison only.                *)
(***************************************************************************)
CatalogInv == PipelineIInv /\ ChannelTypeOK /\ PromotionInv

----------------------------------------------------------------------------
(* Promotions *)

LEMMA CatalogStarts ==
  ASSUME Init
  PROVE  CatalogInv
<1> USE DEF Init
<1>1. PipelineIInv
  BY PipelineStarts
<1>2. ChannelTypeOK
  BY DEF ChannelTypeOK
<1>3. \A a \in Admins : ~txn[a].open
  BY DEF NoTxn
<1>4. PromotionsReplaceWhatTheyRead
  BY DEF PromotionsReplaceWhatTheyRead
<1> QED
  BY <1>1, <1>2, <1>3, <1>4 DEF CatalogInv, PromotionInv, HoldsRow

\* While the pipeline works, promotions see approved releases stay approved.
LEMMA PipelineKeepsPromotions ==
  ASSUME ChannelTypeOK, PromotionInv, RepositoryKeeps, UNCHANGED channelVars
  PROVE  ChannelTypeOK' /\ PromotionInv'
<1> USE DEF channelVars
<1>1. ChannelTypeOK'
  BY DEF ChannelTypeOK
<1>2. PromotionsReplaceWhatTheyRead'
  BY DEF PromotionInv, PromotionsReplaceWhatTheyRead
<1>3. \A a \in Admins, c \in Channels : HoldsRow(a, c)' <=> HoldsRow(a, c)
  BY DEF HoldsRow
<1>4. \A a \in Admins : txn[a].open => txn[a].release \in Releases
  <2>1. NoTxn.open = FALSE
    BY DEF NoTxn
  <2>2. \A a \in Admins : txn[a].open => txn[a] \in Txn
    BY <2>1 DEF ChannelTypeOK
  <2> QED
    BY <2>2 DEF Txn
<1>5. \A c \in Channels : channel[c] # NoRelease => channel[c] \in Releases
  BY DEF ChannelTypeOK
<1>6. \A a \in Admins : txn'[a].open => status'[txn'[a].release] = "approved"
  BY <1>4 DEF PromotionInv, RepositoryKeeps
<1>7. \A c \in Channels : channel'[c] # NoRelease => status'[channel'[c]] = "approved"
  BY <1>5 DEF PromotionInv, RepositoryKeeps
<1>8. \A a \in Admins, c \in Channels : HoldsRow(a, c)' =>
        channel'[c] = txn'[a].seen /\ Len(audit'[c]) = txn'[a].base
  BY <1>3 DEF PromotionInv
<1> QED
  BY <1>1, <1>2, <1>6, <1>7, <1>8 DEF PromotionInv

LEMMA ReadKept ==
  ASSUME ChannelTypeOK, PromotionInv, NEW a \in Admins, NEW c \in Channels, NEW r \in Releases, NEW e,
         ReadChannel(a, c, r, e)
  PROVE  ChannelTypeOK' /\ PromotionInv'
<1> DEFINE t == [open |-> TRUE, channel |-> c, release |-> r, seen |-> channel[c],
                base |-> Len(audit[c])]
<1>1. /\ txn' = [txn EXCEPT ![a] = t] /\ status[r] = "approved"
      /\ channel' = channel /\ audit' = audit /\ status' = status
  BY DEF ReadChannel, pipelineVars
<1>2. t \in Txn
  <2>1. Len(audit[c]) \in Nat
    BY DEF ChannelTypeOK
  <2> QED
    BY <2>1 DEF ChannelTypeOK, Txn
<1>3. /\ txn' \in [Admins -> Txn \cup {NoTxn}] /\ txn'[a] = t
      /\ \A b \in Admins \ {a} : txn'[b] = txn[b]
  BY <1>1, <1>2 DEF ChannelTypeOK
<1>4. ChannelTypeOK'
  BY <1>1, <1>3 DEF ChannelTypeOK
<1>5. PromotionsReplaceWhatTheyRead'
  BY <1>1 DEF PromotionInv, PromotionsReplaceWhatTheyRead
<1>6. \A b \in Admins : txn'[b].open => status'[txn'[b].release] = "approved"
  BY <1>1, <1>3 DEF PromotionInv
<1>7. \A b \in Admins, d \in Channels : HoldsRow(b, d)' =>
        channel'[d] = txn'[b].seen /\ Len(audit'[d]) = txn'[b].base
  BY <1>1, <1>3 DEF PromotionInv, HoldsRow
<1>8. \A d \in Channels : channel'[d] # NoRelease => status'[channel'[d]] = "approved"
  BY <1>1 DEF PromotionInv
<1> QED
  BY <1>4, <1>5, <1>6, <1>7, <1>8 DEF PromotionInv

LEMMA RollBackKept ==
  ASSUME ChannelTypeOK, PromotionInv, NEW a \in Admins, RollBack(a)
  PROVE  ChannelTypeOK' /\ PromotionInv'
<1>1. /\ txn' = [txn EXCEPT ![a] = NoTxn]
      /\ channel' = channel /\ audit' = audit /\ status' = status
  BY DEF RollBack, pipelineVars
<1>2. /\ txn' \in [Admins -> Txn \cup {NoTxn}]
      /\ \A b \in Admins : txn'[b].open => txn'[b] = txn[b]
  BY <1>1 DEF ChannelTypeOK, NoTxn
<1>3. ChannelTypeOK'
  BY <1>1, <1>2 DEF ChannelTypeOK
<1>4. PromotionsReplaceWhatTheyRead'
  BY <1>1 DEF PromotionInv, PromotionsReplaceWhatTheyRead
<1>5. \A b \in Admins : txn'[b].open => status'[txn'[b].release] = "approved"
  BY <1>1, <1>2 DEF PromotionInv
<1>6. \A b \in Admins, d \in Channels : HoldsRow(b, d)' =>
        channel'[d] = txn'[b].seen /\ Len(audit'[d]) = txn'[b].base
  BY <1>1, <1>2 DEF PromotionInv, HoldsRow
<1>7. \A d \in Channels : channel'[d] # NoRelease => status'[channel'[d]] = "approved"
  BY <1>1 DEF PromotionInv
<1> QED
  BY <1>3, <1>4, <1>5, <1>6, <1>7 DEF PromotionInv

\* The row a transaction saw is the row it replaces: it held the lock since.
LEMMA CommitKept ==
  ASSUME ChannelTypeOK, PromotionInv, NEW a \in Admins, CommitPromotion(a)
  PROVE  ChannelTypeOK' /\ PromotionInv'
<1> DEFINE c == txn[a].channel
           e == [previous |-> txn[a].seen, release |-> txn[a].release, base |-> txn[a].base]
           n == Len(audit[c])
<1>1. /\ txn[a].open /\ RowFree(c, a)
      /\ channel' = [channel EXCEPT ![c] = txn[a].release]
      /\ audit' = [audit EXCEPT ![c] = Append(audit[c], e)]
      /\ txn' = [txn EXCEPT ![a] = NoTxn] /\ status' = status
  BY DEF CommitPromotion, pipelineVars
<1>2. txn[a] \in Txn
  BY <1>1 DEF ChannelTypeOK, NoTxn
<1>3. /\ c \in Channels /\ txn[a].release \in Releases /\ e \in Event
      /\ txn[a].seen \in Releases \cup {NoRelease} /\ txn[a].base \in Nat
  BY <1>2 DEF Txn, Event
<1>4. audit[c] \in Seq(Event) /\ n \in Nat
  BY <1>3 DEF ChannelTypeOK
<1>5. /\ txn' \in [Admins -> Txn \cup {NoTxn}]
      /\ \A b \in Admins : txn'[b].open => b # a /\ txn'[b] = txn[b]
  BY <1>1 DEF ChannelTypeOK, NoTxn
<1>6. \A d \in Channels \ {c} : channel'[d] = channel[d] /\ audit'[d] = audit[d]
  BY <1>1 DEF ChannelTypeOK
<1>7. channel'[c] = txn[a].release /\ audit'[c] = Append(audit[c], e)
  BY <1>1, <1>3 DEF ChannelTypeOK
<1>8. /\ Len(audit'[c]) = n + 1 /\ audit'[c][n + 1] = e
      /\ \A i \in 1..n : audit'[c][i] = audit[c][i]
  BY <1>4, <1>7
<1>9. ChannelTypeOK'
  <2>1. Append(audit[c], e) \in Seq(Event)
    BY <1>3, <1>4
  <2> QED
    BY <1>1, <1>3, <1>5, <2>1 DEF ChannelTypeOK
<1>10. txn[a].seen # NoRelease =>
         n > 0 /\ txn[a].base = n /\ txn[a].seen = audit[c][n].release
  <2>1. txn[a].seen # NoRelease => channel[c] = txn[a].seen /\ n = txn[a].base
    BY <1>1, <1>3 DEF PromotionInv, HoldsRow
  <2>2. channel[c] = IF n = 0 THEN NoRelease ELSE audit[c][n].release
    BY <1>3 DEF PromotionInv, PromotionsReplaceWhatTheyRead
  <2> QED
    BY <1>4, <2>1, <2>2
<1>11. PromotionsReplaceWhatTheyRead'
  <2>1. ASSUME NEW d \in Channels \ {c}
        PROVE  /\ channel'[d] = IF Len(audit'[d]) = 0 THEN NoRelease ELSE audit'[d][Len(audit'[d])].release
               /\ \A i \in 1..Len(audit'[d]) : audit'[d][i].previous # NoRelease =>
                    /\ i > 1 /\ audit'[d][i].base = i - 1
                    /\ audit'[d][i].previous = audit'[d][i - 1].release
    BY <1>6 DEF PromotionInv, PromotionsReplaceWhatTheyRead
  <2>2. channel'[c] = audit'[c][n + 1].release /\ n + 1 # 0
    BY <1>4, <1>7, <1>8
  <2>3. ASSUME NEW i \in 1..(n + 1), audit'[c][i].previous # NoRelease
        PROVE  /\ i > 1 /\ audit'[c][i].base = i - 1
               /\ audit'[c][i].previous = audit'[c][i - 1].release
    <3>1. CASE i = n + 1
      <4>1. audit'[c][i].previous = txn[a].seen /\ audit'[c][i].base = txn[a].base
        BY <1>8, <3>1
      <4>2. n > 0 /\ txn[a].base = n /\ txn[a].seen = audit[c][n].release
        BY <1>10, <2>3, <4>1
      <4> QED
        BY <1>4, <1>8, <3>1, <4>1, <4>2
    <3>2. CASE i # n + 1
      <4>1. i \in 1..n /\ audit'[c][i] = audit[c][i]
        BY <1>4, <1>8, <3>2
      <4>2. i > 1 /\ audit[c][i].base = i - 1 /\ audit[c][i].previous = audit[c][i - 1].release
        BY <1>3, <2>3, <4>1 DEF PromotionInv, PromotionsReplaceWhatTheyRead
      <4>3. audit'[c][i - 1] = audit[c][i - 1]
        BY SMTT(45), <1>4, <1>8, <4>1, <4>2
      <4> QED
        BY <4>1, <4>2, <4>3
    <3> QED
      BY <3>1, <3>2
  <2> HIDE DEF c, e, n
  <2> QED
    BY <1>8, <2>1, <2>2, <2>3 DEF PromotionsReplaceWhatTheyRead
<1>12. \A b \in Admins : txn'[b].open => status'[txn'[b].release] = "approved"
  BY <1>1, <1>5 DEF PromotionInv
<1>13. \A b \in Admins, d \in Channels : HoldsRow(b, d)' =>
         channel'[d] = txn'[b].seen /\ Len(audit'[d]) = txn'[b].base
  <2> SUFFICES ASSUME NEW b \in Admins, NEW d \in Channels, HoldsRow(b, d)'
               PROVE  channel'[d] = txn'[b].seen /\ Len(audit'[d]) = txn'[b].base
    OBVIOUS
  <2>1. b # a /\ txn'[b] = txn[b] /\ HoldsRow(b, d)
    BY <1>5 DEF HoldsRow
  <2>2. d # c
    BY <1>1, <2>1 DEF RowFree
  <2> QED
    BY <1>6, <2>1, <2>2 DEF PromotionInv
<1>14. \A d \in Channels : channel'[d] # NoRelease => status'[channel'[d]] = "approved"
  BY <1>1, <1>6, <1>7 DEF PromotionInv
<1> QED
  BY <1>9, <1>11, <1>12, <1>13, <1>14 DEF PromotionInv
----------------------------------------------------------------------------
(* The invariant of the whole, and what follows from it *)

LEMMA CatalogKept ==
  ASSUME CatalogInv, [Next]_vars
  PROVE  CatalogInv'
<1>1. CASE PipelineNext /\ UNCHANGED channelVars
  <2>1. PipelineIInv' /\ RepositoryKeeps
    BY <1>1, PipelineKept DEF CatalogInv
  <2> QED
    BY <1>1, <2>1, PipelineKeepsPromotions DEF CatalogInv
<1>2. CASE PromotionStep
  <2>1. UNCHANGED pipelineVars
    BY <1>2 DEF PromotionStep, ReadChannel, CommitPromotion, RollBack
  <2>2. PipelineIInv'
    BY <2>1, PipelineKept DEF CatalogInv
  <2>3. ChannelTypeOK' /\ PromotionInv'
    BY <1>2, ReadKept, CommitKept, RollBackKept DEF PromotionStep, CatalogInv
  <2> QED
    BY <2>2, <2>3 DEF CatalogInv
<1>3. CASE UNCHANGED vars
  <2>1. PipelineIInv' /\ RepositoryKeeps
    BY <1>3, PipelineKept DEF CatalogInv, vars
  <2> QED
    BY <1>3, <2>1, PipelineKeepsPromotions DEF CatalogInv, vars
<1> QED
  BY <1>1, <1>2, <1>3 DEF Next

\* The inductive invariant of the theorems below.
THEOREM CatalogSafety == Spec => []CatalogInv
<1>1. Init => CatalogInv
  BY CatalogStarts
<1>2. CatalogInv /\ [Next]_vars => CatalogInv'
  BY CatalogKept
<1> QED
  BY <1>1, <1>2, PTL DEF Spec

\* Whatever the queue repeats, no job makes more attempts than it has and every
\* variable of the pipeline stays in its domain.
THEOREM PipelineTypeCorrect == Spec => []PipelineTypeOK
<1>1. CatalogInv => PipelineTypeOK
  BY DEF CatalogInv, PipelineIInv
<1> QED
  BY <1>1, CatalogSafety, PTL

\* Channel rows, audit events and transactions stay in their domains.
THEOREM ChannelTypeCorrect == Spec => []ChannelTypeOK
<1>1. CatalogInv => ChannelTypeOK
  BY DEF CatalogInv
<1> QED
  BY <1>1, CatalogSafety, PTL

\* Repeated and late validation results never make a release and its artifacts
\* disagree.
THEOREM ArtifactsTheorem == Spec => []ArtifactsAgreeWithRelease
<1>1. CatalogInv => ArtifactsAgreeWithRelease
  BY DEF CatalogInv, PipelineIInv, PipelineInv
<1> QED
  BY <1>1, CatalogSafety, PTL

\* The queue does not count a validation as completed that the database misses.
THEOREM CompletedTheorem == Spec => []CompletedJobMeansDecided
<1>1. CatalogInv => CompletedJobMeansDecided
  BY DEF CatalogInv, PipelineIInv, PipelineInv, QueueInv, CompletedJobMeansDecided
<1> QED
  BY <1>1, CatalogSafety, PTL

\* No order of executions, answers and retries lets an unsound release pass.
THEOREM SoundnessTheorem == Spec => []OnlySoundReleasesPass
<1>1. CatalogInv => OnlySoundReleasesPass
  BY DEF CatalogInv, PipelineIInv, PipelineInv
<1> QED
  BY <1>1, CatalogSafety, PTL

\* Release, artifacts, job and objects agree, whatever overtakes what.
THEOREM StoresTheorem == Spec => []StoresAgree
BY ArtifactsTheorem, CompletedTheorem, SoundnessTheorem, PTL DEF StoresAgree

\* Promotions that replace a channel's row replace the release they compared.
THEOREM PromotionTheorem == Spec => []PromotionsReplaceWhatTheyRead
<1>1. CatalogInv => PromotionsReplaceWhatTheyRead
  BY DEF CatalogInv, PromotionInv
<1> QED
  BY <1>1, CatalogSafety, PTL

\* Every release a channel shows is approved, its artifacts validated and its
\* objects sound, although promote looks at the status only and commits later.
THEOREM ChannelsTheorem == Spec => []ChannelsShowApprovedReleases
<1>1. ASSUME CatalogInv PROVE ChannelsShowApprovedReleases
  <2> SUFFICES ASSUME NEW c \in Channels, channel[c] # NoRelease
               PROVE  /\ status[channel[c]] = "approved"
                      /\ AllArtifacts(channel[c], "validated")
                      /\ Sound(channel[c])
    BY DEF ChannelsShowApprovedReleases
  <2>1. channel[c] \in Releases /\ status[channel[c]] = "approved"
    BY <1>1 DEF CatalogInv, ChannelTypeOK, PromotionInv
  <2> QED
    BY <1>1, <2>1 DEF CatalogInv, PipelineIInv, PipelineInv, ArtifactsAgreeWithRelease,
                      OnlySoundReleasesPass
<1> QED
  BY <1>1, CatalogSafety, PTL

----------------------------------------------------------------------------
(* The pipeline and the channels implement the promised life of a release. *)

\* Bookkeeping about an artifact does not touch any object.
LEMMA ObjectsStay ==
  ASSUME RepoTypeOK, NEW r \in Releases, NEW a \in Artifacts,
         NEW st \in {"none", "pending_upload", "uploaded", "validated", "rejected"},
         artifact' = [artifact EXCEPT ![r] =
           [artifact[r] EXCEPT ![a] = [artifact[r][a] EXCEPT !.status = st]]]
  PROVE  \A q \in Releases : \A b \in Artifacts : artifact'[q][b].object = artifact[q][b].object
<1> DEFINE x == [artifact[r][a] EXCEPT !.status = st]
<1>1. artifact[r][a] \in ArtifactRecord
  BY DEF RepoTypeOK
<1>2. x \in ArtifactRecord /\ x.object = artifact[r][a].object
  BY ZenonT(60), <1>1, RecordEdit
<1>3. artifact' = [artifact EXCEPT ![r] = [artifact[r] EXCEPT ![a] = x]]
  OBVIOUS
<1> HIDE DEF x
<1> QED
  BY <1>2, <1>3, ArtifactEdit DEF RepoTypeOK

LEMMA LifeStarts ==
  ASSUME Init
  PROVE  Life!Init
<1>1. \A r \in Releases : Sound(r) \in BOOLEAN
  BY DEF Sound
<1>2. [r \in Releases |-> Sound(r)] \in [Releases -> BOOLEAN]
  BY <1>1
<1> QED
  BY <1>2 DEF Init, PipelineInit, Life!Init

\* A transaction of the repository is a step of the release's life, or only moves
\* artifacts about; what it completes is not submitted yet.
LEMMA MovesImplementLife ==
  ASSUME CatalogInv, RepositoryMoves, UNCHANGED channel
  PROVE  [Life!Next]_(Life!vars)
<1>0. /\ RepoTypeOK /\ ArtifactsAgreeWithRelease
  BY DEF CatalogInv, PipelineIInv, PipelineInv, PipelineTypeOK, RepoTypeOK
<1>a. ASSUME UNCHANGED repoVars PROVE [Life!Next]_(Life!vars)
  BY <1>a DEF repoVars, Sound, Life!vars
<1>b. ASSUME artifact' = artifact PROVE [r \in Releases |-> Sound(r)]' = [r \in Releases |-> Sound(r)]
  BY <1>b DEF Sound
<1>1. ASSUME NEW r \in Releases, CreateRelease(r) PROVE [Life!Next]_(Life!vars)
  <2>1. artifact' = artifact /\ status[r] = "absent" /\ status' = [status EXCEPT ![r] = "draft"]
    BY <1>1 DEF CreateRelease
  <2>2. Life!Create(r)
    BY <1>b, <2>1 DEF Life!Create, Life!Move
  <2> QED
    BY <2>2 DEF Life!Next
<1>2. ASSUME NEW r \in Releases, NEW a \in Artifacts, CreateArtifact(r, a)
      PROVE  [Life!Next]_(Life!vars)
  <2>1. /\ status' = [status EXCEPT ![r] = "uploading"] /\ status[r] \in {"draft", "uploading"}
        /\ artifact' = [artifact EXCEPT ![r] =
             [artifact[r] EXCEPT ![a] = [artifact[r][a] EXCEPT !.status = "pending_upload"]]]
    BY <1>2 DEF CreateArtifact
  <2>2. \A q \in Releases : \A b \in Artifacts : artifact'[q][b].object = artifact[q][b].object
    BY <1>0, <2>1, ObjectsStay DEF RepoTypeOK
  <2>3. [q \in Releases |-> Sound(q)]' = [q \in Releases |-> Sound(q)]
    BY <2>2, DeclaredAssumption DEF Sound
  <2>4. CASE status[r] = "draft"
    <3>1. Life!Upload(r)
      BY <2>1, <2>3, <2>4 DEF Life!Upload, Life!Move
    <3> QED
      BY <3>1 DEF Life!Next
  <2>5. CASE status[r] = "uploading"
    <3>1. status' = status
      BY <1>0, <2>1, <2>5 DEF RepoTypeOK
    <3> QED
      BY <2>3, <3>1 DEF Life!vars
  <2> QED
    BY <2>1, <2>4, <2>5
<1>3. ASSUME NEW r \in Releases, NEW a \in Artifacts, NEW content \in {"good", "bad"},
             Upload(r, a, content)
      PROVE  [Life!Next]_(Life!vars)
  <2> DEFINE x == [artifact[r][a] EXCEPT !.object = content]
  <2>1. /\ artifact' = [artifact EXCEPT ![r] = [artifact[r] EXCEPT ![a] = x]] /\ status' = status
        /\ artifact[r][a].status = "pending_upload" /\ artifact[r][a].object = "missing"
    BY <1>3 DEF Upload
  <2>2. x \in ArtifactRecord
    <3>1. artifact[r][a] \in ArtifactRecord /\ content \in {"missing", "good", "bad"}
      BY <1>0 DEF RepoTypeOK
    <3> QED
      BY <3>1, RecordEdit
  <2> HIDE DEF x
  <2>3. /\ \A b \in Artifacts \ {a} : artifact'[r][b] = artifact[r][b]
        /\ \A q \in Releases \ {r} : artifact'[q] = artifact[q]
    BY <1>0, <2>1, <2>2, ArtifactEdit DEF RepoTypeOK
  <2>4. \A q \in Releases \ {r} : Sound(q)' <=> Sound(q)
    BY <2>3 DEF Sound
  <2>5. CASE Sound(r)' <=> Sound(r)
    <3>1. [q \in Releases |-> Sound(q)]' = [q \in Releases |-> Sound(q)]
      <4>1. \A q \in Releases : Sound(q)' = Sound(q)
        BY <2>4, <2>5 DEF Sound
      <4> QED
        BY <4>1 DEF Sound
    <3> QED
      BY <2>1, <3>1 DEF Life!vars
  <2>6. CASE ~(Sound(r)' <=> Sound(r))
    <3>1. a \in Declared[r]
      BY <2>3, <2>6, DeclaredAssumption DEF Sound
    <3>2. Sound(r)' = TRUE
      BY <2>1, <2>6, <3>1 DEF Sound
    <3>3. [q \in Releases |-> Sound(q)]' = [[q \in Releases |-> Sound(q)] EXCEPT ![r] = TRUE]
      <4>1. \A q \in Releases : Sound(q)' = IF q = r THEN TRUE ELSE Sound(q)
        BY <2>4, <3>2 DEF Sound
      <4> QED
        BY <4>1 DEF Sound
    <3>4. status[r] \in {"absent", "draft", "uploading"}
      BY <1>0, <2>1, <3>1 DEF RepoTypeOK, ReleaseStatus, Decided, ArtifactsAgreeWithRelease, AllArtifacts
    <3>5. Life!Complete(r)
      BY <2>1, <3>3, <3>4 DEF Life!Complete, Life!Open
    <3> QED
      BY <3>5 DEF Life!Next
  <2> QED
    BY <2>5, <2>6
<1>4. ASSUME NEW r \in Releases, NEW a \in Artifacts, FinalizeArtifact(r, a)
      PROVE  [Life!Next]_(Life!vars)
  <2>1. /\ status' = status
        /\ artifact' = [artifact EXCEPT ![r] =
             [artifact[r] EXCEPT ![a] = [artifact[r][a] EXCEPT !.status = "uploaded"]]]
    BY <1>4 DEF FinalizeArtifact
  <2>2. \A q \in Releases : \A b \in Artifacts : artifact'[q][b].object = artifact[q][b].object
    BY <1>0, <2>1, ObjectsStay DEF RepoTypeOK
  <2>3. [q \in Releases |-> Sound(q)]' = [q \in Releases |-> Sound(q)]
    BY <2>2, DeclaredAssumption DEF Sound
  <2> QED
    BY <2>1, <2>3 DEF Life!vars
<1>5. ASSUME NEW r \in Releases, Submitted(r) PROVE [Life!Next]_(Life!vars)
  <2>1. /\ artifact' = artifact /\ status[r] \in {"draft", "uploading"}
        /\ status' = [status EXCEPT ![r] = "validating"]
    BY <1>5 DEF Submitted
  <2>2. Life!Submit(r)
    BY <1>b, <2>1 DEF Life!Submit, Life!Move
  <2> QED
    BY <2>2 DEF Life!Next
<1>6. ASSUME NEW r \in Releases, NEW ok \in BOOLEAN, Validated(r, ok)
      PROVE  [Life!Next]_(Life!vars)
  <2> DEFINE st == IF ok THEN "validated" ELSE "rejected"
  <2>1. /\ status[r] = "validating" /\ (ok => Sound(r))
        /\ status' = [status EXCEPT ![r] = IF ok THEN "ready" ELSE "rejected"]
        /\ artifact' = [artifact EXCEPT ![r] = [a \in Artifacts |->
             IF a \in Declared[r] THEN [artifact[r][a] EXCEPT !.status = st] ELSE artifact[r][a]]]
    BY <1>6 DEF Validated, ApplyValidationResult, TakesResult
  <2>2. \A a \in Artifacts : artifact'[r][a].object = artifact[r][a].object
    <3> TAKE a \in Artifacts
    <3>1. artifact'[r][a] = IF a \in Declared[r] THEN [artifact[r][a] EXCEPT !.status = st]
                                                 ELSE artifact[r][a]
      BY <1>0, <2>1 DEF RepoTypeOK
    <3>2. [artifact[r][a] EXCEPT !.status = st].object = artifact[r][a].object
      BY <1>0 DEF RepoTypeOK, ArtifactRecord
    <3> QED
      BY <3>1, <3>2
  <2>3. \A q \in Releases : \A b \in Artifacts : artifact'[q][b].object = artifact[q][b].object
    BY <1>0, <2>1, <2>2 DEF RepoTypeOK
  <2>4. [q \in Releases |-> Sound(q)]' = [q \in Releases |-> Sound(q)]
    BY <2>3, DeclaredAssumption DEF Sound
  <2>5. CASE ok = TRUE
    <3>1. Life!Pass(r)
      BY <2>1, <2>4, <2>5 DEF Life!Pass, Life!Move
    <3> QED
      BY <3>1 DEF Life!Next
  <2>6. CASE ok = FALSE
    <3>1. Life!Reject(r)
      BY <2>1, <2>4, <2>6 DEF Life!Reject, Life!Move
    <3> QED
      BY <3>1 DEF Life!Next
  <2> QED
    BY <2>5, <2>6
<1>7. ASSUME NEW r \in Releases, NEW decision \in {"approved", "rejected"}, ReviewRelease(r, decision)
      PROVE  [Life!Next]_(Life!vars)
  <2>1. /\ artifact' = artifact /\ status[r] = "ready" /\ status' = [status EXCEPT ![r] = decision]
    BY <1>7 DEF ReviewRelease
  <2>2. Life!Approve(r) \/ Life!Reject(r)
    BY <1>b, <2>1 DEF Life!Approve, Life!Reject, Life!Move
  <2> QED
    BY <2>2 DEF Life!Next
<1> QED
  BY <1>a, <1>1, <1>2, <1>3, <1>4, <1>5, <1>6, <1>7 DEF RepositoryMoves

\* A promotion that commits shows a release that is approved at that moment.
LEMMA PromotionImplementsLife ==
  ASSUME CatalogInv, PromotionStep
  PROVE  [Life!Next]_(Life!vars)
<1>1. UNCHANGED <<status, artifact>>
  BY DEF PromotionStep, ReadChannel, CommitPromotion, RollBack, pipelineVars
<1>2. [q \in Releases |-> Sound(q)]' = [q \in Releases |-> Sound(q)]
  BY <1>1 DEF Sound
<1>3. CASE channel' = channel
  BY <1>1, <1>2, <1>3 DEF Life!vars
<1>4. ASSUME NEW a \in Admins, CommitPromotion(a) PROVE [Life!Next]_(Life!vars)
  <2>1. txn[a].open /\ channel' = [channel EXCEPT ![txn[a].channel] = txn[a].release]
    BY <1>4 DEF CommitPromotion
  <2>2. txn[a] \in Txn /\ status[txn[a].release] = "approved"
    BY <2>1 DEF CatalogInv, ChannelTypeOK, PromotionInv, NoTxn
  <2>3. txn[a].channel \in Channels /\ txn[a].release \in Releases
    BY <2>2 DEF Txn
  <2>4. Life!Show(txn[a].channel, txn[a].release)
    BY <1>1, <1>2, <2>1, <2>2 DEF Life!Show
  <2> QED
    BY <2>3, <2>4 DEF Life!Next
<1> QED
  BY <1>3, <1>4 DEF PromotionStep, ReadChannel, RollBack

\* Workers, the queue's retries, late results and overlapping promotions only ever
\* move releases forward and show approved ones: the whole implements ReleaseLife.
THEOREM CatalogImplementsLife == Spec => ImplementsReleaseLife
<1>1. Init => Life!Init
  BY LifeStarts
<1>2. CatalogInv /\ [Next]_vars => [Life!Next]_(Life!vars)
  <2> SUFFICES ASSUME CatalogInv, [Next]_vars PROVE [Life!Next]_(Life!vars)
    OBVIOUS
  <2>1. CASE PipelineNext /\ UNCHANGED channelVars
    BY <2>1, PipelineMoves, MovesImplementLife DEF CatalogInv, channelVars
  <2>2. CASE PromotionStep
    BY <2>2, PromotionImplementsLife
  <2>3. CASE UNCHANGED vars
    <3>1. RepositoryMoves /\ UNCHANGED channel
      BY <2>3 DEF vars, pipelineVars, channelVars, repoVars, RepositoryMoves
    <3> QED
      BY <3>1, MovesImplementLife
  <2> QED
    BY <2>1, <2>2, <2>3 DEF Next
<1> QED
  BY <1>1, <1>2, CatalogSafety, PTL DEF Spec, ImplementsReleaseLife, Life!Spec
============================================================================
