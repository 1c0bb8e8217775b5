----------------------- MODULE DesktopReleaseProofs ------------------------
(***************************************************************************)
(* What the control plane publishes and what the Agent reads and installs, *)
(* for every manifest and every archive; then how installations and their  *)
(* reports stay in step, for any device, releases, losses and crashes.     *)
(***************************************************************************)
EXTENDS ReleaseValidation, InstallationSync, SequenceTheorems, TLAPS

(* A path that RelativeEntrySchema accepts is refused by the Agent only if *)
(* it starts with a drive and the Agent runs on Windows.                   *)
LEMMA PathsAgree ==
  ASSUME NEW p, RelativeEntry(p)
  PROVE  ValidateRelativePath(p) <=> PortablePath(p)
BY DEF RelativeEntry, ValidateRelativePath, PortablePath

(* The Agent knows all fields of Python and native runtimes, and not those *)
(* of a web UI.                                                            *)
LEMMA RuntimeFieldsKnown ==
  ASSUME NEW k \in RuntimeKinds
  PROVE  RuntimeFields[k] \subseteq RuntimeKind[k] <=> k # "web-ui"
<1>1. CASE k = "python"
  BY <1>1 DEF RuntimeFields, RuntimeKind, RuntimeKinds
<1>2. CASE k = "native"
  BY <1>2 DEF RuntimeFields, RuntimeKind, RuntimeKinds
<1>3. CASE k = "web-ui"
  BY <1>3 DEF RuntimeFields, RuntimeKind, RuntimeKinds
<1> QED
  BY <1>1, <1>2, <1>3 DEF RuntimeKinds

(* Of the dependencies, it knows only the fields of system packages.       *)
LEMMA DependencyFieldsKnown ==
  ASSUME NEW k \in DependencyKinds
  PROVE  DependencyFields[k] \subseteq DesktopDependency[k] <=> k = "system"
<1>1. CASE k = "python"
  BY <1>1 DEF DependencyFields, DesktopDependency, DependencyKinds
<1>2. CASE k = "system"
  BY <1>2 DEF DependencyFields, DesktopDependency, DependencyKinds
<1>3. CASE k = "application"
  BY <1>3 DEF DependencyFields, DesktopDependency, DependencyKinds
<1> QED
  BY <1>1, <1>2, <1>3 DEF DependencyKinds

(* Artifacts have one name each, so an artifact is found by its name.      *)
LEMMA NamesIdentify ==
  ASSUME NEW m, DesktopReleaseManifest(m),
         NEW a \in Range(m.artifacts), NEW b \in Range(m.artifacts), a.name = b.name
  PROVE  a = b
<1>1. PICK j \in DOMAIN m.artifacts : a = m.artifacts[j]
  BY DEF Range
<1>2. PICK k \in DOMAIN m.artifacts : b = m.artifacts[k]
  BY DEF Range
<1>3. j # k => m.artifacts[j].name # m.artifacts[k].name
  BY DEF DesktopReleaseManifest
<1> QED
  BY <1>1, <1>2, <1>3

(* A runtime that the schema accepts passes the Agent's checks unless its  *)
(* entry or its Python version does not travel.                            *)
LEMMA RuntimesAgree ==
  ASSUME NEW m, DesktopReleaseManifest(m), NEW r \in Range(m.runtimes)
  PROVE  ValidateRuntime(m, r) <=>
           PortablePath(r.entry) /\ (r.kind = "python" => r.python.bytes \in 1..40)
<1>1. Runtime(m, r)
  BY DEF DesktopReleaseManifest
<1>2. PICK a \in Range(m.artifacts) :
        a.name = r.artifact /\ a.platform \in {AnyPlatform, r.platform}
  BY <1>1 DEF Runtime
<1>3. Declares(m, r.artifact)
  BY <1>2 DEF Declares
<1>4. \A b \in Range(m.artifacts) :
        b.name = r.artifact /\ b.platform # AnyPlatform => b.platform = r.platform
  BY <1>2, NamesIdentify
<1>5. ValidateRelativePath(r.entry) <=> PortablePath(r.entry)
  BY <1>1, PathsAgree DEF Runtime
<1> QED
  BY <1>3, <1>4, <1>5 DEF ValidateRuntime

(* The same of a capability.                                               *)
LEMMA CapabilitiesAgree ==
  ASSUME NEW c, Capability(c)
  PROVE  ValidateCapability(c) <=>
           (c.kind = "subprocess" => \A p \in c.items : PortablePath(p))
BY PathsAgree DEF Capability, ValidateCapability
-----------------------------------------------------------------------------
(* Nothing that is published by this code can be read by the Agent, whose  *)
(* types require both signatures (manifest.rs, control_plane.rs) that the  *)
(* CLI and the API leave out of desktop releases.                          *)
THEOREM PublishedReleasesAreUnreadable ==
  ASSUME NEW r, r = [manifest |-> r.manifest, signer |-> r.signer, archives |-> r.archives]
  PROVE  ~Readable(InstallationItem(Published(r)))
<1>1. Published(r).signer = NoKey
  BY DEF Published
<1>2. InstallationItem(Published(r)).signer = NoKey
  BY <1>1 DEF InstallationItem
<1> QED
  BY <1>2 DEF Readable

(* A release whose row still has its signatures is read by the Agent if    *)
(* and only if its manifest is portable: PortableManifest lists all that   *)
(* the two validators disagree about, and they agree about the rest.       *)
THEOREM SignedReleasesAreReadableIffPortable ==
  ASSUME NEW r, DesktopReleaseManifest(r.manifest), r.signer # NoKey
  PROVE  Readable(InstallationItem(r)) <=> PortableManifest(r.manifest)
<1> DEFINE m == r.manifest
<1> DEFINE item == InstallationItem(r)
<1>1. item.manifest = m /\ item.signer # NoKey /\ item.artifact = ArtifactFor(m)
  BY DEF InstallationItem
<1>2. AppletManifest(m) <=>
        /\ m.strict
        /\ \A t \in Range(m.runtimes) : t.kind # "web-ui"
        /\ \A d \in Range(m.dependencies) : d.kind = "system"
  <2>1. \A t \in Range(m.runtimes) : t.kind \in RuntimeKinds
    BY DEF DesktopReleaseManifest, Runtime
  <2>2. \A d \in Range(m.dependencies) : d.kind \in DependencyKinds
    BY DEF DesktopReleaseManifest
  <2> QED
    BY <2>1, <2>2, RuntimeFieldsKnown, DependencyFieldsKnown DEF AppletManifest
<1>3. (\A t \in Range(m.runtimes) : ValidateRuntime(m, t)) <=>
        \A t \in Range(m.runtimes) :
          PortablePath(t.entry) /\ (t.kind = "python" => t.python.bytes \in 1..40)
  BY RuntimesAgree
<1>4. (\A a \in Range(m.artifacts) : ValidateRelativePath(a.fileName)) <=>
        \A a \in Range(m.artifacts) : PortablePath(a.fileName)
  BY PathsAgree DEF DesktopReleaseManifest
<1>5. (\A c \in m.capabilities : ValidateCapability(c)) <=>
        \A c \in m.capabilities :
          c.kind = "subprocess" => \A p \in c.items : PortablePath(p)
  BY CapabilitiesAgree DEF DesktopReleaseManifest
<1>6. /\ m.runtimes # <<>>
      /\ \A j, k \in DOMAIN m.artifacts :
           j # k => m.artifacts[j].name # m.artifacts[k].name
      /\ \A j, k \in DOMAIN m.runtimes :
           j # k => m.runtimes[j].platform # m.runtimes[k].platform
      /\ \A d \in Range(m.dependencies) : d.kind = "python" => Declares(m, d.lock)
  BY DEF DesktopReleaseManifest
<1>7. Validate(m) <=>
        /\ \A t \in m.names : t.trimmed >= 2 /\ t.bytes <= 80
        /\ \A t \in m.descriptions : t.bytes <= 240
        /\ \A t \in Range(m.runtimes) :
             PortablePath(t.entry) /\ (t.kind = "python" => t.python.bytes \in 1..40)
        /\ \A a \in Range(m.artifacts) : PortablePath(a.fileName)
        /\ \A c \in m.capabilities :
             c.kind = "subprocess" => \A p \in c.items : PortablePath(p)
  BY <1>3, <1>4, <1>5, <1>6 DEF Validate
<1> QED
  BY <1>1, <1>2, <1>7 DEF Readable, PortableManifest

(* An archive that the worker has inspected is unpacked by the Agent if    *)
(* and only if it is portable: what the worker does not refuse and the     *)
(* Agent does is in PortableArchive.                                       *)
THEOREM InspectedArchivesUnpackIffPortable ==
  ASSUME NEW archive, InspectEntries(archive)
  PROVE  ExtractChecked(archive) <=> PortableArchive(archive)
<1>1. \A e \in Range(archive) : e.form \in {"plain", "clock"} /\ ~e.symlink
  BY DEF InspectEntries
<1>2. (\A e \in Range(archive) : e.form = "plain" /\ ~e.symlink)
        <=> \A e \in Range(archive) : e.form # "clock"
  BY <1>1
<1>3. \A j, k \in DOMAIN archive :
        j # k => archive[j].path # archive[k].path \/ archive[j].directory # archive[k].directory
  BY DEF InspectEntries
<1>4. (\A j, k \in DOMAIN archive :
         j # k /\ ~archive[j].directory => ~IsPrefix(archive[j].path, archive[k].path))
      <=> \A j, k \in DOMAIN archive :
            /\ ~archive[j].directory /\ IsPrefix(archive[j].path, archive[k].path)
            => archive[j].path = archive[k].path /\ archive[j].directory = archive[k].directory
  BY <1>3
<1> QED
  BY <1>2, <1>4 DEF ExtractChecked, PortableArchive
-----------------------------------------------------------------------------
(* What is packaged, for every manifest and all options.                   *)

(* No release of a link comes out of aw package: the command adds an       *)
(* artifact, and the artifacts of a link are of type never.                *)
THEOREM LinksAreNeverPackaged ==
  ASSUME NEW m, NEW o, o.inputs \in Seq(Range(o.inputs)),
         m = [f \in DOMAIN m |-> m[f]], "artifacts" \in DOMAIN m, "kind" \in DOMAIN m,
         "runtime" \in DOMAIN m, "integrity" \in DOMAIN m, "signature" \in DOMAIN m,
         m.kind = "web", m.runtime = "link"
  PROVE  PackageRelease(m, o) = {}
<1> DEFINE built == BuiltArtifacts(m, o)
           artifacts == [k \in DOMAIN built |-> UpdateArtifact(built[k])]
           packaged == PackagedManifest(m, o, built)
<1> SUFFICES ASSUME Packageable(m, o)
             PROVE  FALSE
  BY DEF PackageRelease
<1>1. Len(o.inputs) = 1
  BY DEF Packageable, InputsAllowed
<1>2. DOMAIN built = 1..1
  BY <1>1 DEF BuiltArtifacts
<1>3. /\ packaged.kind = "web" /\ packaged.runtime = "link"
      /\ packaged.artifacts = artifacts
  BY DEF PackagedManifest, UpdateRuntimeIntegrity, Federated
<1>4. LinkWebManifest(packaged)
  BY <1>3 DEF Packageable, ReleaseManifest, WebReleaseManifest
<1>5. artifacts # <<>>
  <2>1. DOMAIN artifacts = 1..1
    BY <1>2
  <2>2. 1 \in DOMAIN artifacts
    BY <2>1
  <2> QED
    BY <2>2
<1> QED
  BY <1>3, <1>4, <1>5 DEF LinkWebManifest

(* The signature aw package makes of a web manifest is of what the worker  *)
(* verifies: nothing the command writes after signing is in the payload.   *)
THEOREM SignedManifestsVerify ==
  ASSUME NEW m, NEW o, NEW built,
         m = [f \in DOMAIN m |-> m[f]], "artifacts" \in DOMAIN m, "kind" \in DOMAIN m,
         "integrity" \in DOMAIN m, "signature" \in DOMAIN m, "url" \in DOMAIN m,
         "integritySha256" \in DOMAIN m, m.kind = "web",
         o.keyId \in DOMAIN SigningKeys, SigningKeys[o.keyId] = o.key.key
  PROVE  LET packaged == PackagedManifest(m, o, built)
         IN  VerifyPublisherSignature(ForSignature(packaged), packaged.signature)
<1> DEFINE artifacts == [k \in DOMAIN built |-> UpdateArtifact(built[k])]
           start     == [m EXCEPT !.artifacts = artifacts, !.integrity = ArtifactSetIntegrity(artifacts)]
           updated   == UpdateRuntimeIntegrity(start, o.inputs[1].directory)
           envelope  == [Unsigned EXCEPT !.keyId = o.keyId]
           unsigned  == [updated EXCEPT !.signature = envelope]
           packaged  == [unsigned EXCEPT !.signature = Sign(o, ForSignature(unsigned))]
<1>1. PackagedManifest(m, o, built) = packaged
  BY DEF PackagedManifest
<1>2. updated = [f \in DOMAIN m |-> updated[f]] /\ "signature" \in DOMAIN updated
  BY DEF UpdateRuntimeIntegrity
<1>3. unsigned.signature = envelope /\ envelope.keyId = o.keyId
  BY <1>2 DEF Unsigned
<1>4. packaged.signature = Sign(o, ForSignature(unsigned)) /\ packaged.signature.keyId = o.keyId
  BY <1>2 DEF Sign
<1>5. ForSignature(packaged) = ForSignature(unsigned)
  <2> HIDE DEF updated, envelope
  <2>1. ForSignature(packaged) = [updated EXCEPT !.signature = o.keyId]
    BY <1>2, <1>4 DEF ForSignature
  <2>2. ForSignature(unsigned) = [updated EXCEPT !.signature = o.keyId]
    BY <1>2, <1>3 DEF ForSignature
  <2> QED
    BY <2>1, <2>2
<1> HIDE DEF packaged, unsigned
<1> QED
  BY <1>1, <1>4, <1>5 DEF VerifyPublisherSignature, ParseSigningKeys, Sign
-----------------------------------------------------------------------------
(* Installations of one device. *)

\* What a row of the outbox and an item of a snapshot may be.
OutboxRows == [inst : Installations, status : {"downloading", "installed", "failed"},
               round : 0..MaxRequests, wait : 0..Backoff]
SnapshotItems == [inst : Installations, status : Pending \cup {"installed"},
                  round : 0..MaxRequests]
\* The thread between the fetch and the commit, and with an installation in hand.
Applying == {"apply", "install", "activate", "installed", "failed"}
Busy     == {"install", "activate", "installed", "failed"}
\* The rows of the outbox, without their order.
Rows     == {outbox[n] : n \in DOMAIN outbox}

\* The types, which speak of the records a step takes apart.
SyncTypes ==
  /\ status \in [Installations -> {"absent"} \cup Pending \cup Settled]
  /\ grant \in [Installations -> BOOLEAN]
  /\ local \in [Installations -> {"absent", "files", "present"}]
  /\ requests \in 0..MaxRequests /\ revision = requests
  /\ committed \in 0..revision /\ target \in 0..revision
  /\ round \in [Installations -> 0..requests] /\ verdict \in [Installations -> 0..MaxRequests]
  /\ pc \in {"idle", "flush", "fetch", "apply", "install", "activate", "installed",
             "failed", "applied", "reflush"}
  /\ late \subseteq Reports /\ batch \subseteq Reports /\ todo \subseteq SnapshotItems
  /\ pc \in Busy => cur \in SnapshotItems
  /\ waiting \in BOOLEAN /\ faults \in Nat
  /\ excluded \subseteq Installations /\ refused \subseteq Installations

\* The outbox has at most one row of a status for an installation.
OutboxInv ==
  /\ outbox \in Seq(OutboxRows)
  /\ \A m, n \in DOMAIN outbox :
       outbox[m].inst = outbox[n].inst /\ outbox[m].status = outbox[n].status => m = n

\* The device owes the installation no further answer.
Answered(i) == i \in excluded \/ \E e \in Rows : e.inst = i /\ e.status \in Settled

\* What is committed, and a snapshot being applied, leaves no request unanswered.
AnswerInv ==
  /\ committed = revision => \A i \in Installations : status[i] \in Pending => Answered(i)
  /\ pc \in Applying => committed < target
  /\ pc \in Applying /\ target = revision /\ ~waiting =>
       \A i \in Installations : status[i] \in Pending =>
         \/ Answered(i)
         \/ \E item \in todo : item.inst = i /\ item.status \in Pending
         \/ pc \in Busy /\ cur.inst = i /\ cur.status \in Pending

\* While every answer has arrived and no report of an installation was
\* rejected, its rows and the snapshot agree with the control plane about it.
VerdictInv ==
  faults = 0 =>
    /\ late = {}
    /\ \A i \in Installations \ refused :
         status[i] \in Settled => verdict[i] = round[i]
    /\ \A e \in Rows : e.inst \notin refused =>
         /\ e.wait = 0 /\ e.round = round[e.inst]
         /\ status[e.inst] \in Pending
         /\ pc # "fetch"
         /\ pc \in {"flush", "reflush"} => Report(e) \in batch
         /\ \A f \in Rows : f.inst = e.inst => f.status = e.status
         /\ pc \in Applying => \A item \in todo : item.inst # e.inst
         /\ pc \in Busy => cur.inst # e.inst
    /\ pc \in Applying => \A item \in todo : item.inst \notin refused =>
         /\ item.status = status[item.inst] /\ item.round = round[item.inst]
         /\ \A other \in todo : other.inst = item.inst => other = item
    /\ pc \in Busy /\ cur.inst \notin refused =>
         /\ cur.status = status[cur.inst] /\ cur.round = round[cur.inst]
         /\ \A item \in todo : item.inst # cur.inst

(* The inductive invariant. *)
SyncInv == SyncTypes /\ OutboxInv /\ AnswerInv /\ VerdictInv

\* What RemoveAt leaves of a sequence.
LEMMA RemovedEntry ==
  ASSUME NEW S, NEW s \in Seq(S), NEW i \in 1..Len(s), NEW r, r = RemoveAt(s, i)
  PROVE  /\ r \in Seq(S) /\ Len(r) = Len(s) - 1
         /\ \A j \in 1..(Len(s) - 1) : r[j] = s[IF j < i THEN j ELSE j + 1]
<1> DEFINE a == SubSeq(s, 1, i - 1)
           b == SubSeq(s, i + 1, Len(s))
<1>1. a \in Seq(S) /\ Len(a) = i - 1 /\ \A j \in 1..(i - 1) : a[j] = s[j]
  OBVIOUS
<1>2. /\ b \in Seq(S) /\ Len(b) = Len(s) - i
      /\ \A j \in 1..(Len(s) - i) : b[j] = s[i + j]
  OBVIOUS
<1>3. r = a \o b
  BY DEF RemoveAt
<1> HIDE DEF a, b
<1>4. /\ r \in Seq(S) /\ Len(r) = Len(a) + Len(b)
      /\ \A j \in 1..(Len(a) + Len(b)) : r[j] = IF j <= Len(a) THEN a[j] ELSE b[j - Len(a)]
  <2> DEFINE c == a \o b
  <2>1. /\ c \in Seq(S) /\ Len(c) = Len(a) + Len(b)
        /\ \A j \in 1..(Len(a) + Len(b)) : c[j] = IF j <= Len(a) THEN a[j] ELSE b[j - Len(a)]
    BY <1>1, <1>2, ConcatProperties, Zenon
  <2> QED
    BY <1>3, <2>1
<1>5. Len(s) \in Nat /\ Len(a) + Len(b) = Len(s) - 1
  BY <1>1, <1>2
<1>6. ASSUME NEW j \in 1..(Len(s) - 1) PROVE r[j] = s[IF j < i THEN j ELSE j + 1]
  <2>1. CASE j < i
    BY <2>1, <1>1, <1>4, <1>5
  <2>2. CASE ~(j < i)
    <3>1. r[j] = b[j - (i - 1)]
      BY SMTT(45), <2>2, <1>1, <1>4, <1>5
    <3>2. b[j - (i - 1)] = s[j + 1]
      BY <2>2, <1>2
    <3> QED
      BY <2>2, <3>1, <3>2
  <2> QED
    BY <2>1, <2>2
<1> QED
  BY <1>4, <1>5, <1>6

\* Every row makes a report.
LEMMA RowFacts ==
  ASSUME NEW s \in Seq(OutboxRows), NEW n \in DOMAIN s
  PROVE  /\ s[n] \in OutboxRows /\ s[n].wait \in 0..Backoff
         /\ Report(s[n]) \in Reports
<1>1. \A e \in OutboxRows : e.wait \in 0..Backoff /\ Report(e) \in Reports
  BY DEF OutboxRows, Report, Reports
<1>2. s[n] \in OutboxRows
  OBVIOUS
<1> QED
  BY <1>1, <1>2

\* Rows of an installation differ in their status.
LEMMA RowsDistinct ==
  ASSUME OutboxInv, NEW e \in Rows, NEW f \in Rows, e.inst = f.inst, e.status = f.status
  PROVE  e = f
  BY DEF OutboxInv, Rows

\* An acknowledged report takes its row from the outbox.
LEMMA RowRemoved ==
  ASSUME OutboxInv, NEW n \in DOMAIN outbox, outbox' = Without(n)
  PROVE  OutboxInv' /\ Rows' = Rows \ {outbox[n]}
<1> DEFINE s == outbox  r == outbox'
<1>1. s \in Seq(OutboxRows) /\ DOMAIN s = 1..Len(s) /\ n \in 1..Len(s) /\ Len(s) \in Nat
  BY DEF OutboxInv
<1>2. r = RemoveAt(s, n)
  BY DEF Without
<1> HIDE DEF r
<1>3. /\ r \in Seq(OutboxRows) /\ Len(r) = Len(s) - 1
      /\ \A j \in 1..(Len(s) - 1) : r[j] = s[IF j < n THEN j ELSE j + 1]
  BY ZenonT(60), <1>1, <1>2, RemovedEntry
<1>4. DOMAIN r = 1..(Len(s) - 1)
  BY <1>3
<1>5. \A j \in 1..(Len(s) - 1) :
        (IF j < n THEN j ELSE j + 1) \in 1..Len(s) /\ (IF j < n THEN j ELSE j + 1) # n
  BY <1>1
<1>6. \A k \in 1..Len(s) : k # n => \E j \in 1..(Len(s) - 1) : k = IF j < n THEN j ELSE j + 1
  <2> SUFFICES ASSUME NEW k \in 1..Len(s), k # n
               PROVE  \E j \in 1..(Len(s) - 1) : k = IF j < n THEN j ELSE j + 1
    OBVIOUS
  <2> DEFINE j == IF k < n THEN k ELSE k - 1
  <2> WITNESS j \in 1..(Len(s) - 1)
  <2> QED
    BY <1>1
<1>7. \A k \in 1..Len(s) : k # n => s[k] # s[n]
  BY <1>1 DEF OutboxInv
<1>8. {r[j] : j \in DOMAIN r} = {s[k] : k \in DOMAIN s} \ {s[n]}
  <2>1. ASSUME NEW j \in 1..(Len(s) - 1) PROVE r[j] \in {s[k] : k \in 1..Len(s)} /\ r[j] # s[n]
    <3> DEFINE k == IF j < n THEN j ELSE j + 1
    <3>1. k \in 1..Len(s) /\ k # n /\ r[j] = s[k]
      BY <1>3, <1>5
    <3> QED
      BY <3>1, <1>7
  <2>2. ASSUME NEW k \in 1..Len(s), s[k] # s[n] PROVE s[k] \in {r[j] : j \in 1..(Len(s) - 1)}
    BY <1>3, <1>6, <2>2
  <2> QED
    BY <1>1, <1>4, <2>1, <2>2
<1>9. \A j, l \in 1..(Len(s) - 1) :
        r[j].inst = r[l].inst /\ r[j].status = r[l].status => j = l
  <2> SUFFICES ASSUME NEW j \in 1..(Len(s) - 1), NEW l \in 1..(Len(s) - 1),
                      r[j].inst = r[l].inst, r[j].status = r[l].status
               PROVE  j = l
    OBVIOUS
  <2> DEFINE J == IF j < n THEN j ELSE j + 1
             L == IF l < n THEN l ELSE l + 1
  <2>1. J \in 1..Len(s) /\ L \in 1..Len(s) /\ r[j] = s[J] /\ r[l] = s[L]
    BY <1>3, <1>5
  <2> HIDE DEF J, L
  <2>2. J = L
    BY <1>1, <2>1 DEF OutboxInv
  <2> QED
    BY <1>1, <2>2 DEF J, L
<1> QED
  BY ZenonT(60), <1>3, <1>4, <1>8, <1>9 DEF OutboxInv, Rows, r

\* An enqueued report is a new row, unless there is one of its status.
LEMMA RowEnqueued ==
  ASSUME OutboxInv, NEW item \in SnapshotItems, NEW result \in {"downloading", "installed", "failed"},
         outbox' = Enqueued(item, result)
  PROVE  /\ OutboxInv'
         /\ \/ Rows' = Rows /\ \E e \in Rows : e.inst = item.inst /\ e.status = result
            \/ \E e \in OutboxRows :
                 /\ e.inst = item.inst /\ e.status = result /\ e.round = item.round /\ e.wait = 0
                 /\ Rows' = Rows \cup {e}
<1> DEFINE s == outbox
           e == [inst |-> item.inst, status |-> result, round |-> item.round, wait |-> 0]
<1>1. s \in Seq(OutboxRows) /\ DOMAIN s = 1..Len(s) /\ Len(s) \in Nat
  BY DEF OutboxInv
<1>2. e \in OutboxRows
  BY BackoffAssumption DEF SnapshotItems, OutboxRows
<1>3. CASE \E n \in DOMAIN outbox : outbox[n].inst = item.inst /\ outbox[n].status = result
  <2>1. outbox' = outbox
    BY <1>3 DEF Enqueued
  <2>2. OutboxInv' /\ Rows' = Rows
    BY <2>1 DEF OutboxInv, Rows
  <2> QED
    BY <1>3, <2>2 DEF Rows
<1>4. CASE ~\E n \in DOMAIN outbox : outbox[n].inst = item.inst /\ outbox[n].status = result
  <2> DEFINE r == outbox'
  <2>1. r = Append(s, e)
    BY <1>4 DEF Enqueued
  <2> HIDE DEF e, r
  <2>2. /\ r \in Seq(OutboxRows) /\ DOMAIN r = 1..(Len(s) + 1)
        /\ r[Len(s) + 1] = e /\ \A n \in 1..Len(s) : r[n] = s[n]
    BY <1>1, <1>2, <2>1
  <2>3. {r[n] : n \in DOMAIN r} = {s[n] : n \in DOMAIN s} \cup {e}
    BY <1>1, <2>2
  <2>4. e.inst = item.inst /\ e.status = result /\ e.round = item.round /\ e.wait = 0
    BY DEF e
  <2>5. \A m, n \in DOMAIN r : r[m].inst = r[n].inst /\ r[m].status = r[n].status => m = n
    <3> SUFFICES ASSUME NEW m \in 1..(Len(s) + 1), NEW n \in 1..(Len(s) + 1),
                        r[m].inst = r[n].inst, r[m].status = r[n].status
                 PROVE  m = n
      BY <2>2
    <3>1. CASE m \in 1..Len(s) /\ n \in 1..Len(s)
      BY <1>1, <2>2, <3>1 DEF OutboxInv
    <3>2. CASE m = Len(s) + 1 \/ n = Len(s) + 1
      BY <1>1, <1>4, <2>2, <2>4, <3>2
    <3> QED
      BY <1>1, <3>1, <3>2
  <2> QED
    BY <1>2, <2>2, <2>3, <2>4, <2>5 DEF OutboxInv, Rows, r
<1> QED
  BY <1>3, <1>4

\* Rows that make the same report.
SameReport(e, f) == e.inst = f.inst /\ e.status = f.status /\ e.round = f.round

\* Only the waits of the rows change.
LEMMA RowsAged ==
  ASSUME OutboxInv, NEW wait \in [DOMAIN outbox -> 0..Backoff],
         outbox' = [n \in DOMAIN outbox |-> [outbox[n] EXCEPT !.wait = wait[n]]]
  PROVE  /\ OutboxInv'
         /\ \A n \in DOMAIN outbox : outbox'[n] \in Rows' /\ SameReport(outbox[n], outbox'[n])
                                     /\ outbox'[n].wait = wait[n]
         /\ \A e \in Rows' : \E n \in DOMAIN outbox : e = outbox'[n]
<1> DEFINE s == outbox  r == outbox'
<1>1. s \in Seq(OutboxRows) /\ DOMAIN s = 1..Len(s) /\ Len(s) \in Nat
  BY DEF OutboxInv
<1>2. \A e \in OutboxRows : \A w \in 0..Backoff :
        /\ [e EXCEPT !.wait = w] \in OutboxRows /\ [e EXCEPT !.wait = w].wait = w
        /\ SameReport(e, [e EXCEPT !.wait = w])
  BY DEF OutboxRows, SameReport
<1>3. \A n \in 1..Len(s) : s[n] \in OutboxRows
  BY <1>1
<1>4. \A n \in 1..Len(s) : r[n] \in OutboxRows /\ SameReport(s[n], r[n]) /\ r[n].wait = wait[n]
  BY <1>1, <1>2, <1>3
<1>5. r = [n \in 1..Len(s) |-> r[n]]
  BY <1>1
<1> HIDE DEF r
<1>6. r \in Seq(OutboxRows) /\ DOMAIN r = 1..Len(s)
  BY <1>1, <1>4, <1>5
<1>7. \A m, n \in 1..Len(s) : r[m].inst = r[n].inst /\ r[m].status = r[n].status => m = n
  BY <1>1, <1>4 DEF OutboxInv, SameReport
<1>8. OutboxInv'
  BY ZenonT(60), <1>6, <1>7 DEF OutboxInv, r
<1>9. \A e \in {r[n] : n \in DOMAIN r} : \E n \in 1..Len(s) : e = r[n]
  BY <1>6
<1> QED
  BY <1>1, <1>4, <1>6, <1>8, <1>9 DEF Rows, r

\* A request moves the revision, so nothing committed or fetched answers for it.
LEMMA RequestInstallationSyncs ==
  ASSUME SyncInv, NEW i \in Installations, RequestInstallation(i)
  PROVE  SyncInv'
<1> USE DEF SyncInv
<1>3. SyncTypes'
  BY InstallationBoundAssumption DEF SyncTypes, RequestInstallation, server,
     thread, counters, history, Busy, Pending, Settled, Reports,
     SnapshotItems, Report, OutboxRows
<1>4. OutboxInv'
  BY DEF OutboxInv, RequestInstallation, server, thread, counters, history
<1>5. AnswerInv'
  BY DEF AnswerInv, SyncTypes, Answered, Rows, RequestInstallation, server,
     thread, counters, history, Applying, Busy, Pending, Settled, SameReport,
     Accepts, Allowed, OutboxRows, SnapshotItems
<1>6. VerdictInv'
  BY DEF VerdictInv, SyncTypes, Rows, RequestInstallation, server, thread,
     counters, history, Applying, Busy, Pending, Settled, SameReport, Report,
     OutboxRows, SnapshotItems
<1> QED
  BY <1>3, <1>4, <1>5, <1>6

\* Grants are no part of the invariant.
LEMMA GrantChangesSyncs ==
  ASSUME SyncInv, NEW i \in Installations, GrantChanges(i)
  PROVE  SyncInv'
<1> USE DEF SyncInv
<1>3. SyncTypes'
  BY InstallationBoundAssumption DEF SyncTypes, GrantChanges, server, thread,
     counters, history, Busy, Pending, Settled, Reports, SnapshotItems,
     Report, OutboxRows
<1>4. OutboxInv'
  BY DEF OutboxInv, GrantChanges, server, thread, counters, history
<1>5. AnswerInv'
  BY DEF AnswerInv, SyncTypes, Answered, Rows, GrantChanges, server, thread,
     counters, history, Applying, Busy, Pending, Settled, SameReport, Accepts,
     Allowed, OutboxRows, SnapshotItems
<1>6. VerdictInv'
  BY DEF VerdictInv, SyncTypes, Rows, GrantChanges, server, thread, counters,
     history, Applying, Busy, Pending, Settled, SameReport, Report,
     OutboxRows, SnapshotItems
<1> QED
  BY <1>3, <1>4, <1>5, <1>6

\* A late report needs a lost answer, and never makes an installation pending.
LEMMA LateReportSyncs ==
  ASSUME SyncInv, NEW r \in late, LateReportExecutes(r) \/ LateReportIsLost(r)
  PROVE  SyncInv'
<1> USE DEF SyncInv
<1>3. SyncTypes'
  BY InstallationBoundAssumption DEF SyncTypes, LateReportExecutes,
     LateReportIsLost, UpdateInstallationStatus, Reports, server, thread,
     counters, history, Busy, Pending, Settled, SnapshotItems, Report,
     OutboxRows
<1>4. OutboxInv'
  BY DEF OutboxInv, LateReportExecutes, LateReportIsLost,
     UpdateInstallationStatus, Reports, server, thread, counters, history
<1>5. AnswerInv'
  BY DEF AnswerInv, SyncTypes, Answered, Rows, LateReportExecutes,
     LateReportIsLost, UpdateInstallationStatus, Reports, server, thread,
     counters, history, Applying, Busy, Pending, Settled, SameReport, Accepts,
     Allowed, OutboxRows, SnapshotItems
<1>6. VerdictInv'
  BY DEF VerdictInv, SyncTypes, Rows, LateReportExecutes, LateReportIsLost,
     UpdateInstallationStatus, Reports, server, thread, counters, history,
     Applying, Busy, Pending, Settled, SameReport, Report, OutboxRows,
     SnapshotItems
<1> QED
  BY <1>3, <1>4, <1>5, <1>6

\* The reports that are due are read, one cycle later for the rest.
LEMMA BeginCycleSyncs ==
  ASSUME SyncInv, BeginCycle
  PROVE  SyncInv'
<1> USE DEF SyncInv
<1>1. OutboxInv' /\ (\A e \in Rows : \E f \in Rows' : SameReport(e, f))
      /\ \A f \in Rows' : \E e \in Rows : SameReport(e, f) /\ (e.wait = 0 => f.wait = 0)
  <2> DEFINE w == [n \in DOMAIN outbox |-> IF outbox[n].wait = 0 THEN 0 ELSE outbox[n].wait - 1]
  <2>1. w \in [DOMAIN outbox -> 0..Backoff]
    <3>1. \A n \in DOMAIN outbox : outbox[n].wait \in 0..Backoff
      BY RowFacts DEF OutboxInv
    <3> QED
      BY <3>1, BackoffAssumption
  <2>2. outbox' = [n \in DOMAIN outbox |-> [outbox[n] EXCEPT !.wait = w[n]]]
    BY DEF BeginCycle
  <2>3. \A n \in DOMAIN outbox : outbox[n].wait = 0 => w[n] = 0
    OBVIOUS
  <2> HIDE DEF w
  <2>4. /\ OutboxInv'
        /\ \A n \in DOMAIN outbox : outbox'[n] \in Rows' /\ SameReport(outbox[n], outbox'[n])
                                    /\ outbox'[n].wait = w[n]
        /\ \A e \in Rows' : \E n \in DOMAIN outbox : e = outbox'[n]
    BY <2>1, <2>2, RowsAged
  <2>5. \A n \in DOMAIN outbox : outbox[n] \in Rows
    BY DEF Rows
  <2>6. \A e \in Rows : \E n \in DOMAIN outbox : e = outbox[n]
    BY DEF Rows
  <2> QED
    BY <2>3, <2>4, <2>5, <2>6
<1>2. (\A e \in Rows' : e.wait = 0 => Report(e) \in batch') /\ batch' \subseteq Reports
  <2>1. \A n \in DOMAIN outbox' : Report(outbox'[n]) \in Reports
    BY <1>1, RowFacts DEF OutboxInv
  <2> QED
    BY <2>1 DEF BeginCycle, BeginFlush, Rows
<1>3. SyncTypes'
  BY InstallationBoundAssumption, <1>1, <1>2 DEF SyncTypes, BeginCycle,
     BeginFlush, server, thread, counters, history, Busy, Pending, Settled,
     Reports, SnapshotItems, Report, OutboxRows
<1>4. OutboxInv'
  BY <1>1, <1>2 DEF OutboxInv, BeginCycle, BeginFlush, server, thread,
     counters, history
<1>5. AnswerInv'
  BY <1>1, <1>2 DEF AnswerInv, SyncTypes, Answered, BeginCycle, BeginFlush,
     server, thread, counters, history, Applying, Busy, Pending, Settled,
     SameReport, Accepts, Allowed, OutboxRows, SnapshotItems
<1>6. VerdictInv'
  <2> USE DEF BeginCycle, BeginFlush, server, counters, history
  <2>1. ASSUME faults = 0, NEW e \in Rows', e.inst \notin refused
        PROVE  /\ e.wait = 0 /\ e.round = round[e.inst] /\ status[e.inst] \in Pending
               /\ \A f \in Rows' : f.inst = e.inst => f.status = e.status
    <3>1. PICK d \in Rows : SameReport(d, e) /\ (d.wait = 0 => e.wait = 0)
      BY <1>1
    <3>2. d.wait = 0 /\ d.round = round[d.inst] /\ status[d.inst] \in Pending /\ d.inst = e.inst
          /\ \A f \in Rows : f.inst = d.inst => f.status = d.status
      BY <2>1, <3>1 DEF VerdictInv, SameReport
    <3>3. ASSUME NEW f \in Rows', f.inst = e.inst PROVE f.status = e.status
      BY <1>1, <3>1, <3>2, <3>3 DEF SameReport
    <3> QED
      BY <3>1, <3>2, <3>3 DEF SameReport
  <2>2. pc' = "flush"
    OBVIOUS
  <2> QED
    BY <1>2, <2>1, <2>2 DEF VerdictInv, Applying, Busy
<1> QED
  BY <1>3, <1>4, <1>5, <1>6

\* They are read again after the application.
LEMMA FlushAgainSyncs ==
  ASSUME SyncInv, FlushAgain
  PROVE  SyncInv'
<1> USE DEF SyncInv
<1>1. OutboxInv' /\ Rows' = Rows
  BY DEF FlushAgain, OutboxInv, Rows
<1>2. (\A e \in Rows' : e.wait = 0 => Report(e) \in batch') /\ batch' \subseteq Reports
  <2>1. \A n \in DOMAIN outbox' : Report(outbox'[n]) \in Reports
    BY <1>1, RowFacts DEF OutboxInv
  <2> QED
    BY <2>1 DEF FlushAgain, BeginFlush, Rows
<1>3. SyncTypes'
  BY InstallationBoundAssumption, <1>1, <1>2 DEF SyncTypes, FlushAgain,
     BeginFlush, server, thread, counters, history, Busy, Pending, Settled,
     Reports, SnapshotItems, Report, OutboxRows
<1>4. OutboxInv'
  BY <1>1, <1>2 DEF OutboxInv, FlushAgain, BeginFlush, server, thread,
     counters, history
<1>5. AnswerInv'
  BY <1>1, <1>2 DEF AnswerInv, SyncTypes, Answered, FlushAgain, BeginFlush,
     server, thread, counters, history, Applying, Busy, Pending, Settled,
     SameReport, Accepts, Allowed, OutboxRows, SnapshotItems
<1>6. VerdictInv'
  BY <1>1, <1>2 DEF VerdictInv, SyncTypes, FlushAgain, BeginFlush, server,
     thread, counters, history, Applying, Busy, Pending, Settled, SameReport,
     Report, OutboxRows, SnapshotItems
<1> QED
  BY <1>3, <1>4, <1>5, <1>6

\* A report of the present request settles it; one row of a kind at a time.
LEMMA ReportAcceptedSyncs ==
  ASSUME SyncInv, NEW n \in DOMAIN outbox, ReportAccepted(n)
  PROVE  SyncInv'
<1> USE DEF SyncInv
<1>1. OutboxInv' /\ Rows' = Rows \ {outbox[n]}
  BY RowRemoved DEF ReportAccepted
<1>2. /\ outbox[n] \in Rows /\ outbox[n] \in OutboxRows
      /\ \A e \in Rows' : e.inst # outbox[n].inst \/ e.status # outbox[n].status
  BY <1>1, RowsDistinct DEF OutboxInv, Rows
<1>3. SyncTypes'
  BY InstallationBoundAssumption, <1>1, <1>2 DEF SyncTypes, ReportAccepted,
     UpdateInstallationStatus, Sending, Report, server, thread, counters,
     history, Busy, Pending, Settled, Reports, SnapshotItems, OutboxRows
<1>4. OutboxInv'
  BY <1>1, <1>2 DEF OutboxInv, ReportAccepted, UpdateInstallationStatus,
     Sending, Report, server, thread, counters, history
<1>5. AnswerInv'
  BY <1>1, <1>2 DEF AnswerInv, SyncTypes, Answered, ReportAccepted,
     UpdateInstallationStatus, Sending, Report, server, thread, counters,
     history, Applying, Busy, Pending, Settled, SameReport, Accepts, Allowed,
     OutboxRows, SnapshotItems
<1>6. VerdictInv'
  BY <1>1, <1>2 DEF VerdictInv, SyncTypes, ReportAccepted,
     UpdateInstallationStatus, Sending, Report, server, thread, counters,
     history, Applying, Busy, Pending, Settled, SameReport, OutboxRows,
     SnapshotItems
<1> QED
  BY <1>3, <1>4, <1>5, <1>6

\* A rejected report stays, and its installation is noted.
LEMMA ReportRejectedSyncs ==
  ASSUME SyncInv, NEW n \in DOMAIN outbox, ReportRejected(n)
  PROVE  SyncInv'
<1> USE DEF SyncInv
<1>1. /\ OutboxInv' /\ \A e \in Rows : \E f \in Rows' : SameReport(e, f)
      /\ \A f \in Rows' : f \in Rows \/ f.inst = outbox[n].inst
  <2> DEFINE w == [m \in DOMAIN outbox |-> IF m = n THEN Backoff ELSE outbox[m].wait]
  <2>1. w \in [DOMAIN outbox -> 0..Backoff]
    <3>1. \A m \in DOMAIN outbox : outbox[m].wait \in 0..Backoff
      BY RowFacts DEF OutboxInv
    <3> QED
      BY <3>1, BackoffAssumption
  <2>2. outbox' = [m \in DOMAIN outbox |-> [outbox[m] EXCEPT !.wait = w[m]]]
    <3>1. \A e \in OutboxRows : [e EXCEPT !.wait = e.wait] = e
      BY DEF OutboxRows
    <3>2. \A m \in DOMAIN outbox : outbox[m] \in OutboxRows
      BY DEF OutboxInv
    <3> QED
      BY <3>1, <3>2 DEF ReportRejected, FlushFails, OutboxInv
  <2>3. \A m \in DOMAIN outbox : m # n => outbox'[m] = outbox[m]
    BY DEF ReportRejected, FlushFails
  <2> HIDE DEF w
  <2>4. /\ OutboxInv'
        /\ \A m \in DOMAIN outbox : outbox'[m] \in Rows' /\ SameReport(outbox[m], outbox'[m])
        /\ \A e \in Rows' : \E m \in DOMAIN outbox : e = outbox'[m]
    BY <2>1, <2>2, RowsAged
  <2>5. ASSUME NEW f \in Rows' PROVE f \in Rows \/ f.inst = outbox[n].inst
    BY <2>3, <2>4 DEF SameReport, Rows
  <2> QED
    BY <2>4, <2>5 DEF Rows
<1>2. outbox[n] \in Rows /\ outbox[n] \in OutboxRows
  BY DEF OutboxInv, Rows
<1>3. SyncTypes'
  BY InstallationBoundAssumption, <1>1, <1>2 DEF SyncTypes, ReportRejected,
     FlushFails, Sending, server, thread, counters, history, Busy, Pending,
     Settled, Reports, SnapshotItems, Report, OutboxRows
<1>4. OutboxInv'
  BY <1>1, <1>2 DEF OutboxInv, ReportRejected, FlushFails, Sending, server,
     thread, counters, history
<1>5. AnswerInv'
  BY <1>1, <1>2 DEF AnswerInv, SyncTypes, Answered, ReportRejected,
     FlushFails, Sending, server, thread, counters, history, Applying, Busy,
     Pending, Settled, SameReport, Accepts, Allowed, OutboxRows, SnapshotItems
<1>6. VerdictInv'
  <2> USE DEF ReportRejected, FlushFails, server, counters, history
  <2>1. ASSUME NEW e \in Rows', e.inst \notin refused'
        PROVE  e \in Rows /\ e.inst \notin refused
    BY <1>1, <2>1
  <2>2. pc' = "idle" /\ refused \subseteq refused'
    OBVIOUS
  <2> QED
    BY <2>1, <2>2 DEF VerdictInv, Applying, Busy
<1> QED
  BY <1>3, <1>4, <1>5, <1>6

\* A report without an answer stays, and counts as a fault.
LEMMA ReportTimesOutSyncs ==
  ASSUME SyncInv, NEW n \in DOMAIN outbox, ReportTimesOut(n)
  PROVE  SyncInv'
<1> USE DEF SyncInv
<1>1. /\ OutboxInv' /\ \A e \in Rows : \E f \in Rows' : SameReport(e, f)
      /\ \A f \in Rows' : f \in Rows \/ f.inst = outbox[n].inst
  <2> DEFINE w == [m \in DOMAIN outbox |-> IF m = n THEN Backoff ELSE outbox[m].wait]
  <2>1. w \in [DOMAIN outbox -> 0..Backoff]
    <3>1. \A m \in DOMAIN outbox : outbox[m].wait \in 0..Backoff
      BY RowFacts DEF OutboxInv
    <3> QED
      BY <3>1, BackoffAssumption
  <2>2. outbox' = [m \in DOMAIN outbox |-> [outbox[m] EXCEPT !.wait = w[m]]]
    <3>1. \A e \in OutboxRows : [e EXCEPT !.wait = e.wait] = e
      BY DEF OutboxRows
    <3>2. \A m \in DOMAIN outbox : outbox[m] \in OutboxRows
      BY DEF OutboxInv
    <3> QED
      BY <3>1, <3>2 DEF ReportTimesOut, FlushFails, OutboxInv
  <2>3. \A m \in DOMAIN outbox : m # n => outbox'[m] = outbox[m]
    BY DEF ReportTimesOut, FlushFails
  <2> HIDE DEF w
  <2>4. /\ OutboxInv'
        /\ \A m \in DOMAIN outbox : outbox'[m] \in Rows' /\ SameReport(outbox[m], outbox'[m])
        /\ \A e \in Rows' : \E m \in DOMAIN outbox : e = outbox'[m]
    BY <2>1, <2>2, RowsAged
  <2>5. ASSUME NEW f \in Rows' PROVE f \in Rows \/ f.inst = outbox[n].inst
    BY <2>3, <2>4 DEF SameReport, Rows
  <2> QED
    BY <2>4, <2>5 DEF Rows
<1>2. outbox[n] \in Rows /\ outbox[n] \in OutboxRows
  BY DEF OutboxInv, Rows
<1>3. SyncTypes'
  BY InstallationBoundAssumption, <1>1, <1>2 DEF SyncTypes, ReportTimesOut,
     FlushFails, Sending, server, thread, counters, history, Busy, Pending,
     Settled, Reports, SnapshotItems, Report, OutboxRows
<1>4. OutboxInv'
  BY <1>1, <1>2 DEF OutboxInv, ReportTimesOut, FlushFails, Sending, server,
     thread, counters, history
<1>5. AnswerInv'
  BY <1>1, <1>2 DEF AnswerInv, SyncTypes, Answered, ReportTimesOut,
     FlushFails, Sending, server, thread, counters, history, Applying, Busy,
     Pending, Settled, SameReport, Accepts, Allowed, OutboxRows, SnapshotItems
<1>6. VerdictInv'
  BY <1>1, <1>2 DEF VerdictInv, SyncTypes, ReportTimesOut, FlushFails,
     Sending, server, thread, counters, history, Applying, Busy, Pending,
     Settled, SameReport, Report, OutboxRows, SnapshotItems
<1> QED
  BY <1>3, <1>4, <1>5, <1>6

\* Whatever was due has been sent before the snapshot is fetched.
LEMMA FlushDoneSyncs ==
  ASSUME SyncInv, FlushDone
  PROVE  SyncInv'
<1> USE DEF SyncInv
<1>3. SyncTypes'
  BY InstallationBoundAssumption DEF SyncTypes, FlushDone, Goto, server,
     thread, counters, history, Busy, Pending, Settled, Reports,
     SnapshotItems, Report, OutboxRows
<1>4. OutboxInv'
  BY DEF OutboxInv, FlushDone, Goto, server, thread, counters, history
<1>5. AnswerInv'
  BY DEF AnswerInv, SyncTypes, Answered, Rows, FlushDone, Goto, server,
     thread, counters, history, Applying, Busy, Pending, Settled, SameReport,
     Accepts, Allowed, OutboxRows, SnapshotItems
<1>6. VerdictInv'
  BY DEF VerdictInv, SyncTypes, Rows, FlushDone, Goto, server, thread,
     counters, history, Applying, Busy, Pending, Settled, SameReport, Report,
     OutboxRows, SnapshotItems
<1> QED
  BY <1>3, <1>4, <1>5, <1>6

\* The snapshot names everything pending, or notes it as left out.
LEMMA FetchInstallationSyncSyncs ==
  ASSUME SyncInv, FetchInstallationSync
  PROVE  SyncInv'
<1> USE DEF SyncInv
<1>0. \A i \in Listed : Item(i) \in SnapshotItems /\ i \in Installations
  BY InstallationBoundAssumption DEF SyncTypes, Item, SnapshotItems, Listed
<1>1. \A i \in Installations : Item(i).inst = i /\ Item(i).status = status[i] /\ Item(i).round = round[i]
  BY DEF Item
<1>2. \A i \in Installations : status[i] \in Pending => i \in Listed \/ i \in {j \in Installations : status[j] \in Pending} \ Listed
  OBVIOUS
<1>3. SyncTypes'
  <2> USE DEF FetchInstallationSync, Goto, server, thread, counters, history, SyncTypes
  <2>1. todo' \subseteq SnapshotItems /\ excluded' \subseteq Installations
    BY <1>0
  <2>2. target' \in 0..revision
    OBVIOUS
  <2>3. pc' \in {"apply", "applied"} /\ waiting' \in BOOLEAN
    OBVIOUS
  <2> QED
    BY <2>1, <2>2, <2>3 DEF Busy
<1>4. OutboxInv'
  BY <1>0, <1>1, <1>2 DEF OutboxInv, FetchInstallationSync, Goto, server,
     thread, counters, history
<1>5. AnswerInv'
  BY <1>0, <1>1, <1>2 DEF AnswerInv, SyncTypes, Answered, Rows,
     FetchInstallationSync, Goto, server, thread, counters, history, Applying,
     Busy, Pending, Settled, SameReport, Accepts, Allowed, OutboxRows,
     SnapshotItems
<1>6. VerdictInv'
  BY <1>0, <1>1, <1>2 DEF VerdictInv, SyncTypes, Rows, FetchInstallationSync,
     Goto, server, thread, counters, history, Applying, Busy, Pending,
     Settled, SameReport, Report, OutboxRows, SnapshotItems
<1> QED
  BY <1>3, <1>4, <1>5, <1>6

\* Without a snapshot nothing is committed.
LEMMA FetchEndsEarlySyncs ==
  ASSUME SyncInv, SnapshotRefused \/ FetchFails
  PROVE  SyncInv'
<1> USE DEF SyncInv
<1>3. SyncTypes'
  BY InstallationBoundAssumption DEF SyncTypes, SnapshotRefused, FetchFails,
     Goto, server, thread, counters, history, Busy, Pending, Settled, Reports,
     SnapshotItems, Report, OutboxRows
<1>4. OutboxInv'
  BY DEF OutboxInv, SnapshotRefused, FetchFails, Goto, server, thread,
     counters, history
<1>5. AnswerInv'
  BY DEF AnswerInv, SyncTypes, Answered, Rows, SnapshotRefused, FetchFails,
     Goto, server, thread, counters, history, Applying, Busy, Pending,
     Settled, SameReport, Accepts, Allowed, OutboxRows, SnapshotItems
<1>6. VerdictInv'
  BY DEF VerdictInv, SyncTypes, Rows, SnapshotRefused, FetchFails, Goto,
     server, thread, counters, history, Applying, Busy, Pending, Settled,
     SameReport, Report, OutboxRows, SnapshotItems
<1> QED
  BY <1>3, <1>4, <1>5, <1>6

\* An item becomes a report, or the installation in hand.
LEMMA ApplyItemSyncs ==
  ASSUME SyncInv, NEW item \in todo, ApplyItem(item)
  PROVE  SyncInv'
<1> USE DEF SyncInv
<1>0. item \in SnapshotItems
  BY DEF SyncTypes
<1>1. /\ OutboxInv' /\ Rows \subseteq Rows'
      /\ \/ Rows' = Rows
         \/ \E e \in OutboxRows :
              /\ e.inst = item.inst /\ e.round = item.round /\ e.wait = 0
              /\ item.status \in Pending /\ Rows' = Rows \cup {e}
      /\ local[item.inst] = "present" /\ item.status # "installed" =>
           \E e \in Rows' : e.inst = item.inst /\ e.status = "installed"
  <2>1. ASSUME outbox' = outbox PROVE OutboxInv' /\ Rows' = Rows
    BY <2>1 DEF OutboxInv, Rows
  <2>2. ASSUME NEW result \in {"downloading", "installed"}, outbox' = Enqueued(item, result)
        PROVE  /\ OutboxInv' /\ Rows \subseteq Rows'
               /\ \/ Rows' = Rows
                  \/ \E e \in OutboxRows :
                       /\ e.inst = item.inst /\ e.round = item.round /\ e.wait = 0
                       /\ Rows' = Rows \cup {e}
               /\ \E e \in Rows' : e.inst = item.inst /\ e.status = result
    BY <1>0, <2>2, RowEnqueued
  <2> QED
    BY <1>0, <2>1, <2>2 DEF ApplyItem, SnapshotItems, Pending
<1>3. SyncTypes'
  BY InstallationBoundAssumption, <1>0, <1>1 DEF SyncTypes, ApplyItem, server,
     thread, counters, history, Busy, Pending, Settled, Reports,
     SnapshotItems, Report, OutboxRows
<1>4. OutboxInv'
  BY <1>0, <1>1 DEF OutboxInv, ApplyItem, server, thread, counters, history
<1>5. AnswerInv'
  BY <1>0, <1>1 DEF AnswerInv, SyncTypes, Answered, ApplyItem, server, thread,
     counters, history, Applying, Busy, Pending, Settled, SameReport, Accepts,
     Allowed, OutboxRows, SnapshotItems
<1>6. VerdictInv'
  <2> USE DEF ApplyItem, server, counters, history
  <2>1. ASSUME faults = 0, item.inst \notin refused
        PROVE  /\ \A e \in Rows : e.inst # item.inst
               /\ item.status = status[item.inst] /\ item.round = round[item.inst]
               /\ \A other \in todo' : other.inst # item.inst
    BY <2>1 DEF VerdictInv, Applying, Busy, Settled
  <2>2. ASSUME faults = 0, NEW e \in Rows', e.inst \notin refused
        PROVE  /\ e.wait = 0 /\ e.round = round[e.inst] /\ status[e.inst] \in Pending
               /\ \A f \in Rows' : f.inst = e.inst => f.status = e.status
               /\ \A other \in todo' : other.inst # e.inst
               /\ pc' \in Busy => cur'.inst # e.inst
    <3>1. CASE e \in Rows
      <4>1. /\ e.wait = 0 /\ e.round = round[e.inst] /\ status[e.inst] \in Pending
            /\ \A f \in Rows : f.inst = e.inst => f.status = e.status
            /\ \A other \in todo : other.inst # e.inst
            /\ pc \in Busy => cur.inst # e.inst
        BY <2>2, <3>1 DEF VerdictInv, Applying, Busy
      <4>2. e.inst # item.inst
        BY <2>1, <2>2, <3>1 DEF VerdictInv, Applying, Busy
      <4>3. \A f \in Rows' : f.inst = e.inst => f \in Rows
        BY <1>1, <4>2
      <4>4. pc' \in Busy => cur'.inst # e.inst
        BY <4>2 DEF Busy
      <4> QED
        BY <4>1, <4>3, <4>4
    <3>2. CASE e \notin Rows
      <4>1. /\ e.inst = item.inst /\ e.round = item.round /\ e.wait = 0
            /\ item.status \in Pending /\ Rows' = Rows \cup {e}
        BY <1>1, <2>2, <3>2
      <4>2. \A f \in Rows' : f.inst = e.inst => f = e
        BY <2>1, <2>2, <4>1
      <4>3. pc' \notin Busy
        <5>1. outbox' # outbox
          BY <3>2 DEF Rows
        <5> QED
          BY <5>1 DEF Busy
      <4> QED
        BY <2>1, <2>2, <4>1, <4>2, <4>3
    <3> QED
      BY <3>1, <3>2
  <2>3. pc' \in Applying /\ pc' \notin {"flush", "reflush", "fetch"} /\ pc \in Applying
    BY DEF Applying, Settled
  <2>4. ASSUME faults = 0, pc' \in Busy, cur'.inst \notin refused
        PROVE  /\ cur'.status = status[cur'.inst] /\ cur'.round = round[cur'.inst]
               /\ \A other \in todo' : other.inst # cur'.inst
    BY <2>1, <2>4 DEF Busy
  <2>5. todo' \subseteq todo
    OBVIOUS
  <2> QED
    BY <2>2, <2>3, <2>4, <2>5 DEF VerdictInv, thread
<1> QED
  BY <1>3, <1>4, <1>5, <1>6

\* The files of an installation are placed, activated, or given up.
LEMMA InstallStepsSyncs ==
  ASSUME SyncInv, PlaceFiles \/ ActivateInstall \/ InstallFails
  PROVE  SyncInv'
<1> USE DEF SyncInv
<1>3. SyncTypes'
  BY InstallationBoundAssumption DEF SyncTypes, PlaceFiles, ActivateInstall,
     InstallFails, Goto, server, thread, counters, history, Busy, Pending,
     Settled, Reports, SnapshotItems, Report, OutboxRows
<1>4. OutboxInv'
  BY DEF OutboxInv, PlaceFiles, ActivateInstall, InstallFails, Goto, server,
     thread, counters, history
<1>5. AnswerInv'
  BY DEF AnswerInv, SyncTypes, Answered, Rows, PlaceFiles, ActivateInstall,
     InstallFails, Goto, server, thread, counters, history, Applying, Busy,
     Pending, Settled, SameReport, Accepts, Allowed, OutboxRows, SnapshotItems
<1>6. VerdictInv'
  BY DEF VerdictInv, SyncTypes, Rows, PlaceFiles, ActivateInstall,
     InstallFails, Goto, server, thread, counters, history, Applying, Busy,
     Pending, Settled, SameReport, Report, OutboxRows, SnapshotItems
<1> QED
  BY <1>3, <1>4, <1>5, <1>6

\* The installation in hand becomes a report.
LEMMA EnqueueResultSyncs ==
  ASSUME SyncInv, EnqueueResult
  PROVE  SyncInv'
<1> USE DEF SyncInv
<1>0. cur \in SnapshotItems
  BY DEF SyncTypes, Busy, EnqueueResult
<1>1. /\ OutboxInv' /\ Rows \subseteq Rows'
      /\ \/ Rows' = Rows
         \/ \E e \in OutboxRows :
              /\ e.inst = cur.inst /\ e.round = cur.round /\ e.wait = 0
              /\ cur.status \in Pending /\ Rows' = Rows \cup {e}
      /\ cur.status # "installed" => \E e \in Rows' : e.inst = cur.inst /\ e.status \in Settled
  <2>1. ASSUME outbox' = outbox PROVE OutboxInv' /\ Rows' = Rows
    BY <2>1 DEF OutboxInv, Rows
  <2>2. ASSUME outbox' = Enqueued(cur, pc), pc \in Settled
        PROVE  /\ OutboxInv' /\ Rows \subseteq Rows'
               /\ \/ Rows' = Rows
                  \/ \E e \in OutboxRows :
                       /\ e.inst = cur.inst /\ e.round = cur.round /\ e.wait = 0
                       /\ Rows' = Rows \cup {e}
               /\ \E e \in Rows' : e.inst = cur.inst /\ e.status = pc
    BY <1>0, <2>2, RowEnqueued DEF Settled
  <2> QED
    BY <1>0, <2>1, <2>2 DEF EnqueueResult, SnapshotItems, Pending, Settled
<1>3. SyncTypes'
  BY InstallationBoundAssumption, <1>0, <1>1 DEF SyncTypes, EnqueueResult,
     server, thread, counters, history, Busy, Pending, Settled, Reports,
     SnapshotItems, Report, OutboxRows
<1>4. OutboxInv'
  BY <1>0, <1>1 DEF OutboxInv, EnqueueResult, server, thread, counters,
     history
<1>5. AnswerInv'
  BY <1>0, <1>1 DEF AnswerInv, SyncTypes, Answered, EnqueueResult, server,
     thread, counters, history, Applying, Busy, Pending, Settled, SameReport,
     Accepts, Allowed, OutboxRows, SnapshotItems
<1>6. VerdictInv'
  <2> USE DEF EnqueueResult, server, counters, history
  <2>1. ASSUME faults = 0, cur.inst \notin refused
        PROVE  /\ \A e \in Rows : e.inst # cur.inst
               /\ cur.status = status[cur.inst] /\ cur.round = round[cur.inst]
               /\ \A other \in todo' : other.inst # cur.inst
    BY <2>1 DEF VerdictInv, Applying, Busy, Settled
  <2>2. ASSUME faults = 0, NEW e \in Rows', e.inst \notin refused
        PROVE  /\ e.wait = 0 /\ e.round = round[e.inst] /\ status[e.inst] \in Pending
               /\ \A f \in Rows' : f.inst = e.inst => f.status = e.status
               /\ \A other \in todo' : other.inst # e.inst
               /\ pc' \in Busy => cur'.inst # e.inst
    <3>1. CASE e \in Rows
      <4>1. /\ e.wait = 0 /\ e.round = round[e.inst] /\ status[e.inst] \in Pending
            /\ \A f \in Rows : f.inst = e.inst => f.status = e.status
            /\ \A other \in todo : other.inst # e.inst
            /\ pc \in Busy => cur.inst # e.inst
        BY <2>2, <3>1 DEF VerdictInv, Applying, Busy
      <4>2. e.inst # cur.inst
        BY <2>1, <2>2, <3>1 DEF VerdictInv, Applying, Busy
      <4>3. \A f \in Rows' : f.inst = e.inst => f \in Rows
        BY <1>1, <4>2
      <4>4. pc' \in Busy => cur'.inst # e.inst
        BY <4>2 DEF Busy
      <4> QED
        BY <4>1, <4>3, <4>4
    <3>2. CASE e \notin Rows
      <4>1. /\ e.inst = cur.inst /\ e.round = cur.round /\ e.wait = 0
            /\ cur.status \in Pending /\ Rows' = Rows \cup {e}
        BY <1>1, <2>2, <3>2
      <4>2. \A f \in Rows' : f.inst = e.inst => f = e
        BY <2>1, <2>2, <4>1
      <4>3. pc' \notin Busy
        <5>1. outbox' # outbox
          BY <3>2 DEF Rows
        <5> QED
          BY <5>1 DEF Busy
      <4> QED
        BY <2>1, <2>2, <4>1, <4>2, <4>3
    <3> QED
      BY <3>1, <3>2
  <2>3. pc' \in Applying /\ pc' \notin {"flush", "reflush", "fetch"} /\ pc \in Applying
    BY DEF Applying, Settled
  <2>4. ASSUME faults = 0, pc' \in Busy, cur'.inst \notin refused
        PROVE  /\ cur'.status = status[cur'.inst] /\ cur'.round = round[cur'.inst]
               /\ \A other \in todo' : other.inst # cur'.inst
    BY <2>1, <2>4 DEF Busy
  <2>5. todo' \subseteq todo
    OBVIOUS
  <2> QED
    BY <2>2, <2>3, <2>4, <2>5 DEF VerdictInv, thread
<1> QED
  BY <1>3, <1>4, <1>5, <1>6

\* The revision is committed once no item is left and no download announced.
LEMMA CommitRevisionSyncs ==
  ASSUME SyncInv, CommitRevision
  PROVE  SyncInv'
<1> USE DEF SyncInv
<1>3. SyncTypes'
  BY InstallationBoundAssumption DEF SyncTypes, CommitRevision, Goto, server,
     thread, counters, history, Busy, Pending, Settled, Reports,
     SnapshotItems, Report, OutboxRows
<1>4. OutboxInv'
  BY DEF OutboxInv, CommitRevision, Goto, server, thread, counters, history
<1>5. AnswerInv'
  BY DEF AnswerInv, SyncTypes, Answered, Rows, CommitRevision, Goto, server,
     thread, counters, history, Applying, Busy, Pending, Settled, SameReport,
     Accepts, Allowed, OutboxRows, SnapshotItems
<1>6. VerdictInv'
  BY DEF VerdictInv, SyncTypes, Rows, CommitRevision, Goto, server, thread,
     counters, history, Applying, Busy, Pending, Settled, SameReport, Report,
     OutboxRows, SnapshotItems
<1> QED
  BY <1>3, <1>4, <1>5, <1>6

\* What a user installs or removes is no part of the invariant.
LEMMA UserTouchesSyncs ==
  ASSUME SyncInv, NEW i \in Installations, UserTouches(i)
  PROVE  SyncInv'
<1> USE DEF SyncInv
<1>3. SyncTypes'
  BY InstallationBoundAssumption DEF SyncTypes, UserTouches, server, thread,
     counters, history, Busy, Pending, Settled, Reports, SnapshotItems,
     Report, OutboxRows
<1>4. OutboxInv'
  BY DEF OutboxInv, UserTouches, server, thread, counters, history
<1>5. AnswerInv'
  BY DEF AnswerInv, SyncTypes, Answered, Rows, UserTouches, server, thread,
     counters, history, Applying, Busy, Pending, Settled, SameReport, Accepts,
     Allowed, OutboxRows, SnapshotItems
<1>6. VerdictInv'
  BY DEF VerdictInv, SyncTypes, Rows, UserTouches, server, thread, counters,
     history, Applying, Busy, Pending, Settled, SameReport, Report,
     OutboxRows, SnapshotItems
<1> QED
  BY <1>3, <1>4, <1>5, <1>6

\* A crash forgets the snapshot and keeps the outbox.
LEMMA CrashSyncs ==
  ASSUME SyncInv, Crash
  PROVE  SyncInv'
<1> USE DEF SyncInv
<1>3. SyncTypes'
  <2> USE DEF Crash, server, counters, history, SyncTypes
  <2>1. faults' \in Nat /\ target' \in 0..revision
    OBVIOUS
  <2>2. todo' = {} /\ batch' = {} /\ pc' = "idle" /\ waiting' \in BOOLEAN
    OBVIOUS
  <2> QED
    BY <2>1, <2>2 DEF Busy
<1>4. OutboxInv'
  BY DEF OutboxInv, Crash, server, thread, counters, history
<1>5. AnswerInv'
  BY DEF AnswerInv, SyncTypes, Answered, Rows, Crash, server, thread,
     counters, history, Applying, Busy, Pending, Settled, SameReport, Accepts,
     Allowed, OutboxRows, SnapshotItems
<1>6. VerdictInv'
  BY DEF VerdictInv, SyncTypes, Rows, Crash, server, thread, counters,
     history, Applying, Busy, Pending, Settled, SameReport, Report,
     OutboxRows, SnapshotItems
<1> QED
  BY <1>3, <1>4, <1>5, <1>6

\* A fresh device satisfies the invariant.
LEMMA InitSyncs ==
  ASSUME Init
  PROVE  SyncInv
<1> USE DEF Init
<1>1. SyncTypes
  <2>1. /\ 0 \in 0..MaxRequests /\ 0 \in 0..0 /\ 0 \in Nat
    BY InstallationBoundAssumption
  <2>2. pc = "idle" /\ pc \notin Busy
    BY DEF Busy
  <2> QED
    BY <2>1, <2>2 DEF SyncTypes
<1>2. OutboxInv /\ Rows = {}
  BY DEF OutboxInv, Rows
<1>3. AnswerInv
  BY DEF AnswerInv, Applying, Pending
<1>4. VerdictInv
  BY <1>2 DEF VerdictInv, Applying, Busy, Settled
<1> QED
  BY <1>1, <1>2, <1>3, <1>4 DEF SyncInv

\* Stuttering keeps it.
LEMMA UnchangedSyncs ==
  ASSUME SyncInv, UNCHANGED vars
  PROVE  SyncInv'
<1> USE DEF SyncInv, vars, server, thread, counters, history
<1>1. SyncTypes' /\ OutboxInv'
  BY DEF SyncTypes, OutboxInv, Busy
<1>2. AnswerInv' /\ VerdictInv'
  BY DEF AnswerInv, VerdictInv, Answered, Rows, Applying, Busy
<1> QED
  BY <1>1, <1>2

\* Every step keeps it.
LEMMA StepSyncs ==
  ASSUME SyncInv, [Next]_vars
  PROVE  SyncInv'
<1>1. ASSUME NEW i \in Installations, RequestInstallation(i)
      PROVE  SyncInv'
  BY <1>1, RequestInstallationSyncs
<1>2. ASSUME NEW i \in Installations, GrantChanges(i)
      PROVE  SyncInv'
  BY <1>2, GrantChangesSyncs
<1>3. ASSUME NEW r \in late, LateReportExecutes(r) \/ LateReportIsLost(r)
      PROVE  SyncInv'
  BY <1>3, LateReportSyncs
<1>4. CASE BeginCycle
  BY <1>4, BeginCycleSyncs
<1>5. CASE FlushAgain
  BY <1>5, FlushAgainSyncs
<1>6. ASSUME NEW n \in DOMAIN outbox, ReportAccepted(n)
      PROVE  SyncInv'
  BY <1>6, ReportAcceptedSyncs
<1>7. ASSUME NEW n \in DOMAIN outbox, ReportRejected(n)
      PROVE  SyncInv'
  BY <1>7, ReportRejectedSyncs
<1>8. ASSUME NEW n \in DOMAIN outbox, ReportTimesOut(n)
      PROVE  SyncInv'
  BY <1>8, ReportTimesOutSyncs
<1>9. CASE FlushDone
  BY <1>9, FlushDoneSyncs
<1>10. CASE FetchInstallationSync
  BY <1>10, FetchInstallationSyncSyncs
<1>11. CASE SnapshotRefused \/ FetchFails
  BY <1>11, FetchEndsEarlySyncs
<1>12. ASSUME NEW item \in todo, ApplyItem(item)
      PROVE  SyncInv'
  BY <1>12, ApplyItemSyncs
<1>13. CASE PlaceFiles \/ ActivateInstall \/ InstallFails
  BY <1>13, InstallStepsSyncs
<1>14. CASE EnqueueResult
  BY <1>14, EnqueueResultSyncs
<1>15. CASE CommitRevision
  BY <1>15, CommitRevisionSyncs
<1>16. ASSUME NEW i \in Installations, UserTouches(i)
      PROVE  SyncInv'
  BY <1>16, UserTouchesSyncs
<1>17. CASE Crash
  BY <1>17, CrashSyncs
<1>18. CASE UNCHANGED vars
  BY <1>18, UnchangedSyncs
<1> QED
  BY <1>1, <1>2, <1>3, <1>4, <1>5, <1>6, <1>7, <1>8, <1>9, <1>10, <1>11,
     <1>12, <1>13, <1>14, <1>15, <1>16, <1>17, <1>18 DEF Next, ThreadStep

(* Whatever users, the control plane and the background thread do, the     *)
(* parts of SyncInv hold: AnswerInv and VerdictInv relate the outbox, the  *)
(* snapshot and the control plane's rows at every step of the cycle.       *)
THEOREM InstallationsInvariant == Spec => []SyncInv
  BY InitSyncs, StepSyncs, PTL DEF Spec

\* What the runs check follows.
LEMMA SyncInvGives ==
  ASSUME SyncInv
  PROVE  TypeOK /\ CommittedMeansAnswered /\ VerdictIsOfThisRequest
<1>1. TypeOK
  <2>1. revision \in 0..MaxRequests /\ committed \in 0..revision /\ target \in 0..revision
    BY DEF SyncInv, SyncTypes
  <2>2. \A n \in DOMAIN outbox : Report(outbox[n]) \in Reports /\ outbox[n].wait \in 0..Backoff
    BY RowFacts DEF SyncInv, OutboxInv
  <2>3. \A m, n \in DOMAIN outbox :
          m # n => <<outbox[m].inst, outbox[m].status>> # <<outbox[n].inst, outbox[n].status>>
    BY DEF SyncInv, OutboxInv
  <2> QED
    BY <2>1, <2>2, <2>3 DEF TypeOK, SyncInv, SyncTypes
<1>2. CommittedMeansAnswered
  BY DEF CommittedMeansAnswered, SyncInv, AnswerInv, Answered, HasReport, Rows
<1>3. VerdictIsOfThisRequest
  BY DEF VerdictIsOfThisRequest, SyncInv, VerdictInv
<1> QED
  BY <1>1, <1>2, <1>3

(* The state is as its types say, and the outbox never has two reports of  *)
(* one status for an installation.                                         *)
THEOREM InstallationTypeCorrect == Spec => []TypeOK
  BY InstallationsInvariant, SyncInvGives, PTL

(* A device that has committed the current revision owes no installation   *)
(* an answer, for any number of installations, requests, lost answers and  *)
(* crashes.                                                                *)
THEOREM CommittedIsAnswered == Spec => []CommittedMeansAnswered
  BY InstallationsInvariant, SyncInvGives, PTL

(* Until an answer is lost, an installation none of whose reports was      *)
(* rejected is settled by what the device did for the request that is      *)
(* pending, never by a report about an earlier one.                        *)
THEOREM VerdictsAnswerTheirRequest == Spec => []VerdictIsOfThisRequest
  BY InstallationsInvariant, SyncInvGives, PTL
=============================================================================
