------------------------- MODULE ReleaseValidation -------------------------
(***************************************************************************)
(* aw publish, the checks of the API it passes, and the worker: from what  *)
(* the disk holds after aw package to the verdict of the validation.       *)
(*                                                                         *)
(* An application is its slug and kind. A job is what the API hands to the *)
(* worker: the manifest and, of each artifact, where it is, what it should *)
(* be and what storage holds.                                              *)
(***************************************************************************)
EXTENDS ReleasePackages
-----------------------------------------------------------------------------
(* Reading the package back: readPackageMetadata.                          *)

\* No absolute path and none to a parent; the metadata is beside the files.
ResolvePackageChild(path) == path.stem # <<>>

ParsePackagedArtifact(a) ==
  /\ a.contentType = "zip" /\ a.size > 0
  /\ a.sbom.format = "cdx"

Paths(a) == <<a.path, a.sbom.cyclonedxPath, a.sbom.spdxPath>>

ParsePackageMetadata(p) ==
  /\ \A a \in Range(p.artifacts) : ParsePackagedArtifact(a)
  /\ IF p.version = 1 THEN Len(p.artifacts) = 1
     ELSE /\ p.artifacts # <<>>
          /\ \A j, k \in DOMAIN p.artifacts :
               j # k => /\ p.artifacts[j].name # p.artifacts[k].name
                        /\ Range(Paths(p.artifacts[j])) \cap Range(Paths(p.artifacts[k])) = {}
          /\ \A a \in Range(p.artifacts) : Distinct(Paths(a)) /\ a.sbom.path = a.sbom.cyclonedxPath

OnTheDisk(p, file) == p.disk[OnDisk(file)]

\* The files are the ones the metadata and the manifest speak of.
Declared(m, a) ==
  \E d \in Range(m.artifacts) :
    /\ d.name = a.name /\ d.fileName = a.fileName /\ d.mediaType = a.contentType
    /\ d.size = a.size /\ d.sha256 = a.sha256

ReadPackageMetadata(p) ==
  /\ ParsePackageMetadata(p)
  /\ ReleaseManifest(p.manifest)
  /\ p.manifest.kind = "web" => \A a \in Range(p.artifacts) : IsSigned(a.signature)
  /\ Len(p.artifacts) = Len(p.manifest.artifacts)
  /\ \A a \in Range(p.artifacts) :
       /\ ResolvePackageChild(a.path) /\ OnTheDisk(p, a.path) = a.sha256
       /\ ResolvePackageChild(a.sbom.path) /\ OnTheDisk(p, a.sbom.path) = a.sbom.sha256
       /\ Declared(p.manifest, a)
-----------------------------------------------------------------------------
(* What publishPackagedRelease sends, and what the API accepts.            *)

ReleaseInput(p) ==
  [version |-> p.manifest.version, manifest |-> p.manifest,
   signature |-> IF p.manifest.kind = "web" THEN p.manifest.signature ELSE Unsigned,
   sbom |-> p.artifacts[1].sbom.path]

ArtifactInput(p, a) ==
  [fileName |-> a.fileName, contentType |-> a.contentType, size |-> a.size, sha256 |-> a.sha256,
   signature |-> IF p.manifest.kind = "web" THEN a.signature ELSE Unsigned,
   sbom |-> [fileName |-> a.sbom.path, format |-> a.sbom.format, sha256 |-> a.sbom.sha256]]

SbomDescriptor(fileName) == FileUnits(fileName) \in 1..240

CreateReleaseInput(i) == ReleaseManifest(i.manifest) /\ SbomDescriptor(i.sbom)

CreateReleaseAccepts(application, i) ==
  /\ CreateReleaseInput(i)
  /\ i.manifest.kind = application.kind
  /\ i.manifest.appId = application.slug /\ i.manifest.version = i.version
  /\ i.manifest.kind = "web" => IsSigned(i.signature) /\ i.manifest.signature = i.signature
  /\ i.manifest.integrity = ArtifactSetIntegrity(i.manifest.artifacts)

CreateArtifactInput(i) == FileUnits(i.fileName) \in 1..240 /\ SbomDescriptor(i.sbom.fileName)

CreateArtifactAccepts(release, i) ==
  /\ CreateArtifactInput(i)
  /\ \E d \in Range(release.manifest.artifacts) :
       /\ d.fileName = i.fileName /\ d.sha256 = i.sha256
       /\ d.size = i.size /\ d.mediaType = i.contentType
  /\ release.manifest.kind = "web" =>
       /\ IsSigned(i.signature) /\ IsSigned(release.signature)
       /\ i.signature.keyId = release.signature.keyId

\* The key of an object is its digest and its name; the bytes come from the disk.
StorageKey(i) == <<i.sha256, i.fileName>>

\* Storage holds what was declared: the store checks the digest of an upload.
AssertUploaded(p, i) ==
  OnTheDisk(p, i.fileName) = i.sha256 /\ OnTheDisk(p, i.sbom.fileName) = i.sbom.sha256

JobArtifact(i) ==
  [fileName |-> i.fileName, url |-> StorageKey(i), expectedSha256 |-> i.sha256,
   expectedSize |-> i.size, signature |-> i.signature, sbom |-> i.sbom]

\* The requests of aw publish, none refused; the job is what submitRelease queues.
PublishPackagedRelease(application, p) ==
  LET release == ReleaseInput(p)
      inputs  == [k \in DOMAIN p.artifacts |-> ArtifactInput(p, p.artifacts[k])]
  IN  IF /\ ReadPackageMetadata(p)
         /\ CreateReleaseAccepts(application, release)
         /\ \A i \in Range(inputs) : CreateArtifactAccepts(release, i) /\ AssertUploaded(p, i)
      THEN {[manifest |-> p.manifest,
             artifacts |-> [k \in DOMAIN inputs |-> JobArtifact(inputs[k])]]}
      ELSE {}

\* The job's schema: an artifact of a web release is signed.
ReleaseValidationJob(job) ==
  /\ ReleaseManifest(job.manifest)
  /\ job.manifest.kind = "web" => \A a \in Range(job.artifacts) : IsSigned(a.signature)
-----------------------------------------------------------------------------
(* The worker: validator.ts.                                               *)

AssertFederationPolicy(m) ==
  FederationPolicy(m) /\ ContentAddressed(m.url, m.integritySha256)

\* Every declaration has an object of its own.
ArtifactSetMatches(job) ==
  /\ Federated(job.manifest) => Len(job.manifest.artifacts) = 1
  /\ Len(job.manifest.artifacts) = Len(job.artifacts)
  /\ \E f \in [DOMAIN job.artifacts -> DOMAIN job.artifacts] :
       /\ IsInjective(f)
       /\ \A k \in DOMAIN job.artifacts :
            LET d == job.manifest.artifacts[k]
                a == job.artifacts[f[k]]
            IN  a.fileName = d.fileName /\ a.expectedSha256 = d.sha256 /\ a.expectedSize = d.size

ParseSigningKeys(keyId) == keyId \in DOMAIN SigningKeys

VerifyPublisherSignature(of, signature) ==
  /\ ParseSigningKeys(signature.keyId)
  /\ SigningKeys[signature.keyId] = signature.key
  /\ signature.of = of

\* What the object's digest stands for is the object.
DownloadObject(size, limit) == size <= limit

ValidateSbomDocument(sbom) == sbom.sha256.of = sbom.format

HashUniqueArchiveEntry(archive, m) ==
  /\ Cardinality(Matches(archive, m.url.file)) = 1
  /\ \A j \in Matches(archive, m.url.file) : archive[j].bytes = m.integritySha256

ValidateArtifact(m, a) ==
  LET archive == a.expectedSha256.list
  IN  /\ DownloadObject(ZipSize(archive), ZipBytes)
      /\ ZipSize(archive) = a.expectedSize
      /\ m.kind = "web" => VerifyPublisherSignature(a.expectedSha256, a.signature)
      /\ DownloadObject(SbomSize(a.sbom.sha256), SbomBytes)
      /\ ValidateSbomDocument(a.sbom)
      /\ InspectEntries(archive)
      /\ Federated(m) => HashUniqueArchiveEntry(archive, m)

ValidatesRelease(job) ==
  /\ ReleaseManifest(job.manifest)
  /\ Federated(job.manifest) => AssertFederationPolicy(job.manifest)
  /\ ArtifactSetMatches(job)
  /\ job.manifest.kind = "web" =>
       VerifyPublisherSignature(ForSignature(job.manifest), job.manifest.signature)
  /\ \A a \in Range(job.artifacts) : ValidateArtifact(job.manifest, a)

\* The release ends ready when the job is valid and the worker finds no fault.
Ready(application, p) ==
  \E job \in PublishPackagedRelease(application, p) :
    ReleaseValidationJob(job) /\ ValidatesRelease(job)
-----------------------------------------------------------------------------
(* What a package needs beyond having been built, to become ready.         *)

\* Names of artifacts that differ only in case stay apart on the disk.
Apart(p) ==
  FoldsCase => \A j, k \in DOMAIN p.artifacts :
                 j # k => OnDisk(p.artifacts[j].path) # OnDisk(p.artifacts[k].path)

\* The ending of the bills of materials is five characters longer than .zip.
ShortNames(p) == \A a \in Range(p.artifacts) : FileUnits(a.sbom.path) <= 240

WithinLimits(p) ==
  \A a \in Range(p.artifacts) :
    /\ a.size <= ZipBytes /\ Len(a.sha256.list) <= EntryLimit
    /\ Expanded(a.sha256.list) <= WorkerBytes /\ Len(a.sha256.list) - 1 <= SbomBytes

SignedByTrusted(p) ==
  p.manifest.kind = "web" =>
    LET s == p.manifest.signature IN s.keyId \in DOMAIN SigningKeys /\ SigningKeys[s.keyId] = s.key

\* The command looks for the federation manifest among the publisher's files and
\* under the name before the digest is put in; the worker in the whole archive, after.
FoundAgain(m, p) ==
  Federated(m) => p.manifest.url.file = m.url.file /\ m.url.file \notin Range(SbomName)
=============================================================================
