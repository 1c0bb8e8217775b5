-------------------------- MODULE ReleasePackages --------------------------
(***************************************************************************)
(* A release from the publisher's directories to the verdict of the        *)
(* validation worker: what aw package builds and writes, what aw publish   *)
(* reads back and sends, what the API accepts of it, and what the worker   *)
(* checks again. The same rules are written down once for each of them.    *)
(*                                                                         *)
(* A digest is what it digests: the contents of a file, or the files of an *)
(* archive. A signature says who made it, by key id and key, and of what.  *)
(* A name has a rank (its place in the order of code points when letters   *)
(* are folded), says whether it is in small letters, and has a length.     *)
(* A directory is the sequence of what walk finds in it; a path is its     *)
(* components, letters folded.                                             *)
(***************************************************************************)
EXTENDS DesktopReleases

CONSTANTS
  FoldsCase,    \* whether the publisher's disk ignores the case of names
  NoName,       \* no --artifact-name given
  SigningKeys,  \* of the worker: from key ids to keys
  CliEntries,   \* 65 535 entries of an archive
  CliBytes,     \* 4 GiB of an archive
  ZipBytes,     \* 256 MiB: what the worker downloads at most
  SbomBytes     \* 16 MiB: of a bill of materials

ASSUME PackageLimitAssumption ==
  CliEntries \in Nat /\ CliBytes \in Nat /\ ZipBytes \in Nat /\ SbomBytes \in Nat

Content(of, list) == [of |-> of, list |-> list]
Nothing     == Content("nothing", <<>>)
Placeholder == Content("placeholder", <<>>)
Unsigned    == [keyId |-> "unconfigured", key |-> NoKey, of |-> Nothing]
IsSigned(signature) == signature.key # NoKey
-----------------------------------------------------------------------------
(* The manifest of a web release: manifest-schema.                         *)

\* A canonical origin is HTTPS, or HTTP on the same machine, and nothing else.
WebResourceOrigin(o) == o.form \in {"https", "loopback"}

Distinct(s) == \A j, k \in DOMAIN s : j # k => s[j] # s[k]
SameStringSet(s, expected) == Distinct(s) /\ Range(s) = expected

Self == [form |-> "self", host |-> "self"]
Images == {Self, [form |-> "data", host |-> "data"], [form |-> "blob", host |-> "blob"]}

FederationPolicy(m) ==
  LET remote == {Self} \cup Range(m.resourceOrigins)
  IN  /\ ~m.url.credentials /\ m.url.origin \in Range(m.resourceOrigins)
      /\ m.csp.default = "none"
      /\ \A directive \in {"script", "style", "connect"} :
           SameStringSet(m.csp[directive], remote)
      /\ Distinct(m.csp.img) /\ Range(m.csp.img) \subseteq Images \cup remote
      /\ m.csp.frame = <<>>

FederationWebManifest(m) ==
  /\ m.resourceOrigins # <<>> /\ Distinct(m.resourceOrigins)
  /\ \A o \in Range(m.resourceOrigins) : WebResourceOrigin(o)
  /\ FederationPolicy(m)

IframeWebManifest(m) == m.allowedOrigin = m.url.origin

\* The artifacts of a link are of type never.
LinkWebManifest(m) == m.url.origin.form = "https" /\ m.artifacts = <<>>

\* A file name is its stem, a sequence of names, and its ending.
Ending == [zip |-> 4, cdx |-> 9, spdx |-> 10, json |-> 5]
FileUnits(file) ==
  FoldLeft(LAMBDA total, name : total + name.units + 1, Ending[file.ending] - 1, file.stem)

ManifestArtifact(a) == FileUnits(a.fileName) <= 240 /\ a.size > 0

WebReleaseManifest(m) ==
  /\ \A a \in Range(m.artifacts) : ManifestArtifact(a)
  /\ CASE m.runtime = "federation" -> FederationWebManifest(m)
       [] m.runtime = "iframe"     -> IframeWebManifest(m)
       [] m.runtime = "link"       -> LinkWebManifest(m)

\* Of a desktop manifest, only what packaging can change or break.
DesktopManifest(m) ==
  /\ \A a \in Range(m.artifacts) : ManifestArtifact(a)
  /\ \A j, k \in DOMAIN m.artifacts :
       j # k => /\ m.artifacts[j].name # m.artifacts[k].name
                /\ m.artifacts[j].fileName # m.artifacts[k].fileName
  /\ \A r \in Range(m.runtimes) : \E a \in Range(m.artifacts) : a.name = r.artifact

ReleaseManifest(m) ==
  IF m.kind = "web" THEN WebReleaseManifest(m) ELSE DesktopManifest(m)

\* Sorted by name, so that the order of the declarations does not matter.
ArtifactSetIntegrity(artifacts) == Range(artifacts)

\* All but the signature's value.
ForSignature(m) == [m EXCEPT !.signature = m.signature.keyId]

\* /releases/<digest>/mf-manifest.json or /releases/<...>-<digest>.json
ContentAddressed(url, digest) == digest \in {url.folder, url.file.mark}
-----------------------------------------------------------------------------
(* Archives: archive.ts.                                                   *)

\* CLOCK$ is a name like any other.
AssertSafeArchivePath(e) == e.form \in {"plain", "clock"}
PackableEntry(e) == AssertSafeArchivePath(e) /\ e.kind = "file"

Collectable(directory) ==
  directory # <<>> /\ \A e \in Range(directory) : PackableEntry(e)

ZipEntry(e) ==
  [path |-> e.path, small |-> e.small, form |-> e.form, size |-> e.size, bytes |-> e.bytes,
   directory |-> FALSE, symlink |-> FALSE, applet |-> "none"]

\* Folded names differ; sixteen bits count the entries and 32 the bytes.
Zippable(entries) ==
  /\ \A e \in Range(entries) : AssertSafeArchivePath(e)
  /\ Len(entries) <= CliEntries
  /\ \A j, k \in DOMAIN entries : j # k => entries[j].path # entries[k].path
  /\ Expanded(entries) + Len(entries) <= CliBytes

BuildDeterministicZip(entries) == [k \in DOMAIN entries |-> ZipEntry(entries[k])]

Sha256(zip) == Content("zip", zip)

\* Stored, not compressed; a header is one unit.
ZipSize(zip) == Expanded(zip) + Len(zip)

FilesListed(entries) ==
  [k \in DOMAIN entries |-> [path |-> entries[k].path, bytes |-> entries[k].bytes]]

\* A document is about its subject: the application's version, or an artifact of it.
CreateSbomDocuments(subject, entries) ==
  [format \in {"cdx", "spdx"} |->
     Content(format, <<[path |-> subject, bytes |-> Nothing]>> \o FilesListed(entries))]

\* The size of a document follows the number of files.
SbomSize(document) == Len(document.list)

\* A component of a path; small says whether the last one is in small letters.
Plain(base) == [base |-> base, mark |-> Nothing]
SbomName == [cdx |-> Plain("sbom.cdx.json"), spdx |-> Plain("sbom.spdx.json")]
SbomEntry(format, documents) ==
  [path |-> <<Plain("meta-inf"), SbomName[format]>>, small |-> TRUE, form |-> "plain",
   kind |-> "file", size |-> 1, bytes |-> documents[format]]
-----------------------------------------------------------------------------
(* aw package. Options: map (--artifact-map) or one --input; inputs, each  *)
(* with a name (NoName for --input), its directory and whether the output  *)
(* is inside it; requested: --artifact-name; keyId, and the key's file or  *)
(* variable: sources, readable (no one else can read it), algorithm, key.  *)

InitialUrl == [origin |-> [form |-> "loopback", host |-> "localhost"], credentials |-> FALSE,
               folder |-> Placeholder, file |-> Plain("mf-manifest.json")]

InitializeManifest(kind, appId, version, name) ==
  LET origin == InitialUrl.origin
      artifact == [name |-> name, fileName |-> [stem |-> <<appId, version, name>>, ending |-> "zip"],
                   mediaType |-> "zip", size |-> 1, sha256 |-> Nothing]
      artifacts == IF kind = "web" THEN <<>> ELSE <<artifact>>
  IN  [kind |-> kind, runtime |-> "federation", appId |-> appId, version |-> version,
       artifacts |-> artifacts, integrity |-> ArtifactSetIntegrity(artifacts),
       signature |-> Unsigned, url |-> InitialUrl, integritySha256 |-> Nothing,
       resourceOrigins |-> <<origin>>, allowedOrigin |-> origin,
       csp |-> [default |-> "none", script |-> <<Self, origin>>, style |-> <<Self, origin>>,
                connect |-> <<Self, origin>>, frame |-> <<>>,
                img |-> <<Self, [form |-> "data", host |-> "data"], origin>>],
       runtimes |-> <<[artifact |-> name, entry |-> <<Plain("index.html")>>]>>]

\* An entry that is no object with a name and an input refuses the map.
ReadArtifactInputMap(entries) ==
  entries # <<>> /\ \A e \in Range(entries) : e.name # NoName

DeclaredNames(m) == {a.name : a \in Range(m.artifacts)}

SelectArtifactName(m, requested) ==
  IF requested # NoName THEN requested
  ELSE IF m.artifacts # <<>> THEN m.artifacts[1].name
  ELSE [rank |-> 0, small |-> TRUE, units |-> 10]   \* web-bundle

ArtifactNameAllowed(m, requested) ==
  /\ Len(m.artifacts) <= 1
  /\ requested # NoName => DeclaredNames(m) \subseteq {requested}
  /\ requested = NoName => m.artifacts # <<>> \/ m.kind = "web"

InputsAllowed(m, o) ==
  IF o.map
  THEN /\ o.requested = NoName /\ m.kind = "desktop"
       /\ ReadArtifactInputMap(o.inputs)
       /\ \A j, k \in DOMAIN o.inputs : j # k => o.inputs[j].name # o.inputs[k].name
       /\ {i.name : i \in Range(o.inputs)} = DeclaredNames(m)
  ELSE Len(o.inputs) = 1 /\ ArtifactNameAllowed(m, o.requested)

\* Capitals come before small letters.
Before(a, b) ==
  \/ a.name.rank < b.name.rank
  \/ a.name.rank = b.name.rank /\ ~a.name.small /\ b.name.small

SelectArtifactInputs(m, o) ==
  IF o.map THEN SortSeq(o.inputs, Before)
  ELSE <<[o.inputs[1] EXCEPT !.name = SelectArtifactName(m, o.requested)]>>

\* Exactly one of a file and a variable, a file that only its owner reads.
LoadPrivateKey(o) ==
  Cardinality(o.key.sources) = 1 /\ o.key.readable /\ o.key.algorithm = "ed25519"

ValidateRuntimeFiles(m, input) ==
  m.kind = "desktop" =>
    \A r \in Range(m.runtimes) :
      r.artifact = input.name => \E e \in Range(input.directory) : e.path = r.entry

Matches(entries, file) == {j \in DOMAIN entries : entries[j].small /\ Last(entries[j].path) = file}

\* The first placeholder only: the folder comes before the file.
Addressed(url, digest) ==
  IF url.folder = Placeholder THEN [url EXCEPT !.folder = digest]
  ELSE IF url.file.mark = Placeholder THEN [url EXCEPT !.file.mark = digest]
  ELSE url

\* The file the digest is of: the only one of that name in the directory.
FederationManifest(m, entries) == entries[CHOOSE j \in Matches(entries, m.url.file) : TRUE].bytes

FederationBound(m, entries) ==
  /\ Cardinality(Matches(entries, m.url.file)) = 1
  /\ ContentAddressed(Addressed(m.url, FederationManifest(m, entries)),
                      FederationManifest(m, entries))

Federated(m) == m.kind = "web" /\ m.runtime = "federation"

UpdateRuntimeIntegrity(m, entries) ==
  IF ~Federated(m) THEN m
  ELSE [m EXCEPT !.integritySha256 = FederationManifest(m, entries),
                 !.url = Addressed(m.url, FederationManifest(m, entries))]

Stem(m, o, name) ==
  IF o.map THEN <<m.appId, m.version, name>> ELSE <<m.appId, m.version>>

\* One artifact: its archive holds the files and the two bills of materials.
WithSboms(m, o, input) ==
  LET documents == CreateSbomDocuments(Stem(m, o, input.name), input.directory)
  IN  input.directory \o <<SbomEntry("cdx", documents), SbomEntry("spdx", documents)>>

Built(m, o, input) ==
  LET documents == CreateSbomDocuments(Stem(m, o, input.name), input.directory)
  IN  [name |-> input.name, archive |-> BuildDeterministicZip(WithSboms(m, o, input)),
       documents |-> documents, stem |-> Stem(m, o, input.name)]

FileOf(b, ending) == [stem |-> b.stem, ending |-> ending]

UpdateArtifact(b) ==
  [name |-> b.name, fileName |-> FileOf(b, "zip"), mediaType |-> "zip",
   size |-> ZipSize(b.archive), sha256 |-> Sha256(b.archive)]

Sign(o, of) == [keyId |-> o.keyId, key |-> o.key.key, of |-> of]

PackagedManifest(m, o, built) ==
  LET artifacts == [k \in DOMAIN built |-> UpdateArtifact(built[k])]
      updated   == UpdateRuntimeIntegrity(
                     [m EXCEPT !.artifacts = artifacts, !.integrity = ArtifactSetIntegrity(artifacts)],
                     o.inputs[1].directory)
      unsigned  == [updated EXCEPT !.signature = [Unsigned EXCEPT !.keyId = o.keyId]]
  IN  IF m.kind = "desktop" THEN [updated EXCEPT !.signature = Unsigned]
      ELSE [unsigned EXCEPT !.signature = Sign(o, ForSignature(unsigned))]

\* What the metadata says of an artifact. Those of the desktop are not signed.
PackagedArtifact(m, o, b) ==
  [name |-> b.name, path |-> FileOf(b, "zip"), fileName |-> FileOf(b, "zip"), contentType |-> "zip",
   size |-> ZipSize(b.archive), sha256 |-> Sha256(b.archive),
   signature |-> IF m.kind = "web" THEN Sign(o, Sha256(b.archive)) ELSE Unsigned,
   sbom |-> [path |-> FileOf(b, "cdx"), cyclonedxPath |-> FileOf(b, "cdx"),
             spdxPath |-> FileOf(b, "spdx"), format |-> "cdx", sha256 |-> b.documents["cdx"]]]

\* On a disk that folds case, two names may be one file: the later write stays.
OnDisk(file) ==
  IF FoldsCase
  THEN [file EXCEPT !.stem = [k \in DOMAIN file.stem |-> [file.stem[k] EXCEPT !.small = TRUE]]]
  ELSE file

Writes(built) ==
  UNION {{<<FileOf(b, "zip"), Sha256(b.archive)>>, <<FileOf(b, "cdx"), b.documents["cdx"]>>,
          <<FileOf(b, "spdx"), b.documents["spdx"]>>} : b \in Range(built)}

Disks(writes) ==
  LET files == {OnDisk(w[1]) : w \in writes}
      of(f) == {w[2] : w \in {v \in writes : OnDisk(v[1]) = f}}
  IN  {disk \in [files -> {w[2] : w \in writes}] : \A f \in files : disk[f] \in of(f)}

BuiltArtifacts(m, o) ==
  [k \in DOMAIN o.inputs |-> Built(m, o, SelectArtifactInputs(m, o)[k])]

Packageable(m, o) ==
  /\ ReleaseManifest(m)
  /\ m.kind = "web" => o.keyId # NoName /\ LoadPrivateKey(o)
  /\ InputsAllowed(m, o)
  /\ \A i \in Range(SelectArtifactInputs(m, o)) :
       /\ ~i.outputInside
       /\ Collectable(i.directory)
       /\ ValidateRuntimeFiles(m, i)
       /\ Zippable(WithSboms(m, o, i))
  /\ Federated(m) => FederationBound(m, o.inputs[1].directory)
  /\ ReleaseManifest(PackagedManifest(m, o, BuiltArtifacts(m, o)))

\* Every package the command can leave; none when it refuses.
PackageRelease(m, o) ==
  IF ~Packageable(m, o) THEN {}
  ELSE LET built == BuiltArtifacts(m, o)
       IN  {[manifest |-> PackagedManifest(m, o, built),
             artifacts |-> [k \in DOMAIN built |-> PackagedArtifact(m, o, built[k])],
             version |-> IF o.map THEN 2 ELSE 1, disk |-> disk] : disk \in Disks(Writes(built))}
=============================================================================
