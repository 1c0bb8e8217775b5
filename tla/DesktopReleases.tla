-------------------------- MODULE DesktopReleases --------------------------
(***************************************************************************)
(* A desktop release as its readers see it: the schema of the control      *)
(* plane, the validation worker, the API that lists it for a device, and   *)
(* the Agent that reads, checks and unpacks it. The first two are written  *)
(* in TypeScript, the Agent in Rust; nothing but these checks keeps what   *)
(* one accepts and what the other reads together.                          *)
(*                                                                         *)
(* A release is a record                                                   *)
(*   manifest   names, descriptions: the texts shown to users, each with   *)
(*              its length in UTF-16 units, in bytes, and in bytes without *)
(*              the blanks around it; strict: the versions are SemVer also *)
(*              to a strict parser; artifacts, runtimes, dependencies:     *)
(*              sequences; capabilities: a set                             *)
(*   signer     the key of the manifest's and the artifacts' signatures    *)
(*   archives   what each artifact unpacks to                              *)
(* Formats that both sides check alike (slugs, digests, sizes, media       *)
(* types, signature envelopes) are left out.                               *)
(***************************************************************************)
EXTENDS Naturals, Sequences, FiniteSets, SequencesExt

CONSTANTS
  Device,       \* os and arch of the device
  TrustedKey,   \* the key the Agent was built with
  NoKey,        \* of releases that carry no signatures
  AnyPlatform,  \* of artifacts that name none
  EntryLimit,   \* 10 000 archive entries
  WorkerBytes,  \* 1 GiB expanded, what the worker allows by default
  AgentBytes    \* 512 MiB expanded, what the Agent allows

ASSUME KeyAssumption == TrustedKey # NoKey
ASSUME LimitAssumption == EntryLimit \in Nat /\ WorkerBytes \in Nat /\ AgentBytes \in Nat

RuntimeKinds    == {"python", "native", "web-ui"}
DependencyKinds == {"python", "system", "application"}
-----------------------------------------------------------------------------
(* Publishing: DesktopReleaseManifestSchema and the validation worker.     *)

\* A path is plain, has two dots in a name, goes to a parent, has a
\* backslash, is absolute, or starts with a drive.
RelativeEntry(p) == p.form \in {"plain", "drive"} /\ p.units \in 1..240

Declares(m, name) == \E a \in Range(m.artifacts) : a.name = name

Capability(c) ==
  /\ c.kind \notin {"clipboard", "notifications"} => c.items # {}
  /\ c.kind = "subprocess" => \A p \in c.items : RelativeEntry(p)

Runtime(m, r) ==
  /\ r.kind \in RuntimeKinds
  /\ RelativeEntry(r.entry)
  /\ r.kind = "python" => r.python.units \in 1..40
  /\ \E a \in Range(m.artifacts) :
       a.name = r.artifact /\ a.platform \in {AnyPlatform, r.platform}

DesktopReleaseManifest(m) ==
  /\ \A t \in m.names : t.units \in 2..80
  /\ \A t \in m.descriptions : t.units <= 240
  /\ \A a \in Range(m.artifacts) : RelativeEntry(a.fileName)
  /\ \A j, k \in DOMAIN m.artifacts :
       j # k => /\ m.artifacts[j].name # m.artifacts[k].name
                /\ m.artifacts[j].fileName # m.artifacts[k].fileName
  /\ m.runtimes # <<>>
  /\ \A r \in Range(m.runtimes) : Runtime(m, r)
  /\ \A j, k \in DOMAIN m.runtimes :
       j # k => m.runtimes[j].platform # m.runtimes[k].platform
  /\ \A d \in Range(m.dependencies) :
       d.kind \in DependencyKinds /\ (d.kind = "python" => Declares(m, d.lock))
  /\ \A c \in m.capabilities : Capability(c)

\* aw package removes the manifest's signature and makes none for the
\* artifacts; createRelease and createArtifact store none for the desktop.
Published(r) == [r EXCEPT !.signer = NoKey]

Expanded(archive) == FoldFunction(LAMBDA e, total : e.size + total, 0, archive)

\* An entry's path is its components, letters folded; its form says whether
\* it is plain or which rule it breaks (clock: the device name CLOCK$).
InspectEntries(archive) ==
  /\ \A e \in Range(archive) : e.form \in {"plain", "clock"} /\ ~e.symlink
  /\ \A j, k \in DOMAIN archive :
       j # k => archive[j].path # archive[k].path \/ archive[j].directory # archive[k].directory
  /\ Cardinality({j \in DOMAIN archive : ~archive[j].directory}) <= EntryLimit
  /\ Expanded(archive) <= WorkerBytes

\* Only what is named like an archive is looked into.
WorkerPasses(r) ==
  \A a \in Range(r.manifest.artifacts) :
    a.fileName.zip => InspectEntries(r.archives[a.name])
-----------------------------------------------------------------------------
(* Listing a release for the device: installationSyncItem.                 *)

Servable(r) == \E t \in Range(r.manifest.runtimes) : t.platform = Device

RuntimeFor(m) == CHOOSE t \in Range(m.runtimes) : t.platform = Device
ArtifactFor(m) == CHOOSE a \in Range(m.artifacts) : a.name = RuntimeFor(m).artifact

InstallationItem(r) ==
  [manifest |-> r.manifest, signer |-> r.signer, artifact |-> ArtifactFor(r.manifest)]
-----------------------------------------------------------------------------
(* Reading the item: the Agent's types refuse what they do not know. The   *)
(* names of a variant's fields are not renamed to camel case.              *)

RuntimeFields == [k \in RuntimeKinds |->
  CASE k = "python" -> {"python"} [] k = "web-ui" -> {"allowedOrigins"} [] OTHER -> {}]
RuntimeKind == [k \in RuntimeKinds |->
  CASE k = "python" -> {"python"} [] k = "web-ui" -> {"allowed_origins"} [] OTHER -> {}]

DependencyFields == [k \in DependencyKinds |->
  CASE k = "python" -> {"version", "lockArtifact"}
    [] k = "application" -> {"appId", "version"} [] OTHER -> {"name"}]
DesktopDependency == [k \in DependencyKinds |->
  CASE k = "python" -> {"version", "lock_artifact"}
    [] k = "application" -> {"app_id", "version"} [] OTHER -> {"name", "version"}]

AppletManifest(m) ==
  /\ m.strict
  /\ \A r \in Range(m.runtimes) : RuntimeFields[r.kind] \subseteq RuntimeKind[r.kind]
  /\ \A d \in Range(m.dependencies) :
       DependencyFields[d.kind] \subseteq DesktopDependency[d.kind]

ValidateRelativePath(p) ==
  /\ p.units > 0
  /\ \/ p.form \in {"plain", "dots"}
     \/ p.form = "drive" /\ Device.os # "windows"

ValidateCapability(c) ==
  /\ c.kind \notin {"clipboard", "notifications"} => c.items # {}
  /\ c.kind = "subprocess" => \A p \in c.items : ValidateRelativePath(p)

ValidateRuntime(m, r) ==
  /\ Declares(m, r.artifact)
  /\ \A a \in Range(m.artifacts) :
       a.name = r.artifact /\ a.platform # AnyPlatform => a.platform = r.platform
  /\ ValidateRelativePath(r.entry)
  /\ r.kind = "python" => r.python.bytes \in 1..40

Validate(m) ==
  /\ \A t \in m.names : t.trimmed >= 2 /\ t.bytes <= 80
  /\ \A t \in m.descriptions : t.bytes <= 240
  /\ m.runtimes # <<>>
  /\ \A j, k \in DOMAIN m.artifacts :
       j # k => m.artifacts[j].name # m.artifacts[k].name
  /\ \A a \in Range(m.artifacts) : ValidateRelativePath(a.fileName)
  /\ \A j, k \in DOMAIN m.runtimes :
       j # k => m.runtimes[j].platform # m.runtimes[k].platform
  /\ \A r \in Range(m.runtimes) : ValidateRuntime(m, r)
  /\ \A d \in Range(m.dependencies) : d.kind = "python" => Declares(m, d.lock)
  /\ \A c \in m.capabilities : ValidateCapability(c)

\* One item that cannot be read or is not valid refuses the whole snapshot.
Readable(item) ==
  /\ item.signer # NoKey
  /\ AppletManifest(item.manifest)
  /\ Validate(item.manifest)
  /\ item.artifact.fileName.bytes <= 240
-----------------------------------------------------------------------------
(* Installing it: install_signed.                                          *)

ExtractChecked(archive) ==
  /\ Len(archive) <= EntryLimit
  /\ Expanded(archive) <= AgentBytes
  /\ \A e \in Range(archive) : e.form = "plain" /\ ~e.symlink
  /\ \A j, k \in DOMAIN archive :
       j # k /\ ~archive[j].directory => ~IsPrefix(archive[j].path, archive[k].path)

\* The runtime's entry is a file of the archive; what the archive says of
\* itself, if anything, agrees with the manifest.
ValidateExtractedRelease(r) ==
  LET archive == r.archives[ArtifactFor(r.manifest).name]
  IN  /\ \E e \in Range(archive) :
           ~e.directory /\ e.path = RuntimeFor(r.manifest).entry.path
      /\ \A e \in Range(archive) : e.applet \in {"none", "agrees"}

Installable(r) ==
  /\ Servable(r)
  /\ r.signer = TrustedKey
  /\ ExtractChecked(r.archives[ArtifactFor(r.manifest).name])
  /\ ValidateExtractedRelease(r)
-----------------------------------------------------------------------------
(* What an approval is bound to: the digest of the capabilities, as the    *)
(* API and the Agent each compute it. Here an item is a text: its code     *)
(* points as spelled, and in small letters. TypeScript compares texts by   *)
(* units of sixteen bits, Rust by bytes, which is by code points.          *)

CodeUnits(text) ==
  FlattenSeq([k \in DOMAIN text |->
    IF text[k] < 65536 THEN <<text[k]>>
    ELSE <<55296 + (text[k] - 65536) \div 1024, 56320 + ((text[k] - 65536) % 1024)>>])

Precedes(s, t) ==
  \/ IsStrictPrefix(s, t)
  \/ \E k \in DOMAIN s \cap DOMAIN t :
       s[k] < t[k] /\ SubSeq(s, 1, k - 1) = SubSeq(t, 1, k - 1)

\* A list is a set in the canonical form: sorted, and nothing twice.
SetOfTexts(c) ==
  IF c.kind = "network" THEN {text.folded : text \in c.items}
  ELSE {text.spelled : text \in c.items}

CanonicalizeDesktopCapabilities(capabilities) ==
  {[kind |-> c.kind, items |-> SortSeq(SetToSeq(SetOfTexts(c)),
      LAMBDA s, t : Precedes(CodeUnits(s), CodeUnits(t)))] : c \in capabilities}

DesktopCapabilityHash(capabilities) ==
  {[kind |-> c.kind, items |-> SortSeq(SetToSeq(SetOfTexts(c)), Precedes)] :
     c \in capabilities}
-----------------------------------------------------------------------------
(* What the Agent asks of a release beyond what publishing does: strict    *)
(* versions, runtimes and dependencies without fields of two words, texts  *)
(* that are short in bytes and not blank, no drives on Windows.            *)
PortablePath(p) == p.form = "drive" => Device.os # "windows"

PortableManifest(m) ==
  /\ m.strict
  /\ \A r \in Range(m.runtimes) :
       /\ r.kind # "web-ui" /\ PortablePath(r.entry)
       /\ r.kind = "python" => r.python.bytes \in 1..40
  /\ \A d \in Range(m.dependencies) : d.kind = "system"
  /\ \A t \in m.names : t.trimmed >= 2 /\ t.bytes <= 80
  /\ \A t \in m.descriptions : t.bytes <= 240
  /\ \A a \in Range(m.artifacts) : PortablePath(a.fileName)
  /\ \A c \in m.capabilities :
       c.kind = "subprocess" => \A p \in c.items : PortablePath(p)
  /\ ArtifactFor(m).fileName.bytes <= 240

(* And of an archive the worker has looked into: few entries counting the  *)
(* directories, half the size, no CLOCK$, no file where a directory is.    *)
PortableArchive(archive) ==
  /\ Len(archive) <= EntryLimit
  /\ Expanded(archive) <= AgentBytes
  /\ \A e \in Range(archive) : e.form # "clock"
  /\ \A j, k \in DOMAIN archive :
       /\ ~archive[j].directory /\ IsPrefix(archive[j].path, archive[k].path)
       => archive[j].path = archive[k].path /\ archive[j].directory = archive[k].directory

(* And of capabilities bound to an approval: no two texts of a list first  *)
(* differ where one has a code point beyond 65 535 and the other one of    *)
(* the last 8 192 before it.                                               *)
SameOrder(s, t) == Precedes(s, t) <=> Precedes(CodeUnits(s), CodeUnits(t))
PortableCapabilities(capabilities) ==
  \A c \in capabilities : \A s, t \in SetOfTexts(c) : SameOrder(s, t)
=============================================================================
