------------------------- MODULE MCReleasePackages -------------------------
(* Small packages, and what is said of each of them.                       *)
EXTENDS ReleaseValidation

Named(rank, small, units) == [rank |-> rank, small |-> small, units |-> units]
App     == Named(10, TRUE, 3)
Version == Named(11, TRUE, 5)
A0      == Named(1, FALSE, 1)
A1      == Named(1, TRUE, 1)
B       == Named(3, TRUE, 1)
Long    == Named(2, TRUE, 222)   \* its archive's name has 236 characters

Bytes == Content("bytes", <<>>)
File(path, small, form, kind, size) ==
  [path |-> path, small |-> small, form |-> form, kind |-> kind, size |-> size, bytes |-> Bytes]
Remote(base, mark) == [base |-> base, mark |-> mark]
Asset == File(<<Plain("index.html")>>, TRUE, "plain", "file", 1)

Start == InitializeManifest("web", App, Version, A1)

\* Where the digest goes, and how the federation manifest is called.
Urls == {[Start.url EXCEPT !.folder = folder, !.file = file] :
           folder \in {Placeholder, Nothing, Bytes},
           file \in {Remote("mf-manifest.json", Nothing), Remote("mf-manifest.json", Placeholder),
                     SbomName["cdx"]}}
WebManifests ==
  {[Start EXCEPT !.url = u, !.runtime = r] : u \in Urls, r \in {"federation", "iframe", "link"}}

WebFiles == {File(path, small, form, kind, size) :
               path \in {<<u.file>> : u \in Urls} \cup {<<Plain("meta-inf"), SbomName["spdx"]>>,
                                                      <<Plain("x"), Plain("mf-manifest.json")>>},
               small \in BOOLEAN, form \in {"plain", "clock", "trailing"},
               kind \in {"file", "link"}, size \in {1, 3}}
WebDirectories == {<<>>} \cup {<<f>> : f \in WebFiles} \cup {<<f, Asset>> : f \in WebFiles}
  \cup {<<File(<<Plain("mf-manifest.json")>>, TRUE, "plain", "file", 1), f>> :
          f \in {g \in WebFiles : g.form = "plain" /\ g.kind = "file"}}

Input(name, directory, inside) ==
  [name |-> name, directory |-> directory, outputInside |-> inside]
Key(sources, readable, algorithm, k) ==
  [sources |-> sources, readable |-> readable, algorithm |-> algorithm, key |-> k]

WebOptions ==
  {[map |-> FALSE, inputs |-> <<Input(NoName, d, FALSE)>>, requested |-> NoName, keyId |-> id,
    key |-> Key({"file"}, TRUE, "ed25519", k)] :
     d \in WebDirectories, id \in {"publisher", "stranger"}, k \in {TrustedKey}}

DesktopStart(names) ==
  LET m == InitializeManifest("desktop", App, Version, A1)
      declaration(name) == [m.artifacts[1] EXCEPT !.name = name, !.fileName.stem[3] = name]
      artifacts == [k \in DOMAIN names |-> declaration(names[k])]
  IN  [m EXCEPT !.artifacts = artifacts, !.integrity = ArtifactSetIntegrity(artifacts),
                !.runtimes = <<[artifact |-> names[1], entry |-> <<Plain("index.html")>>]>>]

DesktopOptions(names) ==
  {[map |-> map, inputs |-> [k \in DOMAIN names |-> Input(names[k], d[k], inside)],
    requested |-> requested, keyId |-> NoName,
    key |-> Key({}, TRUE, "ed25519", NoKey)] :
     map \in BOOLEAN, inside \in BOOLEAN, requested \in {NoName, A1},
     d \in [DOMAIN names -> {<<Asset>>, <<[Asset EXCEPT !.size = 2]>>, <<>>}]}

Application(m) == [slug |-> m.appId, kind |-> m.kind]

(* A package that aw package built becomes ready exactly if the names of   *)
(* its files fit and stay apart, the worker's limits and keys allow it,    *)
(* and the worker finds the federation manifest the command found.         *)
BecomesReady(m, o) ==
  \A p \in PackageRelease(m, o) :
    Ready(Application(m), p)
    <=> Apart(p) /\ ShortNames(p) /\ WithinLimits(p) /\ SignedByTrusted(p) /\ FoundAgain(m, p)

ASSUME WebPackagesBecomeReady == \A m \in WebManifests, o \in WebOptions : BecomesReady(m, o)

ASSUME DesktopPackagesBecomeReady ==
  \A names \in {<<A1>>, <<A0, A1>>, <<A1, A0>>, <<B, A1>>, <<Long>>} :
    \A o \in DesktopOptions(names) : BecomesReady(DesktopStart(names), o)
=============================================================================
