------------------------ MODULE MCInstallationSync ------------------------
(* Small instances of InstallationSync and of the releases it installs. *)
EXTENDS InstallationSync, MCReleasePackages

CONSTANTS i1, i2, key

Windows == [os |-> "windows", arch |-> "x64"]
Mac     == [os |-> "macos", arch |-> "arm64"]

Text(units, bytes) == [units |-> units, bytes |-> bytes, trimmed |-> bytes]
Path(form) == [form |-> form, units |-> 8, bytes |-> 8, zip |-> TRUE, path |-> <<"main">>]

Manifest(form, kind, dependency, text, strict, platform) ==
  [names |-> {text}, descriptions |-> {text}, strict |-> strict,
   artifacts |-> <<[name |-> "payload", fileName |-> Path("plain"), platform |-> AnyPlatform]>>,
   runtimes |-> <<[platform |-> platform, artifact |-> "payload", entry |-> Path(form),
                   kind |-> kind, python |-> Text(4, 4)]>>,
   dependencies |-> <<[kind |-> dependency, lock |-> "payload"]>>,
   capabilities |-> {[kind |-> "subprocess", items |-> {Path(form)}]}]

Entry(path, form, directory, size) ==
  [path |-> path, form |-> form, directory |-> directory, size |-> size, symlink |-> FALSE,
   applet |-> "none"]
Main == Entry(<<"main">>, "plain", FALSE, 1)
Release(platform, archive) ==
  [manifest |-> Manifest("plain", "native", "system", Text(8, 8), TRUE, platform),
   signer |-> key, archives |-> [n \in {"payload"} |-> archive]]

\* Rows from before releases of the desktop lost their signatures: a sound
\* one, one whose archive only the worker accepts, one for another platform.
Sound   == Release(Windows, <<Main>>)
Nested  == Release(Windows, <<Main, Entry(<<"main", "x">>, "plain", FALSE, 1)>>)
Foreign == Release(Mac, <<Main>>)

\* The other installation's release decides what happens to the first.
Mixed == {i1 :> Sound @@ i2 :> r : r \in {Sound, Nested, Foreign}}

(* What the theorems say, on small manifests and archives.                 *)
SmallManifests ==
  {Manifest(form, kind, dependency, text, strict, Windows) :
     form \in {"plain", "dots", "parent", "drive"}, kind \in RuntimeKinds,
     dependency \in DependencyKinds, text \in {Text(8, 8), Text(80, 240), Text(2, 1)},
     strict \in BOOLEAN}

ASSUME ManifestsAgree ==
  \A m \in SmallManifests :
    LET r == [manifest |-> m, signer |-> key, archives |-> <<>>]
    IN  DesktopReleaseManifest(m)
        => /\ Readable(InstallationItem(r)) <=> PortableManifest(m)
           /\ ~Readable(InstallationItem(Published(r)))

SmallEntries ==
  {Entry(path, form, directory, size) : path \in {<<"main">>, <<"main", "x">>, <<"y">>},
     form \in {"plain", "clock", "trailing"}, directory \in BOOLEAN, size \in 1..2}

\* Directories beside a file, more than the limit with them, as many without.
ManyEntries == {Entry(<<name>>, "plain", name # "main", 1) : name \in {"main", "x", "y", "z", "t"}}

ASSUME ArchivesAgree ==
  \A archive \in (UNION {[1..n -> SmallEntries] : n \in 1..3}) \cup [1..5 -> ManyEntries] :
    InspectEntries(archive) => (ExtractChecked(archive) <=> PortableArchive(archive))

\* A capital and its small letter, a letter of the last plane before 65 536, one after.
Texts == {<<65>>, <<97>>, <<65281>>, <<128512>>, <<97, 65281>>, <<97, 128512>>}
Items == {[spelled |-> t, folded |-> IF t = <<65>> THEN <<97>> ELSE t] : t \in Texts}

ASSUME HashesAgree ==
  \A kind \in {"network", "shortcut"}, items \in SUBSET Items :
    LET capabilities == {[kind |-> kind, items |-> items]}
    IN  DesktopCapabilityHash(capabilities) = CanonicalizeDesktopCapabilities(capabilities)
        <=> PortableCapabilities(capabilities)

\* The worker trusts the Agent's key, under the publisher's name.
Keys == [id \in {"publisher"} |-> key]
=============================================================================
