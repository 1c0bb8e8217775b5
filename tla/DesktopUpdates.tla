--------------------------- MODULE DesktopUpdates ---------------------------
(***************************************************************************)
(* Updates of the desktop application (desktop/src/pages/UpdatePage.tsx,   *)
(* services/updateState.ts, services/desktopUpdater.ts; the updater plugin *)
(* is modelled from how they use it).                                      *)
(*                                                                         *)
(* The page enables its buttons by the phase it shows; the phase follows   *)
(* the events of the operations it has started.  Between a click and the   *)
(* first event the button stays enabled, so that operations overlap; and   *)
(* they go on when the page is left, for the update found last is kept     *)
(* beside the page, in pendingUpdate.                                      *)
(*                                                                         *)
(*   updatePage, pageShown   the page opened last, whether it is open still *)
(*   updatePhase, update     the phase and the version it shows            *)
(*   operations     the operations started: of which page, on which        *)
(*                  candidate, how far                                     *)
(*   candidates     the updates the plugin has found: version, and whether *)
(*                  their bytes are downloaded and verified                *)
(*   pendingUpdate  the candidate kept, or NoCandidate                     *)
(*   newest, current, installed   versions: published, running, installed  *)
(*   crossed        a check has ended after its page was left, or while    *)
(*                  an update was downloaded or installed                *)
(***************************************************************************)
EXTENDS Naturals, Sequences

CONSTANTS
  MaxPages,        \* bound on how often the page is opened
  MaxOperations,   \* bound on the operations started
  MaxVersion       \* bound on the versions published

ASSUME UpdateAssumption == MaxPages \in Nat /\ MaxOperations \in Nat /\ MaxVersion \in Nat

VARIABLES updatePage, pageShown, updatePhase, update, operations, candidates, pendingUpdate,
          newest, current, installed, crossed

pageState   == <<updatePage, pageShown, updatePhase, update>>
pluginState == <<operations, candidates, pendingUpdate>>
versions    == <<newest, current, installed>>
updateVars  == <<pageState, pluginState, versions, crossed>>

NoCandidate == 0
NoVersion == 0
Phases == {"idle", "checking", "up-to-date", "available", "downloading", "downloaded", "installing",
           "restart-required", "error"}

UpdateInit ==
  /\ updatePage = 1 /\ pageShown = TRUE /\ updatePhase = "idle" /\ update = NoVersion
  /\ operations = <<>> /\ candidates = <<>> /\ pendingUpdate = NoCandidate
  /\ newest = 1 /\ current = 1 /\ installed = 1
  /\ crossed = FALSE
-----------------------------------------------------------------------------
(* The page. *)

\* isUpdateBusy
Busy == updatePhase \in {"checking", "downloading", "installing"}

\* reduceDesktopUpdate: the phase and the version after an event.
Reduced(event, version) ==
  CASE event = "check-started" -> [phase |-> "checking", update |-> NoVersion]
    [] event = "no-update" -> [phase |-> "up-to-date", update |-> NoVersion]
    [] event = "update-available" -> [phase |-> "available", update |-> version]
    [] event \in {"download-started", "download-progress"} -> [phase |-> "downloading", update |-> update]
    [] event = "download-finished" -> [phase |-> "downloaded", update |-> update]
    [] event = "install-started" -> [phase |-> "installing", update |-> update]
    [] event = "installed" -> [phase |-> "restart-required", update |-> update]
    [] OTHER -> [phase |-> "error", update |-> update]

\* The page that started operation i learns of the event, if it is still open.
Tell(i, event, version) ==
  IF pageShown /\ operations[i].page = updatePage
  THEN updatePhase' = Reduced(event, version).phase /\ update' = Reduced(event, version).update
  ELSE UNCHANGED <<updatePhase, update>>

\* A button starts an operation.
StartOperation(kind) ==
  /\ pageShown /\ Len(operations) < MaxOperations
  /\ operations' = Append(operations,
       [kind |-> kind, page |-> updatePage, at |-> "clicked", candidate |-> NoCandidate, version |-> NoVersion])
  /\ UNCHANGED <<updatePage, pageShown, candidates, pendingUpdate, versions, crossed>>

ShowAt(event) == updatePhase' = Reduced(event, NoVersion).phase /\ update' = Reduced(event, NoVersion).update

ClickCheck == ~Busy /\ ShowAt("check-started") /\ StartOperation("check")

\* Nothing is shown before the first event: a second click starts a second download.
ClickDownload == updatePhase = "available" /\ UNCHANGED <<updatePhase, update>> /\ StartOperation("download")

ClickInstall == updatePhase = "downloaded" /\ ShowAt("install-started") /\ StartOperation("install")

\* relaunch: another process, of the version installed.
Relaunch ==
  /\ pageShown /\ updatePhase = "restart-required"
  /\ current' = installed
  /\ updatePhase' = "idle" /\ update' = NoVersion
  /\ operations' = <<>> /\ candidates' = <<>> /\ pendingUpdate' = NoCandidate
  /\ crossed' = FALSE
  /\ UNCHANGED <<updatePage, pageShown, newest, installed>>

RelaunchFails ==
  /\ pageShown /\ updatePhase = "restart-required"
  /\ ShowAt("failed")
  /\ UNCHANGED <<updatePage, pageShown, pluginState, versions, crossed>>

LeavePage ==
  /\ pageShown
  /\ pageShown' = FALSE
  /\ UNCHANGED <<updatePage, updatePhase, update, pluginState, versions, crossed>>

\* createInitialUpdateState
OpenPage ==
  /\ ~pageShown /\ updatePage < MaxPages
  /\ updatePage' = updatePage + 1 /\ pageShown' = TRUE
  /\ updatePhase' = "idle" /\ update' = NoVersion
  /\ UNCHANGED <<pluginState, versions, crossed>>
-----------------------------------------------------------------------------
(* desktopUpdater *)

SetOperation(i, op) == operations' = [operations EXCEPT ![i] = op]

Ended(op) == [op EXCEPT !.at = "ended", !.candidate = NoCandidate, !.version = NoVersion]

\* The operation is over, and the page learns it.
End(i, event, version) ==
  /\ SetOperation(i, Ended(operations[i]))
  /\ Tell(i, event, version)

\* Mutant: the page does not see that an installation has failed.
FailUnnoticed(i) ==
  /\ End(i, IF operations[i].kind = "install" THEN "installed" ELSE "failed", NoVersion)
  /\ UNCHANGED <<candidates, pendingUpdate, installed>>

Fail(i) == End(i, "failed", NoVersion) /\ UNCHANGED <<candidates, pendingUpdate, installed>>

At(i, kind, at) == operations[i].kind = kind /\ operations[i].at = at

\* check: an update found before is closed first.
BeginCheck(i) ==
  /\ At(i, "check", "clicked")
  /\ SetOperation(i, [operations[i] EXCEPT !.at = IF pendingUpdate = NoCandidate THEN "asking" ELSE "closing"])
  /\ UNCHANGED <<updatePhase, update, candidates, pendingUpdate, installed>>

CloseUpdate(i) ==
  /\ At(i, "check", "closing")
  /\ SetOperation(i, [operations[i] EXCEPT !.at = "asking"])
  /\ pendingUpdate' = NoCandidate
  /\ UNCHANGED <<updatePhase, update, candidates, installed>>

\* The server answers with the newest version it has.
AnswerCheck(i) ==
  /\ At(i, "check", "asking")
  /\ SetOperation(i, [operations[i] EXCEPT !.at = "answered", !.version = newest])
  /\ UNCHANGED <<updatePhase, update, candidates, pendingUpdate, installed>>

\* The answer arrives: the update found is kept.
EndCheck(i) ==
  LET version == operations[i].version
  IN  /\ At(i, "check", "answered")
      /\ IF version > current
         THEN /\ candidates' = Append(candidates, [version |-> version, downloaded |-> FALSE])
              /\ pendingUpdate' = Len(candidates) + 1
              /\ End(i, "update-available", version)
         ELSE End(i, "no-update", NoVersion) /\ UNCHANGED <<candidates, pendingUpdate>>
      /\ UNCHANGED installed

\* requirePendingUpdate
BeginDownload(i) ==
  /\ At(i, "download", "clicked")
  /\ IF pendingUpdate = NoCandidate THEN Fail(i)
     ELSE /\ SetOperation(i, [operations[i] EXCEPT !.at = "asking", !.candidate = pendingUpdate])
          /\ UNCHANGED <<updatePhase, update, candidates, pendingUpdate, installed>>

\* The events of a download: how far it is then, for each of them.
DownloadEvent(i) ==
  /\ operations[i].kind = "download"
  /\ \/ /\ operations[i].at = "asking"
        /\ SetOperation(i, [operations[i] EXCEPT !.at = "started"])
        /\ Tell(i, "download-started", NoVersion)
     \/ /\ operations[i].at = "started"
        /\ Tell(i, "download-progress", NoVersion)
        /\ UNCHANGED operations
     \/ /\ operations[i].at = "started"
        /\ SetOperation(i, [operations[i] EXCEPT !.at = "finished"])
        /\ Tell(i, "download-finished", NoVersion)
  /\ UNCHANGED <<candidates, pendingUpdate, installed>>

\* The bytes are verified: only then they can be installed.
EndDownload(i) ==
  /\ At(i, "download", "finished")
  /\ SetOperation(i, Ended(operations[i]))
  /\ candidates' = [candidates EXCEPT ![operations[i].candidate].downloaded = TRUE]
  /\ UNCHANGED <<updatePhase, update, pendingUpdate, installed>>

\* The plugin refuses to install what it has not downloaded.
BeginInstall(i) ==
  /\ At(i, "install", "clicked")
  /\ IF pendingUpdate = NoCandidate THEN Fail(i)
     ELSE IF ~candidates[pendingUpdate].downloaded THEN Fail(i)
     ELSE /\ SetOperation(i, [operations[i] EXCEPT !.at = "asking", !.candidate = pendingUpdate])
          /\ UNCHANGED <<updatePhase, update, candidates, pendingUpdate, installed>>

EndInstall(i) ==
  /\ At(i, "install", "asking")
  /\ installed' = candidates[operations[i].candidate].version
  /\ End(i, "installed", NoVersion)
  /\ UNCHANGED <<candidates, pendingUpdate>>

\* A check, a download or an installation fails; a signature is verified at the end.
OperationFails(i) ==
  /\ operations[i].at \in {"closing", "asking", "answered", "started", "finished"}
  /\ Fail(i)

\* A check ends after its page was left, or while an update is downloaded or installed.
Crosses(i) ==
  /\ operations[i].kind = "check" /\ operations[i].at # "ended" /\ operations'[i].at = "ended"
  /\ \/ ~pageShown \/ operations[i].page # updatePage
     \/ \E j \in DOMAIN operations : operations[j].kind # "check" /\ operations[j].at # "ended"

UpdaterStep ==
  /\ \E i \in DOMAIN operations :
       \/ BeginCheck(i) \/ CloseUpdate(i) \/ AnswerCheck(i) \/ EndCheck(i)
       \/ BeginDownload(i) \/ DownloadEvent(i) \/ EndDownload(i)
       \/ BeginInstall(i) \/ EndInstall(i)
       \/ OperationFails(i)
  /\ crossed' = (crossed \/ \E i \in DOMAIN operations : Crosses(i))
  /\ UNCHANGED <<updatePage, pageShown, newest, current>>

Publish ==
  /\ newest < MaxVersion
  /\ newest' = newest + 1
  /\ UNCHANGED <<pageState, pluginState, current, installed, crossed>>

UpdateNext ==
  \/ ClickCheck \/ ClickDownload \/ ClickInstall \/ Relaunch \/ RelaunchFails
  \/ LeavePage \/ OpenPage
  \/ UpdaterStep
  \/ Publish

UpdateSpec == UpdateInit /\ [][UpdateNext]_updateVars
-----------------------------------------------------------------------------
(* Properties *)

Installing(i) == operations[i].kind = "install" /\ operations[i].at = "asking"

\* Everything stays in its domain.
UpdateTypeOK ==
  /\ updatePage \in 1..MaxPages /\ pageShown \in BOOLEAN
  /\ updatePhase \in Phases /\ update \in 0..MaxVersion
  /\ operations \in Seq([kind : {"check", "download", "install"}, page : 1..MaxPages,
       at : {"clicked", "closing", "asking", "answered", "started", "finished", "ended"},
       candidate : 0..Len(candidates), version : 0..MaxVersion])
  /\ candidates \in Seq([version : 1..MaxVersion, downloaded : BOOLEAN])
  /\ pendingUpdate \in 0..Len(candidates)
  /\ {newest, current, installed} \subseteq 1..MaxVersion

\* No version is installed while the page names another one, however clicks and downloads
\* overlap and pages come and go, unless a check crossed them: pendingUpdate is kept beside
\* the page, and the button for a check stays enabled until a download's first event.
InstallsWhatItNames ==
  \A i \in DOMAIN operations :
    Installing(i) /\ pageShown /\ operations[i].page = updatePage /\ ~crossed =>
      update \in {NoVersion, candidates[operations[i].candidate].version}

\* The page asks for a restart only when the restart is one into a newer version, of the
\* update it names if it names one.
RestartIsIntoTheUpdate ==
  pageShown /\ updatePhase = "restart-required" =>
    /\ installed > current
    /\ ~crossed => update \in {NoVersion, installed}

\* An update installs what the page names, and the restart it asks for is into it.
UpdatesAreHonest == InstallsWhatItNames /\ RestartIsIntoTheUpdate
=============================================================================
