-------------------------- MODULE MCUserInterfaces --------------------------
(***************************************************************************)
(* The TLC instance of the user interfaces.  They share no state: a        *)
(* behaviour is one of the program chosen at its start, the others stay as *)
(* they are.  The module also evaluates what the pure modules promise.     *)
(***************************************************************************)
EXTENDS WebRuntime, HostBridge, HostRequests, LocaleSync, Locales, DesktopUpdates

CONSTANTS r1, r2, A, B

\* The second view shows the release of the first in another workspace, the third
\* another release.
SameThenOther == [v \in Views |-> IF v = 3 THEN r2 ELSE r1]

\* An application in a frame, one in the page for another scope, and two in frames of
\* which the last may not read the context.
ScopesInTurn == <<A, B, A, B>>
KindsInTurn  == <<"iframe", "federation", "iframe", "iframe">>

VARIABLE program

uiVars == <<program, vars, bridgeVars, localeVars, updateVars>>

UserInit ==
  /\ program \in {"page", "bridge", "locale", "updates"}
  /\ Init /\ BridgeInit /\ LocaleInit /\ UpdateInit
  /\ program # "locale" => system = DefaultLanguage

InProgram(name, step, others) == program = name /\ step /\ UNCHANGED <<program, others>>

UserNext ==
  \/ InProgram("page", Next, <<bridgeVars, localeVars, updateVars>>)
  \/ InProgram("bridge", BridgeNext, <<vars, localeVars, updateVars>>)
  \/ InProgram("locale", LocaleNext, <<vars, bridgeVars, updateVars>>)
  \/ InProgram("updates", UpdateNext, <<vars, bridgeVars, localeVars>>)

\* The fairness of each program (FairSpec, LocaleSpec), while it is the one that runs.
UserSpec ==
  /\ UserInit /\ [][UserNext]_uiVars
  /\ WF_vars(program = "page" /\ RemoteStep)
  /\ WF_vars(program = "page" /\ ShellStep)
  /\ WF_vars(program = "page" /\ Retry)
  /\ WF_localeVars(program = "locale" /\ LocaleStep)

\* A page that waits for an application gets it, and a badge that waits for the Agent
\* tells how it ended (SyncSettles, of that program).
InterfacesSettle ==
  /\ RetriesSucceed
  /\ (program = "locale" /\ badge = "syncing") ~> (program = "locale" /\ badge # "syncing")

\* What HostRequests promises.
ASSUME HostApiHolds == HostApiProperties

Headers == UNION {[1..n -> [tag : Tags, quality : {NoQuality, 0, 5, 10}]] : n \in 0..3}
Languages3 == UNION {[1..n -> Tags] : n \in 0..3}

\* What Locales promises, for up to three languages or parts of a header.
ASSUME LocalesHold ==
  /\ AnswersInTheBestLanguage(Headers)
  /\ PagesStartInTheirLanguage(Languages3, Supported \cup {NoLocale})
  /\ TextsFollowTheOrder({"name", "summary"})
=============================================================================
