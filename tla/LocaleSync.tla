----------------------------- MODULE LocaleSync -----------------------------
(***************************************************************************)
(* The locale of the desktop application and of the Agent                  *)
(* (desktop/src/i18n/LocaleProvider.tsx, localeTransition.ts,              *)
(* localeSync.ts, runtime.ts; set_locale of crates/agent/src/agent.rs).    *)
(*                                                                         *)
(* A choice of the user, and a change of the system's language as long as  *)
(* the application follows it, is a transition: the catalog is changed,    *)
(* one transition after the other, and only the latest is committed.  A    *)
(* commit stores the choice, shows its snapshot and, in an effect, tells   *)
(* the Agent: calls go out one at a time, a failed one is tried again      *)
(* twice, unless its snapshot is superseded.  A call that failed for its   *)
(* caller may still be on its way to the Agent.                            *)
(*                                                                         *)
(*   system       the language of the operating system                     *)
(*   stored, preference, snapshot   the choice kept, the one shown, its    *)
(*                locale                                                   *)
(*   catalog      the language the catalog speaks                          *)
(*   transitions  the queue of transitions; `generation' the latest        *)
(*   effectDue    the synchronising effect has yet to run                  *)
(*   sync         the runs of the effect, and `syncs' how many there are   *)
(*   calls        localeSyncQueue: the runs whose call waits or is made    *)
(*   badge        agentLocaleSync                                          *)
(*   agentLocale  what the Agent uses                                      *)
(*   astray       the locales of calls given up but still on their way     *)
(*   overtaken    such a call was the last to reach the Agent              *)
(*   choices, failures, restarts   count what is bounded                   *)
(***************************************************************************)
EXTENDS Naturals, Sequences

CONSTANTS
  Languages,      \* the supported locales
  DefaultLanguage,
  SyncAttempts,   \* attempts of a run: one more than there are retry delays
  MaxChoices,     \* bound on choices, on changes of the system and on retries
  MaxFailures,    \* bound on failed calls
  MaxRestarts     \* bound on restarts of the application

Preferences == Languages \cup {"system"}
MaxSyncs == MaxChoices + 1

ASSUME LocaleAssumption ==
  /\ DefaultLanguage \in Languages /\ "system" \notin Languages
  /\ SyncAttempts \in Nat \ {0}
  /\ MaxChoices \in Nat /\ MaxFailures \in Nat /\ MaxRestarts \in Nat

VARIABLES system, stored, preference, snapshot, catalog, transitions, generation, effectDue,
          sync, syncs, calls, badge, agentLocale, astray, overtaken, choices, failures, restarts

shownLocale == <<stored, preference, snapshot, catalog>>
queued      == <<transitions, generation>>
syncing     == <<effectDue, sync, syncs, calls, badge>>
agentState  == <<agentLocale, astray, overtaken>>
counted     == <<choices, failures, restarts>>
localeVars  == <<system, shownLocale, queued, syncing, agentState, counted>>

NoSync == [at |-> "none", locale |-> DefaultLanguage, attempt |-> 0]

\* createLocaleSnapshot
Snapshot(choice, language) == IF choice = "system" THEN language ELSE choice

LocaleInit ==
  /\ system \in Languages
  /\ stored = "system" /\ preference = "system" /\ snapshot = system /\ catalog = system
  /\ transitions = <<>> /\ generation = 0
  /\ effectDue = TRUE
  /\ sync = [n \in 1..MaxSyncs |-> NoSync] /\ syncs = 0 /\ calls = <<>>
  /\ badge = "syncing"
  /\ agentLocale = DefaultLanguage /\ astray = {} /\ overtaken = FALSE
  /\ choices = 0 /\ failures = 0 /\ restarts = 0
-----------------------------------------------------------------------------
(* Transitions. *)

\* applyPreference: a transition joins the queue.
ApplyPreference(choice, language, persist) ==
  /\ generation' = generation + 1
  /\ transitions' = Append(transitions,
       [generation |-> generation + 1, choice |-> choice, persist |-> persist,
        locale |-> Snapshot(choice, language)])

\* setPreference
Choose(choice) ==
  /\ choices < MaxChoices
  /\ choices' = choices + 1
  /\ ApplyPreference(choice, system, TRUE)
  /\ UNCHANGED <<system, shownLocale, syncing, agentState, failures, restarts>>

\* onLanguageChange, which listens while the application follows the system.
ChangeSystem(language) ==
  /\ choices < MaxChoices /\ language # system
  /\ choices' = choices + 1
  /\ system' = language
  /\ IF preference = "system" THEN ApplyPreference("system", language, FALSE) ELSE UNCHANGED queued
  /\ UNCHANGED <<shownLocale, syncing, agentState, failures, restarts>>

\* Mutant: the transitions do not wait for each other.
ChangeableInAnyOrder == DOMAIN transitions

\* The queue: the catalog is changed for the oldest transition.
Changeable == {i \in DOMAIN transitions : i = 1}

Without(queue, i) == SubSeq(queue, 1, i - 1) \o SubSeq(queue, i + 1, Len(queue))

\* The catalog has changed: the latest transition is committed.
EndTransition(i) ==
  LET t == transitions[i]
  IN  /\ i \in Changeable
      /\ transitions' = Without(transitions, i)
      /\ catalog' = t.locale
      /\ IF t.generation = generation
         THEN /\ stored' = IF t.persist THEN t.choice ELSE stored
              /\ preference' = t.choice
              /\ snapshot' = t.locale
              /\ effectDue' = TRUE
         ELSE UNCHANGED <<stored, preference, snapshot, effectDue>>
      /\ UNCHANGED <<system, generation, sync, syncs, calls, badge, agentState, counted>>
-----------------------------------------------------------------------------
(* Synchronisation. *)

\* The effect of a new snapshot, or of a retry: an earlier run is superseded.
RunSyncEffect ==
  /\ effectDue
  /\ effectDue' = FALSE
  /\ syncs' = syncs + 1
  /\ sync' = [sync EXCEPT ![syncs + 1] = [at |-> "calling", locale |-> snapshot, attempt |-> 1]]
  /\ calls' = Append(calls, syncs + 1)
  /\ badge' = "syncing"
  /\ UNCHANGED <<system, shownLocale, queued, agentState, counted>>

\* retryAgentLocaleSync
RetrySync ==
  /\ badge = "error" /\ ~effectDue /\ choices < MaxChoices
  /\ choices' = choices + 1
  /\ effectDue' = TRUE
  /\ UNCHANGED <<system, shownLocale, queued, sync, syncs, calls, badge, agentState, failures, restarts>>

\* Mutant: a superseded run goes on.
NeverSuperseded(n) == TRUE

IsCurrent(n) == n = syncs

\* The end of run n, which says so only if it is the current one.
EndSync(n, verdict) ==
  /\ sync' = [sync EXCEPT ![n].at = "ended"]
  /\ badge' = IF IsCurrent(n) THEN verdict ELSE badge

\* agent_set_locale: the Agent has stored the locale and answers.
CallSucceeds ==
  LET n == Head(calls)
  IN  /\ calls # <<>>
      /\ calls' = Tail(calls)
      /\ agentLocale' = sync[n].locale /\ overtaken' = FALSE
      /\ EndSync(n, "synced")
      /\ UNCHANGED <<system, shownLocale, queued, effectDue, syncs, astray, counted>>

\* No answer in time, or the connection is lost: the Agent has done it, or not, or will.
CallFails ==
  LET n == Head(calls)
  IN  /\ calls # <<>> /\ failures < MaxFailures
      /\ failures' = failures + 1
      /\ calls' = Tail(calls)
      /\ \/ agentLocale' = sync[n].locale /\ overtaken' = FALSE /\ UNCHANGED astray
         \/ UNCHANGED agentState
         \/ astray' = astray \cup {sync[n].locale} /\ UNCHANGED <<agentLocale, overtaken>>
      /\ IF IsCurrent(n) /\ sync[n].attempt < SyncAttempts
         THEN sync' = [sync EXCEPT ![n].at = "waiting"] /\ UNCHANGED badge
         ELSE EndSync(n, "error")
      /\ UNCHANGED <<system, shownLocale, queued, effectDue, syncs, choices, restarts>>

\* The wait before another attempt is over.
EndWait(n) ==
  /\ sync[n].at = "waiting"
  /\ IF IsCurrent(n)
     THEN /\ sync' = [sync EXCEPT ![n].at = "calling", ![n].attempt = @ + 1]
          /\ calls' = Append(calls, n)
          /\ UNCHANGED badge
     ELSE EndSync(n, "error") /\ UNCHANGED calls
  /\ UNCHANGED <<system, shownLocale, queued, effectDue, syncs, agentState, counted>>

\* A call that was given up reaches the Agent after all.
CallArrivesLate(locale) ==
  /\ locale \in astray
  /\ astray' = astray \ {locale}
  /\ agentLocale' = locale /\ overtaken' = TRUE
  /\ UNCHANGED <<system, shownLocale, queued, syncing, counted>>

\* initializeDesktopLocale: the stored choice; a call under way is given up.
RestartDesktop ==
  LET locale == Snapshot(stored, system)
  IN  /\ restarts < MaxRestarts
      /\ restarts' = restarts + 1
      /\ preference' = stored /\ snapshot' = locale /\ catalog' = locale
      /\ transitions' = <<>> /\ generation' = 0
      /\ sync' = [n \in 1..MaxSyncs |-> NoSync] /\ syncs' = 0 /\ calls' = <<>>
      /\ effectDue' = TRUE /\ badge' = "syncing"
      /\ astray' = IF calls = <<>> THEN astray ELSE astray \cup {sync[Head(calls)].locale}
      /\ UNCHANGED <<system, stored, agentLocale, overtaken, choices, failures>>

LocaleStep ==
  \/ \E i \in DOMAIN transitions : EndTransition(i)
  \/ RunSyncEffect
  \/ CallSucceeds \/ CallFails
  \/ \E n \in 1..MaxSyncs : EndWait(n)

LocaleNext ==
  \/ LocaleStep
  \/ \E choice \in Preferences : Choose(choice)
  \/ \E language \in Languages : ChangeSystem(language) \/ CallArrivesLate(language)
  \/ RetrySync
  \/ RestartDesktop

LocaleSpec == LocaleInit /\ [][LocaleNext]_localeVars /\ WF_localeVars(LocaleStep)
-----------------------------------------------------------------------------
(* Properties *)

\* Everything stays in its domain.
LocaleTypeOK ==
  /\ {system, snapshot, catalog, agentLocale} \subseteq Languages
  /\ {stored, preference} \subseteq Preferences
  /\ transitions \in Seq([generation : Nat, choice : Preferences, persist : BOOLEAN, locale : Languages])
  /\ generation \in Nat /\ effectDue \in BOOLEAN
  /\ sync \in [1..MaxSyncs -> [at : {"none", "calling", "waiting", "ended"}, locale : Languages,
                               attempt : 0..SyncAttempts]]
  /\ syncs \in 0..MaxSyncs /\ calls \in Seq(1..MaxSyncs)
  /\ badge \in {"syncing", "synced", "error"}
  /\ astray \subseteq Languages /\ overtaken \in BOOLEAN

\* When no transition is under way, the catalog speaks the language of the snapshot, and
\* the choice shown is the one kept for the next start (createLocaleTransitionQueue).
SpeaksWhatItShows ==
  transitions = <<>> =>
    /\ catalog = snapshot
    /\ stored = preference
    /\ preference # "system" => snapshot = preference

\* The page says that the Agent is synchronised only when the Agent uses the locale that
\* the page shows, unless a call that was given up has overtaken it (localeSync.ts).
SyncedMeansAgreed ==
  badge = "synced" /\ ~effectDue => agentLocale = snapshot \/ overtaken

\* What the desktop shows, keeps and has told the Agent is one locale.
LocaleIsOne == SpeaksWhatItShows /\ SyncedMeansAgreed

\* A synchronisation ends, however many snapshots have superseded each other.
SyncSettles == (badge = "syncing") ~> (badge # "syncing")
=============================================================================
