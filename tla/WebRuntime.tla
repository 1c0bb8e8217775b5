----------------------------- MODULE WebRuntime -----------------------------
(***************************************************************************)
(* How the web shell shows a federated application                         *)
(* (web-shell/src/runtime/FederationRuntime.tsx, federation.ts,            *)
(* federationPolicy.ts), composed with an application that mounts          *)
(* asynchronously: the control plane's remote (control-plane/src/          *)
(* remote.tsx, runtime.tsx).                                               *)
(*                                                                         *)
(* React disposes of an effect at any moment; the promises it has started  *)
(* go on.  Loads are shared: of the deployment policy, of a release's      *)
(* module, of the application's own runtime; a failed one is forgotten, so *)
(* that a retry starts another.  The remote answers mount and unmount of a *)
(* container by generation: a cancelled mount cleans up after itself.      *)
(*                                                                         *)
(* A VIEW is a container, made anew for every user, workspace and release  *)
(* (runtimeScopeKey); an ATTEMPT <<view, n>> is one run of its effect.     *)
(*                                                                         *)
(*   view, attempt, phase   what the page shows: the attempt and `phase'   *)
(*   effect    the attempts: progress, disposed, loadedModule set          *)
(*   policy    policyRequest                                               *)
(*   module    moduleCache, by release                                     *)
(*   runtime   runtimePromise of the remote, by release                    *)
(*   mount     the remote's mount call of each attempt                     *)
(*   pending   pendingMounts, by container                                 *)
(*   record    mounts of runtime.tsx, by container                         *)
(*   roots     the React roots rendered and not unmounted                  *)
(*   faults    counts failed loads and mounts                              *)
(***************************************************************************)
EXTENDS Naturals

CONSTANTS
  Releases,
  ReleaseOf,     \* the release each view shows
  Replays,       \* StrictMode of a development build runs a first effect twice
  MaxViews,      \* bound on the views shown
  MaxAttempts,   \* bound on the attempts in a view
  MaxFaults      \* bound on faults

Views == 1..MaxViews
Attempts == Views \X (1..MaxAttempts)

ASSUME WebAssumption ==
  /\ MaxViews \in Nat /\ MaxAttempts \in Nat \ {0} /\ MaxFaults \in Nat
  /\ ReleaseOf \in [Views -> Releases]
  /\ Replays \in BOOLEAN /\ (Replays => MaxAttempts > 1)

NoView == 0
None   == <<0, 0>>

VARIABLES view, attempt, phase, effect, policy, module, runtime, mount, pending, record,
          roots, faults

page   == <<view, attempt, phase>>
loads  == <<policy, module, runtime>>
remote == <<mount, pending, record, roots>>
vars   == <<page, effect, loads, remote, faults>>

NoEffect == [at |-> "none", disposed |-> FALSE, loaded |-> FALSE]
NoMount  == [at |-> "none", cancelled |-> FALSE]

Current == <<view, attempt>>

Init ==
  /\ view = NoView /\ attempt = 0 /\ phase = "loading"
  /\ effect = [e \in Attempts |-> NoEffect]
  /\ policy = "none"
  /\ module = [r \in Releases |-> "none"]
  /\ runtime = [r \in Releases |-> "none"]
  /\ mount = [e \in Attempts |-> NoMount]
  /\ pending = [v \in Views |-> None]
  /\ record = [v \in Views |-> None]
  /\ roots = {}
  /\ faults = 0
-----------------------------------------------------------------------------
(* The remote. *)

\* unmountControlPlane: whatever is rendered in the container.
Unrender(v) ==
  /\ roots' = roots \ {record[v]}
  /\ record' = [record EXCEPT ![v] = None]

IsCurrentMount(e) == ~mount[e].cancelled /\ pending[e[1]] = e

\* cancelMount of the container's pending mount, if there is one.
CancelPending(v) ==
  IF pending[v] = None THEN UNCHANGED remote
  ELSE /\ mount' = [mount EXCEPT ![pending[v]].cancelled = TRUE]
       /\ pending' = [pending EXCEPT ![v] = None]
       /\ Unrender(v)

\* mount: a replacement cancels the previous mount and waits until it has settled.
CallMount(e) ==
  LET previous == pending[e[1]]
  IN  /\ mount' = [o \in Attempts |->
           IF o = e THEN [at |-> "waiting", cancelled |-> FALSE]
           ELSE IF o = previous THEN [mount[o] EXCEPT !.cancelled = TRUE] ELSE mount[o]]
      /\ pending' = [pending EXCEPT ![e[1]] = e]
      /\ IF previous = None THEN UNCHANGED <<record, roots>> ELSE Unrender(e[1])

SetMount(e, at) == mount' = [mount EXCEPT ![e].at = at]

Settled(e) == mount[e].at \in {"none", "returned", "rejected"}

\* `await previous?.settled', then the shared import of the runtime.
Replace(e) ==
  /\ mount[e].at = "waiting"
  /\ \A o \in Attempts : o[1] = e[1] /\ o[2] < e[2] => Settled(o)
  /\ IF IsCurrentMount(e)
     THEN /\ SetMount(e, "importing")
          /\ runtime' = [runtime EXCEPT ![ReleaseOf[e[1]]] = IF @ = "none" THEN "pending" ELSE @]
     ELSE SetMount(e, "returned") /\ UNCHANGED runtime
  /\ UNCHANGED <<page, effect, policy, module, pending, record, roots, faults>>

ImportRuntime(r) ==
  /\ runtime[r] = "pending"
  /\ runtime' = [runtime EXCEPT ![r] = "ok"]
  /\ UNCHANGED <<page, effect, policy, module, remote, faults>>

\* The import fails for every mount that waits for it.
ImportFails(r) ==
  LET failed == {e \in Attempts : mount[e].at = "importing" /\ ReleaseOf[e[1]] = r}
  IN  /\ runtime[r] = "pending"
      /\ faults < MaxFaults
      /\ faults' = faults + 1
      /\ runtime' = [runtime EXCEPT ![r] = "none"]
      /\ mount' = [e \in Attempts |->
           IF e \in failed THEN [at |-> "rejected", cancelled |-> TRUE] ELSE mount[e]]
      /\ pending' = [v \in Views |-> IF pending[v] \in failed THEN None ELSE pending[v]]
      /\ UNCHANGED <<page, effect, policy, module, record, roots>>

\* mountControlPlane up to its first await.
StartRendering(e) ==
  /\ mount[e].at = "importing"
  /\ runtime[ReleaseOf[e[1]]] = "ok"
  /\ IF IsCurrentMount(e)
     THEN SetMount(e, "rendering") /\ Unrender(e[1])
     ELSE SetMount(e, "returned") /\ UNCHANGED <<record, roots>>
  /\ UNCHANGED <<page, effect, loads, pending, faults>>

Render(e) ==
  /\ mount[e].at = "rendering"
  /\ SetMount(e, "rendered")
  /\ roots' = roots \cup {e}
  /\ record' = [record EXCEPT ![e[1]] = e]
  /\ UNCHANGED <<page, effect, loads, pending, faults>>

RenderFails(e) ==
  /\ mount[e].at = "rendering"
  /\ faults < MaxFaults
  /\ faults' = faults + 1
  /\ IF IsCurrentMount(e)
     THEN /\ mount' = [mount EXCEPT ![e] = [at |-> "rejected", cancelled |-> TRUE]]
          /\ pending' = [pending EXCEPT ![e[1]] = None]
          /\ Unrender(e[1])
     ELSE SetMount(e, "rejected") /\ UNCHANGED <<pending, record, roots>>
  /\ UNCHANGED <<page, effect, loads>>

\* Mutant: a mount that finishes late leaves its application there.
FinishWithoutCleanup(e) ==
  /\ mount[e].at = "rendered"
  /\ SetMount(e, "returned")
  /\ UNCHANGED <<page, effect, loads, pending, record, roots, faults>>

\* The end of mount: a mount cancelled while it rendered cleans up.
FinishMount(e) ==
  /\ mount[e].at = "rendered"
  /\ SetMount(e, "returned")
  /\ IF IsCurrentMount(e) THEN UNCHANGED <<record, roots>> ELSE Unrender(e[1])
  /\ UNCHANGED <<page, effect, loads, pending, faults>>

RemoteStep ==
  \/ \E e \in Attempts : Replace(e) \/ StartRendering(e) \/ Render(e) \/ FinishMount(e)
  \/ \E r \in Releases : ImportRuntime(r)
-----------------------------------------------------------------------------
(* The loads of the shell. *)

\* Mutant: a failed load stays in the cache.
ForgetsNothing(cache, failed) == cache

\* The loads that failed are forgotten.
Forget(cache, failed) == [r \in Releases |-> IF r \in failed THEN "none" ELSE cache[r]]

\* The attempts that wait for these releases fail.
FailAttempts(failed) ==
  LET over == {e \in Attempts : effect[e].at = "loading" /\ ReleaseOf[e[1]] \in failed}
  IN  /\ effect' = [e \in Attempts |->
           IF e \in over THEN [effect[e] EXCEPT !.at = "ended"] ELSE effect[e]]
      /\ phase' = IF Current \in over /\ ~effect[Current].disposed THEN "error" ELSE phase
      /\ UNCHANGED <<view, attempt>>

LoadPolicy ==
  /\ policy = "pending"
  /\ policy' = "ok"
  /\ UNCHANGED <<page, effect, module, runtime, remote, faults>>

PolicyFails ==
  LET failed == {r \in Releases : module[r] = "policy"}
  IN  /\ policy = "pending"
      /\ faults < MaxFaults
      /\ faults' = faults + 1
      /\ policy' = "none"
      /\ module' = Forget(module, failed)
      /\ FailAttempts(failed)
      /\ UNCHANGED <<runtime, remote>>

\* The policy allows the release: its manifest is verified, its module loaded.
FetchModule(r) ==
  /\ module[r] = "policy" /\ policy = "ok"
  /\ module' = [module EXCEPT ![r] = "fetch"]
  /\ UNCHANGED <<page, effect, policy, runtime, remote, faults>>

LoadModule(r) ==
  /\ module[r] = "fetch"
  /\ module' = [module EXCEPT ![r] = "ok"]
  /\ UNCHANGED <<page, effect, policy, runtime, remote, faults>>

ModuleFails(r) ==
  /\ module[r] = "fetch"
  /\ faults < MaxFaults
  /\ faults' = faults + 1
  /\ module' = Forget(module, {r})
  /\ FailAttempts({r})
  /\ UNCHANGED <<policy, runtime, remote>>
-----------------------------------------------------------------------------
(* The shell's effect. *)

\* loadFederationModule: joins the load of the release, or starts one, which joins
\* the load of the policy, or starts one.
JoinLoad(r) ==
  /\ module' = [module EXCEPT ![r] = IF @ = "none" THEN "policy" ELSE @]
  /\ policy' = IF module[r] = "none" /\ policy = "none" THEN "pending" ELSE policy
  /\ UNCHANGED runtime

Loading == [at |-> "loading", disposed |-> FALSE, loaded |-> FALSE]

\* The effect's cleanup: its own cleanup is that of the mount unmount cancels.
Dispose(e) == IF effect[e].loaded THEN CancelPending(e[1]) ELSE UNCHANGED remote

DisposeCurrent == IF view = NoView THEN UNCHANGED remote ELSE Dispose(Current)

Disposed(effects) == [e \in Attempts |->
  IF e = Current THEN [effects[e] EXCEPT !.disposed = TRUE] ELSE effects[e]]

\* Another user, workspace or release: the old view goes, the next one comes.
Show(v) ==
  LET last == IF Replays THEN 2 ELSE 1
  IN  /\ v = view + 1
      /\ view' = v /\ attempt' = last /\ phase' = "loading"
      /\ effect' = [e \in Attempts |->
           IF e[1] = v /\ e[2] <= last THEN [Loading EXCEPT !.disposed = e[2] < last]
           ELSE Disposed(effect)[e]]
      /\ JoinLoad(ReleaseOf[v])
      /\ DisposeCurrent
      /\ UNCHANGED faults

\* The retry button: the same container.
Retry ==
  /\ view # NoView /\ phase = "error"
  /\ attempt < MaxAttempts
  /\ attempt' = attempt + 1 /\ phase' = "loading"
  /\ effect' = [Disposed(effect) EXCEPT ![<<view, attempt + 1>>] = Loading]
  /\ JoinLoad(ReleaseOf[view])
  /\ DisposeCurrent
  /\ UNCHANGED <<view, faults>>

\* Mutant: the effect mounts although it was disposed while the module was loading.
MountArrivedAnyway(e) ==
  /\ effect[e].at = "loading" /\ module[ReleaseOf[e[1]]] = "ok"
  /\ effect' = [effect EXCEPT ![e].at = "mounting", ![e].loaded = TRUE]
  /\ CallMount(e)
  /\ UNCHANGED <<page, loads, faults>>

\* The module is there: a disposed effect does nothing more.
MountArrived(e) ==
  /\ effect[e].at = "loading" /\ module[ReleaseOf[e[1]]] = "ok"
  /\ IF effect[e].disposed
     THEN effect' = [effect EXCEPT ![e].at = "ended"] /\ UNCHANGED remote
     ELSE /\ effect' = [effect EXCEPT ![e].at = "mounting", ![e].loaded = TRUE]
          /\ CallMount(e)
  /\ UNCHANGED <<page, loads, faults>>

\* The mount's promise is settled: the page learns it unless the effect is disposed.
MountSettled(e) ==
  /\ effect[e].at = "mounting" /\ Settled(e)
  /\ effect' = [effect EXCEPT ![e].at = "ended"]
  /\ phase' = IF effect[e].disposed THEN phase
              ELSE IF mount[e].at = "returned" THEN "ready" ELSE "error"
  /\ UNCHANGED <<view, attempt, loads, remote, faults>>

ShellStep ==
  \/ \E e \in Attempts : MountArrived(e) \/ MountSettled(e)
  \/ LoadPolicy
  \/ \E r \in Releases : FetchModule(r) \/ LoadModule(r)

Fault ==
  \/ PolicyFails
  \/ \E r \in Releases : ModuleFails(r) \/ ImportFails(r)
  \/ \E e \in Attempts : RenderFails(e)

Next ==
  \/ RemoteStep
  \/ ShellStep
  \/ Fault
  \/ Retry
  \/ \E v \in Views : Show(v)

Spec == Init /\ [][Next]_vars

\* Promises that are due are run; someone who sees an error presses `Retry'.
FairSpec == Spec /\ WF_vars(RemoteStep) /\ WF_vars(ShellStep) /\ WF_vars(Retry)
-----------------------------------------------------------------------------
(* Properties *)

\* Everything stays in its domain.
TypeOK ==
  /\ view \in 0..MaxViews /\ attempt \in 0..MaxAttempts
  /\ phase \in {"loading", "ready", "error"}
  /\ effect \in [Attempts -> [at : {"none", "loading", "mounting", "ended"},
                              disposed : BOOLEAN, loaded : BOOLEAN]]
  /\ policy \in {"none", "pending", "ok"}
  /\ module \in [Releases -> {"none", "policy", "fetch", "ok"}]
  /\ runtime \in [Releases -> {"none", "pending", "ok"}]
  /\ mount \in [Attempts ->
       [at : {"none", "waiting", "importing", "rendering", "rendered", "returned", "rejected"},
        cancelled : BOOLEAN]]
  /\ pending \in [Views -> Attempts \cup {None}]
  /\ record \in [Views -> Attempts \cup {None}]
  /\ roots \subseteq Attempts
  /\ faults \in 0..MaxFaults

\* When the page says that the application is ready, it is the application of this
\* attempt that is rendered in the container; when it says that it failed, nothing is.
PhaseTellsTheApplication ==
  /\ phase = "ready" => record[view] = Current /\ Current \in roots
  /\ phase = "error" => record[view] = None

\* No application is left running for a user, workspace, release or attempt that is
\* no longer shown, except while its mount has yet to notice that it was cancelled.
NoGhostApplications ==
  \A e \in roots : e = Current \/ (mount[e].at = "rendered" /\ record[e[1]] = e)

\* What the page shows, what it says and what is rendered are one application.
PageIsTheApplication == PhaseTellsTheApplication /\ NoGhostApplications

\* A failed load or mount is not remembered: who retries gets the application.
RetriesSucceed == (view # NoView) ~> (phase = "ready")
=============================================================================
