---------------------------- MODULE AgentTasks ----------------------------
(***************************************************************************)
(* Tasks and files of one application version on one device (agent.rs).   *)
(*                                                                         *)
(* The Agent answers every connection on a thread of its own, next to its  *)
(* background thread.  `run', `stop', `refresh_tasks', `install' and       *)
(* `uninstall' share the database, the application directory and two maps  *)
(* of handles with a lock each.  One step here is one statement on the     *)
(* database or the disk, or one critical section; other threads, Runners   *)
(* and web UI servers move in between.                                     *)
(*                                                                         *)
(*   kind, mode  the manifest's runtime and run mode                       *)
(*   files, row  the version's directory under apps/, its database row     *)
(*   status      the rows of `tasks'; lease: the row of the task's lease   *)
(*   children    handles of Runners; servers: handles of web UI servers    *)
(*   runner      the Runner process of a task                              *)
(*   server      the thread that serves a web UI task                      *)
(*   op          where each thread is, and its locals                      *)
(*   crashes, requests  how many there were                                *)
(* Three more variables note what happened, for the properties:            *)
(*   missed      tasks whose run had read the installation but not yet     *)
(*               inserted the task when another thread looked for tasks    *)
(*   cut         tasks whose lease a crash kept from being revoked         *)
(*   stray       directory and row were parted by a crash, or by an        *)
(*               installation in the middle of an uninstallation           *)
(*                                                                         *)
(* The database does not fail and locks are not poisoned.  Development     *)
(* installations, the refresh a snapshot makes (one like that of `run') and *)
(* what happens inside an applet whose Runner was killed are left out.     *)
(***************************************************************************)
EXTENDS Naturals, FiniteSets

CONSTANTS
  Tasks,        \* bound: the tasks ever started
  Threads,
  Background,   \* the thread that starts what the control plane authorized
  NoTask,
  MaxCrashes,   \* bound
  MaxRequests   \* bound on runs, stops, installations and uninstallations

ASSUME BackgroundAssumption == Background \in Threads
ASSUME NoTaskAssumption == NoTask \notin Tasks
ASSUME TaskBoundAssumption == MaxCrashes \in Nat /\ MaxRequests \in Nat

VARIABLES kind, mode, files, row, status, lease, children, servers,
          runner, server, op, crashes, requests, missed, cut, stray

taskVars  == <<status, lease>>
handles   == <<children, servers>>
processes == <<runner, server>>
disk      == <<files, row>>
history   == <<missed, cut, stray>>
fixed     == <<kind, mode, crashes>>
vars == <<taskVars, handles, processes, disk, history, fixed, op, requests>>

Active   == {"starting", "running"}
Terminal == {"succeeded", "failed", "stopped"}
Exited   == {"succeeded", "failed"}

Idle == [at |-> "idle", task |-> NoTask, active |-> FALSE, batch |-> {}, then |-> "idle"]
At(h, place) == op[h].at = place
GoTo(h, place) == op' = [op EXCEPT ![h].at = place]
Return(h) == op' = [op EXCEPT ![h] = Idle]

\* refresh_tasks holds the lock of `children' to its end; stop holds the
\* lock of `servers' while it waits for the server's thread.
ChildrenFree == \A h \in Threads : op[h].at \notin {"record", "release"}
ServersFree  == \A h \in Threads : ~At(h, "join")

Init ==
  /\ kind \in {"process", "web"}
  /\ mode \in {"singleton", "parallel"}
  /\ files = TRUE /\ row = TRUE
  /\ status = [t \in Tasks |-> "none"]
  /\ lease = [t \in Tasks |-> "none"]
  /\ children = {} /\ servers = {}
  /\ runner = [t \in Tasks |-> "none"]
  /\ server = [t \in Tasks |-> "none"]
  /\ op = [h \in Threads |-> Idle]
  /\ crashes = 0 /\ requests = 0
  /\ missed = {} /\ cut = {} /\ stray = FALSE

Revoked(t) == [lease EXCEPT ![t] = IF @ = "none" THEN @ ELSE "gone"]
Ended(t, verdict) == [status EXCEPT ![t] = verdict]
Killed(t) == [runner EXCEPT ![t] = IF @ \in Exited THEN @ ELSE "failed"]
AnyActive == \E t \in Tasks : status[t] \in Active
\* Tasks whose run looked up the installation and has not inserted them yet.
InFlight == {op[h].task : h \in {g \in Threads : op[g].at \in {"check", "insert"}}}
\* An uninstallation has found no active task and not yet removed the row.
Uninstalling == \E h \in Threads : op[h].at \in {"find", "rename", "forget"}
\* Threads that have changed the directory and not yet the row.
Parting == {h \in Threads : op[h].at \in {"forget", "unlist", "activate"}}
-----------------------------------------------------------------------------
(* refresh_tasks, called by snapshot, by the background cycle and by run.  *)
Begin(h, place, then) ==
  /\ At(h, "idle")
  /\ op' = [op EXCEPT ![h] = [Idle EXCEPT !.at = place, !.then = then]]
  /\ UNCHANGED <<taskVars, handles, processes, disk, history, fixed>>

\* Only the background thread asks for it by itself: what a snapshot for the
\* desktop does to the tasks, a run on the same thread begins with.
Refresh(h) == Begin(h, "reap", "idle")

ReapServers(h) ==
  /\ At(h, "reap")
  /\ ServersFree
  /\ servers' = {t \in servers : server[t] # "done"}
  /\ GoTo(h, "collect")
  /\ UNCHANGED <<taskVars, children, processes, disk, history, fixed>>

\* Mutant: only Runners that succeeded are collected.
CollectSucceeded(h) ==
  /\ At(h, "collect")
  /\ ChildrenFree
  /\ op' = [op EXCEPT ![h].at = "record",
                      ![h].batch = {t \in children : runner[t] = "succeeded"}]
  /\ UNCHANGED <<taskVars, handles, processes, disk, history, fixed>>

Collect(h) ==
  /\ At(h, "collect")
  /\ ChildrenFree
  /\ op' = [op EXCEPT ![h].at = "record",
                      ![h].batch = {t \in children : runner[t] \in Exited}]
  /\ UNCHANGED <<taskVars, handles, processes, disk, history, fixed>>

Record(h, t) ==
  /\ At(h, "record")
  /\ t \in op[h].batch
  /\ children' = children \ {t}
  /\ status' = Ended(t, IF runner[t] = "succeeded" THEN "succeeded" ELSE "failed")
  /\ op' = [op EXCEPT ![h].at = "release", ![h].task = t, ![h].batch = @ \ {t}]
  /\ UNCHANGED <<lease, servers, processes, disk, history, fixed>>

Release(h) ==
  /\ At(h, "release")
  /\ lease' = Revoked(op[h].task)
  /\ op' = [op EXCEPT ![h].at = "record", ![h].task = NoTask]
  /\ UNCHANGED <<status, handles, processes, disk, history, fixed>>

Refreshed(h) ==
  /\ At(h, "record")
  /\ op[h].batch = {}
  /\ op' = [op EXCEPT ![h] = [Idle EXCEPT !.at = op[h].then]]
  /\ UNCHANGED <<taskVars, handles, processes, disk, history, fixed>>
-----------------------------------------------------------------------------
(* run_internal.  The lease row and the task row are inserted in one step: *)
(* nobody else knows the task yet.                                         *)
Run(h) ==
  /\ h = Background => kind = "process"
  /\ Begin(h, "reap", "lookup")

Fresh == {t \in Tasks : status[t] = "none" /\ \A h \in Threads : op[h].task # t}
NewTask(h, t) ==
  /\ t \in Fresh
  /\ op' = [op EXCEPT ![h].at = "check", ![h].task = t]

LookUp(h) ==
  /\ At(h, "lookup")
  /\ \/ \E t \in Tasks :
          /\ row
          /\ NewTask(h, t)
          /\ missed' = IF Uninstalling THEN missed \cup {t} ELSE missed
     \/ (~row \/ Fresh = {}) /\ Return(h) /\ UNCHANGED missed
  /\ UNCHANGED <<taskVars, handles, processes, disk, cut, stray, fixed>>

\* Mutant: the run mode is not looked at.
NeverRefused == FALSE

Refused == mode = "singleton" /\ AnyActive

CheckMode(h) ==
  /\ At(h, "check")
  /\ IF Refused THEN Return(h) ELSE GoTo(h, "insert")
  /\ missed' = missed \cup (InFlight \ {op[h].task})
  /\ UNCHANGED <<taskVars, handles, processes, disk, cut, stray, fixed>>

InsertTask(h) ==
  LET t == op[h].task
  IN  /\ At(h, "insert")
      /\ lease' = [lease EXCEPT ![t] = "live"]
      /\ status' = [status EXCEPT ![t] = IF kind = "web" THEN "running" ELSE "starting"]
      /\ GoTo(h, IF kind = "web" THEN "serve" ELSE "spawn")
      /\ UNCHANGED <<handles, processes, disk, history, fixed>>

\* The directory, the lease or the row cannot be made.
CannotInsert(h) ==
  /\ At(h, "insert")
  /\ Return(h)
  /\ UNCHANGED <<taskVars, handles, processes, disk, history, fixed>>

Spawn(h) ==
  /\ At(h, "spawn")
  /\ runner' = [runner EXCEPT ![op[h].task] = "asking"]
  /\ GoTo(h, "mark")
  /\ UNCHANGED <<taskVars, handles, server, disk, history, fixed>>

\* mark_task_running refuses a task that is no longer `starting'.
Markable(t) == status[t] = "starting"

MarkRunning(h) ==
  LET t == op[h].task
  IN  /\ At(h, "mark")
      /\ IF Markable(t)
         THEN /\ status' = Ended(t, "running")
              /\ GoTo(h, "register")
              /\ UNCHANGED runner
         ELSE /\ runner' = Killed(t)
              /\ GoTo(h, "fail")
              /\ UNCHANGED status
      /\ UNCHANGED <<lease, handles, server, disk, history, fixed>>

RegisterChild(h) ==
  /\ At(h, "register")
  /\ ChildrenFree
  /\ children' = children \cup {op[h].task}
  /\ Return(h)
  /\ UNCHANGED <<taskVars, servers, processes, disk, history, fixed>>

StartServer(h) ==
  /\ At(h, "serve")
  /\ server' = [server EXCEPT ![op[h].task] = "serving"]
  /\ GoTo(h, "registerServer")
  /\ UNCHANGED <<taskVars, handles, runner, disk, history, fixed>>

RegisterServer(h) ==
  /\ At(h, "registerServer")
  /\ ServersFree
  /\ servers' = servers \cup {op[h].task}
  /\ Return(h)
  /\ UNCHANGED <<taskVars, children, processes, disk, history, fixed>>

\* The request cannot be written, the Runner or the server not be started.
CannotStart(h) ==
  /\ op[h].at \in {"spawn", "serve"}
  /\ GoTo(h, "fail")
  /\ UNCHANGED <<taskVars, handles, processes, disk, history, fixed>>

RunFails(h) ==
  /\ At(h, "fail")
  /\ status' = Ended(op[h].task, "failed")
  /\ GoTo(h, "revoke")
  /\ UNCHANGED <<lease, handles, processes, disk, history, fixed>>

\* The last step of stop, and of a run that fails.
RevokeLeases(h) ==
  /\ At(h, "revoke")
  /\ lease' = Revoked(op[h].task)
  /\ Return(h)
  /\ UNCHANGED <<status, handles, processes, disk, history, fixed>>
-----------------------------------------------------------------------------
(* stop.                                                                   *)
Stop(h, t) ==
  /\ At(h, "idle")
  /\ status[t] # "none"
  /\ op' = [op EXCEPT ![h] = [Idle EXCEPT !.at = "takeServer", !.task = t,
                                         !.active = status[t] \in Active]]
  /\ UNCHANGED <<taskVars, handles, processes, disk, history, fixed>>

\* Mutant: the server is not told to shut down.
TakeServerQuietly(h) ==
  LET t == op[h].task
  IN  /\ At(h, "takeServer")
      /\ ServersFree
      /\ servers' = servers \ {t}
      /\ GoTo(h, IF t \in servers THEN "join" ELSE "takeChild")
      /\ UNCHANGED <<taskVars, children, processes, disk, history, fixed>>

TakeServer(h) ==
  LET t == op[h].task
  IN  /\ At(h, "takeServer")
      /\ ServersFree
      /\ servers' = servers \ {t}
      /\ IF t \in servers
         THEN /\ server' = [server EXCEPT ![t] = IF @ = "serving" THEN "done" ELSE @]
              /\ GoTo(h, "join")
         ELSE /\ GoTo(h, "takeChild")
              /\ UNCHANGED server
      /\ UNCHANGED <<taskVars, children, runner, disk, history, fixed>>

Join(h) ==
  /\ At(h, "join")
  /\ server[op[h].task] = "done"
  /\ GoTo(h, "takeChild")
  /\ UNCHANGED <<taskVars, handles, processes, disk, history, fixed>>

\* Mutant: the handle is dropped without killing the Runner.
TakeChildAlive(h) ==
  LET t == op[h].task
  IN  /\ At(h, "takeChild")
      /\ ChildrenFree
      /\ children' = children \ {t}
      /\ GoTo(h, "write")
      /\ UNCHANGED <<taskVars, servers, processes, disk, history, fixed>>

TakeChild(h) ==
  LET t == op[h].task
  IN  /\ At(h, "takeChild")
      /\ ChildrenFree
      /\ children' = children \ {t}
      /\ runner' = IF t \in children THEN Killed(t) ELSE runner
      /\ GoTo(h, "write")
      /\ UNCHANGED <<taskVars, servers, server, disk, history, fixed>>

\* Mutant: `stopped' is written over any status.
WriteStoppedAlways(h) ==
  /\ At(h, "write")
  /\ status' = Ended(op[h].task, "stopped")
  /\ GoTo(h, "revoke")
  /\ UNCHANGED <<lease, handles, processes, disk, history, fixed>>

WriteStopped(h) ==
  /\ At(h, "write")
  /\ status' = IF op[h].active THEN Ended(op[h].task, "stopped") ELSE status
  /\ GoTo(h, "revoke")
  /\ UNCHANGED <<lease, handles, processes, disk, history, fixed>>
-----------------------------------------------------------------------------
(* uninstall: the directory moves to trash/, then the row goes.            *)
Uninstall(h) ==
  /\ At(h, "idle")
  /\ ~AnyActive
  /\ missed' = missed \cup InFlight
  /\ GoTo(h, "find")
  /\ UNCHANGED <<taskVars, handles, processes, disk, cut, stray, fixed>>

Find(h) ==
  /\ At(h, "find")
  /\ IF row THEN GoTo(h, "rename") ELSE Return(h)
  /\ UNCHANGED <<taskVars, handles, processes, disk, history, fixed>>

RenameToTrash(h) ==
  /\ At(h, "rename")
  /\ \/ files /\ files' = FALSE /\ GoTo(h, "forget") /\ stray' = (stray \/ Parting # {})
     \/ UNCHANGED <<files, stray>> /\ Return(h)
  /\ UNCHANGED <<taskVars, handles, processes, row, missed, cut, fixed>>

\* Without a row to remove the directory is moved back.
RemoveInstall(h) ==
  /\ At(h, "forget")
  /\ row' = FALSE
  /\ files' = (files \/ ~row)
  /\ Return(h)
  /\ UNCHANGED <<taskVars, handles, processes, history, fixed>>

(* install_signed, by a user or by the installation sync, which first      *)
(* drops a row that has lost its directory (installation_is_present).      *)
Install(h) == Begin(h, "place", "idle")

Synchronize ==
  /\ At(Background, "idle")
  /\ row /\ ~files
  /\ GoTo(Background, "unlist")
  /\ stray' = (stray \/ Parting # {})
  /\ UNCHANGED <<taskVars, handles, processes, disk, missed, cut, fixed>>

Unlist ==
  /\ At(Background, "unlist")
  /\ row' = FALSE
  /\ GoTo(Background, "place")
  /\ UNCHANGED <<taskVars, handles, processes, files, history, fixed>>

Place(h) ==
  /\ At(h, "place")
  /\ IF files
     THEN Return(h) /\ UNCHANGED <<files, stray>>
     ELSE /\ files' = TRUE
          /\ stray' = (stray \/ Parting # {})
          /\ GoTo(h, "activate")
  /\ UNCHANGED <<taskVars, handles, processes, row, missed, cut, fixed>>

\* Mutant: a failed activation leaves the directory.
ActivateLeavingFiles(h) ==
  /\ At(h, "activate")
  /\ row' \in {TRUE, row}
  /\ Return(h)
  /\ UNCHANGED <<taskVars, handles, processes, files, history, fixed>>

ActivateInstall(h) ==
  /\ At(h, "activate")
  /\ \/ row' = TRUE /\ UNCHANGED files
     \/ files' = FALSE /\ UNCHANGED row
  /\ Return(h)
  /\ UNCHANGED <<taskVars, handles, processes, history, fixed>>
-----------------------------------------------------------------------------
(* Runners.  One asks the Agent before it starts the applet, and ends with *)
(* it.  What becomes of the applet of a killed Runner is not followed.     *)
Authorized(t) == lease[t] = "live" /\ status[t] \in Active

AuthorizeLaunch(t) ==
  /\ runner[t] = "asking"
  /\ Authorized(t)
  /\ runner' = [runner EXCEPT ![t] = "cleared"]
  /\ UNCHANGED <<taskVars, handles, server, disk, history, fixed, op>>

StartApplet(t) ==
  /\ runner[t] = "cleared"
  /\ files
  /\ runner' = [runner EXCEPT ![t] = "waiting"]
  /\ UNCHANGED <<taskVars, handles, server, disk, history, fixed, op>>

AppletEnds(t) ==
  /\ runner[t] = "waiting"
  /\ runner' = [runner EXCEPT ![t] = "succeeded"]
  /\ UNCHANGED <<taskVars, handles, server, disk, history, fixed, op>>

\* Denied, no Agent to ask, no entry to start, an applet that fails.
RunnerFails(t) ==
  /\ runner[t] \in {"asking", "cleared", "waiting"}
  /\ runner' = [runner EXCEPT ![t] = "failed"]
  /\ UNCHANGED <<taskVars, handles, server, disk, history, fixed, op>>

LeaseExpires(t) ==
  /\ lease[t] = "live"
  /\ lease' = [lease EXCEPT ![t] = "gone"]
  /\ UNCHANGED <<status, handles, processes, disk, history, fixed, op>>

(* The thread of a web UI server ends with its lease or on a socket error, *)
(* and then ends the task (finish_web_ui_task).                            *)
ServerMoves(t, from, to) ==
  /\ server[t] = from
  /\ server' = [server EXCEPT ![t] = to]
  /\ UNCHANGED <<handles, runner, disk, history, fixed, op>>

ServerEnds(t) == ServerMoves(t, "serving", "finishing") /\ UNCHANGED taskVars

ServerReadsTask(t) ==
  /\ ServerMoves(t, "finishing", IF status[t] \in Active THEN "ending" ELSE "revoking")
  /\ UNCHANGED taskVars

ServerEndsTask(t) ==
  /\ ServerMoves(t, "ending", "revoking")
  /\ \E verdict \in {"failed", "stopped"} : status' = Ended(t, verdict)
  /\ UNCHANGED lease

ServerRevokes(t) ==
  ServerMoves(t, "revoking", "done") /\ lease' = Revoked(t) /\ UNCHANGED status
-----------------------------------------------------------------------------
(* The Agent crashes and is opened again: fail_interrupted_tasks.          *)
Interrupted(t) == status[t] \in Active

\* Mutant: the leases are deleted after the tasks were failed.
RecoveredLeaseLate(t) == lease[t]

RecoveredLease(t) == IF Interrupted(t) /\ lease[t] # "none" THEN "gone" ELSE lease[t]

Crash ==
  /\ crashes < MaxCrashes
  /\ crashes' = crashes + 1
  /\ op' = [h \in Threads |-> Idle]
  /\ children' = {} /\ servers' = {}
  /\ server' = [t \in Tasks |-> IF server[t] = "none" THEN "none" ELSE "done"]
  /\ lease' = [t \in Tasks |-> RecoveredLease(t)]
  /\ status' = [t \in Tasks |-> IF Interrupted(t) THEN "failed" ELSE status[t]]
  /\ cut' = cut \cup {t \in Tasks : status[t] \in Terminal /\ lease[t] = "live"}
  /\ stray' = (stray \/ Parting # {})
  /\ UNCHANGED <<runner, disk, missed, kind, mode>>
-----------------------------------------------------------------------------
RefreshStep(h) ==
  \/ ReapServers(h) \/ Collect(h) \/ Release(h) \/ Refreshed(h)
  \/ \E t \in Tasks : Record(h, t)
RunStep(h) ==
  \/ LookUp(h) \/ CheckMode(h) \/ InsertTask(h) \/ CannotInsert(h) \/ Spawn(h) \/ MarkRunning(h)
  \/ RegisterChild(h) \/ StartServer(h) \/ RegisterServer(h) \/ CannotStart(h)
  \/ RunFails(h) \/ RevokeLeases(h)
StopStep(h) == TakeServer(h) \/ Join(h) \/ TakeChild(h) \/ WriteStopped(h)
FileStep(h) ==
  \/ Find(h) \/ RenameToTrash(h) \/ RemoveInstall(h) \/ Place(h) \/ ActivateInstall(h)
  \/ h = Background /\ Unlist
Step(h) == RefreshStep(h) \/ RunStep(h) \/ StopStep(h) \/ FileStep(h)

Asked == requests < MaxRequests /\ requests' = requests + 1
Request(h) ==
  \/ Run(h) \/ Uninstall(h) \/ Install(h)
  \/ \E t \in Tasks : Stop(h, t)
RunnerStep(t) ==
  AuthorizeLaunch(t) \/ StartApplet(t) \/ AppletEnds(t) \/ RunnerFails(t)
ServerStep(t) == ServerReadsTask(t) \/ ServerEndsTask(t) \/ ServerRevokes(t)

Next ==
  \/ (\E h \in Threads : Request(h)) /\ Asked
  \/ /\ \/ Refresh(Background) \/ \E h \in Threads : Step(h)
        \/ \E t \in Tasks : RunnerStep(t) \/ ServerEnds(t) \/ ServerStep(t) \/ LeaseExpires(t)
        \/ Synchronize
        \/ Crash
     /\ UNCHANGED requests

Spec == Init /\ [][Next]_vars

(* A thread that waits for a lock gets it: critical sections are short.    *)
(* The background loop refreshes the tasks in every cycle.                 *)
FairSpec ==
  /\ Spec
  /\ \A h \in Threads : SF_vars(Step(h) /\ UNCHANGED requests)
  /\ \A t \in Tasks : WF_vars(ServerStep(t) /\ UNCHANGED requests)
  /\ SF_vars(Refresh(Background) /\ UNCHANGED requests)
-----------------------------------------------------------------------------
(* Type invariant. *)
TypeOK ==
  /\ kind \in {"process", "web"} /\ mode \in {"singleton", "parallel"}
  /\ files \in BOOLEAN /\ row \in BOOLEAN /\ stray \in BOOLEAN
  /\ status \in [Tasks -> {"none"} \cup Active \cup Terminal]
  /\ lease \in [Tasks -> {"none", "live", "gone"}]
  /\ children \subseteq Tasks /\ servers \subseteq Tasks
  /\ runner \in [Tasks -> {"none", "asking", "cleared", "waiting"} \cup Exited]
  /\ server \in [Tasks -> {"none", "serving", "finishing", "ending", "revoking", "done"}]
  /\ op \in [Threads ->
       [at : {"idle", "reap", "collect", "record", "release", "lookup", "check", "insert",
              "spawn", "mark", "register", "serve", "registerServer", "fail", "revoke",
              "takeServer", "join", "takeChild", "write", "find", "rename", "forget",
              "place", "activate", "unlist"},
        task : Tasks \cup {NoTask}, active : BOOLEAN, batch : SUBSET children,
        then : {"idle", "lookup"}]]
  /\ crashes \in 0..MaxCrashes /\ requests \in 0..MaxRequests
  /\ missed \subseteq Tasks /\ cut \subseteq Tasks

\* Threads that work on a task.
On(t, places) == \E h \in Threads : op[h].task = t /\ op[h].at \in places

(* The authority of a task ends with it: when a task has ended and nobody  *)
(* is about to revoke its lease, the lease is gone, unless a crash came    *)
(* between the two writes (then it lasts until it expires).                *)
EndedTasksHoldNoLease ==
  \A t \in Tasks :
    status[t] \in Terminal /\ lease[t] = "live" =>
      \/ On(t, {"release", "revoke", "fail", "takeServer", "join", "takeChild", "write"})
      \/ server[t] = "revoking"
      \/ t \in cut

\* Nothing that saw the task active is under way, and no handle is left.
EndedForGood(t) ==
  /\ status[t] \in Terminal
  /\ t \notin children
  /\ ~\E h \in Threads : op[h].task = t /\ op[h].active
  /\ ~On(t, {"spawn", "mark", "register", "serve", "registerServer", "fail"})
  /\ server[t] # "ending"

(* Verdicts can be overwritten while operations overlap (a stop that read  *)
(* `running' writes `stopped' over `succeeded'), but an ended task keeps   *)
(* its verdict whatever is asked of it later.                              *)
VerdictsAreFinal ==
  [][\A t \in Tasks : EndedForGood(t) => status'[t] = status[t]]_vars

(* Two tasks of a singleton application are active together only if one    *)
(* run looked for tasks while the other was between its look-up and its    *)
(* insert; a task outlives its installation only if its run overlapped the *)
(* uninstallation in the same way.                                         *)
ChecksAreMissedOnlyInOverlap ==
  /\ mode = "singleton" =>
       \A t, u \in Tasks : t # u /\ {status[t], status[u]} \subseteq Active =>
         missed \cap {t, u} # {}
  /\ \A t \in Tasks : status[t] \in Active /\ ~row => t \in missed \/ stray

(* Directory and row come and go together, except after a crash between    *)
(* the two writes or an installation in the middle of an uninstallation.   *)
FilesMatchTheTable == Parting = {} /\ ~stray => files = row

\* What the tables say of leases and of installations is so.
TablesAreTrue == EndedTasksHoldNoLease /\ FilesMatchTheTable

(* No applet is started out of reach of stop: its Runner's handle is in    *)
(* `children', or the run is about to put it there, unless the Runner      *)
(* outlived an Agent.                                                      *)
LaunchesAreWatched ==
  [][\A t \in Tasks :
       runner[t] = "cleared" /\ runner'[t] = "waiting" =>
         \/ t \in children
         \/ On(t, {"mark", "register"})
         \/ crashes > 0]_vars

(* A Runner that has exited is recorded, although only refresh_tasks looks *)
(* at the handles and a stop may take one away.                            *)
ExitsAreRecorded ==
  \A t \in Tasks :
    t \in children /\ runner[t] \in Exited ~> status[t] \in Terminal /\ t \notin children

(* stop waits for the server's thread with the lock of `servers' held, and *)
(* that thread still ends the task: every stop returns.                    *)
StopsReturn ==
  \A h \in Threads \ {Background} : op[h].at \in {"takeServer", "join"} ~> op[h].at = "idle"

\* Whatever waits for a task to end gets there.
TasksSettle == ExitsAreRecorded /\ StopsReturn
=============================================================================
