-------------------------- MODULE AgentTaskProofs --------------------------
(***************************************************************************)
(* Proofs about AgentTasks, for any tasks, threads, crashes and requests,  *)
(* and about DeviceEnrollment, how the same Agent comes to be enrolled     *)
(* (second half).                                                          *)
(*                                                                         *)
(* The invariant AgentInv has these parts beside the types:                *)
(*   LockInv     what refresh_tasks has collected it holds under the lock  *)
(*               of `children', and those Runners have exited              *)
(*   FreshInv    nobody knows a task that has no row, but the run that is  *)
(*               about to insert it                                        *)
(*   LaunchInv   a task is launched by one thread, and what that thread is *)
(*               about to start has not been started                       *)
(*   FilesInv    one thread at a time parts the directory from the row,    *)
(*               unless it is noted in `stray'                             *)
(*   OverlapInv  of two runs past their check, one missed the other        *)
(*   RemovalInv  what is active, or about to be, while the row goes was    *)
(*               missed by the uninstallation or missed it                 *)
(*   WatchInv    a Runner at work is in `children' or about to be          *)
(* and the two invariants of the runs that it takes to prove the others.   *)
(***************************************************************************)
EXTENDS AgentTasks, DeviceEnrollment, TLAPS

\* Inside the critical section of refresh_tasks.
Critical  == {"record", "release"}
\* Places of run_internal between the look-up and the last step of a launch.
Launching == {"check", "insert", "spawn", "mark", "register", "serve", "registerServer", "fail"}
Stopping  == {"takeServer", "join", "takeChild", "write"}

\* What refresh_tasks has collected.
LockInv ==
  /\ \A h \in Threads : op[h].batch # {} => op[h].at \in Critical
  /\ \A h, g \in Threads : op[h].at \in Critical /\ op[g].at \in Critical => h = g
  /\ \A h \in Threads : \A t \in op[h].batch : runner[t] \in Exited

\* A task without a row.
FreshInv ==
  \A t \in Tasks : status[t] = "none" =>
    /\ lease[t] = "none" /\ server[t] = "none" /\ runner[t] = "none"
    /\ t \notin children /\ t \notin servers
    /\ \A h \in Threads : op[h].task = t => op[h].at \in {"check", "insert"}

\* A task with a row, until its launch is over.
LaunchInv ==
  /\ \A h \in Threads :
       op[h].at \in Launching \cup Stopping \cup {"release", "revoke"} => op[h].task \in Tasks
  /\ \A h, g \in Threads :
       /\ op[h].at \in Launching /\ op[g].at \in Launching /\ op[h].task = op[g].task
       => h = g
  /\ \A h \in Threads :
       /\ op[h].at \in {"check", "insert"} => status[op[h].task] = "none"
       /\ op[h].at = "spawn" => runner[op[h].task] = "none"
       /\ op[h].at = "serve" => server[op[h].task] = "none"
       /\ op[h].at \in {"mark", "register"} => runner[op[h].task] # "none"
  /\ \A t \in children : runner[t] # "none"

\* Directory and row while one thread is between them.
FilesInv ==
  ~stray =>
    /\ \A h, g \in Parting : h = g
    /\ \A h \in Threads :
         /\ op[h].at # "unlist"
         /\ op[h].at = "forget" => row /\ ~files
         /\ op[h].at = "activate" => files /\ ~row
    /\ Parting = {} => files = row

\* Runs of a singleton application between their check and their insert.
OverlapInv ==
  mode = "singleton" =>
    \A h \in Threads : op[h].at = "insert" =>
      /\ \A t \in Tasks : status[t] \in Active => missed \cap {op[h].task, t} # {}
      /\ \A g \in Threads : op[g].at = "insert" /\ g # h =>
           missed \cap {op[h].task, op[g].task} # {}

\* Tasks and runs while an uninstallation is under way, and after it.
RemovalInv ==
  Uninstalling \/ (~row /\ ~stray) =>
    \A t \in Tasks : t \in InFlight \/ status[t] \in Active => t \in missed

\* Runners until the Agent's first crash.
WatchInv ==
  crashes = 0 =>
    \A t \in Tasks : runner[t] \in {"asking", "cleared", "waiting"} =>
      t \in children \/ On(t, {"mark", "register"})


\* The thread records, without what ties a batch to `children'.
Places == {"idle", "reap", "collect", "record", "release", "lookup", "check", "insert",
           "spawn", "mark", "register", "serve", "registerServer", "fail", "revoke",
           "takeServer", "join", "takeChild", "write", "find", "rename", "forget",
           "place", "activate", "unlist"}
Thread == [at : Places, task : Tasks \cup {NoTask}, active : BOOLEAN,
           batch : SUBSET Tasks, then : {"idle", "lookup"}]

\* The types of all variables but op.
TypesButOp ==
  /\ kind \in {"process", "web"} /\ mode \in {"singleton", "parallel"}
  /\ files \in BOOLEAN /\ row \in BOOLEAN /\ stray \in BOOLEAN
  /\ status \in [Tasks -> {"none"} \cup Active \cup Terminal]
  /\ lease \in [Tasks -> {"none", "live", "gone"}]
  /\ children \subseteq Tasks /\ servers \subseteq Tasks
  /\ runner \in [Tasks -> {"none", "asking", "cleared", "waiting"} \cup Exited]
  /\ server \in [Tasks -> {"none", "serving", "finishing", "ending", "revoking", "done"}]
  /\ crashes \in 0..MaxCrashes /\ requests \in 0..MaxRequests
  /\ missed \subseteq Tasks /\ cut \subseteq Tasks

\* One thread has moved and the others have not.
Moved(h, place, task, active, batch) ==
  /\ op' \in [Threads -> Thread]
  /\ op'[h].at = place /\ op'[h].task = task
  /\ op'[h].active = active /\ op'[h].batch = batch
  /\ \A g \in Threads : g # h => op'[g] = op[g]

\* The type invariant, in the parts that the steps are about.
LEMMA TypesSplit ==
  TypeOK <=> /\ TypesButOp
             /\ op \in [Threads -> Thread]
             /\ \A h \in Threads : op[h].batch \subseteq children
<1>1. ASSUME TypeOK PROVE op \in [Threads -> Thread] /\ \A h \in Threads : op[h].batch \subseteq children
  BY <1>1 DEF TypeOK, Thread, Places
<1>2. ASSUME TypesButOp, op \in [Threads -> Thread], \A h \in Threads : op[h].batch \subseteq children
      PROVE  TypeOK
  BY <1>2 DEF TypesButOp, TypeOK, Thread, Places
<1> QED
  BY <1>1, <1>2 DEF TypesButOp, TypeOK

\* What the other steps use of the thread records.
LEMMA ThreadFields ==
  ASSUME op \in [Threads -> Thread]
  PROVE  \A g \in Threads : op[g].task \in Tasks \cup {NoTask} /\ op[g].batch \subseteq Tasks
  BY DEF Thread

\* A task's status stays one of the statuses, whoever ends it.
LEMMA EndedTyped ==
  ASSUME status \in [Tasks -> {"none"} \cup Active \cup Terminal], NEW t,
         NEW s \in Active \cup Terminal
  PROVE  Ended(t, s) \in [Tasks -> {"none"} \cup Active \cup Terminal]
  BY DEF Ended

\* The record of a thread that does nothing is one of the records.
LEMMA IdleIsThread == Idle \in Thread
  BY DEF Idle, Thread, Places

\* A thread that goes on keeps its locals.
LEMMA GoToMoves ==
  ASSUME op \in [Threads -> Thread], NEW h \in Threads, NEW place \in Places, GoTo(h, place)
  PROVE  Moved(h, place, op[h].task, op[h].active, op[h].batch)
<1> DEFINE x == op[h]  y == [x EXCEPT !.at = place]
<1>1. x \in Thread
  OBVIOUS
<1>2. y \in Thread /\ y.at = place /\ y.task = x.task /\ y.active = x.active /\ y.batch = x.batch
  BY <1>1 DEF Thread
<1>3. op' = [op EXCEPT ![h] = y]
  BY DEF GoTo
<1> HIDE DEF x, y
<1>4. op' \in [Threads -> Thread] /\ op'[h] = y /\ \A g \in Threads : g # h => op'[g] = op[g]
  BY <1>2, <1>3
<1> QED
  BY <1>2, <1>4 DEF Moved, x

\* A thread that returns forgets its locals.
LEMMA ReturnMoves ==
  ASSUME op \in [Threads -> Thread], NEW h \in Threads, Return(h)
  PROVE  Moved(h, "idle", NoTask, FALSE, {})
  BY IdleIsThread DEF Moved, Return, Idle


\* A thread whose record is replaced.
LEMMA ReplaceMoves ==
  ASSUME op \in [Threads -> Thread], NEW h \in Threads, NEW y \in Thread, op' = [op EXCEPT ![h] = y]
  PROVE  Moved(h, y.at, y.task, y.active, y.batch)
  BY DEF Moved

\* The record with which refresh_tasks returns to its caller.
LEMMA IdleAt ==
  ASSUME NEW place \in Places, NEW y, y = [Idle EXCEPT !.at = place]
  PROVE  y \in Thread /\ y.at = place /\ y.task = NoTask /\ y.active = FALSE /\ y.batch = {}
<1>1. Idle \in Thread
  BY IdleIsThread
<1>2. Idle.task = NoTask /\ Idle.active = FALSE /\ Idle.batch = {}
  BY DEF Idle
<1> QED
  BY <1>1, <1>2 DEF Thread, Places

\* The record with which a request begins.
Begun(place, then) == [Idle EXCEPT !.at = place, !.then = then]

LEMMA BegunIsThread ==
  ASSUME NEW place \in Places, NEW then \in {"idle", "lookup"}, NEW y, y = Begun(place, then)
  PROVE  y \in Thread /\ y.at = place /\ y.task = NoTask /\ y.active = FALSE /\ y.batch = {}
<1> DEFINE z == [Idle EXCEPT !.at = place]
<1>1. z \in Thread /\ z.at = place /\ z.task = NoTask /\ z.active = FALSE /\ z.batch = {}
  BY IdleAt
<1>2. y = [z EXCEPT !.then = then]
  BY DEF Begun
<1> HIDE DEF z
<1>3. y \in Thread /\ y.at = z.at /\ y.task = z.task /\ y.active = z.active /\ y.batch = z.batch
  BY <1>1, <1>2 DEF Thread
<1> QED
  BY <1>1, <1>3

\* A request begins without locals.
LEMMA BeginMoves ==
  ASSUME op \in [Threads -> Thread], NEW h \in Threads, NEW place \in Places,
         NEW then \in {"idle", "lookup"}, Begin(h, place, then)
  PROVE  Moved(h, place, NoTask, FALSE, {})
<1> DEFINE y == Begun(place, then)
<1>1. op' = [op EXCEPT ![h] = y]
  BY DEF Begin, Begun
<1> HIDE DEF y
<1>2. y \in Thread /\ y.at = place /\ y.task = NoTask /\ y.active = FALSE /\ y.batch = {}
  BY BegunIsThread DEF y
<1>3. Moved(h, y.at, y.task, y.active, y.batch)
  BY <1>1, <1>2, ReplaceMoves
<1> QED
  BY <1>2, <1>3

\* refresh_tasks returns, or goes on in the run that called it.
LEMMA RefreshedMoves ==
  ASSUME op \in [Threads -> Thread], NEW h \in Threads, Refreshed(h)
  PROVE  \/ Moved(h, "idle", NoTask, FALSE, {})
         \/ Moved(h, "lookup", NoTask, FALSE, {})
<1> DEFINE p == op[h].then  y == [Idle EXCEPT !.at = p]
<1>1. p \in {"idle", "lookup"} /\ p \in Places
  BY DEF Thread, Places
<1>3. op' = [op EXCEPT ![h] = y]
  BY DEF Refreshed
<1> HIDE DEF p
<1>2. y \in Thread /\ y.at = p /\ y.task = NoTask /\ y.active = FALSE /\ y.batch = {}
  BY <1>1, IdleAt
<1> HIDE DEF y
<1>4. Moved(h, y.at, y.task, y.active, y.batch)
  BY <1>2, <1>3, ReplaceMoves
<1> QED
  BY <1>1, <1>2, <1>4

\* stop begins with the task and what it has read of it.
LEMMA StopMoves ==
  ASSUME op \in [Threads -> Thread], NEW h \in Threads, NEW t \in Tasks, Stop(h, t)
  PROVE  Moved(h, "takeServer", t, status[t] \in Active, {})
<1> DEFINE y == [Idle EXCEPT !.at = "takeServer", !.task = t, !.active = status[t] \in Active]
<1>2. op' = [op EXCEPT ![h] = y]
  BY DEF Stop
<1> HIDE DEF y
<1>1. y \in Thread /\ y.at = "takeServer" /\ y.task = t /\ y.active = (status[t] \in Active) /\ y.batch = {}
  <2> DEFINE b == status[t] \in Active
  <2>2. b \in BOOLEAN
    OBVIOUS
  <2>0. y = [Idle EXCEPT !.at = "takeServer", !.task = t, !.active = b]
    BY DEF y
  <2> HIDE DEF b
  <2>1. y = [at |-> "takeServer", task |-> t, active |-> b, batch |-> {}, then |-> "idle"]
    BY <2>0, <2>2 DEF Idle
  <2>3. y = [at |-> "takeServer", task |-> t, active |-> b, batch |-> {}, then |-> "idle"]
    BY <2>1
  <2>4. y \in Thread
    BY <2>2, <2>3 DEF Thread, Places
  <2>5. y.at = "takeServer" /\ y.task = t /\ y.batch = {}
    BY <2>3
  <2>6. y.active = b
    BY <2>3, Zenon
  <2> QED
    BY <2>4, <2>5, <2>6 DEF b
<1>3. Moved(h, y.at, y.task, y.active, y.batch)
  BY <1>1, <1>2, ReplaceMoves
<1> QED
  BY <1>1, <1>3

\* refresh_tasks has collected the Runners that exited.
LEMMA CollectMoves ==
  ASSUME op \in [Threads -> Thread], NEW h \in Threads, Collect(h), children \subseteq Tasks
  PROVE  Moved(h, "record", op[h].task, op[h].active, {t \in children : runner[t] \in Exited})
<1> DEFINE x == op[h]  b == {t \in children : runner[t] \in Exited}
           y == [x EXCEPT !.at = "record", !.batch = b]
<1>1. x \in Thread /\ b \subseteq Tasks
  OBVIOUS
<1>3. op' = [op EXCEPT ![h] = y]
  BY DEF Collect
<1> HIDE DEF b
<1>2. y \in Thread /\ y.at = "record" /\ y.task = x.task /\ y.active = x.active /\ y.batch = b
  BY <1>1 DEF Thread, Places
<1> HIDE DEF x, y
<1>4. Moved(h, y.at, y.task, y.active, y.batch)
  BY <1>2, <1>3, ReplaceMoves
<1> QED
  BY <1>2, <1>4 DEF x, b

\* refresh_tasks takes one task of its batch.
LEMMA RecordMoves ==
  ASSUME op \in [Threads -> Thread], NEW h \in Threads, NEW t \in Tasks, Record(h, t)
  PROVE  Moved(h, "release", t, op[h].active, op[h].batch \ {t})
<1> DEFINE x == op[h]  y == [x EXCEPT !.at = "release", !.task = t, !.batch = @ \ {t}]
<1>1. x \in Thread
  OBVIOUS
<1>2. y \in Thread /\ y.at = "release" /\ y.task = t /\ y.active = x.active /\ y.batch = x.batch \ {t}
  BY <1>1 DEF Thread, Places
<1>3. op' = [op EXCEPT ![h] = y]
  BY DEF Record
<1> HIDE DEF x, y
<1>4. Moved(h, y.at, y.task, y.active, y.batch)
  BY <1>2, <1>3, ReplaceMoves
<1> QED
  BY <1>2, <1>4 DEF x

\* A thread goes on with another task.
LEMMA TaskMoves ==
  ASSUME op \in [Threads -> Thread], NEW h \in Threads, NEW place \in Places,
         NEW t \in Tasks \cup {NoTask},
         op' = [op EXCEPT ![h].at = place, ![h].task = t]
  PROVE  Moved(h, place, t, op[h].active, op[h].batch)
<1> DEFINE x == op[h]  y == [x EXCEPT !.at = place, !.task = t]
<1>1. x \in Thread
  OBVIOUS
<1>2. y \in Thread /\ y.at = place /\ y.task = t /\ y.active = x.active /\ y.batch = x.batch
  BY <1>1 DEF Thread
<1>3. op' = [op EXCEPT ![h] = y]
  OBVIOUS
<1> HIDE DEF x, y
<1>4. Moved(h, y.at, y.task, y.active, y.batch)
  BY <1>2, <1>3, ReplaceMoves
<1> QED
  BY <1>2, <1>4 DEF x


(* The inductive invariant. *)
Types ==
  /\ TypesButOp
  /\ op \in [Threads -> Thread]
  /\ \A h \in Threads : op[h].batch \subseteq children

AgentInv ==
  /\ Types
  /\ LockInv
  /\ FreshInv
  /\ LaunchInv
  /\ EndedTasksHoldNoLease
  /\ FilesInv
  /\ OverlapInv
  /\ RemovalInv
  /\ ChecksAreMissedOnlyInOverlap
  /\ WatchInv

\* refresh_tasks drops the handles of servers that are done.
LEMMA ReapServersKeeps ==
  ASSUME AgentInv, requests' \in 0..MaxRequests,
         NEW h \in Threads, ReapServers(h)
  PROVE  AgentInv'
<1> USE DEF AgentInv, Types, TypesButOp
<1>1. Moved(h, "collect", op[h].task, op[h].active, op[h].batch)
  BY GoToMoves, ReturnMoves DEF ReapServers, Places
<1> USE DEF ReapServers, At, Moved
<1> USE DEF taskVars, handles, processes, disk, history, fixed, Idle
<1>2. Types'
  <2>1. (op \in [Threads -> Thread])'
    BY <1>1
  <2>2. TypesButOp'
    BY NoTaskAssumption, <1>1, ThreadFields DEF Active, Terminal, Exited
  <2>3. (\A g \in Threads : op[g].batch \subseteq children)'
    BY NoTaskAssumption, <1>1 DEF LockInv, LaunchInv, Launching, ChildrenFree, Critical
  <2> QED
    BY <2>1, <2>2, <2>3
<1>3. LockInv'
  <2>1. ASSUME NEW g \in Threads, op'[g].batch # {} PROVE op'[g].at \in Critical
    BY <1>1, <2>1 DEF LockInv, Critical
  <2>2. ASSUME NEW g \in Threads, NEW k \in Threads, op'[g].at \in Critical, op'[k].at \in Critical PROVE g = k
    BY <1>1, <2>2 DEF LockInv, Critical, ChildrenFree
  <2>3. ASSUME NEW g \in Threads, NEW u \in op'[g].batch PROVE runner'[u] \in Exited
    BY <1>1, <2>3 DEF LockInv, Critical, Exited
  <2> QED
    BY <2>1, <2>2, <2>3 DEF LockInv
<1>4. FreshInv'
  BY NoTaskAssumption, <1>1 DEF FreshInv, LaunchInv, Launching, Stopping,
     Active, Terminal, Exited, Ended, Fresh
<1>5. LaunchInv'
  BY NoTaskAssumption, <1>1 DEF LaunchInv, FreshInv, Launching, Stopping,
     Active, Terminal, Exited, Ended, Fresh
<1>6. EndedTasksHoldNoLease'
  BY NoTaskAssumption, <1>1 DEF EndedTasksHoldNoLease, LaunchInv, Launching,
     Stopping, On, Active, Terminal, Ended
<1>7. FilesInv'
  BY NoTaskAssumption, <1>1 DEF FilesInv, Parting
<1>8. OverlapInv'
  BY NoTaskAssumption, <1>1 DEF OverlapInv, LaunchInv, InFlight, Launching,
     AnyActive, Active, Ended, Terminal
<1>9. RemovalInv'
  BY NoTaskAssumption, <1>1 DEF RemovalInv, FilesInv, Uninstalling, InFlight,
     LaunchInv, Launching, AnyActive, Active, Ended, Terminal
<1>10. ChecksAreMissedOnlyInOverlap'
  BY NoTaskAssumption, <1>1 DEF ChecksAreMissedOnlyInOverlap, OverlapInv,
     RemovalInv, FilesInv, Uninstalling, InFlight, LaunchInv, Launching,
     AnyActive, Active, Ended, Terminal
<1>11. WatchInv'
  BY NoTaskAssumption, <1>1 DEF WatchInv, LockInv, LaunchInv, On, Launching,
     Exited, ChildrenFree
<1> QED
  BY <1>2, <1>3, <1>4, <1>5, <1>6, <1>7, <1>8, <1>9, <1>10, <1>11

\* refresh_tasks takes the lock, which nobody else holds.
LEMMA CollectKeeps ==
  ASSUME AgentInv, requests' \in 0..MaxRequests,
         NEW h \in Threads, Collect(h)
  PROVE  AgentInv'
<1> USE DEF AgentInv, Types, TypesButOp
<1>1. Moved(h, "record", op[h].task, op[h].active, {u \in children : runner[u] \in Exited})
  BY CollectMoves
<1> USE DEF Collect, At, Moved
<1> USE DEF taskVars, handles, processes, disk, history, fixed, Idle
<1>2. Types'
  <2>1. (op \in [Threads -> Thread])'
    BY <1>1
  <2>2. TypesButOp'
    BY NoTaskAssumption, <1>1, ThreadFields DEF Active, Terminal, Exited
  <2>3. (\A g \in Threads : op[g].batch \subseteq children)'
    BY NoTaskAssumption, <1>1 DEF LockInv, LaunchInv, Launching, ChildrenFree, Critical
  <2> QED
    BY <2>1, <2>2, <2>3
<1>3. LockInv'
  <2>1. ASSUME NEW g \in Threads, op'[g].batch # {} PROVE op'[g].at \in Critical
    BY <1>1, <2>1 DEF LockInv, Critical
  <2>2. ASSUME NEW g \in Threads, NEW k \in Threads, op'[g].at \in Critical, op'[k].at \in Critical PROVE g = k
    BY <1>1, <2>2 DEF LockInv, Critical, ChildrenFree
  <2>3. ASSUME NEW g \in Threads, NEW u \in op'[g].batch PROVE runner'[u] \in Exited
    BY <1>1, <2>3 DEF LockInv, Critical, Exited
  <2> QED
    BY <2>1, <2>2, <2>3 DEF LockInv
<1>4. FreshInv'
  BY NoTaskAssumption, <1>1 DEF FreshInv, LaunchInv, Launching, Stopping,
     Active, Terminal, Exited, Ended, Fresh
<1>5. LaunchInv'
  BY NoTaskAssumption, <1>1 DEF LaunchInv, FreshInv, Launching, Stopping,
     Active, Terminal, Exited, Ended, Fresh
<1>6. EndedTasksHoldNoLease'
  BY NoTaskAssumption, <1>1 DEF EndedTasksHoldNoLease, LaunchInv, Launching,
     Stopping, On, Active, Terminal, Ended
<1>7. FilesInv'
  BY NoTaskAssumption, <1>1 DEF FilesInv, Parting
<1>8. OverlapInv'
  BY NoTaskAssumption, <1>1 DEF OverlapInv, LaunchInv, InFlight, Launching,
     AnyActive, Active, Ended, Terminal
<1>9. RemovalInv'
  BY NoTaskAssumption, <1>1 DEF RemovalInv, FilesInv, Uninstalling, InFlight,
     LaunchInv, Launching, AnyActive, Active, Ended, Terminal
<1>10. ChecksAreMissedOnlyInOverlap'
  BY NoTaskAssumption, <1>1 DEF ChecksAreMissedOnlyInOverlap, OverlapInv,
     RemovalInv, FilesInv, Uninstalling, InFlight, LaunchInv, Launching,
     AnyActive, Active, Ended, Terminal
<1>11. WatchInv'
  BY NoTaskAssumption, <1>1 DEF WatchInv, LockInv, LaunchInv, On, Launching,
     Exited, ChildrenFree
<1> QED
  BY <1>2, <1>3, <1>4, <1>5, <1>6, <1>7, <1>8, <1>9, <1>10, <1>11

\* refresh_tasks revokes the lease of the task it has recorded.
LEMMA ReleaseKeeps ==
  ASSUME AgentInv, requests' \in 0..MaxRequests,
         NEW h \in Threads, Release(h)
  PROVE  AgentInv'
<1> USE DEF AgentInv, Types, TypesButOp
<1>1. Moved(h, "record", NoTask, op[h].active, op[h].batch)
  BY TaskMoves DEF Release, Places
<1> USE DEF Release, Revoked, At, Moved
<1> USE DEF taskVars, handles, processes, disk, history, fixed, Idle
<1>2. Types'
  <2>1. (op \in [Threads -> Thread])'
    BY <1>1
  <2>2. TypesButOp'
    BY NoTaskAssumption, <1>1, ThreadFields DEF Active, Terminal, Exited
  <2>3. (\A g \in Threads : op[g].batch \subseteq children)'
    BY NoTaskAssumption, <1>1 DEF LockInv, LaunchInv, Launching, ChildrenFree, Critical
  <2> QED
    BY <2>1, <2>2, <2>3
<1>3. LockInv'
  BY NoTaskAssumption, <1>1, ThreadFields DEF LockInv, LaunchInv, ChildrenFree, Critical, Exited
<1>4. FreshInv'
  BY NoTaskAssumption, <1>1 DEF FreshInv, LaunchInv, Launching, Stopping,
     Active, Terminal, Exited, Ended, Fresh
<1>5. LaunchInv'
  BY NoTaskAssumption, <1>1 DEF LaunchInv, FreshInv, Launching, Stopping,
     Active, Terminal, Exited, Ended, Fresh
<1>6. EndedTasksHoldNoLease'
  BY NoTaskAssumption, <1>1 DEF EndedTasksHoldNoLease, LaunchInv, Launching,
     Stopping, On, Active, Terminal, Ended
<1>7. FilesInv'
  BY NoTaskAssumption, <1>1 DEF FilesInv, Parting
<1>8. OverlapInv'
  BY NoTaskAssumption, <1>1 DEF OverlapInv, LaunchInv, InFlight, Launching,
     AnyActive, Active, Ended, Terminal
<1>9. RemovalInv'
  BY NoTaskAssumption, <1>1 DEF RemovalInv, FilesInv, Uninstalling, InFlight,
     LaunchInv, Launching, AnyActive, Active, Ended, Terminal
<1>10. ChecksAreMissedOnlyInOverlap'
  BY NoTaskAssumption, <1>1 DEF ChecksAreMissedOnlyInOverlap, OverlapInv,
     RemovalInv, FilesInv, Uninstalling, InFlight, LaunchInv, Launching,
     AnyActive, Active, Ended, Terminal
<1>11. WatchInv'
  BY NoTaskAssumption, <1>1 DEF WatchInv, LockInv, LaunchInv, On, Launching,
     Exited, ChildrenFree
<1> QED
  BY <1>2, <1>3, <1>4, <1>5, <1>6, <1>7, <1>8, <1>9, <1>10, <1>11

\* A run takes a task that nobody knows, and misses an uninstallation under way.
LEMMA LookUpKeeps ==
  ASSUME AgentInv, requests' \in 0..MaxRequests,
         NEW h \in Threads, LookUp(h)
  PROVE  AgentInv'
<1> USE DEF AgentInv, Types, TypesButOp
<1>1. \/ Moved(h, "idle", NoTask, FALSE, {}) /\ UNCHANGED missed
      \/ \E t \in Tasks :
              /\ row /\ t \in Fresh
              /\ missed' = IF Uninstalling THEN missed \cup {t} ELSE missed
              /\ Moved(h, "check", t, op[h].active, op[h].batch)
  <2>1. ASSUME NEW t \in Tasks, NewTask(h, t)
        PROVE  t \in Fresh /\ Moved(h, "check", t, op[h].active, op[h].batch)
    BY <2>1, TaskMoves DEF NewTask, Places
  <2> QED
    BY <2>1, ReturnMoves DEF LookUp
<1> USE DEF LookUp, NewTask, Fresh, At, Moved
<1> USE DEF taskVars, handles, processes, disk, history, fixed, Idle
<1>2. Types'
  <2>1. (op \in [Threads -> Thread])'
    BY <1>1
  <2>2. TypesButOp'
    BY NoTaskAssumption, <1>1, ThreadFields DEF Active, Terminal, Exited
  <2>3. (\A g \in Threads : op[g].batch \subseteq children)'
    BY NoTaskAssumption, <1>1 DEF LockInv, LaunchInv, Launching, ChildrenFree, Critical
  <2> QED
    BY <2>1, <2>2, <2>3
<1>3. LockInv'
  BY NoTaskAssumption, <1>1, ThreadFields DEF LockInv, LaunchInv, ChildrenFree, Critical, Exited
<1>4. FreshInv'
  BY NoTaskAssumption, <1>1 DEF FreshInv, LaunchInv, Launching, Stopping,
     Active, Terminal, Exited, Ended, Fresh
<1>5. LaunchInv'
  BY NoTaskAssumption, <1>1 DEF LaunchInv, FreshInv, Launching, Stopping,
     Active, Terminal, Exited, Ended, Fresh
<1>6. EndedTasksHoldNoLease'
  BY NoTaskAssumption, <1>1 DEF EndedTasksHoldNoLease, LaunchInv, Launching,
     Stopping, On, Active, Terminal, Ended
<1>7. FilesInv'
  BY NoTaskAssumption, <1>1 DEF FilesInv, Parting
<1>8. OverlapInv'
  BY NoTaskAssumption, <1>1 DEF OverlapInv, LaunchInv, InFlight, Launching,
     AnyActive, Active, Ended, Terminal
<1>9. RemovalInv'
  BY NoTaskAssumption, <1>1 DEF RemovalInv, FilesInv, Uninstalling, InFlight,
     LaunchInv, Launching, AnyActive, Active, Ended, Terminal
<1>10. ChecksAreMissedOnlyInOverlap'
  BY NoTaskAssumption, <1>1 DEF ChecksAreMissedOnlyInOverlap, OverlapInv,
     RemovalInv, FilesInv, Uninstalling, InFlight, LaunchInv, Launching,
     AnyActive, Active, Ended, Terminal
<1>11. WatchInv'
  BY NoTaskAssumption, <1>1 DEF WatchInv, LockInv, LaunchInv, On, Launching,
     Exited, ChildrenFree
<1> QED
  BY <1>2, <1>3, <1>4, <1>5, <1>6, <1>7, <1>8, <1>9, <1>10, <1>11

\* A run that finds no active task has missed those in flight.
LEMMA CheckModeKeeps ==
  ASSUME AgentInv, requests' \in 0..MaxRequests,
         NEW h \in Threads, CheckMode(h)
  PROVE  AgentInv'
<1> USE DEF AgentInv, Types, TypesButOp
<1>1. /\ Refused => Moved(h, "idle", NoTask, FALSE, {})
      /\ ~Refused => Moved(h, "insert", op[h].task, op[h].active, op[h].batch)
  <2>1. ASSUME Refused PROVE Moved(h, "idle", NoTask, FALSE, {})
    BY <2>1, ReturnMoves DEF CheckMode, Places
  <2>2. ASSUME ~Refused PROVE Moved(h, "insert", op[h].task, op[h].active, op[h].batch)
    BY <2>2, GoToMoves DEF CheckMode, Places
  <2> QED
    BY <2>1, <2>2
<1> USE DEF CheckMode, Refused, At, Moved
<1> USE DEF taskVars, handles, processes, disk, history, fixed, Idle
<1>2. Types'
  <2>1. InFlight \subseteq Tasks
    BY DEF InFlight, LaunchInv, Launching
  <2> QED
    BY <1>1, <2>1 DEF Types, Places
<1>3. LockInv'
  BY NoTaskAssumption, <1>1, ThreadFields DEF LockInv, LaunchInv, ChildrenFree, Critical, Exited
<1>4. FreshInv'
  BY NoTaskAssumption, <1>1 DEF FreshInv, LaunchInv, Launching, Stopping,
     Active, Terminal, Exited, Ended, Fresh
<1>5. LaunchInv'
  BY NoTaskAssumption, <1>1 DEF LaunchInv, FreshInv, Launching, Stopping,
     Active, Terminal, Exited, Ended, Fresh
<1>6. EndedTasksHoldNoLease'
  BY NoTaskAssumption, <1>1 DEF EndedTasksHoldNoLease, LaunchInv, Launching,
     Stopping, On, Active, Terminal, Ended
<1>7. FilesInv'
  BY NoTaskAssumption, <1>1 DEF FilesInv, Parting
<1>8. OverlapInv'
  <2> SUFFICES ASSUME mode = "singleton", NEW k \in Threads, op'[k].at = "insert"
               PROVE  /\ \A t \in Tasks : status[t] \in Active => missed' \cap {op'[k].task, t} # {}
                      /\ \A g \in Threads : op'[g].at = "insert" /\ g # k =>
                           missed' \cap {op'[k].task, op'[g].task} # {}
    BY DEF OverlapInv
  <2>1. CASE Refused
    BY <1>1, <2>1 DEF OverlapInv
  <2>2. CASE ~Refused
    <3>1. \A t \in Tasks : status[t] \notin Active
      BY <2>2 DEF Refused, AnyActive
    <3>2. \A g \in Threads : op[g].at = "insert" /\ g # h => op[g].task \in missed'
      BY DEF InFlight, LaunchInv, Launching
    <3> QED
      BY <1>1, <2>2, <3>1, <3>2
  <2> QED
    BY <2>1, <2>2
<1>9. RemovalInv'
  BY NoTaskAssumption, <1>1 DEF RemovalInv, FilesInv, Uninstalling, InFlight,
     LaunchInv, Launching, AnyActive, Active, Ended, Terminal
<1>10. ChecksAreMissedOnlyInOverlap'
  BY NoTaskAssumption, <1>1 DEF ChecksAreMissedOnlyInOverlap, OverlapInv,
     RemovalInv, FilesInv, Uninstalling, InFlight, LaunchInv, Launching,
     AnyActive, Active, Ended, Terminal
<1>11. WatchInv'
  BY NoTaskAssumption, <1>1 DEF WatchInv, LockInv, LaunchInv, On, Launching,
     Exited, ChildrenFree
<1> QED
  BY <1>2, <1>3, <1>4, <1>5, <1>6, <1>7, <1>8, <1>9, <1>10, <1>11

\* An inserted task is alone, or one of the two was missed.
LEMMA InsertTaskKeeps ==
  ASSUME AgentInv, requests' \in 0..MaxRequests,
         NEW h \in Threads, InsertTask(h)
  PROVE  AgentInv'
<1> USE DEF AgentInv, Types, TypesButOp
<1>1. /\ kind = "web" => Moved(h, "serve", op[h].task, op[h].active, op[h].batch)
      /\ kind # "web" => Moved(h, "spawn", op[h].task, op[h].active, op[h].batch)
  <2>1. ASSUME kind = "web" PROVE Moved(h, "serve", op[h].task, op[h].active, op[h].batch)
    BY <2>1, GoToMoves DEF InsertTask, Places
  <2>2. ASSUME kind # "web" PROVE Moved(h, "spawn", op[h].task, op[h].active, op[h].batch)
    BY <2>2, GoToMoves DEF InsertTask, Places
  <2> QED
    BY <2>1, <2>2
<1> USE DEF InsertTask, At, Moved
<1> USE DEF taskVars, handles, processes, disk, history, fixed, Idle
<1>2. Types'
  <2>1. (op \in [Threads -> Thread])'
    BY <1>1
  <2>2. TypesButOp'
    BY NoTaskAssumption, <1>1, ThreadFields DEF Active, Terminal, Exited
  <2>3. (\A g \in Threads : op[g].batch \subseteq children)'
    BY NoTaskAssumption, <1>1 DEF LockInv, LaunchInv, Launching, ChildrenFree, Critical
  <2> QED
    BY <2>1, <2>2, <2>3
<1>3. LockInv'
  BY NoTaskAssumption, <1>1, ThreadFields DEF LockInv, LaunchInv, ChildrenFree, Critical, Exited
<1>4. FreshInv'
  BY NoTaskAssumption, <1>1 DEF FreshInv, LaunchInv, Launching, Stopping,
     Active, Terminal, Exited, Ended, Fresh
<1>5. LaunchInv'
  BY NoTaskAssumption, <1>1 DEF LaunchInv, FreshInv, Launching, Stopping,
     Active, Terminal, Exited, Ended, Fresh
<1>6. EndedTasksHoldNoLease'
  BY NoTaskAssumption, <1>1 DEF EndedTasksHoldNoLease, LaunchInv, Launching,
     Stopping, On, Active, Terminal, Ended
<1>7. FilesInv'
  BY NoTaskAssumption, <1>1 DEF FilesInv, Parting
<1>8. OverlapInv'
  BY NoTaskAssumption, <1>1 DEF OverlapInv, LaunchInv, InFlight, Launching,
     AnyActive, Active, Ended, Terminal
<1>9. RemovalInv'
  BY NoTaskAssumption, <1>1 DEF RemovalInv, FilesInv, Uninstalling, InFlight,
     LaunchInv, Launching, AnyActive, Active, Ended, Terminal
<1>10. ChecksAreMissedOnlyInOverlap'
  BY NoTaskAssumption, <1>1 DEF ChecksAreMissedOnlyInOverlap, OverlapInv,
     RemovalInv, FilesInv, Uninstalling, InFlight, LaunchInv, Launching,
     AnyActive, Active, Ended, Terminal
<1>11. WatchInv'
  BY NoTaskAssumption, <1>1 DEF WatchInv, LockInv, LaunchInv, On, Launching,
     Exited, ChildrenFree
<1> QED
  BY <1>2, <1>3, <1>4, <1>5, <1>6, <1>7, <1>8, <1>9, <1>10, <1>11

\* A Runner is started for a task that has none.
LEMMA SpawnKeeps ==
  ASSUME AgentInv, requests' \in 0..MaxRequests,
         NEW h \in Threads, Spawn(h)
  PROVE  AgentInv'
<1> USE DEF AgentInv, Types, TypesButOp
<1>1. Moved(h, "mark", op[h].task, op[h].active, op[h].batch)
  BY GoToMoves, ReturnMoves DEF Spawn, Places
<1> USE DEF Spawn, At, Moved
<1> USE DEF taskVars, handles, processes, disk, history, fixed, Idle
<1>2. Types'
  <2>1. (op \in [Threads -> Thread])'
    BY <1>1
  <2>2. TypesButOp'
    BY NoTaskAssumption, <1>1, ThreadFields DEF Active, Terminal, Exited
  <2>3. (\A g \in Threads : op[g].batch \subseteq children)'
    BY NoTaskAssumption, <1>1 DEF LockInv, LaunchInv, Launching, ChildrenFree, Critical
  <2> QED
    BY <2>1, <2>2, <2>3
<1>3. LockInv'
  BY NoTaskAssumption, <1>1, ThreadFields DEF LockInv, LaunchInv, ChildrenFree, Critical, Exited
<1>4. FreshInv'
  BY NoTaskAssumption, <1>1 DEF FreshInv, LaunchInv, Launching, Stopping,
     Active, Terminal, Exited, Ended, Fresh
<1>5. LaunchInv'
  BY NoTaskAssumption, <1>1 DEF LaunchInv, FreshInv, Launching, Stopping,
     Active, Terminal, Exited, Ended, Fresh
<1>6. EndedTasksHoldNoLease'
  BY NoTaskAssumption, <1>1 DEF EndedTasksHoldNoLease, LaunchInv, Launching,
     Stopping, On, Active, Terminal, Ended
<1>7. FilesInv'
  BY NoTaskAssumption, <1>1 DEF FilesInv, Parting
<1>8. OverlapInv'
  BY NoTaskAssumption, <1>1 DEF OverlapInv, LaunchInv, InFlight, Launching,
     AnyActive, Active, Ended, Terminal
<1>9. RemovalInv'
  BY NoTaskAssumption, <1>1 DEF RemovalInv, FilesInv, Uninstalling, InFlight,
     LaunchInv, Launching, AnyActive, Active, Ended, Terminal
<1>10. ChecksAreMissedOnlyInOverlap'
  BY NoTaskAssumption, <1>1 DEF ChecksAreMissedOnlyInOverlap, OverlapInv,
     RemovalInv, FilesInv, Uninstalling, InFlight, LaunchInv, Launching,
     AnyActive, Active, Ended, Terminal
<1>11. WatchInv'
  BY NoTaskAssumption, <1>1 DEF WatchInv, LockInv, LaunchInv, On, Launching,
     Exited, ChildrenFree
<1> QED
  BY <1>2, <1>3, <1>4, <1>5, <1>6, <1>7, <1>8, <1>9, <1>10, <1>11

\* The task is marked as running, or its Runner killed.
LEMMA MarkRunningKeeps ==
  ASSUME AgentInv, requests' \in 0..MaxRequests,
         NEW h \in Threads, MarkRunning(h)
  PROVE  AgentInv'
<1> USE DEF AgentInv, Types, TypesButOp
<1>1. /\ Markable(op[h].task) => Moved(h, "register", op[h].task, op[h].active, op[h].batch)
      /\ ~Markable(op[h].task) => Moved(h, "fail", op[h].task, op[h].active, op[h].batch)
  <2>1. ASSUME Markable(op[h].task) PROVE Moved(h, "register", op[h].task, op[h].active, op[h].batch)
    BY <2>1, GoToMoves DEF MarkRunning, Places
  <2>2. ASSUME ~Markable(op[h].task) PROVE Moved(h, "fail", op[h].task, op[h].active, op[h].batch)
    BY <2>2, GoToMoves DEF MarkRunning, Places
  <2> QED
    BY <2>1, <2>2
<1> USE DEF MarkRunning, Killed, Markable, At, Moved
<1> USE DEF taskVars, handles, processes, disk, history, fixed, Idle
<1>2. Types'
  <2>1. (op \in [Threads -> Thread])'
    BY <1>1
  <2>2. TypesButOp'
    BY NoTaskAssumption, <1>1, ThreadFields, EndedTyped DEF Active, Terminal, Exited
  <2>3. (\A g \in Threads : op[g].batch \subseteq children)'
    BY NoTaskAssumption, <1>1 DEF LockInv, LaunchInv, Launching, ChildrenFree, Critical
  <2> QED
    BY <2>1, <2>2, <2>3
<1>3. LockInv'
  BY NoTaskAssumption, <1>1, ThreadFields DEF LockInv, LaunchInv, ChildrenFree, Critical, Exited
<1>4. FreshInv'
  BY NoTaskAssumption, <1>1 DEF FreshInv, LaunchInv, Launching, Stopping,
     Active, Terminal, Exited, Ended, Fresh
<1>5. LaunchInv'
  BY NoTaskAssumption, <1>1 DEF LaunchInv, FreshInv, Launching, Stopping,
     Active, Terminal, Exited, Ended, Fresh
<1>6. EndedTasksHoldNoLease'
  BY NoTaskAssumption, <1>1 DEF EndedTasksHoldNoLease, LaunchInv, Launching,
     Stopping, On, Active, Terminal, Ended
<1>7. FilesInv'
  BY NoTaskAssumption, <1>1 DEF FilesInv, Parting
<1>8. OverlapInv'
  BY NoTaskAssumption, <1>1 DEF OverlapInv, LaunchInv, InFlight, Launching,
     AnyActive, Active, Ended, Terminal
<1>9. RemovalInv'
  BY NoTaskAssumption, <1>1 DEF RemovalInv, FilesInv, Uninstalling, InFlight,
     LaunchInv, Launching, AnyActive, Active, Ended, Terminal
<1>10. ChecksAreMissedOnlyInOverlap'
  BY NoTaskAssumption, <1>1 DEF ChecksAreMissedOnlyInOverlap, OverlapInv,
     RemovalInv, FilesInv, Uninstalling, InFlight, LaunchInv, Launching,
     AnyActive, Active, Ended, Terminal
<1>11. WatchInv'
  BY NoTaskAssumption, <1>1 DEF WatchInv, LockInv, LaunchInv, On, Launching,
     Exited, ChildrenFree
<1> QED
  BY <1>2, <1>3, <1>4, <1>5, <1>6, <1>7, <1>8, <1>9, <1>10, <1>11

\* The Runner's handle is put into `children'.
LEMMA RegisterChildKeeps ==
  ASSUME AgentInv, requests' \in 0..MaxRequests,
         NEW h \in Threads, RegisterChild(h)
  PROVE  AgentInv'
<1> USE DEF AgentInv, Types, TypesButOp
<1>1. Moved(h, "idle", NoTask, FALSE, {})
  BY GoToMoves, ReturnMoves DEF RegisterChild, Places
<1> USE DEF RegisterChild, At, Moved
<1> USE DEF taskVars, handles, processes, disk, history, fixed, Idle
<1>2. Types'
  <2>1. (op \in [Threads -> Thread])'
    BY <1>1
  <2>2. TypesButOp'
    BY NoTaskAssumption, <1>1, ThreadFields DEF Active, Terminal, Exited, LaunchInv, Launching
  <2>3. (\A g \in Threads : op[g].batch \subseteq children)'
    BY NoTaskAssumption, <1>1 DEF LockInv, LaunchInv, Launching, ChildrenFree, Critical
  <2> QED
    BY <2>1, <2>2, <2>3
<1>3. LockInv'
  <2>1. ASSUME NEW g \in Threads, op'[g].batch # {} PROVE op'[g].at \in Critical
    BY <1>1, <2>1 DEF LockInv, Critical
  <2>2. ASSUME NEW g \in Threads, NEW k \in Threads, op'[g].at \in Critical, op'[k].at \in Critical PROVE g = k
    BY <1>1, <2>2 DEF LockInv, Critical, ChildrenFree
  <2>3. ASSUME NEW g \in Threads, NEW u \in op'[g].batch PROVE runner'[u] \in Exited
    BY <1>1, <2>3 DEF LockInv, Critical, Exited
  <2> QED
    BY <2>1, <2>2, <2>3 DEF LockInv
<1>4. FreshInv'
  BY NoTaskAssumption, <1>1 DEF FreshInv, LaunchInv, Launching, Stopping,
     Active, Terminal, Exited, Ended, Fresh
<1>5. LaunchInv'
  BY NoTaskAssumption, <1>1 DEF LaunchInv, FreshInv, Launching, Stopping,
     Active, Terminal, Exited, Ended, Fresh
<1>6. EndedTasksHoldNoLease'
  BY NoTaskAssumption, <1>1 DEF EndedTasksHoldNoLease, LaunchInv, Launching,
     Stopping, On, Active, Terminal, Ended
<1>7. FilesInv'
  BY NoTaskAssumption, <1>1 DEF FilesInv, Parting
<1>8. OverlapInv'
  BY NoTaskAssumption, <1>1 DEF OverlapInv, LaunchInv, InFlight, Launching,
     AnyActive, Active, Ended, Terminal
<1>9. RemovalInv'
  BY NoTaskAssumption, <1>1 DEF RemovalInv, FilesInv, Uninstalling, InFlight,
     LaunchInv, Launching, AnyActive, Active, Ended, Terminal
<1>10. ChecksAreMissedOnlyInOverlap'
  BY NoTaskAssumption, <1>1 DEF ChecksAreMissedOnlyInOverlap, OverlapInv,
     RemovalInv, FilesInv, Uninstalling, InFlight, LaunchInv, Launching,
     AnyActive, Active, Ended, Terminal
<1>11. WatchInv'
  BY NoTaskAssumption, <1>1 DEF WatchInv, LockInv, LaunchInv, On, Launching,
     Exited, ChildrenFree
<1> QED
  BY <1>2, <1>3, <1>4, <1>5, <1>6, <1>7, <1>8, <1>9, <1>10, <1>11

\* A server is started for a task that has none.
LEMMA StartServerKeeps ==
  ASSUME AgentInv, requests' \in 0..MaxRequests,
         NEW h \in Threads, StartServer(h)
  PROVE  AgentInv'
<1> USE DEF AgentInv, Types, TypesButOp
<1>1. Moved(h, "registerServer", op[h].task, op[h].active, op[h].batch)
  BY GoToMoves, ReturnMoves DEF StartServer, Places
<1> USE DEF StartServer, At, Moved
<1> USE DEF taskVars, handles, processes, disk, history, fixed, Idle
<1>2. Types'
  <2>1. (op \in [Threads -> Thread])'
    BY <1>1
  <2>2. TypesButOp'
    BY NoTaskAssumption, <1>1, ThreadFields DEF Active, Terminal, Exited
  <2>3. (\A g \in Threads : op[g].batch \subseteq children)'
    BY NoTaskAssumption, <1>1 DEF LockInv, LaunchInv, Launching, ChildrenFree, Critical
  <2> QED
    BY <2>1, <2>2, <2>3
<1>3. LockInv'
  <2>1. ASSUME NEW g \in Threads, op'[g].batch # {} PROVE op'[g].at \in Critical
    BY <1>1, <2>1 DEF LockInv, Critical
  <2>2. ASSUME NEW g \in Threads, NEW k \in Threads, op'[g].at \in Critical, op'[k].at \in Critical PROVE g = k
    BY <1>1, <2>2 DEF LockInv, Critical, ChildrenFree
  <2>3. ASSUME NEW g \in Threads, NEW u \in op'[g].batch PROVE runner'[u] \in Exited
    BY <1>1, <2>3 DEF LockInv, Critical, Exited
  <2> QED
    BY <2>1, <2>2, <2>3 DEF LockInv
<1>4. FreshInv'
  BY NoTaskAssumption, <1>1 DEF FreshInv, LaunchInv, Launching, Stopping,
     Active, Terminal, Exited, Ended, Fresh
<1>5. LaunchInv'
  BY NoTaskAssumption, <1>1 DEF LaunchInv, FreshInv, Launching, Stopping,
     Active, Terminal, Exited, Ended, Fresh
<1>6. EndedTasksHoldNoLease'
  BY NoTaskAssumption, <1>1 DEF EndedTasksHoldNoLease, LaunchInv, Launching,
     Stopping, On, Active, Terminal, Ended
<1>7. FilesInv'
  BY NoTaskAssumption, <1>1 DEF FilesInv, Parting
<1>8. OverlapInv'
  BY NoTaskAssumption, <1>1 DEF OverlapInv, LaunchInv, InFlight, Launching,
     AnyActive, Active, Ended, Terminal
<1>9. RemovalInv'
  BY NoTaskAssumption, <1>1 DEF RemovalInv, FilesInv, Uninstalling, InFlight,
     LaunchInv, Launching, AnyActive, Active, Ended, Terminal
<1>10. ChecksAreMissedOnlyInOverlap'
  BY NoTaskAssumption, <1>1 DEF ChecksAreMissedOnlyInOverlap, OverlapInv,
     RemovalInv, FilesInv, Uninstalling, InFlight, LaunchInv, Launching,
     AnyActive, Active, Ended, Terminal
<1>11. WatchInv'
  BY NoTaskAssumption, <1>1 DEF WatchInv, LockInv, LaunchInv, On, Launching,
     Exited, ChildrenFree
<1> QED
  BY <1>2, <1>3, <1>4, <1>5, <1>6, <1>7, <1>8, <1>9, <1>10, <1>11

\* The server's handle is put into `servers'.
LEMMA RegisterServerKeeps ==
  ASSUME AgentInv, requests' \in 0..MaxRequests,
         NEW h \in Threads, RegisterServer(h)
  PROVE  AgentInv'
<1> USE DEF AgentInv, Types, TypesButOp
<1>1. Moved(h, "idle", NoTask, FALSE, {})
  BY GoToMoves, ReturnMoves DEF RegisterServer, Places
<1> USE DEF RegisterServer, At, Moved
<1> USE DEF taskVars, handles, processes, disk, history, fixed, Idle
<1>2. Types'
  <2>1. (op \in [Threads -> Thread])'
    BY <1>1
  <2>2. TypesButOp'
    BY NoTaskAssumption, <1>1, ThreadFields DEF Active, Terminal, Exited, LaunchInv, Launching
  <2>3. (\A g \in Threads : op[g].batch \subseteq children)'
    BY NoTaskAssumption, <1>1 DEF LockInv, LaunchInv, Launching, ChildrenFree, Critical
  <2> QED
    BY <2>1, <2>2, <2>3
<1>3. LockInv'
  BY NoTaskAssumption, <1>1, ThreadFields DEF LockInv, LaunchInv, ChildrenFree, Critical, Exited
<1>4. FreshInv'
  BY NoTaskAssumption, <1>1 DEF FreshInv, LaunchInv, Launching, Stopping,
     Active, Terminal, Exited, Ended, Fresh
<1>5. LaunchInv'
  BY NoTaskAssumption, <1>1 DEF LaunchInv, FreshInv, Launching, Stopping,
     Active, Terminal, Exited, Ended, Fresh
<1>6. EndedTasksHoldNoLease'
  BY NoTaskAssumption, <1>1 DEF EndedTasksHoldNoLease, LaunchInv, Launching,
     Stopping, On, Active, Terminal, Ended
<1>7. FilesInv'
  BY NoTaskAssumption, <1>1 DEF FilesInv, Parting
<1>8. OverlapInv'
  BY NoTaskAssumption, <1>1 DEF OverlapInv, LaunchInv, InFlight, Launching,
     AnyActive, Active, Ended, Terminal
<1>9. RemovalInv'
  BY NoTaskAssumption, <1>1 DEF RemovalInv, FilesInv, Uninstalling, InFlight,
     LaunchInv, Launching, AnyActive, Active, Ended, Terminal
<1>10. ChecksAreMissedOnlyInOverlap'
  BY NoTaskAssumption, <1>1 DEF ChecksAreMissedOnlyInOverlap, OverlapInv,
     RemovalInv, FilesInv, Uninstalling, InFlight, LaunchInv, Launching,
     AnyActive, Active, Ended, Terminal
<1>11. WatchInv'
  BY NoTaskAssumption, <1>1 DEF WatchInv, LockInv, LaunchInv, On, Launching,
     Exited, ChildrenFree
<1> QED
  BY <1>2, <1>3, <1>4, <1>5, <1>6, <1>7, <1>8, <1>9, <1>10, <1>11

\* A launch that failed ends the task, and the lease is next.
LEMMA RunFailsKeeps ==
  ASSUME AgentInv, requests' \in 0..MaxRequests,
         NEW h \in Threads, RunFails(h)
  PROVE  AgentInv'
<1> USE DEF AgentInv, Types, TypesButOp
<1>1. Moved(h, "revoke", op[h].task, op[h].active, op[h].batch)
  BY GoToMoves, ReturnMoves DEF RunFails, Places
<1> USE DEF RunFails, At, Moved
<1> USE DEF taskVars, handles, processes, disk, history, fixed, Idle
<1>2. Types'
  <2>1. (op \in [Threads -> Thread])'
    BY <1>1
  <2>2. TypesButOp'
    BY NoTaskAssumption, <1>1, ThreadFields, EndedTyped DEF Active, Terminal, Exited
  <2>3. (\A g \in Threads : op[g].batch \subseteq children)'
    BY NoTaskAssumption, <1>1 DEF LockInv, LaunchInv, Launching, ChildrenFree, Critical
  <2> QED
    BY <2>1, <2>2, <2>3
<1>3. LockInv'
  BY NoTaskAssumption, <1>1, ThreadFields DEF LockInv, LaunchInv, ChildrenFree, Critical, Exited
<1>4. FreshInv'
  BY NoTaskAssumption, <1>1 DEF FreshInv, LaunchInv, Launching, Stopping,
     Active, Terminal, Exited, Ended, Fresh
<1>5. LaunchInv'
  BY NoTaskAssumption, <1>1 DEF LaunchInv, FreshInv, Launching, Stopping,
     Active, Terminal, Exited, Ended, Fresh
<1>6. EndedTasksHoldNoLease'
  BY NoTaskAssumption, <1>1 DEF EndedTasksHoldNoLease, LaunchInv, Launching,
     Stopping, On, Active, Terminal, Ended
<1>7. FilesInv'
  BY NoTaskAssumption, <1>1 DEF FilesInv, Parting
<1>8. OverlapInv'
  BY NoTaskAssumption, <1>1 DEF OverlapInv, LaunchInv, InFlight, Launching,
     AnyActive, Active, Ended, Terminal
<1>9. RemovalInv'
  BY NoTaskAssumption, <1>1 DEF RemovalInv, FilesInv, Uninstalling, InFlight,
     LaunchInv, Launching, AnyActive, Active, Ended, Terminal
<1>10. ChecksAreMissedOnlyInOverlap'
  BY NoTaskAssumption, <1>1 DEF ChecksAreMissedOnlyInOverlap, OverlapInv,
     RemovalInv, FilesInv, Uninstalling, InFlight, LaunchInv, Launching,
     AnyActive, Active, Ended, Terminal
<1>11. WatchInv'
  BY NoTaskAssumption, <1>1 DEF WatchInv, LockInv, LaunchInv, On, Launching,
     Exited, ChildrenFree
<1> QED
  BY <1>2, <1>3, <1>4, <1>5, <1>6, <1>7, <1>8, <1>9, <1>10, <1>11

\* The last step of a stop or a failed launch.
LEMMA RevokeLeasesKeeps ==
  ASSUME AgentInv, requests' \in 0..MaxRequests,
         NEW h \in Threads, RevokeLeases(h)
  PROVE  AgentInv'
<1> USE DEF AgentInv, Types, TypesButOp
<1>1. Moved(h, "idle", NoTask, FALSE, {})
  BY GoToMoves, ReturnMoves DEF RevokeLeases, Places
<1> USE DEF RevokeLeases, Revoked, At, Moved
<1> USE DEF taskVars, handles, processes, disk, history, fixed, Idle
<1>2. Types'
  <2>1. (op \in [Threads -> Thread])'
    BY <1>1
  <2>2. TypesButOp'
    BY NoTaskAssumption, <1>1, ThreadFields DEF Active, Terminal, Exited
  <2>3. (\A g \in Threads : op[g].batch \subseteq children)'
    BY NoTaskAssumption, <1>1 DEF LockInv, LaunchInv, Launching, ChildrenFree, Critical
  <2> QED
    BY <2>1, <2>2, <2>3
<1>3. LockInv'
  BY NoTaskAssumption, <1>1, ThreadFields DEF LockInv, LaunchInv, ChildrenFree, Critical, Exited
<1>4. FreshInv'
  BY NoTaskAssumption, <1>1 DEF FreshInv, LaunchInv, Launching, Stopping,
     Active, Terminal, Exited, Ended, Fresh
<1>5. LaunchInv'
  BY NoTaskAssumption, <1>1 DEF LaunchInv, FreshInv, Launching, Stopping,
     Active, Terminal, Exited, Ended, Fresh
<1>6. EndedTasksHoldNoLease'
  BY NoTaskAssumption, <1>1 DEF EndedTasksHoldNoLease, LaunchInv, Launching,
     Stopping, On, Active, Terminal, Ended
<1>7. FilesInv'
  BY NoTaskAssumption, <1>1 DEF FilesInv, Parting
<1>8. OverlapInv'
  BY NoTaskAssumption, <1>1 DEF OverlapInv, LaunchInv, InFlight, Launching,
     AnyActive, Active, Ended, Terminal
<1>9. RemovalInv'
  BY NoTaskAssumption, <1>1 DEF RemovalInv, FilesInv, Uninstalling, InFlight,
     LaunchInv, Launching, AnyActive, Active, Ended, Terminal
<1>10. ChecksAreMissedOnlyInOverlap'
  BY NoTaskAssumption, <1>1 DEF ChecksAreMissedOnlyInOverlap, OverlapInv,
     RemovalInv, FilesInv, Uninstalling, InFlight, LaunchInv, Launching,
     AnyActive, Active, Ended, Terminal
<1>11. WatchInv'
  BY NoTaskAssumption, <1>1 DEF WatchInv, LockInv, LaunchInv, On, Launching,
     Exited, ChildrenFree
<1> QED
  BY <1>2, <1>3, <1>4, <1>5, <1>6, <1>7, <1>8, <1>9, <1>10, <1>11

\* stop takes the server's handle, if there is one.
LEMMA TakeServerKeeps ==
  ASSUME AgentInv, requests' \in 0..MaxRequests,
         NEW h \in Threads, TakeServer(h)
  PROVE  AgentInv'
<1> USE DEF AgentInv, Types, TypesButOp
<1>1. /\ op[h].task \in servers => Moved(h, "join", op[h].task, op[h].active, op[h].batch)
      /\ op[h].task \notin servers => Moved(h, "takeChild", op[h].task, op[h].active, op[h].batch)
  <2>1. ASSUME op[h].task \in servers PROVE Moved(h, "join", op[h].task, op[h].active, op[h].batch)
    BY <2>1, GoToMoves DEF TakeServer, Places
  <2>2. ASSUME op[h].task \notin servers PROVE Moved(h, "takeChild", op[h].task, op[h].active, op[h].batch)
    BY <2>2, GoToMoves DEF TakeServer, Places
  <2> QED
    BY <2>1, <2>2
<1> USE DEF TakeServer, At, Moved
<1> USE DEF taskVars, handles, processes, disk, history, fixed, Idle
<1>2. Types'
  <2>1. op[h].task \in Tasks
    BY DEF LaunchInv, Stopping
  <2>2. server' \in [Tasks -> {"none", "serving", "finishing", "ending", "revoking", "done"}]
    BY <2>1
  <2> QED
    BY <1>1, <2>2 DEF Types, Places
<1>3. LockInv'
  <2>1. ASSUME NEW g \in Threads, op'[g].batch # {} PROVE op'[g].at \in Critical
    BY <1>1, <2>1 DEF LockInv, Critical
  <2>2. ASSUME NEW g \in Threads, NEW k \in Threads, op'[g].at \in Critical, op'[k].at \in Critical PROVE g = k
    BY <1>1, <2>2 DEF LockInv, Critical, ChildrenFree
  <2>3. ASSUME NEW g \in Threads, NEW u \in op'[g].batch PROVE runner'[u] \in Exited
    BY <1>1, <2>3 DEF LockInv, Critical, Exited
  <2> QED
    BY <2>1, <2>2, <2>3 DEF LockInv
<1>4. FreshInv'
  BY NoTaskAssumption, <1>1 DEF FreshInv, LaunchInv, Launching, Stopping,
     Active, Terminal, Exited, Ended, Fresh
<1>5. LaunchInv'
  BY NoTaskAssumption, <1>1 DEF LaunchInv, FreshInv, Launching, Stopping,
     Active, Terminal, Exited, Ended, Fresh
<1>6. EndedTasksHoldNoLease'
  BY NoTaskAssumption, <1>1 DEF EndedTasksHoldNoLease, LaunchInv, Launching,
     Stopping, On, Active, Terminal, Ended
<1>7. FilesInv'
  BY NoTaskAssumption, <1>1 DEF FilesInv, Parting
<1>8. OverlapInv'
  BY NoTaskAssumption, <1>1 DEF OverlapInv, LaunchInv, InFlight, Launching,
     AnyActive, Active, Ended, Terminal
<1>9. RemovalInv'
  BY NoTaskAssumption, <1>1 DEF RemovalInv, FilesInv, Uninstalling, InFlight,
     LaunchInv, Launching, AnyActive, Active, Ended, Terminal
<1>10. ChecksAreMissedOnlyInOverlap'
  BY NoTaskAssumption, <1>1 DEF ChecksAreMissedOnlyInOverlap, OverlapInv,
     RemovalInv, FilesInv, Uninstalling, InFlight, LaunchInv, Launching,
     AnyActive, Active, Ended, Terminal
<1>11. WatchInv'
  BY NoTaskAssumption, <1>1 DEF WatchInv, LockInv, LaunchInv, On, Launching,
     Exited, ChildrenFree
<1> QED
  BY <1>2, <1>3, <1>4, <1>5, <1>6, <1>7, <1>8, <1>9, <1>10, <1>11

\* stop takes the Runner's handle and kills the Runner.
LEMMA TakeChildKeeps ==
  ASSUME AgentInv, requests' \in 0..MaxRequests,
         NEW h \in Threads, TakeChild(h)
  PROVE  AgentInv'
<1> USE DEF AgentInv, Types, TypesButOp
<1>1. Moved(h, "write", op[h].task, op[h].active, op[h].batch)
  BY GoToMoves, ReturnMoves DEF TakeChild, Places
<1> USE DEF TakeChild, Killed, At, Moved
<1> USE DEF taskVars, handles, processes, disk, history, fixed, Idle
<1>2. Types'
  <2>1. (op \in [Threads -> Thread])'
    BY <1>1
  <2>2. TypesButOp'
    BY NoTaskAssumption, <1>1, ThreadFields DEF Active, Terminal, Exited
  <2>3. (\A g \in Threads : op[g].batch \subseteq children)'
    BY NoTaskAssumption, <1>1 DEF LockInv, LaunchInv, Launching, ChildrenFree, Critical
  <2> QED
    BY <2>1, <2>2, <2>3
<1>3. LockInv'
  <2>1. ASSUME NEW g \in Threads, op'[g].batch # {} PROVE op'[g].at \in Critical
    BY <1>1, <2>1 DEF LockInv, Critical
  <2>2. ASSUME NEW g \in Threads, NEW k \in Threads, op'[g].at \in Critical, op'[k].at \in Critical PROVE g = k
    BY <1>1, <2>2 DEF LockInv, Critical, ChildrenFree
  <2>3. ASSUME NEW g \in Threads, NEW u \in op'[g].batch PROVE runner'[u] \in Exited
    BY <1>1, <2>3 DEF LockInv, Critical, Exited
  <2> QED
    BY <2>1, <2>2, <2>3 DEF LockInv
<1>4. FreshInv'
  BY NoTaskAssumption, <1>1 DEF FreshInv, LaunchInv, Launching, Stopping,
     Active, Terminal, Exited, Ended, Fresh
<1>5. LaunchInv'
  BY NoTaskAssumption, <1>1 DEF LaunchInv, FreshInv, Launching, Stopping,
     Active, Terminal, Exited, Ended, Fresh
<1>6. EndedTasksHoldNoLease'
  BY NoTaskAssumption, <1>1 DEF EndedTasksHoldNoLease, LaunchInv, Launching,
     Stopping, On, Active, Terminal, Ended
<1>7. FilesInv'
  BY NoTaskAssumption, <1>1 DEF FilesInv, Parting
<1>8. OverlapInv'
  BY NoTaskAssumption, <1>1 DEF OverlapInv, LaunchInv, InFlight, Launching,
     AnyActive, Active, Ended, Terminal
<1>9. RemovalInv'
  BY NoTaskAssumption, <1>1 DEF RemovalInv, FilesInv, Uninstalling, InFlight,
     LaunchInv, Launching, AnyActive, Active, Ended, Terminal
<1>10. ChecksAreMissedOnlyInOverlap'
  BY NoTaskAssumption, <1>1 DEF ChecksAreMissedOnlyInOverlap, OverlapInv,
     RemovalInv, FilesInv, Uninstalling, InFlight, LaunchInv, Launching,
     AnyActive, Active, Ended, Terminal
<1>11. WatchInv'
  BY NoTaskAssumption, <1>1 DEF WatchInv, LockInv, LaunchInv, On, Launching,
     Exited, ChildrenFree
<1> QED
  BY <1>2, <1>3, <1>4, <1>5, <1>6, <1>7, <1>8, <1>9, <1>10, <1>11

\* stop ends the task, if it was active when stop began; the lease is next.
LEMMA WriteStoppedKeeps ==
  ASSUME AgentInv, requests' \in 0..MaxRequests,
         NEW h \in Threads, WriteStopped(h)
  PROVE  AgentInv'
<1> USE DEF AgentInv, Types, TypesButOp
<1>1. Moved(h, "revoke", op[h].task, op[h].active, op[h].batch)
  BY GoToMoves, ReturnMoves DEF WriteStopped, Places
<1> USE DEF WriteStopped, At, Moved
<1> USE DEF taskVars, handles, processes, disk, history, fixed, Idle
<1>2. Types'
  <2>1. (op \in [Threads -> Thread])'
    BY <1>1
  <2>2. TypesButOp'
    BY NoTaskAssumption, <1>1, ThreadFields, EndedTyped DEF Active, Terminal, Exited
  <2>3. (\A g \in Threads : op[g].batch \subseteq children)'
    BY NoTaskAssumption, <1>1 DEF LockInv, LaunchInv, Launching, ChildrenFree, Critical
  <2> QED
    BY <2>1, <2>2, <2>3
<1>3. LockInv'
  BY NoTaskAssumption, <1>1, ThreadFields DEF LockInv, LaunchInv, ChildrenFree, Critical, Exited
<1>4. FreshInv'
  BY NoTaskAssumption, <1>1 DEF FreshInv, LaunchInv, Launching, Stopping,
     Active, Terminal, Exited, Ended, Fresh
<1>5. LaunchInv'
  BY NoTaskAssumption, <1>1 DEF LaunchInv, FreshInv, Launching, Stopping,
     Active, Terminal, Exited, Ended, Fresh
<1>6. EndedTasksHoldNoLease'
  BY NoTaskAssumption, <1>1 DEF EndedTasksHoldNoLease, LaunchInv, Launching,
     Stopping, On, Active, Terminal, Ended
<1>7. FilesInv'
  BY NoTaskAssumption, <1>1 DEF FilesInv, Parting
<1>8. OverlapInv'
  BY NoTaskAssumption, <1>1 DEF OverlapInv, LaunchInv, InFlight, Launching,
     AnyActive, Active, Ended, Terminal
<1>9. RemovalInv'
  BY NoTaskAssumption, <1>1 DEF RemovalInv, FilesInv, Uninstalling, InFlight,
     LaunchInv, Launching, AnyActive, Active, Ended, Terminal
<1>10. ChecksAreMissedOnlyInOverlap'
  BY NoTaskAssumption, <1>1 DEF ChecksAreMissedOnlyInOverlap, OverlapInv,
     RemovalInv, FilesInv, Uninstalling, InFlight, LaunchInv, Launching,
     AnyActive, Active, Ended, Terminal
<1>11. WatchInv'
  BY NoTaskAssumption, <1>1 DEF WatchInv, LockInv, LaunchInv, On, Launching,
     Exited, ChildrenFree
<1> QED
  BY <1>2, <1>3, <1>4, <1>5, <1>6, <1>7, <1>8, <1>9, <1>10, <1>11

\* An uninstallation parts the directory from the row.
LEMMA RenameToTrashKeeps ==
  ASSUME AgentInv, requests' \in 0..MaxRequests,
         NEW h \in Threads, RenameToTrash(h)
  PROVE  AgentInv'
<1> USE DEF AgentInv, Types, TypesButOp
<1>1. \/ files /\ files' = FALSE /\ stray' = (stray \/ Parting # {}) /\ Moved(h, "forget", op[h].task, op[h].active, op[h].batch)
      \/ UNCHANGED <<files, stray>> /\ Moved(h, "idle", NoTask, FALSE, {})
  <2>1. ASSUME GoTo(h, "forget") PROVE Moved(h, "forget", op[h].task, op[h].active, op[h].batch)
    BY <2>1, GoToMoves DEF Places
  <2>2. ASSUME Return(h) PROVE Moved(h, "idle", NoTask, FALSE, {})
    BY <2>2, ReturnMoves
  <2> QED
    BY <2>1, <2>2 DEF RenameToTrash
<1> USE DEF RenameToTrash, At, Moved
<1> USE DEF taskVars, handles, processes, disk, history, fixed, Idle
<1>2. Types'
  <2>1. (op \in [Threads -> Thread])'
    BY <1>1
  <2>2. TypesButOp'
    BY NoTaskAssumption, <1>1, ThreadFields DEF Active, Terminal, Exited
  <2>3. (\A g \in Threads : op[g].batch \subseteq children)'
    BY NoTaskAssumption, <1>1 DEF LockInv, LaunchInv, Launching, ChildrenFree, Critical
  <2> QED
    BY <2>1, <2>2, <2>3
<1>3. LockInv'
  <2>1. ASSUME NEW g \in Threads, op'[g].batch # {} PROVE op'[g].at \in Critical
    BY <1>1, <2>1 DEF LockInv, Critical
  <2>2. ASSUME NEW g \in Threads, NEW k \in Threads, op'[g].at \in Critical, op'[k].at \in Critical PROVE g = k
    BY <1>1, <2>2 DEF LockInv, Critical, ChildrenFree
  <2>3. ASSUME NEW g \in Threads, NEW u \in op'[g].batch PROVE runner'[u] \in Exited
    BY <1>1, <2>3 DEF LockInv, Critical, Exited
  <2> QED
    BY <2>1, <2>2, <2>3 DEF LockInv
<1>4. FreshInv'
  BY NoTaskAssumption, <1>1 DEF FreshInv, LaunchInv, Launching, Stopping,
     Active, Terminal, Exited, Ended, Fresh
<1>5. LaunchInv'
  BY NoTaskAssumption, <1>1 DEF LaunchInv, FreshInv, Launching, Stopping,
     Active, Terminal, Exited, Ended, Fresh
<1>6. EndedTasksHoldNoLease'
  BY NoTaskAssumption, <1>1 DEF EndedTasksHoldNoLease, LaunchInv, Launching,
     Stopping, On, Active, Terminal, Ended
<1>7. FilesInv'
  BY NoTaskAssumption, <1>1 DEF FilesInv, Parting
<1>8. OverlapInv'
  BY NoTaskAssumption, <1>1 DEF OverlapInv, LaunchInv, InFlight, Launching,
     AnyActive, Active, Ended, Terminal
<1>9. RemovalInv'
  BY NoTaskAssumption, <1>1 DEF RemovalInv, FilesInv, Uninstalling, InFlight,
     LaunchInv, Launching, AnyActive, Active, Ended, Terminal
<1>10. ChecksAreMissedOnlyInOverlap'
  BY NoTaskAssumption, <1>1 DEF ChecksAreMissedOnlyInOverlap, OverlapInv,
     RemovalInv, FilesInv, Uninstalling, InFlight, LaunchInv, Launching,
     AnyActive, Active, Ended, Terminal
<1>11. WatchInv'
  BY NoTaskAssumption, <1>1 DEF WatchInv, LockInv, LaunchInv, On, Launching,
     Exited, ChildrenFree
<1> QED
  BY <1>2, <1>3, <1>4, <1>5, <1>6, <1>7, <1>8, <1>9, <1>10, <1>11

\* An uninstallation removes the row; all tasks it leaves behind are noted.
LEMMA RemoveInstallKeeps ==
  ASSUME AgentInv, requests' \in 0..MaxRequests,
         NEW h \in Threads, RemoveInstall(h)
  PROVE  AgentInv'
<1> USE DEF AgentInv, Types, TypesButOp
<1>1. Moved(h, "idle", NoTask, FALSE, {})
  BY GoToMoves, ReturnMoves DEF RemoveInstall, Places
<1> USE DEF RemoveInstall, At, Moved
<1> USE DEF taskVars, handles, processes, disk, history, fixed, Idle
<1>2. Types'
  <2>1. (op \in [Threads -> Thread])'
    BY <1>1
  <2>2. TypesButOp'
    BY NoTaskAssumption, <1>1, ThreadFields DEF Active, Terminal, Exited
  <2>3. (\A g \in Threads : op[g].batch \subseteq children)'
    BY NoTaskAssumption, <1>1 DEF LockInv, LaunchInv, Launching, ChildrenFree, Critical
  <2> QED
    BY <2>1, <2>2, <2>3
<1>3. LockInv'
  <2>1. ASSUME NEW g \in Threads, op'[g].batch # {} PROVE op'[g].at \in Critical
    BY <1>1, <2>1 DEF LockInv, Critical
  <2>2. ASSUME NEW g \in Threads, NEW k \in Threads, op'[g].at \in Critical, op'[k].at \in Critical PROVE g = k
    BY <1>1, <2>2 DEF LockInv, Critical, ChildrenFree
  <2>3. ASSUME NEW g \in Threads, NEW u \in op'[g].batch PROVE runner'[u] \in Exited
    BY <1>1, <2>3 DEF LockInv, Critical, Exited
  <2> QED
    BY <2>1, <2>2, <2>3 DEF LockInv
<1>4. FreshInv'
  BY NoTaskAssumption, <1>1 DEF FreshInv, LaunchInv, Launching, Stopping,
     Active, Terminal, Exited, Ended, Fresh
<1>5. LaunchInv'
  BY NoTaskAssumption, <1>1 DEF LaunchInv, FreshInv, Launching, Stopping,
     Active, Terminal, Exited, Ended, Fresh
<1>6. EndedTasksHoldNoLease'
  BY NoTaskAssumption, <1>1 DEF EndedTasksHoldNoLease, LaunchInv, Launching,
     Stopping, On, Active, Terminal, Ended
<1>7. FilesInv'
  <2>1. ASSUME ~stray PROVE op'[h].at = "idle" /\ \A g \in Threads : g # h => g \notin Parting /\ op'[g] = op[g]
    BY <1>1, <2>1 DEF FilesInv, Parting
  <2>2. ASSUME ~stray PROVE Parting' = {}
    BY <2>1, <2>2 DEF Parting
  <2>3. ASSUME ~stray PROVE files' = row'
    BY <2>3 DEF FilesInv, TypesButOp
  <2> QED
    BY <1>1, <2>2, <2>3 DEF FilesInv, Parting
<1>8. OverlapInv'
  BY NoTaskAssumption, <1>1 DEF OverlapInv, LaunchInv, InFlight, Launching,
     AnyActive, Active, Ended, Terminal
<1>9. RemovalInv'
  BY NoTaskAssumption, <1>1 DEF RemovalInv, FilesInv, Uninstalling, InFlight,
     LaunchInv, Launching, AnyActive, Active, Ended, Terminal
<1>10. ChecksAreMissedOnlyInOverlap'
  BY NoTaskAssumption, <1>1 DEF ChecksAreMissedOnlyInOverlap, OverlapInv,
     RemovalInv, FilesInv, Uninstalling, InFlight, LaunchInv, Launching,
     AnyActive, Active, Ended, Terminal
<1>11. WatchInv'
  BY NoTaskAssumption, <1>1 DEF WatchInv, LockInv, LaunchInv, On, Launching,
     Exited, ChildrenFree
<1> QED
  BY <1>2, <1>3, <1>4, <1>5, <1>6, <1>7, <1>8, <1>9, <1>10, <1>11

\* An installation parts the directory from the row.
LEMMA PlaceKeeps ==
  ASSUME AgentInv, requests' \in 0..MaxRequests,
         NEW h \in Threads, Place(h)
  PROVE  AgentInv'
<1> USE DEF AgentInv, Types, TypesButOp
<1>1. /\ files => Moved(h, "idle", NoTask, FALSE, {})
      /\ ~files => Moved(h, "activate", op[h].task, op[h].active, op[h].batch)
  <2>1. ASSUME files PROVE Moved(h, "idle", NoTask, FALSE, {})
    BY <2>1, ReturnMoves DEF Place, Places
  <2>2. ASSUME ~files PROVE Moved(h, "activate", op[h].task, op[h].active, op[h].batch)
    BY <2>2, GoToMoves DEF Place, Places
  <2> QED
    BY <2>1, <2>2
<1> USE DEF Place, At, Moved
<1> USE DEF taskVars, handles, processes, disk, history, fixed, Idle
<1>2. Types'
  <2>1. (op \in [Threads -> Thread])'
    BY <1>1
  <2>2. TypesButOp'
    BY NoTaskAssumption, <1>1, ThreadFields DEF Active, Terminal, Exited
  <2>3. (\A g \in Threads : op[g].batch \subseteq children)'
    BY NoTaskAssumption, <1>1 DEF LockInv, LaunchInv, Launching, ChildrenFree, Critical
  <2> QED
    BY <2>1, <2>2, <2>3
<1>3. LockInv'
  <2>1. ASSUME NEW g \in Threads, op'[g].batch # {} PROVE op'[g].at \in Critical
    BY <1>1, <2>1 DEF LockInv, Critical
  <2>2. ASSUME NEW g \in Threads, NEW k \in Threads, op'[g].at \in Critical, op'[k].at \in Critical PROVE g = k
    BY <1>1, <2>2 DEF LockInv, Critical, ChildrenFree
  <2>3. ASSUME NEW g \in Threads, NEW u \in op'[g].batch PROVE runner'[u] \in Exited
    BY <1>1, <2>3 DEF LockInv, Critical, Exited
  <2> QED
    BY <2>1, <2>2, <2>3 DEF LockInv
<1>4. FreshInv'
  BY NoTaskAssumption, <1>1 DEF FreshInv, LaunchInv, Launching, Stopping,
     Active, Terminal, Exited, Ended, Fresh
<1>5. LaunchInv'
  BY NoTaskAssumption, <1>1 DEF LaunchInv, FreshInv, Launching, Stopping,
     Active, Terminal, Exited, Ended, Fresh
<1>6. EndedTasksHoldNoLease'
  BY NoTaskAssumption, <1>1 DEF EndedTasksHoldNoLease, LaunchInv, Launching,
     Stopping, On, Active, Terminal, Ended
<1>7. FilesInv'
  BY NoTaskAssumption, <1>1 DEF FilesInv, Parting
<1>8. OverlapInv'
  BY NoTaskAssumption, <1>1 DEF OverlapInv, LaunchInv, InFlight, Launching,
     AnyActive, Active, Ended, Terminal
<1>9. RemovalInv'
  BY NoTaskAssumption, <1>1 DEF RemovalInv, FilesInv, Uninstalling, InFlight,
     LaunchInv, Launching, AnyActive, Active, Ended, Terminal
<1>10. ChecksAreMissedOnlyInOverlap'
  BY NoTaskAssumption, <1>1 DEF ChecksAreMissedOnlyInOverlap, OverlapInv,
     RemovalInv, FilesInv, Uninstalling, InFlight, LaunchInv, Launching,
     AnyActive, Active, Ended, Terminal
<1>11. WatchInv'
  BY NoTaskAssumption, <1>1 DEF WatchInv, LockInv, LaunchInv, On, Launching,
     Exited, ChildrenFree
<1> QED
  BY <1>2, <1>3, <1>4, <1>5, <1>6, <1>7, <1>8, <1>9, <1>10, <1>11

\* An installation writes the row or takes the directory back.
LEMMA ActivateInstallKeeps ==
  ASSUME AgentInv, requests' \in 0..MaxRequests,
         NEW h \in Threads, ActivateInstall(h)
  PROVE  AgentInv'
<1> USE DEF AgentInv, Types, TypesButOp
<1>1. Moved(h, "idle", NoTask, FALSE, {})
  BY GoToMoves, ReturnMoves DEF ActivateInstall, Places
<1> USE DEF ActivateInstall, At, Moved
<1> USE DEF taskVars, handles, processes, disk, history, fixed, Idle
<1>2. Types'
  <2>1. (op \in [Threads -> Thread])'
    BY <1>1
  <2>2. TypesButOp'
    BY NoTaskAssumption, <1>1, ThreadFields DEF Active, Terminal, Exited
  <2>3. (\A g \in Threads : op[g].batch \subseteq children)'
    BY NoTaskAssumption, <1>1 DEF LockInv, LaunchInv, Launching, ChildrenFree, Critical
  <2> QED
    BY <2>1, <2>2, <2>3
<1>3. LockInv'
  <2>1. ASSUME NEW g \in Threads, op'[g].batch # {} PROVE op'[g].at \in Critical
    BY <1>1, <2>1 DEF LockInv, Critical
  <2>2. ASSUME NEW g \in Threads, NEW k \in Threads, op'[g].at \in Critical, op'[k].at \in Critical PROVE g = k
    BY <1>1, <2>2 DEF LockInv, Critical, ChildrenFree
  <2>3. ASSUME NEW g \in Threads, NEW u \in op'[g].batch PROVE runner'[u] \in Exited
    BY <1>1, <2>3 DEF LockInv, Critical, Exited
  <2> QED
    BY <2>1, <2>2, <2>3 DEF LockInv
<1>4. FreshInv'
  BY NoTaskAssumption, <1>1 DEF FreshInv, LaunchInv, Launching, Stopping,
     Active, Terminal, Exited, Ended, Fresh
<1>5. LaunchInv'
  BY NoTaskAssumption, <1>1 DEF LaunchInv, FreshInv, Launching, Stopping,
     Active, Terminal, Exited, Ended, Fresh
<1>6. EndedTasksHoldNoLease'
  BY NoTaskAssumption, <1>1 DEF EndedTasksHoldNoLease, LaunchInv, Launching,
     Stopping, On, Active, Terminal, Ended
<1>7. FilesInv'
  <2>1. ASSUME ~stray PROVE op'[h].at = "idle" /\ \A g \in Threads : g # h => g \notin Parting /\ op'[g] = op[g]
    BY <1>1, <2>1 DEF FilesInv, Parting
  <2>2. ASSUME ~stray PROVE Parting' = {}
    BY <2>1, <2>2 DEF Parting
  <2>3. ASSUME ~stray PROVE files' = row'
    BY <2>3 DEF FilesInv, TypesButOp
  <2> QED
    BY <1>1, <2>2, <2>3 DEF FilesInv, Parting
<1>8. OverlapInv'
  BY NoTaskAssumption, <1>1 DEF OverlapInv, LaunchInv, InFlight, Launching,
     AnyActive, Active, Ended, Terminal
<1>9. RemovalInv'
  BY NoTaskAssumption, <1>1 DEF RemovalInv, FilesInv, Uninstalling, InFlight,
     LaunchInv, Launching, AnyActive, Active, Ended, Terminal
<1>10. ChecksAreMissedOnlyInOverlap'
  BY NoTaskAssumption, <1>1 DEF ChecksAreMissedOnlyInOverlap, OverlapInv,
     RemovalInv, FilesInv, Uninstalling, InFlight, LaunchInv, Launching,
     AnyActive, Active, Ended, Terminal
<1>11. WatchInv'
  BY NoTaskAssumption, <1>1 DEF WatchInv, LockInv, LaunchInv, On, Launching,
     Exited, ChildrenFree
<1> QED
  BY <1>2, <1>3, <1>4, <1>5, <1>6, <1>7, <1>8, <1>9, <1>10, <1>11

\* An uninstallation finds no active task and misses those in flight.
LEMMA UninstallKeeps ==
  ASSUME AgentInv, requests' \in 0..MaxRequests,
         NEW h \in Threads, Uninstall(h)
  PROVE  AgentInv'
<1> USE DEF AgentInv, Types, TypesButOp
<1>1. Moved(h, "find", op[h].task, op[h].active, op[h].batch)
  BY GoToMoves, ReturnMoves DEF Uninstall, Places
<1> USE DEF Uninstall, At, Moved
<1> USE DEF taskVars, handles, processes, disk, history, fixed, Idle
<1>2. Types'
  <2>1. InFlight \subseteq Tasks
    BY DEF InFlight, LaunchInv, Launching
  <2> QED
    BY <1>1, <2>1 DEF Types, Places
<1>3. LockInv'
  BY NoTaskAssumption, <1>1, ThreadFields DEF LockInv, LaunchInv, ChildrenFree, Critical, Exited
<1>4. FreshInv'
  BY NoTaskAssumption, <1>1 DEF FreshInv, LaunchInv, Launching, Stopping,
     Active, Terminal, Exited, Ended, Fresh
<1>5. LaunchInv'
  BY NoTaskAssumption, <1>1 DEF LaunchInv, FreshInv, Launching, Stopping,
     Active, Terminal, Exited, Ended, Fresh
<1>6. EndedTasksHoldNoLease'
  BY NoTaskAssumption, <1>1 DEF EndedTasksHoldNoLease, LaunchInv, Launching,
     Stopping, On, Active, Terminal, Ended
<1>7. FilesInv'
  BY NoTaskAssumption, <1>1 DEF FilesInv, Parting
<1>8. OverlapInv'
  BY NoTaskAssumption, <1>1 DEF OverlapInv, LaunchInv, InFlight, Launching,
     AnyActive, Active, Ended, Terminal
<1>9. RemovalInv'
  BY NoTaskAssumption, <1>1 DEF RemovalInv, FilesInv, Uninstalling, InFlight,
     LaunchInv, Launching, AnyActive, Active, Ended, Terminal
<1>10. ChecksAreMissedOnlyInOverlap'
  BY NoTaskAssumption, <1>1 DEF ChecksAreMissedOnlyInOverlap, OverlapInv,
     RemovalInv, FilesInv, Uninstalling, InFlight, LaunchInv, Launching,
     AnyActive, Active, Ended, Terminal
<1>11. WatchInv'
  BY NoTaskAssumption, <1>1 DEF WatchInv, LockInv, LaunchInv, On, Launching,
     Exited, ChildrenFree
<1> QED
  BY <1>2, <1>3, <1>4, <1>5, <1>6, <1>7, <1>8, <1>9, <1>10, <1>11

\* refresh_tasks ends a task whose Runner exited; the lease is next.
LEMMA RecordKeeps ==
  ASSUME AgentInv, requests' \in 0..MaxRequests,
         NEW h \in Threads, NEW t \in Tasks, Record(h, t)
  PROVE  AgentInv'
<1> USE DEF AgentInv, Types, TypesButOp
<1>1. Moved(h, "release", t, op[h].active, op[h].batch \ {t})
  BY RecordMoves
<1> USE DEF Record, At, Moved
<1> USE DEF taskVars, handles, processes, disk, history, fixed, Idle
<1>2. Types'
  <2>1. (op \in [Threads -> Thread])'
    BY <1>1
  <2>2. TypesButOp'
    BY NoTaskAssumption, <1>1, ThreadFields, EndedTyped DEF Active, Terminal, Exited
  <2>3. (\A g \in Threads : op[g].batch \subseteq children)'
    BY NoTaskAssumption, <1>1 DEF LockInv, LaunchInv, Launching, ChildrenFree, Critical
  <2> QED
    BY <2>1, <2>2, <2>3
<1>3. LockInv'
  BY NoTaskAssumption, <1>1, ThreadFields DEF LockInv, LaunchInv, ChildrenFree, Critical, Exited
<1>4. FreshInv'
  BY NoTaskAssumption, <1>1 DEF FreshInv, LaunchInv, Launching, Stopping,
     Active, Terminal, Exited, Ended, Fresh
<1>5. LaunchInv'
  BY NoTaskAssumption, <1>1 DEF LaunchInv, FreshInv, Launching, Stopping,
     Active, Terminal, Exited, Ended, Fresh
<1>6. EndedTasksHoldNoLease'
  BY NoTaskAssumption, <1>1 DEF EndedTasksHoldNoLease, LaunchInv, Launching,
     Stopping, On, Active, Terminal, Ended
<1>7. FilesInv'
  BY NoTaskAssumption, <1>1 DEF FilesInv, Parting
<1>8. OverlapInv'
  BY NoTaskAssumption, <1>1 DEF OverlapInv, LaunchInv, InFlight, Launching,
     AnyActive, Active, Ended, Terminal
<1>9. RemovalInv'
  BY NoTaskAssumption, <1>1 DEF RemovalInv, FilesInv, Uninstalling, InFlight,
     LaunchInv, Launching, AnyActive, Active, Ended, Terminal
<1>10. ChecksAreMissedOnlyInOverlap'
  BY NoTaskAssumption, <1>1 DEF ChecksAreMissedOnlyInOverlap, OverlapInv,
     RemovalInv, FilesInv, Uninstalling, InFlight, LaunchInv, Launching,
     AnyActive, Active, Ended, Terminal
<1>11. WatchInv'
  BY NoTaskAssumption, <1>1 DEF WatchInv, LockInv, LaunchInv, On, Launching,
     Exited, ChildrenFree
<1> QED
  BY <1>2, <1>3, <1>4, <1>5, <1>6, <1>7, <1>8, <1>9, <1>10, <1>11

\* stop begins with a task that has a row.
LEMMA StopKeeps ==
  ASSUME AgentInv, requests' \in 0..MaxRequests,
         NEW h \in Threads, NEW t \in Tasks, Stop(h, t)
  PROVE  AgentInv'
<1> USE DEF AgentInv, Types, TypesButOp
<1>1. Moved(h, "takeServer", t, status[t] \in Active, {})
  BY StopMoves
<1> USE DEF Stop, At, Moved
<1> USE DEF taskVars, handles, processes, disk, history, fixed, Idle
<1>2. Types'
  <2>1. (op \in [Threads -> Thread])'
    BY <1>1
  <2>2. TypesButOp'
    BY NoTaskAssumption, <1>1, ThreadFields DEF Active, Terminal, Exited
  <2>3. (\A g \in Threads : op[g].batch \subseteq children)'
    BY NoTaskAssumption, <1>1 DEF LockInv, LaunchInv, Launching, ChildrenFree, Critical
  <2> QED
    BY <2>1, <2>2, <2>3
<1>3. LockInv'
  BY NoTaskAssumption, <1>1, ThreadFields DEF LockInv, LaunchInv, ChildrenFree, Critical, Exited
<1>4. FreshInv'
  BY NoTaskAssumption, <1>1 DEF FreshInv, LaunchInv, Launching, Stopping,
     Active, Terminal, Exited, Ended, Fresh
<1>5. LaunchInv'
  BY NoTaskAssumption, <1>1 DEF LaunchInv, FreshInv, Launching, Stopping,
     Active, Terminal, Exited, Ended, Fresh
<1>6. EndedTasksHoldNoLease'
  BY NoTaskAssumption, <1>1 DEF EndedTasksHoldNoLease, LaunchInv, Launching,
     Stopping, On, Active, Terminal, Ended
<1>7. FilesInv'
  BY NoTaskAssumption, <1>1 DEF FilesInv, Parting
<1>8. OverlapInv'
  BY NoTaskAssumption, <1>1 DEF OverlapInv, LaunchInv, InFlight, Launching,
     AnyActive, Active, Ended, Terminal
<1>9. RemovalInv'
  BY NoTaskAssumption, <1>1 DEF RemovalInv, FilesInv, Uninstalling, InFlight,
     LaunchInv, Launching, AnyActive, Active, Ended, Terminal
<1>10. ChecksAreMissedOnlyInOverlap'
  BY NoTaskAssumption, <1>1 DEF ChecksAreMissedOnlyInOverlap, OverlapInv,
     RemovalInv, FilesInv, Uninstalling, InFlight, LaunchInv, Launching,
     AnyActive, Active, Ended, Terminal
<1>11. WatchInv'
  BY NoTaskAssumption, <1>1 DEF WatchInv, LockInv, LaunchInv, On, Launching,
     Exited, ChildrenFree
<1> QED
  BY <1>2, <1>3, <1>4, <1>5, <1>6, <1>7, <1>8, <1>9, <1>10, <1>11

\* The installation sync drops a row only in an installation noted in `stray'.
LEMMA UnlistKeeps ==
  ASSUME AgentInv, requests' \in 0..MaxRequests,
         NEW h \in Threads, h = Background, Unlist
  PROVE  AgentInv'
<1> USE DEF AgentInv, Types, TypesButOp
<1>1. Moved(h, "place", op[h].task, op[h].active, op[h].batch)
  BY GoToMoves, ReturnMoves DEF Unlist, Places
<1> USE DEF Unlist, At, Moved
<1> USE DEF taskVars, handles, processes, disk, history, fixed, Idle
<1>2. Types'
  <2>1. (op \in [Threads -> Thread])'
    BY <1>1
  <2>2. TypesButOp'
    BY NoTaskAssumption, <1>1, ThreadFields DEF Active, Terminal, Exited
  <2>3. (\A g \in Threads : op[g].batch \subseteq children)'
    BY NoTaskAssumption, <1>1 DEF LockInv, LaunchInv, Launching, ChildrenFree, Critical
  <2> QED
    BY <2>1, <2>2, <2>3
<1>3. LockInv'
  BY NoTaskAssumption, <1>1, ThreadFields DEF LockInv, LaunchInv, ChildrenFree, Critical, Exited
<1>4. FreshInv'
  BY NoTaskAssumption, <1>1 DEF FreshInv, LaunchInv, Launching, Stopping,
     Active, Terminal, Exited, Ended, Fresh
<1>5. LaunchInv'
  BY NoTaskAssumption, <1>1 DEF LaunchInv, FreshInv, Launching, Stopping,
     Active, Terminal, Exited, Ended, Fresh
<1>6. EndedTasksHoldNoLease'
  BY NoTaskAssumption, <1>1 DEF EndedTasksHoldNoLease, LaunchInv, Launching,
     Stopping, On, Active, Terminal, Ended
<1>7. FilesInv'
  BY NoTaskAssumption, <1>1 DEF FilesInv, Parting
<1>8. OverlapInv'
  BY NoTaskAssumption, <1>1 DEF OverlapInv, LaunchInv, InFlight, Launching,
     AnyActive, Active, Ended, Terminal
<1>9. RemovalInv'
  BY NoTaskAssumption, <1>1 DEF RemovalInv, FilesInv, Uninstalling, InFlight,
     LaunchInv, Launching, AnyActive, Active, Ended, Terminal
<1>10. ChecksAreMissedOnlyInOverlap'
  BY NoTaskAssumption, <1>1 DEF ChecksAreMissedOnlyInOverlap, OverlapInv,
     RemovalInv, FilesInv, Uninstalling, InFlight, LaunchInv, Launching,
     AnyActive, Active, Ended, Terminal
<1>11. WatchInv'
  BY NoTaskAssumption, <1>1 DEF WatchInv, LockInv, LaunchInv, On, Launching,
     Exited, ChildrenFree
<1> QED
  BY <1>2, <1>3, <1>4, <1>5, <1>6, <1>7, <1>8, <1>9, <1>10, <1>11

\* Directory and row were parted before the installation sync began.
LEMMA SynchronizeKeeps ==
  ASSUME AgentInv, requests' \in 0..MaxRequests,
         NEW h \in Threads, h = Background, Synchronize
  PROVE  AgentInv'
<1> USE DEF AgentInv, Types, TypesButOp
<1>1. Moved(h, "unlist", op[h].task, op[h].active, op[h].batch)
  BY GoToMoves, ReturnMoves DEF Synchronize, Places
<1> USE DEF Synchronize, At, Moved
<1> USE DEF taskVars, handles, processes, disk, history, fixed, Idle
<1>2. Types'
  <2>1. (op \in [Threads -> Thread])'
    BY <1>1
  <2>2. TypesButOp'
    BY NoTaskAssumption, <1>1, ThreadFields DEF Active, Terminal, Exited
  <2>3. (\A g \in Threads : op[g].batch \subseteq children)'
    BY NoTaskAssumption, <1>1 DEF LockInv, LaunchInv, Launching, ChildrenFree, Critical
  <2> QED
    BY <2>1, <2>2, <2>3
<1>3. LockInv'
  BY NoTaskAssumption, <1>1, ThreadFields DEF LockInv, LaunchInv, ChildrenFree, Critical, Exited
<1>4. FreshInv'
  BY NoTaskAssumption, <1>1 DEF FreshInv, LaunchInv, Launching, Stopping,
     Active, Terminal, Exited, Ended, Fresh
<1>5. LaunchInv'
  BY NoTaskAssumption, <1>1 DEF LaunchInv, FreshInv, Launching, Stopping,
     Active, Terminal, Exited, Ended, Fresh
<1>6. EndedTasksHoldNoLease'
  BY NoTaskAssumption, <1>1 DEF EndedTasksHoldNoLease, LaunchInv, Launching,
     Stopping, On, Active, Terminal, Ended
<1>7. FilesInv'
  BY NoTaskAssumption, <1>1 DEF FilesInv, Parting
<1>8. OverlapInv'
  BY NoTaskAssumption, <1>1 DEF OverlapInv, LaunchInv, InFlight, Launching,
     AnyActive, Active, Ended, Terminal
<1>9. RemovalInv'
  BY NoTaskAssumption, <1>1 DEF RemovalInv, FilesInv, Uninstalling, InFlight,
     LaunchInv, Launching, AnyActive, Active, Ended, Terminal
<1>10. ChecksAreMissedOnlyInOverlap'
  BY NoTaskAssumption, <1>1 DEF ChecksAreMissedOnlyInOverlap, OverlapInv,
     RemovalInv, FilesInv, Uninstalling, InFlight, LaunchInv, Launching,
     AnyActive, Active, Ended, Terminal
<1>11. WatchInv'
  BY NoTaskAssumption, <1>1 DEF WatchInv, LockInv, LaunchInv, On, Launching,
     Exited, ChildrenFree
<1> QED
  BY <1>2, <1>3, <1>4, <1>5, <1>6, <1>7, <1>8, <1>9, <1>10, <1>11

\* A crash ends what was active with its lease, and notes what it cuts.
LEMMA CrashKeeps ==
  ASSUME AgentInv, requests' \in 0..MaxRequests,
         Crash
  PROVE  AgentInv'
<1> USE DEF AgentInv, Types, TypesButOp
<1> USE DEF Crash, RecoveredLease, Interrupted, At
<1> USE DEF taskVars, handles, processes, disk, history, fixed, Idle
<1>2. Types'
  <2>1. /\ op' \in [Threads -> Thread]
        /\ \A h \in Threads : op'[h].batch \subseteq children'
    BY IdleIsThread
  <2>2. status' \in [Tasks -> {"none"} \cup Active \cup Terminal] /\ lease' \in [Tasks -> {"none", "live", "gone"}]
    BY DEF Active, Terminal
  <2>3. server' \in [Tasks -> {"none", "serving", "finishing", "ending", "revoking", "done"}]
    OBVIOUS
  <2>4. stray' \in BOOLEAN /\ crashes' \in 0..MaxCrashes /\ cut' \subseteq Tasks /\ children' = {} /\ servers' = {}
    BY TaskBoundAssumption
  <2> QED
    BY <2>1, <2>2, <2>3, <2>4
<1>3. LockInv'
  BY NoTaskAssumption DEF LockInv, LaunchInv, ChildrenFree, Critical, Exited,
     Thread
<1>4. FreshInv'
  BY NoTaskAssumption DEF FreshInv, LaunchInv, Launching, Stopping, Active,
     Terminal, Exited, Ended, Fresh
<1>5. LaunchInv'
  BY NoTaskAssumption DEF LaunchInv, FreshInv, Launching, Stopping, Active,
     Terminal, Exited, Ended, Fresh
<1>6. EndedTasksHoldNoLease'
  BY NoTaskAssumption DEF EndedTasksHoldNoLease, LaunchInv, Launching,
     Stopping, On, Active, Terminal, Ended
<1>7. FilesInv'
  BY NoTaskAssumption DEF FilesInv, Parting
<1>8. OverlapInv'
  BY NoTaskAssumption DEF OverlapInv, LaunchInv, InFlight, Launching,
     AnyActive, Active, Ended, Terminal
<1>9. RemovalInv'
  BY NoTaskAssumption DEF RemovalInv, FilesInv, Uninstalling, InFlight,
     LaunchInv, Launching, AnyActive, Active, Ended, Terminal
<1>10. ChecksAreMissedOnlyInOverlap'
  BY NoTaskAssumption DEF ChecksAreMissedOnlyInOverlap, OverlapInv,
     RemovalInv, FilesInv, Uninstalling, InFlight, LaunchInv, Launching,
     AnyActive, Active, Ended, Terminal
<1>11. WatchInv'
  BY NoTaskAssumption DEF WatchInv, LockInv, LaunchInv, On, Launching, Exited,
     ChildrenFree
<1> QED
  BY <1>2, <1>3, <1>4, <1>5, <1>6, <1>7, <1>8, <1>9, <1>10, <1>11

\* Steps of a Runner.
LEMMA RunnerStepKeeps ==
  ASSUME AgentInv, requests' \in 0..MaxRequests,
         NEW t \in Tasks, RunnerStep(t)
  PROVE  AgentInv'
<1> USE DEF AgentInv, Types, TypesButOp
<1> USE DEF RunnerStep, AuthorizeLaunch, StartApplet, AppletEnds, RunnerFails, At
<1> USE DEF taskVars, handles, processes, disk, history, fixed, Idle
<1>2. Types'
  BY NoTaskAssumption DEF Types, LockInv, LaunchInv, Launching, Stopping,
     Active, Terminal, Exited, Ended, ChildrenFree, Critical, Thread, Places
<1>3. LockInv'
  BY NoTaskAssumption DEF LockInv, LaunchInv, ChildrenFree, Critical, Exited,
     Thread
<1>4. FreshInv'
  BY NoTaskAssumption DEF FreshInv, LaunchInv, Launching, Stopping, Active,
     Terminal, Exited, Ended, Fresh
<1>5. LaunchInv'
  BY NoTaskAssumption DEF LaunchInv, FreshInv, Launching, Stopping, Active,
     Terminal, Exited, Ended, Fresh
<1>6. EndedTasksHoldNoLease'
  BY NoTaskAssumption DEF EndedTasksHoldNoLease, LaunchInv, Launching,
     Stopping, On, Active, Terminal, Ended
<1>7. FilesInv'
  BY NoTaskAssumption DEF FilesInv, Parting
<1>8. OverlapInv'
  BY NoTaskAssumption DEF OverlapInv, LaunchInv, InFlight, Launching,
     AnyActive, Active, Ended, Terminal
<1>9. RemovalInv'
  BY NoTaskAssumption DEF RemovalInv, FilesInv, Uninstalling, InFlight,
     LaunchInv, Launching, AnyActive, Active, Ended, Terminal
<1>10. ChecksAreMissedOnlyInOverlap'
  BY NoTaskAssumption DEF ChecksAreMissedOnlyInOverlap, OverlapInv,
     RemovalInv, FilesInv, Uninstalling, InFlight, LaunchInv, Launching,
     AnyActive, Active, Ended, Terminal
<1>11. WatchInv'
  BY NoTaskAssumption DEF WatchInv, LockInv, LaunchInv, On, Launching, Exited,
     ChildrenFree
<1> QED
  BY <1>2, <1>3, <1>4, <1>5, <1>6, <1>7, <1>8, <1>9, <1>10, <1>11

\* Steps of the thread that serves a web UI task.
LEMMA ServerStepKeeps ==
  ASSUME AgentInv, requests' \in 0..MaxRequests,
         NEW t \in Tasks, ServerEnds(t) \/ ServerStep(t)
  PROVE  AgentInv'
<1> USE DEF AgentInv, Types, TypesButOp
<1> USE DEF ServerStep, ServerEnds, ServerReadsTask, ServerEndsTask, ServerRevokes, ServerMoves, Revoked, At
<1> USE DEF taskVars, handles, processes, disk, history, fixed, Idle
<1>2. Types'
  BY NoTaskAssumption DEF Types, LockInv, LaunchInv, Launching, Stopping,
     Active, Terminal, Exited, Ended, ChildrenFree, Critical, Thread, Places
<1>3. LockInv'
  BY NoTaskAssumption DEF LockInv, LaunchInv, ChildrenFree, Critical, Exited,
     Thread
<1>4. FreshInv'
  BY NoTaskAssumption DEF FreshInv, LaunchInv, Launching, Stopping, Active,
     Terminal, Exited, Ended, Fresh
<1>5. LaunchInv'
  BY NoTaskAssumption DEF LaunchInv, FreshInv, Launching, Stopping, Active,
     Terminal, Exited, Ended, Fresh
<1>6. EndedTasksHoldNoLease'
  BY NoTaskAssumption DEF EndedTasksHoldNoLease, LaunchInv, Launching,
     Stopping, On, Active, Terminal, Ended
<1>7. FilesInv'
  BY NoTaskAssumption DEF FilesInv, Parting
<1>8. OverlapInv'
  BY NoTaskAssumption DEF OverlapInv, LaunchInv, InFlight, Launching,
     AnyActive, Active, Ended, Terminal
<1>9. RemovalInv'
  BY NoTaskAssumption DEF RemovalInv, FilesInv, Uninstalling, InFlight,
     LaunchInv, Launching, AnyActive, Active, Ended, Terminal
<1>10. ChecksAreMissedOnlyInOverlap'
  BY NoTaskAssumption DEF ChecksAreMissedOnlyInOverlap, OverlapInv,
     RemovalInv, FilesInv, Uninstalling, InFlight, LaunchInv, Launching,
     AnyActive, Active, Ended, Terminal
<1>11. WatchInv'
  BY NoTaskAssumption DEF WatchInv, LockInv, LaunchInv, On, Launching, Exited,
     ChildrenFree
<1> QED
  BY <1>2, <1>3, <1>4, <1>5, <1>6, <1>7, <1>8, <1>9, <1>10, <1>11

\* A lease expires.
LEMMA LeaseExpiresKeeps ==
  ASSUME AgentInv, requests' \in 0..MaxRequests,
         NEW t \in Tasks, LeaseExpires(t)
  PROVE  AgentInv'
<1> USE DEF AgentInv, Types, TypesButOp
<1> USE DEF LeaseExpires, At
<1> USE DEF taskVars, handles, processes, disk, history, fixed, Idle
<1>2. Types'
  BY NoTaskAssumption DEF Types, LockInv, LaunchInv, Launching, Stopping,
     Active, Terminal, Exited, Ended, ChildrenFree, Critical, Thread, Places
<1>3. LockInv'
  BY NoTaskAssumption DEF LockInv, LaunchInv, ChildrenFree, Critical, Exited,
     Thread
<1>4. FreshInv'
  BY NoTaskAssumption DEF FreshInv, LaunchInv, Launching, Stopping, Active,
     Terminal, Exited, Ended, Fresh
<1>5. LaunchInv'
  BY NoTaskAssumption DEF LaunchInv, FreshInv, Launching, Stopping, Active,
     Terminal, Exited, Ended, Fresh
<1>6. EndedTasksHoldNoLease'
  BY NoTaskAssumption DEF EndedTasksHoldNoLease, LaunchInv, Launching,
     Stopping, On, Active, Terminal, Ended
<1>7. FilesInv'
  BY NoTaskAssumption DEF FilesInv, Parting
<1>8. OverlapInv'
  BY NoTaskAssumption DEF OverlapInv, LaunchInv, InFlight, Launching,
     AnyActive, Active, Ended, Terminal
<1>9. RemovalInv'
  BY NoTaskAssumption DEF RemovalInv, FilesInv, Uninstalling, InFlight,
     LaunchInv, Launching, AnyActive, Active, Ended, Terminal
<1>10. ChecksAreMissedOnlyInOverlap'
  BY NoTaskAssumption DEF ChecksAreMissedOnlyInOverlap, OverlapInv,
     RemovalInv, FilesInv, Uninstalling, InFlight, LaunchInv, Launching,
     AnyActive, Active, Ended, Terminal
<1>11. WatchInv'
  BY NoTaskAssumption DEF WatchInv, LockInv, LaunchInv, On, Launching, Exited,
     ChildrenFree
<1> QED
  BY <1>2, <1>3, <1>4, <1>5, <1>6, <1>7, <1>8, <1>9, <1>10, <1>11

\* Steps of a thread that change only where it is.
LEMMA QuietKeeps ==
  ASSUME AgentInv, requests' \in 0..MaxRequests,
         NEW h \in Threads,
         \/ Refreshed(h) \/ CannotInsert(h) \/ CannotStart(h) \/ Join(h) \/ Find(h)
         \/ Run(h) \/ Install(h) \/ Refresh(h)
  PROVE  AgentInv'
<1> USE DEF AgentInv, Types, TypesButOp
<1>1. \/ op[h].at = "record" /\ op[h].batch = {} /\ Moved(h, "idle", NoTask, FALSE, {})
      \/ op[h].at = "record" /\ op[h].batch = {} /\ Moved(h, "lookup", NoTask, FALSE, {})
      \/ op[h].at \in {"insert", "find"} /\ Moved(h, "idle", NoTask, FALSE, {})
      \/ op[h].at \in {"spawn", "serve"} /\ Moved(h, "fail", op[h].task, op[h].active, op[h].batch)
      \/ op[h].at = "join" /\ Moved(h, "takeChild", op[h].task, op[h].active, op[h].batch)
      \/ op[h].at = "find" /\ row /\ Moved(h, "rename", op[h].task, op[h].active, op[h].batch)
      \/ op[h].at = "idle" /\ Moved(h, "reap", NoTask, FALSE, {})
      \/ op[h].at = "idle" /\ Moved(h, "place", NoTask, FALSE, {})
  <2>1. CASE Refreshed(h)
    BY <2>1, RefreshedMoves DEF Refreshed, At
  <2>2. CASE CannotInsert(h)
    BY <2>2, ReturnMoves DEF CannotInsert, At
  <2>3. CASE CannotStart(h)
    BY <2>3, GoToMoves DEF CannotStart, Places
  <2>4. CASE Join(h)
    BY <2>4, GoToMoves DEF Join, At, Places
  <2>5. CASE Find(h)
    BY <2>5, GoToMoves, ReturnMoves DEF Find, At, Places
  <2>6. CASE Run(h) \/ Install(h) \/ Refresh(h)
    <3>1. ASSUME NEW place \in {"reap", "place"}, NEW then \in {"idle", "lookup"},
                 Begin(h, place, then)
          PROVE  Moved(h, place, NoTask, FALSE, {})
      BY <3>1, BeginMoves DEF Places
    <3> QED
      BY <2>6, <3>1 DEF Run, Install, Refresh, Begin, At
  <2> QED
    BY <2>1, <2>2, <2>3, <2>4, <2>5, <2>6
<1> USE DEF Refreshed, CannotInsert, CannotStart, Join, Find, Run, Install, Refresh, Begin, At, Moved
<1> USE DEF taskVars, handles, processes, disk, history, fixed, Idle
<1>2. Types'
  <2>1. (op \in [Threads -> Thread])'
    BY <1>1
  <2>2. TypesButOp'
    BY NoTaskAssumption, <1>1, ThreadFields DEF Active, Terminal, Exited
  <2>3. (\A g \in Threads : op[g].batch \subseteq children)'
    BY NoTaskAssumption, <1>1 DEF LockInv, LaunchInv, Launching, ChildrenFree, Critical
  <2> QED
    BY <2>1, <2>2, <2>3
<1>3. LockInv'
  BY SMTT(45), NoTaskAssumption, <1>1, ThreadFields DEF LockInv, LaunchInv, ChildrenFree, Critical, Exited
<1>4. FreshInv'
  BY NoTaskAssumption, <1>1 DEF FreshInv, LaunchInv, Launching, Stopping,
     Active, Terminal, Exited, Ended, Fresh
<1>5. LaunchInv'
  BY NoTaskAssumption, <1>1 DEF LaunchInv, FreshInv, Launching, Stopping,
     Active, Terminal, Exited, Ended, Fresh
<1>6. EndedTasksHoldNoLease'
  BY NoTaskAssumption, <1>1 DEF EndedTasksHoldNoLease, LaunchInv, Launching,
     Stopping, On, Active, Terminal, Ended
<1>7. FilesInv'
  BY NoTaskAssumption, <1>1 DEF FilesInv, Parting
<1>8. OverlapInv'
  BY NoTaskAssumption, <1>1 DEF OverlapInv, LaunchInv, InFlight, Launching,
     AnyActive, Active, Ended, Terminal
<1>9. RemovalInv'
  BY NoTaskAssumption, <1>1 DEF RemovalInv, FilesInv, Uninstalling, InFlight,
     LaunchInv, Launching, AnyActive, Active, Ended, Terminal
<1>10. ChecksAreMissedOnlyInOverlap'
  BY NoTaskAssumption, <1>1 DEF ChecksAreMissedOnlyInOverlap, OverlapInv,
     RemovalInv, FilesInv, Uninstalling, InFlight, LaunchInv, Launching,
     AnyActive, Active, Ended, Terminal
<1>11. WatchInv'
  BY NoTaskAssumption, <1>1 DEF WatchInv, LockInv, LaunchInv, On, Launching,
     Exited, ChildrenFree
<1> QED
  BY <1>2, <1>3, <1>4, <1>5, <1>6, <1>7, <1>8, <1>9, <1>10, <1>11


\* A fresh Agent satisfies the invariant.
LEMMA InitInv == Init => AgentInv
<1> SUFFICES ASSUME Init PROVE AgentInv
  OBVIOUS
<1>1. \A h \in Threads : op[h].at = "idle" /\ op[h].task = NoTask /\ op[h].batch = {}
  BY DEF Init, Idle
<1>2. Types
  <2>1. op \in [Threads -> Thread]
    BY IdleIsThread DEF Init
  <2>2. TypesButOp
    <3>1. /\ status \in [Tasks -> {"none"} \cup Active \cup Terminal]
          /\ lease \in [Tasks -> {"none", "live", "gone"}]
          /\ runner \in [Tasks -> {"none", "asking", "cleared", "waiting"} \cup Exited]
          /\ server \in [Tasks -> {"none", "serving", "finishing", "ending", "revoking", "done"}]
      BY DEF Init
    <3>2. crashes \in 0..MaxCrashes /\ requests \in 0..MaxRequests
      BY TaskBoundAssumption DEF Init
    <3>3. kind \in {"process", "web"} /\ mode \in {"singleton", "parallel"}
      BY DEF Init
    <3>4. /\ files \in BOOLEAN /\ row \in BOOLEAN /\ stray \in BOOLEAN
          /\ children \subseteq Tasks /\ servers \subseteq Tasks
          /\ missed \subseteq Tasks /\ cut \subseteq Tasks
      BY DEF Init
    <3> QED
      BY <3>1, <3>2, <3>3, <3>4 DEF TypesButOp
  <2> QED
    BY <1>1, <2>1, <2>2 DEF Types
<1>3. LockInv /\ LaunchInv /\ FreshInv
  BY <1>1, NoTaskAssumption DEF Init, LockInv, LaunchInv, FreshInv, Critical, Launching, Stopping
<1>4. FilesInv /\ OverlapInv /\ RemovalInv
  BY <1>1 DEF Init, FilesInv, OverlapInv, RemovalInv, Parting, Uninstalling, Active
<1>5. EndedTasksHoldNoLease /\ ChecksAreMissedOnlyInOverlap /\ WatchInv
  BY DEF Init, EndedTasksHoldNoLease, ChecksAreMissedOnlyInOverlap, WatchInv, Active
<1> QED
  BY <1>2, <1>3, <1>4, <1>5 DEF AgentInv

\* Every step keeps the invariant.
LEMMA StepInv == AgentInv /\ [Next]_vars => AgentInv'
<1> SUFFICES ASSUME AgentInv, [Next]_vars PROVE AgentInv'
  OBVIOUS
<1>1. CASE UNCHANGED vars
  BY <1>1 DEF vars, taskVars, handles, processes, disk, history, fixed, AgentInv, Types,
     TypesButOp, LockInv, LaunchInv, FreshInv, FilesInv, OverlapInv, RemovalInv,
     EndedTasksHoldNoLease, ChecksAreMissedOnlyInOverlap, WatchInv, Parting, Uninstalling,
     InFlight, On
<1>2. CASE Next
  <2>1. requests' \in 0..MaxRequests
    BY <1>2, TaskBoundAssumption DEF Next, Asked, AgentInv, Types, TypesButOp
  <2>2. ASSUME NEW h \in Threads, Request(h) PROVE AgentInv'
    BY <2>1, <2>2, QuietKeeps, UninstallKeeps, StopKeeps DEF Request
  <2>3. ASSUME NEW h \in Threads, Step(h) PROVE AgentInv'
    <3>1. CASE RefreshStep(h)
      BY <2>1, <3>1, ReapServersKeeps, CollectKeeps, ReleaseKeeps, QuietKeeps, RecordKeeps
         DEF RefreshStep
    <3>2. CASE RunStep(h)
      BY <2>1, <3>2, LookUpKeeps, CheckModeKeeps, InsertTaskKeeps, QuietKeeps, SpawnKeeps,
         MarkRunningKeeps, RegisterChildKeeps, StartServerKeeps, RegisterServerKeeps,
         RunFailsKeeps, RevokeLeasesKeeps DEF RunStep
    <3>3. CASE StopStep(h)
      BY <2>1, <3>3, TakeServerKeeps, QuietKeeps, TakeChildKeeps, WriteStoppedKeeps DEF StopStep
    <3>4. CASE FileStep(h)
      BY <2>1, <3>4, QuietKeeps, RenameToTrashKeeps, RemoveInstallKeeps, PlaceKeeps,
         ActivateInstallKeeps, UnlistKeeps DEF FileStep
    <3> QED
      BY <2>3, <3>1, <3>2, <3>3, <3>4 DEF Step
  <2>4. ASSUME Refresh(Background) PROVE AgentInv'
    BY <2>1, <2>4, QuietKeeps, BackgroundAssumption
  <2>5. ASSUME NEW t \in Tasks, RunnerStep(t) \/ ServerEnds(t) \/ ServerStep(t) \/ LeaseExpires(t)
        PROVE  AgentInv'
    BY <2>1, <2>5, RunnerStepKeeps, ServerStepKeeps, LeaseExpiresKeeps
  <2>6. ASSUME Synchronize PROVE AgentInv'
    BY <2>1, <2>6, SynchronizeKeeps, BackgroundAssumption
  <2>7. ASSUME Crash PROVE AgentInv'
    BY <2>1, <2>7, CrashKeeps
  <2> QED
    BY <1>2, <2>2, <2>3, <2>4, <2>5, <2>6, <2>7 DEF Next
<1> QED
  BY <1>1, <1>2

(* Whatever the threads of the Agent, its Runners and its servers do, the  *)
(* parts of AgentInv hold.                                                 *)
THEOREM AgentInvariant == Spec => []AgentInv
<1> QED
  BY InitInv, StepInv, PTL DEF Spec

(* The state of the Agent is as its types say. *)
THEOREM AgentTypeCorrect == Spec => []TypeOK
<1>1. AgentInv => TypeOK
  BY TypesSplit DEF AgentInv, Types
<1> QED
  BY <1>1, AgentInvariant, PTL

(* A task that has ended holds no lease once nobody is about to revoke it, *)
(* and a directory under apps/ has its row, but for what a crash cut and   *)
(* what an installation in the middle of an uninstallation parted.         *)
THEOREM TablesAreAlwaysTrue == Spec => []TablesAreTrue
<1>1. AgentInv => TablesAreTrue
  BY DEF AgentInv, TablesAreTrue, FilesInv, FilesMatchTheTable
<1> QED
  BY <1>1, AgentInvariant, PTL

(* Two active tasks of a singleton application, or a task that is active   *)
(* without an installation, come only from operations that overlapped      *)
(* between a check and the write it is for.                                *)
THEOREM MissedChecksOverlap == Spec => []ChecksAreMissedOnlyInOverlap
<1>1. AgentInv => ChecksAreMissedOnlyInOverlap
  BY DEF AgentInv
<1> QED
  BY <1>1, AgentInvariant, PTL

\* No step writes the status of a task that has ended for good.
LEMMA VerdictStep ==
  ASSUME AgentInv, [Next]_vars, NEW t \in Tasks, EndedForGood(t)
  PROVE  status'[t] = status[t]
<1> USE DEF AgentInv, Types, TypesButOp, EndedForGood, taskVars, handles, processes, disk,
    history, fixed, Ended, At
<1>1. ASSUME NEW h \in Threads, Step(h) PROVE status'[t] = status[t]
  <2>1. ASSUME NEW u \in Tasks, Record(h, u) PROVE status'[t] = status[t]
    BY <2>1 DEF Record
  <2>2. CASE RefreshStep(h)
    BY <2>1, <2>2 DEF RefreshStep, ReapServers, Collect, Release, Refreshed
  <2>3. ASSUME InsertTask(h) PROVE status'[t] = status[t]
    BY <2>3 DEF InsertTask, LaunchInv, Terminal
  <2>4. ASSUME MarkRunning(h) \/ RunFails(h) PROVE status'[t] = status[t]
    BY <2>4 DEF MarkRunning, RunFails, On
  <2>5. CASE RunStep(h)
    BY <2>3, <2>4, <2>5 DEF RunStep, LookUp, CheckMode, CannotInsert, Spawn, RegisterChild,
       StartServer, RegisterServer, CannotStart, RevokeLeases
  <2>6. CASE StopStep(h)
    BY <2>6 DEF StopStep, TakeServer, Join, TakeChild, WriteStopped
  <2>7. CASE FileStep(h)
    BY <2>7 DEF FileStep, Find, RenameToTrash, RemoveInstall, Place, ActivateInstall, Unlist
  <2> QED
    BY <1>1, <2>2, <2>5, <2>6, <2>7 DEF Step
<1>2. ASSUME NEW h \in Threads, Request(h) \/ Refresh(h) PROVE status'[t] = status[t]
  BY <1>2 DEF Request, Refresh, Run, Uninstall, Install, Stop, Begin
<1>3. ASSUME NEW u \in Tasks, RunnerStep(u) \/ ServerEnds(u) \/ ServerStep(u) \/ LeaseExpires(u)
      PROVE  status'[t] = status[t]
  BY <1>3 DEF RunnerStep, AuthorizeLaunch, StartApplet, AppletEnds, RunnerFails, ServerEnds,
     ServerStep, ServerReadsTask, ServerEndsTask, ServerRevokes, ServerMoves, LeaseExpires
<1>4. ASSUME Synchronize \/ Crash \/ UNCHANGED vars PROVE status'[t] = status[t]
  BY <1>4 DEF Synchronize, Crash, Interrupted, vars, Active, Terminal
<1> QED
  BY <1>1, <1>2, <1>3, <1>4, BackgroundAssumption DEF Next

(* A task that has ended, and that nothing under way saw active, keeps its *)
(* verdict whatever is asked of it later.                                  *)
THEOREM VerdictsStayFinal == Spec => VerdictsAreFinal
<1>1. AgentInv /\ [Next]_vars => [\A t \in Tasks : EndedForGood(t) => status'[t] = status[t]]_vars
  BY VerdictStep
<1> QED
  BY <1>1, AgentInvariant, PTL DEF Spec, VerdictsAreFinal

\* A Runner about to start its applet is within reach of stop.
LEMMA WatchStep ==
  ASSUME AgentInv, NEW t \in Tasks, runner[t] = "cleared"
  PROVE  t \in children \/ On(t, {"mark", "register"}) \/ crashes > 0
<1>1. crashes \in Nat
  BY TaskBoundAssumption DEF AgentInv, Types, TypesButOp
<1> QED
  BY <1>1 DEF AgentInv, WatchInv

(* No applet is started out of reach of stop by an Agent that has not been *)
(* restarted: its Runner's handle is in `children' or about to be.         *)
THEOREM LaunchesStayWatched == Spec => LaunchesAreWatched
<1>1. AgentInv => [\A t \in Tasks :
                     runner[t] = "cleared" /\ runner'[t] = "waiting" =>
                       \/ t \in children
                       \/ On(t, {"mark", "register"})
                       \/ crashes > 0]_vars
  BY WatchStep
<1> QED
  BY <1>1, AgentInvariant, PTL DEF Spec, LaunchesAreWatched

-----------------------------------------------------------------------------
(***************************************************************************)
(* The device.  Everything is said of enrolments that do not overlap       *)
(* (InTurnInv).  Then an enrolment is alone with an Agent that is not      *)
(* enrolled (AloneInv), holds the credential the API knows once it is      *)
(* registered (Holds), and what the Agent is enrolled with, and what the   *)
(* background thread asks with, is known to the API or was revoked         *)
(* (HeldInv): the thread takes only a revocation for a refusal.            *)
(***************************************************************************)

DeviceRow ==
  [status : {"none", "active", "revoked"}, workspace : Workspaces \cup {NoWorkspace}, credential : 0..MaxIssued]
Enrolment ==
  [at : {"idle", "prepare", "register", "complete"} \cup InAgent, owner : Owners \cup {NoOwner},
   workspace : Workspaces \cup {NoWorkspace}, credential : 0..MaxIssued]
CycleRecord ==
  [at : {"idle", "start", "ready", "asked", "refused", "removed"}, device : Owners \cup {NoOwner},
   credential : 0..MaxIssued]

\* Whoever is at something is at it for an owner.
EnrolmentFits(w) ==
  /\ enrolment[w].at = "idle" => enrolment[w] = NoEnrolment
  /\ enrolment[w].at # "idle" => enrolment[w].owner \in Owners /\ enrolment[w].workspace \in Workspaces

CycleFits ==
  /\ cycle.at = "idle" => cycle = NoCycle
  /\ cycle.at # "idle" => cycle.device \in Owners

\* One enrolment at a time, and none while the Agent is enrolled or a registration is
\* still on its way.
AloneInv ==
  /\ \A w, v \in Windows : enrolment[w].at # "idle" /\ enrolment[v].at # "idle" => w = v
  /\ \A w \in Windows : enrolment[w].at # "idle" => late = {} /\ config = NoOwner
  /\ late # {} => config = NoOwner

\* From the registration on an enrolment holds the credential the API knows, and the
\* background thread is not about to delete it; the Agent is not enrolled meanwhile, so
\* that there is nothing to rotate.
Holds(w) ==
  /\ enrolment[w].at # "rotate"
  /\ enrolment[w].at \in {"complete", "save", "write"} =>
       LET o == enrolment[w].owner
       IN  /\ device[o].status # "none" /\ device[o].credential = enrolment[w].credential
           /\ enrolment[w].credential # NoCredential
           /\ cycle.at = "removed" => cycle.device # o
           /\ enrolment[w].at = "write" => keychain[o] = enrolment[w].credential

\* The API accepts the credential, or the device was revoked.
Known(o, credential) ==
  \/ device[o].status = "revoked"
  \/ device[o].status = "active" /\ credential # NoCredential /\ device[o].credential = credential

HeldInv ==
  /\ config # NoOwner => Known(config, keychain[config])
  /\ cycle.at \in {"start", "ready", "asked", "refused"} => config = cycle.device
  /\ cycle.at = "asked" => Known(cycle.device, cycle.credential)
  /\ cycle.at \in {"refused", "removed"} => device[cycle.device].status = "revoked"

InTurnInv == AloneInv /\ (\A w \in Windows : Holds(w)) /\ HeldInv

EnrollInv ==
  EnrollmentTypeOK /\ (\A w \in Windows : EnrolmentFits(w)) /\ CycleFits /\ (~overlapped => InTurnInv)

LEMMA EnrollmentInitially == EnrollmentInit => EnrollInv
<1>1. EnrollmentInit => EnrollmentTypeOK
  <2>1. 0 \in 0..MaxIssued /\ 0 \in 0..MaxFaults
    BY EnrollmentAssumption DEF EnrollmentAssumption
  <2>2. Unregistered \in DeviceRow
    BY <2>1 DEF Unregistered, DeviceRow, NoCredential
  <2>3. NoEnrolment \in Enrolment
    BY <2>1 DEF NoEnrolment, Enrolment, NoCredential
  <2>4. NoCycle \in CycleRecord
    BY <2>1 DEF NoCycle, CycleRecord, NoCredential
  <2>5. EnrollmentInit =>
          /\ device \in [Owners -> DeviceRow] /\ issued \in 0..MaxIssued /\ keychain \in [Owners -> 0..MaxIssued]
          /\ enrolment \in [Windows -> Enrolment] /\ cycle \in CycleRecord /\ faults \in 0..MaxFaults
    BY <2>1, <2>2, <2>3, <2>4 DEF EnrollmentInit, NoCredential
  <2>6. EnrollmentInit =>
          /\ identity \in {"missing", "empty", "written"} /\ config \in Owners \cup {NoOwner}
          /\ late \subseteq Registration /\ overlapped \in BOOLEAN
    BY DEF EnrollmentInit
  <2>7. QED BY <2>5, <2>6 DEF EnrollmentTypeOK, DeviceRow, Enrolment, CycleRecord
<1>2. EnrollmentInit => (\A w \in Windows : EnrolmentFits(w)) /\ CycleFits
  BY DEF EnrollmentInit, EnrolmentFits, CycleFits, NoEnrolment, NoCycle
<1>3. EnrollmentInit => InTurnInv
  BY DEF EnrollmentInit, InTurnInv, AloneInv, Holds, HeldInv, NoEnrolment, NoCycle
<1>4. QED BY <1>1, <1>2, <1>3 DEF EnrollInv

\* What is known of an enrolment that is under way.
LEMMA EnrolmentFacts ==
  ASSUME EnrollInv, NEW w \in Windows
  PROVE  /\ enrolment \in [Windows -> Enrolment] /\ enrolment[w] \in Enrolment
         /\ NoEnrolment \in Enrolment /\ NoEnrolment.at = "idle"
         /\ \A at \in {"identify", "register", "save", "rotate", "write"} :
              [enrolment[w] EXCEPT !.at = at] \in Enrolment
         /\ EnrolmentFits(w)
         /\ ~overlapped => InTurnInv
<1>1. enrolment \in [Windows -> Enrolment] /\ EnrolmentFits(w) /\ (~overlapped => InTurnInv)
  BY DEF EnrollInv, EnrollmentTypeOK, Enrolment
<1>2. NoEnrolment \in Enrolment /\ NoEnrolment.at = "idle"
  BY EnrollmentAssumption DEF EnrollmentAssumption, NoEnrolment, Enrolment, NoCredential
<1>3. \A at \in {"identify", "register", "save", "rotate", "write"} : [enrolment[w] EXCEPT !.at = at] \in Enrolment
  BY <1>1 DEF Enrolment, InAgent
<1>4. QED BY <1>1, <1>2, <1>3

(* A step of one enrolment that the API and the background thread do not see. *)
LEMMA EnrolmentMoves ==
  ASSUME EnrollInv, NEW w \in Windows, UNCHANGED <<device, issued, cycle, overlapped>>,
         \A v \in Windows : v # w => enrolment'[v] = enrolment[v],
         enrolment' \in [Windows -> Enrolment], EnrolmentFits(w)',
         identity' \in {"missing", "empty", "written"}, keychain' \in [Owners -> 0..MaxIssued],
         config' \in Owners \cup {NoOwner}, late' \subseteq Registration, faults' \in 0..MaxFaults,
         ~overlapped => /\ enrolment'[w].at # "idle" => late' = late /\ config' = config
                        /\ enrolment[w].at # "idle"
                        /\ late' # {} => config' = NoOwner
                        /\ Holds(w)'
                        /\ config' # NoOwner => Known(config', keychain'[config'])
                        /\ cycle.at \in {"start", "ready", "asked", "refused"} => config' = cycle.device
  PROVE  EnrollInv'
<1>1. EnrollmentTypeOK'
  BY DEF EnrollInv, EnrollmentTypeOK, Enrolment
<1>2. (\A v \in Windows : EnrolmentFits(v)') /\ CycleFits'
  BY DEF EnrollInv, EnrolmentFits, CycleFits
<1>3. ASSUME ~overlapped PROVE InTurnInv'
  <2>1. InTurnInv
    BY <1>3 DEF EnrollInv
  <2>2. \A v \in Windows : v # w => enrolment[v].at = "idle"
    BY <1>3, <2>1 DEF InTurnInv, AloneInv
  <2>3. AloneInv'
    BY <1>3, <2>1, <2>2 DEF InTurnInv, AloneInv
  <2>4. \A v \in Windows : Holds(v)'
    BY <1>3, <2>2 DEF Holds
  <2>5. HeldInv'
    BY <1>3, <2>1 DEF InTurnInv, HeldInv, Known
  <2>6. QED BY <2>3, <2>4, <2>5 DEF InTurnInv
<1>4. QED BY <1>1, <1>2, <1>3 DEF EnrollInv

\* What an ended enrolment leaves.
LEMMA EnrolmentEnds ==
  ASSUME EnrollInv, NEW w \in Windows, Ends(w), enrolment[w].at # "idle",
         UNCHANGED <<device, issued, cycle, overlapped>>,
         identity' = identity, keychain' \in [Owners -> 0..MaxIssued],
         config' \in Owners \cup {NoOwner}, late' \subseteq Registration, faults' \in 0..MaxFaults,
         ~overlapped => /\ late' # {} => config' = NoOwner
                        /\ config' # NoOwner => Known(config', keychain'[config'])
  PROVE  EnrollInv'
<1>1. /\ enrolment' \in [Windows -> Enrolment] /\ enrolment'[w] = NoEnrolment
      /\ \A v \in Windows : v # w => enrolment'[v] = enrolment[v]
  BY EnrolmentFacts DEF Ends
<1>2. EnrolmentFits(w)' /\ Holds(w)'
  BY <1>1, EnrolmentFacts DEF EnrolmentFits, Holds
<1>3. identity' \in {"missing", "empty", "written"}
  BY DEF EnrollInv, EnrollmentTypeOK
<1>4. ~overlapped /\ cycle.at \in {"start", "ready", "asked", "refused"} => config' = cycle.device
  BY EnrollmentAssumption DEF EnrollInv, InTurnInv, AloneInv, HeldInv, CycleFits, EnrollmentAssumption
<1>5. enrolment'[w].at = "idle"
  BY <1>1, EnrolmentFacts
<1>6. QED BY <1>1, <1>2, <1>3, <1>4, <1>5, EnrolmentMoves

\* An enrolment that goes on.
LEMMA EnrolmentGoesOn ==
  ASSUME EnrollInv, NEW w \in Windows, NEW at \in {"identify", "register", "save", "rotate", "write"}, Moves(w, at),
         enrolment[w].at # "idle", UNCHANGED <<registry, config, cycle, faults, overlapped>>,
         identity' \in {"missing", "empty", "written"}, keychain' \in [Owners -> 0..MaxIssued],
         at \in {"save", "rotate", "write"} => enrolment[w].at \in {"complete", "save"},
         at = "write" => keychain'[enrolment[w].owner] = enrolment[w].credential,
         ~overlapped => at # "rotate" /\ (config # NoOwner => keychain' = keychain)
  PROVE  EnrollInv'
<1>1. enrolment' = [enrolment EXCEPT ![w] = [enrolment[w] EXCEPT !.at = at]]
  BY EnrolmentFacts DEF Moves
<1>2. /\ enrolment' \in [Windows -> Enrolment] /\ enrolment'[w] = [enrolment[w] EXCEPT !.at = at]
      /\ \A v \in Windows : v # w => enrolment'[v] = enrolment[v]
  BY <1>1, EnrolmentFacts
<1>3. /\ enrolment'[w].at = at /\ enrolment'[w].owner = enrolment[w].owner
      /\ enrolment'[w].workspace = enrolment[w].workspace /\ enrolment'[w].credential = enrolment[w].credential
  BY <1>2, EnrolmentFacts DEF Enrolment
<1>4. EnrolmentFits(w)'
  BY <1>3, EnrolmentFacts DEF EnrolmentFits
<1>5. ASSUME ~overlapped PROVE Holds(w)'
  BY <1>3, <1>5 DEF Holds, EnrollInv, InTurnInv, registry
<1>6. config' \in Owners \cup {NoOwner} /\ late' \subseteq Registration /\ faults' \in 0..MaxFaults
  BY DEF EnrollInv, EnrollmentTypeOK, registry
<1>7. ASSUME ~overlapped
      PROVE  /\ late' # {} => config' = NoOwner
             /\ config' # NoOwner => Known(config', keychain'[config'])
             /\ cycle.at \in {"start", "ready", "asked", "refused"} => config' = cycle.device
  BY <1>7 DEF EnrollInv, InTurnInv, AloneInv, HeldInv, registry
<1>8. UNCHANGED <<device, issued, late>>
  BY DEF registry
<1>9. QED BY <1>2, <1>4, <1>5, <1>6, <1>7, <1>8, EnrolmentMoves

LEMMA EnrolmentKeeps ==
  ASSUME EnrollInv, NEW w \in Windows,
         \/ Prepare(w) \/ WriteIdentity(w) \/ RegisterRefused(w) \/ GiveUp(w) \/ Complete(w) \/ SaveCredential(w)
         \/ RotateCredential(w) \/ SaveFails(w) \/ WriteConfig(w) \/ WriteConfigFails(w)
  PROVE  EnrollInv'
<1>1. /\ identity \in {"missing", "empty", "written"} /\ keychain \in [Owners -> 0..MaxIssued]
      /\ config \in Owners \cup {NoOwner} /\ late \subseteq Registration /\ faults \in 0..MaxFaults
      /\ Fault => faults' \in 0..MaxFaults
  BY EnrollmentAssumption DEF EnrollInv, EnrollmentTypeOK, EnrollmentAssumption, Fault
<1>2. ~overlapped => /\ late # {} => config = NoOwner
                     /\ config # NoOwner => Known(config, keychain[config])
  BY DEF EnrollInv, InTurnInv, AloneInv, HeldInv
<1>3. enrolment[w].at # "idle" =>
        /\ enrolment[w].owner \in Owners /\ enrolment[w].workspace \in Workspaces
        /\ enrolment[w].credential \in 0..MaxIssued
        /\ ~overlapped => late = {} /\ config = NoOwner
  BY EnrolmentFacts DEF EnrolmentFits, Enrolment, InTurnInv, AloneInv
<1>4. enrolment[w].at # "idle" =>
        /\ SavedCredential(w) \in [Owners -> 0..MaxIssued]
        /\ SavedCredential(w)[enrolment[w].owner] = enrolment[w].credential
        /\ [keychain EXCEPT ![enrolment[w].owner] = NoCredential] \in [Owners -> 0..MaxIssued]
  BY <1>1, <1>3, EnrollmentAssumption DEF SavedCredential, NoCredential, EnrollmentAssumption
<1>5. CASE Prepare(w)
  <2>1. enrolment[w].at # "idle" /\ UNCHANGED <<registry, config, keychain, cycle, faults, overlapped>>
    BY <1>5 DEF Prepare
  <2>2. CASE identity = "missing"
    BY <1>1, <1>5, <2>1, <2>2, EnrolmentGoesOn DEF Prepare
  <2>3. CASE identity = "empty"
    BY <1>1, <1>2, <1>5, <2>1, <2>3, EnrolmentEnds DEF Prepare, registry
  <2>4. CASE identity = "written"
    BY <1>1, <1>5, <2>1, <2>4, EnrolmentGoesOn DEF Prepare
  <2>5. QED BY <1>1, <2>2, <2>3, <2>4
<1>6. CASE WriteIdentity(w)
  BY <1>1, <1>6, EnrolmentGoesOn DEF WriteIdentity
<1>7. CASE RegisterRefused(w)
  BY <1>1, <1>2, <1>7, EnrolmentEnds DEF RegisterRefused, registry, stored
<1>8. CASE GiveUp(w)
  <2>1. late' \subseteq Registration
    BY <1>1, <1>3, <1>8 DEF GiveUp, Registration
  <2>2. ~overlapped => config' = NoOwner
    BY <1>3, <1>8 DEF GiveUp, stored
  <2>3. QED BY <1>1, <1>8, <2>1, <2>2, EnrolmentEnds DEF GiveUp, stored
<1>9. CASE Complete(w)
  <2>1. /\ enrolment[w].at = "complete" /\ UNCHANGED <<registry, stored, cycle, faults, overlapped>>
        /\ Moves(w, "save") \/ (Moves(w, "rotate") /\ overlapped) \/ Ends(w)
    BY <1>3, <1>9, EnrollmentAssumption DEF Complete, EnrollmentAssumption, EnrollInv, EnrollmentTypeOK
  <2>2. QED BY <1>1, <1>2, <2>1, EnrolmentGoesOn, EnrolmentEnds DEF registry, stored
<1>10. CASE SaveCredential(w)
  BY <1>1, <1>3, <1>4, <1>10, EnrolmentGoesOn DEF SaveCredential
<1>11. CASE RotateCredential(w)
  BY <1>1, <1>3, <1>4, <1>11, EnrolmentEnds DEF RotateCredential, registry
<1>12. CASE SaveFails(w)
  BY <1>1, <1>2, <1>12, EnrolmentEnds DEF SaveFails, registry, stored
<1>13. CASE WriteConfig(w)
  <2>1. /\ enrolment[w].at = "write" /\ config' = enrolment[w].owner /\ Ends(w)
        /\ UNCHANGED <<registry, identity, keychain, cycle, faults, overlapped>>
    BY <1>13 DEF WriteConfig
  <2>2. ~overlapped => Known(config', keychain'[config'])
    <3>1. device[enrolment[w].owner] \in DeviceRow
      BY <1>3, <2>1 DEF EnrollInv, EnrollmentTypeOK, DeviceRow
    <3>2. QED BY <2>1, <3>1 DEF EnrollInv, InTurnInv, Holds, Known, DeviceRow
  <2>3. ~overlapped => late' = {}
    BY <1>3, <2>1 DEF registry
  <2>4. QED BY <1>1, <1>3, <2>1, <2>2, <2>3, EnrolmentEnds DEF registry
<1>14. CASE WriteConfigFails(w)
  BY <1>1, <1>3, <1>4, <1>14, EnrolmentEnds DEF WriteConfigFails, registry
<1>15. QED BY <1>5, <1>6, <1>7, <1>8, <1>9, <1>10, <1>11, <1>12, <1>13, <1>14

(* A new enrolment: while one is under way, or a registration, it overlaps. *)
LEMMA BeginningKeeps ==
  ASSUME EnrollInv, NEW w \in Windows, NEW o \in Owners, NEW ws \in Workspaces, BeginEnrollment(w, o, ws)
  PROVE  EnrollInv'
<1>1. /\ config = NoOwner /\ enrolment[w] = NoEnrolment
      /\ enrolment' = [enrolment EXCEPT ![w] = [NoEnrolment EXCEPT !.at = "prepare", !.owner = o, !.workspace = ws]]
      /\ overlapped' = (overlapped \/ late # {} \/ \E v \in Windows : enrolment[v] # NoEnrolment)
      /\ UNCHANGED <<device, issued, late, identity, config, keychain, cycle, faults>>
  BY DEF BeginEnrollment, registry, stored
<1>2. [NoEnrolment EXCEPT !.at = "prepare", !.owner = o, !.workspace = ws] \in Enrolment
  BY EnrolmentFacts DEF Enrolment
<1>3. /\ enrolment' \in [Windows -> Enrolment] /\ \A v \in Windows : v # w => enrolment'[v] = enrolment[v]
      /\ enrolment'[w].at = "prepare" /\ enrolment'[w].owner = o /\ enrolment'[w].workspace = ws
  BY <1>1, <1>2, EnrolmentFacts DEF NoEnrolment
<1>4. overlapped' \in BOOLEAN
  BY <1>1 DEF EnrollInv, EnrollmentTypeOK
<1>5. EnrollmentTypeOK'
  BY <1>1, <1>3, <1>4 DEF EnrollInv, EnrollmentTypeOK, Enrolment
<1>6. (\A v \in Windows : EnrolmentFits(v)') /\ CycleFits'
  BY <1>1, <1>3 DEF EnrollInv, EnrolmentFits, CycleFits
<1>7. ASSUME ~overlapped' PROVE InTurnInv'
  <2>1. ~overlapped /\ late = {} /\ \A v \in Windows : enrolment[v] = NoEnrolment
    BY <1>1, <1>7 DEF EnrollInv, EnrollmentTypeOK
  <2>2. InTurnInv /\ NoEnrolment.at = "idle"
    BY <2>1 DEF EnrollInv, NoEnrolment
  <2>3. AloneInv'
    BY <1>1, <1>3, <2>1, <2>2 DEF AloneInv
  <2>4. \A v \in Windows : Holds(v)'
    BY <1>3, <2>1, <2>2 DEF Holds
  <2>5. HeldInv'
    BY <1>1, <2>2 DEF InTurnInv, HeldInv, Known
  <2>6. QED BY <2>3, <2>4, <2>5 DEF InTurnInv
<1>8. QED BY <1>5, <1>6, <1>7 DEF EnrollInv

(* The device is registered, for a window that waits or for one that does not. *)
LEMMA RegisterFacts ==
  ASSUME EnrollInv, NEW o \in Owners, NEW ws \in Workspaces, RegisterDevice(o, ws)
  PROVE  /\ device' \in [Owners -> DeviceRow] /\ issued' \in 0..MaxIssued /\ issued + 1 \in 1..MaxIssued
         /\ device'[o].status = "active" /\ device'[o].credential = issued + 1
         /\ device[o].status # "revoked" /\ \A p \in Owners : p # o => device'[p] = device[p]
<1>1. device \in [Owners -> DeviceRow] /\ issued + 1 \in 1..MaxIssued
  BY EnrollmentAssumption DEF EnrollInv, EnrollmentTypeOK, DeviceRow, RegisterDevice, EnrollmentAssumption
<1>2. [status |-> "active", workspace |-> ws, credential |-> issued + 1] \in DeviceRow
  BY <1>1, EnrollmentAssumption DEF DeviceRow, EnrollmentAssumption
<1>3. device' = [device EXCEPT ![o] = [status |-> "active", workspace |-> ws, credential |-> issued + 1]]
  BY DEF RegisterDevice, Registered
<1>4. issued' \in 0..MaxIssued
  BY <1>1, EnrollmentAssumption DEF RegisterDevice, EnrollmentAssumption
<1>5. device[o].status # "revoked"
  BY DEF RegisterDevice, Registrable
<1>6. QED BY <1>1, <1>2, <1>3, <1>4, <1>5

LEMMA RegisterKeeps == ASSUME EnrollInv, NEW w \in Windows, Register(w) PROVE EnrollInv'
<1>1. /\ enrolment[w].at = "register" /\ RegisterDevice(enrolment[w].owner, enrolment[w].workspace)
      /\ enrolment' = [enrolment EXCEPT ![w].at = "complete", ![w].credential = issued + 1]
      /\ UNCHANGED <<late, identity, config, keychain, cycle, faults, overlapped>>
  BY DEF Register, stored
<1>2. PICK o \in Owners, ws \in Workspaces : o = enrolment[w].owner /\ ws = enrolment[w].workspace
  BY <1>1, EnrolmentFacts DEF EnrolmentFits
<1>3. /\ device' \in [Owners -> DeviceRow] /\ issued' \in 0..MaxIssued /\ issued + 1 \in 1..MaxIssued
      /\ device'[o].status = "active" /\ device'[o].credential = issued + 1
      /\ device[o].status # "revoked" /\ \A p \in Owners : p # o => device'[p] = device[p]
  BY <1>1, <1>2, RegisterFacts
<1>4. /\ enrolment' \in [Windows -> Enrolment] /\ \A v \in Windows : v # w => enrolment'[v] = enrolment[v]
      /\ enrolment'[w].at = "complete" /\ enrolment'[w].owner = o /\ enrolment'[w].workspace = ws
      /\ enrolment'[w].credential = issued + 1
  <2>1. [enrolment[w] EXCEPT !.at = "complete", !.credential = issued + 1] \in Enrolment
    <3>1. enrolment[w] \in Enrolment
      BY EnrolmentFacts
    <3>2. issued + 1 \in 0..MaxIssued
      BY <1>3, EnrollmentAssumption DEF EnrollmentAssumption
    <3>3. QED BY <3>1, <3>2 DEF Enrolment
  <2>2. enrolment' = [enrolment EXCEPT ![w] = [enrolment[w] EXCEPT !.at = "complete", !.credential = issued + 1]]
    BY <1>1, EnrolmentFacts
  <2>3. enrolment' \in [Windows -> Enrolment] /\ \A v \in Windows : v # w => enrolment'[v] = enrolment[v]
    BY <2>1, <2>2, EnrolmentFacts
  <2>4. enrolment'[w] = [enrolment[w] EXCEPT !.at = "complete", !.credential = issued + 1]
    BY <2>2, EnrolmentFacts
  <2>5. QED BY <1>2, <2>3, <2>4, EnrolmentFacts DEF Enrolment
<1>5. EnrollmentTypeOK'
  BY <1>1, <1>3, <1>4 DEF EnrollInv, EnrollmentTypeOK, DeviceRow, Enrolment
<1>6. (\A v \in Windows : EnrolmentFits(v)') /\ CycleFits'
  BY <1>1, <1>4 DEF EnrollInv, EnrolmentFits, CycleFits
<1>7. ASSUME ~overlapped PROVE InTurnInv'
  <2>1. InTurnInv /\ late = {} /\ config = NoOwner /\ \A v \in Windows : v # w => enrolment[v].at = "idle"
    BY <1>1, <1>7 DEF EnrollInv, InTurnInv, AloneInv
  <2>2. cycle.at \notin {"start", "ready", "asked", "refused"}
    BY <2>1, EnrollmentAssumption DEF InTurnInv, HeldInv, EnrollInv, CycleFits, EnrollmentAssumption
  <2>3. cycle.at = "removed" => cycle.device # o /\ device'[cycle.device].status = "revoked"
    BY <1>3, <2>1 DEF InTurnInv, HeldInv, EnrollInv, CycleFits
  <2>4. AloneInv'
    BY <1>1, <1>4, <2>1 DEF AloneInv
  <2>5. \A v \in Windows : Holds(v)'
    <3>1. \A v \in Windows : v # w => enrolment'[v].at = "idle"
      BY <1>4, <2>1
    <3>2. issued + 1 # NoCredential
      BY <1>3, EnrollmentAssumption DEF NoCredential, EnrollmentAssumption
    <3>3. QED BY <1>1, <1>3, <1>4, <2>3, <3>1, <3>2 DEF Holds
  <2>6. HeldInv'
    BY <1>1, <2>1, <2>2, <2>3 DEF HeldInv
  <2>7. QED BY <2>4, <2>5, <2>6 DEF InTurnInv
<1>8. QED BY <1>1, <1>5, <1>6, <1>7 DEF EnrollInv

LEMMA LateRegistrationKeeps == ASSUME EnrollInv, NEW r \in Registration, LateRegistration(r) PROVE EnrollInv'
<1>1. /\ r \in late /\ late' = late \ {r} /\ r.owner \in Owners /\ r.workspace \in Workspaces
      /\ RegisterDevice(r.owner, r.workspace) \/ UNCHANGED <<device, issued>>
      /\ UNCHANGED <<identity, config, keychain, enrolment, cycle, faults, overlapped>>
  BY DEF LateRegistration, Registration, stored
<1>2. /\ device' \in [Owners -> DeviceRow] /\ issued' \in 0..MaxIssued
      /\ \A p \in Owners : device[p].status = "revoked" => device'[p] = device[p]
  BY <1>1, RegisterFacts DEF EnrollInv, EnrollmentTypeOK, DeviceRow
<1>3. EnrollmentTypeOK'
  BY <1>1, <1>2 DEF EnrollInv, EnrollmentTypeOK, DeviceRow
<1>4. (\A v \in Windows : EnrolmentFits(v)') /\ CycleFits'
  BY <1>1 DEF EnrollInv, EnrolmentFits, CycleFits
<1>5. ASSUME ~overlapped PROVE InTurnInv'
  <2>1. InTurnInv /\ config = NoOwner /\ \A v \in Windows : enrolment[v].at = "idle"
    BY <1>1, <1>5 DEF EnrollInv, InTurnInv, AloneInv
  <2>2. AloneInv' /\ \A v \in Windows : Holds(v)'
    BY <1>1, <2>1 DEF AloneInv, Holds
  <2>3. HeldInv'
    <3>1. cycle.at \notin {"start", "ready", "asked", "refused"}
      BY <2>1, EnrollmentAssumption DEF InTurnInv, HeldInv, EnrollInv, CycleFits, EnrollmentAssumption
    <3>2. cycle.at = "removed" => device'[cycle.device].status = "revoked"
      BY <1>2, <2>1 DEF InTurnInv, HeldInv, EnrollInv, CycleFits
    <3>3. QED BY <1>1, <2>1, <3>1, <3>2 DEF HeldInv
  <2>4. QED BY <2>2, <2>3 DEF InTurnInv
<1>6. QED BY <1>1, <1>3, <1>4, <1>5 DEF EnrollInv

LEMMA RevokeKeeps == ASSUME EnrollInv, NEW o \in Owners, RevokeDevice(o) PROVE EnrollInv'
<1>1. /\ device' = [device EXCEPT ![o] = [device[o] EXCEPT !.status = "revoked"]]
      /\ device[o].status = "active" /\ device \in [Owners -> DeviceRow]
      /\ UNCHANGED <<issued, late, identity, config, keychain, enrolment, cycle, faults, overlapped>>
  BY DEF RevokeDevice, EnrollInv, EnrollmentTypeOK, DeviceRow, stored
<1>2. [device[o] EXCEPT !.status = "revoked"] \in DeviceRow
  BY <1>1 DEF DeviceRow
<1>3. /\ device' \in [Owners -> DeviceRow]
      /\ \A p \in Owners : device'[p].credential = device[p].credential
                            /\ (device'[p].status = device[p].status \/ device'[p].status = "revoked")
  BY <1>1, <1>2 DEF DeviceRow
<1>4. EnrollmentTypeOK'
  BY <1>1, <1>3 DEF EnrollInv, EnrollmentTypeOK, DeviceRow
<1>5. (\A v \in Windows : EnrolmentFits(v)') /\ CycleFits'
  BY <1>1 DEF EnrollInv, EnrolmentFits, CycleFits
<1>6. ASSUME ~overlapped PROVE InTurnInv'
  <2>1. InTurnInv
    BY <1>6 DEF EnrollInv
  <2>2. AloneInv'
    BY <1>1, <2>1 DEF InTurnInv, AloneInv
  <2>3. ASSUME NEW v \in Windows PROVE Holds(v)'
    BY <1>1, <1>3, <2>1 DEF InTurnInv, Holds, EnrollInv, EnrolmentFits
  <2>4. HeldInv'
    BY <1>1, <1>3, <2>1 DEF InTurnInv, HeldInv, Known, EnrollInv, CycleFits, EnrollmentTypeOK
  <2>5. QED BY <2>2, <2>3, <2>4 DEF InTurnInv
<1>7. QED BY <1>1, <1>4, <1>5, <1>6 DEF EnrollInv

(* The background thread. *)
LEMMA CycleTypes ==
  ASSUME EnrollInv,
         cycle' \in CycleRecord, CycleFits',
         UNCHANGED <<device, issued, late, identity, enrolment, overlapped>>,
         config' \in {config, NoOwner}, keychain' \in [Owners -> 0..MaxIssued], faults' = faults \/ Fault,
         ~overlapped => /\ config' # config => cycle.at = "refused"
                        /\ \A w \in Windows : Holds(w)'
                        /\ HeldInv'
  PROVE  EnrollInv'
<1>1. faults' \in 0..MaxFaults
  BY EnrollmentAssumption DEF EnrollmentAssumption, Fault, EnrollInv, EnrollmentTypeOK
<1>2. EnrollmentTypeOK'
  BY <1>1 DEF EnrollInv, EnrollmentTypeOK, CycleRecord
<1>3. \A w \in Windows : EnrolmentFits(w)'
  BY DEF EnrollInv, EnrolmentFits
<1>4. ASSUME ~overlapped PROVE AloneInv'
  BY <1>4 DEF EnrollInv, InTurnInv, AloneInv
<1>5. QED BY <1>2, <1>3, <1>4 DEF EnrollInv, InTurnInv

LEMMA CycleKeeps == ASSUME EnrollInv, CycleStep PROVE EnrollInv'
<1>1. /\ cycle \in CycleRecord /\ NoCycle \in CycleRecord /\ NoCycle.at = "idle" /\ CycleFits
      /\ keychain \in [Owners -> 0..MaxIssued] /\ 0 \in 0..MaxIssued /\ config \in Owners \cup {NoOwner}
      /\ NoOwner \notin Owners /\ device \in [Owners -> DeviceRow]
  BY EnrollmentAssumption DEF EnrollmentAssumption, EnrollInv, EnrollmentTypeOK, CycleRecord, NoCycle,
     NoCredential, DeviceRow
<1>2. UNCHANGED <<device, issued, late, identity, enrolment, overlapped>>
  BY DEF CycleStep, BeginCycle, Ask, LoadFails, Answered, EndCycle, RemoveConfig, DeleteCredential, registry,
     stored
<1>3. ~overlapped =>
        HeldInv /\ AloneInv /\ \A w \in Windows : Holds(w) /\ (enrolment[w].at # "idle" => config = NoOwner)
  BY DEF EnrollInv, InTurnInv, AloneInv
<1>4. \A x \in {"ready", "refused", "removed"} :
        /\ [cycle EXCEPT !.at = x] \in CycleRecord /\ [cycle EXCEPT !.at = x].at = x
        /\ [cycle EXCEPT !.at = x].device = cycle.device
  BY <1>1 DEF CycleRecord
<1>5. CASE BeginCycle
  <2>1. /\ cycle.at = "idle" /\ config \in Owners /\ UNCHANGED <<config, keychain, faults>>
        /\ cycle' = [NoCycle EXCEPT !.at = "start", !.device = config]
    BY <1>1, <1>5 DEF BeginCycle, stored
  <2>2. cycle' \in CycleRecord /\ cycle'.at = "start" /\ cycle'.device = config
    BY <1>1, <2>1 DEF CycleRecord, NoCycle
  <2>3. CycleFits'
    BY <2>1, <2>2 DEF CycleFits
  <2>4. ASSUME ~overlapped PROVE HeldInv' /\ \A w \in Windows : Holds(w)'
    BY <1>2, <1>3, <2>1, <2>2, <2>4 DEF HeldInv, Known, Holds
  <2>5. QED BY <1>1, <1>2, <2>1, <2>2, <2>3, <2>4, CycleTypes
<1>6. CASE Ask
  <2>1. /\ cycle.at \in {"start", "ready"} /\ UNCHANGED <<config, keychain, faults>> /\ cycle.device \in Owners
        /\ cycle' = [cycle EXCEPT !.at = IF keychain[cycle.device] = NoCredential THEN "refused" ELSE "asked",
                                  !.credential = keychain[cycle.device]]
    BY <1>1, <1>6 DEF Ask, stored, CycleFits
  <2>2. /\ cycle' \in CycleRecord /\ cycle'.device = cycle.device /\ cycle'.credential = keychain[cycle.device]
        /\ cycle'.at = IF keychain[cycle.device] = NoCredential THEN "refused" ELSE "asked"
    <3>1. keychain[cycle.device] \in 0..MaxIssued
      BY <1>1, <2>1
    <3>2. QED BY <1>1, <2>1, <3>1 DEF CycleRecord
  <2>3. CycleFits'
    BY <2>1, <2>2 DEF CycleFits
  <2>4. ASSUME ~overlapped PROVE HeldInv' /\ \A w \in Windows : Holds(w)'
    <3>1. HeldInv'
      BY <1>1, <1>2, <1>3, <2>1, <2>2, <2>4 DEF HeldInv, Known
    <3>2. \A w \in Windows : Holds(w)'
      BY <1>2, <1>3, <2>1, <2>2, <2>4 DEF Holds
    <3>3. QED BY <3>1, <3>2
  <2>5. QED BY <1>1, <1>2, <2>1, <2>2, <2>3, <2>4, CycleTypes
<1>7. CASE Answered
  <2>1. /\ cycle.at = "asked" /\ UNCHANGED <<config, keychain, faults>> /\ cycle.device \in Owners
        /\ cycle' = [cycle EXCEPT !.at = IF Accepts(cycle.credential) THEN "ready" ELSE "refused"]
    BY <1>1, <1>7 DEF Answered, CycleAt, stored, CycleFits
  <2>2. /\ cycle' \in CycleRecord /\ cycle'.device = cycle.device
        /\ cycle'.at = IF Accepts(cycle.credential) THEN "ready" ELSE "refused"
    BY <1>4, <2>1
  <2>3. CycleFits'
    BY <2>1, <2>2 DEF CycleFits
  <2>4. ASSUME ~overlapped PROVE HeldInv' /\ \A w \in Windows : Holds(w)'
    <3>1. ~Accepts(cycle.credential) => device[cycle.device].status = "revoked"
      BY <1>3, <2>1, <2>4 DEF HeldInv, Known, Accepts
    <3>2. HeldInv'
      BY <1>2, <1>3, <2>1, <2>2, <2>4, <3>1 DEF HeldInv, Known
    <3>3. \A w \in Windows : Holds(w)'
      BY <1>2, <1>3, <2>1, <2>2, <2>4 DEF Holds
    <3>4. QED BY <3>2, <3>3
  <2>5. QED BY <1>1, <1>2, <2>1, <2>2, <2>3, <2>4, CycleTypes
<1>8. CASE EndCycle \/ LoadFails
  <2>1. cycle' = NoCycle /\ UNCHANGED <<config, keychain>> /\ (faults' = faults \/ Fault)
    BY <1>8 DEF EndCycle, LoadFails, stored
  <2>2. CycleFits'
    BY <1>1, <2>1 DEF CycleFits
  <2>3. ASSUME ~overlapped PROVE HeldInv' /\ \A w \in Windows : Holds(w)'
    BY <1>1, <1>2, <1>3, <2>1, <2>3 DEF HeldInv, Known, Holds
  <2>4. QED BY <1>1, <1>2, <2>1, <2>2, <2>3, CycleTypes
<1>9. CASE RemoveConfig
  <2>1. /\ cycle.at = "refused" /\ config' \in {config, NoOwner} /\ keychain' = keychain
        /\ faults' = faults \/ Fault
        /\ cycle' = [cycle EXCEPT !.at = "removed"] /\ cycle.device \in Owners
    BY <1>1, <1>9 DEF RemoveConfig, CycleAt, CycleFits
  <2>2. cycle' \in CycleRecord /\ cycle'.at = "removed" /\ cycle'.device = cycle.device
    BY <1>4, <2>1
  <2>3. CycleFits'
    BY <2>1, <2>2 DEF CycleFits
  <2>4. ASSUME ~overlapped PROVE HeldInv' /\ \A w \in Windows : Holds(w)'
    <3>1. \A w \in Windows : enrolment[w].at = "idle"
      BY <1>1, <1>3, <2>1, <2>4 DEF HeldInv
    <3>2. QED BY <1>2, <1>3, <2>1, <2>2, <2>4, <3>1 DEF HeldInv, Known, Holds
  <2>5. QED BY <1>1, <1>2, <2>1, <2>2, <2>3, <2>4, CycleTypes
<1>10. CASE DeleteCredential
  <2>1. /\ cycle.at = "removed" /\ config' = config /\ cycle' = NoCycle /\ (faults' = faults \/ Fault)
        /\ keychain' = [keychain EXCEPT ![cycle.device] = NoCredential] \/ keychain' = keychain
        /\ cycle.device \in Owners
    BY <1>1, <1>10 DEF DeleteCredential, CycleFits
  <2>2. /\ keychain' \in [Owners -> 0..MaxIssued]
        /\ \A o \in Owners : o # cycle.device => keychain'[o] = keychain[o]
    BY <1>1, <2>1 DEF NoCredential
  <2>3. CycleFits'
    BY <1>1, <2>1 DEF CycleFits
  <2>4. ASSUME ~overlapped PROVE HeldInv' /\ \A w \in Windows : Holds(w)'
    <3>1. HeldInv'
      BY <1>1, <1>2, <1>3, <2>1, <2>2, <2>4 DEF HeldInv, Known
    <3>2. ASSUME NEW w \in Windows PROVE Holds(w)'
      BY <1>1, <1>2, <1>3, <2>1, <2>2, <2>4 DEF Holds, EnrollInv, EnrolmentFits
    <3>3. QED BY <3>1, <3>2
  <2>5. QED BY <1>1, <1>2, <2>1, <2>2, <2>3, <2>4, CycleTypes
<1>11. QED BY <1>5, <1>6, <1>7, <1>8, <1>9, <1>10 DEF CycleStep

LEMMA AgentDiesKeeps == ASSUME EnrollInv, AgentDies PROVE EnrollInv'
<1>1. /\ cycle' = NoCycle /\ faults' \in 0..MaxFaults
      /\ enrolment' = [w \in Windows |-> IF enrolment[w].at \in InAgent THEN NoEnrolment ELSE enrolment[w]]
      /\ UNCHANGED <<device, issued, late, identity, config, keychain, overlapped>>
  BY EnrollmentAssumption
     DEF AgentDies, Fault, EnrollInv, EnrollmentTypeOK, EnrollmentAssumption, registry, stored
<1>2. NoCycle \in CycleRecord /\ NoCycle.at = "idle"
  BY EnrollmentAssumption DEF NoCycle, CycleRecord, NoCredential, EnrollmentAssumption
<1>3. /\ enrolment' \in [Windows -> Enrolment]
      /\ \A w \in Windows : enrolment'[w] = NoEnrolment \/ enrolment'[w] = enrolment[w]
      /\ NoEnrolment.at = "idle"
  BY <1>1, EnrolmentFacts DEF NoEnrolment
<1>4. EnrollmentTypeOK'
  BY <1>1, <1>2, <1>3 DEF EnrollInv, EnrollmentTypeOK, Enrolment, CycleRecord
<1>5. (\A w \in Windows : EnrolmentFits(w)') /\ CycleFits'
  BY <1>1, <1>2, <1>3 DEF EnrollInv, EnrolmentFits, CycleFits
<1>6. ASSUME ~overlapped PROVE InTurnInv'
  <2>1. InTurnInv
    BY <1>6 DEF EnrollInv
  <2>2. AloneInv'
    BY <1>1, <1>3, <2>1 DEF InTurnInv, AloneInv
  <2>3. ASSUME NEW w \in Windows PROVE Holds(w)'
    BY <1>1, <1>2, <1>3, <2>1 DEF InTurnInv, Holds
  <2>4. HeldInv'
    BY <1>1, <1>2, <2>1 DEF InTurnInv, HeldInv, Known
  <2>5. QED BY <2>2, <2>3, <2>4 DEF InTurnInv
<1>7. QED BY <1>1, <1>4, <1>5, <1>6 DEF EnrollInv

LEMMA EnrollmentStep == ASSUME EnrollInv, [EnrollmentNext]_enrollmentVars PROVE EnrollInv'
<1>1. ASSUME NEW w \in Windows, EnrolmentStep(w) PROVE EnrollInv'
  BY <1>1, BeginningKeeps, RegisterKeeps, EnrolmentKeeps DEF EnrolmentStep
<1>2. CASE UNCHANGED enrollmentVars
  <2>1. UNCHANGED <<device, issued, late, identity, config, keychain, enrolment, cycle, faults, overlapped>>
    BY <1>2 DEF enrollmentVars, registry, stored
  <2>2. EnrollmentTypeOK' /\ (\A w \in Windows : EnrolmentFits(w)') /\ CycleFits'
    BY <2>1 DEF EnrollInv, EnrollmentTypeOK, EnrolmentFits, CycleFits
  <2>3. InTurnInv => InTurnInv'
    BY <2>1 DEF InTurnInv, AloneInv, Holds, HeldInv, Known
  <2>4. QED BY <2>1, <2>2, <2>3 DEF EnrollInv
<1>3. QED BY <1>1, <1>2, RevokeKeeps, LateRegistrationKeeps, CycleKeeps, AgentDiesKeeps DEF EnrollmentNext

\* Rows, files and requests stay in their domains whatever fails.
THEOREM EnrollmentTypeCorrect == EnrollmentSpec => []EnrollmentTypeOK
<1>1. EnrollmentSpec => []EnrollInv
  BY EnrollmentInitially, EnrollmentStep, PTL DEF EnrollmentSpec
<1>2. EnrollInv => EnrollmentTypeOK
  BY DEF EnrollInv
<1>3. QED BY <1>1, <1>2, PTL

\* Whoever is told that the machine is enrolled has it enrolled with the credential the API
\* knows, whatever failed before (persist_device_registration): no other enrolment overlapped.
THEOREM SuccessIsUsable == EnrollmentSpec => SuccessMeansUsable
<1>1. EnrollmentSpec => []EnrollInv
  BY EnrollmentInitially, EnrollmentStep, PTL DEF EnrollmentSpec
<1>2. ASSUME EnrollInv, NEW w \in Windows, Succeeds(w), ~overlapped
      PROVE  /\ config' = enrolment[w].owner
             /\ device[enrolment[w].owner].credential # NoCredential
             /\ keychain'[enrolment[w].owner] = device[enrolment[w].owner].credential
  <2>1. Holds(w) /\ InTurnInv
    BY <1>2 DEF EnrollInv, InTurnInv
  <2>2. enrolment[w].at = "write" /\ config' = enrolment[w].owner /\ keychain' = keychain
    BY <1>2, <2>1 DEF Succeeds, WriteConfig, RotateCredential, Holds
  <2>3. QED BY <2>1, <2>2 DEF Holds
<1>3. EnrollInv =>
        [\A w \in Windows : Succeeds(w) /\ ~overlapped =>
           LET o == enrolment[w].owner
           IN  config' = o /\ device[o].credential # NoCredential /\ keychain'[o] = device[o].credential]_enrollmentVars
  BY <1>2
<1>4. QED BY <1>1, <1>3, PTL DEF SuccessMeansUsable

\* Only a revocation ends an enrolment (clear_device_registration): no failure, restart or
\* half-done enrolment takes the machine away from its device, unless enrolments overlap.
THEOREM EnrolmentHolds == EnrollmentSpec => HoldsUnlessOverlapped
<1>1. EnrollmentSpec => []EnrollInv
  BY EnrollmentInitially, EnrollmentStep, PTL DEF EnrollmentSpec
<1>2. ASSUME EnrollInv, [EnrollmentNext]_enrollmentVars, config # NoOwner, config' # config, ~overlapped
      PROVE  device[config].status = "revoked" /\ config' = NoOwner
  <2>1. InTurnInv
    BY <1>2 DEF EnrollInv
  <2>2. \A w \in Windows : ~WriteConfig(w)
    BY <1>2, <2>1 DEF InTurnInv, AloneInv, WriteConfig
  <2>3. RemoveConfig
    BY <1>2, <2>2
       DEF EnrollmentNext, EnrolmentStep, BeginEnrollment, Prepare, WriteIdentity, Register, RegisterRefused, GiveUp,
           Complete, SaveCredential, RotateCredential, SaveFails, WriteConfigFails, RevokeDevice, LateRegistration,
           CycleStep, BeginCycle, Ask, LoadFails, Answered, EndCycle, DeleteCredential, AgentDies,
           enrollmentVars, stored
  <2>4. QED BY <1>2, <2>1, <2>3 DEF RemoveConfig, InTurnInv, HeldInv
<1>3. EnrollInv /\ [EnrollmentNext]_enrollmentVars =>
        [config # NoOwner /\ config' # config =>
           overlapped \/ (device[config].status = "revoked" /\ config' = NoOwner)]_enrollmentVars
  BY <1>2
<1>4. QED BY <1>1, <1>3, PTL DEF HoldsUnlessOverlapped, EnrollmentSpec
=============================================================================
