------------------------- MODULE RunDispatchProofs -------------------------
(***************************************************************************)
(* Proofs about RunDispatch, for every set of runs and tasks, every kind   *)
(* of release, every bound on the faults and every environment; the second *)
(* part shows that RunDispatch implements RunLifecycle.                    *)
(***************************************************************************)
EXTENDS RunDispatch, SequenceTheorems, FiniteSetTheorems, TLAPS

----------------------------------------------------------------------------
(* Operators on the outbox and the tables. *)

\* Removing a delivered report leaves a sequence of old entries (acknowledge_run_report).
LEMMA RemoveAtFacts ==
  ASSUME NEW S, NEW s \in Seq(S), NEW i \in 1..Len(s)
  PROVE  /\ RemoveAt(s, i) \in Seq(S)
         /\ \A j \in 1..Len(RemoveAt(s, i)) :
              \E k \in 1..Len(s) : RemoveAt(s, i)[j] = s[k]
<1> DEFINE a == SubSeq(s, 1, i - 1)
           b == SubSeq(s, i + 1, Len(s))
<1>1. a \in Seq(S) /\ Len(a) = i - 1 /\ \A j \in 1..(i - 1) : a[j] = s[j]
  OBVIOUS
<1>2. /\ b \in Seq(S) /\ Len(b) = Len(s) - i
      /\ \A j \in 1..(Len(s) - i) : b[j] = s[i + j]
  OBVIOUS
<1> HIDE DEF a, b
<1>3. /\ a \o b \in Seq(S) /\ Len(a \o b) = Len(s) - 1
      /\ \A j \in 1..(Len(s) - 1) : (a \o b)[j] = IF j <= i - 1 THEN a[j] ELSE b[j - (i - 1)]
  <2> DEFINE c == a \o b
  <2>1. /\ c \in Seq(S) /\ Len(c) = Len(a) + Len(b)
        /\ \A j \in 1..(Len(a) + Len(b)) : c[j] = IF j <= Len(a) THEN a[j] ELSE b[j - Len(a)]
    BY <1>1, <1>2, ConcatProperties, Zenon
  <2> HIDE DEF c
  <2>2. Len(s) \in Nat
    OBVIOUS
  <2>3. Len(a) + Len(b) = Len(s) - 1
    BY <1>1, <1>2, <2>2
  <2>4. /\ c \in Seq(S) /\ Len(c) = Len(s) - 1
        /\ \A j \in 1..(Len(s) - 1) : c[j] = IF j <= i - 1 THEN a[j] ELSE b[j - (i - 1)]
    BY <1>1, <2>1, <2>3
  <2> QED BY <2>4 DEF c
<1>4. ASSUME NEW j \in 1..(Len(s) - 1)
      PROVE  \E k \in 1..Len(s) : (a \o b)[j] = s[k]
  <2>1. CASE j <= i - 1
    BY <2>1, <1>1, <1>3
  <2>2. CASE j > i - 1
    <3>1. (a \o b)[j] = b[j - (i - 1)]
      BY <2>2, <1>3
    <3>2. b[j - (i - 1)] = s[j + 1]
      BY <2>2, <1>2
    <3>3. j + 1 \in 1..Len(s)
      OBVIOUS
    <3> QED BY <3>1, <3>2, <3>3, Zenon
  <2>3. j <= i - 1 \/ j > i - 1
    OBVIOUS
  <2> QED BY <2>1, <2>2, <2>3, Zenon
<1>5. RemoveAt(s, i) = a \o b
  BY DEF RemoveAt, a, b
<1> QED BY <1>3, <1>4, <1>5

\* Enqueueing adds at most the given report (INSERT OR IGNORE).
LEMMA EnqueuedFacts ==
  ASSUME TypeOK, NEW r \in Runs, NEW s \in ReportStatus, NEW c \in ErrorCode
  PROVE  /\ Enqueued(r, s, c) \in Seq(OutboxEntry)
         /\ \A j \in 1..Len(Enqueued(r, s, c)) :
              \/ \E k \in 1..Len(outbox) : Enqueued(r, s, c)[j] = outbox[k]
              \/ ReportOf(Enqueued(r, s, c)[j]) = NewReport(r, s, c)
<1> DEFINE e == [run |-> r, status |-> s, code |-> c, attempts |-> 0, hold |-> 0]
<1>1. e \in OutboxEntry /\ ReportOf(e) = NewReport(r, s, c)
  BY BoundAssumption DEF OutboxEntry, ReportOf, NewReport
<1>2. outbox \in Seq(OutboxEntry)
  BY DEF TypeOK
<1>3. Enqueued(r, s, c) = outbox \/ Enqueued(r, s, c) = Append(outbox, e)
  BY DEF Enqueued
<1> HIDE DEF e
<1>4. CASE Enqueued(r, s, c) = outbox
  BY <1>2, <1>4
<1>5. CASE Enqueued(r, s, c) = Append(outbox, e)
  <2>1. Append(outbox, e) \in Seq(OutboxEntry) /\ Len(Append(outbox, e)) = Len(outbox) + 1
    BY <1>1, <1>2
  <2>2. ASSUME NEW j \in 1..(Len(outbox) + 1)
        PROVE  IF j = Len(outbox) + 1 THEN Append(outbox, e)[j] = e
               ELSE j \in 1..Len(outbox) /\ Append(outbox, e)[j] = outbox[j]
    BY <1>1, <1>2
  <2> QED BY <1>1, <1>5, <2>1, <2>2
<1> QED BY <1>3, <1>4, <1>5

\* A delayed report keeps its content and its place (retry_run_report).
LEMMA DelayedFacts ==
  ASSUME TypeOK, NEW i \in 1..Len(outbox)
  PROVE  /\ Delayed(i) \in Seq(OutboxEntry)
         /\ Len(Delayed(i)) = Len(outbox)
         /\ \A j \in 1..Len(outbox) : ReportOf(Delayed(i)[j]) = ReportOf(outbox[j])
<1> DEFINE n == IF outbox[i].attempts < MaxBackoff THEN outbox[i].attempts + 1 ELSE MaxBackoff
           e == [outbox[i] EXCEPT !.attempts = n, !.hold = n]
<1>1. outbox \in Seq(OutboxEntry) /\ outbox[i] \in OutboxEntry
  BY DEF TypeOK
<1>2. n \in 0..MaxBackoff
  BY <1>1, BoundAssumption DEF OutboxEntry
<1>3. e \in OutboxEntry /\ ReportOf(e) = ReportOf(outbox[i])
  BY <1>1, <1>2 DEF OutboxEntry, ReportOf, NewReport
<1>4. Delayed(i) = [outbox EXCEPT ![i] = e]
  BY <1>1 DEF Delayed, OutboxEntry
<1> HIDE DEF n, e
<1> QED BY <1>1, <1>3, <1>4

\* The results of refresh_tasks, of a stop and of a restart are tasks tables.
LEMMA TaskTables ==
  ASSUME TypeOK
  PROVE  /\ RefreshedTasks \in [Tasks -> TaskRecord]
         /\ \A t \in Tasks : StoppedTask(task[t]) \in TaskRecord
         /\ \A t \in Tasks : RecoveredTask(task[t]) \in TaskRecord
<1>1. \A t \in Tasks : task[t] \in TaskRecord
  BY DEF TypeOK
<1>2. \A t \in Tasks : Refreshed(task[t]) \in TaskRecord
  BY ZenonT(60), <1>1 DEF Refreshed, TaskRecord, TaskStatus
<1>3. \A t \in Tasks : StoppedTask(task[t]) \in TaskRecord
  BY ZenonT(60), <1>1 DEF StoppedTask, TaskRecord, TaskStatus
<1>4. \A t \in Tasks : RecoveredTask(task[t]) \in TaskRecord
  BY ZenonT(60), <1>1 DEF RecoveredTask, TaskRecord, TaskStatus
<1> QED BY <1>2, <1>3, <1>4 DEF RefreshedTasks

\* The entries of the outbox are reports.
LEMMA OutboxReportsType ==
  ASSUME TypeOK
  PROVE  \A i \in 1..Len(outbox) : /\ ReportOf(outbox[i]) \in Report
                                  /\ ReportOf(outbox[i]).run = outbox[i].run
                                  /\ ReportOf(outbox[i]).status = outbox[i].status
                                  /\ ReportOf(outbox[i]).code = outbox[i].code
<1>1. \A i \in 1..Len(outbox) : outbox[i] \in OutboxEntry
  BY DEF TypeOK
<1> QED BY <1>1 DEF OutboxEntry, ReportOf, NewReport, Report

\* reportRun and claimRuns keep the run table well formed.
LEMMA RunTables ==
  ASSUME TypeOK
  PROVE  /\ \A p \in Report : AfterReport(p) \in [Runs -> RunRecord]
         /\ \A S \in SUBSET Runs : AfterClaim(S) \in [Runs -> RunRecord]
<1>1. run \in [Runs -> RunRecord]
  BY DEF TypeOK
<1>2. ASSUME NEW p \in Report PROVE AfterReport(p) \in [Runs -> RunRecord]
  BY ZenonT(60), <1>1 DEF AfterReport, RunRecord, Report, ReportStatus, RunStatus, Cancellable, Terminal
<1>3. ASSUME NEW S \in SUBSET Runs PROVE AfterClaim(S) \in [Runs -> RunRecord]
  BY <1>1 DEF AfterClaim, RunRecord, RunStatus, Cancellable, Terminal, ErrorCode
<1> QED BY <1>2, <1>3

\* One enqueue_run_report keeps remote_runs and the outbox well formed.
LEMMA EnqueueReportType ==
  ASSUME TypeOK, NEW r \in Runs, NEW s \in ReportStatus, NEW c \in ErrorCode,
         EnqueueReport(r, s, c)
  PROVE  /\ remote' \in [Runs -> RemoteRecord]
         /\ outbox' \in Seq(OutboxEntry)
<1>1. remote \in [Runs -> RemoteRecord] /\ StateFor(s) \in RemoteState
  BY DEF TypeOK, StateFor, RemoteState, ReportStatus, Terminal
<1>2. remote' \in [Runs -> RemoteRecord]
  BY <1>1 DEF EnqueueReport, RemoteRecord
<1> QED BY <1>2, EnqueuedFacts DEF EnqueueReport

----------------------------------------------------------------------------
(* Type correctness *)

LEMMA InitType == Init => TypeOK
<1> SUFFICES ASSUME Init PROVE TypeOK
  OBVIOUS
<1>1. outbox \in Seq(OutboxEntry)
  BY DEF Init
<1>2. run \in [Runs -> RunRecord]
  BY DEF Init, RunRecord, RunStatus, ErrorCode
<1>3. remote \in [Runs -> RemoteRecord] /\ task \in [Tasks -> TaskRecord]
  BY DEF Init, RemoteRecord, RemoteState, TaskRecord, TaskStatus
<1>4. crashes \in 0..MaxCrashes /\ timeouts \in 0..MaxTimeouts
  BY BoundAssumption DEF Init
<1>5. /\ grant \in {"active", "expired", "revoked"} /\ device \in {"active", "revoked"}
      /\ installed \in BOOLEAN /\ lateClaim \in BOOLEAN /\ round \in {1, 2}
      /\ batch \in SUBSET Runs /\ lateReports \in SUBSET Report
  BY DEF Init
<1>6. /\ pc \in Phases /\ cur \in Runs \cup {NoRun} /\ curTask \in Tasks \cup {NoTask}
      /\ pc \notin {"cancel", "bind"}
  BY DEF Init, Phases
<1> QED BY <1>1, <1>2, <1>3, <1>4, <1>5, <1>6 DEF TypeOK

\* Every step keeps the types, one case per action.
LEMMA NextType == TypeOK /\ [Next]_vars => TypeOK'
<1> SUFFICES ASSUME TypeOK, [Next]_vars PROVE TypeOK'
  OBVIOUS
<1> USE DEF serverVars, threadVars, netVars
<1>1. ASSUME NEW r \in Runs, CreateManualRun(r) PROVE TypeOK'
  BY ZenonT(60), <1>1 DEF TypeOK, CreateManualRun, RunRecord, RunStatus, Cancellable, Terminal, ErrorCode
<1>2. ASSUME NEW r \in Runs, CancelRun(r) PROVE TypeOK'
  <2>1. run[r] \in RunRecord
    BY DEF TypeOK
  <2>2. [run[r] EXCEPT !.cancelRequested = TRUE,
                       !.status = IF @ = "queued" THEN "cancelled" ELSE @] \in RunRecord
    BY <2>1 DEF RunRecord, RunStatus, Terminal
  <2>3. run' = [run EXCEPT ![r] = [run[r] EXCEPT !.cancelRequested = TRUE,
                       !.status = IF @ = "queued" THEN "cancelled" ELSE @]]
    BY <1>2, <2>1 DEF TypeOK, CancelRun, RunRecord
  <2> QED BY <1>2, <2>2, <2>3 DEF TypeOK, CancelRun
<1>3. ASSUME RevokePermissionGrant PROVE TypeOK'
  BY ZenonT(60), <1>3 DEF TypeOK, RevokePermissionGrant, RunRecord, RunStatus, Cancellable, Terminal, ErrorCode
<1>4. ASSUME ApprovePermissionGrant PROVE TypeOK'
  BY <1>4 DEF TypeOK, ApprovePermissionGrant
<1>5. ASSUME GrantExpires PROVE TypeOK'
  BY <1>5 DEF TypeOK, GrantExpires
<1>6. ASSUME RevokeDevice PROVE TypeOK'
  BY <1>6 DEF TypeOK, RevokeDevice
<1>7. ASSUME NEW t \in Tasks, NEW e \in {"ok", "error"}, RunnerExits(t, e) PROVE TypeOK'
  BY <1>7 DEF TypeOK, RunnerExits, TaskRecord
<1>8. ASSUME Snapshot PROVE TypeOK'
  BY <1>8, TaskTables DEF TypeOK, Snapshot
<1>9. ASSUME NEW t \in Tasks, UserStop(t) PROVE TypeOK'
  BY <1>9, TaskTables DEF TypeOK, UserStop
<1>10. ASSUME Uninstall PROVE TypeOK'
  BY <1>10 DEF TypeOK, Uninstall
<1>11. ASSUME Reinstall PROVE TypeOK'
  BY <1>11 DEF TypeOK, Reinstall
<1>12. ASSUME NEW r \in Runs, LeaseExpires(r) PROVE TypeOK'
  BY ZenonT(60), <1>12 DEF TypeOK, LeaseExpires, RemoteRecord
<1>13. ASSUME CrashAndRestart PROVE TypeOK'
  BY <1>13, TaskTables, BoundAssumption DEF TypeOK, CrashAndRestart, Phases
<1>14. ASSUME Unauthorized PROVE TypeOK'
  BY <1>14 DEF TypeOK, Unauthorized, Phases
<1>15. ASSUME BeginCycle PROVE TypeOK'
  <2>1. \A i \in 1..Len(outbox) : outbox[i] \in OutboxEntry
    BY DEF TypeOK
  <2>2. \A i \in 1..Len(outbox) :
          [outbox[i] EXCEPT !.hold = IF @ = 0 THEN 0 ELSE @ - 1] \in OutboxEntry
    BY <2>1, BoundAssumption DEF OutboxEntry
  <2>3. Len(outbox) \in Nat
    BY DEF TypeOK
  <2>4. outbox' \in Seq(OutboxEntry)
    BY <1>15, <2>2, <2>3 DEF BeginCycle
  <2> QED BY <1>15, <2>4 DEF TypeOK, BeginCycle, Phases
<1>16. ASSUME FetchRunControls PROVE TypeOK'
  BY <1>16, TaskTables DEF TypeOK, FetchRunControls, Phases
<1>17. ASSUME RunControlsTimeOut PROVE TypeOK'
  BY <1>17, BoundAssumption DEF TypeOK, RunControlsTimeOut, Phases
<1>18. ASSUME NEW r \in Runs, IgnoreControl(r) PROVE TypeOK'
  BY <1>18 DEF TypeOK, IgnoreControl
<1>19. ASSUME NEW r \in Runs, StopForControl(r) PROVE TypeOK'
  BY <1>19, TaskTables DEF TypeOK, StopForControl, Phases
<1>20. ASSUME EnqueueCancelled PROVE TypeOK'
  <2>1. cur \in Runs
    BY <1>20 DEF TypeOK, EnqueueCancelled
  <2>2. remote' \in [Runs -> RemoteRecord] /\ outbox' \in Seq(OutboxEntry)
    BY <1>20, <2>1, EnqueueReportType DEF EnqueueCancelled, ReportStatus, Terminal, ErrorCode
  <2> QED BY <1>20, <2>2 DEF TypeOK, EnqueueCancelled, Phases
<1>21. ASSUME CollectCompletions PROVE TypeOK'
  BY <1>21, TaskTables DEF TypeOK, CollectCompletions, Phases
<1>22. ASSUME NEW r \in Runs, EnqueueCompleted(r) PROVE TypeOK'
  <2>1. CompletionReport(r).status \in ReportStatus /\ CompletionReport(r).code \in ErrorCode
    BY DEF CompletionReport, NewReport, ReportStatus, Terminal, ErrorCode
  <2>2. remote' \in [Runs -> RemoteRecord] /\ outbox' \in Seq(OutboxEntry)
    BY <1>22, <2>1, EnqueueReportType DEF EnqueueCompleted
  <2> QED BY <1>22, <2>2 DEF TypeOK, EnqueueCompleted
<1>23. ASSUME CollectPending PROVE TypeOK'
  BY <1>23 DEF TypeOK, CollectPending, Phases
<1>24. ASSUME NEW r \in Runs, AskForApproval(r) PROVE TypeOK'
  <2>1. remote' \in [Runs -> RemoteRecord] /\ outbox' \in Seq(OutboxEntry)
    BY <1>24, EnqueueReportType DEF AskForApproval, ReportStatus, Terminal, ErrorCode
  <2> QED BY <1>24, <2>1 DEF TypeOK, AskForApproval
<1>25. ASSUME NEW r \in Runs, ApplicationUnavailable(r) PROVE TypeOK'
  <2>1. remote' \in [Runs -> RemoteRecord] /\ outbox' \in Seq(OutboxEntry)
    BY <1>25, EnqueueReportType DEF ApplicationUnavailable, ReportStatus, Terminal, ErrorCode
  <2> QED BY <1>25, <2>1 DEF TypeOK, ApplicationUnavailable
<1>26. ASSUME NEW r \in Runs, NEW t \in Tasks, Launch(r, t) PROVE TypeOK'
  <2>1. [run |-> r, status |-> "running", child |-> TRUE, exit |-> "none", lease |-> TRUE]
          \in TaskRecord
    BY DEF TaskRecord, TaskStatus
  <2> QED BY <1>26, <2>1, TaskTables DEF TypeOK, Launch, Phases
<1>27. ASSUME NEW r \in Runs, LaunchFails(r) PROVE TypeOK'
  <2>1. remote' \in [Runs -> RemoteRecord] /\ outbox' \in Seq(OutboxEntry)
    BY <1>27, EnqueueReportType DEF LaunchFails, ReportStatus, Terminal, ErrorCode
  <2> QED BY <1>27, <2>1, TaskTables DEF TypeOK, LaunchFails
<1>28. ASSUME BindRemoteTask PROVE TypeOK'
  <2>1. cur \in Runs /\ curTask \in Tasks
    BY <1>28 DEF TypeOK, BindRemoteTask
  <2>2. outbox' \in Seq(OutboxEntry)
    BY <1>28, <2>1, EnqueuedFacts DEF BindRemoteTask, ReportStatus, ErrorCode
  <2>3. remote' \in [Runs -> RemoteRecord]
    BY ZenonT(60), <1>28, <2>1 DEF TypeOK, BindRemoteTask, RemoteRecord, RemoteState
  <2> QED BY <1>28, <2>2, <2>3 DEF TypeOK, BindRemoteTask, Phases
<1>29. ASSUME BeginFlush PROVE TypeOK'
  BY <1>29 DEF TypeOK, BeginFlush, Phases
<1>30. ASSUME NEW i \in 1..Len(outbox), ReportAccepted(i) PROVE TypeOK'
  <2>1. outbox' \in Seq(OutboxEntry)
    BY <1>30, RemoveAtFacts DEF TypeOK, ReportAccepted
  <2>2. run' \in [Runs -> RunRecord]
    BY <1>30, RunTables, OutboxReportsType DEF ReportAccepted
  <2> QED BY <1>30, <2>1, <2>2 DEF TypeOK, ReportAccepted
<1>31. ASSUME NEW i \in 1..Len(outbox), ReportRejected(i) PROVE TypeOK'
  <2>1. outbox' \in Seq(OutboxEntry)
    BY <1>31, DelayedFacts DEF ReportRejected
  <2> QED BY <1>31, <2>1 DEF TypeOK, ReportRejected, EndCycle, Phases
<1>32. ASSUME NEW i \in 1..Len(outbox), ReportTimesOut(i) PROVE TypeOK'
  <2>1. outbox' \in Seq(OutboxEntry)
    BY <1>32, DelayedFacts DEF ReportTimesOut
  <2>2. lateReports' \in SUBSET Report
    BY <1>32, OutboxReportsType DEF TypeOK, ReportTimesOut
  <2>3. timeouts' \in 0..MaxTimeouts
    BY <1>32, BoundAssumption DEF TypeOK, ReportTimesOut
  <2> QED BY <1>32, <2>1, <2>2, <2>3 DEF TypeOK, ReportTimesOut, EndCycle, Phases
<1>33. ASSUME FlushDone PROVE TypeOK'
  BY <1>33 DEF TypeOK, FlushDone, EndCycle, Phases
<1>34. ASSUME NEW S \in SUBSET Runs, ClaimRuns(S) PROVE TypeOK'
  BY <1>34, RunTables DEF TypeOK, ClaimRuns, Phases
<1>35. ASSUME ClaimTimesOut PROVE TypeOK'
  BY <1>35, BoundAssumption DEF TypeOK, ClaimTimesOut, Phases
<1>36. ASSUME NEW r \in Runs, RecordRemoteClaim(r) PROVE TypeOK'
  <2>1. remote' \in [Runs -> RemoteRecord]
    BY ZenonT(60), <1>36 DEF TypeOK, RecordRemoteClaim, RemoteRecord, RemoteState
  <2> QED BY <1>36, <2>1 DEF TypeOK, RecordRemoteClaim
<1>37. ASSUME NEW p \in lateReports, LateReportExecutes(p) PROVE TypeOK'
  BY <1>37, RunTables DEF TypeOK, LateReportExecutes
<1>38. ASSUME NEW S \in SUBSET Runs, LateClaimExecutes(S) PROVE TypeOK'
  BY <1>38, RunTables DEF TypeOK, LateClaimExecutes
<1>39. ASSUME LateRequestsLost PROVE TypeOK'
  BY <1>39 DEF TypeOK, LateRequestsLost
<1>40. CASE UNCHANGED vars
  BY <1>40 DEF TypeOK, vars
<1>41. CASE UserStep
  BY <1>41, <1>1, <1>2, <1>3, <1>4, <1>5, <1>6, <1>8, <1>9, <1>10, <1>11, <1>12, <1>13 DEF UserStep
<1>42. CASE ThreadStep
  BY <1>42, <1>14, <1>15, <1>16, <1>17, <1>18, <1>19, <1>20, <1>21, <1>22, <1>23, <1>24, <1>25,
     <1>26, <1>27, <1>28, <1>29, <1>30, <1>31, <1>32, <1>33, <1>34, <1>35, <1>36 DEF ThreadStep
<1>43. CASE LateStep
  BY <1>43, <1>37, <1>38, <1>39 DEF LateStep
<1> QED BY <1>7, <1>40, <1>41, <1>42, <1>43 DEF Next

\* The types of RunDispatch hold in every reachable state, for any number of runs,
\* tasks and faults.
THEOREM TypeCorrect == Spec => []TypeOK
<1> QED BY InitType, NextType, PTL DEF Spec

----------------------------------------------------------------------------
(* The reports in flight after a change of the outbox *)

LEMMA EnqueuedReports ==
  ASSUME TypeOK, NEW r \in Runs, NEW s \in ReportStatus, NEW c \in ErrorCode,
         outbox' = Enqueued(r, s, c)
  PROVE  OutboxReports' \subseteq OutboxReports \cup {NewReport(r, s, c)}
<1>1. ASSUME NEW j \in 1..Len(outbox')
      PROVE  ReportOf(outbox'[j]) \in OutboxReports \cup {NewReport(r, s, c)}
  <2>1. \/ \E k \in 1..Len(outbox) : outbox'[j] = outbox[k]
        \/ ReportOf(outbox'[j]) = NewReport(r, s, c)
    BY EnqueuedFacts
  <2> QED BY <2>1 DEF OutboxReports
<1> QED BY <1>1 DEF OutboxReports

LEMMA RemovedReports ==
  ASSUME TypeOK, NEW i \in 1..Len(outbox), outbox' = RemoveAt(outbox, i)
  PROVE  OutboxReports' \subseteq OutboxReports
<1>1. outbox \in Seq(OutboxEntry)
  BY DEF TypeOK
<1>2. \A j \in 1..Len(outbox') : \E k \in 1..Len(outbox) : outbox'[j] = outbox[k]
  BY <1>1, RemoveAtFacts
<1> QED BY <1>2 DEF OutboxReports

LEMMA DelayedReports ==
  ASSUME TypeOK, NEW i \in 1..Len(outbox), outbox' = Delayed(i)
  PROVE  OutboxReports' \subseteq OutboxReports
<1>1. \A j \in 1..Len(outbox') : j \in 1..Len(outbox) /\ ReportOf(outbox'[j]) = ReportOf(outbox[j])
  BY DelayedFacts
<1> QED BY <1>1 DEF OutboxReports

LEMMA HeldReports ==
  ASSUME TypeOK, BeginCycle
  PROVE  OutboxReports' \subseteq OutboxReports
<1>1. \A j \in 1..Len(outbox) : outbox[j] \in OutboxEntry
  BY DEF TypeOK
<1>2. Len(outbox) \in Nat
  BY DEF TypeOK
<1>3. Len(outbox') = Len(outbox)
  BY <1>2 DEF BeginCycle
<1>4. ASSUME NEW j \in 1..Len(outbox) PROVE ReportOf(outbox'[j]) = ReportOf(outbox[j])
  BY <1>1, <1>2 DEF BeginCycle, OutboxEntry, ReportOf, NewReport
<1> QED BY <1>3, <1>4 DEF OutboxReports

----------------------------------------------------------------------------
(* Steps that leave the Agent's bindings alone *)

\* A task only proceeds: it stays as it ended, and authority is only lost.
Advances(t, u) ==
  /\ u.run = t.run
  /\ t.status # "running" => u.status = t.status
  /\ t.status = "running" => u.status # "unused"
  /\ u.lease => t.lease
  /\ u.status = "running" /\ t.lease => u.lease
  /\ u.child \/ u.lease => u.status = "running"

TasksAdvance == \A t \in Tasks : Advances(task[t], task'[t])

\* refresh_tasks, stop, a restart and the exit of a Runner are such steps.
LEMMA AdvancesFacts ==
  ASSUME NEW t \in TaskRecord, t.child \/ t.lease => t.status = "running"
  PROVE  /\ Advances(t, t)
         /\ Advances(t, Refreshed(t))
         /\ Advances(t, StoppedTask(t))
         /\ Advances(t, RecoveredTask(t)) /\ ~RecoveredTask(t).lease
         /\ \A exit \in {"ok", "error"} : t.child => Advances(t, [t EXCEPT !.exit = exit])
<1> USE DEF Advances, TaskRecord, TaskStatus
<1>1. Advances(t, t)
  OBVIOUS
<1>2. Advances(t, Refreshed(t))
  <2>1. CASE t.child /\ t.exit # "none"
    BY <2>1 DEF Refreshed
  <2>2. CASE ~(t.child /\ t.exit # "none")
    BY <1>1, <2>2 DEF Refreshed
  <2> QED BY <2>1, <2>2
<1>3. Advances(t, StoppedTask(t))
  BY DEF StoppedTask
<1>4. Advances(t, RecoveredTask(t)) /\ ~RecoveredTask(t).lease
  BY DEF RecoveredTask
<1>5. ASSUME NEW exit \in {"ok", "error"} PROVE Advances(t, [t EXCEPT !.exit = exit])
  OBVIOUS
<1> QED BY <1>1, <1>2, <1>3, <1>4, <1>5

LEMMA TasksAdvanceFacts ==
  ASSUME TypeOK, TaskInv
  PROVE  /\ task' = task => TasksAdvance
         /\ task' = RefreshedTasks => TasksAdvance
         /\ task' = [t \in Tasks |-> RecoveredTask(task[t])] =>
              TasksAdvance /\ \A t \in Tasks : ~task'[t].lease
         /\ \A S \in SUBSET Tasks :
              task' = [t \in Tasks |-> IF t \in S THEN StoppedTask(task[t]) ELSE task[t]] =>
                TasksAdvance
         /\ \A t \in Tasks, exit \in {"ok", "error"} :
              task[t].child /\ task' = [task EXCEPT ![t].exit = exit] => TasksAdvance
<1>1. \A t \in Tasks : task[t] \in TaskRecord
  BY DEF TypeOK
<1>2. \A t \in Tasks : task[t].child \/ task[t].lease => task[t].status = "running"
  BY DEF TaskInv
<1>3. \A t \in Tasks :
         /\ Advances(task[t], task[t])
         /\ Advances(task[t], Refreshed(task[t]))
         /\ Advances(task[t], StoppedTask(task[t]))
         /\ Advances(task[t], RecoveredTask(task[t])) /\ ~RecoveredTask(task[t]).lease
         /\ \A exit \in {"ok", "error"} :
              task[t].child => Advances(task[t], [task[t] EXCEPT !.exit = exit])
  BY <1>1, <1>2, AdvancesFacts
<1>4. task \in [Tasks -> TaskRecord]
  BY DEF TypeOK
<1> QED BY <1>3, <1>4 DEF TasksAdvance, RefreshedTasks

\* Every run keeps its local state and its task, and no report is new.
KeepsBindings ==
  \A r \in Runs : remote'[r].state = remote[r].state /\ remote'[r].task = remote[r].task
NoNewReports ==
  OutboxReports' \cup lateReports' \subseteq OutboxReports \cup lateReports

\* The thread goes on binding the task it has just spawned, or there is none.
KeepsSpawned ==
  pc = "bind" => \/ pc' = "bind" /\ cur' = cur /\ curTask' = curTask
                 \/ \A t \in Tasks : ~task'[t].lease

\* What such a step preserves.
LEMMA AdvanceFacts ==
  ASSUME TypeOK, TypeOK', TaskInv, TasksAdvance, KeepsBindings
  PROVE  /\ TaskInv'
         /\ LeaseInv /\ KeepsSpawned => LeaseInv'
         /\ ReportInv /\ NoNewReports => ReportInv'
         /\ UnclaimedInv /\ run' = run => UnclaimedInv'
         /\ ServerNeverAheadOfAgent /\ run' = run => ServerNeverAheadOfAgent'
         /\ VerdictMatchesExecution /\ run' = run => VerdictMatchesExecution'
<1>1. TaskInv'
  BY DEF TaskInv, TasksAdvance, Advances, KeepsBindings
<1>2. ASSUME LeaseInv, KeepsSpawned PROVE LeaseInv'
  BY SMTT(45), <1>2 DEF LeaseInv, KeepsSpawned, TasksAdvance, Advances, KeepsBindings, TypeOK
<1>3. \A r \in Runs, s \in Finished : BoundStatus(r) = s => BoundStatus(r)' = s
  BY DEF BoundStatus, TasksAdvance, Advances, KeepsBindings, Finished
<1>4. ASSUME ReportInv, NoNewReports PROVE ReportInv'
  <2>1. \A p \in OutboxReports \cup lateReports : p.run \in Runs
    BY OutboxReportsType DEF OutboxReports, TypeOK, Report
  <2>2. ASSUME NEW p \in OutboxReports \cup lateReports, ReportSound(p) PROVE ReportSound(p)'
    BY <1>3, <2>1, <2>2 DEF ReportSound, KeepsBindings, Finished
  <2> QED BY <1>4, <2>2 DEF ReportInv, NoNewReports
<1>5. ASSUME UnclaimedInv, run' = run PROVE UnclaimedInv'
  BY <1>5 DEF UnclaimedInv, KeepsBindings
<1>6. ASSUME ServerNeverAheadOfAgent, run' = run PROVE ServerNeverAheadOfAgent'
  BY <1>6 DEF ServerNeverAheadOfAgent, KeepsBindings
<1>7. ASSUME VerdictMatchesExecution, run' = run PROVE VerdictMatchesExecution'
  BY <1>3, <1>7 DEF VerdictMatchesExecution, Finished
<1> QED BY <1>1, <1>2, <1>4, <1>5, <1>6, <1>7

----------------------------------------------------------------------------
(* The dispatch invariant, by kinds of steps *)

\* A step of another thread, or one in which the background thread stays where it is.
LEMMA ThreadKept ==
  ASSUME TypeOK, TaskInv, ThreadInv, TasksAdvance, KeepsBindings, run' = run,
         pc' = pc, batch' \subseteq batch, cur' = cur, curTask' = curTask
  PROVE  ThreadInv'
<1>1. pc = "record" => \A r \in batch' : run'[r].status = "dispatched" /\ remote'[r].state = "unknown"
  BY DEF ThreadInv, KeepsBindings, TypeOK
<1>2. pc \in {"pending", "bind"} => \A r \in batch' : remote'[r].state = "claimed"
  BY DEF ThreadInv, KeepsBindings, TypeOK
<1>3. pc = "bind" => /\ remote'[cur].state = "claimed"
                     /\ task'[curTask].run = cur /\ task'[curTask].status # "unused"
  BY DEF ThreadInv, KeepsBindings, TasksAdvance, Advances, TypeOK
<1>4. pc = "cancel" => /\ remote'[cur].state \notin {"unknown", "terminal"}
                       /\ \A t \in Tasks : task'[t].run = cur => ~task'[t].lease
  BY DEF ThreadInv, KeepsBindings, TasksAdvance, Advances, TypeOK
<1>5. pc = "complete" => \A r \in batch' : /\ remote'[r].state = "running"
                                           /\ task'[remote'[r].task].status \in Finished
  BY DEF ThreadInv, KeepsBindings, TasksAdvance, Advances, TypeOK, TaskInv, Finished
<1> QED BY <1>1, <1>2, <1>3, <1>4, <1>5 DEF ThreadInv

\* Steps that change neither the run table nor the bindings, and report nothing new.
LEMMA QuietStep ==
  ASSUME TypeOK, TypeOK', DispatchInv, TasksAdvance, KeepsBindings, NoNewReports,
         KeepsSpawned, run' = run, ThreadInv'
  PROVE  DispatchInv'
BY AdvanceFacts DEF DispatchInv

\* Steps of the control plane: a run is created, cancelled or claimed, or takes the
\* status of a report in flight.
ServerMoves ==
  \A r \in Runs :
    \/ run'[r].status = run[r].status /\ run'[r].code = run[r].code
    \/ \E p \in OutboxReports \cup lateReports :
         p.run = r /\ run'[r].status = p.status /\ run'[r].code = p.code
    \/ /\ run[r].status \in {"absent", "queued"}
       /\ run'[r].status \in {"queued", "dispatched", "cancelled", "failed"}
       /\ run'[r].code \in {run[r].code, "permission_grant_inactive"}

\* A report changes its own run, to what it says.
LEMMA AfterReportFacts ==
  ASSUME TypeOK, NEW p \in Report, NEW r \in Runs
  PROVE  \/ AfterReport(p)[r].status = run[r].status /\ AfterReport(p)[r].code = run[r].code
         \/ p.run = r /\ AfterReport(p)[r].status = p.status /\ AfterReport(p)[r].code = p.code
<1>1. run \in [Runs -> RunRecord] /\ run[r] \in RunRecord
  BY DEF TypeOK
<1> QED
  BY <1>1 DEF AfterReport, RunRecord

\* A step of the control plane keeps the agreement between the two sides.
LEMMA ServerStep ==
  ASSUME TypeOK, TypeOK', DispatchInv, ServerMoves, task' = task, remote' = remote, NoNewReports,
         KeepsSpawned,
         \/ ThreadInv'
         \/ pc' = pc /\ batch' = batch /\ cur' = cur /\ curTask' = curTask
  PROVE  DispatchInv'
<1>1. TasksAdvance /\ KeepsBindings
  BY TasksAdvanceFacts DEF KeepsBindings, DispatchInv
<1>2. TaskInv' /\ LeaseInv' /\ ReportInv'
  BY <1>1, AdvanceFacts DEF DispatchInv
<1>3. \A p \in OutboxReports \cup lateReports : ReportSound(p) /\ p \in Report
  BY OutboxReportsType DEF OutboxReports, TypeOK, DispatchInv, ReportInv
<1>4. \A r \in Runs : BoundStatus(r)' = BoundStatus(r)
  BY DEF BoundStatus
<1>5. ASSUME NEW r \in Runs
      PROVE  /\ run'[r].status \in {"absent", "queued"} => remote[r].state = "unknown"
             /\ run'[r].status = "running" => remote[r].state \in {"running", "terminal"}
             /\ run'[r].status = "needs_user_approval" =>
                  remote[r].state \in {"needs_user_approval", "terminal"}
             /\ run'[r].status \in Terminal /\ remote[r].state # "unknown" =>
                  remote[r].state = "terminal"
             /\ run'[r].status = "succeeded"   => BoundStatus(r) = "succeeded"
             /\ run'[r].code = "runner_failed" => BoundStatus(r) = "failed"
             /\ run'[r].code = "task_stopped"  => BoundStatus(r) = "stopped"
             /\ run[r].status = "dispatched" /\ remote[r].state = "unknown" =>
                  run'[r].status = "dispatched"
  <2>1. CASE run'[r].status = run[r].status /\ run'[r].code = run[r].code
    BY <2>1 DEF DispatchInv, UnclaimedInv, ServerNeverAheadOfAgent, VerdictMatchesExecution
  <2>2. ASSUME NEW p \in OutboxReports \cup lateReports,
               p.run = r, run'[r].status = p.status, run'[r].code = p.code
        PROVE  <1>5!2
    BY <1>3, <2>2 DEF ReportSound, Report, ReportStatus, Terminal
  <2>3. CASE /\ run[r].status \in {"absent", "queued"}
             /\ run'[r].status \in {"queued", "dispatched", "cancelled", "failed"}
                   /\ run'[r].code \in {run[r].code, "permission_grant_inactive"}
    BY <2>3 DEF DispatchInv, UnclaimedInv, VerdictMatchesExecution, Terminal
  <2> QED BY <2>1, <2>2, <2>3 DEF ServerMoves
<1>6. UnclaimedInv' /\ ServerNeverAheadOfAgent' /\ VerdictMatchesExecution'
  BY <1>4, <1>5 DEF UnclaimedInv, ServerNeverAheadOfAgent, VerdictMatchesExecution
<1>7. ThreadInv'
  <2>1. CASE pc' = pc /\ batch' = batch /\ cur' = cur /\ curTask' = curTask
    BY <1>5, <2>1 DEF DispatchInv, ThreadInv, TypeOK
  <2> QED BY <2>1
<1> QED BY <1>2, <1>6, <1>7 DEF DispatchInv

\* Steps that enqueue the last word about a run, or hand it to its user.
LEMMA EnqueueStep ==
  ASSUME TypeOK, TypeOK', DispatchInv, TasksAdvance, ThreadInv',
         NEW r \in Runs, NEW s \in ReportStatus, NEW c \in ErrorCode,
         EnqueueReport(r, s, c), run' = run, lateReports' = lateReports, pc # "bind",
         remote[r].state \notin {"unknown", "terminal"},
         \A t \in Tasks : task[t].run = r => ~task[t].lease,
         s \in Terminal \/ (s = "needs_user_approval" /\ remote[r].state = "claimed"),
         s = "succeeded" => BoundStatus(r) = "succeeded",
         c = "runner_failed" => BoundStatus(r) = "failed",
         c = "task_stopped" => BoundStatus(r) = "stopped"
  PROVE  DispatchInv'
<1>1. /\ remote'[r].state = (IF s \in Terminal THEN "terminal" ELSE "needs_user_approval")
      /\ remote'[r].task = remote[r].task
      /\ \A q \in Runs \ {r} : remote'[q] = remote[q]
  BY DEF EnqueueReport, StateFor, TypeOK, RemoteRecord
<1>2. \A q \in Runs, f \in Finished : BoundStatus(q) = f => BoundStatus(q)' = f
  BY <1>1 DEF BoundStatus, TasksAdvance, Advances, Finished
<1>3. OutboxReports' \cup lateReports' \subseteq OutboxReports \cup lateReports \cup {NewReport(r, s, c)}
  BY EnqueuedReports DEF EnqueueReport
<1>4. \A p \in OutboxReports \cup lateReports : ReportSound(p) /\ p \in Report
  BY OutboxReportsType DEF OutboxReports, TypeOK, DispatchInv, ReportInv
<1>5. remote[r].state \in {"claimed", "running", "needs_user_approval"}
  BY DEF TypeOK, RemoteRecord, RemoteState
<1>6. TaskInv'
  BY <1>1, <1>5 DEF DispatchInv, TaskInv, TasksAdvance, Advances
<1>7. LeaseInv'
  BY <1>1 DEF DispatchInv, LeaseInv, TasksAdvance, Advances
<1>8. ASSUME NEW p \in OutboxReports \cup lateReports PROVE ReportSound(p)'
  BY <1>1, <1>2, <1>4, <1>5 DEF ReportSound, Report, Finished, Terminal
<1>9. ReportSound(NewReport(r, s, c))'
  BY <1>1, <1>2 DEF ReportSound, NewReport, ReportStatus, Finished, Terminal
<1>10. ReportInv'
  BY <1>3, <1>8, <1>9 DEF ReportInv
<1>11. UnclaimedInv' /\ ServerNeverAheadOfAgent'
  BY <1>1, <1>5 DEF DispatchInv, UnclaimedInv, ServerNeverAheadOfAgent, Terminal
<1>12. VerdictMatchesExecution'
  BY <1>2 DEF DispatchInv, VerdictMatchesExecution, Finished
<1> QED BY <1>6, <1>7, <1>10, <1>11, <1>12 DEF DispatchInv

----------------------------------------------------------------------------
(* The dispatch invariant, action by action *)

LEMMA InitDispatch == Init => DispatchInv
<1> SUFFICES ASSUME Init PROVE DispatchInv
  OBVIOUS
<1>1. OutboxReports = {}
  BY DEF Init, OutboxReports
<1>2. ReportInv
  BY <1>1 DEF Init, ReportInv
<1> QED BY <1>2, NullAssumption
   DEF Init, DispatchInv, TaskInv, LeaseInv, ThreadInv, UnclaimedInv, ServerNeverAheadOfAgent,
       VerdictMatchesExecution, Terminal

\* Every step keeps the invariant: quiet steps, then the server's, then the ones that
\* enqueue a verdict, then claiming, launching and binding.
LEMMA NextDispatch == TypeOK /\ TypeOK' /\ DispatchInv /\ [Next]_vars => DispatchInv'
<1> SUFFICES ASSUME TypeOK, TypeOK', DispatchInv, [Next]_vars PROVE DispatchInv'
  OBVIOUS
<1> USE DEF serverVars, threadVars, netVars
<1>t. TaskInv /\ LeaseInv /\ ThreadInv /\ ReportInv
  BY DEF DispatchInv
<1>o. outbox' = outbox => OutboxReports' = OutboxReports
  BY DEF OutboxReports
<1>1. ASSUME ApprovePermissionGrant PROVE DispatchInv'
  <2>1. TasksAdvance /\ KeepsBindings /\ NoNewReports /\ KeepsSpawned
    BY <1>1, <1>t, <1>o, TasksAdvanceFacts
       DEF ApprovePermissionGrant, KeepsBindings, NoNewReports, KeepsSpawned
  <2>2. ThreadInv'
    BY <1>1, <1>t, <2>1, ThreadKept DEF ApprovePermissionGrant
  <2> QED BY <1>1, <2>1, <2>2, QuietStep DEF ApprovePermissionGrant
<1>2. ASSUME GrantExpires PROVE DispatchInv'
  <2>1. TasksAdvance /\ KeepsBindings /\ NoNewReports /\ KeepsSpawned
    BY <1>2, <1>t, <1>o, TasksAdvanceFacts
       DEF GrantExpires, KeepsBindings, NoNewReports, KeepsSpawned
  <2>2. ThreadInv'
    BY <1>2, <1>t, <2>1, ThreadKept DEF GrantExpires
  <2> QED BY <1>2, <2>1, <2>2, QuietStep DEF GrantExpires
<1>3. ASSUME RevokeDevice PROVE DispatchInv'
  <2>1. TasksAdvance /\ KeepsBindings /\ NoNewReports /\ KeepsSpawned
    BY <1>3, <1>t, <1>o, TasksAdvanceFacts
       DEF RevokeDevice, KeepsBindings, NoNewReports, KeepsSpawned
  <2>2. ThreadInv'
    BY <1>3, <1>t, <2>1, ThreadKept DEF RevokeDevice
  <2> QED BY <1>3, <2>1, <2>2, QuietStep DEF RevokeDevice
<1>4. ASSUME Uninstall PROVE DispatchInv'
  <2>1. TasksAdvance /\ KeepsBindings /\ NoNewReports /\ KeepsSpawned
    BY <1>4, <1>t, <1>o, TasksAdvanceFacts
       DEF Uninstall, KeepsBindings, NoNewReports, KeepsSpawned
  <2>2. ThreadInv'
    BY <1>4, <1>t, <2>1, ThreadKept DEF Uninstall
  <2> QED BY <1>4, <2>1, <2>2, QuietStep DEF Uninstall
<1>5. ASSUME Reinstall PROVE DispatchInv'
  <2>1. TasksAdvance /\ KeepsBindings /\ NoNewReports /\ KeepsSpawned
    BY <1>5, <1>t, <1>o, TasksAdvanceFacts
       DEF Reinstall, KeepsBindings, NoNewReports, KeepsSpawned
  <2>2. ThreadInv'
    BY <1>5, <1>t, <2>1, ThreadKept DEF Reinstall
  <2> QED BY <1>5, <2>1, <2>2, QuietStep DEF Reinstall
<1>6. ASSUME LateRequestsLost PROVE DispatchInv'
  <2>1. TasksAdvance /\ KeepsBindings /\ NoNewReports /\ KeepsSpawned
    BY <1>6, <1>t, <1>o, TasksAdvanceFacts
       DEF LateRequestsLost, KeepsBindings, NoNewReports, KeepsSpawned
  <2>2. ThreadInv'
    BY <1>6, <1>t, <2>1, ThreadKept DEF LateRequestsLost
  <2> QED BY <1>6, <2>1, <2>2, QuietStep DEF LateRequestsLost
<1>7. ASSUME Snapshot PROVE DispatchInv'
  <2>1. TasksAdvance /\ KeepsBindings /\ NoNewReports /\ KeepsSpawned
    BY <1>7, <1>t, <1>o, TasksAdvanceFacts
       DEF Snapshot, KeepsBindings, NoNewReports, KeepsSpawned
  <2>2. ThreadInv'
    BY <1>7, <1>t, <2>1, ThreadKept DEF Snapshot
  <2> QED BY <1>7, <2>1, <2>2, QuietStep DEF Snapshot
<1>8. ASSUME NEW t \in Tasks, NEW e \in {"ok", "error"}, RunnerExits(t, e) PROVE DispatchInv'
  <2>1. TasksAdvance /\ KeepsBindings /\ NoNewReports /\ KeepsSpawned
    BY <1>8, <1>t, <1>o, TasksAdvanceFacts
       DEF RunnerExits, KeepsBindings, NoNewReports, KeepsSpawned
  <2>2. ThreadInv'
    BY <1>8, <1>t, <2>1, ThreadKept DEF RunnerExits
  <2> QED BY <1>8, <2>1, <2>2, QuietStep DEF RunnerExits
<1>9. ASSUME NEW t \in Tasks, UserStop(t) PROVE DispatchInv'
  <2>0. task' = [s \in Tasks |-> IF s \in {t} THEN StoppedTask(task[s]) ELSE task[s]]
    BY <1>9 DEF UserStop, TypeOK
  <2>1. TasksAdvance /\ KeepsBindings /\ NoNewReports /\ KeepsSpawned
    BY <1>9, <1>t, <1>o, TasksAdvanceFacts, <2>0
       DEF UserStop, KeepsBindings, NoNewReports, KeepsSpawned
  <2>2. ThreadInv'
    BY <1>9, <1>t, <2>1, ThreadKept DEF UserStop
  <2> QED BY <1>9, <2>1, <2>2, QuietStep DEF UserStop
<1>10. ASSUME NEW r \in Runs, LeaseExpires(r) PROVE DispatchInv'
  <2>1. TasksAdvance /\ KeepsBindings /\ NoNewReports /\ KeepsSpawned
    BY <1>10, <1>t, <1>o, TasksAdvanceFacts
       DEF LeaseExpires, KeepsBindings, NoNewReports, KeepsSpawned, TypeOK, RemoteRecord
  <2>2. ThreadInv'
    BY <1>10, <1>t, <2>1, ThreadKept DEF LeaseExpires
  <2> QED BY <1>10, <2>1, <2>2, QuietStep DEF LeaseExpires
<1>11. ASSUME CrashAndRestart PROVE DispatchInv'
  <2>1. TasksAdvance /\ KeepsBindings /\ NoNewReports /\ KeepsSpawned
    BY <1>11, <1>t, <1>o, TasksAdvanceFacts
       DEF CrashAndRestart, KeepsBindings, NoNewReports, KeepsSpawned
  <2>2. ThreadInv'
    BY <1>11 DEF CrashAndRestart, ThreadInv
  <2> QED BY <1>11, <2>1, <2>2, QuietStep DEF CrashAndRestart
<1>12. ASSUME Unauthorized PROVE DispatchInv'
  <2>1. TasksAdvance /\ KeepsBindings /\ NoNewReports /\ KeepsSpawned
    BY <1>12, <1>t, <1>o, TasksAdvanceFacts
       DEF Unauthorized, KeepsBindings, NoNewReports, KeepsSpawned
  <2>2. ThreadInv'
    BY <1>12 DEF Unauthorized, ThreadInv
  <2> QED BY <1>12, <2>1, <2>2, QuietStep DEF Unauthorized
<1>13. ASSUME BeginCycle PROVE DispatchInv'
  <2>1. TasksAdvance /\ KeepsBindings /\ NoNewReports /\ KeepsSpawned
    BY <1>13, <1>t, <1>o, TasksAdvanceFacts, HeldReports
       DEF BeginCycle, KeepsBindings, NoNewReports, KeepsSpawned
  <2>2. ThreadInv'
    BY <1>13 DEF BeginCycle, ThreadInv
  <2> QED BY <1>13, <2>1, <2>2, QuietStep DEF BeginCycle
<1>14. ASSUME FetchRunControls PROVE DispatchInv'
  <2>1. TasksAdvance /\ KeepsBindings /\ NoNewReports /\ KeepsSpawned
    BY <1>14, <1>t, <1>o, TasksAdvanceFacts
       DEF FetchRunControls, KeepsBindings, NoNewReports, KeepsSpawned
  <2>2. ThreadInv'
    BY <1>14 DEF FetchRunControls, ThreadInv
  <2> QED BY <1>14, <2>1, <2>2, QuietStep DEF FetchRunControls
<1>15. ASSUME RunControlsTimeOut PROVE DispatchInv'
  <2>1. TasksAdvance /\ KeepsBindings /\ NoNewReports /\ KeepsSpawned
    BY <1>15, <1>t, <1>o, TasksAdvanceFacts
       DEF RunControlsTimeOut, KeepsBindings, NoNewReports, KeepsSpawned
  <2>2. ThreadInv'
    BY <1>15 DEF RunControlsTimeOut, ThreadInv
  <2> QED BY <1>15, <2>1, <2>2, QuietStep DEF RunControlsTimeOut
<1>16. ASSUME NEW r \in Runs, IgnoreControl(r) PROVE DispatchInv'
  <2>1. TasksAdvance /\ KeepsBindings /\ NoNewReports /\ KeepsSpawned
    BY <1>16, <1>t, <1>o, TasksAdvanceFacts
       DEF IgnoreControl, KeepsBindings, NoNewReports, KeepsSpawned
  <2>2. ThreadInv'
    BY <1>16, <1>t, <2>1, ThreadKept DEF IgnoreControl
  <2> QED BY <1>16, <2>1, <2>2, QuietStep DEF IgnoreControl
<1>17. ASSUME NEW r \in Runs, StopForControl(r) PROVE DispatchInv'
  <2>0. task' = [s \in Tasks |-> IF s \in {t \in Tasks : t = remote[r].task}
                             THEN StoppedTask(task[s]) ELSE task[s]]
    BY <1>17 DEF StopForControl
  <2>1. TasksAdvance /\ KeepsBindings /\ NoNewReports /\ KeepsSpawned
    BY <1>17, <1>t, <1>o, TasksAdvanceFacts, <2>0
       DEF StopForControl, KeepsBindings, NoNewReports, KeepsSpawned
  <2>2. ASSUME NEW t \in Tasks, task'[t].run = r PROVE ~task'[t].lease
    <3>1. CASE t = remote[r].task
      BY <2>0, <3>1 DEF StoppedTask, TypeOK, TaskRecord
    <3>2. CASE t # remote[r].task
      BY <1>17, <1>t, <2>0, <2>2, <3>2 DEF StopForControl, LeaseInv
    <3> QED BY <3>1, <3>2
  <2>3. ThreadInv'
    BY <1>17, <2>2 DEF StopForControl, ThreadInv
  <2> QED BY <1>17, <2>1, <2>3, QuietStep DEF StopForControl
<1>18. ASSUME CollectCompletions PROVE DispatchInv'
  <2>1. TasksAdvance /\ KeepsBindings /\ NoNewReports /\ KeepsSpawned
    BY <1>18, <1>t, <1>o, TasksAdvanceFacts
       DEF CollectCompletions, KeepsBindings, NoNewReports, KeepsSpawned
  <2>2. ThreadInv'
    BY <1>18 DEF CollectCompletions, ThreadInv
  <2> QED BY <1>18, <2>1, <2>2, QuietStep DEF CollectCompletions
<1>19. ASSUME CollectPending PROVE DispatchInv'
  <2>1. TasksAdvance /\ KeepsBindings /\ NoNewReports /\ KeepsSpawned
    BY <1>19, <1>t, <1>o, TasksAdvanceFacts
       DEF CollectPending, KeepsBindings, NoNewReports, KeepsSpawned
  <2>2. ThreadInv'
    BY <1>19 DEF CollectPending, ThreadInv
  <2> QED BY <1>19, <2>1, <2>2, QuietStep DEF CollectPending
<1>20. ASSUME BeginFlush PROVE DispatchInv'
  <2>1. TasksAdvance /\ KeepsBindings /\ NoNewReports /\ KeepsSpawned
    BY <1>20, <1>t, <1>o, TasksAdvanceFacts
       DEF BeginFlush, KeepsBindings, NoNewReports, KeepsSpawned
  <2>2. ThreadInv'
    BY <1>20 DEF BeginFlush, ThreadInv
  <2> QED BY <1>20, <2>1, <2>2, QuietStep DEF BeginFlush
<1>21. ASSUME NEW i \in 1..Len(outbox), ReportRejected(i) PROVE DispatchInv'
  <2>1. TasksAdvance /\ KeepsBindings /\ NoNewReports /\ KeepsSpawned
    BY <1>21, <1>t, <1>o, TasksAdvanceFacts, DelayedReports
       DEF ReportRejected, KeepsBindings, NoNewReports, KeepsSpawned, EndCycle
  <2>2. ThreadInv'
    BY <1>21 DEF ReportRejected, ThreadInv, EndCycle
  <2> QED BY <1>21, <2>1, <2>2, QuietStep DEF ReportRejected
<1>22. ASSUME NEW i \in 1..Len(outbox), ReportTimesOut(i) PROVE DispatchInv'
  <2>1. TasksAdvance /\ KeepsBindings /\ NoNewReports /\ KeepsSpawned
    BY <1>22, <1>t, <1>o, TasksAdvanceFacts, DelayedReports
       DEF ReportTimesOut, KeepsBindings, NoNewReports, KeepsSpawned, OutboxReports, EndCycle
  <2>2. ThreadInv'
    BY <1>22 DEF ReportTimesOut, ThreadInv, EndCycle
  <2> QED BY <1>22, <2>1, <2>2, QuietStep DEF ReportTimesOut
<1>23. ASSUME FlushDone PROVE DispatchInv'
  <2>1. TasksAdvance /\ KeepsBindings /\ NoNewReports /\ KeepsSpawned
    BY <1>23, <1>t, <1>o, TasksAdvanceFacts
       DEF FlushDone, KeepsBindings, NoNewReports, KeepsSpawned, EndCycle
  <2>2. ThreadInv'
    BY <1>23 DEF FlushDone, ThreadInv, EndCycle
  <2> QED BY <1>23, <2>1, <2>2, QuietStep DEF FlushDone
<1>24. ASSUME ClaimTimesOut PROVE DispatchInv'
  <2>1. TasksAdvance /\ KeepsBindings /\ NoNewReports /\ KeepsSpawned
    BY <1>24, <1>t, <1>o, TasksAdvanceFacts
       DEF ClaimTimesOut, KeepsBindings, NoNewReports, KeepsSpawned
  <2>2. ThreadInv'
    BY <1>24 DEF ClaimTimesOut, ThreadInv
  <2> QED BY <1>24, <2>1, <2>2, QuietStep DEF ClaimTimesOut
<1>25. ASSUME NEW r \in Runs, CreateManualRun(r) PROVE DispatchInv'
  <2>2. ServerMoves
    BY <1>25 DEF CreateManualRun, ServerMoves, TypeOK, RunRecord
  <2>3. NoNewReports
    BY <1>25, <1>o DEF CreateManualRun, NoNewReports
  <2>4. KeepsSpawned
    BY <1>25 DEF CreateManualRun, KeepsSpawned
  <2> QED BY <1>25, <2>2, <2>3, <2>4, ServerStep DEF CreateManualRun
<1>26. ASSUME NEW r \in Runs, CancelRun(r) PROVE DispatchInv'
  <2>2. ServerMoves
    BY <1>26 DEF CancelRun, ServerMoves, TypeOK, RunRecord, Cancellable
  <2>3. NoNewReports
    BY <1>26, <1>o DEF CancelRun, NoNewReports
  <2>4. KeepsSpawned
    BY <1>26 DEF CancelRun, KeepsSpawned
  <2> QED BY <1>26, <2>2, <2>3, <2>4, ServerStep DEF CancelRun
<1>27. ASSUME RevokePermissionGrant PROVE DispatchInv'
  <2>2. ServerMoves
    BY ZenonT(60), <1>27 DEF RevokePermissionGrant, ServerMoves, TypeOK, RunRecord
  <2>3. NoNewReports
    BY <1>27, <1>o DEF RevokePermissionGrant, NoNewReports
  <2>4. KeepsSpawned
    BY <1>27 DEF RevokePermissionGrant, KeepsSpawned
  <2> QED BY <1>27, <2>2, <2>3, <2>4, ServerStep DEF RevokePermissionGrant
<1>28. ASSUME NEW S \in SUBSET Runs, LateClaimExecutes(S) PROVE DispatchInv'
  <2>1. /\ S \subseteq QueuedRuns /\ run' = AfterClaim(S)
    BY <1>28 DEF LateClaimExecutes, ClaimSets
  <2>2. ServerMoves
    BY ZenonT(60), <2>1 DEF ServerMoves, AfterClaim, QueuedRuns, TypeOK, RunRecord
  <2>3. NoNewReports
    BY <1>28, <1>o DEF LateClaimExecutes, NoNewReports
  <2>4. KeepsSpawned
    BY <1>28 DEF LateClaimExecutes, KeepsSpawned
  <2> QED BY <1>28, <2>2, <2>3, <2>4, ServerStep DEF LateClaimExecutes
<1>29. ASSUME NEW S \in SUBSET Runs, ClaimRuns(S) PROVE DispatchInv'
  <2>1. /\ S \subseteq QueuedRuns /\ run' = AfterClaim(S)
    BY <1>29 DEF ClaimRuns, ClaimSets
  <2>2. ServerMoves
    BY ZenonT(60), <2>1 DEF ServerMoves, AfterClaim, QueuedRuns, TypeOK, RunRecord
  <2>3. NoNewReports
    BY <1>29, <1>o DEF ClaimRuns, NoNewReports
  <2>4. KeepsSpawned
    BY <1>29 DEF ClaimRuns, KeepsSpawned
  <2>5. ThreadInv'
    <3>1. \A q \in S : remote[q].state = "unknown"
      BY <2>1 DEF QueuedRuns, DispatchInv, UnclaimedInv
    <3>2. grant = "active" => \A q \in S : run'[q].status = "dispatched"
      BY <2>1 DEF AfterClaim, TypeOK, RunRecord
    <3>3. pc' = "record" /\ remote' = remote /\ batch' = IF grant = "active" THEN S ELSE {}
      BY <1>29 DEF ClaimRuns
    <3> QED BY <3>1, <3>2, <3>3 DEF ThreadInv
  <2> QED BY <1>29, <2>2, <2>3, <2>4, <2>5, ServerStep DEF ClaimRuns
<1>30. ASSUME NEW p \in lateReports, LateReportExecutes(p) PROVE DispatchInv'
  <2>1. p \in OutboxReports \cup lateReports /\ p.run \in Runs
    BY OutboxReportsType DEF OutboxReports, TypeOK, Report
  <2>2. ServerMoves
    BY <1>30, <2>1, AfterReportFacts DEF LateReportExecutes, ServerMoves, TypeOK
  <2>3. NoNewReports
    BY <1>30, <1>o DEF LateReportExecutes, NoNewReports
  <2>4. KeepsSpawned
    BY <1>30 DEF LateReportExecutes, KeepsSpawned
  <2> QED BY <1>30, <2>2, <2>3, <2>4, ServerStep DEF LateReportExecutes
<1>31. ASSUME NEW i \in 1..Len(outbox), ReportAccepted(i) PROVE DispatchInv'
  <2>1. ReportOf(outbox[i]) \in OutboxReports \cup lateReports /\ ReportOf(outbox[i]).run \in Runs
    BY OutboxReportsType DEF OutboxReports, TypeOK, Report
  <2>2. ServerMoves
    BY <1>31, <2>1, OutboxReportsType, AfterReportFacts DEF ReportAccepted, ServerMoves
  <2>3. NoNewReports
    BY <1>31, RemovedReports DEF ReportAccepted, NoNewReports
  <2>4. KeepsSpawned
    BY <1>31 DEF ReportAccepted, KeepsSpawned
  <2> QED BY <1>31, <2>2, <2>3, <2>4, ServerStep DEF ReportAccepted
<1>32. ASSUME EnqueueCancelled PROVE DispatchInv'
  <2>1. TasksAdvance
    BY <1>32, <1>t, TasksAdvanceFacts DEF EnqueueCancelled
  <2>2. /\ cur \in Runs /\ remote[cur].state \notin {"unknown", "terminal"}
        /\ \A t \in Tasks : task[t].run = cur => ~task[t].lease
    BY <1>32, <1>t DEF EnqueueCancelled, ThreadInv, TypeOK
  <2>5. EnqueueReport(cur, "cancelled", "none")
    BY <1>32 DEF EnqueueCancelled
  <2>6. ThreadInv'
    BY <1>32 DEF EnqueueCancelled, ThreadInv
  <2> QED BY <1>32, <2>1, <2>2, <2>5, <2>6, EnqueueStep
       DEF EnqueueCancelled, ReportStatus, Terminal, ErrorCode
<1>33. ASSUME NEW r \in Runs, EnqueueCompleted(r) PROVE DispatchInv'
  <2>1. TasksAdvance
    BY <1>33, <1>t, TasksAdvanceFacts DEF EnqueueCompleted
  <2>2. /\ remote[r].state = "running" /\ remote[r].task \in Tasks
        /\ task[remote[r].task].status \in Finished
        /\ \A t \in Tasks : task[t].run = r => ~task[t].lease
    BY <1>33, <1>t DEF EnqueueCompleted, ThreadInv, TaskInv, LeaseInv, Finished
  <2>3. /\ CompletionReport(r).status \in Terminal /\ CompletionReport(r).code \in ErrorCode
        /\ CompletionReport(r).status = "succeeded" => BoundStatus(r) = "succeeded"
        /\ CompletionReport(r).code = "runner_failed" => BoundStatus(r) = "failed"
        /\ CompletionReport(r).code = "task_stopped" => BoundStatus(r) = "stopped"
    BY <2>2 DEF CompletionReport, NewReport, Terminal, ErrorCode, BoundStatus, Finished
  <2>5. EnqueueReport(r, CompletionReport(r).status, CompletionReport(r).code)
    BY <1>33 DEF EnqueueCompleted
  <2>6. ThreadInv'
    BY <1>33, <1>t, <2>5 DEF EnqueueCompleted, EnqueueReport, ThreadInv, TypeOK
  <2> QED BY <1>33, <2>1, <2>2, <2>3, <2>5, <2>6, EnqueueStep
       DEF EnqueueCompleted, ReportStatus, Terminal, ErrorCode
<1>34. ASSUME NEW r \in Runs, ApplicationUnavailable(r) PROVE DispatchInv'
  <2>1. TasksAdvance
    BY <1>34, <1>t, TasksAdvanceFacts DEF ApplicationUnavailable
  <2>2. /\ remote[r].state = "claimed"
        /\ \A t \in Tasks : task[t].run = r => ~task[t].lease
    BY <1>34, <1>t DEF ApplicationUnavailable, ThreadInv, LeaseInv
  <2>5. EnqueueReport(r, "failed", "application_unavailable")
    BY <1>34 DEF ApplicationUnavailable
  <2>6. ThreadInv'
    BY <1>34, <1>t, <2>5 DEF ApplicationUnavailable, EnqueueReport, ThreadInv, TypeOK
  <2> QED BY <1>34, <2>1, <2>2, <2>5, <2>6, EnqueueStep
       DEF ApplicationUnavailable, ReportStatus, Terminal, ErrorCode
<1>35. ASSUME NEW r \in Runs, LaunchFails(r) PROVE DispatchInv'
  <2>1. TasksAdvance
    BY <1>35, <1>t, TasksAdvanceFacts DEF LaunchFails
  <2>2. /\ remote[r].state = "claimed"
        /\ \A t \in Tasks : task[t].run = r => ~task[t].lease
    BY <1>35, <1>t DEF LaunchFails, ThreadInv, LeaseInv
  <2>5. EnqueueReport(r, "failed", "agent_run_failed")
    BY <1>35 DEF LaunchFails
  <2>6. ThreadInv'
    BY <1>35, <1>t, <2>5 DEF LaunchFails, EnqueueReport, ThreadInv, TypeOK
  <2> QED BY <1>35, <2>1, <2>2, <2>5, <2>6, EnqueueStep
       DEF LaunchFails, ReportStatus, Terminal, ErrorCode
<1>36. ASSUME NEW r \in Runs, AskForApproval(r) PROVE DispatchInv'
  <2>1. TasksAdvance
    BY <1>36, <1>t, TasksAdvanceFacts DEF AskForApproval
  <2>2. /\ remote[r].state = "claimed"
        /\ \A t \in Tasks : task[t].run = r => ~task[t].lease
    BY <1>36, <1>t DEF AskForApproval, ThreadInv, LeaseInv
  <2>3. PICK c \in {"elevation_required", "foreground_required"} :
          EnqueueReport(r, "needs_user_approval", c)
    BY <1>36 DEF AskForApproval
  <2>4. ThreadInv'
    BY <1>36, <1>t, <2>3 DEF AskForApproval, EnqueueReport, ThreadInv, TypeOK
  <2> QED BY <1>36, <2>1, <2>2, <2>3, <2>4, EnqueueStep DEF AskForApproval, ReportStatus, ErrorCode
<1>37. ASSUME NEW r \in Runs, NEW t \in Tasks, Launch(r, t) PROVE DispatchInv'
  <2> DEFINE new == [run |-> r, status |-> "running", child |-> TRUE, exit |-> "none", lease |-> TRUE]
  <2>1. /\ task'[t] = new
        /\ \A s \in Tasks \ {t} : task'[s] = Refreshed(task[s])
    BY <1>37 DEF Launch, RefreshedTasks
  <2>2. \A s \in Tasks \ {t} : Advances(task[s], task'[s])
    <3>1. \A s \in Tasks : Advances(task[s], Refreshed(task[s]))
      BY <1>t, AdvancesFacts DEF TypeOK, TaskInv
    <3> QED BY <2>1, <3>1
  <2>3. \A s \in Tasks : task[s].status # "unused" => s # t
    BY <1>37 DEF Launch
  <2>4. /\ remote' = remote /\ run' = run /\ lateReports' = lateReports /\ batch' = batch
        /\ OutboxReports' = OutboxReports
        /\ pc = "pending" /\ pc' = "bind" /\ cur' = r /\ curTask' = t
        /\ r \in batch /\ remote[r].state = "claimed"
    BY <1>37, <1>o, <1>t DEF Launch, ThreadInv
  <2>5. \A q \in Runs, f \in Finished : BoundStatus(q) = f => BoundStatus(q)' = f
    BY <1>t, <2>2, <2>3, <2>4 DEF BoundStatus, TaskInv, Advances, Finished
  <2>6. TaskInv'
    BY <1>t, <2>1, <2>2, <2>3, <2>4 DEF TaskInv, Advances
  <2>7. LeaseInv'
    BY <1>t, <2>1, <2>2, <2>4 DEF LeaseInv, Advances
  <2>8. ThreadInv'
    BY <1>t, <2>1, <2>4 DEF ThreadInv
  <2>9. \A p \in OutboxReports \cup lateReports : p.run \in Runs
    BY OutboxReportsType DEF OutboxReports, TypeOK, Report
  <2>10. ReportInv'
    BY <1>t, <2>4, <2>5, <2>9 DEF ReportInv, ReportSound, Finished
  <2>11. UnclaimedInv' /\ ServerNeverAheadOfAgent' /\ VerdictMatchesExecution'
    BY <2>4, <2>5 DEF DispatchInv, UnclaimedInv, ServerNeverAheadOfAgent, VerdictMatchesExecution,
                      Finished
  <2> QED BY <2>6, <2>7, <2>8, <2>10, <2>11 DEF DispatchInv
<1>38. ASSUME BindRemoteTask PROVE DispatchInv'
  <2>1. /\ cur \in Runs /\ curTask \in Tasks /\ remote[cur].state = "claimed"
        /\ task[curTask].run = cur /\ task[curTask].status # "unused"
    BY <1>38, <1>t DEF BindRemoteTask, ThreadInv, TypeOK
  <2>2. /\ remote'[cur].state = "running" /\ remote'[cur].task = curTask
        /\ \A q \in Runs \ {cur} : remote'[q] = remote[q]
        /\ task' = task /\ run' = run /\ lateReports' = lateReports
        /\ pc = "bind" /\ pc' = "pending" /\ batch' = batch \ {cur}
    BY <1>38, <2>1 DEF BindRemoteTask, TypeOK, RemoteRecord
  <2>3. OutboxReports' \subseteq OutboxReports \cup {NewReport(cur, "running", "none")}
    BY <1>38, <2>1, EnqueuedReports DEF BindRemoteTask, ReportStatus, ErrorCode
  <2>4. BoundStatus(cur) = "unused" /\ \A q \in Runs \ {cur} : BoundStatus(q)' = BoundStatus(q)
    BY <1>t, <2>1, <2>2, NullAssumption DEF BoundStatus, TaskInv
  <2>5. TaskInv'
    BY <1>t, <2>1, <2>2 DEF TaskInv
  <2>6. LeaseInv'
    BY <1>t, <2>1, <2>2 DEF LeaseInv, TaskInv
  <2>7. ThreadInv'
    BY <1>t, <2>2 DEF ThreadInv, TypeOK
  <2>8. \A p \in OutboxReports \cup lateReports : ReportSound(p) /\ p \in Report
    BY <1>t, OutboxReportsType DEF OutboxReports, TypeOK, ReportInv
  <2>9. \A p \in OutboxReports \cup lateReports : ReportSound(p)'
    BY <2>1, <2>2, <2>4, <2>8 DEF ReportSound, Report, ReportStatus, Terminal
  <2>10. \A p \in {NewReport(cur, "running", "none")} : ReportSound(p)'
    BY <2>2 DEF ReportSound, NewReport, Terminal
  <2>11. ReportInv'
    BY <2>2, <2>3, <2>9, <2>10 DEF ReportInv
  <2>12. UnclaimedInv' /\ ServerNeverAheadOfAgent'
    BY <2>1, <2>2 DEF DispatchInv, UnclaimedInv, ServerNeverAheadOfAgent
  <2>13. VerdictMatchesExecution'
    BY <2>1, <2>2, <2>4 DEF DispatchInv, VerdictMatchesExecution
  <2> QED BY <2>5, <2>6, <2>7, <2>11, <2>12, <2>13 DEF DispatchInv
<1>39. ASSUME NEW r \in Runs, RecordRemoteClaim(r) PROVE DispatchInv'
  <2>1. /\ run[r].status = "dispatched" /\ remote[r].state = "unknown"
        /\ pc = "record" /\ pc' = pc /\ batch' = batch \ {r}
        /\ task' = task /\ run' = run /\ lateReports' = lateReports
        /\ OutboxReports' = OutboxReports
    BY <1>39, <1>o, <1>t DEF RecordRemoteClaim, ThreadInv
  <2>2. /\ remote'[r].state \in {"unknown", "claimed"}
        /\ \A q \in Runs : remote'[q].task = remote[q].task
        /\ \A q \in Runs \ {r} : remote'[q] = remote[q]
    BY <1>39, <2>1 DEF RecordRemoteClaim, TypeOK, RemoteRecord
  <2>3. \A q \in Runs : BoundStatus(q)' = BoundStatus(q)
    BY <2>1, <2>2 DEF BoundStatus
  <2>4. TaskInv' /\ LeaseInv' /\ ThreadInv'
    BY <1>t, <2>1, <2>2 DEF TaskInv, LeaseInv, ThreadInv, TypeOK
  <2>5. \A p \in OutboxReports \cup lateReports : ReportSound(p) /\ p \in Report
    BY <1>t, OutboxReportsType DEF OutboxReports, TypeOK, ReportInv
  <2>6. ReportInv'
    BY <2>1, <2>2, <2>3, <2>5 DEF ReportInv, ReportSound, Report, ReportStatus, Terminal
  <2>7. UnclaimedInv' /\ ServerNeverAheadOfAgent' /\ VerdictMatchesExecution'
    BY <2>1, <2>2, <2>3 DEF DispatchInv, UnclaimedInv, ServerNeverAheadOfAgent,
                            VerdictMatchesExecution, Terminal
  <2> QED BY <2>4, <2>6, <2>7 DEF DispatchInv
<1>40. CASE UNCHANGED vars
  <2>1. TasksAdvance /\ KeepsBindings /\ NoNewReports /\ KeepsSpawned
    BY <1>40, <1>t, <1>o, TasksAdvanceFacts DEF vars, KeepsBindings, NoNewReports, KeepsSpawned
  <2> QED BY <1>40, <1>t, <2>1, ThreadKept, QuietStep DEF vars
<1>41. CASE UserStep
  BY <1>41, <1>25, <1>26, <1>10, <1>27, <1>1, <1>2, <1>3, <1>9, <1>7, <1>4, <1>5, <1>11 DEF UserStep
<1>42. CASE ThreadStep
  BY <1>42, <1>12, <1>13, <1>14, <1>15, <1>16, <1>17, <1>18, <1>19, <1>20, <1>21, <1>22, <1>23,
     <1>24, <1>29, <1>31, <1>32, <1>33, <1>34, <1>35, <1>36, <1>37, <1>38, <1>39 DEF ThreadStep
<1>43. CASE LateStep
  BY <1>43, <1>30, <1>28, <1>6 DEF LateStep
<1> QED BY <1>8, <1>40, <1>41, <1>42, <1>43 DEF Next

\* The invariant behind the safety of dispatch holds in every reachable state.
THEOREM DispatchSafety == Spec => []DispatchInv
<1>1. Init => DispatchInv
  BY InitDispatch
<1>2. TypeOK /\ TypeOK' /\ DispatchInv /\ [Next]_vars => DispatchInv'
  BY NextDispatch
<1> QED BY <1>1, <1>2, TypeCorrect, PTL DEF Spec

\* A settled run holds no lease and no run has two leased tasks, because a lease is
\* held only for a run the Agent still shows as claimed or running.
LEMMA DispatchConsequences ==
  ASSUME TypeOK, DispatchInv
  PROVE  SettledRunHoldsNoLease /\ OneLeasedTaskPerRun
<1>1. ASSUME NEW t \in Tasks, task[t].lease, NEW r \in Runs, task[t].run = r
      PROVE  \/ remote[r].state = "running" /\ remote[r].task = t
             \/ remote[r].state = "claimed" /\ pc = "bind" /\ curTask = t
  BY <1>1 DEF DispatchInv, LeaseInv
<1>2. SettledRunHoldsNoLease
  BY <1>1 DEF DispatchInv, ServerNeverAheadOfAgent, SettledRunHoldsNoLease, LeasedTasks, TasksOf,
              Terminal
<1>3. OneLeasedTaskPerRun
  BY <1>1 DEF OneLeasedTaskPerRun, LeasedTasks, TasksOf
<1> QED BY <1>2, <1>3

\* The control plane's verdict on a run is what its bound task did (completed_remote_runs,
\* the outbox, reportRun), however many crashes and lost or late requests came between.
THEOREM VerdictTheorem == Spec => []VerdictMatchesExecution
<1>1. DispatchInv => VerdictMatchesExecution
  BY DEF DispatchInv
<1> QED BY <1>1, DispatchSafety, PTL

\* No task acts for a run that the control plane shows as settled (apply_run_controls
\* stops before it reports; completed_remote_runs refreshes before it reports).
THEOREM SettledTheorem == Spec => []SettledRunHoldsNoLease
<1>1. TypeOK /\ DispatchInv => SettledRunHoldsNoLease
  BY DispatchConsequences
<1> QED BY <1>1, TypeCorrect, DispatchSafety, PTL

\* At most one task of a run has authority, re-execution after a crash included
\* (fail_interrupted_tasks, bind_remote_task_and_enqueue_running).
THEOREM OneLeaseTheorem == Spec => []OneLeasedTaskPerRun
<1>1. TypeOK /\ DispatchInv => OneLeasedTaskPerRun
  BY DispatchConsequences
<1> QED BY <1>1, TypeCorrect, DispatchSafety, PTL

\* No report overtakes the SQLite transaction that enqueued it (enqueue_run_report).
THEOREM NeverAheadTheorem == Spec => []ServerNeverAheadOfAgent
<1>1. DispatchInv => ServerNeverAheadOfAgent
  BY DEF DispatchInv
<1> QED BY <1>1, DispatchSafety, PTL

\* One task of a run at most has authority, and none once the run is settled.
THEOREM AuthorityTheorem == Spec => []AuthorityFollowsTheRun
BY OneLeaseTheorem, SettledTheorem, PTL DEF AuthorityFollowsTheRun

----------------------------------------------------------------------------
(***************************************************************************)
(* How often a run is executed.  Tasks are never taken from a run, and a   *)
(* run is launched only before a task is bound to it: the task that was    *)
(* launched and not bound was lost to a crash.                             *)
(***************************************************************************)

\* The run has its task, or is about to get it.
HasItsTask(r) == remote[r].task # NoTask \/ (pc = "bind" /\ cur = r)

\* Every other task of a run was lost to a crash.
LostTasks == 
  \A r \in Runs :
    /\ IsFiniteSet(TasksOf(r))
    /\ Cardinality(TasksOf(r)) <= IF HasItsTask(r) THEN 1 + crashes ELSE crashes

\* Nothing is launched or bound, and the thread stays between the two if it is there.
LaunchesNothing ==
  /\ \A t \in Tasks : task'[t].run = task[t].run
  /\ \A r \in Runs : remote'[r].task = remote[r].task
  /\ pc = "bind" => pc' = "bind" /\ cur' = cur
  /\ crashes' = crashes

\* Refreshing, stopping and restarting leave a task with its run.
LEMMA RunsKeepTheirTasks ==
  ASSUME TypeOK, NEW t \in Tasks
  PROVE  /\ Refreshed(task[t]).run = task[t].run
         /\ StoppedTask(task[t]).run = task[t].run
         /\ RecoveredTask(task[t]).run = task[t].run
<1>1. task[t] \in TaskRecord
  BY DEF TypeOK
<1> QED BY <1>1 DEF TaskRecord, Refreshed, StoppedTask, RecoveredTask

\* Recording a report leaves the bindings alone (enqueue_run_report).
LEMMA ReportsKeepBindings ==
  ASSUME TypeOK, NEW r \in Runs, NEW s, NEW c, EnqueueReport(r, s, c)
  PROVE  \A q \in Runs : remote'[q].task = remote[q].task
<1>1. remote \in [Runs -> RemoteRecord]
  BY DEF TypeOK
<1> QED BY <1>1 DEF EnqueueReport, RemoteRecord

\* Every step but a crash, a launch and a binding is such a step.
LEMMA OtherStepsLaunchNothing ==
  ASSUME TypeOK, [Next]_vars,
         ~CrashAndRestart, \A r \in Runs, t \in Tasks : ~Launch(r, t), ~BindRemoteTask
  PROVE  LaunchesNothing
<1> USE DEF serverVars, threadVars, netVars
<1>r. \A t \in Tasks : RefreshedTasks[t].run = task[t].run
  BY RunsKeepTheirTasks DEF RefreshedTasks
<1>t. remote \in [Runs -> RemoteRecord] /\ task \in [Tasks -> TaskRecord]
  BY DEF TypeOK
<1>1. ASSUME ApprovePermissionGrant PROVE LaunchesNothing
  BY <1>1, <1>r, <1>t DEF ApprovePermissionGrant, LaunchesNothing
<1>2. ASSUME GrantExpires PROVE LaunchesNothing
  BY <1>2, <1>r, <1>t DEF GrantExpires, LaunchesNothing
<1>3. ASSUME RevokeDevice PROVE LaunchesNothing
  BY <1>3, <1>r, <1>t DEF RevokeDevice, LaunchesNothing
<1>4. ASSUME RevokePermissionGrant PROVE LaunchesNothing
  BY <1>4, <1>r, <1>t DEF RevokePermissionGrant, LaunchesNothing
<1>5. ASSUME Uninstall PROVE LaunchesNothing
  BY <1>5, <1>r, <1>t DEF Uninstall, LaunchesNothing
<1>6. ASSUME Reinstall PROVE LaunchesNothing
  BY <1>6, <1>r, <1>t DEF Reinstall, LaunchesNothing
<1>7. ASSUME LateRequestsLost PROVE LaunchesNothing
  BY <1>7, <1>r, <1>t DEF LateRequestsLost, LaunchesNothing
<1>8. ASSUME Snapshot PROVE LaunchesNothing
  BY <1>8, <1>r, <1>t DEF Snapshot, LaunchesNothing
<1>9. ASSUME Unauthorized PROVE LaunchesNothing
  BY <1>9, <1>r, <1>t DEF Unauthorized, LaunchesNothing
<1>10. ASSUME BeginCycle PROVE LaunchesNothing
  BY <1>10, <1>r, <1>t DEF BeginCycle, LaunchesNothing
<1>11. ASSUME FetchRunControls PROVE LaunchesNothing
  BY <1>11, <1>r, <1>t DEF FetchRunControls, LaunchesNothing
<1>12. ASSUME RunControlsTimeOut PROVE LaunchesNothing
  BY <1>12, <1>r, <1>t DEF RunControlsTimeOut, LaunchesNothing
<1>13. ASSUME EnqueueCancelled PROVE LaunchesNothing
  BY <1>13, <1>r, <1>t, ReportsKeepBindings DEF EnqueueCancelled, LaunchesNothing, TypeOK
<1>14. ASSUME CollectCompletions PROVE LaunchesNothing
  BY <1>14, <1>r, <1>t DEF CollectCompletions, LaunchesNothing
<1>15. ASSUME CollectPending PROVE LaunchesNothing
  BY <1>15, <1>r, <1>t DEF CollectPending, LaunchesNothing
<1>16. ASSUME BeginFlush PROVE LaunchesNothing
  BY <1>16, <1>r, <1>t DEF BeginFlush, LaunchesNothing
<1>17. ASSUME FlushDone PROVE LaunchesNothing
  BY <1>17, <1>r, <1>t DEF FlushDone, LaunchesNothing, EndCycle
<1>18. ASSUME ClaimTimesOut PROVE LaunchesNothing
  BY <1>18, <1>r, <1>t DEF ClaimTimesOut, LaunchesNothing
<1>19. ASSUME NEW r \in Runs, CreateManualRun(r) PROVE LaunchesNothing
  BY <1>19, <1>r, <1>t DEF CreateManualRun, LaunchesNothing
<1>20. ASSUME NEW r \in Runs, CancelRun(r) PROVE LaunchesNothing
  BY <1>20, <1>r, <1>t DEF CancelRun, LaunchesNothing
<1>21. ASSUME NEW r \in Runs, LeaseExpires(r) PROVE LaunchesNothing
  BY <1>21, <1>r, <1>t DEF LeaseExpires, LaunchesNothing, RemoteRecord
<1>22. ASSUME NEW r \in Runs, IgnoreControl(r) PROVE LaunchesNothing
  BY <1>22, <1>r, <1>t DEF IgnoreControl, LaunchesNothing
<1>23. ASSUME NEW r \in Runs, StopForControl(r) PROVE LaunchesNothing
  BY <1>23, <1>r, <1>t, RunsKeepTheirTasks DEF StopForControl, LaunchesNothing
<1>24. ASSUME NEW r \in Runs, EnqueueCompleted(r) PROVE LaunchesNothing
  BY <1>24, <1>r, <1>t, ReportsKeepBindings DEF EnqueueCompleted, LaunchesNothing
<1>25. ASSUME NEW r \in Runs, AskForApproval(r) PROVE LaunchesNothing
  BY <1>25, <1>r, <1>t, ReportsKeepBindings DEF AskForApproval, LaunchesNothing
<1>26. ASSUME NEW r \in Runs, ApplicationUnavailable(r) PROVE LaunchesNothing
  BY <1>26, <1>r, <1>t, ReportsKeepBindings DEF ApplicationUnavailable, LaunchesNothing
<1>27. ASSUME NEW r \in Runs, LaunchFails(r) PROVE LaunchesNothing
  BY <1>27, <1>r, <1>t, ReportsKeepBindings DEF LaunchFails, LaunchesNothing
<1>28. ASSUME NEW r \in Runs, RecordRemoteClaim(r) PROVE LaunchesNothing
  BY <1>28, <1>r, <1>t DEF RecordRemoteClaim, LaunchesNothing, RemoteRecord
<1>29. ASSUME NEW i \in 1..Len(outbox), ReportAccepted(i) PROVE LaunchesNothing
  BY <1>29, <1>r, <1>t DEF ReportAccepted, LaunchesNothing
<1>30. ASSUME NEW i \in 1..Len(outbox), ReportRejected(i) PROVE LaunchesNothing
  BY <1>30, <1>r, <1>t DEF ReportRejected, LaunchesNothing, EndCycle
<1>31. ASSUME NEW i \in 1..Len(outbox), ReportTimesOut(i) PROVE LaunchesNothing
  BY <1>31, <1>r, <1>t DEF ReportTimesOut, LaunchesNothing, EndCycle
<1>32. ASSUME NEW S \in SUBSET Runs, ClaimRuns(S) PROVE LaunchesNothing
  BY <1>32, <1>r, <1>t DEF ClaimRuns, LaunchesNothing
<1>33. ASSUME NEW S \in SUBSET Runs, LateClaimExecutes(S) PROVE LaunchesNothing
  BY <1>33, <1>r, <1>t DEF LateClaimExecutes, LaunchesNothing
<1>34. ASSUME NEW t \in Tasks, UserStop(t) PROVE LaunchesNothing
  BY <1>34, <1>r, <1>t, RunsKeepTheirTasks DEF UserStop, LaunchesNothing
<1>35. ASSUME NEW t \in Tasks, NEW e \in {"ok", "error"}, RunnerExits(t, e) PROVE LaunchesNothing
  BY <1>35, <1>r, <1>t DEF RunnerExits, LaunchesNothing, TaskRecord
<1>36. ASSUME NEW p \in lateReports, LateReportExecutes(p) PROVE LaunchesNothing
  BY <1>36, <1>r, <1>t DEF LateReportExecutes, LaunchesNothing
<1>37. ASSUME UNCHANGED vars PROVE LaunchesNothing
  BY <1>37 DEF vars, LaunchesNothing
<1>us. CASE UserStep
  BY <1>us, <1>19, <1>20, <1>21, <1>4, <1>1, <1>2, <1>3, <1>34, <1>8, <1>5, <1>6 DEF UserStep
<1>ts. CASE ThreadStep
  BY <1>ts, <1>9, <1>10, <1>11, <1>12, <1>22, <1>23, <1>13, <1>14, <1>24, <1>15, <1>25, <1>26, <1>27, <1>16, <1>29, <1>30, <1>31, <1>17, <1>32, <1>18, <1>28 DEF ThreadStep
<1>ls. CASE LateStep
  BY <1>ls, <1>36, <1>33, <1>7 DEF LateStep
<1> QED BY <1>us, <1>ts, <1>ls, <1>37, <1>35 DEF Next

\* A launched run gets one task more; it had none, or only lost ones.
LEMMA LostTasksKept ==
  TypeOK /\ DispatchInv /\ LostTasks /\ [Next]_vars => LostTasks'
<1> SUFFICES ASSUME TypeOK, DispatchInv, LostTasks, [Next]_vars, NEW r \in Runs
             PROVE  /\ IsFiniteSet(TasksOf(r)')
                    /\ Cardinality(TasksOf(r)') <= IF HasItsTask(r)' THEN 1 + crashes' ELSE crashes'
  BY DEF LostTasks
<1>t. task \in [Tasks -> TaskRecord] /\ remote \in [Runs -> RemoteRecord] /\ crashes \in Nat
  BY BoundAssumption DEF TypeOK
<1>c. /\ IsFiniteSet(TasksOf(r)) /\ Cardinality(TasksOf(r)) \in Nat
      /\ Cardinality(TasksOf(r)) <= IF HasItsTask(r) THEN 1 + crashes ELSE crashes
  BY FS_CardinalityType DEF LostTasks
<1>1. CASE LaunchesNothing
  <2>1. TasksOf(r)' = TasksOf(r)
    BY <1>1 DEF LaunchesNothing, TasksOf
  <2>2. HasItsTask(r) => HasItsTask(r)'
    BY <1>1 DEF LaunchesNothing, HasItsTask
  <2> QED BY <1>1, <1>c, <1>t, <2>1, <2>2 DEF LaunchesNothing
<1>2. CASE CrashAndRestart
  <2>1. TasksOf(r)' = TasksOf(r)
    BY <1>2, RunsKeepTheirTasks DEF CrashAndRestart, TasksOf
  <2> QED BY <1>2, <1>c, <1>t, <2>1 DEF CrashAndRestart
<1>3. ASSUME NEW q \in Runs, NEW t \in Tasks, Launch(q, t)
      PROVE  /\ IsFiniteSet(TasksOf(r)')
             /\ Cardinality(TasksOf(r)') <= IF HasItsTask(r)' THEN 1 + crashes' ELSE crashes'
  <2>1. \A u \in Tasks : task'[u].run = IF u = t THEN q ELSE task[u].run
    BY <1>3, <1>t, RunsKeepTheirTasks DEF Launch, RefreshedTasks
  <2>2. remote' = remote /\ crashes' = crashes /\ pc = "pending" /\ pc' = "bind" /\ cur' = q
    BY <1>3 DEF Launch
  <2>3. CASE r = q
    <3>1. \A u : u \in TasksOf(r)' <=> u \in TasksOf(r) \cup {t}
      BY <2>1, <2>3 DEF TasksOf
    <3>2. TasksOf(r)' = TasksOf(r) \cup {t}
      BY <3>1
    <3>3. ~HasItsTask(r)
      BY <1>3, <2>2, <2>3 DEF HasItsTask, Launch, DispatchInv, ThreadInv, TaskInv
    <3>4. HasItsTask(r)'
      BY <2>2, <2>3 DEF HasItsTask
    <3>5. /\ IsFiniteSet(TasksOf(r) \cup {t})
          /\ Cardinality(TasksOf(r) \cup {t}) <= 1 + Cardinality(TasksOf(r))
      <4>1. ASSUME NEW A, IsFiniteSet(A), Cardinality(A) \in Nat
            PROVE  IsFiniteSet(A \cup {t}) /\ Cardinality(A \cup {t}) <= 1 + Cardinality(A)
        <5>1. /\ IsFiniteSet(A \cup {t})
              /\ Cardinality(A \cup {t}) = IF t \in A THEN Cardinality(A) ELSE Cardinality(A) + 1
          BY <4>1, FS_AddElement, Zenon
        <5> HIDE DEF TasksOf
        <5> QED BY <4>1, <5>1
      <4> QED BY <1>c, <4>1
    <3>6. Cardinality(TasksOf(r) \cup {t}) \in Nat
      BY <3>5, FS_CardinalityType
    <3> QED BY <1>c, <1>t, <2>2, <3>2, <3>3, <3>4, <3>5, <3>6
  <2>4. CASE r # q
    <3>1. \A u \in TasksOf(r)' : u \in TasksOf(r)
      BY <2>1, <2>4 DEF TasksOf
    <3>2. TasksOf(r)' \in SUBSET TasksOf(r)
      BY <3>1
    <3>3. IsFiniteSet(TasksOf(r)') /\ Cardinality(TasksOf(r)') <= Cardinality(TasksOf(r))
      BY <1>c, <3>2, FS_Subset
    <3>4. HasItsTask(r)' <=> HasItsTask(r)
      BY <2>2, <2>4 DEF HasItsTask
    <3>5. Cardinality(TasksOf(r)') \in Nat
      BY <3>3, FS_CardinalityType
    <3> QED BY <1>c, <1>t, <2>2, <3>3, <3>4, <3>5
  <2> QED BY <2>3, <2>4
<1>4. CASE BindRemoteTask
  <2>1. TasksOf(r)' = TasksOf(r)
    BY <1>4 DEF BindRemoteTask, TasksOf
  <2>2. HasItsTask(r) => HasItsTask(r)'
    BY <1>4, <1>t, NullAssumption DEF BindRemoteTask, HasItsTask, TypeOK, RemoteRecord
  <2>3. crashes' = crashes
    BY <1>4 DEF BindRemoteTask
  <2> QED BY <1>c, <1>t, <2>1, <2>2, <2>3
<1> QED BY <1>1, <1>2, <1>3, <1>4, OtherStepsLaunchNothing

\* A run is executed again only after a crash between the spawn of its Runner and the
\* transaction that binds the task (run_server_authorized, bind_remote_task_and_enqueue_running).
THEOREM ReexecutionTheorem == Spec => []ReexecutionNeedsCrash
<1>1. Init => LostTasks
  <2> SUFFICES ASSUME Init, NEW r \in Runs
               PROVE  /\ IsFiniteSet(TasksOf(r))
                      /\ Cardinality(TasksOf(r)) <= IF HasItsTask(r) THEN 1 + crashes ELSE crashes
    BY DEF LostTasks
  <2>1. TasksOf(r) = {}
    BY NullAssumption DEF Init, TasksOf
  <2>2. ~HasItsTask(r) /\ crashes = 0
    BY DEF Init, HasItsTask
  <2> QED BY <2>1, <2>2, FS_EmptySet
<1>2. TypeOK /\ DispatchInv /\ LostTasks /\ [Next]_vars => LostTasks'
  BY LostTasksKept
<1>3. TypeOK /\ LostTasks => ReexecutionNeedsCrash
  <2> SUFFICES ASSUME TypeOK, LostTasks, NEW r \in Runs
               PROVE  Cardinality(TasksOf(r)) <= 1 + crashes
    BY DEF ReexecutionNeedsCrash
  <2>1. Cardinality(TasksOf(r)) \in Nat /\ crashes \in Nat
    BY FS_CardinalityType, BoundAssumption DEF LostTasks, TypeOK
  <2> QED BY <2>1 DEF LostTasks
<1> QED BY <1>1, <1>2, <1>3, TypeCorrect, DispatchSafety, PTL DEF Spec
----------------------------------------------------------------------------
(***************************************************************************)
(* RunDispatch implements RunLifecycle.  Each step of RunDispatch is of    *)
(* one of a few kinds; the lemmas show what a kind does to HandoverInv and *)
(* which step of RunLifecycle it is.                                       *)
(***************************************************************************)
InFlight == OutboxReports \cup lateReports

\* The tasks proceed and nothing else that RunLifecycle could see happens.
Quiet == TasksAdvance /\ KeepsBindings /\ NoNewReports /\ run' = run

\* A run is handed over or ended by a new report.
Enqueues(r, s, c) ==
  /\ TasksAdvance
  /\ EnqueueReport(r, s, c) /\ run' = run /\ lateReports' = lateReports
  /\ \/ s = "cancelled" /\ remote[r].state # "unknown"
     \/ s = "needs_user_approval" /\ remote[r].state = "claimed"
     \/ s \in {"succeeded", "failed"} /\ remote[r].state \in {"claimed", "running"}
  /\ s = "failed" => BoundStatus(r) \in {"unused", "failed", "stopped"}

\* The control plane executes a report in flight.
Reports(p) ==
  /\ p \in InFlight /\ run' = AfterReport(p)
  /\ task' = task /\ remote' = remote /\ NoNewReports

\* The control plane creates, cancels or decides runs that no device has seen.
Decides ==
  /\ task' = task /\ remote' = remote /\ NoNewReports
  /\ \A r \in Runs :
       \/ run'[r].status = run[r].status
       \/ /\ run[r].status \in {"absent", "queued"}
          /\ run'[r].status \in {"queued", "dispatched", "cancelled", "failed"}

----------------------------------------------------------------------------
(* Facts about work and reports *)

LEMMA InFlightFacts ==
  ASSUME TypeOK, DispatchInv
  PROVE  \A p \in InFlight : p \in Report /\ ReportSound(p)
BY OutboxReportsType DEF InFlight, OutboxReports, TypeOK, DispatchInv, ReportInv

\* A bound task that ended stays as it ended, and a run without a task has none.
LEMMA BoundKept ==
  ASSUME TypeOK, TypeOK', TasksAdvance, NEW r \in Runs, remote'[r].task = remote[r].task
  PROVE  \A s \in Finished \cup {"unused"} : BoundStatus(r) = s => BoundStatus(r)' = s
BY DEF BoundStatus, TasksAdvance, Advances, Finished

\* While the tasks proceed, the work of a run changes only from being active.
LEMMA WorkKept ==
  ASSUME TypeOK, TypeOK', TaskInv, HandoverInv, TasksAdvance,
         NEW r \in Runs, remote'[r].task = remote[r].task
  PROVE  WorkOf(r) = "active" \/ WorkOf(r)' = WorkOf(r)
<1>1. CASE LeasedTasks(r) # {}
  BY <1>1 DEF WorkOf
<1>2. CASE LeasedTasks(r) = {}
  <2>1. LeasedTasks(r)' = {}
    BY <1>2 DEF LeasedTasks, TasksOf, TasksAdvance, Advances
  <2>2. BoundStatus(r) # "running"
    <3>1. \A t \in Tasks : task[t].status = "running" => task[t].lease
      BY DEF HandoverInv
    <3>2. remote[r].task \in Tasks => task[remote[r].task].run = r
      BY DEF TaskInv
    <3> QED BY <1>2, <3>1, <3>2 DEF BoundStatus, LeasedTasks, TasksOf
  <2>3. BoundStatus(r) \in TaskStatus
    BY DEF BoundStatus, TypeOK, TaskRecord, TaskStatus
  <2>4. BoundStatus(r)' = BoundStatus(r)
    BY <2>2, <2>3, BoundKept DEF TaskStatus, Finished
  <2> QED BY <1>2, <2>1, <2>4 DEF WorkOf
<1> QED BY <1>1, <1>2

LEMMA WorkType ==
  ASSUME NEW r \in Runs
  PROVE  WorkOf(r) \in Lifecycle!Work
BY DEF WorkOf, Finished, Lifecycle!Work

----------------------------------------------------------------------------
(* HandoverInv, by kinds of steps *)

LEMMA QuietHandover ==
  ASSUME TypeOK, TypeOK', DispatchInv, HandoverInv, Quiet
  PROVE  HandoverInv'
<1>1. \A t \in Tasks : task'[t].status = "running" => task'[t].lease
  BY DEF HandoverInv, Quiet, TasksAdvance, Advances
<1>2. \A r \in Runs : HandedOver(r)' => HandedOver(r)
  BY DEF HandedOver, Quiet, NoNewReports
<1>3. \A p \in InFlight : p.run \in Runs
  BY InFlightFacts DEF Report
<1>4. \A r \in Runs : BoundStatus(r) \in {"unused", "failed", "stopped"} =>
                      BoundStatus(r)' \in {"unused", "failed", "stopped"}
  BY BoundKept DEF Quiet, KeepsBindings, Finished
<1> QED BY <1>1, <1>2, <1>3, <1>4 DEF HandoverInv, Quiet, KeepsBindings, NoNewReports, InFlight

LEMMA EnqueueHandover ==
  ASSUME TypeOK, TypeOK', DispatchInv, HandoverInv,
         NEW r \in Runs, NEW s \in ReportStatus, NEW c \in ErrorCode, Enqueues(r, s, c)
  PROVE  HandoverInv'
<1>1. \A t \in Tasks : task'[t].status = "running" => task'[t].lease
  BY DEF HandoverInv, Enqueues, TasksAdvance, Advances
<1>2. \A q \in Runs : remote'[q].task = remote[q].task
  BY DEF Enqueues, EnqueueReport, TypeOK, RemoteRecord
<1>3. InFlight' \subseteq InFlight \cup {NewReport(r, s, c)}
  BY EnqueuedReports DEF Enqueues, EnqueueReport, InFlight
<1>4. /\ NewReport(r, s, c).run = r /\ NewReport(r, s, c).status = s
      /\ \A p \in InFlight : p.run \in Runs
  BY InFlightFacts DEF NewReport, Report
<1>5. \A q \in Runs : BoundStatus(q) \in {"unused", "failed", "stopped"} =>
                      BoundStatus(q)' \in {"unused", "failed", "stopped"}
  BY <1>2, BoundKept DEF Enqueues, Finished
<1>6. \A q \in Runs : HandedOver(q)' => HandedOver(q) \/ (q = r /\ s = "needs_user_approval")
  BY <1>3, <1>4 DEF HandedOver, Enqueues, InFlight
\* before the run was handed over, nothing had been reported about it
<1>7. ASSUME remote[r].state = "claimed"
      PROVE  /\ \A p \in InFlight : p.run # r
             /\ remote[r].task = NoTask
             /\ run[r].status \notin {"running", "succeeded", "failed", "needs_user_approval"}
  BY <1>7, InFlightFacts DEF ReportSound, Report, ReportStatus, Terminal, DispatchInv, TaskInv,
                             ServerNeverAheadOfAgent
<1>8. ASSUME remote[r].state = "running" PROVE ~HandedOver(r)
  BY <1>8, InFlightFacts DEF HandedOver, InFlight, ReportSound, DispatchInv,
                             ServerNeverAheadOfAgent
<1>9. ASSUME NEW q \in Runs, HandedOver(q)'
      PROVE  remote'[q].task = NoTask /\ run'[q].status \notin {"running", "succeeded", "failed"}
  BY <1>2, <1>6, <1>7, <1>9 DEF HandoverInv, Enqueues
<1>10. ASSUME NEW p \in InFlight'
       PROVE  /\ HandedOver(p.run)' => p.status \in {"needs_user_approval", "cancelled"}
              /\ p.status = "failed" => BoundStatus(p.run)' \in {"unused", "failed", "stopped"}
  <2>1. CASE p \in InFlight
    BY <1>4, <1>5, <1>6, <1>7, <2>1 DEF HandoverInv, Enqueues, InFlight
  <2>2. CASE p = NewReport(r, s, c)
    <3>1. HandedOver(r)' => s \in {"needs_user_approval", "cancelled"}
      BY <1>6, <1>7, <1>8 DEF Enqueues, HandedOver, InFlight
    <3> QED BY <1>4, <1>5, <2>2, <3>1 DEF Enqueues
  <2> QED BY <1>3, <2>1, <2>2
<1> QED BY <1>1, <1>9, <1>10 DEF HandoverInv, InFlight

LEMMA ReportHandover ==
  ASSUME TypeOK, TypeOK', DispatchInv, HandoverInv, NEW p, Reports(p)
  PROVE  HandoverInv'
<1>1. p \in InFlight /\ p.run \in Runs /\ \A q \in InFlight : q.run \in Runs
  BY InFlightFacts DEF Reports, Report
<1>2. \A r \in Runs : \/ run'[r].status = run[r].status
                      \/ r = p.run /\ run'[r].status = p.status
  BY <1>1 DEF Reports, AfterReport, TypeOK, RunRecord
<1>3. \A r \in Runs : HandedOver(r)' => HandedOver(r)
  BY <1>1, <1>2 DEF HandedOver, Reports, NoNewReports, InFlight
<1>4. \A r \in Runs : BoundStatus(r)' = BoundStatus(r)
  BY DEF BoundStatus, Reports
<1> QED BY <1>1, <1>2, <1>3, <1>4 DEF HandoverInv, Reports, NoNewReports, InFlight

LEMMA DecideHandover ==
  ASSUME TypeOK, TypeOK', DispatchInv, HandoverInv, Decides
  PROVE  HandoverInv'
<1>1. \A r \in Runs : HandedOver(r)' => HandedOver(r)
  BY DEF HandedOver, Decides, NoNewReports
<1>2. \A r \in Runs : HandedOver(r) => run[r].status \notin {"absent", "queued"}
  BY InFlightFacts DEF HandedOver, InFlight, ReportSound, DispatchInv, UnclaimedInv
<1>3. \A r \in Runs : BoundStatus(r)' = BoundStatus(r)
  BY DEF BoundStatus, Decides
<1>4. \A p \in InFlight : p.run \in Runs
  BY InFlightFacts DEF Report
<1> QED BY <1>1, <1>2, <1>3, <1>4 DEF HandoverInv, Decides, NoNewReports, InFlight

----------------------------------------------------------------------------
(* Steps of RunLifecycle, by kinds of steps *)

MoveOrStutter == Lifecycle!Next \/ UNCHANGED Lifecycle!vars

\* While the control plane does nothing, the device works.
LEMMA WorkRefines ==
  ASSUME run' = run,
         \A r \in Runs : \/ WorkOf(r)' = WorkOf(r)
                         \/ WorkOf(r) = "active"
                         \/ WorkOf(r) = "idle" /\ ShownStatus(r) = "assigned"
  PROVE  MoveOrStutter
<1>1. [r \in Runs |-> WorkOf(r)]' \in [Runs -> Lifecycle!Work]
  BY WorkType DEF WorkOf, Finished, Lifecycle!Work
<1>2. /\ [r \in Runs |-> ShownStatus(r)]' = [r \in Runs |-> ShownStatus(r)]
      /\ [r \in Runs |-> run[r].cancelRequested]' = [r \in Runs |-> run[r].cancelRequested]
  BY DEF ShownStatus
<1>3. Lifecycle!WorkProceeds
  BY <1>1, <1>2 DEF Lifecycle!WorkProceeds
<1> QED BY <1>3 DEF MoveOrStutter, Lifecycle!Next

\* The work of a run as the server steps leave it, and what is known of it.
LEMMA WorkFacts ==
  ASSUME TypeOK, DispatchInv, NEW r \in Runs
  PROVE  /\ task' = task /\ remote' = remote => WorkOf(r)' = WorkOf(r)
         /\ remote[r].state \in {"unknown", "needs_user_approval"} => WorkOf(r) = "idle"
         /\ remote[r].state = "terminal" => WorkOf(r) # "active"
         /\ remote[r].state # "running" /\ remote[r].task = NoTask
            /\ (remote[r].state = "claimed" => pc # "bind") => WorkOf(r) = "idle"
<1>1. task' = task /\ remote' = remote => WorkOf(r)' = WorkOf(r)
  BY DEF WorkOf, LeasedTasks, TasksOf, BoundStatus
<1>2. LeasedTasks(r) # {} =>
         remote[r].state = "running" \/ (remote[r].state = "claimed" /\ pc = "bind")
  BY DEF LeasedTasks, TasksOf, DispatchInv, LeaseInv
<1>3. remote[r].task = NoTask => BoundStatus(r) = "unused"
  BY NullAssumption DEF BoundStatus
<1>4. remote[r].state \in {"unknown", "needs_user_approval"} => remote[r].task = NoTask
  BY DEF DispatchInv, TaskInv
<1> QED BY <1>1, <1>2, <1>3, <1>4 DEF WorkOf, Finished

\* An executed report is a move that RunLifecycle allows, or changes nothing.
LEMMA ReportRefines ==
  ASSUME TypeOK, DispatchInv, HandoverInv, NEW p, Reports(p)
  PROVE  MoveOrStutter
<1> DEFINE r == p.run
<1>1. /\ p \in Report /\ ReportSound(p) /\ r \in Runs
      /\ p.status = "needs_user_approval" => HandedOver(r)
      /\ HandedOver(r) => p.status \in {"needs_user_approval", "cancelled"}
      /\ HandedOver(r) => remote[r].task = NoTask
      /\ run[r].status = "needs_user_approval" => HandedOver(r)
      /\ p.status = "failed" => BoundStatus(r) \in {"unused", "failed", "stopped"}
  BY InFlightFacts DEF Reports, Report, HandoverInv, InFlight, HandedOver
<1>2. CASE run' = run
  BY <1>2, WorkFacts, WorkRefines DEF Reports
<1>3. CASE run' # run
  <2>1. /\ p.status \in Allowed[run[r].status]
        /\ p.status = "cancelled" => run[r].cancelRequested
        /\ run' = [run EXCEPT ![r].status = p.status, ![r].code = p.code]
    <3>1. ~SameReport(p)
      BY <1>1, <1>3 DEF Reports, AfterReport, SameReport, Accepts, TypeOK, RunRecord
    <3> QED BY <1>1, <1>3, <3>1 DEF Reports, AfterReport, Accepts
  <2>2. /\ run[r].status \in {"dispatched", "running", "needs_user_approval"}
        /\ p.status \in ReportStatus
        /\ p.status \in {"running", "needs_user_approval"} => run[r].status # p.status
    BY <1>1, <2>1 DEF Allowed, TypeOK, RunRecord, ReportStatus, Terminal
  <2>3. /\ run' \in [Runs -> RunRecord] /\ run \in [Runs -> RunRecord]
        /\ run'[r].status = p.status
        /\ \A q \in Runs : run'[q].cancelRequested = run[q].cancelRequested
        /\ \A q \in Runs \ {r} : run'[q] = run[q]
    <3>1. run \in [Runs -> RunRecord] /\ run' \in [Runs -> RunRecord]
      BY <1>1, RunTables DEF TypeOK, Reports
    <3>2. run[r] \in RunRecord
      BY <1>1, <3>1
    <3>3. run'[r].status = p.status /\ run'[r].cancelRequested = run[r].cancelRequested
      BY <1>1, <2>1, <3>1, <3>2 DEF RunRecord
    <3> QED BY <1>1, <2>1, <3>1, <3>3
  <2>4. /\ [q \in Runs |-> WorkOf(q)]' = [q \in Runs |-> WorkOf(q)]
        /\ [q \in Runs |-> run[q].cancelRequested]' = [q \in Runs |-> run[q].cancelRequested]
    BY <2>3, WorkFacts DEF Reports
  <2>5. \A q \in Runs \ {r} : ShownStatus(q)' = ShownStatus(q)
    BY <2>3 DEF ShownStatus
  <2>6. ShownStatus(r)' = CASE p.status = "running" -> "assigned"
                            [] p.status = "needs_user_approval" -> "blocked"
                            [] OTHER -> p.status
    BY <1>1, <2>2, <2>3 DEF ShownStatus, ReportStatus, Terminal
  <2>7. ShownStatus(r) = IF run[r].status = "needs_user_approval" THEN "blocked" ELSE "assigned"
    BY <2>2 DEF ShownStatus
  <2>8. [q \in Runs |-> ShownStatus(q)]' =
          [[q \in Runs |-> ShownStatus(q)] EXCEPT ![r] = ShownStatus(r)']
    BY <1>1, <2>5
  <2>9. CASE p.status = "running"
    BY <1>1, <2>2, <2>4, <2>6, <2>7, <2>8, <2>9 DEF MoveOrStutter, Lifecycle!vars
  <2>10. CASE p.status = "needs_user_approval"
    <3>1. WorkOf(r) = "idle"
      BY <1>1, <2>10, WorkFacts DEF ReportSound
    <3>2. Lifecycle!Block(r)
      BY <1>1, <2>2, <2>4, <2>6, <2>7, <2>8, <2>10, <3>1 DEF Lifecycle!Block, Lifecycle!Move
    <3> QED BY <1>1, <3>2 DEF MoveOrStutter, Lifecycle!Next
  <2>11. CASE p.status = "succeeded"
    <3>1. WorkOf(r) = "succeeded"
      BY <1>1, <2>11, WorkFacts DEF ReportSound, WorkOf, Terminal, Finished
    <3>2. Lifecycle!Succeed(r)
      BY <1>1, <2>2, <2>4, <2>6, <2>7, <2>8, <2>11, <3>1 DEF Lifecycle!Succeed, Lifecycle!Move
    <3> QED BY <1>1, <3>2 DEF MoveOrStutter, Lifecycle!Next
  <2>12. CASE p.status = "failed"
    <3>1. WorkOf(r) \in {"idle", "failed", "stopped"}
      BY <1>1, <2>12, WorkFacts DEF ReportSound, WorkOf, Terminal, Finished
    <3>2. Lifecycle!Fail(r)
      BY <1>1, <2>2, <2>4, <2>6, <2>7, <2>8, <2>12, <3>1 DEF Lifecycle!Fail, Lifecycle!Move
    <3> QED BY <1>1, <3>2 DEF MoveOrStutter, Lifecycle!Next
  <2>13. CASE p.status = "cancelled"
    <3>1. WorkOf(r) \in Lifecycle!Work \ {"active"}
      BY <1>1, <2>13, WorkFacts, WorkType DEF ReportSound, Terminal
    <3>2. Lifecycle!Cancel(r)
      BY <1>1, <2>1, <2>2, <2>4, <2>6, <2>7, <2>8, <2>13, <3>1 DEF Lifecycle!Cancel, Lifecycle!Move
    <3> QED BY <1>1, <3>2 DEF MoveOrStutter, Lifecycle!Next
  <2> QED BY <2>2, <2>9, <2>10, <2>11, <2>12, <2>13 DEF ReportStatus, Terminal
<1> QED BY <1>2, <1>3

(* The status each run has after a claim of S committed. *)
LEMMA AfterClaimFacts ==
  ASSUME TypeOK, NEW S \in SUBSET Runs
  PROVE  \A r \in Runs :
           /\ AfterClaim(S)[r].cancelRequested = run[r].cancelRequested
           /\ AfterClaim(S)[r].status = IF r \in S THEN IF grant = "active" THEN "dispatched" ELSE "failed"
                                        ELSE run[r].status
<1> SUFFICES ASSUME NEW r \in Runs
             PROVE  /\ AfterClaim(S)[r].cancelRequested = run[r].cancelRequested
                    /\ AfterClaim(S)[r].status = IF r \in S THEN IF grant = "active" THEN "dispatched" ELSE "failed"
                                                 ELSE run[r].status
  OBVIOUS
<1>r. run[r] \in RunRecord
  BY DEF TypeOK
<1>1. CASE r \notin S
  BY <1>1 DEF AfterClaim
<1>2. CASE r \in S /\ grant = "active"
  <2>1. AfterClaim(S)[r] = [run[r] EXCEPT !.status = "dispatched"]
    BY <1>2 DEF AfterClaim
  <2> QED BY <1>2, <1>r, <2>1 DEF RunRecord
<1>3. CASE r \in S /\ grant # "active"
  <2>1. AfterClaim(S)[r] = [run[r] EXCEPT !.status = "failed", !.code = "permission_grant_inactive"]
    BY <1>3 DEF AfterClaim
  <2> QED BY <1>3, <1>r, <2>1 DEF RunRecord
<1> QED BY <1>1, <1>2, <1>3

----------------------------------------------------------------------------
(* The refinement, action by action *)

LEMMA QuietRefines ==
  ASSUME TypeOK, TypeOK', DispatchInv, HandoverInv, Quiet
  PROVE  HandoverInv' /\ MoveOrStutter
BY QuietHandover, WorkKept, WorkRefines DEF Quiet, KeepsBindings, DispatchInv

LEMMA EnqueueRefines ==
  ASSUME TypeOK, TypeOK', DispatchInv, HandoverInv,
         NEW r \in Runs, NEW s \in ReportStatus, NEW c \in ErrorCode, Enqueues(r, s, c)
  PROVE  HandoverInv' /\ MoveOrStutter
<1>1. \A q \in Runs : remote'[q].task = remote[q].task
  BY DEF Enqueues, EnqueueReport, TypeOK, RemoteRecord
<1> QED BY <1>1, EnqueueHandover, WorkKept, WorkRefines DEF Enqueues, DispatchInv

\* Claims and the revocation of the grant decide waiting runs together.
LEMMA DecideRefines ==
  ASSUME TypeOK, TypeOK', DispatchInv, HandoverInv, Decides, NEW S \in SUBSET QueuedRuns,
         NEW to \in {"dispatched", "failed"},
         \A r \in Runs : /\ run'[r].cancelRequested = run[r].cancelRequested
                         /\ run'[r].status = IF r \in S THEN to ELSE run[r].status
  PROVE  HandoverInv' /\ MoveOrStutter
<1>1. HandoverInv'
  BY DecideHandover
<1>2. /\ [q \in Runs |-> WorkOf(q)]' = [q \in Runs |-> WorkOf(q)]
      /\ [q \in Runs |-> run[q].cancelRequested]' = [q \in Runs |-> run[q].cancelRequested]
  BY WorkFacts DEF Decides
<1>3. /\ S \subseteq Runs
      /\ \A q \in S : ShownStatus(q) = "waiting"
      /\ \A q \in Runs : ShownStatus(q)' = IF q \in S THEN IF to = "dispatched" THEN "assigned" ELSE "failed"
                                           ELSE ShownStatus(q)
  BY DEF QueuedRuns, ShownStatus
<1>4. CASE S = {}
  BY <1>1, <1>2, <1>3, <1>4 DEF MoveOrStutter, Lifecycle!vars
<1>5. CASE S # {}
  <2>1. Lifecycle!Decide(S, "assigned") \/ Lifecycle!Decide(S, "failed")
    BY <1>2, <1>3, <1>5 DEF Lifecycle!Decide
  <2> QED BY <1>1, <1>3, <2>1 DEF MoveOrStutter, Lifecycle!Next
<1> QED BY <1>4, <1>5

\* Every step keeps HandoverInv and is a step of RunLifecycle or invisible to it.
LEMMA NextRefines ==
  TypeOK /\ TypeOK' /\ DispatchInv /\ HandoverInv /\ [Next]_vars => HandoverInv' /\ MoveOrStutter
<1> SUFFICES ASSUME TypeOK, TypeOK', DispatchInv, HandoverInv, [Next]_vars
             PROVE  HandoverInv' /\ MoveOrStutter
  OBVIOUS
<1> DEFINE Refines == HandoverInv' /\ MoveOrStutter
<1> HIDE DEF Refines
<1> USE DEF serverVars, threadVars, netVars
<1>t. TaskInv /\ LeaseInv /\ ThreadInv /\ UnclaimedInv
  BY DEF DispatchInv
<1>o. outbox' = outbox => OutboxReports' = OutboxReports
  BY DEF OutboxReports
<1>1. ASSUME ApprovePermissionGrant PROVE Refines
  <2>1. Quiet
    BY <1>1, <1>t, <1>o, TasksAdvanceFacts
       DEF ApprovePermissionGrant, Quiet, KeepsBindings, NoNewReports
  <2> QED BY <2>1, QuietRefines DEF Refines
<1>2. ASSUME GrantExpires PROVE Refines
  <2>1. Quiet
    BY <1>2, <1>t, <1>o, TasksAdvanceFacts
       DEF GrantExpires, Quiet, KeepsBindings, NoNewReports
  <2> QED BY <2>1, QuietRefines DEF Refines
<1>3. ASSUME RevokeDevice PROVE Refines
  <2>1. Quiet
    BY <1>3, <1>t, <1>o, TasksAdvanceFacts
       DEF RevokeDevice, Quiet, KeepsBindings, NoNewReports
  <2> QED BY <2>1, QuietRefines DEF Refines
<1>4. ASSUME Uninstall PROVE Refines
  <2>1. Quiet
    BY <1>4, <1>t, <1>o, TasksAdvanceFacts
       DEF Uninstall, Quiet, KeepsBindings, NoNewReports
  <2> QED BY <2>1, QuietRefines DEF Refines
<1>5. ASSUME Reinstall PROVE Refines
  <2>1. Quiet
    BY <1>5, <1>t, <1>o, TasksAdvanceFacts
       DEF Reinstall, Quiet, KeepsBindings, NoNewReports
  <2> QED BY <2>1, QuietRefines DEF Refines
<1>6. ASSUME LateRequestsLost PROVE Refines
  <2>1. Quiet
    BY <1>6, <1>t, <1>o, TasksAdvanceFacts
       DEF LateRequestsLost, Quiet, KeepsBindings, NoNewReports
  <2> QED BY <2>1, QuietRefines DEF Refines
<1>7. ASSUME Snapshot PROVE Refines
  <2>1. Quiet
    BY <1>7, <1>t, <1>o, TasksAdvanceFacts
       DEF Snapshot, Quiet, KeepsBindings, NoNewReports
  <2> QED BY <2>1, QuietRefines DEF Refines
<1>8. ASSUME NEW t \in Tasks, NEW e \in {"ok", "error"}, RunnerExits(t, e) PROVE Refines
  <2>1. Quiet
    BY <1>8, <1>t, <1>o, TasksAdvanceFacts
       DEF RunnerExits, Quiet, KeepsBindings, NoNewReports
  <2> QED BY <2>1, QuietRefines DEF Refines
<1>9. ASSUME NEW t \in Tasks, UserStop(t) PROVE Refines
  <2>0. task' = [s \in Tasks |-> IF s \in {t} THEN StoppedTask(task[s]) ELSE task[s]]
    BY <1>9 DEF UserStop, TypeOK
  <2>1. Quiet
    BY <1>9, <1>t, <1>o, TasksAdvanceFacts, <2>0
       DEF UserStop, Quiet, KeepsBindings, NoNewReports
  <2> QED BY <2>1, QuietRefines DEF Refines
<1>10. ASSUME NEW r \in Runs, LeaseExpires(r) PROVE Refines
  <2>1. Quiet
    BY <1>10, <1>t, <1>o, TasksAdvanceFacts
       DEF LeaseExpires, Quiet, KeepsBindings, NoNewReports, TypeOK, RemoteRecord
  <2> QED BY <2>1, QuietRefines DEF Refines
<1>11. ASSUME CrashAndRestart PROVE Refines
  <2>1. Quiet
    BY <1>11, <1>t, <1>o, TasksAdvanceFacts
       DEF CrashAndRestart, Quiet, KeepsBindings, NoNewReports
  <2> QED BY <2>1, QuietRefines DEF Refines
<1>12. ASSUME Unauthorized PROVE Refines
  <2>1. Quiet
    BY <1>12, <1>t, <1>o, TasksAdvanceFacts
       DEF Unauthorized, Quiet, KeepsBindings, NoNewReports
  <2> QED BY <2>1, QuietRefines DEF Refines
<1>13. ASSUME BeginCycle PROVE Refines
  <2>1. Quiet
    BY <1>13, <1>t, <1>o, TasksAdvanceFacts, HeldReports
       DEF BeginCycle, Quiet, KeepsBindings, NoNewReports
  <2> QED BY <2>1, QuietRefines DEF Refines
<1>14. ASSUME FetchRunControls PROVE Refines
  <2>1. Quiet
    BY <1>14, <1>t, <1>o, TasksAdvanceFacts
       DEF FetchRunControls, Quiet, KeepsBindings, NoNewReports
  <2> QED BY <2>1, QuietRefines DEF Refines
<1>15. ASSUME RunControlsTimeOut PROVE Refines
  <2>1. Quiet
    BY <1>15, <1>t, <1>o, TasksAdvanceFacts
       DEF RunControlsTimeOut, Quiet, KeepsBindings, NoNewReports
  <2> QED BY <2>1, QuietRefines DEF Refines
<1>16. ASSUME NEW r \in Runs, IgnoreControl(r) PROVE Refines
  <2>1. Quiet
    BY <1>16, <1>t, <1>o, TasksAdvanceFacts
       DEF IgnoreControl, Quiet, KeepsBindings, NoNewReports
  <2> QED BY <2>1, QuietRefines DEF Refines
<1>17. ASSUME NEW r \in Runs, StopForControl(r) PROVE Refines
  <2>0. task' = [s \in Tasks |-> IF s \in {t \in Tasks : t = remote[r].task}
                             THEN StoppedTask(task[s]) ELSE task[s]]
    BY <1>17 DEF StopForControl
  <2>1. Quiet
    BY <1>17, <1>t, <1>o, TasksAdvanceFacts, <2>0
       DEF StopForControl, Quiet, KeepsBindings, NoNewReports
  <2> QED BY <2>1, QuietRefines DEF Refines
<1>18. ASSUME CollectCompletions PROVE Refines
  <2>1. Quiet
    BY <1>18, <1>t, <1>o, TasksAdvanceFacts
       DEF CollectCompletions, Quiet, KeepsBindings, NoNewReports
  <2> QED BY <2>1, QuietRefines DEF Refines
<1>19. ASSUME CollectPending PROVE Refines
  <2>1. Quiet
    BY <1>19, <1>t, <1>o, TasksAdvanceFacts
       DEF CollectPending, Quiet, KeepsBindings, NoNewReports
  <2> QED BY <2>1, QuietRefines DEF Refines
<1>20. ASSUME BeginFlush PROVE Refines
  <2>1. Quiet
    BY <1>20, <1>t, <1>o, TasksAdvanceFacts
       DEF BeginFlush, Quiet, KeepsBindings, NoNewReports
  <2> QED BY <2>1, QuietRefines DEF Refines
<1>21. ASSUME NEW i \in 1..Len(outbox), ReportRejected(i) PROVE Refines
  <2>1. Quiet
    BY <1>21, <1>t, <1>o, TasksAdvanceFacts, DelayedReports
       DEF ReportRejected, Quiet, KeepsBindings, NoNewReports
  <2> QED BY <2>1, QuietRefines DEF Refines
<1>22. ASSUME NEW i \in 1..Len(outbox), ReportTimesOut(i) PROVE Refines
  <2>1. Quiet
    BY <1>22, <1>t, <1>o, TasksAdvanceFacts, DelayedReports
       DEF ReportTimesOut, Quiet, KeepsBindings, NoNewReports, OutboxReports
  <2> QED BY <2>1, QuietRefines DEF Refines
<1>23. ASSUME FlushDone PROVE Refines
  <2>1. Quiet
    BY <1>23, <1>t, <1>o, TasksAdvanceFacts
       DEF FlushDone, Quiet, KeepsBindings, NoNewReports
  <2> QED BY <2>1, QuietRefines DEF Refines
<1>24. ASSUME ClaimTimesOut PROVE Refines
  <2>1. Quiet
    BY <1>24, <1>t, <1>o, TasksAdvanceFacts
       DEF ClaimTimesOut, Quiet, KeepsBindings, NoNewReports
  <2> QED BY <2>1, QuietRefines DEF Refines
<1>25. ASSUME EnqueueCancelled PROVE Refines
  <2>1. cur \in Runs /\ remote[cur].state # "unknown"
    BY <1>25, <1>t DEF EnqueueCancelled, ThreadInv, TypeOK
  <2>2. Enqueues(cur, "cancelled", "none")
    BY <1>25, <1>t, <2>1, TasksAdvanceFacts DEF EnqueueCancelled, Enqueues
  <2> QED BY <1>25, <2>1, <2>2, EnqueueRefines DEF EnqueueCancelled, Refines, ReportStatus, Terminal, ErrorCode
<1>26. ASSUME NEW r \in Runs, EnqueueCompleted(r) PROVE Refines
  <2>1. /\ remote[r].state = "running" /\ remote[r].task \in Tasks
        /\ task[remote[r].task].status \in Finished
    BY <1>26, <1>t DEF EnqueueCompleted, ThreadInv, TaskInv
  <2>2. /\ CompletionReport(r).status \in {"succeeded", "failed"} /\ CompletionReport(r).code \in ErrorCode
        /\ CompletionReport(r).status = "failed" => BoundStatus(r) \in {"failed", "stopped"}
    BY <2>1 DEF CompletionReport, NewReport, ErrorCode, BoundStatus, Finished
  <2>3. Enqueues(r, CompletionReport(r).status, CompletionReport(r).code)
    BY <1>26, <1>t, <2>1, <2>2, TasksAdvanceFacts DEF EnqueueCompleted, Enqueues
  <2> QED BY <1>26, <2>2, <2>3, EnqueueRefines DEF EnqueueCompleted, Refines, ReportStatus, Terminal, ErrorCode
<1>27. ASSUME NEW r \in Runs, ApplicationUnavailable(r) PROVE Refines
  <2>1. remote[r].state = "claimed" /\ BoundStatus(r) = "unused"
    BY <1>27, <1>t, NullAssumption DEF ApplicationUnavailable, ThreadInv, TaskInv, BoundStatus
  <2>2. Enqueues(r, "failed", "application_unavailable")
    BY <1>27, <1>t, <2>1, TasksAdvanceFacts DEF ApplicationUnavailable, Enqueues
  <2> QED BY <1>27, <2>2, EnqueueRefines DEF ApplicationUnavailable, Refines, ReportStatus, Terminal, ErrorCode
<1>28. ASSUME NEW r \in Runs, LaunchFails(r) PROVE Refines
  <2>1. remote[r].state = "claimed" /\ BoundStatus(r) = "unused"
    BY <1>28, <1>t, NullAssumption DEF LaunchFails, ThreadInv, TaskInv, BoundStatus
  <2>2. Enqueues(r, "failed", "agent_run_failed")
    BY <1>28, <1>t, <2>1, TasksAdvanceFacts DEF LaunchFails, Enqueues
  <2> QED BY <1>28, <2>2, EnqueueRefines DEF LaunchFails, Refines, ReportStatus, Terminal, ErrorCode
<1>29. ASSUME NEW r \in Runs, AskForApproval(r) PROVE Refines
  <2>1. remote[r].state = "claimed"
    BY <1>29, <1>t DEF AskForApproval, ThreadInv
  <2>2. PICK c \in {"elevation_required", "foreground_required"} :
          EnqueueReport(r, "needs_user_approval", c)
    BY <1>29 DEF AskForApproval
  <2>3. Enqueues(r, "needs_user_approval", c)
    BY <1>29, <1>t, <2>1, <2>2, TasksAdvanceFacts DEF AskForApproval, Enqueues
  <2> QED BY <2>3, EnqueueRefines DEF Refines, ReportStatus, ErrorCode
<1>30. ASSUME NEW p \in lateReports, LateReportExecutes(p) PROVE Refines
  <2>1. Reports(p)
    BY <1>30, <1>o DEF LateReportExecutes, Reports, InFlight, NoNewReports, OutboxReports
  <2> QED BY <2>1, ReportHandover, ReportRefines DEF Refines
<1>31. ASSUME NEW i \in 1..Len(outbox), ReportAccepted(i) PROVE Refines
  <2>1. Reports(ReportOf(outbox[i]))
    BY <1>31, RemovedReports DEF ReportAccepted, Reports, InFlight, NoNewReports, OutboxReports
  <2> QED BY <2>1, ReportHandover, ReportRefines DEF Refines
<1>32. ASSUME NEW S \in SUBSET Runs, ClaimRuns(S) PROVE Refines
  <2>1. /\ S \in SUBSET QueuedRuns /\ run' = AfterClaim(S)
    BY <1>32 DEF ClaimRuns, ClaimSets
  <2>2. \A r \in Runs :
          /\ run'[r].cancelRequested = run[r].cancelRequested
          /\ run'[r].status = IF r \in S THEN IF grant = "active" THEN "dispatched" ELSE "failed"
                              ELSE run[r].status
    BY <2>1, AfterClaimFacts
  <2>3. Decides
    BY <1>32, <1>o, <2>1, <2>2 DEF ClaimRuns, Decides, NoNewReports, QueuedRuns
  <2> QED BY <2>1, <2>2, <2>3, DecideRefines DEF Refines
<1>33. ASSUME NEW S \in SUBSET Runs, LateClaimExecutes(S) PROVE Refines
  <2>1. /\ S \in SUBSET QueuedRuns /\ run' = AfterClaim(S)
    BY <1>33 DEF LateClaimExecutes, ClaimSets
  <2>2. \A r \in Runs :
          /\ run'[r].cancelRequested = run[r].cancelRequested
          /\ run'[r].status = IF r \in S THEN IF grant = "active" THEN "dispatched" ELSE "failed"
                              ELSE run[r].status
    BY <2>1, AfterClaimFacts
  <2>3. Decides
    BY <1>33, <1>o, <2>1, <2>2 DEF LateClaimExecutes, Decides, NoNewReports, QueuedRuns
  <2> QED BY <2>1, <2>2, <2>3, DecideRefines DEF Refines
<1>34. ASSUME RevokePermissionGrant PROVE Refines
  <2>1. \A r \in Runs :
          /\ run'[r].cancelRequested = run[r].cancelRequested
          /\ run'[r].status = IF r \in QueuedRuns THEN "failed" ELSE run[r].status
    BY ZenonT(60), <1>34 DEF RevokePermissionGrant, QueuedRuns, TypeOK, RunRecord
  <2>2. Decides
    BY <1>34, <1>o, <2>1 DEF RevokePermissionGrant, Decides, NoNewReports, QueuedRuns
  <2> QED BY <2>1, <2>2, DecideRefines DEF Refines
<1>35. ASSUME NEW r \in Runs, CreateManualRun(r) PROVE Refines
  <2>1. /\ run[r].status = "absent" /\ run'[r].status = "queued"
        /\ \A q \in Runs \ {r} : run'[q] = run[q]
        /\ \A q \in Runs : run'[q].cancelRequested = run[q].cancelRequested
    BY <1>35 DEF CreateManualRun, TypeOK, RunRecord
  <2>2. Decides
    BY <1>35, <1>o, <2>1 DEF CreateManualRun, Decides, NoNewReports
  <2>3. WorkOf(r) = "idle" /\ \A q \in Runs : WorkOf(q)' = WorkOf(q)
    BY <1>35, <1>t, <2>1, <2>2, WorkFacts DEF UnclaimedInv, Decides
  <2>4. Lifecycle!Submit(r)
    BY <2>1, <2>3 DEF Lifecycle!Submit, Lifecycle!Move, ShownStatus
  <2> QED BY <2>2, <2>4, DecideHandover DEF Refines, MoveOrStutter, Lifecycle!Next
<1>36. ASSUME NEW r \in Runs, CancelRun(r) PROVE Refines
  <2>1. /\ run[r].status \in Cancellable \cup {"queued"} /\ ~run[r].cancelRequested
        /\ run'[r].status = (IF run[r].status = "queued" THEN "cancelled" ELSE run[r].status)
        /\ run'[r].cancelRequested = TRUE
        /\ \A q \in Runs \ {r} : run'[q] = run[q]
    BY <1>36 DEF CancelRun, TypeOK, RunRecord
  <2>2. Decides
    BY <1>36, <1>o, <2>1 DEF CancelRun, Decides, NoNewReports
  <2>3. \A q \in Runs : WorkOf(q)' = WorkOf(q)
    BY <2>2, WorkFacts DEF Decides
  <2>4. Lifecycle!RequestCancel(r)
    <3>1. ShownStatus(r) \in {"waiting", "assigned", "blocked"}
      BY <2>1 DEF ShownStatus, Cancellable
    <3>2. [q \in Runs |-> ShownStatus(q)]' =
            [[q \in Runs |-> ShownStatus(q)] EXCEPT ![r] = IF @ = "waiting" THEN "cancelled" ELSE @]
      BY ZenonT(60), <2>1 DEF ShownStatus, Cancellable
    <3>3. [q \in Runs |-> run[q].cancelRequested]' =
            [[q \in Runs |-> run[q].cancelRequested] EXCEPT ![r] = TRUE]
      BY <2>1
    <3>4. [q \in Runs |-> WorkOf(q)]' = [q \in Runs |-> WorkOf(q)]
      BY <2>3
    <3> QED BY <2>1, <3>1, <3>2, <3>3, <3>4 DEF Lifecycle!RequestCancel
  <2> QED BY <2>2, <2>4, DecideHandover DEF Refines, MoveOrStutter, Lifecycle!Next
<1>37. ASSUME NEW r \in Runs, NEW t \in Tasks, Launch(r, t) PROVE Refines
  <2>1. /\ task'[t].status = "running" /\ task'[t].lease /\ task'[t].run = r
        /\ task[t].status = "unused" /\ remote[r].state = "claimed" /\ pc = "pending"
        /\ \A s \in Tasks \ {t} : task'[s] = Refreshed(task[s])
        /\ remote' = remote /\ run' = run /\ OutboxReports' = OutboxReports /\ lateReports' = lateReports
    BY <1>37, <1>o, <1>t DEF Launch, RefreshedTasks, ThreadInv
  <2>2. \A s \in Tasks \ {t} : Advances(task[s], task'[s])
    <3>1. \A s \in Tasks : Advances(task[s], Refreshed(task[s]))
      BY <1>t, AdvancesFacts DEF TypeOK, TaskInv
    <3> QED BY <2>1, <3>1
  <2>3. ASSUME NEW q \in Runs
        PROVE  /\ BoundStatus(q) \in {"unused", "failed", "stopped"} =>
                    BoundStatus(q)' \in {"unused", "failed", "stopped"}
               /\ BoundStatus(q) \in Finished \cup {"unused"} => BoundStatus(q)' = BoundStatus(q)
               /\ BoundStatus(q) \in TaskStatus
    BY <1>t, <2>1, <2>2 DEF BoundStatus, TaskInv, Advances, Finished, TypeOK, TaskRecord, TaskStatus
  <2>4. HandoverInv'
    <3>1. \A s \in Tasks : task'[s].status = "running" => task'[s].lease
      BY <2>1, <2>2 DEF HandoverInv, Advances
    <3>2. \A q \in Runs : HandedOver(q)' <=> HandedOver(q)
      BY <2>1 DEF HandedOver
    <3>3. \A p \in InFlight : p.run \in Runs
      BY InFlightFacts DEF Report
    <3> QED BY <2>1, <2>3, <3>1, <3>2, <3>3 DEF HandoverInv, InFlight
  <2>5. WorkOf(r) = "idle" /\ ShownStatus(r) = "assigned"
    <3>1. remote[r].task = NoTask
      BY <1>t, <2>1 DEF TaskInv
    <3>2. run[r].status \in {"dispatched"}
      BY <2>1 DEF DispatchInv, UnclaimedInv, ServerNeverAheadOfAgent, TypeOK, RunRecord, RunStatus,
                  Cancellable, Terminal
    <3> QED BY <2>1, <3>1, <3>2, WorkFacts DEF ShownStatus
  <2>6. ASSUME NEW q \in Runs \ {r} PROVE WorkOf(q) = "active" \/ WorkOf(q)' = WorkOf(q)
    <3>1. CASE LeasedTasks(q) # {}
      BY <3>1 DEF WorkOf
    <3>2. CASE LeasedTasks(q) = {}
      <4>1. LeasedTasks(q)' = {}
        BY <2>1, <2>2, <3>2 DEF LeasedTasks, TasksOf, Advances
      <4>2. BoundStatus(q) # "running"
        <5>1. \A s \in Tasks : task[s].status = "running" => task[s].lease
          BY DEF HandoverInv
        <5>2. remote[q].task \in Tasks => task[remote[q].task].run = q
          BY <1>t DEF TaskInv
        <5> QED BY <3>2, <5>1, <5>2 DEF BoundStatus, LeasedTasks, TasksOf
      <4>3. BoundStatus(q)' = BoundStatus(q)
        BY <2>3, <4>2 DEF TaskStatus, Finished
      <4> QED BY <3>2, <4>1, <4>3 DEF WorkOf
    <3> QED BY <3>1, <3>2
  <2> QED BY <2>1, <2>4, <2>5, <2>6, WorkRefines DEF Refines
<1>38. ASSUME BindRemoteTask PROVE Refines
  <2>1. /\ cur \in Runs /\ curTask \in Tasks /\ remote[cur].state = "claimed"
        /\ task[curTask].run = cur
    BY <1>38, <1>t DEF BindRemoteTask, ThreadInv, TypeOK
  <2>2. /\ remote'[cur].task = curTask /\ \A q \in Runs \ {cur} : remote'[q] = remote[q]
        /\ task' = task /\ run' = run /\ lateReports' = lateReports
    BY <1>38, <2>1 DEF BindRemoteTask, TypeOK, RemoteRecord
  <2>3. InFlight' \subseteq InFlight \cup {NewReport(cur, "running", "none")}
    BY <1>38, <2>1, <2>2, EnqueuedReports DEF BindRemoteTask, ReportStatus, ErrorCode, InFlight
  <2>4. /\ \A p \in InFlight : p.run \in Runs /\ p.run # cur
        /\ run[cur].status = "dispatched"
    BY <2>1, InFlightFacts DEF ReportSound, Report, ReportStatus, Terminal, DispatchInv, UnclaimedInv,
       ServerNeverAheadOfAgent, TypeOK, RunRecord, RunStatus, Cancellable
  <2>5. \A q \in Runs : HandedOver(q)' => HandedOver(q) /\ q # cur
    BY <2>2, <2>3, <2>4 DEF HandedOver, InFlight, NewReport
  <2>6. \A q \in Runs \ {cur} : BoundStatus(q)' = BoundStatus(q)
    BY <2>2 DEF BoundStatus
  <2>7. ASSUME NEW p \in InFlight'
        PROVE  /\ HandedOver(p.run)' => p.status \in {"needs_user_approval", "cancelled"}
               /\ p.status = "failed" => BoundStatus(p.run)' \in {"unused", "failed", "stopped"}
    <3>1. CASE p \in InFlight
      BY <2>4, <2>5, <2>6, <3>1 DEF HandoverInv, InFlight
    <3>2. CASE p = NewReport(cur, "running", "none")
      BY <2>1, <2>5, <3>2 DEF NewReport
    <3> QED BY <2>3, <3>1, <3>2
  <2>8. HandoverInv'
    BY <2>2, <2>5, <2>7 DEF HandoverInv, InFlight
  <2>9. \A q \in Runs : LeasedTasks(q)' = LeasedTasks(q)
    BY <2>2 DEF LeasedTasks, TasksOf
  <2>10. \A q \in Runs \ {cur} : WorkOf(q)' = WorkOf(q)
    BY <2>6, <2>9 DEF WorkOf
  <2>11. WorkOf(cur) \in {"active", "idle"} /\ ShownStatus(cur) = "assigned"
    BY <1>t, <2>1, <2>4, NullAssumption DEF WorkOf, BoundStatus, TaskInv, Finished, ShownStatus
  <2> QED BY <2>2, <2>8, <2>10, <2>11, WorkRefines DEF Refines
<1>39. ASSUME NEW r \in Runs, RecordRemoteClaim(r) PROVE Refines
  <2>1. /\ \A q \in Runs : remote'[q].task = remote[q].task
        /\ task' = task /\ run' = run /\ lateReports' = lateReports /\ OutboxReports' = OutboxReports
    BY <1>39, <1>o DEF RecordRemoteClaim, TypeOK, RemoteRecord
  <2>2. \A q \in Runs : BoundStatus(q)' = BoundStatus(q) /\ (HandedOver(q)' <=> HandedOver(q))
    BY <2>1 DEF BoundStatus, HandedOver
  <2>3. \A p \in InFlight : p.run \in Runs
    BY InFlightFacts DEF Report
  <2>4. HandoverInv'
    BY <2>1, <2>2, <2>3 DEF HandoverInv, InFlight
  <2>5. \A q \in Runs : WorkOf(q)' = WorkOf(q)
    BY <2>1, <2>2 DEF WorkOf, LeasedTasks, TasksOf
  <2> QED BY <2>1, <2>4, <2>5, WorkRefines DEF Refines
<1>40. ASSUME UNCHANGED vars PROVE Refines
  <2>1. Quiet
    BY <1>40, <1>t, <1>o, TasksAdvanceFacts DEF vars, Quiet, KeepsBindings, NoNewReports
  <2> QED BY <2>1, QuietRefines DEF Refines
<1>41. ASSUME UserStep PROVE Refines
  BY <1>41, <1>35, <1>36, <1>10, <1>34, <1>1, <1>2, <1>3, <1>9, <1>7, <1>4, <1>5, <1>11 DEF UserStep
<1>42. ASSUME ThreadStep PROVE Refines
  BY <1>42, <1>12, <1>13, <1>14, <1>15, <1>16, <1>17, <1>18, <1>19, <1>20, <1>21, <1>22, <1>23,
     <1>24, <1>25, <1>26, <1>27, <1>28, <1>29, <1>31, <1>32, <1>37, <1>38, <1>39 DEF ThreadStep
<1>43. ASSUME LateStep PROVE Refines
  BY <1>43, <1>30, <1>33, <1>6 DEF LateStep
<1>44. Refines
  BY <1>8, <1>40, <1>41, <1>42, <1>43 DEF Next
<1> QED BY <1>44 DEF Refines

LEMMA InitRefines == Init => HandoverInv /\ Lifecycle!Init
<1> SUFFICES ASSUME Init PROVE HandoverInv /\ Lifecycle!Init
  OBVIOUS
<1>1. OutboxReports = {} /\ lateReports = {}
  BY DEF Init, OutboxReports
<1>2. \A r \in Runs : LeasedTasks(r) = {} /\ BoundStatus(r) = "unused"
  BY NullAssumption DEF Init, LeasedTasks, TasksOf, BoundStatus
<1>3. HandoverInv
  BY <1>1 DEF Init, HandoverInv, HandedOver
<1>4. Lifecycle!Init
  BY <1>2 DEF Init, Lifecycle!Init, ShownStatus, WorkOf, Finished
<1> QED BY <1>3, <1>4

\* A run handed to its user was never worked on, and can only be cancelled.
THEOREM HandoverSafety == Spec => []HandoverInv
<1>1. Init => HandoverInv
  BY InitRefines
<1>2. TypeOK /\ TypeOK' /\ DispatchInv /\ HandoverInv /\ [Next]_vars => HandoverInv'
  BY NextRefines
<1> QED BY <1>1, <1>2, TypeCorrect, DispatchSafety, PTL DEF Spec

\* Lost and late requests, crashes, stops and races included, whoever watches the
\* control plane and the work of the device sees a behaviour of RunLifecycle.
THEOREM RunDispatchImplementsRunLifecycle == Spec => ImplementsRunLifecycle
<1>1. Init => Lifecycle!Init
  BY InitRefines
<1>2. TypeOK /\ TypeOK' /\ DispatchInv /\ HandoverInv /\ [Next]_vars =>
        [Lifecycle!Next]_(Lifecycle!vars)
  BY NextRefines DEF MoveOrStutter
<1> QED BY <1>1, <1>2, TypeCorrect, DispatchSafety, HandoverSafety, PTL
        DEF Spec, ImplementsRunLifecycle, Lifecycle!Spec
=============================================================================
