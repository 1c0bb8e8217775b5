-------------------------- MODULE ScheduleProofs ---------------------------
(***************************************************************************)
(* Proofs about the schedules of the control plane (ScheduleStore) and the *)
(* Agent that follows them (ScheduleSync), for any workspaces, devices,    *)
(* schedules and releases, any period and lifetime of leases, and every    *)
(* bound.                                                                  *)
(***************************************************************************)
EXTENDS ScheduleSync, TLAPS

-----------------------------------------------------------------------------
(***************************************************************************)
(* The table and the log.                                                  *)
(***************************************************************************)
Owns(d, s) == Listed(s) /\ schedule[s].target = d

\* Change c is what the table says of its schedule now.
TellsRow(c, s) ==
  /\ c.op = "upsert" /\ c.listed
  /\ c.schedule = s /\ c.target = schedule[s].target
  /\ c.revision = schedule[s].revision /\ c.record = RecordOf(schedule[s])

\* Revisions are taken in order, per workspace, and a schedule stays in its own.
RevisionInv ==
  /\ \A c \in changes :
       /\ c.revision \in 1 .. revision[Workspace[c.target]] /\ c.at <= now
       /\ Exists(c.schedule)
       /\ Workspace[schedule[c.schedule].target] = Workspace[c.target]
       /\ c.revision <= schedule[c.schedule].revision
       /\ c.op = "upsert" => c.record.revision = c.revision
  /\ \A s \in Schedules : Exists(s) => schedule[s].revision <= revision[Workspace[schedule[s].target]]

\* A revision of a schedule is one record, and one change for a device.
UniqueInv ==
  \A c, e \in changes : c.schedule = e.schedule /\ c.revision = e.revision =>
    /\ c.target = e.target => c = e
    /\ c.op = "upsert" /\ e.op = "upsert" => c.record = e.record

\* The table is in the log, and what is not in the table was taken back there.
TableInv ==
  /\ \A s \in Schedules : Listed(s) => \E c \in changes : TellsRow(c, s)
  /\ \A c \in changes : c.op = "upsert" /\ c.listed =>
       \/ Owns(c.target, c.schedule)
       \/ \E f \in changes : f.schedule = c.schedule /\ f.target = c.target /\ f.revision > c.revision

LogInv == RevisionInv /\ UniqueInv /\ TableInv
-----------------------------------------------------------------------------
(***************************************************************************)
(* Leases, claims and executions.                                          *)
(***************************************************************************)
Decided(s, d, record) ==
  \E h \in changes : h.op = "upsert" /\ h.schedule = s /\ h.target = d /\ h.record = record

\* A lease was signed for a record that nothing had superseded then, for a device that
\* was not revoked then, and for a limited time.
LeaseSound(s, l) ==
  /\ l.issued <= now /\ l.expires <= l.issued + TTL
  /\ l.issued <= revoked[l.device]
  /\ Decided(s, l.device, l.record)
  /\ \A h \in changes : h.schedule = s /\ h.revision > l.record.revision => l.issued <= h.at

\* The records of the answer, signed or not yet.
Sent == IF exchange.stage # "signing" THEN {}
        ELSE exchange.unsigned \cup {Entry(c.schedule, c.lease.record) : c \in exchange.signed}

\* An answer names decisions about the device that asked, newer than what it has if it
\* is a delta.
AnswerInv ==
  /\ enrolled => dev \in Devices
  /\ exchange # Idle => enrolled /\ claimed = {}
  /\ exchange.stage = "signing" =>
       /\ exchange.to <= revision[Workspace[dev]]
       /\ exchange.kind = "delta" => at <= exchange.to
       /\ \A e \in Sent :
            /\ Decided(e.schedule, dev, e.record)
            /\ e.record.revision <= exchange.to
            /\ exchange.kind = "delta" => at < e.record.revision
       /\ \A c \in exchange.signed : LeaseSound(c.schedule, c.lease) /\ c.lease.device = dev

\* What the Agent holds was signed, and is no later than its revision.
HeldInv ==
  /\ built <= at
  /\ \A s \in Schedules : Held(s) =>
       LeaseSound(s, copy[s].lease) /\ copy[s].lease.record.revision <= at

\* What was executed since the table was replaced is not due again under its record.
RanInv ==
  \A x \in ran :
    /\ x.built <= built /\ x.revision <= at
    /\ x.built = built /\ Held(x.schedule) =>
         /\ x.revision <= copy[x.schedule].lease.record.revision
         /\ x.revision = copy[x.schedule].lease.record.revision =>
              copy[x.schedule].next # copy[x.schedule].lease.record.next

\* A claim is of a row that was moved on, and was not executed yet.
ClaimInv ==
  /\ \A c \in claimed :
       /\ Held(c.schedule) /\ c.lease = copy[c.schedule].lease
       /\ c.lease.record.enabled /\ c.lease.record.next <= now
       /\ copy[c.schedule].next # c.lease.record.next
       /\ ExecutionOf(c) \notin ran
  /\ \A c, e \in claimed : c.schedule = e.schedule => c = e

AgentInv == AnswerInv /\ HeldInv /\ RanInv /\ ClaimInv
-----------------------------------------------------------------------------
(***************************************************************************)
(* The replica of a machine that is only ever one device.                  *)
(***************************************************************************)
OneDevice == \A d, e \in Enrollable : d = e

\* A delta turns what was published at the Agent's revision into what is at its own.
Untouched == {x \in Published(dev, at) :
                x.schedule \notin exchange.removed /\ \A y \in Sent : y.schedule # x.schedule}
DeltaTells == Published(dev, exchange.to) = Sent \cup Untouched

ReplicaInv ==
  /\ dev \in Enrollable \cup {NoDevice}
  /\ dev = NoDevice => at = 0 /\ HeldRecords = {} /\ ~enrolled
  /\ dev # NoDevice => at <= revision[Workspace[dev]] /\ HeldRecords = Published(dev, at)
  /\ exchange.stage = "signing" =>
       /\ exchange.kind = "snapshot" => Sent = Published(dev, exchange.to)
       /\ exchange.kind = "delta" => DeltaTells
-----------------------------------------------------------------------------
(***************************************************************************)
(* Writing to the table and the log.                                       *)
(***************************************************************************)

\* What a change of any kind is made of.
LEMMA ChangeFacts ==
  ASSUME NEW c \in Change
  PROVE  /\ c.schedule \in Schedules /\ c.target \in Devices /\ c.revision \in Nat /\ c.at \in Nat
         /\ c.op \in {"upsert", "remove"}
         /\ c.op = "upsert" => c.record \in Record /\ c.listed \in BOOLEAN
BY DEF Change

\* What a row is made of, and what a device gets to see of it.
LEMMA RowFacts ==
  ASSUME NEW row \in Row
  PROVE  /\ row.status \in {"active", "paused", "disabled"} /\ row.status # "absent"
         /\ row.target \in Devices /\ row.release \in Releases
         /\ row.next \in Nat /\ row.revision \in Nat
         /\ RecordOf(row) \in Record /\ RecordOf(row).revision = row.revision
         /\ RecordOf(row).release = row.release
BY DEF Row, RecordOf, Record

\* The table has rows, but for schedules that were never made.
LEMMA TableFacts ==
  ASSUME StoreTypeOK, NEW s \in Schedules
  PROVE  /\ Exists(s) <=> schedule[s] \in Row
         /\ ~Exists(s) => schedule[s] = NoSchedule
         /\ Listed(s) => Exists(s)
BY RowFacts DEF StoreTypeOK, Exists, Listed, NoSchedule

\* A change that makes a row known (mapScheduleRecord, insert into schedule_changes).
LEMMA UpsertFacts ==
  ASSUME StoreTypeOK, NEW s \in Schedules, NEW row \in Row
  PROVE  LET c == Upsert(s, row)
         IN  /\ c \in Change /\ c.op = "upsert" /\ c.schedule = s /\ c.target = row.target
             /\ c.revision = row.revision /\ c.at = now /\ c.record = RecordOf(row)
             /\ c.listed <=> row.status # "disabled"
<1>1. RecordOf(row) \in Record /\ row.target \in Devices /\ row.revision \in Nat
  BY RowFacts
<1>2. now \in Nat
  BY StoreBoundAssumption DEF StoreTypeOK
<1> QED BY <1>1, <1>2 DEF Upsert, Change

\* A change that takes one back.
LEMMA RemoveFacts ==
  ASSUME StoreTypeOK, NEW s \in Schedules, NEW d \in Devices, NEW n \in Nat
  PROVE  LET c == Remove(s, d, n)
         IN  /\ c \in Change /\ c.op = "remove" /\ c.schedule = s /\ c.target = d
             /\ c.revision = n /\ c.at = now
<1>1. now \in Nat
  BY StoreBoundAssumption DEF StoreTypeOK
<1> QED BY <1>1 DEF Remove, Change

\* The schedules S of workspace w are written under its next revision, the changes N are
\* logged: each row that is listed is told, each that a device loses is taken back.
Writes(w, S, N) ==
  /\ revision' = [revision EXCEPT ![w] = @ + 1]
  /\ changes' = changes \cup N
  /\ N \subseteq Change
  /\ \A n \in N :
       /\ n.schedule \in S /\ Workspace[n.target] = w
       /\ n.revision = revision[w] + 1 /\ n.at = now
       /\ n.op = "upsert" => n.record.revision = n.revision
       /\ n.op = "upsert" /\ n.listed => Owns(n.target, n.schedule)'
  /\ \A m, n \in N : m.schedule = n.schedule =>
       /\ m.target = n.target => m = n
       /\ m.op = "upsert" /\ n.op = "upsert" => m.record = n.record
  /\ schedule' \in [Schedules -> {NoSchedule} \cup Row]
  /\ \A s \in Schedules \ S : schedule'[s] = schedule[s]
  /\ \A s \in S :
       /\ schedule'[s] \in Row
       /\ schedule'[s].revision = revision[w] + 1 /\ Workspace[schedule'[s].target] = w
       /\ Exists(s) => Workspace[schedule[s].target] = w
       /\ Listed(s)' => \E n \in N : TellsRow(n, s)'
       /\ Listed(s) /\ ~(Listed(s)' /\ schedule'[s].target = schedule[s].target) =>
            \E n \in N : n.schedule = s /\ n.target = schedule[s].target

\* The new changes are later than all others of the workspace.
LEMMA WrittenRevisions ==
  ASSUME StoreTypeOK, RevisionInv, now' = now,
         NEW w \in Workspaces, NEW S \in SUBSET Schedules, NEW N, Writes(w, S, N)
  PROVE  RevisionInv'
<1>1. revision \in [Workspaces -> Nat] /\ changes \subseteq Change /\ now \in Nat
  BY StoreBoundAssumption DEF StoreTypeOK
<1>2. \A v \in Workspaces : revision'[v] = IF v = w THEN revision[v] + 1 ELSE revision[v]
  BY <1>1 DEF Writes
<1>3. Workspace \in [Devices -> Workspaces]
  BY WorkspaceAssumption
<1>4. ASSUME NEW c \in changes'
      PROVE  /\ c.revision \in 1 .. revision'[Workspace[c.target]] /\ c.at <= now'
             /\ Exists(c.schedule)'
             /\ Workspace[schedule'[c.schedule].target] = Workspace[c.target]
             /\ c.revision <= schedule'[c.schedule].revision
             /\ c.op = "upsert" => c.record.revision = c.revision
  <2>1. c \in Change /\ c.target \in Devices /\ c.schedule \in Schedules /\ c.revision \in Nat
    BY <1>1, <1>4, ChangeFacts DEF Writes
  <2>2. CASE c \in N
    <3>1. /\ c.schedule \in S /\ Workspace[c.target] = w /\ c.revision = revision[w] + 1 /\ c.at = now
          /\ c.op = "upsert" => c.record.revision = c.revision
      BY <2>2 DEF Writes
    <3>2. /\ schedule'[c.schedule] \in Row
          /\ schedule'[c.schedule].revision = revision[w] + 1
          /\ Workspace[schedule'[c.schedule].target] = w
      BY <3>1 DEF Writes
    <3>3. Exists(c.schedule)'
      BY <3>2, RowFacts DEF Exists
    <3> QED BY <1>1, <1>2, <2>1, <3>1, <3>2, <3>3
  <2>3. CASE c \notin N
    <3>1. c \in changes
      BY <1>4, <2>3 DEF Writes
    <3>2. /\ c.revision \in 1 .. revision[Workspace[c.target]] /\ c.at <= now
          /\ Exists(c.schedule)
          /\ Workspace[schedule[c.schedule].target] = Workspace[c.target]
          /\ c.revision <= schedule[c.schedule].revision
          /\ c.op = "upsert" => c.record.revision = c.revision
      BY <3>1 DEF RevisionInv
    <3>3. /\ revision[Workspace[c.target]] \in Nat /\ revision'[Workspace[c.target]] \in Nat
          /\ revision[Workspace[c.target]] <= revision'[Workspace[c.target]]
      BY <1>1, <1>2, <1>3, <2>1
    <3>6. /\ c.revision \in 1 .. revision'[Workspace[c.target]] /\ c.at <= now'
          /\ c.op = "upsert" => c.record.revision = c.revision
      BY <2>1, <3>2, <3>3
    <3>4. CASE c.schedule \notin S
      <4>1. schedule'[c.schedule] = schedule[c.schedule]
        BY <2>1, <3>4 DEF Writes
      <4> QED BY <3>2, <3>6, <4>1 DEF Exists
    <3>5. CASE c.schedule \in S
      <4>1. /\ schedule'[c.schedule] \in Row
            /\ schedule'[c.schedule].revision = revision[w] + 1
            /\ Workspace[schedule'[c.schedule].target] = w
            /\ Workspace[schedule[c.schedule].target] = w
        BY <3>2, <3>5 DEF Writes
      <4>2. Exists(c.schedule)'
        BY <4>1, RowFacts DEF Exists
      <4>3. c.revision <= revision[w] + 1
        <5>1. Workspace[c.target] = w
          BY <3>2, <4>1
        <5> QED BY <1>1, <2>1, <3>2, <5>1
      <4> QED BY <3>2, <3>6, <4>1, <4>2, <4>3
    <3> QED BY <3>4, <3>5
  <2> QED BY <2>2, <2>3
<1>5. ASSUME NEW s \in Schedules, Exists(s)'
      PROVE  schedule'[s].revision <= revision'[Workspace[schedule'[s].target]]
  <2>1. CASE s \in S
    BY <1>1, <1>2, <2>1 DEF Writes
  <2>2. CASE s \notin S
    <3>1. schedule'[s] = schedule[s] /\ Exists(s)
      BY <1>5, <2>2 DEF Writes, Exists
    <3>2. schedule[s] \in Row /\ schedule[s].target \in Devices /\ schedule[s].revision \in Nat
      BY <3>1, TableFacts, RowFacts
    <3>3. schedule[s].revision <= revision[Workspace[schedule[s].target]]
      BY <3>1 DEF RevisionInv
    <3>4. /\ revision[Workspace[schedule[s].target]] \in Nat
          /\ revision[Workspace[schedule[s].target]] <= revision'[Workspace[schedule[s].target]]
      BY <1>1, <1>2, <1>3, <3>2
    <3>5. revision'[Workspace[schedule[s].target]] \in Nat
      BY <1>1, <1>2, <1>3, <3>2
    <3> QED BY <3>1, <3>2, <3>3, <3>4, <3>5
  <2> QED BY <2>1, <2>2
<1> QED BY <1>4, <1>5 DEF RevisionInv

\* A revision is not taken twice.
LEMMA WrittenUnique ==
  ASSUME StoreTypeOK, RevisionInv, UniqueInv,
         NEW w \in Workspaces, NEW S \in SUBSET Schedules, NEW N, Writes(w, S, N)
  PROVE  UniqueInv'
<1>1. revision \in [Workspaces -> Nat] /\ changes \subseteq Change
  BY DEF StoreTypeOK
<1>2. ASSUME NEW c \in changes, NEW n \in N, c.schedule = n.schedule
      PROVE  c.revision < n.revision
  <2>1. n.schedule \in S /\ n.revision = revision[w] + 1 /\ revision[w] \in Nat
    BY <1>1 DEF Writes
  <2>2. c.revision \in 1 .. revision[Workspace[c.target]] /\ Exists(c.schedule)
        /\ Workspace[schedule[c.schedule].target] = Workspace[c.target]
    BY DEF RevisionInv
  <2>3. Workspace[c.target] = w
    BY <1>2, <2>1, <2>2 DEF Writes
  <2> QED BY <2>1, <2>2, <2>3
<1>3. ASSUME NEW c \in changes', NEW e \in changes', c.schedule = e.schedule, c.revision = e.revision
      PROVE  /\ c.target = e.target => c = e
             /\ c.op = "upsert" /\ e.op = "upsert" => c.record = e.record
  <2>1. c \in changes \cup N /\ e \in changes \cup N
    BY DEF Writes
  <2>2. \A x \in changes \cup N : x.revision \in Nat
    BY <1>1, ChangeFacts DEF Writes
  <2>3. CASE c \in changes /\ e \in changes
    BY <1>3, <2>3 DEF UniqueInv
  <2>4. CASE c \in N /\ e \in N
    BY <1>3, <2>4 DEF Writes
  <2>5. CASE c \in changes /\ e \in N
    BY <1>2, <1>3, <2>2, <2>5
  <2>6. CASE c \in N /\ e \in changes
    BY <1>2, <1>3, <2>2, <2>6
  <2> QED BY <2>1, <2>3, <2>4, <2>5, <2>6
<1> QED BY <1>3 DEF UniqueInv

\* What is written is in the log, and what a device loses is taken back there.
LEMMA WrittenTable ==
  ASSUME StoreTypeOK, RevisionInv, TableInv,
         NEW w \in Workspaces, NEW S \in SUBSET Schedules, NEW N, Writes(w, S, N)
  PROVE  TableInv'
<1>1. revision \in [Workspaces -> Nat] /\ changes \subseteq Change /\ changes \subseteq changes'
  BY DEF StoreTypeOK, Writes
<1>2. ASSUME NEW s \in Schedules, Listed(s)' PROVE \E c \in changes' : TellsRow(c, s)'
  <2>1. CASE s \in S
    BY <1>2, <2>1 DEF Writes
  <2>2. CASE s \notin S
    <3>1. schedule'[s] = schedule[s]
      BY <2>2 DEF Writes
    <3>2. PICK c \in changes : TellsRow(c, s)
      BY <1>2, <3>1 DEF TableInv, Listed
    <3>3. TellsRow(c, s)'
      BY <3>1, <3>2 DEF TellsRow
    <3> QED BY <1>1, <3>3
  <2> QED BY <2>1, <2>2
<1>3. ASSUME NEW c \in changes', c.op = "upsert", c.listed
      PROVE  \/ Owns(c.target, c.schedule)'
             \/ \E f \in changes' : /\ f.schedule = c.schedule /\ f.target = c.target
                                    /\ f.revision > c.revision
  <2>1. CASE c \in N
    BY <1>3, <2>1 DEF Writes
  <2>2. CASE c \notin N
    <3>1. c \in changes /\ c.schedule \in Schedules
      BY <1>1, <2>2, ChangeFacts DEF Writes
    <3>2. CASE \E f \in changes : /\ f.schedule = c.schedule /\ f.target = c.target
                                  /\ f.revision > c.revision
      BY <1>1, <3>2
    <3>3. CASE Owns(c.target, c.schedule)
      <4>1. CASE c.schedule \notin S
        BY <3>1, <3>3, <4>1 DEF Writes, Owns, Listed
      <4>2. CASE c.schedule \in S /\ ~Owns(c.target, c.schedule)'
        <5>0. /\ Listed(c.schedule) /\ schedule[c.schedule].target = c.target
              /\ ~(Listed(c.schedule)' /\ schedule'[c.schedule].target = schedule[c.schedule].target)
          <6>1. Listed(c.schedule) /\ schedule[c.schedule].target = c.target
            BY <3>3 DEF Owns
          <6>2. ~Owns(c.target, c.schedule)'
            BY <4>2
          <6> QED BY <6>1, <6>2 DEF Owns
        <5>1. PICK n \in N : n.schedule = c.schedule /\ n.target = c.target
          BY <4>2, <5>0 DEF Writes
        <5>2. n.revision = revision[w] + 1 /\ Workspace[c.target] = w /\ revision[w] \in Nat
          BY <1>1, <5>1 DEF Writes
        <5>3. c.revision \in 1 .. revision[w]
          BY <3>1, <5>2 DEF RevisionInv
        <5>4. n \in changes' /\ n.revision > c.revision
          BY <5>2, <5>3 DEF Writes
        <5> QED BY <5>1, <5>4
      <4> QED BY <4>1, <4>2
    <3> QED BY <1>3, <3>1, <3>2, <3>3 DEF TableInv
  <2> QED BY <2>1, <2>2
<1> QED BY <1>2, <1>3 DEF TableInv
-----------------------------------------------------------------------------
\* What any step does to the control plane's tables: time and revocations go on, and
\* the schedules stay as they are or are written under a new revision.
StoreMoves ==
  /\ now <= now'
  /\ \A d \in Devices : revoked'[d] \in {revoked[d], now}
  /\ \/ UNCHANGED <<schedule, revision, changes>>
     \/ /\ now' = now
        /\ \E w \in Workspaces, S \in SUBSET Schedules, N \in SUBSET Change : Writes(w, S, N)

\* One row is written (createSchedule, updateSchedule, setScheduleStatus).
LEMMA RowIsWritten ==
  ASSUME StoreTypeOK, NEW s \in Schedules, NEW row \in Row, NEW w \in Workspaces,
         Write(s, row, w), row.revision = revision[w] + 1, Workspace[row.target] = w,
         Exists(s) => Workspace[schedule[s].target] = w,
         NEW R, R \subseteq {Remove(s, schedule[s].target, row.revision)},
         R = {} <=> ~Exists(s) \/ schedule[s].target = row.target,
         changes' = changes \cup {Upsert(s, row)} \cup R
  PROVE  StoreTypeOK' /\ StoreMoves
<1> DEFINE c == Upsert(s, row)
           N == {c} \cup R
<1>1. /\ c \in Change /\ c.op = "upsert" /\ c.schedule = s /\ c.target = row.target
      /\ c.revision = row.revision /\ c.at = now /\ c.record = RecordOf(row)
      /\ c.listed <=> row.status # "disabled"
  BY UpsertFacts
<1>2. /\ row.status \in {"active", "paused", "disabled"} /\ row.target \in Devices
      /\ row.revision \in Nat /\ RecordOf(row).revision = row.revision
  BY RowFacts
<1>3. ASSUME NEW n \in R
      PROVE  /\ n \in Change /\ n.op = "remove" /\ n.schedule = s /\ n.target = schedule[s].target
             /\ n.revision = row.revision /\ n.at = now
             /\ Exists(s) /\ schedule[s].target # row.target
  <2>1. Exists(s) /\ schedule[s].target # row.target
    BY <1>3
  <2>2. schedule[s].target \in Devices
    BY <2>1, TableFacts, RowFacts
  <2>3. n = Remove(s, schedule[s].target, row.revision)
    BY <1>3
  <2> QED BY <1>2, <2>1, <2>2, <2>3, RemoveFacts
<1>4. \A m, n \in R : m = n
  OBVIOUS
<1>5. revision \in [Workspaces -> Nat] /\ changes \subseteq Change
      /\ schedule \in [Schedules -> {NoSchedule} \cup Row]
  BY DEF StoreTypeOK
<1>6. /\ revision' = [revision EXCEPT ![w] = @ + 1]
      /\ schedule' = [schedule EXCEPT ![s] = row]
      /\ now' = now /\ revoked' = revoked /\ grant' = grant
  BY DEF Write
<1>7. schedule'[s] = row /\ \A x \in Schedules \ {s} : schedule'[x] = schedule[x]
  BY <1>5, <1>6
<1> HIDE DEF c
<1>8. changes' = changes \cup N /\ N \subseteq Change
  BY <1>1, <1>3 DEF c
<1>9. StoreTypeOK'
  BY <1>5, <1>6, <1>8 DEF StoreTypeOK
<1>10. Writes(w, {s}, N)
  <2>1. ASSUME NEW n \in N
        PROVE  /\ n.schedule \in {s} /\ Workspace[n.target] = w
               /\ n.revision = revision[w] + 1 /\ n.at = now
               /\ n.op = "upsert" => n.record.revision = n.revision
               /\ n.op = "upsert" /\ n.listed => Owns(n.target, n.schedule)'
    <3>1. CASE n = c
      BY <1>1, <1>2, <1>7, <3>1 DEF Owns, Listed
    <3>2. CASE n \in R
      BY <1>3, <3>2
    <3> QED BY <3>1, <3>2
  <2>2. ASSUME NEW m \in N, NEW n \in N, m.schedule = n.schedule
        PROVE  /\ m.target = n.target => m = n
               /\ m.op = "upsert" /\ n.op = "upsert" => m.record = n.record
    <3>1. CASE m = c /\ n = c
      BY <3>1
    <3>2. CASE m \in R /\ n \in R
      BY <1>3, <1>4, <3>2
    <3>3. CASE (m = c /\ n \in R) \/ (m \in R /\ n = c)
      BY <1>1, <1>3, <3>3
    <3>4. m \in {c} \cup R /\ n \in {c} \cup R
      OBVIOUS
    <3> QED BY <3>1, <3>2, <3>3, <3>4
  <2>3. schedule' \in [Schedules -> {NoSchedule} \cup Row]
    BY <1>9 DEF StoreTypeOK
  <2>4. Listed(s)' => \E n \in N : TellsRow(n, s)'
    BY <1>1, <1>7 DEF Listed, TellsRow
  <2>5. Listed(s) /\ ~(Listed(s)' /\ schedule'[s].target = schedule[s].target) =>
          \E n \in N : n.schedule = s /\ n.target = schedule[s].target
    <3>1. ASSUME Listed(s), row.target # schedule[s].target
          PROVE  \E n \in N : n.schedule = s /\ n.target = schedule[s].target
      <4>1. R # {}
        BY <3>1, TableFacts
      <4>2. PICK n \in R : TRUE
        BY <4>1
      <4> QED BY <1>3, <4>2
    <3>2. ASSUME Listed(s), row.target = schedule[s].target
          PROVE  \E n \in N : n.schedule = s /\ n.target = schedule[s].target
      BY <1>1, <3>2
    <3> QED BY <3>1, <3>2
  <2> QED BY <1>6, <1>7, <1>8, <2>1, <2>2, <2>3, <2>4, <2>5 DEF Writes
<1>11. now <= now' /\ \A d \in Devices : revoked'[d] \in {revoked[d], now}
  BY <1>6, StoreBoundAssumption DEF StoreTypeOK
<1> QED BY <1>6, <1>8, <1>9, <1>10, <1>11 DEF StoreMoves

\* Schedules of a device are disabled (revokePermissionGrant, syncSchedules).
LEMMA SchedulesAreDisabled ==
  ASSUME StoreTypeOK, NEW d \in Devices, NEW S \in SUBSET Schedules,
         \A s \in S : Listed(s) /\ schedule[s].target = d,
         Disable(S, d), now' = now, revoked' = revoked, grant' \in [Devices -> [Releases -> Nat]]
  PROVE  /\ StoreTypeOK' /\ StoreMoves
         /\ \A s \in Schedules : IF s \in S THEN ~Listed(s)' ELSE schedule'[s] = schedule[s]
<1> DEFINE w == Workspace[d]
           rev == revision[w] + 1
           N == {Remove(s, d, rev) : s \in S}
<1>1. revision \in [Workspaces -> Nat] /\ changes \subseteq Change /\ now \in Nat
      /\ schedule \in [Schedules -> {NoSchedule} \cup Row] /\ w \in Workspaces
  BY StoreBoundAssumption, WorkspaceAssumption DEF StoreTypeOK
<1>2. now <= now' /\ \A e \in Devices : revoked'[e] \in {revoked[e], now}
  BY <1>1
<1>3. CASE S = {}
  <2>1. UNCHANGED <<schedule, revision, changes>>
    BY <1>3 DEF Disable
  <2> QED BY <1>1, <1>2, <1>3, <2>1 DEF StoreMoves, StoreTypeOK
<1>4. CASE S # {}
  <2>1. /\ revision' = [revision EXCEPT ![w] = rev]
        /\ schedule' = [s \in Schedules |->
                          IF s \in S THEN [schedule[s] EXCEPT !.status = "disabled", !.revision = rev]
                          ELSE schedule[s]]
        /\ changes' = changes \cup N
    BY <1>4 DEF Disable
  <2>2. rev \in Nat
    BY <1>1
  <2>3. ASSUME NEW s \in S
        PROVE  /\ schedule'[s] \in Row /\ schedule'[s].status = "disabled"
               /\ schedule'[s].revision = rev /\ schedule'[s].target = d
    <3>1. schedule[s] \in Row /\ schedule[s].target = d
      BY TableFacts
    <3> QED BY <2>1, <2>2, <3>1 DEF Row
  <2>4. \A s \in Schedules \ S : schedule'[s] = schedule[s]
    BY <2>1
  <2>5. ASSUME NEW n \in N
        PROVE  /\ n \in Change /\ n.op = "remove" /\ n.schedule \in S /\ n.target = d
               /\ n.revision = rev /\ n.at = now /\ n = Remove(n.schedule, d, rev)
    <3>1. PICK s \in S : n = Remove(s, d, rev)
      BY SMTT(45)
    <3> QED BY SMTT(45), <2>2, <3>1, RemoveFacts
  <2>6. \A s \in S : \E n \in N : n.schedule = s /\ n.target = d
    BY SMTT(45), <2>2, RemoveFacts
  <2>7. schedule' \in [Schedules -> {NoSchedule} \cup Row]
    BY ZenonT(60), <1>1, <2>1, <2>3, <2>4
  <2> HIDE DEF N
  <2>8. Writes(w, S, N)
    <3>1. \A s \in S : /\ ~Listed(s)' /\ Listed(s) /\ schedule[s].target = d
      BY <2>3 DEF Listed
    <3>2. \A n \in N : Workspace[n.target] = w
      BY <2>5
    <3>3. N \subseteq Change /\ \A m, n \in N : m.schedule = n.schedule => m = n
      BY <2>5
    <3>4. \A n \in N : /\ n.schedule \in S /\ n.revision = rev /\ n.at = now /\ n.op # "upsert"
      BY <2>5
    <3>5. \A s \in S : \E n \in N : n.schedule = s /\ n.target = schedule[s].target
      BY <2>6, <3>1
    <3> QED BY ZenonT(60), <2>1, <2>3, <2>4, <2>7, <3>1, <3>2, <3>3, <3>4, <3>5 DEF Writes
  <2>9. StoreTypeOK'
    BY <1>1, <2>1, <2>2, <2>5, <2>7 DEF StoreTypeOK
  <2>10. StoreMoves
    BY <1>1, <1>2, <2>5, <2>8 DEF StoreMoves
  <2>11. \A s \in S : ~Listed(s)'
    BY <2>3 DEF Listed
  <2> QED BY <2>4, <2>9, <2>10, <2>11
<1> QED BY <1>3, <1>4

\* Every operation of users is such a move.
LEMMA StoreStep ==
  ASSUME StoreTypeOK, RevisionInv, StoreNext
  PROVE  StoreTypeOK' /\ StoreMoves
<1>t. /\ now \in Nat /\ now \in 0 .. MaxTime /\ revoked \in [Devices -> Nat]
      /\ grant \in [Devices -> [Releases -> Nat]]
      /\ schedule \in [Schedules -> {NoSchedule} \cup Row]
      /\ revision \in [Workspaces -> Nat] /\ changes \subseteq Change
      /\ Workspace \in [Devices -> Workspaces] /\ MaxTime \in Nat
  BY StoreBoundAssumption, WorkspaceAssumption DEF StoreTypeOK
<1>1. ASSUME NEW s \in Schedules, NEW d \in Devices, NEW r \in Releases, NEW t \in Occurrences,
             CreateSchedule(s, d, r, t)
      PROVE  StoreTypeOK' /\ StoreMoves
  <2> DEFINE row == [status |-> "active", target |-> d, release |-> r, next |-> t,
                     revision |-> revision[Workspace[d]] + 1]
  <2>1. row \in Row /\ row.target = d /\ row.revision = revision[Workspace[d]] + 1
    BY <1>t, OccurrenceAssumption DEF Row
  <2>2. ~Exists(s) /\ Write(s, row, Workspace[d]) /\ changes' = changes \cup {Upsert(s, row)} \cup {}
    BY <1>1 DEF CreateSchedule
  <2> HIDE DEF row
  <2>3. Workspace[d] \in Workspaces /\ {} \subseteq {Remove(s, schedule[s].target, row.revision)}
    BY <1>t
  <2> QED BY <2>1, <2>2, <2>3, RowIsWritten
<1>2. ASSUME NEW s \in Schedules, NEW d \in Devices, NEW r \in Releases, NEW t \in Occurrences,
             UpdateSchedule(s, d, r, t)
      PROVE  StoreTypeOK' /\ StoreMoves
  <2> DEFINE row == [status |-> schedule[s].status, target |-> d, release |-> r, next |-> t,
                     revision |-> revision[Workspace[d]] + 1]
             R == IF d = schedule[s].target THEN {} ELSE {Remove(s, schedule[s].target, row.revision)}
  <2>1. schedule[s] \in Row
    BY <1>2, TableFacts DEF UpdateSchedule
  <2>2. row \in Row /\ row.target = d /\ row.revision = revision[Workspace[d]] + 1
    BY <1>t, <2>1, OccurrenceAssumption DEF Row
  <2>3. /\ Exists(s) /\ Workspace[schedule[s].target] = Workspace[d] /\ Write(s, row, Workspace[d])
        /\ changes' = changes \cup {Upsert(s, row)} \cup R
    BY <1>2 DEF UpdateSchedule
  <2> HIDE DEF row
  <2>4. /\ R \subseteq {Remove(s, schedule[s].target, row.revision)}
        /\ R = {} <=> ~Exists(s) \/ schedule[s].target = row.target
    BY <2>2, <2>3
  <2> HIDE DEF R
  <2> QED BY <1>t, <2>2, <2>3, <2>4, RowIsWritten
<1>3. ASSUME NEW s \in Schedules, NEW status \in {"active", "paused"}, SetStatus(s, status)
      PROVE  StoreTypeOK' /\ StoreMoves
  <2> DEFINE w == Workspace[schedule[s].target]
             row == [schedule[s] EXCEPT !.status = status, !.revision = revision[w] + 1]
  <2>1. schedule[s] \in Row /\ w \in Workspaces
    BY <1>3, <1>t, TableFacts, RowFacts DEF SetStatus
  <2>2. row \in Row /\ row.target = schedule[s].target /\ row.revision = revision[w] + 1
    <3>1. revision[w] + 1 \in Nat
      BY <1>t, <2>1
    <3> HIDE DEF w
    <3> QED BY <2>1, <3>1 DEF Row
  <2>3. Exists(s) /\ Write(s, row, w) /\ changes' = changes \cup {Upsert(s, row)} \cup {}
    BY <1>3 DEF SetStatus
  <2>4. Workspace[row.target] = w /\ {} \subseteq {Remove(s, schedule[s].target, row.revision)}
    BY <2>2
  <2> HIDE DEF row, w
  <2> QED BY <2>1, <2>2, <2>3, <2>4, RowIsWritten
<1>4. ASSUME NEW d \in Devices, NEW r \in Releases, NEW expires \in 1 .. Forever,
             ApprovePermissionGrant(d, r, expires)
      PROVE  StoreTypeOK' /\ StoreMoves
  <2>1. grant' \in [Devices -> [Releases -> Nat]]
    BY <1>4, <1>t DEF ApprovePermissionGrant, Forever
  <2> QED BY <1>4, <1>t, <2>1 DEF ApprovePermissionGrant, StoreTypeOK, StoreMoves
<1>5. ASSUME NEW d \in Devices, NEW r \in Releases, RevokePermissionGrant(d, r)
      PROVE  StoreTypeOK' /\ StoreMoves
  <2> DEFINE S == {s \in Schedules : Listed(s) /\ schedule[s].target = d /\ schedule[s].release = r}
  <2>1. grant' \in [Devices -> [Releases -> Nat]]
    BY <1>5, <1>t DEF RevokePermissionGrant
  <2>2. Disable(S, d) /\ now' = now /\ revoked' = revoked
    BY <1>5 DEF RevokePermissionGrant
  <2>3. S \in SUBSET Schedules /\ \A s \in S : Listed(s) /\ schedule[s].target = d
    OBVIOUS
  <2> HIDE DEF S
  <2> QED BY <2>1, <2>2, <2>3, SchedulesAreDisabled
<1>6. ASSUME NEW d \in Devices, RevokeDevice(d) PROVE StoreTypeOK' /\ StoreMoves
  BY <1>6, <1>t DEF RevokeDevice, StoreTypeOK, StoreMoves
<1>7. ASSUME Tick PROVE StoreTypeOK' /\ StoreMoves
  BY <1>7, <1>t DEF Tick, StoreTypeOK, StoreMoves
<1> QED BY <1>1, <1>2, <1>3, <1>4, <1>5, <1>6, <1>7 DEF StoreNext, PauseSchedule, ResumeSchedule

\* The log stays true of the table.
LEMMA LogKept ==
  ASSUME StoreTypeOK, StoreTypeOK', LogInv, StoreMoves
  PROVE  LogInv'
<1>1. CASE UNCHANGED <<schedule, revision, changes>>
  <2>1. now \in Nat /\ now <= now' /\ \A c \in changes : c.at \in Nat
    BY StoreBoundAssumption, ChangeFacts DEF StoreTypeOK, StoreMoves
  <2>0. \A c \in changes : c.at <= now => c.at <= now'
    <3>1. now' \in Nat
      BY StoreBoundAssumption DEF StoreTypeOK
    <3> QED BY <2>1, <3>1
  <2>2. RevisionInv'
    BY <1>1, <2>0 DEF LogInv, RevisionInv, Exists
  <2>3. UniqueInv' /\ TableInv'
    BY <1>1 DEF LogInv, UniqueInv, TableInv, TellsRow, Owns, Listed
  <2> QED BY <2>2, <2>3 DEF LogInv
<1>2. CASE now' = now /\ \E w \in Workspaces, S \in SUBSET Schedules, N \in SUBSET Change : Writes(w, S, N)
  BY <1>2, WrittenRevisions, WrittenUnique, WrittenTable DEF LogInv
<1> QED BY <1>1, <1>2 DEF StoreMoves
-----------------------------------------------------------------------------
(***************************************************************************)
(* Types.                                                                  *)
(***************************************************************************)

\* An exchange is under way only for an enrolled machine that has no claims left.
PlaceInv ==
  /\ enrolled => dev \in Devices
  /\ exchange # Idle => enrolled /\ claimed = {}

\* The lease that the Agent stores for schedule s.
TheLease(s) == CHOOSE l \in LeasesOf(s) : TRUE

\* The answer's parts.
LEMMA AnswerFacts ==
  ASSUME TypeOK, exchange.stage = "signing"
  PROVE  /\ exchange # Idle
         /\ exchange \in [stage : {"signing"}, kind : {"snapshot", "delta"}, to : Nat,
                          unsigned : SUBSET Entries, signed : SUBSET Claim,
                          removed : SUBSET Schedules]
BY DEF TypeOK, Exchange, Idle

\* What a claim, or a signed record, is made of.
LEMMA ClaimFacts ==
  ASSUME NEW c \in Claim
  PROVE  /\ c.schedule \in Schedules /\ c.lease \in Lease
         /\ c.lease.device \in Devices /\ c.lease.record \in Record
         /\ c.lease.issued \in Nat /\ c.lease.expires \in Nat
         /\ c.lease.record.revision \in Nat /\ c.lease.record.next \in Nat
         /\ c.lease.record.enabled \in BOOLEAN
         /\ Entry(c.schedule, c.lease.record) \in Entries
BY DEF Claim, Lease, Record, Entry, Entries

\* What a row of the Agent's table is made of.
LEMMA CopyFacts ==
  ASSUME TypeOK, NEW s \in Schedules, Held(s)
  PROVE  /\ copy[s] \in Copied /\ copy[s].lease \in Lease
         /\ copy[s].next \in Nat /\ copy[s].enabled \in BOOLEAN
         /\ copy[s].lease.record \in Record /\ copy[s].lease.record.revision \in Nat
         /\ copy[s].lease.record.next \in Nat /\ copy[s].lease.device \in Devices
BY DEF TypeOK, Held, Copied, Lease, Record

\* The lease that an answer has for a schedule is one of those it signed.
LEMMA TheLeaseFacts ==
  ASSUME TypeOK, exchange.stage = "signing", NEW s \in Schedules
  PROVE  /\ LeasesOf(s) = {} => \A c \in exchange.signed : c.schedule # s
         /\ LeasesOf(s) # {} =>
              /\ TheLease(s) \in Lease
              /\ \E c \in exchange.signed : c.schedule = s /\ c.lease = TheLease(s)
              /\ Inserted(TheLease(s)) \in Copied /\ Inserted(TheLease(s)) # NoCopy
<1>1. exchange.signed \subseteq Claim
  BY AnswerFacts
<1>2. LeasesOf(s) = {} => \A c \in exchange.signed : c.schedule # s
  BY DEF LeasesOf
<1>3. ASSUME LeasesOf(s) # {}
      PROVE  /\ TheLease(s) \in Lease
             /\ \E c \in exchange.signed : c.schedule = s /\ c.lease = TheLease(s)
  <2>1. TheLease(s) \in LeasesOf(s)
    BY <1>3 DEF TheLease
  <2>2. PICK c \in exchange.signed : c.schedule = s /\ c.lease = TheLease(s)
    BY <2>1 DEF LeasesOf
  <2> QED BY <1>1, <2>2, ClaimFacts
<1>4. ASSUME NEW l \in Lease PROVE Inserted(l) \in Copied /\ Inserted(l) # NoCopy
  BY <1>4 DEF Inserted, Copied, NoCopy, Lease, Record
<1> QED BY <1>2, <1>3, <1>4

\* What the API sends is made of records.
LEMMA SentTypes ==
  ASSUME StoreTypeOK, NEW d \in Devices, NEW from \in Nat, NEW log \in SUBSET Change
  PROVE  /\ SnapshotFor(d) \subseteq Entries
         /\ Upserts(d, from, log) \subseteq Entries
         /\ Removed(d, from, log) \subseteq Schedules
<1>1. SnapshotFor(d) \subseteq Entries
  BY TableFacts, RowFacts DEF SnapshotFor, Authorized, Entry, Entries
<1>2. \A c \in Since(d, from, log) : c \in Change
  BY DEF Since
<1>3. \A c \in LastSince(d, from, log) : c \in Change
  BY <1>2 DEF LastSince
<1>4. Upserts(d, from, log) \subseteq Entries
  BY <1>3, ChangeFacts DEF Upserts, Entry, Entries
<1>5. Removed(d, from, log) \subseteq Schedules
  BY <1>2, ChangeFacts DEF Removed
<1> QED BY <1>1, <1>4, <1>5

\* An answer under way is an exchange.
LEMMA SigningType ==
  ASSUME NEW kind \in {"snapshot", "delta"}, NEW to \in Nat, NEW records \in SUBSET Entries,
         NEW removed \in SUBSET Schedules
  PROVE  Signing(kind, to, records, removed) \in Exchange
BY DEF Signing, Exchange

\* A lease is for the device that asked, and runs out in time (authorizeScheduleRecord).
LEMMA LeaseForType ==
  ASSUME StoreTypeOK, dev \in Devices, NEW e \in Entries
  PROVE  /\ LeaseFor(e) \in Lease
         /\ LeaseFor(e).device = dev /\ LeaseFor(e).record = e.record
         /\ LeaseFor(e).issued = now /\ LeaseFor(e).expires <= now + TTL
<1>1. now \in Nat /\ TTL \in Nat /\ e.record \in Record
  BY StoreBoundAssumption, SyncAssumption DEF StoreTypeOK, Entries
<1>2. e.record.release \in Releases
  BY <1>1 DEF Record
<1>3. grant[dev][e.record.release] \in Nat
  BY <1>2 DEF StoreTypeOK
<1> DEFINE n == IF now + TTL < grant[dev][e.record.release] \/ grant[dev][e.record.release] = Forever
                THEN now + TTL ELSE grant[dev][e.record.release]
<1>4. n \in Nat /\ n <= now + TTL
  BY <1>1, <1>3
<1>5. LeaseFor(e) = [device |-> dev, record |-> e.record, issued |-> now, expires |-> n]
  BY DEF LeaseFor
<1> HIDE DEF n
<1> QED BY <1>1, <1>4, <1>5 DEF Lease

\* Every step moves the control plane's tables as StoreMoves says, and keeps the types.
LEMMA EveryStepMoves ==
  ASSUME TypeOK, PlaceInv, RevisionInv, [Next]_vars
  PROVE  StoreTypeOK' /\ StoreMoves
<1>t. StoreTypeOK /\ now \in Nat /\ changes \subseteq Change /\ grant \in [Devices -> [Releases -> Nat]]
  BY StoreBoundAssumption DEF TypeOK, StoreTypeOK
<1>1. ASSUME UNCHANGED storeVars PROVE StoreTypeOK' /\ StoreMoves
  BY <1>1, <1>t DEF storeVars, StoreTypeOK, StoreMoves
<1>2. CASE StoreNext
  BY <1>2, <1>t, StoreStep
<1>3. ASSUME enrolled, Disable(Unauthorized(dev), dev), UNCHANGED <<now, revoked, grant>>
      PROVE  StoreTypeOK' /\ StoreMoves
  <2>1. dev \in Devices
    BY <1>3 DEF PlaceInv
  <2>2. Unauthorized(dev) \in SUBSET Schedules
        /\ \A s \in Unauthorized(dev) : Listed(s) /\ schedule[s].target = dev
    BY DEF Unauthorized
  <2>3. now' = now /\ revoked' = revoked /\ grant' \in [Devices -> [Releases -> Nat]]
    BY <1>3, <1>t
  <2> QED BY <1>3, <1>t, <2>1, <2>2, <2>3, SchedulesAreDisabled
<1>4. CASE SyncSchedules
  BY <1>3, <1>4 DEF SyncSchedules, Ready
<1>5. CASE RefreshSchedules
  BY <1>3, <1>5 DEF RefreshSchedules, PlaceInv, Idle
<1>6. CASE exchange.stage = "signing" /\ \E e \in exchange.unsigned : AuthorizeScheduleRecord(e)
  BY <1>1, <1>6 DEF AuthorizeScheduleRecord
<1>7. CASE SyncFails
  BY <1>1, <1>7 DEF SyncFails
<1>8. CASE AgentNext
  BY <1>1, <1>8 DEF AgentNext, ReplaceSchedules, RefreshLeases, ApplyDelta, SyncSucceeds, MarkOffline,
     ClaimDueSchedules, Run, Skip, AgentRestarts, ClearDeviceRegistration, PersistDeviceRegistration
<1>9. CASE UNCHANGED vars
  BY <1>1, <1>9 DEF vars
<1> QED BY <1>2, <1>4, <1>5, <1>6, <1>7, <1>8, <1>9 DEF Next, ExchangeNext

\* The machine's place and the types of its tables are kept.
LEMMA TypesKept ==
  ASSUME TypeOK, PlaceInv, RevisionInv, [Next]_vars
  PROVE  TypeOK' /\ PlaceInv'
<1>s. StoreTypeOK /\ StoreTypeOK'
  BY EveryStepMoves DEF TypeOK
<1>t. /\ enrolled \in BOOLEAN /\ dev \in Devices \cup {NoDevice}
      /\ copy \in [Schedules -> {NoCopy} \cup Copied]
      /\ at \in Nat /\ synced \in BOOLEAN /\ offline \in BOOLEAN /\ exchange \in Exchange
      /\ claimed \subseteq Claim /\ built \in Nat /\ ran \subseteq Execution
  BY DEF TypeOK
<1>n. /\ now \in Nat /\ now' \in Nat /\ revision' \in [Workspaces -> Nat] /\ changes' \subseteq Change
      /\ \A d \in Devices : revision'[Workspace[d]] \in Nat
  BY <1>s, StoreBoundAssumption, WorkspaceAssumption DEF StoreTypeOK
<1>i. Idle \in Exchange
  BY DEF Exchange
<1>1. CASE UNCHANGED <<agentVars, exchange>>
  BY <1>1, <1>s, <1>t DEF agentVars, TypeOK, PlaceInv
<1>2. CASE SyncSchedules
  <2>1. dev \in Devices /\ enrolled /\ claimed = {}
    BY <1>2 DEF SyncSchedules, Ready, PlaceInv
  <2>2. exchange' \in Exchange
    <3> DEFINE from == IF synced THEN at ELSE Whole
               to   == revision'[Workspace[dev]]
    <3>1. exchange' =
            IF from = Whole THEN Signing("snapshot", to, SnapshotFor(dev), {})
            ELSE IF from = to THEN [stage |-> "refreshing"]
            ELSE Signing("delta", to, Upserts(dev, from, changes'), Removed(dev, from, changes'))
      BY <1>2 DEF SyncSchedules
    <3>2. to \in Nat /\ (from # Whole => from \in Nat)
      BY <1>n, <1>t, <2>1
    <3>3. SnapshotFor(dev) \subseteq Entries
      BY <1>s, <1>n, <2>1, SentTypes
    <3>4. from # Whole => /\ Upserts(dev, from, changes') \subseteq Entries
                          /\ Removed(dev, from, changes') \subseteq Schedules
      BY <1>s, <1>n, <2>1, <3>2, SentTypes
    <3> HIDE DEF from, to
    <3>5. CASE from = Whole
      BY <3>1, <3>2, <3>3, <3>5, SigningType
    <3>6. CASE from # Whole /\ from = to
      BY <3>1, <3>6 DEF Exchange
    <3>7. CASE from # Whole /\ from # to
      BY <3>1, <3>2, <3>4, <3>7, SigningType
    <3> QED BY <3>5, <3>6, <3>7
  <2>3. UNCHANGED agentVars
    BY <1>2 DEF SyncSchedules
  <2> QED BY <1>s, <1>t, <2>1, <2>2, <2>3 DEF agentVars, TypeOK, PlaceInv
<1>3. CASE RefreshSchedules
  <2>1. enrolled /\ dev \in Devices /\ claimed = {}
    BY <1>3 DEF RefreshSchedules, PlaceInv, Idle
  <2>2. /\ exchange' = Signing("snapshot", revision'[Workspace[dev]], SnapshotFor(dev), {})
        /\ UNCHANGED agentVars
    BY <1>3 DEF RefreshSchedules
  <2>3. exchange' \in Exchange
    BY <1>s, <1>n, <2>1, <2>2, SentTypes, SigningType
  <2> QED BY <1>s, <1>t, <2>1, <2>2, <2>3 DEF agentVars, TypeOK, PlaceInv
<1>4. ASSUME exchange.stage = "signing", NEW e \in exchange.unsigned, AuthorizeScheduleRecord(e)
      PROVE  TypeOK' /\ PlaceInv'
  <2>1. /\ exchange # Idle
        /\ exchange \in [stage : {"signing"}, kind : {"snapshot", "delta"}, to : Nat,
                         unsigned : SUBSET Entries, signed : SUBSET Claim, removed : SUBSET Schedules]
    BY <1>4, AnswerFacts
  <2>2. enrolled /\ dev \in Devices /\ claimed = {}
    BY <2>1 DEF PlaceInv
  <2>3. LeaseFor(e) \in Lease /\ e.schedule \in Schedules
    BY <1>s, <2>1, <2>2, LeaseForType DEF Entries
  <2>4. /\ exchange' = [exchange EXCEPT !.unsigned = @ \ {e},
                           !.signed = @ \cup {[schedule |-> e.schedule, lease |-> LeaseFor(e)]}]
        /\ UNCHANGED agentVars
    BY <1>4 DEF AuthorizeScheduleRecord
  <2>5. [schedule |-> e.schedule, lease |-> LeaseFor(e)] \in Claim
    BY <2>3 DEF Claim
  <2>6. exchange' \in [stage : {"signing"}, kind : {"snapshot", "delta"}, to : Nat,
                       unsigned : SUBSET Entries, signed : SUBSET Claim, removed : SUBSET Schedules]
    BY <2>1, <2>4, <2>5
  <2>7. exchange' \in Exchange
    BY <2>6 DEF Exchange
  <2> QED BY <1>s, <1>t, <2>2, <2>4, <2>7 DEF agentVars, TypeOK, PlaceInv
<1>5. CASE SyncFails
  BY <1>5, <1>s, <1>t, <1>i DEF SyncFails, TypeOK, PlaceInv
<1>6. ASSUME exchange.stage = "signing", SyncSucceeds(exchange.to), built' \in {built, exchange.to},
             copy' \in [Schedules -> {NoCopy} \cup Copied]
      PROVE  TypeOK' /\ PlaceInv'
  <2>1. exchange.to \in Nat
    BY <1>6, AnswerFacts
  <2> QED BY <1>6, <1>s, <1>t, <1>i, <2>1 DEF SyncSucceeds, TypeOK, PlaceInv
<1>7. CASE ReplaceSchedules
  <2>1. exchange.stage = "signing"
    BY <1>7 DEF ReplaceSchedules, Answered
  <2>2. copy' \in [Schedules -> {NoCopy} \cup Copied]
    BY <1>7, <2>1, TheLeaseFacts DEF ReplaceSchedules, TheLease
  <2> QED BY <1>6, <1>7, <2>1, <2>2 DEF ReplaceSchedules
<1>8. CASE RefreshLeases
  <2>1. exchange.stage = "signing"
    BY <1>8 DEF RefreshLeases, Answered
  <2>2. ASSUME NEW s \in Schedules, LeasesOf(s) # {}, Held(s)
        PROVE  [copy[s] EXCEPT !.lease = TheLease(s)] \in Copied
    BY <2>1, <2>2, TheLeaseFacts, CopyFacts DEF Copied
  <2>3. copy' \in [Schedules -> {NoCopy} \cup Copied]
    BY <1>8, <1>t, <2>2 DEF RefreshLeases, TheLease, Held
  <2> QED BY <1>6, <1>8, <2>1, <2>3 DEF RefreshLeases
<1>9. CASE ApplyDelta
  <2>1. exchange.stage = "signing"
    BY <1>9 DEF ApplyDelta, Answered
  <2>2. copy' \in [Schedules -> {NoCopy} \cup Copied]
    BY <1>9, <1>t, <2>1, TheLeaseFacts DEF ApplyDelta, TheLease
  <2> QED BY <1>6, <1>9, <2>1, <2>2 DEF ApplyDelta
<1>10. CASE MarkOffline
  BY <1>10, <1>s, <1>t DEF MarkOffline, TypeOK, PlaceInv
<1>11. CASE ClaimDueSchedules
  <2>1. NextOccurrence \in Nat
    BY <1>n, SyncAssumption DEF NextOccurrence
  <2>2. ASSUME NEW s \in Schedules, Held(s)
        PROVE  /\ [copy[s] EXCEPT !.next = NextOccurrence] \in Copied
               /\ [copy[s] EXCEPT !.enabled = FALSE] \in Copied
    BY <2>1, <2>2, CopyFacts DEF Copied
  <2>3. copy' \in [Schedules -> {NoCopy} \cup Copied]
    BY <1>11, <1>t, <2>2 DEF ClaimDueSchedules, Due
  <2>4. claimed' \subseteq Claim
    BY <1>11, CopyFacts DEF ClaimDueSchedules, Due, Claim
  <2> QED BY <1>11, <1>s, <1>t, <2>3, <2>4 DEF ClaimDueSchedules, Ready, TypeOK, PlaceInv
<1>12. ASSUME NEW c \in claimed, Run(c) PROVE TypeOK' /\ PlaceInv'
  <2>1. ExecutionOf(c) \in Execution
    BY <1>t, ClaimFacts DEF ExecutionOf, Execution
  <2> QED BY <1>12, <1>s, <1>t, <2>1 DEF Run, TypeOK, PlaceInv
<1>13. ASSUME NEW c \in claimed, Skip(c) PROVE TypeOK' /\ PlaceInv'
  BY <1>13, <1>s, <1>t DEF Skip, TypeOK, PlaceInv
<1>14. CASE AgentRestarts
  BY <1>14, <1>s, <1>t, <1>i DEF AgentRestarts, TypeOK, PlaceInv
<1>15. CASE ClearDeviceRegistration
  BY <1>15, <1>s, <1>t DEF ClearDeviceRegistration, Ready, TypeOK, PlaceInv
<1>16. ASSUME NEW d \in Devices, PersistDeviceRegistration(d) PROVE TypeOK' /\ PlaceInv'
  BY <1>16, <1>s, <1>t DEF PersistDeviceRegistration, TypeOK, PlaceInv
<1>17. CASE UNCHANGED vars
  BY <1>17, <1>1 DEF vars
<1> QED BY <1>1, <1>2, <1>3, <1>4, <1>5, <1>7, <1>8, <1>9, <1>10, <1>11, <1>12, <1>13, <1>14, <1>15,
           <1>16, <1>17 DEF Next, ExchangeNext, AgentNext

\* A new database and a machine that was never enrolled.
LEMMA ScheduleStarts ==
  Init => TypeOK /\ PlaceInv /\ LogInv
<1> SUFFICES ASSUME Init PROVE TypeOK /\ PlaceInv /\ LogInv
  OBVIOUS
<1>1. StoreTypeOK
  BY StoreBoundAssumption DEF Init, StoreInit, StoreTypeOK, Never
<1>2. TypeOK /\ PlaceInv
  BY <1>1, SyncAssumption DEF Init, TypeOK, PlaceInv, Exchange
<1>3. LogInv
  BY DEF Init, StoreInit, LogInv, RevisionInv, UniqueInv, TableInv, Exists, Listed, NoSchedule
<1> QED BY <1>2, <1>3

\* The log and the table agree in every reachable state.
THEOREM ScheduleLogInvariant == Spec => [](TypeOK /\ PlaceInv /\ LogInv)
<1>1. TypeOK /\ PlaceInv /\ LogInv /\ [Next]_vars => (TypeOK /\ PlaceInv /\ LogInv)'
  <2> SUFFICES ASSUME TypeOK, PlaceInv, LogInv, [Next]_vars PROVE TypeOK' /\ PlaceInv' /\ LogInv'
    OBVIOUS
  <2>1. TypeOK' /\ PlaceInv'
    BY TypesKept DEF LogInv
  <2>2. StoreTypeOK /\ StoreTypeOK' /\ StoreMoves
    BY EveryStepMoves DEF LogInv, TypeOK
  <2> QED BY <2>1, <2>2, LogKept
<1> QED BY <1>1, ScheduleStarts, PTL DEF Spec

\* The tables of both sides, requests, claims and executions hold what their columns allow.
THEOREM ScheduleTypeCorrect == Spec => []TypeOK
BY ScheduleLogInvariant, PTL
-----------------------------------------------------------------------------
(***************************************************************************)
(* The log and the table.                                                  *)
(***************************************************************************)

\* Change c is what the log has for device d and its schedule at revision k.
Shows(c, d, k) ==
  /\ c.target = d /\ c.revision <= k /\ c.op = "upsert" /\ c.listed
  /\ \A f \in changes : f.target = d /\ f.schedule = c.schedule /\ f.revision <= k => f.revision <= c.revision

\* What was published is what some change shows.
LEMMA PublishedFacts ==
  ASSUME NEW d, NEW k
  PROVE  \A x : x \in Published(d, k) <=> \E c \in changes : Shows(c, d, k) /\ x = Entry(c.schedule, c.record)
BY DEF Published, Shows

\* The rows of a device are what the log has for it now.
LEMMA LogTellsRows ==
  ASSUME StoreTypeOK, LogInv, NEW d \in Devices
  PROVE  Published(d, revision[Workspace[d]]) =
           {Entry(s, RecordOf(schedule[s])) : s \in {x \in Schedules : Listed(x) /\ schedule[x].target = d}}
<1> DEFINE k == revision[Workspace[d]]
           rows == {x \in Schedules : Listed(x) /\ schedule[x].target = d}
<1>t. changes \subseteq Change /\ k \in Nat
  BY WorkspaceAssumption DEF StoreTypeOK
<1>r. RevisionInv /\ UniqueInv /\ TableInv
  BY DEF LogInv
<1>n. \A c \in changes : c.schedule \in Schedules /\ c.revision \in Nat
  BY <1>t, ChangeFacts
<1>m. \A c \in changes : c.target = d => c.revision <= k
  BY <1>n, <1>r, <1>t DEF RevisionInv
<1> HIDE DEF k
<1>1. ASSUME NEW c \in changes, Shows(c, d, k)
      PROVE  c.schedule \in rows /\ c.record = RecordOf(schedule[c.schedule])
  <2>1. c.op = "upsert" /\ c.listed /\ c.target = d
    BY <1>1 DEF Shows
  <2>2. ~ \E f \in changes : f.schedule = c.schedule /\ f.target = d /\ f.revision > c.revision
    BY <1>1, <1>m, <1>n DEF Shows
  <2>3. Owns(d, c.schedule)
    BY <1>r, <2>1, <2>2 DEF TableInv
  <2>4. c.schedule \in rows
    BY <1>n, <2>3 DEF Owns
  <2>5. PICK e \in changes : TellsRow(e, c.schedule)
    BY <1>r, <2>4 DEF TableInv
  <2>6. /\ e.target = d /\ e.schedule = c.schedule /\ e.record = RecordOf(schedule[c.schedule])
        /\ c.revision <= e.revision
    BY <1>r, <2>4, <2>5 DEF TellsRow, RevisionInv
  <2>7. e.revision <= c.revision
    BY <1>1, <1>m, <2>6 DEF Shows
  <2>8. c = e
    BY <1>n, <1>r, <2>1, <2>6, <2>7 DEF UniqueInv
  <2> QED BY <2>4, <2>6, <2>8
<1>2. ASSUME NEW s \in rows
      PROVE  \E c \in changes : Shows(c, d, k) /\ c.schedule = s /\ c.record = RecordOf(schedule[s])
  <2>1. PICK c \in changes : TellsRow(c, s)
    BY <1>r DEF TableInv
  <2>2. \A f \in changes : f.schedule = s => f.revision <= c.revision
    BY <1>r, <2>1 DEF RevisionInv, TellsRow
  <2>3. c.target = d
    BY <2>1 DEF TellsRow
  <2> QED BY <1>m, <2>1, <2>2, <2>3 DEF Shows, TellsRow
<1>3. \A x : x \in Published(d, k) <=> \E s \in rows : x = Entry(s, RecordOf(schedule[s]))
  BY <1>1, <1>2, PublishedFacts
<1> QED BY <1>3 DEF k

\* The changes that deltas are made of tell what the rows tell that snapshots are made
\* of, in every reachable state (schedule_changes and schedules in the database).
THEOREM LogAndTableAgree == Spec => []LogTellsTheTable
<1>1. TypeOK /\ PlaceInv /\ LogInv => LogTellsTheTable
  BY LogTellsRows DEF TypeOK, LogTellsTheTable
<1> QED BY <1>1, ScheduleLogInvariant, PTL
-----------------------------------------------------------------------------
(***************************************************************************)
(* The Agent.                                                              *)
(***************************************************************************)

\* Nothing is taken out of the log, and what comes into it is new.
LEMMA MoveFacts ==
  ASSUME StoreTypeOK, StoreTypeOK', StoreMoves
  PROVE  /\ now \in Nat /\ now' \in Nat /\ now <= now'
         /\ changes \subseteq changes'
         /\ \A h \in changes' \ changes : h.at = now /\ h.revision > revision[Workspace[h.target]]
         /\ \A w \in Workspaces : /\ revision[w] \in Nat /\ revision'[w] \in Nat
                                  /\ revision[w] <= revision'[w]
<1>1. /\ now \in Nat /\ now' \in Nat /\ revision \in [Workspaces -> Nat]
      /\ revision' \in [Workspaces -> Nat]
  BY StoreBoundAssumption DEF StoreTypeOK
<1>2. CASE UNCHANGED <<schedule, revision, changes>>
  BY <1>1, <1>2 DEF StoreMoves
<1>3. CASE \E w \in Workspaces, S \in SUBSET Schedules, N \in SUBSET Change : Writes(w, S, N)
  <2>1. PICK w \in Workspaces, S \in SUBSET Schedules, N \in SUBSET Change : Writes(w, S, N)
    BY <1>3
  <2>2. /\ revision' = [revision EXCEPT ![w] = @ + 1] /\ changes' = changes \cup N
        /\ \A n \in N : Workspace[n.target] = w /\ n.revision = revision[w] + 1 /\ n.at = now
    BY <2>1 DEF Writes
  <2> QED BY <1>1, <2>2 DEF StoreMoves
<1> QED BY <1>2, <1>3 DEF StoreMoves

\* A lease stays sound: what supersedes its record, or revokes its device, comes later.
LEMMA SoundKept ==
  ASSUME StoreTypeOK, StoreTypeOK', StoreMoves, NEW s, NEW l \in Lease, LeaseSound(s, l)
  PROVE  LeaseSound(s, l)'
<1>1. l.issued \in Nat /\ l.device \in Devices
  BY DEF Lease
<1>2. l.issued <= revoked'[l.device]
  BY <1>1 DEF LeaseSound, StoreMoves
<1>3. l.issued <= now'
  BY <1>1, MoveFacts DEF LeaseSound
<1>4. Decided(s, l.device, l.record)'
  BY MoveFacts DEF LeaseSound, Decided
<1>5. \A h \in changes' : h.schedule = s /\ h.revision > l.record.revision => l.issued <= h.at
  BY MoveFacts DEF LeaseSound
<1> QED BY <1>2, <1>3, <1>4, <1>5 DEF LeaseSound

\* What the Agent holds stays sound while it leaves it alone.
LEMMA HeldKept ==
  ASSUME TypeOK, TypeOK', StoreMoves, HeldInv, UNCHANGED <<copy, at, built>>
  PROVE  HeldInv'
<1>1. ASSUME NEW s \in Schedules, Held(s)'
      PROVE  (LeaseSound(s, copy[s].lease) /\ copy[s].lease.record.revision <= at)'
  <2>1. Held(s) /\ copy' = copy /\ at' = at
    BY <1>1 DEF Held
  <2>2. LeaseSound(s, copy[s].lease) /\ copy[s].lease.record.revision <= at
    BY <2>1 DEF HeldInv
  <2>3. copy[s].lease \in Lease
    BY <2>1, CopyFacts
  <2>4. LeaseSound(s, copy[s].lease)'
    <3> DEFINE l == copy[s].lease
    <3>1. l' = l
      BY <2>1
    <3>2. \A m \in Lease : LeaseSound(s, m) => LeaseSound(s, m)'
      BY SoundKept DEF TypeOK
    <3> HIDE DEF l
    <3>3. LeaseSound(s, l)'
      BY <2>2, <2>3, <3>1, <3>2 DEF l, LeaseSound, Decided
    <3> QED BY <3>3 DEF l
  <2> QED BY <2>1, <2>2, <2>4
<1>2. built' <= at'
  BY DEF HeldInv
<1> QED BY <1>1, <1>2 DEF HeldInv

\* The answer stays sound while it is on its way.
LEMMA AnswerKept ==
  ASSUME TypeOK, TypeOK', StoreMoves, AnswerInv, UNCHANGED <<enrolled, dev, claimed, exchange, at>>
  PROVE  AnswerInv'
<1>1. Sent' = Sent
  BY DEF Sent
<1>2. ASSUME exchange.stage = "signing"
      PROVE  /\ exchange.to <= revision'[Workspace[dev]]
             /\ exchange.kind = "delta" => at <= exchange.to
             /\ \A e \in Sent :
                  /\ Decided(e.schedule, dev, e.record)'
                  /\ e.record.revision <= exchange.to
                  /\ exchange.kind = "delta" => at < e.record.revision
             /\ \A c \in exchange.signed : LeaseSound(c.schedule, c.lease)' /\ c.lease.device = dev
  <2>1. exchange # Idle /\ exchange.to \in Nat /\ exchange.signed \subseteq Claim
    BY <1>2, AnswerFacts
  <2>2. dev \in Devices /\ Workspace[dev] \in Workspaces
    BY <2>1, WorkspaceAssumption DEF AnswerInv
  <2>3. exchange.to <= revision'[Workspace[dev]]
    BY <1>2, <2>1, <2>2, MoveFacts DEF AnswerInv, TypeOK
  <2>4. \A e \in Sent : Decided(e.schedule, dev, e.record)'
    BY <1>2, MoveFacts DEF AnswerInv, TypeOK, Decided
  <2>5. ASSUME NEW c \in exchange.signed PROVE LeaseSound(c.schedule, c.lease)'
    <3>1. LeaseSound(c.schedule, c.lease) /\ c.lease \in Lease
      BY <1>2, <2>1, ClaimFacts DEF AnswerInv
    <3>2. \A s, m : m \in Lease /\ LeaseSound(s, m) => LeaseSound(s, m)'
      BY SoundKept DEF TypeOK
    <3>3. LeaseSound(c.schedule, c.lease)'
      BY <3>1, <3>2
    <3> QED BY <3>3
  <2> QED BY <1>2, <2>3, <2>4, <2>5 DEF AnswerInv
<1>3. (enrolled => dev \in Devices) /\ (exchange # Idle => enrolled /\ claimed = {})
  BY DEF AnswerInv
<1>4. /\ exchange' = exchange /\ dev' = dev /\ at' = at /\ enrolled' = enrolled /\ claimed' = claimed
  OBVIOUS
<1> QED BY <1>1, <1>2, <1>3, <1>4 DEF AnswerInv

\* The executions and the claims do not depend on the control plane's tables.
LEMMA ClaimsKept ==
  ASSUME TypeOK, TypeOK', now <= now', UNCHANGED <<copy, at, built, ran, claimed>>
  PROVE  /\ RanInv => RanInv'
         /\ ClaimInv => ClaimInv'
<1>1. now \in Nat /\ now' \in Nat /\ claimed \subseteq Claim
  BY StoreBoundAssumption DEF TypeOK, StoreTypeOK
<1>2. RanInv => RanInv'
  BY DEF RanInv, Held
<1>3. \A c \in claimed : c.lease.record.next \in Nat
  BY <1>1, ClaimFacts
<1>4. ClaimInv => ClaimInv'
  BY <1>1, <1>3 DEF ClaimInv, Held, ExecutionOf
<1> QED BY <1>2, <1>4

\* The rows of a device are decisions about it.
LEMMA SnapshotIsDecided ==
  ASSUME StoreTypeOK, StoreTypeOK', LogInv, StoreMoves, NEW d \in Devices, NEW e \in SnapshotFor(d)
  PROVE  Decided(e.schedule, d, e.record)' /\ e.record.revision <= revision'[Workspace[d]]
<1>1. PICK s \in Authorized(d) : e = Entry(s, RecordOf(schedule[s]))
  BY DEF SnapshotFor
<1>2. s \in Schedules /\ Listed(s) /\ schedule[s].target = d
  BY <1>1 DEF Authorized
<1>3. e.schedule = s /\ e.record = RecordOf(schedule[s])
  BY <1>1 DEF Entry
<1>4. PICK c \in changes : TellsRow(c, s)
  BY <1>2 DEF LogInv, TableInv
<1>5. Decided(s, d, e.record)
  BY <1>2, <1>3, <1>4 DEF Decided, TellsRow
<1>6. Exists(s) /\ schedule[s] \in Row
  BY <1>2, TableFacts
<1>7. e.record.revision = schedule[s].revision /\ schedule[s].revision \in Nat
  BY <1>3, <1>6, RowFacts
<1>8. schedule[s].revision <= revision[Workspace[d]]
  BY <1>2, <1>6 DEF LogInv, RevisionInv
<1>9. Workspace[d] \in Workspaces
  BY WorkspaceAssumption
<1>10. Decided(s, d, e.record)'
  BY <1>5, MoveFacts DEF Decided
<1>11. e.record.revision <= revision'[Workspace[d]]
  BY <1>7, <1>8, <1>9, MoveFacts
<1> QED BY <1>3, <1>10, <1>11

\* What a delta upserts are decisions after the Agent's revision.
LEMMA DeltaIsDecided ==
  ASSUME StoreTypeOK', LogInv', NEW d \in Devices, NEW from \in Nat, NEW e \in Upserts(d, from, changes')
  PROVE  /\ Decided(e.schedule, d, e.record)'
         /\ from < e.record.revision /\ e.record.revision <= revision'[Workspace[d]]
<1>1. PICK c \in LastSince(d, from, changes') : c.op = "upsert" /\ e = Entry(c.schedule, c.record)
  BY DEF Upserts
<1>2. c \in changes' /\ c.target = d /\ c.revision > from
  BY DEF LastSince, Since
<1>3. e.schedule = c.schedule /\ e.record = c.record
  BY <1>1 DEF Entry
<1>4. c \in Change /\ c.revision \in Nat
  BY <1>2, ChangeFacts DEF StoreTypeOK
<1>5. c.record.revision = c.revision /\ c.revision \in 1 .. revision'[Workspace[d]]
  BY <1>1, <1>2 DEF LogInv, RevisionInv
<1>6. Decided(e.schedule, d, e.record)'
  BY <1>1, <1>2, <1>3 DEF Decided
<1> QED BY <1>3, <1>4, <1>5, <1>6, <1>2

\* The answer that the API decides on is decided.
LEMMA AnswerStarts ==
  ASSUME TypeOK, TypeOK', PlaceInv, LogInv, LogInv', StoreMoves, AgentInv,
         SyncSchedules \/ RefreshSchedules
  PROVE  AnswerInv'
<1>1. /\ enrolled /\ dev \in Devices /\ claimed = {}
      /\ UNCHANGED <<enrolled, dev, claimed, at, copy, built, ran, synced>>
  BY DEF SyncSchedules, RefreshSchedules, Ready, PlaceInv, agentVars, Idle
<1>t. StoreTypeOK /\ StoreTypeOK' /\ at \in Nat
  BY DEF TypeOK
<1>2. /\ revision'[Workspace[dev]] \in Nat /\ revision[Workspace[dev]] \in Nat
      /\ revision[Workspace[dev]] <= revision'[Workspace[dev]]
  BY <1>1, <1>t, WorkspaceAssumption, MoveFacts
<1>3. ASSUME NEW kind, NEW to \in Nat, NEW records, NEW removed,
             exchange' = Signing(kind, to, records, removed),
             to = revision'[Workspace[dev]], kind = "delta" => at <= to,
             \A e \in records : /\ Decided(e.schedule, dev, e.record)'
                                /\ e.record.revision <= to
                                /\ kind = "delta" => at < e.record.revision
      PROVE  AnswerInv'
  <2>1. /\ exchange'.stage = "signing" /\ exchange'.kind = kind /\ exchange'.to = to
        /\ exchange'.unsigned = records /\ exchange'.signed = {}
    BY <1>3 DEF Signing
  <2>2. Sent' = records
    BY <2>1 DEF Sent
  <2>3. enrolled' /\ dev' \in Devices /\ claimed' = {} /\ at' = at /\ dev' = dev
    BY <1>1
  <2>4. (enrolled => dev \in Devices)' /\ (exchange # Idle => enrolled /\ claimed = {})'
    BY <2>3
  <2>5. \A e \in Sent' : /\ Decided(e.schedule, dev, e.record)'
                         /\ e.record.revision <= exchange'.to
                         /\ exchange'.kind = "delta" => at' < e.record.revision
    BY <1>3, <2>1, <2>2, <2>3
  <2>6. exchange'.to <= revision'[Workspace[dev']] /\ (exchange'.kind = "delta" => at' <= exchange'.to)
    BY <1>2, <1>3, <2>1, <2>3
  <2> QED BY <2>1, <2>4, <2>5, <2>6 DEF AnswerInv
<1>4. ASSUME NEW to, exchange' = Signing("snapshot", to, SnapshotFor(dev), {}), to = revision'[Workspace[dev]]
      PROVE  AnswerInv'
  <2>1. \A e \in SnapshotFor(dev) :
           Decided(e.schedule, dev, e.record)' /\ e.record.revision <= revision'[Workspace[dev]]
    BY <1>1, <1>t, SnapshotIsDecided
  <2> QED BY <1>2, <1>3, <1>4, <2>1
<1>5. CASE RefreshSchedules
  BY <1>4, <1>5 DEF RefreshSchedules
<1>6. CASE SyncSchedules
  <2> DEFINE to   == revision'[Workspace[dev]]
             from == IF synced THEN at ELSE Whole
  <2>1. exchange' =
          IF from = Whole THEN Signing("snapshot", to, SnapshotFor(dev), {})
          ELSE IF from = to THEN [stage |-> "refreshing"]
          ELSE Signing("delta", to, Upserts(dev, from, changes'), Removed(dev, from, changes'))
    BY <1>6 DEF SyncSchedules
  <2>2. from # Whole => from = at /\ at <= to
    BY <1>2, <1>6, <1>t DEF SyncSchedules
  <2>3. \A e \in Upserts(dev, at, changes') :
           /\ Decided(e.schedule, dev, e.record)'
           /\ at < e.record.revision /\ e.record.revision <= to
    BY <1>1, <1>t, DeltaIsDecided
  <2> HIDE DEF from
  <2>4. CASE from = Whole
    BY <1>4, <2>1, <2>4
  <2>5. CASE from # Whole /\ from = to
    <3>1. exchange' = [stage |-> "refreshing"]
      BY <2>1, <2>5
    <3>2. enrolled' /\ dev' \in Devices /\ claimed' = {}
      BY <1>1
    <3> QED BY <3>1, <3>2 DEF AnswerInv
  <2>6. CASE from # Whole /\ from # to
    BY <1>2, <1>3, <2>1, <2>2, <2>3, <2>6
  <2> QED BY <2>4, <2>5, <2>6
<1> QED BY <1>5, <1>6

\* A record is signed if it is still what the row says, for a device that is active.
LEMMA AnswerIsSigned ==
  ASSUME TypeOK, TypeOK', LogInv, AnswerInv, exchange.stage = "signing",
         NEW e \in exchange.unsigned, AuthorizeScheduleRecord(e)
  PROVE  Sent' = Sent /\ AnswerInv'
<1> DEFINE new == [schedule |-> e.schedule, lease |-> LeaseFor(e)]
<1>t. StoreTypeOK /\ revoked \in [Devices -> Nat]
      /\ now \in 0 .. MaxTime /\ MaxTime \in Nat
  BY StoreBoundAssumption DEF TypeOK, StoreTypeOK
<1>1. /\ exchange # Idle
      /\ exchange \in [stage : {"signing"}, kind : {"snapshot", "delta"}, to : Nat,
                       unsigned : SUBSET Entries, signed : SUBSET Claim, removed : SUBSET Schedules]
  BY AnswerFacts
<1>2. enrolled /\ dev \in Devices /\ claimed = {}
  BY <1>1 DEF AnswerInv
<1>3. e \in Entries
  BY <1>1
<1>4. /\ LeaseFor(e) \in Lease /\ LeaseFor(e).device = dev /\ LeaseFor(e).record = e.record
      /\ LeaseFor(e).issued = now /\ LeaseFor(e).expires <= now + TTL
  BY <1>2, <1>3, <1>t, LeaseForType
<1>5. /\ exchange' = [exchange EXCEPT !.unsigned = @ \ {e}, !.signed = @ \cup {new}]
      /\ UNCHANGED <<storeVars, agentVars>>
  BY DEF AuthorizeScheduleRecord
<1>6. new.schedule = e.schedule /\ new.lease = LeaseFor(e) /\ Entry(e.schedule, e.record) = e
  BY <1>3 DEF Entry, Entries
<1> HIDE DEF new
<1>7. /\ exchange'.stage = "signing" /\ exchange'.kind = exchange.kind /\ exchange'.to = exchange.to
      /\ exchange'.unsigned = exchange.unsigned \ {e} /\ exchange'.signed = exchange.signed \cup {new}
  BY <1>1, <1>5
<1>8. Sent' = Sent
  <2>1. Sent = exchange.unsigned \cup {Entry(c.schedule, c.lease.record) : c \in exchange.signed}
    BY DEF Sent
  <2>2. Sent' = (exchange.unsigned \ {e})
                  \cup {Entry(c.schedule, c.lease.record) : c \in exchange.signed \cup {new}}
    BY <1>7 DEF Sent
  <2>3. Entry(new.schedule, new.lease.record) = e
    BY <1>4, <1>6
  <2> QED BY <2>1, <2>2, <2>3
<1>9. LeaseSound(e.schedule, LeaseFor(e))
  <2>1. Decided(e.schedule, dev, e.record)
    BY DEF AnswerInv, Sent
  <2>2. now <= revoked[dev]
    BY <1>t, <1>2 DEF AuthorizeScheduleRecord, StillCurrent, IsActive, Never
  <2>3. \A h \in changes : h.schedule = e.schedule => h.revision <= e.record.revision
    BY DEF AuthorizeScheduleRecord, StillCurrent, LogInv, RevisionInv
  <2>4. \A h \in changes : h.schedule = e.schedule => ~(h.revision > e.record.revision)
    <3>1. e.record.revision \in Nat /\ \A h \in changes : h.revision \in Nat
      BY <1>3, <1>t, ChangeFacts DEF Entries, Record, StoreTypeOK
    <3> QED BY <2>3, <3>1
  <2> QED BY <1>4, <1>t, <2>1, <2>2, <2>4 DEF LeaseSound
<1>10. LeaseSound(new.schedule, new.lease) /\ new.lease.device = dev
  BY <1>4, <1>6, <1>9
<1>11. /\ revision' = revision /\ changes' = changes /\ now' = now /\ revoked' = revoked
       /\ enrolled' = enrolled /\ dev' = dev /\ at' = at /\ claimed' = claimed
  BY <1>5 DEF storeVars, agentVars
<1>12. \A c \in exchange'.signed : LeaseSound(c.schedule, c.lease)' /\ c.lease.device = dev
  <2>1. \A c \in exchange.signed \cup {new} : LeaseSound(c.schedule, c.lease) /\ c.lease.device = dev
    BY <1>10 DEF AnswerInv
  <2>2. \A s, l : LeaseSound(s, l) => LeaseSound(s, l)'
    BY <1>11 DEF LeaseSound, Decided
  <2> QED BY <1>7, <2>1, <2>2
<1>13. \A x \in Sent : Decided(x.schedule, dev, x.record)'
  BY <1>11 DEF AnswerInv, Decided
<1> QED BY <1>2, <1>7, <1>8, <1>11, <1>12, <1>13 DEF AnswerInv

\* What a signed answer holds for a schedule.
LEMMA AnsweredFacts ==
  ASSUME TypeOK, AnswerInv, exchange.stage = "signing", NEW s \in Schedules, LeasesOf(s) # {}
  PROVE  /\ TheLease(s) \in Lease /\ Entry(s, TheLease(s).record) \in Sent
         /\ LeaseSound(s, TheLease(s)) /\ TheLease(s).device = dev
         /\ TheLease(s).record.revision \in Nat /\ TheLease(s).record.revision <= exchange.to
         /\ exchange.kind = "delta" => at < TheLease(s).record.revision
<1>1. PICK c \in exchange.signed : c.schedule = s /\ c.lease = TheLease(s)
  BY TheLeaseFacts
<1>2. c \in Claim
  BY AnswerFacts
<1>3. LeaseSound(c.schedule, c.lease) /\ c.lease.device = dev
  BY DEF AnswerInv
<1>4. Entry(c.schedule, c.lease.record) \in Sent
  BY DEF Sent
<1>5. Entry(c.schedule, c.lease.record).record = c.lease.record
  BY DEF Entry
<1>6. c.lease.record.revision <= exchange.to /\ (exchange.kind = "delta" => at < c.lease.record.revision)
  BY <1>4, <1>5 DEF AnswerInv
<1> QED BY <1>1, <1>2, <1>3, <1>4, <1>6, ClaimFacts

\* Two records of one revision of a schedule are one.
LEMMA OneRecord ==
  ASSUME StoreTypeOK, LogInv, NEW s, NEW d, NEW e, NEW m, NEW n,
         Decided(s, d, m), Decided(s, e, n), m.revision = n.revision
  PROVE  m = n
<1>1. PICK h \in changes : h.op = "upsert" /\ h.schedule = s /\ h.record = m
  BY DEF Decided
<1>2. PICK k \in changes : k.op = "upsert" /\ k.schedule = s /\ k.record = n
  BY DEF Decided
<1>3. h.revision = k.revision
  BY <1>1, <1>2 DEF LogInv, RevisionInv
<1> QED BY <1>1, <1>2, <1>3 DEF LogInv, UniqueInv

\* A later snapshot replaces the table, and with it what was executed from it.
LEMMA ReplaceKeepsAgent ==
  ASSUME TypeOK, AgentInv, ReplaceSchedules
  PROVE  AgentInv'
<1>1. exchange.stage = "signing" /\ exchange # Idle /\ exchange.to \in Nat
  BY AnswerFacts DEF ReplaceSchedules, Answered
<1>2. claimed = {} /\ enrolled /\ dev \in Devices
  BY <1>1 DEF AgentInv, AnswerInv
<1>3. /\ exchange' = Idle /\ at' = exchange.to /\ built' = exchange.to
      /\ UNCHANGED <<now, revoked, changes, enrolled, dev, claimed, ran>>
  BY DEF ReplaceSchedules, SyncSucceeds, storeVars
<1>4. at \in Nat /\ built \in Nat /\ at < exchange.to /\ built <= at
  BY <1>1 DEF TypeOK, ReplaceSchedules, AgentInv, HeldInv
<1>5. AnswerInv'
  BY <1>2, <1>3 DEF AnswerInv, Idle
<1>6. ASSUME NEW s \in Schedules, Held(s)'
      PROVE  (LeaseSound(s, copy[s].lease) /\ copy[s].lease.record.revision <= at)'
  <2>1. copy'[s] = IF LeasesOf(s) = {} THEN NoCopy ELSE Inserted(TheLease(s))
    BY DEF ReplaceSchedules, TheLease
  <2>2. LeasesOf(s) # {}
    BY <1>6, <2>1 DEF Held
  <2>3. copy'[s].lease = TheLease(s)
    BY <2>1, <2>2 DEF Inserted
  <2>4. LeaseSound(s, TheLease(s)) /\ TheLease(s).record.revision <= exchange.to
    BY <1>1, <2>2, AnsweredFacts DEF AgentInv
  <2> QED BY <1>3, <2>3, <2>4 DEF LeaseSound, Decided
<1>7. HeldInv'
  BY <1>1, <1>3, <1>6 DEF HeldInv
<1>8. RanInv'
  <2>1. \A x \in ran : x.built \in Nat /\ x.revision \in Nat
    BY DEF TypeOK, Execution
  <2>2. \A x \in ran : x.built <= built /\ x.revision <= at
    BY DEF AgentInv, RanInv
  <2>3. \A x \in ran : x.built < exchange.to /\ x.revision <= exchange.to
    BY <1>1, <1>4, <2>1, <2>2
  <2> QED BY <1>1, <1>3, <2>1, <2>3 DEF RanInv
<1>9. ClaimInv'
  BY <1>2, <1>3 DEF ClaimInv
<1> QED BY <1>5, <1>7, <1>8, <1>9 DEF AgentInv

\* A refreshed lease is for the record that the table has, or for a later one.
LEMMA RefreshKeepsAgent ==
  ASSUME TypeOK, LogInv, AgentInv, RefreshLeases
  PROVE  AgentInv'
<1>1. exchange.stage = "signing" /\ exchange # Idle /\ exchange.to = at
  BY AnswerFacts DEF RefreshLeases, Answered
<1>2. claimed = {} /\ enrolled /\ dev \in Devices
  BY <1>1 DEF AgentInv, AnswerInv
<1>3. /\ exchange' = Idle /\ at' = at /\ built' = built
      /\ UNCHANGED <<now, revoked, changes, enrolled, dev, claimed, ran>>
  BY DEF RefreshLeases, SyncSucceeds, storeVars
<1>4. AnswerInv'
  BY <1>2, <1>3 DEF AnswerInv, Idle
<1>5. ASSUME NEW s \in Schedules
      PROVE  copy'[s] = IF LeasesOf(s) = {} \/ ~Held(s) THEN copy[s]
                        ELSE [copy[s] EXCEPT !.lease = TheLease(s)]
  BY DEF RefreshLeases, TheLease
<1>6. ASSUME NEW s \in Schedules, Held(s), LeasesOf(s) # {}
      PROVE  /\ copy'[s].lease = TheLease(s) /\ copy'[s].next = copy[s].next
             /\ LeaseSound(s, TheLease(s))
             /\ TheLease(s).record.revision <= at
             /\ copy[s].lease.record.revision <= TheLease(s).record.revision
             /\ copy[s].lease.record.revision = TheLease(s).record.revision =>
                  copy[s].lease.record = TheLease(s).record
  <2>1. /\ TheLease(s) \in Lease /\ LeaseSound(s, TheLease(s))
        /\ TheLease(s).record.revision \in Nat /\ TheLease(s).record.revision <= at
    BY <1>1, <1>6, AnsweredFacts DEF AgentInv
  <2>2. copy[s] \in Copied /\ copy[s].lease.record.revision \in Nat
    BY <1>6, CopyFacts
  <2>3. copy'[s].lease = TheLease(s) /\ copy'[s].next = copy[s].next
    BY <1>5, <1>6, <2>2 DEF Copied
  <2>4. ~Replay(s, TheLease(s))
    <3>1. PICK c \in exchange.signed : c.schedule = s /\ c.lease = TheLease(s)
      BY <1>1, <1>6, TheLeaseFacts
    <3> QED BY <3>1 DEF RefreshLeases
  <2>5. copy[s].lease.record.revision <= TheLease(s).record.revision
    BY <1>6, <2>1, <2>2, <2>4 DEF Replay
  <2>6. LeaseSound(s, copy[s].lease)
    BY <1>6 DEF AgentInv, HeldInv
  <2>7. copy[s].lease.record.revision = TheLease(s).record.revision =>
          copy[s].lease.record = TheLease(s).record
    BY <2>1, <2>6, OneRecord DEF LeaseSound, TypeOK
  <2> QED BY <2>1, <2>3, <2>5, <2>7
<1>7. ASSUME NEW s \in Schedules, Held(s)' PROVE Held(s)
  BY <1>5, <1>7 DEF Held
<1>8. HeldInv'
  <2>1. ASSUME NEW s \in Schedules, Held(s)'
        PROVE  (LeaseSound(s, copy[s].lease) /\ copy[s].lease.record.revision <= at)'
    <3>1. Held(s)
      BY <1>7, <2>1
    <3>2. CASE LeasesOf(s) = {}
      <4>1. copy'[s] = copy[s]
        BY <1>5, <3>2
      <4> QED BY <1>3, <3>1, <4>1 DEF AgentInv, HeldInv, LeaseSound, Decided
    <3>3. CASE LeasesOf(s) # {}
      BY <1>3, <1>6, <3>1, <3>3 DEF LeaseSound, Decided
    <3> QED BY <3>2, <3>3
  <2> QED BY <1>3, <2>1 DEF AgentInv, HeldInv
<1>9. RanInv'
  <2>1. ASSUME NEW x \in ran, x.built = built, Held(x.schedule)'
        PROVE  /\ x.revision <= copy'[x.schedule].lease.record.revision
               /\ x.revision = copy'[x.schedule].lease.record.revision =>
                    copy'[x.schedule].next # copy'[x.schedule].lease.record.next
    <3> DEFINE s == x.schedule
    <3>1. s \in Schedules /\ x.revision \in Nat
      BY DEF TypeOK, Execution
    <3>2. Held(s)
      BY <1>7, <2>1, <3>1
    <3>3. /\ x.revision <= copy[s].lease.record.revision
          /\ x.revision = copy[s].lease.record.revision => copy[s].next # copy[s].lease.record.next
      BY <2>1, <3>2 DEF AgentInv, RanInv
    <3>4. copy[s].lease.record.revision \in Nat
      BY <3>1, <3>2, CopyFacts
    <3> HIDE DEF s
    <3>5. CASE LeasesOf(s) = {}
      <4>1. copy'[s] = copy[s]
        BY <1>5, <3>1, <3>5
      <4> QED BY <3>3, <4>1 DEF s
    <3>6. CASE LeasesOf(s) # {}
      <4>1. /\ copy'[s].lease = TheLease(s) /\ copy'[s].next = copy[s].next
            /\ copy[s].lease.record.revision <= TheLease(s).record.revision
            /\ copy[s].lease.record.revision = TheLease(s).record.revision =>
                 copy[s].lease.record = TheLease(s).record
        BY <1>6, <3>1, <3>2, <3>6
      <4>2. TheLease(s).record.revision \in Nat
        BY <1>1, <3>1, <3>6, AnsweredFacts DEF AgentInv
      <4>3. /\ x.revision <= copy'[s].lease.record.revision
            /\ x.revision = copy'[s].lease.record.revision => copy'[s].next # copy'[s].lease.record.next
        BY <3>1, <3>3, <3>4, <4>1, <4>2
      <4> QED BY <4>3 DEF s
    <3> QED BY <3>5, <3>6
  <2> QED BY <1>3, <2>1 DEF AgentInv, RanInv
<1>10. ClaimInv'
  BY <1>2, <1>3 DEF ClaimInv
<1> QED BY <1>4, <1>8, <1>9, <1>10 DEF AgentInv

\* A delta brings records that are later than all that was executed.
LEMMA DeltaKeepsAgent ==
  ASSUME TypeOK, AgentInv, ApplyDelta
  PROVE  AgentInv'
<1>1. exchange.stage = "signing" /\ exchange # Idle /\ exchange.kind = "delta" /\ exchange.to \in Nat
  BY AnswerFacts DEF ApplyDelta, Answered
<1>2. claimed = {} /\ enrolled /\ dev \in Devices /\ at <= exchange.to
  BY <1>1 DEF AgentInv, AnswerInv
<1>3. /\ exchange' = Idle /\ at' = exchange.to /\ built' = built
      /\ UNCHANGED <<now, revoked, changes, enrolled, dev, claimed, ran>>
  BY DEF ApplyDelta, SyncSucceeds, storeVars
<1>4. at \in Nat /\ built \in Nat /\ built <= at
  BY DEF TypeOK, AgentInv, HeldInv
<1>5. AnswerInv'
  BY <1>2, <1>3 DEF AnswerInv, Idle
<1>6. ASSUME NEW s \in Schedules, Held(s)'
      PROVE  \/ copy'[s] = copy[s] /\ Held(s)
             \/ /\ copy'[s].lease = TheLease(s) /\ LeaseSound(s, TheLease(s))
                /\ TheLease(s).record.revision \in Nat
                /\ at < TheLease(s).record.revision /\ TheLease(s).record.revision <= exchange.to
  <2>1. copy'[s] = IF LeasesOf(s) # {} THEN Inserted(TheLease(s))
                   ELSE IF s \in exchange.removed THEN NoCopy ELSE copy[s]
    BY DEF ApplyDelta, TheLease
  <2>2. CASE LeasesOf(s) # {}
    <3>1. copy'[s].lease = TheLease(s)
      BY <2>1, <2>2 DEF Inserted
    <3> QED BY <1>1, <2>2, <3>1, AnsweredFacts DEF AgentInv
  <2>3. CASE LeasesOf(s) = {}
    BY <1>6, <2>1, <2>3 DEF Held
  <2> QED BY <2>2, <2>3
<1>7. HeldInv'
  <2>1. ASSUME NEW s \in Schedules, Held(s)'
        PROVE  (LeaseSound(s, copy[s].lease) /\ copy[s].lease.record.revision <= at)'
    <3>1. CASE copy'[s] = copy[s] /\ Held(s)
      <4>1. LeaseSound(s, copy[s].lease) /\ copy[s].lease.record.revision <= at
        BY <3>1 DEF AgentInv, HeldInv
      <4>2. copy[s].lease.record.revision \in Nat
        BY <3>1, CopyFacts
      <4>3. copy[s].lease.record.revision <= exchange.to
        BY <1>1, <1>2, <1>4, <4>1, <4>2
      <4> QED BY <1>3, <3>1, <4>1, <4>3 DEF LeaseSound, Decided
    <3>2. CASE /\ copy'[s].lease = TheLease(s) /\ LeaseSound(s, TheLease(s))
               /\ TheLease(s).record.revision <= exchange.to
      BY <1>3, <3>2 DEF LeaseSound, Decided
    <3> QED BY <1>6, <2>1, <3>1, <3>2
  <2>2. built' <= at'
    BY <1>1, <1>2, <1>3, <1>4
  <2> QED BY <2>1, <2>2 DEF HeldInv
<1>8. RanInv'
  <2>1. ASSUME NEW x \in ran
        PROVE  /\ x.built <= built /\ x.revision <= exchange.to
               /\ x.built = built /\ Held(x.schedule)' =>
                    /\ x.revision <= copy'[x.schedule].lease.record.revision
                    /\ x.revision = copy'[x.schedule].lease.record.revision =>
                         copy'[x.schedule].next # copy'[x.schedule].lease.record.next
    <3>1. x.schedule \in Schedules /\ x.revision \in Nat
      BY DEF TypeOK, Execution
    <3>2. x.built <= built /\ x.revision <= at
      BY DEF AgentInv, RanInv
    <3>3. x.revision <= exchange.to
      BY <1>1, <1>2, <1>4, <3>1, <3>2
    <3>4. ASSUME x.built = built, copy'[x.schedule] = copy[x.schedule], Held(x.schedule)
          PROVE  /\ x.revision <= copy'[x.schedule].lease.record.revision
                 /\ x.revision = copy'[x.schedule].lease.record.revision =>
                      copy'[x.schedule].next # copy'[x.schedule].lease.record.next
      BY <3>4 DEF AgentInv, RanInv
    <3>5. ASSUME copy'[x.schedule].lease = TheLease(x.schedule),
                 TheLease(x.schedule).record.revision \in Nat,
                 at < TheLease(x.schedule).record.revision
          PROVE  x.revision < copy'[x.schedule].lease.record.revision
                 /\ copy'[x.schedule].lease.record.revision \in Nat
      BY <1>4, <3>1, <3>2, <3>5
    <3>6. ASSUME x.revision < copy'[x.schedule].lease.record.revision,
                 copy'[x.schedule].lease.record.revision \in Nat
          PROVE  /\ x.revision <= copy'[x.schedule].lease.record.revision
                 /\ x.revision # copy'[x.schedule].lease.record.revision
      BY <3>1, <3>6
    <3> QED BY <1>6, <3>1, <3>2, <3>3, <3>4, <3>5, <3>6
  <2> QED BY <1>3, <2>1 DEF RanInv
<1>9. ClaimInv'
  BY <1>2, <1>3 DEF ClaimInv
<1> QED BY <1>5, <1>7, <1>8, <1>9 DEF AgentInv

\* A claim is of a signed occurrence that no run has taken, and moves the row past it.
LEMMA ClaimKeepsAgent ==
  ASSUME TypeOK, AgentInv, ClaimDueSchedules
  PROVE  AgentInv'
<1>1. /\ exchange = Idle /\ claimed = {}
      /\ UNCHANGED <<now, revoked, changes, revision, enrolled, dev, at, exchange, built, ran>>
  BY DEF ClaimDueSchedules, Ready, storeVars
<1>2. now \in Nat /\ Period \in Nat \ {0}
  BY SyncAssumption, StoreBoundAssumption DEF TypeOK, StoreTypeOK
<1>3. AnswerInv'
  <2>1. enrolled /\ dev \in Devices
    BY DEF ClaimDueSchedules, Ready, AgentInv, AnswerInv
  <2>2. exchange' = Idle /\ enrolled' /\ dev' \in Devices
    BY <1>1, <2>1
  <2> QED BY <2>2 DEF AnswerInv, Idle
<1>4. ASSUME NEW s \in Schedules
      PROVE  copy'[s] = IF ~Due(s) THEN copy[s]
                        ELSE IF Intact(s) THEN [copy[s] EXCEPT !.next = NextOccurrence]
                        ELSE [copy[s] EXCEPT !.enabled = FALSE]
  BY DEF ClaimDueSchedules
<1>5. ASSUME NEW s \in Schedules, Held(s)'
      PROVE  /\ Held(s) /\ copy'[s].lease = copy[s].lease
             /\ copy'[s].next # copy[s].next =>
                  Due(s) /\ Intact(s) /\ copy'[s].next # copy[s].lease.record.next
             /\ Due(s) /\ Intact(s) => copy'[s].next # copy[s].lease.record.next
  <2>1. Held(s)
    BY <1>4, <1>5 DEF Held, Due
  <2>2. copy[s] \in Copied /\ copy[s].next \in Nat
    BY <2>1, CopyFacts
  <2>3. CASE ~Due(s)
    BY <1>4, <2>1, <2>3
  <2>4. CASE Due(s) /\ Intact(s)
    <3>1. copy'[s] = [copy[s] EXCEPT !.next = NextOccurrence]
      BY <1>4, <2>4
    <3>2. copy'[s].lease = copy[s].lease /\ copy'[s].next = now + Period
      BY <2>2, <3>1 DEF Copied, NextOccurrence
    <3>3. copy[s].next <= now /\ copy[s].lease.record.next = copy[s].next
      BY <2>4 DEF Due, Intact
    <3>4. now + Period # copy[s].lease.record.next
      BY <1>2, <2>2, <3>3
    <3> QED BY <2>1, <2>4, <3>2, <3>4
  <2>5. CASE Due(s) /\ ~Intact(s)
    <3>1. copy'[s] = [copy[s] EXCEPT !.enabled = FALSE]
      BY <1>4, <2>5
    <3>2. copy'[s].lease = copy[s].lease /\ copy'[s].next = copy[s].next
      BY <2>2, <3>1 DEF Copied
    <3> QED BY <2>1, <2>5, <3>2
  <2> QED BY <2>3, <2>4, <2>5
<1>6. HeldInv'
  <2>1. ASSUME NEW s \in Schedules, Held(s)'
        PROVE  (LeaseSound(s, copy[s].lease) /\ copy[s].lease.record.revision <= at)'
    <3>1. LeaseSound(s, copy[s].lease) /\ copy[s].lease.record.revision <= at
      BY <1>5, <2>1 DEF AgentInv, HeldInv
    <3> QED BY <1>1, <1>5, <2>1, <3>1 DEF LeaseSound, Decided
  <2> QED BY <1>1, <2>1 DEF AgentInv, HeldInv
<1>7. RanInv'
  <2>1. ASSUME NEW x \in ran, x.built = built, Held(x.schedule)'
        PROVE  /\ x.revision <= copy'[x.schedule].lease.record.revision
               /\ x.revision = copy'[x.schedule].lease.record.revision =>
                    copy'[x.schedule].next # copy'[x.schedule].lease.record.next
    <3>1. x.schedule \in Schedules
      BY DEF TypeOK, Execution
    <3>2. /\ x.revision <= copy[x.schedule].lease.record.revision
          /\ x.revision = copy[x.schedule].lease.record.revision =>
               copy[x.schedule].next # copy[x.schedule].lease.record.next
      BY <1>5, <2>1, <3>1 DEF AgentInv, RanInv
    <3> QED BY <1>5, <2>1, <3>1, <3>2
  <2> QED BY <1>1, <2>1 DEF AgentInv, RanInv
<1>8. ClaimInv'
  <2>1. claimed' = {[schedule |-> s, lease |-> copy[s].lease] :
                      s \in {x \in Schedules : Due(x) /\ Intact(x) /\ Valid(copy[x].lease)}}
    BY DEF ClaimDueSchedules
  <2>2. ASSUME NEW c \in claimed'
        PROVE  /\ Held(c.schedule)' /\ c.lease = copy'[c.schedule].lease
               /\ c.lease.record.enabled /\ c.lease.record.next <= now
               /\ copy'[c.schedule].next # c.lease.record.next
               /\ ExecutionOf(c) \notin ran
    <3>1. PICK s \in Schedules : /\ Due(s) /\ Intact(s)
                                 /\ c = [schedule |-> s, lease |-> copy[s].lease]
      BY <2>1
    <3>2. c.schedule = s /\ c.lease = copy[s].lease
      BY <3>1
    <3>3. Held(s) /\ copy[s].enabled /\ copy[s].next <= now
      BY <3>1 DEF Due
    <3>4. Held(s)'
      <4>1. [copy[s] EXCEPT !.next = NextOccurrence] # NoCopy
        BY <1>2, <3>3, CopyFacts DEF Copied, NoCopy, NextOccurrence, Lease
      <4> QED BY <1>4, <3>1, <4>1 DEF Held
    <3>5. /\ copy'[s].lease = copy[s].lease /\ copy'[s].next # copy[s].lease.record.next
      BY <1>5, <3>1, <3>4
    <3>6. c.lease.record.enabled /\ c.lease.record.next <= now
      BY <3>1, <3>2, <3>3 DEF Intact
    <3>7. ASSUME ExecutionOf(c) \in ran PROVE FALSE
      <4> DEFINE x == ExecutionOf(c)
      <4>1. x \in ran /\ x.schedule = s /\ x.built = built /\ x.revision = copy[s].lease.record.revision
        BY <3>2, <3>7 DEF ExecutionOf
      <4> HIDE DEF x
      <4>2. copy[s].next # copy[s].lease.record.next
        BY <3>3, <4>1 DEF AgentInv, RanInv
      <4> QED BY <3>1, <4>2 DEF Intact
    <3> QED BY <3>2, <3>4, <3>5, <3>6, <3>7
  <2>3. \A c, e \in claimed' : c.schedule = e.schedule => c = e
    BY <2>1
  <2> QED BY <1>1, <2>2, <2>3 DEF ClaimInv, ExecutionOf
<1> QED BY <1>3, <1>6, <1>7, <1>8 DEF AgentInv

\* A claim is executed: it was not before, and is not claimed again.
LEMMA RunKeepsAgent ==
  ASSUME TypeOK, AgentInv, NEW c \in claimed, Run(c)
  PROVE  AgentInv'
<1>1. /\ claimed' = claimed \ {c} /\ ran' = ran \cup {ExecutionOf(c)}
      /\ UNCHANGED <<now, revoked, changes, revision, enrolled, dev, copy, at, exchange, built>>
  BY DEF Run, storeVars
<1>2. exchange = Idle /\ exchange' = Idle
  BY <1>1 DEF AgentInv, AnswerInv
<1>3. AnswerInv'
  BY <1>1, <1>2 DEF AgentInv, AnswerInv, Idle
<1>4. HeldInv'
  BY <1>1 DEF AgentInv, HeldInv, Held, LeaseSound, Decided
<1>5. /\ Held(c.schedule) /\ c.lease = copy[c.schedule].lease
      /\ copy[c.schedule].next # c.lease.record.next
  BY DEF AgentInv, ClaimInv
<1>t. c \in Claim /\ c.schedule \in Schedules /\ c.lease.record.revision \in Nat /\ built \in Nat
  BY ClaimFacts DEF TypeOK
<1>6. LET x == ExecutionOf(c)
      IN  /\ x.built <= built /\ x.revision <= at
          /\ x.revision <= copy[x.schedule].lease.record.revision
          /\ x.revision = copy[x.schedule].lease.record.revision =>
               copy[x.schedule].next # copy[x.schedule].lease.record.next
  BY <1>5, <1>t DEF ExecutionOf, AgentInv, HeldInv
<1>7. RanInv'
  BY <1>1, <1>6 DEF AgentInv, RanInv, Held
<1>8. ClaimInv'
  <2>1. ASSUME NEW e \in claimed \ {c} PROVE ExecutionOf(e) \notin ran \cup {ExecutionOf(c)}
    <3>1. e.schedule # c.schedule /\ ExecutionOf(e) \notin ran
      BY DEF AgentInv, ClaimInv
    <3> QED BY <3>1 DEF ExecutionOf
  <2>2. \A e \in claimed' : ExecutionOf(e)' = ExecutionOf(e)
    BY <1>1 DEF ExecutionOf
  <2>3. ClaimInv
    BY DEF AgentInv
  <2> QED BY <1>1, <2>1, <2>2, <2>3 DEF ClaimInv, Held
<1> QED BY <1>3, <1>4, <1>7, <1>8 DEF AgentInv

\* Every step keeps the Agent's side.
LEMMA AgentKept ==
  ASSUME TypeOK, TypeOK', PlaceInv, LogInv, LogInv', StoreMoves, AgentInv, [Next]_vars
  PROVE  AgentInv'
<1>t. now <= now'
  BY DEF StoreMoves
<1>1. ASSUME UNCHANGED <<enrolled, dev, copy, at, exchange, claimed, built, ran>> PROVE AgentInv'
  BY <1>1, <1>t, AnswerKept, HeldKept, ClaimsKept DEF AgentInv
<1>2. ASSUME AnswerInv', UNCHANGED <<copy, at, built, ran>>, claimed' \subseteq claimed PROVE AgentInv'
  <2>1. HeldInv'
    BY <1>2, HeldKept DEF AgentInv
  <2>2. RanInv'
    BY <1>2 DEF AgentInv, RanInv, Held
  <2>3. ClaimInv'
    <3>1. /\ now \in Nat /\ now' \in Nat /\ \A c \in claimed : c.lease.record.next \in Nat
      BY ClaimFacts, StoreBoundAssumption DEF TypeOK, StoreTypeOK
    <3> QED BY <1>2, <1>t, <3>1 DEF AgentInv, ClaimInv, Held, ExecutionOf
  <2> QED BY <1>2, <2>1, <2>2, <2>3 DEF AgentInv
<1>3. CASE StoreNext /\ UNCHANGED <<agentVars, exchange>>
  BY <1>1, <1>3 DEF agentVars
<1>4. CASE SyncSchedules \/ RefreshSchedules
  <2>1. AnswerInv'
    BY <1>4, AnswerStarts
  <2> QED BY <1>2, <1>4, <2>1 DEF SyncSchedules, RefreshSchedules, agentVars
<1>5. ASSUME exchange.stage = "signing", NEW e \in exchange.unsigned, AuthorizeScheduleRecord(e)
      PROVE  AgentInv'
  <2>1. AnswerInv'
    BY <1>5, AnswerIsSigned DEF AgentInv
  <2>2. UNCHANGED agentVars
    BY <1>5 DEF AuthorizeScheduleRecord
  <2> QED BY <1>2, <2>1, <2>2 DEF agentVars
<1>6. ASSUME exchange' = Idle, enrolled' => dev' \in Devices, UNCHANGED <<copy, at, built, ran>>,
             claimed' \subseteq claimed
      PROVE  AgentInv'
  BY <1>2, <1>6 DEF AnswerInv, Idle
<1>7. enrolled => dev \in Devices
  BY DEF PlaceInv
<1>8. CASE SyncFails
  BY <1>6, <1>7, <1>8 DEF SyncFails
<1>9. CASE ReplaceSchedules \/ RefreshLeases \/ ApplyDelta
  BY <1>9, ReplaceKeepsAgent, RefreshKeepsAgent, DeltaKeepsAgent
<1>10. CASE MarkOffline
  BY <1>1, <1>10 DEF MarkOffline
<1>11. CASE ClaimDueSchedules
  BY <1>11, ClaimKeepsAgent
<1>12. ASSUME NEW c \in claimed, Run(c) PROVE AgentInv'
  BY <1>12, RunKeepsAgent
<1>13. ASSUME NEW c \in claimed, Skip(c) PROVE AgentInv'
  BY <1>6, <1>7, <1>13 DEF Skip, PlaceInv
<1>14. CASE AgentRestarts
  BY <1>6, <1>7, <1>14 DEF AgentRestarts
<1>15. CASE ClearDeviceRegistration
  BY <1>6, <1>7, <1>15 DEF ClearDeviceRegistration, Ready
<1>16. ASSUME NEW d \in Devices, PersistDeviceRegistration(d) PROVE AgentInv'
  <2>1. exchange' = Idle /\ dev' \in Devices
    BY <1>16 DEF PersistDeviceRegistration, PlaceInv
  <2> QED BY <1>6, <1>16, <2>1 DEF PersistDeviceRegistration
<1>17. CASE UNCHANGED vars
  BY <1>1, <1>17 DEF vars, agentVars
<1> QED BY <1>3, <1>4, <1>5, <1>8, <1>9, <1>10, <1>11, <1>12, <1>13, <1>14, <1>15, <1>16, <1>17
        DEF Next, ExchangeNext, AgentNext

\* What the Agent holds, has claimed and has executed was signed for what the control
\* plane decided, in every reachable state.
THEOREM ScheduleAgentInvariant == Spec => [](TypeOK /\ PlaceInv /\ LogInv /\ AgentInv)
<1> DEFINE Inv == TypeOK /\ PlaceInv /\ LogInv
<1>1. Init => AgentInv
  BY DEF Init, AgentInv, AnswerInv, HeldInv, RanInv, ClaimInv, Idle, Held
<1>2. Inv /\ Inv' /\ AgentInv /\ [Next]_vars => AgentInv'
  <2> SUFFICES ASSUME Inv, Inv', AgentInv, [Next]_vars PROVE AgentInv'
    OBVIOUS
  <2>1. StoreMoves
    BY EveryStepMoves DEF LogInv
  <2> QED BY <2>1, AgentKept
<1>3. Spec => []Inv
  BY ScheduleLogInvariant
<1> HIDE DEF Inv
<1>4. Spec => [](Inv /\ AgentInv)
  BY <1>1, <1>2, <1>3, PTL DEF Spec
<1> QED BY <1>4, PTL DEF Inv
-----------------------------------------------------------------------------
(***************************************************************************)
(* What is executed.                                                       *)
(***************************************************************************)

\* An execution is of what the Agent holds, under a sound lease for its own device.
LEMMA RunIsSound ==
  ASSUME TypeOK, AgentInv, NEW c \in claimed, Run(c)
  PROVE  /\ c \in Claim /\ LeaseSound(c.schedule, c.lease)
         /\ c.lease.device = dev /\ dev \in Devices /\ now < c.lease.issued + TTL
<1>1. c \in Claim /\ Held(c.schedule) /\ c.lease = copy[c.schedule].lease
  BY DEF TypeOK, AgentInv, ClaimInv
<1>2. LeaseSound(c.schedule, c.lease)
  BY <1>1, ClaimFacts DEF AgentInv, HeldInv
<1>3. c.lease.device = dev /\ c.lease.expires > now
  BY DEF Run, Valid
<1>4. /\ now \in Nat /\ c.lease.expires \in Nat /\ c.lease.issued \in Nat /\ TTL \in Nat
      /\ c.lease.device \in Devices
  BY <1>1, ClaimFacts, SyncAssumption, StoreBoundAssumption DEF TypeOK, StoreTypeOK
<1>5. c.lease.expires <= c.lease.issued + TTL
  BY <1>2 DEF LeaseSound
<1> QED BY <1>1, <1>2, <1>3, <1>4, <1>5

\* Every execution is of an enabled record that the control plane decided on for this
\* device, of an occurrence that is due and that was not executed from this table
\* (verify_schedule_authorization, claim_due_schedules).
THEOREM ExecutionsFollowDecisions == Spec => ExecutionsAreDecided
<1>1. TypeOK /\ AgentInv /\ [Next]_vars =>
        [\A c \in claimed : Run(c) =>
           \E h \in changes :
             /\ h.op = "upsert" /\ h.schedule = c.schedule /\ h.target = dev
             /\ h.record = c.lease.record
             /\ h.record.enabled /\ h.record.next <= now]_vars
  <2> SUFFICES ASSUME TypeOK, AgentInv, NEW c \in claimed, Run(c)
               PROVE  \E h \in changes :
                        /\ h.op = "upsert" /\ h.schedule = c.schedule /\ h.target = dev
                        /\ h.record = c.lease.record
                        /\ h.record.enabled /\ h.record.next <= now
    OBVIOUS
  <2>1. Decided(c.schedule, dev, c.lease.record)
    BY RunIsSound DEF LeaseSound
  <2>2. c.lease.record.enabled /\ c.lease.record.next <= now
    BY DEF AgentInv, ClaimInv
  <2> QED BY <2>1, <2>2 DEF Decided
<1>2. TypeOK /\ AgentInv /\ [Next]_vars => [\A c \in claimed : Run(c) => ExecutionOf(c) \notin ran]_vars
  BY DEF AgentInv, ClaimInv
<1>3. Spec => [](TypeOK /\ AgentInv)
  BY ScheduleAgentInvariant, PTL
<1>4. Spec => RunsAreDecisions
  BY <1>1, <1>3, PTL DEF Spec, RunsAreDecisions
<1>5. Spec => OneRunPerTable
  BY <1>2, <1>3, PTL DEF Spec, OneRunPerTable
<1> QED BY <1>4, <1>5 DEF ExecutionsAreDecided

\* A change in the control plane, and the revocation of a device, bind executions
\* within the lifetime of one lease, whatever is lost on the way
\* (authorizeScheduleRecord, verify_schedule_authorization).
THEOREM ChangesBind == Spec => ChangesBindWithinLease
<1>1. TypeOK /\ AgentInv /\ [Next]_vars =>
        [\A c \in claimed : Run(c) =>
           /\ \A h \in changes :
                h.schedule = c.schedule /\ h.revision > c.lease.record.revision => now < h.at + TTL
           /\ now < revoked[dev] + TTL]_vars
  <2> SUFFICES ASSUME TypeOK, AgentInv, NEW c \in claimed, Run(c)
               PROVE  /\ \A h \in changes :
                           h.schedule = c.schedule /\ h.revision > c.lease.record.revision =>
                             now < h.at + TTL
                      /\ now < revoked[dev] + TTL
    OBVIOUS
  <2>1. /\ c \in Claim /\ LeaseSound(c.schedule, c.lease) /\ c.lease.device = dev /\ dev \in Devices
        /\ now < c.lease.issued + TTL
    BY RunIsSound
  <2>2. /\ now \in Nat /\ c.lease.issued \in Nat /\ TTL \in Nat /\ revoked[dev] \in Nat
        /\ \A h \in changes : h.at \in Nat
    BY <2>1, ClaimFacts, ChangeFacts, SyncAssumption, StoreBoundAssumption DEF TypeOK, StoreTypeOK
  <2>3. c.lease.issued <= revoked[dev]
    BY <2>1 DEF LeaseSound
  <2>4. \A h \in changes :
          h.schedule = c.schedule /\ h.revision > c.lease.record.revision => c.lease.issued <= h.at
    BY <2>1 DEF LeaseSound
  <2> QED BY <2>1, <2>2, <2>3, <2>4
<1>2. Spec => [](TypeOK /\ AgentInv)
  BY ScheduleAgentInvariant, PTL
<1> QED BY <1>1, <1>2, PTL DEF Spec, ChangesBindWithinLease
-----------------------------------------------------------------------------
(***************************************************************************)
(* The refinement.                                                         *)
(***************************************************************************)

\* What was published stays as it is: changes come under later revisions.
LEMMA PublishedKept ==
  ASSUME StoreTypeOK, StoreTypeOK', StoreMoves, NEW d \in Devices, NEW k \in Nat,
         k <= revision[Workspace[d]]
  PROVE  Published(d, k)' = Published(d, k)
<1>1. ASSUME NEW h \in changes', h.target = d, h.revision <= k PROVE h \in changes
  <2>1. h.revision \in Nat /\ revision[Workspace[d]] \in Nat
    BY ChangeFacts, WorkspaceAssumption DEF StoreTypeOK
  <2>2. h \notin changes => h.revision > revision[Workspace[d]]
    BY <1>1, MoveFacts
  <2> QED BY <1>1, <2>1, <2>2
<1>2. changes \subseteq changes'
  BY MoveFacts
<1>3. \A c \in changes : Shows(c, d, k)' <=> Shows(c, d, k)
  BY <1>1, <1>2 DEF Shows
<1>4. \A c \in changes' : Shows(c, d, k)' => c \in changes
  BY <1>1 DEF Shows
<1>5. \A x : x \in Published(d, k)' <=> \E c \in changes' : Shows(c, d, k)' /\ x = Entry(c.schedule, c.record)
  BY DEF Published, Shows
<1>6. \A x : x \in Published(d, k)' <=> x \in Published(d, k)
  BY <1>2, <1>3, <1>4, <1>5, PublishedFacts
<1> QED BY <1>6

\* A device has one record of a schedule, and only records.
LEMMA PublishedOnce ==
  ASSUME StoreTypeOK, LogInv, NEW d \in Devices, NEW k \in Nat
  PROVE  /\ Published(d, k) \subseteq Entries
         /\ \A x, y \in Published(d, k) : x.schedule = y.schedule => x = y
<1>1. \A c \in changes : c \in Change /\ c.revision \in Nat
  BY ChangeFacts DEF StoreTypeOK
<1>2. ASSUME NEW c \in changes, NEW e \in changes, Shows(c, d, k), Shows(e, d, k), c.schedule = e.schedule
      PROVE  c = e
  <2>1. c.revision <= e.revision /\ e.revision <= c.revision /\ c.target = e.target
    BY <1>2 DEF Shows
  <2> QED BY <1>1, <1>2, <2>1 DEF LogInv, UniqueInv
<1>3. ASSUME NEW c \in changes, Shows(c, d, k) PROVE Entry(c.schedule, c.record) \in Entries
  BY <1>1, <1>3, ChangeFacts DEF Shows, Entry, Entries
<1>4. \A x \in Published(d, k) : x \in Entries
  BY <1>3, PublishedFacts
<1>5. ASSUME NEW x \in Published(d, k), NEW y \in Published(d, k), x.schedule = y.schedule PROVE x = y
  <2>1. PICK c \in changes : Shows(c, d, k) /\ x = Entry(c.schedule, c.record)
    BY PublishedFacts
  <2>2. PICK e \in changes : Shows(e, d, k) /\ y = Entry(e.schedule, e.record)
    BY PublishedFacts
  <2>3. c.schedule = e.schedule
    BY <1>5, <2>1, <2>2 DEF Entry
  <2> QED BY <1>2, <2>1, <2>2, <2>3
<1> QED BY <1>4, <1>5

\* At first nothing is published.
LEMMA PublishedFirst ==
  ASSUME StoreTypeOK, LogInv, NEW d \in Devices
  PROVE  Published(d, 0) = {}
<1>1. \A c \in changes : c.revision \in Nat /\ c.revision >= 1
  <2>1. \A c \in changes : c.target \in Devices /\ revision[Workspace[c.target]] \in Nat
    BY ChangeFacts, WorkspaceAssumption DEF StoreTypeOK
  <2> QED BY <2>1 DEF LogInv, RevisionInv
<1>2. \A c \in changes : ~Shows(c, d, 0)
  BY <1>1 DEF Shows
<1> QED BY <1>2, PublishedFacts

\* The rows left to a device when the others are disabled are what it is sent.
LEMMA RowsAfterDisable ==
  ASSUME StoreTypeOK, NEW d \in Devices, Disable(Unauthorized(d), d), UNCHANGED <<now, revoked, grant>>
  PROVE  /\ \A s \in Schedules : Listed(s)' /\ schedule'[s].target = d <=> s \in Authorized(d)
         /\ \A s \in Authorized(d) : s \in Schedules /\ schedule'[s] = schedule[s]
<1> DEFINE S == Unauthorized(d)
<1>1. S \in SUBSET Schedules /\ \A s \in S : Listed(s) /\ schedule[s].target = d
  BY DEF Unauthorized
<1>2. grant' \in [Devices -> [Releases -> Nat]] /\ now' = now /\ revoked' = revoked
  BY DEF StoreTypeOK
<1>3. \A s \in Schedules : IF s \in S THEN ~Listed(s)' ELSE schedule'[s] = schedule[s]
  BY <1>1, <1>2, SchedulesAreDisabled
<1>4. \A s \in Schedules : schedule'[s] = schedule[s] => (Listed(s)' <=> Listed(s))
  BY DEF Listed
<1> QED BY <1>3, <1>4 DEF Unauthorized, Authorized

\* A snapshot is what is published at its revision.
LEMMA SnapshotTells ==
  ASSUME StoreTypeOK, StoreTypeOK', LogInv', NEW d \in Devices, Disable(Unauthorized(d), d),
         UNCHANGED <<now, revoked, grant>>
  PROVE  \A k : k = revision'[Workspace[d]] => Published(d, k)' = SnapshotFor(d)
<1>1. \A s \in Schedules : Listed(s)' /\ schedule'[s].target = d <=> s \in Authorized(d)
  BY RowsAfterDisable
<1>2. \A s \in Authorized(d) : s \in Schedules /\ schedule'[s] = schedule[s]
  BY RowsAfterDisable
<1>3. (Published(d, revision[Workspace[d]]) =
         {Entry(s, RecordOf(schedule[s])) : s \in {x \in Schedules : Listed(x) /\ schedule[x].target = d}})'
  BY LogTellsRows, PTL
<1>4. {x \in Schedules : Listed(x)' /\ schedule'[x].target = d} = Authorized(d)
  BY <1>1, <1>2
<1>5. {Entry(s, RecordOf(schedule'[s])) : s \in Authorized(d)}
        = {Entry(s, RecordOf(schedule[s])) : s \in Authorized(d)}
  BY <1>2
<1> QED BY <1>3, <1>4, <1>5 DEF SnapshotFor

\* A delta is what changes between its revisions.
LEMMA DeltaTellsIt ==
  ASSUME StoreTypeOK, StoreTypeOK', LogInv', NEW d \in Devices, Disable(Unauthorized(d), d),
         UNCHANGED <<now, revoked, grant>>, NEW from \in Nat, NEW to \in Nat,
         to = revision'[Workspace[d]], from <= to
  PROVE  Published(d, to)' =
           Upserts(d, from, changes') \cup
             {x \in Published(d, from)' :
                /\ x.schedule \notin Removed(d, from, changes')
                /\ \A y \in Upserts(d, from, changes') : y.schedule # x.schedule}
<1> DEFINE U == Upserts(d, from, changes')
           Changed(s) == \E c \in changes' : c.target = d /\ c.revision > from /\ c.schedule = s
<1>1. \A c \in changes' : c.schedule \in Schedules /\ c.revision \in Nat
  BY ChangeFacts DEF StoreTypeOK
<1>2. \A c \in changes' : c.target = d => c.revision <= to
  BY <1>1, WorkspaceAssumption DEF LogInv, RevisionInv, StoreTypeOK
<1>3. \A x, k : x \in Published(d, k)' <=> \E c \in changes' : Shows(c, d, k)' /\ x = Entry(c.schedule, c.record)
  BY DEF Published, Shows
<1>4. Published(d, to)' = SnapshotFor(d)
  BY SnapshotTells
<1>5. ASSUME NEW c \in changes', Shows(c, d, to)' PROVE c.schedule \in Authorized(d)
  <2>1. Entry(c.schedule, c.record) \in SnapshotFor(d)
    BY <1>3, <1>4, <1>5
  <2> QED BY <2>1 DEF SnapshotFor, Entry
<1>6. ASSUME NEW s \in Authorized(d) PROVE \E c \in changes' : Shows(c, d, to)' /\ c.schedule = s
  <2>1. Entry(s, RecordOf(schedule[s])) \in Published(d, to)'
    BY <1>4 DEF SnapshotFor
  <2> QED BY <1>3, <2>1 DEF Entry
<1>7. \A x : x \in U <=> \E c \in changes' :
        /\ c.target = d /\ c.revision > from /\ c.op = "upsert" /\ c.schedule \in Authorized(d)
        /\ \A f \in changes' : f.target = d /\ f.revision > from /\ f.schedule = c.schedule =>
                                 f.revision <= c.revision
        /\ x = Entry(c.schedule, c.record)
  BY DEF Upserts, LastSince, Since
<1>8. \A x : x \notin Removed(d, from, changes') /\ (\A y \in U : y.schedule # x) <=>
               ~Changed(x) /\ \A y \in U : y.schedule # x
  BY DEF Removed, Since
<1>9. \A y \in U : Changed(y.schedule)
  BY <1>7 DEF Entry
<1> HIDE DEF U, Changed
<1>10. \A x : x.schedule \notin Removed(d, from, changes') /\ (\A y \in U : y.schedule # x.schedule)
                <=> ~Changed(x.schedule)
  BY <1>8, <1>9
<1>11. ASSUME NEW c \in changes', Shows(c, d, to)', c.revision > from
       PROVE  Entry(c.schedule, c.record) \in U
  BY <1>1, <1>2, <1>5, <1>7, <1>11 DEF Shows
<1>12. ASSUME NEW c \in changes', Shows(c, d, to)', ~(c.revision > from)
       PROVE  Shows(c, d, from)' /\ ~Changed(c.schedule)
  <2>1. c.revision <= from
    BY <1>1, <1>12
  <2>2. \A f \in changes' : f.target = d /\ f.schedule = c.schedule => f.revision <= c.revision
    BY <1>2, <1>12 DEF Shows
  <2>3. ~Changed(c.schedule)
    BY <1>1, <1>12, <2>2 DEF Changed
  <2>4. Shows(c, d, from)'
    BY <1>12, <2>1, <2>2 DEF Shows
  <2> QED BY <2>3, <2>4
<1>13. ASSUME NEW x \in U PROVE x \in Published(d, to)'
  <2>1. PICK c \in changes' :
        /\ c.target = d /\ c.revision > from /\ c.op = "upsert" /\ c.schedule \in Authorized(d)
        /\ \A f \in changes' : f.target = d /\ f.revision > from /\ f.schedule = c.schedule =>
                                 f.revision <= c.revision
        /\ x = Entry(c.schedule, c.record)
    BY <1>7
  <2>2. PICK e \in changes' : Shows(e, d, to)' /\ e.schedule = c.schedule
    BY <1>6, <2>1
  <2>3. e.target = d /\ c.revision <= e.revision
    BY <1>2, <2>1, <2>2 DEF Shows
  <2>4. e.revision <= c.revision
    BY <1>1, <2>1, <2>2, <2>3
  <2>5. c.revision = e.revision
    BY <1>1, <2>3, <2>4
  <2>6. c = e
    BY <2>1, <2>2, <2>3, <2>5 DEF LogInv, UniqueInv
  <2> QED BY <1>3, <2>1, <2>2, <2>6
<1>14. ASSUME NEW c \in changes', Shows(c, d, from)', ~Changed(c.schedule) PROVE Shows(c, d, to)'
  <2>1. \A f \in changes' : f.target = d /\ f.schedule = c.schedule => f.revision <= from
    BY <1>1, <1>14 DEF Changed
  <2>2. \A f \in changes' : f.target = d /\ f.schedule = c.schedule => f.revision <= c.revision
    BY <1>14, <2>1 DEF Shows
  <2>3. c.revision <= to
    BY <1>2, <1>14 DEF Shows
  <2> QED BY <1>14, <2>2, <2>3 DEF Shows
<1>15. \A c : Entry(c.schedule, c.record).schedule = c.schedule
  BY DEF Entry
<1>16. \A x : x \in Published(d, to)' <=> x \in U \/ (x \in Published(d, from)' /\ ~Changed(x.schedule))
  <2>1. ASSUME NEW x, x \in Published(d, to)'
        PROVE  x \in U \/ (x \in Published(d, from)' /\ ~Changed(x.schedule))
    <3>1. PICK c \in changes' : Shows(c, d, to)' /\ x = Entry(c.schedule, c.record)
      BY <1>3, <2>1
    <3>2. CASE c.revision > from
      BY <1>11, <3>1, <3>2
    <3>3. CASE ~(c.revision > from)
      BY <1>3, <1>12, <1>15, <3>1, <3>3
    <3> QED BY <3>2, <3>3
  <2>2. ASSUME NEW x, x \in Published(d, from)', ~Changed(x.schedule) PROVE x \in Published(d, to)'
    <3>1. PICK c \in changes' : Shows(c, d, from)' /\ x = Entry(c.schedule, c.record)
      BY <1>3, <2>2
    <3>2. ~Changed(c.schedule)
      BY <1>15, <2>2, <3>1
    <3> QED BY <1>3, <1>14, <3>1, <3>2
  <2> QED BY <1>13, <2>1, <2>2
<1> QED BY <1>10, <1>16 DEF U

\* While the Agent's table and revision stay, it holds what was published there.
LEMMA ReplicaHolds ==
  ASSUME TypeOK, TypeOK', StoreMoves, ReplicaInv, dev' = dev, at' = at, HeldRecords' = HeldRecords,
         enrolled' => enrolled, dev # NoDevice
  PROVE  dev' # NoDevice /\ at' <= revision'[Workspace[dev']] /\ HeldRecords' = Published(dev, at)'
<1>1. dev \in Devices /\ at \in Nat /\ StoreTypeOK /\ StoreTypeOK'
  BY DEF TypeOK
<1>2. at <= revision[Workspace[dev]] /\ HeldRecords = Published(dev, at)
  BY DEF ReplicaInv
<1>3. Workspace[dev] \in Workspaces
  BY <1>1, WorkspaceAssumption
<1>4. at <= revision'[Workspace[dev]]
  BY <1>1, <1>2, <1>3, MoveFacts
<1>5. \A d \in Devices, k \in Nat : k <= revision[Workspace[d]] => Published(d, k)' = Published(d, k)
  BY <1>1, PublishedKept
<1>6. Published(dev, at)' = Published(dev, at)
  BY <1>1, <1>2, <1>5 DEF Published
<1> QED BY <1>2, <1>4, <1>6

\* The parts of ReplicaInv that an answer under way has to satisfy.
SentTells ==
  exchange.stage = "signing" =>
    /\ exchange.kind = "snapshot" => Sent = Published(dev, exchange.to)
    /\ exchange.kind = "delta" => DeltaTells

\* The answer tells what is published from the moment the API decides on it.
LEMMA SentStarts ==
  ASSUME TypeOK, TypeOK', PlaceInv, LogInv, LogInv', StoreMoves, ReplicaInv,
         SyncSchedules \/ RefreshSchedules
  PROVE  SentTells'
<1>1. /\ enrolled /\ dev \in Devices /\ Disable(Unauthorized(dev), dev)
      /\ UNCHANGED <<now, revoked, grant, dev, at>>
  BY DEF SyncSchedules, RefreshSchedules, Ready, PlaceInv, agentVars, Idle
<1>t. StoreTypeOK /\ StoreTypeOK' /\ at \in Nat
  BY DEF TypeOK
<1>2. /\ revision'[Workspace[dev]] \in Nat /\ revision[Workspace[dev]] \in Nat
      /\ revision[Workspace[dev]] <= revision'[Workspace[dev]]
  BY <1>1, <1>t, WorkspaceAssumption, MoveFacts
<1>3. ASSUME NEW kind, NEW to, NEW records, NEW removed, exchange' = Signing(kind, to, records, removed)
      PROVE  /\ exchange'.stage = "signing" /\ exchange'.kind = kind /\ exchange'.to = to
             /\ exchange'.removed = removed /\ Sent' = records
  <2>1. /\ exchange'.stage = "signing" /\ exchange'.kind = kind /\ exchange'.to = to
        /\ exchange'.unsigned = records /\ exchange'.signed = {} /\ exchange'.removed = removed
    BY <1>3 DEF Signing
  <2> QED BY <2>1 DEF Sent
<1>4. ASSUME exchange' = Signing("snapshot", revision'[Workspace[dev]], SnapshotFor(dev), {})
      PROVE  SentTells'
  <2>1. /\ exchange'.kind = "snapshot" /\ exchange'.to = revision'[Workspace[dev]]
        /\ Sent' = SnapshotFor(dev)
    BY <1>3, <1>4
  <2>2. \A k : k = revision'[Workspace[dev]] => Published(dev, k)' = SnapshotFor(dev)
    BY <1>1, <1>t, SnapshotTells
  <2>3. Published(dev, exchange.to)' = SnapshotFor(dev)
    BY <1>1, <2>1, <2>2 DEF Published
  <2> QED BY <2>1, <2>3 DEF SentTells
<1>5. CASE RefreshSchedules
  BY <1>4, <1>5 DEF RefreshSchedules
<1>6. CASE SyncSchedules
  <2> DEFINE to   == revision'[Workspace[dev]]
             from == IF synced THEN at ELSE Whole
  <2>1. exchange' =
          IF from = Whole THEN Signing("snapshot", to, SnapshotFor(dev), {})
          ELSE IF from = to THEN [stage |-> "refreshing"]
          ELSE Signing("delta", to, Upserts(dev, from, changes'), Removed(dev, from, changes'))
    BY <1>6 DEF SyncSchedules
  <2>2. from # Whole => from = at /\ at <= to
    BY <1>2, <1>6, <1>t DEF SyncSchedules
  <2>3. \A k, m \in Nat : m = to /\ k <= m =>
          Published(dev, m)' =
            Upserts(dev, k, changes') \cup
              {x \in Published(dev, k)' :
                 /\ x.schedule \notin Removed(dev, k, changes')
                 /\ \A y \in Upserts(dev, k, changes') : y.schedule # x.schedule}
    BY <1>1, <1>t, DeltaTellsIt
  <2> HIDE DEF from
  <2>4. CASE from = Whole
    BY <1>4, <2>1, <2>4
  <2>5. CASE from # Whole /\ from = to
    BY <2>1, <2>5 DEF SentTells
  <2>6. CASE from # Whole /\ from # to
    <3>1. /\ exchange'.kind = "delta" /\ exchange'.to = to
          /\ exchange'.removed = Removed(dev, at, changes') /\ Sent' = Upserts(dev, at, changes')
      BY <1>3, <2>1, <2>2, <2>6
    <3>2. ASSUME NEW k \in Nat, NEW m \in Nat, k = at, m = to PROVE DeltaTells'
      <4>1. Published(dev, exchange.to)' = Published(dev, m)'
        BY <3>1, <3>2 DEF Published
      <4>2. Published(dev, at)' = Published(dev, k)'
        BY <1>1, <3>2 DEF Published
      <4>3. Untouched' = {x \in Published(dev, k)' :
                            /\ x.schedule \notin Removed(dev, k, changes')
                            /\ \A y \in Upserts(dev, k, changes') : y.schedule # x.schedule}
        BY <3>1, <3>2, <4>2 DEF Untouched
      <4>4. Sent' = Upserts(dev, k, changes')
        BY <3>1, <3>2
      <4>5. Published(dev, m)' =
              Upserts(dev, k, changes') \cup
                {x \in Published(dev, k)' :
                   /\ x.schedule \notin Removed(dev, k, changes')
                   /\ \A y \in Upserts(dev, k, changes') : y.schedule # x.schedule}
        BY <2>2, <2>3, <2>6, <3>2
      <4> QED BY <4>1, <4>3, <4>4, <4>5 DEF DeltaTells
    <3> QED BY <1>2, <1>t, <3>1, <3>2 DEF SentTells
  <2> QED BY <2>4, <2>5, <2>6
<1> QED BY <1>5, <1>6

\* It tells so until it arrives, whatever is published or signed meanwhile.
LEMMA SentTellsKept ==
  ASSUME TypeOK, TypeOK', StoreMoves, AnswerInv, ReplicaInv, UNCHANGED <<dev, at>>,
         exchange'.stage = "signing" =>
           /\ exchange.stage = "signing" /\ Sent' = Sent
           /\ exchange'.kind = exchange.kind /\ exchange'.to = exchange.to
           /\ exchange'.removed = exchange.removed
  PROVE  SentTells'
<1> SUFFICES ASSUME exchange'.stage = "signing"
             PROVE  /\ exchange'.kind = "snapshot" => Sent' = Published(dev, exchange.to)'
                    /\ exchange'.kind = "delta" => DeltaTells'
  BY DEF SentTells
<1>1. /\ exchange.stage = "signing" /\ Sent' = Sent
      /\ exchange'.kind = exchange.kind /\ exchange'.to = exchange.to
      /\ exchange'.removed = exchange.removed
  OBVIOUS
<1>2. exchange # Idle /\ exchange.to \in Nat
  BY <1>1, AnswerFacts
<1>3. dev \in Devices /\ dev # NoDevice /\ at \in Nat
  BY <1>2, SyncAssumption DEF AnswerInv, TypeOK
<1>4. at <= revision[Workspace[dev]] /\ exchange.to <= revision[Workspace[dev]]
  BY <1>1, <1>3 DEF ReplicaInv, AnswerInv
<1>5. \A d \in Devices, k \in Nat : k <= revision[Workspace[d]] => Published(d, k)' = Published(d, k)
  BY PublishedKept DEF TypeOK
<1>6. \A k \in Nat : k <= revision[Workspace[dev]] => Published(dev, k)' = Published(dev, k)
  BY <1>3, <1>5 DEF Published
<1>7. Published(dev, at)' = Published(dev, at)
  BY <1>3, <1>4, <1>6 DEF Published
<1>8. Published(dev, exchange.to)' = Published(dev, exchange.to)
  BY <1>1, <1>2, <1>4, <1>6 DEF Published
<1>9. Untouched' = Untouched
  BY <1>1, <1>7 DEF Untouched
<1> QED BY <1>1, <1>8, <1>9 DEF ReplicaInv, DeltaTells

\* An answer that arrives brings the table to its own revision.
LEMMA AnswerCatchesUp ==
  ASSUME TypeOK, LogInv, AnswerInv, ReplicaInv, ReplaceSchedules \/ RefreshLeases \/ ApplyDelta
  PROVE  /\ dev # NoDevice /\ dev \in Devices /\ exchange.to \in Nat
         /\ at <= exchange.to /\ exchange.to <= revision[Workspace[dev]]
         /\ UNCHANGED storeVars /\ dev' = dev /\ enrolled' = enrolled /\ exchange' = Idle
         /\ at' = exchange.to /\ HeldRecords' = Published(dev, exchange.to)
<1>1. /\ exchange.stage = "signing" /\ exchange.unsigned = {} /\ exchange # Idle
      /\ exchange.to \in Nat /\ exchange.signed \subseteq Claim
  BY AnswerFacts DEF ReplaceSchedules, RefreshLeases, ApplyDelta, Answered
<1>2. dev # NoDevice /\ dev \in Devices /\ at \in Nat
  BY <1>1, SyncAssumption DEF AnswerInv, TypeOK
<1>3. at <= exchange.to /\ exchange.to <= revision[Workspace[dev]]
  BY <1>1, <1>2 DEF AnswerInv, ReplaceSchedules, RefreshLeases, ApplyDelta, Answered
<1>4. /\ UNCHANGED storeVars /\ dev' = dev /\ enrolled' = enrolled /\ exchange' = Idle
      /\ at' = exchange.to
  BY DEF ReplaceSchedules, RefreshLeases, ApplyDelta, SyncSucceeds
<1>5. HeldRecords = Published(dev, at)
  BY <1>2 DEF ReplicaInv
<1>6. Sent \subseteq Published(dev, exchange.to)
  BY <1>1, AnswerFacts DEF ReplicaInv, DeltaTells
<1>7. \A x, y \in Published(dev, exchange.to) : x.schedule = y.schedule => x = y
  BY <1>1, <1>2, PublishedOnce DEF TypeOK
<1>8. \A s, r : Entry(s, r).schedule = s /\ Entry(s, r).record = r
  BY DEF Entry
<1>9. \A s \in Schedules : LeasesOf(s) # {} => Entry(s, TheLease(s).record) \in Sent
  BY <1>1, AnsweredFacts
<1>10. ASSUME NEW x \in Sent
       PROVE  x.schedule \in Schedules /\ LeasesOf(x.schedule) # {}
              /\ x = Entry(x.schedule, TheLease(x.schedule).record)
  <2>1. PICK c \in exchange.signed : x = Entry(c.schedule, c.lease.record)
    BY <1>1 DEF Sent
  <2>2. x.schedule = c.schedule /\ c.schedule \in Schedules
    BY <1>1, <1>8, <2>1, ClaimFacts
  <2>3. LeasesOf(c.schedule) # {}
    BY DEF LeasesOf
  <2>4. Entry(c.schedule, TheLease(c.schedule).record) \in Sent
    BY <1>9, <2>2, <2>3
  <2>5. Entry(c.schedule, TheLease(c.schedule).record) = x
    BY <1>6, <1>7, <1>8, <2>2, <2>4
  <2> QED BY <2>2, <2>3, <2>5
<1>11. \A x : x \in HeldRecords' <=> \E s \in Schedules : Held(s)' /\ x = Entry(s, copy'[s].lease.record)
  BY DEF HeldRecords
<1>12. \A x : x \in HeldRecords <=> \E s \in Schedules : Held(s) /\ x = Entry(s, copy[s].lease.record)
  BY DEF HeldRecords
<1>13. \A s \in Schedules : LeasesOf(s) # {} =>
         /\ Inserted(TheLease(s)) # NoCopy /\ Inserted(TheLease(s)).lease = TheLease(s)
  BY <1>1, TheLeaseFacts DEF Inserted
<1>14. CASE ReplaceSchedules
  <2>1. \A s \in Schedules :
          copy'[s] = IF LeasesOf(s) = {} THEN NoCopy ELSE Inserted(TheLease(s))
    BY <1>14 DEF ReplaceSchedules, TheLease
  <2>2. Sent = Published(dev, exchange.to)
    BY <1>1, <1>14 DEF ReplicaInv, ReplaceSchedules, Answered
  <2>3. \A s \in Schedules : /\ Held(s)' <=> LeasesOf(s) # {}
                             /\ LeasesOf(s) # {} => copy'[s].lease = TheLease(s)
    BY <1>13, <2>1 DEF Held
  <2>4. \A x : x \in HeldRecords' <=> x \in Sent
    BY <1>9, <1>10, <1>11, <2>3
  <2> QED BY <1>1, <1>2, <1>3, <1>4, <2>2, <2>4
<1>15. CASE RefreshLeases
  <2>1. \A s \in Schedules :
          copy'[s] = IF LeasesOf(s) = {} \/ ~Held(s) THEN copy[s]
                     ELSE [copy[s] EXCEPT !.lease = TheLease(s)]
    BY <1>15 DEF RefreshLeases, TheLease
  <2>2. Sent = HeldRecords /\ exchange.to = at
    BY <1>1, <1>5, <1>15 DEF ReplicaInv, RefreshLeases, Answered
  <2>3. ASSUME NEW s \in Schedules
        PROVE  (Held(s)' <=> Held(s)) /\ (Held(s) => copy'[s].lease.record = copy[s].lease.record)
    <3>1. CASE LeasesOf(s) = {} \/ ~Held(s)
      BY <2>1, <3>1 DEF Held
    <3>2. CASE LeasesOf(s) # {} /\ Held(s)
      <4>1. Entry(s, TheLease(s).record) \in Sent /\ Entry(s, copy[s].lease.record) \in Sent
        BY <1>9, <1>12, <2>2, <3>2
      <4>2. TheLease(s).record = copy[s].lease.record
        BY <1>6, <1>7, <1>8, <4>1
      <4>3. copy[s] \in Copied /\ TheLease(s) \in Lease
        BY <1>1, <3>2, CopyFacts, TheLeaseFacts
      <4>4. copy'[s] = [copy[s] EXCEPT !.lease = TheLease(s)]
        BY <2>1, <3>2
      <4>5. copy'[s].lease = TheLease(s) /\ copy'[s] \in Copied
        BY <4>3, <4>4 DEF Copied
      <4>6. copy'[s] # NoCopy
        BY <4>5 DEF NoCopy, Copied
      <4> QED BY <3>2, <4>2, <4>5, <4>6 DEF Held
    <3> QED BY <3>1, <3>2
  <2>4. HeldRecords' = HeldRecords
    BY <1>11, <1>12, <2>3
  <2> QED BY <1>1, <1>2, <1>3, <1>4, <1>5, <2>2, <2>4
<1>16. CASE ApplyDelta
  <2>1. \A s \in Schedules :
          copy'[s] = IF LeasesOf(s) # {} THEN Inserted(TheLease(s))
                     ELSE IF s \in exchange.removed THEN NoCopy ELSE copy[s]
    BY <1>16 DEF ApplyDelta, TheLease
  <2>2. Published(dev, exchange.to) = Sent \cup Untouched
    BY <1>1, <1>16 DEF ReplicaInv, DeltaTells, ApplyDelta, Answered
  <2>3. \A s \in Schedules : LeasesOf(s) # {} => Held(s)' /\ copy'[s].lease = TheLease(s)
    BY <1>13, <2>1 DEF Held
  <2>4. \A s \in Schedules : LeasesOf(s) = {} =>
          /\ Held(s)' <=> Held(s) /\ s \notin exchange.removed
          /\ Held(s)' => copy'[s] = copy[s]
    BY <2>1 DEF Held
  <2>5. \A s \in Schedules : LeasesOf(s) = {} <=> \A y \in Sent : y.schedule # s
    BY <1>8, <1>9, <1>10
  <2>6. \A x : x \in Untouched <=>
          /\ x \in HeldRecords /\ x.schedule \notin exchange.removed
          /\ \A y \in Sent : y.schedule # x.schedule
    BY <1>5 DEF Untouched
  <2>7. ASSUME NEW x, x \in HeldRecords' PROVE x \in Sent \cup Untouched
    <3>1. PICK s \in Schedules : Held(s)' /\ x = Entry(s, copy'[s].lease.record)
      BY <1>11, <2>7
    <3>2. CASE LeasesOf(s) # {}
      BY <1>9, <2>3, <3>1, <3>2
    <3>3. CASE LeasesOf(s) = {}
      <4>1. Held(s) /\ s \notin exchange.removed /\ x = Entry(s, copy[s].lease.record)
        BY <2>4, <3>1, <3>3
      <4> QED BY <1>8, <1>12, <2>5, <2>6, <3>3, <4>1
    <3> QED BY <3>2, <3>3
  <2>8. ASSUME NEW x \in Sent PROVE x \in HeldRecords'
    BY <1>10, <1>11, <2>3
  <2>9. ASSUME NEW x \in Untouched PROVE x \in HeldRecords'
    <3>1. PICK s \in Schedules : Held(s) /\ x = Entry(s, copy[s].lease.record)
      BY <1>12, <2>6
    <3>2. x.schedule = s /\ LeasesOf(s) = {} /\ s \notin exchange.removed
      BY <1>8, <2>5, <2>6, <3>1
    <3> QED BY <1>11, <2>4, <3>1, <3>2
  <2>10. HeldRecords' = Sent \cup Untouched
    BY <2>7, <2>8, <2>9
  <2> QED BY <1>1, <1>2, <1>3, <1>4, <2>2, <2>10
<1> QED BY <1>14, <1>15, <1>16

\* What a step does to the replica of a machine that is only ever one device.
LEMMA ReplicaStep ==
  ASSUME OneDevice, TypeOK, TypeOK', PlaceInv, LogInv, LogInv', StoreMoves, AgentInv, ReplicaInv,
         [Next]_vars
  PROVE  /\ ReplicaInv'
         /\ \/ dev # NoDevice /\ dev' = dev /\ at' = at /\ HeldRecords' = HeldRecords
            \/ dev = NoDevice /\ at' = at /\ HeldRecords' = HeldRecords
            \/ /\ dev # NoDevice /\ dev' = dev /\ UNCHANGED storeVars
               /\ at <= exchange.to /\ exchange.to <= revision[Workspace[dev]] /\ exchange.to \in Nat
               /\ at' = exchange.to /\ HeldRecords' = Published(dev, exchange.to)
<1>a. AnswerInv /\ (enrolled => dev # NoDevice) /\ (exchange.stage = "signing" => enrolled)
  BY SyncAssumption DEF AgentInv, PlaceInv, Idle
<1>1. ASSUME UNCHANGED <<dev, at>>, HeldRecords' = HeldRecords, enrolled' => enrolled, SentTells'
      PROVE  /\ ReplicaInv'
             /\ \/ dev # NoDevice /\ dev' = dev /\ at' = at /\ HeldRecords' = HeldRecords
                \/ dev = NoDevice /\ at' = at /\ HeldRecords' = HeldRecords
  <2>1. CASE dev = NoDevice
    BY <1>1, <2>1 DEF ReplicaInv, SentTells
  <2>2. CASE dev # NoDevice
    <3>1. dev' # NoDevice /\ at' <= revision'[Workspace[dev']] /\ HeldRecords' = Published(dev, at)'
      BY <1>1, <2>2, ReplicaHolds
    <3> QED BY <1>1, <2>2, <3>1 DEF ReplicaInv, SentTells
  <2> QED BY <2>1, <2>2
<1>2. ASSUME UNCHANGED copy PROVE HeldRecords' = HeldRecords
  BY <1>2 DEF HeldRecords, Held
<1>3. ASSUME UNCHANGED <<dev, at>>,
             exchange'.stage = "signing" =>
               /\ exchange.stage = "signing" /\ Sent' = Sent
               /\ exchange'.kind = exchange.kind /\ exchange'.to = exchange.to
               /\ exchange'.removed = exchange.removed
      PROVE  SentTells'
  BY <1>3, <1>a, SentTellsKept
<1>4. ASSUME UNCHANGED exchange
      PROVE  exchange'.stage = "signing" =>
               /\ exchange.stage = "signing" /\ Sent' = Sent
               /\ exchange'.kind = exchange.kind /\ exchange'.to = exchange.to
               /\ exchange'.removed = exchange.removed
  BY <1>4 DEF Sent
<1>5. ASSUME exchange' = Idle PROVE exchange'.stage # "signing"
  BY <1>5 DEF Idle
<1>6. ASSUME UNCHANGED <<dev, at, copy>>, enrolled' => enrolled, exchange' = exchange \/ exchange' = Idle
      PROVE  /\ ReplicaInv'
             /\ \/ dev # NoDevice /\ dev' = dev /\ at' = at /\ HeldRecords' = HeldRecords
                \/ dev = NoDevice /\ at' = at /\ HeldRecords' = HeldRecords
  <2>1. HeldRecords' = HeldRecords
    BY <1>2, <1>6
  <2>2. SentTells'
    BY <1>3, <1>4, <1>5, <1>6
  <2> QED BY <1>1, <1>6, <2>1, <2>2
<1>7. CASE StoreNext /\ UNCHANGED <<agentVars, exchange>>
  BY <1>6, <1>7 DEF agentVars
<1>8. CASE SyncSchedules \/ RefreshSchedules
  <2>1. SentTells'
    BY <1>8, SentStarts
  <2>2. UNCHANGED <<dev, at, copy, enrolled>>
    BY <1>8 DEF SyncSchedules, RefreshSchedules, agentVars
  <2> QED BY <1>1, <1>2, <2>1, <2>2
<1>9. ASSUME exchange.stage = "signing", NEW e \in exchange.unsigned, AuthorizeScheduleRecord(e)
      PROVE  /\ ReplicaInv'
             /\ \/ dev # NoDevice /\ dev' = dev /\ at' = at /\ HeldRecords' = HeldRecords
                \/ dev = NoDevice /\ at' = at /\ HeldRecords' = HeldRecords
  <2>1. Sent' = Sent
    BY <1>9, <1>a, AnswerIsSigned
  <2>2. /\ exchange' = [exchange EXCEPT !.unsigned = @ \ {e},
                           !.signed = @ \cup {[schedule |-> e.schedule, lease |-> LeaseFor(e)]}]
        /\ UNCHANGED <<dev, at, copy, enrolled>>
    BY <1>9 DEF AuthorizeScheduleRecord, agentVars
  <2>3. /\ exchange'.kind = exchange.kind /\ exchange'.to = exchange.to
        /\ exchange'.removed = exchange.removed
    BY <1>9, <2>2, AnswerFacts
  <2>4. SentTells'
    BY <1>3, <1>9, <2>1, <2>2, <2>3
  <2> QED BY <1>1, <1>2, <2>2, <2>4
<1>10. CASE SyncFails
  BY <1>6, <1>10 DEF SyncFails
<1>11. CASE ReplaceSchedules \/ RefreshLeases \/ ApplyDelta
  <2>1. /\ dev # NoDevice /\ dev \in Devices /\ exchange.to \in Nat
        /\ at <= exchange.to /\ exchange.to <= revision[Workspace[dev]]
        /\ UNCHANGED storeVars /\ dev' = dev /\ enrolled' = enrolled /\ exchange' = Idle
        /\ at' = exchange.to /\ HeldRecords' = Published(dev, exchange.to)
    BY <1>11, <1>a, AnswerCatchesUp
  <2>2. Published(dev, at)' = Published(dev, exchange.to)
    BY <2>1 DEF Published, storeVars
  <2>3. revision' = revision
    BY <2>1 DEF storeVars
  <2>4. ReplicaInv'
    BY <1>5, <2>1, <2>2, <2>3 DEF ReplicaInv
  <2> QED BY <2>1, <2>4
<1>12. CASE MarkOffline
  BY <1>6, <1>12 DEF MarkOffline
<1>13. CASE ClaimDueSchedules
  <2>1. ASSUME NEW s \in Schedules
        PROVE  (Held(s)' <=> Held(s)) /\ (Held(s) => copy'[s].lease = copy[s].lease)
    <3>1. copy'[s] = IF ~Due(s) THEN copy[s]
                     ELSE IF Intact(s) THEN [copy[s] EXCEPT !.next = NextOccurrence]
                     ELSE [copy[s] EXCEPT !.enabled = FALSE]
      BY <1>13 DEF ClaimDueSchedules
    <3>2. CASE ~Due(s)
      BY <3>1, <3>2 DEF Held
    <3>3. CASE Due(s)
      <4>1. Held(s) /\ copy[s] \in Copied
        BY <3>3, CopyFacts DEF Due
      <4>2. copy'[s] \in {NoCopy} \cup Copied /\ copy'[s].lease = copy[s].lease
        BY <3>1, <3>3, <4>1 DEF Copied, TypeOK
      <4>3. copy'[s] # NoCopy
        BY <3>1, <3>3, <4>1 DEF Copied, NoCopy
      <4> QED BY <4>1, <4>2, <4>3 DEF Held
    <3> QED BY <3>2, <3>3
  <2>2. HeldRecords' = HeldRecords
    BY <2>1 DEF HeldRecords
  <2>3. UNCHANGED <<dev, at, enrolled, exchange>>
    BY <1>13 DEF ClaimDueSchedules
  <2> QED BY <1>1, <1>3, <1>4, <2>2, <2>3
<1>14. ASSUME NEW c \in claimed, Run(c) \/ Skip(c)
       PROVE  /\ ReplicaInv'
              /\ \/ dev # NoDevice /\ dev' = dev /\ at' = at /\ HeldRecords' = HeldRecords
                 \/ dev = NoDevice /\ at' = at /\ HeldRecords' = HeldRecords
  BY <1>6, <1>14 DEF Run, Skip
<1>15. CASE AgentRestarts
  BY <1>6, <1>15 DEF AgentRestarts
<1>16. CASE ClearDeviceRegistration
  BY <1>6, <1>16 DEF ClearDeviceRegistration
<1>17. ASSUME NEW d \in Devices, PersistDeviceRegistration(d)
       PROVE  /\ ReplicaInv'
              /\ \/ dev # NoDevice /\ dev' = dev /\ at' = at /\ HeldRecords' = HeldRecords
                 \/ dev = NoDevice /\ at' = at /\ HeldRecords' = HeldRecords
  <2>1. /\ d \in Enrollable /\ enrolled' /\ dev' = d /\ UNCHANGED <<storeVars, copy, at, exchange>>
        /\ exchange = Idle
    BY <1>17 DEF PersistDeviceRegistration, PlaceInv
  <2>2. HeldRecords' = HeldRecords /\ exchange'.stage # "signing"
    BY <1>2, <1>5, <2>1
  <2>3. d \in Devices /\ d # NoDevice /\ revision' = revision /\ changes' = changes
    BY <2>1, SyncAssumption DEF storeVars
  <2>4. CASE dev = NoDevice
    <3>1. at = 0 /\ HeldRecords = {} /\ Published(d, 0) = {}
      BY <2>3, <2>4, PublishedFirst DEF ReplicaInv, TypeOK
    <3>2. Published(dev, at)' = {} /\ 0 <= revision[Workspace[d]]
      BY <2>1, <2>3, <3>1, WorkspaceAssumption DEF Published, TypeOK, StoreTypeOK
    <3> QED BY <2>1, <2>2, <2>3, <2>4, <3>1, <3>2 DEF ReplicaInv
  <2>5. CASE dev # NoDevice
    <3>1. dev' = dev
      BY <2>1, <2>5 DEF ReplicaInv, OneDevice
    <3>2. Published(dev, at)' = Published(dev, at)
      BY <2>1, <2>3, <3>1 DEF Published
    <3> QED BY <2>1, <2>2, <2>3, <2>5, <3>1, <3>2 DEF ReplicaInv
  <2> QED BY <2>4, <2>5
<1>18. CASE UNCHANGED vars
  BY <1>6, <1>18 DEF vars, agentVars
<1> QED BY <1>7, <1>8, <1>9, <1>10, <1>11, <1>12, <1>13, <1>14, <1>15, <1>16, <1>17, <1>18
        DEF Next, ExchangeNext, AgentNext

\* How a step looks to the replica.
LEMMA ReplicaMoves ==
  ASSUME OneDevice, TypeOK, TypeOK', PlaceInv, LogInv, LogInv', StoreMoves, AgentInv, ReplicaInv,
         [Next]_vars
  PROVE  ReplicaInv' /\ [Replica!Next]_(Replica!vars)
<1>1. /\ ReplicaInv'
      /\ \/ dev # NoDevice /\ dev' = dev /\ at' = at /\ HeldRecords' = HeldRecords
         \/ dev = NoDevice /\ at' = at /\ HeldRecords' = HeldRecords
         \/ /\ dev # NoDevice /\ dev' = dev /\ UNCHANGED storeVars
            /\ at <= exchange.to /\ exchange.to <= revision[Workspace[dev]] /\ exchange.to \in Nat
            /\ at' = exchange.to /\ HeldRecords' = Published(dev, exchange.to)
  BY ReplicaStep
<1>t. StoreTypeOK /\ StoreTypeOK' /\ at \in Nat /\ dev \in Devices \cup {NoDevice}
      /\ dev' \in Devices \cup {NoDevice}
  BY DEF TypeOK
<1>2. \A d \in Devices : /\ revision[Workspace[d]] \in Nat /\ revision'[Workspace[d]] \in Nat
                         /\ revision[Workspace[d]] <= revision'[Workspace[d]]
  BY <1>t, WorkspaceAssumption, MoveFacts
<1>3. \A d \in Devices, k \in Nat : k <= revision[Workspace[d]] => Published(d, k)' = Published(d, k)
  BY <1>t, PublishedKept
<1>4. ASSUME NEW d \in Devices, NEW k \in Nat PROVE (Published(d, k) \subseteq Entries)'
  BY <1>t, PublishedOnce, PTL
<1>5. ASSUME NEW d \in Devices PROVE (Published(d, 0) = {})'
  BY <1>t, PublishedFirst, PTL
<1>6. ASSUME dev # NoDevice
      PROVE  [k \in 0 .. revision[Workspace[dev]] |-> Published(dev, k)]
               = (IF dev = NoDevice THEN [k \in {0} |-> {}]
                  ELSE [k \in 0 .. revision[Workspace[dev]] |-> Published(dev, k)])
  BY <1>6
<1>7. ASSUME at' = at, HeldRecords' = HeldRecords, dev' # NoDevice,
             dev = NoDevice \/ dev' = dev
      PROVE  Replica!Publish
  <2> DEFINE n == IF dev = NoDevice THEN 0 ELSE revision[Workspace[dev]]
             told == IF dev = NoDevice THEN [k \in {0} |-> {}]
                     ELSE [k \in 0 .. revision[Workspace[dev]] |-> Published(dev, k)]
  <2>1. dev' \in Devices /\ n' = revision'[Workspace[dev']] /\ n' \in Nat
    BY <1>2, <1>7, <1>t
  <2>2. n \in Nat /\ n <= n'
    BY <1>2, <1>7, <1>t, <2>1
  <2>3. \A d \in Devices : d = dev' => told' = [k \in 0 .. n' |-> Published(d, k)']
    BY <1>7, <2>1 DEF Published
  <2>4. DOMAIN told' = 0 .. n' /\ \A k \in 0 .. n' : told'[k] \subseteq Entries
    <3>1. \A d \in Devices, k \in Nat : Published(d, k)' \subseteq Entries
      BY <1>4
    <3>2. \A k \in 0 .. n' : k \in Nat
      BY <2>1
    <3> HIDE DEF told, n
    <3> QED BY <2>1, <2>3, <3>1, <3>2
  <2>5. ASSUME NEW k \in 0 .. n PROVE told'[k] = told[k]
    <3>1. k \in Nat /\ k \in 0 .. n'
      BY <2>1, <2>2
    <3>2. CASE dev = NoDevice
      <4>1. k = 0 /\ told[k] = {}
        BY <3>2
      <4> QED BY <1>5, <2>1, <2>3, <3>1, <4>1
    <3>3. CASE dev # NoDevice
      <4>1. dev' = dev /\ dev \in Devices /\ told[k] = Published(dev, k) /\ k <= revision[Workspace[dev]]
        BY <1>7, <1>t, <3>3
      <4> HIDE DEF told, n
      <4> QED BY <1>3, <2>1, <2>3, <3>1, <4>1
    <3> QED BY <3>2, <3>3
  <2> QED BY <1>7, <2>1, <2>2, <2>4, <2>5 DEF Replica!Publish
<1>8. CASE dev' # NoDevice /\ at' = at /\ HeldRecords' = HeldRecords /\ (dev = NoDevice \/ dev' = dev)
  BY <1>1, <1>7, <1>8 DEF Replica!Next
<1>9. CASE dev' = NoDevice /\ dev = NoDevice /\ at' = at /\ HeldRecords' = HeldRecords
  BY <1>1, <1>9 DEF Replica!vars
<1>10. CASE /\ dev # NoDevice /\ dev' = dev /\ UNCHANGED storeVars
            /\ at <= exchange.to /\ exchange.to <= revision[Workspace[dev]] /\ exchange.to \in Nat
            /\ at' = exchange.to /\ HeldRecords' = Published(dev, exchange.to)
  <2> DEFINE n == IF dev = NoDevice THEN 0 ELSE revision[Workspace[dev]]
             told == IF dev = NoDevice THEN [k \in {0} |-> {}]
                     ELSE [k \in 0 .. revision[Workspace[dev]] |-> Published(dev, k)]
  <2>1. dev \in Devices /\ n = revision[Workspace[dev]] /\ n \in Nat
    BY <1>2, <1>10, <1>t
  <2>2. exchange.to \in at .. n /\ exchange.to \in 0 .. n
    BY <1>10, <1>t, <2>1
  <2>3. told[exchange.to] = Published(dev, exchange.to)
    BY <1>10, <2>1, <2>2
  <2>4. n' = n /\ told' = told
    BY <1>10 DEF storeVars, Published
  <2> HIDE DEF n, told
  <2>5. \E k \in at .. n : at' = k /\ HeldRecords' = told[k] /\ UNCHANGED <<n, told>>
    BY <1>10, <2>2, <2>3, <2>4
  <2>6. Replica!CatchUp
    BY <2>5 DEF Replica!CatchUp, n, told
  <2> QED BY <1>1, <2>6 DEF Replica!Next
<1>11. dev' = NoDevice => dev = NoDevice \/ dev' = dev
  BY <1>1, <1>t
<1> QED BY <1>1, <1>8, <1>9, <1>10, <1>t DEF ReplicaInv

\* The machine's table is at all times what one revision of the control plane made
\* public for its device, and never goes back to an earlier one, if the machine is only
\* ever enrolled as one device (apply_schedule_snapshot, apply_schedule_delta).
THEOREM ReplicaIsImplemented ==
  ASSUME OneDevice
  PROVE  Spec => ImplementsScheduleReplica
<1> DEFINE Inv == TypeOK /\ PlaceInv /\ LogInv /\ AgentInv
<1>1. Init => ReplicaInv /\ Replica!Init
  BY SyncAssumption DEF Init, ReplicaInv, HeldRecords, Held, Idle, Replica!Init
<1>2. Inv /\ Inv' /\ ReplicaInv /\ [Next]_vars => ReplicaInv' /\ [Replica!Next]_(Replica!vars)
  BY EveryStepMoves, ReplicaMoves DEF LogInv
<1>3. Spec => []Inv
  BY ScheduleAgentInvariant
<1> HIDE DEF Inv
<1> QED BY <1>1, <1>2, <1>3, PTL DEF Spec, ImplementsScheduleReplica, Replica!Spec
============================================================================
