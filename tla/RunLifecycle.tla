---------------------------- MODULE RunLifecycle ---------------------------
(***************************************************************************)
(* What the platform promises to somebody who watches a desktop run, with  *)
(* no Agent tables, outbox or network in sight.                            *)
(*                                                                         *)
(*   status     what the control plane shows                               *)
(*   requested  a cancellation was asked for                               *)
(*   work       what the device does on behalf of the run: "active" while  *)
(*              one of its tasks has authority, then how that task ended   *)
(*                                                                         *)
(* The promises: a finished run stays finished; it succeeded only if its   *)
(* work did; it is cancelled only on request; and from the moment it is    *)
(* finished or handed to its user the device does not work on it again.    *)
(***************************************************************************)
CONSTANT Runs

VARIABLES status, requested, work

vars == <<status, requested, work>>

Status == {"absent", "waiting", "assigned", "blocked", "succeeded", "failed", "cancelled"}
Work   == {"idle", "active", "succeeded", "failed", "stopped"}
Settled == {"blocked", "succeeded", "failed", "cancelled"}

Init ==
  /\ status = [r \in Runs |-> "absent"]
  /\ requested = [r \in Runs |-> FALSE]
  /\ work = [r \in Runs |-> "idle"]

\* The status of r goes from a state in `from` to `to` while the work of r allows it.
Move(r, from, to, allowed) ==
  /\ status[r] \in from
  /\ work[r] \in allowed
  /\ status' = [status EXCEPT ![r] = to]
  /\ UNCHANGED <<requested, work>>

\* One or more runs are decided together: taken up by the device, or refused.
Decide(S, to) ==
  /\ S # {}
  /\ \A r \in S : status[r] = "waiting"
  /\ status' = [r \in Runs |-> IF r \in S THEN to ELSE status[r]]
  /\ UNCHANGED <<requested, work>>

Submit(r)  == Move(r, {"absent"}, "waiting", {"idle"})
Block(r)   == Move(r, {"assigned"}, "blocked", {"idle"})
Succeed(r) == Move(r, {"assigned"}, "succeeded", {"succeeded"})
Fail(r)    == Move(r, {"assigned"}, "failed", {"idle", "failed", "stopped"})
Cancel(r)  == requested[r] /\ Move(r, {"assigned", "blocked"}, "cancelled", Work \ {"active"})

RequestCancel(r) ==
  /\ status[r] \in {"waiting", "assigned", "blocked"}
  /\ ~requested[r]
  /\ requested' = [requested EXCEPT ![r] = TRUE]
  /\ status' = [status EXCEPT ![r] = IF @ = "waiting" THEN "cancelled" ELSE @]
  /\ UNCHANGED work

\* The device starts to work on assigned runs and ends active works.  It may
\* note the outcome of a work later than its end (idle in between), or never,
\* when a crash comes first.
WorkProceeds ==
  /\ UNCHANGED <<status, requested>>
  /\ work' \in [Runs -> Work]
  /\ \A r \in Runs :
       \/ work'[r] = work[r]
       \/ work[r] = "active"
       \/ work[r] = "idle" /\ status[r] = "assigned"

Next ==
  \/ WorkProceeds
  \/ \E r \in Runs : \/ Submit(r) \/ Block(r) \/ Succeed(r) \/ Fail(r) \/ Cancel(r)
                     \/ RequestCancel(r)
  \/ \E S \in SUBSET Runs : Decide(S, "assigned") \/ Decide(S, "failed")

Spec == Init /\ [][Next]_vars
=============================================================================
