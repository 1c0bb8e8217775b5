-------------------------- MODULE ScheduleReplica --------------------------
(***************************************************************************)
(* A replica that lags behind its authority, without requests, deltas or   *)
(* leases.                                                                 *)
(*                                                                         *)
(*   latest     the revision of the authority                              *)
(*   published  what it made public, per revision; that stays as it is     *)
(*   at, held   the revision of the replica, and what it holds             *)
(*                                                                         *)
(* The promises: the replica holds what was published at one revision, all *)
(* of it and nothing else, and never returns to an earlier revision.       *)
(***************************************************************************)
EXTENDS Integers

CONSTANT Items

VARIABLES latest, published, at, held

vars == <<latest, published, at, held>>

Init ==
  /\ latest = 0
  /\ published = [k \in {0} |-> {}]
  /\ at = 0
  /\ held = {}

\* Later revisions are published, whatever their content.
Publish ==
  /\ latest' \in Nat /\ latest' >= latest
  /\ DOMAIN published' = 0 .. latest'
  /\ \A k \in 0 .. latest : published'[k] = published[k]
  /\ \A k \in 0 .. latest' : published'[k] \subseteq Items
  /\ UNCHANGED <<at, held>>

CatchUp ==
  \E k \in at .. latest :
    /\ at' = k
    /\ held' = published[k]
    /\ UNCHANGED <<latest, published>>

Next == Publish \/ CatchUp

Spec == Init /\ [][Next]_vars
=============================================================================
