---------------------------- MODULE ReleaseLife ----------------------------
(***************************************************************************)
(* What the platform promises about a release: the state machine of        *)
(* release-model.md as the code has it, and what channels may show.        *)
(*                                                                         *)
(*   status   the release's state                                          *)
(*   sound    all its declared objects are stored and pass validation      *)
(*   shown    the release a channel points to, or NoRelease                *)
(*                                                                         *)
(* A release moves only forward; nothing unsound gets past validation; a   *)
(* reviewer decides once; a channel only ever gets approved releases; and  *)
(* what was submitted does not change any more.                            *)
(***************************************************************************)
CONSTANTS Releases, Channels, NoRelease

VARIABLES status, sound, shown

vars == <<status, sound, shown>>

Open == {"absent", "draft", "uploading"}

Init ==
  /\ status = [r \in Releases |-> "absent"]
  /\ sound \in [Releases -> BOOLEAN]
  /\ shown = [c \in Channels |-> NoRelease]

Move(r, from, to) ==
  /\ status[r] \in from
  /\ status' = [status EXCEPT ![r] = to]
  /\ UNCHANGED <<sound, shown>>

Create(r)  == Move(r, {"absent"}, "draft")
Upload(r)  == Move(r, {"draft"}, "uploading")
Submit(r)  == Move(r, {"draft", "uploading"}, "validating")
Pass(r)    == sound[r] /\ Move(r, {"validating"}, "ready")
Approve(r) == Move(r, {"ready"}, "approved")
Reject(r)  == Move(r, {"validating", "ready"}, "rejected")

Complete(r) ==
  /\ status[r] \in Open
  /\ sound' = [sound EXCEPT ![r] = TRUE]
  /\ UNCHANGED <<status, shown>>

Show(c, r) ==
  /\ status[r] = "approved"
  /\ shown' = [shown EXCEPT ![c] = r]
  /\ UNCHANGED <<status, sound>>

Next ==
  \/ \E r \in Releases : Create(r) \/ Upload(r) \/ Submit(r) \/ Pass(r) \/ Approve(r) \/ Reject(r)
                         \/ Complete(r)
  \/ \E c \in Channels, r \in Releases : Show(c, r)

Spec == Init /\ [][Next]_vars
=============================================================================
