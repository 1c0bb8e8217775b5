-------------------------- MODULE MCDeviceEnrollment -------------------------
(* Constants of the TLC instance of DeviceEnrollment. *)
EXTENDS DeviceEnrollment

CONSTANTS o1, o2, w1, w2, x1, x2
=============================================================================
