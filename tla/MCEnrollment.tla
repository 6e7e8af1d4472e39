---------------------------- MODULE MCEnrollment ----------------------------
(* One device and up to two claims for it. *)
EXTENDS Enrollment

MCDeviceOf == [c \in Claims |-> "d1"]
=============================================================================
