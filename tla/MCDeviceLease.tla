---------------------------- MODULE MCDeviceLease ----------------------------
(* A small instance of DeviceLease for TLC.  There is no symmetry: the run  *)
(* checks liveness as well.                                                *)
EXTENDS DeviceLease
=============================================================================
