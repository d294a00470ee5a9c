---------------------------- MODULE MCGrabReport ----------------------------
(* GrabReport for TLC; the bounds are explained in README.md. *)
EXTENDS GrabReport
=============================================================================
