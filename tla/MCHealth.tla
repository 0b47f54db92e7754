------------------------------ MODULE MCHealth ------------------------------
(***************************************************************************)
(* Values of Health's and HeadTracking's constants for TLC.                *)
(***************************************************************************)
EXTENDS Health

CONSTANT s1
=============================================================================
