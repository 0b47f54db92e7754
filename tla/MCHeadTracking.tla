--------------------------- MODULE MCHeadTracking ---------------------------
(***************************************************************************)
(* Values of HeadTracking's constants for TLC.                             *)
(***************************************************************************)
EXTENDS HeadTracking

CONSTANTS s1, t1, t2
=============================================================================
