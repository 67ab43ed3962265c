---------------------------- MODULE MCThreadTimer ----------------------------
(***************************************************************************)
(* Model-checking instance of ThreadTimer.  The objects are their addresses,*)
(* enough of them for joins and departures below, at and above the entry   *)
(* a walk is at.  Addresses are ordered, so there is no symmetry to use.   *)
(***************************************************************************)
EXTENDS ThreadTimer
=============================================================================
