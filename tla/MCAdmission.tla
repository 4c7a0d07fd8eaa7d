---------------------------- MODULE MCAdmission -----------------------------
(***************************************************************************)
(* The default configuration in units of 5 %: cap 95, soft 80, floor 60,   *)
(* margin 10.  Samples: idle, below soft but above the floor, full.       *)
(***************************************************************************)
EXTENDS Admission

MCSamples == {0, 14, 20}
=============================================================================
