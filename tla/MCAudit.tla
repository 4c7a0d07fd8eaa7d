------------------------------ MODULE MCAudit -------------------------------
(***************************************************************************)
(* Two goroutines, three events, three days of which two end, a row kept   *)
(* for one day, a ring shorter than the events, one failure and one end of *)
(* the process.                                                            *)
(***************************************************************************)
EXTENDS Audit

CONSTANTS w1, w2
=============================================================================
