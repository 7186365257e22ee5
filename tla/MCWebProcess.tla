---------------------------- MODULE MCWebProcess ----------------------------
(***************************************************************************)
(* One handler saves up to two tasks, one end of the process, one failed   *)
(* deletion.                                                               *)
(***************************************************************************)
EXTENDS WebProcess, TLC

CONSTANTS r1, s1, t1, t2, b1, b2

=============================================================================
