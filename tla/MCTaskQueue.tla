---------------------------- MODULE MCTaskQueue ----------------------------
(***************************************************************************)
(* Two tasks; buffers enough for every goroutine to hold two.              *)
(***************************************************************************)
EXTENDS TaskQueue, TLC

CONSTANTS s1, s2, t1, t2, b1, b2, b3, b4

=============================================================================
