---------------------------- MODULE MCPageCache ----------------------------
(***************************************************************************)
(* Two browsers, two requests in flight.                                   *)
(***************************************************************************)
EXTENDS PageCache, TLC

CONSTANTS b1, b2, r1, r2

Interchangeable == Permutations(Browser) \union Permutations(Request)

=============================================================================
