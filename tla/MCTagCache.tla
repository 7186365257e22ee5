----------------------------- MODULE MCTagCache -----------------------------
(***************************************************************************)
(* Two goroutines, keys and tags.                                          *)
(***************************************************************************)
EXTENDS TagCache, TLC

CONSTANTS p1, p2, k1, k2, t1, t2

Interchangeable ==
    Permutations(Proc) \union Permutations(Key) \union Permutations(Tag)

=============================================================================
