------------------------------ MODULE MCPages ------------------------------
(***************************************************************************)
(* PageCache: two browsers, two requests in flight.                        *)
(* Cookies: a visitor with two tabs, and another one; four requests.       *)
(***************************************************************************)
EXTENDS WebPages, TLC

CONSTANTS b1, b2, r1, r2, v1, v2, t1, t2, t3, m1, m2, k1, k2

Owners == (t1 :> v1) @@ (t2 :> v1) @@ (t3 :> v2)

\* The tabs of v1 may be exchanged.
Interchangeable ==
    Permutations({t1, t2}) \union Permutations(Msg) \union Permutations(Token)

=============================================================================
