----------------------------- MODULE MCAccounts -----------------------------
(***************************************************************************)
(* Accounts: two users who share a browser; two overlapping requests.      *)
(* Listing: pages of two, three items told of, four jobs; two overlapping  *)
(* requests and the reader; one statement that fails.                      *)
(***************************************************************************)
EXTENDS UserTables, TLC

CONSTANTS ann, bob, old, new, b1, r1, r2

Interchangeable == Permutations(User) \union Permutations(Request)

=============================================================================
