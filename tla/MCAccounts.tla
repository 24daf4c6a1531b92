----------------------------- MODULE MCAccounts -----------------------------
(***************************************************************************)
(* Accounts on small instances.                                            *)
(***************************************************************************)
EXTENDS Accounts, TLC

\* Whatever the constants name is interchangeable with its like.
Symmetry ==
    UNION {Permutations(S) : S \in {User, Link, Address, Number, Value, Request}}

=============================================================================
