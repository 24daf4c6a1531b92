--------------------------- MODULE MCAuthSessions ---------------------------
(***************************************************************************)
(* AuthSessions on small instances.                                        *)
(***************************************************************************)
EXTENDS AuthSessions, TLC

\* Accounts, tokens and requests are interchangeable.
Symmetry == Permutations(User) \cup Permutations(Token) \cup Permutations(Request)

=============================================================================
