----------------------------- MODULE MCMigrate -----------------------------
(***************************************************************************)
(* Migrate on small instances.                                             *)
(***************************************************************************)
EXTENDS Migrate, TLC

CONSTANTS sumA, sumB, sumC

\* The first release, the next one, one that skipped a version, and one whose
\* first file was edited after it had shipped.
Releases == {1 :> sumA,
             (1 :> sumA) @@ (2 :> sumB),
             (1 :> sumA) @@ (3 :> sumC),
             (1 :> sumC) @@ (2 :> sumB)}

OneRelease == {(1 :> sumA) @@ (2 :> sumB)}

=============================================================================
