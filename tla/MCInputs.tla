------------------------------ MODULE MCInputs ------------------------------
(***************************************************************************)
(* Inputs at the boundaries of its rules.                                  *)
(***************************************************************************)
EXTENDS Inputs, TLC

\* Accounts are alike.
Symmetry == Permutations(User)

\* The lengths at which the policy changes its mind, in one byte a character and
\* in four; two passwords of each kind.
MCPassword ==
  {[text |-> <<t, n, k, b>>, chars |-> n, bytes |-> k * n, blank |-> b] :
     t \in {1, 2}, n \in {7, 8, 128, 129}, k \in {1, 4}, b \in BOOLEAN}

\* DefaultHasher, another valid one, each extreme, and parameters beyond.
Default == [memory |-> 64 * 1024, time |-> 3, threads |-> 2, saltBytes |-> 16, keyBytes |-> 32]

MCHasher ==
  {Default,
   [Default EXCEPT !.time = 4],
   [memory |-> 8, time |-> 1, threads |-> 1, saltBytes |-> 8, keyBytes |-> 16],
   [memory |-> 1024 * 1024, time |-> 32, threads |-> 16, saltBytes |-> 64, keyBytes |-> 64],
   [Default EXCEPT !.memory = 15], [Default EXCEPT !.threads = 0], [Default EXCEPT !.time = 33]}

Indonesia == <<"6", "2">>
Other == <<"1">>
Eights(n) == [i \in 1..n |-> "8"]

\* The shortest and the longest number and one beyond each, one of everyday
\* length, one whose digits hold a zero, and a foreign one.
MCNumber ==
  {<<Indonesia, Eights(4)>>, <<Indonesia, Eights(5)>>, <<Indonesia, Eights(13)>>,
   <<Indonesia, Eights(14)>>, <<Indonesia, <<"8", "0", "0", "2", "1", "0", "6", "2">>>>,
   <<Other, Eights(9)>>}
=============================================================================
