------------------------------- MODULE Sums --------------------------------
(***************************************************************************)
(* Sums of integer-valued functions over an initial segment 1..n, written  *)
(* as a recursive function so that modules with proofs can use them, and   *)
(* over a finite set, whose members are listed for it.                     *)
(***************************************************************************)
EXTENDS Integers, FiniteSets

\* PartialSums(f, n)[i] = f[1] + ... + f[i], for i in 0..n.
PartialSums(f, n) ==
  LET sums[i \in 0..n] == IF i = 0 THEN 0 ELSE sums[i - 1] + f[i]
  IN  sums

\* f[1] + ... + f[n].
SumTo(f, n) == PartialSums(f, n)[n]

\* The members of a finite set, each of them once.
Listing(S) ==
  CHOOSE l \in [1..Cardinality(S) -> S] :
    /\ \A i, j \in 1..Cardinality(S) : l[i] = l[j] => i = j
    /\ \A x \in S : \E i \in 1..Cardinality(S) : l[i] = x

\* The sum of f[x] over the members x of S.
SumOver(f, S) == SumTo([i \in 1..Cardinality(S) |-> f[Listing(S)[i]]], Cardinality(S))
=============================================================================
