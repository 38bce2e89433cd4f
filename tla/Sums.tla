-------------------------------- MODULE Sums --------------------------------
(***************************************************************************)
(* Finite sums of natural and integer valued functions.                    *)
(*                                                                         *)
(* A sum is the size of a set of unit tokens, f[x] of them for every x, so *)
(* that what is proved about it rests on the cardinality of finite sets    *)
(* (module SumLemmas) and needs no induction.                              *)
(***************************************************************************)
EXTENDS Integers, FiniteSets

\* The unit tokens of f over S: one pair <<x, i>> for each unit of f[x].
Tokens(f, S) == UNION {{x} \X (1 .. f[x]) : x \in S}

\* The sum of the natural numbers f[x], x \in S.
NatSum(f, S) == Cardinality(Tokens(f, S))

\* The positive and the negative part of an integer.
Pos(n) == IF n > 0 THEN n ELSE 0
Neg(n) == IF n < 0 THEN -n ELSE 0

\* The sum of the integers f[x], x \in S.
IntSum(f, S) == NatSum([x \in S |-> Pos(f[x])], S)
                - NatSum([x \in S |-> Neg(f[x])], S)

Least(m, n) == IF m <= n THEN m ELSE n
=============================================================================
