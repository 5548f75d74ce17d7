------------------------------ MODULE Builtins ------------------------------
(***************************************************************************)
(* What the computations on clips take from the language: min and max of   *)
(* two numbers, sum, and the order in which sorted leaves a list.          *)
(***************************************************************************)
EXTENDS Integers, Sequences, SequencesExt

Least(a, b) == IF a <= b THEN a ELSE b
Greatest(a, b) == IF a >= b THEN a ELSE b

(* The sum of a sequence of numbers.                                        *)
Sum(numbers) == FoldLeft(LAMBDA total, number : total + number, 0, numbers)

(* The indices of a sequence by the key that each element has; those with   *)
(* the same key keep their order (the sort is stable).                      *)
Sorts(order, key) ==
  /\ \A k \in DOMAIN key : \E i \in DOMAIN key : order[i] = k
  /\ \A i, j \in DOMAIN key : i < j =>
       \/ key[order[i]] < key[order[j]]
       \/ key[order[i]] = key[order[j]] /\ order[i] < order[j]
Order(key) == CHOOSE order \in [DOMAIN key -> DOMAIN key] : Sorts(order, key)
=============================================================================
