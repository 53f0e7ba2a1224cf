----------------------------- MODULE Selections -----------------------------
(***************************************************************************)
(* Taking some of the places 1..n of a sequence, in their order: what a    *)
(* filter and a stable sort do, said without a recursion.                  *)
(***************************************************************************)
EXTENDS Integers

(* The places of K, in their order: one function, for K within 1..n.       *)
Kept(n, K) ==
  {p \in UNION {[1..m -> 1..n] : m \in 0..n} :
     /\ \A i, j \in DOMAIN p : i < j => p[i] < p[j]
     /\ {p[i] : i \in DOMAIN p} = K}

(* All places, those of K first, otherwise in their order.                 *)
Before(K, x, y) == IF x \in K THEN y \in K => x < y ELSE y \notin K /\ x < y

Stable(n, K) == {p \in [1..n -> 1..n] : \A i, j \in 1..n : i < j => Before(K, p[i], p[j])}
=============================================================================
