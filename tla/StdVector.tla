----------------------------- MODULE StdVector ------------------------------
(***************************************************************************)
(* std::vector doubles its capacity, so n elements live in a block whose   *)
(* size is the least power of two that holds them.  Growing from n to m    *)
(* elements moves them to another block, and frees the one that iterators  *)
(* taken at n point into, iff a power of two lies between.                 *)
(***************************************************************************)
EXTENDS Naturals

Reallocated(n, m) == \E e \in 0 .. m : n <= 2 ^ e /\ 2 ^ e < m

=============================================================================
