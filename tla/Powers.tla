------------------------------- MODULE Powers ------------------------------
(***************************************************************************)
(* Powers of two: widths of trees, by their depths (1 << depth).           *)
(***************************************************************************)
EXTENDS Integers

pow2[k \in Nat] == IF k = 0 THEN 1 ELSE 2 * pow2[k - 1]
============================================================================
