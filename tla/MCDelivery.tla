----------------------------- MODULE MCDelivery -----------------------------
(* Delivery on small sets; PIDs and session IDs are interchangeable.        *)
EXTENDS Delivery, TLC

CONSTANTS p1, p2, s1, s2, n1

Symmetric == Permutations({p1, p2}) \cup Permutations({s1, s2})
=============================================================================
