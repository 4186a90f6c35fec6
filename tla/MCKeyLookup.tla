---------------------------- MODULE MCKeyLookup ----------------------------
(* KeyLookup for three PIDs, which are interchangeable.                     *)
EXTENDS KeyLookup, TLC

CONSTANTS q1, q2, q3

Symmetric == Permutations({q1, q2, q3})
=============================================================================
