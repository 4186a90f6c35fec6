---------------------------- MODULE MCInboxBind ----------------------------
(* InboxBind for three calls, which are interchangeable.                    *)
EXTENDS InboxBind, TLC

CONSTANTS c1, c2, c3

Symmetric == Permutations({c1, c2, c3})
=============================================================================
