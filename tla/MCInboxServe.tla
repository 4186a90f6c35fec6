---------------------------- MODULE MCInboxServe ----------------------------
(* InboxServe for two connections, which are interchangeable.              *)
EXTENDS InboxServe, TLC

CONSTANTS k1, k2

\* An auth line before a frame, a frame of two lines, a line too long.
AuthThenReceipt == <<"other", "receipt">>
ReceiptThenUser == <<"receipt", "user">>
TooLong == <<"big">>

TheScripts == {AuthThenReceipt, ReceiptThenUser, TooLong}
ShortScripts == {<<"receipt">>, TooLong}

Symmetric == Permutations({k1, k2})
=============================================================================
