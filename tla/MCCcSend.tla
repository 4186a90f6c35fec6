------------------------------ MODULE MCCcSend ------------------------------
(* CcSend for two runs, which get PIDs of their own or one after another.   *)
EXTENDS CcSend

\* With and without --wait-receipt, with it after the text, without a target,
\* without text, with a bad --from.
TheCommands ==
  {<<"target", "wait", "word">>, <<"target", "word">>, <<"target", "word", "wait">>,
   <<"wait", "word">>, <<"target", "wait">>, <<"badfrom", "target", "word">>}

Waiting == {<<"target", "wait", "word">>}
=============================================================================
