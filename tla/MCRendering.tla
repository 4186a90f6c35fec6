---------------------------- MODULE MCRendering ----------------------------
(* Rendering over the characters the conversions tell apart.                *)
EXTENDS Rendering

TheKinds == {"address", "bytes", "name", "body", "path"}

\* % 2 F f g / \ " and a byte above ASCII; every byte; a letter, an emoji, a
\* two-byte letter, space, ideographic space, zero-width space, backslash, quote, a C1
\* control and the characters of a closing tag; those, backslash and newline; slash, dot and a
\* letter.
TheAlphabet ==
  [address |-> {37, 50, 70, 102, 103, 47, 92, 34, 255},
   bytes |-> 0..255,
   name |-> {97, 128512, 233, 32, 12288, 8203, 92, 34, 133, 60, 47, 84},
   body |-> {60, 47, 84, 92, 10},
   path |-> {47, 46, 97}]

TheLengths == [address |-> 5, bytes |-> 2, name |-> 5, body |-> 7, path |-> 7]

TheTempDir == <<47, 116>>
TheFallback == <<47, 102>>
TheCwds == {<<47, 119>>, NoPath}

\* None; absolute, but with a ".." to clean; relative.
ThePrefixes == {<<>>, <<47, 112, 47, 46, 46>>, <<46, 46>>, <<112>>}

\* Of a PID of one digit, and of two.
TheFiles == {<<57, 115>>, <<49, 48, 115>>}
=============================================================================
