----------------------------- MODULE Addresses -----------------------------
(***************************************************************************)
(* The percent-encoding of socket paths in "uds:" addresses: addr.go, and  *)
(* validAddress of message.go.  A string is the sequence of its bytes; an  *)
(* address is what follows its "uds:".                                     *)
(***************************************************************************)
EXTENDS Naturals, Sequences, SequencesExt

Percent == 37
Backslash == 92

\* Mutant of Safe: the percent sign stands for itself.
SafePercent(b) ==
  b \in 65..90 \cup 97..122 \cup 48..57 \cup {58, 95, 47, 46, Backslash, 45, Percent}

\* A-Z a-z 0-9 : _ / . \ -
Safe(b) == b \in 65..90 \cup 97..122 \cup 48..57 \cup {58, 95, 47, 46, Backslash, 45}

\* %02X of a byte.
HexDigit(n) == IF n < 10 THEN 48 + n ELSE 55 + n
Escaped(b) == <<Percent, HexDigit(b \div 16), HexDigit(b % 16)>>

Address(path) ==
  FlattenSeq([i \in DOMAIN path |-> IF Safe(path[i]) THEN <<path[i]>> ELSE Escaped(path[i])])

IsHex(c) == c \in 48..57 \cup 97..102 \cup 65..70
Unhex(c) == IF c < 65 THEN c - 48 ELSE IF c < 97 THEN c - 55 ELSE c - 87

\* An escape with both its digits begins at i.
EscapeAt(s, i) == i + 2 <= Len(s) /\ s[i] = Percent /\ IsHex(s[i + 1]) /\ IsHex(s[i + 2])

\* percentDecode: what is not a whole escape stays as it is.
PercentDecode(s) ==
  LET from[i \in 1..Len(s) + 1] ==
        IF i > Len(s) THEN <<>>
        ELSE IF EscapeAt(s, i) THEN <<16 * Unhex(s[i + 1]) + Unhex(s[i + 2])>> \o from[i + 3]
        ELSE <<s[i]>> \o from[i + 1]
  IN from[1]

\* Mutants of ValidAddress: one digit is looked at; anything but a stray
\* percent sign passes.
ValidOneDigit(s) ==
  LET from[i \in 1..Len(s) + 1] ==
        \/ i > Len(s)
        \/ i <= Len(s) /\ Safe(s[i]) /\ from[i + 1]
        \/ i + 2 <= Len(s) /\ s[i] = Percent /\ IsHex(s[i + 1]) /\ from[i + 3]
  IN from[1]
ValidLoose(s) ==
  LET from[i \in 1..Len(s) + 1] ==
        \/ i > Len(s)
        \/ i <= Len(s) /\ s[i] # Percent /\ from[i + 1]
        \/ EscapeAt(s, i) /\ from[i + 3]
  IN from[1]

\* validAddress: safe bytes and whole escapes.
ValidAddress(s) ==
  LET from[i \in 1..Len(s) + 1] ==
        \/ i > Len(s)
        \/ i <= Len(s) /\ Safe(s[i]) /\ from[i + 1]
        \/ EscapeAt(s, i) /\ from[i + 3]
  IN from[1]
=============================================================================
