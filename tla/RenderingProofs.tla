-------------------------- MODULE RenderingProofs --------------------------
(***************************************************************************)
(* Proofs about Rendering, for strings of any length over any characters:  *)
(* what the conversions of addr.go, message.go and paths.go owe each       *)
(* other.                                                                  *)
(***************************************************************************)
EXTENDS Rendering, Recursion

-----------------------------------------------------------------------------
(* Addresses                                                               *)

\* The byte an escape at i stands for.
ByteAt(s, i) == 16 * Unhex(s[i + 1]) + Unhex(s[i + 2])

\* Hexadecimal digits have values.
LEMMA UnhexType == ASSUME NEW c \in Nat, IsHex(c) PROVE Unhex(c) \in 0..15
BY DEF IsHex, Unhex

\* The function by which percentDecode goes through an address.
LEMMA DecodeStep ==
  ASSUME NEW s \in Seq(Nat)
  PROVE  \E f \in [1..Len(s) + 1 -> Seq(Nat)] :
           /\ PercentDecode(s) = f[1] /\ f[Len(s) + 1] = <<>>
           /\ \A i \in 1..Len(s) :
                /\ EscapeAt(s, i) => f[i] = <<ByteAt(s, i)>> \o f[i + 3]
                /\ ~EscapeAt(s, i) => f[i] = <<s[i]>> \o f[i + 1]
<1> DEFINE S == 1..Len(s) + 1
           V == Seq(Nat)
           m == [i \in S |-> Len(s) + 1 - i]
           At(f, i) == IF i > Len(s) THEN <<>>
                       ELSE IF EscapeAt(s, i) THEN <<ByteAt(s, i)>> \o f[i + 3]
                       ELSE <<s[i]>> \o f[i + 1]
           Def(f) == [i \in S |-> At(f, i)]
           F == [f \in [S -> V] |-> Def(f)]
           from == CHOOSE f : f = Def(f)
<1>1. Len(s) \in Nat /\ \A i \in 1..Len(s) : s[i] \in Nat
  OBVIOUS
<1>2. ASSUME NEW i \in S, ~(i > Len(s))
      PROVE  /\ i + 1 \in S /\ m[i + 1] < m[i] /\ s[i] \in Nat
             /\ EscapeAt(s, i) => i + 3 \in S /\ m[i + 3] < m[i] /\ ByteAt(s, i) \in Nat
  <2>1. i \in 1..Len(s) /\ i + 1 \in S /\ m[i + 1] < m[i] /\ s[i] \in Nat
    BY <1>1, <1>2
  <2>2. ASSUME EscapeAt(s, i)
        PROVE  i + 3 \in S /\ m[i + 3] < m[i] /\ ByteAt(s, i) \in Nat
    <3>1. i + 1 \in 1..Len(s) /\ i + 2 \in 1..Len(s) /\ IsHex(s[i + 1]) /\ IsHex(s[i + 2])
      BY <1>1, <2>2 DEF EscapeAt
    <3>2. Unhex(s[i + 1]) \in 0..15 /\ Unhex(s[i + 2]) \in 0..15
      <4>1. s[i + 1] \in Nat /\ s[i + 2] \in Nat
        BY <1>1, <3>1
      <4> QED BY <3>1, <4>1, UnhexType
    <3>3. ByteAt(s, i) \in Nat
      <4> DEFINE a == Unhex(s[i + 1])  b == Unhex(s[i + 2])
      <4>1. a \in 0..15 /\ b \in 0..15
        BY <3>2
      <4> HIDE DEF a, b
      <4>2. 16 * a + b \in Nat
        BY ONLY <4>1
      <4> QED BY <4>2 DEF ByteAt, a, b
    <3>4. i \in Nat /\ i + 2 <= Len(s)
      BY <1>1, <3>1
    <3>5. i + 3 \in S
      BY <1>1, <3>4
    <3>6. m[i + 3] < m[i]
      <4>1. m[i + 3] = Len(s) + 1 - (i + 3) /\ m[i] = Len(s) + 1 - i
        BY <3>5
      <4> QED BY ONLY <1>1, <3>4, <4>1
    <3> QED BY <3>3, <3>5, <3>6
  <2> QED BY <2>1, <2>2
<1>3. ASSUME NEW g, NEW i \in S, \A j \in S : m[j] < m[i] => g[j] \in V
      PROVE  At(g, i) \in V
  <2>1. CASE i > Len(s)
    BY <2>1
  <2>2. CASE ~(i > Len(s)) /\ EscapeAt(s, i)
    <3>1. g[i + 3] \in V /\ <<ByteAt(s, i)>> \in V
      <4>1. i + 3 \in S /\ m[i + 3] < m[i] /\ ByteAt(s, i) \in Nat
        BY <1>2, <2>2
      <4>2. g[i + 3] \in V
        BY <1>3, <4>1
      <4> QED BY <4>1, <4>2
    <3> QED BY <2>2, <3>1
  <2>3. CASE ~(i > Len(s)) /\ ~EscapeAt(s, i)
    <3>1. g[i + 1] \in V /\ <<s[i]>> \in V
      <4>1. i + 1 \in S /\ m[i + 1] < m[i] /\ s[i] \in Nat
        BY <1>2, <2>3
      <4>2. g[i + 1] \in V
        BY <1>3, <4>1
      <4> QED BY <4>1, <4>2
    <3> QED BY <2>3, <3>1
  <2> QED BY <2>1, <2>2, <2>3
<1>4. Descends(F, S, V, m)
  <2>1. ASSUME NEW g \in [S -> V] PROVE Def(g) \in [S -> V]
    BY <1>3
  <2>2. ASSUME NEW i \in S, NEW g \in [S -> V], NEW h \in [S -> V],
               \A j \in S : m[j] < m[i] => g[j] = h[j]
        PROVE  Def(g)[i] = Def(h)[i]
    BY <1>2, <2>2
  <2>3. m \in [S -> 0..Len(s)]
    BY <1>1
  <2> HIDE DEF Def
  <2> QED BY <1>1, <2>1, <2>2, <2>3 DEF Descends
<1>5. \E g : g = Def(g)
  <2> SUFFICES \E g \in [S -> V] : g = F[g]
    OBVIOUS
  <2>1. V # {}
    BY <1>1
  <2> HIDE DEF F, V, m, S
  <2> QED BY ONLY <1>4, <2>1, FixedPoint
<1>6. from = Def(from)
  <2> HIDE DEF Def
  <2> QED BY <1>5
<1>7. PercentDecode(s) = from[1]
  BY DEF PercentDecode, ByteAt
<1> HIDE DEF from
<1>8. \A i \in S : from[i] = At(from, i)
  BY <1>6
<1>9. from \in [S -> V]
  <2> DEFINE T == {i \in S : from[i] \in V}
  <2>1. ASSUME NEW i \in S, \A j \in i + 1..Len(s) + 1 : j \in T PROVE i \in T
    <3>1. \A j \in S : m[j] < m[i] => j \in i + 1..Len(s) + 1
      BY <1>1
    <3>2. At(from, i) \in V
      BY <1>3, <2>1, <3>1
    <3> QED BY <1>8, <3>2
  <2>2. S \subseteq T
    <3> HIDE DEF T
    <3> QED BY <1>1, <2>1, DownInduction
  <2> QED BY <1>6, <2>2
<1>10. 1 \in S /\ Len(s) + 1 \in S /\ \A i \in 1..Len(s) : i \in S /\ ~(i > Len(s))
  BY <1>1
<1>11. /\ from[Len(s) + 1] = <<>>
       /\ \A i \in 1..Len(s) :
            /\ EscapeAt(s, i) => from[i] = <<ByteAt(s, i)>> \o from[i + 3]
            /\ ~EscapeAt(s, i) => from[i] = <<s[i]>> \o from[i + 1]
  <2>1. from[Len(s) + 1] = <<>>
    <3>1. from[Len(s) + 1] = At(from, Len(s) + 1) /\ Len(s) + 1 > Len(s)
      BY <1>1, <1>8, <1>10
    <3> QED BY ONLY <3>1
  <2>2. ASSUME NEW i \in 1..Len(s)
        PROVE  /\ EscapeAt(s, i) => from[i] = <<ByteAt(s, i)>> \o from[i + 3]
               /\ ~EscapeAt(s, i) => from[i] = <<s[i]>> \o from[i + 1]
    <3>1. from[i] = At(from, i) /\ ~(i > Len(s))
      BY <1>8, <1>10
    <3> QED BY ONLY <3>1
  <2> QED BY <2>1, <2>2
<1> QED BY <1>7, <1>9, <1>11

\* The function by which validAddress does.
LEMMA ValidStep ==
  ASSUME NEW s \in Seq(Nat)
  PROVE  \E f \in [1..Len(s) + 1 -> BOOLEAN] :
           /\ ValidAddress(s) = f[1] /\ f[Len(s) + 1]
           /\ \A i \in 1..Len(s) :
                f[i] <=> (Safe(s[i]) /\ f[i + 1]) \/ (EscapeAt(s, i) /\ f[i + 3])
<1> DEFINE S == 1..Len(s) + 1
           V == BOOLEAN
           m == [i \in S |-> Len(s) + 1 - i]
           At(f, i) == \/ i > Len(s)
                       \/ i <= Len(s) /\ Safe(s[i]) /\ f[i + 1]
                       \/ EscapeAt(s, i) /\ f[i + 3]
           Def(f) == [i \in S |-> At(f, i)]
           F == [f \in [S -> V] |-> Def(f)]
           from == CHOOSE f : f = Def(f)
<1>1. Len(s) \in Nat
  OBVIOUS
<1>2. ASSUME NEW i \in S
      PROVE  /\ i <= Len(s) => i + 1 \in S /\ m[i + 1] < m[i]
             /\ EscapeAt(s, i) => i + 3 \in S /\ m[i + 3] < m[i]
  <2>1. i <= Len(s) => i + 1 \in S /\ m[i + 1] < m[i]
    BY <1>1
  <2>2. ASSUME EscapeAt(s, i) PROVE i + 3 \in S /\ m[i + 3] < m[i]
    BY <1>1, <2>2 DEF EscapeAt
  <2> QED BY <2>1, <2>2
<1>3. Descends(F, S, V, m)
  <2>1. ASSUME NEW g \in [S -> V] PROVE Def(g) \in [S -> V]
    OBVIOUS
  <2>2. ASSUME NEW i \in S, NEW g \in [S -> V], NEW h \in [S -> V],
               \A j \in S : m[j] < m[i] => g[j] = h[j]
        PROVE  Def(g)[i] = Def(h)[i]
    <3>1. i <= Len(s) => g[i + 1] = h[i + 1]
      BY <1>2, <2>2
    <3>2. EscapeAt(s, i) => g[i + 3] = h[i + 3]
      BY <1>2, <2>2
    <3> HIDE DEF S
    <3> QED BY <3>1, <3>2
  <2>3. m \in [S -> 0..Len(s)]
    BY <1>1
  <2> HIDE DEF Def
  <2> QED BY <1>1, <2>1, <2>2, <2>3 DEF Descends
<1>4. \E g : g = Def(g)
  <2> SUFFICES \E g \in [S -> V] : g = F[g]
    OBVIOUS
  <2>1. V # {}
    OBVIOUS
  <2> HIDE DEF F, V, m, S
  <2> QED BY ONLY <1>3, <2>1, FixedPoint
<1>5. from = Def(from)
  <2> HIDE DEF Def
  <2> QED BY <1>4
<1>6. ValidAddress(s) = from[1]
  BY DEF ValidAddress
<1> HIDE DEF from
<1>7. from \in [S -> BOOLEAN]
  BY <1>5
<1>8. \A i \in S : from[i] = At(from, i)
  BY <1>5
<1>9. \A i \in 1..Len(s) : i \in S /\ ~(i > Len(s)) /\ i <= Len(s)
  BY <1>1
<1>10. from[Len(s) + 1]
  <2>1. Len(s) + 1 \in S /\ Len(s) + 1 > Len(s)
    BY <1>1
  <2> HIDE DEF S
  <2> QED BY <1>8, <2>1
<1>11. ASSUME NEW i \in 1..Len(s)
       PROVE  from[i] <=> (Safe(s[i]) /\ from[i + 1]) \/ (EscapeAt(s, i) /\ from[i + 3])
  <2>1. from[i] = At(from, i) /\ i <= Len(s) /\ ~(i > Len(s))
    BY <1>8, <1>9
  <2> QED BY ONLY <2>1, Zenon
<1> QED BY <1>6, <1>7, <1>10, <1>11

\* A hexadecimal digit written by %02X is read back.
LEMMA HexDigitReads ==
  ASSUME NEW n \in 0..15 PROVE HexDigit(n) \in Nat /\ IsHex(HexDigit(n)) /\ Unhex(HexDigit(n)) = n
BY DEF HexDigit, IsHex, Unhex

\* What is safe is no percent sign.
LEMMA PercentNotSafe == ~Safe(Percent)
BY DEF Safe, Percent, Backslash

\* The pieces of an address.
AddressPieces(p) == [i \in DOMAIN p |-> IF Safe(p[i]) THEN <<p[i]>> ELSE Escaped(p[i])]

\* Each is a safe byte, or a whole escape for its byte.
LEMMA AddressSteps ==
  ASSUME NEW p \in Seq(0..255)
  PROVE  /\ Address(p) \in Seq(Nat)
         /\ \E off \in [1..Len(p) + 1 -> Nat] :
              /\ off[1] = 0 /\ off[Len(p) + 1] = Len(Address(p))
              /\ \A i \in 1..Len(p) :
                   /\ off[i] + 1 \in 1..Len(Address(p))
                   /\ \/ /\ Safe(p[i]) /\ off[i + 1] = off[i] + 1
                         /\ Address(p)[off[i] + 1] = p[i] /\ ~EscapeAt(Address(p), off[i] + 1)
                      \/ /\ EscapeAt(Address(p), off[i] + 1) /\ off[i + 1] = off[i] + 3
                         /\ ByteAt(Address(p), off[i] + 1) = p[i]
<1> DEFINE ss == AddressPieces(p)
           a == Address(p)
<1>1. /\ Len(p) \in Nat /\ DOMAIN p = 1..Len(p) /\ \A i \in 1..Len(p) : p[i] \in 0..255
  BY LenProperties, ElementOfSeq
<1>2. ASSUME NEW b \in 0..255
      PROVE  Escaped(b) \in Seq(Nat) /\ Len(Escaped(b)) = 3 /\ Escaped(b)[1] = Percent
             /\ IsHex(Escaped(b)[2]) /\ IsHex(Escaped(b)[3])
             /\ 16 * Unhex(Escaped(b)[2]) + Unhex(Escaped(b)[3]) = b
  <2>1. b \div 16 \in 0..15 /\ b % 16 \in 0..15 /\ 16 * (b \div 16) + (b % 16) = b
    OBVIOUS
  <2>2. /\ HexDigit(b \div 16) \in Nat /\ HexDigit(b % 16) \in Nat
        /\ IsHex(HexDigit(b \div 16)) /\ IsHex(HexDigit(b % 16))
        /\ Unhex(HexDigit(b \div 16)) = b \div 16 /\ Unhex(HexDigit(b % 16)) = b % 16
    BY <2>1, HexDigitReads
  <2> QED BY <2>1, <2>2 DEF Escaped, Percent
<1>3. ss \in Seq(Seq(Nat)) /\ Len(ss) = Len(p)
  <2>1. \A i \in 1..Len(p) : (IF Safe(p[i]) THEN <<p[i]>> ELSE Escaped(p[i])) \in Seq(Nat)
    <3> TAKE i \in 1..Len(p)
    <3>1. <<p[i]>> \in Seq(Nat) /\ Escaped(p[i]) \in Seq(Nat)
      <4> PICK b \in 0..255 : b = p[i]
        BY ElementOfSeq
      <4>1. Escaped(b) \in Seq(Nat)
        BY <1>2
      <4>2. <<b>> \in Seq(Nat)
        <5>1. b \in Nat
          BY ONLY b \in 0..255
        <5> QED BY ONLY <5>1
      <4> QED BY ONLY <4>1, <4>2, b = p[i]
    <3> QED BY ONLY <3>1
  <2> QED BY <1>1, <2>1 DEF AddressPieces
<1>4. a = FlattenSeq(ss)
  BY DEF Address, AddressPieces
<1>5. a \in Seq(Nat) /\ \E off : Pieces(ss, a, off)
  BY <1>3, <1>4, FlattenPieces
<1> PICK off : Pieces(ss, a, off)
  BY <1>5
<1> HIDE DEF ss, a
<1>6. /\ off \in [1..Len(p) + 1 -> Nat] /\ off[1] = 0 /\ off[Len(p) + 1] = Len(a)
      /\ \A i \in 1..Len(p) :
           /\ off[i + 1] = off[i] + Len(ss[i]) /\ off[i + 1] <= Len(a)
           /\ \A j \in 1..Len(ss[i]) : a[off[i] + j] = ss[i][j]
  BY <1>3 DEF Pieces
<1>7. ASSUME NEW i \in 1..Len(p)
      PROVE  /\ off[i] + 1 \in 1..Len(a)
             /\ \/ /\ Safe(p[i]) /\ off[i + 1] = off[i] + 1
                   /\ a[off[i] + 1] = p[i] /\ ~EscapeAt(a, off[i] + 1)
                \/ /\ EscapeAt(a, off[i] + 1) /\ off[i + 1] = off[i] + 3
                   /\ ByteAt(a, off[i] + 1) = p[i]
  <2>1. off[i] \in Nat /\ Len(a) \in Nat
    BY <1>1, <1>5, <1>6
  <2>2. CASE Safe(p[i])
    <3>1. ss[i] = <<p[i]>>
      BY <1>1, <2>2 DEF ss, AddressPieces
    <3>2. off[i + 1] = off[i] + 1 /\ a[off[i] + 1] = p[i] /\ off[i] + 1 <= Len(a)
      <4>1. Len(ss[i]) = 1 /\ ss[i][1] = p[i] /\ 1 \in 1..Len(ss[i])
        BY <3>1
      <4> QED BY <1>6, <4>1
    <3>3. ~EscapeAt(a, off[i] + 1)
      <4>1. p[i] # Percent
        BY <2>2, PercentNotSafe
      <4> QED BY <3>2, <4>1 DEF EscapeAt
    <3> QED BY <2>1, <2>2, <3>2, <3>3
  <2>3. CASE ~Safe(p[i])
    <3>1. ss[i] = Escaped(p[i]) /\ p[i] \in 0..255
      BY <1>1, <2>3 DEF ss, AddressPieces
    <3>2. /\ off[i + 1] = off[i] + 3 /\ off[i] + 3 <= Len(a) /\ a[off[i] + 1] = ss[i][1]
          /\ a[off[i] + 2] = ss[i][2] /\ a[off[i] + 3] = ss[i][3]
      <4>1. /\ Len(ss[i]) = 3 /\ 1 \in 1..Len(ss[i])
            /\ 2 \in 1..Len(ss[i]) /\ 3 \in 1..Len(ss[i])
        <5> PICK b \in 0..255 : b = p[i]
          BY <3>1
        <5>1. Len(Escaped(b)) = 3
          BY <1>2
        <5>2. ss[i] = Escaped(b)
          BY ONLY <3>1, b = p[i]
        <5>3. Len(ss[i]) = 3
          BY ONLY <5>1, <5>2
        <5> QED BY ONLY <5>3
      <4> QED BY <1>6, <4>1
    <3>3. (off[i] + 1) + 1 = off[i] + 2 /\ (off[i] + 1) + 2 = off[i] + 3
      BY <2>1
    <3>4. EscapeAt(a, off[i] + 1) /\ ByteAt(a, off[i] + 1) = p[i]
      BY <1>2, <3>1, <3>2, <3>3 DEF EscapeAt, ByteAt
    <3> QED BY <2>1, <3>2, <3>4
  <2> QED BY <2>2, <2>3
<1> QED BY <1>5, <1>6, <1>7 DEF a

\* A path rendered as an address is valid, and read back.
LEMMA AddressRoundTrip ==
  ASSUME NEW p \in Seq(0..255)
  PROVE  ValidAddress(Address(p)) /\ PercentDecode(Address(p)) = p
<1> DEFINE a == Address(p)
           L == Len(p)
<1>1. L \in Nat /\ a \in Seq(Nat) /\ Len(a) \in Nat /\ \A i \in 1..L : p[i] \in 0..255
  BY AddressSteps, LenProperties, ElementOfSeq
<1>2. PICK off \in [1..L + 1 -> Nat] :
        /\ off[1] = 0 /\ off[L + 1] = Len(a)
        /\ \A i \in 1..L :
             /\ off[i] + 1 \in 1..Len(a)
             /\ \/ /\ Safe(p[i]) /\ off[i + 1] = off[i] + 1
                   /\ a[off[i] + 1] = p[i] /\ ~EscapeAt(a, off[i] + 1)
                \/ /\ EscapeAt(a, off[i] + 1) /\ off[i + 1] = off[i] + 3
                   /\ ByteAt(a, off[i] + 1) = p[i]
  BY AddressSteps
<1> HIDE DEF a
<1>3. PICK v \in [1..Len(a) + 1 -> BOOLEAN] :
        /\ ValidAddress(a) = v[1] /\ v[Len(a) + 1]
        /\ \A i \in 1..Len(a) :
             v[i] <=> (Safe(a[i]) /\ v[i + 1]) \/ (EscapeAt(a, i) /\ v[i + 3])
  BY <1>1, ValidStep
<1>4. PICK d \in [1..Len(a) + 1 -> Seq(Nat)] :
        /\ PercentDecode(a) = d[1] /\ d[Len(a) + 1] = <<>>
        /\ \A i \in 1..Len(a) :
             /\ EscapeAt(a, i) => d[i] = <<ByteAt(a, i)>> \o d[i + 3]
             /\ ~EscapeAt(a, i) => d[i] = <<a[i]>> \o d[i + 1]
  BY <1>1, DecodeStep
<1> DEFINE T == {i \in 1..L + 1 : v[off[i] + 1] /\ d[off[i] + 1] = SubSeq(p, i, L)}
<1>5. ASSUME NEW i \in 1..L + 1, \A j \in i + 1..L + 1 : j \in T PROVE i \in T
  <2>1. CASE i = L + 1
    <3>1. SubSeq(p, L + 1, L) = <<>>
      BY <1>1, SubSeqEmpty
    <3> QED BY <1>2, <1>3, <1>4, <2>1, <3>1
  <2>2. CASE i # L + 1
    <3>1. i \in 1..L /\ i + 1 \in i + 1..L + 1 /\ L \in i..L
      BY <1>1, <2>2
    <3>2. v[off[i + 1] + 1] /\ d[off[i + 1] + 1] = SubSeq(p, i + 1, L)
      BY <1>5, <3>1
    <3>3. SubSeq(p, i, L) = <<p[i]>> \o SubSeq(p, i + 1, L)
      BY <3>1, SubSeqRecursiveFirst
    <3> DEFINE k == off[i] + 1
    <3>4. k \in 1..Len(a) /\ k \in Nat
      BY <1>1, <1>2, <3>1
    <3>5. CASE Safe(p[i]) /\ off[i + 1] = off[i] + 1 /\ a[k] = p[i] /\ ~EscapeAt(a, k)
      <4>1. off[i + 1] + 1 = k + 1
        BY <3>5
      <4> HIDE DEF k
      <4>2. v[k] /\ d[k] = <<p[i]>> \o d[k + 1]
        BY ONLY <1>3, <1>4, <3>2, <3>4, <3>5, <4>1
      <4>3. d[k] = SubSeq(p, i, L)
        BY ONLY <3>2, <3>3, <4>1, <4>2
      <4> QED BY <4>2, <4>3 DEF k
    <3>6. CASE EscapeAt(a, k) /\ off[i + 1] = off[i] + 3 /\ ByteAt(a, k) = p[i]
      <4>1. off[i + 1] + 1 = k + 3
        BY <1>2, <3>1, <3>6
      <4> HIDE DEF k
      <4>2. v[k] /\ d[k] = <<p[i]>> \o d[k + 3]
        BY ONLY <1>3, <1>4, <3>2, <3>4, <3>6, <4>1
      <4>3. d[k] = SubSeq(p, i, L)
        BY ONLY <3>2, <3>3, <4>1, <4>2
      <4> QED BY <4>2, <4>3 DEF k
    <3> QED BY <1>2, <3>1, <3>5, <3>6
  <2> QED BY <2>1, <2>2
<1>6. 1 \in T
  <2> HIDE DEF T
  <2>1. 1..L + 1 \subseteq T
    BY <1>1, <1>5, DownInduction
  <2> QED BY <1>1, <2>1
<1>7. SubSeq(p, 1, L) = p
  BY SubSeqFull
<1> QED BY <1>2, <1>3, <1>4, <1>6, <1>7 DEF a

\* The percent signs of an address from i on.
Signs(t, i) == {k \in i..Len(t) : t[k] = Percent}

\* There is one more, or as many, as from the next byte on.
LEMMA SignsStep ==
  ASSUME NEW t \in Seq(Nat), NEW i \in 1..Len(t) + 1
  PROVE  /\ Cardinality(Signs(t, i)) \in Nat
         /\ i = Len(t) + 1 => Cardinality(Signs(t, i)) = 0
         /\ i # Len(t) + 1 =>
              Cardinality(Signs(t, i)) =
                Cardinality(Signs(t, i + 1)) + IF t[i] = Percent THEN 1 ELSE 0
<1>1. Len(t) \in Nat /\ i \in Nat
  OBVIOUS
<1>2. ASSUME NEW j \in Nat PROVE IsFiniteSet(Signs(t, j)) /\ Cardinality(Signs(t, j)) \in Nat
  <2>1. IsFiniteSet(j..Len(t))
    <3>1. j \in Int /\ Len(t) \in Int
      BY <1>1
    <3> QED BY ONLY <3>1, FS_Interval
  <2>2. Signs(t, j) \subseteq j..Len(t)
    BY DEF Signs
  <2> QED BY <2>1, <2>2, FS_Subset, FS_CardinalityType
<1>3. i = Len(t) + 1 => Signs(t, i) = {}
  BY <1>1 DEF Signs
<1>4. ASSUME i # Len(t) + 1
      PROVE  Cardinality(Signs(t, i)) =
               Cardinality(Signs(t, i + 1)) + IF t[i] = Percent THEN 1 ELSE 0
  <2>1. i + 1 \in Nat /\ i \notin Signs(t, i + 1)
    BY <1>1 DEF Signs
  <2>2. IsFiniteSet(Signs(t, i + 1)) /\ Cardinality(Signs(t, i + 1)) \in Nat
    BY <1>2, <2>1
  <2>3. CASE t[i] = Percent
    <3>1. Signs(t, i) = Signs(t, i + 1) \cup {i}
      BY <1>1, <1>4, <2>3 DEF Signs
    <3>2. Cardinality(Signs(t, i + 1) \cup {i}) = Cardinality(Signs(t, i + 1)) + 1
      BY <2>1, <2>2, FS_AddElement
    <3> QED BY <2>3, <3>1, <3>2
  <2>4. CASE t[i] # Percent
    <3>1. Signs(t, i) = Signs(t, i + 1)
      BY <1>1, <1>4, <2>4 DEF Signs
    <3> QED BY <2>2, <2>4, <3>1
  <2> QED BY <2>3, <2>4
<1> QED BY <1>1, <1>2, <1>3, <1>4, FS_EmptySet

\* Hexadecimal digits are safe, and no percent signs.
LEMMA HexSafe == ASSUME NEW c, IsHex(c) PROVE Safe(c) /\ c # Percent
BY DEF IsHex, Safe, Percent, Backslash

\* validAddress looks for what percentDecode leaves undone.
LEMMA ValidCounts ==
  ASSUME NEW t \in Seq(Nat)
  PROVE  ValidAddress(t) <=>
           /\ \A i \in 1..Len(t) : Safe(t[i]) \/ t[i] = Percent
           /\ Len(PercentDecode(t)) + 2 * Cardinality(Signs(t, 1)) = Len(t)
<1> DEFINE L == Len(t)
           c(i) == Cardinality(Signs(t, i))
           plain(i) == \A k \in i..L : Safe(t[k]) \/ t[k] = Percent
<1>1. L \in Nat
  OBVIOUS
<1>2. PICK v \in [1..L + 1 -> BOOLEAN] :
        /\ ValidAddress(t) = v[1] /\ v[L + 1]
        /\ \A i \in 1..L : v[i] <=> (Safe(t[i]) /\ v[i + 1]) \/ (EscapeAt(t, i) /\ v[i + 3])
  BY ValidStep
<1>3. PICK d \in [1..L + 1 -> Seq(Nat)] :
        /\ PercentDecode(t) = d[1] /\ d[L + 1] = <<>>
        /\ \A i \in 1..L :
             /\ EscapeAt(t, i) => d[i] = <<ByteAt(t, i)>> \o d[i + 3]
             /\ ~EscapeAt(t, i) => d[i] = <<t[i]>> \o d[i + 1]
  BY DecodeStep
<1> DEFINE D(i) == Len(d[i])
           good(i) == /\ D(i) + 2 * c(i) >= L - i + 1
                      /\ v[i] <=> plain(i) /\ D(i) + 2 * c(i) = L - i + 1
           T == {i \in 1..L + 1 : good(i)}
<1>4. ASSUME NEW i \in 1..L + 1
      PROVE  D(i) \in Nat /\ c(i) \in Nat
  <2>1. d[i] \in Seq(Nat)
    OBVIOUS
  <2>2. D(i) \in Nat
    BY ONLY <2>1, LenProperties
  <2> QED BY <2>2, SignsStep
<1>5. ASSUME NEW x, NEW s \in Seq(Nat) PROVE Len(<<x>> \o s) = Len(s) + 1
  OBVIOUS
<1>6. ASSUME NEW i \in 1..L PROVE plain(i) <=> (Safe(t[i]) \/ t[i] = Percent) /\ plain(i + 1)
  BY <1>1
<1>7. ASSUME NEW i \in 1..L + 1, \A j \in i + 1..L + 1 : j \in T PROVE i \in T
  <2>1. CASE i = L + 1
    <3>1. D(i) = 0 /\ c(i) = 0 /\ v[i] /\ plain(i)
      BY <1>1, <1>2, <1>3, <2>1, SignsStep
    <3>2. L - i + 1 = 0
      BY <1>1, <2>1
    <3> HIDE DEF D, c, plain
    <3> QED BY <3>1, <3>2
  <2>2. CASE i \in 1..L /\ ~EscapeAt(t, i)
    <3>1. i + 1 \in 1..L + 1 /\ good(i + 1)
      BY <1>1, <1>7, <2>2
    <3>2. D(i) = D(i + 1) + 1
      <4>1. d[i + 1] \in Seq(Nat) /\ d[i] = <<t[i]>> \o d[i + 1]
        BY ONLY <1>3, <2>2, <3>1
      <4> QED BY ONLY <1>5, <4>1
    <3>3. c(i) = c(i + 1) + IF t[i] = Percent THEN 1 ELSE 0
      BY <2>2, SignsStep
    <3>4. v[i] <=> Safe(t[i]) /\ v[i + 1]
      BY <1>2, <2>2
    <3>5. plain(i) <=> (Safe(t[i]) \/ t[i] = Percent) /\ plain(i + 1)
      BY <1>6, <2>2
    <3>6. D(i + 1) \in Nat /\ c(i + 1) \in Nat
      BY <1>4, <3>1
    <3>7. Safe(t[i]) => t[i] # Percent
      BY PercentNotSafe
    <3>10. D(i) \in Nat /\ c(i) \in Nat /\ i \in Nat
      BY <1>4
    <3> HIDE DEF D, c, plain
    <3>8. CASE t[i] = Percent
      <4>3. ~v[i]
        BY ONLY <3>4, <3>7, <3>8
      <4>4. c(i) = c(i + 1) + 1
        BY ONLY <3>3, <3>8
      <4>5. D(i + 1) + 2 * c(i + 1) >= L - (i + 1) + 1
        BY ONLY <3>1
      <4>6. D(i) + 2 * c(i) > L - i + 1
        BY ONLY <1>1, <3>2, <3>6, <3>10, <4>4, <4>5
      <4>1. ~v[i] /\ D(i) + 2 * c(i) > L - i + 1
        BY ONLY <4>3, <4>6
      <4>2. D(i) + 2 * c(i) >= L - i + 1 /\ D(i) + 2 * c(i) # L - i + 1
        BY <1>1, <3>10, <4>1
      <4> QED BY <4>1, <4>2
    <3>9. CASE t[i] # Percent
      <4>1. c(i) = c(i + 1)
        BY <3>3, <3>6, <3>9
      <4>2. /\ D(i) + 2 * c(i) >= L - i + 1
            /\ D(i) + 2 * c(i) = L - i + 1 <=> D(i + 1) + 2 * c(i + 1) = L - (i + 1) + 1
        <5>1. D(i + 1) + 2 * c(i + 1) >= L - (i + 1) + 1
          BY ONLY <3>1
        <5>2. D(i) + 2 * c(i) = (D(i + 1) + 2 * c(i + 1)) + 1
          BY ONLY <3>2, <3>6, <4>1
        <5>3. D(i + 1) + 2 * c(i + 1) \in Nat
          BY ONLY <3>6
        <5> DEFINE x == D(i + 1) + 2 * c(i + 1)
                   y == D(i) + 2 * c(i)
        <5> HIDE DEF x, y
        <5>4. x \in Nat /\ y = x + 1 /\ x >= L - (i + 1) + 1
          BY ONLY <5>1, <5>2, <5>3 DEF x, y
        <5>5. y >= L - i + 1 /\ (y = L - i + 1 <=> x = L - (i + 1) + 1)
          <6> HIDE DEF L
          <6>1. y \in Nat /\ i \in Nat
            BY ONLY <3>10, <5>4
          <6>2. y >= L - i + 1
            BY ONLY <1>1, <5>4, <6>1
          <6>3. y = L - i + 1 <=> x = L - (i + 1) + 1
            BY ONLY <1>1, <5>4, <6>1
          <6> QED BY ONLY <6>2, <6>3
        <5> QED BY ONLY <5>5 DEF x, y
      <4>3. v[i] <=> plain(i) /\ D(i) + 2 * c(i) = L - i + 1
        BY <3>1, <3>4, <3>5, <3>9, <4>2
      <4> QED BY <4>2, <4>3
    <3> QED BY <3>8, <3>9
  <2>3. CASE i \in 1..L /\ EscapeAt(t, i)
    <3>1. /\ i + 1 \in 1..L /\ i + 2 \in 1..L /\ i + 3 \in i + 1..L + 1
          /\ t[i] = Percent /\ IsHex(t[i + 1]) /\ IsHex(t[i + 2])
          /\ (i + 1) + 1 = i + 2 /\ (i + 2) + 1 = i + 3
      BY <1>1, <2>3 DEF EscapeAt
    <3>2. i + 3 \in 1..L + 1 /\ good(i + 3)
      BY <1>1, <1>7, <3>1
    <3>3. D(i) = D(i + 3) + 1
      <4>1. d[i + 3] \in Seq(Nat) /\ d[i] = <<ByteAt(t, i)>> \o d[i + 3]
        BY ONLY <1>3, <2>3, <3>2
      <4> QED BY ONLY <1>5, <4>1
    <3>4. /\ Safe(t[i + 1]) /\ t[i + 1] # Percent
          /\ Safe(t[i + 2]) /\ t[i + 2] # Percent /\ ~Safe(t[i])
      BY <3>1, HexSafe, PercentNotSafe
    <3>5. c(i) = c(i + 3) + 1
      <4>1. c(i) = c(i + 1) + 1
        <5>1. i # L + 1 /\ i \in 1..L + 1
          BY <1>1, <2>3
        <5> QED BY <3>1, <5>1, SignsStep
      <4>2. c(i + 1) = c(i + 2)
        <5>1. i + 1 # L + 1 /\ i + 1 \in 1..L + 1
          BY <1>1, <3>1
        <5>2. c(i + 1) = c((i + 1) + 1) + 0
          BY <3>4, <5>1, SignsStep
        <5>3. c(i + 2) \in Nat
          BY <1>1, <1>4, <3>1
        <5> HIDE DEF c
        <5> QED BY ONLY <3>1, <5>2, <5>3
      <4>3. c(i + 2) = c(i + 3)
        <5>1. i + 2 # L + 1 /\ i + 2 \in 1..L + 1
          BY <1>1, <3>1
        <5>2. c(i + 2) = c((i + 2) + 1) + 0
          BY <3>4, <5>1, SignsStep
        <5>3. c(i + 3) \in Nat
          BY <1>4, <3>2
        <5> HIDE DEF c
        <5> QED BY ONLY <3>1, <5>2, <5>3
      <4> HIDE DEF c
      <4> QED BY <4>1, <4>2, <4>3
    <3>6. v[i] <=> v[i + 3]
      BY <1>2, <2>3, <3>4
    <3>7. plain(i) <=> plain(i + 3)
      <4>1. plain(i) <=> plain(i + 1)
        BY <1>6, <2>3, <3>1
      <4>2. plain(i + 1) <=> plain((i + 1) + 1)
        BY <1>6, <3>1, <3>4
      <4>3. plain(i + 2) <=> plain((i + 2) + 1)
        BY <1>6, <3>1, <3>4
      <4> HIDE DEF plain
      <4> QED BY <3>1, <4>1, <4>2, <4>3
    <3>8. D(i + 3) \in Nat /\ c(i + 3) \in Nat
      BY <1>4, <3>2
    <3> HIDE DEF D, c, plain
    <3>9. /\ D(i) + 2 * c(i) >= L - i + 1
          /\ D(i) + 2 * c(i) = L - i + 1 <=> D(i + 3) + 2 * c(i + 3) = L - (i + 3) + 1
      <4> DEFINE x == D(i + 3) + 2 * c(i + 3)
                 y == D(i) + 2 * c(i)
      <4>1. y = x + 3 /\ x \in Nat
        BY ONLY <3>3, <3>5, <3>8
      <4>2. x >= L - (i + 3) + 1
        BY ONLY <3>2
      <4>3. i \in Nat
        BY <1>1
      <4> HIDE DEF x, y, L
      <4>4. y >= L - i + 1
        BY ONLY <1>1, <4>1, <4>2, <4>3
      <4>5. y = L - i + 1 <=> x = L - (i + 3) + 1
        BY ONLY <1>1, <4>1, <4>3
      <4> QED BY ONLY <4>4, <4>5 DEF x, y
    <3>10. v[i] <=> plain(i) /\ D(i) + 2 * c(i) = L - i + 1
      BY <3>2, <3>6, <3>7, <3>9
    <3> QED BY <3>9, <3>10
  <2>4. i = L + 1 \/ i \in 1..L
    BY <1>1
  <2> HIDE DEF T
  <2> QED BY <2>1, <2>2, <2>3, <2>4
<1>8. good(1)
  <2>1. 1 \in T
    <3> HIDE DEF T
    <3>1. 1..L + 1 \subseteq T
      BY <1>1, <1>7, DownInduction
    <3> QED BY <1>1, <3>1
  <2> QED BY <2>1
<1>9. L - 1 + 1 = L
  BY <1>1
<1> QED BY <1>2, <1>3, <1>8, <1>9

-----------------------------------------------------------------------------
(* Every string                                                            *)

\* The string is of characters of its kind.
TextOK == kind \in Kinds /\ text \in Seq(Alphabet[kind])

\* It is so in the first state and after every step.
LEMMA TextType == Spec => []TextOK
<1>1. Init => TextOK
  BY DEF Init, TextOK
<1>2. TextOK /\ [Next]_<<kind, text>> => TextOK'
  <2> SUFFICES ASSUME TextOK, [Next]_<<kind, text>> PROVE TextOK'
    OBVIOUS
  <2>1. CASE Extend
    <3>1. PICK c \in Alphabet[kind] : text' = Append(text, c)
      BY <2>1 DEF Extend
    <3> QED BY <2>1, <3>1, AppendProperties DEF Extend, TextOK
  <2> QED BY <2>1 DEF Next, TextOK
<1> QED BY <1>1, <1>2, PTL DEF Spec

\* What the characters are.
LEMMA TextCharacters ==
  ASSUME TextOK
  PROVE  text \in Seq(Nat) /\ (kind \notin {"name", "body"} => text \in Seq(0..255))
<1>1. \A T : Alphabet[kind] \subseteq T => text \in Seq(T)
  BY SeqMonotonic DEF TextOK
<1>2. 0..255 \subseteq Nat
  OBVIOUS
<1> QED BY <1>1, <1>2, RenderingAssumption DEF TextOK

\* addr.go: every path, of whatever bytes, has an address that frame accepts
\* and that every reader parses back to it.
THEOREM AddressesReadBack == Spec => []RoundTrip
<1>1. TextOK => RoundTrip
  BY TextCharacters, AddressRoundTrip DEF RoundTrip
<1> QED BY <1>1, TextType, PTL

\* addr.go:43-72, message.go:149-172: validAddress accepts a string just if it
\* holds safe bytes and percent signs and percentDecode leaves none of these.
THEOREM ValidIsDecodable == Spec => []ValidAgrees
<1>1. ASSUME TextOK, kind = "address"
      PROVE  ValidAddress(text) <=>
               /\ \A i \in DOMAIN text : Safe(text[i]) \/ text[i] = Percent
               /\ Len(PercentDecode(text))
                    + 2 * Cardinality({i \in DOMAIN text : text[i] = Percent}) = Len(text)
  <2>1. text \in Seq(Nat)
    BY <1>1, TextCharacters
  <2>2. DOMAIN text = 1..Len(text)
    BY <2>1, LenProperties
  <2>3. {i \in DOMAIN text : text[i] = Percent} = Signs(text, 1)
    BY <2>2 DEF Signs
  <2> QED BY ONLY <2>1, <2>2, <2>3, ValidCounts
<1>2. TextOK => ValidAgrees
  BY <1>1 DEF ValidAgrees
<1> QED BY <1>2, TextType, PTL

\* A valid address has safe bytes and percent signs only.
LEMMA ValidBytes ==
  ASSUME NEW t \in Seq(Nat), ValidAddress(t)
  PROVE  \A i \in 1..Len(t) : Safe(t[i]) \/ t[i] = Percent
BY ValidCounts

\* What %q leaves alone.
LEMMA QuotedPlain ==
  ASSUME NEW t \in Seq(Nat),
         \A i \in 1..Len(t) : t[i] \notin {Quote, Backslash} /\ Printed(t[i])
  PROVE  Quoted(t) = t
<1> DEFINE ss == [i \in DOMAIN t |->
                    IF t[i] \in {Quote, Backslash} THEN <<Backslash, t[i]>>
                    ELSE IF Printed(t[i]) THEN <<t[i]>> ELSE <<Backslash, 117>>]
<1>1. ss = [i \in 1..Len(t) |-> <<t[i]>>]
  BY LenProperties
<1>2. FlattenSeq(ss) = t
  <2> HIDE DEF ss
  <2> QED BY <1>1, FlattenSingles
<1> QED BY <1>2 DEF Quoted

\* Safe bytes and percent signs print as they are.
LEMMA SafePrinted ==
  ASSUME NEW c, Safe(c) \/ c = Percent
  PROVE  c # Quote /\ c # Lt /\ Printed(c)
<1>1. c \in 0..127 /\ c # 127
  BY DEF Safe, Percent, Backslash
<1>2. c \notin Unseen
  BY <1>1, EnvelopeAssumption
<1> QED BY <1>2 DEF Safe, Percent, Backslash, Quote, Lt, Printed, IsControl, IsSpace

\* message.go:115-117, 149-172: a From that frame accepts, but for a backslash, is
\* quoted as it is.
THEOREM AddressesPrinted == Spec => []FromQuotedPlain
<1>1. ASSUME TextOK, kind = "address", ~Refused(Message),
             \A i \in DOMAIN text : text[i] # Backslash
      PROVE  Quoted(text) = text
  <2>1. text \in Seq(Nat)
    BY <1>1, TextCharacters
  <2>2. DOMAIN text = 1..Len(text)
    BY <2>1, LenProperties
  <2>3. text = <<>> \/ ValidAddress(text)
    BY <1>1 DEF Refused, Message
  <2>4. \A i \in 1..Len(text) : Safe(text[i]) \/ text[i] = Percent
    BY <2>1, <2>3, ValidBytes
  <2>5. \A i \in 1..Len(text) : text[i] \notin {Quote, Backslash} /\ Printed(text[i])
    BY <1>1, <2>2, <2>4, SafePrinted
  <2> QED BY <2>1, <2>5, QuotedPlain
<1>2. TextOK => FromQuotedPlain
  BY <1>1 DEF FromQuotedPlain
<1> QED BY <1>2, TextType, PTL

-----------------------------------------------------------------------------
(* Names                                                                   *)

\* What is kept of a name are runes a name may hold.
LEMMA KeptAllowed ==
  ASSUME NEW t \in Seq(Nat)
  PROVE  Kept(t) \in Seq(Nat) /\ \A k \in 1..Len(Kept(t)) : Allowed(Kept(t)[k])
<1> DEFINE ss == [i \in DOMAIN t |-> IF Allowed(t[i]) THEN <<t[i]>> ELSE <<>>]
           u == Kept(t)
<1>1. Len(t) \in Nat /\ DOMAIN t = 1..Len(t) /\ \A i \in 1..Len(t) : t[i] \in Nat
  BY LenProperties, ElementOfSeq
<1>2. ss \in Seq(Seq(Nat)) /\ Len(ss) = Len(t)
  <2>1. \A i \in 1..Len(t) : <<t[i]>> \in Seq(Nat)
    BY <1>1
  <2>2. <<>> \in Seq(Nat)
    OBVIOUS
  <2> QED BY <1>1, <2>1, <2>2
<1>3. u = FlattenSeq(ss)
  BY DEF Kept
<1>4. u \in Seq(Nat) /\ \E off : Pieces(ss, u, off)
  BY <1>2, <1>3, FlattenPieces
<1> PICK off : Pieces(ss, u, off)
  BY <1>4
<1>5. ASSUME NEW i \in 1..Len(ss), NEW j \in 1..Len(ss[i])
      PROVE  Allowed(ss[i][j])
  <2>1. ss[i] = IF Allowed(t[i]) THEN <<t[i]>> ELSE <<>>
    BY <1>1, <1>2
  <2>2. Allowed(t[i]) /\ ss[i] = <<t[i]>>
    BY <1>5, <2>1
  <2> QED BY <1>5, <2>2
<1> HIDE DEF u, ss
<1>6. ASSUME NEW k \in 1..Len(u) PROVE Allowed(u[k])
  <2>1. PICK i \in 1..Len(ss) : \E j \in 1..Len(ss[i]) : k = off[i] + j
    BY DEF Pieces
  <2>2. PICK j \in 1..Len(ss[i]) : k = off[i] + j
    BY <2>1
  <2>3. u[k] = ss[i][j]
    BY <2>2 DEF Pieces
  <2> QED BY <1>5, <2>3
<1> QED BY <1>4, <1>6 DEF u

\* Nothing is taken out of a name that holds only those.
LEMMA KeptWhole ==
  ASSUME NEW t \in Seq(Nat), \A k \in 1..Len(t) : Allowed(t[k])
  PROVE  Kept(t) = t
<1> DEFINE ss == [i \in DOMAIN t |-> IF Allowed(t[i]) THEN <<t[i]>> ELSE <<>>]
<1>1. ss = [i \in 1..Len(t) |-> <<t[i]>>]
  BY LenProperties
<1>2. FlattenSeq(ss) = t
  <2> HIDE DEF ss
  <2> QED BY <1>1, FlattenSingles
<1> QED BY <1>2 DEF Kept

\* A part of a string.
LEMMA PartOf ==
  ASSUME NEW s \in Seq(Nat), NEW a \in 1..Len(s) + 1, NEW b \in a - 1..Len(s)
  PROVE  /\ SubSeq(s, a, b) \in Seq(Nat) /\ Len(SubSeq(s, a, b)) = b - a + 1
         /\ \A i \in 1..b - a + 1 : SubSeq(s, a, b)[i] = s[a + i - 1]
<1>1. Len(s) \in Nat /\ a \in Int /\ b \in Int /\ a - 1 <= b
  BY LenProperties
<1>2. \A i \in a..b : s[i] \in Nat
  <2>1. \A i \in a..b : i \in 1..Len(s)
    BY <1>1
  <2> QED BY <2>1, ElementOfSeq
<1>3. /\ SubSeq(s, a, b) \in Seq(Nat)
      /\ Len(SubSeq(s, a, b)) = IF a <= b THEN b - a + 1 ELSE 0
      /\ \A i \in 1..b - a + 1 : SubSeq(s, a, b)[i] = s[a + i - 1]
  BY ONLY <1>1, <1>2, SubSeqProperties
<1>4. (IF a <= b THEN b - a + 1 ELSE 0) = b - a + 1
  BY ONLY <1>1
<1> QED BY ONLY <1>3, <1>4

\* The first k runes.
LEMMA PrefixOf ==
  ASSUME NEW s \in Seq(Nat), NEW k \in 0..Len(s)
  PROVE  /\ SubSeq(s, 1, k) \in Seq(Nat) /\ Len(SubSeq(s, 1, k)) = k
         /\ \A i \in 1..k : SubSeq(s, 1, k)[i] = s[i]
<1>1. Len(s) \in Nat /\ k \in Nat
  BY LenProperties
<1>2. 1 \in 1..Len(s) + 1 /\ k \in 1 - 1..Len(s) /\ k - 1 + 1 = k /\ \A i \in 1..k : 1 + i - 1 = i
  BY <1>1
<1> QED BY <1>2, PartOf

\* The bytes and units of a string.
BytesOf(s) == {p \in (DOMAIN s) \X (1..4) : p[2] <= Width(s[p[1]])}
UnitsOf(s) == {p \in (DOMAIN s) \X (1..2) : p[2] <= UnitWidth(s[p[1]])}

\* A string has as many units as bytes, or fewer.
LEMMA UnitsBytes ==
  ASSUME NEW s \in Seq(Nat)
  PROVE  /\ IsFiniteSet(BytesOf(s)) /\ Bytes(s) = Cardinality(BytesOf(s)) /\ Bytes(s) \in Nat
         /\ Units(s) \in Nat /\ Units(s) <= Bytes(s)
<1>1. Len(s) \in Nat /\ DOMAIN s = 1..Len(s)
  BY LenProperties
<1>2. IsFiniteSet((DOMAIN s) \X (1..4))
  <2>1. IsFiniteSet(1..Len(s)) /\ IsFiniteSet(1..4)
    <3>1. 1 \in Int /\ Len(s) \in Int /\ 4 \in Int
      BY <1>1
    <3> QED BY ONLY <3>1, FS_Interval
  <2> QED BY <1>1, <2>1, FS_Product
<1>3. BytesOf(s) \subseteq (DOMAIN s) \X (1..4)
  BY DEF BytesOf
<1>4. UnitsOf(s) \subseteq BytesOf(s)
  <2>1. \A p \in (DOMAIN s) \X (1..2) : p \in (DOMAIN s) \X (1..4)
    OBVIOUS
  <2>2. \A n \in 1..2 : \A r \in Nat : n <= UnitWidth(r) => n <= Width(r)
    BY DEF UnitWidth, Width
  <2>3. \A p \in (DOMAIN s) \X (1..2) : p[2] \in 1..2 /\ s[p[1]] \in Nat
    BY <1>1, ElementOfSeq
  <2> QED BY <2>1, <2>2, <2>3 DEF BytesOf, UnitsOf
<1>5. IsFiniteSet(BytesOf(s)) /\ Cardinality(BytesOf(s)) \in Nat
  BY <1>2, <1>3, FS_Subset, FS_CardinalityType
<1>6. Cardinality(UnitsOf(s)) \in Nat /\ Cardinality(UnitsOf(s)) <= Cardinality(BytesOf(s))
  BY <1>4, <1>5, FS_Subset, FS_CardinalityType
<1> QED BY <1>5, <1>6 DEF Bytes, Units, BytesOf, UnitsOf

\* The first runes have no more bytes than more of them.
LEMMA PrefixBytes ==
  ASSUME NEW s \in Seq(Nat), NEW k \in 0..Len(s), NEW j \in 0..k
  PROVE  Bytes(SubSeq(s, 1, j)) <= Bytes(SubSeq(s, 1, k))
<1> DEFINE a == SubSeq(s, 1, j)
           b == SubSeq(s, 1, k)
<1>1. Len(s) \in Nat /\ k \in Nat /\ j \in Nat /\ j \in 0..Len(s) /\ j <= k
  BY LenProperties
<1>2. /\ a \in Seq(Nat) /\ Len(a) = j /\ b \in Seq(Nat) /\ Len(b) = k
      /\ \A i \in 1..j : a[i] = s[i]
      /\ \A i \in 1..k : b[i] = s[i]
  BY <1>1, PrefixOf
<1> HIDE DEF a, b
<1>3. DOMAIN a = 1..j /\ DOMAIN b = 1..k
  BY <1>2, LenProperties
<1>4. \A i \in 1..j : i \in 1..k /\ a[i] = b[i]
  <2>1. \A i \in 1..j : i \in 1..k
    BY ONLY <1>1
  <2> QED BY ONLY <1>2, <2>1
<1>5. BytesOf(a) \subseteq BytesOf(b)
  BY ONLY <1>3, <1>4 DEF BytesOf
<1>6. Cardinality(BytesOf(a)) <= Cardinality(BytesOf(b))
  BY <1>2, <1>5, UnitsBytes, FS_Subset
<1> QED BY <1>2, <1>6, UnitsBytes DEF a, b

\* An empty string has no bytes.
LEMMA NoBytes == ASSUME NEW s, s = <<>> PROVE Bytes(s) = 0
<1>1. BytesOf(s) = {}
  BY DEF BytesOf
<1> QED BY <1>1, FS_EmptySet DEF Bytes, BytesOf

\* TrimSpace takes off the space at both ends and nothing else.
LEMMA Trims ==
  ASSUME NEW s \in Seq(Nat)
  PROVE  \/ TrimSpace(s) = <<>> /\ \A i \in 1..Len(s) : IsSpace(s[i])
         \/ \E a \in 1..Len(s) : \E b \in a..Len(s) :
              /\ TrimSpace(s) = SubSeq(s, a, b) /\ ~IsSpace(s[a]) /\ ~IsSpace(s[b])
              /\ \A i \in 1..Len(s) : ~IsSpace(s[i]) => a <= i /\ i <= b
<1> DEFINE kept == {i \in DOMAIN s : ~IsSpace(s[i])}
<1>1. Len(s) \in Nat /\ DOMAIN s = 1..Len(s)
  BY LenProperties
<1>2. CASE kept = {}
  BY <1>1, <1>2 DEF TrimSpace
<1>3. CASE kept # {}
  <2>1. kept \subseteq 0..Len(s)
    BY <1>1
  <2>2. TrimSpace(s) = SubSeq(s, Min(kept), Max(kept))
    BY <1>3 DEF TrimSpace
  <2>3. /\ Max(kept) \in kept /\ \A y \in kept : y <= Max(kept)
        /\ Min(kept) \in kept /\ \A y \in kept : Min(kept) <= y
    <3> HIDE DEF kept
    <3> QED BY ONLY <1>1, <1>3, <2>1, MaxMin
  <2> DEFINE a == Min(kept)
             b == Max(kept)
  <2>4. a \in 1..Len(s) /\ b \in a..Len(s) /\ ~IsSpace(s[a]) /\ ~IsSpace(s[b])
    BY <1>1, <2>3
  <2>5. \A i \in 1..Len(s) : ~IsSpace(s[i]) => a <= i /\ i <= b
    BY <1>1, <2>3
  <2> HIDE DEF kept
  <2> QED BY <2>2, <2>4, <2>5
<1> QED BY <1>2, <1>3

\* A string that begins and ends without space stays as it is.
LEMMA TrimWhole ==
  ASSUME NEW s \in Seq(Nat), s # <<>> => ~IsSpace(s[1]) /\ ~IsSpace(s[Len(s)])
  PROVE  TrimSpace(s) = s
<1>1. Len(s) \in Nat
  BY LenProperties
<1>2. CASE s = <<>>
  <2>1. Len(s) = 0
    BY <1>2
  <2>2. TrimSpace(s) = <<>>
    <3>1. 1..Len(s) = {}
      BY <2>1
    <3> QED BY ONLY <3>1, Trims, s \in Seq(Nat)
  <2> QED BY <1>2, <2>2
<1>3. CASE s # <<>>
  <2>1. Len(s) \in 1..Len(s) /\ 1 \in 1..Len(s)
    BY <1>1, <1>3, EmptySeq
  <2>2. PICK a \in 1..Len(s) : \E b \in a..Len(s) :
          /\ TrimSpace(s) = SubSeq(s, a, b)
          /\ \A i \in 1..Len(s) : ~IsSpace(s[i]) => a <= i /\ i <= b
    BY <1>3, <2>1, Trims
  <2>3. PICK b \in a..Len(s) :
          /\ TrimSpace(s) = SubSeq(s, a, b)
          /\ \A i \in 1..Len(s) : ~IsSpace(s[i]) => a <= i /\ i <= b
    BY <2>2
  <2>4. a <= 1 /\ Len(s) <= b
    BY <1>3, <2>1, <2>3
  <2>5. a = 1 /\ b = Len(s)
    BY <1>1, <2>4
  <2> QED BY <2>3, <2>5, SubSeqFull
<1> QED BY <1>2, <1>3

\* A cleaned name holds what a name may, and no space at its ends.
LEMMA CleanedName ==
  ASSUME NEW name \in Seq(Nat)
  PROVE  /\ Cleaned(name) \in Seq(Nat)
         /\ \A k \in 1..Len(Cleaned(name)) : Allowed(Cleaned(name)[k])
         /\ Cleaned(name) # <<>> =>
              ~IsSpace(Cleaned(name)[1]) /\ ~IsSpace(Cleaned(name)[Len(Cleaned(name))])
<1> DEFINE u == Kept(name)
           c == Cleaned(name)
<1>1. u \in Seq(Nat) /\ \A k \in 1..Len(u) : Allowed(u[k])
  BY KeptAllowed
<1>2. c = TrimSpace(u)
  BY DEF Cleaned
<1> HIDE DEF u, c
<1>3. CASE c = <<>>
  <2>1. c \in Seq(Nat) /\ 1..Len(c) = {}
    BY <1>3
  <2> QED BY <1>3, <2>1 DEF c
<1>4. CASE c # <<>>
  <2>1. PICK a \in 1..Len(u) : \E b \in a..Len(u) :
          c = SubSeq(u, a, b) /\ ~IsSpace(u[a]) /\ ~IsSpace(u[b])
    BY ONLY <1>1, <1>2, <1>4, Trims
  <2>2. PICK b \in a..Len(u) : c = SubSeq(u, a, b) /\ ~IsSpace(u[a]) /\ ~IsSpace(u[b])
    BY <2>1
  <2> DEFINE n == b - a + 1
  <2>3. /\ Len(u) \in Nat /\ a \in 1..Len(u) + 1 /\ b \in a - 1..Len(u)
        /\ n \in Nat /\ 1 \in 1..n /\ n \in 1..n /\ a + 1 - 1 = a /\ a + n - 1 = b
        /\ \A k \in 1..n : a + k - 1 \in 1..Len(u)
    BY <1>1
  <2>4. c \in Seq(Nat) /\ Len(c) = n /\ \A k \in 1..n : c[k] = u[a + k - 1]
    BY <1>1, <2>2, <2>3, PartOf
  <2> HIDE DEF n
  <2>5. \A k \in 1..n : Allowed(c[k])
    BY ONLY <1>1, <2>3, <2>4
  <2>6. ~IsSpace(c[1]) /\ ~IsSpace(c[n])
    BY ONLY <2>2, <2>3, <2>4
  <2> QED BY <2>4, <2>5, <2>6 DEF c
<1> QED BY <1>3, <1>4

\* sanitizeName keeps the first runes of the cleaned name, as many as fit, without
\* the space before the cut.
LEMMA Sanitized ==
  ASSUME NEW name \in Seq(Nat)
  PROVE  \E b \in 0..Len(Cleaned(name)) :
           /\ SanitizeName(name) = SubSeq(Cleaned(name), 1, b)
           /\ TrimSpace(SanitizeName(name)) = SanitizeName(name)
           /\ Bytes(SanitizeName(name)) <= MaxName
           /\ \A k \in b + 1..Len(Cleaned(name)) :
                Bytes(SubSeq(Cleaned(name), 1, k)) <= MaxName => IsSpace(Cleaned(name)[k])
<1> DEFINE c == Cleaned(name)
           t == SanitizeName(name)
<1>1. c \in Seq(Nat) /\ (c # <<>> => ~IsSpace(c[1]) /\ ~IsSpace(c[Len(c)]))
  BY CleanedName
<1>2. t = IF Bytes(c) <= MaxName THEN c ELSE TrimSpace(Cut(c))
  BY DEF SanitizeName
<1> HIDE DEF c, t
<1>3. Len(c) \in Nat /\ MaxName \in Nat /\ Bytes(c) \in Nat /\ SubSeq(c, 1, Len(c)) = c
  BY <1>1, LenProperties, UnitsBytes, SubSeqFull, EnvelopeAssumption
<1> SUFFICES \E b \in 0..Len(c) :
               /\ t = SubSeq(c, 1, b) /\ TrimSpace(t) = t /\ Bytes(t) <= MaxName
               /\ \A k \in b + 1..Len(c) : Bytes(SubSeq(c, 1, k)) <= MaxName => IsSpace(c[k])
  BY DEF c, t
<1>4. CASE Bytes(c) <= MaxName
  <2>1. t = c /\ Len(c) \in 0..Len(c) /\ Len(c) + 1..Len(c) = {}
    BY <1>2, <1>3, <1>4
  <2>2. TrimSpace(c) = c
    BY <1>1, TrimWhole
  <2> QED BY ONLY <1>3, <1>4, <2>1, <2>2
<1>5. CASE ~(Bytes(c) <= MaxName)
  <2> DEFINE fits == {k \in 0..Len(c) - 1 : Bytes(SubSeq(c, 1, k)) <= MaxName}
             m == Max(fits)
             d == Cut(c)
  <2>1. Len(c) # 0 /\ c # <<>>
    <3>1. c # <<>>
      BY <1>3, <1>5, NoBytes
    <3> QED BY <1>1, <3>1, EmptySeq
  <2>2. 0 \in fits
    <3>1. Bytes(SubSeq(c, 1, 0)) = 0
      <4>1. 1 \in Int /\ 0 \in Int /\ 0 < 1
        OBVIOUS
      <4>2. SubSeq(c, 1, 0) = <<>>
        BY ONLY <4>1, SubSeqEmpty
      <4> QED BY ONLY <4>2, NoBytes
    <3>2. 0 \in 0..Len(c) - 1 /\ 0 <= MaxName
      BY <1>3, <2>1
    <3> QED BY ONLY <3>1, <3>2
  <2>3. m \in fits /\ \A k \in fits : k <= m
    <3>1. fits \subseteq 0..Len(c) /\ fits # {}
      BY <1>3, <2>2
    <3> HIDE DEF fits
    <3> QED BY <1>3, <3>1, MaxMin
  <2>4. d = SubSeq(c, 1, m)
    BY DEF Cut
  <2>5. m \in 0..Len(c) /\ m \in Nat /\ Bytes(SubSeq(c, 1, m)) <= MaxName
    BY <1>3, <2>3
  <2>6. \A k \in 1..Len(c) : Bytes(SubSeq(c, 1, k)) <= MaxName => k <= m
    <3> SUFFICES ASSUME NEW k \in 1..Len(c), Bytes(SubSeq(c, 1, k)) <= MaxName PROVE k <= m
      OBVIOUS
    <3>1. k # Len(c)
      BY ONLY <1>3, <1>5, Bytes(SubSeq(c, 1, k)) <= MaxName
    <3>2. k \in 0..Len(c) - 1
      <4> DEFINE n == Len(c)
      <4>1. n \in Nat /\ k \in 1..n /\ k # n
        BY <1>3, <3>1
      <4> HIDE DEF n
      <4>2. k \in 0..n - 1
        BY ONLY <4>1
      <4> QED BY <4>2 DEF n
    <3>3. k \in fits
      BY ONLY <3>2, Bytes(SubSeq(c, 1, k)) <= MaxName
    <3> QED BY ONLY <2>3, <3>3
  <2> HIDE DEF fits, m, d
  <2>7. d \in Seq(Nat) /\ Len(d) = m /\ \A i \in 1..m : d[i] = c[i]
    BY <1>1, <2>4, <2>5, PrefixOf
  <2>8. t = TrimSpace(d)
    BY <1>2, <1>5 DEF d
  <2>9. CASE t = <<>> /\ \A i \in 1..m : IsSpace(d[i])
    <3>1. SubSeq(c, 1, 0) = <<>> /\ 0 \in 0..Len(c)
      BY <1>3, SubSeqEmpty
    <3>2. TrimSpace(t) = t
      <4>1. t \in Seq(Nat) /\ t = <<>>
        BY <2>9
      <4> QED BY ONLY <4>1, TrimWhole
    <3>3. Bytes(t) <= MaxName
      BY <1>3, <2>9, NoBytes
    <3>4. \A k \in 0 + 1..Len(c) : Bytes(SubSeq(c, 1, k)) <= MaxName => IsSpace(c[k])
      <4> SUFFICES ASSUME NEW k \in 1..Len(c), Bytes(SubSeq(c, 1, k)) <= MaxName
                   PROVE  IsSpace(c[k])
        OBVIOUS
      <4>1. k \in 1..m
        BY <1>3, <2>5, <2>6
      <4> QED BY <2>7, <2>9, <4>1
    <3> QED BY ONLY <2>9, <3>1, <3>2, <3>3, <3>4
  <2>10. CASE \E a \in 1..m : \E b \in a..m :
                /\ t = SubSeq(d, a, b) /\ ~IsSpace(d[a]) /\ ~IsSpace(d[b])
                /\ \A i \in 1..m : ~IsSpace(d[i]) => a <= i /\ i <= b
    <3>1. PICK a \in 1..m : \E b \in a..m :
            /\ t = SubSeq(d, a, b) /\ ~IsSpace(d[a]) /\ ~IsSpace(d[b])
            /\ \A i \in 1..m : ~IsSpace(d[i]) => a <= i /\ i <= b
      BY <2>10
    <3>2. PICK b \in a..m :
            /\ t = SubSeq(d, a, b) /\ ~IsSpace(d[a]) /\ ~IsSpace(d[b])
            /\ \A i \in 1..m : ~IsSpace(d[i]) => a <= i /\ i <= b
      BY <3>1
    <3>3. a = 1
      <4>1. 1 \in 1..m /\ ~IsSpace(d[1])
        BY <1>1, <2>1, <2>5, <2>7
      <4> QED BY <3>2, <4>1
    <3>4. /\ b \in 1..m /\ b \in 0..m /\ b \in 0..Len(c) /\ b \in 1..Len(c)
          /\ 1 \in 1..b /\ b \in 1..b
      BY <1>3, <2>5, <3>3
    <3>5. t = SubSeq(c, 1, b)
      <4>1. \A i \in 1..b : i \in 1..m
        BY ONLY <2>5, <3>4
      <4>2. t = SubSeq(d, 1, b)
        BY ONLY <3>2, <3>3
      <4>3. t \in Seq(Nat) /\ Len(t) = b /\ \A i \in 1..b : t[i] = d[i]
        BY ONLY <2>7, <3>4, <4>2, PrefixOf
      <4>4. SubSeq(c, 1, b) \in Seq(Nat) /\ Len(SubSeq(c, 1, b)) = b
            /\ \A i \in 1..b : SubSeq(c, 1, b)[i] = c[i]
        BY ONLY <1>1, <3>4, PrefixOf
      <4>5. \A i \in 1..Len(t) : t[i] = SubSeq(c, 1, b)[i]
        BY ONLY <2>7, <4>1, <4>3, <4>4
      <4>6. Len(t) = Len(SubSeq(c, 1, b))
        BY ONLY <4>3, <4>4
      <4> QED BY ONLY <4>3, <4>4, <4>5, <4>6, SeqEqual
    <3>6. t \in Seq(Nat) /\ Len(t) = b /\ \A i \in 1..b : t[i] = c[i]
      BY ONLY <1>1, <3>4, <3>5, PrefixOf
    <3>7. TrimSpace(t) = t
      <4>1. ~IsSpace(t[1]) /\ ~IsSpace(t[Len(t)])
        <5>1. ~IsSpace(d[1]) /\ ~IsSpace(d[b]) /\ 1 \in 1..m
          BY ONLY <2>5, <3>2, <3>3, <3>4
        <5> QED BY ONLY <2>7, <3>4, <3>6, <5>1
      <4> QED BY ONLY <3>6, <4>1, TrimWhole
    <3>8. Bytes(t) <= MaxName
      <4>1. Bytes(t) <= Bytes(SubSeq(c, 1, m))
        BY ONLY <1>1, <2>5, <3>4, <3>5, PrefixBytes
      <4>2. Bytes(t) \in Nat /\ Bytes(SubSeq(c, 1, m)) \in Nat
        BY <2>4, <2>7, <3>6, UnitsBytes
      <4> QED BY ONLY <1>3, <2>5, <4>1, <4>2
    <3>9. \A k \in b + 1..Len(c) : Bytes(SubSeq(c, 1, k)) <= MaxName => IsSpace(c[k])
      <4> SUFFICES ASSUME NEW k \in b + 1..Len(c), Bytes(SubSeq(c, 1, k)) <= MaxName
                   PROVE  IsSpace(c[k])
        OBVIOUS
      <4>1. k \in 1..Len(c) /\ ~(k <= b)
        BY <1>3, <3>4
      <4>2. k \in 1..m
        BY ONLY <2>5, <2>6, <4>1, Bytes(SubSeq(c, 1, k)) <= MaxName, k \in 1..Len(c)
      <4>3. IsSpace(d[k])
        BY ONLY <3>2, <4>1, <4>2
      <4> QED BY ONLY <2>7, <4>2, <4>3
    <3> QED BY ONLY <3>4, <3>5, <3>7, <3>8, <3>9
  <2> QED BY ONLY <2>7, <2>8, <2>9, <2>10, Trims
<1> QED BY <1>4, <1>5

\* sanitizeName (message.go:199-224): of a name that is too long it keeps all the
\* runes that fit, but for space before the cut.
THEOREM NamesKept == Spec => []NameKept
<1>1. ASSUME TextOK
      PROVE  LET c == Cleaned(text)
                 s == SanitizeName(text)
             IN /\ IsPrefix(s, c) /\ TrimSpace(s) = s /\ Bytes(s) <= MaxName
                /\ \A k \in Len(s) + 1..Len(c) :
                     Bytes(SubSeq(c, 1, k)) <= MaxName => IsSpace(c[k])
  <2> DEFINE c == Cleaned(text)
             s == SanitizeName(text)
  <2>1. text \in Seq(Nat)
    BY <1>1, TextCharacters
  <2>2. c \in Seq(Nat)
    BY <2>1, CleanedName
  <2>3. PICK b \in 0..Len(c) :
          /\ s = SubSeq(c, 1, b) /\ TrimSpace(s) = s /\ Bytes(s) <= MaxName
          /\ \A k \in b + 1..Len(c) : Bytes(SubSeq(c, 1, k)) <= MaxName => IsSpace(c[k])
    BY <2>1, Sanitized
  <2> HIDE DEF c, s
  <2>4. s \in Seq(Nat) /\ Len(s) = b
    BY ONLY <2>2, <2>3, PrefixOf
  <2>5. IsPrefix(s, c)
    <3>1. SubSeq(s, 1, Len(s)) = s
      BY <2>4, SubSeqFull
    <3>2. Len(s) <= Len(c)
      BY <2>2, <2>4, LenProperties
    <3> QED BY ONLY <2>3, <2>4, <3>1, <3>2 DEF IsPrefix
  <2>6. /\ IsPrefix(s, c) /\ TrimSpace(s) = s /\ Bytes(s) <= MaxName
        /\ \A k \in Len(s) + 1..Len(c) : Bytes(SubSeq(c, 1, k)) <= MaxName => IsSpace(c[k])
    BY ONLY <2>3, <2>4, <2>5
  <2> QED BY <2>6 DEF c, s
<1>2. TextOK => NameKept
  BY <1>1 DEF NameKept
<1> QED BY <1>2, TextType, PTL

\* What %q does not change is read out of an attribute as it was put there.
LEMMA AttributeValue ==
  ASSUME NEW s \in Seq(Nat),
         \A i \in 1..Len(s) : s[i] \notin {Quote, Backslash} /\ Printed(s[i])
  PROVE  ValueOf(Attribute(s)) = s
<1> DEFINE a == Attribute(s)
           L == Len(s)
           quotes == {i \in DOMAIN a : a[i] = Quote}
<1>1. ValueOf(a) = IF quotes = {} THEN <<>>
                   ELSE SubSeq(a, Min(quotes) + 1, Min(quotes \ {Min(quotes)}) - 1)
  BY DEF ValueOf
<1>2. CASE s = <<>>
  <2>1. a = <<>>
    BY <1>2 DEF Attribute
  <2>2. quotes = {}
    BY <2>1
  <2> HIDE DEF quotes, a
  <2> QED BY ONLY <1>1, <1>2, <2>2 DEF a
<1>3. CASE s # <<>>
  <2> DEFINE h == <<32, Quote>>
             t == h \o s
             e == <<Quote>>
  <2>1. a = t \o e
    BY <1>3, QuotedPlain DEF Attribute
  <2>2. h \in Seq(Nat) /\ e \in Seq(Nat) /\ Len(h) = 2 /\ Len(e) = 1
        /\ h[1] = 32 /\ h[2] = Quote /\ e[1] = Quote /\ L \in Nat
    BY LenProperties DEF Quote
  <2> HIDE DEF h, e
  <2>3. t \in Seq(Nat) /\ Joined(h, s, t)
    BY ONLY <2>2, s \in Seq(Nat), ConcatJoins
  <2> HIDE DEF t
  <2>4. a \in Seq(Nat) /\ Joined(t, e, a)
    BY ONLY <2>1, <2>2, <2>3, ConcatJoins
  <2> HIDE DEF a
  <2>5. Len(t) = L + 2 /\ Len(a) = L + 3 /\ DOMAIN a = 1..L + 3
    BY ONLY <2>2, <2>3, <2>4, LenProperties DEF Joined, L
  <2>6. a[1] = 32 /\ a[2] = Quote /\ a[L + 3] = Quote /\ \A i \in 1..L : a[2 + i] = s[i]
    <3>1. t[1] = 32 /\ t[2] = Quote /\ \A i \in 1..L : t[2 + i] = s[i]
      <4>1. 1 \in 1..Len(h) /\ 2 \in 1..Len(h)
        BY <2>2
      <4> QED BY ONLY <2>2, <2>3, <4>1 DEF Joined, L
    <3>2. 1 \in 1..Len(t) /\ 2 \in 1..Len(t) /\ \A i \in 1..L : 2 + i \in 1..Len(t)
      BY <2>2, <2>5
    <3>3. a[1] = t[1] /\ a[2] = t[2] /\ \A i \in 1..L : a[2 + i] = t[2 + i]
      BY ONLY <2>4, <3>2 DEF Joined
    <3>4. a[L + 3] = Quote
      <4>1. 1 \in 1..Len(e) /\ Len(t) + 1 = L + 3
        BY <2>2, <2>5
      <4>2. a[Len(t) + 1] = e[1]
        BY ONLY <2>4, <4>1 DEF Joined
      <4> QED BY ONLY <2>2, <4>1, <4>2
    <3> QED BY ONLY <3>1, <3>3, <3>4
  <2>7. quotes = {2, L + 3}
    <3>1. ASSUME NEW i \in 1..L + 3, a[i] = Quote PROVE i = 2 \/ i = L + 3
      <4>1. i = 1 \/ i = 2 \/ i = L + 3 \/ i - 2 \in 1..L
        BY <2>2
      <4>2. i # 1
        BY <2>6, <3>1 DEF Quote
      <4>3. i - 2 \notin 1..L
        <5> SUFFICES ASSUME i - 2 \in 1..L PROVE FALSE
          OBVIOUS
        <5>1. 2 + (i - 2) = i
          BY <2>2
        <5>2. a[i] = s[i - 2]
          BY <2>6, <5>1
        <5> QED BY <3>1, <5>2
      <4> QED BY <4>1, <4>2, <4>3
    <3>2. 2 \in 1..L + 3 /\ L + 3 \in 1..L + 3
      BY <2>2
    <3> QED BY ONLY <2>5, <2>6, <3>1, <3>2 DEF quotes
  <2> HIDE DEF quotes
  <2>8. Min(quotes) = 2
    <3>1. quotes \subseteq 0..L + 3 /\ quotes # {} /\ L + 3 \in Nat
      BY <2>2, <2>7
    <3>2. Min(quotes) \in quotes /\ \A y \in quotes : Min(quotes) <= y
      BY ONLY <3>1, MaxMin
    <3> QED BY ONLY <2>2, <2>7, <3>2
  <2>9. Min(quotes \ {2}) = L + 3
    <3> DEFINE last == quotes \ {2}
    <3>1. last = {L + 3} /\ last \subseteq 0..L + 3 /\ L + 3 \in Nat
      BY <2>2, <2>7
    <3> HIDE DEF last
    <3>2. Min(last) \in last
      BY ONLY <3>1, MaxMin
    <3> QED BY ONLY <3>1, <3>2 DEF last
  <2>10. ValueOf(a) = SubSeq(a, 3, L + 2)
    <3>1. 2 + 1 = 3 /\ (L + 3) - 1 = L + 2 /\ quotes # {}
      BY <2>2, <2>7
    <3> QED BY ONLY <1>1, <2>8, <2>9, <3>1
  <2>11. SubSeq(a, 3, L + 2) = s
    <3> DEFINE v == SubSeq(a, 3, L + 2)
    <3>1. 3 \in 1..Len(a) + 1 /\ L + 2 \in 3 - 1..Len(a) /\ (L + 2) - 3 + 1 = L
      BY <2>2, <2>5
    <3>2. v \in Seq(Nat) /\ Len(v) = L /\ \A i \in 1..L : v[i] = a[3 + i - 1]
      BY ONLY <2>4, <3>1, PartOf
    <3> HIDE DEF v
    <3>3. \A i \in 1..L : v[i] = s[i]
      <4> TAKE i \in 1..L
      <4>1. 3 + i - 1 = 2 + i
        BY <2>2
      <4> QED BY <2>6, <3>2, <4>1
    <3>4. v = s
      BY ONLY <3>2, <3>3, s \in Seq(Nat), SeqEqual DEF L
    <3> QED BY <3>4 DEF v
  <2> QED BY ONLY <2>10, <2>11 DEF a
<1> QED BY <1>2, <1>3

\* message.go:193, 208-219: a name that %q leaves alone is in the envelope as
\* sanitizeName made it, and what the receiver, which counts UTF-16 units, makes of
\* the name there is that name again.
THEOREM AttributionsSurvive == Spec => []AttributionSurvives
<1>1. ASSUME TextOK, Plain(SanitizeName(text))
      PROVE  /\ ValueOf(Attribute(SanitizeName(text))) = SanitizeName(text)
             /\ ReceiverName(Attribute(SanitizeName(text))) = SanitizeName(text)
  <2> DEFINE c == Cleaned(text)
             s == SanitizeName(text)
             fits == {k \in 0..Len(s) : Units(SubSeq(s, 1, k)) <= MaxName}
  <2>1. text \in Seq(Nat)
    BY <1>1, TextCharacters
  <2>2. c \in Seq(Nat) /\ \A k \in 1..Len(c) : Allowed(c[k])
    BY <2>1, CleanedName
  <2>3. PICK b \in 0..Len(c) : s = SubSeq(c, 1, b) /\ Bytes(s) <= MaxName
    BY <2>1, Sanitized
  <2>p. Plain(s)
    BY <1>1
  <2> HIDE DEF c, s
  <2>4. /\ s \in Seq(Nat) /\ Len(s) = b /\ \A i \in 1..b : s[i] = c[i]
    BY ONLY <2>2, <2>3, PrefixOf
  <2>5. Len(c) \in Nat /\ Len(s) \in Nat /\ \A i \in 1..Len(s) : Allowed(s[i])
    <3>1. Len(c) \in Nat /\ Len(s) \in Nat
      BY <2>2, <2>4, LenProperties
    <3>2. \A i \in 1..b : i \in 1..Len(c)
      BY ONLY <2>3, <3>1
    <3> QED BY ONLY <2>2, <2>4, <3>1, <3>2
  <2>6. ValueOf(Attribute(s)) = s
    <3>1. \A i \in 1..Len(s) : s[i] # Backslash /\ Printed(s[i])
      BY <2>p, <2>4, LenProperties DEF Plain
    <3>2. \A i \in 1..Len(s) : s[i] # Quote
      BY <2>5 DEF Allowed
    <3>3. \A i \in 1..Len(s) : s[i] \notin {Quote, Backslash} /\ Printed(s[i])
      BY ONLY <3>1, <3>2
    <3> QED BY ONLY <2>4, <3>3, AttributeValue
  <2>7. Kept(s) = s
    BY <2>4, <2>5, KeptWhole
  <2>8. SubSeq(s, 1, Len(s)) = s
    BY <2>4, SubSeqFull
  <2>9. Units(s) <= MaxName
    <3>1. Units(s) \in Nat /\ Bytes(s) \in Nat /\ Units(s) <= Bytes(s) /\ MaxName \in Nat
      BY <2>4, UnitsBytes, EnvelopeAssumption
    <3> QED BY ONLY <2>3, <3>1
  <2>10. Len(s) \in fits /\ fits \subseteq 0..Len(s)
    <3>1. Len(s) \in 0..Len(s)
      BY <2>5
    <3>2. Units(SubSeq(s, 1, Len(s))) <= MaxName
      BY ONLY <2>8, <2>9
    <3> QED BY ONLY <3>1, <3>2
  <2>11. ReceiverName(Attribute(s)) = SubSeq(s, 1, Max(fits))
    BY <2>6, <2>7 DEF ReceiverName
  <2> HIDE DEF fits
  <2>12. Max(fits) \in fits /\ Len(s) <= Max(fits)
    BY <2>5, <2>10, MaxMin
  <2>13. Max(fits) = Len(s)
    <3>1. Max(fits) \in 0..Len(s)
      BY ONLY <2>10, <2>12
    <3> QED BY ONLY <2>5, <2>12, <3>1
  <2> QED BY ONLY <2>6, <2>8, <2>11, <2>13 DEF s
<1>2. TextOK => AttributionSurvives
  BY <1>1 DEF AttributionSurvives
<1> QED BY <1>2, TextType, PTL

-----------------------------------------------------------------------------
(* Envelopes                                                               *)

\* A string without "<".
NoLt(s) == \A k \in 1..Len(s) : s[k] # Lt

\* Put together, two of them are one.
LEMMA NoLtJoined ==
  ASSUME NEW s \in Seq(Nat), NEW t \in Seq(Nat), NoLt(s), NoLt(t)
  PROVE  s \o t \in Seq(Nat) /\ NoLt(s \o t)
<1> DEFINE u == s \o t
<1>1. u \in Seq(Nat) /\ Joined(s, t, u)
  BY ConcatJoins
<1> HIDE DEF u
<1>2. ASSUME NEW k \in 1..Len(u) PROVE u[k] # Lt
  <2>1. CASE k \in 1..Len(s)
    BY ONLY <1>1, <2>1, NoLt(s) DEF Joined, NoLt
  <2>2. CASE \E j \in 1..Len(t) : k = Len(s) + j
    BY ONLY <1>1, <2>2, NoLt(t) DEF Joined, NoLt
  <2> QED BY ONLY <1>1, <2>1, <2>2, k \in 1..Len(u) DEF Joined
<1> QED BY <1>1, <1>2 DEF u, NoLt

\* An attribute of such a value is one.
LEMMA AttributeNoLt ==
  ASSUME NEW t \in Seq(Nat), NoLt(t)
  PROVE  Attribute(t) \in Seq(Nat) /\ NoLt(Attribute(t))
<1> DEFINE ss == [i \in DOMAIN t |->
                    IF t[i] \in {Quote, Backslash} THEN <<Backslash, t[i]>>
                    ELSE IF Printed(t[i]) THEN <<t[i]>> ELSE <<Backslash, 117>>]
           q == Quoted(t)
<1>1. Len(t) \in Nat /\ DOMAIN t = 1..Len(t) /\ \A i \in 1..Len(t) : t[i] \in Nat /\ t[i] # Lt
  BY LenProperties, ElementOfSeq DEF NoLt
<1>2. Backslash \in Nat /\ Quote \in Nat /\ Backslash # Lt /\ Quote # Lt /\ 117 # Lt /\ 32 # Lt
  BY DEF Backslash, Quote, Lt
<1>3. ASSUME NEW i \in 1..Len(t)
      PROVE  ss[i] \in Seq(Nat) /\ \A j \in 1..Len(ss[i]) : ss[i][j] # Lt
  <2> DEFINE e == ss[i]
  <2>1. t[i] \in Nat /\ t[i] # Lt
    BY <1>1
  <2>2. e = <<Backslash, t[i]>> \/ e = <<t[i]>> \/ e = <<Backslash, 117>>
    BY <1>1
  <2> HIDE DEF e
  <2>3. e \in Seq(Nat) /\ \A j \in 1..Len(e) : e[j] # Lt
    <3>1. CASE e = <<Backslash, t[i]>>
      BY ONLY <1>2, <2>1, <3>1
    <3>2. CASE e = <<t[i]>>
      BY ONLY <1>2, <2>1, <3>2
    <3>3. CASE e = <<Backslash, 117>>
      BY ONLY <1>2, <3>3
    <3> QED BY ONLY <2>2, <3>1, <3>2, <3>3
  <2> QED BY <2>3 DEF e
<1>4. ss \in Seq(Seq(Nat)) /\ Len(ss) = Len(t)
  <2>1. \A i \in 1..Len(t) : ss[i] \in Seq(Nat)
    BY <1>3
  <2>2. ss = [i \in 1..Len(t) |-> ss[i]]
    BY <1>1
  <2> HIDE DEF ss
  <2> QED BY ONLY <1>1, <2>1, <2>2
<1>5. q = FlattenSeq(ss)
  BY DEF Quoted
<1> HIDE DEF ss
<1>6. q \in Seq(Nat) /\ \E off : Pieces(ss, q, off)
  BY <1>4, <1>5, FlattenPieces
<1> HIDE DEF q
<1>7. NoLt(q)
  <2> PICK off : Pieces(ss, q, off)
    BY <1>6
  <2> SUFFICES ASSUME NEW k \in 1..Len(q) PROVE q[k] # Lt
    BY DEF NoLt
  <2>1. PICK i \in 1..Len(ss) : \E j \in 1..Len(ss[i]) : k = off[i] + j
    BY DEF Pieces
  <2>2. PICK j \in 1..Len(ss[i]) : k = off[i] + j
    BY <2>1
  <2>3. q[k] = ss[i][j]
    BY <2>2 DEF Pieces
  <2> QED BY <1>3, <1>4, <2>3
<1>8. CASE t = <<>>
  <2>1. Attribute(t) = <<>> /\ Attribute(t) = t
    BY <1>8 DEF Attribute
  <2> QED BY ONLY <2>1, NoLt(t), t \in Seq(Nat)
<1>9. CASE t # <<>>
  <2> DEFINE a == <<32, Quote>>
             z == <<Quote>>
  <2>1. Attribute(t) = (a \o q) \o z
    BY <1>9 DEF Attribute, q
  <2>2. a \in Seq(Nat) /\ z \in Seq(Nat) /\ NoLt(a) /\ NoLt(z)
    BY <1>2 DEF NoLt
  <2> HIDE DEF a, z
  <2>3. a \o q \in Seq(Nat) /\ NoLt(a \o q)
    BY <1>6, <1>7, <2>2, NoLtJoined
  <2> QED BY <2>1, <2>2, <2>3, NoLtJoined
<1> QED BY <1>8, <1>9

\* Where a closing tag begins.
LEMMA ClosingIs ==
  ASSUME NEW s \in Seq(Nat), NEW i \in 1..Len(s)
  PROVE  ClosingAt(s, i) <=> i + 2 <= Len(s) /\ s[i] = Lt /\ s[i + 1] = Slash /\ s[i + 2] = Tag
<1> SUFFICES ASSUME i + 2 <= Len(s)
             PROVE  SubSeq(s, i, i + 2) = Closing
                      <=> s[i] = Lt /\ s[i + 1] = Slash /\ s[i + 2] = Tag
  BY DEF ClosingAt
<1> DEFINE u == SubSeq(s, i, i + 2)
<1>1. /\ Len(s) \in Nat /\ i \in 1..Len(s) + 1 /\ i + 2 \in i - 1..Len(s) /\ i + 2 - i + 1 = 3
      /\ i + 1 - 1 = i /\ i + 2 - 1 = i + 1 /\ i + 3 - 1 = i + 2
  BY LenProperties
<1>2. u \in Seq(Nat) /\ Len(u) = 3 /\ \A k \in 1..3 : u[k] = s[i + k - 1]
  BY ONLY <1>1, PartOf, s \in Seq(Nat)
<1> HIDE DEF u
<1>3. u[1] = s[i] /\ u[2] = s[i + 1] /\ u[3] = s[i + 2]
  BY ONLY <1>1, <1>2
<1>4. /\ Closing \in Seq(Nat) /\ Len(Closing) = 3
      /\ Closing[1] = Lt /\ Closing[2] = Slash /\ Closing[3] = Tag
  BY EnvelopeAssumption DEF Closing, Lt, Slash
<1>5. u = Closing <=> u[1] = Lt /\ u[2] = Slash /\ u[3] = Tag
  <2>1. ASSUME u[1] = Lt, u[2] = Slash, u[3] = Tag PROVE u = Closing
    <3>1. \A k \in 1..3 : k = 1 \/ k = 2 \/ k = 3
      OBVIOUS
    <3>2. \A k \in 1..Len(u) : u[k] = Closing[k]
      BY ONLY <1>2, <1>4, <2>1, <3>1
    <3>3. Len(u) = Len(Closing)
      BY ONLY <1>2, <1>4
    <3> QED BY ONLY <1>2, <1>4, <3>2, <3>3, SeqEqual
  <2> QED BY ONLY <1>4, <2>1
<1> QED BY <1>3, <1>5 DEF u

\* escapeBody leaves no closing tag in a body.
LEMMA EscapedNoClosing ==
  ASSUME NEW body \in Seq(Nat)
  PROVE  EscapeBody(body) \in Seq(Nat)
         /\ \A k \in 1..Len(EscapeBody(body)) : ~ClosingAt(EscapeBody(body), k)
<1> DEFINE ends == {i \in DOMAIN body : ClosingAt(body, i)}
           ss == [i \in DOMAIN body |-> IF i \in ends THEN <<Lt, Backslash>> ELSE <<body[i]>>]
           e == EscapeBody(body)
           L == Len(body)
<1>1. L \in Nat /\ DOMAIN body = 1..L /\ \A i \in 1..L : body[i] \in Nat
  BY LenProperties, ElementOfSeq
<1>2. /\ Lt \in Nat /\ Backslash \in Nat /\ Lt # Slash /\ Lt # Backslash /\ Slash # Backslash
      /\ Tag # Lt
  BY EnvelopeAssumption DEF Lt, Slash, Backslash
<1>3. ASSUME NEW i \in 1..L
      PROVE  \/ ClosingAt(body, i) /\ ss[i] = <<Lt, Backslash>>
             \/ ~ClosingAt(body, i) /\ ss[i] = <<body[i]>>
  BY <1>1
<1>4. ss \in Seq(Seq(Nat)) /\ Len(ss) = L
  <2>1. \A i \in 1..L : <<body[i]>> \in Seq(Nat)
    BY <1>1
  <2>2. <<Lt, Backslash>> \in Seq(Nat)
    BY <1>2
  <2>3. \A i \in 1..L : ss[i] \in Seq(Nat)
    <3> HIDE DEF ss
    <3> QED BY ONLY <1>3, <2>1, <2>2
  <2>4. ss = [i \in 1..L |-> ss[i]]
    BY <1>1
  <2> HIDE DEF ss
  <2> QED BY ONLY <1>1, <2>3, <2>4
<1>5. e = FlattenSeq(ss)
  BY DEF EscapeBody
<1> HIDE DEF ss, ends
<1>6. e \in Seq(Nat) /\ \E off : Pieces(ss, e, off)
  BY <1>4, <1>5, FlattenPieces
<1> PICK off : Pieces(ss, e, off)
  BY <1>6
<1> HIDE DEF e, L
<1>7. Len(e) \in Nat
  BY <1>6, LenProperties
<1>8. /\ off \in [1..L + 1 -> Nat] /\ off[L + 1] = Len(e)
      /\ \A i \in 1..L :
           /\ off[i + 1] = off[i] + Len(ss[i])
           /\ \A j \in 1..Len(ss[i]) : e[off[i] + j] = ss[i][j]
      /\ \A k \in 1..Len(e) : \E i \in 1..L : \E j \in 1..Len(ss[i]) : k = off[i] + j
  BY <1>4 DEF Pieces
<1>9. ASSUME NEW i \in 1..L
      PROVE  \/ /\ ClosingAt(body, i) /\ off[i + 1] = off[i] + 2
                /\ e[off[i] + 1] = Lt /\ e[off[i] + 2] = Backslash /\ Len(ss[i]) = 2
             \/ /\ ~ClosingAt(body, i) /\ off[i + 1] = off[i] + 1
                /\ e[off[i] + 1] = body[i] /\ Len(ss[i]) = 1
  <2>1. CASE ClosingAt(body, i) /\ ss[i] = <<Lt, Backslash>>
    <3>1. /\ Len(ss[i]) = 2 /\ ss[i][1] = Lt /\ ss[i][2] = Backslash
          /\ 1 \in 1..Len(ss[i]) /\ 2 \in 1..Len(ss[i])
      BY <2>1
    <3> QED BY ONLY <1>8, <2>1, <3>1, i \in 1..L
  <2>2. CASE ~ClosingAt(body, i) /\ ss[i] = <<body[i]>>
    <3>1. Len(ss[i]) = 1 /\ ss[i][1] = body[i] /\ 1 \in 1..Len(ss[i])
      BY <2>2
    <3> QED BY ONLY <1>8, <2>2, <3>1, i \in 1..L
  <2> QED BY <1>3, <2>1, <2>2
<1>10. ASSUME NEW i \in 1..L, off[i + 1] # Len(e)
       PROVE  i + 1 \in 1..L
  BY ONLY <1>1, <1>8, <1>10, i \in 1..L
<1>11. ASSUME NEW k \in 1..Len(e), ClosingAt(e, k) PROVE FALSE
  <2>1. k + 2 <= Len(e) /\ e[k] = Lt /\ e[k + 1] = Slash /\ e[k + 2] = Tag
    BY ONLY <1>6, <1>11, ClosingIs
  <2>2. PICK i \in 1..L : \E j \in 1..Len(ss[i]) : k = off[i] + j
    BY <1>8
  <2>3. PICK j \in 1..Len(ss[i]) : k = off[i] + j
    BY <2>2
  <2>4. off[i] \in Nat /\ i \in Nat /\ k \in Nat
    <3>1. i \in 1..L + 1 /\ i \in Nat /\ k \in Nat
      BY ONLY <1>1, <1>7, i \in 1..L, k \in 1..Len(e)
    <3>2. off \in [1..L + 1 -> Nat]
      BY <1>8
    <3> QED BY ONLY <3>1, <3>2
  <2>5. CASE Len(ss[i]) = 2 /\ e[off[i] + 1] = Lt /\ e[off[i] + 2] = Backslash
    <3>1. (k = off[i] + 1 /\ k + 1 = off[i] + 2) \/ k = off[i] + 2
      BY ONLY <2>3, <2>4, <2>5
    <3> QED BY ONLY <1>2, <2>1, <2>5, <3>1
  <2>6. CASE /\ ~ClosingAt(body, i) /\ off[i + 1] = off[i] + 1
             /\ e[off[i] + 1] = body[i] /\ Len(ss[i]) = 1
    <3>1. k = off[i] + 1 /\ off[i + 1] = k
      BY ONLY <2>3, <2>4, <2>6
    <3>2. i + 1 \in 1..L
      BY ONLY <1>7, <1>10, <2>1, <2>4, <3>1, i \in 1..L
    <3>3. body[i + 1] = Slash /\ off[(i + 1) + 1] = k + 1
      BY ONLY <1>2, <1>9, <2>1, <3>1, <3>2
    <3>4. (i + 1) + 1 \in 1..L
      BY ONLY <1>7, <1>10, <2>1, <2>4, <3>2, <3>3
    <3>5. body[(i + 1) + 1] = Tag
      <4>1. (k + 1) + 1 = k + 2
        BY ONLY <2>4
      <4> DEFINE n == (i + 1) + 1
      <4> HIDE DEF n
      <4>2. n \in 1..L /\ off[n] = k + 1
        BY ONLY <3>3, <3>4 DEF n
      <4>3. e[off[n] + 1] = Tag
        BY ONLY <2>1, <4>1, <4>2
      <4>4. body[n] = Tag
        BY ONLY <1>2, <1>9, <4>2, <4>3
      <4> QED BY <4>4 DEF n
    <3>6. ClosingAt(body, i)
      <4>1. i + 2 <= Len(body) /\ i + 2 = (i + 1) + 1 /\ i \in 1..Len(body)
        BY ONLY <1>1, <2>4, <3>4, i \in 1..L DEF L
      <4>2. body[i] = Lt
        BY ONLY <2>1, <2>6, <3>1
      <4> QED BY ONLY <3>3, <3>5, <4>1, <4>2, ClosingIs, body \in Seq(Nat)
    <3> QED BY ONLY <2>6, <3>6
  <2> QED BY <1>9, <2>5, <2>6
<1> QED BY <1>6, <1>11 DEF e

\* The only "<" of a string is its first rune, and begins the envelope.
Opens(s) == Len(s) >= 2 /\ s[1] = Lt /\ s[2] = Tag /\ \A k \in 2..Len(s) : s[k] # Lt

\* It stays so when a string without "<" follows.
LEMMA OpensJoined ==
  ASSUME NEW s \in Seq(Nat), NEW t \in Seq(Nat), Opens(s), NoLt(t)
  PROVE  s \o t \in Seq(Nat) /\ Opens(s \o t)
<1> DEFINE u == s \o t
<1>1. u \in Seq(Nat) /\ Joined(s, t, u)
  BY ConcatJoins
<1> HIDE DEF u
<1>2. ASSUME NEW k \in 2..Len(u) PROVE u[k] # Lt
  <2>1. CASE k \in 1..Len(s)
    <3>1. k \in 2..Len(s) /\ u[k] = s[k]
      BY ONLY <1>1, <2>1, k \in 2..Len(u) DEF Joined
    <3> QED BY ONLY <3>1, Opens(s) DEF Opens
  <2>2. CASE \E j \in 1..Len(t) : k = Len(s) + j
    BY ONLY <1>1, <2>2, NoLt(t) DEF Joined, NoLt
  <2>3. k \in 1..Len(u)
    BY ONLY k \in 2..Len(u), <1>1 DEF Joined
  <2> QED BY ONLY <1>1, <2>1, <2>2, <2>3 DEF Joined
<1>3. 1 \in 1..Len(s) /\ 2 \in 1..Len(s) /\ Len(u) >= 2
  <2>1. Len(s) \in Nat /\ Len(t) \in Nat /\ Len(u) = Len(s) + Len(t) /\ Len(s) >= 2
    BY ONLY <1>1, Opens(s) DEF Joined, Opens
  <2> DEFINE a == Len(s)  b == Len(t)  c == Len(u)
  <2>2. a \in Nat /\ b \in Nat /\ c = a + b /\ a >= 2
    BY <2>1
  <2> HIDE DEF a, b, c
  <2>3. 1 \in 1..a /\ 2 \in 1..a /\ c >= 2
    BY ONLY <2>2
  <2> QED BY <2>3 DEF a, c
<1>4. u[1] = Lt /\ u[2] = Tag
  BY ONLY <1>1, <1>3, Opens(s) DEF Joined, Opens
<1> QED BY <1>1, <1>2, <1>3, <1>4 DEF u, Opens

\* Between such a beginning and the closing tag, a body without closing tags
\* leaves that one.
LEMMA ClosedOnce ==
  ASSUME NEW p \in Seq(Nat), NEW e \in Seq(Nat), Opens(p),
         \A k \in 1..Len(e) : ~ClosingAt(e, k)
  PROVE  LET s == (((p \o e) \o <<Newline>>) \o Closing) \o <<Gt>>
         IN  {i \in DOMAIN s : ClosingAt(s, i)} = {Len(s) - 3}
<1> DEFINE n == <<Newline>>
           c == Closing
           g == <<Gt>>
           q == p \o e
           r == q \o n
           t == r \o c
           s == t \o g
<1>1. /\ n \in Seq(Nat) /\ c \in Seq(Nat) /\ g \in Seq(Nat)
      /\ Len(n) = 1 /\ Len(c) = 3 /\ Len(g) = 1 /\ n[1] = Newline
      /\ c[1] = Lt /\ c[2] = Slash /\ c[3] = Tag /\ g[1] = Gt
      /\ 1 \in 1..Len(n) /\ 1 \in 1..Len(c) /\ 2 \in 1..Len(c) /\ 3 \in 1..Len(c) /\ 1 \in 1..Len(g)
  BY EnvelopeAssumption DEF Closing, Lt, Slash, Newline, Gt
<1>2. /\ Newline # Lt /\ Newline # Slash /\ Newline # Tag /\ Slash # Lt /\ Tag # Lt /\ Gt # Lt
      /\ Tag # Slash
  BY EnvelopeAssumption DEF Lt, Slash, Newline, Gt
<1> HIDE DEF n, c, g
<1>3. q \in Seq(Nat) /\ Joined(p, e, q)
  BY ConcatJoins
<1> HIDE DEF q
<1>4. r \in Seq(Nat) /\ Joined(q, n, r)
  BY <1>1, <1>3, ConcatJoins
<1> HIDE DEF r
<1>5. t \in Seq(Nat) /\ Joined(r, c, t)
  BY <1>1, <1>4, ConcatJoins
<1> HIDE DEF t
<1>6. s \in Seq(Nat) /\ Joined(t, g, s)
  BY <1>1, <1>5, ConcatJoins
<1> HIDE DEF s
<1> DEFINE P == Len(p)
           M == Len(q)
           Z == Len(s)
<1>7. P \in Nat /\ M \in Nat /\ Len(e) \in Nat /\ M = P + Len(e) /\ P >= 2
  <2>1. P \in Nat /\ Len(e) \in Nat /\ M = P + Len(e)
    BY ONLY <1>3 DEF Joined
  <2>2. P >= 2
    BY DEF Opens
  <2>3. M \in Nat
    BY ONLY <1>4 DEF Joined
  <2> QED BY ONLY <2>1, <2>2, <2>3
<1>8. Z = M + 5 /\ Len(r) = M + 1 /\ Len(t) = M + 4 /\ M \in Nat
  <2>1. Len(r) = M + 1
    BY ONLY <1>1, <1>4 DEF Joined
  <2>2. Len(t) = Len(r) + 3
    BY ONLY <1>1, <1>5 DEF Joined
  <2>3. Z = Len(t) + 1
    BY ONLY <1>1, <1>6 DEF Joined
  <2> HIDE DEF M, Z
  <2>4. Len(t) = M + 4
    BY ONLY <1>7, <2>1, <2>2
  <2> QED BY ONLY <1>7, <2>1, <2>3, <2>4
<1>9. ASSUME NEW k \in 1..M PROVE s[k] = q[k]
  <2>1. k \in 1..Len(q) /\ k \in 1..Len(r) /\ k \in 1..Len(t)
    <3> HIDE DEF M
    <3>1. k \in 1..M + 1 /\ k \in 1..M + 4
      BY ONLY <1>7, k \in 1..M
    <3> QED BY <1>8, <3>1 DEF M
  <2>2. r[k] = q[k]
    BY ONLY <1>4, <2>1 DEF Joined
  <2>3. t[k] = r[k]
    BY ONLY <1>5, <2>1 DEF Joined
  <2>4. s[k] = t[k]
    BY ONLY <1>6, <2>1 DEF Joined
  <2> QED BY ONLY <2>2, <2>3, <2>4
<1>10. /\ s[M + 1] = Newline /\ s[M + 2] = Lt /\ s[M + 3] = Slash /\ s[M + 4] = Tag
       /\ s[M + 5] = Gt
  <2> HIDE DEF M, Z
  <2>1. /\ M + 1 \in 1..Len(r) /\ M + 1 \in 1..Len(t) /\ M + 2 \in 1..Len(t)
        /\ M + 3 \in 1..Len(t) /\ M + 4 \in 1..Len(t)
    BY ONLY <1>8
  <2>2. r[M + 1] = Newline
    BY ONLY <1>1, <1>4 DEF Joined, M
  <2>3. t[M + 1] = Newline
    BY ONLY <1>5, <1>8, <2>1, <2>2 DEF Joined
  <2>4. t[(M + 1) + 1] = Lt /\ t[(M + 1) + 2] = Slash /\ t[(M + 1) + 3] = Tag
    BY ONLY <1>1, <1>5, <1>8 DEF Joined
  <2>5. (M + 1) + 1 = M + 2 /\ (M + 1) + 2 = M + 3 /\ (M + 1) + 3 = M + 4
        /\ (M + 4) + 1 = M + 5
    BY ONLY <1>8
  <2>6. s[(M + 4) + 1] = Gt
    BY ONLY <1>1, <1>6, <1>8 DEF Joined
  <2>7. \A k \in 1..Len(t) : s[k] = t[k]
    BY ONLY <1>6 DEF Joined
  <2> QED BY ONLY <2>1, <2>3, <2>4, <2>5, <2>6, <2>7
<1>11. /\ q[1] = Lt /\ q[2] = Tag /\ \A k \in 2..P : q[k] # Lt
       /\ \A j \in 1..Len(e) : q[P + j] = e[j]
  <2>1. \A k \in 1..P : q[k] = p[k]
    BY ONLY <1>3 DEF Joined
  <2>2. 1 \in 1..P /\ 2 \in 1..P /\ \A k \in 2..P : k \in 1..P
    <3> HIDE DEF P
    <3> QED BY ONLY <1>7
  <2>3. p[1] = Lt /\ p[2] = Tag /\ \A k \in 2..P : p[k] # Lt
    BY DEF Opens
  <2>4. \A j \in 1..Len(e) : q[P + j] = e[j]
    BY ONLY <1>3 DEF Joined
  <2> QED BY ONLY <2>1, <2>2, <2>3, <2>4
<1>12. ASSUME NEW i \in 1..Z
       PROVE  i + 2 <= Z /\ s[i] = Lt /\ s[i + 1] = Slash /\ s[i + 2] = Tag <=> i = M + 2
  <2> HIDE DEF M, Z, P
  <2>1. CASE i = 1
    <3>1. 1 \in 1..M /\ 2 \in 1..M /\ i + 1 = 2 /\ i # M + 2
      BY ONLY <1>7, <2>1
    <3>2. s[i + 1] = Tag
      BY ONLY <1>9, <1>11, <3>1
    <3> QED BY ONLY <1>2, <3>1, <3>2
  <2>2. CASE i \in 2..P
    <3>1. i \in 1..M /\ i # M + 2
      BY ONLY <1>7, <2>2
    <3>2. s[i] # Lt
      BY ONLY <1>9, <1>11, <2>2, <3>1
    <3> QED BY ONLY <3>1, <3>2
  <2>3. CASE i \in P + 1..M
    <3> DEFINE j == i - P
    <3>1. j \in 1..Len(e) /\ P + j = i /\ i \in 1..M /\ i # M + 2 /\ j \in Nat
      BY ONLY <1>7, <2>3
    <3>2. s[i] = e[j]
      BY ONLY <1>9, <1>11, <3>1
    <3>3. CASE i + 1 = M + 1
      BY ONLY <1>2, <1>10, <3>1, <3>3
    <3>4. CASE i + 2 = M + 1
      BY ONLY <1>2, <1>10, <3>1, <3>4
    <3>5. CASE i + 2 <= M
      <4>1. /\ i + 1 \in 1..M /\ i + 2 \in 1..M /\ P + (j + 1) = i + 1 /\ P + (j + 2) = i + 2
            /\ j + 1 \in 1..Len(e) /\ j + 2 \in 1..Len(e) /\ j + 2 <= Len(e)
        BY ONLY <1>7, <2>3, <3>5
      <4>2. s[i + 1] = e[j + 1] /\ s[i + 2] = e[j + 2]
        BY ONLY <1>9, <1>11, <4>1
      <4>3. ~(e[j] = Lt /\ e[j + 1] = Slash /\ e[j + 2] = Tag)
        <5> HIDE DEF j
        <5>1. ~ClosingAt(e, j)
          BY <3>1
        <5> QED BY ONLY <3>1, <4>1, <5>1, ClosingIs, e \in Seq(Nat)
      <4> QED BY ONLY <3>1, <3>2, <4>2, <4>3
    <3>6. i + 1 = M + 1 \/ i + 2 = M + 1 \/ i + 2 <= M
      <4>1. M \in Nat /\ P \in Nat /\ i \in P + 1..M
        BY ONLY <1>7, <2>3
      <4> QED BY ONLY <4>1
    <3> QED BY ONLY <3>3, <3>4, <3>5, <3>6
  <2>4. CASE i = M + 1
    <3>1. i # M + 2
      BY ONLY <1>7, <2>4
    <3> QED BY ONLY <1>2, <1>10, <2>4, <3>1
  <2>5. CASE i = M + 2
    <3>1. i + 2 <= Z /\ i + 1 = M + 3 /\ i + 2 = M + 4
      BY ONLY <1>8, <2>5
    <3> QED BY ONLY <1>10, <2>5, <3>1
  <2>6. CASE i = M + 3
    <3>1. i # M + 2
      BY ONLY <1>7, <2>6
    <3> QED BY ONLY <1>2, <1>10, <2>6, <3>1
  <2>7. CASE i = M + 4 \/ i = M + 5
    <3>1. ~(i + 2 <= Z) /\ i # M + 2
      BY ONLY <1>8, <2>7
    <3> QED BY ONLY <3>1
  <2>8. \/ i = 1 \/ i \in 2..P \/ i \in P + 1..M \/ i = M + 1 \/ i = M + 2 \/ i = M + 3
        \/ i = M + 4 \/ i = M + 5
    <3>1. M \in Nat /\ P \in Nat /\ M >= P /\ P >= 2 /\ i \in 1..M + 5
      BY ONLY <1>7, <1>8, i \in 1..Z
    <3>2. i = 1 \/ i \in 2..P \/ i \in P + 1..M \/ i > M
      BY ONLY <3>1
    <3>3. i > M => i = M + 1 \/ i = M + 2 \/ i = M + 3 \/ i = M + 4 \/ i = M + 5
      BY ONLY <3>1
    <3> QED BY ONLY <3>2, <3>3
  <2> QED BY ONLY <2>1, <2>2, <2>3, <2>4, <2>5, <2>6, <2>7, <2>8
<1>13. DOMAIN s = 1..Z /\ M + 2 \in 1..Z /\ Z - 3 = M + 2
  <2>1. DOMAIN s = 1..Z
    BY <1>6, LenProperties
  <2> HIDE DEF M, Z
  <2> QED BY ONLY <1>8, <2>1
<1>14. \A i \in 1..Z : ClosingAt(s, i) <=> i = M + 2
  BY ONLY <1>6, <1>12, ClosingIs
<1>15. {i \in DOMAIN s : ClosingAt(s, i)} = {Z - 3}
  <2> HIDE DEF M, Z
  <2> QED BY ONLY <1>13, <1>14
<1> QED BY <1>15 DEF n, c, g, q, r, t, s

\* escapeBody (message.go:226-230): whatever the fields of a message that frame
\* accepts, its envelope is closed once, at the end.
THEOREM EnvelopesClosedOnce == Spec => []OneClosingTag
<1>1. ASSUME TextOK, ~Refused(Message), Message.name # <<>>
      PROVE  LET s == Content(Message) IN {i \in DOMAIN s : ClosingAt(s, i)} = {Len(s) - 3}
  <2> DEFINE from == Message.from
             name == SanitizeName(Message.name)
             e == EscapeBody(Message.text)
             b == <<Lt, Tag>>
             h == <<Gt, Newline>>
             f == Attribute(from)
             a == Attribute(name)
             p == ((b \o f) \o a) \o h
  <2>1. text \in Seq(Nat)
    BY <1>1, TextCharacters
  <2>2. Message.text \in Seq(Nat) /\ Message.name \in Seq(Nat) /\ from \in Seq(Nat)
    BY <2>1 DEF Message
  <2>3. NoLt(from)
    <3>1. CASE from = <<>>
      <4>1. 1..Len(from) = {}
        BY <3>1
      <4> QED BY ONLY <4>1 DEF NoLt
    <3>2. CASE from # <<>>
      <4>1. ValidAddress(from)
        BY <1>1, <3>2 DEF Refused
      <4> HIDE DEF from
      <4> QED BY <2>2, <4>1, ValidBytes, SafePrinted DEF NoLt
    <3> QED BY <3>1, <3>2
  <2>4. name \in Seq(Nat) /\ NoLt(name)
    <3> DEFINE c == Cleaned(Message.name)
    <3>1. c \in Seq(Nat) /\ \A k \in 1..Len(c) : Allowed(c[k])
      BY <2>2, CleanedName
    <3>2. PICK n \in 0..Len(c) : name = SubSeq(c, 1, n)
      BY <2>2, Sanitized
    <3> HIDE DEF name, c
    <3>3. name \in Seq(Nat) /\ Len(name) = n /\ \A i \in 1..n : name[i] = c[i]
      BY ONLY <3>1, <3>2, PrefixOf
    <3>4. \A i \in 1..n : i \in 1..Len(c)
      <4>1. Len(c) \in Nat
        BY <3>1, LenProperties
      <4> QED BY ONLY <4>1, n \in 0..Len(c)
    <3>5. \A r : Allowed(r) => r # Lt
      BY DEF Allowed
    <3> QED BY ONLY <3>1, <3>3, <3>4, <3>5 DEF NoLt
  <2>5. e \in Seq(Nat) /\ \A k \in 1..Len(e) : ~ClosingAt(e, k)
    BY <2>2, EscapedNoClosing
  <2>6. f \in Seq(Nat) /\ NoLt(f) /\ a \in Seq(Nat) /\ NoLt(a)
    BY <2>2, <2>3, <2>4, AttributeNoLt
  <2>7. b \in Seq(Nat) /\ Opens(b) /\ h \in Seq(Nat) /\ NoLt(h)
    BY EnvelopeAssumption DEF Opens, NoLt, Lt, Gt, Newline
  <2>8. Content(Message) = (((p \o e) \o <<Newline>>) \o Closing) \o <<Gt>>
    BY <1>1 DEF Content, WrapEnvelope
  <2> HIDE DEF e, b, h, f, a
  <2>9. p \in Seq(Nat) /\ Opens(p)
    <3>1. b \o f \in Seq(Nat) /\ Opens(b \o f)
      BY ONLY <2>6, <2>7, OpensJoined
    <3> DEFINE x == b \o f
    <3> HIDE DEF x
    <3>2. x \o a \in Seq(Nat) /\ Opens(x \o a)
      BY ONLY <2>6, <3>1, OpensJoined DEF x
    <3> DEFINE y == x \o a
    <3> HIDE DEF y
    <3>3. y \o h \in Seq(Nat) /\ Opens(y \o h)
      BY ONLY <2>7, <3>2, OpensJoined DEF y
    <3> QED BY <3>3 DEF x, y
  <2> HIDE DEF p
  <2>10. LET s == (((p \o e) \o <<Newline>>) \o Closing) \o <<Gt>>
         IN  {i \in DOMAIN s : ClosingAt(s, i)} = {Len(s) - 3}
    BY ONLY <2>5, <2>9, ClosedOnce
  <2> QED BY ONLY <2>8, <2>10, Zenon
<1>2. TextOK => OneClosingTag
  BY <1>1 DEF OneClosingTag
<1> QED BY <1>2, TextType, PTL

-----------------------------------------------------------------------------
(* Paths                                                                   *)

\* A segment has no slash; the segments of a path are at least one.
Part == {p \in Seq(Nat) : \A i \in 1..Len(p) : p[i] # 47}
Segments == Seq(Part) \ {<<>>}

\* One byte more, if it is no slash, leaves a segment that.
LEMMA PartAppend ==
  /\ <<>> \in Part
  /\ \A p \in Part : \A c \in Nat : c # 47 => Append(p, c) \in Part
<1>1. <<>> \in Part
  BY DEF Part
<1>2. ASSUME NEW p \in Part, NEW c \in Nat, c # 47 PROVE Append(p, c) \in Part
  <2>1. p \in Seq(Nat) /\ Len(p) \in Nat /\ \A i \in 1..Len(p) : p[i] # 47
    BY DEF Part
  <2> DEFINE q == Append(p, c)
  <2>2. q \in Seq(Nat) /\ Len(q) = Len(p) + 1 /\ q[Len(p) + 1] = c
        /\ \A i \in 1..Len(p) : q[i] = p[i]
    BY <2>1, AppendProperties
  <2> HIDE DEF q
  <2>3. \A i \in 1..Len(q) : i \in 1..Len(p) \/ i = Len(p) + 1
    BY ONLY <2>1, <2>2
  <2>4. \A i \in 1..Len(q) : q[i] # 47
    BY ONLY <1>2, <2>1, <2>2, <2>3
  <2> QED BY <2>2, <2>4 DEF q, Part
<1> QED BY <1>1, <1>2

\* One byte more leaves them that.
LEMMA AddByteType ==
  ASSUME NEW segs \in Segments, NEW c \in Nat
  PROVE  /\ AddByte(segs, c) \in Segments
         /\ c = 47 => AddByte(segs, c) = Append(segs, <<>>)
         /\ c # 47 =>
              /\ Len(AddByte(segs, c)) = Len(segs)
              /\ \A k \in 1..Len(segs) :
                   AddByte(segs, c)[k] = IF k = Len(segs) THEN Append(segs[k], c) ELSE segs[k]
<1>1. segs \in Seq(Part) /\ Len(segs) \in Nat /\ Len(segs) \in 1..Len(segs)
  <2>1. segs \in Seq(Part) /\ segs # <<>>
    BY DEF Segments
  <2> QED BY <2>1, EmptySeq, LenProperties
<1>2. CASE c = 47
  <2>1. <<>> \in Part
    BY PartAppend
  <2>2. Append(segs, <<>>) \in Seq(Part) /\ Append(segs, <<>>) # <<>>
    BY <1>1, <2>1, AppendProperties
  <2> QED BY <1>2, <2>2 DEF AddByte, Segments
<1>3. CASE c # 47
  <2> DEFINE l == Len(segs)
             e == Append(segs[l], c)
             u == [segs EXCEPT ![l] = e]
  <2>1. segs[l] \in Part /\ e \in Part
    <3>1. segs[l] \in Part
      BY ONLY <1>1, ElementOfSeq
    <3> QED BY ONLY <1>3, <3>1, PartAppend, c \in Nat
  <2>2. AddByte(segs, c) = u
    BY <1>3 DEF AddByte
  <2> HIDE DEF e
  <2>3. u \in Seq(Part) /\ Len(u) = l /\ \A k \in 1..l : u[k] = IF k = l THEN e ELSE segs[k]
    BY ONLY <1>1, <2>1, ExceptSeq
  <2> HIDE DEF u
  <2>4. u # <<>>
    <3>1. ASSUME u = <<>> PROVE FALSE
      <4>1. Len(u) = 0
        BY <3>1
      <4> QED BY ONLY <1>1, <2>3, <4>1
    <3> QED BY <3>1
  <2> QED BY ONLY <1>3, <2>2, <2>3, <2>4 DEF Segments, e
<1> QED BY <1>2, <1>3

\* The step of Split, as a function.
ByteStep == [p \in Segments \X Nat |-> AddByte(p[1], p[2])]

\* Split takes it for each byte.
LEMMA SplitChain ==
  ASSUME NEW s \in Seq(Nat)
  PROVE  \E g : Chain(g, ByteStep, << <<>> >>, s, Segments) /\ Split(s) = g[Len(s)]
<1> DEFINE V == Segments
           base == << <<>> >>
           D == DOMAIN s
           Def(it) == [x \in SUBSET D |->
                         IF x = {} THEN base
                         ELSE LET i == Max(x) IN AddByte(it[x \ {i}], s[i])]
           iter == CHOOSE it : it = Def(it)
           op == ByteStep
<1>1. Len(s) \in Nat /\ D = 1..Len(s) /\ \A i \in D : s[i] \in Nat
  BY LenProperties, ElementOfSeq
<1>2. base \in V
  BY PartAppend DEF Segments
<1>3. Folding(op, V, Nat) /\ \A v \in V : \A c \in Nat : op[<<v, c>>] = AddByte(v, c)
  BY AddByteType DEF Folding, ByteStep
<1> HIDE DEF op, base, V
<1>4. ASSUME NEW x \in SUBSET D, x # {} PROVE s[Max(x)] \in Nat
  <2>1. x \subseteq 0..Len(s)
    BY <1>1
  <2>2. Max(x) \in x
    BY ONLY <1>1, <1>4, <2>1, MaxMin
  <2> QED BY <1>1, <2>2
<1>5. \E it : it = Def(it)
  <2>1. PICK it : Folded(it, op, base, s, V)
    BY ONLY <1>2, <1>3, s \in Seq(Nat), FoldFixed
  <2>2. ASSUME NEW x \in SUBSET D, x # {}
        PROVE  op[<<it[x \ {Max(x)}], s[Max(x)]>>] = AddByte(it[x \ {Max(x)}], s[Max(x)])
    <3>1. it[x \ {Max(x)}] \in V
      BY <2>1 DEF Folded
    <3> QED BY <1>3, <1>4, <2>2, <3>1
  <2>3. it = Def(it)
    BY <2>1, <2>2 DEF Folded
  <2> QED BY <2>3
<1>6. iter = Def(iter)
  <2> HIDE DEF Def
  <2> QED BY <1>5
<1>7. Split(s) = iter[D]
  BY DEF Split, FoldLeft, MapThenFoldSet, base
<1> HIDE DEF iter
<1>8. iter[{}] = base
  BY <1>6
<1>9. ASSUME NEW x \in SUBSET D, x # {}, iter[x \ {Max(x)}] \in V
      PROVE  iter[x] = op[<<iter[x \ {Max(x)}], s[Max(x)]>>]
  <2>1. iter[x] = AddByte(iter[x \ {Max(x)}], s[Max(x)])
    BY <1>6, <1>9
  <2> QED BY <1>3, <1>4, <1>9, <2>1
<1>10. \E g : Chain(g, op, base, s, V) /\ iter[D] = g[Len(s)]
  <2> HIDE DEF Def
  <2>1. FoldsWithin(iter, op, base, s, V)
    BY ONLY <1>8, <1>9 DEF FoldsWithin
  <2> QED BY ONLY <1>2, <1>3, <2>1, s \in Seq(Nat), FoldChain
<1> QED BY <1>7, <1>10 DEF op, base, V

\* Split goes through a path one byte at a time.
LEMMA SplitAppend ==
  /\ Split(<<>>) = << <<>> >>
  /\ \A s \in Seq(Nat) : Split(s) \in Segments
  /\ \A s \in Seq(Nat) : \A c \in Nat : Split(Append(s, c)) = AddByte(Split(s), c)
<1>1. Split(<<>>) = << <<>> >>
  <2>1. <<>> \in Seq(Nat) /\ Len(<<>>) = 0
    OBVIOUS
  <2> QED BY <2>1, SplitChain DEF Chain
<1>2. ASSUME NEW s \in Seq(Nat) PROVE Split(s) \in Segments
  <2>1. Len(s) \in 0..Len(s)
    BY LenProperties
  <2> QED BY <2>1, SplitChain DEF Chain
<1>3. ASSUME NEW s \in Seq(Nat), NEW c \in Nat PROVE Split(Append(s, c)) = AddByte(Split(s), c)
  <2> DEFINE base == << <<>> >>
             t == Append(s, c)
  <2>1. t \in Seq(Nat)
    BY AppendProperties
  <2>2. PICK g : Chain(g, ByteStep, base, s, Segments) /\ Split(s) = g[Len(s)]
    BY SplitChain
  <2>3. PICK h : Chain(h, ByteStep, base, t, Segments) /\ Split(t) = h[Len(t)]
    BY <2>1, SplitChain
  <2> HIDE DEF base
  <2>4. h[Len(t)] = ByteStep[<<g[Len(s)], c>>]
    <3> DEFINE T == Nat
               op == ByteStep
    <3>1. s \in Seq(T) /\ c \in T
      OBVIOUS
    <3> HIDE DEF T, op
    <3>2. Chain(g, op, base, s, Segments) /\ Chain(h, op, base, Append(s, c), Segments)
      BY <2>2, <2>3 DEF op
    <3>3. h[Len(Append(s, c))] = op[<<g[Len(s)], c>>]
      BY ONLY <3>1, <3>2, ChainAppend
    <3> QED BY <3>3 DEF op
  <2>5. ByteStep[<<Split(s), c>>] = AddByte(Split(s), c)
    BY <1>2 DEF ByteStep
  <2> QED BY ONLY <2>2, <2>3, <2>4, <2>5
<1> QED BY <1>1, <1>2, <1>3

\* A byte goes to the last segment of more.
LEMMA AddByteConcat ==
  ASSUME NEW x \in Segments, NEW y \in Segments, NEW c \in Nat
  PROVE  x \o y \in Segments /\ AddByte(x \o y, c) = x \o AddByte(y, c)
<1> DEFINE z == x \o y
           m == Len(x)
           n == Len(y)
<1>1. x \in Seq(Part) /\ y \in Seq(Part) /\ m \in Nat /\ n \in Nat /\ n # 0
  <2>1. x \in Seq(Part) /\ y \in Seq(Part) /\ y # <<>>
    BY DEF Segments
  <2> QED BY <2>1, EmptySeq, LenProperties
<1>2. z \in Seq(Part) /\ Joined(x, y, z)
  BY <1>1, ConcatJoins
<1>3. Len(z) = m + n
  BY ONLY <1>2 DEF Joined
<1>4. z \in Segments
  <2>1. ASSUME z = <<>> PROVE FALSE
    <3>1. Len(z) = 0
      BY <2>1
    <3> HIDE DEF m, n, z
    <3> QED BY ONLY <1>1, <1>3, <3>1
  <2> QED BY <1>2, <2>1 DEF Segments
<1>5. CASE c = 47
  <2>1. AddByte(z, c) = Append(z, <<>>) /\ AddByte(y, c) = Append(y, <<>>)
    BY <1>4, <1>5, AddByteType
  <2>2. Append(x \o y, <<>>) = x \o Append(y, <<>>)
    <3> DEFINE p == <<>>
    <3>1. p \in Part
      BY PartAppend
    <3> HIDE DEF p
    <3>2. Append(x \o y, p) = (x \o y) \o <<p>> /\ Append(y, p) = y \o <<p>> /\ <<p>> \in Seq(Part)
      BY ONLY <1>1, <1>2, <3>1, AppendIsConcat
    <3>3. (x \o y) \o <<p>> = x \o (y \o <<p>>)
      BY ONLY <1>1, <3>2, ConcatAssociative
    <3> QED BY <3>2, <3>3 DEF p
  <2> QED BY <1>4, <2>1, <2>2
<1>6. CASE c # 47
  <2> DEFINE a == AddByte(y, c)
             u == AddByte(z, c)
             w == x \o a
  <2> HIDE DEF z
  <2>1. /\ a \in Segments /\ Len(a) = n
        /\ \A k \in 1..n : a[k] = IF k = n THEN Append(y[k], c) ELSE y[k]
        /\ u \in Segments /\ Len(u) = Len(z)
        /\ \A k \in 1..Len(z) : u[k] = IF k = Len(z) THEN Append(z[k], c) ELSE z[k]
    BY <1>4, <1>6, AddByteType
  <2>2. a \in Seq(Part) /\ u \in Seq(Part)
    BY <2>1 DEF Segments
  <2> HIDE DEF a, u
  <2>3. w \in Seq(Part) /\ Joined(x, a, w)
    BY <1>1, <2>2, ConcatJoins
  <2> HIDE DEF w, m, n
  <2>4. Len(w) = m + n
    BY ONLY <2>1, <2>3 DEF Joined, m
  <2>5. ASSUME NEW k \in 1..m + n PROVE u[k] = w[k]
    <3>1. CASE k \in 1..m
      <4>1. k # m + n
        BY ONLY <1>1, <3>1
      <4>2. u[k] = x[k]
        BY ONLY <1>2, <1>3, <2>1, <3>1, <4>1, k \in 1..m + n DEF Joined, m
      <4>3. w[k] = x[k]
        BY ONLY <2>3, <3>1 DEF Joined, m
      <4> QED BY ONLY <4>2, <4>3
    <3>2. CASE k \in m + 1..m + n
      <4> DEFINE j == k - m
      <4>1. j \in 1..n /\ k = m + j /\ (k = m + n <=> j = n)
        BY ONLY <1>1, <3>2
      <4> HIDE DEF j
      <4>2. z[k] = y[j]
        BY ONLY <1>2, <4>1 DEF Joined, m, n
      <4>3. w[k] = a[j]
        BY ONLY <2>1, <2>3, <4>1 DEF Joined, m
      <4> QED BY ONLY <1>3, <2>1, <4>1, <4>2, <4>3, k \in 1..m + n
    <3>3. k \in 1..m \/ k \in m + 1..m + n
      BY ONLY <1>1, k \in 1..m + n
    <3> QED BY ONLY <3>1, <3>2, <3>3
  <2>6. u = w
    <3>1. Len(u) = Len(w) /\ \A k \in 1..Len(u) : u[k] = w[k]
      BY ONLY <1>3, <2>1, <2>4, <2>5
    <3> QED BY ONLY <2>2, <2>3, <3>1, SeqEqual
  <2> QED BY <1>4, <2>6 DEF u, w, a, z
<1> QED BY <1>5, <1>6

\* The segments of two paths with a slash between them.
LEMMA SplitConcat ==
  ASSUME NEW a \in Seq(Nat), NEW b \in Seq(Nat)
  PROVE  (a \o <<47>>) \o b \in Seq(Nat) /\ Split((a \o <<47>>) \o b) = Split(a) \o Split(b)
<1> DEFINE h == a \o <<47>>
           S == {s \in Seq(Nat) : Split(h \o s) = Split(a) \o Split(s)}
<1>1. h \in Seq(Nat) /\ h = Append(a, 47)
  <2>1. <<47>> \in Seq(Nat) /\ 47 \in Nat
    OBVIOUS
  <2>2. Append(a, 47) = h
    BY ONLY <2>1, AppendIsConcat, a \in Seq(Nat)
  <2>3. Append(a, 47) \in Seq(Nat)
    BY ONLY <2>1, AppendProperties, a \in Seq(Nat)
  <2> QED BY <2>2, <2>3
<1>2. Split(a) \in Segments
  BY SplitAppend
<1>3. <<>> \in S
  <2>1. Split(h) = AddByte(Split(a), 47)
    BY <1>1, SplitAppend
  <2>2. AddByte(Split(a), 47) = Append(Split(a), <<>>)
    BY <1>2, AddByteType
  <2>3. Append(Split(a), <<>>) = Split(a) \o << <<>> >>
    <3>1. Split(a) \in Seq(Part) /\ <<>> \in Part
      BY <1>2, PartAppend DEF Segments
    <3> DEFINE p == <<>>
    <3> HIDE DEF p
    <3>2. Append(Split(a), p) = Split(a) \o <<p>>
      BY ONLY <3>1, AppendIsConcat DEF p
    <3> QED BY <3>2 DEF p
  <2>4. h \o <<>> = h /\ <<>> \in Seq(Nat)
    BY <1>1, ConcatEmptySeq
  <2> QED BY <2>1, <2>2, <2>3, <2>4, SplitAppend
<1>4. ASSUME NEW s \in Seq(Nat), NEW c \in Nat, s \in S PROVE Append(s, c) \in S
  <2>1. h \o Append(s, c) = Append(h \o s, c) /\ h \o s \in Seq(Nat) /\ Append(s, c) \in Seq(Nat)
    <3> DEFINE T == Nat
    <3>1. h \in Seq(T) /\ s \in Seq(T) /\ c \in T
      BY <1>1
    <3> HIDE DEF h, T
    <3>2. h \o s \in Seq(T) /\ Append(s, c) \in Seq(T)
      BY ONLY <3>1, ConcatAppend
    <3>3. h \o Append(s, c) = Append(h \o s, c)
      BY ONLY <3>1, ConcatAppend
    <3> QED BY ONLY <3>2, <3>3 DEF T
  <2>2. Split(Append(h \o s, c)) = AddByte(Split(h \o s), c)
    BY <2>1, SplitAppend
  <2>3. Split(h \o s) = Split(a) \o Split(s) /\ Split(s) \in Segments
    BY <1>4, SplitAppend
  <2>4. AddByte(Split(a) \o Split(s), c) = Split(a) \o AddByte(Split(s), c)
    BY <1>2, <2>3, AddByteConcat
  <2>5. AddByte(Split(s), c) = Split(Append(s, c))
    BY SplitAppend
  <2> HIDE DEF h
  <2>6. Split(h \o Append(s, c)) = Split(a) \o Split(Append(s, c))
    BY ONLY <2>1, <2>2, <2>3, <2>4, <2>5
  <2> QED BY ONLY <2>1, <2>6
<1>5. b \in S
  <2> HIDE DEF S
  <2> QED BY <1>3, <1>4, SeqInduction
<1>6. h \o b \in Seq(Nat)
  <2> HIDE DEF h
  <2> QED BY <1>1
<1> QED BY <1>5, <1>6

\* What has no slash is one segment.
LEMMA SplitPart ==
  ASSUME NEW p \in Part
  PROVE  Split(p) = <<p>>
<1> DEFINE S == {s \in Seq(Nat) : s \in Part => Split(s) = <<s>>}
<1>1. <<>> \in S
  <2>1. <<>> \in Seq(Nat)
    OBVIOUS
  <2> QED BY <2>1, SplitAppend
<1>2. ASSUME NEW s \in Seq(Nat), NEW c \in Nat, s \in S PROVE Append(s, c) \in S
  <2> DEFINE t == Append(s, c)
  <2>1. t \in Seq(Nat) /\ Len(t) = Len(s) + 1 /\ t[Len(s) + 1] = c
        /\ Len(s) \in Nat /\ \A i \in 1..Len(s) : t[i] = s[i]
    BY AppendProperties, LenProperties
  <2>2. Split(t) = AddByte(Split(s), c)
    BY SplitAppend
  <2> SUFFICES ASSUME t \in Part PROVE Split(t) = <<t>>
    BY <2>1
  <2>3. s \in Part /\ c # 47
    <3> HIDE DEF t
    <3>1. \A i \in 1..Len(t) : t[i] # 47
      BY DEF Part
    <3>2. Len(s) + 1 \in 1..Len(t) /\ \A i \in 1..Len(s) : i \in 1..Len(t)
      BY ONLY <2>1
    <3>3. c # 47 /\ \A i \in 1..Len(s) : s[i] # 47
      BY ONLY <2>1, <3>1, <3>2
    <3> QED BY <3>3 DEF Part
  <2>4. Split(s) = <<s>>
    BY <1>2, <2>3
  <2>5. [<<s>> EXCEPT ![1] = t] = <<t>>
    OBVIOUS
  <2>6. AddByte(<<s>>, c) = <<t>>
    <3>1. Len(<<s>>) = 1 /\ <<s>>[1] = s
      OBVIOUS
    <3> QED BY <2>3, <2>5, <3>1 DEF AddByte
  <2> QED BY <2>2, <2>4, <2>6
<1>3. p \in S
  <2>1. p \in Seq(Nat)
    BY DEF Part
  <2> HIDE DEF S
  <2> QED BY <1>1, <1>2, <2>1, SeqInduction
<1> QED BY <1>3

\* A segment that leads somewhere else than up.
Name == Part \ {<<>>, Dot, DotDot}

\* The step of Clean leaves only those.
LEMMA AddSegmentType ==
  ASSUME NEW segs \in Seq(Name), NEW p \in Part
  PROVE  AddSegment(segs, p) \in Seq(Name)
<1>1. CASE p \in {<<>>, Dot}
  BY <1>1 DEF AddSegment
<1>2. CASE p \notin {<<>>, Dot} /\ p # DotDot
  <2>1. p \in Name
    BY <1>2 DEF Name
  <2> QED BY <1>2, <2>1, AppendProperties DEF AddSegment
<1>3. CASE p \notin {<<>>, Dot} /\ p = DotDot /\ segs = <<>>
  BY <1>3 DEF AddSegment
<1>4. CASE p \notin {<<>>, Dot} /\ p = DotDot /\ segs # <<>>
  <2>1. Len(segs) \in Nat /\ 1 \in Int /\ Len(segs) - 1 \in Int
        /\ \A i \in 1..Len(segs) - 1 : i \in 1..Len(segs)
    BY LenProperties
  <2>2. \A i \in 1..Len(segs) - 1 : segs[i] \in Name
    BY <2>1, ElementOfSeq
  <2>3. SubSeq(segs, 1, Len(segs) - 1) \in Seq(Name)
    BY ONLY <2>1, <2>2, SubSeqProperties
  <2> QED BY <1>4, <2>3 DEF AddSegment, Front
<1> QED BY <1>1, <1>2, <1>3, <1>4

\* The step of Clean, as a function, and what Clean makes of segments.
SegmentStep == [p \in Seq(Name) \X Part |-> AddSegment(p[1], p[2])]
CleanOf(ss) == FoldLeft(AddSegment, <<>>, ss)

\* Clean takes it for each segment.
LEMMA CleanChain ==
  ASSUME NEW s \in Seq(Part)
  PROVE  \E g : Chain(g, SegmentStep, <<>>, s, Seq(Name)) /\ CleanOf(s) = g[Len(s)]
<1> DEFINE V == Seq(Name)
           base == <<>>
           D == DOMAIN s
           Def(it) == [x \in SUBSET D |->
                         IF x = {} THEN base
                         ELSE LET i == Max(x) IN AddSegment(it[x \ {i}], s[i])]
           iter == CHOOSE it : it = Def(it)
           op == SegmentStep
<1>1. Len(s) \in Nat /\ D = 1..Len(s) /\ \A i \in D : s[i] \in Part
  BY LenProperties, ElementOfSeq
<1>2. base \in V
  OBVIOUS
<1>3. Folding(op, V, Part) /\ \A v \in V : \A p \in Part : op[<<v, p>>] = AddSegment(v, p)
  <2> HIDE DEF V
  <2>1. \A v \in V : \A p \in Part : op[<<v, p>>] = AddSegment(v, p)
    BY DEF SegmentStep, V
  <2>2. \A v \in V : \A p \in Part : AddSegment(v, p) \in V
    BY AddSegmentType DEF V
  <2> QED BY <2>1, <2>2 DEF Folding
<1> HIDE DEF op, base, V
<1>4. ASSUME NEW x \in SUBSET D, x # {} PROVE s[Max(x)] \in Part
  <2>1. x \subseteq 0..Len(s)
    BY <1>1
  <2>2. Max(x) \in x
    BY ONLY <1>1, <1>4, <2>1, MaxMin
  <2> QED BY <1>1, <2>2
<1>5. \E it : it = Def(it)
  <2>1. PICK it : Folded(it, op, base, s, V)
    BY ONLY <1>2, <1>3, s \in Seq(Part), FoldFixed
  <2>2. ASSUME NEW x \in SUBSET D, x # {}
        PROVE  op[<<it[x \ {Max(x)}], s[Max(x)]>>] = AddSegment(it[x \ {Max(x)}], s[Max(x)])
    <3>1. it[x \ {Max(x)}] \in V
      BY <2>1 DEF Folded
    <3> QED BY <1>3, <1>4, <2>2, <3>1
  <2>3. it = Def(it)
    BY <2>1, <2>2 DEF Folded
  <2> QED BY <2>3
<1>6. iter = Def(iter)
  <2> HIDE DEF Def
  <2> QED BY <1>5
<1>7. CleanOf(s) = iter[D]
  BY DEF CleanOf, FoldLeft, MapThenFoldSet, base
<1> HIDE DEF iter
<1>8. iter[{}] = base
  BY <1>6
<1>9. ASSUME NEW x \in SUBSET D, x # {}, iter[x \ {Max(x)}] \in V
      PROVE  iter[x] = op[<<iter[x \ {Max(x)}], s[Max(x)]>>]
  <2>1. iter[x] = AddSegment(iter[x \ {Max(x)}], s[Max(x)])
    BY <1>6, <1>9
  <2> QED BY <1>3, <1>4, <1>9, <2>1
<1>10. \E g : Chain(g, op, base, s, V) /\ iter[D] = g[Len(s)]
  <2> HIDE DEF Def
  <2>1. FoldsWithin(iter, op, base, s, V)
    BY ONLY <1>8, <1>9 DEF FoldsWithin
  <2> QED BY ONLY <1>2, <1>3, <2>1, s \in Seq(Part), FoldChain
<1> QED BY <1>7, <1>10 DEF op, base, V

\* Clean goes through the segments of a path one at a time.
LEMMA CleanAppend ==
  /\ CleanOf(<<>>) = <<>>
  /\ \A s \in Seq(Part) : CleanOf(s) \in Seq(Name)
  /\ \A s \in Seq(Part) : \A p \in Part : CleanOf(Append(s, p)) = AddSegment(CleanOf(s), p)
<1>1. CleanOf(<<>>) = <<>>
  <2>1. <<>> \in Seq(Part) /\ Len(<<>>) = 0
    OBVIOUS
  <2> QED BY <2>1, CleanChain DEF Chain
<1>2. ASSUME NEW s \in Seq(Part) PROVE CleanOf(s) \in Seq(Name)
  <2>1. Len(s) \in 0..Len(s)
    BY LenProperties
  <2> DEFINE V == Seq(Name)
  <2>2. PICK g : Chain(g, SegmentStep, <<>>, s, V) /\ CleanOf(s) = g[Len(s)]
    BY CleanChain
  <2> HIDE DEF V
  <2>3. g \in [0..Len(s) -> V]
    BY <2>2 DEF Chain
  <2>4. CleanOf(s) \in V
    BY <2>1, <2>2, <2>3
  <2> QED BY <2>4 DEF V
<1>3. ASSUME NEW s \in Seq(Part), NEW p \in Part
      PROVE  CleanOf(Append(s, p)) = AddSegment(CleanOf(s), p)
  <2> DEFINE base == <<>>
             t == Append(s, p)
             V == Seq(Name)
  <2>1. t \in Seq(Part)
    BY AppendProperties
  <2>2. PICK g : Chain(g, SegmentStep, base, s, V) /\ CleanOf(s) = g[Len(s)]
    BY CleanChain
  <2>3. PICK h : Chain(h, SegmentStep, base, t, V) /\ CleanOf(t) = h[Len(t)]
    BY <2>1, CleanChain
  <2> HIDE DEF base
  <2>4. h[Len(t)] = SegmentStep[<<g[Len(s)], p>>]
    <3> DEFINE op == SegmentStep
    <3> HIDE DEF op, V
    <3>1. Chain(g, op, base, s, V) /\ Chain(h, op, base, Append(s, p), V)
      BY <2>2, <2>3 DEF op
    <3>2. h[Len(Append(s, p))] = op[<<g[Len(s)], p>>]
      BY ONLY <3>1, s \in Seq(Part), p \in Part, ChainAppend
    <3> QED BY <3>2 DEF op
  <2>5. SegmentStep[<<CleanOf(s), p>>] = AddSegment(CleanOf(s), p)
    BY <1>2 DEF SegmentStep
  <2> QED BY ONLY <2>2, <2>3, <2>4, <2>5
<1> QED BY <1>1, <1>2, <1>3

\* The segments that lead somewhere, of those that Clean looks at.
RealPiece == [p \in Part |-> IF p \in {<<>>, Dot} THEN <<>> ELSE <<p>>]
Real(ss) == Mapped(RealPiece, ss)

\* They are segments.
LEMMA RealType ==
  Mapping(RealPiece, Part, Part)
<1>1. \A p \in Part : (IF p \in {<<>>, Dot} THEN <<>> ELSE <<p>>) \in Seq(Part)
  OBVIOUS
<1> QED BY <1>1 DEF RealPiece, Mapping

\* One more of them comes last.
LEMMA RealAppend ==
  ASSUME NEW s \in Seq(Part), NEW p \in Part
  PROVE  Real(Append(s, p)) = Real(s) \o RealPiece[p] /\ Real(s) \in Seq(Part)
<1>1. Mapped(RealPiece, Append(s, p)) = Mapped(RealPiece, s) \o RealPiece[p]
  BY ONLY RealType, MappedAppend, s \in Seq(Part), p \in Part
<1>2. Mapped(RealPiece, s) \in Seq(Part)
  BY ONLY RealType, MappedType, s \in Seq(Part)
<1> QED BY <1>1, <1>2 DEF Real

\* Where no segment leads up, Clean keeps just those.
LEMMA CleanReal ==
  ASSUME NEW ss \in Seq(Part), \A i \in 1..Len(ss) : ss[i] # DotDot
  PROVE  CleanOf(ss) = Real(ss)
<1> DEFINE T == Part \ {DotDot}
           S == {s \in Seq(T) : CleanOf(s) = Real(s)}
<1>1. <<>> \in S
  <2>1. <<>> \in Seq(T)
    OBVIOUS
  <2>2. Real(<<>>) = <<>>
    BY ONLY RealType, MappedEmpty DEF Real
  <2> QED BY <2>1, <2>2, CleanAppend
<1>2. ASSUME NEW s \in Seq(T), NEW p \in T, s \in S PROVE Append(s, p) \in S
  <2>1. s \in Seq(Part) /\ p \in Part /\ p # DotDot /\ Append(s, p) \in Seq(T)
    <3>1. Len(s) \in Nat /\ \A i \in 1..Len(s) : s[i] \in Part
      BY LenProperties, ElementOfSeq
    <3>2. s \in Seq(Part)
      BY ONLY <3>1, s \in Seq(T), SeqDef
    <3> QED BY <3>2, AppendProperties
  <2>2. CleanOf(Append(s, p)) = AddSegment(CleanOf(s), p)
    BY <2>1, CleanAppend
  <2>3. Real(Append(s, p)) = Real(s) \o RealPiece[p] /\ Real(s) \in Seq(Part)
    BY ONLY <2>1, RealAppend
  <2>4. CleanOf(s) = Real(s)
    BY <1>2
  <2>5. CASE p \in {<<>>, Dot}
    <3>1. RealPiece[p] = <<>> /\ AddSegment(CleanOf(s), p) = CleanOf(s)
      BY <2>1, <2>5 DEF RealPiece, AddSegment
    <3>2. Real(s) \o <<>> = Real(s)
      BY ONLY <2>3, ConcatEmptySeq
    <3>3. CleanOf(Append(s, p)) = Real(Append(s, p))
      BY ONLY <2>2, <2>3, <2>4, <3>1, <3>2
    <3> QED BY <2>1, <3>3
  <2>6. CASE p \notin {<<>>, Dot}
    <3>1. RealPiece[p] = <<p>> /\ AddSegment(CleanOf(s), p) = Append(CleanOf(s), p)
      BY <2>1, <2>6 DEF RealPiece, AddSegment
    <3>2. Append(Real(s), p) = Real(s) \o <<p>>
      BY ONLY <2>1, <2>3, AppendIsConcat
    <3>3. CleanOf(Append(s, p)) = Real(Append(s, p))
      BY ONLY <2>2, <2>3, <2>4, <3>1, <3>2
    <3> QED BY <2>1, <3>3
  <2> QED BY <2>5, <2>6
<1>3. ss \in Seq(T)
  <2>1. Len(ss) \in Nat /\ \A i \in 1..Len(ss) : ss[i] \in T
    BY LenProperties, ElementOfSeq
  <2> QED BY ONLY <2>1, ss \in Seq(Part), SeqDef
<1>4. ss \in S
  <2> HIDE DEF S, T
  <2> QED BY <1>1, <1>2, <1>3, SeqInduction
<1> QED BY <1>4

\* Where all do, those are all.
LEMMA RealName ==
  ASSUME NEW ss \in Seq(Name)
  PROVE  /\ ss \in Seq(Part) /\ \A i \in 1..Len(ss) : ss[i] # DotDot
         /\ Real(ss) = ss
<1>1. Len(ss) \in Nat /\ \A i \in 1..Len(ss) : ss[i] \in Name
  BY LenProperties, ElementOfSeq
<1>2. \A i \in 1..Len(ss) : ss[i] \in Part /\ ss[i] \notin {<<>>, Dot, DotDot}
  BY <1>1 DEF Name
<1>3. ss \in Seq(Part)
  BY ONLY <1>1, <1>2, ss \in Seq(Name), SeqDef
<1>4. [i \in DOMAIN ss |-> RealPiece[ss[i]]] = [i \in 1..Len(ss) |-> <<ss[i]>>]
  BY <1>2 DEF RealPiece
<1>5. Real(ss) = ss
  <2> DEFINE tt == [i \in 1..Len(ss) |-> <<ss[i]>>]
  <2> HIDE DEF tt
  <2>1. FlattenSeq(tt) = ss
    <3>1. tt = [i \in 1..Len(ss) |-> <<ss[i]>>]
      BY DEF tt
    <3> QED BY ONLY <1>3, <3>1, FlattenSingles
  <2> QED BY <1>4, <2>1 DEF Real, Mapped, tt
<1> QED BY <1>2, <1>3, <1>5

\* What PathOf makes of a segment, and of segments.
Slashed == [p \in Part |-> <<47>> \o p]
Path(ss) == Mapped(Slashed, ss)

\* A string of bytes.
LEMMA SlashedType ==
  Mapping(Slashed, Part, Nat)
<1>1. ASSUME NEW p \in Part PROVE <<47>> \o p \in Seq(Nat)
  <2>1. <<47>> \in Seq(Nat) /\ p \in Seq(Nat)
    BY DEF Part
  <2> QED BY ONLY <2>1, ConcatProperties
<1> QED BY <1>1 DEF Slashed, Mapping

\* PathOf makes the same.
LEMMA PathIs ==
  ASSUME NEW ss \in Seq(Part), ss # <<>>
  PROVE  PathOf(ss) = Path(ss)
<1>1. DOMAIN ss = 1..Len(ss) /\ \A i \in 1..Len(ss) : ss[i] \in Part
  BY LenProperties, ElementOfSeq
<1>2. [i \in DOMAIN ss |-> <<47>> \o ss[i]] = [i \in DOMAIN ss |-> Slashed[ss[i]]]
  BY <1>1 DEF Slashed
<1> QED BY <1>2 DEF PathOf, Path, Mapped

\* One more segment comes last.
LEMMA PathAppend ==
  ASSUME NEW s \in Seq(Part), NEW p \in Part
  PROVE  Path(Append(s, p)) = Path(s) \o (<<47>> \o p)
<1>1. Mapped(Slashed, Append(s, p)) = Mapped(Slashed, s) \o Slashed[p]
  BY ONLY SlashedType, MappedAppend, s \in Seq(Part), p \in Part
<1>2. Slashed[p] = <<47>> \o p
  BY DEF Slashed
<1> QED BY <1>1, <1>2 DEF Path

\* Its segments are those, and one before the first slash.
LEMMA PathSplit ==
  ASSUME NEW ss \in Seq(Part)
  PROVE  /\ Path(ss) \in Seq(Nat) /\ Split(Path(ss)) = << <<>> >> \o ss
         /\ ss # <<>> => Rooted(Path(ss))
<1> DEFINE one == << <<>> >>
           S == {s \in Seq(Part) :
                   /\ Path(s) \in Seq(Nat) /\ Split(Path(s)) = one \o s
                   /\ s # <<>> => Rooted(Path(s))}
<1>1. one \in Seq(Part)
  BY PartAppend
<1>2. <<>> \in S
  <2>1. <<>> \in Seq(Part) /\ <<>> \in Seq(Nat)
    OBVIOUS
  <2>2. Path(<<>>) = <<>>
    <3> HIDE DEF Slashed
    <3> QED BY ONLY SlashedType, MappedEmpty DEF Path
  <2>3. one \o <<>> = one
    BY ONLY <1>1, ConcatEmptySeq
  <2> QED BY <2>1, <2>2, <2>3, SplitAppend
<1>3. ASSUME NEW s \in Seq(Part), NEW p \in Part, s \in S PROVE Append(s, p) \in S
  <2> DEFINE t == Append(s, p)
  <2>1. t \in Seq(Part)
    BY AppendProperties
  <2>2. Path(t) = Path(s) \o (<<47>> \o p)
    BY PathAppend
  <2>3. Path(s) \in Seq(Nat) /\ Split(Path(s)) = one \o s /\ (s # <<>> => Rooted(Path(s)))
    BY <1>3
  <2>4. p \in Seq(Nat) /\ <<47>> \in Seq(Nat)
    BY DEF Part
  <2>5. Path(t) = (Path(s) \o <<47>>) \o p
    <3> DEFINE a == Path(s)
               c == <<47>>
               N == Nat
               V == Seq(N)
    <3>1. a \in V /\ c \in V /\ p \in V
      BY <2>3, <2>4
    <3>2. (a \o c) \o p = a \o (c \o p)
      <4> HIDE DEF N
      <4>1. \A x, y, z \in V : (x \o y) \o z = x \o (y \o z)
        BY ONLY ConcatMoves
      <4> HIDE DEF a, c, V
      <4> QED BY ONLY <3>1, <4>1
    <3> QED BY <2>2, <3>2 DEF a, c
  <2>6. Path(t) \in Seq(Nat) /\ Split(Path(t)) = Split(Path(s)) \o Split(p)
    <3> DEFINE a == Path(s)
    <3> HIDE DEF a
    <3>1. (a \o <<47>>) \o p \in Seq(Nat) /\ Split((a \o <<47>>) \o p) = Split(a) \o Split(p)
      BY <2>3, <2>4, SplitConcat DEF a
    <3> QED BY <2>5, <3>1 DEF a
  <2>7. Split(Path(t)) = one \o t
    <3>1. Split(p) = <<p>>
      BY SplitPart
    <3>2. <<p>> \in Seq(Part) /\ t = s \o <<p>>
      BY AppendIsConcat
    <3>3. (one \o s) \o <<p>> = one \o (s \o <<p>>)
      BY ONLY <1>1, <3>2, ConcatAssociative, s \in Seq(Part)
    <3> HIDE DEF one, t
    <3> QED BY ONLY <2>3, <2>6, <3>1, <3>2, <3>3
  <2>8. Rooted(Path(t))
    <3> DEFINE a == Path(s)
               b == <<47>> \o p
    <3>1. a \in Seq(Nat) /\ b \in Seq(Nat) /\ b # <<>> /\ b[1] = 47 /\ Len(b) \in Nat /\ Len(b) # 0
      BY <2>3, <2>4
    <3>2. a = <<>> \/ Rooted(a)
      <4>1. s = <<>> \/ Rooted(a)
        BY <2>3
      <4>2. Path(<<>>) = <<>>
        BY ONLY SlashedType, MappedEmpty DEF Path
      <4> QED BY <4>1, <4>2
    <3> HIDE DEF a, b
    <3>3. CASE a = <<>>
      <4>1. Path(t) = b
        BY <2>2, <3>1, <3>3 DEF a, b
      <4> QED BY <3>1, <4>1 DEF Rooted
    <3>4. CASE a # <<>>
      <4>1. Len(a) \in Nat /\ Len(a) # 0 /\ a[1] = 47
        BY <3>1, <3>2, <3>4, EmptySeq DEF Rooted
      <4>2. a \o b \in Seq(Nat) /\ Joined(a, b, a \o b)
        BY ONLY <3>1, ConcatJoins
      <4> DEFINE c == a \o b
      <4> HIDE DEF c
      <4>3. c \in Seq(Nat) /\ Len(c) # 0 /\ c[1] = 47
        BY <4>1, <4>2 DEF Joined, c
      <4>4. Path(t) = c
        BY <2>2 DEF a, b, c
      <4> QED BY <4>3, <4>4 DEF Rooted
    <3> QED BY <3>3, <3>4
  <2> QED BY <2>1, <2>6, <2>7, <2>8
<1>4. ss \in S
  <2> HIDE DEF S
  <2> QED BY <1>2, <1>3, SeqInduction
<1> QED BY <1>4

\* No segment leads up.
NoUp(ss) == \A i \in 1..Len(ss) : ss[i] # DotDot

\* Nor does one of two such paths put together.
LEMMA NoUpConcat ==
  ASSUME NEW ss \in Seq(Part), NEW tt \in Seq(Part), NoUp(ss), NoUp(tt)
  PROVE  NoUp(ss \o tt)
<1>1. Joined(ss, tt, ss \o tt)
  BY ONLY ConcatJoins, ss \in Seq(Part), tt \in Seq(Part)
<1> DEFINE u == ss \o tt
<1> HIDE DEF u
<1>2. Joined(ss, tt, u)
  BY <1>1 DEF u
<1>3. NoUp(u)
  BY ONLY <1>2, NoUp(ss), NoUp(tt) DEF NoUp, Joined
<1> QED BY <1>3 DEF u

\* The empty segment before the first slash.
One == << <<>> >>

\* It leads nowhere.
LEMMA OneReal ==
  One \in Seq(Part) /\ NoUp(One) /\ Real(One) = <<>>
<1>1. <<>> \in Part /\ <<>> \in Seq(Part) /\ One = Append(<<>>, <<>>)
  BY PartAppend DEF One
<1>2. One \in Seq(Part)
  BY <1>1 DEF One
<1>3. NoUp(One)
  BY DEF One, NoUp, DotDot
<1>4. Real(<<>>) = <<>>
  <2> HIDE DEF RealPiece
  <2> QED BY ONLY RealType, MappedEmpty DEF Real
<1>5. Real(One) = <<>>
  <2> DEFINE p == <<>>
             s == <<>>
  <2>1. p \in Part /\ s \in Seq(Part) /\ One = Append(s, p)
    BY <1>1
  <2> HIDE DEF p, s
  <2>2. Real(Append(s, p)) = Real(s) \o RealPiece[p] /\ Real(s) \in Seq(Part)
    BY ONLY <2>1, RealAppend
  <2>3. RealPiece[p] = <<>>
    BY <2>1 DEF RealPiece, p
  <2>4. Real(s) = <<>>
    BY <1>4 DEF s
  <2> QED BY <2>1, <2>2, <2>3, <2>4
<1> QED BY <1>2, <1>3, <1>5

\* What two paths put together keep.
LEMMA RealConcat ==
  ASSUME NEW ss \in Seq(Part), NEW tt \in Seq(Part)
  PROVE  Real(ss \o tt) = Real(ss) \o Real(tt)
<1>1. Mapped(RealPiece, ss \o tt) = Mapped(RealPiece, ss) \o Mapped(RealPiece, tt)
  BY ONLY RealType, MappedConcat, ss \in Seq(Part), tt \in Seq(Part)
<1> QED BY <1>1 DEF Real

\* The segments of what PathOf returns.
LEMMA PathOfSplit ==
  ASSUME NEW ss \in Seq(Part)
  PROVE  /\ PathOf(ss) \in Seq(Nat) /\ Rooted(PathOf(ss))
         /\ Split(PathOf(ss)) = One \o (IF ss = <<>> THEN One ELSE ss)
<1>1. CASE ss = <<>>
  <2>1. PathOf(ss) = <<47>> /\ <<47>> \in Seq(Nat) /\ <<47>> = Append(<<>>, 47) /\ 47 \in Nat
        /\ <<>> \in Seq(Nat)
    BY <1>1 DEF PathOf
  <2>2. Split(Append(<<>>, 47)) = AddByte(Split(<<>>), 47)
    <3> DEFINE s == <<>>
               c == 47
    <3>1. s \in Seq(Nat) /\ c \in Nat
      OBVIOUS
    <3> HIDE DEF s, c
    <3>2. Split(Append(s, c)) = AddByte(Split(s), c)
      BY ONLY <3>1, SplitAppend
    <3> QED BY <3>2 DEF s, c
  <2>3. AddByte(One, 47) = One \o One
    BY DEF AddByte, One
  <2>4. Split(<<>>) = One
    BY SplitAppend DEF One
  <2>5. Split(PathOf(ss)) = One \o One
    BY ONLY <2>1, <2>2, <2>3, <2>4
  <2>6. Rooted(<<47>>)
    BY DEF Rooted
  <2>7. Rooted(PathOf(ss)) /\ PathOf(ss) \in Seq(Nat)
    BY ONLY <2>1, <2>6
  <2> QED BY ONLY <1>1, <2>5, <2>7
<1>2. CASE ss # <<>>
  BY <1>2, PathIs, PathSplit DEF One
<1> QED BY <1>1, <1>2

\* What Abs returns is clean, and stays as it is.
LEMMA CleanPath ==
  ASSUME NEW ss \in Seq(Name), NEW cwd
  PROVE  Rooted(PathOf(ss)) /\ Canonical(cwd, PathOf(ss)) = PathOf(ss)
<1> DEFINE t == IF ss = <<>> THEN One ELSE ss
           s == PathOf(ss)
<1>1. ss \in Seq(Part) /\ NoUp(ss) /\ Real(ss) = ss
  BY RealName DEF NoUp
<1>2. s \in Seq(Nat) /\ Rooted(s) /\ Split(s) = One \o t
  BY <1>1, PathOfSplit
<1>3. t \in Seq(Part) /\ NoUp(t) /\ Real(t) = ss
  BY <1>1, OneReal
<1> HIDE DEF t, s
<1>4. One \o t \in Seq(Part) /\ NoUp(One \o t)
  BY ONLY <1>3, OneReal, NoUpConcat, ConcatProperties
<1>5. Real(One \o t) = ss
  <2>1. Real(One \o t) = Real(One) \o Real(t)
    BY ONLY <1>3, OneReal, RealConcat
  <2>2. <<>> \o ss = ss
    BY <1>1
  <2> QED BY ONLY <1>3, <2>1, <2>2, OneReal
<1>6. Clean(s) = ss
  <2>1. Split(s) \in Seq(Part) /\ NoUp(Split(s)) /\ Real(Split(s)) = ss
    BY ONLY <1>2, <1>4, <1>5
  <2>2. CleanOf(Split(s)) = Real(Split(s))
    BY <2>1, CleanReal DEF NoUp
  <2> QED BY <2>1, <2>2 DEF Clean, CleanOf
<1>7. Abs(cwd, s) = s
  BY <1>2, <1>6 DEF Abs, s
<1>8. s # <<>> /\ \A i \in DOMAIN Split(s) : Split(s)[i] # DotDot
  <2>1. Split(s) \in Seq(Part) /\ NoUp(Split(s))
    BY ONLY <1>2, <1>4
  <2> QED BY <1>2, <2>1, LenProperties DEF NoUp, Rooted
<1>9. Canonical(cwd, s) = s
  BY ONLY <1>7, <1>8 DEF Canonical
<1> QED BY <1>2, <1>9 DEF s

\* Bytes are numbers.
LEMMA BytesNat ==
  Seq(0..255) \subseteq Seq(Nat)
<1>1. 0..255 \subseteq Nat
  OBVIOUS
<1> QED BY <1>1, SeqMonotonic

\* So is what it is for any path, rooted or under a directory that is.
LEMMA CleanedPath ==
  ASSUME NEW x \in Seq(Nat)
  PROVE  \E ss \in Seq(Name) : PathOf(Clean(x)) = PathOf(ss)
<1>1. Clean(x) = CleanOf(Split(x))
  BY DEF Clean, CleanOf
<1>2. Split(x) \in Seq(Part)
  BY SplitAppend DEF Segments
<1>3. CleanOf(Split(x)) \in Seq(Name)
  BY <1>2, CleanAppend
<1> QED BY ONLY <1>1, <1>3

\* What os.Getwd returns.
LEMMA CwdIs ==
  ASSUME NEW cwd \in Cwds
  PROVE  /\ cwd \in Seq(Nat)
         /\ cwd # NoPath => Rooted(cwd) /\ Canonical(cwd, cwd) # NoPath
<1>1. CASE cwd = NoPath
  BY <1>1 DEF NoPath
<1>2. CASE cwd # NoPath
  BY <1>2, PathsAssumption, BytesNat
<1> QED BY <1>1, <1>2

\* So does what Abs returns, for the path it makes of a relative one.
LEMMA AbsPath ==
  ASSUME NEW s \in Seq(Nat), NEW cwd \in Seq(Nat)
  PROVE  Abs(cwd, s) # NoPath =>
           /\ \E ss \in Seq(Name) : Abs(cwd, s) = PathOf(ss)
           /\ Canonical(cwd, Abs(cwd, s)) = Abs(cwd, s)
<1> DEFINE x == IF Rooted(s) THEN s ELSE cwd \o <<47>> \o s
<1>1. x \in Seq(Nat)
  <2>1. (cwd \o <<47>>) \o s \in Seq(Nat)
    BY ONLY cwd \in Seq(Nat), SplitConcat, s \in Seq(Nat)
  <2> QED BY <2>1
<1> SUFFICES ASSUME Abs(cwd, s) # NoPath
             PROVE  /\ \E ss \in Seq(Name) : Abs(cwd, s) = PathOf(ss)
                    /\ Canonical(cwd, Abs(cwd, s)) = Abs(cwd, s)
  OBVIOUS
<1>2. Abs(cwd, s) = PathOf(Clean(x))
  BY DEF Abs
<1> HIDE DEF x
<1>3. PICK ss \in Seq(Name) : PathOf(Clean(x)) = PathOf(ss)
  BY ONLY <1>1, CleanedPath
<1> QED BY ONLY <1>2, <1>3, CleanPath

\* What the property calls real.
LEMMA RealIs ==
  ASSUME NEW ss \in Seq(Part)
  PROVE  FlattenSeq([i \in DOMAIN ss |-> IF ss[i] \in {<<>>, Dot} THEN <<>> ELSE <<ss[i]>>])
           = Real(ss)
<1>1. DOMAIN ss = 1..Len(ss) /\ \A i \in 1..Len(ss) : ss[i] \in Part
  BY LenProperties, ElementOfSeq
<1>2. [i \in DOMAIN ss |-> IF ss[i] \in {<<>>, Dot} THEN <<>> ELSE <<ss[i]>>]
        = [i \in DOMAIN ss |-> RealPiece[ss[i]]]
  BY <1>1 DEF RealPiece
<1> QED BY <1>2 DEF Real, Mapped

\* A path that canonicalSocketPath takes has no segment that leads up.
LEMMA TakenIs ==
  ASSUME NEW s \in Seq(Nat), NEW cwd, Canonical(cwd, s) # NoPath
  PROVE  /\ s # <<>> /\ Split(s) \in Seq(Part) /\ NoUp(Split(s))
         /\ Canonical(cwd, s) = Abs(cwd, s) /\ (~Rooted(s) => cwd # NoPath)
<1>1. /\ s # <<>> /\ ~(\E i \in DOMAIN Split(s) : Split(s)[i] = DotDot)
      /\ Canonical(cwd, s) = Abs(cwd, s)
  BY DEF Canonical
<1>2. Split(s) \in Seq(Part)
  BY SplitAppend DEF Segments
<1>3. ~Rooted(s) => cwd # NoPath
  BY <1>1 DEF Abs
<1> QED BY <1>1, <1>2, <1>3, LenProperties DEF NoUp

\* It keeps those that lead elsewhere.
LEMMA TakenSplit ==
  ASSUME NEW s \in Seq(Nat), NEW cwd \in Cwds, Canonical(cwd, s) # NoPath,
         NEW segs, segs = (IF Rooted(s) THEN <<>> ELSE Real(Split(cwd))) \o Real(Split(s))
  PROVE  Split(Canonical(cwd, s)) = One \o (IF segs = <<>> THEN One ELSE segs)
<1> DEFINE x == IF Rooted(s) THEN s ELSE cwd \o <<47>> \o s
           a == Split(s)
           b == Split(cwd)
<1>1. cwd \in Seq(Nat) /\ (cwd # NoPath => Canonical(cwd, cwd) # NoPath)
  BY CwdIs
<1>2. /\ a \in Seq(Part) /\ NoUp(a) /\ Canonical(cwd, s) = Abs(cwd, s) /\ b \in Seq(Part)
      /\ ~Rooted(s) => cwd # NoPath /\ NoUp(b)
  <2>1. /\ a \in Seq(Part) /\ NoUp(a) /\ Canonical(cwd, s) = Abs(cwd, s)
        /\ ~Rooted(s) => cwd # NoPath
    BY TakenIs
  <2>2. b \in Seq(Part)
    BY <1>1, SplitAppend DEF Segments
  <2>3. cwd # NoPath => NoUp(b)
    BY <1>1, TakenIs
  <2> QED BY <2>1, <2>2, <2>3
<1>3. Real(a) \in Seq(Part) /\ Real(b) \in Seq(Part)
  <2>1. \A ss \in Seq(Part) : Real(ss) \in Seq(Part)
    BY ONLY RealType, MappedType DEF Real
  <2> HIDE DEF a, b
  <2> QED BY ONLY <1>2, <2>1
<1>4. Abs(cwd, s) = PathOf(CleanOf(Split(x)))
  BY <1>2 DEF Abs, Clean, CleanOf
<1>5. /\ Split(x) \in Seq(Part) /\ NoUp(Split(x)) /\ Real(Split(x)) = segs
      /\ segs \in Seq(Part)
  <2>1. CASE Rooted(s)
    <3>1. <<>> \o Real(a) = Real(a)
      BY ONLY <1>3, ConcatEmptySeq
    <3> QED BY <1>2, <1>3, <2>1, <3>1
  <2>2. CASE ~Rooted(s)
    <3>1. Split((cwd \o <<47>>) \o s) = b \o a
      BY ONLY <1>1, SplitConcat, s \in Seq(Nat)
    <3>2. Split(x) = b \o a
      BY <2>2, <3>1
    <3> HIDE DEF a, b, x
    <3>3. b \o a \in Seq(Part) /\ NoUp(b \o a) /\ Real(b \o a) = Real(b) \o Real(a)
      BY ONLY <1>2, <2>2, NoUpConcat, RealConcat, ConcatProperties
    <3>4. segs = Real(b) \o Real(a)
      BY <2>2 DEF a, b
    <3>5. Real(b) \o Real(a) \in Seq(Part)
      BY ONLY <1>3, ConcatProperties
    <3> QED BY ONLY <3>2, <3>3, <3>4, <3>5
  <2> QED BY <2>1, <2>2
<1> HIDE DEF x, a, b
<1>6. CleanOf(Split(x)) = segs
  <2>1. CleanOf(Split(x)) = Real(Split(x))
    BY <1>5, CleanReal DEF NoUp
  <2> QED BY <1>5, <2>1
<1>7. Split(PathOf(segs)) = One \o (IF segs = <<>> THEN One ELSE segs)
  BY ONLY <1>5, PathOfSplit
<1> QED BY ONLY <1>2, <1>4, <1>6, <1>7

\* paths.go:91-93: what canonicalSocketPath returns for a path has every segment
\* of it, and of the working directory's, but "." and empty ones, in order.
THEOREM CanonicalKeepsSegments == Spec => []CanonicalKeeps
<1>1. ASSUME TextOK, kind = "path", NEW cwd \in Cwds, Canonical(cwd, text) # NoPath
      PROVE  LET real(s) == FlattenSeq([i \in DOMAIN Split(s) |->
                              IF Split(s)[i] \in {<<>>, Dot} THEN <<>> ELSE <<Split(s)[i]>>])
                 segs == (IF Rooted(text) THEN <<>> ELSE real(cwd)) \o real(text)
             IN  Split(Canonical(cwd, text)) = <<<<>>>> \o (IF segs = <<>> THEN <<<<>>>> ELSE segs)
  <2> DEFINE real(s) == FlattenSeq([i \in DOMAIN Split(s) |->
                          IF Split(s)[i] \in {<<>>, Dot} THEN <<>> ELSE <<Split(s)[i]>>])
             segs == (IF Rooted(text) THEN <<>> ELSE Real(Split(cwd))) \o Real(Split(text))
  <2>1. text \in Seq(Nat) /\ cwd \in Seq(Nat)
    BY <1>1, TextCharacters, CwdIs
  <2>2. \A s \in Seq(Nat) : real(s) = Real(Split(s))
    <3> TAKE s \in Seq(Nat)
    <3>1. Split(s) \in Seq(Part)
      BY SplitAppend DEF Segments
    <3> QED BY ONLY <3>1, RealIs
  <2> HIDE DEF real
  <2>3. (IF Rooted(text) THEN <<>> ELSE real(cwd)) \o real(text) = segs
    BY <2>1, <2>2
  <2> HIDE DEF segs
  <2>4. Split(Canonical(cwd, text)) = One \o (IF segs = <<>> THEN One ELSE segs)
    <3>1. segs = (IF Rooted(text) THEN <<>> ELSE Real(Split(cwd))) \o Real(Split(text))
      BY DEF segs
    <3> QED BY ONLY <1>1, <2>1, <3>1, TakenSplit
  <2> QED BY ONLY <2>3, <2>4 DEF One, real
<1>2. TextOK => CanonicalKeeps
  BY <1>1 DEF CanonicalKeeps
<1> QED BY <1>2, TextType, PTL

\* /tmp/cc-socks-<uid> has a segment, none of them empty, "." or "..".
LEMMA FallbackPath ==
  \E ss \in Seq(Name) : ss # <<>> /\ Fallback = PathOf(ss)
<1>1. Fallback \in Seq(Nat) /\ Fallback # <<>> /\ Fallback # <<47>>
      /\ Canonical(NoPath, Fallback) = Fallback
  BY PathsAssumption, BytesNat
<1>2. Fallback = Abs(NoPath, Fallback) /\ NoPath \in Seq(Nat) /\ Fallback # NoPath
  BY <1>1, TakenIs DEF NoPath
<1>3. PICK ss \in Seq(Name) : Abs(NoPath, Fallback) = PathOf(ss)
  BY ONLY <1>1, <1>2, AbsPath
<1>4. ss # <<>>
  BY <1>1, <1>2, <1>3 DEF PathOf
<1> QED BY <1>2, <1>3, <1>4

\* What follows a rooted path leaves it rooted.
LEMMA RootedConcat ==
  ASSUME NEW s \in Seq(Nat), NEW t \in Seq(Nat), Rooted(s)
  PROVE  Rooted(s \o t)
<1> DEFINE u == s \o t
<1>1. u \in Seq(Nat) /\ Joined(s, t, u)
  BY ConcatJoins
<1> HIDE DEF u
<1>2. Len(s) \in Nat /\ Len(t) \in Nat /\ s # <<>> /\ s[1] = 47 /\ 1 \in 1..Len(s)
  BY LenProperties DEF Rooted
<1>3. u[1] = 47 /\ Len(u) = Len(s) + Len(t)
  BY ONLY <1>1, <1>2 DEF Joined
<1>4. u # <<>>
  BY ONLY <1>1, <1>2, <1>3
<1>5. Rooted(u)
  BY ONLY <1>1, <1>3, <1>4 DEF Rooted
<1> QED BY <1>5 DEF u

\* What filepath.Join makes of a rooted path is clean, and stays as it is.
LEMMA JoinedPath ==
  ASSUME NEW x \in Seq(Nat), Rooted(x), NEW cwd
  PROVE  Canonical(cwd, JoinOf(x)) = JoinOf(x)
<1>1. JoinOf(x) = PathOf(Clean(x))
  BY DEF JoinOf
<1>2. PICK ss \in Seq(Name) : PathOf(Clean(x)) = PathOf(ss)
  BY CleanedPath
<1>3. Canonical(cwd, PathOf(ss)) = PathOf(ss)
  BY ONLY <1>2, CleanPath
<1> QED BY ONLY <1>1, <1>2, <1>3

\* A rooted path that stays as it is, is what Join makes of it.
LEMMA JoinedWhole ==
  ASSUME NEW x, Rooted(x), Canonical(NoPath, x) = x
  PROVE  JoinOf(x) = x
<1>1. x # NoPath
  BY DEF Rooted, NoPath
<1>2. Abs(NoPath, x) = x
  BY <1>1 DEF Canonical
<1> QED BY <1>2 DEF Abs, JoinOf

\* A file in /tmp/cc-socks-<uid> has a clean path too.
LEMMA FallbackFile ==
  ASSUME NEW f \in Name
  PROVE  JoinOf(Fallback \o <<47>> \o f) = Fallback \o <<47>> \o f
<1>1. PICK ss \in Seq(Name) : ss # <<>> /\ Fallback = PathOf(ss)
  BY FallbackPath
<1> DEFINE t == Append(ss, f)
<1>2. t \in Seq(Name) /\ t # <<>>
  BY AppendProperties
<1>3. ss \in Seq(Part) /\ t \in Seq(Part) /\ f \in Part /\ f \in Seq(Nat)
  BY <1>2, RealName DEF Name, Part
<1>4. Fallback = Path(ss)
  BY <1>1, <1>3, PathIs
<1>5. PathOf(t) = Path(t)
  BY <1>2, <1>3, PathIs
<1>6. Path(t) = Path(ss) \o (<<47>> \o f)
  BY ONLY <1>3, PathAppend
<1>7. (Fallback \o <<47>>) \o f = Fallback \o (<<47>> \o f)
  <2>1. Fallback \in Seq(Nat) /\ <<47>> \in Seq(Nat)
    BY PathsAssumption, BytesNat
  <2> QED BY ONLY <1>3, <2>1, ConcatAssociative
<1>8. Rooted(PathOf(t)) /\ Canonical(NoPath, PathOf(t)) = PathOf(t)
  BY ONLY <1>2, CleanPath
<1> HIDE DEF t
<1>9. JoinOf(PathOf(t)) = PathOf(t)
  BY ONLY <1>8, JoinedWhole
<1> QED BY ONLY <1>4, <1>5, <1>6, <1>7, <1>9

\* inbox.go:102-105, paths.go:10-13: whatever base the environment names and wherever
\* the program is, the path an Inbox binds is the one its key file would be named for,
\* unless Termux has a relative $PREFIX; and it fits the limit if there is no $PREFIX.
THEOREM DefaultsUsable == Spec => []DefaultUsable
<1>1. ASSUME TextOK, kind = "path", NEW cwd \in Cwds, NEW prefix \in TermuxPrefixes, NEW f \in Files
      PROVE  LET p == DefaultPath(cwd, text, prefix, f) IN
               /\ prefix = <<>> \/ Rooted(prefix) => Canonical(cwd, p) = p
               /\ prefix = <<>> => Len(p) <= MaxPath
  <2> DEFINE s == SocketsDir(text) \o <<47>> \o f
             p == Abs(cwd, s)
             q == Fallback \o <<47>> \o f
             d == prefix \o Fallback
             x == d \o <<47>> \o f
  <2>1. f \in Seq(Nat) /\ f \in Name /\ Len(Fallback) + 1 + Len(f) <= MaxPath
    <3>1. f \in Seq(0..255) \ {<<>>, Dot, DotDot} /\ (\A i \in DOMAIN f : f[i] # 47)
          /\ Len(Fallback) + 1 + Len(f) <= MaxPath
      BY RenderingAssumption
    <3>2. f \in Seq(Nat)
      BY <3>1, BytesNat
    <3>3. \A i \in 1..Len(f) : f[i] # 47
      BY <3>1, <3>2, LenProperties
    <3> QED BY <3>1, <3>2, <3>3 DEF Name, Part
  <2>2. s \in Seq(Nat) /\ cwd \in Seq(Nat)
    <3>1. text \in Seq(Nat) /\ TempDir \in Seq(Nat)
      BY <1>1, TextCharacters, PathsAssumption, BytesNat
    <3>2. SocketsDir(text) \in Seq(Nat)
      <4> DEFINE base == IF text = <<>> THEN TempDir ELSE text
      <4>1. base \in Seq(Nat) /\ <<47, 99>> \in Seq(Nat)
        BY <3>1
      <4> HIDE DEF base
      <4>2. base \o <<47, 99>> \in Seq(Nat)
        BY ONLY <4>1, ConcatProperties
      <4> QED BY <4>2 DEF SocketsDir, base
    <3> DEFINE e == SocketsDir(text)
    <3> HIDE DEF e
    <3>3. (e \o <<47>>) \o f \in Seq(Nat)
      BY ONLY <2>1, <3>2, SplitConcat DEF e
    <3> QED BY <3>3, CwdIs DEF e
  <2>3. p # NoPath => Canonical(cwd, p) = p
    <3> HIDE DEF s
    <3> QED BY <2>2, AbsPath
  <2>4. Fallback \in Seq(Nat) /\ Rooted(Fallback) /\ prefix \in Seq(Nat)
    <3>1. PICK ss \in Seq(Name) : Fallback = PathOf(ss)
      BY FallbackPath
    <3>2. Rooted(PathOf(ss))
      BY ONLY <3>1, CleanPath
    <3>3. prefix \in Seq(Nat) /\ Fallback \in Seq(Nat)
      BY RenderingAssumption, PathsAssumption, BytesNat
    <3> QED BY ONLY <3>1, <3>2, <3>3
  <2>5. d \in Seq(Nat) /\ x \in Seq(Nat)
    <3>1. d \in Seq(Nat)
      BY ONLY <2>4, ConcatProperties
    <3> HIDE DEF d
    <3>2. (d \o <<47>>) \o f \in Seq(Nat)
      BY ONLY <2>1, <3>1, SplitConcat
    <3> QED BY ONLY <3>1, <3>2 DEF x
  <2>6. prefix = <<>> => x = q
    <3>1. prefix = <<>> => d = Fallback
      BY ONLY <2>4, ConcatEmptySeq DEF d
    <3> HIDE DEF d
    <3> QED BY ONLY <3>1 DEF x, q
  <2>7. prefix = <<>> \/ Rooted(prefix) => Rooted(x)
    <3> SUFFICES ASSUME prefix = <<>> \/ Rooted(prefix) PROVE Rooted(x)
      OBVIOUS
    <3>1. Rooted(d)
      <4>1. CASE prefix = <<>>
        BY <2>4, <4>1, ConcatEmptySeq
      <4>2. CASE Rooted(prefix)
        BY ONLY <2>4, <4>2, RootedConcat DEF d
      <4> QED BY <4>1, <4>2
    <3> HIDE DEF d
    <3>2. Rooted(d \o <<47>>) /\ d \o <<47>> \in Seq(Nat)
      <4>1. <<47>> \in Seq(Nat)
        OBVIOUS
      <4> QED BY ONLY <2>5, <3>1, <4>1, RootedConcat, ConcatProperties
    <3>3. Rooted((d \o <<47>>) \o f)
      BY ONLY <2>1, <3>2, RootedConcat
    <3> QED BY ONLY <3>3 DEF x
  <2>8. prefix = <<>> \/ Rooted(prefix) => Canonical(cwd, JoinOf(x)) = JoinOf(x)
    <3> HIDE DEF x
    <3> QED BY ONLY <2>5, <2>7, JoinedPath
  <2>9. prefix = <<>> => Len(JoinOf(x)) <= MaxPath
    <3>1. <<47>> \in Seq(Nat) /\ Len(<<47>>) = 1
      OBVIOUS
    <3>2. Fallback \o <<47>> \in Seq(Nat) /\ Len(Fallback \o <<47>>) = Len(Fallback) + 1
      BY ONLY <2>4, <3>1, ConcatProperties
    <3>3. Len(q) = Len(Fallback) + 1 + Len(f)
      BY ONLY <2>1, <3>2, ConcatProperties DEF q
    <3>4. JoinOf(q) = q
      BY <2>1, FallbackFile
    <3> HIDE DEF q, x
    <3> QED BY ONLY <2>1, <2>6, <3>3, <3>4
  <2>10. DefaultPath(cwd, text, prefix, f) = IF p # NoPath /\ Len(p) <= MaxPath THEN p ELSE JoinOf(x)
    BY DEF DefaultPath
  <2> HIDE DEF p, q, x
  <2> QED BY ONLY <2>3, <2>8, <2>9, <2>10
<1>2. TextOK => DefaultUsable
  BY <1>1 DEF DefaultUsable
<1> QED BY <1>2, TextType, PTL
=============================================================================
