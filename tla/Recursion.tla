----------------------------- MODULE Recursion -----------------------------
(***************************************************************************)
(* Induction and recursion for the proofs about strings: on the natural    *)
(* numbers, as properties of sets; on sequences, that grow at their end;   *)
(* and that functions defined by recursion exist, with what follows for    *)
(* the pieces that FlattenSeq puts together and the steps that FoldLeft    *)
(* takes.                                                                  *)
(***************************************************************************)
EXTENDS SequencesExt, FiniteSetTheorems, SequenceTheorems, TLAPS

\* A set of natural numbers has a least element.
LEMMA LeastElement ==
  ASSUME NEW T, T \subseteq Nat, T # {}
  PROVE  \E x \in T : \A y \in T : x <= y
<1> DEFINE below(n) == 0..n
           TT == {below(n) : n \in T}
           R == StrictSubsetOrdering(Nat)
<1>1. TT \subseteq FiniteSubsetsOf(Nat) /\ TT # {}
  <2>1. ASSUME NEW n \in T PROVE 0..n \in SUBSET Nat /\ IsFiniteSet(0..n)
    BY FS_Interval
  <2> QED BY <2>1 DEF FiniteSubsetsOf
<1>2. PICK b \in TT : \A c \in TT : <<c, b>> \notin R
  BY <1>1, FS_StrictSubsetOrderingWellFounded, WFMin
<1>3. PICK x \in T : b = below(x)
  OBVIOUS
<1>4. ASSUME NEW y \in T, y < x PROVE FALSE
  <2>1. below(y) \subseteq below(x) /\ x \in below(x) /\ x \notin below(y)
    BY <1>4
  <2>2. <<below(y), below(x)>> \in R
    BY <2>1 DEF StrictSubsetOrdering
  <2> QED BY <1>2, <1>3, <2>2
<1> QED BY <1>4

\* A set that has 0, and with every number the next, has them all.
LEMMA SetInduction ==
  ASSUME NEW S, 0 \in S, \A n \in Nat : n \in S => n + 1 \in S
  PROVE  Nat \subseteq S
<1> SUFFICES ASSUME Nat \ S # {} PROVE FALSE
  OBVIOUS
<1>1. PICK x \in Nat \ S : \A y \in Nat \ S : x <= y
  BY LeastElement
<1>2. x # 0 /\ x - 1 \in Nat /\ x - 1 \in S
  BY <1>1
<1> QED BY <1>2

\* A bounded set of natural numbers has a greatest element.
LEMMA GreatestElement ==
  ASSUME NEW n \in Nat, NEW T, T \subseteq 0..n, T # {}
  PROVE  \E x \in T : \A y \in T : y <= x
<1> DEFINE U == {n - x : x \in T}
<1>1. U \subseteq Nat /\ U # {}
  <2>1. \A x \in T : n - x \in Nat
    OBVIOUS
  <2> QED BY <2>1
<1>2. PICK u \in U : \A v \in U : u <= v
  BY <1>1, LeastElement
<1>3. PICK x \in T : u = n - x
  OBVIOUS
<1>4. ASSUME NEW y \in T PROVE y <= x
  <2>1. n - x <= n - y
    BY <1>2, <1>3
  <2> QED BY <2>1
<1> QED BY <1>4

\* A set that has every i in 1..n + 1 if it has those after it has them all.
LEMMA DownInduction ==
  ASSUME NEW n \in Nat, NEW S,
         \A i \in 1..n + 1 : (\A j \in i + 1..n + 1 : j \in S) => i \in S
  PROVE  1..n + 1 \subseteq S
<1> DEFINE T == (1..n + 1) \ S
<1> SUFFICES ASSUME T # {} PROVE FALSE
  OBVIOUS
<1>1. T \subseteq 0..n + 1 /\ n + 1 \in Nat
  OBVIOUS
<1>2. PICK x \in T : \A y \in T : y <= x
  BY <1>1, GreatestElement
<1>3. \A j \in x + 1..n + 1 : j \in S
  <2>1. \A j \in x + 1..n + 1 : j \in 1..n + 1 /\ ~(j <= x)
    OBVIOUS
  <2> QED BY <1>2, <2>1
<1> QED BY <1>3

\* What Max and Min choose of such a set.
LEMMA MaxMin ==
  ASSUME NEW n \in Nat, NEW T, T \subseteq 0..n, T # {}
  PROVE  /\ Max(T) \in T /\ \A y \in T : y <= Max(T)
         /\ Min(T) \in T /\ \A y \in T : Min(T) <= y
<1>1. \E x \in T : \A y \in T : x >= y
  BY GreatestElement
<1>2. \E x \in T : \A y \in T : x =< y
  <2>1. T \subseteq Nat
    OBVIOUS
  <2> QED BY <2>1, LeastElement
<1>3. Max(T) \in T /\ \A y \in T : Max(T) >= y
  BY <1>1 DEF Max
<1>4. Min(T) \in T /\ \A y \in T : Min(T) =< y
  BY <1>2 DEF Min
<1> QED BY <1>3, <1>4

\* A set that has the empty sequence, and with every sequence those one element
\* longer, has them all.
LEMMA SeqInduction ==
  ASSUME NEW T, NEW S, <<>> \in S, \A s \in Seq(T) : \A e \in T : s \in S => Append(s, e) \in S
  PROVE  Seq(T) \subseteq S
<1> DEFINE N == {n \in Nat : \A s \in Seq(T) : Len(s) = n => s \in S}
<1>1. 0 \in N
  <2>1. \A s \in Seq(T) : Len(s) = 0 => s = <<>>
    OBVIOUS
  <2> QED BY <2>1
<1>2. ASSUME NEW n \in Nat, n \in N PROVE n + 1 \in N
  <2> SUFFICES ASSUME NEW s \in Seq(T), Len(s) = n + 1 PROVE s \in S
    OBVIOUS
  <2>1. s # <<>>
    OBVIOUS
  <2>2. PICK t \in Seq(T), e \in T : s = Append(t, e)
    BY <2>1, SequenceEmptyOrAppend
  <2>3. Len(t) = n
    BY <2>2
  <2> QED BY <1>2, <2>2, <2>3
<1> HIDE DEF N
<1>3. Nat \subseteq N
  BY <1>1, <1>2, SetInduction
<1>4. ASSUME NEW s \in Seq(T) PROVE s \in S
  <2>1. Len(s) \in N
    BY <1>3
  <2> QED BY <2>1 DEF N
<1> QED BY <1>4

-----------------------------------------------------------------------------
\* F takes a function to the one a recursive definition makes of it: its value at
\* i depends only on those where m is less.
Descends(F, S, V, m) ==
  /\ \E n \in Nat : m \in [S -> 0..n]
  /\ F \in [[S -> V] -> [S -> V]]
  /\ \A i \in S : \A g, h \in [S -> V] :
       (\A j \in S : m[j] < m[i] => g[j] = h[j]) => F[g][i] = F[h][i]

\* There is a function that satisfies such a definition.
LEMMA FixedPoint ==
  ASSUME NEW S, NEW V, V # {}, NEW m, NEW F, Descends(F, S, V, m)
  PROVE  \E g \in [S -> V] : g = F[g]
<1> PICK n \in Nat : m \in [S -> 0..n]
  BY DEF Descends
<1> DEFINE K == {k \in Nat : \E g \in [S -> V] : \A i \in S : m[i] < k => g[i] = F[g][i]}
<1>1. 0 \in K
  <2> PICK v \in V : TRUE
    OBVIOUS
  <2>1. [i \in S |-> v] \in [S -> V] /\ \A i \in S : ~(m[i] < 0)
    OBVIOUS
  <2> QED BY <2>1
<1>2. ASSUME NEW k \in Nat, k \in K PROVE k + 1 \in K
  <2> PICK g \in [S -> V] : \A i \in S : m[i] < k => g[i] = F[g][i]
    BY <1>2
  <2> DEFINE h == F[g]
  <2>1. h \in [S -> V]
    BY DEF Descends
  <2>2. ASSUME NEW i \in S, m[i] < k + 1 PROVE h[i] = F[h][i]
    <3>1. \A j \in S : m[j] < m[i] => g[j] = h[j]
      BY <2>2
    <3>2. F[g][i] = F[h][i]
      BY <2>1, <3>1 DEF Descends
    <3> QED BY <3>2
  <2> HIDE DEF h
  <2> QED BY <2>1, <2>2
<1> HIDE DEF K
<1>3. n + 1 \in K
  BY <1>1, <1>2, SetInduction
<1>4. PICK g \in [S -> V] : \A i \in S : g[i] = F[g][i]
  <2>1. \A i \in S : m[i] < n + 1
    OBVIOUS
  <2> QED BY <1>3, <2>1 DEF K
<1>5. F[g] \in [S -> V]
  BY DEF Descends
<1> QED BY <1>4, <1>5

-----------------------------------------------------------------------------
\* Where the elements of s and t are in u, put together of them.
Joined(s, t, u) ==
  /\ Len(s) \in Nat /\ Len(t) \in Nat /\ Len(u) = Len(s) + Len(t)
  /\ \A k \in 1..Len(s) : u[k] = s[k]
  /\ \A j \in 1..Len(t) : u[Len(s) + j] = t[j]
  /\ \A k \in 1..Len(u) : k \in 1..Len(s) \/ \E j \in 1..Len(t) : k = Len(s) + j

\* What \o does to two sequences.
LEMMA ConcatJoins ==
  ASSUME NEW T, NEW s \in Seq(T), NEW t \in Seq(T)
  PROVE  s \o t \in Seq(T) /\ Joined(s, t, s \o t)
<1>1. Len(s) \in Nat /\ Len(t) \in Nat /\ s \o t \in Seq(T) /\ Len(s \o t) = Len(s) + Len(t)
  OBVIOUS
<1>2. ASSUME NEW j \in 1..Len(t) PROVE (s \o t)[Len(s) + j] = t[j]
  <2>1. Len(s) + j \in 1..Len(s) + Len(t) /\ ~(Len(s) + j <= Len(s)) /\ (Len(s) + j) - Len(s) = j
    BY <1>1
  <2> QED BY <2>1, ConcatProperties
<1>3. ASSUME NEW k \in 1..Len(s \o t), k \notin 1..Len(s)
      PROVE  \E j \in 1..Len(t) : k = Len(s) + j
  <2>1. k - Len(s) \in 1..Len(t) /\ k = Len(s) + (k - Len(s))
    BY <1>1, <1>3
  <2> QED BY <2>1
<1>4. ASSUME NEW k \in 1..Len(s) PROVE (s \o t)[k] = s[k]
  BY <1>1
<1> QED BY <1>1, <1>2, <1>3, <1>4 DEF Joined

\* The function by which FlattenSeq puts together a sequence of pieces.
LEMMA FlattenStep ==
  ASSUME NEW T, NEW ss \in Seq(Seq(T)), ss # <<>>
  PROVE  \E f \in [1..Len(ss) -> Seq(T)] :
           /\ FlattenSeq(ss) = f[Len(ss)] /\ f[1] = ss[1]
           /\ \A i \in 1..Len(ss) - 1 : f[i + 1] = f[i] \o ss[i + 1]
<1> DEFINE S == 1..Len(ss)
           V == Seq(T)
           m == [i \in S |-> i]
           Def(f) == [i \in S |-> IF i = 1 THEN ss[i] ELSE f[i - 1] \o ss[i]]
           F == [f \in [S -> V] |-> Def(f)]
           flatten == CHOOSE f : f = Def(f)
<1>1. /\ Len(ss) \in Nat /\ Len(ss) > 0 /\ \A i \in S : ss[i] \in Seq(T)
  BY EmptySeq
<1>2. ASSUME NEW i \in S, i # 1 PROVE i - 1 \in S /\ m[i - 1] < m[i]
  BY <1>1, <1>2
<1>3. Descends(F, S, V, m)
  <2>1. ASSUME NEW g \in [S -> V] PROVE Def(g) \in [S -> V]
    <3>1. ASSUME NEW i \in S
          PROVE  (IF i = 1 THEN ss[i] ELSE g[i - 1] \o ss[i]) \in V
      <4>1. CASE i # 1
        <5>1. g[i - 1] \in V /\ ss[i] \in V
          BY <1>1, <1>2, <4>1
        <5> QED BY <4>1, <5>1
      <4> QED BY <1>1, <4>1
    <3> QED BY <3>1
  <2>2. ASSUME NEW i \in S, NEW g \in [S -> V], NEW h \in [S -> V],
               \A j \in S : m[j] < m[i] => g[j] = h[j]
        PROVE  Def(g)[i] = Def(h)[i]
    BY <1>2, <2>2
  <2>3. m \in [S -> 0..Len(ss)]
    BY <1>1
  <2> HIDE DEF Def, S, V, m
  <2>4. F \in [[S -> V] -> [S -> V]] /\ \A g \in [S -> V] : F[g] = Def(g)
    BY ONLY <2>1
  <2>5. \A i \in S : \A g, h \in [S -> V] :
          (\A j \in S : m[j] < m[i] => g[j] = h[j]) => F[g][i] = F[h][i]
    <3> HIDE DEF F
    <3>1. ASSUME NEW i \in S, NEW g \in [S -> V], NEW h \in [S -> V],
                 \A j \in S : m[j] < m[i] => g[j] = h[j]
          PROVE  F[g][i] = F[h][i]
      <4>1. Def(g)[i] = Def(h)[i]
        BY ONLY <2>2, <3>1
      <4>2. F[g] = Def(g) /\ F[h] = Def(h)
        BY ONLY <2>4, g \in [S -> V], h \in [S -> V]
      <4> QED BY ONLY <4>1, <4>2
    <3> QED BY ONLY <3>1
  <2>6. \E n \in Nat : m \in [S -> 0..n]
    BY ONLY <1>1, <2>3
  <2> HIDE DEF F
  <2> QED BY ONLY <2>4, <2>5, <2>6 DEF Descends
<1>4. \E g \in [S -> V] : g = F[g]
  <2>1. V # {}
    BY <1>1
  <2> HIDE DEF F, V, m, S
  <2> QED BY ONLY <1>3, <2>1, FixedPoint
<1>5. flatten = Def(flatten)
  <2>1. \E g : g = Def(g)
    BY <1>4
  <2> HIDE DEF Def
  <2> QED BY <2>1
<1>6. FlattenSeq(ss) = flatten[Len(ss)]
  BY <1>1 DEF FlattenSeq
<1> HIDE DEF flatten
<1>7. \A i \in S : flatten[i] = IF i = 1 THEN ss[i] ELSE flatten[i - 1] \o ss[i]
  BY <1>5
<1>8. \A i \in 1..Len(ss) - 1 : flatten[i + 1] = flatten[i] \o ss[i + 1]
  <2>1. \A i \in 1..Len(ss) - 1 : i + 1 \in S /\ i + 1 # 1 /\ (i + 1) - 1 = i
    BY <1>1
  <2> QED BY <1>7, <2>1
<1>9. flatten \in [S -> Seq(T)]
  <2> DEFINE N == {n \in Nat : n + 1 \in S => flatten[n + 1] \in Seq(T)}
  <2>1. 0 \in N
    BY <1>1, <1>7
  <2>2. ASSUME NEW n \in Nat, n \in N PROVE n + 1 \in N
    <3> SUFFICES ASSUME (n + 1) + 1 \in S PROVE flatten[(n + 1) + 1] \in Seq(T)
      OBVIOUS
    <3>1. n + 1 \in 1..Len(ss) - 1
      BY <1>1
    <3>2. flatten[n + 1] \in Seq(T) /\ ss[(n + 1) + 1] \in Seq(T)
      BY <1>1, <2>2, <3>1
    <3>3. flatten[(n + 1) + 1] = flatten[n + 1] \o ss[(n + 1) + 1]
      BY <1>8, <3>1
    <3> QED BY <3>2, <3>3
  <2> HIDE DEF N
  <2>3. Nat \subseteq N
    BY <2>1, <2>2, SetInduction
  <2>4. ASSUME NEW i \in S PROVE flatten[i] \in Seq(T)
    <3>1. i - 1 \in Nat /\ (i - 1) + 1 = i
      BY <1>1
    <3> QED BY <2>3, <3>1 DEF N
  <2>5. flatten = [i \in S |-> flatten[i]]
    BY <1>5
  <2> QED BY <2>4, <2>5
<1>10. flatten[1] = ss[1]
  BY <1>1, <1>7
<1> QED BY <1>6, <1>8, <1>9, <1>10

\* s is made of the pieces ss, of which the i-th begins after off[i].
Pieces(ss, s, off) ==
  /\ off \in [1..Len(ss) + 1 -> Nat] /\ off[1] = 0 /\ off[Len(ss) + 1] = Len(s)
  /\ \A i \in 1..Len(ss) :
       /\ off[i + 1] = off[i] + Len(ss[i]) /\ off[i + 1] <= Len(s)
       /\ \A j \in 1..Len(ss[i]) : s[off[i] + j] = ss[i][j]
  /\ \A k \in 1..Len(s) : \E i \in 1..Len(ss) : \E j \in 1..Len(ss[i]) : k = off[i] + j

\* So is what FlattenSeq returns.
LEMMA FlattenPieces ==
  ASSUME NEW T, NEW ss \in Seq(Seq(T))
  PROVE  FlattenSeq(ss) \in Seq(T) /\ \E off : Pieces(ss, FlattenSeq(ss), off)
<1>1. CASE ss = <<>>
  <2>1. FlattenSeq(ss) = <<>> /\ Len(ss) = 0
    BY <1>1 DEF FlattenSeq
  <2>2. Pieces(ss, <<>>, [i \in 1..1 |-> 0])
    BY <2>1 DEF Pieces
  <2> QED BY <2>1, <2>2
<1>2. CASE ss # <<>>
  <2> DEFINE L == Len(ss)
  <2>1. L \in Nat /\ L > 0 /\ \A i \in 1..L : ss[i] \in Seq(T) /\ Len(ss[i]) \in Nat
    BY <1>2, EmptySeq
  <2> PICK f \in [1..L -> Seq(T)] :
             /\ FlattenSeq(ss) = f[L] /\ f[1] = ss[1]
             /\ \A i \in 1..L - 1 : f[i + 1] = f[i] \o ss[i + 1]
    BY <1>2, FlattenStep
  <2> DEFINE off == [i \in 1..L + 1 |-> IF i = 1 THEN 0 ELSE Len(f[i - 1])]
  <2> HIDE DEF L
  <2>2. \A i \in 1..L : off[i + 1] = Len(f[i]) /\ f[i] \in Seq(T) /\ Len(f[i]) \in Nat
    BY <2>1
  <2>3. off \in [1..L + 1 -> Nat] /\ off[1] = 0
    <3>1. \A i \in 1..L + 1 : i # 1 => i - 1 \in 1..L
      BY <2>1
    <3> QED BY <2>1, <3>1
  <2> HIDE DEF off
  <2>4. \A i \in 1..L : off[i + 1] = off[i] + Len(ss[i])
                        /\ \A j \in 1..Len(ss[i]) : f[i][off[i] + j] = ss[i][j]
    <3> TAKE i \in 1..L
    <3>1. CASE i = 1
      BY <2>1, <2>2, <2>3, <3>1
    <3>2. CASE i # 1
      <4>1. i - 1 \in 1..L /\ i - 1 \in 1..L - 1 /\ (i - 1) + 1 = i
        BY <2>1, <3>2
      <4>2. f[i] = f[i - 1] \o ss[i] /\ off[i] = Len(f[i - 1])
        BY <2>2, <4>1
      <4>3. f[i - 1] \in Seq(T) /\ ss[i] \in Seq(T)
        BY <2>1, <2>2, <4>1
      <4>4. Joined(f[i - 1], ss[i], f[i])
        BY <4>2, <4>3, ConcatJoins
      <4> QED BY ONLY <2>2, <4>2, <4>4 DEF Joined
    <3> QED BY <3>1, <3>2
  <2>5. ASSUME NEW n \in 1..L
        PROVE  /\ \A i \in 1..n : Len(f[i]) <= Len(f[n])
                                  /\ \A k \in 1..Len(f[i]) : f[n][k] = f[i][k]
               /\ \A k \in 1..Len(f[n]) :
                    \E i \in 1..n : \E j \in 1..Len(ss[i]) : k = off[i] + j
    <3> DEFINE Good(l) ==
                 /\ \A i \in 1..l : Len(f[i]) <= Len(f[l])
                                    /\ \A k \in 1..Len(f[i]) : f[l][k] = f[i][k]
                 /\ \A k \in 1..Len(f[l]) :
                      \E i \in 1..l : \E j \in 1..Len(ss[i]) : k = off[i] + j
               N == {l \in Nat : l + 1 \in 1..L => Good(l + 1)}
    <3>1. 0 \in N
      <4>1. 1 \in 1..L /\ f[1] = ss[1] /\ 1..1 = {1}
        BY <2>1
      <4> QED BY <2>2, <2>3, <4>1
    <3>2. ASSUME NEW l \in Nat, l \in N PROVE l + 1 \in N
      <4> SUFFICES ASSUME (l + 1) + 1 \in 1..L PROVE Good((l + 1) + 1)
        OBVIOUS
      <4> DEFINE p == l + 1
      <4>1. /\ p \in 1..L /\ p \in 1..L - 1 /\ p + 1 \in 1..L /\ Good(p)
            /\ p \in Nat /\ 1..p + 1 = 1..p \cup {p + 1}
        <5>1. l + 1 \in 1..L
          BY <2>1
        <5>2. Good(l + 1)
          BY <3>2, <5>1
        <5>3. 1..p + 1 = 1..p \cup {p + 1} /\ p \in Nat /\ p \in 1..L - 1
          BY <2>1
        <5> QED BY <5>1, <5>2, <5>3
      <4> HIDE DEF p
      <4>2. f[p + 1] = f[p] \o ss[p + 1] /\ off[p + 1] = Len(f[p])
        BY <2>2, <4>1
      <4>3. Joined(f[p], ss[p + 1], f[p + 1]) /\ Len(f[p + 1]) \in Nat
        <5>1. f[p] \in Seq(T) /\ ss[p + 1] \in Seq(T)
          BY <2>1, <2>2, <4>1
        <5>2. Joined(f[p], ss[p + 1], f[p + 1])
          BY <4>2, <5>1, ConcatJoins
        <5> QED BY <2>2, <4>1, <5>2
      <4>4. ASSUME NEW i \in 1..p + 1
            PROVE  Len(f[i]) <= Len(f[p + 1])
                   /\ \A k \in 1..Len(f[i]) : f[p + 1][k] = f[i][k]
        <5>1. CASE i = p + 1
          <6>1. Len(f[p + 1]) \in Nat
            BY ONLY <4>3
          <6> QED BY ONLY <5>1, <6>1
        <5>2. CASE i \in 1..p
          <6>1. i \in 1..L
            BY <2>1, <4>1, <5>2
          <6>2. /\ Len(f[i]) \in Nat /\ Len(f[i]) <= Len(f[p])
                /\ \A k \in 1..Len(f[i]) : f[p][k] = f[i][k]
            BY <2>2, <4>1, <5>2, <6>1
          <6>3. /\ Len(f[p]) \in Nat /\ Len(f[p]) <= Len(f[p + 1])
                /\ \A k \in 1..Len(f[p]) : f[p + 1][k] = f[p][k]
            <7>1. /\ Len(f[p]) \in Nat /\ Len(ss[p + 1]) \in Nat
                  /\ Len(f[p + 1]) = Len(f[p]) + Len(ss[p + 1])
              BY ONLY <4>3 DEF Joined
            <7>2. \A k \in 1..Len(f[p]) : f[p + 1][k] = f[p][k]
              BY ONLY <4>3 DEF Joined
            <7>3. Len(f[p]) <= Len(f[p + 1])
              <8> DEFINE a == Len(f[p])  b == Len(ss[p + 1])  c == Len(f[p + 1])
              <8>1. a \in Nat /\ b \in Nat /\ c = a + b
                BY ONLY <7>1
              <8> HIDE DEF a, b, c
              <8>2. a <= c
                BY ONLY <8>1
              <8> QED BY ONLY <8>2 DEF a, c
            <7> QED BY ONLY <7>1, <7>2, <7>3
          <6>4. \A k \in 1..Len(f[i]) : k \in 1..Len(f[p])
            BY ONLY <6>2, <6>3
          <6>5. \A k \in 1..Len(f[i]) : f[p + 1][k] = f[i][k]
            BY ONLY <6>2, <6>3, <6>4
          <6>6. Len(f[i]) <= Len(f[p + 1])
            BY ONLY <4>3, <6>2, <6>3
          <6> QED BY ONLY <6>5, <6>6
        <5> QED BY ONLY <4>1, <5>1, <5>2
      <4>5. ASSUME NEW k \in 1..Len(f[p + 1])
            PROVE  \E i \in 1..p + 1 : \E j \in 1..Len(ss[i]) : k = off[i] + j
        <5>1. CASE k \in 1..Len(f[p])
          <6>1. PICK i \in 1..p : \E j \in 1..Len(ss[i]) : k = off[i] + j
            BY ONLY <4>1, <5>1
          <6> QED BY ONLY <4>1, <6>1
        <5>2. CASE \E j \in 1..Len(ss[p + 1]) : k = Len(f[p]) + j
          BY ONLY <4>1, <4>2, <5>2
        <5> QED BY <4>3, <5>1, <5>2 DEF Joined
      <4> QED BY <4>4, <4>5 DEF p
    <3> HIDE DEF N
    <3>3. Nat \subseteq N
      BY <3>1, <3>2, SetInduction
    <3>4. PICK l \in Nat : n = l + 1
      <4>1. n - 1 \in Nat /\ n = (n - 1) + 1
        BY <2>1
      <4> QED BY <4>1
    <3>5. l \in N
      BY <3>3
    <3> HIDE DEF Good
    <3>6. Good(l + 1)
      BY <3>4, <3>5 DEF N
    <3>7. Good(n)
      BY <3>4, <3>6
    <3> USE DEF Good
    <3> QED BY <3>7
  <2>6. L \in 1..L /\ 1..L = 1..Len(ss) /\ FlattenSeq(ss) = f[L]
    BY <2>1 DEF L
  <2>7. \A i \in 1..L : off[i + 1] <= Len(f[L])
                        /\ \A j \in 1..Len(ss[i]) : f[L][off[i] + j] = ss[i][j]
    <3> TAKE i \in 1..L
    <3>1. off[i + 1] <= Len(f[L])
      BY <2>2, <2>5, <2>6
    <3>2. \A j \in 1..Len(ss[i]) : off[i] + j \in 1..Len(f[i])
      <4>1. off[i] \in Nat /\ Len(ss[i]) \in Nat /\ Len(f[i]) = off[i] + Len(ss[i])
        BY <2>1, <2>2, <2>3, <2>4
      <4> QED BY <4>1
    <3>3. \A k \in 1..Len(f[i]) : f[L][k] = f[i][k]
      BY <2>5, <2>6
    <3> QED BY <2>4, <3>1, <3>2, <3>3
  <2>8. \A k \in 1..Len(f[L]) : \E i \in 1..L : \E j \in 1..Len(ss[i]) : k = off[i] + j
    BY <2>5, <2>6
  <2>9. off[L + 1] = Len(f[L]) /\ f[L] \in Seq(T)
    BY <2>2, <2>6
  <2>10. Pieces(ss, f[L], off)
    BY <2>3, <2>4, <2>6, <2>7, <2>8, <2>9 DEF Pieces, L
  <2> QED BY <2>6, <2>9, <2>10
<1> QED BY <1>1, <1>2

\* Put together of pieces of one element each, it is the sequence of those.
LEMMA FlattenSingles ==
  ASSUME NEW T, NEW s \in Seq(T), NEW ss, ss = [i \in 1..Len(s) |-> <<s[i]>>]
  PROVE  FlattenSeq(ss) = s
<1>1. Len(s) \in Nat /\ \A i \in 1..Len(s) : s[i] \in T
  BY LenProperties, ElementOfSeq
<1>2. ss \in Seq(Seq(T)) /\ Len(ss) = Len(s)
  <2>1. \A i \in 1..Len(s) : <<s[i]>> \in Seq(T)
    BY <1>1
  <2> QED BY <1>1, <2>1
<1> DEFINE u == FlattenSeq(ss)
<1>3. PICK off : Pieces(ss, u, off)
  BY <1>2, FlattenPieces
<1>4. u \in Seq(T)
  BY <1>2, FlattenPieces
<1>5. \A i \in 1..Len(s) : Len(ss[i]) = 1 /\ ss[i][1] = s[i] /\ 1 \in 1..Len(ss[i])
  <2>1. \A i \in 1..Len(s) : ss[i] = <<s[i]>>
    OBVIOUS
  <2> QED BY <2>1
<1> HIDE DEF u
<1>6. /\ off \in [1..Len(s) + 1 -> Nat] /\ off[1] = 0 /\ off[Len(s) + 1] = Len(u)
      /\ \A i \in 1..Len(s) : off[i + 1] = off[i] + 1 /\ u[off[i] + 1] = s[i]
  BY <1>2, <1>3, <1>5 DEF Pieces
<1> DEFINE N == {n \in Nat : n + 1 \in 1..Len(s) + 1 => off[n + 1] = n}
<1>7. 0 \in N
  BY <1>6
<1>8. ASSUME NEW n \in Nat, n \in N PROVE n + 1 \in N
  <2> SUFFICES ASSUME (n + 1) + 1 \in 1..Len(s) + 1 PROVE off[(n + 1) + 1] = n + 1
    OBVIOUS
  <2>1. n + 1 \in 1..Len(s) /\ n + 1 \in 1..Len(s) + 1
    BY <1>1
  <2> QED BY <1>6, <1>8, <2>1
<1>9. \A n \in Nat : n \in N
  <2> HIDE DEF N
  <2> QED BY <1>7, <1>8, SetInduction
<1>10. Len(u) = Len(s)
  <2>1. Len(s) \in N /\ Len(s) + 1 \in 1..Len(s) + 1
    BY <1>1, <1>9
  <2> QED BY <1>6, <2>1
<1>11. ASSUME NEW i \in 1..Len(s) PROVE u[i] = s[i]
  <2>1. i - 1 \in N /\ (i - 1) + 1 = i /\ i \in 1..Len(s) + 1
    BY <1>1, <1>9
  <2>2. off[i] + 1 = i
    BY <1>1, <2>1
  <2> QED BY <1>6, <2>2
<1> QED BY <1>4, <1>10, <1>11, SeqEqual DEF u

\* One more piece goes to the end.
LEMMA FlattenAppend ==
  ASSUME NEW T, NEW ss \in Seq(Seq(T)), NEW p \in Seq(T)
  PROVE  FlattenSeq(Append(ss, p)) = FlattenSeq(ss) \o p
<1> DEFINE tt == Append(ss, p)
           L == Len(ss)
<1>1. /\ L \in Nat /\ tt \in Seq(Seq(T)) /\ tt # <<>> /\ Len(tt) = L + 1 /\ tt[L + 1] = p
      /\ \A i \in 1..L : tt[i] = ss[i] /\ ss[i] \in Seq(T)
  BY AppendProperties, LenProperties, ElementOfSeq
<1> HIDE DEF tt
<1>2. PICK h \in [1..Len(tt) -> Seq(T)] :
        /\ FlattenSeq(tt) = h[Len(tt)] /\ h[1] = tt[1]
        /\ \A i \in 1..Len(tt) - 1 : h[i + 1] = h[i] \o tt[i + 1]
  BY <1>1, FlattenStep
<1>3. CASE ss = <<>>
  <2>1. L = 0
    BY <1>3
  <2>2. FlattenSeq(tt) = p
    <3> HIDE DEF L
    <3> QED BY ONLY <1>1, <1>2, <2>1
  <2>3. FlattenSeq(ss) = <<>>
    BY <1>3 DEF FlattenSeq
  <2>4. <<>> \o p = p
    OBVIOUS
  <2> QED BY <2>2, <2>3, <2>4 DEF tt
<1>4. CASE ss # <<>>
  <2>1. L \in 1..L
    BY <1>1, <1>4, EmptySeq
  <2>2. PICK f \in [1..L -> Seq(T)] :
          /\ FlattenSeq(ss) = f[L] /\ f[1] = ss[1]
          /\ \A i \in 1..L - 1 : f[i + 1] = f[i] \o ss[i + 1]
    BY <1>4, FlattenStep
  <2> HIDE DEF L
  <2> DEFINE N == {n \in Nat : n + 1 \in 1..L => h[n + 1] = f[n + 1]}
  <2>3. 0 \in N
    <3>1. 1 \in 1..L /\ 0 + 1 = 1
      BY ONLY <1>1, <2>1
    <3>2. h[1] = f[1]
      BY ONLY <1>1, <1>2, <2>2, <3>1
    <3> QED BY <3>1, <3>2
  <2>4. ASSUME NEW n \in Nat, n \in N PROVE n + 1 \in N
    <3> SUFFICES ASSUME (n + 1) + 1 \in 1..L PROVE h[(n + 1) + 1] = f[(n + 1) + 1]
      OBVIOUS
    <3>1. n + 1 \in 1..L /\ n + 1 \in 1..L - 1 /\ n + 1 \in 1..Len(tt) - 1
      BY <1>1
    <3>2. h[n + 1] = f[n + 1]
      BY <2>4, <3>1
    <3>3. h[(n + 1) + 1] = h[n + 1] \o tt[(n + 1) + 1]
      BY <1>2, <3>1
    <3>4. f[(n + 1) + 1] = f[n + 1] \o ss[(n + 1) + 1]
      BY <2>2, <3>1
    <3>5. tt[(n + 1) + 1] = ss[(n + 1) + 1]
      BY <1>1
    <3> QED BY ONLY <3>2, <3>3, <3>4, <3>5
  <2>5. h[L] = f[L]
    <3> HIDE DEF N
    <3>1. L - 1 \in Nat /\ (L - 1) + 1 = L
      BY <1>1, <2>1
    <3>2. L - 1 \in N
      BY <2>3, <2>4, <3>1, SetInduction
    <3> QED BY <2>1, <3>1, <3>2 DEF N
  <2>6. h[L + 1] = h[L] \o p
    <3>1. L \in 1..Len(tt) - 1
      BY <1>1, <2>1
    <3> QED BY ONLY <1>1, <1>2, <3>1
  <2> QED BY <1>1, <1>2, <2>2, <2>5, <2>6 DEF tt
<1> QED BY <1>3, <1>4

\* Put together of the pieces that f makes of the elements of ss.
Mapped(f, ss) == FlattenSeq([i \in DOMAIN ss |-> f[ss[i]]])

\* f takes an element of T to a piece.
Mapping(f, T, U) == f \in [T -> Seq(U)]

\* The pieces, one for each element.
LEMMA MappedPieces ==
  ASSUME NEW T, NEW U, NEW f, Mapping(f, T, U), NEW ss \in Seq(T),
         NEW a, a = [i \in DOMAIN ss |-> f[ss[i]]]
  PROVE  /\ a \in Seq(Seq(U)) /\ Len(a) = Len(ss)
         /\ \A i \in 1..Len(ss) : a[i] = f[ss[i]]
<1>1. Len(ss) \in Nat /\ DOMAIN ss = 1..Len(ss) /\ \A i \in 1..Len(ss) : ss[i] \in T
  BY LenProperties, ElementOfSeq
<1>2. a = [i \in 1..Len(ss) |-> f[ss[i]]] /\ \A i \in 1..Len(ss) : f[ss[i]] \in Seq(U)
  BY <1>1 DEF Mapping
<1> QED BY <1>1, <1>2

\* There are none of no elements.
LEMMA MappedEmpty ==
  ASSUME NEW T, NEW U, NEW f, Mapping(f, T, U)
  PROVE  Mapped(f, <<>>) = <<>>
<1> DEFINE a == [i \in DOMAIN <<>> |-> f[<<>>[i]]]
<1>1. <<>> \in Seq(T) /\ Len(<<>>) = 0
  OBVIOUS
<1>2. a \in Seq(Seq(U)) /\ Len(a) = 0
  <2> DEFINE s == <<>>
  <2>1. s \in Seq(T) /\ Len(s) = 0 /\ a = [i \in DOMAIN s |-> f[s[i]]]
    BY <1>1
  <2> HIDE DEF s, a
  <2>2. a \in Seq(Seq(U)) /\ Len(a) = Len(s)
    BY ONLY <2>1, Mapping(f, T, U), MappedPieces
  <2> QED BY ONLY <2>1, <2>2
<1>3. a = <<>>
  <2> HIDE DEF a
  <2> QED BY ONLY <1>2, EmptySeq
<1> QED BY <1>3 DEF Mapped, FlattenSeq

\* They make a sequence.
LEMMA MappedType ==
  ASSUME NEW T, NEW U, NEW f, Mapping(f, T, U), NEW ss \in Seq(T)
  PROVE  Mapped(f, ss) \in Seq(U)
<1> DEFINE a == [i \in DOMAIN ss |-> f[ss[i]]]
<1>1. a \in Seq(Seq(U))
  BY ONLY Mapping(f, T, U), MappedPieces, ss \in Seq(T)
<1>2. FlattenSeq(a) \in Seq(U)
  <2> HIDE DEF a
  <2> QED BY ONLY <1>1, FlattenPieces
<1> QED BY <1>2 DEF Mapped

\* One more element gives one more piece.
LEMMA MappedAppend ==
  ASSUME NEW T, NEW U, NEW f, Mapping(f, T, U), NEW ss \in Seq(T), NEW e \in T
  PROVE  Mapped(f, Append(ss, e)) = Mapped(f, ss) \o f[e]
<1> DEFINE tt == Append(ss, e)
           a == [i \in DOMAIN ss |-> f[ss[i]]]
           b == [i \in DOMAIN tt |-> f[tt[i]]]
           p == f[e]
<1>1. /\ tt \in Seq(T) /\ Len(tt) = Len(ss) + 1 /\ tt[Len(ss) + 1] = e
      /\ Len(ss) \in Nat /\ \A i \in 1..Len(ss) : tt[i] = ss[i]
  BY AppendProperties, LenProperties
<1>2. p \in Seq(U)
  BY DEF Mapping
<1> HIDE DEF tt, p
<1>3. /\ a \in Seq(Seq(U)) /\ Len(a) = Len(ss)
      /\ \A i \in 1..Len(ss) : a[i] = f[ss[i]]
  BY ONLY Mapping(f, T, U), MappedPieces, ss \in Seq(T)
<1>4. /\ b \in Seq(Seq(U)) /\ Len(b) = Len(tt)
      /\ \A i \in 1..Len(tt) : b[i] = f[tt[i]]
  <2>1. b = [i \in DOMAIN tt |-> f[tt[i]]] /\ tt \in Seq(T)
    BY <1>1
  <2> HIDE DEF b
  <2> QED BY ONLY <2>1, Mapping(f, T, U), MappedPieces
<1> HIDE DEF a, b
<1> DEFINE c == Append(a, p)
<1>5. c \in Seq(Seq(U)) /\ Len(c) = Len(a) + 1 /\ c[Len(a) + 1] = p
      /\ \A i \in 1..Len(a) : c[i] = a[i]
  <2> DEFINE W == Seq(U)
  <2>1. a \in Seq(W) /\ p \in W
    BY <1>2, <1>3
  <2> HIDE DEF W, c
  <2>2. c = Append(a, p)
    BY DEF c
  <2>3. c \in Seq(W) /\ Len(c) = Len(a) + 1 /\ c[Len(a) + 1] = p
    BY ONLY <2>1, <2>2, AppendProperties
  <2>4. \A i \in 1..Len(a) : c[i] = a[i]
    BY ONLY <2>1, <2>2, AppendProperties
  <2> QED BY ONLY <2>3, <2>4 DEF W
<1> HIDE DEF c
<1>6. \A i \in 1..Len(b) : b[i] = c[i]
  <2> TAKE i \in 1..Len(b)
  <2>1. CASE i \in 1..Len(ss)
    <3>1. i \in 1..Len(tt)
      BY <1>4
    <3>2. b[i] = f[ss[i]]
      BY ONLY <1>1, <1>4, <2>1, <3>1
    <3>3. c[i] = f[ss[i]]
      BY ONLY <1>3, <1>5, <2>1
    <3> QED BY ONLY <3>2, <3>3
  <2>2. CASE i = Len(ss) + 1
    <3>1. b[i] = p
      BY ONLY <1>1, <1>4, <2>2, i \in 1..Len(b) DEF p
    <3>2. c[i] = p
      BY ONLY <1>3, <1>5, <2>2
    <3> QED BY ONLY <3>1, <3>2
  <2>3. i \in 1..Len(ss) \/ i = Len(ss) + 1
    BY ONLY <1>1, <1>4, i \in 1..Len(b)
  <2> QED BY <2>1, <2>2, <2>3
<1>7. b = c
  <2>1. Len(b) = Len(c)
    BY ONLY <1>1, <1>3, <1>4, <1>5
  <2> QED BY ONLY <1>4, <1>5, <1>6, <2>1, SeqEqual
<1>8. FlattenSeq(Append(a, p)) = FlattenSeq(a) \o p
  BY ONLY <1>2, <1>3, FlattenAppend
<1> QED BY <1>7, <1>8 DEF Mapped, a, b, c, p, tt

\* One more element of the second of two sequences is one of both.
LEMMA ConcatAppend ==
  ASSUME NEW T, NEW a \in Seq(T), NEW s \in Seq(T), NEW e \in T
  PROVE  /\ a \o s \in Seq(T) /\ Append(s, e) \in Seq(T)
         /\ a \o Append(s, e) = Append(a \o s, e)
<1>1. a \o s \in Seq(T) /\ Append(s, e) \in Seq(T)
  BY AppendProperties, ConcatProperties
<1>2. <<e>> \in Seq(T) /\ Append(s, e) = s \o <<e>>
  BY AppendIsConcat
<1>3. Append(a \o s, e) = (a \o s) \o <<e>>
  BY <1>1, AppendIsConcat
<1>4. (a \o s) \o <<e>> = a \o (s \o <<e>>)
  BY <1>2, ConcatAssociative
<1> QED BY ONLY <1>1, <1>2, <1>3, <1>4

\* Three sequences are put together in either order.
LEMMA ConcatMoves ==
  ASSUME NEW T
  PROVE  \A q, r, t \in Seq(T) : (q \o r) \o t = q \o (r \o t)
<1> TAKE q, r, t \in Seq(T)
<1> QED BY ConcatAssociative

\* The pieces of more elements come after.
LEMMA MappedConcat ==
  ASSUME NEW T, NEW U, NEW f, Mapping(f, T, U), NEW a \in Seq(T), NEW b \in Seq(T)
  PROVE  Mapped(f, a \o b) = Mapped(f, a) \o Mapped(f, b)
<1> DEFINE S == {s \in Seq(T) : Mapped(f, a \o s) = Mapped(f, a) \o Mapped(f, s)}
<1>1. <<>> \in S
  <2>1. <<>> \in Seq(T) /\ a \o <<>> = a
    BY ConcatEmptySeq
  <2>2. Mapped(f, a) \in Seq(U) /\ Mapped(f, <<>>) = <<>>
    BY ONLY Mapping(f, T, U), MappedType, MappedEmpty, a \in Seq(T)
  <2>3. Mapped(f, a) \o <<>> = Mapped(f, a)
    BY ONLY <2>2, ConcatEmptySeq
  <2> QED BY <2>1, <2>2, <2>3
<1>2. ASSUME NEW s \in Seq(T), NEW e \in T, s \in S PROVE Append(s, e) \in S
  <2> DEFINE u == a \o s
             p == f[e]
  <2>1. u \in Seq(T) /\ Append(s, e) \in Seq(T) /\ a \o Append(s, e) = Append(u, e)
    BY ONLY ConcatAppend, a \in Seq(T), s \in Seq(T), e \in T
  <2>2. Mapped(f, u) = Mapped(f, a) \o Mapped(f, s)
    BY <1>2
  <2>3. p \in Seq(U)
    BY DEF Mapping
  <2> HIDE DEF u, S
  <2>4. Mapped(f, Append(u, e)) = Mapped(f, u) \o f[e]
    BY ONLY <2>1, Mapping(f, T, U), MappedAppend, e \in T
  <2>5. Mapped(f, Append(s, e)) = Mapped(f, s) \o f[e]
    BY ONLY Mapping(f, T, U), MappedAppend, s \in Seq(T), e \in T
  <2> HIDE DEF p
  <2> DEFINE x == Mapped(f, a)
             y == Mapped(f, s)
  <2>6. x \in Seq(U) /\ y \in Seq(U)
    BY ONLY Mapping(f, T, U), MappedType, a \in Seq(T), s \in Seq(T)
  <2>7. (x \o y) \o p = x \o (y \o p)
    <3> DEFINE V == Seq(U)
    <3>1. x \in V /\ y \in V /\ p \in V
      BY <2>3, <2>6
    <3>2. \A q, r, t \in V : (q \o r) \o t = q \o (r \o t)
      BY ConcatMoves
    <3> HIDE DEF x, y, V
    <3> QED BY ONLY <3>1, <3>2
  <2>8. Mapped(f, a \o Append(s, e)) = Mapped(f, a) \o Mapped(f, Append(s, e))
    BY ONLY <2>1, <2>2, <2>4, <2>5, <2>7 DEF p
  <2> QED BY <2>1, <2>8 DEF S
<1>3. b \in S
  <2> HIDE DEF S
  <2> QED BY <1>1, <1>2, SeqInduction
<1> QED BY <1>3

-----------------------------------------------------------------------------
\* op takes a value in V and an element of T to a value in V.
Folding(op, V, T) == \A v \in V : \A e \in T : op[<<v, e>>] \in V

\* it folds op over the elements of s at every set x of places, as FoldLeft does.
Folded(it, op, base, s, V) ==
  /\ it \in [SUBSET (DOMAIN s) -> V]
  /\ \A x \in SUBSET (DOMAIN s) :
       it[x] = IF x = {} THEN base ELSE op[<<it[x \ {Max(x)}], s[Max(x)]>>]

\* There is a function that does.
LEMMA FoldFixed ==
  ASSUME NEW V, NEW T, NEW base \in V, NEW s \in Seq(T), NEW op, Folding(op, V, T)
  PROVE  \E it : Folded(it, op, base, s, V)
<1> DEFINE D == DOMAIN s
           S == SUBSET D
           m == [x \in S |-> Cardinality(x)]
           Def(it) == [x \in S |->
                         IF x = {} THEN base ELSE op[<<it[x \ {Max(x)}], s[Max(x)]>>]]
           F == [it \in [S -> V] |-> Def(it)]
<1>1. Len(s) \in Nat /\ D = 1..Len(s) /\ \A i \in D : s[i] \in T
  BY LenProperties, ElementOfSeq
<1>2. IsFiniteSet(D) /\ Cardinality(D) \in Nat
  <2>1. 1 \in Int /\ Len(s) \in Int
    BY <1>1
  <2>2. IsFiniteSet(1..Len(s))
    BY ONLY <2>1, FS_Interval
  <2> QED BY <1>1, <2>2, FS_CardinalityType
<1>3. ASSUME NEW x \in S
      PROVE  /\ m[x] \in 0..Cardinality(D)
             /\ x # {} => Max(x) \in D /\ x \ {Max(x)} \in S /\ m[x \ {Max(x)}] < m[x]
  <2>1. IsFiniteSet(x) /\ Cardinality(x) \in Nat /\ Cardinality(x) <= Cardinality(D)
    BY <1>2, FS_Subset, FS_CardinalityType
  <2>2. ASSUME x # {} PROVE Max(x) \in x
    <3>1. x \subseteq 0..Len(s)
      BY <1>1
    <3> QED BY ONLY <1>1, <2>2, <3>1, MaxMin
  <2>3. ASSUME x # {} PROVE Cardinality(x \ {Max(x)}) < Cardinality(x)
    <3>1. Cardinality(x \ {Max(x)}) = Cardinality(x) - 1
      BY ONLY <2>1, <2>2, <2>3, FS_RemoveElement
    <3> QED BY ONLY <2>1, <3>1
  <2>4. ASSUME x # {} PROVE x \ {Max(x)} \in S
    OBVIOUS
  <2> QED BY <1>2, <2>1, <2>2, <2>3, <2>4
<1>4. ASSUME NEW it \in [S -> V], NEW x \in S
      PROVE  x # {} => op[<<it[x \ {Max(x)}], s[Max(x)]>>] \in V
  BY <1>1, <1>3 DEF Folding
<1>5. Descends(F, S, V, m)
  <2>1. ASSUME NEW it \in [S -> V] PROVE Def(it) \in [S -> V]
    BY <1>4
  <2>2. ASSUME NEW x \in S, NEW g \in [S -> V], NEW h \in [S -> V],
               \A y \in S : m[y] < m[x] => g[y] = h[y]
        PROVE  Def(g)[x] = Def(h)[x]
    <3>1. x # {} => g[x \ {Max(x)}] = h[x \ {Max(x)}]
      BY <1>3, <2>2
    <3> QED BY <3>1
  <2>3. m \in [S -> 0..Cardinality(D)]
    BY <1>3
  <2> HIDE DEF Def
  <2> QED BY <1>2, <2>1, <2>2, <2>3 DEF Descends
<1>6. \E it \in [S -> V] : it = F[it]
  <2>1. V # {}
    OBVIOUS
  <2> HIDE DEF F, m, S
  <2> QED BY ONLY <1>5, <2>1, FixedPoint
<1> QED BY <1>6 DEF Folded

\* What is left of an interval without its greatest number.
LEMMA IntervalTop ==
  ASSUME NEW n \in Nat, n # 0
  PROVE  1..n # {} /\ Max(1..n) = n /\ (1..n) \ {Max(1..n)} = 1..n - 1
<1>1. n \in 1..n /\ 1..n \subseteq 0..n /\ 1..n # {}
  OBVIOUS
<1>2. Max(1..n) \in 1..n /\ n <= Max(1..n)
  BY ONLY <1>1, MaxMin, n \in Nat
<1>3. Max(1..n) = n
  BY <1>2
<1> QED BY <1>1, <1>3

\* So does g, for the first n elements at a time.
Chain(g, op, base, s, V) ==
  /\ g \in [0..Len(s) -> V] /\ g[0] = base
  /\ \A n \in 1..Len(s) : g[n] = op[<<g[n - 1], s[n]>>]

\* iter folds op as long as it stays in V.
FoldsWithin(iter, op, base, s, V) ==
  /\ iter[{}] = base
  /\ \A x \in SUBSET (DOMAIN s) :
       x # {} /\ iter[x \ {Max(x)}] \in V => iter[x] = op[<<iter[x \ {Max(x)}], s[Max(x)]>>]

\* There is such a g for every function that does.
LEMMA FoldChain ==
  ASSUME NEW V, NEW T, NEW base \in V, NEW s \in Seq(T), NEW op, Folding(op, V, T),
         NEW iter, FoldsWithin(iter, op, base, s, V)
  PROVE  \E g : Chain(g, op, base, s, V) /\ iter[DOMAIN s] = g[Len(s)]
<1> DEFINE D == DOMAIN s
           g == [n \in 0..Len(s) |-> iter[1..n]]
           N == {n \in Nat : n \in 0..Len(s) => iter[1..n] \in V}
<1>1. Len(s) \in Nat /\ D = 1..Len(s) /\ \A i \in D : s[i] \in T
  BY LenProperties, ElementOfSeq
<1>2. 1..0 = {}
  OBVIOUS
<1>3. ASSUME NEW n \in 1..Len(s), iter[1..n - 1] \in V
      PROVE  iter[1..n] = op[<<iter[1..n - 1], s[n]>>]
  <2>1. n \in Nat /\ n # 0 /\ 1..n \in SUBSET D
    BY <1>1
  <2>2. 1..n # {} /\ Max(1..n) = n /\ (1..n) \ {Max(1..n)} = 1..n - 1
    BY <2>1, IntervalTop
  <2>3. iter[(1..n) \ {Max(1..n)}] \in V
    BY <1>3, <2>2
  <2>4. iter[1..n] = op[<<iter[(1..n) \ {Max(1..n)}], s[Max(1..n)]>>]
    BY <2>1, <2>2, <2>3 DEF FoldsWithin
  <2> QED BY ONLY <2>2, <2>4
<1>4. 0 \in N
  BY <1>2 DEF FoldsWithin
<1>5. ASSUME NEW n \in Nat, n \in N PROVE n + 1 \in N
  <2> SUFFICES ASSUME n + 1 \in 0..Len(s) PROVE iter[1..n + 1] \in V
    OBVIOUS
  <2>1. n + 1 \in 1..Len(s) /\ n \in 0..Len(s) /\ (n + 1) - 1 = n /\ s[n + 1] \in T
    BY <1>1
  <2>2. iter[1..n] \in V
    BY <1>5, <2>1
  <2>3. iter[1..n + 1] = op[<<iter[1..n], s[n + 1]>>]
    BY <1>3, <2>1, <2>2
  <2> QED BY <2>1, <2>2, <2>3 DEF Folding
<1>6. \A n \in 0..Len(s) : iter[1..n] \in V
  <2>1. \A n \in Nat : n \in N
    <3> HIDE DEF N
    <3> QED BY <1>4, <1>5, SetInduction
  <2> QED BY <1>1, <2>1
<1>7. \A n \in 1..Len(s) : g[n] = op[<<g[n - 1], s[n]>>]
  <2> TAKE n \in 1..Len(s)
  <2>1. n \in 0..Len(s) /\ n - 1 \in 0..Len(s)
    BY <1>1
  <2>2. iter[1..n] = op[<<iter[1..n - 1], s[n]>>]
    BY <1>3, <1>6, <2>1
  <2> QED BY <2>1, <2>2
<1>8. g[0] = base /\ g[Len(s)] = iter[D]
  BY <1>1, <1>2 DEF FoldsWithin
<1>9. g \in [0..Len(s) -> V]
  BY <1>6
<1> HIDE DEF g
<1> QED BY <1>7, <1>8, <1>9 DEF Chain

\* With one more element, op is taken once more.
LEMMA ChainAppend ==
  ASSUME NEW V, NEW T, NEW base, NEW s \in Seq(T), NEW e \in T, NEW op, NEW g, NEW h,
         Chain(g, op, base, s, V), Chain(h, op, base, Append(s, e), V)
  PROVE  h[Len(Append(s, e))] = op[<<g[Len(s)], e>>]
<1> DEFINE t == Append(s, e)
           L == Len(s)
           N == {n \in Nat : n \in 0..L => h[n] = g[n]}
<1>1. L \in Nat /\ Len(t) = L + 1 /\ t[L + 1] = e /\ \A i \in 1..L : t[i] = s[i]
  BY AppendProperties, LenProperties
<1> HIDE DEF t, L
<1>2. g[0] = base /\ \A n \in 1..L : g[n] = op[<<g[n - 1], s[n]>>]
  BY DEF Chain, L
<1>3. h[0] = base /\ \A n \in 1..Len(t) : h[n] = op[<<h[n - 1], t[n]>>]
  BY DEF Chain, t
<1>4. 0 \in N
  BY ONLY <1>2, <1>3
<1>5. ASSUME NEW n \in Nat, n \in N PROVE n + 1 \in N
  <2> SUFFICES ASSUME n + 1 \in 0..L PROVE h[n + 1] = g[n + 1]
    OBVIOUS
  <2>1. n \in 0..L /\ n + 1 \in 1..L /\ n + 1 \in 1..Len(t) /\ (n + 1) - 1 = n
    BY ONLY <1>1, n \in Nat, n + 1 \in 0..L
  <2>2. h[n] = g[n]
    BY ONLY <1>5, <2>1
  <2> QED BY ONLY <1>1, <1>2, <1>3, <2>1, <2>2
<1>6. h[L] = g[L]
  <2>1. \A n \in Nat : n \in N
    <3> HIDE DEF N
    <3> QED BY <1>4, <1>5, SetInduction
  <2> QED BY <1>1, <2>1
<1>7. h[L + 1] = op[<<h[L], e>>]
  <2>1. L + 1 \in 1..Len(t) /\ (L + 1) - 1 = L
    BY ONLY <1>1
  <2> QED BY ONLY <1>1, <1>3, <2>1
<1> QED BY <1>1, <1>6, <1>7 DEF t, L
=============================================================================
