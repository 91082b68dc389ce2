-------------------------- MODULE WireCodecProofs --------------------------
(***************************************************************************)
(* decode_public and decode_signature for every buffer and every size of   *)
(* the format: no read leaves the buffer, what is accepted is bit for bit  *)
(* the encoding of what was decoded, and no encoding is refused.  The      *)
(* decoder's own invariants are taken from GolombRiceProofs, once for each *)
(* of its three calls; what is added here is that the slice it gets lies   *)
(* inside the buffer, and where each part of an encoding ends.             *)
(***************************************************************************)
EXTENDS WireEncoding, SequenceTheorems, ArithTheorems

P00 == INSTANCE GolombRiceProofs WITH K <- N \div 2, LOW <- LOW_00, HIGH <- HIGH_00, Buffers <- Slices
P01 == INSTANCE GolombRiceProofs WITH K <- N, LOW <- LOW_01, HIGH <- HIGH_01, Buffers <- Slices
PS1 == INSTANCE GolombRiceProofs WITH K <- N, LOW <- LOW_S1, HIGH <- HIGH_S1, Buffers <- Slices

(***************************************************************************)
(* Sequences joined and flattened, and bits that show a sequence.          *)
(***************************************************************************)

\* What stands where in a concatenation.
LEMMA Joined ==
  ASSUME NEW S, NEW s \in Seq(S), NEW t \in Seq(S)
  PROVE  /\ s \o t \in Seq(S) /\ Len(s \o t) = Len(s) + Len(t)
         /\ Len(s) \in Nat /\ Len(t) \in Nat
         /\ \A n \in 1..Len(s) : (s \o t)[n] = s[n]
         /\ \A n \in 1..Len(t) : (s \o t)[Len(s) + n] = t[n]
<1>1. /\ s \o t \in Seq(S) /\ Len(s \o t) = Len(s) + Len(t)
      /\ \A n \in 1..(Len(s) + Len(t)) : (s \o t)[n] = IF n <= Len(s) THEN s[n] ELSE t[n - Len(s)]
  BY ConcatProperties
<1>2. Len(s) \in Nat /\ Len(t) \in Nat
  OBVIOUS
<1>3. ASSUME NEW n \in 1..Len(s) PROVE (s \o t)[n] = s[n]
  <2>1. n \in 1..(Len(s) + Len(t)) /\ n <= Len(s)
    BY <1>2
  <2>. QED
    BY <1>1, <2>1
<1>4. ASSUME NEW n \in 1..Len(t) PROVE (s \o t)[Len(s) + n] = t[n]
  <2>1. Len(s) + n \in 1..(Len(s) + Len(t)) /\ ~(Len(s) + n <= Len(s)) /\ Len(s) + n - Len(s) = n
    BY <1>2
  <2>. QED
    BY <1>1, <2>1
<1>. QED
  BY <1>1, <1>2, <1>3, <1>4

\* c is the first n of the sequences ss, of lengths f, one behind the other.
Pieces(c, ss, f, n, S) ==
  /\ c \in Seq(S) /\ Len(c) = SumTo(f, n)
  /\ \A m \in 0..(n - 1) : \A t \in 1..f[m] : c[SumTo(f, m) + t] = ss[m + 1][t]

\* FlattenSeq puts its sequences one behind the other.
LEMMA Flattened ==
  ASSUME NEW S, NEW k \in Nat, NEW ss \in [1..k -> Seq(S)],
         NEW f, f = [n \in 0..(k - 1) |-> Len(ss[n + 1])]
  PROVE  Pieces(FlattenSeq(ss), ss, f, k, S)
<1>0. \A n \in 0..(k - 1) : ss[n + 1] \in Seq(S) /\ f[n] = Len(ss[n + 1]) /\ f[n] \in Nat
  OBVIOUS
<1>1. /\ SumTo(f, 0) = 0
      /\ \A n \in 0..(k - 1) : SumTo(f, n + 1) = SumTo(f, n) + f[n]
  <2>1. \A n \in 0..(k - 1) : f[n] \in Int
    BY <1>0
  <2>. QED
    BY <2>1, SumFacts
<1>2. Len(ss) = k
  OBVIOUS
<1>3. CASE k = 0
  <2>1. ss = << >>
    BY <1>3
  <2>. QED
    BY <1>1, <1>2, <1>3, <2>1 DEF FlattenSeq, Pieces
<1>4. CASE k # 0
  <2> DEFINE P(g) == g = [n \in 1..k |-> IF n = 1 THEN ss[n] ELSE g[n - 1] \o ss[n]]
             g == CHOOSE h : P(h)
             D == [c \in Seq(S) \X Nat |-> IF c[2] + 2 <= k THEN c[1] \o ss[c[2] + 2] ELSE c[1]]
  <2>1. \E h : P(h)
    <3>1. ss[1] \in Seq(S) /\ D \in [Seq(S) \X Nat -> Seq(S)] /\ k - 1 \in Nat
      BY <1>4
    <3> HIDE DEF D
    <3>2. PICK s \in [0..(k - 1) -> Seq(S)] : Follows(s, ss[1], D, k - 1)
      BY <3>1, Recursion
    <3> DEFINE h == [n \in 1..k |-> s[n - 1]]
    <3>3. ASSUME NEW n \in 1..k PROVE h[n] = IF n = 1 THEN ss[n] ELSE h[n - 1] \o ss[n]
      <4>1. CASE n = 1
        BY <3>2, <4>1 DEF Follows
      <4>2. CASE n # 1
        <5>1. n - 1 \in 1..(k - 1) /\ (n - 1) - 1 \in Nat /\ (n - 1) - 1 + 2 = n /\ (n - 1) - 1 + 2 <= k
              /\ n - 1 \in 1..k /\ (n - 1) - 1 \in 0..(k - 1)
          BY <4>2
        <5>2. s[n - 1] = D[<<s[(n - 1) - 1], (n - 1) - 1>>]
          BY <3>2, <5>1 DEF Follows
        <5>3. s[(n - 1) - 1] \in Seq(S)
          BY <3>2, <5>1
        <5>4. D[<<s[(n - 1) - 1], (n - 1) - 1>>] = s[(n - 1) - 1] \o ss[n]
          BY <5>1, <5>3 DEF D
        <5>. QED
          BY <4>2, <5>1, <5>2, <5>4
      <4>. QED
        BY <4>1, <4>2
    <3>4. P(h)
      <4>1. h = [n \in 1..k |-> h[n]]
        OBVIOUS
      <4>2. [n \in 1..k |-> h[n]] = [n \in 1..k |-> IF n = 1 THEN ss[n] ELSE h[n - 1] \o ss[n]]
        <5> HIDE DEF h
        <5>. QED
          BY <3>3
      <4> HIDE DEF h
      <4>. QED
        BY <4>1, <4>2
    <3>. QED
      BY <3>4
  <2>2. P(g)
    BY <2>1
  <2>3. FlattenSeq(ss) = g[k]
    BY <1>2, <1>4 DEF FlattenSeq
  <2> HIDE DEF g, D
  <2>4. /\ g[1] = ss[1]
        /\ \A n \in 1..(k - 1) : g[n + 1] = g[n] \o ss[n + 1]
    <3>1. \A n \in 1..k : g[n] = IF n = 1 THEN ss[n] ELSE g[n - 1] \o ss[n]
      BY <2>2
    <3>2. ASSUME NEW n \in 1..(k - 1) PROVE g[n + 1] = g[n] \o ss[n + 1]
      <4>1. n + 1 \in 1..k /\ n + 1 # 1 /\ (n + 1) - 1 = n
        OBVIOUS
      <4>. QED
        BY <3>1, <4>1
    <3>. QED
      <4>1. 1 \in 1..k
        BY <1>4
      <4>2. g[1] = ss[1]
        BY <3>1, <4>1
      <4>. QED
        BY <3>2, <4>2
  <2> DEFINE T == {n \in Nat : n < k => Pieces(g[n + 1], ss, f, n + 1, S)}
  <2>5. \A m \in 0..k : SumTo(f, m) \in Nat /\ \A n \in 0..k : m <= n => SumTo(f, m) <= SumTo(f, n)
    <3>. SUFFICES ASSUME NEW m \in 0..k
                  PROVE  SumTo(f, m) \in Nat /\ \A n \in 0..k : m <= n => SumTo(f, m) <= SumTo(f, n)
      OBVIOUS
    <3>1. \A n \in 0..(k - 1) : f[n] \in Nat
      BY <1>0
    <3>2. \A n \in 0..k : SumTo(f, m) \in Nat /\ (m <= n => SumTo(f, m) <= SumTo(f, n))
      BY <3>1, SumGrows
    <3>. QED
      BY <3>2
  <2>6. 0 \in T
    <3>1. 0 \in 0..(k - 1)
      BY <1>4
    <3>2. SumTo(f, 0 + 1) = SumTo(f, 0) + f[0] /\ ss[0 + 1] \in Seq(S) /\ f[0] = Len(ss[0 + 1])
      BY <1>0, <1>1, <3>1
    <3>3. f[0] \in Nat /\ SumTo(f, 0) = 0
      BY <1>0, <1>1, <3>1
    <3>4. SumTo(f, 1) = f[0] /\ g[1] = ss[1] /\ ss[1] \in Seq(S) /\ f[0] = Len(ss[1])
      BY <2>4, <3>2, <3>3
    <3>5. \A m \in 0..(1 - 1) : \A t \in 1..f[m] : g[1][SumTo(f, m) + t] = ss[m + 1][t]
      <4>1. \A t \in 1..f[0] : g[1][SumTo(f, 0) + t] = ss[0 + 1][t]
        BY <3>3, <3>4
      <4>2. \A m \in 0..(1 - 1) : m = 0
        OBVIOUS
      <4>. QED
        BY <4>1, <4>2
    <3>6. Pieces(g[1], ss, f, 1, S)
      BY <3>4, <3>5 DEF Pieces
    <3>. QED
      BY <3>6
  <2>7. ASSUME NEW n \in Nat, n \in T PROVE n + 1 \in T
    <3>1. SUFFICES ASSUME n + 1 < k PROVE Pieces(g[n + 1 + 1], ss, f, n + 1 + 1, S)
      OBVIOUS
    <3> DEFINE l == n + 1
    <3>2. Pieces(g[l], ss, f, l, S) /\ l \in 1..(k - 1) /\ l \in 0..(k - 1) /\ l \in Nat /\ l \in 0..k /\ l + 1 \in 0..k
      <4>1. l \in 1..(k - 1) /\ l \in 0..(k - 1) /\ l \in Nat /\ n < k /\ l \in 0..k /\ l + 1 \in 0..k
        BY <3>1
      <4>2. Pieces(g[l], ss, f, l, S)
        BY <2>7, <4>1
      <4>. QED
        BY <4>1, <4>2
    <3> HIDE DEF l
    <3> DEFINE a == g[l]
               b == ss[l + 1]
    <3>3. /\ g[l + 1] = a \o b /\ a \in Seq(S) /\ b \in Seq(S)
          /\ Len(b) = f[l] /\ Len(a) = SumTo(f, l)
          /\ SumTo(f, l + 1) = SumTo(f, l) + f[l]
      <4>1. g[l + 1] = a \o b /\ b \in Seq(S) /\ Len(b) = f[l] /\ SumTo(f, l + 1) = SumTo(f, l) + f[l]
        BY <1>0, <1>1, <2>4, <3>2
      <4>2. a \in Seq(S) /\ Len(a) = SumTo(f, l)
        BY <3>2 DEF Pieces
      <4>. QED
        BY <4>1, <4>2
    <3>4. ASSUME NEW m \in 0..l, NEW t \in 1..f[m]
          PROVE  (a \o b)[SumTo(f, m) + t] = ss[m + 1][t]
      <4>0. m \in 0..(k - 1) /\ m \in 0..k
        BY <3>2
      <4>1. SumTo(f, m) \in Nat /\ f[m] \in Nat
        BY <1>0, <2>5, <4>0
      <4>2. CASE m = l
        <5> HIDE DEF a
        <5>1. (a \o b)[Len(a) + t] = b[t]
          <6> HIDE DEF b
          <6>. QED
            BY <3>3, <4>2, Joined
        <5>. QED
          BY <3>3, <4>2, <5>1
      <4>3. CASE m # l
        <5>1. m \in 0..(l - 1) /\ m + 1 \in 0..k /\ m + 1 <= l
          BY <3>2, <4>3
        <5>2. a[SumTo(f, m) + t] = ss[m + 1][t]
          BY <3>2, <5>1 DEF Pieces
        <5>3. SumTo(f, m + 1) = SumTo(f, m) + f[m]
          BY <1>1, <4>0
        <5>4. SumTo(f, m + 1) <= SumTo(f, l) /\ SumTo(f, l) \in Nat
          BY <2>5, <3>2, <5>1
        <5> HIDE DEF a, b
        <5>5. SumTo(f, m) + t \in 1..Len(a)
          BY <3>3, <4>1, <5>3, <5>4
        <5>. QED
          BY <3>3, <5>2, <5>5, Joined
      <4>. QED
        BY <4>2, <4>3
    <3> HIDE DEF a, b
    <3>5. Pieces(g[l + 1], ss, f, l + 1, S)
      <4>1. (l + 1) - 1 = l
        BY <3>2
      <4>2. a \o b \in Seq(S) /\ Len(a \o b) = Len(a) + Len(b)
        BY <3>3, Joined
      <4> DEFINE c == a \o b
      <4>3. g[l + 1] = c /\ c \in Seq(S) /\ Len(c) = SumTo(f, l + 1)
        BY <3>3, <4>2
      <4>4. \A m \in 0..l : \A t \in 1..f[m] : c[SumTo(f, m) + t] = ss[m + 1][t]
        BY <3>4
      <4> HIDE DEF c
      <4>5. \A m \in 0..((l + 1) - 1) : \A t \in 1..f[m] : c[SumTo(f, m) + t] = ss[m + 1][t]
        BY <4>1, <4>4, Zenon
      <4>6. \A m \in 0..((l + 1) - 1) : \A t \in 1..f[m] : g[l + 1][SumTo(f, m) + t] = ss[m + 1][t]
        BY <4>3, <4>5, Zenon
      <4>7. g[l + 1] \in Seq(S) /\ Len(g[l + 1]) = SumTo(f, l + 1)
        BY <4>3
      <4>. QED
        BY <4>6, <4>7, Zenon DEF Pieces
    <3>6. l + 1 = n + 1 + 1
      BY DEF l
    <3>. QED
      BY <3>5, <3>6
  <2>8. k - 1 \in T
    <3> HIDE DEF T
    <3>1. Nat \subseteq T
      BY <2>6, <2>7, SetInduction
    <3>. QED
      BY <1>4, <3>1
  <2>9. Pieces(g[k], ss, f, k, S)
    <3>1. k - 1 < k /\ (k - 1) + 1 = k
      BY <1>4
    <3>. QED
      BY <2>8, <3>1
  <2>. QED
    BY <2>3, <2>9
<1>. QED
  BY <1>3, <1>4

\* Every index below a running sum of naturals lies in one of the summands.
LEMMA Located ==
  ASSUME NEW k \in Nat, NEW f, \A n \in 0..(k - 1) : f[n] \in Nat, NEW v \in 1..SumTo(f, k)
  PROVE  \E n \in 0..(k - 1) : \E t \in 1..f[n] : v = SumTo(f, n) + t
<1> DEFINE In(m) == \A u \in 1..SumTo(f, m) : \E n \in 0..(m - 1) : \E t \in 1..f[n] : u = SumTo(f, n) + t
           T == {m \in Nat : m <= k => In(m)}
<1>1. /\ SumTo(f, 0) = 0
      /\ \A n \in 0..k : SumTo(f, n) \in Int
      /\ \A n \in 0..(k - 1) : SumTo(f, n + 1) = SumTo(f, n) + f[n]
  <2>1. \A n \in 0..(k - 1) : f[n] \in Int
    OBVIOUS
  <2>. QED
    BY <2>1, SumFacts
<1>2. 0 \in T
  BY <1>1
<1>3. ASSUME NEW m \in Nat, m \in T PROVE m + 1 \in T
  <2>. SUFFICES ASSUME m + 1 <= k, NEW u \in 1..SumTo(f, m + 1)
                PROVE  \E n \in 0..m : \E t \in 1..f[n] : u = SumTo(f, n) + t
    <3>1. (m + 1) - 1 = m
      OBVIOUS
    <3>. QED
      BY <3>1
  <2>1. m \in 0..(k - 1) /\ m \in 0..k /\ SumTo(f, m + 1) = SumTo(f, m) + f[m] /\ SumTo(f, m) \in Int /\ f[m] \in Nat
    BY <1>1
  <2>2. In(m)
    BY <1>3, <2>1
  <2>3. CASE u \in 1..SumTo(f, m)
    BY <2>2, <2>3
  <2>4. CASE u \notin 1..SumTo(f, m)
    <3>1. u - SumTo(f, m) \in 1..f[m] /\ u = SumTo(f, m) + (u - SumTo(f, m)) /\ m \in 0..m
      BY <2>1, <2>4
    <3>. QED
      BY <3>1
  <2>. QED
    BY <2>3, <2>4
<1>4. k \in T
  <2> HIDE DEF T
  <2>. QED
    BY <1>2, <1>3, SetInduction
<1>. QED
  BY <1>4

\* The bits b show the sequence s from bit first on.
Shows(b, first, s) == \A t \in 1..Len(s) : b[first + (t - 1)] = s[t]

\* Two sequences joined are shown one behind the other,
LEMMA ShowsJoined ==
  ASSUME NEW S, NEW s \in Seq(S), NEW u \in Seq(S), NEW b, NEW first \in Int
  PROVE  Shows(b, first, s \o u) <=> Shows(b, first, s) /\ Shows(b, first + Len(s), u)
<1> DEFINE c == s \o u
<1>1. /\ Len(c) = Len(s) + Len(u) /\ Len(s) \in Nat /\ Len(u) \in Nat
      /\ \A n \in 1..Len(s) : c[n] = s[n]
      /\ \A n \in 1..Len(u) : c[Len(s) + n] = u[n]
  BY Joined
<1> HIDE DEF c
<1>2. ASSUME Shows(b, first, c) PROVE Shows(b, first, s) /\ Shows(b, first + Len(s), u)
  <2>1. ASSUME NEW t \in 1..Len(s) PROVE b[first + (t - 1)] = s[t]
    <3>1. t \in 1..Len(c)
      BY <1>1
    <3>. QED
      BY <1>1, <1>2, <3>1 DEF Shows
  <2>2. ASSUME NEW t \in 1..Len(u) PROVE b[first + Len(s) + (t - 1)] = u[t]
    <3>1. Len(s) + t \in 1..Len(c) /\ first + ((Len(s) + t) - 1) = first + Len(s) + (t - 1)
      BY <1>1
    <3>. QED
      BY <1>1, <1>2, <3>1 DEF Shows
  <2>. QED
    BY <2>1, <2>2 DEF Shows
<1>3. ASSUME Shows(b, first, s), Shows(b, first + Len(s), u) PROVE Shows(b, first, c)
  <2>1. ASSUME NEW t \in 1..Len(c) PROVE b[first + (t - 1)] = c[t]
    <3>1. CASE t <= Len(s)
      <4>1. t \in 1..Len(s)
        BY <1>1, <3>1
      <4>. QED
        BY <1>1, <1>3, <4>1 DEF Shows
    <3>2. CASE t > Len(s)
      <4>1. /\ t - Len(s) \in 1..Len(u) /\ Len(s) + (t - Len(s)) = t
            /\ first + Len(s) + ((t - Len(s)) - 1) = first + (t - 1)
        BY <1>1, <3>2
      <4>2. c[t] = u[t - Len(s)] /\ b[first + Len(s) + ((t - Len(s)) - 1)] = u[t - Len(s)]
        BY <1>1, <1>3, <4>1 DEF Shows
      <4>. QED
        BY <4>1, <4>2
    <3>. QED
      BY <1>1, <3>1, <3>2
  <2>. QED
    BY <2>1 DEF Shows
<1>. QED
  BY <1>2, <1>3 DEF c

\* and so are the pieces of a sequence made of many.
LEMMA ShowsPieces ==
  ASSUME NEW S, NEW k \in Nat, NEW ss, NEW f, NEW c, Pieces(c, ss, f, k, S),
         \A n \in 0..(k - 1) : f[n] = Len(ss[n + 1]) /\ f[n] \in Nat,
         NEW b, NEW first \in Int
  PROVE  Shows(b, first, c) <=> \A n \in 0..(k - 1) : Shows(b, first + SumTo(f, n), ss[n + 1])
<1>1. /\ c \in Seq(S) /\ Len(c) = SumTo(f, k) /\ Len(c) \in Nat
      /\ \A n \in 0..(k - 1) : \A t \in 1..f[n] : c[SumTo(f, n) + t] = ss[n + 1][t]
  BY DEF Pieces
<1>2. \A n \in 0..(k - 1) : f[n] = Len(ss[n + 1]) /\ f[n] \in Nat
  OBVIOUS
<1>3. \A n \in 0..(k - 1) : SumTo(f, n + 1) = SumTo(f, n) + f[n] /\ SumTo(f, n) \in Int
  <2>1. \A n \in 0..(k - 1) : f[n] \in Int
    BY <1>2
  <2>2. /\ \A n \in 0..k : SumTo(f, n) \in Int
        /\ \A n \in 0..(k - 1) : SumTo(f, n + 1) = SumTo(f, n) + f[n]
    BY <2>1, SumFacts
  <2>3. \A n \in 0..(k - 1) : n \in 0..k
    OBVIOUS
  <2>. QED
    BY <2>2, <2>3
<1>4. ASSUME NEW n \in 0..(k - 1)
      PROVE  SumTo(f, n) \in Nat /\ SumTo(f, n + 1) \in Nat /\ SumTo(f, n + 1) <= Len(c)
  <2>1. n \in 0..k /\ n + 1 \in 0..k /\ k \in 0..k /\ n + 1 <= k
    OBVIOUS
  <2>2. \A m \in 0..k : SumTo(f, n) \in Nat /\ SumTo(f, n + 1) \in Nat
                         /\ (n + 1 <= m => SumTo(f, n + 1) <= SumTo(f, m))
    BY <1>2, <2>1, SumGrows
  <2>. QED
    BY <1>1, <2>1, <2>2
<1>5. ASSUME Shows(b, first, c), NEW n \in 0..(k - 1) PROVE Shows(b, first + SumTo(f, n), ss[n + 1])
  <2>1. ASSUME NEW t \in 1..Len(ss[n + 1]) PROVE b[first + SumTo(f, n) + (t - 1)] = ss[n + 1][t]
    <3>0. f[n] = Len(ss[n + 1]) /\ f[n] \in Nat /\ SumTo(f, n + 1) = SumTo(f, n) + f[n]
          /\ SumTo(f, n) \in Nat /\ SumTo(f, n + 1) <= Len(c) /\ Len(c) \in Nat
      BY <1>1, <1>2, <1>3, <1>4
    <3>1. t \in 1..f[n] /\ SumTo(f, n) + t \in 1..Len(c)
          /\ first + ((SumTo(f, n) + t) - 1) = first + SumTo(f, n) + (t - 1)
      BY <3>0
    <3>2. c[SumTo(f, n) + t] = ss[n + 1][t] /\ b[first + ((SumTo(f, n) + t) - 1)] = c[SumTo(f, n) + t]
      BY <1>1, <1>5, <3>1 DEF Shows
    <3>. QED
      BY <3>1, <3>2
  <2>. QED
    BY <2>1 DEF Shows
<1>6. ASSUME \A n \in 0..(k - 1) : Shows(b, first + SumTo(f, n), ss[n + 1]) PROVE Shows(b, first, c)
  <2>1. ASSUME NEW v \in 1..Len(c) PROVE b[first + (v - 1)] = c[v]
    <3>1. PICK n \in 0..(k - 1) : \E t \in 1..f[n] : v = SumTo(f, n) + t
      <4>1. v \in 1..SumTo(f, k) /\ \A m \in 0..(k - 1) : f[m] \in Nat
        BY <1>1, <1>2
      <4>. QED
        BY <4>1, Located
    <3>2. PICK t \in 1..f[n] : v = SumTo(f, n) + t
      BY <3>1
    <3>3. t \in 1..Len(ss[n + 1]) /\ first + SumTo(f, n) + (t - 1) = first + (v - 1)
      <4>1. f[n] = Len(ss[n + 1]) /\ SumTo(f, n) \in Int /\ f[n] \in Nat
        BY <1>2, <1>3
      <4>. QED
        BY <3>2, <4>1
    <3>4. b[first + SumTo(f, n) + (t - 1)] = ss[n + 1][t] /\ c[v] = ss[n + 1][t]
      BY <1>1, <1>6, <3>2, <3>3 DEF Shows
    <3>. QED
      BY <3>3, <3>4
  <2>. QED
    BY <2>1 DEF Shows
<1>. QED
  BY <1>5, <1>6

(***************************************************************************)
(* The code of a tuple, as a sequence and as bits at their places.         *)
(***************************************************************************)

\* The bits of a number are a sequence,
LEMMA LowBitsShown ==
  ASSUME NEW m \in Nat, NEW n \in Nat, NEW b, NEW first \in Int
  PROVE  /\ LowBitsOf(m, n) \in Seq(Int) /\ Len(LowBitsOf(m, n)) = n
         /\ Shows(b, first, LowBitsOf(m, n)) <=> \A t \in 0..(n - 1) : b[first + t] = (m \div Pow2(t)) % 2
<1> DEFINE s == LowBitsOf(m, n)
<1>1. ASSUME NEW t \in 0..(n - 1) PROVE (m \div Pow2(t)) % 2 \in Int
  <2>1. Pow2(t) \in Nat /\ Pow2(t) > 0
    BY Pow2Facts
  <2>2. m \div Pow2(t) \in Int
    BY <2>1, DivMod
  <2> HIDE DEF s
  <2>. QED
    BY <2>2
<1>2. \A t \in 1..n : t - 1 \in 0..(n - 1)
  OBVIOUS
<1>3. s \in Seq(Int) /\ Len(s) = n /\ \A t \in 1..n : s[t] = (m \div Pow2(t - 1)) % 2
  <2> DEFINE e(t) == (m \div Pow2(t - 1)) % 2
  <2>1. \A t \in 1..n : e(t) \in Int
    BY <1>1, <1>2
  <2>2. s = [t \in 1..n |-> e(t)]
    BY DEF LowBitsOf
  <2> HIDE DEF e, s
  <2>3. s \in Seq(Int) /\ Len(s) = n /\ \A t \in 1..n : s[t] = e(t)
    BY <2>1, <2>2
  <2>. QED
    BY <2>3 DEF e
<1> HIDE DEF s
<1>4. ASSUME Shows(b, first, s), NEW t \in 0..(n - 1) PROVE b[first + t] = (m \div Pow2(t)) % 2
  <2>1. t + 1 \in 1..n /\ (t + 1) - 1 = t
    OBVIOUS
  <2>2. b[first + ((t + 1) - 1)] = s[t + 1] /\ s[t + 1] = (m \div Pow2((t + 1) - 1)) % 2
    BY <1>3, <1>4, <2>1 DEF Shows
  <2>. QED
    BY <2>1, <2>2
<1>5. ASSUME \A t \in 0..(n - 1) : b[first + t] = (m \div Pow2(t)) % 2 PROVE Shows(b, first, s)
  BY <1>2, <1>3, <1>5 DEF Shows
<1>. QED
  BY <1>3, <1>4, <1>5 DEF s

\* zeros are,
LEMMA ZerosShown ==
  ASSUME NEW m \in Nat, NEW b, NEW first \in Int
  PROVE  /\ Zeros(m) \in Seq(Int) /\ Len(Zeros(m)) = m
         /\ Shows(b, first, Zeros(m)) <=> \A t \in 0..(m - 1) : b[first + t] = 0
<1>1. Zeros(m) \in Seq(Int) /\ Len(Zeros(m)) = m /\ \A t \in 1..m : Zeros(m)[t] = 0
  BY DEF Zeros
<1>2. ASSUME Shows(b, first, Zeros(m)), NEW t \in 0..(m - 1) PROVE b[first + t] = 0
  <2>1. t + 1 \in 1..m /\ (t + 1) - 1 = t
    OBVIOUS
  <2>2. b[first + ((t + 1) - 1)] = Zeros(m)[t + 1] /\ Zeros(m)[t + 1] = 0
    BY <1>1, <1>2, <2>1 DEF Shows
  <2>. QED
    BY <2>1, <2>2
<1>3. \A t \in 1..m : t - 1 \in 0..(m - 1)
  OBVIOUS
<1>. QED
  BY <1>1, <1>2, <1>3 DEF Shows

\* At bit e there are r zeros and a one.
RunAt(b, e, r) == b[e + r] = 1 /\ \A t \in 0..(r - 1) : b[e + t] = 0

\* and a run of zeros with the one that ends it is.
LEMMA UnaryShown ==
  ASSUME NEW m \in Nat, NEW b, NEW first \in Int
  PROVE  /\ Unary(m) \in Seq(Int) /\ Len(Unary(m)) = m + 1
         /\ Shows(b, first, Unary(m)) <=> RunAt(b, first, m)
<1>1. <<1>> \in Seq(Int) /\ Len(<<1>>) = 1 /\ <<1>>[1] = 1
  OBVIOUS
<1>2. /\ Zeros(m) \in Seq(Int) /\ Len(Zeros(m)) = m
      /\ Shows(b, first, Zeros(m)) <=> \A t \in 0..(m - 1) : b[first + t] = 0
  BY ZerosShown
<1>3. Shows(b, first + m, <<1>>) <=> b[first + m] = 1
  <2> DEFINE o == <<1>>
  <2>1. 1..Len(o) = {1} /\ first + m + (1 - 1) = first + m /\ o[1] = 1
    BY <1>1
  <2> HIDE DEF o
  <2>2. Shows(b, first + m, o) <=> b[first + m + (1 - 1)] = o[1]
    BY <2>1 DEF Shows
  <2>. QED
    BY <2>1, <2>2 DEF o
<1>4. /\ Zeros(m) \o <<1>> \in Seq(Int) /\ Len(Zeros(m) \o <<1>>) = m + 1
  BY <1>1, <1>2, Joined
<1>5. Shows(b, first, Zeros(m) \o <<1>>) <=> Shows(b, first, Zeros(m)) /\ Shows(b, first + m, <<1>>)
  BY <1>1, <1>2, ShowsJoined
<1>. QED
  BY <1>2, <1>3, <1>4, <1>5 DEF Unary, RunAt

\* n times the same.
LEMMA SumConstant ==
  ASSUME NEW k \in Nat, NEW c \in Nat, NEW f, \A n \in 0..(k - 1) : f[n] = c
  PROVE  \A n \in 0..k : SumTo(f, n) = n * c
<1> DEFINE T == {n \in Nat : n <= k => SumTo(f, n) = n * c}
<1>1. SumTo(f, 0) = 0 /\ \A n \in 0..(k - 1) : SumTo(f, n + 1) = SumTo(f, n) + f[n]
  <2>1. \A n \in 0..(k - 1) : f[n] \in Int
    OBVIOUS
  <2>. QED
    BY <2>1, SumFacts
<1>2. 0 \in T
  BY <1>1
<1>3. ASSUME NEW n \in Nat, n \in T PROVE n + 1 \in T
  <2>. SUFFICES ASSUME n + 1 <= k PROVE SumTo(f, n + 1) = (n + 1) * c
    OBVIOUS
  <2>1. n \in 0..(k - 1) /\ SumTo(f, n) = n * c
    BY <1>3
  <2>2. SumTo(f, n + 1) = n * c + c /\ (n + 1) * c = n * c + c
    BY <1>1, <2>1
  <2>. QED
    BY <2>2
<1>. QED
  <2> HIDE DEF T
  <2>1. Nat \subseteq T
    BY <1>2, <1>3, SetInduction
  <2>. QED
    BY <2>1 DEF T

\* The high part and its length.
HighPart(v, low) == Magnitude(v) \div Pow2(low)
Lengths(x, k, low) == [m \in 0..(k - 1) |-> HighPart(x[m], low) + 1]

\* The parts of a code.
SignPart(x, k) == [n \in 1..k |-> SignOf(x[n - 1])]
LowPieces(x, k, low) == [n \in 1..k |-> LowBitsOf(Magnitude(x[n - 1]), low)]
HighPieces(x, k, low) == [n \in 1..k |-> Unary(Magnitude(x[n - 1]) \div Pow2(low))]

\* What bits say of the parts.
SignsAt(b, first, x, k) == \A n \in 0..(k - 1) : b[first + n] = SignOf(x[n])
LowsAt(b, first, x, k, low) ==
  \A n \in 0..(k - 1) : \A t \in 0..(low - 1) :
    b[first + n * low + t] = (Magnitude(x[n]) \div Pow2(t)) % 2
HighsAt(b, first, x, k, low) ==
  \A n \in 0..(k - 1) : RunAt(b, first + SumTo(Lengths(x, k, low), n), HighPart(x[n], low))

\* What the bits b say of x when they show its code from bit first on.
CodeAt(b, first, x, k, low) ==
  /\ SignsAt(b, first, x, k)
  /\ LowsAt(b, first + k, x, k, low)
  /\ HighsAt(b, first + k * (low + 1), x, k, low)

\* The three parts of a code are sequences,
LEMMA CodeParts ==
  ASSUME NEW k \in Nat, NEW low \in Nat, NEW x, \A n \in 0..(k - 1) : x[n] \in Int,
         NEW b, NEW first \in Int
  PROVE  /\ SignPart(x, k) \in Seq(Int) /\ Len(SignPart(x, k)) = k
         /\ Shows(b, first, SignPart(x, k)) <=> SignsAt(b, first, x, k)
         /\ FlattenSeq(LowPieces(x, k, low)) \in Seq(Int)
         /\ Len(FlattenSeq(LowPieces(x, k, low))) = k * low
         /\ Shows(b, first, FlattenSeq(LowPieces(x, k, low))) <=> LowsAt(b, first, x, k, low)
         /\ FlattenSeq(HighPieces(x, k, low)) \in Seq(Int)
         /\ Len(FlattenSeq(HighPieces(x, k, low))) = SumTo(Lengths(x, k, low), k)
         /\ Shows(b, first, FlattenSeq(HighPieces(x, k, low))) <=> HighsAt(b, first, x, k, low)
<1> DEFINE A == [n \in 1..k |-> SignOf(x[n - 1])]
           L == [n \in 1..k |-> LowBitsOf(Magnitude(x[n - 1]), low)]
           H == [n \in 1..k |-> Unary(Magnitude(x[n - 1]) \div Pow2(low))]
           f == Lengths(x, k, low)
<1>0. /\ \A n \in 1..k : n - 1 \in 0..(k - 1)
      /\ \A n \in 0..(k - 1) : n + 1 \in 1..k /\ (n + 1) - 1 = n
  OBVIOUS
<1>1. \A n \in 0..(k - 1) : Magnitude(x[n]) \in Nat /\ SignOf(x[n]) \in 0..1
  BY DEF Magnitude, SignOf
<1>2. Pow2(low) \in Nat /\ Pow2(low) > 0
  BY Pow2Facts
<1>3. \A n \in 0..(k - 1) : HighPart(x[n], low) \in Nat
  <2>. SUFFICES ASSUME NEW n \in 0..(k - 1) PROVE HighPart(x[n], low) \in Nat
    OBVIOUS
  <2> DEFINE m == Magnitude(x[n])
             d == Pow2(low)
  <2>1. m \in Nat /\ d \in Nat /\ d > 0
    BY <1>1, <1>2
  <2> HIDE DEF m, d
  <2>2. m \div d \in Nat
    BY <2>1
  <2>. QED
    BY <2>2 DEF HighPart, m, d
<1>4. A \in Seq(Int) /\ Len(A) = k /\ (Shows(b, first, A) <=> SignsAt(b, first, x, k))
  <2>1. A \in Seq(Int) /\ Len(A) = k /\ \A n \in 0..(k - 1) : A[n + 1] = SignOf(x[n])
    <3>1. \A n \in 1..k : SignOf(x[n - 1]) \in Int
      BY <1>0, <1>1
    <3> DEFINE s(n) == SignOf(x[n])
    <3>2. A = [n \in 1..k |-> s(n - 1)]
      OBVIOUS
    <3> HIDE DEF A, s
    <3>3. \A n \in 1..k : s(n - 1) \in Int
      BY <3>1 DEF s
    <3>4. A \in Seq(Int) /\ Len(A) = k /\ \A n \in 1..k : A[n] = s(n - 1)
      BY <3>2, <3>3
    <3>5. \A n \in 0..(k - 1) : A[n + 1] = s(n)
      BY <1>0, <3>4
    <3>. QED
      BY <3>4, <3>5 DEF s
  <2> HIDE DEF A
  <2>2. ASSUME Shows(b, first, A), NEW n \in 0..(k - 1) PROVE b[first + n] = SignOf(x[n])
    <3>1. b[first + ((n + 1) - 1)] = A[n + 1]
      BY <1>0, <2>1, <2>2 DEF Shows
    <3>. QED
      BY <1>0, <2>1, <3>1
  <2>3. ASSUME \A n \in 0..(k - 1) : b[first + n] = SignOf(x[n]) PROVE Shows(b, first, A)
    <3>1. ASSUME NEW t \in 1..Len(A) PROVE b[first + (t - 1)] = A[t]
      <4>1. t - 1 \in 0..(k - 1) /\ (t - 1) + 1 = t
        BY <2>1
      <4>2. b[first + (t - 1)] = SignOf(x[t - 1]) /\ A[(t - 1) + 1] = SignOf(x[t - 1])
        BY <2>1, <2>3, <4>1
      <4>. QED
        BY <4>1, <4>2
    <3>. QED
      BY <3>1 DEF Shows
  <2>. QED
    BY <2>1, <2>2, <2>3 DEF SignsAt
<1>5. /\ FlattenSeq(L) \in Seq(Int) /\ Len(FlattenSeq(L)) = k * low
      /\ Shows(b, first, FlattenSeq(L)) <=> LowsAt(b, first, x, k, low)
  <2> DEFINE g == [n \in 0..(k - 1) |-> Len(L[n + 1])]
  <2>1. \A n \in 0..(k - 1) : L[n + 1] = LowBitsOf(Magnitude(x[n]), low)
    BY <1>0
  <2>2. ASSUME NEW n \in 0..(k - 1)
        PROVE  /\ L[n + 1] \in Seq(Int) /\ Len(L[n + 1]) = low
               /\ \A a \in Int : Shows(b, a, L[n + 1]) <=>
                     \A t \in 0..(low - 1) : b[a + t] = (Magnitude(x[n]) \div Pow2(t)) % 2
    <3> DEFINE m == Magnitude(x[n])
    <3>1. m \in Nat /\ L[n + 1] = LowBitsOf(m, low)
      BY <1>1, <2>1
    <3> HIDE DEF L, m
    <3>2. /\ LowBitsOf(m, low) \in Seq(Int) /\ Len(LowBitsOf(m, low)) = low
          /\ \A a \in Int : Shows(b, a, LowBitsOf(m, low)) <=>
                \A t \in 0..(low - 1) : b[a + t] = (m \div Pow2(t)) % 2
      BY <3>1, LowBitsShown
    <3>. QED
      BY <3>1, <3>2 DEF m
  <2>3. L \in [1..k -> Seq(Int)]
    <3>1. \A n \in 1..k : L[n] \in Seq(Int)
      <4>. SUFFICES ASSUME NEW n \in 1..k PROVE L[n] \in Seq(Int)
        OBVIOUS
      <4>1. n - 1 \in 0..(k - 1) /\ (n - 1) + 1 = n
        OBVIOUS
      <4> HIDE DEF L
      <4>. QED
        BY <2>2, <4>1
    <3>2. L = [n \in 1..k |-> L[n]]
      OBVIOUS
    <3> HIDE DEF L
    <3>. QED
      BY <3>1, <3>2
  <2> HIDE DEF L
  <2>4. Pieces(FlattenSeq(L), L, g, k, Int)
    BY <2>3, Flattened
  <2>5. \A n \in 0..(k - 1) : g[n] = low /\ g[n] = Len(L[n + 1]) /\ g[n] \in Nat
    BY <2>2
  <2> HIDE DEF g
  <2>6. \A n \in 0..k : SumTo(g, n) = n * low
    BY <2>5, SumConstant
  <2>7. FlattenSeq(L) \in Seq(Int) /\ Len(FlattenSeq(L)) = k * low
    BY <2>4, <2>6 DEF Pieces
  <2>9. Shows(b, first, FlattenSeq(L)) <=>
          \A n \in 0..(k - 1) : Shows(b, first + SumTo(g, n), L[n + 1])
    BY <2>4, <2>5, ShowsPieces
  <2>10. ASSUME NEW n \in 0..(k - 1)
         PROVE  Shows(b, first + SumTo(g, n), L[n + 1])
                  <=> \A t \in 0..(low - 1) : b[first + n * low + t] = (Magnitude(x[n]) \div Pow2(t)) % 2
    <3>1. SumTo(g, n) = n * low /\ n * low \in Int /\ first + n * low \in Int
      BY <2>6
    <3>. QED
      BY <2>2, <3>1
  <2>. QED
    BY <2>7, <2>9, <2>10 DEF LowsAt
<1>6. /\ FlattenSeq(H) \in Seq(Int) /\ Len(FlattenSeq(H)) = SumTo(f, k)
      /\ Shows(b, first, FlattenSeq(H)) <=> HighsAt(b, first, x, k, low)
  <2>1. \A n \in 0..(k - 1) : H[n + 1] = Unary(HighPart(x[n], low))
    BY <1>0 DEF HighPart
  <2>2. ASSUME NEW n \in 0..(k - 1)
        PROVE  /\ H[n + 1] \in Seq(Int) /\ Len(H[n + 1]) = HighPart(x[n], low) + 1
               /\ \A a \in Int : Shows(b, a, H[n + 1]) <=> RunAt(b, a, HighPart(x[n], low))
    <3> DEFINE r == HighPart(x[n], low)
    <3>1. r \in Nat /\ H[n + 1] = Unary(r)
      BY <1>3, <2>1
    <3> HIDE DEF H, r
    <3>2. /\ Unary(r) \in Seq(Int) /\ Len(Unary(r)) = r + 1
          /\ \A a \in Int : Shows(b, a, Unary(r)) <=> RunAt(b, a, r)
      BY <3>1, UnaryShown
    <3>. QED
      BY <3>1, <3>2 DEF r
  <2>3. H \in [1..k -> Seq(Int)]
    <3>1. \A n \in 1..k : H[n] \in Seq(Int)
      <4>. SUFFICES ASSUME NEW n \in 1..k PROVE H[n] \in Seq(Int)
        OBVIOUS
      <4>1. n - 1 \in 0..(k - 1) /\ (n - 1) + 1 = n
        OBVIOUS
      <4> HIDE DEF H
      <4>. QED
        BY <2>2, <4>1
    <3>2. H = [n \in 1..k |-> H[n]]
      OBVIOUS
    <3> HIDE DEF H
    <3>. QED
      BY <3>1, <3>2
  <2> HIDE DEF H
  <2>4. \A n \in 0..(k - 1) : f[n] = Len(H[n + 1]) /\ f[n] \in Nat
    BY <1>3, <2>2 DEF Lengths
  <2>5. f = [n \in 0..(k - 1) |-> Len(H[n + 1])]
    BY <2>2 DEF Lengths
  <2> HIDE DEF f
  <2>6. Pieces(FlattenSeq(H), H, f, k, Int)
    BY <2>3, <2>5, Flattened
  <2>7. FlattenSeq(H) \in Seq(Int) /\ Len(FlattenSeq(H)) = SumTo(f, k)
    BY <2>6 DEF Pieces
  <2>8. \A n \in 0..(k - 1) : SumTo(f, n) \in Int
    <3>1. (\A n \in 0..(k - 1) : f[n] \in Int) /\ \A n \in 0..(k - 1) : n \in 0..k
      BY <2>4
    <3>2. \A n \in 0..k : SumTo(f, n) \in Int
      BY <3>1, SumFacts
    <3>. QED
      BY <3>1, <3>2
  <2>9. Shows(b, first, FlattenSeq(H)) <=>
          \A n \in 0..(k - 1) : Shows(b, first + SumTo(f, n), H[n + 1])
    BY <2>4, <2>6, ShowsPieces
  <2>10. ASSUME NEW n \in 0..(k - 1)
         PROVE  Shows(b, first + SumTo(f, n), H[n + 1]) <=> RunAt(b, first + SumTo(f, n), HighPart(x[n], low))
    <3>1. first + SumTo(f, n) \in Int
      BY <2>8
    <3>. QED
      BY <2>2, <3>1
  <2>. QED
    BY <2>7, <2>9, <2>10 DEF HighsAt, f
<1>. QED
  BY <1>4, <1>5, <1>6 DEF SignPart, LowPieces, HighPieces

\* and the bits show the code when they show each integer where it belongs.
LEMMA CodeShows ==
  ASSUME NEW k \in Nat, NEW low \in Nat, NEW x, \A n \in 0..(k - 1) : x[n] \in Int,
         NEW b, NEW first \in Int
  PROVE  /\ Code(x, k, low) \in Seq(Int)
         /\ Len(Code(x, k, low)) = k * (low + 1) + SumTo(Lengths(x, k, low), k)
         /\ Shows(b, first, Code(x, k, low)) <=> CodeAt(b, first, x, k, low)
<1> DEFINE A == SignPart(x, k)
           L == FlattenSeq(LowPieces(x, k, low))
           H == FlattenSeq(HighPieces(x, k, low))
           f == Lengths(x, k, low)
<1>1. /\ A \in Seq(Int) /\ Len(A) = k /\ L \in Seq(Int) /\ Len(L) = k * low
      /\ H \in Seq(Int) /\ Len(H) = SumTo(f, k)
      /\ \A e \in Int : /\ Shows(b, e, A) <=> SignsAt(b, e, x, k)
                        /\ Shows(b, e, L) <=> LowsAt(b, e, x, k, low)
                        /\ Shows(b, e, H) <=> HighsAt(b, e, x, k, low)
  BY CodeParts
<1>2. Code(x, k, low) = A \o L \o H
  BY DEF Code, SignPart, LowPieces, HighPieces
<1> HIDE DEF A, L, H, f
<1>4. k * (low + 1) = k + k * low /\ k * low \in Int /\ k * (low + 1) \in Int
  OBVIOUS
<1>5. /\ A \o L \in Seq(Int) /\ Len(A \o L) = k + k * low
      /\ Shows(b, first, A \o L) <=> Shows(b, first, A) /\ Shows(b, first + k, L)
  <2>1. A \o L \in Seq(Int) /\ Len(A \o L) = k + k * low
    BY <1>1, Joined
  <2>2. Shows(b, first, A \o L) <=> Shows(b, first, A) /\ Shows(b, first + Len(A), L)
    BY <1>1, ShowsJoined
  <2>. QED
    BY <1>1, <2>1, <2>2
<1>6. /\ A \o L \o H \in Seq(Int) /\ Len(A \o L \o H) = k * (low + 1) + SumTo(f, k)
      /\ Shows(b, first, A \o L \o H)
             <=> Shows(b, first, A \o L) /\ Shows(b, first + k * (low + 1), H)
  <2>1. A \o L \o H \in Seq(Int) /\ Len(A \o L \o H) = Len(A \o L) + Len(H)
    BY <1>1, <1>5, Joined
  <2>2. Shows(b, first, A \o L \o H) <=> Shows(b, first, A \o L) /\ Shows(b, first + Len(A \o L), H)
    BY <1>1, <1>5, ShowsJoined
  <2>. QED
    BY <1>1, <1>4, <1>5, <2>1, <2>2
<1>7. first + k * (low + 1) \in Int /\ first + k \in Int
  BY <1>4
<1>. QED
  BY <1>1, <1>2, <1>5, <1>6, <1>7 DEF f, CodeAt

\* The same, with each run counted back from its end, as GolombRice has it.
CodeText(b, x, k, low) ==
  \A n \in 0..(k - 1) :
    /\ b[n] = SignOf(x[n])
    /\ \A t \in 0..(low - 1) : b[k + n * low + t] = (Magnitude(x[n]) \div Pow2(t)) % 2
    /\ b[(k * (low + 1) + SumTo(Lengths(x, k, low), n + 1)) - 1] = 1
    /\ \A q \in 2..(HighPart(x[n], low) + 1) :
         b[(k * (low + 1) + SumTo(Lengths(x, k, low), n + 1)) - q] = 0

\* The length of a code, and the two ways to find one.
LEMMA CodeBits ==
  ASSUME NEW k \in Nat, NEW low \in Nat, NEW x, \A n \in 0..(k - 1) : x[n] \in Int
  PROVE  /\ Code(x, k, low) \in Seq(Int)
         /\ Len(Code(x, k, low)) = k * (low + 1) + SumTo(Lengths(x, k, low), k)
         /\ \A b : Shows(b, 0, Code(x, k, low)) <=> CodeText(b, x, k, low)
<1> DEFINE f == Lengths(x, k, low)
           B == k * (low + 1)
<1>1. B \in Nat
  OBVIOUS
<1>2. \A n \in 0..(k - 1) : f[n] = HighPart(x[n], low) + 1 /\ HighPart(x[n], low) \in Nat
  <2>. SUFFICES ASSUME NEW n \in 0..(k - 1) PROVE HighPart(x[n], low) \in Nat
    BY DEF Lengths
  <2> DEFINE m == Magnitude(x[n])
             d == Pow2(low)
  <2>1. m \in Nat /\ d \in Nat /\ d > 0
    BY Pow2Facts DEF Magnitude
  <2> HIDE DEF m, d
  <2>2. m \div d \in Nat
    BY <2>1
  <2>. QED
    BY <2>2 DEF HighPart, m, d
<1> HIDE DEF f, B
<1>3. \A n \in 0..(k - 1) : SumTo(f, n + 1) = SumTo(f, n) + f[n] /\ SumTo(f, n) \in Int
  <2>1. (\A n \in 0..(k - 1) : f[n] \in Int) /\ \A n \in 0..(k - 1) : n \in 0..k
    BY <1>2
  <2>2. /\ \A n \in 0..k : SumTo(f, n) \in Int
        /\ \A n \in 0..(k - 1) : SumTo(f, n + 1) = SumTo(f, n) + f[n]
    BY <2>1, SumFacts
  <2>. QED
    BY <2>1, <2>2
<1>4. ASSUME NEW b, NEW n \in 0..(k - 1)
      PROVE  RunAt(b, B + SumTo(f, n), HighPart(x[n], low))
               <=> /\ b[(B + SumTo(f, n + 1)) - 1] = 1
                   /\ \A q \in 2..(HighPart(x[n], low) + 1) : b[(B + SumTo(f, n + 1)) - q] = 0
  <2> DEFINE r == HighPart(x[n], low)
             s == SumTo(f, n)
             e == B + s
  <2>1. r \in Nat /\ s \in Int /\ SumTo(f, n + 1) = s + r + 1
    BY <1>2, <1>3
  <2> HIDE DEF r, s
  <2>2. e \in Int /\ \A q \in Int : (B + SumTo(f, n + 1)) - q = e + (r + 1 - q)
    BY <1>1, <2>1
  <2>3. (B + SumTo(f, n + 1)) - 1 = e + r
    BY <1>1, <2>1
  <2> HIDE DEF e
  <2>4. /\ \A q \in 2..(r + 1) : r + 1 - q \in 0..(r - 1)
        /\ \A t \in 0..(r - 1) : r + 1 - t \in 2..(r + 1) /\ r + 1 - (r + 1 - t) = t
    BY <2>1
  <2>5. ASSUME \A t \in 0..(r - 1) : b[e + t] = 0, NEW q \in 2..(r + 1)
        PROVE  b[(B + SumTo(f, n + 1)) - q] = 0
    BY <2>2, <2>4, <2>5
  <2>6. ASSUME \A q \in 2..(r + 1) : b[(B + SumTo(f, n + 1)) - q] = 0, NEW t \in 0..(r - 1)
        PROVE  b[e + t] = 0
    <3>1. r + 1 - t \in 2..(r + 1) /\ (B + SumTo(f, n + 1)) - (r + 1 - t) = e + t
      <4>1. r + 1 - t \in Int /\ r + 1 - t \in 2..(r + 1) /\ r + 1 - (r + 1 - t) = t
        BY <2>1, <2>4
      <4>2. (B + SumTo(f, n + 1)) - (r + 1 - t) = e + (r + 1 - (r + 1 - t))
        BY <2>2, <4>1
      <4>. QED
        BY <4>1, <4>2
    <3>2. b[(B + SumTo(f, n + 1)) - (r + 1 - t)] = 0
      BY <2>6, <3>1
    <3>. QED
      BY <3>1, <3>2
  <2>. QED
    BY <2>3, <2>5, <2>6 DEF RunAt, e, s, r
<1>5. ASSUME NEW b
      PROVE
      /\ SignsAt(b, 0, x, k) <=> \A n \in 0..(k - 1) : b[n] = SignOf(x[n])
      /\ LowsAt(b, 0 + k, x, k, low) <=>
           \A n \in 0..(k - 1) : \A t \in 0..(low - 1) :
              b[k + n * low + t] = (Magnitude(x[n]) \div Pow2(t)) % 2
      /\ HighsAt(b, 0 + B, x, k, low) <=>
           \A n \in 0..(k - 1) : RunAt(b, B + SumTo(f, n), HighPart(x[n], low))
  <2>1. 0 + k = k /\ 0 + B = B
    BY <1>1
  <2>2. SignsAt(b, 0, x, k) <=> \A n \in 0..(k - 1) : b[n] = SignOf(x[n])
    BY DEF SignsAt
  <2>. QED
    BY <2>1, <2>2 DEF LowsAt, HighsAt, f
<1>6. \A b, first : first \in Int =>
        /\ Code(x, k, low) \in Seq(Int)
        /\ Len(Code(x, k, low)) = k * (low + 1) + SumTo(Lengths(x, k, low), k)
        /\ Shows(b, first, Code(x, k, low)) <=> CodeAt(b, first, x, k, low)
  BY CodeShows
<1>7. ASSUME NEW b PROVE Shows(b, 0, Code(x, k, low)) <=> CodeText(b, x, k, low)
  <2>1. Shows(b, 0, Code(x, k, low)) <=> CodeAt(b, 0, x, k, low)
    BY <1>6
  <2>. QED
    BY <1>4, <1>5, <2>1 DEF CodeAt, CodeText, f, B
<1>8. 0 \in Int
  OBVIOUS
<1>. QED
  BY <1>6, <1>7, <1>8

(***************************************************************************)
(* The three calls of the decoder.                                         *)
(***************************************************************************)

\* A slice is a buffer: what GolombRice assumes of its inputs.
LEMMA SlicesAreBuffers ==
  \A b \in Slices : b.bytes \in Nat /\ b.bits \in [0..(b.bytes * BYTE - 1) -> 0..1]
<1> SUFFICES ASSUME NEW c \in Keys \cup Signatures, NEW n \in 0..c.bytes
             PROVE  /\ Rest(c, n).bytes \in Nat
                    /\ Rest(c, n).bits \in [0..(Rest(c, n).bytes * BYTE - 1) -> 0..1]
  BY DEF Slices
<1>1. /\ c.bytes \in Nat /\ c.bits \in [0..(c.bytes * BYTE - 1) -> 0..1]
      /\ BYTE \in Nat /\ BYTE >= 1 /\ n \in Nat /\ n <= c.bytes
  BY InputsAssumption, FramingAssumption
<1>2. (c.bytes - n) * BYTE = c.bytes * BYTE - n * BYTE
  BY <1>1
<1>3. c.bytes * BYTE \in Nat /\ n * BYTE \in Nat
  BY <1>1
<1>4. ASSUME NEW t \in 0..((c.bytes - n) * BYTE - 1)
      PROVE  c.bits[t + n * BYTE] \in 0..1
  <2>1. t + n * BYTE \in 0..(c.bytes * BYTE - 1)
    BY <1>2, <1>3, <1>4
  <2>. QED
    BY <1>1, <2>1
<1>. QED
  BY <1>1, <1>4 DEF Rest

\* The sizes of the three calls are such as GolombRice assumes.
LEMMA Sizes ==
  /\ P00!SizesAssumption /\ P00!BuffersAssumption
  /\ P01!SizesAssumption /\ P01!BuffersAssumption
  /\ PS1!SizesAssumption /\ PS1!BuffersAssumption
<1>1. N \in Nat \ {0} /\ N \div 2 \in Nat \ {0}
  BY ParamsAssumption
<1>. QED
  BY <1>1, FramingAssumption, SlicesAreBuffers
     DEF P00!SizesAssumption, P00!BuffersAssumption, P01!SizesAssumption,
         P01!BuffersAssumption, PS1!SizesAssumption, PS1!BuffersAssumption


\* The operators of the decoder that runs and of the one proved about agree, for q00.
LEMMA Same00 ==
  /\ Dec00!Next => P00!Next
  /\ Dec00!InBounds <=> P00!InBounds
  /\ Dec00!Encodable = P00!Encodable
<1>1. \A n : Dec00!LowPart(n) = P00!LowPart(n)
  BY DEF P00!LowPart, Dec00!LowPart, P00!SumTo, Dec00!SumTo, P00!Pow2, Dec00!Pow2, P00!WordBit, Dec00!WordBit,
         P00!Base, Dec00!Base
<1>2. Dec00!Next => P00!Next
  BY <1>1 DEF Dec00!Next, P00!Next, P00!CheckLength, Dec00!CheckLength, Dec00!LowBits, P00!LowBits,
         P00!LowStep, Dec00!LowStep, P00!RunTooLong, Dec00!RunTooLong, P00!UnaryBit,
         Dec00!UnaryBit, P00!SignBit, Dec00!SignBit, P00!SignStep, Dec00!SignStep,
         P00!TooLong, Dec00!TooLong, P00!LenBits, Dec00!LenBits, P00!ZMax, Dec00!ZMax,
         P00!Items, Dec00!Items, P00!Pow2, Dec00!Pow2
<1>3. Dec00!InBounds <=> P00!InBounds
  BY DEF P00!InBounds, Dec00!InBounds, P00!LenBits, Dec00!LenBits, P00!Items,
         Dec00!Items, P00!Base, Dec00!Base
<1>4. Dec00!Encodable = P00!Encodable
  BY DEF P00!Encodable, Dec00!Encodable, P00!Items, Dec00!Items, P00!Pow2, Dec00!Pow2
<1>. QED
  BY <1>2, <1>3, <1>4

\* A buffer starts with the code of a tuple when it shows the sequence of bits, for q00.
LEMMA Starts00 ==
  ASSUME NEW x \in [0..(N \div 2 - 1) -> Int]
  PROVE  /\ P00!StartsWithCode(x) <=> /\ Len(Code(x, N \div 2, LOW_00)) <= y.bytes * BYTE
                                     /\ Shows(y.bits, 0, Code(x, N \div 2, LOW_00))
         /\ P00!End(x, N \div 2 - 1) = Len(Code(x, N \div 2, LOW_00))
<1> DEFINE k == N \div 2
           e(n) == k * (LOW_00 + 1) + SumTo(Lengths(x, k, LOW_00), n + 1)
<1>1. k \in Nat /\ LOW_00 \in Nat /\ k >= 1
  BY ParamsAssumption, FramingAssumption
<1>2. \A n \in 0..(k - 1) : x[n] \in Int
  OBVIOUS
<1>3. \A n : P00!End(x, n) = e(n)
  BY DEF P00!End, P00!SumTo, SumTo, P00!Run, P00!Magnitude, P00!Items, P00!Pow2, Pow2, HighPart, Magnitude, Lengths
<1>4. P00!End(x, k - 1) = Len(Code(x, k, LOW_00))
  <2> HIDE DEF k
  <2>1. Len(Code(x, k, LOW_00)) = k * (LOW_00 + 1) + SumTo(Lengths(x, k, LOW_00), k)
    BY <1>1, <1>2, CodeBits
  <2>2. (k - 1) + 1 = k
    BY <1>1
  <2>3. P00!End(x, k - 1) = e(k - 1)
    BY <1>3
  <2>. QED
    BY <2>1, <2>2, <2>3
<1>5. \A v : P00!Run(v) = HighPart(v, LOW_00) /\ P00!Magnitude(v) = Magnitude(v)
  BY DEF P00!Run, P00!Magnitude, P00!Pow2, Pow2, HighPart, Magnitude
<1>6. \A t : P00!Pow2(t) = Pow2(t)
  BY DEF P00!Pow2, Pow2
<1>7. P00!StartsWithCode(x) <=>
        /\ P00!End(x, k - 1) <= y.bytes * BYTE
        /\ \A n \in 0..(k - 1) :
             /\ y.bits[n] = SignOf(x[n])
             /\ \A t \in 0..(LOW_00 - 1) : y.bits[k + n * LOW_00 + t] = (Magnitude(x[n]) \div Pow2(t)) % 2
             /\ y.bits[e(n) - 1] = 1
             /\ \A q \in 2..(HighPart(x[n], LOW_00) + 1) : y.bits[e(n) - q] = 0
  <2> HIDE DEF e
  <2>. QED
    BY <1>3, <1>5, <1>6 DEF P00!StartsWithCode, P00!Items, P00!LenBits, SignOf
<1>8. Shows(y.bits, 0, Code(x, k, LOW_00)) <=> CodeText(y.bits, x, k, LOW_00)
  <2> HIDE DEF k
  <2>. QED
    BY <1>1, <1>2, CodeBits
<1>. QED
  BY <1>4, <1>7, <1>8 DEF CodeText

\* The operators of the decoder that runs and of the one proved about agree, for q01.
LEMMA Same01 ==
  /\ Dec01!Next => P01!Next
  /\ Dec01!InBounds <=> P01!InBounds
  /\ Dec01!Encodable = P01!Encodable
<1>1. \A n : Dec01!LowPart(n) = P01!LowPart(n)
  BY DEF P01!LowPart, Dec01!LowPart, P01!SumTo, Dec01!SumTo, P01!Pow2, Dec01!Pow2, P01!WordBit, Dec01!WordBit,
         P01!Base, Dec01!Base
<1>2. Dec01!Next => P01!Next
  BY <1>1 DEF Dec01!Next, P01!Next, P01!CheckLength, Dec01!CheckLength, Dec01!LowBits, P01!LowBits,
         P01!LowStep, Dec01!LowStep, P01!RunTooLong, Dec01!RunTooLong, P01!UnaryBit,
         Dec01!UnaryBit, P01!SignBit, Dec01!SignBit, P01!SignStep, Dec01!SignStep,
         P01!TooLong, Dec01!TooLong, P01!LenBits, Dec01!LenBits, P01!ZMax, Dec01!ZMax,
         P01!Items, Dec01!Items, P01!Pow2, Dec01!Pow2
<1>3. Dec01!InBounds <=> P01!InBounds
  BY DEF P01!InBounds, Dec01!InBounds, P01!LenBits, Dec01!LenBits, P01!Items,
         Dec01!Items, P01!Base, Dec01!Base
<1>4. Dec01!Encodable = P01!Encodable
  BY DEF P01!Encodable, Dec01!Encodable, P01!Items, Dec01!Items, P01!Pow2, Dec01!Pow2
<1>. QED
  BY <1>2, <1>3, <1>4

\* A buffer starts with the code of a tuple when it shows the sequence of bits, for q01.
LEMMA Starts01 ==
  ASSUME NEW x \in [0..(N - 1) -> Int]
  PROVE  /\ P01!StartsWithCode(x) <=> /\ Len(Code(x, N, LOW_01)) <= y.bytes * BYTE
                                     /\ Shows(y.bits, 0, Code(x, N, LOW_01))
         /\ P01!End(x, N - 1) = Len(Code(x, N, LOW_01))
<1> DEFINE k == N
           e(n) == k * (LOW_01 + 1) + SumTo(Lengths(x, k, LOW_01), n + 1)
<1>1. k \in Nat /\ LOW_01 \in Nat /\ k >= 1
  BY ParamsAssumption, FramingAssumption
<1>2. \A n \in 0..(k - 1) : x[n] \in Int
  OBVIOUS
<1>3. \A n : P01!End(x, n) = e(n)
  BY DEF P01!End, P01!SumTo, SumTo, P01!Run, P01!Magnitude, P01!Items, P01!Pow2, Pow2, HighPart, Magnitude, Lengths
<1>4. P01!End(x, k - 1) = Len(Code(x, k, LOW_01))
  <2> HIDE DEF k
  <2>1. Len(Code(x, k, LOW_01)) = k * (LOW_01 + 1) + SumTo(Lengths(x, k, LOW_01), k)
    BY <1>1, <1>2, CodeBits
  <2>2. (k - 1) + 1 = k
    BY <1>1
  <2>3. P01!End(x, k - 1) = e(k - 1)
    BY <1>3
  <2>. QED
    BY <2>1, <2>2, <2>3
<1>5. \A v : P01!Run(v) = HighPart(v, LOW_01) /\ P01!Magnitude(v) = Magnitude(v)
  BY DEF P01!Run, P01!Magnitude, P01!Pow2, Pow2, HighPart, Magnitude
<1>6. \A t : P01!Pow2(t) = Pow2(t)
  BY DEF P01!Pow2, Pow2
<1>7. P01!StartsWithCode(x) <=>
        /\ P01!End(x, k - 1) <= y.bytes * BYTE
        /\ \A n \in 0..(k - 1) :
             /\ y.bits[n] = SignOf(x[n])
             /\ \A t \in 0..(LOW_01 - 1) : y.bits[k + n * LOW_01 + t] = (Magnitude(x[n]) \div Pow2(t)) % 2
             /\ y.bits[e(n) - 1] = 1
             /\ \A q \in 2..(HighPart(x[n], LOW_01) + 1) : y.bits[e(n) - q] = 0
  <2> HIDE DEF e
  <2>. QED
    BY <1>3, <1>5, <1>6 DEF P01!StartsWithCode, P01!Items, P01!LenBits, SignOf
<1>8. Shows(y.bits, 0, Code(x, k, LOW_01)) <=> CodeText(y.bits, x, k, LOW_01)
  <2> HIDE DEF k
  <2>. QED
    BY <1>1, <1>2, CodeBits
<1>. QED
  BY <1>4, <1>7, <1>8 DEF CodeText

\* The operators of the decoder that runs and of the one proved about agree, for s1.
LEMMA SameS1 ==
  /\ DecS1!Next => PS1!Next
  /\ DecS1!InBounds <=> PS1!InBounds
  /\ DecS1!Encodable = PS1!Encodable
<1>1. \A n : DecS1!LowPart(n) = PS1!LowPart(n)
  BY DEF PS1!LowPart, DecS1!LowPart, PS1!SumTo, DecS1!SumTo, PS1!Pow2, DecS1!Pow2, PS1!WordBit, DecS1!WordBit,
         PS1!Base, DecS1!Base
<1>2. DecS1!Next => PS1!Next
  BY <1>1 DEF DecS1!Next, PS1!Next, PS1!CheckLength, DecS1!CheckLength, DecS1!LowBits, PS1!LowBits,
         PS1!LowStep, DecS1!LowStep, PS1!RunTooLong, DecS1!RunTooLong, PS1!UnaryBit,
         DecS1!UnaryBit, PS1!SignBit, DecS1!SignBit, PS1!SignStep, DecS1!SignStep,
         PS1!TooLong, DecS1!TooLong, PS1!LenBits, DecS1!LenBits, PS1!ZMax, DecS1!ZMax,
         PS1!Items, DecS1!Items, PS1!Pow2, DecS1!Pow2
<1>3. DecS1!InBounds <=> PS1!InBounds
  BY DEF PS1!InBounds, DecS1!InBounds, PS1!LenBits, DecS1!LenBits, PS1!Items,
         DecS1!Items, PS1!Base, DecS1!Base
<1>4. DecS1!Encodable = PS1!Encodable
  BY DEF PS1!Encodable, DecS1!Encodable, PS1!Items, DecS1!Items, PS1!Pow2, DecS1!Pow2
<1>. QED
  BY <1>2, <1>3, <1>4

\* A buffer starts with the code of a tuple when it shows the sequence of bits, for s1.
LEMMA StartsS1 ==
  ASSUME NEW x \in [0..(N - 1) -> Int]
  PROVE  /\ PS1!StartsWithCode(x) <=> /\ Len(Code(x, N, LOW_S1)) <= y.bytes * BYTE
                                     /\ Shows(y.bits, 0, Code(x, N, LOW_S1))
         /\ PS1!End(x, N - 1) = Len(Code(x, N, LOW_S1))
<1> DEFINE k == N
           e(n) == k * (LOW_S1 + 1) + SumTo(Lengths(x, k, LOW_S1), n + 1)
<1>1. k \in Nat /\ LOW_S1 \in Nat /\ k >= 1
  BY ParamsAssumption, FramingAssumption
<1>2. \A n \in 0..(k - 1) : x[n] \in Int
  OBVIOUS
<1>3. \A n : PS1!End(x, n) = e(n)
  BY DEF PS1!End, PS1!SumTo, SumTo, PS1!Run, PS1!Magnitude, PS1!Items, PS1!Pow2, Pow2, HighPart, Magnitude, Lengths
<1>4. PS1!End(x, k - 1) = Len(Code(x, k, LOW_S1))
  <2> HIDE DEF k
  <2>1. Len(Code(x, k, LOW_S1)) = k * (LOW_S1 + 1) + SumTo(Lengths(x, k, LOW_S1), k)
    BY <1>1, <1>2, CodeBits
  <2>2. (k - 1) + 1 = k
    BY <1>1
  <2>3. PS1!End(x, k - 1) = e(k - 1)
    BY <1>3
  <2>. QED
    BY <2>1, <2>2, <2>3
<1>5. \A v : PS1!Run(v) = HighPart(v, LOW_S1) /\ PS1!Magnitude(v) = Magnitude(v)
  BY DEF PS1!Run, PS1!Magnitude, PS1!Pow2, Pow2, HighPart, Magnitude
<1>6. \A t : PS1!Pow2(t) = Pow2(t)
  BY DEF PS1!Pow2, Pow2
<1>7. PS1!StartsWithCode(x) <=>
        /\ PS1!End(x, k - 1) <= y.bytes * BYTE
        /\ \A n \in 0..(k - 1) :
             /\ y.bits[n] = SignOf(x[n])
             /\ \A t \in 0..(LOW_S1 - 1) : y.bits[k + n * LOW_S1 + t] = (Magnitude(x[n]) \div Pow2(t)) % 2
             /\ y.bits[e(n) - 1] = 1
             /\ \A q \in 2..(HighPart(x[n], LOW_S1) + 1) : y.bits[e(n) - q] = 0
  <2> HIDE DEF e
  <2>. QED
    BY <1>3, <1>5, <1>6 DEF PS1!StartsWithCode, PS1!Items, PS1!LenBits, SignOf
<1>8. Shows(y.bits, 0, Code(x, k, LOW_S1)) <=> CodeText(y.bits, x, k, LOW_S1)
  <2> HIDE DEF k
  <2>. QED
    BY <1>1, <1>2, CodeBits
<1>. QED
  BY <1>4, <1>7, <1>8 DEF CodeText

\* The number of bits of the buffer.
LEMMA BufType ==
  ASSUME buf \in Keys \cup Signatures
  PROVE  /\ buf.bytes \in Nat /\ BYTE \in Nat /\ BufBits \in Nat
         /\ \A n \in 0..buf.bytes : Rest(buf, n) \in Slices
<1>1. buf.bytes \in Nat /\ BYTE \in Nat
  BY InputsAssumption, FramingAssumption
<1>. QED
  BY <1>1 DEF BufBits, Slices

\* What GolombRiceProofs proves of a decoder run, said of the one for q00: it
\* starts in the invariant,
LEMMA Run00Starts ==
  ASSUME buf \in Keys \cup Signatures, NEW n \in 0..buf.bytes, Decompress(n, N \div 2)
  PROVE  P00!IndInv' /\ P00!Decoded' /\ P00!Faithful' /\ y' = Rest(buf, n)
<1>1. N \div 2 \in Nat /\ N \div 2 >= 1
  BY ParamsAssumption
<1>2. Rest(buf, n) \in Slices
  BY BufType
<1>3. out' \in [0..(N \div 2 - 1) -> Int] /\ pc' = "start" /\ i' = 0 /\ z' = 0 /\ j' = 0 /\ y' = Rest(buf, n)
  BY DEF Decompress, Zeroes
<1>. QED
  BY <1>1, <1>2, <1>3
     DEF P00!IndInv, P00!Control, P00!LongEnough, P00!Items, P00!Decoded, P00!Faithful, P00!OnTrack

\* keeps it and its buffer,
LEMMA Run00Step ==
  /\ P00!IndInv /\ Dec00!Next => P00!IndInv' /\ y' = y
  /\ P00!IndInv => Dec00!InBounds
  /\ P00!IndInv /\ P00!Decoded /\ Dec00!Next => P00!Decoded'
  /\ P00!IndInv /\ P00!Decoded /\ P00!Faithful /\ Dec00!Next => P00!Faithful'
<1>1. P00!Next => P00!AnyStep /\ y' = y
  BY DEF P00!Next, P00!AnyStep, P00!CheckLength, P00!LowBits, P00!LowStep, P00!RunTooLong, P00!UnaryBit,
         P00!SignBit, P00!SignStep
<1>. QED
  BY <1>1, Same00, P00!InvStep, P00!InvInBounds, P00!DecodedStep, P00!FaithfulStep, Sizes

\* returns what the slice starts with the code of,
LEMMA Run00Returns ==
  ASSUME P00!IndInv, P00!Decoded, pc = "some"
  PROVE  /\ out \in [0..(N \div 2 - 1) -> Int] /\ j = Len(Code(out, N \div 2, LOW_00))
         /\ j <= y.bytes * BYTE /\ Shows(y.bits, 0, Code(out, N \div 2, LOW_00))
<1>1. P00!DecodesTheCode
  BY P00!DecodedIsCode, Sizes
<1>2. out \in [0..(N \div 2 - 1) -> Int]
  BY DEF P00!Decoded, P00!Items
<1>3. P00!StartsWithCode(out) /\ j = P00!End(out, N \div 2 - 1)
  BY <1>1 DEF P00!DecodesTheCode
<1>. QED
  BY <1>2, <1>3, Starts00

\* and returns it if there is such a tuple.
LEMMA Run00Accepts ==
  ASSUME P00!Faithful, NEW x \in Dec00!Encodable, NEW b \in Slices, y = b,
         Len(Code(x, N \div 2, LOW_00)) <= b.bytes * BYTE, Shows(b.bits, 0, Code(x, N \div 2, LOW_00))
  PROVE  pc # "none" /\ (pc = "some" => j = Len(Code(x, N \div 2, LOW_00)))
<1>1. x \in P00!Encodable
  BY Same00
<1>2. x \in [0..(N \div 2 - 1) -> Int]
  <2>1. \A m \in Nat : P00!Pow2(m) = Pow2(m)
    BY DEF P00!Pow2, Pow2
  <2>. QED
    BY <1>1, <2>1, Pow2Facts, FramingAssumption DEF P00!Encodable, P00!Items
<1>3. P00!StartsWithCode(x) /\ P00!End(x, N \div 2 - 1) = Len(Code(x, N \div 2, LOW_00))
  BY <1>2, Starts00
<1>4. P00!OnTrack(x)
  BY <1>1, <1>3 DEF P00!Faithful
<1>. QED
  BY <1>3, <1>4 DEF P00!OnTrack

\* What GolombRiceProofs proves of a decoder run, said of the one for q01: it
\* starts in the invariant,
LEMMA Run01Starts ==
  ASSUME buf \in Keys \cup Signatures, NEW n \in 0..buf.bytes, Decompress(n, N)
  PROVE  P01!IndInv' /\ P01!Decoded' /\ P01!Faithful' /\ y' = Rest(buf, n)
<1>1. N \in Nat /\ N >= 1
  BY ParamsAssumption
<1>2. Rest(buf, n) \in Slices
  BY BufType
<1>3. out' \in [0..(N - 1) -> Int] /\ pc' = "start" /\ i' = 0 /\ z' = 0 /\ j' = 0 /\ y' = Rest(buf, n)
  BY DEF Decompress, Zeroes
<1>. QED
  BY <1>1, <1>2, <1>3
     DEF P01!IndInv, P01!Control, P01!LongEnough, P01!Items, P01!Decoded, P01!Faithful, P01!OnTrack

\* keeps it and its buffer,
LEMMA Run01Step ==
  /\ P01!IndInv /\ Dec01!Next => P01!IndInv' /\ y' = y
  /\ P01!IndInv => Dec01!InBounds
  /\ P01!IndInv /\ P01!Decoded /\ Dec01!Next => P01!Decoded'
  /\ P01!IndInv /\ P01!Decoded /\ P01!Faithful /\ Dec01!Next => P01!Faithful'
<1>1. P01!Next => P01!AnyStep /\ y' = y
  BY DEF P01!Next, P01!AnyStep, P01!CheckLength, P01!LowBits, P01!LowStep, P01!RunTooLong, P01!UnaryBit,
         P01!SignBit, P01!SignStep
<1>. QED
  BY <1>1, Same01, P01!InvStep, P01!InvInBounds, P01!DecodedStep, P01!FaithfulStep, Sizes

\* returns what the slice starts with the code of,
LEMMA Run01Returns ==
  ASSUME P01!IndInv, P01!Decoded, pc = "some"
  PROVE  /\ out \in [0..(N - 1) -> Int] /\ j = Len(Code(out, N, LOW_01))
         /\ j <= y.bytes * BYTE /\ Shows(y.bits, 0, Code(out, N, LOW_01))
<1>1. P01!DecodesTheCode
  BY P01!DecodedIsCode, Sizes
<1>2. out \in [0..(N - 1) -> Int]
  BY DEF P01!Decoded, P01!Items
<1>3. P01!StartsWithCode(out) /\ j = P01!End(out, N - 1)
  BY <1>1 DEF P01!DecodesTheCode
<1>. QED
  BY <1>2, <1>3, Starts01

\* and returns it if there is such a tuple.
LEMMA Run01Accepts ==
  ASSUME P01!Faithful, NEW x \in Dec01!Encodable, NEW b \in Slices, y = b,
         Len(Code(x, N, LOW_01)) <= b.bytes * BYTE, Shows(b.bits, 0, Code(x, N, LOW_01))
  PROVE  pc # "none" /\ (pc = "some" => j = Len(Code(x, N, LOW_01)))
<1>1. x \in P01!Encodable
  BY Same01
<1>2. x \in [0..(N - 1) -> Int]
  <2>1. \A m \in Nat : P01!Pow2(m) = Pow2(m)
    BY DEF P01!Pow2, Pow2
  <2>. QED
    BY <1>1, <2>1, Pow2Facts, FramingAssumption DEF P01!Encodable, P01!Items
<1>3. P01!StartsWithCode(x) /\ P01!End(x, N - 1) = Len(Code(x, N, LOW_01))
  BY <1>2, Starts01
<1>4. P01!OnTrack(x)
  BY <1>1, <1>3 DEF P01!Faithful
<1>. QED
  BY <1>3, <1>4 DEF P01!OnTrack

\* What GolombRiceProofs proves of a decoder run, said of the one for s1: it
\* starts in the invariant,
LEMMA RunS1Starts ==
  ASSUME buf \in Keys \cup Signatures, NEW n \in 0..buf.bytes, Decompress(n, N)
  PROVE  PS1!IndInv' /\ PS1!Decoded' /\ PS1!Faithful' /\ y' = Rest(buf, n)
<1>1. N \in Nat /\ N >= 1
  BY ParamsAssumption
<1>2. Rest(buf, n) \in Slices
  BY BufType
<1>3. out' \in [0..(N - 1) -> Int] /\ pc' = "start" /\ i' = 0 /\ z' = 0 /\ j' = 0 /\ y' = Rest(buf, n)
  BY DEF Decompress, Zeroes
<1>. QED
  BY <1>1, <1>2, <1>3
     DEF PS1!IndInv, PS1!Control, PS1!LongEnough, PS1!Items, PS1!Decoded, PS1!Faithful, PS1!OnTrack

\* keeps it and its buffer,
LEMMA RunS1Step ==
  /\ PS1!IndInv /\ DecS1!Next => PS1!IndInv' /\ y' = y
  /\ PS1!IndInv => DecS1!InBounds
  /\ PS1!IndInv /\ PS1!Decoded /\ DecS1!Next => PS1!Decoded'
  /\ PS1!IndInv /\ PS1!Decoded /\ PS1!Faithful /\ DecS1!Next => PS1!Faithful'
<1>1. PS1!Next => PS1!AnyStep /\ y' = y
  BY DEF PS1!Next, PS1!AnyStep, PS1!CheckLength, PS1!LowBits, PS1!LowStep, PS1!RunTooLong, PS1!UnaryBit,
         PS1!SignBit, PS1!SignStep
<1>. QED
  BY <1>1, SameS1, PS1!InvStep, PS1!InvInBounds, PS1!DecodedStep, PS1!FaithfulStep, Sizes

\* returns what the slice starts with the code of,
LEMMA RunS1Returns ==
  ASSUME PS1!IndInv, PS1!Decoded, pc = "some"
  PROVE  /\ out \in [0..(N - 1) -> Int] /\ j = Len(Code(out, N, LOW_S1))
         /\ j <= y.bytes * BYTE /\ Shows(y.bits, 0, Code(out, N, LOW_S1))
<1>1. PS1!DecodesTheCode
  BY PS1!DecodedIsCode, Sizes
<1>2. out \in [0..(N - 1) -> Int]
  BY DEF PS1!Decoded, PS1!Items
<1>3. PS1!StartsWithCode(out) /\ j = PS1!End(out, N - 1)
  BY <1>1 DEF PS1!DecodesTheCode
<1>. QED
  BY <1>2, <1>3, StartsS1

\* and returns it if there is such a tuple.
LEMMA RunS1Accepts ==
  ASSUME PS1!Faithful, NEW x \in DecS1!Encodable, NEW b \in Slices, y = b,
         Len(Code(x, N, LOW_S1)) <= b.bytes * BYTE, Shows(b.bits, 0, Code(x, N, LOW_S1))
  PROVE  pc # "none" /\ (pc = "some" => j = Len(Code(x, N, LOW_S1)))
<1>1. x \in PS1!Encodable
  BY SameS1
<1>2. x \in [0..(N - 1) -> Int]
  <2>1. \A m \in Nat : PS1!Pow2(m) = Pow2(m)
    BY DEF PS1!Pow2, Pow2
  <2>. QED
    BY <1>1, <2>1, Pow2Facts, FramingAssumption DEF PS1!Encodable, PS1!Items
<1>3. PS1!StartsWithCode(x) /\ PS1!End(x, N - 1) = Len(Code(x, N, LOW_S1))
  BY <1>2, StartsS1
<1>4. PS1!OnTrack(x)
  BY <1>1, <1>3 DEF PS1!Faithful
<1>. QED
  BY <1>3, <1>4 DEF PS1!OnTrack

(***************************************************************************)
(* The invariant: where the slice of the decoder starts, and that the next *)
(* bit of the framing is not past the end.                                 *)
(***************************************************************************)

IndInv ==
  /\ buf \in Keys \cup Signatures /\ at \in Nat
  /\ stage = "q00" => P00!IndInv /\ y = Rest(buf, 0)
  /\ stage = "q01" => /\ P01!IndInv /\ y = Rest(buf, at \div BYTE)
                      /\ at % BYTE = 0 /\ at <= BufBits
  /\ stage = "s1" => PS1!IndInv /\ SALT_LEN <= buf.bytes /\ y = Rest(buf, SALT_LEN)
  /\ stage = "extra" => at + EXTRA <= BufBits
  /\ stage \in {"pad", "tail"} => at <= BufBits

\* A byte boundary that is not past the end of b bytes.
LEMMA Boundary ==
  ASSUME NEW a \in Nat, NEW b \in Nat, a % BYTE = 0, a <= b * BYTE
  PROVE  /\ a \div BYTE \in 0..b
         /\ (b - a \div BYTE) * BYTE = b * BYTE - a
         /\ a < b * BYTE => a + BYTE <= b * BYTE
<1>1. BYTE \in Nat /\ BYTE >= 1
  BY FramingAssumption
<1> DEFINE q == a \div BYTE
<1>2. q \in Nat /\ a = q * BYTE
  BY <1>1
<1> HIDE DEF q
<1>3. q * BYTE \in Nat /\ b * BYTE \in Nat
  BY <1>1, <1>2
<1>4. q <= b
  <2>1. SUFFICES ASSUME q >= b + 1 PROVE FALSE
    BY <1>2
  <2>2. q * BYTE >= (b + 1) * BYTE
    BY <1>1, <1>2, <2>1
  <2>3. (b + 1) * BYTE = b * BYTE + BYTE
    BY <1>1
  <2>. QED
    BY <1>1, <1>2, <1>3, <2>2, <2>3
<1>5. (b - q) * BYTE = b * BYTE - q * BYTE
  BY <1>1, <1>2
<1>6. ASSUME a < b * BYTE PROVE a + BYTE <= b * BYTE
  <2>1. q # b
    BY <1>2, <1>6
  <2>2. (q + 1) * BYTE <= b * BYTE
    BY <1>1, <1>2, <1>4, <2>1
  <2>3. (q + 1) * BYTE = q * BYTE + BYTE
    BY <1>1, <1>2
  <2>. QED
    BY <1>1, <1>2, <2>2, <2>3
<1>7. q \in 0..b /\ (b - q) * BYTE = b * BYTE - a
  BY <1>2, <1>4, <1>5
<1>. QED
  BY <1>6, <1>7 DEF q

\* The invariant holds at first,
LEMMA InvInit == Init => IndInv
  BY DEF Init, IndInv

\* is kept by every step,
LEMMA InvStep == IndInv /\ [Next]_vars => IndInv'
<1> SUFFICES ASSUME IndInv, [Next]_vars PROVE IndInv'
  OBVIOUS
<1> USE DEF IndInv
<1>0. /\ buf.bytes \in Nat /\ BYTE \in Nat \ {0} /\ BufBits \in Nat /\ EXTRA \in Nat
      /\ CHUNK \in Nat /\ SALT_LEN \in Nat
      /\ buf \in Keys \cup Signatures /\ at \in Nat
  BY BufType, FramingAssumption
<1>1. CASE DecodePublic
  <2>1. CASE buf.bytes # PUBKEY_LEN
    BY <1>1, <2>1 DEF DecodePublic, Fail
  <2>2. CASE buf.bytes = PUBKEY_LEN
    BY <1>0, <1>1, <2>2, Run00Starts DEF DecodePublic
  <2>. QED
    BY <2>1, <2>2
<1>2. CASE Decode
  <2>1. UNCHANGED <<stage, buf, at>>
    BY <1>2 DEF Decode, frame
  <2>2. BufBits' = BufBits
    BY <2>1 DEF BufBits
  <2>3. CASE stage = "q00" /\ Dec00!Next
    BY <2>1, <2>2, <2>3, Run00Step DEF Rest
  <2>4. CASE stage = "q01" /\ Dec01!Next
    BY <2>1, <2>2, <2>4, Run01Step DEF Rest
  <2>5. CASE stage = "s1" /\ DecS1!Next
    BY <2>1, <2>2, <2>5, RunS1Step DEF Rest
  <2>. QED
    BY <1>2, <2>3, <2>4, <2>5 DEF Decode
<1>3. CASE DecodeFails
  BY <1>3 DEF DecodeFails, Fail
<1>4. CASE DecodedQ00
  BY <1>0, <1>4 DEF DecodedQ00, Fail, BufBits, P00!IndInv, P00!Control
<1>5. CASE ExtraBits
  BY <1>0, <1>5 DEF ExtraBits, BufBits
<1>6. CASE PadBit
  BY <1>0, <1>6 DEF PadBit, PadStep, PadFails, Fail, BufBits
<1>7. CASE Padded
  <2>1. at \div BYTE \in 0..buf.bytes
    BY <1>0, <1>7, Boundary DEF Padded, BufBits
  <2>2. P01!IndInv' /\ y' = Rest(buf, at \div BYTE)
    BY <1>0, <1>7, <2>1, Run01Starts DEF Padded
  <2>. QED
    BY <1>0, <1>7, <2>2 DEF Padded, BufBits
<1>8. CASE DecodedQ01
  <2>1. j \in Nat /\ j <= y.bytes * BYTE
    BY <1>8 DEF DecodedQ01, P01!IndInv, P01!Control, P01!LenBits
  <2>2. y.bytes = buf.bytes - at \div BYTE
    BY <1>8 DEF DecodedQ01, Rest
  <2>3. (buf.bytes - at \div BYTE) * BYTE = buf.bytes * BYTE - at
    BY <1>0, <1>8, Boundary DEF DecodedQ01, BufBits
  <2>. QED
    BY <1>0, <1>8, <2>1, <2>2, <2>3 DEF DecodedQ01, BufBits
<1>9. CASE DecodeSignature
  <2>1. CASE buf.bytes # SIGNATURE_LEN
    BY <1>9, <2>1 DEF DecodeSignature, Salted, Fail
  <2>2. CASE buf.bytes = SIGNATURE_LEN
    <3>1. SALT_LEN \in 0..buf.bytes
      BY <2>2, FramingAssumption
    <3>. QED
      BY <1>0, <1>9, <2>2, <3>1, RunS1Starts DEF DecodeSignature, Salted
  <2>. QED
    BY <2>1, <2>2
<1>10. CASE DecodedS1
  <2>1. j \in Nat /\ j <= y.bytes * BYTE
    BY <1>10 DEF DecodedS1, PS1!IndInv, PS1!Control, PS1!LenBits
  <2>2. y.bytes * BYTE = BufBits - SALT_LEN * BYTE /\ SALT_LEN * BYTE \in Nat
    BY <1>0, <1>10 DEF DecodedS1, BufBits, Rest
  <2>. QED
    BY <1>0, <1>10, <2>1, <2>2 DEF DecodedS1, BufBits
<1>11. CASE TailBit
  BY <1>0, <1>11 DEF TailBit, Scan, Fail, BufBits
<1>12. CASE TailWord
  <2>1. CHUNK * BYTE \in Nat
    BY <1>0
  <2>. QED
    BY <1>0, <1>12, <2>1 DEF TailWord, WordFits, Scan, Fail, BufBits
<1>13. CASE TailByte
  <2>1. at + BYTE <= BufBits
    BY <1>0, <1>13, Boundary DEF TailByte, MoreBytes, BufBits
  <2>. QED
    BY <1>0, <1>13, <2>1 DEF TailByte, Scan, Fail, BufBits
<1>14. CASE TailEnd
  BY <1>14 DEF TailEnd
<1>15. CASE UNCHANGED vars
  <2>1. UNCHANGED <<stage, buf, at, pc, y, i, j, z>> /\ BufBits' = BufBits
    BY <1>15 DEF vars, frame, gr, BufBits
  <2>. QED
    BY <2>1 DEF Rest, P00!IndInv, P00!Control, P00!LongEnough, P00!Items, P00!LenBits,
         P01!IndInv, P01!Control, P01!LongEnough, P01!Items, P01!LenBits,
         PS1!IndInv, PS1!Control, PS1!LongEnough, PS1!Items, PS1!LenBits
<1>. QED
  BY <1>1, <1>2, <1>3, <1>4, <1>5, <1>6, <1>7, <1>8, <1>9, <1>10, <1>11, <1>12, <1>13,
     <1>14, <1>15 DEF Next

\* and says that reads are in bounds.
LEMMA InvInBounds == IndInv => InBounds
<1> SUFFICES ASSUME IndInv PROVE InBounds
  OBVIOUS
<1>1. ASSUME stage \in {"q00", "q01", "s1"} PROVE y.bytes \in Nat
  BY <1>1, SlicesAreBuffers
     DEF IndInv, P00!IndInv, P00!Control, P01!IndInv, P01!Control, PS1!IndInv, PS1!Control
<1>. QED
  BY <1>1, Run00Step, Run01Step, RunS1Step DEF IndInv, InBounds

\* InBounds for every format and every input: no bit that decode_public,
\* decode_signature, padding_all_zero or the decoder inside them asserts to be
\* in the buffer is outside it, and no slice starts behind the end.
THEOREM ReadsInBounds == Spec => []InBounds
<1>1. Spec => []IndInv
  BY InvInit, InvStep, PTL DEF Spec
<1>. QED
  BY <1>1, InvInBounds, PTL

(***************************************************************************)
(* The framing: padding, the parts of a key and of a signature.            *)
(***************************************************************************)

\* The ring degree and its half.
LEMMA RingSizes == /\ N \in Nat /\ N > 3 /\ N \div 2 \in Nat /\ N = 2 * (N \div 2)
BY ParamsAssumption, PowerSizes

\* Padding appends zeros up to a length, and nothing beyond it.
LEMMA PadToBits ==
  ASSUME NEW s \in Seq(Int), NEW len \in Nat
  PROVE  /\ PadTo(s, len) \in Seq(Int) /\ Len(s) \in Nat
         /\ Len(PadTo(s, len)) = IF Len(s) <= len THEN len ELSE Len(s)
         /\ \A b : Shows(b, 0, PadTo(s, len))
                     <=> Shows(b, 0, s) /\ \A t \in Len(s)..(len - 1) : b[t] = 0
<1>1. Len(s) \in Nat
  OBVIOUS
<1>2. CASE Len(s) <= len
  <2> DEFINE m == len - Len(s)
             u == Zeros(m)
  <2>1. m \in Nat /\ Len(s) + m = len
    BY <1>1, <1>2
  <2>3. \A b, first : first \in Int =>
          /\ u \in Seq(Int) /\ Len(u) = m
          /\ Shows(b, first, u) <=> \A t \in 0..(m - 1) : b[first + t] = 0
    BY <2>1, ZerosShown
  <2>2. u \in Seq(Int) /\ Len(u) = m
    <3>1. 0 \in Int
      OBVIOUS
    <3> HIDE DEF u
    <3>. QED
      BY <2>3, <3>1
  <2> HIDE DEF u, m
  <2>4. s \o u \in Seq(Int) /\ Len(s \o u) = len
    BY <2>1, <2>2, Joined
  <2>5. ASSUME NEW b
        PROVE  Shows(b, 0, s \o u) <=> Shows(b, 0, s) /\ \A t \in Len(s)..(len - 1) : b[t] = 0
    <3>1. Shows(b, 0, s \o u) <=> Shows(b, 0, s) /\ Shows(b, 0 + Len(s), u)
      BY <2>2, ShowsJoined
    <3>2. Shows(b, 0 + Len(s), u) <=> \A t \in 0..(m - 1) : b[Len(s) + t] = 0
      BY <1>1, <2>3
    <3>3. /\ \A t \in 0..(m - 1) : Len(s) + t \in Len(s)..(len - 1)
          /\ \A t \in Len(s)..(len - 1) : t - Len(s) \in 0..(m - 1) /\ Len(s) + (t - Len(s)) = t
      BY <1>1, <2>1
    <3>. QED
      BY <3>1, <3>2, <3>3
  <2>. QED
    BY <1>1, <1>2, <2>4, <2>5 DEF PadTo, u, m
<1>3. CASE ~(Len(s) <= len)
  <2>1. Zeros(len - Len(s)) = << >>
    BY <1>1, <1>3 DEF Zeros
  <2>2. PadTo(s, len) = s
    BY <2>1 DEF PadTo
  <2>. QED
    BY <1>1, <1>3, <2>2
<1>. QED
  BY <1>2, <1>3

\* Whole bytes, fewer than BYTE bits more than there were.
LEMMA ToByteBits ==
  ASSUME NEW s \in Seq(Int)
  PROVE  /\ ToByte(s) \in Seq(Int) /\ Len(s) \in Nat /\ Len(ToByte(s)) \in Nat
         /\ Len(s) <= Len(ToByte(s)) /\ Len(ToByte(s)) < Len(s) + BYTE
         /\ Len(ToByte(s)) % BYTE = 0
         /\ \A b : Shows(b, 0, ToByte(s))
                     <=> Shows(b, 0, s) /\ \A t \in Len(s)..(Len(ToByte(s)) - 1) : b[t] = 0
<1> DEFINE q == (Len(s) + BYTE - 1) \div BYTE
           len == BYTE * q
<1>1. BYTE \in Nat /\ BYTE >= 1 /\ Len(s) \in Nat
  BY FramingAssumption
<1>2. q \in Nat /\ Len(s) + BYTE - 1 = BYTE * q + ((Len(s) + BYTE - 1) % BYTE)
      /\ (Len(s) + BYTE - 1) % BYTE \in 0..(BYTE - 1)
  <2>1. Len(s) + BYTE - 1 \in Nat
    BY <1>1
  <2>. QED
    BY <1>1, <2>1, DivMod
<1> HIDE DEF q
<1>3. len \in Nat /\ Len(s) <= len /\ len < Len(s) + BYTE
  BY <1>1, <1>2
<1>4. len % BYTE = 0
  <2>1. (BYTE * q + 0) % BYTE = 0
    <3>1. 0 \in 0..(BYTE - 1) /\ q \in Int
      BY <1>1, <1>2
    <3>. QED
      BY <1>1, <3>1, ModUnique
  <2>. QED
    BY <1>1, <1>2, <2>1
<1> HIDE DEF len
<1>5. ToByte(s) = PadTo(s, len)
  BY DEF ToByte, len, q
<1>. QED
  BY <1>1, <1>3, <1>4, <1>5, PadToBits

\* Reaching a byte boundary within the padding is reaching its end.
LEMMA AtTop ==
  ASSUME NEW s \in Seq(Int), NEW a \in Nat, a % BYTE = 0, Len(s) <= a, a <= Len(ToByte(s))
  PROVE  a = Len(ToByte(s))
<1> DEFINE top == Len(ToByte(s))
<1>1. BYTE \in Nat /\ BYTE >= 1
  BY FramingAssumption
<1>2. top \in Nat /\ top % BYTE = 0 /\ Len(s) \in Nat /\ top < Len(s) + BYTE
  BY ToByteBits
<1> HIDE DEF top
<1>3. SUFFICES ASSUME a < top PROVE FALSE
  BY <1>2 DEF top
<1>4. top = (top \div BYTE) * BYTE /\ top \div BYTE \in Nat
  BY <1>1, <1>2
<1>5. a + BYTE <= top
  BY <1>2, <1>3, <1>4, Boundary
<1>. QED
  BY <1>1, <1>2, <1>5

\* Bits from a byte on are the bits of the rest of the buffer.
LEMMA RestShows ==
  ASSUME NEW b, b.bytes \in Nat, NEW n \in 0..b.bytes, NEW s \in Seq(Int),
         n * BYTE + Len(s) <= b.bytes * BYTE
  PROVE  /\ Rest(b, n).bytes * BYTE = b.bytes * BYTE - n * BYTE
         /\ Shows(Rest(b, n).bits, 0, s) <=> Shows(b.bits, n * BYTE, s)
<1>1. BYTE \in Nat /\ n * BYTE \in Nat /\ b.bytes * BYTE \in Nat /\ Len(s) \in Nat
      /\ (b.bytes - n) * BYTE = b.bytes * BYTE - n * BYTE
  BY FramingAssumption
<1>2. Rest(b, n).bytes = b.bytes - n
  BY DEF Rest
<1>3. \A t \in 1..Len(s) : Rest(b, n).bits[0 + (t - 1)] = b.bits[n * BYTE + (t - 1)]
  <2>. SUFFICES ASSUME NEW t \in 1..Len(s)
                PROVE  Rest(b, n).bits[0 + (t - 1)] = b.bits[n * BYTE + (t - 1)]
    OBVIOUS
  <2>1. /\ 0 + (t - 1) = t - 1 /\ t - 1 \in 0..((b.bytes - n) * BYTE - 1)
        /\ (t - 1) + n * BYTE = n * BYTE + (t - 1)
    BY <1>1
  <2>. QED
    BY <2>1 DEF Rest
<1>. QED
  BY <1>1, <1>2, <1>3 DEF Shows

\* The first half of q00 is coded, and the extra bits of its first entry follow.
LEMMA FirstPartBits ==
  ASSUME NEW q \in [Coeffs -> Int]
  PROVE  /\ Half(q) \in [0..(N \div 2 - 1) -> Int]
         /\ Code(Half(q), N \div 2, LOW_00) \in Seq(Int)
         /\ Len(Code(Half(q), N \div 2, LOW_00)) \in Nat
         /\ FirstPart(q) \in Seq(Int)
         /\ Len(FirstPart(q)) = Len(Code(Half(q), N \div 2, LOW_00)) + EXTRA
         /\ \A b : Shows(b, 0, FirstPart(q))
              <=> /\ Shows(b, 0, Code(Half(q), N \div 2, LOW_00))
                  /\ \A t \in 0..(EXTRA - 1) : b[Len(Code(Half(q), N \div 2, LOW_00)) + t]
                                                 = ((q[0] % Pow2(EXTRA)) \div Pow2(t)) % 2
<1> DEFINE c == Code(Half(q), N \div 2, LOW_00)
           m == q[0] % Pow2(EXTRA)
           u == LowBitsOf(m, EXTRA)
<1>1. N \in Nat /\ N > 3 /\ N \div 2 \in Nat /\ N \div 2 <= N /\ EXTRA \in Nat /\ LOW_00 \in Nat
  BY ParamsAssumption, FramingAssumption
<1>2. Pow2(EXTRA) \in Nat /\ Pow2(EXTRA) > 0 /\ 0 \in Coeffs
  <2>1. 0 \in Coeffs
    BY <1>1 DEF Coeffs
  <2>. QED
    BY <1>1, <2>1, Pow2Facts
<1>3. q[0] \div Pow2(EXTRA) \in Int /\ m \in Nat
  BY <1>2, DivMod
<1>4. Half(q) \in [0..(N \div 2 - 1) -> Int]
  <2>1. \A n \in 0..(N \div 2 - 1) : n \in Coeffs
    BY <1>1 DEF Coeffs
  <2>. QED
    BY <1>3, <2>1 DEF Half
<1>5. c \in Seq(Int)
  BY <1>1, <1>4, CodeBits
<1>6. u \in Seq(Int) /\ Len(u) = EXTRA
      /\ \A b, first : first \in Int =>
           (Shows(b, first, u) <=> \A t \in 0..(EXTRA - 1) : b[first + t] = (m \div Pow2(t)) % 2)
  BY <1>1, <1>3, LowBitsShown
<1> HIDE DEF c, m, u
<1>7. c \o u \in Seq(Int) /\ Len(c \o u) = Len(c) + EXTRA /\ Len(c) \in Nat
  BY <1>5, <1>6, Joined
<1>8. ASSUME NEW b
      PROVE  Shows(b, 0, c \o u) <=> /\ Shows(b, 0, c)
                                     /\ \A t \in 0..(EXTRA - 1) : b[Len(c) + t] = (m \div Pow2(t)) % 2
  <2>1. Shows(b, 0, c \o u) <=> Shows(b, 0, c) /\ Shows(b, 0 + Len(c), u)
    BY <1>5, <1>6, ShowsJoined
  <2>2. Shows(b, 0 + Len(c), u) <=> \A t \in 0..(EXTRA - 1) : b[Len(c) + t] = (m \div Pow2(t)) % 2
    <3>1. 0 + Len(c) = Len(c) /\ Len(c) \in Int
      BY <1>7
    <3>. QED
      BY <1>6, <3>1
  <2>. QED
    BY <2>1, <2>2
<1>9. FirstPart(q) = c \o u
  BY DEF FirstPart, c, m, u
<1>. QED
  BY <1>4, <1>5, <1>7, <1>8, <1>9 DEF c, m

\* Mirroring q00 changes nothing of what is coded of it.
LEMMA MirrorFirstPart ==
  ASSUME NEW q \in [Coeffs -> Int]
  PROVE  /\ SelfAdjoint(q) \in [Coeffs -> Int] /\ FirstPart(SelfAdjoint(q)) = FirstPart(q)
         /\ \A n \in 1..(N - 1) : SelfAdjoint(q)[n] = -SelfAdjoint(q)[N - n]
<1>1. N \in Nat /\ N > 3 /\ N \div 2 \in 2..(N - 2) /\ 2 * (N \div 2) = N
  <2>1. 2 * (N \div 2) = N /\ N \in Nat /\ N > 3 /\ N \div 2 \in Nat
    BY RingSizes
  <2>. QED
    BY <2>1
<1> DEFINE p == SelfAdjoint(q)
<1>2. \A n \in Coeffs : p[n] = IF n < N \div 2 THEN q[n] ELSE IF n = N \div 2 THEN 0 ELSE -q[N - n]
  BY DEF SelfAdjoint
<1>3. p \in [Coeffs -> Int]
  <2>1. ASSUME NEW n \in Coeffs PROVE p[n] \in Int
    <3>1. CASE n < N \div 2
      BY <1>2, <3>1
    <3>2. CASE n >= N \div 2
      <4>1. n # N \div 2 => N - n \in Coeffs
        BY <1>1, <3>2 DEF Coeffs
      <4>2. ~(n < N \div 2)
        BY <1>1, <3>2 DEF Coeffs
      <4>3. n # N \div 2 => q[N - n] \in Int
        BY <4>1
      <4>. QED
        BY <1>2, <4>2, <4>3
    <3>. QED
      BY <1>1, <3>1, <3>2 DEF Coeffs
  <2>2. p = [n \in Coeffs |-> p[n]]
    BY DEF SelfAdjoint
  <2> HIDE DEF p
  <2>. QED
    BY <2>1, <2>2
<1>4. \A n \in 0..(N \div 2 - 1) : n \in Coeffs /\ p[n] = q[n]
  BY <1>1, <1>2 DEF Coeffs
<1> HIDE DEF p
<1>5. 0 \in 0..(N \div 2 - 1)
  BY <1>1
<1>6. Half(p) = Half(q) /\ p[0] = q[0]
  BY <1>4, <1>5 DEF Half
<1>7. FirstPart(p) = FirstPart(q)
  BY <1>6 DEF FirstPart
<1>8. ASSUME NEW n \in 1..(N - 1) PROVE p[n] = -p[N - n]
  <2>1. n \in Coeffs /\ N - n \in Coeffs /\ N - (N - n) = n /\ q[n] \in Int /\ q[N - n] \in Int
    BY <1>1 DEF Coeffs
  <2>2. CASE n < N \div 2
    <3>1. ~(N - n < N \div 2) /\ N - n # N \div 2
      BY <1>1, <2>2
    <3>2. p[n] = q[n] /\ p[N - n] = -q[n]
      BY <1>2, <2>1, <2>2, <3>1
    <3>. QED
      BY <2>1, <3>2
  <2>3. CASE n = N \div 2
    <3>1. N - n = n
      BY <1>1, <2>3
    <3>. QED
      BY <1>2, <2>1, <2>3, <3>1
  <2>4. CASE n > N \div 2
    <3>1. N - n < N \div 2 /\ ~(n < N \div 2) /\ n # N \div 2
      BY <1>1, <2>4
    <3>2. p[n] = -q[N - n] /\ p[N - n] = q[N - n]
      BY <1>2, <2>1, <3>1
    <3>. QED
      BY <3>2
  <2>. QED
    BY <1>1, <2>2, <2>3, <2>4
<1>. QED
  BY <1>3, <1>7, <1>8 DEF p

(***************************************************************************)
(* Canonical: what the bits before the next one say of what was decoded.   *)
(***************************************************************************)

\* The bits before the next one are s, and zeros.
Spelled(s) ==
  /\ Len(s) <= at /\ Shows(buf.bits, 0, s)
  /\ \A t \in Len(s)..(at - 1) : buf.bits[t] = 0

FirstHalf == [n \in 0..(N \div 2 - 1) |-> q00[n]]

SaltBits == SubSeq(BitSeq(buf), 1, SALT_LEN * BYTE)

CanonInv ==
  /\ call \in {"public", "signature"}
  /\ stage \in {"q00", "extra", "pad", "q01"} => call = "public"
  /\ stage = "s1" => call = "signature"
  /\ stage \notin {"called", "bad"} =>
       buf.bytes = IF call = "public" THEN PUBKEY_LEN ELSE SIGNATURE_LEN
  /\ stage = "q00" => P00!Decoded
  /\ stage = "q01" => P01!Decoded
  /\ stage = "s1" => PS1!Decoded
  /\ stage = "extra" => /\ q00 \in [Coeffs -> Int]
                        /\ at = Len(Code(FirstHalf, N \div 2, LOW_00))
                        /\ Shows(buf.bits, 0, Code(FirstHalf, N \div 2, LOW_00))
  /\ stage = "pad" => /\ q00 \in [Coeffs -> Int]
                      /\ Spelled(FirstPart(q00)) /\ at <= Len(ToByte(FirstPart(q00)))
  /\ stage \in {"q01", "tail", "good"} /\ call = "public" =>
       q00 \in [Coeffs -> Int] /\ \A n \in 1..(N - 1) : q00[n] = -q00[N - n]
  /\ stage = "q01" => /\ at = Len(ToByte(FirstPart(q00)))
                      /\ Shows(buf.bits, 0, ToByte(FirstPart(q00)))
  /\ stage \in {"tail", "good"} => out \in [Coeffs -> Int]
  /\ stage \in {"tail", "good"} /\ call = "public" => Spelled(KeyCode(q00, out))
  /\ stage \in {"tail", "good"} /\ call = "signature" => Spelled(SigCode(SaltBits, out))
  /\ stage = "good" => at = BufBits

\* A polynomial's code is a sequence.
LEMMA PolyCode ==
  ASSUME NEW p \in [Coeffs -> Int], NEW low \in Nat
  PROVE  Code(p, N, low) \in Seq(Int) /\ Len(Code(p, N, low)) \in Nat
<1>1. N \in Nat /\ \A n \in 0..(N - 1) : p[n] \in Int
  BY RingSizes DEF Coeffs
<1>2. Code(p, N, low) \in Seq(Int)
  BY <1>1, CodeBits
<1>. QED
  BY <1>2

\* q01 follows q00, from the next byte on,
LEMMA KeyCodeBits ==
  ASSUME NEW q \in [Coeffs -> Int], NEW p \in [Coeffs -> Int]
  PROVE  /\ KeyCode(q, p) \in Seq(Int) /\ Len(KeyCode(q, p)) \in Nat
         /\ Len(KeyCode(q, p)) = Len(ToByte(FirstPart(q))) + Len(Code(p, N, LOW_01))
         /\ \A b : Shows(b, 0, KeyCode(q, p))
              <=> /\ Shows(b, 0, ToByte(FirstPart(q)))
                  /\ Shows(b, Len(ToByte(FirstPart(q))), Code(p, N, LOW_01))
<1> DEFINE s == ToByte(FirstPart(q))
           u == Code(p, N, LOW_01)
<1>1. FirstPart(q) \in Seq(Int)
  BY FirstPartBits
<1>2. s \in Seq(Int) /\ Len(s) \in Nat
  BY <1>1, ToByteBits
<1>3. u \in Seq(Int) /\ Len(u) \in Nat
  BY PolyCode, FramingAssumption
<1>4. KeyCode(q, p) = s \o u
  BY DEF KeyCode
<1> HIDE DEF s, u
<1>5. s \o u \in Seq(Int) /\ Len(s \o u) = Len(s) + Len(u) /\ Len(s \o u) \in Nat
  BY <1>2, <1>3, Joined
<1>6. \A b : Shows(b, 0, s \o u) <=> Shows(b, 0, s) /\ Shows(b, Len(s), u)
  <2>1. 0 + Len(s) = Len(s) /\ 0 \in Int
    BY <1>2
  <2>2. \A b : Shows(b, 0, s \o u) <=> Shows(b, 0, s) /\ Shows(b, 0 + Len(s), u)
    BY <1>2, <1>3, <2>1, ShowsJoined
  <2>. QED
    BY <2>1, <2>2
<1>. QED
  BY <1>4, <1>5, <1>6 DEF s, u

\* as s1 follows the salt.
LEMMA SigCodeBits ==
  ASSUME NEW salt \in Seq(Int), NEW p \in [Coeffs -> Int]
  PROVE  /\ SigCode(salt, p) \in Seq(Int) /\ Len(SigCode(salt, p)) \in Nat
         /\ Len(SigCode(salt, p)) = Len(salt) + Len(Code(p, N, LOW_S1))
         /\ \A b : Shows(b, 0, SigCode(salt, p))
              <=> Shows(b, 0, salt) /\ Shows(b, Len(salt), Code(p, N, LOW_S1))
<1> DEFINE u == Code(p, N, LOW_S1)
<1>3. u \in Seq(Int) /\ Len(u) \in Nat
  BY PolyCode, FramingAssumption
<1>4. SigCode(salt, p) = salt \o u
  BY DEF SigCode
<1> HIDE DEF u
<1>5. salt \o u \in Seq(Int) /\ Len(salt \o u) = Len(salt) + Len(u) /\ Len(salt \o u) \in Nat /\ Len(salt) \in Nat
  BY <1>3, Joined
<1>6. \A b : Shows(b, 0, salt \o u) <=> Shows(b, 0, salt) /\ Shows(b, Len(salt), u)
  <2>1. 0 + Len(salt) = Len(salt) /\ 0 \in Int
    BY <1>5
  <2>2. \A b : Shows(b, 0, salt \o u) <=> Shows(b, 0, salt) /\ Shows(b, 0 + Len(salt), u)
    BY <1>3, <2>1, ShowsJoined
  <2>. QED
    BY <2>1, <2>2
<1>. QED
  BY <1>4, <1>5, <1>6 DEF u

\* The bits of the buffer are a sequence of as many integers.
LEMMA BufferBits ==
  ASSUME buf \in Keys \cup Signatures
  PROVE  /\ BufBits \in Nat /\ \A t \in 0..(BufBits - 1) : buf.bits[t] \in 0..1
         /\ BitSeq(buf) \in Seq(Int) /\ Len(BitSeq(buf)) = BufBits
         /\ \A t \in 1..BufBits : BitSeq(buf)[t] = buf.bits[t - 1]
<1>1. BufBits \in Nat
  BY BufType
<1>2. \A t \in 0..(BufBits - 1) : buf.bits[t] \in 0..1
  BY InputsAssumption DEF BufBits
<1> DEFINE e(t) == buf.bits[t - 1]
           m == BufBits
<1>3. \A t \in 1..m : e(t) \in Int
  <2>1. \A t \in 1..m : t - 1 \in 0..(m - 1)
    BY <1>1
  <2>. QED
    BY <1>2, <2>1
<1>4. BitSeq(buf) = [t \in 1..m |-> e(t)]
  BY DEF BitSeq, BufBits
<1> HIDE DEF e, m
<1>5. BitSeq(buf) \in Seq(Int) /\ Len(BitSeq(buf)) = m /\ \A t \in 1..m : BitSeq(buf)[t] = e(t)
  BY <1>1, <1>3, <1>4 DEF m
<1>. QED
  BY <1>1, <1>2, <1>5 DEF e, m

\* The salt is what a signature starts with.
LEMMA SaltShown ==
  ASSUME buf \in Keys \cup Signatures, SALT_LEN <= buf.bytes
  PROVE  /\ SaltBits \in Seq(Int) /\ Len(SaltBits) = SALT_LEN * BYTE
         /\ SALT_LEN * BYTE \in Nat /\ Shows(buf.bits, 0, SaltBits)
<1> DEFINE m == SALT_LEN * BYTE
<1>1. m \in Nat /\ m <= BufBits /\ BufBits \in Nat
  BY BufType, FramingAssumption DEF BufBits
<1>2. /\ \A t \in 1..m : BitSeq(buf)[t] \in Int /\ BitSeq(buf)[t] = buf.bits[t - 1]
  <2>1. \A t \in 1..m : t \in 1..BufBits /\ t - 1 \in 0..(BufBits - 1)
    BY <1>1
  <2>2. \A t \in 0..(BufBits - 1) : buf.bits[t] \in Int
    BY BufferBits
  <2>. QED
    BY <2>1, <2>2, BufferBits
<1>3. SaltBits = SubSeq(BitSeq(buf), 1, m)
  BY DEF SaltBits
<1> HIDE DEF m
<1>4. /\ SubSeq(BitSeq(buf), 1, m) \in Seq(Int)
      /\ Len(SubSeq(BitSeq(buf), 1, m)) = IF 1 <= m THEN m - 1 + 1 ELSE 0
      /\ \A t \in 1..(m - 1 + 1) : SubSeq(BitSeq(buf), 1, m)[t] = BitSeq(buf)[1 + t - 1]
  BY <1>1, <1>2, SubSeqProperties
<1>5. (IF 1 <= m THEN m - 1 + 1 ELSE 0) = m /\ m - 1 + 1 = m /\ \A t \in Int : 1 + t - 1 = t /\ 0 + (t - 1) = t - 1
  BY <1>1
<1>6. Len(SaltBits) = m /\ SaltBits \in Seq(Int)
  BY <1>3, <1>4, <1>5
<1>7. ASSUME NEW t \in 1..m PROVE buf.bits[0 + (t - 1)] = SaltBits[t]
  BY <1>2, <1>3, <1>4, <1>5
<1>. QED
  BY <1>1, <1>6, <1>7 DEF Shows, m

\* Once the next bit is the end, the buffer is s padded.
LEMMA WholeBuffer ==
  ASSUME buf \in Keys \cup Signatures, NEW s \in Seq(Int), Spelled(s), at = BufBits
  PROVE  BitSeq(buf) = PadTo(s, BufBits)
<1>1. BufBits \in Nat /\ Len(s) <= BufBits
  BY BufType DEF Spelled
<1>2. /\ PadTo(s, BufBits) \in Seq(Int) /\ Len(PadTo(s, BufBits)) = BufBits
      /\ Shows(buf.bits, 0, PadTo(s, BufBits))
  <2>1. Shows(buf.bits, 0, s) /\ \A t \in Len(s)..(BufBits - 1) : buf.bits[t] = 0
    BY DEF Spelled
  <2>. QED
    BY <1>1, <2>1, PadToBits
<1> DEFINE u == PadTo(s, BufBits)
<1> HIDE DEF u
<1>3. ASSUME NEW t \in 1..BufBits PROVE BitSeq(buf)[t] = u[t]
  <2>1. buf.bits[0 + (t - 1)] = u[t] /\ 0 + (t - 1) = t - 1
    BY <1>2 DEF Shows, u
  <2>. QED
    BY <2>1, BufferBits
<1>4. BitSeq(buf) \in Seq(Int) /\ Len(BitSeq(buf)) = Len(u) /\ u \in Seq(Int) /\ Len(u) = BufBits
  BY <1>2, BufferBits DEF u
<1>5. BitSeq(buf) = u
  BY <1>3, <1>4, SeqEqual
<1>. QED
  BY <1>5 DEF u

\* What is spelled stays so when more zeros follow.
LEMMA SpelledOn ==
  ASSUME IndInv, NEW s \in Seq(Int), Spelled(s), NEW n \in Nat, AllZero(at, n),
         buf' = buf, at' = at + n
  PROVE  Spelled(s)'
<1>1. at \in Nat /\ Len(s) \in Nat
  BY DEF IndInv
<1>2. \A t \in Len(s)..(at + n - 1) : t \in Len(s)..(at - 1) \/ t \in at..(at + n - 1)
  BY <1>1
<1>3. \A t \in Len(s)..(at + n - 1) : buf.bits[t] = 0
  BY <1>2 DEF Spelled, AllZero
<1>4. Len(s) <= at + n /\ Shows(buf.bits, 0, s)
  BY <1>1 DEF Spelled
<1>. QED
  BY <1>1, <1>3, <1>4 DEF Spelled

\* The three kinds of bits that are left out of the codes change nothing but
\* the index.
LEMMA CanonTail ==
  ASSUME IndInv, CanonInv, stage = "tail", NEW n \in Nat, Scan(n)
  PROVE  CanonInv'
<1>1. CASE AllZero(at, n)
  <2>1. at' = at + n /\ UNCHANGED <<call, stage, buf, q00, out>>
    BY <1>1 DEF Scan, gr
  <2>2. out \in [Coeffs -> Int]
    BY DEF CanonInv
  <2>3. ASSUME call = "public" PROVE Spelled(KeyCode(q00, out))'
    <3>1. q00 \in [Coeffs -> Int] /\ Spelled(KeyCode(q00, out))
      BY <2>3 DEF CanonInv
    <3>2. KeyCode(q00, out) \in Seq(Int)
      BY <2>2, <3>1, KeyCodeBits
    <3> DEFINE s == KeyCode(q00, out)
    <3>3. s' = s
      BY <2>1
    <3>4. \A w \in Seq(Int) : Spelled(w) => (Len(w) <= at' /\ Shows(buf'.bits, 0, w)
                                  /\ \A t \in Len(w)..(at' - 1) : buf'.bits[t] = 0)
      BY <1>1, <2>1, SpelledOn DEF Spelled
    <3>. QED
      BY <3>1, <3>2, <3>3, <3>4 DEF Spelled
  <2>4. ASSUME call = "signature" PROVE Spelled(SigCode(SaltBits, out))'
    <3>0. Spelled(SigCode(SaltBits, out)) /\ buf.bytes = SIGNATURE_LEN
      BY <2>4 DEF CanonInv
    <3>1. SaltBits \in Seq(Int)
      BY <3>0, SaltShown, FramingAssumption DEF IndInv
    <3>2. SigCode(SaltBits, out) \in Seq(Int)
      BY <2>2, <3>1, SigCodeBits
    <3> DEFINE s == SigCode(SaltBits, out)
    <3>3. s' = s
      BY <2>1 DEF SaltBits
    <3>4. \A w \in Seq(Int) : Spelled(w) => (Len(w) <= at' /\ Shows(buf'.bits, 0, w)
                                  /\ \A t \in Len(w)..(at' - 1) : buf'.bits[t] = 0)
      BY <1>1, <2>1, SpelledOn DEF Spelled
    <3>. QED
      BY <3>0, <3>2, <3>3, <3>4 DEF Spelled
  <2>. QED
    BY <2>1, <2>3, <2>4 DEF CanonInv
<1>2. CASE ~AllZero(at, n)
  BY <1>2 DEF Scan, Fail, CanonInv
<1>. QED
  BY <1>1, <1>2

\* A good end is one at the end of the buffer.
LEMMA CanonEnd ==
  ASSUME IndInv, CanonInv, stage = "tail", at >= BufBits, stage' = "good",
         UNCHANGED <<call, buf, at, q00, gr>>
  PROVE  CanonInv'
<1>1. at = BufBits
  BY BufType DEF IndInv
<1>2. UNCHANGED <<call, buf, at, q00, out, BufBits, FirstHalf, SaltBits>>
  BY DEF gr, BufBits, FirstHalf, SaltBits
<1>. QED
  BY <1>1, <1>2 DEF CanonInv, Spelled

\* The decoder of q00 has returned.
LEMMA CanonDecodedQ00 ==
  ASSUME IndInv, CanonInv, DecodedQ00
  PROVE  CanonInv'
<1>1. stage = "q00" /\ pc = "some" /\ call = "public" /\ buf.bytes = PUBKEY_LEN
  BY DEF DecodedQ00, CanonInv
<1>2. CASE BufBits < j + EXTRA
  BY <1>1, <1>2 DEF DecodedQ00, Fail, CanonInv
<1>3. CASE ~(BufBits < j + EXTRA)
  <2>1. /\ stage' = "extra" /\ at' = j /\ UNCHANGED <<call, buf, gr>>
        /\ q00' = [n \in Coeffs |-> IF n < N \div 2 THEN out[n] ELSE 0]
    BY <1>3 DEF DecodedQ00
  <2> DEFINE h == N \div 2
             c == Code(out, h, LOW_00)
  <2>2. /\ out \in [0..(h - 1) -> Int] /\ j = Len(c)
        /\ j <= y.bytes * BYTE /\ Shows(y.bits, 0, c)
    BY <1>1, Run00Returns DEF IndInv, CanonInv
  <2>3. h \in Nat /\ h <= N /\ N \in Nat
    BY RingSizes
  <2>4. q00' \in [Coeffs -> Int]
    <3>1. \A n \in Coeffs : n < h => n \in 0..(h - 1)
      BY <2>3 DEF Coeffs
    <3> HIDE DEF h
    <3>. QED
      BY <2>1, <2>2, <3>1 DEF h
  <2>5. FirstHalf' = out
    <3>1. \A n \in 0..(h - 1) : n \in Coeffs /\ n < h
      BY <2>3 DEF Coeffs
    <3>2. \A n \in 0..(h - 1) : q00'[n] = out[n]
      BY <2>1, <3>1
    <3>. QED
      BY <2>2, <3>2 DEF FirstHalf
  <2>6. Shows(buf.bits, 0, c)
    <3>1. /\ buf \in Keys \cup Signatures /\ buf.bytes \in Nat /\ y = Rest(buf, 0) /\ BYTE \in Nat
          /\ 0 \in 0..buf.bytes /\ 0 * BYTE = 0
      BY <1>1, BufType DEF IndInv
    <3>2. c \in Seq(Int)
      BY <2>2, <2>3, CodeBits, FramingAssumption
    <3>3. y.bytes * BYTE = buf.bytes * BYTE
      BY <3>1 DEF Rest
    <3> HIDE DEF c
    <3>4. 0 * BYTE + Len(c) <= buf.bytes * BYTE
      BY <2>2, <3>1, <3>2, <3>3
    <3>5. Shows(Rest(buf, 0).bits, 0, c) <=> Shows(buf.bits, 0 * BYTE, c)
      BY <3>1, <3>2, <3>4, RestShows
    <3>. QED
      BY <2>2, <3>1, <3>5
  <2>7. Code(FirstHalf, N \div 2, LOW_00)' = c
    BY <2>5
  <2> HIDE DEF c
  <2>. QED
    BY <1>1, <2>1, <2>2, <2>4, <2>6, <2>7 DEF CanonInv
<1>. QED
  BY <1>2, <1>3

\* Its extra bits are read.
LEMMA CanonExtraBits ==
  ASSUME IndInv, CanonInv, ExtraBits
  PROVE  CanonInv'
<1> DEFINE h == N \div 2
           a == Code(FirstHalf, h, LOW_00)
           g == [t \in 0..(EXTRA - 1) |-> Pow2(t) * buf.bits[at + t]]
           bb == [t \in 0..(EXTRA - 1) |-> buf.bits[at + t]]
           d == SumTo(g, EXTRA)
           m == Pow2(EXTRA)
<1>1. /\ stage = "extra" /\ stage' = "pad" /\ at' = at + EXTRA /\ UNCHANGED <<call, buf>>
      /\ q00' = [q00 EXCEPT ![0] = q00[0] * m + d]
  BY DEF ExtraBits, WithExtra, DecodeInt, gr
<1>2. /\ call = "public" /\ buf.bytes = PUBKEY_LEN /\ q00 \in [Coeffs -> Int]
      /\ at = Len(a) /\ Shows(buf.bits, 0, a) /\ at \in Nat /\ at + EXTRA <= BufBits
  BY <1>1 DEF CanonInv, IndInv
<1>3. EXTRA \in Nat /\ m \in Nat /\ m > 0
  BY Pow2Facts, FramingAssumption
<1>4. \A t \in 0..(EXTRA - 1) : bb[t] \in 0..1 /\ g[t] = Pow2(t) * bb[t] /\ bb[t] = buf.bits[at + t]
  <2>1. buf \in Keys \cup Signatures
    BY DEF IndInv
  <2>2. BufBits \in Nat /\ \A t \in 0..(BufBits - 1) : buf.bits[t] \in 0..1
    BY <2>1, BufferBits
  <2>3. \A t \in 0..(EXTRA - 1) : at + t \in 0..(BufBits - 1)
    BY <1>2, <1>3, <2>2
  <2>. QED
    BY <2>2, <2>3
<1> HIDE DEF g, bb
<1>5. d \in 0..(m - 1) /\ \A t \in 0..(EXTRA - 1) : (d \div Pow2(t)) % 2 = bb[t]
  BY <1>3, <1>4, DigitsOfSum
<1> HIDE DEF d, m
<1>6. 0 \in Coeffs /\ q00[0] \in Int /\ q00[0] * m + d \in Int
  BY <1>2, <1>3, <1>5, RingSizes DEF Coeffs
<1>7. q00' \in [Coeffs -> Int] /\ q00'[0] = q00[0] * m + d
      /\ \A n \in Coeffs : n # 0 => q00'[n] = q00[n]
  BY <1>1, <1>2, <1>6
<1>8. q00'[0] \div m = q00[0] /\ q00'[0] % m = d
  <2>1. q00[0] * m + d = m * q00[0] + d
    BY <1>3, <1>6
  <2>2. (m * q00[0] + d) % m = d /\ (m * q00[0] + d) \div m = q00[0]
    BY <1>3, <1>5, <1>6, DivUnique
  <2>. QED
    BY <1>7, <2>1, <2>2
<1>9. Half(q00') = FirstHalf
  <2>1. \A n \in 0..(h - 1) : n \in Coeffs
    BY RingSizes DEF Coeffs
  <2>. QED
    BY <1>7, <1>8, <2>1 DEF Half, FirstHalf, m
<1> DEFINE s == FirstPart(q00')
<1>10. /\ s \in Seq(Int) /\ Len(s) = Len(a) + EXTRA
       /\ Shows(buf.bits, 0, s) <=> /\ Shows(buf.bits, 0, a)
                                    /\ \A t \in 0..(EXTRA - 1) :
                                         buf.bits[Len(a) + t] = ((q00'[0] % m) \div Pow2(t)) % 2
  <2>1. \A q \in [Coeffs -> Int] : Half(q) = FirstHalf =>
           /\ FirstPart(q) \in Seq(Int) /\ Len(FirstPart(q)) = Len(a) + EXTRA
           /\ Shows(buf.bits, 0, FirstPart(q))
                <=> /\ Shows(buf.bits, 0, a)
                    /\ \A t \in 0..(EXTRA - 1) :
                         buf.bits[Len(a) + t] = ((q[0] % m) \div Pow2(t)) % 2
    BY FirstPartBits DEF m
  <2> HIDE DEF a
  <2>. QED
    BY <1>7, <1>9, <2>1
<1> HIDE DEF a
<1>11. Shows(buf.bits, 0, s) /\ Len(s) = at + EXTRA
  BY <1>2, <1>4, <1>5, <1>8, <1>10
<1>12. Len(s) <= Len(ToByte(s))
  BY <1>10, ToByteBits
<1>13. FirstPart(q00)' = s /\ ToByte(FirstPart(q00))' = ToByte(s)
  OBVIOUS
<1> HIDE DEF s
<1>14. Spelled(FirstPart(q00))' /\ (at <= Len(ToByte(FirstPart(q00))))'
  <2>1. Len(s) = at' /\ ~(Len(s) <= at' - 1) /\ at' \in Nat
    BY <1>1, <1>2, <1>3, <1>11
  <2>2. Shows(buf'.bits, 0, s) /\ Len(s) <= at' /\ \A t \in Len(s)..(at' - 1) : FALSE
    BY <1>1, <1>11, <2>1
  <2>3. Spelled(FirstPart(q00))'
    BY <1>13, <2>2 DEF Spelled
  <2>. QED
    BY <1>12, <1>13, <2>1, <2>3
<1>15. CanonInv'
  BY <1>1, <1>2, <1>7, <1>14 DEF CanonInv
<1>. QED
  BY <1>15

\* A zero bit of the padding is read, short of the next byte.
LEMMA CanonPadBit ==
  ASSUME IndInv, CanonInv, PadBit
  PROVE  CanonInv'
<1>1. stage = "pad" /\ at % BYTE # 0
  BY DEF PadBit, PadStep
<1>2. CASE PadFails
  BY <1>1, <1>2 DEF PadBit, PadStep, Fail, CanonInv
<1>3. CASE ~PadFails
  <2> DEFINE s == FirstPart(q00)
             top == Len(ToByte(s))
  <2>1. at' = at + 1 /\ UNCHANGED <<call, stage, buf, q00>> /\ buf.bits[at] = 0
    BY <1>1, <1>3 DEF PadBit, PadStep, PadFails
  <2>2. q00 \in [Coeffs -> Int] /\ Spelled(s) /\ at <= top
    BY <1>1 DEF CanonInv
  <2>3. s \in Seq(Int)
    BY <2>2, FirstPartBits
  <2>4. top \in Nat /\ top % BYTE = 0
    BY <2>3, ToByteBits
  <2> HIDE DEF top
  <2>5. at + 1 <= top
    <3>1. at # top
      BY <1>1, <2>4
    <3>. QED
      BY <2>2, <2>4, <3>1 DEF IndInv
  <2>6. AllZero(at, 1)
    <3>1. at..(at + 1 - 1) = {at}
      BY DEF IndInv
    <3>. QED
      BY <2>1, <3>1 DEF AllZero
  <2>7. FirstPart(q00)' = s /\ Len(ToByte(FirstPart(q00)))' = top
    BY <2>1 DEF top
  <2> HIDE DEF s
  <2>8. Spelled(FirstPart(q00))'
    <3>1. \A w \in Seq(Int) : Spelled(w) => (Len(w) <= at' /\ Shows(buf'.bits, 0, w)
                                  /\ \A t \in Len(w)..(at' - 1) : buf'.bits[t] = 0)
      <4>1. 1 \in Nat
        OBVIOUS
      <4>. QED
        BY <2>1, <2>6, <4>1, SpelledOn DEF Spelled
    <3>. QED
      BY <2>2, <2>3, <2>7, <3>1 DEF Spelled
  <2>. QED
    BY <1>1, <2>1, <2>2, <2>5, <2>7, <2>8 DEF CanonInv
<1>. QED
  BY <1>2, <1>3

\* At the next byte q00 is mirrored and the decoder started on q01.
LEMMA CanonPadded ==
  ASSUME IndInv, CanonInv, Padded
  PROVE  CanonInv'
<1> DEFINE s == FirstPart(q00)
           top == Len(ToByte(s))
<1>1. /\ stage = "pad" /\ at % BYTE = 0 /\ stage' = "q01" /\ UNCHANGED <<call, buf, at>>
      /\ q00' = SelfAdjoint(q00) /\ Decompress(at \div BYTE, N)
  BY DEF Padded
<1>2. q00 \in [Coeffs -> Int] /\ Spelled(s) /\ at <= top /\ at \in Nat /\ call = "public" /\ buf.bytes = PUBKEY_LEN
  BY <1>1 DEF CanonInv, IndInv
<1>3. s \in Seq(Int)
  BY <1>2, FirstPartBits
<1>4. /\ top \in Nat /\ top % BYTE = 0 /\ Len(s) \in Nat /\ top < Len(s) + BYTE
      /\ Shows(buf.bits, 0, ToByte(s))
             <=> Shows(buf.bits, 0, s) /\ \A t \in Len(s)..(top - 1) : buf.bits[t] = 0
  BY <1>3, ToByteBits
<1>5. at = top
  BY <1>1, <1>2, <1>3, AtTop DEF Spelled
<1>6. Shows(buf.bits, 0, ToByte(s))
  BY <1>2, <1>4, <1>5 DEF Spelled
<1>7. /\ q00' \in [Coeffs -> Int] /\ \A n \in 1..(N - 1) : q00'[n] = -q00'[N - n]
      /\ FirstPart(q00') = s
  BY <1>1, <1>2, MirrorFirstPart
<1>8. ToByte(FirstPart(q00))' = ToByte(s)
  BY <1>7
<1>9. at \div BYTE \in 0..buf.bytes
  <2>1. buf.bytes \in Nat /\ at <= buf.bytes * BYTE
    BY <1>1, BufType DEF IndInv, BufBits
  <2>. QED
    BY <1>1, <1>2, <2>1, Boundary
<1>10. P01!Decoded'
  BY <1>1, <1>9, Run01Starts DEF IndInv
<1> HIDE DEF s, top
<1>11. at' = Len(ToByte(FirstPart(q00))') /\ Shows(buf'.bits, 0, ToByte(FirstPart(q00))')
  BY <1>1, <1>5, <1>6, <1>8 DEF top
<1>. QED
  BY <1>1, <1>2, <1>7, <1>10, <1>11 DEF CanonInv

\* The decoder of q01 has returned.
LEMMA CanonDecodedQ01 ==
  ASSUME IndInv, CanonInv, DecodedQ01
  PROVE  CanonInv'
<1> DEFINE s == ToByte(FirstPart(q00))
           c == Code(out, N, LOW_01)
           n == at \div BYTE
<1>1. /\ stage = "q01" /\ pc = "some" /\ stage' = "tail" /\ at' = at + j
      /\ UNCHANGED <<call, buf, q00, out>>
  BY DEF DecodedQ01, gr
<1>2. /\ call = "public" /\ buf.bytes = PUBKEY_LEN /\ q00 \in [Coeffs -> Int]
      /\ \A t \in 1..(N - 1) : q00[t] = -q00[N - t]
      /\ at = Len(s) /\ Shows(buf.bits, 0, s)
      /\ P01!IndInv /\ P01!Decoded /\ y = Rest(buf, n) /\ at \in Nat /\ at % BYTE = 0 /\ at <= BufBits
  BY <1>1 DEF CanonInv, IndInv
<1>3. /\ out \in [Coeffs -> Int] /\ j = Len(c)
      /\ j <= y.bytes * BYTE /\ Shows(y.bits, 0, c)
  BY <1>1, <1>2, Run01Returns DEF Coeffs
<1>4. c \in Seq(Int) /\ Len(c) \in Nat
  BY <1>3, PolyCode, FramingAssumption
<1>5. n \in 0..buf.bytes /\ n * BYTE = at /\ buf.bytes \in Nat /\ (buf.bytes - n) * BYTE = buf.bytes * BYTE - at
  <2>1. buf.bytes \in Nat /\ at <= buf.bytes * BYTE /\ BYTE \in Nat /\ BYTE >= 1
    BY <1>2, BufType, FramingAssumption DEF IndInv, BufBits
  <2>2. at = BYTE * n + 0 /\ n \in Int
    BY <1>2, <2>1, DivMod
  <2>3. n \in 0..buf.bytes /\ (buf.bytes - n) * BYTE = buf.bytes * BYTE - at
    BY <1>2, <2>1, Boundary
  <2> HIDE DEF n
  <2>. QED
    BY <2>1, <2>2, <2>3
<1> HIDE DEF s, c, n
<1>6. Shows(buf.bits, at, c)
  <2>1. y.bytes * BYTE = buf.bytes * BYTE - at /\ buf.bytes * BYTE \in Nat
    <3>1. y.bytes = buf.bytes - n
      BY <1>2 DEF Rest
    <3>2. buf.bytes * BYTE \in Nat
      BY <1>5, FramingAssumption
    <3>. QED
      BY <1>5, <3>1, <3>2
  <2>2. n * BYTE + Len(c) <= buf.bytes * BYTE
    BY <1>2, <1>3, <1>4, <1>5, <2>1
  <2>3. Shows(Rest(buf, n).bits, 0, c) <=> Shows(buf.bits, n * BYTE, c)
    BY <1>4, <1>5, <2>2, RestShows
  <2>. QED
    BY <1>2, <1>3, <1>5, <2>3
<1>7. KeyCode(q00, out) \in Seq(Int) /\ Len(KeyCode(q00, out)) = at + j /\ Shows(buf.bits, 0, KeyCode(q00, out))
  <2>1. /\ KeyCode(q00, out) \in Seq(Int)
        /\ Len(KeyCode(q00, out)) = Len(s) + Len(c)
        /\ \A b : Shows(b, 0, KeyCode(q00, out)) <=> Shows(b, 0, s) /\ Shows(b, Len(s), c)
    BY <1>2, <1>3, KeyCodeBits DEF s, c
  <2>. QED
    BY <1>2, <1>3, <1>6, <2>1
<1>8. KeyCode(q00, out)' = KeyCode(q00, out)
  BY <1>1
<1> DEFINE k == KeyCode(q00, out)
<1> HIDE DEF k
<1>9. Len(k) <= at' /\ Shows(buf'.bits, 0, k) /\ \A t \in Len(k)..(at' - 1) : buf'.bits[t] = 0
  <2>1. at' = at + j /\ Len(k) = at + j /\ at + j \in Nat /\ ~(Len(k) <= at' - 1)
    BY <1>1, <1>2, <1>3, <1>4, <1>7 DEF k
  <2>. QED
    BY <1>1, <1>7, <2>1 DEF k
<1>10. Spelled(KeyCode(q00, out))'
  BY <1>8, <1>9 DEF Spelled, k
<1>. QED
  BY <1>1, <1>2, <1>3, <1>10 DEF CanonInv

\* The decoder of s1 has returned.
LEMMA CanonDecodedS1 ==
  ASSUME IndInv, CanonInv, DecodedS1
  PROVE  CanonInv'
<1> DEFINE c == Code(out, N, LOW_S1)
           m == SALT_LEN * BYTE
<1>1. /\ stage = "s1" /\ pc = "some" /\ stage' = "tail" /\ at' = j + m
      /\ UNCHANGED <<call, buf, q00, out>>
  BY DEF DecodedS1, gr
<1>2. /\ call = "signature" /\ buf.bytes = SIGNATURE_LEN
      /\ PS1!IndInv /\ PS1!Decoded /\ y = Rest(buf, SALT_LEN) /\ SALT_LEN <= buf.bytes
      /\ buf \in Keys \cup Signatures
  BY <1>1 DEF CanonInv, IndInv
<1>3. /\ out \in [Coeffs -> Int] /\ j = Len(c)
      /\ j <= y.bytes * BYTE /\ Shows(y.bits, 0, c)
  BY <1>1, <1>2, RunS1Returns DEF Coeffs
<1>4. c \in Seq(Int) /\ Len(c) \in Nat
  BY <1>3, PolyCode, FramingAssumption
<1>5. SaltBits \in Seq(Int) /\ Len(SaltBits) = m /\ m \in Nat /\ Shows(buf.bits, 0, SaltBits)
  BY <1>2, SaltShown
<1>6. Shows(buf.bits, m, c)
  <2>1. SALT_LEN \in 0..buf.bytes /\ buf.bytes \in Nat /\ buf.bytes * BYTE \in Nat /\ BYTE \in Nat
    BY <1>2, BufType, FramingAssumption
  <2>2. y.bytes * BYTE = buf.bytes * BYTE - m
    BY <1>2, <2>1, FramingAssumption DEF Rest
  <2> HIDE DEF c
  <2>3. SALT_LEN * BYTE + Len(c) <= buf.bytes * BYTE
    BY <1>3, <1>4, <1>5, <2>1, <2>2
  <2>4. Shows(Rest(buf, SALT_LEN).bits, 0, c) <=> Shows(buf.bits, SALT_LEN * BYTE, c)
    BY <1>4, <2>1, <2>3, RestShows
  <2>. QED
    BY <1>2, <1>3, <2>4
<1> DEFINE k == SigCode(SaltBits, out)
<1>7. k \in Seq(Int) /\ Len(k) = m + j /\ Shows(buf.bits, 0, k)
  <2>1. /\ k \in Seq(Int) /\ Len(k) = Len(SaltBits) + Len(c)
        /\ \A b : Shows(b, 0, k) <=> Shows(b, 0, SaltBits) /\ Shows(b, Len(SaltBits), c)
    BY <1>3, <1>5, SigCodeBits
  <2> HIDE DEF c, k, m
  <2>. QED
    BY <1>3, <1>5, <1>6, <2>1
<1>8. SigCode(SaltBits, out)' = k
  BY <1>1 DEF SaltBits
<1> HIDE DEF k, c, m
<1>9. Len(k) <= at' /\ Shows(buf'.bits, 0, k) /\ \A t \in Len(k)..(at' - 1) : buf'.bits[t] = 0
  <2>1. at' = j + m /\ Len(k) = j + m /\ ~(Len(k) <= at' - 1)
    BY <1>1, <1>3, <1>4, <1>5, <1>7
  <2>. QED
    BY <1>1, <1>3, <1>4, <1>5, <1>7, <2>1
<1>10. Spelled(SigCode(SaltBits, out))'
  BY <1>8, <1>9 DEF Spelled
<1>. QED
  BY <1>1, <1>2, <1>3, <1>10 DEF CanonInv

\* The invariant of the framing holds at first,
LEMMA CanonInit == Init => CanonInv
  BY DEF Init, CanonInv

\* is kept by every step,
LEMMA CanonStep == IndInv /\ CanonInv /\ [Next]_vars => CanonInv'
<1> SUFFICES ASSUME IndInv, CanonInv, [Next]_vars PROVE CanonInv'
  OBVIOUS
<1>1. CASE DecodePublic
  <2>1. CASE buf.bytes # PUBKEY_LEN
    BY <1>1, <2>1 DEF DecodePublic, Fail, CanonInv
  <2>2. CASE buf.bytes = PUBKEY_LEN
    <3>1. /\ call = "public" /\ stage' = "q00" /\ UNCHANGED <<call, buf>> /\ Decompress(0, N \div 2)
      BY <1>1, <2>2 DEF DecodePublic
    <3>2. 0 \in 0..buf.bytes /\ buf \in Keys \cup Signatures
      BY BufType DEF IndInv
    <3>3. P00!Decoded'
      BY <3>1, <3>2, Run00Starts
    <3>. QED
      BY <2>2, <3>1, <3>3 DEF CanonInv
  <2>. QED
    BY <2>1, <2>2
<1>2. CASE DecodeSignature
  <2>1. CASE buf.bytes # SIGNATURE_LEN
    BY <1>2, <2>1 DEF DecodeSignature, Salted, Fail, CanonInv
  <2>2. CASE buf.bytes = SIGNATURE_LEN
    <3>1. /\ call = "signature" /\ stage' = "s1" /\ UNCHANGED <<call, buf>> /\ Decompress(SALT_LEN, N)
      BY <1>2, <2>2 DEF DecodeSignature, Salted
    <3>2. SALT_LEN \in 0..buf.bytes /\ buf \in Keys \cup Signatures
      BY <2>2, FramingAssumption DEF IndInv
    <3>3. PS1!Decoded'
      BY <3>1, <3>2, RunS1Starts
    <3>. QED
      BY <2>2, <3>1, <3>3 DEF CanonInv
  <2>. QED
    BY <2>1, <2>2
<1>3. CASE Decode
  <2>1. UNCHANGED <<call, stage, buf, at, q00>>
    BY <1>3 DEF Decode, frame
  <2>2. stage \in {"q00", "q01", "s1"}
    BY <1>3 DEF Decode
  <2>3. stage = "q00" => P00!Decoded'
    BY <1>3, Run00Step DEF Decode, IndInv, CanonInv
  <2>4. stage = "q01" => P01!Decoded'
    BY <1>3, Run01Step DEF Decode, IndInv, CanonInv
  <2>5. stage = "s1" => PS1!Decoded'
    BY <1>3, RunS1Step DEF Decode, IndInv, CanonInv
  <2>. QED
    BY <2>1, <2>2, <2>3, <2>4, <2>5 DEF CanonInv
<1>4. CASE DecodeFails
  BY <1>4 DEF DecodeFails, Fail, CanonInv
<1>5. CASE TailBit
  <2>1. CASE at < BufBits
    <3>1. Scan(1) /\ stage = "tail" /\ 1 \in Nat
      BY <1>5, <2>1 DEF TailBit
    <3>. QED
      BY <3>1, CanonTail
  <2>2. CASE ~(at < BufBits)
    <3>1. stage = "tail" /\ at >= BufBits /\ stage' = "good" /\ UNCHANGED <<call, buf, at, q00, gr>>
      BY <1>5, <2>2, BufType DEF TailBit, IndInv
    <3>. QED
      BY <3>1, CanonEnd
  <2>. QED
    BY <2>1, <2>2
<1>6. CASE TailWord
  <2>1. Scan(CHUNK * BYTE) /\ stage = "tail" /\ CHUNK * BYTE \in Nat
    BY <1>6, FramingAssumption DEF TailWord
  <2>. QED
    BY <2>1, CanonTail
<1>7. CASE TailByte
  <2>1. Scan(BYTE) /\ stage = "tail" /\ BYTE \in Nat
    BY <1>7, FramingAssumption DEF TailByte
  <2>. QED
    BY <2>1, CanonTail
<1>8. CASE TailEnd
  <2>1. stage = "tail" /\ at >= BufBits /\ stage' = "good" /\ UNCHANGED <<call, buf, at, q00, gr>>
    BY <1>8, BufType DEF TailEnd, MoreBytes, IndInv
  <2>. QED
    BY <2>1, CanonEnd
<1>9. CASE UNCHANGED vars
  <2>1. UNCHANGED <<call, stage, buf, at, q00, pc, y, i, j, z, out>>
    BY <1>9 DEF vars, frame, gr
  <2>2. UNCHANGED <<FirstHalf, SaltBits, BufBits>>
    BY <2>1 DEF FirstHalf, SaltBits, BufBits
  <2>3. /\ stage = "q00" => P00!Decoded'
        /\ stage = "q01" => P01!Decoded'
        /\ stage = "s1" => PS1!Decoded'
    BY <2>1, Sizes, P00!DecodedStep, P01!DecodedStep, PS1!DecodedStep
       DEF P00!vars, P01!vars, PS1!vars, IndInv, CanonInv
  <2>. QED
    BY <2>1, <2>2, <2>3 DEF CanonInv, Spelled
<1>. QED
  BY <1>1, <1>2, <1>3, <1>4, <1>5, <1>6, <1>7, <1>8, <1>9, CanonDecodedQ00, CanonExtraBits,
     CanonPadBit, CanonPadded, CanonDecodedQ01, CanonDecodedS1 DEF Next

\* and says that what is accepted is an encoding.
LEMMA CanonIsCanonical == IndInv /\ CanonInv => Canonical
<1> SUFFICES ASSUME IndInv, CanonInv, stage = "good" PROVE Canonical
  BY DEF Canonical
<1>1. buf \in Keys \cup Signatures /\ at = BufBits /\ out \in [Coeffs -> Int] /\ call \in {"public", "signature"}
  BY DEF IndInv, CanonInv
<1>2. ASSUME call = "public"
      PROVE  BitSeq(buf) = KeyBits(q00, out) /\ \A n \in 1..(N - 1) : q00[n] = -q00[N - n]
  <2>1. /\ q00 \in [Coeffs -> Int] /\ \A n \in 1..(N - 1) : q00[n] = -q00[N - n]
        /\ Spelled(KeyCode(q00, out)) /\ buf.bytes = PUBKEY_LEN
    BY <1>2 DEF CanonInv
  <2>2. KeyCode(q00, out) \in Seq(Int)
    BY <1>1, <2>1, KeyCodeBits
  <2>3. BitSeq(buf) = PadTo(KeyCode(q00, out), BufBits)
    BY <1>1, <2>1, <2>2, WholeBuffer
  <2>4. BufBits = PUBKEY_LEN * BYTE
    BY <2>1 DEF BufBits
  <2>. QED
    BY <2>1, <2>3, <2>4 DEF KeyBits
<1>3. ASSUME call = "signature"
      PROVE  BitSeq(buf) = SigBits(SubSeq(BitSeq(buf), 1, SALT_LEN * BYTE), out)
  <2>1. Spelled(SigCode(SaltBits, out)) /\ buf.bytes = SIGNATURE_LEN
    BY <1>3 DEF CanonInv
  <2>2. SaltBits \in Seq(Int)
    BY <1>1, <2>1, SaltShown, FramingAssumption
  <2>3. SigCode(SaltBits, out) \in Seq(Int)
    BY <1>1, <2>2, SigCodeBits
  <2>4. BitSeq(buf) = PadTo(SigCode(SaltBits, out), BufBits)
    BY <1>1, <2>1, <2>3, WholeBuffer
  <2>5. BufBits = SIGNATURE_LEN * BYTE
    BY <2>1 DEF BufBits
  <2>. QED
    BY <2>4, <2>5 DEF SigBits, SaltBits
<1>. QED
  BY <1>1, <1>2, <1>3 DEF Canonical

\* Canonical for every format and every input: what decode_public and
\* decode_signature accept is, bit for bit, the encoding of what they return, so
\* that no key and no signature has a second encoding.
THEOREM OneEncoding == Spec => []Canonical
<1>1. Spec => []IndInv
  BY InvInit, InvStep, PTL DEF Spec
<1>2. Spec => []CanonInv
  BY <1>1, CanonInit, CanonStep, PTL DEF Spec
<1>. QED
  BY <1>1, <1>2, CanonIsCanonical, PTL

(***************************************************************************)
(* AcceptsEncodings: where the decoder is when it runs on an encoding.     *)
(***************************************************************************)

IsKey(q, p) ==
  Len(KeyBits(q, p)) = PUBKEY_LEN * BYTE /\ buf = AsBuffer(KeyBits(q, p))

IsSig(t, x) ==
  Len(SigBits(t, x)) = SIGNATURE_LEN * BYTE /\ buf = AsBuffer(SigBits(t, x))

KeyTrack(q, p) ==
  /\ stage # "bad"
  /\ stage = "extra" => at = Len(Code(Half(q), N \div 2, LOW_00))
  /\ stage = "pad" => Len(FirstPart(q)) <= at /\ at <= Len(ToByte(FirstPart(q)))
  /\ stage = "q01" => at = Len(ToByte(FirstPart(q)))
  /\ stage = "tail" => at >= Len(KeyCode(q, p))

SigTrack(t, x) ==
  /\ stage # "bad"
  /\ stage = "tail" => at >= Len(SigCode(t, x))

AcceptInv ==
  /\ stage = "q00" => P00!Faithful
  /\ stage = "q01" => P01!Faithful
  /\ stage = "s1" => PS1!Faithful
  /\ call = "public" => \A q \in Sampled00, p \in Sampled01 : IsKey(q, p) => KeyTrack(q, p)
  /\ call = "signature" => \A t \in Salts, x \in SampledS1 : IsSig(t, x) => SigTrack(t, x)

\* A tuple that the format has room for is a polynomial.
LEMMA EncodableTyped ==
  /\ \A x \in Dec01!Encodable : x \in [Coeffs -> Int]
  /\ \A x \in DecS1!Encodable : x \in [Coeffs -> Int]
<1>1. \A m \in Nat : Dec01!Pow2(m) = Pow2(m) /\ DecS1!Pow2(m) = Pow2(m)
  BY DEF Dec01!Pow2, DecS1!Pow2, Pow2
<1>. QED
  <2>1. HIGH_01 \in Nat /\ HIGH_S1 \in Nat
    BY FramingAssumption
  <2>2. Pow2(HIGH_01) \in Nat /\ Pow2(HIGH_S1) \in Nat
    BY <2>1, Pow2Facts
  <2>3. /\ Dec01!Encodable = [Coeffs -> -Pow2(HIGH_01)..(Pow2(HIGH_01) - 1)]
        /\ DecS1!Encodable = [Coeffs -> -Pow2(HIGH_S1)..(Pow2(HIGH_S1) - 1)]
    BY <1>1, <2>1 DEF Dec01!Encodable, Dec01!Items, DecS1!Encodable, DecS1!Items, Coeffs
  <2>4. /\ -Pow2(HIGH_01)..(Pow2(HIGH_01) - 1) \subseteq Int
        /\ -Pow2(HIGH_S1)..(Pow2(HIGH_S1) - 1) \subseteq Int
    BY <2>2
  <2>. QED
    BY <2>3, <2>4

\* A buffer made of a padded sequence that fits shows it, and zeros.
LEMMA PaddedBuffer ==
  ASSUME NEW s \in Seq(Int), NEW len \in Nat, Len(PadTo(s, len * BYTE)) = len * BYTE,
         buf = AsBuffer(PadTo(s, len * BYTE))
  PROVE  /\ buf.bytes = len /\ BufBits = len * BYTE /\ BufBits \in Nat
         /\ Len(s) \in Nat /\ Len(s) <= BufBits /\ Shows(buf.bits, 0, s)
         /\ \A t \in Len(s)..(BufBits - 1) : buf.bits[t] = 0
<1> DEFINE m == len * BYTE
           u == PadTo(s, m)
<1>1. BYTE \in Nat /\ BYTE >= 1 /\ m \in Nat
  BY FramingAssumption
<1>2. m \div BYTE = len
  <2>1. 0 \in 0..(BYTE - 1) /\ BYTE * len + 0 = m
    BY <1>1
  <2>2. (BYTE * len + 0) \div BYTE = len
    BY <1>1, <2>1, DivUnique
  <2>. QED
    BY <2>1, <2>2
<1>3. /\ u \in Seq(Int) /\ Len(s) \in Nat /\ Len(u) = (IF Len(s) <= m THEN m ELSE Len(s))
      /\ \A b : Shows(b, 0, u) <=> Shows(b, 0, s) /\ \A t \in Len(s)..(m - 1) : b[t] = 0
  BY <1>1, PadToBits
<1> HIDE DEF u
<1>4. buf.bytes = len /\ BufBits = m /\ buf.bits = [t \in 0..(m - 1) |-> u[t + 1]]
  BY <1>1, <1>2 DEF AsBuffer, BufBits, u
<1>5. Shows(buf.bits, 0, u)
  <2>1. ASSUME NEW t \in 1..m PROVE buf.bits[0 + (t - 1)] = u[t]
    <3>1. 0 + (t - 1) \in 0..(m - 1) /\ (0 + (t - 1)) + 1 = t
      BY <1>1
    <3> HIDE DEF m
    <3>. QED
      BY <1>4, <3>1
  <2>2. Len(u) = m
    BY DEF u
  <2>. QED
    BY <2>1, <2>2 DEF Shows
<1>6. Len(s) <= m
  <2>1. Len(u) = m
    BY DEF u
  <2>. QED
    BY <1>1, <1>3, <2>1
<1>. QED
  BY <1>1, <1>3, <1>4, <1>5, <1>6

\* What a buffer shows that is the encoding of a key.
LEMMA KeyFacts ==
  ASSUME NEW q \in Sampled00, NEW p \in Sampled01, IsKey(q, p)
  PROVE  /\ q \in [Coeffs -> Int] /\ p \in [Coeffs -> Int]
         /\ Half(q) \in Dec00!Encodable /\ p \in Dec01!Encodable
         /\ buf.bytes = PUBKEY_LEN /\ BufBits \in Nat
         /\ Len(KeyCode(q, p)) <= BufBits /\ Shows(buf.bits, 0, KeyCode(q, p))
         /\ \A t \in Len(KeyCode(q, p))..(BufBits - 1) : buf.bits[t] = 0
<1>1. q \in [Coeffs -> Int] /\ Half(q) \in Dec00!Encodable /\ p \in Dec01!Encodable
  BY SampleAssumption
<1>2. p \in [Coeffs -> Int]
  BY <1>1, EncodableTyped
<1>3. KeyCode(q, p) \in Seq(Int) /\ PUBKEY_LEN \in Nat
  BY <1>1, <1>2, KeyCodeBits, FramingAssumption
<1> DEFINE s == KeyCode(q, p)
<1>4. Len(PadTo(s, PUBKEY_LEN * BYTE)) = PUBKEY_LEN * BYTE /\ buf = AsBuffer(PadTo(s, PUBKEY_LEN * BYTE))
  BY DEF IsKey, KeyBits
<1> HIDE DEF s
<1>5. s \in Seq(Int)
  BY <1>3 DEF s
<1>6. /\ buf.bytes = PUBKEY_LEN /\ BufBits \in Nat
      /\ Len(s) <= BufBits /\ Shows(buf.bits, 0, s)
      /\ \A t \in Len(s)..(BufBits - 1) : buf.bits[t] = 0
  BY <1>3, <1>4, <1>5, PaddedBuffer
<1>. QED
  BY <1>1, <1>2, <1>6 DEF s

\* What it shows of the parts of the key.
LEMMA KeyParts ==
  ASSUME NEW q \in Sampled00, NEW p \in Sampled01, IsKey(q, p)
  PROVE  LET c == Code(Half(q), N \div 2, LOW_00)
             f == FirstPart(q)
             s == ToByte(f)
             u == Code(p, N, LOW_01)
         IN  /\ c \in Seq(Int) /\ Len(c) \in Nat /\ Shows(buf.bits, 0, c)
             /\ f \in Seq(Int) /\ Len(f) = Len(c) + EXTRA /\ Len(f) <= Len(s)
             /\ Len(s) \in Nat /\ Len(s) % BYTE = 0
             /\ \A t \in Len(f)..(Len(s) - 1) : buf.bits[t] = 0
             /\ u \in Seq(Int) /\ Len(u) \in Nat /\ Shows(buf.bits, Len(s), u)
             /\ Len(KeyCode(q, p)) = Len(s) + Len(u) /\ Len(s) + Len(u) <= BufBits
             /\ Len(KeyCode(q, p)) \in Nat
<1> DEFINE c == Code(Half(q), N \div 2, LOW_00)
           f == FirstPart(q)
           s == ToByte(f)
           u == Code(p, N, LOW_01)
<1>1. /\ q \in [Coeffs -> Int] /\ p \in [Coeffs -> Int]
      /\ Len(KeyCode(q, p)) <= BufBits /\ Shows(buf.bits, 0, KeyCode(q, p))
  BY KeyFacts
<1>2. /\ Len(KeyCode(q, p)) = Len(s) + Len(u) /\ Len(KeyCode(q, p)) \in Nat
      /\ Shows(buf.bits, 0, s) /\ Shows(buf.bits, Len(s), u)
  BY <1>1, KeyCodeBits
<1>3. f \in Seq(Int) /\ c \in Seq(Int) /\ Len(c) \in Nat /\ Len(f) = Len(c) + EXTRA
      /\ (Shows(buf.bits, 0, f) => Shows(buf.bits, 0, c))
  BY <1>1, FirstPartBits
<1>4. /\ Len(s) \in Nat /\ Len(f) <= Len(s) /\ Len(s) % BYTE = 0
      /\ Shows(buf.bits, 0, s) <=> Shows(buf.bits, 0, f) /\ \A t \in Len(f)..(Len(s) - 1) : buf.bits[t] = 0
  BY <1>3, ToByteBits
<1>5. u \in Seq(Int) /\ Len(u) \in Nat
  BY <1>1, PolyCode, FramingAssumption
<1>. QED
  BY <1>1, <1>2, <1>3, <1>4, <1>5

\* The decoders on an encoding do not give up, and end where their part does.
LEMMA KeyRuns ==
  ASSUME IndInv, AcceptInv, NEW q \in Sampled00, NEW p \in Sampled01, IsKey(q, p), KeyTrack(q, p)
  PROVE  /\ stage = "q00" => /\ pc # "none"
                             /\ pc = "some" => j = Len(Code(Half(q), N \div 2, LOW_00))
         /\ stage = "q01" => /\ pc # "none"
                             /\ pc = "some" => j = Len(Code(p, N, LOW_01))
<1> DEFINE c == Code(Half(q), N \div 2, LOW_00)
           s == ToByte(FirstPart(q))
           u == Code(p, N, LOW_01)
<1>1. /\ Half(q) \in Dec00!Encodable /\ p \in Dec01!Encodable /\ buf \in Keys \cup Signatures
      /\ buf.bytes \in Nat /\ \A n \in 0..buf.bytes : Rest(buf, n) \in Slices
  BY KeyFacts, BufType DEF IndInv
<1>2. /\ c \in Seq(Int) /\ Len(c) \in Nat /\ Shows(buf.bits, 0, c)
      /\ Len(s) \in Nat /\ Len(s) % BYTE = 0 /\ Len(c) <= Len(s)
      /\ u \in Seq(Int) /\ Len(u) \in Nat /\ Shows(buf.bits, Len(s), u)
      /\ Len(s) + Len(u) <= BufBits
  <2>1. EXTRA \in Nat
    BY FramingAssumption
  <2>. QED
    BY <2>1, KeyParts
<1>3. BYTE \in Nat /\ BYTE >= 1 /\ BufBits = buf.bytes * BYTE /\ BufBits \in Nat
  BY <1>1, FramingAssumption DEF BufBits
<1> HIDE DEF c, s, u
<1>4. ASSUME stage = "q00"
      PROVE  pc # "none" /\ (pc = "some" => j = Len(c))
  <2>1. y = Rest(buf, 0) /\ P00!Faithful /\ 0 \in 0..buf.bytes /\ 0 * BYTE = 0
    BY <1>1, <1>3, <1>4 DEF IndInv, AcceptInv
  <2>2. 0 * BYTE + Len(c) <= buf.bytes * BYTE
    BY <1>2, <1>3, <2>1
  <2>3. /\ Rest(buf, 0).bytes * BYTE = buf.bytes * BYTE - 0 * BYTE
        /\ Shows(Rest(buf, 0).bits, 0, c) <=> Shows(buf.bits, 0 * BYTE, c)
    BY <1>1, <1>2, <2>1, <2>2, RestShows
  <2>4. Len(c) <= Rest(buf, 0).bytes * BYTE /\ Shows(Rest(buf, 0).bits, 0, c)
    BY <1>2, <1>3, <2>1, <2>2, <2>3
  <2>. QED
    BY <1>1, <2>1, <2>4, Run00Accepts DEF c
<1>5. ASSUME stage = "q01"
      PROVE  pc # "none" /\ (pc = "some" => j = Len(u))
  <2> DEFINE n == at \div BYTE
  <2>1. y = Rest(buf, n) /\ P01!Faithful /\ at = Len(s) /\ at <= BufBits
    BY <1>5 DEF IndInv, AcceptInv, KeyTrack, s
  <2>2. n * BYTE = at /\ n \in 0..buf.bytes
    <3>0. at % BYTE = 0 /\ at \in Int
      BY <1>2, <2>1
    <3>1. at = BYTE * n + 0 /\ n \in Int
      BY <1>3, <3>0, DivMod
    <3>2. n \in 0..buf.bytes
      BY <1>1, <1>2, <1>3, <2>1, Boundary
    <3> HIDE DEF n
    <3>. QED
      BY <1>2, <1>3, <2>1, <3>1, <3>2
  <2> HIDE DEF n
  <2>3. n * BYTE + Len(u) <= buf.bytes * BYTE
    BY <1>2, <1>3, <2>1, <2>2
  <2>4. /\ Rest(buf, n).bytes * BYTE = buf.bytes * BYTE - n * BYTE
        /\ Shows(Rest(buf, n).bits, 0, u) <=> Shows(buf.bits, n * BYTE, u)
    BY <1>1, <1>2, <2>2, <2>3, RestShows
  <2>5. Len(u) <= Rest(buf, n).bytes * BYTE /\ Shows(Rest(buf, n).bits, 0, u)
    <3>1. n * BYTE \in Int /\ buf.bytes * BYTE \in Int
      BY <1>2, <1>3, <2>1, <2>2
    <3>. QED
      BY <1>2, <1>3, <2>1, <2>2, <2>3, <2>4, <3>1
  <2>. QED
    BY <1>1, <2>1, <2>2, <2>5, Run01Accepts DEF u
<1>. QED
  BY <1>4, <1>5 DEF c, u

\* On an encoding of a key the zeros before q01 are met, and it ends in zeros.
LEMMA KeyStep ==
  ASSUME IndInv, CanonInv, AcceptInv, [Next]_vars, call = "public",
         NEW q \in Sampled00, NEW p \in Sampled01, IsKey(q, p), KeyTrack(q, p)
  PROVE  KeyTrack(q, p)'
<1> DEFINE c == Code(Half(q), N \div 2, LOW_00)
           f == FirstPart(q)
           s == ToByte(f)
           u == Code(p, N, LOW_01)
           k == KeyCode(q, p)
<1>1. /\ buf.bytes = PUBKEY_LEN /\ BufBits \in Nat /\ Len(k) <= BufBits
      /\ \A t \in Len(k)..(BufBits - 1) : buf.bits[t] = 0
  BY KeyFacts
<1>2. /\ Len(c) \in Nat /\ f \in Seq(Int) /\ Len(f) = Len(c) + EXTRA /\ Len(f) <= Len(s)
      /\ Len(s) \in Nat /\ Len(s) % BYTE = 0
      /\ \A t \in Len(f)..(Len(s) - 1) : buf.bits[t] = 0
      /\ Len(u) \in Nat /\ Len(k) = Len(s) + Len(u) /\ Len(k) \in Nat
  BY KeyParts
<1>3. /\ stage = "q00" => pc # "none" /\ (pc = "some" => j = Len(c))
      /\ stage = "q01" => pc # "none" /\ (pc = "some" => j = Len(u))
  BY KeyRuns
<1>4. EXTRA \in Nat /\ BYTE \in Nat /\ BYTE >= 1 /\ CHUNK \in Nat /\ at \in Nat
  BY FramingAssumption DEF IndInv
<1>5. KeyTrack(q, p) <=>
        /\ stage # "bad"
        /\ stage = "extra" => at = Len(c)
        /\ stage = "pad" => Len(f) <= at /\ at <= Len(s)
        /\ stage = "q01" => at = Len(s)
        /\ stage = "tail" => at >= Len(k)
  BY DEF KeyTrack
<1>6. KeyTrack(q, p)' <=>
        /\ stage' # "bad"
        /\ stage' = "extra" => at' = Len(c)
        /\ stage' = "pad" => Len(f) <= at' /\ at' <= Len(s)
        /\ stage' = "q01" => at' = Len(s)
        /\ stage' = "tail" => at' >= Len(k)
  BY DEF KeyTrack
<1> HIDE DEF c, f, s, u, k
<1>7. CASE DecodePublic
  BY <1>1, <1>6, <1>7 DEF DecodePublic
<1>8. CASE DecodeSignature
  BY <1>8 DEF DecodeSignature
<1>9. CASE Decode
  BY <1>5, <1>6, <1>9 DEF Decode, frame
<1>10. CASE DecodeFails
  BY <1>3, <1>10 DEF DecodeFails, CanonInv
<1>11. CASE DecodedQ00
  <2>1. stage = "q00" /\ pc = "some" /\ j = Len(c)
    BY <1>3, <1>11 DEF DecodedQ00
  <2>2. ~(BufBits < j + EXTRA)
    BY <1>1, <1>2, <1>4, <2>1
  <2>. QED
    BY <1>6, <1>11, <2>1, <2>2 DEF DecodedQ00
<1>12. CASE ExtraBits
  BY <1>2, <1>4, <1>5, <1>6, <1>12 DEF ExtraBits
<1>13. CASE PadBit
  <2>1. stage = "pad" /\ at % BYTE # 0 /\ Len(f) <= at /\ at <= Len(s)
    BY <1>5, <1>13 DEF PadBit, PadStep
  <2>2. at # Len(s)
    BY <1>2, <2>1
  <2>3. at \in Len(f)..(Len(s) - 1) /\ at < BufBits
    BY <1>1, <1>2, <1>4, <2>1, <2>2
  <2>4. ~PadFails
    BY <1>1, <1>2, <1>4, <2>3 DEF PadFails
  <2>5. at' = at + 1 /\ stage' = "pad"
    BY <1>13, <2>1, <2>4 DEF PadBit, PadStep
  <2>. QED
    BY <1>2, <1>4, <1>6, <2>3, <2>5
<1>14. CASE Padded
  <2>1. stage = "pad" /\ at % BYTE = 0 /\ Len(f) <= at /\ at <= Len(s) /\ stage' = "q01" /\ at' = at
    BY <1>5, <1>14 DEF Padded
  <2>2. at = Len(s)
    BY <1>2, <1>4, <2>1, AtTop DEF s
  <2>. QED
    BY <1>6, <2>1, <2>2
<1>15. CASE DecodedQ01
  <2>1. stage = "q01" /\ at = Len(s) /\ j = Len(u) /\ at' = at + j /\ stage' = "tail"
    BY <1>3, <1>5, <1>15 DEF DecodedQ01
  <2>. QED
    BY <1>2, <1>6, <2>1
<1>16. CASE DecodedS1
  BY <1>16 DEF DecodedS1, CanonInv
<1>17. ASSUME NEW n \in Nat, stage = "tail", at + n <= BufBits, Scan(n) PROVE KeyTrack(q, p)'
  <2>1. at >= Len(k)
    BY <1>5, <1>17
  <2>2. AllZero(at, n)
    <3>1. \A t \in at..(at + n - 1) : t \in Len(k)..(BufBits - 1)
      BY <1>1, <1>2, <1>4, <1>17, <2>1
    <3>. QED
      BY <1>1, <3>1 DEF AllZero
  <2>3. at' = at + n /\ stage' = "tail"
    BY <1>17, <2>2 DEF Scan
  <2>. QED
    BY <1>2, <1>4, <1>6, <2>1, <2>3
<1>18. CASE TailBit
  <2>1. CASE at < BufBits
    <3>1. stage = "tail" /\ Scan(1) /\ 1 \in Nat /\ at + 1 <= BufBits
      BY <1>1, <1>4, <1>18, <2>1 DEF TailBit
    <3>. QED
      BY <1>17, <3>1
  <2>2. CASE ~(at < BufBits)
    BY <1>6, <1>18, <2>2 DEF TailBit
  <2>. QED
    BY <2>1, <2>2
<1>19. CASE TailWord
  <2>1. stage = "tail" /\ Scan(CHUNK * BYTE) /\ CHUNK * BYTE \in Nat /\ at + CHUNK * BYTE <= BufBits
    BY <1>4, <1>19 DEF TailWord, WordFits
  <2>. QED
    BY <1>17, <2>1
<1>20. CASE TailByte
  <2>1. stage = "tail" /\ Scan(BYTE) /\ at < BufBits /\ at % BYTE = 0
    BY <1>20 DEF TailByte, MoreBytes
  <2>2. at + BYTE <= BufBits
    <3>1. buf.bytes \in Nat
      BY BufType DEF IndInv
    <3>. QED
      BY <1>1, <1>4, <2>1, <3>1, Boundary DEF BufBits
  <2>. QED
    BY <1>4, <1>17, <2>1, <2>2
<1>21. CASE TailEnd
  BY <1>6, <1>21 DEF TailEnd
<1>22. CASE UNCHANGED vars
  BY <1>5, <1>6, <1>22 DEF vars, frame
<1>. QED
  BY <1>7, <1>8, <1>9, <1>10, <1>11, <1>12, <1>13, <1>14, <1>15, <1>16, <1>18, <1>19, <1>20,
     <1>21, <1>22 DEF Next

\* What a buffer shows that is the encoding of a signature.
LEMMA SigFacts ==
  ASSUME NEW t \in Salts, NEW x \in SampledS1, IsSig(t, x)
  PROVE  LET m == SALT_LEN * BYTE
             u == Code(x, N, LOW_S1)
             k == SigCode(t, x)
         IN  /\ x \in DecS1!Encodable /\ m \in Nat /\ buf.bytes = SIGNATURE_LEN /\ BufBits \in Nat
             /\ u \in Seq(Int) /\ Len(u) \in Nat /\ Shows(buf.bits, m, u)
             /\ Len(k) = m + Len(u) /\ Len(k) \in Nat /\ Len(k) <= BufBits
             /\ \A b \in Len(k)..(BufBits - 1) : buf.bits[b] = 0
<1> DEFINE m == SALT_LEN * BYTE
           u == Code(x, N, LOW_S1)
           k == SigCode(t, x)
<1>1. m \in Nat /\ SIGNATURE_LEN \in Nat
  BY FramingAssumption
<1>2. x \in DecS1!Encodable /\ x \in [Coeffs -> Int]
  BY SampleAssumption, EncodableTyped
<1>3. t \in Seq(Int) /\ Len(t) = m
  <2>1. t \in [1..m -> 0..1]
    BY SampleAssumption
  <2> HIDE DEF m
  <2>. QED
    BY <1>1, <2>1
<1>4. u \in Seq(Int) /\ Len(u) \in Nat
  BY <1>2, PolyCode, FramingAssumption
<1>5. /\ k \in Seq(Int) /\ Len(k) \in Nat /\ Len(k) = m + Len(u)
      /\ Shows(buf.bits, 0, k) => Shows(buf.bits, m, u)
  BY <1>2, <1>3, SigCodeBits
<1>6. /\ Len(PadTo(k, SIGNATURE_LEN * BYTE)) = SIGNATURE_LEN * BYTE
      /\ buf = AsBuffer(PadTo(k, SIGNATURE_LEN * BYTE))
  BY DEF IsSig, SigBits
<1> HIDE DEF k
<1>7. /\ buf.bytes = SIGNATURE_LEN /\ BufBits \in Nat
      /\ Len(k) <= BufBits /\ Shows(buf.bits, 0, k)
      /\ \A b \in Len(k)..(BufBits - 1) : buf.bits[b] = 0
  BY <1>1, <1>5, <1>6, PaddedBuffer
<1>. QED
  BY <1>1, <1>2, <1>4, <1>5, <1>7 DEF k

\* The decoder on it does not give up, and ends where s1 does.
LEMMA SigRun ==
  ASSUME IndInv, AcceptInv, NEW t \in Salts, NEW x \in SampledS1, IsSig(t, x), stage = "s1"
  PROVE  pc # "none" /\ (pc = "some" => j = Len(Code(x, N, LOW_S1)))
<1> DEFINE m == SALT_LEN * BYTE
           u == Code(x, N, LOW_S1)
<1>1. /\ x \in DecS1!Encodable /\ m \in Nat /\ BufBits \in Nat
      /\ u \in Seq(Int) /\ Len(u) \in Nat /\ Shows(buf.bits, m, u) /\ m + Len(u) <= BufBits
  BY SigFacts
<1>2. /\ buf.bytes \in Nat /\ BufBits = buf.bytes * BYTE /\ BYTE \in Nat
      /\ \A n \in 0..buf.bytes : Rest(buf, n) \in Slices
  BY BufType DEF IndInv, BufBits
<1>3. y = Rest(buf, SALT_LEN) /\ PS1!Faithful /\ SALT_LEN \in 0..buf.bytes
  BY <1>2, FramingAssumption DEF IndInv, AcceptInv
<1> HIDE DEF u
<1>4. SALT_LEN * BYTE + Len(u) <= buf.bytes * BYTE
  BY <1>1, <1>2
<1>5. /\ Rest(buf, SALT_LEN).bytes * BYTE = buf.bytes * BYTE - SALT_LEN * BYTE
      /\ Shows(Rest(buf, SALT_LEN).bits, 0, u) <=> Shows(buf.bits, SALT_LEN * BYTE, u)
  BY <1>1, <1>2, <1>3, <1>4, RestShows
<1>6. Len(u) <= Rest(buf, SALT_LEN).bytes * BYTE /\ Shows(Rest(buf, SALT_LEN).bits, 0, u)
  BY <1>1, <1>2, <1>4, <1>5
<1>. QED
  BY <1>1, <1>2, <1>3, <1>6, RunS1Accepts DEF u

\* On an encoding of a signature the decoder ends before the zeros.
LEMMA SigStep ==
  ASSUME IndInv, CanonInv, AcceptInv, [Next]_vars, call = "signature",
         NEW t \in Salts, NEW x \in SampledS1, IsSig(t, x), SigTrack(t, x)
  PROVE  SigTrack(t, x)'
<1> DEFINE m == SALT_LEN * BYTE
           u == Code(x, N, LOW_S1)
           k == SigCode(t, x)
<1>1. /\ buf.bytes = SIGNATURE_LEN /\ BufBits \in Nat /\ m \in Nat
      /\ Len(u) \in Nat /\ Len(k) = m + Len(u) /\ Len(k) \in Nat /\ Len(k) <= BufBits
      /\ \A b \in Len(k)..(BufBits - 1) : buf.bits[b] = 0
  BY SigFacts
<1>2. stage = "s1" => pc # "none" /\ (pc = "some" => j = Len(u))
  BY SigRun
<1>3. BYTE \in Nat /\ BYTE >= 1 /\ CHUNK \in Nat /\ at \in Nat
  BY FramingAssumption DEF IndInv
<1>4. /\ SigTrack(t, x) <=> stage # "bad" /\ (stage = "tail" => at >= Len(k))
      /\ SigTrack(t, x)' <=> stage' # "bad" /\ (stage' = "tail" => at' >= Len(k))
  BY DEF SigTrack
<1>5. stage \notin {"q00", "extra", "pad", "q01"}
  BY DEF CanonInv
<1> HIDE DEF m, u, k
<1>6. CASE DecodePublic
  BY <1>6 DEF DecodePublic
<1>7. CASE DecodeSignature
  BY <1>1, <1>4, <1>7 DEF DecodeSignature, Salted
<1>8. CASE Decode
  BY <1>4, <1>8 DEF Decode, frame
<1>9. CASE DecodeFails
  BY <1>2, <1>5, <1>9 DEF DecodeFails
<1>10. CASE DecodedS1
  <2>1. j = Len(u) /\ at' = j + m /\ stage' = "tail"
    BY <1>2, <1>10 DEF DecodedS1, m
  <2>. QED
    BY <1>1, <1>4, <2>1
<1>11. ASSUME NEW n \in Nat, stage = "tail", at + n <= BufBits, Scan(n) PROVE SigTrack(t, x)'
  <2>1. at >= Len(k)
    BY <1>4, <1>11
  <2>2. AllZero(at, n)
    <3>1. \A b \in at..(at + n - 1) : b \in Len(k)..(BufBits - 1)
      BY <1>1, <1>3, <1>11, <2>1
    <3>. QED
      BY <1>1, <3>1 DEF AllZero
  <2>3. at' = at + n /\ stage' = "tail"
    BY <1>11, <2>2 DEF Scan
  <2>. QED
    BY <1>1, <1>3, <1>4, <2>1, <2>3
<1>12. CASE TailBit
  <2>1. CASE at < BufBits
    <3>1. stage = "tail" /\ Scan(1) /\ 1 \in Nat /\ at + 1 <= BufBits
      BY <1>1, <1>3, <1>12, <2>1 DEF TailBit
    <3>. QED
      BY <1>11, <3>1
  <2>2. CASE ~(at < BufBits)
    BY <1>4, <1>12, <2>2 DEF TailBit
  <2>. QED
    BY <2>1, <2>2
<1>13. CASE TailWord
  <2>1. stage = "tail" /\ Scan(CHUNK * BYTE) /\ CHUNK * BYTE \in Nat /\ at + CHUNK * BYTE <= BufBits
    BY <1>3, <1>13 DEF TailWord, WordFits
  <2>. QED
    BY <1>11, <2>1
<1>14. CASE TailByte
  <2>1. stage = "tail" /\ Scan(BYTE) /\ at < BufBits /\ at % BYTE = 0
    BY <1>14 DEF TailByte, MoreBytes
  <2>2. at + BYTE <= BufBits
    <3>1. buf.bytes \in Nat
      BY BufType DEF IndInv
    <3>. QED
      BY <1>1, <1>3, <2>1, <3>1, Boundary DEF BufBits
  <2>. QED
    BY <1>3, <1>11, <2>1, <2>2
<1>15. CASE TailEnd
  BY <1>4, <1>15 DEF TailEnd
<1>16. CASE UNCHANGED vars
  BY <1>4, <1>16 DEF vars, frame
<1>17. CASE DecodedQ00 \/ ExtraBits \/ PadBit \/ Padded \/ DecodedQ01
  BY <1>5, <1>17 DEF DecodedQ00, ExtraBits, PadBit, PadStep, Padded, DecodedQ01
<1>. QED
  BY <1>6, <1>7, <1>8, <1>9, <1>10, <1>12, <1>13, <1>14, <1>15, <1>16, <1>17 DEF Next

\* The invariant of the decoding of an encoding holds at first,
LEMMA AcceptInit == Init => AcceptInv
  BY DEF Init, AcceptInv, KeyTrack, SigTrack

\* is kept by every step,
LEMMA AcceptStep == IndInv /\ CanonInv /\ AcceptInv /\ [Next]_vars => AcceptInv'
<1> SUFFICES ASSUME IndInv, CanonInv, AcceptInv, [Next]_vars PROVE AcceptInv'
  OBVIOUS
<1>1. call' = call /\ buf' = buf
  BY DEF Next, vars, frame, DecodePublic, DecodeSignature, Decode, DecodeFails, DecodedQ00,
     ExtraBits, PadBit, PadStep, Padded, DecodedQ01, DecodedS1, TailBit, TailWord, TailByte,
     TailEnd, Scan, Fail
<1>2. ASSUME call' = "public", NEW q \in Sampled00, NEW p \in Sampled01, IsKey(q, p)'
      PROVE  KeyTrack(q, p)'
  <2>1. IsKey(q, p) /\ call = "public"
    BY <1>1, <1>2 DEF IsKey
  <2>. QED
    BY <2>1, KeyStep DEF AcceptInv
<1>3. ASSUME call' = "signature", NEW t \in Salts, NEW x \in SampledS1, IsSig(t, x)'
      PROVE  SigTrack(t, x)'
  <2>1. IsSig(t, x) /\ call = "signature"
    BY <1>1, <1>3 DEF IsSig
  <2>. QED
    BY <2>1, SigStep DEF AcceptInv
<1>4. buf \in Keys \cup Signatures /\ buf.bytes \in Nat
  BY BufType DEF IndInv
<1>5. ASSUME stage' = "q00" PROVE P00!Faithful'
  <2>1. CASE DecodePublic
    <3>1. Decompress(0, N \div 2) /\ 0 \in 0..buf.bytes
      BY <1>4, <1>5, <2>1 DEF DecodePublic, Fail
    <3>. QED
      BY <1>4, <3>1, Run00Starts
  <2>2. CASE Decode
    <3>1. stage = "q00" /\ Dec00!Next
      BY <1>5, <2>2 DEF Decode, frame
    <3>. QED
      BY <3>1, Run00Step DEF IndInv, CanonInv, AcceptInv
  <2>3. CASE UNCHANGED vars
    <3>1. stage = "q00" /\ UNCHANGED P00!vars
      BY <1>5, <2>3 DEF vars, frame, gr, P00!vars
    <3>. QED
      BY <3>1, Sizes, P00!FaithfulStep DEF IndInv, CanonInv, AcceptInv
  <2>. QED
    BY <1>5, <2>1, <2>2, <2>3
       DEF Next, DecodeSignature, DecodeFails, DecodedQ00, ExtraBits, PadBit, PadStep, Padded,
           DecodedQ01, DecodedS1, TailBit, TailWord, TailByte, TailEnd, Scan, Fail
<1>6. ASSUME stage' = "q01" PROVE P01!Faithful'
  <2>1. CASE Padded
    <3>1. stage = "pad" /\ at % BYTE = 0 /\ Decompress(at \div BYTE, N)
      BY <2>1 DEF Padded
    <3>2. at \div BYTE \in 0..buf.bytes
      BY <1>4, <3>1, Boundary DEF IndInv, BufBits
    <3>. QED
      BY <1>4, <3>1, <3>2, Run01Starts
  <2>2. CASE Decode
    <3>1. stage = "q01" /\ Dec01!Next
      BY <1>6, <2>2 DEF Decode, frame
    <3>. QED
      BY <3>1, Run01Step DEF IndInv, CanonInv, AcceptInv
  <2>3. CASE UNCHANGED vars
    <3>1. stage = "q01" /\ UNCHANGED P01!vars
      BY <1>6, <2>3 DEF vars, frame, gr, P01!vars
    <3>. QED
      BY <3>1, Sizes, P01!FaithfulStep DEF IndInv, CanonInv, AcceptInv
  <2>. QED
    BY <1>6, <2>1, <2>2, <2>3
       DEF Next, DecodePublic, DecodeSignature, DecodeFails, DecodedQ00, ExtraBits, PadBit, PadStep,
           DecodedQ01, DecodedS1, TailBit, TailWord, TailByte, TailEnd, Scan, Fail
<1>7. ASSUME stage' = "s1" PROVE PS1!Faithful'
  <2>1. CASE DecodeSignature
    <3>1. Decompress(SALT_LEN, N) /\ buf.bytes = SIGNATURE_LEN
      BY <1>7, <2>1 DEF DecodeSignature, Salted, Fail
    <3>2. SALT_LEN \in 0..buf.bytes
      BY <3>1, FramingAssumption
    <3>. QED
      BY <1>4, <3>1, <3>2, RunS1Starts
  <2>2. CASE Decode
    <3>1. stage = "s1" /\ DecS1!Next
      BY <1>7, <2>2 DEF Decode, frame
    <3>. QED
      BY <3>1, RunS1Step DEF IndInv, CanonInv, AcceptInv
  <2>3. CASE UNCHANGED vars
    <3>1. stage = "s1" /\ UNCHANGED PS1!vars
      BY <1>7, <2>3 DEF vars, frame, gr, PS1!vars
    <3>. QED
      BY <3>1, Sizes, PS1!FaithfulStep DEF IndInv, CanonInv, AcceptInv
  <2>. QED
    BY <1>7, <2>1, <2>2, <2>3
       DEF Next, DecodePublic, DecodeFails, DecodedQ00, ExtraBits, PadBit, PadStep, Padded,
           DecodedQ01, DecodedS1, TailBit, TailWord, TailByte, TailEnd, Scan, Fail
<1>. QED
  BY <1>2, <1>3, <1>5, <1>6, <1>7 DEF AcceptInv

\* and says that a refused buffer is no encoding.
LEMMA AcceptIsAccepting == CanonInv /\ AcceptInv => AcceptsEncodings
<1> SUFFICES ASSUME CanonInv, AcceptInv, stage = "bad" PROVE AcceptsEncodings
  BY DEF AcceptsEncodings
<1>1. ASSUME call = "public", buf \in EncodedKeys PROVE FALSE
  <2>1. PICK q \in Sampled00, p \in Sampled01 : IsKey(q, p)
    BY <1>1 DEF EncodedKeys, IsKey
  <2>2. KeyTrack(q, p)
    BY <1>1, <2>1 DEF AcceptInv
  <2>. QED
    BY <2>2 DEF KeyTrack
<1>2. ASSUME call = "signature", buf \in EncodedSigs PROVE FALSE
  <2>1. PICK t \in Salts, x \in SampledS1 : IsSig(t, x)
    BY <1>2 DEF EncodedSigs, IsSig
  <2>2. SigTrack(t, x)
    BY <1>2, <2>1 DEF AcceptInv
  <2>. QED
    BY <2>2 DEF SigTrack
<1>. QED
  BY <1>1, <1>2 DEF AcceptsEncodings, CanonInv

\* AcceptsEncodings for every format and every set of polynomials that it has
\* room for: decode_public refuses no encoding of a key, decode_signature none
\* of a signature.
THEOREM RefusesNoEncoding == Spec => []AcceptsEncodings
<1>1. Spec => []IndInv
  BY InvInit, InvStep, PTL DEF Spec
<1>2. Spec => []CanonInv
  BY <1>1, CanonInit, CanonStep, PTL DEF Spec
<1>3. Spec => []AcceptInv
  BY <1>1, <1>2, AcceptInit, AcceptStep, PTL DEF Spec
<1>. QED
  BY <1>2, <1>3, AcceptIsAccepting, PTL
=============================================================================
