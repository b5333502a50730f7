---------------------------- MODULE PodListProofs ----------------------------
(***************************************************************************)
(* Proofs about PodList.  What the list's operators do to a sequence is    *)
(* told by two things: which values it has (Range) and which comes before  *)
(* which (Before); a value that is not before itself is there once.        *)
(***************************************************************************)
EXTENDS PodList, WellFoundedInduction, FiniteSetTheorems, SequenceTheorems, TLAPS

-----------------------------------------------------------------------------
(* Induction *)

LEMMA Induct ==
  ASSUME NEW T, 0 \in T, \A n \in Nat : n \in T => n + 1 \in T
  PROVE  Nat \subseteq T
<1> SUFFICES ASSUME Nat \ T # {} PROVE FALSE
  OBVIOUS
<1>1. PICK n \in Nat \ T : \A m \in Nat \ T : ~(<<m, n>> \in OpToRel(<, Nat))
  BY NatLessThanWellFounded, WFMin, Zenon
<1>2. \A m \in Nat \ T : ~(m < n)
  BY <1>1 DEF OpToRel
<1>3. n # 0 /\ n - 1 \in Nat
  OBVIOUS
<1>4. n - 1 \in T
  BY <1>2, <1>3
<1> QED BY <1>3, <1>4

-----------------------------------------------------------------------------
(* Sequences *)

Before(s, x, y) == \E i, j \in DOMAIN s : i < j /\ s[i] = x /\ s[j] = y

Once(s) == \A x : ~Before(s, x, x)

LEMMA OnceIsInjective ==
  ASSUME NEW S, NEW s \in Seq(S)
  PROVE  IsInjective(s) <=> Once(s)
<1>1. DOMAIN s = 1..Len(s) /\ Len(s) \in Nat
  OBVIOUS
<1>2. ASSUME IsInjective(s), NEW x, Before(s, x, x) PROVE FALSE
  BY <1>1, <1>2 DEF IsInjective, Before
<1>3. ASSUME Once(s), NEW i \in DOMAIN s, NEW j \in DOMAIN s, s[i] = s[j], i # j PROVE FALSE
  <2>1. i < j \/ j < i
    BY <1>1, <1>3
  <2>2. ~Before(s, s[i], s[i])
    BY <1>3 DEF Once
  <2> QED BY <1>3, <2>1, <2>2 DEF Before
<1>4. Once(s) => IsInjective(s)
  BY <1>3 DEF IsInjective
<1> QED BY <1>2, <1>4 DEF Once

LEMMA SeqRange ==
  ASSUME NEW S, NEW s \in Seq(S)
  PROVE  /\ Range(s) \subseteq S
         /\ (Range(s) = {} <=> s = <<>>)
         /\ \A i \in 1..Len(s) : s[i] \in Range(s)
         /\ \A x \in Range(s) : \E i \in 1..Len(s) : s[i] = x
<1>1. DOMAIN s = 1..Len(s) /\ Len(s) \in Nat /\ (s = <<>> <=> Len(s) = 0)
  OBVIOUS
<1>2. \A i \in 1..Len(s) : s[i] \in S
  OBVIOUS
<1>3. Len(s) # 0 => 1 \in 1..Len(s)
  BY <1>1
<1>4. s = <<>> => Range(s) = {}
  BY DEF Range
<1>5. \A i \in 1..Len(s) : s[i] \in Range(s)
  BY <1>1 DEF Range
<1>6. \A x \in Range(s) : \E i \in 1..Len(s) : s[i] = x
  BY <1>1 DEF Range
<1>7. Range(s) \subseteq S
  BY <1>2, <1>6
<1>8. Range(s) = {} => s = <<>>
  BY <1>1, <1>3, <1>5
<1>9. Range(s) = {} <=> s = <<>>
  BY <1>4, <1>8
<1> QED BY <1>5, <1>6, <1>7, <1>9 DEF Range

LEMMA EmptyList ==
  Range(<<>>) = {} /\ \A x, y : ~Before(<<>>, x, y)
BY DEF Range, Before

LEMMA SingleList ==
  ASSUME NEW e
  PROVE  Range(<<e>>) = {e} /\ \A x, y : ~Before(<<e>>, x, y)
BY DEF Range, Before

LEMMA ConcatBefore ==
  ASSUME NEW S, NEW f \in Seq(S), NEW g \in Seq(S)
  PROVE  /\ f \o g \in Seq(S)
         /\ Range(f \o g) = Range(f) \cup Range(g)
         /\ \A x, y : Before(f \o g, x, y) <=>
                        \/ Before(f, x, y) \/ Before(g, x, y)
                        \/ x \in Range(f) /\ y \in Range(g)
<1> DEFINE h == f \o g
<1>1. /\ Len(f) \in Nat /\ Len(g) \in Nat /\ Len(h) = Len(f) + Len(g)
      /\ DOMAIN f = 1..Len(f) /\ DOMAIN g = 1..Len(g) /\ DOMAIN h = 1..Len(h)
      /\ \A k \in 1..Len(f) : h[k] = f[k]
      /\ \A k \in 1..Len(h) : k > Len(f) => h[k] = g[k - Len(f)]
      /\ h \in Seq(S)
  OBVIOUS
<1> HIDE DEF h
<1>2. \A k \in 1..Len(g) : h[Len(f) + k] = g[k] /\ Len(f) + k \in 1..Len(h)
  BY <1>1
<1>3. \A k \in 1..Len(f) : k \in 1..Len(h)
  BY <1>1
<1>4. \A k \in 1..Len(h) : k \in 1..Len(f) \/ (k > Len(f) /\ k - Len(f) \in 1..Len(g))
  BY <1>1
<1>5. Range(h) = Range(f) \cup Range(g)
  <2>1. ASSUME NEW x \in Range(h) PROVE x \in Range(f) \cup Range(g)
    <3> PICK k \in 1..Len(h) : x = h[k]
      BY <1>1 DEF Range
    <3> QED BY <1>1, <1>4 DEF Range
  <2>2. ASSUME NEW x \in Range(f) PROVE x \in Range(h)
    <3> PICK k \in 1..Len(f) : x = f[k]
      BY <1>1 DEF Range
    <3> QED BY <1>1, <1>3 DEF Range
  <2>3. ASSUME NEW x \in Range(g) PROVE x \in Range(h)
    <3> PICK k \in 1..Len(g) : x = g[k]
      BY <1>1 DEF Range
    <3> QED BY <1>1, <1>2 DEF Range
  <2> QED BY <2>1, <2>2, <2>3
<1>6. ASSUME NEW x, NEW y, Before(h, x, y)
      PROVE  Before(f, x, y) \/ Before(g, x, y) \/ (x \in Range(f) /\ y \in Range(g))
  <2> PICK i \in 1..Len(h), j \in 1..Len(h) : i < j /\ h[i] = x /\ h[j] = y
    BY <1>1, <1>6 DEF Before
  <2>1. CASE j <= Len(f)
    <3>1. i \in DOMAIN f /\ j \in DOMAIN f /\ f[i] = x /\ f[j] = y
      BY <1>1, <2>1
    <3> QED BY <3>1 DEF Before
  <2>2. CASE i > Len(f)
    <3>1. /\ i - Len(f) \in DOMAIN g /\ j - Len(f) \in DOMAIN g /\ g[i - Len(f)] = x
          /\ g[j - Len(f)] = y /\ i - Len(f) < j - Len(f)
      BY <1>1, <2>2
    <3> QED BY <3>1 DEF Before
  <2>3. CASE i <= Len(f) /\ j > Len(f)
    <3>1. i \in DOMAIN f /\ f[i] = x /\ j - Len(f) \in DOMAIN g /\ g[j - Len(f)] = y
      BY <1>1, <2>3
    <3> QED BY <3>1 DEF Range
  <2> QED BY <1>1, <2>1, <2>2, <2>3
<1>7. ASSUME NEW x, NEW y, Before(f, x, y) PROVE Before(h, x, y)
  <2> PICK i \in 1..Len(f), j \in 1..Len(f) : i < j /\ f[i] = x /\ f[j] = y
    BY <1>1, <1>7 DEF Before
  <2> QED BY <1>1, <1>3 DEF Before
<1>8. ASSUME NEW x, NEW y, Before(g, x, y) PROVE Before(h, x, y)
  <2> PICK i \in 1..Len(g), j \in 1..Len(g) : i < j /\ g[i] = x /\ g[j] = y
    BY <1>1, <1>8 DEF Before
  <2>1. Len(f) + i \in DOMAIN h /\ Len(f) + j \in DOMAIN h /\ Len(f) + i < Len(f) + j
        /\ h[Len(f) + i] = x /\ h[Len(f) + j] = y
    BY <1>1, <1>2
  <2> QED BY <2>1 DEF Before
<1>9. ASSUME NEW x \in Range(f), NEW y \in Range(g) PROVE Before(h, x, y)
  <2> PICK i \in 1..Len(f) : f[i] = x
    BY <1>1 DEF Range
  <2> PICK j \in 1..Len(g) : g[j] = y
    BY <1>1 DEF Range
  <2>1. i \in DOMAIN h /\ Len(f) + j \in DOMAIN h /\ i < Len(f) + j /\ h[i] = x /\ h[Len(f) + j] = y
    BY <1>1, <1>2
  <2> QED BY <2>1 DEF Before
<1> QED BY <1>1, <1>5, <1>6, <1>7, <1>8, <1>9 DEF h

LEMMA AppendBefore ==
  ASSUME NEW S, NEW f \in Seq(S), NEW e \in S
  PROVE  /\ Append(f, e) \in Seq(S)
         /\ Range(Append(f, e)) = Range(f) \cup {e}
         /\ \A x, y : Before(Append(f, e), x, y) <=> Before(f, x, y) \/ (x \in Range(f) /\ y = e)
<1> DEFINE g == <<e>>
<1>1. Append(f, e) = f \o g /\ g \in Seq(S)
  OBVIOUS
<1>2. Range(g) = {e} /\ \A x, y : ~Before(g, x, y)
  BY SingleList
<1> HIDE DEF g
<1> QED BY <1>1, <1>2, ConcatBefore

(* f is ss[1], ..., ss[n] end to end. *)
Joined(f, ss, n) ==
  /\ Range(f) = UNION {Range(ss[i]) : i \in 1..n}
  /\ \A x, y : Before(f, x, y) <=>
       \/ \E i \in 1..n : Before(ss[i], x, y)
       \/ \E i, j \in 1..n : i < j /\ x \in Range(ss[i]) /\ y \in Range(ss[j])

LEMMA JoinedNone ==
  ASSUME NEW ss
  PROVE  Joined(<<>>, ss, 0)
BY EmptyList DEF Joined

LEMMA JoinedMore ==
  ASSUME NEW S, NEW f \in Seq(S), NEW g \in Seq(S), NEW ss, NEW n \in Nat,
         Joined(f, ss, n), ss[n + 1] = g
  PROVE  Joined(f \o g, ss, n + 1)
<1>1. \A i : i \in 1..(n + 1) <=> i \in 1..n \/ i = n + 1
  OBVIOUS
<1>2. Range(f \o g) = UNION {Range(ss[i]) : i \in 1..(n + 1)}
  <2>1. Range(f \o g) = Range(f) \cup Range(ss[n + 1])
    BY ConcatBefore
  <2>2. Range(f) = UNION {Range(ss[i]) : i \in 1..n}
    BY DEF Joined
  <2> HIDE DEF Joined
  <2> QED BY <1>1, <2>1, <2>2, Zenon
<1>3. ASSUME NEW x, NEW y
      PROVE  Before(f \o g, x, y) <=>
               \/ \E i \in 1..(n + 1) : Before(ss[i], x, y)
               \/ \E i, j \in 1..(n + 1) : i < j /\ x \in Range(ss[i]) /\ y \in Range(ss[j])
  <2>1. Before(f \o g, x, y) <=>
          Before(f, x, y) \/ Before(g, x, y) \/ (x \in Range(f) /\ y \in Range(g))
    BY ConcatBefore
  <2>2. Before(f, x, y) <=>
          \/ \E i \in 1..n : Before(ss[i], x, y)
          \/ \E i, j \in 1..n : i < j /\ x \in Range(ss[i]) /\ y \in Range(ss[j])
    BY DEF Joined
  <2>3. x \in Range(f) <=> \E i \in 1..n : x \in Range(ss[i])
    BY DEF Joined
  <2>4. \A i, j \in 1..(n + 1) :
          i < j <=> \/ i \in 1..n /\ j \in 1..n /\ i < j
                    \/ i \in 1..n /\ j = n + 1
    OBVIOUS
  <2>5. (\E i, j \in 1..(n + 1) : i < j /\ x \in Range(ss[i]) /\ y \in Range(ss[j])) <=>
          \/ \E i, j \in 1..n : i < j /\ x \in Range(ss[i]) /\ y \in Range(ss[j])
          \/ \E i \in 1..n : x \in Range(ss[i]) /\ y \in Range(ss[n + 1])
    BY <1>1, <2>4
  <2>6. (\E i \in 1..(n + 1) : Before(ss[i], x, y)) <=>
          (\E i \in 1..n : Before(ss[i], x, y)) \/ Before(ss[n + 1], x, y)
    BY <1>1
  <2> QED BY <2>1, <2>2, <2>3, <2>5, <2>6
<1> QED BY <1>2, <1>3 DEF Joined

(* Something more at the end of the last of them. *)
LEMMA JoinedLonger ==
  ASSUME NEW S, NEW f \in Seq(S), NEW e \in S, NEW ss, NEW tt, NEW n \in Nat, n # 0,
         Joined(f, ss, n), ss[n] \in Seq(S), tt[n] = Append(ss[n], e),
         \A i \in 1..n : i # n => tt[i] = ss[i]
  PROVE  Joined(Append(f, e), tt, n)
<1>1. /\ Range(tt[n]) = Range(ss[n]) \cup {e}
      /\ \A x, y : Before(tt[n], x, y) <=> Before(ss[n], x, y) \/ (x \in Range(ss[n]) /\ y = e)
  BY AppendBefore
<1>2. /\ Range(Append(f, e)) = Range(f) \cup {e}
      /\ \A x, y : Before(Append(f, e), x, y) <=> Before(f, x, y) \/ (x \in Range(f) /\ y = e)
  BY AppendBefore
<1>3. n \in 1..n /\ \A i \in 1..n : i # n => i < n
  OBVIOUS
<1>4. ASSUME NEW i \in 1..n, NEW x
      PROVE  x \in Range(tt[i]) <=> x \in Range(ss[i]) \/ (i = n /\ x = e)
  <2>1. CASE i = n
    BY <1>1, <2>1
  <2>2. CASE i # n
    <3>1. tt[i] = ss[i]
      BY <2>2
    <3> QED BY <2>2, <3>1
  <2> QED BY <2>1, <2>2
<1>5. \A i \in 1..n : \A x, y :
        Before(tt[i], x, y) <=> Before(ss[i], x, y) \/ (i = n /\ x \in Range(ss[n]) /\ y = e)
  BY <1>1
<1>6. \A x : x \in Range(f) <=> \E i \in 1..n : x \in Range(ss[i])
  BY DEF Joined
<1>7. Range(Append(f, e)) = UNION {Range(tt[i]) : i \in 1..n}
  BY <1>2, <1>3, <1>4, <1>6
<1>8. ASSUME NEW x, NEW y
      PROVE  Before(Append(f, e), x, y) <=>
               \/ \E i \in 1..n : Before(tt[i], x, y)
               \/ \E i, j \in 1..n : i < j /\ x \in Range(tt[i]) /\ y \in Range(tt[j])
  <2>1. Before(f, x, y) <=>
          \/ \E i \in 1..n : Before(ss[i], x, y)
          \/ \E i, j \in 1..n : i < j /\ x \in Range(ss[i]) /\ y \in Range(ss[j])
    BY DEF Joined
  <2>2. (\E i \in 1..n : Before(tt[i], x, y)) <=>
          (\E i \in 1..n : Before(ss[i], x, y)) \/ (x \in Range(ss[n]) /\ y = e)
    BY <1>3, <1>5
  <2>3. (\E i, j \in 1..n : i < j /\ x \in Range(tt[i]) /\ y \in Range(tt[j])) <=>
          \/ \E i, j \in 1..n : i < j /\ x \in Range(ss[i]) /\ y \in Range(ss[j])
          \/ \E i \in 1..n : i < n /\ x \in Range(ss[i]) /\ y = e
    <3>1. \A i, j \in 1..n : i < j => i # n /\ i < n
      OBVIOUS
    <3>2. \A i, j \in 1..n : i < j =>
            (x \in Range(tt[i]) /\ y \in Range(tt[j]) <=>
               x \in Range(ss[i]) /\ (y \in Range(ss[j]) \/ (j = n /\ y = e)))
      BY <1>4, <3>1
    <3> QED BY <1>3, <3>1, <3>2
  <2>4. x \in Range(f) <=> x \in Range(ss[n]) \/ \E i \in 1..n : i < n /\ x \in Range(ss[i])
    BY <1>3, <1>6
  <2> QED BY <1>2, <2>1, <2>2, <2>3, <2>4
<1> QED BY <1>7, <1>8 DEF Joined

-----------------------------------------------------------------------------
(* Recursive functions: each has the values that its equation gives it. *)

IsFlatten(g, ss, n) == g = [i \in 1..n |-> IF i = 1 THEN ss[i] ELSE g[i - 1] \o ss[i]]

LEMMA FlattenExists ==
  ASSUME NEW ss, NEW n \in Nat
  PROVE  \E g : IsFlatten(g, ss, n)
<1> DEFINE T == {m \in Nat : \E g : IsFlatten(g, ss, m)}
<1>1. 0 \in T
  <2> DEFINE g == [i \in 1..0 |-> ss[i]]
  <2>1. IsFlatten(g, ss, 0)
    BY DEF IsFlatten
  <2> QED BY <2>1
<1>2. ASSUME NEW m \in Nat, m \in T
      PROVE  m + 1 \in T
  <2>1. PICK g : IsFlatten(g, ss, m)
    BY <1>2
  <2> DEFINE h == [i \in 1..(m + 1) |->
                     IF i # m + 1 THEN g[i] ELSE IF m = 0 THEN ss[1] ELSE g[m] \o ss[m + 1]]
  <2>2. \A i \in 1..m : g[i] = IF i = 1 THEN ss[i] ELSE g[i - 1] \o ss[i]
    BY <2>1 DEF IsFlatten
  <2>3. \A i \in 1..m : h[i] = g[i]
    OBVIOUS
  <2>4. h[m + 1] = IF m = 0 THEN ss[1] ELSE g[m] \o ss[m + 1]
    OBVIOUS
  <2>5. \A i \in 1..(m + 1) : h[i] = IF i = 1 THEN ss[i] ELSE h[i - 1] \o ss[i]
    BY <2>2, <2>3, <2>4
  <2>6. IsFlatten(h, ss, m + 1)
    BY <2>5 DEF IsFlatten
  <2> QED BY <2>6
<1>3. Nat \subseteq T
  BY <1>1, <1>2, Induct
<1> QED BY <1>3

LEMMA FlattenIs ==
  ASSUME NEW ss, Len(ss) \in Nat, Len(ss) # 0
  PROVE  \E g : IsFlatten(g, ss, Len(ss)) /\ FlattenSeq(ss) = g[Len(ss)]
BY FlattenExists DEF FlattenSeq, IsFlatten

(* FlattenSeq joins the sequences. *)
LEMMA FlattenJoins ==
  ASSUME NEW S, NEW ss \in Seq(Seq(S))
  PROVE  FlattenSeq(ss) \in Seq(S) /\ Joined(FlattenSeq(ss), ss, Len(ss))
<1>1. Len(ss) \in Nat /\ \A i \in 1..Len(ss) : ss[i] \in Seq(S)
  OBVIOUS
<1>2. CASE Len(ss) = 0
  <2>1. FlattenSeq(ss) = <<>>
    BY <1>2 DEF FlattenSeq
  <2> QED BY <1>2, <2>1, JoinedNone
<1>3. CASE Len(ss) # 0
  <2> PICK g : IsFlatten(g, ss, Len(ss)) /\ FlattenSeq(ss) = g[Len(ss)]
    BY <1>1, <1>3, FlattenIs
  <2>1. \A i \in 1..Len(ss) : g[i] = IF i = 1 THEN ss[i] ELSE g[i - 1] \o ss[i]
    <3> DEFINE F(i) == IF i = 1 THEN ss[i] ELSE g[i - 1] \o ss[i]
    <3>1. g = [i \in 1..Len(ss) |-> F(i)]
      BY DEF IsFlatten
    <3> HIDE DEF F
    <3>2. \A i \in 1..Len(ss) : g[i] = F(i)
      BY <3>1
    <3> QED BY <3>2 DEF F
  <2>2. g[1] = ss[1] /\ \A i \in 2..Len(ss) : g[i] = g[i - 1] \o ss[i]
    <3>1. 1 \in 1..Len(ss) /\ \A i \in 2..Len(ss) : i \in 1..Len(ss) /\ i # 1
      BY <1>1, <1>3
    <3> QED BY <2>1, <3>1
  <2> DEFINE T == {m \in Nat : m + 1 <= Len(ss) => g[m + 1] \in Seq(S) /\ Joined(g[m + 1], ss, m + 1)}
  <2>3. 0 \in T
    <3>1. <<>> \in Seq(S) /\ <<>> \o ss[1] = ss[1] /\ ss[1] \in Seq(S)
      BY <1>1, <1>3
    <3>2. 0 + 1 = 1
      OBVIOUS
    <3>3. Joined(<<>> \o ss[1], ss, 0 + 1)
      BY <3>1, <3>2, JoinedNone, JoinedMore
    <3>4. g[1] \in Seq(S) /\ Joined(g[1], ss, 1)
      BY <2>2, <3>1, <3>2, <3>3
    <3> QED BY <3>2, <3>4
  <2>4. ASSUME NEW m \in Nat, m \in T
        PROVE  m + 1 \in T
    <3> SUFFICES ASSUME m + 2 <= Len(ss)
                 PROVE  g[m + 2] \in Seq(S) /\ Joined(g[m + 2], ss, m + 2)
      OBVIOUS
    <3>1. g[m + 1] \in Seq(S) /\ Joined(g[m + 1], ss, m + 1) /\ ss[m + 2] \in Seq(S)
      BY <1>1, <2>4
    <3>2. g[m + 2] = g[m + 1] \o ss[m + 2]
      <4>1. m + 2 \in 2..Len(ss) /\ (m + 2) - 1 = m + 1
        BY <1>1
      <4> QED BY <2>2, <4>1
    <3>3. (m + 1) + 1 = m + 2 /\ m + 1 \in Nat
      OBVIOUS
    <3>4. Joined(g[m + 1] \o ss[m + 2], ss, (m + 1) + 1)
      BY <3>1, <3>3, JoinedMore
    <3> QED BY <3>1, <3>2, <3>3, <3>4
  <2>5. Nat \subseteq T
    <3> HIDE DEF T
    <3> QED BY <2>3, <2>4, Induct
  <2>6. Len(ss) - 1 \in Nat /\ (Len(ss) - 1) + 1 = Len(ss)
    BY <1>1, <1>3
  <2>7. Len(ss) - 1 \in T
    <3> HIDE DEF T
    <3> QED BY <2>5, <2>6
  <2> QED BY <1>1, <2>6, <2>7
<1> QED BY <1>2, <1>3

IsOnly(g, s, S, n) ==
  g = [i \in 0..n |-> IF i = 0 THEN <<>> ELSE IF s[i] \in S THEN Append(g[i - 1], s[i]) ELSE g[i - 1]]

LEMMA OnlyExists ==
  ASSUME NEW s, NEW S, NEW n \in Nat
  PROVE  \E g : IsOnly(g, s, S, n)
<1> DEFINE T == {m \in Nat : \E g : IsOnly(g, s, S, m)}
<1>1. 0 \in T
  <2> DEFINE g == [i \in 0..0 |-> <<>>]
  <2>1. IsOnly(g, s, S, 0)
    BY DEF IsOnly
  <2> QED BY <2>1
<1>2. ASSUME NEW m \in Nat, m \in T
      PROVE  m + 1 \in T
  <2>1. PICK g : IsOnly(g, s, S, m)
    BY <1>2
  <2> DEFINE h == [i \in 0..(m + 1) |->
                     IF i # m + 1 THEN g[i]
                     ELSE IF s[m + 1] \in S THEN Append(g[m], s[m + 1]) ELSE g[m]]
  <2>2. \A i \in 0..m : g[i] = IF i = 0 THEN <<>>
                               ELSE IF s[i] \in S THEN Append(g[i - 1], s[i]) ELSE g[i - 1]
    BY <2>1 DEF IsOnly
  <2>3. \A i \in 0..m : h[i] = g[i]
    OBVIOUS
  <2>4. h[m + 1] = IF s[m + 1] \in S THEN Append(g[m], s[m + 1]) ELSE g[m]
    OBVIOUS
  <2>5. \A i \in 0..(m + 1) : h[i] = IF i = 0 THEN <<>>
                               ELSE IF s[i] \in S THEN Append(h[i - 1], s[i]) ELSE h[i - 1]
    BY <2>2, <2>3, <2>4
  <2>6. IsOnly(h, s, S, m + 1)
    BY <2>5 DEF IsOnly
  <2> QED BY <2>6
<1>3. Nat \subseteq T
  BY <1>1, <1>2, Induct
<1> QED BY <1>3

LEMMA OnlyIs ==
  ASSUME NEW s, NEW S, Len(s) \in Nat
  PROVE  \E g : IsOnly(g, s, S, Len(s)) /\ Only(s, S) = g[Len(s)]
<1> DEFINE g == CHOOSE g : IsOnly(g, s, S, Len(s))
<1>1. IsOnly(g, s, S, Len(s))
  BY OnlyExists
<1>2. Only(s, S) = g[Len(s)]
  BY DEF Only, IsOnly
<1> QED BY <1>1, <1>2

(* Only keeps what is in S, in its order. *)
LEMMA OnlyKeeps ==
  ASSUME NEW X, NEW s \in Seq(X), NEW S
  PROVE  /\ Only(s, S) \in Seq(X)
         /\ Range(Only(s, S)) = Range(s) \cap S
         /\ \A x, y : Before(Only(s, S), x, y) <=> Before(s, x, y) /\ x \in S /\ y \in S
<1>1. Len(s) \in Nat /\ DOMAIN s = 1..Len(s) /\ \A i \in 1..Len(s) : s[i] \in X
  OBVIOUS
<1> PICK g : IsOnly(g, s, S, Len(s)) /\ Only(s, S) = g[Len(s)]
  BY <1>1, OnlyIs
<1> DEFINE F(i) == IF i = 0 THEN <<>>
                   ELSE IF s[i] \in S THEN Append(g[i - 1], s[i]) ELSE g[i - 1]
<1>2. \A i \in 0..Len(s) : g[i] = F(i)
  <2>1. g = [i \in 0..Len(s) |-> F(i)]
    BY DEF IsOnly
  <2> HIDE DEF F
  <2> QED BY <2>1
<1> DEFINE Kept(m) ==
             /\ g[m] \in Seq(X)
             /\ \A x : x \in Range(g[m]) <=> x \in S /\ \E i \in 1..m : s[i] = x
             /\ \A x, y : Before(g[m], x, y) <=>
                  x \in S /\ y \in S /\ \E i, j \in 1..m : i < j /\ s[i] = x /\ s[j] = y
           T == {m \in Nat : m <= Len(s) => Kept(m)}
<1>3. 0 \in T
  <2>1. g[0] = <<>>
    BY <1>1, <1>2
  <2>2. Range(g[0]) = {} /\ (\A x, y : ~Before(g[0], x, y)) /\ g[0] \in Seq(X)
    BY <2>1, EmptyList
  <2>3. Kept(0)
    BY <2>2
  <2> QED BY <2>3
<1>4. ASSUME NEW m \in Nat, m \in T
      PROVE  m + 1 \in T
  <2> SUFFICES ASSUME m + 1 <= Len(s) PROVE Kept(m + 1)
    OBVIOUS
  <2>1. Kept(m) /\ s[m + 1] \in X
    BY <1>1, <1>4
  <2>2. g[m + 1] = IF s[m + 1] \in S THEN Append(g[m], s[m + 1]) ELSE g[m]
    BY <1>1, <1>2
  <2>3. \A i : i \in 1..(m + 1) <=> i \in 1..m \/ i = m + 1
    OBVIOUS
  <2>4. \A i, j \in 1..(m + 1) : i < j <=>
          (i \in 1..m /\ j \in 1..m /\ i < j) \/ (i \in 1..m /\ j = m + 1)
    OBVIOUS
  <2>5. \A x : (\E i \in 1..(m + 1) : s[i] = x) <=> (\E i \in 1..m : s[i] = x) \/ x = s[m + 1]
    BY <2>3
  <2>6. \A x, y : (\E i, j \in 1..(m + 1) : i < j /\ s[i] = x /\ s[j] = y) <=>
          \/ \E i, j \in 1..m : i < j /\ s[i] = x /\ s[j] = y
          \/ (\E i \in 1..m : s[i] = x) /\ y = s[m + 1]
    BY <2>3, <2>4
  <2>7. CASE s[m + 1] \in S
    <3>1. /\ g[m + 1] \in Seq(X)
          /\ Range(g[m + 1]) = Range(g[m]) \cup {s[m + 1]}
          /\ \A x, y : Before(g[m + 1], x, y) <=> Before(g[m], x, y) \/ (x \in Range(g[m]) /\ y = s[m + 1])
      BY <2>1, <2>2, <2>7, AppendBefore
    <3> QED BY <2>1, <2>5, <2>6, <2>7, <3>1
  <2>8. CASE s[m + 1] \notin S
    BY <2>1, <2>2, <2>5, <2>6, <2>8
  <2> QED BY <2>7, <2>8
<1>5. Len(s) \in T
  <2> HIDE DEF T
  <2> QED BY <1>1, <1>3, <1>4, Induct
<1>6. Kept(Len(s))
  BY <1>1, <1>5
<1>7. Range(Only(s, S)) = Range(s) \cap S
  <2>1. \A x : x \in Range(s) <=> \E i \in 1..Len(s) : s[i] = x
    BY <1>1 DEF Range
  <2>2. Only(s, S) = g[Len(s)]
    OBVIOUS
  <2> HIDE DEF F
  <2> QED BY <1>6, <2>1, <2>2
<1>8. \A x, y : Before(Only(s, S), x, y) <=> Before(s, x, y) /\ x \in S /\ y \in S
  <2>1. \A x, y : Before(s, x, y) <=> \E i, j \in 1..Len(s) : i < j /\ s[i] = x /\ s[j] = y
    BY <1>1 DEF Before
  <2>2. Only(s, S) = g[Len(s)]
    OBVIOUS
  <2> QED BY <1>6, <2>1, <2>2
<1> QED BY <1>6, <1>7, <1>8
LEMMA OnceOnly ==
  ASSUME NEW X, NEW s \in Seq(X), NEW S, Once(s)
  PROVE  Once(Only(s, S))
BY OnlyKeeps DEF Once

LEMMA OnceConcat ==
  ASSUME NEW X, NEW s \in Seq(X), NEW t \in Seq(X), Once(s), Once(t), Range(s) \cap Range(t) = {}
  PROVE  Once(s \o t)
BY ConcatBefore DEF Once

-----------------------------------------------------------------------------
(* The rows *)

LEMMA Least ==
  ASSUME NEW N \in SUBSET Nat, N # {}
  PROVE  \E n \in N : \A m \in N : n <= m
<1>1. PICK n \in N : \A m \in N : ~(<<m, n>> \in OpToRel(<, Nat))
  BY NatLessThanWellFounded, WFMin, Zenon
<1>2. ASSUME NEW m \in N PROVE n <= m
  <2>1. m \in Nat /\ n \in Nat
    OBVIOUS
  <2>2. ~(m < n)
    BY <1>1, <2>1 DEF OpToRel
  <2> QED BY <2>1, <2>2
<1> QED BY <1>2

(* What groupPods puts together has the same pods, each once, and in a     *)
(* flat list in the same order.                                            *)
LEMMA GroupedKeeps ==
  ASSUME NEW pods \in Seq(Pod), Once(pods)
  PROVE  /\ Grouped(pods) \in Seq(Pod)
         /\ Range(Grouped(pods)) = Range(pods)
         /\ Once(Grouped(pods))
         /\ mode = "flat" => \A x, y : Before(Grouped(pods), x, y) => Before(pods, x, y)
<1> DEFINE IsFirst(i) == \A j \in 1..(i - 1) : GroupKey(pods[j]) # GroupKey(pods[i])
           Group(i) == Only(pods, {p \in Pod : GroupKey(p) = GroupKey(pods[i])})
           ss == [i \in 1..Len(pods) |-> IF IsFirst(i) THEN Group(i) ELSE <<>>]
<1>1. Len(pods) \in Nat /\ DOMAIN pods = 1..Len(pods) /\ \A i \in 1..Len(pods) : pods[i] \in Pod
  OBVIOUS
<1>2. ASSUME NEW i \in 1..Len(pods)
      PROVE  /\ Group(i) \in Seq(Pod)
             /\ \A x : x \in Range(Group(i)) <=> x \in Range(pods) /\ GroupKey(x) = GroupKey(pods[i])
             /\ \A x, y : Before(Group(i), x, y) => Before(pods, x, y)
  <2>1. Range(pods) \subseteq Pod
    BY SeqRange
  <2> QED BY <2>1, OnlyKeeps
<1>3. ss \in Seq(Seq(Pod)) /\ Len(ss) = Len(pods)
  <2>1. \A i \in 1..Len(pods) : ss[i] \in Seq(Pod)
    BY <1>2
  <2> HIDE DEF Group, IsFirst
  <2> QED BY <1>1, <2>1
<1>4. Grouped(pods) = FlattenSeq(ss)
  BY DEF Grouped
<1>5. \A i \in 1..Len(pods) : /\ \A x : x \in Range(ss[i]) <=>
                                        IsFirst(i) /\ x \in Range(pods) /\ GroupKey(x) = GroupKey(pods[i])
                              /\ \A x, y : Before(ss[i], x, y) => Before(pods, x, y)
  <2> TAKE i \in 1..Len(pods)
  <2>1. CASE IsFirst(i)
    <3>1. ss[i] = Group(i)
      BY <2>1
    <3> HIDE DEF Group, ss
    <3> QED BY <1>2, <2>1, <3>1
  <2>2. CASE ~IsFirst(i)
    <3>1. ss[i] = <<>>
      BY <2>2
    <3> HIDE DEF Group, ss, IsFirst
    <3> QED BY <2>2, <3>1, EmptyList
  <2> QED BY <2>1, <2>2
<1> DEFINE f == Grouped(pods)
<1>6. f \in Seq(Pod) /\ Joined(f, ss, Len(pods))
  <2> HIDE DEF ss
  <2> QED BY <1>3, <1>4, FlattenJoins
<1>7. \A x : x \in Range(f) <=> \E i \in 1..Len(pods) : x \in Range(ss[i])
  <2> HIDE DEF ss, f
  <2> QED BY <1>6 DEF Joined
<1>8. \A x, y : Before(f, x, y) <=>
        \/ \E i \in 1..Len(pods) : Before(ss[i], x, y)
        \/ \E i, j \in 1..Len(pods) : i < j /\ x \in Range(ss[i]) /\ y \in Range(ss[j])
  BY <1>6 DEF Joined
<1>9. ASSUME NEW i \in 1..Len(pods), NEW j \in 1..Len(pods), i < j, NEW x \in Range(ss[i]), NEW y \in Range(ss[j])
      PROVE  GroupKey(x) # GroupKey(y)
  <2>1. IsFirst(j) /\ GroupKey(x) = GroupKey(pods[i]) /\ GroupKey(y) = GroupKey(pods[j])
    BY <1>5, <1>9
  <2>2. i \in 1..(j - 1)
    BY <1>9
  <2> QED BY <2>1, <2>2
<1>10. ASSUME NEW x \in Range(pods)
       PROVE  x \in Range(f)
  <2> DEFINE N == {i \in 1..Len(pods) : GroupKey(pods[i]) = GroupKey(x)}
  <2>1. PICK k \in 1..Len(pods) : pods[k] = x
    BY <1>1 DEF Range
  <2>2. N # {} /\ N \in SUBSET Nat
    BY <1>1, <2>1
  <2>3. PICK i \in N : \A m \in N : i <= m
    <3> HIDE DEF N
    <3> QED BY <2>2, Least
  <2>4. IsFirst(i) /\ i \in 1..Len(pods)
    BY <1>1, <2>3
  <2>5. x \in Range(ss[i])
    BY <1>5, <2>4
  <2> HIDE DEF N, f
  <2> QED BY <1>7, <2>4, <2>5
<1> HIDE DEF f, ss, Group, IsFirst
<1>11. Range(f) = Range(pods)
  BY <1>5, <1>7, <1>10
<1>12. Once(f)
  <2> SUFFICES ASSUME NEW x, Before(f, x, x) PROVE FALSE
    BY DEF Once
  <2>1. \A i \in 1..Len(pods) : ~Before(ss[i], x, x)
    BY <1>5 DEF Once
  <2> QED BY <1>8, <1>9, <2>1
<1>13. ASSUME mode = "flat", NEW x, NEW y, Before(f, x, y)
       PROVE  Before(pods, x, y)
  <2>1. \A p, q : GroupKey(p) = GroupKey(q)
    BY <1>13 DEF GroupKey
  <2>2. \A i, j \in 1..Len(pods) : i < j => ~(x \in Range(ss[i]) /\ y \in Range(ss[j]))
    BY <1>9, <2>1
  <2>3. PICK i \in 1..Len(pods) : Before(ss[i], x, y)
    BY <1>8, <1>13, <2>2
  <2> QED BY <1>5, <2>3
<1> QED BY <1>6, <1>11, <1>12, <1>13 DEF f

(* What a build rests on. *)
ListFacts ==
  /\ live \subseteq Pod
  /\ rank \in Seq(Pod) /\ Once(rank) /\ Range(rank) = Pod
  /\ order \in Seq(Pod) /\ Once(order)

(* orderedVisiblePods gives the pods that live, each once. *)
LEMMA OrderedLive ==
  ASSUME ListFacts, NEW frozen
  PROVE  Ordered(frozen) \in Seq(Pod) /\ Range(Ordered(frozen)) = live /\ Once(Ordered(frozen))
<1>1. Sorted \in Seq(Pod) /\ Range(Sorted) = live /\ Once(Sorted)
  <2>1. rank \in Seq(Pod) /\ Once(rank) /\ Range(rank) \cap live = live
    BY DEF ListFacts
  <2> QED BY <2>1, OnlyKeeps, OnceOnly DEF Sorted
<1> DEFINE known == Only(order, live)
           new == Only(Sorted, Pod \ Range(order))
<1>2. known \in Seq(Pod) /\ Range(known) = Range(order) \cap live /\ Once(known)
  BY OnlyKeeps, OnceOnly DEF ListFacts
<1>3. new \in Seq(Pod) /\ Range(new) = live \cap (Pod \ Range(order)) /\ Once(new)
  BY <1>1, OnlyKeeps, OnceOnly
<1> HIDE DEF known, new
<1>4. known \o new \in Seq(Pod) /\ Range(known \o new) = Range(known) \cup Range(new)
  BY <1>2, <1>3, ConcatBefore
<1>5. Range(known \o new) = live
  BY <1>2, <1>3, <1>4 DEF ListFacts
<1>6. Once(known \o new)
  BY <1>2, <1>3, OnceConcat
<1>7. Ordered(frozen) \in {Sorted, known \o new}
  BY DEF Ordered, known, new
<1> QED BY <1>1, <1>4, <1>5, <1>6, <1>7

Rows(frozen) == Grouped(Only(Ordered(frozen), query))

LEMMA RowsAre ==
  ASSUME ListFacts, NEW frozen
  PROVE  Rows(frozen) \in Seq(Pod) /\ Range(Rows(frozen)) = live \cap query /\ Once(Rows(frozen))
<1>1. Ordered(frozen) \in Seq(Pod) /\ Range(Ordered(frozen)) = live /\ Once(Ordered(frozen))
  BY OrderedLive
<1>2. /\ Only(Ordered(frozen), query) \in Seq(Pod)
      /\ Range(Only(Ordered(frozen), query)) = live \cap query
      /\ Once(Only(Ordered(frozen), query))
  BY <1>1, OnlyKeeps, OnceOnly
<1> QED BY <1>2, GroupedKeeps DEF Rows

-----------------------------------------------------------------------------
(* The columns *)

LayoutFacts == layout.budget \in Int /\ layout.podLines \in Int

Filled == [pods : Seq(Pod), left : Int]

LEMMA HeaderIs == HeaderLines \in {0, 1}
BY DEF HeaderLines

Begins(c) == {i \in DOMAIN c : i = 1 \/ GroupKey(c[i]) # GroupKey(c[i - 1])}

LEMMA LinesOfOne ==
  ASSUME NEW p \in Pod, LayoutFacts
  PROVE  Lines(<<p>>) = layout.podLines + HeaderLines
<1>1. Begins(<<p>>) = {1}
  BY DEF Begins
<1>2. Cardinality({1}) = 1
  BY FS_Singleton
<1>3. Len(<<p>>) = 1
  OBVIOUS
<1>4. Lines(<<p>>) = 1 * layout.podLines + 1 * (1 + HeaderLines) - 1
  BY <1>1, <1>2, <1>3 DEF Lines, Begins
<1> QED BY <1>4, HeaderIs DEF LayoutFacts

LEMMA LinesOfMore ==
  ASSUME NEW c \in Seq(Pod), c # <<>>, NEW p \in Pod, LayoutFacts
  PROVE  /\ Lines(c) \in Int
         /\ Lines(Append(c, p)) = Lines(c) + layout.podLines +
              (IF GroupKey(Last(c)) = GroupKey(p) THEN 0 ELSE 1 + HeaderLines)
<1> DEFINE d == Append(c, p)
           n == Len(c)
<1>1. /\ n \in Nat /\ n # 0 /\ DOMAIN c = 1..n /\ DOMAIN d = 1..(n + 1) /\ Len(d) = n + 1
      /\ d[n + 1] = p /\ \A i \in 1..n : d[i] = c[i]
  OBVIOUS
<1>2. Last(c) = c[n]
  BY DEF Last
<1> HIDE DEF d, n
<1>3. IsFiniteSet(Begins(c))
  <2>1. IsFiniteSet(1..n)
    BY <1>1, FS_Interval
  <2>2. Begins(c) \subseteq 1..n
    BY <1>1 DEF Begins
  <2> QED BY <2>1, <2>2, FS_Subset
<1>4. Cardinality(Begins(c)) \in Nat
  BY <1>3, FS_CardinalityType
<1>5. \A i \in 1..n : i \in Begins(d) <=> i \in Begins(c)
  <2> TAKE i \in 1..n
  <2>1. i # 1 => i - 1 \in 1..n
    BY <1>1
  <2> QED BY <1>1, <2>1 DEF Begins
<1>6. n + 1 \in Begins(d) <=> GroupKey(p) # GroupKey(c[n])
  <2>1. n + 1 # 1 /\ (n + 1) - 1 = n /\ n \in 1..n /\ n + 1 \in 1..(n + 1)
    BY <1>1
  <2> QED BY <1>1, <2>1 DEF Begins
<1>7. Begins(d) \subseteq 1..(n + 1) /\ Begins(c) \subseteq 1..n /\ n + 1 \notin 1..n
  BY <1>1 DEF Begins
<1>8. \A i \in 1..(n + 1) : i \in 1..n \/ i = n + 1
  BY <1>1
<1>9. CASE GroupKey(c[n]) = GroupKey(p)
  <2>1. Begins(d) = Begins(c)
    BY <1>5, <1>6, <1>7, <1>8, <1>9
  <2> DEFINE k == Cardinality(Begins(c))
  <2>2. Lines(c) = n * layout.podLines + k * (1 + HeaderLines) - 1
    BY DEF Lines, Begins, n
  <2>3. Lines(d) = (n + 1) * layout.podLines + k * (1 + HeaderLines) - 1
    BY <1>1, <2>1 DEF Lines, Begins
  <2> HIDE DEF k
  <2>4. k \in Nat
    BY <1>4 DEF k
  <2>5. (n + 1) * layout.podLines = n * layout.podLines + layout.podLines /\ n * layout.podLines \in Int
    BY <1>1 DEF LayoutFacts
  <2>6. k * (1 + HeaderLines) \in Int
    BY <2>4, HeaderIs
  <2>7. Lines(c) \in Int /\ Lines(d) = Lines(c) + layout.podLines
    BY <2>2, <2>3, <2>5, <2>6 DEF LayoutFacts
  <2> QED BY <1>2, <1>9, <2>7 DEF d, LayoutFacts
<1>10. CASE GroupKey(c[n]) # GroupKey(p)
  <2>1. Begins(d) = Begins(c) \cup {n + 1} /\ n + 1 \notin Begins(c)
    BY <1>5, <1>6, <1>7, <1>8, <1>10
  <2> DEFINE k == Cardinality(Begins(c))
  <2>2. Cardinality(Begins(d)) = k + 1
    BY <1>3, <2>1, FS_AddElement
  <2>3. Lines(c) = n * layout.podLines + k * (1 + HeaderLines) - 1
    BY DEF Lines, Begins, n
  <2>4. Lines(d) = (n + 1) * layout.podLines + (k + 1) * (1 + HeaderLines) - 1
    BY <1>1, <2>2 DEF Lines, Begins
  <2> HIDE DEF k
  <2>5. k \in Nat
    BY <1>4 DEF k
  <2>6. (n + 1) * layout.podLines = n * layout.podLines + layout.podLines /\ n * layout.podLines \in Int
    BY <1>1 DEF LayoutFacts
  <2>7. /\ k * (1 + HeaderLines) \in Int
        /\ (k + 1) * (1 + HeaderLines) = k * (1 + HeaderLines) + (1 + HeaderLines)
    BY <2>5, HeaderIs
  <2>8. Lines(c) \in Int /\ Lines(d) = Lines(c) + layout.podLines + (1 + HeaderLines)
    BY <2>3, <2>4, <2>6, <2>7, HeaderIs DEF LayoutFacts
  <2> QED BY <1>2, <1>10, <2>8 DEF d
<1> QED BY <1>9, <1>10

PodsOf(cols) == [j \in 1..Len(cols) |-> cols[j].pods]

FilledWell(c) ==
  /\ c.pods # <<>>
  /\ c.left = layout.budget - Lines(c.pods)
  /\ Len(c.pods) = 1 \/ c.left >= 0

(* The columns of the rows f. *)
HasColumns(cols, f) ==
  /\ cols \in Seq(Filled)
  /\ \A j \in 1..Len(cols) : FilledWell(cols[j])
  /\ Joined(f, PodsOf(cols), Len(cols))

(* One more pod: at the end of the last column, or in a column of its own. *)
LEMMA PlaceHasColumns ==
  ASSUME NEW cols, NEW f \in Seq(Pod), HasColumns(cols, f), NEW p \in Pod, LayoutFacts
  PROVE  HasColumns(Place(cols, p), Append(f, p))
<1> DEFINE n == Len(cols)
           continues == cols # <<>> /\ GroupKey(Last(Last(cols).pods)) = GroupKey(p)
           cost == layout.podLines + IF continues THEN 0 ELSE 1 + HeaderLines
           top == Last(cols)
           longer == [pods |-> Append(top.pods, p), left |-> top.left - cost]
           fresh == [pods |-> <<p>>, left |-> layout.budget - HeaderLines - layout.podLines]
<1>1. /\ cols \in Seq(Filled) /\ n \in Nat
      /\ \A j \in 1..n : cols[j] \in Filled /\ FilledWell(cols[j])
      /\ cols # <<>> <=> n # 0
  BY DEF HasColumns
<1>2. CASE cols # <<>> /\ top.left >= cost
  <2> DEFINE new == Append(Front(cols), longer)
  <2>1. Place(cols, p) = new
    BY <1>2 DEF Place
  <2>2. n \in 1..n /\ top = cols[n] /\ top \in Filled /\ FilledWell(top)
    BY <1>1, <1>2 DEF Last
  <2>3. top.pods \in Seq(Pod) /\ top.left \in Int /\ top.pods # <<>>
    BY <2>2 DEF Filled, FilledWell
  <2>4. cost \in Int
    BY HeaderIs DEF LayoutFacts
  <2>5. longer \in Filled
    BY <2>3, <2>4 DEF Filled
  <2>6. /\ new \in Seq(Filled) /\ Len(new) = n /\ new[n] = longer
        /\ \A j \in 1..n : j # n => new[j] = cols[j]
    <3>1. n \in Nat /\ n # 0 /\ cols \in Seq(Filled)
      BY <1>1, <1>2
    <3>2. /\ Front(cols) \in Seq(Filled) /\ Len(Front(cols)) = n - 1
          /\ \A j \in 1..(n - 1) : Front(cols)[j] = cols[j]
      <4>1. Front(cols) = SubSeq(cols, 1, n - 1) /\ n - 1 \in Nat
        BY <3>1 DEF Front
      <4>2. SubSeq(cols, 1, n - 1) = [j \in 1..(n - 1) |-> cols[j]]
        BY <3>1, <4>1
      <4> DEFINE front == [j \in 1..(n - 1) |-> cols[j]]
      <4>3. \A j \in 1..(n - 1) : cols[j] \in Filled
        BY <1>1, <3>1
      <4>4. front \in Seq(Filled)
        BY <4>1, <4>3
      <4>5. Len(front) = n - 1
        BY <4>1
      <4> QED BY <4>1, <4>2, <4>4, <4>5
    <3> HIDE DEF longer
    <3> QED BY <2>5, <3>1, <3>2
  <2>7. FilledWell(longer)
    <3>1. Lines(Append(top.pods, p)) = Lines(top.pods) + cost /\ Lines(top.pods) \in Int
      BY <1>2, <2>3, LinesOfMore, HeaderIs DEF LayoutFacts
    <3>2. top.left = layout.budget - Lines(top.pods)
      BY <2>2 DEF FilledWell
    <3>3. Append(top.pods, p) # <<>>
      BY <2>3
    <3> HIDE DEF cost, top
    <3> QED BY <1>2, <2>3, <2>4, <3>1, <3>2, <3>3 DEF FilledWell, LayoutFacts
  <2>8. Joined(Append(f, p), PodsOf(new), n)
    <3>1. /\ PodsOf(cols)[n] = top.pods /\ PodsOf(new)[n] = Append(top.pods, p)
          /\ \A j \in 1..n : j # n => PodsOf(new)[j] = PodsOf(cols)[j]
      <4> HIDE DEF new, top
      <4> QED BY <2>2, <2>6 DEF PodsOf
    <3>2. Joined(f, PodsOf(cols), n)
      BY DEF HasColumns
    <3> HIDE DEF new, top
    <3> QED BY <1>1, <1>2, <2>3, <3>1, <3>2, JoinedLonger
  <2>9. \A j \in 1..n : FilledWell(new[j])
    <3> HIDE DEF new, longer
    <3> QED BY <1>1, <2>6, <2>7
  <2> HIDE DEF new
  <2> QED BY <2>1, <2>6, <2>8, <2>9 DEF HasColumns
<1>3. CASE ~(cols # <<>> /\ top.left >= cost)
  <2> DEFINE new == Append(cols, fresh)
  <2>1. Place(cols, p) = new
    BY <1>3 DEF Place
  <2>2. fresh \in Filled
    BY HeaderIs DEF Filled, LayoutFacts
  <2>3. /\ new \in Seq(Filled) /\ Len(new) = n + 1 /\ new[n + 1] = fresh
        /\ \A j \in 1..n : new[j] = cols[j]
    <3> HIDE DEF fresh
    <3> QED BY <1>1, <2>2
  <2>4. FilledWell(fresh)
    BY LinesOfOne, HeaderIs DEF FilledWell, LayoutFacts
  <2>5. Joined(Append(f, p), PodsOf(new), n + 1)
    <3>1. PodsOf(new)[n + 1] = <<p>> /\ \A j \in 1..n : PodsOf(new)[j] = PodsOf(cols)[j]
      <4>1. n + 1 \in 1..(n + 1) /\ \A j \in 1..n : j \in 1..(n + 1)
        BY <1>1
      <4>2. fresh.pods = <<p>>
        OBVIOUS
      <4> HIDE DEF new, fresh
      <4> QED BY <2>3, <4>1, <4>2 DEF PodsOf
    <3>2. Joined(f, PodsOf(cols), n)
      BY DEF HasColumns
    <3>3. Joined(f, PodsOf(new), n)
      <4> HIDE DEF new
      <4> QED BY <3>1, <3>2 DEF Joined
    <3>4. <<p>> \in Seq(Pod) /\ Append(f, p) = f \o <<p>>
      OBVIOUS
    <3> HIDE DEF new
    <3> QED BY <1>1, <3>1, <3>3, <3>4, JoinedMore
  <2>6. \A j \in 1..(n + 1) : FilledWell(new[j])
    <3>1. \A j \in 1..(n + 1) : j \in 1..n \/ j = n + 1
      BY <1>1
    <3> HIDE DEF new, fresh
    <3> QED BY <1>1, <2>3, <2>4, <3>1
  <2> HIDE DEF new
  <2> QED BY <2>1, <2>3, <2>5, <2>6 DEF HasColumns
<1> QED BY <1>2, <1>3
IsColumns(g, rows, n) == g = [i \in 0..n |-> IF i = 0 THEN <<>> ELSE Place(g[i - 1], rows[i])]

LEMMA ColumnsExist ==
  ASSUME NEW rows, NEW n \in Nat
  PROVE  \E g : IsColumns(g, rows, n)
<1> DEFINE T == {m \in Nat : \E g : IsColumns(g, rows, m)}
<1>1. 0 \in T
  <2> DEFINE g == [i \in 0..0 |-> <<>>]
  <2>1. IsColumns(g, rows, 0)
    BY DEF IsColumns
  <2> QED BY <2>1
<1>2. ASSUME NEW m \in Nat, m \in T
      PROVE  m + 1 \in T
  <2>1. PICK g : IsColumns(g, rows, m)
    BY <1>2
  <2> DEFINE h == [i \in 0..(m + 1) |-> IF i # m + 1 THEN g[i] ELSE Place(g[m], rows[m + 1])]
  <2>2. \A i \in 0..m : g[i] = IF i = 0 THEN <<>> ELSE Place(g[i - 1], rows[i])
    BY <2>1 DEF IsColumns
  <2>3. \A i \in 0..m : h[i] = g[i]
    OBVIOUS
  <2>4. h[m + 1] = Place(g[m], rows[m + 1])
    OBVIOUS
  <2>5. \A i \in 0..(m + 1) : h[i] = IF i = 0 THEN <<>> ELSE Place(h[i - 1], rows[i])
    BY <2>2, <2>3, <2>4
  <2>6. IsColumns(h, rows, m + 1)
    BY <2>5 DEF IsColumns
  <2> QED BY <2>6
<1>3. Nat \subseteq T
  BY <1>1, <1>2, Induct
<1> QED BY <1>3

LEMMA ColumnsIs ==
  ASSUME NEW rows, Len(rows) \in Nat
  PROVE  \E g : IsColumns(g, rows, Len(rows)) /\ Columns(rows) = g[Len(rows)]
<1> DEFINE g == CHOOSE g : IsColumns(g, rows, Len(rows))
<1>1. IsColumns(g, rows, Len(rows))
  BY ColumnsExist
<1>2. Columns(rows) = g[Len(rows)]
  BY DEF Columns, IsColumns
<1> QED BY <1>1, <1>2

(* paginateGroups puts all the rows in columns that are not empty and that *)
(* fit, but for a lone pod.                                                *)
LEMMA ColumnsHold ==
  ASSUME NEW rows \in Seq(Pod), LayoutFacts
  PROVE  HasColumns(Columns(rows), rows)
<1>1. Len(rows) \in Nat /\ \A i \in 1..Len(rows) : rows[i] \in Pod
  OBVIOUS
<1> PICK g : IsColumns(g, rows, Len(rows)) /\ Columns(rows) = g[Len(rows)]
  BY <1>1, ColumnsIs
<1> DEFINE F(i) == IF i = 0 THEN <<>> ELSE Place(g[i - 1], rows[i])
<1>2. \A i \in 0..Len(rows) : g[i] = F(i)
  <2>1. g = [i \in 0..Len(rows) |-> F(i)]
    BY DEF IsColumns
  <2> HIDE DEF F
  <2> QED BY <2>1
<1> DEFINE Upto(m) == SubSeq(rows, 1, m)
           T == {m \in Nat : m <= Len(rows) => HasColumns(g[m], Upto(m))}
<1>3. 0 \in T
  <2>1. g[0] = <<>> /\ Upto(0) = <<>>
    BY <1>1, <1>2
  <2>2. Len(<<>>) = 0 /\ <<>> \in Seq(Filled)
    OBVIOUS
  <2>3. HasColumns(<<>>, <<>>)
    BY <2>2, JoinedNone DEF HasColumns
  <2> QED BY <2>1, <2>3
<1>4. ASSUME NEW m \in Nat, m \in T
      PROVE  m + 1 \in T
  <2> SUFFICES ASSUME m + 1 <= Len(rows) PROVE HasColumns(g[m + 1], Upto(m + 1))
    OBVIOUS
  <2>1. HasColumns(g[m], Upto(m)) /\ rows[m + 1] \in Pod
    BY <1>1, <1>4
  <2>2. g[m + 1] = Place(g[m], rows[m + 1])
    BY <1>1, <1>2
  <2>3. Upto(m) \in Seq(Pod) /\ Upto(m + 1) = Append(Upto(m), rows[m + 1])
    BY <1>1
  <2> HIDE DEF Upto
  <2> QED BY <2>1, <2>2, <2>3, PlaceHasColumns
<1>5. Len(rows) \in T
  <2> HIDE DEF T
  <2> QED BY <1>1, <1>3, <1>4, Induct
<1>6. Upto(Len(rows)) = rows
  OBVIOUS
<1>7. HasColumns(g[Len(rows)], Upto(Len(rows)))
  BY <1>1, <1>5
<1> HIDE DEF Upto
<1> QED BY <1>6, <1>7

-----------------------------------------------------------------------------
(* The pages *)

LEMMA Division ==
  ASSUME NEW a \in Nat, NEW w \in Nat \ {0}
  PROVE  a \div w \in Nat /\ (a \div w) * w <= a /\ a < (a \div w) * w + w
OBVIOUS
LEMMA TimesGrows ==
  ASSUME NEW a \in Nat, NEW b \in Nat, NEW w \in Nat \ {0}
  PROVE  /\ a <= b => a * w <= b * w
         /\ a < b => a * w + w <= b * w
<1>1. ASSUME NEW d \in Nat PROVE d * w \in Nat /\ (d >= 1 => d * w >= w)
  OBVIOUS
<1>2. CASE a <= b
  <2>1. b - a \in Nat /\ b * w = a * w + (b - a) * w
    BY <1>2
  <2> QED BY <1>1, <1>2, <2>1
<1> QED BY <1>2

PageCount(n, w) == (n + w - 1) \div w
PageIndex(w, i, j) == (i - 1) * w + j
PageWidth(n, w, i) == IF w < n - (i - 1) * w THEN w ELSE n - (i - 1) * w

(* The pages of w cut 1..n in pieces that are not empty. *)
LEMMA PagesCut ==
  ASSUME NEW n \in Nat, NEW w \in Nat \ {0}
  PROVE  /\ PageCount(n, w) \in Nat
         /\ \A i \in 1..PageCount(n, w) :
              /\ PageWidth(n, w, i) \in Nat /\ PageWidth(n, w, i) >= 1
              /\ \A j \in 1..PageWidth(n, w, i) : PageIndex(w, i, j) \in 1..n
         /\ \A k \in 1..n : \E i \in 1..PageCount(n, w) : \E j \in 1..PageWidth(n, w, i) :
              PageIndex(w, i, j) = k
         /\ \A i, l \in 1..PageCount(n, w) : i < l =>
              \A j \in 1..PageWidth(n, w, i), m \in 1..PageWidth(n, w, l) :
                PageIndex(w, i, j) < PageIndex(w, l, m)
<1> DEFINE c == PageCount(n, w)
<1>1. n + w - 1 \in Nat
  OBVIOUS
<1>2. c \in Nat /\ c * w <= n + w - 1 /\ n + w - 1 < c * w + w
  BY <1>1, Division DEF PageCount
<1> HIDE DEF c
<1>3. ASSUME NEW i \in 1..c
      PROVE  (i - 1) * w \in Nat /\ (i - 1) * w < n
  <2>1. i - 1 \in Nat /\ i - 1 < c
    BY <1>2
  <2>2. (i - 1) * w + w <= c * w
    BY <1>2, <2>1, TimesGrows
  <2>3. (i - 1) * w \in Nat /\ c * w \in Nat
    BY <1>2, <2>1
  <2> QED BY <1>2, <2>2, <2>3
<1>4. ASSUME NEW i \in 1..c
      PROVE  /\ PageWidth(n, w, i) \in Nat /\ PageWidth(n, w, i) >= 1 /\ PageWidth(n, w, i) <= w
             /\ \A j \in 1..PageWidth(n, w, i) : PageIndex(w, i, j) \in 1..n
  <2> DEFINE at == (i - 1) * w
  <2>1. at \in Nat /\ at < n
    BY <1>3
  <2>2. PageWidth(n, w, i) = (IF w < n - at THEN w ELSE n - at)
        /\ \A j : PageIndex(w, i, j) = at + j
    BY DEF PageWidth, PageIndex
  <2> HIDE DEF at
  <2> QED BY <2>1, <2>2
<1>5. ASSUME NEW k \in 1..n
      PROVE  \E i \in 1..c : \E j \in 1..PageWidth(n, w, i) : PageIndex(w, i, j) = k
  <2> DEFINE q == (k - 1) \div w
  <2>1. k - 1 \in Nat
    OBVIOUS
  <2>2. q \in Nat /\ q * w <= k - 1 /\ k - 1 < q * w + w
    BY <2>1, Division
  <2> HIDE DEF q
  <2>3. q < c
    <3>1. ASSUME c <= q PROVE FALSE
      <4>1. c * w <= q * w
        BY <1>2, <2>2, <3>1, TimesGrows
      <4>2. c * w \in Nat /\ q * w \in Nat
        BY <1>2, <2>2
      <4> QED BY <1>2, <2>2, <4>1, <4>2
    <3> QED BY <1>2, <2>2, <3>1
  <2>4. q * w \in Nat
    BY <2>2
  <2>5. q + 1 \in 1..c /\ (q + 1) - 1 = q
    BY <1>2, <2>2, <2>3
  <2> DEFINE j == k - q * w
  <2>6. j \in 1..PageWidth(n, w, q + 1) /\ PageIndex(w, q + 1, j) = k
    BY <2>2, <2>4, <2>5 DEF PageWidth, PageIndex
  <2> QED BY <2>5, <2>6
<1>6. ASSUME NEW i \in 1..c, NEW l \in 1..c, i < l,
             NEW j \in 1..PageWidth(n, w, i), NEW m \in 1..PageWidth(n, w, l)
      PROVE  PageIndex(w, i, j) < PageIndex(w, l, m)
  <2>1. i - 1 \in Nat /\ l - 1 \in Nat /\ i - 1 < l - 1
    BY <1>2, <1>6
  <2>2. (i - 1) * w + w <= (l - 1) * w
    BY <2>1, TimesGrows
  <2>3. (i - 1) * w \in Nat /\ (l - 1) * w \in Nat
    BY <1>3
  <2>4. j \in Nat /\ j <= w /\ m \in Nat /\ m >= 1
    BY <1>4
  <2> QED BY <2>2, <2>3, <2>4 DEF PageIndex
<1> QED BY <1>2, <1>4, <1>5, <1>6 DEF c
LEMMA PaginateIs ==
  ASSUME NEW rows
  PROVE  Paginate(rows) =
           LET cols == Columns(rows)
               w == layout.columns
           IN  [i \in 1..PageCount(Len(cols), w) |->
                  [j \in 1..PageWidth(Len(cols), w, i) |-> cols[PageIndex(w, i, j)].pods]]
BY DEF Paginate, PageCount, PageWidth, PageIndex

AllPods(pages) == FlattenSeq([i \in DOMAIN pages |-> PagePods(pages[i])])

ColumnFits(c) == Len(c) = 1 \/ Lines(c) <= layout.budget

(* The pages hold all the rows, each once, in columns that fit.            *)
LEMMA PagesHold ==
  ASSUME NEW rows \in Seq(Pod), Once(rows), LayoutFacts, layout.columns \in Nat \ {0}
  PROVE  LET pages == Paginate(rows)
         IN  /\ pages \in Seq(Seq(Seq(Pod)))
             /\ \A i \in 1..Len(pages) :
                  /\ pages[i] # <<>>
                  /\ \A j \in 1..Len(pages[i]) : pages[i][j] # <<>> /\ ColumnFits(pages[i][j])
             /\ AllPods(pages) \in Seq(Pod)
             /\ Range(AllPods(pages)) = Range(rows) /\ Once(AllPods(pages))
             /\ \A x : x \in Range(rows) <=> \E i \in 1..Len(pages) : x \in Range(PagePods(pages[i]))
             /\ \A i \in 1..Len(pages) :
                  /\ PagePods(pages[i]) \in Seq(Pod)
                  /\ \A x : x \in Range(PagePods(pages[i])) <=>
                             \E j \in 1..Len(pages[i]) : x \in Range(pages[i][j])
<1> DEFINE pages == Paginate(rows)
           cols == Columns(rows)
           n == Len(cols)
           w == layout.columns
           c == PageCount(n, w)
           W(i) == PageWidth(n, w, i)
           K(i, j) == PageIndex(w, i, j)
<1>1. /\ cols \in Seq(Filled) /\ n \in Nat
      /\ \A k \in 1..n : cols[k] \in Filled /\ FilledWell(cols[k])
      /\ Joined(rows, PodsOf(cols), n)
  BY ColumnsHold DEF HasColumns
<1>2. /\ c \in Nat
      /\ \A i \in 1..c : W(i) \in Nat /\ W(i) >= 1 /\ \A j \in 1..W(i) : K(i, j) \in 1..n
      /\ \A k \in 1..n : \E i \in 1..c : \E j \in 1..W(i) : K(i, j) = k
      /\ \A i, l \in 1..c : i < l => \A j \in 1..W(i), m \in 1..W(l) : K(i, j) < K(l, m)
  BY <1>1, PagesCut
<1>3. \A i \in 1..c : \A j, m \in 1..W(i) : j < m => K(i, j) < K(i, m)
  <2> TAKE i \in 1..c
  <2> TAKE j, m \in 1..W(i)
  <2> HAVE j < m
  <2>1. w \in Int /\ i - 1 \in Int /\ j \in Int /\ m \in Int
    OBVIOUS
  <2> HIDE DEF w, W, c
  <2>2. (i - 1) * w \in Int
    BY <2>1
  <2>3. (i - 1) * w + j < (i - 1) * w + m
    BY <2>1, <2>2
  <2> QED BY <2>3 DEF PageIndex
<1>4. /\ pages = [i \in 1..c |-> [j \in 1..W(i) |-> cols[K(i, j)].pods]]
  BY PaginateIs
<1> DEFINE P(k) == cols[k].pods
<1>5. /\ \A k \in 1..n : P(k) \in Seq(Pod) /\ P(k) # <<>> /\ ColumnFits(P(k))
      /\ Joined(rows, [k \in 1..n |-> P(k)], n)
  <2>1. ASSUME NEW k \in 1..n
        PROVE  P(k) \in Seq(Pod) /\ P(k) # <<>> /\ ColumnFits(P(k))
    <3>1. cols[k] \in Filled /\ FilledWell(cols[k])
      BY <1>1
    <3>2. P(k) \in Seq(Pod) /\ P(k) # <<>>
      BY <3>1 DEF Filled, FilledWell
    <3>3. Lines(P(k)) \in Int
      <4>1. P(k)[1] \in Pod
        <5> HIDE DEF P
        <5> QED BY <3>2
      <4> HIDE DEF P
      <4> QED BY <3>2, <4>1, LinesOfMore
    <3> QED BY <3>1, <3>2, <3>3 DEF FilledWell, ColumnFits, LayoutFacts
  <2> QED BY <1>1, <2>1 DEF PodsOf
<1>6. /\ \A x : x \in Range(rows) <=> \E k \in 1..n : x \in Range(P(k))
      /\ \A x, y : Before(rows, x, y) <=>
           \/ \E k \in 1..n : Before(P(k), x, y)
           \/ \E k, l \in 1..n : k < l /\ x \in Range(P(k)) /\ y \in Range(P(l))
  <2> HIDE DEF n, P
  <2> QED BY <1>5 DEF Joined
<1> HIDE DEF pages, cols, n, w, c, W, K, P
<1>7. /\ DOMAIN pages = 1..c /\ Len(pages) = c
      /\ \A i \in 1..c : /\ pages[i] \in Seq(Seq(Pod)) /\ Len(pages[i]) = W(i)
                         /\ \A j \in 1..W(i) : pages[i][j] = P(K(i, j))
  <2>1. \A i \in 1..c : pages[i] = [j \in 1..W(i) |-> P(K(i, j))]
    BY <1>4 DEF P
  <2>2. \A i \in 1..c : \A j \in 1..W(i) : P(K(i, j)) \in Seq(Pod)
    BY <1>2, <1>5
  <2>3. ASSUME NEW i \in 1..c
        PROVE  /\ pages[i] \in Seq(Seq(Pod)) /\ Len(pages[i]) = W(i)
               /\ \A j \in 1..W(i) : pages[i][j] = P(K(i, j))
    <3> DEFINE pg == [j \in 1..W(i) |-> P(K(i, j))]
    <3>1. pages[i] = pg
      BY <2>1
    <3>2. W(i) \in Nat /\ \A j \in 1..W(i) : P(K(i, j)) \in Seq(Pod)
      BY <1>2, <2>2
    <3>3. pg \in Seq(Seq(Pod)) /\ Len(pg) = W(i)
      BY <3>2
    <3> QED BY <3>1, <3>3
  <2>4. DOMAIN pages = 1..c /\ Len(pages) = c
    BY <1>2, <1>4
  <2> QED BY <2>3, <2>4
<1>8. pages \in Seq(Seq(Seq(Pod)))
  <2> DEFINE pp == [i \in 1..c |-> pages[i]]
  <2>1. pages = pp
    BY <1>4
  <2>2. c \in Nat /\ \A i \in 1..c : pages[i] \in Seq(Seq(Pod))
    BY <1>2, <1>7
  <2>3. pp \in Seq(Seq(Seq(Pod)))
    BY <2>2
  <2> QED BY <2>1, <2>3
<1>9. ASSUME NEW i \in 1..c
      PROVE  /\ PagePods(pages[i]) \in Seq(Pod)
             /\ \A x : x \in Range(PagePods(pages[i])) <=> \E j \in 1..W(i) : x \in Range(P(K(i, j)))
             /\ \A x, y : Before(PagePods(pages[i]), x, y) => Before(rows, x, y)
  <2>1. PagePods(pages[i]) \in Seq(Pod) /\ Joined(PagePods(pages[i]), pages[i], W(i))
    BY <1>7, FlattenJoins DEF PagePods
  <2>2. \A x : x \in Range(PagePods(pages[i])) <=> \E j \in 1..W(i) : x \in Range(P(K(i, j)))
    BY <1>7, <2>1 DEF Joined
  <2>3. ASSUME NEW x, NEW y, Before(PagePods(pages[i]), x, y)
        PROVE  Before(rows, x, y)
    <3>1. \/ \E j \in 1..W(i) : Before(pages[i][j], x, y)
          \/ \E j, m \in 1..W(i) : j < m /\ x \in Range(pages[i][j]) /\ y \in Range(pages[i][m])
      BY <2>1, <2>3 DEF Joined
    <3>2. ASSUME NEW j \in 1..W(i), Before(pages[i][j], x, y) PROVE Before(rows, x, y)
      <4>1. Before(P(K(i, j)), x, y) /\ K(i, j) \in 1..n
        BY <1>2, <1>7, <3>2
      <4> QED BY <1>6, <4>1
    <3>3. ASSUME NEW j \in 1..W(i), NEW m \in 1..W(i), j < m, x \in Range(pages[i][j]), y \in Range(pages[i][m])
          PROVE  Before(rows, x, y)
      <4>1. K(i, j) < K(i, m) /\ K(i, j) \in 1..n /\ K(i, m) \in 1..n
        BY <1>2, <1>3, <3>3
      <4>2. x \in Range(P(K(i, j))) /\ y \in Range(P(K(i, m)))
        BY <1>7, <3>3
      <4> QED BY <1>6, <4>1, <4>2
    <3> QED BY <3>1, <3>2, <3>3
  <2> QED BY <2>1, <2>2, <2>3
<1>10. \A x : x \in Range(rows) <=> \E i \in 1..c : x \in Range(PagePods(pages[i]))
  <2> TAKE x
  <2>1. ASSUME NEW i \in 1..c, x \in Range(PagePods(pages[i])) PROVE x \in Range(rows)
    <3> PICK j \in 1..W(i) : x \in Range(P(K(i, j)))
      BY <1>9, <2>1
    <3> QED BY <1>2, <1>6
  <2>2. ASSUME x \in Range(rows) PROVE \E i \in 1..c : x \in Range(PagePods(pages[i]))
    <3> PICK k \in 1..n : x \in Range(P(k))
      BY <1>6, <2>2
    <3> PICK i \in 1..c : \E j \in 1..W(i) : K(i, j) = k
      BY <1>2
    <3> QED BY <1>9
  <2> QED BY <2>1, <2>2
<1> DEFINE ss == [i \in DOMAIN pages |-> PagePods(pages[i])]
           f == AllPods(pages)
<1>11. ss \in Seq(Seq(Pod)) /\ Len(ss) = c /\ \A i \in 1..c : ss[i] = PagePods(pages[i])
  BY <1>2, <1>7, <1>9
<1>12. f \in Seq(Pod) /\ Joined(f, ss, c)
  <2>1. f = FlattenSeq(ss)
    BY DEF AllPods
  <2> HIDE DEF ss
  <2> QED BY <1>11, <2>1, FlattenJoins
<1> HIDE DEF ss, f
<1>13. Range(f) = Range(rows)
  <2>1. \A x : x \in Range(f) <=> \E i \in 1..c : x \in Range(ss[i])
    BY <1>12 DEF Joined
  <2> QED BY <1>10, <1>11, <2>1
<1>14. Once(f)
  <2> SUFFICES ASSUME NEW x, Before(f, x, x) PROVE Before(rows, x, x)
    BY DEF Once
  <2>1. \/ \E i \in 1..c : Before(ss[i], x, x)
        \/ \E i, l \in 1..c : i < l /\ x \in Range(ss[i]) /\ x \in Range(ss[l])
    BY <1>12 DEF Joined
  <2>2. ASSUME NEW i \in 1..c, Before(ss[i], x, x) PROVE Before(rows, x, x)
    BY <1>9, <1>11, <2>2
  <2>3. ASSUME NEW i \in 1..c, NEW l \in 1..c, i < l, x \in Range(ss[i]), x \in Range(ss[l])
        PROVE  Before(rows, x, x)
    <3> PICK j \in 1..W(i) : x \in Range(P(K(i, j)))
      BY <1>9, <1>11, <2>3
    <3> PICK m \in 1..W(l) : x \in Range(P(K(l, m)))
      BY <1>9, <1>11, <2>3
    <3>1. K(i, j) < K(l, m) /\ K(i, j) \in 1..n /\ K(l, m) \in 1..n
      BY <1>2, <2>3
    <3> QED BY <1>6, <3>1
  <2> QED BY <2>1, <2>2, <2>3
<1>15. \A i \in 1..c : /\ pages[i] # <<>>
                      /\ \A j \in 1..W(i) : pages[i][j] # <<>> /\ ColumnFits(pages[i][j])
  <2> TAKE i \in 1..c
  <2>1. pages[i] # <<>>
    BY <1>2, <1>7
  <2>2. \A j \in 1..W(i) : pages[i][j] # <<>> /\ ColumnFits(pages[i][j])
    <3> TAKE j \in 1..W(i)
    <3>1. K(i, j) \in 1..n /\ pages[i][j] = P(K(i, j))
      BY <1>2, <1>7
    <3> QED BY <1>5, <3>1
  <2> QED BY <2>1, <2>2
<1>16. \A i \in 1..c : \A x : x \in Range(PagePods(pages[i])) <=>
                           \E j \in 1..Len(pages[i]) : x \in Range(pages[i][j])
  <2> TAKE i \in 1..c
  <2>1. Len(pages[i]) = W(i) /\ \A j \in 1..W(i) : pages[i][j] = P(K(i, j))
    BY <1>7
  <2>2. \A x : x \in Range(PagePods(pages[i])) <=> \E j \in 1..W(i) : x \in Range(P(K(i, j)))
    BY <1>9
  <2> QED BY <2>1, <2>2
<1> QED BY <1>7, <1>8, <1>9, <1>10, <1>12, <1>13, <1>14, <1>15, <1>16 DEF pages, f

-----------------------------------------------------------------------------
(* A build *)

TypedLayout == LayoutFacts /\ layout.columns \in Nat \ {0}

LEMMA ClampIn ==
  ASSUME NEW i \in Int, NEW n \in Nat, n # 0
  PROVE  Clamp(i, n) \in 1..n
BY DEF Clamp

LEMMA IndexInIs ==
  ASSUME NEW S, NEW s \in Seq(S), NEW x \in Range(s)
  PROVE  IndexIn(s, x) \in 1..Len(s) /\ s[IndexIn(s, x)] = x
<1>1. DOMAIN s = 1..Len(s)
  OBVIOUS
<1>2. \E i \in DOMAIN s : s[i] = x
  BY DEF Range
<1> QED BY <1>1, <1>2 DEF IndexIn

(* The list that a build gives: its rows are the pods that live and match, *)
(* its pages hold them, and the selected one is on the page it is at.      *)
LEMMA BuildIs ==
  ASSUME ListFacts, TypedLayout, NEW frozen
  PROVE  LET s == Build(frozen)
         IN  /\ s.order = Ordered(frozen)
             /\ s.rows \in Seq(Pod) /\ Range(s.rows) = live \cap query /\ Once(s.rows)
             /\ s.pages = Paginate(s.rows) /\ s.pages \in Seq(Seq(Seq(Pod)))
             /\ s.page \in Nat \ {0}
             /\ (pinned \in BOOLEAN => s.pinned \in BOOLEAN)
             /\ s.rows = <<>> => s.selected = Nil /\ s.pages = <<>>
             /\ s.rows # <<>> =>
                  /\ s.selected \in Pod /\ s.selected \in Range(s.rows)
                  /\ s.page \in 1..Len(s.pages)
                  /\ s.selected \in Range(PagePods(s.pages[s.page]))
<1> DEFINE s == Build(frozen)
           rows == Rows(frozen)
           pages == Paginate(rows)
<1>1. /\ s.order = Ordered(frozen) /\ s.rows = rows /\ s.pages = pages
      /\ s.selected = SelectionIn(rows) /\ s.pinned = (pinned /\ rows # <<>>)
      /\ s.page = PageOf(pages, SelectionIn(rows))
  BY DEF Build, Rows
<1>2. rows \in Seq(Pod) /\ Range(rows) = live \cap query /\ Once(rows)
  BY RowsAre
<1>3. /\ pages \in Seq(Seq(Seq(Pod))) /\ DOMAIN pages = 1..Len(pages) /\ Len(pages) \in Nat
      /\ \A x : x \in Range(rows) <=> \E i \in 1..Len(pages) : x \in Range(PagePods(pages[i]))
      /\ \A i \in 1..Len(pages) :
           /\ pages[i] \in Seq(Seq(Pod)) /\ pages[i] # <<>>
           /\ \A j \in 1..Len(pages[i]) : pages[i][j] \in Seq(Pod) /\ pages[i][j] # <<>>
           /\ \A x : x \in Range(PagePods(pages[i])) <=> \E j \in 1..Len(pages[i]) : x \in Range(pages[i][j])
  <2>1. pages \in Seq(Seq(Seq(Pod)))
    BY <1>2, PagesHold DEF TypedLayout
  <2>2. DOMAIN pages = 1..Len(pages) /\ Len(pages) \in Nat
        /\ \A i \in 1..Len(pages) : pages[i] \in Seq(Seq(Pod)) /\ \A j \in 1..Len(pages[i]) : pages[i][j] \in Seq(Pod)
    <3> HIDE DEF pages
    <3> QED BY <2>1
  <2> QED BY <1>2, <2>1, <2>2, PagesHold DEF TypedLayout
<1> HIDE DEF s, rows, pages
<1>4. pinned \in BOOLEAN => s.pinned \in BOOLEAN
  BY <1>1
<1>5. CASE rows = <<>>
  <2>1. Range(rows) = {} /\ SelectionIn(rows) = Nil
    BY <1>5, EmptyList DEF SelectionIn
  <2>2. pages = <<>>
    <3> SUFFICES ASSUME pages # <<>> PROVE FALSE
      OBVIOUS
    <3>1. 1 \in 1..Len(pages)
      BY <1>3
    <3>2. 1 \in 1..Len(pages[1]) /\ pages[1][1] \in Seq(Pod) /\ pages[1][1] # <<>>
      BY <1>3, <3>1
    <3>3. pages[1][1][1] \in Range(pages[1][1])
      <4>1. 1 \in 1..Len(pages[1][1])
        BY <3>2
      <4> QED BY <3>2, <4>1, SeqRange
    <3> QED BY <1>3, <2>1, <3>1, <3>2, <3>3
  <2>3. PageOf(pages, SelectionIn(rows)) = 1
    BY <2>2 DEF PageOf
  <2>4. /\ s.page = 1 /\ s.rows = <<>> /\ s.selected = Nil /\ s.pages = <<>> /\ s.pages = Paginate(s.rows)
        /\ s.order = Ordered(frozen)
    BY <1>1, <1>5, <2>1, <2>2, <2>3 DEF pages
  <2>5. s.rows \in Seq(Pod) /\ Range(s.rows) = live \cap query /\ Once(s.rows) /\ s.pages \in Seq(Seq(Seq(Pod)))
    BY <1>1, <1>2, <1>3
  <2> QED BY <1>4, <2>4, <2>5 DEF s
<1>6. CASE rows # <<>>
  <2>1. SelectionIn(rows) \in Range(rows)
    <3>1. rows[1] \in Range(rows)
      <4>1. 1 \in 1..Len(rows)
        BY <1>2, <1>6
      <4> QED BY <1>2, <4>1, SeqRange
    <3> QED BY <1>6, <3>1 DEF SelectionIn
  <2> DEFINE i == PageOf(pages, SelectionIn(rows))
  <2>2. i \in 1..Len(pages) /\ SelectionIn(rows) \in Range(PagePods(pages[i]))
    BY <1>3, <2>1 DEF PageOf
  <2>3. SelectionIn(rows) \in Pod
    BY <1>2, <2>1 DEF ListFacts
  <2>4. /\ s.order = Ordered(frozen) /\ s.pages = Paginate(s.rows) /\ s.rows # <<>>
        /\ s.rows \in Seq(Pod) /\ Range(s.rows) = live \cap query /\ Once(s.rows)
        /\ s.pages \in Seq(Seq(Seq(Pod)))
    BY <1>1, <1>2, <1>3, <1>6 DEF pages
  <2>5. /\ s.selected \in Pod /\ s.selected \in Range(s.rows)
        /\ s.page \in 1..Len(s.pages)
        /\ s.selected \in Range(PagePods(s.pages[s.page]))
    BY <1>1, <2>1, <2>2, <2>3
  <2>6. s.page \in Nat \ {0}
    BY <2>5
  <2> QED BY <1>4, <2>4, <2>5, <2>6 DEF s
<1> QED BY <1>5, <1>6

-----------------------------------------------------------------------------
(* The invariant *)

Frames == [rows : Seq(Pod), page : Seq(Pod), selected : Pod \cup {Nil},
           mode : {"namespace", "workload", "flat"}, kept : BOOLEAN]

(* What holds of the list's variables, whatever dialogs there are.         *)
ListBasics ==
  /\ live \subseteq Pod /\ query \subseteq Pod
  /\ rank \in Rankings
  /\ order \in Seq(Pod) /\ Once(order)
  /\ mode \in {"namespace", "workload", "flat"}
  /\ layout \in Layout
  /\ selected \in Pod \cup {Nil}
  /\ paused \in BOOLEAN /\ filtering \in BOOLEAN /\ pinned \in BOOLEAN
  /\ page \in Nat \ {0}
  /\ doing.op \in {"column", "page"} => doing.arg \in Int
  /\ shown \in Frames
  /\ Range(shown.rows) \subseteq live
  /\ SelectionIsOnPage

(* The flat rows that are shown are in the remembered order, until the     *)
(* footer's build leaves another one or a build sorts anew for the View    *)
(* that is due.                                                            *)
ShownInOrder ==
  /\ shown.mode = "flat"
  /\ shown.kept \/ doing = FooterDue
  /\ doing = Idle \/ paused
  /\ ~(doing = ViewDue /\ order = <<>>)
  => \A x, y : Before(shown.rows, x, y) => Before(order, x, y)

ListInv ==
  /\ ListBasics
  /\ doing.op \in {"idle", "view", "footer", "column", "page"}
  /\ ShownInOrder

LEMMA BasicFacts ==
  ASSUME ListBasics
  PROVE  ListFacts /\ TypedLayout
<1>1. rank \in Seq(Pod) /\ IsInjective(rank) /\ Range(rank) = Pod
  BY RankingsRankAll DEF ListBasics
<1>2. ListFacts
  BY <1>1, OnceIsInjective DEF ListBasics, ListFacts
<1>3. TypedLayout
  BY LayoutsArePositive DEF ListBasics, Layout, TypedLayout, LayoutFacts
<1> QED BY <1>2, <1>3

(* What every handler that builds the list leaves.                         *)
Touched(frozen) ==
  /\ order' = Ordered(frozen)
  /\ selected' \in Pod \cup {Nil}
  /\ pinned' \in BOOLEAN
  /\ page' \in Nat \ {0}

LEMMA KeepTouches ==
  ASSUME ListBasics, NEW frozen, Keep(Build(frozen))
  PROVE  Touched(frozen)
<1> DEFINE s == Build(frozen)
<1>1. /\ s.order = Ordered(frozen) /\ s.page \in Nat \ {0} /\ s.pinned \in BOOLEAN
      /\ s.selected \in Pod \cup {Nil}
  BY BasicFacts, BuildIs DEF ListBasics
<1> HIDE DEF s
<1>2. Keep(s)
  BY DEF s
<1> QED BY <1>1, <1>2 DEF Keep, Touched

LEMMA SelectTouches ==
  ASSUME ListBasics, NEW frozen, NEW p \in Pod, NEW pg \in Nat \ {0}, Select(Build(frozen), p, pg)
  PROVE  Touched(frozen)
<1> DEFINE s == Build(frozen)
<1>1. s.order = Ordered(frozen)
  BY BasicFacts, BuildIs
<1> HIDE DEF s
<1>2. Select(s, p, pg)
  BY DEF s
<1> QED BY <1>1, <1>2 DEF Select, Touched

(* The column of the selected pod.                                         *)
LEMMA SelectedColumn ==
  ASSUME ListBasics, NEW frozen, Build(frozen).rows # <<>>
  PROVE  LET s == Build(frozen)
         IN  /\ Len(s.pages[s.page]) \in Nat /\ ColumnOf(s) \in 1..Len(s.pages[s.page])
             /\ s.selected \in Range(s.pages[s.page][ColumnOf(s)])
             /\ \A j \in 1..Len(s.pages[s.page]) :
                  s.pages[s.page][j] \in Seq(Pod) /\ Len(s.pages[s.page][j]) \in Nat \ {0}
<1> DEFINE s == Build(frozen)
<1>1. /\ s.rows \in Seq(Pod) /\ Once(s.rows) /\ s.pages = Paginate(s.rows) /\ s.pages \in Seq(Seq(Seq(Pod)))
      /\ s.page \in 1..Len(s.pages)
      /\ s.selected \in Range(PagePods(s.pages[s.page]))
  BY BasicFacts, BuildIs
<1>2. \A i \in 1..Len(s.pages) :
        /\ \A j \in 1..Len(s.pages[i]) : s.pages[i][j] # <<>>
        /\ \A x : x \in Range(PagePods(s.pages[i])) <=> \E j \in 1..Len(s.pages[i]) : x \in Range(s.pages[i][j])
  <2>1. LayoutFacts /\ layout.columns \in Nat \ {0}
    BY BasicFacts DEF TypedLayout
  <2> HIDE DEF s
  <2> QED BY <1>1, <2>1, PagesHold
<1> HIDE DEF s
<1> DEFINE pg == s.pages[s.page]
<1>3. pg \in Seq(Seq(Pod)) /\ Len(pg) \in Nat /\ DOMAIN pg = 1..Len(pg)
  BY <1>1
<1>4. \A j \in 1..Len(pg) : pg[j] \in Seq(Pod) /\ Len(pg[j]) \in Nat \ {0}
  <2> TAKE j \in 1..Len(pg)
  <2>1. pg[j] \in Seq(Pod) /\ pg[j] # <<>>
    BY <1>1, <1>2, <1>3
  <2> QED BY <2>1
<1>5. \E j \in DOMAIN pg : s.selected \in Range(pg[j])
  BY <1>1, <1>2, <1>3
<1>6. ColumnOf(s) \in 1..Len(pg) /\ s.selected \in Range(pg[ColumnOf(s)])
  BY <1>3, <1>5 DEF ColumnOf
<1> QED BY <1>3, <1>4, <1>6 DEF s

LEMMA UpDownTouches ==
  ASSUME ListBasics, NEW offset \in Int, UpDown(offset)
  PROVE  Touched(TRUE)
<1> DEFINE s == Build(TRUE)
           pods == IF IsMultiColumn(s) THEN s.pages[s.page][ColumnOf(s)] ELSE s.rows
           at == Clamp(IndexIn(pods, s.selected) + offset, Len(pods))
<1>1. CASE s.rows = <<>>
  BY <1>1, KeepTouches DEF UpDown
<1>2. CASE s.rows # <<>>
  <2>1. s.rows \in Seq(Pod) /\ s.selected \in Range(s.rows) /\ s.page \in Nat \ {0}
    BY <1>2, BasicFacts, BuildIs
  <2>2. /\ s.selected \in Range(s.pages[s.page][ColumnOf(s)])
        /\ s.pages[s.page][ColumnOf(s)] \in Seq(Pod) /\ Len(s.pages[s.page][ColumnOf(s)]) \in Nat \ {0}
    BY <1>2, SelectedColumn
  <2>3. Select(s, pods[at], s.page)
    BY <1>2 DEF UpDown
  <2> HIDE DEF s
  <2>4. pods \in Seq(Pod) /\ s.selected \in Range(pods) /\ Len(pods) \in Nat /\ Len(pods) # 0
    BY <1>2, <2>1, <2>2
  <2> HIDE DEF pods
  <2>5. IndexIn(pods, s.selected) \in 1..Len(pods)
    BY <2>4, IndexInIs
  <2>6. at \in 1..Len(pods)
    <3>1. IndexIn(pods, s.selected) + offset \in Int
      BY <2>5
    <3> QED BY <2>4, <3>1, ClampIn
  <2>7. pods[at] \in Pod
    BY <2>4, <2>6
  <2> HIDE DEF at
  <2> QED BY <2>1, <2>3, <2>7, SelectTouches DEF s
<1> QED BY <1>1, <1>2

LEMMA SelectPageTouches ==
  ASSUME ListBasics, NEW frozen, NEW target \in Int, SelectPage(Build(frozen), target)
  PROVE  Touched(frozen)
<1> DEFINE s == Build(frozen)
           pg == Clamp(target, Len(s.pages))
           pods == PagePods(s.pages[pg])
<1>1. CASE s.pages = <<>>
  BY <1>1, KeepTouches DEF SelectPage
<1>2. CASE s.pages # <<>>
  <2>1. s.rows \in Seq(Pod) /\ Once(s.rows) /\ s.pages = Paginate(s.rows) /\ s.pages \in Seq(Seq(Seq(Pod)))
    BY BasicFacts, BuildIs
  <2>2. Select(s, pods[1], pg)
    BY <1>2 DEF SelectPage
  <2> HIDE DEF s
  <2>3. pg \in 1..Len(s.pages) /\ pg \in Nat \ {0}
    <3>1. Len(s.pages) \in Nat /\ Len(s.pages) # 0
      BY <1>2, <2>1
    <3>2. pg \in 1..Len(s.pages)
      BY <3>1, ClampIn
    <3> HIDE DEF pg
    <3> QED BY <3>1, <3>2
  <2>4. pods \in Seq(Pod) /\ pods # <<>>
    <3>1. LayoutFacts /\ layout.columns \in Nat \ {0}
      BY BasicFacts DEF TypedLayout
    <3> HIDE DEF pg
    <3>2. /\ PagePods(s.pages[pg]) \in Seq(Pod) /\ s.pages[pg] # <<>>
          /\ \A j \in 1..Len(s.pages[pg]) : s.pages[pg][j] # <<>>
          /\ \A x : x \in Range(PagePods(s.pages[pg])) <=>
                     \E j \in 1..Len(s.pages[pg]) : x \in Range(s.pages[pg][j])
      BY <2>1, <2>3, <3>1, PagesHold
    <3>3. s.pages[pg] \in Seq(Seq(Pod))
      BY <2>1, <2>3
    <3>4. 1 \in 1..Len(s.pages[pg]) /\ s.pages[pg][1] \in Seq(Pod)
      BY <3>2, <3>3
    <3>5. Range(s.pages[pg][1]) # {}
      <4>1. s.pages[pg][1] # <<>>
        BY <3>2, <3>4
      <4> QED BY <3>4, <4>1, SeqRange
    <3>6. Range(PagePods(s.pages[pg])) # {}
      BY <3>2, <3>4, <3>5
    <3> QED BY <3>2, <3>6, SeqRange
  <2> HIDE DEF pg, pods
  <2>5. pods[1] \in Pod
    BY <2>4
  <2> QED BY <2>2, <2>3, <2>5, SelectTouches DEF s
<1> QED BY <1>1, <1>2

LEMMA SelectColumnTouches ==
  ASSUME ListBasics, SelectColumn
  PROVE  Touched(paused)
<1> DEFINE s == Build(paused)
           columns == s.pages[s.page]
           target == Clamp(ColumnOf(s) + doing.arg, Len(columns))
           row == IndexIn(columns[ColumnOf(s)], s.selected)
<1>1. CASE ~IsMultiColumn(s) \/ target = ColumnOf(s)
  BY <1>1, KeepTouches DEF SelectColumn
<1>2. CASE ~(~IsMultiColumn(s) \/ target = ColumnOf(s))
  <2>1. Select(s, columns[target][Clamp(row, Len(columns[target]))], s.page)
    BY <1>2 DEF SelectColumn
  <2>2. s.rows # <<>>
    BY <1>2 DEF IsMultiColumn
  <2>3. /\ Len(columns) \in Nat /\ ColumnOf(s) \in 1..Len(columns)
        /\ s.selected \in Range(columns[ColumnOf(s)])
        /\ \A j \in 1..Len(columns) : columns[j] \in Seq(Pod) /\ Len(columns[j]) \in Nat \ {0}
    BY <2>2, SelectedColumn
  <2>4. s.page \in Nat \ {0}
    BY BasicFacts, BuildIs
  <2>5. doing.arg \in Int
    BY DEF SelectColumn, ListBasics
  <2> HIDE DEF s, columns
  <2>6. target \in 1..Len(columns)
    <3>1. ColumnOf(s) + doing.arg \in Int /\ Len(columns) # 0
      BY <2>3, <2>5
    <3> QED BY <2>3, <3>1, ClampIn
  <2>7. row \in Int
    BY <2>3, IndexInIs
  <2> HIDE DEF target, row
  <2>8. Clamp(row, Len(columns[target])) \in 1..Len(columns[target])
    BY <2>3, <2>6, <2>7, ClampIn
  <2>9. columns[target][Clamp(row, Len(columns[target]))] \in Pod
    BY <2>3, <2>6, <2>8
  <2> QED BY <2>1, <2>4, <2>9, SelectTouches DEF s
<1> QED BY <1>1, <1>2
LEMMA TouchedBasics ==
  ASSUME ListBasics, NEW frozen, Touched(frozen), UNCHANGED <<live, viewVars, shown>>,
         paused' \in BOOLEAN, doing'.op \in {"column", "page"} => doing'.arg \in Int
  PROVE  ListBasics'
<1>1. Ordered(frozen) \in Seq(Pod) /\ Once(Ordered(frozen))
  BY BasicFacts, OrderedLive
<1>2. order' \in Seq(Pod) /\ Once(order')
  BY <1>1 DEF Touched
<1>3. SelectionIsOnPage'
  BY DEF ListBasics, SelectionIsOnPage
<1> QED BY <1>2, <1>3 DEF ListBasics, Touched, viewVars

(* What a key does to the order: it is remembered, brought up to date, or  *)
(* forgotten with a View to come.                                          *)
OrderKept ==
  \/ order' = order
  \/ order' = Ordered(TRUE)
  \/ order' = <<>> /\ doing' = ViewDue

KeyLeaves == doing = Idle /\ paused' = TRUE /\ UNCHANGED <<live, shown>> /\ OrderKept

LEMMA FrozenKeepsOrder ==
  ASSUME ListFacts, NEW x \in live, NEW y \in live, Before(order, x, y)
  PROVE  Before(Ordered(TRUE), x, y)
<1>1. order # <<>>
  BY EmptyList
<1>2. Ordered(TRUE) = Only(order, live) \o Only(Sorted, Pod \ Range(order))
  BY <1>1 DEF Ordered
<1>3. Only(order, live) \in Seq(Pod) /\ Before(Only(order, live), x, y)
  BY OnlyKeeps DEF ListFacts
<1>4. Only(Sorted, Pod \ Range(order)) \in Seq(Pod)
  BY OnlyKeeps DEF ListFacts, Sorted
<1> QED BY <1>2, <1>3, <1>4, ConcatBefore

LEMMA KeepsShownInOrder ==
  ASSUME ListBasics, ShownInOrder, OrderKept, UNCHANGED shown,
         paused' => doing = Idle \/ paused, doing' = Idle => doing = Idle \/ paused, doing # ViewDue,
         doing' # FooterDue
  PROVE  ShownInOrder'
<1> SUFFICES ASSUME shown.mode = "flat", shown.kept, doing' = Idle \/ paused', ~(doing' = ViewDue /\ order' = <<>>),
                    NEW x, NEW y, Before(shown.rows, x, y)
             PROVE  Before(order', x, y)
  BY DEF ShownInOrder
<1>1. Before(order, x, y)
  BY DEF ShownInOrder
<1>2. x \in live /\ y \in live
  <2>1. x \in Range(shown.rows) /\ y \in Range(shown.rows)
    BY DEF Before, Range
  <2> QED BY <2>1 DEF ListBasics
<1>3. Before(Ordered(TRUE), x, y)
  BY <1>1, <1>2, BasicFacts, FrozenKeepsOrder
<1> QED BY <1>1, <1>3 DEF OrderKept

LEMMA KeyKeepsShownInOrder ==
  ASSUME ListBasics, ShownInOrder, KeyLeaves, doing'.op \in {"view", "column", "page"}
  PROVE  ShownInOrder'
<1>1. doing # ViewDue /\ doing' # FooterDue
  BY DEF KeyLeaves, Idle, ViewDue, FooterDue
<1> QED BY <1>1, KeepsShownInOrder DEF KeyLeaves

LEMMA ListKeysStep ==
  ASSUME ListBasics, ListKeys
  PROVE  ListBasics' /\ KeyLeaves /\ doing'.op \in {"view", "column", "page"}
<1>1. ASSUME NEW offset \in {-1, 1}, UpDown(offset)
      PROVE  ListBasics' /\ KeyLeaves /\ doing'.op \in {"view", "column", "page"}
  <2>1. Touched(TRUE)
    <3>1. offset \in Int
      OBVIOUS
    <3> QED BY <1>1, <3>1, UpDownTouches
  <2>2. doing = Idle /\ paused' = TRUE /\ UNCHANGED <<live, shown, viewVars>> /\ doing' = ViewDue
    BY <1>1 DEF UpDown, ListKey, Key, Return
  <2>3. ListBasics'
    BY <2>1, <2>2, TouchedBasics DEF ViewDue
  <2> QED BY <2>1, <2>2, <2>3 DEF KeyLeaves, OrderKept, Touched, ViewDue
<1>2. ASSUME NEW offset \in {-1, 1}, LeftRight(offset)
      PROVE  ListBasics' /\ KeyLeaves /\ doing'.op \in {"view", "column", "page"}
  <2>1. Touched(TRUE)
    BY <1>2, KeepTouches DEF LeftRight
  <2>2. doing = Idle /\ paused' = TRUE /\ UNCHANGED <<live, shown, viewVars>>
    BY <1>2 DEF LeftRight, ListKey, Key
  <2>3. Build(TRUE).page \in Nat
    BY BasicFacts, BuildIs
  <2>4. doing' \in {[op |-> "column", arg |-> offset], [op |-> "page", arg |-> Build(TRUE).page + offset]}
    BY <1>2 DEF LeftRight
  <2>5. doing'.op \in {"column", "page"} /\ doing'.arg \in Int
    <3>1. offset \in Int /\ Build(TRUE).page + offset \in Int
      <4> DEFINE pg == Build(TRUE).page
      <4>1. pg \in Nat
        BY <2>3, Zenon
      <4>2. offset \in Int
        OBVIOUS
      <4> HIDE DEF pg
      <4>3. pg + offset \in Int
        BY <4>1, <4>2
      <4> QED BY <4>2, <4>3, Zenon DEF pg
    <3>2. CASE doing' = [op |-> "column", arg |-> offset]
      BY <3>1, <3>2
    <3>3. CASE doing' = [op |-> "page", arg |-> Build(TRUE).page + offset]
      BY <3>1, <3>3
    <3> QED BY <2>4, <3>2, <3>3
  <2>6. ListBasics'
    BY <2>1, <2>2, <2>5, TouchedBasics
  <2> QED BY <2>1, <2>2, <2>5, <2>6 DEF KeyLeaves, OrderKept, Touched
<1>3. ASSUME NEW offset \in {-1, 1}, PageKey(offset)
      PROVE  ListBasics' /\ KeyLeaves /\ doing'.op \in {"view", "column", "page"}
  <2>1. Touched(TRUE)
    <3>1. page + offset \in Int
      BY DEF ListBasics
    <3> QED BY <1>3, <3>1, SelectPageTouches DEF PageKey
  <2>2. doing = Idle /\ paused' = TRUE /\ UNCHANGED <<live, shown, viewVars>> /\ doing' = ViewDue
    BY <1>3 DEF PageKey, ListKey, Key, Return
  <2>3. ListBasics'
    BY <2>1, <2>2, TouchedBasics DEF ViewDue
  <2> QED BY <2>1, <2>2, <2>3 DEF KeyLeaves, OrderKept, Touched, ViewDue
<1>4. ASSUME NEW r \in Rankings, SortKey(r)
      PROVE  ListBasics' /\ KeyLeaves /\ doing'.op \in {"view", "column", "page"}
  <2>1. <<>> \in Seq(Pod) /\ Once(<<>>)
    BY EmptyList DEF Once
  <2>2. /\ doing = Idle /\ paused' = TRUE /\ UNCHANGED <<live, shown>> /\ doing' = ViewDue
        /\ rank' = r /\ order' = <<>> /\ pinned' = FALSE /\ page' = 1
        /\ UNCHANGED <<mode, query, filtering, layout, selected>>
    BY <1>4 DEF SortKey, ListKey, Key, ResetAnchor, Return
  <2>3. SelectionIsOnPage'
    BY <2>2 DEF ListBasics, SelectionIsOnPage
  <2>4. order' \in Seq(Pod) /\ Once(order')
    BY <2>1, <2>2
  <2>5. doing'.op = "view"
    BY <2>2 DEF ViewDue
  <2>6. /\ paused' \in BOOLEAN /\ pinned' \in BOOLEAN
        /\ page' \in Nat \ {0} /\ rank' \in Rankings
    <3>1. paused' \in BOOLEAN /\ pinned' \in BOOLEAN
      BY <2>2, Zenon
    <3>2. page' \in Nat \ {0} /\ rank' \in Rankings
      BY <2>2
    <3> QED BY <3>1, <3>2
  <2>7. ListBasics'
    BY <2>2, <2>3, <2>4, <2>5, <2>6 DEF ListBasics
  <2> QED BY <2>2, <2>5, <2>7 DEF KeyLeaves, OrderKept
<1>5. ASSUME \/ GroupModeKey \/ FilterKey \/ ClearFilter \/ LeaveFilter
             \/ \E l \in PodLines, c \in ColumnCounts : DetailsKey(l, c)
             \/ \E q \in Queries : EditFilter(q)
      PROVE  ListBasics' /\ KeyLeaves /\ doing'.op \in {"view", "column", "page"}
  <2>1. /\ doing = Idle /\ paused' = TRUE /\ UNCHANGED <<live, shown>> /\ order' = order /\ doing' = ViewDue
        /\ rank' = rank
    <3>1. CASE GroupModeKey \/ ClearFilter
      BY <3>1 DEF GroupModeKey, ClearFilter, ListKey, Key, ResetAnchor, Return
    <3>2. CASE FilterKey
      BY <3>2 DEF FilterKey, ListKey, Key, Return
    <3>3. CASE LeaveFilter \/ \E q \in Queries : EditFilter(q)
      BY <3>3 DEF LeaveFilter, EditFilter, FilteringKey, Key, ResetAnchor, Return
    <3>4. CASE \E l \in PodLines, c \in ColumnCounts : DetailsKey(l, c)
      BY <3>4 DEF DetailsKey, ListKey, Key, ResetAnchor, Return
    <3> QED BY <1>5, <3>1, <3>2, <3>3, <3>4
  <2>2. selected' = selected /\ pinned' \in BOOLEAN /\ page' \in Nat \ {0}
    <3>1. CASE FilterKey
      BY <3>1 DEF FilterKey, ListBasics
    <3>2. CASE ~FilterKey
      <4>1. ResetAnchor
        BY <1>5, <3>2 DEF GroupModeKey, ClearFilter, LeaveFilter, DetailsKey, EditFilter, FilteringKey
      <4>2. selected' = selected /\ page' \in Nat \ {0}
        BY <4>1 DEF ResetAnchor
      <4>3. pinned' \in BOOLEAN
        BY <4>1, Zenon DEF ResetAnchor
      <4> QED BY <4>2, <4>3
    <3> QED BY <3>1, <3>2
  <2>3. query' \in SUBSET Pod
    BY <1>5, QueriesMatchPods
       DEF GroupModeKey, FilterKey, ClearFilter, LeaveFilter, DetailsKey, EditFilter, FilteringKey, ListBasics
  <2>4. mode' \in {"namespace", "workload", "flat"}
    BY <1>5 DEF GroupModeKey, NextMode, FilterKey, ClearFilter, LeaveFilter, DetailsKey, EditFilter,
         FilteringKey, ListBasics
  <2>5. layout' \in Layout
    BY <1>5 DEF GroupModeKey, FilterKey, ClearFilter, LeaveFilter, DetailsKey, EditFilter, FilteringKey,
         ListBasics, Layout
  <2>6. filtering' \in BOOLEAN
    BY <1>5 DEF GroupModeKey, FilterKey, ClearFilter, LeaveFilter, DetailsKey, EditFilter, FilteringKey, ListBasics
  <2>7. SelectionIsOnPage'
    BY <2>1 DEF ListBasics, SelectionIsOnPage
  <2>8. ListBasics'
    BY <2>1, <2>2, <2>3, <2>4, <2>5, <2>6, <2>7 DEF ListBasics, ViewDue
  <2> QED BY <2>1, <2>8 DEF KeyLeaves, OrderKept, ViewDue
<1> QED BY <1>1, <1>2, <1>3, <1>4, <1>5 DEF ListKeys

LEMMA SelectSteps ==
  ASSUME ListBasics, SelectColumn \/ SelectPageStep
  PROVE  /\ ListBasics' /\ doing'.op = "view"
         /\ ShownInOrder => ShownInOrder'
<1>1. /\ doing.op \in {"column", "page"} /\ doing' = ViewDue
      /\ UNCHANGED <<live, paused, viewVars, shown>>
  BY DEF SelectColumn, SelectPageStep, Return
<1>2. Touched(paused)
  <2>1. CASE SelectColumn
    BY <2>1, SelectColumnTouches
  <2>2. CASE SelectPageStep
    <3>1. doing.arg \in Int
      BY <1>1 DEF ListBasics
    <3> QED BY <2>2, <3>1, SelectPageTouches DEF SelectPageStep
  <2> QED BY <2>1, <2>2
<1>3. doing'.op = "view"
  BY <1>1 DEF ViewDue
<1>4. paused' \in BOOLEAN
  BY <1>1 DEF ListBasics
<1>5. ListBasics'
  BY <1>1, <1>2, <1>3, <1>4, TouchedBasics
<1>6. ASSUME ShownInOrder PROVE ShownInOrder'
  <2>1. doing # ViewDue /\ doing' # Idle /\ doing' # FooterDue
    BY <1>1 DEF ViewDue, Idle, FooterDue
  <2>2. CASE paused = TRUE
    <3>1. OrderKept
      BY <1>2, <2>2 DEF Touched, OrderKept
    <3> QED BY <1>1, <1>6, <2>1, <2>2, <3>1, KeepsShownInOrder
  <2>3. CASE paused = FALSE
    <3>1. ~paused'
      BY <1>1, <2>3
    <3> QED BY <2>1, <3>1 DEF ShownInOrder
  <2>4. paused \in BOOLEAN
    BY DEF ListBasics
  <2> QED BY <2>2, <2>3, <2>4
<1> QED BY <1>3, <1>5, <1>6

(* Rows that are flat keep the order of the list that is built. *)
LEMMA FlatRows ==
  ASSUME ListFacts, NEW frozen, mode = "flat", NEW x, NEW y, Before(Rows(frozen), x, y)
  PROVE  Before(Ordered(frozen), x, y)
<1>1. Ordered(frozen) \in Seq(Pod) /\ Once(Ordered(frozen))
  BY OrderedLive
<1>2. Only(Ordered(frozen), query) \in Seq(Pod) /\ Once(Only(Ordered(frozen), query))
  BY <1>1, OnlyKeeps, OnceOnly
<1>3. Before(Only(Ordered(frozen), query), x, y)
  BY <1>2, GroupedKeeps DEF Rows
<1> QED BY <1>1, <1>3, OnlyKeeps

LEMMA ViewPaints ==
  ASSUME ListBasics, View
  PROVE  /\ ListBasics' /\ doing' = FooterDue /\ shown'.rows = Rows(paused) /\ order' = Ordered(paused)
         /\ shown'.selected = Build(paused).selected
         /\ ShownInOrder'
<1> DEFINE s == Build(paused)
<1>1. /\ Keep(s) /\ shown' = Paint(s) /\ doing' = FooterDue
      /\ UNCHANGED <<live, paused, viewVars>>
  BY DEF View
<1>2. Touched(paused)
  BY <1>1, KeepTouches
<1>3. /\ s.rows = Rows(paused) /\ s.rows \in Seq(Pod) /\ Range(s.rows) = live \cap query /\ Once(s.rows)
      /\ s.order = Ordered(paused)
      /\ s.pages = Paginate(s.rows) /\ s.pages \in Seq(Seq(Seq(Pod)))
      /\ s.rows = <<>> => s.selected = Nil /\ s.pages = <<>>
      /\ s.rows # <<>> =>
           /\ s.selected \in Pod /\ s.page \in 1..Len(s.pages)
           /\ s.selected \in Range(PagePods(s.pages[s.page]))
  <2>1. s.rows = Rows(paused)
    BY DEF Build, Rows
  <2> QED BY <2>1, BasicFacts, BuildIs
<1>4. \A i \in 1..Len(s.pages) : PagePods(s.pages[i]) \in Seq(Pod)
  <2>1. LayoutFacts /\ layout.columns \in Nat \ {0}
    BY BasicFacts DEF TypedLayout
  <2> HIDE DEF s
  <2> QED BY <1>3, <2>1, PagesHold
<1> HIDE DEF s
<1>5. /\ shown'.rows = s.rows /\ shown'.selected = s.selected /\ shown'.mode = mode
      /\ shown'.page = IF s.pages = <<>> THEN <<>> ELSE PagePods(s.pages[s.page])
      /\ shown' = [rows |-> shown'.rows, page |-> shown'.page, selected |-> shown'.selected,
                   mode |-> shown'.mode, kept |-> shown'.kept]
      /\ shown'.kept = FALSE
  BY <1>1 DEF Paint
<1>12. shown'.kept \in BOOLEAN
  BY <1>5, Zenon
<1>6. /\ shown' \in Frames
      /\ SelectionIsOnPage'
  <2>1. CASE s.rows = <<>>
    <3>1. shown' \in Frames
      BY <1>3, <1>5, <1>12, <2>1 DEF ListBasics, Frames
    <3> QED BY <1>5, <2>1, <3>1 DEF SelectionIsOnPage
  <2>2. CASE s.rows # <<>>
    <3>1. s.pages # <<>> /\ PagePods(s.pages[s.page]) \in Seq(Pod)
      BY <1>3, <1>4, <2>2
    <3>2. shown' \in Frames
      BY <1>3, <1>5, <1>12, <2>2, <3>1 DEF ListBasics, Frames
    <3>3. SelectionIsOnPage'
      BY <1>3, <1>5, <2>2, <3>1 DEF SelectionIsOnPage
    <3> QED BY <3>2, <3>3
  <2> QED BY <2>1, <2>2
<1>7. Range(shown'.rows) \subseteq live'
  BY <1>1, <1>3, <1>5
<1>8. order' \in Seq(Pod) /\ Once(order')
  BY <1>2, BasicFacts, OrderedLive DEF Touched
<1>9. doing'.op = "footer"
  BY <1>1 DEF FooterDue
<1>10. ListBasics'
  BY <1>1, <1>2, <1>6, <1>7, <1>8, <1>9 DEF ListBasics, Touched, viewVars
<1>11. ShownInOrder'
  <2> SUFFICES ASSUME mode = "flat", NEW x, NEW y, Before(Rows(paused), x, y)
               PROVE  Before(Ordered(paused), x, y)
    BY <1>2, <1>3, <1>5 DEF ShownInOrder, Touched
  <2> QED BY BasicFacts, FlatRows
<1> QED BY <1>1, <1>2, <1>3, <1>5, <1>10, <1>11 DEF Touched, s

LEMMA InOrderIsBefore ==
  ASSUME NEW old \in Seq(Pod), NEW new \in Seq(Pod), Range(new) \subseteq Range(old),
         InOrderOf(new, old), NEW x, NEW y, Before(new, x, y)
  PROVE  Before(old, x, y)
<1> PICK i \in DOMAIN new, j \in DOMAIN new : i < j /\ new[i] = x /\ new[j] = y
  BY DEF Before
<1>1. x \in Range(old) /\ y \in Range(old)
  BY DEF Range
<1>2. IndexIn(old, x) < IndexIn(old, y)
  BY <1>1 DEF InOrderOf
<1>3. /\ IndexIn(old, x) \in DOMAIN old /\ old[IndexIn(old, x)] = x
      /\ IndexIn(old, y) \in DOMAIN old /\ old[IndexIn(old, y)] = y
  BY <1>1, IndexInIs
<1> QED BY <1>2, <1>3 DEF Before

(* The build for the footer, and the whole step.                           *)
LEMMA FooterBuilds ==
  ASSUME ListBasics, BuildForFooter, paused' \in BOOLEAN, UNCHANGED <<live, viewVars>>,
         doing'.op \notin {"column", "page"}
  PROVE  /\ ListBasics' /\ order' = Ordered(paused)
         /\ shown'.kept = InOrderOf(shown.rows, order')
         /\ shown'.rows = shown.rows /\ shown'.page = shown.page /\ shown'.mode = shown.mode
         /\ shown'.selected = shown.selected
<1> DEFINE s == Build(paused)
           kept == InOrderOf(shown.rows, s.order)
<1>1. Keep(s) /\ shown' = [shown EXCEPT !.kept = kept]
  BY DEF BuildForFooter
<1>2. Touched(paused)
  BY <1>1, KeepTouches
<1>3. kept \in BOOLEAN
  BY Zenon DEF InOrderOf
<1>4. s.order = order'
  BY <1>1 DEF Keep
<1>5. kept = InOrderOf(shown.rows, order')
  BY <1>4, Zenon
<1> HIDE DEF s, kept
<1>6. /\ shown' \in Frames /\ shown'.kept = kept
      /\ shown'.rows = shown.rows /\ shown'.page = shown.page /\ shown'.mode = shown.mode
      /\ shown'.selected = shown.selected
  BY <1>1, <1>3 DEF ListBasics, Frames
<1>7. order' \in Seq(Pod) /\ Once(order')
  BY <1>2, BasicFacts, OrderedLive DEF Touched
<1>8. SelectionIsOnPage'
  BY <1>6 DEF ListBasics, SelectionIsOnPage
<1>9. ListBasics'
  BY <1>2, <1>6, <1>7, <1>8 DEF ListBasics, Touched, viewVars
<1>10. shown'.kept = InOrderOf(shown.rows, order')
  BY <1>5, <1>6, Zenon
<1> QED BY <1>2, <1>6, <1>9, <1>10, Zenon DEF Touched

LEMMA FooterStep ==
  ASSUME ListBasics, WriteFooter
  PROVE  ListBasics' /\ doing' = Idle /\ ShownInOrder'
<1>1. /\ BuildForFooter /\ doing' = Idle /\ paused' \in BOOLEAN
      /\ UNCHANGED <<live, viewVars>> /\ doing'.op \notin {"column", "page"}
  BY DEF WriteFooter, Idle, ListBasics
<1>2. /\ ListBasics' /\ order' = Ordered(paused) /\ shown'.kept = InOrderOf(shown.rows, order')
      /\ shown'.rows = shown.rows
  BY <1>1, FooterBuilds
<1>3. /\ shown.rows \in Seq(Pod) /\ Range(shown.rows) \subseteq live
      /\ order' \in Seq(Pod) /\ Range(order') = live
  BY <1>2, BasicFacts, OrderedLive DEF ListBasics, Frames
<1>4. ASSUME shown'.kept, NEW x, NEW y, Before(shown'.rows, x, y)
      PROVE  Before(order', x, y)
  <2>1. InOrderOf(shown.rows, order')
    BY <1>2, <1>4, Zenon
  <2>2. Range(shown.rows) \subseteq Range(order') /\ Before(shown.rows, x, y)
    BY <1>2, <1>3, <1>4
  <2> QED BY <1>3, <2>1, <2>2, InOrderIsBefore
<1>5. doing' # FooterDue
  BY <1>1 DEF Idle, FooterDue
<1> QED BY <1>1, <1>2, <1>4, <1>5 DEF ShownInOrder

LEMMA WindowSizeStep ==
  ASSUME ListBasics, NEW b \in Budgets, NEW c \in ColumnCounts, WindowSize(b, c)
  PROVE  ListBasics' /\ doing' = ViewDue /\ (ShownInOrder => ShownInOrder')
<1>1. /\ doing = Idle /\ doing' = ViewDue /\ layout' \in Layout
      /\ UNCHANGED <<live, order, paused, rank, mode, query, filtering, selected, pinned, page, shown>>
  BY DEF WindowSize, Return, ListBasics, Layout
<1>2. SelectionIsOnPage'
  BY <1>1 DEF ListBasics, SelectionIsOnPage
<1>3. doing'.op = "view" /\ doing # ViewDue
  BY <1>1 DEF ViewDue, Idle
<1>4. ListBasics'
  BY <1>1, <1>2, <1>3 DEF ListBasics
<1> QED BY <1>1, <1>3, <1>4 DEF ShownInOrder, ViewDue, FooterDue

LEMMA ListEnvironmentStep ==
  ASSUME ListBasics, ListEnvironment
  PROVE  ListBasics' /\ UNCHANGED <<order, doing>> /\ (ShownInOrder => ShownInOrder')
<1>1. ASSUME NEW b \in Budgets, StatusLine(b)
      PROVE  ListBasics' /\ UNCHANGED <<order, doing>> /\ (ShownInOrder => ShownInOrder')
  <2>1. /\ layout' \in Layout
        /\ UNCHANGED <<live, order, paused, rank, mode, query, filtering, selected, pinned, page, doing, shown>>
    BY <1>1 DEF StatusLine, ListBasics, Layout
  <2>2. SelectionIsOnPage'
    BY <2>1 DEF ListBasics, SelectionIsOnPage
  <2>3. ListBasics'
    BY <2>1, <2>2 DEF ListBasics
  <2> QED BY <2>1, <2>3 DEF ShownInOrder
<1>2. CASE PauseEnds
  <2>1. /\ paused' = FALSE
        /\ UNCHANGED <<live, order, viewVars, selected, pinned, page, doing, shown>>
    BY <1>2 DEF PauseEnds
  <2>2. SelectionIsOnPage'
    BY <2>1 DEF ListBasics, SelectionIsOnPage
  <2>3. paused' \in BOOLEAN
    BY <2>1, Zenon
  <2>4. ListBasics'
    BY <2>1, <2>2, <2>3 DEF ListBasics, viewVars
  <2>5. ShownInOrder => ShownInOrder'
    BY <2>1 DEF ShownInOrder
  <2> QED BY <2>1, <2>4, <2>5
<1>3. ASSUME NEW p \in Pod, PodComes(p)
      PROVE  ListBasics' /\ UNCHANGED <<order, doing>> /\ (ShownInOrder => ShownInOrder')
  <2>1. /\ live' = live \cup {p}
        /\ UNCHANGED <<order, paused, viewVars, selected, pinned, page, doing, shown>>
    BY <1>3 DEF PodComes
  <2>2. SelectionIsOnPage'
    BY <2>1 DEF ListBasics, SelectionIsOnPage
  <2>3. ListBasics'
    BY <2>1, <2>2 DEF ListBasics, viewVars
  <2> QED BY <2>1, <2>3 DEF ShownInOrder
<1>4. ASSUME NEW p \in Pod, PodGoes(p)
      PROVE  ListBasics' /\ UNCHANGED <<order, doing>> /\ (ShownInOrder => ShownInOrder')
  <2> DEFINE rows == Only(shown.rows, Pod \ {p})
  <2>1. /\ live' = live \ {p} /\ shown' = [shown EXCEPT !.rows = rows]
        /\ UNCHANGED <<order, paused, viewVars, selected, pinned, page, doing>>
    BY <1>4 DEF PodGoes
  <2>2. /\ rows \in Seq(Pod) /\ Range(rows) = Range(shown.rows) \cap (Pod \ {p})
        /\ \A x, y : Before(rows, x, y) => Before(shown.rows, x, y)
    BY OnlyKeeps DEF ListBasics, Frames
  <2> HIDE DEF rows
  <2>3. /\ shown'.rows = rows /\ shown'.page = shown.page /\ shown'.selected = shown.selected
        /\ shown'.mode = shown.mode /\ shown'.kept = shown.kept
        /\ shown' \in Frames
    BY <2>1, <2>2 DEF ListBasics, Frames
  <2>4. Range(shown'.rows) \subseteq live'
    BY <2>1, <2>2, <2>3 DEF ListBasics
  <2>5. rows # <<>> => shown.rows # <<>>
    <3>1. shown.rows \in Seq(Pod)
      BY DEF ListBasics, Frames
    <3>2. ASSUME shown.rows = <<>> PROVE rows = <<>>
      <4>1. Range(shown.rows) = {}
        BY <3>2, EmptyList
      <4> QED BY <2>2, <4>1, SeqRange
    <3> QED BY <3>2
  <2>6. SelectionIsOnPage'
    BY <2>3, <2>5 DEF ListBasics, SelectionIsOnPage
  <2>7. ListBasics'
    BY <2>1, <2>3, <2>4, <2>6 DEF ListBasics, viewVars
  <2>8. ShownInOrder => ShownInOrder'
    BY <2>1, <2>2, <2>3 DEF ShownInOrder
  <2> QED BY <2>1, <2>7, <2>8
<1>5. ASSUME NEW r \in Rankings, UsageChanges(r)
      PROVE  ListBasics' /\ UNCHANGED <<order, doing>> /\ (ShownInOrder => ShownInOrder')
  <2>1. /\ rank' \in Rankings
        /\ UNCHANGED <<live, order, paused, mode, query, filtering, layout, selected, pinned, page, doing, shown>>
    BY <1>5 DEF UsageChanges
  <2>2. SelectionIsOnPage'
    BY <2>1 DEF ListBasics, SelectionIsOnPage
  <2>3. ListBasics'
    BY <2>1, <2>2 DEF ListBasics
  <2> QED BY <2>1, <2>3 DEF ShownInOrder
<1>6. ASSUME NEW q \in Queries, MatchesChange(q)
      PROVE  ListBasics' /\ UNCHANGED <<order, doing>> /\ (ShownInOrder => ShownInOrder')
  <2>1. /\ query' \subseteq Pod
        /\ UNCHANGED <<live, order, paused, rank, mode, filtering, layout, selected, pinned, page, doing, shown>>
    BY <1>6, QueriesMatchPods DEF MatchesChange
  <2>2. SelectionIsOnPage'
    BY <2>1 DEF ListBasics, SelectionIsOnPage
  <2>3. ListBasics'
    BY <2>1, <2>2 DEF ListBasics
  <2> QED BY <2>1, <2>3 DEF ShownInOrder
<1> QED BY <1>1, <1>2, <1>3, <1>4, <1>5, <1>6 DEF ListEnvironment

-----------------------------------------------------------------------------
(* The theorems *)

LEMMA ListStart ==
  ASSUME ListInit
  PROVE  ListInv
<1>1. /\ shown = [rows |-> <<>>, page |-> <<>>, selected |-> Nil, mode |-> "namespace", kept |-> FALSE]
      /\ order = <<>>
  BY DEF ListInit
<1>2. shown.rows = <<>> /\ <<>> \in Seq(Pod)
  BY <1>1
<1>3. Range(shown.rows) = {} /\ Once(order)
  BY <1>1, <1>2, EmptyList DEF Once
<1>4. SelectionIsOnPage
  BY <1>2 DEF SelectionIsOnPage
<1>5. shown \in Frames
  BY <1>1, <1>2 DEF Frames
<1>6. doing.op = "idle"
  BY DEF ListInit, Idle
<1>7. paused \in BOOLEAN /\ filtering \in BOOLEAN /\ pinned \in BOOLEAN
  BY Zenon DEF ListInit
<1>8. ListBasics
  BY <1>1, <1>2, <1>3, <1>4, <1>5, <1>6, <1>7 DEF ListInit, ListBasics
<1>9. ShownInOrder
  BY <1>1 DEF ShownInOrder
<1> QED BY <1>6, <1>8, <1>9 DEF ListInv

LEMMA ListStutters ==
  ASSUME ListInv, UNCHANGED listVars
  PROVE  ListInv'
<1>1. SelectionIsOnPage' /\ ShownInOrder'
  BY DEF ListInv, ListBasics, listVars, SelectionIsOnPage, ShownInOrder
<1> QED BY <1>1 DEF ListInv, ListBasics, listVars, viewVars

LEMMA ListInvStep ==
  ASSUME ListInv, [ListNext]_listVars
  PROVE  ListInv'
<1>1. CASE ListKeys
  BY <1>1, ListKeysStep, KeyKeepsShownInOrder DEF ListInv
<1>2. CASE SelectColumn \/ SelectPageStep
  BY <1>2, SelectSteps DEF ListInv
<1>3. CASE View
  BY <1>3, ViewPaints DEF ListInv, FooterDue
<1>7. CASE WriteFooter
  BY <1>7, FooterStep DEF ListInv, Idle
<1>4. ASSUME NEW b \in Budgets, NEW c \in ColumnCounts, WindowSize(b, c)
      PROVE  ListInv'
  BY <1>4, WindowSizeStep DEF ListInv, ViewDue
<1>5. CASE ListEnvironment
  BY <1>5, ListEnvironmentStep DEF ListInv
<1>6. CASE UNCHANGED listVars
  BY <1>6, ListStutters
<1> QED BY <1>1, <1>2, <1>3, <1>4, <1>5, <1>6, <1>7 DEF ListNext

LEMMA ListAlways == ListSpec => []ListInv
<1>1. ListInit => ListInv
  BY ListStart
<1>2. ListInv /\ [ListNext]_listVars => ListInv'
  BY ListInvStep
<1> QED BY <1>1, <1>2, PTL DEF ListSpec

(* Every variable of the list has its type, and no pod is remembered twice *)
(* (podOrder of pods_ui_model.go).                                         *)
THEOREM ListTypes == ListSpec => []ListTypeOK
<1>1. ListInv => ListTypeOK
  <2> SUFFICES ASSUME ListInv PROVE ListTypeOK
    OBVIOUS
  <2>1. IsInjective(order)
    BY OnceIsInjective DEF ListInv, ListBasics
  <2>2. Range(order) \subseteq Pod
    BY SeqRange DEF ListInv, ListBasics
  <2>3. {paused, filtering, pinned} \subseteq BOOLEAN
    BY Zenon DEF ListInv, ListBasics
  <2> QED BY <2>1, <2>2, <2>3 DEF ListInv, ListBasics, ListTypeOK
<1> QED BY <1>1, ListAlways, PTL

(* Paging loses and doubles nothing, and leaves no page and no column      *)
(* empty (paginateGroups), for every list, grouping and size of terminal.  *)
LEMMA PagesAreWhole ==
  ASSUME ListFacts, TypedLayout
  PROVE  PagesShowEveryPod /\ ColumnsFit
<1> DEFINE s == Build(paused)
           pages == s.pages
<1>1. /\ s.rows \in Seq(Pod) /\ Range(s.rows) = live \cap query /\ Once(s.rows)
      /\ s.pages = Paginate(s.rows) /\ s.pages \in Seq(Seq(Seq(Pod)))
  BY BuildIs
<1>2. LayoutFacts /\ layout.columns \in Nat \ {0}
  BY DEF TypedLayout
<1> HIDE DEF s
<1>3. /\ \A i \in 1..Len(pages) :
           /\ pages[i] # <<>>
           /\ \A j \in 1..Len(pages[i]) : pages[i][j] # <<>> /\ ColumnFits(pages[i][j])
      /\ AllPods(pages) \in Seq(Pod) /\ Range(AllPods(pages)) = Range(s.rows) /\ Once(AllPods(pages))
  BY <1>1, <1>2, PagesHold
<1>4. DOMAIN pages = 1..Len(pages) /\ \A i \in 1..Len(pages) : DOMAIN pages[i] = 1..Len(pages[i])
  BY <1>1
<1>5. IsInjective(AllPods(pages))
  BY <1>3, OnceIsInjective
<1> HIDE DEF pages
<1>6. PagesShowEveryPod
  BY <1>1, <1>3, <1>4, <1>5 DEF PagesShowEveryPod, AllPods, pages, s
<1>7. ColumnsFit
  BY <1>3, <1>4 DEF ColumnsFit, ColumnFits, pages, s
<1> QED BY <1>6, <1>7

(* Paging loses no pod that passes the filter and shows none twice, for    *)
(* any terminal (buildPodListState, paginateGroups).                       *)
THEOREM PagesAlwaysShowEveryPod == ListSpec => []PagesShowEveryPod
<1>1. ListInv => PagesShowEveryPod
  BY BasicFacts, PagesAreWhole DEF ListInv
<1> QED BY <1>1, ListAlways, PTL

(* What a column holds fits the lines of the panel, but for a lone pod     *)
(* (paginateGroups, with the lines that decorateColumnLayout adds).        *)
THEOREM ColumnsAlwaysFit == ListSpec => []ColumnsFit
<1>1. ListInv => ColumnsFit
  BY BasicFacts, PagesAreWhole DEF ListInv
<1> QED BY <1>1, ListAlways, PTL

(* The selected pod is on the page that is painted, whatever changed       *)
(* between the key and the View (ensureSelectedPod, buildPodListState).    *)
THEOREM SelectionStaysOnPage == ListSpec => []SelectionIsOnPage
<1>1. ListInv => SelectionIsOnPage
  BY DEF ListInv, ListBasics
<1> QED BY <1>1, ListAlways, PTL

LEMMA BeforeOneWay ==
  ASSUME NEW S, NEW s \in Seq(S), Once(s), NEW x, NEW y, Before(s, x, y)
  PROVE  ~Before(s, y, x)
<1> SUFFICES ASSUME Before(s, y, x) PROVE FALSE
  OBVIOUS
<1>1. DOMAIN s = 1..Len(s) /\ Len(s) \in Nat /\ IsInjective(s)
  BY OnceIsInjective
<1> PICK i \in DOMAIN s, j \in DOMAIN s : i < j /\ s[i] = x /\ s[j] = y
  BY DEF Before
<1> PICK k \in DOMAIN s, l \in DOMAIN s : k < l /\ s[k] = y /\ s[l] = x
  BY DEF Before
<1>2. i = l /\ j = k
  BY <1>1 DEF IsInjective
<1> QED BY <1>1, <1>2

LEMMA BeforeIsInOrder ==
  ASSUME NEW old \in Seq(Pod), NEW new \in Seq(Pod), NEW all \in Seq(Pod), Once(all),
         \A x, y : Before(new, x, y) => Before(all, x, y),
         \A x, y : Before(old, x, y) => Before(all, x, y)
  PROVE  InOrderOf(new, old)
<1>1. ASSUME NEW i \in DOMAIN new, NEW j \in DOMAIN new, i < j, {new[i], new[j]} \subseteq Range(old)
      PROVE  IndexIn(old, new[i]) < IndexIn(old, new[j])
  <2> DEFINE x == new[i]
             y == new[j]
             k == IndexIn(old, x)
             l == IndexIn(old, y)
  <2>1. k \in 1..Len(old) /\ l \in 1..Len(old) /\ old[k] = x /\ old[l] = y
    BY <1>1, IndexInIs
  <2>2. Before(all, x, y)
    <3>1. Before(new, x, y)
      BY <1>1 DEF Before
    <3> QED BY <3>1
  <2>3. x # y
    BY <2>2 DEF Once
  <2>4. ~(l < k)
    <3> SUFFICES ASSUME l < k PROVE FALSE
      OBVIOUS
    <3>1. Before(old, y, x)
      <4>1. DOMAIN old = 1..Len(old)
        OBVIOUS
      <4> HIDE DEF k, l, x, y
      <4> QED BY <2>1, <4>1 DEF Before
    <3> QED BY <2>2, <3>1, BeforeOneWay
  <2> HIDE DEF k, l, x, y
  <2>5. k < l
    BY <2>1, <2>3, <2>4
  <2> QED BY <2>5 DEF k, l, x, y
<1> QED BY <1>1 DEF InOrderOf

(* While the sorting is paused every footer leaves the rows of a flat list *)
(* as they were painted, and the next View finds them in that order, if    *)
(* the footer before left them so (orderedVisiblePods, writeFooter),       *)
(* whatever pods come and go and whatever the keys do in between.          *)
THEOREM FlatRowsKeepOrder == ListSpec => PausedFlatRowsKeepOrder
<1>1. ASSUME ListInv, View, paused, order # <<>>, mode = "flat", shown.mode = "flat", shown.kept
      PROVE  InOrderOf(shown'.rows, shown.rows)
  <2>1. ListBasics /\ ListBasics'
    BY <1>1, ViewPaints DEF ListInv
  <2>2. /\ shown'.rows \in Seq(Pod) /\ shown'.rows = Rows(paused)
        /\ shown.rows \in Seq(Pod) /\ Range(shown.rows) \subseteq live
    BY <1>1, <2>1, ViewPaints DEF ListBasics, Frames
  <2>3. paused = TRUE
    BY <1>1, <2>1 DEF ListBasics
  <2>4. \A x, y : Before(shown.rows, x, y) => x \in live /\ y \in live
    BY <2>2 DEF Before, Range
  <2>5. \A x, y : Before(shown.rows, x, y) => Before(Ordered(TRUE), x, y)
    <3>1. \A x, y : Before(shown.rows, x, y) => Before(order, x, y)
      BY <1>1 DEF ListInv, ShownInOrder
    <3> QED BY <2>1, <2>4, <3>1, BasicFacts, FrozenKeepsOrder
  <2>6. \A x, y : Before(shown'.rows, x, y) => Before(Ordered(TRUE), x, y)
    BY <1>1, <2>1, <2>2, <2>3, BasicFacts, FlatRows
  <2>7. Ordered(TRUE) \in Seq(Pod) /\ Once(Ordered(TRUE))
    BY <2>1, BasicFacts, OrderedLive
  <2> QED BY <2>2, <2>5, <2>6, <2>7, BeforeIsInOrder
<1>2. ASSUME ListInv, WriteFooter, paused, shown.mode = "flat"
      PROVE  shown'.kept
  <2>1. ListBasics /\ BuildForFooter /\ doing = FooterDue /\ paused = TRUE
    BY <1>2 DEF ListInv, WriteFooter, ListBasics
  <2>2. order' = Ordered(TRUE) /\ shown'.kept = InOrderOf(shown.rows, order')
    <3>1. /\ paused' \in BOOLEAN /\ UNCHANGED <<live, viewVars>>
          /\ doing'.op \notin {"column", "page"}
      BY <1>2, <2>1 DEF WriteFooter, Idle
    <3> QED BY <2>1, <3>1, FooterBuilds
  <2>3. shown.rows \in Seq(Pod) /\ Range(shown.rows) \subseteq live
    BY <2>1 DEF ListBasics, Frames
  <2>4. doing # ViewDue
    BY <2>1 DEF FooterDue, ViewDue
  <2>5. \A x, y : Before(shown.rows, x, y) => Before(order, x, y) /\ x \in live /\ y \in live
    <3>1. \A x, y : Before(shown.rows, x, y) => Before(order, x, y)
      BY <1>2, <2>1, <2>4 DEF ListInv, ShownInOrder
    <3> QED BY <2>3, <3>1 DEF Before, Range
  <2>6. \A x, y : Before(shown.rows, x, y) => Before(order', x, y)
    BY <2>1, <2>2, <2>5, BasicFacts, FrozenKeepsOrder
  <2>7. order' \in Seq(Pod) /\ Once(order')
    BY <2>1, <2>2, BasicFacts, OrderedLive
  <2>8. InOrderOf(shown.rows, order')
    BY <2>3, <2>6, <2>7, BeforeIsInOrder
  <2> QED BY <2>2, <2>8, Zenon
<1>3. ListInv /\ [ListNext]_listVars =>
        [paused /\ mode = "flat" /\ shown.mode = "flat" =>
           /\ View /\ shown.kept /\ order # <<>> => InOrderOf(shown'.rows, shown.rows)
           /\ WriteFooter => shown'.kept]_listVars
  BY <1>1, <1>2
<1> QED BY <1>3, ListAlways, PTL DEF ListSpec, PausedFlatRowsKeepOrder
=============================================================================
