--------------------------- MODULE OperatorProofs ---------------------------
(***************************************************************************)
(* What the recursive functions of SessionTime and Texts compute, for any  *)
(* numbers and any texts: the sums that the estimate of a session's time   *)
(* is one of, the macros a text holds, and what their replacement leaves.  *)
(***************************************************************************)
EXTENDS SessionTime, Texts, SequenceTheorems, WellFoundedInduction, TLAPS

(* A set of natural numbers has a least one.                               *)
LEMMA Least ==
  ASSUME NEW S, S \subseteq Nat, S # {}
  PROVE  \E n \in S : \A m \in S : n <= m
<1> DEFINE R == OpToRel(<, Nat)
<1>1. IsWellFoundedOn(R, Nat)
  BY NatLessThanWellFounded
<1>2. \A m, n \in Nat : m < n => <<m, n>> \in R
  BY DEF OpToRel
<1> HIDE DEF R
<1>3. PICK n \in S : \A m \in S : ~(<<m, n>> \in R)
  BY <1>1, WFMin
<1>4. ASSUME NEW m \in S PROVE n <= m
  <2>1. m \in Nat /\ n \in Nat /\ ~(m < n)
    BY <1>2, <1>3
  <2> QED  BY <2>1
<1> QED  BY <1>4

(* s is the function of sums.                                              *)
Summing(s, x, n) ==
  s = [k \in 0 .. n |-> IF k = 0 THEN 0 ELSE s[k - 1] + x[k]]

(* There is one for every n: else for the least n without one, the sums up *)
(* to n - 1 and one addition more.                                         *)
LEMMA SumsExist ==
  ASSUME NEW x, NEW n \in Nat PROVE \E s : Summing(s, x, n)
<1> DEFINE S == {m \in Nat : ~\E s : Summing(s, x, m)}
<1>1. SUFFICES ASSUME S # {} PROVE FALSE
  OBVIOUS
<1>2. PICK m \in S : \A k \in S : m <= k
  BY <1>1, Least
<1>3. m # 0
  <2>1. Summing([k \in 0 .. 0 |-> 0], x, 0)
    BY DEF Summing
  <2> QED  BY <2>1
<1>4. m - 1 \in Nat /\ m - 1 \notin S
  BY <1>2, <1>3
<1>5. PICK s : Summing(s, x, m - 1)
  BY <1>4
<1> DEFINE t == [k \in 0 .. m |-> IF k = m THEN s[m - 1] + x[m] ELSE s[k]]
<1>6. ASSUME NEW k \in 0 .. m PROVE t[k] = IF k = 0 THEN 0 ELSE t[k - 1] + x[k]
  BY <1>3, <1>4, <1>5 DEF Summing
<1>7. Summing(t, x, m)
  BY <1>6 DEF Summing
<1> QED  BY <1>2, <1>7

(* So Sums has the sums that it should have.                               *)
LEMMA SumsStep ==
  ASSUME NEW x, NEW n \in Nat
  PROVE  /\ Sums(x, n)[0] = 0
         /\ \A k \in 1 .. n : Sums(x, n)[k] = Sums(x, n)[k - 1] + x[k]
<1>1. Sums(x, n) = CHOOSE s : Summing(s, x, n)
  BY DEF Sums, Summing
<1>2. Summing(Sums(x, n), x, n)
  BY <1>1, SumsExist
<1> QED  BY <1>2 DEF Summing

(* Sums of natural numbers are natural and never shrink.                   *)
LEMMA SumsType ==
  ASSUME NEW n \in Nat, NEW x, \A k \in 1 .. n : x[k] \in Nat, NEW j \in 0 .. n
  PROVE  Sums(x, n)[j] \in Nat
<1> DEFINE S == {m \in 0 .. n : Sums(x, n)[m] \notin Nat}
<1>1. SUFFICES ASSUME S # {} PROVE FALSE
  OBVIOUS
<1>2. S \subseteq Nat
  OBVIOUS
<1>3. PICK m \in S : \A k \in S : m <= k
  BY <1>1, <1>2, Least
<1>4. m # 0
  BY SumsStep
<1>5. m - 1 \in 0 .. n /\ m \in 1 .. n /\ m - 1 \notin S
  BY <1>3, <1>4
<1> QED  BY <1>3, <1>5, SumsStep

LEMMA SumsInt ==
  ASSUME NEW n \in Nat, NEW x, \A k \in 1 .. n : x[k] \in Int, NEW j \in 0 .. n
  PROVE  Sums(x, n)[j] \in Int
<1> DEFINE S == {m \in 0 .. n : Sums(x, n)[m] \notin Int}
<1>1. SUFFICES ASSUME S # {} PROVE FALSE
  OBVIOUS
<1>2. S \subseteq Nat
  OBVIOUS
<1>3. PICK m \in S : \A k \in S : m <= k
  BY <1>1, <1>2, Least
<1>4. m # 0
  BY SumsStep
<1>5. m - 1 \in 0 .. n /\ m \in 1 .. n /\ m - 1 \notin S
  BY <1>3, <1>4
<1> QED  BY <1>3, <1>5, SumsStep

LEMMA SumsGrow ==
  ASSUME NEW n \in Nat, NEW x, \A k \in 1 .. n : x[k] \in Nat,
         NEW i \in 0 .. n, NEW j \in 0 .. n, i <= j
  PROVE  Sums(x, n)[i] <= Sums(x, n)[j]
<1> DEFINE s == Sums(x, n)
           S == {m \in i .. n : ~(s[i] <= s[m])}
<1>1. \A k \in 0 .. n : s[k] \in Nat
  BY SumsType
<1>2. \A k \in 1 .. n : s[k] = s[k - 1] + x[k]
  BY SumsStep
<1> HIDE DEF s
<1>3. SUFFICES ASSUME S # {} PROVE FALSE
  BY DEF s
<1>4. PICK m \in S : \A k \in S : m <= k
  <2>1. S \subseteq Nat
    OBVIOUS
  <2> QED  BY <1>3, <2>1, Least
<1>5. m # i
  BY <1>1, <1>4
<1>6. m - 1 \in i .. n /\ m \in 1 .. n /\ m - 1 \notin S
  BY <1>4, <1>5
<1>7. s[i] <= s[m - 1] /\ s[m] = s[m - 1] + x[m] /\ x[m] \in Nat
  BY <1>2, <1>6
<1>8. s[i] \in Nat /\ s[m - 1] \in Nat /\ ~(s[i] <= s[m])
  BY <1>1, <1>4, <1>6
<1> QED  BY <1>7, <1>8

(* Division rounds down.                                                   *)
LEMMA Division ==
  ASSUME NEW a \in Nat, NEW b \in Nat \ {0}
  PROVE  a \div b \in Nat /\ (a \div b) * b <= a /\ a < ((a \div b) + 1) * b
<1>1. a \div b \in Int /\ a % b \in 0 .. b - 1 /\ a = b * (a \div b) + (a % b)
  OBVIOUS
<1> DEFINE q == a \div b
<1>2. q \in Int /\ b * q <= a /\ a < b * q + b
  BY <1>1
<1> HIDE DEF q
<1>3. b * q = q * b /\ b * q + b = (q + 1) * b
  BY <1>2
<1>4. q \in Nat
  <2>1. SUFFICES ASSUME q <= -1 PROVE FALSE
    BY <1>2
  <2>2. (q + 1) * b <= 0
    BY <1>2, <2>1
  <2> QED  BY <1>2, <1>3, <2>2
<1> QED  BY <1>2, <1>3, <1>4 DEF q

-----------------------------------------------------------------------------
(* Induction, over the sets of the numbers and of the sequences that have  *)
(* a property.                                                             *)
LEMMA NumbersInduct ==
  ASSUME NEW S, S \subseteq Nat, 0 \in S, \A n \in S : n + 1 \in S
  PROVE  S = Nat
<1> DEFINE T == Nat \ S
<1>1. SUFFICES ASSUME T # {} PROVE FALSE
  OBVIOUS
<1>2. PICK n \in T : \A m \in T : n <= m
  <2>1. T \subseteq Nat
    OBVIOUS
  <2> QED  BY <1>1, <2>1, Least
<1>3. n - 1 \in Nat /\ n - 1 \notin T
  BY <1>2
<1> QED  BY <1>2, <1>3

LEMMA SequencesInduct ==
  ASSUME NEW T, NEW S, << >> \in S,
         \A s \in Seq(T), e \in T : s \in S => Append(s, e) \in S
  PROVE  Seq(T) \subseteq S
<1> DEFINE N == {n \in Nat : \A s \in Seq(T) : Len(s) = n => s \in S}
<1>1. 0 \in N
  <2>1. ASSUME NEW s \in Seq(T), Len(s) = 0 PROVE s \in S
    BY <2>1, EmptySeq
  <2> QED  BY <2>1
<1>2. ASSUME NEW n \in N PROVE n + 1 \in N
  <2>1. ASSUME NEW s \in Seq(T), Len(s) = n + 1 PROVE s \in S
    <3>1. s # << >>
      BY <2>1, EmptySeq
    <3>2. PICK r \in Seq(T), e \in T : s = Append(r, e)
      BY <3>1, SequenceEmptyOrAppend
    <3>3. Len(r) = n
      BY <2>1, <3>2, AppendProperties, LenProperties
    <3> QED  BY <3>2, <3>3
  <2> QED  BY <2>1
<1>3. N = Nat
  <2>1. N \subseteq Nat
    OBVIOUS
  <2> HIDE DEF N
  <2> QED  BY <1>1, <1>2, <2>1, NumbersInduct
<1>4. ASSUME NEW s \in Seq(T) PROVE s \in S
  <2>1. Len(s) \in N
    BY <1>3, LenProperties
  <2> QED  BY <2>1
<1> QED  BY <1>4

-----------------------------------------------------------------------------
(* Join.                                                                   *)
Joining(j, parts, n) ==
  j = [k \in 0 .. n |-> IF k = 0 THEN << >> ELSE j[k - 1] \o parts[k]]

LEMMA JoinsExist ==
  ASSUME NEW parts, NEW n \in Nat PROVE \E j : Joining(j, parts, n)
<1> DEFINE S == {m \in Nat : \E j : Joining(j, parts, m)}
<1>1. 0 \in S
  <2>1. Joining([k \in 0 .. 0 |-> << >>], parts, 0)
    BY DEF Joining
  <2> QED  BY <2>1
<1>2. ASSUME NEW m \in S PROVE m + 1 \in S
  <2>1. PICK j : Joining(j, parts, m)
    BY <1>2
  <2> DEFINE i == [k \in 0 .. m + 1 |-> IF k = m + 1 THEN j[m] \o parts[m + 1] ELSE j[k]]
  <2>2. ASSUME NEW k \in 0 .. m + 1 PROVE i[k] = IF k = 0 THEN << >> ELSE i[k - 1] \o parts[k]
    <3>1. m \in Nat /\ \A l \in 0 .. m : j[l] = IF l = 0 THEN << >> ELSE j[l - 1] \o parts[l]
      BY <2>1 DEF Joining
    <3>2. \A l \in 0 .. m : i[l] = j[l]
      BY <3>1
    <3>3. CASE k = m + 1
      <4>1. k # 0 /\ k - 1 = m /\ m \in 0 .. m
        BY <3>1, <3>3
      <4>2. i[k] = j[m] \o parts[m + 1]
        BY <3>3
      <4> HIDE DEF i
      <4> QED  BY <3>2, <3>3, <4>1, <4>2
    <3>4. CASE k # m + 1
      <4>1. k \in 0 .. m /\ (k # 0 => k - 1 \in 0 .. m)
        BY <3>1, <3>4
      <4> HIDE DEF i
      <4> QED  BY <3>1, <3>2, <4>1
    <3> QED  BY <3>3, <3>4
  <2>3. Joining(i, parts, m + 1)
    BY <2>2 DEF Joining
  <2> QED  BY <2>3
<1>3. S = Nat
  <2>1. S \subseteq Nat
    OBVIOUS
  <2> HIDE DEF S
  <2> QED  BY <1>1, <1>2, <2>1, NumbersInduct
<1> QED  BY <1>3

LEMMA JoinsAgree ==
  ASSUME NEW n \in Nat, NEW m \in Nat, NEW j, NEW i, NEW parts, NEW qarts,
         Joining(j, parts, n), Joining(i, qarts, m), NEW l \in Nat, l <= n, l <= m,
         \A k \in 1 .. l : parts[k] = qarts[k]
  PROVE  j[l] = i[l]
<1> DEFINE S == {k \in Nat : k <= l => j[k] = i[k]}
<1>1. 0 \in S
  BY DEF Joining
<1>2. ASSUME NEW k \in S PROVE k + 1 \in S
  <2>1. ASSUME k + 1 <= l PROVE j[k + 1] = i[k + 1]
    <3>1. j[k] = i[k] /\ k + 1 \in 0 .. n /\ k + 1 \in 0 .. m /\ k + 1 # 0 /\ (k + 1) - 1 = k
          /\ k + 1 \in 1 .. l
      BY <2>1
    <3>2. j[k + 1] = j[k] \o parts[k + 1] /\ i[k + 1] = i[k] \o qarts[k + 1]
      BY <3>1 DEF Joining
    <3> QED  BY <3>1, <3>2
  <2> QED  BY <2>1
<1>3. S = Nat
  <2>1. S \subseteq Nat
    OBVIOUS
  <2> HIDE DEF S
  <2> QED  BY <1>1, <1>2, <2>1, NumbersInduct
<1> QED  BY <1>3

LEMMA JoinFacts ==
  ASSUME NEW parts, NEW n \in Nat
  PROVE  \E j : Joining(j, parts, n) /\ Join(parts, n) = j[n]
<1> DEFINE j == CHOOSE i : Joining(i, parts, n)
<1>1. Join(parts, n) = j[n]
  BY DEF Join, Joining
<1>2. Joining(j, parts, n)
  BY JoinsExist
<1> QED  BY <1>1, <1>2

LEMMA JoinNone ==
  ASSUME NEW parts PROVE Join(parts, 0) = << >>
<1>1. PICK j : Joining(j, parts, 0) /\ Join(parts, 0) = j[0]
  BY JoinFacts
<1> QED  BY <1>1 DEF Joining

LEMMA JoinSame ==
  ASSUME NEW n \in Nat, NEW parts, NEW qarts, \A k \in 1 .. n : parts[k] = qarts[k]
  PROVE  Join(parts, n) = Join(qarts, n)
<1>1. PICK j : Joining(j, parts, n) /\ Join(parts, n) = j[n]
  BY JoinFacts
<1>2. PICK i : Joining(i, qarts, n) /\ Join(qarts, n) = i[n]
  BY JoinFacts
<1> QED  BY <1>1, <1>2, JoinsAgree

LEMMA JoinMore ==
  ASSUME NEW parts, NEW n \in Nat
  PROVE  Join(parts, n + 1) = Join(parts, n) \o parts[n + 1]
<1>1. PICK j : Joining(j, parts, n) /\ Join(parts, n) = j[n]
  BY JoinFacts
<1>2. PICK i : Joining(i, parts, n + 1) /\ Join(parts, n + 1) = i[n + 1]
  BY JoinFacts
<1>3. i[n + 1] = i[n] \o parts[n + 1]
  BY <1>2 DEF Joining
<1>4. i[n] = j[n]
  BY <1>1, <1>2, JoinsAgree
<1> QED  BY <1>1, <1>2, <1>3, <1>4

-----------------------------------------------------------------------------
(* AtOnce, on texts and values of tokens in U.                             *)
Within(value, U) == \A x \in DOMAIN value : value[x] \in Seq(U)

One(e, value) == IF e \in DOMAIN value THEN value[e] ELSE <<e>>

LEMMA OneFits ==
  ASSUME NEW U, NEW value, Within(value, U), NEW e \in U
  PROVE  One(e, value) \in Seq(U)
<1>1. <<e>> \in Seq(U)
  OBVIOUS
<1> QED  BY <1>1 DEF One, Within

LEMMA AtOnceEmpty ==
  ASSUME NEW value PROVE AtOnce(<< >>, value) = << >>
<1>1. Len(<< >>) = 0
  OBVIOUS
<1> QED  BY <1>1, JoinNone DEF AtOnce

LEMMA AtOnceAppend ==
  ASSUME NEW U, NEW t \in Seq(U), NEW e \in U, NEW value
  PROVE  AtOnce(Append(t, e), value) = AtOnce(t, value) \o One(e, value)
<1> DEFINE n == Len(t)
           r == Append(t, e)
           P(x) == [i \in DOMAIN x |-> IF x[i] \in DOMAIN value THEN value[x[i]] ELSE <<x[i]>>]
<1>1. n \in Nat /\ DOMAIN t = 1 .. n
  BY LenProperties
<1>2. Len(r) = n + 1 /\ DOMAIN r = 1 .. n + 1 /\ r[n + 1] = e /\ \A i \in 1 .. n : r[i] = t[i]
  <2>1. r \in Seq(U) /\ Len(r) = n + 1 /\ r[n + 1] = e /\ \A i \in 1 .. n : r[i] = t[i]
    BY AppendProperties
  <2>2. DOMAIN r = 1 .. Len(r)
    BY <2>1, LenProperties
  <2> QED  BY <2>1, <2>2
<1> HIDE DEF n, r
<1>3. \A i \in 1 .. n : P(r)[i] = P(t)[i]
  BY <1>1, <1>2
<1>4. P(r)[n + 1] = One(e, value)
  BY <1>1, <1>2 DEF One
<1>5. AtOnce(t, value) = Join(P(t), n) /\ AtOnce(r, value) = Join(P(r), n + 1)
  BY <1>2 DEF AtOnce, n
<1> HIDE DEF P
<1>6. Join(P(r), n) = Join(P(t), n)
  BY <1>1, <1>3, JoinSame
<1>7. Join(P(r), n + 1) = Join(P(r), n) \o P(r)[n + 1]
  BY <1>1, JoinMore
<1> QED  BY <1>4, <1>5, <1>6, <1>7 DEF r

LEMMA AtOnceType ==
  ASSUME NEW U, NEW t \in Seq(U), NEW value, Within(value, U)
  PROVE  AtOnce(t, value) \in Seq(U)
<1> DEFINE S == {s \in Seq(U) : AtOnce(s, value) \in Seq(U)}
<1>1. << >> \in S
  BY AtOnceEmpty, EmptySeq
<1>2. ASSUME NEW s \in Seq(U), NEW e \in U, s \in S PROVE Append(s, e) \in S
  <2>1. AtOnce(s, value) \in Seq(U) /\ One(e, value) \in Seq(U)
    BY <1>2, OneFits
  <2>2. AtOnce(s, value) \o One(e, value) \in Seq(U)
    BY <2>1, ConcatProperties
  <2>3. AtOnce(Append(s, e), value) = AtOnce(s, value) \o One(e, value)
    BY AtOnceAppend
  <2>4. Append(s, e) \in Seq(U)
    BY AppendProperties
  <2> QED  BY <2>2, <2>3, <2>4
<1>3. Seq(U) \subseteq S
  <2> HIDE DEF S
  <2> QED  BY <1>1, <1>2, SequencesInduct
<1> QED  BY <1>3

LEMMA AtOnceSame ==
  ASSUME NEW U, NEW t \in Seq(U), NEW value, NEW other,
         \A e \in U : One(e, value) = One(e, other)
  PROVE  AtOnce(t, value) = AtOnce(t, other)
<1> DEFINE P(v) == [i \in DOMAIN t |-> IF t[i] \in DOMAIN v THEN v[t[i]] ELSE <<t[i]>>]
<1>1. Len(t) \in Nat /\ DOMAIN t = 1 .. Len(t)
  BY LenProperties
<1>2. ASSUME NEW i \in 1 .. Len(t) PROVE P(value)[i] = P(other)[i]
  <2>1. t[i] \in U
    BY ElementOfSeq
  <2>2. One(t[i], value) = One(t[i], other)
    BY <2>1
  <2> QED  BY <1>1, <2>2 DEF One
<1>3. AtOnce(t, value) = Join(P(value), Len(t)) /\ AtOnce(t, other) = Join(P(other), Len(t))
  BY DEF AtOnce
<1> HIDE DEF P
<1> QED  BY <1>1, <1>2, <1>3, JoinSame

LEMMA AtOnceNothing ==
  ASSUME NEW U, NEW t \in Seq(U), NEW value, U \cap DOMAIN value = {}
  PROVE  AtOnce(t, value) = t
<1> DEFINE S == {s \in Seq(U) : AtOnce(s, value) = s}
<1>1. << >> \in S
  BY AtOnceEmpty, EmptySeq
<1>2. ASSUME NEW s \in Seq(U), NEW e \in U, s \in S PROVE Append(s, e) \in S
  <2>1. AtOnce(Append(s, e), value) = s \o <<e>>
    BY <1>2, AtOnceAppend DEF One
  <2>2. Append(s, e) \in Seq(U) /\ Append(s, e) = s \o <<e>>
    BY AppendProperties, AppendIsConcat
  <2> QED  BY <2>1, <2>2
<1>3. Seq(U) \subseteq S
  <2> HIDE DEF S
  <2> QED  BY <1>1, <1>2, SequencesInduct
<1> QED  BY <1>3

(* Cat is \o, of which the provers are not to think.                       *)
Cat(s, t) == s \o t

LEMMA CatFacts ==
  ASSUME NEW U, NEW s \in Seq(U), NEW t \in Seq(U)
  PROVE  /\ Cat(s, t) \in Seq(U)
         /\ Cat(s, << >>) = s
BY ConcatProperties, ConcatEmptySeq DEF Cat

LEMMA CatAssociative ==
  ASSUME NEW U, NEW r \in Seq(U), NEW s \in Seq(U), NEW t \in Seq(U)
  PROVE  Cat(Cat(r, s), t) = Cat(r, Cat(s, t))
BY ConcatAssociative DEF Cat

LEMMA CatAppend ==
  ASSUME NEW U, NEW s \in Seq(U), NEW e \in U
  PROVE  Append(s, e) = Cat(s, <<e>>) /\ <<e>> \in Seq(U) /\ Append(s, e) \in Seq(U)
BY AppendIsConcat, AppendProperties DEF Cat

LEMMA AtOnceMore ==
  ASSUME NEW U, NEW t \in Seq(U), NEW e \in U, NEW value
  PROVE  AtOnce(Append(t, e), value) = Cat(AtOnce(t, value), One(e, value))
BY AtOnceAppend DEF Cat

LEMMA AtOnceConcat ==
  ASSUME NEW U, NEW s \in Seq(U), NEW t \in Seq(U), NEW value, Within(value, U)
  PROVE  AtOnce(Cat(s, t), value) = Cat(AtOnce(s, value), AtOnce(t, value))
<1> DEFINE A(x) == AtOnce(x, value)
           S == {r \in Seq(U) : A(Cat(s, r)) = Cat(A(s), A(r))}
<1>1. << >> \in S
  <2>1. A(<< >>) = << >> /\ A(s) \in Seq(U) /\ << >> \in Seq(U)
    BY AtOnceEmpty, AtOnceType, EmptySeq
  <2>2. Cat(s, << >>) = s /\ Cat(A(s), << >>) = A(s)
    BY <2>1, CatFacts
  <2> QED  BY <2>1, <2>2
<1>2. ASSUME NEW r \in Seq(U), NEW e \in U, r \in S PROVE Append(r, e) \in S
  <2>1. Cat(s, r) \in Seq(U)
    BY CatFacts
  <2>2. Append(r, e) = Cat(r, <<e>>) /\ Append(Cat(s, r), e) = Cat(Cat(s, r), <<e>>)
        /\ <<e>> \in Seq(U) /\ Append(r, e) \in Seq(U)
    BY <2>1, CatAppend
  <2>3. Cat(s, Append(r, e)) = Append(Cat(s, r), e)
    <3>1. PICK x \in Seq(U) : x = <<e>>
      BY <2>2
    <3>2. Cat(Cat(s, r), x) = Cat(s, Cat(r, x))
      BY CatAssociative
    <3> QED  BY <2>2, <3>1, <3>2
  <2>4. A(Append(Cat(s, r), e)) = Cat(A(Cat(s, r)), One(e, value))
        /\ A(Append(r, e)) = Cat(A(r), One(e, value))
    BY <2>1, AtOnceMore
  <2>5. A(s) \in Seq(U) /\ A(r) \in Seq(U) /\ One(e, value) \in Seq(U)
    BY AtOnceType, OneFits
  <2>6. A(Cat(s, r)) = Cat(A(s), A(r))
    BY <1>2
  <2>7. Cat(Cat(A(s), A(r)), One(e, value)) = Cat(A(s), Cat(A(r), One(e, value)))
    BY <2>5, CatAssociative
  <2> HIDE DEF A
  <2>8. A(Cat(s, Append(r, e))) = Cat(A(s), A(Append(r, e)))
    BY <2>3, <2>4, <2>6, <2>7
  <2> QED  BY <2>2, <2>8
<1>3. Seq(U) \subseteq S
  <2> HIDE DEF S
  <2> QED  BY <1>1, <1>2, SequencesInduct
<1> QED  BY <1>3

(* One round of replacements after another is one round, in which every    *)
(* value has undergone the other.                                          *)
Follows(both, first, second, U) ==
  \A e \in U : AtOnce(One(e, first), second) = One(e, both)

LEMMA AtOnceTwice ==
  ASSUME NEW U, NEW t \in Seq(U), NEW first, NEW second, NEW both,
         Within(first, U), Within(second, U), Follows(both, first, second, U)
  PROVE  AtOnce(AtOnce(t, first), second) = AtOnce(t, both)
<1> DEFINE S == {s \in Seq(U) : AtOnce(AtOnce(s, first), second) = AtOnce(s, both)}
<1>1. << >> \in S
  BY AtOnceEmpty, EmptySeq
<1>2. ASSUME NEW s \in Seq(U), NEW e \in U, s \in S PROVE Append(s, e) \in S
  <2>1. AtOnce(Append(s, e), first) = Cat(AtOnce(s, first), One(e, first))
        /\ AtOnce(Append(s, e), both) = Cat(AtOnce(s, both), One(e, both))
    BY AtOnceMore
  <2>2. AtOnce(s, first) \in Seq(U) /\ One(e, first) \in Seq(U)
    BY AtOnceType, OneFits
  <2>3. AtOnce(Cat(AtOnce(s, first), One(e, first)), second)
          = Cat(AtOnce(AtOnce(s, first), second), AtOnce(One(e, first), second))
    BY <2>2, AtOnceConcat
  <2>4. AtOnce(AtOnce(s, first), second) = AtOnce(s, both)
        /\ AtOnce(One(e, first), second) = One(e, both)
    BY <1>2 DEF Follows
  <2> QED  BY <2>1, <2>3, <2>4, CatAppend
<1>3. Seq(U) \subseteq S
  <2> HIDE DEF S
  <2> QED  BY <1>1, <1>2, SequencesInduct
<1> QED  BY <1>3

LEMMA SubstituteIsAtOnce ==
  ASSUME NEW t, NEW m, NEW v
  PROVE  Substitute(t, m, v) = AtOnce(t, [x \in {m} |-> v])
<1> DEFINE value == [x \in {m} |-> v]
<1>1. [i \in DOMAIN t |-> IF t[i] = m THEN v ELSE <<t[i]>>]
        = [i \in DOMAIN t |-> IF t[i] \in DOMAIN value THEN value[t[i]] ELSE <<t[i]>>]
  OBVIOUS
<1> QED  BY <1>1 DEF Substitute, AtOnce

LEMMA AtOnceSingle ==
  ASSUME NEW e, NEW value, One(e, value) \in Seq(ToSet(One(e, value)))
  PROVE  AtOnce(<<e>>, value) = One(e, value)
<1> DEFINE U == {e}
<1>1. << >> \in Seq(U) /\ e \in U /\ Append(<< >>, e) = <<e>>
  BY EmptySeq
<1>2. AtOnce(Append(<< >>, e), value) = AtOnce(<< >>, value) \o One(e, value)
  BY <1>1, AtOnceAppend
<1>3. << >> \o One(e, value) = One(e, value)
  BY ConcatEmptySeq
<1> QED  BY <1>1, <1>2, <1>3, AtOnceEmpty

-----------------------------------------------------------------------------
(* The elements of a text.                                                 *)
LEMMA ElementsOf ==
  ASSUME NEW U, NEW s \in Seq(U)
  PROVE  /\ IsList(s)
         /\ ToSet(s) \subseteq U
         /\ \A e : Contains(s, e) <=> e \in ToSet(s)
         /\ \A i \in 1 .. Len(s) : s[i] \in ToSet(s)
         /\ DOMAIN s = 1 .. Len(s) /\ Len(s) \in Nat
<1>1. DOMAIN s = 1 .. Len(s) /\ Len(s) \in Nat
  BY LenProperties
<1>2. \A i \in 1 .. Len(s) : s[i] \in ToSet(s) /\ s[i] \in U
  BY <1>1, ElementOfSeq DEF ToSet
<1>3. SubSeq(s, 1, Len(s)) \in Seq(ToSet(s))
  BY <1>1, <1>2, SubSeqProperties
<1>4. SubSeq(s, 1, Len(s)) = s
  BY SubSeqFull
<1>5. ToSet(s) \subseteq U /\ \A e : Contains(s, e) <=> e \in ToSet(s)
  BY <1>1, <1>2 DEF ToSet, Contains
<1> QED  BY <1>1, <1>2, <1>3, <1>4, <1>5 DEF IsList

LEMMA ListFacts ==
  ASSUME NEW s, IsList(s)
  PROVE  /\ \A e : Contains(s, e) <=> e \in ToSet(s)
         /\ \A i \in 1 .. Len(s) : s[i] \in ToSet(s)
         /\ DOMAIN s = 1 .. Len(s) /\ Len(s) \in Nat
         /\ \A U : ToSet(s) \subseteq U => s \in Seq(U)
<1>1. s \in Seq(ToSet(s))
  BY DEF IsList
<1>2. \A U : ToSet(s) \subseteq U => s \in Seq(U)
  BY <1>1, SeqMonotonic
<1> QED  BY <1>1, <1>2, ElementsOf

LEMMA ElementsOfCat ==
  ASSUME NEW U, NEW s \in Seq(U), NEW t \in Seq(U)
  PROVE  ToSet(s) \subseteq ToSet(s \o t) /\ ToSet(t) \subseteq ToSet(s \o t)
<1> DEFINE r == s \o t
<1>1. Len(s) \in Nat /\ Len(t) \in Nat /\ DOMAIN s = 1 .. Len(s) /\ DOMAIN t = 1 .. Len(t)
  BY LenProperties
<1>2. r \in Seq(U) /\ Len(r) = Len(s) + Len(t)
      /\ \A i \in 1 .. Len(s) + Len(t) : r[i] = IF i <= Len(s) THEN s[i] ELSE t[i - Len(s)]
  BY ConcatProperties
<1>3. DOMAIN r = 1 .. Len(s) + Len(t)
  BY <1>2, LenProperties
<1> HIDE DEF r
<1>4. ASSUME NEW i \in 1 .. Len(s) PROVE s[i] \in ToSet(r)
  <2>1. i \in DOMAIN r /\ r[i] = s[i]
    BY <1>1, <1>2, <1>3
  <2> QED  BY <2>1 DEF ToSet
<1>5. ASSUME NEW i \in 1 .. Len(t) PROVE t[i] \in ToSet(r)
  <2>1. Len(s) + i \in DOMAIN r /\ r[Len(s) + i] = t[i]
    BY <1>1, <1>2, <1>3
  <2> QED  BY <2>1 DEF ToSet
<1>6. ToSet(s) \subseteq ToSet(r) /\ ToSet(t) \subseteq ToSet(r)
  BY <1>1, <1>4, <1>5 DEF ToSet
<1> QED  BY <1>6 DEF r

(* A join has the elements of its parts.                                   *)
LEMMA JoinType ==
  ASSUME NEW U, NEW parts, NEW n \in Nat, \A k \in 1 .. n : parts[k] \in Seq(U)
  PROVE  Join(parts, n) \in Seq(U)
<1> DEFINE S == {m \in Nat : m <= n => Join(parts, m) \in Seq(U)}
<1>1. 0 \in S
  BY JoinNone, EmptySeq
<1>2. ASSUME NEW m \in S PROVE m + 1 \in S
  <2>1. ASSUME m + 1 <= n PROVE Join(parts, m + 1) \in Seq(U)
    <3>1. Join(parts, m) \in Seq(U) /\ parts[m + 1] \in Seq(U)
      BY <2>1
    <3>2. Join(parts, m) \o parts[m + 1] \in Seq(U)
      BY <3>1, ConcatProperties
    <3> QED  BY <3>2, JoinMore
  <2> QED  BY <2>1
<1>3. S = Nat
  <2>1. S \subseteq Nat
    OBVIOUS
  <2> HIDE DEF S
  <2> QED  BY <1>1, <1>2, <2>1, NumbersInduct
<1> QED  BY <1>3

LEMMA JoinHasParts ==
  ASSUME NEW U, NEW parts, NEW n \in Nat, \A k \in 1 .. n : parts[k] \in Seq(U),
         NEW k \in 1 .. n
  PROVE  ToSet(parts[k]) \subseteq ToSet(Join(parts, n))
<1> DEFINE P(m) == k <= m => ToSet(parts[k]) \subseteq ToSet(Join(parts, m))
           S == {m \in Nat : m <= n => P(m)}
<1>1. 0 \in S
  OBVIOUS
<1>2. ASSUME NEW m \in S PROVE m + 1 \in S
  <2>1. ASSUME m + 1 <= n, k <= m + 1 PROVE ToSet(parts[k]) \subseteq ToSet(Join(parts, m + 1))
    <3>1. PICK a \in Seq(U) : a = Join(parts, m)
      <4>1. \A l \in 1 .. m : parts[l] \in Seq(U)
        BY <2>1
      <4> QED  BY <4>1, JoinType
    <3>2. PICK b \in Seq(U) : b = parts[m + 1]
      BY <2>1
    <3>3. ToSet(a) \subseteq ToSet(a \o b) /\ ToSet(b) \subseteq ToSet(a \o b)
      BY ElementsOfCat
    <3>4. Join(parts, m + 1) = a \o b
      BY <3>1, <3>2, JoinMore
    <3>5. k <= m \/ k = m + 1
      BY <2>1
    <3>6. ToSet(parts[k]) \subseteq ToSet(a) \cup ToSet(b)
      BY <1>2, <2>1, <3>1, <3>2, <3>5
    <3> QED  BY <3>3, <3>4, <3>6
  <2> QED  BY <2>1
<1>3. S = Nat
  <2>1. S \subseteq Nat
    OBVIOUS
  <2> HIDE DEF S
  <2> QED  BY <1>1, <1>2, <2>1, NumbersInduct
<1> QED  BY <1>3

-----------------------------------------------------------------------------
(* The tables have the macros of the texts.                                *)
MacrosOf(text) == {m \in ToSet(text) : IsMacro(m)}

LEMMA OnlyElement ==
  ASSUME NEW m PROVE m \in ToSet(<<m>>)
<1>1. PICK x : x = <<m>>
  OBVIOUS
<1>2. 1 \in DOMAIN x /\ x[1] = m
  BY <1>1
<1>3. m \in ToSet(x)
  BY <1>2 DEF ToSet
<1> QED  BY <1>1, <1>3

LEMMA OfKindFacts ==
  ASSUME NEW text, IsList(text), NEW kinds
  PROVE  /\ OfKind(text, kinds) \in Seq({m \in ToSet(text) : m.kind \in kinds})
         /\ \A m \in ToSet(text) : m.kind \in kinds => m \in ToSet(OfKind(text, kinds))
<1> DEFINE n == Len(text)
           U == {m \in ToSet(text) : m.kind \in kinds}
           parts == [i \in DOMAIN text |-> IF text[i].kind \in kinds THEN <<text[i]>> ELSE << >>]
<1>1. n \in Nat /\ DOMAIN text = 1 .. n /\ \A i \in 1 .. n : text[i] \in ToSet(text)
  BY ListFacts
<1>2. OfKind(text, kinds) = Join(parts, n)
  BY DEF OfKind
<1>3. ASSUME NEW i \in 1 .. n PROVE parts[i] \in Seq(U)
  <2>1. CASE text[i].kind \in kinds
    <3>1. text[i] \in U
      BY <1>1, <2>1
    <3>2. <<text[i]>> \in Seq(U)
      BY <3>1
    <3> QED  BY <1>1, <2>1, <3>2
  <2>2. CASE text[i].kind \notin kinds
    BY <1>1, <2>2, EmptySeq
  <2> QED  BY <2>1, <2>2
<1>4. ASSUME NEW m \in ToSet(text), m.kind \in kinds PROVE m \in ToSet(Join(parts, n))
  <2>1. PICK i \in 1 .. n : text[i] = m
    BY <1>1 DEF ToSet
  <2>2. parts[i] = <<m>>
    BY <1>1, <1>4, <2>1
  <2> HIDE DEF parts
  <2>3. m \in ToSet(parts[i])
    BY <2>2, OnlyElement
  <2>4. ToSet(parts[i]) \subseteq ToSet(Join(parts, n))
    BY <1>1, <1>3, JoinHasParts
  <2> QED  BY <2>3, <2>4
<1> HIDE DEF parts
<1>5. Join(parts, n) \in Seq(U)
  BY <1>1, <1>3, JoinType
<1> QED  BY <1>2, <1>4, <1>5

LEMMA FoundFacts ==
  ASSUME NEW text, IsList(text)
  PROVE  Found(text) \in Seq(MacrosOf(text)) /\ MacrosOf(text) \subseteq ToSet(Found(text))
<1> DEFINE kinds == {"args", "var"} \cup Digest
<1>1. PICK a \in Seq(MacrosOf(text)) : a = OfKind(text, kinds)
  <2>1. {m \in ToSet(text) : m.kind \in kinds} \subseteq MacrosOf(text)
    BY DEF MacrosOf, IsMacro
  <2> HIDE DEF kinds
  <2>2. OfKind(text, kinds) \in Seq({m \in ToSet(text) : m.kind \in kinds})
    BY OfKindFacts
  <2> QED  BY <2>1, <2>2, SeqMonotonic
<1>2. PICK b \in Seq(MacrosOf(text)) : b = OfKind(text, {"env"})
  <2>1. {m \in ToSet(text) : m.kind \in {"env"}} \subseteq MacrosOf(text)
    BY DEF MacrosOf, IsMacro
  <2>2. OfKind(text, {"env"}) \in Seq({m \in ToSet(text) : m.kind \in {"env"}})
    BY OfKindFacts
  <2> QED  BY <2>1, <2>2, SeqMonotonic
<1>3. Found(text) = a \o b
  BY <1>1, <1>2 DEF Found
<1>4. MacrosOf(text) \subseteq ToSet(a) \cup ToSet(b)
  <2>1. ASSUME NEW m \in MacrosOf(text) PROVE m \in ToSet(a) \cup ToSet(b)
    <3>1. m \in ToSet(text) /\ (m.kind \in kinds \/ m.kind \in {"env"})
      BY DEF MacrosOf, IsMacro
    <3> HIDE DEF kinds
    <3> QED  BY <1>1, <1>2, <3>1, OfKindFacts
  <2> QED  BY <2>1
<1>5. a \o b \in Seq(MacrosOf(text)) /\ ToSet(a) \cup ToSet(b) \subseteq ToSet(a \o b)
  BY ConcatProperties, ElementsOfCat
<1> QED  BY <1>3, <1>4, <1>5

LEMMA DistinctFacts ==
  ASSUME NEW M, NEW macros \in Seq(M)
  PROVE  Distinct(macros) \in Seq(M) /\ ToSet(macros) \subseteq ToSet(Distinct(macros))
<1> DEFINE n == Len(macros)
           parts == [i \in DOMAIN macros |->
             IF macros[i] \in {macros[k] : k \in 1 .. i - 1} THEN << >> ELSE <<macros[i]>>]
<1>1. n \in Nat /\ DOMAIN macros = 1 .. n /\ \A i \in 1 .. n : macros[i] \in M
  BY LenProperties, ElementOfSeq
<1>2. Distinct(macros) = Join(parts, n)
  BY DEF Distinct
<1>3. ASSUME NEW i \in 1 .. n PROVE parts[i] \in Seq(M)
  <2>1. macros[i] \in M /\ << >> \in Seq(M)
    BY <1>1, EmptySeq
  <2>2. <<macros[i]>> \in Seq(M)
    BY <2>1
  <2>3. parts[i] = << >> \/ parts[i] = <<macros[i]>>
    BY <1>1
  <2> QED  BY <2>1, <2>2, <2>3
<1>4. ASSUME NEW m \in ToSet(macros) PROVE m \in ToSet(Join(parts, n))
  <2> DEFINE S == {i \in 1 .. n : macros[i] = m}
  <2>1. PICK i \in S : \A k \in S : i <= k
    <3>1. S # {}
      BY <1>1 DEF ToSet
    <3>2. S \subseteq Nat
      OBVIOUS
    <3> HIDE DEF S
    <3> QED  BY <3>1, <3>2, Least
  <2>2. macros[i] \notin {macros[k] : k \in 1 .. i - 1}
    <3>1. ASSUME NEW k \in 1 .. i - 1 PROVE macros[k] # m
      <4>1. k \in 1 .. n /\ ~(i <= k)
        BY <1>1, <2>1
      <4> QED  BY <2>1, <4>1
    <3> QED  BY <2>1, <3>1
  <2>3. i \in 1 .. n /\ parts[i] = <<m>>
    BY <1>1, <2>1, <2>2
  <2> HIDE DEF parts
  <2>4. m \in ToSet(parts[i])
    BY <2>3, OnlyElement
  <2>5. ToSet(parts[i]) \subseteq ToSet(Join(parts, n))
    BY <1>1, <1>3, <2>3, JoinHasParts
  <2> QED  BY <2>4, <2>5
<1> HIDE DEF parts
<1>5. Join(parts, n) \in Seq(M)
  BY <1>1, <1>3, JoinType
<1> QED  BY <1>2, <1>4, <1>5

-----------------------------------------------------------------------------
(* Expand.                                                                 *)
Leaving(left, text, macros, value, n) ==
  left = [k \in 0 .. n |->
            IF k = 0 THEN text ELSE Substitute(left[k - 1], macros[k], value[macros[k]])]

LEMMA LeftExists ==
  ASSUME NEW text, NEW macros, NEW value, NEW n \in Nat
  PROVE  \E left : Leaving(left, text, macros, value, n)
<1> DEFINE After(l, k) == Substitute(l, macros[k], value[macros[k]])
           S == {m \in Nat : \E j : Leaving(j, text, macros, value, m)}
<1>1. 0 \in S
  <2>1. Leaving([k \in 0 .. 0 |-> text], text, macros, value, 0)
    BY DEF Leaving
  <2> QED  BY <2>1
<1>2. ASSUME NEW m \in S PROVE m + 1 \in S
  <2>1. PICK j : Leaving(j, text, macros, value, m)
    BY <1>2
  <2> DEFINE i == [k \in 0 .. m + 1 |-> IF k = m + 1 THEN After(j[m], m + 1) ELSE j[k]]
  <2>2. \A l \in 0 .. m : j[l] = IF l = 0 THEN text ELSE After(j[l - 1], l)
    BY <2>1 DEF Leaving
  <2> HIDE DEF After
  <2>3. ASSUME NEW k \in 0 .. m + 1 PROVE i[k] = IF k = 0 THEN text ELSE After(i[k - 1], k)
    <3>1. m \in Nat
      OBVIOUS
    <3>2. \A l \in 0 .. m : i[l] = j[l]
      BY <3>1
    <3>3. CASE k = m + 1
      <4>1. k # 0 /\ k - 1 = m /\ m \in 0 .. m
        BY <3>1, <3>3
      <4>2. i[k] = After(j[m], m + 1)
        BY <3>3
      <4> HIDE DEF i
      <4> QED  BY <3>2, <3>3, <4>1, <4>2
    <3>4. CASE k # m + 1
      <4>1. k \in 0 .. m /\ (k # 0 => k - 1 \in 0 .. m)
        BY <3>1, <3>4
      <4> HIDE DEF i
      <4> QED  BY <2>2, <3>2, <4>1
    <3> QED  BY <3>3, <3>4
  <2>4. i = [k \in 0 .. m + 1 |-> IF k = 0 THEN text ELSE After(i[k - 1], k)]
    BY <2>3
  <2>5. Leaving(i, text, macros, value, m + 1)
    BY <2>4 DEF Leaving, After
  <2> QED  BY <2>5
<1>3. S = Nat
  <2>1. S \subseteq Nat
    OBVIOUS
  <2> HIDE DEF S
  <2> QED  BY <1>1, <1>2, <2>1, NumbersInduct
<1> QED  BY <1>3

Dying(macros, value) == \E m \in ToSet(macros) : Contains(value[m], Dead)

Left(left, text, macros, value) ==
  /\ left[0] = text
  /\ \A k \in 1 .. Len(macros) :
       left[k] = Substitute(left[k - 1], macros[k], value[macros[k]])

LEMMA ExpandFacts ==
  ASSUME NEW text, NEW macros, IsList(macros), NEW value
  PROVE  \E left :
           /\ Left(left, text, macros, value)
           /\ Dying(macros, value) => Expand(text, macros, value) = <<Dead>>
           /\ ~Dying(macros, value) => Expand(text, macros, value) = left[Len(macros)]
<1> DEFINE n == Len(macros)
           left == CHOOSE l : Leaving(l, text, macros, value, n)
<1>1. n \in Nat
  BY ListFacts
<1>2. /\ Dying(macros, value) => Expand(text, macros, value) = <<Dead>>
      /\ ~Dying(macros, value) => Expand(text, macros, value) = left[n]
  BY DEF Expand, Leaving, Dying
<1>3. Leaving(left, text, macros, value, n)
  BY <1>1, LeftExists
<1> HIDE DEF left
<1>4. left[0] = text
      /\ \A k \in 1 .. n : left[k] = Substitute(left[k - 1], macros[k], value[macros[k]])
  BY <1>1, <1>3 DEF Leaving
<1>5. Left(left, text, macros, value)
  BY <1>4 DEF Left
<1> QED  BY <1>2, <1>5

LEMMA SubstituteType ==
  ASSUME NEW U, NEW t \in Seq(U), NEW m, NEW v \in Seq(U)
  PROVE  Substitute(t, m, v) \in Seq(U)
<1>1. Within([x \in {m} |-> v], U)
  BY DEF Within
<1> QED  BY <1>1, AtOnceType, SubstituteIsAtOnce

LEMMA ExpandType ==
  ASSUME NEW U, NEW text \in Seq(U), NEW macros, IsList(macros), NEW value,
         \A m \in ToSet(macros) : value[m] \in Seq(U), ~Dying(macros, value)
  PROVE  Expand(text, macros, value) \in Seq(U)
<1> DEFINE n == Len(macros)
<1>0. PICK left : Left(left, text, macros, value) /\ Expand(text, macros, value) = left[n]
  BY ExpandFacts
<1>1. /\ left[0] = text
      /\ \A k \in 1 .. n : left[k] = Substitute(left[k - 1], macros[k], value[macros[k]])
  BY <1>0 DEF Left
<1>2. n \in Nat /\ \A i \in 1 .. n : macros[i] \in ToSet(macros)
  BY ListFacts
<1> HIDE DEF n
<1> DEFINE S == {k \in Nat : k <= n => left[k] \in Seq(U)}
<1>3. 0 \in S
  BY <1>1
<1>4. ASSUME NEW k \in S PROVE k + 1 \in S
  <2>1. ASSUME k + 1 <= n PROVE left[k + 1] \in Seq(U)
    <3>1. k + 1 \in 1 .. n /\ (k + 1) - 1 = k
      BY <1>2, <2>1
    <3>2. left[k] \in Seq(U) /\ value[macros[k + 1]] \in Seq(U)
      BY <1>2, <2>1, <3>1
    <3>3. left[k + 1] = Substitute(left[k], macros[k + 1], value[macros[k + 1]])
      BY <1>1, <3>1
    <3> QED  BY <3>2, <3>3, SubstituteType
  <2> QED  BY <2>1
<1>5. S = Nat
  <2>1. S \subseteq Nat
    OBVIOUS
  <2> HIDE DEF S
  <2> QED  BY <1>3, <1>4, <2>1, NumbersInduct
<1>6. left[n] \in Seq(U)
  BY <1>2, <1>5
<1> QED  BY <1>0, <1>6 DEF n

(* Texts in, a text out.                                                   *)
LEMMA ExpandText ==
  ASSUME NEW text, IsText(text), NEW macros, IsList(macros), NEW value,
         \A m \in ToSet(macros) : IsText(value[m])
  PROVE  IsText(Expand(text, macros, value)) /\ Expand(text, macros, value) # <<Dead>>
<1> DEFINE U == ToSet(text) \cup UNION {ToSet(value[m]) : m \in ToSet(macros)}
<1>1. Dead \notin U
  BY DEF IsText
<1>2. text \in Seq(U)
  BY ListFacts DEF IsText
<1>3. ASSUME NEW m \in ToSet(macros) PROVE value[m] \in Seq(U) /\ ~Contains(value[m], Dead)
  <2>1. IsList(value[m]) /\ ToSet(value[m]) \subseteq U /\ Dead \notin ToSet(value[m])
    BY DEF IsText
  <2> HIDE DEF U
  <2> QED  BY <2>1, ListFacts
<1>4. ~Dying(macros, value)
  BY <1>3 DEF Dying
<1> HIDE DEF U
<1>5. Expand(text, macros, value) \in Seq(U)
  BY <1>2, <1>3, <1>4, ExpandType
<1>6. PICK e \in Seq(U) : e = Expand(text, macros, value)
  BY <1>5
<1>7. IsText(e)
  BY <1>1, ElementsOf DEF IsText
<1>8. e # <<Dead>>
  <2>1. SUFFICES ASSUME e = <<Dead>> PROVE FALSE
    OBVIOUS
  <2>2. Dead \in ToSet(e)
    BY <2>1, OnlyElement
  <2> QED  BY <1>7, <2>2 DEF IsText
<1> QED  BY <1>6, <1>7, <1>8

(* One macro after the other is all at once, if none brings a later one.   *)
Ordered(macros, value) ==
  \A i, j \in 1 .. Len(macros) : i < j => macros[j] \notin ToSet(value[macros[i]])

LEMMA ExpandAtOnce ==
  ASSUME NEW U, NEW text \in Seq(U), NEW macros, IsList(macros), NEW value,
         \A m \in ToSet(macros) : value[m] \in Seq(U),
         ~Dying(macros, value), Ordered(macros, value)
  PROVE  Expand(text, macros, value) = AtOnce(text, [m \in ToSet(macros) |-> value[m]])
<1> DEFINE n == Len(macros)
           First(k) == {macros[i] : i \in 1 .. k}
           Some(k) == [m \in First(k) |-> value[m]]
<1>0. PICK left : Left(left, text, macros, value) /\ Expand(text, macros, value) = left[n]
  BY ExpandFacts
<1>1. /\ left[0] = text
      /\ \A k \in 1 .. n : left[k] = Substitute(left[k - 1], macros[k], value[macros[k]])
  BY <1>0 DEF Left
<1>2. n \in Nat /\ \A i \in 1 .. n : macros[i] \in ToSet(macros)
  BY ListFacts
<1> DEFINE S == {k \in Nat : k <= n => left[k] = AtOnce(text, Some(k))}
<1>3. 0 \in S
  <2>1. U \cap DOMAIN Some(0) = {}
    OBVIOUS
  <2> HIDE DEF Some
  <2>2. AtOnce(text, Some(0)) = text
    BY <2>1, AtOnceNothing
  <2> QED  BY <1>1, <2>2
<1>4. ASSUME NEW k \in S, k + 1 <= n PROVE left[k + 1] = AtOnce(text, Some(k + 1))
  <2> DEFINE m == macros[k + 1]
             single == [x \in {m} |-> value[m]]
  <2>1. k \in Nat /\ k + 1 \in 1 .. n /\ (k + 1) - 1 = k /\ \A i \in 1 .. k : i \in 1 .. n
    BY <1>2, <1>4
  <2>2. left[k] = AtOnce(text, Some(k)) /\ m \in ToSet(macros)
    BY <1>2, <1>4, <2>1
  <2>3. left[k + 1] = Substitute(left[k], m, value[m])
    BY <1>1, <2>1
  <2>4. left[k + 1] = AtOnce(AtOnce(text, Some(k)), single)
    BY <2>2, <2>3, SubstituteIsAtOnce
  <2>5. Within(Some(k), U) /\ Within(single, U)
    BY <1>2, <2>1, <2>2 DEF Within
  <2>6. First(k + 1) = First(k) \cup {m}
    <3>1. \A i : i \in 1 .. k + 1 <=> (i \in 1 .. k \/ i = k + 1)
      BY <2>1
    <3> QED  BY <3>1
  <2> HIDE DEF n, m
  <2>7. ASSUME NEW e \in U PROVE AtOnce(One(e, Some(k)), single) = One(e, Some(k + 1))
    <3>1. CASE e \in First(k)
      <4>1. PICK i \in 1 .. k : e = macros[i]
        BY <3>1
      <4>2. m \notin ToSet(value[e]) /\ e \in ToSet(macros)
        <5>1. i \in 1 .. n /\ k + 1 \in 1 .. n /\ i < k + 1
          BY <2>1
        <5> QED  BY <1>2, <4>1, <5>1 DEF Ordered, n, m
      <4>3. IsList(value[e])
        BY <4>2, ElementsOf
      <4>4. value[e] \in Seq(ToSet(value[e])) /\ ToSet(value[e]) \cap DOMAIN single = {}
        BY <4>2, <4>3 DEF IsList
      <4>5. One(e, Some(k)) = value[e] /\ One(e, Some(k + 1)) = value[e]
        BY <2>6, <3>1 DEF One
      <4> HIDE DEF single, Some
      <4>6. AtOnce(value[e], single) = value[e]
        BY <4>4, AtOnceNothing
      <4> QED  BY <4>5, <4>6
    <3>2. CASE e \notin First(k)
      <4>1. One(e, Some(k)) = <<e>>
        BY <3>2 DEF One
      <4>2. One(e, single) = One(e, Some(k + 1))
        BY <2>6, <3>2 DEF One
      <4> HIDE DEF single, Some
      <4>3. One(e, single) \in Seq(U)
        BY <2>5, OneFits
      <4>4. One(e, single) \in Seq(ToSet(One(e, single)))
        <5>1. PICK x \in Seq(U) : x = One(e, single)
          BY <4>3
        <5>2. IsList(x)
          BY ElementsOf
        <5> QED  BY <5>1, <5>2 DEF IsList
      <4>5. AtOnce(<<e>>, single) = One(e, single)
        BY <4>4, AtOnceSingle
      <4> QED  BY <4>1, <4>2, <4>5
    <3> QED  BY <3>1, <3>2
  <2>8. Follows(Some(k + 1), Some(k), single, U)
    BY <2>7 DEF Follows
  <2> HIDE DEF single, Some
  <2>9. AtOnce(AtOnce(text, Some(k)), single) = AtOnce(text, Some(k + 1))
    BY <2>5, <2>8, AtOnceTwice
  <2> QED  BY <2>4, <2>9
<1>5. ASSUME NEW k \in S PROVE k + 1 \in S
  <2>1. k + 1 <= n => left[k + 1] = AtOnce(text, Some(k + 1))
    BY <1>4
  <2> HIDE DEF Some
  <2> QED  BY <2>1
<1>6. S = Nat
  <2>1. S \subseteq Nat
    OBVIOUS
  <2> HIDE DEF S
  <2> QED  BY <1>3, <1>5, <2>1, NumbersInduct
<1>7. left[n] = AtOnce(text, Some(n))
  <2> HIDE DEF n, Some
  <2> QED  BY <1>2, <1>6
<1>8. First(n) = ToSet(macros)
  BY ListFacts DEF ToSet
<1> QED  BY <1>0, <1>7, <1>8

-----------------------------------------------------------------------------
(* Cuts and digests.                                                       *)
IsCut(cut) == cut = << >> \/ cut \in Nat \X Nat

(* A cut that the value is long enough for.                                *)
CutFits(cut, length) == cut # << >> => cut[1] <= cut[2] /\ cut[2] <= length

LEMMA NotDead ==
  ASSUME NEW t, IsText(t) PROVE t # <<Dead>>
<1>1. SUFFICES ASSUME t = <<Dead>> PROVE FALSE
  OBVIOUS
<1>2. Dead \in ToSet(t)
  BY <1>1, OnlyElement
<1> QED  BY <1>2 DEF IsText

LEMMA CutDead ==
  ASSUME NEW cut PROVE Cut(<<Dead>>, cut) = <<Dead>>
<1>1. PICK x : x = <<Dead>>
  OBVIOUS
<1>2. Cut(x, cut) = x
  BY <1>1 DEF Cut
<1> QED  BY <1>1, <1>2

LEMMA CutType ==
  ASSUME NEW U, Dead \in U, NEW t \in Seq(U), NEW cut, IsCut(cut)
  PROVE  Cut(t, cut) \in Seq(U)
<1>1. <<Dead>> \in Seq(U)
  OBVIOUS
<1>2. CASE cut = << >>
  BY <1>2 DEF Cut
<1>3. CASE cut # << >> /\ cut[1] <= cut[2] /\ cut[2] <= Len(t) /\ t # <<Dead>>
  <2>1. cut[1] \in Nat /\ cut[2] \in Nat /\ Len(t) \in Nat
    BY <1>3, LenProperties DEF IsCut
  <2>2. \A i \in cut[1] + 1 .. cut[2] : t[i] \in U
    <3>1. ASSUME NEW i \in cut[1] + 1 .. cut[2] PROVE t[i] \in U
      <4>1. i \in 1 .. Len(t)
        BY <1>3, <2>1
      <4> QED  BY <4>1, ElementOfSeq
    <3> QED  BY <3>1
  <2>3. SubSeq(t, cut[1] + 1, cut[2]) \in Seq(U)
    BY <2>1, <2>2, SubSeqProperties
  <2>4. Cut(t, cut) = SubSeq(t, cut[1] + 1, cut[2])
    BY <1>3 DEF Cut
  <2> QED  BY <2>3, <2>4
<1>4. CASE cut # << >> /\ ~(cut[1] <= cut[2] /\ cut[2] <= Len(t) /\ t # <<Dead>>)
  <2>1. Cut(t, cut) = <<Dead>>
    BY <1>4 DEF Cut
  <2> QED  BY <1>1, <2>1
<1> QED  BY <1>2, <1>3, <1>4

LEMMA CutText ==
  ASSUME NEW t, IsText(t), NEW cut, IsCut(cut), CutFits(cut, Len(t))
  PROVE  IsText(Cut(t, cut))
<1>1. t # <<Dead>>
  BY NotDead
<1>2. CASE cut = << >>
  BY <1>2 DEF Cut
<1>3. CASE cut # << >>
  <2>1. t \in Seq(ToSet(t)) /\ Dead \notin ToSet(t) /\ Len(t) \in Nat
    BY LenProperties DEF IsText, IsList
  <2>2. cut[1] \in Nat /\ cut[2] \in Nat /\ cut[1] <= cut[2] /\ cut[2] <= Len(t)
    BY <1>3 DEF IsCut, CutFits
  <2>3. \A i \in cut[1] + 1 .. cut[2] : t[i] \in ToSet(t)
    <3>1. ASSUME NEW i \in cut[1] + 1 .. cut[2] PROVE t[i] \in ToSet(t)
      <4>1. i \in 1 .. Len(t)
        BY <2>1, <2>2
      <4> QED  BY <2>1, <4>1, ElementOfSeq
    <3> QED  BY <3>1
  <2>4. PICK s \in Seq(ToSet(t)) : s = SubSeq(t, cut[1] + 1, cut[2])
    <3>1. SubSeq(t, cut[1] + 1, cut[2]) \in Seq(ToSet(t))
      BY <2>1, <2>2, <2>3, SubSeqProperties
    <3> QED  BY <3>1
  <2>5. Cut(t, cut) = s
    BY <1>1, <1>3, <2>2, <2>4 DEF Cut
  <2>6. IsText(s)
    <3>1. IsList(s) /\ ToSet(s) \subseteq ToSet(t)
      BY ElementsOf
    <3> QED  BY <2>1, <3>1 DEF IsText
  <2> QED  BY <2>5, <2>6
<1> QED  BY <1>2, <1>3

LEMMA EncodeDead ==
  ASSUME NEW d PROVE Encode(d, <<Dead>>) = <<Dead>>
<1>1. PICK x : x = <<Dead>>
  OBVIOUS
<1>2. Encode(d, x) = x
  BY <1>1 DEF Encode
<1> QED  BY <1>1, <1>2

(* The characters of a digest.                                             *)
DigestChars(d, t) == {[kind |-> k, of |-> t, at |-> i] : k \in {"error", d}, i \in 1 .. DigestLen}

LEMMA DigitsAreOpaque ==
  ASSUME NEW d \in Digest, NEW t, NEW e \in DigestChars(d, t)
  PROVE  e # Dead /\ \A k, i, c : e # Macro(k, i, c)
<1>1. "of" \in DOMAIN e
  BY DEF DigestChars
<1>2. "of" \notin DOMAIN Dead
  BY DEF Dead
<1>3. ASSUME NEW k, NEW i, NEW c PROVE "of" \notin DOMAIN Macro(k, i, c)
  BY DEF Macro
<1> QED  BY <1>1, <1>2, <1>3

LEMMA EncodeFacts ==
  ASSUME NEW d \in Digest, NEW t, t # <<Dead>>
  PROVE  Encode(d, t) \in Seq(DigestChars(d, t)) /\ Len(Encode(d, t)) = DigestLen
<1> DEFINE kind == IF d = "pks" /\ ~PksReads(t) THEN "error" ELSE d
           s == [i \in 1 .. DigestLen |-> [kind |-> kind, of |-> t, at |-> i]]
<1>1. Encode(d, t) = s
  BY DEF Encode
<1>2. DigestLen \in Nat
  BY TextsAssumption
<1>3. kind \in {"error", d}
  OBVIOUS
<1> HIDE DEF kind
<1>4. s \in [1 .. DigestLen -> DigestChars(d, t)]
  BY <1>3 DEF DigestChars
<1> HIDE DEF s
<1>5. s \in Seq(DigestChars(d, t)) /\ DOMAIN s = 1 .. DigestLen
  BY <1>2, <1>4, IsASeq
<1>6. Len(s) = DigestLen
  BY <1>2, <1>5, LenProperties
<1> QED  BY <1>1, <1>5, <1>6

LEMMA EncodeText ==
  ASSUME NEW d \in Digest, NEW t, t # <<Dead>>
  PROVE  IsText(Encode(d, t))
<1>1. PICK s \in Seq(DigestChars(d, t)) : s = Encode(d, t)
  BY EncodeFacts
<1>2. IsList(s) /\ ToSet(s) \subseteq DigestChars(d, t)
  BY ElementsOf
<1>3. Dead \notin DigestChars(d, t)
  BY DigitsAreOpaque
<1> QED  BY <1>1, <1>2, <1>3 DEF IsText
=============================================================================
