-------------------------- MODULE SequenceLemmas ----------------------------
(***************************************************************************)
(* Facts about numbers and sequences that the proofs about recursive       *)
(* functions need.  The induction theorems of the library take an operator;*)
(* here is an induction over a set instead, and with it what FlattenSeq    *)
(* makes of a sequence of sequences.                                       *)
(***************************************************************************)
EXTENDS SequencesExt, WellFoundedInduction, TLAPS

\* Of natural numbers there is a smallest one.
LEMMA Smallest ==
  ASSUME NEW U, U \subseteq Nat, U # {}
  PROVE \E x \in U : \A y \in U : x <= y
<1>1. PICK R : IsWellFoundedOn(R, Nat) /\ \A x, y \in Nat : <<y, x>> \in R <=> y < x
  <2>2. \A x, y \in Nat : <<y, x>> \in OpToRel(<, Nat) <=> y < x
    BY DEF OpToRel
  <2> QED
    BY <2>2, NatLessThanWellFounded
<1>2. PICK x \in U : \A y \in U : ~(<<y, x>> \in R)
  BY <1>1, WFMin
<1>3. ASSUME NEW y \in U PROVE x <= y
  <2>1. x \in Nat /\ y \in Nat
    OBVIOUS
  <2>2. ~(y < x)
    <3>1. <<y, x>> \in R <=> y < x
      BY <1>1, <2>1
    <3>2. ~(<<y, x>> \in R)
      BY <1>2
    <3> QED
      BY <3>1, <3>2
  <2> QED
    BY <2>1, <2>2
<1> QED
  BY <1>3

\* A set with zero, and with every number the next one, has them all.  With it the
\* recursive functions of the models are defined, and counted, whatever their length.
LEMMA Induction ==
  ASSUME NEW S, 0 \in S, \A n \in Nat : n \in S => n + 1 \in S
  PROVE  Nat \subseteq S
<1> SUFFICES ASSUME Nat \ S # {} PROVE FALSE
  OBVIOUS
<1>1. PICK x \in Nat \ S : \A y \in Nat \ S : x <= y
  <2> DEFINE U == Nat \ S
  <2>1. U \subseteq Nat /\ U # {}
    OBVIOUS
  <2> HIDE DEF U
  <2>2. \E x \in U : \A y \in U : x <= y
    BY <2>1, Smallest
  <2> QED
    BY <2>2 DEF U
<1>2. x # 0
  OBVIOUS
<1>3. x - 1 \in Nat /\ x - 1 < x
  BY <1>2
<1>4. x - 1 \in S
  BY <1>1, <1>3
<1> QED
  BY <1>3, <1>4

-----------------------------------------------------------------------------
(* Sequences.                                                              *)

\* Sequences, one behind the other.
LEMMA Concatenated ==
  ASSUME NEW S, NEW s \in Seq(S), NEW t \in Seq(S)
  PROVE  /\ s \o t \in Seq(S)
         /\ Len(s \o t) = Len(s) + Len(t)
         /\ \A k \in 1..Len(s) : (s \o t)[k] = s[k]
         /\ \A k \in 1..Len(t) : (s \o t)[Len(s) + k] = t[k]
OBVIOUS

\* A slice begins where it is said to begin.
LEMMA SliceOf ==
  ASSUME NEW s, NEW a \in Nat, NEW n \in Nat
  PROVE  SubSeq(s, a + 1, a + n) = [k \in 1..n |-> s[a + k]]
OBVIOUS

\* Joined sequences make one as long as both together.
LEMMA JoinedLength ==
  ASSUME NEW S, NEW s \in Seq(S), NEW t \in Seq(S)
  PROVE  s \o t \in Seq(S) /\ Len(s \o t) = Len(s) + Len(t)
OBVIOUS

\* The first of two joined sequences is found where it was put.
LEMMA JoinedLeft ==
  ASSUME NEW S, NEW s \in Seq(S), NEW t \in Seq(S)
  PROVE  SubSeq(s \o t, 1, Len(s)) = s
<1> DEFINE b == s \o t
           m == Len(s)
<1>1. m \in Nat /\ \A k \in 1..m : b[0 + k] = s[k]
  BY Concatenated
<1>2. s = [k \in 1..m |-> s[k]]
  OBVIOUS
<1> HIDE DEF b, m
<1>3. SubSeq(b, 0 + 1, 0 + m) = [k \in 1..m |-> b[0 + k]]
  BY <1>1, SliceOf
<1>4. SubSeq(b, 0 + 1, 0 + m) = s
  BY <1>1, <1>2, <1>3
<1> QED
  BY <1>1, <1>4 DEF b, m

\* So is the second.
LEMMA JoinedRight ==
  ASSUME NEW S, NEW s \in Seq(S), NEW t \in Seq(S)
  PROVE  SubSeq(s \o t, Len(s) + 1, Len(s) + Len(t)) = t
<1> DEFINE b == s \o t
           m == Len(s)
           n == Len(t)
<1>1. m \in Nat /\ n \in Nat /\ \A k \in 1..n : b[m + k] = t[k]
  BY Concatenated
<1>2. t = [k \in 1..n |-> t[k]]
  OBVIOUS
<1> HIDE DEF b, m, n
<1>3. SubSeq(b, m + 1, m + n) = [k \in 1..n |-> b[m + k]]
  BY <1>1, SliceOf
<1>4. SubSeq(b, m + 1, m + n) = t
  BY <1>1, <1>2, <1>3
<1> QED
  BY <1>4 DEF b, m, n

\* Sequences that begin alike have the same slices there.
LEMMA SameSlice ==
  ASSUME NEW S, NEW s \in Seq(S), NEW t, NEW a \in Nat, NEW n \in Nat, a <= n, n <= Len(s),
         \A k \in 1..Len(s) : t[k] = s[k]
  PROVE  SubSeq(t, a + 1, n) = SubSeq(s, a + 1, n)
<1>0. Len(s) \in Nat
  OBVIOUS
<1>1. PICK m \in Nat : a + m = n
  <2>1. n - a \in Nat /\ a + (n - a) = n
    OBVIOUS
  <2> QED
    BY <2>1
<1>2. \A k \in 1..m : t[a + k] = s[a + k]
  BY <1>0, <1>1
<1>3. [k \in 1..m |-> t[a + k]] = [k \in 1..m |-> s[a + k]]
  BY <1>2
<1>4. SubSeq(t, a + 1, a + m) = [k \in 1..m |-> t[a + k]]
  BY SliceOf
<1>5. SubSeq(s, a + 1, a + m) = [k \in 1..m |-> s[a + k]]
  BY SliceOf
<1> QED
  BY <1>1, <1>3, <1>4, <1>5

\* What is left of two joined sequences without the first n elements.
LEMMA JoinedRest ==
  ASSUME NEW S, NEW s \in Seq(S), NEW t \in Seq(S), NEW n \in Nat, n <= Len(s)
  PROVE  /\ SubSeq(s \o t, n + 1, Len(s \o t)) = SubSeq(s, n + 1, Len(s)) \o t
         /\ SubSeq(s, n + 1, Len(s)) \in Seq(S)
         /\ Len(SubSeq(s, n + 1, Len(s))) = Len(s) - n
<1>1. PICK m \in Nat : Len(s) = n + m
  <2>1. Len(s) - n \in Nat /\ n + (Len(s) - n) = Len(s)
    OBVIOUS
  <2> QED
    BY <2>1
<1>2. PICK l \in Nat : l = Len(t)
  OBVIOUS
<1>3. PICK c : c = s \o t
  OBVIOUS
<1>4. /\ Len(c) = n + (m + l)
      /\ \A k \in 1..n + m : c[k] = s[k]
      /\ \A k \in 1..l : c[n + m + k] = t[k]
  <2>1. /\ Len(c) = Len(s) + Len(t)
        /\ \A k \in 1..Len(s) : c[k] = s[k]
        /\ \A k \in 1..Len(t) : c[Len(s) + k] = t[k]
    BY <1>3, Concatenated
  <2> QED
    BY <1>1, <1>2, <2>1
<1>5. PICK r : r = [k \in 1..m |-> s[n + k]]
  OBVIOUS
<1>6. r = SubSeq(s, n + 1, n + m)
  BY <1>5, SliceOf
<1>7. r \in Seq(S) /\ Len(r) = m
  <2>1. \A k \in 1..m : s[n + k] \in S
    <3>1. \A k \in 1..m : n + k \in 1..Len(s)
      BY <1>1
    <3> QED
      BY <3>1
  <2>2. r \in [1..m -> S]
    BY <1>5, <2>1
  <2> QED
    BY <2>2
<1>8. SubSeq(c, n + 1, n + (m + l)) = [k \in 1..m + l |-> c[n + k]]
  BY SliceOf
<1>9. r \o t = [k \in 1..m + l |-> c[n + k]]
  <2>1. /\ r \o t \in Seq(S) /\ Len(r \o t) = m + l
        /\ \A k \in 1..m : (r \o t)[k] = r[k]
        /\ \A k \in 1..l : (r \o t)[m + k] = t[k]
    <3>1. /\ r \o t \in Seq(S) /\ Len(r \o t) = Len(r) + Len(t)
          /\ \A k \in 1..Len(r) : (r \o t)[k] = r[k]
          /\ \A k \in 1..Len(t) : (r \o t)[Len(r) + k] = t[k]
      <4>1. r \in Seq(S)
        BY <1>7
      <4> QED
        BY <4>1, Concatenated
    <3> QED
      BY <1>2, <1>7, <3>1
  <2>2. PICK q : q = r \o t
    OBVIOUS
  <2>3. q = [k \in 1..m + l |-> q[k]]
    <3>1. q \in Seq(S) /\ Len(q) = m + l
      BY <2>1, <2>2
    <3>2. q = [k \in 1..Len(q) |-> q[k]]
      BY <3>1
    <3> QED
      BY <3>1, <3>2
  <2>4. ASSUME NEW k \in 1..m + l
        PROVE  q[k] = c[n + k]
    <3>1. CASE k <= m
      <4>1. k \in 1..m /\ n + k \in 1..n + m
        BY <3>1
      <4> QED
        BY <1>4, <1>5, <2>1, <2>2, <4>1
    <3>2. CASE k > m
      <4>1. PICK j \in 1..l : k = m + j
        <5>1. k - m \in 1..l /\ k = m + (k - m)
          BY <3>2
        <5> QED
          BY <5>1
      <4>2. n + k = n + m + j
        BY <4>1
      <4> QED
        BY <1>4, <2>1, <2>2, <4>1, <4>2
    <3> QED
      BY <3>1, <3>2
  <2> QED
    BY <2>2, <2>3, <2>4
<1>10. SubSeq(c, n + 1, Len(c)) = r \o t
  BY <1>4, <1>8, <1>9
<1>11. SubSeq(s, n + 1, Len(s)) = r
  BY <1>1, <1>6
<1>12. m = Len(s) - n
  BY <1>1
<1> QED
  BY <1>3, <1>7, <1>10, <1>11, <1>12

\* A slice with the element behind it is the next longer slice.
LEMMA Lengthened ==
  ASSUME NEW S, NEW s \in Seq(S), NEW a \in Nat, NEW n \in Nat, a <= n, n + 1 <= Len(s)
  PROVE  /\ Append(SubSeq(s, a + 1, n), s[n + 1]) = SubSeq(s, a + 1, n + 1)
         /\ Len(SubSeq(s, a + 1, n + 1)) = (n + 1) - a
<1>1. PICK m \in Nat : n = a + m
  <2>1. n - a \in Nat /\ n = a + (n - a)
    OBVIOUS
  <2> QED
    BY <2>1
<1>2. PICK l \in Nat : l = Len(s) /\ a + m + 1 <= l
  BY <1>1
<1>3. \A k \in 1..m + 1 : s[a + k] \in S
  <2>1. \A k \in 1..m + 1 : a + k \in 1..l
    BY <1>2
  <2> QED
    BY <1>2, <2>1
<1>4. PICK r : r = [k \in 1..m |-> s[a + k]]
  OBVIOUS
<1>5. PICK q : q = [k \in 1..m + 1 |-> s[a + k]]
  OBVIOUS
<1>6. r \in Seq(S) /\ Len(r) = m
  <2>1. \A k \in 1..m : k \in 1..m + 1
    OBVIOUS
  <2>2. r \in [1..m -> S]
    BY <1>3, <1>4, <2>1
  <2> QED
    BY <2>2
<1>7. q \in Seq(S) /\ Len(q) = m + 1
  <2>1. q \in [1..m + 1 -> S]
    BY <1>3, <1>5
  <2> QED
    BY <2>1
<1>8. Append(r, s[a + (m + 1)]) = q
  <2>1. s[a + (m + 1)] \in S
    BY <1>3
  <2> QED
    BY <1>4, <1>5, <1>6, <1>7, <2>1
<1>9. r = SubSeq(s, a + 1, a + m)
  BY <1>4, SliceOf
<1>10. q = SubSeq(s, a + 1, a + (m + 1))
  BY <1>5, SliceOf
<1>11. a + (m + 1) = n + 1 /\ m + 1 = (n + 1) - a
  BY <1>1
<1> QED
  BY <1>1, <1>7, <1>8, <1>9, <1>10, <1>11

\* A sequence cut in two and joined again.
LEMMA CutAndJoined ==
  ASSUME NEW S, NEW s \in Seq(S), NEW n \in 0..Len(s)
  PROVE  /\ SubSeq(s, 1, n) \in Seq(S) /\ SubSeq(s, n + 1, Len(s)) \in Seq(S)
         /\ SubSeq(s, 1, n) \o SubSeq(s, n + 1, Len(s)) = SubSeq(s, 1, Len(s))
<1>1. PICK m \in Nat : Len(s) = n + m
  <2>1. Len(s) - n \in Nat /\ Len(s) = n + (Len(s) - n)
    OBVIOUS
  <2> QED
    BY <2>1
<1>2. \A k \in 1..n + m : s[k] \in S
  BY <1>1
<1>3. PICK t : t = [k \in 1..n |-> s[k]]
  OBVIOUS
<1>4. PICK r : r = [k \in 1..m |-> s[n + k]]
  OBVIOUS
<1>5. PICK q : q = [k \in 1..n + m |-> s[k]]
  OBVIOUS
<1>6. t \in Seq(S) /\ Len(t) = n
  <2>1. t \in [1..n -> S]
    BY <1>2, <1>3
  <2> QED
    BY <1>3, <2>1
<1>7. r \in Seq(S) /\ Len(r) = m
  <2>1. \A k \in 1..m : n + k \in 1..n + m
    OBVIOUS
  <2>2. r \in [1..m -> S]
    BY <1>2, <1>4, <2>1
  <2> QED
    BY <2>2
<1>8. t \o r = q
  <2>1. /\ Len(t \o r) = n + m /\ t \o r \in Seq(S)
        /\ \A k \in 1..n : (t \o r)[k] = t[k]
        /\ \A k \in 1..m : (t \o r)[n + k] = r[k]
    <3>1. /\ Len(t \o r) = Len(t) + Len(r) /\ t \o r \in Seq(S)
          /\ \A k \in 1..Len(t) : (t \o r)[k] = t[k]
          /\ \A k \in 1..Len(r) : (t \o r)[Len(t) + k] = r[k]
      <4>1. t \in Seq(S) /\ r \in Seq(S)
        BY <1>6, <1>7
      <4> QED
        BY <4>1, Concatenated
    <3> QED
      BY <1>6, <1>7, <3>1
  <2>2. PICK c : c = t \o r
    OBVIOUS
  <2>3. c = [k \in 1..n + m |-> c[k]]
    <3>1. c \in Seq(S) /\ Len(c) = n + m
      BY <2>1, <2>2
    <3>2. c = [k \in 1..Len(c) |-> c[k]]
      BY <3>1
    <3> QED
      BY <3>1, <3>2
  <2>4. ASSUME NEW k \in 1..n + m
        PROVE  c[k] = s[k]
    <3>1. CASE k <= n
      <4>1. k \in 1..n
        BY <3>1
      <4> QED
        BY <1>3, <2>1, <2>2, <4>1
    <3>2. CASE k > n
      <4>1. PICK j \in 1..m : k = n + j
        <5>1. k - n \in 1..m /\ k = n + (k - n)
          BY <3>2
        <5> QED
          BY <5>1
      <4> QED
        BY <1>4, <2>1, <2>2, <4>1
    <3> QED
      BY <3>1, <3>2
  <2> QED
    BY <1>5, <2>2, <2>3, <2>4
<1>9. SubSeq(s, 0 + 1, 0 + n) = [k \in 1..n |-> s[0 + k]]
  BY SliceOf
<1>10. SubSeq(s, 0 + 1, 0 + (n + m)) = [k \in 1..n + m |-> s[0 + k]]
  BY SliceOf
<1>11. SubSeq(s, 1, n) = t
  BY <1>3, <1>9
<1>12. SubSeq(s, 1, n + m) = q
  BY <1>5, <1>10
<1>13. r = SubSeq(s, n + 1, n + m)
  BY <1>4, SliceOf
<1> QED
  BY <1>1, <1>6, <1>7, <1>8, <1>11, <1>12, <1>13

\* A sequence over its own elements stays one when it grows, and keeps them.
LEMMA OwnElements ==
  ASSUME NEW s, s \in Seq(Range(s)), NEW e
  PROVE  /\ Append(s, e) \in Seq(Range(Append(s, e)))
         /\ Range(Append(s, e)) = Range(s) \cup {e}
         /\ Len(Append(s, e)) = Len(s) + 1
         /\ \A k \in 1..Len(s) : Append(s, e)[k] = s[k]
<1>1. PICK U : U = Range(s) \cup {e}
  OBVIOUS
<1>2. PICK t : t = Append(s, e)
  OBVIOUS
<1>3. s \in Seq(U) /\ e \in U
  BY <1>1
<1>4. /\ t \in Seq(U) /\ Len(t) = Len(s) + 1 /\ Len(s) \in Nat
      /\ \A k \in 1..Len(s) : t[k] = s[k]
      /\ t[Len(s) + 1] = e
  BY <1>2, <1>3
<1>5. DOMAIN t = 1..Len(s) + 1 /\ DOMAIN s = 1..Len(s)
  BY <1>3, <1>4
<1>6. Range(t) = U
  <2>1. ASSUME NEW x \in U
        PROVE  x \in Range(t)
    <3>1. CASE x = e
      <4>1. Len(s) + 1 \in DOMAIN t
        BY <1>4, <1>5
      <4> QED
        BY <1>4, <3>1, <4>1 DEF Range
    <3>2. CASE x \in Range(s)
      <4>1. PICK k \in 1..Len(s) : s[k] = x
        BY <1>5, <3>2 DEF Range
      <4>2. k \in DOMAIN t /\ t[k] = x
        BY <1>4, <1>5, <4>1
      <4> QED
        BY <4>2 DEF Range
    <3> QED
      BY <1>1, <3>1, <3>2
  <2>2. ASSUME NEW x \in Range(t)
        PROVE  x \in U
    <3>1. PICK k \in 1..Len(s) + 1 : t[k] = x
      BY <1>5 DEF Range
    <3> QED
      BY <1>4, <3>1
  <2> QED
    BY <2>1, <2>2
<1> QED
  BY <1>1, <1>2, <1>4, <1>6

\* What FlattenSeq's recursive function is.
LEMMA FlattenDefined ==
  ASSUME NEW S, NEW seqs \in Seq(Seq(S)), Len(seqs) > 0
  PROVE  \E g \in [1..Len(seqs) -> Seq(S)] :
           /\ FlattenSeq(seqs) = g[Len(seqs)]
           /\ g[1] = seqs[1]
           /\ \A i \in 2..Len(seqs) : g[i] = g[i - 1] \o seqs[i]
<1> DEFINE n == Len(seqs)
           Longer(g, i) == IF i = 1 THEN seqs[i] ELSE g[i - 1] \o seqs[i]
           Upto(g, m) == g \in [1..m -> Seq(S)] /\ \A i \in 1..m : g[i] = Longer(g, i)
           Has(m) == m <= n => \E g : Upto(g, m)
           All == { m \in Nat : Has(m) }
           Is(g) == g = [i \in 1..n |-> Longer(g, i)]
           flatten == CHOOSE g : Is(g)
<1>0. n \in Nat /\ n > 0 /\ \A i \in 1..n : seqs[i] \in Seq(S)
  OBVIOUS
<1> HIDE DEF n
<1>1. Has(0)
  <2> DEFINE g == [i \in 1..0 |-> << >>]
  <2>1. Upto(g, 0)
    OBVIOUS
  <2> QED
    BY <2>1
<1>2. ASSUME NEW m \in Nat, Has(m) PROVE Has(m + 1)
  <2> SUFFICES ASSUME m + 1 <= n PROVE \E g : Upto(g, m + 1)
    OBVIOUS
  <2>0. m <= n
    BY <1>0
  <2>1. PICK g : Upto(g, m)
    BY <1>2, <2>0
  <2> DEFINE next == IF m = 0 THEN seqs[1] ELSE g[m] \o seqs[m + 1]
             h == [i \in 1..m + 1 |-> IF i <= m THEN g[i] ELSE next]
  <2>2. next \in Seq(S)
    <3>1. CASE m = 0
      BY <1>0, <3>1
    <3>2. CASE m > 0
      <4>1. g[m] \in Seq(S) /\ seqs[m + 1] \in Seq(S)
        BY <1>0, <2>1, <3>2
      <4> QED
        BY <3>2, <4>1, JoinedLength
    <3> QED
      BY <3>1, <3>2
  <2>3. h \in [1..m + 1 -> Seq(S)]
    <3> HIDE DEF next
    <3> QED
      BY <2>1, <2>2
  <2>4. ASSUME NEW i \in 1..m + 1
        PROVE  h[i] = Longer(h, i)
    <3>1. CASE i <= m
      <4>1. g[i] = Longer(g, i)
        <5>1. i \in 1..m
          BY <3>1
        <5> HIDE DEF Longer
        <5> QED
          BY <2>1, <5>1
      <4>2. h[i] = g[i] /\ (i # 1 => h[i - 1] = g[i - 1])
        BY <3>1
      <4> HIDE DEF h
      <4> QED
        BY <4>1, <4>2
    <3>2. CASE i = m + 1
      <4>1. h[i] = next /\ (i # 1 => h[i - 1] = g[m])
        BY <3>2
      <4> HIDE DEF h
      <4> QED
        BY <3>2, <4>1
    <3> QED
      BY <3>1, <3>2
  <2>5. Upto(h, m + 1)
    <3> HIDE DEF h, Longer
    <3> QED
      BY <2>3, <2>4
  <2> HIDE DEF h, Upto
  <2> QED
    BY <2>5
<1>3. Has(n)
  <2> HIDE DEF Has
  <2>1. Nat \subseteq All
    <3>1. 0 \in All
      BY <1>1
    <3>2. \A m \in Nat : m \in All => m + 1 \in All
      BY <1>2
    <3> HIDE DEF All
    <3> QED
      BY <3>1, <3>2, Induction
  <2> QED
    BY <1>0, <2>1
<1>4. PICK g : Upto(g, n)
  <2> HIDE DEF Upto
  <2> QED
    BY <1>0, <1>3
<1>5. Is(g)
  <2> HIDE DEF Longer
  <2> QED
    BY <1>4
<1>6. Is(flatten)
  <2> HIDE DEF Is
  <2> QED
    BY <1>5
<1>7. FlattenSeq(seqs) = flatten[n]
  BY DEF FlattenSeq, n
<1> HIDE DEF flatten
<1>8. flatten = [i \in 1..n |-> flatten[i]] /\ \A i \in 1..n : flatten[i] = Longer(flatten, i)
  <2> HIDE DEF Longer
  <2> QED
    BY <1>6
<1>9. flatten[1] = seqs[1] /\ \A i \in 2..n : flatten[i] = flatten[i - 1] \o seqs[i]
  <2>1. 1 \in 1..n /\ \A i \in 2..n : i \in 1..n
    BY <1>0
  <2>2. flatten[1] = Longer(flatten, 1) /\ \A i \in 2..n : flatten[i] = Longer(flatten, i)
    <3> HIDE DEF Longer
    <3> QED
      BY <1>8, <2>1
  <2>3. \A i \in 2..n : i # 1
    OBVIOUS
  <2> QED
    BY <2>2, <2>3
<1>10. \A i \in 1..n : flatten[i] \in Seq(S)
  <2> DEFINE Good == { i \in Nat : i \in 1..n => flatten[i] \in Seq(S) }
  <2>1. 0 \in Good
    OBVIOUS
  <2>2. ASSUME NEW i \in Nat, i \in Good PROVE i + 1 \in Good
    <3> SUFFICES ASSUME i + 1 \in 1..n PROVE flatten[i + 1] \in Seq(S)
      OBVIOUS
    <3>1. CASE i = 0
      BY <1>0, <1>9, <3>1
    <3>2. CASE i # 0
      <4>1. flatten[i] \in Seq(S) /\ seqs[i + 1] \in Seq(S)
        BY <1>0, <2>2, <3>2
      <4>2. flatten[i + 1] = flatten[i] \o seqs[i + 1]
        <5>1. i + 1 \in 2..n /\ (i + 1) - 1 = i
          BY <1>0, <3>2
        <5> QED
          BY <1>9, <5>1
      <4> QED
        BY <4>1, <4>2, Concatenated
    <3> QED
      BY <3>1, <3>2
  <2>3. Nat \subseteq Good
    <3> HIDE DEF Good
    <3> QED
      BY <2>1, <2>2, Induction
  <2> QED
    BY <1>0, <2>3
<1>11. flatten \in [1..n -> Seq(S)]
  BY <1>8, <1>10
<1> QED
  BY <1>7, <1>9, <1>11 DEF n

\* Each of the sequences is found in the flat one, behind those before it.
LEMMA Flattened ==
  ASSUME NEW S, NEW seqs \in Seq(Seq(S)), NEW at, at[1] = 0,
         \A i \in 1..Len(seqs) : at[i + 1] = at[i] + Len(seqs[i])
  PROVE  /\ FlattenSeq(seqs) \in Seq(S)
         /\ Len(FlattenSeq(seqs)) = at[Len(seqs) + 1]
         /\ \A i \in 1..Len(seqs) :
              /\ at[i] \in Nat /\ at[i + 1] \in Nat /\ at[i + 1] <= Len(FlattenSeq(seqs))
              /\ \A k \in 1..Len(seqs[i]) : FlattenSeq(seqs)[at[i] + k] = seqs[i][k]
<1> DEFINE n == Len(seqs)
<1>1. n \in Nat /\ \A i \in 1..n : seqs[i] \in Seq(S)
  OBVIOUS
<1>2. CASE n = 0
  <2>1. FlattenSeq(seqs) = << >> /\ seqs = << >>
    BY <1>2 DEF FlattenSeq
  <2> QED
    BY <1>2, <2>1
<1>3. CASE n > 0
  <2>1. PICK g \in [1..n -> Seq(S)] :
           /\ FlattenSeq(seqs) = g[n]
           /\ g[1] = seqs[1]
           /\ \A i \in 2..n : g[i] = g[i - 1] \o seqs[i]
    BY <1>3, FlattenDefined
  <2> DEFINE Holds(m) ==
        /\ Len(g[m]) = at[m + 1]
        /\ \A i \in 1..m :
              /\ at[i] \in Nat /\ at[i + 1] \in Nat /\ at[i + 1] <= Len(g[m])
              /\ \A k \in 1..Len(seqs[i]) : g[m][at[i] + k] = seqs[i][k]
        Good == { m \in Nat : m \in 1..n => Holds(m) }
  <2>2. Holds(1)
    <3>1. at[2] = Len(seqs[1])
      BY <1>1, <1>3
    <3>2. seqs[1] \in Seq(S) /\ Len(seqs[1]) \in Nat
      BY <1>1, <1>3
    <3> QED
      BY <2>1, <3>1, <3>2
  <2>3. ASSUME NEW m \in Nat, m + 1 \in 2..n, Holds(m) PROVE Holds(m + 1)
    <3> DEFINE s == g[m]
               t == seqs[m + 1]
    <3>1. s \in Seq(S) /\ t \in Seq(S) /\ g[m + 1] = s \o t
      <4>1. m + 1 \in 1..n /\ m \in 1..n /\ (m + 1) - 1 = m
        BY <2>3
      <4> QED
        BY <1>1, <2>1, <2>3, <4>1
    <3>2. at[m + 2] = at[m + 1] + Len(t) /\ at[m + 1] = Len(s)
      <4>1. m + 1 \in 1..n /\ m + 1 + 1 = m + 2
        BY <2>3
      <4> QED
        BY <2>3, <4>1
    <3>3. Len(g[m + 1]) = at[m + 2]
      BY <3>1, <3>2, Concatenated
    <3>4. Len(s) \in Nat /\ Len(t) \in Nat
      BY <3>1
    <3>5. ASSUME NEW i \in 1..m + 1
          PROVE  /\ at[i] \in Nat /\ at[i + 1] \in Nat /\ at[i + 1] <= Len(g[m + 1])
                 /\ \A k \in 1..Len(seqs[i]) : g[m + 1][at[i] + k] = seqs[i][k]
      <4>1. CASE i = m + 1
        <5>1. at[i] = Len(s) /\ at[i + 1] = Len(g[m + 1]) /\ seqs[i] = t
          <6>1. m + 1 + 1 = m + 2
            OBVIOUS
          <6> QED
            BY <3>2, <3>3, <4>1, <6>1
        <5> HIDE DEF s, t
        <5> QED
          BY <3>1, <3>4, <5>1, Concatenated
      <4>2. CASE i \in 1..m
        <5>1. /\ at[i] \in Nat /\ at[i + 1] \in Nat /\ at[i + 1] <= Len(s)
              /\ \A k \in 1..Len(seqs[i]) : s[at[i] + k] = seqs[i][k]
          BY <2>3, <4>2
        <5>2. at[i + 1] = at[i] + Len(seqs[i]) /\ Len(seqs[i]) \in Nat
          <6>1. i \in 1..n
            BY <2>3, <4>2
          <6> QED
            BY <1>1, <6>1
        <5>3. Len(g[m + 1]) = Len(s) + Len(t)
          BY <3>1, Concatenated
        <5> HIDE DEF s, t
        <5>4. ASSUME NEW k \in 1..Len(seqs[i])
              PROVE  g[m + 1][at[i] + k] = seqs[i][k]
          <6>1. at[i] + k \in 1..Len(s)
            BY <5>1, <5>2, <3>4
          <6>2. (s \o t)[at[i] + k] = s[at[i] + k]
            BY <3>1, <6>1, Concatenated
          <6> QED
            BY <3>1, <5>1, <6>2
        <5> QED
          BY <3>4, <5>1, <5>3, <5>4
      <4> QED
        BY <4>1, <4>2
    <3> QED
      <4>1. m + 1 + 1 = m + 2
        OBVIOUS
      <4> QED
        BY <3>3, <3>5, <4>1
  <2>4. Holds(n)
    <3> HIDE DEF Holds
    <3>1. 0 \in Good
      OBVIOUS
    <3>2. ASSUME NEW m \in Nat, m \in Good PROVE m + 1 \in Good
      <4>1. CASE m = 0
        BY <2>2, <4>1
      <4>2. CASE m > 0 /\ m + 1 \in 1..n
        <5>1. m \in 1..n /\ m + 1 \in 2..n
          BY <4>2
        <5> QED
          BY <2>3, <3>2, <5>1
      <4> QED
        BY <4>1, <4>2
    <3>3. Nat \subseteq Good
      <4> HIDE DEF Good
      <4> QED
        BY <3>1, <3>2, Induction
    <3> QED
      BY <1>1, <1>3, <3>3
  <2>5. g[n] \in Seq(S)
    BY <1>1, <1>3, <2>1
  <2> HIDE DEF n
  <2>6. /\ Len(g[n]) = at[n + 1]
        /\ \A i \in 1..n :
              /\ at[i] \in Nat /\ at[i + 1] \in Nat /\ at[i + 1] <= Len(g[n])
              /\ \A k \in 1..Len(seqs[i]) : g[n][at[i] + k] = seqs[i][k]
    BY <2>4
  <2>7. FlattenSeq(seqs) = g[n]
    BY <2>1
  <2> QED
    BY <2>5, <2>6, <2>7 DEF n
<1> QED
  BY <1>1, <1>2, <1>3

\* What is joined of sequences of S is one.
LEMMA FlattenOf ==
  ASSUME NEW S, NEW seqs \in Seq(Seq(S))
  PROVE  FlattenSeq(seqs) \in Seq(S)
<1>1. CASE Len(seqs) = 0
  <2>1. FlattenSeq(seqs) = << >>
    BY <1>1 DEF FlattenSeq
  <2> QED
    BY <2>1
<1>2. CASE Len(seqs) > 0
  <2>1. PICK g \in [1..Len(seqs) -> Seq(S)] : FlattenSeq(seqs) = g[Len(seqs)]
    BY <1>2, FlattenDefined
  <2>2. Len(seqs) \in 1..Len(seqs)
    BY <1>2
  <2> QED
    BY <2>1, <2>2
<1>3. Len(seqs) \in Nat
  OBVIOUS
<1> QED
  BY <1>1, <1>2, <1>3
=============================================================================
