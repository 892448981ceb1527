------------------------- MODULE EventStreamProofs --------------------------
(***************************************************************************)
(* The event stream and the screen that follows it, for every number of    *)
(* frames, alerts and calls, every window of the stream and every page     *)
(* size.                                                                   *)
(*                                                                         *)
(* The list: what it shows once stays so because what is put into it was   *)
(* once on its page, and is no longer in what is left (PInv).  The stream: *)
(* time stamps grow along the log, since one thread takes the stamp and    *)
(* commits, and the cursor is the time of a frame that was sent; so what a *)
(* tick passes over is as old as that frame, or stands behind a whole page *)
(* of younger ones (SInv).  The recovery: what it still owes stands, in    *)
(* the order of the query, behind the rows already taken, because frames   *)
(* committed meanwhile are put in front and only move it back; and between *)
(* the count and the rows of a page one frame of the interval can be       *)
(* committed at most, the one stamped before the recovery began (RInv).    *)
(***************************************************************************)
EXTENDS EventStream, FiniteSetTheorems, FunctionTheorems, SequenceLemmas

-----------------------------------------------------------------------------
(* The invariants.                                                         *)

\* No member twice.
Once(s) == \A k, n \in DOMAIN s : s[k] = s[n] => k = n

\* A frame that arrives has its place in the log: FrameArrives counts those that wait.
Room == Len(log) + Len(stamped) <= MaxFrames

\* Frames are logged in the order of their time stamps, and none comes from the future.
Chronological ==
  /\ \A i, j \in Logged : i < j => T(i) <= T(j)
  /\ \A i \in Logged : T(i) <= now
  /\ stamped # << >> => stamped[1].t <= now /\ \A i \in Logged : T(i) <= stamped[1].t

\* No page under way shows a frame twice.
PagesOnce == \A k \in DOMAIN loads : Once(loads[k].page)

\* The cursor of a connection is the time of a frame it has sent.
CursorSent == net = "up" => srv.last = 0 \/ \E j \in got : T(j) = srv.last

\* How many rows a query for S returns down to frame i.
RankIn(S, i) == Cardinality({j \in S : i <= j})

\* What a recovery owes: of the frames it began with, those it has not taken yet.  They stand
\* behind the rows it has asked for; when it has asked for all, there is none but the oldest,
\* if a frame slipped in.
Owed(r) == (r.before \cap Due(r)) \ r.items
AllToCome(r) ==
  \A i \in Owed(r) : IF r.whole THEN i \in Overlooked(r) ELSE RankIn(Due(r), i) > r.offset

\* Between the count and the rows of a page one frame of the interval is committed at most: the
\* one that had its time stamp when the recovery began.
OneSlips(r) ==
  r.asked =>
    /\ r.counted \subseteq Due(r)
    /\ Due(r) # r.counted =>
         /\ Cardinality(Due(r)) = Cardinality(r.counted) + 1
         /\ stamped # << >> => r.until <= stamped[1].t

GoesWell(r) == AllToCome(r) /\ OneSlips(r) /\ r.until <= now
StillToCome == \A k \in DOMAIN repairs : GoesWell(repairs[k])

\* Inductive for the list, for the stream, and for the recovery.
PInv == TypeOK /\ Room /\ ListHolds /\ PagesOnce
SInv == TypeOK /\ Room /\ Chronological /\ CursorSent /\ StreamSkipsOnlyBursts
RInv == PInv /\ StillToCome

-----------------------------------------------------------------------------
(* What Kept picks of a sequence.                                          *)

\* Kept picks members in their order, and leaves out none that belongs.
LEMMA KeptPicks ==
  ASSUME NEW X, NEW s \in Seq(X), NEW S
  PROVE  /\ Kept(s, S) \in Seq(X)
         /\ \E f \in [1..Len(Kept(s, S)) -> 1..Len(s)] :
              /\ \A k \in 1..Len(Kept(s, S)) : Kept(s, S)[k] = s[f[k]] /\ s[f[k]] \in S
              /\ \A k, n \in 1..Len(Kept(s, S)) : k < n => f[k] < f[n]
              /\ \A i \in 1..Len(s) : s[i] \in S => \E k \in 1..Len(Kept(s, S)) : f[k] = i
<1> DEFINE parts == [k \in DOMAIN s |-> IF s[k] \in S THEN << s[k] >> ELSE << >>]
           len == Len(s)
           Picked(t, m, f) ==
             /\ f \in [1..Len(t) -> 1..m]
             /\ \A k \in 1..Len(t) : t[k] = s[f[k]] /\ s[f[k]] \in S
             /\ \A k, n \in 1..Len(t) : k < n => f[k] < f[n]
             /\ \A i \in 1..m : s[i] \in S => \E k \in 1..Len(t) : f[k] = i
           Picks(t, m) == \E f : Picked(t, m, f)
<1>1. /\ parts \in Seq(Seq(X)) /\ Len(parts) = len /\ len \in Nat
      /\ \A i \in 1..len : s[i] \in X
      /\ \A i \in 1..len : parts[i] = IF s[i] \in S THEN << s[i] >> ELSE << >>
  <2>1. len \in Nat /\ DOMAIN s = 1..len /\ \A i \in 1..len : s[i] \in X
    OBVIOUS
  <2>2. \A x \in X : << x >> \in Seq(X)
    OBVIOUS
  <2>3. << >> \in Seq(X)
    OBVIOUS
  <2> HIDE DEF len
  <2>4. parts \in [1..len -> Seq(X)]
    BY <2>1, <2>2, <2>3
  <2>5. parts \in Seq(Seq(X)) /\ Len(parts) = len
    BY <2>1, <2>4
  <2> QED
    BY <2>1, <2>5
<1>2. Kept(s, S) = FlattenSeq(parts)
  BY DEF Kept
<1> SUFFICES FlattenSeq(parts) \in Seq(X) /\ Picks(FlattenSeq(parts), len)
  <2> HIDE DEF parts
  <2>1. ASSUME FlattenSeq(parts) \in Seq(X), NEW f, Picked(FlattenSeq(parts), len, f)
        PROVE  \E h \in [1..Len(FlattenSeq(parts)) -> 1..len] : Picked(FlattenSeq(parts), len, h)
    BY <2>1
  <2> QED
    BY <1>2, <2>1
<1> HIDE DEF len, parts
<1>3. CASE len = 0
  <2>1. parts = << >>
    BY <1>1, <1>3
  <2>2. FlattenSeq(parts) = << >>
    BY <2>1 DEF FlattenSeq
  <2>3. Picked(<< >>, len, [k \in 1..0 |-> 0])
    BY <1>3
  <2> HIDE DEF Picked
  <2> QED
    BY <2>2, <2>3
<1>4. CASE len > 0
  <2>1. PICK g \in [1..len -> Seq(X)] :
           /\ FlattenSeq(parts) = g[len]
           /\ g[1] = parts[1]
           /\ \A i \in 2..len : g[i] = g[i - 1] \o parts[i]
    <3>1. Len(parts) > 0
      BY <1>1, <1>4
    <3>2. \E g \in [1..Len(parts) -> Seq(X)] :
             /\ FlattenSeq(parts) = g[Len(parts)]
             /\ g[1] = parts[1]
             /\ \A i \in 2..Len(parts) : g[i] = g[i - 1] \o parts[i]
      BY <1>1, <3>1, FlattenDefined, ZenonT(40)
    <3> QED
      BY <1>1, <3>2
  <2> DEFINE Good == { m \in Nat : m \in 1..len => Picks(g[m], m) }
  <2>2. 0 \in Good
    OBVIOUS
  <2>3. ASSUME NEW m \in Nat, m \in Good, m + 1 \in 1..len
        PROVE  Picks(g[m + 1], m + 1)
    <3> DEFINE old == IF m = 0 THEN << >> ELSE g[m]
    <3>1. old \in Seq(X) /\ Picks(old, m)
      <4>1. CASE m = 0
        <5>1. Picked(<< >>, 0, [k \in 1..0 |-> 0])
          OBVIOUS
        <5> HIDE DEF Picked
        <5> QED
          BY <4>1, <5>1
      <4>2. CASE m # 0
        <5>1. m \in 1..len
          BY <1>1, <2>3, <4>2
        <5> HIDE DEF Picks
        <5> QED
          BY <2>1, <2>3, <4>2, <5>1
      <4> QED
        BY <4>1, <4>2
    <3>2. g[m + 1] = old \o parts[m + 1]
      <4>1. CASE m = 0
        <5>1. parts[1] \in Seq(X)
          BY <1>1, <2>3
        <5>2. parts[1] = << >> \o parts[1]
          BY <5>1
        <5> QED
          BY <2>1, <4>1, <5>2
      <4>2. CASE m # 0
        <5>1. m + 1 \in 2..len /\ (m + 1) - 1 = m
          BY <1>1, <2>3, <4>2
        <5> QED
          BY <2>1, <4>2, <5>1
      <4> QED
        BY <4>1, <4>2
    <3>3. PICK f : Picked(old, m, f)
      BY <3>1
    <3> HIDE DEF old
    <3>4. CASE s[m + 1] \notin S
      <4>1. parts[m + 1] = << >>
        BY <1>1, <2>3, <3>4
      <4>2. g[m + 1] = old
        BY <3>1, <3>2, <4>1
      <4>3. Picked(old, m + 1, f)
        <5>1. f \in [1..Len(old) -> 1..m + 1]
          BY <3>3
        <5>2. \A i \in 1..m + 1 : i # m + 1 => i \in 1..m
          OBVIOUS
        <5>3. ASSUME NEW i \in 1..m + 1, s[i] \in S PROVE \E k \in 1..Len(old) : f[k] = i
          <6>1. i # m + 1
            BY <3>4, <5>3
          <6> QED
            BY <3>3, <5>2, <5>3, <6>1
        <5> QED
          BY <3>3, <5>1, <5>3
      <4> HIDE DEF Picked
      <4> QED
        BY <4>2, <4>3
    <3>5. CASE s[m + 1] \in S
      <4> DEFINE new == Append(old, s[m + 1])
                 n == Len(old)
                 h == [k \in 1..n + 1 |-> IF k = n + 1 THEN m + 1 ELSE f[k]]
      <4>1. parts[m + 1] = << s[m + 1] >> /\ s[m + 1] \in X
        BY <1>1, <2>3, <3>5
      <4>2. g[m + 1] = new
        BY <3>1, <3>2, <4>1
      <4>3. /\ n \in Nat /\ Len(new) = n + 1 /\ new[n + 1] = s[m + 1]
            /\ \A k \in 1..n : new[k] = old[k]
        BY <3>1, <4>1
      <4> HIDE DEF n, new
      <4>4. /\ f \in [1..n -> 1..m]
            /\ \A k \in 1..n : old[k] = s[f[k]] /\ s[f[k]] \in S
            /\ \A k, j \in 1..n : k < j => f[k] < f[j]
            /\ \A i \in 1..m : s[i] \in S => \E k \in 1..n : f[k] = i
        BY <3>3 DEF n
      <4>5. h \in [1..n + 1 -> 1..m + 1]
        BY <4>3, <4>4
      <4>6. \A k \in 1..n + 1 : new[k] = s[h[k]] /\ s[h[k]] \in S
        BY <3>5, <4>3, <4>4
      <4>7. \A k, j \in 1..n + 1 : k < j => h[k] < h[j]
        BY <4>3, <4>4
      <4>8. ASSUME NEW i \in 1..m + 1, s[i] \in S PROVE \E k \in 1..n + 1 : h[k] = i
        <5>1. CASE i = m + 1
          <6>1. n + 1 \in 1..n + 1 /\ h[n + 1] = i
            BY <4>3, <5>1
          <6> QED
            BY <6>1
        <5>2. CASE i \in 1..m
          <6>1. PICK k \in 1..n : f[k] = i
            BY <4>4, <4>8, <5>2
          <6>2. k \in 1..n + 1 /\ h[k] = i
            BY <4>3, <6>1
          <6> QED
            BY <6>2
        <5> QED
          BY <5>1, <5>2
      <4> HIDE DEF h
      <4>9. Picked(new, m + 1, h)
        BY <4>3, <4>5, <4>6, <4>7, <4>8
      <4> HIDE DEF Picked
      <4> QED
        BY <4>2, <4>9
    <3> QED
      BY <3>4, <3>5
  <2>4. Nat \subseteq Good
    <3>1. ASSUME NEW m \in Nat, m \in Good PROVE m + 1 \in Good
      <4> HIDE DEF Picks
      <4> QED
        BY <2>3, <3>1
    <3> HIDE DEF Good
    <3> QED
      BY <2>2, <3>1, Induction
  <2>5. Picks(g[len], len)
    <3> HIDE DEF Picks
    <3> QED
      BY <1>1, <1>4, <2>4
  <2>6. g[len] \in Seq(X)
    BY <1>1, <1>4, <2>1
  <2> HIDE DEF Picks
  <2> QED
    BY <2>1, <2>5, <2>6
<1> HIDE DEF Picks
<1> QED
  BY <1>1, <1>3, <1>4

\* So it keeps a set of members, and an order without repetition.
LEMMA KeptHolds ==
  ASSUME NEW X, NEW s \in Seq(X), NEW S
  PROVE  /\ Kept(s, S) \in Seq(X)
         /\ ToSet(Kept(s, S)) = ToSet(s) \cap S
         /\ Once(s) => Once(Kept(s, S))
<1> DEFINE t == Kept(s, S)
<1>1. t \in Seq(X)
  BY KeptPicks
<1>2. PICK f \in [1..Len(t) -> 1..Len(s)] :
         /\ \A k \in 1..Len(t) : t[k] = s[f[k]] /\ s[f[k]] \in S
         /\ \A k, n \in 1..Len(t) : k < n => f[k] < f[n]
         /\ \A i \in 1..Len(s) : s[i] \in S => \E k \in 1..Len(t) : f[k] = i
  BY KeptPicks
<1> HIDE DEF t
<1>3. DOMAIN t = 1..Len(t) /\ DOMAIN s = 1..Len(s) /\ Len(t) \in Nat
  BY <1>1
<1>4. ToSet(t) = ToSet(s) \cap S
  <2>1. ASSUME NEW x \in ToSet(t) PROVE x \in ToSet(s) \cap S
    BY <1>2, <1>3 DEF ToSet
  <2>2. ASSUME NEW x \in ToSet(s), x \in S PROVE x \in ToSet(t)
    <3>1. PICK i \in 1..Len(s) : x = s[i]
      BY <1>3 DEF ToSet
    <3>2. PICK k \in 1..Len(t) : f[k] = i
      BY <1>2, <2>2, <3>1
    <3> QED
      BY <1>2, <1>3, <3>1, <3>2 DEF ToSet
  <2> QED
    BY <2>1, <2>2
<1>5. ASSUME Once(s), NEW k \in DOMAIN t, NEW n \in DOMAIN t, t[k] = t[n] PROVE k = n
  <2>1. f[k] = f[n]
    BY <1>2, <1>3, <1>5 DEF Once
  <2>2. f[k] \in Nat /\ k \in Nat /\ n \in Nat
    BY <1>2, <1>3
  <2> QED
    BY <1>2, <1>3, <2>1, <2>2
<1> QED
  BY <1>1, <1>4, <1>5 DEF t, Once

-----------------------------------------------------------------------------
(* What the queries return.                                                *)

\* The rows of S from the oldest to the newest, each once.
LEMMA AscendingHolds ==
  ASSUME log \in Seq(Frame), NEW S, S \subseteq Logged
  PROVE  /\ Ascending(S) \in Seq(Logged)
         /\ ToSet(Ascending(S)) = S
         /\ \A k, n \in 1..Len(Ascending(S)) : k < n => Ascending(S)[k] < Ascending(S)[n]
<1> DEFINE rows == [k \in Logged |-> k]
           t == Kept(rows, S)
<1>1. Len(log) \in Nat
  OBVIOUS
<1>2. rows \in Seq(Logged) /\ Len(rows) = Len(log) /\ \A i \in 1..Len(log) : rows[i] = i
  BY <1>1 DEF Logged
<1>3. ToSet(rows) = Logged
  BY <1>2 DEF ToSet, Logged
<1>4. Ascending(S) = t
  BY DEF Ascending
<1> HIDE DEF rows
<1>5. t \in Seq(Logged) /\ ToSet(t) = S
  <2>1. t \in Seq(Logged) /\ ToSet(t) = ToSet(rows) \cap S
    BY <1>2, KeptHolds
  <2> HIDE DEF t
  <2> QED
    BY <1>3, <2>1
<1>6. PICK f \in [1..Len(t) -> 1..Len(rows)] :
         /\ \A k \in 1..Len(t) : t[k] = rows[f[k]] /\ rows[f[k]] \in S
         /\ \A k, n \in 1..Len(t) : k < n => f[k] < f[n]
         /\ \A i \in 1..Len(rows) : rows[i] \in S => \E k \in 1..Len(t) : f[k] = i
  BY <1>2, KeptPicks, SMTT(30)
<1> HIDE DEF t
<1>7. \A k \in 1..Len(t) : t[k] = f[k]
  BY <1>2, <1>6
<1> QED
  BY <1>4, <1>5, <1>6, <1>7

\* The rows of S from the newest to the oldest, each once.
LEMMA DescendingHolds ==
  ASSUME log \in Seq(Frame), NEW S, S \subseteq Logged
  PROVE  /\ Descending(S) \in Seq(S)
         /\ ToSet(Descending(S)) = S
         /\ \A k, n \in 1..Len(Descending(S)) : k < n => Descending(S)[n] < Descending(S)[k]
         /\ Once(Descending(S))
<1> DEFINE a == Ascending(S)
           d == Descending(S)
           n == Len(a)
<1>1. a \in Seq(Logged) /\ ToSet(a) = S /\ \A k, m \in 1..n : k < m => a[k] < a[m]
  BY AscendingHolds
<1>2. d = [k \in 1..n |-> a[(n - k) + 1]]
  BY DEF Descending, Reverse
<1> HIDE DEF a, d
<1>3. n \in Nat /\ DOMAIN a = 1..n
  BY <1>1
<1> HIDE DEF n
<1>4. \A k \in 1..n : (n - k) + 1 \in 1..n /\ (n - ((n - k) + 1)) + 1 = k
  BY <1>3
<1>5. \A k \in 1..n : a[k] \in S
  BY <1>1, <1>3 DEF ToSet
<1>6. d \in [1..n -> S]
  BY <1>2, <1>4, <1>5
<1>7. d \in Seq(S) /\ Len(d) = n /\ DOMAIN d = 1..n
  BY <1>3, <1>6
<1>8. ToSet(d) = S
  <2>1. \A x \in S : \E k \in 1..n : d[k] = x
    <3> TAKE x \in S
    <3>1. PICK m \in 1..n : a[m] = x
      BY <1>1, <1>3 DEF ToSet
    <3>2. d[(n - m) + 1] = a[m]
      BY <1>2, <1>4
    <3> QED
      BY <1>4, <3>1, <3>2
  <2> QED
    BY <1>6, <1>7, <2>1 DEF ToSet
<1>9. ASSUME NEW k \in 1..n, NEW m \in 1..n, k < m PROVE d[m] < d[k]
  <2>1. (n - m) + 1 < (n - k) + 1
    BY <1>3, <1>9
  <2>2. a[(n - m) + 1] < a[(n - k) + 1]
    BY <1>1, <1>4, <2>1
  <2> QED
    BY <1>2, <2>2
<1>10. Once(d)
  <2>1. ASSUME NEW k \in 1..n, NEW m \in 1..n, d[k] = d[m] PROVE k = m
    <3>1. S \subseteq Int
      BY <1>3 DEF Logged
    <3>2. d[k] \in Int /\ d[m] \in Int
      BY <1>6, <3>1
    <3>3. ~(d[m] < d[k]) /\ ~(d[k] < d[m])
      BY <2>1, <3>2
    <3> QED
      BY <1>9, <3>3
  <2> QED
    BY <1>7, <2>1 DEF Once
<1> QED
  BY <1>7, <1>8, <1>9, <1>10 DEF d

\* So many rows stand down to the place of one.
LEMMA PlaceIsRank ==
  ASSUME log \in Seq(Frame), NEW S, S \subseteq Logged
  PROVE  /\ IsFiniteSet(S) /\ Cardinality(S) = Len(Descending(S))
         /\ \A k \in 1..Len(Descending(S)) : RankIn(S, Descending(S)[k]) = k
<1> DEFINE d == Descending(S)
<1>1. /\ d \in Seq(S) /\ ToSet(d) = S /\ Once(d)
      /\ \A k, n \in 1..Len(d) : k < n => d[n] < d[k]
  BY DescendingHolds
<1> HIDE DEF d
<1>2. Len(d) \in Nat /\ DOMAIN d = 1..Len(d) /\ \A k \in 1..Len(d) : d[k] \in S
  BY <1>1
<1>3. S \subseteq Int
  BY DEF Logged
<1>4. ASSUME NEW k \in 0..Len(d)
      PROVE  IsFiniteSet({d[n] : n \in 1..k}) /\ Cardinality({d[n] : n \in 1..k}) = k
  <2> DEFINE upto == {d[n] : n \in 1..k}
             f == [n \in 1..k |-> d[n]]
  <2>1. \A m, n \in 1..k : d[m] = d[n] => m = n
    BY <1>1, <1>2 DEF Once
  <2>2. f \in Bijection(1..k, upto)
    BY <2>1, Fun_IsBij, SMTT(30)
  <2>3. ExistsBijection(1..k, upto)
    BY <2>2 DEF ExistsBijection
  <2> HIDE DEF upto, f
  <2>4. IsFiniteSet(upto) /\ Cardinality(upto) = k
    BY <1>2, <2>3, FS_CountingElements, FS_NatBijection
  <2> QED
    BY <2>4 DEF upto
<1>5. {d[n] : n \in 1..Len(d)} = S
  BY <1>1, <1>2, SMTT(30) DEF ToSet
<1>6. IsFiniteSet(S) /\ Cardinality(S) = Len(d)
  <2>1. Len(d) \in 0..Len(d)
    BY <1>2
  <2>2. IsFiniteSet({d[n] : n \in 1..Len(d)}) /\ Cardinality({d[n] : n \in 1..Len(d)}) = Len(d)
    BY <1>4, <2>1
  <2> QED
    BY <1>5, <2>2, ZenonT(40)
<1>7. ASSUME NEW k \in 1..Len(d) PROVE RankIn(S, d[k]) = k
  <2>1. ASSUME NEW n \in 1..Len(d) PROVE d[k] <= d[n] <=> n <= k
    <3>1. d[k] \in Int /\ d[n] \in Int
      BY <1>2, <1>3
    <3>2. k < n => d[n] < d[k]
      BY <1>1
    <3>3. n < k => d[k] < d[n]
      BY <1>1
    <3> QED
      BY <3>1, <3>2, <3>3
  <2>2. {j \in S : d[k] <= j} = {d[n] : n \in 1..k}
    <3>1. \A j \in S : d[k] <= j => \E n \in 1..k : j = d[n]
      <4> SUFFICES ASSUME NEW n \in 1..Len(d), d[k] <= d[n] PROVE n \in 1..k
        BY <1>5
      <4> QED
        BY <2>1
    <3>2. \A n \in 1..k : d[n] \in S /\ d[k] <= d[n]
      BY <1>2, <2>1
    <3> QED
      BY <3>1, <3>2
  <2> QED
    <3>1. k \in 0..Len(d)
      BY <1>2
    <3>2. Cardinality({d[n] : n \in 1..k}) = k
      BY <1>4, <3>1
    <3> QED
      BY <2>2, <3>2 DEF RankIn
<1> QED
  BY <1>6, <1>7 DEF d

\* A page: some of the rows from a place on, all of them if it is not full.
LEMMA QueryHolds ==
  ASSUME log \in Seq(Frame), NEW S, S \subseteq Logged, NEW offset \in Nat, NEW limit \in Nat
  PROVE  LET q == Query(S, offset, limit)
             d == Descending(S)
         IN  /\ q \in Seq(S) /\ Len(q) <= limit
             /\ \A k \in 1..Len(q) : offset + k \in 1..Len(d) /\ q[k] = d[offset + k]
             /\ Len(q) < limit => offset + Len(q) >= Len(d)
             /\ ToSet(q) \subseteq S
             /\ Once(q)
<1> DEFINE q == Query(S, offset, limit)
           d == Descending(S)
           rest == SubSeq(d, offset + 1, Len(d))
           size == IF limit < Len(rest) THEN limit ELSE Len(rest)
<1>1. d \in Seq(S) /\ Once(d)
  BY DescendingHolds
<1>2. q = SubSeq(rest, 1, size)
  BY DEF Query, FirstOf
<1> HIDE DEF q, d
<1>3. /\ rest \in Seq(S)
      /\ Len(rest) = IF offset + 1 <= Len(d) THEN Len(d) - offset ELSE 0
      /\ \A k \in 1..Len(rest) : rest[k] = d[offset + k]
  BY <1>1, SMTT(30)
<1>5. Len(d) \in Nat /\ DOMAIN d = 1..Len(d)
  BY <1>1
<1>6. Len(rest) \in Nat
  BY <1>3
<1> HIDE DEF rest
<1>4. q \in Seq(S) /\ Len(q) = size /\ \A k \in 1..size : q[k] = rest[k]
  BY <1>2, <1>3
<1>7. size \in Nat /\ size <= limit /\ size <= Len(rest) /\ (size < limit => size = Len(rest))
  BY <1>6
<1> HIDE DEF size
<1>8. \A k \in 1..size : offset + k \in 1..Len(d) /\ q[k] = d[offset + k]
  <2> TAKE k \in 1..size
  <2>1. k \in 1..Len(rest)
    BY <1>6, <1>7
  <2>2. offset + k \in 1..Len(d)
    <3>1. Len(rest) = IF offset + 1 <= Len(d) THEN Len(d) - offset ELSE 0
      BY <1>3
    <3>2. 1 <= k /\ k <= Len(rest) /\ k \in Nat
      BY <1>6, <2>1
    <3>3. Len(d) \in Nat
      BY <1>5
    <3>4. offset + 1 <= Len(d) /\ Len(rest) = Len(d) - offset
      BY <3>1, <3>2, <3>3
    <3>5. offset + k <= Len(d) /\ 1 <= offset + k /\ offset + k \in Nat
      BY <3>2, <3>3, <3>4
    <3> QED
      BY <3>3, <3>5
  <2> QED
    BY <1>3, <1>4, <2>1, <2>2
<1>9. size < limit => offset + size >= Len(d)
  <2>1. Len(rest) = IF offset + 1 <= Len(d) THEN Len(d) - offset ELSE 0
    BY <1>3
  <2> QED
    <3>1. Len(d) \in Nat
      BY <1>5
    <3>2. size < limit => offset + Len(rest) >= Len(d)
      BY <2>1, <3>1
    <3> QED
      BY <1>7, <3>2
<1>10. ToSet(q) \subseteq S
  BY <1>4 DEF ToSet
<1>11. Once(q)
  <2>1. ASSUME NEW k \in 1..size, NEW n \in 1..size, q[k] = q[n] PROVE k = n
    <3>1. d[offset + k] = d[offset + n]
      BY <1>8, <2>1
    <3>2. offset + k = offset + n
      BY <1>1, <1>5, <1>8, <3>1 DEF Once
    <3> QED
      BY <3>2
  <2> QED
    BY <1>4, <1>7, <2>1 DEF Once
<1> QED
  BY <1>4, <1>7, <1>8, <1>9, <1>10, <1>11 DEF q, d

-----------------------------------------------------------------------------
(* The types.                                                              *)

LoadCall   == [current : BOOLEAN, only : BOOLEAN, answered : BOOLEAN, page : Seq(Logged),
               clears : BOOLEAN]
RepairCall == [since : Times, until : Times, only : BOOLEAN, offset : 0..MaxFrames,
               items : SUBSET Logged, whole : BOOLEAN, before : SUBSET Logged,
               asked : BOOLEAN, counted : SUBSET Logged, slipped : BOOLEAN]

ServerTyped ==
  /\ log \in Seq(Frame) /\ Len(log) <= MaxFrames /\ now \in Times
  /\ Len(stamped) <= 1 /\ stamped \in Seq(Frame)
ConnTyped ==
  /\ net \in {"none", "up", "broken"}
  /\ srv \in [last : Times \cup {0}, seen : SUBSET Logged]
  /\ got \subseteq Logged /\ down \in Seq([type : {"frame", "alert"}, id : Logged])
SubTyped ==
  es \in {"connecting", "open", "closed"} /\ polling \in BOOLEAN /\ recovering \in BOOLEAN
ListTyped    == frames \in Seq(Logged) /\ byId \subseteq Logged
SinceTyped   == since \in Times \cup {Undef, NoFrame}
LoadsTyped   == loads \in Seq(LoadCall)
RepairsTyped == repairs \in Seq(RepairCall)
ClicksTyped  == selected \subseteq Logged /\ details \subseteq Logged /\ clicks \in 0..MaxClicks

\* The type invariant in parts, a component each,
LEMMA TypeParts ==
  TypeOK <=>
    /\ ServerTyped /\ ConnTyped /\ SubTyped /\ filter \in Filters /\ ListTyped /\ SinceTyped
    /\ LoadsTyped /\ RepairsTyped /\ ClicksTyped /\ faults \in 0..MaxFaults
BY DEF TypeOK, ServerTyped, ConnTyped, SubTyped, ListTyped, SinceTyped, LoadsTyped, RepairsTyped,
       ClicksTyped, LoadCall, RepairCall

\* ... and in the next state.
LEMMA TypePartsNext ==
  ASSUME ServerTyped', ConnTyped', SubTyped', filter' \in Filters, ListTyped', SinceTyped',
         LoadsTyped', RepairsTyped', ClicksTyped', faults' \in 0..MaxFaults
  PROVE  TypeOK'
BY DEF TypeOK, ServerTyped, ConnTyped, SubTyped, ListTyped, SinceTyped, LoadsTyped, RepairsTyped,
       ClicksTyped, LoadCall, RepairCall

\* What a step leaves alone keeps its type, as long as the log does not change.
LEMMA TypesKept ==
  ASSUME log' = log
  PROVE  /\ Logged' = Logged
         /\ ServerTyped /\ UNCHANGED <<stamped, now>> => ServerTyped'
         /\ ConnTyped /\ UNCHANGED connVars => ConnTyped'
         /\ SubTyped /\ UNCHANGED subVars => SubTyped'
         /\ ListTyped /\ UNCHANGED listVars => ListTyped'
         /\ SinceTyped /\ UNCHANGED since => SinceTyped'
         /\ LoadsTyped /\ UNCHANGED loads => LoadsTyped'
         /\ RepairsTyped /\ UNCHANGED repairs => RepairsTyped'
         /\ ClicksTyped /\ UNCHANGED clickVars => ClicksTyped'
<1>1. Logged' = Logged
  BY DEF Logged
<1>2. LoadCall' = LoadCall /\ RepairCall' = RepairCall
  BY <1>1 DEF LoadCall, RepairCall
<1>3. ServerTyped /\ UNCHANGED <<stamped, now>> => ServerTyped'
  BY DEF ServerTyped
<1>4. ConnTyped /\ UNCHANGED connVars => ConnTyped'
  BY <1>1 DEF ConnTyped, connVars
<1>5. SubTyped /\ UNCHANGED subVars => SubTyped'
  BY DEF SubTyped, subVars
<1>6. ListTyped /\ UNCHANGED listVars => ListTyped'
  BY <1>1 DEF ListTyped, listVars
<1>7. SinceTyped /\ UNCHANGED since => SinceTyped'
  BY DEF SinceTyped
<1>8. LoadsTyped /\ UNCHANGED loads => LoadsTyped'
  BY <1>2 DEF LoadsTyped
<1>9. RepairsTyped /\ UNCHANGED repairs => RepairsTyped'
  BY <1>2 DEF RepairsTyped
<1>10. ClicksTyped /\ UNCHANGED clickVars => ClicksTyped'
  BY <1>1 DEF ClicksTyped, clickVars
<1> QED
  BY <1>1, <1>3, <1>4, <1>5, <1>6, <1>7, <1>8, <1>9, <1>10

\* The log grows by what was stamped only.
LEMMA RoomKept == ASSUME Room, UNCHANGED <<log, stamped>> PROVE Room'
BY DEF Room

\* What is left when one member is removed.
LEMMA RemovedAt ==
  ASSUME NEW X, NEW s \in Seq(X), NEW k \in DOMAIN s
  PROVE  /\ RemoveAt(s, k) \in Seq(X)
         /\ Len(RemoveAt(s, k)) = Len(s) - 1
         /\ \A n \in 1..Len(s) - 1 :
              RemoveAt(s, k)[n] = IF n < k THEN s[n] ELSE s[n + 1]
<1> DEFINE a == SubSeq(s, 1, k - 1)
           b == SubSeq(s, k + 1, Len(s))
<1>1. Len(s) \in Nat /\ k \in 1..Len(s)
  OBVIOUS
<1>2. /\ a \in Seq(X) /\ Len(a) = k - 1
      /\ \A n \in 1..k - 1 : a[n] = s[n]
  BY <1>1
<1>3. /\ b \in Seq(X) /\ Len(b) = Len(s) - k
      /\ \A n \in 1..Len(s) - k : b[n] = s[k + n]
  BY <1>1
<1>4. RemoveAt(s, k) = a \o b
  BY DEF RemoveAt
<1> HIDE DEF a, b
<1>5. /\ a \o b \in Seq(X)
      /\ Len(a \o b) = Len(a) + Len(b)
      /\ \A n \in 1..Len(a) : (a \o b)[n] = a[n]
      /\ \A n \in 1..Len(b) : (a \o b)[Len(a) + n] = b[n]
  <2>1. a \in Seq(X) /\ b \in Seq(X)
    BY <1>2, <1>3
  <2> QED
    BY <2>1, Concatenated
<1>6. Len(a \o b) = Len(s) - 1
  BY <1>1, <1>2, <1>3, <1>5
<1>7. ASSUME NEW n \in 1..Len(s) - 1
      PROVE  (a \o b)[n] = IF n < k THEN s[n] ELSE s[n + 1]
  <2>1. CASE n < k
    <3>1. n \in 1..k - 1
      BY <1>1, <2>1
    <3> QED
      BY <1>2, <1>5, <2>1, <3>1
  <2>2. CASE ~(n < k)
    <3> DEFINE m == n - (k - 1)
    <3>1. m \in 1..Len(s) - k /\ (k - 1) + m = n /\ k + m = n + 1
      BY <1>1, <2>2
    <3> HIDE DEF m
    <3>2. (a \o b)[n] = b[m]
      BY <1>2, <1>3, <1>5, <3>1
    <3> QED
      BY <1>3, <2>2, <3>1, <3>2
  <2> QED
    BY <2>1, <2>2
<1> QED
  BY <1>4, <1>5, <1>6, <1>7

\* A sequence over a set is one over a larger set.
LEMMA Widened ==
  ASSUME NEW X, NEW Y, X \subseteq Y, NEW s \in Seq(X) PROVE s \in Seq(Y)
OBVIOUS

\* Of some times there is a latest one.
LEMMA Latest ==
  ASSUME NEW S, S \subseteq Times \cup {0}, S # {}
  PROVE  \E t \in S : \A u \in S : u <= t
<1>1. MaxTime \in Nat
  BY StreamAssumption
<1> DEFINE R == {MaxTime - t : t \in S}
<1>2. R \subseteq Nat /\ R # {}
  <2>1. \A t \in S : t \in 0..MaxTime
    BY <1>1 DEF Times
  <2>2. \A t \in S : MaxTime - t \in Nat
    BY <1>1, <2>1
  <2>3. PICK t \in S : TRUE
    OBVIOUS
  <2>4. MaxTime - t \in R
    BY <2>3
  <2> QED
    BY <2>2, <2>4
<1>3. PICK r \in R : \A x \in R : r <= x
  <2> HIDE DEF R
  <2> QED
    BY <1>2, Smallest
<1>4. PICK t \in S : r = MaxTime - t
  BY <1>3
<1>5. ASSUME NEW u \in S PROVE u <= t
  <2>1. r <= MaxTime - u
    BY <1>3
  <2> QED
    BY <1>1, <1>4, <2>1 DEF Times
<1> QED
  BY <1>5

\* Frames that are logged stay, as they are.
LEMMA LogGrows ==
  ASSUME ServerTyped, Room, FrameCommitted
  PROVE  /\ log' \in Seq(Frame) /\ Len(log') = Len(log) + 1 /\ Len(log') <= MaxFrames
         /\ Logged \subseteq Logged' /\ Logged' = Logged \cup {Len(log) + 1}
         /\ Len(log) + 1 \notin Logged
         /\ \A i \in Logged : log'[i] = log[i]
         /\ log'[Len(log) + 1] = stamped[1] /\ stamped[1] \in Frame
<1>1. log \in Seq(Frame) /\ stamped \in Seq(Frame) /\ Len(stamped) = 1 /\ Len(log) \in Nat
  <2>1. stamped # << >> /\ stamped \in Seq(Frame) /\ Len(stamped) <= 1 /\ log \in Seq(Frame)
    BY DEF ServerTyped, FrameCommitted
  <2>2. Len(stamped) \in Nat /\ (Len(stamped) = 0 => stamped = << >>) /\ Len(log) \in Nat
    BY <2>1
  <2>3. Len(stamped) = 1
    <3>1. PICK n : n = Len(stamped)
      OBVIOUS
    <3>2. n \in Nat /\ n # 0 /\ n <= 1
      BY <2>1, <2>2, <3>1
    <3>3. n = 1
      BY <3>2
    <3> QED
      BY <3>1, <3>3
  <2> QED
    BY <2>1, <2>2, <2>3
<1>2. log' = log \o stamped
  BY DEF FrameCommitted
<1>3. /\ log' \in Seq(Frame) /\ Len(log') = Len(log) + 1
      /\ \A i \in 1..Len(log) : log'[i] = log[i]
      /\ log'[Len(log) + 1] = stamped[1] /\ stamped[1] \in Frame
  <2>1. stamped[1] \in Frame /\ 1 \in 1..Len(stamped)
    BY <1>1
  <2>2. /\ log \o stamped \in Seq(Frame)
        /\ Len(log \o stamped) = Len(log) + Len(stamped)
        /\ \A k \in 1..Len(log) : (log \o stamped)[k] = log[k]
        /\ \A k \in 1..Len(stamped) : (log \o stamped)[Len(log) + k] = stamped[k]
    <3>1. PICK a, b : a = log /\ b = stamped
      OBVIOUS
    <3>2. a \in Seq(Frame) /\ b \in Seq(Frame)
      BY <1>1, <3>1
    <3>3. /\ a \o b \in Seq(Frame)
          /\ Len(a \o b) = Len(a) + Len(b)
          /\ \A k \in 1..Len(a) : (a \o b)[k] = a[k]
          /\ \A k \in 1..Len(b) : (a \o b)[Len(a) + k] = b[k]
      BY <3>2, Concatenated
    <3> QED
      BY <3>1, <3>3
  <2> QED
    BY <1>1, <1>2, <2>1, <2>2
<1>4. Len(log') <= MaxFrames
  BY <1>1, <1>3 DEF Room
<1> QED
  BY <1>1, <1>3, <1>4 DEF Logged

\* What the queries of the model are asked about.
LEMMA QueriesAsked ==
  ASSUME ServerTyped, NEW r
  PROVE  /\ {i \in Logged : srv.last <= T(i)} \subseteq Logged
         /\ {j \in Logged : Judgement(j) = "alert"} \subseteq Logged
         /\ Listable(r.only) \subseteq Logged
         /\ Due(r) \subseteq Logged
         /\ log \in Seq(Frame)
         /\ StreamWindow \in Nat /\ AlertWindow \in Nat /\ PageSize \in Nat /\ 0 \in Nat
         /\ StreamWindow > 0 /\ AlertWindow > 0 /\ PageSize > 0
BY StreamAssumption DEF ServerTyped, Listable, Due, Between

\* A logged frame has a time.
LEMMA TimesOf ==
  ASSUME ServerTyped
  PROVE  /\ \A i \in Logged : T(i) \in Times
         /\ Times \subseteq Nat /\ 0 \notin Times /\ Len(log) \in Nat /\ Logged \subseteq Nat
<1>1. log \in Seq(Frame) /\ MaxTime \in Nat
  BY StreamAssumption DEF ServerTyped
<1>2. \A i \in 1..Len(log) : log[i] \in Frame
  BY <1>1
<1>3. \A i \in 1..Len(log) : log[i].t \in 1..MaxTime
  BY <1>2 DEF Frame
<1>4. Len(log) \in Nat
  BY <1>1
<1> QED
  BY <1>1, <1>3, <1>4 DEF T, Times, Logged

\* The page of the stream, and what passes its test.
LEMMA SentTypes ==
  ASSUME ServerTyped
  PROVE  Sent(Batch) \subseteq Logged /\ NewAlerts \subseteq Logged
<1>1. ToSet(Batch) \subseteq Logged
  <2> DEFINE S == {i \in Logged : srv.last <= T(i)}
  <2>1. S \subseteq Logged /\ log \in Seq(Frame) /\ StreamWindow \in Nat /\ 0 \in Nat
    BY QueriesAsked
  <2> HIDE DEF S
  <2>2. ToSet(Query(S, 0, StreamWindow)) \subseteq S
    BY <2>1, QueryHolds
  <2> QED
    BY <2>1, <2>2 DEF Batch, S
<1>2. NewAlerts \subseteq Logged
  <2> DEFINE S == {j \in Logged : Judgement(j) = "alert"}
  <2>1. S \subseteq Logged /\ log \in Seq(Frame) /\ AlertWindow \in Nat /\ 0 \in Nat
    BY QueriesAsked
  <2> HIDE DEF S
  <2>2. ToSet(Query(S, 0, AlertWindow)) \subseteq S
    BY <2>1, QueryHolds
  <2> QED
    BY <2>1, <2>2 DEF NewAlerts, S
<1> QED
  BY <1>1, <1>2 DEF Sent

\* The cursor moves to the latest time of what was sent, and never back.
LEMMA NewestHolds ==
  ASSUME ServerTyped, ConnTyped, NEW S, S \subseteq Logged
  PROVE  /\ NewestOf(S) \in Times \cup {0}
         /\ srv.last <= NewestOf(S) /\ \A i \in S : T(i) <= NewestOf(S)
         /\ NewestOf(S) = srv.last \/ \E i \in S : NewestOf(S) = T(i)
<1> DEFINE times == {T(i) : i \in S} \cup {srv.last}
<1>1. srv.last \in Times \cup {0}
  BY DEF ConnTyped
<1>2. \A i \in S : T(i) \in Times
  BY TimesOf
<1>3. times \subseteq Times \cup {0} /\ times # {}
  BY <1>1, <1>2
<1>4. NewestOf(S) = CHOOSE t \in times : \A u \in times : u <= t
  BY DEF NewestOf
<1>5. \A i \in S : T(i) \in times
  OBVIOUS
<1>6. srv.last \in times /\ \A t \in times : t = srv.last \/ \E i \in S : t = T(i)
  OBVIOUS
<1> HIDE DEF times
<1>7. \E t \in times : \A u \in times : u <= t
  BY <1>3, Latest
<1>8. NewestOf(S) \in times /\ \A u \in times : u <= NewestOf(S)
  BY <1>4, <1>7
<1> QED
  BY <1>3, <1>5, <1>6, <1>8

\* Events about logged frames.
LEMMA EventsTyped ==
  ASSUME NEW type \in {"frame", "alert"}, NEW s \in Seq(Logged)
  PROVE  Event(type, s) \in Seq([type : {"frame", "alert"}, id : Logged])
<1>1. DOMAIN s = 1..Len(s) /\ Len(s) \in Nat /\ \A k \in 1..Len(s) : s[k] \in Logged
  OBVIOUS
<1>2. \A x \in Logged : [type |-> type, id |-> x] \in [type : {"frame", "alert"}, id : Logged]
  OBVIOUS
<1> DEFINE Told == [type : {"frame", "alert"}, id : Logged]
           e == [k \in 1..Len(s) |-> [type |-> type, id |-> s[k]]]
<1>3. e \in [1..Len(s) -> Told]
  BY <1>1, <1>2
<1>4. Event(type, s) = e
  BY <1>1 DEF Event
<1> HIDE DEF e, Told
<1>5. e \in Seq(Told)
  BY <1>1, <1>3
<1> QED
  BY <1>4, <1>5 DEF Told

\* The list after frames were put into it.
LEMMA UpsertTypes ==
  ASSUME ServerTyped, ListTyped, ClicksTyped, NEW S, S \subseteq Logged, Upsert(S), log' = log
  PROVE  ListTyped' /\ details' \subseteq Logged'
<1> DEFINE fit == {i \in S : Matches(filter, i)}
           keep == Logged \ (byId \cap (S \ fit))
<1>1. /\ frames' = Descending(fit \ byId) \o Kept(frames, keep)
      /\ byId' = (byId \ S) \cup fit
      /\ details' = details \cup (fit \cap selected)
  BY DEF Upsert
<1>2. fit \subseteq S
  OBVIOUS
<1> HIDE DEF fit, keep
<1>3. fit \ byId \subseteq Logged /\ log \in Seq(Frame) /\ frames \in Seq(Logged)
  BY <1>2 DEF ServerTyped, ListTyped
<1>4. Descending(fit \ byId) \in Seq(Logged)
  <2>1. Descending(fit \ byId) \in Seq(fit \ byId)
    BY <1>3, DescendingHolds
  <2> QED
    BY <1>3, <2>1, Widened
<1>5. Kept(frames, keep) \in Seq(Logged)
  <2>1. PICK s : s = frames
    OBVIOUS
  <2>2. Kept(s, keep) \in Seq(Logged)
    BY <1>3, <2>1, KeptHolds
  <2> QED
    BY <2>1, <2>2
<1>6. frames' \in Seq(Logged)
  BY <1>1, <1>4, <1>5, JoinedLength
<1>7. Logged' = Logged
  BY TypesKept
<1> QED
  BY <1>1, <1>2, <1>6, <1>7 DEF ListTyped, ClicksTyped

\* A snapshot that is asked for.
LEMMA LoadTypes ==
  ASSUME LoadsTyped, log' = log, NEW c \in BOOLEAN, loads' = Load(c)
  PROVE  LoadsTyped'
<1> DEFINE old == [k \in DOMAIN loads |-> [loads[k] EXCEPT !.current = FALSE]]
           new == [current |-> TRUE, only |-> filter'.judge = "violations", answered |-> FALSE,
                   page |-> << >>, clears |-> c]
<1>1. loads' = Append(old, new)
  BY DEF Load
<1>2. new \in LoadCall
  BY DEF LoadCall
<1>3. loads \in Seq(LoadCall)
  BY DEF LoadsTyped
<1>4. DOMAIN loads = 1..Len(loads) /\ Len(loads) \in Nat /\ \A k \in 1..Len(loads) : loads[k] \in LoadCall
  BY <1>3
<1>5. \A x \in LoadCall : [x EXCEPT !.current = FALSE] \in LoadCall
  BY DEF LoadCall
<1>6. old \in [1..Len(loads) -> LoadCall]
  BY <1>4, <1>5
<1> HIDE DEF old, new
<1>7. old \in Seq(LoadCall)
  BY <1>4, <1>6
<1>8. loads' \in Seq(LoadCall)
  BY <1>1, <1>2, <1>7
<1>9. LoadCall' = LoadCall
  BY TypesKept DEF LoadCall
<1> QED
  BY <1>8, <1>9 DEF LoadsTyped

\* A call that has ended is gone.
LEMMA LoadGone ==
  ASSUME LoadsTyped, log' = log, NEW k \in DOMAIN loads, loads' = RemoveAt(loads, k)
  PROVE  LoadsTyped'
<1>1. PICK s : s = loads
  OBVIOUS
<1>2. s \in Seq(LoadCall) /\ k \in DOMAIN s
  BY <1>1 DEF LoadsTyped
<1>3. RemoveAt(s, k) \in Seq(LoadCall)
  BY <1>2, RemovedAt
<1>4. LoadCall' = LoadCall
  BY TypesKept DEF LoadCall
<1> QED
  BY <1>1, <1>3, <1>4 DEF LoadsTyped

\* A recovery that has ended is gone.
LEMMA RepairGone ==
  ASSUME RepairsTyped, log' = log, NEW k \in DOMAIN repairs, repairs' = RemoveAt(repairs, k)
  PROVE  RepairsTyped'
<1>1. PICK s : s = repairs
  OBVIOUS
<1>2. s \in Seq(RepairCall) /\ k \in DOMAIN s
  BY <1>1 DEF RepairsTyped
<1>3. RemoveAt(s, k) \in Seq(RepairCall)
  BY <1>2, RemovedAt
<1>4. RepairCall' = RepairCall
  BY TypesKept DEF RepairCall
<1> QED
  BY <1>1, <1>3, <1>4 DEF RepairsTyped

\* At the start nothing is logged or under way.
LEMMA InitTypes == Init => TypeOK /\ Room
<1> SUFFICES ASSUME Init PROVE TypeOK /\ Room
  OBVIOUS
<1>1. /\ MaxFrames \in Nat /\ MaxTime \in Nat \ {0} /\ MaxFaults \in Nat /\ MaxClicks \in Nat
      /\ Everything \in Filters
  BY StreamAssumption
<1>2. log = << >> /\ stamped = << >> /\ now = 1
  BY DEF Init
<1>3. ServerTyped
  BY <1>1, <1>2 DEF ServerTyped, Times
<1>4. ConnTyped
  BY DEF Init, ConnTyped
<1>5. SubTyped /\ filter \in Filters
  BY <1>1 DEF Init, SubTyped
<1>6. ListTyped /\ SinceTyped
  BY DEF Init, ListTyped, SinceTyped
<1>7. LoadsTyped
  <2> DEFINE first == [current |-> TRUE, only |-> FALSE, answered |-> FALSE, page |-> << >>,
                       clears |-> FALSE]
  <2>1. loads = << first >>
    BY DEF Init
  <2>2. first \in LoadCall
    BY DEF LoadCall
  <2> HIDE DEF first
  <2> QED
    BY <2>1, <2>2 DEF LoadsTyped
<1>8. RepairsTyped
  BY DEF Init, RepairsTyped
<1>9. ClicksTyped /\ faults \in 0..MaxFaults
  BY <1>1 DEF Init, ClicksTyped
<1>10. Room
  BY <1>1, <1>2 DEF Room
<1> QED
  BY <1>3, <1>4, <1>5, <1>6, <1>7, <1>8, <1>9, <1>10, TypeParts

\* The server's steps, and the connection's.
LEMMA ClockTypes == ASSUME TypeOK, Room, ClockTick PROVE TypeOK' /\ Room'
<1>1. log' = log /\ stamped' = stamped /\ now < MaxTime /\ now' = now + 1 /\ faults' = faults
      /\ UNCHANGED <<connVars, subVars, filter, listVars, since, loads, repairs, clickVars>>
  BY DEF ClockTick
<1>2. now' \in Times /\ MaxTime \in Nat
  BY <1>1, TypeParts, StreamAssumption, SMTT(30) DEF ServerTyped, Times
<1>3. ServerTyped'
  BY <1>1, <1>2, TypeParts DEF ServerTyped
<1> QED
  BY <1>1, <1>3, TypeParts, TypePartsNext, TypesKept, RoomKept

\* A frame is stamped when it is read, ...
LEMMA ArrivalTypes ==
  ASSUME TypeOK, Room, NEW k \in Kinds, FrameArrives(k) PROVE TypeOK' /\ Room'
<1> DEFINE f == [kind |-> k, t |-> now]
<1>1. /\ log' = log /\ stamped' = << f >> /\ now' = now /\ faults' = faults
      /\ stamped = << >> /\ Len(log) < MaxFrames
      /\ UNCHANGED <<connVars, subVars, filter, listVars, since, loads, repairs, clickVars>>
  BY DEF FrameArrives
<1>2. f \in Frame
  BY TypeParts DEF ServerTyped, Frame, Times
<1> HIDE DEF f
<1>3. << f >> \in Seq(Frame) /\ Len(<< f >>) = 1
  BY <1>2
<1>4. ServerTyped'
  BY <1>1, <1>3, TypeParts DEF ServerTyped
<1>5. Room'
  <2>1. Len(log) \in Nat /\ MaxFrames \in Nat
    BY TypeParts, TimesOf, StreamAssumption
  <2> QED
    BY <1>1, <1>3, <2>1 DEF Room
<1> QED
  BY <1>1, <1>4, <1>5, TypeParts, TypePartsNext, TypesKept

\* ... and logged with that stamp; what is logged stays.
LEMMA CommitTypes == ASSUME TypeOK, Room, FrameCommitted PROVE TypeOK' /\ Room'
<1>1. /\ stamped' = << >> /\ now' = now /\ faults' = faults
      /\ UNCHANGED <<connVars, subVars, filter, listVars, since, loads, repairs, clickVars>>
  BY DEF FrameCommitted
<1>2. /\ log' \in Seq(Frame) /\ Len(log') = Len(log) + 1 /\ Len(log') <= MaxFrames
      /\ Logged \subseteq Logged'
  BY TypeParts, LogGrows
<1>3. ServerTyped'
  BY <1>1, <1>2, TypeParts DEF ServerTyped
<1>4. Room'
  <2>1. Len(log') \in Nat /\ Len(<< >>) = 0
    BY <1>2
  <2> QED
    BY <1>1, <1>2, <2>1 DEF Room
<1>5. ConnTyped'
  <2> DEFINE Told == [type : {"frame", "alert"}, id : Logged]
             Next_ == [type : {"frame", "alert"}, id : Logged']
  <2>1. Told \subseteq Next_ /\ down \in Seq(Told)
    BY <1>2, TypeParts DEF ConnTyped
  <2> HIDE DEF Told, Next_
  <2>2. down \in Seq(Next_)
    BY <2>1, Widened
  <2>3. srv \in [last : Times \cup {0}, seen : SUBSET Logged']
    BY <1>2, TypeParts DEF ConnTyped
  <2> QED
    BY <1>1, <1>2, <2>2, <2>3, TypeParts DEF ConnTyped, connVars, Next_
<1>6. SubTyped' /\ SinceTyped' /\ (filter \in Filters)'
  BY <1>1, TypeParts DEF SubTyped, subVars, SinceTyped
<1>7. ListTyped' /\ ClicksTyped'
  <2>1. frames \in Seq(Logged')
    BY <1>2, TypeParts, Widened DEF ListTyped
  <2> QED
    BY <1>1, <1>2, <2>1, TypeParts DEF ListTyped, ClicksTyped, listVars, clickVars
<1>8. LoadsTyped'
  <2>1. Seq(Logged) \subseteq Seq(Logged')
    BY <1>2, Widened
  <2>2. LoadCall \subseteq LoadCall'
    BY <2>1 DEF LoadCall
  <2>3. loads \in Seq(LoadCall)
    BY TypeParts DEF LoadsTyped
  <2>4. loads \in Seq(LoadCall')
    BY <2>2, <2>3, Widened
  <2> QED
    BY <1>1, <2>4 DEF LoadsTyped
<1>9. RepairsTyped'
  <2>1. RepairCall \subseteq RepairCall'
    BY <1>2 DEF RepairCall
  <2>2. repairs \in Seq(RepairCall)
    BY TypeParts DEF RepairsTyped
  <2>3. repairs \in Seq(RepairCall')
    BY <2>1, <2>2, Widened
  <2> QED
    BY <1>1, <2>3 DEF RepairsTyped
<1>10. faults' \in 0..MaxFaults
  BY <1>1, TypeParts
<1>11. /\ ServerTyped' /\ ConnTyped' /\ SubTyped' /\ (filter \in Filters)' /\ ListTyped' /\ SinceTyped'
       /\ LoadsTyped' /\ RepairsTyped' /\ ClicksTyped' /\ (faults \in 0..MaxFaults)'
  BY <1>3, <1>5, <1>6, <1>7, <1>8, <1>9, <1>10
<1> QED
  BY <1>4, <1>11, TypePartsNext

\* The server takes the connection, with an empty cursor.
LEMMA AcceptTypes == ASSUME TypeOK, Room, Accept PROVE TypeOK' /\ Room'
<1>1. /\ log' = log /\ stamped' = stamped /\ now' = now /\ faults' = faults
      /\ net' = "up" /\ srv' = [last |-> 0, seen |-> {}] /\ got' = {} /\ down' = << >>
      /\ UNCHANGED <<subVars, filter, listVars, since, loads, repairs, clickVars>>
  BY DEF Accept, serverVars
<1>2. ConnTyped'
  BY <1>1 DEF ConnTyped
<1> QED
  BY <1>1, <1>2, TypeParts, TypePartsNext, TypesKept, RoomKept

\* What a tick sends are events about logged frames, and its cursor is a time.
LEMMA TickTypes == ASSUME TypeOK, Room, StreamTick PROVE TypeOK' /\ Room'
<1> DEFINE sent == Sent(Batch)
           e == Event("frame", Ascending(sent))
           a == Event("alert", Descending(NewAlerts))
           Told == [type : {"frame", "alert"}, id : Logged]
<1>1. /\ log' = log /\ stamped' = stamped /\ now' = now /\ faults' = faults /\ net' = net
      /\ srv' = [last |-> NewestOf(sent), seen |-> srv.seen \cup NewAlerts]
      /\ got' = got \cup sent
      /\ down' = down \o e \o a
      /\ UNCHANGED <<subVars, filter, listVars, since, loads, repairs, clickVars>>
  BY DEF StreamTick, serverVars
<1>2. sent \subseteq Logged /\ NewAlerts \subseteq Logged /\ log \in Seq(Frame)
  BY TypeParts, SentTypes DEF ServerTyped
<1>3. e \in Seq(Told)
  <2>1. Ascending(sent) \in Seq(Logged)
    BY <1>2, AscendingHolds
  <2> QED
    BY <2>1, EventsTyped
<1>4. a \in Seq(Told)
  <2>1. Descending(NewAlerts) \in Seq(NewAlerts)
    BY <1>2, DescendingHolds
  <2>2. Descending(NewAlerts) \in Seq(Logged)
    BY <1>2, <2>1, Widened
  <2> QED
    BY <2>2, EventsTyped
<1> HIDE DEF sent, e, a
<1>5. NewestOf(sent) \in Times \cup {0}
  BY <1>2, TypeParts, NewestHolds
<1>6. srv' \in [last : Times \cup {0}, seen : SUBSET Logged]
  BY <1>1, <1>2, <1>5, TypeParts DEF ConnTyped
<1>7. down' \in Seq(Told)
  <2>1. down \in Seq(Told)
    BY TypeParts DEF ConnTyped
  <2> HIDE DEF Told
  <2>2. down \o e \in Seq(Told)
    BY <1>3, <2>1, JoinedLength
  <2>3. (down \o e) \o a \in Seq(Told)
    BY <1>4, <2>2, JoinedLength
  <2> QED
    BY <1>1, <2>3
<1>8. Logged' = Logged
  BY <1>1, TypesKept
<1>9. ConnTyped'
  BY <1>1, <1>2, <1>6, <1>7, <1>8, TypeParts DEF ConnTyped
<1> QED
  BY <1>1, <1>9, TypeParts, TypePartsNext, TypesKept, RoomKept

\* A broken connection loses what was under way.
LEMMA BreakTypes == ASSUME TypeOK, Room, Break PROVE TypeOK' /\ Room'
<1>1. /\ log' = log /\ stamped' = stamped /\ now' = now
      /\ net' = "broken" /\ down' = << >> /\ srv' = srv /\ got' = got
      /\ faults < MaxFaults /\ faults' = faults + 1
      /\ UNCHANGED <<subVars, filter, listVars, since, loads, repairs, clickVars>>
  BY DEF Break, serverVars
<1>2. Logged' = Logged
  BY <1>1, TypesKept
<1>3. ConnTyped'
  BY <1>1, <1>2, TypeParts DEF ConnTyped
<1>4. faults' \in 0..MaxFaults
  BY <1>1, TypeParts, StreamAssumption
<1> QED
  BY <1>1, <1>3, <1>4, TypeParts, TypePartsNext, TypesKept, RoomKept

\* The steps of the page.
LEMMA ReopenTypes == ASSUME TypeOK, Room, Reopen PROVE TypeOK' /\ Room'
<1>1. /\ log' = log /\ stamped' = stamped /\ now' = now /\ faults' = faults
      /\ es' = "connecting" /\ polling' = polling /\ recovering' = recovering
      /\ UNCHANGED <<connVars, filter, listVars, since, loads, repairs, clickVars>>
  BY DEF Reopen, serverVars
<1>2. SubTyped'
  BY <1>1, TypeParts DEF SubTyped
<1> QED
  BY <1>1, <1>2, TypeParts, TypePartsNext, TypesKept, RoomKept

\* On the open connection a recovery begins, and a snapshot.
LEMMA OpenTypes == ASSUME TypeOK, Room, OnOpen PROVE TypeOK' /\ Room'
<1>1. /\ log' = log /\ stamped' = stamped /\ now' = now /\ faults' = faults
      /\ es' = "open" /\ polling' = FALSE /\ recovering' = FALSE
      /\ UNCHANGED <<connVars, filter, listVars, since, clickVars>>
      /\ IF recovering THEN BeginRecovery ELSE UNCHANGED <<loads, repairs>>
  BY DEF OnOpen, serverVars
<1>2. SubTyped'
  BY <1>1 DEF SubTyped
<1>3. LoadsTyped' /\ RepairsTyped'
  <2>1. CASE ~recovering
    <3>1. UNCHANGED loads /\ UNCHANGED repairs
      BY <1>1, <2>1
    <3> QED
      BY <1>1, <3>1, TypeParts, TypesKept
  <2>2. CASE recovering /\ since \notin Nat
    <3>1. loads' = Load(TRUE) /\ UNCHANGED repairs
      BY <1>1, <2>2 DEF BeginRecovery
    <3>2. LoadsTyped'
      BY <1>1, <3>1, TypeParts, LoadTypes
    <3> QED
      BY <1>1, <3>1, <3>2, TypeParts, TypesKept
  <2>3. CASE recovering /\ since \in Nat
    <3> DEFINE new == [since |-> since, until |-> now, only |-> ViolationsOnly, offset |-> 0,
                       items |-> {}, whole |-> FALSE, before |-> Logged,
                       asked |-> FALSE, counted |-> {}, slipped |-> FALSE]
    <3>1. repairs' = Append(repairs, new) /\ UNCHANGED loads
      BY <1>1, <2>3 DEF BeginRecovery
    <3>2. since \in Times /\ now \in Times /\ MaxFrames \in Nat
      BY <2>3, TypeParts, StreamAssumption DEF SinceTyped, ServerTyped
    <3>3. new \in RepairCall
      BY <3>2 DEF RepairCall, ViolationsOnly
    <3> HIDE DEF new
    <3>4. PICK s : s = repairs
      OBVIOUS
    <3>5. s \in Seq(RepairCall)
      BY <3>4, TypeParts DEF RepairsTyped
    <3>6. Append(s, new) \in Seq(RepairCall)
      BY <3>3, <3>5
    <3>7. RepairCall' = RepairCall
      BY <1>1, TypesKept DEF RepairCall
    <3>8. RepairsTyped'
      BY <3>1, <3>4, <3>6, <3>7 DEF RepairsTyped
    <3> QED
      BY <1>1, <3>1, <3>8, TypeParts, TypesKept
  <2> QED
    BY <2>1, <2>2, <2>3
<1> QED
  BY <1>1, <1>2, <1>3, TypeParts, TypePartsNext, TypesKept, RoomKept

\* On an error the recovery cursor is pinned to a time of the list.
LEMMA ErrorTypes == ASSUME TypeOK, Room, OnError PROVE TypeOK' /\ Room'
<1>1. /\ log' = log /\ stamped' = stamped /\ now' = now /\ faults' = faults
      /\ es' = "closed" /\ polling' = TRUE /\ recovering' = TRUE
      /\ net' = "none" /\ srv' = srv /\ got' = got /\ down' = down
      /\ since' = IF recovering THEN since ELSE Pinned
      /\ UNCHANGED <<filter, listVars, loads, repairs, clickVars>>
  BY DEF OnError, serverVars
<1>2. SubTyped'
  BY <1>1 DEF SubTyped
<1>3. Logged' = Logged
  BY <1>1, TypesKept
<1>4. ConnTyped'
  BY <1>1, <1>3, TypeParts DEF ConnTyped
<1>5. Pinned \in Times \cup {Undef, NoFrame}
  <2>1. frames # << >> => T(Head(frames)) \in Times
    <3>1. frames # << >> => Head(frames) \in Logged
      BY TypeParts DEF ListTyped
    <3> QED
      BY <3>1, TypeParts, TimesOf
  <2> QED
    BY <2>1, TypeParts DEF Pinned, SinceTyped
<1>6. SinceTyped'
  BY <1>1, <1>5, TypeParts DEF SinceTyped
<1> QED
  BY <1>1, <1>2, <1>4, <1>6, TypeParts, TypePartsNext, TypesKept, RoomKept

\* Polling asks for a snapshot.
LEMMA PollTypes == ASSUME TypeOK, Room, PollTick PROVE TypeOK' /\ Room'
<1>1. /\ log' = log /\ stamped' = stamped /\ now' = now /\ faults' = faults
      /\ loads' = Load(FALSE)
      /\ UNCHANGED <<connVars, subVars, filter, listVars, since, repairs, clickVars>>
  BY DEF PollTick, serverVars
<1>2. LoadsTyped'
  BY <1>1, TypeParts, LoadTypes
<1> QED
  BY <1>1, <1>2, TypeParts, TypePartsNext, TypesKept, RoomKept

\* An event puts its frame into the list and the index.
LEMMA DeliverTypes == ASSUME TypeOK, Room, Deliver PROVE TypeOK' /\ Room'
<1> DEFINE e == Head(down)
           Told == [type : {"frame", "alert"}, id : Logged]
<1>1. /\ log' = log /\ stamped' = stamped /\ now' = now /\ faults' = faults
      /\ net' = net /\ srv' = srv /\ got' = got /\ down' = Tail(down) /\ down # << >>
      /\ selected' = selected /\ clicks' = clicks
      /\ Upsert({e.id}) \/ UNCHANGED <<listVars, details>>
      /\ UNCHANGED <<subVars, filter, since, loads, repairs>>
  BY DEF Deliver, serverVars
<1>2. down \in Seq(Told)
  BY TypeParts DEF ConnTyped
<1>3. e.id \in Logged /\ Tail(down) \in Seq(Told)
  <2>1. PICK s : s = down
    OBVIOUS
  <2>2. s \in Seq(Told) /\ s # << >>
    BY <1>1, <1>2, <2>1
  <2>3. \A x \in Told : x.id \in Logged
    OBVIOUS
  <2> HIDE DEF Told
  <2>4. Head(s) \in Told /\ Tail(s) \in Seq(Told)
    BY <2>2
  <2> QED
    BY <2>1, <2>3, <2>4
<1>4. Logged' = Logged
  BY <1>1, TypesKept
<1>5. ConnTyped'
  BY <1>1, <1>3, <1>4, TypeParts DEF ConnTyped
<1> HIDE DEF e
<1>6. ListTyped' /\ details' \subseteq Logged'
  <2>1. CASE Upsert({e.id})
    <3>1. {e.id} \subseteq Logged
      BY <1>3
    <3> QED
      BY <1>1, <2>1, <3>1, TypeParts, UpsertTypes
  <2>2. CASE UNCHANGED <<listVars, details>>
    BY <1>1, <1>4, <2>2, TypeParts, TypesKept DEF ClicksTyped
  <2> QED
    BY <1>1, <2>1, <2>2
<1>7. ClicksTyped'
  BY <1>1, <1>4, <1>6, TypeParts DEF ClicksTyped
<1> QED
  BY <1>1, <1>5, <1>6, <1>7, TypeParts, TypePartsNext, TypesKept, RoomKept

\* The page that a query returns is a page of logged frames, each once.
LEMMA PageHolds ==
  ASSUME ServerTyped, NEW only
  PROVE  /\ Query(Listable(only), 0, PageSize) \in Seq(Logged)
         /\ Once(Query(Listable(only), 0, PageSize))
<1> DEFINE S == Listable(only)
<1>1. S \subseteq Logged /\ log \in Seq(Frame) /\ PageSize \in Nat /\ 0 \in Nat
  BY StreamAssumption DEF ServerTyped, Listable
<1> HIDE DEF S
<1>2. Query(S, 0, PageSize) \in Seq(S) /\ Once(Query(S, 0, PageSize))
  BY <1>1, QueryHolds
<1>3. Query(S, 0, PageSize) \in Seq(Logged)
  BY <1>1, <1>2, Widened
<1> QED
  BY <1>2, <1>3 DEF S

\* The page of a snapshot is read from the log.
LEMMA SnapshotTypes ==
  ASSUME TypeOK, Room, NEW k \in DOMAIN loads, Snapshot(k) PROVE TypeOK' /\ Room'
<1> DEFINE page == Query(Listable(loads[k].only), 0, PageSize)
<1>1. /\ log' = log /\ stamped' = stamped /\ now' = now /\ faults' = faults
      /\ loads' = [loads EXCEPT ![k].answered = TRUE, ![k].page = page]
      /\ UNCHANGED <<connVars, subVars, filter, listVars, since, repairs, clickVars>>
  BY DEF Snapshot, serverVars
<1>2. page \in Seq(Logged)
  BY TypeParts, PageHolds
<1> HIDE DEF page
<1>3. LoadsTyped'
  <2>1. loads \in Seq(LoadCall)
    BY TypeParts DEF LoadsTyped
  <2>2. \A x \in LoadCall : [x EXCEPT !.answered = TRUE, !.page = page] \in LoadCall
    BY <1>2 DEF LoadCall
  <2>3. PICK s : s = loads
    OBVIOUS
  <2>4. s \in Seq(LoadCall) /\ k \in DOMAIN s /\ s[k] \in LoadCall
    BY <2>1, <2>3
  <2>5. PICK x : x = [s[k] EXCEPT !.answered = TRUE, !.page = page]
    OBVIOUS
  <2>6. x \in LoadCall
    BY <2>2, <2>4, <2>5
  <2>7. [s EXCEPT ![k] = x] \in Seq(LoadCall)
    BY <2>4, <2>6
  <2>8. loads' = [s EXCEPT ![k] = x]
    BY <1>1, <2>3, <2>5
  <2>9. LoadCall' = LoadCall
    BY <1>1, TypesKept DEF LoadCall
  <2> QED
    BY <2>7, <2>8, <2>9 DEF LoadsTyped
<1> QED
  BY <1>1, <1>3, TypeParts, TypePartsNext, TypesKept, RoomKept

\* A snapshot replaces the list, if it is not out of date.
LEMMA LoadDoneTypes ==
  ASSUME TypeOK, Room, NEW k \in DOMAIN loads, LoadDone(k) PROVE TypeOK' /\ Room'
<1>1. /\ log' = log /\ stamped' = stamped /\ now' = now /\ faults' = faults
      /\ loads' = RemoveAt(loads, k) /\ since' = Cleared(loads[k].clears)
      /\ \/ frames' = Kept(loads[k].page, Matching(filter)) /\ byId' = ToSet(frames')
         \/ UNCHANGED listVars
      /\ UNCHANGED <<connVars, subVars, filter, repairs, clickVars>>
  BY DEF LoadDone, serverVars
<1>2. LoadsTyped'
  BY <1>1, TypeParts, LoadGone
<1>3. SinceTyped'
  BY <1>1, TypeParts DEF SinceTyped, Cleared
<1>4. Logged' = Logged
  BY <1>1, TypesKept
<1>5. ListTyped'
  <2>1. CASE frames' = Kept(loads[k].page, Matching(filter)) /\ byId' = ToSet(frames')
    <3>1. PICK p : p = loads[k].page
      OBVIOUS
    <3>2. p \in Seq(Logged)
      <4>1. loads[k] \in LoadCall
        BY TypeParts DEF LoadsTyped
      <4> QED
        BY <3>1, <4>1 DEF LoadCall
    <3>3. Kept(p, Matching(filter)) \in Seq(Logged)
      BY <3>2, KeptHolds
    <3>4. \A s \in Seq(Logged) : ToSet(s) \subseteq Logged
      BY DEF ToSet
    <3>5. frames' \in Seq(Logged)
      BY <2>1, <3>1, <3>3
    <3>6. ToSet(frames') \subseteq Logged
      BY <3>4, <3>5
    <3> QED
      BY <1>4, <2>1, <3>5, <3>6 DEF ListTyped
  <2>2. CASE UNCHANGED listVars
    BY <1>1, <2>2, TypeParts, TypesKept
  <2> QED
    BY <1>1, <2>1, <2>2
<1> QED
  BY <1>1, <1>2, <1>3, <1>5, TypeParts, TypePartsNext, TypesKept, RoomKept

\* A snapshot that fails is forgotten.
LEMMA LoadFailsTypes ==
  ASSUME TypeOK, Room, NEW k \in DOMAIN loads, LoadFails(k) PROVE TypeOK' /\ Room'
<1>1. /\ log' = log /\ stamped' = stamped /\ now' = now
      /\ faults < MaxFaults /\ faults' = faults + 1
      /\ loads' = RemoveAt(loads, k) /\ since' = Cleared(loads[k].clears)
      /\ UNCHANGED <<connVars, subVars, filter, listVars, repairs, clickVars>>
  BY DEF LoadFails, serverVars
<1>2. LoadsTyped'
  BY <1>1, TypeParts, LoadGone
<1>3. SinceTyped'
  BY <1>1, TypeParts DEF SinceTyped, Cleared
<1>4. faults' \in 0..MaxFaults
  BY <1>1, TypeParts, StreamAssumption
<1> QED
  BY <1>1, <1>2, <1>3, <1>4, TypeParts, TypePartsNext, TypesKept, RoomKept

\* A count goes to the recovery that asked for it.
LEMMA CountPageHolds ==
  ASSUME TypeOK, NEW k \in DOMAIN repairs, CountPage(k)
  PROVE  LET r == repairs[k]
             x == [r EXCEPT !.asked = TRUE, !.counted = Due(r)]
         IN  /\ r \in RepairCall /\ x \in RepairCall
             /\ repairs' = [repairs EXCEPT ![k] = x] /\ ~r.whole
<1>1. PICK r : r = repairs[k]
  OBVIOUS
<1>2. r \in RepairCall
  BY <1>1, TypeParts DEF RepairsTyped
<1>3. Due(r) \subseteq Logged
  BY TypeParts, QueriesAsked
<1>4. PICK S : S = Due(r)
  OBVIOUS
<1>5. [r EXCEPT !.asked = TRUE, !.counted = S] \in RepairCall
  BY <1>2, <1>3, <1>4 DEF RepairCall
<1>6. repairs' = [repairs EXCEPT ![k] = [r EXCEPT !.asked = TRUE, !.counted = S]] /\ ~r.whole
  BY <1>1, <1>4 DEF CountPage
<1> QED
  BY <1>1, <1>2, <1>4, <1>5, <1>6

\* A page of a recovery: where it ends, and what it holds.
LEMMA NextPageHolds ==
  ASSUME TypeOK, NEW k \in DOMAIN repairs, NextPage(k)
  PROVE  LET r == repairs[k]
             batch == Query(Due(r), r.offset, PageSize)
             x == [r EXCEPT !.items = @ \cup ToSet(batch), !.offset = @ + Len(batch),
                            !.whole = \/ batch = << >>
                                      \/ r.offset + Len(batch) >= Cardinality(r.counted),
                            !.asked = FALSE, !.counted = {}, !.slipped = Due(r) # r.counted]
         IN  /\ r \in RepairCall
             /\ batch \in Seq(Due(r)) /\ Len(batch) <= PageSize
             /\ ToSet(batch) \subseteq Logged
             /\ r.offset + Len(batch) \in 0..MaxFrames
             /\ repairs' = [repairs EXCEPT ![k] = x] /\ x \in RepairCall /\ ~r.whole /\ r.asked
<1> DEFINE r == repairs[k]
           batch == Query(Due(r), r.offset, PageSize)
           whole == batch = << >> \/ r.offset + Len(batch) >= Cardinality(r.counted)
           slips == Due(r) # r.counted
           x == [r EXCEPT !.items = @ \cup ToSet(batch), !.offset = @ + Len(batch),
                          !.whole = whole, !.asked = FALSE, !.counted = {}, !.slipped = slips]
<1>1. /\ repairs' = [repairs EXCEPT ![k].items = @ \cup ToSet(batch),
                                    ![k].offset = @ + Len(batch), ![k].whole = whole,
                                    ![k].asked = FALSE, ![k].counted = {},
                                    ![k].slipped = slips]
      /\ ~r.whole /\ r.asked
  BY DEF NextPage
<1>2. repairs' = [repairs EXCEPT ![k] = x]
  BY <1>1, ZenonT(40)
<1>3. repairs \in Seq(RepairCall)
  BY TypeParts DEF RepairsTyped
<1>4. r \in RepairCall
  BY <1>3
<1>5. /\ Due(r) \subseteq Logged /\ log \in Seq(Frame) /\ PageSize \in Nat /\ MaxFrames \in Nat
      /\ Len(log) \in Nat /\ Len(log) <= MaxFrames
  BY TypeParts, QueriesAsked, TimesOf, StreamAssumption DEF ServerTyped
<1>6. r.offset \in Nat /\ r.offset <= MaxFrames
  BY <1>4, <1>5 DEF RepairCall
<1>7. /\ batch \in Seq(Due(r)) /\ Len(batch) <= PageSize
      /\ \A n \in 1..Len(batch) : r.offset + n \in 1..Len(Descending(Due(r)))
      /\ ToSet(batch) \subseteq Due(r)
  <2>1. PICK S, a : S = Due(r) /\ a = r.offset
    OBVIOUS
  <2>2. S \subseteq Logged /\ a \in Nat
    BY <1>5, <1>6, <2>1
  <2>3. /\ Query(S, a, PageSize) \in Seq(S) /\ Len(Query(S, a, PageSize)) <= PageSize
        /\ \A n \in 1..Len(Query(S, a, PageSize)) : a + n \in 1..Len(Descending(S))
        /\ ToSet(Query(S, a, PageSize)) \subseteq S
    BY <1>5, <2>2, QueryHolds
  <2> QED
    BY <2>1, <2>3
<1>8. Len(Descending(Due(r))) \in Nat /\ Len(Descending(Due(r))) <= Len(log)
  <2>1. PICK S : S = Due(r)
    OBVIOUS
  <2>2. S \subseteq Logged
    BY <1>5, <2>1
  <2>3. IsFiniteSet(S) /\ Cardinality(S) = Len(Descending(S))
    BY <1>5, <2>2, PlaceIsRank
  <2>4. IsFiniteSet(1..Len(log)) /\ Cardinality(1..Len(log)) = Len(log)
    <3>1. PICK n \in Nat : n = Len(log)
      BY <1>5
    <3>2. IsFiniteSet(1..n) /\ Cardinality(1..n) = IF 1 > n THEN 0 ELSE n - 1 + 1
      BY FS_Interval
    <3>3. (IF 1 > n THEN 0 ELSE n - 1 + 1) = n
      OBVIOUS
    <3> QED
      BY <3>1, <3>2, <3>3
  <2>5. Cardinality(S) <= Cardinality(1..Len(log))
    BY <2>2, <2>4, FS_Subset DEF Logged
  <2>6. Cardinality(S) \in Nat
    BY <2>3, FS_CardinalityType
  <2> QED
    BY <2>1, <2>3, <2>4, <2>5, <2>6
<1> HIDE DEF r, batch
<1>9. r.offset + Len(batch) \in 0..MaxFrames
  <2>1. Len(batch) \in Nat
    BY <1>7
  <2>2. CASE Len(batch) = 0
    BY <1>6, <2>2
  <2>3. CASE Len(batch) # 0
    <3>1. PICK n, m : n = Len(batch) /\ m = Len(Descending(Due(r)))
      OBVIOUS
    <3>2. n \in 1..n /\ n \in Nat
      BY <2>1, <2>3, <3>1
    <3>3. r.offset + n \in 1..m
      BY <1>7, <3>1, <3>2
    <3>4. m \in Nat /\ m <= MaxFrames
      BY <1>5, <1>8, <3>1
    <3> QED
      BY <1>5, <1>6, <3>1, <3>2, <3>3, <3>4
  <2> QED
    BY <2>2, <2>3
<1>10. x \in RepairCall
  <2>1. PICK off : off = r.offset + Len(batch)
    OBVIOUS
  <2>2. r.items \cup ToSet(batch) \subseteq Logged
    BY <1>4, <1>5, <1>7 DEF RepairCall
  <2>3. off \in 0..MaxFrames /\ whole \in BOOLEAN /\ slips \in BOOLEAN
    BY <1>9, <2>1
  <2>4. x = [r EXCEPT !.items = r.items \cup ToSet(batch), !.offset = off, !.whole = whole,
                      !.asked = FALSE, !.counted = {}, !.slipped = slips]
    BY <2>1
  <2> HIDE DEF whole, slips, x
  <2> QED
    BY <1>4, <2>2, <2>3, <2>4 DEF RepairCall
<1>11. ToSet(batch) \subseteq Logged
  BY <1>5, <1>7
<1> HIDE DEF x
<1> QED
  BY <1>1, <1>2, <1>4, <1>7, <1>9, <1>10, <1>11 DEF r, batch, x, whole, slips

\* A recovery gets a count, or takes a page and moves its offset by it.
LEMMA RepairGoesOn ==
  ASSUME TypeOK, log' = log, NEW k \in DOMAIN repairs, NEW x \in RepairCall,
         repairs' = [repairs EXCEPT ![k] = x]
  PROVE  RepairsTyped'
<1>1. PICK s : s = repairs
  OBVIOUS
<1>2. s \in Seq(RepairCall) /\ k \in DOMAIN s
  BY <1>1, TypeParts DEF RepairsTyped
<1>3. [s EXCEPT ![k] = x] \in Seq(RepairCall)
  BY <1>2
<1>4. RepairCall' = RepairCall
  BY TypesKept DEF RepairCall
<1> QED
  BY <1>1, <1>3, <1>4 DEF RepairsTyped

LEMMA CountPageTypes ==
  ASSUME TypeOK, Room, NEW k \in DOMAIN repairs, CountPage(k) PROVE TypeOK' /\ Room'
<1>1. /\ log' = log /\ stamped' = stamped /\ now' = now /\ faults' = faults
      /\ UNCHANGED <<connVars, subVars, filter, listVars, since, loads, clickVars>>
  BY DEF CountPage, serverVars
<1>2. PICK x \in RepairCall : repairs' = [repairs EXCEPT ![k] = x]
  BY CountPageHolds
<1>3. RepairsTyped'
  BY <1>1, <1>2, RepairGoesOn
<1> QED
  BY <1>1, <1>3, TypeParts, TypePartsNext, TypesKept, RoomKept

LEMMA NextPageTypes ==
  ASSUME TypeOK, Room, NEW k \in DOMAIN repairs, NextPage(k) PROVE TypeOK' /\ Room'
<1>1. /\ log' = log /\ stamped' = stamped /\ now' = now /\ faults' = faults
      /\ UNCHANGED <<connVars, subVars, filter, listVars, since, loads, clickVars>>
  BY DEF NextPage, serverVars
<1>2. PICK x \in RepairCall : repairs' = [repairs EXCEPT ![k] = x]
  BY NextPageHolds, ZenonT(40)
<1>3. RepairsTyped'
  BY <1>1, <1>2, RepairGoesOn
<1> QED
  BY <1>1, <1>3, TypeParts, TypePartsNext, TypesKept, RoomKept

\* A recovery that is complete puts its frames into the list.
LEMMA RecoveryDoneTypes ==
  ASSUME TypeOK, Room, NEW k \in DOMAIN repairs, RecoveryDone(k) PROVE TypeOK' /\ Room'
<1>1. /\ log' = log /\ stamped' = stamped /\ now' = now /\ faults' = faults
      /\ selected' = selected /\ clicks' = clicks
      /\ Upsert(repairs[k].items) /\ since' = Undef /\ repairs' = RemoveAt(repairs, k)
      /\ UNCHANGED <<connVars, subVars, filter, loads>>
  BY DEF RecoveryDone, serverVars
<1>2. repairs[k].items \subseteq Logged
  <2>1. repairs[k] \in RepairCall
    BY TypeParts DEF RepairsTyped
  <2> QED
    BY <2>1 DEF RepairCall
<1>3. ListTyped' /\ details' \subseteq Logged'
  BY <1>1, <1>2, TypeParts, UpsertTypes
<1>4. ClicksTyped'
  BY <1>1, <1>3, TypeParts, TypesKept DEF ClicksTyped
<1>5. RepairsTyped'
  BY <1>1, TypeParts, RepairGone
<1>6. SinceTyped'
  BY <1>1 DEF SinceTyped
<1> QED
  BY <1>1, <1>3, <1>4, <1>5, <1>6, TypeParts, TypePartsNext, TypesKept, RoomKept

\* One that fails is given up.
LEMMA RecoveryFailsTypes ==
  ASSUME TypeOK, Room, NEW k \in DOMAIN repairs, RecoveryFails(k) PROVE TypeOK' /\ Room'
<1>1. /\ log' = log /\ stamped' = stamped /\ now' = now
      /\ faults < MaxFaults /\ faults' = faults + 1
      /\ repairs' = RemoveAt(repairs, k)
      /\ UNCHANGED <<connVars, subVars, filter, listVars, since, loads, clickVars>>
  BY DEF RecoveryFails, serverVars
<1>2. RepairsTyped'
  BY <1>1, TypeParts, RepairGone
<1>3. faults' \in 0..MaxFaults
  BY <1>1, TypeParts, StreamAssumption
<1> QED
  BY <1>1, <1>2, <1>3, TypeParts, TypePartsNext, TypesKept, RoomKept

\* The steps of the user, and of the details.
LEMMA SelectTypes ==
  ASSUME TypeOK, Room, NEW i \in ToSet(frames), SelectFrame(i) PROVE TypeOK' /\ Room'
<1>1. /\ log' = log /\ stamped' = stamped /\ now' = now /\ faults' = faults
      /\ clicks < MaxClicks /\ clicks' = clicks + 1
      /\ selected' = {i} /\ details' = details \cup {i}
      /\ UNCHANGED <<connVars, subVars, filter, listVars, since, loads, repairs>>
  BY DEF SelectFrame, serverVars
<1>2. i \in Logged
  BY TypeParts DEF ListTyped, ToSet
<1>3. clicks' \in 0..MaxClicks
  BY <1>1, TypeParts, StreamAssumption DEF ClicksTyped
<1>4. ClicksTyped'
  BY <1>1, <1>2, <1>3, TypeParts, TypesKept DEF ClicksTyped
<1> QED
  BY <1>1, <1>4, TypeParts, TypePartsNext, TypesKept, RoomKept

\* Details arrive, ...
LEMMA DetailDoneTypes ==
  ASSUME TypeOK, Room, NEW i \in details, DetailDone(i) PROVE TypeOK' /\ Room'
<1>1. /\ log' = log /\ stamped' = stamped /\ now' = now /\ faults' = faults
      /\ byId' = byId \cup {i} /\ details' = details \ {i}
      /\ frames' = frames /\ selected' = selected /\ clicks' = clicks
      /\ UNCHANGED <<connVars, subVars, filter, since, loads, repairs>>
  BY DEF DetailDone, serverVars
<1>2. i \in Logged
  BY TypeParts DEF ClicksTyped
<1>3. ListTyped' /\ ClicksTyped'
  BY <1>1, <1>2, TypeParts, TypesKept DEF ListTyped, ClicksTyped
<1> QED
  BY <1>1, <1>3, TypeParts, TypePartsNext, TypesKept, RoomKept

\* ... or not.
LEMMA DetailFailsTypes ==
  ASSUME TypeOK, Room, NEW i \in details, DetailFails(i) PROVE TypeOK' /\ Room'
<1>1. /\ log' = log /\ stamped' = stamped /\ now' = now
      /\ faults < MaxFaults /\ faults' = faults + 1
      /\ details' = details \ {i} /\ selected' = selected /\ clicks' = clicks
      /\ UNCHANGED <<connVars, subVars, filter, listVars, since, loads, repairs>>
  BY DEF DetailFails, serverVars
<1>2. ClicksTyped'
  BY <1>1, TypeParts, TypesKept DEF ClicksTyped
<1>3. faults' \in 0..MaxFaults
  BY <1>1, TypeParts, StreamAssumption
<1> QED
  BY <1>1, <1>2, <1>3, TypeParts, TypePartsNext, TypesKept, RoomKept

\* Another filter asks for another snapshot.
LEMMA FilterTypes ==
  ASSUME TypeOK, Room, NEW f \in Filters, ChangeFilter(f) PROVE TypeOK' /\ Room'
<1>1. /\ log' = log /\ stamped' = stamped /\ now' = now /\ faults' = faults
      /\ clicks < MaxClicks /\ clicks' = clicks + 1
      /\ selected' = selected /\ details' = details
      /\ filter' = f /\ frames' = Kept(frames, Matching(f)) /\ byId' = ToSet(frames')
      /\ loads' = Load(FALSE)
      /\ UNCHANGED <<connVars, subVars, since, repairs>>
  BY DEF ChangeFilter, serverVars
<1>2. LoadsTyped'
  BY <1>1, TypeParts, LoadTypes
<1>3. clicks' \in 0..MaxClicks
  BY <1>1, TypeParts, StreamAssumption DEF ClicksTyped
<1>4. ClicksTyped'
  BY <1>1, <1>3, TypeParts, TypesKept DEF ClicksTyped
<1>5. ListTyped'
  <2>1. PICK p : p = frames
    OBVIOUS
  <2>2. p \in Seq(Logged)
    BY <2>1, TypeParts DEF ListTyped
  <2>3. Kept(p, Matching(f)) \in Seq(Logged)
    BY <2>2, KeptHolds
  <2>4. \A s \in Seq(Logged) : ToSet(s) \subseteq Logged
    BY DEF ToSet
  <2>5. frames' \in Seq(Logged)
    BY <1>1, <2>1, <2>3
  <2>6. ToSet(frames') \subseteq Logged
    BY <2>4, <2>5
  <2> QED
    BY <1>1, <2>5, <2>6, TypesKept DEF ListTyped
<1> QED
  BY <1>1, <1>2, <1>4, <1>5, TypeParts, TypePartsNext, TypesKept, RoomKept

\* A vanished node leaves the filter.
LEMMA VanishTypes == ASSUME TypeOK, Room, NodeVanishes PROVE TypeOK' /\ Room'
<1>1. /\ log' = log /\ stamped' = stamped /\ now' = now /\ faults' = faults
      /\ filter' = [filter EXCEPT !.node = AnyNode]
      /\ UNCHANGED <<connVars, subVars, listVars, since, loads, repairs, clickVars>>
  BY DEF NodeVanishes, serverVars
<1>2. filter' \in Filters
  BY <1>1, TypeParts, StreamAssumption
<1> QED
  BY <1>1, <1>2, TypeParts, TypePartsNext, TypesKept, RoomKept

\* Nothing happens.
LEMMA StutterTypes == ASSUME TypeOK, Room, UNCHANGED vars PROVE TypeOK' /\ Room'
<1>1. /\ log' = log /\ stamped' = stamped /\ now' = now /\ faults' = faults /\ filter' = filter
      /\ UNCHANGED <<connVars, subVars, listVars, since, loads, repairs, clickVars>>
  BY DEF vars, serverVars
<1> QED
  BY <1>1, TypeParts, TypePartsNext, TypesKept, RoomKept

\* Every step keeps the types and the room.
LEMMA NextTypes == ASSUME TypeOK, Room, [Next]_vars PROVE TypeOK' /\ Room'
<1>1. CASE ServerStep
  BY <1>1, CommitTypes, AcceptTypes, TickTypes DEF ServerStep
<1>2. CASE Environment
  BY <1>2, ClockTypes, ArrivalTypes, BreakTypes, VanishTypes DEF Environment
<1>3. CASE Subscription
  BY <1>3, ReopenTypes, OpenTypes, ErrorTypes, PollTypes, DeliverTypes DEF Subscription
<1>4. CASE Answers
  <2>1. CASE \E k \in DOMAIN loads : Snapshot(k) \/ LoadDone(k) \/ LoadFails(k)
    BY <2>1, SnapshotTypes, LoadDoneTypes, LoadFailsTypes
  <2>2. CASE \E k \in DOMAIN repairs : CountPage(k) \/ NextPage(k) \/ RecoveryDone(k) \/ RecoveryFails(k)
    BY <2>2, CountPageTypes, NextPageTypes, RecoveryDoneTypes, RecoveryFailsTypes
  <2>3. CASE \E i \in details : DetailDone(i) \/ DetailFails(i)
    BY <2>3, DetailDoneTypes, DetailFailsTypes
  <2> QED
    BY <1>4, <2>1, <2>2, <2>3 DEF Answers
<1>5. CASE User
  BY <1>5, SelectTypes, FilterTypes DEF User
<1>6. CASE UNCHANGED vars
  BY <1>6, StutterTypes
<1> QED
  BY <1>1, <1>2, <1>3, <1>4, <1>5, <1>6 DEF Next

\* Every variable keeps its type, for any frames, filters and bounds.
THEOREM TypesHold == Spec => []TypeOK
<1>1. Init => TypeOK /\ Room
  BY InitTypes
<1>2. TypeOK /\ Room /\ [Next]_vars => (TypeOK /\ Room)'
  BY NextTypes
<1> QED
  BY <1>1, <1>2, PTL DEF Spec

-----------------------------------------------------------------------------
(* The list.                                                               *)

\* Two sequences without a common member, one behind the other.
LEMMA JoinedOnce ==
  ASSUME NEW X, NEW s \in Seq(X), NEW t \in Seq(X)
  PROVE  /\ ToSet(s \o t) = ToSet(s) \cup ToSet(t)
         /\ Once(s) /\ Once(t) /\ ToSet(s) \cap ToSet(t) = {} => Once(s \o t)
<1> DEFINE b == s \o t
           m == Len(s)
           n == Len(t)
<1>1. /\ b \in Seq(X) /\ Len(b) = m + n
      /\ \A k \in 1..m : b[k] = s[k]
      /\ \A k \in 1..n : b[m + k] = t[k]
  BY Concatenated
<1>2. /\ m \in Nat /\ n \in Nat /\ DOMAIN s = 1..m /\ DOMAIN t = 1..n
  OBVIOUS
<1> HIDE DEF b, m, n
<1>3. DOMAIN b = 1..m + n
  BY <1>1
<1>4. \A k \in 1..m + n : k \in 1..m \/ (k - m \in 1..n /\ m + (k - m) = k)
  BY <1>2
<1>5. \A k \in 1..m : k \in 1..m + n
  BY <1>2
<1>6. \A k \in 1..n : m + k \in 1..m + n
  BY <1>2
<1>7. ToSet(b) = ToSet(s) \cup ToSet(t)
  <2>1. ASSUME NEW k \in 1..m + n PROVE b[k] \in ToSet(s) \cup ToSet(t)
    <3>1. CASE k \in 1..m
      BY <1>1, <1>2, <3>1 DEF ToSet
    <3>2. CASE k - m \in 1..n /\ m + (k - m) = k
      <4>1. b[k] = t[k - m]
        BY <1>1, <3>2
      <4> QED
        BY <1>2, <3>2, <4>1 DEF ToSet
    <3> QED
      BY <1>4, <3>1, <3>2
  <2>2. \A k \in 1..m : s[k] \in ToSet(b)
    BY <1>1, <1>3, <1>5 DEF ToSet
  <2>3. \A k \in 1..n : t[k] \in ToSet(b)
    BY <1>1, <1>3, <1>6 DEF ToSet
  <2> QED
    BY <1>2, <1>3, <2>1, <2>2, <2>3 DEF ToSet
<1>8. ASSUME Once(s), Once(t), ToSet(s) \cap ToSet(t) = {},
             NEW k \in 1..m + n, NEW l \in 1..m + n, b[k] = b[l]
      PROVE  k = l
  <2>1. CASE k \in 1..m /\ l \in 1..m
    BY <1>1, <1>2, <1>8, <2>1 DEF Once
  <2>2. ASSUME NEW i \in 1..m, NEW j \in 1..n, b[i] = b[m + j] PROVE FALSE
    <3>1. s[i] = t[j]
      BY <1>1, <2>2
    <3>2. s[i] \in ToSet(s) /\ t[j] \in ToSet(t)
      BY <1>2 DEF ToSet
    <3> QED
      BY <1>8, <3>1, <3>2
  <2>3. CASE k \in 1..m /\ l \notin 1..m
    BY <1>4, <1>8, <2>2, <2>3
  <2>4. CASE k \notin 1..m /\ l \in 1..m
    BY <1>4, <1>8, <2>2, <2>4
  <2>5. CASE k \notin 1..m /\ l \notin 1..m
    <3>1. k - m \in 1..n /\ m + (k - m) = k /\ l - m \in 1..n /\ m + (l - m) = l
      BY <1>4, <2>5
    <3>2. t[k - m] = t[l - m]
      BY <1>1, <1>8, <3>1
    <3>3. k - m = l - m
      BY <1>2, <1>8, <3>1, <3>2 DEF Once
    <3> QED
      BY <1>2, <3>3
  <2> QED
    BY <2>1, <2>3, <2>4, <2>5
<1> QED
  BY <1>3, <1>7, <1>8 DEF b, Once

\* A frame is judged once and for all.
LEMMA MatchStays ==
  ASSUME NEW i, log'[i] = log[i], filter' = filter
  PROVE  Matches(filter, i)' <=> Matches(filter, i)
BY DEF Matches, Judgement

\* A list that is left alone is right, whatever enters the index.
LEMMA ListStays ==
  ASSUME ListTyped, ListHolds, frames' = frames, byId \subseteq byId', filter' = filter,
         \A i \in Logged : log'[i] = log[i]
  PROVE  ListHolds'
<1>1. ShownOnce'
  BY DEF ListHolds, ShownOnce
<1>2. ASSUME NEW i \in ToSet(frames) PROVE Matches(filter, i)'
  <2>1. i \in Logged
    BY DEF ListTyped, ToSet
  <2>2. Matches(filter, i)
    BY DEF ListHolds, FilterHolds
  <2> QED
    BY <2>1, <2>2, MatchStays
<1> QED
  BY <1>1, <1>2 DEF ListHolds, FilterHolds

\* What the list is after frames were put into it.
LEMMA UpsertHolds ==
  ASSUME ServerTyped, ListTyped, ListHolds, NEW S, S \subseteq Logged, Upsert(S),
         log' = log, filter' = filter
  PROVE  /\ ListHolds'
         /\ \A i \in S : Matches(filter, i) /\ i \in ToSet(frames) => i \in ToSet(frames')
         /\ \A i \in S : Matches(filter, i) /\ i \notin byId => i \in ToSet(frames')
<1> DEFINE fit == {i \in S : Matches(filter, i)}
           keep == Logged \ (byId \cap (S \ fit))
           new == Descending(fit \ byId)
           old == Kept(frames, keep)
<1>1. frames' = new \o old /\ byId' = (byId \ S) \cup fit
  BY DEF Upsert
<1>2. fit \subseteq S /\ \A i \in fit : Matches(filter, i)
  OBVIOUS
<1>3. \A i \in S : Matches(filter, i) => i \in fit
  OBVIOUS
<1> HIDE DEF fit
<1>4. log \in Seq(Frame) /\ frames \in Seq(Logged) /\ fit \ byId \subseteq Logged
  BY <1>2 DEF ServerTyped, ListTyped
<1>5. new \in Seq(Logged) /\ ToSet(new) = fit \ byId /\ Once(new)
  <2>1. PICK R : R = fit \ byId
    OBVIOUS
  <2>2. Descending(R) \in Seq(R) /\ ToSet(Descending(R)) = R /\ Once(Descending(R)) /\ R \subseteq Logged
    BY <1>4, <2>1, DescendingHolds
  <2>3. Descending(R) \in Seq(Logged)
    BY <2>2, Widened
  <2> QED
    BY <2>1, <2>2, <2>3
<1>6. ToSet(frames) \subseteq byId /\ Once(frames) /\ ToSet(frames) \subseteq Logged
  BY <1>4 DEF ListHolds, ShownOnce, Once, ToSet
<1>7. old \in Seq(Logged) /\ ToSet(old) = ToSet(frames) \cap keep /\ Once(old)
  <2>1. PICK s, R : s = frames /\ R = keep
    OBVIOUS
  <2>2. s \in Seq(Logged) /\ Once(s)
    BY <1>4, <1>6, <2>1
  <2>3. Kept(s, R) \in Seq(Logged) /\ ToSet(Kept(s, R)) = ToSet(s) \cap R /\ Once(Kept(s, R))
    BY <2>2, KeptHolds
  <2> QED
    BY <2>1, <2>3
<1> HIDE DEF new, old
<1>8. ToSet(new) \cap ToSet(old) = {}
  BY <1>5, <1>6, <1>7
<1>9. frames' \in Seq(Logged) /\ ToSet(frames') = ToSet(new) \cup ToSet(old) /\ Once(frames')
  <2>1. PICK a, b : a = new /\ b = old
    OBVIOUS
  <2>2. a \in Seq(Logged) /\ b \in Seq(Logged) /\ Once(a) /\ Once(b) /\ ToSet(a) \cap ToSet(b) = {}
    BY <1>5, <1>7, <1>8, <2>1
  <2>3. a \o b \in Seq(Logged) /\ ToSet(a \o b) = ToSet(a) \cup ToSet(b) /\ Once(a \o b)
    BY <2>2, JoinedOnce, JoinedLength
  <2> QED
    BY <1>1, <2>1, <2>3
<1>10. ShownOnce'
  <2>1. ToSet(frames') \subseteq byId'
    BY <1>1, <1>2, <1>5, <1>6, <1>7, <1>9 DEF keep
  <2>2. Once(frames)'
    BY <1>9 DEF Once
  <2> QED
    BY <2>1, <2>2 DEF ShownOnce, Once
<1>11. FilterHolds'
  <2>1. ASSUME NEW i \in ToSet(frames') PROVE Matches(filter, i)'
    <3>1. Matches(filter, i)
      <4>1. CASE i \in ToSet(new)
        BY <1>2, <1>5, <4>1
      <4>2. CASE i \in ToSet(frames)
        BY <4>2 DEF ListHolds, FilterHolds
      <4> QED
        BY <1>7, <1>9, <4>1, <4>2
    <3> QED
      BY <3>1, MatchStays
  <2> QED
    BY <2>1 DEF FilterHolds
<1>12. \A i \in fit : i \in ToSet(frames) => i \in ToSet(frames')
  <2> TAKE i \in fit
  <2>1. i \in ToSet(frames) => i \in keep
    BY <1>6 DEF keep
  <2> QED
    BY <1>7, <1>9, <2>1
<1>13. \A i \in fit : i \notin byId => i \in ToSet(frames')
  BY <1>5, <1>9
<1> QED
  BY <1>3, <1>10, <1>11, <1>12, <1>13 DEF ListHolds

\* A list that is what a filter leaves of frames that are listed once.
LEMMA FilteredHolds ==
  ASSUME NEW p \in Seq(Logged), Once(p), log' = log,
         frames' = Kept(p, Matching(filter')), byId' = ToSet(frames')
  PROVE  ListHolds'
<1>1. PICK S : S = Matching(filter')
  OBVIOUS
<1>2. Once(Kept(p, S)) /\ ToSet(Kept(p, S)) = ToSet(p) \cap S
  BY KeptHolds
<1>3. Once(frames') /\ ToSet(frames') \subseteq S
  BY <1>1, <1>2
<1>4. \A i \in S : Matches(filter', i)
  BY <1>1 DEF Matching
<1>5. \A i : Matches(filter', i) <=> Matches(filter, i)'
  BY DEF Matches, Judgement
<1>6. FilterHolds'
  BY <1>3, <1>4, <1>5 DEF FilterHolds
<1>7. ShownOnce'
  BY <1>3 DEF ShownOnce, Once
<1> QED
  BY <1>6, <1>7 DEF ListHolds

\* An empty list shows nothing twice.
LEMMA InitLists == Init => ListHolds /\ PagesOnce
<1> SUFFICES ASSUME Init PROVE ListHolds /\ PagesOnce
  OBVIOUS
<1>1. frames = << >> /\ filter = Everything
  BY DEF Init
<1>2. ListHolds
  BY <1>1 DEF ListHolds, ShownOnce, FilterHolds, ToSet
<1>3. PagesOnce
  <2> DEFINE first == [current |-> TRUE, only |-> FALSE, answered |-> FALSE, page |-> << >>,
                       clears |-> FALSE]
  <2>1. loads = << first >>
    BY DEF Init
  <2>2. first.page = << >>
    OBVIOUS
  <2> HIDE DEF first
  <2>3. \A k \in DOMAIN << first >> : << first >>[k] = first
    OBVIOUS
  <2>4. \A k \in DOMAIN loads : loads[k].page = << >>
    BY <2>1, <2>2, <2>3
  <2> QED
    BY <2>4 DEF PagesOnce, Once
<1> QED
  BY <1>2, <1>3

\* Pages stay as they are: with the calls, ...
LEMMA PagesStay == ASSUME PagesOnce, loads' = loads PROVE PagesOnce'
BY DEF PagesOnce, Once

\* ... beside a new call, ...
LEMMA PagesOfLoad ==
  ASSUME LoadsTyped, PagesOnce, NEW c \in BOOLEAN, loads' = Load(c)
  PROVE  PagesOnce'
<1> DEFINE old == [k \in DOMAIN loads |-> [loads[k] EXCEPT !.current = FALSE]]
           new == [current |-> TRUE, only |-> filter'.judge = "violations", answered |-> FALSE,
                   page |-> << >>, clears |-> c]
           n == Len(loads)
<1>1. loads' = Append(old, new)
  BY DEF Load
<1>2. n \in Nat /\ DOMAIN loads = 1..n /\ \A k \in 1..n : loads[k] \in LoadCall
  BY DEF LoadsTyped
<1>3. \A x \in LoadCall : [x EXCEPT !.current = FALSE].page = x.page
  BY DEF LoadCall
<1>4. \A k \in 1..n : old[k].page = loads[k].page
  BY <1>2, <1>3
<1>5. new.page = << >>
  OBVIOUS
<1>6. \E X : old \in Seq(X) /\ new \in X /\ Len(old) = n
  <2> DEFINE X == {old[k] : k \in 1..n} \cup {new}
  <2>1. old = [k \in 1..n |-> old[k]]
    BY <1>2
  <2> HIDE DEF old, new, n
  <2>2. old \in [1..n -> X]
    BY <2>1
  <2>3. new \in X
    OBVIOUS
  <2> HIDE DEF X
  <2>4. old \in Seq(X) /\ Len(old) = n
    BY <1>2, <2>2
  <2> QED
    BY <2>3, <2>4
<1> HIDE DEF old, new, n
<1>7. /\ DOMAIN loads' = 1..n + 1 /\ loads'[n + 1] = new
      /\ \A k \in 1..n : loads'[k] = old[k]
  <2>1. PICK X : old \in Seq(X) /\ new \in X /\ Len(old) = n
    BY <1>6
  <2> QED
    BY <1>1, <1>2, <2>1
<1>8. ASSUME NEW k \in 1..n + 1 PROVE Once(loads'[k].page)
  <2>1. CASE k = n + 1
    BY <1>5, <1>7, <2>1 DEF Once
  <2>2. CASE k \in 1..n
    BY <1>2, <1>4, <1>7, <2>2 DEF PagesOnce
  <2> QED
    BY <1>2, <2>1, <2>2
<1> QED
  BY <1>7, <1>8 DEF PagesOnce, Once

\* ... and when a call is gone.
LEMMA PagesOfGone ==
  ASSUME LoadsTyped, PagesOnce, NEW k \in DOMAIN loads, loads' = RemoveAt(loads, k)
  PROVE  PagesOnce'
<1>1. PICK s : s = loads
  OBVIOUS
<1>2. s \in Seq(LoadCall) /\ k \in DOMAIN s /\ \A n \in DOMAIN s : Once(s[n].page)
  BY <1>1 DEF LoadsTyped, PagesOnce
<1>3. PICK r : r = RemoveAt(s, k)
  OBVIOUS
<1>4. /\ r \in Seq(LoadCall) /\ Len(r) = Len(s) - 1
      /\ \A n \in 1..Len(s) - 1 : r[n] = IF n < k THEN s[n] ELSE s[n + 1]
  BY <1>2, <1>3, RemovedAt
<1>5. DOMAIN s = 1..Len(s) /\ Len(s) \in Nat /\ DOMAIN r = 1..Len(s) - 1
  BY <1>2, <1>4
<1>6. ASSUME NEW n \in 1..Len(s) - 1 PROVE Once(r[n].page)
  <2>1. PICK m : m = IF n < k THEN n ELSE n + 1
    OBVIOUS
  <2>2. m \in 1..Len(s)
    BY <1>5, <2>1
  <2>3. r[n] = s[m]
    BY <1>4, <2>1
  <2> QED
    BY <1>2, <1>5, <2>2, <2>3
<1>7. loads' = r
  BY <1>1, <1>3
<1> QED
  BY <1>5, <1>6, <1>7 DEF PagesOnce, Once

\* Steps of the server and the connection leave list and calls alone.
LEMMA ServerLists ==
  ASSUME PInv, ServerStep \/ ClockTick \/ (\E k \in Kinds : FrameArrives(k)) \/ Break
  PROVE  ListHolds' /\ PagesOnce'
<1>1. UNCHANGED <<listVars, filter, loads>>
  BY DEF ServerStep, FrameCommitted, Accept, StreamTick, ClockTick, FrameArrives, Break
<1>2. \A i \in Logged : log'[i] = log[i]
  <2>1. CASE FrameCommitted
    BY <2>1, LogGrows, TypeParts DEF PInv
  <2>2. CASE ~FrameCommitted
    <3>1. log' = log
      BY <2>2 DEF ServerStep, Accept, StreamTick, ClockTick, FrameArrives, Break, serverVars
    <3> QED
      BY <3>1
  <2> QED
    BY <2>1, <2>2
<1> QED
  BY <1>1, <1>2, TypeParts, ListStays, PagesStay DEF PInv, listVars

\* So do these steps of the page, except for the calls.
LEMMA OtherLists ==
  ASSUME PInv, UNCHANGED <<log, filter, frames>>, byId \subseteq byId'
  PROVE  ListHolds'
BY TypeParts, ListStays DEF PInv

\* The steps of the subscription.
LEMMA SubscriptionLists == ASSUME PInv, Subscription PROVE ListHolds' /\ PagesOnce'
<1>1. CASE Reopen \/ OnError
  BY <1>1, OtherLists, PagesStay DEF Reopen, OnError, serverVars, listVars, PInv
<1>2. CASE OnOpen
  <2>1. ListHolds'
    BY <1>2, OtherLists DEF OnOpen, serverVars, listVars
  <2>2. UNCHANGED loads \/ loads' = Load(TRUE)
    BY <1>2 DEF OnOpen, BeginRecovery
  <2> QED
    BY <2>1, <2>2, TypeParts, PagesStay, PagesOfLoad DEF PInv
<1>3. CASE PollTick
  <2>1. ListHolds'
    BY <1>3, OtherLists DEF PollTick, serverVars, listVars
  <2>2. loads' = Load(FALSE)
    BY <1>3 DEF PollTick
  <2> QED
    BY <2>1, <2>2, TypeParts, PagesOfLoad DEF PInv
<1>4. CASE Deliver
  <2> DEFINE e == Head(down)
  <2>1. /\ log' = log /\ filter' = filter /\ loads' = loads /\ down # << >>
        /\ Upsert({e.id}) \/ UNCHANGED <<listVars, details>>
    BY <1>4 DEF Deliver, serverVars
  <2>2. {e.id} \subseteq Logged
    <3> DEFINE Told == [type : {"frame", "alert"}, id : Logged]
    <3>1. down \in Seq(Told)
      BY TypeParts DEF PInv, ConnTyped
    <3>2. \A x \in Told : x.id \in Logged
      OBVIOUS
    <3> HIDE DEF Told
    <3>3. PICK s : s = down
      OBVIOUS
    <3>4. Head(s) \in Told
      BY <2>1, <3>1, <3>3
    <3> QED
      BY <3>2, <3>3, <3>4
  <2> HIDE DEF e
  <2>3. CASE Upsert({e.id})
    BY <2>1, <2>2, <2>3, TypeParts, UpsertHolds, PagesStay DEF PInv
  <2>4. CASE UNCHANGED <<listVars, details>>
    BY <2>1, <2>4, OtherLists, PagesStay DEF PInv, listVars
  <2> QED
    BY <2>1, <2>3, <2>4
<1> QED
  BY <1>1, <1>2, <1>3, <1>4 DEF Subscription

\* The page of a snapshot shows a frame once.
LEMMA SnapshotLists ==
  ASSUME PInv, NEW k \in DOMAIN loads, Snapshot(k) PROVE ListHolds' /\ PagesOnce'
<1> DEFINE page == Query(Listable(loads[k].only), 0, PageSize)
<1>1. ListHolds'
  BY OtherLists DEF Snapshot, serverVars, listVars
<1>2. loads' = [loads EXCEPT ![k].answered = TRUE, ![k].page = page]
  BY DEF Snapshot
<1>3. Once(page)
  BY TypeParts, PageHolds DEF PInv
<1> HIDE DEF page
<1>4. \A n \in DOMAIN loads : loads[n] \in LoadCall
  BY TypeParts DEF LoadsTyped, PInv
<1>5. DOMAIN loads' = DOMAIN loads
  BY <1>2
<1>6. loads'[k].page = page /\ \A n \in DOMAIN loads : n # k => loads'[n] = loads[n]
  BY <1>2, <1>4 DEF LoadCall
<1>7. \A n \in DOMAIN loads' : Once(loads'[n].page)
  BY <1>3, <1>5, <1>6 DEF PInv, PagesOnce
<1> QED
  BY <1>1, <1>7 DEF PagesOnce, Once

\* What the filter leaves of a page replaces the list.
LEMMA LoadDoneLists ==
  ASSUME PInv, NEW k \in DOMAIN loads, LoadDone(k) PROVE ListHolds' /\ PagesOnce'
<1>1. /\ log' = log /\ filter' = filter /\ loads' = RemoveAt(loads, k)
      /\ \/ frames' = Kept(loads[k].page, Matching(filter)) /\ byId' = ToSet(frames')
         \/ UNCHANGED listVars
  BY DEF LoadDone, serverVars
<1>2. PagesOnce'
  BY <1>1, TypeParts, PagesOfGone DEF PInv
<1>3. CASE frames' = Kept(loads[k].page, Matching(filter)) /\ byId' = ToSet(frames')
  <2>1. PICK p : p = loads[k].page
    OBVIOUS
  <2>2. p \in Seq(Logged)
    <3>1. loads[k] \in LoadCall
      BY TypeParts DEF LoadsTyped, PInv
    <3> QED
      BY <2>1, <3>1 DEF LoadCall
  <2>3. Once(p)
    BY <2>1 DEF PInv, PagesOnce
  <2>4. frames' = Kept(p, Matching(filter'))
    BY <1>1, <1>3, <2>1 DEF Matching, Matches, Judgement
  <2> QED
    BY <1>1, <1>2, <1>3, <2>2, <2>3, <2>4, FilteredHolds
<1>4. CASE UNCHANGED listVars
  BY <1>1, <1>2, <1>4, OtherLists DEF listVars
<1> QED
  BY <1>1, <1>3, <1>4

\* Answers to the page's requests, in any order.
LEMMA AnswerLists == ASSUME PInv, Answers PROVE ListHolds' /\ PagesOnce'
<1>1. ASSUME NEW k \in DOMAIN loads, LoadFails(k) PROVE ListHolds' /\ PagesOnce'
  <2>1. loads' = RemoveAt(loads, k) /\ UNCHANGED <<log, filter, frames, byId>>
    BY <1>1 DEF LoadFails, serverVars, listVars
  <2> QED
    BY <2>1, TypeParts, OtherLists, PagesOfGone DEF PInv
<1>2. ASSUME NEW k \in DOMAIN repairs, CountPage(k) \/ NextPage(k) \/ RecoveryFails(k)
      PROVE  ListHolds' /\ PagesOnce'
  <2>1. UNCHANGED <<log, filter, frames, byId, loads>>
    BY <1>2 DEF CountPage, NextPage, RecoveryFails, serverVars, listVars
  <2> QED
    BY <2>1, OtherLists, PagesStay DEF PInv
<1>3. ASSUME NEW k \in DOMAIN repairs, RecoveryDone(k) PROVE ListHolds' /\ PagesOnce'
  <2>1. log' = log /\ filter' = filter /\ loads' = loads /\ Upsert(repairs[k].items)
    BY <1>3 DEF RecoveryDone, serverVars
  <2>2. repairs[k].items \subseteq Logged
    <3>1. repairs[k] \in RepairCall
      BY TypeParts DEF RepairsTyped, PInv
    <3> QED
      BY <3>1 DEF RepairCall
  <2> QED
    BY <2>1, <2>2, TypeParts, UpsertHolds, PagesStay DEF PInv
<1>4. ASSUME NEW i \in details, DetailDone(i) \/ DetailFails(i) PROVE ListHolds' /\ PagesOnce'
  <2>1. UNCHANGED <<log, filter, frames, loads>> /\ byId \subseteq byId'
    BY <1>4 DEF DetailDone, DetailFails, serverVars, listVars
  <2> QED
    BY <2>1, OtherLists, PagesStay DEF PInv
<1> QED
  BY <1>1, <1>2, <1>3, <1>4, SnapshotLists, LoadDoneLists DEF Answers

\* Another filter leaves of the list what passes it.
LEMMA FilterLists ==
  ASSUME PInv, NEW f \in Filters, ChangeFilter(f) PROVE ListHolds' /\ PagesOnce'
<1>1. /\ log' = log /\ filter' = f /\ loads' = Load(FALSE)
      /\ frames' = Kept(frames, Matching(f)) /\ byId' = ToSet(frames')
  BY DEF ChangeFilter, serverVars
<1>2. PagesOnce'
  BY <1>1, TypeParts, PagesOfLoad DEF PInv
<1>3. PICK p : p = frames
  OBVIOUS
<1>4. p \in Seq(Logged) /\ Once(p)
  BY <1>3, TypeParts DEF PInv, ListTyped, ListHolds, ShownOnce, Once
<1>5. frames' = Kept(p, Matching(filter'))
  BY <1>1, <1>3
<1> QED
  BY <1>1, <1>2, <1>4, <1>5, FilteredHolds

\* Without the vanished node more frames pass, not fewer.
LEMMA VanishLists == ASSUME PInv, NodeVanishes PROVE ListHolds' /\ PagesOnce'
<1>1. /\ UNCHANGED <<log, loads, frames, byId>>
      /\ filter' = [filter EXCEPT !.node = AnyNode]
  BY DEF NodeVanishes, serverVars, listVars
<1>2. ASSUME NEW i, Matches(filter, i) PROVE Matches(filter, i)'
  <2>1. filter'.judge = filter.judge /\ filter'.node \in {AnyNode, filter.node}
    BY <1>1
  <2> QED
    BY <1>1, <1>2, <2>1 DEF Matches, Judgement
<1>3. FilterHolds'
  BY <1>1, <1>2 DEF PInv, ListHolds, FilterHolds
<1>4. ShownOnce'
  BY <1>1 DEF PInv, ListHolds, ShownOnce
<1> QED
  BY <1>1, <1>3, <1>4, PagesStay DEF PInv, ListHolds

\* Every step keeps the list right.
LEMMA NextLists == ASSUME PInv, [Next]_vars PROVE ListHolds' /\ PagesOnce'
<1>1. CASE Environment
  BY <1>1, ServerLists, VanishLists DEF Environment
<1>2. CASE User
  <2>1. ASSUME NEW i \in ToSet(frames), SelectFrame(i) PROVE ListHolds' /\ PagesOnce'
    <3>1. UNCHANGED <<log, filter, frames, byId, loads>>
      BY <2>1 DEF SelectFrame, serverVars, listVars
    <3> QED
      BY <3>1, OtherLists, PagesStay DEF PInv
  <2> QED
    BY <1>2, <2>1, FilterLists DEF User
<1>3. CASE UNCHANGED vars
  BY <1>3, OtherLists, PagesStay DEF vars, serverVars, listVars, PInv
<1> QED
  BY <1>1, <1>2, <1>3, ServerLists, SubscriptionLists, AnswerLists DEF Next

\* A frame is listed once, in the index, and only if the filter lets it pass, whatever answers
\* come in whatever order: the invariant with the pages under way.
THEOREM ListAlwaysHolds == Spec => []ListHolds
<1>1. Init => PInv
  BY InitTypes, InitLists DEF PInv
<1>2. PInv /\ [Next]_vars => PInv'
  BY NextTypes, NextLists DEF PInv
<1>3. PInv => ListHolds
  BY DEF PInv
<1> QED
  BY <1>1, <1>2, <1>3, PTL DEF Spec

-----------------------------------------------------------------------------
(* The stream.                                                             *)

\* What came with a frame and after it, up to a time.
Burst(i, until) == {j \in Logged \ {i} : T(i) <= T(j) /\ T(j) <= until}

\* The property in terms of Burst, now ...
LEMMA SkipsOnlyBursts ==
  StreamSkipsOnlyBursts <=>
    (net = "up" => \A i \in Logged \ got : T(i) <= srv.last =>
       (\E j \in got : T(j) = T(i)) \/ Cardinality(Burst(i, srv.last)) >= StreamWindow)
BY DEF StreamSkipsOnlyBursts, Burst

\* ... and in the next state.
LEMMA SkipsOnlyBurstsNext ==
  ASSUME net' = "up" => \A i \in Logged' \ got' : T(i)' <= srv'.last =>
           (\E j \in got' : T(j)' = T(i)') \/ Cardinality(Burst(i, srv.last)') >= StreamWindow
  PROVE  StreamSkipsOnlyBursts'
BY DEF StreamSkipsOnlyBursts, Burst

\* Of the logged frames there are finitely many, and of fewer there are no more.
LEMMA FewOf ==
  ASSUME log \in Seq(Frame), NEW S, S \subseteq Logged, NEW R, R \subseteq S
  PROVE  /\ IsFiniteSet(S) /\ IsFiniteSet(R)
         /\ Cardinality(R) \in Nat /\ Cardinality(S) \in Nat
         /\ Cardinality(R) <= Cardinality(S)
<1>1. IsFiniteSet(Logged)
  <2>1. PICK n \in Nat : n = Len(log)
    OBVIOUS
  <2>2. IsFiniteSet(1..n)
    BY FS_Interval
  <2> QED
    BY <2>1, <2>2 DEF Logged
<1>2. IsFiniteSet(S)
  BY <1>1, FS_Subset
<1>3. IsFiniteSet(R) /\ Cardinality(R) <= Cardinality(S)
  BY <1>2, FS_Subset
<1> QED
  BY <1>2, <1>3, FS_CardinalityType

\* A sequence without repetition has as many members as places.
LEMMA OnceCounted ==
  ASSUME NEW X, NEW s \in Seq(X), Once(s)
  PROVE  IsFiniteSet(ToSet(s)) /\ Cardinality(ToSet(s)) = Len(s)
<1>1. s \in [1..Len(s) -> X] /\ Len(s) \in Nat /\ DOMAIN s = 1..Len(s)
  OBVIOUS
<1>2. s \in [1..Len(s) -> ToSet(s)]
  BY <1>1 DEF ToSet
<1>3. \A k, n \in 1..Len(s) : s[k] = s[n] => k = n
  BY <1>1 DEF Once
<1>4. \A x \in ToSet(s) : \E k \in 1..Len(s) : s[k] = x
  BY <1>1 DEF ToSet
<1>5. s \in Bijection(1..Len(s), ToSet(s))
  BY <1>2, <1>3, <1>4, Fun_IsBij
<1>6. ExistsBijection(1..Len(s), ToSet(s))
  BY <1>5 DEF ExistsBijection
<1> QED
  BY <1>1, <1>6, FS_CountingElements, FS_NatBijection

\* Before a frame on a page stands a frame of its time that is sent, unless the time is old.
LEMMA TimeIsSent ==
  ASSUME SInv, NEW x \in ToSet(Batch), srv.last < T(x), ToSet(Batch) \subseteq Logged
  PROVE  \E j \in Sent(Batch) : T(j) = T(x)
<1> DEFINE R == {j \in ToSet(Batch) : T(j) = T(x)}
<1>1. Logged \subseteq Nat /\ (\A i \in Logged : T(i) \in Nat)
  BY TypeParts, TimesOf DEF SInv
<1>2. R \subseteq Nat /\ R # {}
  BY <1>1
<1>3. PICK m \in R : \A j \in R : m <= j
  <2> HIDE DEF R
  <2> QED
    BY <1>2, Smallest
<1>4. m \in ToSet(Batch) /\ T(m) = T(x)
  OBVIOUS
<1>5. ASSUME NEW j \in ToSet(Batch), j < m PROVE T(j) < T(m)
  <2>1. j \notin R
    <3>1. j \in Nat /\ m \in Nat
      BY <1>1, <1>4
    <3>2. j \in R => m <= j
      BY <1>3
    <3> HIDE DEF R
    <3> QED
      BY <1>5, <3>1, <3>2
  <2>2. T(j) <= T(m)
    BY <1>4, <1>5 DEF SInv, Chronological
  <2>3. T(j) # T(m)
    BY <1>4, <2>1
  <2>4. T(j) \in Nat /\ T(m) \in Nat
    BY <1>1, <1>4
  <2> QED
    BY <2>2, <2>3, <2>4
<1>6. m \in Sent(Batch)
  BY <1>4, <1>5 DEF Sent
<1> QED
  BY <1>4, <1>6

\* What the page of a tick leaves out is older than the whole page, which is full then.
LEMMA LeftOut ==
  ASSUME SInv
  PROVE  /\ ToSet(Batch) \subseteq Logged
         /\ \A i \in Logged \ ToSet(Batch) : srv.last <= T(i) =>
              /\ IsFiniteSet(ToSet(Batch)) /\ Cardinality(ToSet(Batch)) = StreamWindow
              /\ \A j \in ToSet(Batch) : i # j /\ T(i) <= T(j)
<1> DEFINE C == {i \in Logged : srv.last <= T(i)}
           d == Descending(C)
           b == Query(C, 0, StreamWindow)
<1>1. C \subseteq Logged /\ log \in Seq(Frame) /\ StreamWindow \in Nat /\ 0 \in Nat
  BY TypeParts, StreamAssumption DEF SInv, ServerTyped
<1>2. b = Batch /\ \A i \in Logged : srv.last <= T(i) => i \in C
  BY DEF Batch
<1> HIDE DEF C
<1>3. /\ d \in Seq(C) /\ ToSet(d) = C
      /\ \A k, n \in 1..Len(d) : k < n => d[n] < d[k]
  BY <1>1, DescendingHolds
<1>4. /\ b \in Seq(C) /\ Len(b) <= StreamWindow
      /\ \A k \in 1..Len(b) : 0 + k \in 1..Len(d) /\ b[k] = d[0 + k]
      /\ Len(b) < StreamWindow => 0 + Len(b) >= Len(d)
      /\ ToSet(b) \subseteq C
      /\ Once(b)
  BY <1>1, QueryHolds
<1> HIDE DEF b, d
<1>5. /\ Len(b) \in Nat /\ Len(d) \in Nat /\ DOMAIN b = 1..Len(b) /\ DOMAIN d = 1..Len(d)
      /\ \A k \in 1..Len(b) : k \in 1..Len(d) /\ b[k] = d[k]
  BY <1>3, <1>4
<1>6. ASSUME NEW i \in C, i \notin ToSet(b)
      PROVE  Len(b) = StreamWindow /\ \A j \in ToSet(b) : i < j
  <2>1. PICK p \in 1..Len(d) : d[p] = i
    BY <1>3, <1>5, <1>6 DEF ToSet
  <2>2. p \notin 1..Len(b)
    <3>1. p \in 1..Len(b) => b[p] = i
      BY <1>5, <2>1
    <3> QED
      BY <1>5, <1>6, <3>1 DEF ToSet
  <2>3. Len(b) < p /\ p <= Len(d)
    BY <1>5, <2>1, <2>2
  <2>4. Len(b) = StreamWindow
    <3>1. PICK n, m : n = Len(b) /\ m = Len(d)
      OBVIOUS
    <3>2. n \in Nat /\ m \in Nat /\ p \in Nat /\ n < p /\ p <= m /\ n <= StreamWindow
          /\ (n < StreamWindow => n >= m)
      BY <1>4, <1>5, <2>1, <2>3, <3>1
    <3> QED
      BY <1>1, <3>1, <3>2
  <2>5. ASSUME NEW k \in 1..Len(b) PROVE i < b[k]
    <3>1. k < p /\ k \in 1..Len(d)
      BY <1>5, <2>3
    <3>2. d[p] < d[k]
      BY <1>3, <2>1, <3>1
    <3> QED
      BY <1>5, <2>1, <3>2
  <2> QED
    BY <1>5, <2>4, <2>5 DEF ToSet
<1>7. IsFiniteSet(ToSet(b)) /\ Cardinality(ToSet(b)) = Len(b)
  BY <1>4, OnceCounted
<1>8. ToSet(b) \subseteq Logged
  BY <1>1, <1>4
<1>9. ASSUME NEW i \in C, i \notin ToSet(b), NEW j \in ToSet(b) PROVE i # j /\ T(i) <= T(j)
  <2>1. i \in Logged /\ j \in Logged /\ i < j
    BY <1>1, <1>6, <1>8, <1>9
  <2> QED
    BY <1>9, <2>1 DEF SInv, Chronological
<1> QED
  BY <1>2, <1>6, <1>7, <1>8, <1>9

\* The steps that leave log, connection and cursor alone.
LEMMA StreamStays ==
  ASSUME SInv, log' = log, net' = "up" => net = "up" /\ srv' = srv /\ got' = got
  PROVE  CursorSent' /\ StreamSkipsOnlyBursts'
BY DEF SInv, CursorSent, StreamSkipsOnlyBursts, Logged, T

\* The steps that leave log and clock alone.
LEMMA ChronologyStays ==
  ASSUME SInv, UNCHANGED <<log, stamped, now>> PROVE Chronological'
BY DEF SInv, Chronological, Logged, T

\* Time goes on: what is stamped is older.
LEMMA ClockStream ==
  ASSUME SInv, ClockTick PROVE Chronological' /\ CursorSent' /\ StreamSkipsOnlyBursts'
<1>1. log' = log /\ stamped' = stamped /\ now' = now + 1 /\ UNCHANGED <<net, srv, got>>
  BY DEF ClockTick, connVars
<1>2. now \in Nat /\ (\A i \in Logged : T(i) \in Nat)
  BY TypeParts, TimesOf DEF SInv, ServerTyped
<1>3. stamped # << >> => stamped[1].t \in Nat
  <2>1. stamped \in Seq(Frame)
    BY TypeParts DEF SInv, ServerTyped
  <2>2. stamped # << >> => stamped[1] \in Frame
    BY <2>1
  <2> QED
    BY <2>2, StreamAssumption DEF Frame
<1>4. \A i \in Logged : T(i) <= now /\ (stamped # << >> => stamped[1].t <= now)
  BY DEF SInv, Chronological
<1>5. \A i \in Logged : T(i) <= now + 1
  BY <1>2, <1>4
<1>6. stamped # << >> => stamped[1].t <= now + 1
  <2>1. stamped # << >> => stamped[1].t <= now
    BY DEF SInv, Chronological
  <2> QED
    BY <1>2, <1>3, <2>1
<1>7. Chronological'
  BY <1>1, <1>5, <1>6 DEF SInv, Chronological, Logged, T
<1> QED
  BY <1>1, <1>7, StreamStays

\* A frame is stamped with the present time, behind which no other is logged.
LEMMA ArrivalStream ==
  ASSUME SInv, NEW k \in Kinds, FrameArrives(k)
  PROVE  Chronological' /\ CursorSent' /\ StreamSkipsOnlyBursts'
<1>1. /\ log' = log /\ now' = now /\ UNCHANGED <<net, srv, got>>
      /\ stamped' = << [kind |-> k, t |-> now] >>
  BY DEF FrameArrives, connVars
<1>2. now \in Nat
  BY TypeParts, TimesOf DEF SInv, ServerTyped
<1>3. stamped'[1].t = now
  BY <1>1
<1>4. Chronological'
  BY <1>1, <1>2, <1>3 DEF SInv, Chronological, Logged, T
<1> QED
  BY <1>1, <1>4, StreamStays

\* The frame that waits is the next in time; none passes it.
LEMMA CommitStream ==
  ASSUME SInv, FrameCommitted
  PROVE  Chronological' /\ CursorSent' /\ StreamSkipsOnlyBursts'
<1> DEFINE t == stamped[1].t
<1>0. PICK n : n = Len(log) + 1
  OBVIOUS
<1>1. /\ log' \in Seq(Frame) /\ Logged \subseteq Logged' /\ Logged' = Logged \cup {n}
      /\ n \notin Logged
      /\ \A i \in Logged : log'[i] = log[i]
      /\ log'[n] = stamped[1] /\ stamped[1] \in Frame
  BY <1>0, TypeParts, LogGrows DEF SInv
<1>2. stamped # << >> /\ stamped' = << >> /\ now' = now /\ UNCHANGED <<net, srv, got>>
  BY DEF FrameCommitted, connVars
<1>3. /\ \A i \in Logged : T(i) \in Nat /\ T(i) \in Times
      /\ Times \subseteq Nat /\ 0 \notin Times /\ Logged = 1..Len(log) /\ Len(log) \in Nat
  BY TypeParts, TimesOf DEF SInv, Logged
<1>4. t \in Times
  BY <1>1 DEF Frame, Times
<1>5. /\ \A i, j \in Logged : i < j => T(i) <= T(j)
      /\ \A i \in Logged : T(i) <= now /\ T(i) <= t
      /\ t <= now
  BY <1>2 DEF SInv, Chronological
<1>6. (\A i \in Logged : T(i)' = T(i)) /\ T(n)' = t
  BY <1>1 DEF T
<1> HIDE DEF t
<1>7. Chronological'
  <2>1. ASSUME NEW i \in Logged', NEW j \in Logged', i < j PROVE T(i)' <= T(j)'
    <3>1. i \in Logged
      BY <1>0, <1>1, <1>3, <2>1
    <3>2. CASE j \in Logged
      BY <1>5, <1>6, <2>1, <3>1, <3>2
    <3>3. CASE j = n
      BY <1>5, <1>6, <3>1, <3>3
    <3> QED
      BY <1>1, <3>2, <3>3
  <2>2. \A i \in Logged' : T(i)' <= now
    BY <1>1, <1>5, <1>6
  <2> QED
    BY <1>2, <2>1, <2>2 DEF Chronological
<1>8. got \subseteq Logged /\ srv.last \in Times \cup {0}
  BY TypeParts DEF SInv, ConnTyped
<1>9. CursorSent'
  BY <1>2, <1>6, <1>8 DEF SInv, CursorSent
<1>10. ASSUME net = "up", NEW i \in Logged' \ got, T(i)' <= srv.last
       PROVE  \/ \E j \in got : T(j)' = T(i)'
              \/ Cardinality(Burst(i, srv.last)') >= StreamWindow
  <2>1. CASE i = n
    <3>1. t <= srv.last
      BY <1>6, <1>10, <2>1
    <3>2. srv.last # 0
      BY <1>3, <1>4, <3>1
    <3>3. PICK j \in got : T(j) = srv.last
      BY <1>10, <3>2 DEF SInv, CursorSent
    <3>4. T(j) <= t /\ T(j) \in Nat /\ t \in Nat
      BY <1>3, <1>4, <1>5, <1>8
    <3>5. T(j) = t
      BY <3>1, <3>3, <3>4
    <3> QED
      BY <1>6, <1>8, <2>1, <3>5
  <2>2. CASE i \in Logged
    <3>1. T(i) <= srv.last
      BY <1>6, <1>10, <2>2
    <3>2. (\E j \in got : T(j) = T(i)) \/ Cardinality(Burst(i, srv.last)) >= StreamWindow
      BY <1>10, <2>2, <3>1, SkipsOnlyBursts DEF SInv
    <3>3. CASE \E j \in got : T(j) = T(i)
      BY <1>6, <1>8, <2>2, <3>3
    <3>4. CASE Cardinality(Burst(i, srv.last)) >= StreamWindow
      <4>1. Burst(i, srv.last)' = {j \in Logged' \ {i} : T(i)' <= T(j)' /\ T(j)' <= srv.last}
        BY <1>2 DEF Burst
      <4>2. Burst(i, srv.last) \subseteq Burst(i, srv.last)'
        BY <1>1, <1>6, <2>2, <4>1 DEF Burst
      <4>3. Burst(i, srv.last)' \subseteq 1..Len(log')
        BY <4>1 DEF Logged
      <4>4. PICK R, S, m : R = Burst(i, srv.last) /\ S = Burst(i, srv.last)' /\ m = Len(log')
        OBVIOUS
      <4>5. R \subseteq S /\ S \subseteq 1..m /\ m \in Nat
        BY <1>1, <4>2, <4>3, <4>4
      <4>6. IsFiniteSet(1..m)
        BY <4>5, FS_Interval
      <4>7. IsFiniteSet(S)
        BY <4>5, <4>6, FS_Subset
      <4>8. IsFiniteSet(R) /\ Cardinality(R) <= Cardinality(S)
        BY <4>5, <4>7, FS_Subset
      <4>9. Cardinality(R) \in Nat /\ Cardinality(S) \in Nat /\ StreamWindow \in Nat
        BY <4>7, <4>8, FS_CardinalityType, StreamAssumption
      <4>10. Cardinality(R) >= StreamWindow
        BY <3>4, <4>4
      <4>11. Cardinality(S) >= StreamWindow
        BY <4>8, <4>9, <4>10
      <4> QED
        BY <4>4, <4>11
    <3> QED
      BY <3>2, <3>3, <3>4
  <2> QED
    BY <1>1, <1>10, <2>1, <2>2
<1>11. StreamSkipsOnlyBursts'
  <2>1. net' = net /\ got' = got /\ srv' = srv
    BY <1>2
  <2>2. net' = "up" => \A i \in Logged' \ got' : T(i)' <= srv'.last =>
           (\E j \in got' : T(j)' = T(i)') \/ Cardinality(Burst(i, srv.last)') >= StreamWindow
    BY <1>10, <2>1
  <2> QED
    BY <2>2, SkipsOnlyBurstsNext
<1> QED
  BY <1>7, <1>9, <1>11

\* A tick: what is passed over shares its time with what is sent, or is older than a full page.
LEMMA TickStream ==
  ASSUME SInv, StreamTick
  PROVE  Chronological' /\ CursorSent' /\ StreamSkipsOnlyBursts'
<1> DEFINE sent == Sent(Batch)
           new == NewestOf(sent)
<1>1. /\ log' = log /\ stamped' = stamped /\ now' = now /\ net' = net
      /\ srv' = [last |-> new, seen |-> srv.seen \cup NewAlerts]
      /\ got' = got \cup sent /\ net = "up"
  BY DEF StreamTick, serverVars
<1>2. sent \subseteq Logged /\ got \subseteq Logged /\ srv.last \in Times \cup {0}
  BY TypeParts, SentTypes DEF SInv, ConnTyped
<1>3. /\ new \in Times \cup {0}
      /\ srv.last <= new /\ \A i \in sent : T(i) <= new
      /\ new = srv.last \/ \E i \in sent : new = T(i)
  BY <1>2, TypeParts, NewestHolds DEF SInv
<1>4. /\ Logged \subseteq Nat /\ Times \subseteq Nat
      /\ \A i \in Logged : T(i) \in Nat
  BY TypeParts, TimesOf DEF SInv
<1>5. /\ ToSet(Batch) \subseteq Logged
      /\ \A i \in Logged \ ToSet(Batch) : srv.last <= T(i) =>
           /\ IsFiniteSet(ToSet(Batch)) /\ Cardinality(ToSet(Batch)) = StreamWindow
           /\ \A j \in ToSet(Batch) : i # j /\ T(i) <= T(j)
  BY LeftOut
<1>6. \A x \in ToSet(Batch) : srv.last < T(x) => \E j \in sent : T(j) = T(x)
  BY <1>5, TimeIsSent
<1> HIDE DEF sent, new
<1>7. srv'.last = new
  BY <1>1
<1>8. \A x \in ToSet(Batch) : T(x) <= new
  <2> TAKE x \in ToSet(Batch)
  <2>1. T(x) \in Nat /\ srv.last \in Nat /\ new \in Nat
    <3>1. x \in Logged
      BY <1>5
    <3>2. T(x) \in Nat
      BY <1>4, <3>1
    <3>3. Times \cup {0} \subseteq Nat
      BY <1>4
    <3> QED
      BY <1>2, <1>3, <3>2, <3>3
  <2>2. CASE srv.last < T(x)
    <3>1. PICK j \in sent : T(j) = T(x)
      BY <1>6, <2>2
    <3> QED
      BY <1>3, <3>1
  <2>3. CASE ~(srv.last < T(x))
    BY <1>3, <2>1, <2>3
  <2> QED
    BY <2>2, <2>3
<1>9. CursorSent'
  <2>1. CASE new = srv.last
    <3>1. srv.last = 0 \/ \E j \in got : T(j) = srv.last
      BY <1>1 DEF SInv, CursorSent
    <3>2. new = 0 \/ \E j \in got' : T(j) = new
      BY <1>1, <2>1, <3>1
    <3> QED
      BY <1>1, <1>7, <3>2 DEF CursorSent, T
  <2>2. CASE \E i \in sent : new = T(i)
    <3>1. \E j \in got' : T(j) = new
      BY <1>1, <2>2
    <3> QED
      BY <1>1, <1>7, <3>1 DEF CursorSent, T
  <2> QED
    BY <1>3, <2>1, <2>2
<1>10. ASSUME NEW i \in Logged, i \notin got, i \notin sent, T(i) <= new
       PROVE  (\E j \in got' : T(j) = T(i)) \/ Cardinality(Burst(i, new)) >= StreamWindow
  <2>0. T(i) \in Nat /\ srv.last \in Nat /\ new \in Nat /\ StreamWindow \in Nat /\ log \in Seq(Frame)
    BY <1>2, <1>3, <1>4, TypeParts, StreamAssumption, SMTT(30) DEF SInv, ServerTyped
  <2>1. CASE T(i) <= srv.last
    <3>1. (\E j \in got : T(j) = T(i)) \/ Cardinality(Burst(i, srv.last)) >= StreamWindow
      BY <1>1, <1>10, <2>1, SkipsOnlyBursts DEF SInv
    <3>2. CASE Cardinality(Burst(i, srv.last)) >= StreamWindow
      <4>1. Burst(i, new) \subseteq Logged
        BY DEF Burst
      <4>2. Burst(i, srv.last) \subseteq Burst(i, new)
        <5>1. ASSUME NEW j \in Logged, T(j) <= srv.last PROVE T(j) <= new
          <6>1. T(j) \in Nat
            BY <1>4
          <6> QED
            BY <1>3, <2>0, <5>1, <6>1
        <5> QED
          BY <5>1 DEF Burst
      <4>3. PICK R, S : R = Burst(i, srv.last) /\ S = Burst(i, new)
        OBVIOUS
      <4>4. Cardinality(R) \in Nat /\ Cardinality(S) \in Nat /\ Cardinality(R) <= Cardinality(S)
        BY <2>0, <4>1, <4>2, <4>3, FewOf
      <4>5. Cardinality(S) >= StreamWindow
        BY <2>0, <3>2, <4>3, <4>4
      <4> QED
        BY <4>3, <4>5
    <3> QED
      BY <1>1, <3>1, <3>2
  <2>2. CASE ~(T(i) <= srv.last) /\ i \in ToSet(Batch)
    <3>1. srv.last < T(i)
      BY <2>0, <2>2
    <3> QED
      BY <1>1, <1>6, <2>2, <3>1
  <2>3. CASE ~(T(i) <= srv.last) /\ i \notin ToSet(Batch)
    <3>1. srv.last <= T(i)
      BY <2>0, <2>3
    <3>2. /\ IsFiniteSet(ToSet(Batch)) /\ Cardinality(ToSet(Batch)) = StreamWindow
          /\ \A j \in ToSet(Batch) : i # j /\ T(i) <= T(j)
      BY <1>5, <2>3, <3>1
    <3>3. ToSet(Batch) \subseteq Burst(i, new)
      BY <1>5, <1>8, <3>2 DEF Burst
    <3>4. Burst(i, new) \subseteq Logged
      BY DEF Burst
    <3>5. PICK R, S : R = ToSet(Batch) /\ S = Burst(i, new)
      OBVIOUS
    <3>6. Cardinality(R) \in Nat /\ Cardinality(S) \in Nat /\ Cardinality(R) <= Cardinality(S)
      BY <2>0, <3>3, <3>4, <3>5, FewOf
    <3>7. Cardinality(S) >= StreamWindow
      BY <2>0, <3>2, <3>5, <3>6
    <3> QED
      BY <3>5, <3>7
  <2> QED
    BY <2>1, <2>2, <2>3
<1>11. StreamSkipsOnlyBursts'
  <2>1. Logged' = Logged /\ \A i : T(i)' = T(i)
    BY <1>1 DEF Logged, T
  <2>2. \A i : Burst(i, srv.last)' = Burst(i, new)
    BY <1>7, <2>1 DEF Burst
  <2>3. net' = "up" => \A i \in Logged' \ got' : T(i)' <= srv'.last =>
           (\E j \in got' : T(j)' = T(i)') \/ Cardinality(Burst(i, srv.last)') >= StreamWindow
    BY <1>1, <1>7, <1>10, <2>1, <2>2
  <2> QED
    BY <2>3, SkipsOnlyBurstsNext
<1> QED
  BY <1>1, <1>9, <1>11, ChronologyStays

\* A new cursor has passed over nothing.
LEMMA AcceptStream ==
  ASSUME SInv, Accept PROVE Chronological' /\ CursorSent' /\ StreamSkipsOnlyBursts'
<1>1. /\ UNCHANGED <<log, stamped, now>>
      /\ net' = "up" /\ srv' = [last |-> 0, seen |-> {}]
  BY DEF Accept, serverVars
<1>2. srv'.last = 0
  BY <1>1
<1>3. Logged' = Logged /\ \A i : T(i)' = T(i)
  BY <1>1 DEF Logged, T
<1>4. \A i \in Logged : ~(T(i) <= 0)
  <2>1. \A i \in Logged : T(i) \in Nat /\ T(i) # 0
    BY TypeParts, TimesOf DEF SInv
  <2> QED
    BY <2>1
<1>5. StreamSkipsOnlyBursts'
  BY <1>2, <1>3, <1>4 DEF StreamSkipsOnlyBursts
<1>6. CursorSent'
  BY <1>2 DEF CursorSent
<1> QED
  BY <1>1, <1>5, <1>6, ChronologyStays

\* The page's steps do not touch the stream.
LEMMA OtherStream ==
  ASSUME SInv, UNCHANGED <<log, stamped, now>>,
         net' = "up" => net = "up" /\ srv' = srv /\ got' = got
  PROVE  Chronological' /\ CursorSent' /\ StreamSkipsOnlyBursts'
BY StreamStays, ChronologyStays

\* Every step keeps the order and the cursor.
LEMMA NextStream ==
  ASSUME SInv, [Next]_vars PROVE Chronological' /\ CursorSent' /\ StreamSkipsOnlyBursts'
<1>1. CASE ServerStep
  BY <1>1, CommitStream, AcceptStream, TickStream DEF ServerStep
<1>2. CASE Environment
  <2>1. CASE Break
    BY <2>1, OtherStream DEF Break, serverVars
  <2>2. CASE NodeVanishes
    BY <2>2, OtherStream DEF NodeVanishes, serverVars, connVars
  <2> QED
    BY <1>2, <2>1, <2>2, ClockStream, ArrivalStream DEF Environment
<1>3. CASE Subscription
  <2>1. CASE OnError
    BY <2>1, OtherStream DEF OnError, serverVars
  <2>2. CASE Deliver
    BY <2>2, OtherStream DEF Deliver, serverVars
  <2>3. CASE Reopen \/ OnOpen \/ PollTick
    BY <2>3, OtherStream DEF Reopen, OnOpen, PollTick, serverVars, connVars
  <2> QED
    BY <1>3, <2>1, <2>2, <2>3 DEF Subscription
<1>4. CASE Answers
  <2>1. ASSUME NEW k \in DOMAIN loads, Snapshot(k) \/ LoadDone(k) \/ LoadFails(k)
        PROVE  UNCHANGED <<serverVars, connVars>>
    BY <2>1 DEF Snapshot, LoadDone, LoadFails
  <2>2. ASSUME NEW k \in DOMAIN repairs,
               CountPage(k) \/ NextPage(k) \/ RecoveryDone(k) \/ RecoveryFails(k)
        PROVE  UNCHANGED <<serverVars, connVars>>
    BY <2>2 DEF CountPage, NextPage, RecoveryDone, RecoveryFails
  <2>3. ASSUME NEW i \in details, DetailDone(i) \/ DetailFails(i)
        PROVE  UNCHANGED <<serverVars, connVars>>
    BY <2>3 DEF DetailDone, DetailFails
  <2>4. UNCHANGED <<serverVars, connVars>>
    BY <1>4, <2>1, <2>2, <2>3 DEF Answers
  <2> QED
    BY <2>4, OtherStream DEF serverVars, connVars
<1>5. CASE User
  <2>1. UNCHANGED <<serverVars, connVars>>
    BY <1>5 DEF User, SelectFrame, ChangeFilter
  <2> QED
    BY <2>1, OtherStream DEF serverVars, connVars
<1>6. CASE UNCHANGED vars
  BY <1>6, OtherStream DEF vars, serverVars, connVars
<1> QED
  BY <1>1, <1>2, <1>3, <1>4, <1>5, <1>6 DEF Next

\* With nothing logged, nothing is passed over.
LEMMA InitStream == Init => Chronological /\ CursorSent /\ StreamSkipsOnlyBursts
BY DEF Init, Chronological, CursorSent, StreamSkipsOnlyBursts, Logged

\* The stream passes a frame over only for one of its time, or in a burst, for any window:
\* the invariant with the order of the time stamps and what the cursor stands for.
THEOREM SkipsOnlyInBursts == Spec => []StreamSkipsOnlyBursts
<1>1. Init => SInv
  BY InitTypes, InitStream DEF SInv
<1>2. SInv /\ [Next]_vars => SInv'
  BY NextTypes, NextStream DEF SInv
<1>3. SInv => StreamSkipsOnlyBursts
  BY DEF SInv
<1> QED
  BY <1>1, <1>2, <1>3, PTL DEF Spec

-----------------------------------------------------------------------------
(* The recovery.                                                           *)

\* What a recovery is about changes with the log only.
LEMMA DueStays ==
  ASSUME log' = log
  PROVE  \A r : /\ Due(r)' = Due(r) /\ Owed(r)' = Owed(r) /\ Overlooked(r)' = Overlooked(r)
                /\ AllToCome(r)' <=> AllToCome(r)
<1>1. \A i : T(i)' = T(i) /\ Judgement(i)' = Judgement(i)
  BY DEF T, Judgement
<1>2. Logged' = Logged
  BY DEF Logged
<1>3. \A r : Due(r)' = Due(r)
  BY <1>1, <1>2 DEF Due, Between, Listable
<1>4. \A r : Owed(r)' = Owed(r) /\ Overlooked(r)' = Overlooked(r)
  BY <1>3 DEF Owed, Overlooked
<1>5. \A r, i : RankIn(Due(r), i)' = RankIn(Due(r), i)
  BY <1>3 DEF RankIn
<1> QED
  BY <1>3, <1>4, <1>5 DEF AllToCome

\* ... and so does whether it goes well, as long as nothing is stamped either,
LEMMA GoesWellStays ==
  ASSUME UNCHANGED serverVars
  PROVE  \A r : GoesWell(r)' <=> GoesWell(r)
<1>1. log' = log /\ stamped' = stamped /\ now' = now
  BY DEF serverVars
<1>2. \A r : Due(r)' = Due(r) /\ (AllToCome(r)' <=> AllToCome(r))
  BY <1>1, DueStays
<1>3. \A r : OneSlips(r)' <=> OneSlips(r)
  BY <1>1, <1>2 DEF OneSlips
<1> QED
  BY <1>1, <1>2, <1>3 DEF GoesWell

\* ... or what is stamped belongs to no interval that has ended.
LEMMA GoesWellLater ==
  ASSUME TypeOK, log' = log, now' \in Nat, now <= now', NEW r \in RepairCall, GoesWell(r),
         stamped' = stamped \/ stamped' = << >> \/ stamped'[1].t = now
  PROVE  GoesWell(r)'
<1>1. /\ Due(r)' = Due(r) /\ (AllToCome(r)' <=> AllToCome(r))
  BY DueStays
<1>2. r.until \in Nat /\ now \in Nat
  BY TypeParts, TimesOf DEF ServerTyped, RepairCall
<1>3. r.until <= now /\ r.until <= now'
  BY <1>2 DEF GoesWell
<1>4. OneSlips(r)'
  BY <1>1, <1>3 DEF GoesWell, OneSlips
<1> QED
  BY <1>1, <1>3, <1>4 DEF GoesWell

\* What goes well next is the recoveries of the next state.
LEMMA AllGoWell ==
  ASSUME NEW q, repairs' = q, \A k \in DOMAIN q : GoesWell(q[k])'
  PROVE  StillToCome'
<1> SUFFICES ASSUME NEW k \in DOMAIN repairs' PROVE GoesWell(repairs[k])'
  BY DEF StillToCome
<1>1. PICK r : r = q[k]
  OBVIOUS
<1>2. GoesWell(r)' /\ r = repairs'[k]
  BY <1>1
<1> QED
  BY <1>2 DEF GoesWell, OneSlips, Overlooked, AllToCome, Owed, Due, Between, Listable, RankIn

\* Recoveries owe the same as long as the server's state stays.
LEMMA RepairsStay ==
  ASSUME RInv, UNCHANGED serverVars, repairs' = repairs PROVE StillToCome'
<1> SUFFICES ASSUME NEW k \in DOMAIN repairs PROVE GoesWell(repairs[k])'
  BY DEF StillToCome
<1>1. PICK r : r = repairs[k]
  OBVIOUS
<1>2. GoesWell(r)
  BY <1>1 DEF RInv, StillToCome
<1>3. GoesWell(r)'
  BY <1>2, GoesWellStays
<1>4. r = repairs'[k]
  BY <1>1
<1> QED
  BY <1>3, <1>4 DEF GoesWell, OneSlips, Overlooked, AllToCome, Owed, Due, Between, Listable, RankIn

\* Time passes, and frames are stamped with it.
LEMMA TimeRepairs ==
  ASSUME RInv, ClockTick \/ \E x \in Kinds : FrameArrives(x) PROVE StillToCome'
<1> SUFFICES ASSUME NEW k \in DOMAIN repairs PROVE GoesWell(repairs[k])'
  BY DEF StillToCome, ClockTick, FrameArrives
<1>1. PICK r : r = repairs[k]
  OBVIOUS
<1>2. GoesWell(r) /\ r \in RepairCall
  BY <1>1, TypeParts DEF RInv, PInv, StillToCome, RepairsTyped
<1>3. now \in Nat
  BY TypeParts, TimesOf DEF RInv, PInv, ServerTyped
<1>4. now' \in Nat /\ now <= now'
  BY <1>3 DEF ClockTick, FrameArrives
<1>5. log' = log /\ repairs' = repairs /\ (stamped' = stamped \/ stamped'[1].t = now)
  BY DEF ClockTick, FrameArrives
<1>6. GoesWell(r)'
  BY <1>2, <1>4, <1>5, GoesWellLater DEF RInv, PInv
<1>7. r = repairs'[k]
  BY <1>1, <1>5
<1> QED
  BY <1>6, <1>7 DEF GoesWell, OneSlips, Overlooked, AllToCome, Owed, Due, Between, Listable, RankIn

\* Frames that are committed stand before those a recovery owes.
LEMMA CommitRepairs == ASSUME RInv, FrameCommitted PROVE StillToCome'
<1> SUFFICES ASSUME NEW k \in DOMAIN repairs PROVE GoesWell(repairs[k])'
  BY DEF StillToCome, FrameCommitted
<1>1. PICK r : r = repairs[k]
  OBVIOUS
<1>2. AllToCome(r) /\ OneSlips(r) /\ r.until <= now /\ r \in RepairCall
  BY <1>1, TypeParts DEF RInv, PInv, StillToCome, GoesWell, RepairsTyped
<1>3. /\ log' \in Seq(Frame) /\ Logged \subseteq Logged'
      /\ \A i \in Logged : log'[i] = log[i]
  BY TypeParts, LogGrows DEF RInv, PInv
<1>4. \A i \in Logged : T(i)' = T(i) /\ Judgement(i)' = Judgement(i)
  BY <1>3 DEF T, Judgement
<1>5. r.before \subseteq Logged
  BY <1>2 DEF RepairCall
<1>6. Due(r) \subseteq Due(r)' /\ Due(r)' \cap Logged = Due(r)
  BY <1>3, <1>4 DEF Due, Between, Listable
<1>7. Owed(r)' = Owed(r)
  BY <1>5, <1>6 DEF Owed
<1>8. Due(r)' \subseteq 1..Len(log')
  BY DEF Due, Between, Listable, Logged
<1>9. ASSUME NEW i \in Owed(r), ~r.whole PROVE RankIn(Due(r), i)' > r.offset
  <2>1. PICK m, R, S : m = Len(log') /\ R = {j \in Due(r) : i <= j} /\ S = {j \in Due(r)' : i <= j}
    OBVIOUS
  <2>2. m \in Nat /\ R \subseteq S /\ S \subseteq 1..m
    BY <1>3, <1>6, <1>8, <2>1
  <2>3. IsFiniteSet(1..m)
    BY <2>2, FS_Interval
  <2>4. IsFiniteSet(S)
    BY <2>2, <2>3, FS_Subset
  <2>5. IsFiniteSet(R) /\ Cardinality(R) <= Cardinality(S)
    BY <2>2, <2>4, FS_Subset
  <2>6. Cardinality(R) \in Nat /\ Cardinality(S) \in Nat
    BY <2>4, <2>5, FS_CardinalityType
  <2>7. RankIn(Due(r), i) = Cardinality(R) /\ RankIn(Due(r), i)' = Cardinality(S)
    BY <2>1 DEF RankIn
  <2>8. Cardinality(R) > r.offset /\ r.offset \in Nat
    BY <1>2, <1>9, <2>7, StreamAssumption DEF AllToCome, RepairCall
  <2>9. Cardinality(S) > r.offset
    BY <2>5, <2>6, <2>8
  <2> QED
    BY <2>7, <2>9
<1>10. ASSUME NEW i \in Owed(r), r.whole PROVE i \in Overlooked(r)'
  <2>1. i \in Due(r) /\ r.slipped /\ \A j \in Due(r) : i <= j
    BY <1>2, <1>10 DEF AllToCome, Overlooked
  <2>2. Due(r)' \subseteq Logged'
    BY DEF Due, Between, Listable
  <2>3. ASSUME NEW j \in Due(r)', j \notin Due(r) PROVE i <= j
    <3>1. i \in Logged /\ j \in Logged' /\ j \notin Logged
      BY <1>2, <1>5, <1>6, <1>10, <2>2, <2>3 DEF Owed
    <3>2. Len(log) \in Nat /\ Len(log') \in Nat
      BY <1>3, TypeParts DEF RInv, PInv, ServerTyped
    <3> QED
      BY <3>1, <3>2 DEF Logged
  <2> QED
    BY <1>6, <2>1, <2>3 DEF Overlooked
<1>11. AllToCome(r)'
  BY <1>7, <1>9, <1>10 DEF AllToCome
<1>12. OneSlips(r)'
  <2> SUFFICES ASSUME r.asked
               PROVE  /\ r.counted \subseteq Due(r)'
                      /\ Due(r)' # r.counted => Cardinality(Due(r)') = Cardinality(r.counted) + 1
    BY DEF OneSlips, FrameCommitted
  <2>1. r.counted \subseteq Due(r)
    BY <1>2 DEF OneSlips
  <2>2. CASE Due(r)' = Due(r)
    BY <1>2, <2>2 DEF OneSlips
  <2>3. CASE Due(r)' # Due(r)
    <3>1. PICK l, f : l = Len(log) + 1 /\ f = stamped[1]
      OBVIOUS
    <3>2. Len(log) \in Nat /\ log \in Seq(Frame) /\ stamped \in Seq(Frame) /\ stamped # << >>
          /\ Len(stamped) <= 1
      BY TypeParts DEF RInv, PInv, ServerTyped, FrameCommitted
    <3>3. Logged' = Logged \cup {l} /\ l \notin Logged /\ T(l)' = f.t
      <4>1. log' = Append(log, f)
        BY <3>1, <3>2 DEF FrameCommitted
      <4> QED
        BY <3>1, <3>2, <4>1 DEF Logged, T
    <3>4. Due(r)' \subseteq Logged'
      BY DEF Due, Between, Listable
    <3>5. l \in Due(r)' /\ Due(r)' = Due(r) \cup {l} /\ l \notin Due(r)
      <4>1. Due(r) \subseteq Logged
        BY DEF Due, Between, Listable
      <4> QED
        BY <1>6, <2>3, <3>3, <3>4, <4>1
    <3>6. T(l)' < r.until
      BY <3>5 DEF Due, Between
    <3>7. ~(r.until <= f.t)
      <4>1. f.t \in Nat /\ r.until \in Nat
        <5>1. f \in Frame
          BY <3>1, <3>2
        <5> QED
          BY <1>2, <5>1, TypeParts, TimesOf DEF RInv, PInv, Frame, Times, RepairCall
      <4> QED
        BY <3>3, <3>6, <4>1
    <3>8. Due(r) = r.counted
      BY <1>2, <3>1, <3>2, <3>7 DEF OneSlips
    <3>9. IsFiniteSet(r.counted)
      <4>1. r.counted \subseteq 1..Len(log)
        BY <1>2 DEF RepairCall, Logged
      <4> QED
        <5>1. IsFiniteSet(1..Len(log))
          BY <3>2, FS_Interval
        <5> QED
          BY <4>1, <5>1, FS_Subset
    <3>10. Cardinality(r.counted \cup {l}) = Cardinality(r.counted) + 1
      BY <3>5, <3>8, <3>9, FS_AddElement, SMTT(30)
    <3> QED
      BY <2>1, <3>5, <3>8, <3>10
  <2> QED
    BY <2>2, <2>3
<1>13. GoesWell(r)'
  BY <1>2, <1>11, <1>12 DEF GoesWell, FrameCommitted
<1>14. r = repairs'[k]
  BY <1>1 DEF FrameCommitted
<1> QED
  BY <1>13, <1>14 DEF GoesWell, OneSlips, Overlooked, AllToCome, Owed, Due, Between, Listable, RankIn

\* A recovery begins with everything to come.
LEMMA OpenRepairs == ASSUME RInv, OnOpen PROVE StillToCome'
<1>1. UNCHANGED serverVars /\ (repairs' = repairs \/ (recovering /\ since \in Nat /\ BeginRecovery))
  BY DEF OnOpen, BeginRecovery, serverVars
<1>2. CASE repairs' = repairs
  BY <1>1, <1>2, RepairsStay
<1>3. CASE recovering /\ since \in Nat /\ BeginRecovery
  <2> DEFINE new == [since |-> since, until |-> now, only |-> ViolationsOnly, offset |-> 0,
                     items |-> {}, whole |-> FALSE, before |-> Logged,
                       asked |-> FALSE, counted |-> {}, slipped |-> FALSE]
  <2>1. repairs' = Append(repairs, new)
    BY <1>3 DEF BeginRecovery
  <2>2. PICK x : x = new
    OBVIOUS
  <2>3. x.offset = 0 /\ x.whole = FALSE /\ x.asked = FALSE /\ x.until = now
    BY <2>2
  <2> HIDE DEF new
  <2>4. AllToCome(x)
    <3>1. ASSUME NEW i \in Owed(x) PROVE RankIn(Due(x), i) > 0
      <4>1. Due(x) \subseteq Logged /\ log \in Seq(Frame) /\ i \in Due(x) /\ i \in Nat
        BY TypeParts, QueriesAsked, TimesOf DEF RInv, PInv, Owed
      <4>2. PICK R, S : R = {i} /\ S = {j \in Due(x) : i <= j}
        OBVIOUS
      <4>3. S \subseteq Logged /\ R \subseteq S
        BY <4>1, <4>2
      <4>4. Cardinality(R) <= Cardinality(S) /\ Cardinality(S) \in Nat
        BY <4>1, <4>3, FewOf
      <4>5. Cardinality(R) = 1
        BY <4>2, FS_Singleton
      <4>6. Cardinality(S) > 0
        BY <4>4, <4>5
      <4> QED
        BY <4>2, <4>6 DEF RankIn
    <3> QED
      BY <2>3, <3>1 DEF AllToCome
  <2>15. GoesWell(x)
    <3>1. now \in Nat
      BY TypeParts, TimesOf DEF RInv, PInv, ServerTyped
    <3> QED
      BY <2>3, <2>4, <3>1 DEF GoesWell, OneSlips
  <2>5. PICK s : s = repairs
    OBVIOUS
  <2>6. s \in Seq(RepairCall)
    BY <2>5, TypeParts DEF RInv, PInv, RepairsTyped
  <2>7. PICK n \in Nat : n = Len(s)
    BY <2>6
  <2>8. /\ DOMAIN s = 1..n /\ DOMAIN Append(s, x) = 1..n + 1 /\ Append(s, x)[n + 1] = x
        /\ \A k \in 1..n : Append(s, x)[k] = s[k]
    BY <2>6, <2>7
  <2>9. \A k \in 1..n : GoesWell(s[k])
    BY <2>5, <2>8 DEF RInv, StillToCome
  <2>10. ASSUME NEW k \in 1..n + 1 PROVE GoesWell(Append(s, x)[k])
    <3>1. CASE k = n + 1
      BY <2>15, <2>8, <3>1
    <3>2. CASE k \in 1..n
      BY <2>8, <2>9, <3>2
    <3>3. k = n + 1 \/ k \in 1..n
      OBVIOUS
    <3> QED
      BY <3>1, <3>2, <3>3
  <2>11. PICK q : q = Append(s, x)
    OBVIOUS
  <2>12. repairs' = q /\ DOMAIN q = 1..n + 1 /\ \A k \in 1..n + 1 : GoesWell(q[k])
    BY <2>1, <2>2, <2>5, <2>8, <2>10, <2>11
  <2>13. \A k \in DOMAIN q : GoesWell(q[k])'
    BY <1>1, <2>12, GoesWellStays
  <2>14. repairs' = q
    BY <2>12
  <2> QED
    BY <2>13, <2>14, AllGoWell
<1> QED
  BY <1>1, <1>2, <1>3

\* The others go on when one is gone.
LEMMA GoneRepairs ==
  ASSUME RInv, UNCHANGED serverVars, NEW k \in DOMAIN repairs, repairs' = RemoveAt(repairs, k)
  PROVE  StillToCome'
<1>1. PICK s : s = repairs
  OBVIOUS
<1>2. s \in Seq(RepairCall) /\ k \in DOMAIN s /\ \A n \in DOMAIN s : GoesWell(s[n])
  BY <1>1, TypeParts DEF RInv, PInv, RepairsTyped, StillToCome
<1>3. PICK q : q = RemoveAt(s, k)
  OBVIOUS
<1>4. /\ q \in Seq(RepairCall) /\ Len(q) = Len(s) - 1
      /\ \A n \in 1..Len(s) - 1 : q[n] = IF n < k THEN s[n] ELSE s[n + 1]
  BY <1>2, <1>3, RemovedAt
<1>5. DOMAIN s = 1..Len(s) /\ Len(s) \in Nat /\ DOMAIN q = 1..Len(s) - 1
  BY <1>2, <1>4
<1>6. ASSUME NEW n \in 1..Len(s) - 1 PROVE GoesWell(q[n])
  <2>1. PICK m : m = IF n < k THEN n ELSE n + 1
    OBVIOUS
  <2>2. m \in 1..Len(s)
    BY <1>5, <2>1
  <2>3. q[n] = s[m]
    BY <1>4, <2>1
  <2> QED
    BY <1>2, <1>5, <2>2, <2>3
<1>7. \A n \in DOMAIN q : GoesWell(q[n])'
  BY <1>5, <1>6, GoesWellStays
<1>8. repairs' = q
  BY <1>1, <1>3
<1> QED
  BY <1>7, <1>8, AllGoWell

\* One recovery goes on, the others stay as they are.
LEMMA OneGoesOn ==
  ASSUME RInv, UNCHANGED serverVars, NEW k \in DOMAIN repairs, NEW x, GoesWell(x),
         repairs' = [repairs EXCEPT ![k] = x]
  PROVE  StillToCome'
<1>1. PICK q : q = [repairs EXCEPT ![k] = x]
  OBVIOUS
<1>2. \A m \in DOMAIN q : GoesWell(q[m])
  <2> TAKE m \in DOMAIN q
  <2>1. DOMAIN q = DOMAIN repairs
    BY <1>1
  <2>2. CASE m = k
    <3>1. q[m] = x
      BY <1>1, <2>1, <2>2
    <3> QED
      BY <3>1
  <2>3. CASE m # k
    <3>1. q[m] = repairs[m]
      BY <1>1, <2>1, <2>3
    <3> QED
      BY <2>1, <3>1 DEF RInv, StillToCome
  <2> QED
    BY <2>2, <2>3
<1>3. \A m \in DOMAIN q : GoesWell(q[m])'
  BY <1>2, GoesWellStays
<1>4. repairs' = q
  BY <1>1
<1> QED
  BY <1>3, <1>4, AllGoWell

\* A count leaves everything to come, and takes in all that is due.
LEMMA CountRepairs ==
  ASSUME RInv, NEW k \in DOMAIN repairs, CountPage(k) PROVE StillToCome'
<1>1. PICK r : r = repairs[k]
  OBVIOUS
<1>2. PICK x : x = [r EXCEPT !.asked = TRUE, !.counted = Due(r)]
  OBVIOUS
<1>3. /\ r \in RepairCall /\ x \in RepairCall /\ ~r.whole
      /\ repairs' = [repairs EXCEPT ![k] = x]
  BY <1>1, <1>2, CountPageHolds DEF RInv, PInv
<1>4. /\ x.since = r.since /\ x.until = r.until /\ x.only = r.only /\ x.before = r.before
      /\ x.items = r.items /\ x.offset = r.offset /\ x.whole = r.whole /\ x.counted = Due(r)
  BY <1>2, <1>3 DEF RepairCall
<1>5. Due(x) = Due(r)
  BY <1>4 DEF Due, Between
<1>6. GoesWell(r)
  BY <1>1 DEF RInv, StillToCome
<1>7. AllToCome(x)
  BY <1>3, <1>4, <1>5, <1>6 DEF GoesWell, AllToCome, Owed
<1>8. GoesWell(x)
  BY <1>4, <1>5, <1>6, <1>7 DEF GoesWell, OneSlips
<1>9. UNCHANGED serverVars
  BY DEF CountPage
<1> QED
  BY <1>3, <1>8, <1>9, OneGoesOn

\* A page takes what stands next, and nothing that is owed is behind it, unless the count that
\* ends the pages is one short: then it is the last row of all.
LEMMA PageRepairs ==
  ASSUME RInv, NEW k \in DOMAIN repairs, NextPage(k) PROVE StillToCome'
<1>1. PICK r : r = repairs[k]
  OBVIOUS
<1>2. PICK S : S = Due(r)
  OBVIOUS
<1>3. PICK batch : batch = Query(S, r.offset, PageSize)
  OBVIOUS
<1>4. PICK x : x = [r EXCEPT !.items = @ \cup ToSet(batch), !.offset = @ + Len(batch),
                             !.whole = \/ batch = << >>
                                       \/ r.offset + Len(batch) >= Cardinality(r.counted),
                             !.asked = FALSE, !.counted = {}, !.slipped = S # r.counted]
  OBVIOUS
<1>5. /\ r \in RepairCall /\ batch \in Seq(S) /\ x \in RepairCall /\ ~r.whole /\ r.asked
      /\ repairs' = [repairs EXCEPT ![k] = x]
  BY <1>1, <1>2, <1>3, <1>4, NextPageHolds, ZenonT(40) DEF RInv, PInv
<1>6. /\ S \subseteq Logged /\ log \in Seq(Frame) /\ PageSize \in Nat /\ PageSize > 0
      /\ r.offset \in Nat
  <2>1. r.offset \in Nat
    BY <1>5, StreamAssumption DEF RepairCall
  <2> QED
    BY <1>2, <2>1, TypeParts, QueriesAsked DEF RInv, PInv
<1>7. PICK d : d = Descending(S)
  OBVIOUS
<1>8. d \in Seq(S) /\ ToSet(d) = S
  BY <1>6, <1>7, DescendingHolds
<1>9. Cardinality(S) = Len(d) /\ \A p \in 1..Len(d) : RankIn(S, d[p]) = p
  BY <1>6, <1>7, PlaceIsRank
<1>10. PICK a, n, l, c : a = r.offset /\ n = Len(batch) /\ l = Len(d) /\ c = Cardinality(r.counted)
  OBVIOUS
<1>11. /\ \A m \in 1..n : a + m \in 1..l /\ batch[m] = d[a + m]
       /\ n < PageSize => a + n >= l
  <2>1. a \in Nat
    BY <1>6, <1>10
  <2>2. LET q == Query(S, a, PageSize) e == Descending(S)
        IN  /\ \A m \in 1..Len(q) : a + m \in 1..Len(e) /\ q[m] = e[a + m]
            /\ Len(q) < PageSize => a + Len(q) >= Len(e)
    <3>1. log \in Seq(Frame) /\ S \subseteq Logged /\ PageSize \in Nat
      BY <1>6
    <3> QED
      BY <2>1, <3>1, QueryHolds
  <2> QED
    BY <1>3, <1>7, <1>10, <2>2
<1>12. a \in Nat /\ n \in Nat /\ l \in Nat /\ DOMAIN batch = 1..n /\ DOMAIN d = 1..l
  BY <1>5, <1>6, <1>8, <1>10
<1>13. /\ x.since = r.since /\ x.until = r.until /\ x.only = r.only /\ x.before = r.before
       /\ x.items = r.items \cup ToSet(batch) /\ x.offset = a + n
       /\ x.whole <=> batch = << >> \/ a + n >= c
       /\ x.asked = FALSE /\ (x.slipped <=> S # r.counted)
  BY <1>4, <1>5, <1>10 DEF RepairCall
<1>14. Due(x) = S
  BY <1>2, <1>13 DEF Due, Between
<1>15. AllToCome(r) /\ OneSlips(r) /\ r.until <= now
  BY <1>1 DEF RInv, StillToCome, GoesWell
<1>16. ASSUME NEW i \in Owed(x)
       PROVE  RankIn(S, i) > a + n /\ RankIn(S, i) <= l /\ batch # << >>
  <2>1. i \in Owed(r) /\ i \in S /\ i \notin ToSet(batch)
    BY <1>2, <1>13, <1>14, <1>16 DEF Owed
  <2>2. RankIn(S, i) > a
    BY <1>2, <1>5, <1>10, <1>15, <2>1 DEF AllToCome
  <2>3. PICK p \in 1..l : d[p] = i
    BY <1>8, <1>12, <2>1 DEF ToSet
  <2>4. RankIn(S, i) = p
    BY <1>9, <1>10, <2>3
  <2>5. p > a /\ p \in Nat /\ p <= l
    BY <1>12, <2>2, <2>3, <2>4
  <2>6. p > a + n
    <3> SUFFICES ASSUME p <= a + n PROVE FALSE
      BY <1>12, <2>5
    <3>1. PICK m : m = p - a
      OBVIOUS
    <3>2. m \in 1..n /\ a + m = p
      BY <1>12, <2>5, <3>1
    <3>3. batch[m] = i
      BY <1>11, <2>3, <3>2
    <3> QED
      BY <1>12, <2>1, <3>2, <3>3 DEF ToSet
  <2>7. ~(a + n >= l)
    BY <1>12, <2>5, <2>6
  <2>8. batch # << >>
    <3>1. batch = << >> => n = 0
      BY <1>10
    <3>2. n # 0
      BY <1>6, <1>11, <1>12, <2>7
    <3> QED
      BY <3>1, <3>2
  <2> QED
    BY <2>4, <2>5, <2>6, <2>8
<1>17. ASSUME NEW i \in Owed(x), x.whole PROVE i \in Overlooked(x)
  <2>1. a + n >= c /\ RankIn(S, i) > a + n /\ RankIn(S, i) <= l
    BY <1>13, <1>16, <1>17
  <2>2. i \in S /\ RankIn(S, i) \in Nat
    <3>1. i \in S
      BY <1>14, <1>17 DEF Owed
    <3>2. PICK p \in 1..l : d[p] = i
      BY <1>8, <1>12, <3>1 DEF ToSet
    <3> QED
      BY <1>9, <1>10, <3>1, <3>2
  <2>3. IsFiniteSet(S) /\ Cardinality(S) = l
    BY <1>6, <1>7, <1>10, PlaceIsRank
  <2>4. c \in Nat
    <3>1. r.counted \subseteq S
      BY <1>2, <1>5, <1>15 DEF OneSlips
    <3> QED
      BY <1>10, <2>3, <3>1, FS_Subset, FS_CardinalityType
  <2>5. S # r.counted
    BY <1>10, <1>12, <2>1, <2>2, <2>3, <2>4
  <2>6. l = c + 1
    BY <1>2, <1>5, <1>10, <1>15, <2>3, <2>5 DEF OneSlips
  <2>7. RankIn(S, i) = l
    BY <1>12, <2>1, <2>2, <2>4, <2>6
  <2>8. PICK R : R = {j \in S : i <= j}
    OBVIOUS
  <2>9. R \subseteq S /\ Cardinality(R) = Cardinality(S)
    BY <2>3, <2>7, <2>8 DEF RankIn
  <2>10. R = S
    BY <2>3, <2>9, FS_Subset
  <2>11. \A j \in S : i <= j
    BY <2>8, <2>10
  <2> QED
    BY <1>13, <1>14, <2>2, <2>5, <2>11 DEF Overlooked
<1>18. AllToCome(x)
  BY <1>13, <1>14, <1>16, <1>17 DEF AllToCome
<1>19. GoesWell(x)
  BY <1>13, <1>15, <1>18 DEF GoesWell, OneSlips
<1>20. UNCHANGED serverVars
  BY DEF NextPage
<1> QED
  BY <1>5, <1>19, <1>20, OneGoesOn

\* No recovery is under way.
LEMMA InitRepairs == Init => StillToCome
BY DEF Init, StillToCome

\* Every step leaves what is owed ahead.
LEMMA NextRepairs == ASSUME RInv, [Next]_vars PROVE StillToCome'
<1>1. CASE FrameCommitted
  BY <1>1, CommitRepairs
<1>2. CASE OnOpen
  BY <1>2, OpenRepairs
<1>3. CASE Answers
  <2>1. ASSUME NEW k \in DOMAIN loads, Snapshot(k) \/ LoadDone(k) \/ LoadFails(k)
        PROVE  StillToCome'
    BY <2>1, RepairsStay DEF Snapshot, LoadDone, LoadFails
  <2>2. ASSUME NEW k \in DOMAIN repairs, RecoveryDone(k) \/ RecoveryFails(k)
        PROVE  StillToCome'
    BY <2>2, GoneRepairs DEF RecoveryDone, RecoveryFails
  <2>3. ASSUME NEW i \in details, DetailDone(i) \/ DetailFails(i) PROVE StillToCome'
    BY <2>3, RepairsStay DEF DetailDone, DetailFails
  <2> QED
    BY <1>3, <2>1, <2>2, <2>3, CountRepairs, PageRepairs DEF Answers
<1>4. CASE ~FrameCommitted /\ ~OnOpen /\ ~Answers
  <2>1. CASE ServerStep
    <3>1. UNCHANGED serverVars /\ repairs' = repairs
      BY <1>4, <2>1 DEF ServerStep, Accept, StreamTick
    <3> QED
      BY <3>1, RepairsStay
  <2>2. CASE Environment
    <3>1. CASE ClockTick \/ \E x \in Kinds : FrameArrives(x)
      BY <3>1, TimeRepairs
    <3>2. CASE Break \/ NodeVanishes
      BY <3>2, RepairsStay DEF Break, NodeVanishes
    <3> QED
      BY <2>2, <3>1, <3>2 DEF Environment
  <2>3. CASE Subscription
    <3>1. UNCHANGED serverVars /\ repairs' = repairs
      BY <1>4, <2>3 DEF Subscription, Reopen, OnError, PollTick, Deliver
    <3> QED
      BY <3>1, RepairsStay
  <2>4. CASE User
    <3>1. UNCHANGED serverVars /\ repairs' = repairs
      BY <2>4 DEF User, SelectFrame, ChangeFilter
    <3> QED
      BY <3>1, RepairsStay
  <2>5. CASE UNCHANGED vars
    <3>1. UNCHANGED serverVars /\ repairs' = repairs
      BY <2>5 DEF vars
    <3> QED
      BY <3>1, RepairsStay
  <2> QED
    BY <1>4, <2>1, <2>2, <2>3, <2>4, <2>5 DEF Next
<1> QED
  BY <1>1, <1>2, <1>3, <1>4

\* If it makes no difference which of two is removed, they are equal.
LEMMA RemovedSame ==
  ASSUME NEW X, NEW s \in Seq(X), NEW k \in DOMAIN s, NEW n \in DOMAIN s, k < n,
         RemoveAt(s, k) = RemoveAt(s, n)
  PROVE  s[k] = s[n]
<1>1. k \in Nat /\ n \in Nat /\ Len(s) \in Nat /\ k \in 1..Len(s) /\ n \in 1..Len(s)
  OBVIOUS
<1>2. ASSUME NEW m \in k..n - 1 PROVE s[m + 1] = s[m]
  <2>1. m \in 1..Len(s) - 1 /\ ~(m < k) /\ m < n
    BY <1>1
  <2>2. RemoveAt(s, k)[m] = s[m + 1]
    <3>1. RemoveAt(s, k)[m] = IF m < k THEN s[m] ELSE s[m + 1]
      BY <2>1, RemovedAt
    <3> QED
      BY <2>1, <3>1
  <2>3. RemoveAt(s, n)[m] = s[m]
    <3>1. RemoveAt(s, n)[m] = IF m < n THEN s[m] ELSE s[m + 1]
      BY <2>1, RemovedAt
    <3> QED
      BY <2>1, <3>1
  <2> QED
    BY <2>2, <2>3
<1> DEFINE Same == {j \in Nat : k + j <= n => s[k + j] = s[k]}
<1>3. 0 \in Same
  BY <1>1
<1>4. ASSUME NEW j \in Nat, j \in Same PROVE j + 1 \in Same
  <2> SUFFICES ASSUME k + (j + 1) <= n PROVE s[k + (j + 1)] = s[k]
    OBVIOUS
  <2>1. k + j <= n /\ k + j \in k..n - 1 /\ k + (j + 1) = (k + j) + 1
    BY <1>1
  <2>2. s[k + j] = s[k]
    BY <1>4, <2>1
  <2> QED
    BY <1>2, <2>1, <2>2
<1>5. Nat \subseteq Same
  <2> HIDE DEF Same
  <2> QED
    BY <1>3, <1>4, Induction
<1>6. n - k \in Same /\ k + (n - k) = n
  <2>1. n - k \in Nat /\ k + (n - k) = n
    BY <1>1
  <2> HIDE DEF Same
  <2> QED
    BY <1>5, <2>1
<1> QED
  BY <1>1, <1>6

\* Only the two ends of a recovery make one call fewer, and they end the call they end.
LEMMA WhoEnds ==
  ASSUME RInv, [Next]_vars, NEW k \in DOMAIN repairs, repairs' = RemoveAt(repairs, k)
  PROVE  \E n \in DOMAIN repairs :
           repairs[n] = repairs[k] /\ (RecoveryDone(n) \/ RecoveryFails(n))
<1>1. PICK s : s = repairs
  OBVIOUS
<1>2. s \in Seq(RepairCall) /\ k \in DOMAIN s
  BY <1>1, TypeParts DEF RInv, PInv, RepairsTyped
<1>3. PICK l : l = Len(s)
  OBVIOUS
<1>4. l \in Nat /\ Len(RemoveAt(s, k)) = l - 1
  BY <1>2, <1>3, RemovedAt
<1>5. Len(repairs') = l - 1
  BY <1>1, <1>4
<1>6. repairs' # repairs
  BY <1>1, <1>3, <1>4, <1>5
<1>7. ~OnOpen
  <2> SUFFICES ASSUME OnOpen PROVE FALSE
    OBVIOUS
  <2>1. \E x : repairs' = Append(s, x)
    BY <1>1, <1>6 DEF OnOpen, BeginRecovery
  <2>2. PICK x : repairs' = Append(s, x)
    BY <2>1
  <2>3. Len(Append(s, x)) = l + 1
    BY <1>2, <1>3
  <2> QED
    BY <1>4, <1>5, <2>2, <2>3
<1>8. \A n \in DOMAIN repairs : ~(CountPage(n) \/ NextPage(n))
  <2> SUFFICES ASSUME NEW n \in DOMAIN repairs, CountPage(n) \/ NextPage(n) PROVE FALSE
    BY SMTT(30)
  <2>a. TypeOK /\ s = repairs
    BY <1>1 DEF RInv, PInv
  <2>b. \E x : x \in RepairCall /\ repairs' = [repairs EXCEPT ![n] = x]
    <3>1. CASE CountPage(n)
      BY <2>a, <3>1, CountPageHolds, ZenonT(40)
    <3>2. CASE NextPage(n)
      BY <2>a, <3>2, NextPageHolds, ZenonT(40)
    <3> QED
      BY <3>1, <3>2
  <2>1. PICK x : x \in RepairCall /\ repairs' = [s EXCEPT ![n] = x]
    BY <2>a, <2>b
  <2>2. Len([s EXCEPT ![n] = x]) = l
    BY <1>2, <1>3
  <2> QED
    BY <1>4, <1>5, <2>1, <2>2
<1>9. \E n \in DOMAIN repairs : RecoveryDone(n) \/ RecoveryFails(n)
  <2>1. ~ServerStep
    BY <1>6 DEF ServerStep, FrameCommitted, Accept, StreamTick
  <2>2. ~Environment
    BY <1>6 DEF Environment, ClockTick, FrameArrives, Break, NodeVanishes
  <2>3. ~Subscription
    BY <1>6, <1>7 DEF Subscription, Reopen, OnError, PollTick, Deliver
  <2>4. ~User
    BY <1>6 DEF User, SelectFrame, ChangeFilter
  <2>5. ~UNCHANGED vars
    BY <1>6 DEF vars
  <2>6. Answers
    BY <2>1, <2>2, <2>3, <2>4, <2>5 DEF Next
  <2>7. \A n \in DOMAIN loads : ~(Snapshot(n) \/ LoadDone(n) \/ LoadFails(n))
    BY <1>6 DEF Snapshot, LoadDone, LoadFails
  <2>8. \A i \in details : ~(DetailDone(i) \/ DetailFails(i))
    BY <1>6 DEF DetailDone, DetailFails
  <2> QED
    BY <1>8, <2>6, <2>7, <2>8 DEF Answers
<1>10. PICK n \in DOMAIN repairs : RecoveryDone(n) \/ RecoveryFails(n)
  BY <1>9
<1>11. RemoveAt(s, k) = RemoveAt(s, n)
  BY <1>1, <1>10 DEF RecoveryDone, RecoveryFails
<1>12. s[k] = s[n]
  <2>1. n \in DOMAIN s /\ DOMAIN s = 1..l /\ k \in 1..l /\ n \in 1..l
    BY <1>1, <1>2, <1>3
  <2>2. k < n \/ n < k \/ k = n
    BY <1>4, <2>1
  <2>3. CASE k < n
    BY <1>2, <1>11, <2>1, <2>3, RemovedSame
  <2>4. CASE n < k
    <3>1. s[n] = s[k]
      BY <1>2, <1>11, <2>1, <2>4, RemovedSame
    <3> QED
      BY <3>1
  <2> QED
    BY <2>2, <2>3, <2>4
<1> QED
  BY <1>1, <1>10, <1>12

\* A recovery ends with everything in the list that it missed, but what was overlooked.
LEMMA EndRepairs ==
  ASSUME RInv, [Next]_vars, NEW k \in DOMAIN repairs, Ends(k)
  PROVE  Missed(repairs[k]) \subseteq InListOrIndex \cup Overlooked(repairs[k])
<1>1. PICK n \in DOMAIN repairs :
         repairs[n] = repairs[k] /\ (RecoveryDone(n) \/ RecoveryFails(n))
  BY WhoEnds DEF Ends
<1>2. RecoveryDone(n)
  BY <1>1 DEF RecoveryFails, Ends
<1>3. PICK r : r = repairs[k]
  OBVIOUS
<1>4. r \in RepairCall /\ AllToCome(r) /\ r.whole
  BY <1>3, TypeParts DEF RInv, PInv, RepairsTyped, StillToCome, GoesWell, Ends
<1>5. r.items \subseteq Logged /\ r.before \subseteq Logged
  BY <1>4 DEF RepairCall
<1>6. Upsert(r.items) /\ log' = log /\ filter' = filter
  BY <1>1, <1>2, <1>3 DEF RecoveryDone, serverVars
<1>7. /\ \A i \in r.items : Matches(filter, i) /\ i \in ToSet(frames) => i \in ToSet(frames')
      /\ \A i \in r.items : Matches(filter, i) /\ i \notin byId => i \in ToSet(frames')
  BY <1>5, <1>6, TypeParts, UpsertHolds DEF RInv, PInv
<1>8. ASSUME NEW i \in Missed(r), i \notin Overlooked(r) PROVE i \in r.items /\ Matches(filter, i)
  <2>1. i \in r.before /\ i \in Due(r) /\ Matches(filter, i)
    BY <1>8 DEF Missed
  <2>2. i \notin Owed(r)
    BY <1>4, <1>8 DEF AllToCome
  <2> QED
    BY <2>1, <2>2 DEF Owed
<1>9. ASSUME NEW i \in Missed(r), i \notin Overlooked(r) PROVE i \in InListOrIndex
  BY <1>7, <1>8, <1>9 DEF InListOrIndex
<1> QED
  BY <1>3, <1>9

\* Whatever was logged when a recovery began, and belongs to it, is shown when it ends, over
\* any number of pages and whatever is committed meanwhile; but the oldest frame, if another
\* one of the interval was committed between the two statements of the last page.
THEOREM RecoveriesRepair == Spec => RecoveryRepairs
<1> DEFINE Repairs == \A k \in DOMAIN repairs : Ends(k) =>
             Missed(repairs[k]) \subseteq InListOrIndex \cup Overlooked(repairs[k])
<1>1. Init => RInv
  BY InitTypes, InitLists, InitRepairs DEF RInv, PInv
<1>2. RInv /\ [Next]_vars => RInv'
  BY NextTypes, NextLists, NextRepairs DEF RInv, PInv
<1>3. RInv /\ [Next]_vars => [Repairs]_vars
  BY EndRepairs
<1> QED
  BY <1>1, <1>2, <1>3, PTL DEF Spec, RecoveryRepairs
=============================================================================
