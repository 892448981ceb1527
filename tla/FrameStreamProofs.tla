-------------------------- MODULE FrameStreamProofs --------------------------
(***************************************************************************)
(* Theorems about FrameStream, for every layout of the messages, every set *)
(* of frames and every bound:                                              *)
(*   - what the gateway's decoder makes of a stream does not depend on how *)
(*     it is cut into chunks;                                              *)
(*   - a silence restores the node's decoder;                              *)
(*   - of frames that can be told from what is inside them, both decoders  *)
(*     deliver exactly the valid ones of a line without damage, and all of *)
(*     those that begin far enough behind damage.                          *)
(* The last two go along the line as it will be when the frame on its way  *)
(* has come (Course).  A decoder has done with some of its bytes, and      *)
(* behind the damage it is at the beginning of a frame or looks for one    *)
(* (Reading); each round of the gateway's loop and each byte that the node *)
(* is fed keeps that true (Skips, Drops, Takes and Begins).                *)
(***************************************************************************)
EXTENDS FrameStream, SequenceLemmas

-----------------------------------------------------------------------------
(* One round of the loop of feed.                                          *)

\* What the loop works on, and the same with more bytes behind those it holds.
Holding(d, S) ==
  /\ d = [buf |-> d.buf, resync |-> d.resync, out |-> d.out]
  /\ d.buf \in Seq(S) /\ d.resync \in BOOLEAN
Behind(d, more) == [buf |-> d.buf \o more, resync |-> d.resync, out |-> d.out]

\* There is nothing to be done with d before more bytes come.
Waits(d) ==
  \/ Len(d.buf) < HeaderBytes
  \/ ~(d.resync /\ ~GwCandidate(d.buf)) /\ GwVerdict(d.buf) = "INCOMPLETE"
Settled(d) == Round(d) = d

\* A header that resolves announces a number of bytes.
LEMMA TotalIsNumber ==
  ASSUME NEW h, Resolves(h)
  PROVE  Total(h) \in Nat /\ Total(h) >= HeaderBytes
<1>1. LayoutOf(h).fixed \in Nat /\ LayoutOf(h).elem \in Nat /\ LayoutOf(h).n \in Nat
  BY StreamAssumption DEF Resolves, Defined, LayoutOf
<1> DEFINE p == LayoutOf(h).elem * LayoutOf(h).n
<1>2. p \in Nat
  BY <1>1
<1> HIDE DEF p
<1>3. PayloadLen(h) \in Nat
  <2>1. PayloadLen(h) = LayoutOf(h).fixed + p
    BY DEF PayloadLen, Size, LayoutOf, p
  <2> QED
    BY <1>1, <1>2, <2>1
<1> QED
  BY <1>3 DEF Total, HeaderBytes

\* What the decoders see in a header is in its first three bytes.
LEMMA SameHeader ==
  ASSUME NEW a, NEW b, a[1] = b[1], a[2] = b[2], a[3] = b[3]
  PROVE  /\ Total(a) = Total(b) /\ Resolves(a) = Resolves(b) /\ LayoutOf(a) = LayoutOf(b)
         /\ GwCandidate(a) = GwCandidate(b) /\ NdCandidate(a) = NdCandidate(b)
         /\ HeaderVerdict(a, GwAccepts) = HeaderVerdict(b, GwAccepts)
         /\ HeaderVerdict(a, NdAccepts) = HeaderVerdict(b, NdAccepts)
BY DEF Total, PayloadLen, Size, Resolves, Defined, LayoutOf, GwCandidate, NdCandidate, HeaderVerdict,
       GwAccepts, NdAccepts, Sym

\* A verdict is none before the header is sound; a sound one resolves.
LEMMA VerdictKinds ==
  ASSUME NEW buf
  PROVE  GwVerdict(buf) \in {"SUCCESS", "INCOMPLETE"} => Resolves(buf)
BY DEF GwVerdict, HeaderVerdict

\* A frame that is complete stays as it is, whatever comes behind it.
LEMMA SameVerdict ==
  ASSUME NEW S, NEW b \in Seq(S), NEW more \in Seq(S),
         Len(b) >= HeaderBytes, GwVerdict(b) # "INCOMPLETE"
  PROVE  /\ GwVerdict(b \o more) = GwVerdict(b)
         /\ Taken(b \o more, GwVerdict(b)) = Taken(b, GwVerdict(b))
         /\ Raw(b \o more, GwVerdict(b)) = Raw(b, GwVerdict(b))
         /\ Taken(b, GwVerdict(b)) \in HeaderBytes..Len(b)
<1> DEFINE c == b \o more
           v == GwVerdict(b)
<1>1. c[1] = b[1] /\ c[2] = b[2] /\ c[3] = b[3]
  <2>1. 1 \in 1..Len(b) /\ 2 \in 1..Len(b) /\ 3 \in 1..Len(b)
    BY DEF HeaderBytes
  <2> QED
    BY <2>1, Concatenated
<1>2. /\ Len(c) = Len(b) + Len(more) /\ c \in Seq(S)
      /\ \A k \in 1..Len(b) : c[k] = b[k]
  BY Concatenated
<1>3. Total(c) = Total(b) /\ HeaderVerdict(c, GwAccepts) = HeaderVerdict(b, GwAccepts)
  <2> HIDE DEF c
  <2> QED
    BY <1>1, SameHeader
<1>4. ASSUME NEW n \in Nat, n <= Len(b), NEW a \in Nat, a <= n
      PROVE  SubSeq(c, a + 1, n) = SubSeq(b, a + 1, n)
  <2> HIDE DEF c
  <2> QED
    BY <1>2, <1>4, SameSlice, SMTT(30)
<1>5. CASE HeaderVerdict(b, GwAccepts) # "SUCCESS"
  <2>1. GwVerdict(c) = v /\ v # "SUCCESS"
    BY <1>3, <1>5 DEF GwVerdict
  <2>2. SubSeq(c, 1, HeaderBytes) = SubSeq(b, 1, HeaderBytes)
    <3>1. SubSeq(c, 0 + 1, 3) = SubSeq(b, 0 + 1, 3)
      <4>1. 3 \in Nat /\ 3 <= Len(b) /\ 0 <= 3
        BY DEF HeaderBytes
      <4> HIDE DEF c
      <4> QED
        BY <1>4, <4>1
    <3> QED
      BY <3>1 DEF HeaderBytes
  <2> HIDE DEF c, v
  <2> QED
    BY <2>1, <2>2 DEF Taken, Raw, HeaderBytes, c, v
<1>6. CASE HeaderVerdict(b, GwAccepts) = "SUCCESS"
  <2>1. Resolves(b)
    BY <1>6 DEF HeaderVerdict
  <2>2. PICK t \in Nat : t = Total(b) /\ t >= HeaderBytes
    BY <2>1, TotalIsNumber
  <2>3. t <= Len(b)
    BY <1>6, <2>2 DEF GwVerdict
  <2>4. SubSeq(c, HeaderBytes + 1, t) = SubSeq(b, HeaderBytes + 1, t)
    BY <1>4, <2>3 DEF HeaderBytes
  <2>5. GwVerdict(c) = v
    <3>1. ~(Len(c) < t) /\ ~(Len(b) < t)
      BY <1>2, <2>3
    <3> HIDE DEF c
    <3> QED
      BY <1>3, <1>6, <2>2, <2>4, <3>1 DEF GwVerdict, v
  <2>6. SubSeq(c, 1, t) = SubSeq(b, 1, t) /\ SubSeq(c, 1, HeaderBytes) = SubSeq(b, 1, HeaderBytes)
    <3>1. SubSeq(c, 0 + 1, t) = SubSeq(b, 0 + 1, t)
      BY <1>4, <2>3
    <3>2. SubSeq(c, 0 + 1, 3) = SubSeq(b, 0 + 1, 3)
      <4>1. 3 \in Nat /\ 3 <= Len(b) /\ 0 <= 3
        BY DEF HeaderBytes
      <4> HIDE DEF c
      <4> QED
        BY <1>4, <4>1
    <3> HIDE DEF c
    <3>3. SubSeq(c, 1, t) = SubSeq(b, 1, t)
      BY <3>1
    <3>4. SubSeq(c, 1, HeaderBytes) = SubSeq(b, 1, HeaderBytes)
      BY <3>2 DEF HeaderBytes
    <3> QED
      BY <3>3, <3>4
  <2>7. Taken(c, v) = Taken(b, v) /\ Raw(c, v) = Raw(b, v)
    <3> HIDE DEF c, v
    <3> QED
      BY <1>3, <2>2, <2>6 DEF Taken, Raw
  <2>8. Taken(b, v) \in HeaderBytes..Len(b)
    BY <2>2, <2>3 DEF Taken, HeaderBytes
  <2> QED
    BY <2>5, <2>7, <2>8
<1> QED
  BY <1>5, <1>6

\* A round that does not wait takes bytes; with more bytes behind, it does the same.
LEMMA RoundTakes ==
  ASSUME NEW S, NEW d, Holding(d, S), ~Waits(d), NEW more \in Seq(S)
  PROVE  /\ Holding(Round(d), S)
         /\ Len(Round(d).buf) < Len(d.buf)
         /\ Round(Behind(d, more)) = Behind(Round(d), more)
<1> DEFINE b == d.buf
           c == b \o more
           e == Behind(d, more)
           v == GwVerdict(b)
<1>0. b \in Seq(S) /\ Len(b) \in Nat /\ Len(b) >= HeaderBytes /\ more \in Seq(S) /\ Len(more) \in Nat
  BY DEF Holding, Waits, HeaderBytes
<1>1. c[1] = b[1] /\ c[2] = b[2] /\ c[3] = b[3] /\ Len(c) = Len(b) + Len(more) /\ c \in Seq(S)
  <2>1. 1 \in 1..Len(b) /\ 2 \in 1..Len(b) /\ 3 \in 1..Len(b)
    BY <1>0 DEF HeaderBytes
  <2> HIDE DEF b
  <2> QED
    BY <1>0, <2>1, Concatenated
<1>2. GwCandidate(c) = GwCandidate(b)
  <2> HIDE DEF b, c
  <2> QED
    BY <1>1, SameHeader
<1>3. e = [buf |-> c, resync |-> d.resync, out |-> d.out]
  BY DEF Behind
<1>4. ~(Len(b) < HeaderBytes) /\ ~(Len(c) < HeaderBytes)
  <2> HIDE DEF b, c
  <2> QED
    BY <1>0, <1>1 DEF HeaderBytes
<1>5. CASE d.resync /\ ~GwCandidate(b)
  <2>1. Round(d) = [buf |-> Tail(b), resync |-> d.resync, out |-> d.out]
    <3>1. Round(d) = [d EXCEPT !.buf = Tail(@)]
      BY <1>4, <1>5 DEF Round
    <3> QED
      BY <3>1 DEF Holding
  <2>2. Round(e) = [buf |-> Tail(c), resync |-> d.resync, out |-> d.out]
    <3>1. Round(e) = [e EXCEPT !.buf = Tail(@)]
      <4> HIDE DEF b, c, e
      <4> QED
        BY <1>2, <1>3, <1>4, <1>5 DEF Round
    <3> HIDE DEF c, e
    <3> QED
      BY <1>3, <3>1
  <2>3. Tail(c) = Tail(b) \o more /\ Tail(b) \in Seq(S) /\ Len(Tail(b)) = Len(b) - 1
    <3> HIDE DEF b
    <3> QED
      BY <1>0, SMTT(30) DEF HeaderBytes
  <2>4. Behind(Round(d), more) = [buf |-> Tail(b) \o more, resync |-> d.resync, out |-> d.out]
    BY <2>1 DEF Behind
  <2>5. d.resync \in BOOLEAN
    BY DEF Holding
  <2>6. Round(e) = Behind(Round(d), more)
    BY <2>2, <2>3, <2>4
  <2>7. Len(Tail(b)) < Len(b)
    <3> HIDE DEF b
    <3> QED
      BY <1>0, <2>3 DEF HeaderBytes
  <2> HIDE DEF b, c, e
  <2>8. Holding(Round(d), S) /\ Round(d).buf = Tail(b)
    BY <2>1, <2>3, <2>5 DEF Holding
  <2> QED
    BY <2>6, <2>7, <2>8 DEF b, e
<1>6. CASE ~(d.resync /\ ~GwCandidate(b))
  <2>1. v # "INCOMPLETE"
    BY <1>6 DEF Waits
  <2>2. /\ GwVerdict(c) = v /\ Taken(c, v) = Taken(b, v) /\ Raw(c, v) = Raw(b, v)
        /\ Taken(b, v) \in HeaderBytes..Len(b)
    <3> HIDE DEF b
    <3> QED
      BY <1>0, <2>1, SameVerdict
  <2> DEFINE n == Taken(b, v)
             o == Append(d.out, [raw |-> Raw(b, v), rsc |-> v])
             r == (v # "SUCCESS")
  <2>3. Round(d) = [buf |-> Rest(b, n), resync |-> r, out |-> o]
    BY <1>4, <1>6, <2>1 DEF Round
  <2>4. Round(e) = [buf |-> Rest(c, n), resync |-> r, out |-> o]
    <3>1. e.buf = c /\ e.resync = d.resync /\ e.out = d.out
      BY <1>3
    <3> HIDE DEF b, c, e, v
    <3> QED
      BY <1>2, <1>4, <1>6, <2>1, <2>2, <3>1 DEF Round
  <2>5. n \in Nat /\ 0 < n /\ n <= Len(b)
    <3> HIDE DEF b, n
    <3>1. n \in HeaderBytes..Len(b)
      BY <2>2 DEF n
    <3> QED
      BY <1>0, <3>1 DEF HeaderBytes
  <2>6. Rest(c, n) = Rest(b, n) \o more /\ Rest(b, n) \in Seq(S) /\ Len(Rest(b, n)) = Len(b) - n
    <3> HIDE DEF b, n
    <3> QED
      <4>1. /\ SubSeq(b \o more, n + 1, Len(b \o more)) = SubSeq(b, n + 1, Len(b)) \o more
            /\ SubSeq(b, n + 1, Len(b)) \in Seq(S)
            /\ Len(SubSeq(b, n + 1, Len(b))) = Len(b) - n
        <5> HIDE DEF c, e, v, o, r
        <5> QED
          BY <1>0, <2>5, JoinedRest, ZenonT(40)
      <4> HIDE DEF e, v, o, r
      <4> QED
        BY <4>1 DEF Rest
  <2>7. Behind(Round(d), more) = [buf |-> Rest(b, n) \o more, resync |-> r, out |-> o]
    BY <2>3 DEF Behind
  <2>8. Len(Rest(b, n)) < Len(b)
    <3> HIDE DEF b, n
    <3> QED
      BY <1>0, <2>5, <2>6
  <2>9. r \in BOOLEAN
    OBVIOUS
  <2> HIDE DEF b, c, e, n, o, r
  <2>10. Holding(Round(d), S) /\ Round(d).buf = Rest(b, n)
    BY <2>3, <2>6, <2>9 DEF Holding
  <2> QED
    BY <2>4, <2>6, <2>7, <2>8, <2>10 DEF b, e
<1> QED
  BY <1>5, <1>6

\* What it is to end the resynchronisation.
LEMMA Quietened ==
  ASSUME NEW d, d = [buf |-> d.buf, resync |-> d.resync, out |-> d.out]
  PROVE  [d EXCEPT !.resync = FALSE] = [buf |-> d.buf, resync |-> FALSE, out |-> d.out]
<1>1. PICK e : e = [d EXCEPT !.resync = FALSE]
  OBVIOUS
<1>2. e = [buf |-> d.buf, resync |-> FALSE, out |-> d.out]
  BY <1>1, Zenon
<1> QED
  BY <1>1, <1>2

\* A round that waits keeps the bytes, and the next one changes nothing; when more
\* bytes have come, it makes no difference whether it was run.
LEMMA RoundWaits ==
  ASSUME NEW S, NEW d, Holding(d, S), Waits(d), NEW more \in Seq(S)
  PROVE  /\ Holding(Round(d), S)
         /\ Len(Round(d).buf) = Len(d.buf)
         /\ Settled(Round(d))
         /\ Round(Behind(d, more)) = Round(Behind(Round(d), more))
<1> DEFINE b == d.buf
<1>0. b \in Seq(S) /\ Len(b) \in Nat
  BY DEF Holding
<1>1. CASE Len(b) < HeaderBytes
  <2>1. Round(d) = d
    BY <1>1 DEF Round
  <2> QED
    BY <2>1 DEF Settled
<1>2. CASE ~(Len(b) < HeaderBytes)
  <2> DEFINE d2 == [buf |-> b, resync |-> FALSE, out |-> d.out]
             c == b \o more
  <2>1. ~(d.resync /\ ~GwCandidate(b)) /\ GwVerdict(b) = "INCOMPLETE"
    BY <1>2 DEF Waits
  <2>2. Round(d) = d2
    <3>1. Round(d) = [d EXCEPT !.resync = FALSE]
      BY <1>2, <2>1 DEF Round, Kept
    <3> QED
      BY <3>1 DEF Holding
  <2>3. Round(d2) = d2
    <3>1. Round(d2) = [d2 EXCEPT !.resync = FALSE]
      BY <1>2, <2>1 DEF Round, Kept
    <3> QED
      BY <3>1
  <2>4. c[1] = b[1] /\ c[2] = b[2] /\ c[3] = b[3] /\ Len(c) = Len(b) + Len(more) /\ Len(more) \in Nat
    <3>1. 1 \in 1..Len(b) /\ 2 \in 1..Len(b) /\ 3 \in 1..Len(b)
      <4> HIDE DEF b
      <4> QED
        BY <1>0, <1>2 DEF HeaderBytes
    <3> HIDE DEF b
    <3> QED
      BY <1>0, <3>1, Concatenated
  <2>5. GwCandidate(c) = GwCandidate(b) /\ ~(Len(c) < HeaderBytes)
    <3> HIDE DEF b, c
    <3>1. ~(Len(c) < HeaderBytes)
      BY <1>0, <1>2, <2>4 DEF HeaderBytes
    <3> QED
      BY <2>4, <3>1, SameHeader
  <2> DEFINE e == [buf |-> c, resync |-> d.resync, out |-> d.out]
             e2 == [buf |-> c, resync |-> FALSE, out |-> d.out]
  <2>6. Behind(d, more) = e /\ Behind(d2, more) = e2
    BY DEF Behind
  <2>7. ~(e.resync /\ ~GwCandidate(c)) /\ e.buf = c /\ e.out = d.out
        /\ e2.resync = FALSE /\ e2.buf = c /\ e2.out = d.out
    <3> HIDE DEF b, c
    <3> QED
      BY <2>1, <2>5
  <2>8. [e EXCEPT !.resync = FALSE] = e2 /\ [e2 EXCEPT !.resync = FALSE] = e2
    <3>1. e = [buf |-> e.buf, resync |-> e.resync, out |-> e.out]
          /\ e2 = [buf |-> e2.buf, resync |-> e2.resync, out |-> e2.out]
      OBVIOUS
    <3>2. [buf |-> c, resync |-> FALSE, out |-> d.out] = e2
      OBVIOUS
    <3> HIDE DEF c, e, e2
    <3>3. [e EXCEPT !.resync = FALSE] = [buf |-> e.buf, resync |-> FALSE, out |-> e.out]
          /\ [e2 EXCEPT !.resync = FALSE] = [buf |-> e2.buf, resync |-> FALSE, out |-> e2.out]
      BY <3>1, Quietened
    <3> QED
      BY <2>7, <3>2, <3>3
  <2>9. Round(e) = Round(e2)
    <3> HIDE DEF b, c, e, e2
    <3> QED
      BY <2>5, <2>7, <2>8 DEF Round, Kept
  <2>10. Holding(d2, S) /\ d2.buf = b
    <3> HIDE DEF b
    <3> QED
      BY <1>0 DEF Holding
  <2> HIDE DEF b, c, d2, e, e2
  <2> QED
    BY <2>2, <2>3, <2>6, <2>9, <2>10 DEF Settled, b
<1> QED
  BY <1>1, <1>2

-----------------------------------------------------------------------------
(* The loop of feed.                                                       *)

\* g[n] is what n rounds make of d.
Runs(g, d, N) == g = [n \in 0..N |-> IF n = 0 THEN d ELSE Round(g[n - 1])]

\* As many rounds as one likes can be run.
LEMMA RunsExist ==
  ASSUME NEW d, NEW N \in Nat
  PROVE  \E g : Runs(g, d, N)
<1> DEFINE S == { n \in Nat : \E g : Runs(g, d, n) }
<1>1. 0 \in S
  <2> DEFINE g == [n \in 0..0 |-> d]
  <2>1. g = [n \in 0..0 |-> IF n = 0 THEN d ELSE Round(g[n - 1])]
    OBVIOUS
  <2> HIDE DEF g
  <2> QED
    BY <2>1 DEF Runs
<1>2. ASSUME NEW n \in Nat, n \in S PROVE n + 1 \in S
  <2>1. PICK g : Runs(g, d, n)
    BY <1>2
  <2>2. PICK h : h = [m \in 0..n + 1 |-> IF m = 0 THEN d ELSE Round(g[m - 1])]
    OBVIOUS
  <2>3. ASSUME NEW m \in 0..n
        PROVE  h[m] = g[m]
    <3>1. m \in 0..n + 1
      OBVIOUS
    <3>2. h[m] = IF m = 0 THEN d ELSE Round(g[m - 1])
      BY <2>2, <3>1
    <3>3. g[m] = IF m = 0 THEN d ELSE Round(g[m - 1])
      BY <2>1 DEF Runs
    <3> QED
      BY <3>2, <3>3
  <2>4. ASSUME NEW m \in 0..n + 1
        PROVE  (IF m = 0 THEN d ELSE Round(g[m - 1])) = (IF m = 0 THEN d ELSE Round(h[m - 1]))
    <3>1. CASE m = 0
      BY <3>1
    <3>2. CASE m # 0
      <4>1. m - 1 \in 0..n
        BY <3>2
      <4>2. h[m - 1] = g[m - 1]
        BY <2>3, <4>1
      <4> QED
        BY <4>2
    <3> QED
      BY <3>1, <3>2
  <2>5. h = [m \in 0..n + 1 |-> IF m = 0 THEN d ELSE Round(h[m - 1])]
    BY <2>2, <2>4
  <2>6. Runs(h, d, n + 1)
    BY <2>5 DEF Runs
  <2> QED
    BY <2>6
<1>3. Nat \subseteq S
  <2> HIDE DEF S
  <2> QED
    BY <1>1, <1>2, Induction
<1> QED
  BY <1>3

\* What a run holds.
LEMMA RunSteps ==
  ASSUME NEW d, NEW N \in Nat, NEW g, Runs(g, d, N)
  PROVE  g[0] = d /\ \A n \in Nat : n + 1 <= N => g[n + 1] = Round(g[n])
<1>1. \A n \in 0..N : g[n] = IF n = 0 THEN d ELSE Round(g[n - 1])
  BY DEF Runs
<1>2. g[0] = d
  <2>1. 0 \in 0..N
    OBVIOUS
  <2> QED
    BY <1>1, <2>1
<1>3. ASSUME NEW n \in Nat, n + 1 <= N
      PROVE  g[n + 1] = Round(g[n])
  <2>1. n + 1 \in 0..N /\ n + 1 # 0 /\ (n + 1) - 1 = n
    BY <1>3
  <2> QED
    BY <1>1, <2>1
<1> QED
  BY <1>2, <1>3

\* Two runs agree as far as both go.
LEMMA RunsAgree ==
  ASSUME NEW d, NEW N \in Nat, NEW M \in Nat, N <= M,
         NEW g, Runs(g, d, N), NEW h, Runs(h, d, M)
  PROVE  g[N] = h[N]
<1>1. g[0] = d /\ \A n \in Nat : n + 1 <= N => g[n + 1] = Round(g[n])
  BY RunSteps
<1>2. h[0] = d /\ \A n \in Nat : n + 1 <= M => h[n + 1] = Round(h[n])
  BY RunSteps
<1> DEFINE S == { n \in Nat : n <= N => g[n] = h[n] }
<1>3. 0 \in S
  BY <1>1, <1>2
<1>4. ASSUME NEW n \in Nat, n \in S PROVE n + 1 \in S
  <2>1. CASE n + 1 <= N
    <3>1. n <= N /\ n + 1 <= M
      BY <2>1
    <3> QED
      BY <1>1, <1>2, <1>4, <2>1, <3>1
  <2>2. CASE ~(n + 1 <= N)
    BY <2>2
  <2> QED
    BY <2>1, <2>2
<1>5. Nat \subseteq S
  <2> HIDE DEF S
  <2> QED
    BY <1>3, <1>4, Induction
<1> QED
  BY <1>5

\* After a round that changes nothing none does.
LEMMA RunStays ==
  ASSUME NEW d, NEW N \in Nat, NEW M \in Nat, N <= M, NEW g, Runs(g, d, M), Settled(g[N])
  PROVE  g[M] = g[N]
<1>1. \A n \in Nat : n + 1 <= M => g[n + 1] = Round(g[n])
  BY RunSteps
<1> DEFINE S == { n \in Nat : N + n <= M => g[N + n] = g[N] }
<1>2. 0 \in S
  OBVIOUS
<1>3. ASSUME NEW n \in Nat, n \in S PROVE n + 1 \in S
  <2>1. CASE N + n + 1 <= M
    <3>1. N + n \in Nat /\ N + n <= M /\ N + (n + 1) = N + n + 1
      BY <2>1
    <3>2. g[N + n] = g[N]
      BY <1>3, <3>1
    <3>3. g[N + n + 1] = Round(g[N + n])
      BY <1>1, <2>1, <3>1
    <3>4. g[N + (n + 1)] = g[N]
      BY <3>1, <3>2, <3>3 DEF Settled
    <3> QED
      BY <3>4
  <2>2. CASE ~(N + n + 1 <= M)
    BY <2>2
  <2> QED
    BY <2>1, <2>2
<1>4. Nat \subseteq S
  <2> HIDE DEF S
  <2> QED
    BY <1>2, <1>3, Induction
<1>5. M - N \in Nat /\ N + (M - N) = M
  OBVIOUS
<1> QED
  BY <1>4, <1>5

\* Every round leaves a state of the decoder.
LEMMA RoundHolds ==
  ASSUME NEW S, NEW d, Holding(d, S)
  PROVE  Holding(Round(d), S)
<1>1. << >> \in Seq(S)
  OBVIOUS
<1> QED
  BY <1>1, RoundTakes, RoundWaits

\* Extract is the end of a run, and there nothing is left to be done: each round
\* before took a byte.
LEMMA ExtractRuns ==
  ASSUME NEW S, NEW d, Holding(d, S)
  PROVE  /\ Len(d.buf) \in Nat
         /\ \E g : Runs(g, d, Len(d.buf)) /\ Extract(d) = g[Len(d.buf)]
         /\ Holding(Extract(d), S)
         /\ Settled(Extract(d))
<1>1. PICK N \in Nat : N = Len(d.buf)
  BY DEF Holding
<1> DEFINE Is(g) == g = [n \in 0..Len(d.buf) |-> IF n = 0 THEN d ELSE Round(g[n - 1])]
           run == CHOOSE g : Is(g)
<1>2. Extract(d) = run[Len(d.buf)]
  BY DEF Extract
<1>3. \E g : Is(g)
  <2>1. \E g : Runs(g, d, N)
    BY RunsExist
  <2> QED
    BY <1>1, <2>1 DEF Runs
<1>4. Is(run)
  <2> HIDE DEF Is
  <2> QED
    BY <1>3
<1> HIDE DEF run
<1>5. Runs(run, d, N)
  BY <1>1, <1>4 DEF Runs
<1>6. run[0] = d /\ \A n \in Nat : n + 1 <= N => run[n + 1] = Round(run[n])
  BY <1>5, RunSteps
<1> DEFINE Shorter(n) == /\ Holding(run[n], S)
                         /\ Len(run[n].buf) + n <= N \/ Settled(run[n])
           T == { n \in Nat : n <= N => Shorter(n) }
<1>7. 0 \in T
  BY <1>1, <1>6
<1>8. ASSUME NEW n \in Nat, n \in T PROVE n + 1 \in T
  <2>1. CASE n + 1 <= N
    <3>1. n <= N
      BY <2>1
    <3>2. Shorter(n)
      BY <1>8, <3>1
    <3>3. PICK e : e = run[n]
      OBVIOUS
    <3>4. run[n + 1] = Round(e)
      BY <1>6, <2>1, <3>3
    <3>5. Holding(e, S) /\ Holding(Round(e), S)
      BY <3>2, <3>3, RoundHolds
    <3>6. Len(e.buf) \in Nat /\ Len(Round(e).buf) \in Nat
      BY <3>5 DEF Holding
    <3>7. Len(Round(e).buf) + (n + 1) <= N \/ Settled(Round(e))
      <4>1. CASE Settled(e)
        BY <4>1 DEF Settled
      <4>2. CASE ~Settled(e)
        <5>1. Len(e.buf) + n <= N
          BY <3>2, <3>3, <4>2
        <5>2. << >> \in Seq(S)
          OBVIOUS
        <5>3. CASE Waits(e)
          BY <3>5, <5>2, <5>3, RoundWaits
        <5>4. CASE ~Waits(e)
          <6>1. Len(Round(e).buf) < Len(e.buf)
            BY <3>5, <5>2, <5>4, RoundTakes
          <6>2. PICK k \in Nat, l \in Nat : k = Len(Round(e).buf) /\ l = Len(e.buf)
            BY <3>6
          <6>3. k + (n + 1) <= N
            <7>1. k < l /\ l + n <= N
              BY <5>1, <6>1, <6>2
            <7> QED
              BY <7>1
          <6> QED
            BY <6>2, <6>3
        <5> QED
          BY <5>3, <5>4
      <4> QED
        BY <4>1, <4>2
    <3>8. Shorter(n + 1)
      BY <3>4, <3>5, <3>7
    <3>9. n + 1 \in Nat
      OBVIOUS
    <3> HIDE DEF Shorter
    <3> QED
      BY <3>8, <3>9
  <2>2. CASE ~(n + 1 <= N)
    BY <2>2
  <2> QED
    BY <2>1, <2>2
<1>9. Nat \subseteq T
  <2> HIDE DEF T
  <2> QED
    BY <1>7, <1>8, Induction
<1>10. Shorter(N)
  BY <1>9
<1>11. PICK e : e = run[N]
  OBVIOUS
<1>12. Settled(e)
  <2>1. CASE Len(e.buf) + N <= N
    <3>1. Len(e.buf) \in Nat
      BY <1>10, <1>11 DEF Holding
    <3>2. Len(e.buf) = 0
      BY <2>1, <3>1
    <3> QED
      BY <3>2 DEF Settled, Round, HeaderBytes
  <2> QED
    BY <1>10, <1>11, <2>1
<1> QED
  BY <1>1, <1>2, <1>5, <1>10, <1>11, <1>12

\* However many rounds it takes: where nothing is left to be done, Extract ends.
LEMMA ExtractReaches ==
  ASSUME NEW S, NEW d, Holding(d, S), NEW M \in Nat, NEW h, Runs(h, d, M), Settled(h[M])
  PROVE  Extract(d) = h[M]
<1>0. PICK N \in Nat : N = Len(d.buf)
  BY ExtractRuns
<1>1. PICK g : Runs(g, d, N) /\ Extract(d) = g[N] /\ Settled(g[N])
  BY <1>0, ExtractRuns
<1>2. PICK L \in Nat : N <= L /\ M <= L
  <2>1. N + M \in Nat /\ N <= N + M /\ M <= N + M
    OBVIOUS
  <2> QED
    BY <2>1
<1>3. PICK k : Runs(k, d, L)
  BY RunsExist
<1>4. g[N] = k[N] /\ h[M] = k[M]
  BY <1>1, <1>2, <1>3, RunsAgree
<1>5. k[L] = k[N]
  <2>1. Settled(k[N])
    BY <1>1, <1>4
  <2> QED
    BY <1>2, <1>3, <2>1, RunStays
<1>6. k[L] = k[M]
  <2>1. Settled(k[M])
    BY <1>4
  <2> QED
    BY <1>2, <1>3, <2>1, RunStays
<1> QED
  BY <1>1, <1>4, <1>5, <1>6

\* A round before the loop makes no difference.
LEMMA ExtractOfRound ==
  ASSUME NEW S, NEW d, Holding(d, S)
  PROVE  Extract(Round(d)) = Extract(d)
<1>1. PICK e : e = Round(d)
  OBVIOUS
<1>2. Holding(e, S)
  BY <1>1, RoundHolds
<1>12. PICK N \in Nat : N = Len(e.buf)
  BY <1>2, ExtractRuns
<1>3. PICK g : Runs(g, e, N) /\ Extract(e) = g[N] /\ Settled(g[N])
  BY <1>2, <1>12, ExtractRuns
<1>4. g[0] = e /\ \A n \in Nat : n + 1 <= N => g[n + 1] = Round(g[n])
  BY <1>3, RunSteps
<1>5. PICK h : h = [n \in 0..N + 1 |-> IF n = 0 THEN d ELSE g[n - 1]]
  OBVIOUS
<1>6. ASSUME NEW n \in 0..N + 1
      PROVE  (IF n = 0 THEN d ELSE g[n - 1]) = (IF n = 0 THEN d ELSE Round(h[n - 1]))
  <2>1. CASE n = 0
    BY <2>1
  <2>2. CASE n = 1
    <3>1. h[0] = d
      BY <1>5
    <3> QED
      BY <1>1, <1>4, <2>2, <3>1
  <2>3. CASE n # 0 /\ n # 1
    <3>1. PICK m \in Nat : n = m + 1 + 1 /\ m + 1 <= N
      <4>1. n - 2 \in Nat /\ n = (n - 2) + 1 + 1 /\ (n - 2) + 1 <= N
        BY <2>3
      <4> QED
        BY <4>1
    <3>2. n - 1 = m + 1 /\ m + 1 \in 0..N + 1 /\ m + 1 # 0 /\ (m + 1) - 1 = m
      BY <3>1
    <3>3. h[m + 1] = g[m]
      BY <1>5, <3>2
    <3>4. g[m + 1] = Round(g[m])
      BY <1>4, <3>1
    <3> QED
      BY <2>3, <3>2, <3>3, <3>4
  <2> QED
    BY <2>1, <2>2, <2>3
<1>7. h = [n \in 0..N + 1 |-> IF n = 0 THEN d ELSE Round(h[n - 1])]
  BY <1>5, <1>6
<1>8. Runs(h, d, N + 1)
  BY <1>7 DEF Runs
<1>9. h[N + 1] = g[N]
  <2>1. N + 1 \in 0..N + 1 /\ N + 1 # 0 /\ (N + 1) - 1 = N
    OBVIOUS
  <2> QED
    BY <1>5, <2>1
<1>10. Extract(d) = h[N + 1]
  <2>1. N + 1 \in Nat /\ Settled(h[N + 1])
    BY <1>3, <1>9
  <2> QED
    BY <1>8, <2>1, ExtractReaches
<1> QED
  BY <1>1, <1>3, <1>9, <1>10

-----------------------------------------------------------------------------
(* Chunks.                                                                 *)

\* With more bytes behind, the decoder still holds bytes.
LEMMA BehindHolds ==
  ASSUME NEW S, NEW d, Holding(d, S), NEW more \in Seq(S)
  PROVE  Holding(Behind(d, more), S)
<1>1. d.buf \o more \in Seq(S)
  BY JoinedLength DEF Holding
<1> QED
  BY <1>1 DEF Holding, Behind

\* Whether a round was run before more bytes came makes no difference.
LEMMA RoundBefore ==
  ASSUME NEW S, NEW d, Holding(d, S), NEW more \in Seq(S)
  PROVE  Extract(Behind(Round(d), more)) = Extract(Behind(d, more))
<1>1. Holding(Round(d), S)
  BY RoundHolds
<1>2. Holding(Behind(d, more), S) /\ Holding(Behind(Round(d), more), S)
  BY <1>1, BehindHolds
<1>3. CASE Waits(d)
  <2>1. Round(Behind(d, more)) = Round(Behind(Round(d), more))
    BY <1>3, RoundWaits
  <2>2. Extract(Round(Behind(d, more))) = Extract(Behind(d, more))
    BY <1>2, ExtractOfRound
  <2>3. Extract(Round(Behind(Round(d), more))) = Extract(Behind(Round(d), more))
    BY <1>2, ExtractOfRound
  <2> QED
    BY <2>1, <2>2, <2>3
<1>4. CASE ~Waits(d)
  <2>1. Round(Behind(d, more)) = Behind(Round(d), more)
    BY <1>4, RoundTakes
  <2>2. Extract(Round(Behind(d, more))) = Extract(Behind(d, more))
    BY <1>2, ExtractOfRound
  <2> QED
    BY <2>1, <2>2
<1> QED
  BY <1>3, <1>4

\* Decoder.feed, whatever the decoder holds and whatever the bytes are: to feed a
\* chunk and then another makes the frames and violations, and leaves the state,
\* that feeding both at once does.
THEOREM FeedingInChunks ==
  ASSUME NEW S, NEW d, Holding(d, S), NEW more \in Seq(S)
  PROVE  Extract(Behind(Extract(d), more)) = Extract(Behind(d, more))
<1>0. PICK N \in Nat : N = Len(d.buf)
  BY ExtractRuns
<1>1. PICK g : Runs(g, d, N) /\ Extract(d) = g[N]
  BY <1>0, ExtractRuns
<1>2. g[0] = d /\ \A n \in Nat : n + 1 <= N => g[n + 1] = Round(g[n])
  BY <1>1, RunSteps
<1> DEFINE Same(n) == /\ Holding(g[n], S)
                      /\ Extract(Behind(g[n], more)) = Extract(Behind(d, more))
           T == { n \in Nat : n <= N => Same(n) }
<1>3. 0 \in T
  BY <1>2
<1>4. ASSUME NEW n \in Nat, n \in T PROVE n + 1 \in T
  <2>1. CASE n + 1 <= N
    <3>1. n <= N
      BY <2>1
    <3>2. Same(n)
      BY <1>4, <3>1
    <3>3. g[n + 1] = Round(g[n])
      BY <1>2, <2>1
    <3>4. Holding(g[n + 1], S)
      BY <3>2, <3>3, RoundHolds
    <3>5. Extract(Behind(g[n + 1], more)) = Extract(Behind(g[n], more))
      BY <3>2, <3>3, RoundBefore
    <3>6. Same(n + 1)
      BY <3>2, <3>4, <3>5
    <3> QED
      BY <3>6
  <2>2. CASE ~(n + 1 <= N)
    BY <2>2
  <2> QED
    BY <2>1, <2>2
<1>5. Nat \subseteq T
  <2> HIDE DEF T
  <2> QED
    BY <1>3, <1>4, Induction
<1>6. Same(N)
  BY <1>5
<1> QED
  BY <1>1, <1>6

\* What has arrived, and how far the gateway has taken it.
LineInv == line \in Seq(Range(line)) /\ fed \in 0..Len(line)

ChunksInv == LineInv /\ ChunksDoNotMatter

\* A byte that arrives leaves alone what the gateway has taken.
LEMMA LineGrows ==
  ASSUME LineInv, NEW byte, line' = Append(line, byte), UNCHANGED fed
  PROVE  LineInv' /\ SubSeq(line', 1, fed') = SubSeq(line, 1, fed)
<1>1. PICK l \in Nat : l = Len(line) /\ fed \in 0..l
  BY DEF LineInv
<1>2. /\ line' \in Seq(Range(line')) /\ Len(line') = l + 1
      /\ \A k \in 1..l : line'[k] = line[k]
  BY <1>1, OwnElements DEF LineInv
<1>3. SubSeq(line', 0 + 1, fed) = SubSeq(line, 0 + 1, fed)
  <2>1. PICK S : S = Range(line)
    OBVIOUS
  <2>2. line \in Seq(S) /\ fed \in Nat /\ 0 <= fed /\ fed <= Len(line)
        /\ \A k \in 1..Len(line) : line'[k] = line[k]
    BY <1>1, <1>2, <2>1 DEF LineInv
  <2> QED
    BY <2>2, SameSlice
<1>4. fed' \in 0..Len(line')
  BY <1>1, <1>2
<1> QED
  BY <1>2, <1>3, <1>4 DEF LineInv

\* feed takes what has arrived since.
LEMMA FeedStep ==
  ASSUME ChunksInv, Feed
  PROVE  ChunksInv'
<1>1. PICK S : S = Range(line)
  OBVIOUS
<1>2. line \in Seq(S) /\ fed \in 0..Len(line) /\ Len(line) \in Nat
  BY <1>1 DEF ChunksInv, LineInv
<1>3. PICK d : d = [buf |-> SubSeq(line, 1, fed), resync |-> FALSE, out |-> << >>]
  OBVIOUS
<1>4. PICK more : more = Rest(line, fed)
  OBVIOUS
<1>5. /\ SubSeq(line, 1, fed) \in Seq(S) /\ more \in Seq(S)
      /\ SubSeq(line, 1, fed) \o more = SubSeq(line, 1, Len(line))
  BY <1>2, <1>4, CutAndJoined DEF Rest
<1>6. Holding(d, S)
  BY <1>3, <1>5 DEF Holding
<1>7. Extract(Behind(Extract(d), more)) = Extract(Behind(d, more))
  BY <1>5, <1>6, FeedingInChunks
<1>8. [buf |-> gw.buf \o Rest(line, fed), resync |-> gw.resync, out |-> gwOut]
        = Behind(Extract(d), more)
  <2>1. gw = [buf |-> Extract(d).buf, resync |-> Extract(d).resync] /\ gwOut = Extract(d).out
    BY <1>3 DEF ChunksInv, ChunksDoNotMatter
  <2> QED
    BY <1>4, <2>1 DEF Behind
<1>9. Behind(d, more) = [buf |-> SubSeq(line, 1, Len(line)), resync |-> FALSE, out |-> << >>]
  BY <1>3, <1>5 DEF Behind
<1>10. PICK e : e = Extract([buf |-> SubSeq(line, 1, Len(line)), resync |-> FALSE, out |-> << >>])
  OBVIOUS
<1>11. /\ gw' = [buf |-> e.buf, resync |-> e.resync] /\ gwOut' = e.out
       /\ fed' = Len(line) /\ line' = line
  BY <1>7, <1>8, <1>9, <1>10 DEF Feed
<1>12. ChunksDoNotMatter'
  BY <1>10, <1>11 DEF ChunksDoNotMatter
<1>13. LineInv'
  BY <1>2, <1>11 DEF ChunksInv, LineInv
<1> QED
  BY <1>12, <1>13 DEF ChunksInv

\* Every step leaves the gateway with what one call of feed would have.
LEMMA ChunksStep ==
  ASSUME ChunksInv, [Next]_vars
  PROVE  ChunksInv'
<1>1. ASSUME UNCHANGED <<line, fed, gw, gwOut>> PROVE ChunksInv'
  BY <1>1 DEF ChunksInv, LineInv, ChunksDoNotMatter
<1>2. ASSUME NEW byte, line' = Append(line, byte), UNCHANGED <<fed, gw, gwOut>> PROVE ChunksInv'
  <2>1. LineInv' /\ SubSeq(line', 1, fed') = SubSeq(line, 1, fed)
    BY <1>2, LineGrows DEF ChunksInv
  <2> QED
    BY <1>2, <2>1 DEF ChunksInv, ChunksDoNotMatter
<1>3. CASE \E f \in Sendable : SendFrame(f)
  BY <1>1, <1>3 DEF SendFrame
<1>4. CASE ByteArrives
  BY <1>2, <1>4 DEF ByteArrives, Leaves, Arrives
<1>5. CASE ByteLost
  BY <1>1, <1>5 DEF ByteLost, Leaves
<1>6. CASE \E sym \in Noise : ByteGarbled(sym)
  BY <1>2, <1>6 DEF ByteGarbled, Leaves, Arrives
<1>7. CASE Gap
  BY <1>1, <1>7 DEF Gap
<1>8. CASE Feed
  BY <1>8, FeedStep
<1>9. CASE UNCHANGED vars
  BY <1>1, <1>9 DEF vars
<1> QED
  BY <1>3, <1>4, <1>5, <1>6, <1>7, <1>8, <1>9 DEF Next

\* At first nothing was fed.
LEMMA ChunksInit ==
  ASSUME Init
  PROVE  ChunksInv
<1>1. line = << >> /\ fed = 0 /\ gw = [buf |-> << >>, resync |-> FALSE] /\ gwOut = << >>
  BY DEF Init
<1>2. LineInv
  BY <1>1 DEF LineInv
<1>3. PICK d : d = [buf |-> << >>, resync |-> FALSE, out |-> << >>]
  OBVIOUS
<1>4. Holding(d, {})
  BY <1>3 DEF Holding
<1>5. Extract(d) = d
  <2>1. PICK g : Runs(g, d, Len(d.buf)) /\ Extract(d) = g[Len(d.buf)]
    BY <1>4, ExtractRuns
  <2>2. Len(d.buf) = 0
    BY <1>3
  <2>3. g[0] = d
    BY <2>1, <2>2, RunSteps
  <2> QED
    BY <2>1, <2>2, <2>3
<1>6. SubSeq(line, 1, fed) = << >>
  BY <1>1
<1>7. Extract([buf |-> SubSeq(line, 1, fed), resync |-> FALSE, out |-> << >>]) = d
  BY <1>3, <1>5, <1>6
<1>8. d.buf = << >> /\ d.resync = FALSE /\ d.out = << >>
  BY <1>3
<1>9. gw = [buf |-> d.buf, resync |-> d.resync] /\ gwOut = d.out
  BY <1>1, <1>8
<1>10. ChunksDoNotMatter
  BY <1>7, <1>9 DEF ChunksDoNotMatter
<1> QED
  BY <1>2, <1>10 DEF ChunksInv

\* Which frames and violations the gateway makes of the bytes does not depend on how
\* the transport cut them into chunks, whatever the bytes: what Decoder holds and has
\* yielded is what one call of feed with all of them would have left.
THEOREM ChunksNeverMatter == Spec => []ChunksDoNotMatter
<1>1. Init => ChunksInv
  BY ChunksInit
<1>2. ChunksInv /\ [Next]_vars => ChunksInv'
  BY ChunksStep
<1>3. ChunksInv => ChunksDoNotMatter
  BY DEF ChunksInv
<1> QED
  BY <1>1, <1>2, <1>3, PTL DEF Spec

-----------------------------------------------------------------------------
(* The node's decoder inside a frame.                                      *)

\* A frame on the line, as the node should take it.
Sound(W, S) ==
  /\ W \in Seq(S)
  /\ HeaderVerdict(W, NdAccepts) = "SUCCESS" /\ Len(W) = Total(W)
  /\ Clean(SubSeq(W, HeaderBytes + 1, Len(W)))

\* The fields of siap_dec_t.
IsNode(d) ==
  d = [st |-> d.st, buf |-> d.buf, resync |-> d.resync, i |-> d.i, drain |-> d.drain, raw |-> d.raw]

\* The element d is in begins behind a bytes of W, and d has what has come of it.
InElement(d, W, p, a) ==
  /\ a = HeaderBytes + LayoutOf(W).fixed + d.i * LayoutOf(W).elem
  /\ a <= p /\ p < a + LayoutOf(W).elem
  /\ d.buf = SubSeq(W, a + 1, p)

\* The decoder has taken the first p bytes of W and is where the code means it to be:
\* in its header, in its fixed part or in one of its elements.
Follows(d, W, p) ==
  \/ /\ d.st = "HDR" /\ p < HeaderBytes /\ d.buf = SubSeq(W, 1, p)
  \/ /\ d.st = "FIXED" /\ d.raw = SubSeq(W, 1, p) /\ d.buf = SubSeq(W, HeaderBytes + 1, p)
     /\ HeaderBytes <= p /\ p < HeaderBytes + LayoutOf(W).fixed
  \/ /\ d.st = "ELEM" /\ d.raw = SubSeq(W, 1, p) /\ d.i \in Nat /\ d.i < LayoutOf(W).n
     /\ \E a \in Nat : InElement(d, W, p, a)

\* The end of W is reported, as a success.
Ends(W) == ndOut' = Append(ndOut, [raw |-> W, rsc |-> "SUCCESS"])

\* What the next byte of a sound frame does.
Advances(W, p) ==
  \/ p + 1 < Len(W) /\ Follows(nd', W, p + 1) /\ NoNews
  \/ p + 1 = Len(W) /\ Ends(W)

\* Bytes of n elements of e bytes each.
LEMMA Elements ==
  ASSUME NEW e \in Nat, NEW n \in Nat, NEW i \in Nat, i < n
  PROVE  /\ i * e \in Nat /\ (i + 1) * e = i * e + e
         /\ i * e + e <= e * n
         /\ i + 1 = n => i * e + e = e * n
         /\ i + 1 < n /\ e > 0 => i * e + e < e * n
<1>1. PICK k \in Nat : n = i + 1 + k
  <2>1. n - i - 1 \in Nat /\ n = i + 1 + (n - i - 1)
    OBVIOUS
  <2> QED
    BY <2>1
<1>2. PICK a, b : a = i * e /\ b = e * k
  OBVIOUS
<1>3. a \in Nat /\ b \in Nat
  BY <1>2
<1>4. e * n = a + e + b
  BY <1>1, <1>2
<1>5. (i + 1) * e = a + e
  BY <1>2
<1>6. i + 1 = n => b = 0
  <2>1. i + 1 = n => k = 0
    BY <1>1
  <2> QED
    BY <1>2, <2>1
<1>7. i + 1 < n /\ e > 0 => b > 0
  <2>1. SUFFICES ASSUME i + 1 < n, e > 0 PROVE b > 0
    OBVIOUS
  <2>2. k > 0
    BY <1>1, <2>1
  <2>3. PICK j \in Nat : k = j + 1
    <3>1. k - 1 \in Nat /\ k = (k - 1) + 1
      BY <2>2
    <3> QED
      BY <3>1
  <2>4. PICK c : c = e * j
    OBVIOUS
  <2>5. c \in Nat /\ b = c + e
    BY <1>2, <2>3, <2>4
  <2> QED
    BY <2>1, <2>5
<1>8. a + e <= a + e + b
  BY <1>3
<1>9. b = 0 => a + e = a + e + b
  BY <1>3
<1>10. b > 0 => a + e < a + e + b
  BY <1>3
<1> QED
  BY <1>2, <1>3, <1>4, <1>5, <1>6, <1>7, <1>8, <1>9, <1>10

\* The numbers of a sound frame.
LEMMA SoundLayout ==
  ASSUME NEW S, NEW W, Sound(W, S)
  PROVE  /\ NdCandidate(W) /\ Resolves(W)
         /\ LayoutOf(W).fixed \in Nat /\ LayoutOf(W).elem \in Nat /\ LayoutOf(W).n \in Nat
         /\ LayoutOf(W).elem * LayoutOf(W).n \in Nat
         /\ Len(W) = HeaderBytes + LayoutOf(W).fixed + LayoutOf(W).elem * LayoutOf(W).n
         /\ Len(W) \in Nat /\ HeaderBytes <= Len(W)
<1>1. Resolves(W) /\ NdCandidate(W)
  BY DEF Sound, HeaderVerdict, NdCandidate, Sym
<1>2. PICK F \in Nat, e \in Nat, n \in Nat :
         F = LayoutOf(W).fixed /\ e = LayoutOf(W).elem /\ n = LayoutOf(W).n
  BY <1>1, StreamAssumption DEF Resolves, Defined, LayoutOf
<1>3. PICK m \in Nat : m = e * n
  OBVIOUS
<1>4. Len(W) = 3 + (F + m)
  BY <1>2, <1>3 DEF Sound, Total, PayloadLen, Size, LayoutOf, HeaderBytes
<1> QED
  BY <1>1, <1>2, <1>3, <1>4, SMTT(30) DEF HeaderBytes

\* Part of a clean payload is clean.
LEMMA CleanPart ==
  ASSUME NEW S, NEW W, Sound(W, S), NEW a \in Nat, NEW q \in Nat,
         HeaderBytes <= a, a <= q, q <= Len(W)
  PROVE  Clean(SubSeq(W, a + 1, q))
<1>1. PICK l \in Nat : Len(W) = 3 + l
  <2>1. Len(W) - 3 \in Nat /\ Len(W) = 3 + (Len(W) - 3)
    BY SoundLayout DEF HeaderBytes
  <2> QED
    BY <2>1, ZenonT(40)
<1>2. PICK m \in Nat : q = a + m
  <2>1. q - a \in Nat /\ q = a + (q - a)
    OBVIOUS
  <2> QED
    BY <2>1
<1>3. PICK c \in Nat : a = 3 + c
  <2>1. a - 3 \in Nat /\ a = 3 + (a - 3)
    BY DEF HeaderBytes
  <2> QED
    BY <2>1
<1>4. PICK all : all = SubSeq(W, 3 + 1, 3 + l)
  OBVIOUS
<1>5. all = [k \in 1..l |-> W[3 + k]]
  BY <1>4, SliceOf
<1>6. Clean(all)
  BY <1>1, <1>4 DEF Sound, HeaderBytes
<1>7. \A k \in 1..l : W[3 + k].sym # Bad
  BY <1>5, <1>6 DEF Clean, Sym
<1>8. PICK part : part = SubSeq(W, a + 1, a + m)
  OBVIOUS
<1>9. part = [k \in 1..m |-> W[a + k]]
  BY <1>8, SliceOf
<1>10. ASSUME NEW k \in 1..m
       PROVE  part[k].sym # Bad
  <2>1. c + k \in 1..l /\ a + k = 3 + (c + k)
    BY <1>1, <1>2, <1>3
  <2> QED
    BY <1>7, <1>9, <2>1
<1>11. DOMAIN part = 1..m
  BY <1>9
<1>12. Clean(part)
  BY <1>10, <1>11 DEF Clean, Sym
<1> QED
  BY <1>2, <1>8, <1>12

\* Three bytes show the header.
LEMMA HeaderShows ==
  ASSUME NEW S, NEW W, Sound(W, S), NEW p \in Nat, HeaderBytes <= p, p <= Len(W),
         NEW h, h = SubSeq(SubSeq(W, 1, p), 1, HeaderBytes) \/ h = SubSeq(W, 1, p)
  PROVE  /\ LayoutOf(h) = LayoutOf(W) /\ NdCandidate(h)
         /\ HeaderVerdict(h, NdAccepts) = "SUCCESS"
<1>1. PICK r : r = SubSeq(W, 1, p)
  OBVIOUS
<1>2. r = [k \in 1..p |-> W[k]]
  <2>1. SubSeq(W, 0 + 1, 0 + p) = [k \in 1..p |-> W[0 + k]]
    BY SliceOf
  <2> QED
    BY <1>1, <2>1
<1>3. r[1] = W[1] /\ r[2] = W[2] /\ r[3] = W[3]
  <2>1. 1 \in 1..p /\ 2 \in 1..p /\ 3 \in 1..p
    BY DEF HeaderBytes
  <2> QED
    BY <1>2, <2>1
<1>4. SubSeq(r, 1, 3) = [k \in 1..3 |-> r[k]]
  <2>1. SubSeq(r, 0 + 1, 0 + 3) = [k \in 1..3 |-> r[0 + k]]
    BY SliceOf
  <2> QED
    BY <2>1
<1>5. h[1] = W[1] /\ h[2] = W[2] /\ h[3] = W[3]
  <2>1. CASE h = r
    BY <1>3, <2>1
  <2>2. CASE h = SubSeq(r, 1, 3)
    BY <1>3, <1>4, <2>2
  <2> QED
    BY <1>1, <2>1, <2>2 DEF HeaderBytes
<1>6. /\ LayoutOf(h) = LayoutOf(W) /\ NdCandidate(h) = NdCandidate(W)
      /\ HeaderVerdict(h, NdAccepts) = HeaderVerdict(W, NdAccepts)
  BY <1>5, SameHeader
<1>7. NdCandidate(W)
  BY SoundLayout
<1> QED
  BY <1>6, <1>7 DEF Sound

\* The whole of a sequence is a slice of it.
LEMMA WholeSlice ==
  ASSUME NEW S, NEW W \in Seq(S)
  PROVE  SubSeq(W, 1, Len(W)) = W
OBVIOUS

\* Behind the part of a frame that ends at q, q bytes of it having come: the decoder
\* goes on with the first element or ends.  st is where NextState leads.
LEMMA GoesOn ==
  ASSUME NEW S, NEW W, Sound(W, S), NEW h, NEW q \in Nat,
         q = HeaderBytes + LayoutOf(W).fixed,
         NEW st, st = (IF LayoutOf(W).elem > 0 /\ LayoutOf(W).n > 0 THEN "ELEM" ELSE "HDR"),
         nd' = InFrame(h, st, SubSeq(W, 1, q)),
         IF st = "HDR" THEN Ended("SUCCESS", SubSeq(W, 1, q)) ELSE NoNews
  PROVE  \/ q < Len(W) /\ Follows(nd', W, q) /\ NoNews
         \/ q = Len(W) /\ Ends(W)
<1>1. PICK F \in Nat, e \in Nat, n \in Nat, m \in Nat :
         /\ F = LayoutOf(W).fixed /\ e = LayoutOf(W).elem /\ n = LayoutOf(W).n
         /\ m = e * n /\ Len(W) = 3 + F + m
  BY SoundLayout DEF HeaderBytes
<1>2. q = 3 + F
  BY <1>1 DEF HeaderBytes
<1>3. CASE e > 0 /\ n > 0
  <2>1. st = "ELEM"
    BY <1>1, <1>3
  <2>2. /\ nd'.st = "ELEM" /\ nd'.raw = SubSeq(W, 1, q) /\ nd'.buf = << >> /\ nd'.i = 0
        /\ NoNews
    BY <2>1 DEF InFrame
  <2>3. m > 0
    <3>1. 0 * e + e <= e * n /\ 0 * e = 0
      BY <1>3, Elements
    <3> QED
      BY <1>1, <1>3, <3>1
  <2>4. SubSeq(W, q + 1, q) = << >>
    BY <1>2, SMTT(30)
  <2>5. Follows(nd', W, q)
    <3>1. q = HeaderBytes + LayoutOf(W).fixed + 0 * LayoutOf(W).elem
      BY <1>1, <1>2 DEF HeaderBytes
    <3>2. q <= q /\ q < q + LayoutOf(W).elem /\ 0 < LayoutOf(W).n
      BY <1>1, <1>3, SMTT(30)
    <3>3. InElement(nd', W, q, q)
      BY <2>2, <2>4, <3>1, <3>2 DEF InElement
    <3>4. nd'.i \in Nat /\ nd'.i < LayoutOf(W).n
      BY <2>2, <3>2
    <3> QED
      BY <2>2, <3>3, <3>4 DEF Follows
  <2>6. q < Len(W)
    BY <1>1, <1>2, <2>3
  <2> QED
    BY <2>2, <2>5, <2>6
<1>4. CASE ~(e > 0 /\ n > 0)
  <2>1. st = "HDR"
    BY <1>1, <1>4
  <2>2. m = 0
    <3>1. e = 0 \/ n = 0
      BY <1>4
    <3> QED
      BY <1>1, <3>1, SMTT(30)
  <2>3. q = Len(W)
    BY <1>1, <1>2, <2>2
  <2>4. SubSeq(W, 1, q) = W
    BY <2>3, WholeSlice DEF Sound
  <2> QED
    BY <2>1, <2>3, <2>4 DEF Ended, Ends
<1> QED
  BY <1>3, <1>4

\* A byte of the header.
LEMMA HeaderAdvances ==
  ASSUME NEW S, NEW W, Sound(W, S), NEW p \in Nat, IsNode(nd), nd.st = "HDR",
         p < HeaderBytes, nd.buf = SubSeq(W, 1, p), NdFeed(W[p + 1])
  PROVE  Advances(W, p)
<1>1. PICK l \in Nat : l = Len(W) /\ 3 <= l
  BY SoundLayout DEF HeaderBytes
<1>2. PICK part : part = SubSeq(W, 1, p + 1)
  OBVIOUS
<1>3. Append(nd.buf, W[p + 1]) = part /\ Len(part) = p + 1
  <2>1. p + 1 <= Len(W) /\ 0 <= p
    BY <1>1 DEF HeaderBytes
  <2>2. /\ Append(SubSeq(W, 0 + 1, p), W[p + 1]) = SubSeq(W, 0 + 1, p + 1)
        /\ Len(SubSeq(W, 0 + 1, p + 1)) = (p + 1) - 0
    BY <2>1, Lengthened DEF Sound
  <2> QED
    BY <1>2, <2>2
<1>4. CASE p + 1 = HeaderBytes
  <2>1. HeaderComplete(part)
    BY <1>3, <1>4 DEF NdFeed
  <2>2. /\ LayoutOf(part) = LayoutOf(W) /\ NdCandidate(part)
        /\ HeaderVerdict(part, NdAccepts) = "SUCCESS"
    <3>1. HeaderBytes <= p + 1 /\ p + 1 <= Len(W) /\ p + 1 \in Nat
      BY <1>1, <1>4 DEF HeaderBytes
    <3> QED
      BY <1>2, <3>1, HeaderShows
  <2>3. PICK st : st = NextState(part, FALSE)
    OBVIOUS
  <2>4. nd' = InFrame(part, st, part) /\ IF st = "HDR" THEN Ended("SUCCESS", part) ELSE NoNews
    BY <2>1, <2>2, <2>3 DEF HeaderComplete
  <2>5. CASE LayoutOf(W).fixed > 0
    <3>1. st = "FIXED"
      BY <2>2, <2>3, <2>5 DEF NextState
    <3>2. nd'.st = "FIXED" /\ nd'.raw = part /\ nd'.buf = << >> /\ NoNews
      BY <2>4, <3>1 DEF InFrame
    <3>3. SubSeq(W, HeaderBytes + 1, p + 1) = << >>
      BY <1>4 DEF HeaderBytes
    <3>4. PICK F \in Nat, m \in Nat : F = LayoutOf(W).fixed /\ l = 3 + F + m
      BY <1>1, SoundLayout DEF HeaderBytes
    <3>5. p + 1 < HeaderBytes + LayoutOf(W).fixed /\ HeaderBytes <= p + 1 /\ p + 1 < Len(W)
      BY <1>1, <1>4, <2>5, <3>4, SMTT(30) DEF HeaderBytes
    <3>6. Follows(nd', W, p + 1)
      BY <1>2, <3>2, <3>3, <3>5 DEF Follows
    <3> QED
      BY <3>2, <3>5, <3>6 DEF Advances
  <2>6. CASE ~(LayoutOf(W).fixed > 0)
    <3>1. LayoutOf(W).fixed = 0
      BY <2>6, SoundLayout
    <3>2. st = IF LayoutOf(W).elem > 0 /\ LayoutOf(W).n > 0 THEN "ELEM" ELSE "HDR"
      BY <2>2, <2>3, <2>6 DEF NextState
    <3>3. p + 1 = HeaderBytes + LayoutOf(W).fixed /\ p + 1 \in Nat
      BY <1>4, <3>1 DEF HeaderBytes
    <3> QED
      BY <1>2, <2>4, <3>2, <3>3, GoesOn DEF Advances
  <2> QED
    BY <2>5, <2>6
<1>5. CASE p + 1 # HeaderBytes
  <2>1. /\ nd' = [nd EXCEPT !.buf = part, !.raw = IF nd.st = "HDR" THEN @ ELSE Append(nd.raw, W[p + 1])]
        /\ NoNews
    BY <1>3, <1>5 DEF NdFeed
  <2>2. nd'.st = "HDR" /\ nd'.buf = part
    BY <2>1 DEF IsNode
  <2>3. p + 1 < HeaderBytes /\ p + 1 < Len(W)
    BY <1>1, <1>5 DEF HeaderBytes
  <2> QED
    BY <1>2, <2>1, <2>2, <2>3 DEF Advances, Follows
<1> QED
  BY <1>4, <1>5

\* The bytes of a frame that have come, with the next one.
LEMMA RawGrows ==
  ASSUME NEW S, NEW W, Sound(W, S), NEW p \in Nat, HeaderBytes <= p, p + 1 <= Len(W),
         nd.raw = SubSeq(W, 1, p)
  PROVE  /\ Append(nd.raw, W[p + 1]) = SubSeq(W, 1, p + 1)
         /\ LayoutOf(Header(nd)) = LayoutOf(W)
<1>1. Append(SubSeq(W, 0 + 1, p), W[p + 1]) = SubSeq(W, 0 + 1, p + 1)
  <2>1. 0 <= p
    OBVIOUS
  <2> QED
    BY <2>1, Lengthened DEF Sound
<1>2. p <= Len(W)
  <2>1. PICK l \in Nat : l = Len(W)
    BY SoundLayout
  <2> QED
    BY <2>1
<1>3. LayoutOf(Header(nd)) = LayoutOf(W)
  <2>1. Header(nd) = SubSeq(SubSeq(W, 1, p), 1, HeaderBytes)
    BY DEF Header
  <2> QED
    BY <1>2, <2>1, HeaderShows
<1> QED
  BY <1>1, <1>3

\* A byte of the fixed part.
LEMMA FixedAdvances ==
  ASSUME NEW S, NEW W, Sound(W, S), NEW p \in Nat, IsNode(nd), nd.st = "FIXED",
         nd.raw = SubSeq(W, 1, p), nd.buf = SubSeq(W, HeaderBytes + 1, p),
         HeaderBytes <= p, p < HeaderBytes + LayoutOf(W).fixed, NdFeed(W[p + 1])
  PROVE  Advances(W, p)
<1>1. PICK F \in Nat, m \in Nat, l \in Nat :
         F = LayoutOf(W).fixed /\ l = Len(W) /\ l = 3 + F + m
  BY SoundLayout DEF HeaderBytes
<1>2. 3 <= p /\ p < 3 + F /\ p + 1 <= l
  BY <1>1, SMTT(30) DEF HeaderBytes
<1>3. PICK part, raw : part = SubSeq(W, HeaderBytes + 1, p + 1) /\ raw = SubSeq(W, 1, p + 1)
  OBVIOUS
<1>4. Append(nd.raw, W[p + 1]) = raw /\ LayoutOf(Header(nd)) = LayoutOf(W)
  BY <1>1, <1>2, <1>3, RawGrows
<1>5. Append(nd.buf, W[p + 1]) = part /\ Len(part) = (p + 1) - 3
  <2>1. /\ Append(SubSeq(W, 3 + 1, p), W[p + 1]) = SubSeq(W, 3 + 1, p + 1)
        /\ Len(SubSeq(W, 3 + 1, p + 1)) = (p + 1) - 3
    BY <1>1, <1>2, Lengthened, SMTT(30) DEF Sound
  <2> QED
    BY <1>3, <2>1 DEF HeaderBytes
<1>6. CASE p + 1 = 3 + F
  <2>1. FixedComplete(part, raw)
    <3>1. Len(part) = LayoutOf(Header(nd)).fixed
      BY <1>1, <1>4, <1>5, <1>6, SMTT(30)
    <3> QED
      BY <1>4, <1>5, <3>1 DEF NdFeed
  <2>2. Clean(part)
    <3>1. /\ p + 1 \in Nat /\ HeaderBytes \in Nat /\ HeaderBytes <= HeaderBytes
          /\ HeaderBytes <= p + 1 /\ p + 1 <= Len(W)
      BY <1>1, <1>2 DEF HeaderBytes
    <3> QED
      BY <1>3, <3>1, CleanPart
  <2>3. PICK st : st = NextState(Header(nd), TRUE)
    OBVIOUS
  <2>4. /\ nd' = InFrame(Header(nd), st, raw)
        /\ IF st = "HDR" THEN Ended("SUCCESS", raw) ELSE NoNews
    BY <2>1, <2>2, <2>3 DEF FixedComplete
  <2>5. st = IF LayoutOf(W).elem > 0 /\ LayoutOf(W).n > 0 THEN "ELEM" ELSE "HDR"
    BY <1>4, <2>3 DEF NextState
  <2>6. p + 1 = HeaderBytes + LayoutOf(W).fixed /\ p + 1 \in Nat
    BY <1>1, <1>6 DEF HeaderBytes
  <2> QED
    BY <1>3, <2>4, <2>5, <2>6, GoesOn DEF Advances
<1>7. CASE p + 1 # 3 + F
  <2>1. Len(part) # LayoutOf(Header(nd)).fixed
    BY <1>1, <1>2, <1>4, <1>5, <1>7, SMTT(30)
  <2>2. /\ nd' = [nd EXCEPT !.buf = part, !.raw = IF nd.st = "HDR" THEN @ ELSE raw]
        /\ NoNews
    BY <1>4, <1>5, <2>1 DEF NdFeed
  <2>3. nd'.st = "FIXED" /\ nd'.buf = part /\ nd'.raw = raw
    BY <2>2 DEF IsNode
  <2>4. HeaderBytes <= p + 1 /\ p + 1 < HeaderBytes + LayoutOf(W).fixed /\ p + 1 < Len(W)
    BY <1>1, <1>2, <1>7, SMTT(30) DEF HeaderBytes
  <2> QED
    BY <1>3, <2>2, <2>3, <2>4 DEF Advances, Follows
<1> QED
  BY <1>6, <1>7

\* A byte of an element.
LEMMA ElementAdvances ==
  ASSUME NEW S, NEW W, Sound(W, S), NEW p \in Nat, IsNode(nd), nd.st = "ELEM",
         nd.raw = SubSeq(W, 1, p), nd.i \in Nat, nd.i < LayoutOf(W).n,
         NEW a \in Nat, InElement(nd, W, p, a), NdFeed(W[p + 1])
  PROVE  Advances(W, p)
<1>1. PICK F \in Nat, e \in Nat, n \in Nat, l \in Nat, i \in Nat :
         /\ F = LayoutOf(W).fixed /\ e = LayoutOf(W).elem /\ n = LayoutOf(W).n
         /\ l = Len(W) /\ i = nd.i
  BY SoundLayout
<1>2. PICK b \in Nat, c \in Nat, m \in Nat :
         /\ b = i * e /\ c = (i + 1) * e /\ m = e * n
  <2>1. i * e \in Nat /\ (i + 1) * e = i * e + e
    BY <1>1, Elements, ZenonT(40)
  <2>2. e * n \in Nat
    BY <1>1, SoundLayout
  <2>3. (i + 1) * e \in Nat
    BY <2>1
  <2> QED
    BY <2>1, <2>2, <2>3
<1>3. /\ c = b + e /\ b + e <= m
      /\ i + 1 = n => b + e = m
      /\ i + 1 < n /\ e > 0 => b + e < m
  <2>1. i < n
    BY <1>1
  <2> QED
    BY <1>2, <2>1, Elements
<1>4. a = 3 + F + b /\ l = 3 + F + m /\ a <= p /\ p < a + e /\ i < n /\ e > 0
  <2>1. a = 3 + F + b /\ a <= p /\ p < a + e
    BY <1>1, <1>2 DEF InElement, HeaderBytes
  <2>2. l = 3 + F + m
    BY <1>1, <1>2, SoundLayout DEF HeaderBytes
  <2>3. i < n
    BY <1>1
  <2>4. e > 0
    BY <2>1
  <2> QED
    BY <2>1, <2>2, <2>3, <2>4
<1>0. nd.buf = SubSeq(W, a + 1, p)
  BY DEF InElement
<1>5. 3 <= a /\ 3 <= p /\ p + 1 <= l
  BY <1>3, <1>4
<1>6. PICK part, raw : part = SubSeq(W, a + 1, p + 1) /\ raw = SubSeq(W, 1, p + 1)
  OBVIOUS
<1>7. Append(nd.raw, W[p + 1]) = raw /\ LayoutOf(Header(nd)) = LayoutOf(W)
  <2>1. HeaderBytes <= p /\ p + 1 <= Len(W)
    BY <1>1, <1>5 DEF HeaderBytes
  <2> QED
    BY <1>6, <2>1, RawGrows
<1>8. Append(nd.buf, W[p + 1]) = part /\ Len(part) = (p + 1) - a
  <2>1. p + 1 <= Len(W) /\ W \in Seq(S)
    BY <1>1, <1>5 DEF Sound
  <2>2. /\ Append(SubSeq(W, a + 1, p), W[p + 1]) = SubSeq(W, a + 1, p + 1)
        /\ Len(SubSeq(W, a + 1, p + 1)) = (p + 1) - a
    BY <1>4, <2>1, Lengthened
  <2> QED
    BY <1>0, <1>6, <2>2
<1>9. CASE p + 1 = a + e
  <2>1. ElementComplete(part, raw)
    <3>1. Len(part) = LayoutOf(Header(nd)).elem
      BY <1>1, <1>7, <1>8, <1>9, SMTT(30)
    <3> QED
      BY <1>7, <1>8, <3>1 DEF NdFeed
  <2>2. Clean(part)
    <3>1. p + 1 \in Nat /\ 3 <= a /\ a <= p + 1 /\ p + 1 <= Len(W)
      BY <1>1, <1>4, <1>5
    <3> QED
      BY <1>6, <3>1, CleanPart DEF HeaderBytes
  <2>3. CASE i + 1 = n
    <3>1. nd' = InFrame(Header(nd), "HDR", raw) /\ Ended("SUCCESS", raw)
      BY <1>1, <1>7, <2>1, <2>2, <2>3 DEF ElementComplete
    <3>2. p + 1 = Len(W)
      <4>1. p + 1 = l
        BY <1>3, <1>4, <1>9, <2>3
      <4> QED
        BY <1>1, <4>1
    <3>3. raw = W
      BY <1>6, <3>2, WholeSlice DEF Sound
    <3> QED
      BY <3>1, <3>2, <3>3 DEF Ended, Ends, Advances
  <2>4. CASE i + 1 # n
    <3>1. nd' = [nd EXCEPT !.buf = << >>, !.i = @ + 1, !.raw = raw] /\ NoNews
      BY <1>1, <1>7, <2>1, <2>2, <2>4 DEF ElementComplete
    <3>2. nd'.st = "ELEM" /\ nd'.buf = << >> /\ nd'.i = i + 1 /\ nd'.raw = raw
      BY <1>1, <3>1 DEF IsNode
    <3>3. i + 1 < n
      BY <1>4, <2>4
    <3>4. p + 1 < Len(W)
      <4>1. p + 1 < l
        BY <1>3, <1>4, <1>9, <3>3
      <4> QED
        BY <1>1, <4>1
    <3>5. PICK q \in Nat : q = p + 1
      OBVIOUS
    <3>6. SubSeq(W, q + 1, q) = << >>
      BY <3>5
    <3>7. q = HeaderBytes + LayoutOf(W).fixed + nd'.i * LayoutOf(W).elem
      <4>1. q = 3 + F + c
        BY <1>3, <1>4, <1>9, <3>5
      <4> QED
        BY <1>1, <1>2, <3>2, <4>1 DEF HeaderBytes
    <3>8. q <= q /\ q < q + LayoutOf(W).elem /\ nd'.i \in Nat /\ nd'.i < LayoutOf(W).n
      <4>1. q <= q /\ q < q + e /\ i + 1 \in Nat
        BY <1>4
      <4> QED
        BY <1>1, <3>2, <3>3, <4>1
    <3>9. Follows(nd', W, q)
      <4>1. InElement(nd', W, q, q)
        BY <3>2, <3>6, <3>7, <3>8 DEF InElement
      <4> QED
        BY <1>6, <3>2, <3>5, <3>8, <4>1 DEF Follows
    <3> QED
      BY <3>1, <3>4, <3>5, <3>9 DEF Advances
  <2> QED
    BY <2>3, <2>4
<1>10. CASE p + 1 # a + e
  <2>1. Len(part) # LayoutOf(Header(nd)).elem
    BY <1>1, <1>4, <1>7, <1>8, <1>10, SMTT(30)
  <2>2. /\ nd' = [nd EXCEPT !.buf = part, !.raw = IF nd.st = "HDR" THEN @ ELSE raw]
        /\ NoNews
    BY <1>7, <1>8, <2>1 DEF NdFeed
  <2>3. nd'.st = "ELEM" /\ nd'.buf = part /\ nd'.raw = raw /\ nd'.i = nd.i
    BY <2>2 DEF IsNode
  <2>4. PICK q \in Nat : q = p + 1
    OBVIOUS
  <2>5. a <= q /\ q < a + e /\ q < l
    BY <1>3, <1>4, <1>10, <2>4
  <2>6. Follows(nd', W, q)
    <3>1. InElement(nd', W, q, a)
      <4>1. a = HeaderBytes + LayoutOf(W).fixed + nd'.i * LayoutOf(W).elem
        BY <2>3 DEF InElement
      <4>2. a <= q /\ q < a + LayoutOf(W).elem /\ nd'.buf = SubSeq(W, a + 1, q)
        BY <1>1, <1>6, <2>3, <2>4, <2>5
      <4> QED
        BY <4>1, <4>2 DEF InElement
    <3> QED
      BY <1>6, <2>3, <2>4, <3>1 DEF Follows
  <2> QED
    BY <1>1, <2>2, <2>4, <2>5, <2>6 DEF Advances
<1> QED
  BY <1>9, <1>10

\* A decoder inside a frame has not had all of it.
LEMMA FollowsInside ==
  ASSUME NEW S, NEW W, Sound(W, S), NEW p \in Nat, NEW d, Follows(d, W, p)
  PROVE  p + 1 <= Len(W)
<1>1. PICK F \in Nat, e \in Nat, n \in Nat, m \in Nat, l \in Nat :
         /\ F = LayoutOf(W).fixed /\ e = LayoutOf(W).elem /\ n = LayoutOf(W).n
         /\ m = e * n /\ l = Len(W)
  BY SoundLayout
<1>2. l = 3 + F + m
  BY <1>1, SoundLayout DEF HeaderBytes
<1>3. CASE p < 3 + F
  BY <1>1, <1>2, <1>3
<1>4. CASE ~(p < 3 + F)
  <2>1. d.i \in Nat /\ d.i < LayoutOf(W).n /\ \E a \in Nat : InElement(d, W, p, a)
    BY <1>1, <1>4, SMTT(30) DEF Follows, HeaderBytes
  <2>2. PICK i \in Nat : i = d.i /\ i < n
    BY <1>1, <2>1
  <2>3. PICK b \in Nat : b = i * e /\ b + e <= m
    BY <1>1, <2>2, Elements
  <2>4. p < 3 + F + b + e
    BY <1>1, <2>1, <2>2, <2>3 DEF InElement, HeaderBytes
  <2>5. p + 1 <= l
    BY <1>2, <2>3, <2>4
  <2> QED
    BY <1>1, <2>5
<1> QED
  BY <1>3, <1>4

\* Each byte of a sound frame brings the decoder further into it, or to its end.
LEMMA FrameAdvances ==
  ASSUME NEW S, NEW W, Sound(W, S), NEW p \in Nat, IsNode(nd), Follows(nd, W, p),
         NdFeed(W[p + 1])
  PROVE  Advances(W, p)
BY HeaderAdvances, FixedAdvances, ElementAdvances DEF Follows

-----------------------------------------------------------------------------
(* Silences.                                                               *)

\* Frames sent, and the marks of silence and damage.
Marked ==
  /\ sent \in Seq(Sendable) /\ pos \in Nat
  /\ damaged \subseteq 1..Len(sent)
  /\ after \subseteq 1..Len(sent) + 1
  /\ Len(sent) + 1 \in after => AllSent /\ nd.st = "HDR" /\ nd.buf = << >>

\* Behind a silence the node's decoder follows the frame that is on its way.
UnderWay ==
  \A i \in after \ damaged :
    i = Len(sent) /\ ~AllSent /\ Valid(i, NdAccepts) => Follows(nd, Whole(i), pos)

GapInv == IsNode(nd) /\ ndOut \in Seq(Range(ndOut)) /\ Marked /\ UnderWay /\ GapRestores

\* A valid frame is a sound one on the line, byte by byte.
LEMMA WholeFrame ==
  ASSUME Marked, NEW i \in 1..Len(sent)
  PROVE  /\ Len(Whole(i)) = Len(sent[i]) /\ Len(sent[i]) \in Nat /\ HeaderBytes <= Len(sent[i])
         /\ \A k \in 1..Len(sent[i]) : Whole(i)[k] = [sym |-> sent[i][k], frame |-> i, at |-> k]
         /\ Valid(i, NdAccepts) => Sound(Whole(i), Range(Whole(i)))
<1>1. PICK f : f = sent[i]
  OBVIOUS
<1>2. f \in Sendable
  BY <1>1 DEF Marked
<1>3. PICK n \in Nat : n = Len(f) /\ HeaderBytes <= n
  <2>1. f \in Seq(Range(f)) /\ Len(f) >= HeaderBytes
    BY <1>2, StreamAssumption
  <2>2. Len(f) \in Nat
    BY <2>1
  <2> QED
    BY <2>1, <2>2 DEF HeaderBytes
<1>4. PICK W : W = Whole(i)
  OBVIOUS
<1>5. W = [k \in 1..n |-> [sym |-> f[k], frame |-> i, at |-> k]]
  BY <1>1, <1>3, <1>4 DEF Whole
<1>6. W \in Seq(Range(W)) /\ Len(W) = n
  <2>1. DOMAIN W = 1..n
    BY <1>5
  <2>2. W \in [1..n -> Range(W)]
    BY <1>5, <2>1, SMTT(30) DEF Range
  <2> QED
    BY <2>2
<1>7. Valid(i, NdAccepts) => Sound(W, Range(W))
  BY <1>4, <1>6 DEF Valid, ValidFrame, Sound
<1> QED
  BY <1>1, <1>3, <1>4, <1>5, <1>6, <1>7

\* What a byte may do besides: a frame is reported or none.
LEMMA FeedShape ==
  ASSUME IsNode(nd), NEW byte, NdFeed(byte)
  PROVE  IsNode(nd') /\ (ndOut' = ndOut \/ \E r : ndOut' = Append(ndOut, r))
<1>1. \A n : IsNode(Drained(n))
  BY DEF IsNode, Drained
<1>2. \A h, st, raw : IsNode(InFrame(h, st, raw))
  BY DEF IsNode, InFrame
<1>3. ASSUME NEW part, NEW raw, HeaderComplete(part) \/ FixedComplete(part, raw) \/ ElementComplete(part, raw)
      PROVE  IsNode(nd') /\ (ndOut' = ndOut \/ \E r : ndOut' = Append(ndOut, r))
  <2>1. CASE HeaderComplete(part)
    <3>1. nd' = [nd EXCEPT !.buf = Tail(part)] \/ (\E n : nd' = Drained(n))
          \/ \E st : nd' = InFrame(part, st, part)
      BY <2>1 DEF HeaderComplete
    <3>2. ASSUME nd' = [nd EXCEPT !.buf = Tail(part)] PROVE IsNode(nd')
      BY <3>2 DEF IsNode
    <3>3. ndOut' = ndOut \/ \E r : ndOut' = Append(ndOut, r)
      BY <2>1 DEF HeaderComplete, Ended, NoNews
    <3> QED
      BY <1>1, <1>2, <3>1, <3>2, <3>3
  <2>2. CASE FixedComplete(part, raw)
    <3>1. (\E n : nd' = Drained(n)) \/ \E st : nd' = InFrame(Header(nd), st, raw)
      BY <2>2 DEF FixedComplete
    <3>2. ndOut' = ndOut \/ \E r : ndOut' = Append(ndOut, r)
      BY <2>2 DEF FixedComplete, Ended, NoNews
    <3> QED
      BY <1>1, <1>2, <3>1, <3>2
  <2>3. CASE ElementComplete(part, raw)
    <3>1. (\E n : nd' = Drained(n)) \/ nd' = InFrame(Header(nd), "HDR", raw)
          \/ nd' = [nd EXCEPT !.buf = << >>, !.i = @ + 1, !.raw = raw]
      BY <2>3 DEF ElementComplete
    <3>2. ASSUME nd' = [nd EXCEPT !.buf = << >>, !.i = @ + 1, !.raw = raw] PROVE IsNode(nd')
      BY <3>2 DEF IsNode
    <3>3. ndOut' = ndOut \/ \E r : ndOut' = Append(ndOut, r)
      BY <2>3 DEF ElementComplete, Ended, NoNews
    <3> QED
      BY <1>1, <1>2, <3>1, <3>2, <3>3
  <2> QED
    BY <1>3, <2>1, <2>2, <2>3
<1>4. \/ \E part, raw : HeaderComplete(part) \/ FixedComplete(part, raw) \/ ElementComplete(part, raw)
      \/ \E st : nd' = [nd EXCEPT !.drain = @ - 1, !.st = st] /\ NoNews
      \/ \E part, raw : nd' = [nd EXCEPT !.buf = part, !.raw = raw] /\ NoNews
  BY DEF NdFeed
<1>5. ASSUME NEW st, nd' = [nd EXCEPT !.drain = @ - 1, !.st = st] PROVE IsNode(nd')
  BY <1>5 DEF IsNode
<1>6. ASSUME NEW part, NEW raw, nd' = [nd EXCEPT !.buf = part, !.raw = raw] PROVE IsNode(nd')
  BY <1>6 DEF IsNode
<1> QED
  BY <1>3, <1>4, <1>5, <1>6 DEF NoNews

\* What was reported stays.
LEMMA ReportsStay ==
  ASSUME ndOut \in Seq(Range(ndOut)), ndOut' = ndOut \/ \E r : ndOut' = Append(ndOut, r)
  PROVE  ndOut' \in Seq(Range(ndOut')) /\ Range(ndOut) \subseteq Range(ndOut')
<1>1. CASE ndOut' = ndOut
  BY <1>1
<1>2. CASE \E r : ndOut' = Append(ndOut, r)
  <2>1. PICK r : ndOut' = Append(ndOut, r)
    BY <1>2
  <2>2. Append(ndOut, r) \in Seq(Range(Append(ndOut, r))) /\ Range(Append(ndOut, r)) = Range(ndOut) \cup {r}
    BY OwnElements
  <2> QED
    BY <2>1, <2>2
<1> QED
  BY <1>1, <1>2

\* The last frame while it is on its way.
LEMMA OnItsWay ==
  ASSUME Marked, ~AllSent
  PROVE  /\ Len(sent) \in 1..Len(sent) /\ Last(sent) = sent[Len(sent)]
         /\ pos # Len(sent[Len(sent)]) /\ Len(sent) + 1 \notin after
<1>1. sent # << >>
  BY DEF AllSent
<1>2. Len(sent) \in 1..Len(sent)
  BY <1>1 DEF Marked
<1>3. pos # Len(Last(sent)) /\ Last(sent) = sent[Len(sent)]
  BY <1>1 DEF AllSent, Last
<1> QED
  BY <1>2, <1>3 DEF Marked

\* A frame is begun: behind a silence the decoder holds nothing of another one.
LEMMA SendStep ==
  ASSUME GapInv, NEW f \in Sendable, SendFrame(f)
  PROVE  GapInv'
<1>1. PICK n \in Nat : n = Len(sent)
  BY DEF GapInv, Marked
<1>2. /\ sent' \in Seq(Sendable) /\ Len(sent') = n + 1 /\ sent'[n + 1] = f
      /\ \A i \in 1..n : sent'[i] = sent[i]
  BY <1>1 DEF SendFrame, GapInv, Marked
<1>3. /\ pos' = 0 /\ damaged' = damaged /\ after' = after /\ nd' = nd /\ ndOut' = ndOut /\ AllSent
  BY DEF SendFrame
<1>4. f \in Seq(Range(f)) /\ Len(f) >= 3
  BY StreamAssumption DEF HeaderBytes
<1>5. ~AllSent'
  <2>1. sent' # << >> /\ Last(sent') = f
    <3>1. sent' # << >>
      BY <1>1, <1>2
    <3> QED
      BY <1>2, <3>1 DEF Last
  <2>2. Len(f) # 0
    BY <1>4
  <2> QED
    BY <1>3, <2>1, <2>2 DEF AllSent
<1>6. damaged \subseteq 1..n /\ after \subseteq 1..n + 1
  BY <1>1 DEF GapInv, Marked
<1>7. Marked'
  <2>1. damaged \subseteq 1..n + 1 /\ after \subseteq 1..n + 1 + 1 /\ n + 1 + 1 \notin after
    BY <1>6
  <2> QED
    BY <1>2, <1>3, <2>1 DEF Marked
<1>8. \A i \in 1..n : Whole(i)' = Whole(i)
  BY <1>2 DEF Whole
<1>9. \A i \in 1..n : (Valid(i, NdAccepts)' <=> Valid(i, NdAccepts))
                      /\ (Delivered(ndOut, i)' <=> Delivered(ndOut, i))
  <2> SUFFICES ASSUME NEW i \in 1..n
               PROVE  (Valid(i, NdAccepts)' <=> Valid(i, NdAccepts))
                      /\ (Delivered(ndOut, i)' <=> Delivered(ndOut, i))
    OBVIOUS
  <2>1. Whole(i)' = Whole(i)
    BY <1>8
  <2>2. Valid(i, NdAccepts)' <=> Valid(i, NdAccepts)
    BY <2>1 DEF Valid
  <2>3. Delivered(ndOut, i)' <=> Delivered(ndOut, i)
    BY <1>3, <2>1 DEF Delivered
  <2> QED
    BY <2>2, <2>3
<1>10. UnderWay'
  <2> SUFFICES ASSUME n + 1 \in after PROVE Follows(nd, Whole(n + 1)', 0)
    BY <1>2, <1>3 DEF UnderWay
  <2>1. nd.st = "HDR" /\ nd.buf = << >>
    BY <1>1 DEF GapInv, Marked
  <2>2. PICK W : W = Whole(n + 1)'
    OBVIOUS
  <2>3. SubSeq(W, 1, 0) = << >> /\ 0 < HeaderBytes
    BY DEF HeaderBytes
  <2>4. Follows(nd, W, 0)
    BY <2>1, <2>3 DEF Follows
  <2> QED
    BY <2>2, <2>4
<1>11. GapRestores'
  <2>1. ASSUME NEW i \in Arrived' PROVE i \in 1..n /\ i \in Arrived
    <3>1. i \in 1..n + 1 /\ i < n + 1
      BY <1>2, <1>5, <2>1 DEF Arrived
    <3>2. i \in 1..n
      BY <3>1
    <3> QED
      BY <1>1, <1>3, <3>2 DEF Arrived
  <2>2. GapRestores
    BY DEF GapInv
  <2> QED
    BY <1>3, <1>9, <2>1, <2>2 DEF GapRestores
<1> QED
  BY <1>3, <1>7, <1>10, <1>11 DEF GapInv

\* A byte leaves the sender, and arrives as it was, changed or not at all: what had
\* been delivered stays so.
LEMMA LeavesKeeps ==
  ASSUME GapInv, Leaves, (UNCHANGED nd /\ NoNews) \/ \E byte : NdFeed(byte)
  PROVE  /\ IsNode(nd') /\ ndOut' \in Seq(Range(ndOut'))
         /\ pos' = pos + 1 /\ sent' = sent /\ after' = after /\ Len(sent) + 1 \notin after
         /\ Len(sent) \in 1..Len(sent)
         /\ \A i \in (after \ damaged) : i < Len(sent) /\ Valid(i, NdAccepts) => Delivered(ndOut', i)
<1>1. ~AllSent /\ pos' = pos + 1 /\ sent' = sent /\ after' = after
  BY DEF Leaves
<1>2. Len(sent) + 1 \notin after /\ Len(sent) \in 1..Len(sent)
  BY <1>1, OnItsWay DEF GapInv
<1>3. IsNode(nd') /\ (ndOut' = ndOut \/ \E r : ndOut' = Append(ndOut, r))
  BY FeedShape DEF GapInv, NoNews
<1>4. ndOut' \in Seq(Range(ndOut')) /\ Range(ndOut) \subseteq Range(ndOut')
  BY <1>3, ReportsStay DEF GapInv
<1>5. ASSUME NEW i \in after \ damaged, i < Len(sent), Valid(i, NdAccepts)
      PROVE  Delivered(ndOut', i)
  <2>1. i \in Arrived
    <3>1. i \in 1..Len(sent) + 1 /\ Len(sent) \in Nat
      BY DEF GapInv, Marked
    <3>2. i \in 1..Len(sent)
      BY <1>5, <3>1
    <3> QED
      BY <1>5, <3>2 DEF Arrived
  <2>2. Delivered(ndOut, i)
    BY <1>5, <2>1 DEF GapInv, GapRestores
  <2> QED
    BY <1>4, <2>2 DEF Delivered
<1> QED
  BY <1>1, <1>2, <1>3, <1>4, <1>5

\* A byte that is lost or changed damages the frame.
LEMMA DamageStep ==
  ASSUME GapInv, Leaves, (UNCHANGED nd /\ NoNews) \/ \E byte : NdFeed(byte),
         damaged' = damaged \cup {Len(sent)}
  PROVE  GapInv'
<1>1. /\ IsNode(nd') /\ ndOut' \in Seq(Range(ndOut'))
      /\ pos' = pos + 1 /\ sent' = sent /\ after' = after /\ Len(sent) + 1 \notin after
      /\ Len(sent) \in 1..Len(sent)
      /\ \A i \in (after \ damaged) : i < Len(sent) /\ Valid(i, NdAccepts) => Delivered(ndOut', i)
  BY LeavesKeeps
<1>2. Marked'
  <2>1. pos + 1 \in Nat
    BY DEF GapInv, Marked
  <2> QED
    BY <1>1, <2>1 DEF GapInv, Marked
<1>3. UnderWay'
  BY <1>1 DEF UnderWay
<1>4. GapRestores'
  <2> SUFFICES ASSUME NEW i \in (Arrived' \cap after') \ damaged', Valid(i, NdAccepts)'
               PROVE  Delivered(ndOut, i)'
    BY DEF GapRestores
  <2>1. i \in 1..Len(sent) /\ i # Len(sent) /\ i \in after \ damaged
    BY <1>1 DEF Arrived
  <2>2. i < Len(sent)
    BY <1>1, <2>1
  <2>3. Whole(i)' = Whole(i)
    BY <1>1 DEF Whole
  <2>4. Valid(i, NdAccepts)
    BY <2>3 DEF Valid
  <2>5. Delivered(ndOut', i)
    BY <1>1, <2>1, <2>2, <2>4
  <2> QED
    BY <2>3, <2>5 DEF Delivered
<1> QED
  BY <1>1, <1>2, <1>3, <1>4 DEF GapInv

\* A byte that arrives as it was brings the decoder further into the frame, or the
\* frame to its end.
LEMMA ArriveStep ==
  ASSUME GapInv, ByteArrives
  PROVE  GapInv'
<1>1. PICK n : n = Len(sent)
  OBVIOUS
<1>2. /\ ~AllSent /\ Leaves /\ damaged' = damaged
      /\ NdFeed([sym |-> Last(sent)[pos + 1], frame |-> n, at |-> pos + 1])
  BY <1>1 DEF ByteArrives, Leaves, Arrives
<1>3. /\ IsNode(nd') /\ ndOut' \in Seq(Range(ndOut'))
      /\ pos' = pos + 1 /\ sent' = sent /\ after' = after /\ n + 1 \notin after
      /\ n \in 1..n
      /\ \A i \in (after \ damaged) : i < n /\ Valid(i, NdAccepts) => Delivered(ndOut', i)
  BY <1>1, <1>2, LeavesKeeps
<1>4. Marked'
  <2>1. pos + 1 \in Nat
    BY DEF GapInv, Marked
  <2> QED
    BY <1>1, <1>2, <1>3, <2>1 DEF GapInv, Marked
<1>5. Last(sent) = sent[n] /\ sent # << >>
  BY <1>1, <1>2, OnItsWay DEF GapInv, AllSent
<1>6. AllSent' <=> pos + 1 = Len(sent[n])
  BY <1>3, <1>5 DEF AllSent
<1>7. \A i : Whole(i)' = Whole(i)
  BY <1>3 DEF Whole
<1>8. \A i : Valid(i, NdAccepts)' <=> Valid(i, NdAccepts)
  <2> SUFFICES ASSUME NEW i PROVE Valid(i, NdAccepts)' <=> Valid(i, NdAccepts)
    OBVIOUS
  <2>1. Whole(i)' = Whole(i)
    BY <1>7
  <2> QED
    BY <2>1 DEF Valid
<1>9. ASSUME n \in after \ damaged, Valid(n, NdAccepts)
      PROVE  /\ pos + 1 # Len(sent[n]) => Follows(nd', Whole(n), pos + 1)
             /\ pos + 1 = Len(sent[n]) => Delivered(ndOut', n)
  <2>1. Follows(nd, Whole(n), pos)
    BY <1>1, <1>2, <1>9 DEF GapInv, UnderWay
  <2>2. PICK W : W = Whole(n)
    OBVIOUS
  <2>3. /\ Len(W) = Len(sent[n]) /\ Len(W) \in Nat /\ HeaderBytes <= Len(W)
        /\ \A k \in 1..Len(W) : W[k] = [sym |-> sent[n][k], frame |-> n, at |-> k]
        /\ Sound(W, Range(W))
    BY <1>1, <1>3, <1>9, <2>2, WholeFrame DEF GapInv
  <2>4. pos \in Nat /\ pos + 1 <= Len(W)
    BY <2>1, <2>2, <2>3, FollowsInside DEF GapInv, Marked
  <2>5. W[pos + 1] = [sym |-> Last(sent)[pos + 1], frame |-> n, at |-> pos + 1]
    <3>1. pos + 1 \in 1..Len(W)
      BY <2>3, <2>4
    <3> QED
      BY <1>5, <2>3, <3>1
  <2>6. Advances(W, pos)
    BY <1>2, <2>1, <2>2, <2>3, <2>4, <2>5, FrameAdvances DEF GapInv
  <2>7. CASE pos + 1 = Len(W)
    <3>1. Ends(W)
      BY <2>3, <2>4, <2>6, <2>7 DEF Advances
    <3>2. Range(ndOut') = Range(ndOut) \cup {[raw |-> W, rsc |-> "SUCCESS"]}
      BY <3>1, OwnElements DEF Ends, GapInv
    <3>3. Delivered(ndOut', n)
      BY <2>2, <3>2 DEF Delivered
    <3> QED
      BY <2>3, <2>7, <3>3
  <2>8. CASE pos + 1 # Len(W)
    BY <2>2, <2>3, <2>6, <2>8 DEF Advances
  <2> QED
    BY <2>7, <2>8
<1>10. UnderWay'
  <2> SUFFICES ASSUME n \in after \ damaged, ~AllSent', Valid(n, NdAccepts)'
               PROVE  Follows(nd', Whole(n)', pos')
    BY <1>1, <1>2, <1>3 DEF UnderWay
  <2>1. Valid(n, NdAccepts) /\ pos + 1 # Len(sent[n])
    BY <1>6, <1>8
  <2>2. Follows(nd', Whole(n), pos + 1)
    BY <1>9, <2>1
  <2> QED
    BY <1>3, <1>7, <2>2
<1>11. GapRestores'
  <2> SUFFICES ASSUME NEW i \in (Arrived' \cap after') \ damaged', Valid(i, NdAccepts)'
               PROVE  Delivered(ndOut, i)'
    BY DEF GapRestores
  <2>1. i \in 1..n /\ (i < n \/ AllSent') /\ i \in after \ damaged /\ Valid(i, NdAccepts)
    BY <1>1, <1>2, <1>3, <1>8 DEF Arrived
  <2>2. Delivered(ndOut', i)
    <3>1. CASE i < n
      BY <1>3, <2>1, <3>1
    <3>2. CASE ~(i < n)
      <4>1. i = n /\ AllSent'
        BY <1>3, <2>1, <3>2
      <4> QED
        BY <1>6, <1>9, <2>1, <4>1
    <3> QED
      BY <3>1, <3>2
  <2> QED
    BY <1>7, <2>2 DEF Delivered
<1> QED
  BY <1>3, <1>4, <1>10, <1>11 DEF GapInv

\* A silence: a frame on its way is cut by it; behind one that has arrived the decoder
\* is at rest, unless it holds bytes of a header.
LEMMA GapStep ==
  ASSUME GapInv, Gap
  PROVE  GapInv'
<1>1. PICK n \in Nat : n = Len(sent)
  BY DEF GapInv, Marked
<1>2. /\ sent' = sent /\ pos' = pos /\ ndOut' = ndOut /\ nd' = OnGap(nd)
      /\ AllSent' <=> AllSent
  BY DEF Gap, AllSent
<1>3. IsNode(nd') /\ nd'.st = "HDR" /\ (nd.st # "HDR" \/ nd.buf = << >> => nd'.buf = << >>)
  <2>1. CASE nd.st = "HDR"
    <3>1. nd' = [nd EXCEPT !.resync = TRUE]
      BY <1>2, <2>1 DEF OnGap
    <3>2. IsNode(nd)
      BY DEF GapInv
    <3> QED
      BY <2>1, <3>1, <3>2 DEF IsNode
  <2>2. CASE nd.st # "HDR"
    <3>1. nd' = [nd EXCEPT !.st = "HDR", !.buf = << >>, !.resync = TRUE, !.raw = << >>]
      BY <1>2, <2>2 DEF OnGap
    <3>2. IsNode(nd)
      BY DEF GapInv
    <3> QED
      BY <2>2, <3>1, <3>2 DEF IsNode
  <2> QED
    BY <2>1, <2>2
<1>4. \A i : (Valid(i, NdAccepts)' <=> Valid(i, NdAccepts))
            /\ (Delivered(ndOut, i)' <=> Delivered(ndOut, i))
  <2> SUFFICES ASSUME NEW i
               PROVE  (Valid(i, NdAccepts)' <=> Valid(i, NdAccepts))
                      /\ (Delivered(ndOut, i)' <=> Delivered(ndOut, i))
    OBVIOUS
  <2>1. Whole(i)' = Whole(i)
    BY <1>2 DEF Whole
  <2>2. Valid(i, NdAccepts)' <=> Valid(i, NdAccepts)
    BY <2>1 DEF Valid
  <2>3. Delivered(ndOut, i)' <=> Delivered(ndOut, i)
    BY <1>2, <2>1 DEF Delivered
  <2> QED
    BY <2>2, <2>3
<1>5. Arrived' = Arrived /\ Arrived \subseteq 1..n
  BY <1>1, <1>2 DEF Arrived
<1>6. /\ GapRestores /\ damaged \subseteq 1..n /\ after \subseteq 1..n + 1
      /\ sent \in Seq(Sendable) /\ pos \in Nat
      /\ (n + 1 \in after => AllSent /\ nd.st = "HDR" /\ nd.buf = << >>)
  BY <1>1 DEF GapInv, Marked
<1>7. CASE AllSent
  <2>1. /\ damaged' = damaged
        /\ after' = IF nd.st = "HDR" /\ nd.buf # << >> THEN after ELSE after \cup {n + 1}
    BY <1>1, <1>7 DEF Gap
  <2>2. after' \subseteq 1..n + 1
    BY <1>6, <2>1
  <2>3. n + 1 \in after' => AllSent' /\ nd'.st = "HDR" /\ nd'.buf = << >>
    BY <1>2, <1>3, <1>6, <1>7, <2>1
  <2>4. Marked'
    BY <1>1, <1>2, <1>6, <2>1, <2>2, <2>3 DEF Marked
  <2>5. UnderWay'
    BY <1>2, <1>7 DEF UnderWay
  <2>6. GapRestores'
    <3>1. n + 1 \notin 1..n
      OBVIOUS
    <3>2. Arrived' \cap after' = Arrived \cap after
      BY <1>5, <2>1, <3>1
    <3> QED
      BY <1>4, <1>6, <2>1, <3>2 DEF GapRestores
  <2> QED
    BY <1>2, <1>3, <2>4, <2>5, <2>6 DEF GapInv
<1>8. CASE ~AllSent
  <2>1. damaged' = damaged \cup {n} /\ after' = after
    BY <1>1, <1>8 DEF Gap
  <2>2. n \in 1..n /\ n + 1 \notin after
    BY <1>1, <1>8, OnItsWay DEF GapInv
  <2>3. Marked'
    BY <1>1, <1>2, <1>6, <2>1, <2>2 DEF Marked
  <2>4. UnderWay'
    BY <1>1, <1>2, <2>1 DEF UnderWay
  <2>5. GapRestores'
    BY <1>4, <1>5, <1>6, <2>1 DEF GapRestores
  <2> QED
    BY <1>2, <1>3, <2>3, <2>4, <2>5 DEF GapInv
<1> QED
  BY <1>7, <1>8

\* Every step keeps what is known of the node over silences.
LEMMA GapInvStep ==
  ASSUME GapInv, [Next]_vars
  PROVE  GapInv'
<1>1. ASSUME UNCHANGED <<sent, pos, damaged, after, nd, ndOut>> PROVE GapInv'
  BY <1>1, SMTT(30) DEF GapInv, IsNode, Marked, UnderWay, GapRestores, AllSent, Arrived, Valid, Whole,
              Delivered
<1>2. CASE \E f \in Sendable : SendFrame(f)
  BY <1>2, SendStep
<1>3. CASE ByteArrives
  BY <1>3, ArriveStep
<1>4. CASE ByteLost
  <2>1. Leaves /\ UNCHANGED nd /\ NoNews /\ damaged' = damaged \cup {Len(sent)}
    BY <1>4 DEF ByteLost, Damages, NoNews
  <2> QED
    BY <2>1, DamageStep
<1>5. CASE \E sym \in Noise : ByteGarbled(sym)
  <2>1. Leaves /\ (\E byte : NdFeed(byte)) /\ damaged' = damaged \cup {Len(sent)}
    BY <1>5 DEF ByteGarbled, Arrives, Damages
  <2> QED
    BY <2>1, DamageStep
<1>6. CASE Gap
  BY <1>6, GapStep
<1>7. CASE Feed
  BY <1>1, <1>7 DEF Feed, senderVars
<1>8. CASE UNCHANGED vars
  BY <1>1, <1>8 DEF vars, senderVars
<1> QED
  BY <1>2, <1>3, <1>4, <1>5, <1>6, <1>7, <1>8 DEF Next

\* For the node a silence ends the damage, whatever was lost and garbled before and
\* however the frames are built: the frame that follows is delivered, unless bytes of
\* a header were held over the silence (siap_dec_on_gap).
THEOREM GapsRestore == Spec => []GapRestores
<1>1. Init => GapInv
  <2> SUFFICES ASSUME Init PROVE GapInv
    OBVIOUS
  <2>1. /\ sent = << >> /\ pos = 0 /\ damaged = {} /\ after = {} /\ ndOut = << >>
        /\ nd = [st |-> "HDR", buf |-> << >>, resync |-> FALSE, i |-> 0, drain |-> 0, raw |-> << >>]
    BY DEF Init
  <2>2. IsNode(nd)
    BY <2>1 DEF IsNode
  <2>3. ndOut \in Seq(Range(ndOut)) /\ sent \in Seq(Sendable)
    BY <2>1
  <2>4. Marked
    BY <2>1, <2>3 DEF Marked
  <2>5. UnderWay /\ GapRestores
    BY <2>1 DEF UnderWay, GapRestores
  <2> QED
    BY <2>2, <2>3, <2>4, <2>5 DEF GapInv
<1>2. GapInv /\ [Next]_vars => GapInv'
  BY GapInvStep
<1>3. GapInv => GapRestores
  BY DEF GapInv
<1> QED
  BY <1>1, <1>2, <1>3, PTL DEF Spec

-----------------------------------------------------------------------------
(* A decoder on its way along a line.  m tells of the line, by the number  *)
(* of bytes before a place: where the damage ends (hurt), where frames     *)
(* begin (starts) and end, where three bytes look like a header (cand) or  *)
(* are accepted as one (acc), how much that announces (total) and where    *)
(* the frames begin that are valid (good).  Behind base the decoder is at  *)
(* the beginning of a frame or looks for one, behind far it misses none.   *)

Map(m) ==
  /\ m.len \in Nat /\ m.hurt \in Nat /\ m.most \in Nat /\ m.base \in Nat /\ m.far \in Nat
  /\ \A s \in m.starts : s \in Nat /\ m.hurt <= s /\ s <= m.len
  /\ m.len \in m.starts
  /\ \A s \in m.starts : s # m.len =>
       /\ m.end[s] \in m.starts /\ s + 3 <= m.end[s]
       /\ \A t \in m.starts : t <= s \/ m.end[s] <= t
  /\ \A q \in m.acc : q \in m.cand /\ m.total[q] \in Nat /\ 3 <= m.total[q] /\ m.total[q] <= m.most
  /\ \A q \in m.acc : q \in m.starts => q # m.len /\ m.end[q] = q + m.total[q]
  /\ \A g \in m.good : g \in m.starts /\ g # m.len /\ g \in m.acc
  /\ \A q \in m.cand : q >= m.hurt /\ q \notin m.starts =>
       \E g \in m.good : g >= m.far /\ g < q /\ q < m.end[g]
  /\ \/ m.hurt = 0 /\ m.base = 0 /\ m.far = 0
     \/ m.base = m.hurt + m.most /\ m.far = m.base + 2

\* A decoder that has done with q of the n bytes that came, rs telling whether it
\* looks for a header and del which frames it has delivered.
Reading(m, n, q, rs, del) ==
  /\ q >= m.base => q \in m.starts \/ (rs /\ q <= n)
  /\ \A g \in m.good : g >= m.far /\ g < q => m.end[g] <= q /\ g \in del

\* Behind the damage nothing passes for a header but the beginning of a frame.
LEMMA CandidateStarts ==
  ASSUME NEW m, Map(m), NEW n \in Nat, NEW q \in Nat, NEW rs, NEW del, Reading(m, n, q, rs, del),
         q \in m.cand, q >= m.hurt
  PROVE  q \in m.starts
<1>1. SUFFICES ASSUME NEW g \in m.good, g >= m.far, g < q, q < m.end[g] PROVE FALSE
  BY DEF Map
<1>2. m.end[g] <= q
  BY <1>1 DEF Reading
<1>3. m.end[g] \in Nat
  BY DEF Map
<1> QED
  BY <1>1, <1>2, <1>3

\* A byte is passed over.
LEMMA Skips ==
  ASSUME NEW m, Map(m), NEW n \in Nat, NEW q \in Nat, NEW rs, NEW del, Reading(m, n, q, rs, del),
         q \notin m.cand, q + 1 <= n
  PROVE  Reading(m, n, q + 1, TRUE, del)
<1>1. ASSUME NEW g \in m.good, g >= m.far, g < q + 1
      PROVE  m.end[g] <= q + 1 /\ g \in del
  <2>1. g \in Nat /\ g \in m.acc /\ m.end[g] \in Nat
    BY DEF Map
  <2>2. g # q
    BY <2>1 DEF Map
  <2>3. g < q
    BY <1>1, <2>1, <2>2
  <2> QED
    BY <1>1, <2>1, <2>3 DEF Reading
<1> QED
  BY <1>1 DEF Reading

\* A header, or what was taken for one, is dropped: it is none of a valid frame.
LEMMA Drops ==
  ASSUME NEW m, Map(m), NEW n \in Nat, NEW q \in Nat, NEW rs, NEW del, Reading(m, n, q, rs, del),
         rs = FALSE \/ q \in m.cand, q \notin m.good, q + 3 <= n
  PROVE  Reading(m, n, q + 3, TRUE, del)
<1>1. ASSUME NEW g \in m.good, g >= m.far, g < q + 3
      PROVE  m.end[g] <= q + 3 /\ g \in del
  <2>1. g \in Nat /\ g \in m.starts /\ m.end[g] \in Nat /\ g # q
    BY DEF Map
  <2>2. CASE g < q
    BY <1>1, <2>1, <2>2 DEF Reading
  <2>3. CASE g > q
    <3>1. g <= q + 2 /\ m.far \in Nat /\ m.base \in Nat /\ m.hurt \in Nat /\ m.most \in Nat
      BY <1>1, <2>1 DEF Map
    <3>2. q >= m.base /\ q >= m.hurt
      BY <1>1, <2>1, <3>1 DEF Map
    <3>3. q \in m.starts
      <4>1. CASE rs = FALSE
        BY <3>2, <4>1 DEF Reading
      <4>2. CASE q \in m.cand
        BY <3>2, <4>2, CandidateStarts
      <4> QED
        BY <4>1, <4>2
    <3>4. q # m.len
      BY <2>1, <2>3 DEF Map
    <3>5. m.end[q] \in Nat /\ q + 3 <= m.end[q] /\ (g <= q \/ m.end[q] <= g)
      BY <2>1, <3>3, <3>4 DEF Map
    <3> QED
      BY <2>1, <2>3, <3>1, <3>5
  <2> QED
    BY <2>1, <2>2, <2>3
<1>2. Reading(m, n, q + 3, TRUE, del)
  BY <1>1 DEF Reading
<1> QED
  BY <1>2

\* What a header announces is taken, all of it: as a frame, or because it is none.
LEMMA Takes ==
  ASSUME NEW m, Map(m), NEW n \in Nat, NEW q \in Nat, NEW rs, NEW del, Reading(m, n, q, rs, del),
         q \in m.acc, NEW del2, del \subseteq del2, q \in m.good => q \in del2, NEW rs2, NEW n2
  PROVE  q + m.total[q] \in Nat /\ Reading(m, n2, q + m.total[q], rs2, del2)
<1>1. PICK t \in Nat : t = m.total[q] /\ t <= m.most /\ 3 <= t
  BY DEF Map
<1>2. m.base \in Nat /\ m.far \in Nat /\ m.hurt \in Nat /\ m.most \in Nat
  BY DEF Map
<1>3. CASE q >= m.hurt
  <2>1. q \in m.starts
    BY <1>3, CandidateStarts DEF Map
  <2>2. q # m.len /\ m.end[q] = q + t /\ q + t \in m.starts
    BY <1>1, <2>1 DEF Map
  <2>3. ASSUME NEW g \in m.good, g >= m.far, g < q + t
        PROVE  m.end[g] <= q + t /\ g \in del2
    <3>1. g \in Nat /\ g \in m.starts /\ m.end[g] \in Nat
      BY DEF Map
    <3>2. g <= q
      <4>1. g <= q \/ m.end[q] <= g
        BY <2>1, <2>2, <3>1 DEF Map
      <4> QED
        BY <2>2, <2>3, <3>1, <4>1
    <3>3. CASE g = q
      BY <2>2, <3>3
    <3>4. CASE g < q
      <4>1. m.end[g] <= q /\ g \in del
        BY <2>3, <3>4 DEF Reading
      <4> QED
        BY <3>1, <4>1
    <3> QED
      BY <3>1, <3>2, <3>3, <3>4
  <2> QED
    BY <1>1, <2>2, <2>3 DEF Reading
<1>4. CASE q < m.hurt
  <2>1. m.base = m.hurt + m.most /\ m.far = m.base + 2
    BY <1>2, <1>4 DEF Map
  <2>2. q + t < m.base
    BY <1>1, <1>2, <1>4, <2>1
  <2>3. ~(q + t >= m.base)
    BY <1>1, <1>2, <2>2
  <2>4. ASSUME NEW g \in m.good, g >= m.far, g < q + t PROVE FALSE
    <3>1. g \in Nat
      BY DEF Map
    <3> QED
      BY <1>1, <1>2, <2>1, <2>2, <2>4, <3>1
  <2> QED
    BY <1>1, <2>3, <2>4 DEF Reading
<1> QED
  BY <1>2, <1>3, <1>4

\* A header is accepted, and its frame is waited for.
LEMMA Begins ==
  ASSUME NEW m, Map(m), NEW n \in Nat, NEW q \in Nat, NEW rs, NEW del, Reading(m, n, q, rs, del),
         q \in m.acc, NEW n2
  PROVE  Reading(m, n2, q, FALSE, del)
<1>1. q >= m.base => q >= m.hurt
  BY DEF Map
<1>2. q >= m.base => q \in m.starts
  BY <1>1, CandidateStarts DEF Map
<1> QED
  BY <1>2 DEF Reading

\* Where there is nothing to be done all valid frames that came are delivered.
LEMMA Passed ==
  ASSUME NEW m, Map(m), NEW n \in Nat, NEW q \in Nat, NEW rs, NEW del, Reading(m, n, q, rs, del),
         q + 3 > n \/ (q \in m.acc /\ q + m.total[q] > n),
         NEW g \in m.good, g >= m.far, m.end[g] <= n
  PROVE  g \in del
<1>1. g \in Nat /\ g \in m.starts /\ g # m.len /\ m.end[g] \in Nat /\ g + 3 <= m.end[g]
  BY DEF Map
<1>2. SUFFICES ASSUME ~(g < q) PROVE FALSE
  BY DEF Reading
<1>3. q <= g
  BY <1>1, <1>2
<1>4. q \in m.acc /\ q + m.total[q] > n
  BY <1>1, <1>3
<1>5. PICK t \in Nat : t = m.total[q] /\ t <= m.most /\ 3 <= t
  BY <1>4 DEF Map
<1>6. m.base \in Nat /\ m.far \in Nat /\ m.hurt \in Nat /\ m.most \in Nat
  BY DEF Map
<1>7. CASE q >= m.hurt
  <2>1. q \in m.starts
    BY <1>4, <1>7, CandidateStarts DEF Map
  <2>2. q # m.len /\ m.end[q] = q + t /\ (g <= q \/ m.end[q] <= g)
    BY <1>1, <1>4, <1>5, <2>1 DEF Map
  <2>3. CASE g <= q
    <3>1. g = q
      BY <1>1, <1>3, <2>3
    <3> QED
      BY <1>4, <1>5, <2>2, <3>1
  <2>4. CASE m.end[q] <= g
    BY <1>1, <1>4, <1>5, <2>2, <2>4
  <2> QED
    BY <2>2, <2>3, <2>4
<1>8. CASE q < m.hurt
  <2>1. m.base = m.hurt + m.most /\ m.far = m.base + 2
    BY <1>6, <1>8 DEF Map
  <2> QED
    BY <1>1, <1>4, <1>5, <1>6, <1>8, <2>1
<1> QED
  BY <1>6, <1>7, <1>8

-----------------------------------------------------------------------------
(* The line as it will be when the frame on its way has come: the bytes    *)
(* that arrived and those that are still to leave.                         *)

Letter(frames, i, k) == [sym |-> frames[i][k], frame |-> i, at |-> k]
WholeOf(frames, i) == [k \in 1..Len(frames[i]) |-> Letter(frames, i, k)]

\* How much of the last frame is still to leave, and the line with it.
LeftOf(frames, p) == IF frames = << >> THEN 0 ELSE Len(Last(frames)) - p
CourseOf(frames, p, bytes) ==
  [k \in 1..Len(bytes) + LeftOf(frames, p) |->
     IF k <= Len(bytes) THEN bytes[k] ELSE Letter(frames, Len(frames), p + (k - Len(bytes)))]
Course == CourseOf(sent, pos, line)

\* Behind h every byte stands where its frame has it, between the bytes that are
\* before and behind it there; behind the last one of a frame another begins.
Regular(X, h, frames) ==
  \A k \in h + 1..Len(X) :
    /\ X[k].frame \in 1..Len(frames) /\ X[k].at \in 1..Len(frames[X[k].frame])
    /\ \A j \in 1..Len(frames[X[k].frame]) :
         (k - X[k].at) + j > h => /\ (k - X[k].at) + j <= Len(X)
                                  /\ X[(k - X[k].at) + j] = Letter(frames, X[k].frame, j)
    /\ k < Len(X) /\ X[k].at = Len(frames[X[k].frame]) => X[k + 1].at = 1

StartsOf(X, h) == { q \in h..Len(X) : q = Len(X) \/ X[q + 1].at = 1 }
FrameAt(X, frames, s) == frames[X[s + 1].frame]
Window(X, q) == SubSeq(X, q + 1, q + 3)

MapOf(X, h, frames, base, far, acc, cand, good) ==
  [len |-> Len(X), hurt |-> h, most |-> MaxTotal, base |-> base, far |-> far,
   starts |-> StartsOf(X, h), end |-> [s \in Nat |-> s + Len(FrameAt(X, frames, s))],
   acc |-> acc, cand |-> cand, total |-> [q \in Nat |-> Total(Window(X, q))], good |-> good]

\* The longest frame.
LEMMA LongestFrame ==
  /\ MaxTotal \in Nat /\ MaxTotal >= HeaderBytes
  /\ \A h : Resolves(h) => Total(h) <= MaxTotal
<1>1. \A t \in Types : Size(t) \in Nat
  <2> SUFFICES ASSUME NEW t \in Types PROVE Size(t) \in Nat
    OBVIOUS
  <2>1. PICK a \in Nat, b \in Nat, c \in Nat : a = LAYOUT[t].fixed /\ b = LAYOUT[t].elem /\ c = LAYOUT[t].n
    BY StreamAssumption
  <2>2. PICK d \in Nat : d = b * c
    OBVIOUS
  <2>3. Size(t) = a + d
    BY <2>1, <2>2 DEF Size
  <2> QED
    BY <2>3
<1> DEFINE Longest(m) == \A t \in Types : Size(t) <= m
           top == CHOOSE m \in { Size(t) : t \in Types } : Longest(m)
<1>2. \E m \in { Size(t) : t \in Types } : Longest(m)
  BY StreamAssumption
<1>3. top \in { Size(t) : t \in Types } /\ Longest(top)
  <2> HIDE DEF Longest
  <2> QED
    BY <1>2
<1>4. MaxTotal = HeaderBytes + top
  BY DEF MaxTotal
<1> HIDE DEF top
<1>5. top \in Nat
  BY <1>1, <1>3
<1>6. ASSUME NEW h, Resolves(h) PROVE Total(h) <= MaxTotal
  <2>1. PICK t \in Types : t = Sym(h, 2)
    BY <1>6 DEF Resolves, Defined
  <2>2. Total(h) = 3 + Size(t)
    BY <2>1 DEF Total, PayloadLen, HeaderBytes
  <2>3. Size(t) \in Nat /\ Size(t) <= top
    BY <1>1, <1>3
  <2> QED
    BY <1>4, <1>5, <2>2, <2>3 DEF HeaderBytes
<1> QED
  BY <1>4, <1>5, <1>6 DEF HeaderBytes

\* The decoders see nothing of a byte but its symbol.
LEMMA SameSymbols ==
  ASSUME NEW a, NEW b, a[1].sym = b[1].sym, a[2].sym = b[2].sym, a[3].sym = b[3].sym
  PROVE  /\ Total(a) = Total(b) /\ Resolves(a) = Resolves(b) /\ LayoutOf(a) = LayoutOf(b)
         /\ GwCandidate(a) = GwCandidate(b) /\ NdCandidate(a) = NdCandidate(b)
         /\ HeaderVerdict(a, GwAccepts) = HeaderVerdict(b, GwAccepts)
         /\ HeaderVerdict(a, NdAccepts) = HeaderVerdict(b, NdAccepts)
BY DEF Total, PayloadLen, Size, Resolves, Defined, LayoutOf, GwCandidate, NdCandidate, HeaderVerdict,
       GwAccepts, NdAccepts, Sym

\* A header that is accepted resolves, and looks like one.
LEMMA AcceptedLooks ==
  ASSUME NEW a,
         HeaderVerdict(a, GwAccepts) = "SUCCESS" \/ HeaderVerdict(a, NdAccepts) = "SUCCESS"
  PROVE  Resolves(a) /\ NdCandidate(a) /\ GwCandidate(a)
BY DEF HeaderVerdict, GwCandidate, NdCandidate

\* A window shows the three bytes behind q.
LEMMA WindowIs ==
  ASSUME NEW X, NEW q \in Nat
  PROVE  Window(X, q)[1] = X[q + 1] /\ Window(X, q)[2] = X[q + 2] /\ Window(X, q)[3] = X[q + 3]
<1>1. SubSeq(X, q + 1, q + 3) = [k \in 1..3 |-> X[q + k]]
  BY SliceOf
<1>2. Window(X, q) = [k \in 1..3 |-> X[q + k]]
  BY <1>1 DEF Window
<1>3. 1 \in 1..3 /\ 2 \in 1..3 /\ 3 \in 1..3
  OBVIOUS
<1> QED
  BY <1>2, <1>3

\* The frames that can be sent.
LEMMA SentFrame ==
  ASSUME NEW frames \in Seq(Sendable), NEW i \in 1..Len(frames)
  PROVE  /\ frames[i] \in Sendable /\ Len(frames[i]) \in Nat /\ 3 <= Len(frames[i])
         /\ Len(WholeOf(frames, i)) = Len(frames[i])
         /\ \A k \in 1..Len(frames[i]) : WholeOf(frames, i)[k] = Letter(frames, i, k)
         /\ Len(Spelled(frames[i])) = Len(frames[i])
         /\ \A k \in 1..Len(frames[i]) : Spelled(frames[i])[k] = [sym |-> frames[i][k]]
         /\ Spelled(frames[i]) \in Seq([sym : Range(frames[i])])
<1>1. PICK f : f = frames[i] /\ f \in Sendable
  OBVIOUS
<1>2. f \in Seq(Range(f)) /\ Len(f) >= HeaderBytes
  BY <1>1, StreamAssumption
<1>3. PICK n \in Nat : n = Len(f) /\ 3 <= n
  BY <1>2 DEF HeaderBytes
<1>4. PICK W : W = [k \in 1..n |-> Letter(frames, i, k)] /\ W = WholeOf(frames, i)
  BY <1>1, <1>3 DEF WholeOf
<1>5. Len(W) = n
  <2>1. DOMAIN W = 1..n
    BY <1>4
  <2>2. W \in [1..n -> Range(W)]
    BY <1>4, <2>1 DEF Range
  <2> QED
    BY <2>2
<1>6. PICK P : P = [k \in 1..n |-> [sym |-> f[k]]] /\ P = Spelled(f)
  BY <1>3 DEF Spelled
<1>7. P \in Seq([sym : Range(f)]) /\ Len(P) = n
  <2>1. \A k \in 1..n : f[k] \in Range(f)
    BY <1>2, <1>3 DEF Range
  <2>2. PICK U : U = [sym : Range(f)]
    OBVIOUS
  <2>3. \A k \in 1..n : [sym |-> f[k]] \in U
    BY <2>1, <2>2
  <2>4. P \in [1..n -> U]
    BY <1>6, <2>3
  <2>5. P \in Seq(U) /\ Len(P) = n
    BY <2>4
  <2> QED
    BY <2>2, <2>5
<1> QED
  BY <1>1, <1>3, <1>4, <1>5, <1>6, <1>7, ZenonT(40)

\* A byte behind the damage and its frame.
LEMMA BytePlaced ==
  ASSUME NEW X, NEW h, NEW frames, Regular(X, h, frames), NEW k \in h + 1..Len(X),
         NEW i, i = X[k].frame, NEW a, a = X[k].at
  PROVE  /\ i \in 1..Len(frames) /\ a \in 1..Len(frames[i])
         /\ \A j \in 1..Len(frames[i]) :
              (k - a) + j > h => (k - a) + j <= Len(X) /\ X[(k - a) + j] = Letter(frames, i, j)
         /\ k < Len(X) /\ a = Len(frames[i]) => X[k + 1].at = 1
BY DEF Regular

\* A frame from its beginning on.
LEMMA FrameFrom ==
  ASSUME NEW S, NEW X \in Seq(S), NEW h \in Nat, NEW frames \in Seq(Sendable), Regular(X, h, frames),
         NEW s \in StartsOf(X, h), s # Len(X)
  PROVE  /\ s \in Nat /\ h <= s /\ X[s + 1].frame \in 1..Len(frames)
         /\ \A j \in 1..Len(FrameAt(X, frames, s)) : X[s + j] = Letter(frames, X[s + 1].frame, j)
         /\ s + Len(FrameAt(X, frames, s)) <= Len(X)
         /\ s + Len(FrameAt(X, frames, s)) \in StartsOf(X, h)
         /\ \A t \in StartsOf(X, h) : t <= s \/ s + Len(FrameAt(X, frames, s)) <= t
<1>1. PICK N \in Nat : N = Len(X)
  OBVIOUS
<1>2. s \in Nat /\ h <= s /\ s < N /\ X[s + 1].at = 1 /\ s + 1 \in h + 1..N
  BY <1>1 DEF StartsOf
<1>3. PICK i : i = X[s + 1].frame
  OBVIOUS
<1>4. i \in 1..Len(frames)
  BY <1>1, <1>2, <1>3 DEF Regular
<1>5. PICK n \in Nat : n = Len(frames[i]) /\ 3 <= n /\ n = Len(FrameAt(X, frames, s))
  BY <1>3, <1>4, SentFrame DEF FrameAt
<1>6. ASSUME NEW j \in 1..n PROVE s + j <= N /\ X[s + j] = Letter(frames, i, j)
  <2>1. (s + 1 - 1) + j > h /\ (s + 1 - 1) + j = s + j
    BY <1>2
  <2>2. PICK k, o : k \in h + 1..Len(X) /\ k = s + 1 /\ o = 1
    BY <1>1, <1>2
  <2>3. \A l \in 1..Len(frames[i]) :
          (k - o) + l > h => (k - o) + l <= Len(X) /\ X[(k - o) + l] = Letter(frames, i, l)
    <3>1. k \in h + 1..Len(X) /\ i = X[k].frame /\ o = X[k].at
      BY <1>2, <1>3, <2>2
    <3> QED
      BY <3>1, BytePlaced, SMTT(30)
  <2>4. k - o = s
    BY <1>2, <2>2
  <2> QED
    BY <1>1, <1>2, <1>5, <2>1, <2>3, <2>4
<1>7. s + n <= N /\ X[s + n] = Letter(frames, i, n)
  BY <1>5, <1>6
<1>8. s + n \in StartsOf(X, h)
  <2>1. CASE s + n = N
    BY <1>1, <1>2, <1>5, <2>1, SMTT(30) DEF StartsOf
  <2>2. CASE s + n # N
    <3>1. s + n < N /\ s + n \in h + 1..N
      <4>1. s + n <= N /\ s + n # N /\ h + 1 <= s + n /\ s + n \in Nat
        BY <1>2, <1>5, <1>7, <2>2, SMTT(30)
      <4> QED
        BY <1>1, <4>1
    <3>2. X[s + n].frame = i /\ X[s + n].at = n
      BY <1>7 DEF Letter
    <3>3. X[s + n + 1].at = 1
      BY <1>1, <1>5, <3>1, <3>2 DEF Regular
    <3> QED
      BY <1>1, <1>2, <1>5, <3>1, <3>3 DEF StartsOf
  <2> QED
    BY <2>1, <2>2
<1>9. ASSUME NEW t \in StartsOf(X, h), ~(t <= s), ~(s + n <= t) PROVE FALSE
  <2>1. t \in Nat /\ s < t /\ t < s + n /\ (t = N \/ X[t + 1].at = 1)
    BY <1>1, <1>2, <1>5, <1>9, SMTT(30) DEF StartsOf
  <2>2. t # N
    BY <1>2, <1>5, <1>7, <2>1
  <2>3. PICK j \in 1..n : t + 1 = s + j /\ j # 1
    <3>1. (t + 1) - s \in 1..n /\ t + 1 = s + ((t + 1) - s) /\ (t + 1) - s # 1
      BY <1>2, <1>5, <2>1
    <3> QED
      BY <3>1
  <2>4. X[t + 1] = Letter(frames, i, j)
    BY <1>6, <2>3
  <2> QED
    BY <2>1, <2>2, <2>3, <2>4 DEF Letter
<1> QED
  BY <1>1, <1>2, <1>3, <1>4, <1>5, <1>6, <1>7, <1>8, <1>9

\* Three bytes that begin inside a frame are none that it, being quiet, has not.
LEMMA InsideQuiet ==
  ASSUME NEW S, NEW X \in Seq(S), NEW h \in Nat, NEW frames \in Seq(Sendable), Regular(X, h, frames),
         NEW q \in Nat, h <= q, q + 3 <= Len(X), q \notin StartsOf(X, h),
         Quiet(frames[X[q + 1].frame])
  PROVE  ~GwCandidate(Window(X, q))
<1>1. PICK N \in Nat : N = Len(X)
  OBVIOUS
<1>2. q + 1 \in h + 1..N /\ q < N
  BY <1>1
<1>3. PICK i, a : i = X[q + 1].frame /\ a = X[q + 1].at
  OBVIOUS
<1>4. i \in 1..Len(frames) /\ a \in 1..Len(frames[i])
  BY <1>1, <1>2, <1>3 DEF Regular
<1>5. PICK f : f = frames[i]
  OBVIOUS
<1>6. PICK n \in Nat : n = Len(f) /\ 3 <= n
  BY <1>4, <1>5, SentFrame
<1>7. a \in 2..n
  <2>1. a # 1
    BY <1>1, <1>2, <1>3, SMTT(30) DEF StartsOf
  <2> QED
    BY <1>4, <1>5, <1>6, <2>1
<1>8. \A j \in 1..n : (q + 1 - a) + j > h => (q + 1 - a) + j <= N /\ X[(q + 1 - a) + j] = Letter(frames, i, j)
  <2>1. PICK k : k = q + 1 /\ k \in h + 1..Len(X)
    BY <1>1, <1>2
  <2>2. \A l \in 1..Len(frames[i]) :
          (k - a) + l > h => (k - a) + l <= Len(X) /\ X[(k - a) + l] = Letter(frames, i, l)
    <3>1. k \in h + 1..Len(X) /\ i = X[k].frame /\ a = X[k].at /\ Regular(X, h, frames)
      BY <1>3, <2>1
    <3>2. SUFFICES ASSUME NEW l \in 1..Len(frames[i]), (k - a) + l > h
                   PROVE  (k - a) + l <= Len(X) /\ X[(k - a) + l] = Letter(frames, i, l)
      OBVIOUS
    <3>3. \A j \in 1..Len(frames[X[k].frame]) :
            (k - X[k].at) + j > h => /\ (k - X[k].at) + j <= Len(X)
                                     /\ X[(k - X[k].at) + j] = Letter(frames, X[k].frame, j)
      BY <3>1 DEF Regular
    <3> QED
      BY <3>1, <3>2, <3>3
  <2>3. k - a = q + 1 - a
    BY <1>6, <1>7, <2>1
  <2> QED
    BY <1>1, <1>5, <1>6, <2>2, <2>3
<1>9. \A j \in 1..3 : a - 1 + j <= n => X[q + j] = Letter(frames, i, a - 1 + j)
  <2> SUFFICES ASSUME NEW j \in 1..3, a - 1 + j <= n PROVE X[q + j] = Letter(frames, i, a - 1 + j)
    OBVIOUS
  <2>1. a - 1 + j \in 1..n /\ (q + 1 - a) + (a - 1 + j) = q + j /\ q + j > h
    BY <1>6, <1>7, SMTT(30)
  <2> QED
    BY <1>8, <2>1
<1>10. \E g \in Sendable : \A j \in 1..3 : a - 1 + j > n =>
          a - 1 + j - n \in 1..Len(g) /\ X[q + j].sym = g[a - 1 + j - n]
  <2>1. CASE a + 2 <= n
    <3>1. f \in Sendable /\ \A j \in 1..3 : ~(a - 1 + j > n)
      BY <1>4, <1>5, <1>6, <1>7, <2>1, SentFrame, SMTT(30)
    <3> QED
      BY <3>1
  <2>2. CASE ~(a + 2 <= n)
    <3>1. PICK e \in Nat : e = q + 1 - a + n /\ q + 1 <= e /\ e < q + 3
      <4>1. q + 1 - a + n \in Nat /\ q + 1 <= q + 1 - a + n /\ q + 1 - a + n < q + 3
        BY <1>6, <1>7, <2>2, SMTT(30)
      <4> QED
        BY <4>1
    <3>2. e \in h + 1..N /\ e < N /\ e # N
      BY <1>1, <3>1, SMTT(30)
    <3>3. X[e] = Letter(frames, i, n)
      <4>1. n \in 1..n /\ (q + 1 - a) + n = e /\ e > h
        BY <1>6, <1>7, <3>1, <3>2, SMTT(30)
      <4> QED
        BY <1>8, <4>1
    <3>4. X[e].frame = i /\ X[e].at = n
      BY <3>3 DEF Letter
    <3>5. X[e + 1].at = 1
      BY <1>1, <1>5, <1>6, <3>2, <3>4 DEF Regular
    <3>6. e \in StartsOf(X, h)
      BY <1>1, <3>2, <3>5 DEF StartsOf
    <3>7. PICK c : c = X[e + 1].frame
      OBVIOUS
    <3>8. PICK g : g = frames[c] /\ g = FrameAt(X, frames, e)
      BY <3>7 DEF FrameAt
    <3>9. c \in 1..Len(frames) /\ \A j \in 1..Len(g) : X[e + j] = Letter(frames, c, j)
      BY <1>1, <3>2, <3>6, <3>7, <3>8, FrameFrom, SMTT(30)
    <3>10. g \in Sendable /\ Len(g) \in Nat /\ 3 <= Len(g)
      BY <3>8, <3>9, SentFrame
    <3>11. ASSUME NEW j \in 1..3, a - 1 + j > n
           PROVE  a - 1 + j - n \in 1..Len(g) /\ X[q + j].sym = g[a - 1 + j - n]
      <4>1. PICK k \in 1..Len(g) : k = a - 1 + j - n /\ q + j = e + k
        <5>1. PICK w \in Nat : w = Len(g) /\ 3 <= w
          BY <3>10
        <5>2. j \in 1..3 /\ a \in 2..n /\ n \in Nat /\ q \in Nat /\ a - 1 + j > n
          BY <1>6, <1>7, <3>11
        <5>3. a - 1 + j - n \in 1..w
          BY <5>1, <5>2
        <5>4. e = q + 1 - a + n
          BY <3>1
        <5>5. q + j = e + (a - 1 + j - n)
          BY <5>2, <5>4
        <5> QED
          BY <5>1, <5>3, <5>5
      <4>2. X[q + j] = Letter(frames, c, k)
        BY <3>9, <4>1
      <4>3. X[q + j].sym = frames[c][k]
        BY <4>2 DEF Letter
      <4> QED
        BY <3>8, <4>1, <4>3
    <3> QED
      BY <3>10, <3>11
  <2> QED
    BY <2>1, <2>2
<1>11. PICK g \in Sendable : \A j \in 1..3 : a - 1 + j > n =>
          a - 1 + j - n \in 1..Len(g) /\ X[q + j].sym = g[a - 1 + j - n]
  BY <1>10
<1>12. PICK F, G : F = Spelled(f) /\ G = Spelled(g)
  OBVIOUS
<1>13. /\ Len(F) = n /\ \A k \in 1..n : F[k] = [sym |-> f[k]]
       /\ F \in Seq([sym : Range(f)])
  BY <1>4, <1>5, <1>6, <1>12, SentFrame
<1>14. /\ Len(G) = Len(g) /\ Len(g) \in Nat /\ \A k \in 1..Len(g) : G[k] = [sym |-> g[k]]
       /\ G \in Seq([sym : Range(g)])
  <2>1. PICK one : one = <<g>>
    OBVIOUS
  <2>2. one \in Seq(Sendable) /\ 1 \in 1..Len(one) /\ one[1] = g
    BY <2>1
  <2> QED
    BY <1>12, <2>2, SentFrame, ZenonT(40)
<1>15. PICK t : t = F \o G
  OBVIOUS
<1>16. /\ \A k \in 1..n : t[k] = [sym |-> f[k]]
       /\ \A k \in 1..Len(g) : t[n + k] = [sym |-> g[k]]
  <2>1. PICK U : U = [sym : Range(f)] \cup [sym : Range(g)]
    OBVIOUS
  <2>2. F \in Seq(U) /\ G \in Seq(U)
    <3>1. PICK A, B : A = [sym : Range(f)] /\ B = [sym : Range(g)]
      OBVIOUS
    <3>2. F \in Seq(A) /\ G \in Seq(B) /\ A \subseteq U /\ B \subseteq U
      BY <1>13, <1>14, <2>1, <3>1
    <3> QED
      BY <3>2, SMTT(30)
  <2>3. (\A k \in 1..Len(F) : t[k] = F[k]) /\ \A k \in 1..Len(G) : t[Len(F) + k] = G[k]
    BY <1>15, <2>2, Concatenated
  <2> QED
    BY <1>13, <1>14, <2>3
<1>17. PICK w : w = SubSeq(t, a, a + 2)
  OBVIOUS
<1>18. w = [j \in 1..3 |-> t[a - 1 + j]]
  <2>1. PICK b \in Nat : a = b + 1
    <3>1. a - 1 \in Nat /\ a = (a - 1) + 1
      BY <1>7
    <3> QED
      BY <3>1
  <2>2. PICK r \in Nat : r = 3
    OBVIOUS
  <2>4. SubSeq(t, b + 1, b + r) = [j \in 1..r |-> t[b + j]]
    BY SliceOf
  <2>3. a + 2 = b + 3 /\ a - 1 = b
    BY <2>1
  <2> QED
    BY <1>17, <2>1, <2>2, <2>3, <2>4
<1>19. \A j \in 1..3 : w[j].sym = X[q + j].sym
  <2> SUFFICES ASSUME NEW j \in 1..3 PROVE w[j].sym = X[q + j].sym
    OBVIOUS
  <2>1. w[j] = t[a - 1 + j]
    BY <1>18
  <2>2. CASE a - 1 + j <= n
    <3>1. a - 1 + j \in 1..n
      BY <1>6, <1>7, <2>2
    <3>4. t[a - 1 + j] = [sym |-> f[a - 1 + j]]
      BY <1>16, <3>1
    <3>2. w[j].sym = f[a - 1 + j]
      BY <2>1, <3>4
    <3>3. X[q + j].sym = frames[i][a - 1 + j]
      BY <1>9, <2>2, SMTT(30) DEF Letter
    <3> QED
      BY <1>5, <3>2, <3>3
  <2>3. CASE a - 1 + j > n
    <3>1. PICK k \in 1..Len(g) : k = a - 1 + j - n /\ X[q + j].sym = g[k]
      BY <1>11, <2>3
    <3>2. a - 1 + j = n + k
      <4>1. a \in Nat /\ j \in Nat /\ n \in Nat
        BY <1>6, <1>7
      <4>2. k = a - 1 + j - n
        BY <3>1
      <4> QED
        BY <4>1, <4>2
    <3>4. t[n + k] = [sym |-> g[k]]
      BY <1>16
    <3>3. w[j].sym = g[k]
      BY <2>1, <3>2, <3>4, SMTT(30)
    <3> QED
      BY <3>1, <3>3
  <2> QED
    BY <1>6, <1>7, <2>2, <2>3
<1>20. ~GwCandidate(w)
  <2>1. ~GwCandidate(SubSeq(Spelled(f) \o Spelled(g), a, a + HeaderBytes - 1))
    BY <1>3, <1>5, <1>6, <1>7, <1>11 DEF Quiet
  <2>2. a + HeaderBytes - 1 = a + 2
    BY <1>7 DEF HeaderBytes
  <2> QED
    BY <1>12, <1>15, <1>17, <2>1, <2>2
<1>21. GwCandidate(Window(X, q)) = GwCandidate(w)
  <2>1. PICK v : v = Window(X, q)
    OBVIOUS
  <2>2. v[1] = X[q + 1] /\ v[2] = X[q + 2] /\ v[3] = X[q + 3]
    BY <2>1, WindowIs, SMTT(30)
  <2>3. w[1].sym = X[q + 1].sym /\ w[2].sym = X[q + 2].sym /\ w[3].sym = X[q + 3].sym
    BY <1>19
  <2>4. v[1].sym = w[1].sym /\ v[2].sym = w[2].sym /\ v[3].sym = w[3].sym
    BY <2>2, <2>3
  <2> QED
    BY <2>1, <2>4, SameSymbols
<1> QED
  BY <1>20, <1>21

\* Where the decoders accept a header, where they would look at one, and where a
\* frame begins that is valid for them.
GwAcc(X)  == { q \in 0..Len(X) : q + 3 <= Len(X) /\ HeaderVerdict(Window(X, q), GwAccepts) = "SUCCESS" }
NdAcc(X)  == { q \in 0..Len(X) : q + 3 <= Len(X) /\ HeaderVerdict(Window(X, q), NdAccepts) = "SUCCESS" }
GwCand(X) == { q \in 0..Len(X) : q + 3 <= Len(X) /\ GwCandidate(Window(X, q)) }
NdCand(X) == { q \in 0..Len(X) : q + 3 <= Len(X) /\ NdCandidate(Window(X, q)) }
GwGood(X, h, frames) ==
  { s \in StartsOf(X, h) : s # Len(X) /\ ValidFrame(WholeOf(frames, X[s + 1].frame), GwAccepts) }
NdGood(X, h, frames) ==
  { s \in StartsOf(X, h) : s # Len(X) /\ ValidFrame(WholeOf(frames, X[s + 1].frame), NdAccepts) }

\* The line is undamaged, or the damage is over.
Undamaged(X, h, base, far) ==
  h = 0 /\ base = 0 /\ far = 0 /\ ViolationsQuiet /\ \A k \in 1..Len(X) : X[k].at <= k
DamageOver(h, base, far) == base = h + MaxTotal /\ far = base + 2 /\ AllQuiet

\* A slice is clean when its bytes are.
LEMMA CleanSlice ==
  ASSUME NEW s, NEW a \in Nat, NEW n \in Nat
  PROVE  Clean(SubSeq(s, a + 1, a + n)) <=> \A k \in 1..n : s[a + k].sym # Bad
<1>1. PICK t : t = SubSeq(s, a + 1, a + n)
  OBVIOUS
<1>2. t = [k \in 1..n |-> s[a + k]]
  BY <1>1, SliceOf
<1>3. DOMAIN t = 1..n /\ \A k \in 1..n : t[k] = s[a + k]
  BY <1>2
<1>4. Clean(t) <=> \A k \in 1..n : t[k].sym # Bad
  BY <1>3 DEF Clean, Sym
<1> QED
  BY <1>1, <1>3, <1>4

\* A frame that is valid as it is spelled is valid on the line.
LEMMA SpelledValid ==
  ASSUME NEW frames \in Seq(Sendable), NEW i \in 1..Len(frames)
  PROVE  /\ ValidFrame(Spelled(frames[i]), GwAccepts) => ValidFrame(WholeOf(frames, i), GwAccepts)
         /\ ValidFrame(Spelled(frames[i]), NdAccepts) => ValidFrame(WholeOf(frames, i), NdAccepts)
<1>1. PICK f, W, P : f = frames[i] /\ W = WholeOf(frames, i) /\ P = Spelled(f)
  BY SMTT(30)
<1>2. PICK m \in Nat : Len(f) = 3 + m
  <2>1. Len(f) \in Nat /\ 3 <= Len(f)
    BY <1>1, SentFrame
  <2>2. Len(f) - 3 \in Nat /\ Len(f) = 3 + (Len(f) - 3)
    BY <2>1
  <2> QED
    BY <2>2, ZenonT(40)
<1>3. Len(W) = 3 + m /\ Len(P) = 3 + m
  BY <1>1, <1>2, SentFrame
<1>4. \A k \in 1..3 + m : W[k].sym = f[k] /\ P[k].sym = f[k]
  <2> SUFFICES ASSUME NEW k \in 1..3 + m PROVE W[k].sym = f[k] /\ P[k].sym = f[k]
    OBVIOUS
  <2>1. k \in 1..Len(f)
    BY <1>2
  <2>2. W[k] = Letter(frames, i, k) /\ P[k] = [sym |-> f[k]]
    BY <1>1, <2>1, SentFrame
  <2> QED
    BY <1>1, <2>2 DEF Letter
<1>5. W[1].sym = P[1].sym /\ W[2].sym = P[2].sym /\ W[3].sym = P[3].sym
  BY <1>4
<1>6. /\ Total(W) = Total(P)
      /\ HeaderVerdict(W, GwAccepts) = HeaderVerdict(P, GwAccepts)
      /\ HeaderVerdict(W, NdAccepts) = HeaderVerdict(P, NdAccepts)
  BY <1>5, SameSymbols
<1>7. Clean(SubSeq(W, 3 + 1, 3 + m)) <=> Clean(SubSeq(P, 3 + 1, 3 + m))
  <2>1. Clean(SubSeq(W, 3 + 1, 3 + m)) <=> \A k \in 1..m : W[3 + k].sym # Bad
    BY CleanSlice
  <2>2. Clean(SubSeq(P, 3 + 1, 3 + m)) <=> \A k \in 1..m : P[3 + k].sym # Bad
    BY CleanSlice
  <2>3. \A k \in 1..m : W[3 + k].sym = P[3 + k].sym
    <3>1. \A k \in 1..m : 3 + k \in 1..3 + m
      OBVIOUS
    <3> QED
      BY <1>4, <3>1
  <2> QED
    BY <2>1, <2>2, <2>3
<1>8. HeaderBytes = 3
  BY DEF HeaderBytes
<1> QED
  BY <1>1, <1>3, <1>6, <1>7, <1>8 DEF ValidFrame

\* A frame on the line shows its header, and if a decoder accepts that it is as long
\* as it announces.
LEMMA HeaderFrom ==
  ASSUME NEW S, NEW X \in Seq(S), NEW h \in Nat, NEW frames \in Seq(Sendable), Regular(X, h, frames),
         NEW s \in StartsOf(X, h), s # Len(X), WellFormed, NEW i, i = X[s + 1].frame
  PROVE  /\ Len(FrameAt(X, frames, s)) \in Nat /\ 3 <= Len(FrameAt(X, frames, s)) /\ s + 3 <= Len(X)
         /\ HeaderVerdict(Window(X, s), GwAccepts) = HeaderVerdict(WholeOf(frames, i), GwAccepts)
         /\ HeaderVerdict(Window(X, s), NdAccepts) = HeaderVerdict(WholeOf(frames, i), NdAccepts)
         /\ \/ HeaderVerdict(Window(X, s), GwAccepts) = "SUCCESS"
            \/ HeaderVerdict(Window(X, s), NdAccepts) = "SUCCESS"
            => Len(FrameAt(X, frames, s)) = Total(Window(X, s))
<1>1. PICK f : f = frames[i] /\ f = FrameAt(X, frames, s)
  BY DEF FrameAt
<1>2. /\ s \in Nat /\ i \in 1..Len(frames) /\ s + Len(f) <= Len(X)
      /\ \A j \in 1..Len(f) : X[s + j] = Letter(frames, i, j)
  BY <1>1, FrameFrom
<1>3. PICK W, P : W = WholeOf(frames, i) /\ P = Spelled(f)
  OBVIOUS
<1>4. /\ f \in Sendable /\ Len(f) \in Nat /\ 3 <= Len(f)
      /\ \A k \in 1..Len(f) : W[k] = Letter(frames, i, k)
      /\ \A k \in 1..Len(f) : P[k] = [sym |-> f[k]]
  <2>1. f \in Sendable /\ Len(f) \in Nat /\ 3 <= Len(f)
    BY <1>1, <1>2, SentFrame, ZenonT(40)
  <2>2. \A k \in 1..Len(f) : WholeOf(frames, i)[k] = Letter(frames, i, k)
    BY <1>1, <1>2, SentFrame, ZenonT(40)
  <2>4. \A k \in 1..Len(frames[i]) : Spelled(frames[i])[k] = [sym |-> frames[i][k]]
    BY <1>2, SentFrame
  <2>3. \A k \in 1..Len(f) : Spelled(f)[k] = [sym |-> f[k]]
    BY <1>1, <2>4
  <2> QED
    BY <1>3, <2>1, <2>2, <2>3
<1>5. 1 \in 1..Len(f) /\ 2 \in 1..Len(f) /\ 3 \in 1..Len(f)
  BY <1>4
<1>6. PICK v : v = Window(X, s) /\ v[1] = X[s + 1] /\ v[2] = X[s + 2] /\ v[3] = X[s + 3]
  BY <1>2, WindowIs, ZenonT(40)
<1>7. v[1] = W[1] /\ v[2] = W[2] /\ v[3] = W[3]
  BY <1>2, <1>4, <1>5, <1>6, SMTT(30)
<1>8. v[1].sym = P[1].sym /\ v[2].sym = P[2].sym /\ v[3].sym = P[3].sym
  <2>1. v[1].sym = f[1] /\ v[2].sym = f[2] /\ v[3].sym = f[3]
    <3>1. v[1] = Letter(frames, i, 1) /\ v[2] = Letter(frames, i, 2) /\ v[3] = Letter(frames, i, 3)
      BY <1>2, <1>5, <1>6
    <3>2. v[1].sym = frames[i][1] /\ v[2].sym = frames[i][2] /\ v[3].sym = frames[i][3]
      BY <3>1 DEF Letter
    <3> QED
      BY <1>1, <3>2
  <2>2. P[1].sym = f[1] /\ P[2].sym = f[2] /\ P[3].sym = f[3]
    <3>1. P[1] = [sym |-> f[1]] /\ P[2] = [sym |-> f[2]] /\ P[3] = [sym |-> f[3]]
      BY <1>4, <1>5
    <3> QED
      BY <3>1
  <2> QED
    BY <2>1, <2>2
<1>9. /\ HeaderVerdict(v, GwAccepts) = HeaderVerdict(W, GwAccepts)
      /\ HeaderVerdict(v, NdAccepts) = HeaderVerdict(W, NdAccepts)
  BY <1>7, SameHeader
<1>10. /\ HeaderVerdict(v, GwAccepts) = HeaderVerdict(P, GwAccepts)
       /\ HeaderVerdict(v, NdAccepts) = HeaderVerdict(P, NdAccepts)
       /\ Total(v) = Total(P)
  BY <1>8, SameSymbols
<1>11. HeaderVerdict(P, GwAccepts) = "SUCCESS" \/ HeaderVerdict(P, NdAccepts) = "SUCCESS"
          => Len(f) = Total(P)
  BY <1>3, <1>4 DEF WellFormed
<1>12. s + 3 <= Len(X)
  BY <1>2, <1>4
<1> QED
  BY <1>1, <1>3, <1>4, <1>6, <1>9, <1>10, <1>11, <1>12

\* What both decoders need to know of the line.
LEMMA MapHolds ==
  ASSUME NEW S, NEW X \in Seq(S), NEW h \in Nat, h <= Len(X), NEW frames \in Seq(Sendable),
         Regular(X, h, frames), NEW base, NEW far, WellFormed,
         Undamaged(X, h, base, far) \/ DamageOver(h, base, far),
         NEW acc, NEW cand, NEW good,
         acc \subseteq cand,
         \A q \in acc : /\ Resolves(Window(X, q))
                        /\ \/ HeaderVerdict(Window(X, q), GwAccepts) = "SUCCESS"
                           \/ HeaderVerdict(Window(X, q), NdAccepts) = "SUCCESS",
         \A q \in cand : q \in Nat /\ q + 3 <= Len(X) /\ GwCandidate(Window(X, q)),
         \A g \in good : g \in StartsOf(X, h) /\ g # Len(X) /\ g \in acc,
         ViolationsQuiet => \A s \in StartsOf(X, h) : s # Len(X) => s \in good \/ Quiet(FrameAt(X, frames, s))
  PROVE  Map(MapOf(X, h, frames, base, far, acc, cand, good))
<1>1. PICK m : m = MapOf(X, h, frames, base, far, acc, cand, good)
  OBVIOUS
<1>2. PICK N \in Nat : N = Len(X)
  OBVIOUS
<1>3. /\ m.len = N /\ m.hurt = h /\ m.most = MaxTotal /\ m.base = base /\ m.far = far
      /\ m.starts = StartsOf(X, h) /\ m.acc = acc /\ m.cand = cand /\ m.good = good
      /\ \A s \in Nat : m.end[s] = s + Len(FrameAt(X, frames, s))
      /\ \A q \in Nat : m.total[q] = Total(Window(X, q))
  BY <1>1, <1>2 DEF MapOf
<1>4. MaxTotal \in Nat /\ MaxTotal >= 3
  BY LongestFrame DEF HeaderBytes
<1>5. /\ base \in Nat /\ far \in Nat
      /\ (h = 0 /\ base = 0 /\ far = 0) \/ (base = h + MaxTotal /\ far = base + 2)
  <2>1. CASE Undamaged(X, h, base, far)
    <3>1. h = 0 /\ base = 0 /\ far = 0
      BY <2>1 DEF Undamaged
    <3> QED
      BY <3>1
  <2>2. CASE DamageOver(h, base, far)
    <3>1. base = h + MaxTotal /\ far = base + 2
      BY <2>2 DEF DamageOver
    <3>2. base \in Nat
      BY <1>4, <3>1
    <3> QED
      BY <3>1, <3>2
  <2> QED
    BY <2>1, <2>2
<1>6. \A s \in StartsOf(X, h) : s \in Nat /\ h <= s /\ s <= N
  BY <1>2 DEF StartsOf
<1>7. N \in StartsOf(X, h)
  BY <1>2 DEF StartsOf
<1>8. ASSUME NEW s \in StartsOf(X, h), s # N
      PROVE  /\ m.end[s] \in StartsOf(X, h) /\ s + 3 <= m.end[s]
             /\ \A t \in StartsOf(X, h) : t <= s \/ m.end[s] <= t
  <2>1. m.end[s] = s + Len(FrameAt(X, frames, s)) /\ s \in Nat
    BY <1>3, <1>6
  <2>2. Len(FrameAt(X, frames, s)) \in Nat /\ 3 <= Len(FrameAt(X, frames, s))
    BY <1>2, <1>8, HeaderFrom
  <2>3. /\ s + Len(FrameAt(X, frames, s)) \in StartsOf(X, h)
        /\ \A t \in StartsOf(X, h) : t <= s \/ s + Len(FrameAt(X, frames, s)) <= t
    BY <1>2, <1>8, FrameFrom
  <2> QED
    BY <2>1, <2>2, <2>3
<1>9. ASSUME NEW q \in acc
      PROVE  q \in cand /\ m.total[q] \in Nat /\ 3 <= m.total[q] /\ m.total[q] <= MaxTotal
  <2>1. q \in cand /\ q \in Nat /\ m.total[q] = Total(Window(X, q)) /\ Resolves(Window(X, q))
    BY <1>3
  <2>2. PICK w : w = Window(X, q)
    OBVIOUS
  <2>3. Total(w) \in Nat /\ Total(w) >= 3 /\ Total(w) <= MaxTotal
    BY <2>1, <2>2, TotalIsNumber, LongestFrame DEF HeaderBytes
  <2> QED
    BY <2>1, <2>2, <2>3
<1>10. ASSUME NEW q \in acc, q \in StartsOf(X, h)
       PROVE  q # N /\ m.end[q] = q + m.total[q]
  <2>1. q \in Nat /\ q + 3 <= N
    BY <1>2
  <2>2. q # N
    BY <2>1
  <2>3. Len(FrameAt(X, frames, q)) = Total(Window(X, q))
    BY <1>2, <1>10, <2>2, HeaderFrom
  <2> QED
    BY <1>3, <2>1, <2>2, <2>3
<1>11. ASSUME NEW q \in cand, q >= h, q \notin StartsOf(X, h)
       PROVE  \E g \in good : g >= far /\ g < q /\ q < m.end[g]
  <2>1. q \in Nat /\ h <= q /\ q + 3 <= N /\ GwCandidate(Window(X, q))
    BY <1>2, <1>11
  <2>2. ~Quiet(frames[X[q + 1].frame])
    BY <1>2, <1>11, <2>1, InsideQuiet
  <2>3. PICK i, a, k : i = X[k].frame /\ a = X[k].at /\ k = q + 1
    OBVIOUS
  <2>4. k \in h + 1..N
    BY <2>1, <2>3
  <2>5. i \in 1..Len(frames) /\ a \in 1..Len(frames[i])
    BY <1>2, <2>3, <2>4 DEF Regular
  <2>6. Undamaged(X, h, base, far)
    <3>1. frames[i] \in Sendable
      BY <2>5, SentFrame
    <3> QED
      BY <2>2, <2>3, <3>1 DEF DamageOver, AllQuiet
  <2>7. h = 0 /\ far = 0 /\ a <= k /\ ViolationsQuiet
    BY <1>2, <2>3, <2>4, <2>6 DEF Undamaged
  <2>8. PICK n \in Nat : n = Len(frames[i]) /\ 3 <= n
    BY <2>5, SentFrame
  <2>9. a \in 1..n
    BY <2>5, <2>8
  <2>10. PICK s \in Nat : s = k - a
    <3>1. k - a \in Nat
      BY <2>1, <2>3, <2>7, <2>9
    <3> QED
      BY <3>1
  <2>11. a # 1
    <3>1. q \in h..N /\ (a = 1 => q \in StartsOf(X, h))
      BY <1>2, <2>1, <2>3 DEF StartsOf
    <3> QED
      BY <1>11, <3>1
  <2>12. s < q /\ q < s + n /\ s + 1 <= N /\ (k - a) + 1 = s + 1 /\ (k - a) + 1 > h
    BY <2>1, <2>3, <2>7, <2>9, <2>10, <2>11, SMTT(30)
  <2>13. X[s + 1] = Letter(frames, i, 1)
    <3>1. 1 \in 1..Len(frames[X[k].frame]) /\ (k - X[k].at) + 1 > h
      BY <2>3, <2>8, <2>12, SMTT(30)
    <3>2. X[(k - X[k].at) + 1] = Letter(frames, X[k].frame, 1)
      BY <1>2, <2>4, <3>1 DEF Regular
    <3> QED
      BY <2>3, <2>12, <3>2
  <2>14. X[s + 1].frame = i /\ X[s + 1].at = 1
    BY <2>13 DEF Letter
  <2>15. s \in StartsOf(X, h) /\ s # N
    BY <1>2, <2>7, <2>12, <2>14 DEF StartsOf
  <2>16. FrameAt(X, frames, s) = frames[i]
    BY <2>14 DEF FrameAt
  <2>17. s \in good
    BY <1>2, <2>2, <2>3, <2>7, <2>15, <2>16
  <2>18. m.end[s] = s + n
    BY <1>3, <2>8, <2>16
  <2> QED
    BY <2>7, <2>12, <2>17, <2>18, SMTT(30)
<1>12. \A g \in good : g \in StartsOf(X, h) /\ g # N /\ g \in acc
  BY <1>2
<1>13. Map(m)
  <2>1. m.len \in Nat /\ m.hurt \in Nat /\ m.most \in Nat /\ m.base \in Nat /\ m.far \in Nat
    BY <1>3, <1>4, <1>5
  <2>2. \A s \in m.starts : s \in Nat /\ m.hurt <= s /\ s <= m.len
    BY <1>3, <1>6
  <2>3. m.len \in m.starts
    BY <1>3, <1>7
  <2>4. \A s \in m.starts : s # m.len =>
       /\ m.end[s] \in m.starts /\ s + 3 <= m.end[s]
       /\ \A t \in m.starts : t <= s \/ m.end[s] <= t
    BY <1>3, <1>8, ZenonT(40)
  <2>5. \A q \in m.acc : q \in m.cand /\ m.total[q] \in Nat /\ 3 <= m.total[q] /\ m.total[q] <= m.most
    BY <1>3, <1>9
  <2>6. \A q \in m.acc : q \in m.starts => q # m.len /\ m.end[q] = q + m.total[q]
    BY <1>3, <1>10
  <2>7. \A g \in m.good : g \in m.starts /\ g # m.len /\ g \in m.acc
    BY <1>3, <1>12
  <2>8. \A q \in m.cand : q >= m.hurt /\ q \notin m.starts =>
          \E g \in m.good : g >= m.far /\ g < q /\ q < m.end[g]
    BY <1>3, <1>11
  <2>9. \/ m.hurt = 0 /\ m.base = 0 /\ m.far = 0
        \/ m.base = m.hurt + m.most /\ m.far = m.base + 2
    BY <1>3, <1>5
  <2> QED
    BY <2>1, <2>2, <2>3, <2>4, <2>5, <2>6, <2>7, <2>8, <2>9 DEF Map
<1> QED
  BY <1>1, <1>13

\* The line as the gateway's decoder sees it, and as the node's does.
GwMap(X, h, frames, base, far) ==
  MapOf(X, h, frames, base, far, GwAcc(X), GwCand(X), GwGood(X, h, frames))
NdMap(X, h, frames, base, far) ==
  MapOf(X, h, frames, base, far, NdAcc(X), NdCand(X), NdGood(X, h, frames))

\* What the gateway needs to know of the line.
LEMMA GwMapHolds ==
  ASSUME NEW S, NEW X \in Seq(S), NEW h \in Nat, h <= Len(X), NEW frames \in Seq(Sendable),
         Regular(X, h, frames), NEW base, NEW far, WellFormed,
         Undamaged(X, h, base, far) \/ DamageOver(h, base, far)
  PROVE  Map(GwMap(X, h, frames, base, far))
<1>1. PICK acc, cand, good : acc = GwAcc(X) /\ cand = GwCand(X) /\ good = GwGood(X, h, frames)
  OBVIOUS
<1>2. ASSUME NEW q \in acc
      PROVE  /\ q \in cand /\ Resolves(Window(X, q))
             /\ HeaderVerdict(Window(X, q), GwAccepts) = "SUCCESS"
  <2>1. q \in 0..Len(X) /\ q + 3 <= Len(X) /\ HeaderVerdict(Window(X, q), GwAccepts) = "SUCCESS"
    BY <1>1 DEF GwAcc
  <2>2. Resolves(Window(X, q)) /\ GwCandidate(Window(X, q))
    BY <2>1, AcceptedLooks
  <2> QED
    BY <1>1, <2>1, <2>2 DEF GwCand
<1>3. \A q \in cand : q \in Nat /\ q + 3 <= Len(X) /\ GwCandidate(Window(X, q))
  BY <1>1 DEF GwCand
<1>4. ASSUME NEW g \in good
      PROVE  g \in StartsOf(X, h) /\ g # Len(X) /\ g \in acc
  <2>1. /\ g \in StartsOf(X, h) /\ g # Len(X)
        /\ HeaderVerdict(WholeOf(frames, X[g + 1].frame), GwAccepts) = "SUCCESS"
    BY <1>1 DEF GwGood, ValidFrame
  <2>2. /\ g + 3 <= Len(X)
        /\ HeaderVerdict(Window(X, g), GwAccepts) = HeaderVerdict(WholeOf(frames, X[g + 1].frame), GwAccepts)
    BY <2>1, HeaderFrom
  <2>3. g \in 0..Len(X)
    BY <2>1 DEF StartsOf
  <2> QED
    BY <1>1, <2>1, <2>2, <2>3 DEF GwAcc
<1>5. ASSUME ViolationsQuiet, NEW s \in StartsOf(X, h), s # Len(X)
      PROVE  s \in good \/ Quiet(FrameAt(X, frames, s))
  <2>1. PICK i : i = X[s + 1].frame /\ i \in 1..Len(frames)
    BY <1>5, FrameFrom
  <2>2. frames[i] \in Sendable /\ FrameAt(X, frames, s) = frames[i]
    BY <2>1, SentFrame DEF FrameAt
  <2>3. Quiet(frames[i]) \/ ValidFrame(WholeOf(frames, i), GwAccepts)
    BY <1>5, <2>1, <2>2, SpelledValid DEF ViolationsQuiet
  <2> QED
    BY <1>1, <1>5, <2>1, <2>2, <2>3 DEF GwGood
<1>6. acc \subseteq cand
  BY <1>2
<1>7. Map(MapOf(X, h, frames, base, far, acc, cand, good))
  BY <1>2, <1>3, <1>4, <1>5, <1>6, MapHolds
<1> QED
  BY <1>1, <1>7 DEF GwMap

\* What the node needs to know of it.
LEMMA NdMapHolds ==
  ASSUME NEW S, NEW X \in Seq(S), NEW h \in Nat, h <= Len(X), NEW frames \in Seq(Sendable),
         Regular(X, h, frames), NEW base, NEW far, WellFormed,
         Undamaged(X, h, base, far) \/ DamageOver(h, base, far)
  PROVE  Map(NdMap(X, h, frames, base, far))
<1>1. PICK acc, cand, good : acc = NdAcc(X) /\ cand = NdCand(X) /\ good = NdGood(X, h, frames)
  OBVIOUS
<1>2. ASSUME NEW q \in acc
      PROVE  /\ q \in cand /\ Resolves(Window(X, q))
             /\ HeaderVerdict(Window(X, q), NdAccepts) = "SUCCESS"
  <2>1. q \in 0..Len(X) /\ q + 3 <= Len(X) /\ HeaderVerdict(Window(X, q), NdAccepts) = "SUCCESS"
    BY <1>1 DEF NdAcc
  <2>2. Resolves(Window(X, q)) /\ NdCandidate(Window(X, q))
    BY <2>1, AcceptedLooks
  <2> QED
    BY <1>1, <2>1, <2>2 DEF NdCand
<1>3. \A q \in cand : q \in Nat /\ q + 3 <= Len(X) /\ GwCandidate(Window(X, q))
  BY <1>1 DEF NdCand, NdCandidate, GwCandidate
<1>4. ASSUME NEW g \in good
      PROVE  g \in StartsOf(X, h) /\ g # Len(X) /\ g \in acc
  <2>1. /\ g \in StartsOf(X, h) /\ g # Len(X)
        /\ HeaderVerdict(WholeOf(frames, X[g + 1].frame), NdAccepts) = "SUCCESS"
    BY <1>1 DEF NdGood, ValidFrame
  <2>2. /\ g + 3 <= Len(X)
        /\ HeaderVerdict(Window(X, g), NdAccepts) = HeaderVerdict(WholeOf(frames, X[g + 1].frame), NdAccepts)
    BY <2>1, HeaderFrom
  <2>3. g \in 0..Len(X)
    BY <2>1 DEF StartsOf
  <2> QED
    BY <1>1, <2>1, <2>2, <2>3 DEF NdAcc
<1>5. ASSUME ViolationsQuiet, NEW s \in StartsOf(X, h), s # Len(X)
      PROVE  s \in good \/ Quiet(FrameAt(X, frames, s))
  <2>1. PICK i : i = X[s + 1].frame /\ i \in 1..Len(frames)
    BY <1>5, FrameFrom
  <2>2. frames[i] \in Sendable /\ FrameAt(X, frames, s) = frames[i]
    BY <2>1, SentFrame DEF FrameAt
  <2>3. Quiet(frames[i]) \/ ValidFrame(WholeOf(frames, i), NdAccepts)
    BY <1>5, <2>1, <2>2, SpelledValid DEF ViolationsQuiet
  <2> QED
    BY <1>1, <1>5, <2>1, <2>2, <2>3 DEF NdGood
<1>6. acc \subseteq cand
  BY <1>2
<1>7. Map(MapOf(X, h, frames, base, far, acc, cand, good))
  BY <1>2, <1>3, <1>4, <1>5, <1>6, MapHolds
<1> QED
  BY <1>1, <1>7 DEF NdMap

-----------------------------------------------------------------------------
(* The gateway's decoder on the line.                                      *)

\* The beginnings of the frames that out reports.
DeliveredAt(out, X, h, frames) ==
  { s \in StartsOf(X, h) :
      s # Len(X) /\ [raw |-> WholeOf(frames, X[s + 1].frame), rsc |-> "SUCCESS"] \in Range(out) }

\* The rest of a rest.
LEMMA RestOfRest ==
  ASSUME NEW S, NEW L \in Seq(S), NEW q \in Nat, NEW t \in Nat, q + t <= Len(L)
  PROVE  /\ Rest(SubSeq(L, q + 1, Len(L)), t) = SubSeq(L, (q + t) + 1, Len(L))
         /\ Len(SubSeq(L, q + 1, Len(L))) = Len(L) - q
         /\ SubSeq(L, q + 1, Len(L)) \in Seq(S)
         /\ \A k \in 1..(Len(L) - q) : SubSeq(L, q + 1, Len(L))[k] = L[q + k]
<1>1. PICK r \in Nat : Len(L) = q + (t + r)
  <2>1. Len(L) - (q + t) \in Nat /\ Len(L) = q + (t + (Len(L) - (q + t)))
    OBVIOUS
  <2> QED
    BY <2>1, ZenonT(40)
<1>2. PICK m \in Nat : m = t + r
  OBVIOUS
<1>3. PICK b : b = SubSeq(L, q + 1, q + m)
  OBVIOUS
<1>4. b = [k \in 1..m |-> L[q + k]]
  BY <1>3, SliceOf
<1>5. b \in Seq(S) /\ Len(b) = m
  <2>1. \A k \in 1..m : L[q + k] \in S
    <3>1. \A k \in 1..m : q + k \in 1..Len(L)
      BY <1>1, <1>2
    <3> QED
      BY <3>1, SMTT(30)
  <2>2. b \in [1..m -> S]
    BY <1>4, <2>1
  <2> QED
    BY <2>2
<1>6. SubSeq(b, t + 1, t + r) = [k \in 1..r |-> b[t + k]]
  BY SliceOf
<1>7. SubSeq(L, (q + t) + 1, (q + t) + r) = [k \in 1..r |-> L[(q + t) + k]]
  BY SliceOf
<1>8. \A k \in 1..r : b[t + k] = L[(q + t) + k]
  <2> SUFFICES ASSUME NEW k \in 1..r PROVE b[t + k] = L[(q + t) + k]
    OBVIOUS
  <2>1. t + k \in 1..m /\ q + (t + k) = (q + t) + k
    BY <1>2
  <2> QED
    BY <1>4, <2>1
<1>9. SubSeq(b, t + 1, t + r) = SubSeq(L, (q + t) + 1, (q + t) + r)
  BY <1>6, <1>7, <1>8
<1>10. Rest(b, t) = SubSeq(b, t + 1, t + r)
  BY <1>2, <1>5 DEF Rest
<1>11. (q + t) + r = Len(L) /\ q + m = Len(L) /\ Len(L) - q = m
  BY <1>1, <1>2
<1> QED
  BY <1>3, <1>4, <1>5, <1>9, <1>10, <1>11

\* What is in the buffer is what is on the line.
LEMMA BufferShows ==
  ASSUME NEW S, NEW L \in Seq(S), NEW X, Len(X) \in Nat, Len(L) <= Len(X),
         \A k \in 1..Len(L) : X[k] = L[k],
         NEW q \in Nat, q <= Len(L), NEW b, b = SubSeq(L, q + 1, Len(L))
  PROVE  Len(b) = Len(L) - q /\ b \in Seq(S) /\ \A k \in 1..Len(b) : b[k] = X[q + k]
<1>1. /\ Len(b) = Len(L) - q /\ b \in Seq(S)
      /\ \A k \in 1..(Len(L) - q) : b[k] = L[q + k]
  <2>1. q + 0 <= Len(L) /\ 0 \in Nat
    OBVIOUS
  <2> QED
    BY <2>1, RestOfRest
<1>2. \A k \in 1..(Len(L) - q) : q + k \in 1..Len(L)
  OBVIOUS
<1> QED
  BY <1>1, <1>2

\* The first three bytes tell what the decoders ask of a header.
LEMMA BufferLooks ==
  ASSUME NEW X, NEW q \in Nat, Len(X) \in Nat, q + 3 <= Len(X),
         NEW b, \A k \in 1..3 : b[k] = X[q + k]
  PROVE  /\ GwCandidate(b) <=> q \in GwCand(X)
         /\ NdCandidate(b) <=> q \in NdCand(X)
         /\ HeaderVerdict(b, GwAccepts) = "SUCCESS" <=> q \in GwAcc(X)
         /\ HeaderVerdict(b, NdAccepts) = "SUCCESS" <=> q \in NdAcc(X)
         /\ Total(b) = Total(Window(X, q)) /\ LayoutOf(b) = LayoutOf(Window(X, q))
<1>1. PICK v : v = Window(X, q) /\ v[1] = X[q + 1] /\ v[2] = X[q + 2] /\ v[3] = X[q + 3]
  BY WindowIs
<1>2. b[1] = v[1] /\ b[2] = v[2] /\ b[3] = v[3]
  BY <1>1
<1>3. /\ GwCandidate(b) = GwCandidate(v) /\ Total(b) = Total(v) /\ LayoutOf(b) = LayoutOf(v)
      /\ NdCandidate(b) = NdCandidate(v)
      /\ HeaderVerdict(b, GwAccepts) = HeaderVerdict(v, GwAccepts)
      /\ HeaderVerdict(b, NdAccepts) = HeaderVerdict(v, NdAccepts)
  BY <1>2, SameHeader
<1>4. q \in 0..Len(X) /\ q + 3 <= Len(X)
  OBVIOUS
<1>5. GwCandidate(v) \in BOOLEAN /\ NdCandidate(v) \in BOOLEAN
  BY DEF GwCandidate, NdCandidate
<1>6. (GwCandidate(b) <=> q \in GwCand(X)) /\ (NdCandidate(b) <=> q \in NdCand(X))
  BY <1>1, <1>3, <1>4, <1>5 DEF GwCand, NdCand
<1>7. /\ HeaderVerdict(b, GwAccepts) = "SUCCESS" <=> q \in GwAcc(X)
      /\ HeaderVerdict(b, NdAccepts) = "SUCCESS" <=> q \in NdAcc(X)
  BY <1>1, <1>3, <1>4 DEF GwAcc, NdAcc
<1> QED
  BY <1>1, <1>3, <1>6, <1>7

\* A valid frame that is all there is found as it is.
LEMMA GoodShows ==
  ASSUME NEW S, NEW X \in Seq(S), NEW h \in Nat, NEW frames \in Seq(Sendable), Regular(X, h, frames),
         WellFormed,
         NEW q, q \in GwGood(X, h, frames) \/ q \in NdGood(X, h, frames),
         NEW b, NEW t \in Nat, t = Total(Window(X, q)), \A k \in 1..t : b[k] = X[q + k]
  PROVE  /\ 3 <= t /\ Clean(SubSeq(b, HeaderBytes + 1, t))
         /\ SubSeq(b, 1, t) = WholeOf(frames, X[q + 1].frame)
         /\ q + t <= Len(X)
<1>1. /\ q \in StartsOf(X, h) /\ q # Len(X)
      /\ \/ ValidFrame(WholeOf(frames, X[q + 1].frame), GwAccepts)
         \/ ValidFrame(WholeOf(frames, X[q + 1].frame), NdAccepts)
  BY DEF GwGood, NdGood
<1>2. PICK i, W, f : i = X[q + 1].frame /\ W = WholeOf(frames, i) /\ f = frames[i]
  OBVIOUS
<1>3. FrameAt(X, frames, q) = f
  BY <1>2 DEF FrameAt
<1>4. /\ i \in 1..Len(frames)
      /\ \A j \in 1..Len(f) : X[q + j] = Letter(frames, i, j)
      /\ q + Len(f) <= Len(X)
  BY <1>1, <1>2, <1>3, FrameFrom, SMTT(30)
<1>5. /\ HeaderVerdict(Window(X, q), GwAccepts) = HeaderVerdict(W, GwAccepts)
      /\ HeaderVerdict(Window(X, q), NdAccepts) = HeaderVerdict(W, NdAccepts)
      /\ \/ HeaderVerdict(Window(X, q), GwAccepts) = "SUCCESS"
         \/ HeaderVerdict(Window(X, q), NdAccepts) = "SUCCESS"
         => Len(f) = Total(Window(X, q))
  BY <1>1, <1>2, <1>3, HeaderFrom
<1>6. Len(f) = t /\ Len(W) = Len(f) /\ Clean(SubSeq(W, HeaderBytes + 1, Len(W)))
  <2>1. Len(W) = Len(f)
    BY <1>2, <1>4, SentFrame
  <2> QED
    BY <1>1, <1>2, <1>5, <2>1 DEF ValidFrame
<1>7. 3 <= t /\ \A k \in 1..t : W[k] = Letter(frames, i, k)
  BY <1>2, <1>4, <1>6, SentFrame, ZenonT(40)
<1>8. \A k \in 1..t : b[k] = W[k]
  BY <1>4, <1>6, <1>7
<1>9. PICK m \in Nat : t = 3 + m
  <2>1. t - 3 \in Nat /\ t = 3 + (t - 3)
    BY <1>7
  <2> QED
    BY <2>1
<1>10. Clean(SubSeq(b, 3 + 1, 3 + m)) <=> Clean(SubSeq(W, 3 + 1, 3 + m))
  <2>1. Clean(SubSeq(W, 3 + 1, 3 + m)) <=> \A k \in 1..m : W[3 + k].sym # Bad
    BY CleanSlice, ZenonT(40)
  <2>2. Clean(SubSeq(b, 3 + 1, 3 + m)) <=> \A k \in 1..m : b[3 + k].sym # Bad
    BY CleanSlice, ZenonT(40)
  <2>3. \A k \in 1..m : W[3 + k] = b[3 + k]
    <3>1. \A k \in 1..m : 3 + k \in 1..t
      BY <1>9
    <3> QED
      BY <1>8, <3>1
  <2> QED
    BY <2>1, <2>2, <2>3
<1>11. SubSeq(b, 1, t) = W
  <2>1. SubSeq(b, 0 + 1, 0 + t) = [k \in 1..t |-> b[0 + k]]
    BY SliceOf
  <2>2. SubSeq(b, 1, t) = [k \in 1..t |-> b[k]]
    BY <2>1
  <2>3. W = [k \in 1..t |-> Letter(frames, i, k)]
    BY <1>2, <1>6 DEF WholeOf
  <2> QED
    BY <1>7, <1>8, <2>2, <2>3
<1> QED
  BY <1>2, <1>4, <1>6, <1>7, <1>9, <1>10, <1>11 DEF HeaderBytes

\* More may be delivered.
LEMMA ReadingMore ==
  ASSUME NEW m, NEW n, NEW q, NEW rs, NEW del, NEW del2, Reading(m, n, q, rs, del), del \subseteq del2
  PROVE  Reading(m, n, q, rs, del2)
BY DEF Reading

\* A report more takes nothing from those that were made.
LEMMA DeliveredMore ==
  ASSUME NEW out, out \in Seq(Range(out)), NEW r, NEW X, NEW h, NEW frames
  PROVE  /\ Append(out, r) \in Seq(Range(Append(out, r)))
         /\ DeliveredAt(out, X, h, frames) \subseteq DeliveredAt(Append(out, r), X, h, frames)
         /\ \A s \in StartsOf(X, h) :
              s # Len(X) /\ r = [raw |-> WholeOf(frames, X[s + 1].frame), rsc |-> "SUCCESS"]
              => s \in DeliveredAt(Append(out, r), X, h, frames)
BY OwnElements DEF DeliveredAt

\* The loop of feed at d has done with the first q bytes of L, the part of X that came.
GwReads(d, q, L, X, h, frames, base, far) ==
  /\ d = [buf |-> d.buf, resync |-> d.resync, out |-> d.out] /\ d.resync \in BOOLEAN
  /\ d.out \in Seq(Range(d.out))
  /\ q \in 0..Len(L) /\ d.buf = SubSeq(L, q + 1, Len(L))
  /\ Reading(GwMap(X, h, frames, base, far), Len(L), q, d.resync, DeliveredAt(d.out, X, h, frames))

\* A line, and how much of it came.
OnLine(S, L, X, h, frames, base, far) ==
  /\ X \in Seq(S) /\ L \in Seq(S) /\ Len(L) <= Len(X) /\ \A k \in 1..Len(L) : X[k] = L[k]
  /\ h \in Nat /\ h <= Len(X) /\ frames \in Seq(Sendable) /\ Regular(X, h, frames) /\ WellFormed
  /\ Undamaged(X, h, base, far) \/ DamageOver(h, base, far)

\* A round.
LEMMA RoundReads ==
  ASSUME NEW S, NEW L, NEW X, NEW h, NEW frames, NEW base, NEW far,
         OnLine(S, L, X, h, frames, base, far),
         NEW d, NEW q, GwReads(d, q, L, X, h, frames, base, far)
  PROVE  \E p : GwReads(Round(d), p, L, X, h, frames, base, far)
<1> DEFINE m == GwMap(X, h, frames, base, far)
           Del(out) == DeliveredAt(out, X, h, frames)
<1>1. PICK n \in Nat : n = Len(L)
  BY DEF OnLine
<1>0. PICK b : b = d.buf
  OBVIOUS
<1>2. /\ X \in Seq(S) /\ L \in Seq(S) /\ n <= Len(X) /\ Len(X) \in Nat
      /\ \A k \in 1..Len(L) : X[k] = L[k]
      /\ h \in Nat /\ frames \in Seq(Sendable) /\ Regular(X, h, frames) /\ WellFormed
  BY <1>1 DEF OnLine
<1>3. /\ Map(m) /\ m.acc = GwAcc(X) /\ m.cand = GwCand(X) /\ m.good = GwGood(X, h, frames)
      /\ \A k \in Nat : m.total[k] = Total(Window(X, k))
  <2>1. Map(m)
    BY GwMapHolds DEF OnLine
  <2> QED
    BY <2>1 DEF GwMap, MapOf
<1>4. /\ d = [buf |-> b, resync |-> d.resync, out |-> d.out] /\ d.resync \in BOOLEAN
      /\ d.out \in Seq(Range(d.out)) /\ q \in Nat /\ q <= n /\ b = SubSeq(L, q + 1, Len(L))
      /\ Reading(m, n, q, d.resync, Del(d.out))
  BY <1>1, <1>0 DEF GwReads
<1> HIDE DEF m, Del
<1>5. \A t \in Nat : q + t <= n => Rest(b, t) = SubSeq(L, (q + t) + 1, Len(L))
  <2> SUFFICES ASSUME NEW t \in Nat, q + t <= n PROVE Rest(b, t) = SubSeq(L, (q + t) + 1, Len(L))
    OBVIOUS
  <2>1. L \in Seq(S) /\ q \in Nat /\ q + t <= Len(L)
    BY <1>1, <1>2, <1>4
  <2>2. Rest(SubSeq(L, q + 1, Len(L)), t) = SubSeq(L, (q + t) + 1, Len(L))
    BY <2>1, RestOfRest, ZenonT(40)
  <2> QED
    BY <1>4, <2>2
<1>6. b \in Seq(S) /\ Len(b) = n - q
  <2>1. q + 0 <= Len(L) /\ 0 \in Nat
    BY <1>1, <1>4
  <2> QED
    BY <1>1, <1>2, <1>4, <2>1, RestOfRest, ZenonT(40)
<1>7. ASSUME NEW e, NEW p \in Nat, p <= n, NEW r \in BOOLEAN, NEW o,
             e = [buf |-> SubSeq(L, p + 1, Len(L)), resync |-> r, out |-> o],
             o \in Seq(Range(o)), Reading(m, n, p, r, Del(o))
      PROVE  GwReads(e, p, L, X, h, frames, base, far)
  <2>1. e.buf = SubSeq(L, p + 1, Len(L)) /\ e.resync = r /\ e.out = o
        /\ e = [buf |-> e.buf, resync |-> e.resync, out |-> e.out]
    BY <1>7
  <2>2. p \in 0..Len(L)
    BY <1>1, <1>7
  <2> HIDE <1>3, <1>5, <1>6
  <2> QED
    BY <1>1, <1>7, <2>1, <2>2 DEF GwReads, m, Del
<1>8. CASE Len(b) < 3
  <2>1. Round(d) = d
    BY <1>0, <1>8 DEF Round, HeaderBytes
  <2> QED
    BY <2>1
<1>9. CASE ~(Len(b) < 3)
  <2>1. q + 3 <= n /\ 3 <= Len(b)
    BY <1>4, <1>6, <1>9, SMTT(30)
  <2>2. /\ \A k \in 1..Len(b) : b[k] = X[q + k]
        /\ GwCandidate(b) <=> q \in m.cand
        /\ HeaderVerdict(b, GwAccepts) = "SUCCESS" <=> q \in m.acc
        /\ Total(b) = Total(Window(X, q)) /\ Total(b) = m.total[q]
    <3>1. \A k \in 1..Len(b) : b[k] = X[q + k]
      <4>1. /\ L \in Seq(S) /\ Len(X) \in Nat /\ Len(L) <= Len(X)
            /\ \A k \in 1..Len(L) : X[k] = L[k]
            /\ q \in Nat /\ q <= Len(L) /\ b = SubSeq(L, q + 1, Len(L))
        BY <1>1, <1>2, <1>4
      <4> QED
        BY <4>1, BufferShows, SMTT(30)
    <3>2. /\ GwCandidate(b) <=> q \in GwCand(X)
          /\ HeaderVerdict(b, GwAccepts) = "SUCCESS" <=> q \in GwAcc(X)
          /\ Total(b) = Total(Window(X, q))
      <4>1. q \in Nat /\ Len(X) \in Nat /\ q + 3 <= Len(X)
        BY <1>2, <1>4, <2>1, SMTT(30)
      <4>2. \A k \in 1..3 : b[k] = X[q + k]
        <5>1. Len(b) \in Nat
          BY <1>6
        <5> QED
          BY <2>1, <3>1, <5>1
      <4> QED
        BY <4>1, <4>2, BufferLooks
    <3> QED
      BY <1>3, <1>4, <3>1, <3>2
  <2>3. CASE d.resync /\ ~GwCandidate(b)
    <3>1. Round(d) = [d EXCEPT !.buf = Tail(@)]
      BY <1>0, <1>9, <2>3 DEF Round, HeaderBytes
    <3>2. Round(d) = [buf |-> Tail(b), resync |-> TRUE, out |-> d.out]
      <4>1. d.resync = TRUE /\ d.buf = b
        BY <1>0, <1>4, <2>3
      <4> QED
        BY <1>4, <3>1, <4>1
    <3>3. Tail(b) = SubSeq(L, (q + 1) + 1, Len(L))
      <4>1. Tail(b) = Rest(b, 1)
        BY <1>6, <2>1 DEF Rest
      <4>2. PICK t \in Nat : t = 1
        OBVIOUS
      <4>3. q + t <= n
        BY <1>4, <2>1, <4>2
      <4>4. Rest(b, t) = SubSeq(L, (q + t) + 1, Len(L))
        BY <1>5, <4>2, <4>3
      <4> QED
        BY <4>1, <4>2, <4>4
    <3>4. q + 1 \in Nat /\ q + 1 <= n /\ q \notin m.cand
      BY <1>4, <2>1, <2>2, <2>3, SMTT(30)
    <3>5. Reading(m, n, q + 1, TRUE, Del(d.out))
      BY <1>3, <1>4, <3>4, Skips
    <3> QED
      BY <1>4, <1>7, <3>2, <3>3, <3>4, <3>5
  <2>4. CASE ~(d.resync /\ ~GwCandidate(b)) /\ GwVerdict(b) = "INCOMPLETE"
    <3>1. Round(d) = [d EXCEPT !.resync = FALSE]
      BY <1>0, <1>9, <2>4 DEF Round, HeaderBytes, Kept
    <3>2. Round(d) = [buf |-> b, resync |-> FALSE, out |-> d.out]
      BY <1>0, <1>4, <3>1, Quietened
    <3>3. q \in m.acc
      BY <2>2, <2>4 DEF GwVerdict, HeaderVerdict
    <3>4. Reading(m, n, q, FALSE, Del(d.out))
      BY <1>3, <1>4, <3>3, Begins
    <3> QED
      BY <1>4, <1>7, <3>2, <3>4
  <2>5. CASE ~(d.resync /\ ~GwCandidate(b)) /\ GwVerdict(b) # "INCOMPLETE"
    <3>1. PICK v, r, o : /\ v = GwVerdict(b) /\ r = [raw |-> Raw(b, v), rsc |-> v]
                         /\ o = Append(d.out, r)
      OBVIOUS
    <3>2. Round(d) = [buf |-> Rest(b, Taken(b, v)), resync |-> v # "SUCCESS", out |-> o]
      BY <1>0, <1>9, <2>5, <3>1 DEF Round, HeaderBytes
    <3>3. o \in Seq(Range(o)) /\ Del(d.out) \subseteq Del(o)
          /\ \A s \in StartsOf(X, h) :
               s # Len(X) /\ r = [raw |-> WholeOf(frames, X[s + 1].frame), rsc |-> "SUCCESS"]
               => s \in Del(o)
      BY <1>4, <3>1, DeliveredMore, ZenonT(40) DEF Del
    <3>4. CASE v = "SUCCESS"
      <4>1. q \in m.acc
        BY <2>2, <3>1, <3>4 DEF GwVerdict
      <4>2. PICK t \in Nat : t = m.total[q]
        BY <1>3, <4>1 DEF Map
      <4>3. t <= Len(b)
        <5>1. ~(Len(b) < Total(b))
          BY <3>1, <3>4 DEF GwVerdict
        <5> QED
          BY <1>6, <1>4, <2>2, <4>2, <5>1, SMTT(30)
      <4>4. Taken(b, v) = t /\ r = [raw |-> SubSeq(b, 1, t), rsc |-> "SUCCESS"]
        BY <2>2, <3>1, <3>4, <4>2 DEF Taken, Raw
      <4>5. q \in m.good => q \in Del(o)
        <5> SUFFICES ASSUME q \in GwGood(X, h, frames) PROVE q \in Del(o)
          BY <1>3
        <5>1. \A k \in 1..t : b[k] = X[q + k]
          BY <1>4, <1>6, <2>2, <4>3, SMTT(30)
        <5>2. SubSeq(b, 1, t) = WholeOf(frames, X[q + 1].frame)
          <6>1. t = Total(Window(X, q)) /\ t \in Nat
            BY <2>2, <4>2
          <6>2. q \in GwGood(X, h, frames) \/ q \in NdGood(X, h, frames)
            OBVIOUS
          <6>3. X \in Seq(S) /\ h \in Nat /\ frames \in Seq(Sendable) /\ Regular(X, h, frames) /\ WellFormed
            BY <1>2
          <6> QED
            BY <5>1, <6>1, <6>2, <6>3, GoodShows
        <5>3. q \in StartsOf(X, h) /\ q # Len(X)
          BY DEF GwGood
        <5> QED
          BY <3>3, <4>4, <5>2, <5>3
      <4>6. q + t \in Nat /\ Reading(m, n, q + t, FALSE, Del(o))
        BY <1>3, <1>4, <3>3, <4>1, <4>2, <4>5, Takes
      <4>7. q + t <= n
        BY <1>4, <1>6, <4>3, SMTT(30)
      <4>8. Round(d) = [buf |-> SubSeq(L, (q + t) + 1, Len(L)), resync |-> FALSE, out |-> o]
        <5>1. (v # "SUCCESS") = FALSE
          BY <3>4
        <5> QED
          BY <1>5, <3>2, <4>2, <4>4, <4>7, <5>1
      <4> QED
        BY <1>7, <3>3, <4>6, <4>7, <4>8
    <3>5. CASE v # "SUCCESS"
      <4>1. Taken(b, v) = 3
        BY <3>5 DEF Taken, HeaderBytes
      <4>2. Round(d) = [buf |-> SubSeq(L, (q + 3) + 1, Len(L)), resync |-> TRUE, out |-> o]
        <5>1. (v # "SUCCESS") = TRUE
          BY <3>5
        <5> QED
          BY <1>5, <2>1, <3>2, <4>1, <5>1
      <4>3. d.resync = FALSE \/ q \in m.cand
        BY <1>4, <2>2, <2>5
      <4>4. q \notin m.good
        <5> SUFFICES ASSUME q \in GwGood(X, h, frames) PROVE FALSE
          BY <1>3
        <5>1. q \in m.acc
          BY <1>3 DEF Map
        <5>2. PICK t \in Nat : t = m.total[q] /\ t = Total(b)
          BY <1>3, <2>2, <5>1 DEF Map
        <5>3. ~(Len(b) < t)
          BY <2>2, <2>5, <3>1, <5>1, <5>2 DEF GwVerdict
        <5>4. \A k \in 1..t : b[k] = X[q + k]
          BY <1>4, <1>6, <2>2, <5>2, <5>3, SMTT(30)
        <5>5. Clean(SubSeq(b, HeaderBytes + 1, t))
          <6>1. t = Total(Window(X, q))
            BY <2>2, <5>2
          <6> QED
            BY <1>2, <5>4, <6>1, GoodShows
        <5> QED
          BY <2>2, <3>1, <3>5, <5>1, <5>2, <5>3, <5>5 DEF GwVerdict
      <4>5. Reading(m, n, q + 3, TRUE, Del(d.out))
        BY <1>3, <1>4, <2>1, <4>3, <4>4, Drops
      <4>6. Reading(m, n, q + 3, TRUE, Del(o))
        BY <3>3, <4>5, ReadingMore
      <4>7. q + 3 \in Nat
        BY <1>4
      <4> QED
        BY <1>7, <2>1, <3>3, <4>2, <4>6, <4>7
    <3> QED
      BY <3>4, <3>5
  <2> QED
    BY <2>3, <2>4, <2>5
<1> QED
  BY <1>8, <1>9

\* Where a run of the loop ends, the decoder has read the line.
LEMMA ExtractReads ==
  ASSUME NEW S, NEW L, NEW X, NEW h, NEW frames, NEW base, NEW far,
         OnLine(S, L, X, h, frames, base, far),
         NEW d, Holding(d, S), NEW q, GwReads(d, q, L, X, h, frames, base, far)
  PROVE  \E p : GwReads(Extract(d), p, L, X, h, frames, base, far)
<1>0. PICK N \in Nat : N = Len(d.buf)
  BY ExtractRuns
<1>1. PICK g : Runs(g, d, N) /\ Extract(d) = g[N]
  BY <1>0, ExtractRuns
<1>2. g[0] = d /\ \A n \in Nat : n + 1 <= N => g[n + 1] = Round(g[n])
  BY <1>1, RunSteps
<1> DEFINE Ok(e) == \E p : GwReads(e, p, L, X, h, frames, base, far)
           T == { n \in Nat : n <= N => Ok(g[n]) }
<1>3. 0 \in T
  BY <1>2
<1>4. ASSUME NEW n \in Nat, n \in T PROVE n + 1 \in T
  <2>1. CASE n + 1 <= N
    <3>1. n <= N
      BY <2>1
    <3>2. Ok(g[n])
      BY <1>4, <3>1
    <3>3. g[n + 1] = Round(g[n])
      BY <1>2, <2>1
    <3>4. Ok(Round(g[n]))
      <4>1. PICK e : e = g[n]
        OBVIOUS
      <4>2. PICK p : GwReads(e, p, L, X, h, frames, base, far)
        BY <3>2, <4>1
      <4> QED
        BY <4>1, <4>2, RoundReads
    <3> HIDE DEF Ok
    <3> QED
      BY <3>3, <3>4
  <2>2. CASE ~(n + 1 <= N)
    BY <2>2
  <2> QED
    BY <2>1, <2>2
<1>5. Nat \subseteq T
  <2> HIDE DEF T
  <2> QED
    BY <1>3, <1>4, Induction
<1>6. Ok(g[N])
  <2> HIDE DEF Ok
  <2> QED
    BY <1>5
<1> QED
  BY <1>1, <1>6

\* Of a line whose bytes it has all taken the gateway has delivered every valid frame
\* that is not too near to the damage.
LEMMA GatewayDelivers ==
  ASSUME NEW S, NEW L, NEW X, NEW h, NEW frames, NEW base, NEW far,
         OnLine(S, L, X, h, frames, base, far),
         NEW e, e = Extract([buf |-> SubSeq(L, 1, Len(L)), resync |-> FALSE, out |-> << >>]),
         NEW g \in GwGood(X, h, frames), g >= far, g + Len(FrameAt(X, frames, g)) <= Len(L)
  PROVE  [raw |-> WholeOf(frames, X[g + 1].frame), rsc |-> "SUCCESS"] \in Range(e.out)
<1> DEFINE m == GwMap(X, h, frames, base, far)
<1>1. PICK n \in Nat : n = Len(L)
  BY DEF OnLine
<1>2. PICK d : d = [buf |-> SubSeq(L, 1, Len(L)), resync |-> FALSE, out |-> << >>]
  OBVIOUS
<1>3. /\ Map(m) /\ m.acc = GwAcc(X) /\ m.good = GwGood(X, h, frames) /\ m.base = base
      /\ m.hurt = h /\ m.starts = StartsOf(X, h)
      /\ \A k \in Nat : m.total[k] = Total(Window(X, k))
      /\ \A s \in Nat : m.end[s] = s + Len(FrameAt(X, frames, s))
  <2>1. Map(m)
    BY GwMapHolds DEF OnLine
  <2> QED
    BY <2>1 DEF GwMap, MapOf
<1> HIDE DEF m
<1>4. L \in Seq(S) /\ X \in Seq(S) /\ Len(X) \in Nat /\ n <= Len(X) /\ \A k \in 1..Len(L) : X[k] = L[k]
  BY <1>1 DEF OnLine
<1>5. d.buf = SubSeq(L, 0 + 1, Len(L)) /\ d.buf \in Seq(S) /\ d.resync = FALSE /\ d.out = << >>
  BY <1>2, <1>4
<1>6. Holding(d, S)
  BY <1>2, <1>5 DEF Holding
<1>7. Reading(m, n, 0, FALSE, DeliveredAt(<< >>, X, h, frames))
  <2>1. ASSUME 0 >= m.base PROVE 0 \in m.starts
    <3>1. base = 0
      BY <1>3, <2>1 DEF Map
    <3>2. Undamaged(X, h, base, far)
      BY <3>1, LongestFrame DEF OnLine, DamageOver, HeaderBytes
    <3>3. h = 0 /\ \A k \in 1..Len(X) : X[k].at <= k
      BY <3>2 DEF Undamaged
    <3>4. CASE Len(X) = 0
      BY <1>3, <1>4, <3>3, <3>4 DEF StartsOf
    <3>5. CASE Len(X) # 0
      <4>1. 1 \in 1..Len(X) /\ 1 \in h + 1..Len(X)
        BY <1>4, <3>3, <3>5
      <4>2. X[1].at <= 1 /\ X[1].at \in 1..Len(frames[X[1].frame]) /\ X[1].frame \in 1..Len(frames)
        BY <3>3, <4>1 DEF OnLine, Regular
      <4>3. Len(frames[X[1].frame]) \in Nat
        BY <4>2, SentFrame DEF OnLine
      <4>4. X[0 + 1].at = 1
        BY <4>2, <4>3
      <4> QED
        BY <1>3, <1>4, <3>3, <4>4 DEF StartsOf
    <3> QED
      BY <3>4, <3>5
  <2>2. \A s \in m.good : ~(s < 0)
    BY <1>3, SMTT(30) DEF Map
  <2> QED
    BY <2>1, <2>2 DEF Reading
<1>8. GwReads(d, 0, L, X, h, frames, base, far)
  <2>1. << >> \in Seq(Range(<< >>)) /\ 0 \in 0..Len(L)
    BY <1>1
  <2> QED
    BY <1>1, <1>2, <1>5, <1>7, <2>1 DEF GwReads, m
<1>9. PICK p : GwReads(e, p, L, X, h, frames, base, far)
  BY <1>2, <1>6, <1>8, ExtractReads
<1>10. Holding(e, S) /\ Settled(e)
  BY <1>2, <1>6, ExtractRuns
<1>11. Waits(e)
  <2>1. SUFFICES ASSUME ~Waits(e) PROVE FALSE
    OBVIOUS
  <2>2. << >> \in Seq(S)
    OBVIOUS
  <2>3. Len(Round(e).buf) < Len(e.buf)
    BY <1>10, <2>1, <2>2, RoundTakes
  <2>4. Len(e.buf) \in Nat
    BY <1>10 DEF Holding
  <2> QED
    BY <1>10, <2>3, <2>4 DEF Settled
<1>12. p \in Nat /\ p <= n /\ e.buf = SubSeq(L, p + 1, Len(L))
       /\ Reading(m, n, p, e.resync, DeliveredAt(e.out, X, h, frames))
  <2>1. p \in 0..n
    BY <1>1, <1>9 DEF GwReads
  <2>2. e.buf = SubSeq(L, p + 1, Len(L))
    BY <1>9 DEF GwReads
  <2>3. Reading(m, n, p, e.resync, DeliveredAt(e.out, X, h, frames))
    BY <1>1, <1>9 DEF GwReads, m
  <2>4. p \in Nat /\ p <= n
    BY <2>1
  <2> QED
    BY <2>2, <2>3, <2>4
<1>13. Len(e.buf) = n - p
  <2>1. p + 0 <= Len(L) /\ 0 \in Nat
    BY <1>1, <1>12
  <2> QED
    BY <1>1, <1>4, <1>12, <2>1, RestOfRest
<1>14. p + 3 > n \/ (p \in m.acc /\ p + m.total[p] > n)
  <2>1. CASE Len(e.buf) < HeaderBytes
    BY <1>12, <1>13, <2>1 DEF HeaderBytes
  <2>2. CASE ~(Len(e.buf) < HeaderBytes)
    <3>1. GwVerdict(e.buf) = "INCOMPLETE"
      BY <1>11, <2>2 DEF Waits
    <3>2. HeaderVerdict(e.buf, GwAccepts) = "SUCCESS" /\ Len(e.buf) < Total(e.buf)
      BY <3>1 DEF GwVerdict, HeaderVerdict
    <3>3. p + 3 <= n
      BY <1>12, <1>13, <2>2 DEF HeaderBytes
    <3>4. p \in GwAcc(X) /\ Total(e.buf) = Total(Window(X, p))
      <4>1. /\ L \in Seq(S) /\ Len(X) \in Nat /\ Len(L) <= Len(X)
            /\ \A k \in 1..Len(L) : X[k] = L[k]
            /\ p \in Nat /\ p <= Len(L) /\ e.buf = SubSeq(L, p + 1, Len(L))
        BY <1>1, <1>4, <1>12
      <4>2. PICK b : b = e.buf
        OBVIOUS
      <4>3. b = SubSeq(L, p + 1, Len(L))
        BY <4>1, <4>2
      <4>4. \A k \in 1..Len(b) : b[k] = X[p + k]
        <5>1. /\ L \in Seq(S) /\ Len(X) \in Nat /\ Len(L) <= Len(X)
              /\ \A k \in 1..Len(L) : X[k] = L[k]
              /\ p \in Nat /\ p <= Len(L) /\ b = SubSeq(L, p + 1, Len(L))
          BY <4>1, <4>3
        <5>2. Len(b) = Len(L) - p /\ b \in Seq(S) /\ \A k \in 1..Len(b) : b[k] = X[p + k]
          BY <5>1, BufferShows
        <5> QED
          BY <5>2
      <4>5. 3 <= Len(b) /\ Len(b) \in Nat
        BY <1>12, <1>13, <3>3, <4>2
      <4>6. p \in Nat /\ Len(X) \in Nat /\ p + 3 <= Len(X)
        BY <1>4, <1>12, <3>3
      <4>7. \A k \in 1..3 : b[k] = X[p + k]
        BY <4>4, <4>5
      <4>8. HeaderVerdict(b, GwAccepts) = "SUCCESS"
        BY <3>2, <4>2
      <4> QED
        BY <4>2, <4>6, <4>7, <4>8, BufferLooks
    <3>5. p \in m.acc /\ m.total[p] \in Nat /\ m.total[p] = Total(e.buf)
      BY <1>3, <1>12, <3>4 DEF Map
    <3>6. PICK t \in Nat : t = m.total[p]
      BY <3>5
    <3>7. n - p < t
      BY <1>13, <3>2, <3>5, <3>6
    <3> QED
      BY <1>12, <3>5, <3>6, <3>7, SMTT(30)
  <2> QED
    BY <2>1, <2>2
<1>15. g \in m.good /\ g >= m.far /\ m.end[g] <= n
  <2>1. g \in m.good /\ g \in Nat
    BY <1>3 DEF Map
  <2>2. m.far = far
    BY DEF m, GwMap, MapOf
  <2> QED
    BY <1>1, <1>3, <2>1, <2>2
<1>16. g \in DeliveredAt(e.out, X, h, frames)
  BY <1>3, <1>12, <1>14, <1>15, Passed
<1> QED
  BY <1>16 DEF DeliveredAt

-----------------------------------------------------------------------------
(* The line and the sender.                                                *)

\* X is the line with the l bytes that are still to come, byte by byte.
IsCourse(X, frames, p, bytes, l) ==
  /\ l = LeftOf(frames, p) /\ X \in Seq(Range(X)) /\ Len(X) = Len(bytes) + l
  /\ \A k \in 1..Len(bytes) : X[k] = bytes[k]
  /\ \A k \in 1..l : X[Len(bytes) + k] = Letter(frames, Len(frames), p + k)
  /\ l # 0 => Len(frames) \in 1..Len(frames) /\ p + l = Len(frames[Len(frames)])

\* The course is the line and what is left of the last frame.
LEMMA CourseIs ==
  ASSUME NEW frames \in Seq(Sendable), NEW p \in Nat, frames # << >> => p <= Len(Last(frames)),
         NEW bytes, bytes \in Seq(Range(bytes)), NEW X, X = CourseOf(frames, p, bytes)
  PROVE  \E l \in Nat : IsCourse(X, frames, p, bytes, l)
<1>1. PICK n \in Nat : n = Len(bytes)
  OBVIOUS
<1>2. LeftOf(frames, p) \in Nat
      /\ (LeftOf(frames, p) # 0
            => Len(frames) \in 1..Len(frames) /\ p + LeftOf(frames, p) = Len(frames[Len(frames)]))
  <2>1. CASE frames = << >>
    BY <2>1 DEF LeftOf
  <2>2. CASE frames # << >>
    <3>1. Len(frames) \in 1..Len(frames) /\ Last(frames) = frames[Len(frames)]
      BY <2>2 DEF Last
    <3>2. PICK m \in Nat : m = Len(frames[Len(frames)])
      BY <3>1, SentFrame
    <3>3. p <= m /\ LeftOf(frames, p) = m - p
      BY <2>2, <3>1, <3>2 DEF LeftOf
    <3> QED
      BY <3>1, <3>2, <3>3
  <2> QED
    BY <2>1, <2>2
<1>3. PICK l \in Nat : l = LeftOf(frames, p)
  BY <1>2
<1>4. X = [k \in 1..n + l |-> IF k <= n THEN bytes[k] ELSE Letter(frames, Len(frames), p + (k - n))]
  BY <1>1, <1>3 DEF CourseOf
<1>5. X \in Seq(Range(X)) /\ Len(X) = n + l
  <2>1. DOMAIN X = 1..n + l
    BY <1>4
  <2>2. X \in [1..n + l -> Range(X)]
    BY <1>4, <2>1 DEF Range
  <2>3. n + l \in Nat
    OBVIOUS
  <2> QED
    BY <2>2, <2>3
<1>6. \A k \in 1..n : X[k] = bytes[k]
  <2> SUFFICES ASSUME NEW k \in 1..n PROVE X[k] = bytes[k]
    OBVIOUS
  <2>1. k \in 1..n + l /\ k <= n
    OBVIOUS
  <2> QED
    BY <1>4, <2>1
<1>7. \A k \in 1..l : X[n + k] = Letter(frames, Len(frames), p + k)
  <2> SUFFICES ASSUME NEW k \in 1..l PROVE X[n + k] = Letter(frames, Len(frames), p + k)
    OBVIOUS
  <2>1. n + k \in 1..n + l /\ ~(n + k <= n) /\ (n + k) - n = k
    OBVIOUS
  <2> QED
    BY <1>4, <2>1
<1> QED
  BY <1>1, <1>2, <1>3, <1>5, <1>6, <1>7 DEF IsCourse

\* A frame that was not damaged is all there, from its beginning on; without damage no
\* byte is nearer to the beginning of the line than to that of its frame.
Placed(X, h, frames, dam) ==
  /\ \A k \in 1..Len(X) : X[k].frame \in 1..Len(frames)
  /\ dam = {} => h = 0 /\ \A k \in 1..Len(X) : X[k].at <= k
  /\ \A i \in 1..Len(frames) \ dam : \E s \in Nat :
       /\ s + Len(frames[i]) <= Len(X) /\ \A j \in 1..Len(frames[i]) : X[s + j] = Letter(frames, i, j)
       /\ \A m \in 1..s : X[m].frame # i

Sending ==
  /\ sent \in Seq(Sendable) /\ pos \in Nat /\ (sent # << >> => pos <= Len(Last(sent)))
  /\ line \in Seq(Range(line)) /\ hurt \in Nat /\ hurt <= Len(line) /\ damaged \subseteq 1..Len(sent)

CourseInv == Sending /\ Regular(Course, hurt, sent) /\ Placed(Course, hurt, sent, damaged)

\* A frame is put behind the others.
LEMMA RegularSends ==
  ASSUME NEW X, NEW n \in Nat, Len(X) = n, NEW h \in Nat, NEW frames \in Seq(Sendable),
         Regular(X, h, frames), NEW f \in Sendable, NEW frames2, frames2 = Append(frames, f),
         NEW l \in Nat, l = Len(f), NEW X2, Len(X2) = n + l, \A k \in 1..n : X2[k] = X[k],
         \A k \in 1..l : X2[n + k] = Letter(frames2, Len(frames2), k), 3 <= l, h <= n
  PROVE  Regular(X2, h, frames2)
<1>1. PICK m \in Nat : m = Len(frames)
  OBVIOUS
<1>2. Len(frames2) = m + 1 /\ frames2[m + 1] = f /\ \A i \in 1..m : frames2[i] = frames[i]
  BY <1>1
<1> DEFINE Fits(k, i, a) ==
             /\ i \in 1..(m + 1) /\ a \in 1..Len(frames2[i])
             /\ \A j \in 1..Len(frames2[i]) :
                  (k - a) + j > h => (k - a) + j <= n + l /\ X2[(k - a) + j] = Letter(frames2, i, j)
             /\ k < n + l /\ a = Len(frames2[i]) => X2[k + 1].at = 1
<1>3. ASSUME NEW k \in h + 1..(n + l), NEW i, i = X2[k].frame, NEW a, a = X2[k].at
      PROVE  Fits(k, i, a)
  <2>1. CASE k <= n
    <3>1. k \in h + 1..Len(X) /\ i = X[k].frame /\ a = X[k].at
      BY <1>3, <2>1
    <3>2. /\ i \in 1..Len(frames) /\ a \in 1..Len(frames[i])
          /\ \A j \in 1..Len(frames[i]) :
               (k - a) + j > h => (k - a) + j <= Len(X) /\ X[(k - a) + j] = Letter(frames, i, j)
          /\ k < Len(X) /\ a = Len(frames[i]) => X[k + 1].at = 1
      <4>1. i \in 1..Len(frames) /\ a \in 1..Len(frames[i])
        BY <3>1, BytePlaced, ZenonT(40)
      <4>2. \A j \in 1..Len(frames[i]) :
              (k - a) + j > h => (k - a) + j <= Len(X) /\ X[(k - a) + j] = Letter(frames, i, j)
        BY <3>1 DEF Regular
      <4>3. k < Len(X) /\ a = Len(frames[i]) => X[k + 1].at = 1
        BY <3>1 DEF Regular
      <4> QED
        BY <4>1, <4>2, <4>3
    <3>3. i \in 1..m /\ frames2[i] = frames[i] /\ i \in 1..(m + 1)
      BY <1>1, <1>2, <3>2
    <3>4. Len(frames[i]) \in Nat
      BY <3>2, SentFrame
    <3>5. \A j \in 1..Len(frames[i]) :
            (k - a) + j > h => (k - a) + j <= n + l /\ X2[(k - a) + j] = Letter(frames2, i, j)
      <4> SUFFICES ASSUME NEW j \in 1..Len(frames[i]), (k - a) + j > h
                   PROVE  (k - a) + j <= n + l /\ X2[(k - a) + j] = Letter(frames2, i, j)
        OBVIOUS
      <4>1. (k - a) + j <= n /\ X[(k - a) + j] = Letter(frames, i, j)
        BY <3>2
      <4>2. (k - a) + j \in 1..n
        BY <3>2, <3>4, <4>1
      <4>3. Letter(frames2, i, j) = Letter(frames, i, j)
        BY <3>3 DEF Letter
      <4>4. (k - a) + j <= n + l
        BY <4>2
      <4> QED
        BY <4>1, <4>2, <4>3, <4>4
    <3>6. k < n + l /\ a = Len(frames2[i]) => X2[k + 1].at = 1
      <4>1. CASE k < n
        <5>1. k + 1 \in 1..n
          BY <4>1
        <5> QED
          BY <3>2, <3>3, <4>1, <5>1
      <4>2. CASE k = n
        <5>1. 1 \in 1..l
          OBVIOUS
        <5>2. X2[n + 1] = Letter(frames2, Len(frames2), 1)
          BY <5>1
        <5> QED
          BY <4>2, <5>2 DEF Letter
      <4> QED
        BY <2>1, <4>1, <4>2
    <3> QED
      BY <3>2, <3>3, <3>5, <3>6
  <2>2. CASE ~(k <= n)
    <3>1. PICK c \in 1..l : k = n + c
      <4>1. k - n \in 1..l /\ k = n + (k - n)
        BY <2>2, SMTT(30)
      <4> QED
        BY <4>1
    <3>2. X2[k] = Letter(frames2, m + 1, c)
      BY <1>2, <3>1
    <3>3. i = m + 1 /\ a = c /\ frames2[i] = f
      BY <1>2, <1>3, <3>2 DEF Letter
    <3>4. \A j \in 1..l : (k - a) + j = n + j /\ n + j <= n + l
      BY <3>1, <3>3, SMTT(30)
    <3>5. \A j \in 1..l : X2[n + j] = Letter(frames2, i, j)
      BY <1>2, <3>3
    <3>6. ~(k < n + l /\ a = l)
      BY <3>1, <3>3
    <3>7. i \in 1..(m + 1)
      BY <3>3
    <3> QED
      BY <3>1, <3>3, <3>4, <3>5, <3>6, <3>7
  <2> QED
    BY <2>1, <2>2
<1>4. ASSUME NEW k \in h + 1..Len(X2)
      PROVE  /\ X2[k].frame \in 1..Len(frames2) /\ X2[k].at \in 1..Len(frames2[X2[k].frame])
             /\ \A j \in 1..Len(frames2[X2[k].frame]) :
                  (k - X2[k].at) + j > h => /\ (k - X2[k].at) + j <= Len(X2)
                                            /\ X2[(k - X2[k].at) + j] = Letter(frames2, X2[k].frame, j)
             /\ k < Len(X2) /\ X2[k].at = Len(frames2[X2[k].frame]) => X2[k + 1].at = 1
  <2>1. PICK i, a : i = X2[k].frame /\ a = X2[k].at
    OBVIOUS
  <2>2. Fits(k, i, a)
    <3> HIDE DEF Fits
    <3>1. k \in h + 1..(n + l) /\ i = X2[k].frame /\ a = X2[k].at
      BY <2>1
    <3> QED
      BY <1>3, <3>1
  <2>3. Len(frames2) = m + 1
    BY <1>2
  <2> QED
    BY <2>1, <2>2, <2>3
<1> QED
  BY <1>4 DEF Regular

\* The last byte that came, or none, is the last damage: what is regular is the rest of
\* the frame on its way.
LEMMA RegularRest ==
  ASSUME NEW X, NEW n \in Nat, NEW l \in Nat, Len(X) = n + l, NEW frames \in Seq(Sendable), NEW p \in Nat,
         \A k \in 1..l : X[n + k] = Letter(frames, Len(frames), p + k),
         l # 0 => Len(frames) \in 1..Len(frames) /\ p + l = Len(frames[Len(frames)])
  PROVE  Regular(X, n, frames)
<1>1. PICK m \in Nat : m = Len(frames)
  OBVIOUS
<1>2. ASSUME NEW k \in n + 1..(n + l), NEW i, i = X[k].frame, NEW a, a = X[k].at
      PROVE  /\ i \in 1..m /\ a \in 1..Len(frames[i])
             /\ \A j \in 1..Len(frames[i]) :
                  (k - a) + j > n => (k - a) + j <= n + l /\ X[(k - a) + j] = Letter(frames, i, j)
             /\ k < n + l /\ a = Len(frames[i]) => X[k + 1].at = 1
  <2>1. PICK c \in 1..l : k = n + c
    <3>1. k - n \in 1..l /\ k = n + (k - n)
      OBVIOUS
    <3> QED
      BY <3>1
  <2>2. X[k] = Letter(frames, m, p + c) /\ l # 0
    BY <1>1, <2>1
  <2>3. i = m /\ a = p + c /\ m \in 1..m /\ p + l = Len(frames[m])
    BY <1>1, <1>2, <2>2 DEF Letter
  <2>4. a \in 1..Len(frames[i]) /\ ~(k < n + l /\ a = Len(frames[i]))
    BY <2>1, <2>3
  <2>5. ASSUME NEW j \in 1..Len(frames[i]), (k - a) + j > n
        PROVE  (k - a) + j <= n + l /\ X[(k - a) + j] = Letter(frames, i, j)
    <3>1. PICK d \in 1..l : j = p + d
      <4>1. j \in 1..(p + l)
        BY <2>3
      <4>2. j - p \in 1..l /\ j = p + (j - p)
        BY <2>1, <2>3, <2>5, <4>1
      <4> QED
        BY <4>2
    <3>2. (k - a) + j = n + d /\ n + d <= n + l
      BY <2>1, <2>3, <3>1
    <3>3. X[n + d] = Letter(frames, m, p + d)
      BY <1>1
    <3> QED
      BY <2>3, <3>1, <3>2, <3>3
  <2> QED
    BY <2>3, <2>4, <2>5
<1>4. ASSUME NEW k \in n + 1..Len(X)
      PROVE  /\ X[k].frame \in 1..Len(frames) /\ X[k].at \in 1..Len(frames[X[k].frame])
             /\ \A j \in 1..Len(frames[X[k].frame]) :
                  (k - X[k].at) + j > n => /\ (k - X[k].at) + j <= Len(X)
                                            /\ X[(k - X[k].at) + j] = Letter(frames, X[k].frame, j)
             /\ k < Len(X) /\ X[k].at = Len(frames[X[k].frame]) => X[k + 1].at = 1
  <2>1. PICK i, a : i = X[k].frame /\ a = X[k].at
    OBVIOUS
  <2>2. i \in 1..Len(frames) /\ a \in 1..Len(frames[i])
    BY <1>1, <1>2, <2>1
  <2>3. \A j \in 1..Len(frames[i]) :
          (k - a) + j > n => (k - a) + j <= Len(X) /\ X[(k - a) + j] = Letter(frames, i, j)
    BY <1>1, <1>2, <2>1, SMTT(30)
  <2>4. k < Len(X) /\ a = Len(frames[i]) => X[k + 1].at = 1
    BY <1>1, <1>2, <2>1
  <2> QED
    BY <2>1, <2>2, <2>3, <2>4
<1> QED
  BY <1>4 DEF Regular

\* A byte arrives as it was: the line goes on as it was to go on.
LEMMA CourseStays ==
  ASSUME NEW frames \in Seq(Sendable), NEW p \in Nat, frames # << >>, p + 1 <= Len(Last(frames)),
         NEW bytes, bytes \in Seq(Range(bytes)), NEW byte, byte = Letter(frames, Len(frames), p + 1)
  PROVE  CourseOf(frames, p + 1, Append(bytes, byte)) = CourseOf(frames, p, bytes)
<1>1. PICK n, m \in Nat : n = Len(bytes) /\ m = Len(Last(frames))
  <2>1. Last(frames) = frames[Len(frames)] /\ Len(frames) \in 1..Len(frames)
    BY DEF Last
  <2> QED
    BY <2>1, SentFrame
<1>2. PICK l \in Nat : l = m - (p + 1)
  <2>1. m - (p + 1) \in Nat
    BY <1>1
  <2> QED
    BY <2>1
<1>3. PICK more : /\ more = Append(bytes, byte) /\ Len(more) = n + 1
                  /\ (\A k \in 1..n : more[k] = bytes[k]) /\ more[n + 1] = byte
  <2>1. /\ Len(Append(bytes, byte)) = n + 1 /\ Append(bytes, byte)[n + 1] = byte
        /\ \A k \in 1..n : Append(bytes, byte)[k] = bytes[k]
    BY <1>1
  <2> QED
    BY <2>1
<1>4. LeftOf(frames, p + 1) = l /\ LeftOf(frames, p) = l + 1
  BY <1>1, <1>2 DEF LeftOf
<1>5. CourseOf(frames, p + 1, more)
        = [k \in 1..(n + 1) + l |-> IF k <= n + 1 THEN more[k]
                                   ELSE Letter(frames, Len(frames), (p + 1) + (k - (n + 1)))]
  BY <1>3, <1>4 DEF CourseOf
<1>6. CourseOf(frames, p, bytes)
        = [k \in 1..n + (l + 1) |-> IF k <= n THEN bytes[k]
                                   ELSE Letter(frames, Len(frames), p + (k - n))]
  BY <1>1, <1>4 DEF CourseOf
<1>7. (n + 1) + l = n + (l + 1)
  BY <1>1
<1>8. ASSUME NEW k \in 1..n + (l + 1)
      PROVE  (IF k <= n + 1 THEN more[k] ELSE Letter(frames, Len(frames), (p + 1) + (k - (n + 1))))
               = (IF k <= n THEN bytes[k] ELSE Letter(frames, Len(frames), p + (k - n)))
  <2>1. CASE k <= n
    <3>1. k \in 1..n /\ k <= n + 1
      BY <1>1, <2>1
    <3> QED
      BY <1>3, <2>1, <3>1
  <2>2. CASE k = n + 1
    <3>1. ~(k <= n) /\ k <= n + 1 /\ p + (k - n) = p + 1
      BY <1>1, <2>2
    <3>2. more[k] = byte
      BY <1>3, <2>2
    <3> QED
      BY <3>1, <3>2
  <2>3. CASE k > n + 1
    <3>1. ~(k <= n) /\ ~(k <= n + 1) /\ (p + 1) + (k - (n + 1)) = p + (k - n)
      BY <1>1, <2>3
    <3> QED
      BY <3>1
  <2> QED
    BY <1>1, <2>1, <2>2, <2>3
<1> QED
  BY <1>3, <1>5, <1>6, <1>7, <1>8, SMTT(30)

\* A frame is begun.
LEMMA CourseSends ==
  ASSUME CourseInv, NEW f \in Sendable, SendFrame(f)
  PROVE  /\ CourseInv'
         /\ Len(Course) = Len(line) /\ Len(Course') = Len(line) + Len(f)
         /\ \A k \in 1..Len(line) : Course'[k] = Course[k]
<1>1. PICK n \in Nat, m \in Nat, h \in Nat : n = Len(line) /\ m = Len(sent) /\ h = hurt /\ h <= n
  BY DEF CourseInv, Sending
<1>2. PICK frames : frames = sent
  OBVIOUS
<1>3. frames \in Seq(Sendable) /\ Len(frames) = m
  BY <1>1, <1>2 DEF CourseInv, Sending
<1>4. PICK frames2 : /\ frames2 = Append(frames, f) /\ frames2 \in Seq(Sendable) /\ Len(frames2) = m + 1
                     /\ frames2[m + 1] = f /\ \A i \in 1..m : frames2[i] = frames[i]
  <2>1. /\ Append(frames, f) \in Seq(Sendable) /\ Len(Append(frames, f)) = m + 1
        /\ Append(frames, f)[m + 1] = f /\ \A i \in 1..m : Append(frames, f)[i] = frames[i]
    BY <1>3
  <2> QED
    BY <2>1
<1>5. sent' = frames2 /\ pos' = 0 /\ line' = line /\ hurt' = h /\ damaged' = damaged
  BY <1>1, <1>2, <1>4 DEF SendFrame
<1>6. PICK l \in Nat : l = Len(f) /\ 3 <= l
  <2>1. f \in Seq(Range(f)) /\ Len(f) >= 3
    BY StreamAssumption DEF HeaderBytes
  <2> QED
    BY <2>1
<1>7. PICK X : X = Course
  OBVIOUS
<1>8. X \in Seq(Range(X)) /\ Len(X) = n /\ Regular(X, h, frames) /\ Placed(X, h, frames, damaged)
  <2>1. LeftOf(frames, pos) = 0
    BY <1>2 DEF SendFrame, AllSent, LeftOf, CourseInv, Sending
  <2>2. frames \in Seq(Sendable) /\ pos \in Nat /\ (frames # << >> => pos <= Len(Last(frames)))
        /\ line \in Seq(Range(line)) /\ X = CourseOf(frames, pos, line)
    BY <1>2, <1>7 DEF CourseInv, Sending, Course
  <2>3. PICK q \in Nat : IsCourse(X, frames, pos, line, q)
    BY <2>2, CourseIs
  <2>4. Len(X) = n /\ X \in Seq(Range(X))
    BY <1>1, <2>1, <2>3 DEF IsCourse
  <2> QED
    BY <1>1, <1>2, <1>7, <2>4 DEF CourseInv
<1>9. \A k \in 1..n : X[k] = line[k]
  <2>1. frames \in Seq(Sendable) /\ pos \in Nat /\ (frames # << >> => pos <= Len(Last(frames)))
        /\ line \in Seq(Range(line)) /\ X = CourseOf(frames, pos, line)
    BY <1>2, <1>7 DEF CourseInv, Sending, Course
  <2>2. PICK q \in Nat : IsCourse(X, frames, pos, line, q)
    BY <2>1, CourseIs
  <2> QED
    BY <1>1, <2>2 DEF IsCourse
<1>10. PICK X2 : X2 = Course'
  OBVIOUS
<1>11. /\ X2 \in Seq(Range(X2)) /\ Len(X2) = n + l
       /\ \A k \in 1..n : X2[k] = X[k]
       /\ \A k \in 1..l : X2[n + k] = Letter(frames2, Len(frames2), k)
       /\ Last(frames2) = f /\ frames2 # << >>
  <2>1. frames2 # << >> /\ Last(frames2) = f
    BY <1>1, <1>4 DEF Last
  <2>2. LeftOf(frames2, 0) = l
    BY <1>6, <2>1 DEF LeftOf
  <2>3. frames2 \in Seq(Sendable) /\ 0 \in Nat /\ (frames2 # << >> => 0 <= Len(Last(frames2)))
        /\ line \in Seq(Range(line)) /\ X2 = CourseOf(frames2, 0, line)
    BY <1>4, <1>5, <1>6, <1>10, <2>1 DEF CourseInv, Sending, Course
  <2>4. PICK q \in Nat :
          /\ q = LeftOf(frames2, 0) /\ X2 \in Seq(Range(X2)) /\ Len(X2) = Len(line) + q
          /\ \A k \in 1..Len(line) : X2[k] = line[k]
          /\ \A k \in 1..q : X2[Len(line) + k] = Letter(frames2, Len(frames2), 0 + k)
    <3>1. PICK z \in Nat : z = 0
      OBVIOUS
    <3>2. frames2 \in Seq(Sendable) /\ z \in Nat /\ (frames2 # << >> => z <= Len(Last(frames2)))
          /\ line \in Seq(Range(line)) /\ X2 = CourseOf(frames2, z, line)
      BY <2>3, <3>1
    <3>3. PICK q \in Nat : IsCourse(X2, frames2, z, line, q)
      BY <3>2, CourseIs
    <3> QED
      BY <3>1, <3>3 DEF IsCourse
  <2>5. \A k \in 1..l : X2[n + k] = Letter(frames2, Len(frames2), k)
    <3>1. \A k \in 1..l : 0 + k = k
      OBVIOUS
    <3> QED
      BY <1>1, <2>2, <2>4, <3>1
  <2> QED
    BY <1>1, <1>9, <2>1, <2>2, <2>4, <2>5
<1>12. Regular(X2, h, frames2)
  <2>1. /\ n \in Nat /\ Len(X) = n /\ h \in Nat /\ frames \in Seq(Sendable) /\ Regular(X, h, frames)
        /\ f \in Sendable /\ frames2 = Append(frames, f) /\ l \in Nat /\ l = Len(f)
        /\ Len(X2) = n + l /\ (\A k \in 1..n : X2[k] = X[k])
        /\ (\A k \in 1..l : X2[n + k] = Letter(frames2, Len(frames2), k)) /\ 3 <= l /\ h <= n
    BY <1>1, <1>3, <1>4, <1>6, <1>8, <1>11
  <2> QED
    BY <2>1, RegularSends, ZenonT(40)
<1>13. \A k \in 1..(n + l) : k \in 1..n \/ \E c \in 1..l : k = n + c
  <2> SUFFICES ASSUME NEW k \in 1..(n + l), ~(k \in 1..n) PROVE \E c \in 1..l : k = n + c
    OBVIOUS
  <2>1. k - n \in 1..l /\ k = n + (k - n)
    OBVIOUS
  <2> QED
    BY <2>1
<1>14. \A k \in 1..(n + l) : X2[k].frame \in 1..(m + 1)
  <2> SUFFICES ASSUME NEW k \in 1..(n + l) PROVE X2[k].frame \in 1..(m + 1)
    OBVIOUS
  <2>1. CASE k \in 1..n
    <3>1. X2[k].frame \in 1..m
      BY <1>3, <1>8, <1>11, <2>1 DEF Placed
    <3> QED
      BY <3>1
  <2>2. ASSUME NEW c \in 1..l, k = n + c PROVE X2[k].frame \in 1..(m + 1)
    <3>1. X2[k] = Letter(frames2, m + 1, c)
      BY <1>4, <1>11, <2>2
    <3>2. X2[k].frame = m + 1
      BY <3>1 DEF Letter
    <3> QED
      BY <3>2
  <2> QED
    BY <1>13, <2>1, <2>2
<1>15. ASSUME damaged = {} PROVE h = 0 /\ \A k \in 1..(n + l) : X2[k].at <= k
  <2>1. h = 0 /\ \A k \in 1..n : X[k].at <= k
    BY <1>8, <1>15 DEF Placed
  <2>2. ASSUME NEW k \in 1..(n + l) PROVE X2[k].at <= k
    <3>1. CASE k \in 1..n
      BY <1>11, <2>1, <3>1
    <3>2. ASSUME NEW c \in 1..l, k = n + c PROVE X2[k].at <= k
      <4>1. X2[k] = Letter(frames2, m + 1, c)
        BY <1>4, <1>11, <3>2
      <4>2. X2[k].at = c
        BY <4>1 DEF Letter
      <4> QED
        BY <3>2, <4>2
    <3> QED
      BY <1>13, <3>1, <3>2
  <2> QED
    BY <2>1, <2>2
<1>16. ASSUME NEW i \in 1..(m + 1), i \notin damaged
       PROVE  \E s \in Nat : /\ s + Len(frames2[i]) <= n + l
                             /\ \A j \in 1..Len(frames2[i]) : X2[s + j] = Letter(frames2, i, j)
                             /\ \A k \in 1..s : X2[k].frame # i
  <2>1. CASE i = m + 1
    <3>1. Len(frames2[i]) = l /\ n + l <= n + l
      BY <1>4, <1>6, <2>1
    <3>2. \A j \in 1..l : X2[n + j] = Letter(frames2, i, j)
      BY <1>4, <1>11, <2>1
    <3>3. \A k \in 1..n : X2[k].frame # i
      <4>1. \A k \in 1..n : X2[k].frame \in 1..m
        BY <1>3, <1>8, <1>11 DEF Placed
      <4> QED
        BY <2>1, <4>1
    <3> QED
      BY <3>1, <3>2, <3>3
  <2>2. CASE i # m + 1
    <3>1. i \in 1..Len(frames) \ damaged /\ frames2[i] = frames[i]
      BY <1>3, <1>4, <1>16, <2>2
    <3>2. PICK s \in Nat : /\ s + Len(frames[i]) <= n
                           /\ \A j \in 1..Len(frames[i]) : X[s + j] = Letter(frames, i, j)
                           /\ \A k \in 1..s : X[k].frame # i
      BY <1>8, <3>1 DEF Placed
    <3>3. PICK c \in Nat : c = Len(frames[i])
      BY <1>3, <3>1, SentFrame
    <3>4. \A j \in 1..c : X2[s + j] = Letter(frames2, i, j)
      <4> SUFFICES ASSUME NEW j \in 1..c PROVE X2[s + j] = Letter(frames2, i, j)
        OBVIOUS
      <4>1. s + j \in 1..n
        BY <3>2, <3>3
      <4>2. X[s + j] = Letter(frames, i, j)
        BY <3>2, <3>3
      <4>3. Letter(frames2, i, j) = Letter(frames, i, j)
        BY <3>1 DEF Letter
      <4> QED
        BY <1>11, <4>1, <4>2, <4>3
    <3>5. \A k \in 1..s : X2[k].frame # i
      <4>1. \A k \in 1..s : k \in 1..n
        BY <3>2, <3>3
      <4> QED
        BY <1>11, <3>2, <4>1
    <3>6. s + c <= n + l /\ Len(frames2[i]) = c
      BY <3>1, <3>2, <3>3
    <3> QED
      BY <3>4, <3>5, <3>6
  <2> QED
    BY <2>1, <2>2
<1>17. Placed(X2, h, frames2, damaged)
  <2>1. Len(X2) = n + l /\ Len(frames2) = m + 1
    BY <1>4, <1>11
  <2>2. \A k \in 1..Len(X2) : X2[k].frame \in 1..Len(frames2)
    BY <1>14, <2>1
  <2>3. damaged = {} => h = 0 /\ \A k \in 1..Len(X2) : X2[k].at <= k
    BY <1>15, <2>1
  <2>4. ASSUME NEW i \in 1..Len(frames2) \ damaged
        PROVE  \E s \in Nat : /\ s + Len(frames2[i]) <= Len(X2)
                              /\ \A j \in 1..Len(frames2[i]) : X2[s + j] = Letter(frames2, i, j)
                              /\ \A k \in 1..s : X2[k].frame # i
    <3>1. i \in 1..(m + 1) /\ i \notin damaged
      BY <2>1
    <3> QED
      BY <1>16, <2>1, <3>1
  <2> QED
    BY <2>2, <2>3, <2>4 DEF Placed
<1>18. Sending'
  <2>1. damaged \subseteq 1..(m + 1)
    BY <1>1 DEF CourseInv, Sending
  <2>2. (sent' # << >> => pos' <= Len(Last(sent')))
    BY <1>5, <1>6, <1>11
  <2> QED
    BY <1>1, <1>4, <1>5, <2>1, <2>2 DEF CourseInv, Sending
<1> QED
  BY <1>1, <1>5, <1>6, <1>7, <1>8, <1>10, <1>11, <1>12, <1>17, <1>18 DEF CourseInv

\* The last frame, while it is on its way.
LEMMA StillToLeave ==
  ASSUME CourseInv, ~AllSent
  PROVE  /\ sent # << >> /\ Len(sent) \in 1..Len(sent) /\ Last(sent) = sent[Len(sent)]
         /\ Len(Last(sent)) \in Nat /\ pos + 1 <= Len(Last(sent))
<1>1. sent # << >> /\ pos # Len(Last(sent)) /\ pos <= Len(Last(sent)) /\ pos \in Nat
  BY DEF AllSent, CourseInv, Sending
<1>2. Len(sent) \in 1..Len(sent) /\ Last(sent) = sent[Len(sent)]
  BY <1>1 DEF Last, CourseInv, Sending
<1>3. PICK m \in Nat : m = Len(Last(sent))
  BY <1>2, SentFrame DEF CourseInv, Sending
<1>4. pos + 1 <= m
  BY <1>1, <1>3
<1> QED
  BY <1>1, <1>2, <1>3, <1>4

\* A byte arrives as it was.
LEMMA CourseArrives ==
  ASSUME CourseInv, ByteArrives
  PROVE  /\ CourseInv' /\ Course' = Course /\ Len(line') = Len(line) + 1 /\ Len(line') <= Len(Course)
         /\ line' = Append(line, Course[Len(line) + 1]) /\ NdFeed(Course[Len(line) + 1])
         /\ sent' = sent /\ hurt' = hurt /\ damaged' = damaged
<1>1. PICK n \in Nat : n = Len(line)
  BY DEF CourseInv, Sending
<1>2. PICK byte : byte = Letter(sent, Len(sent), pos + 1)
  OBVIOUS
<1>3. ~AllSent
  BY DEF ByteArrives, Leaves
<1>4. /\ sent # << >> /\ Len(sent) \in 1..Len(sent) /\ Last(sent) = sent[Len(sent)]
      /\ Len(Last(sent)) \in Nat /\ pos + 1 <= Len(Last(sent))
  BY <1>3, StillToLeave
<1>5. /\ line' = Append(line, byte) /\ NdFeed(byte) /\ pos' = pos + 1 /\ sent' = sent
      /\ hurt' = hurt /\ damaged' = damaged
  BY <1>2, <1>4 DEF ByteArrives, Leaves, Arrives, Letter
<1>6. Course' = Course
  <2>0. PICK frames, bytes : frames = sent /\ bytes = line
    OBVIOUS
  <2>1. PICK p \in Nat : p = pos
    BY DEF CourseInv, Sending
  <2>2. /\ frames \in Seq(Sendable) /\ frames # << >> /\ p + 1 <= Len(Last(frames))
        /\ bytes \in Seq(Range(bytes)) /\ byte = Letter(frames, Len(frames), p + 1)
    BY <1>2, <1>4, <2>0, <2>1 DEF CourseInv, Sending
  <2>3. CourseOf(frames, p + 1, Append(bytes, byte)) = CourseOf(frames, p, bytes)
    BY <2>2, CourseStays
  <2> QED
    BY <1>5, <2>0, <2>1, <2>3 DEF Course
<1>7. n + 1 <= Len(Course) /\ Course[n + 1] = byte
  <2>1. sent \in Seq(Sendable) /\ pos \in Nat /\ (sent # << >> => pos <= Len(Last(sent)))
        /\ line \in Seq(Range(line)) /\ Course = CourseOf(sent, pos, line)
    BY DEF CourseInv, Sending, Course
  <2>2. PICK l \in Nat : IsCourse(Course, sent, pos, line, l)
    BY <2>1, CourseIs
  <2>3. l = Len(Last(sent)) - pos
    BY <1>4, <2>2 DEF IsCourse, LeftOf
  <2>4. l >= 1
    BY <1>4, <2>1, <2>3
  <2>5. 1 \in 1..l
    BY <2>4
  <2> QED
    BY <1>1, <1>2, <2>2, <2>4, <2>5 DEF IsCourse
<1>8. line' \in Seq(Range(line')) /\ Len(line') = n + 1
  BY <1>1, <1>5, OwnElements DEF CourseInv, Sending
<1>9. Sending'
  <2>1. hurt \in Nat /\ hurt <= n + 1 /\ pos + 1 \in Nat
    BY <1>1 DEF CourseInv, Sending
  <2> QED
    BY <1>4, <1>5, <1>8, <2>1 DEF CourseInv, Sending
<1> QED
  BY <1>1, <1>5, <1>6, <1>7, <1>8, <1>9 DEF CourseInv

\* The frame on its way is damaged: a byte of it is lost or comes as another one, or it
\* is cut by a silence.
LEMMA CourseDamaged ==
  ASSUME CourseInv, ~AllSent, sent' = sent, pos' = pos \/ pos' = pos + 1,
         \/ line' = line
         \/ \E byte : line' = Append(line, byte) /\ byte.frame = Len(sent),
         damaged' = damaged \cup {Len(sent)}, hurt' = Len(line')
  PROVE  CourseInv' /\ damaged' # {}
<1>0. PICK frames : frames = sent
  OBVIOUS
<1>1. PICK n \in Nat, m \in Nat : n = Len(line) /\ m = Len(sent) /\ frames = sent
  BY <1>0 DEF CourseInv, Sending
<1>2. /\ frames # << >> /\ m \in 1..m /\ Last(frames) = frames[m]
      /\ Len(Last(frames)) \in Nat /\ pos + 1 <= Len(Last(frames))
      /\ frames \in Seq(Sendable) /\ Len(frames) = m
  BY <1>1, StillToLeave DEF CourseInv, Sending
<1>3. PICK n2 \in Nat : /\ n2 = Len(line') /\ n <= n2 /\ n2 <= n + 1 /\ line' \in Seq(Range(line'))
                        /\ \A k \in 1..n : line'[k] = line[k]
                        /\ \A k \in (n + 1)..n2 : line'[k].frame = m
  <2>1. CASE line' = line
    <3>1. \A k \in (n + 1)..n : FALSE
      OBVIOUS
    <3> QED
      BY <1>1, <2>1, <3>1 DEF CourseInv, Sending
  <2>2. ASSUME NEW byte, line' = Append(line, byte), byte.frame = Len(sent)
        PROVE  /\ Len(line') = n + 1 /\ line' \in Seq(Range(line'))
               /\ \A k \in 1..n : line'[k] = line[k]
               /\ \A k \in (n + 1)..(n + 1) : line'[k].frame = m
    <3>1. line' \in Seq(Range(line')) /\ Len(line') = n + 1 /\ \A k \in 1..n : line'[k] = line[k]
      BY <1>1, <2>2, OwnElements DEF CourseInv, Sending
    <3>2. line'[n + 1] = byte
      BY <1>1, <2>2 DEF CourseInv, Sending
    <3>3. \A k \in (n + 1)..(n + 1) : k = n + 1
      OBVIOUS
    <3> QED
      BY <1>1, <2>2, <3>1, <3>2, <3>3
  <2> QED
    BY <1>1, <2>1, <2>2
<1>4. pos' \in Nat /\ pos' <= Len(Last(frames))
  BY <1>2, SMTT(30) DEF CourseInv, Sending
<1>20. PICK X, X2 : X = Course /\ X2 = Course'
  OBVIOUS
<1>5. PICK l \in Nat : X = Course /\ IsCourse(X, frames, pos, line, l)
  <2>1. frames \in Seq(Sendable) /\ pos \in Nat /\ (frames # << >> => pos <= Len(Last(frames)))
        /\ line \in Seq(Range(line)) /\ X = CourseOf(frames, pos, line)
    BY <1>1, <1>20 DEF CourseInv, Sending, Course
  <2>2. \E l \in Nat : IsCourse(X, frames, pos, line, l)
    BY <2>1, CourseIs
  <2> QED
    BY <1>20, <2>2
<1>6. PICK l2 \in Nat : X2 = Course' /\ IsCourse(X2, frames, pos', line', l2)
  <2>1. PICK p \in Nat : p = pos'
    BY <1>4
  <2>2. PICK bytes : bytes = line'
    OBVIOUS
  <2>3. frames \in Seq(Sendable) /\ (frames # << >> => p <= Len(Last(frames)))
        /\ bytes \in Seq(Range(bytes)) /\ X2 = CourseOf(frames, p, bytes)
    BY <1>1, <1>2, <1>3, <1>4, <1>20, <2>1, <2>2 DEF Course
  <2>4. \E l2 \in Nat : IsCourse(X2, frames, p, bytes, l2)
    BY <2>3, CourseIs
  <2> QED
    BY <1>20, <2>1, <2>2, <2>4
<1>7. /\ Len(X) = n + l /\ (\A k \in 1..n : X[k] = line[k])
      /\ \A k \in 1..l : X[n + k] = Letter(frames, m, pos + k)
  BY <1>1, <1>2, <1>5 DEF IsCourse
<1>8. /\ Len(X2) = n2 + l2 /\ (\A k \in 1..n2 : X2[k] = line'[k])
      /\ (\A k \in 1..l2 : X2[n2 + k] = Letter(frames, m, pos' + k))
      /\ l2 # 0 => m \in 1..m /\ pos' + l2 = Len(frames[m])
  BY <1>2, <1>3, <1>6 DEF IsCourse
<1>9. Regular(X2, n2, frames)
  <2>1. PICK p \in Nat : p = pos'
    BY <1>4
  <2>2. /\ n2 \in Nat /\ l2 \in Nat /\ Len(X2) = n2 + l2 /\ frames \in Seq(Sendable) /\ p \in Nat
        /\ (\A k \in 1..l2 : X2[n2 + k] = Letter(frames, Len(frames), p + k))
        /\ l2 # 0 => Len(frames) \in 1..Len(frames) /\ p + l2 = Len(frames[Len(frames)])
    BY <1>2, <1>8, <2>1
  <2> QED
    BY <2>2, RegularRest
<1>10. Regular(X, hurt, frames) /\ Placed(X, hurt, frames, damaged)
  BY <1>1, <1>5 DEF CourseInv
<1>11. \A k \in 1..n : X2[k] = X[k]
  BY <1>3, <1>7, <1>8
<1>12. ASSUME NEW k \in (n + 1)..(n2 + l2) PROVE X2[k].frame = m
  <2>1. CASE k <= n2
    BY <1>3, <1>8, <2>1
  <2>2. CASE ~(k <= n2)
    <3>1. k - n2 \in 1..l2 /\ k = n2 + (k - n2)
      BY <2>2
    <3>2. X2[k] = Letter(frames, m, pos' + (k - n2))
      BY <1>8, <3>1
    <3> QED
      BY <3>2 DEF Letter
  <2> QED
    BY <2>1, <2>2
<1>13. \A k \in 1..(n2 + l2) : X2[k].frame \in 1..m
  <2> SUFFICES ASSUME NEW k \in 1..(n2 + l2) PROVE X2[k].frame \in 1..m
    OBVIOUS
  <2>1. CASE k <= n
    <3>1. k \in 1..Len(X) /\ k \in 1..n
      BY <1>7, <2>1
    <3> QED
      BY <1>2, <1>10, <1>11, <3>1 DEF Placed
  <2>2. CASE ~(k <= n)
    <3>1. k \in (n + 1)..(n2 + l2)
      BY <2>2
    <3> QED
      BY <1>2, <1>12, <3>1
  <2> QED
    BY <2>1, <2>2
<1>14. ASSUME NEW i \in 1..m, i \notin damaged, i # m
       PROVE  \E s \in Nat : /\ s + Len(frames[i]) <= n2 + l2
                             /\ \A j \in 1..Len(frames[i]) : X2[s + j] = Letter(frames, i, j)
                             /\ \A k \in 1..s : X2[k].frame # i
  <2>1. i \in 1..Len(frames) \ damaged
    BY <1>2, <1>14
  <2>2. PICK s \in Nat : /\ s + Len(frames[i]) <= n + l
                         /\ \A j \in 1..Len(frames[i]) : X[s + j] = Letter(frames, i, j)
                         /\ \A k \in 1..s : X[k].frame # i
    BY <1>7, <1>10, <2>1 DEF Placed
  <2>3. PICK c \in Nat : c = Len(frames[i]) /\ 3 <= c
    BY <1>2, <2>1, SentFrame
  <2>4. \A k \in (n + 1)..(n + l) : X[k].frame = m
    <3> SUFFICES ASSUME NEW k \in (n + 1)..(n + l) PROVE X[k].frame = m
      OBVIOUS
    <3>1. k - n \in 1..l /\ k = n + (k - n)
      OBVIOUS
    <3>2. X[k] = Letter(frames, m, pos + (k - n))
      BY <1>7, <3>1
    <3> QED
      BY <3>2 DEF Letter
  <2>5. s + c <= n
    <3> SUFFICES ASSUME ~(s + c <= n) PROVE FALSE
      OBVIOUS
    <3>1. s + c \in (n + 1)..(n + l) /\ c \in 1..c
      BY <2>2, <2>3
    <3>2. X[s + c] = Letter(frames, i, c)
      BY <2>2, <2>3, <3>1
    <3>3. X[s + c].frame = i
      BY <3>2 DEF Letter
    <3> QED
      BY <1>14, <2>4, <3>1, <3>3
  <2>6. \A j \in 1..c : X2[s + j] = Letter(frames, i, j)
    <3>1. \A j \in 1..c : s + j \in 1..n
      BY <2>5
    <3> QED
      BY <1>11, <2>2, <2>3, <3>1
  <2>7. \A k \in 1..s : X2[k].frame # i
    <3>1. \A k \in 1..s : k \in 1..n
      BY <2>3, <2>5
    <3> QED
      BY <1>11, <2>2, <3>1
  <2>8. s + c <= n2 + l2
    BY <1>3, <2>5
  <2> QED
    BY <2>3, <2>6, <2>7, <2>8
<1>15. Placed(X2, n2, frames, damaged')
  <2>1. damaged' # {} /\ \A i \in 1..Len(frames) \ damaged' : i \in 1..m /\ i \notin damaged /\ i # m
    BY <1>1, <1>2
  <2>2. \A k \in 1..Len(X2) : X2[k].frame \in 1..Len(frames)
    BY <1>2, <1>8, <1>13
  <2>3. ASSUME NEW i \in 1..Len(frames) \ damaged'
        PROVE  \E s \in Nat : /\ s + Len(frames[i]) <= Len(X2)
                              /\ \A j \in 1..Len(frames[i]) : X2[s + j] = Letter(frames, i, j)
                              /\ \A k \in 1..s : X2[k].frame # i
    BY <1>8, <1>14, <2>1, ZenonT(40)
  <2> QED
    BY <2>1, <2>2, <2>3 DEF Placed
<1>16. Sending'
  <2>1. damaged' \subseteq 1..m
    BY <1>1, <1>2 DEF CourseInv, Sending
  <2>2. hurt' \in Nat /\ hurt' <= Len(line')
    BY <1>3
  <2> QED
    BY <1>1, <1>2, <1>3, <1>4, <2>1, <2>2 DEF Sending
<1> QED
  BY <1>1, <1>3, <1>6, <1>9, <1>15, <1>16 DEF CourseInv

-----------------------------------------------------------------------------
(* The node's decoder on any bytes.                                        *)

\* Of a frame with an accepted header the decoder has checked the first a bytes and
\* collects the part behind them.
InPayload(d) ==
  /\ d.resync = FALSE /\ d.raw \in Seq(Range(d.raw)) /\ 3 <= Len(d.raw)
  /\ HeaderVerdict(d.raw, NdAccepts) = "SUCCESS"
  /\ \E a \in Nat :
       /\ 3 <= a /\ a <= Len(d.raw) /\ Clean(SubSeq(d.raw, 3 + 1, a))
       /\ d.buf = SubSeq(d.raw, a + 1, Len(d.raw))
       /\ \/ d.st = "FIXED" /\ a = 3 /\ Len(d.raw) < 3 + LayoutOf(d.raw).fixed
          \/ /\ d.st = "ELEM" /\ d.i \in Nat /\ d.i < LayoutOf(d.raw).n
             /\ a = 3 + LayoutOf(d.raw).fixed + d.i * LayoutOf(d.raw).elem
             /\ Len(d.raw) < a + LayoutOf(d.raw).elem

NodeHolds(d) ==
  /\ IsNode(d) /\ d.resync \in BOOLEAN
  /\ \/ d.st = "HDR" /\ d.buf \in Seq(Range(d.buf)) /\ Len(d.buf) < 3
     \/ /\ d.st = "DRAIN" /\ d.buf = << >> /\ d.resync = TRUE
        /\ d.drain \in Nat /\ 1 <= d.drain /\ d.drain < MaxTotal
     \/ InPayload(d)

\* The bytes the decoder has not done with, and how many it will drop unseen.
Held(d) == IF d.st = "HDR" THEN d.buf ELSE IF d.st = "DRAIN" THEN << >> ELSE d.raw
Ahead(d) == IF d.st = "DRAIN" THEN d.drain ELSE 0

\* What the next byte makes of taken, which ends with it.
Drains == /\ nd.st = "DRAIN" /\ Held(nd') = << >> /\ Ahead(nd') = Ahead(nd) - 1
          /\ nd'.resync = nd.resync /\ NoNews
Collects(taken) == /\ Len(taken) < 3 /\ Held(nd') = taken /\ Ahead(nd') = 0
                   /\ nd'.resync = nd.resync /\ NoNews
Skipped(taken) == /\ Len(taken) = 3 /\ ~NdCandidate(taken) /\ Held(nd') = Tail(taken) /\ Ahead(nd') = 0
                  /\ nd'.resync = TRUE /\ NoNews
Dropped(taken) ==
  /\ Len(taken) = 3 /\ HeaderVerdict(taken, NdAccepts) # "SUCCESS"
  /\ nd.resync = FALSE \/ NdCandidate(taken)
  /\ Held(nd') = << >> /\ Ahead(nd') = 0 /\ nd'.resync = TRUE
  /\ \E rsc : rsc # "SUCCESS" /\ Ended(rsc, taken)
Begun(taken) ==
  /\ 3 <= Len(taken) /\ HeaderVerdict(taken, NdAccepts) = "SUCCESS"
  /\ Held(nd') = taken /\ Ahead(nd') = 0 /\ nd'.resync = FALSE /\ NoNews
Finished(taken) ==
  /\ 3 <= Len(taken) /\ ValidFrame(taken, NdAccepts)
  /\ Held(nd') = << >> /\ Ahead(nd') = 0 /\ nd'.resync = FALSE /\ Ended("SUCCESS", taken)
Spoilt(taken) ==
  /\ 3 <= Len(taken) /\ HeaderVerdict(taken, NdAccepts) = "SUCCESS" /\ Len(taken) <= Total(taken)
  /\ ~Clean(SubSeq(taken, 3 + 1, Len(taken)))
  /\ Held(nd') = << >> /\ Ahead(nd') = Total(taken) - Len(taken) /\ nd'.resync = TRUE
  /\ Ended("INVALID_FORMAT", taken)

\* What an accepted header announces.
LEMMA Announced ==
  ASSUME NEW taken, HeaderVerdict(taken, NdAccepts) = "SUCCESS"
  PROVE  /\ LayoutOf(taken).fixed \in Nat /\ LayoutOf(taken).elem \in Nat /\ LayoutOf(taken).n \in Nat
         /\ \E m \in Nat : /\ m = LayoutOf(taken).elem * LayoutOf(taken).n
                           /\ Total(taken) = 3 + LayoutOf(taken).fixed + m
         /\ Total(taken) \in Nat /\ Total(taken) <= MaxTotal /\ NdCandidate(taken)
<1>1. Resolves(taken) /\ NdCandidate(taken)
  BY AcceptedLooks
<1>2. PICK F \in Nat, e \in Nat, n \in Nat :
         F = LayoutOf(taken).fixed /\ e = LayoutOf(taken).elem /\ n = LayoutOf(taken).n
  BY <1>1, StreamAssumption DEF Resolves, Defined, LayoutOf
<1>3. PICK m \in Nat : m = e * n
  OBVIOUS
<1>4. Total(taken) = 3 + (F + m)
  BY <1>2, <1>3 DEF Total, PayloadLen, Size, LayoutOf, HeaderBytes
<1>5. Total(taken) <= MaxTotal
  BY <1>1, LongestFrame
<1> QED
  BY <1>1, <1>2, <1>3, <1>4, <1>5

\* The states the handlers leave.
LEMMA LeftToDrop ==
  ASSUME NEW r \in Nat, r < MaxTotal
  PROVE  /\ NodeHolds(Drained(r)) /\ Held(Drained(r)) = << >> /\ Ahead(Drained(r)) = r
         /\ Drained(r).resync = TRUE
<1>1. PICK d : d = Drained(r)
  OBVIOUS
<1>2. IsNode(d) /\ d.buf = << >> /\ d.resync = TRUE /\ d.drain = r
      /\ d.st = IF r = 0 THEN "HDR" ELSE "DRAIN"
  BY <1>1 DEF Drained, IsNode
<1>3. << >> \in Seq(Range(<< >>)) /\ Len(<< >>) < 3
  OBVIOUS
<1>4. CASE r = 0
  BY <1>1, <1>2, <1>3, <1>4 DEF NodeHolds, Held, Ahead
<1>5. CASE r # 0
  <2>0. d.drain = r /\ r \in Nat /\ 1 <= r
    BY <1>2, <1>5
  <2>1. d.st = "DRAIN" /\ d.resync \in BOOLEAN /\ d.drain \in Nat /\ 1 <= d.drain /\ d.drain < MaxTotal
    <3>1. d.st = "DRAIN"
      BY <1>2, <1>5
    <3>2. d.resync \in BOOLEAN
      BY <1>2
    <3>3. d.drain \in Nat /\ 1 <= d.drain /\ d.drain < MaxTotal
      BY <2>0
    <3> QED
      BY <3>1, <3>2, <3>3
  <2>2. NodeHolds(d)
    BY <1>2, <2>1 DEF NodeHolds
  <2>3. Held(d) = << >> /\ Ahead(d) = r
    BY <1>2, <2>1 DEF Held, Ahead
  <2> QED
    BY <1>1, <1>2, <2>2, <2>3
<1> QED
  BY <1>4, <1>5

\* A frame that ends leaves the decoder as it was before any header.
LEMMA Rested ==
  ASSUME NEW h, NEW raw, NEW d, d = InFrame(h, "HDR", raw)
  PROVE  NodeHolds(d) /\ Held(d) = << >> /\ Ahead(d) = 0 /\ d.resync = FALSE
<1>1. IsNode(d) /\ d.buf = << >> /\ d.resync = FALSE /\ d.st = "HDR"
  BY DEF InFrame, IsNode
<1>2. << >> \in Seq(Range(<< >>)) /\ Len(<< >>) < 3
  OBVIOUS
<1> QED
  BY <1>1, <1>2 DEF NodeHolds, Held, Ahead

\* Behind the header, or behind the fixed part, the decoder goes on with the first
\* element or ends.
LEMMA GoesOnWith ==
  ASSUME NEW taken, taken \in Seq(Range(taken)), HeaderVerdict(taken, NdAccepts) = "SUCCESS",
         Len(taken) = 3 + LayoutOf(taken).fixed, Clean(SubSeq(taken, 3 + 1, Len(taken))),
         NEW st, st = (IF LayoutOf(taken).elem > 0 /\ LayoutOf(taken).n > 0 THEN "ELEM" ELSE "HDR"),
         NEW h, nd' = InFrame(h, st, taken),
         IF st = "HDR" THEN Ended("SUCCESS", taken) ELSE NoNews
  PROVE  NodeHolds(nd') /\ (Begun(taken) \/ Finished(taken))
<1>1. PICK F \in Nat, e \in Nat, n \in Nat :
        /\ F = LayoutOf(taken).fixed /\ e = LayoutOf(taken).elem /\ n = LayoutOf(taken).n
  BY Announced
<1>2. PICK m \in Nat : m = e * n /\ Total(taken) = 3 + F + m
  BY <1>1, Announced
<1>3. Len(taken) = 3 + F /\ 3 <= Len(taken) /\ Len(taken) \in Nat
  BY <1>1
<1>4. CASE e > 0 /\ n > 0
  <2>1. st = "ELEM"
    BY <1>1, <1>4
  <2>2. /\ IsNode(nd') /\ nd'.st = "ELEM" /\ nd'.raw = taken /\ nd'.buf = << >> /\ nd'.i = 0
        /\ nd'.resync = FALSE /\ NoNews
    BY <2>1 DEF InFrame, IsNode
  <2>3. PICK a \in Nat : a = Len(taken)
    BY <1>3
  <2>4. SubSeq(taken, a + 1, Len(taken)) = << >>
    BY <2>3
  <2>5. a = 3 + LayoutOf(taken).fixed + 0 * LayoutOf(taken).elem
    <3>1. 0 * e = 0
      BY Elements, <1>4
    <3> QED
      BY <1>1, <1>3, <2>3, <3>1
  <2>6. 3 <= a /\ a <= Len(taken) /\ Len(taken) < a + LayoutOf(taken).elem /\ 0 < LayoutOf(taken).n
    BY <1>1, <1>3, <1>4, <2>3
  <2>7. InPayload(nd')
    <3>1. PICK d : d = nd'
      OBVIOUS
    <3>2. /\ d.st = "ELEM" /\ d.raw = taken /\ d.buf = SubSeq(taken, a + 1, Len(taken)) /\ d.i = 0
          /\ d.resync = FALSE /\ d.i \in Nat
      <4>1. d.st = "ELEM" /\ d.raw = taken /\ d.buf = SubSeq(taken, a + 1, Len(taken))
        BY <2>2, <2>4, <3>1
      <4>2. d.i = 0 /\ d.i \in Nat
        BY <2>2, <3>1
      <4>3. d.resync = FALSE
        BY <2>2, <3>1
      <4> QED
        BY <4>1, <4>2, <4>3
    <3>3. /\ a = 3 + LayoutOf(taken).fixed + d.i * LayoutOf(taken).elem /\ d.i < LayoutOf(taken).n
          /\ Clean(SubSeq(taken, 3 + 1, a))
      BY <2>3, <2>5, <2>6, <3>2
    <3>4. InPayload(d)
      BY <1>3, <2>6, <3>2, <3>3 DEF InPayload
    <3> QED
      BY <3>1, <3>4
  <2>8. NodeHolds(nd') /\ Held(nd') = taken /\ Ahead(nd') = 0
    BY <2>2, <2>7 DEF NodeHolds, Held, Ahead
  <2> QED
    BY <1>3, <2>2, <2>8 DEF Begun
<1>5. CASE ~(e > 0 /\ n > 0)
  <2>1. st = "HDR" /\ Ended("SUCCESS", taken)
    BY <1>1, <1>5
  <2>2. m = 0
    <3>1. e = 0 \/ n = 0
      BY <1>5
    <3> QED
      BY <1>2, <3>1
  <2>3. Len(taken) = Total(taken)
    BY <1>2, <1>3, <2>2
  <2>4. ValidFrame(taken, NdAccepts)
    BY <2>3 DEF ValidFrame, HeaderBytes
  <2>5. NodeHolds(nd') /\ Held(nd') = << >> /\ Ahead(nd') = 0 /\ nd'.resync = FALSE
    BY <2>1, Rested
  <2> QED
    BY <1>3, <2>1, <2>4, <2>5 DEF Finished
<1> QED
  BY <1>4, <1>5

\* A byte of a header, or of what may become one.
LEMMA HeaderMoves ==
  ASSUME NodeHolds(nd), nd.st = "HDR", NEW byte, NdFeed(byte), NEW taken, taken = Append(nd.buf, byte)
  PROVE  /\ NodeHolds(nd')
         /\ Collects(taken) \/ Skipped(taken) \/ Dropped(taken) \/ Begun(taken) \/ Finished(taken)
<1>1. nd.buf \in Seq(Range(nd.buf)) /\ Len(nd.buf) < 3 /\ IsNode(nd) /\ nd.resync \in BOOLEAN
  BY DEF NodeHolds, InPayload
<1>2. taken \in Seq(Range(taken)) /\ Len(taken) = Len(nd.buf) + 1 /\ Len(taken) \in Nat
  BY <1>1, OwnElements
<1>3. CASE Len(taken) # 3
  <2>1. nd' = [nd EXCEPT !.buf = taken, !.raw = nd.raw] /\ NoNews
    <3>1. nd' = [nd EXCEPT !.buf = taken, !.raw = IF nd.st = "HDR" THEN @ ELSE Append(nd.raw, byte)] /\ NoNews
      BY <1>3 DEF NdFeed, HeaderBytes
    <3> QED
      BY <3>1
  <2>2. IsNode(nd') /\ nd'.st = "HDR" /\ nd'.buf = taken
    BY <1>1, <2>1 DEF IsNode
  <2>3. nd'.resync = nd.resync /\ nd'.resync \in BOOLEAN
    BY <1>1, <2>1 DEF IsNode
  <2>4. Len(taken) < 3
    BY <1>1, <1>2, <1>3
  <2>5. NodeHolds(nd')
    BY <1>2, <2>2, <2>3, <2>4 DEF NodeHolds
  <2>6. Held(nd') = taken /\ Ahead(nd') = 0
    BY <2>2 DEF Held, Ahead
  <2> QED
    BY <2>1, <2>3, <2>4, <2>5, <2>6 DEF Collects
<1>4. CASE Len(taken) = 3
  <2>1. HeaderComplete(taken)
    BY <1>4 DEF NdFeed, HeaderBytes
  <2>2. CASE nd.resync /\ ~NdCandidate(taken)
    <3>1. nd' = [nd EXCEPT !.buf = Tail(taken)] /\ NoNews
      BY <2>1, <2>2 DEF HeaderComplete
    <3>2. IsNode(nd') /\ nd'.st = "HDR" /\ nd'.buf = Tail(taken)
      BY <1>1, <3>1 DEF IsNode
    <3>3. nd.resync = TRUE
      BY <1>1, <2>2
    <3>4. nd'.resync = TRUE
      BY <1>1, <3>1, <3>3 DEF IsNode
    <3>5. Tail(taken) \in Seq(Range(Tail(taken))) /\ Len(Tail(taken)) = 2
      <4>1. PICK t : t = Tail(taken)
        OBVIOUS
      <4>2. PICK r \in Nat : r = 2
        OBVIOUS
      <4>3. DOMAIN t = 1..r
        BY <1>2, <1>4, <4>1, <4>2
      <4>4. t = [k \in 1..r |-> t[k]]
        BY <1>2, <1>4, <4>1, <4>2
      <4>5. t \in [1..r -> Range(t)]
        BY <4>3, <4>4 DEF Range
      <4>6. t \in Seq(Range(t)) /\ Len(t) = r
        BY <4>5
      <4> QED
        BY <4>1, <4>2, <4>6
    <3>6. NodeHolds(nd')
      <4>1. nd'.resync \in BOOLEAN
        BY <3>4
      <4>2. nd'.buf \in Seq(Range(nd'.buf)) /\ Len(nd'.buf) < 3
        <5>1. PICK t : t = Tail(taken)
          OBVIOUS
        <5>2. nd'.buf = t /\ t \in Seq(Range(t)) /\ Len(t) = 2
          BY <3>2, <3>5, <5>1
        <5>3. t \in Seq(Range(t)) /\ Len(t) < 3
          BY <5>2
        <5> QED
          BY <5>2, <5>3
      <4> QED
        BY <3>2, <4>1, <4>2 DEF NodeHolds
    <3>7. Held(nd') = Tail(taken) /\ Ahead(nd') = 0
      BY <3>2 DEF Held, Ahead
    <3> QED
      BY <1>4, <2>2, <3>1, <3>4, <3>6, <3>7 DEF Skipped
  <2>3. CASE ~(nd.resync /\ ~NdCandidate(taken)) /\ HeaderVerdict(taken, NdAccepts) # "SUCCESS"
    <3>1. nd' = Drained(AfterHeader(taken)) /\ Ended(HeaderVerdict(taken, NdAccepts), taken)
      BY <2>1, <2>3 DEF HeaderComplete
    <3>2. nd' = Drained(0)
      BY <3>1 DEF AfterHeader
    <3>3. 0 < MaxTotal /\ 0 \in Nat
      BY LongestFrame DEF HeaderBytes
    <3>4. /\ NodeHolds(Drained(0)) /\ Held(Drained(0)) = << >>
          /\ Ahead(Drained(0)) = 0 /\ Drained(0).resync = TRUE
      BY <3>3, LeftToDrop
    <3>5. NodeHolds(nd') /\ Held(nd') = << >> /\ Ahead(nd') = 0 /\ nd'.resync = TRUE
      BY <3>2, <3>4
    <3>6. nd.resync = FALSE \/ NdCandidate(taken)
      BY <1>1, <2>3
    <3>7. \E rsc : rsc # "SUCCESS" /\ Ended(rsc, taken)
      BY <2>3, <3>1
    <3> QED
      BY <1>4, <2>3, <3>5, <3>6, <3>7 DEF Dropped
  <2>4. CASE ~(nd.resync /\ ~NdCandidate(taken)) /\ HeaderVerdict(taken, NdAccepts) = "SUCCESS"
    <3>1. PICK st : st = NextState(taken, FALSE)
      OBVIOUS
    <3>2. nd' = InFrame(taken, st, taken) /\ IF st = "HDR" THEN Ended("SUCCESS", taken) ELSE NoNews
      BY <2>1, <2>4, <3>1 DEF HeaderComplete
    <3>3. LayoutOf(taken).fixed \in Nat
      BY <2>4, Announced
    <3>4. \A k \in 1..0 : FALSE
      OBVIOUS
    <3>5. Clean(SubSeq(taken, 3 + 1, 3))
      <4>1. SubSeq(taken, 3 + 1, 3) = << >>
        BY <1>2, <1>4
      <4> QED
        BY <4>1 DEF Clean
    <3>6. CASE LayoutOf(taken).fixed > 0
      <4>1. st = "FIXED"
        BY <3>1, <3>6 DEF NextState
      <4>2. PICK d : d = nd'
        OBVIOUS
      <4>3. d = InFrame(taken, "FIXED", taken)
        BY <3>2, <4>1, <4>2
      <4>4. IsNode(d) /\ d.st = "FIXED" /\ d.raw = taken /\ d.buf = << >> /\ d.resync = FALSE
        BY <4>3 DEF InFrame, IsNode
      <4>5. PICK a \in Nat : a = 3
        OBVIOUS
      <4>6. d.buf = SubSeq(taken, a + 1, Len(taken))
        BY <1>2, <1>4, <4>4, <4>5
      <4>7. /\ 3 <= a /\ a <= Len(taken) /\ Clean(SubSeq(taken, 3 + 1, a))
            /\ Len(taken) < 3 + LayoutOf(taken).fixed
        BY <1>4, <3>3, <3>5, <3>6, <4>5
      <4>8. 3 <= Len(taken) /\ taken \in Seq(Range(taken))
        BY <1>2, <1>4
      <4>9. InPayload(d)
        BY <2>4, <4>4, <4>5, <4>6, <4>7, <4>8 DEF InPayload
      <4>10. NodeHolds(d) /\ Held(d) = taken /\ Ahead(d) = 0
        BY <4>4, <4>9 DEF NodeHolds, Held, Ahead
      <4>11. NoNews
        BY <3>2, <4>1
      <4> QED
        BY <2>4, <4>2, <4>4, <4>8, <4>10, <4>11 DEF Begun
    <3>7. CASE ~(LayoutOf(taken).fixed > 0)
      <4>1. st = IF LayoutOf(taken).elem > 0 /\ LayoutOf(taken).n > 0 THEN "ELEM" ELSE "HDR"
        BY <3>1, <3>7 DEF NextState
      <4>2. Len(taken) = 3 + LayoutOf(taken).fixed
        BY <1>4, <3>3, <3>7
      <4>3. Clean(SubSeq(taken, 3 + 1, Len(taken)))
        BY <1>4, <3>5
      <4> QED
        BY <1>2, <2>4, <3>2, <4>1, <4>2, <4>3, GoesOnWith
    <3> QED
      BY <3>6, <3>7
  <2> QED
    BY <2>2, <2>3, <2>4
<1> QED
  BY <1>3, <1>4

\* A frame of which the first a bytes were checked has grown by the byte that its part,
\* behind them, has grown by.
Grown(raw, a, taken, part) ==
  /\ taken \in Seq(Range(taken)) /\ Len(taken) = Len(raw) + 1
  /\ part = SubSeq(taken, a + 1, Len(taken)) /\ Len(part) = Len(taken) - a
  /\ SubSeq(taken, 3 + 1, a) = SubSeq(raw, 3 + 1, a)
  /\ LayoutOf(SubSeq(raw, 1, 3)) = LayoutOf(taken) /\ LayoutOf(raw) = LayoutOf(taken)
  /\ HeaderVerdict(taken, NdAccepts) = HeaderVerdict(raw, NdAccepts)
  /\ Clean(SubSeq(taken, 3 + 1, Len(taken))) <=> Clean(SubSeq(taken, 3 + 1, a)) /\ Clean(part)

\* A byte of a part of the payload: the part behind a bytes is collected, and is clean
\* with what is before it if it is by itself.
LEMMA PartGrows ==
  ASSUME NEW raw, raw \in Seq(Range(raw)), NEW a \in Nat, 3 <= a, a <= Len(raw),
         NEW buf, buf = SubSeq(raw, a + 1, Len(raw)), NEW byte,
         NEW taken, taken = Append(raw, byte), NEW part, part = Append(buf, byte),
         3 <= Len(raw)
  PROVE  Grown(raw, a, taken, part)
<1>1. PICK p \in Nat, r \in Nat, c \in Nat : p = Len(raw) /\ p = a + r /\ a = 3 + c
  <2>1. Len(raw) \in Nat
    OBVIOUS
  <2>2. Len(raw) - a \in Nat /\ Len(raw) = a + (Len(raw) - a) /\ a - 3 \in Nat /\ a = 3 + (a - 3)
    BY <2>1
  <2> QED
    BY <2>1, <2>2
<1>2. /\ taken \in Seq(Range(taken)) /\ Len(taken) = p + 1
      /\ (\A k \in 1..p : taken[k] = raw[k]) /\ taken[p + 1] = byte
  <2>1. taken[p + 1] = byte
    <3>1. PICK S : S = Range(raw) \cup {byte}
      OBVIOUS
    <3>2. raw \in Seq(S) /\ byte \in S
      BY <3>1
    <3>3. PICK t : t = Append(raw, byte)
      OBVIOUS
    <3>4. t[Len(raw) + 1] = byte
      BY <3>2, <3>3
    <3> QED
      BY <1>1, <3>3, <3>4
  <2> QED
    BY <1>1, <2>1, OwnElements, ZenonT(40)
<1>3. part = SubSeq(taken, a + 1, p + 1) /\ Len(part) = (p + 1) - a
  <2>1. SubSeq(taken, a + 1, p) = SubSeq(raw, a + 1, p)
    <3>1. PICK S : S = Range(raw)
      OBVIOUS
    <3>2. raw \in Seq(S) /\ a <= p /\ p <= Len(raw) /\ \A k \in 1..Len(raw) : taken[k] = raw[k]
      BY <1>1, <1>2, <3>1
    <3> QED
      BY <3>2, SameSlice, SMTT(30)
  <2>2. /\ Append(SubSeq(taken, a + 1, p), taken[p + 1]) = SubSeq(taken, a + 1, p + 1)
        /\ Len(SubSeq(taken, a + 1, p + 1)) = (p + 1) - a
    <3>1. PICK S : S = Range(taken)
      OBVIOUS
    <3>2. taken \in Seq(S) /\ a <= p /\ p + 1 <= Len(taken)
      BY <1>1, <1>2, <3>1
    <3> QED
      BY <3>2, Lengthened, SMTT(30)
  <2> QED
    BY <1>1, <1>2, <2>1, <2>2
<1>4. SubSeq(taken, 3 + 1, a) = SubSeq(raw, 3 + 1, a)
  <2>1. PICK S : S = Range(raw)
    OBVIOUS
  <2>2. raw \in Seq(S) /\ 3 <= a /\ a <= Len(raw) /\ \A k \in 1..Len(raw) : taken[k] = raw[k]
    BY <1>1, <1>2, <2>1
  <2> QED
    BY <2>2, SameSlice
<1>5. taken[1] = raw[1] /\ taken[2] = raw[2] /\ taken[3] = raw[3]
  <2>1. 1 \in 1..p /\ 2 \in 1..p /\ 3 \in 1..p
    BY <1>1
  <2> QED
    BY <1>2, <2>1
<1>6. PICK h : h = SubSeq(raw, 1, 3)
  OBVIOUS
<1>7. h[1] = raw[1] /\ h[2] = raw[2] /\ h[3] = raw[3]
  <2>1. SubSeq(raw, 0 + 1, 0 + 3) = [k \in 1..3 |-> raw[0 + k]]
    BY SliceOf
  <2>2. h = [k \in 1..3 |-> raw[k]]
    BY <1>6, <2>1
  <2> QED
    BY <2>2
<1>8. LayoutOf(h) = LayoutOf(taken) /\ LayoutOf(raw) = LayoutOf(taken)
      /\ HeaderVerdict(taken, NdAccepts) = HeaderVerdict(raw, NdAccepts)
  <2>1. h[1] = taken[1] /\ h[2] = taken[2] /\ h[3] = taken[3]
    BY <1>5, <1>7
  <2>2. LayoutOf(h) = LayoutOf(taken)
    BY <2>1, SameHeader
  <2>3. LayoutOf(taken) = LayoutOf(raw) /\ HeaderVerdict(taken, NdAccepts) = HeaderVerdict(raw, NdAccepts)
    BY <1>5, SameHeader
  <2> QED
    BY <2>2, <2>3
<1>9. Clean(SubSeq(taken, 3 + 1, p + 1)) <=> Clean(SubSeq(taken, 3 + 1, a)) /\ Clean(part)
  <2>1. PICK m \in Nat, w \in Nat : m = r + 1 /\ w = c + m
    OBVIOUS
  <2>2. p + 1 = 3 + w /\ p + 1 = a + m
    BY <1>1, <2>1
  <2>3. Clean(SubSeq(taken, 3 + 1, 3 + w)) <=> \A k \in 1..w : taken[3 + k].sym # Bad
    BY CleanSlice
  <2>4. Clean(SubSeq(taken, 3 + 1, 3 + c)) <=> \A k \in 1..c : taken[3 + k].sym # Bad
    BY CleanSlice
  <2>5. Clean(SubSeq(taken, a + 1, a + m)) <=> \A k \in 1..m : taken[a + k].sym # Bad
    BY CleanSlice
  <2>6. (\A k \in 1..w : taken[3 + k].sym # Bad)
          <=> (\A k \in 1..c : taken[3 + k].sym # Bad) /\ (\A k \in 1..m : taken[a + k].sym # Bad)
    <3>1. \A k \in 1..c : k \in 1..w
      BY <2>1
    <3>2. \A k \in 1..m : c + k \in 1..w /\ a + k = 3 + (c + k)
      BY <1>1, <2>1
    <3>3. \A k \in 1..w : k \in 1..c \/ \E j \in 1..m : k = c + j
      <4> SUFFICES ASSUME NEW k \in 1..w, ~(k \in 1..c) PROVE \E j \in 1..m : k = c + j
        OBVIOUS
      <4>1. k - c \in 1..m /\ k = c + (k - c)
        BY <2>1
      <4> QED
        BY <4>1
    <3>4. ASSUME \A k \in 1..w : taken[3 + k].sym # Bad
          PROVE  (\A k \in 1..c : taken[3 + k].sym # Bad) /\ (\A k \in 1..m : taken[a + k].sym # Bad)
      BY <3>1, <3>2, <3>4
    <3>5. ASSUME \A k \in 1..c : taken[3 + k].sym # Bad, \A k \in 1..m : taken[a + k].sym # Bad,
                 NEW k \in 1..w
          PROVE  taken[3 + k].sym # Bad
      <4>1. CASE k \in 1..c
        BY <3>5, <4>1
      <4>2. ASSUME NEW j \in 1..m, k = c + j PROVE taken[3 + k].sym # Bad
        <5>1. a + j = 3 + k
          BY <3>2, <4>2
        <5> QED
          BY <3>5, <5>1
      <4> QED
        BY <3>3, <4>1, <4>2
    <3> QED
      BY <3>4, <3>5
  <2> QED
    BY <1>1, <1>3, <2>2, <2>3, <2>4, <2>5, <2>6
<1> QED
  BY <1>1, <1>2, <1>3, <1>4, <1>6, <1>8, <1>9, SMTT(30) DEF Grown

\* A byte of a payload.
LEMMA PayloadMoves ==
  ASSUME NodeHolds(nd), InPayload(nd), NEW byte, NdFeed(byte), NEW taken, taken = Append(nd.raw, byte)
  PROVE  NodeHolds(nd') /\ (Begun(taken) \/ Finished(taken) \/ Spoilt(taken))
<1>1. PICK raw, part : raw = nd.raw /\ part = Append(nd.buf, byte)
  OBVIOUS
<1>2. /\ IsNode(nd) /\ nd.resync = FALSE /\ raw \in Seq(Range(raw)) /\ 3 <= Len(raw)
      /\ HeaderVerdict(raw, NdAccepts) = "SUCCESS"
  BY <1>1 DEF InPayload, NodeHolds
<1>3. PICK a \in Nat :
       /\ 3 <= a /\ a <= Len(raw) /\ Clean(SubSeq(raw, 3 + 1, a))
       /\ nd.buf = SubSeq(raw, a + 1, Len(raw))
       /\ \/ nd.st = "FIXED" /\ a = 3 /\ Len(raw) < 3 + LayoutOf(raw).fixed
          \/ /\ nd.st = "ELEM" /\ nd.i \in Nat /\ nd.i < LayoutOf(raw).n
             /\ a = 3 + LayoutOf(raw).fixed + nd.i * LayoutOf(raw).elem
             /\ Len(raw) < a + LayoutOf(raw).elem
  BY <1>1 DEF InPayload
<1>4. /\ taken \in Seq(Range(taken)) /\ Len(taken) = Len(raw) + 1
      /\ part = SubSeq(taken, a + 1, Len(taken)) /\ Len(part) = Len(taken) - a
      /\ SubSeq(taken, 3 + 1, a) = SubSeq(raw, 3 + 1, a)
      /\ LayoutOf(SubSeq(raw, 1, 3)) = LayoutOf(taken) /\ LayoutOf(raw) = LayoutOf(taken)
      /\ HeaderVerdict(taken, NdAccepts) = HeaderVerdict(raw, NdAccepts)
      /\ Clean(SubSeq(taken, 3 + 1, Len(taken))) <=> Clean(SubSeq(taken, 3 + 1, a)) /\ Clean(part)
  <2>1. PICK buf : buf = nd.buf
    OBVIOUS
  <2>2. /\ raw \in Seq(Range(raw)) /\ a \in Nat /\ 3 <= a /\ a <= Len(raw)
        /\ buf = SubSeq(raw, a + 1, Len(raw)) /\ taken = Append(raw, byte) /\ part = Append(buf, byte)
        /\ 3 <= Len(raw)
    BY <1>1, <1>2, <1>3, <2>1
  <2>3. Grown(raw, a, taken, part)
    BY <2>2, PartGrows
  <2> QED
    BY <2>3 DEF Grown
<1>5. PICK t \in Nat : t = Len(taken) /\ 4 <= t /\ Len(raw) + 1 = t /\ a < t
  <2>1. Len(raw) \in Nat
    BY <1>2
  <2>2. Len(raw) + 1 \in Nat /\ 4 <= Len(raw) + 1 /\ a < Len(raw) + 1
    BY <1>2, <1>3, <2>1
  <2> QED
    BY <1>4, <2>2
<1>6. HeaderVerdict(taken, NdAccepts) = "SUCCESS" /\ Clean(SubSeq(taken, 3 + 1, a))
  BY <1>2, <1>3, <1>4
<1>7. PICK F \in Nat, e \in Nat, n \in Nat :
        F = LayoutOf(taken).fixed /\ e = LayoutOf(taken).elem /\ n = LayoutOf(taken).n
  BY <1>6, Announced
<1>8. PICK m \in Nat, top \in Nat :
        m = e * n /\ Total(taken) = 3 + F + m /\ top = MaxTotal /\ Total(taken) <= top
  <2>1. MaxTotal \in Nat
    BY LongestFrame
  <2>2. PICK m \in Nat : m = LayoutOf(taken).elem * LayoutOf(taken).n
                         /\ Total(taken) = 3 + LayoutOf(taken).fixed + m
    BY <1>6, Announced
  <2>3. Total(taken) <= MaxTotal
    BY <1>6, Announced
  <2> QED
    BY <1>7, <2>1, <2>2, <2>3
<1>9. LayoutOf(Header(nd)) = LayoutOf(taken)
  BY <1>1, <1>4 DEF Header, HeaderBytes
<1>10. ASSUME NEW r \in Nat, t + r = Total(taken), ~Clean(part),
              nd' = Drained(r), Ended("INVALID_FORMAT", taken)
       PROVE  NodeHolds(nd') /\ Spoilt(taken)
  <2>1. r < MaxTotal /\ r = Total(taken) - Len(taken) /\ Len(taken) <= Total(taken)
    BY <1>5, <1>8, <1>10
  <2>2. /\ NodeHolds(Drained(r)) /\ Held(Drained(r)) = << >> /\ Ahead(Drained(r)) = r
        /\ Drained(r).resync = TRUE
    BY <2>1, LeftToDrop
  <2>3. NodeHolds(nd') /\ Held(nd') = << >> /\ Ahead(nd') = r /\ nd'.resync = TRUE
    BY <1>10, <2>2
  <2>4. ~Clean(SubSeq(taken, 3 + 1, Len(taken))) /\ 3 <= Len(taken)
    BY <1>4, <1>5, <1>10
  <2> QED
    BY <1>6, <1>10, <2>1, <2>3, <2>4 DEF Spoilt
<1>11. ASSUME NEW st, nd' = [nd EXCEPT !.buf = part, !.raw = IF nd.st = "HDR" THEN @ ELSE taken], NoNews,
              \/ nd.st = "FIXED" /\ t < 3 + F
              \/ nd.st = "ELEM" /\ t < a + e
       PROVE  NodeHolds(nd') /\ Begun(taken)
  <2>1. PICK d : d = nd'
    OBVIOUS
  <2>2. /\ IsNode(d) /\ d.st = nd.st /\ d.raw = taken /\ d.buf = part /\ d.i = nd.i
    BY <1>2, <1>11, <2>1 DEF IsNode
  <2>3. d.resync = FALSE
    BY <1>2, <1>11, <2>1 DEF IsNode
  <2>4. InPayload(d)
    <3>1. /\ 3 <= a /\ a <= Len(taken) /\ Clean(SubSeq(taken, 3 + 1, a)) /\ 3 <= Len(taken)
          /\ d.buf = SubSeq(taken, a + 1, Len(taken))
      BY <1>3, <1>4, <1>5, <1>6, <2>2, SMTT(30)
    <3>2. \/ d.st = "FIXED" /\ a = 3 /\ Len(taken) < 3 + LayoutOf(taken).fixed
          \/ /\ d.st = "ELEM" /\ d.i \in Nat /\ d.i < LayoutOf(taken).n
             /\ a = 3 + LayoutOf(taken).fixed + d.i * LayoutOf(taken).elem
             /\ Len(taken) < a + LayoutOf(taken).elem
      BY <1>3, <1>4, <1>5, <1>7, <1>11, <2>2
    <3> QED
      BY <1>4, <1>6, <2>2, <2>3, <3>1, <3>2 DEF InPayload
  <2>5. NodeHolds(d)
    BY <2>2, <2>3, <2>4 DEF NodeHolds
  <2>6. Held(d) = taken /\ Ahead(d) = 0
    BY <1>11, <2>2 DEF Held, Ahead
  <2>7. 3 <= Len(taken)
    BY <1>5
  <2> QED
    BY <1>6, <1>11, <2>1, <2>3, <2>5, <2>6, <2>7 DEF Begun
<1>12. CASE nd.st = "FIXED"
  <2>1. a = 3 /\ t <= 3 + F
    <3>1. a = 3 /\ Len(raw) < 3 + F
      BY <1>3, <1>4, <1>7, <1>12
    <3>2. Len(raw) \in Nat
      BY <1>2
    <3> QED
      BY <1>5, <3>1, <3>2
  <2>2. CASE t = 3 + F
    <3>1. Len(part) = LayoutOf(Header(nd)).fixed
      BY <1>4, <1>5, <1>7, <1>9, <2>1, <2>2
    <3>2. FixedComplete(part, taken)
      BY <1>1, <1>12, <3>1 DEF NdFeed
    <3>3. CASE ~Clean(part)
      <4>1. nd' = Drained(LayoutOf(Header(nd)).elem * LayoutOf(Header(nd)).n)
            /\ Ended("INVALID_FORMAT", taken)
        BY <3>2, <3>3 DEF FixedComplete
      <4>2. nd' = Drained(m)
        BY <1>7, <1>8, <1>9, <4>1
      <4>3. t + m = Total(taken)
        BY <1>8, <2>2
      <4> QED
        BY <1>10, <3>3, <4>1, <4>2, <4>3
    <3>4. CASE Clean(part)
      <4>1. PICK st : st = NextState(Header(nd), TRUE)
        OBVIOUS
      <4>2. /\ nd' = InFrame(Header(nd), st, taken)
            /\ IF st = "HDR" THEN Ended("SUCCESS", taken) ELSE NoNews
        BY <3>2, <3>4, <4>1 DEF FixedComplete
      <4>3. st = IF LayoutOf(taken).elem > 0 /\ LayoutOf(taken).n > 0 THEN "ELEM" ELSE "HDR"
        BY <1>9, <4>1 DEF NextState
      <4>4. Len(taken) = 3 + LayoutOf(taken).fixed
        BY <1>5, <1>7, <2>2
      <4>5. Clean(SubSeq(taken, 3 + 1, Len(taken)))
        BY <1>4, <1>6, <3>4
      <4>6. PICK h : h = Header(nd)
        OBVIOUS
      <4> QED
        BY <1>4, <1>6, <4>2, <4>3, <4>4, <4>5, <4>6, GoesOnWith
    <3> QED
      BY <3>3, <3>4
  <2>3. CASE t # 3 + F
    <3>1. Len(part) # LayoutOf(Header(nd)).fixed /\ t < 3 + F
      BY <1>4, <1>5, <1>7, <1>9, <2>1, <2>3, SMTT(30)
    <3>2. nd' = [nd EXCEPT !.buf = part, !.raw = IF nd.st = "HDR" THEN @ ELSE taken] /\ NoNews
      BY <1>1, <1>12, <3>1 DEF NdFeed
    <3> QED
      BY <1>11, <1>12, <3>1, <3>2
  <2> QED
    BY <2>2, <2>3
<1>13. CASE nd.st = "ELEM"
  <2>1. PICK i \in Nat : i = nd.i /\ i < n /\ a = 3 + F + i * e /\ Len(raw) < a + e
    BY <1>3, <1>4, <1>7, <1>13
  <2>2. /\ i * e \in Nat /\ (i + 1) * e = i * e + e
        /\ i * e + e <= e * n
        /\ i + 1 = n => i * e + e = e * n
    <3>1. i < n
      BY <2>1
    <3> QED
      BY <3>1, Elements
  <2>3. PICK b \in Nat : b = i * e /\ a = 3 + F + b /\ b + e <= m /\ (i + 1 = n => b + e = m)
                         /\ (i + 1) * e = b + e
    BY <1>8, <2>1, <2>2
  <2>4. t <= a + e
    <3>1. Len(raw) \in Nat
      BY <1>2
    <3> QED
      BY <1>5, <2>1, <3>1
  <2>5. CASE t = a + e
    <3>1. Len(part) = LayoutOf(Header(nd)).elem
      BY <1>4, <1>5, <1>7, <1>9, <2>5, SMTT(30)
    <3>2. ElementComplete(part, taken)
      BY <1>1, <1>13, <3>1 DEF NdFeed
    <3>3. CASE ~Clean(part)
      <4>1. nd' = Drained(BehindElement(Header(nd), nd.i)) /\ Ended("INVALID_FORMAT", taken)
        BY <3>2, <3>3 DEF ElementComplete
      <4>2. PICK w \in Nat : w = n - i - 1 /\ n = i + 1 + w
        <5>1. n - i - 1 \in Nat /\ n = i + 1 + (n - i - 1)
          <6>1. i < n
            BY <2>1
          <6> QED
            BY <6>1
        <5> QED
          BY <5>1
      <4>3. PICK r \in Nat : r = e * w
        OBVIOUS
      <4>4. m = (b + e) + r
        <5>1. e * n = e * i + e + e * w
          BY <4>2
        <5>2. e * i = b
          BY <2>3
        <5> QED
          BY <1>8, <4>3, <5>1, <5>2
      <4>5. nd' = Drained(r)
        BY <1>7, <1>9, <2>1, <4>1, <4>2, <4>3 DEF BehindElement
      <4>6. t + r = Total(taken)
        BY <1>8, <2>3, <2>5, <4>4
      <4> QED
        BY <1>10, <3>3, <4>1, <4>5, <4>6
    <3>4. CASE Clean(part) /\ i + 1 = n
      <4>1. nd' = InFrame(Header(nd), "HDR", taken) /\ Ended("SUCCESS", taken)
        BY <1>7, <1>9, <2>1, <3>2, <3>4 DEF ElementComplete
      <4>2. Len(taken) = Total(taken)
        BY <1>5, <1>8, <2>3, <2>5, <3>4
      <4>3. Clean(SubSeq(taken, 3 + 1, Len(taken)))
        BY <1>4, <1>6, <3>4
      <4>4. ValidFrame(taken, NdAccepts)
        BY <1>6, <4>2, <4>3 DEF ValidFrame, HeaderBytes
      <4>5. NodeHolds(nd') /\ Held(nd') = << >> /\ Ahead(nd') = 0 /\ nd'.resync = FALSE
        BY <4>1, Rested
      <4>6. 3 <= Len(taken)
        BY <1>5
      <4> QED
        BY <4>1, <4>4, <4>5, <4>6 DEF Finished
    <3>5. CASE Clean(part) /\ i + 1 # n
      <4>1. nd' = [nd EXCEPT !.buf = << >>, !.i = @ + 1, !.raw = taken] /\ NoNews
        BY <1>7, <1>9, <2>1, <3>2, <3>5 DEF ElementComplete
      <4>2. PICK d, j : d = nd' /\ j = i + 1
        OBVIOUS
      <4>3. IsNode(d) /\ d.st = "ELEM" /\ d.raw = taken /\ d.buf = << >> /\ d.i = j
        BY <1>2, <1>13, <2>1, <4>1, <4>2 DEF IsNode
      <4>4. d.resync = FALSE
        BY <1>2, <4>1, <4>2 DEF IsNode
      <4>5. j \in Nat /\ j < n /\ t = 3 + F + j * e
        <5>1. i < n /\ i + 1 # n /\ j = i + 1
          BY <2>1, <3>5, <4>2
        <5>2. j \in Nat /\ j < n
          BY <5>1
        <5>3. j * e = b + e
          BY <2>3, <4>2
        <5>4. t = 3 + F + b + e
          BY <2>3, <2>5
        <5> QED
          BY <5>2, <5>3, <5>4
      <4>6. e > 0
        BY <1>5, <2>5, SMTT(30)
      <4>7. InPayload(d)
        <5>1. PICK c \in Nat : c = t
          OBVIOUS
        <5>2. d.buf = SubSeq(taken, c + 1, Len(taken))
          <6>1. SubSeq(taken, Len(taken) + 1, Len(taken)) = << >>
            BY <1>4
          <6> QED
            BY <1>5, <4>3, <5>1, <6>1
        <5>3. Clean(SubSeq(taken, 3 + 1, c))
          BY <1>4, <1>5, <1>6, <3>5, <5>1
        <5>4. /\ d.i \in Nat /\ d.i < LayoutOf(taken).n
              /\ c = 3 + LayoutOf(taken).fixed + d.i * LayoutOf(taken).elem
          BY <1>7, <4>3, <4>5, <5>1
        <5>5. 3 <= c /\ c <= Len(taken) /\ Len(taken) < c + LayoutOf(taken).elem /\ 3 <= Len(taken)
          BY <1>5, <1>7, <4>6, <5>1
        <5> QED
          BY <1>4, <1>6, <4>3, <4>4, <5>2, <5>3, <5>4, <5>5 DEF InPayload
      <4>8. NodeHolds(d)
        BY <4>3, <4>4, <4>7 DEF NodeHolds
      <4>9. Held(d) = taken /\ Ahead(d) = 0
        BY <4>3 DEF Held, Ahead
      <4>10. 3 <= Len(taken)
        BY <1>5
      <4> QED
        BY <1>6, <4>1, <4>2, <4>4, <4>8, <4>9, <4>10 DEF Begun
    <3> QED
      BY <3>3, <3>4, <3>5
  <2>6. CASE t # a + e
    <3>1. Len(part) # LayoutOf(Header(nd)).elem /\ t < a + e
      BY <1>4, <1>5, <1>7, <1>9, <2>4, <2>6, SMTT(30)
    <3>2. nd' = [nd EXCEPT !.buf = part, !.raw = IF nd.st = "HDR" THEN @ ELSE taken] /\ NoNews
      BY <1>1, <1>13, <3>1 DEF NdFeed
    <3> QED
      BY <1>11, <1>13, <3>1, <3>2
  <2> QED
    BY <2>5, <2>6
<1> QED
  BY <1>3, <1>12, <1>13

\* A byte, whatever the decoder is at.
LEMMA FeedMoves ==
  ASSUME NodeHolds(nd), NEW byte, NdFeed(byte), NEW taken, taken = Append(Held(nd), byte)
  PROVE  /\ NodeHolds(nd')
         /\ \/ Drains
            \/ /\ nd.st # "DRAIN"
               /\ \/ Collects(taken) \/ Skipped(taken) \/ Dropped(taken)
                  \/ Begun(taken) \/ Finished(taken) \/ Spoilt(taken)
<1>1. CASE nd.st = "HDR"
  <2>1. taken = Append(nd.buf, byte)
    BY <1>1 DEF Held
  <2> QED
    BY <1>1, <2>1, HeaderMoves
<1>2. CASE nd.st = "DRAIN"
  <2>1. /\ IsNode(nd) /\ nd.buf = << >> /\ nd.resync = TRUE
        /\ nd.drain \in Nat /\ 1 <= nd.drain /\ nd.drain < MaxTotal
    BY <1>2 DEF NodeHolds, InPayload
  <2>2. nd' = [nd EXCEPT !.drain = @ - 1, !.st = IF nd.drain = 1 THEN "HDR" ELSE @] /\ NoNews
    BY <1>2 DEF NdFeed
  <2>0. PICK d : d = nd'
    OBVIOUS
  <2>3. PICK c \in Nat : d = nd' /\ c = nd.drain /\ 1 <= c /\ c < MaxTotal
    BY <2>1, <2>0
  <2>4. IsNode(d) /\ d.buf = << >> /\ d.drain = c - 1 /\ d.st = IF c = 1 THEN "HDR" ELSE "DRAIN"
    BY <1>2, <2>1, <2>2, <2>3 DEF IsNode
  <2>5. d.resync = TRUE
    BY <2>1, <2>2, <2>3 DEF IsNode
  <2>6. << >> \in Seq(Range(<< >>)) /\ Len(<< >>) < 3
    OBVIOUS
  <2>7. CASE c = 1
    <3>1. NodeHolds(d) /\ Held(d) = << >> /\ Ahead(d) = 0
      BY <2>4, <2>5, <2>6, <2>7 DEF NodeHolds, Held, Ahead
    <3>2. Ahead(nd) = 1
      BY <1>2, <2>3, <2>7 DEF Ahead
    <3> QED
      BY <1>2, <2>1, <2>2, <2>3, <2>5, <3>1, <3>2 DEF Drains
  <2>8. CASE c # 1
    <3>1. c - 1 \in Nat /\ 1 <= c - 1 /\ c - 1 < MaxTotal
      <4>1. MaxTotal \in Nat
        BY LongestFrame
      <4> QED
        BY <2>3, <2>8, <4>1
    <3>2. d.st = "DRAIN"
      BY <2>4, <2>8
    <3>3. NodeHolds(d)
      BY <2>4, <2>5, <3>1, <3>2 DEF NodeHolds
    <3>4. Held(d) = << >> /\ Ahead(d) = c - 1 /\ Ahead(nd) = c
      BY <1>2, <2>3, <2>4, <3>2 DEF Held, Ahead
    <3> QED
      BY <1>2, <2>1, <2>2, <2>3, <2>5, <3>3, <3>4 DEF Drains
  <2> QED
    BY <2>7, <2>8
<1>3. CASE nd.st # "HDR" /\ nd.st # "DRAIN"
  <2>1. InPayload(nd)
    BY <1>3 DEF NodeHolds
  <2>2. taken = Append(nd.raw, byte)
    BY <1>3 DEF Held
  <2> QED
    BY <1>3, <2>1, <2>2, PayloadMoves
<1> QED
  BY <1>1, <1>2, <1>3

-----------------------------------------------------------------------------
(* The node's decoder on the line.                                         *)

\* It has done with the first q bytes of L: it holds those behind them, or drops bytes
\* that have yet to come.
NodeAt(d, q, L) ==
  /\ q \in Nat
  /\ \/ Ahead(d) = 0 /\ q <= Len(L) /\ Held(d) = SubSeq(L, q + 1, Len(L))
     \/ Ahead(d) # 0 /\ Held(d) = << >> /\ q = Len(L) + Ahead(d)

\* The next byte takes it from q to p; n bytes have come before.
Moves(n, taken, q, p) ==
  \/ Drains /\ p = q
  \/ /\ nd.st # "DRAIN" /\ q + Len(taken) = n + 1
     /\ \/ Collects(taken) /\ p = q
        \/ Skipped(taken) /\ p = q + 1
        \/ Dropped(taken) /\ p = q + 3
        \/ Begun(taken) /\ p = q
        \/ Finished(taken) /\ p = q + Len(taken)
        \/ Spoilt(taken) /\ p = q + Total(taken)

\* M is L with the next byte, and what is taken goes from q to its end.
IsTaken(taken, M, S, L, q) ==
  /\ taken = SubSeq(M, q + 1, Len(M)) /\ Len(taken) \in Nat /\ q + Len(taken) = Len(L) + 1
  /\ M \in Seq(S) /\ Len(M) = Len(L) + 1 /\ taken \in Seq(S)

\* What the decoder holds with the next byte.
LEMMA TakenNext ==
  ASSUME NEW S, NEW L \in Seq(S), NEW byte \in S, NEW M, M = Append(L, byte),
         NEW q \in Nat, q <= Len(L), NEW held, held = SubSeq(L, q + 1, Len(L)),
         NEW taken, taken = Append(held, byte)
  PROVE  IsTaken(taken, M, S, L, q)
<1>1. M \in Seq(S) /\ Len(M) = Len(L) + 1 /\ M[Len(L) + 1] = byte
      /\ \A k \in 1..Len(L) : M[k] = L[k]
  OBVIOUS
<1>2. PICK n \in Nat : n = Len(L)
  OBVIOUS
<1>3. SubSeq(M, q + 1, n) = SubSeq(L, q + 1, n)
  <2>1. q <= n /\ n <= Len(L)
    BY <1>2
  <2> QED
    BY <1>1, <2>1, SameSlice
<1>4. /\ Append(SubSeq(M, q + 1, n), M[n + 1]) = SubSeq(M, q + 1, n + 1)
      /\ Len(SubSeq(M, q + 1, n + 1)) = (n + 1) - q
  <2>1. q <= n /\ n + 1 <= Len(M)
    BY <1>1, <1>2
  <2> QED
    BY <1>1, <2>1, Lengthened, SMTT(30)
<1>5. taken = SubSeq(M, q + 1, n + 1) /\ Len(taken) = (n + 1) - q
  BY <1>1, <1>2, <1>3, <1>4
<1>6. taken \in Seq(S)
  <2>1. held \in Seq(S)
    OBVIOUS
  <2> QED
    BY <2>1
<1>7. (n + 1) - q \in Nat /\ q + ((n + 1) - q) = n + 1
  BY <1>2
<1>8. taken = SubSeq(M, q + 1, Len(M))
  BY <1>1, <1>2, <1>5
<1> QED
  BY <1>1, <1>2, <1>5, <1>6, <1>7, <1>8 DEF IsTaken

\* Where the next byte takes the decoder.
LEMMA FeedAt ==
  ASSUME NodeHolds(nd), NEW S, NEW L \in Seq(S), NEW byte \in S, NdFeed(byte), NEW M, M = Append(L, byte),
         NEW q, NodeAt(nd, q, L)
  PROVE  /\ NodeHolds(nd')
         /\ \E p : /\ NodeAt(nd', p, M) /\ p < Len(M) + MaxTotal
                   /\ \E taken : /\ nd.st # "DRAIN" => q <= Len(L) /\ taken = SubSeq(M, q + 1, Len(M))
                                 /\ Moves(Len(L), taken, q, p)
<1>1. PICK n \in Nat : n = Len(L) /\ Len(M) = n + 1 /\ M \in Seq(S) /\ q \in Nat
  BY DEF NodeAt
<1>2. PICK taken : taken = Append(Held(nd), byte)
  OBVIOUS
<1>3. /\ NodeHolds(nd')
      /\ \/ Drains
         \/ /\ nd.st # "DRAIN"
            /\ \/ Collects(taken) \/ Skipped(taken) \/ Dropped(taken)
               \/ Begun(taken) \/ Finished(taken) \/ Spoilt(taken)
  BY <1>2, FeedMoves
<1>4. MaxTotal \in Nat /\ 0 < MaxTotal
  BY LongestFrame DEF HeaderBytes
<1>5. CASE Drains
  <2>1. nd.st = "DRAIN" /\ Held(nd') = << >> /\ Ahead(nd') = Ahead(nd) - 1
    BY <1>5 DEF Drains
  <2>2. PICK a \in Nat : a = Ahead(nd) /\ 1 <= a /\ a < MaxTotal
    BY <2>1 DEF NodeHolds, InPayload, Ahead
  <2>3. q = n + a
    BY <1>1, <2>2 DEF NodeAt
  <2>4. NodeAt(nd', q, M)
    <3>1. CASE a = 1
      <4>1. Ahead(nd') = 0 /\ q = Len(M)
        BY <1>1, <2>1, <2>2, <2>3, <3>1
      <4>2. SubSeq(M, Len(M) + 1, Len(M)) = << >>
        BY <1>1
      <4> QED
        BY <1>1, <2>1, <4>1, <4>2 DEF NodeAt
    <3>2. CASE a # 1
      <4>1. Ahead(nd') # 0 /\ q = Len(M) + Ahead(nd')
        BY <1>1, <2>1, <2>2, <2>3, <3>2
      <4> QED
        BY <1>1, <2>1, <4>1 DEF NodeAt
    <3> QED
      BY <3>1, <3>2
  <2>5. q < Len(M) + MaxTotal
    BY <1>1, <1>4, <2>2, <2>3
  <2> QED
    BY <1>3, <1>5, <2>1, <2>4, <2>5 DEF Moves
<1>6. CASE nd.st # "DRAIN" /\ \/ Collects(taken) \/ Skipped(taken) \/ Dropped(taken)
                               \/ Begun(taken) \/ Finished(taken) \/ Spoilt(taken)
  <2>1. q <= Len(L) /\ Held(nd) = SubSeq(L, q + 1, Len(L))
    BY <1>6 DEF NodeAt, Ahead
  <2>2. /\ taken = SubSeq(M, q + 1, Len(M)) /\ Len(taken) \in Nat /\ q + Len(taken) = n + 1
        /\ taken \in Seq(S)
    <3>1. PICK held : held = Held(nd)
      OBVIOUS
    <3>2. /\ q \in Nat /\ q <= Len(L) /\ held = SubSeq(L, q + 1, Len(L)) /\ taken = Append(held, byte)
          /\ M = Append(L, byte)
      BY <1>1, <1>2, <2>1, <3>1
    <3>3. IsTaken(taken, M, S, L, q)
      BY <3>2, TakenNext
    <3> QED
      BY <1>1, <3>3 DEF IsTaken
  <2>3. \A p : Ahead(nd') = 0 /\ p \in Nat /\ p <= n + 1 /\ Held(nd') = SubSeq(M, p + 1, Len(M))
               => NodeAt(nd', p, M) /\ p < Len(M) + MaxTotal
    <3> SUFFICES ASSUME NEW p \in Nat, Ahead(nd') = 0, p <= n + 1, Held(nd') = SubSeq(M, p + 1, Len(M))
                 PROVE  NodeAt(nd', p, M) /\ p < Len(M) + MaxTotal
      OBVIOUS
    <3>1. p <= Len(M) /\ p < Len(M) + MaxTotal
      BY <1>1, <1>4
    <3> QED
      BY <3>1 DEF NodeAt
  <2>4. SubSeq(M, (n + 1) + 1, Len(M)) = << >>
    <3>1. SubSeq(M, Len(M) + 1, Len(M)) = << >>
      BY <1>1
    <3> QED
      BY <1>1, <3>1
  <2>5. ASSUME NEW p, NodeAt(nd', p, M), p < Len(M) + MaxTotal, Moves(n, taken, q, p)
        PROVE  \E r : /\ NodeAt(nd', r, M) /\ r < Len(M) + MaxTotal
                      /\ \E t : /\ nd.st # "DRAIN" => q <= Len(L) /\ t = SubSeq(M, q + 1, Len(M))
                                /\ Moves(Len(L), t, q, r)
    BY <1>1, <2>1, <2>2, <2>5
  <2>6. CASE Collects(taken) \/ Begun(taken)
    <3>1. Held(nd') = taken /\ Ahead(nd') = 0
      BY <2>6 DEF Collects, Begun
    <3>2. NodeAt(nd', q, M) /\ q < Len(M) + MaxTotal
      <4>1. q \in Nat /\ q <= n + 1
        BY <1>1, <2>1
      <4>2. Held(nd') = SubSeq(M, q + 1, Len(M))
        BY <2>2, <3>1
      <4> QED
        BY <2>3, <3>1, <4>1, <4>2
    <3>3. Moves(n, taken, q, q)
      BY <1>6, <2>2, <2>6 DEF Moves
    <3> QED
      BY <1>3, <2>5, <3>2, <3>3
  <2>7. CASE Skipped(taken)
    <3>1. Held(nd') = Tail(taken) /\ Ahead(nd') = 0 /\ Len(taken) = 3
      BY <2>7 DEF Skipped
    <3>2. PICK p \in Nat : p = q + 1 /\ p <= n + 1
      BY <1>1, <2>2, <3>1
    <3>3. Tail(taken) = SubSeq(M, p + 1, Len(M))
      <4>1. q + 1 <= Len(M) /\ M \in Seq(S)
        BY <1>1, <3>2
      <4>2. PICK u \in Nat : u = 1
        OBVIOUS
      <4>3. Rest(SubSeq(M, q + 1, Len(M)), u) = SubSeq(M, (q + u) + 1, Len(M))
        BY <1>1, <4>1, <4>2, RestOfRest, ZenonT(40)
      <4>4. Tail(taken) = Rest(taken, 1)
        <5>1. PICK c \in Nat : c = Len(taken) /\ 1 <= c
          BY <2>2, <3>1
        <5>2. taken \in Seq(S) /\ taken # << >>
          <6>1. taken \in Seq(S)
            BY <2>2
          <6>2. taken = << >> => Len(taken) = 0
            OBVIOUS
          <6> QED
            BY <5>1, <6>1, <6>2
        <5>3. Tail(taken) = SubSeq(taken, 2, Len(taken))
          BY <5>1, <5>2
        <5> QED
          BY <5>3 DEF Rest
      <4> QED
        BY <2>2, <3>2, <4>2, <4>3, <4>4
    <3>4. NodeAt(nd', p, M) /\ p < Len(M) + MaxTotal
      BY <2>3, <3>1, <3>2, <3>3
    <3>5. Moves(n, taken, q, p)
      BY <1>6, <2>2, <2>7, <3>2 DEF Moves
    <3> QED
      BY <1>3, <2>5, <3>4, <3>5
  <2>8. CASE Dropped(taken) \/ Finished(taken)
    <3>1. Held(nd') = << >> /\ Ahead(nd') = 0
      BY <2>8 DEF Dropped, Finished
    <3>2. PICK p \in Nat : p = n + 1
      BY <1>1
    <3>3. NodeAt(nd', p, M) /\ p < Len(M) + MaxTotal
      BY <2>3, <2>4, <3>1, <3>2, SMTT(30)
    <3>4. Moves(n, taken, q, p)
      <4>1. p = q + Len(taken)
        BY <2>2, <3>2
      <4>2. Dropped(taken) => Len(taken) = 3
        BY DEF Dropped
      <4> QED
        BY <1>6, <2>2, <2>8, <4>1, <4>2 DEF Moves
    <3> QED
      BY <1>3, <2>5, <3>3, <3>4
  <2>9. CASE Spoilt(taken)
    <3>1. /\ Held(nd') = << >> /\ Ahead(nd') = Total(taken) - Len(taken) /\ Len(taken) <= Total(taken)
          /\ HeaderVerdict(taken, NdAccepts) = "SUCCESS" /\ 3 <= Len(taken)
      BY <2>9 DEF Spoilt
    <3>2. PICK t \in Nat, top \in Nat, c \in Nat :
            t = Total(taken) /\ top = MaxTotal /\ t <= top /\ c = Len(taken) /\ c <= t /\ 3 <= c
      BY <1>4, <2>2, <3>1, Announced
    <3>3. PICK p \in Nat : p = q + t
      BY <1>1
    <3>4. q + c = n + 1 /\ q \in Nat /\ p \in Nat /\ n \in Nat
      BY <1>1, <2>2, <3>2
    <3>5. p = (n + 1) + (t - c) /\ p < (n + 1) + top
      <4>1. t \in Nat /\ c \in Nat /\ top \in Nat /\ c <= t /\ t <= top /\ 3 <= c
        BY <3>2
      <4>2. p = (n + 1) + (t - c)
        BY <3>3, <3>4, <4>1
      <4> QED
        BY <3>4, <4>1, <4>2
    <3>6. NodeAt(nd', p, M) /\ p < Len(M) + MaxTotal
      <4>1. CASE t = c
        <5>1. Ahead(nd') = 0 /\ p = n + 1
          BY <3>1, <3>2, <3>5, <4>1
        <5> QED
          BY <1>1, <2>3, <2>4, <3>1, <5>1
      <4>2. CASE t # c
        <5>1. Ahead(nd') # 0 /\ p = Len(M) + Ahead(nd') /\ p < Len(M) + MaxTotal
          BY <1>1, <3>1, <3>2, <3>5, <4>2
        <5> QED
          BY <3>1, <3>3, <5>1 DEF NodeAt
      <4> QED
        BY <4>1, <4>2
    <3>7. Moves(n, taken, q, p)
      BY <1>6, <2>2, <2>9, <3>2, <3>3 DEF Moves
    <3> QED
      BY <1>3, <2>5, <3>6, <3>7
  <2> QED
    BY <1>6, <2>6, <2>7, <2>8, <2>9
<1> QED
  BY <1>3, <1>5, <1>6

\* More of the line came.
LEMMA ReadingLater ==
  ASSUME NEW m, NEW n \in Nat, NEW q \in Nat, NEW rs, NEW del, Reading(m, n, q, rs, del)
  PROVE  Reading(m, n + 1, q, rs, del)
<1>1. q <= n => q <= n + 1
  OBVIOUS
<1> QED
  BY <1>1 DEF Reading

\* The first t bytes of b are the valid frame at q.
Shown(b, t, X, frames, q) ==
  /\ 3 <= t /\ Clean(SubSeq(b, HeaderBytes + 1, t))
  /\ SubSeq(b, 1, t) = WholeOf(frames, X[q + 1].frame)

\* So it is on the line.
LEMMA GoodIsShown ==
  ASSUME NEW S, NEW X \in Seq(S), NEW h \in Nat, NEW frames \in Seq(Sendable), Regular(X, h, frames),
         WellFormed, NEW q, q \in NdGood(X, h, frames),
         NEW b, NEW t \in Nat, t = Total(Window(X, q)), \A k \in 1..t : b[k] = X[q + k]
  PROVE  Shown(b, t, X, frames, q)
<1>1. q \in GwGood(X, h, frames) \/ q \in NdGood(X, h, frames)
  OBVIOUS
<1>2. 3 <= t /\ Clean(SubSeq(b, HeaderBytes + 1, t))
  BY <1>1, GoodShows
<1>3. SubSeq(b, 1, t) = WholeOf(frames, X[q + 1].frame)
  <2> DEFINE Whole1 == SubSeq(b, 1, t) = WholeOf(frames, X[q + 1].frame)
  <2>1. Whole1
    BY <1>1, GoodShows, ZenonT(60)
  <2> QED
    BY <2>1
<1> QED
  BY <1>2, <1>3 DEF Shown

\* Only valid frames are delivered.
SoundFrames(out) == \A r \in Range(out) : r.rsc = "SUCCESS" => ValidFrame(r.raw, NdAccepts)

\* A move reports a valid frame, or a violation, or nothing.
LEMMA MoveSound ==
  ASSUME ndOut \in Seq(Range(ndOut)), SoundFrames(ndOut),
         NEW n, NEW taken, NEW q, NEW p, Moves(n, taken, q, p)
  PROVE  ndOut' \in Seq(Range(ndOut')) /\ SoundFrames(ndOut')
<1>1. ASSUME NEW rsc, Ended(rsc, taken), rsc = "SUCCESS" => ValidFrame(taken, NdAccepts)
      PROVE  ndOut' \in Seq(Range(ndOut')) /\ SoundFrames(ndOut')
  <2>1. PICK r : r = [raw |-> taken, rsc |-> rsc]
    OBVIOUS
  <2>2. ndOut' = Append(ndOut, r)
    BY <1>1, <2>1 DEF Ended
  <2>3. ndOut' \in Seq(Range(ndOut')) /\ Range(ndOut') = Range(ndOut) \cup {r}
    BY <2>2, OwnElements
  <2>4. r.rsc = rsc /\ r.raw = taken
    BY <2>1
  <2> QED
    BY <1>1, <2>3, <2>4 DEF SoundFrames
<1>2. CASE NoNews
  <2>1. ndOut' = ndOut
    BY <1>2 DEF NoNews
  <2> QED
    BY <2>1 DEF SoundFrames
<1>3. CASE Dropped(taken)
  <2>1. PICK rsc : rsc # "SUCCESS" /\ Ended(rsc, taken)
    BY <1>3 DEF Dropped
  <2> QED
    BY <1>1, <2>1
<1>4. CASE Finished(taken)
  <2>1. Ended("SUCCESS", taken) /\ ValidFrame(taken, NdAccepts)
    BY <1>4 DEF Finished
  <2> QED
    BY <1>1, <2>1
<1>5. CASE Spoilt(taken)
  <2>1. Ended("INVALID_FORMAT", taken)
    BY <1>5 DEF Spoilt
  <2>2. "INVALID_FORMAT" # "SUCCESS"
    OBVIOUS
  <2> QED
    BY <1>1, <2>1, <2>2
<1>6. NoNews \/ Dropped(taken) \/ Finished(taken) \/ Spoilt(taken)
  BY DEF Moves, Drains, Collects, Skipped, Begun
<1> QED
  BY <1>2, <1>3, <1>4, <1>5, <1>6

\* The decoder reads on.
LEMMA MoveReads ==
  ASSUME NEW S, NEW M, NEW X, NEW h, NEW frames, NEW base, NEW far,
         OnLine(S, M, X, h, frames, base, far), ndOut \in Seq(Range(ndOut)),
         NEW n \in Nat, Len(M) = n + 1, NEW q \in Nat, NEW taken,
         nd.st # "DRAIN" => q <= n /\ taken = SubSeq(M, q + 1, Len(M)),
         Reading(NdMap(X, h, frames, base, far), n, q, nd.resync, DeliveredAt(ndOut, X, h, frames)),
         NEW p, Moves(n, taken, q, p)
  PROVE  Reading(NdMap(X, h, frames, base, far), n + 1, p, nd'.resync, DeliveredAt(ndOut', X, h, frames))
<1> DEFINE m == NdMap(X, h, frames, base, far)
           Del(out) == DeliveredAt(out, X, h, frames)
<1>1. /\ X \in Seq(S) /\ M \in Seq(S) /\ n + 1 <= Len(X) /\ Len(X) \in Nat
      /\ \A k \in 1..Len(M) : X[k] = M[k]
      /\ h \in Nat /\ frames \in Seq(Sendable) /\ Regular(X, h, frames) /\ WellFormed
  BY DEF OnLine
<1>2. /\ Map(m) /\ m.acc = NdAcc(X) /\ m.cand = NdCand(X) /\ m.good = NdGood(X, h, frames)
      /\ \A k \in Nat : m.total[k] = Total(Window(X, k))
  <2>1. Map(m)
    BY NdMapHolds DEF OnLine
  <2> QED
    BY <2>1 DEF NdMap, MapOf
<1>3. \A s \in NdGood(X, h, frames) : s \in StartsOf(X, h) /\ s # Len(X)
  BY DEF NdGood
<1>4. ASSUME NEW r, ndOut' = Append(ndOut, r)
      PROVE  /\ Del(ndOut) \subseteq Del(ndOut')
             /\ \A s \in StartsOf(X, h) :
                  s # Len(X) /\ r = [raw |-> WholeOf(frames, X[s + 1].frame), rsc |-> "SUCCESS"]
                  => s \in Del(ndOut')
  BY <1>4, DeliveredMore
<1>5. Reading(m, n, q, nd.resync, Del(ndOut))
  OBVIOUS
<1>6. ndOut' = ndOut => Del(ndOut') = Del(ndOut)
  OBVIOUS
<1> HIDE DEF m, Del
<1>7. Reading(m, n + 1, q, nd.resync, Del(ndOut)) /\ n + 1 \in Nat
  BY <1>5, ReadingLater
<1>8. CASE Drains
  <2>1. nd'.resync = nd.resync /\ ndOut' = ndOut
    BY <1>8 DEF Drains, NoNews
  <2>2. p = q
    BY <1>8 DEF Moves, Drains
  <2> QED
    BY <1>6, <1>7, <2>1, <2>2 DEF m, Del
<1>9. CASE /\ nd.st # "DRAIN" /\ q + Len(taken) = n + 1
           /\ \/ Collects(taken) /\ p = q
              \/ Skipped(taken) /\ p = q + 1
              \/ Dropped(taken) /\ p = q + 3
              \/ Begun(taken) /\ p = q
              \/ Finished(taken) /\ p = q + Len(taken)
              \/ Spoilt(taken) /\ p = q + Total(taken)
  <2>1. q <= Len(M) /\ taken = SubSeq(M, q + 1, Len(M)) /\ Len(M) <= Len(X)
    BY <1>1, <1>9, SMTT(30)
  <2>2. PICK c \in Nat : c = Len(taken) /\ \A k \in 1..c : taken[k] = X[q + k]
    <3>1. Len(taken) = Len(M) - q /\ \A k \in 1..Len(taken) : taken[k] = X[q + k]
      <4>1. /\ M \in Seq(S) /\ Len(X) \in Nat /\ Len(M) <= Len(X)
            /\ \A k \in 1..Len(M) : X[k] = M[k]
            /\ q \in Nat /\ q <= Len(M) /\ taken = SubSeq(M, q + 1, Len(M))
        BY <1>1, <2>1
      <4> QED
        BY <4>1, BufferShows
    <3>2. Len(M) - q \in Nat
      BY <2>1
    <3> QED
      BY <3>1, <3>2
  <2>3. q + c = n + 1
    BY <1>9, <2>2
  <2>4. 3 <= c =>
          /\ NdCandidate(taken) <=> q \in m.cand
          /\ HeaderVerdict(taken, NdAccepts) = "SUCCESS" <=> q \in m.acc
          /\ Total(taken) = m.total[q] /\ Total(taken) = Total(Window(X, q))
    <3> SUFFICES ASSUME 3 <= c
                 PROVE  /\ NdCandidate(taken) <=> q \in m.cand
                        /\ HeaderVerdict(taken, NdAccepts) = "SUCCESS" <=> q \in m.acc
                        /\ Total(taken) = m.total[q] /\ Total(taken) = Total(Window(X, q))
      OBVIOUS
    <3>1. q + 3 <= Len(X)
      BY <1>1, <2>3, SMTT(30)
    <3>2. \A k \in 1..3 : taken[k] = X[q + k]
      <4>1. \A k \in 1..3 : k \in 1..c
        OBVIOUS
      <4> QED
        BY <2>2, <4>1
    <3>3. Len(X) \in Nat
      BY <1>1
    <3>4. /\ NdCandidate(taken) <=> q \in NdCand(X)
          /\ HeaderVerdict(taken, NdAccepts) = "SUCCESS" <=> q \in NdAcc(X)
          /\ Total(taken) = Total(Window(X, q))
      BY <3>1, <3>2, <3>3, BufferLooks
    <3> QED
      BY <1>2, <3>4
  <2>5. CASE Collects(taken) /\ p = q
    <3>1. nd'.resync = nd.resync /\ ndOut' = ndOut
      BY <2>5 DEF Collects, NoNews
    <3> QED
      BY <1>6, <1>7, <2>5, <3>1 DEF m, Del
  <2>6. CASE Skipped(taken) /\ p = q + 1
    <3>1. nd'.resync = TRUE /\ ndOut' = ndOut /\ ~NdCandidate(taken) /\ c = 3
      BY <2>2, <2>6 DEF Skipped, NoNews
    <3>2. q \notin m.cand /\ q + 1 <= n + 1
      BY <2>3, <2>4, <3>1
    <3>3. Reading(m, n + 1, q + 1, TRUE, Del(ndOut))
      BY <1>2, <1>7, <3>2, Skips
    <3> QED
      BY <1>6, <2>6, <3>1, <3>3 DEF m, Del
  <2>7. CASE Dropped(taken) /\ p = q + 3
    <3>1. /\ nd'.resync = TRUE /\ c = 3 /\ HeaderVerdict(taken, NdAccepts) # "SUCCESS"
          /\ nd.resync = FALSE \/ NdCandidate(taken)
      BY <2>2, <2>7 DEF Dropped
    <3>2. PICK rsc : Ended(rsc, taken)
      BY <2>7 DEF Dropped
    <3>3. Del(ndOut) \subseteq Del(ndOut')
      BY <1>4, <3>2 DEF Ended
    <3>4. q \notin m.acc /\ (nd.resync = FALSE \/ q \in m.cand) /\ q + 3 <= n + 1
      BY <2>3, <2>4, <3>1
    <3>5. q \notin m.good
      BY <1>2, <3>4 DEF Map
    <3>6. Reading(m, n + 1, q + 3, TRUE, Del(ndOut))
      BY <1>2, <1>7, <3>4, <3>5, Drops
    <3>7. Reading(m, n + 1, q + 3, TRUE, Del(ndOut'))
      BY <3>3, <3>6, ReadingMore
    <3> QED
      BY <2>7, <3>1, <3>7 DEF m, Del
  <2>8. CASE Begun(taken) /\ p = q
    <3>1. nd'.resync = FALSE /\ ndOut' = ndOut /\ HeaderVerdict(taken, NdAccepts) = "SUCCESS" /\ 3 <= c
      BY <2>2, <2>8 DEF Begun, NoNews
    <3>2. q \in m.acc
      BY <2>4, <3>1
    <3>3. Reading(m, n + 1, q, FALSE, Del(ndOut))
      BY <1>2, <1>7, <3>2, Begins
    <3> QED
      BY <1>6, <2>8, <3>1, <3>3 DEF m, Del
  <2>9. CASE Finished(taken) /\ p = q + Len(taken)
    <3>1. nd'.resync = FALSE /\ ValidFrame(taken, NdAccepts) /\ Ended("SUCCESS", taken) /\ 3 <= c
      BY <2>2, <2>9 DEF Finished
    <3>2. HeaderVerdict(taken, NdAccepts) = "SUCCESS" /\ c = Total(taken)
      BY <2>2, <3>1 DEF ValidFrame
    <3>3. q \in m.acc /\ m.total[q] = c /\ c = Total(Window(X, q))
      BY <2>4, <3>1, <3>2
    <3>4. PICK r : r = [raw |-> taken, rsc |-> "SUCCESS"] /\ ndOut' = Append(ndOut, r)
      BY <3>1 DEF Ended
    <3>5. q \in m.good => q \in Del(ndOut')
      <4> SUFFICES ASSUME q \in NdGood(X, h, frames) PROVE q \in Del(ndOut')
        BY <1>2
      <4>1. SubSeq(taken, 1, c) = WholeOf(frames, X[q + 1].frame)
        <5>1. c \in Nat /\ c = Total(Window(X, q)) /\ \A k \in 1..c : taken[k] = X[q + k]
          BY <2>2, <3>3
        <5>2. q \in GwGood(X, h, frames) \/ q \in NdGood(X, h, frames)
          OBVIOUS
        <5>3. X \in Seq(S) /\ h \in Nat /\ frames \in Seq(Sendable) /\ Regular(X, h, frames) /\ WellFormed
          BY <1>1
        <5> QED
          <6>1. Shown(taken, c, X, frames, q)
            BY <5>1, <5>3, GoodIsShown
          <6> QED
            BY <6>1 DEF Shown
      <4>2. SubSeq(taken, 1, c) = taken
        <5>1. taken \in Seq(S)
          <6>1. M \in Seq(S) /\ q \in Nat
            BY <1>1
          <6> QED
            BY <2>1, <6>1
        <5> QED
          BY <2>2, <5>1
      <4> QED
        BY <1>3, <1>4, <3>4, <4>1, <4>2
    <3>6. Reading(m, n + 1, q + c, FALSE, Del(ndOut'))
      <4>1. Del(ndOut) \subseteq Del(ndOut')
        BY <1>4, <3>4
      <4>2. Reading(m, n + 1, q + m.total[q], FALSE, Del(ndOut'))
        BY <1>2, <1>7, <3>3, <3>5, <4>1, Takes
      <4> QED
        BY <3>3, <4>2
    <3> QED
      BY <2>2, <2>9, <3>1, <3>6 DEF m, Del
  <2>10. CASE Spoilt(taken) /\ p = q + Total(taken)
    <3>1. /\ nd'.resync = TRUE /\ HeaderVerdict(taken, NdAccepts) = "SUCCESS" /\ 3 <= c /\ c <= Total(taken)
          /\ ~Clean(SubSeq(taken, 3 + 1, c)) /\ Ended("INVALID_FORMAT", taken)
      BY <2>2, <2>10 DEF Spoilt
    <3>2. PICK t \in Nat : t = Total(taken)
      BY <3>1, Announced
    <3>3. q \in m.acc /\ m.total[q] = t /\ t = Total(Window(X, q))
      BY <2>4, <3>1, <3>2
    <3>4. q \notin m.good
      <4> SUFFICES ASSUME q \in NdGood(X, h, frames) PROVE FALSE
        BY <1>2
      <4>1. PICK b : b = SubSeq(X, q + 1, q + t)
        OBVIOUS
      <4>2. \A k \in 1..t : b[k] = X[q + k]
        <5>1. b = [k \in 1..t |-> X[q + k]]
          BY <4>1, SliceOf
        <5> QED
          BY <5>1
      <4>3. 3 <= t /\ Clean(SubSeq(b, HeaderBytes + 1, t))
        <5>1. t \in Nat /\ t = Total(Window(X, q)) /\ \A k \in 1..t : b[k] = X[q + k]
          BY <3>3, <4>2
        <5>2. q \in GwGood(X, h, frames) \/ q \in NdGood(X, h, frames)
          OBVIOUS
        <5>3. X \in Seq(S) /\ h \in Nat /\ frames \in Seq(Sendable) /\ Regular(X, h, frames) /\ WellFormed
          BY <1>1
        <5> QED
          BY <5>1, <5>2, <5>3, GoodShows
      <4>4. PICK w \in Nat, v \in Nat : t = 3 + w /\ c = 3 + v /\ v <= w
        <5>1. t - 3 \in Nat /\ c - 3 \in Nat /\ t = 3 + (t - 3) /\ c = 3 + (c - 3) /\ c - 3 <= t - 3
          BY <3>1, <3>2, <4>3
        <5> QED
          BY <5>1
      <4>5. \A k \in 1..w : b[3 + k].sym # Bad
        <5>1. Clean(SubSeq(b, 3 + 1, 3 + w))
          BY <4>3, <4>4 DEF HeaderBytes
        <5> QED
          BY <5>1, CleanSlice
      <4>6. \A k \in 1..v : taken[3 + k].sym # Bad
        <5> SUFFICES ASSUME NEW k \in 1..v PROVE taken[3 + k].sym # Bad
          OBVIOUS
        <5>1. k \in 1..w /\ 3 + k \in 1..c /\ 3 + k \in 1..t
          BY <4>4
        <5>2. taken[3 + k] = b[3 + k]
          BY <2>2, <4>2, <5>1
        <5> QED
          BY <4>5, <5>1, <5>2
      <4>7. Clean(SubSeq(taken, 3 + 1, 3 + v))
        BY <4>6, CleanSlice
      <4> QED
        BY <3>1, <4>4, <4>7
    <3>5. Del(ndOut) \subseteq Del(ndOut')
      BY <1>4, <3>1 DEF Ended
    <3>6. Reading(m, n + 1, q + m.total[q], TRUE, Del(ndOut'))
      BY <1>2, <1>7, <3>3, <3>4, <3>5, Takes
    <3> QED
      BY <2>10, <3>1, <3>2, <3>3, <3>6 DEF m, Del
  <2> QED
    BY <1>9, <2>5, <2>6, <2>7, <2>8, <2>9, <2>10
<1> QED
  BY <1>8, <1>9 DEF Moves

\* A decoder that collects a payload is not done with the frame.
LEMMA StillShort ==
  ASSUME NEW d, InPayload(d)
  PROVE  Total(d.raw) \in Nat /\ Len(d.raw) < Total(d.raw)
<1>1. PICK raw : raw = d.raw
  OBVIOUS
<1>2. /\ HeaderVerdict(raw, NdAccepts) = "SUCCESS" /\ raw \in Seq(Range(raw))
      /\ \E a \in Nat :
           \/ Len(raw) < 3 + LayoutOf(raw).fixed
           \/ /\ d.i \in Nat /\ d.i < LayoutOf(raw).n
              /\ a = 3 + LayoutOf(raw).fixed + d.i * LayoutOf(raw).elem
              /\ Len(raw) < a + LayoutOf(raw).elem
  BY <1>1 DEF InPayload
<1>3. PICK F \in Nat, e \in Nat, n \in Nat :
        /\ F = LayoutOf(raw).fixed /\ e = LayoutOf(raw).elem /\ n = LayoutOf(raw).n
  BY <1>2, Announced
<1>4. PICK m \in Nat : m = e * n /\ Total(raw) = 3 + F + m
  BY <1>2, <1>3, Announced
<1>5. PICK c \in Nat : c = Len(raw)
  BY <1>2
<1>6. CASE c < 3 + F
  <2>1. c < 3 + F + m
    BY <1>6
  <2> QED
    BY <1>1, <1>4, <1>5, <2>1
<1>7. CASE d.i \in Nat /\ d.i < n /\ c < 3 + F + d.i * e + e
  <2>1. PICK i \in Nat : i = d.i /\ i < n
    BY <1>7
  <2>2. i * e \in Nat /\ i * e + e <= e * n
    <3>1. i < n
      BY <2>1
    <3> QED
      BY <3>1, Elements
  <2>3. PICK b \in Nat : b = i * e
    BY <2>2
  <2>4. b + e <= m
    BY <1>4, <2>2, <2>3
  <2>5. c < 3 + F + b + e
    BY <1>7, <2>1, <2>3
  <2>6. c < 3 + F + m
    BY <2>4, <2>5
  <2> QED
    BY <1>1, <1>4, <1>5, <2>6
<1> QED
  BY <1>2, <1>3, <1>5, <1>6, <1>7

\* Whatever the decoder is at, the valid frames that came are delivered.
LEMMA AllDelivered ==
  ASSUME NEW S, NEW L, NEW X, NEW h, NEW frames, NEW base, NEW far,
         OnLine(S, L, X, h, frames, base, far),
         NEW d, NodeHolds(d), NEW q, NodeAt(d, q, L), NEW del,
         Reading(NdMap(X, h, frames, base, far), Len(L), q, d.resync, del),
         NEW g \in NdGood(X, h, frames), g >= far, g + Len(FrameAt(X, frames, g)) <= Len(L)
  PROVE  g \in del
<1> DEFINE m == NdMap(X, h, frames, base, far)
<1>1. PICK n \in Nat : n = Len(L)
  BY DEF OnLine
<1>2. /\ X \in Seq(S) /\ L \in Seq(S) /\ n <= Len(X) /\ Len(X) \in Nat
      /\ \A k \in 1..Len(L) : X[k] = L[k]
  BY <1>1 DEF OnLine
<1>3. /\ Map(m) /\ m.acc = NdAcc(X) /\ m.good = NdGood(X, h, frames) /\ m.far = far
      /\ m.starts = StartsOf(X, h)
      /\ \A k \in Nat : m.total[k] = Total(Window(X, k)) /\ m.end[k] = k + Len(FrameAt(X, frames, k))
  <2>1. Map(m)
    BY NdMapHolds DEF OnLine
  <2> QED
    BY <2>1 DEF NdMap, MapOf
<1>4. Reading(m, n, q, d.resync, del) /\ q \in Nat
  BY <1>1 DEF NodeAt
<1> HIDE DEF m
<1>5. /\ g \in m.good /\ g >= m.far /\ g \in Nat /\ m.end[g] <= n
  <2>1. g \in m.good /\ g \in m.starts
    BY <1>3 DEF Map
  <2>2. g \in Nat
    BY <1>3, <2>1 DEF Map
  <2> QED
    BY <1>1, <1>3, <2>1, <2>2
<1>6. CASE d.st = "HDR"
  <2>1. d.buf \in Seq(Range(d.buf)) /\ Len(d.buf) < 3
    BY <1>6 DEF NodeHolds, InPayload
  <2>2. q <= n /\ d.buf = SubSeq(L, q + 1, Len(L))
    BY <1>1, <1>6 DEF NodeAt, Held, Ahead
  <2>3. Len(d.buf) = n - q
    <3>1. q + 0 <= Len(L) /\ 0 \in Nat
      BY <1>1, <1>4, <2>2
    <3> QED
      BY <1>1, <1>2, <1>4, <2>2, <3>1, RestOfRest
  <2>4. q + 3 > n
    BY <1>4, <2>1, <2>2, <2>3
  <2> QED
    BY <1>3, <1>4, <1>5, <2>4, Passed
<1>7. CASE d.st = "DRAIN"
  <2>1. PICK a \in Nat : a = Ahead(d) /\ 1 <= a
    BY <1>7 DEF NodeHolds, InPayload, Ahead
  <2>2. q = n + a
    BY <1>1, <2>1 DEF NodeAt
  <2>3. g < q
    <3>1. m.end[g] = g + Len(FrameAt(X, frames, g)) /\ g # m.len /\ g + 3 <= m.end[g] /\ m.end[g] \in m.starts
      BY <1>3, <1>5 DEF Map
    <3>2. m.end[g] \in Nat
      BY <1>3, <3>1 DEF Map
    <3> QED
      BY <1>5, <2>1, <2>2, <3>1, <3>2
  <2> QED
    BY <1>4, <1>5, <2>3 DEF Reading
<1>8. CASE d.st # "HDR" /\ d.st # "DRAIN"
  <2>1. InPayload(d)
    BY <1>8 DEF NodeHolds
  <2>2. PICK raw : raw = d.raw
    OBVIOUS
  <2>3. HeaderVerdict(raw, NdAccepts) = "SUCCESS" /\ 3 <= Len(raw)
    BY <2>1, <2>2 DEF InPayload
  <2>4. PICK t \in Nat : t = Total(raw) /\ Len(raw) < t
    BY <2>1, <2>2, StillShort
  <2>5. q <= n /\ raw = SubSeq(L, q + 1, Len(L))
    BY <1>1, <1>8, <2>2 DEF NodeAt, Held, Ahead
  <2>6. Len(raw) = n - q /\ \A k \in 1..Len(raw) : raw[k] = X[q + k]
    <3>1. /\ L \in Seq(S) /\ Len(X) \in Nat /\ Len(L) <= Len(X)
          /\ \A k \in 1..Len(L) : X[k] = L[k]
          /\ q \in Nat /\ q <= Len(L) /\ raw = SubSeq(L, q + 1, Len(L))
      BY <1>1, <1>2, <1>4, <2>5
    <3>2. Len(raw) = Len(L) - q /\ \A k \in 1..Len(raw) : raw[k] = X[q + k]
      BY <3>1, BufferShows
    <3> QED
      BY <1>1, <3>2
  <2>7. PICK c \in Nat : c = Len(raw) /\ q + c = n /\ 3 <= c /\ c < t
    <3>1. n - q \in Nat /\ q + (n - q) = n
      BY <1>4, <2>5
    <3> QED
      BY <2>3, <2>4, <2>6, <3>1
  <2>8. q \in m.acc /\ m.total[q] = t
    <3>1. \A k \in 1..3 : raw[k] = X[q + k]
      BY <2>6, <2>7
    <3>2. q + 3 <= Len(X) /\ Len(X) \in Nat
      BY <1>2, <1>4, <2>7
    <3>3. HeaderVerdict(raw, NdAccepts) = "SUCCESS" <=> q \in NdAcc(X)
      BY <1>4, <3>1, <3>2, BufferLooks
    <3>4. Total(raw) = Total(Window(X, q))
      BY <1>4, <3>1, <3>2, BufferLooks
    <3> QED
      BY <1>3, <1>4, <2>3, <2>4, <3>3, <3>4
  <2>9. q + m.total[q] > n
    BY <1>4, <2>7, <2>8
  <2> QED
    BY <1>3, <1>4, <1>5, <2>8, <2>9, Passed
<1> QED
  BY <1>6, <1>7, <1>8

\* A frame is begun: what was read stays so.
LEMMA ReadingSends ==
  ASSUME NEW S, NEW X \in Seq(S), NEW n \in Nat, Len(X) = n, NEW h \in Nat,
         NEW frames \in Seq(Sendable), NEW frames2, \A i \in 1..Len(frames) : frames2[i] = frames[i],
         \A k \in 1..n : X[k].frame \in 1..Len(frames),
         NEW l \in Nat, NEW X2, Len(X2) = n + l, \A k \in 1..n : X2[k] = X[k], 3 <= l, X2[n + 1].at = 1,
         NEW base, NEW far, (h = 0 /\ base = 0 /\ far = 0) \/ (base = h + MaxTotal /\ far = base + 2),
         NEW out, NEW q \in Nat, NEW rs,
         Reading(NdMap(X, h, frames, base, far), n, q, rs, DeliveredAt(out, X, h, frames))
  PROVE  Reading(NdMap(X2, h, frames2, base, far), n, q, rs, DeliveredAt(out, X2, h, frames2))
<1>1. /\ base \in Nat /\ far \in Nat /\ (base = 0 \/ base < far)
      /\ MaxTotal \in Nat
  BY LongestFrame, SMTT(30)
<1> DEFINE m == NdMap(X, h, frames, base, far)
           m2 == NdMap(X2, h, frames2, base, far)
<1>2. /\ m.starts = StartsOf(X, h) /\ m.base = base /\ m.far = far /\ m.good = NdGood(X, h, frames)
      /\ \A k \in Nat : m.end[k] = k + Len(FrameAt(X, frames, k))
  BY DEF NdMap, MapOf
<1>3. /\ m2.starts = StartsOf(X2, h) /\ m2.base = base /\ m2.far = far /\ m2.good = NdGood(X2, h, frames2)
      /\ \A k \in Nat : m2.end[k] = k + Len(FrameAt(X2, frames2, k))
  BY DEF NdMap, MapOf
<1>4. /\ q >= base => q \in StartsOf(X, h) \/ (rs /\ q <= n)
      /\ \A g \in NdGood(X, h, frames) : g >= far /\ g < q =>
           /\ m.end[g] <= q /\ g \in DeliveredAt(out, X, h, frames)
  BY <1>2 DEF Reading
<1>5. StartsOf(X, h) \subseteq StartsOf(X2, h)
  <2> SUFFICES ASSUME NEW s \in StartsOf(X, h) PROVE s \in StartsOf(X2, h)
    OBVIOUS
  <2>1. s \in h..n /\ (s = n \/ X[s + 1].at = 1)
    BY DEF StartsOf
  <2>2. s \in h..(n + l) /\ s \in Nat
    BY <2>1
  <2>3. X2[s + 1].at = 1
    <3>1. CASE s = n
      BY <3>1
    <3>2. CASE s # n
      <4>1. s + 1 \in 1..n
        BY <2>1, <3>2
      <4> QED
        BY <2>1, <3>2, <4>1
    <3> QED
      BY <3>1, <3>2
  <2> QED
    BY <2>2, <2>3 DEF StartsOf
<1>6. q >= m2.base => q \in m2.starts \/ (rs /\ q <= n)
  BY <1>3, <1>4, <1>5
<1>7. ASSUME NEW g \in m2.good, g >= m2.far, g < q
      PROVE  m2.end[g] <= q /\ g \in DeliveredAt(out, X2, h, frames2)
  <2>1. g \in StartsOf(X2, h) /\ g # n + l /\ ValidFrame(WholeOf(frames2, X2[g + 1].frame), NdAccepts)
        /\ g >= far
    BY <1>3, <1>7 DEF NdGood
  <2>2. g \in h..(n + l) /\ g \in Nat /\ X2[g + 1].at = 1
    BY <2>1 DEF StartsOf
  <2>3. CASE g < n
    <3>1. g + 1 \in 1..n
      BY <2>2, <2>3
    <3>2. PICK i \in 1..Len(frames) : i = X[g + 1].frame /\ i = X2[g + 1].frame
      BY <3>1
    <3>3. frames2[i] = frames[i]
      BY <3>2
    <3>4. WholeOf(frames2, i) = WholeOf(frames, i)
      BY <3>3 DEF WholeOf, Letter
    <3>5. g \in StartsOf(X, h) /\ g # Len(X)
      <4>1. g \in h..n /\ X[g + 1].at = 1
        BY <2>2, <2>3, <3>1
      <4> QED
        BY <2>3, <4>1 DEF StartsOf
    <3>6. g \in NdGood(X, h, frames)
      BY <2>1, <3>2, <3>4, <3>5 DEF NdGood
    <3>7. m.end[g] <= q /\ g \in DeliveredAt(out, X, h, frames)
      BY <1>4, <1>7, <2>1, <3>6
    <3>8. m2.end[g] = m.end[g]
      <4>1. FrameAt(X2, frames2, g) = FrameAt(X, frames, g)
        BY <3>2, <3>3 DEF FrameAt
      <4> QED
        BY <1>2, <1>3, <2>2, <4>1, ZenonT(40)
    <3>9. [raw |-> WholeOf(frames, i), rsc |-> "SUCCESS"] \in Range(out)
      BY <3>2, <3>7 DEF DeliveredAt
    <3>10. g \in DeliveredAt(out, X2, h, frames2)
      BY <2>1, <3>2, <3>4, <3>9 DEF DeliveredAt
    <3> QED
      BY <3>7, <3>8, <3>10
  <2>4. CASE ~(g < n)
    <3>1. q > n
      BY <1>7, <2>2, <2>4
    <3>2. q \notin StartsOf(X, h)
      BY <3>1 DEF StartsOf
    <3>3. ~(q >= base)
      BY <1>4, <3>1, <3>2
    <3> QED
      BY <1>1, <1>7, <2>1, <2>2, <3>3
  <2> QED
    BY <2>2, <2>3, <2>4
<1> HIDE DEF m, m2
<1>8. Reading(m2, n, q, rs, DeliveredAt(out, X2, h, frames2))
  BY <1>6, <1>7 DEF Reading
<1> QED
  BY <1>8 DEF m2

\* The line can be read from base on, and from far on nothing of it is missed.
Readable(base, far) == (damaged = {} /\ Undamaged(Course, hurt, base, far)) \/ DamageOver(hurt, base, far)

NodeReads(base, far) ==
  \E q : /\ NodeAt(nd, q, line)
         /\ Reading(NdMap(Course, hurt, sent, base, far), Len(line), q, nd.resync,
                    DeliveredAt(ndOut, Course, hurt, sent))

NodeInv ==
  /\ CourseInv /\ NodeHolds(nd) /\ ndOut \in Seq(Range(ndOut)) /\ SoundFrames(ndOut)
  /\ \E q : NodeAt(nd, q, line)
  /\ \A base, far : Readable(base, far) => NodeReads(base, far)

\* The course begins with the line, and is the line when all is sent.
LEMMA CourseShows ==
  ASSUME CourseInv
  PROVE  /\ Course \in Seq(Range(Course)) /\ line \in Seq(Range(Course))
         /\ Len(line) \in Nat /\ Len(Course) \in Nat /\ Len(line) <= Len(Course) /\ hurt <= Len(Course)
         /\ \A k \in 1..Len(line) : Course[k] = line[k]
         /\ AllSent => Len(Course) = Len(line)
<1>1. PICK n \in Nat : n = Len(line) /\ line \in Seq(Range(line)) /\ hurt \in Nat /\ hurt <= n
  BY DEF CourseInv, Sending
<1>2. PICK X : X = Course
  OBVIOUS
<1>3. PICK l \in Nat : IsCourse(X, sent, pos, line, l)
  <2>1. sent \in Seq(Sendable) /\ pos \in Nat /\ (sent # << >> => pos <= Len(Last(sent)))
        /\ line \in Seq(Range(line)) /\ X = CourseOf(sent, pos, line)
    BY <1>2 DEF CourseInv, Sending, Course
  <2> QED
    BY <2>1, CourseIs
<1>4. X \in Seq(Range(X)) /\ Len(X) = n + l /\ \A k \in 1..n : X[k] = line[k]
  BY <1>1, <1>3 DEF IsCourse
<1>5. line \in Seq(Range(X))
  <2>1. \A k \in 1..n : line[k] \in Range(X)
    <3> SUFFICES ASSUME NEW k \in 1..n PROVE line[k] \in Range(X)
      OBVIOUS
    <3>1. k \in DOMAIN X
      BY <1>4
    <3> QED
      BY <1>4, <3>1 DEF Range
  <2>2. line = [k \in 1..n |-> line[k]]
    BY <1>1
  <2>3. line \in [1..n -> Range(X)]
    BY <2>1, <2>2
  <2> QED
    BY <2>3
<1>6. AllSent => l = 0
  <2> SUFFICES ASSUME AllSent PROVE l = 0
    OBVIOUS
  <2>1. l = LeftOf(sent, pos)
    BY <1>3 DEF IsCourse
  <2>2. pos \in Nat
    BY DEF CourseInv, Sending
  <2> QED
    BY <2>1, <2>2 DEF AllSent, LeftOf
<1> QED
  BY <1>1, <1>2, <1>4, <1>5, <1>6

\* What the decoders need to know of a line that can be read.
LEMMA LineKnown ==
  ASSUME CourseInv, WellFormed, NEW base, NEW far, Readable(base, far)
  PROVE  OnLine(Range(Course), line, Course, hurt, sent, base, far)
<1>1. hurt \in Nat /\ sent \in Seq(Sendable) /\ Regular(Course, hurt, sent)
  BY DEF CourseInv, Sending
<1>2. Undamaged(Course, hurt, base, far) \/ DamageOver(hurt, base, far)
  BY DEF Readable
<1> QED
  BY <1>1, <1>2, CourseShows DEF OnLine

\* A line without damage can be read from its beginning on.
LEMMA CleanReadable ==
  ASSUME CourseInv, damaged = {}, ViolationsQuiet
  PROVE  Readable(0, 0)
BY DEF CourseInv, Placed, Readable, Undamaged

-----------------------------------------------------------------------------
(* The steps.                                                              *)

\* The line is empty.
LEMMA NodeInvInit ==
  ASSUME Init
  PROVE  NodeInv
<1>1. /\ sent = << >> /\ pos = 0 /\ line = << >> /\ hurt = 0 /\ damaged = {} /\ ndOut = << >>
      /\ nd = [st |-> "HDR", buf |-> << >>, resync |-> FALSE, i |-> 0, drain |-> 0, raw |-> << >>]
  BY DEF Init
<1>2. PICK X : X = Course
  OBVIOUS
<1>3. X = << >>
  <2>1. LeftOf(<< >>, 0) = 0
    BY DEF LeftOf
  <2>2. X = [k \in 1..0 + 0 |-> IF k <= 0 THEN << >>[k] ELSE Letter(<< >>, 0, 0 + (k - 0))]
    BY <1>1, <1>2, <2>1 DEF Course, CourseOf
  <2>3. Len(X) = 0
    BY <2>2
  <2> QED
    BY <2>2, <2>3
<1>4. Len(X) = 0 /\ \A k \in 1..0 : FALSE
  BY <1>3
<1>5. CourseInv
  <2>1. Sending
    <3>1. << >> \in Seq(Sendable) /\ << >> \in Seq(Range(<< >>)) /\ Len(<< >>) = 0 /\ {} \subseteq 1..0
      OBVIOUS
    <3> QED
      BY <1>1, <3>1 DEF Sending
  <2>2. Regular(X, 0, << >>)
    BY <1>4 DEF Regular
  <2>3. Placed(X, 0, << >>, {})
    <3>1. Len(<< >>) = 0
      OBVIOUS
    <3> QED
      BY <1>4, <3>1 DEF Placed
  <2> QED
    BY <1>1, <1>2, <2>1, <2>2, <2>3 DEF CourseInv
<1>6. NodeHolds(nd) /\ Held(nd) = << >> /\ Ahead(nd) = 0
  <2>1. IsNode(nd) /\ nd.resync \in BOOLEAN
    <3>1. IsNode(nd)
      BY <1>1 DEF IsNode
    <3>2. nd.resync = FALSE
      BY <1>1
    <3> QED
      BY <3>1, <3>2
  <2>2. nd.st = "HDR" /\ nd.buf = << >>
    BY <1>1
  <2>3. << >> \in Seq(Range(<< >>)) /\ Len(<< >>) < 3
    OBVIOUS
  <2> QED
    BY <2>1, <2>2, <2>3 DEF NodeHolds, Held, Ahead
<1>7. ndOut \in Seq(Range(ndOut)) /\ SoundFrames(ndOut)
  <2>1. << >> \in Seq(Range(<< >>)) /\ Range(<< >>) = {}
    BY DEF Range
  <2> QED
    BY <1>1, <2>1 DEF SoundFrames
<1>8. NodeAt(nd, 0, line)
  <2>1. SubSeq(<< >>, 0 + 1, Len(<< >>)) = << >> /\ 0 <= Len(<< >>)
    OBVIOUS
  <2> QED
    BY <1>1, <1>6, <2>1 DEF NodeAt
<1>9. ASSUME NEW base, NEW far, Readable(base, far) PROVE NodeReads(base, far)
  <2> DEFINE m == NdMap(X, 0, << >>, base, far)
             del == DeliveredAt(ndOut, X, 0, << >>)
  <2>1. m.starts = StartsOf(X, 0) /\ m.good = NdGood(X, 0, << >>)
    BY DEF NdMap, MapOf
  <2>2. 0 \in StartsOf(X, 0)
    BY <1>4 DEF StartsOf
  <2>3. \A g \in NdGood(X, 0, << >>) : FALSE
    BY <1>4 DEF NdGood, StartsOf
  <2>4. Reading(m, 0, 0, nd.resync, del)
    BY <2>1, <2>2, <2>3 DEF Reading
  <2>5. Len(line) = 0
    BY <1>1
  <2> QED
    BY <1>1, <1>2, <1>8, <2>4, <2>5 DEF NodeReads
<1> QED
  BY <1>5, <1>6, <1>7, <1>8, <1>9 DEF NodeInv

\* Nothing of this changes.
LEMMA NodeInvStays ==
  ASSUME NodeInv, UNCHANGED <<sent, pos, line, hurt, damaged, nd, ndOut>>
  PROVE  NodeInv'
<1>1. PICK s, p, l, h, d, n, o :
        s = sent /\ p = pos /\ l = line /\ h = hurt /\ d = damaged /\ n = nd /\ o = ndOut
  OBVIOUS
<1>2. Course' = Course
  BY DEF Course
<1>3. CourseInv'
  BY <1>2 DEF NodeInv, CourseInv, Sending
<1>4. \A base, far : Readable(base, far)' <=> Readable(base, far)
  BY <1>2 DEF Readable
<1>5. \A base, far : NodeReads(base, far)' <=> NodeReads(base, far)
  BY <1>2 DEF NodeReads
<1> QED
  BY <1>3, <1>4, <1>5 DEF NodeInv

\* A frame is begun: the line is longer by it, and what was read stays read.
LEMMA NodeInvSends ==
  ASSUME NodeInv, NEW f \in Sendable, SendFrame(f)
  PROVE  NodeInv'
<1>1. /\ CourseInv' /\ Len(Course) = Len(line) /\ Len(Course') = Len(line) + Len(f)
      /\ \A k \in 1..Len(line) : Course'[k] = Course[k]
  BY CourseSends DEF NodeInv
<1>2. /\ sent' = Append(sent, f) /\ pos' = 0
      /\ line' = line /\ hurt' = hurt /\ damaged' = damaged /\ nd' = nd /\ ndOut' = ndOut
  BY DEF SendFrame
<1>3. NodeHolds(nd') /\ ndOut' \in Seq(Range(ndOut')) /\ SoundFrames(ndOut') /\ \E q : NodeAt(nd', q, line')
  BY <1>2 DEF NodeInv
<1>4. PICK X, X2, frames, frames2 : X = Course /\ X2 = Course' /\ frames = sent /\ frames2 = sent'
  OBVIOUS
<1>5. PICK n \in Nat, m \in Nat, l \in Nat, h \in Nat :
        n = Len(line) /\ m = Len(sent) /\ l = Len(f) /\ 3 <= l /\ h = hurt
  <2>1. f \in Seq(Range(f)) /\ Len(f) >= 3
    BY StreamAssumption DEF HeaderBytes
  <2>2. Len(f) \in Nat
    BY <2>1
  <2>3. Len(line) \in Nat /\ Len(sent) \in Nat /\ hurt \in Nat
    BY DEF NodeInv, CourseInv, Sending
  <2> QED
    BY <2>1, <2>2, <2>3
<1>6. /\ frames \in Seq(Sendable) /\ Len(frames) = m /\ Len(frames2) = m + 1 /\ frames2[m + 1] = f
      /\ \A i \in 1..Len(frames) : frames2[i] = frames[i]
  <2>1. frames \in Seq(Sendable)
    BY <1>4 DEF NodeInv, CourseInv, Sending
  <2>2. frames2 = Append(frames, f)
    BY <1>2, <1>4
  <2> QED
    BY <1>4, <1>5, <2>1, <2>2
<1>7. X \in Seq(Range(X)) /\ Len(X) = n /\ \A k \in 1..n : X[k].frame \in 1..Len(frames)
  <2>1. X \in Seq(Range(X))
    BY <1>4, CourseShows DEF NodeInv
  <2>2. Placed(X, hurt, frames, damaged)
    BY <1>4 DEF NodeInv, CourseInv
  <2> QED
    BY <1>1, <1>4, <1>5, <2>1, <2>2 DEF Placed
<1>8. Len(X2) = n + l /\ \A k \in 1..n : X2[k] = X[k]
  BY <1>1, <1>4, <1>5
<1>9. X2[n + 1].at = 1
  <2>1. frames2 # << >> /\ Last(frames2) = f
    <3>1. frames2 # << >>
      <4>1. frames2 = << >> => Len(frames2) = 0
        OBVIOUS
      <4> QED
        BY <1>6, <4>1
    <3> QED
      BY <1>6, <3>1 DEF Last
  <2>2. LeftOf(frames2, 0) = l
    BY <1>5, <2>1 DEF LeftOf
  <2>3. X2 = [k \in 1..n + l |-> IF k <= n THEN line[k] ELSE Letter(frames2, m + 1, 0 + (k - n))]
    BY <1>2, <1>4, <1>5, <1>6, <2>2 DEF Course, CourseOf
  <2>4. n + 1 \in 1..n + l /\ ~(n + 1 <= n) /\ 0 + ((n + 1) - n) = 1
    BY <1>5
  <2>5. X2[n + 1] = Letter(frames2, m + 1, 1)
    BY <2>3, <2>4
  <2> QED
    BY <2>5 DEF Letter
<1>10. ASSUME NEW base, NEW far, Readable(base, far)' PROVE NodeReads(base, far)'
  <2>1. (damaged = {} /\ Undamaged(X2, h, base, far)) \/ DamageOver(h, base, far)
    BY <1>2, <1>4, <1>5, <1>10 DEF Readable
  <2>2. Readable(base, far)
    <3>1. Undamaged(X2, h, base, far) => Undamaged(X, h, base, far)
      <4> SUFFICES ASSUME Undamaged(X2, h, base, far), NEW k \in 1..n PROVE X[k].at <= k
        BY <1>7 DEF Undamaged
      <4>1. k \in 1..(n + l)
        OBVIOUS
      <4>2. X2[k].at <= k
        BY <1>8, <4>1 DEF Undamaged
      <4> QED
        BY <1>8, <4>2
    <3> QED
      BY <1>4, <1>5, <2>1, <3>1 DEF Readable
  <2>3. PICK q : /\ NodeAt(nd, q, line)
                 /\ Reading(NdMap(X, h, frames, base, far), n, q, nd.resync, DeliveredAt(ndOut, X, h, frames))
    BY <1>4, <1>5, <2>2 DEF NodeInv, NodeReads
  <2>4. (h = 0 /\ base = 0 /\ far = 0) \/ (base = h + MaxTotal /\ far = base + 2)
    BY <2>1 DEF Undamaged, DamageOver
  <2>5. q \in Nat
    BY <2>3 DEF NodeAt
  <2>6. Reading(NdMap(X2, h, frames2, base, far), n, q, nd.resync, DeliveredAt(ndOut, X2, h, frames2))
    BY <1>5, <1>6, <1>7, <1>8, <1>9, <2>3, <2>4, <2>5, ReadingSends, ZenonT(40)
  <2>7. NodeAt(nd', q, line')
    BY <1>2, <2>3
  <2>8. Reading(NdMap(Course', hurt', sent', base, far), Len(line'), q, nd'.resync,
                DeliveredAt(ndOut', Course', hurt', sent'))
    BY <1>2, <1>4, <1>5, <2>6
  <2> QED
    BY <2>7, <2>8 DEF NodeReads
<1> QED
  BY <1>1, <1>3, <1>10 DEF NodeInv

\* A byte arrives as it was sent.
LEMMA NodeInvArrives ==
  ASSUME NodeInv, WellFormed, ByteArrives
  PROVE  NodeInv'
<1>1. PICK byte : byte = Course[Len(line) + 1]
  OBVIOUS
<1>2. /\ CourseInv' /\ Course' = Course /\ Len(line') = Len(line) + 1 /\ Len(line') <= Len(Course)
      /\ line' = Append(line, byte) /\ NdFeed(byte) /\ sent' = sent /\ hurt' = hurt /\ damaged' = damaged
  BY <1>1, CourseArrives DEF NodeInv
<1>3. PICK S : S = Range(Course)
  OBVIOUS
<1>4. /\ Course \in Seq(S) /\ line \in Seq(S) /\ Len(line) \in Nat
      /\ NodeHolds(nd) /\ ndOut \in Seq(Range(ndOut)) /\ SoundFrames(ndOut)
  BY <1>3, CourseShows DEF NodeInv
<1>5. PICK n \in Nat : n = Len(line)
  BY <1>4
<1>6. byte \in S
  <2>1. Len(line) + 1 \in 1..Len(Course)
    BY <1>2, <1>4
  <2> QED
    BY <1>1, <1>4, <2>1
<1>7. \A q : NodeAt(nd, q, line) =>
        /\ NodeHolds(nd')
        /\ \E p : /\ NodeAt(nd', p, line')
                  /\ \E taken : /\ nd.st # "DRAIN" => q <= n /\ taken = SubSeq(line', q + 1, Len(line'))
                                /\ Moves(n, taken, q, p)
  <2> SUFFICES ASSUME NEW q, NodeAt(nd, q, line)
               PROVE  /\ NodeHolds(nd')
                      /\ \E p : /\ NodeAt(nd', p, line')
                                /\ \E taken : /\ nd.st # "DRAIN" => q <= n /\ taken = SubSeq(line', q + 1, Len(line'))
                                              /\ Moves(n, taken, q, p)
    OBVIOUS
  <2>1. PICK M : M = line'
    OBVIOUS
  <2>2. M = Append(line, byte)
    BY <1>2, <2>1
  <2>3. /\ NodeHolds(nd')
        /\ \E p : /\ NodeAt(nd', p, M) /\ p < Len(M) + MaxTotal
                  /\ \E taken : /\ nd.st # "DRAIN" => q <= Len(line) /\ taken = SubSeq(M, q + 1, Len(M))
                                /\ Moves(Len(line), taken, q, p)
    BY <1>2, <1>4, <1>6, <2>2, FeedAt, ZenonT(40)
  <2> QED
    BY <1>5, <2>1, <2>3
<1>8. /\ NodeHolds(nd') /\ ndOut' \in Seq(Range(ndOut')) /\ SoundFrames(ndOut')
      /\ \E q : NodeAt(nd', q, line')
  <2>1. PICK q : NodeAt(nd, q, line)
    BY DEF NodeInv
  <2>2. PICK p, taken : NodeAt(nd', p, line') /\ Moves(n, taken, q, p)
    BY <1>7, <2>1
  <2>3. ndOut' \in Seq(Range(ndOut')) /\ SoundFrames(ndOut')
    BY <1>4, <2>2, MoveSound
  <2> QED
    BY <1>7, <2>1, <2>2, <2>3
<1>9. ASSUME NEW base, NEW far, Readable(base, far)' PROVE NodeReads(base, far)'
  <2>1. Readable(base, far)
    BY <1>2, <1>9 DEF Readable
  <2>2. PICK q : /\ NodeAt(nd, q, line)
                 /\ Reading(NdMap(Course, hurt, sent, base, far), n, q, nd.resync,
                            DeliveredAt(ndOut, Course, hurt, sent))
    BY <1>5, <2>1 DEF NodeInv, NodeReads
  <2>3. PICK p, taken : /\ NodeAt(nd', p, line')
                        /\ nd.st # "DRAIN" => q <= n /\ taken = SubSeq(line', q + 1, Len(line'))
                        /\ Moves(n, taken, q, p)
    BY <1>7, <2>2
  <2>4. OnLine(S, line, Course, hurt, sent, base, far)
    BY <1>3, <2>1, LineKnown DEF NodeInv
  <2>5. PICK M, X, h, frames : M = line' /\ X = Course /\ h = hurt /\ frames = sent
    OBVIOUS
  <2>6. OnLine(S, M, X, h, frames, base, far)
    <3>1. M \in Seq(S) /\ Len(M) <= Len(X)
      BY <1>2, <1>4, <1>6, <2>5
    <3>2. \A k \in 1..Len(M) : X[k] = M[k]
      <4> SUFFICES ASSUME NEW k \in 1..Len(M) PROVE X[k] = M[k]
        OBVIOUS
      <4>1. Len(M) = n + 1 /\ M = Append(line, byte) /\ line \in Seq(S) /\ n = Len(line)
        BY <1>2, <1>4, <1>5, <2>5
      <4>2. CASE k = n + 1
        <5>1. M[n + 1] = byte
          BY <1>6, <4>1
        <5> QED
          BY <1>1, <1>5, <2>5, <4>2, <5>1
      <4>3. CASE k # n + 1
        <5>1. k \in 1..n
          BY <4>1, <4>3
        <5>2. M[k] = line[k]
          BY <4>1, <5>1
        <5>3. X[k] = line[k]
          BY <1>5, <2>4, <2>5, <5>1 DEF OnLine
        <5> QED
          BY <5>2, <5>3
      <4> QED
        BY <4>2, <4>3
    <3> QED
      BY <2>4, <2>5, <3>1, <3>2 DEF OnLine
  <2>7. Reading(NdMap(X, h, frames, base, far), n + 1, p, nd'.resync, DeliveredAt(ndOut', X, h, frames))
    <3>1. Len(M) = n + 1
      BY <1>2, <1>5, <2>5
    <3>2. q \in Nat
      BY <2>2 DEF NodeAt
    <3>3. nd.st # "DRAIN" => q <= n /\ taken = SubSeq(M, q + 1, Len(M))
      BY <2>3, <2>5
    <3>4. Reading(NdMap(X, h, frames, base, far), n, q, nd.resync, DeliveredAt(ndOut, X, h, frames))
      BY <2>2, <2>5
    <3> QED
      BY <1>4, <2>3, <2>6, <3>1, <3>2, <3>3, <3>4, MoveReads
  <2>8. Reading(NdMap(Course', hurt', sent', base, far), Len(line'), p, nd'.resync,
                DeliveredAt(ndOut', Course', hurt', sent'))
    BY <1>2, <1>5, <2>5, <2>7
  <2> QED
    BY <2>3, <2>8 DEF NodeReads
<1> QED
  BY <1>2, <1>8, <1>9 DEF NodeInv

\* Damage: from here on the decoder owes nothing before it had the time to be done with
\* what it took for a frame.
LEMMA NodeInvHurt ==
  ASSUME CourseInv', damaged' # {}, hurt' = Len(line'),
         NodeHolds(nd'), ndOut' \in Seq(Range(ndOut')), SoundFrames(ndOut'),
         NEW p, NodeAt(nd', p, line'), p < Len(line') + MaxTotal
  PROVE  NodeInv'
<1>1. ASSUME NEW base, NEW far, Readable(base, far)' PROVE NodeReads(base, far)'
  <2>1. base = hurt' + MaxTotal /\ far = base + 2
    BY <1>1 DEF Readable, DamageOver
  <2>2. PICK n \in Nat, top \in Nat : n = hurt' /\ n = Len(line') /\ top = MaxTotal
    <3>1. hurt' \in Nat
      BY DEF CourseInv, Sending
    <3> QED
      BY <3>1, LongestFrame
  <2>3. p \in Nat /\ base = n + top /\ far = n + top + 2 /\ p < n + top
    BY <2>1, <2>2 DEF NodeAt
  <2>4. ~(p >= base) /\ \A g \in Nat : ~(g >= far /\ g < p)
    BY <2>3
  <2> DEFINE m == NdMap(Course', hurt', sent', base, far)
  <2>5. /\ m.base = base /\ m.far = far /\ m.good \subseteq StartsOf(Course', hurt')
    BY DEF NdMap, MapOf, NdGood
  <2>6. \A g \in StartsOf(Course', hurt') : g \in Nat
    <3>1. PICK X : X = Course'
      OBVIOUS
    <3>2. \A g \in StartsOf(X, n) : g \in n..Len(X)
      BY DEF StartsOf
    <3> QED
      BY <2>2, <3>1, <3>2
  <2> HIDE DEF m
  <2>7. Reading(m, Len(line'), p, nd'.resync, DeliveredAt(ndOut', Course', hurt', sent'))
    BY <2>4, <2>5, <2>6 DEF Reading
  <2> QED
    BY <2>7 DEF NodeReads, m
<1> QED
  BY <1>1 DEF NodeInv

\* A byte is lost.
LEMMA NodeInvLost ==
  ASSUME NodeInv, ByteLost
  PROVE  NodeInv'
<1>1. /\ ~AllSent /\ sent' = sent /\ pos' = pos + 1 /\ line' = line /\ nd' = nd /\ ndOut' = ndOut
      /\ damaged' = damaged \cup {Len(sent)} /\ hurt' = Len(line')
  BY DEF ByteLost, Leaves, Damages
<1>2. CourseInv' /\ damaged' # {}
  BY <1>1, CourseDamaged DEF NodeInv
<1>3. PICK p : NodeAt(nd, p, line)
  BY DEF NodeInv
<1>4. p < Len(line) + MaxTotal
  <2>1. PICK n \in Nat, top \in Nat : n = Len(line) /\ top = MaxTotal /\ 0 < top
    BY LongestFrame DEF NodeInv, CourseInv, Sending, HeaderBytes
  <2>2. Ahead(nd) \in Nat /\ Ahead(nd) < top
    BY <2>1 DEF NodeInv, NodeHolds, InPayload, Ahead
  <2> QED
    BY <1>3, <2>1, <2>2 DEF NodeAt
<1>5. NodeHolds(nd') /\ ndOut' \in Seq(Range(ndOut')) /\ SoundFrames(ndOut')
  BY <1>1 DEF NodeInv
<1>6. NodeAt(nd', p, line') /\ p < Len(line') + MaxTotal
  BY <1>1, <1>3, <1>4
<1> QED
  BY <1>1, <1>2, <1>5, <1>6, NodeInvHurt

\* A byte arrives as another one.
LEMMA NodeInvGarbled ==
  ASSUME NodeInv, NEW sym \in Noise, ByteGarbled(sym)
  PROVE  NodeInv'
<1>1. PICK byte : byte = [sym |-> sym, frame |-> Len(sent), at |-> pos + 1]
  OBVIOUS
<1>2. /\ ~AllSent /\ sent' = sent /\ pos' = pos + 1 /\ line' = Append(line, byte) /\ NdFeed(byte)
      /\ damaged' = damaged \cup {Len(sent)} /\ hurt' = Len(line')
  BY <1>1 DEF ByteGarbled, Leaves, Arrives, Damages
<1>3. byte.frame = Len(sent)
  BY <1>1
<1>4. CourseInv' /\ damaged' # {}
  BY <1>2, <1>3, CourseDamaged DEF NodeInv
<1>5. PICK q : NodeAt(nd, q, line)
  BY DEF NodeInv
<1>6. PICK S, M : S = Range(line) \cup {byte} /\ M = line'
  OBVIOUS
<1>7. line \in Seq(S) /\ byte \in S
  BY <1>6 DEF NodeInv, CourseInv, Sending
<1>8. NodeHolds(nd) /\ ndOut \in Seq(Range(ndOut)) /\ SoundFrames(ndOut)
  BY DEF NodeInv
<1>9. M = Append(line, byte)
  BY <1>2, <1>6
<1>10. /\ NodeHolds(nd')
       /\ \E p : /\ NodeAt(nd', p, M) /\ p < Len(M) + MaxTotal
                 /\ \E taken : /\ nd.st # "DRAIN" => q <= Len(line) /\ taken = SubSeq(M, q + 1, Len(M))
                               /\ Moves(Len(line), taken, q, p)
  BY <1>2, <1>5, <1>7, <1>8, <1>9, FeedAt
<1>11. PICK p, taken : NodeAt(nd', p, M) /\ p < Len(M) + MaxTotal /\ Moves(Len(line), taken, q, p)
  BY <1>10
<1>12. ndOut' \in Seq(Range(ndOut')) /\ SoundFrames(ndOut')
  BY <1>8, <1>11, MoveSound
<1> QED
  BY <1>2, <1>4, <1>6, <1>10, <1>11, <1>12, NodeInvHurt

\* A silence: bytes of a header are kept, everything else is given up.
LEMMA SilenceAt ==
  ASSUME NodeHolds(nd), nd' = OnGap(nd), NEW L, Len(L) \in Nat, NEW q, NodeAt(nd, q, L)
  PROVE  /\ NodeHolds(nd') /\ nd'.resync = TRUE
         /\ nd.st = "HDR" => q <= Len(L) /\ NodeAt(nd', q, L)
         /\ nd.st # "HDR" => NodeAt(nd', Len(L), L)
<1>1. PICK d : d = nd'
  OBVIOUS
<1>2. IsNode(nd)
  BY DEF NodeHolds
<1>3. d.resync = TRUE
  <2>1. CASE nd.st = "HDR"
    <3>1. nd' = [nd EXCEPT !.resync = TRUE]
      BY <2>1 DEF OnGap
    <3> QED
      BY <1>1, <1>2, <3>1 DEF IsNode
  <2>2. CASE nd.st # "HDR"
    <3>1. nd' = [nd EXCEPT !.st = "HDR", !.buf = << >>, !.resync = TRUE, !.raw = << >>]
      BY <2>2 DEF OnGap
    <3> QED
      BY <1>1, <1>2, <3>1 DEF IsNode
  <2> QED
    BY <2>1, <2>2
<1>4. CASE nd.st = "HDR"
  <2>1. nd' = [nd EXCEPT !.resync = TRUE]
    BY <1>4 DEF OnGap
  <2>2. IsNode(d) /\ d.st = "HDR" /\ d.buf = nd.buf
    BY <1>1, <1>2, <1>4, <2>1 DEF IsNode
  <2>3. nd.buf \in Seq(Range(nd.buf)) /\ Len(nd.buf) < 3
    BY <1>4 DEF NodeHolds, InPayload
  <2>4. NodeHolds(d)
    BY <1>3, <2>2, <2>3 DEF NodeHolds
  <2>5. Held(d) = Held(nd) /\ Ahead(d) = 0 /\ Ahead(nd) = 0
    BY <1>4, <2>2 DEF Held, Ahead
  <2>6. q <= Len(L) /\ NodeAt(d, q, L)
    BY <2>5 DEF NodeAt
  <2> QED
    BY <1>1, <1>3, <1>4, <2>4, <2>6
<1>5. CASE nd.st # "HDR"
  <2>1. nd' = [nd EXCEPT !.st = "HDR", !.buf = << >>, !.resync = TRUE, !.raw = << >>]
    BY <1>5 DEF OnGap
  <2>2. IsNode(d) /\ d.st = "HDR" /\ d.buf = << >>
    BY <1>1, <1>2, <2>1 DEF IsNode
  <2>3. << >> \in Seq(Range(<< >>)) /\ Len(<< >>) < 3
    OBVIOUS
  <2>4. NodeHolds(d)
    BY <1>3, <2>2, <2>3 DEF NodeHolds
  <2>5. Held(d) = << >> /\ Ahead(d) = 0
    BY <2>2 DEF Held, Ahead
  <2>6. SubSeq(L, Len(L) + 1, Len(L)) = << >>
    OBVIOUS
  <2>7. NodeAt(d, Len(L), L)
    BY <2>5, <2>6 DEF NodeAt
  <2> QED
    BY <1>1, <1>3, <1>5, <2>4, <2>7
<1> QED
  BY <1>4, <1>5

\* A silence, which damages a frame on its way and else leaves the line alone.
LEMMA NodeInvSilence ==
  ASSUME NodeInv, WellFormed, Gap
  PROVE  NodeInv'
<1>1. nd' = OnGap(nd) /\ sent' = sent /\ pos' = pos /\ line' = line /\ ndOut' = ndOut
  BY DEF Gap
<1>2. PICK n \in Nat : n = Len(line)
  BY DEF NodeInv, CourseInv, Sending
<1>3. /\ CourseInv /\ NodeHolds(nd) /\ ndOut \in Seq(Range(ndOut)) /\ SoundFrames(ndOut)
      /\ ndOut' \in Seq(Range(ndOut')) /\ SoundFrames(ndOut')
  BY <1>1 DEF NodeInv
<1>4. \A q : NodeAt(nd, q, line) =>
        /\ NodeHolds(nd') /\ nd'.resync = TRUE
        /\ nd.st = "HDR" => q <= n /\ NodeAt(nd', q, line)
        /\ nd.st # "HDR" => NodeAt(nd', n, line)
  BY <1>1, <1>2, <1>3, SilenceAt
<1>5. PICK p : NodeAt(nd', p, line') /\ p \in Nat /\ p <= n /\ NodeHolds(nd')
  <2>1. PICK q : NodeAt(nd, q, line)
    BY DEF NodeInv
  <2>2. CASE nd.st = "HDR"
    <3>1. NodeAt(nd', q, line) /\ q <= n /\ NodeHolds(nd')
      BY <1>4, <2>1, <2>2
    <3> QED
      BY <1>1, <3>1 DEF NodeAt
  <2>3. CASE nd.st # "HDR"
    <3>1. NodeAt(nd', n, line) /\ n <= n /\ NodeHolds(nd')
      BY <1>2, <1>4, <2>1, <2>3
    <3> QED
      BY <1>1, <3>1 DEF NodeAt
  <2> QED
    BY <2>2, <2>3
<1>6. CASE ~AllSent
  <2>1. damaged' = damaged \cup {Len(sent)} /\ hurt' = Len(line')
    BY <1>1, <1>6 DEF Gap
  <2>2. CourseInv' /\ damaged' # {}
    BY <1>1, <1>3, <1>6, <2>1, CourseDamaged
  <2>3. p < Len(line') + MaxTotal
    <3>1. PICK top \in Nat : top = MaxTotal /\ 0 < top
      BY LongestFrame DEF HeaderBytes
    <3>2. p < n + top
      BY <1>5, <3>1
    <3> QED
      BY <1>1, <1>2, <3>1, <3>2
  <2> QED
    BY <1>3, <1>5, <2>1, <2>2, <2>3, NodeInvHurt
<1>7. CASE AllSent
  <2>1. damaged' = damaged /\ hurt' = hurt
    BY <1>7 DEF Gap
  <2>2. Course' = Course
    BY <1>1 DEF Course
  <2>3. CourseInv'
    BY <1>1, <1>3, <2>1, <2>2 DEF CourseInv, Sending
  <2>4. ASSUME NEW base, NEW far, Readable(base, far)' PROVE NodeReads(base, far)'
    <3>1. Readable(base, far)
      BY <2>1, <2>2, <2>4 DEF Readable
    <3>2. PICK X, h, frames, S : X = Course /\ h = hurt /\ frames = sent /\ S = Range(Course)
      OBVIOUS
    <3> DEFINE m == NdMap(X, h, frames, base, far)
               del == DeliveredAt(ndOut, X, h, frames)
    <3>3. PICK q : NodeAt(nd, q, line) /\ Reading(m, n, q, nd.resync, del)
      BY <1>2, <3>1, <3>2 DEF NodeInv, NodeReads
    <3>4. OnLine(S, line, X, h, frames, base, far)
      BY <1>3, <3>1, <3>2, LineKnown
    <3>5. Map(m) /\ m.len = n /\ m.far = far /\ m.good = NdGood(X, h, frames)
          /\ m.starts = StartsOf(X, h)
          /\ \A k \in Nat : m.end[k] = k + Len(FrameAt(X, frames, k))
      <4>1. Map(m)
        BY <3>4, NdMapHolds DEF OnLine
      <4>2. Len(X) = n
        BY <1>2, <1>3, <1>7, <3>2, CourseShows
      <4> QED
        BY <4>1, <4>2 DEF NdMap, MapOf
    <3> HIDE DEF m, del
    <3>6. ASSUME NEW r, r <= n, NodeAt(nd', r, line), Reading(m, n, r, TRUE, del)
          PROVE  NodeReads(base, far)'
      <4>1. nd'.resync = TRUE
        BY <1>4, <3>3
      <4>2. Reading(NdMap(Course', hurt', sent', base, far), Len(line'), r, nd'.resync,
                    DeliveredAt(ndOut', Course', hurt', sent'))
        BY <1>1, <1>2, <2>1, <2>2, <3>2, <3>6, <4>1 DEF m, del
      <4>3. NodeAt(nd', r, line')
        BY <1>1, <3>6
      <4> QED
        BY <4>2, <4>3 DEF NodeReads
    <3>7. CASE nd.st = "HDR"
      <4>1. q <= n /\ NodeAt(nd', q, line)
        BY <1>4, <3>3, <3>7
      <4>2. Reading(m, n, q, TRUE, del)
        BY <3>3, <4>1 DEF Reading
      <4> QED
        BY <3>6, <4>1, <4>2
    <3>8. CASE nd.st # "HDR"
      <4>1. NodeAt(nd', n, line)
        BY <1>4, <3>3, <3>8
      <4>2. ASSUME NEW g \in m.good, g >= m.far, g < n PROVE m.end[g] <= n /\ g \in del
        <5>1. g \in m.starts /\ g # m.len /\ m.end[g] \in m.starts
          BY <3>5 DEF Map
        <5>2. g \in Nat /\ m.end[g] <= n
          BY <3>5, <5>1 DEF Map
        <5>3. /\ g \in NdGood(X, h, frames) /\ g >= far /\ g + Len(FrameAt(X, frames, g)) <= Len(line)
          BY <1>2, <3>5, <4>2, <5>2
        <5>4. Reading(NdMap(X, h, frames, base, far), Len(line), q, nd.resync, del)
          BY <1>2, <3>3 DEF m
        <5>5. g \in del
          BY <1>3, <3>3, <3>4, <5>3, <5>4, AllDelivered
        <5> QED
          BY <5>2, <5>5
      <4>3. Reading(m, n, n, TRUE, del)
        BY <4>2 DEF Reading
      <4>4. n <= n
        OBVIOUS
      <4> QED
        BY <3>6, <4>1, <4>3, <4>4
    <3> QED
      BY <3>7, <3>8
  <2>5. \E q : NodeAt(nd', q, line')
    BY <1>5
  <2> QED
    BY <1>3, <1>5, <2>3, <2>4, <2>5 DEF NodeInv
<1> QED
  BY <1>6, <1>7

\* Every step.
LEMMA NodeInvNext ==
  ASSUME NodeInv, WellFormed, [Next]_vars
  PROVE  NodeInv'
<1>1. ASSUME NEW f \in Sendable, SendFrame(f) PROVE NodeInv'
  BY <1>1, NodeInvSends
<1>2. CASE ByteArrives
  BY <1>2, NodeInvArrives
<1>3. CASE ByteLost
  BY <1>3, NodeInvLost
<1>4. ASSUME NEW sym \in Noise, ByteGarbled(sym) PROVE NodeInv'
  BY <1>4, NodeInvGarbled
<1>5. CASE Gap
  BY <1>5, NodeInvSilence
<1>6. CASE Feed
  <2>1. UNCHANGED <<sent, pos, line, hurt, damaged, nd, ndOut>>
    BY <1>6 DEF Feed, senderVars
  <2> QED
    BY <2>1, NodeInvStays
<1>7. CASE UNCHANGED vars
  <2>1. UNCHANGED <<sent, pos, line, hurt, damaged, nd, ndOut>>
    BY <1>7 DEF vars, senderVars
  <2> QED
    BY <2>1, NodeInvStays
<1> QED
  BY <1>1, <1>2, <1>3, <1>4, <1>5, <1>6, <1>7 DEF Next

-----------------------------------------------------------------------------
(* What the gateway's decoder yields as a frame is one.                    *)

GwSound(d) ==
  /\ d.out \in Seq(Range(d.out))
  /\ \A r \in Range(d.out) : r.rsc = "SUCCESS" => ValidFrame(r.raw, GwAccepts)

\* A round that yields a frame has looked at all of it.
LEMMA RoundSound ==
  ASSUME NEW S, NEW d, Holding(d, S), GwSound(d)
  PROVE  GwSound(Round(d))
<1>1. PICK b : b = d.buf
  OBVIOUS
<1>2. b \in Seq(S) /\ d = [buf |-> b, resync |-> d.resync, out |-> d.out]
  BY <1>1 DEF Holding
<1>3. ASSUME NEW e, e.out = d.out PROVE GwSound(e)
  BY <1>3 DEF GwSound
<1>4. CASE Len(b) < HeaderBytes
  BY <1>1, <1>4 DEF Round
<1>5. CASE ~(Len(b) < HeaderBytes) /\ d.resync /\ ~GwCandidate(b)
  <2>1. Round(d) = [d EXCEPT !.buf = Tail(@)]
    BY <1>1, <1>5 DEF Round
  <2>2. Round(d).out = d.out
    BY <1>2, <2>1
  <2> QED
    BY <1>3, <2>2
<1>6. CASE ~(Len(b) < HeaderBytes) /\ ~(d.resync /\ ~GwCandidate(b)) /\ GwVerdict(b) = "INCOMPLETE"
  <2>1. Round(d) = [d EXCEPT !.resync = FALSE]
    BY <1>1, <1>6 DEF Round, Kept
  <2>2. Round(d).out = d.out
    BY <1>2, <2>1
  <2> QED
    BY <1>3, <2>2
<1>7. CASE ~(Len(b) < HeaderBytes) /\ ~(d.resync /\ ~GwCandidate(b)) /\ GwVerdict(b) # "INCOMPLETE"
  <2>1. PICK v, r, o : /\ v = GwVerdict(b) /\ r = [raw |-> Raw(b, v), rsc |-> v]
                       /\ o = Append(d.out, r)
    OBVIOUS
  <2>2. Round(d).out = o
    BY <1>1, <1>7, <2>1 DEF Round
  <2>3. r.rsc = "SUCCESS" => ValidFrame(r.raw, GwAccepts)
    <3> SUFFICES ASSUME v = "SUCCESS" PROVE ValidFrame(r.raw, GwAccepts)
      BY <2>1
    <3>1. HeaderVerdict(b, GwAccepts) = "SUCCESS" /\ ~(Len(b) < Total(b))
          /\ Clean(SubSeq(b, HeaderBytes + 1, Total(b)))
      BY <2>1 DEF GwVerdict
    <3>2. PICK t \in Nat : t = Total(b) /\ 3 <= t
      <4>1. Resolves(b)
        BY <3>1, AcceptedLooks
      <4> QED
        BY <4>1, TotalIsNumber DEF HeaderBytes
    <3>3. t <= Len(b) /\ Len(b) \in Nat
      BY <1>2, <3>1, <3>2
    <3>4. PICK f : f = SubSeq(b, 1, t)
      OBVIOUS
    <3>5. r.raw = f
      BY <2>1, <3>2, <3>4 DEF Raw
    <3>6. Len(f) = t /\ \A k \in 1..t : f[k] = b[k]
      <4>1. SubSeq(b, 0 + 1, 0 + t) = [k \in 1..t |-> b[0 + k]]
        BY SliceOf
      <4>2. f = [k \in 1..t |-> b[k]]
        BY <3>4, <4>1
      <4> QED
        BY <4>2
    <3>7. f[1] = b[1] /\ f[2] = b[2] /\ f[3] = b[3]
      <4>1. 1 \in 1..t /\ 2 \in 1..t /\ 3 \in 1..t
        BY <3>2
      <4> QED
        BY <3>6, <4>1
    <3>8. HeaderVerdict(f, GwAccepts) = HeaderVerdict(b, GwAccepts) /\ Total(f) = Total(b)
      BY <3>7, SameHeader
    <3>9. Clean(SubSeq(f, HeaderBytes + 1, t))
      <4>1. PICK w \in Nat : t = 3 + w
        <5>1. t - 3 \in Nat /\ t = 3 + (t - 3)
          BY <3>2
        <5> QED
          BY <5>1
      <4>2. Clean(SubSeq(b, 3 + 1, 3 + w))
        BY <3>1, <3>2, <4>1 DEF HeaderBytes
      <4>3. \A k \in 1..w : b[3 + k].sym # Bad
        BY <4>2, CleanSlice
      <4>4. \A k \in 1..w : f[3 + k] = b[3 + k]
        BY <3>6, <4>1
      <4>5. \A k \in 1..w : f[3 + k].sym # Bad
        BY <4>3, <4>4
      <4>6. Clean(SubSeq(f, 3 + 1, 3 + w))
        BY <4>5, CleanSlice
      <4> QED
        BY <4>1, <4>6 DEF HeaderBytes
    <3> QED
      BY <3>1, <3>2, <3>5, <3>6, <3>8, <3>9 DEF ValidFrame
  <2>4. o \in Seq(Range(o)) /\ Range(o) = Range(d.out) \cup {r}
    BY <2>1, OwnElements DEF GwSound
  <2> QED
    BY <2>2, <2>3, <2>4 DEF GwSound
<1> QED
  BY <1>4, <1>5, <1>6, <1>7

\* So has every round of a call.
LEMMA ExtractSound ==
  ASSUME NEW S, NEW d, Holding(d, S), GwSound(d)
  PROVE  GwSound(Extract(d))
<1>0. PICK N \in Nat : N = Len(d.buf)
  BY ExtractRuns
<1>1. PICK g : Runs(g, d, N) /\ Extract(d) = g[N]
  BY <1>0, ExtractRuns
<1>2. g[0] = d /\ \A n \in Nat : n + 1 <= N => g[n + 1] = Round(g[n])
  BY <1>1, RunSteps
<1> DEFINE Ok(e) == Holding(e, S) /\ GwSound(e)
           T == { n \in Nat : n <= N => Ok(g[n]) }
<1>3. 0 \in T
  BY <1>2
<1>4. ASSUME NEW n \in Nat, n \in T PROVE n + 1 \in T
  <2>1. CASE n + 1 <= N
    <3>1. n <= N
      BY <2>1
    <3>2. Ok(g[n])
      BY <1>4, <3>1
    <3>3. g[n + 1] = Round(g[n])
      BY <1>2, <2>1
    <3>4. Ok(Round(g[n]))
      BY <3>2, RoundHolds, RoundSound
    <3> HIDE DEF Ok
    <3> QED
      BY <3>3, <3>4
  <2>2. CASE ~(n + 1 <= N)
    BY <2>2
  <2> QED
    BY <2>1, <2>2
<1>5. Nat \subseteq T
  <2> HIDE DEF T
  <2> QED
    BY <1>3, <1>4, Induction
<1>6. Ok(g[N])
  <2> HIDE DEF Ok
  <2> QED
    BY <1>5
<1> QED
  BY <1>1, <1>6

\* What it yields of a line.
LEMMA LineSound ==
  ASSUME NEW S, NEW L \in Seq(S),
         NEW e, e = Extract([buf |-> SubSeq(L, 1, Len(L)), resync |-> FALSE, out |-> << >>])
  PROVE  GwSound(e)
<1>1. PICK d : d = [buf |-> SubSeq(L, 1, Len(L)), resync |-> FALSE, out |-> << >>]
  OBVIOUS
<1>2. d.buf \in Seq(S) /\ d.resync = FALSE /\ d.out = << >>
  BY <1>1
<1>3. Holding(d, S)
  BY <1>1, <1>2 DEF Holding
<1>4. << >> \in Seq(Range(<< >>)) /\ Range(<< >>) = {}
  BY DEF Range
<1>5. GwSound(d)
  BY <1>2, <1>4 DEF GwSound
<1> QED
  BY <1>1, <1>3, <1>5, ExtractSound

-----------------------------------------------------------------------------
(* The frames that came.                                                   *)

\* A frame that came undamaged is on the line from s on.
LEMMA FrameCame ==
  ASSUME CourseInv, NEW i \in Arrived, i \notin damaged
  PROVE  \E s \in Nat :
           /\ Start(i) = s + 1 /\ i \in 1..Len(sent) /\ s + Len(sent[i]) <= Len(line)
           /\ s + 1 <= Len(Course) /\ Course[s + 1] = Letter(sent, i, 1)
<1>1. PICK X, frames : X = Course /\ frames = sent
  OBVIOUS
<1>2. PICK n \in Nat, m \in Nat : n = Len(line) /\ m = Len(frames) /\ line \in Seq(Range(line))
  BY <1>1 DEF CourseInv, Sending
<1>3. frames \in Seq(Sendable) /\ i \in 1..m /\ (i < m \/ AllSent)
  BY <1>1, <1>2 DEF CourseInv, Sending, Arrived
<1>4. Len(X) \in Nat /\ n <= Len(X) /\ (\A k \in 1..n : X[k] = line[k]) /\ (AllSent => Len(X) = n)
  BY <1>1, <1>2, CourseShows
<1>5. PICK s \in Nat :
        /\ s + Len(frames[i]) <= Len(X) /\ \A j \in 1..Len(frames[i]) : X[s + j] = Letter(frames, i, j)
        /\ \A k \in 1..s : X[k].frame # i
  BY <1>1, <1>2, <1>3 DEF CourseInv, Placed
<1>6. PICK l \in Nat : l = Len(frames[i]) /\ 3 <= l
  BY <1>2, <1>3, SentFrame
<1>7. s + l <= n
  <2>1. CASE AllSent
    BY <1>4, <1>5, <1>6, <2>1
  <2>2. CASE i < m
    <3>1. PICK c \in Nat : IsCourse(X, frames, pos, line, c)
      <4>1. frames \in Seq(Sendable) /\ pos \in Nat /\ (frames # << >> => pos <= Len(Last(frames)))
            /\ line \in Seq(Range(line)) /\ X = CourseOf(frames, pos, line)
        BY <1>1 DEF CourseInv, Sending, Course
      <4> QED
        BY <4>1, CourseIs
    <3>2. Len(X) = n + c /\ \A k \in 1..c : X[n + k] = Letter(frames, m, pos + k)
      BY <1>2, <3>1 DEF IsCourse
    <3>3. SUFFICES ASSUME ~(s + l <= n) PROVE FALSE
      OBVIOUS
    <3>4. (s + l) - n \in 1..c /\ n + ((s + l) - n) = s + l /\ l \in 1..l
      BY <1>5, <1>6, <3>2, <3>3
    <3>5. PICK k \in 1..c : n + k = s + l
      BY <3>4
    <3>6. X[s + l] = Letter(frames, m, pos + k)
      BY <3>2, <3>5
    <3>7. X[s + l] = Letter(frames, i, l)
      BY <1>5, <1>6, <3>4
    <3>8. m = i
      BY <3>6, <3>7 DEF Letter
    <3> QED
      BY <1>3, <2>2, <3>8
  <2> QED
    BY <1>3, <2>1, <2>2
<1>8. X[s + 1] = Letter(frames, i, 1)
  <2>1. 1 \in 1..l
    BY <1>6
  <2> QED
    BY <1>5, <1>6, <2>1
<1>9. s + 1 \in 1..n
  BY <1>6, <1>7
<1>10. line[s + 1].frame = i /\ \A j \in 1..s : line[j].frame # i
  <2>1. X[s + 1].frame = i
    BY <1>8 DEF Letter
  <2>2. \A j \in 1..s : j \in 1..n
    BY <1>9
  <2> QED
    BY <1>4, <1>5, <1>9, <2>1, <2>2
<1>11. Start(i) = s + 1
  <2> DEFINE First(k) == line[k].frame = i /\ \A j \in 1..(k - 1) : line[j].frame # i
  <2>1. First(s + 1)
    <3>1. (s + 1) - 1 = s
      OBVIOUS
    <3> QED
      BY <1>10, <3>1
  <2>2. ASSUME NEW k \in 1..n, First(k) PROVE k = s + 1
    <3>1. CASE k < s + 1
      <4>1. k \in 1..s
        BY <3>1
      <4> QED
        BY <1>10, <2>2, <4>1
    <3>2. CASE s + 1 < k
      <4>1. s + 1 \in 1..(k - 1)
        BY <3>2
      <4> QED
        BY <1>10, <2>2, <4>1
    <3> QED
      BY <3>1, <3>2
  <2>3. Start(i) = CHOOSE k \in 1..n : First(k)
    BY <1>2 DEF Start
  <2> HIDE DEF First
  <2> QED
    BY <1>9, <2>1, <2>2, <2>3
<1>12. s + 1 <= Len(X)
  BY <1>4, <1>9
<1> QED
  BY <1>1, <1>2, <1>3, <1>6, <1>7, <1>8, <1>11, <1>12

\* Both decoders deliver a valid frame that is far enough behind the damage.
LEMMA BothDeliver ==
  ASSUME NodeInv, ChunksDoNotMatter, WellFormed, NEW base, NEW far, Readable(base, far),
         NEW i \in Arrived, i \notin damaged, Start(i) - 1 >= far
  PROVE  /\ fed = Len(line) /\ Valid(i, GwAccepts) => Delivered(gwOut, i)
         /\ Valid(i, NdAccepts) => Delivered(ndOut, i)
<1>1. PICK X, h, frames, S : X = Course /\ h = hurt /\ frames = sent /\ S = Range(Course)
  OBVIOUS
<1>2. OnLine(S, line, X, h, frames, base, far)
  BY <1>1, LineKnown DEF NodeInv
<1>3. PICK s \in Nat :
        /\ Start(i) = s + 1 /\ i \in 1..Len(frames) /\ s + Len(frames[i]) <= Len(line)
        /\ s + 1 <= Len(X) /\ X[s + 1] = Letter(frames, i, 1)
  BY <1>1, FrameCame DEF NodeInv
<1>4. X[s + 1].frame = i /\ X[s + 1].at = 1
  BY <1>3 DEF Letter
<1>5. s >= far /\ h <= s /\ h \in Nat
  <2>1. h \in Nat
    BY <1>2 DEF OnLine
  <2>2. (s + 1) - 1 = s
    OBVIOUS
  <2>3. s >= far
    BY <1>3, <2>2
  <2>4. CASE Undamaged(X, h, base, far)
    BY <2>3, <2>4 DEF Undamaged
  <2>5. CASE DamageOver(h, base, far)
    <3>1. PICK top \in Nat : top = MaxTotal
      BY LongestFrame
    <3>2. far = h + top + 2
      BY <2>1, <2>5, <3>1 DEF DamageOver
    <3> QED
      BY <2>1, <2>3, <3>2
  <2> QED
    BY <1>2, <2>1, <2>3, <2>4, <2>5 DEF OnLine
<1>6. s \in StartsOf(X, h) /\ s # Len(X)
  <2>1. Len(X) \in Nat
    BY <1>2 DEF OnLine
  <2>2. s \in h..Len(X) /\ s # Len(X)
    BY <1>3, <1>5, <2>1
  <2> QED
    BY <1>4, <2>2 DEF StartsOf
<1>7. WholeOf(frames, i) = Whole(i)
  BY <1>1 DEF WholeOf, Whole, Letter
<1>8. s + Len(FrameAt(X, frames, s)) <= Len(line)
  BY <1>3, <1>4 DEF FrameAt
<1>9. ASSUME fed = Len(line), Valid(i, GwAccepts) PROVE Delivered(gwOut, i)
  <2>1. s \in GwGood(X, h, frames)
    BY <1>4, <1>6, <1>7, <1>9 DEF GwGood, Valid
  <2>2. PICK e : e = Extract([buf |-> SubSeq(line, 1, Len(line)), resync |-> FALSE, out |-> << >>])
    OBVIOUS
  <2>3. [raw |-> WholeOf(frames, X[s + 1].frame), rsc |-> "SUCCESS"] \in Range(e.out)
    BY <1>2, <1>5, <1>8, <2>1, <2>2, GatewayDelivers
  <2>4. gwOut = e.out
    BY <1>9, <2>2 DEF ChunksDoNotMatter
  <2> QED
    BY <1>4, <1>7, <2>3, <2>4 DEF Delivered
<1>10. ASSUME Valid(i, NdAccepts) PROVE Delivered(ndOut, i)
  <2>1. s \in NdGood(X, h, frames)
    BY <1>4, <1>6, <1>7, <1>10 DEF NdGood, Valid
  <2>2. PICK q : /\ NodeAt(nd, q, line)
                 /\ Reading(NdMap(X, h, frames, base, far), Len(line), q, nd.resync,
                            DeliveredAt(ndOut, X, h, frames))
    BY <1>1 DEF NodeInv, NodeReads
  <2>3. NodeHolds(nd)
    BY DEF NodeInv
  <2>4. s \in DeliveredAt(ndOut, X, h, frames)
    BY <1>2, <1>5, <1>8, <2>1, <2>2, <2>3, AllDelivered
  <2> QED
    BY <1>4, <1>7, <2>4 DEF DeliveredAt, Delivered
<1> QED
  BY <1>9, <1>10

\* The other direction holds on any line.
LEMMA NoOtherFrame ==
  ASSUME NodeInv, ChunksDoNotMatter, NEW i
  PROVE  /\ fed = Len(line) /\ Delivered(gwOut, i) => Valid(i, GwAccepts)
         /\ Delivered(ndOut, i) => Valid(i, NdAccepts)
<1>1. PICK r : r = [raw |-> Whole(i), rsc |-> "SUCCESS"]
  OBVIOUS
<1>2. r.rsc = "SUCCESS" /\ r.raw = Whole(i)
  BY <1>1
<1>3. ASSUME fed = Len(line), Delivered(gwOut, i) PROVE Valid(i, GwAccepts)
  <2>1. PICK e : e = Extract([buf |-> SubSeq(line, 1, Len(line)), resync |-> FALSE, out |-> << >>])
    OBVIOUS
  <2>2. PICK S : S = Range(line)
    OBVIOUS
  <2>3. line \in Seq(S)
    BY <2>2 DEF NodeInv, CourseInv, Sending
  <2>4. GwSound(e)
    BY <2>1, <2>3, LineSound
  <2>5. gwOut = e.out
    BY <1>3, <2>1 DEF ChunksDoNotMatter
  <2>6. r \in Range(e.out)
    BY <1>1, <1>3, <2>5 DEF Delivered
  <2> QED
    BY <1>2, <2>4, <2>6 DEF GwSound, Valid
<1>4. ASSUME Delivered(ndOut, i) PROVE Valid(i, NdAccepts)
  <2>1. r \in Range(ndOut) /\ SoundFrames(ndOut)
    BY <1>1, <1>4 DEF Delivered, NodeInv
  <2> QED
    BY <1>2, <2>1 DEF SoundFrames, Valid
<1> QED
  BY <1>3, <1>4

\* Without damage the whole line can be read.
LEMMA CleanHolds ==
  ASSUME NodeInv, ChunksDoNotMatter, WellFormed, ViolationsQuiet
  PROVE  CleanLineDelivers
<1> SUFFICES ASSUME damaged = {}, NEW i \in Arrived
             PROVE  /\ fed = Len(line) => (Delivered(gwOut, i) <=> Valid(i, GwAccepts))
                    /\ Delivered(ndOut, i) <=> Valid(i, NdAccepts)
  BY DEF CleanLineDelivers
<1>1. CourseInv
  BY DEF NodeInv
<1>2. PICK z \in Nat : z = 0
  OBVIOUS
<1>3. Readable(z, z)
  BY <1>1, <1>2, CleanReadable
<1>4. Start(i) - 1 >= z
  <2>1. PICK s \in Nat : Start(i) = s + 1
    BY <1>1, FrameCame
  <2> QED
    BY <1>2, <2>1
<1>5. /\ fed = Len(line) /\ Valid(i, GwAccepts) => Delivered(gwOut, i)
      /\ Valid(i, NdAccepts) => Delivered(ndOut, i)
  BY <1>3, <1>4, BothDeliver
<1> QED
  BY <1>5, NoOtherFrame

\* Damage is over a longest frame and a header behind its last byte.
LEMMA RecoveryHolds ==
  ASSUME NodeInv, ChunksDoNotMatter, WellFormed, AllQuiet
  PROVE  Recovers
<1> SUFFICES ASSUME NEW i \in Arrived \ damaged, Start(i) - hurt >= MaxTotal + HeaderBytes
             PROVE  /\ fed = Len(line) /\ Valid(i, GwAccepts) => Delivered(gwOut, i)
                    /\ Valid(i, NdAccepts) => Delivered(ndOut, i)
  BY DEF Recovers
<1>1. CourseInv
  BY DEF NodeInv
<1>2. PICK h \in Nat, top \in Nat : h = hurt /\ top = MaxTotal
  BY <1>1, LongestFrame DEF CourseInv, Sending
<1>3. PICK base, far : base = hurt + MaxTotal /\ far = base + 2
  OBVIOUS
<1>4. Readable(base, far)
  BY <1>3 DEF Readable, DamageOver
<1>5. Start(i) - 1 >= far
  <2>1. PICK s \in Nat : Start(i) = s + 1
    BY <1>1, FrameCame
  <2>2. (s + 1) - h >= top + 3
    BY <1>2, <2>1 DEF HeaderBytes
  <2>3. far = h + top + 2
    BY <1>2, <1>3
  <2>4. Start(i) - 1 = s
    BY <2>1
  <2> QED
    BY <1>2, <2>2, <2>3, <2>4
<1> QED
  BY <1>4, <1>5, BothDeliver

\* On a line without damage both decoders deliver every valid frame and no other, for
\* frames of which a header that is accepted announces the payload that is there, and of
\* which only those that are valid may spell a header elsewhere than at their beginning.
THEOREM CleanLinesDeliver ==
  ASSUME WellFormed, ViolationsQuiet
  PROVE  Spec => []CleanLineDelivers
<1>1. Init => NodeInv /\ ChunksInv
  BY NodeInvInit, ChunksInit
<1>2. NodeInv /\ ChunksInv /\ [Next]_vars => (NodeInv /\ ChunksInv)'
  BY NodeInvNext, ChunksStep
<1>3. NodeInv /\ ChunksInv => CleanLineDelivers
  BY CleanHolds DEF ChunksInv
<1> QED
  BY <1>1, <1>2, <1>3, PTL DEF Spec

\* Damage costs a bounded stretch, where no frame spells a header elsewhere than at its
\* beginning: every valid frame that begins MaxTotal + HeaderBytes behind the last byte
\* lost or garbled and is not itself damaged is delivered, by both decoders.
THEOREM DamageEnds ==
  ASSUME WellFormed, AllQuiet
  PROVE  Spec => []Recovers
<1>1. Init => NodeInv /\ ChunksInv
  BY NodeInvInit, ChunksInit
<1>2. NodeInv /\ ChunksInv /\ [Next]_vars => (NodeInv /\ ChunksInv)'
  BY NodeInvNext, ChunksStep
<1>3. NodeInv /\ ChunksInv => Recovers
  BY RecoveryHolds DEF ChunksInv
<1> QED
  BY <1>1, <1>2, <1>3, PTL DEF Spec
=============================================================================
