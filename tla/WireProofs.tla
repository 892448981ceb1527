---------------------------- MODULE WireProofs ------------------------------
(***************************************************************************)
(* What a program writes is what the others read, whatever the frames are: *)
(* for all numbers in all fields, as many elements as may be, and every    *)
(* length.                                                                 *)
(*                                                                         *)
(* A number is found again in its bits and a record in its layout, by      *)
(* induction over bits, fields and elements; the parts of a body lie where *)
(* the decoders look for them; code and length give back the kind.  Then   *)
(* the gateway's decoder and the node's say the same of the same bits, and *)
(* take what the encoders send.                                            *)
(***************************************************************************)
EXTENDS Wire, SequenceLemmas

-----------------------------------------------------------------------------
(* Codes.                                                                  *)

\* The place of a name is where it stands.
LEMMA PlaceOfOperation ==
  ASSUME NEW op \in Range(Operations)
  PROVE  /\ Place(Operations, op) \in 1..14
         /\ Operations[Place(Operations, op)] = op
<1>1. DOMAIN Operations = 1..14
  BY DEF Operations
<1>2. PICK i \in DOMAIN Operations : Operations[i] = op
  BY DEF Range
<1> QED
  BY <1>1, <1>2 DEF Place

\* The same of the notices.
LEMMA PlaceOfNotice ==
  ASSUME NEW notice \in Range(Notices)
  PROVE  /\ Place(Notices, notice) \in 1..5
         /\ Notices[Place(Notices, notice)] = notice
<1>1. DOMAIN Notices = 1..5
  BY DEF Notices
<1>2. PICK i \in DOMAIN Notices : Notices[i] = notice
  BY DEF Range
<1> QED
  BY <1>1, <1>2 DEF Place

\* Each class of messages has a range of codes of its own.
LEMMA CodeOfRequest ==
  ASSUME NEW op \in Range(Operations), NEW mode \in Modes
  PROVE  /\ WIRE_CODE(<<"REQ", op>>, mode) = Place(Operations, op) - 1
         /\ WIRE_CODE(<<"REQ", op>>, mode) \in 0..13
BY PlaceOfOperation DEF WIRE_CODE

LEMMA CodeOfResponse ==
  ASSUME NEW op \in Range(Operations), NEW mode \in Modes
  PROVE  /\ WIRE_CODE(<<"RES", op>>, mode) = 1023 + Place(Operations, op)
         /\ WIRE_CODE(<<"RES", op>>, mode) \in 1024..1037
BY PlaceOfOperation DEF WIRE_CODE

LEMMA CodeOfNotice ==
  ASSUME NEW notice \in Range(Notices), NEW mode \in Modes
  PROVE  /\ WIRE_CODE(<<"NOTI", notice>>, mode) = NotiCode(notice, mode)
         /\ NotiCode(notice, mode) \in 2048..2052
BY PlaceOfNotice DEF WIRE_CODE, NotiCode

LEMMA CodeOfAck ==
  ASSUME NEW mode \in Modes
  PROVE  WIRE_CODE(Ack, mode) = 3072
BY DEF WIRE_CODE, Ack

\* The two notices that the standard gives one code.
Twins == { <<"NOTI", "ERROR">>, <<"NOTI", "DEVICE_VALUE">> }

\* Two notices with one code are the same, or the twins.
LEMMA NoticesApart ==
  ASSUME NEW a \in Range(Notices), NEW b \in Range(Notices), NEW mode \in Modes,
         NotiCode(a, mode) = NotiCode(b, mode)
  PROVE  a = b \/ (a \in {"ERROR", "DEVICE_VALUE"} /\ b \in {"ERROR", "DEVICE_VALUE"})
<1> DEFINE i == Place(Notices, a)
           j == Place(Notices, b)
<1>1. i \in 1..5 /\ j \in 1..5 /\ Notices[i] = a /\ Notices[j] = b
  BY PlaceOfNotice
<1>2. i = j \/ (i \in {1, 2} /\ j \in {1, 2})
  <2> DEFINE Coded(p) == IF mode = "strict" /\ p > 1 THEN 2048 + p - 2 ELSE 2048 + p - 1
  <2>1. NotiCode(a, mode) = Coded(i)
    BY DEF NotiCode
  <2>2. NotiCode(b, mode) = Coded(j)
    BY DEF NotiCode
  <2>3. Coded(i) = Coded(j)
    <3> HIDE DEF i, j, Coded
    <3> QED
      BY <2>1, <2>2, Zenon
  <2> HIDE DEF i, j
  <2> QED
    BY <1>1, <2>3
<1>3. Notices[1] = "ERROR" /\ Notices[2] = "DEVICE_VALUE"
  BY DEF Notices
<1> HIDE DEF i, j
<1> QED
  BY <1>1, <1>2, <1>3

\* Every kind is a request, a response, a notice or the ACK, and its code tells which.
LEMMA CodeOfKind ==
  ASSUME NEW k \in MsgKind, NEW mode \in Modes
  PROVE  \/ \E op \in Range(Operations) :
              k = <<"REQ", op>> /\ WIRE_CODE(k, mode) = Place(Operations, op) - 1
         \/ \E op \in Range(Operations) :
              k = <<"RES", op>> /\ WIRE_CODE(k, mode) = 1023 + Place(Operations, op)
         \/ \E notice \in Range(Notices) :
              k = <<"NOTI", notice>> /\ WIRE_CODE(k, mode) = NotiCode(notice, mode)
         \/ k = Ack /\ WIRE_CODE(k, mode) = 3072
BY CodeOfRequest, CodeOfResponse, CodeOfNotice, CodeOfAck DEF MsgKind

\* Two operations at one place are the same.
LEMMA OperationsApart ==
  ASSUME NEW a \in Range(Operations), NEW b \in Range(Operations),
         Place(Operations, a) = Place(Operations, b)
  PROVE  a = b
BY PlaceOfOperation

\* Two kinds with one code are the same, or the twins.
LEMMA CodesApart ==
  ASSUME NEW k \in MsgKind, NEW l \in MsgKind, NEW mode \in Modes,
         WIRE_CODE(k, mode) = WIRE_CODE(l, mode)
  PROVE  k = l \/ (k \in Twins /\ l \in Twins)
<1> DEFINE IsReq(m, op) == m = <<"REQ", op>> /\ WIRE_CODE(m, mode) = Place(Operations, op) - 1
           IsRes(m, op) == m = <<"RES", op>> /\ WIRE_CODE(m, mode) = 1023 + Place(Operations, op)
           IsNoti(m, n) == m = <<"NOTI", n>> /\ WIRE_CODE(m, mode) = NotiCode(n, mode)
           IsAck(m)     == m = Ack /\ WIRE_CODE(m, mode) = 3072
           InReq(m)  == \E op \in Range(Operations) : IsReq(m, op)
           InRes(m)  == \E op \in Range(Operations) : IsRes(m, op)
           InNoti(m) == \E n \in Range(Notices) : IsNoti(m, n)
<1>1. ASSUME NEW m \in MsgKind PROVE InReq(m) \/ InRes(m) \/ InNoti(m) \/ IsAck(m)
  BY CodeOfKind
<1>2. ASSUME NEW m \in MsgKind
      PROVE  /\ InReq(m)  => WIRE_CODE(m, mode) \in 0..13
             /\ InRes(m)  => WIRE_CODE(m, mode) \in 1024..1037
             /\ InNoti(m) => WIRE_CODE(m, mode) \in 2048..2052
  <2>1. InReq(m) => WIRE_CODE(m, mode) \in 0..13
    BY PlaceOfOperation
  <2>2. InRes(m) => WIRE_CODE(m, mode) \in 1024..1037
    BY PlaceOfOperation
  <2>3. InNoti(m) => WIRE_CODE(m, mode) \in 2048..2052
    BY CodeOfNotice
  <2> QED
    BY <2>1, <2>2, <2>3
<1>3. \/ InReq(k) /\ InReq(l)
      \/ InRes(k) /\ InRes(l)
      \/ InNoti(k) /\ InNoti(l)
      \/ IsAck(k) /\ IsAck(l)
  <2> HIDE DEF InReq, InRes, InNoti
  <2> QED
    BY <1>1, <1>2
<1>4. CASE InReq(k) /\ InReq(l)
  <2>1. PICK a \in Range(Operations) : IsReq(k, a)
    BY <1>4
  <2>2. PICK b \in Range(Operations) : IsReq(l, b)
    BY <1>4
  <2>3. Place(Operations, a) = Place(Operations, b)
    <3>1. Place(Operations, a) \in Int /\ Place(Operations, b) \in Int
      BY PlaceOfOperation
    <3>2. Place(Operations, a) - 1 = Place(Operations, b) - 1
      BY <2>1, <2>2, Zenon
    <3> QED
      BY <3>1, <3>2
  <2> QED
    BY <2>1, <2>2, <2>3, OperationsApart
<1>5. CASE InRes(k) /\ InRes(l)
  <2>1. PICK a \in Range(Operations) : IsRes(k, a)
    BY <1>5
  <2>2. PICK b \in Range(Operations) : IsRes(l, b)
    BY <1>5
  <2>3. Place(Operations, a) = Place(Operations, b)
    <3> DEFINE Coded(p) == 1023 + p
    <3>1. Place(Operations, a) \in Int /\ Place(Operations, b) \in Int
      BY PlaceOfOperation
    <3>2. Coded(Place(Operations, a)) = Coded(Place(Operations, b))
      <4>1. WIRE_CODE(k, mode) = Coded(Place(Operations, a)) /\ WIRE_CODE(l, mode) = Coded(Place(Operations, b))
        BY <2>1, <2>2
      <4> HIDE DEF Coded
      <4> QED
        BY <4>1, Zenon
    <3> QED
      BY <3>1, <3>2
  <2> QED
    BY <2>1, <2>2, <2>3, OperationsApart
<1>6. CASE InNoti(k) /\ InNoti(l)
  <2>1. PICK a \in Range(Notices) : IsNoti(k, a)
    BY <1>6
  <2>2. PICK b \in Range(Notices) : IsNoti(l, b)
    BY <1>6
  <2>3. NotiCode(a, mode) = NotiCode(b, mode)
    BY <2>1, <2>2
  <2>4. a = b \/ (a \in {"ERROR", "DEVICE_VALUE"} /\ b \in {"ERROR", "DEVICE_VALUE"})
    BY <2>3, NoticesApart
  <2> QED
    BY <2>1, <2>2, <2>4 DEF Twins
<1>7. CASE IsAck(k) /\ IsAck(l)
  BY <1>7
<1> QED
  BY <1>3, <1>4, <1>5, <1>6, <1>7

-----------------------------------------------------------------------------
(* Lengths.                                                                *)

\* An error has one byte, device values a multiple of seven.
LEMMA LengthsOfTwins ==
  ASSUME NEW len \in Nat
  PROVE  /\ Receivable(<<"NOTI", "ERROR">>, len) => len = 1
         /\ Receivable(<<"NOTI", "DEVICE_VALUE">>, len) => len # 1
<1>1. LayoutOfKind(<<"NOTI", "ERROR">>) = [fixed |-> 1, elem |-> 0]
  BY DEF LayoutOfKind, Req, Res, NEC
<1>2. LayoutOfKind(<<"NOTI", "DEVICE_VALUE">>) = [fixed |-> 0, elem |-> 7]
  BY DEF LayoutOfKind, Req, Res, DMI
<1>3. Receivable(<<"NOTI", "ERROR">>, len) => len = 1
  BY <1>1 DEF Receivable, element_count, NoCount
<1>4. Receivable(<<"NOTI", "DEVICE_VALUE">>, len) => len # 1
  BY <1>2 DEF Receivable, element_count, NoCount
<1> QED
  BY <1>3, <1>4

\* The code and a length it can have determine the kind.
LEMMA KindResolved ==
  ASSUME NEW k \in MsgKind, NEW mode \in Modes, NEW len \in Nat, Receivable(k, len)
  PROVE  ResolveKind(WIRE_CODE(k, mode), len, mode).kind = k
<1> DEFINE code  == WIRE_CODE(k, mode)
           cands == Candidates(code, mode)
           fit   == { l \in cands : Receivable(l, len) }
<1>1. k \in cands
  BY DEF Candidates
<1>2. ASSUME NEW l \in cands, Receivable(l, len)
      PROVE  l = k
  <2>1. l \in MsgKind /\ WIRE_CODE(l, mode) = WIRE_CODE(k, mode)
    BY <1>2 DEF Candidates
  <2>2. l = k \/ (k \in Twins /\ l \in Twins)
    BY <2>1, CodesApart
  <2> QED
    BY <1>2, <2>2, LengthsOfTwins DEF Twins
<1>3. fit = {k}
  BY <1>1, <1>2
<1>4. CASE \E l \in cands : cands = {l}
  <2>1. cands = {k}
    BY <1>1, <1>4
  <2> QED
    BY <2>1 DEF ResolveKind
<1>5. CASE ~ \E l \in cands : cands = {l}
  <2>1. cands # {} /\ fit # {}
    BY <1>1, <1>3
  <2>2. ResolveKind(code, len, mode).kind = CHOOSE l \in fit : TRUE
    BY <1>5, <2>1 DEF ResolveKind
  <2> QED
    BY <1>3, <2>2
<1> QED
  BY <1>4, <1>5

-----------------------------------------------------------------------------
(* The numbers that bits make.                                             *)

Bit == {0, 1}

\* What Number's recursive function is: the number that the first bits make.
LEMMA NumberDefined ==
  ASSUME NEW b \in Seq(Bit)
  PROVE  \E v \in [0..Len(b) -> Nat] :
           /\ Number(b) = v[Len(b)]
           /\ v[0] = 0
           /\ \A i \in 1..Len(b) : v[i] = 2 * v[i - 1] + b[i]
<1> DEFINE n == Len(b)
           Upto(v, m) == v \in [0..m -> Nat] /\ v[0] = 0 /\ \A i \in 1..m : v[i] = 2 * v[i - 1] + b[i]
           Has(m) == m <= n => \E v : Upto(v, m)
           All == { m \in Nat : Has(m) }
           Val(v, i) == IF i = 0 THEN 0 ELSE 2 * v[i - 1] + b[i]
           Is(v) == v = [i \in 0..n |-> Val(v, i)]
           value == CHOOSE v : Is(v)
<1>0. n \in Nat /\ \A i \in 1..n : b[i] \in Nat
  BY DEF Bit
<1> HIDE DEF n
<1>1. Has(0)
  <2> DEFINE v == [i \in 0..0 |-> 0]
  <2>1. Upto(v, 0)
    OBVIOUS
  <2> QED
    BY <2>1
<1>2. ASSUME NEW m \in Nat, Has(m) PROVE Has(m + 1)
  <2> SUFFICES ASSUME m + 1 <= n PROVE \E v : Upto(v, m + 1)
    OBVIOUS
  <2>0. m <= n
    BY <1>0
  <2>1. PICK v : Upto(v, m)
    BY <1>2, <2>0
  <2> DEFINE h == [i \in 0..m + 1 |-> IF i <= m THEN v[i] ELSE 2 * v[m] + b[m + 1]]
  <2>2. 2 * v[m] + b[m + 1] \in Nat
    BY <1>0, <2>1
  <2>3. h \in [0..m + 1 -> Nat] /\ h[0] = 0 /\ h[m + 1] = 2 * v[m] + b[m + 1]
    BY <2>1, <2>2
  <2>4. \A i \in 0..m : h[i] = v[i]
    OBVIOUS
  <2>5. ASSUME NEW i \in 1..m + 1 PROVE h[i] = 2 * h[i - 1] + b[i]
    <3> HIDE DEF h
    <3>1. CASE i = m + 1
      BY <2>3, <2>4, <3>1
    <3>2. CASE i \in 1..m
      <4>1. i \in 0..m /\ i - 1 \in 0..m
        BY <3>2
      <4>2. h[i] = v[i] /\ h[i - 1] = v[i - 1]
        BY <2>4, <4>1
      <4>3. v[i] = 2 * v[i - 1] + b[i]
        BY <2>1, <3>2
      <4> QED
        BY <4>2, <4>3
    <3> QED
      BY <3>1, <3>2
  <2>6. Upto(h, m + 1)
    <3> HIDE DEF h
    <3> QED
      BY <2>3, <2>5
  <2> HIDE DEF h, Upto
  <2> QED
    BY <2>6
<1>3. Has(n)
  <2> HIDE DEF Has
  <2>1. Nat \subseteq All
    <3>1. 0 \in All
      BY <1>1
    <3>2. \A m \in Nat : m \in All => m + 1 \in All
      BY <1>2
    <3> HIDE DEF All
    <3> QED
      BY <3>1, <3>2, Induction
  <2> QED
    BY <1>0, <2>1
<1>4. PICK v : Upto(v, n)
  <2> HIDE DEF Upto
  <2> QED
    BY <1>0, <1>3
<1>5. Is(v)
  <2>1. ASSUME NEW i \in 0..n PROVE v[i] = Val(v, i)
    BY <1>0, <1>4
  <2> HIDE DEF Val
  <2> QED
    BY <1>4, <2>1
<1>6. Is(value)
  <2> HIDE DEF Is
  <2> QED
    BY <1>5
<1>7. Number(b) = value[n]
  BY DEF Number, n
<1> HIDE DEF value
<1>8. value = [i \in 0..n |-> value[i]] /\ \A i \in 0..n : value[i] = Val(value, i)
  <2> HIDE DEF Val
  <2> QED
    BY <1>6
<1>9. value[0] = 0 /\ \A i \in 1..n : value[i] = 2 * value[i - 1] + b[i]
  <2>1. 0 \in 0..n /\ \A i \in 1..n : i \in 0..n /\ i # 0
    BY <1>0
  <2>2. value[0] = Val(value, 0) /\ \A i \in 1..n : value[i] = Val(value, i)
    <3> HIDE DEF Val
    <3> QED
      BY <1>8, <2>1
  <2> QED
    BY <2>1, <2>2
<1>10. \A i \in 0..n : value[i] \in Nat
  <2> DEFINE Good == { i \in Nat : i \in 0..n => value[i] \in Nat }
  <2>1. 0 \in Good
    BY <1>9
  <2>2. ASSUME NEW i \in Nat, i \in Good PROVE i + 1 \in Good
    <3> SUFFICES ASSUME i + 1 \in 1..n PROVE value[i + 1] \in Nat
      OBVIOUS
    <3>1. value[i] \in Nat /\ b[i + 1] \in Nat
      BY <1>0, <2>2
    <3>2. value[i + 1] = 2 * value[i] + b[i + 1]
      <4>1. (i + 1) - 1 = i
        OBVIOUS
      <4> QED
        BY <1>9, <4>1
    <3> QED
      BY <3>1, <3>2
  <2>3. Nat \subseteq Good
    <3> HIDE DEF Good
    <3> QED
      BY <2>1, <2>2, Induction
  <2> QED
    BY <1>0, <2>3
<1>11. value \in [0..n -> Nat]
  BY <1>8, <1>10
<1> QED
  BY <1>7, <1>9, <1>11 DEF n

\* Powers of two, as far as there are widths.
LEMMA Doubled ==
  ASSUME NEW k \in 0..19
  PROVE  2^k \in Nat /\ 2^k > 0 /\ 2^(k + 1) = 2 * 2^k
<1>1. CASE k = 0
  BY <1>1
<1>2. CASE k = 1
  BY <1>2
<1>3. CASE k = 2
  BY <1>3
<1>4. CASE k = 3
  BY <1>4
<1>5. CASE k = 4
  BY <1>5
<1>6. CASE k = 5
  BY <1>6
<1>7. CASE k = 6
  BY <1>7
<1>8. CASE k = 7
  BY <1>8
<1>9. CASE k = 8
  BY <1>9
<1>10. CASE k = 9
  BY <1>10
<1>11. CASE k = 10
  BY <1>11
<1>12. CASE k = 11
  BY <1>12
<1>13. CASE k = 12
  BY <1>13
<1>14. CASE k = 13
  BY <1>14
<1>15. CASE k = 14
  BY <1>15
<1>16. CASE k = 15
  BY <1>16
<1>17. CASE k = 16
  BY <1>17
<1>18. CASE k = 17
  BY <1>18
<1>19. CASE k = 18
  BY <1>19
<1>20. CASE k = 19
  BY <1>20
<1> QED
  BY <1>1, <1>2, <1>3, <1>4, <1>5, <1>6, <1>7, <1>8, <1>9, <1>10, <1>11, <1>12, <1>13,
     <1>14, <1>15, <1>16, <1>17, <1>18, <1>19, <1>20

\* Powers of two, as far as fields are wide.
LEMMA Powers == \A w \in 0..20 : 2^w \in Nat /\ 2^w > 0
<1>1. ASSUME NEW w \in 0..20 PROVE 2^w \in Nat /\ 2^w > 0
  <2>1. CASE w \in 0..19
    BY <2>1, Doubled
  <2>2. CASE w = 20
    BY <2>2
  <2> QED
    BY <2>1, <2>2
<1> QED
  BY <1>1

\* A number is twice its half, and the rest.
LEMMA HalfAndRest ==
  ASSUME NEW x \in Nat
  PROVE  x = 2 * (x \div 2) + (x % 2)
OBVIOUS

\* Half of a quotient is the quotient by twice the number.
LEMMA Halved ==
  ASSUME NEW v \in Nat, NEW p \in Nat, p > 0
  PROVE  v \div p \in Nat /\ v \div (2 * p) = (v \div p) \div 2
<1>1. v \div p \in Nat
  OBVIOUS
<1>2. PICK q \in Nat, r \in 0..(p - 1) : v = p * q + r /\ q = v \div p
  OBVIOUS
<1>3. PICK h \in Nat, e \in {0, 1} : q = 2 * h + e /\ h = q \div 2
  OBVIOUS
<1>4. v = (2 * p) * h + (p * e + r) /\ p * e + r >= 0 /\ p * e + r < 2 * p
  <2>1. CASE e = 0
    BY <1>2, <1>3, <2>1
  <2>2. CASE e = 1
    BY <1>2, <1>3, <2>2
  <2> QED
    BY <2>1, <2>2
<1>5. v \div (2 * p) = h
  BY <1>3, <1>4
<1> QED
  BY <1>1, <1>2, <1>3, <1>5

\* The digits of a number make the number.
LEMMA NumberOfDigits ==
  ASSUME NEW w \in 1..20, NEW v \in 0..(2^w - 1)
  PROVE  Digits(v, w) \in Seq(Bit) /\ Len(Digits(v, w)) = w /\ Number(Digits(v, w)) = v
<1> DEFINE b == Digits(v, w)
           q(i) == v \div 2^(w - i)
<1>0. v \in Nat /\ 2^w \in Nat /\ v < 2^w
  BY Powers
<1>1. \A i \in 0..w : 2^(w - i) \in Nat /\ 2^(w - i) > 0 /\ q(i) \in Nat
  <2>1. \A i \in 0..w : w - i \in 0..20
    OBVIOUS
  <2>2. \A i \in 0..w : 2^(w - i) \in Nat /\ 2^(w - i) > 0
    BY <2>1, Powers
  <2> QED
    BY <1>0, <2>2, Halved
<1>2. \A i \in 1..w : b[i] = q(i) % 2 /\ b[i] \in Bit
  <2>1. \A i \in 1..w : b[i] = q(i) % 2
    BY DEF Digits
  <2>2. \A i \in 1..w : q(i) % 2 \in Bit
    BY <1>1 DEF Bit
  <2> QED
    BY <2>1, <2>2
<1>3. b \in Seq(Bit) /\ Len(b) = w
  <2>1. b \in [1..w -> Bit]
    BY <1>2 DEF Digits
  <2> QED
    BY <2>1
<1>4. q(0) = 0
  <2>1. w - 0 = w
    OBVIOUS
  <2> QED
    BY <1>0, <2>1
<1>5. q(w) = v
  <2>1. w - w = 0 /\ 2^0 = 1
    OBVIOUS
  <2>2. v \div 1 = v
    BY <1>0
  <2> QED
    BY <2>1, <2>2
<1>6. ASSUME NEW i \in 1..w PROVE q(i) = 2 * q(i - 1) + (q(i) % 2)
  <2>1. w - i \in 0..19 /\ w - (i - 1) = (w - i) + 1
    OBVIOUS
  <2>2. 2^(w - (i - 1)) = 2 * 2^(w - i)
    BY <2>1, Doubled
  <2>3. q(i - 1) = q(i) \div 2
    <3>1. 2^(w - i) \in Nat /\ 2^(w - i) > 0
      BY <1>1
    <3> QED
      BY <1>0, <2>2, <3>1, Halved
  <2>4. q(i) \in Nat
    BY <1>1
  <2> HIDE DEF q
  <2> QED
    BY <2>3, <2>4, HalfAndRest
<1> HIDE DEF b, q
<1>7. PICK n \in [0..w -> Nat] :
           /\ Number(b) = n[w]
           /\ n[0] = 0
           /\ \A i \in 1..w : n[i] = 2 * n[i - 1] + b[i]
  BY <1>3, NumberDefined
<1> DEFINE Good == { i \in Nat : i \in 0..w => n[i] = q(i) }
<1>8. 0 \in Good
  BY <1>4, <1>7
<1>9. ASSUME NEW i \in Nat, i \in Good PROVE i + 1 \in Good
  <2> SUFFICES ASSUME i + 1 \in 1..w PROVE n[i + 1] = q(i + 1)
    OBVIOUS
  <2>1. n[i] = q(i) /\ (i + 1) - 1 = i
    BY <1>9
  <2>2. n[i + 1] = 2 * n[i] + b[i + 1]
    BY <1>7, <2>1
  <2>3. q(i + 1) = 2 * q(i) + b[i + 1]
    <3>1. q(i + 1) = 2 * q((i + 1) - 1) + (q(i + 1) % 2) /\ b[i + 1] = q(i + 1) % 2
      BY <1>2, <1>6
    <3> QED
      BY <2>1, <3>1
  <2> QED
    BY <2>1, <2>2, <2>3
<1>10. Nat \subseteq Good
  <2> HIDE DEF Good
  <2> QED
    BY <1>8, <1>9, Induction
<1>11. n[w] = v
  BY <1>5, <1>10
<1> QED
  BY <1>3, <1>7, <1>11 DEF b

\* The widths that a field may have.
Widths == (1..20) \cup {32}

\* What is written in a field is read from it.
LEMMA ValueOfBits ==
  ASSUME NEW w \in Widths, NEW v, Fits(v, w)
  PROVE  Bits(v, w) \in Seq(Bit) /\ Len(Bits(v, w)) = w /\ Value(Bits(v, w)) = v
<1>1. CASE w \in 1..20
  <2>1. v \in 0..(2^w - 1) /\ Bits(v, w) = Digits(v, w)
    <3>1. w # 32
      BY <1>1
    <3> QED
      BY <3>1 DEF Fits, Numbers, Bits
  <2>2. Digits(v, w) \in Seq(Bit) /\ Len(Digits(v, w)) = w /\ Number(Digits(v, w)) = v
    BY <1>1, <2>1, NumberOfDigits
  <2>3. Len(Digits(v, w)) # 32
    BY <1>1, <2>2
  <2> QED
    BY <2>1, <2>2, <2>3, Zenon DEF Value
<1>2. CASE w = 32
  <2> DEFINE h == Digits(v[1], 16)
             l == Digits(v[2], 16)
  <2>1. v = <<v[1], v[2]>> /\ v[1] \in 0..(2^16 - 1) /\ v[2] \in 0..(2^16 - 1)
    <3>1. v \in Numbers(16) \X Numbers(16)
      BY <1>2 DEF Fits
    <3>2. v = <<v[1], v[2]>> /\ v[1] \in Numbers(16) /\ v[2] \in Numbers(16)
      BY <3>1
    <3> QED
      BY <3>2 DEF Numbers
  <2>2. /\ h \in Seq(Bit) /\ Len(h) = 16 /\ Number(h) = v[1]
        /\ l \in Seq(Bit) /\ Len(l) = 16 /\ Number(l) = v[2]
    <3>1. 16 \in 1..20
      OBVIOUS
    <3> HIDE DEF h, l
    <3>2. /\ h \in Seq(Bit) /\ Len(h) = 16 /\ Number(h) = v[1]
      BY <2>1, <3>1, NumberOfDigits DEF h
    <3>3. /\ l \in Seq(Bit) /\ Len(l) = 16 /\ Number(l) = v[2]
      BY <2>1, <3>1, NumberOfDigits DEF l
    <3> QED
      BY <3>2, <3>3
  <2>3. Bits(v, w) = h \o l
    BY <1>2 DEF Bits
  <2> HIDE DEF h, l
  <2>4. h \in Seq(Bit) /\ l \in Seq(Bit)
    BY <2>2
  <2>5. /\ h \o l \in Seq(Bit) /\ Len(h \o l) = 32
        /\ SubSeq(h \o l, 1, 16) = h /\ SubSeq(h \o l, 17, 32) = l
    <3>1. h \o l \in Seq(Bit) /\ Len(h \o l) = Len(h) + Len(l)
      BY <2>4, JoinedLength
    <3>2. SubSeq(h \o l, 1, Len(h)) = h
      BY <2>4, JoinedLeft
    <3>3. SubSeq(h \o l, Len(h) + 1, Len(h) + Len(l)) = l
      BY <2>4, JoinedRight
    <3>4. Len(h) = 16 /\ Len(l) = 16
      BY <2>2
    <3>5. Len(h) + 1 = 17 /\ Len(h) + Len(l) = 32
      BY <3>4
    <3> QED
      BY <3>1, <3>2, <3>3, <3>4, <3>5, Zenon
  <2>6. Value(h \o l) = <<Number(h), Number(l)>>
    BY <2>5, Zenon DEF Value
  <2> QED
    BY <1>2, <2>1, <2>2, <2>3, <2>5, <2>6, Zenon
<1> QED
  BY <1>1, <1>2 DEF Widths

-----------------------------------------------------------------------------
(* Layouts: a record that is written with one is read with it.             *)

\* A layout: every field has a name of its own, and reserved bits are few.
IsLayout(layout) ==
  /\ Len(layout) \in Nat /\ DOMAIN layout = 1..Len(layout)
  /\ \A i \in DOMAIN layout : layout[i][2] \in Widths
  /\ \A i \in DOMAIN layout : layout[i][1] = "reserved" => layout[i][2] \in 1..20
  /\ \A i, j \in DOMAIN layout : layout[i][1] = layout[j][1] /\ layout[i][1] # "reserved" => i = j

\* The offset of a field is the sum of the widths before it.
LEMMA OffsetNext ==
  ASSUME NEW layout, IsLayout(layout)
  PROVE  /\ Offset(layout, 1) = 0
         /\ \A i \in 1..Len(layout) : Offset(layout, i + 1) = Offset(layout, i) + layout[i][2]
<1> DEFINE n == Len(layout)
           Upto(g, m) == g \in [1..m -> Nat] /\ g[1] = 0 /\ \A i \in 2..m : g[i] = g[i - 1] + layout[i - 1][2]
           Has(m) == m <= n => \E g : Upto(g, m + 1)
           All == { m \in Nat : Has(m) }
           Val(g, i) == IF i = 1 THEN 0 ELSE g[i - 1] + layout[i - 1][2]
           Is(g) == g = [j \in 1..(Len(layout) + 1) |-> Val(g, j)]
           offset == CHOOSE g : Is(g)
<1>0. n \in Nat /\ \A i \in 1..n : layout[i][2] \in Nat
  BY DEF IsLayout, Widths
<1> HIDE DEF n
<1>1. Has(0)
  <2> DEFINE g == [i \in 1..1 |-> 0]
  <2>1. Upto(g, 0 + 1)
    OBVIOUS
  <2> HIDE DEF g, Upto
  <2> QED
    BY <2>1
<1>2. ASSUME NEW m \in Nat, Has(m) PROVE Has(m + 1)
  <2> SUFFICES ASSUME m + 1 <= n PROVE \E g : Upto(g, m + 1 + 1)
    OBVIOUS
  <2>0. m <= n
    BY <1>0
  <2>1. PICK g : Upto(g, m + 1)
    <3> HIDE DEF Upto
    <3> QED
      BY <1>2, <2>0
  <2> DEFINE h == [i \in 1..m + 2 |-> IF i <= m + 1 THEN g[i] ELSE g[m + 1] + layout[m + 1][2]]
  <2>2. g[m + 1] + layout[m + 1][2] \in Nat
    BY <1>0, <2>1
  <2>3. h \in [1..m + 2 -> Nat] /\ h[1] = 0 /\ h[m + 2] = g[m + 1] + layout[m + 1][2]
    BY <2>1, <2>2
  <2>4. \A i \in 1..m + 1 : h[i] = g[i]
    OBVIOUS
  <2>5. ASSUME NEW i \in 2..m + 2 PROVE h[i] = h[i - 1] + layout[i - 1][2]
    <3> HIDE DEF h
    <3>1. CASE i = m + 2
      <4>1. i - 1 = m + 1 /\ m + 1 \in 1..m + 1
        BY <3>1
      <4> QED
        BY <2>3, <2>4, <3>1, <4>1
    <3>2. CASE i \in 2..m + 1
      <4>1. i \in 1..m + 1 /\ i - 1 \in 1..m + 1
        BY <3>2
      <4>2. h[i] = g[i] /\ h[i - 1] = g[i - 1]
        BY <2>4, <4>1
      <4>3. g[i] = g[i - 1] + layout[i - 1][2]
        BY <2>1, <3>2
      <4> QED
        BY <4>2, <4>3
    <3> QED
      BY <3>1, <3>2
  <2>6. Upto(h, m + 1 + 1)
    <3>1. m + 1 + 1 = m + 2
      OBVIOUS
    <3> HIDE DEF h
    <3> QED
      BY <2>3, <2>5, <3>1
  <2> HIDE DEF h, Upto
  <2> QED
    BY <2>6
<1>3. Has(n)
  <2> HIDE DEF Has
  <2>1. Nat \subseteq All
    <3>1. 0 \in All
      BY <1>1
    <3>2. \A m \in Nat : m \in All => m + 1 \in All
      BY <1>2
    <3> HIDE DEF All
    <3> QED
      BY <3>1, <3>2, Induction
  <2> QED
    BY <1>0, <2>1
<1>4. PICK g : Upto(g, n + 1)
  <2> HIDE DEF Upto
  <2> QED
    BY <1>0, <1>3
<1>5. Is(g)
  <2>1. ASSUME NEW i \in 1..n + 1 PROVE g[i] = Val(g, i)
    BY <1>0, <1>4
  <2>2. g = [i \in 1..n + 1 |-> g[i]]
    BY <1>4
  <2> HIDE DEF Val
  <2> QED
    BY <2>1, <2>2 DEF n
<1>6. Is(offset)
  <2> HIDE DEF Is
  <2> QED
    BY <1>5
<1>7. \A i : Offset(layout, i) = offset[i]
  BY DEF Offset
<1> HIDE DEF offset
<1>8. \A i \in 1..n + 1 : offset[i] = Val(offset, i)
  <2> HIDE DEF Val
  <2> QED
    BY <1>6 DEF n
<1>9. offset[1] = 0
  BY <1>0, <1>8
<1>10. ASSUME NEW i \in 1..n PROVE offset[i + 1] = offset[i] + layout[i][2]
  <2>1. i + 1 \in 1..n + 1 /\ i + 1 # 1 /\ (i + 1) - 1 = i
    BY <1>0
  <2>2. offset[i + 1] = Val(offset, i + 1)
    BY <1>8, <2>1
  <2> QED
    BY <2>1, <2>2
<1> QED
  BY <1>7, <1>9, <1>10 DEF n

\* Zero, that reserved bits are written as, has place in them.
LEMMA ZeroFits ==
  ASSUME NEW w \in 1..20
  PROVE  Fits(0, w)
<1>1. w # 32
  OBVIOUS
<1>2. 2^w \in Nat /\ 2^w > 0
  <2>1. w \in 0..20
    OBVIOUS
  <2> QED
    BY <2>1, Powers
<1> QED
  BY <1>1, <1>2 DEF Fits, Numbers

\* What a field is written as.
Written(layout, rec, i) == IF layout[i][1] = "reserved" THEN 0 ELSE rec[layout[i][1]]

\* Every field of a record is found at its offset, with its width.
LEMMA FieldsOfPut ==
  ASSUME NEW layout, IsLayout(layout), NEW rec, IsRecord(layout, rec)
  PROVE  /\ Put(layout, rec) \in Seq(Bit)
         /\ Len(Put(layout, rec)) = Width(layout)
         /\ \A i \in 1..Len(layout) :
              /\ Offset(layout, i) \in Nat /\ layout[i][2] \in Nat
              /\ Offset(layout, i) + layout[i][2] <= Width(layout)
              /\ Value(SubSeq(Put(layout, rec), Offset(layout, i) + 1, Offset(layout, i) + layout[i][2]))
                   = Written(layout, rec, i)
<1> DEFINE n == Len(layout)
           val(i) == Written(layout, rec, i)
           seqs == [i \in DOMAIN layout |-> Bits(val(i), layout[i][2])]
           at == [i \in 1..n + 1 |-> Offset(layout, i)]
           put == Put(layout, rec)
<1>1. n \in Nat /\ DOMAIN layout = 1..n /\ \A i \in 1..n : layout[i][2] \in Widths
  BY DEF IsLayout
<1>2. ASSUME NEW i \in 1..n
      PROVE  /\ Bits(val(i), layout[i][2]) \in Seq(Bit)
             /\ Len(Bits(val(i), layout[i][2])) = layout[i][2]
             /\ Value(Bits(val(i), layout[i][2])) = val(i)
  <2>1. CASE layout[i][1] = "reserved"
    <3>1. layout[i][2] \in 1..20
      BY <1>1, <2>1 DEF IsLayout
    <3>3. Fits(0, layout[i][2])
      BY <3>1, ZeroFits
    <3>4. val(i) = 0
      BY <2>1 DEF Written
    <3> QED
      BY <1>1, <3>3, <3>4, ValueOfBits
  <2>2. CASE layout[i][1] # "reserved"
    <3>1. Fits(val(i), layout[i][2])
      BY <1>1, <2>2 DEF IsRecord, AllFit, Written
    <3> HIDE DEF val
    <3> QED
      BY <1>1, <3>1, ValueOfBits
  <2> QED
    BY <2>1, <2>2
<1> HIDE DEF n, val
<1>3. seqs \in Seq(Seq(Bit)) /\ Len(seqs) = n /\ \A i \in 1..n : seqs[i] = Bits(val(i), layout[i][2])
  <2>1. seqs \in [1..n -> Seq(Bit)]
    BY <1>1, <1>2
  <2> QED
    BY <1>1, <2>1
<1>4. put = FlattenSeq(seqs)
  BY DEF Put, val, Written
<1>5. at[1] = 0 /\ \A i \in 1..n : at[i + 1] = at[i] + Len(seqs[i])
  <2>1. Offset(layout, 1) = 0 /\ \A i \in 1..n : Offset(layout, i + 1) = Offset(layout, i) + layout[i][2]
    BY OffsetNext DEF n
  <2>2. \A i \in 1..n : Len(seqs[i]) = layout[i][2]
    BY <1>2, <1>3
  <2>3. \A i \in 1..n : at[i] = Offset(layout, i) /\ at[i + 1] = Offset(layout, i + 1)
    BY <1>1
  <2>4. at[1] = Offset(layout, 1)
    BY <1>1
  <2> HIDE DEF at, seqs
  <2> QED
    BY <2>1, <2>2, <2>3, <2>4
<1>6. \A i \in 1..n : at[i] = Offset(layout, i)
  BY <1>1
<1>7. at[n + 1] = Width(layout)
  BY <1>1 DEF Width, n
<1> HIDE DEF seqs, at, put
<1>8. /\ put \in Seq(Bit) /\ Len(put) = at[n + 1]
      /\ \A i \in 1..n : /\ at[i] \in Nat /\ at[i + 1] <= Len(put)
                         /\ \A k \in 1..Len(seqs[i]) : put[at[i] + k] = seqs[i][k]
  <2>1. at[1] = 0 /\ \A i \in 1..Len(seqs) : at[i + 1] = at[i] + Len(seqs[i])
    BY <1>3, <1>5
  <2>2. /\ FlattenSeq(seqs) \in Seq(Bit)
        /\ Len(FlattenSeq(seqs)) = at[Len(seqs) + 1]
        /\ \A i \in 1..Len(seqs) :
             /\ at[i] \in Nat /\ at[i + 1] \in Nat /\ at[i + 1] <= Len(FlattenSeq(seqs))
             /\ \A k \in 1..Len(seqs[i]) : FlattenSeq(seqs)[at[i] + k] = seqs[i][k]
    <3>1. seqs \in Seq(Seq(Bit))
      BY <1>3
    <3> QED
      BY <3>1, <2>1, Flattened
  <2> QED
    BY <1>3, <1>4, <2>2
<1>9. ASSUME NEW i \in 1..n
      PROVE  Value(SubSeq(put, Offset(layout, i) + 1, Offset(layout, i) + layout[i][2])) = val(i)
  <2> DEFINE w == layout[i][2]
             o == Offset(layout, i)
  <2>1. w \in Nat /\ o \in Nat /\ Len(seqs[i]) = w /\ seqs[i] \in Seq(Bit) /\ Value(seqs[i]) = val(i)
    <3>1. w \in Nat
      <4>1. w \in Widths
        BY <1>1
      <4> HIDE DEF w
      <4> QED
        BY <4>1 DEF Widths
    <3>2. o \in Nat
      BY <1>6, <1>8
    <3>3. seqs[i] = Bits(val(i), w)
      BY <1>3
    <3> HIDE DEF w, o
    <3> QED
      BY <1>2, <3>1, <3>2, <3>3 DEF w
  <2>2. \A k \in 1..w : put[o + k] = seqs[i][k]
    BY <1>6, <1>8, <2>1
  <2> HIDE DEF w, o
  <2>3. SubSeq(put, o + 1, o + w) = [k \in 1..w |-> put[o + k]]
    BY <2>1, SliceOf
  <2>4. seqs[i] = [k \in 1..w |-> seqs[i][k]]
    BY <2>1
  <2>5. SubSeq(put, o + 1, o + w) = seqs[i]
    BY <2>2, <2>3, <2>4
  <2> QED
    BY <2>1, <2>5 DEF w, o
<1>10. ASSUME NEW i \in 1..n
       PROVE  /\ Offset(layout, i) \in Nat /\ layout[i][2] \in Nat
              /\ Offset(layout, i) + layout[i][2] <= Width(layout)
  <2>1. layout[i][2] \in Nat
    <3>1. layout[i][2] \in Widths
      BY <1>1
    <3>2. Widths \subseteq Nat
      BY DEF Widths
    <3> QED
      BY <3>1, <3>2
  <2>2. Len(seqs[i]) = layout[i][2]
    BY <1>2, <1>3
  <2>3. at[i + 1] = at[i] + Len(seqs[i]) /\ at[i] \in Nat /\ at[i + 1] <= Len(put) /\ Len(put) = at[n + 1]
    BY <1>5, <1>8
  <2> QED
    BY <1>6, <1>7, <2>1, <2>2, <2>3
<1> QED
  BY <1>7, <1>8, <1>9, <1>10 DEF put, n, val

\* A record that is written with a layout is read with it, bit for bit.
LEMMA GetOfPut ==
  ASSUME NEW layout, IsLayout(layout), NEW rec, IsRecord(layout, rec)
  PROVE  /\ Put(layout, rec) \in Seq(Bit)
         /\ Len(Put(layout, rec)) = Width(layout)
         /\ Get(layout, Put(layout, rec)) = rec
<1> DEFINE n == Len(layout)
           put == Put(layout, rec)
<1>1. DOMAIN layout = 1..n
  BY DEF IsLayout
<1>2. /\ put \in Seq(Bit) /\ Len(put) = Width(layout)
      /\ \A i \in 1..n : Value(SubSeq(put, Offset(layout, i) + 1, Offset(layout, i) + layout[i][2]))
                           = Written(layout, rec, i)
  BY FieldsOfPut
<1> HIDE DEF n, put
<1>3. ASSUME NEW name \in Fields(layout)
      PROVE  Get(layout, put)[name] = rec[name]
  <2> DEFINE i == CHOOSE j \in DOMAIN layout : layout[j][1] = name
  <2>1. \E j \in DOMAIN layout : layout[j][1] = name
    <3>1. PICK f0 \in Range(layout) : f0[1] = name
      BY DEF Fields
    <3> QED
      BY <3>1 DEF Range
  <2>2. i \in 1..n /\ layout[i][1] = name
    BY <1>1, <2>1
  <2>3. name # "reserved"
    BY DEF Fields
  <2> HIDE DEF i
  <2>4. Written(layout, rec, i) = rec[name]
    BY <2>2, <2>3 DEF Written
  <2>5. Get(layout, put)[name] = Value(SubSeq(put, Offset(layout, i) + 1, Offset(layout, i) + layout[i][2]))
    BY DEF Get, i
  <2> QED
    BY <1>2, <2>2, <2>4, <2>5
<1>4. Get(layout, put) = [name \in Fields(layout) |-> Get(layout, put)[name]]
  BY DEF Get
<1>5. rec = [name \in Fields(layout) |-> rec[name]]
  BY DEF IsRecord
<1>6. Get(layout, put) = rec
  BY <1>3, <1>4, <1>5
<1> QED
  BY <1>2, <1>6 DEF put

-----------------------------------------------------------------------------
(* The structures of the standard.                                         *)

\* The gateway and the node lay every structure out alike.
LEMMA LayoutsAlike == Gateway = Node
BY DEF Gateway, Node, GwHeader, NdHeader, GwNP, NdNP, GwDMI, NdDMI, GwDP, NdDP, GwMCP, NdMCP

\* The widths that fields have.
LEMMA SomeWidths == {1, 2, 5, 8, 14, 16, 20, 32} \subseteq Widths /\ 5 \in 1..20
BY DEF Widths

\* The five structures have names for their fields, one each, and widths that are known.
LEMMA HeaderLayout == IsLayout(GwHeader)
<1>1. Len(GwHeader) = 7 /\ DOMAIN GwHeader = 1..7
  BY DEF GwHeader
<1>2. /\ GwHeader[1][1] = "version" /\ GwHeader[2][1] = "msg_type"
      /\ GwHeader[3][1] = "trans_type" /\ GwHeader[4][1] = "msg_id"
      /\ GwHeader[5][1] = "payload_len" /\ GwHeader[6][1] = "gcg_id" /\ GwHeader[7][1] = "node_id"
  BY DEF GwHeader
<1>3. /\ GwHeader[1][2] = 8 /\ GwHeader[2][2] = 14 /\ GwHeader[3][2] = 2 /\ GwHeader[4][2] = 16
      /\ GwHeader[5][2] = 16 /\ GwHeader[6][2] = 20 /\ GwHeader[7][2] = 20
  BY DEF GwHeader
<1>4. \A i \in 1..7 : GwHeader[i][2] \in Widths
  BY <1>3, SomeWidths
<1>5. \A i \in 1..7 : GwHeader[i][1] = "reserved" => GwHeader[i][2] \in 1..20
  BY <1>2, <1>3, SomeWidths
<1>6. \A i, j \in 1..7 : GwHeader[i][1] = GwHeader[j][1] => i = j
  BY <1>2
<1> QED
  BY <1>1, <1>4, <1>5, <1>6 DEF IsLayout

LEMMA NPLayout == IsLayout(GwNP)
<1>1. Len(GwNP) = 5 /\ DOMAIN GwNP = 1..5
  BY DEF GwNP
<1>2. /\ GwNP[1][1] = "sw_version" /\ GwNP[2][1] = "gcg_id" /\ GwNP[3][1] = "node_id"
      /\ GwNP[4][1] = "status" /\ GwNP[5][1] = "num_devices"
  BY DEF GwNP
<1>3. GwNP[1][2] = 8 /\ GwNP[2][2] = 20 /\ GwNP[3][2] = 20 /\ GwNP[4][2] = 8 /\ GwNP[5][2] = 8
  BY DEF GwNP
<1>4. \A i \in 1..5 : GwNP[i][2] \in Widths
  BY <1>3, SomeWidths
<1>5. \A i \in 1..5 : GwNP[i][1] = "reserved" => GwNP[i][2] \in 1..20
  BY <1>2, <1>3, SomeWidths
<1>6. \A i, j \in 1..5 : GwNP[i][1] = GwNP[j][1] => i = j
  BY <1>2
<1> QED
  BY <1>1, <1>4, <1>5, <1>6 DEF IsLayout

LEMMA MCPLayout == IsLayout(GwMCP)
<1>1. Len(GwMCP) = 4 /\ DOMAIN GwMCP = 1..4
  BY DEF GwMCP
<1>2. /\ GwMCP[1][1] = "recv_timeout" /\ GwMCP[2][1] = "num_retry"
      /\ GwMCP[3][1] = "noti_error_interval" /\ GwMCP[4][1] = "keep_alive_interval"
  BY DEF GwMCP
<1>3. GwMCP[1][2] = 16 /\ GwMCP[2][2] = 8 /\ GwMCP[3][2] = 16 /\ GwMCP[4][2] = 16
  BY DEF GwMCP
<1>4. \A i \in 1..4 : GwMCP[i][2] \in Widths
  BY <1>3, SomeWidths
<1>5. \A i \in 1..4 : GwMCP[i][1] = "reserved" => GwMCP[i][2] \in 1..20
  BY <1>2, <1>3, SomeWidths
<1>6. \A i, j \in 1..4 : GwMCP[i][1] = GwMCP[j][1] => i = j
  BY <1>2
<1> QED
  BY <1>1, <1>4, <1>5, <1>6 DEF IsLayout

LEMMA DMILayout == IsLayout(GwDMI)
<1>1. Len(GwDMI) = 6 /\ DOMAIN GwDMI = 1..6
  BY DEF GwDMI
<1>2. /\ GwDMI[1][1] = "device_id" /\ GwDMI[2][1] = "dev_type" /\ GwDMI[3][1] = "subtype"
      /\ GwDMI[4][1] = "value_type" /\ GwDMI[5][1] = "reserved" /\ GwDMI[6][1] = "value"
  BY DEF GwDMI
<1>3. /\ GwDMI[1][2] = 8 /\ GwDMI[2][2] = 1 /\ GwDMI[3][2] = 8 /\ GwDMI[4][2] = 2
      /\ GwDMI[5][2] = 5 /\ GwDMI[6][2] = 32
  BY DEF GwDMI
<1>4. \A i \in 1..6 : GwDMI[i][2] \in Widths
  BY <1>3, SomeWidths
<1>5. \A i \in 1..6 : GwDMI[i][1] = "reserved" => GwDMI[i][2] \in 1..20
  BY <1>2, <1>3, SomeWidths
<1>6. \A i, j \in 1..6 : GwDMI[i][1] = GwDMI[j][1] => i = j
  BY <1>2
<1> QED
  BY <1>1, <1>4, <1>5, <1>6 DEF IsLayout

LEMMA SimDPLayout == IsLayout(SimDP)
<1>1. Len(SimDP) = 14 /\ DOMAIN SimDP = 1..14
  BY DEF SimDP
<1>2. /\ SimDP[1][1] = "device_id" /\ SimDP[2][1] = "dev_type" /\ SimDP[3][1] = "subtype"
      /\ SimDP[4][1] = "value_type" /\ SimDP[5][1] = "reserved" /\ SimDP[6][1] = "value"
      /\ SimDP[7][1] = "transfer_mode" /\ SimDP[8][1] = "period" /\ SimDP[9][1] = "lower_value"
      /\ SimDP[10][1] = "upper_value" /\ SimDP[11][1] = "lower_limit"
      /\ SimDP[12][1] = "upper_limit" /\ SimDP[13][1] = "precision" /\ SimDP[14][1] = "status"
  BY DEF SimDP
<1>3. /\ SimDP[1][2] = 8 /\ SimDP[2][2] = 1 /\ SimDP[3][2] = 8 /\ SimDP[4][2] = 2
      /\ SimDP[5][2] = 5 /\ SimDP[6][2] = 32 /\ SimDP[7][2] = 2 /\ SimDP[8][2] = 14
      /\ SimDP[9][2] = 32 /\ SimDP[10][2] = 32 /\ SimDP[11][2] = 32 /\ SimDP[12][2] = 32
      /\ SimDP[13][2] = 32 /\ SimDP[14][2] = 8
  BY DEF SimDP
<1>4. \A i \in 1..14 : SimDP[i][2] \in Widths
  BY <1>3, SomeWidths
<1>5. \A i \in 1..14 : SimDP[i][1] = "reserved" => SimDP[i][2] \in 1..20
  BY <1>2, <1>3, SomeWidths
<1>6. \A i, j \in 1..14 : SimDP[i][1] = SimDP[j][1] => i = j
  BY <1>2
<1> QED
  BY <1>1, <1>4, <1>5, <1>6 DEF IsLayout

\* The virtual node's DEVICE_PROPERTY has the fields of the gateway's.
LEMMA FlatDP == GwDP = SimDP
<1> DEFINE s == GwDMI
           t == << <<"transfer_mode", 2>>, <<"period", 14>>, <<"lower_value", 32>>, <<"upper_value", 32>>,
                   <<"lower_limit", 32>>, <<"upper_limit", 32>>, <<"precision", 32>>, <<"status", 8>> >>
           U == { s[i] : i \in 1..6 } \cup { t[i] : i \in 1..8 }
           b == s \o t
<1>1. s \in Seq(U) /\ Len(s) = 6
  <2>1. Len(s) = 6 /\ DOMAIN s = 1..6 /\ s = [i \in 1..6 |-> s[i]]
    BY DEF GwDMI
  <2> HIDE DEF s, t
  <2> QED
    BY <2>1
<1>2. t \in Seq(U) /\ Len(t) = 8
  <2>1. Len(t) = 8 /\ DOMAIN t = 1..8 /\ t = [i \in 1..8 |-> t[i]]
    OBVIOUS
  <2> HIDE DEF s, t
  <2> QED
    BY <2>1
<1>3. GwDP = b
  BY DEF GwDP
<1>4. \A i \in 1..6 : s[i] = SimDP[i]
  BY DEF GwDMI, SimDP
<1>5. \A i \in 1..8 : t[i] = SimDP[6 + i]
  BY DEF SimDP
<1>6. SimDP = [i \in 1..14 |-> SimDP[i]]
  BY DEF SimDP
<1> HIDE DEF U, s, t
<1>7. /\ b \in Seq(U) /\ Len(b) = Len(s) + Len(t)
      /\ \A i \in 1..Len(s) : b[i] = s[i]
      /\ \A i \in 1..Len(t) : b[Len(s) + i] = t[i]
  <2>1. s \in Seq(U) /\ t \in Seq(U)
    BY <1>1, <1>2
  <2> QED
    BY <2>1, Concatenated
<1> HIDE DEF b
<1>8. Len(b) = 14 /\ (\A i \in 1..6 : b[i] = s[i]) /\ (\A i \in 1..8 : b[6 + i] = t[i])
  BY <1>1, <1>2, <1>7
<1>9. b = [i \in 1..14 |-> b[i]]
  <2>1. b \in Seq(U) /\ Len(b) = 14
    BY <1>7, <1>8
  <2>2. b = [i \in 1..Len(b) |-> b[i]]
    BY <2>1
  <2> QED
    BY <2>1, <2>2
<1>10. ASSUME NEW i \in 1..14 PROVE b[i] = SimDP[i]
  <2>1. CASE i \in 1..6
    BY <1>4, <1>8, <2>1
  <2>2. CASE i \notin 1..6
    <3>1. i - 6 \in 1..8 /\ 6 + (i - 6) = i
      BY <2>2
    <3>2. b[6 + (i - 6)] = SimDP[6 + (i - 6)]
      BY <1>5, <1>8, <3>1
    <3> QED
      BY <3>1, <3>2
  <2> QED
    BY <2>1, <2>2
<1> QED
  BY <1>3, <1>6, <1>9, <1>10

\* The lengths of the five structures (12, 8, 7, 7 and 30 bytes), from the offsets of their fields.
LEMMA HeaderWidth == Width(GwHeader) = 96
<1>1. Len(GwHeader) = 7
  BY DEF GwHeader
<1>2. /\ GwHeader[1][2] = 8 /\ GwHeader[2][2] = 14 /\ GwHeader[3][2] = 2 /\ GwHeader[4][2] = 16
      /\ GwHeader[5][2] = 16 /\ GwHeader[6][2] = 20 /\ GwHeader[7][2] = 20
  BY DEF GwHeader
<1>3. Offset(GwHeader, 1) = 0 /\ \A i \in 1..7 : Offset(GwHeader, i + 1) = Offset(GwHeader, i) + GwHeader[i][2]
  BY <1>1, HeaderLayout, OffsetNext
<1>4. /\ Offset(GwHeader, 1 + 1) = Offset(GwHeader, 1) + 8
      /\ Offset(GwHeader, 2 + 1) = Offset(GwHeader, 2) + 14
      /\ Offset(GwHeader, 3 + 1) = Offset(GwHeader, 3) + 2
      /\ Offset(GwHeader, 4 + 1) = Offset(GwHeader, 4) + 16
      /\ Offset(GwHeader, 5 + 1) = Offset(GwHeader, 5) + 16
      /\ Offset(GwHeader, 6 + 1) = Offset(GwHeader, 6) + 20
      /\ Offset(GwHeader, 7 + 1) = Offset(GwHeader, 7) + 20
  BY <1>2, <1>3
<1> QED
  BY <1>1, <1>3, <1>4 DEF Width

LEMMA NPWidth == Width(GwNP) = 64 /\ Offset(GwNP, 4) = 48 /\ Offset(GwNP, 5) = 56
<1>1. Len(GwNP) = 5
  BY DEF GwNP
<1>2. /\ GwNP[1][2] = 8 /\ GwNP[2][2] = 20 /\ GwNP[3][2] = 20 /\ GwNP[4][2] = 8 /\ GwNP[5][2] = 8
  BY DEF GwNP
<1>3. Offset(GwNP, 1) = 0 /\ \A i \in 1..5 : Offset(GwNP, i + 1) = Offset(GwNP, i) + GwNP[i][2]
  BY <1>1, NPLayout, OffsetNext
<1>4. /\ Offset(GwNP, 1 + 1) = Offset(GwNP, 1) + 8 /\ Offset(GwNP, 2 + 1) = Offset(GwNP, 2) + 20
      /\ Offset(GwNP, 3 + 1) = Offset(GwNP, 3) + 20 /\ Offset(GwNP, 4 + 1) = Offset(GwNP, 4) + 8
      /\ Offset(GwNP, 5 + 1) = Offset(GwNP, 5) + 8
  BY <1>2, <1>3
<1> QED
  BY <1>1, <1>3, <1>4 DEF Width

LEMMA MCPWidth == Width(GwMCP) = 56
<1>1. Len(GwMCP) = 4
  BY DEF GwMCP
<1>2. /\ GwMCP[1][2] = 16 /\ GwMCP[2][2] = 8 /\ GwMCP[3][2] = 16 /\ GwMCP[4][2] = 16
  BY DEF GwMCP
<1>3. Offset(GwMCP, 1) = 0 /\ \A i \in 1..4 : Offset(GwMCP, i + 1) = Offset(GwMCP, i) + GwMCP[i][2]
  BY <1>1, MCPLayout, OffsetNext
<1>4. /\ Offset(GwMCP, 1 + 1) = Offset(GwMCP, 1) + 16
      /\ Offset(GwMCP, 2 + 1) = Offset(GwMCP, 2) + 8
      /\ Offset(GwMCP, 3 + 1) = Offset(GwMCP, 3) + 16
      /\ Offset(GwMCP, 4 + 1) = Offset(GwMCP, 4) + 16
  BY <1>2, <1>3
<1> QED
  BY <1>1, <1>3, <1>4 DEF Width

LEMMA DMIWidth == Width(GwDMI) = 56
<1>1. Len(GwDMI) = 6
  BY DEF GwDMI
<1>2. /\ GwDMI[1][2] = 8 /\ GwDMI[2][2] = 1 /\ GwDMI[3][2] = 8 /\ GwDMI[4][2] = 2
      /\ GwDMI[5][2] = 5 /\ GwDMI[6][2] = 32
  BY DEF GwDMI
<1>3. Offset(GwDMI, 1) = 0 /\ \A i \in 1..6 : Offset(GwDMI, i + 1) = Offset(GwDMI, i) + GwDMI[i][2]
  BY <1>1, DMILayout, OffsetNext
<1>4. /\ Offset(GwDMI, 1 + 1) = Offset(GwDMI, 1) + 8 /\ Offset(GwDMI, 2 + 1) = Offset(GwDMI, 2) + 1
      /\ Offset(GwDMI, 3 + 1) = Offset(GwDMI, 3) + 8 /\ Offset(GwDMI, 4 + 1) = Offset(GwDMI, 4) + 2
      /\ Offset(GwDMI, 5 + 1) = Offset(GwDMI, 5) + 5
      /\ Offset(GwDMI, 6 + 1) = Offset(GwDMI, 6) + 32
  BY <1>2, <1>3
<1> QED
  BY <1>1, <1>3, <1>4 DEF Width

LEMMA SimDPWidth == Width(SimDP) = 240
<1>1. Len(SimDP) = 14
  BY DEF SimDP
<1>2. /\ SimDP[1][2] = 8 /\ SimDP[2][2] = 1 /\ SimDP[3][2] = 8 /\ SimDP[4][2] = 2
      /\ SimDP[5][2] = 5 /\ SimDP[6][2] = 32 /\ SimDP[7][2] = 2 /\ SimDP[8][2] = 14
      /\ SimDP[9][2] = 32 /\ SimDP[10][2] = 32 /\ SimDP[11][2] = 32 /\ SimDP[12][2] = 32
      /\ SimDP[13][2] = 32 /\ SimDP[14][2] = 8
  BY DEF SimDP
<1>3. Offset(SimDP, 1) = 0 /\ \A i \in 1..14 : Offset(SimDP, i + 1) = Offset(SimDP, i) + SimDP[i][2]
  BY <1>1, SimDPLayout, OffsetNext
<1>4. /\ Offset(SimDP, 1 + 1) = Offset(SimDP, 1) + 8 /\ Offset(SimDP, 2 + 1) = Offset(SimDP, 2) + 1
      /\ Offset(SimDP, 3 + 1) = Offset(SimDP, 3) + 8 /\ Offset(SimDP, 4 + 1) = Offset(SimDP, 4) + 2
      /\ Offset(SimDP, 5 + 1) = Offset(SimDP, 5) + 5
      /\ Offset(SimDP, 6 + 1) = Offset(SimDP, 6) + 32
      /\ Offset(SimDP, 7 + 1) = Offset(SimDP, 7) + 2
      /\ Offset(SimDP, 8 + 1) = Offset(SimDP, 8) + 14
      /\ Offset(SimDP, 9 + 1) = Offset(SimDP, 9) + 32
      /\ Offset(SimDP, 10 + 1) = Offset(SimDP, 10) + 32
      /\ Offset(SimDP, 11 + 1) = Offset(SimDP, 11) + 32
      /\ Offset(SimDP, 12 + 1) = Offset(SimDP, 12) + 32
      /\ Offset(SimDP, 13 + 1) = Offset(SimDP, 13) + 32
      /\ Offset(SimDP, 14 + 1) = Offset(SimDP, 14) + 8
  BY <1>2, <1>3
<1> QED
  BY <1>1, <1>3, <1>4 DEF Width

-----------------------------------------------------------------------------
(* Bodies: their parts lie where they are looked for.                      *)

\* The gateway's and the virtual node's layouts are the same where both have one.
LEMMA SimAlike ==
  /\ VirtualNode.header = GwHeader /\ VirtualNode.np = GwNP
  /\ VirtualNode.dmi = GwDMI /\ VirtualNode.dp = GwDP
BY FlatDP DEF VirtualNode, SimHeader, GwHeader, SimNP, GwNP, SimDMI, GwDMI

\* The gateway's DEVICE_PROPERTY, which contains a DEVICE_MAIN_INFO.
LEMMA DPLayout == IsLayout(GwDP) /\ Width(GwDP) = 240
BY FlatDP, SimDPLayout, SimDPWidth

\* The fixed part is a code, if there is one, and a structure, if there is one.
CodeBytes(kind) == IF LeadingRsc(kind) \/ kind = NotiError THEN 1 ELSE 0
RestBytes(kind) == IF HasNP(kind) THEN 8 ELSE IF HasMCP(kind) THEN 7 ELSE 0

\* The length of the fixed part is that of its parts.
LEMMA FixedLength ==
  ASSUME NEW kind \in MsgKind
  PROVE  /\ LayoutOfKind(kind).fixed = CodeBytes(kind) + RestBytes(kind)
         /\ LayoutOfKind(kind).elem \in {0, 1, 7, 30}
         /\ HasNP(kind) => NPOffset(kind) = CodeBytes(kind) /\ ~HasMCP(kind)
         /\ kind = NotiError => ~LeadingRsc(kind) /\ RestBytes(kind) = 0
<1> DEFINE Goal == /\ LayoutOfKind(kind).fixed = CodeBytes(kind) + RestBytes(kind)
                   /\ LayoutOfKind(kind).elem \in {0, 1, 7, 30}
                   /\ HasNP(kind) => NPOffset(kind) = CodeBytes(kind) /\ ~HasMCP(kind)
                   /\ kind = NotiError => ~LeadingRsc(kind) /\ RestBytes(kind) = 0
<1> USE DEF Req, Res, LeadingRsc, NotiError, HasNP, NPOffset, NoOffset, HasMCP, CodeBytes, RestBytes,
           NP, DMI, DP, MCP, RSC, NEC, DID
<1>1. CASE kind \in { Req("SET_DEVICE_INIT"), Req("GET_DEVICE_PROPERTY"), Req("GET_DEVICE_VALUE") }
  BY <1>1 DEF LayoutOfKind
<1>2. CASE kind = Req("SET_NODE_PROPERTY")
  BY <1>2 DEF LayoutOfKind
<1>3. CASE kind = Req("SET_DEVICE_PROPERTY")
  BY <1>3 DEF LayoutOfKind
<1>4. CASE kind = Req("SET_NODE_DEVICE_PROPERTY_ALL")
  BY <1>4 DEF LayoutOfKind
<1>5. CASE kind = Req("SET_MSG_FLOW_CONTROL_PROFILE")
  BY <1>5 DEF LayoutOfKind
<1>6. CASE kind = Req("SET_DEVICE_CONTROL") \/ kind = <<"NOTI", "DEVICE_VALUE">>
  BY <1>6 DEF LayoutOfKind
<1>7. CASE kind \in { Res("SET_CONNECTION"), Res("GET_NODE_DEVICE_PROPERTY_ALL") }
  BY <1>7 DEF LayoutOfKind
<1>8. CASE kind = Res("GET_NODE_PROPERTY")
  BY <1>8 DEF LayoutOfKind
<1>9. CASE kind = Res("GET_DEVICE_PROPERTY")
  BY <1>9 DEF LayoutOfKind
<1>10. CASE kind = Res("GET_DEVICE_VALUE")
  BY <1>10 DEF LayoutOfKind
<1>11. CASE kind = Res("GET_MSG_FLOW_CONTROL_PROFILE")
  BY <1>11 DEF LayoutOfKind
<1>12. CASE kind = <<"NOTI", "ERROR">>
  BY <1>12 DEF LayoutOfKind
<1>13. CASE kind \notin { Req("SET_DEVICE_INIT"), Req("GET_DEVICE_PROPERTY"), Req("GET_DEVICE_VALUE"),
                          Req("SET_NODE_PROPERTY"), Req("SET_DEVICE_PROPERTY"),
                          Req("SET_NODE_DEVICE_PROPERTY_ALL"), Req("SET_MSG_FLOW_CONTROL_PROFILE"),
                          Req("SET_DEVICE_CONTROL"), <<"NOTI", "DEVICE_VALUE">>, Res("SET_CONNECTION"),
                          Res("GET_NODE_DEVICE_PROPERTY_ALL"), Res("GET_NODE_PROPERTY"),
                          Res("GET_DEVICE_PROPERTY"), Res("GET_DEVICE_VALUE"),
                          Res("GET_MSG_FLOW_CONTROL_PROFILE"), <<"NOTI", "ERROR">> }
  BY <1>13 DEF LayoutOfKind
<1> QED
  BY <1>1, <1>2, <1>3, <1>4, <1>5, <1>6, <1>7, <1>8, <1>9, <1>10, <1>11, <1>12, <1>13

\* A part of one of two sequences is found in the joined one.
LEMMA SliceLeft ==
  ASSUME NEW S, NEW s \in Seq(S), NEW t \in Seq(S), NEW a \in Nat, NEW n \in Nat, a + n <= Len(s)
  PROVE  SubSeq(s \o t, a + 1, a + n) = SubSeq(s, a + 1, a + n)
<1> DEFINE b == s \o t
<1>1. \A k \in 1..n : a + k \in 1..Len(s)
  OBVIOUS
<1>2. \A k \in 1..n : b[a + k] = s[a + k]
  BY <1>1, Concatenated
<1> HIDE DEF b
<1>3. SubSeq(b, a + 1, a + n) = [k \in 1..n |-> b[a + k]]
  BY SliceOf
<1>4. SubSeq(s, a + 1, a + n) = [k \in 1..n |-> s[a + k]]
  BY SliceOf
<1>5. SubSeq(b, a + 1, a + n) = SubSeq(s, a + 1, a + n)
  BY <1>2, <1>3, <1>4
<1> QED
  BY <1>5 DEF b

\* What lies in the second part of a sequence.
LEMMA SliceRight ==
  ASSUME NEW S, NEW s \in Seq(S), NEW t \in Seq(S), NEW a \in Nat, NEW n \in Nat, a + n <= Len(t),
         NEW m, m = Len(s)
  PROVE  SubSeq(s \o t, m + a + 1, m + a + n) = SubSeq(t, a + 1, a + n)
<1> DEFINE b == s \o t
<1>1. m \in Nat /\ \A k \in 1..n : a + k \in 1..Len(t) /\ m + (a + k) = (m + a) + k
  OBVIOUS
<1>2. \A k \in 1..n : b[(m + a) + k] = t[a + k]
  <2>1. \A k \in 1..Len(t) : b[m + k] = t[k]
    BY Concatenated
  <2> HIDE DEF b
  <2> QED
    BY <1>1, <2>1
<1> HIDE DEF b
<1>3. SubSeq(b, (m + a) + 1, (m + a) + n) = [k \in 1..n |-> b[(m + a) + k]]
  BY <1>1, SliceOf
<1>4. SubSeq(t, a + 1, a + n) = [k \in 1..n |-> t[a + k]]
  BY SliceOf
<1>5. SubSeq(b, (m + a) + 1, (m + a) + n) = SubSeq(t, a + 1, a + n)
  BY <1>2, <1>3, <1>4
<1> QED
  BY <1>5 DEF b

LEMMA SliceAll ==
  ASSUME NEW S, NEW s \in Seq(S)
  PROVE  SubSeq(s, 1, Len(s)) = s
OBVIOUS

\* Nothing in front or behind changes nothing.
LEMMA NothingJoined ==
  ASSUME NEW S, NEW s \in Seq(S)
  PROVE  s \o << >> = s /\ << >> \o s = s
OBVIOUS

LEMMA JoinedTwice ==
  ASSUME NEW S, NEW s \in Seq(S), NEW t \in Seq(S), NEW u \in Seq(S)
  PROVE  (s \o t) \o u = s \o (t \o u)
OBVIOUS

LEMMA NoBits == << >> \in Seq(Bit) /\ Len(<< >>) = 0
OBVIOUS

\* The parts of a body.
CodePart(g) == IF LeadingRsc(g.kind) THEN Bits(g.rsc, 8) ELSE IF g.kind = NotiError THEN Bits(g.nec, 8) ELSE << >>
RestPart(g) == IF HasNP(g.kind) THEN Put(GwNP, g.np) ELSE IF HasMCP(g.kind) THEN Put(GwMCP, g.mcp) ELSE << >>
ElementBits(g) == [i \in DOMAIN g.elems |-> PutElement(g.kind, g.elems[i], Gateway)]
Size(g) == LayoutOfKind(g.kind).elem

\* A code of one byte.
LEMMA ByteOfCode ==
  ASSUME NEW v, Fits(v, 8)
  PROVE  Bits(v, 8) \in Seq(Bit) /\ Len(Bits(v, 8)) = 8 /\ Number(Bits(v, 8)) = v
<1>1. 8 \in Widths
  BY SomeWidths
<1>2. Bits(v, 8) \in Seq(Bit) /\ Len(Bits(v, 8)) = 8 /\ Value(Bits(v, 8)) = v
  BY <1>1, ValueOfBits
<1>3. Len(Bits(v, 8)) # 32
  <2>1. Len(Bits(v, 8)) = 8
    BY <1>2, Zenon
  <2> QED
    BY <2>1
<1> QED
  BY <1>2, <1>3, Zenon DEF Value

\* The parts have the lengths that the layout of their kind gives them.
LEMMA CodePartBits ==
  ASSUME NEW g, IsFrame(g)
  PROVE  CodePart(g) \in Seq(Bit) /\ Len(CodePart(g)) = 8 * CodeBytes(g.kind)
<1>1. Fits(g.rsc, 8) /\ Fits(g.nec, 8)
  BY DEF IsFrame
<1>2. CASE LeadingRsc(g.kind)
  <2>1. CodePart(g) = Bits(g.rsc, 8) /\ CodeBytes(g.kind) = 1
    BY <1>2 DEF CodePart, CodeBytes
  <2> QED
    BY <1>1, <2>1, ByteOfCode
<1>3. CASE ~LeadingRsc(g.kind) /\ g.kind = NotiError
  <2>1. CodePart(g) = Bits(g.nec, 8) /\ CodeBytes(g.kind) = 1
    BY <1>3 DEF CodePart, CodeBytes
  <2> QED
    BY <1>1, <2>1, ByteOfCode
<1>4. CASE ~LeadingRsc(g.kind) /\ g.kind # NotiError
  <2>1. CodePart(g) = << >> /\ CodeBytes(g.kind) = 0
    BY <1>4 DEF CodePart, CodeBytes
  <2> QED
    BY <2>1, NoBits
<1> QED
  BY <1>2, <1>3, <1>4

LEMMA RestPartBits ==
  ASSUME NEW g, IsFrame(g)
  PROVE  RestPart(g) \in Seq(Bit) /\ Len(RestPart(g)) = 8 * RestBytes(g.kind)
<1>1. IsRecord(GwNP, g.np) /\ IsRecord(GwMCP, g.mcp)
  BY DEF IsFrame
<1>2. CASE HasNP(g.kind)
  <2>1. RestPart(g) = Put(GwNP, g.np) /\ RestBytes(g.kind) = 8
    BY <1>2 DEF RestPart, RestBytes
  <2>2. Put(GwNP, g.np) \in Seq(Bit) /\ Len(Put(GwNP, g.np)) = 64
    <3>1. Put(GwNP, g.np) \in Seq(Bit) /\ Len(Put(GwNP, g.np)) = Width(GwNP)
      BY <1>1, NPLayout, GetOfPut
    <3> QED
      BY <3>1, NPWidth
  <2> QED
    BY <2>1, <2>2
<1>3. CASE ~HasNP(g.kind) /\ HasMCP(g.kind)
  <2>1. RestPart(g) = Put(GwMCP, g.mcp) /\ RestBytes(g.kind) = 7
    BY <1>3 DEF RestPart, RestBytes
  <2>2. Put(GwMCP, g.mcp) \in Seq(Bit) /\ Len(Put(GwMCP, g.mcp)) = 56
    <3>1. Put(GwMCP, g.mcp) \in Seq(Bit) /\ Len(Put(GwMCP, g.mcp)) = Width(GwMCP)
      BY <1>1, MCPLayout, GetOfPut
    <3> QED
      BY <3>1, MCPWidth
  <2> QED
    BY <2>1, <2>2
<1>4. CASE ~HasNP(g.kind) /\ ~HasMCP(g.kind)
  <2>1. RestPart(g) = << >> /\ RestBytes(g.kind) = 0
    BY <1>4 DEF RestPart, RestBytes
  <2> QED
    BY <2>1, NoBits
<1> QED
  BY <1>2, <1>3, <1>4

\* An element is read as it was written.
LEMMA ElementWritten ==
  ASSUME NEW kind, NEW e, IsElement(kind, e)
  PROVE  /\ LayoutOfKind(kind).elem \in {1, 7, 30}
         /\ PutElement(kind, e, Gateway) \in Seq(Bit)
         /\ Len(PutElement(kind, e, Gateway)) = 8 * LayoutOfKind(kind).elem
         /\ GetElement(kind, PutElement(kind, e, Gateway), Gateway) = e
<1> DEFINE size == LayoutOfKind(kind).elem
<1>0. DID = 1 /\ DMI = 7 /\ DP = 30
  BY DEF DID, DMI, DP
<1>1. size \in {1, 7, 30}
  BY <1>0 DEF IsElement
<1>2. CASE size = 1
  <2>1. Fits(e, 8)
    BY <1>0, <1>2 DEF IsElement
  <2>2. PutElement(kind, e, Gateway) = Bits(e, 8)
    BY <1>0, <1>2 DEF PutElement
  <2>3. GetElement(kind, Bits(e, 8), Gateway) = Byte(Bits(e, 8), 1)
    BY <1>0, <1>2 DEF GetElement
  <2>4. Bits(e, 8) \in Seq(Bit) /\ Len(Bits(e, 8)) = 8 /\ Number(Bits(e, 8)) = e
    BY <2>1, ByteOfCode
  <2>5. SubSeq(Bits(e, 8), 1, 8) = Bits(e, 8)
    <3>1. Bits(e, 8) \in Seq(Bit)
      BY <2>4
    <3>2. SubSeq(Bits(e, 8), 1, Len(Bits(e, 8))) = Bits(e, 8)
      BY <3>1, SliceAll
    <3> QED
      BY <2>4, <3>2, Zenon
  <2>6. Byte(Bits(e, 8), 1) = Number(SubSeq(Bits(e, 8), 1, 8))
    BY DEF Byte
  <2>7. Byte(Bits(e, 8), 1) = e
    BY <2>4, <2>5, <2>6, Zenon
  <2> QED
    BY <1>2, <2>2, <2>3, <2>4, <2>7
<1>3. CASE size = 7
  <2>1. IsRecord(GwDMI, e) /\ Gateway.dmi = GwDMI
    BY <1>0, <1>3 DEF IsElement, Gateway
  <2>2. PutElement(kind, e, Gateway) = Put(GwDMI, e)
    BY <1>0, <1>3, <2>1 DEF PutElement
  <2>3. GetElement(kind, Put(GwDMI, e), Gateway) = Get(GwDMI, Put(GwDMI, e))
    BY <1>0, <1>3, <2>1 DEF GetElement
  <2>4. Put(GwDMI, e) \in Seq(Bit) /\ Len(Put(GwDMI, e)) = 56 /\ Get(GwDMI, Put(GwDMI, e)) = e
    <3>1. /\ Put(GwDMI, e) \in Seq(Bit) /\ Len(Put(GwDMI, e)) = Width(GwDMI)
          /\ Get(GwDMI, Put(GwDMI, e)) = e
      BY <2>1, DMILayout, GetOfPut
    <3> QED
      BY <3>1, DMIWidth
  <2> QED
    BY <1>3, <2>2, <2>3, <2>4
<1>4. CASE size = 30
  <2>1. IsRecord(GwDP, e) /\ Gateway.dp = GwDP
    BY <1>0, <1>4 DEF IsElement, Gateway
  <2>2. PutElement(kind, e, Gateway) = Put(GwDP, e)
    BY <1>0, <1>4, <2>1 DEF PutElement
  <2>3. GetElement(kind, Put(GwDP, e), Gateway) = Get(GwDP, Put(GwDP, e))
    BY <1>0, <1>4, <2>1 DEF GetElement
  <2>4. Put(GwDP, e) \in Seq(Bit) /\ Len(Put(GwDP, e)) = 240 /\ Get(GwDP, Put(GwDP, e)) = e
    <3>1. /\ Put(GwDP, e) \in Seq(Bit) /\ Len(Put(GwDP, e)) = Width(GwDP)
          /\ Get(GwDP, Put(GwDP, e)) = e
      <4>1. IsLayout(GwDP)
        BY DPLayout
      <4> QED
        BY <2>1, <4>1, GetOfPut
    <3> QED
      BY <3>1, DPLayout
  <2> QED
    BY <1>4, <2>2, <2>3, <2>4
<1> QED
  BY <1>1, <1>2, <1>3, <1>4

\* Bits and bytes.
LEMMA InBytes ==
  ASSUME NEW x \in Nat, NEW y \in Nat, NEW z \in Nat, x + z <= y
  PROVE  8 * x + 8 * z <= 8 * y
OBVIOUS

\* The elements lie one behind the other.
LEMMA ElementsWritten ==
  ASSUME NEW g, IsFrame(g), NEW n, n = Len(g.elems), NEW z, z = Size(g)
  PROVE  /\ n \in Nat /\ DOMAIN g.elems = 1..n /\ z \in {0, 1, 7, 30} /\ (z = 0 => n = 0)
         /\ FlattenSeq(ElementBits(g)) \in Seq(Bit)
         /\ Len(FlattenSeq(ElementBits(g))) = 8 * (n * z)
         /\ \A i \in 1..n :
              /\ (i - 1) * z \in Nat /\ 8 * ((i - 1) * z) + 8 * z <= 8 * (n * z)
              /\ SubSeq(FlattenSeq(ElementBits(g)), 8 * ((i - 1) * z) + 1, 8 * ((i - 1) * z) + 8 * z)
                   = PutElement(g.kind, g.elems[i], Gateway)
<1> DEFINE seqs == ElementBits(g)
           flat == FlattenSeq(seqs)
           at == [i \in 1..n + 1 |-> 8 * ((i - 1) * z)]
<1>1. n \in Nat /\ DOMAIN g.elems = 1..n /\ g.kind \in MsgKind
  <2>1. g.elems \in Seq(Range(g.elems))
    BY DEF IsFrame
  <2> QED
    BY <2>1 DEF IsFrame
<1>2. z \in {0, 1, 7, 30}
  BY <1>1, FixedLength DEF Size
<1>3. \A i \in 1..n : IsElement(g.kind, g.elems[i])
  BY <1>1 DEF IsFrame, Range
<1>4. \A i \in 1..n : /\ z # 0
                      /\ PutElement(g.kind, g.elems[i], Gateway) \in Seq(Bit)
                      /\ Len(PutElement(g.kind, g.elems[i], Gateway)) = 8 * z
  BY <1>3, ElementWritten DEF Size
<1>5. \A i \in 1..n : seqs[i] = PutElement(g.kind, g.elems[i], Gateway)
  BY <1>1 DEF ElementBits
<1>6. seqs \in Seq(Seq(Bit)) /\ Len(seqs) = n
  <2>1. seqs \in [1..n -> Seq(Bit)]
    BY <1>1, <1>4 DEF ElementBits
  <2> HIDE DEF seqs
  <2> QED
    BY <1>1, <2>1
<1> HIDE DEF seqs
<1>7. ASSUME NEW i \in 1..n
      PROVE  at[i + 1] = at[i] + Len(seqs[i])
  <2>1. at[i] = 8 * ((i - 1) * z) /\ at[i + 1] = 8 * (((i + 1) - 1) * z)
    BY <1>1
  <2>2. Len(seqs[i]) = 8 * z
    BY <1>4, <1>5
  <2>3. ((i + 1) - 1) * z = (i - 1) * z + z
    BY <1>1, <1>2
  <2>4. (i - 1) * z \in Nat
    BY <1>1, <1>2
  <2> HIDE DEF at
  <2> QED
    BY <1>2, <2>1, <2>2, <2>3, <2>4
<1>8. at[1] = 0 /\ at[n + 1] = 8 * (n * z)
  <2>1. at[1] = 8 * ((1 - 1) * z) /\ at[n + 1] = 8 * (((n + 1) - 1) * z)
    BY <1>1
  <2> HIDE DEF at
  <2> QED
    BY <1>1, <1>2, <2>1
<1>9. \A i \in 1..n : at[i] = 8 * ((i - 1) * z)
  BY <1>1
<1> HIDE DEF at
<1>10. /\ flat \in Seq(Bit) /\ Len(flat) = at[n + 1]
       /\ \A i \in 1..n : \A k \in 1..Len(seqs[i]) : flat[at[i] + k] = seqs[i][k]
  <2>1. at[1] = 0 /\ \A i \in 1..Len(seqs) : at[i + 1] = at[i] + Len(seqs[i])
    BY <1>6, <1>7, <1>8
  <2>2. /\ FlattenSeq(seqs) \in Seq(Bit)
        /\ Len(FlattenSeq(seqs)) = at[Len(seqs) + 1]
        /\ \A i \in 1..Len(seqs) :
             /\ at[i] \in Nat /\ at[i + 1] \in Nat /\ at[i + 1] <= Len(FlattenSeq(seqs))
             /\ \A k \in 1..Len(seqs[i]) : FlattenSeq(seqs)[at[i] + k] = seqs[i][k]
    <3>1. seqs \in Seq(Seq(Bit))
      BY <1>6
    <3> QED
      BY <3>1, <2>1, Flattened
  <2> QED
    BY <1>6, <2>2
<1> HIDE DEF flat
<1>11. ASSUME NEW i \in 1..n
       PROVE  /\ (i - 1) * z \in Nat /\ 8 * ((i - 1) * z) + 8 * z <= 8 * (n * z)
              /\ SubSeq(flat, 8 * ((i - 1) * z) + 1, 8 * ((i - 1) * z) + 8 * z)
                   = PutElement(g.kind, g.elems[i], Gateway)
  <2> DEFINE o == 8 * ((i - 1) * z)
             w == 8 * z
             e == seqs[i]
  <2>1. (i - 1) * z \in Nat /\ o \in Nat /\ w \in Nat
    BY <1>1, <1>2
  <2>2. (i - 1) * z + z <= n * z
    <3>1. i * z <= n * z
      BY <1>1, <1>2
    <3>2. (i - 1) * z + z = i * z
      BY <1>1, <1>2
    <3> QED
      BY <3>1, <3>2
  <2>3. o + w <= 8 * (n * z)
    <3>1. n * z \in Nat
      BY <1>1, <1>2
    <3>2. z \in Nat
      BY <1>2
    <3> QED
      BY <2>1, <2>2, <3>1, <3>2, InBytes
  <2>4. e \in Seq(Bit) /\ Len(e) = w
    BY <1>4, <1>5
  <2>5. \A k \in 1..w : flat[o + k] = e[k]
    <3>1. at[i] = o
      BY <1>9
    <3>2. \A k \in 1..Len(seqs[i]) : flat[at[i] + k] = seqs[i][k]
      BY <1>10
    <3> HIDE DEF o, w
    <3> QED
      BY <2>4, <3>1, <3>2
  <2> HIDE DEF o, w, e
  <2>6. SubSeq(flat, o + 1, o + w) = [k \in 1..w |-> flat[o + k]]
    BY <2>1, SliceOf
  <2>7. e = [k \in 1..w |-> e[k]]
    BY <2>4
  <2>8. SubSeq(flat, o + 1, o + w) = e
    BY <2>5, <2>6, <2>7
  <2>9. e = PutElement(g.kind, g.elems[i], Gateway)
    BY <1>5 DEF e
  <2> QED
    BY <2>1, <2>3, <2>8, <2>9 DEF o, w
<1>12. z = 0 => n = 0
  BY <1>1, <1>4
<1> QED
  BY <1>1, <1>2, <1>8, <1>10, <1>11, <1>12 DEF flat, seqs

\* A body is the fixed part, a code and a structure, and the elements.
LEMMA BodyWritten ==
  ASSUME NEW g, IsFrame(g)
  PROVE  /\ Body(g, Gateway) = (CodePart(g) \o RestPart(g)) \o FlattenSeq(ElementBits(g))
         /\ FixedPart(g, Gateway) = CodePart(g) \o RestPart(g)
<1> DEFINE A == IF LeadingRsc(g.kind) THEN Bits(g.rsc, 8) ELSE << >>
           B == IF g.kind = NotiError THEN Bits(g.nec, 8) ELSE << >>
           C == IF HasNP(g.kind) THEN Put(GwNP, g.np) ELSE << >>
           D == IF HasMCP(g.kind) THEN Put(GwMCP, g.mcp) ELSE << >>
<1>1. FixedPart(g, Gateway) = ((A \o B) \o C) \o D
  BY DEF FixedPart, Gateway
<1>2. g.kind \in MsgKind
  BY DEF IsFrame
<1>3. /\ HasNP(g.kind) => ~HasMCP(g.kind)
      /\ g.kind = NotiError => ~LeadingRsc(g.kind)
  BY <1>2, FixedLength
<1>4. CodePart(g) \in Seq(Bit) /\ RestPart(g) \in Seq(Bit)
  BY CodePartBits, RestPartBits
<1>5. A \o B = CodePart(g)
  <2>1. CASE LeadingRsc(g.kind)
    <3>1. A = CodePart(g) /\ B = << >>
      BY <1>3, <2>1 DEF CodePart
    <3> HIDE DEF A, B
    <3> QED
      BY <1>4, <3>1, NothingJoined
  <2>2. CASE ~LeadingRsc(g.kind)
    <3>1. A = << >> /\ B = CodePart(g)
      BY <2>2 DEF CodePart
    <3> HIDE DEF A, B
    <3> QED
      BY <1>4, <3>1, NothingJoined
  <2> QED
    BY <2>1, <2>2
<1>6. (CodePart(g) \o C) \o D = CodePart(g) \o RestPart(g)
  <2>1. CASE HasNP(g.kind)
    <3>1. C = RestPart(g) /\ D = << >>
      BY <1>3, <2>1 DEF RestPart
    <3> HIDE DEF C, D
    <3>2. CodePart(g) \o C \in Seq(Bit)
      BY <1>4, <3>1, JoinedLength
    <3>3. (CodePart(g) \o C) \o << >> = CodePart(g) \o C
      BY <3>2, NothingJoined
    <3> QED
      BY <3>1, <3>3
  <2>2. CASE ~HasNP(g.kind)
    <3>1. C = << >> /\ D = RestPart(g)
      BY <2>2 DEF RestPart
    <3> HIDE DEF C, D
    <3>2. CodePart(g) \o << >> = CodePart(g)
      BY <1>4, NothingJoined
    <3> QED
      BY <3>1, <3>2
  <2> QED
    BY <2>1, <2>2
<1>7. FixedPart(g, Gateway) = CodePart(g) \o RestPart(g)
  <2> HIDE DEF A, B, C, D
  <2> QED
    BY <1>1, <1>5, <1>6
<1> QED
  BY <1>7 DEF Body, ElementBits

\* The Status of a NODE_PROPERTY is its seventh byte, the Number of Devices its last.
LEMMA BytesOfNP ==
  ASSUME NEW body, NEW at \in {0, 1}
  PROVE  /\ Get(GwNP, Bytes(body, at, NP)).status = Byte(body, at + 7)
         /\ Get(GwNP, Bytes(body, at, NP)).num_devices = Byte(body, at + 8)
<1> DEFINE b == Bytes(body, at, NP)
<1>1. /\ DOMAIN GwNP = 1..5
      /\ GwNP[1][1] = "sw_version" /\ GwNP[2][1] = "gcg_id" /\ GwNP[3][1] = "node_id"
      /\ GwNP[4][1] = "status" /\ GwNP[5][1] = "num_devices" /\ GwNP[4][2] = 8 /\ GwNP[5][2] = 8
  BY DEF GwNP
<1>2. "status" \in Fields(GwNP) /\ "num_devices" \in Fields(GwNP)
  BY <1>1 DEF Fields, Range
<1>3. /\ (CHOOSE j \in DOMAIN GwNP : GwNP[j][1] = "status") = 4
      /\ (CHOOSE j \in DOMAIN GwNP : GwNP[j][1] = "num_devices") = 5
  BY <1>1
<1>4. /\ Get(GwNP, b).status = Value(SubSeq(b, Offset(GwNP, 4) + 1, Offset(GwNP, 4) + 8))
      /\ Get(GwNP, b).num_devices = Value(SubSeq(b, Offset(GwNP, 5) + 1, Offset(GwNP, 5) + 8))
  <2>1. \A name \in Fields(GwNP) : Get(GwNP, b)[name] =
          LET i == CHOOSE j \in DOMAIN GwNP : GwNP[j][1] = name
          IN  Value(SubSeq(b, Offset(GwNP, i) + 1, Offset(GwNP, i) + GwNP[i][2]))
    BY DEF Get
  <2> QED
    BY <1>1, <1>2, <1>3, <2>1
<1>5. /\ Get(GwNP, b).status = Value(SubSeq(b, 49, 56))
      /\ Get(GwNP, b).num_devices = Value(SubSeq(b, 57, 64))
  BY <1>4, NPWidth
<1>6. b = [i \in 1..64 |-> body[8 * at + i]]
  BY DEF Bytes, NP
<1>7. /\ SubSeq(b, 49, 56) = [i \in 1..8 |-> body[8 * at + 48 + i]]
      /\ SubSeq(b, 57, 64) = [i \in 1..8 |-> body[8 * at + 56 + i]]
  <2> HIDE DEF b
  <2>1. SubSeq(b, 49, 56) = [i \in 1..8 |-> b[48 + i]]
    OBVIOUS
  <2>2. SubSeq(b, 57, 64) = [i \in 1..8 |-> b[56 + i]]
    OBVIOUS
  <2> QED
    BY <1>6, <2>1, <2>2
<1>8. /\ SubSeq(body, 8 * (at + 7) - 7, 8 * (at + 7)) = [i \in 1..8 |-> body[8 * at + 48 + i]]
      /\ SubSeq(body, 8 * (at + 8) - 7, 8 * (at + 8)) = [i \in 1..8 |-> body[8 * at + 56 + i]]
  OBVIOUS
<1>9. /\ Value(SubSeq(b, 49, 56)) = Number(SubSeq(b, 49, 56))
      /\ Value(SubSeq(b, 57, 64)) = Number(SubSeq(b, 57, 64))
  <2>1. Len(SubSeq(b, 49, 56)) = 8 /\ Len(SubSeq(b, 57, 64)) = 8
    BY <1>7
  <2> QED
    BY <2>1 DEF Value
<1> QED
  BY <1>5, <1>7, <1>8, <1>9 DEF Byte

\* What a frame carries, as a decoder gives it back.
CarriedBy(g) ==
  [ code  |-> IF LeadingRsc(g.kind) THEN <<g.rsc>> ELSE IF g.kind = NotiError THEN <<g.nec>> ELSE None,
    np    |-> IF HasNP(g.kind) THEN g.np ELSE None,
    mcp   |-> IF HasMCP(g.kind) THEN g.mcp ELSE None,
    elems |-> g.elems ]

\* Of three sequences that were joined, the second.
LEMMA MiddlePart ==
  ASSUME NEW S, NEW c \in Seq(S), NEW r \in Seq(S), NEW e \in Seq(S)
  PROVE  SubSeq((c \o r) \o e, Len(c) + 1, Len(c) + Len(r)) = r
<1>1. c \o r \in Seq(S) /\ Len(c \o r) = Len(c) + Len(r)
  BY JoinedLength
<1>2. SubSeq((c \o r) \o e, Len(c) + 1, Len(c) + Len(r)) = SubSeq(c \o r, Len(c) + 1, Len(c) + Len(r))
  BY <1>1, SliceLeft
<1>3. SubSeq(c \o r, Len(c) + 0 + 1, Len(c) + 0 + Len(r)) = SubSeq(r, 0 + 1, 0 + Len(r))
  BY SliceRight
<1>4. SubSeq(r, 1, Len(r)) = r
  BY SliceAll
<1>5. /\ Len(c) + 0 + 1 = Len(c) + 1 /\ Len(c) + 0 + Len(r) = Len(c) + Len(r)
      /\ 0 + 1 = 1 /\ 0 + Len(r) = Len(r)
  OBVIOUS
<1> QED
  BY <1>2, <1>3, <1>4, <1>5, Zenon

\* Of three sequences that were joined, each.
LEMMA ThreeParts ==
  ASSUME NEW S, NEW c \in Seq(S), NEW r \in Seq(S), NEW e \in Seq(S), NEW a \in Nat, NEW b \in Nat,
         a = Len(c), b = Len(r), NEW body, body = (c \o r) \o e
  PROVE  /\ body \in Seq(S) /\ Len(body) = a + b + Len(e) /\ c \o r \in Seq(S) /\ Len(c \o r) = a + b
         /\ SubSeq(body, 1, a) = c
         /\ \A x, m \in Nat : x + m <= Len(e) =>
              SubSeq(body, a + b + x + 1, a + b + x + m) = SubSeq(e, x + 1, x + m)
<1>1. c \o r \in Seq(S) /\ Len(c \o r) = a + b
  BY JoinedLength
<1>2. body \in Seq(S) /\ Len(body) = a + b + Len(e)
  <2>1. body \in Seq(S) /\ Len(body) = Len(c \o r) + Len(e)
    BY <1>1, JoinedLength
  <2> QED
    BY <1>1, <2>1
<1>3. SubSeq(body, 1, a) = c
  <2>1. SubSeq(body, 0 + 1, 0 + a) = SubSeq(c \o r, 0 + 1, 0 + a)
    BY <1>1, SliceLeft
  <2>2. SubSeq(c \o r, 0 + 1, 0 + a) = SubSeq(c, 0 + 1, 0 + a)
    BY SliceLeft
  <2>3. SubSeq(c, 1, a) = c
    BY SliceAll
  <2> QED
    BY <2>1, <2>2, <2>3
<1>5. ASSUME NEW x \in Nat, NEW m \in Nat, x + m <= Len(e)
      PROVE  SubSeq(body, a + b + x + 1, a + b + x + m) = SubSeq(e, x + 1, x + m)
  <2>1. a + b \in Nat /\ a + b = Len(c \o r)
    BY <1>1
  <2> QED
    BY <1>1, <1>5, <2>1, SliceRight
<1> QED
  BY <1>1, <1>2, <1>3, <1>5

\* The parts of a body are where the decoders look for them.
LEMMA PartsWritten ==
  ASSUME NEW g, IsFrame(g), NEW body, body = Body(g, Gateway),
         NEW fixed, fixed = LayoutOfKind(g.kind).fixed, NEW n, n = Len(g.elems), NEW z, z = Size(g)
  PROVE  /\ body \in Seq(Bit) /\ Len(body) = 8 * (fixed + n * z)
         /\ Len(FixedPart(g, Gateway)) = 8 * fixed
         /\ LeadingRsc(g.kind) => Byte(body, 1) = g.rsc
         /\ g.kind = NotiError => Byte(body, 1) = g.nec
         /\ HasNP(g.kind) => Bytes(body, NPOffset(g.kind), NP) = Put(GwNP, g.np)
         /\ HasMCP(g.kind) => Bytes(body, fixed - MCP, MCP) = Put(GwMCP, g.mcp)
         /\ \A i \in 1..n : Bytes(body, fixed + (i - 1) * z, z) = PutElement(g.kind, g.elems[i], Gateway)
<1> DEFINE c == CodePart(g)
           r == RestPart(g)
           e == FlattenSeq(ElementBits(g))
           cb == CodeBytes(g.kind)
           rb == RestBytes(g.kind)
<1>0. g.kind \in MsgKind
  BY DEF IsFrame
<1>1. cb \in {0, 1} /\ rb \in {0, 7, 8} /\ fixed = cb + rb
  BY <1>0, FixedLength DEF CodeBytes, RestBytes
<1>2. c \in Seq(Bit) /\ Len(c) = 8 * cb /\ r \in Seq(Bit) /\ Len(r) = 8 * rb
  BY CodePartBits, RestPartBits
<1>3. body = (c \o r) \o e /\ FixedPart(g, Gateway) = c \o r
  BY BodyWritten
<1>4. /\ n \in Nat /\ z \in {0, 1, 7, 30}
      /\ e \in Seq(Bit)
      /\ Len(e) = 8 * (n * z)
  <2>1. n \in Nat
    BY ElementsWritten, Zenon
  <2>2. z \in {0, 1, 7, 30}
    BY ElementsWritten, Zenon
  <2>3. e \in Seq(Bit)
    BY ElementsWritten, Zenon
  <2>4. Len(e) = 8 * (n * z)
    <3> HIDE DEF c, r, cb, rb
    <3> QED
      BY ElementsWritten
  <2> QED
    BY <2>1, <2>2, <2>3, <2>4, Zenon
<1>41. \A i \in 1..n :
           /\ (i - 1) * z \in Nat /\ 8 * ((i - 1) * z) + 8 * z <= 8 * (n * z)
           /\ SubSeq(e, 8 * ((i - 1) * z) + 1, 8 * ((i - 1) * z) + 8 * z)
                = PutElement(g.kind, g.elems[i], Gateway)
  BY ElementsWritten, Zenon
<1> HIDE DEF c, r, e, cb, rb
<1>42. cb \in Nat /\ rb \in Nat /\ 8 * cb \in Nat /\ 8 * rb \in Nat /\ fixed \in Nat /\ 8 * fixed = 8 * cb + 8 * rb
  BY <1>1
<1>5. /\ body \in Seq(Bit) /\ Len(body) = 8 * cb + 8 * rb + Len(e)
      /\ Len(c \o r) = 8 * cb + 8 * rb
      /\ SubSeq(body, 1, 8 * cb) = c /\ SubSeq(body, 8 * cb + 1, 8 * cb + 8 * rb) = r
  <2>1. ASSUME NEW a \in Nat, NEW b \in Nat, a = Len(c), b = Len(r)
        PROVE  /\ body \in Seq(Bit) /\ Len(body) = a + b + Len(e)
               /\ Len(c \o r) = a + b
               /\ SubSeq(body, 1, a) = c /\ SubSeq(body, a + 1, a + b) = r
    <3>1. c \in Seq(Bit) /\ r \in Seq(Bit) /\ e \in Seq(Bit)
      BY <1>2, <1>4
    <3>2. body \in Seq(Bit) /\ Len(body) = a + b + Len(e)
      BY <1>3, <2>1, <3>1, ThreeParts
    <3>3. Len(c \o r) = a + b
      BY <1>3, <2>1, <3>1, ThreeParts
    <3>4. SubSeq(body, 1, a) = c
      BY <1>3, <2>1, <3>1, ThreeParts
    <3>5. SubSeq(body, a + 1, a + b) = r
      <4>1. SubSeq((c \o r) \o e, Len(c) + 1, Len(c) + Len(r)) = r
        BY <3>1, MiddlePart, Zenon
      <4> QED
        BY <1>3, <2>1, <4>1, Zenon
    <3> QED
      BY <3>2, <3>3, <3>4, <3>5
  <2> QED
    BY <1>2, <1>42, <2>1, Zenon
<1>51. \A x, m \in Nat : x + m <= Len(e) =>
              SubSeq(body, 8 * cb + 8 * rb + x + 1, 8 * cb + 8 * rb + x + m) = SubSeq(e, x + 1, x + m)
  <2>1. ASSUME NEW a \in Nat, NEW b \in Nat, a = Len(c), b = Len(r), NEW x \in Nat, NEW m \in Nat, x + m <= Len(e)
        PROVE  SubSeq(body, a + b + x + 1, a + b + x + m) = SubSeq(e, x + 1, x + m)
    <3>1. c \in Seq(Bit) /\ r \in Seq(Bit) /\ e \in Seq(Bit)
      BY <1>2, <1>4
    <3> QED
      BY <1>3, <2>1, <3>1, ThreeParts
  <2> QED
    BY <1>2, <1>42, <2>1, Zenon
<1>6. Len(body) = 8 * (fixed + n * z)
  <2>1. n * z \in Nat
    BY <1>4
  <2>2. \A p \in Nat : 8 * fixed + 8 * p = 8 * (fixed + p)
    BY <1>42
  <2>3. 8 * fixed + 8 * (n * z) = 8 * (fixed + n * z)
    BY <2>1, <2>2, Zenon
  <2> QED
    BY <1>4, <1>42, <1>5, <2>3, Zenon
<1>7. cb = 1 => SubSeq(body, 1, 8) = c
  BY <1>5
<1>8. SubSeq(body, 8 * cb + 1, 8 * (cb + rb)) = r
  BY <1>5, <1>42
<1>9. ASSUME NEW i \in 1..n
      PROVE  Bytes(body, fixed + (i - 1) * z, z) = PutElement(g.kind, g.elems[i], Gateway)
  <2> DEFINE x == (i - 1) * z
             bound == n * z
  <2>1. /\ x \in Nat /\ 8 * x + 8 * z <= 8 * bound
        /\ SubSeq(e, 8 * x + 1, 8 * x + 8 * z) = PutElement(g.kind, g.elems[i], Gateway)
        /\ Len(e) = 8 * bound
    BY <1>4, <1>41, Zenon
  <2> HIDE DEF x, bound
  <2>2. z \in Nat
    BY <1>4
  <2>3. 8 * x \in Nat /\ 8 * z \in Nat
    BY <2>1, <2>2
  <2>4. SubSeq(body, 8 * cb + 8 * rb + 8 * x + 1, 8 * cb + 8 * rb + 8 * x + 8 * z)
          = SubSeq(e, 8 * x + 1, 8 * x + 8 * z)
    BY <1>51, <2>1, <2>3, Zenon
  <2>5. 8 * (fixed + x) + 1 = 8 * cb + 8 * rb + 8 * x + 1 /\ 8 * (fixed + x + z) = 8 * cb + 8 * rb + 8 * x + 8 * z
    <3>1. x \in Nat
      BY <2>1
    <3> QED
      BY <1>1, <2>2, <3>1
  <2>6. Bytes(body, fixed + x, z) = SubSeq(body, 8 * (fixed + x) + 1, 8 * (fixed + x + z))
    BY DEF Bytes
  <2>7. Bytes(body, fixed + x, z) = PutElement(g.kind, g.elems[i], Gateway)
    BY <2>1, <2>4, <2>5, <2>6, Zenon
  <2> QED
    BY <2>7 DEF x
<1>10. Byte(body, 1) = Number(SubSeq(body, 1, 8))
  BY DEF Byte
<1>11. LeadingRsc(g.kind) => Byte(body, 1) = g.rsc
  <2> SUFFICES ASSUME LeadingRsc(g.kind) PROVE Byte(body, 1) = g.rsc
    OBVIOUS
  <2>1. cb = 1 /\ c = Bits(g.rsc, 8)
    BY DEF CodeBytes, CodePart, cb, c
  <2>2. Number(Bits(g.rsc, 8)) = g.rsc
    BY ByteOfCode DEF IsFrame
  <2> QED
    BY <1>7, <1>10, <2>1, <2>2
<1>12. g.kind = NotiError => Byte(body, 1) = g.nec
  <2> SUFFICES ASSUME g.kind = NotiError PROVE Byte(body, 1) = g.nec
    OBVIOUS
  <2>1. cb = 1 /\ c = Bits(g.nec, 8)
    BY <1>0, FixedLength DEF CodeBytes, CodePart, cb, c
  <2>2. Number(Bits(g.nec, 8)) = g.nec
    BY ByteOfCode DEF IsFrame
  <2> QED
    BY <1>7, <1>10, <2>1, <2>2
<1>13. HasNP(g.kind) => Bytes(body, NPOffset(g.kind), NP) = Put(GwNP, g.np)
  <2> SUFFICES ASSUME HasNP(g.kind) PROVE Bytes(body, NPOffset(g.kind), NP) = Put(GwNP, g.np)
    OBVIOUS
  <2>1. NPOffset(g.kind) = cb /\ rb = 8 /\ r = Put(GwNP, g.np)
    BY <1>0, FixedLength DEF RestBytes, RestPart, cb, rb, r
  <2> QED
    BY <1>8, <2>1 DEF Bytes, NP
<1>14. HasMCP(g.kind) => Bytes(body, fixed - MCP, MCP) = Put(GwMCP, g.mcp)
  <2> SUFFICES ASSUME HasMCP(g.kind) PROVE Bytes(body, fixed - MCP, MCP) = Put(GwMCP, g.mcp)
    OBVIOUS
  <2>1. rb = 7 /\ r = Put(GwMCP, g.mcp)
    BY <1>0, FixedLength DEF RestBytes, RestPart, rb, r
  <2>2. fixed - MCP = cb
    BY <1>1, <2>1 DEF MCP
  <2> QED
    BY <1>8, <2>1, <2>2 DEF Bytes, MCP
<1> QED
  <2>1. Len(FixedPart(g, Gateway)) = 8 * fixed
    BY <1>3, <1>42, <1>5
  <2> QED
    BY <1>5, <1>6, <1>9, <2>1, <1>11, <1>12, <1>13, <1>14

-----------------------------------------------------------------------------
(* The decoders.                                                           *)

\* Where the fixed part ends with a NODE_PROPERTY.
LEMMA FixedParts ==
  ASSUME NEW kind
  PROVE  /\ HasNP(kind) => NPOffset(kind) \in {0, 1} /\ LayoutOfKind(kind).fixed = NPOffset(kind) + NP
         /\ LayoutOfKind(kind).elem = DP => (HasNP(kind) <=> LayoutOfKind(kind).fixed >= NP)
<1>1. CASE kind = Req("SET_NODE_PROPERTY")
  BY <1>1 DEF LayoutOfKind, NPOffset, HasNP, NoOffset, NP, RSC, DP, DMI, Req, Res
<1>2. CASE kind = Req("SET_NODE_DEVICE_PROPERTY_ALL")
  BY <1>2 DEF LayoutOfKind, NPOffset, HasNP, NoOffset, NP, RSC, DP, DMI, Req, Res
<1>3. CASE kind = Res("SET_CONNECTION")
  <2>1. LayoutOfKind(kind) = [fixed |-> 9, elem |-> 30]
    BY <1>3 DEF LayoutOfKind, Req, Res, RSC, NP, DP
  <2>2. NPOffset(kind) = 1
    BY <1>3 DEF NPOffset, Req, Res, RSC
  <2> QED
    BY <2>1, <2>2 DEF HasNP, NoOffset, NP
<1>4. CASE kind = Res("GET_NODE_PROPERTY")
  <2>1. LayoutOfKind(kind) = [fixed |-> 9, elem |-> 0]
    BY <1>4 DEF LayoutOfKind, Req, Res, RSC, NP, DP
  <2>2. NPOffset(kind) = 1
    BY <1>4 DEF NPOffset, Req, Res, RSC
  <2> QED
    BY <2>1, <2>2 DEF HasNP, NoOffset, NP
<1>5. CASE kind = Res("GET_NODE_DEVICE_PROPERTY_ALL")
  <2>1. LayoutOfKind(kind) = [fixed |-> 9, elem |-> 30]
    BY <1>5 DEF LayoutOfKind, Req, Res, RSC, NP, DP
  <2>2. NPOffset(kind) = 1
    BY <1>5 DEF NPOffset, Req, Res, RSC
  <2> QED
    BY <2>1, <2>2 DEF HasNP, NoOffset, NP
<1>6. CASE kind \notin { Req("SET_NODE_PROPERTY"), Req("SET_NODE_DEVICE_PROPERTY_ALL"), Res("SET_CONNECTION"),
                         Res("GET_NODE_PROPERTY"), Res("GET_NODE_DEVICE_PROPERTY_ALL") }
  <2>1. ~HasNP(kind)
    BY <1>6 DEF NPOffset, HasNP
  <2>2. LayoutOfKind(kind).elem = DP => LayoutOfKind(kind).fixed \in {0, 1}
    <3> SUFFICES ASSUME LayoutOfKind(kind).elem = DP PROVE LayoutOfKind(kind).fixed \in {0, 1}
      OBVIOUS
    <3> QED
    BY <1>6 DEF LayoutOfKind, NP, RSC, DP, DMI, DID, MCP, NEC
  <2> QED
    BY <2>1, <2>2 DEF NP
<1> QED
  BY <1>1, <1>2, <1>3, <1>4, <1>5, <1>6

\* The same fixed parts are taken.
LEMMA FixedAlike ==
  ASSUME NEW kind \in MsgKind, NEW n \in 0..255, NEW fixed
  PROVE  GwFixedOk(kind, fixed, n) <=> NdFixedOk(kind, fixed, n)
<1>1. n % 256 = n
  OBVIOUS
<1>2. CASE HasNP(kind)
  BY <1>1, <1>2, FixedParts, BytesOfNP DEF GwFixedOk, NdFixedOk
<1>3. CASE ~HasNP(kind)
  BY <1>1, <1>3, FixedParts, BytesOfNP DEF GwFixedOk, NdFixedOk
<1> QED
  BY <1>2, <1>3

\* The same elements, and the same headers, are taken.
LEMMA ElementsAlike ==
  ASSUME NEW kind, NEW e
  PROVE  GwDecodesElement(kind, e) = NdDecodesElement(kind, e)
BY DEF GwDecodesElement, NdDecodesElement, GwDecodesDMI, NdDecodesDMI, GwDecodesDP, NdDecodesDP

LEMMA HeadersAlike ==
  ASSUME NEW h, NEW mode
  PROVE  GwDecodesHeader(h, mode) = NdDecodesHeader(h, mode)
BY DEF GwDecodesHeader, NdDecodesHeader

\* Behind a header that is taken there are as many elements as it says, of a kind.
LEMMA KindOfHeader ==
  ASSUME NEW h, NEW mode, GwDecodesHeader(h, mode) = Ok
  PROVE  /\ ResolveKind(h.msg_type, h.payload_len, mode).kind \in MsgKind
         /\ WIRE_CODE(ResolveKind(h.msg_type, h.payload_len, mode).kind, mode) = h.msg_type
         /\ Receivable(ResolveKind(h.msg_type, h.payload_len, mode).kind, h.payload_len)
<1> DEFINE cands == Candidates(h.msg_type, mode)
           fit   == { k \in cands : Receivable(k, h.payload_len) }
           found == ResolveKind(h.msg_type, h.payload_len, mode)
<1>1. found.kind # NoKind /\ Receivable(found.kind, h.payload_len)
  BY DEF GwDecodesHeader, Ok, BadFormat
<1>2. \A k \in cands \cup fit : k \in MsgKind /\ WIRE_CODE(k, mode) = h.msg_type
  BY DEF Candidates
<1>3. found.kind \in MsgKind /\ WIRE_CODE(found.kind, mode) = h.msg_type
  <2>1. CASE cands = {}
    BY <1>1, <2>1 DEF ResolveKind
  <2>2. CASE cands # {} /\ \E k \in cands : cands = {k}
    <3>1. found.kind = CHOOSE k \in cands : TRUE
      BY <2>2 DEF ResolveKind
    <3> HIDE DEF cands, found
    <3> QED
      BY <1>2, <2>2, <3>1
  <2>3. CASE cands # {} /\ ~ (\E k \in cands : cands = {k}) /\ fit # {}
    <3>1. found.kind = CHOOSE k \in fit : TRUE
      BY <2>3 DEF ResolveKind
    <3> HIDE DEF fit, found
    <3> QED
      BY <1>2, <2>3, <3>1
  <2>4. CASE cands # {} /\ ~ (\E k \in cands : cands = {k}) /\ fit = {}
    BY <1>1, <2>4 DEF ResolveKind
  <2> QED
    BY <2>1, <2>2, <2>3, <2>4
<1> QED
  BY <1>1, <1>3

LEMMA CountInRange ==
  ASSUME NEW kind \in MsgKind, NEW len \in Nat, Receivable(kind, len)
  PROVE  element_count(kind, len) \in 0..MaxDevices
<1> DEFINE elem == LayoutOfKind(kind).elem
           rest == len - LayoutOfKind(kind).fixed
<1>1. LayoutOfKind(kind).fixed \in Nat /\ elem \in {0, 1, 7, 30}
  BY FixedLength DEF CodeBytes, RestBytes
<1>2. rest \in Int /\ MaxDevices \in Nat
  BY <1>1, WireAssumption
<1>3. element_count(kind, len) =
        IF rest < 0 THEN NoCount
        ELSE IF elem = 0 THEN (IF rest = 0 THEN 0 ELSE NoCount)
        ELSE IF rest % elem # 0 \/ (rest \div elem = 0 /\ LayoutOfKind(kind).fixed = 0) \/ rest \div elem > MaxDevices
             THEN NoCount
        ELSE rest \div elem
  BY DEF element_count
<1>4. element_count(kind, len) # NoCount
  BY DEF Receivable
<1> HIDE DEF elem, rest
<1>5. CASE elem = 0
  BY <1>2, <1>3, <1>4, <1>5
<1>6. CASE elem = 1
  BY <1>2, <1>3, <1>4, <1>6
<1>7. CASE elem = 7
  BY <1>2, <1>3, <1>4, <1>7
<1>8. CASE elem = 30
  BY <1>2, <1>3, <1>4, <1>8
<1> QED
  BY <1>1, <1>5, <1>6, <1>7, <1>8

\* The decoders make the same of the same bits.
LEMMA DecodersAlike ==
  ASSUME NEW b, NEW mode, HeaderOf(b, Gateway).payload_len \in Nat
  PROVE  GwDecode(b, mode) = NdDecode(b, mode)
<1> DEFINE h    == HeaderOf(b, Gateway)
           kind == ResolveKind(h.msg_type, h.payload_len, mode).kind
           n    == element_count(kind, h.payload_len)
           c    == Content(kind, n, BodyOf(b), Gateway)
           Bad(v) == FirstBad([i \in 1..n |-> v[i]])
           gwBad == FirstBad([i \in 1..n |-> GwDecodesElement(kind, c.elems[i])])
           ndBad == FirstBad([i \in 1..n |-> NdDecodesElement(kind, c.elems[i])])
           Refused(verdict) == [verdict |-> verdict, kind |-> NoKind, content |-> None]
<1>1. GwDecode(b, mode) =
        IF GwDecodesHeader(h, mode) # Ok THEN Refused(GwDecodesHeader(h, mode))
        ELSE IF ~GwFixedOk(kind, BodyOf(b), n) THEN Refused(BadFormat)
        ELSE IF gwBad # Ok THEN Refused(gwBad)
        ELSE [verdict |-> Ok, kind |-> kind, content |-> c]
  BY DEF GwDecode
<1>2. NdDecode(b, mode) =
        IF NdDecodesHeader(h, mode) # Ok THEN Refused(NdDecodesHeader(h, mode))
        ELSE IF ~NdFixedOk(kind, BodyOf(b), n) THEN Refused(BadFormat)
        ELSE IF ndBad # Ok THEN Refused(ndBad)
        ELSE [verdict |-> Ok, kind |-> kind, content |-> c]
  BY LayoutsAlike DEF NdDecode
<1>3. GwDecodesHeader(h, mode) = NdDecodesHeader(h, mode)
  BY HeadersAlike
<1>4. gwBad = ndBad
  BY ElementsAlike
<1>5. GwDecodesHeader(h, mode) = Ok => (GwFixedOk(kind, BodyOf(b), n) <=> NdFixedOk(kind, BodyOf(b), n))
  <2> SUFFICES ASSUME GwDecodesHeader(h, mode) = Ok
               PROVE  GwFixedOk(kind, BodyOf(b), n) <=> NdFixedOk(kind, BodyOf(b), n)
    OBVIOUS
  <2>1. kind \in MsgKind /\ Receivable(kind, h.payload_len)
    BY KindOfHeader
  <2>2. n \in 0..MaxDevices
    BY <2>1, CountInRange
  <2>3. n \in 0..255
    BY <2>2, WireAssumption
  <2> HIDE DEF kind, n
  <2> QED
    BY <2>1, <2>3, FixedAlike
<1> HIDE DEF h, kind, n, c, gwBad, ndBad, Refused
<1> QED
  <2>1. CASE GwDecodesHeader(h, mode) # Ok
    BY <1>1, <1>2, <1>3, <2>1
  <2>2. CASE GwDecodesHeader(h, mode) = Ok
    BY <1>1, <1>2, <1>3, <1>4, <1>5, <2>2
  <2> QED
    BY <2>1, <2>2

\* The header of a frame is read as it was written, and the rest is its body.
LEMMA HeaderRead ==
  ASSUME NEW h, IsRecord(GwHeader, h), NEW rest \in Seq(Bit), NEW b, b = Put(GwHeader, h) \o rest
  PROVE  HeaderOf(b, Gateway) = h /\ BodyOf(b) = rest /\ h.payload_len \in Nat
<1> DEFINE put == Put(GwHeader, h)
<1>1. put \in Seq(Bit) /\ Len(put) = 96 /\ Get(GwHeader, put) = h
  BY GetOfPut, HeaderLayout, HeaderWidth
<1> HIDE DEF put
<1>2. SubSeq(b, 1, 96) = put
  BY <1>1, JoinedLeft DEF put
<1>3. Len(b) = 96 + Len(rest)
  <2>1. Len(b) = Len(put) + Len(rest)
    BY <1>1, JoinedLength DEF put
  <2> QED
    BY <1>1, <2>1
<1>4. SubSeq(b, 97, 96 + Len(rest)) = rest
  <2>1. SubSeq(b, Len(put) + 1, Len(put) + Len(rest)) = rest
    BY <1>1, JoinedRight DEF put
  <2>2. 96 + 1 = 97
    OBVIOUS
  <2> QED
    BY <1>1, <2>1, <2>2, Zenon
<1>5. HeaderOf(b, Gateway) = h
  <2>1. 8 * HEADER_BYTES = 96 /\ Gateway.header = GwHeader
    BY DEF HEADER_BYTES, Gateway
  <2> QED
    BY <1>1, <1>2, <2>1 DEF HeaderOf
<1>6. BodyOf(b) = rest
  <2>1. 8 * HEADER_BYTES + 1 = 97
    BY DEF HEADER_BYTES
  <2> QED
    BY <1>3, <1>4, <2>1, Zenon DEF BodyOf
<1>7. h.payload_len \in Nat
  <2>1. Fits(h.payload_len, 16)
    <3>1. 5 \in DOMAIN GwHeader /\ GwHeader[5][1] = "payload_len" /\ GwHeader[5][2] = 16
      BY DEF GwHeader
    <3>2. \A i \in DOMAIN GwHeader : GwHeader[i][1] # "reserved" => Fits(h[GwHeader[i][1]], GwHeader[i][2])
      BY DEF IsRecord, AllFit
    <3>3. "payload_len" # "reserved"
      OBVIOUS
    <3> QED
      BY <3>1, <3>2, <3>3
  <2>2. 2^16 \in Nat
    BY Powers
  <2> QED
    BY <2>1, <2>2 DEF Fits, Numbers
<1> QED
  BY <1>5, <1>6, <1>7

-----------------------------------------------------------------------------
(* What is written.                                                        *)

\* Seven numbers make a header.
LEMMA HeaderFits ==
  ASSUME NEW h
  PROVE  AllFit(GwHeader, h) <=>
           /\ Fits(h.version, 8) /\ Fits(h.msg_type, 14) /\ Fits(h.trans_type, 2) /\ Fits(h.msg_id, 16)
           /\ Fits(h.payload_len, 16) /\ Fits(h.gcg_id, 20) /\ Fits(h.node_id, 20)
<1>1. /\ DOMAIN GwHeader = 1..7
      /\ GwHeader[1] = <<"version", 8>> /\ GwHeader[2] = <<"msg_type", 14>>
      /\ GwHeader[3] = <<"trans_type", 2>> /\ GwHeader[4] = <<"msg_id", 16>>
      /\ GwHeader[5] = <<"payload_len", 16>> /\ GwHeader[6] = <<"gcg_id", 20>>
      /\ GwHeader[7] = <<"node_id", 20>>
  BY DEF GwHeader
<1>2. ASSUME NEW i \in DOMAIN GwHeader
      PROVE  i = 1 \/ i = 2 \/ i = 3 \/ i = 4 \/ i = 5 \/ i = 6 \/ i = 7
  BY <1>1
<1>3. AllFit(GwHeader, h) <=>
        \A i \in DOMAIN GwHeader : GwHeader[i][1] # "reserved" => Fits(h[GwHeader[i][1]], GwHeader[i][2])
  BY DEF AllFit
<1>4. 1 \in 1..7 /\ 2 \in 1..7 /\ 3 \in 1..7 /\ 4 \in 1..7 /\ 5 \in 1..7 /\ 6 \in 1..7 /\ 7 \in 1..7
  OBVIOUS
<1> QED
  BY <1>1, <1>2, <1>3, <1>4

\* The programs lay a body out alike; the virtual node has no flow control profile.
LEMMA BodiesAlike ==
  ASSUME NEW g
  PROVE  /\ Frame(g, Node) = Frame(g, Gateway)
         /\ ~HasMCP(g.kind) => Body(g, VirtualNode) = Body(g, Gateway)
<1>1. Frame(g, Node) = Frame(g, Gateway)
  BY LayoutsAlike
<1>2. Gateway.np = GwNP /\ Gateway.dmi = GwDMI /\ Gateway.dp = GwDP
  BY DEF Gateway
<1>3. ASSUME ~HasMCP(g.kind)
      PROVE  Body(g, VirtualNode) = Body(g, Gateway)
  <2>1. FixedPart(g, VirtualNode) = FixedPart(g, Gateway)
    BY <1>2, <1>3, SimAlike DEF FixedPart
  <2>2. ASSUME NEW e
        PROVE  PutElement(g.kind, e, VirtualNode) = PutElement(g.kind, e, Gateway)
    BY <1>2, SimAlike DEF PutElement
  <2>3. [i \in DOMAIN g.elems |-> PutElement(g.kind, g.elems[i], VirtualNode)]
          = [i \in DOMAIN g.elems |-> PutElement(g.kind, g.elems[i], Gateway)]
    BY <2>2
  <2> QED
    BY <2>1, <2>3 DEF Body
<1> QED
  BY <1>1, <1>3

\* The codes that the virtual node has written down are those of the table.
LEMMA SimCodes ==
  ASSUME NEW kind \in SimBuilds
  PROVE  kind \in MsgKind /\ ~HasMCP(kind) /\ SimCode(kind) = WIRE_CODE(kind, "strict")
<1>1. /\ DOMAIN Operations = 1..14 /\ Operations[1] = "SET_CONNECTION" /\ Operations[5] = "SET_DEVICE_PROPERTY"
      /\ Operations[6] = "SET_NODE_DEVICE_PROPERTY_ALL" /\ Operations[13] = "SET_DEVICE_CONTROL"
      /\ \A i, j \in 1..14 : Operations[i] = Operations[j] => i = j
  BY DEF Operations
<1>2. /\ DOMAIN Notices = 1..5 /\ Notices[2] = "DEVICE_VALUE" /\ Notices[5] = "KEEP_ALIVE"
      /\ \A i, j \in 1..5 : Notices[i] = Notices[j] => i = j
  BY DEF Notices
<1>3. ASSUME NEW i \in 1..14
      PROVE  Operations[i] \in Range(Operations) /\ Place(Operations, Operations[i]) = i
  <2>1. Operations[i] \in Range(Operations)
    BY <1>1 DEF Range
  <2> QED
    BY <1>1, <2>1, PlaceOfOperation
<1>4. ASSUME NEW i \in 1..5
      PROVE  Notices[i] \in Range(Notices) /\ Place(Notices, Notices[i]) = i
  <2>1. Notices[i] \in Range(Notices)
    BY <1>2 DEF Range
  <2> QED
    BY <1>2, <2>1, PlaceOfNotice
<1>5. "strict" \in Modes
  BY DEF Modes
<1>6. CASE kind = Req("SET_CONNECTION")
  <2>1. Place(Operations, "SET_CONNECTION") = 1 /\ "SET_CONNECTION" \in Range(Operations)
    BY <1>1, <1>3
  <2>2. WIRE_CODE(kind, "strict") = 0
    BY <1>5, <1>6, <2>1, CodeOfRequest DEF Req
  <2> QED
    BY <1>6, <2>1, <2>2 DEF SimCode, Req, Res, HasMCP, MsgKind
<1>7. CASE kind = Req("SET_NODE_DEVICE_PROPERTY_ALL")
  <2>1. Place(Operations, "SET_NODE_DEVICE_PROPERTY_ALL") = 6 /\ "SET_NODE_DEVICE_PROPERTY_ALL" \in Range(Operations)
    BY <1>1, <1>3
  <2>2. WIRE_CODE(kind, "strict") = 5
    BY <1>5, <1>7, <2>1, CodeOfRequest DEF Req
  <2> QED
    BY <1>7, <2>1, <2>2 DEF SimCode, Req, Res, HasMCP, MsgKind
<1>8. CASE kind = Res("SET_DEVICE_PROPERTY")
  <2>1. Place(Operations, "SET_DEVICE_PROPERTY") = 5 /\ "SET_DEVICE_PROPERTY" \in Range(Operations)
    BY <1>1, <1>3
  <2>2. WIRE_CODE(kind, "strict") = 1028
    BY <1>5, <1>8, <2>1, CodeOfResponse DEF Res
  <2> QED
    BY <1>8, <2>1, <2>2 DEF SimCode, Req, Res, HasMCP, MsgKind
<1>9. CASE kind = Res("SET_DEVICE_CONTROL")
  <2>1. Place(Operations, "SET_DEVICE_CONTROL") = 13 /\ "SET_DEVICE_CONTROL" \in Range(Operations)
    BY <1>1, <1>3
  <2>2. WIRE_CODE(kind, "strict") = 1036
    BY <1>5, <1>9, <2>1, CodeOfResponse DEF Res
  <2> QED
    BY <1>9, <2>1, <2>2 DEF SimCode, Req, Res, HasMCP, MsgKind
<1>10. CASE kind = <<"NOTI", "DEVICE_VALUE">>
  <2>1. Place(Notices, "DEVICE_VALUE") = 2 /\ "DEVICE_VALUE" \in Range(Notices)
    BY <1>2, <1>4
  <2>2. WIRE_CODE(kind, "strict") = 2048
    BY <1>5, <1>10, <2>1, CodeOfNotice DEF NotiCode
  <2> QED
    BY <1>10, <2>1, <2>2 DEF SimCode, Req, Res, HasMCP, MsgKind
<1>11. CASE kind = <<"NOTI", "KEEP_ALIVE">>
  <2>1. Place(Notices, "KEEP_ALIVE") = 5 /\ "KEEP_ALIVE" \in Range(Notices)
    BY <1>2, <1>4
  <2>2. WIRE_CODE(kind, "strict") = 2051
    BY <1>5, <1>11, <2>1, CodeOfNotice DEF NotiCode
  <2> QED
    BY <1>11, <2>1, <2>2 DEF SimCode, Req, Res, HasMCP, MsgKind
<1> QED
  BY <1>6, <1>7, <1>8, <1>9, <1>10, <1>11 DEF SimBuilds

\* A header is taken with the code and the length of one that is taken.
LEMMA HeaderTaken ==
  ASSUME NEW g, NEW h, NEW mode, GwDecodesHeader(g, mode) = Ok, h.version = SIAP_VERSION,
         h.trans_type = 0, h.msg_type = g.msg_type, h.payload_len = g.payload_len
  PROVE  GwDecodesHeader(h, mode) = Ok
<1> DEFINE found == ResolveKind(g.msg_type, g.payload_len, mode)
<1>1. found.kind # NoKind /\ Receivable(found.kind, g.payload_len)
  BY DEF GwDecodesHeader, Ok, BadFormat
<1>2. ResolveKind(h.msg_type, h.payload_len, mode) = found
  OBVIOUS
<1>3. ~ (h.trans_type > MaxTrans)
  BY DEF MaxTrans
<1> QED
  BY <1>1, <1>2, <1>3 DEF GwDecodesHeader

\* The header that the virtual node gives to a frame it builds is taken, and says
\* of the body what the header of the frame says.
SimHeaderOf(g) == [g EXCEPT !.version = SIAP_VERSION, !.msg_type = g.msg_type, !.trans_type = 0,
                            !.payload_len = g.payload_len]

LEMMA VirtualHeader ==
  ASSUME NEW g, NEW h, IsRecord(GwHeader, g), GwDecodesHeader(g, "strict") = Ok, h = SimHeaderOf(g)
  PROVE  /\ IsRecord(GwHeader, h) /\ GwDecodesHeader(h, "strict") = Ok
         /\ h.msg_type = g.msg_type /\ h.payload_len = g.payload_len
<1>1. Fields(GwHeader) = {"version", "msg_type", "trans_type", "msg_id", "payload_len", "gcg_id", "node_id"}
  <2>1. /\ DOMAIN GwHeader = 1..7
        /\ GwHeader[1] = <<"version", 8>> /\ GwHeader[2] = <<"msg_type", 14>>
        /\ GwHeader[3] = <<"trans_type", 2>> /\ GwHeader[4] = <<"msg_id", 16>>
        /\ GwHeader[5] = <<"payload_len", 16>> /\ GwHeader[6] = <<"gcg_id", 20>>
        /\ GwHeader[7] = <<"node_id", 20>>
    BY DEF GwHeader
  <2>2. Range(GwHeader) = { GwHeader[i] : i \in 1..7 }
    BY <2>1 DEF Range
  <2>3. Fields(GwHeader) = { GwHeader[i][1] : i \in 1..7 } \ {"reserved"}
    BY <2>2 DEF Fields
  <2>4. { GwHeader[i][1] : i \in 1..7 }
          = {"version", "msg_type", "trans_type", "msg_id", "payload_len", "gcg_id", "node_id"}
    BY <2>1
  <2> QED
    BY <2>3, <2>4
<1>2. g = [name \in Fields(GwHeader) |-> g[name]] /\ AllFit(GwHeader, g)
  BY DEF IsRecord
<1>3. /\ h.version = 18 /\ h.trans_type = 0 /\ h.msg_type = g.msg_type /\ h.payload_len = g.payload_len
      /\ h.msg_id = g.msg_id /\ h.gcg_id = g.gcg_id /\ h.node_id = g.node_id
  BY <1>1, <1>2 DEF SIAP_VERSION, SimHeaderOf
<1>4. h = [name \in Fields(GwHeader) |-> h[name]]
  BY <1>1, <1>2 DEF SimHeaderOf
<1>5. Fits(18, 8) /\ Fits(0, 2)
  <2>1. 2^8 = 256 /\ 2^2 = 4
    OBVIOUS
  <2> QED
    BY <2>1 DEF Fits, Numbers
<1>6. AllFit(GwHeader, h)
  BY <1>2, <1>3, <1>5, HeaderFits
<1>7. GwDecodesHeader(h, "strict") = Ok
  <2>1. h.version = SIAP_VERSION
    BY <1>3 DEF SIAP_VERSION
  <2> QED
    BY <1>3, <2>1, HeaderTaken, Zenon
<1> QED
  BY <1>3, <1>4, <1>6, <1>7 DEF IsRecord

-----------------------------------------------------------------------------
(* The inductive invariant.                                                *)

Writers == {"nobody", "gateway", "node", "virtual node", "anybody"}

\* What is written is a header and a body; of a frame as the programs make them
\* it is the body of that frame, behind a header that is taken.
IsWritten(h, rest) ==
  /\ IsRecord(GwHeader, h) /\ rest \in Seq(Bit) /\ bits = Put(GwHeader, h) \o rest
  /\ Built => /\ rest = Body(f, Gateway)
              /\ h.msg_type = f.header.msg_type /\ h.payload_len = f.header.payload_len
              /\ GwDecodesHeader(h, sample.mode) = Ok

IInv ==
  /\ sample \in Samples /\ by \in Writers
  /\ by = "nobody" => gw = NotRead /\ nd = NotRead
  /\ by # "nobody" => \E h, rest : IsWritten(h, rest)
  /\ by = "gateway" => Built /\ GwEncodes(f)
  /\ by \in {"node", "virtual node"} => Built /\ NdEncodes(f)
  /\ gw = NotRead \/ gw = GwDecode(bits, sample.mode)
  /\ nd = NotRead \/ nd = NdDecode(bits, sample.mode)

\* It holds of a frame that nobody has written.
LEMMA InitIInv == Init => IInv
BY DEF Init, IInv, Writers

\* A frame that is one of the samples, and its body.
LEMMA FrameOfSample ==
  ASSUME sample \in Samples
  PROVE  IsFrame(f) /\ sample.mode \in Modes /\ sample.tail \in Nat /\ Body(f, Gateway) \in Seq(Bit)
<1>1. IsFrame(f) /\ sample.mode \in Modes /\ sample.tail \in Nat
  BY WireAssumption DEF f
<1>2. Body(f, Gateway) \in Seq(Bit)
  BY <1>1, PartsWritten
<1> QED
  BY <1>1, <1>2

\* What the gateway and the node write is written.
LEMMA FrameWritten ==
  ASSUME sample \in Samples, bits' = Frame(f, Gateway), UNCHANGED sample
  PROVE  IsWritten(f.header, Body(f, Gateway))'
<1>1. IsFrame(f) /\ Body(f, Gateway) \in Seq(Bit)
  BY FrameOfSample
<1>2. IsRecord(GwHeader, f.header)
  BY <1>1 DEF IsFrame
<1>3. f' = f /\ (Built' <=> Built)
  BY DEF f, Built
<1>4. bits' = Put(GwHeader, f.header) \o Body(f, Gateway)
  BY DEF Frame, Gateway
<1>5. Built => GwDecodesHeader(f.header, sample.mode) = Ok
  BY DEF Built
<1> QED
  BY <1>1, <1>2, <1>3, <1>4, <1>5 DEF IsWritten

\* Anybody's frame may have bytes behind it.
LEMMA TailWritten ==
  ASSUME IInv, AnybodyWrites
  PROVE  \E h, rest : IsWritten(h, rest)'
<1> DEFINE body == Body(f, Gateway)
           zeros == [i \in 1..(8 * sample.tail) |-> 0]
           rest == body \o zeros
<1>1. IsFrame(f) /\ sample.tail \in Nat /\ body \in Seq(Bit) /\ sample' = sample
  BY FrameOfSample DEF IInv, AnybodyWrites, Write
<1>2. zeros \in Seq(Bit)
  <2>1. 8 * sample.tail \in Nat
    BY <1>1
  <2> QED
    BY <2>1 DEF Bit
<1>3. IsRecord(GwHeader, f.header)
  BY <1>1 DEF IsFrame
<1>4. f' = f /\ (Built' <=> Built)
  BY <1>1 DEF f, Built
<1>5. Put(GwHeader, f.header) \in Seq(Bit)
  BY <1>3, GetOfPut, HeaderLayout
<1>6. bits' = Put(GwHeader, f.header) \o rest
  <2>1. bits' = (Put(GwHeader, f.header) \o body) \o zeros
    BY DEF AnybodyWrites, Write, Frame, Gateway
  <2>2. body \in Seq(Bit)
    BY <1>1
  <2> HIDE DEF body, zeros, rest
  <2>3. (Put(GwHeader, f.header) \o body) \o zeros = Put(GwHeader, f.header) \o (body \o zeros)
    BY <1>2, <1>5, <2>2, JoinedTwice
  <2> QED
    BY <2>1, <2>3, Zenon DEF rest
<1>7. rest \in Seq(Bit)
  <2> HIDE DEF body, zeros
  <2> QED
    BY <1>1, <1>2, JoinedLength
<1>8. Built => rest = body
  <2> SUFFICES ASSUME Built PROVE rest = body
    OBVIOUS
  <2>1. sample.tail = 0
    BY DEF Built
  <2>2. zeros = << >>
    BY <2>1
  <2> HIDE DEF body, zeros
  <2> QED
    BY <1>1, <2>2, NothingJoined
<1>9. Built => GwDecodesHeader(f.header, sample.mode) = Ok
  BY DEF Built
<1> HIDE DEF rest
<1>10. PICK r : r = rest
  OBVIOUS
<1>11. PICK h : h = f.header
  OBVIOUS
<1>12. IsWritten(h, r)'
  BY <1>1, <1>3, <1>4, <1>6, <1>7, <1>8, <1>9, <1>10, <1>11 DEF IsWritten
<1> QED
  BY <1>12

\* The virtual node has a header of its own.
LEMMA VirtualWritten ==
  ASSUME IInv, VirtualNodeWrites
  PROVE  \E h, rest : IsWritten(h, rest)'
<1> DEFINE g == f.header
           body == Body(f, Gateway)
           size == LayoutOfKind(f.kind).fixed + Len(f.elems) * LayoutOfKind(f.kind).elem
           h == SimHeaderOf(g)
<1>1. /\ sample \in Samples /\ sample' = sample /\ Built /\ sample.mode = "strict"
      /\ f.kind \in SimBuilds /\ bits' = SimFrame(f)
  BY DEF IInv, VirtualNodeWrites, Write
<1>2. IsFrame(f) /\ body \in Seq(Bit)
  BY <1>1, FrameOfSample
<1>3. f' = f /\ (Built' <=> Built)
  BY <1>1 DEF f, Built
<1>4. /\ GwDecodesHeader(g, "strict") = Ok /\ g.msg_type = WIRE_CODE(f.kind, "strict") /\ g.payload_len = size
  BY <1>1 DEF Built
<1>5. SimCode(f.kind) = g.msg_type /\ ~HasMCP(f.kind)
  BY <1>1, <1>4, SimCodes
<1>6. Body(f, VirtualNode) = body
  BY <1>5, BodiesAlike
<1>7. Len(body) \div 8 = g.payload_len
  <2>1. Len(body) = 8 * size
    BY <1>2, PartsWritten DEF Size
  <2>2. size \in Nat
    <3>1. f.kind \in MsgKind /\ Len(f.elems) \in Nat
      BY <1>2 DEF IsFrame
    <3>2. LayoutOfKind(f.kind).fixed \in Nat /\ LayoutOfKind(f.kind).elem \in {0, 1, 7, 30}
      BY <3>1, FixedLength DEF CodeBytes, RestBytes
    <3> QED
      BY <3>1, <3>2
  <2> HIDE DEF size, body
  <2> QED
    BY <1>4, <2>1, <2>2
<1>8. bits' = Put(GwHeader, h) \o body
  <2> HIDE DEF g, body
  <2>1. bits' = Put(VirtualNode.header,
                  [f.header EXCEPT !.version = SIAP_VERSION, !.msg_type = SimCode(f.kind), !.trans_type = 0,
                                   !.payload_len = Len(body) \div 8]) \o body
    BY <1>1, <1>6 DEF SimFrame
  <2> QED
    BY <1>5, <1>7, <2>1, SimAlike DEF g, SimHeaderOf
<1>9. IsRecord(GwHeader, g)
  BY <1>2 DEF IsFrame
<1> HIDE DEF body, size, h, g
<1>10. /\ IsRecord(GwHeader, h) /\ GwDecodesHeader(h, "strict") = Ok
       /\ h.msg_type = g.msg_type /\ h.payload_len = g.payload_len
  <2>1. h = SimHeaderOf(g)
    BY DEF h
  <2> QED
    BY <1>4, <1>9, <2>1, VirtualHeader
<1>11. PICK r : r = body
  OBVIOUS
<1>12. PICK k : k = h
  OBVIOUS
<1>13. IsWritten(k, r)'
  BY <1>1, <1>2, <1>3, <1>8, <1>10, <1>11, <1>12 DEF IsWritten, g, body
<1> QED
  BY <1>13

\* Every writer establishes it, and reading keeps it.
LEMMA NextIInv == IInv /\ [Next]_vars => IInv'
<1> SUFFICES ASSUME IInv, [Next]_vars PROVE IInv'
  OBVIOUS
<1> DEFINE Kept == UNCHANGED <<sample, gw, nd>> /\ by = "nobody"
<1>1. ASSUME sample' = sample
      PROVE  /\ f' = f /\ (Built' <=> Built) /\ (GwEncodes(f)' <=> GwEncodes(f)) /\ (NdEncodes(f)' <=> NdEncodes(f))
             /\ \A h, rest : bits' = bits => (IsWritten(h, rest)' <=> IsWritten(h, rest))
  BY <1>1 DEF f, Built, IsWritten
<1>2. CASE GatewayWrites
  <2>1. /\ by = "nobody" /\ by' = "gateway" /\ UNCHANGED <<sample, gw, nd>>
        /\ bits' = Frame(f, Gateway) /\ Built /\ GwEncodes(f)
    BY <1>2 DEF GatewayWrites, Write
  <2>2. IsWritten(f.header, Body(f, Gateway))'
    BY <2>1, FrameWritten DEF IInv
  <2>3. \E h, rest : IsWritten(h, rest)'
    BY <2>2
  <2> QED
    BY <1>1, <2>1, <2>3 DEF IInv, Writers
<1>3. CASE NodeWrites
  <2>1. /\ by = "nobody" /\ by' = "node" /\ UNCHANGED <<sample, gw, nd>>
        /\ bits' = Frame(f, Gateway) /\ Built /\ NdEncodes(f)
    BY <1>3, BodiesAlike DEF NodeWrites, Write
  <2>2. IsWritten(f.header, Body(f, Gateway))'
    BY <2>1, FrameWritten DEF IInv
  <2>3. \E h, rest : IsWritten(h, rest)'
    BY <2>2
  <2> QED
    BY <1>1, <2>1, <2>3 DEF IInv, Writers
<1>4. CASE VirtualNodeWrites
  <2>1. /\ by = "nobody" /\ by' = "virtual node" /\ UNCHANGED <<sample, gw, nd>> /\ Built /\ NdEncodes(f)
    BY <1>4 DEF VirtualNodeWrites, Write
  <2>2. \E h, rest : IsWritten(h, rest)'
    BY <1>4, VirtualWritten
  <2> QED
    BY <1>1, <2>1, <2>2 DEF IInv, Writers
<1>5. CASE AnybodyWrites
  <2>1. by = "nobody" /\ by' = "anybody" /\ UNCHANGED <<sample, gw, nd>>
    BY <1>5 DEF AnybodyWrites, Write
  <2>2. \E h, rest : IsWritten(h, rest)'
    BY <1>5, TailWritten
  <2> QED
    BY <2>1, <2>2 DEF IInv, Writers
<1>6. CASE GatewayReads
  BY <1>1, <1>6 DEF IInv, GatewayReads
<1>7. CASE NodeReads
  BY <1>1, <1>7 DEF IInv, NodeReads
<1>8. CASE UNCHANGED vars
  BY <1>1, <1>8 DEF IInv, vars
<1> QED
  BY <1>2, <1>3, <1>4, <1>5, <1>6, <1>7, <1>8 DEF Next

\* So it always holds.
THEOREM WireInvariant == Spec => []IInv
BY InitIInv, NextIInv, PTL DEF Spec

-----------------------------------------------------------------------------
(* The properties.                                                         *)

\* Both decoders take a code for the kind that was sent, at every length that
\* it can have (resolve_kind, siap_resolve_kind).
THEOREM KindsKeptApart == Spec => []KindsApart
<1>1. IInv => KindsApart
  <2> SUFFICES ASSUME IInv, NEW len \in Lengths, Receivable(f.kind, len)
               PROVE  ResolveKind(WIRE_CODE(f.kind, sample.mode), len, sample.mode).kind = f.kind
    BY DEF KindsApart
  <2>1. f.kind \in MsgKind /\ sample.mode \in Modes /\ len \in Nat
    BY WireAssumption, FrameOfSample DEF IInv, IsFrame
  <2> QED
    BY <2>1, KindResolved
<1> QED
  BY <1>1, WireInvariant, PTL

\* Of the same frame, sound or not, the gateway and the node give the same verdict and
\* read the same, whoever sent it (_decode_frame, siap_dec_feed).
THEOREM GatewayReadsAsNode == Spec => []DecodersAgree
<1>1. IInv => DecodersAgree
  <2> SUFFICES ASSUME IInv, gw # NotRead, nd # NotRead
               PROVE  gw = nd
    BY DEF DecodersAgree
  <2>1. gw = GwDecode(bits, sample.mode) /\ nd = NdDecode(bits, sample.mode) /\ by # "nobody"
    BY DEF IInv
  <2>2. PICK h, rest : IsWritten(h, rest)
    BY <2>1 DEF IInv
  <2>3. HeaderOf(bits, Gateway).payload_len \in Nat
    BY <2>2, HeaderRead DEF IsWritten
  <2> QED
    BY <2>1, <2>3, DecodersAlike
<1> QED
  BY <1>1, WireInvariant, PTL

-----------------------------------------------------------------------------
(* Reading of a frame as the programs make them.                           *)

\* Its kind and the number of its elements are found.
LEMMA KindMeant ==
  ASSUME NEW k \in MsgKind, NEW mode \in Modes, NEW n \in Nat, LayoutOfKind(k).elem = 0 => n = 0,
         NEW h, GwDecodesHeader(h, mode) = Ok, h.msg_type = WIRE_CODE(k, mode),
         h.payload_len = LayoutOfKind(k).fixed + n * LayoutOfKind(k).elem
  PROVE  /\ ResolveKind(h.msg_type, h.payload_len, mode).kind = k
         /\ element_count(k, h.payload_len) = n
<1> DEFINE l     == ResolveKind(h.msg_type, h.payload_len, mode).kind
           len   == h.payload_len
           fixed == LayoutOfKind(k).fixed
           elem  == LayoutOfKind(k).elem
<1>1. fixed \in Nat /\ elem \in {0, 1, 7, 30}
  BY FixedLength DEF CodeBytes, RestBytes
<1>2. len = fixed + n * elem
  OBVIOUS
<1>3. l \in MsgKind /\ WIRE_CODE(l, mode) = WIRE_CODE(k, mode) /\ Receivable(l, len)
  BY KindOfHeader
<1>4. len \in Nat
  <2> HIDE DEF fixed, elem, len
  <2> QED
    BY <1>1, <1>2
<1>5. l = k
  <2>1. l = k \/ (l \in Twins /\ k \in Twins)
    BY <1>3, CodesApart
  <2>2. CASE l = <<"NOTI", "ERROR">> /\ k = <<"NOTI", "DEVICE_VALUE">>
    <3>1. len = 1
      BY <1>3, <1>4, <2>2, LengthsOfTwins
    <3>2. LayoutOfKind(<<"NOTI", "DEVICE_VALUE">>) = [fixed |-> 0, elem |-> 7]
      BY DEF LayoutOfKind, Req, Res, DMI
    <3>3. fixed = 0 /\ elem = 7
      BY <2>2, <3>2
    <3> HIDE DEF fixed, elem, len
    <3> QED
      BY <1>2, <3>1, <3>3
  <2>3. CASE l = <<"NOTI", "DEVICE_VALUE">> /\ k = <<"NOTI", "ERROR">>
    <3>1. len # 1
      BY <1>3, <1>4, <2>3, LengthsOfTwins
    <3>2. LayoutOfKind(<<"NOTI", "ERROR">>) = [fixed |-> 1, elem |-> 0]
      BY DEF LayoutOfKind, Req, Res, NEC
    <3>3. fixed = 1 /\ elem = 0
      BY <2>3, <3>2
    <3> HIDE DEF fixed, elem, len
    <3> QED
      BY <1>2, <3>1, <3>3
  <2> QED
    BY <2>1, <2>2, <2>3 DEF Twins
<1>6. element_count(k, len) = n
  <2>1. element_count(k, len) # NoCount
    BY <1>3, <1>5 DEF Receivable
  <2> DEFINE rest == len - fixed
  <2>2. element_count(k, len) =
          IF rest < 0 THEN NoCount
          ELSE IF elem = 0 THEN (IF rest = 0 THEN 0 ELSE NoCount)
          ELSE IF rest % elem # 0 \/ (rest \div elem = 0 /\ fixed = 0) \/ rest \div elem > MaxDevices
               THEN NoCount
          ELSE rest \div elem
    BY DEF element_count
  <2>3. elem = 0 => n = 0
    OBVIOUS
  <2> HIDE DEF len, fixed, elem
  <2>4. rest = n * elem
    BY <1>1, <1>2
  <2> HIDE DEF rest
  <2>5. CASE elem = 0
    BY <2>2, <2>3, <2>4, <2>5
  <2>6. CASE elem = 1
    <3>1. rest = n
      BY <2>4, <2>6
    <3>2. rest % 1 = 0 /\ rest \div 1 = n
      BY <3>1
    <3> QED
      BY <2>1, <2>2, <2>6, <3>1, <3>2
  <2>7. CASE elem = 7
    <3>1. rest \div 7 = n
      BY <2>4, <2>7
    <3> QED
      BY <2>1, <2>2, <2>7, <3>1
  <2>8. CASE elem = 30
    <3>1. rest \div 30 = n
      BY <2>4, <2>8
    <3> QED
      BY <2>1, <2>2, <2>8, <3>1
  <2> QED
    BY <1>1, <2>5, <2>6, <2>7, <2>8
<1> QED
  BY <1>5, <1>6

\* Every element is found.
LEMMA ElementsFound ==
  ASSUME NEW g, IsFrame(g)
  PROVE  \A i \in 1..Len(g.elems) :
           Bytes(Body(g, Gateway), LayoutOfKind(g.kind).fixed + (i - 1) * Size(g), Size(g))
             = PutElement(g.kind, g.elems[i], Gateway)
<1>1. PICK b, fd, m, s : b = Body(g, Gateway) /\ fd = LayoutOfKind(g.kind).fixed /\ m = Len(g.elems) /\ s = Size(g)
  OBVIOUS
<1>2. \A i \in 1..m : Bytes(b, fd + (i - 1) * s, s) = PutElement(g.kind, g.elems[i], Gateway)
  BY <1>1, PartsWritten
<1> QED
  BY <1>1, <1>2

\* What it carries is read.
LEMMA ContentRead ==
  ASSUME NEW g, IsFrame(g), NEW n, n = Len(g.elems)
  PROVE  Content(g.kind, n, Body(g, Gateway), Gateway) = CarriedBy(g)
<1> DEFINE kind  == g.kind
           body  == Body(g, Gateway)
           fixed == LayoutOfKind(kind).fixed
           z     == Size(g)
           Elem(i) == GetElement(kind, Bytes(body, fixed + (i - 1) * z, z), Gateway)
<1>1. kind \in MsgKind
  BY DEF IsFrame
<1>2. /\ LeadingRsc(kind) => Byte(body, 1) = g.rsc
      /\ kind = NotiError => Byte(body, 1) = g.nec
      /\ HasNP(kind) => Bytes(body, NPOffset(kind), NP) = Put(GwNP, g.np)
      /\ HasMCP(kind) => Bytes(body, fixed - MCP, MCP) = Put(GwMCP, g.mcp)
  BY PartsWritten
<1>3. \A i \in 1..n : Bytes(body, fixed + (i - 1) * z, z) = PutElement(kind, g.elems[i], Gateway)
  BY ElementsFound
<1>4. Get(GwNP, Put(GwNP, g.np)) = g.np /\ Get(GwMCP, Put(GwMCP, g.mcp)) = g.mcp
  BY NPLayout, MCPLayout, GetOfPut DEF IsFrame
<1>5. Gateway.np = GwNP /\ Gateway.mcp = GwMCP
  BY DEF Gateway
<1>6. kind = NotiError => ~LeadingRsc(kind)
  BY <1>1, FixedLength
<1>7. n \in Nat /\ DOMAIN g.elems = 1..n
  BY ElementsWritten, Zenon
<1>8. ASSUME NEW i \in 1..n
      PROVE  Elem(i) = g.elems[i]
  <2>1. g.elems[i] \in Range(g.elems)
    BY <1>7 DEF Range
  <2>2. IsElement(kind, g.elems[i])
    BY <2>1 DEF IsFrame
  <2>3. Elem(i) = GetElement(kind, PutElement(kind, g.elems[i], Gateway), Gateway)
    BY <1>3, Zenon
  <2> QED
    BY <2>2, <2>3, ElementWritten
<1>9. [i \in 1..n |-> Elem(i)] = g.elems
  <2>1. g.elems = [i \in 1..n |-> g.elems[i]]
    <3>1. g.elems \in Seq(Range(g.elems))
      BY DEF IsFrame
    <3>2. g.elems = [i \in DOMAIN g.elems |-> g.elems[i]]
      BY <3>1
    <3> QED
      BY <1>7, <3>2
  <2>2. [i \in 1..n |-> Elem(i)] = [i \in 1..n |-> g.elems[i]]
    BY <1>8
  <2> QED
    BY <2>1, <2>2
<1>10. Content(kind, n, body, Gateway) =
        [ code  |-> IF LeadingRsc(kind) \/ kind = NotiError THEN <<Byte(body, 1)>> ELSE None,
          np    |-> IF HasNP(kind) THEN Get(Gateway.np, Bytes(body, NPOffset(kind), NP)) ELSE None,
          mcp   |-> IF HasMCP(kind) THEN Get(Gateway.mcp, Bytes(body, fixed - MCP, MCP)) ELSE None,
          elems |-> [i \in 1..n |-> Elem(i)] ]
  BY DEF Content, Size
<1> HIDE DEF kind, body, fixed, z, Elem
<1>11. (IF LeadingRsc(kind) \/ kind = NotiError THEN <<Byte(body, 1)>> ELSE None)
         = (IF LeadingRsc(kind) THEN <<g.rsc>> ELSE IF kind = NotiError THEN <<g.nec>> ELSE None)
  BY <1>2, <1>6
<1>12. (IF HasNP(kind) THEN Get(Gateway.np, Bytes(body, NPOffset(kind), NP)) ELSE None)
         = (IF HasNP(kind) THEN g.np ELSE None)
  BY <1>2, <1>4, <1>5
<1>13. (IF HasMCP(kind) THEN Get(Gateway.mcp, Bytes(body, fixed - MCP, MCP)) ELSE None)
         = (IF HasMCP(kind) THEN g.mcp ELSE None)
  BY <1>2, <1>4, <1>5
<1> QED
  BY <1>9, <1>10, <1>11, <1>12, <1>13 DEF CarriedBy, kind, body

-----------------------------------------------------------------------------
(* What a decoder takes is what an encoder sends.                          *)

CodesSound(g) ==
  /\ LeadingRsc(g.kind) => g.rsc <= MaxRSC
  /\ g.kind = NotiError => g.nec <= MaxNEC
  /\ HasNP(g.kind)      => g.np.status <= MaxStatus
ElementsSound(g) == \A i \in 1..Len(g.elems) : GwDecodesElement(g.kind, g.elems[i]) = Ok

\* The fixed part is taken for its codes.
LEMMA FixedTaken ==
  ASSUME NEW g, IsFrame(g), NEW n, n = Len(g.elems),
         HasNP(g.kind) /\ LayoutOfKind(g.kind).elem = DP => g.np.num_devices = n
  PROVE  GwFixedOk(g.kind, Body(g, Gateway), n) <=> CodesSound(g)
<1> DEFINE kind == g.kind
           body == Body(g, Gateway)
           at   == NPOffset(kind)
           lay  == LayoutOfKind(kind)
<1>1. kind \in MsgKind
  BY DEF IsFrame
<1>2. /\ LeadingRsc(kind) => Byte(body, 1) = g.rsc
      /\ kind = NotiError => Byte(body, 1) = g.nec
      /\ HasNP(kind) => Bytes(body, at, NP) = Put(GwNP, g.np)
  BY PartsWritten
<1>3. HasNP(kind) => at \in {0, 1} /\ lay.fixed = at + NP
  BY <1>1, FixedParts
<1>4. Get(GwNP, Put(GwNP, g.np)) = g.np
  BY NPLayout, GetOfPut DEF IsFrame
<1>5. HasNP(kind) => Byte(body, at + 8) = g.np.num_devices
  <2> SUFFICES ASSUME HasNP(kind) PROVE Byte(body, at + 8) = g.np.num_devices
    OBVIOUS
  <2>1. at \in {0, 1} /\ Bytes(body, at, NP) = Put(GwNP, g.np)
    BY <1>2, <1>3
  <2> HIDE DEF at, body, kind
  <2>2. Get(GwNP, Bytes(body, at, NP)).num_devices = Byte(body, at + 8)
    BY <2>1, BytesOfNP
  <2> QED
    BY <1>4, <2>1, <2>2
<1>6. HasNP(kind) /\ lay.elem = DP /\ at + NP = lay.fixed => Byte(body, lay.fixed) = n
  <2>1. HasNP(kind) => lay.fixed = at + 8
    BY <1>3 DEF NP
  <2>2. HasNP(kind) /\ lay.elem = DP => g.np.num_devices = n
    OBVIOUS
  <2> HIDE DEF kind, body, at, lay
  <2> QED
    BY <1>5, <2>1, <2>2
<1>7. GwFixedOk(kind, body, n) <=>
        /\ LeadingRsc(kind) => Byte(body, 1) <= MaxRSC
        /\ kind = NotiError => Byte(body, 1) <= MaxNEC
        /\ HasNP(kind) /\ lay.elem = DP /\ at + NP = lay.fixed => Byte(body, lay.fixed) = n
        /\ HasNP(kind) => Get(GwNP, Bytes(body, at, NP)).status <= MaxStatus
  BY DEF GwFixedOk
<1>8. HasNP(kind) => Get(GwNP, Bytes(body, at, NP)).status = g.np.status
  BY <1>2, <1>4
<1>9. CodesSound(g) <=> /\ LeadingRsc(kind) => g.rsc <= MaxRSC
                        /\ kind = NotiError => g.nec <= MaxNEC
                        /\ HasNP(kind)      => g.np.status <= MaxStatus
  BY DEF CodesSound
<1> HIDE DEF kind, body, at, lay
<1>10. GwFixedOk(kind, body, n) <=> CodesSound(g)
  BY <1>2, <1>6, <1>7, <1>8, <1>9
<1> QED
  BY <1>10 DEF kind, body

\* Of verdicts none is bad if all are good.
LEMMA NoneBad ==
  ASSUME NEW n \in Nat, NEW v, DOMAIN v = 1..n
  PROVE  FirstBad(v) = Ok <=> \A i \in 1..n : v[i] = Ok
<1> DEFINE bad == { i \in DOMAIN v : v[i] # Ok }
<1>1. FirstBad(v) = IF bad = {} THEN Ok ELSE v[Min(bad)]
  BY DEF FirstBad
<1>2. CASE bad = {}
  BY <1>1, <1>2
<1>3. CASE bad # {}
  <2>1. bad \subseteq Nat
    OBVIOUS
  <2>2. \E x \in bad : \A y \in bad : x <= y
    <3> HIDE DEF bad
    <3> QED
      BY <1>3, <2>1, Smallest
  <2>3. Min(bad) \in bad
    <3> HIDE DEF bad
    <3> QED
      BY <2>2 DEF Min
  <2> QED
    BY <1>1, <1>3, <2>3
<1> QED
  BY <1>2, <1>3

\* What an encoder looks at in an element.
GwSends(kind, e) ==
  CASE LayoutOfKind(kind).elem = DID -> Fits(e, 8)
    [] LayoutOfKind(kind).elem = DMI -> GwEncodesDMI(e) = Ok
    [] LayoutOfKind(kind).elem = DP  -> GwEncodesDP(e) = Ok
NdSends(kind, e) ==
  CASE LayoutOfKind(kind).elem = DID -> Fits(e, 8)
    [] LayoutOfKind(kind).elem = DMI -> NdEncodesDMI(e)
    [] LayoutOfKind(kind).elem = DP  -> NdEncodesDP(e)

\* A DEVICE_PROPERTY begins with a DEVICE_MAIN_INFO, and both have a Value Type of two bits.
LEMMA ValueTypes ==
  ASSUME NEW d
  PROVE  /\ AllFit(GwDP, d) => AllFit(GwDMI, d)
         /\ AllFit(GwDMI, d) => d.value_type \in 0..3
<1>1. /\ DOMAIN GwDMI = 1..6 /\ GwDMI[4][1] = "value_type" /\ GwDMI[4][2] = 2
      /\ \A i \in 1..6 : i \in DOMAIN SimDP /\ SimDP[i] = GwDMI[i]
  <2>1. /\ DOMAIN GwDMI = 1..6 /\ DOMAIN SimDP = 1..14
        /\ GwDMI[1] = <<"device_id", 8>> /\ GwDMI[2] = <<"dev_type", 1>> /\ GwDMI[3] = <<"subtype", 8>>
        /\ GwDMI[4] = <<"value_type", 2>> /\ GwDMI[5] = <<"reserved", 5>> /\ GwDMI[6] = <<"value", 32>>
    BY DEF GwDMI, SimDP
  <2>2. /\ SimDP[1] = <<"device_id", 8>> /\ SimDP[2] = <<"dev_type", 1>> /\ SimDP[3] = <<"subtype", 8>>
        /\ SimDP[4] = <<"value_type", 2>> /\ SimDP[5] = <<"reserved", 5>> /\ SimDP[6] = <<"value", 32>>
    BY DEF SimDP
  <2>3. \A i \in 1..6 : i = 1 \/ i = 2 \/ i = 3 \/ i = 4 \/ i = 5 \/ i = 6
    OBVIOUS
  <2>4. \A i \in 1..6 : i \in 1..14
    OBVIOUS
  <2>5. \A i \in 1..6 : SimDP[i] = GwDMI[i]
    BY <2>1, <2>2, <2>3
  <2> QED
    BY <2>1, <2>4, <2>5
<1>2. AllFit(GwDP, d) => AllFit(GwDMI, d)
  <2> SUFFICES ASSUME AllFit(SimDP, d) PROVE AllFit(GwDMI, d)
    BY FlatDP
  <2>1. \A i \in DOMAIN SimDP : SimDP[i][1] # "reserved" => Fits(d[SimDP[i][1]], SimDP[i][2])
    BY DEF AllFit
  <2>2. \A i \in 1..6 : GwDMI[i][1] # "reserved" => Fits(d[GwDMI[i][1]], GwDMI[i][2])
    BY <1>1, <2>1
  <2> QED
    BY <1>1, <2>2 DEF AllFit
<1>3. AllFit(GwDMI, d) => d.value_type \in 0..3
  <2> SUFFICES ASSUME AllFit(GwDMI, d) PROVE d.value_type \in 0..3
    OBVIOUS
  <2>1. Fits(d.value_type, 2)
    <3>1. \A i \in DOMAIN GwDMI : GwDMI[i][1] # "reserved" => Fits(d[GwDMI[i][1]], GwDMI[i][2])
      BY DEF AllFit
    <3>2. 4 \in DOMAIN GwDMI /\ GwDMI[4][1] # "reserved"
      BY <1>1
    <3> QED
      BY <1>1, <3>1, <3>2
  <2>2. 2^2 = 4
    OBVIOUS
  <2> QED
    BY <2>1, <2>2 DEF Fits, Numbers
<1> QED
  BY <1>2, <1>3

\* An element is taken if it would be sent, by either side.
LEMMA ElementTaken ==
  ASSUME NEW kind, NEW e, IsElement(kind, e)
  PROVE  /\ GwDecodesElement(kind, e) = Ok <=> GwSends(kind, e)
         /\ GwDecodesElement(kind, e) = Ok <=> NdSends(kind, e)
<1>1. NdDMI = GwDMI /\ NdDP = GwDP
  BY LayoutsAlike DEF Gateway, Node
<1>2. LayoutOfKind(kind).elem \in {DID, DMI, DP}
  BY DEF IsElement
<1>3. DID # DMI /\ DID # DP /\ DMI # DP
  BY DEF DID, DMI, DP
<1>4. CASE LayoutOfKind(kind).elem = DID
  <2>1. Fits(e, 8)
    BY <1>4 DEF IsElement
  <2>2. GwDecodesElement(kind, e) = Ok
    BY <1>3, <1>4 DEF GwDecodesElement
  <2>3. GwSends(kind, e) <=> Fits(e, 8)
    BY <1>3, <1>4 DEF GwSends
  <2>4. NdSends(kind, e) <=> Fits(e, 8)
    BY <1>3, <1>4 DEF NdSends
  <2> QED
    BY <2>1, <2>2, <2>3, <2>4
<1>5. ASSUME AllFit(GwDMI, e)
      PROVE  /\ GwDecodesDMI(e) = Ok <=> GwEncodesDMI(e) = Ok
             /\ GwDecodesDMI(e) = Ok <=> NdEncodesDMI(e)
  <2>1. e.value_type \in 0..3
    BY <1>5, ValueTypes
  <2>2. e.value_type > FLOAT <=> e.value_type = 3
    BY <2>1 DEF FLOAT
  <2>3. e.value_type <= FLOAT <=> e.value_type # 3
    BY <2>1 DEF FLOAT
  <2>4. GwEncodesDMI(e) = Ok <=> e.value_type # 3 /\ e.subtype \in SUBTYPE_CODES
    BY <1>5, <2>2 DEF GwEncodesDMI, Ok
  <2>5. NdEncodesDMI(e) <=> e.value_type # 3 /\ e.subtype \in SUBTYPE_CODES
    BY <1>1, <1>5, <2>3 DEF NdEncodesDMI
  <2>6. GwDecodesDMI(e) = Ok <=> e.value_type # 3 /\ e.subtype \in SUBTYPE_CODES
    BY DEF GwDecodesDMI, Ok
  <2> QED
    BY <2>4, <2>5, <2>6
<1>6. CASE LayoutOfKind(kind).elem = DMI
  <2>1. AllFit(GwDMI, e)
    BY <1>6 DEF IsElement, IsRecord
  <2>2. GwDecodesElement(kind, e) = GwDecodesDMI(e)
    BY <1>3, <1>6 DEF GwDecodesElement
  <2>3. GwSends(kind, e) <=> GwEncodesDMI(e) = Ok
    BY <1>3, <1>6 DEF GwSends
  <2>4. NdSends(kind, e) <=> NdEncodesDMI(e)
    BY <1>3, <1>6 DEF NdSends
  <2> QED
    BY <1>5, <2>1, <2>2, <2>3, <2>4
<1>7. CASE LayoutOfKind(kind).elem = DP
  <2>1. AllFit(GwDP, e) /\ AllFit(GwDMI, e)
    BY <1>7, ValueTypes DEF IsElement, IsRecord
  <2>2. GwDecodesElement(kind, e) = GwDecodesDP(e)
    BY <1>3, <1>7 DEF GwDecodesElement
  <2>3. GwSends(kind, e) <=> GwEncodesDP(e) = Ok
    BY <1>3, <1>7 DEF GwSends
  <2>4. NdSends(kind, e) <=> NdEncodesDP(e)
    BY <1>3, <1>7 DEF NdSends
  <2> DEFINE high == e.transfer_mode > MaxMode \/ e.status > MaxStatus
  <2>5. BadFormat # Ok
    BY DEF BadFormat, Ok
  <2>6. e.transfer_mode \in Int /\ e.status \in Int
    <3>1. AllFit(SimDP, e)
      BY <2>1, FlatDP
    <3>2. /\ 7 \in DOMAIN SimDP /\ 14 \in DOMAIN SimDP /\ SimDP[7] = <<"transfer_mode", 2>>
          /\ SimDP[14] = <<"status", 8>>
      BY DEF SimDP
    <3>3. Fits(e.transfer_mode, 2) /\ Fits(e.status, 8)
      <4>1. \A i \in DOMAIN SimDP : SimDP[i][1] # "reserved" => Fits(e[SimDP[i][1]], SimDP[i][2])
        BY <3>1 DEF AllFit
      <4> QED
        BY <3>2, <4>1
    <3>4. 2^2 = 4 /\ 2^8 = 256
      OBVIOUS
    <3> QED
      BY <3>3, <3>4 DEF Fits, Numbers
  <2>7. (e.transfer_mode <= MaxMode /\ e.status <= MaxStatus) <=> ~high
    BY <2>6 DEF MaxMode, MaxStatus
  <2>8. GwDecodesDP(e) = Ok <=> GwDecodesDMI(e) = Ok /\ ~high
    BY <2>5 DEF GwDecodesDP
  <2>9. GwEncodesDP(e) = Ok <=> GwEncodesDMI(e) = Ok /\ ~high
    BY <2>1, <2>5 DEF GwEncodesDP
  <2>10. NdEncodesDP(e) <=> NdEncodesDMI(e) /\ ~high
    BY <1>1, <2>1, <2>7 DEF NdEncodesDP
  <2> HIDE DEF high
  <2> QED
    BY <1>5, <2>1, <2>2, <2>3, <2>4, <2>8, <2>9, <2>10
<1> QED
  BY <1>2, <1>4, <1>6, <1>7

\* So that a frame is sent, by either side, if its codes and elements are sound.
LEMMA SoundIsSent ==
  ASSUME NEW g, IsFrame(g),
         g.header.payload_len = LayoutOfKind(g.kind).fixed + Len(g.elems) * LayoutOfKind(g.kind).elem
  PROVE  /\ GwEncodes(g) <=> CodesSound(g) /\ ElementsSound(g)
         /\ NdEncodes(g) <=> CodesSound(g) /\ ElementsSound(g)
<1> DEFINE kind == g.kind
<1>1. /\ AllFit(GwHeader, g.header) /\ AllFit(NdHeader, g.header) /\ AllFit(GwNP, g.np) /\ AllFit(NdNP, g.np)
      /\ AllFit(GwMCP, g.mcp) /\ AllFit(NdMCP, g.mcp)
  <2>1. NdHeader = GwHeader /\ NdNP = GwNP /\ NdMCP = GwMCP
    BY LayoutsAlike DEF Gateway, Node
  <2> QED
    BY <2>1 DEF IsFrame, IsRecord
<1>2. /\ Len(FixedPart(g, Gateway)) = 8 * LayoutOfKind(kind).fixed
      /\ 8 * g.header.payload_len = Len(Body(g, Gateway))
  BY PartsWritten DEF Size
<1>3. DOMAIN g.elems = 1..Len(g.elems)
  BY ElementsWritten, Zenon
<1>4. ASSUME NEW e \in Range(g.elems)
      PROVE  /\ GwDecodesElement(kind, e) = Ok <=> GwSends(kind, e)
             /\ GwDecodesElement(kind, e) = Ok <=> NdSends(kind, e)
  BY <1>4, ElementTaken DEF IsFrame
<1>5. ElementsSound(g) <=> \A e \in Range(g.elems) : GwDecodesElement(kind, e) = Ok
  BY <1>3 DEF ElementsSound, Range
<1>6. GwEncodes(g) <=> CodesSound(g) /\ \A e \in Range(g.elems) : GwSends(kind, e)
  BY <1>1, <1>2 DEF GwEncodes, GwEncodesNP, CodesSound, GwSends
<1>7. NdEncodes(g) <=> CodesSound(g) /\ \A e \in Range(g.elems) : NdSends(kind, e)
  BY <1>1 DEF NdEncodes, NdEncodesNP, CodesSound, NdSends
<1> HIDE DEF kind
<1> QED
  BY <1>4, <1>5, <1>6, <1>7

\* A frame as the programs make them is taken if it is sound, and read as it was meant.
LEMMA ReadAsMeant ==
  ASSUME IInv, by # "nobody", Built, NEW d, d = GwDecode(bits, sample.mode)
  PROVE  /\ d = NdDecode(bits, sample.mode)
         /\ d.verdict = Ok <=> CodesSound(f) /\ ElementsSound(f)
         /\ d.verdict = Ok => Understood(d)
         /\ BodyOf(bits) = Body(f, Gateway)
<1> DEFINE kind == f.kind
           n    == Len(f.elems)
           body == Body(f, Gateway)
           bad  == FirstBad([i \in 1..n |-> GwDecodesElement(kind, f.elems[i])])
           Refused(verdict) == [verdict |-> verdict, kind |-> NoKind, content |-> None]
<1>1. IsFrame(f) /\ sample.mode \in Modes
  BY FrameOfSample DEF IInv
<1>2. PICK h, rest : IsWritten(h, rest)
  BY DEF IInv
<1>3. /\ HeaderOf(bits, Gateway) = h /\ BodyOf(bits) = body /\ h.payload_len \in Nat
      /\ h.msg_type = f.header.msg_type /\ h.payload_len = f.header.payload_len
      /\ GwDecodesHeader(h, sample.mode) = Ok
  BY <1>2, HeaderRead DEF IsWritten
<1>4. d = NdDecode(bits, sample.mode)
  BY <1>3, DecodersAlike
<1>5. /\ ResolveKind(h.msg_type, h.payload_len, sample.mode).kind = kind
      /\ element_count(kind, h.payload_len) = n
  <2>1. kind \in MsgKind
    BY <1>1 DEF IsFrame
  <2>2. n \in Nat /\ (LayoutOfKind(kind).elem = 0 => n = 0)
    BY <1>1, ElementsWritten DEF Size
  <2>3. /\ h.msg_type = WIRE_CODE(kind, sample.mode)
        /\ h.payload_len = LayoutOfKind(kind).fixed + n * LayoutOfKind(kind).elem
    BY <1>3 DEF Built
  <2> HIDE DEF kind, n
  <2> QED
    BY <1>1, <1>3, <2>1, <2>2, <2>3, KindMeant
<1>6. Content(kind, n, body, Gateway) = Carried
  <2>1. Content(kind, n, body, Gateway) = CarriedBy(f)
    BY <1>1, ContentRead
  <2>2. CarriedBy(f) = Carried
    BY DEF CarriedBy, Carried
  <2> QED
    BY <2>1, <2>2
<1>7. Carried.elems = f.elems
  BY DEF Carried
<1>8. d = IF ~GwFixedOk(kind, body, n) THEN Refused(BadFormat)
          ELSE IF bad # Ok THEN Refused(bad)
          ELSE [verdict |-> Ok, kind |-> kind, content |-> Carried]
  <2> DEFINE k == ResolveKind(h.msg_type, h.payload_len, sample.mode).kind
             m == element_count(k, h.payload_len)
             c == Content(k, m, body, Gateway)
             b == FirstBad([i \in 1..m |-> GwDecodesElement(k, c.elems[i])])
  <2>1. d = IF GwDecodesHeader(h, sample.mode) # Ok THEN Refused(GwDecodesHeader(h, sample.mode))
            ELSE IF ~GwFixedOk(k, body, m) THEN Refused(BadFormat)
            ELSE IF b # Ok THEN Refused(b)
            ELSE [verdict |-> Ok, kind |-> k, content |-> c]
    BY <1>3 DEF GwDecode
  <2>2. k = kind /\ m = n
    BY <1>5
  <2>3. c = Carried
    <3> HIDE DEF k, m
    <3> QED
      BY <1>6, <2>2
  <2>4. b = bad
    <3> HIDE DEF k, m, c
    <3> QED
      BY <1>7, <2>2, <2>3
  <2> HIDE DEF k, m, c, b, kind, n, body, bad, Refused
  <2> QED
    BY <1>3, <2>1, <2>2, <2>3, <2>4
<1>9. GwFixedOk(kind, body, n) <=> CodesSound(f)
  <2>1. HasNP(f.kind) /\ LayoutOfKind(f.kind).elem = DP => f.np.num_devices = Len(f.elems)
    BY DEF Built
  <2> QED
    BY <1>1, <2>1, FixedTaken
<1>10. bad = Ok <=> ElementsSound(f)
  <2> DEFINE v == [i \in 1..n |-> GwDecodesElement(kind, f.elems[i])]
  <2>1. n \in Nat
    BY <1>1, ElementsWritten, Zenon
  <2>2. DOMAIN v = 1..n /\ \A i \in 1..n : v[i] = GwDecodesElement(kind, f.elems[i])
    OBVIOUS
  <2>3. bad = FirstBad(v)
    OBVIOUS
  <2>4. ElementsSound(f) <=> \A i \in 1..n : GwDecodesElement(kind, f.elems[i]) = Ok
    BY DEF ElementsSound
  <2> HIDE DEF v, n, kind, bad
  <2>5. FirstBad(v) = Ok <=> \A i \in 1..n : v[i] = Ok
    BY <2>1, <2>2, NoneBad
  <2> QED
    BY <2>2, <2>3, <2>4, <2>5
<1>11. BadFormat # Ok
  BY DEF BadFormat, Ok
<1>12. \A v : Refused(v).verdict = v
  OBVIOUS
<1>13. d.verdict = Ok <=> CodesSound(f) /\ ElementsSound(f)
  <2> HIDE DEF kind, n, body, bad, Refused
  <2> QED
    BY <1>8, <1>9, <1>10, <1>11, <1>12
<1>14. d.verdict = Ok => d = [verdict |-> Ok, kind |-> kind, content |-> Carried]
  <2> HIDE DEF kind, n, body, bad, Refused
  <2> QED
    BY <1>8, <1>11, <1>12
<1> QED
  BY <1>3, <1>4, <1>13, <1>14 DEF Understood

\* The virtual node reads the elements of a request that has nothing else.
LEMMA VirtualReads ==
  ASSUME NEW g, IsFrame(g), g.kind \in SimReads
  PROVE  SimElements(g.kind, Body(g, Gateway)) = g.elems
<1> DEFINE kind == g.kind
           body == Body(g, Gateway)
           n    == Len(g.elems)
           size == Size(g)
           Elem(i) == GetElement(kind, Bytes(body, (i - 1) * size, size), VirtualNode)
<1>1. LayoutOfKind(kind).fixed = 0 /\ size \in {7, 30}
  <2>1. CASE kind = Req("SET_DEVICE_CONTROL")
    <3>1. LayoutOfKind(kind) = [fixed |-> 0, elem |-> 7]
      BY <2>1 DEF LayoutOfKind, Req, Res, DMI
    <3> QED
      BY <3>1 DEF Size
  <2>2. CASE kind = Req("SET_DEVICE_PROPERTY")
    <3>1. LayoutOfKind(kind) = [fixed |-> 0, elem |-> 30]
      BY <2>2 DEF LayoutOfKind, Req, Res, DP
    <3> QED
      BY <3>1 DEF Size
  <2> QED
    BY <2>1, <2>2 DEF SimReads
<1>2. n \in Nat /\ DOMAIN g.elems = 1..n
  BY ElementsWritten, Zenon
<1>3. Len(body) = 8 * (0 + n * size)
  BY <1>1, PartsWritten
<1>4. Len(body) \div (8 * size) = n
  <2> HIDE DEF body, n, size
  <2>1. CASE size = 7
    BY <1>2, <1>3, <2>1
  <2>2. CASE size = 30
    BY <1>2, <1>3, <2>2
  <2> QED
    BY <1>1, <2>1, <2>2
<1>5. ASSUME NEW i \in 1..n
      PROVE  Elem(i) = g.elems[i]
  <2>1. g.elems[i] \in Range(g.elems)
    BY <1>2 DEF Range
  <2>2. IsElement(kind, g.elems[i])
    BY <2>1 DEF IsFrame
  <2>3. Bytes(body, 0 + (i - 1) * size, size) = PutElement(kind, g.elems[i], Gateway)
    <3>1. Bytes(body, LayoutOfKind(kind).fixed + (i - 1) * size, size) = PutElement(kind, g.elems[i], Gateway)
      BY ElementsFound
    <3> QED
      BY <1>1, <3>1, Zenon
  <2>4. 0 + (i - 1) * size = (i - 1) * size
    <3>1. (i - 1) * size \in Int
      BY <1>1
    <3> HIDE DEF size
    <3> QED
      BY <3>1
  <2>5. Elem(i) = GetElement(kind, PutElement(kind, g.elems[i], Gateway), VirtualNode)
    BY <2>3, <2>4
  <2>6. \A b : GetElement(kind, b, VirtualNode) = GetElement(kind, b, Gateway)
    BY SimAlike DEF GetElement, Gateway
  <2> QED
    BY <2>2, <2>5, <2>6, ElementWritten
<1>6. [i \in 1..n |-> Elem(i)] = g.elems
  <2>1. g.elems \in Seq(Range(g.elems))
    BY DEF IsFrame
  <2>2. g.elems = [i \in DOMAIN g.elems |-> g.elems[i]]
    BY <2>1
  <2>3. [i \in 1..n |-> Elem(i)] = [i \in 1..n |-> g.elems[i]]
    BY <1>5
  <2> QED
    BY <1>2, <2>2, <2>3
<1>7. SimElements(kind, body) = [i \in 1..(Len(body) \div (8 * size)) |-> Elem(i)]
  BY DEF SimElements, Size
<1> HIDE DEF kind, body, n, size, Elem
<1>8. SimElements(kind, body) = g.elems
  BY <1>4, <1>6, <1>7
<1> QED
  BY <1>8 DEF kind, body

\* What any of the programs sends is read, by the gateway, by the node and of a
\* request by the virtual node, as it was meant; and of frames as the programs make
\* them a decoder takes those that the encoder of the other side would send
\* (encode_frame, siap_tx_finish, siap_dec_feed, decode_frame).
THEOREM SentIsRead == Spec => []SentIsAccepted
<1>1. IInv => SentIsAccepted
  <2> SUFFICES ASSUME IInv PROVE SentIsAccepted
    OBVIOUS
  <2> DEFINE d == GwDecode(bits, sample.mode)
             sound == CodesSound(f) /\ ElementsSound(f)
  <2>1. IsFrame(f)
    BY FrameOfSample DEF IInv
  <2>2. Built => (GwEncodes(f) <=> sound) /\ (NdEncodes(f) <=> sound)
    <3>1. Built => f.header.payload_len = LayoutOfKind(f.kind).fixed + Len(f.elems) * LayoutOfKind(f.kind).elem
      BY DEF Built
    <3> HIDE DEF sound
    <3> QED
      BY <2>1, <3>1, SoundIsSent DEF sound
  <2>3. Built /\ by # "nobody" => /\ d = NdDecode(bits, sample.mode)
                                  /\ d.verdict = Ok <=> sound
                                  /\ d.verdict = Ok => Understood(d)
                                  /\ BodyOf(bits) = Body(f, Gateway)
    BY ReadAsMeant
  <2> HIDE DEF d, sound
  <2>4. /\ gw # NotRead => by # "nobody" /\ gw = d
        /\ nd # NotRead => by # "nobody" /\ nd = NdDecode(bits, sample.mode)
    BY DEF IInv, d
  <2>5. by # "nobody" /\ by # "anybody" => Built /\ sound
    BY <2>2 DEF IInv, Writers
  <2>6. f.kind \in SimReads => SimElements(f.kind, Body(f, Gateway)) = f.elems
    BY <2>1, VirtualReads
  <2> QED
    BY <2>2, <2>3, <2>4, <2>5, <2>6 DEF SentIsAccepted
<1> QED
  BY <1>1, WireInvariant, PTL

-----------------------------------------------------------------------------
(* The slices that the screen shows.                                       *)

\* The slices whose number is what is written at their offset, with their width.
SliceAt(b, o, w) == [bit_offset |-> o, bit_width |-> w, raw |-> Value(SubSeq(b, o + 1, o + w))]
Found(b) == { SliceAt(b, o, w) : o \in Nat, w \in Nat }

\* A slice of a slice is one of the whole.
LEMMA SliceOfSlice ==
  ASSUME NEW b, NEW a \in Nat, NEW m \in Nat, NEW o \in Nat, NEW w \in Nat, o + w <= m
  PROVE  SubSeq(SubSeq(b, a + 1, a + m), o + 1, o + w) = SubSeq(b, (a + o) + 1, (a + o) + w)
<1> DEFINE s == SubSeq(b, a + 1, a + m)
<1>1. s = [k \in 1..m |-> b[a + k]]
  BY SliceOf
<1> HIDE DEF s
<1>2. SubSeq(s, o + 1, o + w) = [k \in 1..w |-> s[o + k]]
  BY SliceOf
<1>3. ASSUME NEW k \in 1..w
      PROVE  s[o + k] = b[(a + o) + k]
  <2>1. o + k \in 1..m /\ a + (o + k) = (a + o) + k
    OBVIOUS
  <2>2. s[o + k] = b[a + (o + k)]
    BY <1>1, <2>1
  <2> QED
    BY <2>1, <2>2
<1>4. a + o \in Nat
  OBVIOUS
<1>5. SubSeq(b, (a + o) + 1, (a + o) + w) = [k \in 1..w |-> b[(a + o) + k]]
  BY <1>4, SliceOf
<1> QED
  BY <1>2, <1>3, <1>5 DEF s

\* What lies behind a header.
LEMMA BehindHeader ==
  ASSUME NEW S, NEW put \in Seq(S), NEW body \in Seq(S), NEW b, b = put \o body,
         NEW a \in Nat, NEW w \in Nat, a + w <= Len(body), NEW o \in Nat, o = Len(put) + a
  PROVE  SubSeq(b, o + 1, o + w) = SubSeq(body, a + 1, a + w)
<1>1. \A k \in 1..Len(body) : b[Len(put) + k] = body[k]
  BY Concatenated
<1>2. ASSUME NEW k \in 1..w
      PROVE  b[o + k] = body[a + k]
  <2>1. a + k \in 1..Len(body) /\ o + k = Len(put) + (a + k)
    OBVIOUS
  <2> QED
    BY <1>1, <2>1
<1>3. SubSeq(body, a + 1, a + w) = [k \in 1..w |-> body[a + k]]
  BY SliceOf
<1>4. SubSeq(b, o + 1, o + w) = [k \in 1..w |-> b[o + k]]
  <2>1. PICK c : c = b
    OBVIOUS
  <2>2. SubSeq(c, o + 1, o + w) = [k \in 1..w |-> c[o + k]]
    BY SliceOf
  <2> QED
    BY <2>1, <2>2
<1> QED
  BY <1>2, <1>3, <1>4

\* The slices of a structure are found where it was put.
LEMMA SlicesFound ==
  ASSUME NEW layout, IsLayout(layout), NEW rec, IsRecord(layout, rec), NEW b, NEW offset \in Nat,
         SubSeq(b, offset + 1, offset + Width(layout)) = Put(layout, rec)
  PROVE  Slices(layout, rec, offset) \in Seq(Found(b))
<1> DEFINE n == Len(layout)
           W == Width(layout)
           put == Put(layout, rec)
           slices == Slices(layout, rec, offset)
<1>1. n \in Nat /\ DOMAIN layout = 1..n
  BY DEF IsLayout
<1>2. /\ put \in Seq(Bit) /\ Len(put) = W
      /\ \A i \in 1..n :
           /\ Offset(layout, i) \in Nat /\ layout[i][2] \in Nat
           /\ Offset(layout, i) + layout[i][2] <= W
           /\ Value(SubSeq(put, Offset(layout, i) + 1, Offset(layout, i) + layout[i][2]))
                = Written(layout, rec, i)
  BY FieldsOfPut
<1>3. W \in Nat
  BY <1>2
<1>4. slices = [i \in 1..n |-> [bit_offset |-> offset + Offset(layout, i), bit_width |-> layout[i][2],
                                raw |-> Written(layout, rec, i)]]
  BY <1>1 DEF Slices, Written
<1> HIDE DEF n, W, put, slices
<1>5. ASSUME NEW i \in 1..n
      PROVE  slices[i] \in Found(b)
  <2> DEFINE o == Offset(layout, i)
             w == layout[i][2]
  <2>1. o \in Nat /\ w \in Nat /\ o + w <= W /\ Value(SubSeq(put, o + 1, o + w)) = Written(layout, rec, i)
    BY <1>2
  <2>2. slices[i] = [bit_offset |-> offset + o, bit_width |-> w, raw |-> Written(layout, rec, i)]
    BY <1>4
  <2> HIDE DEF o, w
  <2>3. SubSeq(put, o + 1, o + w) = SubSeq(b, (offset + o) + 1, (offset + o) + w)
    BY <1>3, <2>1, SliceOfSlice DEF put, W
  <2>4. offset + o \in Nat
    BY <2>1
  <2>5. Value(SubSeq(b, (offset + o) + 1, (offset + o) + w)) = Written(layout, rec, i)
    BY <2>1, <2>3
  <2>6. PICK p : p = offset + o
    OBVIOUS
  <2>7. slices[i] = SliceAt(b, p, w)
    BY <2>2, <2>5, <2>6 DEF SliceAt
  <2>8. p \in Nat /\ w \in Nat
    BY <2>1, <2>4, <2>6
  <2> QED
    BY <2>7, <2>8 DEF Found
<1>6. slices \in [1..n -> Found(b)]
  BY <1>4, <1>5
<1> QED
  BY <1>1, <1>6 DEF slices

\* The screen has layouts of its own, which are those of the gateway.
LEMMA WebAlike == WebHeader = GwHeader /\ WebDMI = GwDMI /\ WebDP = GwDP
BY DEF WebHeader, GwHeader, WebDMI, GwDMI, WebDP, GwDP

\* The slices of the header are found.
LEMMA HeaderShown ==
  ASSUME NEW h, IsRecord(GwHeader, h), NEW rest \in Seq(Bit), NEW b, b = Put(GwHeader, h) \o rest
  PROVE  header_field_slices(h) \in Seq(Found(b))
<1>1. Put(GwHeader, h) \in Seq(Bit) /\ Len(Put(GwHeader, h)) = 96
  BY GetOfPut, HeaderLayout, HeaderWidth
<1>2. SubSeq(b, 1, 96) = Put(GwHeader, h)
  BY <1>1, JoinedLeft
<1>3. SubSeq(b, 0 + 1, 0 + Width(GwHeader)) = Put(GwHeader, h)
  <2>1. 0 + 1 = 1 /\ 0 + 96 = 96
    OBVIOUS
  <2> QED
    BY <1>2, <2>1, HeaderWidth, Zenon
<1>4. Slices(GwHeader, h, 0) \in Seq(Found(b))
  BY <1>3, HeaderLayout, SlicesFound
<1> QED
  BY <1>4, WebAlike DEF header_field_slices

\* The slices of the elements are found, where nothing is in front of them.
LEMMA ElementsShown ==
  ASSUME NEW h, IsRecord(GwHeader, h), NEW g, IsFrame(g), NEW b, b = Put(GwHeader, h) \o Body(g, Gateway),
         LayoutOfKind(g.kind).fixed = 0, LayoutOfKind(g.kind).elem \in {DMI, DP}
  PROVE  payload_field_slices(g.kind, g.elems) \in Seq(Found(b))
<1> DEFINE layout == IF LayoutOfKind(g.kind).elem = DP THEN WebDP ELSE WebDMI
           z      == Size(g)
           n      == Len(g.elems)
           put    == Put(GwHeader, h)
           body   == Body(g, Gateway)
           Shown(i) == Slices(layout, g.elems[i], Width(WebHeader) + (i - 1) * Width(layout))
           seqs   == [i \in DOMAIN g.elems |-> Shown(i)]
<1>0. DID = 1 /\ DMI = 7 /\ DP = 30
  BY DEF DID, DMI, DP
<1>1. n \in Nat /\ DOMAIN g.elems = 1..n
  BY ElementsWritten, Zenon
<1>2. put \in Seq(Bit) /\ Len(put) = 96 /\ Width(WebHeader) = 96
  BY GetOfPut, HeaderLayout, HeaderWidth, WebAlike
<1>3. body \in Seq(Bit) /\ Len(body) = 8 * (0 + n * z)
  <2>1. body \in Seq(Bit)
    BY PartsWritten
  <2>2. Len(body) = 8 * (0 + n * z)
    BY PartsWritten
  <2> QED
    BY <2>1, <2>2
<1>4. /\ z \in {7, 30} /\ IsLayout(layout) /\ Width(layout) = 8 * z
      /\ \A e \in Range(g.elems) :
           IsRecord(layout, e) /\ PutElement(g.kind, e, Gateway) = Put(layout, e)
  <2>1. CASE LayoutOfKind(g.kind).elem = DMI
    <3>1. z = 7 /\ layout = GwDMI /\ Gateway.dmi = GwDMI
      BY <1>0, <2>1, WebAlike DEF Size, Gateway
    <3>2. IsLayout(GwDMI) /\ Width(GwDMI) = 8 * 7
      BY DMILayout, DMIWidth
    <3>3. ASSUME NEW e \in Range(g.elems)
          PROVE  IsRecord(GwDMI, e) /\ PutElement(g.kind, e, Gateway) = Put(GwDMI, e)
      BY <1>0, <2>1, <3>1 DEF IsFrame, IsElement, PutElement
    <3> HIDE DEF layout, z
    <3> QED
      BY <3>1, <3>2, <3>3
  <2>2. CASE LayoutOfKind(g.kind).elem = DP
    <3>1. z = 30 /\ layout = GwDP /\ Gateway.dp = GwDP
      BY <1>0, <2>2, WebAlike DEF Size, Gateway
    <3>2. IsLayout(GwDP) /\ Width(GwDP) = 8 * 30
      BY DPLayout
    <3>3. ASSUME NEW e \in Range(g.elems)
          PROVE  IsRecord(GwDP, e) /\ PutElement(g.kind, e, Gateway) = Put(GwDP, e)
      BY <1>0, <2>2, <3>1 DEF IsFrame, IsElement, PutElement
    <3> HIDE DEF layout, z
    <3> QED
      BY <3>1, <3>2, <3>3
  <2> QED
    BY <2>1, <2>2
<1>5. \A i \in 1..n : Bytes(body, 0 + (i - 1) * z, z) = PutElement(g.kind, g.elems[i], Gateway)
  BY PartsWritten
<1>6. payload_field_slices(g.kind, g.elems) = FlattenSeq(seqs)
  BY DEF payload_field_slices
<1> HIDE DEF layout, z, n, put, body
<1>7. ASSUME NEW i \in 1..n
      PROVE  Shown(i) \in Seq(Found(b))
  <2> DEFINE e == g.elems[i]
             a == 8 * ((i - 1) * z)
             w == 8 * z
  <2>1. IsRecord(layout, e) /\ PutElement(g.kind, e, Gateway) = Put(layout, e)
    BY <1>1, <1>4 DEF Range
  <2>2. (i - 1) * z \in Nat /\ z \in Nat /\ n * z \in Nat /\ (i - 1) * z + z <= n * z
    <3>1. CASE z = 7
      BY <1>1, <3>1
    <3>2. CASE z = 30
      BY <1>1, <3>2
    <3> QED
      BY <1>4, <3>1, <3>2
  <2>3. a \in Nat /\ w \in Nat /\ a + w <= Len(body)
    <3>1. a + w <= 8 * (n * z)
      BY <2>2, InBytes
    <3> QED
      BY <1>3, <2>2, <3>1
  <2>4. SubSeq(body, a + 1, a + w) = Put(layout, e)
    <3>1. Bytes(body, 0 + (i - 1) * z, z) = Put(layout, e)
      BY <1>5, <2>1
    <3>2. /\ 8 * (0 + (i - 1) * z) + 1 = a + 1
          /\ 8 * ((0 + (i - 1) * z) + z) = a + w
      BY <2>2
    <3> HIDE DEF a, w
    <3> QED
      BY <3>1, <3>2 DEF Bytes
  <2>5. Width(WebHeader) + (i - 1) * Width(layout) = 96 + a
    <3>1. CASE z = 7
      BY <1>1, <1>2, <1>4, <3>1
    <3>2. CASE z = 30
      BY <1>1, <1>2, <1>4, <3>2
    <3> QED
      BY <1>4, <3>1, <3>2
  <2>6. Width(layout) = w /\ IsLayout(layout)
    BY <1>4
  <2> HIDE DEF a, w, e
  <2>7. PICK o \in Nat : o = 96 + a
    BY <2>3
  <2>8. SubSeq(b, o + 1, o + w) = SubSeq(body, a + 1, a + w)
    <3>1. put \in Seq(Bit) /\ body \in Seq(Bit) /\ b = put \o body
      BY <1>2, <1>3 DEF put, body
    <3>2. o = Len(put) + a
      BY <1>2, <2>7
    <3> HIDE DEF Shown, seqs
    <3> QED
      BY <2>3, <3>1, <3>2, BehindHeader
  <2>9. Slices(layout, e, o) \in Seq(Found(b))
    BY <2>1, <2>4, <2>6, <2>8, SlicesFound
  <2> QED
    BY <2>5, <2>7, <2>9 DEF e
<1>8. seqs \in Seq(Seq(Found(b)))
  <2>1. seqs \in [1..n -> Seq(Found(b))]
    <3> HIDE DEF Shown
    <3> QED
      BY <1>1, <1>7
  <2> HIDE DEF seqs
  <2> QED
    BY <1>1, <2>1
<1> HIDE DEF seqs
<1> QED
  BY <1>6, <1>8, FlattenOf

\* Every field that the screen shows of a frame as the programs make them is found
\* in its bytes at the offset, and with the width, that are shown with it, if the
\* frame is elements only (header_field_slices, payload_field_slices).
THEOREM ShownWhereItIs == Spec => [](Built => SlicesShowFrame)
<1>1. IInv => (Built => SlicesShowFrame)
  <2> SUFFICES ASSUME IInv, Built, LayoutOfKind(gw.kind).fixed = 0, gw.verdict = Ok,
                      NEW i \in DOMAIN FieldSlices(HeaderOf(bits, Gateway), gw)
               PROVE  LET slices == FieldSlices(HeaderOf(bits, Gateway), gw)
                          at == slices[i].bit_offset
                      IN  Value(SubSeq(bits, at + 1, at + slices[i].bit_width)) = slices[i].raw
    BY DEF SlicesShowFrame, SlicesShowEveryFrame
  <2>1. gw # NotRead
    <3>1. NotRead.verdict = << >>
      BY DEF NotRead
    <3>2. Ok # << >>
      BY DEF Ok
    <3> QED
      BY <3>1, <3>2
  <2>2. by # "nobody" /\ gw = GwDecode(bits, sample.mode)
    BY <2>1 DEF IInv
  <2>3. gw.kind = f.kind /\ gw.content.elems = f.elems
    <3>1. Understood(gw)
      BY <2>2, ReadAsMeant
    <3> QED
      BY <3>1 DEF Understood, Carried
  <2>4. IsFrame(f)
    BY FrameOfSample DEF IInv
  <2>5. PICK h, rest : IsWritten(h, rest)
    BY <2>2 DEF IInv
  <2>6. /\ IsRecord(GwHeader, h) /\ rest \in Seq(Bit) /\ bits = Put(GwHeader, h) \o rest
        /\ rest = Body(f, Gateway) /\ HeaderOf(bits, Gateway) = h
    BY <2>5, HeaderRead DEF IsWritten
  <2> DEFINE slices == FieldSlices(h, gw)
             header == header_field_slices(h)
             elements == IF LayoutOfKind(f.kind).elem \in {DMI, DP}
                         THEN payload_field_slices(f.kind, f.elems) ELSE << >>
  <2>7. header \in Seq(Found(bits))
    BY <2>6, HeaderShown
  <2>8. elements \in Seq(Found(bits))
    <3>1. CASE LayoutOfKind(f.kind).elem \in {DMI, DP}
      BY <2>3, <2>4, <2>6, <3>1, ElementsShown
    <3>2. CASE LayoutOfKind(f.kind).elem \notin {DMI, DP}
      BY <3>2
    <3> QED
      BY <3>1, <3>2
  <2>9. slices = header \o elements
    BY <2>3 DEF FieldSlices
  <2> HIDE DEF slices, header, elements
  <2>10. slices \in Seq(Found(bits)) /\ i \in DOMAIN slices
    BY <2>6, <2>7, <2>8, <2>9, Concatenated DEF slices
  <2>11. slices[i] \in Found(bits)
    BY <2>10
  <2>12. Value(SubSeq(bits, slices[i].bit_offset + 1, slices[i].bit_offset + slices[i].bit_width)) = slices[i].raw
    <3>1. PICK o \in Nat, w \in Nat : slices[i] = SliceAt(bits, o, w)
      BY <2>11 DEF Found
    <3> QED
      BY <3>1 DEF SliceAt
  <2> QED
    BY <2>6, <2>12 DEF slices
<1> QED
  BY <1>1, WireInvariant, PTL
=============================================================================
