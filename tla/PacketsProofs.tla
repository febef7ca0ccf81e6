---------------------------- MODULE PacketsProofs ----------------------------
(* Proofs about Packets, for all addresses, ports, sequence numbers, counters *)
(* and delays, any changed octet and up to 5000 servers in an advert: the     *)
(* octets and words are those of the code, no instance of them.               *)
(*                                                                            *)
(* The arithmetic comes first.  What check_sum_ip accepts, which folds the    *)
(* carry once, is what RFC 1071 calls right (AcceptedIsRight), and what it    *)
(* writes is right unless the folded sum carries again (SignedRight).  One    *)
(* octet of a header changes its sum by less than 2^16 - 1, so a right one    *)
(* becomes wrong (HeaderChanged).  Then the advert: the offset behind a row   *)
(* counts the reachable rows up to it, each offset belongs to one row         *)
(* (RankGrows, RankOnto), and an entry is read as it was written (ReadEntry). *)
(*                                                                            *)
(* The invariant PInv says of a frame in flight that it has the lengths and   *)
(* protocol the next handler asks for (ShapeInv), that its checksum tells     *)
(* whether its header was changed (CheckInv), that an advert holds the        *)
(* entries of the reachable rows (AdvertInv), where a probe came from and     *)
(* under which ports, below src_port, its reply is expected (TripInv).        *)
EXTENDS Packets, DivisionTheorems, FiniteSetTheorems

(* Two octets.                                                                *)
Pairs == Octets \X Octets

(* What the proofs use of the length of a word.                               *)
LEMMA WordSize == W \in Nat /\ W - 1 = 255 + 255 * 256
BY DEF W

(* A word has two octets.                                                     *)
LEMMA WordSquare ==
  ASSUME NEW a \in Int
  PROVE W * a = 256 * (256 * a)
BY DEF W

(* A field read by ntohs and written by htons is the same field.              *)
LEMMA PairWord ==
  ASSUME NEW b \in Pairs
  PROVE /\ Raw(b) \in 0 .. W - 1 /\ ntohs(b) \in 0 .. W - 1
        /\ htons(ntohs(b)) = b
<1>0. b[1] \in 0 .. 255 /\ b[2] \in 0 .. 255 /\ b = <<b[1], b[2]>>
  BY DEF Pairs, Octets
<1>1. PICK x \in 0 .. 255, y \in 0 .. 255 : b = <<x, y>>
  BY <1>0
<1>2. Raw(b) = x + y * 256 /\ ntohs(b) = x * 256 + y
  BY <1>1 DEF Raw, ntohs
<1>3. Raw(b) \in 0 .. W - 1 BY <1>2, WordSize
<1>4. ntohs(b) \in 0 .. W - 1 BY <1>2, WordSize
<1>5. ntohs(b) \in Int /\ ntohs(b) = 256 * x + y BY <1>2
<1>6. ntohs(b) \div 256 = x /\ ntohs(b) % 256 = y BY <1>5, DivMod
<1>7. x % 256 = x OBVIOUS
<1>8. htons(ntohs(b)) = <<x, y>> BY <1>6, <1>7 DEF htons
<1> QED BY <1>1, <1>3, <1>4, <1>8

(* A number written by htons is read by ntohs, one stored without is loaded   *)
(* without; a small number that is written by htons and loaded without it is  *)
(* 256 times as large.                                                        *)
LEMMA WordPair ==
  ASSUME NEW n \in 0 .. W - 1
  PROVE /\ htons(n) \in Pairs /\ ntohs(htons(n)) = n
        /\ Store(n) \in Pairs /\ Raw(Store(n)) = n
        /\ n < 256 => Raw(htons(n)) = 256 * n
<1> DEFINE q == n \div 256
           r == n % 256
<1>1. n \in Int /\ n <= 255 + 255 * 256 /\ n >= 0 BY WordSize
<1>2. r \in 0 .. 255 /\ q \in Int /\ n = 256 * q + r BY <1>1, Division
<1>3. q \in 0 .. 255 /\ q % 256 = q BY <1>1, <1>2
<1>4. htons(n) = <<q, r>> BY <1>3 DEF htons
<1>5. Store(n) = <<r, q>> BY DEF Store
<1>6. n < 256 => q = 0 /\ r = n BY <1>2, <1>3
<1> HIDE DEF q, r
<1>7. htons(n) \in Pairs /\ Store(n) \in Pairs
  BY <1>2, <1>3, <1>4, <1>5 DEF Pairs, Octets
<1>8. ntohs(htons(n)) = q * 256 + r /\ Raw(Store(n)) = r + q * 256
      /\ Raw(htons(n)) = q + r * 256
  BY <1>4, <1>5 DEF ntohs, Raw
<1> QED BY <1>2, <1>3, <1>6, <1>7, <1>8

(* A number of any size leaves by htons as its last 16 bits.                  *)
LEMMA PortOnWire ==
  ASSUME NEW n \in Nat
  PROVE /\ htons(n) \in Pairs /\ ntohs(htons(n)) = n % W
        /\ n % W \in Nat /\ n % W <= n
<1> DEFINE q == n \div 256
           r == n % 256
           a == q \div 256
           b == q % 256
<1>1. r \in 0 .. 255 /\ q \in Int /\ n = 256 * q + r BY Division
<1>2. q >= 0 BY <1>1
<1>3. b \in 0 .. 255 /\ a \in Int /\ q = 256 * a + b BY <1>1, Division
<1>4. a >= 0 BY <1>2, <1>3
<1>5. htons(n) = <<b, r>> BY DEF htons
<1> HIDE DEF q, r, a, b
<1>6. htons(n) \in Pairs /\ ntohs(htons(n)) = b * 256 + r
  BY <1>1, <1>3, <1>5 DEF Pairs, Octets, ntohs
<1>7. PICK m \in Nat : m = b * 256 + r BY <1>1, <1>3
<1>8. W \in Nat \ {0} BY WordSize
<1>9. m \in 0 .. W - 1 BY <1>1, <1>3, <1>7, WordSize
<1>10. n = W * a + m
  <2>1. n = 256 * (256 * a) + m BY <1>1, <1>3, <1>7
  <2>2. W * a = 256 * (256 * a) BY <1>3, WordSquare
  <2> QED BY <2>1, <2>2
<1>11. n % W = m BY <1>3, <1>8, <1>9, <1>10, DivMod
<1>12. W * a >= 0 /\ W * a \in Int BY <1>3, <1>4, <1>8
<1>13. m <= n BY <1>10, <1>12
<1> QED BY <1>6, <1>7, <1>11, <1>13

(* The address that is shown, empty parts included, is read back.             *)
LEMMA StringRoundTrip ==
  ASSUME NEW u \in Quads
  PROVE ip_into_uint(ipUint_into_str(u)) = u
<1> DEFINE s == ipUint_into_str(u)
<1>1. /\ u = <<u[1], u[2], u[3], u[4]>>
      /\ \A i \in 1 .. 4 : u[i] \in 0 .. 255
  BY DEF Quads, Octets
<1>2. \A i \in 1 .. 4 : (IF s[i] = Empty THEN 0 ELSE s[i]) = u[i]
  BY <1>1 DEF ipUint_into_str, Empty
<1>3. ip_into_uint(s) = <<u[1], u[2], u[3], u[4]>>
  BY <1>2 DEF ip_into_uint
<1> QED BY <1>1, <1>3

(* The headers, and a header with its checksum field cleared.                 *)
Headers == [len : Pairs, p : Octets, sum : Pairs, src : Quads,
            dst : Quads]

Plain(h) == [h EXCEPT !.sum = <<0, 0>>]

(* The sum of the ten words is far below 2^32 and not zero.                   *)
LEMMA SumType ==
  ASSUME NEW h \in Headers
  PROVE Sum(h) \in 1 .. 8 * W - 1
<1>1. \A q \in Quads : /\ <<q[1], q[2]>> \in Pairs /\ <<q[3], q[4]>> \in Pairs
  BY DEF Quads, Pairs
<1>2. <<64, h.p>> \in Pairs BY DEF Headers, Pairs, Octets
<1>3. h.len \in Pairs /\ h.sum \in Pairs BY DEF Headers
<1>4. h.src \in Quads /\ h.dst \in Quads BY DEF Headers
<1>5. PICK a1 \in 0 .. W - 1 : a1 = Raw(h.len) BY <1>3, PairWord
<1>6. PICK a2 \in 0 .. W - 1 : a2 = Raw(<<64, h.p>>) BY <1>2, PairWord
<1>7. PICK a3 \in 0 .. W - 1 : a3 = Raw(h.sum) BY <1>3, PairWord
<1>8. PICK a4 \in 0 .. W - 1 : a4 = Raw(<<h.src[1], h.src[2]>>)
  BY <1>1, <1>4, PairWord
<1>9. PICK a5 \in 0 .. W - 1 : a5 = Raw(<<h.src[3], h.src[4]>>)
  BY <1>1, <1>4, PairWord
<1>10. PICK a6 \in 0 .. W - 1 : a6 = Raw(<<h.dst[1], h.dst[2]>>)
  BY <1>1, <1>4, PairWord
<1>11. PICK a7 \in 0 .. W - 1 : a7 = Raw(<<h.dst[3], h.dst[4]>>)
  BY <1>1, <1>4, PairWord
<1>12. Sum(h) = 69 + a1 + a2 + a3 + a4 + a5 + a6 + a7
  BY <1>5, <1>6, <1>7, <1>8, <1>9, <1>10, <1>11 DEF Sum
<1> QED BY <1>12, WordSize

(* is_valid_packet accepts a checksum exactly if it is right: the sums that   *)
(* fold to W or more are not mistaken for right ones.                         *)
LEMMA AcceptedIsRight ==
  ASSUME NEW n \in 1 .. 8 * W - 1
  PROVE Complement(FoldOnce(n)) = 0 <=> Right(n)
<1> DEFINE q == n \div W
           r == n % W
<1>0. W \in Nat /\ W > 1000 BY WordSize
<1>1. q \in Int /\ r \in 0 .. W - 1 /\ n = W * q + r BY <1>0, Division
<1>3. FoldOnce(n) = q + r BY DEF FoldOnce
<1> HIDE DEF q, r
<1>2. q \in 0 .. 7 BY <1>0, <1>1, WordSize
<1>4. Complement(q + r) = 0 <=> q + r = W - 1
  <2>1. CASE q + r < W
    <3>1. (q + r) % W = q + r BY <1>0, <1>1, <1>2, <2>1
    <3> QED BY <1>0, <1>1, <1>2, <2>1, <3>1 DEF Complement
  <2>2. CASE q + r >= W
    <3>0. PICK k \in Int : k = 1 OBVIOUS
    <3>1. q + r \in Int /\ q + r = W * k + (q + r - W)
      BY <1>0, <1>1, <1>2, <3>0
    <3>2. q + r - W \in 0 .. W - 1 BY <1>0, <1>1, <1>2, <2>2
    <3>3. PICK m \in Int, e \in 0 .. W - 1 : m = q + r /\ e = q + r - W
      BY <3>1, <3>2
    <3>a. m = W * k + e BY <3>1, <3>3
    <3>4. m % W = e BY <1>0, <3>a, DivMod
    <3>5. (q + r) % W = q + r - W BY <3>3, <3>4
    <3> QED BY <1>0, <1>1, <1>2, <2>2, <3>5 DEF Complement
  <2> QED BY <1>0, <1>1, <1>2, <2>1, <2>2
<1>5. n % (W - 1) = 0 <=> q + r = W - 1
  <2>0. W - 1 \in Nat \ {0} /\ n \in Int BY <1>0
  <2>1. n = (W - 1) * q + (q + r) BY <1>0, <1>1, <1>2
  <2>2. CASE q + r < W - 1
    <3>1. q + r \in 0 .. (W - 1) - 1 BY <1>0, <1>1, <1>2, <2>2
    <3>2. n % (W - 1) = q + r BY <1>2, <2>0, <2>1, <3>1, DivMod
    <3>3. q + r > 0 BY <1>0, <1>1, <1>2
    <3> QED BY <1>0, <1>1, <1>2, <2>2, <3>2, <3>3
  <2>3. CASE q + r >= W - 1
    <3>1. n = (W - 1) * (q + 1) + (q + r - (W - 1)) /\ q + 1 \in Int
      BY <1>0, <1>1, <1>2, <2>1
    <3>2. q + r - (W - 1) \in 0 .. (W - 1) - 1
      BY <1>0, <1>1, <1>2, <2>3
    <3>3. n % (W - 1) = q + r - (W - 1) BY <2>0, <3>1, <3>2, DivMod
    <3> QED BY <1>0, <1>1, <1>2, <2>3, <3>3
  <2> QED BY <1>0, <1>1, <1>2, <2>2, <2>3
<1> QED BY <1>3, <1>4, <1>5 DEF Right

(* The words of a header are numbers.                                         *)
LEMMA RawType ==
  ASSUME NEW h \in Headers
  PROVE /\ Raw(h.len) \in Int /\ Raw(<<64, h.p>>) \in Int /\ Raw(h.sum) \in Int
        /\ Raw(<<h.src[1], h.src[2]>>) \in Int
        /\ Raw(<<h.src[3], h.src[4]>>) \in Int
        /\ Raw(<<h.dst[1], h.dst[2]>>) \in Int
        /\ Raw(<<h.dst[3], h.dst[4]>>) \in Int
<1>1. \A q \in Quads : /\ <<q[1], q[2]>> \in Pairs /\ <<q[3], q[4]>> \in Pairs
  BY DEF Quads, Pairs
<1>2. <<64, h.p>> \in Pairs BY DEF Headers, Pairs, Octets
<1>3. h.len \in Pairs /\ h.sum \in Pairs /\ h.src \in Quads /\ h.dst \in Quads
  BY DEF Headers
<1>4. \A b \in Pairs : Raw(b) \in Int BY PairWord
<1> QED BY <1>1, <1>2, <1>3, <1>4

(* The checksum is one of the words.                                          *)
LEMMA SumOf ==
  ASSUME NEW h \in Headers, NEW b \in Pairs
  PROVE /\ Plain(h) \in Headers /\ [h EXCEPT !.sum = b] \in Headers
        /\ Plain([h EXCEPT !.sum = b]) = Plain(h)
        /\ Sum([h EXCEPT !.sum = b]) = Sum(Plain(h)) + Raw(b)
<1>1. <<0, 0>> \in Pairs BY DEF Pairs, Octets
<1>2. /\ Plain(h) \in Headers /\ [h EXCEPT !.sum = b] \in Headers
      /\ Plain([h EXCEPT !.sum = b]) = Plain(h)
  BY <1>1 DEF Headers, Plain
<1>3. PICK g : g = [h EXCEPT !.sum = b] OBVIOUS
<1>4. PICK k : k = Plain(h) OBVIOUS
<1>5. /\ g.len = k.len /\ g.p = k.p /\ g.src = k.src /\ g.dst = k.dst
      /\ g.sum = b /\ k.sum = <<0, 0>>
  BY <1>3, <1>4 DEF Headers, Plain
<1>6. Raw(k.sum) = 0 BY <1>5 DEF Raw
<1>7. Raw(b) \in Int BY PairWord
<1>8. Sum(k) \in Int BY <1>2, <1>4, SumType
<1>9. Sum(g) = Sum(k) + Raw(b)
  <2>1. PICK x1, x2, y1, y2, y3, y4 :
          /\ x1 = Raw(k.len) /\ x2 = Raw(<<64, k.p>>)
          /\ y1 = Raw(<<k.src[1], k.src[2]>>)
          /\ y2 = Raw(<<k.src[3], k.src[4]>>)
          /\ y3 = Raw(<<k.dst[1], k.dst[2]>>)
          /\ y4 = Raw(<<k.dst[3], k.dst[4]>>)
    OBVIOUS
  <2>2. Sum(k) = 69 + x1 + x2 + 0 + y1 + y2 + y3 + y4
    BY <1>6, <2>1 DEF Sum
  <2>3. Sum(g) = 69 + x1 + x2 + Raw(b) + y1 + y2 + y3 + y4
    BY <1>5, <2>1 DEF Sum
  <2>4. /\ x1 \in Int /\ x2 \in Int /\ y1 \in Int /\ y2 \in Int
        /\ y3 \in Int /\ y4 \in Int
    BY <1>2, <1>4, <2>1, RawType
  <2> QED BY <1>7, <2>2, <2>3, <2>4
<1> QED BY <1>2, <1>3, <1>4, <1>9

(* set_ip_header writes a right checksum unless the folded sum carries again. *)
LEMMA SignedRight ==
  ASSUME NEW h \in Headers
  PROVE /\ Signed(h) \in Headers /\ Plain(Signed(h)) = Plain(h)
        /\ CarriesTwice(Signed(h)) = CarriesTwice(h)
        /\ ~CarriesTwice(h) => Right(Sum(Signed(h)))
<1>1. PICK c : c = check_sum_ip(Plain(h)) OBVIOUS
<1>2. PICK n \in 1 .. 8 * W - 1 : n = Sum(Plain(h))
  <2>1. <<0, 0>> \in Pairs BY DEF Pairs, Octets
  <2> QED BY <2>1, SumOf, SumType
<1>0. W \in Nat /\ W > 1000 BY WordSize
<1> DEFINE q == n \div W
           r == n % W
<1>3. q \in Int /\ r \in 0 .. W - 1 /\ n = W * q + r BY <1>0, Division
<1>4. FoldOnce(n) = q + r BY DEF FoldOnce
<1> HIDE DEF q, r
<1>5. q \in 0 .. 7 BY <1>0, <1>2, <1>3
<1>6. /\ c = Complement(q + r)
      /\ CarriesTwice(h) <=> q + r >= W
  BY <1>1, <1>2, <1>4 DEF check_sum_ip, CarriesTwice, Plain
<1>7. c \in 0 .. W - 1
  <2>1. PICK m \in Int : m = q + r BY <1>0, <1>3, <1>5
  <2>2. m % W \in 0 .. W - 1 BY <1>0, Division
  <2> QED BY <1>0, <1>6, <2>1, <2>2 DEF Complement
<1>8. Signed(h) = [h EXCEPT !.sum = Store(c)] BY <1>1 DEF Signed, Plain
<1>9. Store(c) \in Pairs /\ Raw(Store(c)) = c BY <1>7, WordPair
<1>10. Signed(h) \in Headers /\ Plain(Signed(h)) = Plain(h)
  BY <1>8, <1>9, SumOf
<1>11. CarriesTwice(Signed(h)) = CarriesTwice(h)
  BY <1>10 DEF CarriesTwice, Plain
<1>12. ASSUME q + r < W PROVE Right(Sum(Signed(h)))
  <2>1. Sum(Signed(h)) = n + c BY <1>2, <1>8, <1>9, SumOf
  <2>2. c = W - 1 - (q + r)
    <3>1. (q + r) % W = q + r BY <1>0, <1>3, <1>5, <1>12
    <3> QED BY <1>6, <3>1 DEF Complement
  <2>3. n + c = (W - 1) * (q + 1) + 0 /\ n + c > 0 /\ n + c \in Int
    BY <1>0, <1>2, <1>3, <1>5, <1>7, <2>2
  <2>4. W - 1 \in Nat \ {0} /\ q + 1 \in Int /\ 0 \in 0 .. (W - 1) - 1
    BY <1>0, <1>3
  <2>5. (n + c) % (W - 1) = 0 BY <2>3, <2>4, DivMod
  <2> QED BY <2>1, <2>3, <2>5 DEF Right
<1>13. q + r < W \/ q + r >= W BY <1>0, <1>3, <1>5
<1> QED BY <1>6, <1>10, <1>11, <1>12, <1>13

(* check_sum_icmp is right for every sequence number.                         *)
LEMMA IcmpRight ==
  ASSUME NEW b \in Pairs
  PROVE /\ IcmpFold(IcmpSum(8, b, 0)) \in 0 .. W - 1
        /\ Right(IcmpSum(8, b, IcmpFold(IcmpSum(8, b, 0))))
<1>1. PICK x \in 0 .. W - 1 : x = Raw(b) BY PairWord
<1>2. PICK n : n = IcmpSum(8, b, 0) OBVIOUS
<1>3. n = 44144 + x BY <1>1, <1>2 DEF IcmpSum, Raw
<1>4. W \in Nat /\ W > 44144 BY WordSize
<1>5. n \in Int /\ n > 0 /\ n < W + W BY <1>3, <1>4
<1> DEFINE q == n \div W
           r == n % W
<1>6. q \in Int /\ r \in 0 .. W - 1 /\ n = W * q + r BY <1>4, <1>5, Division
<1>7. FoldOnce(n) = q + r BY DEF FoldOnce
<1> HIDE DEF q, r
<1>8. q \in {0, 1} BY <1>4, <1>5, <1>6
<1>9. q + r \in 0 .. W - 1
  <2>1. CASE q = 0 BY <1>4, <1>6, <2>1
  <2>2. CASE q = 1
    <3>1. W + r = 44144 + x BY <1>3, <1>4, <1>6, <2>2
    <3> QED BY <1>4, <1>6, <2>2, <3>1
  <2> QED BY <1>8, <2>1, <2>2
<1>10. (q + r) \div W = 0 /\ (q + r) % W = q + r
  <2>1. PICK z \in Int : z = 0 OBVIOUS
  <2>2. q + r = W * z + (q + r) BY <1>4, <1>9, <2>1
  <2>3. q + r \in Int BY <1>9
  <2> QED BY <1>4, <1>9, <2>1, <2>2, <2>3, DivMod
<1>11. PICK c : c = IcmpFold(n) OBVIOUS
<1>12. c = W - 1 - (q + r)
  <2>1. FoldOnce(n) + (FoldOnce(n) \div W) = q + r BY <1>7, <1>9, <1>10
  <2> QED BY <1>10, <1>11, <2>1 DEF IcmpFold, Complement
<1>13. c \in 0 .. W - 1 BY <1>4, <1>9, <1>12
<1>14. IcmpSum(8, b, c) = n + c BY <1>1, <1>3, <1>13 DEF IcmpSum, Raw
<1>15. n + c = (W - 1) * (q + 1) + 0 /\ n + c > 0 /\ n + c \in Int
  BY <1>4, <1>5, <1>6, <1>8, <1>12, <1>13
<1>16. W - 1 \in Nat \ {0} /\ q + 1 \in Int /\ 0 \in 0 .. (W - 1) - 1
  BY <1>4, <1>6
<1>17. (n + c) % (W - 1) = 0 BY <1>15, <1>16, DivMod
<1> QED BY <1>2, <1>11, <1>13, <1>14, <1>15, <1>17 DEF Right

(* A multiple of w changed by less than w is none.                            *)
LEMMA ChangeSeen ==
  ASSUME NEW w \in Nat \ {0}, NEW n \in Int, NEW d \in Int, n % w = 0,
         d # 0, d < w, 0 - d < w
  PROVE (n + d) % w # 0
<1>1. n = w * (n \div w) + (n % w) /\ n \div w \in Int BY Division
<1>2. PICK a \in Int : n = w * a BY <1>1
<1>3. n + d \in Int OBVIOUS
<1>4. CASE d > 0
  <2>1. n + d = w * a + d /\ d \in 0 .. w - 1 BY <1>2, <1>4
  <2>2. (n + d) % w = d BY <1>3, <2>1, DivMod
  <2> QED BY <1>4, <2>2
<1>5. CASE d < 0
  <2>1. w * a + d = w * (a - 1) + (w + d) /\ a - 1 \in Int OBVIOUS
  <2>2. n + d = w * (a - 1) + (w + d) /\ w + d \in 0 .. w - 1
    BY <1>2, <1>5, <2>1
  <2>3. PICK m \in Int, k \in Int, e \in 0 .. w - 1 :
          m = n + d /\ k = a - 1 /\ e = w + d
    BY <1>3, <2>1, <2>2
  <2>4. m % w = e BY <2>2, <2>3, DivMod
  <2> QED BY <1>5, <2>3, <2>4
<1> QED BY <1>4, <1>5

(* A header with its addresses exchanged has the same sum.                    *)
LEMMA BackSum ==
  ASSUME NEW h \in Headers
  PROVE Back(h) \in Headers /\ Sum(Back(h)) = Sum(h)
<1>1. Back(h) \in Headers BY DEF Headers, Back
<1>2. PICK g : g = Back(h) OBVIOUS
<1>3. /\ g.len = h.len /\ g.p = h.p /\ g.src = h.dst /\ g.dst = h.src
      /\ g.sum = h.sum
  BY <1>2 DEF Headers, Back
<1>4. PICK x1, x2, x3, y1, y2, y3, y4 :
        /\ x1 = Raw(h.len) /\ x2 = Raw(<<64, h.p>>) /\ x3 = Raw(h.sum)
        /\ y1 = Raw(<<h.src[1], h.src[2]>>) /\ y2 = Raw(<<h.src[3], h.src[4]>>)
        /\ y3 = Raw(<<h.dst[1], h.dst[2]>>) /\ y4 = Raw(<<h.dst[3], h.dst[4]>>)
  OBVIOUS
<1>5. Sum(h) = 69 + x1 + x2 + x3 + y1 + y2 + y3 + y4
  BY <1>4 DEF Sum
<1>6. Sum(g) = 69 + x1 + x2 + x3 + y3 + y4 + y1 + y2
  BY <1>3, <1>4 DEF Sum
<1>7. /\ x1 \in Int /\ x2 \in Int /\ x3 \in Int /\ y1 \in Int
      /\ y2 \in Int /\ y3 \in Int /\ y4 \in Int
  BY <1>4, RawType
<1> QED BY <1>1, <1>2, <1>5, <1>6, <1>7

(* What one octet can change a sum of words by.                               *)
Step(d) == d \in Int /\ d # 0 /\ d <= 255 * 256 /\ d >= 0 - (255 * 256)

(* Another octet changes a word by that much.                                 *)
LEMMA PairChanged ==
  ASSUME NEW b \in Pairs, NEW i \in 1 .. 2, NEW o \in Octets, NEW c,
         c = [b EXCEPT ![i] = o], c # b
  PROVE c \in Pairs /\ \E d : Step(d) /\ Raw(c) = Raw(b) + d
<1>0. b[1] \in 0 .. 255 /\ b[2] \in 0 .. 255 /\ b = <<b[1], b[2]>>
  BY DEF Pairs, Octets
<1>1. PICK x \in 0 .. 255, y \in 0 .. 255 : b = <<x, y>>
  BY <1>0
<1>2. o \in 0 .. 255 BY DEF Octets
<1>3. CASE i = 1
  <2>1. c = <<o, y>> BY <1>1, <1>3
  <2>2. PICK d \in Int : d = o - x BY <1>2
  <2>3. d # 0 BY <1>1, <1>2, <2>1, <2>2
  <2>4. Step(d) BY <1>1, <1>2, <2>2, <2>3 DEF Step
  <2>5. Raw(c) = Raw(b) + d BY <1>1, <1>2, <2>1, <2>2 DEF Raw
  <2>6. c \in Pairs BY <1>1, <1>2, <2>1 DEF Pairs, Octets
  <2> QED BY <2>4, <2>5, <2>6
<1>4. CASE i = 2
  <2>1. c = <<x, o>> BY <1>1, <1>4
  <2>2. PICK d \in Int : d = (o - y) * 256 BY <1>2
  <2>3. d # 0 BY <1>1, <1>2, <2>1, <2>2
  <2>4. Step(d) BY <1>1, <1>2, <2>2, <2>3 DEF Step
  <2>5. Raw(c) = Raw(b) + d BY <1>1, <1>2, <2>1, <2>2 DEF Raw
  <2>6. c \in Pairs BY <1>1, <1>2, <2>1 DEF Pairs, Octets
  <2> QED BY <2>4, <2>5, <2>6
<1>5. i = 1 \/ i = 2 OBVIOUS
<1> QED BY <1>3, <1>4, <1>5

(* The two words of an address.                                               *)
Words(q) == Raw(<<q[1], q[2]>>) + Raw(<<q[3], q[4]>>)

(* They are numbers.                                                          *)
LEMMA WordsType ==
  ASSUME NEW q \in Quads
  PROVE Words(q) \in Int
<1>1. <<q[1], q[2]>> \in Pairs /\ <<q[3], q[4]>> \in Pairs
  BY DEF Quads, Pairs
<1>2. PICK x \in 0 .. W - 1 : x = Raw(<<q[1], q[2]>>) BY <1>1, PairWord
<1>3. PICK y \in 0 .. W - 1 : y = Raw(<<q[3], q[4]>>) BY <1>1, PairWord
<1> QED BY <1>2, <1>3 DEF Words

(* Another octet changes the words of an address by that much.                *)
LEMMA QuadChanged ==
  ASSUME NEW q \in Quads, NEW i \in 1 .. 4, NEW o \in Octets, NEW r,
         r = [q EXCEPT ![i] = o], r # q
  PROVE r \in Quads /\ \E d : Step(d) /\ Words(r) = Words(q) + d
<1>1. PICK a \in 0 .. 255, b \in 0 .. 255, c \in 0 .. 255, e \in 0 .. 255 :
        q = <<a, b, c, e>>
  <2>1. /\ q[1] \in 0 .. 255 /\ q[2] \in 0 .. 255 /\ q[3] \in 0 .. 255
        /\ q[4] \in 0 .. 255 /\ q = <<q[1], q[2], q[3], q[4]>>
    BY DEF Quads, Octets
  <2> QED BY <2>1
<1>2. o \in 0 .. 255 BY DEF Octets
<1>a. \/ r = <<o, b, c, e>> \/ r = <<a, o, c, e>>
      \/ r = <<a, b, o, e>> \/ r = <<a, b, c, o>>
  <2>1. CASE i = 1 BY <1>1, <2>1
  <2>2. CASE i = 2 BY <1>1, <2>2
  <2>3. CASE i = 3 BY <1>1, <2>3
  <2>4. CASE i = 4 BY <1>1, <2>4
  <2>5. i = 1 \/ i = 2 \/ i = 3 \/ i = 4 OBVIOUS
  <2> QED BY <2>1, <2>2, <2>3, <2>4, <2>5
<1>3. PICK t \in 0 .. 255, u \in 0 .. 255, v \in 0 .. 255, w \in 0 .. 255 :
        /\ r = <<t, u, v, w>>
        /\ \/ t = o /\ u = b /\ v = c /\ w = e
           \/ t = a /\ u = o /\ v = c /\ w = e
           \/ t = a /\ u = b /\ v = o /\ w = e
           \/ t = a /\ u = b /\ v = c /\ w = o
  <2>1. CASE r = <<o, b, c, e>> BY <1>2, <2>1
  <2>2. CASE r = <<a, o, c, e>> BY <1>2, <2>2
  <2>3. CASE r = <<a, b, o, e>> BY <1>2, <2>3
  <2>4. CASE r = <<a, b, c, o>> BY <1>2, <2>4
  <2> QED BY <1>a, <2>1, <2>2, <2>3, <2>4
<1>4. t # a \/ u # b \/ v # c \/ w # e BY <1>1, <1>3
<1>5. PICK d \in Int : d = (t - a) + (u - b) * 256 + (v - c) + (w - e) * 256
  OBVIOUS
<1>6. d # 0 /\ d <= 255 * 256 /\ d >= 0 - (255 * 256)
  BY <1>2, <1>3, <1>4, <1>5
<1>7. Words(r) = Words(q) + d BY <1>1, <1>3, <1>5 DEF Words, Raw
<1>8. r \in Quads BY <1>3 DEF Quads, Octets
<1> QED BY <1>6, <1>7, <1>8 DEF Step

(* A right sum is wrong after such a change.                                  *)
LEMMA StepSeen ==
  ASSUME NEW n \in Int, NEW d, Step(d), Right(n)
  PROVE ~Right(n + d)
<1>1. W - 1 \in Nat \ {0} /\ d \in Int /\ d # 0 /\ d < W - 1
      /\ 0 - d < W - 1
  BY WordSize DEF Step
<1>2. n % (W - 1) = 0 BY DEF Right
<1>3. (n + d) % (W - 1) # 0 BY <1>1, <1>2, ChangeSeen
<1> QED BY <1>3 DEF Right

(* A right checksum is wrong when any octet of the header is another.         *)
LEMMA HeaderChanged ==
  ASSUME NEW h \in Headers, NEW o \in Octets, NEW g \in HeaderChanges(h, o),
         g # h
  PROVE g \in Headers /\ (Right(Sum(h)) => ~Right(Sum(g)))
<1>1. PICK x1, x2, x3, y, z :
        /\ x1 = Raw(h.len) /\ x2 = Raw(<<64, h.p>>) /\ x3 = Raw(h.sum)
        /\ y = Words(h.src) /\ z = Words(h.dst)
  OBVIOUS
<1>2. /\ x1 \in Int /\ x2 \in Int /\ x3 \in Int /\ y \in Int /\ z \in Int
  <2>1. h.src \in Quads /\ h.dst \in Quads BY DEF Headers
  <2> QED BY <1>1, <2>1, RawType, WordsType
<1>3. ASSUME NEW e \in Headers
      PROVE  Sum(e) = 69 + Raw(e.len) + Raw(<<64, e.p>>) + Raw(e.sum)
                      + Words(e.src) + Words(e.dst)
  <2>1. PICK a, b, c, d1, d2, d3, d4 :
          /\ a = Raw(e.len) /\ b = Raw(<<64, e.p>>) /\ c = Raw(e.sum)
          /\ d1 = Raw(<<e.src[1], e.src[2]>>)
          /\ d2 = Raw(<<e.src[3], e.src[4]>>)
          /\ d3 = Raw(<<e.dst[1], e.dst[2]>>)
          /\ d4 = Raw(<<e.dst[3], e.dst[4]>>)
    OBVIOUS
  <2>2. /\ a \in Int /\ b \in Int /\ c \in Int /\ d1 \in Int /\ d2 \in Int
        /\ d3 \in Int /\ d4 \in Int
    BY <2>1, RawType
  <2>3. Sum(e) = 69 + a + b + c + d1 + d2 + d3 + d4 BY <2>1 DEF Sum
  <2>4. Words(e.src) = d1 + d2 /\ Words(e.dst) = d3 + d4
    BY <2>1 DEF Words
  <2> QED BY <2>1, <2>2, <2>3, <2>4
<1>4. Sum(h) = 69 + x1 + x2 + x3 + y + z BY <1>1, <1>3
<1>5. Sum(h) \in Int BY SumType
<1>6. SUFFICES /\ g \in Headers
               /\ \E d : Step(d) /\ Sum(g) = Sum(h) + d
  BY <1>5, StepSeen
<1>7. /\ h.len \in Pairs /\ h.sum \in Pairs /\ h.src \in Quads
      /\ h.dst \in Quads /\ h.p \in Octets
  BY DEF Headers
<1>8. CASE g = [h EXCEPT !.p = o]
  <2>1. /\ g.len = h.len /\ g.p = o /\ g.sum = h.sum /\ g.src = h.src
        /\ g.dst = h.dst /\ g \in Headers
    BY <1>8 DEF Headers
  <2>2. o # h.p BY <1>8 DEF Headers
  <2>3. PICK a \in 0 .. 255, b \in 0 .. 255 : a = h.p /\ b = o
    BY <1>7 DEF Octets
  <2>4. PICK d \in Int : d = (b - a) * 256 OBVIOUS
  <2>5. Step(d) BY <2>2, <2>3, <2>4 DEF Step
  <2>6. Raw(<<64, g.p>>) = x2 + d BY <1>1, <2>1, <2>3, <2>4 DEF Raw
  <2>7. Sum(g) = 69 + x1 + (x2 + d) + x3 + y + z BY <1>1, <1>3, <2>1, <2>6
  <2> QED BY <1>2, <1>4, <2>1, <2>5, <2>7
<1>9. ASSUME NEW i \in 1 .. 2, g = [h EXCEPT !.len[i] = o]
      PROVE  g \in Headers /\ \E d : Step(d) /\ Sum(g) = Sum(h) + d
  <2>1. PICK c : c = [h.len EXCEPT ![i] = o] OBVIOUS
  <2>2. c # h.len BY <1>9, <2>1 DEF Headers
  <2>3. c \in Pairs /\ \E d : Step(d) /\ Raw(c) = x1 + d
    BY <1>1, <1>7, <2>1, <2>2, PairChanged
  <2>4. PICK d : Step(d) /\ Raw(c) = x1 + d BY <2>3
  <2>5. /\ g.len = c /\ g.p = h.p /\ g.sum = h.sum /\ g.src = h.src
        /\ g.dst = h.dst /\ g \in Headers
    BY <1>9, <2>1, <2>3 DEF Headers
  <2>6. d \in Int BY <2>4 DEF Step
  <2>7. Sum(g) = 69 + (x1 + d) + x2 + x3 + y + z BY <1>1, <1>3, <2>4, <2>5
  <2>8. Sum(g) = Sum(h) + d BY <1>2, <1>4, <2>6, <2>7
  <2> QED BY <2>4, <2>5, <2>8
<1>10. ASSUME NEW i \in 1 .. 2, g = [h EXCEPT !.sum[i] = o]
       PROVE  g \in Headers /\ \E d : Step(d) /\ Sum(g) = Sum(h) + d
  <2>1. PICK c : c = [h.sum EXCEPT ![i] = o] OBVIOUS
  <2>2. c # h.sum BY <1>10, <2>1 DEF Headers
  <2>3. c \in Pairs /\ \E d : Step(d) /\ Raw(c) = x3 + d
    BY <1>1, <1>7, <2>1, <2>2, PairChanged
  <2>4. PICK d : Step(d) /\ Raw(c) = x3 + d BY <2>3
  <2>5. /\ g.len = h.len /\ g.p = h.p /\ g.sum = c /\ g.src = h.src
        /\ g.dst = h.dst /\ g \in Headers
    BY <1>10, <2>1, <2>3 DEF Headers
  <2>6. d \in Int BY <2>4 DEF Step
  <2>7. Sum(g) = 69 + x1 + x2 + (x3 + d) + y + z BY <1>1, <1>3, <2>4, <2>5
  <2>8. Sum(g) = Sum(h) + d BY <1>2, <1>4, <2>6, <2>7
  <2> QED BY <2>4, <2>5, <2>8
<1>11. ASSUME NEW i \in 1 .. 4, g = [h EXCEPT !.src[i] = o]
       PROVE  g \in Headers /\ \E d : Step(d) /\ Sum(g) = Sum(h) + d
  <2>1. PICK c : c = [h.src EXCEPT ![i] = o] OBVIOUS
  <2>2. c # h.src BY <1>11, <2>1 DEF Headers
  <2>3. c \in Quads /\ \E d : Step(d) /\ Words(c) = y + d
    BY <1>1, <1>7, <2>1, <2>2, QuadChanged
  <2>4. PICK d : Step(d) /\ Words(c) = y + d BY <2>3
  <2>5. /\ g.len = h.len /\ g.p = h.p /\ g.sum = h.sum /\ g.src = c
        /\ g.dst = h.dst /\ g \in Headers
    BY <1>11, <2>1, <2>3 DEF Headers
  <2>6. d \in Int BY <2>4 DEF Step
  <2>7. Sum(g) = 69 + x1 + x2 + x3 + (y + d) + z BY <1>1, <1>3, <2>4, <2>5
  <2>8. Sum(g) = Sum(h) + d BY <1>2, <1>4, <2>6, <2>7
  <2> QED BY <2>4, <2>5, <2>8
<1>12. ASSUME NEW i \in 1 .. 4, g = [h EXCEPT !.dst[i] = o]
       PROVE  g \in Headers /\ \E d : Step(d) /\ Sum(g) = Sum(h) + d
  <2>1. PICK c : c = [h.dst EXCEPT ![i] = o] OBVIOUS
  <2>2. c # h.dst BY <1>12, <2>1 DEF Headers
  <2>3. c \in Quads /\ \E d : Step(d) /\ Words(c) = z + d
    BY <1>1, <1>7, <2>1, <2>2, QuadChanged
  <2>4. PICK d : Step(d) /\ Words(c) = z + d BY <2>3
  <2>5. /\ g.len = h.len /\ g.p = h.p /\ g.sum = h.sum /\ g.src = h.src
        /\ g.dst = c /\ g \in Headers
    BY <1>12, <2>1, <2>3 DEF Headers
  <2>6. d \in Int BY <2>4 DEF Step
  <2>7. Sum(g) = 69 + x1 + x2 + x3 + y + (z + d) BY <1>1, <1>3, <2>4, <2>5
  <2>8. Sum(g) = Sum(h) + d BY <1>2, <1>4, <2>6, <2>7
  <2> QED BY <2>4, <2>5, <2>8
<1> QED BY <1>8, <1>9, <1>10, <1>11, <1>12 DEF HeaderChanges

(* The own servers of the peer.                                               *)
RowsOK == \E k \in 0 .. MaxRows : rows \in [1 .. k -> Row]

(* The fields of a row fit a word.                                            *)
LEMMA RowType ==
  ASSUME NEW r \in Row
  PROVE /\ r.ip \in Quads /\ r.rtt \in 0 .. W - 1 /\ r.sent \in 0 .. W - 1
        /\ r.received \in 0 .. W - 1
BY PacketAssumption, WordSize DEF Row, INF

(* The reachable rows are some of the rows.                                   *)
LEMMA UpFinite ==
  ASSUME RowsOK
  PROVE /\ IsFiniteSet(Up) /\ Cardinality(Up) \in Nat
        /\ Cardinality(Up) <= MaxRows /\ Up \subseteq Nat
        /\ \A k \in Up : rows[k] \in Row
<1>1. PICK k \in 0 .. MaxRows : rows \in [1 .. k -> Row] BY DEF RowsOK
<1>2. k \in Nat /\ MaxRows \in Nat /\ k <= MaxRows BY PacketAssumption
<1>3. Up \subseteq 1 .. k BY <1>1 DEF Up
<1>4. IsFiniteSet(1 .. k) /\ Cardinality(1 .. k) = k BY <1>2, FS_Interval
<1>5. IsFiniteSet(Up) /\ Cardinality(Up) <= k BY <1>3, <1>4, FS_Subset
<1>6. Cardinality(Up) \in Nat BY <1>5, FS_CardinalityType
<1> QED BY <1>1, <1>2, <1>3, <1>5, <1>6

(* The offset behind a reachable row is within the advert.                    *)
LEMMA RankType ==
  ASSUME RowsOK, NEW k \in Up
  PROVE Rank(k) \in 1 .. Cardinality(Up)
<1> DEFINE S == {j \in Up : j <= k}
<1>1. IsFiniteSet(Up) /\ Cardinality(Up) \in Nat /\ k \in Nat BY UpFinite
<1>2. k \in S BY <1>1
<1>3. IsFiniteSet(S) /\ Cardinality(S) <= Cardinality(Up) BY <1>1, FS_Subset
<1>4. Cardinality(S) \in Nat BY <1>3, FS_CardinalityType
<1>5. Cardinality(S) # 0 BY <1>2, <1>3, FS_EmptySet
<1> QED BY <1>1, <1>3, <1>4, <1>5 DEF Rank

(* No two rows are written at the same offset.                                *)
LEMMA RankGrows ==
  ASSUME RowsOK, NEW a \in Up, NEW b \in Up, a < b
  PROVE Rank(a) # Rank(b)
<1> DEFINE S == {j \in Up : j <= a}
           T == {j \in Up : j <= b}
<1>1. IsFiniteSet(Up) /\ Up \subseteq Nat BY UpFinite
<1>2. IsFiniteSet(T) BY <1>1, FS_Subset
<1>a. \A j \in Up : j <= a => j <= b BY <1>1
<1>3. S \in SUBSET T BY <1>a
<1>4. b \in T /\ b \notin S BY <1>1
<1>5. Cardinality(T) = Cardinality(S) => T = S BY <1>2, <1>3, FS_Subset
<1> QED BY <1>4, <1>5 DEF Rank

(* There is no gap between the entries: as many offsets as reachable rows.    *)
LEMMA RankOnto ==
  ASSUME RowsOK, NEW i \in 1 .. Cardinality(Up)
  PROVE \E k \in Up : Rank(k) = i
<1> DEFINE N == Cardinality(Up)
           f == [k \in Up |-> Rank(k)]
<1>1. N \in Nat /\ Up \subseteq Nat BY UpFinite
<1>2. IsFiniteSet(1 .. N) /\ Cardinality(1 .. N) = N BY <1>1, FS_Interval
<1>3. f \in [Up -> 1 .. N] BY RankType
<1>4. \A a, b \in Up : f[a] = f[b] => a = b
  <2> SUFFICES ASSUME NEW a \in Up, NEW b \in Up, a # b
               PROVE  Rank(a) # Rank(b)
    OBVIOUS
  <2>1. a < b \/ b < a BY <1>1
  <2> QED BY <2>1, RankGrows
<1>5. f \in Injection(Up, 1 .. N) BY <1>3, <1>4 DEF Injection, IsInjective
<1>6. f \in Surjection(Up, 1 .. N) BY <1>2, <1>5, FS_Injection
<1> QED BY <1>6 DEF Surjection

(* The advert has the entry of each reachable row at its offset.              *)
LEMMA EntryOf ==
  ASSUME RowsOK
  PROVE /\ DOMAIN Entries = 1 .. Cardinality(Up)
        /\ Len(Entries) = Cardinality(Up)
        /\ \A k \in Up : Entries[Rank(k)] = AdvertEntry(rows[k])
<1>1. Cardinality(Up) \in Nat /\ Up \subseteq Nat BY UpFinite
<1>2. DOMAIN Entries = 1 .. Cardinality(Up) BY DEF Entries
<1>3. Len(Entries) = Cardinality(Up) BY <1>1 DEF Entries
<1>4. ASSUME NEW k \in Up PROVE Entries[Rank(k)] = AdvertEntry(rows[k])
  <2> DEFINE c == CHOOSE j \in Up : Rank(j) = Rank(k)
  <2>1. c \in Up /\ Rank(c) = Rank(k) OBVIOUS
  <2>2. c = k
    <3>1. ~ (c < k) /\ ~ (k < c) BY <2>1, RankGrows
    <3> QED BY <1>1, <2>1, <3>1
  <2>3. Rank(k) \in 1 .. Cardinality(Up) BY RankType
  <2>4. Entries[Rank(k)] = AdvertEntry(rows[c]) BY <2>3 DEF Entries
  <2> QED BY <2>2, <2>4
<1> QED BY <1>2, <1>3, <1>4

(* What receive_advertise_data makes of an entry.                             *)
Read(e) == [ip |-> e.ip, str |-> ipUint_into_str(e.ip),
            rtt |-> ntohs(<<e.rtt[3], e.rtt[4]>>), rate |-> RateOf(e)]

(* The address and delay of an entry are read as they were written; the two   *)
(* counters are loaded without ntohs.                                         *)
LEMMA ReadEntry ==
  ASSUME NEW r \in Row
  PROVE /\ Read(AdvertEntry(r)).ip = r.ip
        /\ Read(AdvertEntry(r)).str = ipUint_into_str(r.ip)
        /\ Read(AdvertEntry(r)).rtt = r.rtt
        /\ Read(AdvertEntry(r)).rate =
             <<Raw(htons(r.received)), Raw(htons(r.sent))>>
<1>1. PICK e : e = AdvertEntry(r) OBVIOUS
<1>2. /\ e.ip = r.ip /\ e.sent = htons(r.sent)
      /\ e.received = htons(r.received)
      /\ e.rtt[3] = htons(r.rtt)[1] /\ e.rtt[4] = htons(r.rtt)[2]
  BY <1>1 DEF AdvertEntry
<1>3. r.rtt \in 0 .. W - 1 BY RowType
<1>4. htons(r.rtt) \in Pairs /\ ntohs(htons(r.rtt)) = r.rtt BY <1>3, WordPair
<1>5. PICK x \in Octets, y \in Octets : htons(r.rtt) = <<x, y>>
  BY <1>4 DEF Pairs
<1>6. e.rtt[3] = x /\ e.rtt[4] = y BY <1>2, <1>5
<1>7. ntohs(<<e.rtt[3], e.rtt[4]>>) = r.rtt BY <1>4, <1>5, <1>6
<1> QED BY <1>1, <1>2, <1>7 DEF Read, RateOf

(* The entries of an advert, changed ones included, and the addresses that    *)
(* are read from them.                                                        *)
EntrySet == [ip : Quads, rtt : Quads, sent : Pairs, received : Pairs]
DataOK(d) == \A k \in DOMAIN d : d[k] \in EntrySet
TableOK == \A k \in DOMAIN table :
             \E u \in Quads : /\ table[k].ip = u
                              /\ table[k].str = ipUint_into_str(u)

(* What an advert is built with is of that kind.                              *)
LEMMA EntryType ==
  ASSUME NEW r \in Row
  PROVE AdvertEntry(r) \in EntrySet
<1>1. PICK a \in Pairs, b \in Pairs, c \in Pairs :
        a = htons(r.rtt) /\ b = htons(r.sent) /\ c = htons(r.received)
  <2>1. /\ r.rtt \in 0 .. W - 1 /\ r.sent \in 0 .. W - 1
        /\ r.received \in 0 .. W - 1
    BY RowType
  <2>2. /\ htons(r.rtt) \in Pairs /\ htons(r.sent) \in Pairs
        /\ htons(r.received) \in Pairs
    BY <2>1, WordPair
  <2> QED BY <2>2
<1>2. <<0, 0, a[1], a[2]>> \in Quads
  BY DEF Pairs, Quads, Octets
<1>3. r.ip \in Quads BY RowType
<1> QED BY <1>1, <1>2, <1>3 DEF AdvertEntry, EntrySet

(* So are the entries of an advert.                                           *)
LEMMA EntriesType ==
  ASSUME RowsOK
  PROVE DataOK(Entries)
<1> SUFFICES ASSUME NEW i \in 1 .. Cardinality(Up)
             PROVE  Entries[i] \in EntrySet
  BY EntryOf DEF DataOK
<1>1. PICK k \in Up : Rank(k) = i BY RankOnto
<1>2. rows[k] \in Row BY UpFinite
<1> QED BY <1>1, <1>2, EntryOf, EntryType

(* Another octet in an entry makes an entry.                                  *)
LEMMA EntryChanged ==
  ASSUME NEW e \in EntrySet, NEW o \in Octets, NEW g \in EntryChanges(e, o)
  PROVE g \in EntrySet
<1>1. /\ e.ip \in Quads /\ e.rtt \in Quads /\ e.sent \in Pairs
      /\ e.received \in Pairs
  BY DEF EntrySet
<1>2. ASSUME NEW q \in Quads, NEW i \in 1 .. 4 PROVE [q EXCEPT ![i] = o] \in Quads
  BY DEF Quads
<1>3. ASSUME NEW b \in Pairs, NEW i \in 1 .. 2 PROVE [b EXCEPT ![i] = o] \in Pairs
  BY DEF Pairs
<1>4. ASSUME NEW i \in 1 .. 4, g = [e EXCEPT !.ip[i] = o] PROVE g \in EntrySet
  <2>1. PICK q \in Quads : q = [e.ip EXCEPT ![i] = o] BY <1>1, <1>2
  <2> QED BY <1>4, <2>1 DEF EntrySet
<1>5. ASSUME NEW i \in 1 .. 4, g = [e EXCEPT !.rtt[i] = o] PROVE g \in EntrySet
  <2>1. PICK q \in Quads : q = [e.rtt EXCEPT ![i] = o] BY <1>1, <1>2
  <2> QED BY <1>5, <2>1 DEF EntrySet
<1>6. ASSUME NEW i \in 1 .. 2, g = [e EXCEPT !.sent[i] = o]
      PROVE  g \in EntrySet
  <2>1. PICK b \in Pairs : b = [e.sent EXCEPT ![i] = o] BY <1>1, <1>3
  <2> QED BY <1>6, <2>1 DEF EntrySet
<1>7. ASSUME NEW i \in 1 .. 2, g = [e EXCEPT !.received[i] = o]
      PROVE  g \in EntrySet
  <2>1. PICK b \in Pairs : b = [e.received EXCEPT ![i] = o] BY <1>1, <1>3
  <2> QED BY <1>7, <2>1 DEF EntrySet
<1> QED BY <1>4, <1>5, <1>6, <1>7 DEF EntryChanges

(* Where a frame is in flight.                                                *)
UdpAt == {"advert", "probe", "direct", "relayed", "reply", "back"}
Flight == UdpAt \cup {"ping", "echo"}

(* The frames, with some data, that are on the wire.                          *)
UdpHeaders == [src : Pairs, dst : Pairs, len : Pairs]
IcmpHeaders == [type : Octets, seq : Pairs, sum : 0 .. W - 1]
Frames(d) ==
  [ip : Headers, length : Nat, data : {d}, icmp : IcmpHeaders,
   udp : UdpHeaders]
FrameOK(f) == f \in Frames(f.data) /\ DataOK(f.data)

(* The types.                                                                 *)
TypeInv ==
  /\ iface \in [{"self", "peer"} -> [0 .. 1 -> Quads]] /\ RowsOK
  /\ at \in Flight \cup {"start", "learned", "shown", "measured", "dropped",
                         "strayed"}
  /\ at # "start" => FrameOK(frame)
  /\ at = "learned" => TableOK
  /\ src_port \in [{"self", "peer"} -> Int]
  /\ target \in Quads /\ left \in Quads \X Int
  /\ nat \in [port : Int, ip : Quads, src : Pairs]
  /\ carried \in BOOLEAN /\ hurt \in {"no", "header", "body"}

(* The lengths and protocol of an unchanged frame are those that              *)
(* is_valid_packet asks for.                                                  *)
UdpShape(f) ==
  /\ f.ip.p = UDP /\ f.length = ntohs(f.ip.len) + EtherSize
  /\ f.length >= UDP_SIZE /\ ntohs(f.udp.len) = ntohs(f.ip.len) - IpSize
IcmpShape(f) ==
  /\ f.ip.p = ICMP /\ f.length = ntohs(f.ip.len) + EtherSize
  /\ f.length >= ICMP_SIZE
ShapeInv ==
  hurt = "no" =>
    /\ at \in UdpAt => UdpShape(frame)
    /\ at \in {"ping", "echo"} => IcmpShape(frame)
    /\ at = "echo" => frame.icmp.type = 0

(* As long as no sum carried twice, the checksum of a frame in flight is      *)
(* right exactly if no octet of its header was changed, and only a changed    *)
(* one ends up dropped.                                                       *)
CheckInv ==
  ~carried =>
    /\ at \in Flight => (Right(Sum(frame.ip)) <=> hurt # "header")
    /\ at = "dropped" => hurt # "no"
    /\ at \in {"start", "learned", "shown", "measured", "strayed"} =>
         hurt # "header"

(* An advert holds the entries of the reachable rows and the padding, and     *)
(* what was read from it are these entries.                                   *)
AdvertInv ==
  hurt = "no" =>
    /\ at = "advert" =>
         /\ frame.data = Entries
         /\ frame.length = UDP_SIZE + (EntrySize * Cardinality(Up) + Padding)
    /\ at = "learned" =>
         /\ DOMAIN table = 1 .. Cardinality(Up)
         /\ \A k \in Up : table[Rank(k)] = Read(AdvertEntry(rows[k]))

(* A probe goes to its target and comes from where it left; the relay knows   *)
(* this; its reply goes back there, to a port below src_port.                 *)
From(ip, port, a) == ip = a[1] /\ ntohs(port) = a[2]
TripInv ==
  /\ left[2] < src_port["self"] /\ nat.port < src_port["peer"]
  /\ hurt = "no" =>
       /\ at = "advert" => DstPort(frame) = 5000
       /\ at \in {"probe", "direct"} =>
            /\ frame.ip.dst = target /\ DstPort(frame) \in {1000, 2000}
            /\ From(frame.ip.src, frame.udp.src, left)
       /\ at = "relayed" =>
            /\ frame.ip.dst = target /\ From(nat.ip, nat.src, left)
            /\ ntohs(frame.udp.src) = nat.port
       /\ at = "reply" =>
            /\ frame.ip.src = target /\ From(nat.ip, nat.src, left)
            /\ DstPort(frame) = nat.port
       /\ at \in {"back", "shown"} =>
            /\ frame.ip.src = target
            /\ From(frame.ip.dst, frame.udp.dst, left)
       /\ at = "strayed" =>
            DstPort(frame) < 8000 /\ DstPort(frame) \in {left[2], nat.port}

(* The inductive invariant.                                                   *)
PInv == TypeInv /\ ShapeInv /\ CheckInv /\ AdvertInv /\ TripInv
        /\ PingChecksumRight

(* The rows of the peer do not change, nor does what is computed from them.   *)
LEMMA SameConfig ==
  ASSUME config' = config
  PROVE /\ iface' = iface /\ rows' = rows /\ Up' = Up /\ Entries' = Entries
        /\ RowsOK' = RowsOK
        /\ \A k : Rank(k)' = Rank(k)
<1>1. iface' = iface /\ rows' = rows BY DEF config
<1>2. Up' = Up BY <1>1 DEF Up
<1>3. \A k : Rank(k)' = Rank(k) BY <1>2 DEF Rank
<1>4. Entries' = Entries
  <2> DEFINE U(r) == {k \in DOMAIN r : r[k].rtt # INF}
             E(r) == [i \in 1 .. Cardinality(U(r)) |->
                        AdvertEntry(r[CHOOSE k \in U(r) :
                          Cardinality({j \in U(r) : j <= k}) = i])]
  <2>1. Entries = E(rows) /\ Entries' = E(rows')
    BY DEF Entries, Rank, Up
  <2> HIDE DEF E
  <2> QED BY <1>1, <2>1
<1> QED BY <1>1, <1>2, <1>3, <1>4 DEF RowsOK

(* Writing the checksum changes nothing else.                                 *)
LEMMA SignedFields ==
  ASSUME NEW h \in Headers
  PROVE /\ Signed(h).len = h.len /\ Signed(h).p = h.p
        /\ Signed(h).src = h.src /\ Signed(h).dst = h.dst
BY DEF Signed, Headers

(* A header as set_ip_header builds it.                                       *)
LEMMA HeaderBuilt ==
  ASSUME NEW src \in Quads, NEW dst \in Quads, NEW p \in {UDP, ICMP},
         NEW size \in Nat, IpSize + size <= W - 1,
         NEW h, h = set_ip_header(src, dst, p, size)
  PROVE /\ h \in Headers /\ h.src = src /\ h.dst = dst /\ h.p = p
        /\ ntohs(h.len) = IpSize + size
        /\ ~CarriesTwice(h) => Right(Sum(h))
<1>1. IpSize + size \in 0 .. W - 1 BY WordSize DEF IpSize
<1>2. htons(IpSize + size) \in Pairs
      /\ ntohs(htons(IpSize + size)) = IpSize + size
  BY <1>1, WordPair
<1>3. PICK g : g = [len |-> htons(IpSize + size), p |-> p, sum |-> <<0, 0>>,
                    src |-> src, dst |-> dst]
  OBVIOUS
<1>4. <<0, 0>> \in Pairs /\ p \in Octets BY DEF Pairs, Octets, UDP, ICMP
<1>5. g \in Headers BY <1>2, <1>3, <1>4 DEF Headers
<1>6. h = Signed(g) BY <1>3 DEF set_ip_header
<1>7. /\ h.len = g.len /\ h.p = g.p /\ h.src = g.src /\ h.dst = g.dst
  BY <1>5, <1>6, SignedFields
<1>8. h \in Headers /\ (~CarriesTwice(h) => Right(Sum(h)))
  BY <1>5, <1>6, SignedRight
<1> QED BY <1>2, <1>3, <1>7, <1>8

(* A UDP frame as its senders build it.                                       *)
LEMMA UdpBuilt ==
  ASSUME NEW src \in Quads, NEW dst \in Quads, NEW sport \in Nat,
         NEW dport \in 0 .. W - 1, NEW size \in Nat, size <= 60100,
         NEW data, DataOK(data),
         NEW f, f = UdpFrame(set_ip_header(src, dst, UDP, UdpHeader + size),
                             sport, dport, size, data)
  PROVE /\ FrameOK(f) /\ UdpShape(f) /\ f.ip.src = src /\ f.ip.dst = dst
        /\ f.udp.src = htons(sport) /\ f.data = data
        /\ f.length = UDP_SIZE + size /\ DstPort(f) = dport
        /\ ~CarriesTwice(f.ip) => Right(Sum(f.ip))
<1>1. /\ UdpHeader + size \in Nat /\ IpSize + (UdpHeader + size) <= W - 1
      /\ UdpHeader + size \in 0 .. W - 1
  BY WordSize DEF UdpHeader, IpSize
<1>2. PICK h : h = set_ip_header(src, dst, UDP, UdpHeader + size) OBVIOUS
<1>3. /\ h \in Headers /\ h.src = src /\ h.dst = dst /\ h.p = UDP
      /\ ntohs(h.len) = IpSize + (UdpHeader + size)
      /\ ~CarriesTwice(h) => Right(Sum(h))
  BY <1>1, <1>2, HeaderBuilt
<1>4. /\ htons(dport) \in Pairs /\ ntohs(htons(dport)) = dport
      /\ htons(UdpHeader + size) \in Pairs
      /\ ntohs(htons(UdpHeader + size)) = UdpHeader + size
  BY <1>1, WordPair
<1>a. htons(sport) \in Pairs BY PortOnWire
<1>5. /\ f.ip = h /\ f.length = UDP_SIZE + size /\ f.data = data
      /\ f.udp.src = htons(sport) /\ f.udp.len = htons(UdpHeader + size)
      /\ f.udp.dst = htons(dport) /\ f.icmp = NoIcmp
  BY <1>2 DEF UdpFrame
<1>6. NoIcmp \in IcmpHeaders
  BY WordSize DEF NoIcmp, IcmpHeaders, Pairs, Octets
<1>7. UDP_SIZE + size \in Nat BY DEF UDP_SIZE, EtherSize, IpSize, UdpHeader
<1>8. f \in Frames(data)
  BY <1>2, <1>3, <1>4, <1>a, <1>6, <1>7 DEF Frames, UdpHeaders, UdpFrame
<1>9. UdpShape(f)
  BY <1>3, <1>4, <1>5
  DEF UdpShape, UDP_SIZE, EtherSize, IpSize, UdpHeader
<1>10. FrameOK(f) BY <1>5, <1>8 DEF FrameOK
<1>11. DstPort(f) = dport BY <1>4, <1>5 DEF DstPort
<1> QED BY <1>3, <1>5, <1>9, <1>10, <1>11

(* The parts of a frame.                                                      *)
LEMMA FrameParts ==
  ASSUME NEW f, FrameOK(f)
  PROVE /\ f.ip \in Headers /\ f.udp \in UdpHeaders /\ f.icmp \in IcmpHeaders
        /\ f.length \in Nat /\ DataOK(f.data)
BY DEF FrameOK, Frames

(* is_valid_packet asks for a right checksum, and of an unchanged frame in    *)
(* flight for nothing else.                                                   *)
LEMMA ValidIsRight ==
  ASSUME TypeInv, ShapeInv, at \in Flight \ {"ping"}
  PROVE /\ is_valid_packet(frame) => Right(Sum(frame.ip))
        /\ hurt = "no" /\ Right(Sum(frame.ip)) => is_valid_packet(frame)
<1>1. frame.ip \in Headers BY FrameParts DEF TypeInv, Flight, UdpAt
<1>2. HeaderAccepted(frame) <=> Right(Sum(frame.ip))
  BY <1>1, SumType, AcceptedIsRight DEF HeaderAccepted, check_sum_ip
<1>3. is_valid_packet(frame) => HeaderAccepted(frame) BY DEF is_valid_packet
<1>4. CASE at \in UdpAt
  BY <1>2, <1>3, <1>4 DEF ShapeInv, UdpShape, is_valid_packet, UDP, ICMP
<1>5. CASE at = "echo"
  BY <1>2, <1>3, <1>5 DEF ShapeInv, IcmpShape, is_valid_packet, UDP, ICMP
<1> QED BY <1>4, <1>5 DEF Flight

(* A frame built from one that was accepted has a right checksum, or one that *)
(* carried twice.                                                             *)
LEMMA SentChecked ==
  ASSUME NEW f, NEW to \in Flight, Sent(f, to), ~carried => hurt # "header",
         carried \in BOOLEAN, ~CarriesTwice(f.ip) => Right(Sum(f.ip))
  PROVE CheckInv'
<1>1. /\ frame' = f /\ at' = to /\ hurt' = hurt
      /\ ~carried' => ~carried /\ ~CarriesTwice(f.ip)
  BY DEF Sent
<1> QED BY <1>1 DEF CheckInv, Flight, UdpAt

(* An advert leaves.                                                          *)
LEMMA SendAdvertStep ==
  ASSUME PInv, SendAdvert
  PROVE PInv'
<1>0. TypeInv /\ CheckInv /\ TripInv /\ at = "start" BY DEF PInv, SendAdvert
<1>1. PICK f : f = AdvertFrame OBVIOUS
<1>2. Sent(f, "advert") /\ UNCHANGED <<table, src_port, target, left, nat>>
  BY <1>1 DEF SendAdvert
<1>3. /\ frame' = f /\ at' = "advert" /\ config' = config /\ hurt' = hurt
      /\ carried' \in BOOLEAN
  BY <1>0, <1>2 DEF Sent, TypeInv, config, CarriesTwice
<1>4. PICK n \in Nat : n = Cardinality(Up) /\ n <= MaxRows
  BY <1>0, UpFinite DEF TypeInv
<1>5. PICK size \in Nat : size = EntrySize * n + Padding
  BY DEF EntrySize, Padding
<1>6. size <= 60100
  <2>1. MaxRows \in Nat /\ MaxRows <= 5000 BY PacketAssumption
  <2>2. n <= 5000 BY <1>4, <2>1
  <2> QED BY <1>5, <2>2 DEF EntrySize, Padding
<1>7. iface["peer"][0] \in Quads /\ Broadcast \in Quads
  BY <1>0 DEF TypeInv, Broadcast, Quads, Octets
<1>8. f = UdpFrame(set_ip_header(iface["peer"][0], Broadcast, UDP,
                                 UdpHeader + size), 5000, 5000, size, Entries)
  BY <1>0, <1>1, <1>4, <1>5, EntryOf DEF TypeInv, AdvertFrame
<1>9. 5000 \in 0 .. W - 1 /\ 5000 \in Nat /\ DataOK(Entries)
  BY <1>0, WordSize, EntriesType DEF TypeInv
<1>10. /\ FrameOK(f) /\ UdpShape(f) /\ f.data = Entries
       /\ f.length = UDP_SIZE + size /\ DstPort(f) = 5000
       /\ ~CarriesTwice(f.ip) => Right(Sum(f.ip))
  BY <1>6, <1>7, <1>8, <1>9, UdpBuilt
<1>11. TypeInv'
  BY <1>0, <1>2, <1>3, <1>10, SameConfig DEF TypeInv, Flight, UdpAt
<1>12. ShapeInv' BY <1>3, <1>10 DEF ShapeInv
<1>13. CheckInv'
  BY <1>0, <1>2, <1>10, SentChecked DEF CheckInv, TypeInv, Flight, UdpAt
<1>14. AdvertInv' BY <1>3, <1>4, <1>5, <1>10, SameConfig DEF AdvertInv
<1>15. TripInv' /\ PingChecksumRight'
  BY <1>0, <1>2, <1>3, <1>10 DEF TripInv, PingChecksumRight, DstPort
<1> QED BY <1>11, <1>12, <1>13, <1>14, <1>15 DEF PInv

(* An advert is read: the loop ends behind the last entry.                    *)
LEMMA ReceiveAdvertStep ==
  ASSUME PInv, ReceiveAdvert
  PROVE PInv'
<1>0. /\ TypeInv /\ ShapeInv /\ CheckInv /\ AdvertInv /\ TripInv
      /\ at = "advert" /\ is_valid_packet(frame) /\ DataOK(frame.data)
  BY FrameParts DEF PInv, ReceiveAdvert, Arrives, TypeInv
<1>1. /\ table' = receive_advertise_data(frame) /\ at' = "learned"
      /\ config' = config
      /\ UNCHANGED <<frame, src_port, target, left, nat, carried, hurt>>
  BY DEF ReceiveAdvert
<1>2. ~carried => hurt # "header"
  BY <1>0, ValidIsRight DEF CheckInv, Flight, UdpAt
<1>3. PICK n \in Nat : n = Cardinality(Up) BY <1>0, UpFinite DEF TypeInv
<1>4. ASSUME hurt = "no"
      PROVE  /\ DOMAIN table' = 1 .. n
             /\ \A k \in Up : table'[Rank(k)] = Read(AdvertEntry(rows[k]))
  <2>1. /\ frame.data = Entries
        /\ frame.length - UDP_SIZE = EntrySize * n + Padding
    BY <1>0, <1>3, <1>4
    DEF AdvertInv, UDP_SIZE, EtherSize, IpSize, UdpHeader, EntrySize, Padding
  <2>2. Turns(EntrySize * n + Padding) = 1 .. n
    BY DEF Turns, EntrySize, Padding
  <2>3. DOMAIN table' = 1 .. n BY <1>1, <2>1, <2>2 DEF receive_advertise_data
  <2>4. ASSUME NEW k \in Up PROVE table'[Rank(k)] = Read(AdvertEntry(rows[k]))
    <3>1. Rank(k) \in 1 .. n BY <1>0, <1>3, RankType DEF TypeInv
    <3>2. /\ DOMAIN frame.data = 1 .. n
          /\ frame.data[Rank(k)] = AdvertEntry(rows[k])
      BY <1>0, <1>3, <2>1, EntryOf DEF TypeInv
    <3>3. PICK i : i = Rank(k) OBVIOUS
    <3>4. table'[i] = Read(frame.data[i])
      BY <1>1, <2>1, <2>2, <3>1, <3>2, <3>3 DEF receive_advertise_data, Read
    <3> QED BY <3>2, <3>3, <3>4
  <2> QED BY <2>3, <2>4
<1>5. TableOK'
  <2> SUFFICES ASSUME NEW k \in DOMAIN table'
               PROVE  \E u \in Quads : /\ table'[k].ip = u
                                       /\ table'[k].str = ipUint_into_str(u)
    BY DEF TableOK
  <2>1. PICK e : e = IF k \in DOMAIN frame.data THEN frame.data[k] ELSE Garbage
    OBVIOUS
  <2>2. e.ip \in Quads
    <3>1. CASE k \in DOMAIN frame.data
      <4>1. e \in EntrySet BY <1>0, <2>1, <3>1 DEF DataOK
      <4> QED BY <4>1 DEF EntrySet
    <3>2. CASE k \notin DOMAIN frame.data
      <4>1. e.ip = <<0, 0, 0, 0>> BY <2>1, <3>2 DEF Garbage
      <4> QED BY <4>1 DEF Quads, Octets
    <3> QED BY <3>1, <3>2
  <2>3. k \in Turns(frame.length - UDP_SIZE)
    BY <1>1 DEF receive_advertise_data
  <2>4. table'[k].ip = e.ip /\ table'[k].str = ipUint_into_str(e.ip)
    BY <1>1, <2>1, <2>3 DEF receive_advertise_data
  <2> QED BY <2>2, <2>4
<1>8. TypeInv' BY <1>0, <1>1, <1>5, SameConfig DEF TypeInv
<1>9. ShapeInv' /\ TripInv' /\ PingChecksumRight'
  BY <1>0, <1>1 DEF ShapeInv, TripInv, PingChecksumRight, UdpAt
<1>10. CheckInv' BY <1>1, <1>2 DEF CheckInv, Flight, UdpAt
<1>11. AdvertInv' BY <1>1, <1>3, <1>4, SameConfig DEF AdvertInv
<1> QED BY <1>8, <1>9, <1>10, <1>11 DEF PInv

(* An unchanged frame that is accepted finds the branch it is meant for,      *)
(* unless it is a reply to a port below 8000.                                 *)
LEMMA BranchFound ==
  ASSUME PInv, hurt = "no", at \in Flight, is_valid_packet(frame),
         ~Awaited(at, frame), at \notin {"direct", "relayed", "ping"}
  PROVE DstPort(frame) < 8000 /\ DstPort(frame) \in {left[2], nat.port}
<1>1. /\ ShapeInv /\ TripInv /\ TypeInv BY DEF PInv
<1>2. at # "advert"
  BY <1>1 DEF ShapeInv, UdpShape, TripInv, Awaited, IsAdvert, UdpAt
<1>3. at # "probe"
  BY <1>1 DEF ShapeInv, UdpShape, TripInv, Awaited, IsProbe, UdpAt
<1>4. at # "echo"
  BY <1>1 DEF ShapeInv, IcmpShape, Awaited, IsEcho
<1>5. PICK x \in Int, p \in Int, q \in Int :
        /\ x = DstPort(frame) /\ p = src_port["self"] /\ q = src_port["peer"]
  <2>1. frame.udp.dst \in Pairs
    BY <1>1, FrameParts DEF TypeInv, Flight, UdpAt, UdpHeaders
  <2>2. DstPort(frame) \in 0 .. W - 1 BY <2>1, PairWord DEF DstPort
  <2>3. src_port["self"] \in Int /\ src_port["peer"] \in Int
    BY <1>1 DEF TypeInv
  <2> QED BY <2>2, <2>3, WordSize
<1>6. CASE at = "reply"
  <2>1. x = nat.port /\ x < q BY <1>1, <1>5, <1>6 DEF TripInv
  <2>2. frame.ip.p = UDP BY <1>1, <1>6 DEF ShapeInv, UdpShape, UdpAt
  <2>3. ~ (x >= 8000) BY <1>5, <1>6, <2>1, <2>2 DEF Awaited, ForPort
  <2> QED BY <1>5, <2>1, <2>3
<1>7. CASE at = "back"
  <2>1. x = left[2] /\ x < p BY <1>1, <1>5, <1>7 DEF TripInv, From, DstPort
  <2>2. frame.ip.p = UDP BY <1>1, <1>7 DEF ShapeInv, UdpShape, UdpAt
  <2>3. ~ (x >= 8000) BY <1>5, <1>7, <2>1, <2>2 DEF Awaited, ForPort
  <2> QED BY <1>5, <2>1, <2>3
<1> QED BY <1>2, <1>3, <1>4, <1>6, <1>7 DEF Flight, UdpAt

(* A frame is dropped, taken by another branch, or reaches its end.           *)
LEMMA EndStep ==
  ASSUME PInv, Drop \/ Stray \/ ShowReply \/ ReceivePing
  PROVE PInv'
<1>0. TypeInv /\ ShapeInv /\ CheckInv /\ AdvertInv /\ TripInv BY DEF PInv
<1>1. /\ config' = config
      /\ UNCHANGED <<frame, table, src_port, target, left, nat, carried, hurt>>
      /\ at \in Flight \ {"direct", "relayed", "ping"}
      /\ \/ ~is_valid_packet(frame) /\ at' = "dropped"
         \/ /\ is_valid_packet(frame) /\ ~Awaited(at, frame)
            /\ at' = "strayed"
         \/ is_valid_packet(frame) /\ at = "back" /\ at' = "shown"
         \/ is_valid_packet(frame) /\ at = "echo" /\ at' = "measured"
  BY DEF Drop, Stray, ShowReply, ReceivePing, Arrives, Flight, UdpAt
<1>2. /\ is_valid_packet(frame) => Right(Sum(frame.ip))
      /\ hurt = "no" /\ Right(Sum(frame.ip)) => is_valid_packet(frame)
  BY <1>0, <1>1, ValidIsRight
<1>3. TypeInv' BY <1>0, <1>1, SameConfig DEF TypeInv, Flight, UdpAt
<1>4. ShapeInv' /\ AdvertInv' /\ PingChecksumRight'
  BY <1>1 DEF ShapeInv, AdvertInv, PingChecksumRight, UdpAt
<1>5. CheckInv' BY <1>0, <1>1, <1>2 DEF CheckInv, Flight, UdpAt
<1>6. TripInv'
  <2>1. at' = "strayed" /\ hurt = "no" =>
          DstPort(frame) < 8000 /\ DstPort(frame) \in {left[2], nat.port}
    BY <1>1, BranchFound
  <2>2. DstPort(frame)' = DstPort(frame) BY <1>1 DEF DstPort
  <2> QED BY <1>0, <1>1, <2>1, <2>2 DEF TripInv
<1> QED BY <1>3, <1>4, <1>5, <1>6 DEF PInv

(* A probe as send_udp_packet builds it.                                      *)
LEMMA ProbeBuilt ==
  ASSUME NEW a \in Quads, NEW u \in Quads, NEW s \in Nat,
         NEW d \in 0 .. W - 1,
         NEW f, f = UdpFrame(set_ip_header(a, u, UDP, UdpHeader + 4),
                             s, d, 4, <<>>)
  PROVE /\ FrameOK(f) /\ UdpShape(f) /\ f.ip.src = a /\ f.ip.dst = u
        /\ f.udp.src = htons(s) /\ DstPort(f) = d
        /\ ~CarriesTwice(f.ip) => Right(Sum(f.ip))
<1>1. PICK size \in Nat : size = 4 OBVIOUS
<1>2. DataOK(<<>>) BY DEF DataOK
<1>3. f = UdpFrame(set_ip_header(a, u, UDP, UdpHeader + size),
                   s, d, size, <<>>)
  BY <1>1
<1>4. size <= 60100 BY <1>1
<1> QED BY <1>2, <1>3, <1>4, UdpBuilt

(* The port of a probe and what the node notes of it.                         *)
LEMMA PortType ==
  ASSUME NEW port \in Ports
  PROVE /\ port \in Nat /\ htons(port) \in Pairs
        /\ ntohs(htons(port)) = port % W
        /\ port % W \in Int /\ port % W < port + 1
<1>1. port \in Nat BY PacketAssumption
<1>2. port % W \in Nat /\ port % W <= port BY <1>1, PortOnWire
<1>3. PICK m \in Nat : m = port % W BY <1>2
<1>4. m < port + 1 BY <1>1, <1>2, <1>3
<1> QED BY <1>1, <1>3, <1>4, PortOnWire

(* A probe leaves for the address that was advertised.                        *)
LEMMA TypeProbeStep ==
  ASSUME PInv, NEW k, NEW i \in 0 .. 1, NEW port \in Ports,
         NEW dport \in {1000, 2000}, TypeProbe(k, i, port, dport)
  PROVE PInv'
<1>0. /\ TypeInv /\ CheckInv /\ TripInv /\ at = "learned"
      /\ k \in DOMAIN table
  BY DEF PInv, TypeProbe
<1>4. PICK u \in Quads : table[k].ip = u /\ table[k].str = ipUint_into_str(u)
  BY <1>0 DEF TypeInv, TableOK
<1>5. ip_into_uint(table[k].str) = u BY <1>4, StringRoundTrip
<1>6. PICK a \in Quads : a = iface["self"][i] BY <1>0 DEF TypeInv
<1>7. PICK to \in {"probe", "direct"} :
        to = IF i = 0 THEN "probe" ELSE "direct"
  OBVIOUS
<1>8. PICK f : f = ProbeFrame(i, u, port, dport) OBVIOUS
<1>a. PICK m \in Int : m = port % W BY PortType
<1>b. PICK p \in Nat : p = port BY PortType
<1>9. /\ Sent(f, to) /\ target' = u /\ left' = <<a, m>>
      /\ src_port' = [src_port EXCEPT !["self"] = p + 1]
      /\ UNCHANGED <<table, nat>>
  BY <1>4, <1>5, <1>6, <1>7, <1>8, <1>a, <1>b DEF TypeProbe
<1>10. /\ frame' = f /\ at' = to /\ config' = config /\ hurt' = hurt
       /\ carried' \in BOOLEAN
  BY <1>0, <1>9 DEF Sent, TypeInv, config, CarriesTwice
<1>11. PICK d \in 0 .. W - 1 : d = dport BY WordSize
<1>13. /\ FrameOK(f) /\ UdpShape(f) /\ f.ip.src = a /\ f.ip.dst = u
       /\ f.udp.src = htons(port) /\ DstPort(f) = dport
       /\ ~CarriesTwice(f.ip) => Right(Sum(f.ip))
  BY <1>6, <1>8, <1>11, PortType, ProbeBuilt DEF ProbeFrame
<1>14. TypeInv'
  <2>1. src_port' \in [{"self", "peer"} -> Int] BY <1>0, <1>9 DEF TypeInv
  <2>2. left' \in Quads \X Int /\ target' \in Quads BY <1>9
  <2> QED
    BY <1>0, <1>9, <1>10, <1>13, <2>1, <2>2, SameConfig
    DEF TypeInv, Flight, UdpAt
<1>15. ShapeInv' BY <1>10, <1>13 DEF ShapeInv
<1>16. CheckInv'
  BY <1>0, <1>9, <1>13, SentChecked DEF CheckInv, TypeInv, Flight, UdpAt
<1>17. AdvertInv' /\ PingChecksumRight'
  BY <1>10 DEF AdvertInv, PingChecksumRight
<1>18. m < p + 1 /\ ntohs(f.udp.src) = m BY <1>13, <1>a, <1>b, PortType
<1>19. TripInv'
  <2>1. src_port'["self"] = p + 1 /\ src_port'["peer"] = src_port["peer"]
    BY <1>0, <1>9 DEF TypeInv
  <2>2. left'[1] = a /\ left'[2] = m BY <1>9
  <2>3. DstPort(frame)' = dport BY <1>10, <1>13 DEF DstPort
  <2> QED
    BY <1>0, <1>9, <1>10, <1>13, <1>18, <2>1, <2>2, <2>3 DEF TripInv, From
<1> QED BY <1>14, <1>15, <1>16, <1>17, <1>19 DEF PInv

(* A frame that a relay sends on.                                             *)
Rewritten(h, u) == [frame EXCEPT !.udp = u, !.ip = Signed(h)]

(* It has the lengths of the frame that came and a checksum of its own.       *)
LEMMA RewrittenStep ==
  ASSUME TypeInv, ShapeInv, at \in UdpAt, NEW h \in Headers,
         h.len = frame.ip.len, h.p = frame.ip.p,
         NEW u \in UdpHeaders,
         u.len = frame.udp.len,
         NEW f, f = Rewritten(h, u)
  PROVE /\ FrameOK(f) /\ f.udp = u /\ (hurt = "no" => UdpShape(f))
        /\ f.ip.src = h.src /\ f.ip.dst = h.dst
        /\ ~CarriesTwice(f.ip) => Right(Sum(f.ip))
<1>1. FrameOK(frame) /\ (hurt = "no" => UdpShape(frame))
  BY DEF TypeInv, ShapeInv, UdpAt
<1>2. Signed(h) \in Headers /\ (~CarriesTwice(h) => Right(Sum(Signed(h))))
      /\ CarriesTwice(Signed(h)) = CarriesTwice(h)
  BY SignedRight
<1>3. /\ Signed(h).len = h.len /\ Signed(h).p = h.p
      /\ Signed(h).src = h.src /\ Signed(h).dst = h.dst
  BY SignedFields
<1>4. /\ f.ip = Signed(h) /\ f.udp = u /\ f.length = frame.length
      /\ f.data = frame.data /\ f \in Frames(frame.data)
  BY <1>1, <1>2 DEF Rewritten, FrameOK, Frames
<1>5. FrameOK(f) BY <1>1, <1>4 DEF FrameOK
<1>6. hurt = "no" => UdpShape(f) BY <1>1, <1>3, <1>4 DEF UdpShape
<1> QED BY <1>2, <1>3, <1>4, <1>5, <1>6

(* A probe is relayed, and where it came from is noted.                       *)
LEMMA RelayProbeStep ==
  ASSUME PInv, NEW port \in Ports, RelayProbe(port)
  PROVE PInv'
<1>0. /\ TypeInv /\ ShapeInv /\ CheckInv /\ TripInv /\ at = "probe"
      /\ is_valid_packet(frame)
  BY DEF PInv, RelayProbe, Arrives, TypeInv
<1>a. frame.ip \in Headers /\ frame.udp \in UdpHeaders
  BY <1>0, FrameParts DEF TypeInv
<1>1. PICK h \in Headers : h = [frame.ip EXCEPT !.src = iface["peer"][1]]
  <2>1. iface["peer"][1] \in Quads BY <1>0 DEF TypeInv
  <2> QED BY <1>a, <2>1 DEF Headers
<1>2. /\ h.len = frame.ip.len /\ h.p = frame.ip.p /\ h.dst = frame.ip.dst
  BY <1>a, <1>1 DEF Headers
<1>3. PICK b \in Pairs : b = htons(port) BY PortType
<1>4. PICK u \in UdpHeaders : u = [frame.udp EXCEPT !.src = b]
  BY <1>a DEF UdpHeaders
<1>5. u.len = frame.udp.len /\ u.src = b /\ u.dst = frame.udp.dst
  BY <1>a, <1>4 DEF UdpHeaders
<1>6. PICK f : f = Rewritten(h, u) OBVIOUS
<1>b. PICK m \in Int : m = port % W BY PortType
<1>c. PICK p \in Nat : p = port BY PortType
<1>7. /\ Sent(f, "relayed")
      /\ nat' = [port |-> m, ip |-> frame.ip.src, src |-> frame.udp.src]
      /\ src_port' = [src_port EXCEPT !["peer"] = p + 1]
      /\ UNCHANGED <<table, target, left>>
  <2>1. FrameOK(frame) BY <1>0 DEF TypeInv
  <2>2. Sent(f, "relayed")
    BY <1>1, <1>3, <1>4, <1>6, <2>1
    DEF RelayProbe, Rewritten, FrameOK, Frames, UdpHeaders
  <2> QED BY <1>b, <1>c, <2>2 DEF RelayProbe
<1>8. /\ frame' = f /\ at' = "relayed" /\ config' = config /\ hurt' = hurt
      /\ carried' \in BOOLEAN
  BY <1>0, <1>7 DEF Sent, TypeInv, config, CarriesTwice
<1>9. /\ FrameOK(f) /\ (hurt = "no" => UdpShape(f)) /\ f.ip.dst = h.dst
      /\ f.udp = u
      /\ ~CarriesTwice(f.ip) => Right(Sum(f.ip))
  BY <1>0, <1>2, <1>5, <1>6, RewrittenStep DEF UdpAt
<1>10. ~carried => hurt # "header"
  BY <1>0, ValidIsRight DEF CheckInv, Flight, UdpAt
<1>11. nat' \in [port : Int, ip : Quads, src : Pairs]
  BY <1>a, <1>7 DEF UdpHeaders, Headers
<1>12. TypeInv'
  <2>1. src_port' \in [{"self", "peer"} -> Int] BY <1>0, <1>7 DEF TypeInv
  <2> QED
    BY <1>0, <1>7, <1>8, <1>9, <1>11, <2>1, SameConfig
    DEF TypeInv, Flight, UdpAt
<1>13. ShapeInv' BY <1>8, <1>9 DEF ShapeInv
<1>14. CheckInv'
  BY <1>0, <1>7, <1>9, <1>10, SentChecked DEF TypeInv, Flight, UdpAt
<1>15. AdvertInv' /\ PingChecksumRight'
  BY <1>8 DEF AdvertInv, PingChecksumRight
<1>16. TripInv'
  <2>1. src_port'["peer"] = p + 1 /\ src_port'["self"] = src_port["self"]
    BY <1>0, <1>7 DEF TypeInv
  <2>2. /\ nat'.port = m /\ nat'.ip = frame.ip.src /\ nat'.src = frame.udp.src
    BY <1>7
  <2>3. m < p + 1 /\ ntohs(f.udp.src) = m
    BY <1>3, <1>5, <1>9, <1>b, <1>c, PortType
  <2> QED
    BY <1>0, <1>2, <1>7, <1>8, <1>9, <2>1, <2>2, <2>3 DEF TripInv, From
<1> QED BY <1>12, <1>13, <1>14, <1>15, <1>16 DEF PInv

(* A reply is relayed to the address and port that were noted.                *)
LEMMA RelayReplyStep ==
  ASSUME PInv, RelayReply
  PROVE PInv'
<1>0. /\ TypeInv /\ ShapeInv /\ CheckInv /\ TripInv /\ at = "reply"
      /\ is_valid_packet(frame)
  BY DEF PInv, RelayReply, Arrives, TypeInv
<1>a. frame.ip \in Headers /\ frame.udp \in UdpHeaders
  BY <1>0, FrameParts DEF TypeInv
<1>b. nat.ip \in Quads /\ nat.src \in Pairs BY <1>0 DEF TypeInv
<1>1. PICK h \in Headers : h = [frame.ip EXCEPT !.dst = nat.ip]
  BY <1>a, <1>b DEF Headers
<1>2. /\ h.len = frame.ip.len /\ h.p = frame.ip.p
      /\ h.src = frame.ip.src /\ h.dst = nat.ip
  BY <1>a, <1>1 DEF Headers
<1>3. htons(ntohs(nat.src)) = nat.src BY <1>b, PairWord
<1>4. PICK u \in UdpHeaders : u = [frame.udp EXCEPT !.dst = nat.src]
  BY <1>a, <1>b DEF UdpHeaders
<1>5. u.len = frame.udp.len /\ u.dst = nat.src
  BY <1>a, <1>4 DEF UdpHeaders
<1>6. PICK f : f = Rewritten(h, u) OBVIOUS
<1>7. Sent(f, "back") /\ UNCHANGED <<table, src_port, target, left, nat>>
  <2>1. FrameOK(frame) BY <1>0 DEF TypeInv
  <2> QED
    BY <1>1, <1>3, <1>4, <1>6, <2>1
    DEF RelayReply, Rewritten, FrameOK, Frames, UdpHeaders
<1>8. /\ frame' = f /\ at' = "back" /\ config' = config /\ hurt' = hurt
      /\ carried' \in BOOLEAN
  BY <1>0, <1>7 DEF Sent, TypeInv, config, CarriesTwice
<1>9. /\ FrameOK(f) /\ (hurt = "no" => UdpShape(f)) /\ f.udp = u
      /\ f.ip.src = h.src /\ f.ip.dst = h.dst
      /\ ~CarriesTwice(f.ip) => Right(Sum(f.ip))
  BY <1>0, <1>2, <1>5, <1>6, RewrittenStep DEF UdpAt
<1>10. ~carried => hurt # "header"
  BY <1>0, ValidIsRight DEF CheckInv, Flight, UdpAt
<1>11. TypeInv'
  BY <1>0, <1>7, <1>8, <1>9, SameConfig DEF TypeInv, Flight, UdpAt
<1>12. ShapeInv' BY <1>8, <1>9 DEF ShapeInv
<1>13. CheckInv'
  BY <1>0, <1>7, <1>9, <1>10, SentChecked DEF TypeInv, Flight, UdpAt
<1>14. AdvertInv' /\ PingChecksumRight'
  BY <1>8 DEF AdvertInv, PingChecksumRight
<1>15. TripInv' BY <1>0, <1>2, <1>5, <1>7, <1>8, <1>9 DEF TripInv, From
<1> QED BY <1>11, <1>12, <1>13, <1>14, <1>15 DEF PInv

(* A ping leaves.                                                             *)
LEMMA SendPingStep ==
  ASSUME PInv, NEW k, NEW seq \in SeqIds, SendPing(k, seq)
  PROVE PInv'
<1>0. TypeInv /\ CheckInv /\ TripInv /\ at = "start" /\ k \in DOMAIN rows
  BY DEF PInv, SendPing
<1>1. PICK u \in Quads : u = rows[k].ip
  <2>1. rows[k] \in Row BY <1>0 DEF TypeInv, RowsOK
  <2> QED BY <2>1, RowType
<1>2. PICK f : f = PingFrame(u, seq) OBVIOUS
<1>3. Sent(f, "ping") /\ target' = u /\ UNCHANGED <<table, src_port, left, nat>>
  BY <1>1, <1>2 DEF SendPing
<1>4. /\ frame' = f /\ at' = "ping" /\ config' = config /\ hurt' = hurt
      /\ carried' \in BOOLEAN
  BY <1>0, <1>3 DEF Sent, TypeInv, config, CarriesTwice
<1>5. PICK h : h = set_ip_header(iface["peer"][1], u, ICMP, 12) OBVIOUS
<1>6. /\ h \in Headers /\ h.p = ICMP /\ ntohs(h.len) = IpSize + 12
      /\ ~CarriesTwice(h) => Right(Sum(h))
  <2>1. PICK size \in Nat : size = 12 OBVIOUS
  <2>2. IpSize + size <= W - 1 BY <2>1, WordSize DEF IpSize
  <2>3. iface["peer"][1] \in Quads BY <1>0 DEF TypeInv
  <2> QED BY <1>5, <2>1, <2>2, <2>3, HeaderBuilt
<1>7. PICK b \in Pairs : b = htons(seq)
  BY PacketAssumption, WordSize, WordPair
<1>8. PICK c : c = IcmpFold(IcmpSum(8, b, 0)) OBVIOUS
<1>9. c \in 0 .. W - 1 /\ Right(IcmpSum(8, b, c)) BY <1>8, IcmpRight
<1>10. f = [ip |-> h, length |-> ICMP_SIZE, data |-> <<>>, udp |-> NoUdp,
            icmp |-> [type |-> 8, seq |-> b, sum |-> c]]
  BY <1>2, <1>5, <1>7, <1>8 DEF PingFrame
<1>11. NoUdp \in UdpHeaders /\ ICMP_SIZE \in Nat
  BY DEF NoUdp, UdpHeaders, Pairs, Octets, ICMP_SIZE, EtherSize, IpSize
<1>12. FrameOK(f)
  <2>1. 8 \in Octets BY DEF Octets
  <2>2. f \in Frames(<<>>) /\ f.data = <<>>
    BY <1>6, <1>9, <1>10, <1>11, <2>1 DEF Frames, IcmpHeaders
  <2> QED BY <2>2 DEF FrameOK, DataOK
<1>13. IcmpShape(f)
  BY <1>6, <1>10 DEF IcmpShape, ICMP_SIZE, EtherSize, IpSize
<1>14. TypeInv'
  BY <1>0, <1>3, <1>4, <1>12, SameConfig DEF TypeInv, Flight, UdpAt
<1>15. ShapeInv' BY <1>4, <1>13 DEF ShapeInv, UdpAt
<1>16. CheckInv'
  <2>1. ~CarriesTwice(f.ip) => Right(Sum(f.ip)) BY <1>6, <1>10
  <2> QED BY <1>0, <1>3, <2>1, SentChecked DEF CheckInv, TypeInv, Flight
<1>17. AdvertInv' /\ TripInv' BY <1>0, <1>3, <1>4 DEF AdvertInv, TripInv
<1>18. PingChecksumRight'
  <2>1. f.icmp.type = 8 /\ f.icmp.seq = b /\ f.icmp.sum = c BY <1>10
  <2> QED BY <1>4, <1>9, <2>1 DEF PingChecksumRight, IcmpRightIn
<1> QED BY <1>14, <1>15, <1>16, <1>17, <1>18 DEF PInv

(* A server answers, or drops a frame.                                        *)
LEMMA AnswerStep ==
  ASSUME PInv,
         \/ ServerReplies("direct", "back")
         \/ ServerReplies("relayed", "reply")
         \/ ServerEchoes
  PROVE PInv'
<1>0. /\ TypeInv /\ ShapeInv /\ CheckInv /\ TripInv /\ PingChecksumRight
      /\ at \in {"direct", "relayed", "ping"} /\ FrameOK(frame)
  BY DEF PInv, ServerReplies, ServerEchoes, Answer, TypeInv
<1>a. frame.ip \in Headers /\ frame.udp \in UdpHeaders BY <1>0, FrameParts
<1>1. PICK g : g = Back(frame.ip) OBVIOUS
<1>2. /\ g \in Headers /\ Sum(g) = Sum(frame.ip) /\ g.len = frame.ip.len
      /\ g.p = frame.ip.p /\ g.src = frame.ip.dst /\ g.dst = frame.ip.src
  <2>2. g \in Headers /\ Sum(g) = Sum(frame.ip) BY <1>1, <1>a, BackSum
  <2> QED BY <1>1, <1>a, <2>2 DEF Back, Headers
<1>3. /\ config' = config
      /\ UNCHANGED <<table, src_port, target, left, nat, carried, hurt>>
  BY DEF ServerReplies, ServerEchoes, Answer
<1>4. CASE at' = "dropped"
  <2>1. /\ frame' = frame
        /\ \/ ~Right(Sum(frame.ip))
           \/ at = "ping" /\ ~IcmpRightIn(frame.icmp)
    BY <1>4 DEF ServerReplies, ServerEchoes, Answer
  <2>2. TypeInv' BY <1>0, <1>3, <1>4, <2>1, SameConfig DEF TypeInv
  <2>3. ShapeInv' /\ AdvertInv' /\ TripInv' /\ PingChecksumRight'
    BY <1>0, <1>3, <1>4, <2>1
    DEF ShapeInv, AdvertInv, TripInv, PingChecksumRight, UdpAt
  <2>4. ~carried => hurt # "no"
    BY <1>0, <2>1 DEF CheckInv, PingChecksumRight, Flight, UdpAt
  <2>5. CheckInv' BY <1>3, <1>4, <2>4 DEF CheckInv, Flight, UdpAt
  <2> QED BY <2>2, <2>3, <2>5 DEF PInv
<1>5. CASE at' # "dropped" /\ at \in {"direct", "relayed"}
  <2>1. at' = (IF at = "direct" THEN "back" ELSE "reply")
    BY <1>5 DEF ServerReplies, ServerEchoes, Answer
  <2>2. /\ frame' = [frame EXCEPT !.ip = Back(@), !.udp.src = frame.udp.dst,
                                  !.udp.dst = frame.udp.src]
        /\ Right(Sum(frame.ip))
    BY <1>5 DEF ServerReplies, ServerEchoes, Answer
  <2>3. /\ frame'.ip = g /\ frame'.udp.dst = frame.udp.src
        /\ frame'.udp.len = frame.udp.len /\ frame'.length = frame.length
        /\ frame'.data = frame.data /\ frame' \in Frames(frame.data)
    BY <1>0, <1>1, <1>2, <2>2 DEF FrameOK, Frames, UdpHeaders
  <2>a. FrameOK(frame') BY <1>0, <2>3 DEF FrameOK
  <2>4. TypeInv'
    BY <1>0, <1>3, <2>1, <2>a, SameConfig DEF TypeInv, Flight, UdpAt
  <2>5. ShapeInv'
    BY <1>0, <1>2, <1>3, <1>5, <2>1, <2>3 DEF ShapeInv, UdpShape, UdpAt
  <2>6. CheckInv'
    BY <1>0, <1>2, <1>3, <1>5, <2>1, <2>2, <2>3 DEF CheckInv, Flight, UdpAt
  <2>7. AdvertInv' /\ PingChecksumRight'
    BY <2>1 DEF AdvertInv, PingChecksumRight
  <2>8. TripInv'
    BY <1>0, <1>2, <1>3, <1>5, <2>1, <2>3 DEF TripInv, From, DstPort
  <2> QED BY <2>4, <2>5, <2>6, <2>7, <2>8 DEF PInv
<1>6. CASE at' # "dropped" /\ at = "ping"
  <2>1. /\ at' = "echo" /\ Right(Sum(frame.ip))
        /\ frame' = [frame EXCEPT !.ip = Back(@), !.icmp.type = 0]
    BY <1>6 DEF ServerReplies, ServerEchoes, Answer
  <2>2. /\ frame'.ip = g /\ frame'.length = frame.length
        /\ frame'.icmp.type = 0 /\ frame'.data = frame.data
        /\ frame' \in Frames(frame.data)
    <3>1. 0 \in Octets BY DEF Octets
    <3> QED BY <1>0, <1>1, <1>2, <2>1, <3>1 DEF FrameOK, Frames, IcmpHeaders
  <2>a. FrameOK(frame') BY <1>0, <2>2 DEF FrameOK
  <2>3. TypeInv'
    BY <1>0, <1>3, <2>1, <2>a, SameConfig DEF TypeInv, Flight
  <2>4. ShapeInv'
    BY <1>0, <1>2, <1>3, <1>6, <2>1, <2>2 DEF ShapeInv, IcmpShape, UdpAt
  <2>5. CheckInv'
    BY <1>0, <1>2, <1>3, <1>6, <2>1, <2>2 DEF CheckInv, Flight, UdpAt
  <2>6. AdvertInv' /\ TripInv' /\ PingChecksumRight'
    BY <1>0, <1>3, <2>1 DEF AdvertInv, TripInv, PingChecksumRight
  <2> QED BY <2>3, <2>4, <2>5, <2>6 DEF PInv
<1> QED BY <1>0, <1>4, <1>5, <1>6

(* Another octet behind the IP header makes a frame of the same kind.         *)
LEMMA BodyChanged ==
  ASSUME FrameOK(frame), NEW o \in Octets,
         \/ \E u \in UdpChanges(frame.udp, o) \ {frame.udp} :
              frame' = [frame EXCEPT !.udp = u]
         \/ \E c \in IcmpChanges(frame.icmp, o) \ {frame.icmp} :
              frame' = [frame EXCEPT !.icmp = c]
         \/ \E k \in DOMAIN frame.data :
              \E e \in EntryChanges(frame.data[k], o) \ {frame.data[k]} :
                frame' = [frame EXCEPT !.data[k] = e]
  PROVE FrameOK(frame') /\ frame'.ip = frame.ip
<1>0. /\ frame.udp \in UdpHeaders /\ frame.icmp \in IcmpHeaders
      /\ DataOK(frame.data) /\ frame \in Frames(frame.data)
  BY FrameParts DEF FrameOK
<1>1. ASSUME NEW b \in Pairs, NEW i \in 1 .. 2 PROVE [b EXCEPT ![i] = o] \in Pairs
  BY DEF Pairs
<1>2. ASSUME NEW u \in UdpChanges(frame.udp, o),
             frame' = [frame EXCEPT !.udp = u]
      PROVE  FrameOK(frame') /\ frame'.ip = frame.ip
  <2>1. /\ frame.udp.src \in Pairs /\ frame.udp.dst \in Pairs
        /\ frame.udp.len \in Pairs
    BY <1>0 DEF UdpHeaders
  <2>2. u \in UdpHeaders
    <3>1. ASSUME NEW i \in 1 .. 2, u = [frame.udp EXCEPT !.src[i] = o]
          PROVE  u \in UdpHeaders
      <4>1. PICK b \in Pairs : b = [frame.udp.src EXCEPT ![i] = o]
        BY <1>1, <2>1
      <4> QED BY <1>0, <3>1, <4>1 DEF UdpHeaders
    <3>2. ASSUME NEW i \in 1 .. 2, u = [frame.udp EXCEPT !.dst[i] = o]
          PROVE  u \in UdpHeaders
      <4>1. PICK b \in Pairs : b = [frame.udp.dst EXCEPT ![i] = o]
        BY <1>1, <2>1
      <4> QED BY <1>0, <3>2, <4>1 DEF UdpHeaders
    <3>3. ASSUME NEW i \in 1 .. 2, u = [frame.udp EXCEPT !.len[i] = o]
          PROVE  u \in UdpHeaders
      <4>1. PICK b \in Pairs : b = [frame.udp.len EXCEPT ![i] = o]
        BY <1>1, <2>1
      <4> QED BY <1>0, <3>3, <4>1 DEF UdpHeaders
    <3> QED BY <3>1, <3>2, <3>3 DEF UdpChanges
  <2>3. /\ frame' \in Frames(frame.data) /\ frame'.data = frame.data
        /\ frame'.ip = frame.ip
    BY <1>0, <1>2, <2>2 DEF Frames
  <2> QED BY <1>0, <2>3 DEF FrameOK
<1>3. ASSUME NEW c \in IcmpChanges(frame.icmp, o),
             frame' = [frame EXCEPT !.icmp = c]
      PROVE  FrameOK(frame') /\ frame'.ip = frame.ip
  <2>1. frame.icmp.seq \in Pairs BY <1>0 DEF IcmpHeaders
  <2>2. c \in IcmpHeaders
    <3>1. CASE c = [frame.icmp EXCEPT !.type = o]
      BY <1>0, <3>1 DEF IcmpHeaders
    <3>2. ASSUME NEW i \in 1 .. 2, c = [frame.icmp EXCEPT !.seq[i] = o]
          PROVE  c \in IcmpHeaders
      <4>1. PICK b \in Pairs : b = [frame.icmp.seq EXCEPT ![i] = o]
        BY <1>1, <2>1
      <4> QED BY <1>0, <3>2, <4>1 DEF IcmpHeaders
    <3> QED BY <3>1, <3>2 DEF IcmpChanges
  <2>3. /\ frame' \in Frames(frame.data) /\ frame'.data = frame.data
        /\ frame'.ip = frame.ip
    BY <1>0, <1>3, <2>2 DEF Frames
  <2> QED BY <1>0, <2>3 DEF FrameOK
<1>4. ASSUME NEW k \in DOMAIN frame.data,
             NEW e \in EntryChanges(frame.data[k], o),
             frame' = [frame EXCEPT !.data[k] = e]
      PROVE  FrameOK(frame') /\ frame'.ip = frame.ip
  <2>1. e \in EntrySet BY <1>0, EntryChanged DEF DataOK
  <2>2. PICK d : d = [frame.data EXCEPT ![k] = e] OBVIOUS
  <2>3. DataOK(d) BY <1>0, <2>1, <2>2 DEF DataOK
  <2>4. frame' = [frame EXCEPT !.data = d] BY <1>4, <2>2
  <2>5. /\ frame' \in Frames(d) /\ frame'.data = d /\ frame'.ip = frame.ip
    BY <1>0, <2>4 DEF Frames
  <2> QED BY <2>3, <2>5 DEF FrameOK
<1> QED BY <1>2, <1>3, <1>4

(* The network changes an octet.                                              *)
LEMMA CorruptStep ==
  ASSUME PInv, NEW o \in Noise, Corrupt(o)
  PROVE PInv'
<1>0. /\ TypeInv /\ CheckInv /\ TripInv /\ PingChecksumRight
      /\ at \in Flight /\ FrameOK(frame) /\ hurt = "no"
  BY DEF PInv, Corrupt, TypeInv, Flight, UdpAt
<1>1. o \in Octets /\ frame.ip \in Headers
  BY <1>0, PacketAssumption, FrameParts
<1>2. /\ config' = config /\ hurt' \in {"header", "body"}
      /\ UNCHANGED <<at, table, src_port, target, left, nat, carried>>
  BY DEF Corrupt
<1>3. /\ FrameOK(frame')
      /\ ~carried => (Right(Sum(frame'.ip)) <=> hurt' # "header")
      /\ hurt' = "header" => frame'.icmp = frame.icmp
  <2>a. ~carried => Right(Sum(frame.ip)) BY <1>0 DEF CheckInv
  <2>1. CASE hurt' = "header"
    <3>1. PICK h \in HeaderChanges(frame.ip, o) \ {frame.ip} :
            frame' = [frame EXCEPT !.ip = h]
      BY <2>1 DEF Corrupt
    <3>2. h \in Headers /\ (Right(Sum(frame.ip)) => ~Right(Sum(h)))
      BY <1>1, <3>1, HeaderChanged
    <3>3. /\ frame' \in Frames(frame.data) /\ frame'.data = frame.data
          /\ frame'.ip = h /\ frame'.icmp = frame.icmp
      BY <1>0, <3>1, <3>2 DEF FrameOK, Frames
    <3>4. FrameOK(frame') BY <1>0, <3>3 DEF FrameOK
    <3> QED BY <2>1, <2>a, <3>2, <3>3, <3>4
  <2>2. CASE hurt' = "body"
    <3>1. FrameOK(frame') /\ frame'.ip = frame.ip
      BY <1>0, <1>1, <2>2, BodyChanged DEF Corrupt
    <3> QED BY <2>2, <2>a, <3>1
  <2> QED BY <1>2, <2>1, <2>2
<1>7. TypeInv' BY <1>0, <1>2, <1>3, SameConfig DEF TypeInv, Flight, UdpAt
<1>8. ShapeInv' /\ AdvertInv' BY <1>2 DEF ShapeInv, AdvertInv
<1>9. CheckInv' BY <1>0, <1>2, <1>3 DEF CheckInv, Flight, UdpAt
<1>11. TripInv' BY <1>0, <1>2 DEF TripInv
<1>12. PingChecksumRight' BY <1>0, <1>2, <1>3 DEF PingChecksumRight
<1> QED BY <1>7, <1>8, <1>9, <1>11, <1>12 DEF PInv

(* Nothing happens.                                                           *)
LEMMA StutterStep ==
  ASSUME PInv, UNCHANGED vars
  PROVE PInv'
<1>1. config' = config /\ UNCHANGED <<at, frame, table, src_port, target,
                                      left, nat, carried, hurt>>
  BY DEF vars, config
<1>2. TypeInv' BY <1>1, SameConfig DEF PInv, TypeInv, TableOK
<1>3. AdvertInv' BY <1>1, SameConfig DEF PInv, AdvertInv
<1>4. ShapeInv' /\ CheckInv' /\ TripInv' /\ PingChecksumRight'
  BY <1>1 DEF PInv, ShapeInv, CheckInv, TripInv, PingChecksumRight, DstPort
<1> QED BY <1>2, <1>3, <1>4 DEF PInv

(* The invariant holds before anything is sent.                               *)
LEMMA InitPInv == Init => PInv
<1> SUFFICES ASSUME Init PROVE PInv OBVIOUS
<1>1. Broadcast \in Quads BY DEF Broadcast, Quads, Octets
<1>2. <<0, 0>> \in Pairs BY DEF Pairs, Octets
<1>3. RowsOK
  <2>1. PICK k \in 0 .. MaxRows : rows \in [1 .. k -> Row] BY DEF Init
  <2> QED BY <2>1 DEF RowsOK
<1>4. TypeInv
  <2>1. iface \in [{"self", "peer"} -> [0 .. 1 -> Quads]]
    BY PacketAssumption DEF Init
  <2>2. <<Broadcast, NoPort>> \in Quads \X Int BY <1>1 DEF NoPort
  <2>3. nat \in [port : Int, ip : Quads, src : Pairs]
    BY <1>1, <1>2 DEF Init, NoPort
  <2>4. src_port \in [{"self", "peer"} -> Int] BY DEF Init
  <2> QED BY <1>3, <1>1, <2>1, <2>2, <2>3, <2>4 DEF Init, TypeInv
<1>5. ShapeInv /\ CheckInv /\ AdvertInv /\ TripInv /\ PingChecksumRight
  BY DEF Init, ShapeInv, CheckInv, AdvertInv, TripInv, PingChecksumRight,
         Flight, UdpAt, NoPort
<1> QED BY <1>4, <1>5 DEF PInv

(* The strengthening holds in every reachable state.                          *)
THEOREM PacketsInductive == Spec => []PInv
<1>1. ASSUME PInv, [Next]_vars PROVE PInv'
  <2>1. CASE Drop \/ Stray \/ ShowReply \/ ReceivePing
    BY <1>1, <2>1, EndStep
  <2>2. CASE SendAdvert BY <1>1, <2>2, SendAdvertStep
  <2>3. CASE ReceiveAdvert BY <1>1, <2>3, ReceiveAdvertStep
  <2>4. CASE RelayReply BY <1>1, <2>4, RelayReplyStep
  <2>5. ASSUME NEW k \in 1 .. MaxRows, NEW i \in 0 .. 1, NEW p \in Ports,
               NEW d \in {1000, 2000}, TypeProbe(k, i, p, d)
        PROVE  PInv'
    BY <1>1, <2>5, TypeProbeStep
  <2>6. ASSUME NEW p \in Ports, RelayProbe(p) PROVE PInv'
    BY <1>1, <2>6, RelayProbeStep
  <2>7. ASSUME NEW k \in 1 .. MaxRows, NEW q \in SeqIds, SendPing(k, q)
        PROVE  PInv'
    BY <1>1, <2>7, SendPingStep
  <2>8. CASE \/ ServerReplies("direct", "back")
             \/ ServerReplies("relayed", "reply") \/ ServerEchoes
    BY <1>1, <2>8, AnswerStep
  <2>9. ASSUME NEW o \in Noise, Corrupt(o) PROVE PInv'
    BY <1>1, <2>9, CorruptStep
  <2>10. CASE UNCHANGED vars BY <1>1, <2>10, StutterStep
  <2> QED
    BY <1>1, <2>1, <2>2, <2>3, <2>4, <2>5, <2>6, <2>7, <2>8, <2>9, <2>10
    DEF Next
<1> QED BY <1>1, InitPInv, PTL DEF Spec

(* is_valid_packet and the servers drop a frame only if an octet of it        *)
(* changed or the sum in check_sum_ip carried twice; and processFrame takes   *)
(* it by the branch it is meant for, but for replies to ports that wrapped    *)
(* below 8000: for all addresses and all values of src_port.                  *)
THEOREM DropsExplained == Spec => []DroppedOnlyAtCarry
<1>1. PInv => DroppedOnlyAtCarry
  BY DEF PInv, TypeInv, CheckInv, TripInv, DroppedOnlyAtCarry
<1> QED BY <1>1, PacketsInductive, PTL

(* A frame with a changed octet in its IP header is never accepted, unless    *)
(* the sum in check_sum_ip carried twice before.                              *)
THEOREM ChangesNoticed == Spec => []ChangeNoticed
<1>1. PInv => ChangeNoticed BY DEF PInv, CheckInv, ChangeNoticed
<1> QED BY <1>1, PacketsInductive, PTL

(* receive_advertise_data reads every reachable server of the sender with its *)
(* address and delay, and nothing from the padding.                           *)
THEOREM AdvertsArrive == Spec => []AdvertArrives
<1>1. ASSUME PInv PROVE AdvertArrives
  <2> SUFFICES ASSUME at = "learned", hurt = "no"
               PROVE  /\ DOMAIN table = 1 .. Cardinality(Up)
                      /\ \A k \in Up : /\ table[Rank(k)].ip = rows[k].ip
                                       /\ table[Rank(k)].rtt = rows[k].rtt
    BY DEF AdvertArrives
  <2>1. \A k \in Up : rows[k] \in Row BY <1>1, UpFinite DEF PInv, TypeInv
  <2> QED BY <1>1, <2>1, ReadEntry DEF PInv, AdvertInv
<1> QED BY <1>1, PacketsInductive, PTL

(* A probe goes to the server that was advertised, through the written        *)
(* address and the relay, and its reply comes back to where the probe left    *)
(* from.                                                                      *)
THEOREM ProbesKeepAddress == Spec => []ProbeKeepsAddress
<1>1. PInv => ProbeKeepsAddress
  BY DEF PInv, TripInv, From, DstPort, ProbeKeepsAddress
<1> QED BY <1>1, PacketsInductive, PTL

(* Every ping leaves with the ICMP checksum that a server asks for.           *)
THEOREM PingsRight == Spec => []PingChecksumRight
<1>1. PInv => PingChecksumRight BY DEF PInv
<1> QED BY <1>1, PacketsInductive, PTL

(* The loss rate read from an advert is that of its sender while both         *)
(* counters are below 256, although they are loaded without ntohs.            *)
THEOREM SmallRatesArrive == Spec => []SmallRateArrives
<1>1. ASSUME PInv PROVE SmallRateArrives
  <2> SUFFICES ASSUME at = "learned", hurt = "no", NEW k \in Up,
                      rows[k].sent < 256, rows[k].received < 256
               PROVE  SameRate(k)
    BY DEF SmallRateArrives
  <2>1. rows[k] \in Row BY <1>1, UpFinite DEF PInv, TypeInv
  <2>2. PICK s \in 0 .. W - 1, r \in 0 .. W - 1 :
          s = rows[k].sent /\ r = rows[k].received
    BY <2>1, RowType
  <2>3. table[Rank(k)].rate = <<Raw(htons(r)), Raw(htons(s))>>
    BY <1>1, <2>1, <2>2, ReadEntry DEF PInv, AdvertInv
  <2>4. Raw(htons(r)) = 256 * r /\ Raw(htons(s)) = 256 * s
    BY <2>2, WordPair
  <2>5. s \in Int /\ r \in Int /\ (256 * r) * s = r * (256 * s)
    <3>1. s \in Int /\ r \in Int BY WordSize
    <3> QED BY <3>1
  <2> QED BY <2>2, <2>3, <2>4, <2>5 DEF SameRate
<1> QED BY <1>1, PacketsInductive, PTL
===============================================================================
