-------------------------- MODULE DivisionTheorems ---------------------------
(* Quotient and remainder of a division by a positive number, which the       *)
(* provers know as operators of the integers but not as unique.               *)
EXTENDS Integers, TLAPS

(* What % and \div are.                                                       *)
LEMMA Division ==
  ASSUME NEW w \in Nat \ {0}, NEW n \in Int
  PROVE /\ n % w \in 0 .. w - 1 /\ n \div w \in Int
        /\ n = w * (n \div w) + (n % w)
OBVIOUS

(* A larger quotient makes a number larger by at least the divisor, which no  *)
(* remainder makes up for.                                                    *)
LEMMA QuotientNotLarger ==
  ASSUME NEW w \in Nat \ {0}, NEW q \in Int, NEW p \in Int,
         NEW r \in 0 .. w - 1, NEW s \in 0 .. w - 1, w * q + r = w * p + s
  PROVE ~ (q > p)
<1> SUFFICES ASSUME q > p PROVE FALSE OBVIOUS
<1>1. PICK e \in Nat : q = p + e + 1
  <2>1. q - p - 1 \in Nat /\ q = p + (q - p - 1) + 1 OBVIOUS
  <2> QED BY <2>1
<1>2. w * q = w * p + w * e + w BY <1>1
<1>3. w * e >= 0 /\ w * e \in Int /\ w * p \in Int OBVIOUS
<1> QED BY <1>2, <1>3

(* Quotient and remainder are unique.                                         *)
LEMMA DivUnique ==
  ASSUME NEW w \in Nat \ {0}, NEW q \in Int, NEW p \in Int,
         NEW r \in 0 .. w - 1, NEW s \in 0 .. w - 1, w * q + r = w * p + s
  PROVE q = p /\ r = s
<1>1. ~ (q > p) BY QuotientNotLarger
<1>2. ~ (p > q) BY QuotientNotLarger
<1>3. q = p BY <1>1, <1>2
<1> QED BY <1>3

(* So a number given by its quotient and remainder has no others.             *)
LEMMA DivMod ==
  ASSUME NEW w \in Nat \ {0}, NEW n \in Int, NEW q \in Int,
         NEW r \in 0 .. w - 1, n = w * q + r
  PROVE n \div w = q /\ n % w = r
<1>1. /\ n % w \in 0 .. w - 1 /\ n \div w \in Int
      /\ n = w * (n \div w) + (n % w)
  BY Division
<1>2. w * q + r = w * (n \div w) + (n % w) BY <1>1
<1> QED BY <1>1, <1>2, DivUnique

(* A number is a multiple of itself.                                          *)
LEMMA ModSelf ==
  ASSUME NEW w \in Nat \ {0}
  PROVE w % w = 0
<1>1. w = w * 1 + 0 /\ 0 \in 0 .. w - 1 OBVIOUS
<1> QED BY <1>1, DivMod

(* A counter that wraps at every step agrees with a sum that wraps once.      *)
LEMMA ModNext ==
  ASSUME NEW w \in Nat \ {0}, NEW n \in Nat
  PROVE ((n % w) + 1) % w = (n + 1) % w
<1> DEFINE q == n \div w
           r == n % w
<1>1. r \in 0 .. w - 1 /\ q \in Int /\ n = w * q + r BY Division
<1>a. n + 1 \in Int OBVIOUS
<1>2. CASE r + 1 < w
  <2>1. r + 1 \in 0 .. w - 1 /\ n + 1 = w * q + (r + 1) BY <1>1, <1>2
  <2> HIDE DEF q
  <2>2. (n + 1) % w = r + 1 BY <1>1, <1>a, <2>1, DivMod
  <2>3. (r + 1) % w = r + 1 BY <2>1
  <2> QED BY <2>2, <2>3
<1>3. CASE r + 1 = w
  <2>1. n + 1 = w * (q + 1) + 0 /\ q + 1 \in Int /\ 0 \in 0 .. w - 1
    BY <1>1, <1>3
  <2> HIDE DEF q
  <2>2. (n + 1) % w = 0 BY <1>a, <2>1, DivMod
  <2>3. w % w = 0 BY ModSelf
  <2> QED BY <1>3, <2>2, <2>3
<1> QED BY <1>1, <1>2, <1>3
===============================================================================
