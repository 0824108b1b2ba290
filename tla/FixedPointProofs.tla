-------------------------- MODULE FixedPointProofs --------------------------
(***************************************************************************)
(* The fixed point functions compute what they promise, for any number of  *)
(* bits.  The one that takes an argument is the square root.  Let n be the *)
(* number whose root is taken and s the root of the bit that is tried: a   *)
(* power of two.  The loop has found the multiple q of 2s with             *)
(* q^2 <= n < (q + 2s)^2, and keeps it as res = 2qs and op = n - q^2.      *)
(***************************************************************************)
EXTENDS FixedPoint, TLAPS

Powers == {Power2[j] : j \in 0 .. 2 * I}

\* The number whose root is taken.
Number == x * Power2[I - 1]

RootFound(n) == res * res <= n /\ n < (res + 1) * (res + 1)

Trying(n, s, q) ==
  /\ one = s * s
  /\ res = 2 * (q * s)
  /\ op = n - q * q
  /\ q * q <= n
  /\ n < (q + 2 * s) * (q + 2 * s)

AlignInv ==
  pc = "align" =>
    /\ op = Number
    /\ res = 0
    /\ \/ one = 0 /\ Number = 0
       \/ \E s \in Powers : one = s * s /\ Number < 4 * (s * s)

RootInv ==
  pc = "root" =>
    \/ one = 0 /\ RootFound(Number)
    \/ \E s \in Powers, q \in Nat : Trying(Number, s, q)

Domain ==
  /\ fn \in Binary \cup Unary
  /\ x \in Raw
  /\ y \in Raw
  /\ pc \in {"call", "align", "root", "done", "trapped"}
  /\ op \in Nat
  /\ res \in Nat
  /\ one \in Nat
  /\ pc \in {"align", "root"} => fn = "sqrt" /\ x >= 0

Results == ProductIsFloor /\ QuotientTruncates /\ SqrtIsRoot

IInv == TypeOK /\ Domain /\ AlignInv /\ RootInv /\ Results

----------------------------------------------------------------------------
(* The constants.                                                          *)

LEMMA Exponents ==
  /\ F \in 0 .. 2 * I /\ Digits \in 0 .. 2 * I /\ I \in 0 .. 2 * I
  /\ I + F = Digits /\ F = I - 1
BY FixedPointAssumption DEF F, Digits

\* The integer and the fraction bits make up the type.
LEMMA HalfSplits == Half = Power2[I] * Power2[F]
<1>1. I + F <= 2 * I
  BY Exponents, FixedPointAssumption
<1>2. \A m, n \in 0 .. 2 * I : m + n <= 2 * I => Power2[m + n] = Power2[m] * Power2[n]
  BY FixedPointAssumption
<1>3. Power2[I + F] = Power2[I] * Power2[F]
  BY Exponents, <1>1, <1>2
<1> QED BY Exponents, <1>3 DEF Half

LEMMA Widths ==
  /\ Half \in Nat \ {0}
  /\ Power2[F] \in Nat \ {0}
  /\ Power2[I] \in Nat \ {0}
  /\ Power2[F] <= Half
<1>1. Power2[F] \in Nat \ {0} /\ Power2[I] \in Nat \ {0} /\ Half \in Nat \ {0}
  BY Exponents, FixedPointAssumption DEF Half
<1>2. \A a, b \in Nat \ {0} : b <= a * b
  OBVIOUS
<1> QED BY <1>1, <1>2, HalfSplits

\* A power of two is one, or twice another.
LEMMA PowerHalves ==
  ASSUME NEW s \in Powers
  PROVE  /\ s \in Nat \ {0}
         /\ \/ s = 1
            \/ \E t \in Powers : t \in Nat \ {0} /\ s = 2 * t
<1>1. PICK j \in 0 .. 2 * I : s = Power2[j]
  BY DEF Powers
<1>2. s \in Nat \ {0}
  BY <1>1, FixedPointAssumption
<1>3. CASE j = 0
  BY <1>1, <1>2, <1>3, FixedPointAssumption
<1>4. CASE j # 0
  <2>1. /\ j - 1 \in 0 .. 2 * I /\ 1 \in 0 .. 2 * I
        /\ 1 + (j - 1) = j /\ 1 + (j - 1) <= 2 * I
    BY <1>4, FixedPointAssumption
  <2>2. Power2[j] = 2 * Power2[j - 1]
    BY <2>1, FixedPointAssumption
  <2>3. Power2[j - 1] \in Powers /\ Power2[j - 1] \in Nat \ {0}
    BY <2>1, FixedPointAssumption DEF Powers
  <2> QED BY <1>1, <1>2, <2>2, <2>3
<1> QED BY <1>3, <1>4

----------------------------------------------------------------------------
(* Arithmetic.                                                             *)

LEMMA Division ==
  ASSUME NEW a \in Int, NEW d \in Nat \ {0}
  PROVE  /\ a \div d \in Int
         /\ a % d \in 0 .. d - 1
         /\ a = d * (a \div d) + (a % d)
OBVIOUS

\* What the quotient of a division with remainder is bounded by.
LEMMA QuotientRange ==
  ASSUME NEW z \in Int, NEW d \in Nat \ {0}, NEW h \in Nat, NEW m \in Int, NEW r \in 0 .. d - 1,
         z = d * m + r
  PROVE  /\ z \in m * d .. (m + 1) * d - 1
         /\ z \in -h * d .. h * d - 1 => m \in -h .. h - 1
<1>1. z \in m * d .. (m + 1) * d - 1
  OBVIOUS
<1>2. ASSUME z <= h * d - 1 PROVE m <= h - 1
  <2> SUFFICES ASSUME m >= h PROVE FALSE
    OBVIOUS
  <2>1. d * (m - h) >= 0
    OBVIOUS
  <2> QED BY <1>2, <2>1
<1>3. ASSUME -h * d <= z PROVE -h <= m
  <2> SUFFICES ASSUME m + 1 <= -h PROVE FALSE
    OBVIOUS
  <2>1. d * (-h - (m + 1)) >= 0
    OBVIOUS
  <2> QED BY <1>3, <2>1
<1> QED BY <1>1, <1>2, <1>3

LEMMA NarrowInRaw == \A v \in Int : Narrow(v) \in Raw
BY Widths DEF Narrow, Raw

LEMMA NarrowKeeps == \A v \in Raw : Narrow(v) = v
BY Widths DEF Narrow, Raw

----------------------------------------------------------------------------
(* The calls that take one step.                                           *)

\* A product that is representable is rounded down.
LEMMA MultiplyIsRight ==
  ASSUME Domain, Multiply
  PROVE  /\ result' \in Raw
         /\ ProductIsFloor'
<1> DEFINE P == Power2[F]
           q == (x * y) \div P
<1>1. x \in Int /\ y \in Int /\ x * y \in Int /\ P \in Nat \ {0} /\ Half \in Nat \ {0}
  BY Widths DEF Domain, Raw
<1>2. q \in Int /\ (x * y) % P \in 0 .. P - 1 /\ x * y = P * q + ((x * y) % P)
  BY <1>1, Division
<1>3. result' = Narrow(q) /\ x' = x /\ y' = y
  BY DEF Multiply, Return
<1>4. result' \in Raw
  BY <1>2, <1>3, NarrowInRaw
<1>5. ASSUME x * y \in -Half * P .. Half * P - 1
      PROVE  x * y \in result' * P .. (result' + 1) * P - 1
  <2> HIDE DEF P, q
  <2>1. q \in -Half .. Half - 1 /\ x * y \in q * P .. (q + 1) * P - 1
    BY <1>1, <1>2, <1>5, QuotientRange
  <2>2. Narrow(q) = q
    BY <2>1, NarrowKeeps DEF Raw
  <2> QED BY <1>3, <2>1, <2>2
<1> QED BY <1>3, <1>4, <1>5 DEF ProductIsFloor

\* A quotient that is representable is rounded towards zero.
LEMMA DivideIsRight ==
  ASSUME Domain, Divide, y # 0
  PROVE  /\ result' \in Raw
         /\ QuotientTruncates'
<1> DEFINE P == Power2[F]
           n == Abs(x) * P
           d == Abs(y)
           q == n \div d
<1>1. x \in Int /\ y \in Int /\ P \in Nat \ {0} /\ Half \in Nat \ {0}
  BY Widths DEF Domain, Raw
<1>2. n \in Nat /\ d \in Nat \ {0} /\ x * P \in Int
  BY <1>1 DEF Abs
<1>3. Abs(x * P) = n /\ (x * P < 0 <=> x < 0)
  BY <1>1 DEF Abs
<1> HIDE DEF P, n, d
<1>4. q \in Int /\ n % d \in 0 .. d - 1 /\ n = d * q + (n % d)
  BY <1>2, Division
<1>5. Quotient(x * P, y) = IF x < 0 <=> y < 0 THEN q ELSE -q
  BY <1>3 DEF Quotient, d
<1>6. result' = Narrow(Quotient(x * P, y)) /\ x' = x /\ y' = y
  BY DEF Divide, Return, P
<1> HIDE DEF q
<1>7. /\ n \in q * d .. (q + 1) * d - 1
      /\ n \in -Half * d .. Half * d - 1 => q \in -Half .. Half - 1
  BY <1>1, <1>2, <1>4, QuotientRange
<1>8. q >= 0
  <2>1. q <= -1 => d * q <= -d
    BY <1>2, <1>4
  <2> QED BY <1>2, <1>4, <2>1
<1>9. result' \in Raw
  <2>1. Quotient(x * P, y) \in Int
    BY <1>4, <1>5
  <2> QED BY <1>6, <2>1, NarrowInRaw
<1>10. ASSUME n < Half * d
       PROVE  /\ n \in Abs(result' * y) .. Abs(result' * y) + d - 1
              /\ result' # 0 => ((result' < 0) <=> ((x < 0) # (y < 0)))
  <2>1. n \in -Half * d .. Half * d - 1
    <3>1. -Half * d <= 0
      BY <1>1, <1>2
    <3> QED BY <1>1, <1>2, <1>10, <3>1
  <2>2. q \in 0 .. Half - 1
    BY <1>7, <1>8, <2>1
  <2>3. Quotient(x * P, y) \in Raw
    BY <1>1, <1>5, <2>2 DEF Raw
  <2>4. result' = IF x < 0 <=> y < 0 THEN q ELSE -q
    BY <1>5, <1>6, <2>3, NarrowKeeps
  <2>5. Abs(result' * y) = q * d
    BY <1>1, <2>2, <2>4 DEF Abs, d
  <2> QED BY <1>1, <1>2, <1>7, <2>2, <2>4, <2>5
<1> QED BY <1>6, <1>9, <1>10 DEF QuotientTruncates, P, n, d

\* What is left of an angle is smaller than a turn.
LEMMA ReduceType ==
  ASSUME Domain, Reduce
  PROVE  result' \in Raw
<1> DEFINE a == Abs(x)
           q == a \div TwoPi
           r == a % TwoPi
<1>1. /\ x \in Int /\ a \in Nat /\ Pi \in Nat \ {0} /\ TwoPi \in Nat \ {0}
      /\ Pi <= TwoPi /\ TwoPi - Pi <= Pi + 1 /\ TwoPi < Half /\ Half \in Nat
  <2>1. Pi \in Nat \ {0} /\ TwoPi \in {2 * Pi - 1, 2 * Pi, 2 * Pi + 1} /\ TwoPi < Half
    BY FixedPointAssumption
  <2>2. x \in Int /\ Half \in Nat
    BY Widths DEF Domain, Raw
  <2>3. a \in Nat
    BY <2>2 DEF Abs
  <2> QED BY <2>1, <2>2, <2>3
<1>2. Abs(TwoPi) = TwoPi /\ ~ (TwoPi < 0)
  BY <1>1 DEF Abs
<1>3. Quotient(x, TwoPi) = IF x < 0 THEN -q ELSE q
  BY <1>1, <1>2 DEF Quotient
<1>4. a = IF x < 0 THEN -x ELSE x
  BY DEF Abs
<1> HIDE DEF a
<1>5. q \in Int /\ r \in 0 .. TwoPi - 1 /\ a = TwoPi * q + r
  BY <1>1, Division
<1> HIDE DEF q, r
<1>6. q >= 0 /\ r <= a
  <2>1. q <= -1 => TwoPi * q <= -TwoPi
    BY <1>1, <1>5
  <2>2. q >= 0 => TwoPi * q >= 0
    BY <1>1, <1>5
  <2> QED BY <1>1, <1>5, <2>1, <2>2
<1>7. Remainder(x, TwoPi) = IF x < 0 THEN -r ELSE r
  BY <1>1, <1>3, <1>4, <1>5 DEF Remainder
<1>8. /\ x' = x
      /\ result' = IF ~ (x < 0) /\ r > Pi THEN r - TwoPi ELSE IF x < 0 THEN -r ELSE r
  BY <1>1, <1>5, <1>7 DEF Reduce, Return
<1> QED BY <1>1, <1>5, <1>8 DEF Raw

\* The integer part of a negative number is at most 0: no overflow.
LEMMA ModfType ==
  ASSUME Domain, Modf
  PROVE  /\ result' \in Raw
         /\ ptr' \in Raw
<1> DEFINE P == Power2[F]
           h == Power2[I]
           m == x \div P
           r == x % P
<1>1. P \in Nat \ {0} /\ h \in Nat \ {0} /\ Half = h * P /\ P <= Half /\ x \in -Half .. Half - 1
      /\ Half \in Nat
  BY Widths, HalfSplits DEF Domain, Raw
<1> HIDE DEF P, h
<1>2. m \in Int /\ r \in 0 .. P - 1 /\ x = P * m + r
  BY <1>1, Division
<1>3. /\ x' = x
      /\ ptr' = IF x < 0 THEN x - r + P ELSE x - r
      /\ result' = IF x < 0 THEN -r ELSE r
  BY DEF Modf, Return, P
<1> HIDE DEF m, r
<1>4. x - r = P * m /\ x - r >= -Half /\ (x < 0 => x - r <= -P)
  <2>1. m \in -h .. h - 1
    BY <1>1, <1>2, QuotientRange
  <2>2. P * (m + h) >= 0
    BY <1>1, <1>2, <2>1
  <2>3. m >= 0 => P * m >= 0
    BY <1>1, <1>2
  <2>4. m <= -1 => P * m <= -P
    BY <1>1, <1>2
  <2> QED BY <1>1, <1>2, <2>2, <2>3, <2>4
<1> QED BY <1>1, <1>2, <1>3, <1>4 DEF Raw

----------------------------------------------------------------------------
(* The square root.                                                        *)

\* The highest bit is above every number.
LEMMA HighestBit ==
  ASSUME x \in Raw, x >= 0
  PROVE  /\ Number \in Nat
         /\ Number < Half * Half
         /\ Half \in Powers
<1>1. Power2[I - 1] = Power2[F]
  BY Exponents
<1>2. \A a, b, h \in Nat : a < h /\ b <= h /\ b > 0 => a * b < h * h
  <2> SUFFICES ASSUME NEW a \in Nat, NEW b \in Nat, NEW h \in Nat, a < h, b <= h, b > 0
               PROVE  a * b < h * h
    OBVIOUS
  <2>1. (h - a) * b > 0
    OBVIOUS
  <2>2. h * (h - b) >= 0
    OBVIOUS
  <2>3. h * h - a * b = h * (h - b) + (h - a) * b
    OBVIOUS
  <2> QED BY <2>1, <2>2, <2>3
<1>3. x \in Nat /\ x < Half /\ Power2[F] \in Nat /\ Power2[F] > 0 /\ Power2[F] <= Half /\ Half \in Nat
  BY Widths DEF Raw
<1>4. Number \in Nat /\ Number < Half * Half
  BY <1>1, <1>2, <1>3 DEF Number
<1>5. Half \in Powers
  BY Exponents DEF Half, Powers
<1> QED BY <1>4, <1>5

\* One round of the loop, for a bit that is not the last.
LEMMA HigherBit ==
  ASSUME NEW n \in Nat, NEW q \in Nat, NEW t \in Nat \ {0},
         q * q <= n,
         n < (q + 4 * t) * (q + 4 * t)
  PROVE  LET s == 2 * t IN
         /\ (s * s) \div 4 = t * t
         /\ (n - q * q >= 2 * (q * s) + s * s) <=> ((q + s) * (q + s) <= n)
         /\ (n - q * q) - (2 * (q * s) + s * s) = n - (q + s) * (q + s)
         /\ (2 * (q * s) + 2 * (s * s)) \div 2 = 2 * ((q + s) * t)
         /\ (2 * (q * s)) \div 2 = 2 * (q * t)
<1> DEFINE s == 2 * t
<1>1. s * s = 4 * (t * t) /\ t * t \in Nat
  OBVIOUS
<1>2. (s * s) \div 4 = t * t
  BY <1>1
<1>3. (q + s) * (q + s) = q * q + 2 * (q * s) + s * s
  OBVIOUS
<1>4. q * s \in Nat /\ s * s \in Nat /\ q * s = 2 * (q * t) /\ q * t \in Nat
  OBVIOUS
<1>5. (q + s) * t = q * t + s * t /\ s * t \in Nat /\ s * s = 2 * (s * t)
  OBVIOUS
<1>6. (2 * (q * s)) \div 2 = q * s
  BY <1>4
<1>7. (2 * (q * s) + 2 * (s * s)) \div 2 = q * s + s * s
  BY <1>4
<1> QED BY <1>2, <1>3, <1>4, <1>5, <1>6, <1>7

\* The last round.
LEMMA LastBit ==
  ASSUME NEW n \in Nat, NEW q \in Nat
  PROVE  /\ 1 \div 4 = 0
         /\ (n - q * q >= 2 * q + 1) <=> ((q + 1) * (q + 1) <= n)
         /\ (2 * q + 2) \div 2 = q + 1
         /\ (2 * q) \div 2 = q
<1>1. (q + 1) * (q + 1) = q * q + 2 * q + 1 /\ q * q \in Nat
  OBVIOUS
<1> QED BY <1>1

LEMMA SqrtStep ==
  ASSUME Domain, Sqrt
  PROVE  /\ AlignInv'
         /\ RootInv'
         /\ pc' = "done" => result' = 0 /\ x < 0
         /\ op' \in Nat /\ res' \in Nat /\ one' \in Nat
<1>1. x' = x /\ x \in Int
  BY Widths DEF Sqrt, Domain, Raw
<1>2. CASE x < 0
  BY <1>1, <1>2 DEF Sqrt, Return, AlignInv, RootInv, Domain
<1>3. CASE ~ (x < 0)
  <2>1. x \in Raw /\ x >= 0
    BY <1>1, <1>3 DEF Domain
  <2>2. pc' = "align" /\ op' = Number /\ res' = 0 /\ one' = Half * Half /\ Number' = Number
    BY <1>3 DEF Sqrt, Number
  <2>3. Half * Half \in Nat /\ Half * Half <= 4 * (Half * Half)
    BY Widths
  <2>4. Number < 4 * (Half * Half) /\ Number \in Nat
    BY <2>1, <2>3, HighestBit
  <2>5. \E s \in Powers : one' = s * s /\ Number < 4 * (s * s)
    BY <2>1, <2>2, <2>4, HighestBit
  <2> QED BY <2>2, <2>3, <2>4, <2>5 DEF AlignInv, RootInv
<1> QED BY <1>2, <1>3

LEMMA AlignStep ==
  ASSUME Domain, AlignInv, Align
  PROVE  /\ AlignInv'
         /\ RootInv'
         /\ op' \in Nat /\ res' \in Nat /\ one' \in Nat
<1>1. /\ pc = "align" /\ x' = x /\ op' = op /\ res' = res /\ x \in Raw /\ x >= 0
      /\ Number' = Number
  BY DEF Align, Domain, Number
<1>2. op = Number /\ res = 0 /\ Number \in Nat /\ one \in Nat
  BY <1>1, HighestBit DEF AlignInv, Domain
<1>3. CASE one > op
  <2>1. pc' = "align" /\ one' = one \div 4
    BY <1>3 DEF Align
  <2>2. PICK s \in Powers : one = s * s /\ Number < 4 * (s * s)
    BY <1>1, <1>2, <1>3 DEF AlignInv
  <2>3. CASE s = 1
    <3>1. one = 1 /\ one' = 0 /\ Number = 0
      BY <1>2, <1>3, <2>1, <2>2, <2>3
    <3> QED BY <1>1, <1>2, <2>1, <3>1 DEF AlignInv, RootInv
  <2>4. ASSUME NEW t \in Powers, t \in Nat \ {0}, s = 2 * t
        PROVE  one' = t * t /\ Number < 4 * (t * t)
    <3>1. one = 4 * (t * t) /\ t * t \in Nat
      BY <2>2, <2>4
    <3> QED BY <1>2, <1>3, <2>1, <3>1
  <2>5. CASE s # 1
    <3>1. \E t \in Powers : one' = t * t /\ Number < 4 * (t * t)
      BY <2>4, <2>5, PowerHalves
    <3>2. one' \in Nat
      BY <1>2, <2>1
    <3> QED BY <1>1, <1>2, <2>1, <3>1, <3>2 DEF AlignInv, RootInv
  <2> QED BY <1>1, <1>2, <2>1, <2>3, <2>5
<1>4. CASE ~ (one > op)
  <2>1. pc' = "root" /\ one' = one
    BY <1>4 DEF Align
  <2>2. CASE one = 0 /\ Number = 0
    <3>1. RootFound(Number)'
      BY <1>1, <1>2, <2>2 DEF RootFound
    <3> QED BY <1>1, <1>2, <2>1, <2>2, <3>1 DEF AlignInv, RootInv
  <2>3. ASSUME NEW s \in Powers, one = s * s, Number < 4 * (s * s)
        PROVE  Trying(Number, s, 0)'
    <3>1. s \in Nat
      BY PowerHalves
    <3>2. (0 + 2 * s) * (0 + 2 * s) = 4 * (s * s) /\ 0 * s = 0
      BY <3>1
    <3> QED BY <1>1, <1>2, <2>1, <2>3, <3>1, <3>2 DEF Trying
  <2>4. RootInv'
    <3>1. \/ one = 0 /\ Number = 0
          \/ \E s \in Powers : one = s * s /\ Number < 4 * (s * s)
      BY <1>1 DEF AlignInv
    <3>2. (\E s \in Powers : one = s * s /\ Number < 4 * (s * s))
            => \E s \in Powers, q \in Nat : Trying(Number, s, q)'
      BY <2>3
    <3> QED BY <2>2, <3>1, <3>2 DEF RootInv
  <2> QED BY <1>1, <1>2, <2>1, <2>4 DEF AlignInv
<1> QED BY <1>3, <1>4

LEMMA TryBitStep ==
  ASSUME Domain, RootInv, TryBit
  PROVE  /\ RootInv'
         /\ op' \in Nat /\ res' \in Nat /\ one' \in Nat
<1>1. /\ pc = "root" /\ pc' = "root" /\ one # 0 /\ one' = one \div 4
      /\ x \in Raw /\ x >= 0 /\ Number' = Number
  BY DEF TryBit, Domain, Number
<1>2. PICK s \in Powers, q \in Nat : Trying(Number, s, q)
  BY <1>1 DEF RootInv
<1> DEFINE n == Number
<1>3. /\ one = s * s /\ res = 2 * (q * s) /\ op = n - q * q
      /\ q * q <= n /\ n < (q + 2 * s) * (q + 2 * s)
  BY <1>2 DEF Trying
<1>4. n \in Nat /\ s \in Nat \ {0} /\ q * s \in Nat /\ s * s \in Nat /\ q * q \in Nat
  BY <1>1, HighestBit, PowerHalves
<1>5. IF op >= res + one
      THEN op' = op - (res + one) /\ res' = (res + 2 * one) \div 2
      ELSE op' = op /\ res' = res \div 2
  BY DEF TryBit
<1>6. op' \in Nat /\ res' \in Nat /\ one' \in Nat
  BY <1>1, <1>3, <1>4, <1>5
<1> HIDE DEF n
<1>7. CASE s = 1
  <2>1. one' = 0
    BY <1>1, <1>3, <1>7
  <2>2. res = 2 * q /\ one = 1 /\ q * q <= n /\ n < (q + 2) * (q + 2)
    BY <1>3, <1>7
  <2>3. res' = IF (q + 1) * (q + 1) <= n THEN q + 1 ELSE q
    BY <1>3, <1>4, <1>5, <2>2, LastBit
  <2>4. res' * res' <= n /\ n < (res' + 1) * (res' + 1)
    <3>1. (q + 1) + 1 = q + 2
      OBVIOUS
    <3> QED BY <1>4, <2>2, <2>3, <3>1
  <2>5. RootFound(Number)'
    BY <1>1, <2>4 DEF RootFound, n
  <2> QED BY <1>6, <2>1, <2>5 DEF RootInv
<1>8. CASE s # 1
  <2>1. PICK t \in Powers : t \in Nat \ {0} /\ s = 2 * t
    BY <1>8, PowerHalves
  <2>2. q + 2 * s = q + 4 * t
    BY <2>1
  <2>3. /\ (s * s) \div 4 = t * t
        /\ (n - q * q >= 2 * (q * s) + s * s) <=> ((q + s) * (q + s) <= n)
        /\ (n - q * q) - (2 * (q * s) + s * s) = n - (q + s) * (q + s)
        /\ (2 * (q * s) + 2 * (s * s)) \div 2 = 2 * ((q + s) * t)
        /\ (2 * (q * s)) \div 2 = 2 * (q * t)
    BY <1>3, <1>4, <2>1, <2>2, HigherBit
  <2>4. PICK p \in Nat : p = IF (q + s) * (q + s) <= n THEN q + s ELSE q
    BY <1>4
  <2>5. p * p <= n
    BY <1>3, <1>4, <2>4
  <2>6. n < (p + 2 * t) * (p + 2 * t)
    <3>1. (q + s) + 2 * t = q + 2 * s /\ q + 2 * t = q + s
      BY <2>1
    <3>2. (q + s) * (q + s) \in Nat
      BY <1>4
    <3> QED BY <1>3, <1>4, <2>4, <3>1, <3>2
  <2>7. one' = t * t /\ res' = 2 * (p * t) /\ op' = n - p * p
    BY <1>1, <1>3, <1>5, <2>3, <2>4
  <2>8. Trying(Number, t, p)'
    BY <1>1, <2>5, <2>6, <2>7 DEF Trying, n
  <2>9. \E u \in Powers, v \in Nat : Trying(Number, u, v)'
    BY <2>8
  <2> QED BY <1>6, <2>9 DEF RootInv
<1> QED BY <1>6, <1>7, <1>8

\* Nothing is lost when the root is narrowed.
LEMMA RootIsRight ==
  ASSUME Domain, RootInv, Root
  PROVE  /\ result' \in Raw
         /\ SqrtIsRoot'
<1>1. /\ pc = "root" /\ one = 0 /\ x' = x /\ result' = Narrow(res) /\ x \in Raw /\ x >= 0
      /\ res \in Nat
  BY DEF Root, Return, Domain
<1>2. RootFound(Number)
  <2>1. \A s \in Powers, q \in Nat : ~ Trying(Number, s, q)
    <3> SUFFICES ASSUME NEW s \in Powers, NEW q \in Nat, Trying(Number, s, q) PROVE FALSE
      OBVIOUS
    <3>1. s \in Nat \ {0} /\ s * s = 0
      BY <1>1, PowerHalves DEF Trying
    <3> QED BY <3>1
  <2> QED BY <1>1, <2>1 DEF RootInv
<1>3. res * res <= Number /\ Number < (res + 1) * (res + 1) /\ Number \in Nat /\ Number < Half * Half
  BY <1>1, <1>2, HighestBit DEF RootFound
<1>4. res < Half
  <2>1. \A a, b \in Nat : a >= b => a * a >= b * b
    <3> SUFFICES ASSUME NEW a \in Nat, NEW b \in Nat, a >= b PROVE a * a >= b * b
      OBVIOUS
    <3>1. (a - b) * (a + b) >= 0 /\ (a - b) * (a + b) = a * a - b * b
      OBVIOUS
    <3> QED BY <3>1
  <2>2. Half \in Nat /\ Half * Half \in Nat /\ res * res \in Nat
    BY <1>1, Widths
  <2> QED BY <1>1, <1>3, <2>1, <2>2
<1>5. result' = res /\ res \in Raw
  <2>1. res \in Raw
    BY <1>1, <1>4, Widths DEF Raw
  <2> QED BY <1>1, <2>1, NarrowKeeps
<1>6. Number = x * Power2[F]
  BY Exponents DEF Number
<1> QED BY <1>1, <1>3, <1>5, <1>6 DEF SqrtIsRoot

----------------------------------------------------------------------------
(* The invariant.                                                          *)

LEMMA InitIInv == Init => IInv
<1> SUFFICES ASSUME Init PROVE IInv
  OBVIOUS
<1>1. Half \in Nat \ {0} /\ 0 \in Raw /\ 0 \in Promoted
  BY Widths DEF Raw, Promoted
<1>2. TypeOK
  BY <1>1 DEF Init, TypeOK
<1>3. Domain
  BY <1>1 DEF Init, Domain
<1>4. AlignInv /\ RootInv /\ Results
  BY DEF Init, AlignInv, RootInv, Results, Done, ProductIsFloor, QuotientTruncates, SqrtIsRoot
<1> QED BY <1>2, <1>3, <1>4 DEF IInv

\* A result is only of the function that was called.
LEMMA OneResult ==
  ASSUME NEW f \in Binary \cup Unary, fn' = f \/ pc' # "done"
  PROVE  /\ f # "mul" => ProductIsFloor'
         /\ f # "div" => QuotientTruncates'
         /\ f # "sqrt" => SqrtIsRoot'
BY DEF Done, ProductIsFloor, QuotientTruncates, SqrtIsRoot

\* What the calls of one step leave behind.
LEMMA CallStep ==
  ASSUME IInv, UNCHANGED <<fn, x, y, op, res, one>>, pc' \in {"done", "trapped"},
         result' \in Raw, ptr' \in Raw, Results'
  PROVE  IInv'
<1>1. TypeOK'
  BY DEF IInv, TypeOK
<1>2. Domain'
  BY DEF IInv, Domain
<1>3. AlignInv' /\ RootInv'
  BY DEF AlignInv, RootInv
<1> QED BY <1>1, <1>2, <1>3 DEF IInv

\* What the steps of sqrt leave behind.
LEMMA SqrtSteps ==
  ASSUME IInv, UNCHANGED <<fn, x, y, ptr>>, fn = "sqrt",
         pc' \in {"align", "root", "done"}, pc' \in {"align", "root"} => x >= 0,
         result' \in Raw, op' \in Promoted, res' \in Promoted, one' \in Promoted,
         AlignInv', RootInv', SqrtIsRoot'
  PROVE  IInv'
<1>1. TypeOK'
  BY DEF IInv, TypeOK
<1>2. Domain'
  BY DEF IInv, Domain, Promoted
<1>3. Results'
  BY OneResult DEF Results, Binary, Unary
<1> QED BY <1>1, <1>2, <1>3 DEF IInv

LEMMA NextIInv ==
  ASSUME IInv, [Next]_vars
  PROVE  IInv'
<1>1. /\ TypeOK /\ Domain /\ AlignInv /\ RootInv
      /\ result \in Raw /\ ptr \in Raw
      /\ op \in Promoted /\ res \in Promoted /\ one \in Promoted
  BY DEF IInv, TypeOK
<1>2. Half \in Nat \ {0} /\ Half * Half \in Nat \ {0} /\ \A v \in Promoted : v \in Nat
  BY Widths DEF Promoted
<1>3. CASE Multiply
  <2>1. /\ UNCHANGED <<fn, x, y, op, res, one, ptr>> /\ fn = "mul" /\ pc' = "done"
    BY <1>3 DEF Multiply, Return
  <2>2. Results'
    BY <1>1, <1>3, <2>1, MultiplyIsRight, OneResult DEF Results, Binary
  <2> QED BY <1>1, <1>3, <2>1, <2>2, MultiplyIsRight, CallStep
<1>4. CASE Divide
  <2>1. /\ UNCHANGED <<fn, x, y, op, res, one, ptr>> /\ fn = "div" /\ pc' \in {"done", "trapped"}
        /\ y = 0 => pc' = "trapped" /\ result' = result
    BY <1>4 DEF Divide, Return
  <2>2. result' \in Raw
    BY <1>1, <1>4, <2>1, DivideIsRight
  <2>3. QuotientTruncates'
    BY <1>1, <1>4, <2>1, DivideIsRight DEF QuotientTruncates, Done
  <2>4. Results'
    BY <2>1, <2>3, OneResult DEF Results, Binary
  <2> QED BY <1>1, <2>1, <2>2, <2>4, CallStep
<1>5. CASE Reduce
  <2>1. /\ UNCHANGED <<fn, x, y, op, res, one, ptr>> /\ fn = "reduce" /\ pc' = "done"
    BY <1>5 DEF Reduce, Return
  <2>2. Results'
    BY <2>1, OneResult DEF Results, Unary
  <2> QED BY <1>1, <1>5, <2>1, <2>2, ReduceType, CallStep
<1>6. CASE Modf
  <2>1. /\ UNCHANGED <<fn, x, y, op, res, one>> /\ fn = "modf" /\ pc' = "done"
    BY <1>6 DEF Modf, Return
  <2>2. Results'
    BY <2>1, OneResult DEF Results, Unary
  <2> QED BY <1>1, <1>6, <2>1, <2>2, ModfType, CallStep
<1>7. CASE Sqrt
  <2>1. /\ UNCHANGED <<fn, x, y, ptr>> /\ fn = "sqrt" /\ x \in Raw /\ x \in Int
        /\ pc' \in {"align", "done"} /\ (pc' = "align" => x >= 0)
    BY <1>1, <1>2, <1>7 DEF Sqrt, Return, Domain, Raw
  <2>2. result' \in Raw
    BY <1>1, <1>2, <1>7 DEF Sqrt, Return, Raw
  <2>3. op' \in Promoted /\ res' \in Promoted /\ one' \in Promoted
    <3>1. CASE x < 0
      BY <1>1, <1>7, <3>1 DEF Sqrt
    <3>2. CASE ~ (x < 0)
      <4>1. op' = Number /\ res' = 0 /\ one' = Half * Half
        BY <1>7, <3>2 DEF Sqrt, Number
      <4>2. Number \in Nat /\ Number < Half * Half
        BY <2>1, <3>2, HighestBit
      <4> QED BY <1>2, <4>1, <4>2 DEF Promoted
    <3> QED BY <3>1, <3>2
  <2>4. AlignInv' /\ RootInv' /\ (pc' = "done" => x' < 0)
    BY <1>1, <1>7, <2>1, SqrtStep
  <2>5. SqrtIsRoot'
    BY <2>1, <2>4 DEF SqrtIsRoot, Done
  <2> QED BY <2>1, <2>2, <2>3, <2>4, <2>5, SqrtSteps
<1>8. CASE Align
  <2>1. /\ UNCHANGED <<fn, x, y, op, res, ptr, result>> /\ fn = "sqrt" /\ x >= 0
        /\ pc' \in {"align", "root"} /\ (one' = one \/ one' = one \div 4)
    BY <1>1, <1>8 DEF Align, Domain
  <2>2. one' \in Promoted
    BY <1>1, <1>2, <2>1 DEF Promoted
  <2>3. AlignInv' /\ RootInv'
    BY <1>1, <1>8, AlignStep
  <2>4. SqrtIsRoot'
    BY <2>1 DEF SqrtIsRoot, Done
  <2> QED BY <1>1, <2>1, <2>2, <2>3, <2>4, SqrtSteps
<1>9. CASE TryBit
  <2>1. /\ UNCHANGED <<fn, x, y, ptr, result>> /\ fn = "sqrt" /\ x >= 0 /\ pc' = "root"
    BY <1>1, <1>9 DEF TryBit, Domain
  <2>2. op' \in Promoted /\ res' \in Promoted /\ one' \in Promoted
    BY <1>1, <1>2, <1>9 DEF TryBit, Promoted
  <2>3. RootInv' /\ AlignInv'
    BY <1>1, <1>9, <2>1, TryBitStep DEF AlignInv
  <2>4. SqrtIsRoot'
    BY <2>1 DEF SqrtIsRoot, Done
  <2> QED BY <1>1, <2>1, <2>2, <2>3, <2>4, SqrtSteps
<1>10. CASE Root
  <2>1. /\ UNCHANGED <<fn, x, y, op, res, one, ptr>> /\ fn = "sqrt" /\ pc' = "done"
    BY <1>1, <1>10 DEF Root, Return, Domain
  <2>2. AlignInv' /\ RootInv'
    BY <2>1 DEF AlignInv, RootInv
  <2> QED BY <1>1, <1>10, <2>1, <2>2, RootIsRight, SqrtSteps
<1>11. CASE UNCHANGED vars
  BY <1>11 DEF IInv, TypeOK, Domain, AlignInv, RootInv, Trying, RootFound, Number, Results, Done,
               ProductIsFloor, QuotientTruncates, SqrtIsRoot, vars
<1> QED BY <1>3, <1>4, <1>5, <1>6, <1>7, <1>8, <1>9, <1>10, <1>11 DEF Next

----------------------------------------------------------------------------
(* The theorems.                                                           *)

THEOREM FixedPointInvariant == Spec => []IInv
<1>1. IInv /\ [Next]_vars => IInv'
  BY NextIInv
<1> QED BY InitIInv, <1>1, PTL DEF Spec

\* No value leaves its type: the squares and roots fit the promoted type.
THEOREM FixedPointTypeOK == Spec => []TypeOK
<1>1. IInv => TypeOK
  BY DEF IInv
<1> QED BY <1>1, FixedPointInvariant, PTL

\* The square root, for every number of bits and every argument.
THEOREM FixedPointSqrtIsRoot == Spec => []SqrtIsRoot
<1>1. IInv => SqrtIsRoot
  BY DEF IInv, Results
<1> QED BY <1>1, FixedPointInvariant, PTL

\* A product that is representable is the exact one, rounded down.
THEOREM FixedPointProduct == Spec => []ProductIsFloor
<1>1. IInv => ProductIsFloor
  BY DEF IInv, Results
<1> QED BY <1>1, FixedPointInvariant, PTL

\* A quotient that is representable is the exact one, rounded towards zero.
THEOREM FixedPointQuotient == Spec => []QuotientTruncates
<1>1. IInv => QuotientTruncates
  BY DEF IInv, Results
<1> QED BY <1>1, FixedPointInvariant, PTL
=============================================================================
