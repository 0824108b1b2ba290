----------------------------- MODULE FixedPoint -----------------------------
(***************************************************************************)
(* fixed_point<B, I> of the cleartext references: a number is an integer   *)
(* of the base type B, in units of 2^-F.  Products, quotients and roots    *)
(* are computed in the type of twice the width that promote_type names,    *)
(* and narrowed to B again.  One call is run, on any arguments.            *)
(*                                                                         *)
(* The square root is Woo's: op is what is left of the number, res the     *)
(* root found so far, one the square of the bit that is tried.  That errno *)
(* becomes EDOM for a negative number is left out.                         *)
(***************************************************************************)
EXTENDS Integers

CONSTANTS I,        \* integer bits
          Power2,   \* power2<P>::value
          Pi,       \* fixed_point(M_PI).value_
          TwoPi     \* fixed_point(M_PI * 2).value_

\* Both instances, <int64_t, 32> and <int32_t, 16>, have one fraction bit less
\* than integer bits, for the sign.
F == I - 1
Digits == I + F
Half == Power2[Digits]
Raw == -Half .. Half - 1
\* The numbers of the promoted type that are not negative.
Promoted == 0 .. 2 * (Half * Half) - 1

\* M_PI and M_PI * 2 are each rounded to the next number.
ASSUME FixedPointAssumption ==
  /\ I \in Nat \ {0}
  /\ Power2 \in [0 .. 2 * I -> Nat \ {0}]
  /\ Power2[0] = 1
  /\ Power2[1] = 2
  /\ \A m, n \in 0 .. 2 * I : m + n <= 2 * I => Power2[m + n] = Power2[m] * Power2[n]
  /\ Pi \in Nat \ {0}
  /\ TwoPi \in {2 * Pi - 1, 2 * Pi, 2 * Pi + 1}
  /\ TwoPi < Half

VARIABLES
  fn,             \* the function called
  x, y,           \* value_ of its arguments
  pc,
  op, res, one,   \* locals of sqrt
  ptr,            \* what modf stores
  result          \* value_ of what is returned

vars == <<fn, x, y, pc, op, res, one, ptr, result>>

Binary == {"mul", "div"}
Unary == {"reduce", "modf", "sqrt"}

Init ==
  /\ \/ fn \in Binary /\ y \in Raw
     \/ fn \in Unary /\ y = 0
  /\ x \in Raw
  /\ pc = "call"
  /\ op = 0
  /\ res = 0
  /\ one = 0
  /\ ptr = 0
  /\ result = 0

----------------------------------------------------------------------------
\* A conversion to B keeps the low bits.
Narrow(v) == ((v + Half) % (2 * Half)) - Half

Abs(a) == IF a < 0 THEN -a ELSE a
\* Integer division truncates, and the remainder has the sign of the dividend.
Quotient(a, b) ==
  LET q == Abs(a) \div Abs(b) IN IF a < 0 <=> b < 0 THEN q ELSE -q
Remainder(a, b) == a - b * Quotient(a, b)

Return(r) == pc' = "done" /\ result' = r

\* Mutant: the product is computed in B.
MultiplyNarrow ==
  /\ pc = "call" /\ fn = "mul"
  /\ Return(Narrow(x * y) \div Power2[F])
  /\ UNCHANGED <<fn, x, y, op, res, one, ptr>>
\* operator*=; the shift rounds down.
Multiply ==
  /\ pc = "call" /\ fn = "mul"
  /\ Return(Narrow((x * y) \div Power2[F]))
  /\ UNCHANGED <<fn, x, y, op, res, one, ptr>>

\* Mutant: the dividend is shifted in B.
DivideNarrow ==
  /\ pc = "call" /\ fn = "div"
  /\ IF y = 0 THEN pc' = "trapped" /\ result' = result
              ELSE Return(Narrow(Quotient(Narrow(x * Power2[F]), y)))
  /\ UNCHANGED <<fn, x, y, op, res, one, ptr>>
\* operator/=; integer division by zero traps.
Divide ==
  /\ pc = "call" /\ fn = "div"
  /\ IF y = 0 THEN pc' = "trapped" /\ result' = result
              ELSE Return(Narrow(Quotient(x * Power2[F], y)))
  /\ UNCHANGED <<fn, x, y, op, res, one, ptr>>

\* The argument reduction of cos and sin, on fmod.  The remainder of a negative
\* angle is negative, and only the side above pi is turned back: the result is
\* in -Pi .. Pi for the angles from -Pi up.
Reduce ==
  /\ pc = "call" /\ fn = "reduce"
  /\ LET x_ == Remainder(x, TwoPi) IN Return(IF x_ > Pi THEN x_ - TwoPi ELSE x_)
  /\ UNCHANGED <<fn, x, y, op, res, one, ptr>>

\* The masks of modf round a negative number down: the parts of a negative
\* number are not those that add up to it.
Modf ==
  /\ pc = "call" /\ fn = "modf"
  /\ LET fraction == x % Power2[F]
         integer == x - fraction IN
       /\ ptr' = (IF x < 0 THEN integer + Power2[F] ELSE integer)
       /\ Return(IF x < 0 THEN -fraction ELSE fraction)
  /\ UNCHANGED <<fn, x, y, op, res, one>>

\* Mutant: the bits start at the sign of the promoted type.
SqrtAtSign ==
  /\ pc = "call" /\ fn = "sqrt"
  /\ IF x < 0
     THEN Return(0) /\ UNCHANGED <<op, res, one>>
     ELSE /\ pc' = "align"
          /\ op' = x * Power2[I - 1]
          /\ res' = 0
          /\ one' = 2 * Half * Half
          /\ UNCHANGED result
  /\ UNCHANGED <<fn, x, y, ptr>>
\* The highest bit that is tried is the highest even one of the promoted type.
Sqrt ==
  /\ pc = "call" /\ fn = "sqrt"
  /\ IF x < 0
     THEN Return(0) /\ UNCHANGED <<op, res, one>>
     ELSE /\ pc' = "align"
          /\ op' = x * Power2[I - 1]
          /\ res' = 0
          /\ one' = Half * Half
          /\ UNCHANGED result
  /\ UNCHANGED <<fn, x, y, ptr>>

\* Mutant: a bit that is equal to the number is shifted, too.
AlignPast ==
  /\ pc = "align"
  /\ IF one >= op THEN one' = one \div 4 /\ pc' = pc ELSE one' = one /\ pc' = "root"
  /\ UNCHANGED <<fn, x, y, op, res, ptr, result>>
\* while (one > op): the bit is shifted until it is not above the number.
Align ==
  /\ pc = "align"
  /\ IF one > op THEN one' = one \div 4 /\ pc' = pc ELSE one' = one /\ pc' = "root"
  /\ UNCHANGED <<fn, x, y, op, res, ptr, result>>

\* Mutant: a bit is only taken when something is left.
TryBitStrict ==
  /\ pc = "root" /\ one # 0
  /\ IF op > res + one
     THEN op' = op - (res + one) /\ res' = (res + 2 * one) \div 2
     ELSE op' = op /\ res' = res \div 2
  /\ one' = one \div 4
  /\ UNCHANGED <<fn, x, y, pc, ptr, result>>
\* One round of while (one != 0).
TryBit ==
  /\ pc = "root" /\ one # 0
  /\ IF op >= res + one
     THEN op' = op - (res + one) /\ res' = (res + 2 * one) \div 2
     ELSE op' = op /\ res' = res \div 2
  /\ one' = one \div 4
  /\ UNCHANGED <<fn, x, y, pc, ptr, result>>

\* The root is narrowed.
Root ==
  /\ pc = "root" /\ one = 0
  /\ Return(Narrow(res))
  /\ UNCHANGED <<fn, x, y, op, res, one, ptr>>

Next == Multiply \/ Divide \/ Reduce \/ Modf \/ Sqrt \/ Align \/ TryBit \/ Root
Spec == Init /\ [][Next]_vars
\* A function that was called runs.
FairSpec == Spec /\ WF_vars(Next)

----------------------------------------------------------------------------
(* Properties.                                                             *)

Done(f) == fn = f /\ pc = "done"

\* Every argument, result and local that is kept fits its type: B, or the
\* promoted type of sqrt.
TypeOK ==
  /\ fn \in Binary \cup Unary
  /\ pc \in {"call", "align", "root", "done", "trapped"}
  /\ {x, y, ptr, result} \subseteq Raw
  /\ {op, res, one} \subseteq Promoted

\* "if the temporary multiplication result is not kept in a big enough
\* variable, overflow errors will occur": where the product is representable
\* the result is the product, rounded down.
ProductIsFloor ==
  Done("mul") /\ x * y \in -Half * Power2[F] .. Half * Power2[F] - 1
    => x * y \in result * Power2[F] .. (result + 1) * Power2[F] - 1

\* Where the quotient is representable it is rounded towards zero.
QuotientTruncates ==
  Done("div") /\ Abs(x) * Power2[F] < Half * Abs(y)
    => /\ Abs(x) * Power2[F] \in Abs(result * y) .. Abs(result * y) + Abs(y) - 1
       /\ result # 0 => ((result < 0) <=> ((x < 0) # (y < 0)))

\* sqrt returns the root, rounded down: in units of 2^-F, the root of x * 2^F.
SqrtIsRoot ==
  Done("sqrt") /\ x >= 0 =>
    /\ result >= 0
    /\ result * result <= x * Power2[F]
    /\ x * Power2[F] < (result + 1) * (result + 1)

\* Every call returns or traps; the loops of sqrt end for every argument.
Terminates == <>(pc \in {"done", "trapped"})
=============================================================================
