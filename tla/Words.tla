------------------------------- MODULE Words -------------------------------
(***************************************************************************)
(* Two's complement integers of one width, as the machine computes with    *)
(* them (RV32IM): every result is wrapped, division truncates, and         *)
(* dividing by zero has a result.  Half is 2^31 for the real machine; a    *)
(* small power of two leaves every case there is.                          *)
(***************************************************************************)
EXTENDS Integers, FiniteSetsExt

CONSTANT Half  \* one more than the greatest word

ASSUME HalfAssumption == Half \in Nat \ {0, 1}

Word == -Half .. Half - 1

Wrap(n) == ((n + Half) % (2 * Half)) - Half

\* The bits of a word read without a sign.
Unsigned(a) == a % (2 * Half)

\* Division toward zero, as of C++ and of the instructions div and rem.
Quotient(a, b) ==
  IF a >= 0
  THEN IF b > 0 THEN a \div b ELSE -(a \div (-b))
  ELSE IF b > 0 THEN -((-a) \div b) ELSE (-a) \div (-b)

Divide(a, b) == IF b = 0 THEN -1 ELSE Wrap(Quotient(a, b))
Remainder(a, b) == IF b = 0 THEN a ELSE Wrap(a - b * Quotient(a, b))

\* Shifts by k places, given 2^k: to the left, to the right with the sign, and
\* to the right with zeros.
ShiftLeft(a, p) == Wrap(a * p)
ShiftRight(a, p) == a \div p
ShiftRightZeros(a, p) == Wrap(Unsigned(a) \div p)

\* The powers of two a shift amount can stand for: 2^k for k below the width.
Power(k) == 2 ^ k

\* The values bits stand for, the sign's (Half) included: Half is a power of two.
Bits == {p \in 1 .. Half : (2 * Half) % p = 0}

ASSUME WidthAssumption == \A p \in Bits \ {1} : p % 2 = 0

Bit(a, p) == (Unsigned(a) \div p) % 2

\* The words with the bits that both operands have, and that one of them has.
BitAnd(a, b) == CHOOSE n \in Word : \A p \in Bits : Bit(n, p) = Bit(a, p) * Bit(b, p)
BitXor(a, b) == CHOOSE n \in Word : \A p \in Bits : Bit(n, p) = (Bit(a, p) + Bit(b, p)) % 2

Truth(condition) == IF condition THEN 1 ELSE 0

\* The operations on two words that the IR has.
Evaluate(op, a, b) ==
  CASE op = "add" -> Wrap(a + b)
    [] op = "sub" -> Wrap(a - b)
    [] op = "mul" -> Wrap(a * b)
    [] op = "div" -> Divide(a, b)
    [] op = "rem" -> Remainder(a, b)
    [] op = "and" -> BitAnd(a, b)
    [] op = "eq" -> Truth(a = b)
    [] op = "ne" -> Truth(a # b)
    [] op = "lt" -> Truth(a < b)
    [] op = "gt" -> Truth(a > b)
    [] op = "le" -> Truth(a <= b)
    [] op = "ge" -> Truth(a >= b)
=============================================================================
