-------------------------- MODULE SelectionProofs --------------------------
(***************************************************************************)
(* What the code chosen for one instruction leaves alone and what it       *)
(* computes, for words and immediates of any width, any registers and any  *)
(* slots.                                                                  *)
(*                                                                         *)
(* The code is a body that computes the result and, if the result has a    *)
(* slot, the sequence that stores it.  For what is left alone it is enough *)
(* to know which registers the body writes; the store must find its        *)
(* address in t0, which takes up to three instructions to compute.  For    *)
(* what is computed, every sequence is run: sequences without jumps go     *)
(* from a state to one other, their runs are joined end to end, and the    *)
(* invariant says how far along such a run the machine is.                 *)
(***************************************************************************)
EXTENDS Selection, TLAPS, WellFoundedInduction

-----------------------------------------------------------------------------
(* Words of any width. *)

\* What quotient and remainder of the machine's floor division are.
LEMMA DivisionWithRest ==
  ASSUME NEW a \in Int, NEW d \in Nat \ {0}
  PROVE  /\ a \div d \in Int
         /\ a % d \in 0 .. d - 1
         /\ a = d * (a \div d) + (a % d)
OBVIOUS

LEMMA QuotientUnique ==
  ASSUME NEW a \in Int, NEW d \in Nat \ {0}, NEW q \in Int, NEW r \in 0 .. d - 1,
         a = d * q + r
  PROVE  a \div d = q
OBVIOUS

LEMMA WrapIsIdentityOnWords ==
  ASSUME NEW a \in Word
  PROVE  Wrap(a) = a
BY HalfAssumption DEF Wrap, Word

LEMMA WrapIsWord ==
  ASSUME NEW a \in Int
  PROVE  Wrap(a) \in Word
BY HalfAssumption DEF Wrap, Word

LEMMA SignBySmear ==
  ASSUME NEW a \in Word
  PROVE  ShiftRight(a, Half) = IF a < 0 THEN -1 ELSE 0
BY HalfAssumption DEF ShiftRight, Word

LEMMA BiasOfSign ==
  ASSUME NEW d \in Nat, NEW m \in Nat, d > 1, m > 1, d * m = 2 * Half
  PROVE  /\ ShiftRightZeros(-1, m) = d - 1
         /\ ShiftRightZeros(0, m) = 0
<1>1. Unsigned(-1) = m * (d - 1) + (m - 1)
  BY HalfAssumption DEF Unsigned
<1>2. Unsigned(-1) \div m = d - 1
  BY <1>1, QuotientUnique
<1>3. d - 1 \in Word
  BY HalfAssumption DEF Word
<1>4. Unsigned(0) \div m = 0
  BY HalfAssumption DEF Unsigned
<1>5. QED
  BY <1>2, <1>3, <1>4, HalfAssumption, WrapIsIdentityOnWords DEF ShiftRightZeros, Word

\* What is added to the dividend before a division by shifts: d - 1 if it is
\* negative, nothing otherwise.
Bias(a, m) == ShiftRightZeros(ShiftRight(a, Half), m)

LEMMA BiasOf ==
  ASSUME NEW a \in Word,
         NEW d \in Nat, NEW m \in Nat, d > 1, m > 1, d * m = 2 * Half
  PROVE  Bias(a, m) = IF a < 0 THEN d - 1 ELSE 0
BY SignBySmear, BiasOfSign DEF Bias

LEMMA CeilingOfNegative ==
  ASSUME NEW a \in Int, NEW d \in Nat \ {0}
  PROVE  (a + (d - 1)) \div d = -((-a) \div d)
<1> DEFINE q == (-a) \div d
           r == (-a) % d
<1>0. -a \in Int
  OBVIOUS
<1>1. q \in Int /\ r \in 0 .. d - 1 /\ -a = d * q + r
  BY <1>0, DivisionWithRest
<1>2. a + (d - 1) = d * (-q) + (d - 1 - r) /\ d - 1 - r \in 0 .. d - 1 /\ -q \in Int
  BY <1>1
<1> HIDE DEF q, r
<1>3. (a + (d - 1)) \div d = -q
  BY <1>1, <1>2, QuotientUnique
<1>4. QED
  BY <1>3 DEF q

LEMMA QuotientOfWord ==
  ASSUME NEW a \in Word, NEW d \in Nat, d > 1
  PROVE  /\ Quotient(a, d) \in Word
         /\ Quotient(a, d) = IF a < 0 THEN -((-a) \div d) ELSE a \div d
<1>1. ASSUME NEW n \in 0 .. Half
      PROVE  n \div d \in 0 .. Half /\ n \div d < Half
  <2>1. n \div d \in Int /\ n % d \in 0 .. d - 1 /\ n = d * (n \div d) + (n % d)
    BY HalfAssumption, DivisionWithRest
  <2>2. QED
    BY <2>1, HalfAssumption
<1>2. QED
  BY <1>1, HalfAssumption DEF Quotient, Word

\* What the code generator emits for a division by a power of two d: the bias
\* m = 2 * Half \div d below the sign is added to negative dividends, then an
\* arithmetic shift.  It is the division toward zero for every dividend of
\* every width, the smallest one included.
THEOREM DivisionByShifts ==
  ASSUME NEW a \in Word,
         NEW d \in Nat, NEW m \in Nat, d > 1, m > 1, d * m = 2 * Half
  PROVE  ShiftRight(Wrap(a + Bias(a, m)), d) = Divide(a, d)
<1>0. Bias(a, m) = IF a < 0 THEN d - 1 ELSE 0
  BY BiasOf
<1>1. d \in 1 .. Half
  BY HalfAssumption
<1>2. Divide(a, d) = IF a < 0 THEN -((-a) \div d) ELSE a \div d
  BY QuotientOfWord, WrapIsIdentityOnWords DEF Divide
<1>3. CASE a < 0
  <2>1. a + Bias(a, m) = a + (d - 1) /\ a + (d - 1) \in Word
    BY <1>0, <1>1, <1>3, HalfAssumption DEF Word
  <2>2. Wrap(a + Bias(a, m)) = a + (d - 1)
    BY <2>1, WrapIsIdentityOnWords
  <2>3. QED
    BY <1>1, <1>2, <1>3, <2>2, CeilingOfNegative DEF ShiftRight, Word
<1>4. CASE a >= 0
  <2>1. Wrap(a + Bias(a, m)) = a
    BY <1>0, <1>4, WrapIsIdentityOnWords DEF Word
  <2>2. QED
    BY <1>2, <1>4, <2>1 DEF ShiftRight, Word
<1>5. QED
  BY <1>3, <1>4 DEF Word
-----------------------------------------------------------------------------
(* Wrapping drops multiples of 2 * Half, before or after an addition. *)

LEMMA WrapDrops ==
  ASSUME NEW a \in Int
  PROVE  \E k \in Int : a = Wrap(a) + (2 * Half) * k
<1> DEFINE d == 2 * Half
           n == a + Half
<1>1. d \in Nat \ {0} /\ n \in Int
  BY HalfAssumption
<1>2. n \div d \in Int /\ n = d * (n \div d) + (n % d) /\ n % d \in 0 .. d - 1
  BY <1>1, DivisionWithRest
<1>3. Wrap(a) = (n % d) - Half
  BY DEF Wrap
<1> HIDE DEF d
<1>4. a = Wrap(a) + d * (n \div d)
  BY <1>1, <1>2, <1>3, HalfAssumption
<1>5. QED
  BY <1>2, <1>4 DEF d

LEMMA WrapUnique ==
  ASSUME NEW w \in Word, NEW k \in Int
  PROVE  Wrap(w + (2 * Half) * k) = w
<1> DEFINE d == 2 * Half
           n == w + d * k + Half
           r == w + Half
<1>1. d \in Nat \ {0} /\ n \in Int /\ r \in 0 .. d - 1
  BY HalfAssumption DEF Word
<1>2. n = d * k + r
  BY HalfAssumption DEF Word
<1> HIDE DEF d, n, r
<1>3. n \div d = k
  BY <1>1, <1>2, QuotientUnique
<1>4. n = d * (n \div d) + (n % d) /\ n % d \in Int
  BY <1>1, DivisionWithRest
<1>5. n % d = r
  BY <1>1, <1>2, <1>3, <1>4
<1>6. Wrap(w + (2 * Half) * k) = (n % d) - Half
  BY DEF Wrap, n, d
<1>7. QED
  BY <1>5, <1>6, HalfAssumption DEF Word, r

LEMMA WrapCongruent ==
  ASSUME NEW a \in Int, NEW b \in Int, NEW k \in Int, a = b + (2 * Half) * k
  PROVE  Wrap(a) = Wrap(b)
<1>1. PICK j \in Int : b = Wrap(b) + (2 * Half) * j
  BY WrapDrops
<1>2. a = Wrap(b) + (2 * Half) * (j + k) /\ j + k \in Int
  BY <1>1, HalfAssumption, WrapIsWord DEF Word
<1>3. QED
  BY <1>2, WrapIsWord, WrapUnique

LEMMA WrapOfWrapped ==
  ASSUME NEW a \in Int, NEW b \in Int
  PROVE  Wrap(Wrap(a) + b) = Wrap(a + b)
<1>1. PICK k \in Int : a = Wrap(a) + (2 * Half) * k
  BY WrapDrops
<1>2. Wrap(a) \in Int
  BY WrapIsWord, HalfAssumption DEF Word
<1>3. a + b = (Wrap(a) + b) + (2 * Half) * k /\ Wrap(a) + b \in Int
  BY <1>1, <1>2, HalfAssumption
<1>4. QED
  BY <1>3, WrapCongruent

\* Taking back what the quotient stands for by a shift to the left leaves the
\* remainder, also where that product overflows.
THEOREM RemainderByShifts ==
  ASSUME NEW a \in Word, NEW d \in Nat, d > 1
  PROVE  Wrap(a - ShiftLeft(Divide(a, d), d)) = Remainder(a, d)
<1>1. Quotient(a, d) \in Int /\ Divide(a, d) = Quotient(a, d)
  BY QuotientOfWord, WrapIsIdentityOnWords, HalfAssumption DEF Divide, Word
<1> DEFINE q == Quotient(a, d)
<1> HIDE DEF q
<1>2. PICK k \in Int : q * d = Wrap(q * d) + (2 * Half) * k
  BY <1>1, WrapDrops DEF q
<1>3. Wrap(q * d) \in Int /\ a \in Int
  BY <1>1, WrapIsWord, HalfAssumption DEF Word, q
<1>4. a - Wrap(q * d) = (a - d * q) + (2 * Half) * k
  BY <1>1, <1>2, <1>3, HalfAssumption DEF q
<1>5. Wrap(a - Wrap(q * d)) = Wrap(a - d * q)
  BY <1>1, <1>3, <1>4, WrapCongruent DEF q
<1>6. QED
  BY <1>1, <1>5 DEF ShiftLeft, Remainder, q
-----------------------------------------------------------------------------
(* The bits of a word.  A width stands for the numbers it has room for; its  *)
(* bits are its proper divisors, and half of it is the next smaller one.     *)

Widths == {q \in Nat \ {0} : \E k \in Nat : q * k = 2 * Half}

BitOf(p, q) == p \in Nat \ {0} /\ \E j \in Nat : j > 1 /\ p * j = q

Digit(n, p) == (n \div p) % 2

LEMMA BitsAreDivisors ==
  \A p : p \in Bits <=> BitOf(p, 2 * Half)
<1>1. ASSUME NEW p \in Bits PROVE BitOf(p, 2 * Half)
  <2> DEFINE w == 2 * Half
             j == w \div p
  <2>1. p \in Nat \ {0} /\ p <= Half /\ w \in Nat /\ w % p = 0 /\ w >= 2 * p
    BY <1>1, HalfAssumption DEF Bits
  <2> HIDE DEF w
  <2>2. j \in Int /\ w = p * j + (w % p)
    BY <2>1, DivisionWithRest
  <2> HIDE DEF j
  <2>3. w = p * j
    BY <2>1, <2>2
  <2>4. j > 1
    <3>1. j <= 1 => p * j <= p
      BY <2>1, <2>2
    <3>2. QED
      BY <2>1, <2>2, <2>3, <3>1
  <2>5. j \in Nat /\ p * j = 2 * Half
    BY <2>2, <2>3, <2>4 DEF w
  <2>6. QED
    BY <2>1, <2>4, <2>5 DEF BitOf
<1>2. ASSUME NEW p, BitOf(p, 2 * Half) PROVE p \in Bits
  <2> DEFINE w == 2 * Half
  <2>1. PICK j \in Nat : j > 1 /\ p * j = w
    BY <1>2 DEF BitOf
  <2>2. p \in Nat \ {0} /\ w \in Nat
    BY <1>2, HalfAssumption DEF BitOf
  <2> HIDE DEF w
  <2>3. w \div p = j
    BY <2>1, <2>2, QuotientUnique
  <2>4. w = p * (w \div p) + (w % p) /\ w % p \in Int
    BY <2>2, DivisionWithRest
  <2>5. w % p = 0
    BY <2>1, <2>2, <2>3, <2>4
  <2>6. 2 * p <= p * j
    BY <2>1, <2>2
  <2>7. p <= Half
    BY <2>1, <2>2, <2>6, HalfAssumption DEF w
  <2>8. QED
    BY <2>2, <2>5, <2>7, HalfAssumption DEF Bits, w
<1>3. QED
  BY <1>1, <1>2

LEMMA HalfWidth ==
  ASSUME NEW q \in Widths, q # 1
  PROVE  \E h \in Widths : h < q /\ q = 2 * h
<1>1. PICK k \in Nat : q \in Nat \ {0} /\ q * k = 2 * Half
  BY DEF Widths
<1>2. CASE k = 1
  <2>1. q = 2 * Half /\ Half \in Nat \ {0} /\ Half * 2 = 2 * Half /\ 2 \in Nat
    BY <1>1, <1>2, HalfAssumption
  <2>2. Half \in Widths
    BY <2>1 DEF Widths
  <2>3. QED
    BY <2>1, <2>2
<1>3. CASE k > 1
  <2>1. q \in Bits
    BY <1>1, <1>3, BitsAreDivisors DEF BitOf
  <2>2. q % 2 = 0
    BY <2>1, WidthAssumption
  <2> DEFINE h == q \div 2
  <2>3. h \in Int /\ q = 2 * h
    BY <1>1, <2>2
  <2> HIDE DEF h
  <2>4. h \in Nat \ {0} /\ h < q /\ 2 * k \in Nat
    BY <1>1, <2>3
  <2>5. h * (2 * k) = 2 * Half
    BY <1>1, <2>3, <2>4
  <2>6. h \in Widths
    BY <2>4, <2>5 DEF Widths
  <2>7. QED
    BY <2>3, <2>4, <2>6
<1>4. k # 0
  BY <1>1, HalfAssumption
<1>5. QED
  BY <1>1, <1>2, <1>3, <1>4

\* What holds of the width 1 and, if it holds of a width, of its double holds of
\* all of them: there is no smallest one it does not hold of.
LEMMA EveryWidth ==
  ASSUME NEW T \in SUBSET Widths,
         1 \in T,
         \A h \in T : 2 * h \in Widths => 2 * h \in T
  PROVE  Widths = T
<1> DEFINE Less == {ss \in Nat \X Nat : ss[1] < ss[2]}
           Rest == Widths \ T
<1>1. IsWellFoundedOn(Less, Nat)
  BY NatLessThanWellFounded, Zenon DEF OpToRel
<1>2. ASSUME Rest # {} PROVE FALSE
  <2>0. Rest \subseteq Nat
    BY DEF Widths
  <2> HIDE DEF Less
  <2>1. PICK q \in Rest : \A y \in Rest : <<y, q>> \notin Less
    <3> HIDE DEF Rest
    <3>1. QED
      BY <1>1, <1>2, <2>0, WFMin, Zenon
  <2>2. q # 1
    BY <2>1
  <2>3. PICK h \in Widths : h < q /\ q = 2 * h
    BY <2>1, <2>2, HalfWidth
  <2>4. <<h, q>> \in Less
    BY <2>0, <2>1, <2>3 DEF Less, Widths
  <2>5. h \in T
    BY <2>1, <2>3, <2>4
  <2>6. QED
    BY <2>1, <2>3, <2>5
<1>3. QED
  BY <1>2

LEMMA DigitsOfHalf ==
  ASSUME NEW n \in Nat, NEW p \in Nat \ {0}
  PROVE  /\ n \div 2 \in Nat
         /\ n \div (2 * p) = (n \div 2) \div p
         /\ Digit(n, 2 * p) = Digit(n \div 2, p)
<1> DEFINE a == n \div 2
           r == n % 2
           b == a \div p
           s == a % p
<1>1. a \in Nat /\ r \in 0 .. 1 /\ n = 2 * a + r
  OBVIOUS
<1> HIDE DEF a, r
<1>2. b \in Int /\ s \in 0 .. p - 1 /\ a = p * b + s
  BY <1>1, DivisionWithRest
<1> HIDE DEF b, s
<1>3. n = (2 * p) * b + (2 * s + r) /\ 2 * s + r \in 0 .. (2 * p) - 1 /\ 2 * p \in Nat \ {0}
  BY <1>1, <1>2
<1>4. n \div (2 * p) = b
  BY <1>2, <1>3, QuotientUnique
<1>5. QED
  BY <1>1, <1>4 DEF Digit, a, b

LEMMA BitsDoubled ==
  ASSUME NEW p, NEW h \in Nat \ {0}
  PROVE  /\ BitOf(p, h) => BitOf(2 * p, 2 * h)
         /\ p \in Nat \ {0} /\ BitOf(2 * p, 2 * h) => BitOf(p, h)
         /\ BitOf(1, 2 * h)
<1>1. ASSUME BitOf(p, h) PROVE BitOf(2 * p, 2 * h)
  <2>1. PICK j \in Nat : j > 1 /\ p * j = h
    BY <1>1 DEF BitOf
  <2>2. 2 * p \in Nat \ {0} /\ (2 * p) * j = 2 * h
    BY <1>1, <2>1 DEF BitOf
  <2>3. QED
    BY <2>1, <2>2 DEF BitOf
<1>2. ASSUME p \in Nat \ {0}, BitOf(2 * p, 2 * h) PROVE BitOf(p, h)
  <2>1. PICK j \in Nat : j > 1 /\ (2 * p) * j = 2 * h
    BY <1>2 DEF BitOf
  <2>2. p * j = h
    BY <1>2, <2>1
  <2>3. QED
    BY <1>2, <2>1, <2>2 DEF BitOf
<1>3. BitOf(1, 2 * h)
  <2>1. 2 * h \in Nat /\ 2 * h > 1 /\ 1 * (2 * h) = 2 * h
    OBVIOUS
  <2>2. QED
    BY <2>1 DEF BitOf
<1>4. QED
  BY <1>1, <1>2, <1>3

LEMMA BitsAreWidths ==
  ASSUME NEW q \in Widths, NEW p, BitOf(p, q)
  PROVE  p \in Widths
<1>1. PICK j \in Nat, k \in Nat : p \in Nat \ {0} /\ p * j = q /\ q * k = 2 * Half
  BY DEF Widths, BitOf
<1>2. j * k \in Nat /\ p * (j * k) = 2 * Half
  BY <1>1
<1>3. QED
  BY <1>1, <1>2 DEF Widths

LEMMA OneIsWidth == 1 \in Widths /\ 2 * Half \in Widths
<1>1. /\ 1 * (2 * Half) = 2 * Half /\ (2 * Half) * 1 = 2 * Half
      /\ 2 * Half \in Nat \ {0} /\ 1 \in Nat \ {0}
  BY HalfAssumption
<1>2. QED
  BY <1>1 DEF Widths

LEMMA LastDigit ==
  ASSUME NEW n \in Nat
  PROVE  Digit(n, 1) = n % 2 /\ n = 2 * (n \div 2) + (n % 2) /\ n % 2 \in 0 .. 1
BY DEF Digit

\* Numbers with the same bits are the same number.
LEMMA DigitsTell ==
  ASSUME NEW q \in Widths, NEW n \in 0 .. q - 1, NEW m \in 0 .. q - 1, n # m
  PROVE  \E p : BitOf(p, q) /\ Digit(n, p) # Digit(m, p)
<1> DEFINE Told(w) == \A x, y \in 0 .. w - 1 :
                        x # y => \E p : BitOf(p, w) /\ Digit(x, p) # Digit(y, p)
           T == {w \in Widths : Told(w)}
<1>1. 1 \in T
  BY OneIsWidth
<1>2. ASSUME NEW h \in T, 2 * h \in Widths PROVE 2 * h \in T
  <2>1. h \in Nat \ {0} /\ Told(h)
    BY DEF Widths
  <2> SUFFICES ASSUME NEW x \in 0 .. 2 * h - 1, NEW y \in 0 .. 2 * h - 1, x # y
               PROVE  \E p : BitOf(p, 2 * h) /\ Digit(x, p) # Digit(y, p)
    BY <1>2
  <2>2. x \in Nat /\ y \in Nat
    BY <2>1
  <2>3. CASE x % 2 # y % 2
    BY <2>1, <2>2, <2>3, LastDigit, BitsDoubled
  <2>4. CASE x % 2 = y % 2
    <3>1. x \div 2 # y \div 2 /\ x \div 2 \in 0 .. h - 1 /\ y \div 2 \in 0 .. h - 1
      BY <2>1, <2>2, <2>4, LastDigit
    <3>2. PICK p : BitOf(p, h) /\ Digit(x \div 2, p) # Digit(y \div 2, p)
      BY <2>1, <3>1
    <3>3. p \in Nat \ {0}
      BY <3>2 DEF BitOf
    <3>4. BitOf(2 * p, 2 * h) /\ Digit(x, 2 * p) # Digit(y, 2 * p)
      BY <2>1, <2>2, <3>2, <3>3, BitsDoubled, DigitsOfHalf
    <3>5. QED
      BY <3>4
  <2>5. QED
    BY <2>3, <2>4
<1>3. Widths = T
  <2>1. T \in SUBSET Widths
    OBVIOUS
  <2> HIDE DEF T
  <2>2. QED
    BY <1>1, <1>2, <2>1, EveryWidth
<1>4. Told(q)
  BY <1>3
<1>5. QED
  BY <1>4

\* There is a number with any bits.
LEMMA DigitsMake ==
  ASSUME NEW q \in Widths, NEW f \in [Nat -> {0, 1}]
  PROVE  \E n \in 0 .. q - 1 : \A p : BitOf(p, q) => Digit(n, p) = f[p]
<1> DEFINE Made(w) == \A g \in [Nat -> {0, 1}] : \E n \in 0 .. w - 1 :
                        \A p : BitOf(p, w) => Digit(n, p) = g[p]
           T == {w \in Widths : Made(w)}
<1>1. 1 \in T
  <2>1. \A p : ~BitOf(p, 1)
    BY DEF BitOf
  <2>2. QED
    BY <2>1, OneIsWidth
<1>2. ASSUME NEW h \in T, 2 * h \in Widths PROVE 2 * h \in T
  <2>1. h \in Nat \ {0} /\ Made(h)
    BY DEF Widths
  <2> SUFFICES ASSUME NEW g \in [Nat -> {0, 1}]
               PROVE  \E n \in 0 .. 2 * h - 1 : \A p : BitOf(p, 2 * h) => Digit(n, p) = g[p]
    BY <1>2
  <2> DEFINE up == [p \in Nat |-> g[2 * p]]
  <2>2. up \in [Nat -> {0, 1}]
    OBVIOUS
  <2>3. PICK m \in 0 .. h - 1 : \A p : BitOf(p, h) => Digit(m, p) = up[p]
    <3> HIDE DEF up
    <3>1. QED
      BY <2>1, <2>2
  <2> DEFINE n == 2 * m + g[1]
  <2>4. g[1] \in {0, 1} /\ m \in Nat
    BY <2>1
  <2>5. n \in 0 .. 2 * h - 1 /\ n \in Nat /\ n % 2 = g[1] /\ n \div 2 = m
    BY <2>1, <2>3, <2>4
  <2> HIDE DEF n
  <2>6. ASSUME NEW p, BitOf(p, 2 * h) PROVE Digit(n, p) = g[p]
    <3>1. CASE p = 1
      BY <2>5, <3>1, LastDigit
    <3>2. CASE p # 1
      <4>1. p \in Widths
        BY <1>2, <2>6, BitsAreWidths
      <4>2. PICK r \in Widths : p = 2 * r
        BY <3>2, <4>1, HalfWidth
      <4>3. r \in Nat \ {0}
        BY DEF Widths
      <4>4. BitOf(r, h)
        BY <2>1, <2>6, <4>2, <4>3, BitsDoubled
      <4>5. Digit(n, p) = Digit(m, r)
        BY <2>5, <4>2, <4>3, DigitsOfHalf
      <4>6. Digit(m, r) = g[2 * r]
        BY <2>3, <4>3, <4>4
      <4>7. QED
        BY <4>2, <4>5, <4>6
    <3>3. QED
      BY <3>1, <3>2
  <2>7. QED
    BY <2>5, <2>6
<1>3. Widths = T
  <2>1. T \in SUBSET Widths
    OBVIOUS
  <2> HIDE DEF T
  <2>2. QED
    BY <1>1, <1>2, <2>1, EveryWidth
<1>4. Made(q)
  BY <1>3
<1>5. QED
  BY <1>4

LEMMA UnsignedOfWord ==
  ASSUME NEW a \in Word
  PROVE  /\ Unsigned(a) \in 0 .. 2 * Half - 1
         /\ Unsigned(a) = IF a < 0 THEN a + 2 * Half ELSE a
BY HalfAssumption DEF Word, Unsigned

LEMMA WordOfUnsigned ==
  ASSUME NEW u \in 0 .. 2 * Half - 1
  PROVE  \E a \in Word : Unsigned(a) = u
<1> DEFINE a == IF u < Half THEN u ELSE u - 2 * Half
<1>1. a \in Word /\ (a < 0 <=> u >= Half)
  BY HalfAssumption DEF Word
<1>2. Unsigned(a) = u
  <2>1. Unsigned(a) = IF a < 0 THEN a + 2 * Half ELSE a
    BY <1>1, UnsignedOfWord
  <2>2. QED
    BY <1>1, <2>1, HalfAssumption
<1>3. QED
  BY <1>1, <1>2

LEMMA BitIsDigit ==
  ASSUME NEW a \in Word, NEW p \in Bits
  PROVE  Bit(a, p) = Digit(Unsigned(a), p) /\ Bit(a, p) \in {0, 1}
<1>1. Bit(a, p) = Digit(Unsigned(a), p)
  BY DEF Bit, Digit
<1>2. Unsigned(a) \in Int /\ p \in Nat \ {0}
  BY UnsignedOfWord, HalfAssumption DEF Bits
<1>3. Unsigned(a) \div p \in Int
  BY <1>2, DivisionWithRest
<1>4. QED
  BY <1>1, <1>3 DEF Digit

LEMMA SameBitsSameWord ==
  ASSUME NEW a \in Word, NEW b \in Word, \A p \in Bits : Bit(a, p) = Bit(b, p)
  PROVE  a = b
<1>1. ASSUME Unsigned(a) # Unsigned(b) PROVE FALSE
  <2> DEFINE w == 2 * Half
             x == Unsigned(a)
             y == Unsigned(b)
  <2>0. w \in Widths /\ x \in 0 .. w - 1 /\ y \in 0 .. w - 1 /\ x # y
    BY <1>1, OneIsWidth, UnsignedOfWord
  <2> HIDE DEF w, x, y
  <2>1. PICK p : BitOf(p, w) /\ Digit(x, p) # Digit(y, p)
    BY <2>0, DigitsTell
  <2>2. p \in Bits
    BY <2>1, BitsAreDivisors DEF w
  <2>3. QED
    BY <2>1, <2>2, BitIsDigit DEF x, y
<1>2. QED
  BY <1>1, UnsignedOfWord, HalfAssumption DEF Word

LEMMA WordOfBits ==
  ASSUME NEW f \in [Nat -> {0, 1}]
  PROVE  \E n \in Word : \A p \in Bits : Bit(n, p) = f[p]
<1>1. PICK u \in 0 .. 2 * Half - 1 : \A p : BitOf(p, 2 * Half) => Digit(u, p) = f[p]
  BY OneIsWidth, DigitsMake
<1>2. PICK n \in Word : Unsigned(n) = u
  BY WordOfUnsigned
<1>3. QED
  BY <1>1, <1>2, BitIsDigit, BitsAreDivisors

\* The words BitAnd and BitXor choose exist, and are the only ones.
LEMMA BitAndSound ==
  ASSUME NEW a \in Word, NEW b \in Word
  PROVE  /\ BitAnd(a, b) \in Word
         /\ \A p \in Bits : Bit(BitAnd(a, b), p) = Bit(a, p) * Bit(b, p)
<1> DEFINE f == [p \in Nat |-> IF p \in Bits THEN Bit(a, p) * Bit(b, p) ELSE 0]
<1>1. ASSUME NEW p \in Bits PROVE Bit(a, p) * Bit(b, p) \in {0, 1}
  <2>1. Bit(a, p) \in {0, 1} /\ Bit(b, p) \in {0, 1}
    BY BitIsDigit
  <2>2. QED
    BY <2>1
<1>2. f \in [Nat -> {0, 1}] /\ \A p \in Bits : f[p] = Bit(a, p) * Bit(b, p)
  BY <1>1 DEF Bits
<1> HIDE DEF f
<1>3. \E n \in Word : \A p \in Bits : Bit(n, p) = Bit(a, p) * Bit(b, p)
  BY <1>2, WordOfBits
<1>4. QED
  BY <1>3 DEF BitAnd

LEMMA BitXorSound ==
  ASSUME NEW a \in Word, NEW b \in Word
  PROVE  /\ BitXor(a, b) \in Word
         /\ \A p \in Bits : Bit(BitXor(a, b), p) = (Bit(a, p) + Bit(b, p)) % 2
<1> DEFINE f == [p \in Nat |-> IF p \in Bits THEN (Bit(a, p) + Bit(b, p)) % 2 ELSE 0]
<1>1. ASSUME NEW p \in Bits PROVE (Bit(a, p) + Bit(b, p)) % 2 \in {0, 1}
  <2>1. Bit(a, p) \in {0, 1} /\ Bit(b, p) \in {0, 1}
    BY BitIsDigit
  <2>2. QED
    BY <2>1
<1>2. f \in [Nat -> {0, 1}] /\ \A p \in Bits : f[p] = (Bit(a, p) + Bit(b, p)) % 2
  BY <1>1 DEF Bits
<1> HIDE DEF f
<1>3. \E n \in Word : \A p \in Bits : Bit(n, p) = (Bit(a, p) + Bit(b, p)) % 2
  BY <1>2, WordOfBits
<1>4. QED
  BY <1>3 DEF BitXor

LEMMA ZeroHasNoBits ==
  0 \in Word /\ \A p \in Bits : Bit(0, p) = 0
<1>1. 0 \in Word
  BY HalfAssumption DEF Word
<1>2. ASSUME NEW p \in Bits PROVE Bit(0, p) = 0
  <2>1. p \in Nat \ {0} /\ Unsigned(0) = 0
    BY <1>1, UnsignedOfWord DEF Bits
  <2>2. QED
    BY <2>1 DEF Bit
<1>3. QED
  BY <1>1, <1>2

LEMMA BitAndCommutes == \A a, b \in Word : BitAnd(a, b) = BitAnd(b, a)
<1> SUFFICES ASSUME NEW a \in Word, NEW b \in Word PROVE BitAnd(a, b) = BitAnd(b, a)
  OBVIOUS
<1>1. ASSUME NEW p \in Bits PROVE Bit(BitAnd(a, b), p) = Bit(BitAnd(b, a), p)
  <2>1. Bit(a, p) \in {0, 1} /\ Bit(b, p) \in {0, 1}
    BY BitIsDigit
  <2>2. Bit(a, p) * Bit(b, p) = Bit(b, p) * Bit(a, p)
    BY <2>1
  <2>3. QED
    BY <2>2, BitAndSound
<1>2. QED
  BY <1>1, BitAndSound, SameBitsSameWord

\* Comparing with xor: it is 0 of equal words only, and leaves the other word
\* where one of them is 0.
LEMMA XorCompares ==
  ASSUME NEW a \in Word, NEW b \in Word
  PROVE  /\ BitXor(a, b) = 0 <=> a = b
         /\ BitXor(0, a) = a
<1>1. ASSUME NEW p \in Bits
      PROVE  /\ Bit(BitXor(a, b), p) = 0 <=> Bit(a, p) = Bit(b, p)
             /\ Bit(BitXor(0, a), p) = Bit(a, p)
  <2>1. Bit(a, p) \in {0, 1} /\ Bit(b, p) \in {0, 1} /\ Bit(0, p) = 0 /\ 0 \in Word
    BY BitIsDigit, ZeroHasNoBits
  <2>2. /\ Bit(BitXor(a, b), p) = (Bit(a, p) + Bit(b, p)) % 2
        /\ Bit(BitXor(0, a), p) = (Bit(0, p) + Bit(a, p)) % 2
    BY <2>1, BitXorSound
  <2>3. QED
    BY <2>1, <2>2
<1>2. BitXor(a, b) \in Word /\ BitXor(0, a) \in Word
  BY BitXorSound, ZeroHasNoBits
<1>3. ASSUME BitXor(a, b) = 0 PROVE a = b
  BY <1>1, <1>3, ZeroHasNoBits, SameBitsSameWord
<1>4. ASSUME a = b PROVE BitXor(a, b) = 0
  BY <1>1, <1>2, <1>4, ZeroHasNoBits, SameBitsSameWord
<1>5. BitXor(0, a) = a
  BY <1>1, <1>2, SameBitsSameWord
<1>6. QED
  BY <1>3, <1>4, <1>5

\* What flips the truth of a comparison.
LEMMA XorFlips == BitXor(0, 1) = 1 /\ BitXor(1, 1) = 0
<1>1. 1 \in Word
  BY HalfAssumption DEF Word
<1>2. QED
  BY <1>1, XorCompares
-----------------------------------------------------------------------------
(* Divisions that the optimiser replaces when the dividend is not negative. *)

LEMMA WidthsDivide ==
  ASSUME NEW d \in Widths, NEW p \in Widths, p < d
  PROVE  BitOf(p, d)
<1> DEFINE Divided(q) == \A r \in Widths : r < q => BitOf(r, q)
           T == {q \in Widths : Divided(q)}
<1>1. 1 \in T
  BY OneIsWidth DEF Widths
<1>2. ASSUME NEW h \in T, 2 * h \in Widths PROVE 2 * h \in T
  <2>1. h \in Nat \ {0} /\ Divided(h)
    BY DEF Widths
  <2>2. ASSUME NEW r \in Widths, r < 2 * h PROVE BitOf(r, 2 * h)
    <3>1. CASE r = 1
      BY <2>1, <3>1, BitsDoubled
    <3>2. CASE r # 1
      <4>1. PICK s \in Widths : r = 2 * s
        BY <3>2, HalfWidth
      <4>2. s \in Nat \ {0} /\ s < h
        BY <2>1, <2>2, <4>1 DEF Widths
      <4>3. BitOf(s, h)
        BY <2>1, <4>2
      <4>4. QED
        BY <2>1, <4>1, <4>3, BitsDoubled
    <3>3. QED
      BY <3>1, <3>2
  <2>3. QED
    BY <1>2, <2>2
<1>3. Widths = T
  <2>1. T \in SUBSET Widths
    OBVIOUS
  <2> HIDE DEF T
  <2>2. QED
    BY <1>1, <1>2, <2>1, EveryWidth
<1>4. QED
  BY <1>3

LEMMA Parity ==
  ASSUME NEW x \in Int, NEW y \in Int
  PROVE  (2 * x + y) % 2 = y % 2
OBVIOUS

\* A digit below the bit d is the remainder's and is 1 in d - 1; one from there
\* on is 0 in both.
LEMMA DigitsBelow ==
  ASSUME NEW n \in Nat, NEW d \in Widths, NEW p \in Widths
  PROVE  /\ p < d => Digit(n % d, p) = Digit(n, p) /\ Digit(d - 1, p) = 1
         /\ p >= d => Digit(n % d, p) = 0 /\ Digit(d - 1, p) = 0
<1>0. d \in Nat \ {0} /\ p \in Nat \ {0} /\ n \in Int
  BY DEF Widths
<1> DEFINE q == n \div d
           r == n % d
<1>1. q \in Int /\ r \in 0 .. d - 1 /\ n = d * q + r
  BY <1>0, DivisionWithRest
<1> HIDE DEF q, r
<1>2. CASE p < d
  <2>1. PICK j \in Nat : j > 1 /\ p * j = d
    BY <1>2, WidthsDivide DEF BitOf
  <2>2. j \in Widths
    <3>1. PICK k \in Nat : d * k = 2 * Half
      BY DEF Widths
    <3>2. p * k \in Nat /\ j * (p * k) = 2 * Half
      BY <1>0, <2>1, <3>1
    <3>3. QED
      BY <2>1, <3>2 DEF Widths
  <2>3. PICK h \in Widths : j = 2 * h
    BY <2>1, <2>2, HalfWidth
  <2>4. h \in Nat
    BY DEF Widths
  <2> DEFINE a == r \div p
             b == r % p
  <2>5. r \in Int
    BY <1>0, <1>1
  <2>6. a \in Int /\ b \in 0 .. p - 1 /\ r = p * a + b
    BY <1>0, <2>5, DivisionWithRest
  <2> HIDE DEF a, b
  <2>7. n \div p = 2 * (h * q) + a
    <3>1. h * q \in Int
      BY <1>1, <2>4
    <3>2. n = p * (2 * (h * q) + a) + b
      <4>1. d * q = p * (2 * (h * q))
        BY <1>0, <1>1, <2>1, <2>3, <2>4
      <4>2. p * (2 * (h * q) + a) = p * (2 * (h * q)) + p * a
        BY <1>0, <2>6, <3>1
      <4>3. QED
        BY <1>0, <1>1, <2>6, <3>1, <4>1, <4>2
    <3>3. 2 * (h * q) + a \in Int /\ n \in Int
      BY <2>6, <3>1
    <3>4. QED
      BY <1>0, <2>6, <3>2, <3>3, QuotientUnique
  <2>8. Digit(n, p) = a % 2
    <3>1. h * q \in Int
      BY <1>1, <2>4
    <3>2. (2 * (h * q) + a) % 2 = a % 2
      BY <2>6, <3>1, Parity
    <3>3. QED
      BY <2>7, <3>2 DEF Digit
  <2>9. Digit(r, p) = a % 2
    BY DEF Digit, a
  <2>10. (d - 1) \div p = 2 * (h - 1) + 1
    <3>1. d - 1 = p * (2 * (h - 1) + 1) + (p - 1)
      BY <1>0, <2>1, <2>3, <2>4
    <3>2. p - 1 \in 0 .. p - 1 /\ d - 1 \in Int /\ 2 * (h - 1) + 1 \in Int
      BY <1>0, <2>4
    <3>3. QED
      BY <1>0, <3>1, <3>2, QuotientUnique
  <2>11. Digit(d - 1, p) = 1
    <3>1. h - 1 \in Int /\ 1 % 2 = 1
      BY <2>4
    <3>2. (2 * (h - 1) + 1) % 2 = 1
      BY <3>1, Parity
    <3>3. QED
      BY <2>10, <3>2 DEF Digit
  <2>12. QED
    BY <1>0, <1>2, <2>8, <2>9, <2>11 DEF r
<1>3. CASE p >= d
  <2>1. ASSUME NEW m \in 0 .. d - 1 PROVE Digit(m, p) = 0
    <3>1. m \in Int /\ m \in 0 .. p - 1 /\ m = p * 0 + m
      BY <1>0, <1>3
    <3>2. m \div p = 0
      BY <1>0, <3>1, QuotientUnique
    <3>3. QED
      BY <3>2 DEF Digit
  <2>2. d - 1 \in 0 .. d - 1
    BY <1>0
  <2>3. QED
    BY <1>0, <1>1, <1>3, <2>1, <2>2 DEF r
<1>4. QED
  BY <1>0, <1>2, <1>3

\* Of a dividend that is not negative the quotient by a power of two is a shift,
\* and the remainder is what a mask leaves.
THEOREM StrengthReduction ==
  ASSUME NEW a \in Word, a >= 0, NEW d \in Bits, d < Half
  PROVE  /\ ShiftRight(a, d) = Divide(a, d)
         /\ BitAnd(a, d - 1) = Remainder(a, d)
<1>1. d \in Nat \ {0} /\ a \in Nat /\ a \in Int /\ d - 1 \in Word /\ BitOf(d, 2 * Half) /\ d \in Widths
  BY BitsAreDivisors, BitsAreWidths, OneIsWidth, HalfAssumption DEF Bits, Word
<1> DEFINE q == a \div d
           r == a % d
<1>2. q \in Int /\ r \in 0 .. d - 1 /\ a = d * q + r
  BY <1>1, DivisionWithRest
<1>3. q \in 0 .. a /\ r \in 0 .. a
  <2> HIDE DEF q, r
  <2>1. q >= 0
    <3>1. q <= -1 => d * q <= -d
      BY <1>1, <1>2
    <3>2. QED
      BY <1>1, <1>2, <3>1
  <2>2. d * q >= q
    BY <1>1, <1>2, <2>1
  <2>3. QED
    BY <1>1, <1>2, <2>1, <2>2
<1>4. q \in Word /\ r \in Word /\ r \in Nat
  <2> HIDE DEF q, r
  <2>1. QED
    BY <1>1, <1>3, HalfAssumption DEF Word
<1>5. Quotient(a, d) = q
  BY <1>1 DEF Quotient
<1>6. ShiftRight(a, d) = Divide(a, d)
  <2>1. Divide(a, d) = Wrap(q)
    BY <1>1, <1>5 DEF Divide
  <2>2. QED
    BY <1>4, <2>1, WrapIsIdentityOnWords DEF ShiftRight
<1>7. Remainder(a, d) = r
  <2>1. Remainder(a, d) = Wrap(a - d * q)
    BY <1>1, <1>5 DEF Remainder
  <2> HIDE DEF q, r
  <2>2. a - d * q = r
    BY <1>1, <1>2
  <2>3. QED
    BY <1>4, <2>1, <2>2, WrapIsIdentityOnWords
<1>8. BitAnd(a, d - 1) = r
  <2>1. Unsigned(a) = a /\ Unsigned(d - 1) = d - 1 /\ Unsigned(r) = r
    <3> HIDE DEF r
    <3>1. QED
      BY <1>1, <1>4, UnsignedOfWord
  <2>2. ASSUME NEW p \in Bits PROVE Bit(r, p) = Bit(a, p) * Bit(d - 1, p)
    <3>1. p \in Widths /\ p \in Nat
      BY BitsAreDivisors, BitsAreWidths, OneIsWidth DEF Bits
    <3>2. Bit(r, p) = Digit(r, p) /\ Bit(a, p) = Digit(a, p) /\ Bit(d - 1, p) = Digit(d - 1, p)
      BY <1>1, <1>4, <2>1, BitIsDigit
    <3>3. Bit(a, p) \in {0, 1}
      BY BitIsDigit
    <3>4. CASE p < d
      BY <1>1, <3>1, <3>2, <3>3, <3>4, DigitsBelow
    <3>5. CASE p >= d
      BY <1>1, <3>1, <3>2, <3>3, <3>5, DigitsBelow
    <3>6. QED
      BY <1>1, <3>1, <3>4, <3>5
  <2> HIDE DEF r
  <2>3. \A p \in Bits : Bit(r, p) = Bit(BitAnd(a, d - 1), p)
    BY <1>1, <2>2, BitAndSound
  <2>4. QED
    BY <1>1, <1>4, <2>3, BitAndSound, SameBitsSameWord
<1>9. QED
  BY <1>6, <1>7, <1>8

-----------------------------------------------------------------------------
(* Code that leaves things alone. *)

RegisterOps == {"add", "sub", "mul", "div", "rem", "and", "xor", "slt", "sltu"}
ImmediateOps == {"addi", "andi", "xori", "sltiu", "slli", "srai", "srli", "lui"}
Writing == RegisterOps \cup ImmediateOps \cup {"lw"}

Elements(s) == {s[k] : k \in DOMAIN s}

\* Code that stores nothing and writes only the registers D.
Quiet(s, D) ==
  /\ s \in Seq(Elements(s))
  /\ \A i \in Elements(s) : i.op # "sw" /\ (i.op \in Writing => i.rd \in D)

LEMMA SequenceOfElements ==
  ASSUME NEW A, NEW s \in Seq(A)
  PROVE  s \in Seq(Elements(s))
<1>1. Len(s) \in Nat /\ DOMAIN s = 1 .. Len(s)
  OBVIOUS
<1>2. s = [k \in 1 .. Len(s) |-> s[k]]
  OBVIOUS
<1>3. \A k \in 1 .. Len(s) : s[k] \in Elements(s)
  BY <1>1 DEF Elements
<1> DEFINE E == Elements(s)
           n == Len(s)
<1>4. n \in Nat /\ s = [k \in 1 .. n |-> s[k]] /\ \A k \in 1 .. n : s[k] \in E
  BY <1>1, <1>2, <1>3
<1> HIDE DEF E, n
<1>5. s \in Seq(E)
  BY <1>4
<1>6. QED
  BY <1>5 DEF E

LEMMA QuietEmpty == ASSUME NEW D PROVE Quiet(<< >>, D)
BY DEF Quiet, Elements

LEMMA QuietOne ==
  ASSUME NEW i, NEW D, i.op # "sw", i.op \in Writing => i.rd \in D
  PROVE  Quiet(<<i>>, D)
<1>1. Elements(<<i>>) = {i}
  BY DEF Elements
<1>2. QED
  BY <1>1 DEF Quiet

LEMMA QuietAppended ==
  ASSUME NEW s, NEW t, NEW D, Quiet(s, D), Quiet(t, D)
  PROVE  Quiet(s \o t, D)
<1>1. s \in Seq(Elements(s)) /\ t \in Seq(Elements(t))
  BY DEF Quiet
<1>2. s \o t \in Seq(Elements(s) \cup Elements(t))
  BY <1>1
<1>3. Elements(s \o t) \subseteq Elements(s) \cup Elements(t)
  BY <1>2 DEF Elements
<1>4. s \o t \in Seq(Elements(s \o t))
  BY <1>2, SequenceOfElements
<1>5. QED
  BY <1>3, <1>4 DEF Quiet

LEMMA QuietInstructions ==
  ASSUME NEW D, NEW rd \in D, NEW rs, NEW rt, NEW imm, NEW to
  PROVE  /\ \A op \in RegisterOps : Quiet(RR(op, rd, rs, rt), D)
         /\ \A op \in ImmediateOps \cup {"lw"} : Quiet(RI(op, rd, rs, imm), D)
         /\ \A op \in {"beq", "bne", "blt", "bge", "j"} : Quiet(Branch(op, rs, rt, to), D)
<1>1. ASSUME NEW op \in RegisterOps
      PROVE  Quiet(RR(op, rd, rs, rt), D)
  <2> DEFINE i == [op |-> op, rd |-> rd, rs |-> rs, rt |-> rt, imm |-> 0]
  <2>1. i.op # "sw" /\ i.rd \in D
    BY DEF RegisterOps
  <2> HIDE DEF i
  <2>2. Quiet(<<i>>, D)
    BY <2>1, QuietOne
  <2>3. QED
    BY <2>2 DEF RR, i
<1>2. ASSUME NEW op \in ImmediateOps \cup {"lw"}
      PROVE  Quiet(RI(op, rd, rs, imm), D)
  <2> DEFINE i == [op |-> op, rd |-> rd, rs |-> rs, rt |-> "zero", imm |-> imm]
  <2>1. i.op # "sw" /\ i.rd \in D
    BY DEF ImmediateOps
  <2> HIDE DEF i
  <2>2. Quiet(<<i>>, D)
    BY <2>1, QuietOne
  <2>3. QED
    BY <2>2 DEF RI, i
<1>3. ASSUME NEW op \in {"beq", "bne", "blt", "bge", "j"}
      PROVE  Quiet(Branch(op, rs, rt, to), D)
  <2> DEFINE i == [op |-> op, rs |-> rs, rt |-> rt, to |-> to]
  <2>1. i.op # "sw" /\ i.op \notin Writing
    BY DEF Writing, RegisterOps, ImmediateOps
  <2> HIDE DEF i
  <2>2. Quiet(<<i>>, D)
    BY <2>1, QuietOne
  <2>3. QED
    BY <2>2 DEF Branch, i
<1>4. QED
  BY <1>1, <1>2, <1>3
LEMMA QuietMoves ==
  ASSUME NEW D, NEW rd \in D, NEW rs, NEW imm
  PROVE  /\ Quiet(Addi(rd, rs, imm), D)
         /\ Quiet(Copy(rd, rs), D)
         /\ Quiet(Materialize(imm, rd), D)
<1>1. Quiet(RI("addi", rd, rs, imm), D) /\ Quiet(RR("add", rd, rs, "zero"), D)
  BY QuietInstructions DEF RegisterOps, ImmediateOps
<1>2. Quiet(Addi(rd, rs, imm), D) /\ Quiet(Copy(rd, rs), D)
  BY <1>1, QuietEmpty DEF Addi, Copy
<1>3. CASE FitsImm(imm)
  <2>1. Quiet(Addi(rd, "zero", imm), D)
    BY QuietEmpty, QuietInstructions DEF Addi, ImmediateOps
  <2>2. QED
    BY <1>2, <1>3, <2>1 DEF Materialize
<1>4. CASE ~FitsImm(imm)
  <2> DEFINE hi == (imm + ImmHalf) \div Page
             lo == imm - hi * Page
             upper == RI("lui", rd, "zero", hi % ((2 * Half) \div Page))
             lower == IF lo = 0 THEN << >> ELSE RI("addi", rd, rd, lo)
  <2>1. Quiet(upper, D) /\ Quiet(lower, D)
    BY QuietEmpty, QuietInstructions DEF ImmediateOps
  <2>2. Materialize(imm, rd) = upper \o lower
    BY <1>4 DEF Materialize
  <2> HIDE DEF upper, lower
  <2>3. QED
    BY <1>2, <2>1, <2>2, QuietAppended
<1>5. QED
  BY <1>3, <1>4

LEMMA QuietAddImm ==
  ASSUME NEW D, NEW rd \in D, NEW scratch \in D, NEW rs, NEW imm
  PROVE  Quiet(AddImm(rd, rs, imm, scratch), D)
<1>1. Quiet(RR("add", rd, rs, scratch), D)
  BY QuietInstructions DEF RegisterOps
<1>2. QED
  BY <1>1, QuietMoves, QuietAppended DEF AddImm

\* Bringing an operand writes at most the scratch register it is brought to.
LEMMA QuietBring ==
  ASSUME NEW D, NEW scratch \in D, NEW v, v.kind \in {"reg", "slot", "const"}
  PROVE  Quiet(Bring(v, scratch), D)
<1>1. Quiet(LoadFrom(scratch, v.n), D)
  <2>1. Quiet(RI("lw", scratch, "sp", v.n), D) /\ Quiet(RI("lw", scratch, scratch, 0), D)
    BY QuietInstructions DEF ImmediateOps
  <2>2. QED
    BY <2>1, QuietAddImm, QuietAppended DEF LoadFrom
<1>2. Quiet(Materialize(v.n, scratch), D)
  BY QuietMoves
<1>3. QED
  BY <1>1, <1>2, QuietEmpty DEF Bring

LEMMA QuietDivision ==
  ASSUME NEW D, NEW rd \in D, "t1" \in D, NEW op, NEW source, NEW d
  PROVE  Quiet(DivisionByPower(op, source, d, rd), D)
<1> DEFINE sign == RI("srai", "t1", source, Half)
           bias == RI("srli", "t1", "t1", (2 * Half) \div d)
           sum == RR("add", "t1", source, "t1")
           quotient == RI("srai", "t1", "t1", d)
           back == RI("slli", "t1", "t1", d)
           rest == RR("sub", rd, source, "t1")
           last == IF op = "div" THEN Copy(rd, "t1") ELSE back \o rest
<1>1. /\ Quiet(sign, D) /\ Quiet(bias, D) /\ Quiet(sum, D)
      /\ Quiet(quotient, D) /\ Quiet(back, D) /\ Quiet(rest, D)
  BY QuietInstructions DEF RegisterOps, ImmediateOps
<1>2. DivisionByPower(op, source, d, rd) = sign \o bias \o sum \o quotient \o last
  BY DEF DivisionByPower
<1> HIDE DEF sign, bias, sum, quotient, back, rest
<1>3. Quiet(last, D)
  BY <1>1, QuietMoves, QuietAppended
<1> HIDE DEF last
<1>4. QED
  BY <1>1, <1>2, <1>3, QuietAppended
Operand(v) == v.kind \in {"reg", "slot", "const"}

LEMMA QuietBinary ==
  ASSUME NEW D, NEW rd \in D, Scratch \subseteq D,
         NEW op \in {"add", "sub", "mul", "div", "rem", "and"},
         NEW a, Operand(a), NEW b, Operand(b)
  PROVE  Quiet(LowerBinary(op, a, b, rd), D)
<1> DEFINE forms == ImmediateForms(op, a, b)
           form == CHOOSE f \in forms : TRUE
           emit(v) == IF form.op = "addi" THEN Addi(rd, v, form.imm)
                      ELSE RI("andi", rd, v, form.imm)
<1>0. "t0" \in D /\ "t1" \in D
  BY DEF Scratch
<1>1. CASE op \in {"div", "rem"} /\ IsPower(b)
  <2>1. Quiet(Bring(a, "t0"), D)
    BY <1>0, QuietBring DEF Operand
  <2>2. Quiet(DivisionByPower(op, Chosen(a, "t0"), b.n, rd), D)
    BY <1>0, QuietDivision
  <2>3. QED
    BY <1>1, <2>1, <2>2, QuietAppended DEF LowerBinary
<1>2. CASE ~(op \in {"div", "rem"} /\ IsPower(b)) /\ forms # {}
  <2>1. \A f \in forms : f.of \in {a, b}
    BY DEF ImmediateForms
  <2>2. form \in forms
    BY <1>2
  <2>3. Operand(form.of)
    BY <2>1, <2>2
  <2>4. Quiet(emit(Chosen(form.of, "t0")), D)
    BY QuietMoves, QuietInstructions DEF ImmediateOps
  <2>5. LowerBinary(op, a, b, rd) = Bring(form.of, "t0") \o emit(Chosen(form.of, "t0"))
    BY <1>2 DEF LowerBinary
  <2> HIDE DEF form, emit, forms
  <2>6. Quiet(Bring(form.of, "t0"), D)
    BY <1>0, <2>3, QuietBring DEF Operand
  <2>7. QED
    BY <2>4, <2>5, <2>6, QuietAppended
<1>3. CASE ~(op \in {"div", "rem"} /\ IsPower(b)) /\ forms = {}
  <2>1. LowerBinary(op, a, b, rd) = TwoRegisters(op, rd, a, b)
    BY <1>3 DEF LowerBinary
  <2>2. Quiet(Bring(a, "t0"), D) /\ Quiet(Bring(b, "t1"), D)
    BY <1>0, QuietBring DEF Operand
  <2>3. Quiet(RR(op, rd, Chosen(a, "t0"), Chosen(b, "t1")), D)
    BY QuietInstructions DEF RegisterOps
  <2>4. QED
    BY <2>1, <2>2, <2>3, QuietAppended DEF TwoRegisters
<1>4. QED
  BY <1>1, <1>2, <1>3

LEMMA QuietShift ==
  ASSUME NEW D, NEW rd \in D, Scratch \subseteq D, NEW op, NEW a, Operand(a), NEW amount
  PROVE  Quiet(LowerShift(op, a, amount, rd), D)
<1>1. Quiet(Bring(a, "t0"), D)
  BY QuietBring DEF Operand, Scratch
<1>2. Quiet(RI(IF op = "shl" THEN "slli" ELSE "srai", rd, Chosen(a, "t0"), Power(amount)), D)
  BY QuietInstructions DEF ImmediateOps
<1>3. QED
  BY <1>1, <1>2, QuietAppended DEF LowerShift

LEMMA QuietIcmp ==
  ASSUME NEW D, NEW rd \in D, Scratch \subseteq D, NEW op \in Comparisons,
         NEW a, Operand(a), NEW b, Operand(b)
  PROVE  Quiet(LowerIcmp(op, a, b, rd), D)
<1> DEFINE l == Chosen(a, "t0")
           r == Chosen(b, "t1")
           Slt(x, y) == RR("slt", rd, x, y)
           Flip == RI("xori", rd, rd, 1)
           Xor == RR("xor", rd, l, r)
           IsZero == RI("sltiu", rd, rd, 1)
           IsNonZero == RR("sltu", rd, "zero", rd)
           test == CASE op = "lt" -> Slt(l, r)
                     [] op = "gt" -> Slt(r, l)
                     [] op = "le" -> Slt(r, l) \o Flip
                     [] op = "ge" -> Slt(l, r) \o Flip
                     [] op = "eq" -> Xor \o IsZero
                     [] op = "ne" -> Xor \o IsNonZero
<1>1. Quiet(Bring(a, "t0"), D) /\ Quiet(Bring(b, "t1"), D)
  BY QuietBring DEF Operand, Scratch
<1>2. /\ Quiet(Slt(l, r), D) /\ Quiet(Slt(r, l), D) /\ Quiet(Flip, D)
      /\ Quiet(Xor, D) /\ Quiet(IsZero, D) /\ Quiet(IsNonZero, D)
  BY QuietInstructions DEF RegisterOps, ImmediateOps
<1>3. LowerIcmp(op, a, b, rd) = Bring(a, "t0") \o Bring(b, "t1") \o test
  BY DEF LowerIcmp
<1> HIDE DEF Slt, Flip, Xor, IsZero, IsNonZero
<1>4. /\ Quiet(Slt(r, l) \o Flip, D) /\ Quiet(Slt(l, r) \o Flip, D)
      /\ Quiet(Xor \o IsZero, D) /\ Quiet(Xor \o IsNonZero, D)
  BY <1>2, QuietAppended
<1>5. Quiet(test, D)
  BY <1>2, <1>4 DEF Comparisons
<1> HIDE DEF test
<1>6. QED
  BY <1>1, <1>3, <1>5, QuietAppended

LEMMA QuietBranch ==
  ASSUME NEW D, Scratch \subseteq D, NEW op \in Comparisons, NEW l, NEW r,
         NEW branch \in {"then", "else", "apart"}
  PROVE  Quiet(BranchOn(op, l, r, branch), D)
<1>1. ASSUME NEW mnemonic \in {"beq", "bne", "blt", "bge", "j"}, NEW rs, NEW rt, NEW to
      PROVE  Quiet(Branch(mnemonic, rs, rt, to), D)
  BY QuietInstructions, "t0" \in D DEF Scratch
<1>2. ASSUME NEW to
      PROVE  Quiet(Holds(op, l, r, to), D) /\ Quiet(Fails(op, l, r, to), D)
  BY <1>1 DEF Holds, Fails, Comparisons
<1>3. QED
  BY <1>1, <1>2, QuietAppended DEF BranchOn
\* The registers the code of an instruction may write, and how it ends.
Touched(i) ==
  Scratch \cup (IF i.branch = "none" /\ i.res.kind = "reg" THEN {i.res.reg} ELSE {})
Store(i) == IF i.branch = "none" THEN Spill(i.res) ELSE << >>

LEMMA CodeOf ==
  ASSUME NEW i \in Instructions
  PROVE  \E body : Quiet(body, Touched(i)) /\ Lowered(i) = body \o Store(i)
<1> DEFINE a == i.args[1]
           b == i.args[2]
           rd == Destination(i.res)
           D == Touched(i)
<1>1. Scratch \subseteq D
  BY DEF Touched
<1>2. Operand(a) /\ (i.op \notin {"shl", "shr", "neg", "test"} => Operand(b))
  <2>1. \A k \in DOMAIN i.args : Operand(i.args[k])
    BY InstructionsFormed DEF Operand, InReg, InSlot, Number
  <2>2. 1 \in DOMAIN i.args /\ (i.op \notin {"shl", "shr", "neg", "test"} => 2 \in DOMAIN i.args)
    BY InstructionsFormed
  <2>3. QED
    BY <2>1, <2>2
<1>3. CASE i.branch = "none"
  <2>1. rd \in D
    BY <1>3, InstructionsFormed DEF Destination, Touched, InReg, InSlot, Scratch
  <2>2. i.op # "test"
    BY <1>3, InstructionsFormed
  <2>3. CASE i.op \in {"add", "sub", "mul", "div", "rem", "and"}
    <3>1. Lowered(i) = LowerBinary(i.op, a, b, rd) \o Store(i)
      BY <1>3, <2>3 DEF Lowered, Store, Comparisons
    <3>2. QED
      BY <1>1, <1>2, <2>1, <2>3, <3>1, QuietBinary
  <2>4. CASE i.op \in {"shl", "shr"}
    <3>1. Lowered(i) = LowerShift(i.op, a, i.amount, rd) \o Store(i)
      BY <1>3, <2>4 DEF Lowered, Store, Comparisons
    <3>2. QED
      BY <1>1, <1>2, <2>1, <2>4, <3>1, QuietShift
  <2>5. CASE i.op = "neg"
    <3> DEFINE bring == Bring(a, "t0")
               negate == RR("sub", rd, "zero", Chosen(a, "t0"))
    <3>1. Lowered(i) = (bring \o negate) \o Store(i)
      BY <1>3, <2>5 DEF Lowered, Store, Comparisons
    <3>2. Quiet(bring, D)
      BY <1>1, <1>2, QuietBring DEF Operand, Scratch
    <3>3. Quiet(negate, D)
      BY <2>1, QuietInstructions DEF RegisterOps
    <3>4. Quiet(bring \o negate, D)
      BY <3>2, <3>3, QuietAppended
    <3>5. QED
      BY <3>1, <3>4
  <2>6. CASE i.op \in Comparisons
    <3>1. Lowered(i) = LowerIcmp(i.op, a, b, rd) \o Store(i)
      BY <1>3, <2>6 DEF Lowered, Store, Comparisons
    <3>2. QED
      BY <1>1, <1>2, <2>1, <2>6, <3>1, QuietIcmp DEF Comparisons
  <2>7. QED
    BY <2>2, <2>3, <2>4, <2>5, <2>6, InstructionsFormed DEF Comparisons
<1>4. CASE i.branch # "none"
  <2>0. i.branch \in {"then", "else", "apart"} /\ i.op \in Comparisons \cup {"test"}
    BY <1>4, InstructionsFormed DEF Comparisons
  <2>1. CASE i.op \in Comparisons
    <3> DEFINE branch == BranchOn(i.op, Chosen(a, "t0"), Chosen(b, "t1"), i.branch)
               bringA == Bring(a, "t0")
               bringB == Bring(b, "t1")
    <3>1. Lowered(i) = (bringA \o bringB) \o branch
      BY <1>4, <2>1 DEF Lowered, LowerCompareBranch, Comparisons
    <3>2. Quiet(bringA, D) /\ Quiet(bringB, D)
      BY <1>1, <1>2, <2>1, QuietBring DEF Operand, Scratch, Comparisons
    <3>3. Quiet(branch, D)
      BY <1>1, <2>0, <2>1, QuietBranch
    <3> HIDE DEF branch, bringA, bringB
    <3>4. Quiet(Lowered(i), D)
      BY <3>1, <3>2, <3>3, QuietAppended
    <3>5. Lowered(i) = Lowered(i) \o Store(i)
      BY <1>4, <3>4 DEF Quiet, Store
    <3>6. QED
      BY <3>4, <3>5
  <2>2. CASE i.op = "test"
    <3> DEFINE branch == BranchOn("ne", Chosen(a, "t0"), "zero", i.branch)
               bring == Bring(a, "t0")
    <3>1. Lowered(i) = bring \o branch
      BY <1>4, <2>2 DEF Lowered, LowerCondBr, Comparisons
    <3>2. Quiet(bring, D)
      BY <1>1, <1>2, QuietBring DEF Operand, Scratch
    <3>3. Quiet(branch, D)
      BY <1>1, <2>0, QuietBranch DEF Comparisons
    <3> HIDE DEF branch, bring
    <3>4. Quiet(Lowered(i), D)
      BY <3>1, <3>2, <3>3, QuietAppended
    <3>5. Lowered(i) = Lowered(i) \o Store(i)
      BY <1>4, <3>4 DEF Quiet, Store
    <3>6. QED
      BY <3>4, <3>5
  <2>3. QED
    BY <2>0, <2>1, <2>2
<1>5. QED
  BY <1>3, <1>4
-----------------------------------------------------------------------------
(* The end of the code: the result is stored. *)

IsSequence(s) == s \in Seq(Elements(s))

LEMMA OneMore ==
  ASSUME NEW s, IsSequence(s), NEW x
  PROVE  /\ IsSequence(s \o <<x>>)
         /\ Len(s) \in Nat
         /\ Len(s \o <<x>>) = Len(s) + 1
         /\ (s \o <<x>>)[Len(s) + 1] = x
         /\ \A k \in 1 .. Len(s) : (s \o <<x>>)[k] = s[k]
<1>1. s \in Seq(Elements(s) \cup {x}) /\ <<x>> \in Seq(Elements(s) \cup {x})
  BY DEF IsSequence
<1>2. s \o <<x>> \in Seq(Elements(s) \cup {x})
  BY <1>1
<1>3. IsSequence(s \o <<x>>)
  BY <1>2, SequenceOfElements DEF IsSequence
<1>4. QED
  BY <1>1, <1>3

\* What t is if it is s and then x.
Extension(t, s, x) ==
  /\ IsSequence(t) /\ Len(s) \in Nat /\ Len(t) = Len(s) + 1 /\ t[Len(t)] = x
  /\ Len(s) > 0 => t[Len(t) - 1] = s[Len(s)]
  /\ Len(s) > 1 => t[Len(t) - 2] = s[Len(s) - 1]
  /\ Len(s) > 2 => t[Len(t) - 3] = s[Len(s) - 2]
  /\ \A k \in 1 .. Len(t) - 1 : t[k] = s[k]

LEMMA OneMoreExtends ==
  ASSUME NEW s, IsSequence(s), NEW x
  PROVE  Extension(s \o <<x>>, s, x)
<1> DEFINE t == s \o <<x>>
<1>1. /\ IsSequence(t) /\ Len(s) \in Nat /\ Len(t) = Len(s) + 1 /\ t[Len(s) + 1] = x
      /\ \A k \in 1 .. Len(s) : t[k] = s[k]
  BY OneMore
<1> HIDE DEF t
<1>2. Extension(t, s, x)
  BY <1>1 DEF Extension
<1>3. QED
  BY <1>2 DEF t

LEMMA OneMoreBy ==
  ASSUME NEW s, IsSequence(s), NEW x, NEW t, t = s \o <<x>>
  PROVE  Extension(t, s, x)
BY OneMoreExtends

\* Code without stores, and one more instruction.
Storeless(s) == IsSequence(s) /\ \A k \in 1 .. Len(s) : s[k].op # "sw"

LEMMA StorelessGrows ==
  ASSUME NEW s, Storeless(s), NEW x, x.op # "sw", NEW t, t = s \o <<x>>
  PROVE  Storeless(t)
<1>0. Extension(t, s, x)
  BY OneMoreExtends DEF Storeless
<1>1. /\ IsSequence(t) /\ Len(s) \in Nat /\ Len(t) = Len(s) + 1 /\ t[Len(t)] = x
      /\ \A k \in 1 .. Len(t) - 1 : t[k] = s[k]
  BY <1>0 DEF Extension
<1>2. ASSUME NEW k \in 1 .. Len(t) PROVE t[k].op # "sw"
  <2>1. CASE k = Len(t)
    BY <1>1, <2>1
  <2>2. CASE k \in 1 .. Len(t) - 1
    BY <1>1, <2>2 DEF Storeless
  <2>3. QED
    BY <1>1, <2>1, <2>2
<1>3. QED
  BY <1>1, <1>2 DEF Storeless

LEMMA Regrouped ==
  ASSUME NEW s, IsSequence(s), NEW t, IsSequence(t), NEW u, IsSequence(u)
  PROVE  s \o (t \o u) = (s \o t) \o u
<1> DEFINE A == Elements(s) \cup Elements(t) \cup Elements(u)
<1>1. s \in Seq(A) /\ t \in Seq(A) /\ u \in Seq(A)
  BY DEF IsSequence
<1> HIDE DEF A
<1>2. QED
  BY <1>1

LEMMA JoinedIsSequence ==
  ASSUME NEW s, IsSequence(s), NEW t, IsSequence(t)
  PROVE  IsSequence(s \o t)
<1> DEFINE A == Elements(s) \cup Elements(t)
           c == s \o t
<1>1. s \in Seq(A) /\ t \in Seq(A)
  BY DEF IsSequence
<1> HIDE DEF A
<1>2. c \in Seq(A)
  BY <1>1
<1> HIDE DEF c
<1>3. c \in Seq(Elements(c))
  BY <1>2 DEF Elements
<1>4. QED
  BY <1>3 DEF c, IsSequence

\* Concatenation by a name of its own, for steps that only regroup.
Join(s, t) == s \o t

LEMMA JoinRegroups ==
  ASSUME NEW s, IsSequence(s), NEW t, IsSequence(t), NEW u, IsSequence(u)
  PROVE  Join(s, Join(t, u)) = Join(Join(s, t), u) /\ IsSequence(Join(t, u))
<1>1. s \o (t \o u) = (s \o t) \o u
  BY Regrouped
<1>2. IsSequence(t \o u)
  BY JoinedIsSequence
<1>3. QED
  BY <1>1, <1>2 DEF Join

LEMMA JoinRegroupsFour ==
  ASSUME NEW s, IsSequence(s), NEW t, IsSequence(t), NEW u, IsSequence(u), NEW v, IsSequence(v)
  PROVE  Join(s, Join(Join(t, u), v)) = Join(Join(Join(s, t), u), v)
<1>1. IsSequence(Join(t, u)) /\ Join(s, Join(t, u)) = Join(Join(s, t), u)
  BY JoinRegroups
<1>2. Join(s, Join(Join(t, u), v)) = Join(Join(s, Join(t, u)), v)
  BY <1>1, JoinRegroups
<1>3. QED
  BY <1>1, <1>2

LEMMA JoinRegroupsFive ==
  ASSUME NEW s, IsSequence(s), NEW t, IsSequence(t), NEW u, IsSequence(u), NEW v, IsSequence(v),
         NEW w, IsSequence(w)
  PROVE  Join(s, Join(Join(Join(t, u), v), w)) = Join(Join(Join(Join(s, t), u), v), w)
<1>1. IsSequence(Join(t, u)) /\ Join(s, Join(t, u)) = Join(Join(s, t), u)
  BY JoinRegroups
<1>2. Join(s, Join(Join(Join(t, u), v), w)) = Join(Join(Join(s, Join(t, u)), v), w)
  BY <1>1, JoinRegroupsFour
<1>3. QED
  BY <1>1, <1>2

\* The parts materialize_i32 splits a number into.
HighPart(n) == (n + ImmHalf) \div Page
LowPart(n) == n - HighPart(n) * Page
Upper(n) == Wrap((HighPart(n) % ((2 * Half) \div Page)) * Page)

LEMMA PartsRecombine ==
  ASSUME NEW n \in Word
  PROVE  /\ HighPart(n) \in Int /\ LowPart(n) \in Int
         /\ Upper(n) \in Word
         /\ Wrap(Upper(n) + LowPart(n)) = n
         /\ LowPart(n) = 0 => Upper(n) = n
<1> DEFINE h == HighPart(n)
           m == LowPart(n)
           p == (2 * Half) \div Page
           r == h % p
<1>0. Page \in Nat \ {0} /\ n \in Int /\ ImmHalf \in Int
  BY ImmediateAssumption, HalfAssumption DEF Page, Word
<1>1. h \in Int /\ m \in Int /\ n = h * Page + m
  BY <1>0 DEF HighPart, LowPart
<1>2. p \in Nat \ {0} /\ p * Page = 2 * Half
  <2>1. PICK pages \in 1 .. Half : pages * 2 * ImmHalf = 2 * Half
    BY ImmediateAssumption
  <2>2. pages \in Int /\ 2 * Half \in Int /\ 2 * Half = Page * pages + 0 /\ 0 \in 0 .. Page - 1
    BY <1>0, <2>1, ImmediateAssumption, HalfAssumption DEF Page
  <2>3. p = pages
    BY <1>0, <2>2, QuotientUnique
  <2> HIDE DEF p
  <2>4. pages * Page = 2 * Half
    BY <1>0, <2>2
  <2>5. QED
    BY <2>1, <2>3, <2>4
<1> HIDE DEF p, h
<1>3. r \in Int /\ h \div p \in Int /\ h = p * (h \div p) + r
  <2>1. h \in Int /\ p \in Nat \ {0}
    BY <1>1, <1>2
  <2>2. h \div p \in Int /\ h % p \in 0 .. p - 1 /\ h = p * (h \div p) + (h % p)
    BY <2>1, DivisionWithRest
  <2>3. h % p \in Int
    BY <2>1, <2>2
  <2>4. QED
    BY <2>2, <2>3
<1> HIDE DEF m, r
<1>4. r * Page \in Int /\ r * Page = h * Page + (2 * Half) * (-(h \div p)) /\ -(h \div p) \in Int
  BY <1>0, <1>1, <1>2, <1>3
<1>5. Upper(n) = Wrap(r * Page)
  BY DEF Upper, h, p, r
<1>6. Wrap(Upper(n) + m) = Wrap(r * Page + m)
  BY <1>1, <1>4, <1>5, WrapOfWrapped
<1>7. r * Page + m = n + (2 * Half) * (-(h \div p)) /\ r * Page + m \in Int
  BY <1>0, <1>1, <1>4, HalfAssumption
<1>8. Wrap(r * Page + m) = n
  BY <1>0, <1>4, <1>7, WrapCongruent, WrapIsIdentityOnWords
<1>9. Upper(n) \in Word
  BY <1>4, <1>5, WrapIsWord
<1>10. m = 0 => Upper(n) = n
  BY <1>6, <1>8, <1>9, WrapIsIdentityOnWords, HalfAssumption DEF Word
<1>11. QED
  BY <1>1, <1>6, <1>8, <1>9, <1>10 DEF h, m
Lui(n) == [op |-> "lui", rd |-> "t0", rs |-> "zero", rt |-> "zero",
           imm |-> HighPart(n) % ((2 * Half) \div Page)]
AddLow(n) == [op |-> "addi", rd |-> "t0", rs |-> "t0", rt |-> "zero", imm |-> LowPart(n)]
AddBase == [op |-> "add", rd |-> "t0", rs |-> "sp", rt |-> "t0", imm |-> 0]
Sw(base, n) == [op |-> "sw", rd |-> "t2", rs |-> base, rt |-> "zero", imm |-> n]

\* Code ends in the store, and before it nothing is stored; a far slot's address
\* has been computed just before.
EndsInStore(c, n) ==
  LET l == Len(c)
  IN  /\ IsSequence(c) /\ l \in Nat \ {0}
      /\ \A k \in 1 .. l - 1 : c[k].op # "sw"
      /\ FitsImm(n) => c[l] = Sw("sp", n)
      /\ ~FitsImm(n) =>
           /\ l > 2 /\ c[l] = Sw("t0", 0) /\ c[l - 1] = AddBase
           /\ LowPart(n) = 0 => c[l - 2] = Lui(n)
           /\ LowPart(n) # 0 => l > 3 /\ c[l - 2] = AddLow(n) /\ c[l - 3] = Lui(n)

LEMMA SingletonIsSequence == ASSUME NEW x PROVE IsSequence(<<x>>)
BY DEF IsSequence, Elements

\* A far slot's store after code that has just computed the slot's offset.
StoredFar(s) == (s \o <<AddBase>>) \o <<Sw("t0", 0)>>

LEMMA FarStoreEnds ==
  ASSUME NEW n, ~FitsImm(n), NEW s, Storeless(s), Len(s) > 0,
         LowPart(n) = 0 => s[Len(s)] = Lui(n),
         LowPart(n) # 0 => Len(s) > 1 /\ s[Len(s)] = AddLow(n) /\ s[Len(s) - 1] = Lui(n),
         NEW c, c = StoredFar(s)
  PROVE  EndsInStore(c, n)
<1> DEFINE t == s \o <<AddBase>>
<1>1. Storeless(t)
  BY StorelessGrows DEF AddBase
<1>2. Extension(t, s, AddBase)
  BY OneMoreExtends DEF Storeless
<1>3. c = t \o <<Sw("t0", 0)>>
  BY Zenon DEF StoredFar
<1> HIDE DEF t
<1>4. Extension(c, t, Sw("t0", 0))
  BY <1>1, <1>3, OneMoreExtends DEF Storeless
<1>5. \A k \in 1 .. Len(c) - 1 : c[k].op # "sw"
  BY <1>1, <1>4 DEF Storeless, Extension
<1>6. /\ c[Len(c)] = Sw("t0", 0) /\ c[Len(c) - 1] = AddBase /\ c[Len(c) - 2] = s[Len(s)]
      /\ (Len(s) > 1 => c[Len(c) - 3] = s[Len(s) - 1])
      /\ Len(c) = Len(s) + 2 /\ Len(s) \in Nat /\ IsSequence(c)
  BY <1>2, <1>4 DEF Extension
<1>7. QED
  BY <1>5, <1>6 DEF EndsInStore

LEMMA StoreFollows ==
  ASSUME NEW body, NEW D, Quiet(body, D), Scratch \subseteq D, NEW n
  PROVE  EndsInStore(body \o StoreTo("t2", n, "t0"), n)
<1> DEFINE c == body \o StoreTo("t2", n, "t0")
<1>0. Storeless(body) /\ IsSequence(body)
  BY DEF Quiet, Storeless, IsSequence, Elements
<1>1. CASE FitsImm(n)
  <2>1. c = body \o <<Sw("sp", n)>>
    BY <1>1 DEF StoreTo, RI, Sw
  <2> HIDE DEF c
  <2>2. Extension(c, body, Sw("sp", n))
    BY <1>0, <2>1, OneMoreExtends
  <2>3. EndsInStore(c, n)
    BY <1>0, <1>1, <2>2 DEF EndsInStore, Storeless, Extension
  <2>4. QED
    BY <2>3 DEF c
<1>3. CASE ~FitsImm(n) /\ LowPart(n) = 0
  <2> DEFINE s == body \o <<Lui(n)>>
             lui == <<Lui(n)>>
             base == <<AddBase>>
             sw == <<Sw("t0", 0)>>
  <2>1. StoreTo("t2", n, "t0") = ((lui \o << >>) \o base) \o sw
    BY <1>3 DEF StoreTo, AddImm, Materialize, RI, RR, Sw, AddBase, Lui, HighPart, LowPart
  <2>2. lui \o << >> = lui
    OBVIOUS
  <2>3. Storeless(s)
    BY <1>0, StorelessGrows DEF Lui
  <2>4. Len(s) > 0 /\ s[Len(s)] = Lui(n)
    BY <1>0, OneMoreExtends DEF Extension
  <2>5. IsSequence(lui) /\ IsSequence(base) /\ IsSequence(sw)
    BY SingletonIsSequence
  <2> HIDE DEF lui, base, sw
  <2>6. c = body \o ((lui \o base) \o sw)
    BY <2>1, <2>2
  <2>7. Join(body, Join(Join(lui, base), sw)) = Join(Join(Join(body, lui), base), sw)
    BY <1>0, <2>5, JoinRegroupsFour
  <2>8. c = StoredFar(s)
    BY <2>6, <2>7, Zenon DEF Join, lui, base, sw, StoredFar
  <2> HIDE DEF s, c
  <2>9. EndsInStore(c, n)
    <3>1. LowPart(n) # 0 => Len(s) > 1 /\ s[Len(s)] = AddLow(n) /\ s[Len(s) - 1] = Lui(n)
      BY <1>3
    <3>2. QED
      BY <1>3, <2>3, <2>4, <2>8, <3>1, FarStoreEnds
  <2>10. QED
    BY <2>9 DEF c
<1>4. CASE ~FitsImm(n) /\ LowPart(n) # 0
  <2> DEFINE r == body \o <<Lui(n)>>
             s == r \o <<AddLow(n)>>
             lui == <<Lui(n)>>
             low == <<AddLow(n)>>
             base == <<AddBase>>
             sw == <<Sw("t0", 0)>>
  <2>1. StoreTo("t2", n, "t0") = ((lui \o low) \o base) \o sw
    BY <1>4 DEF StoreTo, AddImm, Materialize, RI, RR, Sw, AddBase, AddLow, Lui, HighPart, LowPart
  <2>2. Storeless(r)
    BY <1>0, StorelessGrows DEF Lui
  <2>3. Len(r) > 0 /\ r[Len(r)] = Lui(n)
    BY <1>0, OneMoreExtends DEF Extension
  <2>4. IsSequence(lui) /\ IsSequence(low) /\ IsSequence(base) /\ IsSequence(sw)
    BY SingletonIsSequence
  <2> HIDE DEF lui, low, base, sw
  <2>5. Join(body, Join(Join(Join(lui, low), base), sw)) = Join(Join(Join(Join(body, lui), low), base), sw)
    BY <1>0, <2>4, JoinRegroupsFive
  <2>6. c = StoredFar(s)
    BY <2>1, <2>5, Zenon DEF Join, lui, low, base, sw, StoredFar
  <2> HIDE DEF r
  <2>7. Storeless(s)
    BY <2>2, StorelessGrows DEF AddLow
  <2>8. Len(s) > 1 /\ s[Len(s)] = AddLow(n) /\ s[Len(s) - 1] = Lui(n)
    BY <2>2, <2>3, OneMoreExtends DEF Storeless, Extension
  <2> HIDE DEF s, c
  <2>9. EndsInStore(c, n)
    <3>1. Len(s) > 0
      BY <2>7, <2>8, OneMore DEF Storeless
    <3>2. LowPart(n) = 0 => s[Len(s)] = Lui(n)
      BY <1>4
    <3>3. QED
      BY <1>4, <2>6, <2>7, <2>8, <3>1, <3>2, FarStoreEnds
  <2>10. QED
    BY <2>9 DEF c
<1>5. QED
  BY <1>1, <1>3, <1>4
HasSlot(i) == i.branch = "none" /\ i.res.kind = "slot"

WritesOnly(s, D) ==
  IsSequence(s) /\ \A k \in 1 .. Len(s) : s[k].op \in Writing => s[k].rd \in D

LEMMA WritesAppended ==
  ASSUME NEW s, NEW t, NEW D, WritesOnly(s, D), WritesOnly(t, D)
  PROVE  WritesOnly(s \o t, D)
<1> DEFINE u == s \o t
<1>1. s \in Seq(Elements(s) \cup Elements(t)) /\ t \in Seq(Elements(s) \cup Elements(t))
  BY DEF WritesOnly, IsSequence
<1>2. /\ u \in Seq(Elements(s) \cup Elements(t)) /\ Len(u) = Len(s) + Len(t)
      /\ Len(s) \in Nat /\ Len(t) \in Nat
      /\ \A k \in 1 .. Len(u) : u[k] = IF k <= Len(s) THEN s[k] ELSE t[k - Len(s)]
  BY <1>1
<1> HIDE DEF u
<1>3. ASSUME NEW k \in 1 .. Len(u), u[k].op \in Writing
      PROVE  u[k].rd \in D
  <2>1. CASE k <= Len(s)
    BY <1>2, <1>3, <2>1 DEF WritesOnly
  <2>2. CASE k > Len(s)
    <3>1. k - Len(s) \in 1 .. Len(t) /\ u[k] = t[k - Len(s)]
      BY <1>2, <1>3, <2>2
    <3>2. QED
      BY <1>3, <3>1 DEF WritesOnly
  <2>3. QED
    BY <1>2, <2>1, <2>2
<1>4. IsSequence(u)
  BY <1>2, SequenceOfElements DEF IsSequence
<1>5. QED
  BY <1>3, <1>4 DEF u, WritesOnly

LEMMA QuietWritesOnly ==
  ASSUME NEW s, NEW D, Quiet(s, D)
  PROVE  WritesOnly(s, D) /\ Storeless(s)
BY DEF Quiet, WritesOnly, Storeless, IsSequence, Elements

LEMMA CodeShape ==
  ASSUME NEW i \in Instructions
  PROVE  /\ WritesOnly(Lowered(i), Touched(i))
         /\ HasSlot(i) => EndsInStore(Lowered(i), i.res.n)
         /\ ~HasSlot(i) => Storeless(Lowered(i))
<1> DEFINE D == Touched(i)
<1>1. PICK body : Quiet(body, D) /\ Lowered(i) = body \o Store(i)
  BY CodeOf
<1>2. Scratch \subseteq D
  BY DEF Touched
<1>3. CASE HasSlot(i)
  <2>1. Store(i) = StoreTo("t2", i.res.n, "t0")
    BY <1>3 DEF HasSlot, Store, Spill
  <2>2. EndsInStore(Lowered(i), i.res.n)
    BY <1>1, <1>2, <2>1, StoreFollows
  <2>3. WritesOnly(RI("sw", "t2", "sp", i.res.n), D) /\ WritesOnly(RI("sw", "t2", "t0", 0), D)
    <3> DEFINE near == [op |-> "sw", rd |-> "t2", rs |-> "sp", rt |-> "zero", imm |-> i.res.n]
               far == [op |-> "sw", rd |-> "t2", rs |-> "t0", rt |-> "zero", imm |-> 0]
    <3>1. near.op \notin Writing /\ far.op \notin Writing
      BY DEF Writing, RegisterOps, ImmediateOps
    <3> HIDE DEF near, far
    <3>2. WritesOnly(<<near>>, D) /\ WritesOnly(<<far>>, D)
      BY <3>1, SingletonIsSequence DEF WritesOnly
    <3>3. QED
      BY <3>2 DEF RI, near, far
  <2>4. WritesOnly(AddImm("t0", "sp", i.res.n, "t0"), D)
    BY <1>2, QuietAddImm, QuietWritesOnly DEF Scratch
  <2>5. WritesOnly(Store(i), D)
    BY <2>1, <2>3, <2>4, WritesAppended DEF StoreTo
  <2>6. QED
    BY <1>1, <1>3, <2>2, <2>5, QuietWritesOnly, WritesAppended
<1>4. CASE ~HasSlot(i)
  <2>1. Store(i) = << >>
    BY <1>4, InstructionsFormed DEF HasSlot, Store, Spill, InReg, InSlot
  <2>2. Lowered(i) = body
    BY <1>1, <2>1 DEF Quiet
  <2>3. QED
    BY <1>1, <1>4, <2>2, QuietWritesOnly
<1>5. QED
  BY <1>3, <1>4
-----------------------------------------------------------------------------
(* The machine. *)

\* Just before the store of a far slot t0 holds its address, and before that
\* its offset from the stack pointer.
AddressReady ==
  HasSlot(inst) /\ ~FitsImm(inst.res.n) =>
    LET n == inst.res.n
        l == Len(code)
    IN  /\ pc = l => regs["t0"] = Wrap(regs["sp"] + n)
        /\ pc = l - 1 => regs["t0"] = n
        /\ pc = l - 2 /\ LowPart(n) # 0 => regs["t0"] = Upper(n)

OthersKept == \A r \in RegNames \ Touched(inst) : regs[r] = start.regs[r]

SlotsKept ==
  \A n \in Offsets : mem[n] # start.mem[n] => inst.branch = "none" /\ inst.res = InSlot(n)

Inv ==
  /\ inst \in Instructions /\ start \in Starts /\ code = Lowered(inst) /\ pc \in Nat \ {0}
  /\ DOMAIN regs = RegNames /\ regs = [r \in RegNames |-> regs[r]]
  /\ DOMAIN mem = Offsets /\ mem = [n \in Offsets |-> mem[n]]
  /\ OthersKept
  /\ SlotsKept
  /\ AddressReady

LEMMA InitEstablishesInv == Init => Inv
<1> SUFFICES ASSUME Init PROVE Inv
  OBVIOUS
<1>1. /\ inst \in Instructions /\ start \in Starts /\ code = Lowered(inst) /\ pc = 1
      /\ regs = start.regs /\ mem = start.mem
  BY DEF Init
<1>2. regs \in [RegNames -> Word] /\ mem \in [Offsets -> Word]
  BY <1>1, StartsFormed
<1>3. OthersKept /\ SlotsKept
  BY <1>1 DEF OthersKept, SlotsKept
<1>4. AddressReady
  <2>1. CASE HasSlot(inst) /\ ~FitsImm(inst.res.n)
    <3> DEFINE l == Len(code)
    <3>1. EndsInStore(code, inst.res.n)
      BY <1>1, <2>1, CodeShape
    <3>2. l \in Nat /\ l > 2 /\ (LowPart(inst.res.n) # 0 => l > 3)
      BY <2>1, <3>1 DEF EndsInStore
    <3> HIDE DEF l
    <3>3. pc # l /\ pc # l - 1 /\ (LowPart(inst.res.n) # 0 => pc # l - 2)
      BY <1>1, <3>2
    <3>4. QED
      BY <3>3 DEF AddressReady, l
  <2>2. CASE ~(HasSlot(inst) /\ ~FitsImm(inst.res.n))
    BY <2>2 DEF AddressReady
  <2>3. QED
    BY <2>1, <2>2
<1>5. QED
  BY <1>1, <1>2, <1>3, <1>4 DEF Inv

LEMMA StackPointerKept ==
  ASSUME Inv
  PROVE  /\ "sp" \in RegNames \ Touched(inst) /\ regs["sp"] = start.regs["sp"]
         /\ regs["sp"] \in Word
         /\ \A n \in Offsets : n \in Word /\ regs["sp"] + n \in Word
<1>1. "sp" \in RegNames \ Touched(inst)
  <2>1. "sp" \notin Scratch
    BY DEF Scratch
  <2>2. inst.branch = "none" /\ inst.res.kind = "reg" => inst.res.reg # "sp"
    BY InstructionsFormed, NamesApart DEF Inv, InReg, InSlot
  <2>3. QED
    BY <2>1, <2>2 DEF Touched, RegNames
<1>2. regs["sp"] = start.regs["sp"]
  BY <1>1 DEF Inv, OthersKept
<1>3. QED
  BY <1>1, <1>2, StartsFormed DEF Inv

LEMMA SlotOf ==
  ASSUME Inv, HasSlot(inst)
  PROVE  inst.res.n \in Offsets /\ inst.res = InSlot(inst.res.n)
BY InstructionsFormed DEF Inv, HasSlot, InReg, InSlot

\* Where the code ends, and what stands there.
LEMMA FarEnd ==
  ASSUME Inv, HasSlot(inst), ~FitsImm(inst.res.n)
  PROVE  LET n == inst.res.n
             l == Len(code)
         IN  /\ l \in Nat /\ l > 2 /\ n \in Word
             /\ code[l] = Sw("t0", 0) /\ code[l - 1] = AddBase
             /\ LowPart(n) = 0 => code[l - 2] = Lui(n)
             /\ LowPart(n) # 0 => l > 3 /\ code[l - 2] = AddLow(n) /\ code[l - 3] = Lui(n)
<1>1. EndsInStore(code, inst.res.n)
  BY CodeShape DEF Inv
<1>2. inst.res.n \in Word
  BY SlotOf, StackPointerKept
<1>3. QED
  BY <1>1, <1>2 DEF EndsInStore

\* One step of the code: what Put leaves is what AddressReady asks for.
LEMMA StepKeepsAddress ==
  ASSUME Inv, pc' = pc + 1, inst' = inst, code' = code,
         regs'["sp"] = regs["sp"],
         Now.op = "lui" /\ Now.rd = "t0" => regs'["t0"] = Wrap(Now.imm * Page),
         Now.op = "addi" /\ Now.rd = "t0" => regs'["t0"] = Wrap(regs[Now.rs] + Now.imm),
         Now.op = "add" /\ Now.rd = "t0" => regs'["t0"] = Wrap(regs[Now.rs] + regs[Now.rt])
  PROVE  AddressReady'
<1> DEFINE n == inst.res.n
           l == Len(code)
<1>1. CASE HasSlot(inst) /\ ~FitsImm(n)
  <2>1. /\ l \in Nat /\ l > 2 /\ n \in Word /\ pc \in Nat
        /\ code[l - 1] = AddBase
        /\ LowPart(n) = 0 => code[l - 2] = Lui(n)
        /\ LowPart(n) # 0 => l > 3 /\ code[l - 2] = AddLow(n) /\ code[l - 3] = Lui(n)
    BY <1>1, FarEnd DEF Inv
  <2>2. /\ pc = l - 1 => regs["t0"] = n
        /\ pc = l - 2 /\ LowPart(n) # 0 => regs["t0"] = Upper(n)
    BY <1>1 DEF Inv, AddressReady
  <2>3. Wrap(Upper(n) + LowPart(n)) = n /\ (LowPart(n) = 0 => Upper(n) = n)
    BY <2>1, PartsRecombine
  <2> HIDE DEF n, l
  <2>4. ASSUME pc = l - 1
        PROVE  regs'["t0"] = Wrap(regs["sp"] + n)
    BY <2>1, <2>2, <2>4 DEF Now, AddBase
  <2>5. ASSUME pc = l - 2
        PROVE  regs'["t0"] = n
    <3>1. CASE LowPart(n) = 0
      <4>1. Now = Lui(n)
        BY <2>1, <2>5, <3>1 DEF Now
      <4>2. regs'["t0"] = Wrap((HighPart(n) % ((2 * Half) \div Page)) * Page)
        BY <4>1 DEF Lui
      <4>3. QED
        BY <2>3, <3>1, <4>2 DEF Upper
    <3>2. CASE LowPart(n) # 0
      <4>1. Now = AddLow(n)
        BY <2>1, <2>5, <3>2 DEF Now
      <4>2. regs'["t0"] = Wrap(regs["t0"] + LowPart(n))
        BY <4>1 DEF AddLow
      <4>3. QED
        BY <2>2, <2>3, <2>5, <3>2, <4>2
    <3>3. QED
      BY <3>1, <3>2
  <2>6. ASSUME pc = l - 3, LowPart(n) # 0
        PROVE  regs'["t0"] = Upper(n)
    <3>1. Now = Lui(n)
      BY <2>1, <2>6 DEF Now
    <3>2. QED
      BY <3>1 DEF Lui, Upper
  <2>7. /\ pc + 1 = l => regs'["t0"] = Wrap(regs["sp"] + n)
        /\ pc + 1 = l - 1 => regs'["t0"] = n
        /\ pc + 1 = l - 2 /\ LowPart(n) # 0 => regs'["t0"] = Upper(n)
    BY <2>1, <2>4, <2>5, <2>6
  <2>8. QED
    BY <2>7 DEF AddressReady, n, l
<1>2. CASE ~(HasSlot(inst) /\ ~FitsImm(n))
  BY <1>2 DEF AddressReady
<1>3. QED
  BY <1>1, <1>2
LEMMA WritePreservesInv ==
  ASSUME Inv, pc <= Len(code), Now.op \in Writing, NEW value, Put(Now.rd, value),
         pc' = pc + 1, inst' = inst, code' = code, mem' = mem, start' = start,
         Now.op = "lui" => value = Wrap(Now.imm * Page),
         Now.op = "addi" => value = Wrap(regs[Now.rs] + Now.imm),
         Now.op = "add" => value = Wrap(regs[Now.rs] + regs[Now.rt])
  PROVE  Inv'
<1>1. Now.rd \in Touched(inst)
  <2>1. WritesOnly(code, Touched(inst))
    BY CodeShape DEF Inv
  <2>2. Len(code) \in Nat /\ pc \in 1 .. Len(code)
    BY <2>1 DEF WritesOnly, IsSequence, Inv
  <2>3. QED
    BY <2>1, <2>2 DEF WritesOnly, Now
<1>2. \A r \in RegNames : r # Now.rd => regs'[r] = regs[r]
  BY DEF Put, Inv
<1>3. DOMAIN regs' = RegNames /\ regs' = [r \in RegNames |-> regs'[r]]
  BY DEF Put, Inv
<1>4. regs'["sp"] = regs["sp"]
  BY <1>1, <1>2, StackPointerKept
<1>5. Now.rd = "t0" => regs'["t0"] = value
  BY DEF Put, Inv, RegNames, Scratch
<1>6. AddressReady'
  BY <1>4, <1>5, StepKeepsAddress
<1>7. OthersKept'
  BY <1>1, <1>2 DEF Inv, OthersKept
<1>8. SlotsKept'
  BY DEF Inv, SlotsKept
<1>9. QED
  BY <1>3, <1>6, <1>7, <1>8 DEF Inv

LEMMA StorePreservesInv == Inv /\ StoreWord => Inv'
<1> SUFFICES ASSUME Inv, StoreWord PROVE Inv'
  OBVIOUS
<1>1. /\ pc <= Len(code) /\ Now.op = "sw" /\ pc' = pc + 1
      /\ inst' = inst /\ code' = code /\ regs' = regs /\ start' = start
      /\ mem' = [mem EXCEPT ![Address] = regs[Now.rd]]
  BY DEF StoreWord, Running
<1>2. HasSlot(inst)
  <2>1. SUFFICES ASSUME ~HasSlot(inst) PROVE FALSE
    OBVIOUS
  <2>2. Storeless(code)
    BY <2>1, CodeShape DEF Inv
  <2>3. Len(code) \in Nat /\ pc \in 1 .. Len(code)
    BY <1>1, <2>2 DEF Storeless, IsSequence, Inv
  <2>4. QED
    BY <1>1, <2>2, <2>3 DEF Storeless, Now
<1> DEFINE n == inst.res.n
<1>3. EndsInStore(code, n)
  BY <1>2, CodeShape DEF Inv
<1>4. pc = Len(code)
  BY <1>1, <1>3 DEF EndsInStore, Now, Inv
<1>5. n \in Offsets /\ inst.res = InSlot(n) /\ n \in Word /\ regs["sp"] + n \in Word
      /\ regs["sp"] \in Word
  BY <1>2, SlotOf, StackPointerKept
<1>6. Address = n
  <2>1. CASE FitsImm(n)
    <3>1. Now = Sw("sp", n)
      BY <1>3, <1>4, <2>1 DEF EndsInStore, Now
    <3>2. Address = Wrap(regs["sp"] + n) - regs["sp"]
      BY <3>1 DEF Address, Sw
    <3>3. QED
      BY <1>5, <3>2, WrapIsIdentityOnWords, HalfAssumption DEF Word
  <2>2. CASE ~FitsImm(n)
    <3>1. Now = Sw("t0", 0) /\ regs["t0"] = Wrap(regs["sp"] + n)
      BY <1>2, <1>3, <1>4, <2>2 DEF EndsInStore, Now, Inv, AddressReady
    <3>2. regs["t0"] = regs["sp"] + n
      BY <1>5, <3>1, WrapIsIdentityOnWords
    <3>3. regs["t0"] \in Word /\ regs["t0"] + 0 = regs["t0"]
      BY <1>5, <3>2, HalfAssumption DEF Word
    <3>4. Address = regs["t0"] - regs["sp"]
      BY <3>1, <3>3, WrapIsIdentityOnWords DEF Address, Sw
    <3>5. QED
      BY <1>5, <3>2, <3>4, HalfAssumption DEF Word
  <2>3. QED
    BY <2>1, <2>2
<1>7. SlotsKept'
  BY <1>1, <1>2, <1>5, <1>6 DEF Inv, SlotsKept, HasSlot
<1>8. DOMAIN mem' = Offsets /\ mem' = [m \in Offsets |-> mem'[m]]
  BY <1>1 DEF Inv
<1>9. AddressReady'
  BY <1>1, StepKeepsAddress
<1>10. OthersKept'
  BY <1>1 DEF Inv, OthersKept
<1>11. QED
  BY <1>1, <1>7, <1>8, <1>9, <1>10 DEF Inv

LEMMA StepPreservesInv == Inv /\ [Next]_vars => Inv'
<1> SUFFICES ASSUME Inv, [Next]_vars PROVE Inv'
  OBVIOUS
<1>1. CASE Register
  BY <1>1, WritePreservesInv
     DEF Register, Running, Operates, Writing, RegisterOps, ImmediateOps
<1>2. CASE Immediate
  BY <1>2, WritePreservesInv
     DEF Immediate, Running, OperatesImmediate, Writing, RegisterOps, ImmediateOps
<1>3. CASE LoadWord
  BY <1>3, WritePreservesInv
     DEF LoadWord, Running, Writing, RegisterOps, ImmediateOps
<1>4. CASE StoreWord
  BY <1>4, StorePreservesInv
<1>5. CASE Jump
  <2>1. /\ pc' = pc + 1 /\ inst' = inst /\ code' = code /\ regs' = regs /\ start' = start
        /\ mem' = mem /\ Now.op \notin {"lui", "addi", "add"}
    BY <1>5 DEF Jump, Running
  <2>2. AddressReady'
    BY <2>1, StepKeepsAddress
  <2>3. QED
    BY <2>1, <2>2 DEF Inv, OthersKept, SlotsKept
<1>6. CASE FallThrough \/ UNCHANGED vars
  BY <1>6 DEF FallThrough, vars, Inv, OthersKept, SlotsKept, AddressReady
<1>7. QED
  BY <1>1, <1>2, <1>3, <1>4, <1>5, <1>6 DEF Next, Stop

\* The code of an instruction writes the place of its result, scratch registers,
\* and nothing else: neither another value's register or slot nor the stack
\* pointer, however wide immediates are and wherever the slot is.
THEOREM OnlyTheResultIsWritten == Spec => []Preserves
<1>1. Inv => Preserves
  <2> SUFFICES ASSUME Inv PROVE Preserves
    OBVIOUS
  <2>1. ASSUME NEW r \in Assigned \cup {"sp", "zero"}, regs[r] # start.regs[r]
        PROVE  inst.branch = "none" /\ inst.res = InReg(r)
    <3>1. r \in RegNames /\ r \notin Scratch
      BY NamesApart DEF RegNames, Scratch
    <3>2. r \in Touched(inst)
      BY <2>1, <3>1 DEF Inv, OthersKept
    <3>3. inst.branch = "none" /\ inst.res.kind = "reg" /\ inst.res.reg = r
      BY <3>1, <3>2 DEF Touched
    <3>4. QED
      BY <3>3, InstructionsFormed DEF Inv, InReg, InSlot
  <2>2. QED
    BY <2>1 DEF Inv, SlotsKept, Preserves
<1>2. QED
  BY <1>1, InitEstablishesInv, StepPreservesInv, PTL DEF Spec

-----------------------------------------------------------------------------
(* What code computes: the states a sequence without branches goes through. *)

Value(i, s) ==
  IF i.op \in RegisterOps THEN Operates(i.op, s.regs[i.rs], s.regs[i.rt])
  ELSE IF i.op \in ImmediateOps THEN OperatesImmediate(i.op, s.regs[i.rs], i.imm)
  ELSE s.mem[Wrap(s.regs[i.rs] + i.imm) - s.regs["sp"]]

After(i, s) ==
  IF i.op = "sw"
  THEN [regs |-> s.regs,
        mem |-> [s.mem EXCEPT ![Wrap(s.regs[i.rs] + i.imm) - s.regs["sp"]] = s.regs[i.rd]]]
  ELSE [regs |-> IF i.rd = "zero" THEN s.regs ELSE [s.regs EXCEPT ![i.rd] = Value(i, s)],
        mem |-> s.mem]

Straight(i) == i.op \in Writing \cup {"sw"}

\* f is the run of c from s.
Run(c, s, f) ==
  /\ IsSequence(c)
  /\ f[1] = s
  /\ \A k \in 1 .. Len(c) : Straight(c[k]) /\ f[k + 1] = After(c[k], f[k])

Runs(c, s, t) == \E f : Run(c, s, f) /\ f[Len(c) + 1] = t

LEMMA RunsNothing == ASSUME NEW s PROVE Runs(<< >>, s, s)
<1> DEFINE f == [k \in {1} |-> s]
<1>1. IsSequence(<< >>) /\ Len(<< >>) = 0
  BY DEF IsSequence
<1>2. Run(<< >>, s, f) /\ f[Len(<< >>) + 1] = s
  BY <1>1 DEF Run
<1> HIDE DEF f
<1>3. QED
  BY <1>2 DEF Runs

LEMMA RunsOne ==
  ASSUME NEW s, NEW i, Straight(i)
  PROVE  Runs(<<i>>, s, After(i, s))
<1> DEFINE f == [k \in {1, 2} |-> IF k = 1 THEN s ELSE After(i, s)]
           c == <<i>>
<1>1. IsSequence(c) /\ Len(c) = 1 /\ c[1] = i
  BY SingletonIsSequence
<1>2. f[1] = s /\ f[2] = After(i, s)
  OBVIOUS
<1> HIDE DEF f, c
<1>3. Run(c, s, f) /\ f[Len(c) + 1] = After(i, s)
  BY <1>1, <1>2 DEF Run
<1>4. QED
  BY <1>3 DEF Runs, c

LEMMA RunsBoth ==
  ASSUME NEW c, NEW d, NEW s, NEW t, NEW u, Runs(c, s, t), Runs(d, t, u)
  PROVE  Runs(c \o d, s, u)
<1>1. PICK f : Run(c, s, f) /\ f[Len(c) + 1] = t
  BY DEF Runs
<1>2. PICK g : Run(d, t, g) /\ g[Len(d) + 1] = u
  BY DEF Runs
<1> DEFINE e == c \o d
           n == Len(c)
           h == [k \in 1 .. n + Len(d) + 1 |-> IF k <= n THEN f[k] ELSE g[k - n]]
<1>3. c \in Seq(Elements(c) \cup Elements(d)) /\ d \in Seq(Elements(c) \cup Elements(d))
  BY <1>1, <1>2 DEF Run, IsSequence
<1>4. /\ e \in Seq(Elements(c) \cup Elements(d)) /\ Len(e) = n + Len(d)
      /\ n \in Nat /\ Len(d) \in Nat
      /\ \A k \in 1 .. Len(e) : e[k] = IF k <= n THEN c[k] ELSE d[k - n]
  BY <1>3
<1>5. IsSequence(e)
  BY <1>4, SequenceOfElements DEF IsSequence
<1> HIDE DEF e
<1>6. ASSUME NEW k \in 1 .. n + Len(d) + 1
      PROVE  h[k] = IF k <= n THEN f[k] ELSE g[k - n]
  OBVIOUS
<1> HIDE DEF h, n
<1>7. f[n + 1] = g[1]
  BY <1>1, <1>2 DEF Run, n
<1>8. h[1] = s /\ h[Len(e) + 1] = u
  <2>1. h[1] = IF 1 <= n THEN f[1] ELSE g[1 - n]
    BY <1>4, <1>6
  <2>2. n = 0 \/ n >= 1
    BY <1>4
  <2>3. h[1] = s
    BY <1>1, <1>4, <1>7, <2>1, <2>2 DEF Run
  <2>4. h[Len(e) + 1] = g[Len(d) + 1]
    BY <1>4, <1>6
  <2>5. QED
    BY <1>2, <2>3, <2>4
<1>9. ASSUME NEW k \in 1 .. Len(e)
      PROVE  Straight(e[k]) /\ h[k + 1] = After(e[k], h[k])
  <2>1. CASE k <= n
    <3>1. k \in 1 .. n /\ e[k] = c[k] /\ h[k] = f[k]
      BY <1>4, <1>6, <2>1
    <3>2. h[k + 1] = f[k + 1]
      <4>1. CASE k < n
        BY <1>4, <1>6, <4>1
      <4>2. CASE k = n
        <5>1. h[k + 1] = g[1]
          BY <1>4, <1>6, <4>2
        <5>2. QED
          BY <1>7, <4>2, <5>1
      <4>3. QED
        BY <1>4, <2>1, <4>1, <4>2
    <3>3. QED
      BY <1>1, <3>1, <3>2 DEF Run, n
  <2>2. CASE k > n
    <3>1. /\ k - n \in 1 .. Len(d) /\ (k + 1) - n = (k - n) + 1
          /\ k + 1 > n /\ k + 1 \in 1 .. n + Len(d) + 1 /\ k \in 1 .. n + Len(d) + 1
      BY <1>4, <2>2
    <3>2. e[k] = d[k - n] /\ h[k] = g[k - n]
      BY <1>4, <1>6, <2>2, <3>1
    <3>3. h[k + 1] = g[(k + 1) - n]
      BY <1>4, <1>6, <2>2, <3>1
    <3>4. h[k + 1] = g[(k - n) + 1]
      BY <3>1, <3>3
    <3>5. QED
      BY <1>2, <3>1, <3>2, <3>4 DEF Run
  <2>3. QED
    BY <1>4, <2>1, <2>2
<1>10. QED
  BY <1>5, <1>8, <1>9 DEF Runs, Run, e

\* What registers and slots hold in a state.
Reg(s, r) == s.regs[r]
Mem(s, n) == s.mem[n]

\* The states of a machine: the stack pointer reaches every slot.
Machine(s) ==
  /\ DOMAIN s.regs = RegNames /\ s.regs = [r \in RegNames |-> s.regs[r]]
  /\ DOMAIN s.mem = Offsets /\ s.mem = [n \in Offsets |-> s.mem[n]]
  /\ Reg(s, "zero") = 0 /\ Reg(s, "sp") \in Word
  /\ \A n \in Offsets : n \in Word /\ Reg(s, "sp") + n \in Word

\* At most the registers D differ.
Only(D, s, t) ==
  /\ Machine(t) /\ t.mem = s.mem
  /\ \A r \in RegNames \ D : Reg(t, r) = Reg(s, r)

\* c leaves v in rd and everything else as it was.
Puts(c, s, rd, v) == \E t : Runs(c, s, t) /\ Only({rd}, s, t) /\ Reg(t, rd) = v

\* One instruction that writes a register.
LEMMA WriteRuns ==
  ASSUME NEW s, Machine(s), NEW i, i.op \in Writing,
         i.rd \in Assigned \cup Scratch
  PROVE  Puts(<<i>>, s, i.rd, Value(i, s))
<1>1. Straight(i) /\ i.op # "sw"
  BY DEF Straight, Writing, RegisterOps, ImmediateOps
<1>2. i.rd \in RegNames /\ i.rd # "zero" /\ i.rd # "sp"
  BY NamesApart DEF RegNames, Scratch
<1> DEFINE v == Value(i, s)
           t == After(i, s)
<1>3. t = [regs |-> [s.regs EXCEPT ![i.rd] = v], mem |-> s.mem]
  BY <1>1, <1>2 DEF After
<1> HIDE DEF v, t
<1>4. t.regs = [s.regs EXCEPT ![i.rd] = v] /\ t.mem = s.mem
  BY <1>3
<1>5. DOMAIN t.regs = RegNames /\ t.regs = [r \in RegNames |-> t.regs[r]]
  BY <1>4 DEF Machine
<1>6. Reg(t, i.rd) = v /\ \A r \in RegNames \ {i.rd} : Reg(t, r) = Reg(s, r)
  BY <1>2, <1>4 DEF Machine, Reg
<1>7. "zero" \in RegNames \ {i.rd} /\ "sp" \in RegNames \ {i.rd}
  BY <1>2 DEF RegNames
<1>8. Machine(t)
  BY <1>4, <1>5, <1>6, <1>7 DEF Machine, Reg
<1>9. Only({i.rd}, s, t)
  BY <1>4, <1>6, <1>8 DEF Only
<1>10. Runs(<<i>>, s, t)
  BY <1>1, RunsOne DEF t
<1>11. QED
  BY <1>6, <1>9, <1>10 DEF Puts, v

LEMMA OnlyTwice ==
  ASSUME NEW D, NEW s, NEW t, NEW u, Only(D, s, t), Only(D, t, u)
  PROVE  Only(D, s, u)
BY DEF Only

LEMMA OnlyWider ==
  ASSUME NEW D, NEW E, D \subseteq E, NEW s, NEW t, Only(D, s, t)
  PROVE  Only(E, s, t)
BY DEF Only

LEMMA PutsThen ==
  ASSUME NEW c, NEW d, NEW s, NEW t, NEW rd, NEW v,
         Runs(c, s, t), Only({rd}, s, t), Puts(d, t, rd, v)
  PROVE  Puts(c \o d, s, rd, v)
<1>1. PICK u : Runs(d, t, u) /\ Only({rd}, t, u) /\ Reg(u, rd) = v
  BY DEF Puts
<1>2. Runs(c \o d, s, u)
  BY <1>1, RunsBoth
<1>3. Only({rd}, s, u)
  BY <1>1, OnlyTwice
<1>4. QED
  BY <1>1, <1>2, <1>3 DEF Puts

\* Nothing is needed where the value is already.
LEMMA PutsNothing ==
  ASSUME NEW s, Machine(s), NEW rd
  PROVE  Puts(<< >>, s, rd, Reg(s, rd))
<1>1. Only({rd}, s, s)
  BY DEF Only
<1>2. QED
  BY <1>1, RunsNothing DEF Puts

LEMMA NotScratch ==
  /\ \A r \in Assigned \cup {"zero", "sp"} : r \in RegNames /\ r \notin Scratch
  /\ \A r \in Assigned \cup Scratch : r \in RegNames /\ r # "zero" /\ r # "sp"
BY NamesApart DEF RegNames, Scratch

\* What the instructions with an immediate do, those with two registers, and
\* loads.
LEMMA ImmediateRuns ==
  ASSUME NEW s, Machine(s), NEW op \in ImmediateOps, NEW rd \in Assigned \cup Scratch,
         NEW rs, NEW imm
  PROVE  Puts(RI(op, rd, rs, imm), s, rd, OperatesImmediate(op, Reg(s, rs), imm))
<1> DEFINE i == [op |-> op, rd |-> rd, rs |-> rs, rt |-> "zero", imm |-> imm]
<1>1. i.op = op /\ i.rd = rd /\ i.rs = rs /\ i.imm = imm
  OBVIOUS
<1>2. RI(op, rd, rs, imm) = <<i>>
  BY DEF RI
<1> HIDE DEF i
<1>3. i.op \in Writing /\ i.op \notin RegisterOps
  BY <1>1 DEF Writing, RegisterOps, ImmediateOps
<1>4. Value(i, s) = OperatesImmediate(op, Reg(s, rs), imm)
  BY <1>1, <1>3 DEF Value, Reg
<1>5. Puts(<<i>>, s, i.rd, Value(i, s))
  BY <1>1, <1>3, WriteRuns
<1>6. QED
  BY <1>1, <1>2, <1>4, <1>5

LEMMA RegisterRuns ==
  ASSUME NEW s, Machine(s), NEW op \in RegisterOps, NEW rd \in Assigned \cup Scratch,
         NEW rs, NEW rt
  PROVE  Puts(RR(op, rd, rs, rt), s, rd, Operates(op, Reg(s, rs), Reg(s, rt)))
<1> DEFINE i == [op |-> op, rd |-> rd, rs |-> rs, rt |-> rt, imm |-> 0]
<1>1. i.op = op /\ i.rd = rd /\ i.rs = rs /\ i.rt = rt
  OBVIOUS
<1>2. RR(op, rd, rs, rt) = <<i>>
  BY DEF RR
<1> HIDE DEF i
<1>3. i.op \in Writing
  BY <1>1 DEF Writing
<1>4. Value(i, s) = Operates(op, Reg(s, rs), Reg(s, rt))
  BY <1>1 DEF Value, Reg
<1>5. Puts(<<i>>, s, i.rd, Value(i, s))
  BY <1>1, <1>3, WriteRuns
<1>6. QED
  BY <1>1, <1>2, <1>4, <1>5

LEMMA LoadRuns ==
  ASSUME NEW s, Machine(s), NEW rd \in Assigned \cup Scratch, NEW rs, NEW imm, NEW n,
         Wrap(Reg(s, rs) + imm) - Reg(s, "sp") = n
  PROVE  Puts(RI("lw", rd, rs, imm), s, rd, Mem(s, n))
<1> DEFINE i == [op |-> "lw", rd |-> rd, rs |-> rs, rt |-> "zero", imm |-> imm]
<1>1. i.op = "lw" /\ i.rd = rd /\ i.rs = rs /\ i.imm = imm
  OBVIOUS
<1>2. RI("lw", rd, rs, imm) = <<i>>
  BY DEF RI
<1> HIDE DEF i
<1>3. i.op \in Writing /\ i.op \notin RegisterOps /\ i.op \notin ImmediateOps
  BY <1>1 DEF Writing, RegisterOps, ImmediateOps
<1>4. Value(i, s) = Mem(s, n)
  BY <1>1, <1>3 DEF Value, Reg, Mem
<1>5. Puts(<<i>>, s, i.rd, Value(i, s))
  BY <1>1, <1>3, WriteRuns
<1>6. QED
  BY <1>1, <1>2, <1>4, <1>5

\* A register that keeps its value, or gets another register's or a sum.
LEMMA AddiRuns ==
  ASSUME NEW s, Machine(s), NEW rd \in Assigned \cup Scratch, NEW rs, NEW imm \in Int,
         Reg(s, rs) \in Word
  PROVE  Puts(Addi(rd, rs, imm), s, rd, Wrap(Reg(s, rs) + imm))
<1>1. CASE imm = 0 /\ rd = rs
  <2>1. Addi(rd, rs, imm) = << >>
    BY <1>1 DEF Addi
  <2>2. Reg(s, rd) = Wrap(Reg(s, rs) + imm)
    BY <1>1, WrapIsIdentityOnWords, HalfAssumption DEF Word
  <2>3. QED
    BY <2>1, <2>2, PutsNothing
<1>2. CASE ~(imm = 0 /\ rd = rs)
  <2>1. Addi(rd, rs, imm) = RI("addi", rd, rs, imm)
    BY <1>2 DEF Addi
  <2>2. "addi" \in ImmediateOps /\ OperatesImmediate("addi", Reg(s, rs), imm) = Wrap(Reg(s, rs) + imm)
    BY DEF ImmediateOps, OperatesImmediate
  <2>3. Puts(RI("addi", rd, rs, imm), s, rd, OperatesImmediate("addi", Reg(s, rs), imm))
    BY <2>2, ImmediateRuns
  <2>4. QED
    BY <2>1, <2>2, <2>3
<1>3. QED
  BY <1>1, <1>2

LEMMA CopyRuns ==
  ASSUME NEW s, Machine(s), NEW rd \in Assigned \cup Scratch, NEW rs, Reg(s, rs) \in Word
  PROVE  Puts(Copy(rd, rs), s, rd, Reg(s, rs))
<1>1. CASE rd = rs
  BY <1>1, PutsNothing DEF Copy
<1>2. CASE rd # rs
  <2>1. Copy(rd, rs) = RR("add", rd, rs, "zero")
    BY <1>2 DEF Copy
  <2>2. "add" \in RegisterOps /\ Operates("add", Reg(s, rs), Reg(s, "zero")) = Reg(s, rs)
    <3>1. Reg(s, rs) + 0 = Reg(s, rs) /\ Reg(s, "zero") = 0
      BY HalfAssumption DEF Word, Machine
    <3>2. QED
      BY <3>1, WrapIsIdentityOnWords DEF RegisterOps, Operates
  <2>3. Puts(RR("add", rd, rs, "zero"), s, rd, Operates("add", Reg(s, rs), Reg(s, "zero")))
    BY <2>2, RegisterRuns
  <2>4. QED
    BY <2>1, <2>2, <2>3
<1>3. QED
  BY <1>1, <1>2

\* A number of any size arrives in the register it is built in.
LEMMA MaterializeRuns ==
  ASSUME NEW s, Machine(s), NEW rd \in Assigned \cup Scratch, NEW n \in Word
  PROVE  Puts(Materialize(n, rd), s, rd, n)
<1>0. n \in Int /\ Reg(s, "zero") = 0 /\ 0 \in Word
  BY HalfAssumption DEF Word, Machine
<1>1. CASE FitsImm(n)
  <2>1. Materialize(n, rd) = Addi(rd, "zero", n)
    BY <1>1 DEF Materialize
  <2>2. Wrap(Reg(s, "zero") + n) = n
    BY <1>0, WrapIsIdentityOnWords
  <2>3. Puts(Addi(rd, "zero", n), s, rd, Wrap(Reg(s, "zero") + n))
    BY <1>0, AddiRuns
  <2>4. QED
    BY <2>1, <2>2, <2>3
<1>2. CASE ~FitsImm(n)
  <2> DEFINE hi == (n + ImmHalf) \div Page
             lo == n - hi * Page
             part == hi % ((2 * Half) \div Page)
             upper == RI("lui", rd, "zero", part)
             lower == IF lo = 0 THEN << >> ELSE RI("addi", rd, rd, lo)
  <2>1. Materialize(n, rd) = upper \o lower
    BY <1>2 DEF Materialize
  <2>2. lo = LowPart(n)
    BY DEF HighPart, LowPart
  <2>3. OperatesImmediate("lui", Reg(s, "zero"), part) = Upper(n) /\ "lui" \in ImmediateOps
    BY DEF OperatesImmediate, Upper, HighPart, ImmediateOps
  <2> HIDE DEF part
  <2>4. Puts(upper, s, rd, OperatesImmediate("lui", Reg(s, "zero"), part))
    BY <2>3, ImmediateRuns
  <2> HIDE DEF hi, lo, upper
  <2>5. PICK t : Runs(upper, s, t) /\ Only({rd}, s, t) /\ Reg(t, rd) = Upper(n)
    BY <2>3, <2>4 DEF Puts
  <2>6. /\ LowPart(n) \in Int /\ Upper(n) \in Word
        /\ Wrap(Upper(n) + LowPart(n)) = n
        /\ LowPart(n) = 0 => Upper(n) = n
    BY PartsRecombine
  <2>7. Machine(t)
    BY <2>5 DEF Only
  <2>8. Puts(lower, t, rd, n)
    <3>1. CASE lo = 0
      <4>1. Puts(<< >>, t, rd, Reg(t, rd))
        BY <2>7, PutsNothing
      <4>2. QED
        BY <2>2, <2>5, <2>6, <3>1, <4>1
    <3>2. CASE lo # 0
      <4>1. OperatesImmediate("addi", Reg(t, rd), lo) = n /\ "addi" \in ImmediateOps
        BY <2>2, <2>5, <2>6 DEF OperatesImmediate, ImmediateOps
      <4>2. Puts(RI("addi", rd, rd, lo), t, rd, OperatesImmediate("addi", Reg(t, rd), lo))
        BY <2>7, <4>1, ImmediateRuns
      <4>3. QED
        BY <3>2, <4>1, <4>2
    <3>3. QED
      BY <3>1, <3>2
  <2> HIDE DEF lower
  <2>9. QED
    BY <2>1, <2>5, <2>8, PutsThen
<1>3. QED
  BY <1>1, <1>2

\* The address of a slot an immediate does not reach.
LEMMA AddressRuns ==
  ASSUME NEW s, Machine(s), NEW rd \in Assigned \cup Scratch, NEW n \in Offsets, ~FitsImm(n)
  PROVE  Puts(AddImm(rd, "sp", n, rd), s, rd, Reg(s, "sp") + n)
<1> DEFINE first == Materialize(n, rd)
           last == RR("add", rd, "sp", rd)
<1>1. n \in Word /\ Reg(s, "sp") + n \in Word
  BY DEF Machine
<1>2. AddImm(rd, "sp", n, rd) = first \o last
  BY DEF AddImm
<1>3. Puts(first, s, rd, n)
  BY <1>1, MaterializeRuns
<1>4. PICK t : Runs(first, s, t) /\ Only({rd}, s, t) /\ Reg(t, rd) = n
  BY <1>3 DEF Puts
<1>5. Reg(t, "sp") = Reg(s, "sp") /\ Machine(t)
  BY <1>4, NotScratch DEF Only
<1>6. "add" \in RegisterOps /\ Operates("add", Reg(t, "sp"), Reg(t, rd)) = Reg(s, "sp") + n
  BY <1>1, <1>4, <1>5, WrapIsIdentityOnWords DEF Operates, RegisterOps
<1>7. Puts(last, t, rd, Operates("add", Reg(t, "sp"), Reg(t, rd)))
  BY <1>5, <1>6, RegisterRuns
<1> HIDE DEF first, last
<1>8. QED
  BY <1>2, <1>4, <1>6, <1>7, PutsThen

LEMMA SlotRuns ==
  ASSUME NEW s, Machine(s), NEW rd \in Assigned \cup Scratch, NEW n \in Offsets
  PROVE  Puts(LoadFrom(rd, n), s, rd, Mem(s, n))
<1>1. /\ n \in Word /\ Reg(s, "sp") + n \in Word /\ Reg(s, "sp") \in Int /\ n \in Int
  BY HalfAssumption DEF Machine, Word
<1>2. Wrap(Reg(s, "sp") + n) - Reg(s, "sp") = n
  <2>1. Wrap(Reg(s, "sp") + n) = Reg(s, "sp") + n
    BY <1>1, WrapIsIdentityOnWords
  <2>2. QED
    BY <1>1, <2>1
<1>3. CASE FitsImm(n)
  <2>1. LoadFrom(rd, n) = RI("lw", rd, "sp", n)
    BY <1>3 DEF LoadFrom
  <2>2. Puts(RI("lw", rd, "sp", n), s, rd, Mem(s, n))
    BY <1>2, LoadRuns
  <2>3. QED
    BY <2>1, <2>2
<1>4. CASE ~FitsImm(n)
  <2> DEFINE first == AddImm(rd, "sp", n, rd)
             last == RI("lw", rd, rd, 0)
  <2>1. LoadFrom(rd, n) = first \o last
    BY <1>4 DEF LoadFrom
  <2>2. Puts(first, s, rd, Reg(s, "sp") + n)
    BY <1>4, AddressRuns
  <2>3. PICK t : Runs(first, s, t) /\ Only({rd}, s, t) /\ Reg(t, rd) = Reg(s, "sp") + n
    BY <2>2 DEF Puts
  <2>4. Reg(t, "sp") = Reg(s, "sp") /\ Machine(t) /\ Mem(t, n) = Mem(s, n)
    BY <2>3, NotScratch DEF Only, Mem
  <2>5. Wrap(Reg(t, rd) + 0) - Reg(t, "sp") = n
    <3>1. Reg(t, rd) + 0 = Reg(s, "sp") + n
      BY <1>1, <2>3
    <3>2. QED
      BY <1>2, <2>4, <3>1
  <2>6. Puts(last, t, rd, Mem(t, n))
    BY <2>4, <2>5, LoadRuns
  <2> HIDE DEF first, last
  <2>7. QED
    BY <2>1, <2>3, <2>4, <2>6, PutsThen
<1>5. QED
  BY <1>3, <1>4

\* Where a value can be.
Places == {InReg(r) : r \in Assigned} \cup {InSlot(n) : n \in Offsets}
Operands == Places \cup {Number(n) : n \in Word}

\* An operand arrives in the register it is read from.
LEMMA BringRuns ==
  ASSUME NEW s, Machine(s), NEW v \in Operands, NEW scratch \in Scratch
  PROVE  /\ Chosen(v, scratch) \in Assigned \cup {"zero", scratch}
         /\ \E t : /\ Runs(Bring(v, scratch), s, t) /\ Only({scratch}, s, t)
                   /\ Reg(t, Chosen(v, scratch)) = Held(v, s)
<1>0. Runs(<< >>, s, s) /\ Only({scratch}, s, s)
  BY RunsNothing DEF Only
<1>1. CASE v = Number(0)
  <2>1. v.kind = "const" /\ v.n = 0
    BY <1>1 DEF Number
  <2>2. Chosen(v, scratch) = "zero" /\ Bring(v, scratch) = << >>
    BY <1>1, <2>1 DEF Chosen, Bring
  <2>3. Held(v, s) = Reg(s, "zero")
    BY <2>1 DEF Held, Machine
  <2>4. QED
    BY <1>0, <2>2, <2>3
<1>2. CASE v # Number(0) /\ v \in {Number(n) : n \in Word}
  <2>1. PICK n \in Word : v = Number(n)
    BY <1>2
  <2>2. v.kind = "const" /\ v.n = n
    BY <2>1 DEF Number
  <2>3. Chosen(v, scratch) = scratch /\ Bring(v, scratch) = Materialize(n, scratch)
    BY <1>2, <2>2 DEF Chosen, Bring
  <2>4. Held(v, s) = n
    BY <2>2 DEF Held
  <2>5. Puts(Materialize(n, scratch), s, scratch, n)
    BY MaterializeRuns
  <2>6. QED
    BY <2>3, <2>4, <2>5 DEF Puts
<1>3. CASE v \in {InSlot(n) : n \in Offsets}
  <2>1. PICK n \in Offsets : v = InSlot(n)
    BY <1>3
  <2>2. v.kind = "slot" /\ v.n = n /\ v # Number(0)
    BY <2>1 DEF InSlot, Number
  <2>3. Chosen(v, scratch) = scratch /\ Bring(v, scratch) = LoadFrom(scratch, n)
    BY <2>2 DEF Chosen, Bring
  <2>4. Held(v, s) = Mem(s, n)
    BY <2>2 DEF Held, Mem
  <2>5. Puts(LoadFrom(scratch, n), s, scratch, Mem(s, n))
    BY SlotRuns
  <2>6. QED
    BY <2>3, <2>4, <2>5 DEF Puts
<1>4. CASE v \in {InReg(r) : r \in Assigned}
  <2>1. PICK r \in Assigned : v = InReg(r)
    BY <1>4
  <2>2. v.kind = "reg" /\ v.reg = r /\ v # Number(0)
    BY <2>1 DEF InReg, Number
  <2>3. Chosen(v, scratch) = r /\ Bring(v, scratch) = << >> /\ Held(v, s) = Reg(s, r)
    BY <2>2 DEF Chosen, Bring, Held, Reg
  <2>4. QED
    BY <1>0, <2>3
<1>5. QED
  BY <1>1, <1>2, <1>3, <1>4 DEF Operands, Places

\* What the places of operands hold before are words.
Typed(s) ==
  /\ Machine(s)
  /\ \A r \in RegNames : Reg(s, r) \in Word
  /\ \A n \in Offsets : Mem(s, n) \in Word

LEMMA HeldInWord ==
  ASSUME NEW s, Typed(s), NEW v \in Operands
  PROVE  Held(v, s) \in Word
<1>1. CASE v \in {Number(n) : n \in Word}
  BY <1>1 DEF Held, Number
<1>2. CASE v \in {InSlot(n) : n \in Offsets}
  BY <1>2 DEF Held, InSlot, Typed, Mem
<1>3. CASE v \in {InReg(r) : r \in Assigned}
  BY <1>3, NotScratch DEF Held, InReg, Typed, Reg
<1>4. QED
  BY <1>1, <1>2, <1>3 DEF Operands, Places

LEMMA HeldStill ==
  ASSUME NEW s, NEW t, Only(Scratch, s, t), NEW v \in Operands
  PROVE  Held(v, t) = Held(v, s)
<1>1. CASE v \in {Number(n) : n \in Word}
  BY <1>1 DEF Held, Number
<1>2. CASE v \in {InSlot(n) : n \in Offsets}
  BY <1>2 DEF Held, InSlot, Only
<1>3. CASE v \in {InReg(r) : r \in Assigned}
  <2>1. PICK r \in Assigned : v = InReg(r)
    BY <1>3
  <2>2. Reg(t, r) = Reg(s, r)
    BY NotScratch DEF Only
  <2>3. QED
    BY <2>1, <2>2 DEF Held, InReg, Reg
<1>4. QED
  BY <1>1, <1>2, <1>3 DEF Operands, Places

LEMMA BothRun ==
  ASSUME NEW s, Machine(s), NEW a \in Operands, NEW b \in Operands
  PROVE  /\ Chosen(a, "t0") \in Assigned \cup {"zero", "t0"}
         /\ Chosen(b, "t1") \in Assigned \cup {"zero", "t1"}
         /\ \E t : /\ Runs(Bring(a, "t0") \o Bring(b, "t1"), s, t) /\ Only(Scratch, s, t)
                   /\ Reg(t, Chosen(a, "t0")) = Held(a, s)
                   /\ Reg(t, Chosen(b, "t1")) = Held(b, s)
<1> DEFINE l == Chosen(a, "t0")
           r == Chosen(b, "t1")
           c == Bring(a, "t0")
           d == Bring(b, "t1")
<1>0. "t0" \in Scratch /\ "t1" \in Scratch /\ "t0" # "t1"
  BY DEF Scratch
<1>1. l \in Assigned \cup {"zero", "t0"} /\ r \in Assigned \cup {"zero", "t1"}
  BY <1>0, BringRuns
<1>2. PICK t : Runs(c, s, t) /\ Only({"t0"}, s, t) /\ Reg(t, l) = Held(a, s)
  BY <1>0, BringRuns
<1>3. Machine(t) /\ Only(Scratch, s, t)
  <2>1. {"t0"} \subseteq Scratch
    BY <1>0
  <2>2. QED
    BY <1>2, <2>1, OnlyWider DEF Only
<1>4. PICK u : Runs(d, t, u) /\ Only({"t1"}, t, u) /\ Reg(u, r) = Held(b, t)
  BY <1>0, <1>3, BringRuns
<1>5. Only(Scratch, t, u)
  <2>1. {"t1"} \subseteq Scratch
    BY <1>0
  <2>2. QED
    BY <1>4, <2>1, OnlyWider
<1>6. Reg(u, l) = Reg(t, l)
  <2>1. l \in RegNames /\ l \notin {"t1"}
    BY <1>0, <1>1, NotScratch DEF RegNames
  <2>2. QED
    BY <1>4, <2>1 DEF Only
<1>7. Held(b, t) = Held(b, s)
  BY <1>3, HeldStill
<1> HIDE DEF l, r, c, d
<1>8. Runs(c \o d, s, u) /\ Only(Scratch, s, u)
  BY <1>2, <1>3, <1>4, <1>5, RunsBoth, OnlyTwice
<1>9. Reg(u, l) = Held(a, s) /\ Reg(u, r) = Held(b, s)
  BY <1>2, <1>4, <1>6, <1>7
<1>10. \E w : Runs(c \o d, s, w) /\ Only(Scratch, s, w) /\ Reg(w, l) = Held(a, s) /\ Reg(w, r) = Held(b, s)
  BY <1>8, <1>9
<1>11. QED
  BY <1>1, <1>10 DEF l, r, c, d

\* A word is stored in its slot, near or far.
LEMMA StoreRuns ==
  ASSUME NEW s, Machine(s), NEW n \in Offsets
  PROVE  \E t : Runs(StoreTo("t2", n, "t0"), s, t) /\ Mem(t, n) = Reg(s, "t2")
<1>0. "t0" \in Scratch /\ "t2" \in RegNames /\ "t2" # "t0" /\ "sp" \in RegNames /\ "sp" # "t0"
  BY DEF Scratch, RegNames
<1>1. /\ n \in Word /\ Reg(s, "sp") + n \in Word /\ Reg(s, "sp") \in Int /\ n \in Int
  BY HalfAssumption DEF Machine, Word
<1>2. Wrap(Reg(s, "sp") + n) - Reg(s, "sp") = n
  <2>1. Wrap(Reg(s, "sp") + n) = Reg(s, "sp") + n
    BY <1>1, WrapIsIdentityOnWords
  <2>2. QED
    BY <1>1, <2>1
<1>3. ASSUME NEW u, Machine(u), NEW base, NEW imm,
             Wrap(Reg(u, base) + imm) - Reg(u, "sp") = n
      PROVE  \E t : Runs(RI("sw", "t2", base, imm), u, t) /\ Mem(t, n) = Reg(u, "t2")
  <2> DEFINE i == [op |-> "sw", rd |-> "t2", rs |-> base, rt |-> "zero", imm |-> imm]
             t == After(i, u)
  <2>1. i.op = "sw" /\ i.rd = "t2" /\ i.rs = base /\ i.imm = imm
    OBVIOUS
  <2>2. RI("sw", "t2", base, imm) = <<i>>
    BY DEF RI
  <2> HIDE DEF i
  <2>3. t = [regs |-> u.regs,
             mem |-> [u.mem EXCEPT ![Wrap(u.regs[base] + imm) - u.regs["sp"]] = u.regs["t2"]]]
    BY <2>1 DEF After
  <2>4. Wrap(u.regs[base] + imm) - u.regs["sp"] = n
    BY <1>3 DEF Reg
  <2> HIDE DEF t
  <2>5. t.mem = [u.mem EXCEPT ![n] = u.regs["t2"]]
    BY <2>3, <2>4
  <2>6. Mem(t, n) = Reg(u, "t2")
    BY <1>3, <2>5 DEF Mem, Reg, Machine
  <2>7. Straight(i)
    BY <2>1 DEF Straight
  <2>8. Runs(<<i>>, u, t)
    BY <2>7, RunsOne DEF t
  <2>9. QED
    BY <2>2, <2>6, <2>8
<1>4. CASE FitsImm(n)
  <2>1. StoreTo("t2", n, "t0") = RI("sw", "t2", "sp", n)
    BY <1>4 DEF StoreTo
  <2>2. QED
    BY <1>2, <1>3, <2>1
<1>5. CASE ~FitsImm(n)
  <2> DEFINE first == AddImm("t0", "sp", n, "t0")
             last == RI("sw", "t2", "t0", 0)
  <2>1. StoreTo("t2", n, "t0") = first \o last
    BY <1>5 DEF StoreTo
  <2>2. Puts(first, s, "t0", Reg(s, "sp") + n)
    BY <1>0, <1>5, AddressRuns
  <2>3. PICK u : Runs(first, s, u) /\ Only({"t0"}, s, u) /\ Reg(u, "t0") = Reg(s, "sp") + n
    BY <2>2 DEF Puts
  <2>4. Machine(u) /\ Reg(u, "sp") = Reg(s, "sp") /\ Reg(u, "t2") = Reg(s, "t2")
    BY <1>0, <2>3 DEF Only
  <2>5. Wrap(Reg(u, "t0") + 0) - Reg(u, "sp") = n
    <3>1. Reg(u, "t0") + 0 = Reg(s, "sp") + n
      BY <1>1, <2>3
    <3>2. QED
      BY <1>2, <2>4, <3>1
  <2>6. PICK t : Runs(last, u, t) /\ Mem(t, n) = Reg(u, "t2")
    BY <1>3, <2>4, <2>5
  <2> HIDE DEF first, last
  <2>7. Runs(first \o last, s, t)
    BY <2>3, <2>6, RunsBoth
  <2>8. QED
    BY <2>1, <2>4, <2>6, <2>7
<1>6. QED
  BY <1>4, <1>5

\* The value computed for a result is left in the result's place.
LEMMA SpillRuns ==
  ASSUME NEW s, Machine(s), NEW res \in Places
  PROVE  \E t : Runs(Spill(res), s, t) /\ Held(res, t) = Reg(s, Destination(res))
<1>1. CASE res \in {InReg(r) : r \in Assigned}
  <2>1. PICK r \in Assigned : res = InReg(r)
    BY <1>1
  <2>2. res.kind = "reg" /\ res.reg = r
    BY <2>1 DEF InReg
  <2>3. Spill(res) = << >> /\ Held(res, s) = Reg(s, Destination(res))
    BY <2>2 DEF Spill, Held, Destination, Reg
  <2>4. QED
    BY <2>3, RunsNothing
<1>2. CASE res \in {InSlot(n) : n \in Offsets}
  <2>1. PICK n \in Offsets : res = InSlot(n)
    BY <1>2
  <2>2. res.kind = "slot" /\ res.n = n
    BY <2>1 DEF InSlot
  <2>3. Spill(res) = StoreTo("t2", n, "t0") /\ Destination(res) = "t2"
    BY <2>2 DEF Spill, Destination
  <2>4. \A t : Held(res, t) = Mem(t, n)
    BY <2>2 DEF Held, Mem
  <2>5. QED
    BY <2>3, <2>4, StoreRuns
<1>3. QED
  BY <1>1, <1>2 DEF Places

\* c leaves v in rd, whatever it does to other registers.
Computes(c, s, rd, v) == \E t : Runs(c, s, t) /\ Machine(t) /\ Reg(t, rd) = v

LEMMA ComputesThen ==
  ASSUME NEW c, NEW d, NEW s, NEW t, NEW rd, NEW v,
         Runs(c, s, t), Puts(d, t, rd, v)
  PROVE  Computes(c \o d, s, rd, v)
<1>1. PICK u : Runs(d, t, u) /\ Only({rd}, t, u) /\ Reg(u, rd) = v
  BY DEF Puts
<1>2. Runs(c \o d, s, u) /\ Machine(u)
  BY <1>1, RunsBoth DEF Only
<1>3. QED
  BY <1>1, <1>2 DEF Computes

LEMMA ComputesAfter ==
  ASSUME NEW c, NEW d, NEW s, NEW t, NEW rd, NEW v,
         Runs(c, s, t), Computes(d, t, rd, v)
  PROVE  Computes(c \o d, s, rd, v)
<1>1. PICK u : Runs(d, t, u) /\ Machine(u) /\ Reg(u, rd) = v
  BY DEF Computes
<1>2. Runs(c \o d, s, u)
  BY <1>1, RunsBoth
<1>3. QED
  BY <1>1, <1>2 DEF Computes

LEMMA PowersSplitWidth ==
  ASSUME NEW d \in Bits \ {1, Half}
  PROVE  /\ d \in Nat /\ d > 1 /\ d < Half
         /\ (2 * Half) \div d \in Nat /\ (2 * Half) \div d > 1
         /\ d * ((2 * Half) \div d) = 2 * Half
<1> DEFINE w == 2 * Half
<1>1. d \in Nat \ {0} /\ d > 1 /\ d < Half
  BY HalfAssumption DEF Bits
<1>2. PICK j \in Nat : j > 1 /\ d * j = w
  BY BitsAreDivisors DEF BitOf
<1>3. w \in Int /\ w = d * j + 0 /\ 0 \in 0 .. d - 1
  BY <1>1, <1>2, HalfAssumption
<1> HIDE DEF w
<1>4. w \div d = j
  BY <1>1, <1>2, <1>3, QuotientUnique
<1>5. QED
  BY <1>1, <1>2, <1>4 DEF w

\* Divisions by powers of two: the quotient is built in t1 and the dividend stays
\* where it is until the result is written.
LEMMA DivisionRuns ==
  ASSUME NEW s, Machine(s), NEW op \in {"div", "rem"}, NEW d \in Bits \ {1, Half},
         NEW source \in RegNames, source # "t1", Reg(s, source) \in Word,
         NEW rd \in Assigned \cup Scratch
  PROVE  Computes(DivisionByPower(op, source, d, rd), s, rd, Operates(op, Reg(s, source), d))
<1> DEFINE x == Reg(s, source)
           m == (2 * Half) \div d
           sign == RI("srai", "t1", source, Half)
           bias == RI("srli", "t1", "t1", m)
           sum == RR("add", "t1", source, "t1")
           quotient == RI("srai", "t1", "t1", d)
           back == RI("slli", "t1", "t1", d)
           rest == RR("sub", rd, source, "t1")
           last == IF op = "div" THEN Copy(rd, "t1") ELSE back \o rest
<1>0. "t1" \in Assigned \cup Scratch /\ {"srai", "srli", "slli"} \subseteq ImmediateOps
      /\ {"add", "sub"} \subseteq RegisterOps
  BY DEF Scratch, ImmediateOps, RegisterOps
<1>1. DivisionByPower(op, source, d, rd) = sign \o bias \o sum \o quotient \o last
  BY DEF DivisionByPower
<1>2. ASSUME NEW t, Only({"t1"}, s, t)
      PROVE  Machine(t) /\ Reg(t, source) = x
  BY <1>2 DEF Only
<1> HIDE DEF x, m
<1>3. Operates("div", x, d) = Divide(x, d) /\ Operates("rem", x, d) = Remainder(x, d)
  BY DEF Operates
<1>4. /\ \A a : OperatesImmediate("srai", a, Half) = ShiftRight(a, Half)
      /\ \A a : OperatesImmediate("srli", a, m) = ShiftRightZeros(a, m)
      /\ \A a : OperatesImmediate("srai", a, d) = ShiftRight(a, d)
      /\ \A a : OperatesImmediate("slli", a, d) = ShiftLeft(a, d)
      /\ \A a, b : Operates("add", a, b) = Wrap(a + b)
      /\ \A a, b : Operates("sub", a, b) = Wrap(a - b)
  BY DEF OperatesImmediate, Operates
<1> HIDE DEF sign, bias, sum, quotient, back, rest, last
<1>5. PICK t1 : Runs(sign, s, t1) /\ Only({"t1"}, s, t1) /\ Reg(t1, "t1") = ShiftRight(x, Half)
  <2>1. Puts(sign, s, "t1", OperatesImmediate("srai", Reg(s, source), Half))
    BY <1>0, ImmediateRuns DEF sign
  <2>2. QED
    BY <1>4, <2>1 DEF Puts, x
<1>6. PICK t2 : Runs(bias, t1, t2) /\ Only({"t1"}, t1, t2) /\ Reg(t2, "t1") = Bias(x, m)
  <2>1. Puts(bias, t1, "t1", OperatesImmediate("srli", Reg(t1, "t1"), m))
    BY <1>0, <1>2, <1>5, ImmediateRuns DEF bias
  <2>2. QED
    BY <1>4, <1>5, <2>1 DEF Puts, Bias
<1>7. Only({"t1"}, s, t2) /\ Runs(sign \o bias, s, t2)
  BY <1>5, <1>6, OnlyTwice, RunsBoth
<1>8. PICK t3 : /\ Runs(sum, t2, t3) /\ Only({"t1"}, t2, t3)
                /\ Reg(t3, "t1") = Wrap(x + Bias(x, m))
  <2>1. Puts(sum, t2, "t1", Operates("add", Reg(t2, source), Reg(t2, "t1")))
    BY <1>0, <1>2, <1>7, RegisterRuns DEF sum
  <2>2. QED
    BY <1>2, <1>4, <1>6, <1>7, <2>1 DEF Puts
<1>9. Only({"t1"}, s, t3) /\ Runs(sign \o bias \o sum, s, t3)
  BY <1>7, <1>8, OnlyTwice, RunsBoth
<1>10. ShiftRight(Wrap(x + Bias(x, m)), d) = Divide(x, d) /\ x \in Word
  BY PowersSplitWidth, DivisionByShifts DEF m, x
<1>11. PICK t4 : /\ Runs(quotient, t3, t4) /\ Only({"t1"}, t3, t4)
                 /\ Reg(t4, "t1") = Divide(x, d)
  <2>1. Puts(quotient, t3, "t1", OperatesImmediate("srai", Reg(t3, "t1"), d))
    BY <1>0, <1>2, <1>9, ImmediateRuns DEF quotient
  <2>2. QED
    BY <1>4, <1>8, <1>10, <2>1 DEF Puts
<1>12. Only({"t1"}, s, t4) /\ Runs(sign \o bias \o sum \o quotient, s, t4)
  BY <1>9, <1>11, OnlyTwice, RunsBoth
<1>13. Computes(last, t4, rd, Operates(op, x, d))
  <2>1. CASE op = "div"
    <3>1. Divide(x, d) \in Word
      BY <1>10, PowersSplitWidth, QuotientOfWord, WrapIsIdentityOnWords DEF Divide
    <3>2. Puts(Copy(rd, "t1"), t4, rd, Divide(x, d))
      BY <1>2, <1>11, <1>12, <3>1, CopyRuns
    <3>3. QED
      BY <1>3, <2>1, <3>2 DEF last, Puts, Computes, Only
  <2>2. CASE op # "div"
    <3>1. Puts(back, t4, "t1", OperatesImmediate("slli", Reg(t4, "t1"), d))
      BY <1>0, <1>2, <1>12, ImmediateRuns DEF back
    <3>2. PICK t5 : /\ Runs(back, t4, t5) /\ Only({"t1"}, t4, t5)
                    /\ Reg(t5, "t1") = ShiftLeft(Divide(x, d), d)
      BY <1>4, <1>11, <3>1 DEF Puts
    <3>3. Only({"t1"}, s, t5)
      BY <1>12, <3>2, OnlyTwice
    <3>4. Puts(rest, t5, rd, Operates("sub", Reg(t5, source), Reg(t5, "t1")))
      BY <1>0, <1>2, <3>3, RegisterRuns DEF rest
    <3>5. Wrap(x - ShiftLeft(Divide(x, d), d)) = Remainder(x, d)
      BY <1>10, PowersSplitWidth, RemainderByShifts
    <3>6. Puts(rest, t5, rd, Remainder(x, d))
      BY <1>2, <1>4, <3>2, <3>3, <3>4, <3>5
    <3>7. Computes(back \o rest, t4, rd, Remainder(x, d))
      BY <3>2, <3>6, ComputesThen
    <3>8. QED
      BY <1>3, <2>2, <3>7 DEF last
  <2>3. QED
    BY <2>1, <2>2
<1>14. QED
  BY <1>1, <1>12, <1>13, ComputesAfter DEF x

\* An operand is brought and one instruction computes with it.
LEMMA OneOperandRuns ==
  ASSUME NEW s, Machine(s), NEW v \in Operands, NEW rd \in Assigned \cup Scratch,
         NEW op \in ImmediateOps, NEW imm
  PROVE  Computes(Bring(v, "t0") \o RI(op, rd, Chosen(v, "t0"), imm), s, rd,
                  OperatesImmediate(op, Held(v, s), imm))
<1> DEFINE c == Bring(v, "t0")
           l == Chosen(v, "t0")
           d == RI(op, rd, l, imm)
<1>1. PICK t : Runs(c, s, t) /\ Only({"t0"}, s, t) /\ Reg(t, l) = Held(v, s)
  BY BringRuns DEF Scratch
<1>2. Machine(t)
  BY <1>1 DEF Only
<1>3. Puts(d, t, rd, OperatesImmediate(op, Reg(t, l), imm))
  BY <1>2, ImmediateRuns
<1> HIDE DEF c, d, l
<1>4. Computes(c \o d, s, rd, OperatesImmediate(op, Held(v, s), imm))
  BY <1>1, <1>3, ComputesThen
<1>5. QED
  BY <1>4 DEF c, d, l

LEMMA SumRuns ==
  ASSUME NEW s, Typed(s), NEW v \in Operands, NEW rd \in Assigned \cup Scratch, NEW imm \in Int
  PROVE  Computes(Bring(v, "t0") \o Addi(rd, Chosen(v, "t0"), imm), s, rd, Wrap(Held(v, s) + imm))
<1> DEFINE c == Bring(v, "t0")
           l == Chosen(v, "t0")
           d == Addi(rd, l, imm)
<1>0. Machine(s) /\ Held(v, s) \in Word
  BY HeldInWord DEF Typed
<1>1. PICK t : Runs(c, s, t) /\ Only({"t0"}, s, t) /\ Reg(t, l) = Held(v, s)
  BY <1>0, BringRuns DEF Scratch
<1>2. Machine(t)
  BY <1>1 DEF Only
<1>3. Puts(d, t, rd, Wrap(Reg(t, l) + imm))
  BY <1>0, <1>1, <1>2, AddiRuns
<1> HIDE DEF c, d, l
<1>4. Computes(c \o d, s, rd, Wrap(Held(v, s) + imm))
  BY <1>1, <1>3, ComputesThen
<1>5. QED
  BY <1>4 DEF c, d, l

LEMMA TwoOperandsRun ==
  ASSUME NEW s, Machine(s), NEW a \in Operands, NEW b \in Operands,
         NEW rd \in Assigned \cup Scratch, NEW op \in RegisterOps
  PROVE  Computes(TwoRegisters(op, rd, a, b), s, rd, Operates(op, Held(a, s), Held(b, s)))
<1> DEFINE c == Bring(a, "t0") \o Bring(b, "t1")
           l == Chosen(a, "t0")
           r == Chosen(b, "t1")
           d == RR(op, rd, l, r)
<1>1. PICK t : /\ Runs(c, s, t) /\ Only(Scratch, s, t)
               /\ Reg(t, l) = Held(a, s) /\ Reg(t, r) = Held(b, s)
  BY BothRun
<1>2. Machine(t)
  BY <1>1 DEF Only
<1>3. Puts(d, t, rd, Operates(op, Reg(t, l), Reg(t, r)))
  BY <1>2, RegisterRuns
<1>4. TwoRegisters(op, rd, a, b) = c \o d
  BY DEF TwoRegisters
<1> HIDE DEF c, d, l, r
<1>5. Computes(c \o d, s, rd, Operates(op, Held(a, s), Held(b, s)))
  BY <1>1, <1>3, ComputesThen
<1>6. QED
  BY <1>4, <1>5

\* An addition of the negated constant is the subtraction, and operands of a sum
\* and of a conjunction may change places.
LEMMA FormsMean ==
  ASSUME NEW x \in Word, NEW y \in Word
  PROVE  /\ Wrap(x + y) = Operates("add", x, y) /\ Wrap(x + y) = Operates("add", y, x)
         /\ Wrap(x + (-y)) = Operates("sub", x, y)
         /\ OperatesImmediate("andi", x, y) = Operates("and", x, y)
         /\ OperatesImmediate("andi", x, y) = Operates("and", y, x)
<1>1. x + y = y + x /\ x + (-y) = x - y
  BY HalfAssumption DEF Word
<1>2. QED
  BY <1>1, BitAndCommutes DEF Operates, OperatesImmediate

LEMMA ConstantHeld ==
  ASSUME NEW v \in Operands, v.kind = "const", NEW s
  PROVE  v.n \in Word /\ v.n \in Int /\ -v.n \in Int /\ Held(v, s) = v.n
<1>1. PICK n \in Word : v = Number(n)
  BY DEF Operands, Places, InReg, InSlot, Number
<1>2. v.n = n /\ v.kind = "const"
  BY <1>1 DEF Number
<1>3. n \in Int /\ -n \in Int
  BY HalfAssumption DEF Word
<1>4. QED
  BY <1>2, <1>3 DEF Held

\* The form chosen computes what the instruction means.
Emitted(form, rd) ==
  IF form.op = "addi" THEN Addi(rd, Chosen(form.of, "t0"), form.imm)
  ELSE RI("andi", rd, Chosen(form.of, "t0"), form.imm)

LEMMA FormRuns ==
  ASSUME NEW s, Typed(s), NEW a \in Operands, NEW b \in Operands,
         NEW rd \in Assigned \cup Scratch, NEW op \in {"add", "sub", "mul", "div", "rem", "and"},
         NEW form \in ImmediateForms(op, a, b)
  PROVE  Computes(Bring(form.of, "t0") \o Emitted(form, rd), s, rd,
                  Operates(op, Held(a, s), Held(b, s)))
<1> DEFINE code0 == Bring(form.of, "t0") \o Emitted(form, rd)
           result == Operates(op, Held(a, s), Held(b, s))
<1>0. Held(a, s) \in Word /\ Held(b, s) \in Word /\ Machine(s) /\ "andi" \in ImmediateOps
  BY HeldInWord DEF Typed, ImmediateOps
<1>1. ASSUME NEW v \in Operands, NEW n \in Int, form = [op |-> "addi", of |-> v, imm |-> n]
      PROVE  Computes(code0, s, rd, Wrap(Held(v, s) + n))
  <2>1. form.op = "addi" /\ form.of = v /\ form.imm = n
    BY <1>1
  <2>2. code0 = Bring(v, "t0") \o Addi(rd, Chosen(v, "t0"), n)
    BY <2>1 DEF Emitted
  <2> HIDE DEF code0
  <2>3. QED
    BY <2>2, SumRuns
<1>2. ASSUME NEW v \in Operands, NEW n, form = [op |-> "andi", of |-> v, imm |-> n]
      PROVE  Computes(code0, s, rd, OperatesImmediate("andi", Held(v, s), n))
  <2>1. form.op = "andi" /\ form.of = v /\ form.imm = n
    BY <1>2
  <2>2. code0 = Bring(v, "t0") \o RI("andi", rd, Chosen(v, "t0"), n)
    BY <2>1 DEF Emitted
  <2> HIDE DEF code0
  <2>3. QED
    BY <1>0, <2>2, OneOperandRuns
<1> HIDE DEF code0
<1>3. CASE op = "and"
  <2>1. CASE a.kind = "const" /\ b.kind # "const"
    <3>1. form = [op |-> "andi", of |-> b, imm |-> a.n]
      BY <1>3, <2>1 DEF ImmediateForms
    <3>2. Held(a, s) = a.n
      BY <2>1, ConstantHeld
    <3>3. OperatesImmediate("andi", Held(b, s), a.n) = result
      BY <1>0, <1>3, <3>2, FormsMean
    <3> HIDE DEF result
    <3>4. Computes(code0, s, rd, OperatesImmediate("andi", Held(b, s), a.n))
      BY <1>2, <3>1
    <3>5. QED
      BY <3>3, <3>4 DEF code0, result
  <2>2. CASE ~(a.kind = "const" /\ b.kind # "const")
    <3>1. b.kind = "const" /\ form = [op |-> "andi", of |-> a, imm |-> b.n]
      BY <1>3, <2>2 DEF ImmediateForms
    <3>2. Held(b, s) = b.n
      BY <3>1, ConstantHeld
    <3>3. OperatesImmediate("andi", Held(a, s), b.n) = result
      BY <1>0, <1>3, <3>2, FormsMean
    <3> HIDE DEF result
    <3>4. Computes(code0, s, rd, OperatesImmediate("andi", Held(a, s), b.n))
      BY <1>2, <3>1
    <3>5. QED
      BY <3>3, <3>4 DEF code0, result
  <2>3. QED
    BY <2>1, <2>2
<1>4. CASE op = "sub"
  <2>1. b.kind = "const" /\ form = [op |-> "addi", of |-> a, imm |-> -b.n]
    BY <1>4 DEF ImmediateForms
  <2>2. Held(b, s) = b.n /\ -b.n \in Int
    BY <2>1, ConstantHeld
  <2>3. Wrap(Held(a, s) + (-b.n)) = result
    BY <1>0, <1>4, <2>2, FormsMean
  <2> HIDE DEF result
  <2>4. Computes(code0, s, rd, Wrap(Held(a, s) + (-b.n)))
    BY <1>1, <2>1, <2>2
  <2>5. QED
    BY <2>3, <2>4 DEF code0, result
<1>5. CASE op = "add"
  <2>1. CASE b.kind = "const"
    <3>1. form = [op |-> "addi", of |-> a, imm |-> b.n]
      BY <1>5, <2>1 DEF ImmediateForms
    <3>2. Held(b, s) = b.n /\ b.n \in Int
      BY <2>1, ConstantHeld
    <3>3. Wrap(Held(a, s) + b.n) = result
      BY <1>0, <1>5, <3>2, FormsMean
    <3> HIDE DEF result
    <3>4. Computes(code0, s, rd, Wrap(Held(a, s) + b.n))
      BY <1>1, <3>1, <3>2
    <3>5. QED
      BY <3>3, <3>4 DEF code0, result
  <2>2. CASE b.kind # "const"
    <3>1. a.kind = "const" /\ form = [op |-> "addi", of |-> b, imm |-> a.n]
      BY <1>5, <2>2 DEF ImmediateForms
    <3>2. Held(a, s) = a.n /\ a.n \in Int
      BY <3>1, ConstantHeld
    <3>3. Wrap(Held(b, s) + a.n) = result
      BY <1>0, <1>5, <3>2, FormsMean
    <3> HIDE DEF result
    <3>4. Computes(code0, s, rd, Wrap(Held(b, s) + a.n))
      BY <1>1, <3>1, <3>2
    <3>5. QED
      BY <3>3, <3>4 DEF code0, result
  <2>3. QED
    BY <2>1, <2>2
<1>6. op \in {"and", "sub", "add"}
  BY DEF ImmediateForms
<1>7. QED
  BY <1>3, <1>4, <1>5, <1>6

LEMMA BinaryRuns ==
  ASSUME NEW s, Typed(s), NEW a \in Operands, NEW b \in Operands,
         NEW rd \in Assigned \cup Scratch, NEW op \in {"add", "sub", "mul", "div", "rem", "and"}
  PROVE  Computes(LowerBinary(op, a, b, rd), s, rd, Operates(op, Held(a, s), Held(b, s)))
<1> DEFINE forms == ImmediateForms(op, a, b)
           form == CHOOSE f \in forms : TRUE
<1>0. Machine(s) /\ op \in RegisterOps
  BY DEF Typed, RegisterOps
<1>1. CASE op \in {"div", "rem"} /\ IsPower(b)
  <2> DEFINE c == Bring(a, "t0")
             l == Chosen(a, "t0")
             d == DivisionByPower(op, l, b.n, rd)
  <2>0. b.kind = "const" /\ b.n \in Bits \ {1, Half} /\ Held(b, s) = b.n
    BY <1>1, ConstantHeld DEF IsPower
  <2>1. LowerBinary(op, a, b, rd) = c \o d
    BY <1>1 DEF LowerBinary
  <2>2. l \in Assigned \cup {"zero", "t0"}
    BY <1>0, BringRuns DEF Scratch
  <2>3. PICK t : Runs(c, s, t) /\ Only({"t0"}, s, t) /\ Reg(t, l) = Held(a, s)
    BY <1>0, BringRuns DEF Scratch
  <2>4. l \in RegNames /\ l # "t1"
    BY <2>2, NotScratch DEF Scratch, RegNames
  <2>5. Machine(t) /\ Reg(t, l) \in Word
    BY <2>3, HeldInWord DEF Only
  <2>6. Computes(d, t, rd, Operates(op, Reg(t, l), b.n))
    BY <1>1, <2>0, <2>4, <2>5, DivisionRuns
  <2> HIDE DEF c, d, l
  <2>7. Computes(c \o d, s, rd, Operates(op, Held(a, s), Held(b, s)))
    BY <2>0, <2>3, <2>6, ComputesAfter
  <2>8. QED
    BY <2>1, <2>7
<1>2. CASE ~(op \in {"div", "rem"} /\ IsPower(b)) /\ forms # {}
  <2>1. form \in forms
    BY <1>2
  <2>2. LowerBinary(op, a, b, rd) = Bring(form.of, "t0") \o Emitted(form, rd)
    BY <1>2 DEF LowerBinary, Emitted
  <2> HIDE DEF form
  <2>3. QED
    BY <2>1, <2>2, FormRuns
<1>3. CASE ~(op \in {"div", "rem"} /\ IsPower(b)) /\ forms = {}
  <2>1. LowerBinary(op, a, b, rd) = TwoRegisters(op, rd, a, b)
    BY <1>3 DEF LowerBinary
  <2>2. QED
    BY <1>0, <2>1, TwoOperandsRun
<1>4. QED
  BY <1>1, <1>2, <1>3

LEMMA ShiftRuns ==
  ASSUME NEW s, Machine(s), NEW v \in Operands, NEW rd \in Assigned \cup Scratch,
         NEW op \in {"shl", "shr"}, NEW amount
  PROVE  Computes(LowerShift(op, v, amount, rd), s, rd,
                  IF op = "shl" THEN ShiftLeft(Held(v, s), Power(amount))
                  ELSE ShiftRight(Held(v, s), Power(amount)))
<1> DEFINE mnemonic == IF op = "shl" THEN "slli" ELSE "srai"
           p == Power(amount)
<1>1. mnemonic \in ImmediateOps
  BY DEF ImmediateOps
<1>2. LowerShift(op, v, amount, rd) = Bring(v, "t0") \o RI(mnemonic, rd, Chosen(v, "t0"), p)
  BY DEF LowerShift
<1>3. OperatesImmediate(mnemonic, Held(v, s), p)
        = IF op = "shl" THEN ShiftLeft(Held(v, s), p) ELSE ShiftRight(Held(v, s), p)
  BY DEF OperatesImmediate
<1> HIDE DEF mnemonic, p
<1>4. Computes(Bring(v, "t0") \o RI(mnemonic, rd, Chosen(v, "t0"), p), s, rd,
               OperatesImmediate(mnemonic, Held(v, s), p))
  BY <1>1, OneOperandRuns
<1>5. QED
  BY <1>2, <1>3, <1>4 DEF p

LEMMA NegRuns ==
  ASSUME NEW s, Typed(s), NEW v \in Operands, NEW rd \in Assigned \cup Scratch
  PROVE  Computes(Bring(v, "t0") \o RR("sub", rd, "zero", Chosen(v, "t0")), s, rd,
                  Wrap(-Held(v, s)))
<1> DEFINE c == Bring(v, "t0")
           l == Chosen(v, "t0")
           d == RR("sub", rd, "zero", l)
<1>0. Machine(s) /\ Held(v, s) \in Word /\ "sub" \in RegisterOps
  BY HeldInWord DEF Typed, RegisterOps
<1>1. PICK t : Runs(c, s, t) /\ Only({"t0"}, s, t) /\ Reg(t, l) = Held(v, s)
  BY <1>0, BringRuns DEF Scratch
<1>2. Machine(t) /\ Reg(t, "zero") = 0
  BY <1>1 DEF Only, Machine
<1>3. Puts(d, t, rd, Operates("sub", Reg(t, "zero"), Reg(t, l)))
  BY <1>0, <1>2, RegisterRuns
<1>4. Operates("sub", 0, Held(v, s)) = Wrap(-Held(v, s))
  <2>1. 0 - Held(v, s) = -Held(v, s)
    BY <1>0, HalfAssumption DEF Word
  <2>2. QED
    BY <2>1 DEF Operates
<1> HIDE DEF c, d, l
<1>5. Puts(d, t, rd, Wrap(-Held(v, s)))
  BY <1>1, <1>2, <1>3, <1>4
<1>6. Computes(c \o d, s, rd, Wrap(-Held(v, s)))
  BY <1>1, <1>5, ComputesThen
<1>7. QED
  BY <1>6 DEF c, d, l

\* Flipping the last bit negates a truth value; two words are equal if their
\* exclusive or is not greater than 0.
LEMMA TestsMean ==
  /\ \A p \in BOOLEAN : OperatesImmediate("xori", Truth(p), 1) = Truth(~p)
  /\ \A x, y \in Word :
       /\ OperatesImmediate("sltiu", Operates("xor", x, y), 1) = Truth(x = y)
       /\ Operates("sltu", 0, Operates("xor", x, y)) = Truth(x # y)
<1>1. ASSUME NEW p \in BOOLEAN
      PROVE  OperatesImmediate("xori", Truth(p), 1) = Truth(~p)
  BY XorFlips DEF OperatesImmediate, Operates, Truth
<1>2. ASSUME NEW x \in Word, NEW y \in Word
      PROVE  /\ OperatesImmediate("sltiu", Operates("xor", x, y), 1) = Truth(x = y)
             /\ Operates("sltu", 0, Operates("xor", x, y)) = Truth(x # y)
  <2> DEFINE z == BitXor(x, y)
  <2>1. z \in Word /\ (z = 0 <=> x = y)
    BY BitXorSound, XorCompares
  <2>2. Operates("xor", x, y) = z
    BY DEF Operates
  <2> HIDE DEF z
  <2>3. 0 \in Word /\ 1 \in Word
    BY HalfAssumption DEF Word
  <2>4. Unsigned(0) = 0 /\ Unsigned(1) = 1
    BY <2>3, UnsignedOfWord
  <2>5. Unsigned(z) \in Nat /\ (Unsigned(z) = 0 <=> z = 0)
    BY <2>1, UnsignedOfWord, HalfAssumption DEF Word
  <2>6. (Unsigned(z) < 1 <=> x = y) /\ (0 < Unsigned(z) <=> x # y)
    BY <2>1, <2>5
  <2>7. OperatesImmediate("sltiu", z, 1) = Truth(Unsigned(z) < 1)
    BY <2>4 DEF OperatesImmediate
  <2>8. Operates("sltu", 0, z) = Truth(0 < Unsigned(z))
    BY <2>4 DEF Operates
  <2>9. QED
    BY <2>2, <2>6, <2>7, <2>8 DEF Truth
<1>3. QED
  BY <1>1, <1>2

Compared(op, x, y) ==
  CASE op = "eq" -> x = y
    [] op = "ne" -> x # y
    [] op = "lt" -> x < y
    [] op = "gt" -> x > y
    [] op = "le" -> x <= y
    [] op = "ge" -> x >= y

LEMMA IcmpRuns ==
  ASSUME NEW s, Typed(s), NEW a \in Operands, NEW b \in Operands,
         NEW rd \in Assigned \cup Scratch, NEW op \in Comparisons
  PROVE  Computes(LowerIcmp(op, a, b, rd), s, rd, Truth(Compared(op, Held(a, s), Held(b, s))))
<1> DEFINE l == Chosen(a, "t0")
           r == Chosen(b, "t1")
           x == Held(a, s)
           y == Held(b, s)
           c == Bring(a, "t0") \o Bring(b, "t1")
           Slt(p, q) == RR("slt", rd, p, q)
           Flip == RI("xori", rd, rd, 1)
           Xor == RR("xor", rd, l, r)
           IsZero == RI("sltiu", rd, rd, 1)
           IsNonZero == RR("sltu", rd, "zero", rd)
           d == CASE op = "lt" -> Slt(l, r)
                  [] op = "gt" -> Slt(r, l)
                  [] op = "le" -> Slt(r, l) \o Flip
                  [] op = "ge" -> Slt(l, r) \o Flip
                  [] op = "eq" -> Xor \o IsZero
                  [] op = "ne" -> Xor \o IsNonZero
<1>0. /\ x \in Word /\ y \in Word /\ Machine(s)
      /\ {"slt", "xor", "sltu"} \subseteq RegisterOps /\ {"xori", "sltiu"} \subseteq ImmediateOps
  BY HeldInWord DEF Typed, RegisterOps, ImmediateOps
<1>1. LowerIcmp(op, a, b, rd) = c \o d
  BY DEF LowerIcmp
<1>2. PICK t : Runs(c, s, t) /\ Only(Scratch, s, t) /\ Reg(t, l) = x /\ Reg(t, r) = y
  BY <1>0, BothRun
<1>3. Machine(t)
  BY <1>2 DEF Only
<1> DEFINE less == Truth(x < y)
           more == Truth(y < x)
           z == Operates("xor", x, y)
<1>4. /\ Puts(Slt(l, r), t, rd, less) /\ Puts(Slt(r, l), t, rd, more) /\ Puts(Xor, t, rd, z)
  <2>1. \A p, q : Operates("slt", p, q) = Truth(p < q)
    BY DEF Operates
  <2>2. /\ Puts(Slt(l, r), t, rd, Operates("slt", Reg(t, l), Reg(t, r)))
        /\ Puts(Slt(r, l), t, rd, Operates("slt", Reg(t, r), Reg(t, l)))
        /\ Puts(Xor, t, rd, Operates("xor", Reg(t, l), Reg(t, r)))
    BY <1>0, <1>3, RegisterRuns
  <2>3. QED
    BY <1>2, <2>1, <2>2
<1> HIDE DEF l, r, c, x, y, z
<1>5. ASSUME NEW first, NEW value, Puts(first, t, rd, value),
             NEW op2 \in ImmediateOps, NEW last, last = RI(op2, rd, rd, 1)
      PROVE  Puts(first \o last, t, rd, OperatesImmediate(op2, value, 1))
  <2>1. PICK u : Runs(first, t, u) /\ Only({rd}, t, u) /\ Reg(u, rd) = value
    BY <1>5 DEF Puts
  <2>2. Puts(last, u, rd, OperatesImmediate(op2, Reg(u, rd), 1))
    BY <1>5, <2>1, ImmediateRuns DEF Only
  <2>3. QED
    BY <2>1, <2>2, PutsThen
<1>6. Puts(Xor \o IsNonZero, t, rd, Operates("sltu", 0, z))
  <2>1. PICK u : Runs(Xor, t, u) /\ Only({rd}, t, u) /\ Reg(u, rd) = z
    BY <1>4 DEF Puts
  <2>2. Machine(u) /\ Reg(u, "zero") = 0
    BY <2>1 DEF Only, Machine
  <2>3. Puts(IsNonZero, u, rd, Operates("sltu", Reg(u, "zero"), Reg(u, rd)))
    BY <1>0, <2>2, RegisterRuns
  <2> HIDE DEF Xor, IsNonZero
  <2>4. Puts(IsNonZero, u, rd, Operates("sltu", 0, z))
    BY <2>1, <2>2, <2>3
  <2>5. QED
    BY <2>1, <2>4, PutsThen
<1>7. /\ Puts(Slt(r, l) \o Flip, t, rd, OperatesImmediate("xori", more, 1))
      /\ Puts(Slt(l, r) \o Flip, t, rd, OperatesImmediate("xori", less, 1))
      /\ Puts(Xor \o IsZero, t, rd, OperatesImmediate("sltiu", z, 1))
  BY <1>0, <1>4, <1>5
<1>8. /\ OperatesImmediate("xori", more, 1) = Truth(~(y < x))
      /\ OperatesImmediate("xori", less, 1) = Truth(~(x < y))
      /\ OperatesImmediate("sltiu", z, 1) = Truth(x = y)
      /\ Operates("sltu", 0, z) = Truth(x # y)
  <2>1. (y < x) \in BOOLEAN /\ (x < y) \in BOOLEAN
    BY <1>0
  <2>2. \A p \in BOOLEAN : OperatesImmediate("xori", Truth(p), 1) = Truth(~p)
    BY TestsMean
  <2>3. OperatesImmediate("xori", Truth(y < x), 1) = Truth(~(y < x))
    BY <2>1, <2>2, Zenon
  <2>4. OperatesImmediate("xori", Truth(x < y), 1) = Truth(~(x < y))
    BY <2>1, <2>2, Zenon
  <2>5. /\ OperatesImmediate("sltiu", z, 1) = Truth(x = y)
        /\ Operates("sltu", 0, z) = Truth(x # y)
    BY <1>0, TestsMean DEF z
  <2>6. QED
    BY <2>3, <2>4, <2>5
<1>9. /\ op = "lt" => less = Truth(Compared(op, x, y))
      /\ op = "gt" => more = Truth(Compared(op, x, y))
      /\ op = "le" => Truth(~(y < x)) = Truth(Compared(op, x, y))
      /\ op = "ge" => Truth(~(x < y)) = Truth(Compared(op, x, y))
      /\ op = "eq" => Truth(x = y) = Truth(Compared(op, x, y))
      /\ op = "ne" => Truth(x # y) = Truth(Compared(op, x, y))
  <2>1. x \in Int /\ y \in Int
    BY <1>0, HalfAssumption DEF Word
  <2>2. (y < x <=> x > y) /\ (~(y < x) <=> x <= y) /\ (~(x < y) <=> x >= y)
    BY <2>1
  <2>3. QED
    BY <2>2 DEF Compared, Truth
<1>10. Puts(d, t, rd, Truth(Compared(op, x, y)))
  <2> HIDE DEF Slt, Flip, Xor, IsZero, IsNonZero, less, more
  <2>1. CASE op = "lt"
    BY <1>4, <1>9, <2>1
  <2>2. CASE op = "gt"
    BY <1>4, <1>9, <2>2
  <2>3. CASE op = "le"
    BY <1>7, <1>8, <1>9, <2>3
  <2>4. CASE op = "ge"
    BY <1>7, <1>8, <1>9, <2>4
  <2>5. CASE op = "eq"
    BY <1>7, <1>8, <1>9, <2>5
  <2>6. CASE op = "ne"
    BY <1>6, <1>8, <1>9, <2>6
  <2>7. QED
    BY <2>1, <2>2, <2>3, <2>4, <2>5, <2>6 DEF Comparisons
<1> HIDE DEF d
<1>11. Computes(c \o d, s, rd, Truth(Compared(op, x, y)))
  BY <1>2, <1>10, ComputesThen
<1>12. QED
  BY <1>1, <1>11 DEF x, y

\* The instructions start with words everywhere.
LEMMA StartsTyped == \A s \in Starts : Typed(s)
<1> SUFFICES ASSUME NEW s \in Starts PROVE Typed(s)
  OBVIOUS
<1>1. /\ s.regs \in [RegNames -> Word] /\ s.mem \in [Offsets -> Word] /\ s.regs["zero"] = 0
      /\ "sp" \in RegNames /\ \A n \in Offsets : n \in Word /\ s.regs["sp"] + n \in Word
  BY StartsFormed DEF RegNames
<1>2. Machine(s)
  BY <1>1 DEF Machine, Reg
<1>3. QED
  BY <1>1, <1>2 DEF Typed, Reg, Mem

Unary == {"shl", "shr", "neg", "test"}

LEMMA ArgumentsPlaced ==
  ASSUME NEW i \in Instructions
  PROVE  i.args[1] \in Operands /\ (i.op \notin Unary => i.args[2] \in Operands)
<1>1. \A k \in DOMAIN i.args : i.args[k] \in Operands
  BY InstructionsFormed DEF Operands, Places
<1>2. DOMAIN i.args = IF i.op \in Unary THEN {1} ELSE {1, 2}
  BY InstructionsFormed DEF Unary
<1>3. QED
  BY <1>1, <1>2

LEMMA MeaningOf ==
  ASSUME NEW i \in Instructions, NEW s
  PROVE  LET x == Held(i.args[1], s)
             y == Held(i.args[2], s)
         IN  /\ i.op \in {"add", "sub", "mul", "div", "rem", "and"} =>
                  Meaning(i, s) = Operates(i.op, x, y)
             /\ i.op \in {"shl", "shr"} =>
                  Meaning(i, s) = IF i.op = "shl" THEN ShiftLeft(x, Power(i.amount))
                                  ELSE ShiftRight(x, Power(i.amount))
             /\ i.op = "neg" => Meaning(i, s) = Wrap(-x)
             /\ i.op \in Comparisons => Meaning(i, s) = Truth(Compared(i.op, x, y))
             /\ i.op = "test" => Meaning(i, s) = Truth(Compared("ne", x, 0))
<1> DEFINE x == Held(i.args[1], s)
           y == Held(i.args[2], s)
<1>1. Meaning(i, s) =
        CASE i.op \in {"add", "sub", "mul", "div", "rem", "and"} -> Operates(i.op, x, y)
          [] i.op = "shl" -> ShiftLeft(x, Power(i.amount))
          [] i.op = "shr" -> ShiftRight(x, Power(i.amount))
          [] i.op = "neg" -> Wrap(-x)
          [] i.op = "eq" -> Truth(x = y)
          [] i.op = "ne" -> Truth(x # y)
          [] i.op = "lt" -> Truth(x < y)
          [] i.op = "gt" -> Truth(x > y)
          [] i.op = "le" -> Truth(x <= y)
          [] i.op = "ge" -> Truth(x >= y)
          [] i.op = "test" -> Truth(x # 0)
  BY DEF Meaning
<1> HIDE DEF x, y
<1>2. /\ Compared("eq", x, y) = (x = y) /\ Compared("ne", x, y) = (x # y)
      /\ Compared("lt", x, y) = (x < y) /\ Compared("gt", x, y) = (x > y)
      /\ Compared("le", x, y) = (x <= y) /\ Compared("ge", x, y) = (x >= y)
      /\ Compared("ne", x, 0) = (x # 0)
  BY DEF Compared
<1>3. i.op = "shl" => Meaning(i, s) = ShiftLeft(x, Power(i.amount))
  BY <1>1
<1>4. i.op = "shr" => Meaning(i, s) = ShiftRight(x, Power(i.amount))
  BY <1>1
<1>5. i.op = "neg" => Meaning(i, s) = Wrap(-x)
  BY <1>1
<1>6. i.op \in {"add", "sub", "mul", "div", "rem", "and"} => Meaning(i, s) = Operates(i.op, x, y)
  BY <1>1
<1>7. ASSUME i.op \in Comparisons
      PROVE  Meaning(i, s) = Truth(Compared(i.op, x, y))
  BY <1>1, <1>2, <1>7 DEF Comparisons
<1>8. i.op = "test" => Meaning(i, s) = Truth(Compared("ne", x, 0))
  BY <1>1, <1>2
<1>9. QED
  BY <1>3, <1>4, <1>5, <1>6, <1>7, <1>8 DEF x, y

\* What is not a branch: its code leaves its value in its place.
LEMMA Delivered ==
  ASSUME NEW i \in Instructions, i.branch = "none", NEW s \in Starts
  PROVE  \E t : Runs(Lowered(i), s, t) /\ Held(i.res, t) = Meaning(i, s)
<1> DEFINE a == i.args[1]
           b == i.args[2]
           rd == Destination(i.res)
           spill == Spill(i.res)
<1>0. Typed(s) /\ Machine(s) /\ i.res \in Places /\ i.op # "test"
  BY StartsTyped, InstructionsFormed DEF Typed, Places
<1>1. rd \in Assigned \cup Scratch
  BY <1>0 DEF Destination, Places, InReg, InSlot, Scratch
<1>2. a \in Operands /\ (i.op \notin Unary => b \in Operands)
  BY ArgumentsPlaced
<1>3. \E body : Lowered(i) = body \o spill /\ Computes(body, s, rd, Meaning(i, s))
  <2>1. CASE i.op \in {"add", "sub", "mul", "div", "rem", "and"}
    <3>1. Lowered(i) = LowerBinary(i.op, a, b, rd) \o spill
      BY <2>1 DEF Lowered, Comparisons
    <3>2. i.op \notin Unary
      BY <2>1 DEF Unary
    <3>3. Meaning(i, s) = Operates(i.op, Held(a, s), Held(b, s))
      BY <2>1, MeaningOf
    <3>4. Computes(LowerBinary(i.op, a, b, rd), s, rd, Operates(i.op, Held(a, s), Held(b, s)))
      BY <1>0, <1>1, <1>2, <2>1, <3>2, BinaryRuns
    <3>5. QED
      BY <3>1, <3>3, <3>4
  <2>2. CASE i.op \in {"shl", "shr"}
    <3>1. Lowered(i) = LowerShift(i.op, a, i.amount, rd) \o spill
      BY <2>2 DEF Lowered, Comparisons
    <3>2. Meaning(i, s) = IF i.op = "shl" THEN ShiftLeft(Held(a, s), Power(i.amount))
                          ELSE ShiftRight(Held(a, s), Power(i.amount))
      BY <2>2, MeaningOf
    <3>3. Computes(LowerShift(i.op, a, i.amount, rd), s, rd,
                   IF i.op = "shl" THEN ShiftLeft(Held(a, s), Power(i.amount))
                   ELSE ShiftRight(Held(a, s), Power(i.amount)))
      BY <1>0, <1>1, <1>2, <2>2, ShiftRuns
    <3>4. QED
      BY <3>1, <3>2, <3>3
  <2>3. CASE i.op = "neg"
    <3> DEFINE body == Bring(a, "t0") \o RR("sub", rd, "zero", Chosen(a, "t0"))
    <3>1. Lowered(i) = body \o spill
      BY <2>3 DEF Lowered, Comparisons
    <3>2. Meaning(i, s) = Wrap(-Held(a, s))
      BY <2>3, MeaningOf
    <3>3. Computes(body, s, rd, Wrap(-Held(a, s)))
      BY <1>0, <1>1, <1>2, NegRuns
    <3>4. QED
      BY <3>1, <3>2, <3>3
  <2>4. CASE i.op \in Comparisons
    <3>1. Lowered(i) = LowerIcmp(i.op, a, b, rd) \o spill
      BY <2>4 DEF Lowered, Comparisons
    <3>2. i.op \notin Unary
      BY <2>4 DEF Unary, Comparisons
    <3>3. Meaning(i, s) = Truth(Compared(i.op, Held(a, s), Held(b, s)))
      BY <2>4, MeaningOf
    <3>4. Computes(LowerIcmp(i.op, a, b, rd), s, rd, Truth(Compared(i.op, Held(a, s), Held(b, s))))
      BY <1>0, <1>1, <1>2, <2>4, <3>2, IcmpRuns
    <3>5. QED
      BY <3>1, <3>3, <3>4
  <2>5. QED
    BY <1>0, <2>1, <2>2, <2>3, <2>4, InstructionsFormed DEF Comparisons
<1>4. PICK body : Lowered(i) = body \o spill /\ Computes(body, s, rd, Meaning(i, s))
  BY <1>3
<1>5. PICK t : Runs(body, s, t) /\ Machine(t) /\ Reg(t, rd) = Meaning(i, s)
  BY <1>4 DEF Computes
<1>6. PICK u : Runs(spill, t, u) /\ Held(i.res, u) = Reg(t, rd)
  BY <1>0, <1>5, SpillRuns
<1> HIDE DEF spill, rd
<1>7. Runs(body \o spill, s, u)
  BY <1>5, <1>6, RunsBoth
<1>8. QED
  BY <1>4, <1>5, <1>6, <1>7
-----------------------------------------------------------------------------
(* Branches. *)

Jumps == {"beq", "bne", "blt", "bge", "j"}
TakenIn(i, t) == Taken(i.op, t.regs[i.rs], t.regs[i.rt])

\* After n instructions without jumps, in the state t, one or two jumps lead to
\* the target.
JumpsTo(c, n, t, branch, target) ==
  /\ Len(c) \in {n + 1, n + 2}
  /\ c[n + 1].op \in Jumps
  /\ TakenIn(c[n + 1], t) => c[n + 1].to = target
  /\ ~TakenIn(c[n + 1], t) =>
       IF Len(c) = n + 1 THEN FallsTo(branch) = target
       ELSE c[n + 2].op = "j" /\ c[n + 2].to = target
  /\ Len(c) = n + 2 => c[n + 2].op = "j"

\* f goes through the n instructions of c that come before its jumps, if it has any.
Path(i, s, c, f, n) ==
  /\ n \in Nat /\ Len(c) \in Nat
  /\ f[1] = s
  /\ \A k \in 1 .. n : Straight(c[k]) /\ f[k + 1] = After(c[k], f[k])
  /\ i.branch = "none" => n = Len(c) /\ Held(i.res, f[n + 1]) = Meaning(i, s)
  /\ i.branch # "none" =>
       JumpsTo(c, n, f[n + 1], i.branch, IF Meaning(i, s) = 1 THEN "true" ELSE "false")

\* When a jump is taken, of the comparison it stands for.
LEMMA JumpsCompare ==
  ASSUME NEW x \in Int, NEW y \in Int
  PROVE  /\ Taken("beq", x, y) <=> Compared("eq", x, y)
         /\ Taken("bne", x, y) <=> Compared("ne", x, y)
         /\ Taken("blt", x, y) <=> Compared("lt", x, y)
         /\ Taken("bge", x, y) <=> Compared("ge", x, y)
         /\ Taken("blt", y, x) <=> Compared("gt", x, y)
         /\ Taken("bge", y, x) <=> Compared("le", x, y)
         /\ Compared("ne", x, y) <=> ~Compared("eq", x, y)
         /\ Compared("ge", x, y) <=> ~Compared("lt", x, y)
         /\ Compared("le", x, y) <=> ~Compared("gt", x, y)
<1>1. /\ Compared("eq", x, y) <=> x = y
      /\ Compared("ne", x, y) <=> x # y
  BY DEF Compared
<1>2. /\ Compared("lt", x, y) <=> x < y
      /\ Compared("gt", x, y) <=> x > y
      /\ Compared("le", x, y) <=> x <= y
      /\ Compared("ge", x, y) <=> x >= y
  BY DEF Compared
<1>3. /\ Taken("beq", x, y) <=> x = y
      /\ Taken("bne", x, y) <=> x # y
  BY DEF Taken
<1>4. /\ Taken("blt", x, y) <=> x < y
      /\ Taken("bge", x, y) <=> x >= y
      /\ Taken("blt", y, x) <=> y < x
      /\ Taken("bge", y, x) <=> y >= x
  BY DEF Taken
<1>5. QED
  BY <1>1, <1>2, <1>3, <1>4

LEMMA ComparisonsJump ==
  ASSUME NEW op \in Comparisons, NEW l, NEW r, NEW to, NEW t,
         Reg(t, l) \in Word, Reg(t, r) \in Word
  PROVE  /\ \E j : /\ Holds(op, l, r, to) = <<j>> /\ j.op \in Jumps /\ j.to = to
                   /\ TakenIn(j, t) <=> Compared(op, Reg(t, l), Reg(t, r))
         /\ \E j : /\ Fails(op, l, r, to) = <<j>> /\ j.op \in Jumps /\ j.to = to
                   /\ TakenIn(j, t) <=> ~Compared(op, Reg(t, l), Reg(t, r))
<1> DEFINE x == Reg(t, l)
           y == Reg(t, r)
           J(m, p, q) == [op |-> m, rs |-> p, rt |-> q, to |-> to]
<1>1. ASSUME NEW m \in Jumps, NEW p, NEW q
      PROVE  /\ Branch(m, p, q, to) = <<J(m, p, q)>>
             /\ J(m, p, q).op \in Jumps /\ J(m, p, q).to = to
             /\ TakenIn(J(m, p, q), t) = Taken(m, Reg(t, p), Reg(t, q))
  BY DEF Branch, TakenIn, Reg
<1>2. x \in Int /\ y \in Int
  BY HalfAssumption DEF Word
<1>3. {"beq", "bne", "blt", "bge"} \subseteq Jumps
  BY DEF Jumps
<1> HIDE DEF J
<1>4. ASSUME NEW m \in Jumps, NEW p, NEW q, NEW c, c = Branch(m, p, q, to), NEW truth,
             Taken(m, Reg(t, p), Reg(t, q)) <=> truth
      PROVE  \E j : c = <<j>> /\ j.op \in Jumps /\ j.to = to /\ (TakenIn(j, t) <=> truth)
  BY <1>1, <1>4
<1>5. CASE op = "eq"
  <2>1. Holds(op, l, r, to) = Branch("beq", l, r, to) /\ Fails(op, l, r, to) = Branch("bne", l, r, to)
    BY <1>5 DEF Holds, Fails
  <2>2. /\ Taken("beq", x, y) <=> Compared(op, x, y)
        /\ Taken("bne", x, y) <=> ~Compared(op, x, y)
    BY <1>2, <1>5, JumpsCompare
  <2>3. QED
    BY <1>3, <1>4, <2>1, <2>2
<1>6. CASE op = "ne"
  <2>1. Holds(op, l, r, to) = Branch("bne", l, r, to) /\ Fails(op, l, r, to) = Branch("beq", l, r, to)
    BY <1>6 DEF Holds, Fails
  <2>2. /\ Taken("bne", x, y) <=> Compared(op, x, y)
        /\ Taken("beq", x, y) <=> ~Compared(op, x, y)
    BY <1>2, <1>6, JumpsCompare
  <2>3. QED
    BY <1>3, <1>4, <2>1, <2>2
<1>7. CASE op = "lt"
  <2>1. Holds(op, l, r, to) = Branch("blt", l, r, to) /\ Fails(op, l, r, to) = Branch("bge", l, r, to)
    BY <1>7 DEF Holds, Fails
  <2>2. /\ Taken("blt", x, y) <=> Compared(op, x, y)
        /\ Taken("bge", x, y) <=> ~Compared(op, x, y)
    BY <1>2, <1>7, JumpsCompare
  <2>3. QED
    BY <1>3, <1>4, <2>1, <2>2
<1>8. CASE op = "gt"
  <2>1. Holds(op, l, r, to) = Branch("blt", r, l, to) /\ Fails(op, l, r, to) = Branch("bge", r, l, to)
    BY <1>8 DEF Holds, Fails
  <2>2. /\ Taken("blt", y, x) <=> Compared(op, x, y)
        /\ Taken("bge", y, x) <=> ~Compared(op, x, y)
    BY <1>2, <1>8, JumpsCompare
  <2>3. QED
    BY <1>3, <1>4, <2>1, <2>2
<1>9. CASE op = "le"
  <2>1. Holds(op, l, r, to) = Branch("bge", r, l, to) /\ Fails(op, l, r, to) = Branch("blt", r, l, to)
    BY <1>9 DEF Holds, Fails
  <2>2. /\ Taken("bge", y, x) <=> Compared(op, x, y)
        /\ Taken("blt", y, x) <=> ~Compared(op, x, y)
    BY <1>2, <1>9, JumpsCompare
  <2>3. QED
    BY <1>3, <1>4, <2>1, <2>2
<1>10. CASE op = "ge"
  <2>1. Holds(op, l, r, to) = Branch("bge", l, r, to) /\ Fails(op, l, r, to) = Branch("blt", l, r, to)
    BY <1>10 DEF Holds, Fails
  <2>2. /\ Taken("bge", x, y) <=> Compared(op, x, y)
        /\ Taken("blt", x, y) <=> ~Compared(op, x, y)
    BY <1>2, <1>10, JumpsCompare
  <2>3. QED
    BY <1>3, <1>4, <2>1, <2>2
<1>11. QED
  BY <1>5, <1>6, <1>7, <1>8, <1>9, <1>10 DEF Comparisons

\* Whichever target is placed next, the jumps after the code c lead to the right one.
LEMMA BranchRuns ==
  ASSUME NEW c, NEW s, NEW t, NEW f, Run(c, s, f), f[Len(c) + 1] = t,
         NEW op \in Comparisons, NEW l, NEW r, Reg(t, l) \in Word, Reg(t, r) \in Word,
         NEW branch \in {"then", "else", "apart"},
         NEW target, target = IF Compared(op, Reg(t, l), Reg(t, r)) THEN "true" ELSE "false"
  PROVE  LET d == c \o BranchOn(op, l, r, branch)
         IN  /\ JumpsTo(d, Len(c), t, branch, target) /\ Len(d) \in Nat
             /\ \A k \in 1 .. Len(c) : d[k] = c[k]
<1> DEFINE d == c \o BranchOn(op, l, r, branch)
           n == Len(c)
           holds == Compared(op, Reg(t, l), Reg(t, r))
<1>0. IsSequence(c) /\ n \in Nat
  BY DEF Run, IsSequence
<1>1. CASE branch = "then"
  <2>1. PICK j : Fails(op, l, r, "false") = <<j>> /\ j.op \in Jumps /\ j.to = "false"
                 /\ (TakenIn(j, t) <=> ~holds)
    BY ComparisonsJump
  <2>2. d = c \o <<j>>
    BY <1>1, <2>1 DEF BranchOn
  <2> HIDE DEF d, holds
  <2>3. Len(d) = n + 1 /\ d[n + 1] = j /\ \A k \in 1 .. n : d[k] = c[k]
    BY <1>0, <2>2, OneMore
  <2>4. FallsTo(branch) = "true"
    BY <1>1 DEF FallsTo
  <2> HIDE DEF n
  <2>5. target = IF holds THEN "true" ELSE "false"
    BY DEF holds
  <2>6. JumpsTo(d, n, t, branch, target) /\ Len(d) \in Nat
    BY <1>0, <2>1, <2>3, <2>4, <2>5 DEF JumpsTo
  <2>7. QED
    BY <2>3, <2>6 DEF d, n
<1>2. CASE branch = "else"
  <2>1. PICK j : Holds(op, l, r, "true") = <<j>> /\ j.op \in Jumps /\ j.to = "true"
                 /\ (TakenIn(j, t) <=> holds)
    BY ComparisonsJump
  <2>2. d = c \o <<j>>
    BY <1>2, <2>1 DEF BranchOn
  <2> HIDE DEF d, holds
  <2>3. Len(d) = n + 1 /\ d[n + 1] = j /\ \A k \in 1 .. n : d[k] = c[k]
    BY <1>0, <2>2, OneMore
  <2>4. FallsTo(branch) = "false"
    BY <1>2 DEF FallsTo
  <2> HIDE DEF n
  <2>5. target = IF holds THEN "true" ELSE "false"
    BY DEF holds
  <2>6. JumpsTo(d, n, t, branch, target) /\ Len(d) \in Nat
    BY <1>0, <2>1, <2>3, <2>4, <2>5 DEF JumpsTo
  <2>7. QED
    BY <2>3, <2>6 DEF d, n
<1>3. CASE branch = "apart"
  <2>1. PICK j : Holds(op, l, r, "true") = <<j>> /\ j.op \in Jumps /\ j.to = "true"
                 /\ (TakenIn(j, t) <=> holds)
    BY ComparisonsJump
  <2> DEFINE g == [op |-> "j", rs |-> "zero", rt |-> "zero", to |-> "false"]
             e == c \o <<j>>
  <2>2. d = c \o (<<j>> \o <<g>>)
    BY <1>3, <2>1 DEF BranchOn, Branch
  <2>3. g.op = "j" /\ g.to = "false"
    OBVIOUS
  <2> HIDE DEF d, g, holds
  <2>4. d = e \o <<g>>
    <3>1. IsSequence(<<j>>) /\ IsSequence(<<g>>)
      BY SingletonIsSequence
    <3>2. Join(c, Join(<<j>>, <<g>>)) = Join(Join(c, <<j>>), <<g>>)
      BY <1>0, <3>1, JoinRegroups
    <3>3. c \o (<<j>> \o <<g>>) = (c \o <<j>>) \o <<g>>
      BY <3>2, Zenon DEF Join
    <3>4. QED
      BY <2>2, <3>3
  <2>5. /\ IsSequence(e) /\ Len(e) = n + 1 /\ e[n + 1] = j
        /\ \A k \in 1 .. n : e[k] = c[k]
    BY <1>0, OneMore
  <2> HIDE DEF e, n
  <2>6. /\ Len(d) = Len(e) + 1 /\ d[Len(e) + 1] = g
        /\ \A k \in 1 .. Len(e) : d[k] = e[k]
    <3>1. Extension(d, e, g)
      BY <2>4, <2>5, OneMoreBy
    <3>2. QED
      BY <3>1 DEF Extension
  <2>7. /\ Len(d) = n + 2 /\ d[n + 2] = g /\ d[n + 1] = j
        /\ \A k \in 1 .. n : d[k] = c[k]
    BY <1>0, <2>5, <2>6
  <2>8. target = IF holds THEN "true" ELSE "false"
    BY DEF holds
  <2>9. JumpsTo(d, n, t, branch, target) /\ Len(d) \in Nat
    BY <1>0, <2>1, <2>3, <2>7, <2>8 DEF JumpsTo
  <2>10. QED
    BY <2>7, <2>9 DEF d, n
<1>4. QED
  BY <1>1, <1>2, <1>3

LEMMA Branches ==
  ASSUME NEW i \in Instructions, i.branch # "none", NEW s \in Starts
  PROVE  \E f, n : Path(i, s, Lowered(i), f, n)
<1> DEFINE a == i.args[1]
           b == i.args[2]
           target == IF Meaning(i, s) = 1 THEN "true" ELSE "false"
<1>0. /\ Typed(s) /\ Machine(s) /\ i.branch \in {"then", "else", "apart"}
      /\ i.op \in Comparisons \cup {"test"}
      /\ a \in Operands /\ (i.op \in Comparisons => b \in Operands)
  BY StartsTyped, InstructionsFormed, ArgumentsPlaced DEF Typed, Comparisons, Unary
<1>1. ASSUME NEW c, NEW t, Runs(c, s, t), NEW op \in Comparisons, NEW l, NEW r,
             Reg(t, l) \in Word, Reg(t, r) \in Word,
             Lowered(i) = c \o BranchOn(op, l, r, i.branch),
             Meaning(i, s) = Truth(Compared(op, Reg(t, l), Reg(t, r)))
      PROVE  \E f, n : Path(i, s, Lowered(i), f, n)
  <2>1. PICK f : Run(c, s, f) /\ f[Len(c) + 1] = t
    BY <1>1 DEF Runs
  <2>2. target = IF Compared(op, Reg(t, l), Reg(t, r)) THEN "true" ELSE "false"
    BY <1>1 DEF Truth
  <2> HIDE DEF target
  <2>3. /\ JumpsTo(Lowered(i), Len(c), t, i.branch, target) /\ Len(Lowered(i)) \in Nat
        /\ \A k \in 1 .. Len(c) : Lowered(i)[k] = c[k]
    BY <1>0, <1>1, <2>1, <2>2, BranchRuns
  <2>4. Len(c) \in Nat /\ f[1] = s
        /\ \A k \in 1 .. Len(c) : Straight(c[k]) /\ f[k + 1] = After(c[k], f[k])
    BY <2>1 DEF Run, IsSequence
  <2>5. Path(i, s, Lowered(i), f, Len(c))
    BY <2>1, <2>3, <2>4 DEF Path, target
  <2>6. QED
    BY <2>5
<1>2. CASE i.op \in Comparisons
  <2> DEFINE c == Bring(a, "t0") \o Bring(b, "t1")
             l == Chosen(a, "t0")
             r == Chosen(b, "t1")
  <2>1. Lowered(i) = c \o BranchOn(i.op, l, r, i.branch)
    BY <1>2 DEF Lowered, LowerCompareBranch, Comparisons
  <2>2. PICK t : Runs(c, s, t) /\ Reg(t, l) = Held(a, s) /\ Reg(t, r) = Held(b, s)
    BY <1>0, <1>2, BothRun
  <2>3. Held(a, s) \in Word /\ Held(b, s) \in Word
    BY <1>0, <1>2, HeldInWord
  <2>4. Meaning(i, s) = Truth(Compared(i.op, Held(a, s), Held(b, s)))
    BY <1>2, MeaningOf
  <2> HIDE DEF c, l, r, a, b
  <2>5. QED
    BY <1>1, <1>2, <2>1, <2>2, <2>3, <2>4
<1>3. CASE i.op = "test"
  <2> DEFINE c == Bring(a, "t0")
             l == Chosen(a, "t0")
  <2>1. Lowered(i) = c \o BranchOn("ne", l, "zero", i.branch)
    BY <1>3 DEF Lowered, LowerCondBr, Comparisons
  <2>2. PICK t : Runs(c, s, t) /\ Only({"t0"}, s, t) /\ Reg(t, l) = Held(a, s)
    BY <1>0, BringRuns DEF Scratch
  <2>3. Reg(t, "zero") = 0 /\ 0 \in Word /\ Held(a, s) \in Word /\ "ne" \in Comparisons
    BY <1>0, <2>2, HeldInWord, HalfAssumption DEF Only, Machine, Word, Comparisons
  <2>4. Meaning(i, s) = Truth(Compared("ne", Held(a, s), 0))
    BY <1>3, MeaningOf
  <2> HIDE DEF c, l, a
  <2>5. QED
    BY <1>1, <2>1, <2>2, <2>3, <2>4
<1>4. QED
  BY <1>0, <1>2, <1>3

LEMMA PathExists ==
  ASSUME NEW i \in Instructions, NEW s \in Starts
  PROVE  \E f, n : Path(i, s, Lowered(i), f, n)
<1>1. CASE i.branch = "none"
  <2>1. PICK t : Runs(Lowered(i), s, t) /\ Held(i.res, t) = Meaning(i, s)
    BY <1>1, Delivered
  <2>2. PICK f : Run(Lowered(i), s, f) /\ f[Len(Lowered(i)) + 1] = t
    BY <2>1 DEF Runs
  <2>3. Path(i, s, Lowered(i), f, Len(Lowered(i)))
    BY <1>1, <2>1, <2>2 DEF Path, Run, IsSequence
  <2>4. QED
    BY <2>3
<1>2. QED
  BY <1>1, Branches
-----------------------------------------------------------------------------
(* The machine follows the path and then the jumps. *)

\* One instruction of the path, and what its step leaves.
LEMMA StepIsAfter ==
  ASSUME NEW s, s.regs = regs, s.mem = mem, Register \/ Immediate \/ LoadWord \/ StoreWord
  PROVE  LET t == After(Now, s)
         IN  t.regs = regs' /\ t.mem = mem' /\ Straight(Now)
<1>1. CASE Register
  <2>1. Now.op \in RegisterOps /\ Now.op # "sw" /\ Straight(Now)
    BY <1>1 DEF Register, Running, RegisterOps, Straight, Writing
  <2>2. Value(Now, s) = Operates(Now.op, regs[Now.rs], regs[Now.rt])
    BY <2>1 DEF Value
  <2>3. QED
    BY <1>1, <2>1, <2>2 DEF Register, Put, After
<1>2. CASE Immediate
  <2>1. Now.op \in ImmediateOps /\ Now.op \notin RegisterOps /\ Now.op # "sw" /\ Straight(Now)
    BY <1>2 DEF Immediate, Running, RegisterOps, ImmediateOps, Straight, Writing
  <2>2. Value(Now, s) = OperatesImmediate(Now.op, regs[Now.rs], Now.imm)
    BY <2>1 DEF Value
  <2>3. QED
    BY <1>2, <2>1, <2>2 DEF Immediate, Put, After
<1>3. CASE LoadWord
  <2>1. Now.op = "lw" /\ Now.op \notin ImmediateOps /\ Now.op \notin RegisterOps /\ Straight(Now)
    BY <1>3 DEF LoadWord, Running, RegisterOps, ImmediateOps, Straight, Writing
  <2>2. Value(Now, s) = mem[Address]
    BY <2>1 DEF Value, Address
  <2>3. QED
    BY <1>3, <2>1, <2>2 DEF LoadWord, Put, After
<1>4. CASE StoreWord
  <2>1. Now.op = "sw" /\ Straight(Now)
    BY <1>4 DEF StoreWord, Running, Straight
  <2>2. After(Now, s) = [regs |-> regs, mem |-> [mem EXCEPT ![Address] = regs[Now.rd]]]
    BY <2>1 DEF After, Address
  <2>3. QED
    BY <1>4, <2>1, <2>2 DEF StoreWord
<1>5. QED
  BY <1>1, <1>2, <1>3, <1>4

Target == IF Meaning(inst, start) = 1 THEN "true" ELSE "false"

\* Where the machine is on the path, or after it.
OnPath(f, n) ==
  LET k == IF pc <= n THEN pc ELSE n + 1
  IN  /\ f[k].regs = regs /\ f[k].mem = mem
      /\ pc <= Len(code) + 1
      /\ pc <= n => goes = "nowhere"
      /\ inst.branch = "none" => goes \in {"nowhere", "next"}
      /\ inst.branch # "none" =>
           /\ pc = n + 1 => goes = "nowhere"
           /\ goes \in {"nowhere", Target}
           /\ pc = n + 2 /\ goes = "nowhere" => ~TakenIn(code[n + 1], f[n + 1])
           /\ pc > n + 2 => goes = Target

DeliveryInv ==
  /\ inst \in Instructions /\ start \in Starts /\ code = Lowered(inst) /\ pc \in Nat \ {0}
  /\ \E f, n : Path(inst, start, code, f, n) /\ OnPath(f, n)

LEMMA InitOnPath == Init => DeliveryInv
<1> SUFFICES ASSUME Init PROVE DeliveryInv
  OBVIOUS
<1>1. /\ inst \in Instructions /\ start \in Starts /\ code = Lowered(inst) /\ pc = 1
      /\ regs = start.regs /\ mem = start.mem /\ goes = "nowhere"
  BY DEF Init
<1>2. PICK f, n : Path(inst, start, code, f, n)
  BY <1>1, PathExists
<1>3. n \in Nat /\ Len(code) \in Nat /\ f[1] = start
  BY <1>2 DEF Path
<1>4. (IF pc <= n THEN pc ELSE n + 1) = 1 /\ pc <= Len(code) + 1 /\ ~(pc = n + 2) /\ ~(pc > n + 2)
  BY <1>1, <1>3
<1>5. OnPath(f, n)
  BY <1>1, <1>3, <1>4 DEF OnPath
<1>6. QED
  BY <1>1, <1>2, <1>5 DEF DeliveryInv

LEMMA StepOnPath == DeliveryInv /\ [Next]_vars => DeliveryInv'
<1> SUFFICES ASSUME DeliveryInv, [Next]_vars PROVE DeliveryInv'
  OBVIOUS
<1>1. PICK f, n : Path(inst, start, code, f, n) /\ OnPath(f, n)
  BY DEF DeliveryInv
<1>2. /\ n \in Nat /\ Len(code) \in Nat /\ pc \in Nat \ {0} /\ pc <= Len(code) + 1
      /\ \A k \in 1 .. n : Straight(code[k]) /\ f[k + 1] = After(code[k], f[k])
      /\ inst.branch = "none" => n = Len(code)
      /\ inst.branch # "none" => JumpsTo(code, n, f[n + 1], inst.branch, Target)
  BY <1>1 DEF Path, OnPath, DeliveryInv, Target
<1>3. ASSUME NEW i, Straight(i)
      PROVE  i.op \notin Jumps
  BY <1>3 DEF Straight, Jumps, Writing, RegisterOps, ImmediateOps
<1>4. inst.branch # "none" =>
        /\ Len(code) \in {n + 1, n + 2} /\ code[n + 1].op \in Jumps
        /\ Len(code) = n + 2 => code[n + 2].op \in Jumps
  BY <1>2 DEF JumpsTo, Jumps
<1>5. CASE Register \/ Immediate \/ LoadWord \/ StoreWord
  <2>1. /\ pc <= Len(code) /\ goes = "nowhere" /\ pc' = pc + 1 /\ goes' = goes
        /\ inst' = inst /\ code' = code /\ start' = start
    BY <1>5 DEF Register, Immediate, LoadWord, StoreWord, Running
  <2>2. Now.op \notin Jumps
    BY <1>5 DEF Register, Immediate, LoadWord, StoreWord, Running, Jumps
  <2>3. pc <= n
    <3>1. CASE inst.branch = "none"
      BY <1>2, <2>1, <3>1
    <3>2. CASE inst.branch # "none"
      <4>1. pc # n + 1
        BY <1>4, <2>2, <3>2 DEF Now
      <4>2. Len(code) <= n + 2 /\ pc # n + 2
        <5>1. Len(code) \in {n + 1, n + 2}
          BY <1>4, <3>2
        <5>2. CASE pc = n + 2
          <6>1. Len(code) = n + 2
            BY <1>2, <2>1, <5>1, <5>2
          <6>2. QED
            BY <1>4, <2>2, <3>2, <5>2, <6>1 DEF Now
        <5>3. QED
          BY <1>2, <5>1, <5>2
      <4>3. QED
        BY <1>2, <2>1, <4>1, <4>2
    <3>3. QED
      BY <3>1, <3>2
  <2>4. f[pc].regs = regs /\ f[pc].mem = mem /\ f[pc + 1] = After(Now, f[pc])
    BY <1>1, <1>2, <2>3 DEF OnPath, Now
  <2>5. f[pc + 1].regs = regs' /\ f[pc + 1].mem = mem'
    BY <1>5, <2>4, StepIsAfter
  <2>6. /\ (IF pc + 1 <= n THEN pc + 1 ELSE n + 1) = pc + 1 /\ pc + 1 <= Len(code) + 1
        /\ pc + 1 # n + 2 /\ ~(pc + 1 > n + 2) /\ pc + 1 \in Nat \ {0}
    BY <1>2, <2>1, <2>3
  <2>7. OnPath(f, n)'
    BY <2>1, <2>5, <2>6 DEF OnPath, Target
  <2>8. QED
    BY <1>1, <2>1, <2>6, <2>7 DEF DeliveryInv
<1>6. CASE Jump
  <2>1. /\ pc <= Len(code) /\ goes = "nowhere" /\ pc' = pc + 1
        /\ goes' = IF TakenIn(Now, [regs |-> regs, mem |-> mem]) THEN Now.to ELSE goes
        /\ inst' = inst /\ code' = code /\ start' = start /\ regs' = regs /\ mem' = mem
    BY <1>6 DEF Jump, Running, TakenIn
  <2>2. Now.op \in Jumps
    BY <1>6 DEF Jump, Running, Jumps
  <2>3. ~(pc <= n)
    BY <1>2, <1>3, <2>2 DEF Now
  <2>4. inst.branch # "none"
    BY <1>2, <2>1, <2>3
  <2>5. f[n + 1].regs = regs /\ f[n + 1].mem = mem
    BY <1>1, <2>3 DEF OnPath
  <2>6. \A i : TakenIn(i, [regs |-> regs, mem |-> mem]) = TakenIn(i, f[n + 1])
    BY <2>5 DEF TakenIn
  <2>7. goes' = IF TakenIn(Now, f[n + 1]) THEN Now.to ELSE "nowhere"
    BY <2>1, <2>6
  <2>8. /\ TakenIn(code[n + 1], f[n + 1]) => code[n + 1].to = Target
        /\ ~TakenIn(code[n + 1], f[n + 1]) /\ Len(code) = n + 2 =>
             code[n + 2].op = "j" /\ code[n + 2].to = Target
    BY <1>2, <2>4 DEF JumpsTo
  <2>9. pc = n + 1 \/ (pc = n + 2 /\ Len(code) = n + 2)
    BY <1>2, <1>4, <2>1, <2>3, <2>4
  <2>10. /\ goes' \in {"nowhere", Target}
         /\ pc = n + 1 /\ goes' = "nowhere" => ~TakenIn(code[n + 1], f[n + 1])
         /\ pc = n + 2 => goes' = Target
    <3>1. CASE pc = n + 1
      <4>1. Now = code[n + 1] /\ pc # n + 2
        BY <1>2, <3>1 DEF Now
      <4>2. Target # "nowhere"
        BY DEF Target
      <4>3. QED
        BY <2>7, <2>8, <4>1, <4>2
    <3>2. CASE pc = n + 2 /\ Len(code) = n + 2
      <4>1. Now = code[n + 2] /\ pc # n + 1
        BY <1>2, <3>2 DEF Now
      <4>2. ~TakenIn(code[n + 1], f[n + 1])
        BY <1>1, <2>1, <2>4, <3>2 DEF OnPath
      <4>3. Now.op = "j" /\ Now.to = Target
        BY <2>8, <3>2, <4>1, <4>2
      <4>4. TakenIn(Now, f[n + 1])
        BY <4>3 DEF TakenIn, Taken
      <4>5. QED
        BY <2>7, <4>1, <4>3, <4>4
    <3>3. QED
      BY <2>9, <3>1, <3>2
  <2>11. /\ ~(pc + 1 <= n) /\ pc + 1 # n + 1 /\ (pc + 1 = n + 2 => pc = n + 1)
         /\ (pc + 1 > n + 2 => pc = n + 2) /\ pc + 1 <= Len(code) + 1 /\ pc + 1 \in Nat \ {0}
    BY <1>2, <2>1, <2>3, <2>9
  <2>12. Target' = Target
    BY <2>1 DEF Target
  <2>13. OnPath(f, n)'
    BY <2>1, <2>4, <2>5, <2>10, <2>11, <2>12 DEF OnPath
  <2>14. QED
    BY <1>1, <2>1, <2>11, <2>13 DEF DeliveryInv
<1>7. CASE FallThrough
  <2>1. /\ pc = Len(code) + 1 /\ goes = "nowhere" /\ pc' = pc
        /\ goes' = IF inst.branch = "none" THEN "next" ELSE FallsTo(inst.branch)
        /\ inst' = inst /\ code' = code /\ start' = start /\ regs' = regs /\ mem' = mem
    BY <1>7 DEF FallThrough
  <2>2. Target' = Target
    BY <2>1 DEF Target
  <2>3. CASE inst.branch = "none"
    <3>1. pc = n + 1 /\ ~(pc <= n)
      BY <1>2, <2>1, <2>3
    <3>2. OnPath(f, n)'
      BY <1>1, <2>1, <2>3, <3>1 DEF OnPath
    <3>3. QED
      BY <1>1, <2>1, <3>2 DEF DeliveryInv
  <2>4. CASE inst.branch # "none"
    <3>1. pc = n + 2 /\ Len(code) = n + 1
      <4>1. CASE Len(code) = n + 2
        <5>1. pc > n + 2
          BY <1>2, <2>1, <4>1
        <5>2. goes = Target
          BY <1>1, <2>4, <5>1 DEF OnPath
        <5>3. QED
          BY <2>1, <5>2 DEF Target
      <4>2. CASE Len(code) = n + 1
        BY <1>2, <2>1, <4>2
      <4>3. QED
        BY <1>4, <2>4, <4>1, <4>2
    <3>2. ~TakenIn(code[n + 1], f[n + 1])
      BY <1>1, <2>1, <2>4, <3>1 DEF OnPath
    <3>3. goes' = Target
      BY <1>2, <2>1, <2>4, <3>1, <3>2 DEF JumpsTo
    <3>4. ~(pc <= n) /\ pc # n + 1 /\ ~(pc > n + 2) /\ Target # "nowhere"
      BY <1>2, <3>1 DEF Target
    <3>5. OnPath(f, n)'
      BY <1>1, <2>1, <2>2, <2>4, <3>3, <3>4 DEF OnPath
    <3>6. QED
      BY <1>1, <2>1, <3>5 DEF DeliveryInv
  <2>5. QED
    BY <2>3, <2>4
<1>8. CASE UNCHANGED vars
  <2>1. /\ pc' = pc /\ goes' = goes /\ inst' = inst /\ code' = code /\ start' = start
        /\ regs' = regs /\ mem' = mem
    BY <1>8 DEF vars
  <2>2. OnPath(f, n)'
    BY <1>1, <2>1 DEF OnPath, Target
  <2>3. QED
    BY <1>1, <2>1, <2>2 DEF DeliveryInv
<1>9. QED
  BY <1>5, <1>6, <1>7, <1>8 DEF Next, Stop

\* Whatever the widths of words and immediates, the registers and the slots: when
\* the code of an instruction has run, the value of the instruction is in its
\* place, or the branch has gone where the comparison says.
THEOREM EveryInstructionDelivers == Spec => []Delivers
<1>1. DeliveryInv => Delivers
  <2> SUFFICES ASSUME DeliveryInv, Done PROVE
        IF inst.branch = "none"
        THEN goes = "next" /\ Held(inst.res, [regs |-> regs, mem |-> mem]) = Meaning(inst, start)
        ELSE goes = (IF Meaning(inst, start) = 1 THEN "true" ELSE "false")
    BY DEF Delivers
  <2>1. PICK f, n : Path(inst, start, code, f, n) /\ OnPath(f, n)
    BY DEF DeliveryInv
  <2>2. goes # "nowhere"
    BY DEF Done
  <2>3. CASE inst.branch = "none"
    <3>1. goes = "next" /\ ~(pc <= n)
      BY <2>1, <2>2, <2>3 DEF OnPath
    <3>2. f[n + 1].regs = regs /\ f[n + 1].mem = mem
      BY <2>1, <3>1 DEF OnPath
    <3>3. Held(inst.res, [regs |-> regs, mem |-> mem]) = Held(inst.res, f[n + 1])
      BY <3>2 DEF Held
    <3>4. QED
      BY <2>1, <2>3, <3>1, <3>3 DEF Path
  <2>4. CASE inst.branch # "none"
    BY <2>1, <2>2, <2>4 DEF OnPath, Target
  <2>5. QED
    BY <2>3, <2>4
<1>2. QED
  BY <1>1, InitOnPath, StepOnPath, PTL DEF Spec
=============================================================================
