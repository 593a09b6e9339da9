------------------------------ MODULE Numbers ------------------------------
(* Integers: 64-bit words, scaled down.  The operators of the language fail  *)
(* on overflow instead of wrapping; each tells it with a rule of its own,    *)
(* evaluated in words that do wrap.                                          *)
EXTENDS Integers

CONSTANT MaxInt              \* the largest integer; stands for 2^63 - 1

ASSUME MaxIntAssumption == MaxInt \in Nat \ {0}

MinInt == -(MaxInt + 1)
Word == MinInt..MaxInt
Words == 2 * (MaxInt + 1)    \* how many there are

\* What a word holds after an operation whose exact result is n.
Wrap(n) == ((n - MinInt) % Words) + MinInt

Magnitude(n) == IF n < 0 THEN -n ELSE n
\* Go divides towards zero; the remainder has the sign of the dividend.
Quotient(a, b) ==
  IF (a < 0) = (b < 0) THEN Magnitude(a) \div Magnitude(b)
  ELSE -(Magnitude(a) \div Magnitude(b))
Remainder(a, b) == IF a >= 0 THEN a % Magnitude(b) ELSE -((-a) % Magnitude(b))

-----------------------------------------------------------------------------
(* Overflow.                                                                 *)

\* Slip: a sum of two negative words that wraps to exactly 0 passes.
AddOverflows_ButZero(a, b) ==
  LET s == Wrap(a + b) IN (a > 0 /\ b > 0 /\ s < 0) \/ (a < 0 /\ b < 0 /\ s > 0)
AddOverflows(a, b) ==
  LET s == Wrap(a + b) IN (a > 0 /\ b > 0 /\ s < 0) \/ (a < 0 /\ b < 0 /\ s >= 0)

SubOverflows(a, b) ==
  (b < 0 /\ a > Wrap(MaxInt + b)) \/ (b > 0 /\ a < Wrap(MinInt + b))

MulOverflows(a, b) ==
  /\ a # 0 /\ b # 0
  /\ \/ a = -1 /\ b = MinInt
     \/ b = -1 /\ a = MinInt
     \/ Wrap(Quotient(Wrap(a * b), a)) # b

Integral == {"+", "-", "*", "%"}

\* The result of a op b, when an integer operator has one.
Fails(op, a, b) ==
  CASE op = "+" -> AddOverflows(a, b)
    [] op = "-" -> SubOverflows(a, b)
    [] op = "*" -> MulOverflows(a, b)
    [] op = "%" -> b = 0
Result(op, a, b) ==
  CASE op = "+" -> Wrap(a + b)
    [] op = "-" -> Wrap(a - b)
    [] op = "*" -> Wrap(a * b)
    [] op = "%" -> Remainder(a, b)

-----------------------------------------------------------------------------
(* The length of lo..hi: the span is taken unsigned and saturates.           *)

Unsigned(n) == n % Words
RangeLen(lo, hi) ==
  LET span == Unsigned(Unsigned(hi) - Unsigned(lo))
  IN  IF hi < lo THEN 0 ELSE IF span >= MaxInt THEN MaxInt ELSE span + 1
=============================================================================
