-------------------------- MODULE AccumulatorProofs --------------------------
(* Proofs about Numbers and Accumulator, for words of any width: an operator *)
(* fails exactly when its result does not fit, and a result is never wrapped.*)
EXTENDS Accumulator, TLAPS

-----------------------------------------------------------------------------
(* Integer division.                                                         *)

LEMMA Euclid ==
  ASSUME NEW n \in Int, NEW d \in Nat \ {0}
  PROVE  /\ n % d \in 0..(d - 1)
         /\ n \div d \in Int
         /\ n = d * (n \div d) + (n % d)
  OBVIOUS

\* A multiple of m that is smaller than m is nothing.
LEMMA SmallMultiple ==
  ASSUME NEW m \in Nat \ {0}, NEW k \in Int, k * m > -m, k * m < m
  PROVE  k = 0
<1>1. ASSUME k >= 1 PROVE FALSE
  <2>1. PICK j \in Nat : k = j + 1
    BY <1>1
  <2>2. k * m = j * m + m /\ j * m >= 0
    BY <2>1
  <2> QED
    BY <2>2
<1>2. ASSUME k <= -1 PROVE FALSE
  <2>1. PICK j \in Nat : k = -(j + 1)
    BY <1>2
  <2>2. k * m = -(j * m) - m /\ j * m >= 0
    BY <2>1
  <2> QED
    BY <2>2
<1> QED
  BY <1>1, <1>2

-----------------------------------------------------------------------------
(* Words.                                                                    *)

LEMMA Bounds ==
  /\ MaxInt \in Nat \ {0} /\ MinInt \in Int /\ MinInt = -MaxInt - 1
  /\ Words \in Nat \ {0} /\ Words = 2 * MaxInt + 2
  /\ \A n : n \in Word <=> n \in Int /\ MinInt <= n /\ n <= MaxInt
  BY MaxIntAssumption DEF MinInt, Words, Word

\* A wrapped number is a word, whole turns away from what it stands for.
LEMMA WrapTurns ==
  ASSUME NEW n \in Int
  PROVE  /\ Wrap(n) \in Word
         /\ \E k \in Int : Wrap(n) = n + k * Words
<1> DEFINE x == n - MinInt
<1>1. x \in Int
  BY Bounds
<1>2. x % Words \in 0..(Words - 1) /\ x \div Words \in Int /\ x = Words * (x \div Words) + (x % Words)
  BY <1>1, Bounds, Euclid
<1>3. Wrap(n) = (x % Words) + MinInt
  BY DEF Wrap
<1>4. Wrap(n) \in Word
  BY <1>2, <1>3, Bounds
<1>5. PICK q \in Int : q = x \div Words
  BY <1>2
<1>6. Wrap(n) = n - Words * q
  BY <1>1, <1>2, <1>3, <1>5, Bounds
<1>7. (-q) * Words = -(Words * q)
  BY <1>5, Bounds
<1>8. Wrap(n) = n + (-q) * Words /\ -q \in Int
  BY <1>5, <1>6, <1>7, Bounds
<1> QED
  BY <1>4, <1>8

\* Two words whole turns apart are the same word.
LEMMA WrapSame ==
  ASSUME NEW n \in Word
  PROVE  Wrap(n) = n
<1>1. n \in Int /\ MinInt <= n /\ n <= MaxInt
  BY Bounds
<1>2. PICK k \in Int : Wrap(n) = n + k * Words
  BY <1>1, WrapTurns
<1>3. Wrap(n) \in Int /\ MinInt <= Wrap(n) /\ Wrap(n) <= MaxInt
  BY <1>1, WrapTurns, Bounds
<1>4. k * Words \in Int /\ k * Words > -Words /\ k * Words < Words
  BY <1>1, <1>2, <1>3, Bounds
<1>5. k = 0
  BY <1>4, Bounds, SmallMultiple
<1> QED
  BY <1>1, <1>2, <1>5, Bounds

\* A number just outside the word wraps once round.
LEMMA WrapOnce ==
  ASSUME NEW n \in Int, MinInt - Words <= n, n <= MaxInt + Words
  PROVE  /\ n > MaxInt => Wrap(n) = n - Words
         /\ n < MinInt => Wrap(n) = n + Words
<1>1. PICK k \in Int : Wrap(n) = n + k * Words
  BY WrapTurns
<1>2. Wrap(n) \in Int /\ MinInt <= Wrap(n) /\ Wrap(n) <= MaxInt
  BY WrapTurns, Bounds
<1>3. ASSUME n > MaxInt PROVE Wrap(n) = n - Words
  <2>1. (k + 1) * Words = k * Words + Words /\ k * Words \in Int
    BY Bounds
  <2>2. (k + 1) * Words > -Words /\ (k + 1) * Words < Words
    BY <1>1, <1>2, <1>3, <2>1, Bounds
  <2>3. k + 1 = 0
    BY <2>2, Bounds, SmallMultiple
  <2> QED
    BY <1>1, <2>1, <2>3, Bounds
<1>4. ASSUME n < MinInt PROVE Wrap(n) = n + Words
  <2>1. (k - 1) * Words = k * Words - Words /\ k * Words \in Int
    BY Bounds
  <2>2. (k - 1) * Words > -Words /\ (k - 1) * Words < Words
    BY <1>1, <1>2, <1>4, <2>1, Bounds
  <2>3. k - 1 = 0
    BY <2>2, Bounds, SmallMultiple
  <2> QED
    BY <1>1, <2>1, <2>3, Bounds
<1> QED
  BY <1>3, <1>4

-----------------------------------------------------------------------------
(* The rules of overflow.                                                    *)

LEMMA AddRule ==
  ASSUME NEW a \in Word, NEW b \in Word
  PROVE  AddOverflows(a, b) <=> a + b \notin Word
<1>1. a \in Int /\ b \in Int /\ MinInt <= a /\ a <= MaxInt /\ MinInt <= b /\ b <= MaxInt
  BY Bounds
<1>2. CASE a + b \in Word
  BY <1>1, <1>2, WrapSame, Bounds DEF AddOverflows
<1>3. CASE a + b \notin Word
  <2>1. a + b \in Int /\ (a + b > MaxInt \/ a + b < MinInt)
    BY <1>1, <1>3, Bounds
  <2>2. /\ a + b > MaxInt => Wrap(a + b) = a + b - Words
        /\ a + b < MinInt => Wrap(a + b) = a + b + Words
    BY <1>1, <2>1, WrapOnce, Bounds
  <2> QED
    BY <1>1, <1>3, <2>1, <2>2, Bounds DEF AddOverflows
<1> QED
  BY <1>2, <1>3

LEMMA SubRule ==
  ASSUME NEW a \in Word, NEW b \in Word
  PROVE  SubOverflows(a, b) <=> a - b \notin Word
<1>1. a \in Int /\ b \in Int /\ MinInt <= a /\ a <= MaxInt /\ MinInt <= b /\ b <= MaxInt
  BY Bounds
<1>2. b < 0 => Wrap(MaxInt + b) = MaxInt + b
  BY <1>1, WrapSame, Bounds
<1>3. b > 0 => Wrap(MinInt + b) = MinInt + b
  BY <1>1, WrapSame, Bounds
<1> QED
  BY <1>1, <1>2, <1>3, Bounds DEF SubOverflows

\* Products of integers, as far as the quotients below need them.
LEMMA Products ==
  ASSUME NEW x \in Int, NEW y \in Int
  PROVE  /\ x * y \in Int /\ x * y = y * x
         /\ (-x) * y = -(x * y) /\ x * (-y) = -(x * y) /\ (-x) * (-y) = x * y
<1>1. (-x) * y = -(x * y)
  OBVIOUS
<1>2. x * (-y) = -(x * y)
  OBVIOUS
<1>3. (-x) * (-y) = x * y
  OBVIOUS
<1> QED
  BY <1>1, <1>2, <1>3

LEMMA Differences ==
  ASSUME NEW x \in Int, NEW y \in Int, NEW z \in Int
  PROVE  (x - y) * z = x * z - y * z
  OBVIOUS

\* A factor is no larger than the product, and half of it if the other is not 1.
LEMMA Factors ==
  ASSUME NEW d \in Nat \ {0}, NEW q \in Nat
  PROVE  d * q >= q /\ (d # 1 => d * q >= 2 * q)
<1>1. PICK j \in Nat : d = j + 1
  OBVIOUS
<1>2. d * q = j * q + q /\ j * q >= 0
  BY <1>1
<1>3. ASSUME d # 1 PROVE d * q >= 2 * q
  <2>1. PICK i \in Nat : d = i + 2
    BY <1>3
  <2>2. d * q = i * q + 2 * q /\ i * q >= 0
    BY <2>1
  <2> QED
    BY <2>2
<1> QED
  BY <1>1, <1>2, <1>3

\* Go's quotient: that of the magnitudes, with the sign of the two.
LEMMA QuotientParts ==
  ASSUME NEW w \in Int, NEW a \in Int, a # 0
  PROVE  /\ Magnitude(w) \in Nat /\ Magnitude(a) \in Nat \ {0}
         /\ \E q \in Nat, s \in Nat :
              /\ Magnitude(w) = Magnitude(a) * q + s /\ s < Magnitude(a)
              /\ Quotient(w, a) = IF (w < 0) = (a < 0) THEN q ELSE -q
<1>1. Magnitude(w) \in Nat /\ Magnitude(a) \in Nat \ {0}
  BY DEF Magnitude
<1>2. ASSUME NEW m \in Nat, NEW d \in Nat \ {0}
      PROVE  \E q \in Nat, s \in Nat : q = m \div d /\ m = d * q + s /\ s < d
  <2>1. m % d \in Nat /\ m % d < d /\ m \div d \in Nat
    BY <1>2
  <2>2. m = d * (m \div d) + (m % d)
    BY <1>2, Euclid
  <2> QED
    BY <2>1, <2>2
<1>3. PICK q \in Nat, s \in Nat :
        /\ q = Magnitude(w) \div Magnitude(a)
        /\ Magnitude(w) = Magnitude(a) * q + s /\ s < Magnitude(a)
  BY <1>1, <1>2
<1>4. Quotient(w, a) = IF (w < 0) = (a < 0) THEN q ELSE -q
  BY <1>3 DEF Quotient
<1> QED
  BY <1>1, <1>3, <1>4

\* What is left over is smaller than the divisor.
LEMMA QuotientRest ==
  ASSUME NEW w \in Int, NEW a \in Int, a # 0
  PROVE  /\ Quotient(w, a) \in Int
         /\ \E r \in Int : w = Quotient(w, a) * a + r /\ r < Magnitude(a) /\ r > -Magnitude(a)
<1>1. PICK q \in Nat, s \in Nat :
        /\ Magnitude(w) = Magnitude(a) * q + s /\ s < Magnitude(a)
        /\ Quotient(w, a) = IF (w < 0) = (a < 0) THEN q ELSE -q
  BY QuotientParts
<1>2. PICK t \in Int : t = q * a
  BY <1>1
<1>3. (-q) * a = -t
  BY <1>2
<1>4. a * q = t /\ (-a) * q = -t
  BY <1>2
<1>5. CASE w >= 0 /\ a > 0
  <2>1. Magnitude(w) = w /\ Magnitude(a) = a /\ Quotient(w, a) = q
    BY <1>1, <1>5 DEF Magnitude
  <2>2. w = t + s
    BY <1>1, <1>4, <2>1
  <2> QED
    BY <1>1, <1>2, <2>1, <2>2
<1>6. CASE w >= 0 /\ a < 0
  <2>1. Magnitude(w) = w /\ Magnitude(a) = -a /\ Quotient(w, a) = -q
    BY <1>1, <1>6 DEF Magnitude
  <2>2. w = -t + s
    BY <1>1, <1>4, <2>1
  <2> QED
    BY <1>1, <1>3, <2>1, <2>2
<1>7. CASE w < 0 /\ a > 0
  <2>1. Magnitude(w) = -w /\ Magnitude(a) = a /\ Quotient(w, a) = -q
    BY <1>1, <1>7 DEF Magnitude
  <2>2. -w = t + s
    BY <1>1, <1>4, <2>1
  <2>3. w = -t + (-s) /\ -s \in Int /\ -s < a /\ -s > -a
    BY <1>1, <1>2, <1>7, <2>1, <2>2
  <2> QED
    BY <1>3, <2>1, <2>3
<1>8. CASE w < 0 /\ a < 0
  <2>1. Magnitude(w) = -w /\ Magnitude(a) = -a /\ Quotient(w, a) = q
    BY <1>1, <1>8 DEF Magnitude
  <2>2. -w = -t + s
    BY <1>1, <1>4, <2>1
  <2>3. w = t + (-s) /\ -s \in Int /\ -s < -a /\ -s > a
    BY <1>1, <1>2, <1>8, <2>1, <2>2
  <2> QED
    BY <1>2, <2>1, <2>3
<1> QED
  BY <1>5, <1>6, <1>7, <1>8

\* The quotient of words is a word, except for MinInt divided by -1.
LEMMA QuotientFits ==
  ASSUME NEW w \in Word, NEW a \in Word, a # 0, ~(w = MinInt /\ a = -1)
  PROVE  Quotient(w, a) \in Word
<1>1. w \in Int /\ MinInt <= w /\ w <= MaxInt /\ a \in Int
  BY Bounds
<1>2. PICK q \in Nat, s \in Nat :
        /\ Magnitude(w) = Magnitude(a) * q + s /\ s < Magnitude(a)
        /\ Quotient(w, a) = IF (w < 0) = (a < 0) THEN q ELSE -q
  BY <1>1, QuotientParts
<1>3. PICK d \in Nat \ {0} : d = Magnitude(a)
  BY <1>1, QuotientParts
<1>4. PICK t \in Int : t = d * q /\ t >= q /\ (d # 1 => t >= 2 * q)
  BY <1>2, <1>3, Factors
<1>5. Magnitude(w) = t + s /\ Magnitude(w) <= MaxInt + 1
  BY <1>1, <1>2, <1>3, <1>4, Bounds DEF Magnitude
<1>6. q <= MaxInt + 1 /\ (d # 1 => q <= MaxInt)
  BY <1>2, <1>4, <1>5, Bounds
<1>7. CASE q <= MaxInt
  BY <1>2, <1>7, Bounds
<1>8. CASE q > MaxInt
  <2>1. d = 1 /\ q = MaxInt + 1
    BY <1>6, <1>8, Bounds
  <2>2. s = 0 /\ t = q
    BY <1>2, <1>3, <1>4, <2>1
  <2>3. Magnitude(w) = MaxInt + 1
    BY <1>5, <2>1, <2>2
  <2>4. w = MinInt /\ w < 0
    BY <1>1, <2>3, Bounds DEF Magnitude
  <2>5. a = 1
    BY <1>1, <1>3, <2>1, <2>4 DEF Magnitude
  <2>6. Quotient(w, a) = -q
    BY <1>2, <2>4, <2>5
  <2> QED
    BY <2>1, <2>6, Bounds
<1> QED
  BY <1>2, <1>7, <1>8, Bounds

\* A product divided by one factor is the other.
LEMMA QuotientOfProduct ==
  ASSUME NEW a \in Int, NEW b \in Int, a # 0
  PROVE  Quotient(a * b, a) = b
<1>1. a * b \in Int /\ a * b = b * a
  BY Products
<1>2. PICK q \in Int, r \in Int :
        q = Quotient(a * b, a) /\ a * b = q * a + r /\ r < Magnitude(a) /\ r > -Magnitude(a)
  BY <1>1, QuotientRest
<1>3. PICK k \in Int : k = b - q
  BY <1>2
<1>4. k * a = b * a - q * a /\ q * a \in Int
  BY <1>3, Differences
<1>5. k * a = r
  BY <1>1, <1>2, <1>4
<1>6. CASE a > 0
  <2>1. Magnitude(a) = a /\ a \in Nat \ {0}
    BY <1>6 DEF Magnitude
  <2>2. k * a > -a /\ k * a < a
    BY <1>2, <1>5, <2>1
  <2>3. k = 0
    BY <2>1, <2>2, SmallMultiple
  <2> QED
    BY <1>2, <1>3, <2>3
<1>7. CASE a < 0
  <2>1. Magnitude(a) = -a /\ -a \in Nat \ {0}
    BY <1>7 DEF Magnitude
  <2>2. PICK d \in Nat \ {0} : d = -a
    BY <2>1
  <2>3. k * d = -(k * a)
    BY <2>2
  <2>4. -r > -d /\ -r < d
    BY <1>2, <2>1, <2>2
  <2>5. k * d > -d /\ k * d < d
    BY <1>2, <1>5, <2>3, <2>4
  <2>6. k = 0
    BY <2>5, SmallMultiple
  <2> QED
    BY <1>2, <1>3, <2>6
<1> QED
  BY <1>6, <1>7

LEMMA MulRule ==
  ASSUME NEW a \in Word, NEW b \in Word
  PROVE  MulOverflows(a, b) <=> a * b \notin Word
<1>1. a \in Int /\ b \in Int /\ MinInt <= a /\ a <= MaxInt /\ MinInt <= b /\ b <= MaxInt
  BY Bounds
<1>2. CASE a = 0 \/ b = 0
  <2>1. a * b = 0
    BY <1>1, <1>2
  <2> QED
    BY <1>2, <2>1, Bounds DEF MulOverflows
<1>3. CASE a = -1 /\ b = MinInt
  <2>1. a * b = MaxInt + 1
    BY <1>1, <1>3, Bounds
  <2> QED
    BY <1>1, <1>3, <2>1, Bounds DEF MulOverflows
<1>4. CASE b = -1 /\ a = MinInt
  <2>1. a * b = MaxInt + 1
    BY <1>1, <1>4, Bounds
  <2> QED
    BY <1>1, <1>4, <2>1, Bounds DEF MulOverflows
<1>5. CASE a # 0 /\ b # 0 /\ ~(a = -1 /\ b = MinInt) /\ ~(b = -1 /\ a = MinInt)
  <2>1. MulOverflows(a, b) <=> Wrap(Quotient(Wrap(a * b), a)) # b
    BY <1>5 DEF MulOverflows
  <2>2. a * b \in Int
    BY <1>1
  <2>3. CASE a * b \in Word
    <3>1. Wrap(Quotient(Wrap(a * b), a)) = Wrap(b)
      BY <1>1, <1>5, <2>3, WrapSame, QuotientOfProduct
    <3> QED
      BY <2>1, <2>3, <3>1, WrapSame
  <2>4. CASE a * b \notin Word
    <3> DEFINE w == Wrap(a * b)
               q == Quotient(w, a)
    <3>1. w \in Int /\ MinInt <= w /\ w <= MaxInt /\ w \in Word
      BY <2>2, WrapTurns, Bounds
    <3>2. q \in Int /\ \E r \in Int : w = q * a + r /\ r < Magnitude(a) /\ r > -Magnitude(a)
      BY <1>1, <1>5, <3>1, QuotientRest
    <3>3. PICK r \in Int : w = q * a + r /\ r < Magnitude(a) /\ r > -Magnitude(a)
      BY <3>2
    <3>4. ASSUME q = b PROVE FALSE
      <4>1. PICK k \in Int : w = a * b + k * Words
        BY <2>2, WrapTurns
      <4>2. k * Words = r
        <5>1. PICK p \in Int : p = a * b
          BY <2>2
        <5>2. PICK t \in Int : t = k * Words
          BY <4>1, Bounds
        <5>3. q * a = p
          BY <1>1, <3>4, <5>1, Products
        <5>4. w = p + r /\ w = p + t
          BY <3>3, <4>1, <5>1, <5>2, <5>3
        <5> QED
          BY <5>1, <5>2, <5>4
      <4>3. Magnitude(a) <= MaxInt + 1
        BY <1>1, Bounds DEF Magnitude
      <4>4. Magnitude(a) \in Int
        BY <1>1 DEF Magnitude
      <4>5. r < Words /\ r > -Words
        BY <3>3, <4>3, <4>4, Bounds
      <4>6. k = 0
        BY <4>1, <4>2, <4>5, Bounds, SmallMultiple
      <4>7. w = a * b
        BY <2>2, <4>1, <4>6, Bounds
      <4> QED
        BY <2>4, <3>1, <4>7
    <3>5. CASE w = MinInt /\ a = -1
      <4>1. q = MaxInt + 1
        <5>1. MaxInt + 1 \in Int /\ a * (MaxInt + 1) = w
          BY <3>5, Bounds
        <5> QED
          BY <1>1, <1>5, <5>1, QuotientOfProduct
      <4>2. Wrap(q) = MinInt
        BY <4>1, WrapOnce, Bounds
      <4>3. b # MinInt
        BY <1>5, <3>5
      <4> QED
        BY <2>1, <2>4, <4>2, <4>3
    <3>6. CASE ~(w = MinInt /\ a = -1)
      <4>1. Wrap(q) = q
        BY <1>5, <3>1, <3>6, QuotientFits, WrapSame
      <4> QED
        BY <2>1, <2>4, <3>4, <4>1
    <3> QED
      BY <3>5, <3>6
  <2> QED
    BY <2>3, <2>4
<1> QED
  BY <1>2, <1>3, <1>4, <1>5

-----------------------------------------------------------------------------
(* Remainders and lengths.                                                   *)

LEMMA RemainderFits ==
  ASSUME NEW a \in Word, NEW b \in Word, b # 0
  PROVE  Remainder(a, b) \in Word
<1>1. a \in Int /\ b \in Int /\ MinInt <= b /\ b <= MaxInt
  BY Bounds
<1>2. PICK d \in Nat \ {0} : d = Magnitude(b) /\ d <= MaxInt + 1
  BY <1>1, Bounds DEF Magnitude
<1>3. CASE a >= 0
  <2>1. a % d \in 0..(d - 1)
    BY <1>1, <1>2, Euclid
  <2> QED
    BY <1>2, <1>3, <2>1, Bounds DEF Remainder
<1>4. CASE a < 0
  <2>1. -a \in Int
    BY <1>1
  <2>2. (-a) % d \in 0..(d - 1)
    BY <1>2, <2>1, Euclid
  <2> QED
    BY <1>1, <1>2, <1>4, <2>2, Bounds DEF Remainder
<1> QED
  BY <1>1, <1>3, <1>4

\* An unsigned word, whole turns away from what it stands for.
LEMMA UnsignedTurns ==
  ASSUME NEW n \in Int
  PROVE  /\ Unsigned(n) \in Int /\ 0 <= Unsigned(n) /\ Unsigned(n) < Words
         /\ \E k \in Int : Unsigned(n) = n + k * Words
<1>1. n % Words \in 0..(Words - 1) /\ n \div Words \in Int /\ n = Words * (n \div Words) + (n % Words)
  BY Bounds, Euclid
<1>2. PICK q \in Int : q = n \div Words
  BY <1>1
<1>3. PICK t \in Int : t = q * Words
  BY <1>2, Bounds
<1>4. Words * q = t /\ (-q) * Words = -t
  BY <1>2, <1>3, Bounds, Products
<1>5. Unsigned(n) = n + (-q) * Words /\ -q \in Int
  BY <1>1, <1>2, <1>3, <1>4, Bounds DEF Unsigned
<1>6. Unsigned(n) \in Int /\ 0 <= Unsigned(n) /\ Unsigned(n) < Words
  BY <1>1, Bounds DEF Unsigned
<1> QED
  BY <1>5, <1>6

\* The difference of unsigned words is that of the words, if it is positive.
LEMMA Span ==
  ASSUME NEW lo \in Word, NEW hi \in Word, lo <= hi
  PROVE  Unsigned(Unsigned(hi) - Unsigned(lo)) = hi - lo
<1>1. lo \in Int /\ hi \in Int /\ MinInt <= lo /\ hi <= MaxInt
  BY Bounds
<1>2. PICK h \in Int : Unsigned(hi) = hi + h * Words
  BY <1>1, UnsignedTurns
<1>3. PICK l \in Int : Unsigned(lo) = lo + l * Words
  BY <1>1, UnsignedTurns
<1>4. PICK d \in Int : d = Unsigned(hi) - Unsigned(lo)
  BY <1>1, UnsignedTurns
<1>5. PICK k \in Int : Unsigned(d) = d + k * Words
  BY <1>4, UnsignedTurns
<1>6. PICK j \in Int : j = h - l + k
  BY <1>2, <1>3, <1>5
<1>7. PICK x \in Int, y \in Int, z \in Int : x = h * Words /\ y = l * Words /\ z = k * Words
  BY <1>2, <1>3, <1>5, Bounds
<1>8. j * Words = x - y + z
  BY <1>2, <1>3, <1>5, <1>6, <1>7, Bounds
<1>9. Unsigned(d) = hi - lo + j * Words
  BY <1>1, <1>2, <1>3, <1>4, <1>5, <1>7, <1>8
<1>10. j * Words > -Words /\ j * Words < Words
  BY <1>1, <1>4, <1>7, <1>8, <1>9, UnsignedTurns, Bounds
<1>11. j = 0
  BY <1>10, Bounds, SmallMultiple
<1> QED
  BY <1>1, <1>4, <1>7, <1>8, <1>9, <1>11, Bounds

LEMMA LengthRule ==
  ASSUME NEW lo \in Word, NEW hi \in Word
  PROVE  /\ RangeLen(lo, hi) \in Word
         /\ RangeLen(lo, hi) = IF hi - lo + 1 < 0 THEN 0
                               ELSE IF hi - lo + 1 > MaxInt THEN MaxInt ELSE hi - lo + 1
<1>1. lo \in Int /\ hi \in Int
  BY Bounds
<1>2. CASE hi < lo
  <2>1. RangeLen(lo, hi) = 0
    BY <1>2 DEF RangeLen
  <2> QED
    BY <1>1, <1>2, <2>1, Bounds
<1>3. CASE lo <= hi
  <2>1. PICK n \in Nat : n = hi - lo
    BY <1>1, <1>3
  <2>2. RangeLen(lo, hi) = IF n >= MaxInt THEN MaxInt ELSE n + 1
    BY <1>1, <1>3, <2>1, Span DEF RangeLen
  <2> QED
    BY <1>1, <2>1, <2>2, Bounds
<1> QED
  BY <1>1, <1>2, <1>3

-----------------------------------------------------------------------------
(* The variable.                                                             *)

IInv == AccTypeOK /\ OverflowExact /\ LengthExact

\* What an operator computes: its exact result, or a failure when that does not
\* fit.
LEMMA OperatorRule ==
  ASSUME NEW op \in Integral, NEW a \in Word, NEW b \in Word
  PROVE  /\ Fails(op, a, b) \in BOOLEAN
         /\ ~Fails(op, a, b) => Result(op, a, b) \in Word
         /\ op \in {"+", "-", "*"} =>
              /\ Fails(op, a, b) <=> Exact(op, a, b) \notin Word
              /\ ~Fails(op, a, b) => Result(op, a, b) = Exact(op, a, b)
<1>1. CASE op = "+"
  BY <1>1, AddRule, WrapSame DEF Fails, Result, Exact, AddOverflows
<1>2. CASE op = "-"
  BY <1>2, SubRule, WrapSame DEF Fails, Result, Exact, SubOverflows
<1>3. CASE op = "*"
  BY <1>3, MulRule, WrapSame DEF Fails, Result, Exact, MulOverflows
<1>4. CASE op = "%"
  BY <1>4, RemainderFits DEF Fails, Result
<1> QED
  BY <1>1, <1>2, <1>3, <1>4 DEF Integral

LEMMA UpdateStep ==
  ASSUME IInv, NEW op \in Integral, NEW k \in Word, AccUpdate(op, k)
  PROVE  IInv'
<1>1. held \in Word
  BY DEF IInv, AccTypeOK
<1>2. /\ latest' = [op |-> op, from |-> held, by |-> k, failed |-> Fails(op, held, k)]
      /\ held' = IF Fails(op, held, k) THEN held ELSE Result(op, held, k)
  BY DEF AccUpdate
<1>3. AccTypeOK'
  <2>1. latest' \in UpdateRecords
    BY <1>1, <1>2, OperatorRule DEF UpdateRecords
  <2>2. held' \in Word
    BY <1>1, <1>2, OperatorRule
  <2> QED
    BY <2>1, <2>2 DEF AccTypeOK, UpdateRecords, LengthRecords, NoUpdate, Word, MinInt
<1>4. OverflowExact'
  <2>1. latest'.op = op /\ latest'.from = held /\ latest'.by = k /\ latest'.failed = Fails(op, held, k)
    BY <1>2
  <2>2. op \in {"+", "-", "*"} =>
          /\ Fails(op, held, k) <=> Exact(op, held, k) \notin Word
          /\ held' = IF Fails(op, held, k) THEN held ELSE Exact(op, held, k)
    BY <1>1, <1>2, OperatorRule
  <2> QED
    BY <2>1, <2>2 DEF OverflowExact, Exact, Word, MinInt
<1>5. LengthExact'
  BY <1>2 DEF LengthExact, Integral
<1> QED
  BY <1>3, <1>4, <1>5 DEF IInv

LEMMA MeasureStep ==
  ASSUME IInv, NEW k \in Word, AccMeasure(k)
  PROVE  IInv'
<1>1. held \in Word
  BY DEF IInv, AccTypeOK
<1>2. /\ latest' = [op |-> "len", from |-> held, by |-> k, failed |-> FALSE]
      /\ held' = RangeLen(held, k)
  BY DEF AccMeasure
<1>3. AccTypeOK'
  <2>1. latest' \in LengthRecords
    BY <1>1, <1>2 DEF LengthRecords
  <2>2. held' \in Word
    BY <1>1, <1>2, LengthRule
  <2> QED
    BY <2>1, <2>2 DEF AccTypeOK, UpdateRecords, LengthRecords, NoUpdate, Word, MinInt
<1>4. OverflowExact'
  BY <1>2 DEF OverflowExact
<1>5. LengthExact'
  BY <1>1, <1>2, LengthRule DEF LengthExact
<1> QED
  BY <1>3, <1>4, <1>5 DEF IInv

\* The inductive invariant: only the type of the variable is needed to see that
\* the next update is exact.
LEMMA Inductive == AccSpec => []IInv
<1>1. AccInit => IInv
  BY DEF AccInit, IInv, AccTypeOK, OverflowExact, LengthExact, NoUpdate
<1>2. IInv /\ [AccNext]_accVars => IInv'
  <2> SUFFICES ASSUME IInv, [AccNext]_accVars PROVE IInv'
    OBVIOUS
  <2>1. ASSUME NEW op \in Integral, NEW k \in Word, AccUpdate(op, k) PROVE IInv'
    BY <2>1, UpdateStep
  <2>2. ASSUME NEW k \in Word, AccMeasure(k) PROVE IInv'
    BY <2>2, MeasureStep
  <2>3. CASE UNCHANGED accVars
    BY <2>3 DEF accVars, IInv, AccTypeOK, OverflowExact, LengthExact
  <2> QED
    BY <2>1, <2>2, <2>3 DEF AccNext
<1> QED
  BY <1>1, <1>2, PTL DEF AccSpec

\* A variable holds a word whatever is done to it, and a failed update is one of
\* an integer operator (assignVar, IntRange.Len).
THEOREM TypeCorrect == AccSpec => []AccTypeOK
<1>1. IInv => AccTypeOK
  BY DEF IInv
<1> QED
  BY <1>1, Inductive, PTL

\* For words of any width: a sum, a difference or a product fails exactly when it
\* does not fit, and is exact otherwise (addOverflows, subOverflows, mulOverflows).
THEOREM UpdatesAreExact == AccSpec => []OverflowExact
<1>1. IInv => OverflowExact
  BY DEF IInv
<1> QED
  BY <1>1, Inductive, PTL

\* For words of any width: the length of a range is the number of its integers,
\* or the largest integer when there are more (IntRange.Len).
THEOREM LengthsAreExact == AccSpec => []LengthExact
<1>1. IInv => LengthExact
  BY DEF IInv
<1> QED
  BY <1>1, Inductive, PTL
=============================================================================
