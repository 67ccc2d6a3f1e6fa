-------------------------- MODULE TranslatorProofs --------------------------
(***************************************************************************)
(* Proofs about the translator and the wire codec. Keys, for integers,     *)
(* doubles and tokens of any size: what is encoded is decoded to what it   *)
(* was. Wire, for messages of any cells and any length: parse_request      *)
(* accepts what drivers send and nothing but encodings. Where, for filters *)
(* of any size on any contents: a compiled filter selects what MongoDB     *)
(* does. Updates, for any tables and commands: a row stays under the key   *)
(* of its document's _id. What a loop or a recursive function gives is     *)
(* shown by induction over its rounds.                                     *)
(***************************************************************************)
EXTENDS Keys, Wire, Where, Updates, FiniteSetTheorems, SequenceTheorems, TLAPS

(* Every nonempty set of naturals has a least element.                     *)
LEMMA LeastNatural ==
  ASSUME NEW S, S \subseteq Nat, S # {}
  PROVE  \E m \in S : \A x \in S : m <= x
<1>1. PICK m \in S : \A y \in S : ~(<<y, m>> \in OpToRel(<, Nat))
  BY NatLessThanWellFounded, WFMin, Zenon
<1>2. \A y \in S : ~(y < m)
  BY <1>1 DEF OpToRel
<1> QED
  BY <1>2

(* So a set of naturals that has zero and every successor is all of Nat.   *)
LEMMA Induction ==
  ASSUME NEW T, 0 \in T, \A n \in Nat : n \in T => n + 1 \in T
  PROVE  Nat \subseteq T
<1> DEFINE S == {n \in Nat : n \notin T}
<1> SUFFICES ASSUME S # {} PROVE FALSE
  OBVIOUS
<1>1. PICK m \in S : \A x \in S : m <= x
  BY LeastNatural, S \subseteq Nat
<1>2. m # 0 /\ m - 1 \in Nat
  BY <1>1
<1>3. m - 1 \in T
  BY <1>1, <1>2
<1>4. (m - 1) + 1 \in T
  BY <1>2, <1>3
<1> QED
  BY <1>1, <1>4

----------------------------------------------------------------------------
(* Arithmetic                                                              *)

LEMMA TimesMonotone ==
  ASSUME NEW a \in Int, NEW b \in Int, NEW p \in Nat, p > 0
  PROVE  /\ a < b => a * p < b * p
         /\ a <= b => a * p <= b * p
OBVIOUS

LEMMA DivMod ==
  ASSUME NEW a \in Int, NEW b \in Nat, b > 0
  PROVE  /\ a \div b \in Int /\ a % b \in Nat
         /\ a = b * (a \div b) + (a % b) /\ a % b < b
OBVIOUS

LEMMA DivModUnique ==
  ASSUME NEW b \in Nat, b > 0, NEW q \in Int, NEW r \in Nat, r < b
  PROVE  (b * q + r) \div b = q /\ (b * q + r) % b = r
<1> DEFINE a == b * q + r
           d == a \div b
           m == a % b
<1>1. a \in Int
  OBVIOUS
<1>2. d \in Int /\ m \in Nat /\ a = b * d + m /\ m < b
  BY <1>1, DivMod
<1> HIDE DEF d, m
<1>3. b * (q - d) = m - r
  BY <1>2
<1>4. CASE q > d
  <2>1. b * (q - d) >= b
    BY <1>2, <1>4
  <2> QED
    BY <1>2, <1>3, <2>1
<1>5. CASE q < d
  <2>1. b * (q - d) <= -b
    BY <1>2, <1>5
  <2> QED
    BY <1>2, <1>3, <2>1
<1>6. q = d
  BY <1>2, <1>4, <1>5
<1> QED
  BY <1>2, <1>6 DEF d, m
----------------------------------------------------------------------------
(* Powers                                                                  *)

Powers(power, b, n) == power = [i \in 0..n |-> IF i = 0 THEN 1 ELSE b * power[i - 1]]

LEMMA PowersExist ==
  ASSUME NEW b \in Nat, NEW n \in Nat
  PROVE  \E power : Powers(power, b, n)
<1> DEFINE T == {m \in Nat : \E power : Powers(power, b, m)}
<1>1. 0 \in T
  <2>1. Powers([i \in 0..0 |-> 1], b, 0)
    BY DEF Powers
  <2> QED
    BY <2>1
<1>2. ASSUME NEW m \in Nat, m \in T PROVE m + 1 \in T
  <2>1. PICK power : Powers(power, b, m)
    BY <1>2
  <2> DEFINE longer == [i \in 0..(m + 1) |-> IF i = m + 1 THEN b * power[m] ELSE power[i]]
  <2>2. ASSUME NEW i \in 0..(m + 1)
        PROVE  longer[i] = IF i = 0 THEN 1 ELSE b * longer[i - 1]
    BY <2>1 DEF Powers
  <2>3. Powers(longer, b, m + 1)
    BY <2>2 DEF Powers
  <2> QED
    BY <2>3
<1> HIDE DEF T
<1>3. Nat \subseteq T
  BY <1>1, <1>2, Induction
<1> QED
  BY <1>3 DEF T

LEMMA PowersOf ==
  ASSUME NEW b \in Nat, NEW n \in Nat
  PROVE  \E power : Powers(power, b, n) /\ Pow(b, n) = power[n]
<1> DEFINE power == CHOOSE f : f = [i \in 0..n |-> IF i = 0 THEN 1 ELSE b * f[i - 1]]
<1>1. Powers(power, b, n)
  <2>1. \E f : Powers(f, b, n)
    BY PowersExist
  <2>2. power = CHOOSE f : Powers(f, b, n)
    BY DEF Powers
  <2> HIDE DEF power
  <2> QED
    BY <2>1, <2>2, Zenon
<1>2. Pow(b, n) = power[n]
  BY DEF Pow
<1> QED
  BY <1>1, <1>2, Zenon

(* Tables of powers agree where both go.                                   *)
LEMMA PowersAgree ==
  ASSUME NEW b \in Nat, NEW n \in Nat, NEW m \in Nat, NEW f, NEW g,
         Powers(f, b, n), Powers(g, b, m)
  PROVE  \A i \in Nat : i <= n /\ i <= m => f[i] = g[i] /\ f[i] \in Nat
<1> DEFINE T == {i \in Nat : i <= n /\ i <= m => f[i] = g[i] /\ f[i] \in Nat}
<1>1. 0 \in T
  BY DEF Powers
<1>2. ASSUME NEW i \in Nat, i \in T PROVE i + 1 \in T
  BY <1>2 DEF Powers
<1> HIDE DEF T
<1>3. Nat \subseteq T
  BY <1>1, <1>2, Induction
<1> QED
  BY <1>3 DEF T

(* What a power is.                                                        *)
LEMMA PowRecurs ==
  ASSUME NEW b \in Nat
  PROVE  /\ Pow(b, 0) = 1
         /\ \A n \in Nat : Pow(b, n) \in Nat /\ Pow(b, n + 1) = b * Pow(b, n)
<1>1. Pow(b, 0) = 1
  <2>1. PICK f : Powers(f, b, 0) /\ Pow(b, 0) = f[0]
    BY PowersOf, Zenon
  <2> QED
    BY <2>1 DEF Powers
<1>2. ASSUME NEW n \in Nat
      PROVE  Pow(b, n) \in Nat /\ Pow(b, n + 1) = b * Pow(b, n)
  <2>1. PICK f : Powers(f, b, n) /\ Pow(b, n) = f[n]
    BY PowersOf
  <2>2. PICK g : Powers(g, b, n + 1) /\ Pow(b, n + 1) = g[n + 1]
    BY PowersOf, n + 1 \in Nat
  <2>3. f[n] = g[n] /\ f[n] \in Nat
    BY <2>1, <2>2, PowersAgree
  <2>4. g[n + 1] = b * g[n]
    BY <2>2 DEF Powers
  <2> QED
    BY <2>1, <2>2, <2>3, <2>4
<1> QED
  BY <1>1, <1>2

LEMMA PowPositive ==
  ASSUME NEW b \in Nat, b > 0
  PROVE  \A n \in Nat : Pow(b, n) \in Nat /\ Pow(b, n) > 0
<1> DEFINE T == {n \in Nat : Pow(b, n) > 0}
<1>1. 0 \in T
  BY PowRecurs
<1>2. ASSUME NEW n \in Nat, n \in T PROVE n + 1 \in T
  <2>1. Pow(b, n) \in Nat /\ Pow(b, n) > 0 /\ Pow(b, n + 1) = b * Pow(b, n)
    BY <1>2, PowRecurs
  <2> QED
    BY <2>1, TimesMonotone
<1> HIDE DEF T
<1>3. Nat \subseteq T
  BY <1>1, <1>2, Induction
<1> QED
  BY <1>3, PowRecurs DEF T

LEMMA PowMonotone ==
  ASSUME NEW i \in Nat, NEW j \in Nat, i <= j
  PROVE  Pow(2, i) <= Pow(2, j)
<1> DEFINE T == {k \in Nat : Pow(2, i) <= Pow(2, i + k)}
<1>1. 0 \in T
  BY PowRecurs
<1>2. ASSUME NEW k \in Nat, k \in T PROVE k + 1 \in T
  <2>1. /\ Pow(2, i) \in Nat /\ Pow(2, i + k) \in Nat
        /\ Pow(2, (i + k) + 1) = 2 * Pow(2, i + k)
    BY PowRecurs, i + k \in Nat
  <2> QED
    BY <1>2, <2>1, i + (k + 1) = (i + k) + 1
<1> HIDE DEF T
<1>3. Nat \subseteq T
  BY <1>1, <1>2, Induction
<1>4. j - i \in T
  BY <1>3
<1> QED
  BY <1>4, i + (j - i) = j DEF T

----------------------------------------------------------------------------
(* _id keys                                                                *)

LEMMA HalfPositive == Half \in Nat /\ Half > 0
BY PowPositive, KeysAssumption, Width - 1 \in Nat DEF Half

LEMMA OnePositive == One \in Nat /\ One > 0
BY PowPositive, KeysAssumption, ManBits + Bias - 1 \in Nat DEF One

(* The key of an integer is the integer moved up by Half.                  *)
LEMMA EncodeIntMoves ==
  ASSUME NEW n \in Ints
  PROVE  /\ EncodeInt(n) = n + Half /\ EncodeInt(n) \in Bits
         /\ DecodeInt(EncodeInt(n)) = n
<1>1. /\ Half \in Nat /\ Half > 0 /\ 2 * Half \in Nat /\ 2 * Half > 0
      /\ n \in Int /\ n >= -Half /\ n < Half
  BY HalfPositive DEF Ints
<1>2. n % (2 * Half) = IF n >= 0 THEN n ELSE n + 2 * Half
  <2>1. CASE n >= 0
    <3>1. ((2 * Half) * 0 + n) % (2 * Half) = n
      BY <1>1, <2>1, DivModUnique
    <3> QED
      BY <1>1, <2>1, <3>1
  <2>2. CASE n < 0
    <3>1. ((2 * Half) * (-1) + (n + 2 * Half)) % (2 * Half) = n + 2 * Half
      BY <1>1, <2>2, DivModUnique
    <3>2. (2 * Half) * (-1) + (n + 2 * Half) = n
      BY <1>1
    <3> QED
      BY <1>1, <2>2, <3>1, <3>2
  <2> QED
    BY <1>1, <2>1, <2>2
<1>3. EncodeInt(n) = n + Half
  BY <1>1, <1>2 DEF EncodeInt, Flip
<1> QED
  BY <1>1, <1>3 DEF DecodeInt, Flip, Bits

(* Doubles by magnitude: what is left of the bits without the sign.        *)
Magnitudes == 0..(Half - 1)

LEMMA SignAndMagnitude ==
  ASSUME NEW b \in Bits
  PROVE  /\ Magnitude(b) \in Magnitudes
         /\ b = IF Negative(b) THEN Magnitude(b) + Half ELSE Magnitude(b)
<1>1. Half \in Nat /\ Half > 0 /\ b \in Int /\ b >= 0 /\ b < 2 * Half
  BY HalfPositive DEF Bits
<1>2. CASE Negative(b)
  <2>1. (Half * 1 + (b - Half)) % Half = b - Half
    BY <1>1, <1>2, DivModUnique DEF Negative
  <2> QED
    BY <1>1, <1>2, <2>1, Half * 1 + (b - Half) = b DEF Negative, Magnitude, Magnitudes
<1>3. CASE ~Negative(b)
  <2>1. (Half * 0 + b) % Half = b
    BY <1>1, <1>3, DivModUnique DEF Negative
  <2> QED
    BY <1>1, <1>3, <2>1, Half * 0 + b = b DEF Negative, Magnitude, Magnitudes
<1> QED
  BY <1>2, <1>3

(* The absolute value of a magnitude, from its exponent e and mantissa m.  *)
LEMMA AbsValueIs ==
  ASSUME NEW b \in Bits
  PROVE  LET e == Exponent(b)
             m == Mantissa(b)
             step == Pow(2, ManBits)
         IN /\ step \in Nat /\ step > 0 /\ e \in Nat /\ m \in Nat /\ m < step
            /\ Magnitude(b) = step * e + m
            /\ e = 0 => AbsValue(b) = m
            /\ e > 0 => /\ e - 1 \in Nat
                        /\ AbsValue(b) = (step + m) * Pow(2, e - 1)
            /\ AbsValue(b) \in Nat
<1> DEFINE e == Exponent(b)
           m == Mantissa(b)
           step == Pow(2, ManBits)
<1>1. step \in Nat /\ step > 0
  BY PowPositive, KeysAssumption
<1>2. Magnitude(b) \in Nat
  BY SignAndMagnitude, HalfPositive DEF Magnitudes
<1>3. e \in Int /\ m \in Nat /\ Magnitude(b) = step * e + m /\ m < step
  <2> DEFINE g == Magnitude(b)
  <2>1. e = g \div step /\ m = g % step /\ g \in Int
    BY <1>2 DEF Exponent, Mantissa
  <2> HIDE DEF e, m, step, g
  <2>2. /\ g \div step \in Int /\ g % step \in Nat
        /\ g = step * (g \div step) + (g % step) /\ g % step < step
    BY <1>1, <2>1, DivMod
  <2> QED
    BY <2>1, <2>2 DEF g
<1>4. e \in Nat
  <2> HIDE DEF e, m, step
  <2>1. CASE e < 0
    <3>1. step * e <= -step
      BY <1>1, <1>3, <2>1
    <3> QED
      BY <1>1, <1>2, <1>3, <3>1
  <2> QED
    BY <1>3, <2>1
<1>5. /\ e = 0 => AbsValue(b) = m
      /\ e > 0 => AbsValue(b) = (step + m) * Pow(2, e - 1)
  BY <1>4 DEF AbsValue
<1>6. e > 0 => e - 1 \in Nat /\ Pow(2, e - 1) \in Nat
  <2>1. \A i \in Nat : Pow(2, i) \in Nat
    BY PowRecurs
  <2> HIDE DEF e
  <2> QED
    BY <1>4, <2>1
<1> HIDE DEF e, m, step
<1>7. AbsValue(b) \in Nat
  BY <1>1, <1>3, <1>4, <1>5, <1>6
<1> QED
  BY <1>1, <1>3, <1>4, <1>5, <1>6, <1>7 DEF e, m, step

(* Larger magnitudes are larger values.                                    *)
LEMMA AbsValueGrows ==
  ASSUME NEW a \in Bits, NEW b \in Bits, Magnitude(a) < Magnitude(b)
  PROVE  AbsValue(a) < AbsValue(b)
<1> DEFINE e == Exponent(a)
           m == Mantissa(a)
           f == Exponent(b)
           n == Mantissa(b)
           step == Pow(2, ManBits)
           p == Pow(2, e - 1)
           q == Pow(2, f - 1)
<1>1. /\ step \in Nat /\ step > 0 /\ e \in Nat /\ m \in Nat /\ m < step
      /\ Magnitude(a) = step * e + m
      /\ e = 0 => AbsValue(a) = m
      /\ e > 0 => e - 1 \in Nat /\ AbsValue(a) = (step + m) * p
  BY AbsValueIs
<1>2. /\ f \in Nat /\ n \in Nat /\ n < step
      /\ Magnitude(b) = step * f + n
      /\ f = 0 => AbsValue(b) = n
      /\ f > 0 => f - 1 \in Nat /\ AbsValue(b) = (step + n) * q
  BY AbsValueIs
<1>3. /\ e > 0 => p \in Nat /\ p > 0
      /\ f > 0 => q \in Nat /\ q > 0
  <2>1. \A i \in Nat : Pow(2, i) \in Nat /\ Pow(2, i) > 0
    BY PowPositive
  <2> HIDE DEF e, f
  <2> QED
    BY <1>1, <1>2, <2>1
<1>4. e > 0 /\ f > e => p + p <= q
  <2> SUFFICES ASSUME e > 0, f > e PROVE p + p <= q
    OBVIOUS
  <2>1. e \in Nat /\ f - 1 \in Nat /\ e <= f - 1 /\ e - 1 \in Nat
    BY <1>1, <1>2
  <2>2. Pow(2, e) <= q
    BY <2>1, PowMonotone
  <2>3. Pow(2, (e - 1) + 1) = 2 * p /\ p \in Nat
    BY <2>1, PowRecurs
  <2> QED
    BY <2>1, <2>2, <2>3, (e - 1) + 1 = e
<1> HIDE DEF e, m, f, n, step, p, q
<1>5. e <= f
  <2> SUFFICES ASSUME e > f PROVE FALSE
    BY <1>1, <1>2
  <2>1. step * e >= step * (f + 1)
    BY <1>1, <1>2, TimesMonotone
  <2>2. step * (f + 1) = step * f + step
    BY <1>1, <1>2
  <2> QED
    BY <1>1, <1>2, <2>1, <2>2
<1>6. CASE e = f
  <2>1. m < n /\ p = q
    BY <1>1, <1>2, <1>6 DEF p, q
  <2>2. CASE e = 0
    BY <1>1, <1>2, <1>6, <2>1, <2>2
  <2>3. CASE e > 0
    <3>1. (step + m) * p < (step + n) * p
      BY <1>1, <1>2, <1>3, <2>1, <2>3, TimesMonotone
    <3> QED
      BY <1>1, <1>2, <1>6, <2>1, <2>3, <3>1
  <2> QED
    BY <1>1, <2>2, <2>3
<1>7. CASE e < f
  <2>1. (step + n) * q >= step * q
    BY <1>1, <1>2, <1>3, <1>7, TimesMonotone
  <2>2. CASE e = 0
    <3>1. step * q >= step
      BY <1>1, <1>2, <1>3, <1>7
    <3>2. step * q \in Int /\ (step + n) * q \in Int
      BY <1>1, <1>2, <1>3, <1>7
    <3>3. AbsValue(a) = m /\ AbsValue(b) = (step + n) * q
      BY <1>1, <1>2, <1>7, <2>2
    <3> QED
      BY <1>1, <2>1, <3>1, <3>2, <3>3
  <2>3. CASE e > 0
    <3>1. (step + m) * p < (step + step) * p
      BY <1>1, <1>3, <2>3, TimesMonotone
    <3>2. (step + step) * p = (p + p) * step /\ step * q = q * step
      BY <1>1, <1>2, <1>3, <1>7, <2>3
    <3>3. (p + p) * step <= q * step
      BY <1>1, <1>2, <1>3, <1>4, <1>7, <2>3, TimesMonotone
    <3>4. /\ (step + m) * p \in Int /\ (p + p) * step \in Int /\ q * step \in Int
          /\ (step + n) * q \in Int
      BY <1>1, <1>2, <1>3, <1>7, <2>3
    <3> QED
      BY <1>1, <1>2, <1>7, <2>1, <2>3, <3>1, <3>2, <3>3, <3>4
  <2> QED
    BY <1>1, <2>2, <2>3
<1> QED
  BY <1>1, <1>2, <1>5, <1>6, <1>7

LEMMA AbsValueByMagnitude ==
  ASSUME NEW a \in Bits, NEW b \in Bits
  PROVE  /\ AbsValue(a) < AbsValue(b) => Magnitude(a) < Magnitude(b)
         /\ AbsValue(a) = AbsValue(b) => Magnitude(a) = Magnitude(b)
<1>1. /\ Magnitude(a) < Magnitude(b) => AbsValue(a) < AbsValue(b)
      /\ Magnitude(b) < Magnitude(a) => AbsValue(b) < AbsValue(a)
  BY AbsValueGrows
<1>2. Magnitude(a) = Magnitude(b) => AbsValue(a) = AbsValue(b)
  BY DEF AbsValue, Exponent, Mantissa
<1>3. Magnitude(a) \in Int /\ Magnitude(b) \in Int
  BY SignAndMagnitude, HalfPositive DEF Magnitudes
<1>4. AbsValue(a) \in Nat /\ AbsValue(b) \in Nat
  BY AbsValueIs
<1> QED
  BY <1>1, <1>2, <1>3, <1>4

(* A double's key is read back bit by bit.                                 *)
LEMMA EncodeDoubleReads ==
  ASSUME NEW b \in Bits
  PROVE  EncodeDouble(b) \in Bits /\ DecodeDouble(EncodeDouble(b)) = b
BY HalfPositive DEF EncodeDouble, DecodeDouble, Negative, Bits

(* Doubles' keys sort as the doubles do.                                   *)
LEMMA EncodeDoubleGrows ==
  ASSUME NEW a \in Bits, NEW b \in Bits, RealValue(a) < RealValue(b)
  PROVE  EncodeDouble(a) < EncodeDouble(b)
<1>1. /\ Half \in Nat /\ Half > 0 /\ a \in Int /\ b \in Int
      /\ Magnitude(a) \in 0..(Half - 1) /\ Magnitude(b) \in 0..(Half - 1)
      /\ a = IF Negative(a) THEN Magnitude(a) + Half ELSE Magnitude(a)
      /\ b = IF Negative(b) THEN Magnitude(b) + Half ELSE Magnitude(b)
  BY HalfPositive, SignAndMagnitude DEF Bits, Magnitudes
<1>2. AbsValue(a) \in Nat /\ AbsValue(b) \in Nat
  BY AbsValueIs
<1>3. /\ AbsValue(a) < AbsValue(b) => Magnitude(a) < Magnitude(b)
      /\ AbsValue(b) < AbsValue(a) => Magnitude(b) < Magnitude(a)
  BY AbsValueByMagnitude
<1> QED
  BY <1>1, <1>2, <1>3 DEF RealValue, EncodeDouble

(* A number other than zero is one double.                                 *)
LEMMA RealValueOnce ==
  ASSUME NEW a \in Bits, NEW b \in Bits, RealValue(a) = RealValue(b), RealValue(a) # 0
  PROVE  a = b
<1>1. /\ a = IF Negative(a) THEN Magnitude(a) + Half ELSE Magnitude(a)
      /\ b = IF Negative(b) THEN Magnitude(b) + Half ELSE Magnitude(b)
  BY SignAndMagnitude
<1>2. AbsValue(a) \in Nat /\ AbsValue(b) \in Nat
  BY AbsValueIs
<1>3. AbsValue(a) = AbsValue(b) /\ (Negative(a) <=> Negative(b))
  BY <1>2 DEF RealValue
<1>4. Magnitude(a) = Magnitude(b)
  BY <1>3, AbsValueByMagnitude
<1> QED
  BY <1>1, <1>3, <1>4

LEMMA RealValueType ==
  ASSUME NEW b \in Bits
  PROVE  RealValue(b) \in Int
<1>1. AbsValue(b) \in Nat
  BY AbsValueIs
<1> QED
  BY <1>1 DEF RealValue

LEMMA IdForms ==
  ASSUME NEW id \in IdsOf
  PROVE  /\ id.t = "int" \/ id.t = "double"
         /\ id.t = "int" => id.n \in Ints /\ id = [t |-> "int", n |-> id.n]
         /\ id.t = "double" => id.n \in Bits /\ id = [t |-> "double", n |-> id.n]
BY DEF IdsOf

(* A double whose key is an integer's is that integer.                     *)
LEMMA AsIntIs ==
  ASSUME NEW b \in Bits
  PROVE  /\ IsIntegral(b) => AsInt(b) * One = RealValue(b)
         /\ \A n \in Int : IsFinite(b) /\ RealValue(b) = n * One => IsIntegral(b) /\ AsInt(b) = n
<1>1. RealValue(b) \in Int /\ One \in Nat /\ One > 0
  BY RealValueType, OnePositive
<1>2. IsIntegral(b) => AsInt(b) * One = RealValue(b)
  <2> DEFINE v == RealValue(b)
             d == v \div One
  <2>1. v \div One \in Int /\ v % One \in Nat /\ v = One * (v \div One) + (v % One)
    BY <1>1, DivMod
  <2>2. IsIntegral(b) => v % One = 0
    BY DEF IsIntegral
  <2>3. AsInt(b) = d
    BY DEF AsInt
  <2> HIDE DEF v
  <2>4. v % One = 0 => d * One = v
    BY <1>1, <2>1
  <2> QED
    BY <2>2, <2>3, <2>4 DEF v
<1>3. ASSUME NEW n \in Int, IsFinite(b), RealValue(b) = n * One
      PROVE  IsIntegral(b) /\ AsInt(b) = n
  <2>1. (One * n + 0) \div One = n /\ (One * n + 0) % One = 0
    BY <1>1, DivModUnique
  <2>2. RealValue(b) = One * n + 0
    BY <1>1, <1>3
  <2> QED
    BY <1>3, <2>1, <2>2 DEF IsIntegral, AsInt
<1> QED
  BY <1>2, <1>3

(* What encode_id does, by the tag of the key.                             *)
LEMMA KeyForms ==
  ASSUME NEW id \in IdsOf
  PROVE  LET key == EncodeId(id)
         IN \/ /\ \E n \in Ints : key = [tag |-> "int", bits |-> n + Half] /\ Number(id) = n * One
                                  /\ DecodeId(key) = [t |-> "int", n |-> n]
               /\ key.tag = "int"
            \/ /\ key = [tag |-> "double", bits |-> EncodeDouble(id.n)] /\ key.tag = "double"
               /\ id.t = "double" /\ id.n \in Bits /\ Number(id) = RealValue(id.n)
               /\ IsNumber(id) => \A n \in Ints : Number(id) # n * One
               /\ DecodeId(key) = id
<1> DEFINE key == EncodeId(id)
<1>1. CASE id.t = "int"
  <2>1. id.n \in Ints /\ key = [tag |-> "int", bits |-> id.n + Half]
    BY <1>1, IdForms, EncodeIntMoves DEF EncodeId
  <2>2. Number(id) = id.n * One
    BY <1>1 DEF Number
  <2>3. DecodeId(key) = [t |-> "int", n |-> id.n]
    <3>1. DecodeInt(EncodeInt(id.n)) = id.n /\ EncodeInt(id.n) = id.n + Half
      BY <2>1, EncodeIntMoves
    <3> QED
      BY <2>1, <3>1 DEF DecodeId
  <2> QED
    BY <2>1, <2>2, <2>3
<1>2. CASE id.t = "double" /\ IsIntegral(id.n) /\ AsInt(id.n) \in Ints
  <2> DEFINE n == AsInt(id.n)
  <2>1. id.n \in Bits
    BY <1>2, IdForms
  <2>2. EncodeInt(n) = n + Half /\ DecodeInt(EncodeInt(n)) = n /\ n \in Ints
    BY <1>2, EncodeIntMoves
  <2>3. key = [tag |-> "int", bits |-> n + Half]
    BY <1>2, <2>2 DEF EncodeId
  <2>4. Number(id) = n * One
    BY <1>2, <2>1, AsIntIs DEF Number
  <2>5. DecodeId(key) = [t |-> "int", n |-> n]
    BY <2>2, <2>3 DEF DecodeId
  <2> HIDE DEF n
  <2> QED
    BY <2>2, <2>3, <2>4, <2>5
<1>3. CASE id.t = "double" /\ ~(IsIntegral(id.n) /\ AsInt(id.n) \in Ints)
  <2>1. id.n \in Bits /\ id = [t |-> "double", n |-> id.n]
    BY <1>3, IdForms
  <2>2. key = [tag |-> "double", bits |-> EncodeDouble(id.n)]
    BY <1>3 DEF EncodeId
  <2>3. DecodeId(key) = id
    <3>1. DecodeDouble(EncodeDouble(id.n)) = id.n
      BY <2>1, EncodeDoubleReads
    <3> QED
      BY <2>1, <2>2, <3>1 DEF DecodeId
  <2>4. Number(id) = RealValue(id.n) /\ (IsNumber(id) => IsFinite(id.n))
    BY <1>3 DEF Number, IsNumber
  <2>5. ASSUME IsNumber(id), NEW n \in Ints PROVE Number(id) # n * One
    <3>1. n \in Int
      BY HalfPositive DEF Ints
    <3> QED
      BY <1>3, <2>1, <2>4, <2>5, <3>1, AsIntIs
  <2> QED
    BY <1>3, <2>1, <2>2, <2>3, <2>4, <2>5
<1> QED
  BY <1>1, <1>2, <1>3, IdForms

LEMMA IdKeysAreNumbers ==
  ASSUME NEW a \in IdsOf, NEW b \in IdsOf, IsNumber(a), IsNumber(b)
  PROVE  LET key == EncodeId(a)
             otherKey == EncodeId(b)
         IN /\ (key = otherKey) = (Number(a) = Number(b))
            /\ key.tag = otherKey.tag /\ Number(a) < Number(b) => key.bits < otherKey.bits
<1> DEFINE key == EncodeId(a)
           other == EncodeId(b)
           P == /\ (key = other) = (Number(a) = Number(b))
                /\ key.tag = other.tag /\ Number(a) < Number(b) => key.bits < other.bits
<1> SUFFICES P
  OBVIOUS
<1>0. Half \in Nat /\ One \in Nat /\ One > 0 /\ \A n \in Ints : n \in Int
  BY HalfPositive, OnePositive DEF Ints
<1>1. CASE key.tag = "int" /\ other.tag = "int"
  <2>1. PICK n \in Ints : key = [tag |-> "int", bits |-> n + Half] /\ Number(a) = n * One
    BY <1>1, KeyForms, Zenon
  <2>2. PICK m \in Ints : other = [tag |-> "int", bits |-> m + Half] /\ Number(b) = m * One
    BY <1>1, KeyForms, Zenon
  <2> HIDE DEF key, other
  <2>3. n \in Int /\ m \in Int
    BY <1>0
  <2>4. /\ n < m => n * One < m * One
        /\ m < n => m * One < n * One
        /\ n * One \in Int /\ m * One \in Int
    BY <1>0, <2>3, TimesMonotone
  <2>5. (key = other) <=> n = m
    BY <1>0, <2>1, <2>2, <2>3
  <2>6. (Number(a) = Number(b)) <=> n = m
    BY <2>1, <2>2, <2>3, <2>4
  <2>7. Number(a) < Number(b) => n < m
    BY <2>1, <2>2, <2>3, <2>4
  <2>8. key.bits = n + Half /\ other.bits = m + Half
    BY <2>1, <2>2
  <2>9. n < m => key.bits < other.bits
    BY <1>0, <2>3, <2>8
  <2> QED
    BY <2>5, <2>6, <2>7, <2>9 DEF key, other
<1>2. CASE key.tag = "double" /\ other.tag = "double"
  <2>1. /\ key = [tag |-> "double", bits |-> EncodeDouble(a.n)]
        /\ a.t = "double" /\ a.n \in Bits /\ Number(a) = RealValue(a.n)
        /\ \A n \in Ints : Number(a) # n * One
    BY <1>2, KeyForms
  <2>2. /\ other = [tag |-> "double", bits |-> EncodeDouble(b.n)]
        /\ b.t = "double" /\ b.n \in Bits /\ Number(b) = RealValue(b.n)
    BY <1>2, KeyForms
  <2>3. Number(a) # 0
    <3>1. 0 \in Ints /\ 0 * One = 0
      BY HalfPositive, OnePositive DEF Ints
    <3> QED
      BY <2>1, <3>1
  <2>4. (Number(a) = Number(b)) <=> a.n = b.n
    <3>1. Number(a) = Number(b) => a.n = b.n
      BY <2>1, <2>2, <2>3, RealValueOnce
    <3> QED
      BY <2>1, <2>2, <3>1
  <2>5. (key = other) <=> a.n = b.n
    <3>1. DecodeDouble(EncodeDouble(a.n)) = a.n /\ DecodeDouble(EncodeDouble(b.n)) = b.n
      BY <2>1, <2>2, EncodeDoubleReads
    <3> HIDE DEF key, other
    <3>2. key = other => EncodeDouble(a.n) = EncodeDouble(b.n)
      BY <2>1, <2>2
    <3> QED
      BY <2>1, <2>2, <3>1, <3>2
  <2>6. Number(a) < Number(b) => EncodeDouble(a.n) < EncodeDouble(b.n)
    BY <2>1, <2>2, EncodeDoubleGrows
  <2> HIDE DEF key, other
  <2>7. key.bits = EncodeDouble(a.n) /\ other.bits = EncodeDouble(b.n)
    BY <2>1, <2>2
  <2> QED
    BY <2>4, <2>5, <2>6, <2>7 DEF key, other
<1>3. CASE key.tag # other.tag
  <2>1. Number(a) # Number(b)
    <3>1. CASE key.tag = "int" /\ other.tag = "double"
      <4>1. \E n \in Ints : Number(a) = n * One
        BY <3>1, KeyForms
      <4>2. \A n \in Ints : Number(b) # n * One
        BY <3>1, KeyForms
      <4> QED
        BY <4>1, <4>2
    <3>2. CASE key.tag = "double" /\ other.tag = "int"
      <4>1. \E n \in Ints : Number(b) = n * One
        BY <3>2, KeyForms
      <4>2. \A n \in Ints : Number(a) # n * One
        BY <3>2, KeyForms
      <4> QED
        BY <4>1, <4>2
    <3>3. key.tag \in {"int", "double"} /\ other.tag \in {"int", "double"}
      BY KeyForms
    <3> HIDE DEF key, other
    <3> QED
      BY <1>3, <3>1, <3>2, <3>3
  <2>2. key # other
    BY <1>3
  <2> QED
    BY <1>3, <2>1, <2>2
<1>4. key.tag \in {"int", "double"} /\ other.tag \in {"int", "double"}
  BY KeyForms
<1> HIDE DEF key, other, P
<1> QED
  BY <1>1, <1>2, <1>3, <1>4

LEMMA IdKeysReadBack ==
  ASSUME NEW id \in IdsOf
  PROVE  LET back == DecodeId(EncodeId(id))
         IN back = id \/ (back.t = "int" /\ Number(back) = Number(id))
<1> DEFINE key == EncodeId(id)
           back == DecodeId(key)
<1>1. CASE key.tag = "double"
  BY <1>1, KeyForms
<1>2. CASE key.tag = "int"
  <2>1. PICK n \in Ints : Number(id) = n * One /\ back = [t |-> "int", n |-> n]
    BY <1>2, KeyForms
  <2> HIDE DEF back
  <2>2. back.t = "int" /\ Number(back) = n * One
    BY <2>1 DEF Number
  <2> QED
    BY <2>1, <2>2 DEF back
<1>3. key.tag \in {"int", "double"}
  BY KeyForms
<1> QED
  BY <1>1, <1>2, <1>3

----------------------------------------------------------------------------
(* Resume tokens                                                           *)

Values(value, data, n) ==
  value = [i \in 0..n |-> IF i = 0 THEN 0 ELSE value[i - 1] * Base + data[i]]

LEMMA ValuesExist ==
  ASSUME NEW data, NEW n \in Nat
  PROVE  \E value : Values(value, data, n)
<1> DEFINE T == {m \in Nat : \E value : Values(value, data, m)}
<1>1. 0 \in T
  <2>1. Values([i \in 0..0 |-> 0], data, 0)
    BY DEF Values
  <2> QED
    BY <2>1
<1>2. ASSUME NEW m \in Nat, m \in T PROVE m + 1 \in T
  <2>1. PICK value : Values(value, data, m)
    BY <1>2
  <2> DEFINE longer == [i \in 0..(m + 1) |-> IF i = m + 1 THEN value[m] * Base + data[m + 1]
                                                          ELSE value[i]]
  <2>2. ASSUME NEW i \in 0..(m + 1)
        PROVE  longer[i] = IF i = 0 THEN 0 ELSE longer[i - 1] * Base + data[i]
    <3> DEFINE v == value[m] * Base + data[m + 1]
    <3>1. value[i] = (IF i = 0 THEN 0 ELSE value[i - 1] * Base + data[i]) \/ i = m + 1
      BY <2>1 DEF Values
    <3>2. CASE i = m + 1
      <4>1. longer[i] = v /\ longer[m] = value[m] /\ i - 1 = m /\ i # 0
        BY <3>2
      <4> QED
        BY <3>2, <4>1
    <3>3. CASE i # m + 1
      <4>1. longer[i] = value[i] /\ (i # 0 => longer[i - 1] = value[i - 1])
        BY <3>3
      <4> QED
        BY <3>1, <3>3, <4>1
    <3> QED
      BY <3>2, <3>3
  <2>3. Values(longer, data, m + 1)
    BY <2>2 DEF Values
  <2> QED
    BY <2>3
<1> HIDE DEF T
<1>3. Nat \subseteq T
  BY <1>1, <1>2, Induction
<1> QED
  BY <1>3 DEF T

LEMMA ValuesOf ==
  ASSUME NEW data, Len(data) \in Nat
  PROVE  \E value : Values(value, data, Len(data)) /\ DecodeToken(data) = value[Len(data)]
<1> DEFINE n == Len(data)
           value == CHOOSE f : f = [i \in 0..n |->
                      IF i = 0 THEN 0 ELSE f[i - 1] * Base + data[i]]
<1>1. Values(value, data, n)
  <2>1. \E f : Values(f, data, n)
    BY ValuesExist
  <2>2. value = CHOOSE f : Values(f, data, n)
    BY DEF Values
  <2> HIDE DEF value
  <2> QED
    BY <2>1, <2>2, Zenon
<1>2. DecodeToken(data) = value[n]
  BY DEF DecodeToken
<1> QED
  BY <1>1, <1>2, Zenon

(* What is left of a number below the digit it is cut at is less than one  *)
(* of that digit.                                                          *)
LEMMA CutDigits ==
  ASSUME NEW value, NEW data, NEW n \in Nat, Values(value, data, n),
         \A i \in 1..n : data[i] \in 0..(Base - 1)
  PROVE  \A k \in 0..n :
           /\ value[n - k] \in Nat /\ Pow(Base, k) \in Nat /\ Pow(Base, k) > 0
           /\ \E r \in Nat : r < Pow(Base, k) /\ value[n] = Pow(Base, k) * value[n - k] + r
<1>0. /\ Base \in Nat /\ Base > 1
      /\ \A k \in Nat : /\ Pow(Base, k) \in Nat /\ Pow(Base, k) > 0
                        /\ Pow(Base, k + 1) = Base * Pow(Base, k)
      /\ Pow(Base, 0) = 1
  <2>1. Base \in Nat /\ Base > 1
    BY KeysAssumption
  <2>2. Base \in Nat /\ Base > 0
    BY <2>1
  <2>3. \A k \in Nat : Pow(Base, k) \in Nat /\ Pow(Base, k) > 0
    BY <2>2, PowPositive
  <2>4. Pow(Base, 0) = 1 /\ \A k \in Nat : Pow(Base, k + 1) = Base * Pow(Base, k)
    BY <2>2, PowRecurs
  <2> QED
    BY <2>1, <2>3, <2>4
<1>1. \A i \in Nat : i <= n => value[i] \in Nat
  <2> DEFINE T == {i \in Nat : i <= n => value[i] \in Nat}
  <2>1. 0 \in T
    BY DEF Values
  <2>2. ASSUME NEW i \in Nat, i \in T PROVE i + 1 \in T
    <3> SUFFICES ASSUME i + 1 <= n PROVE value[i + 1] \in Nat
      OBVIOUS
    <3>1. value[i + 1] = value[i] * Base + data[i + 1]
      BY DEF Values
    <3>2. value[i] \in Nat /\ i + 1 \in 1..n
      BY <2>2
    <3>3. data[i + 1] \in Nat
      BY <1>0, <3>2
    <3>4. ASSUME NEW x \in Nat, NEW y \in Nat PROVE x * Base + y \in Nat
      <4>1. x * Base \in Int /\ 0 * Base <= x * Base /\ 0 * Base = 0
        BY <1>0, TimesMonotone
      <4> QED
        BY <4>1
    <3> QED
      BY <3>1, <3>2, <3>3, <3>4
  <2> HIDE DEF T
  <2>3. Nat \subseteq T
    BY <2>1, <2>2, Induction
  <2> QED
    BY <2>3 DEF T
<1> DEFINE Left(k) == \E r \in Nat : r < Pow(Base, k) /\ value[n] = Pow(Base, k) * value[n - k] + r
           U == {k \in Nat : k <= n => Left(k)}
<1>2. 0 \in U
  <2>1. value[n] \in Nat
    BY <1>1
  <2>2. 0 < Pow(Base, 0) /\ value[n] = Pow(Base, 0) * value[n - 0] + 0
    BY <1>0, <2>1
  <2> QED
    BY <2>2
<1>3. ASSUME NEW k \in Nat, k \in U PROVE k + 1 \in U
  <2> SUFFICES ASSUME k + 1 <= n PROVE Left(k + 1)
    OBVIOUS
  <2> DEFINE v == value[n - k]
             w == value[n - (k + 1)]
             d == data[n - k]
             p == Pow(Base, k)
  <2>1. PICK r \in Nat : r < p /\ value[n] = p * v + r
    BY <1>3
  <2>2. v = w * Base + d
    <3>1. n - k \in 1..n /\ (n - k) - 1 = n - (k + 1) /\ n - k \in 0..n /\ n - k # 0
      OBVIOUS
    <3> QED
      BY <3>1 DEF Values
  <2>3. w \in Nat /\ d \in 0..(Base - 1)
    <3>1. n - (k + 1) \in Nat /\ n - (k + 1) <= n /\ n - k \in 1..n
      OBVIOUS
    <3> QED
      BY <1>1, <3>1
  <2>4. p \in Nat /\ p > 0 /\ Pow(Base, k + 1) = Base * p
    BY <1>0
  <2> HIDE DEF v, w, d, p
  <2>5. d \in Nat /\ d <= Base - 1
    BY <1>0, <2>3
  <2>6. p * d \in Nat /\ p * d <= p * (Base - 1)
    <3>1. d * p <= (Base - 1) * p
      BY <1>0, <2>4, <2>5, TimesMonotone
    <3> QED
      BY <1>0, <2>4, <2>5, <3>1
  <2>7. p * (Base - 1) + p = Base * p
    BY <1>0, <2>4
  <2>8. p * d + r \in Nat /\ p * d + r < Base * p
    <3>1. p * (Base - 1) \in Int /\ Base * p \in Int
      BY <1>0, <2>4
    <3> QED
      BY <2>1, <2>4, <2>6, <2>7, <3>1
  <2>9. p * v + r = (Base * p) * w + (p * d + r)
    <3>1. p * (w * Base + d) = (Base * p) * w + p * d
      BY <1>0, <2>3, <2>4, <2>5
    <3>2. (Base * p) * w \in Int /\ p * d \in Int
      BY <1>0, <2>3, <2>4, <2>5
    <3> QED
      BY <2>1, <2>2, <3>1, <3>2
  <2>10. p * d + r < Pow(Base, k + 1) /\ value[n] = Pow(Base, k + 1) * w + (p * d + r)
    BY <2>1, <2>4, <2>8, <2>9
  <2> QED
    BY <2>8, <2>10 DEF w
<1>4. Nat \subseteq U
  <2> HIDE DEF U
  <2> QED
    BY <1>2, <1>3, Induction
<1>5. ASSUME NEW k \in 0..n
      PROVE  /\ value[n - k] \in Nat /\ Pow(Base, k) \in Nat /\ Pow(Base, k) > 0
             /\ Left(k)
  <2>1. k \in Nat /\ k <= n /\ n - k \in Nat /\ n - k <= n
    OBVIOUS
  <2>2. k \in U
    BY <1>4, <2>1
  <2>3. Left(k)
    BY <2>1, <2>2
  <2> HIDE DEF Left
  <2> QED
    BY <1>0, <1>1, <2>1, <2>3
<1> QED
  BY <1>5

(* A token is made of the digits it was read from.                         *)
LEMMA TokenReadsBack ==
  ASSUME NEW data \in TokenData, Acceptable(data)
  PROVE  EncodeToken(DecodeToken(data)) = data
<1>0. Base \in Nat /\ Base > 1 /\ Digits \in Nat
  BY KeysAssumption
<1>1. Len(data) = Digits /\ data = [i \in 1..Digits |-> data[i]]
  <2>1. PICK n \in (Digits - 1)..(Digits + 1) : data \in [1..n -> 0..Base]
    BY DEF TokenData
  <2>2. n \in Nat
    BY KeysAssumption
  <2>3. data \in Seq(0..Base)
    BY <2>1, <2>2, SeqDef
  <2>4. DOMAIN data = 1..Len(data) /\ DOMAIN data = 1..n
    BY <2>1, <2>3
  <2> QED
    BY <2>1, <2>4 DEF Acceptable
<1>2. \A i \in 1..Digits : data[i] \in 0..(Base - 1)
  BY <1>1 DEF Acceptable
<1>3. PICK value : Values(value, data, Digits) /\ DecodeToken(data) = value[Digits]
  BY <1>0, <1>1, ValuesOf
<1>4. ASSUME NEW i \in 1..Digits
      PROVE  (value[Digits] \div Pow(Base, Digits - i)) % Base = data[i]
  <2> DEFINE k == Digits - i
             p == Pow(Base, k)
             v == value[i]
             d == data[i]
  <2>1. k \in 0..Digits /\ Digits - k = i /\ k + 1 \in 0..Digits /\ Digits - (k + 1) = i - 1
    BY <1>0
  <2>2. PICK r \in Nat : r < p /\ value[Digits] = p * v + r
    BY <1>0, <1>2, <1>3, <2>1, CutDigits
  <2>3. p \in Nat /\ p > 0 /\ v \in Nat /\ value[i - 1] \in Nat
    BY <1>0, <1>2, <1>3, <2>1, CutDigits
  <2>4. v = value[i - 1] * Base + d /\ d \in 0..(Base - 1)
    BY <1>0, <1>2, <1>3 DEF Values
  <2> HIDE DEF p, v, d, k
  <2>5. (p * v + r) \div p = v
    BY <2>2, <2>3, DivModUnique
  <2>6. (Base * value[i - 1] + d) % Base = d
    <3> DEFINE u == value[i - 1]
    <3>1. u \in Int /\ d \in Nat /\ d < Base /\ Base > 0
      BY <1>0, <2>3, <2>4
    <3> HIDE DEF u
    <3>2. (Base * u + d) % Base = d
      BY <1>0, <3>1, DivModUnique
    <3> QED
      BY <3>2 DEF u
  <2>7. Base * value[i - 1] + d = v
    BY <1>0, <2>3, <2>4
  <2> QED
    BY <2>2, <2>5, <2>6, <2>7 DEF p, d, k
<1>5. EncodeToken(value[Digits]) = [i \in 1..Digits |-> data[i]]
  BY <1>4 DEF EncodeToken
<1> QED
  BY <1>1, <1>3, <1>5

----------------------------------------------------------------------------
(* $changeStream options                                                   *)

Parsed(parsed, options, n) ==
  parsed = [i \in 0..n |-> IF i = 0 THEN Start ELSE ParseOption(parsed[i - 1], options[i])]

LEMMA ParsedExists ==
  ASSUME NEW options, NEW n \in Nat
  PROVE  \E parsed : Parsed(parsed, options, n)
<1> DEFINE T == {m \in Nat : \E parsed : Parsed(parsed, options, m)}
<1>1. 0 \in T
  <2>1. Parsed([i \in 0..0 |-> Start], options, 0)
    BY DEF Parsed
  <2> QED
    BY <2>1
<1>2. ASSUME NEW m \in Nat, m \in T PROVE m + 1 \in T
  <2>1. PICK parsed : Parsed(parsed, options, m)
    BY <1>2
  <2> DEFINE longer == [i \in 0..(m + 1) |-> IF i = m + 1
                                             THEN ParseOption(parsed[m], options[m + 1])
                                             ELSE parsed[i]]
  <2>2. ASSUME NEW i \in 0..(m + 1)
        PROVE  longer[i] = IF i = 0 THEN Start ELSE ParseOption(longer[i - 1], options[i])
    BY <2>1 DEF Parsed
  <2>3. Parsed(longer, options, m + 1)
    BY <2>2 DEF Parsed
  <2> QED
    BY <2>3
<1> HIDE DEF T
<1>3. Nat \subseteq T
  BY <1>1, <1>2, Induction
<1> QED
  BY <1>3 DEF T

OptionLists(n) == [1..n -> Options]

LEMMA ParsedOf ==
  ASSUME NEW n \in Nat, NEW options \in OptionLists(n)
  PROVE  /\ Len(options) = n
         /\ \E f : /\ f[0] = Start /\ \A i \in 1..n : f[i] = ParseOption(f[i - 1], options[i])
                   /\ ParseOptions(options) = f[n]
<1>1. Len(options) = n
  <2>1. options \in Seq(Options)
    BY SeqDef DEF OptionLists
  <2> QED
    BY <2>1, LenProperties DEF OptionLists
<1> DEFINE f == CHOOSE g : g = [i \in 0..n |->
                  IF i = 0 THEN Start ELSE ParseOption(g[i - 1], options[i])]
<1>2. Parsed(f, options, n)
  <2>1. \E g : Parsed(g, options, n)
    BY ParsedExists
  <2>2. f = CHOOSE g : Parsed(g, options, n)
    BY DEF Parsed
  <2> HIDE DEF f
  <2> QED
    BY <2>1, <2>2, Zenon
<1>3. ParseOptions(options) = f[n]
  BY <1>1 DEF ParseOptions
<1> HIDE DEF f
<1>4. f[0] = Start /\ \A i \in 1..n : f[i] = ParseOption(f[i - 1], options[i])
  BY <1>2 DEF Parsed
<1> QED
  BY <1>1, <1>3, <1>4, Zenon

Outcomes == [start : {"head", "token", "time"},
             error : {"none", "NotImplemented", "OptionsConflict", "BadValue"}]

(* What a client is told apart by: an error, or where its stream starts.   *)
Identical(a, b) == (a.error = "none" <=> b.error = "none") /\ (a.error = "none" => a = b)

LEMMA ParseOptionType ==
  ASSUME NEW a \in Outcomes, NEW o \in Options
  PROVE  ParseOption(a, o) \in Outcomes
BY DEF ParseOption, Outcomes

LEMMA ParseOptionSame ==
  ASSUME NEW a \in Outcomes, NEW b \in Outcomes, Identical(a, b), NEW o \in Options
  PROVE  Identical(ParseOption(a, o), ParseOption(b, o))
<1>1. CASE a.error = "none"
  BY <1>1 DEF Identical
<1>2. CASE a.error # "none"
  BY <1>2 DEF Identical, ParseOption
<1> QED
  BY <1>1, <1>2

(* One option after one that is no error.                                  *)
LEMMA ParseOptionCases ==
  ASSUME NEW a \in Outcomes, NEW o \in Options
  PROVE  /\ a.error # "none" => ParseOption(a, o) = a
         /\ o = "fullDocument" => ParseOption(a, o) = a
         /\ a.error = "none" /\ o \in {"required", "badToken"} => ParseOption(a, o).error # "none"
         /\ a.error = "none" /\ o \in Origins /\ a.start # "head" => ParseOption(a, o).error # "none"
         /\ a.error = "none" /\ o \in Origins /\ a.start = "head" =>
              /\ ParseOption(a, o).error = "none" /\ ParseOption(a, o).start # "head"
         /\ o = "fullDocument" \/ o \in {"required", "badToken"} \/ o \in Origins
BY DEF ParseOption, TakesOrigin, Outcomes, Options, Origins

LEMMA ParseOptionSwaps ==
  ASSUME NEW a \in Outcomes, NEW x \in Options, NEW y \in Options
  PROVE  Identical(ParseOption(ParseOption(a, x), y), ParseOption(ParseOption(a, y), x))
<1> DEFINE b == ParseOption(a, x)
           c == ParseOption(a, y)
<1>1. b \in Outcomes /\ c \in Outcomes
  BY ParseOptionType
<1>2. CASE a.error # "none" \/ x = "fullDocument" \/ y = "fullDocument"
  <2>1. ParseOption(b, y) = ParseOption(c, x)
    BY <1>1, <1>2, ParseOptionCases
  <2> QED
    BY <2>1 DEF Identical
<1>3. CASE a.error = "none" /\ x # "fullDocument" /\ y # "fullDocument"
  <2>1. ParseOption(b, y).error # "none"
    BY <1>1, <1>3, ParseOptionCases
  <2>2. ParseOption(c, x).error # "none"
    BY <1>1, <1>3, ParseOptionCases
  <2> QED
    BY <2>1, <2>2 DEF Identical
<1> QED
  BY <1>2, <1>3

(* The order of two neighbours makes no difference.                        *)
LEMMA NeighboursSwap ==
  ASSUME NEW n \in Nat, NEW options \in OptionLists(n), NEW i \in 1..(n - 1)
  PROVE  Identical(ParseOptions(options), ParseOptions(Swapped(options, i)))
<1> DEFINE other == Swapped(options, i)
<1>1. /\ i \in Nat /\ i >= 1 /\ i + 1 <= n /\ i \in 1..n /\ i + 1 \in 1..n
      /\ i - 1 \in Nat
  OBVIOUS
<1>2. /\ other \in OptionLists(n) /\ other[i] = options[i + 1] /\ other[i + 1] = options[i]
      /\ \A j \in 1..n : j # i /\ j # i + 1 => other[j] = options[j]
  BY <1>1 DEF Swapped, OptionLists
<1> HIDE DEF other
<1>3. PICK f : /\ f[0] = Start /\ \A j \in 1..n : f[j] = ParseOption(f[j - 1], options[j])
               /\ ParseOptions(options) = f[n]
  BY ParsedOf, Zenon
<1>4. PICK g : /\ g[0] = Start /\ \A j \in 1..n : g[j] = ParseOption(g[j - 1], other[j])
               /\ ParseOptions(other) = g[n]
  BY <1>2, ParsedOf, Zenon
<1>5. \A j \in 1..n : options[j] \in Options /\ other[j] \in Options
  BY <1>2 DEF OptionLists
<1>6. \A k \in Nat : k < i => f[k] = g[k] /\ f[k] \in Outcomes
  <2> DEFINE T == {k \in Nat : k < i => f[k] = g[k] /\ f[k] \in Outcomes}
  <2>1. 0 \in T
    BY <1>3, <1>4 DEF Start, Outcomes
  <2>2. ASSUME NEW k \in Nat, k \in T PROVE k + 1 \in T
    <3> SUFFICES ASSUME k + 1 < i PROVE f[k + 1] = g[k + 1] /\ f[k + 1] \in Outcomes
      OBVIOUS
    <3>1. /\ k + 1 \in 1..n /\ (k + 1) - 1 = k /\ other[k + 1] = options[k + 1]
          /\ options[k + 1] \in Options /\ f[k] = g[k] /\ f[k] \in Outcomes
      BY <1>1, <1>2, <1>5, <2>2
    <3>2. f[k + 1] = ParseOption(f[k], options[k + 1])
      BY <1>3, <3>1
    <3>3. g[k + 1] = ParseOption(g[k], options[k + 1])
      BY <1>4, <3>1
    <3> QED
      BY <3>1, <3>2, <3>3, ParseOptionType
  <2> HIDE DEF T
  <2>3. Nat \subseteq T
    BY <2>1, <2>2, Induction
  <2> QED
    BY <2>3 DEF T
<1> DEFINE Alike(k) == f[k] \in Outcomes /\ g[k] \in Outcomes /\ Identical(f[k], g[k])
<1>7. Alike(i + 1)
  <2> DEFINE a == f[i - 1]
             x == options[i]
             y == options[i + 1]
  <2>1. a = g[i - 1] /\ a \in Outcomes /\ x \in Options /\ y \in Options
    BY <1>1, <1>5, <1>6
  <2>2. f[i] = ParseOption(a, x) /\ g[i] = ParseOption(a, y)
    BY <1>1, <1>2, <1>3, <1>4, <2>1
  <2>3. f[i + 1] = ParseOption(f[i], y) /\ g[i + 1] = ParseOption(g[i], x)
    <3>1. (i + 1) - 1 = i
      BY <1>1
    <3> QED
      BY <1>1, <1>2, <1>3, <1>4, <3>1
  <2> HIDE DEF a, x, y
  <2>4. f[i] \in Outcomes /\ g[i] \in Outcomes
    BY <2>1, <2>2, ParseOptionType
  <2>5. f[i + 1] \in Outcomes /\ g[i + 1] \in Outcomes
    BY <2>1, <2>3, <2>4, ParseOptionType
  <2> QED
    BY <2>1, <2>2, <2>3, <2>5, ParseOptionSwaps
<1>8. \A k \in Nat : (i + 1) + k <= n => Alike((i + 1) + k)
  <2> DEFINE T == {k \in Nat : (i + 1) + k <= n => Alike((i + 1) + k)}
  <2>1. 0 \in T
    BY <1>1, <1>7, (i + 1) + 0 = i + 1
  <2>2. ASSUME NEW k \in Nat, k \in T PROVE k + 1 \in T
    <3> DEFINE at == (i + 1) + k
    <3>1. at \in Nat /\ (i + 1) + (k + 1) = at + 1 /\ at > i
      BY <1>1
    <3> SUFFICES ASSUME at + 1 <= n PROVE Alike(at + 1)
      BY <3>1
    <3>2. Alike(at)
      BY <2>2, <3>1
    <3>3. /\ at + 1 \in 1..n /\ (at + 1) - 1 = at /\ other[at + 1] = options[at + 1]
          /\ options[at + 1] \in Options
      BY <1>1, <1>2, <1>5, <3>1
    <3> HIDE DEF at
    <3>4. f[at + 1] = ParseOption(f[at], options[at + 1])
      BY <1>3, <3>3
    <3>5. g[at + 1] = ParseOption(g[at], options[at + 1])
      BY <1>4, <3>3
    <3> QED
      BY <3>2, <3>3, <3>4, <3>5, ParseOptionSame, ParseOptionType
  <2> HIDE DEF T
  <2>3. Nat \subseteq T
    BY <2>1, <2>2, Induction
  <2> QED
    BY <2>3 DEF T
<1>9. Alike(n)
  <2>1. n - (i + 1) \in Nat /\ (i + 1) + (n - (i + 1)) = n
    BY <1>1
  <2> HIDE DEF Alike
  <2> QED
    BY <1>8, <2>1
<1> QED
  BY <1>3, <1>4, <1>9 DEF other

(* Options that are accepted name at most one origin.                      *)
LEMMA OneOrigin ==
  ASSUME NEW n \in Nat, NEW options \in OptionLists(n), ParseOptions(options).error = "none"
  PROVE  Cardinality({i \in DOMAIN options : options[i] \in Origins}) <= 1
<1> DEFINE IsOrigin(j) == options[j] \in Origins
           Few(o, k) ==
             /\ o \in Outcomes
             /\ o.error = "none" =>
                  /\ \A j, l \in 1..k : IsOrigin(j) /\ IsOrigin(l) => j = l
                  /\ o.start = "head" => \A j \in 1..k : ~IsOrigin(j)
<1>1. PICK f : /\ f[0] = Start /\ \A j \in 1..n : f[j] = ParseOption(f[j - 1], options[j])
               /\ ParseOptions(options) = f[n]
  BY ParsedOf, Zenon
<1> DEFINE T == {k \in Nat : k <= n => Few(f[k], k)}
<1>2. 0 \in T
  BY <1>1 DEF Start, Outcomes
<1>3. ASSUME NEW k \in Nat, k \in T PROVE k + 1 \in T
  <2> SUFFICES ASSUME k + 1 <= n PROVE Few(f[k + 1], k + 1)
    OBVIOUS
  <2> DEFINE a == f[k]
             b == f[k + 1]
             o == options[k + 1]
  <2>1. k + 1 \in 1..n /\ (k + 1) - 1 = k
    OBVIOUS
  <2>2. b = ParseOption(a, o) /\ o \in Options
    BY <1>1, <2>1 DEF OptionLists
  <2>3. Few(a, k)
    BY <1>3
  <2>4. b \in Outcomes
    BY <2>2, <2>3, ParseOptionType
  <2>5. \A j \in 1..(k + 1) : j \in 1..k \/ j = k + 1
    OBVIOUS
  <2>6. IsOrigin(k + 1) <=> o \in Origins
    OBVIOUS
  <2> HIDE DEF a, b, o, IsOrigin
  <2>7. ASSUME b.error = "none"
        PROVE  /\ \A j, l \in 1..(k + 1) : IsOrigin(j) /\ IsOrigin(l) => j = l
               /\ b.start = "head" => \A j \in 1..(k + 1) : ~IsOrigin(j)
    <3>1. a.error = "none"
      BY <2>2, <2>3, <2>7, ParseOptionCases
    <3>2. CASE o \in Origins
      <4>1. a.start = "head" /\ b.start # "head"
        BY <2>2, <2>3, <2>7, <3>1, <3>2, ParseOptionCases
      <4>2. \A j \in 1..k : ~IsOrigin(j)
        BY <2>3, <3>1, <4>1
      <4> QED
        BY <2>5, <4>1, <4>2
    <3>3. CASE o \notin Origins
      <4>1. b = a
        BY <2>2, <2>3, <2>7, <3>1, <3>3, ParseOptionCases
      <4> QED
        BY <2>3, <2>5, <2>6, <3>1, <3>3, <4>1
    <3> QED
      BY <3>2, <3>3
  <2> QED
    BY <2>4, <2>7 DEF b
<1>4. Nat \subseteq T
  <2> HIDE DEF T
  <2> QED
    BY <1>2, <1>3, Induction
<1>5. Few(f[n], n)
  BY <1>4
<1>6. \A j, l \in 1..n : options[j] \in Origins /\ options[l] \in Origins => j = l
  BY <1>1, <1>5
<1> DEFINE S == {i \in DOMAIN options : options[i] \in Origins}
<1>7. S = {} \/ \E x : S = {x}
  <2>1. DOMAIN options = 1..n
    BY DEF OptionLists
  <2>2. \A j, l \in S : j = l
    BY <1>6, <2>1
  <2> HIDE DEF S
  <2>3. ASSUME NEW x \in S PROVE S = {x}
    BY <2>2
  <2> QED
    BY <2>3
<1>8. Cardinality({}) = 0 /\ \A x : Cardinality({x}) = 1
  BY FS_EmptySet, FS_Singleton
<1> QED
  BY <1>7, <1>8

----------------------------------------------------------------------------
(* The questions that are asked.                                           *)
Questions ==
  {NoQuestion} \cup {[area |-> "id", id |-> id] : id \in IdsOf}
  \cup {[area |-> "token", data |-> data] : data \in TokenData}
  \cup {[area |-> "options", options |-> options] :
          options \in UNION {OptionLists(n) : n \in 0..MaxOptions}}

Asked == question \in Questions

LEMMA QuestionsAreFaithful ==
  ASSUME question \in Questions
  PROVE  EncodingsAreFaithful
<1>1. KeysAreNumbers
  <2> SUFFICES ASSUME question.area = "id" PROVE KeysAreNumbers
    BY DEF KeysAreNumbers
  <2>1. question.id \in IdsOf
    BY DEF Questions, NoQuestion
  <2> QED
    BY <2>1, IdKeysAreNumbers DEF KeysAreNumbers
<1>2. KeysReadBack
  <2> SUFFICES ASSUME question.area = "id" PROVE KeysReadBack
    BY DEF KeysReadBack
  <2>1. question.id \in IdsOf
    BY DEF Questions, NoQuestion
  <2> QED
    BY <2>1, IdKeysReadBack DEF KeysReadBack
<1>3. TokensReadBack
  <2> SUFFICES ASSUME question.area = "token", Acceptable(question.data) PROVE TokensReadBack
    BY DEF TokensReadBack
  <2>1. question.data \in TokenData
    BY DEF Questions, NoQuestion
  <2> QED
    BY <2>1, TokenReadsBack DEF TokensReadBack
<1>4. OptionsInAnyOrder
  <2> SUFFICES ASSUME question.area = "options" PROVE OptionsInAnyOrder
    BY DEF OptionsInAnyOrder
  <2> DEFINE options == question.options
  <2>1. PICK n \in Nat : options \in OptionLists(n)
    BY KeysAssumption DEF Questions, NoQuestion
  <2> HIDE DEF options
  <2>2. Len(options) = n
    BY <2>1, ParsedOf
  <2>3. \A i \in 1..(n - 1) : Identical(ParseOptions(options), ParseOptions(Swapped(options, i)))
    BY <2>1, NeighboursSwap
  <2>4. ParseOptions(options).error = "none" =>
          Cardinality({i \in DOMAIN options : options[i] \in Origins}) <= 1
    BY <2>1, OneOrigin
  <2> QED
    BY <2>2, <2>3, <2>4 DEF OptionsInAnyOrder, Identical, options
<1> QED
  BY <1>1, <1>2, <1>3, <1>4 DEF EncodingsAreFaithful

(* For integers, doubles and tokens of any size (64-bit ones and tokens of *)
(* 16 hexadecimal digits among them) and any list of options: two _ids     *)
(* have one key exactly when they are one number, keys sort as numbers and *)
(* are read back, an accepted token is the one of its position, and the    *)
(* order of options does not matter (id.cpp, changestream.cpp).            *)
THEOREM EncodingsFaithful == KeysSpec => []EncodingsAreFaithful
<1>1. KeysInit => Asked
  BY DEF KeysInit, Asked, Questions
<1>2. Asked /\ [KeysNext]_question => Asked'
  <2> SUFFICES ASSUME question \in Questions, AskId \/ AskToken \/ AskOptions
               PROVE  question' \in Questions
    BY DEF KeysNext, Asked
  <2>1. CASE AskId
    BY <2>1 DEF AskId, Questions
  <2>2. CASE AskToken
    BY <2>2 DEF AskToken, Questions
  <2>3. CASE AskOptions
    <3>1. PICK n \in 0..MaxOptions : \E options \in OptionLists(n) :
            question' = [area |-> "options", options |-> options]
      BY <2>3 DEF AskOptions, OptionLists
    <3>2. PICK options \in OptionLists(n) : question' = [area |-> "options", options |-> options]
      BY <3>1
    <3>3. options \in UNION {OptionLists(k) : k \in 0..MaxOptions}
      OBVIOUS
    <3> QED
      BY <3>2, <3>3 DEF Questions
  <2> QED
    BY <2>1, <2>2, <2>3
<1>3. Asked => EncodingsAreFaithful
  BY QuestionsAreFaithful DEF Asked
<1> QED
  BY <1>1, <1>2, <1>3, PTL DEF KeysSpec

----------------------------------------------------------------------------
(* Joining sequences                                                       *)

Joins(f, parts, n) == f = [i \in 0..n |-> IF i = 0 THEN <<>> ELSE f[i - 1] \o parts[i]]

LEMMA JoinsExist ==
  ASSUME NEW parts, NEW n \in Nat
  PROVE  \E f : Joins(f, parts, n)
<1> DEFINE T == {m \in Nat : \E f : Joins(f, parts, m)}
<1>1. 0 \in T
  <2>1. Joins([i \in 0..0 |-> <<>>], parts, 0)
    BY DEF Joins
  <2> QED
    BY <2>1
<1>2. ASSUME NEW m \in Nat, m \in T PROVE m + 1 \in T
  <2>1. PICK f : Joins(f, parts, m)
    BY <1>2
  <2> DEFINE longer == [i \in 0..(m + 1) |-> IF i = m + 1 THEN f[m] \o parts[m + 1] ELSE f[i]]
  <2>2. ASSUME NEW i \in 0..(m + 1)
        PROVE  longer[i] = IF i = 0 THEN <<>> ELSE longer[i - 1] \o parts[i]
    BY <2>1 DEF Joins
  <2>3. Joins(longer, parts, m + 1)
    BY <2>2 DEF Joins
  <2> QED
    BY <2>3
<1> HIDE DEF T
<1>3. Nat \subseteq T
  BY <1>1, <1>2, Induction
<1> QED
  BY <1>3 DEF T

(* What has been joined part by part.                                      *)
StepsOf(f, parts, n) ==
  f[0] = <<>> /\ \A i \in 1..n : f[i] = f[i - 1] \o parts[i]

LEMMA JoinedOf ==
  ASSUME NEW parts, Len(parts) \in Nat
  PROVE  \E f : StepsOf(f, parts, Len(parts)) /\ Joined(parts) = f[Len(parts)]
<1> DEFINE n == Len(parts)
           f == CHOOSE g : g = [i \in 0..n |-> IF i = 0 THEN <<>> ELSE g[i - 1] \o parts[i]]
<1>1. Joins(f, parts, n)
  <2>1. \E g : Joins(g, parts, n)
    BY JoinsExist
  <2>2. f = CHOOSE g : Joins(g, parts, n)
    BY DEF Joins
  <2> HIDE DEF f
  <2> QED
    BY <2>1, <2>2, Zenon
<1>2. Joined(parts) = f[n]
  BY DEF Joined
<1> HIDE DEF f
<1>3. StepsOf(f, parts, n)
  BY <1>1 DEF Joins, StepsOf
<1> QED
  BY <1>2, <1>3, Zenon

Shares(parts, more, n) == \A i \in 1..n : parts[i] \in Seq(Int) /\ more[i] = parts[i]
Agree(f, g, n) == \A i \in 0..n : f[i] \in Seq(Int) /\ f[i] = g[i]

(* Steps are sequences, and those over one list of parts agree.            *)
LEMMA StepsAgree ==
  ASSUME NEW n \in Nat, NEW parts, NEW more, NEW f, NEW g,
         Shares(parts, more, n), StepsOf(f, parts, n), StepsOf(g, more, n)
  PROVE  Agree(f, g, n)
<1> DEFINE T == {i \in Nat : i <= n => f[i] \in Seq(Int) /\ f[i] = g[i]}
<1>1. 0 \in T
  <2>1. f[0] = <<>> /\ g[0] = <<>>
    BY DEF StepsOf
  <2>2. <<>> \in Seq(Int)
    OBVIOUS
  <2> QED
    BY <2>1, <2>2
<1>2. ASSUME NEW i \in Nat, i \in T PROVE i + 1 \in T
  <2> SUFFICES ASSUME i + 1 <= n PROVE f[i + 1] \in Seq(Int) /\ f[i + 1] = g[i + 1]
    OBVIOUS
  <2>1. i + 1 \in 1..n /\ (i + 1) - 1 = i /\ f[i] \in Seq(Int) /\ f[i] = g[i]
    BY <1>2
  <2>2. f[i + 1] = f[i] \o parts[i + 1] /\ g[i + 1] = g[i] \o more[i + 1]
    BY <2>1 DEF StepsOf
  <2>3. parts[i + 1] \in Seq(Int) /\ more[i + 1] = parts[i + 1]
    BY <2>1 DEF Shares
  <2> QED
    BY <2>1, <2>2, <2>3, ConcatProperties
<1> HIDE DEF T
<1>3. Nat \subseteq T
  BY <1>1, <1>2, Induction
<1> QED
  BY <1>3 DEF T, Agree

LEMMA JoinedAppend ==
  ASSUME NEW parts \in Seq(Seq(Int)), NEW p \in Seq(Int)
  PROVE  /\ Joined(parts) \in Seq(Int)
         /\ Joined(Append(parts, p)) = Joined(parts) \o p
<1> DEFINE n == Len(parts)
           more == Append(parts, p)
<1>1. /\ n \in Nat /\ Len(more) = n + 1 /\ more[n + 1] = p
      /\ \A i \in 1..n : parts[i] \in Seq(Int) /\ more[i] = parts[i]
  BY AppendProperties, LenProperties
<1>2. PICK f : StepsOf(f, parts, n) /\ Joined(parts) = f[n]
  BY <1>1, JoinedOf, Zenon
<1> HIDE DEF n, more
<1>3. PICK g : StepsOf(g, more, n + 1) /\ Joined(more) = g[n + 1]
  <2>1. Len(more) \in Nat
    BY <1>1
  <2>2. \E g : StepsOf(g, more, Len(more)) /\ Joined(more) = g[Len(more)]
    BY <2>1, JoinedOf, Zenon
  <2> QED
    BY <1>1, <2>2
<1>4. StepsOf(g, more, n) /\ g[n + 1] = g[n] \o more[n + 1]
  <2>1. n + 1 \in 1..(n + 1) /\ (n + 1) - 1 = n /\ \A i \in 1..n : i \in 1..(n + 1)
    BY <1>1
  <2> QED
    BY <1>3, <2>1 DEF StepsOf
<1>5. f[n] \in Seq(Int) /\ f[n] = g[n]
  <2>1. n \in Nat /\ n \in 0..n
    BY <1>1
  <2>2. Shares(parts, more, n)
    BY <1>1 DEF Shares
  <2>3. Agree(f, g, n)
    BY <1>2, <1>4, <2>1, <2>2, StepsAgree, Zenon
  <2> QED
    BY <2>1, <2>3 DEF Agree
<1> QED
  BY <1>1, <1>2, <1>3, <1>4, <1>5 DEF more

LEMMA JoinedEmpty == Joined(<<>>) = <<>>
<1>1. Len(<<>>) = 0
  OBVIOUS
<1>2. PICK f : StepsOf(f, <<>>, 0) /\ Joined(<<>>) = f[0]
  BY <1>1, JoinedOf
<1> QED
  BY <1>2 DEF StepsOf

(* Sections that can be encoded.                                           *)
Coded == {x \in SectionForms : x.kind = 0 => Len(x.docs) >= 1}

LEMMA EncodeSectionType ==
  ASSUME NEW x \in Coded
  PROVE  EncodeSection(x) \in Seq(Int)
<1>1. x.id \in Seq(Int) /\ x.docs \in Seq(Seq(Int)) /\ x.kind \in {0, 1}
  BY DEF Coded, SectionForms
<1>2. CASE x.kind = 0
  <2>1. x.docs[1] \in Seq(Int)
    BY <1>1, <1>2 DEF Coded
  <2>2. <<0>> \in Seq(Int)
    OBVIOUS
  <2> QED
    BY <1>2, <2>1, <2>2, ConcatProperties DEF EncodeSection
<1>3. CASE x.kind = 1
  <2> DEFINE j == Joined(x.docs)
             content == x.id \o <<0>> \o j
  <2>1. j \in Seq(Int)
    BY <1>1, JoinedAppend, <<>> \in Seq(Int)
  <2> HIDE DEF j
  <2>2. <<0>> \in Seq(Int)
    OBVIOUS
  <2>3. x.id \o <<0>> \in Seq(Int)
    BY <1>1, <2>2, ConcatProperties
  <2>4. content \in Seq(Int)
    BY <2>1, <2>3, ConcatProperties
  <2> HIDE DEF content
  <2>5. Len(content) + 1 \in Int /\ <<1, Len(content) + 1>> \in Seq(Int)
    BY <2>4
  <2>6. <<1, Len(content) + 1>> \o content \in Seq(Int)
    BY <2>4, <2>5, ConcatProperties
  <2> QED
    BY <1>3, <2>6 DEF EncodeSection, content, j
<1> QED
  BY <1>1, <1>2, <1>3

LEMMA EncodeAppend ==
  ASSUME NEW sections \in Seq(Coded), NEW x \in Coded
  PROVE  /\ Encode(sections) \in Seq(Int)
         /\ Encode(Append(sections, x)) = Encode(sections) \o EncodeSection(x)
<1> DEFINE n == Len(sections)
           parts == [i \in DOMAIN sections |-> EncodeSection(sections[i])]
           longer == Append(sections, x)
           more == [i \in DOMAIN longer |-> EncodeSection(longer[i])]
<1>1. /\ n \in Nat /\ DOMAIN sections = 1..n /\ DOMAIN longer = 1..(n + 1)
      /\ longer[n + 1] = x
      /\ \A i \in 1..n : sections[i] \in Coded /\ longer[i] = sections[i]
  <2>1. longer \in Seq(Coded) /\ Len(longer) = n + 1
    BY AppendProperties
  <2>2. DOMAIN longer = 1..(n + 1) /\ DOMAIN sections = 1..n /\ n \in Nat
    BY <2>1, LenProperties
  <2> QED
    BY <2>2, AppendProperties, LenProperties
<1>2. parts \in [1..n -> Seq(Int)]
  BY <1>1, EncodeSectionType
<1>3. parts \in Seq(Seq(Int)) /\ Len(parts) = n
  <2>1. parts \in Seq(Seq(Int))
    BY <1>1, <1>2, SeqDef
  <2> QED
    BY <1>1, <1>2, <2>1, LenProperties
<1>4. more = Append(parts, EncodeSection(x))
  <2> DEFINE e == EncodeSection(x)
             a == Append(parts, e)
  <2>1. e \in Seq(Int)
    BY EncodeSectionType
  <2> HIDE DEF e
  <2>2. /\ a \in Seq(Seq(Int)) /\ Len(a) = n + 1 /\ a[n + 1] = e
        /\ \A i \in 1..n : a[i] = parts[i]
    BY <1>3, <2>1, AppendProperties
  <2>3. a \in [1..(n + 1) -> Seq(Int)]
    BY <2>2, LenProperties
  <2>4. \A i \in 1..n : a[i] = EncodeSection(longer[i])
    BY <1>1, <2>2
  <2>5. a[n + 1] = EncodeSection(longer[n + 1])
    BY <1>1, <2>2 DEF e
  <2>6. \A i \in 1..(n + 1) : i \in 1..n \/ i = n + 1
    BY <1>1
  <2> HIDE DEF a, longer, parts
  <2>7. \A i \in 1..(n + 1) : a[i] = more[i]
    BY <1>1, <2>4, <2>5, <2>6
  <2> QED
    BY <1>1, <2>3, <2>7 DEF a, e
<1>5. EncodeSection(x) \in Seq(Int)
  BY EncodeSectionType
<1> QED
  BY <1>3, <1>4, <1>5, JoinedAppend DEF Encode

----------------------------------------------------------------------------
(* The loops of parse_request                                              *)

NoDocument(first) == [ok |-> TRUE, at |-> first, docs |-> <<>>]
DocumentLoop(f, c, first, sectionEnd, end, n) ==
  f = [i \in 0..n |-> IF i = 0 THEN NoDocument(first) ELSE ReadDocument(c, sectionEnd, end, f[i - 1])]
DocumentRounds(f, c, first, sectionEnd, end, n) ==
  f[0] = NoDocument(first) /\ \A i \in 1..n : f[i] = ReadDocument(c, sectionEnd, end, f[i - 1])

LEMMA DocumentLoopExists ==
  ASSUME NEW c, NEW first, NEW sectionEnd, NEW end, NEW n \in Nat
  PROVE  \E f : DocumentLoop(f, c, first, sectionEnd, end, n)
<1> DEFINE T == {m \in Nat : \E f : DocumentLoop(f, c, first, sectionEnd, end, m)}
<1>1. 0 \in T
  <2>1. DocumentLoop([i \in 0..0 |-> NoDocument(first)], c, first, sectionEnd, end, 0)
    BY DEF DocumentLoop
  <2> QED
    BY <2>1
<1>2. ASSUME NEW m \in Nat, m \in T PROVE m + 1 \in T
  <2>1. PICK f : DocumentLoop(f, c, first, sectionEnd, end, m)
    BY <1>2
  <2> DEFINE longer == [i \in 0..(m + 1) |-> IF i = m + 1
                                             THEN ReadDocument(c, sectionEnd, end, f[m])
                                             ELSE f[i]]
  <2>2. ASSUME NEW i \in 0..(m + 1)
        PROVE  longer[i] = IF i = 0 THEN NoDocument(first) ELSE ReadDocument(c, sectionEnd, end, longer[i - 1])
    BY <2>1 DEF DocumentLoop
  <2>3. DocumentLoop(longer, c, first, sectionEnd, end, m + 1)
    BY <2>2 DEF DocumentLoop
  <2> QED
    BY <2>3
<1> HIDE DEF T
<1>3. Nat \subseteq T
  BY <1>1, <1>2, Induction
<1> QED
  BY <1>3 DEF T

LEMMA DocumentsOf ==
  ASSUME NEW c, NEW first, NEW sectionEnd, NEW end, Len(c) \in Nat
  PROVE  \E f : DocumentRounds(f, c, first, sectionEnd, end, Len(c)) /\ Documents(c, first, sectionEnd, end) = f[Len(c)]
<1> DEFINE n == Len(c)
           f == CHOOSE g : g = [i \in 0..n |-> IF i = 0 THEN NoDocument(first)
                                               ELSE ReadDocument(c, sectionEnd, end, g[i - 1])]
<1>1. DocumentLoop(f, c, first, sectionEnd, end, n)
  <2>1. \E g : DocumentLoop(g, c, first, sectionEnd, end, n)
    BY DocumentLoopExists
  <2>2. f = CHOOSE g : DocumentLoop(g, c, first, sectionEnd, end, n)
    BY DEF DocumentLoop
  <2> HIDE DEF f
  <2> QED
    BY <2>1, <2>2, Zenon
<1>2. Documents(c, first, sectionEnd, end) = f[n]
  BY DEF Documents, NoDocument
<1> HIDE DEF f
<1>3. DocumentRounds(f, c, first, sectionEnd, end, n)
  BY <1>1 DEF DocumentLoop, DocumentRounds
<1> QED
  BY <1>2, <1>3, Zenon

NothingRead == [ok |-> TRUE, at |-> 1, haveBody |-> FALSE, sections |-> <<>>]
SectionLoop(f, c, end, n) ==
  f = [i \in 0..n |-> IF i = 0 THEN NothingRead ELSE ReadSection(c, end, f[i - 1])]
SectionRounds(f, c, end, n) ==
  f[0] = NothingRead /\ \A i \in 1..n : f[i] = ReadSection(c, end, f[i - 1])

LEMMA SectionLoopExists ==
  ASSUME NEW c, NEW end, NEW n \in Nat
  PROVE  \E f : SectionLoop(f, c, end, n)
<1> DEFINE T == {m \in Nat : \E f : SectionLoop(f, c, end, m)}
<1>1. 0 \in T
  <2>1. SectionLoop([i \in 0..0 |-> NothingRead], c, end, 0)
    BY DEF SectionLoop
  <2> QED
    BY <2>1
<1>2. ASSUME NEW m \in Nat, m \in T PROVE m + 1 \in T
  <2>1. PICK f : SectionLoop(f, c, end, m)
    BY <1>2
  <2> DEFINE longer == [i \in 0..(m + 1) |-> IF i = m + 1
                                             THEN ReadSection(c, end, f[m])
                                             ELSE f[i]]
  <2>2. ASSUME NEW i \in 0..(m + 1)
        PROVE  longer[i] = IF i = 0 THEN NothingRead ELSE ReadSection(c, end, longer[i - 1])
    BY <2>1 DEF SectionLoop
  <2>3. SectionLoop(longer, c, end, m + 1)
    BY <2>2 DEF SectionLoop
  <2> QED
    BY <2>3
<1> HIDE DEF T
<1>3. Nat \subseteq T
  BY <1>1, <1>2, Induction
<1> QED
  BY <1>3 DEF T

LEMMA SectionsOf ==
  ASSUME NEW c, NEW end, Len(c) \in Nat
  PROVE  \E f : SectionRounds(f, c, end, Len(c)) /\ Sections(c, end) = f[Len(c)]
<1> DEFINE n == Len(c)
           f == CHOOSE g : g = [i \in 0..n |-> IF i = 0 THEN NothingRead
                                               ELSE ReadSection(c, end, g[i - 1])]
<1>1. SectionLoop(f, c, end, n)
  <2>1. \E g : SectionLoop(g, c, end, n)
    BY SectionLoopExists
  <2>2. f = CHOOSE g : SectionLoop(g, c, end, n)
    BY DEF SectionLoop
  <2> HIDE DEF f
  <2> QED
    BY <2>1, <2>2, Zenon
<1>2. Sections(c, end) = f[n]
  BY DEF Sections, NothingRead
<1> HIDE DEF f
<1>3. SectionRounds(f, c, end, n)
  BY <1>1 DEF SectionLoop, SectionRounds
<1> QED
  BY <1>2, <1>3, Zenon

----------------------------------------------------------------------------
(* Nothing but encodings is accepted                                       *)

DocumentEnds(at, end, next) == next \in Nat /\ (next # 0 => at + 2 <= next /\ next <= end)

LEMMA AfterDocumentBounds ==
  ASSUME NEW c \in Seq(Int), NEW at \in Nat, at >= 1, NEW end \in Nat, end <= Len(c) + 1
  PROVE  DocumentEnds(at, end, AfterDocument(c, at, end))
<1> DEFINE size == c[at]
           next == AfterDocument(c, at, end)
<1>1. next = 0 \/ (at < end /\ size >= 2 /\ at + size <= end /\ next = at + size)
  BY DEF AfterDocument, MinDocument
<1>2. at < end => size \in Int
  BY LenProperties
<1> HIDE DEF size, next
<1>3. DocumentEnds(at, end, next)
  BY <1>1, <1>2 DEF DocumentEnds
<1> QED
  BY <1>3 DEF next

StringEnds(c, at, end, next) ==
  /\ next \in Nat
  /\ next # 0 => /\ at + 1 <= next /\ next <= end /\ c[next - 1] = 0
                 /\ \A i \in at..(next - 2) : c[i] # 0
  /\ next = 0 => \A i \in at..(end - 1) : c[i] # 0

LEMMA AfterStringBounds ==
  ASSUME NEW c, NEW at \in Nat, NEW end \in Nat
  PROVE  StringEnds(c, at, end, AfterString(c, at, end))
<1> USE DEF StringEnds
<1> DEFINE stops == {i \in at..(end - 1) : c[i] = 0}
           least == CHOOSE i \in stops : \A j \in stops : i <= j
<1>1. CASE stops = {}
  BY <1>1 DEF AfterString
<1>2. CASE stops # {}
  <2>1. stops \subseteq Nat
    OBVIOUS
  <2>2. \E i \in stops : \A j \in stops : i <= j
    BY <1>2, <2>1, LeastNatural
  <2>3. least \in stops /\ \A j \in stops : least <= j
    BY <2>2
  <2>4. AfterString(c, at, end) = 1 + least
    BY <1>2 DEF AfterString
  <2> HIDE DEF least
  <2> QED
    BY <2>3, <2>4
<1> QED
  BY <1>1, <1>2

(* A part of the cells.                                                    *)
LEMMA PartOf ==
  ASSUME NEW c \in Seq(Int), NEW a \in Nat, a >= 1, NEW b \in Nat, a <= b + 1, b <= Len(c)
  PROVE  /\ SubSeq(c, a, b) \in Seq(Int) /\ Len(SubSeq(c, a, b)) = b - a + 1
         /\ \A i \in 1..(b - a + 1) : SubSeq(c, a, b)[i] = c[a + i - 1]
<1>1. \A i \in a..b : c[i] \in Int
  BY LenProperties
<1> QED
  BY <1>1, SubSeqProperties

LEMMA PartsJoin ==
  ASSUME NEW c \in Seq(Int), NEW a \in Nat, a >= 1, NEW b \in Nat, NEW e \in Nat,
         a <= b + 1, b <= e, e <= Len(c)
  PROVE  SubSeq(c, a, b) \o SubSeq(c, b + 1, e) = SubSeq(c, a, e)
<1>1. /\ a \in 1..(Len(c) + 1) /\ b \in (a - 1)..Len(c) /\ e \in b..Len(c)
  BY LenProperties
<1> QED
  BY <1>1, ConcatAdjacentSubSeq

Meet(c, a, b, m, e) ==
  /\ c \in Seq(Int) /\ a \in Nat /\ b \in Nat /\ m \in Nat /\ e \in Nat
  /\ a >= 1 /\ m = b + 1 /\ a <= m /\ b <= e /\ e <= Len(c)

Joint(c, a, b, m, e) == SubSeq(c, a, b) \o SubSeq(c, m, e) = SubSeq(c, a, e)

LEMMA PartsMeet ==
  ASSUME NEW c, NEW a, NEW b, NEW m, NEW e, Meet(c, a, b, m, e)
  PROVE  Joint(c, a, b, m, e)
BY PartsJoin DEF Meet, Joint

LEMMA TwoCells ==
  ASSUME NEW x \in Int, NEW y \in Int
  PROVE  <<x>> \o <<y>> = <<x, y>>
<1>1. <<x>> \in Seq(Int) /\ <<y>> \in Seq(Int) /\ <<x, y>> \in Seq(Int)
  OBVIOUS
<1>2. /\ Len(<<x>>) = 1 /\ Len(<<y>>) = 1 /\ Len(<<x, y>>) = 2
      /\ <<x>>[1] = x /\ <<y>>[1] = y /\ <<x, y>>[1] = x /\ <<x, y>>[2] = y
  OBVIOUS
<1> DEFINE s == <<x>>
           t == <<y>>
           u == <<x, y>>
<1> HIDE DEF s, t, u
<1>3. /\ s \o t \in Seq(Int) /\ Len(s \o t) = Len(s) + Len(t)
      /\ \A i \in 1..(Len(s) + Len(t)) : (s \o t)[i] = IF i <= Len(s) THEN s[i] ELSE t[i - Len(s)]
  BY <1>1, ConcatProperties DEF s, t
<1>4. Len(s) = 1 /\ Len(t) = 1 /\ Len(u) = 2 /\ s[1] = x /\ t[1] = y /\ u[1] = x /\ u[2] = y
  BY <1>2 DEF s, t, u
<1>5. Len(s \o t) = 2 /\ (s \o t)[1] = x /\ (s \o t)[2] = y
  BY <1>3, <1>4
<1>6. Len(s \o t) = Len(u) /\ \A i \in 1..Len(s \o t) : (s \o t)[i] = u[i]
  BY <1>4, <1>5
<1>7. u \in Seq(Int)
  BY <1>1 DEF u
<1>8. s \o t = u
  BY <1>3, <1>6, <1>7, SeqEqual
<1> QED
  BY <1>8 DEF s, t, u

LEMMA PartOfOne ==
  ASSUME NEW c \in Seq(Int), NEW a \in 1..Len(c)
  PROVE  <<c[a]>> = SubSeq(c, a, a) /\ c[a] \in Int
<1>1. a \in Nat /\ a >= 1 /\ c[a] \in Int
  BY LenProperties
<1>2. /\ SubSeq(c, a, a) \in Seq(Int) /\ Len(SubSeq(c, a, a)) = a - a + 1
      /\ \A i \in 1..(a - a + 1) : SubSeq(c, a, a)[i] = c[a + i - 1]
  BY <1>1, PartOf
<1>3. Len(SubSeq(c, a, a)) = 1 /\ SubSeq(c, a, a)[1] = c[a]
  BY <1>1, <1>2
<1>4. /\ <<c[a]>> \in Seq(Int) /\ Len(<<c[a]>>) = 1 /\ <<c[a]>>[1] = c[a]
  BY <1>1
<1>5. Len(<<c[a]>>) = Len(SubSeq(c, a, a)) /\ \A i \in 1..Len(<<c[a]>>) : <<c[a]>>[i] = SubSeq(c, a, a)[i]
  BY <1>3, <1>4
<1> QED
  BY <1>1, <1>2, <1>4, <1>5, SeqEqual

(* What the loop over documents has read so far.                           *)
DocumentsRead(c, first, end, s) ==
  /\ s \in [ok : BOOLEAN, at : Nat, docs : Seq(Seq(Int))]
  /\ first <= s.at /\ s.at <= end
  /\ Joined(s.docs) = SubSeq(c, first, s.at - 1)

LEMMA ReadDocumentKeeps ==
  ASSUME NEW c \in Seq(Int), NEW first \in Nat, first >= 1, NEW end \in Nat,
         end <= Len(c) + 1, NEW sectionEnd \in Int, NEW s, DocumentsRead(c, first, end, s)
  PROVE  DocumentsRead(c, first, end, ReadDocument(c, sectionEnd, end, s))
<1> DEFINE next == AfterDocument(c, s.at, end)
           d == SubSeq(c, s.at, next - 1)
           t == ReadDocument(c, sectionEnd, end, s)
<1>1. /\ s.at \in Nat /\ s.docs \in Seq(Seq(Int)) /\ first <= s.at /\ s.at <= end /\ s.at >= 1
      /\ Joined(s.docs) = SubSeq(c, first, s.at - 1)
  BY DEF DocumentsRead
<1>2. next \in Nat /\ (next # 0 => s.at + 2 <= next /\ next <= end)
  <2>1. DocumentEnds(s.at, end, next)
    BY <1>1, AfterDocumentBounds
  <2> QED
    BY <2>1 DEF DocumentEnds
<1>3. \/ t = s \/ t = [s EXCEPT !.ok = FALSE]
      \/ next # 0 /\ t = [s EXCEPT !.at = next, !.docs = Append(@, d)]
  BY DEF ReadDocument
<1> SUFFICES DocumentsRead(c, first, end, t)
  OBVIOUS
<1> HIDE DEF t, next
<1>4. CASE t = s
  BY <1>4
<1>5. CASE t = [s EXCEPT !.ok = FALSE]
  BY <1>5 DEF DocumentsRead
<1>6. CASE next # 0 /\ t = [s EXCEPT !.at = next, !.docs = Append(@, d)]
  <2>0. next # 0 /\ next >= s.at + 2 /\ next <= end /\ Len(c) \in Nat
    BY <1>2, <1>6, LenProperties
  <2>1. /\ next - 1 \in Nat /\ s.at <= (next - 1) + 1 /\ next - 1 <= Len(c)
        /\ s.at - 1 \in Nat /\ (s.at - 1) + 1 = s.at /\ s.at - 1 <= next - 1
        /\ first <= (s.at - 1) + 1 /\ first <= next
    <3> DEFINE a == s.at
               l == Len(c)
    <3>1. /\ a \in Nat /\ a >= 1 /\ next \in Nat /\ next >= a + 2 /\ next <= end /\ first <= a
          /\ l \in Nat /\ end <= l + 1
      BY <1>1, <1>2, <2>0
    <3> HIDE DEF a, l
    <3>2. /\ next - 1 \in Nat /\ a <= (next - 1) + 1 /\ next - 1 <= l
          /\ a - 1 \in Nat /\ (a - 1) + 1 = a /\ a - 1 <= next - 1 /\ first <= (a - 1) + 1
          /\ first <= next
      BY <3>1
    <3> QED
      BY <3>2 DEF a, l
  <2>2. d \in Seq(Int)
    BY <1>1, <2>1, PartOf
  <2>3. SubSeq(c, first, s.at - 1) \o SubSeq(c, (s.at - 1) + 1, next - 1) = SubSeq(c, first, next - 1)
    <3> DEFINE b == s.at - 1
               e == next - 1
    <3>1. Meet(c, first, b, b + 1, e)
      BY <1>1, <2>1 DEF Meet
    <3> HIDE DEF b, e
    <3>2. Joint(c, first, b, b + 1, e)
      BY <3>1, PartsMeet
    <3>3. SubSeq(c, first, b) \o SubSeq(c, b + 1, e) = SubSeq(c, first, e)
      BY <3>2 DEF Joint
    <3> QED
      BY <3>3 DEF b, e
  <2>4. SubSeq(c, first, s.at - 1) \o d = SubSeq(c, first, next - 1)
    BY <2>1, <2>3
  <2> HIDE DEF d
  <2>5. /\ Append(s.docs, d) \in Seq(Seq(Int))
        /\ Joined(Append(s.docs, d)) = Joined(s.docs) \o d
    BY <1>1, <2>2, AppendProperties, JoinedAppend
  <2>6. t.at = next /\ t.docs = Append(s.docs, d)
    BY <1>6 DEF DocumentsRead
  <2>7. t \in [ok : BOOLEAN, at : Nat, docs : Seq(Seq(Int))]
    BY <1>2, <1>6, <2>5 DEF DocumentsRead
  <2>8. Joined(t.docs) = SubSeq(c, first, t.at - 1)
    BY <1>1, <2>4, <2>5, <2>6
  <2>9. first <= t.at /\ t.at <= end
    BY <2>0, <2>1, <2>6
  <2> QED
    BY <2>7, <2>8, <2>9 DEF DocumentsRead
<1> QED
  BY <1>3, <1>4, <1>5, <1>6

LEMMA DocumentsAreRead ==
  ASSUME NEW c \in Seq(Int), NEW first \in Nat, first >= 1, NEW end \in Nat, first <= end,
         end <= Len(c) + 1, NEW sectionEnd \in Int
  PROVE  DocumentsRead(c, first, end, Documents(c, first, sectionEnd, end))
<1> DEFINE n == Len(c)
<1>1. n \in Nat
  BY LenProperties
<1>2. PICK f : /\ DocumentRounds(f, c, first, sectionEnd, end, n)
               /\ Documents(c, first, sectionEnd, end) = f[n]
  BY <1>1, DocumentsOf, Zenon
<1> DEFINE T == {i \in Nat : i <= n => DocumentsRead(c, first, end, f[i])}
<1>3. 0 \in T
  <2>1. f[0] = NoDocument(first)
    BY <1>2 DEF DocumentRounds
  <2> DEFINE s == NoDocument(first)
  <2>2. s \in [ok : BOOLEAN, at : Nat, docs : Seq(Seq(Int))] /\ s.at = first /\ s.docs = <<>>
    BY DEF NoDocument
  <2>3. SubSeq(c, first, first - 1) = <<>>
    BY SubSeqEmpty
  <2> HIDE DEF s
  <2>4. DocumentsRead(c, first, end, s)
    BY <2>2, <2>3, JoinedEmpty DEF DocumentsRead
  <2> QED
    BY <2>1, <2>4 DEF s
<1>4. ASSUME NEW i \in Nat, i \in T PROVE i + 1 \in T
  <2> SUFFICES ASSUME i + 1 <= n PROVE DocumentsRead(c, first, end, f[i + 1])
    OBVIOUS
  <2>1. i + 1 \in 1..n /\ (i + 1) - 1 = i /\ DocumentsRead(c, first, end, f[i])
    BY <1>1, <1>4
  <2>2. f[i + 1] = ReadDocument(c, sectionEnd, end, f[i])
    BY <1>2, <2>1 DEF DocumentRounds
  <2> QED
    BY <2>1, <2>2, ReadDocumentKeeps
<1>5. Nat \subseteq T
  <2> HIDE DEF T
  <2> QED
    BY <1>3, <1>4, Induction
<1> QED
  BY <1>1, <1>2, <1>5

(* What the loop over sections has read so far.                            *)
States == [ok : BOOLEAN, at : Nat, haveBody : BOOLEAN, sections : Seq(Coded)]
SectionsRead(c, end, s) ==
  /\ s \in States /\ 1 <= s.at /\ s.at <= end
  /\ Encode(s.sections) = SubSeq(c, 1, s.at - 1)

(* Reading one more section.                                               *)
LEMMA ReadKeeps ==
  ASSUME NEW c \in Seq(Int), NEW end \in Nat, end <= Len(c) + 1, NEW s, SectionsRead(c, end, s),
         NEW x \in Coded, NEW next \in Nat, s.at < next, next <= end,
         EncodeSection(x) = SubSeq(c, s.at, next - 1)
  PROVE  SectionsRead(c, end, Read(s, next, x.kind, x.id, x.docs))
<1> DEFINE a == s.at
           t == Read(s, next, x.kind, x.id, x.docs)
<1>1. a \in Nat /\ a >= 1 /\ s.sections \in Seq(Coded) /\ Encode(s.sections) = SubSeq(c, 1, a - 1)
  BY DEF SectionsRead, States
<1>2. x = [kind |-> x.kind, id |-> x.id, docs |-> x.docs]
  BY DEF Coded, SectionForms
<1>3. /\ t.at = next /\ t.sections = Append(s.sections, x)
      /\ t = [ok |-> TRUE, at |-> next, haveBody |-> s.haveBody \/ x.kind = 0,
              sections |-> Append(s.sections, x)]
  BY <1>2 DEF Read
<1> HIDE DEF t
<1>4. Append(s.sections, x) \in Seq(Coded)
  BY <1>1, AppendProperties
<1>5. t \in States
  <2>1. (s.haveBody \/ x.kind = 0) \in BOOLEAN
    OBVIOUS
  <2> QED
    BY <1>3, <1>4, <2>1 DEF States
<1>6. Encode(t.sections) = SubSeq(c, 1, a - 1) \o SubSeq(c, a, next - 1)
  BY <1>1, <1>3, EncodeAppend
<1>7. SubSeq(c, 1, a - 1) \o SubSeq(c, (a - 1) + 1, next - 1) = SubSeq(c, 1, next - 1)
  <2> HIDE DEF a
  <2>1. a < next
    BY DEF a
  <2>2. /\ a - 1 \in Nat /\ next - 1 \in Nat /\ 1 <= (a - 1) + 1 /\ a - 1 <= next - 1
        /\ next - 1 <= Len(c) /\ 1 \in Nat /\ 1 >= 1
    BY <1>1, <2>1, LenProperties
  <2> DEFINE b == a - 1
             e == next - 1
  <2> HIDE DEF b, e
  <2>3. SubSeq(c, 1, b) \o SubSeq(c, b + 1, e) = SubSeq(c, 1, e)
    <3>1. Meet(c, 1, b, b + 1, e)
      BY <2>2 DEF Meet, b, e
    <3>2. Joint(c, 1, b, b + 1, e)
      BY <3>1, PartsMeet
    <3> QED
      BY <3>2 DEF Joint
  <2> QED
    BY <2>3 DEF b, e
<1>8. (a - 1) + 1 = a
  BY <1>1
<1>9. Encode(t.sections) = SubSeq(c, 1, t.at - 1)
  BY <1>3, <1>6, <1>7, <1>8
<1>10. 1 <= t.at /\ t.at <= end
  BY <1>1, <1>3
<1> QED
  BY <1>5, <1>9, <1>10 DEF SectionsRead, t

LEMMA FailedKeeps ==
  ASSUME NEW c, NEW end, NEW s, SectionsRead(c, end, s)
  PROVE  SectionsRead(c, end, Failed(s)) /\ ~Failed(s).ok
BY DEF SectionsRead, States, Failed

LEMMA ReadBodyKeeps ==
  ASSUME NEW c \in Seq(Int), NEW end \in Nat, end <= Len(c) + 1, NEW s, SectionsRead(c, end, s),
         s.at < end, c[s.at] = 0
  PROVE  LET t == ReadBody(c, end, s)
         IN SectionsRead(c, end, t) /\ (t.ok => t.at > s.at)
<1> DEFINE a == s.at
           next == AfterDocument(c, a + 1, end)
           d == SubSeq(c, a + 1, next - 1)
           t == ReadBody(c, end, s)
<1>1. a \in Nat /\ a >= 1 /\ a < end /\ c[a] = 0 /\ Len(c) \in Nat
  BY LenProperties DEF SectionsRead, States
<1>2. next \in Nat /\ (next # 0 => (a + 1) + 2 <= next /\ next <= end)
  <2> DEFINE b == a + 1
  <2>1. b \in Nat /\ b >= 1
    BY <1>1
  <2> HIDE DEF b
  <2>2. DocumentEnds(b, end, AfterDocument(c, b, end))
    BY <2>1, AfterDocumentBounds
  <2>3. DocumentEnds(b, end, next)
    BY <2>2 DEF b
  <2> HIDE DEF next
  <2> QED
    BY <2>3 DEF DocumentEnds, b
<1>3. t = Failed(s) \/ (next # 0 /\ t = Read(s, next, 0, <<>>, <<d>>))
  BY DEF ReadBody
<1> SUFFICES SectionsRead(c, end, t) /\ (t.ok => t.at > s.at)
  OBVIOUS
<1> HIDE DEF t, next, a
<1>4. CASE t = Failed(s)
  BY <1>4, FailedKeeps
<1>5. CASE next # 0 /\ t = Read(s, next, 0, <<>>, <<d>>)
  <2>1. /\ next > a /\ next <= end /\ a + 1 \in Nat /\ a + 1 >= 1 /\ next - 1 \in Nat
        /\ a + 1 <= (next - 1) + 1 /\ next - 1 <= Len(c)
        /\ a \in 1..Len(c) /\ a <= a + 1 /\ a <= next - 1
    BY <1>1, <1>2, <1>5
  <2>2. d \in Seq(Int)
    BY <2>1, PartOf
  <2>3. <<0>> = SubSeq(c, a, a)
    BY <1>1, <2>1, PartOfOne
  <2>4. SubSeq(c, a, a) \o d = SubSeq(c, a, next - 1)
    BY <1>1, <2>1, PartsJoin
  <2> HIDE DEF d
  <2> DEFINE x == [kind |-> 0, id |-> <<>>, docs |-> <<d>>]
  <2>5. x \in Coded /\ x.kind = 0 /\ x.id = <<>> /\ x.docs = <<d>>
    <3>1. <<d>> \in Seq(Seq(Int)) /\ Len(<<d>>) = 1 /\ <<>> \in Seq(Int)
      BY <2>2
    <3>2. x \in SectionForms /\ x.kind = 0 /\ x.id = <<>> /\ x.docs = <<d>>
      BY <3>1 DEF SectionForms
    <3>3. Len(x.docs) >= 1
      BY <3>1, <3>2
    <3> HIDE DEF x
    <3> QED
      BY <3>2, <3>3 DEF Coded
  <2>6. EncodeSection(x) = SubSeq(c, a, next - 1)
    BY <2>3, <2>4, <2>5 DEF EncodeSection
  <2> HIDE DEF x
  <2>7. SectionsRead(c, end, Read(s, next, x.kind, x.id, x.docs))
    BY <1>2, <2>1, <2>5, <2>6, ReadKeeps DEF a
  <2>8. t.at = next
    BY <1>5 DEF Read, SectionsRead, States
  <2> QED
    BY <1>1, <1>2, <1>5, <2>1, <2>5, <2>7, <2>8 DEF a
<1> QED
  BY <1>3, <1>4, <1>5

LEMMA ReadSequenceKeeps ==
  ASSUME NEW c \in Seq(Int), NEW end \in Nat, end <= Len(c) + 1, NEW s, SectionsRead(c, end, s),
         s.at < end, c[s.at] = 1
  PROVE  LET t == ReadSequence(c, end, s)
         IN SectionsRead(c, end, t) /\ (t.ok => t.at > s.at)
<1> DEFINE a == s.at
           b == a + 1
           d == a + 2
           size == c[b]
           sectionEnd == b + size
           first == AfterString(c, d, end)
           body == Documents(c, first, sectionEnd, end)
           id == SubSeq(c, d, first - 2)
           t == ReadSequence(c, end, s)
           Fine == /\ ~(b >= end) /\ ~(size < MinSequence) /\ first # 0 /\ body.ok
                   /\ body.at = sectionEnd /\ t = Read(s, body.at, 1, id, body.docs)
<1>1. /\ a \in Nat /\ a >= 1 /\ a < end /\ c[a] = 1 /\ Len(c) \in Nat
      /\ b \in Nat /\ d \in Nat /\ b = a + 1 /\ d = b + 1
  <2>1. a \in Nat /\ a >= 1 /\ a < end /\ c[a] = 1
    BY DEF SectionsRead, States
  <2>2. Len(c) \in Nat
    BY LenProperties
  <2> HIDE DEF a
  <2> QED
    BY <2>1, <2>2
<1>2. t = Failed(s) \/ Fine
  BY DEF ReadSequence, EndsThere
<1> SUFFICES SectionsRead(c, end, t) /\ (t.ok => t.at > a)
  OBVIOUS
<1> HIDE DEF t, d, b, body, size, sectionEnd, id
<1>3. /\ first \in Nat
      /\ first # 0 => d + 1 <= first /\ first <= end /\ c[first - 1] = 0
  <2>1. StringEnds(c, d, end, first)
    BY <1>1, AfterStringBounds
  <2> HIDE DEF first
  <2> QED
    BY <2>1 DEF StringEnds
<1> HIDE DEF first, a
<1>4. CASE t = Failed(s)
  BY <1>4, FailedKeeps
<1>5. CASE Fine
  <2> DEFINE g == first - 1
             h == first - 2
             e == body.at - 1
             docs == body.docs
  <2>1. /\ first \in Nat /\ first >= 1 /\ first <= end /\ d + 1 <= first /\ c[g] = 0
        /\ g \in Nat /\ h \in Nat /\ g = h + 1 /\ first = g + 1
    BY <1>1, <1>3, <1>5
  <2>2. a \in 1..Len(c) /\ b \in 1..Len(c) /\ g \in 1..Len(c)
    BY <1>1, <1>5, <2>1
  <2>3. size \in Int /\ sectionEnd \in Int
    <3>1. c[b] \in Int
      BY <2>2, LenProperties
    <3> QED
      BY <1>1, <3>1 DEF size, sectionEnd
  <2>4. DocumentsRead(c, first, end, body)
    BY <2>1, <2>3, DocumentsAreRead DEF body
  <2>5. /\ body.at \in Nat /\ docs \in Seq(Seq(Int)) /\ first <= body.at /\ body.at <= end
        /\ Joined(docs) = SubSeq(c, first, e)
    BY <2>4 DEF DocumentsRead
  <2>6. e \in Nat /\ e <= Len(c) /\ g <= e /\ e + 1 = body.at /\ body.at > a
    <3> DEFINE z == body.at
               l == Len(c)
    <3>1. /\ z \in Nat /\ first <= z /\ z <= end /\ l \in Nat /\ end <= l + 1
          /\ first \in Nat /\ first >= 1 /\ d + 1 <= first /\ a < d /\ a \in Nat /\ d \in Nat
      BY <1>1, <2>1, <2>5
    <3> HIDE DEF z, l
    <3>2. z - 1 \in Nat /\ z - 1 <= l /\ first - 1 <= z - 1 /\ (z - 1) + 1 = z /\ z > a
      BY <3>1
    <3> QED
      BY <3>2 DEF z, l
  <2> HIDE DEF e, docs, g, h
  <2>7. /\ <<c[a]>> = SubSeq(c, a, a) /\ <<c[b]>> = SubSeq(c, b, b)
        /\ <<c[g]>> = SubSeq(c, g, g)
    BY <2>2, PartOfOne
  <2>8. id = SubSeq(c, d, h) /\ id \in Seq(Int)
    <3>1. d >= 1 /\ d <= h + 1 /\ h <= Len(c)
      BY <1>1, <2>1, <2>2
    <3>2. SubSeq(c, d, h) \in Seq(Int)
      BY <1>1, <2>1, <3>1, PartOf
    <3> QED
      BY <3>2 DEF id, h
  <2>9. SubSeq(c, d, h) \o SubSeq(c, g, g) = SubSeq(c, d, g)
    <3>1. d >= 1 /\ d <= g /\ h <= g /\ g <= Len(c)
      BY <1>1, <2>1, <2>2
    <3>2. Meet(c, d, h, g, g)
      BY <1>1, <2>1, <3>1 DEF Meet
    <3>3. Joint(c, d, h, g, g)
      BY <3>2, PartsMeet
    <3> QED
      BY <3>3 DEF Joint
  <2>10. SubSeq(c, d, g) \o SubSeq(c, first, e) = SubSeq(c, d, e)
    <3>1. d >= 1 /\ d <= first
      BY <1>1, <2>1
    <3>2. Meet(c, d, g, first, e)
      BY <1>1, <2>1, <2>6, <3>1 DEF Meet
    <3>3. Joint(c, d, g, first, e)
      BY <3>2, PartsMeet
    <3> QED
      BY <3>3 DEF Joint
  <2> DEFINE content == id \o <<0>> \o Joined(docs)
  <2>11. content = SubSeq(c, d, e)
    <3>1. id \o <<0>> = SubSeq(c, d, g)
      BY <2>1, <2>7, <2>8, <2>9
    <3> QED
      BY <2>5, <2>10, <3>1
  <2> HIDE DEF content
  <2>12. Len(content) + 1 = size
    <3>1. d >= 1 /\ d <= e + 1
      BY <1>1, <2>1, <2>6
    <3>2. Len(SubSeq(c, d, e)) = e - d + 1
      BY <1>1, <2>6, <3>1, PartOf
    <3>3. e + 1 = b + size
      BY <1>5, <2>6 DEF sectionEnd
    <3> QED
      BY <1>1, <2>3, <2>6, <2>11, <3>2, <3>3
  <2>13. <<1, size>> = SubSeq(c, a, b)
    <3>1. SubSeq(c, a, a) \o SubSeq(c, b, b) = SubSeq(c, a, b)
      <4>1. a <= b /\ b <= Len(c)
        BY <1>1, <2>2
      <4>2. Meet(c, a, a, b, b)
        BY <1>1, <4>1 DEF Meet
      <4>3. Joint(c, a, a, b, b)
        BY <4>2, PartsMeet
      <4> QED
        BY <4>3 DEF Joint
    <3>2. <<1>> \o <<size>> = SubSeq(c, a, b)
      BY <1>1, <2>7, <3>1 DEF size
    <3>3. <<1>> \o <<size>> = <<1, size>>
      BY <2>3, TwoCells
    <3> QED
      BY <3>2, <3>3
  <2>14. SubSeq(c, a, b) \o SubSeq(c, d, e) = SubSeq(c, a, e)
    <3>1. a <= d /\ b <= e
      BY <1>1, <2>1, <2>6
    <3>2. Meet(c, a, b, d, e)
      BY <1>1, <2>6, <3>1 DEF Meet
    <3>3. Joint(c, a, b, d, e)
      BY <3>2, PartsMeet
    <3> QED
      BY <3>3 DEF Joint
  <2> DEFINE x == [kind |-> 1, id |-> id, docs |-> docs]
  <2>15. x \in Coded /\ x.kind = 1 /\ x.id = id /\ x.docs = docs
    <3>1. x \in SectionForms /\ x.kind = 1 /\ x.id = id /\ x.docs = docs
      BY <2>5, <2>8 DEF SectionForms
    <3> HIDE DEF x
    <3> QED
      BY <3>1 DEF Coded
  <2> HIDE DEF x
  <2>16. EncodeSection(x) = <<1, Len(content) + 1>> \o content
    BY <2>15 DEF EncodeSection, content
  <2>17. EncodeSection(x) = SubSeq(c, a, e)
    BY <2>11, <2>12, <2>13, <2>14, <2>16
  <2>18. SectionsRead(c, end, Read(s, body.at, x.kind, x.id, x.docs))
    BY <2>5, <2>6, <2>15, <2>17, ReadKeeps DEF a, e
  <2>19. t = Read(s, body.at, x.kind, x.id, x.docs)
    BY <1>5, <2>15 DEF docs
  <2>20. t.at = body.at
    BY <2>19 DEF Read
  <2> QED
    BY <2>6, <2>18, <2>19, <2>20
<1> QED
  BY <1>2, <1>4, <1>5

LEMMA ReadSectionKeeps ==
  ASSUME NEW c \in Seq(Int), NEW end \in Nat, end <= Len(c) + 1, NEW s, SectionsRead(c, end, s)
  PROVE  LET t == ReadSection(c, end, s)
         IN SectionsRead(c, end, t) /\ (t.ok => t.at > s.at \/ (t = s /\ s.at >= end))
<1> DEFINE t == ReadSection(c, end, s)
<1>1. s.at \in Nat
  BY DEF SectionsRead, States
<1> SUFFICES SectionsRead(c, end, t) /\ (t.ok => t.at > s.at \/ (t = s /\ s.at >= end))
  OBVIOUS
<1>2. CASE ~s.ok \/ s.at >= end
  BY <1>2 DEF ReadSection
<1>3. CASE ~(~s.ok \/ s.at >= end)
  <2>0. s.at < end
    BY <1>1, <1>3
  <2>1. CASE c[s.at] = 0
    <3>1. t = ReadBody(c, end, s)
      BY <1>3, <2>1 DEF ReadSection
    <3> QED
      BY <2>0, <2>1, <3>1, ReadBodyKeeps
  <2>2. CASE c[s.at] = 1
    <3>1. t = ReadSequence(c, end, s)
      BY <1>3, <2>2 DEF ReadSection
    <3> QED
      BY <2>0, <2>2, <3>1, ReadSequenceKeeps
  <2>3. CASE c[s.at] # 0 /\ c[s.at] # 1
    <3>1. t = Failed(s)
      BY <1>3, <2>3 DEF ReadSection
    <3> QED
      BY <3>1, FailedKeeps
  <2> QED
    BY <2>1, <2>2, <2>3
<1> QED
  BY <1>2, <1>3

(* The loop ends with the cells: each round that goes on takes some.       *)
Advanced(end, s, i) == s.ok => s.at >= end \/ s.at >= 1 + i

LEMMA AdvancedOnce ==
  ASSUME NEW end \in Nat, NEW i \in Nat, NEW s, NEW t, s.at \in Nat, t.at \in Nat,
         Advanced(end, s, i), s.ok, t.ok => t.at > s.at \/ (t = s /\ s.at >= end)
  PROVE  Advanced(end, t, i + 1)
<1> DEFINE a == s.at
           z == t.at
<1>1. a \in Nat /\ z \in Nat /\ (a >= end \/ a >= 1 + i)
  BY DEF Advanced
<1> SUFFICES ASSUME t.ok PROVE z >= end \/ z >= 1 + (i + 1)
  BY DEF Advanced
<1>2. z > a \/ (z = a /\ a >= end)
  OBVIOUS
<1> HIDE DEF a, z
<1> QED
  BY <1>1, <1>2

LEMMA SectionsAreRead ==
  ASSUME NEW c \in Seq(Int), NEW end \in Nat, end >= 1, end <= Len(c) + 1
  PROVE  LET s == Sections(c, end)
         IN SectionsRead(c, end, s) /\ (s.ok => s.at = end)
<1> DEFINE n == Len(c)
<1>1. n \in Nat
  BY LenProperties
<1>2. PICK f : SectionRounds(f, c, end, n) /\ Sections(c, end) = f[n]
  BY <1>1, SectionsOf, Zenon
<1> DEFINE T == {i \in Nat : i <= n => SectionsRead(c, end, f[i]) /\ Advanced(end, f[i], i)}
<1>3. 0 \in T
  <2>1. f[0] = NothingRead
    BY <1>2 DEF SectionRounds
  <2> DEFINE s == NothingRead
  <2>2. s \in States /\ s.at = 1 /\ s.sections = <<>>
    BY DEF NothingRead, States
  <2>3. SubSeq(c, 1, 0) = <<>>
    BY SubSeqEmpty
  <2>4. Encode(<<>>) = <<>>
    <3>1. [i \in DOMAIN <<>> |-> EncodeSection(<<>>[i])] = <<>>
      OBVIOUS
    <3> QED
      BY <3>1, JoinedEmpty DEF Encode
  <2> HIDE DEF s
  <2>5. SectionsRead(c, end, s)
    <3>1. 1 <= s.at /\ s.at <= end /\ s.at - 1 = 0
      BY <2>2
    <3>2. Encode(s.sections) = SubSeq(c, 1, s.at - 1)
      BY <2>2, <2>3, <2>4, <3>1
    <3> QED
      BY <2>2, <3>1, <3>2 DEF SectionsRead
  <2>6. Advanced(end, s, 0)
    BY <2>2 DEF Advanced
  <2> QED
    BY <2>1, <2>5, <2>6 DEF s
<1>4. ASSUME NEW i \in Nat, i \in T PROVE i + 1 \in T
  <2> SUFFICES ASSUME i + 1 <= n PROVE SectionsRead(c, end, f[i + 1]) /\ Advanced(end, f[i + 1], i + 1)
    OBVIOUS
  <2>1. i + 1 \in 1..n /\ (i + 1) - 1 = i /\ SectionsRead(c, end, f[i]) /\ Advanced(end, f[i], i)
    BY <1>1, <1>4
  <2>2. f[i + 1] = ReadSection(c, end, f[i])
    BY <1>2, <2>1 DEF SectionRounds
  <2> DEFINE s == f[i]
             t == f[i + 1]
  <2> HIDE DEF s, t
  <2>3. SectionsRead(c, end, t) /\ (t.ok => t.at > s.at \/ (t = s /\ s.at >= end))
    BY <2>1, <2>2, ReadSectionKeeps DEF s, t
  <2>4. s.at \in Nat /\ t.at \in Nat
    BY <2>1, <2>3 DEF SectionsRead, States, s
  <2>5. CASE s.ok
    <3>1. Advanced(end, t, i + 1)
      BY <2>1, <2>3, <2>4, <2>5, AdvancedOnce DEF s
    <3> QED
      BY <2>3, <3>1 DEF t
  <2>6. CASE ~s.ok
    <3>1. t = s
      BY <2>2, <2>6 DEF ReadSection, s, t
    <3> QED
      BY <2>3, <2>6, <3>1 DEF Advanced, t
  <2> QED
    BY <2>5, <2>6
<1>5. Nat \subseteq T
  <2> HIDE DEF T
  <2> QED
    BY <1>3, <1>4, Induction
<1>6. SectionsRead(c, end, f[n]) /\ Advanced(end, f[n], n)
  BY <1>1, <1>5
<1> DEFINE s == f[n]
<1> HIDE DEF s, T
<1>7. SectionsRead(c, end, s) /\ (s.ok => s.at = end)
  <2> DEFINE a == s.at
  <2>1. a \in Nat /\ a <= end
    BY <1>6 DEF SectionsRead, States, s
  <2>2. s.ok => a >= end \/ a >= 1 + n
    BY <1>6 DEF Advanced, s
  <2> HIDE DEF a
  <2>3. s.ok => a = end
    BY <1>1, <2>1, <2>2
  <2> QED
    BY <1>6, <2>3 DEF s, a
<1> QED
  BY <1>2, <1>7 DEF s

(* Of any cells, only encodings are accepted.                              *)
LEMMA OnlyEncodings ==
  ASSUME NEW m, m.cells \in Seq(Int), m.flags \in Nat, Parse(m).ok
  PROVE  Encode(Parse(m).sections) = Trimmed(m)
<1> DEFINE c == m.cells
           end == Len(c) + 1 - (IF HasChecksum(m.flags) THEN 1 ELSE 0)
           s == Sections(c, end)
           p == Parse(m)
<1>1. ~(~Understood(m.flags) \/ end < 1 \/ ~s.ok \/ ~s.haveBody) /\ p.sections = s.sections
  BY DEF Parse, Malformed
<1>2. Len(c) \in Nat
  BY LenProperties
<1>3. end \in Nat /\ end >= 1 /\ end <= Len(c) + 1
  <2> DEFINE l == Len(c)
  <2>1. end = l \/ end = l + 1
    <3> HIDE DEF l
    <3>1. l \in Nat
      BY <1>2 DEF l
    <3>2. end = l + 1 - (IF HasChecksum(m.flags) THEN 1 ELSE 0)
      BY DEF l
    <3> HIDE DEF end
    <3> QED
      BY <3>1, <3>2
  <2>2. l \in Nat /\ ~(end < 1)
    BY <1>1, <1>2
  <2> HIDE DEF end, l
  <2>3. end \in Nat /\ end >= 1 /\ end <= l + 1
    BY <2>1, <2>2
  <2> QED
    BY <2>3 DEF l
<1>4. SectionsRead(c, end, s) /\ s.at = end
  BY <1>1, <1>3, SectionsAreRead
<1>5. Encode(p.sections) = SubSeq(c, 1, end - 1)
  BY <1>1, <1>4 DEF SectionsRead
<1> HIDE DEF p, s
<1>6. CASE HasChecksum(m.flags)
  <2>1. end - 1 = Len(c) - 1
    BY <1>2, <1>6
  <2> QED
    BY <1>5, <1>6, <2>1 DEF Trimmed, p
<1>7. CASE ~HasChecksum(m.flags)
  <2>1. end - 1 = Len(c)
    BY <1>2, <1>7
  <2>2. SubSeq(c, 1, Len(c)) = c
    BY SubSeqFull
  <2> QED
    BY <1>5, <1>7, <2>1, <2>2 DEF Trimmed, p
<1> QED
  BY <1>6, <1>7

----------------------------------------------------------------------------
(* What a driver sends is read                                             *)

(* `part` stands in the cells at `p`, before `end`.                        *)
Stands(c, end, p, part) ==
  p + Len(part) <= end /\ \A k \in 1..Len(part) : c[p + k - 1] = part[k]

LEMMA StandsApart ==
  ASSUME NEW c, NEW end \in Nat, NEW p \in Nat, NEW a \in Seq(Int), NEW b \in Seq(Int),
         Stands(c, end, p, a \o b)
  PROVE  /\ Stands(c, end, p, a) /\ p + Len(a) \in Nat /\ Stands(c, end, p + Len(a), b)
         /\ Len(a \o b) = Len(a) + Len(b)
<1> DEFINE l == Len(a)
           m == Len(b)
           q == p + l
           ab == a \o b
<1>1. l \in Nat /\ m \in Nat /\ q \in Nat
  BY LenProperties
<1>2. Len(ab) = l + m /\ \A k \in 1..(l + m) : ab[k] = IF k <= l THEN a[k] ELSE b[k - l]
  BY ConcatProperties
<1>3. p + (l + m) <= end /\ \A k \in 1..(l + m) : c[p + k - 1] = ab[k]
  BY <1>2 DEF Stands
<1> HIDE DEF l, m, ab
<1>4. p + l <= end /\ q + m <= end
  BY <1>1, <1>3
<1>5. ASSUME NEW k \in 1..l PROVE c[p + k - 1] = a[k]
  <2>1. k \in 1..(l + m) /\ k <= l
    BY <1>1
  <2> QED
    BY <1>2, <1>3, <2>1
<1>6. ASSUME NEW k \in 1..m PROVE c[q + k - 1] = b[k]
  <2>1. l + k \in 1..(l + m) /\ ~(l + k <= l) /\ (l + k) - l = k /\ p + (l + k) - 1 = q + k - 1
    BY <1>1
  <2>2. ab[l + k] = b[(l + k) - l]
    BY <1>2, <2>1
  <2>3. c[p + (l + k) - 1] = ab[l + k]
    BY <1>3, <2>1
  <2> HIDE DEF q
  <2> QED
    BY <2>1, <2>2, <2>3
<1>7. Stands(c, end, p, a)
  BY <1>4, <1>5 DEF Stands, l
<1> HIDE DEF q
<1>8. Stands(c, end, q, b)
  BY <1>4, <1>6 DEF Stands, m
<1> QED
  BY <1>1, <1>2, <1>7, <1>8 DEF q, l, m, ab

Splits(c, end, p, ab, a, b, q) ==
  /\ end \in Nat /\ p \in Nat /\ a \in Seq(Int) /\ b \in Seq(Int) /\ ab = a \o b
  /\ Stands(c, end, p, ab) /\ q = p + Len(a)

LEMMA StandsSplit ==
  ASSUME NEW c, NEW end, NEW p, NEW ab, NEW a, NEW b, NEW q, Splits(c, end, p, ab, a, b, q)
  PROVE  /\ Stands(c, end, p, a) /\ q \in Nat /\ Stands(c, end, q, b)
         /\ Len(ab) = Len(a) + Len(b)
<1>1. /\ end \in Nat /\ p \in Nat /\ a \in Seq(Int) /\ b \in Seq(Int)
      /\ Stands(c, end, p, a \o b)
  BY DEF Splits
<1>2. /\ Stands(c, end, p, a) /\ p + Len(a) \in Nat /\ Stands(c, end, p + Len(a), b)
      /\ Len(a \o b) = Len(a) + Len(b)
  BY <1>1, StandsApart
<1> QED
  BY <1>2 DEF Splits

(* What stands there is what is cut out.                                   *)
StandsUntil(c, end, p, a, e) ==
  /\ c \in Seq(Int) /\ end \in Nat /\ end <= Len(c) + 1 /\ p \in Nat /\ p >= 1
  /\ a \in Seq(Int) /\ Stands(c, end, p, a) /\ e \in Int /\ e = p + Len(a) - 1

LEMMA StandsPart ==
  ASSUME NEW c, NEW end, NEW p, NEW a, NEW e, StandsUntil(c, end, p, a, e)
  PROVE  SubSeq(c, p, e) = a
<1> USE DEF StandsUntil
<1> DEFINE l == Len(a)
           n == Len(c)
           part == SubSeq(c, p, e)
<1>1. l \in Nat /\ n \in Nat
  BY LenProperties
<1>2. p + l <= end /\ \A k \in 1..l : c[p + k - 1] = a[k]
  BY DEF Stands
<1>3. e \in Nat /\ p <= e + 1 /\ e <= n /\ e - p + 1 = l
  <2>1. e = p + l - 1 /\ end <= n + 1
    OBVIOUS
  <2> HIDE DEF l, n
  <2> QED
    BY <1>1, <1>2, <2>1
<1>4. part \in Seq(Int) /\ Len(part) = e - p + 1 /\ \A k \in 1..(e - p + 1) : part[k] = c[p + k - 1]
  BY <1>3, PartOf
<1> HIDE DEF part
<1>5. Len(part) = Len(a) /\ \A k \in 1..Len(part) : part[k] = a[k]
  BY <1>2, <1>3, <1>4
<1> QED
  BY <1>4, <1>5, SeqEqual DEF part

(* Each of the parts joined stands where those before it end.              *)
Sizes(f, parts, n) ==
  \A i \in 0..n : /\ f[i] \in Seq(Int)
                  /\ i > 0 => parts[i] \in Seq(Int) /\ Len(parts[i]) > 0
PartsStand(c, end, p, f, parts, n) ==
  \A i \in 1..n : /\ p + Len(f[i - 1]) \in Nat
                  /\ Stands(c, end, p + Len(f[i - 1]), parts[i])
                  /\ Len(f[i]) = Len(f[i - 1]) + Len(parts[i])

LEMMA PartsOfJoined ==
  ASSUME NEW c, NEW end \in Nat, NEW p \in Nat, NEW n \in Nat, NEW f, NEW parts,
         StepsOf(f, parts, n), Sizes(f, parts, n), Stands(c, end, p, f[n])
  PROVE  PartsStand(c, end, p, f, parts, n)
<1> DEFINE T == {k \in Nat : k <= n => Stands(c, end, p, f[n - k])}
<1>1. ASSUME NEW i \in 1..n, Stands(c, end, p, f[i])
      PROVE  /\ Stands(c, end, p, f[i - 1]) /\ p + Len(f[i - 1]) \in Nat
             /\ Stands(c, end, p + Len(f[i - 1]), parts[i])
             /\ Len(f[i]) = Len(f[i - 1]) + Len(parts[i])
  <2>1. f[i] = f[i - 1] \o parts[i]
    BY DEF StepsOf
  <2>2. i - 1 \in 0..n /\ i \in 0..n /\ i > 0
    OBVIOUS
  <2>3. f[i - 1] \in Seq(Int) /\ parts[i] \in Seq(Int)
    BY <2>2 DEF Sizes
  <2> DEFINE a == f[i - 1]
             b == parts[i]
  <2> HIDE DEF a, b
  <2>4. a \in Seq(Int) /\ b \in Seq(Int) /\ Stands(c, end, p, a \o b) /\ f[i] = a \o b
    BY <1>1, <2>1, <2>3 DEF a, b
  <2>5. /\ Stands(c, end, p, a) /\ p + Len(a) \in Nat /\ Stands(c, end, p + Len(a), b)
        /\ Len(a \o b) = Len(a) + Len(b)
    BY <2>4, StandsApart
  <2> QED
    BY <2>4, <2>5 DEF a, b
<1>2. 0 \in T
  OBVIOUS
<1>3. ASSUME NEW k \in Nat, k \in T PROVE k + 1 \in T
  <2> SUFFICES ASSUME k + 1 <= n PROVE Stands(c, end, p, f[n - (k + 1)])
    OBVIOUS
  <2>1. n - k \in 1..n /\ (n - k) - 1 = n - (k + 1) /\ Stands(c, end, p, f[n - k])
    BY <1>3
  <2>2. Stands(c, end, p, f[(n - k) - 1])
    BY <1>1, <2>1
  <2> QED
    BY <2>1, <2>2
<1>4. Nat \subseteq T
  <2> HIDE DEF T
  <2> QED
    BY <1>2, <1>3, Induction
<1>5. ASSUME NEW i \in 1..n PROVE Stands(c, end, p, f[i])
  <2>1. n - i \in Nat /\ n - i <= n /\ n - (n - i) = i
    OBVIOUS
  <2>2. Stands(c, end, p, f[n - (n - i)])
    BY <1>4, <2>1
  <2> QED
    BY <2>1, <2>2
<1> QED
  BY <1>1, <1>5 DEF PartsStand

(* No part is empty, so there are no more parts than cells.                *)
LEMMA PartsCount ==
  ASSUME NEW c, NEW end, NEW p, NEW n \in Nat, NEW f, NEW parts,
         StepsOf(f, parts, n), Sizes(f, parts, n), PartsStand(c, end, p, f, parts, n)
  PROVE  n <= Len(f[n])
<1> DEFINE T == {i \in Nat : i <= n => i <= Len(f[i])}
<1>1. 0 \in T
  <2>1. Len(<<>>) = 0
    OBVIOUS
  <2> QED
    BY <2>1 DEF StepsOf
<1>2. ASSUME NEW i \in Nat, i \in T PROVE i + 1 \in T
  <2> SUFFICES ASSUME i + 1 <= n PROVE i + 1 <= Len(f[i + 1])
    OBVIOUS
  <2>1. i + 1 \in 1..n /\ i + 1 \in 0..n /\ i \in 0..n /\ (i + 1) - 1 = i /\ i + 1 > 0
    OBVIOUS
  <2>2. Len(f[i + 1]) = Len(f[i]) + Len(parts[i + 1])
    BY <2>1 DEF PartsStand
  <2>3. f[i] \in Seq(Int) /\ parts[i + 1] \in Seq(Int) /\ Len(parts[i + 1]) > 0
    BY <2>1 DEF Sizes
  <2> DEFINE a == Len(f[i])
             b == Len(parts[i + 1])
             z == Len(f[i + 1])
  <2>4. a \in Nat /\ b \in Nat /\ b > 0 /\ z = a + b /\ i <= a
    BY <1>2, <2>1, <2>2, <2>3, LenProperties
  <2> SUFFICES i + 1 <= z
    OBVIOUS
  <2> HIDE DEF a, b, z
  <2> QED
    BY <2>4
<1>3. Nat \subseteq T
  <2> HIDE DEF T
  <2> QED
    BY <1>1, <1>2, Induction
<1> QED
  BY <1>3

LEMMA JoinedSizes ==
  ASSUME NEW parts \in Seq(Seq(Int)), \A i \in DOMAIN parts : Len(parts[i]) > 0, NEW f,
         StepsOf(f, parts, Len(parts))
  PROVE  Sizes(f, parts, Len(parts))
<1> DEFINE n == Len(parts)
<1>1. n \in Nat /\ DOMAIN parts = 1..n /\ \A i \in 1..n : parts[i] \in Seq(Int)
  BY LenProperties
<1>2. Shares(parts, parts, n)
  BY <1>1 DEF Shares
<1>3. Agree(f, f, n)
  BY <1>1, <1>2, StepsAgree, Zenon
<1>4. \A i \in 0..n : i > 0 => i \in 1..n
  BY <1>1
<1> QED
  BY <1>1, <1>3, <1>4 DEF Agree, Sizes

LEMMA OneMore ==
  ASSUME NEW S, NEW list \in Seq(S), NEW i \in Nat, i < Len(list)
  PROVE  /\ SubSeq(list, 1, i) \in Seq(S) /\ list[i + 1] \in S
         /\ Append(SubSeq(list, 1, i), list[i + 1]) = SubSeq(list, 1, i + 1)
<1> DEFINE n == Len(list)
           a == SubSeq(list, 1, i)
           b == SubSeq(list, 1, i + 1)
           x == list[i + 1]
<1>1. n \in Nat /\ i < n /\ \A k \in 1..n : list[k] \in S
  BY LenProperties
<1>2. /\ i + 1 \in 1..n /\ (\A k \in 1..i : list[k] \in S) /\ (\A k \in 1..(i + 1) : list[k] \in S)
  <2> HIDE DEF n
  <2> QED
    BY <1>1
<1>3. a \in Seq(S) /\ Len(a) = i /\ \A k \in 1..i : a[k] = list[k]
  <2>1. /\ a \in Seq(S) /\ Len(a) = (IF 1 <= i THEN i - 1 + 1 ELSE 0)
        /\ \A k \in 1..(i - 1 + 1) : a[k] = list[1 + k - 1]
    BY <1>2, SubSeqProperties
  <2> HIDE DEF a
  <2> QED
    BY <2>1
<1>4. b \in Seq(S) /\ Len(b) = i + 1 /\ \A k \in 1..(i + 1) : b[k] = list[k]
  <2>1. /\ b \in Seq(S) /\ Len(b) = (IF 1 <= i + 1 THEN (i + 1) - 1 + 1 ELSE 0)
        /\ \A k \in 1..((i + 1) - 1 + 1) : b[k] = list[1 + k - 1]
    BY <1>2, SubSeqProperties
  <2> HIDE DEF b
  <2> QED
    BY <2>1
<1>5. x \in S
  BY <1>1, <1>2
<1> HIDE DEF a, b, x
<1> DEFINE t == Append(a, x)
<1>6. /\ t \in Seq(S) /\ Len(t) = i + 1 /\ t[i + 1] = x /\ \A k \in 1..i : t[k] = a[k]
  BY <1>3, <1>5, AppendProperties
<1> HIDE DEF t
<1>7. ASSUME NEW k \in 1..(i + 1) PROVE t[k] = b[k]
  <2>1. k \in 1..i \/ k = i + 1
    OBVIOUS
  <2> QED
    BY <1>3, <1>4, <1>6, <2>1 DEF x
<1>8. t = b
  BY <1>4, <1>6, <1>7, SeqEqual
<1> QED
  BY <1>3, <1>5, <1>8 DEF a, b, x, t

(* A driver's document is found to end where it ends.                      *)
DocumentStands(c, end, before, p, d, q) ==
  /\ c \in Seq(Int) /\ end \in Nat /\ end <= Len(c) + 1 /\ before \in Nat /\ before <= end
  /\ p \in Nat /\ p >= 1 /\ d \in Seq(Int) /\ IsDocument(d) /\ Stands(c, before, p, d)
  /\ q \in Nat /\ q = p + Len(d)

LEMMA DocumentIsFound ==
  ASSUME NEW c, NEW end, NEW before, NEW p, NEW d, NEW q, DocumentStands(c, end, before, p, d, q)
  PROVE  /\ p < before /\ AfterDocument(c, p, end) = q /\ q # 0
         /\ SubSeq(c, p, q - 1) = d
<1> USE DEF DocumentStands
<1> DEFINE l == Len(d)
<1>1. l \in Nat /\ l >= 2 /\ d[1] = l /\ d[l] = 0
  BY LenProperties DEF IsDocument, MinDocument
<1>2. p + l <= before /\ \A k \in 1..l : c[p + k - 1] = d[k]
  BY DEF Stands
<1>3. Stands(c, end, p, d)
  BY <1>1, <1>2 DEF Stands
<1>4. q - 1 \in Int /\ q - 1 = p + Len(d) - 1
  BY <1>1
<1> DEFINE e == q - 1
<1> HIDE DEF e
<1>5. SubSeq(c, p, e) = d
  <2>1. e \in Int /\ e = p + Len(d) - 1
    BY <1>4 DEF e
  <2>2. StandsUntil(c, end, p, d, e)
    BY <1>3, <2>1 DEF StandsUntil
  <2> QED
    BY <2>2, StandsPart, Zenon
<1> HIDE DEF l
<1>6. 1 \in 1..l /\ l \in 1..l /\ p + 1 - 1 = p
  BY <1>1
<1>7. c[p] = l /\ c[p + l - 1] = 0
  BY <1>1, <1>2, <1>6
<1>8. p < end /\ p + l <= end /\ p < before /\ p + l # 0
  BY <1>1, <1>2
<1>9. AfterDocument(c, p, end) = p + l
  BY <1>1, <1>7, <1>8 DEF AfterDocument, MinDocument
<1> QED
  BY <1>5, <1>8, <1>9 DEF l, e

(* All of a sequence's documents are read, in their order.                 *)
DocumentsStand(c, end, first, docs, sectionEnd) ==
  /\ c \in Seq(Int) /\ end \in Nat /\ end <= Len(c) + 1 /\ first \in Nat /\ first >= 1
  /\ docs \in Seq(Seq(Int)) /\ \A k \in DOMAIN docs : IsDocument(docs[k])
  /\ Stands(c, end, first, Joined(docs))
  /\ sectionEnd \in Nat /\ sectionEnd = first + Len(Joined(docs))

LEMMA DocumentsAreFound ==
  ASSUME NEW c, NEW end, NEW first, NEW docs, NEW sectionEnd,
         DocumentsStand(c, end, first, docs, sectionEnd)
  PROVE  Documents(c, first, sectionEnd, end) = [ok |-> TRUE, at |-> sectionEnd, docs |-> docs]
<1>0. /\ c \in Seq(Int) /\ end \in Nat /\ end <= Len(c) + 1 /\ first \in Nat /\ first >= 1
      /\ docs \in Seq(Seq(Int)) /\ (\A k \in DOMAIN docs : IsDocument(docs[k]))
      /\ Stands(c, end, first, Joined(docs))
      /\ sectionEnd \in Nat /\ sectionEnd = first + Len(Joined(docs))
  BY DEF DocumentsStand
<1> USE <1>0
<1> DEFINE n == Len(docs)
           l == Len(c)
<1>1. n \in Nat /\ l \in Nat /\ DOMAIN docs = 1..n /\ \A k \in 1..n : docs[k] \in Seq(Int)
  BY LenProperties
<1>2. PICK f : StepsOf(f, docs, n) /\ Joined(docs) = f[n]
  BY <1>1, JoinedOf, Zenon
<1>3. Sizes(f, docs, n)
  <2>1. \A k \in DOMAIN docs : Len(docs[k]) > 0
    <3> SUFFICES ASSUME NEW k \in DOMAIN docs PROVE Len(docs[k]) > 0
      OBVIOUS
    <3>1. Len(docs[k]) \in Nat /\ Len(docs[k]) >= 2
      BY <1>1, LenProperties DEF IsDocument, MinDocument
    <3> QED
      BY <3>1
  <2> QED
    BY <1>2, <2>1, JoinedSizes
<1>4. f[n] \in Seq(Int) /\ Len(f[n]) \in Nat
  BY <1>1, <1>3, LenProperties DEF Sizes
<1>5. sectionEnd = first + Len(f[n]) /\ sectionEnd <= end /\ Stands(c, sectionEnd, first, f[n])
  BY <1>2, <1>4 DEF Stands
<1>6. PartsStand(c, sectionEnd, first, f, docs, n)
  BY <1>1, <1>2, <1>3, <1>5, PartsOfJoined, Zenon
<1>7. n <= Len(f[n])
  BY <1>1, <1>2, <1>3, <1>6, PartsCount, Zenon
<1>8. n <= l
  <2> DEFINE z == Len(f[n])
  <2>1. z \in Nat /\ first + z <= end /\ end <= l + 1 /\ n <= z
    BY <1>4, <1>5, <1>7
  <2> HIDE DEF z, l, n
  <2> QED
    BY <1>1, <2>1
<1>9. PICK g : /\ DocumentRounds(g, c, first, sectionEnd, end, l)
               /\ Documents(c, first, sectionEnd, end) = g[l]
  BY <1>1, DocumentsOf, Zenon
<1> DEFINE After(i) == [ok |-> TRUE, at |-> first + Len(f[i]), docs |-> SubSeq(docs, 1, i)]
           T == {i \in Nat : i <= n => g[i] = After(i)}
<1>10. 0 \in T
  <2>1. g[0] = NoDocument(first) /\ f[0] = <<>>
    BY <1>2, <1>9 DEF DocumentRounds, StepsOf
  <2>2. SubSeq(docs, 1, 0) = <<>>
    BY SubSeqEmpty
  <2>3. first + Len(f[0]) = first
    BY <2>1
  <2> QED
    BY <2>1, <2>2, <2>3 DEF NoDocument
<1>11. ASSUME NEW i \in Nat, i \in T PROVE i + 1 \in T
  <2> SUFFICES ASSUME i + 1 <= n PROVE g[i + 1] = After(i + 1)
    OBVIOUS
  <2>0. i + 1 \in 1..n /\ (i + 1) - 1 = i /\ i + 1 \in 1..l /\ i < n /\ i \in 0..n /\ i <= n
    BY <1>1, <1>8
  <2>1. i + 1 \in 1..n /\ (i + 1) - 1 = i /\ g[i] = After(i) /\ i + 1 \in 1..l /\ i < n /\ i \in 0..n
    BY <1>11, <2>0
  <2>2. g[i + 1] = ReadDocument(c, sectionEnd, end, g[i])
    BY <1>9, <2>1 DEF DocumentRounds
  <2> DEFINE d == docs[i + 1]
             p == first + Len(f[i])
             q == first + Len(f[i + 1])
             z == Len(d)
  <2>3. d \in Seq(Int) /\ IsDocument(d) /\ z \in Nat
    BY <1>1, <2>1, LenProperties
  <2>4. /\ p \in Nat /\ Stands(c, sectionEnd, p, d)
        /\ Len(f[i + 1]) = Len(f[i]) + z
    BY <1>6, <2>1 DEF PartsStand
  <2>5. f[i] \in Seq(Int) /\ Len(f[i]) \in Nat
    BY <1>3, <2>1, LenProperties DEF Sizes
  <2>6. p >= 1 /\ q \in Nat /\ q = p + z
    <3> DEFINE y == Len(f[i])
    <3>1. y \in Nat /\ p = first + y /\ q = first + (y + z)
      BY <2>4, <2>5
    <3> HIDE DEF y, p, q, z
    <3> QED
      BY <2>3, <3>1
  <2> HIDE DEF d, p, q, z
  <2>7. q = p + Len(d)
    BY <2>6 DEF z
  <2>8. /\ p < sectionEnd /\ AfterDocument(c, p, end) = q /\ q # 0
        /\ SubSeq(c, p, q - 1) = d
    <3>1. DocumentStands(c, end, sectionEnd, p, d, q)
      BY <1>5, <2>3, <2>4, <2>6, <2>7 DEF DocumentStands
    <3> QED
      BY <3>1, DocumentIsFound, Zenon
  <2> DEFINE s == [ok |-> TRUE, at |-> p, docs |-> SubSeq(docs, 1, i)]
  <2>9. g[i] = s
    BY <2>1 DEF p
  <2>10. ReadDocument(c, sectionEnd, end, s)
           = [ok |-> TRUE, at |-> q, docs |-> Append(SubSeq(docs, 1, i), d)]
    <3>1. s.ok /\ s.at = p /\ ~(p >= sectionEnd)
      BY <2>4, <2>8
    <3>2. ReadDocument(c, sectionEnd, end, s)
            = [s EXCEPT !.at = q, !.docs = Append(@, SubSeq(c, p, q - 1))]
      BY <2>8, <3>1 DEF ReadDocument
    <3> QED
      BY <2>8, <3>2
  <2>11. Append(SubSeq(docs, 1, i), d) = SubSeq(docs, 1, i + 1)
    BY <2>1, OneMore DEF d
  <2> QED
    BY <2>2, <2>9, <2>10, <2>11 DEF q
<1>12. Nat \subseteq T
  <2> HIDE DEF T
  <2> QED
    BY <1>10, <1>11, Induction
<1>13. g[n] = [ok |-> TRUE, at |-> sectionEnd, docs |-> docs]
  <2>1. SubSeq(docs, 1, n) = docs
    BY SubSeqFull
  <2>2. n \in T
    <3> HIDE DEF T
    <3> QED
      BY <1>1, <1>12
  <2>3. g[n] = After(n)
    BY <1>1, <2>2
  <2> QED
    BY <1>5, <2>1, <2>3
<1> DEFINE U == {k \in Nat : n + k <= l => g[n + k] = g[n]}
<1>14. 0 \in U
  BY <1>1
<1>15. ASSUME NEW k \in Nat, k \in U PROVE k + 1 \in U
  <2> SUFFICES ASSUME n + (k + 1) <= l PROVE g[n + (k + 1)] = g[n]
    OBVIOUS
  <2>1. n + (k + 1) \in 1..l /\ (n + (k + 1)) - 1 = n + k /\ n + k <= l
    <3> HIDE DEF n, l
    <3> QED
      BY <1>1
  <2>2. g[n + (k + 1)] = ReadDocument(c, sectionEnd, end, g[n + k])
    BY <1>9, <2>1 DEF DocumentRounds
  <2>3. g[n + k] = g[n]
    BY <1>15, <2>1
  <2>4. g[n].at >= sectionEnd
    BY <1>13
  <2> QED
    BY <2>2, <2>3, <2>4 DEF ReadDocument
<1>16. Nat \subseteq U
  <2> HIDE DEF U
  <2> QED
    BY <1>14, <1>15, Induction
<1>17. g[l] = g[n]
  <2>1. l - n \in Nat /\ n + (l - n) = l
    <3> HIDE DEF n, l
    <3> QED
      BY <1>1, <1>8
  <2>2. n + (l - n) <= l => g[n + (l - n)] = g[n]
    BY <1>16, <2>1
  <2> QED
    BY <1>1, <2>1, <2>2
<1> QED
  BY <1>9, <1>13, <1>17

(* A driver's name is found to end where it ends.                          *)
NameStands(c, end, p, id, q) ==
  /\ end \in Nat /\ p \in Nat /\ id \in Seq(Int) /\ q \in Nat /\ q = p + Len(id)
  /\ Stands(c, end, p, id) /\ q < end /\ c[q] = 0 /\ \A k \in DOMAIN id : id[k] # 0

LEMMA NameIsFound ==
  ASSUME NEW c, NEW end, NEW p, NEW id, NEW q, NameStands(c, end, p, id, q)
  PROVE  AfterString(c, p, end) = q + 1
<1> DEFINE l == Len(id)
           next == AfterString(c, p, end)
<1>1. /\ end \in Nat /\ p \in Nat /\ q \in Nat /\ q = p + l /\ q < end /\ c[q] = 0
      /\ l \in Nat /\ DOMAIN id = 1..l /\ (\A k \in 1..l : id[k] # 0)
      /\ \A k \in 1..l : c[p + k - 1] = id[k]
  BY LenProperties DEF NameStands, Stands
<1>2. /\ next \in Nat
      /\ next # 0 => /\ p + 1 <= next /\ next <= end /\ c[next - 1] = 0
                     /\ \A i \in p..(next - 2) : c[i] # 0
      /\ next = 0 => \A i \in p..(end - 1) : c[i] # 0
  <2>1. StringEnds(c, p, end, next)
    BY <1>1, AfterStringBounds
  <2> HIDE DEF next
  <2> QED
    BY <2>1 DEF StringEnds
<1> HIDE DEF l, next
<1>3. next # 0
  <2>1. q \in p..(end - 1)
    BY <1>1
  <2> QED
    BY <1>1, <1>2, <2>1
<1> DEFINE k == next - 1
<1>4. k \in Nat /\ k >= p /\ c[k] = 0 /\ \A i \in p..(k - 1) : c[i] # 0
  <2>1. k \in Nat /\ k >= p /\ k - 1 = next - 2
    BY <1>1, <1>2, <1>3
  <2> QED
    BY <1>2, <1>3, <2>1
<1> HIDE DEF k
<1>5. ~(k < q)
  <2> SUFFICES ASSUME k < q PROVE FALSE
    OBVIOUS
  <2>1. k - p + 1 \in 1..l /\ p + (k - p + 1) - 1 = k
    BY <1>1, <1>4
  <2>2. c[p + (k - p + 1) - 1] = id[k - p + 1] /\ id[k - p + 1] # 0
    BY <1>1, <2>1
  <2> QED
    BY <1>4, <2>1, <2>2
<1>6. ~(k > q)
  <2> SUFFICES ASSUME k > q PROVE FALSE
    OBVIOUS
  <2>1. q \in p..(k - 1)
    BY <1>1, <1>4
  <2> QED
    BY <1>1, <1>4, <2>1
<1>7. k = q
  BY <1>1, <1>4, <1>5, <1>6
<1>8. next = q + 1
  BY <1>1, <1>2, <1>7 DEF k
<1> QED
  BY <1>8 DEF next

(* A driver's section is read whole, and as what it is.                    *)
IsSection(x) ==
  /\ x \in Coded /\ (\A k \in DOMAIN x.docs : IsDocument(x.docs[k]))
  /\ \A k \in DOMAIN x.id : x.id[k] # 0
  /\ x.kind = 0 => x.id = <<>> /\ Len(x.docs) = 1
SectionStands(c, end, a, x) ==
  /\ c \in Seq(Int) /\ end \in Nat /\ end <= Len(c) + 1 /\ a \in Nat /\ a >= 1
  /\ IsSection(x) /\ Stands(c, end, a, EncodeSection(x))

LEMMA OneCell ==
  ASSUME NEW c, NEW end, NEW p, NEW t, p \in Nat /\ Len(t) = 1 /\ Stands(c, end, p, t)
  PROVE  c[p] = t[1] /\ p + 1 <= end
<1>1. Len(t) = 1 /\ p \in Nat
  OBVIOUS
<1>2. p + Len(t) <= end /\ \A k \in 1..Len(t) : c[p + k - 1] = t[k]
  BY DEF Stands
<1>3. 1 \in 1..1 /\ p + 1 - 1 = p
  OBVIOUS
<1> QED
  BY <1>1, <1>2, <1>3

LEMMA BodyIsFound ==
  ASSUME NEW c, NEW end, NEW a, NEW x, SectionStands(c, end, a, x), x.kind = 0,
         NEW s, s.ok, s.at = a, ~s.haveBody
  PROVE  a < end /\ ReadSection(c, end, s) = Read(s, a + Len(EncodeSection(x)), x.kind, x.id, x.docs)
<1> DEFINE d == x.docs[1]
           one == <<0>>
           code == EncodeSection(x)
           b == a + 1
           q == b + Len(d)
<1>1. /\ c \in Seq(Int) /\ end \in Nat /\ end <= Len(c) + 1 /\ a \in Nat /\ a >= 1
      /\ IsSection(x) /\ Stands(c, end, a, code)
  BY DEF SectionStands
<1>2. /\ x.docs \in Seq(Seq(Int)) /\ Len(x.docs) = 1 /\ x.id = <<>>
      /\ \A k \in DOMAIN x.docs : IsDocument(x.docs[k])
  BY <1>1 DEF IsSection, Coded, SectionForms
<1>3. DOMAIN x.docs = 1..1 /\ d \in Seq(Int) /\ IsDocument(d)
  <2>1. x.docs \in [1..1 -> Seq(Int)]
    BY <1>2, LenProperties
  <2> QED
    BY <1>2, <2>1
<1>4. x.docs = <<d>>
  <2> DEFINE t == <<d>>
             u == x.docs
  <2>1. t \in Seq(Seq(Int)) /\ Len(t) = 1 /\ t[1] = d
    BY <1>3
  <2> HIDE DEF t
  <2>2. u \in Seq(Seq(Int)) /\ Len(u) = 1 /\ u[1] = d
    BY <1>2
  <2> HIDE DEF u
  <2>3. \A k \in 1..Len(u) : u[k] = t[k]
    BY <2>1, <2>2
  <2>4. u = t
    BY <2>1, <2>2, <2>3, SeqEqual
  <2> QED
    BY <2>4 DEF u, t
<1>5. code = one \o d
  BY DEF EncodeSection
<1>6. one \in Seq(Int) /\ Len(one) = 1 /\ one[1] = 0
  OBVIOUS
<1> HIDE DEF code, one
<1>7. /\ Stands(c, end, a, one) /\ Stands(c, end, b, d) /\ Len(code) = Len(one) + Len(d)
  <2>1. Splits(c, end, a, code, one, d, b)
    BY <1>1, <1>3, <1>5, <1>6 DEF Splits
  <2> QED
    BY <2>1, StandsSplit
<1>8. c[a] = 0 /\ a + 1 <= end
  <2>1. a \in Nat /\ Len(one) = 1 /\ Stands(c, end, a, one)
    BY <1>1, <1>6, <1>7
  <2>2. c[a] = one[1] /\ a + 1 <= end
    BY <2>1, OneCell
  <2> QED
    BY <1>6, <2>2
<1>9. Len(d) \in Nat /\ b \in Nat /\ b >= 1 /\ q \in Nat /\ q = b + Len(d) /\ a + Len(code) = q
  <2> DEFINE l == Len(d)
  <2>1. l \in Nat /\ Len(code) = 1 + l
    BY <1>3, <1>6, <1>7, LenProperties
  <2> HIDE DEF l
  <2>2. b \in Nat /\ b >= 1 /\ b + l \in Nat /\ a + (1 + l) = b + l
    BY <1>1, <2>1
  <2> QED
    BY <2>1, <2>2 DEF l
<1>10. Stands(c, end, b, d)
  BY <1>7
<1> HIDE DEF b, q, d
<1>11. DocumentStands(c, end, end, b, d, q)
  BY <1>1, <1>3, <1>9, <1>10 DEF DocumentStands
<1>12. AfterDocument(c, b, end) = q /\ q # 0 /\ SubSeq(c, b, q - 1) = d
  BY <1>11, DocumentIsFound, Zenon
<1>13. ReadBody(c, end, s) = Read(s, q, 0, <<>>, <<d>>)
  BY <1>12 DEF ReadBody, b
<1>14. a < end
  BY <1>1, <1>8
<1>15. ReadSection(c, end, s) = ReadBody(c, end, s)
  BY <1>1, <1>8, <1>14 DEF ReadSection
<1>16. ReadSection(c, end, s) = Read(s, q, x.kind, x.id, x.docs)
  BY <1>2, <1>4, <1>13, <1>15
<1> QED
  BY <1>9, <1>14, <1>16 DEF code

LEMMA SequenceIsFound ==
  ASSUME NEW c, NEW end, NEW a, NEW x, SectionStands(c, end, a, x), x.kind = 1,
         NEW s, s.ok, s.at = a
  PROVE  a < end /\ ReadSection(c, end, s) = Read(s, a + Len(EncodeSection(x)), x.kind, x.id, x.docs)
<1> DEFINE id == x.id
           docs == x.docs
           zero == <<0>>
           joined == Joined(docs)
           named == id \o zero
           content == named \o joined
           size == Len(content) + 1
           front == <<1, size>>
           code == EncodeSection(x)
           b == a + 1
           d == a + 2
           q == d + Len(id)
           first == q + 1
           sectionEnd == b + size
<1>1. /\ c \in Seq(Int) /\ end \in Nat /\ end <= Len(c) + 1 /\ a \in Nat /\ a >= 1
      /\ IsSection(x) /\ Stands(c, end, a, code)
  BY DEF SectionStands
<1>2. /\ docs \in Seq(Seq(Int)) /\ id \in Seq(Int)
      /\ (\A k \in DOMAIN docs : IsDocument(docs[k])) /\ \A k \in DOMAIN id : id[k] # 0
  BY <1>1 DEF IsSection, Coded, SectionForms
<1>3. code = front \o content
  BY DEF EncodeSection
<1>4. zero \in Seq(Int) /\ Len(zero) = 1 /\ zero[1] = 0
  OBVIOUS
<1> HIDE DEF code, zero
<1>5. joined \in Seq(Int)
  BY <1>2, JoinedAppend, <<>> \in Seq(Int)
<1> HIDE DEF joined
<1>6. named \in Seq(Int) /\ Len(named) = Len(id) + 1
  <2> HIDE DEF id
  <2>1. id \in Seq(Int) /\ zero \in Seq(Int)
    BY <1>2, <1>4
  <2>2. id \o zero \in Seq(Int) /\ Len(id \o zero) = Len(id) + Len(zero)
    BY <2>1, ConcatProperties
  <2> QED
    BY <1>4, <2>2
<1> HIDE DEF named
<1>7. content \in Seq(Int) /\ Len(content) = Len(named) + Len(joined)
  BY <1>5, <1>6, ConcatProperties
<1> HIDE DEF content
<1>8. size \in Int /\ front \in Seq(Int) /\ Len(front) = 2 /\ front[1] = 1 /\ front[2] = size
  <2>1. size \in Int
    BY <1>7, LenProperties
  <2> HIDE DEF size
  <2> QED
    BY <2>1
<1> HIDE DEF front
<1>9. Stands(c, end, a, front) /\ Stands(c, end, d, content) /\ Len(code) = Len(front) + Len(content)
  <2>1. Splits(c, end, a, code, front, content, d)
    BY <1>1, <1>3, <1>7, <1>8 DEF Splits
  <2> QED
    BY <2>1, StandsSplit
<1> DEFINE l == Len(id)
           m == Len(joined)
<1>10. /\ l \in Nat /\ m \in Nat /\ Len(content) = l + 1 + m /\ Len(code) = 2 + (l + 1 + m)
  BY <1>2, <1>5, <1>6, <1>7, <1>8, <1>9, LenProperties
<1>11. /\ b \in Nat /\ d \in Nat /\ d >= 1 /\ q \in Nat /\ q = d + l /\ first \in Nat /\ first >= 1
       /\ size = l + 2 + m /\ sectionEnd \in Nat /\ sectionEnd = first + m
       /\ a + Len(code) = sectionEnd /\ first - 2 \in Int /\ first - 2 = d + l - 1
       /\ first = d + (l + 1) /\ first # 0
  <2>1. size = (l + 1 + m) + 1
    BY <1>10
  <2>2. q = d + l
    OBVIOUS
  <2> DEFINE z == Len(code)
  <2>3. z = 2 + (l + 1 + m)
    BY <1>10
  <2> HIDE DEF l, m, size, z, q
  <2>4. /\ b \in Nat /\ d \in Nat /\ d >= 1 /\ q \in Nat /\ first \in Nat /\ first >= 1
        /\ size = l + 2 + m /\ sectionEnd \in Nat /\ sectionEnd = first + m
        /\ a + z = sectionEnd /\ first - 2 \in Int /\ first - 2 = d + l - 1
        /\ first = d + (l + 1) /\ first # 0
    BY <1>1, <1>10, <2>1, <2>2, <2>3
  <2> QED
    BY <2>2, <2>4 DEF z
<1>12. Stands(c, end, d, named) /\ Stands(c, end, first, joined)
  <2>1. Splits(c, end, d, content, named, joined, first)
    <3>1. first = d + Len(named)
      BY <1>6, <1>11
    <3> HIDE DEF first, d
    <3> QED
      BY <1>1, <1>5, <1>6, <1>9, <1>11, <3>1 DEF Splits, content
  <2> QED
    BY <2>1, StandsSplit
<1>13. Stands(c, end, d, id) /\ Stands(c, end, q, zero)
  <2>1. Splits(c, end, d, named, id, zero, q)
    BY <1>1, <1>2, <1>4, <1>11, <1>12 DEF Splits, named
  <2> QED
    BY <2>1, StandsSplit
<1> HIDE DEF id, docs, q, d, b, first, size, sectionEnd, l, m
<1>14. c[q] = 0 /\ q + 1 <= end
  <2>1. q \in Nat /\ Len(zero) = 1 /\ Stands(c, end, q, zero)
    BY <1>4, <1>11, <1>13
  <2>2. c[q] = zero[1] /\ q + 1 <= end
    BY <2>1, OneCell
  <2> QED
    BY <1>4, <2>2
<1>15. c[a] = 1 /\ c[b] = size /\ b < end
  <2>1. a + Len(front) <= end /\ \A k \in 1..Len(front) : c[a + k - 1] = front[k]
    BY <1>9 DEF Stands
  <2>2. 1 \in 1..2 /\ 2 \in 1..2 /\ a + 1 - 1 = a /\ a + 2 - 1 = b /\ (a + 2 <= end => b < end)
    BY <1>1 DEF b
  <2>3. c[a + 1 - 1] = 1 /\ c[a + 2 - 1] = size /\ a + 2 <= end
    BY <1>8, <2>1, <2>2
  <2> QED
    BY <2>2, <2>3
<1>16. AfterString(c, d, end) = first
  <2>1. q < end /\ first = q + 1
    BY <1>1, <1>11, <1>14 DEF first
  <2>2. NameStands(c, end, d, id, q)
    BY <1>1, <1>2, <1>11, <1>13, <1>14, <2>1 DEF NameStands, l
  <2> QED
    BY <2>1, <2>2, NameIsFound
<1>17. SubSeq(c, d, first - 2) = id
  <2> DEFINE e == first - 2
  <2>1. e \in Int /\ e = d + Len(id) - 1
    BY <1>11 DEF l
  <2> HIDE DEF e
  <2>2. StandsUntil(c, end, d, id, e)
    BY <1>1, <1>2, <1>11, <1>13, <2>1 DEF StandsUntil
  <2>3. SubSeq(c, d, e) = id
    BY <2>2, StandsPart
  <2> QED
    BY <2>3 DEF e
<1>18. Documents(c, first, sectionEnd, end) = [ok |-> TRUE, at |-> sectionEnd, docs |-> docs]
  <2>1. Stands(c, end, first, Joined(docs)) /\ sectionEnd = first + Len(Joined(docs))
    BY <1>11, <1>12 DEF joined, m
  <2>2. DocumentsStand(c, end, first, docs, sectionEnd)
    BY <1>1, <1>2, <1>11, <2>1 DEF DocumentsStand
  <2> QED
    BY <2>2, DocumentsAreFound
<1>19. ReadSequence(c, end, s) = Read(s, sectionEnd, 1, id, docs)
  <2> DEFINE body == Documents(c, first, sectionEnd, end)
  <2>1. body.ok /\ body.at = sectionEnd /\ body.docs = docs
    BY <1>18
  <2>2. ~(b >= end) /\ ~(size < MinSequence)
    BY <1>1, <1>10, <1>11, <1>15 DEF MinSequence
  <2>3. s.at + 1 = b /\ s.at + 2 = d /\ b + c[b] = sectionEnd
    BY <1>15 DEF b, d, sectionEnd
  <2> HIDE DEF body
  <2>4. ReadSequence(c, end, s) = Read(s, body.at, 1, SubSeq(c, d, first - 2), body.docs)
    BY <1>11, <1>15, <1>16, <2>1, <2>2, <2>3 DEF ReadSequence, EndsThere, body
  <2> QED
    BY <1>17, <2>1, <2>4
<1>20. a < end
  BY <1>1, <1>15 DEF b
<1>21. ReadSection(c, end, s) = ReadSequence(c, end, s)
  BY <1>1, <1>15, <1>20 DEF ReadSection
<1>22. ReadSection(c, end, s) = Read(s, a + Len(EncodeSection(x)), x.kind, x.id, x.docs)
  BY <1>11, <1>19, <1>21 DEF code, id, docs
<1> QED
  BY <1>20, <1>22

(* A driver's request is read whole.                                       *)
LEMMA RequestSections ==
  ASSUME NEW sent, IsRequest(sent)
  PROVE  /\ sent \in Seq(Coded) /\ Len(sent) \in Nat /\ DOMAIN sent = 1..Len(sent)
         /\ \A i \in 1..Len(sent) : IsSection(sent[i])
         /\ \E b \in 1..Len(sent) : \A i \in 1..Len(sent) : (sent[i].kind = 0 <=> i = b)
<1> DEFINE n == Len(sent)
<1>1. sent \in Seq(SectionForms)
  BY DEF IsRequest
<1>2. n \in Nat /\ DOMAIN sent = 1..n /\ sent \in [1..n -> SectionForms]
  BY <1>1, LenProperties
<1>3. PICK b \in 1..n : /\ sent[b].kind = 0 /\ sent[b].id = <<>> /\ Len(sent[b].docs) = 1
                        /\ \A i \in 1..n : i # b => sent[i].kind = 1
  BY <1>2 DEF IsRequest
<1>4. ASSUME NEW i \in 1..n PROVE IsSection(sent[i]) /\ (sent[i].kind = 0 <=> i = b)
  <2> DEFINE x == sent[i]
  <2>1. x \in SectionForms
    BY <1>2
  <2>2. (\A k \in DOMAIN x.docs : IsDocument(x.docs[k])) /\ \A k \in DOMAIN x.id : x.id[k] # 0
    BY <1>2 DEF IsRequest
  <2>3. x.kind = 0 <=> i = b
    BY <1>3
  <2>4. x.kind = 0 => x.id = <<>> /\ Len(x.docs) = 1
    BY <1>3, <2>3
  <2> HIDE DEF x
  <2>5. x \in Coded
    BY <2>1, <2>4 DEF Coded
  <2>6. IsSection(x)
    BY <2>2, <2>4, <2>5 DEF IsSection
  <2> QED
    BY <2>3, <2>6 DEF x
<1>5. sent \in Seq(Coded)
  <2>1. \A i \in 1..n : sent[i] \in Coded
    BY <1>4 DEF IsSection
  <2>2. sent \in [1..n -> Coded]
    BY <1>2, <2>1
  <2> QED
    BY <1>2, <2>2, SeqDef
<1> QED
  BY <1>2, <1>3, <1>4, <1>5

Codes(sent) == [i \in DOMAIN sent |-> EncodeSection(sent[i])]

LEMMA SectionCode ==
  ASSUME NEW x, IsSection(x)
  PROVE  EncodeSection(x) \in Seq(Int) /\ Len(EncodeSection(x)) > 0
<1> DEFINE code == EncodeSection(x)
<1>1. x \in Coded
  BY DEF IsSection
<1>2. code \in Seq(Int) /\ Len(code) \in Nat
  BY <1>1, EncodeSectionType, LenProperties
<1>3. x.docs \in Seq(Seq(Int)) /\ x.id \in Seq(Int) /\ x.kind \in {0, 1}
  BY <1>1 DEF Coded, SectionForms
<1>4. CASE x.kind = 0
  <2> DEFINE d == x.docs[1]
             one == <<0>>
  <2>1. d \in Seq(Int)
    BY <1>1, <1>3, <1>4, LenProperties DEF Coded
  <2>2. one \in Seq(Int) /\ Len(one) = 1
    OBVIOUS
  <2>3. code = one \o d
    BY <1>4 DEF EncodeSection
  <2> HIDE DEF code, d, one
  <2>4. Len(code) = 1 + Len(d) /\ Len(d) \in Nat
    <3>1. Len(one \o d) = Len(one) + Len(d)
      BY <2>1, <2>2, ConcatProperties
    <3>2. Len(d) \in Nat
      BY <2>1, LenProperties
    <3> QED
      BY <2>2, <2>3, <3>1, <3>2
  <2> QED
    BY <1>2, <2>4 DEF code
<1>5. CASE x.kind = 1
  <2> DEFINE content == x.id \o <<0>> \o Joined(x.docs)
             front == <<1, Len(content) + 1>>
  <2>1. code = front \o content
    BY <1>5 DEF EncodeSection
  <2>2. content \in Seq(Int)
    <3> DEFINE zero == <<0>>
               j == Joined(x.docs)
    <3>1. zero \in Seq(Int)
      OBVIOUS
    <3>2. j \in Seq(Int)
      BY <1>3, JoinedAppend, <<>> \in Seq(Int)
    <3> HIDE DEF zero, j
    <3>3. x.id \o zero \in Seq(Int)
      BY <1>3, <3>1, ConcatProperties
    <3>4. x.id \o zero \o j \in Seq(Int)
      BY <3>2, <3>3, ConcatProperties
    <3> QED
      BY <3>4 DEF zero, j
  <2> HIDE DEF content
  <2>3. Len(content) \in Nat /\ front \in Seq(Int) /\ Len(front) = 2
    BY <2>2, LenProperties
  <2> HIDE DEF front, code
  <2>4. Len(code) = 2 + Len(content)
    <3>1. Len(front \o content) = Len(front) + Len(content)
      BY <2>2, <2>3, ConcatProperties
    <3> QED
      BY <2>1, <2>3, <3>1
  <2> QED
    BY <1>2, <2>3, <2>4 DEF code
<1> QED
  BY <1>3, <1>4, <1>5

LEMMA CodesType ==
  ASSUME NEW sent, IsRequest(sent)
  PROVE  /\ Codes(sent) \in Seq(Seq(Int)) /\ Len(Codes(sent)) = Len(sent)
         /\ \A i \in DOMAIN Codes(sent) : Len(Codes(sent)[i]) > 0
         /\ \A i \in 1..Len(sent) : Codes(sent)[i] = EncodeSection(sent[i])
<1> DEFINE n == Len(sent)
           codes == Codes(sent)
<1>1. n \in Nat /\ DOMAIN sent = 1..n /\ \A i \in 1..n : IsSection(sent[i])
  BY RequestSections
<1>2. /\ codes = [i \in 1..n |-> EncodeSection(sent[i])]
      /\ DOMAIN codes = 1..n /\ \A i \in 1..n : codes[i] = EncodeSection(sent[i])
  BY <1>1 DEF Codes
<1>3. \A i \in 1..n : EncodeSection(sent[i]) \in Seq(Int) /\ Len(EncodeSection(sent[i])) > 0
  BY <1>1, SectionCode
<1> HIDE DEF codes
<1>4. codes \in [1..n -> Seq(Int)]
  BY <1>2, <1>3
<1>5. codes \in Seq(Seq(Int))
  BY <1>1, <1>4, SeqDef
<1>6. Len(codes) = n
  BY <1>1, <1>2, <1>5, LenProperties
<1> QED
  BY <1>2, <1>3, <1>5, <1>6 DEF codes

RequestStands(c, end, sent) ==
  /\ c \in Seq(Int) /\ end \in Nat /\ end <= Len(c) + 1 /\ IsRequest(sent)
  /\ Stands(c, end, 1, Encode(sent)) /\ end = 1 + Len(Encode(sent))

LEMMA RequestIsFound ==
  ASSUME NEW c, NEW end, NEW sent, RequestStands(c, end, sent)
  PROVE  Sections(c, end) = [ok |-> TRUE, at |-> end, haveBody |-> TRUE, sections |-> sent]
<1> DEFINE n == Len(sent)
           l == Len(c)
           codes == Codes(sent)
<1>1. /\ c \in Seq(Int) /\ end \in Nat /\ end <= l + 1 /\ IsRequest(sent) /\ l \in Nat
      /\ Stands(c, end, 1, Encode(sent)) /\ end = 1 + Len(Encode(sent))
  BY LenProperties DEF RequestStands
<1>2. /\ sent \in Seq(Coded) /\ n \in Nat /\ DOMAIN sent = 1..n
      /\ \A i \in 1..n : IsSection(sent[i])
  BY <1>1, RequestSections
<1>3. PICK body \in 1..n : \A i \in 1..n : (sent[i].kind = 0 <=> i = body)
  BY <1>1, RequestSections
<1>4. /\ codes \in Seq(Seq(Int)) /\ Len(codes) = n /\ (\A i \in DOMAIN codes : Len(codes[i]) > 0)
      /\ \A i \in 1..n : codes[i] = EncodeSection(sent[i])
  BY <1>1, CodesType
<1>5. Encode(sent) = Joined(codes)
  BY DEF Encode, Codes
<1> HIDE DEF codes
<1>6. PICK f : StepsOf(f, codes, n) /\ Joined(codes) = f[n]
  <2>1. Len(codes) \in Nat
    BY <1>2, <1>4
  <2>2. \E f : StepsOf(f, codes, Len(codes)) /\ Joined(codes) = f[Len(codes)]
    BY <2>1, JoinedOf, Zenon
  <2> QED
    BY <1>4, <2>2
<1>7. Sizes(f, codes, n)
  BY <1>4, <1>6, JoinedSizes
<1>8. f[n] \in Seq(Int) /\ Len(f[n]) \in Nat
  BY <1>2, <1>7, LenProperties DEF Sizes
<1>9. Stands(c, end, 1, f[n]) /\ end = 1 + Len(f[n])
  BY <1>1, <1>5, <1>6
<1>10. PartsStand(c, end, 1, f, codes, n)
  <2>1. 1 \in Nat /\ end \in Nat /\ n \in Nat
    BY <1>1, <1>2
  <2> QED
    BY <1>6, <1>7, <1>9, <2>1, PartsOfJoined, Zenon
<1>11. n <= l
  <2>1. n <= Len(f[n])
    BY <1>2, <1>6, <1>7, <1>10, PartsCount, Zenon
  <2> DEFINE z == Len(f[n])
  <2>2. z \in Nat /\ n <= z /\ end = 1 + z
    BY <1>8, <1>9, <2>1
  <2> HIDE DEF z, n, l
  <2> QED
    BY <1>1, <1>2, <2>2
<1>12. PICK g : SectionRounds(g, c, end, l) /\ Sections(c, end) = g[l]
  BY <1>1, SectionsOf, Zenon
<1> DEFINE After(i) == [ok |-> TRUE, at |-> 1 + Len(f[i]), haveBody |-> body <= i,
                        sections |-> SubSeq(sent, 1, i)]
           T == {i \in Nat : i <= n => g[i] = After(i)}
<1>13. 0 \in T
  <2>1. g[0] = NothingRead /\ f[0] = <<>>
    BY <1>6, <1>12 DEF SectionRounds, StepsOf
  <2>2. SubSeq(sent, 1, 0) = <<>>
    BY SubSeqEmpty
  <2>3. 1 + Len(f[0]) = 1
    BY <2>1
  <2>4. (body <= 0) = FALSE
    BY <1>2
  <2> QED
    BY <2>1, <2>2, <2>3, <2>4 DEF NothingRead
<1>14. ASSUME NEW i \in Nat, i \in T PROVE i + 1 \in T
  <2> SUFFICES ASSUME i + 1 <= n PROVE g[i + 1] = After(i + 1)
    OBVIOUS
  <2>1. i + 1 \in 1..n /\ (i + 1) - 1 = i /\ i + 1 \in 1..l /\ i < n /\ i \in 0..n
    BY <1>1, <1>2, <1>11
  <2>2. g[i + 1] = ReadSection(c, end, g[i])
    BY <1>12, <2>1 DEF SectionRounds
  <2>3. g[i] = After(i)
    BY <1>2, <1>14, <2>1
  <2> DEFINE x == sent[i + 1]
             code == codes[i + 1]
             p == 1 + Len(f[i])
             q == 1 + Len(f[i + 1])
             s == After(i)
             done == SubSeq(sent, 1, i)
  <2>4. IsSection(x) /\ code = EncodeSection(x)
    BY <1>2, <1>4, <2>1
  <2>5. p \in Nat /\ Stands(c, end, p, code) /\ Len(f[i + 1]) = Len(f[i]) + Len(code)
    BY <1>10, <2>1 DEF PartsStand
  <2>6. /\ f[i] \in Seq(Int) /\ Len(f[i]) \in Nat /\ code \in Seq(Int) /\ Len(code) \in Nat
    <3>1. i + 1 \in 0..n /\ i + 1 > 0
      BY <2>1
    <3> QED
      BY <1>7, <2>1, <3>1, LenProperties DEF Sizes
  <2>7. p >= 1 /\ q = p + Len(code)
    <3> DEFINE y == Len(f[i])
               w == Len(code)
    <3>1. y \in Nat /\ w \in Nat /\ p = 1 + y /\ q = 1 + (y + w)
      BY <2>5, <2>6
    <3> HIDE DEF y, w, p, q
    <3>2. p >= 1 /\ q = p + w
      BY <3>1
    <3> QED
      BY <3>2 DEF w
  <2>8. s.ok /\ s.at = p /\ s.haveBody = (body <= i) /\ s.sections = done /\ g[i] = s
    BY <2>3
  <2>9. (x.kind = 0 <=> i + 1 = body) /\ x.kind \in {0, 1}
    BY <1>3, <2>1, <2>4 DEF IsSection, Coded, SectionForms
  <2>10. Append(done, x) = SubSeq(sent, 1, i + 1)
    BY <1>2, <2>1, OneMore
  <2>11. x = [kind |-> x.kind, id |-> x.id, docs |-> x.docs]
    BY <2>4 DEF IsSection, Coded, SectionForms
  <2>12. ((body <= i) \/ x.kind = 0) = (body <= i + 1)
    BY <1>2, <2>9
  <2> HIDE DEF x, code, p, q, s, done
  <2>13. SectionStands(c, end, p, x)
    BY <1>1, <2>4, <2>5, <2>7 DEF SectionStands
  <2>14. ReadSection(c, end, s) = Read(s, p + Len(EncodeSection(x)), x.kind, x.id, x.docs)
    <3>1. CASE x.kind = 0
      <4>1. ~s.haveBody
        <5>1. i + 1 = body
          BY <2>9, <3>1
        <5>2. ~(body <= i)
          BY <5>1
        <5> QED
          BY <2>8, <5>2
      <4> QED
        BY <2>8, <2>13, <3>1, <4>1, BodyIsFound
    <3>2. CASE x.kind = 1
      BY <2>8, <2>13, <3>2, SequenceIsFound
    <3> QED
      BY <2>9, <3>1, <3>2
  <2>15. g[i + 1] = Read(s, q, x.kind, x.id, x.docs)
    BY <2>2, <2>4, <2>7, <2>8, <2>14
  <2>16. g[i + 1] = [ok |-> TRUE, at |-> q, haveBody |-> body <= i + 1,
                     sections |-> SubSeq(sent, 1, i + 1)]
    BY <2>8, <2>10, <2>11, <2>12, <2>15 DEF Read
  <2> QED
    BY <2>16 DEF q
<1>15. Nat \subseteq T
  <2> HIDE DEF T
  <2> QED
    BY <1>13, <1>14, Induction
<1>16. g[n] = [ok |-> TRUE, at |-> end, haveBody |-> TRUE, sections |-> sent]
  <2>1. SubSeq(sent, 1, n) = sent
    BY <1>2, SubSeqFull
  <2>2. n \in T
    <3> HIDE DEF T
    <3> QED
      BY <1>2, <1>15
  <2>3. g[n] = After(n)
    BY <1>2, <2>2
  <2>4. (body <= n) = TRUE
    BY <1>2
  <2> QED
    BY <1>9, <2>1, <2>3, <2>4
<1> DEFINE U == {k \in Nat : n + k <= l => g[n + k] = g[n]}
<1>17. 0 \in U
  BY <1>2
<1>18. ASSUME NEW k \in Nat, k \in U PROVE k + 1 \in U
  <2> SUFFICES ASSUME n + (k + 1) <= l PROVE g[n + (k + 1)] = g[n]
    OBVIOUS
  <2>1. n + (k + 1) \in 1..l /\ (n + (k + 1)) - 1 = n + k /\ n + k <= l
    <3> HIDE DEF n, l
    <3> QED
      BY <1>1, <1>2
  <2>2. g[n + (k + 1)] = ReadSection(c, end, g[n + k])
    BY <1>12, <2>1 DEF SectionRounds
  <2>3. g[n + k] = g[n]
    BY <1>18, <2>1
  <2>4. g[n].at >= end
    BY <1>1, <1>16
  <2> QED
    BY <2>2, <2>3, <2>4 DEF ReadSection
<1>19. Nat \subseteq U
  <2> HIDE DEF U
  <2> QED
    BY <1>17, <1>18, Induction
<1>20. g[l] = g[n]
  <2>1. l - n \in Nat /\ n + (l - n) = l
    <3> HIDE DEF n, l
    <3> QED
      BY <1>1, <1>2, <1>11
  <2>2. n + (l - n) <= l => g[n + (l - n)] = g[n]
    BY <1>19, <2>1
  <2> QED
    BY <1>1, <2>1, <2>2
<1> QED
  BY <1>12, <1>16, <1>20

(* Each name leads to its documents.                                       *)
LEMMA NamesAreFound ==
  ASSUME NEW sent, IsRequest(sent), NEW i \in DOMAIN sent, sent[i].kind = 1
  PROVE  FieldOf(sent, sent[i].id) = sent[i].docs
<1> DEFINE named == {j \in FoldInSequences(sent) : sent[j].id = sent[i].id}
<1>1. named = {i}
  BY DEF IsRequest, FoldInSequences
<1>2. sent \in Seq(SectionForms)
  BY DEF IsRequest
<1>3. i \in Nat
  BY <1>2, LenProperties
<1>4. (CHOOSE k \in named : \A j \in named : k <= j) = i
  BY <1>1, <1>3
<1>5. named # {}
  BY <1>1
<1> QED
  BY <1>4, <1>5 DEF FieldOf

(* A message off the wire: any bytes, or a request as a driver encodes it. *)
Bytes == [flags : Nat, cells : Seq(Int), sent : {<<>>}]
Request(m) ==
  /\ m.flags \in Nat /\ Understood(m.flags) /\ IsRequest(m.sent)
  /\ m.cells = Encode(m.sent) \o IF HasChecksum(m.flags) THEN <<0>> ELSE <<>>
Received == message = NoMessage \/ message \in Bytes \/ Request(message)

LEMMA EncodeType ==
  ASSUME NEW sections \in Seq(Coded)
  PROVE  Encode(sections) \in Seq(Int)
<1> DEFINE x == [kind |-> 1, id |-> <<>>, docs |-> <<>>]
<1>1. x \in SectionForms /\ x.kind = 1
  BY DEF SectionForms
<1>2. x \in Coded
  BY <1>1 DEF Coded
<1> HIDE DEF x
<1> QED
  BY <1>2, EncodeAppend

(* A prefix stands at the start.                                           *)
LEMMA PrefixStands ==
  ASSUME NEW a \in Seq(Int), NEW b \in Seq(Int)
  PROVE  /\ a \o b \in Seq(Int) /\ Len(a \o b) = Len(a) + Len(b)
         /\ Stands(a \o b, 1 + Len(a), 1, a)
<1> DEFINE l == Len(a)
           m == Len(b)
           c == a \o b
<1>1. /\ l \in Nat /\ m \in Nat /\ c \in Seq(Int) /\ Len(c) = l + m
      /\ \A k \in 1..(l + m) : c[k] = IF k <= l THEN a[k] ELSE b[k - l]
  BY ConcatProperties, LenProperties
<1> HIDE DEF c, l, m
<1>2. \A k \in 1..l : k \in 1..(l + m) /\ k <= l /\ 1 + k - 1 = k
  BY <1>1
<1>3. \A k \in 1..l : c[1 + k - 1] = a[k]
  BY <1>1, <1>2
<1>4. 1 + l <= 1 + l
  BY <1>1
<1>5. Stands(c, 1 + l, 1, a)
  BY <1>3, <1>4 DEF Stands, l
<1> QED
  BY <1>1, <1>5 DEF c, l, m

LEMMA RequestIsRead ==
  ASSUME NEW m, Request(m)
  PROVE  /\ m.cells \in Seq(Int) /\ Parse(m) = [ok |-> TRUE, sections |-> m.sent]
<1> DEFINE code == Encode(m.sent)
           tail == IF HasChecksum(m.flags) THEN <<0>> ELSE <<>>
           c == m.cells
           end == Len(c) + 1 - (IF HasChecksum(m.flags) THEN 1 ELSE 0)
<1>1. m.flags \in Nat /\ Understood(m.flags) /\ IsRequest(m.sent) /\ c = code \o tail
  BY DEF Request
<1>2. code \in Seq(Int) /\ Len(code) \in Nat
  <2>1. m.sent \in Seq(Coded)
    BY <1>1, RequestSections
  <2> QED
    BY <2>1, EncodeType, LenProperties
<1>3. tail \in Seq(Int) /\ Len(tail) = (IF HasChecksum(m.flags) THEN 1 ELSE 0)
  OBVIOUS
<1> HIDE DEF tail, code
<1>4. c \in Seq(Int) /\ Len(c) = Len(code) + Len(tail) /\ Stands(c, 1 + Len(code), 1, code)
  BY <1>1, <1>2, <1>3, PrefixStands
<1>5. end = 1 + Len(code) /\ end \in Nat /\ end <= Len(c) + 1 /\ ~(end < 1)
  <2> DEFINE l == Len(code)
             t == Len(tail)
             z == Len(c)
  <2>1. l \in Nat /\ t \in {0, 1} /\ z = l + t /\ end = z + 1 - t
    BY <1>2, <1>3, <1>4
  <2> HIDE DEF end, l, t, z
  <2>2. end = 1 + l /\ end \in Nat /\ end <= z + 1 /\ ~(end < 1)
    BY <2>1
  <2> QED
    BY <2>2 DEF l, z
<1>6. RequestStands(c, end, m.sent)
  <2> HIDE DEF end
  <2> QED
    BY <1>1, <1>4, <1>5 DEF RequestStands, code
<1>7. Sections(c, end) = [ok |-> TRUE, at |-> end, haveBody |-> TRUE, sections |-> m.sent]
  <2> HIDE DEF end
  <2> QED
    BY <1>6, RequestIsFound
<1>8. Parse(m) = [ok |-> TRUE, sections |-> m.sent]
  <2> DEFINE s == Sections(c, end)
  <2>1. s.ok /\ s.haveBody /\ s.sections = m.sent
    <3> HIDE DEF end
    <3>1. s = [ok |-> TRUE, at |-> end, haveBody |-> TRUE, sections |-> m.sent]
      BY <1>7
    <3> HIDE DEF s
    <3> QED
      BY <3>1
  <2>2. Parse(m) = IF ~Understood(m.flags) \/ end < 1 \/ ~s.ok \/ ~s.haveBody THEN Malformed
                   ELSE [ok |-> TRUE, sections |-> s.sections]
    BY DEF Parse
  <2> HIDE DEF s, end
  <2> QED
    BY <1>1, <1>5, <2>1, <2>2
<1> QED
  BY <1>4, <1>8

(* parse_request, for cells of any value and messages and requests of any  *)
(* length: it accepts only encodings of a body and sequences and reads     *)
(* them as that, and what a driver encodes is accepted with every document *)
(* under its name.                                                         *)
THEOREM RequestsRead == WireSpec => []RequestsReadWhole
<1>1. WireInit => Received
  BY DEF WireInit, Received
<1>2. Received /\ [WireNext]_message => Received'
  <2> SUFFICES ASSUME Received, [WireNext]_message PROVE Received'
    OBVIOUS
  <2>1. CASE UNCHANGED message
    <3>1. Request(message) => Request(message')
      BY <2>1
    <3>2. message = NoMessage \/ message \in Bytes => message' = NoMessage \/ message' \in Bytes
      BY <2>1
    <3> QED
      BY <3>1, <3>2 DEF Received
  <2>2. ASSUME NEW flags \in Flags, NEW n \in 1..MaxLength, NEW cells \in [1..n -> Cells],
               ReceiveBytes(flags, cells)
        PROVE  Received'
    <3>1. Cells \subseteq Int /\ flags \in Nat /\ n \in Nat
      BY WireAssumption
    <3>2. cells \in [1..n -> Int]
      BY <3>1
    <3>3. cells \in Seq(Int)
      BY <3>1, <3>2, SeqDef
    <3>4. message' \in Bytes
      BY <2>2, <3>1, <3>3 DEF ReceiveBytes, Bytes
    <3> QED
      BY <3>4 DEF Received
  <2>3. ASSUME NEW flags \in {f \in Flags : Understood(f)}, NEW sections \in Sendable,
               ReceiveRequest(flags, sections)
        PROVE  Received'
    <3>1. flags \in Nat /\ Understood(flags) /\ IsRequest(sections)
      BY WireAssumption
    <3>2. message' = [flags |-> flags, sent |-> sections,
                      cells |-> Encode(sections) \o IF HasChecksum(flags) THEN <<0>> ELSE <<>>]
      BY <2>3 DEF ReceiveRequest
    <3>3. /\ message'.flags = flags /\ message'.sent = sections
          /\ message'.cells = Encode(sections) \o IF HasChecksum(flags) THEN <<0>> ELSE <<>>
      BY <3>2
    <3>4. Request(message')
      BY <3>1, <3>3 DEF Request
    <3> QED
      BY <3>4 DEF Received
  <2> QED
    BY <2>1, <2>2, <2>3 DEF WireNext
<1>3. Received => RequestsReadWhole
  <2> SUFFICES ASSUME Received PROVE RequestsReadWhole
    OBVIOUS
  <2>1. CASE message = NoMessage
    <3>1. message.sent = <<>>
      BY <2>1 DEF NoMessage
    <3> QED
      BY <2>1, <3>1 DEF RequestsReadWhole, AcceptsOnlyEncodings, NoDocumentLost
  <2>2. CASE message \in Bytes
    <3>1. message.flags \in Nat /\ message.cells \in Seq(Int) /\ message.sent = <<>>
      BY <2>2 DEF Bytes
    <3>2. Parse(message).ok => Encode(Parse(message).sections) = Trimmed(message)
      BY <3>1, OnlyEncodings
    <3> QED
      BY <3>1, <3>2 DEF RequestsReadWhole, AcceptsOnlyEncodings, NoDocumentLost
  <2>3. CASE Request(message)
    <3>1. message.cells \in Seq(Int) /\ Parse(message) = [ok |-> TRUE, sections |-> message.sent]
      BY <2>3, RequestIsRead
    <3>2. message.flags \in Nat /\ IsRequest(message.sent)
      BY <2>3 DEF Request
    <3>3. Parse(message).ok => Encode(Parse(message).sections) = Trimmed(message)
      BY <3>1, <3>2, OnlyEncodings
    <3>4. \A i \in DOMAIN message.sent : message.sent[i].kind = 1 =>
            FieldOf(message.sent, message.sent[i].id) = message.sent[i].docs
      BY <3>2, NamesAreFound
    <3>5. Parse(message).ok /\ Parse(message).sections = message.sent
      BY <3>1
    <3>6. AcceptsOnlyEncodings
      BY <3>3 DEF AcceptsOnlyEncodings
    <3>7. NoDocumentLost
      BY <3>4, <3>5 DEF NoDocumentLost
    <3> QED
      BY <3>6, <3>7 DEF RequestsReadWhole
  <2> QED
    BY <2>1, <2>2, <2>3 DEF Received
<1> QED
  BY <1>1, <1>2, <1>3, PTL DEF WireSpec

----------------------------------------------------------------------------
(* Filters                                                                 *)

(* A filter is well founded: a node joins nodes before it.                 *)
LEMMA FilterForm ==
  ASSUME NEW f, IsFilter(f)
  PROVE  /\ Len(f) \in Nat \ {0} /\ DOMAIN f = 1..Len(f)
         /\ \A i \in 1..Len(f) : f[i].subs \subseteq 1..(i - 1)
<1>1. f \in Seq({f[i] : i \in DOMAIN f}) /\ f # <<>>
  BY DEF IsFilter
<1>2. Len(f) \in Nat \ {0} /\ DOMAIN f = 1..Len(f)
  BY <1>1
<1>3. ASSUME NEW i \in 1..Len(f) PROVE f[i].subs \subseteq 1..(i - 1)
  <2>1. IsNode(f[i], 1..(i - 1))
    BY <1>2 DEF IsFilter
  <2> QED
    BY <2>1 DEF IsNode
<1> QED
  BY <1>2, <1>3

(* The clauses of a filter's first n nodes, and MongoDB's answers to them. *)
Clauses(s, c, f, n) ==
  s = [i \in 1..n |-> SqlNode(Held(c, f[i]), f[i], {s[j] : j \in f[i].subs})]
Verdicts(s, c, f, n) ==
  s = [i \in 1..n |-> MongoNode(Held(c, f[i]), f[i], {s[j] : j \in f[i].subs})]

LEMMA ClausesExist ==
  ASSUME NEW c, NEW f, IsFilter(f), NEW n \in 0..Len(f)
  PROVE  \E s : Clauses(s, c, f, n)
<1> DEFINE T == {m \in Nat : m <= Len(f) => \E s : Clauses(s, c, f, m)}
<1>1. 0 \in T
  <2>1. Clauses([i \in 1..0 |-> "N"], c, f, 0)
    BY DEF Clauses
  <2> QED
    BY <2>1
<1>2. ASSUME NEW m \in Nat, m \in T PROVE m + 1 \in T
  <2> SUFFICES ASSUME m + 1 <= Len(f) PROVE \E s : Clauses(s, c, f, m + 1)
    OBVIOUS
  <2>1. m <= Len(f) /\ m + 1 \in 1..Len(f)
    BY FilterForm
  <2>2. PICK s : Clauses(s, c, f, m)
    BY <1>2, <2>1
  <2> DEFINE new == SqlNode(Held(c, f[m + 1]), f[m + 1], {s[j] : j \in f[m + 1].subs})
             longer == [i \in 1..(m + 1) |-> IF i = m + 1 THEN new ELSE s[i]]
  <2>3. \A i \in 1..(m + 1) : f[i].subs \subseteq 1..(i - 1)
    BY <2>1, FilterForm
  <2>4. \A i \in 1..(m + 1) : {longer[j] : j \in f[i].subs} = {s[j] : j \in f[i].subs}
    <3> SUFFICES ASSUME NEW i \in 1..(m + 1) PROVE {longer[j] : j \in f[i].subs} = {s[j] : j \in f[i].subs}
      OBVIOUS
    <3>1. \A j \in f[i].subs : j \in 1..m
      BY <2>3
    <3>2. \A j \in f[i].subs : longer[j] = s[j]
      BY <3>1
    <3> HIDE DEF longer
    <3> QED
      BY <3>2
  <2>5. \A i \in 1..m : s[i] = SqlNode(Held(c, f[i]), f[i], {s[j] : j \in f[i].subs})
    BY <2>2 DEF Clauses
  <2>6. \A i \in 1..(m + 1) :
          longer[i] = SqlNode(Held(c, f[i]), f[i], {s[j] : j \in f[i].subs})
    <3>1. longer[m + 1] = new
      OBVIOUS
    <3>2. \A i \in 1..m : longer[i] = s[i]
      OBVIOUS
    <3>3. \A i \in 1..(m + 1) : i = m + 1 \/ i \in 1..m
      OBVIOUS
    <3> HIDE DEF longer
    <3> QED
      BY <2>5, <3>1, <3>2, <3>3, Zenon
  <2>7. \A i \in 1..(m + 1) :
          longer[i] = SqlNode(Held(c, f[i]), f[i], {longer[j] : j \in f[i].subs})
    <3> HIDE DEF longer
    <3> QED
      BY <2>4, <2>6, Zenon
  <2>8. Clauses(longer, c, f, m + 1)
    <3>1. longer = [i \in 1..(m + 1) |-> longer[i]]
      OBVIOUS
    <3> HIDE DEF longer
    <3> QED
      BY <2>7, <3>1, Zenon DEF Clauses
  <2> QED
    BY <2>8
<1> HIDE DEF T
<1>3. Nat \subseteq T
  BY <1>1, <1>2, Induction
<1>4. n \in Nat /\ n <= Len(f)
  BY FilterForm
<1> QED
  BY <1>3, <1>4 DEF T

ClausesLead(s, c, f) ==
  /\ Sql(c, f) = s[Len(f)]
  /\ \A i \in 1..Len(f) : s[i] = SqlNode(Held(c, f[i]), f[i], {s[j] : j \in f[i].subs})

LEMMA ClausesOf ==
  ASSUME NEW c, NEW f, IsFilter(f)
  PROVE  \E s : ClausesLead(s, c, f)
<1> DEFINE s == CHOOSE s : s = [i \in DOMAIN f |->
                                  SqlNode(Held(c, f[i]), f[i], {s[j] : j \in f[i].subs})]
<1>1. DOMAIN f = 1..Len(f) /\ Len(f) \in 0..Len(f)
  BY FilterForm
<1>2. s = CHOOSE t : Clauses(t, c, f, Len(f))
  BY <1>1, Zenon DEF Clauses
<1>3. Sql(c, f) = s[Len(f)]
  BY DEF Sql
<1> HIDE DEF s
<1>4. Clauses(s, c, f, Len(f))
  BY <1>1, <1>2, ClausesExist, Zenon
<1>5. \A i \in 1..Len(f) : s[i] = SqlNode(Held(c, f[i]), f[i], {s[j] : j \in f[i].subs})
  BY <1>4 DEF Clauses
<1> QED
  BY <1>3, <1>5, Zenon DEF ClausesLead
LEMMA VerdictsExist ==
  ASSUME NEW c, NEW f, IsFilter(f), NEW n \in 0..Len(f)
  PROVE  \E s : Verdicts(s, c, f, n)
<1> DEFINE T == {m \in Nat : m <= Len(f) => \E s : Verdicts(s, c, f, m)}
<1>1. 0 \in T
  <2>1. Verdicts([i \in 1..0 |-> TRUE], c, f, 0)
    BY DEF Verdicts
  <2> QED
    BY <2>1
<1>2. ASSUME NEW m \in Nat, m \in T PROVE m + 1 \in T
  <2> SUFFICES ASSUME m + 1 <= Len(f) PROVE \E s : Verdicts(s, c, f, m + 1)
    OBVIOUS
  <2>1. m <= Len(f) /\ m + 1 \in 1..Len(f)
    BY FilterForm
  <2>2. PICK s : Verdicts(s, c, f, m)
    BY <1>2, <2>1
  <2> DEFINE new == MongoNode(Held(c, f[m + 1]), f[m + 1], {s[j] : j \in f[m + 1].subs})
             longer == [i \in 1..(m + 1) |-> IF i = m + 1 THEN new ELSE s[i]]
  <2>3. \A i \in 1..(m + 1) : f[i].subs \subseteq 1..(i - 1)
    BY <2>1, FilterForm
  <2>4. \A i \in 1..(m + 1) : {longer[j] : j \in f[i].subs} = {s[j] : j \in f[i].subs}
    <3> SUFFICES ASSUME NEW i \in 1..(m + 1) PROVE {longer[j] : j \in f[i].subs} = {s[j] : j \in f[i].subs}
      OBVIOUS
    <3>1. \A j \in f[i].subs : j \in 1..m
      BY <2>3
    <3>2. \A j \in f[i].subs : longer[j] = s[j]
      BY <3>1
    <3> HIDE DEF longer
    <3> QED
      BY <3>2
  <2>5. \A i \in 1..m : s[i] = MongoNode(Held(c, f[i]), f[i], {s[j] : j \in f[i].subs})
    BY <2>2 DEF Verdicts
  <2>6. \A i \in 1..(m + 1) :
          longer[i] = MongoNode(Held(c, f[i]), f[i], {s[j] : j \in f[i].subs})
    <3>1. longer[m + 1] = new
      OBVIOUS
    <3>2. \A i \in 1..m : longer[i] = s[i]
      OBVIOUS
    <3>3. \A i \in 1..(m + 1) : i = m + 1 \/ i \in 1..m
      OBVIOUS
    <3> HIDE DEF longer
    <3> QED
      BY <2>5, <3>1, <3>2, <3>3, Zenon
  <2>7. \A i \in 1..(m + 1) :
          longer[i] = MongoNode(Held(c, f[i]), f[i], {longer[j] : j \in f[i].subs})
    <3> HIDE DEF longer
    <3> QED
      BY <2>4, <2>6, Zenon
  <2>8. Verdicts(longer, c, f, m + 1)
    <3>1. longer = [i \in 1..(m + 1) |-> longer[i]]
      OBVIOUS
    <3> HIDE DEF longer
    <3> QED
      BY <2>7, <3>1, Zenon DEF Verdicts
  <2> QED
    BY <2>8
<1> HIDE DEF T
<1>3. Nat \subseteq T
  BY <1>1, <1>2, Induction
<1>4. n \in Nat /\ n <= Len(f)
  BY FilterForm
<1> QED
  BY <1>3, <1>4 DEF T

VerdictsLead(s, c, f) ==
  /\ Mongo(c, f) = s[Len(f)]
  /\ \A i \in 1..Len(f) : s[i] = MongoNode(Held(c, f[i]), f[i], {s[j] : j \in f[i].subs})

LEMMA VerdictsOf ==
  ASSUME NEW c, NEW f, IsFilter(f)
  PROVE  \E s : VerdictsLead(s, c, f)
<1> DEFINE s == CHOOSE s : s = [i \in DOMAIN f |->
                                  MongoNode(Held(c, f[i]), f[i], {s[j] : j \in f[i].subs})]
<1>1. DOMAIN f = 1..Len(f) /\ Len(f) \in 0..Len(f)
  BY FilterForm
<1>2. s = CHOOSE t : Verdicts(t, c, f, Len(f))
  BY <1>1, Zenon DEF Verdicts
<1>3. Mongo(c, f) = s[Len(f)]
  BY DEF Mongo
<1> HIDE DEF s
<1>4. Verdicts(s, c, f, Len(f))
  BY <1>1, <1>2, VerdictsExist, Zenon
<1>5. \A i \in 1..Len(f) : s[i] = MongoNode(Held(c, f[i]), f[i], {s[j] : j \in f[i].subs})
  BY <1>4 DEF Verdicts
<1> QED
  BY <1>3, <1>5, Zenon DEF VerdictsLead

----------------------------------------------------------------------------

(* Where nothing is negated, the clause selects what MongoDB does; under a *)
(* negation it must also be false, and not NULL, for the rest.             *)
Answers(x, y, negates) ==
  /\ x \in {"T", "F", "N"} /\ y \in BOOLEAN
  /\ IF negates THEN x = Truth(y) ELSE x = "T" <=> y

LEMMA ExactAnswers ==
  ASSUME NEW b \in BOOLEAN
  PROVE  Answers(Truth(b), b, TRUE) /\ Answers(Truth(b), b, FALSE) /\ Not3(Truth(b)) = Truth(~b)
BY DEF Answers, Truth, Not3

LEMMA AnswersFrom ==
  ASSUME NEW x \in {"T", "F", "N"}, NEW y \in BOOLEAN, NEW negates \in BOOLEAN,
         negates => x = Truth(y), ~negates => (x = "T" <=> y)
  PROVE  Answers(x, y, negates)
BY DEF Answers

(* All of what is joined, and some of it.                                  *)
LEMMA AllAndSome ==
  ASSUME NEW J, NEW m, \A j \in J : m[j] \in BOOLEAN
  PROVE  /\ FALSE \in {m[j] : j \in J} <=> ~(\A j \in J : m[j])
         /\ TRUE \in {m[j] : j \in J} <=> \E j \in J : m[j]
<1>1. \A j \in J : (m[j] <=> m[j] = TRUE) /\ (~m[j] <=> m[j] = FALSE)
  OBVIOUS
<1> QED
  BY <1>1, Zenon

JoinExactly(J, s, m) ==
  /\ And3({s[j] : j \in J}) = Truth(\A j \in J : m[j])
  /\ Or3({s[j] : j \in J}) = Truth(\E j \in J : m[j])

LEMMA ExactJoins ==
  ASSUME NEW J, NEW s, NEW m, \A j \in J : s[j] = Truth(m[j])
  PROVE  JoinExactly(J, s, m)
<1> DEFINE S == {s[j] : j \in J}
<1>1. "F" \in S <=> ~(\A j \in J : m[j])
  BY DEF Truth
<1>2. "T" \in S <=> \E j \in J : m[j]
  BY DEF Truth
<1>3. "N" \notin S
  BY DEF Truth
<1> HIDE DEF S
<1>4. And3(S) = Truth(\A j \in J : m[j])
  BY <1>1, <1>3 DEF And3, Truth
<1>5. Or3(S) = Truth(\E j \in J : m[j])
  BY <1>2, <1>3 DEF Or3, Truth
<1> QED
  BY <1>4, <1>5 DEF S, JoinExactly

JoinSelecting(J, s, m) ==
  /\ And3({s[j] : j \in J}) = "T" <=> \A j \in J : m[j]
  /\ Or3({s[j] : j \in J}) = "T" <=> \E j \in J : m[j]

LEMMA SelectingJoins ==
  ASSUME NEW J, NEW s, NEW m,
         \A j \in J : s[j] \in {"T", "F", "N"} /\ ((s[j] = "T") <=> m[j])
  PROVE  JoinSelecting(J, s, m)
<1> DEFINE S == {s[j] : j \in J}
<1>1. S \subseteq {"T"} <=> \A j \in J : m[j]
  OBVIOUS
<1>2. "T" \in S <=> \E j \in J : m[j]
  OBVIOUS
<1>3. S \subseteq {"T", "F", "N"}
  OBVIOUS
<1> HIDE DEF S
<1>4. (And3(S) = "T") <=> S \subseteq {"T"}
  BY <1>3 DEF And3
<1>5. (Or3(S) = "T") <=> "T" \in S
  BY <1>3 DEF Or3
<1> QED
  BY <1>1, <1>2, <1>4, <1>5 DEF S, JoinSelecting

LEMMA JoinType ==
  ASSUME NEW S
  PROVE  And3(S) \in {"T", "F", "N"} /\ Or3(S) \in {"T", "F", "N"}
BY DEF And3, Or3

JoinAnswers(v, node, s, m, negates) ==
  Answers(SqlNode(v, node, {s[j] : j \in node.subs}),
          MongoNode(v, node, {m[j] : j \in node.subs}), negates)

LEMMA ConnectiveAnswers ==
  ASSUME NEW v, NEW node, node.op \in Connectives,
         NEW s, NEW m, NEW negates \in BOOLEAN,
         node.op \in {"$nor", "$not"} => negates,
         \A j \in node.subs : Answers(s[j], m[j], negates)
  PROVE  JoinAnswers(v, node, s, m, negates)
<1> DEFINE J == node.subs
           S == {s[j] : j \in J}
           M == {m[j] : j \in J}
           all == \A j \in J : m[j]
           some == \E j \in J : m[j]
<1> SUFFICES Answers(SqlNode(v, node, S), MongoNode(v, node, M), negates)
  BY DEF JoinAnswers
<1>1. \A j \in J : s[j] \in {"T", "F", "N"} /\ m[j] \in BOOLEAN
  BY DEF Answers
<1>2. (FALSE \in M <=> ~all) /\ (TRUE \in M <=> some)
  BY <1>1, AllAndSome, Zenon
<1>3. negates => And3(S) = Truth(all) /\ Or3(S) = Truth(some)
  <2>1. SUFFICES ASSUME negates PROVE And3(S) = Truth(all) /\ Or3(S) = Truth(some)
    OBVIOUS
  <2>2. \A j \in J : s[j] = Truth(m[j])
    BY <2>1 DEF Answers
  <2>3. JoinExactly(J, s, m)
    BY <2>2, ExactJoins
  <2> QED
    BY <2>3 DEF JoinExactly
<1>4. ~negates => (And3(S) = "T" <=> all) /\ (Or3(S) = "T" <=> some)
  <2>1. SUFFICES ASSUME ~negates PROVE (And3(S) = "T" <=> all) /\ (Or3(S) = "T" <=> some)
    OBVIOUS
  <2>2. \A j \in J : s[j] \in {"T", "F", "N"} /\ ((s[j] = "T") <=> m[j])
    BY <1>1, <2>1 DEF Answers
  <2>3. JoinSelecting(J, s, m)
    BY <2>2, SelectingJoins
  <2> QED
    BY <2>3 DEF JoinSelecting
<1>5. And3(S) \in {"T", "F", "N"} /\ Or3(S) \in {"T", "F", "N"}
  BY JoinType
<1> HIDE DEF S, M, all, some
<1>6. all \in BOOLEAN /\ some \in BOOLEAN /\ (~all) \in BOOLEAN /\ (~some) \in BOOLEAN
  <2>1. all \in BOOLEAN
    BY DEF all
  <2>2. some \in BOOLEAN
    BY DEF some
  <2> QED
    BY <2>1, <2>2
<1>7. CASE node.op = "$and"
  <2>1. SqlNode(v, node, S) = And3(S) /\ MongoNode(v, node, M) = (FALSE \notin M)
    BY <1>7 DEF SqlNode, MongoNode, Relations
  <2>2. MongoNode(v, node, M) \in BOOLEAN /\ (MongoNode(v, node, M) <=> all)
    BY <1>2, <2>1, Zenon
  <2>3. negates => SqlNode(v, node, S) = Truth(MongoNode(v, node, M))
    BY <1>3, <2>1, <2>2 DEF Truth
  <2>4. ~negates => (SqlNode(v, node, S) = "T" <=> MongoNode(v, node, M))
    BY <1>4, <2>1, <2>2
  <2> QED
    BY <1>5, <2>1, <2>2, <2>3, <2>4, AnswersFrom
<1>8. CASE node.op = "$or"
  <2>1. SqlNode(v, node, S) = Or3(S) /\ MongoNode(v, node, M) = (TRUE \in M)
    BY <1>8 DEF SqlNode, MongoNode, Relations
  <2>2. MongoNode(v, node, M) \in BOOLEAN /\ (MongoNode(v, node, M) <=> some)
    <3>1. MongoNode(v, node, M) \in BOOLEAN
      BY <2>1
    <3>2. MongoNode(v, node, M) <=> some
      BY <1>2, <2>1, Zenon
    <3> QED
      BY <3>1, <3>2, Zenon
  <2>3. negates => SqlNode(v, node, S) = Truth(MongoNode(v, node, M))
    BY <1>3, <2>1, <2>2 DEF Truth
  <2>4. ~negates => (SqlNode(v, node, S) = "T" <=> MongoNode(v, node, M))
    BY <1>4, <2>1, <2>2
  <2> QED
    BY <1>5, <2>1, <2>2, <2>3, <2>4, AnswersFrom
<1>9. CASE node.op = "$nor"
  <2>1. SqlNode(v, node, S) = Not3(Or3(S)) /\ MongoNode(v, node, M) = (TRUE \notin M)
    BY <1>9 DEF SqlNode, MongoNode, Relations
  <2>2. MongoNode(v, node, M) \in BOOLEAN /\ (MongoNode(v, node, M) <=> ~some)
    BY <1>2, <2>1, Zenon
  <2>3. negates = TRUE /\ Not3(Or3(S)) = Truth(~some)
    BY <1>3, <1>6, <1>9, ExactAnswers
  <2>4. SqlNode(v, node, S) = Truth(MongoNode(v, node, M))
    BY <2>1, <2>2, <2>3 DEF Truth
  <2> QED
    BY <2>2, <2>3, <2>4, ExactAnswers
<1>10. CASE node.op = "$not"
  <2>1. SqlNode(v, node, S) = Not3(And3(S)) /\ MongoNode(v, node, M) = (FALSE \in M)
    BY <1>10 DEF SqlNode, MongoNode, Relations
  <2>2. MongoNode(v, node, M) \in BOOLEAN /\ (MongoNode(v, node, M) <=> ~all)
    <3>1. MongoNode(v, node, M) \in BOOLEAN
      BY <2>1
    <3>2. MongoNode(v, node, M) <=> ~all
      BY <1>2, <2>1, Zenon
    <3> QED
      BY <3>1, <3>2, Zenon
  <2>3. negates = TRUE /\ Not3(And3(S)) = Truth(~all)
    BY <1>3, <1>6, <1>10, ExactAnswers
  <2>4. SqlNode(v, node, S) = Truth(MongoNode(v, node, M))
    BY <2>1, <2>2, <2>3 DEF Truth
  <2> QED
    BY <2>2, <2>3, <2>4, ExactAnswers
<1> QED
  BY <1>7, <1>8, <1>9, <1>10 DEF Connectives

----------------------------------------------------------------------------
(* Leaves                                                                  *)

(* Scalars of one kind are compared by what they hold.                     *)
Plain == [t : {"int", "long", "double", "string"}, n : Int, f : {<<>>}]

LEMMA PlainValues ==
  ASSUME NEW x \in Plain, NEW y \in Plain, Bracket(x) = Bracket(y)
  PROVE  /\ ~IsSqlNull(x) /\ x # Null /\ x # Missing /\ Candidates(x) = {x}
         /\ Comparable(x, y) = x.n
         /\ ValueEqual(x, y) <=> x.n = y.n
         /\ x = y => x.n = y.n
<1>1. x.t \in {"int", "long", "double", "string"} /\ x.n \in Int /\ x.f = <<>>
  BY DEF Plain
<1>2. y.t \in {"int", "long", "double", "string"} /\ y.n \in Int /\ y.f = <<>>
  BY DEF Plain
<1>3. IsNumeric(x) <=> IsNumeric(y)
  BY <1>1, <1>2 DEF Bracket, IsNumeric
<1>4. ~IsNumeric(x) => (x = y <=> x.n = y.n)
  BY <1>1, <1>2, <1>3 DEF IsNumeric, Plain
<1>5. ValueEqual(x, y) <=> x.n = y.n
  BY <1>1, <1>3, <1>4 DEF ValueEqual, IsNumeric
<1>6. Comparable(x, y) = x.n
  BY <1>1, <1>3 DEF Comparable, IsNumeric
<1>7. ~IsSqlNull(x) /\ x # Null /\ x # Missing /\ Candidates(x) = {x}
  BY <1>1 DEF IsSqlNull, IsContainer, Null, Missing, Scalar, Candidates
<1> QED
  BY <1>5, <1>6, <1>7

LEMMA PlainEq ==
  ASSUME NEW v \in Plain, NEW arg \in Bound, arg = Null \/ Bracket(arg) = Bracket(v)
  PROVE  /\ SqlEq(v, arg) = Truth(MongoEq(v, arg)) /\ MongoEq(v, arg) \in BOOLEAN
         /\ arg # Null => SqlCompare("$eq", v, arg) = Truth(MongoEq(v, arg))
         /\ arg = Null => SqlCompare("$eq", v, arg) = "N" /\ ~MongoEq(v, arg)
<1>1. CASE arg = Null
  <2>1. ~IsSqlNull(v) /\ v # Null /\ v # Missing /\ Candidates(v) = {v}
    BY PlainValues
  <2>2. ~MongoEq(v, arg)
    BY <1>1, <2>1 DEF MongoEq, ValueEqual, IsNumeric, Null, Scalar
  <2> QED
    BY <1>1, <2>1, <2>2 DEF SqlEq, SqlCompare, Truth, MongoEq
<1>2. CASE arg # Null
  <2>1. arg \in Plain
    BY <1>2 DEF Bound, Plain
  <2>2. /\ ~IsSqlNull(v) /\ Candidates(v) = {v} /\ Comparable(v, arg) = v.n
        /\ ValueEqual(v, arg) <=> v.n = arg.n
        /\ v = arg => v.n = arg.n
    BY <1>2, <2>1, PlainValues
  <2>3. SqlCompare("$eq", v, arg) = Truth(v.n = arg.n)
    BY <1>2, <2>2 DEF SqlCompare, Relation
  <2>4. MongoEq(v, arg) <=> v.n = arg.n
    BY <1>2, <2>2, Zenon DEF MongoEq
  <2>5. JsonContains(v, arg) = Truth(v = arg)
    BY DEF JsonContains, Plain
  <2>6. SqlEq(v, arg) = Truth(v.n = arg.n)
    BY <1>2, <2>2, <2>3, <2>5 DEF SqlEq, Or3, Truth
  <2> QED
    BY <1>2, <2>3, <2>4, <2>6 DEF Truth, MongoEq
<1> QED
  BY <1>1, <1>2

LEMMA OperandsAre ==
  ASSUME NEW node
  PROVE  /\ node.op \in Lists => Operands(node) = {node.arg.f[i].v : i \in DOMAIN node.arg.f}
         /\ node.op \in {"$eq", "$ne"} \cup Relations => Operands(node) = {node.arg}
BY DEF Operands, Lists, Relations

LEMMA ListClause ==
  ASSUME NEW v, NEW arg
  PROVE  SqlIn(v, Elements(arg)) = Or3({SqlCompare("$eq", v, arg.f[i].v) : i \in DOMAIN arg.f})
BY DEF SqlIn, Elements

(* $exists never is NULL.                                                  *)
LEMMA ExistsAnswers ==
  ASSUME NEW v, NEW node, IsLeaf(node), node.op = "$exists", node.arg.t = "bool",
         NEW S, NEW M, NEW negates \in BOOLEAN
  PROVE  Answers(SqlNode(v, node, S), MongoNode(v, node, M), negates)
<1>1. node.arg \in [t : {"bool"}, n : {0, 1}, f : {<<>>}]
  BY DEF IsLeaf, Bound, Null, Scalar, Lists, Relations
<1>2. Wanted(node.arg) = IsTrue(node.arg)
  BY <1>1 DEF Wanted, IsTrue, Null, Scalar
<1>3. SqlNode(v, node, S) = Truth((v # Missing) = Wanted(node.arg))
  BY DEF SqlNode, Relations
<1>4. MongoNode(v, node, M) = ((v # Missing) = IsTrue(node.arg))
  BY DEF MongoNode, Relations, Lists
<1>5. ((v # Missing) = IsTrue(node.arg)) \in BOOLEAN
  OBVIOUS
<1> QED
  BY <1>2, <1>3, <1>4, <1>5, ExactAnswers

(* Where the field holds no scalar, a scalar is compared in vain.          *)
ComparedInVain(v, arg) ==
  /\ \A op : SqlCompare(op, v, arg) = "N"
  /\ SqlEq(v, arg) \in {"N", "F"} /\ ~MongoEq(v, arg)
  /\ Candidates(v) = {v} /\ Bracket(v) # Bracket(arg)

LEMMA NoScalar ==
  ASSUME NEW v, v.t \in {"missing", "null", "document"}, NEW arg \in Plain
  PROVE  ComparedInVain(v, arg)
<1>1. arg.t \in {"int", "long", "double", "string"} /\ arg # Null
  BY DEF Plain, Null, Scalar
<1>2. \A op : SqlCompare(op, v, arg) = "N"
  BY DEF SqlCompare, IsSqlNull, IsContainer
<1>3. v # arg /\ ~IsNumeric(v)
  BY <1>1 DEF IsNumeric
<1>4. JsonContains(v, arg) \in {"N", "F"}
  BY <1>3 DEF JsonContains, Truth
<1>5. SqlEq(v, arg) \in {"N", "F"}
  BY <1>1, <1>2, <1>4 DEF SqlEq, Or3
<1>6. Candidates(v) = {v}
  BY DEF Candidates
<1>7. ~MongoEq(v, arg)
  BY <1>1, <1>3, <1>6 DEF MongoEq, ValueEqual
<1>8. Bracket(v) # Bracket(arg)
  BY <1>1 DEF Bracket, IsNumeric
<1> QED
  BY <1>2, <1>5, <1>6, <1>7, <1>8 DEF ComparedInVain

LEMMA NoScalarAnswers ==
  ASSUME NEW v, v.t \in {"missing", "null", "document"},
         NEW node, node.op \in {"$eq", "$in"} \cup Relations, Operands(node) \subseteq Plain,
         NEW S, NEW M, NEW negates \in BOOLEAN, ~negates
  PROVE  Answers(SqlNode(v, node, S), MongoNode(v, node, M), negates)
<1> SUFFICES /\ SqlNode(v, node, S) \in {"N", "F"}
             /\ MongoNode(v, node, M) \in BOOLEAN /\ ~MongoNode(v, node, M)
  BY DEF Answers
<1>1. CASE node.op = "$eq"
  <2>1. node.arg \in Plain
    BY <1>1, OperandsAre
  <2>2. ComparedInVain(v, node.arg)
    BY <2>1, NoScalar
  <2>3. SqlNode(v, node, S) = SqlEq(v, node.arg)
    BY <1>1 DEF SqlNode, Relations
  <2>4. MongoNode(v, node, M) \in BOOLEAN /\ (MongoNode(v, node, M) <=> MongoEq(v, node.arg))
    BY <1>1 DEF MongoNode, MongoEq, Relations
  <2> QED
    BY <2>2, <2>3, <2>4 DEF ComparedInVain
<1>2. CASE node.op = "$in"
  <2>1. \A i \in DOMAIN node.arg.f : node.arg.f[i].v \in Plain
    BY <1>2, OperandsAre DEF Lists
  <2>2. \A i \in DOMAIN node.arg.f : ComparedInVain(v, node.arg.f[i].v)
    BY <2>1, NoScalar
  <2>3. SqlNode(v, node, S) = SqlIn(v, Elements(node.arg))
    BY <1>2 DEF SqlNode, Relations
  <2>4. MongoNode(v, node, M) = \E i \in DOMAIN node.arg.f : MongoEq(v, node.arg.f[i].v)
    BY <1>2 DEF MongoNode, Relations
  <2>5. "T" \notin {SqlCompare("$eq", v, node.arg.f[i].v) : i \in DOMAIN node.arg.f}
    BY <2>2 DEF ComparedInVain
  <2>6. SqlNode(v, node, S) \in {"N", "F"}
    BY <2>3, <2>5, ListClause DEF Or3
  <2>7. ~\E i \in DOMAIN node.arg.f : MongoEq(v, node.arg.f[i].v)
    BY <2>2 DEF ComparedInVain
  <2> QED
    BY <2>4, <2>6, <2>7
<1>3. CASE node.op \in Relations
  <2>1. node.arg \in Plain
    BY <1>3, OperandsAre
  <2>2. ComparedInVain(v, node.arg)
    BY <2>1, NoScalar
  <2>3. SqlNode(v, node, S) = SqlCompare(node.op, v, node.arg)
    BY <1>3 DEF SqlNode, Relations
  <2>4. node.arg # Null
    BY <2>1 DEF Plain, Null, Scalar
  <2>5. MongoNode(v, node, M) = \E c \in Candidates(v) :
          Bracket(c) = Bracket(node.arg) /\ Relation(node.op, c.n, node.arg.n)
    BY <1>3, <2>4 DEF MongoNode, Relations
  <2>6. ~\E c \in Candidates(v) :
          Bracket(c) = Bracket(node.arg) /\ Relation(node.op, c.n, node.arg.n)
    BY <2>2 DEF ComparedInVain
  <2> QED
    BY <2>2, <2>3, <2>5, <2>6 DEF ComparedInVain
<1> QED
  BY <1>1, <1>2, <1>3

(* Where it holds nothing, $eq null finds it.                              *)
LEMMA NothingIsNull ==
  ASSUME NEW v \in {Null, Missing}, NEW node, node.op = "$eq", node.arg = Null,
         NEW S, NEW M, NEW negates \in BOOLEAN, ~negates
  PROVE  Answers(SqlNode(v, node, S), MongoNode(v, node, M), negates)
<1>1. SqlNode(v, node, S) = "T"
  <2>1. SqlNode(v, node, S) = SqlEq(v, Null)
    BY DEF SqlNode, Relations
  <2>2. IsSqlNull(v)
    BY DEF IsSqlNull, Null, Missing, Scalar
  <2> QED
    BY <2>1, <2>2 DEF SqlEq, Truth
<1>2. MongoNode(v, node, M) \in BOOLEAN /\ (MongoNode(v, node, M) <=> MongoEq(v, Null))
  BY DEF MongoNode, MongoEq, Relations
<1>3. MongoEq(v, Null)
  BY DEF MongoEq, ValueEqual, Candidates, Null, Missing, Scalar, IsNumeric
<1> QED
  BY <1>1, <1>2, <1>3 DEF Answers

(* An array is searched by $eq for a value of its elements' type.          *)
LEMMA ArrayAnswers ==
  ASSUME NEW v, v.t = "array", v.f \in Seq({v.f[i] : i \in DOMAIN v.f}),
         \A i \in DOMAIN v.f : v.f[i].v \in Bound \/ IsContainer(v.f[i].v),
         NEW node, node.op = "$eq", node.arg \in Bound,
         node.arg = Null => v.f # <<>>, \A i \in DOMAIN v.f : node.arg.t = v.f[i].v.t,
         NEW S, NEW M, NEW negates \in BOOLEAN, ~negates
  PROVE  Answers(SqlNode(v, node, S), MongoNode(v, node, M), negates)
<1> DEFINE arg == node.arg
           some == \E i \in DOMAIN v.f : v.f[i].v = arg
<1>1. arg.t \in {"int", "long", "double", "string", "null"}
  BY DEF Bound, Null, Scalar
<1>2. \A i \in DOMAIN v.f : v.f[i].v \in Bound
  BY <1>1 DEF IsContainer
<1>3. \A i \in DOMAIN v.f : ValueEqual(v.f[i].v, arg) <=> v.f[i].v = arg
  <2> SUFFICES ASSUME NEW x \in Bound, x.t = arg.t PROVE ValueEqual(x, arg) <=> x = arg
    BY <1>2
  <2>1. IsNumeric(x) => (x.n = arg.n <=> x = arg)
    BY DEF IsNumeric, Bound, Null, Scalar
  <2> QED
    BY <1>1, <2>1 DEF ValueEqual, IsNumeric
<1>4. ~ValueEqual(v, arg) /\ v # Missing
  BY <1>1 DEF ValueEqual, IsNumeric, Missing, Scalar
<1>5. Candidates(v) = {v} \cup {v.f[i].v : i \in DOMAIN v.f}
  BY DEF Candidates
<1>6. MongoEq(v, arg) <=> some
  BY <1>3, <1>4, <1>5 DEF MongoEq
<1>7. SqlEq(v, arg) \in {"T", "F", "N"} /\ (SqlEq(v, arg) = "T" <=> some)
  <2>1. CASE arg = Null
    <3>1. SqlEq(v, arg) = "T"
      BY <2>1 DEF SqlEq, Truth, IsSqlNull, IsContainer
    <3>2. 1 \in DOMAIN v.f
      <4>1. Len(v.f) \in Nat /\ DOMAIN v.f = 1..Len(v.f) /\ v.f # <<>>
        BY <2>1
      <4> QED
        BY <4>1
    <3>3. v.f[1].v = Null
      BY <1>2, <2>1, <3>2 DEF Bound, Null, Scalar
    <3> QED
      BY <2>1, <3>1, <3>2, <3>3
  <2>2. CASE arg # Null
    <3>1. SqlCompare("$eq", v, arg) = "N"
      BY DEF SqlCompare, IsSqlNull, IsContainer
    <3>2. JsonContains(v, arg) = Truth(some)
      BY DEF JsonContains
    <3> QED
      BY <2>2, <3>1, <3>2 DEF SqlEq, Or3, Truth
  <2> QED
    BY <2>1, <2>2
<1>8. SqlNode(v, node, S) = SqlEq(v, arg)
  BY DEF SqlNode, Relations
<1>9. MongoNode(v, node, M) \in BOOLEAN /\ (MongoNode(v, node, M) <=> MongoEq(v, arg))
  BY DEF MongoNode, MongoEq, Relations
<1> QED
  BY <1>6, <1>7, <1>8, <1>9 DEF Answers

LEMMA ExactIs ==
  ASSUME NEW x, NEW y \in BOOLEAN, x = Truth(y), NEW negates \in BOOLEAN
  PROVE  Answers(x, y, negates)
BY DEF Answers, Truth

(* A scalar is compared with scalars of its kind, or in a list or by its   *)
(* order with null, which is NULL where MongoDB says no.                   *)
LEMMA PlainEqAnswers ==
  ASSUME NEW v \in Plain, NEW node, node.op \in {"$eq", "$ne"}, node.arg \in Bound,
         node.arg = Null \/ Bracket(node.arg) = Bracket(v),
         NEW S, NEW M, NEW negates \in BOOLEAN
  PROVE  Answers(SqlNode(v, node, S), MongoNode(v, node, M), negates)
<1> DEFINE equal == MongoEq(v, node.arg)
<1>1. SqlEq(v, node.arg) = Truth(equal) /\ equal \in BOOLEAN
  BY PlainEq
<1>2. CASE node.op = "$eq"
  <2>1. SqlNode(v, node, S) = SqlEq(v, node.arg)
    BY <1>2 DEF SqlNode, Relations
  <2>2. MongoNode(v, node, M) \in BOOLEAN /\ (MongoNode(v, node, M) <=> equal)
    BY <1>2 DEF MongoNode, MongoEq, Relations
  <2>3. SqlNode(v, node, S) = Truth(MongoNode(v, node, M))
    BY <1>1, <2>1, <2>2 DEF Truth
  <2> QED
    BY <2>2, <2>3, ExactIs
<1>3. CASE node.op = "$ne"
  <2>1. SqlNode(v, node, S) = Not3(SqlEq(v, node.arg))
    BY <1>3 DEF SqlNode, Relations
  <2>2. MongoNode(v, node, M) \in BOOLEAN /\ (MongoNode(v, node, M) <=> ~equal)
    BY <1>3 DEF MongoNode, MongoEq, Relations
  <2>3. SqlNode(v, node, S) = Truth(MongoNode(v, node, M))
    BY <1>1, <2>1, <2>2 DEF Truth, Not3
  <2> QED
    BY <2>2, <2>3, ExactIs
<1> QED
  BY <1>2, <1>3

LEMMA PlainRelationAnswers ==
  ASSUME NEW v \in Plain, NEW node, node.op \in Relations, node.arg \in Bound,
         node.arg = Null \/ Bracket(node.arg) = Bracket(v),
         NEW S, NEW M, NEW negates \in BOOLEAN, negates => node.arg # Null
  PROVE  Answers(SqlNode(v, node, S), MongoNode(v, node, M), negates)
<1> DEFINE arg == node.arg
<1>1. SqlNode(v, node, S) = SqlCompare(node.op, v, arg)
  BY DEF SqlNode, Relations
<1>2. ~IsSqlNull(v) /\ v # Missing /\ Candidates(v) = {v}
  BY PlainValues
<1>3. /\ MongoNode(v, node, M) \in BOOLEAN
      /\ MongoNode(v, node, M) <=> Bracket(v) = Bracket(arg) /\ Relation(node.op, v.n, arg.n)
  BY <1>2 DEF MongoNode, Relations
<1>4. CASE arg = Null
  <2>1. Bracket(v) # Bracket(arg)
    BY <1>4 DEF Bracket, IsNumeric, Null, Scalar, Plain
  <2>2. SqlNode(v, node, S) = "N"
    BY <1>1, <1>4 DEF SqlCompare
  <2> QED
    BY <1>3, <1>4, <2>1, <2>2 DEF Answers
<1>5. CASE arg # Null
  <2>1. arg \in Plain /\ Bracket(arg) = Bracket(v)
    BY <1>5 DEF Bound, Plain
  <2>2. Comparable(v, arg) = v.n
    BY <2>1, PlainValues
  <2>3. SqlNode(v, node, S) = Truth(Relation(node.op, v.n, arg.n))
    BY <1>1, <1>2, <1>5, <2>2 DEF SqlCompare
  <2>4. Truth(Relation(node.op, v.n, arg.n)) = Truth(MongoNode(v, node, M))
    BY <1>3, <2>1 DEF Truth
  <2> QED
    BY <1>3, <2>3, <2>4, ExactIs
<1> QED
  BY <1>4, <1>5

LEMMA PlainListAnswers ==
  ASSUME NEW v \in Plain, NEW node, node.op \in Lists,
         \A i \in DOMAIN node.arg.f :
           /\ node.arg.f[i].v \in Bound
           /\ node.arg.f[i].v = Null \/ Bracket(node.arg.f[i].v) = Bracket(v),
         NEW S, NEW M, NEW negates \in BOOLEAN,
         negates => \A i \in DOMAIN node.arg.f : node.arg.f[i].v # Null,
         node.op = "$nin" => negates
  PROVE  Answers(SqlNode(v, node, S), MongoNode(v, node, M), negates)
<1> DEFINE J == DOMAIN node.arg.f
           s == [i \in J |-> SqlCompare("$eq", v, node.arg.f[i].v)]
           m == [i \in J |-> MongoEq(v, node.arg.f[i].v)]
           some == \E i \in J : m[i]
<1>1. \A i \in J : m[i] \in BOOLEAN /\ (IF node.arg.f[i].v = Null THEN s[i] = "N" /\ ~m[i]
                                        ELSE s[i] = Truth(m[i]))
  <2> SUFFICES ASSUME NEW i \in J
               PROVE  /\ m[i] \in BOOLEAN
                      /\ IF node.arg.f[i].v = Null THEN s[i] = "N" /\ ~m[i]
                         ELSE s[i] = Truth(m[i])
    OBVIOUS
  <2> DEFINE x == node.arg.f[i].v
  <2>1. x \in Bound /\ (x = Null \/ Bracket(x) = Bracket(v))
    OBVIOUS
  <2>2. s[i] = SqlCompare("$eq", v, x) /\ m[i] = MongoEq(v, x)
    OBVIOUS
  <2> HIDE DEF s, m, x
  <2>3. /\ MongoEq(v, x) \in BOOLEAN
        /\ x # Null => SqlCompare("$eq", v, x) = Truth(MongoEq(v, x))
        /\ x = Null => SqlCompare("$eq", v, x) = "N" /\ ~MongoEq(v, x)
    BY <2>1, PlainEq
  <2> QED
    BY <2>2, <2>3 DEF x
<1>2. SqlIn(v, Elements(node.arg)) = Or3({s[i] : i \in J})
  <2>1. {s[i] : i \in J} = {SqlCompare("$eq", v, node.arg.f[i].v) : i \in DOMAIN node.arg.f}
    OBVIOUS
  <2>2. SqlIn(v, Elements(node.arg)) =
          Or3({SqlCompare("$eq", v, node.arg.f[i].v) : i \in DOMAIN node.arg.f})
    BY ListClause, Zenon
  <2> QED
    BY <2>1, <2>2, Zenon
<1>3. /\ some <=> \E i \in DOMAIN node.arg.f : MongoEq(v, node.arg.f[i].v)
      /\ some <=> ~\A i \in DOMAIN node.arg.f : ~MongoEq(v, node.arg.f[i].v)
  OBVIOUS
<1>4. /\ node.op = "$in" => SqlNode(v, node, S) = SqlIn(v, Elements(node.arg))
      /\ node.op = "$nin" => SqlNode(v, node, S) = Not3(SqlIn(v, Elements(node.arg)))
  BY DEF SqlNode, Relations
<1>5. /\ MongoNode(v, node, M) \in BOOLEAN
      /\ node.op = "$in" => (MongoNode(v, node, M) <=> some)
      /\ node.op = "$nin" => (MongoNode(v, node, M) <=> ~some)
  <2>1. CASE node.op = "$in"
    BY <1>3, <2>1 DEF MongoNode, Relations
  <2>2. CASE node.op = "$nin"
    BY <1>3, <2>2 DEF MongoNode, Relations
  <2> QED
    BY <2>1, <2>2 DEF Lists
<1> HIDE DEF s, m
<1>6. CASE negates
  <2>1. \A i \in J : s[i] = Truth(m[i])
    BY <1>1, <1>6
  <2>2. JoinExactly(J, s, m)
    BY <2>1, ExactJoins
  <2>3. Or3({s[i] : i \in J}) = Truth(some)
    BY <2>2 DEF JoinExactly
  <2> HIDE DEF some
  <2>4. SqlNode(v, node, S) = Truth(MongoNode(v, node, M))
    BY <1>2, <1>4, <1>5, <2>3 DEF Lists, Truth, Not3
  <2> QED
    BY <1>5, <2>4, ExactIs
<1>7. CASE ~negates
  <2>1. \A i \in J : s[i] \in {"T", "F", "N"} /\ ((s[i] = "T") <=> m[i])
    BY <1>1 DEF Truth
  <2>2. Or3({s[i] : i \in J}) = "T" <=> some
    <3>1. JoinSelecting(J, s, m)
      BY <2>1, SelectingJoins
    <3> QED
      BY <3>1 DEF JoinSelecting
  <2>3. Or3({s[i] : i \in J}) \in {"T", "F", "N"}
    BY JoinType
  <2>4. node.op = "$in"
    BY <1>7 DEF Lists
  <2> HIDE DEF some
  <2> QED
    BY <1>2, <1>4, <1>5, <1>7, <2>2, <2>3, <2>4 DEF Answers
<1> QED
  BY <1>6, <1>7

(* Each trusted leaf.                                                      *)
LEMMA LeafAnswers ==
  ASSUME NEW v, IsContent(v), NEW node, IsLeaf(node), NEW negates \in BOOLEAN,
         TrustedLeaf(v, node, negates), node.op \in {"$ne", "$nin"} => negates,
         NEW S, NEW M
  PROVE  Answers(SqlNode(v, node, S), MongoNode(v, node, M), negates)
<1> DEFINE goal == Answers(SqlNode(v, node, S), MongoNode(v, node, M), negates)
<1>1. CASE node.op = "$exists"
  <2>1. node.arg.t = "bool"
    BY <1>1 DEF TrustedLeaf
  <2> QED
    BY <1>1, <2>1, ExistsAnswers
<1>2. CASE node.op # "$exists"
  <2>1. node.op \in {"$eq", "$ne"} \cup Relations \cup Lists /\ Operands(node) \subseteq Bound
    BY <1>2, OperandsAre DEF IsLeaf
  <2>2. v.t \in {"missing", "null", "document", "array"} \/ v \in Plain
    BY DEF IsContent, IsContainer, Bound, Plain, Null, Missing, Scalar
  <2>3. Bound = Plain \cup {Null}
    BY DEF Bound, Plain
  <2>4. CASE v.t \in {"missing", "null"}
    <3>1. v \in {Null, Missing}
      BY <2>4 DEF IsContent, IsContainer, Bound, Null, Missing, Scalar
    <3>2. ~negates /\ ~ComparesNull(node)
      BY <1>2, <2>4 DEF TrustedLeaf, TrustedValue
    <3>3. node.op \in {"$eq", "$in"} \cup Relations
      BY <2>1, <3>2 DEF Lists
    <3>4. CASE Null \notin Operands(node)
      BY <2>1, <2>3, <2>4, <3>2, <3>3, <3>4, NoScalarAnswers
    <3>5. CASE Null \in Operands(node)
      <4>1. node.op = "$eq"
        BY <3>2, <3>3, <3>5 DEF ComparesNull, Lists
      <4>2. node.arg = Null
        BY <3>5, <4>1, OperandsAre
      <4> QED
        BY <3>1, <3>2, <4>1, <4>2, NothingIsNull
    <3> QED
      BY <3>4, <3>5
  <2>5. CASE v.t = "document"
    <3>1. ~negates /\ Null \notin Operands(node)
      BY <1>2, <2>5 DEF TrustedLeaf, TrustedValue
    <3>2. node.op \in {"$eq", "$in"} \cup Relations
      BY <2>1, <3>1 DEF Lists
    <3> QED
      BY <2>1, <2>3, <2>5, <3>1, <3>2, NoScalarAnswers
  <2>6. CASE v.t = "array"
    <3>1. /\ ~negates /\ node.op = "$eq" /\ (node.arg = Null => v.f # <<>>)
          /\ \A i \in DOMAIN v.f : node.arg.t = v.f[i].v.t
      BY <1>2, <2>6 DEF TrustedLeaf, TrustedValue
    <3>2. /\ v.f \in Seq({v.f[i] : i \in DOMAIN v.f})
          /\ \A i \in DOMAIN v.f : v.f[i].v \in Bound \/ IsContainer(v.f[i].v)
      BY <2>6 DEF IsContent, Bound, Null, Missing, Scalar
    <3>3. node.arg \in Bound
      BY <2>1, <3>1, OperandsAre
    <3> QED
      BY <2>6, <3>1, <3>2, <3>3, ArrayAnswers
  <2>7. CASE v \in Plain
    <3>1. /\ negates => ~ComparesNull(node)
          /\ \A x \in Operands(node) : x = Null \/ Bracket(x) = Bracket(v)
      BY <1>2, <2>7 DEF TrustedLeaf, TrustedValue, Plain
    <3>2. CASE node.op \in {"$eq", "$ne"}
      <4>1. node.arg \in Operands(node)
        BY <3>2, OperandsAre
      <4> QED
        BY <2>1, <2>7, <3>1, <3>2, <4>1, PlainEqAnswers
    <3>3. CASE node.op \in Relations
      <4>1. Operands(node) = {node.arg}
        BY <3>3, OperandsAre
      <4>2. negates => node.arg # Null
        BY <3>1, <3>3, <4>1 DEF ComparesNull
      <4> QED
        BY <2>1, <2>7, <3>1, <3>3, <4>1, <4>2, PlainRelationAnswers
    <3>4. CASE node.op \in Lists
      <4>1. Operands(node) = {node.arg.f[i].v : i \in DOMAIN node.arg.f}
        BY <3>4, OperandsAre
      <4>2. negates => \A i \in DOMAIN node.arg.f : node.arg.f[i].v # Null
        BY <3>1, <3>4, <4>1 DEF ComparesNull
      <4> QED
        BY <2>1, <2>7, <3>1, <3>4, <4>1, <4>2, PlainListAnswers
    <3> QED
      BY <2>1, <3>2, <3>3, <3>4
  <2> QED
    BY <2>2, <2>4, <2>5, <2>6, <2>7
<1> QED
  BY <1>1, <1>2

----------------------------------------------------------------------------

LEMMA LeavesAre ==
  ASSUME NEW f, IsFilter(f), NEW i \in 1..Len(f), f[i].op \notin Connectives
  PROVE  f[i] \in Leaves(f) /\ IsLeaf(f[i]) /\ f[i].key \in Names(f)
<1>1. i \in DOMAIN f
  BY FilterForm
<1>2. IsNode(f[i], 1..(i - 1))
  BY <1>1 DEF IsFilter
<1>3. IsLeaf(f[i])
  BY <1>2 DEF IsNode
<1>4. f[i] \in Leaves(f)
  BY <1>1 DEF Leaves
<1> QED
  BY <1>3, <1>4 DEF Names

(* Node by node, what is joined before what joins it.                      *)
LEMMA FilterAnswers ==
  ASSUME NEW c, NEW f, IsFilter(f), \A key \in Names(f) : IsContent(c[key]), Trusted(c, f)
  PROVE  Answers(Sql(c, f), Mongo(c, f), Negates(f))
<1> DEFINE negates == Negates(f)
<1>1. negates \in BOOLEAN
  BY DEF Negates
<1>2. PICK s : ClausesLead(s, c, f)
  BY ClausesOf
<1>3. PICK m : VerdictsLead(m, c, f)
  BY VerdictsOf
<1>4. /\ Len(f) \in Nat \ {0} /\ DOMAIN f = 1..Len(f)
      /\ \A i \in 1..Len(f) : f[i].subs \subseteq 1..(i - 1)
  BY FilterForm
<1>5. ASSUME NEW i \in 1..Len(f), \A j \in 1..(i - 1) : Answers(s[j], m[j], negates)
      PROVE  Answers(s[i], m[i], negates)
  <2> DEFINE node == f[i]
             v == Held(c, node)
             S == {s[j] : j \in node.subs}
             M == {m[j] : j \in node.subs}
  <2>1. s[i] = SqlNode(v, node, S) /\ m[i] = MongoNode(v, node, M)
    BY <1>2, <1>3 DEF ClausesLead, VerdictsLead
  <2>2. node.op \in {"$ne", "$nin", "$not", "$nor"} => negates
    BY <1>4 DEF Negates
  <2>3. CASE node.op \in Connectives
    <3>1. \A j \in node.subs : Answers(s[j], m[j], negates)
      BY <1>4, <1>5
    <3> HIDE DEF v, node, negates
    <3>2. JoinAnswers(v, node, s, m, negates)
      BY <1>1, <2>2, <2>3, <3>1, ConnectiveAnswers
    <3> QED
      BY <2>1, <3>2 DEF JoinAnswers
  <2>4. CASE node.op \notin Connectives
    <3>1. node \in Leaves(f) /\ IsLeaf(node) /\ node.key \in Names(f)
      BY <2>4, LeavesAre
    <3>2. v = c[node.key]
      BY <2>4 DEF Held
    <3>3. IsContent(v) /\ TrustedLeaf(v, node, negates)
      BY <3>1, <3>2 DEF Trusted
    <3> HIDE DEF v, node, negates, S, M
    <3>4. Answers(SqlNode(v, node, S), MongoNode(v, node, M), negates)
      BY <1>1, <2>2, <3>1, <3>3, LeafAnswers
    <3> QED
      BY <2>1, <3>4
  <2> QED
    BY <2>3, <2>4
<1>6. \A i \in 1..Len(f) : Answers(s[i], m[i], negates)
  <2> DEFINE wrong == {i \in 1..Len(f) : ~Answers(s[i], m[i], negates)}
  <2> SUFFICES ASSUME wrong # {} PROVE FALSE
    OBVIOUS
  <2>1. PICK i \in wrong : \A x \in wrong : i <= x
    BY LeastNatural, wrong \subseteq Nat
  <2>2. \A j \in 1..(i - 1) : j \in 1..Len(f) /\ j \notin wrong
    BY <1>4, <2>1
  <2>3. Answers(s[i], m[i], negates)
    BY <1>5, <2>1, <2>2
  <2> QED
    BY <2>1, <2>3
<1>7. Len(f) \in 1..Len(f)
  BY <1>4
<1> QED
  BY <1>2, <1>3, <1>6, <1>7 DEF ClausesLead, VerdictsLead

(* A filter that is asked about is one of Filters, on one of Contents.     *)
FilterAsked ==
  query = NoQuery \/ \E c \in Contents, f \in Filters : query = [area |-> "filter", c |-> c, f |-> f]

(* For filters of any nesting and fields of any contents: within Trusted,  *)
(* the WHERE clause of compile_filter is true of exactly the documents     *)
(* MongoDB would answer with; elsewhere it is false or NULL (filter.cpp).  *)
THEOREM FiltersAgree == WhereSpec => []FilterAgrees
<1>1. WhereInit => FilterAsked
  BY DEF WhereInit, FilterAsked
<1>2. FilterAsked /\ [WhereNext]_query => FilterAsked'
  BY DEF FilterAsked, WhereNext, AskFilter
<1>3. FilterAsked => FilterAgrees
  <2> SUFFICES ASSUME FilterAsked, query.area = "filter", Trusted(query.c, query.f)
               PROVE  (Sql(query.c, query.f) = "T") = Mongo(query.c, query.f)
    BY DEF FilterAgrees
  <2>1. query.c \in Contents /\ query.f \in Filters
    BY DEF FilterAsked, NoQuery
  <2>2. IsFilter(query.f) /\ \A key \in Names(query.f) : IsContent(query.c[key])
    BY <2>1, WhereAssumption
  <2>3. Answers(Sql(query.c, query.f), Mongo(query.c, query.f), Negates(query.f))
    BY <2>2, FilterAnswers
  <2> QED
    BY <2>3 DEF Answers, Truth
<1> QED
  BY <1>1, <1>2, <1>3, PTL DEF WhereSpec

----------------------------------------------------------------------------
(* Updates: the _id of a document                                          *)

(* The first field named _id holds v; and there is none of that name.      *)
IdIs(s, v) ==
  \E p \in DOMAIN s : /\ s[p].k = "_id" /\ s[p].v = v
                      /\ \A q \in DOMAIN s : s[q].k = "_id" => p <= q
NoId(s) == \A p \in DOMAIN s : s[p].k # "_id"

LEMMA SequenceForm ==
  ASSUME NEW s
  PROVE  /\ IsSequence(s) => /\ Len(s) \in Nat /\ DOMAIN s = 1..Len(s)
                             /\ s = [i \in 1..Len(s) |-> s[i]]
         /\ \A n \in Nat : DOMAIN s = 1..n /\ s = [i \in 1..n |-> s[i]] => IsSequence(s) /\ Len(s) = n
<1>1. ASSUME IsSequence(s)
      PROVE  Len(s) \in Nat /\ DOMAIN s = 1..Len(s) /\ s = [i \in 1..Len(s) |-> s[i]]
  <2>1. s \in Seq({s[i] : i \in DOMAIN s})
    BY <1>1 DEF IsSequence
  <2> QED
    BY <2>1
<1>2. ASSUME NEW n \in Nat, DOMAIN s = 1..n, s = [i \in 1..n |-> s[i]]
      PROVE  IsSequence(s) /\ Len(s) = n
  <2> DEFINE V == {s[i] : i \in DOMAIN s}
  <2>1. s \in [1..n -> V]
    BY <1>2
  <2>2. s \in Seq(V)
    BY <2>1, SeqDef
  <2>3. Len(s) = n
    BY <1>2, <2>2
  <2> QED
    BY <2>2, <2>3 DEF IsSequence
<1> QED
  BY <1>1, <1>2, Zenon

(* A document has an _id or it has none.                                   *)
LEMMA IdOrNone ==
  ASSUME NEW s, IsSequence(s)
  PROVE  NoId(s) \/ \E v : IdIs(s, v)
<1> DEFINE S == {p \in DOMAIN s : s[p].k = "_id"}
<1>1. DOMAIN s = 1..Len(s) /\ Len(s) \in Nat
  BY SequenceForm
<1>2. CASE S = {}
  BY <1>2 DEF NoId
<1>3. CASE S # {}
  <2>1. S \subseteq Nat
    BY <1>1
  <2>2. PICK p \in S : \A q \in S : p <= q
    BY <1>3, <2>1, LeastNatural
  <2>3. IdIs(s, s[p].v)
    BY <2>2 DEF IdIs
  <2> QED
    BY <2>3
<1> QED
  BY <1>2, <1>3

(* path_get finds it.                                                      *)
LEMMA IdIsRead ==
  ASSUME NEW s, IsSequence(s)
  PROVE  PathGet(s, Id) = Child(Document(s), "_id")
<1> DEFINE at == CHOOSE f : f = [i \in 0..Len(Id) |->
                                   IF i = 0 THEN Document(s) ELSE Child(f[i - 1], Id[i])]
           g == [i \in 0..1 |-> IF i = 0 THEN Document(s) ELSE Child(Document(s), "_id")]
           Steps(f) == f = [i \in 0..1 |-> IF i = 0 THEN Document(s) ELSE Child(f[i - 1], Id[i])]
<1>1. Len(Id) = 1 /\ Id[1] = "_id"
  BY DEF Id
<1>2. PathGet(s, Id) = at[1]
  BY <1>1 DEF PathGet
<1>3. at = CHOOSE f : Steps(f)
  BY <1>1
<1>4. Steps(g)
  <2>1. \A i \in 0..1 : i = 0 \/ i = 1
    OBVIOUS
  <2>2. g[0] = Document(s) /\ g[1] = Child(Document(s), "_id") /\ 1 - 1 = 0
    OBVIOUS
  <2>3. g = [i \in 0..1 |-> g[i]]
    OBVIOUS
  <2> HIDE DEF g
  <2>4. \A i \in 0..1 : g[i] = IF i = 0 THEN Document(s) ELSE Child(g[i - 1], Id[i])
    BY <1>1, <2>1, <2>2
  <2> QED
    BY <2>3, <2>4
<1> HIDE DEF at, g
<1>5. Steps(at)
  <2> HIDE DEF Steps
  <2> QED
    BY <1>3, <1>4, Zenon
<1>6. at[0] = Document(s) /\ at[1] = Child(at[0], Id[1])
  BY <1>5
<1> QED
  BY <1>1, <1>2, <1>6

LEMMA IdFound ==
  ASSUME NEW s, IsSequence(s)
  PROVE  /\ \A v : IdIs(s, v) => PathGet(s, Id) = v
         /\ NoId(s) => PathGet(s, Id) = Missing
<1> DEFINE at == Positions(s, "_id")
<1>1. DOMAIN s = 1..Len(s) /\ Len(s) \in Nat
  BY SequenceForm
<1>2. IsContainer(Document(s)) /\ Document(s).f = s
  BY DEF IsContainer, Document
<1>3. Child(Document(s), "_id") = IF at # {} THEN s[First(at)].v ELSE Missing
  BY <1>2 DEF Child
<1>4. ASSUME NEW v, IdIs(s, v) PROVE PathGet(s, Id) = v
  <2>1. PICK p \in DOMAIN s : /\ s[p].k = "_id" /\ s[p].v = v
                              /\ \A q \in DOMAIN s : s[q].k = "_id" => p <= q
    BY <1>4 DEF IdIs
  <2>2. p \in at /\ at \subseteq Int /\ \A q \in at : p <= q
    BY <1>1, <2>1 DEF Positions
  <2>3. First(at) = p
    <3> HIDE DEF at
    <3>1. \A i \in at : (\A j \in at : i <= j) => i = p
      BY <2>2
    <3> QED
      BY <2>2, <3>1 DEF First
  <2> QED
    BY <1>3, <2>1, <2>2, <2>3, IdIsRead
<1>5. ASSUME NoId(s) PROVE PathGet(s, Id) = Missing
  <2>1. at = {}
    BY <1>5 DEF NoId, Positions
  <2> QED
    BY <1>3, <2>1, IdIsRead
<1> QED
  BY <1>4, <1>5, Zenon

(* What path_get reads, if it reads anything, is the _id.                  *)
LEMMA IdThere ==
  ASSUME NEW s, IsSequence(s), PathGet(s, Id) # Missing
  PROVE  IdIs(s, PathGet(s, Id))
<1>1. ~NoId(s)
  BY IdFound
<1>2. PICK v : IdIs(s, v)
  BY <1>1, IdOrNone
<1> QED
  BY <1>2, IdFound, Zenon

----------------------------------------------------------------------------
(* What writes along other paths leave of it                               *)

(* An appended field after the _id, or one that is none.                   *)
LEMMA AppendKeepsId ==
  ASSUME NEW s, IsSequence(s), NEW x
  PROVE  /\ IsSequence(Append(s, x))
         /\ \A v : IdIs(s, v) => IdIs(Append(s, x), v)
         /\ NoId(s) /\ x.k # "_id" => NoId(Append(s, x))
         /\ NoId(s) /\ x.k = "_id" => IdIs(Append(s, x), x.v)
<1> DEFINE n == Len(s)
           t == Append(s, x)
<1>1. n \in Nat /\ DOMAIN s = 1..n /\ s = [i \in 1..n |-> s[i]]
  BY SequenceForm
<1>2. t \in Seq({s[i] : i \in DOMAIN s} \cup {x}) /\ Len(t) = n + 1
      /\ t[n + 1] = x /\ \A i \in 1..n : t[i] = s[i]
  <2> DEFINE V == {s[i] : i \in DOMAIN s} \cup {x}
  <2>1. s \in [1..n -> V] /\ x \in V
    BY <1>1
  <2>2. s \in Seq(V)
    BY <1>1, <2>1, SeqDef
  <2> HIDE DEF V
  <2> QED
    BY <2>1, <2>2, AppendProperties
<1> HIDE DEF t
<1>3. DOMAIN t = 1..(n + 1) /\ n + 1 \in Nat /\ t[n + 1] = x /\ \A i \in 1..n : t[i] = s[i]
  BY <1>1, <1>2
<1>4. IsSequence(t)
  <2>1. t = [i \in 1..(n + 1) |-> t[i]]
    BY <1>2, <1>3
  <2> QED
    BY <1>3, <2>1, SequenceForm
<1>5. ASSUME NEW v, IdIs(s, v) PROVE IdIs(t, v)
  <2>1. PICK p \in DOMAIN s : /\ s[p].k = "_id" /\ s[p].v = v
                              /\ \A q \in DOMAIN s : s[q].k = "_id" => p <= q
    BY <1>5 DEF IdIs
  <2>2. p \in DOMAIN t /\ t[p].k = "_id" /\ t[p].v = v
    BY <1>1, <1>3, <2>1
  <2>3. \A q \in DOMAIN t : t[q].k = "_id" => p <= q
    BY <1>1, <1>3, <2>1
  <2> QED
    BY <2>2, <2>3 DEF IdIs
<1>6. ASSUME NoId(s), x.k # "_id" PROVE NoId(t)
  BY <1>1, <1>3, <1>6 DEF NoId
<1>7. ASSUME NoId(s), x.k = "_id" PROVE IdIs(t, x.v)
  BY <1>1, <1>3, <1>7 DEF NoId, IdIs
<1> QED
  BY <1>4, <1>5, <1>6, <1>7 DEF t

LEMMA SetFieldKeepsId ==
  ASSUME NEW s, IsSequence(s), NEW key, NEW x
  PROVE  /\ IsSequence(SetField(s, key, x))
         /\ key # "_id" => \A v : IdIs(s, v) => IdIs(SetField(s, key, x), v)
<1> DEFINE new == Field(key, x)
           n == Len(s)
<1>1. n \in Nat /\ DOMAIN s = 1..n /\ s = [i \in 1..n |-> s[i]]
  BY SequenceForm
<1>2. new.k = key
  BY DEF Field
<1>3. CASE Positions(s, key) = {}
  <2>1. SetField(s, key, x) = Append(s, new)
    BY <1>3 DEF SetField
  <2> HIDE DEF new
  <2> QED
    BY <2>1, AppendKeepsId
<1>4. CASE Positions(s, key) # {}
  <2> DEFINE t == [i \in DOMAIN s |-> IF s[i].k = key THEN new ELSE s[i]]
  <2>1. SetField(s, key, x) = t
    BY <1>4 DEF SetField
  <2>2. DOMAIN t = 1..n /\ t = [i \in 1..n |-> t[i]]
    BY <1>1
  <2>3. IsSequence(t)
    <3> HIDE DEF t
    <3> QED
      BY <1>1, <2>2, SequenceForm
  <2>4. \A i \in DOMAIN s : (s[i].k # key => t[i] = s[i]) /\ (s[i].k = key => t[i].k = key)
    BY <1>2
  <2> HIDE DEF t
  <2>5. ASSUME NEW v, IdIs(s, v), key # "_id" PROVE IdIs(t, v)
    <3>1. PICK p \in DOMAIN s : /\ s[p].k = "_id" /\ s[p].v = v
                                /\ \A q \in DOMAIN s : s[q].k = "_id" => p <= q
      BY <2>5 DEF IdIs
    <3>2. p \in DOMAIN t /\ t[p].k = "_id" /\ t[p].v = v
      BY <1>1, <2>2, <2>4, <2>5, <3>1
    <3>3. \A q \in DOMAIN t : t[q].k = "_id" => p <= q
      BY <1>1, <2>2, <2>4, <2>5, <3>1
    <3> QED
      BY <3>2, <3>3 DEF IdIs
  <2> QED
    BY <2>1, <2>3, <2>5
<1> QED
  BY <1>3, <1>4

LEMMA PathSetKeepsId ==
  ASSUME NEW s, IsSequence(s), NEW path, NEW x
  PROVE  /\ IsSequence(PathSet(s, path, x))
         /\ path[1] # "_id" => \A v : IdIs(s, v) => IdIs(PathSet(s, path, x), v)
<1>1. \E y : PathSet(s, path, x) = SetField(s, path[1], y)
  BY Zenon DEF PathSet
<1> QED
  BY <1>1, SetFieldKeepsId, Zenon

(* Removing the fields of a name, one by one.                              *)
Kept(kept, s, key, n) ==
  kept = [i \in 0..n |-> IF i = 0 THEN <<>>
                         ELSE IF s[i].k = key THEN kept[i - 1] ELSE Append(kept[i - 1], s[i])]

LEMMA KeptExist ==
  ASSUME NEW s, NEW key, NEW n \in Nat
  PROVE  \E kept : Kept(kept, s, key, n)
<1> DEFINE T == {m \in Nat : \E kept : Kept(kept, s, key, m)}
<1>1. 0 \in T
  <2>1. Kept([i \in 0..0 |-> <<>>], s, key, 0)
    BY DEF Kept
  <2> QED
    BY <2>1
<1>2. ASSUME NEW m \in Nat, m \in T PROVE m + 1 \in T
  <2>1. PICK kept : Kept(kept, s, key, m)
    BY <1>2
  <2> DEFINE new == IF s[m + 1].k = key THEN kept[m] ELSE Append(kept[m], s[m + 1])
             longer == [i \in 0..(m + 1) |-> IF i = m + 1 THEN new ELSE kept[i]]
  <2>2. longer[m + 1] = new /\ longer = [i \in 0..(m + 1) |-> longer[i]]
    OBVIOUS
  <2>3. \A i \in 0..m : longer[i] = kept[i]
    OBVIOUS
  <2> HIDE DEF longer
  <2>4. \A i \in 0..(m + 1) :
          longer[i] = IF i = 0 THEN <<>>
                      ELSE IF s[i].k = key THEN longer[i - 1] ELSE Append(longer[i - 1], s[i])
    <3> SUFFICES ASSUME NEW i \in 0..(m + 1)
                 PROVE  longer[i] = IF i = 0 THEN <<>>
                          ELSE IF s[i].k = key THEN longer[i - 1] ELSE Append(longer[i - 1], s[i])
      OBVIOUS
    <3>1. CASE i = m + 1
      <4>1. longer[m] = kept[m] /\ (m + 1) - 1 = m /\ m + 1 # 0
        BY <2>3
      <4> QED
        BY <2>2, <3>1, <4>1
    <3>2. CASE i # m + 1
      <4>1. i \in 0..m /\ (i # 0 => i - 1 \in 0..m)
        BY <3>2
      <4>2. kept[i] = IF i = 0 THEN <<>>
                      ELSE IF s[i].k = key THEN kept[i - 1] ELSE Append(kept[i - 1], s[i])
        BY <2>1, <4>1 DEF Kept
      <4> QED
        BY <2>3, <4>1, <4>2
    <3> QED
      BY <3>1, <3>2
  <2>5. Kept(longer, s, key, m + 1)
    BY <2>2, <2>4 DEF Kept
  <2> QED
    BY <2>5
<1> HIDE DEF T
<1>3. Nat \subseteq T
  BY <1>1, <1>2, Induction
<1> QED
  BY <1>3 DEF T

LEMMA KeptOf ==
  ASSUME NEW s, NEW key, Len(s) \in Nat
  PROVE  \E kept : Kept(kept, s, key, Len(s)) /\ Without(s, key) = kept[Len(s)]
<1> DEFINE kept == CHOOSE f : f = [i \in 0..Len(s) |->
                      IF i = 0 THEN <<>>
                      ELSE IF s[i].k = key THEN f[i - 1] ELSE Append(f[i - 1], s[i])]
<1>1. kept = CHOOSE f : Kept(f, s, key, Len(s))
  BY DEF Kept
<1>2. Without(s, key) = kept[Len(s)]
  BY DEF Without
<1> HIDE DEF kept
<1>3. Kept(kept, s, key, Len(s))
  BY <1>1, KeptExist, Zenon
<1> QED
  BY <1>2, <1>3, Zenon

LEMMA WithoutKeepsId ==
  ASSUME NEW s, IsSequence(s), NEW key
  PROVE  /\ IsSequence(Without(s, key))
         /\ key # "_id" => \A v : IdIs(s, v) => IdIs(Without(s, key), v)
<1> DEFINE n == Len(s)
<1>1. n \in Nat /\ DOMAIN s = 1..n /\ s = [i \in 1..n |-> s[i]]
  BY SequenceForm
<1>2. PICK kept : Kept(kept, s, key, n) /\ Without(s, key) = kept[n]
  BY <1>1, KeptOf, Zenon
<1>3. kept[0] = <<>> /\ \A m \in Nat : m + 1 <= n =>
        kept[m + 1] = IF s[m + 1].k = key THEN kept[m] ELSE Append(kept[m], s[m + 1])
  <2>1. kept[0] = <<>>
    BY <1>1, <1>2 DEF Kept
  <2>2. ASSUME NEW m \in Nat, m + 1 <= n
        PROVE  kept[m + 1] = IF s[m + 1].k = key THEN kept[m] ELSE Append(kept[m], s[m + 1])
    <3>1. m + 1 \in 0..n /\ m + 1 # 0 /\ (m + 1) - 1 = m
      BY <1>1, <2>2
    <3> QED
      BY <1>2, <3>1 DEF Kept
  <2> QED
    BY <2>1, <2>2
<1> DEFINE T == {m \in Nat : m <= n => IsSequence(kept[m])}
<1>4. 0 \in T
  <2>1. IsSequence(<<>>)
    BY DEF IsSequence
  <2> QED
    BY <1>3, <2>1
<1>5. ASSUME NEW m \in Nat, m \in T PROVE m + 1 \in T
  BY <1>1, <1>3, <1>5, AppendKeepsId
<1>6. Nat \subseteq T
  <2> HIDE DEF T
  <2> QED
    BY <1>4, <1>5, Induction
<1>7. ASSUME key # "_id", NEW v, IdIs(s, v) PROVE IdIs(kept[n], v)
  <2>1. PICK p \in DOMAIN s : /\ s[p].k = "_id" /\ s[p].v = v
                              /\ \A q \in DOMAIN s : s[q].k = "_id" => p <= q
    BY <1>7 DEF IdIs
  <2> DEFINE U == {m \in Nat : m <= n => IF m < p THEN NoId(kept[m]) ELSE IdIs(kept[m], v)}
  <2>2. 0 \in U
    <3>1. 0 < p /\ NoId(<<>>)
      BY <1>1, <2>1 DEF NoId
    <3> QED
      BY <1>3, <3>1
  <2>3. ASSUME NEW m \in Nat, m \in U PROVE m + 1 \in U
    <3> SUFFICES ASSUME m + 1 <= n
                 PROVE  IF m + 1 < p THEN NoId(kept[m + 1]) ELSE IdIs(kept[m + 1], v)
      OBVIOUS
    <3>1. IsSequence(kept[m]) /\ m \in Nat /\ m + 1 \in 1..n /\ p \in 1..n
      BY <1>1, <1>6, <2>1
    <3>2. kept[m + 1] = IF s[m + 1].k = key THEN kept[m] ELSE Append(kept[m], s[m + 1])
      BY <1>3
    <3>3. CASE m + 1 < p
      <4>1. NoId(kept[m]) /\ s[m + 1].k # "_id"
        BY <1>1, <2>1, <2>3, <3>1, <3>3
      <4>2. NoId(Append(kept[m], s[m + 1]))
        BY <3>1, <4>1, AppendKeepsId
      <4> QED
        BY <3>2, <3>3, <4>1, <4>2
    <3>4. CASE m + 1 = p
      <4>1. NoId(kept[m]) /\ s[m + 1].k = "_id" /\ s[m + 1].v = v
        BY <2>1, <2>3, <3>1, <3>4
      <4>2. IdIs(Append(kept[m], s[m + 1]), v)
        BY <3>1, <4>1, AppendKeepsId
      <4> QED
        BY <1>7, <3>2, <3>1, <3>4, <4>1, <4>2
    <3>5. CASE m + 1 > p
      <4>1. IdIs(kept[m], v)
        BY <2>3, <3>1, <3>5
      <4>2. IdIs(Append(kept[m], s[m + 1]), v)
        BY <3>1, <4>1, AppendKeepsId
      <4> QED
        BY <3>2, <3>1, <3>5, <4>1, <4>2
    <3> QED
      BY <3>1, <3>3, <3>4, <3>5
  <2>4. Nat \subseteq U
    <3> HIDE DEF U
    <3> QED
      BY <2>2, <2>3, Induction
  <2>5. n \in U /\ ~(n < p)
    BY <1>1, <2>1, <2>4
  <2> QED
    BY <1>1, <2>5
<1>8. n \in T
  BY <1>1, <1>6
<1> QED
  BY <1>1, <1>2, <1>7, <1>8

LEMMA PathUnsetKeepsId ==
  ASSUME NEW s, IsSequence(s), NEW path
  PROVE  /\ IsSequence(PathUnset(s, path))
         /\ path[1] # "_id" => \A v : IdIs(s, v) => IdIs(PathUnset(s, path), v)
<1>1. \E below : PathUnset(s, path) = UnsetField(s, path, 1, below)
  BY Zenon DEF PathUnset
<1>2. PICK below : PathUnset(s, path) = UnsetField(s, path, 1, below)
  BY <1>1
<1>3. CASE 1 = Len(path)
  <2>1. PathUnset(s, path) = Without(s, path[1])
    BY <1>2, <1>3 DEF UnsetField
  <2> QED
    BY <2>1, WithoutKeepsId, Zenon
<1>4. CASE 1 # Len(path)
  <2> DEFINE Changed(j) == s[j].k = path[1] /\ IsContainer(s[j].v)
             new(j) == Field(path[1], [s[j].v EXCEPT !.f = below])
             t == [j \in DOMAIN s |-> IF Changed(j) THEN new(j) ELSE s[j]]
  <2>1. PathUnset(s, path) = t
    BY <1>2, <1>4 DEF UnsetField
  <2>2. Len(s) \in Nat /\ DOMAIN s = 1..Len(s)
    BY SequenceForm
  <2>3. DOMAIN t = 1..Len(s) /\ t = [i \in 1..Len(s) |-> t[i]]
    BY <2>2
  <2>4. \A i \in DOMAIN s : (s[i].k # path[1] => t[i] = s[i]) /\ t[i].k = s[i].k
    <3> SUFFICES ASSUME NEW i \in DOMAIN s
                 PROVE  (s[i].k # path[1] => t[i] = s[i]) /\ t[i].k = s[i].k
      OBVIOUS
    <3>1. new(i).k = path[1]
      BY DEF Field
    <3>2. t[i] = IF Changed(i) THEN new(i) ELSE s[i]
      OBVIOUS
    <3>3. Changed(i) => s[i].k = path[1]
      OBVIOUS
    <3> HIDE DEF t, new, Changed
    <3> QED
      BY <3>1, <3>2, <3>3
  <2> HIDE DEF t
  <2>5. IsSequence(t)
    BY <2>2, <2>3, SequenceForm
  <2>6. ASSUME NEW v, IdIs(s, v), path[1] # "_id" PROVE IdIs(t, v)
    <3>1. PICK p \in DOMAIN s : /\ s[p].k = "_id" /\ s[p].v = v
                                /\ \A q \in DOMAIN s : s[q].k = "_id" => p <= q
      BY <2>6 DEF IdIs
    <3>2. p \in DOMAIN t /\ t[p].k = "_id" /\ t[p].v = v
      BY <2>2, <2>3, <2>4, <2>6, <3>1
    <3>3. \A q \in DOMAIN t : t[q].k = "_id" => p <= q
      BY <2>2, <2>3, <2>4, <3>1
    <3> QED
      BY <3>2, <3>3 DEF IdIs
  <2> QED
    BY <2>1, <2>5, <2>6
<1> QED
  BY <1>3, <1>4

----------------------------------------------------------------------------
(* apply_update keeps the _id                                              *)

(* What an update made of a document: it is one, with the same _id.        *)
KeepsId(s, new) == IsSequence(new) /\ \A v : IdIs(s, v) => IdIs(new, v)

LEMMA KeepsIdOnward ==
  ASSUME NEW s, NEW t, NEW u, KeepsId(s, t), KeepsId(t, u)
  PROVE  KeepsId(s, u)
  BY DEF KeepsId

LEMMA ApplyOneKeepsId ==
  ASSUME NEW s, IsSequence(s), NEW op, NEW path, path[1] # "_id", NEW arg,
         ApplyOne(s, op, path, arg).ok
  PROVE  KeepsId(s, ApplyOne(s, op, path, arg).doc)
<1> DEFINE result == ApplyOne(s, op, path, arg)
<1>1. \A x : KeepsId(s, PathSet(s, path, x))
  BY PathSetKeepsId DEF KeepsId
<1>2. KeepsId(s, PathUnset(s, path)) /\ KeepsId(s, s)
  BY PathUnsetKeepsId DEF KeepsId
<1>3. \/ \E x : result = Ok(PathSet(s, path, x))
      \/ result = Ok(PathUnset(s, path)) \/ result = Ok(s) \/ result = Refused
  <2> DEFINE old == PathGet(s, path)
             isArray == old.t \in {"missing", "array"}
             elements == Elements(old)
             Put(values) == Ok(PathSet(s, path, ArrayOf(values)))
  <2>1. CASE op = "$set"
    <3>1. result = Ok(PathSet(s, path, arg))
      BY <2>1 DEF ApplyOne
    <3> QED
      BY <3>1
  <2>2. CASE op = "$unset"
    <3>1. result = Ok(PathUnset(s, path))
      BY <2>2 DEF ApplyOne
    <3> QED
      BY <3>1
  <2>3. CASE op = "$inc" /\ IsNumeric(arg) /\ (old.t = "missing" \/ IsNumeric(old))
    <3>1. result = Ok(PathSet(s, path, Sum(old, arg)))
      BY <2>3 DEF ApplyOne
    <3> QED
      BY <3>1
  <2>4. CASE op = "$push" /\ isArray /\ EachOk(arg)
    <3>1. result = Put(elements \o Each(arg))
      BY <2>4 DEF ApplyOne
    <3> QED
      BY <3>1
  <2>5. CASE op = "$addToSet" /\ isArray /\ EachOk(arg)
    <3>1. result = Put(AddToSet(elements, Each(arg)))
      BY <2>5 DEF ApplyOne
    <3> QED
      BY <3>1
  <2>6. CASE op = "$pull" /\ isArray /\ arg.t # "document"
    <3>1. \E values : result = Put(values)
      BY <2>6 DEF ApplyOne
    <3> QED
      BY <3>1
  <2>7. CASE op = "$pop" /\ isArray
    <3>1. result = IF elements = <<>> THEN Ok(s) ELSE Put(Popped(elements, arg))
      BY <2>7 DEF ApplyOne
    <3> QED
      BY <3>1
  <2> DEFINE pushes == op = "$push" /\ isArray /\ EachOk(arg)
             adds == op = "$addToSet" /\ isArray /\ EachOk(arg)
             pulls == op = "$pull" /\ isArray /\ arg.t # "document"
             incs == op = "$inc" /\ IsNumeric(arg) /\ (old.t = "missing" \/ IsNumeric(old))
             pops == op = "$pop" /\ isArray
  <2>8. CASE ~ \/ op = "$set" \/ op = "$unset" \/ incs \/ pushes \/ adds \/ pulls \/ pops
    <3>1. \E a, b, c, d, e, f, g : result =
             CASE op = "$set" -> a [] op = "$unset" -> b [] incs -> c [] pushes -> d
               [] adds -> e [] pulls -> f [] pops -> g [] OTHER -> Refused
      BY Zenon DEF ApplyOne
    <3> QED
      <4> HIDE DEF incs, pushes, adds, pulls, pops, result
      <4> QED
        BY <2>8, <3>1
  <2> QED
    BY <2>1, <2>2, <2>3, <2>4, <2>5, <2>6, <2>7, <2>8
<1> HIDE DEF result
<1>4. result.ok
  BY DEF result
<1>5. \A x : Ok(x).doc = x
  BY DEF Ok
<1>6. ~Refused.ok
  BY DEF Refused
<1>7. KeepsId(s, result.doc)
  <2>1. CASE \E x : result = Ok(PathSet(s, path, x))
    BY <1>1, <1>5, <2>1
  <2>2. CASE result = Ok(PathUnset(s, path))
    BY <1>2, <1>5, <2>2
  <2>3. CASE result = Ok(s)
    BY <1>2, <1>5, <2>3
  <2> QED
    BY <1>3, <1>4, <1>6, <2>1, <2>2, <2>3
<1> QED
  BY <1>7 DEF result

(* The operators in order.                                                 *)
StepOn(before, step) ==
  IF ~before.ok THEN Refused ELSE ApplyOne(before.doc, step.op, step.path, step.arg)
Stages(done, s, steps, n) ==
  done = [i \in 0..n |-> IF i = 0 THEN Ok(s) ELSE StepOn(done[i - 1], steps[i])]

LEMMA StagesExist ==
  ASSUME NEW s, NEW steps, NEW n \in Nat
  PROVE  \E done : Stages(done, s, steps, n)
<1> DEFINE T == {m \in Nat : \E done : Stages(done, s, steps, m)}
<1>1. 0 \in T
  <2>1. Stages([i \in 0..0 |-> Ok(s)], s, steps, 0)
    BY DEF Stages
  <2> QED
    BY <2>1
<1>2. ASSUME NEW m \in Nat, m \in T PROVE m + 1 \in T
  <2>1. PICK done : Stages(done, s, steps, m)
    BY <1>2
  <2> DEFINE new == StepOn(done[m], steps[m + 1])
             longer == [i \in 0..(m + 1) |-> IF i = m + 1 THEN new ELSE done[i]]
  <2>2. longer[m + 1] = new /\ longer = [i \in 0..(m + 1) |-> longer[i]]
    OBVIOUS
  <2>3. \A i \in 0..m : longer[i] = done[i]
    OBVIOUS
  <2> HIDE DEF longer
  <2>4. \A i \in 0..(m + 1) :
          longer[i] = IF i = 0 THEN Ok(s) ELSE StepOn(longer[i - 1], steps[i])
    <3> SUFFICES ASSUME NEW i \in 0..(m + 1)
                 PROVE  longer[i] = IF i = 0 THEN Ok(s) ELSE StepOn(longer[i - 1], steps[i])
      OBVIOUS
    <3>1. CASE i = m + 1
      <4>1. longer[m] = done[m] /\ (m + 1) - 1 = m /\ m + 1 # 0
        BY <2>3
      <4> QED
        BY <2>2, <3>1, <4>1
    <3>2. CASE i # m + 1
      <4>1. i \in 0..m /\ (i # 0 => i - 1 \in 0..m)
        BY <3>2
      <4>2. done[i] = IF i = 0 THEN Ok(s) ELSE StepOn(done[i - 1], steps[i])
        BY <2>1, <4>1 DEF Stages
      <4> QED
        BY <2>3, <4>1, <4>2
    <3> QED
      BY <3>1, <3>2
  <2>5. Stages(longer, s, steps, m + 1)
    BY <2>2, <2>4 DEF Stages
  <2> QED
    BY <2>5
<1> HIDE DEF T
<1>3. Nat \subseteq T
  BY <1>1, <1>2, Induction
<1> QED
  BY <1>3 DEF T

LEMMA StagesOf ==
  ASSUME NEW s, NEW steps, Len(steps) \in Nat
  PROVE  \E done : Stages(done, s, steps, Len(steps)) /\ ApplySteps(s, steps) = done[Len(steps)]
<1> DEFINE done == CHOOSE f : f = [i \in 0..Len(steps) |->
                      IF i = 0 THEN Ok(s)
                      ELSE IF ~f[i - 1].ok THEN Refused
                      ELSE ApplyOne(f[i - 1].doc, steps[i].op, steps[i].path, steps[i].arg)]
<1>1. done = CHOOSE f : Stages(f, s, steps, Len(steps))
  BY Zenon DEF Stages, StepOn
<1>2. ApplySteps(s, steps) = done[Len(steps)]
  BY DEF ApplySteps
<1> HIDE DEF done
<1>3. Stages(done, s, steps, Len(steps))
  BY <1>1, StagesExist, Zenon
<1> QED
  BY <1>2, <1>3, Zenon

LEMMA ApplyStepsKeepsId ==
  ASSUME NEW s, IsSequence(s), NEW steps, IsSequence(steps),
         \A i \in DOMAIN steps : steps[i].path[1] # "_id",
         ApplySteps(s, steps).ok
  PROVE  KeepsId(s, ApplySteps(s, steps).doc)
<1> DEFINE n == Len(steps)
<1>1. n \in Nat /\ DOMAIN steps = 1..n
  BY SequenceForm
<1>2. PICK done : Stages(done, s, steps, n) /\ ApplySteps(s, steps) = done[n]
  BY <1>1, StagesOf, Zenon
<1>3. done[0] = Ok(s)
  BY <1>1, <1>2 DEF Stages
<1>4. ASSUME NEW m \in Nat, m + 1 <= n
      PROVE  done[m + 1] = StepOn(done[m], steps[m + 1])
  <2>1. m + 1 \in 0..n /\ m + 1 # 0 /\ (m + 1) - 1 = m
    BY <1>1, <1>4
  <2> QED
    BY <1>2, <2>1 DEF Stages
<1> DEFINE T == {m \in Nat : m <= n => (done[m].ok => KeepsId(s, done[m].doc))}
<1>5. 0 \in T
  BY <1>3 DEF Ok, KeepsId
<1>6. ASSUME NEW m \in Nat, m \in T PROVE m + 1 \in T
  <2> SUFFICES ASSUME m + 1 <= n, done[m + 1].ok PROVE KeepsId(s, done[m + 1].doc)
    OBVIOUS
  <2>1. m <= n /\ m + 1 \in DOMAIN steps
    BY <1>1
  <2>2. done[m + 1] = StepOn(done[m], steps[m + 1])
    BY <1>4
  <2>3. ~Refused.ok
    BY DEF Refused
  <2>4. done[m].ok /\ done[m + 1] = ApplyOne(done[m].doc, steps[m + 1].op, steps[m + 1].path,
                                             steps[m + 1].arg)
    BY <2>2, <2>3 DEF StepOn
  <2>5. KeepsId(s, done[m].doc)
    BY <1>6, <2>1, <2>4
  <2>6. KeepsId(done[m].doc, done[m + 1].doc)
    <3>1. IsSequence(done[m].doc) /\ steps[m + 1].path[1] # "_id"
      BY <2>1, <2>5 DEF KeepsId
    <3> QED
      BY <2>4, <3>1, ApplyOneKeepsId
  <2> QED
    BY <2>5, <2>6, KeepsIdOnward
<1> HIDE DEF T
<1>7. n \in T
  BY <1>1, <1>5, <1>6, Induction
<1> QED
  BY <1>2, <1>7 DEF T

LEMMA ReplacementKeepsId ==
  ASSUME NEW s, IsSequence(s), NEW fields, IsSequence(fields), PathGet(s, Id) # Missing
  PROVE  KeepsId(s, Replacement(s, fields))
<1> DEFINE id == PathGet(s, Id)
           rest == Without(fields, "_id")
           t == <<Field("_id", id)>> \o rest
<1>1. Replacement(s, fields) = t
  BY DEF Replacement
<1>2. IsSequence(rest)
  BY WithoutKeepsId
<1>3. Len(rest) \in Nat /\ DOMAIN rest = 1..Len(rest) /\ rest = [i \in 1..Len(rest) |-> rest[i]]
  BY <1>2, SequenceForm
<1> HIDE DEF rest, id
<1> DEFINE V == {rest[i] : i \in DOMAIN rest} \cup {Field("_id", id)}
<1>4. <<Field("_id", id)>> \in Seq(V) /\ rest \in Seq(V)
  <2>1. rest \in [1..Len(rest) -> V]
    BY <1>3
  <2>2. rest \in Seq(V)
    BY <1>3, <2>1, SeqDef
  <2> QED
    BY <2>2
<1> HIDE DEF V
<1>5. t \in Seq(V) /\ Len(t) = Len(rest) + 1 /\ t[1] = Field("_id", id)
  BY <1>3, <1>4
<1> HIDE DEF t
<1>6. DOMAIN t = 1..Len(t) /\ Len(t) \in Nat /\ t = [i \in 1..Len(t) |-> t[i]]
  BY <1>5
<1>7. IsSequence(t)
  BY <1>6, SequenceForm
<1>8. IdIs(t, id)
  <2>1. 1 \in DOMAIN t /\ \A q \in DOMAIN t : 1 <= q
    BY <1>3, <1>5, <1>6
  <2>2. t[1].k = "_id" /\ t[1].v = id
    BY <1>5 DEF Field
  <2> QED
    BY <2>1, <2>2 DEF IdIs
<1>9. ASSUME NEW v, IdIs(s, v) PROVE v = id
  BY <1>9, IdFound DEF id
<1> QED
  BY <1>1, <1>7, <1>8, <1>9 DEF KeepsId

LEMMA ApplyUpdateKeepsId ==
  ASSUME NEW s, IsSequence(s), PathGet(s, Id) # Missing, NEW command,
         IsSequence(command.steps), IsSequence(command.replace),
         \A i \in DOMAIN command.steps : command.steps[i].path[1] # "_id",
         ApplyUpdate(s, command).ok
  PROVE  KeepsId(s, ApplyUpdate(s, command).doc)
<1>1. CASE command.steps # <<>>
  <2>1. ApplyUpdate(s, command) = ApplySteps(s, command.steps)
    BY <1>1 DEF ApplyUpdate
  <2> QED
    BY <2>1, ApplyStepsKeepsId
<1>2. CASE command.steps = <<>>
  <2>1. ApplyUpdate(s, command).doc = Replacement(s, command.replace)
    BY <1>2 DEF ApplyUpdate, Ok
  <2> QED
    BY <2>1, ReplacementKeepsId
<1> QED
  BY <1>1, <1>2

----------------------------------------------------------------------------
(* The stored form keeps the _id                                           *)

NestedIn(values) ==
  Scalars \cup [t : {"document", "array"}, n : {0}, f : Seq([k : STRING, v : values])]
Levels(g, n) == g = [d \in 0..n |-> IF d = 0 THEN Scalars ELSE NestedIn(g[d - 1])]

LEMMA LevelsExist ==
  ASSUME NEW n \in Nat
  PROVE  \E g : Levels(g, n)
<1> DEFINE T == {m \in Nat : \E g : Levels(g, m)}
<1>1. 0 \in T
  <2>1. Levels([d \in 0..0 |-> Scalars], 0)
    BY DEF Levels
  <2> QED
    BY <2>1
<1>2. ASSUME NEW m \in Nat, m \in T PROVE m + 1 \in T
  <2>1. PICK g : Levels(g, m)
    BY <1>2
  <2> DEFINE new == NestedIn(g[m])
             longer == [d \in 0..(m + 1) |-> IF d = m + 1 THEN new ELSE g[d]]
  <2>2. longer[m + 1] = new /\ longer = [d \in 0..(m + 1) |-> longer[d]]
    OBVIOUS
  <2>3. \A d \in 0..m : longer[d] = g[d]
    OBVIOUS
  <2> HIDE DEF longer
  <2>4. \A d \in 0..(m + 1) : longer[d] = IF d = 0 THEN Scalars ELSE NestedIn(longer[d - 1])
    <3> SUFFICES ASSUME NEW d \in 0..(m + 1)
                 PROVE  longer[d] = IF d = 0 THEN Scalars ELSE NestedIn(longer[d - 1])
      OBVIOUS
    <3>1. CASE d = m + 1
      <4>1. longer[m] = g[m] /\ (m + 1) - 1 = m /\ m + 1 # 0
        BY <2>3
      <4> QED
        BY <2>2, <3>1, <4>1
    <3>2. CASE d # m + 1
      <4>1. d \in 0..m /\ (d # 0 => d - 1 \in 0..m)
        BY <3>2
      <4>2. g[d] = IF d = 0 THEN Scalars ELSE NestedIn(g[d - 1])
        BY <2>1, <4>1 DEF Levels
      <4> QED
        BY <2>3, <4>1, <4>2
    <3> QED
      BY <3>1, <3>2
  <2>5. Levels(longer, m + 1)
    BY <2>2, <2>4 DEF Levels
  <2> QED
    BY <2>5
<1> HIDE DEF T
<1>3. Nat \subseteq T
  BY <1>1, <1>2, Induction
<1> QED
  BY <1>3 DEF T

LEMMA NestedIs ==
  /\ Nested[0] = Scalars
  /\ \A d \in 1..MaxDepth : Nested[d] = NestedIn(Nested[d - 1])
<1>1. MaxDepth \in Nat
  BY PathsAssumption
<1>2. Nested = CHOOSE g : Levels(g, MaxDepth)
  BY Zenon DEF Nested, Levels, NestedIn
<1>3. Levels(Nested, MaxDepth)
  BY <1>1, <1>2, LevelsExist, Zenon
<1> QED
  BY <1>1, <1>3 DEF Levels

StoreOne(v, stored) == IF IsContainer(v) THEN [v EXCEPT !.f = StoredFields(v, stored)] ELSE v
Stores(g, n) == g = [d \in 0..n |-> [v \in Nested[d] |-> StoreOne(v, g[d - 1])]]

LEMMA StoresExist ==
  ASSUME NEW n \in Nat, n <= MaxDepth
  PROVE  \E g : Stores(g, n)
<1> DEFINE T == {m \in Nat : m <= MaxDepth => \E g : Stores(g, m)}
<1>0. MaxDepth \in Nat
  BY PathsAssumption
<1>1. 0 \in T
  <2> DEFINE g == [d \in 0..0 |-> [v \in Nested[d] |-> v]]
  <2>1. \A v \in Nested[0] : \A x : StoreOne(v, x) = v
    <3> SUFFICES ASSUME NEW v \in Nested[0] PROVE \A x : StoreOne(v, x) = v
      OBVIOUS
    <3>1. v \in Scalars
      BY NestedIs
    <3>2. ~IsContainer(v)
      BY <3>1 DEF Scalars, IsContainer
    <3> QED
      BY <3>2 DEF StoreOne
  <2>2. g = [d \in 0..0 |-> g[d]] /\ g[0] = [v \in Nested[0] |-> v]
    OBVIOUS
  <2> HIDE DEF g
  <2>3. \A d \in 0..0 : d = 0
    OBVIOUS
  <2>4. g[0] = [v \in Nested[0] |-> StoreOne(v, g[0 - 1])]
    BY <2>1, <2>2
  <2>5. \A d \in 0..0 : g[d] = [v \in Nested[d] |-> StoreOne(v, g[d - 1])]
    BY <2>3, <2>4
  <2>6. Stores(g, 0)
    BY <2>2, <2>5 DEF Stores
  <2> QED
    BY <2>6
<1>2. ASSUME NEW m \in Nat, m \in T PROVE m + 1 \in T
  <2> SUFFICES ASSUME m + 1 <= MaxDepth PROVE \E g : Stores(g, m + 1)
    OBVIOUS
  <2>1. PICK g : Stores(g, m)
    BY <1>0, <1>2
  <2> DEFINE new == [v \in Nested[m + 1] |-> StoreOne(v, g[m])]
             longer == [d \in 0..(m + 1) |-> IF d = m + 1 THEN new ELSE g[d]]
  <2>2. longer[m + 1] = new /\ longer = [d \in 0..(m + 1) |-> longer[d]]
    OBVIOUS
  <2>3. \A d \in 0..m : longer[d] = g[d]
    OBVIOUS
  <2> HIDE DEF longer
  <2>4. \A d \in 0..(m + 1) : longer[d] = [v \in Nested[d] |-> StoreOne(v, longer[d - 1])]
    <3> SUFFICES ASSUME NEW d \in 0..(m + 1)
                 PROVE  longer[d] = [v \in Nested[d] |-> StoreOne(v, longer[d - 1])]
      OBVIOUS
    <3>1. CASE d = m + 1
      <4>1. longer[m] = g[m] /\ (m + 1) - 1 = m
        BY <2>3
      <4> QED
        BY <2>2, <3>1, <4>1
    <3>2. CASE d # m + 1 /\ d # 0
      <4>1. d \in 0..m /\ d - 1 \in 0..m
        BY <3>2
      <4>2. g[d] = [v \in Nested[d] |-> StoreOne(v, g[d - 1])]
        BY <2>1, <4>1 DEF Stores
      <4> QED
        BY <2>3, <4>1, <4>2
    <3>3. CASE d = 0
      <4>1. d \in 0..m
        BY <3>3
      <4>0. g[d] = [v \in Nested[d] |-> StoreOne(v, g[d - 1])]
        BY <2>1, <4>1 DEF Stores
      <4>2. \A v \in Nested[d] : \A x, y : StoreOne(v, x) = StoreOne(v, y)
        <5> SUFFICES ASSUME NEW v \in Nested[d] PROVE \A x, y : StoreOne(v, x) = StoreOne(v, y)
          OBVIOUS
        <5>1. v \in Scalars
          BY <3>3, NestedIs
        <5>2. ~IsContainer(v)
          BY <5>1 DEF Scalars, IsContainer
        <5> QED
          BY <5>2 DEF StoreOne
      <4>3. [v \in Nested[d] |-> StoreOne(v, g[d - 1])]
              = [v \in Nested[d] |-> StoreOne(v, longer[d - 1])]
        BY <4>2
      <4> QED
        BY <2>3, <4>0, <4>1, <4>3
    <3> QED
      BY <3>1, <3>2, <3>3
  <2>5. Stores(longer, m + 1)
    BY <2>2, <2>4 DEF Stores
  <2> QED
    BY <2>5
<1> HIDE DEF T
<1>3. Nat \subseteq T
  BY <1>1, <1>2, Induction
<1> QED
  BY <1>3 DEF T

LEMMA StoredAtIs ==
  \A d \in 0..MaxDepth : StoredAt[d] = [v \in Nested[d] |-> StoreOne(v, StoredAt[d - 1])]
<1>1. MaxDepth \in Nat
  BY PathsAssumption
<1>2. StoredAt = CHOOSE g : Stores(g, MaxDepth)
  BY Zenon DEF StoredAt, Stores, StoreOne
<1>3. MaxDepth <= MaxDepth
  BY <1>1
<1>4. Stores(StoredAt, MaxDepth)
  BY <1>1, <1>2, <1>3, StoresExist, Zenon
<1> QED
  BY <1>1, <1>4 DEF Stores

LEMMA StoredKeepsId ==
  ASSUME NEW s, Storable(s)
  PROVE  /\ IsSequence(s) /\ IsSequence(Stored(s))
         /\ \A v : IdIs(s, v) /\ ~IsContainer(v) => IdIs(Stored(s), v)
<1> DEFINE doc == Document(s)
           d == MaxDepth
           t == Stored(s)
<1>1. d \in Nat /\ doc \in Nested[d]
  BY PathsAssumption DEF Storable
<1>2. doc \notin Scalars /\ IsContainer(doc) /\ doc.f = s /\ doc.t = "document"
  BY DEF Document, Scalars, IsContainer
<1>3. d \in 1..d /\ d - 1 \in 0..d /\ d \in 0..d
  <2>1. d # 0
    BY <1>1, <1>2, NestedIs
  <2> QED
    BY <1>1, <2>1
<1>4. s \in Seq([k : STRING, v : Nested[d - 1]])
  <2>1. doc \in NestedIn(Nested[d - 1])
    BY <1>1, <1>3, NestedIs
  <2>2. doc \in [t : {"document", "array"}, n : {0}, f : Seq([k : STRING, v : Nested[d - 1]])]
    BY <1>2, <2>1 DEF NestedIn
  <2>3. doc.f \in Seq([k : STRING, v : Nested[d - 1]])
    BY <2>2
  <2> QED
    BY <1>2, <2>3
<1>5. Len(s) \in Nat /\ DOMAIN s = 1..Len(s) /\ s = [i \in 1..Len(s) |-> s[i]]
      /\ \A i \in 1..Len(s) : s[i].v \in Nested[d - 1]
  <2> DEFINE F == [k : STRING, v : Nested[d - 1]]
  <2>1. \A x \in F : x.v \in Nested[d - 1]
    OBVIOUS
  <2>2. s \in Seq(F)
    BY <1>4
  <2> HIDE DEF F, d
  <2>3. Len(s) \in Nat /\ DOMAIN s = 1..Len(s) /\ s = [i \in 1..Len(s) |-> s[i]]
        /\ \A i \in 1..Len(s) : s[i] \in F
    BY <2>2
  <2> QED
    BY <2>1, <2>3
<1>6. IsSequence(s)
  BY <1>5, SequenceForm
<1>7. t = [i \in 1..Len(s) |-> Field(s[i].k, StoredAt[d - 1][s[i].v])]
  <2>1. StoredValue(doc) = StoreOne(doc, StoredAt[d - 1])
    BY <1>1, <1>3, StoredAtIs DEF StoredValue
  <2>2. StoreOne(doc, StoredAt[d - 1]).f = StoredFields(doc, StoredAt[d - 1])
    BY <1>2 DEF StoreOne, Document
  <2>3. StoredFields(doc, StoredAt[d - 1]) = [i \in 1..Len(s) |-> Field(s[i].k, StoredAt[d - 1][s[i].v])]
    BY <1>2, <1>5 DEF StoredFields
  <2> QED
    BY <2>1, <2>2, <2>3 DEF Stored
<1> HIDE DEF t, d, doc
<1>8. DOMAIN t = 1..Len(s) /\ t = [i \in 1..Len(s) |-> t[i]]
  BY <1>7
<1>9. IsSequence(t)
  BY <1>5, <1>8, SequenceForm
<1>10. \A i \in 1..Len(s) : t[i].k = s[i].k /\ t[i].v = StoredAt[d - 1][s[i].v]
  BY <1>7 DEF Field
<1>11. \A i \in 1..Len(s) : ~IsContainer(s[i].v) => t[i].v = s[i].v
  <2>1. \A v \in Nested[d - 1] : StoredAt[d - 1][v] = StoreOne(v, StoredAt[(d - 1) - 1])
    BY <1>3, StoredAtIs DEF d
  <2> QED
    BY <1>5, <1>10, <2>1 DEF StoreOne
<1>12. ASSUME NEW v, IdIs(s, v), ~IsContainer(v) PROVE IdIs(t, v)
  <2>1. PICK p \in DOMAIN s : /\ s[p].k = "_id" /\ s[p].v = v
                              /\ \A q \in DOMAIN s : s[q].k = "_id" => p <= q
    BY <1>12 DEF IdIs
  <2>2. p \in DOMAIN t /\ t[p].k = "_id" /\ t[p].v = v
    BY <1>5, <1>8, <1>10, <1>11, <1>12, <2>1
  <2>3. \A q \in DOMAIN t : t[q].k = "_id" => p <= q
    BY <1>5, <1>8, <1>10, <2>1
  <2> QED
    BY <2>2, <2>3 DEF IdIs
<1> QED
  BY <1>6, <1>9, <1>12 DEF t

----------------------------------------------------------------------------
(* The loop of Collection::update                                          *)

DocumentRows(R) == R = [k \in DOMAIN R |-> R[k]] /\ \A k \in DOMAIN R : IsSequence(R[k])
KeysFit(R) == \A k \in DOMAIN R : KeyOf(PathGet(R[k], Id)) = k
Changed(R) == {k \in DOMAIN rows : R[k] # rows[k]}

WellFormed(command) == IsSequence(command.steps) /\ IsSequence(command.replace)
SparesId(command) == \A i \in DOMAIN command.steps : command.steps[i].path[1] # "_id"

(* A round of the loop is in a state, and rewrites a document or not.      *)
LoopState(st) ==
  /\ st = [ok |-> st.ok, rows |-> st.rows, matched |-> st.matched, modified |-> st.modified]
  /\ st.ok \in BOOLEAN /\ st.matched \in Nat /\ st.modified \in Nat
  /\ DOMAIN st.rows = DOMAIN rows /\ DocumentRows(st.rows)
Rewritten(st, next, k, doc, command) ==
  LET key == KeyOf(PathGet(rows[k], Id))
  IN /\ doc # rows[k] /\ IsSequence(doc) /\ next.modified = st.modified + 1
     /\ next.rows = IF key \in DOMAIN rows THEN [st.rows EXCEPT ![key] = doc] ELSE st.rows
     /\ SparesId(command) => KeyOf(PathGet(doc, Id)) = key
LeftAlone(st, next) ==
  \/ next.rows = st.rows /\ next.modified = st.modified
  \/ next.rows = rows /\ ~next.ok

LEMMA KeyIsNone ==
  ASSUME NEW v, HasKey(v)
  PROVE  v # Missing /\ ~IsContainer(v)
<1>1. v.t \in {"int", "long", "double", "string"}
  BY DEF HasKey, IsNumeric
<1>2. Missing.t = "missing"
  BY DEF Missing, Scalar
<1> QED
  BY <1>1, <1>2 DEF IsContainer

(* A document's stored form has its _id, if that can be a key.             *)
LEMMA StoredIdRead ==
  ASSUME NEW s, Storable(s), HasKey(PathGet(s, Id))
  PROVE  PathGet(Stored(s), Id) = PathGet(s, Id) /\ IsSequence(Stored(s))
<1>1. IsSequence(s) /\ IsSequence(Stored(s))
  BY StoredKeepsId
<1>2. PathGet(s, Id) # Missing /\ ~IsContainer(PathGet(s, Id))
  BY KeyIsNone
<1>3. IdIs(s, PathGet(s, Id))
  BY <1>1, <1>2, IdThere
<1>4. IdIs(Stored(s), PathGet(s, Id))
  BY <1>2, <1>3, StoredKeepsId
<1> QED
  BY <1>1, <1>4, IdFound

LEMMA RewriteRound ==
  ASSUME NEW k \in DOMAIN rows, DocumentRows(rows), NEW command, WellFormed(command),
         NEW st, LoopState(st)
  PROVE  LET next == Rewrite(st, k, command)
         IN /\ LoopState(next)
            /\ next.ok => st.ok
            /\ LeftAlone(st, next) \/ \E doc : Rewritten(st, next, k, doc, command)
<1> DEFINE doc == rows[k]
           id == PathGet(doc, Id)
           new == ApplyUpdate(doc, command)
           next == Rewrite(st, k, command)
           failed == RolledBack
           passed == [st EXCEPT !.matched = @ + 1]
           written == [ok |-> TRUE, rows |-> Replaced(st.rows, id, new.doc),
                       matched |-> st.matched + 1, modified |-> st.modified + 1]
           Fails == ~st.ok \/ id = Missing \/ ~new.ok
           Refuses == ~HasKey(id) \/ ~Storable(new.doc)
<1>1. next = IF Fails THEN failed
             ELSE IF Same(new.doc, doc) THEN passed
             ELSE IF Refuses THEN failed ELSE written
  BY DEF Rewrite
<1>2. IsSequence(doc)
  BY DEF DocumentRows
<1>3. failed = [ok |-> FALSE, rows |-> rows, matched |-> 0, modified |-> 0]
  BY DEF RolledBack
<1>4. passed = [ok |-> st.ok, rows |-> st.rows, matched |-> st.matched + 1, modified |-> st.modified]
  BY DEF LoopState
<1>5. CASE next = failed
  <2>1. LoopState(next) /\ ~next.ok /\ LeftAlone(st, next)
    BY <1>3, <1>5 DEF LoopState, LeftAlone
  <2> QED
    BY <2>1
<1>6. CASE next = passed
  <2>1. LoopState(next) /\ (next.ok => st.ok) /\ LeftAlone(st, next)
    BY <1>4, <1>6 DEF LoopState, LeftAlone
  <2> QED
    BY <2>1
<1>7. CASE ~Fails /\ ~Same(new.doc, doc) /\ ~Refuses
  <2> DEFINE key == KeyOf(id)
             stored == Stored(new.doc)
  <2>1. next = written
    BY <1>1, <1>7
  <2>2. st.ok /\ id # Missing /\ new.ok /\ HasKey(id) /\ Storable(new.doc)
    BY <1>7
  <2>3. IsSequence(stored)
    BY <2>2, StoredKeepsId
  <2>4. stored # doc
    BY <1>7, <2>2 DEF Same
  <2>5. written.rows = IF key \in DOMAIN rows THEN [st.rows EXCEPT ![key] = stored] ELSE st.rows
    BY DEF Replaced, LoopState
  <2>6. ASSUME SparesId(command) PROVE KeyOf(PathGet(stored, Id)) = key
    <3>1. KeepsId(doc, new.doc)
      BY <1>2, <2>2, <2>6, ApplyUpdateKeepsId DEF WellFormed, SparesId
    <3>2. IdIs(doc, id)
      BY <1>2, <2>2, IdThere
    <3>3. IdIs(new.doc, id) /\ IsSequence(new.doc)
      BY <3>1, <3>2 DEF KeepsId
    <3>4. PathGet(new.doc, Id) = id
      BY <3>3, IdFound
    <3>5. PathGet(stored, Id) = id
      BY <2>2, <3>4, StoredIdRead
    <3> QED
      BY <3>5
  <2>7. DOMAIN written.rows = DOMAIN rows /\ DocumentRows(written.rows)
    <3> HIDE DEF stored, key
    <3>1. CASE key \in DOMAIN rows
      <4> DEFINE R == [st.rows EXCEPT ![key] = stored]
      <4>1. written.rows = R
        BY <2>5, <3>1
      <4>2. DOMAIN R = DOMAIN rows /\ R = [j \in DOMAIN R |-> R[j]]
        BY DEF LoopState
      <4>3. \A j \in DOMAIN rows : R[j] = IF j = key THEN stored ELSE st.rows[j]
        BY DEF LoopState
      <4>4. \A j \in DOMAIN rows : IsSequence(st.rows[j])
        BY DEF LoopState, DocumentRows
      <4> HIDE DEF R
      <4>5. \A j \in DOMAIN rows : IsSequence(R[j])
        BY <2>3, <4>3, <4>4
      <4> QED
        BY <4>1, <4>2, <4>5 DEF DocumentRows
    <3>2. CASE key \notin DOMAIN rows
      <4>1. written.rows = st.rows
        BY <2>5, <3>2
      <4> QED
        BY <4>1 DEF LoopState
    <3> QED
      BY <3>1, <3>2
  <2>8. LoopState(written)
    <3> DEFINE R == Replaced(st.rows, id, new.doc)
    <3>1. written = [ok |-> TRUE, rows |-> R, matched |-> st.matched + 1,
                     modified |-> st.modified + 1] /\ written.rows = R
      OBVIOUS
    <3>2. DOMAIN R = DOMAIN rows /\ DocumentRows(R)
      BY <2>7
    <3>3. st.matched + 1 \in Nat /\ st.modified + 1 \in Nat
      BY DEF LoopState
    <3> HIDE DEF R
    <3> QED
      BY <3>1, <3>2, <3>3 DEF LoopState
  <2>9. Rewritten(st, written, k, stored, command)
    <3>1. written.modified = st.modified + 1
      OBVIOUS
    <3> HIDE DEF written, stored
    <3> QED
      BY <2>3, <2>4, <2>5, <2>6, <3>1 DEF Rewritten
  <2> HIDE DEF written, stored
  <2>10. next.ok => st.ok
    BY <2>2
  <2>11. LoopState(next) /\ \E x : Rewritten(st, next, k, x, command)
    BY <2>1, <2>8, <2>9, Zenon
  <2> HIDE DEF next
  <2> QED
    BY <2>10, <2>11 DEF next
<1>8. next = failed \/ next = passed \/ (~Fails /\ ~Same(new.doc, doc) /\ ~Refuses)
  BY <1>1, Zenon
<1> HIDE DEF next, failed, passed
<1> QED
  BY <1>5, <1>6, <1>7, <1>8 DEF next

(* What the rounds have done: the rows keep fitting their keys, only keys  *)
(* that were visited have changed, and each change was counted.            *)
AfterRounds(st, chosen, m, command) ==
  /\ LoopState(st)
  /\ KeysFit(rows) =>
       /\ SparesId(command) => KeysFit(st.rows)
       /\ \A k \in Changed(st.rows) : \E j \in 1..m : chosen[j] = k
       /\ st.ok => st.modified = Cardinality(Changed(st.rows))
Visits(chosen, n) ==
  /\ \A i \in 1..n : chosen[i] \in DOMAIN rows
  /\ \A i, j \in 1..n : chosen[i] = chosen[j] => i = j

LEMMA NoRounds ==
  ASSUME DocumentRows(rows), NEW chosen, NEW command
  PROVE  AfterRounds(Untouched, chosen, 0, command)
<1>1. Untouched = [ok |-> TRUE, rows |-> rows, matched |-> 0, modified |-> 0]
  BY DEF Untouched
<1>2. LoopState(Untouched)
  BY <1>1 DEF LoopState
<1>3. Changed(Untouched.rows) = {} /\ Untouched.rows = rows /\ Untouched.modified = 0
  BY <1>1 DEF Changed
<1>4. Cardinality({}) = 0
  BY FS_EmptySet
<1> QED
  BY <1>2, <1>3, <1>4 DEF AfterRounds

LEMMA OneRound ==
  ASSUME IsFiniteSet(DOMAIN rows), DocumentRows(rows), NEW command, WellFormed(command),
         NEW chosen, NEW n \in Nat, Visits(chosen, n), NEW m \in Nat, m + 1 <= n,
         NEW st, AfterRounds(st, chosen, m, command)
  PROVE  AfterRounds(Rewrite(st, chosen[m + 1], command), chosen, m + 1, command)
<1> DEFINE k == chosen[m + 1]
           next == Rewrite(st, k, command)
<1>1. m + 1 \in 1..n /\ \A j \in 1..m : j \in 1..n /\ j \in 1..(m + 1) /\ j # m + 1
  OBVIOUS
<1>2. k \in DOMAIN rows /\ \A j \in 1..m : chosen[j] # k
  BY <1>1 DEF Visits
<1>3. LoopState(st)
  BY DEF AfterRounds
<1>4. LoopState(next) /\ (next.ok => st.ok)
      /\ (LeftAlone(st, next) \/ \E doc : Rewritten(st, next, k, doc, command))
  BY <1>2, <1>3, RewriteRound
<1> HIDE DEF next, k
<1> SUFFICES AfterRounds(next, chosen, m + 1, command)
  BY DEF next, k
<1> SUFFICES ASSUME KeysFit(rows)
             PROVE  /\ SparesId(command) => KeysFit(next.rows)
                    /\ \A x \in Changed(next.rows) : \E j \in 1..(m + 1) : chosen[j] = x
                    /\ next.ok => next.modified = Cardinality(Changed(next.rows))
  BY <1>4 DEF AfterRounds
<1>5. /\ SparesId(command) => KeysFit(st.rows)
      /\ \A x \in Changed(st.rows) : \E j \in 1..m : chosen[j] = x
      /\ st.ok => st.modified = Cardinality(Changed(st.rows))
  BY DEF AfterRounds
<1>6. CASE next.rows = st.rows /\ next.modified = st.modified
  BY <1>1, <1>4, <1>5, <1>6
<1>7. CASE next.rows = rows /\ ~next.ok
  <2>1. Changed(next.rows) = {}
    BY <1>7 DEF Changed
  <2> QED
    BY <1>7, <2>1
<1>8. ASSUME NEW doc, Rewritten(st, next, k, doc, command)
      PROVE  /\ SparesId(command) => KeysFit(next.rows)
             /\ \A x \in Changed(next.rows) : \E j \in 1..(m + 1) : chosen[j] = x
             /\ next.ok => next.modified = Cardinality(Changed(next.rows))
  <2>1. KeyOf(PathGet(rows[k], Id)) = k
    BY <1>2 DEF KeysFit
  <2>2. doc # rows[k] /\ next.modified = st.modified + 1 /\ next.rows = [st.rows EXCEPT ![k] = doc]
        /\ (SparesId(command) => KeyOf(PathGet(doc, Id)) = k)
    BY <1>2, <1>8, <2>1 DEF Rewritten
  <2>3. DOMAIN next.rows = DOMAIN rows /\ DOMAIN st.rows = DOMAIN rows
    BY <1>3, <1>4 DEF LoopState
  <2>4. \A x \in DOMAIN rows : next.rows[x] = IF x = k THEN doc ELSE st.rows[x]
    BY <2>2, <2>3
  <2>5. SparesId(command) => KeysFit(next.rows)
    BY <1>5, <2>2, <2>3, <2>4 DEF KeysFit
  <2>6. k \notin Changed(st.rows)
    BY <1>2, <1>5
  <2>7. Changed(next.rows) = Changed(st.rows) \cup {k}
    BY <1>2, <2>2, <2>4 DEF Changed
  <2>8. \A x \in Changed(next.rows) : \E j \in 1..(m + 1) : chosen[j] = x
    <3> SUFFICES ASSUME NEW x \in Changed(next.rows)
                 PROVE  \E j \in 1..(m + 1) : chosen[j] = x
      OBVIOUS
    <3>1. CASE x = k
      BY <3>1 DEF k
    <3>2. CASE x \in Changed(st.rows)
      BY <1>1, <1>5, <3>2
    <3> QED
      BY <2>7, <3>1, <3>2
  <2>9. IsFiniteSet(Changed(st.rows))
    <3>1. Changed(st.rows) \subseteq DOMAIN rows
      BY DEF Changed
    <3> QED
      BY <3>1, FS_Subset
  <2>10. Cardinality(Changed(next.rows)) = Cardinality(Changed(st.rows)) + 1
    BY <2>6, <2>7, <2>9, FS_AddElement
  <2> QED
    BY <1>4, <1>5, <2>2, <2>5, <2>8, <2>10
<1> QED
  BY <1>4, <1>6, <1>7, <1>8 DEF LeftAlone

(* The rounds.                                                             *)
Rounds(run, command, chosen, n) ==
  run = [i \in 0..n |-> IF i = 0 THEN Untouched ELSE Rewrite(run[i - 1], chosen[i], command)]
Chosen(command, all) == IF command.multi \/ all = <<>> THEN all ELSE <<Head(all)>>

LEMMA RoundsExist ==
  ASSUME NEW command, NEW chosen, NEW n \in Nat
  PROVE  \E run : Rounds(run, command, chosen, n)
<1> DEFINE T == {m \in Nat : \E run : Rounds(run, command, chosen, m)}
<1>1. 0 \in T
  <2>1. Rounds([i \in 0..0 |-> Untouched], command, chosen, 0)
    BY DEF Rounds
  <2> QED
    BY <2>1
<1>2. ASSUME NEW m \in Nat, m \in T PROVE m + 1 \in T
  <2>1. PICK run : Rounds(run, command, chosen, m)
    BY <1>2
  <2> DEFINE new == Rewrite(run[m], chosen[m + 1], command)
             longer == [i \in 0..(m + 1) |-> IF i = m + 1 THEN new ELSE run[i]]
  <2>2. longer[m + 1] = new /\ longer = [i \in 0..(m + 1) |-> longer[i]]
    OBVIOUS
  <2>3. \A i \in 0..m : longer[i] = run[i]
    OBVIOUS
  <2> HIDE DEF longer
  <2>4. \A i \in 0..(m + 1) :
          longer[i] = IF i = 0 THEN Untouched ELSE Rewrite(longer[i - 1], chosen[i], command)
    <3> SUFFICES ASSUME NEW i \in 0..(m + 1)
                 PROVE  longer[i] = IF i = 0 THEN Untouched
                                    ELSE Rewrite(longer[i - 1], chosen[i], command)
      OBVIOUS
    <3>1. CASE i = m + 1
      <4>1. longer[m] = run[m] /\ (m + 1) - 1 = m /\ m + 1 # 0
        BY <2>3
      <4> QED
        BY <2>2, <3>1, <4>1
    <3>2. CASE i # m + 1
      <4>1. i \in 0..m /\ (i # 0 => i - 1 \in 0..m)
        BY <3>2
      <4>2. run[i] = IF i = 0 THEN Untouched ELSE Rewrite(run[i - 1], chosen[i], command)
        BY <2>1, <4>1 DEF Rounds
      <4> QED
        BY <2>3, <4>1, <4>2
    <3> QED
      BY <3>1, <3>2
  <2>5. Rounds(longer, command, chosen, m + 1)
    BY <2>2, <2>4 DEF Rounds
  <2> QED
    BY <2>5
<1> HIDE DEF T
<1>3. Nat \subseteq T
  BY <1>1, <1>2, Induction
<1> QED
  BY <1>3 DEF T

LEMMA RoundsOf ==
  ASSUME NEW command, NEW all, Len(Chosen(command, all)) \in Nat
  PROVE  \E run : /\ Rounds(run, command, Chosen(command, all), Len(Chosen(command, all)))
                  /\ UpdateAll(command, all) = run[Len(Chosen(command, all))]
<1> DEFINE chosen == Chosen(command, all)
           run == CHOOSE f : f = [i \in 0..Len(chosen) |->
                     IF i = 0 THEN Untouched ELSE Rewrite(f[i - 1], chosen[i], command)]
<1>1. run = CHOOSE f : Rounds(f, command, chosen, Len(chosen))
  BY DEF Rounds
<1>2. UpdateAll(command, all) = run[Len(chosen)]
  BY DEF UpdateAll, Chosen
<1> HIDE DEF run, chosen
<1>3. Rounds(run, command, chosen, Len(chosen))
  BY <1>1, RoundsExist, Zenon DEF chosen
<1> QED
  BY <1>2, <1>3, Zenon DEF chosen

(* What is chosen are rows, each once.                                     *)
LEMMA ChosenForm ==
  ASSUME IsFiniteSet(DOMAIN rows), NEW command, NEW all \in Orders(Matches(command.filter))
  PROVE  Len(Chosen(command, all)) \in Nat /\ Visits(Chosen(command, all), Len(Chosen(command, all)))
<1> DEFINE K == Matches(command.filter)
           c == Cardinality(K)
<1>1. K \subseteq DOMAIN rows
  BY DEF Matches
<1>2. c \in Nat
  BY <1>1, FS_Subset, FS_CardinalityType
<1>3. all \in [1..c -> K] /\ \A i, j \in DOMAIN all : all[i] = all[j] => i = j
  BY DEF Orders
<1> HIDE DEF K, c
<1>4. all \in Seq(K) /\ Len(all) = c /\ DOMAIN all = 1..c
  BY <1>2, <1>3, SeqDef
<1>5. Visits(all, c)
  BY <1>1, <1>3, <1>4 DEF Visits
<1>6. CASE Chosen(command, all) = all
  BY <1>2, <1>4, <1>5, <1>6
<1>7. CASE Chosen(command, all) = <<Head(all)>> /\ all # <<>>
  <2>1. 1 \in 1..c /\ Head(all) = all[1]
    BY <1>2, <1>4, <1>7
  <2>2. Len(Chosen(command, all)) = 1 /\ Chosen(command, all)[1] = all[1]
    BY <1>7, <2>1
  <2>3. all[1] \in DOMAIN rows
    BY <1>5, <2>1 DEF Visits
  <2> QED
    BY <2>2, <2>3 DEF Visits
<1> QED
  BY <1>6, <1>7 DEF Chosen

LEMMA AllRounds ==
  ASSUME IsFiniteSet(DOMAIN rows), DocumentRows(rows), NEW command, WellFormed(command),
         NEW all \in Orders(Matches(command.filter))
  PROVE  LET end == UpdateAll(command, all)
         IN /\ LoopState(end)
            /\ KeysFit(rows) => /\ SparesId(command) => KeysFit(end.rows)
                                /\ end.ok => end.modified = Cardinality(Changed(end.rows))
<1> DEFINE chosen == Chosen(command, all)
           n == Len(chosen)
<1>1. n \in Nat /\ Visits(chosen, n)
  BY ChosenForm
<1>2. PICK run : Rounds(run, command, chosen, n) /\ UpdateAll(command, all) = run[n]
  BY <1>1, RoundsOf, Zenon
<1> HIDE DEF chosen, n
<1>3. run[0] = Untouched
  BY <1>1, <1>2 DEF Rounds
<1>4. ASSUME NEW m \in Nat, m + 1 <= n
      PROVE  run[m + 1] = Rewrite(run[m], chosen[m + 1], command)
  <2>1. m + 1 \in 0..n /\ m + 1 # 0 /\ (m + 1) - 1 = m
    BY <1>1, <1>4
  <2> QED
    BY <1>2, <2>1 DEF Rounds
<1> DEFINE T == {m \in Nat : m <= n => AfterRounds(run[m], chosen, m, command)}
<1>5. 0 \in T
  BY <1>3, NoRounds
<1>6. ASSUME NEW m \in Nat, m \in T PROVE m + 1 \in T
  <2> SUFFICES ASSUME m + 1 <= n PROVE AfterRounds(run[m + 1], chosen, m + 1, command)
    OBVIOUS
  <2>1. AfterRounds(run[m], chosen, m, command)
    BY <1>1, <1>6
  <2>2. run[m + 1] = Rewrite(run[m], chosen[m + 1], command)
    BY <1>4
  <2> QED
    BY <1>1, <2>1, <2>2, OneRound
<1> HIDE DEF T
<1>7. n \in T
  BY <1>1, <1>5, <1>6, Induction
<1>8. AfterRounds(run[n], chosen, n, command)
  BY <1>1, <1>7 DEF T
<1> QED
  BY <1>2, <1>8 DEF AfterRounds

----------------------------------------------------------------------------
(* Keys and documents                                                      *)

LEMMA InsertedFit ==
  ASSUME NEW table \in Tables
  PROVE  LET R == InsertedRows(table)
         IN IsFiniteSet(DOMAIN R) /\ DocumentRows(R) /\ KeysFit(R)
<1> DEFINE K == {KeyOf(PathGet(table[i], Id)) : i \in DOMAIN table}
           row(k) == Stored(table[CHOOSE i \in DOMAIN table : KeyOf(PathGet(table[i], Id)) = k])
           R == InsertedRows(table)
           keys == [i \in DOMAIN table |-> KeyOf(PathGet(table[i], Id))]
<1>1. R = [k \in K |-> row(k)]
  BY DEF InsertedRows
<1>2. /\ IsSequence(table)
      /\ \A i \in DOMAIN table : Storable(table[i]) /\ HasKey(PathGet(table[i], Id))
  BY UpdatesAssumption
<1>3. DOMAIN table = 1..Len(table) /\ Len(table) \in Nat
  BY <1>2, SequenceForm
<1>4. IsFiniteSet(DOMAIN table)
  BY <1>3, FS_Interval
<1>5. keys \in Surjection(DOMAIN table, K)
  <2>1. keys \in [DOMAIN table -> K]
    OBVIOUS
  <2>2. \A k \in K : \E i \in DOMAIN table : keys[i] = k
    OBVIOUS
  <2> QED
    BY <2>1, <2>2, Zenon DEF Surjection
<1>6. IsFiniteSet(K)
  BY <1>4, <1>5, FS_Surjection
<1>7. ASSUME NEW k \in K
      PROVE  IsSequence(R[k]) /\ KeyOf(PathGet(R[k], Id)) = k
  <2> DEFINE i == CHOOSE i \in DOMAIN table : KeyOf(PathGet(table[i], Id)) = k
  <2>1. \E j \in DOMAIN table : KeyOf(PathGet(table[j], Id)) = k
    OBVIOUS
  <2>2. i \in DOMAIN table /\ KeyOf(PathGet(table[i], Id)) = k
    BY <2>1, Zenon
  <2>3. R[k] = Stored(table[i])
    BY <1>1
  <2> HIDE DEF i
  <2>4. IsSequence(R[k]) /\ PathGet(R[k], Id) = PathGet(table[i], Id)
    BY <1>2, <2>2, <2>3, StoredIdRead
  <2> QED
    BY <2>2, <2>3, <2>4
<1>8. DOMAIN R = K /\ R = [k \in DOMAIN R |-> R[k]]
  BY <1>1
<1> HIDE DEF K, R
<1> QED
  BY <1>6, <1>7, <1>8 DEF DocumentRows, KeysFit, R

(* An upsert inserts under the key of the new document's _id.              *)
LEMMA UpsertFits ==
  ASSUME IsFiniteSet(DOMAIN rows), DocumentRows(rows), NEW command
  PROVE  LET R == Upserted(command).rows
         IN IsFiniteSet(DOMAIN R) /\ DocumentRows(R) /\ (KeysFit(rows) => KeysFit(R))
<1> DEFINE new == SeedUpdated(command)
           id == PathGet(new.doc, Id)
           key == KeyOf(id)
           inserts == new.ok /\ HasKey(id) /\ key \notin DOMAIN rows /\ Storable(new.doc)
           R == [k \in DOMAIN rows \cup {key} |-> IF k = key THEN Stored(new.doc) ELSE rows[k]]
<1>1. CASE ~inserts
  <2>1. Upserted(command) = RolledBack
    BY <1>1 DEF Upserted
  <2>2. Upserted(command).rows = rows
    BY <2>1 DEF RolledBack
  <2> QED
    BY <2>2
<1>2. CASE inserts
  <2>1. Upserted(command) = [Untouched EXCEPT !.rows = R]
    BY <1>2 DEF Upserted
  <2>2. Upserted(command).rows = R
    BY <2>1 DEF Untouched
  <2>3. PathGet(Stored(new.doc), Id) = id /\ IsSequence(Stored(new.doc))
    BY <1>2, StoredIdRead
  <2> HIDE DEF key
  <2>4. DOMAIN R = DOMAIN rows \cup {key} /\ R[key] = Stored(new.doc)
        /\ R = [k \in DOMAIN R |-> R[k]]
        /\ \A k \in DOMAIN rows : k # key => R[k] = rows[k]
    OBVIOUS
  <2>5. IsFiniteSet(DOMAIN R)
    BY <2>4, FS_AddElement
  <2> HIDE DEF R
  <2>6. DocumentRows(R)
    BY <2>3, <2>4 DEF DocumentRows
  <2>7. KeyOf(PathGet(R[key], Id)) = key
    BY <2>3, <2>4 DEF key
  <2>8. KeysFit(rows) => KeysFit(R)
    BY <2>4, <2>7 DEF KeysFit
  <2> QED
    BY <2>2, <2>5, <2>6, <2>8
<1> QED
  BY <1>1, <1>2

(* The invariant: a finite table of documents under the keys of their _ids.*)
UpdatesInv ==
  /\ IsFiniteSet(DOMAIN rows) /\ DocumentRows(rows)
  /\ idTouched \in BOOLEAN /\ KeysAndIdsAgree

(* What a command does to the rows.                                        *)
LEMMA UpdateFits ==
  ASSUME UpdatesInv, NEW command \in Commands, NEW all \in Orders(Matches(command.filter)),
         Update(command, all)
  PROVE  UpdatesInv' /\ ModifiedIsTrue
<1> DEFINE touched == \E i \in DOMAIN command.steps : command.steps[i].path[1] = "_id"
           outcome == IF Upserts(command) THEN Upserted(command) ELSE UpdateAll(command, all)
<1>1. IsFiniteSet(DOMAIN rows) /\ DocumentRows(rows) /\ idTouched \in BOOLEAN
      /\ (~idTouched => KeysFit(rows))
  BY DEF UpdatesInv, KeysAndIdsAgree, IdIsImmutable, KeysFit
<1>2. WellFormed(command)
  BY UpdatesAssumption DEF WellFormed
<1>3. /\ rows' = outcome.rows
      /\ last' = [command |-> command, ok |-> outcome.ok, modified |-> outcome.modified]
      /\ idTouched' = (idTouched \/ touched)
  BY DEF Update, Replies
<1>4. idTouched' \in BOOLEAN /\ (~idTouched' => ~idTouched /\ SparesId(command))
  BY <1>1, <1>3 DEF SparesId
<1>5. last'.command = command /\ last'.ok = outcome.ok /\ last'.modified = outcome.modified
  BY <1>3
<1> SUFFICES
      /\ IsFiniteSet(DOMAIN rows') /\ DocumentRows(rows')
      /\ ~idTouched' => KeysFit(rows')
      /\ ~idTouched' /\ Matches(command.filter) # {} =>
           (outcome.ok => outcome.modified = Cardinality(Changed(rows')))
  BY <1>4, <1>5, Zenon DEF UpdatesInv, KeysAndIdsAgree, IdIsImmutable, KeysFit, ModifiedIsTrue,
                           DocumentRows, Changed
<1>6. CASE Upserts(command)
  <2>1. outcome = Upserted(command) /\ Matches(command.filter) = {}
    BY <1>6 DEF Upserts
  <2> QED
    BY <1>1, <1>3, <1>4, <2>1, UpsertFits
<1>7. CASE ~Upserts(command)
  <2>1. outcome = UpdateAll(command, all)
    BY <1>7
  <2>2. LoopState(outcome)
        /\ (KeysFit(rows) => /\ SparesId(command) => KeysFit(outcome.rows)
                             /\ outcome.ok => outcome.modified = Cardinality(Changed(outcome.rows)))
    BY <1>1, <1>2, <2>1, AllRounds
  <2> HIDE DEF outcome
  <2>3. IsFiniteSet(DOMAIN rows') /\ DocumentRows(rows')
    BY <1>1, <1>3, <2>2 DEF LoopState
  <2> QED
    BY <1>1, <1>3, <1>4, <2>2, <2>3
<1> QED
  BY <1>6, <1>7

LEMMA UpdatesInductive == UpdatesSpec => []UpdatesInv /\ [][ModifiedIsTrue]_updateVars
<1>1. UpdatesInit => UpdatesInv
  <2> SUFFICES ASSUME UpdatesInit PROVE UpdatesInv
    OBVIOUS
  <2>1. PICK table \in Tables : rows = InsertedRows(table)
    BY DEF UpdatesInit
  <2>2. IsFiniteSet(DOMAIN rows) /\ DocumentRows(rows) /\ KeysFit(rows)
    BY <2>1, InsertedFit
  <2>3. idTouched = FALSE
    BY DEF UpdatesInit
  <2> QED
    BY <2>2, <2>3 DEF UpdatesInv, KeysAndIdsAgree, IdIsImmutable, KeysFit
<1>2. UpdatesInv /\ [UpdatesNext]_updateVars => UpdatesInv' /\ [ModifiedIsTrue]_updateVars
  <2>1. ASSUME UpdatesInv, UpdatesNext PROVE UpdatesInv' /\ ModifiedIsTrue
    BY <2>1, UpdateFits, Zenon DEF UpdatesNext
  <2>2. ASSUME UpdatesInv, UNCHANGED updateVars PROVE UpdatesInv'
    BY <2>2 DEF UpdatesInv, updateVars, KeysAndIdsAgree, IdIsImmutable, DocumentRows
  <2> QED
    BY <2>1, <2>2, Zenon
<1> QED
  BY <1>1, <1>2, PTL DEF UpdatesSpec

(* Whatever tables, commands and orders in which rows are found: as long   *)
(* as no operator names _id, every row's document has the _id of the row's *)
(* key, after operators on other paths, replacements that bring another    *)
(* _id, the round trip through extended JSON and upserts (update.cpp and   *)
(* Collection::update).                                                    *)
THEOREM KeysAndIdsStayTogether == UpdatesSpec => []KeysAndIdsAgree
<1>1. UpdatesInv => KeysAndIdsAgree
  BY DEF UpdatesInv
<1> QED
  BY <1>1, UpdatesInductive, PTL

(* And an update that succeeds counts as modified exactly the rows that    *)
(* are no longer what they were (outcome.modified in Collection::update).  *)
THEOREM ModifiedCountsTrue == UpdatesSpec => [][ModifiedIsTrue]_updateVars
  BY UpdatesInductive, PTL
=============================================================================
