-------------------------- MODULE IntegerMacProofs --------------------------
(* Proofs about the integer MAC for every width, scale and set of biases:    *)
(* saturation is the rounding of Model C, no wire wraps around, and the code *)
(* of the output conversion is the nearest one, of two the even one.         *)
EXTENDS IntegerMac, FiniteSetTheorems, FunctionTheorems, TLAPS

-----------------------------------------------------------------------------
(* Powers of two *)

LEMMA LeastNat ==
  ASSUME NEW S \in SUBSET Nat, S # {}
  PROVE  \E x \in S : \A y \in S : x <= y
<1>1. PICK x \in S : \A y \in S : ~(<<y, x>> \in OpToRel(<, Nat))
  BY NatLessThanWellFounded, WFMin
<1>2. \A y \in S : ~(y < x)
  BY <1>1 DEF OpToRel
<1>. QED
  BY <1>2

\* The powers of two, from the cardinality of a power set.
LEMMA PowerIsCardinality ==
  ASSUME NEW n \in Nat
  PROVE  IsFiniteSet(SUBSET (1..n)) /\ Cardinality(SUBSET (1..n)) = 2^n
<1>1. IsFiniteSet(1..n) /\ Cardinality(1..n) = n
  BY FS_Interval
<1>. QED
  BY <1>1, FS_SUBSET

LEMMA PowerNext ==
  ASSUME NEW n \in Nat
  PROVE  2^(n + 1) = 2 * 2^n
<1>. DEFINE Without == SUBSET (1..n)
            With == {s \cup {n + 1} : s \in Without}
<1>1. Without \cup With = SUBSET (1..(n + 1))
  <2>1. ASSUME NEW t \in SUBSET (1..(n + 1)), n + 1 \in t
        PROVE  t \in With
    <3>1. t \ {n + 1} \in Without
      OBVIOUS
    <3>2. t = (t \ {n + 1}) \cup {n + 1}
      BY <2>1
    <3>. QED
      BY <3>1, <3>2
  <2>2. ASSUME NEW t \in SUBSET (1..(n + 1)), n + 1 \notin t
        PROVE  t \in Without
    <3>1. \A x \in 1..(n + 1) : x # n + 1 => x \in 1..n
      OBVIOUS
    <3>. QED
      BY <2>2, <3>1
  <2>3. Without \subseteq SUBSET (1..(n + 1)) /\ With \subseteq SUBSET (1..(n + 1))
    <3>1. 1..n \subseteq 1..(n + 1) /\ n + 1 \in 1..(n + 1)
      OBVIOUS
    <3>. QED
      BY <3>1
  <2>. HIDE DEF Without, With
  <2>. QED
    BY <2>1, <2>2, <2>3
<1>2. Without \cap With = {}
  OBVIOUS
<1>3. IsFiniteSet(With) /\ Cardinality(With) = Cardinality(Without)
  <2>. DEFINE f == [s \in Without |-> s \cup {n + 1}]
  <2>1. f \in [Without -> With] /\ (\A t \in With : \E s \in Without : f[s] = t)
    OBVIOUS
  <2>2. ASSUME NEW s \in Without, NEW t \in Without, f[s] = f[t]
        PROVE  s = t
    BY <2>2
  <2>3. f \in Bijection(Without, With)
    <3>. HIDE DEF f, Without, With
    <3>. QED
      BY <2>1, <2>2, Fun_IsBij
  <2>4. IsFiniteSet(Without)
    BY PowerIsCardinality
  <2>5. ExistsBijection(Without, With)
    <3>. HIDE DEF f, Without, With
    <3>. QED
      BY <2>3, Fun_ExistsBij
  <2>. HIDE DEF f, Without, With
  <2>. QED
    BY <2>4, <2>5, FS_Bijection
<1>4. IsFiniteSet(Without) /\ Cardinality(Without) = 2^n /\ 2^n \in Nat
  BY PowerIsCardinality, FS_CardinalityType
<1>5. Cardinality(Without \cup With) = Cardinality(Without) + Cardinality(With)
  <2>. HIDE DEF Without, With
  <2>1. Cardinality(Without \cup With)
          = Cardinality(Without) + Cardinality(With) - Cardinality({})
    BY <1>2, <1>3, <1>4, FS_Union
  <2>. QED
    BY <1>3, <1>4, <2>1, FS_EmptySet
<1>6. Cardinality(Without \cup With) = 2^(n + 1)
  <2>1. n + 1 \in Nat
    OBVIOUS
  <2>. QED
    BY <1>1, <2>1, PowerIsCardinality
<1>. QED
  <2>. HIDE DEF Without, With
  <2>. QED
    BY <1>3, <1>4, <1>5, <1>6

\* What is true of 0 and passes to the next number is true of every number.
LEMMA NatSetInduction ==
  ASSUME NEW P, 0 \in P, \A n \in Nat : n \in P => n + 1 \in P
  PROVE  Nat \subseteq P
<1>. DEFINE Bad == {n \in Nat : n \notin P}
<1>. SUFFICES ASSUME Bad # {} PROVE FALSE
  OBVIOUS
<1>1. PICK n \in Bad : \A m \in Bad : n <= m
  <2>1. Bad \in SUBSET Nat
    OBVIOUS
  <2>. HIDE DEF Bad
  <2>. QED
    BY <2>1, LeastNat
<1>2. n # 0 /\ n \in Nat
  OBVIOUS
<1>3. n - 1 \in Nat /\ n - 1 \in P
  BY <1>1, <1>2
<1>4. (n - 1) + 1 \in P
  BY <1>3
<1>5. (n - 1) + 1 = n
  BY <1>2
<1>. QED
  BY <1>4, <1>5

LEMMA PowerPositive == \A n \in Nat : 2^n \in Nat \ {0}
<1>. DEFINE P == {n \in Nat : 2^n \in Nat \ {0}}
<1>1. 0 \in P
  OBVIOUS
<1>2. \A n \in Nat : n \in P => n + 1 \in P
  BY PowerNext
<1>3. Nat \subseteq P
  <2>. HIDE DEF P
  <2>. QED
    BY <1>1, <1>2, NatSetInduction
<1>. QED
  BY <1>3

LEMMA PowerSum == \A m, n \in Nat : 2^(m + n) = 2^m * 2^n
<1>. SUFFICES ASSUME NEW m \in Nat PROVE \A n \in Nat : 2^(m + n) = 2^m * 2^n
  OBVIOUS
<1>. DEFINE P == {n \in Nat : 2^(m + n) = 2^m * 2^n}
<1>1. 0 \in P
  <2>1. 2^m \in Nat
    BY PowerPositive
  <2>. QED
    BY <2>1
<1>2. ASSUME NEW n \in Nat, n \in P PROVE n + 1 \in P
  <2>1. m + n \in Nat /\ m + (n + 1) = (m + n) + 1
    OBVIOUS
  <2>2. 2^(m + (n + 1)) = 2 * 2^(m + n)
    BY <2>1, PowerNext
  <2>3. 2^(n + 1) = 2 * 2^n
    BY PowerNext
  <2>4. 2^m \in Nat /\ 2^n \in Nat
    BY PowerPositive
  <2>. QED
    BY <1>2, <2>2, <2>3, <2>4
<1>3. Nat \subseteq P
  <2>. HIDE DEF P
  <2>. QED
    BY <1>1, <1>2, NatSetInduction
<1>. QED
  BY <1>3

LEMMA PowerMonotonic == \A m, n \in Nat : m <= n => 2^m <= 2^n
<1>. SUFFICES ASSUME NEW m \in Nat, NEW n \in Nat, m <= n PROVE 2^m <= 2^n
  OBVIOUS
<1>1. n - m \in Nat /\ n = m + (n - m)
  OBVIOUS
<1>. DEFINE a == 2^m
            b == 2^(n - m)
<1>2. 2^n = a * b
  BY <1>1, PowerSum
<1>3. a \in Nat \ {0} /\ b \in Nat \ {0}
  BY <1>1, PowerPositive
<1>. HIDE DEF a, b
<1>4. a <= a * b
  BY <1>3
<1>. QED
  BY <1>2, <1>4 DEF a

-----------------------------------------------------------------------------
(* Wires and codes *)

\* The halves that a width divides into.
LEMMA Halves ==
  \A n \in Nat \ {0} : /\ 2^(n - 1) \in Nat \ {0} /\ 2^n = 2 * 2^(n - 1)
<1>. TAKE n \in Nat \ {0}
<1>1. n - 1 \in Nat /\ (n - 1) + 1 = n
  OBVIOUS
<1>. QED
  BY <1>1, PowerPositive, PowerNext

LEMMA ModelCWidths ==
  /\ W_BITS \in Nat \ {0} /\ A_BITS \in Nat \ {0} /\ OUT_BITS \in Nat \ {0}
  /\ ACC_BITS \in Nat \ {0} /\ ACC_BITS + 1 \in Nat \ {0} /\ W_BITS + A_BITS \in Nat \ {0}
  /\ ACC_BITS >= W_BITS + A_BITS /\ ACC_BITS >= OUT_BITS
BY ModelCAssumption

LEMMA CodesAreIntegers ==
  ASSUME NEW n \in Nat \ {0}
  PROVE  \A x : x \in Codes(n) <=> x \in Int /\ -(2^(n - 1)) <= x /\ x < 2^(n - 1)
BY Halves DEF Codes

LEMMA WiderCodes ==
  ASSUME NEW m \in Nat \ {0}, NEW n \in Nat \ {0}, m <= n
  PROVE  Codes(m) \subseteq Codes(n)
<1>1. m - 1 \in Nat /\ n - 1 \in Nat /\ m - 1 <= n - 1
  OBVIOUS
<1>2. 2^(m - 1) <= 2^(n - 1)
  BY <1>1, PowerMonotonic
<1>3. 2^(m - 1) \in Nat /\ 2^(n - 1) \in Nat
  BY Halves
<1>. QED
  BY <1>2, <1>3, CodesAreIntegers

\* A wire keeps what fits into its width.
LEMMA UnsignedKeeps ==
  ASSUME NEW n \in Nat, NEW x \in Nat, x < 2^n
  PROVE  Unsigned(x, n) = x
BY PowerPositive DEF Unsigned

LEMMA SignedKeeps ==
  ASSUME NEW n \in Nat \ {0}, NEW x \in Codes(n)
  PROVE  Signed(x, n) = x
<1>. DEFINE h == 2^(n - 1)
<1>1. h \in Nat \ {0} /\ 2^n = 2 * h
  BY Halves
<1>2. x \in Int /\ -h <= x /\ x < h
  BY CodesAreIntegers
<1>3. 2^n = 2 * h => Unsigned(x, n) = IF x < 0 THEN x + 2 * h ELSE x
  <2>. HIDE DEF h
  <2>1. CASE x < 0
    BY <1>1, <1>2, <2>1 DEF Unsigned
  <2>2. CASE ~(x < 0)
    BY <1>1, <1>2, <2>2 DEF Unsigned
  <2>. QED
    BY <2>1, <2>2
<1>4. Signed(x, n) = LET u == Unsigned(x, n) IN IF u >= h THEN u - 2 * h ELSE u
  BY <1>1 DEF Signed
<1>. QED
  <2>. HIDE DEF h
  <2>. QED
    BY <1>1, <1>2, <1>3, <1>4

-----------------------------------------------------------------------------
(* The accumulator *)

\* saturate is the rounding of the accumulator, for every sum of two codes.
LEMMA SaturateRounds ==
  ASSUME NEW x \in Codes(ACC_BITS), NEW y \in Codes(ACC_BITS)
  PROVE  saturate(Signed(x + y, ACC_BITS + 1)) = Rounded(x + y)
<1>. DEFINE h == 2^(ACC_BITS - 1)
<1>0. ACC_BITS \in Nat \ {0} /\ ACC_BITS + 1 \in Nat \ {0}
  BY ModelCWidths
<1>1. h \in Nat \ {0} /\ 2^ACC_BITS = 2 * h
  BY <1>0, Halves
<1>2. /\ x \in Int /\ -h <= x /\ x < h
      /\ y \in Int /\ -h <= y /\ y < h
  BY <1>0, CodesAreIntegers
<1>3. x + y \in Codes(ACC_BITS + 1)
  <2>1. (ACC_BITS + 1) - 1 = ACC_BITS
    BY <1>0
  <2>2. x + y \in Int /\ -(2 * h) <= x + y /\ x + y < 2 * h
    <3>. HIDE DEF h
    <3>. QED
      BY <1>1, <1>2
  <2>. QED
    BY <1>0, <1>1, <2>1, <2>2, CodesAreIntegers
<1>4. Signed(x + y, ACC_BITS + 1) = x + y
  BY <1>0, <1>3, SignedKeeps
<1>5. x + y \in Codes(ACC_BITS) <=> -h <= x + y /\ x + y < h
  BY <1>0, <1>2, CodesAreIntegers
<1>6. x + y \in Codes(ACC_BITS) => Signed(x + y, ACC_BITS) = x + y
  BY <1>0, SignedKeeps
<1>. HIDE DEF h
<1>. QED
  BY <1>1, <1>2, <1>4, <1>5, <1>6 DEF saturate, Rounded, ACC_MAX, ACC_MIN, h

LEMMA RoundedIsCode == \A x \in Int : Rounded(x) \in Codes(ACC_BITS)
<1>. DEFINE h == 2^(ACC_BITS - 1)
<1>1. ACC_BITS \in Nat \ {0} /\ h \in Nat \ {0}
  BY ModelCWidths, Halves
<1>. QED
  BY <1>1, CodesAreIntegers DEF Rounded

\* The product of two codes is a code of the sum of their widths: two minima
\* have the largest one.
LEMMA ProductFits ==
  ASSUME NEW weight \in Codes(W_BITS), NEW activation \in Codes(A_BITS)
  PROVE  /\ product(weight, activation) = activation * weight
         /\ activation * weight \in Codes(ACC_BITS)
<1>. DEFINE v == 2^(W_BITS - 1)
            w == 2^(A_BITS - 1)
<1>0. /\ W_BITS \in Nat \ {0} /\ A_BITS \in Nat \ {0} /\ W_BITS + A_BITS \in Nat \ {0}
      /\ ACC_BITS \in Nat \ {0} /\ W_BITS + A_BITS <= ACC_BITS
  BY ModelCWidths
<1>1. v \in Nat \ {0} /\ w \in Nat \ {0}
  BY <1>0, Halves
<1>2. 2^((W_BITS + A_BITS) - 1) = 2 * (v * w)
  <2>1. /\ W_BITS - 1 \in Nat /\ A_BITS \in Nat
        /\ (W_BITS + A_BITS) - 1 = (W_BITS - 1) + A_BITS
    BY <1>0
  <2>2. 2^((W_BITS - 1) + A_BITS) = v * 2^A_BITS
    BY <2>1, PowerSum
  <2>3. 2^A_BITS = 2 * w
    BY <1>0, Halves
  <2>4. v * (2 * w) = 2 * (v * w)
    <3>. HIDE DEF v, w
    <3>. QED
      BY <1>1
  <2>. QED
    BY <2>1, <2>2, <2>3, <2>4
<1>3. /\ weight \in Int /\ -v <= weight /\ weight < v
      /\ activation \in Int /\ -w <= activation /\ activation < w
  BY <1>0, CodesAreIntegers
<1>4. weight * activation \in Codes(W_BITS + A_BITS)
  <2>1. /\ weight * activation \in Int
        /\ -(v * w) <= weight * activation /\ weight * activation <= v * w
        /\ v * w \in Nat \ {0}
    <3>. HIDE DEF v, w
    <3>. QED
      BY <1>1, <1>3
  <2>2. -(2 * (v * w)) <= weight * activation /\ weight * activation < 2 * (v * w)
    <3>. HIDE DEF v, w
    <3>. QED
      BY <2>1
  <2>. QED
    BY <1>0, <1>2, <2>1, <2>2, CodesAreIntegers
<1>5. weight * activation = activation * weight
  BY <1>3
<1>6. product(weight, activation) = weight * activation
  BY <1>0, <1>4, SignedKeeps DEF product
<1>7. weight * activation \in Codes(ACC_BITS)
  BY <1>0, <1>4, WiderCodes
<1>. QED
  BY <1>5, <1>6, <1>7


-----------------------------------------------------------------------------
(* The nearest code *)

\* c is within half a step of n / d, on the even side of a tie, or the last
\* code on the side of n / d.
Settled(c, n, d) ==
  \/ 2 * Distance(c * d, n) < d
  \/ 2 * Distance(c * d, n) = d /\ c % 2 = 0
  \/ c = 2^(OUT_BITS - 1) - 1 /\ c * d <= n
  \/ c = -(2^(OUT_BITS - 1)) /\ n <= c * d

LEMMA Multiples ==
  ASSUME NEW a \in Int, NEW b \in Int, NEW d \in Nat \ {0}
  PROVE  /\ a * d \in Int /\ b * d \in Int
         /\ a + 1 <= b => a * d + d <= b * d
         /\ a + 2 <= b => a * d + 2 * d <= b * d
<1>1. ASSUME NEW k \in Nat PROVE k * d \in Nat /\ (a + k) * d = a * d + k * d
  OBVIOUS
<1>2. ASSUME a + 1 <= b PROVE a * d + d <= b * d
  <2>. DEFINE k == b - a - 1
  <2>1. k \in Nat /\ b = (a + 1) + k
    BY <1>2
  <2>2. b * d = a * d + d + k * d /\ k * d \in Nat
    <3>. HIDE DEF k
    <3>. QED
      BY <2>1
  <2>. QED
    BY <2>2
<1>3. ASSUME a + 2 <= b PROVE a * d + 2 * d <= b * d
  <2>. DEFINE k == b - a - 2
  <2>1. k \in Nat /\ b = (a + 2) + k
    BY <1>3
  <2>2. b * d = a * d + 2 * d + k * d /\ k * d \in Nat
    <3>. HIDE DEF k
    <3>. QED
      BY <2>1
  <2>. QED
    BY <2>2
<1>. QED
  BY <1>2, <1>3

\* A settled code is the one the format encodes to.
LEMMA SettledIsEncoded ==
  ASSUME NEW n \in Int, NEW d \in Nat \ {0}, NEW c \in Codes(OUT_BITS), Settled(c, n, d)
  PROVE  Encoded(n, d) = c
<1>. DEFINE h == 2^(OUT_BITS - 1)
            nearest == {x \in Codes(OUT_BITS) :
                          \A o \in Codes(OUT_BITS) : Distance(x * d, n) <= Distance(o * d, n)}
<1>1. /\ h \in Nat \ {0}
      /\ \A x : x \in Codes(OUT_BITS) <=> x \in Int /\ -h <= x /\ x < h
  BY ModelCWidths, Halves, CodesAreIntegers
<1>2. ASSUME NEW o \in Codes(OUT_BITS), o # c
      PROVE  /\ Distance(c * d, n) <= Distance(o * d, n)
             /\ Distance(c * d, n) = Distance(o * d, n) => c % 2 = 0 /\ o % 2 # 0
  <2>1. o \in Int /\ c \in Int /\ o < h /\ -h <= o
    BY <1>1
  <2>2. /\ c * d \in Int /\ o * d \in Int
        /\ c + 1 <= o => c * d + d <= o * d
        /\ c + 2 <= o => c * d + 2 * d <= o * d
        /\ o + 1 <= c => o * d + d <= c * d
        /\ o + 2 <= c => o * d + 2 * d <= c * d
    BY <2>1, Multiples
  <2>. DEFINE u == c * d
              v == o * d
  <2>3. \/ 2 * Distance(u, n) < d
        \/ 2 * Distance(u, n) = d /\ c % 2 = 0
        \/ c = h - 1 /\ u <= n
        \/ c = -h /\ n <= u
    BY DEF Settled
  <2>4. /\ u \in Int /\ v \in Int
        /\ c + 1 <= o => u + d <= v
        /\ c + 2 <= o => u + 2 * d <= v
        /\ o + 1 <= c => v + d <= u
        /\ o + 2 <= c => v + 2 * d <= u
    BY <2>2
  <2>. HIDE DEF u, v, h
  <2>5. CASE 2 * Distance(u, n) < d
    <3>1. Distance(u, n) < Distance(v, n)
      BY <1>2, <2>1, <2>4, <2>5 DEF Distance
    <3>2. Distance(u, n) \in Int /\ Distance(v, n) \in Int
      BY <2>4 DEF Distance
    <3>. QED
      BY <3>1, <3>2 DEF u, v
  <2>6. CASE 2 * Distance(u, n) = d /\ c % 2 = 0
    <3>1. Distance(u, n) <= Distance(v, n)
      BY <1>2, <2>1, <2>4, <2>6 DEF Distance
    <3>2. Distance(u, n) = Distance(v, n) => o = c + 1 \/ o = c - 1
      BY <1>2, <2>1, <2>4, <2>6 DEF Distance
    <3>3. o = c + 1 \/ o = c - 1 => o % 2 # 0
      BY <2>1, <2>6
    <3>. QED
      BY <2>6, <3>1, <3>2, <3>3 DEF u, v
  <2>7. ASSUME \/ c = h - 1 /\ u <= n
               \/ c = -h /\ n <= u
        PROVE  Distance(u, n) < Distance(v, n) /\ Distance(u, n) \in Int
                 /\ Distance(v, n) \in Int
    <3>1. CASE c = h - 1 /\ u <= n
      <4>1. v + d <= u
        BY <1>1, <1>2, <2>1, <2>4, <3>1
      <4>. QED
        BY <2>4, <3>1, <4>1 DEF Distance
    <3>2. CASE c = -h /\ n <= u
      <4>1. u + d <= v
        BY <1>1, <1>2, <2>1, <2>4, <3>2
      <4>. QED
        BY <2>4, <3>2, <4>1 DEF Distance
    <3>. QED
      BY <2>7, <3>1, <3>2
  <2>8. CASE \/ c = h - 1 /\ u <= n
             \/ c = -h /\ n <= u
    BY <2>7, <2>8 DEF u, v
  <2>. QED
    BY <2>3, <2>5, <2>6, <2>8 DEF u, v
<1>3. c \in nearest
  <2>1. Distance(c * d, n) <= Distance(c * d, n)
    <3>1. c \in Int /\ c * d \in Int
      BY <1>1, Multiples
    <3>. QED
      BY <3>1 DEF Distance
  <2>. QED
    BY <1>2, <2>1
<1>4. ASSUME NEW o \in nearest, o # c
      PROVE  c % 2 = 0 /\ o % 2 # 0
  <2>1. o \in Codes(OUT_BITS) /\ Distance(o * d, n) <= Distance(c * d, n)
    OBVIOUS
  <2>2. Distance(c * d, n) \in Int /\ Distance(o * d, n) \in Int
    <3>1. /\ o \in Int /\ c \in Int /\ o * d \in Int /\ c * d \in Int
      BY <1>1, <2>1, Multiples
    <3>. QED
      BY <3>1 DEF Distance
  <2>3. Distance(c * d, n) <= Distance(o * d, n)
    BY <1>2, <1>4, <2>1
  <2>4. Distance(c * d, n) = Distance(o * d, n)
    BY <2>1, <2>2, <2>3
  <2>. QED
    BY <1>2, <1>4, <2>1, <2>4
<1>5. Encoded(n, d) = CHOOSE x \in nearest : x % 2 = 0 \/ nearest = {x}
  BY DEF Encoded
<1>. HIDE DEF nearest
<1>6. c % 2 = 0 \/ nearest = {c}
  BY <1>3, <1>4
<1>7. ASSUME NEW x \in nearest, x % 2 = 0 \/ nearest = {x}
      PROVE  x = c
  BY <1>3, <1>4, <1>7
<1>. QED
  BY <1>3, <1>5, <1>6, <1>7


-----------------------------------------------------------------------------
(* The output conversion *)

LEMMA Division ==
  ASSUME NEW x \in Nat, NEW d \in Nat \ {0}
  PROVE  /\ x \div d \in Nat /\ x % d \in Nat /\ x % d < d
         /\ x = ((x \div d) * d) + (x % d)
OBVIOUS

\* What a magnitude may be: the largest is that of the least code.
Magnitude(code) == IF code < 0 THEN -code ELSE code

LEMMA MagnitudeFits ==
  ASSUME NEW code \in Codes(ACC_BITS)
  PROVE  /\ code \in Int /\ Magnitude(code) \in Nat
         /\ Unsigned(Magnitude(code), Wide) = Magnitude(code)
         /\ Magnitude(code) + 1 < 2^Wide
<1>. DEFINE h == 2^(ACC_BITS - 1)
<1>1. h \in Nat \ {0} /\ 2^ACC_BITS = 2 * h /\ 2^Wide = 2 * 2^ACC_BITS
  BY ModelCWidths, Halves, PowerNext DEF Wide
<1>2. code \in Int /\ -h <= code /\ code < h
  BY ModelCWidths, CodesAreIntegers
<1>. HIDE DEF h
<1>3. Magnitude(code) \in Nat /\ Magnitude(code) <= h
  BY <1>1, <1>2 DEF Magnitude
<1>4. Magnitude(code) + 1 < 2^Wide /\ Magnitude(code) < 2^Wide
  BY <1>1, <1>3
<1>5. Wide \in Nat
  BY ModelCWidths DEF Wide
<1>. QED
  BY <1>2, <1>3, <1>4, <1>5, UnsignedKeeps

LEMMA LimitsFit ==
  ASSUME NEW negative \in BOOLEAN
  PROVE  /\ limit(negative) \in Nat
         /\ limit(negative) < 2^OUT_BITS /\ limit(negative) < 2^Wide
<1>. DEFINE h == 2^(OUT_BITS - 1)
<1>1. h \in Nat \ {0} /\ 2^OUT_BITS = 2 * h
  BY ModelCWidths, Halves
<1>2. 2^OUT_BITS <= 2^Wide /\ 2^Wide \in Nat
  <2>1. OUT_BITS \in Nat /\ Wide \in Nat /\ OUT_BITS <= Wide
    BY ModelCWidths DEF Wide
  <2>. QED
    BY <2>1, PowerMonotonic, PowerPositive
<1>3. limit(negative) = IF negative THEN h ELSE h - 1
  BY DEF limit
<1>. HIDE DEF h
<1>. QED
  BY <1>1, <1>2, <1>3

\* round_right is within half a step, on the even side of a tie.
LEMMA RoundRightIsNearest ==
  ASSUME NEW m \in Nat, m + 1 < 2^Wide, NEW shift \in Nat \ {0}
  PROVE  LET d == 2^shift
             q == round_right(m, shift)
         IN  /\ q \in Nat
             /\ 2 * Distance(q * d, m) < d \/ (2 * Distance(q * d, m) = d /\ q % 2 = 0)
<1>. DEFINE d == 2^shift
            halfway == 2^(shift - 1)
            quotient == m \div d
            remainder == m % d
            up == remainder > halfway \/ (remainder = halfway /\ quotient % 2 = 1)
            rounded == quotient + (IF up THEN 1 ELSE 0)
<1>1. halfway \in Nat \ {0} /\ d = 2 * halfway
  BY Halves
<1>2. /\ quotient \in Nat /\ remainder \in Nat /\ remainder < d
      /\ m = (quotient * d) + remainder
  <2>1. d \in Nat \ {0}
    BY <1>1
  <2>. HIDE DEF d, halfway
  <2>. QED
    BY <2>1, Division
<1>3. quotient <= m
  <2>. DEFINE x == quotient * d
  <2>1. x \in Nat /\ quotient <= x
    <3>. HIDE DEF d, quotient
    <3>. QED
      BY <1>1, <1>2
  <2>2. m = x + remainder
    BY <1>2
  <2>. HIDE DEF x, quotient, remainder
  <2>. QED
    BY <1>2, <2>1, <2>2
<1>4. round_right(m, shift) = rounded
  <2>1. rounded \in Nat /\ rounded <= m + 1
    <3>. HIDE DEF up, quotient
    <3>. QED
      BY <1>2, <1>3
  <2>2. Wide \in Nat /\ 2^Wide \in Nat
    BY ModelCWidths, PowerPositive DEF Wide
  <2>3. rounded < 2^Wide
    <3>. HIDE DEF rounded
    <3>. QED
      BY <2>1, <2>2
  <2>4. Unsigned(rounded, Wide) = rounded
    BY <2>1, <2>2, <2>3, UnsignedKeeps
  <2>5. round_right(m, shift) = Unsigned(rounded, Wide)
    BY DEF round_right
  <2>. QED
    BY <2>4, <2>5
<1>5. CASE up
  <2>1. rounded = quotient + 1
    BY <1>5
  <2>2. rounded * d = (quotient * d) + d
    <3>. HIDE DEF rounded, quotient, d
    <3>. QED
      BY <1>1, <1>2, <2>1
  <2>. DEFINE x == quotient * d
  <2>3. x \in Int /\ m = x + remainder /\ rounded * d = x + d
    <3>1. x \in Int
      <4>. HIDE DEF quotient, d
      <4>. QED
        BY <1>1, <1>2
    <3>. QED
      BY <1>2, <2>2, <3>1
  <2>4. remainder > halfway \/ (remainder = halfway /\ rounded % 2 = 0)
    <3>1. ASSUME quotient % 2 = 1 PROVE (quotient + 1) % 2 = 0
      <4>. HIDE DEF quotient
      <4>. QED
        BY <1>2, <3>1
    <3>. QED
      BY <1>5, <2>1, <3>1
  <2>5. rounded \in Nat
    <3>. HIDE DEF quotient, rounded
    <3>. QED
      BY <1>2, <2>1
  <2>6. 2 * Distance(rounded * d, m) < d \/ (2 * Distance(rounded * d, m) = d /\ rounded % 2 = 0)
    <3>. HIDE DEF rounded, d, halfway, quotient, remainder, x
    <3>. QED
      BY <1>1, <1>2, <2>3, <2>4 DEF Distance
  <2>. QED
    BY <1>4, <2>5, <2>6
<1>6. CASE ~up
  <2>1. rounded = quotient
    <3>. HIDE DEF quotient, up
    <3>. QED
      BY <1>2, <1>6
  <2>. DEFINE x == quotient * d
  <2>2. x \in Int /\ m = x + remainder /\ rounded * d = x
    <3>1. x \in Int
      <4>. HIDE DEF quotient, d
      <4>. QED
        BY <1>1, <1>2
    <3>. QED
      BY <1>2, <2>1, <3>1
  <2>3. remainder < halfway \/ (remainder = halfway /\ rounded % 2 = 0)
    <3>1. quotient % 2 = 1 \/ quotient % 2 = 0
      <4>. HIDE DEF quotient
      <4>. QED
        BY <1>2
    <3>2. remainder < halfway \/ remainder = halfway \/ remainder > halfway
      <4>. HIDE DEF remainder, halfway
      <4>. QED
        BY <1>1, <1>2
    <3>. QED
      BY <1>6, <2>1, <3>1, <3>2
  <2>4. 2 * Distance(rounded * d, m) < d \/ (2 * Distance(rounded * d, m) = d /\ rounded % 2 = 0)
    <3>. HIDE DEF rounded, d, halfway, quotient, remainder, x
    <3>. QED
      BY <1>1, <1>2, <2>2, <2>3 DEF Distance
  <2>. QED
    BY <1>2, <1>4, <2>1, <2>4
<1>. QED
  BY <1>5, <1>6

\* shift_left saturates exactly when the shifted magnitude exceeds its bound.
LEMMA ShiftLeftSaturates ==
  ASSUME NEW m \in Nat, NEW shift \in Nat, NEW bound \in Nat, bound < 2^Wide
  PROVE  /\ m * 2^shift \in Nat
         /\ IF m * 2^shift > bound THEN shift_left(m, shift, bound) = bound + 1
            ELSE shift_left(m, shift, bound) = m * 2^shift
<1>. DEFINE d == 2^shift
            k == bound \div d
<1>1. d \in Nat \ {0}
  BY PowerPositive
<1>2. /\ k \in Nat /\ bound % d \in Nat /\ bound % d < d
      /\ bound = (k * d) + (bound % d)
  BY <1>1, Division
<1>3. m * d \in Nat /\ k * d \in Nat
  <2>. HIDE DEF d, k
  <2>. QED
    BY <1>1, <1>2
<1>4. shift_left(m, shift, bound) = IF m > k THEN bound + 1 ELSE Unsigned(m * d, Wide)
  BY DEF shift_left
<1>5. CASE m > k
  <2>1. k * d + d <= m * d
    <3>1. k + 1 <= m
      <4>. HIDE DEF k
      <4>. QED
        BY <1>2, <1>5
    <3>. QED
      <4>. HIDE DEF k, d
      <4>. QED
        BY <1>1, <1>2, <3>1, Multiples
  <2>2. m * d > bound
    <3>. DEFINE x == k * d
                y == m * d
                r == bound % d
    <3>1. x \in Nat /\ y \in Nat /\ r \in Nat /\ r < d /\ bound = x + r /\ x + d <= y
      BY <1>2, <1>3, <2>1
    <3>. HIDE DEF x, y, r, d
    <3>2. y > bound
      BY <1>1, <3>1
    <3>. QED
      BY <3>2 DEF y
  <2>. QED
    BY <1>3, <1>4, <1>5, <2>2
<1>6. CASE ~(m > k)
  <2>1. m * d <= k * d
    <3>1. m <= k
      <4>. HIDE DEF k
      <4>. QED
        BY <1>2, <1>6
    <3>2. m = k \/ m + 1 <= k
      <4>. HIDE DEF k
      <4>. QED
        BY <1>2, <3>1
    <3>3. m + 1 <= k => m * d + d <= k * d
      <4>. HIDE DEF k, d
      <4>. QED
        BY <1>1, <1>2, Multiples
    <3>. DEFINE x == k * d
                y == m * d
    <3>4. m = k => y = x
      OBVIOUS
    <3>5. y <= x
      <4>1. x \in Nat /\ y \in Nat /\ (m + 1 <= k => y + d <= x)
        BY <1>3, <3>3
      <4>. HIDE DEF x, y, d, k
      <4>. QED
        BY <1>1, <3>2, <3>4, <4>1
    <3>. QED
      BY <3>5
  <2>2. m * d <= bound /\ m * d < 2^Wide
    <3>. DEFINE x == k * d
                y == m * d
                r == bound % d
    <3>1. x \in Nat /\ y \in Nat /\ r \in Nat /\ bound = x + r /\ y <= x
      BY <1>2, <1>3, <2>1
    <3>2. 2^Wide \in Nat
      BY ModelCWidths, PowerPositive DEF Wide
    <3>. HIDE DEF x, y, r, d
    <3>3. y <= bound /\ y < 2^Wide
      BY <3>1, <3>2
    <3>. QED
      BY <3>3 DEF y
  <2>3. Unsigned(m * d, Wide) = m * d
    BY <1>3, <2>2, ModelCWidths, UnsignedKeeps DEF Wide
  <2>4. ~(m * d > bound)
    <3>. DEFINE y == m * d
    <3>. HIDE DEF y
    <3>. QED
      BY <1>3, <2>2 DEF y
  <2>. QED
    BY <1>3, <1>4, <1>6, <2>3, <2>4
<1>. QED
  BY <1>5, <1>6


\* A magnitude within half a step, cut at the limit of its sign, is settled.
LEMMA BoundedIsSettled ==
  ASSUME NEW m \in Nat, NEW negative \in BOOLEAN, NEW d \in Nat \ {0}, NEW q \in Nat,
         2 * Distance(q * d, m) < d \/ (2 * Distance(q * d, m) = d /\ q % 2 = 0)
  PROVE  LET b == IF q > limit(negative) THEN limit(negative) ELSE q
             c == IF negative THEN -b ELSE b
             n == IF negative THEN -m ELSE m
         IN  /\ b \in Nat /\ b < 2^OUT_BITS
             /\ c \in Codes(OUT_BITS) /\ Settled(c, n, d)
<1>. DEFINE h == 2^(OUT_BITS - 1)
            b == IF q > limit(negative) THEN limit(negative) ELSE q
            c == IF negative THEN -b ELSE b
            n == IF negative THEN -m ELSE m
<1>1. /\ h \in Nat \ {0} /\ 2^OUT_BITS = 2 * h
      /\ \A x : x \in Codes(OUT_BITS) <=> x \in Int /\ -h <= x /\ x < h
  BY ModelCWidths, Halves, CodesAreIntegers
<1>2. limit(negative) = IF negative THEN h ELSE h - 1
  BY DEF limit
<1>3. b \in Nat /\ b <= limit(negative) /\ limit(negative) \in Nat
  <2>. HIDE DEF h
  <2>. QED
    BY <1>1, <1>2
<1>4. b < 2^OUT_BITS /\ c \in Int /\ -h <= c /\ c < h
  <2>. HIDE DEF h, b
  <2>. QED
    BY <1>1, <1>2, <1>3
<1>5. /\ q * d \in Int /\ b * d \in Int /\ c * d \in Int
      /\ c * d = IF negative THEN -(b * d) ELSE b * d
      /\ b + 1 <= q => b * d + d <= q * d
  <2>1. b * d \in Int /\ q * d \in Int /\ (b + 1 <= q => b * d + d <= q * d)
    <3>. HIDE DEF b
    <3>. QED
      BY <1>3, Multiples
  <2>2. (-b) * d = -(b * d)
    <3>. HIDE DEF b
    <3>. QED
      BY <1>3
  <2>. HIDE DEF b
  <2>. QED
    BY <2>1, <2>2
<1>6. Settled(c, n, d)
  <2>1. CASE q > limit(negative)
    <3>1. b = limit(negative) /\ b + 1 <= q
      <4>1. b = limit(negative)
        BY <2>1
      <4>. HIDE DEF b
      <4>. QED
        BY <1>3, <2>1, <4>1
    <3>. DEFINE x == q * d
                y == b * d
                z == c * d
    <3>2. /\ x \in Int /\ y \in Int /\ y + d <= x
          /\ z = IF negative THEN -y ELSE y
          /\ 2 * Distance(x, m) <= d
      <4>1. y + d <= x
        BY <1>5, <3>1
      <4>2. 2 * Distance(x, m) <= d
        <5>1. 2 * Distance(x, m) < d \/ (2 * Distance(x, m) = d /\ q % 2 = 0)
          OBVIOUS
        <5>. HIDE DEF x
        <5>. QED
          BY <1>5, <5>1 DEF Distance, x
      <4>. QED
        BY <1>5, <4>1, <4>2
    <3>3. y <= m
      <4>. HIDE DEF x, y, z
      <4>. QED
        BY <3>2 DEF Distance
    <3>4. IF negative THEN c = -h /\ n <= z ELSE c = h - 1 /\ z <= n
      <4>1. CASE negative
        <5>1. c = -h /\ n = -m /\ z = -y
          BY <1>2, <3>1, <3>2, <4>1
        <5>. HIDE DEF b, c, n, x, y, z, h
        <5>. QED
          BY <3>2, <3>3, <4>1, <5>1
      <4>2. CASE ~negative
        <5>1. c = h - 1 /\ n = m /\ z = y
          BY <1>2, <3>1, <3>2, <4>2
        <5>. HIDE DEF b, c, n, x, y, z, h
        <5>. QED
          BY <3>3, <4>2, <5>1
      <4>. QED
        BY <4>1, <4>2
    <3>. QED
      BY <3>4 DEF Settled
  <2>2. CASE ~(q > limit(negative))
    <3>1. b = q
      BY <2>2
    <3>. DEFINE x == q * d
                z == c * d
    <3>2. /\ x \in Int /\ z = IF negative THEN -x ELSE x
          /\ 2 * Distance(x, m) < d \/ (2 * Distance(x, m) = d /\ q % 2 = 0)
      BY <1>5, <3>1
    <3>3. Distance(z, n) = Distance(x, m)
      <4>1. CASE negative
        <5>1. n = -m /\ z = -x
          BY <3>2, <4>1
        <5>. HIDE DEF n, x, z
        <5>. QED
          BY <3>2, <5>1 DEF Distance
      <4>2. CASE ~negative
        BY <3>2, <4>2
      <4>. QED
        BY <4>1, <4>2
    <3>4. q % 2 = 0 => c % 2 = 0
      <4>1. c = q \/ c = -q
        BY <3>1
      <4>. HIDE DEF c
      <4>. QED
        BY <4>1
    <3>5. 2 * Distance(z, n) < d \/ (2 * Distance(z, n) = d /\ c % 2 = 0)
      <4>. HIDE DEF c, n, x, z
      <4>. QED
        BY <3>2, <3>3, <3>4
    <3>. QED
      BY <3>5 DEF Settled
  <2>. QED
    BY <2>1, <2>2
<1>. QED
  BY <1>1, <1>3, <1>4, <1>6

\* The conversion gives the oracle's code, for every scale and sign, with relu
\* or without.
LEMMA ConversionIsOracle ==
  ASSUME scale_exp \in ScaleExps, relu \in BOOLEAN, NEW code \in Codes(ACC_BITS)
  PROVE  /\ Signed(signed_value(code), OUT_BITS) = oracle_code(code)
         /\ oracle_code(code) \in Codes(OUT_BITS)
<1>. DEFINE negative == code < 0
            m == Magnitude(code)
            rounded == IF scale_exp < 0 THEN round_right(m, -scale_exp)
                       ELSE shift_left(m, scale_exp, limit(negative))
            bounded == IF rounded > limit(negative) THEN limit(negative) ELSE rounded
            signed == IF negative THEN -bounded ELSE bounded
<1>1. scale_exp \in Int /\ OUT_BITS \in Nat \ {0}
  BY ModelCAssumption, ModelCWidths
<1>2. /\ code \in Int /\ m \in Nat /\ m + 1 < 2^Wide
      /\ Unsigned(m, Wide) = m
      /\ code = IF negative THEN -m ELSE m
  <2>1. code \in Int => code = IF negative THEN -m ELSE m
    BY DEF Magnitude
  <2>. QED
    BY <2>1, MagnitudeFits
<1>3. CASE relu /\ negative
  <2>1. signed_value(code) = 0
    BY <1>3 DEF signed_value
  <2>2. 0 \in Codes(OUT_BITS)
    BY <1>1, Halves, CodesAreIntegers
  <2>3. \A d \in Nat \ {0} : Encoded(0, d) = 0
    <3>1. \A d \in Nat \ {0} : Settled(0, 0, d)
      BY DEF Settled, Distance
    <3>. QED
      BY <2>2, <3>1, SettledIsEncoded
  <2>4. oracle_code(code) = 0
    <3>1. CASE scale_exp < 0
      <4>1. 2^(-scale_exp) \in Nat \ {0}
        BY <1>1, <3>1, PowerPositive
      <4>2. oracle_code(code) = Encoded(0, 2^(-scale_exp))
        BY <1>3, <3>1 DEF oracle_code
      <4>. QED
        BY <2>3, <4>1, <4>2
    <3>2. CASE ~(scale_exp < 0)
      <4>1. 2^scale_exp \in Nat
        BY <1>1, <3>2, PowerPositive
      <4>2. 0 * 2^scale_exp = 0
        BY <4>1
      <4>3. oracle_code(code) = Encoded(0, 1)
        BY <1>3, <3>2, <4>2 DEF oracle_code
      <4>. QED
        BY <2>3, <4>3
    <3>. QED
      BY <3>1, <3>2
  <2>. QED
    BY <1>1, <2>1, <2>2, <2>4, SignedKeeps
<1>4. CASE ~(relu /\ negative)
  <2>1. signed \in Codes(OUT_BITS) /\ bounded \in Nat /\ bounded < 2^OUT_BITS
          /\ oracle_code(code) = signed
    <3>1. CASE scale_exp < 0
      <4>. DEFINE d == 2^(-scale_exp)
      <4>1. -scale_exp \in Nat \ {0} /\ d \in Nat \ {0}
        BY <1>1, <3>1, PowerPositive
      <4>2. rounded = round_right(m, -scale_exp)
        BY <3>1
      <4>3. /\ rounded \in Nat
            /\ \/ 2 * Distance(rounded * d, m) < d
               \/ 2 * Distance(rounded * d, m) = d /\ rounded % 2 = 0
        <5>. HIDE DEF m
        <5>. QED
          BY <1>2, <4>1, <4>2, RoundRightIsNearest
      <4>4. /\ bounded \in Nat /\ bounded < 2^OUT_BITS
            /\ signed \in Codes(OUT_BITS) /\ Settled(signed, code, d)
        <5>1. negative \in BOOLEAN
          OBVIOUS
        <5>. HIDE DEF m, rounded, d
        <5>. HIDE DEF negative
        <5>2. /\ bounded \in Nat /\ bounded < 2^OUT_BITS /\ signed \in Codes(OUT_BITS)
              /\ Settled(signed, IF negative THEN -m ELSE m, d)
          BY <1>2, <4>1, <4>3, <5>1, BoundedIsSettled
        <5>. QED
          BY <1>2, <5>2
      <4>5. oracle_code(code) = Encoded(code, d)
        BY <1>4, <3>1 DEF oracle_code
      <4>. QED
        <5>. HIDE DEF signed, bounded, d
        <5>. QED
          BY <1>2, <4>1, <4>4, <4>5, SettledIsEncoded
    <3>2. CASE ~(scale_exp < 0)
      <4>. DEFINE e == 2^scale_exp
                  q == m * e
      <4>0. scale_exp \in Nat /\ e \in Nat \ {0} /\ negative \in BOOLEAN
        BY <1>1, <3>2, PowerPositive
      <4>1. limit(negative) \in Nat /\ limit(negative) < 2^Wide
        <5>. HIDE DEF negative
        <5>. QED
          BY <4>0, LimitsFit
      <4>2. rounded = shift_left(m, scale_exp, limit(negative))
        BY <3>2
      <4>3. /\ q \in Nat
            /\ IF q > limit(negative) THEN rounded = limit(negative) + 1 ELSE rounded = q
        <5>. HIDE DEF m, rounded, negative
        <5>. QED
          BY <1>2, <4>0, <4>1, <4>2, ShiftLeftSaturates
      <4>4. bounded = IF q > limit(negative) THEN limit(negative) ELSE q
        <5>. HIDE DEF q, rounded, negative
        <5>. QED
          BY <4>1, <4>3
      <4>5. 2 * Distance(q * 1, q) < 1
        <5>. HIDE DEF q
        <5>. QED
          BY <4>3 DEF Distance
      <4>6. code * e = IF negative THEN -q ELSE q
        <5>1. (-m) * e = -(m * e)
          <6>. HIDE DEF m, e
          <6>. QED
            BY <1>2, <4>0
        <5>. HIDE DEF m, e, negative
        <5>. QED
          BY <1>2, <5>1
      <4>7. /\ bounded \in Nat /\ bounded < 2^OUT_BITS
            /\ signed \in Codes(OUT_BITS) /\ Settled(signed, code * e, 1)
        <5>. HIDE DEF q, e, negative, bounded
        <5>. QED
          BY <4>0, <4>3, <4>4, <4>5, <4>6, BoundedIsSettled
      <4>8. oracle_code(code) = Encoded(code * e, 1)
        BY <1>4, <3>2 DEF oracle_code
      <4>9. code * e \in Int
        <5>. HIDE DEF e
        <5>. QED
          BY <1>2, <4>0
      <4>. QED
        <5>. HIDE DEF signed, bounded, e
        <5>. QED
          BY <4>7, <4>8, <4>9, SettledIsEncoded
    <3>. QED
      BY <3>1, <3>2
  <2>2. signed_value(code) = IF negative THEN -Unsigned(bounded, OUT_BITS)
                             ELSE Unsigned(bounded, OUT_BITS)
    BY <1>2, <1>4 DEF signed_value, Magnitude
  <2>3. Unsigned(bounded, OUT_BITS) = bounded
    <3>. HIDE DEF bounded
    <3>. QED
      BY <1>1, <2>1, UnsignedKeeps
  <2>4. signed_value(code) = signed
    BY <2>2, <2>3
  <2>. HIDE DEF signed, bounded
  <2>. QED
    BY <1>1, <2>1, <2>4, SignedKeeps
<1>. QED
  BY <1>3, <1>4

-----------------------------------------------------------------------------
(* The pipeline beside Model C *)

\* OutputsAreModelC with what keeps it: the accumulator is the running sum
\* within a dot product or after a reset, and every register holds a code.
MacInvariant ==
  /\ scale_exp \in ScaleExps /\ relu \in BOOLEAN
  /\ mac_valid \in BOOLEAN /\ output_valid \in BOOLEAN
  /\ open \in {"unknown", "no", "yes"}
  /\ sum \in Codes(ACC_BITS)
  /\ biased \in Codes(ACC_BITS) \cup {Nothing}
  /\ open # "unknown" => acc_q = sum
  /\ OutputsAreModelC

\* A step without a dot product is told apart from every code.
LEMMA NothingIsNoCode == Nothing \notin Codes(ACC_BITS) /\ Nothing \notin Codes(OUT_BITS)
<1>. DEFINE h == 2^(ACC_BITS - 1)
<1>1. h \in Nat \ {0} /\ Nothing = 2 * h
  BY ModelCWidths, Halves DEF Nothing
<1>2. Nothing \notin Codes(ACC_BITS)
  BY <1>1, ModelCWidths, CodesAreIntegers
<1>3. Codes(OUT_BITS) \subseteq Codes(ACC_BITS)
  BY ModelCWidths, WiderCodes
<1>. QED
  BY <1>2, <1>3

LEMMA ZeroIsCode == 0 \in Codes(ACC_BITS)
BY ModelCWidths, Halves, CodesAreIntegers

\* Convert and Follow are the same step.
LEMMA ConvertFollows ==
  ASSUME MacInvariant, open # "unknown", Convert, Follow
  PROVE  /\ output_valid' \in BOOLEAN
         /\ output_valid' <=> stored' # Nothing
         /\ output_valid' => output_code' = stored'
<1>1. CASE mac_valid
  <2>1. result = biased /\ biased # Nothing /\ biased \in Codes(ACC_BITS)
    BY <1>1 DEF MacInvariant, OutputsAreModelC
  <2>2. /\ Signed(signed_value(biased), OUT_BITS) = oracle_code(biased)
        /\ oracle_code(biased) \in Codes(OUT_BITS)
    BY <2>1, ConversionIsOracle DEF MacInvariant
  <2>3. output_code' = Signed(signed_value(biased), OUT_BITS) /\ output_valid' = mac_valid
    BY <1>1, <2>1 DEF Convert
  <2>4. stored' = oracle_code(biased)
    BY <2>1 DEF Follow
  <2>. QED
    BY <1>1, <2>2, <2>3, <2>4, NothingIsNoCode
<1>2. CASE ~mac_valid
  <2>1. stored' = Nothing
    BY <1>2 DEF MacInvariant, OutputsAreModelC, Follow
  <2>2. output_valid' = FALSE
    BY <1>2 DEF Convert, MacInvariant
  <2>. QED
    BY <2>1, <2>2
<1>. QED
  BY <1>1, <1>2

LEMMA ProductKeeps ==
  ASSUME MacInvariant,
         NEW weight \in Codes(W_BITS), NEW activation \in Codes(A_BITS),
         NEW dot_start \in BOOLEAN, NEW dot_end \in BOOLEAN,
         NEW bias \in Codes(ACC_BITS),
         Product(weight, activation, dot_start, dot_end, bias)
  PROVE  MacInvariant'
<1>. DEFINE base == IF dot_start THEN 0 ELSE sum
            rounded == Rounded(base + (activation * weight))
<1>1. open # "unknown" /\ Convert /\ Follow /\ acc_q = sum
  BY DEF Product, ModelProduct, MacInvariant
<1>2. /\ output_valid' \in BOOLEAN
      /\ output_valid' <=> stored' # Nothing
      /\ output_valid' => output_code' = stored'
  BY <1>1, ConvertFollows
<1>3. base \in Codes(ACC_BITS) /\ activation * weight \in Codes(ACC_BITS)
        /\ product(weight, activation) = activation * weight
  BY ZeroIsCode, ProductFits DEF MacInvariant
<1>4. \A x \in Codes(ACC_BITS) : x \in Int
  BY ModelCWidths, CodesAreIntegers
<1>5. base + (activation * weight) \in Int
  BY <1>3, <1>4
<1>6. rounded \in Codes(ACC_BITS)
  BY <1>5, RoundedIsCode
<1>7. mac_rounded(weight, activation, dot_start) = rounded
  <2>1. mac_rounded(weight, activation, dot_start)
          = saturate(Signed(base + product(weight, activation), ACC_BITS + 1))
    BY <1>1 DEF mac_rounded
  <2>. HIDE DEF base
  <2>. QED
    BY <1>3, <2>1, SaturateRounds
<1>8. acc_q' = rounded /\ sum' = rounded
  BY <1>7 DEF Product, ModelProduct, Added
<1>9. /\ biased' = IF dot_end THEN Rounded(rounded + bias) ELSE Nothing
      /\ dot_end => result' = Rounded(rounded + bias)
      /\ Rounded(rounded + bias) \in Codes(ACC_BITS)
  <2>. HIDE DEF rounded
  <2>1. biased_result(rounded, bias) = Rounded(rounded + bias)
    BY <1>6, SaturateRounds DEF biased_result
  <2>2. rounded + bias \in Int
    BY <1>4, <1>6
  <2>3. Rounded(rounded + bias) \in Codes(ACC_BITS)
    BY <2>2, RoundedIsCode
  <2>4. biased' = IF dot_end THEN Rounded(rounded + bias) ELSE Nothing
    BY <1>8 DEF Product, ModelProduct
  <2>5. dot_end => result' = Rounded(rounded + bias)
    BY <1>7, <2>1 DEF Product
  <2>. QED
    BY <2>3, <2>4, <2>5
<1>10. mac_valid' = dot_end /\ open' \in {"no", "yes"} /\ UNCHANGED configVars
  BY DEF Product
<1>11. mac_valid' <=> biased' # Nothing
  BY <1>9, <1>10, NothingIsNoCode
<1>12. mac_valid' => result' = biased'
  BY <1>9, <1>10
<1>. HIDE DEF rounded
<1>. QED
  BY <1>2, <1>6, <1>8, <1>9, <1>10, <1>11, <1>12
     DEF MacInvariant, OutputsAreModelC, configVars, Nothing

\* The accumulator register is the running sum of Model C, whatever edges come.
THEOREM MacInvariantHolds == MacSpec => []MacInvariant
<1>1. MacInit => MacInvariant
  BY ZeroIsCode DEF MacInit, ModelInit, MacInvariant, OutputsAreModelC
<1>2. ASSUME MacInvariant, [MacNext]_allVars
      PROVE  MacInvariant'
  <2>1. CASE Reset
    BY <1>2, <2>1, ZeroIsCode
       DEF Reset, ModelReset, MacInvariant, OutputsAreModelC, configVars, Nothing
  <2>2. CASE Idle
    <3>1. open # "unknown" /\ Convert /\ Follow
      BY <2>2 DEF Idle, ModelIdle
    <3>2. /\ output_valid' \in BOOLEAN
          /\ output_valid' <=> stored' # Nothing
          /\ output_valid' => output_code' = stored'
      BY <1>2, <3>1, ConvertFollows
    <3>3. /\ mac_valid' = FALSE /\ biased' = Nothing
          /\ UNCHANGED <<sum, acc_q, open, scale_exp, relu>>
      BY <2>2 DEF Idle, ModelIdle
    <3>. QED
      BY <1>2, <3>1, <3>2, <3>3 DEF MacInvariant, OutputsAreModelC, Nothing
  <2>3. ASSUME NEW weight \in Codes(W_BITS), NEW activation \in Codes(A_BITS),
               NEW dot_start \in BOOLEAN,
               Product(weight, activation, dot_start, FALSE, 0)
        PROVE  MacInvariant'
    BY <1>2, <2>3, ZeroIsCode, ProductKeeps
  <2>4. ASSUME NEW weight \in Codes(W_BITS), NEW activation \in Codes(A_BITS),
               NEW dot_start \in BOOLEAN, NEW bias \in Biases,
               Product(weight, activation, dot_start, TRUE, bias)
        PROVE  MacInvariant'
    <3>1. bias \in Codes(ACC_BITS)
      BY ModelCAssumption DEF Codes
    <3>. QED
      BY <1>2, <2>4, <3>1, ProductKeeps
  <2>5. CASE UNCHANGED allVars
    BY <1>2, <2>5 DEF allVars, MacInvariant, OutputsAreModelC, Nothing
  <2>. QED
    BY <1>2, <2>1, <2>2, <2>3, <2>4, <2>5 DEF MacNext
<1>. QED
  BY <1>1, <1>2, PTL DEF MacSpec

\* For every width, scale and bias, with any sequence of edges from any contents
\* of the registers, the raw output and the stored one are valid exactly when a
\* dot product ended and are the codes of model_c and of the output oracle.
THEOREM OutputsMatchModelC == MacSpec => []OutputsAreModelC
<1>1. MacInvariant => OutputsAreModelC
  BY DEF MacInvariant
<1>. QED
  BY <1>1, MacInvariantHolds, PTL

=============================================================================
