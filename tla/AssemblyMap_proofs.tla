------------------------ MODULE AssemblyMap_proofs ------------------------
(***************************************************************************)
(* AssemblyMap for every layout, every set of commands and every bound;    *)
(* overlapping layouts are included except where DisjointFields is a       *)
(* hypothesis.  The recursions of IntValue() and FloatValue() are CHOOSEn  *)
(* functions: a solution is exhibited or built, and induction over the     *)
(* interval of its arguments (DownTo, UpTo) says what every solution is.   *)
(***************************************************************************)
EXTENDS AssemblyMap, GreatestElement, SequenceTheorems

LEMMA StoredBitType ==
  ASSUME NEW machine, NEW f, NEW d, NEW a
  PROVE  StoredBit(machine, f, d, a) \in {0, 1}
BY DEF StoredBit, FloatBit, Bit

LEMMA PackedBitType ==
  ASSUME NEW machine, NEW values, NEW a
  PROVE  PackedBit(machine, values, a) \in {0, 1}
BY StoredBitType DEF PackedBit

LEMMA TypeSizeType ==
  ASSUME NEW type PROVE TypeSize(type) \in Nat
BY DEF TypeSize

LEMMA FieldEndType ==
  ASSUME NEW f, f.offset \in Nat
  PROVE  /\ FieldEnd(f) \in Nat
         /\ FieldEnd(f) >= f.offset + TypeSize(f.type)
         /\ FieldEnd(f) >= f.offset + 1
<1> DEFINE size == TypeSize(f.type)
           S == {size, 1}
<1>1. size \in Nat
  BY TypeSizeType
<1>2. S \in SUBSET Int /\ S # {}
  BY <1>1
<1>3. IsFiniteSet(S)
  <2>1. IsFiniteSet({size}) /\ S = {size} \cup {1}
    BY FS_Singleton
  <2> QED BY <2>1, FS_AddElement
<1>4. Max(S) \in S /\ Max(S) >= size /\ Max(S) >= 1
  <2> HIDE DEF size
  <2> QED BY <1>2, <1>3, MaxIsGreatest
<1>5. FieldEnd(f) = f.offset + Max(S)
  BY DEF FieldEnd
<1> HIDE DEF size
<1>6. Max(S) \in Nat
  BY <1>1, <1>4
<1> QED BY <1>1, <1>4, <1>5, <1>6 DEF size

(***************************************************************************)
(* The table: every name has a field, which is one of the mappings.        *)
(***************************************************************************)
LEMMA FieldsAreMappings ==
  ASSUME NEW n \in Names
  PROVE  \E i \in DOMAIN Layout : Fields[n] = Layout[i]
<1> DEFINE same == {i \in DOMAIN Layout : Layout[i].name = n}
<1>1. DOMAIN Layout = 1 .. Len(Layout) /\ Len(Layout) \in Nat
  BY LayoutAssumption, LenProperties
<1>2. same \in SUBSET Int /\ same # {} /\ same \subseteq DOMAIN Layout
  BY <1>1 DEF Names
<1>3. IsFiniteSet(same)
  <2>1. IsFiniteSet(1 .. Len(Layout))
    BY <1>1, FS_Interval
  <2> QED BY <1>1, <1>2, <2>1, FS_Subset
<1>4. Max(same) \in same
  <2> HIDE DEF same
  <2> QED BY <1>2, <1>3, MaxIsGreatest
<1>5. Fields[n] = Layout[Max(same)]
  BY DEF Fields
<1> HIDE DEF same
<1> QED BY <1>2, <1>4, <1>5

LEMMA MappingType ==
  ASSUME NEW i \in DOMAIN Layout
  PROVE  Layout[i].offset \in Nat /\ Layout[i].bit \in Nat
<1> DEFINE mappings == [name : STRING, type : STRING, offset : Nat, bit : Nat]
<1>1. Layout \in [1 .. Len(Layout) -> mappings] /\ DOMAIN Layout = 1 .. Len(Layout)
  <2> HIDE DEF mappings
  <2> QED BY LayoutAssumption, LenProperties DEF mappings
<1>2. Layout[i] \in mappings
  BY <1>1
<1> QED BY <1>2

\* No field lies beyond the computed size.
LEMMA MappingsFit ==
  ASSUME NEW i \in DOMAIN Layout
  PROVE  BufferSize(0) \in Nat /\ BufferSize(0) >= FieldEnd(Layout[i])
<1> DEFINE ends == {FieldEnd(Layout[m]) : m \in DOMAIN Layout}
<1>1. DOMAIN Layout = 1 .. Len(Layout) /\ Len(Layout) \in Nat
  BY LayoutAssumption, LenProperties
<1>2. \A m \in DOMAIN Layout : FieldEnd(Layout[m]) \in Nat
  BY MappingType, FieldEndType
<1>3. ends \in SUBSET Int /\ ends # {} /\ \A e \in ends : e \in Nat
  BY <1>2
<1>4. IsFiniteSet(ends)
  <2>1. IsFiniteSet(DOMAIN Layout)
    BY <1>1, FS_Interval
  <2> DEFINE end == [m \in DOMAIN Layout |-> FieldEnd(Layout[m])]
  <2>2. end \in Surjection(DOMAIN Layout, ends)
    BY DEF Surjection
  <2> HIDE DEF ends, end
  <2> QED BY <2>1, <2>2, FS_Surjection
<1>5. Max(ends) \in ends /\ \A e \in ends : Max(ends) >= e
  <2> HIDE DEF ends
  <2> QED BY <1>3, <1>4, MaxIsGreatest
<1>6. BufferSize(0) = Max(ends)
  BY DEF BufferSize
<1>7. FieldEnd(Layout[i]) \in ends
  OBVIOUS
<1> HIDE DEF ends
<1> QED BY <1>3, <1>5, <1>6, <1>7

\* A setter stores inside what FieldEnd() counts, a bool of any bit too.
LEMMA BitsBeforeEnd ==
  ASSUME NEW f, f.offset \in Nat
  PROVE  BitsOf(f) \subseteq 0 .. (8 * FieldEnd(f) - 1)
<1>1. /\ FieldEnd(f) \in Nat /\ TypeSize(f.type) \in Nat
      /\ FieldEnd(f) >= f.offset + TypeSize(f.type)
      /\ FieldEnd(f) >= f.offset + 1
  BY FieldEndType, TypeSizeType
<1>2. CASE f.type = "bool"
  <2> SUFFICES ASSUME NEW bit \in 0 .. 7 PROVE First(f) + bit \in 0 .. (8 * FieldEnd(f) - 1)
    BY <1>2 DEF BitsOf, BoolBit
  <2> QED BY <1>1 DEF First
<1>3. CASE f.type # "bool"
  <2> SUFFICES ASSUME NEW a \in First(f) .. (First(f) + 8 * TypeSize(f.type) - 1)
               PROVE  a \in 0 .. (8 * FieldEnd(f) - 1)
    BY <1>3 DEF BitsOf
  <2> QED BY <1>1 DEF First
<1> QED BY <1>2, <1>3

(***************************************************************************)
(* Numbers and their bits.                                                 *)
(***************************************************************************)

\* The provers know powers of given numbers only, so a name that they do not
\* look into stands for the operator.
Power(i) == 2^i


LEMMA PowersOfTwo ==
  ASSUME NEW i \in 0 .. 31
  PROVE  Power(i) \in Nat \ {0} /\ Power(i + 1) = 2 * Power(i)
<1>0. CASE i = 0  BY <1>0 DEF Power
<1>1. CASE i = 1  BY <1>1 DEF Power
<1>2. CASE i = 2  BY <1>2 DEF Power
<1>3. CASE i = 3  BY <1>3 DEF Power
<1>4. CASE i = 4  BY <1>4 DEF Power
<1>5. CASE i = 5  BY <1>5 DEF Power
<1>6. CASE i = 6  BY <1>6 DEF Power
<1>7. CASE i = 7  BY <1>7 DEF Power
<1>8. CASE i = 8  BY <1>8 DEF Power
<1>9. CASE i = 9  BY <1>9 DEF Power
<1>10. CASE i = 10  BY <1>10 DEF Power
<1>11. CASE i = 11  BY <1>11 DEF Power
<1>12. CASE i = 12  BY <1>12 DEF Power
<1>13. CASE i = 13  BY <1>13 DEF Power
<1>14. CASE i = 14  BY <1>14 DEF Power
<1>15. CASE i = 15  BY <1>15 DEF Power
<1>16. CASE i = 16  BY <1>16 DEF Power
<1>17. CASE i = 17  BY <1>17 DEF Power
<1>18. CASE i = 18  BY <1>18 DEF Power
<1>19. CASE i = 19  BY <1>19 DEF Power
<1>20. CASE i = 20  BY <1>20 DEF Power
<1>21. CASE i = 21  BY <1>21 DEF Power
<1>22. CASE i = 22  BY <1>22 DEF Power
<1>23. CASE i = 23  BY <1>23 DEF Power
<1>24. CASE i = 24  BY <1>24 DEF Power
<1>25. CASE i = 25  BY <1>25 DEF Power
<1>26. CASE i = 26  BY <1>26 DEF Power
<1>27. CASE i = 27  BY <1>27 DEF Power
<1>28. CASE i = 28  BY <1>28 DEF Power
<1>29. CASE i = 29  BY <1>29 DEF Power
<1>30. CASE i = 30  BY <1>30 DEF Power
<1>31. CASE i = 31  BY <1>31 DEF Power
<1> QED
  BY <1>0, <1>1, <1>2, <1>3, <1>4, <1>5, <1>6, <1>7, <1>8, <1>9, <1>10,
     <1>11, <1>12, <1>13, <1>14, <1>15, <1>16, <1>17, <1>18, <1>19, <1>20,
     <1>21, <1>22, <1>23, <1>24, <1>25, <1>26, <1>27, <1>28, <1>29, <1>30,
     <1>31

LEMMA PowerProduct ==
  ASSUME NEW w \in 0 .. 32, NEW i \in 0 .. w
  PROVE  Power(w) \in Nat \ {0} /\ Power(w) = Power(i) * Power(w - i)
<1> DEFINE S == {k \in 0 .. w : Power(w) = Power(k) * Power(w - k)}
<1>1. \A k \in 0 .. 32 : Power(k) \in Nat \ {0}
  <2> SUFFICES ASSUME NEW k \in 0 .. 32 PROVE Power(k) \in Nat \ {0}
    OBVIOUS
  <2>1. CASE k = 0
    BY <2>1 DEF Power
  <2>2. CASE k # 0
    <3>1. k - 1 \in 0 .. 31 /\ (k - 1) + 1 = k
      BY <2>2
    <3> QED BY <3>1, PowersOfTwo
  <2> QED BY <2>1, <2>2
<1>2. w \in S
  <2>1. w - w = 0 /\ Power(0) = 1
    BY DEF Power
  <2> QED BY <1>1, <2>1
<1>3. ASSUME NEW k \in 0 .. (w - 1), k + 1 \in S
      PROVE  k \in S
  <2>1. Power(k + 1) = 2 * Power(k)
    BY PowersOfTwo
  <2>2. Power(w - k) = 2 * Power(w - (k + 1))
    <3>1. w - (k + 1) \in 0 .. 31 /\ (w - (k + 1)) + 1 = w - k
      OBVIOUS
    <3> QED BY <3>1, PowersOfTwo
  <2>3. Power(k) \in Int /\ Power(w - (k + 1)) \in Int
    BY <1>1
  <2> QED BY <1>3, <2>1, <2>2, <2>3
<1>4. 0 .. w \subseteq S
  <2> HIDE DEF S
  <2> QED BY <1>2, <1>3, DownTo
<1> QED BY <1>1, <1>4

LEMMA DivisionInParts ==
  ASSUME NEW v \in Int, NEW a \in Nat \ {0}, NEW b \in Nat \ {0}
  PROVE  (v \div a) \div b = v \div (a * b)
OBVIOUS

LEMMA BitIsDigit ==
  ASSUME NEW v \in Int, NEW i \in 0 .. 31
  PROVE  /\ v \div Power(i) \in Int
         /\ Bit(v, i) = (v \div Power(i)) % 2
         /\ v \div Power(i) = 2 * (v \div Power(i + 1)) + Bit(v, i)
<1> DEFINE h == i \div 2
<1>1. h \in 0 .. i
  OBVIOUS
<1> HIDE DEF h
<1>2. Power(h) \in Nat \ {0} /\ Power(i - h) \in Nat \ {0} /\ Power(i) \in Nat \ {0}
  <2>1. h \in 0 .. 31 /\ i - h \in 0 .. 31
    BY <1>1
  <2> QED BY <2>1, PowersOfTwo
<1>3. (v \div Power(h)) \div Power(i - h) = v \div Power(i)
  <2>1. Power(i) = Power(h) * Power(i - h)
    <3>1. i \in 0 .. 32
      OBVIOUS
    <3> QED BY <1>1, <3>1, PowerProduct
  <2> QED BY <1>2, <2>1, DivisionInParts
<1>4. v \div Power(i) \in Int
  BY <1>2
<1>5. Bit(v, i) = (v \div Power(i)) % 2
  <2>1. Bit(v, i) = IF (v \div Power(i)) % 2 = 1 THEN 1 ELSE 0
    BY <1>3 DEF Bit, h, Power
  <2>2. \A x \in Int : x % 2 \in {0, 1}
    OBVIOUS
  <2> QED BY <1>4, <2>1, <2>2
<1>6. (v \div Power(i)) \div 2 = v \div Power(i + 1)
  <2>1. Power(i + 1) = Power(i) * 2
    BY <1>2, PowersOfTwo
  <2>2. (v \div Power(i)) \div 2 = v \div (Power(i) * 2)
    BY <1>2, DivisionInParts
  <2> QED BY <2>1, <2>2
<1>7. \A x \in Int : x = 2 * (x \div 2) + (x % 2)
  OBVIOUS
<1> QED BY <1>4, <1>5, <1>6, <1>7

\* A number is what IntValue() makes of its bits, if it fits into them.
LEMMA ValueOfBits ==
  ASSUME NEW w \in 1 .. 32, NEW signed \in BOOLEAN, NEW v \in Int,
         v \in IF signed THEN -Power(w - 1) .. (Power(w - 1) - 1)
               ELSE 0 .. (Power(w) - 1),
         NEW p, \A i \in 0 .. (w - 1) : p[i] = Bit(v, i)
  PROVE  IntValue(p, w, signed) = v
<1> DEFINE step(g) ==
             [i \in 0 .. (w - 1) |->
                IF i = w - 1 THEN IF signed THEN -p[i] ELSE p[i]
                ELSE 2 * g[i + 1] + p[i]]
           from == CHOOSE g : g = step(g)
           high == [i \in 0 .. (w - 1) |-> v \div Power(i)]
<1>1. \A i \in 0 .. (w - 1) :
        /\ v \div Power(i) \in Int
        /\ p[i] = (v \div Power(i)) % 2
        /\ v \div Power(i) = 2 * (v \div Power(i + 1)) + p[i]
  <2> SUFFICES ASSUME NEW i \in 0 .. (w - 1)
               PROVE  /\ v \div Power(i) \in Int
                      /\ p[i] = (v \div Power(i)) % 2
                      /\ v \div Power(i) = 2 * (v \div Power(i + 1)) + p[i]
    OBVIOUS
  <2>1. i \in 0 .. 31 /\ p[i] = Bit(v, i)
    OBVIOUS
  <2> QED BY <2>1, BitIsDigit
<1>2. high[w - 1] = IF signed THEN -p[w - 1] ELSE p[w - 1]
  <2>1. Power(w - 1) \in Nat \ {0} /\ Power(w) = 2 * Power(w - 1)
    <3>1. w - 1 \in 0 .. 31 /\ (w - 1) + 1 = w
      OBVIOUS
    <3> QED BY <3>1, PowersOfTwo
  <2> DEFINE P == Power(w - 1)
             top == v \div P
  <2>2. p[w - 1] = top % 2 /\ high[w - 1] = top
    BY <1>1
  <2>3. CASE signed
    <3>1. v \in -P .. (P - 1) /\ P \in Nat \ {0}
      BY <2>1, <2>3
    <3> HIDE DEF P
    <3>2. top \in {-1, 0}
      BY <3>1
    <3> QED BY <2>2, <2>3, <3>2
  <2>4. CASE ~signed
    <3>1. v \in 0 .. (2 * P - 1) /\ P \in Nat \ {0}
      BY <2>1, <2>4
    <3> HIDE DEF P
    <3>2. top \in {0, 1}
      BY <3>1
    <3> QED BY <2>2, <2>4, <3>2
  <2> QED BY <2>3, <2>4
<1>3. high = step(high)
  <2>1. ASSUME NEW i \in 0 .. (w - 1)
        PROVE  high[i] = step(high)[i]
    <3>1. CASE i = w - 1
      BY <1>2, <3>1
    <3>2. CASE i # w - 1
      <4>1. i + 1 \in 0 .. (w - 1)
        BY <3>2
      <4>2. high[i + 1] = v \div Power(i + 1) /\ high[i] = v \div Power(i)
        BY <4>1
      <4> QED BY <1>1, <3>2, <4>2
    <3> QED BY <3>1, <3>2
  <2> QED BY <2>1
<1>4. from = step(from)
  <2> HIDE DEF step, high
  <2> QED BY <1>3
<1> HIDE DEF from
<1>5. \A i \in 0 .. (w - 1) : from[i] = high[i]
  <2> DEFINE S == {i \in 0 .. (w - 1) : from[i] = high[i]}
  <2>1. w - 1 \in S
    BY <1>2, <1>4
  <2>2. ASSUME NEW i \in 0 .. ((w - 1) - 1), i + 1 \in S
        PROVE  i \in S
    <3>1. i \in 0 .. (w - 1) /\ i # w - 1
      OBVIOUS
    <3>2. from[i] = 2 * from[i + 1] + p[i]
      BY <1>4, <3>1
    <3>3. high[i] = 2 * high[i + 1] + p[i]
      BY <1>3, <3>1
    <3> QED BY <2>2, <3>1, <3>2, <3>3
  <2>3. w - 1 \in Nat
    OBVIOUS
  <2>4. 0 .. (w - 1) \subseteq S
    <3> HIDE DEF S
    <3> QED BY <2>1, <2>2, <2>3, DownTo
  <2> QED BY <2>4
<1>6. IntValue(p, w, signed) = from[0]
  BY DEF IntValue, from
<1>7. from[0] = v \div Power(0)
  BY <1>5
<1>8. Power(0) = 1
  BY DEF Power
<1> QED BY <1>6, <1>7, <1>8

LEMMA LowBits ==
  ASSUME NEW w \in 1 .. 32, NEW v \in Int, NEW k \in Int,
         NEW i \in 0 .. (w - 1)
  PROVE  Bit(v + k * Power(w), i) = Bit(v, i)
<1> DEFINE P == Power(i)
           R == Power((w - 1) - i)
<1>1. /\ P \in Nat \ {0} /\ R \in Nat \ {0}
      /\ Power(w) = (2 * R) * P
  <2>1. (w - 1) - i \in 0 .. 31 /\ i \in 0 .. 31 /\ ((w - 1) - i) + 1 = w - i
    OBVIOUS
  <2>2. P \in Nat \ {0} /\ R \in Nat \ {0} /\ Power(w - i) = 2 * R
    BY <2>1, PowersOfTwo
  <2>3. w \in 0 .. 32 /\ i \in 0 .. w
    OBVIOUS
  <2>4. Power(w) = P * Power(w - i)
    BY <2>3, PowerProduct
  <2> QED BY <2>2, <2>4
<1> HIDE DEF P, R
<1>2. v + k * Power(w) = v + (2 * (k * R)) * P
  BY <1>1
<1>3. \A m \in Int : (v + m * P) \div P = v \div P + m
  BY <1>1
<1>4. (v + k * Power(w)) \div P = v \div P + 2 * (k * R)
  <2>1. 2 * (k * R) \in Int
    BY <1>1
  <2> QED BY <1>2, <1>3, <2>1
<1>5. \A x, m \in Int : (x + 2 * m) % 2 = x % 2
  OBVIOUS
<1>6. v + k * Power(w) \in Int /\ v \div P \in Int /\ k * R \in Int
  BY <1>1
<1>7. i \in 0 .. 31
  OBVIOUS
<1>8. /\ Bit(v + k * Power(w), i) = ((v + k * Power(w)) \div P) % 2
      /\ Bit(v, i) = (v \div P) % 2
  BY <1>6, <1>7, BitIsDigit DEF P
<1> QED BY <1>4, <1>5, <1>6, <1>8

\* Sizes of the integer types.
LEMMA IntegralWidth ==
  ASSUME NEW type \in Integral
  PROVE  /\ 8 * TypeSize(type) \in {8, 16, 32}
         /\ Span(type) = Power(8 * TypeSize(type) - 2)
BY DEF Integral, TypeSize, Span, Power

\* Of an integer the bits of an integer type hold what is in its range, and
\* what is not wraps around.
LEMMA IntegerHeld ==
  ASSUME NEW type \in Integral, NEW v \in Int,
         NEW p, \A i \in 0 .. (8 * TypeSize(type) - 1) : p[i] = Bit(v, i)
  PROVE  IntValue(p, 8 * TypeSize(type), type \in Signed)
           = IF InRange(type, v) THEN v ELSE Wrapped(type, v)
<1> DEFINE w == 8 * TypeSize(type)
           s == Span(type)
           signed == type \in Signed
           low == IF signed THEN -2 * s ELSE 0
           x == Wrapped(type, v)
           k == -((v - low) \div (4 * s))
<1>1. w \in 1 .. 32 /\ w - 2 \in 0 .. 31 /\ w - 1 \in 0 .. 31
  BY IntegralWidth
<1>2. s \in Nat \ {0} /\ Power(w - 1) = 2 * s /\ Power(w) = 4 * s
  <2>1. (w - 2) + 1 = w - 1 /\ (w - 1) + 1 = w
    BY <1>1
  <2>2. s = Power(w - 2)
    BY IntegralWidth
  <2> HIDE DEF w, s
  <2>3. s \in Nat \ {0} /\ Power(w - 1) = 2 * s
    BY <1>1, <2>1, <2>2, PowersOfTwo
  <2>4. Power(w) = 2 * Power(w - 1)
    BY <1>1, <2>1, PowersOfTwo
  <2> QED BY <2>3, <2>4
<1>3. x = ((v - low) % (4 * s)) + low
  BY DEF Wrapped
<1> HIDE DEF w, s, x
<1>4. k \in Int /\ low \in Int
  BY <1>2
<1>5. x = v + k * Power(w) /\ x \in low .. (low + 4 * s - 1)
  <2> DEFINE y == v - low
             q == (4 * s) * (y \div (4 * s))
  <2>1. y \in Int /\ q \in Int
    BY <1>2, <1>4
  <2>2. y % (4 * s) = y - q /\ y % (4 * s) \in 0 .. (4 * s - 1)
    BY <1>2, <2>1
  <2>3. k * Power(w) = -q
    BY <1>2, <1>4
  <2> HIDE DEF k, q
  <2>4. x = (y - q) + low /\ x \in low .. (low + 4 * s - 1)
    BY <1>2, <1>3, <1>4, <2>1, <2>2
  <2> QED BY <1>4, <2>1, <2>3, <2>4
<1>6. \A i \in 0 .. (w - 1) : p[i] = Bit(x, i)
  <2> SUFFICES ASSUME NEW i \in 0 .. (w - 1) PROVE p[i] = Bit(x, i)
    OBVIOUS
  <2>1. p[i] = Bit(v, i)
    BY DEF w
  <2> HIDE DEF k
  <2> QED BY <1>1, <1>4, <1>5, <2>1, LowBits
<1>7. IntValue(p, w, signed) = x
  <2>1. /\ signed \in BOOLEAN /\ x \in Int
        /\ x \in IF signed THEN -Power(w - 1) .. (Power(w - 1) - 1)
                 ELSE 0 .. (Power(w) - 1)
    BY <1>2, <1>4, <1>5
  <2> HIDE DEF signed
  <2> QED BY <1>1, <1>6, <2>1, ValueOfBits
<1>8. ASSUME InRange(type, v) PROVE x = v
  <2>1. v \div s \in IF signed THEN -2 .. 1 ELSE 0 .. 3
    BY <1>8 DEF InRange, s
  <2>2. v - low \in 0 .. (4 * s - 1)
    BY <1>2, <2>1
  <2>3. (v - low) % (4 * s) = v - low
    BY <1>2, <2>2
  <2> QED BY <1>3, <1>4, <2>3
<1> QED BY <1>7, <1>8 DEF w, x

\* Log2 is the place of the leading bit.
LEMMA LeadingPlace ==
  ASSUME NEW m \in Nat \ {0}, m < Power(32)
  PROVE  /\ Log2(m) \in 0 .. 31
         /\ Power(Log2(m)) <= m /\ m < Power(Log2(m) + 1)
<1> DEFINE S == {e \in 0 .. 31 : Power(e) <= m}
<1>1. \A e \in 0 .. 31 : Power(e) \in Nat \ {0} /\ Power(e + 1) \in Nat \ {0}
  BY PowersOfTwo
<1>2. S \in SUBSET Int /\ S # {} /\ IsFiniteSet(S)
  <2>1. Power(0) = 1 /\ 0 \in S
    BY DEF Power
  <2>2. IsFiniteSet(0 .. 31)
    <3>1. \A n \in Nat : IsFiniteSet(0 .. n)
      BY FS_Interval
    <3> QED BY <3>1
  <2> QED BY <2>1, <2>2, FS_Subset
<1>3. PICK e \in S : \A c \in S : e >= c
  <2> HIDE DEF S
  <2> QED BY <1>2, GreatestExists
<1>4. m < Power(e + 1)
  <2>1. CASE e = 31
    BY <2>1
  <2>2. CASE e # 31
    <3>1. e + 1 \in 0 .. 31 /\ e + 1 \notin S
      BY <1>3, <2>2
    <3> QED BY <1>1, <3>1
  <2> QED BY <2>1, <2>2
<1>5. \E c \in 0 .. 31 : 2^c <= m /\ m < 2^(c + 1)
  BY <1>3, <1>4 DEF Power
<1> QED BY <1>5 DEF Log2, Power

LEMMA PowerMonotonic ==
  ASSUME NEW w \in 0 .. 32, NEW i \in 0 .. w
  PROVE  Power(i) <= Power(w)
<1>1. Power(w) = Power(i) * Power(w - i)
  BY PowerProduct
<1>2. Power(i) \in Nat \ {0} /\ Power(w - i) \in Nat \ {0}
  <2>1. i \in 0 .. 32 /\ w - i \in 0 .. 32 /\ 0 \in 0 .. i /\ 0 \in 0 .. (w - i)
    OBVIOUS
  <2> QED BY <2>1, PowerProduct
<1> HIDE DEF Power
<1>3. \A a, b \in Nat \ {0} : a <= a * b
  OBVIOUS
<1> QED BY <1>1, <1>2, <1>3

\* The recursion of FloatValue() over the bits below the leading one defines
\* a function.
LEMMA LeadingExists ==
  ASSUME NEW n \in Nat, NEW p
  PROVE  \E g : g = [k \in 0 .. n |-> IF k = 0 THEN 1 ELSE 2 * g[k - 1] + p[n - k]]
<1> DEFINE step(j, g) == [k \in 0 .. j |-> IF k = 0 THEN 1 ELSE 2 * g[k - 1] + p[n - k]]
           S == {j \in 0 .. n : \E g : g = step(j, g)}
<1>1. 0 \in S
  <2>1. [k \in 0 .. 0 |-> 1] = step(0, [k \in 0 .. 0 |-> 1])
    OBVIOUS
  <2> HIDE DEF step
  <2> QED BY <2>1
<1>2. ASSUME NEW j \in 0 .. (n - 1), j \in S PROVE j + 1 \in S
  <2>1. PICK g : g = step(j, g)
    BY <1>2
  <2> DEFINE h == [k \in 0 .. (j + 1) |->
                     IF k = j + 1 THEN 2 * g[j] + p[n - k] ELSE g[k]]
  <2>2. ASSUME NEW k \in 0 .. (j + 1) PROVE h[k] = step(j + 1, h)[k]
    <3>1. CASE k = j + 1
      <4>1. j \in 0 .. (j + 1) /\ j # j + 1 /\ k - 1 = j /\ k # 0
        BY <3>1
      <4>2. h[j] = g[j]
        BY <4>1
      <4> QED BY <3>1, <4>1, <4>2
    <3>2. CASE k = 0
      BY <2>1, <3>2
    <3>3. CASE k # j + 1 /\ k # 0
      <4>1. k \in 0 .. j /\ k - 1 \in 0 .. (j + 1) /\ k - 1 # j + 1
        BY <3>3
      <4>2. h[k] = g[k] /\ h[k - 1] = g[k - 1]
        BY <4>1
      <4>3. g[k] = 2 * g[k - 1] + p[n - k]
        BY <2>1, <3>3, <4>1
      <4> QED BY <3>3, <4>2, <4>3
    <3> QED BY <3>1, <3>2, <3>3
  <2>3. h = step(j + 1, h)
    BY <2>2
  <2>4. j + 1 \in 0 .. n
    OBVIOUS
  <2> HIDE DEF step, h
  <2> QED BY <2>3, <2>4
<1>3. n \in S
  <2> HIDE DEF S
  <2> QED BY <1>1, <1>2, UpTo
<1> QED BY <1>3

\* A format holds every number whose leading bit is among its own.
LEMMA FloatHeld ==
  ASSUME NEW type \in Floats, NEW d \in Int, Convertible(type, d),
         NEW p, \A i \in 0 .. (8 * TypeSize(type) - 1) :
                  p[i] = FloatBit(Format(type), d, i)
  PROVE  FloatValue(Format(type), p) = d
<1> DEFINE F == Format(type)
           fr == F.fraction
           ex == F.exponent
           m == Abs(d)
           e == Log2(m)
           E == IntValue([i \in 0 .. (ex - 1) |-> p[fr + i]], ex, FALSE)
           step(g) == [k \in 0 .. fr |-> IF k = 0 THEN 1 ELSE 2 * g[k - 1] + p[fr - k]]
           leading == CHOOSE g : g = step(g)
<1>1. /\ 8 * TypeSize(type) - 1 = fr + ex
      /\ \/ fr = 52 /\ ex = 11 /\ F.bias = 1023
         \/ fr = 23 /\ ex = 8 /\ F.bias = 127 /\ type \in {"float32", "float"}
  BY DEF Floats, Format, TypeSize
<1>2. FloatValue(F, p) = IF E = 0 THEN 0
                         ELSE IF p[fr + ex] = 1 THEN -leading[E - F.bias + 1]
                         ELSE leading[E - F.bias + 1]
  BY DEF FloatValue
<1>3. \A i \in 0 .. (fr + ex) : p[i] = FloatBit(F, d, i)
  BY <1>1
<1> HIDE DEF F, E, leading
<1>4. CASE d = 0
  <2>1. \A i \in 0 .. (fr + ex) : p[i] = 0
    BY <1>3, <1>4 DEF FloatBit
  <2>2. \A i \in 0 .. (ex - 1) : [j \in 0 .. (ex - 1) |-> p[fr + j]][i] = Bit(0, i)
    <3> SUFFICES ASSUME NEW i \in 0 .. (ex - 1) PROVE p[fr + i] = Bit(0, i)
      OBVIOUS
    <3>1. i \in 0 .. 31 /\ fr + i \in 0 .. (fr + ex)
      BY <1>1
    <3>2. Power(i) \in Nat \ {0} /\ Bit(0, i) = (0 \div Power(i)) % 2
      <4>1. 0 \in Int
        OBVIOUS
      <4> QED BY <3>1, <4>1, PowersOfTwo, BitIsDigit
    <3>3. Bit(0, i) = 0
      BY <3>2
    <3> QED BY <2>1, <3>1, <3>3
  <2>3. ex \in 1 .. 32 /\ 0 \in 0 .. (Power(ex) - 1)
    <3>1. ex \in 1 .. 32 /\ ex \in 0 .. 31
      BY <1>1
    <3> QED BY <3>1, PowersOfTwo
  <2>4. E = 0
    <3>1. 0 \in Int /\ FALSE \in BOOLEAN
      OBVIOUS
    <3> QED BY <2>2, <2>3, <3>1, ValueOfBits DEF E
  <2> QED BY <1>2, <1>4, <2>4 DEF F
<1>5. CASE d # 0
  <2>1. m \in Nat \ {0} /\ (d = m \/ d = -m) /\ (d < 0 <=> d = -m)
    BY <1>5 DEF Abs
  <2>2. m < Power(32) /\ (fr = 23 => m < Power(24))
    <3>1. CASE type \in {"float32", "float"}
      BY <3>1, <2>1 DEF Convertible, Power
    <3>2. CASE type \in {"float64", "double"}
      <4>1. m \div Power(16) < Power(16) /\ fr = 52
        BY <3>2 DEF Convertible, Power, F, Format, Integral
      <4>2. Power(16) = 65536 /\ Power(32) = 65536 * 65536
        BY DEF Power
      <4> QED BY <2>1, <4>1, <4>2
    <3> QED BY <3>1, <3>2 DEF Floats
  <2> HIDE DEF m
  <2>3. e \in 0 .. 31 /\ Power(e) <= m /\ m < Power(e + 1)
    BY <2>1, <2>2, LeadingPlace
  <2>4. e <= fr
    <3>1. CASE fr = 52
      BY <2>3, <3>1
    <3>2. CASE fr = 23
      <4> SUFFICES ASSUME e > 23 PROVE FALSE
        BY <2>3, <3>2
      <4>1. e \in 0 .. 32 /\ 24 \in 0 .. e
        BY <2>3
      <4>2. Power(24) <= Power(e) /\ Power(24) \in Int /\ Power(e) \in Int
        <5>1. 24 \in 0 .. 31
          OBVIOUS
        <5> QED BY <4>1, <5>1, <2>3, PowerMonotonic, PowersOfTwo
      <4> QED BY <2>1, <2>2, <2>3, <3>2, <4>2
    <3> QED BY <1>1, <3>1, <3>2
  <2> HIDE DEF e
  <2>5. E = e - 1 + F.bias
    <3> DEFINE v == e - 1 + F.bias
    <3>1. v \in Int /\ ex \in 1 .. 32 /\ v \in 0 .. (Power(ex) - 1)
      <4>1. CASE ex = 11
        <5>1. Power(11) = 2048
          BY DEF Power
        <5> QED BY <1>1, <2>3, <4>1, <5>1
      <4>2. CASE ex = 8
        <5>1. Power(8) = 256
          BY DEF Power
        <5> QED BY <1>1, <2>3, <4>2, <5>1
      <4> QED BY <1>1, <4>1, <4>2
    <3>2. \A i \in 0 .. (ex - 1) : [j \in 0 .. (ex - 1) |-> p[fr + j]][i] = Bit(v, i)
      <4> SUFFICES ASSUME NEW i \in 0 .. (ex - 1) PROVE p[fr + i] = Bit(v, i)
        OBVIOUS
      <4>1. /\ fr + i \in 0 .. (fr + ex) /\ fr + i # fr + ex
            /\ fr + i >= fr /\ (fr + i) - fr = i
        BY <1>1
      <4> QED BY <1>3, <1>5, <4>1 DEF FloatBit, e, m
    <3> HIDE DEF v
    <3>3. E = v
      BY <3>1, <3>2, ValueOfBits DEF E
    <3> QED BY <3>3 DEF v
  <2>6. p[fr + ex] = IF d < 0 THEN 1 ELSE 0
    BY <1>1, <1>3, <1>5 DEF FloatBit
  <2>7. \A k \in 1 .. e : p[fr - k] = Bit(m, e - k)
    <3> SUFFICES ASSUME NEW k \in 1 .. e PROVE p[fr - k] = Bit(m, e - k)
      OBVIOUS
    <3>1. /\ fr - k \in 0 .. (fr + ex) /\ fr - k # fr + ex
          /\ ~(fr - k >= fr) /\ fr - (fr - k) = k /\ k <= e
      BY <1>1, <2>3, <2>4
    <3> QED BY <1>3, <1>5, <3>1 DEF FloatBit, e, m
  <2>8. leading = step(leading)
    <3>1. \E g : g = step(g)
      <4>1. fr \in Nat
        BY <1>1
      <4> HIDE DEF fr
      <4> QED BY <4>1, LeadingExists
    <3> HIDE DEF step
    <3> QED BY <3>1 DEF leading
  <2>9. leading[e] = m
    <3> DEFINE S == {j \in 0 .. e : leading[e - j] = m \div Power(j)}
    <3>1. e \in S
      <4>1. leading[0] = 1
        BY <1>1, <2>8
      <4>2. Power(e) \in Nat \ {0} /\ Power(e + 1) = 2 * Power(e)
        BY <2>3, PowersOfTwo
      <4>3. m \div Power(e) = 1
        BY <2>1, <2>3, <4>2
      <4>4. e \in 0 .. e /\ e - e = 0
        BY <2>3
      <4> QED BY <4>1, <4>3, <4>4
    <3>2. ASSUME NEW j \in 0 .. (e - 1), j + 1 \in S PROVE j \in S
      <4>1. /\ e - j \in 0 .. fr /\ e - j # 0 /\ (e - j) - 1 = e - (j + 1)
            /\ e - j \in 1 .. e /\ e - (e - j) = j /\ j \in 0 .. 31
        BY <1>1, <2>3, <2>4
      <4>2. leading[e - j] = 2 * leading[(e - j) - 1] + p[fr - (e - j)]
        BY <2>8, <4>1
      <4>3. p[fr - (e - j)] = Bit(m, j)
        BY <2>7, <4>1
      <4>4. m \div Power(j) = 2 * (m \div Power(j + 1)) + Bit(m, j)
        <5>1. m \in Int
          BY <2>1
        <5> QED BY <4>1, <5>1, BitIsDigit
      <4>5. j \in 0 .. e
        BY <2>3
      <4> QED BY <3>2, <4>1, <4>2, <4>3, <4>4, <4>5
    <3>3. 0 \in S
      <4> HIDE DEF S
      <4> QED BY <2>3, <3>1, <3>2, DownTo
    <3>4. Power(0) = 1 /\ e - 0 = e
      BY <2>3 DEF Power
    <3> QED BY <2>1, <3>3, <3>4
  <2>10. E # 0 /\ (E - F.bias) + 1 = e
    BY <1>1, <2>3, <2>5
  <2> QED BY <1>2, <2>1, <2>6, <2>9, <2>10 DEF F
<1> QED BY <1>4, <1>5

(***************************************************************************)
(* Calls.                                                                  *)
(***************************************************************************)

\* What a field holds of a number is a number.
LEMMA HeldType ==
  ASSUME NEW f, NEW d \in Int
  PROVE  Held(f, d) \in Int
<1>1. CASE f.type = "bool"
  BY <1>1 DEF Held, Integral, Floats
<1>2. CASE f.type \in Integral
  <2> DEFINE v == Cast(target, f.type, d)
             s == Span(f.type)
  <2>1. v \in Int
    BY DEF Cast, Truncated
  <2>2. s \in Nat \ {0}
    <3>1. 8 * TypeSize(f.type) - 2 \in 0 .. 31
      BY <1>2, IntegralWidth
    <3> QED BY <1>2, <3>1, IntegralWidth, PowersOfTwo
  <2>3. Wrapped(f.type, v) \in Int
    <3> HIDE DEF v, s
    <3> DEFINE low == IF f.type \in Signed THEN -2 * s ELSE 0
    <3>1. Wrapped(f.type, v) = ((v - low) % (4 * s)) + low
      BY DEF Wrapped, s
    <3>2. low \in Int /\ v - low \in Int
      BY <2>1, <2>2
    <3> HIDE DEF low
    <3>3. (v - low) % (4 * s) \in Int
      BY <2>2, <3>2
    <3> QED BY <3>1, <3>2, <3>3
  <2>4. Held(f, d) = 2 * IF InRange(f.type, v) THEN v ELSE Wrapped(f.type, v)
    BY <1>2 DEF Held, Integral, Floats
  <2> QED BY <2>1, <2>3, <2>4
<1>3. CASE f.type \in Floats
  BY <1>3 DEF Held, Integral, Floats
<1>4. CASE f.type \notin Integral \cup Floats \cup {"bool"}
  BY <1>4 DEF Held
<1> QED BY <1>1, <1>2, <1>3, <1>4

\* Type correctness: every call leaves the buffer at its size, with bits in
\* it.
THEOREM TypeCorrect == Spec => []TypeOK
<1>1. Init => TypeOK
  BY MaxWritesAssumption DEF Init, TypeOK
<1>2. TypeOK /\ [Next]_vars => TypeOK'
  <2> SUFFICES ASSUME TypeOK, [Next]_vars PROVE TypeOK'
    OBVIOUS
  <2>1. ASSUME NEW n \in Names, NEW d \in Commands[n], WriteOutput(n, d)
        PROVE  TypeOK'
    <3>1. buf' \in [Addresses' -> {0, 1}]
      <4>1. DOMAIN buf = Addresses /\ Addresses' = Addresses
        BY <2>1 DEF TypeOK, WriteOutput, Addresses
      <4>2. \A a \in Addresses : buf'[a] \in {0, 1}
        BY <2>1, <4>1, StoredBitType DEF TypeOK, WriteOutput, SetValue
      <4> QED BY <2>1, <4>1, <4>2 DEF WriteOutput, SetValue
    <3>2. writes' \in 0 .. MaxWrites
      BY <2>1, MaxWritesAssumption DEF TypeOK, WriteOutput
    <3>3. record' \in [Names -> Int]
      BY <2>1, CommandsAssumption, HeldType DEF TypeOK, WriteOutput
    <3> QED BY <2>1, <3>1, <3>2, <3>3 DEF TypeOK, WriteOutput
  <2>2. ASSUME NEW n \in Names, NEW d \in Commands[n], Write(n, d)
        PROVE  TypeOK'
    <3>1. buf' \in [Addresses' -> {0, 1}]
      <4>1. Addresses' = 0 .. (8 * totalSize - 1)
        BY <2>2 DEF TypeOK, Write, Addresses, BufferSize
      <4> QED BY <2>2, <4>1, PackedBitType DEF Write, Pack
    <3>2. writes' \in 0 .. MaxWrites
      BY <2>2, MaxWritesAssumption DEF TypeOK, Write
    <3>3. commands' \in [Names -> Int]
      BY <2>2, CommandsAssumption DEF TypeOK, Write
    <3>4. record' \in [Names -> Int]
      <4>1. \A m \in Names : commands'[m] \in Int
        BY <3>3
      <4> QED BY <2>2, <4>1, HeldType DEF Write
    <3> QED BY <2>2, <3>1, <3>2, <3>3, <3>4 DEF TypeOK, Write
  <2>3. CASE UNCHANGED vars
    BY <2>3 DEF TypeOK, vars, Addresses
  <2> QED BY <2>1, <2>2, <2>3 DEF Next
<1> QED BY <1>1, <1>2, PTL DEF Spec

LEMMA BitsInAddresses == TypeOK => FieldsInBuffer
<1> SUFFICES ASSUME TypeOK, NEW n \in Names PROVE BitsOf(Fields[n]) \subseteq Addresses
  BY DEF FieldsInBuffer
<1>1. PICK i \in DOMAIN Layout : Fields[n] = Layout[i]
  BY FieldsAreMappings
<1>2. Fields[n].offset \in Nat
  BY <1>1, MappingType
<1>3. FieldEnd(Fields[n]) \in Nat /\ BitsOf(Fields[n]) \subseteq 0 .. (8 * FieldEnd(Fields[n]) - 1)
  BY <1>2, FieldEndType, BitsBeforeEnd
<1>4. totalSize \in TotalSizes /\ totalSize \in Nat
  BY TotalSizesAssumption DEF TypeOK
<1>5. BufferSize(totalSize) \in Nat /\ BufferSize(totalSize) >= FieldEnd(Fields[n])
  <2>1. CASE totalSize = 0
    BY <2>1, <1>1, MappingsFit
  <2>2. CASE totalSize # 0
    BY <2>2, <1>3, <1>4, SizeAssumption DEF BufferSize
  <2> QED BY <2>1, <2>2
<1> QED BY <1>3, <1>5 DEF Addresses

\* For every layout: bufferSize(), or a configured size that meets
\* SizeAssumption, has room for every bit a setter stores.
THEOREM FieldsLieInBuffer == Spec => []FieldsInBuffer
BY TypeCorrect, BitsInAddresses, PTL

\* For every layout: whatever is written to whichever fields, in whatever
\* order, the bits of no field stay zero.
THEOREM SpareBitsAreSpared == Spec => []SpareBitsStayZero
<1>1. Init => SpareBitsStayZero
  BY DEF Init, SpareBitsStayZero
<1>2. TypeOK /\ SpareBitsStayZero /\ [Next]_vars => SpareBitsStayZero'
  <2> SUFFICES ASSUME TypeOK, SpareBitsStayZero, [Next]_vars,
                      NEW a \in Addresses',
                      \A m \in Names : a \notin BitsOf(Fields[m])
               PROVE  buf'[a] = 0
    BY DEF SpareBitsStayZero
  <2>1. ASSUME NEW n \in Names, NEW d \in Commands[n], WriteOutput(n, d)
        PROVE  buf'[a] = 0
    <3>1. a \in Addresses /\ a \in DOMAIN buf
      BY <2>1 DEF TypeOK, WriteOutput, Addresses
    <3> QED BY <2>1, <3>1 DEF WriteOutput, SetValue, SpareBitsStayZero
  <2>2. ASSUME NEW n \in Names, NEW d \in Commands[n], Write(n, d)
        PROVE  buf'[a] = 0
    <3>1. a \in 0 .. (8 * totalSize - 1)
      BY <2>2 DEF Write, Addresses, BufferSize
    <3>2. buf'[a] = PackedBit(target, commands', a)
      BY <2>2, <3>1 DEF Write, Pack
    <3>3. {i \in DOMAIN Layout : a \in BitsOf(Fields[Layout[i].name])} = {}
      BY DEF Names
    <3> QED BY <3>2, <3>3 DEF PackedBit
  <2>3. CASE UNCHANGED vars
    BY <2>3 DEF SpareBitsStayZero, vars, Addresses
  <2> QED BY <2>1, <2>2, <2>3 DEF Next
<1> QED BY <1>1, <1>2, TypeCorrect, PTL DEF Spec

\* For every layout: getValue() of one field does not see a setter of
\* another, if the two share no bit.  Bools in the same byte are such a pair.
THEOREM Independence ==
  ASSUME NEW machine, NEW buffer, NEW d, NEW g,
         NEW f, f.offset \in Nat,
         BitsOf(f) \subseteq DOMAIN buffer,
         BitsOf(f) \cap BitsOf(g) = {}
  PROVE  GetValue(SetValue(machine, buffer, g, d), f) = GetValue(buffer, f)
<1> DEFINE after == SetValue(machine, buffer, g, d)
           width == 8 * TypeSize(f.type)
<1>1. \A a \in BitsOf(f) : after[a] = buffer[a]
  BY DEF SetValue
<1>2. CASE f.type = "bool"
  BY <1>1, <1>2 DEF GetValue
<1>3. CASE f.type \in Integral \cup Floats
  <2>1. f.type # "bool"
    BY <1>3 DEF Integral, Floats
  <2>2. \A i \in 0 .. (width - 1) : First(f) + i \in BitsOf(f)
    BY <1>3, <2>1, TypeSizeType DEF BitsOf, First
  <2>3. [i \in 0 .. (width - 1) |-> after[First(f) + i]]
          = [i \in 0 .. (width - 1) |-> buffer[First(f) + i]]
    BY <1>1, <2>2
  <2> QED BY <2>1, <2>3 DEF GetValue
<1>4. CASE f.type \notin Integral \cup Floats \cup {"bool"}
  BY <1>4 DEF GetValue
<1> QED BY <1>2, <1>3, <1>4

\* What a setter stored is what the getter gives, as far as the type holds it.
THEOREM RoundTrip ==
  ASSUME NEW f, f.offset \in Nat, NEW d \in Int, Convertible(f.type, d),
         NEW buffer,
         \A a \in BitsOf(f) : buffer[a] = StoredBit(target, f, d, a)
  PROVE  GetValue(buffer, f) = Held(f, d)
<1> DEFINE w == 8 * TypeSize(f.type)
           p == [i \in 0 .. (w - 1) |-> buffer[First(f) + i]]
<1>1. CASE f.type = "bool"
  <2>1. GetValue(buffer, f) = IF \E a \in BitsOf(f) : buffer[a] = 1 THEN 2 ELSE 0
    BY <1>1 DEF GetValue
  <2>2. \A a \in BitsOf(f) : buffer[a] = 1 <=> d # 0
    BY <1>1 DEF StoredBit
  <2>3. BitsOf(f) # {} <=> BoolBit(f) # {}
    BY <1>1 DEF BitsOf
  <2>4. Held(f, d) = IF d # 0 /\ BoolBit(f) # {} THEN 2 ELSE 0
    BY <1>1 DEF Held, Integral, Floats
  <2> QED BY <2>1, <2>2, <2>3, <2>4
<1>2. CASE f.type \in Integral \cup Floats
  <2>1. /\ f.type # "bool"
        /\ (f.type \in Integral => f.type \notin Floats)
    BY <1>2 DEF Integral, Floats
  <2>2. \A i \in 0 .. (w - 1) : p[i] = StoredBit(target, f, d, First(f) + i)
    <3>1. \A i \in 0 .. (w - 1) : First(f) + i \in BitsOf(f)
      BY <1>2, <2>1, TypeSizeType DEF BitsOf, First
    <3> QED BY <3>1
  <2>3. \A i \in 0 .. (w - 1) : (First(f) + i) - First(f) = i
    BY TypeSizeType DEF First
  <2>4. CASE f.type \in Integral
    <3> DEFINE v == Cast(target, f.type, d)
    <3>1. v \in Int
      BY DEF Cast, Truncated
    <3>2. \A i \in 0 .. (w - 1) : p[i] = Bit(v, i)
      BY <2>1, <2>2, <2>3, <2>4 DEF StoredBit
    <3>3. GetValue(buffer, f) = 2 * IntValue(p, w, f.type \in Signed)
      BY <2>1, <2>4 DEF GetValue
    <3>4. Held(f, d) = 2 * IF InRange(f.type, v) THEN v ELSE Wrapped(f.type, v)
      BY <2>1, <2>4 DEF Held
    <3> HIDE DEF v, p
    <3> QED BY <2>4, <3>1, <3>2, <3>3, <3>4, IntegerHeld
  <2>5. CASE f.type \in Floats
    <3>1. \A i \in 0 .. (w - 1) : p[i] = FloatBit(Format(f.type), d, i)
      BY <2>1, <2>2, <2>3, <2>5 DEF StoredBit
    <3>2. GetValue(buffer, f) = FloatValue(Format(f.type), p)
      BY <2>1, <2>5 DEF GetValue
    <3>3. Held(f, d) = d
      BY <2>1, <2>5 DEF Held
    <3> HIDE DEF p
    <3> QED BY <2>5, <3>1, <3>2, <3>3, FloatHeld
  <2> QED BY <1>2, <2>4, <2>5
<1>3. CASE f.type \notin Integral \cup Floats \cup {"bool"}
  BY <1>3 DEF GetValue, Held
<1> QED BY <1>1, <1>2, <1>3

(***************************************************************************)
(* The buffer as a record.                                                 *)
(***************************************************************************)
LEMMA FieldOffset ==
  ASSUME NEW n \in Names
  PROVE  Fields[n].offset \in Nat
BY FieldsAreMappings, MappingType

LEMMA ZeroBits ==
  ASSUME NEW i \in 0 .. 31
  PROVE  Bit(0, i) = 0
<1>1. Power(i) \in Nat \ {0}
  BY PowersOfTwo
<1>2. Bit(0, i) = (0 \div Power(i)) % 2
  <2>1. 0 \in Int
    OBVIOUS
  <2> QED BY <2>1, BitIsDigit
<1> QED BY <1>1, <1>2

LEMMA ZeroConvertible ==
  ASSUME NEW type
  PROVE  Convertible(type, 0) /\ (type \in Integral => InRange(type, 0))
<1>1. ASSUME type \in Integral PROVE InRange(type, 0)
  <2>1. Span(type) \in Nat \ {0}
    <3>1. 8 * TypeSize(type) - 2 \in 0 .. 31
      BY <1>1, IntegralWidth
    <3> QED BY <1>1, <3>1, IntegralWidth, PowersOfTwo
  <2>2. 0 \div Span(type) = 0
    BY <2>1
  <2> QED BY <2>2 DEF InRange
<1>2. Truncated(0) = 0 /\ Abs(0) = 0
  BY DEF Truncated, Abs
<1>3. InRange("int32", 0)
  <2>1. 0 \div 2^30 = 0 /\ Span("int32") = 2^30
    BY DEF Span, TypeSize
  <2> QED BY <2>1 DEF InRange
<1>4. Convertible(type, 0)
  BY <1>2, <1>3 DEF Convertible
<1> QED BY <1>1, <1>4

\* A cleared buffer reads as if 0 had been written to every field.
LEMMA ZeroStored ==
  ASSUME NEW machine, NEW f, f.offset \in Nat, NEW a \in BitsOf(f)
  PROVE  StoredBit(machine, f, 0, a) = 0
<1>1. CASE f.type \in Integral
  <2>1. f.type # "bool" /\ Cast(machine, f.type, 0) = 0
    BY <1>1 DEF Integral, Cast, Truncated
  <2>2. a - First(f) \in 0 .. 31
    BY <1>1, <2>1, IntegralWidth DEF BitsOf, First
  <2> QED BY <1>1, <2>1, <2>2, ZeroBits DEF StoredBit
<1>2. CASE f.type \notin Integral
  BY <1>2 DEF StoredBit, FloatBit
<1> QED BY <1>1, <1>2

LEMMA ZeroHeld ==
  ASSUME NEW f
  PROVE  Held(f, 0) = 0
<1>1. CASE f.type \in Integral
  <2>1. Cast(target, f.type, 0) = 0
    BY DEF Cast, Truncated
  <2> QED BY <1>1, <2>1, ZeroConvertible DEF Held, Integral, Floats
<1>2. CASE f.type \notin Integral
  BY <1>2 DEF Held, Floats
<1> QED BY <1>1, <1>2

\* prepareOutput() leaves in a field what its setter stored, if no other
\* field has a bit of it.
LEMMA PackedField ==
  ASSUME DisjointFields, NEW machine, NEW values,
         NEW n \in Names, NEW a \in BitsOf(Fields[n])
  PROVE  PackedBit(machine, values, a) = StoredBit(machine, Fields[n], values[n], a)
<1> DEFINE covering == {i \in DOMAIN Layout : a \in BitsOf(Fields[Layout[i].name])}
<1>1. DOMAIN Layout = 1 .. Len(Layout) /\ Len(Layout) \in Nat
  BY LayoutAssumption, LenProperties
<1>2. covering \in SUBSET Int /\ covering # {} /\ IsFiniteSet(covering)
  <2>1. IsFiniteSet(1 .. Len(Layout))
    BY <1>1, FS_Interval
  <2> QED BY <1>1, <2>1, FS_Subset DEF Names
<1>3. Max(covering) \in covering
  <2> HIDE DEF covering
  <2> QED BY <1>2, MaxIsGreatest
<1>4. ASSUME NEW i \in covering PROVE Layout[i].name = n
  BY <1>4 DEF DisjointFields, Names
<1>5. PackedBit(machine, values, a)
        = LET m == Layout[Max(covering)].name IN StoredBit(machine, Fields[m], values[m], a)
  BY <1>2 DEF PackedBit
<1> HIDE DEF covering
<1> QED BY <1>3, <1>4, <1>5

\* What the inductive step needs of the plugin's commands.
CommandsKnown == \A n \in Names : commands[n] \in Commands[n] \cup {0}

\* For every layout whose fields share no bit, every number of calls and both
\* machines: getValue() gives for each field what was last written to it,
\* exactly if its type can hold it.
THEOREM BufferIsRecord ==
  ASSUME DisjointFields
  PROVE  Spec => []BufferIsARecord
<1>1. Init => CommandsKnown /\ BufferIsARecord
  <2> SUFFICES ASSUME Init, NEW n \in Names
               PROVE  GetValue(buf, Fields[n]) = 0
    BY DEF Init, CommandsKnown, BufferIsARecord
  <2>1. TypeOK
    BY MaxWritesAssumption DEF Init, TypeOK
  <2>2. BitsOf(Fields[n]) \subseteq Addresses
    BY <2>1, BitsInAddresses DEF FieldsInBuffer
  <2>3. \A a \in BitsOf(Fields[n]) : buf[a] = StoredBit(target, Fields[n], 0, a)
    BY <2>2, FieldOffset, ZeroStored DEF Init
  <2>4. GetValue(buf, Fields[n]) = Held(Fields[n], 0)
    BY <2>3, FieldOffset, ZeroConvertible, RoundTrip
  <2> QED BY <2>4, ZeroHeld
<1>2. TypeOK /\ CommandsKnown /\ BufferIsARecord /\ [Next]_vars
        => CommandsKnown' /\ BufferIsARecord'
  <2> SUFFICES ASSUME TypeOK, CommandsKnown, BufferIsARecord, [Next]_vars
               PROVE  CommandsKnown' /\ BufferIsARecord'
    OBVIOUS
  <2>1. \A m \in Names : BitsOf(Fields[m]) \subseteq Addresses
    BY BitsInAddresses DEF FieldsInBuffer
  <2>2. ASSUME NEW n \in Names, NEW d \in Commands[n], WriteOutput(n, d)
        PROVE  CommandsKnown' /\ BufferIsARecord'
    <3>1. DOMAIN buf = Addresses /\ buf' = SetValue(target, buf, Fields[n], d)
      BY <2>2 DEF TypeOK, WriteOutput
    <3>2. ASSUME NEW m \in Names PROVE GetValue(buf', Fields[m]) = record'[m]
      <4>1. CASE m = n
        <5>1. \A a \in BitsOf(Fields[n]) : buf'[a] = StoredBit(target, Fields[n], d, a)
          BY <2>1, <3>1 DEF SetValue
        <5>2. d \in Int /\ Convertible(Fields[n].type, d)
          BY CommandsAssumption
        <5>3. GetValue(buf', Fields[n]) = Held(Fields[n], d)
          BY <5>1, <5>2, FieldOffset, RoundTrip
        <5> QED BY <2>2, <4>1, <5>3 DEF WriteOutput, TypeOK
      <4>2. CASE m # n
        <5>1. BitsOf(Fields[m]) \cap BitsOf(Fields[n]) = {}
          BY <4>2 DEF DisjointFields
        <5>2. GetValue(buf', Fields[m]) = GetValue(buf, Fields[m])
          BY <2>1, <3>1, <5>1, FieldOffset, Independence
        <5> QED BY <2>2, <4>2, <5>2 DEF WriteOutput, TypeOK, BufferIsARecord
      <4> QED BY <4>1, <4>2
    <3>3. CommandsKnown'
      BY <2>2 DEF WriteOutput, CommandsKnown
    <3> QED BY <3>2, <3>3 DEF BufferIsARecord
  <2>3. ASSUME NEW n \in Names, NEW d \in Commands[n], Write(n, d)
        PROVE  CommandsKnown' /\ BufferIsARecord'
    <3>1. CommandsKnown'
      BY <2>3 DEF Write, CommandsKnown, TypeOK
    <3>2. ASSUME NEW m \in Names PROVE GetValue(buf', Fields[m]) = record'[m]
      <4>1. Addresses = 0 .. (8 * totalSize - 1)
        BY <2>3 DEF Write, Addresses, BufferSize
      <4>2. \A a \in BitsOf(Fields[m]) : buf'[a] = PackedBit(target, commands', a)
        BY <2>1, <2>3, <4>1 DEF Write, Pack
      <4>3. \A a \in BitsOf(Fields[m]) :
              buf'[a] = StoredBit(target, Fields[m], commands'[m], a)
        BY <4>2, PackedField
      <4>4. commands'[m] \in Int /\ Convertible(Fields[m].type, commands'[m])
        BY <3>1, CommandsAssumption, ZeroConvertible DEF CommandsKnown
      <4>5. GetValue(buf', Fields[m]) = Held(Fields[m], commands'[m])
        BY <4>3, <4>4, FieldOffset, RoundTrip
      <4> QED BY <2>3, <4>5 DEF Write
    <3> QED BY <3>1, <3>2 DEF BufferIsARecord
  <2>4. CASE UNCHANGED vars
    BY <2>4 DEF vars, CommandsKnown, BufferIsARecord
  <2> QED BY <2>2, <2>3, <2>4 DEF Next
<1> QED BY <1>1, <1>2, TypeCorrect, PTL DEF Spec

=============================================================================
