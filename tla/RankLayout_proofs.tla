------------------------- MODULE RankLayout_proofs -------------------------
(***************************************************************************)
(* Theorems about RankLayout, for layouts of any sizes: transposing        *)
(* permutes the ranks, and the lists of every kind of group cut the world  *)
(* into groups of one size, every rank in exactly one of them.             *)
(***************************************************************************)
EXTENDS RankLayout, FiniteSetTheorems, TLAPS

\* The sizes of dimensions.
Positive == Nat \ {0}

---------------------------------------------------------------------------
(* Division.                                                               *)

\* Multiplication keeps the order, and adds up.
LEMMA Products ==
    ASSUME NEW a \in Nat, NEW b \in Nat, NEW n \in Nat
    PROVE  /\ a * n \in Nat /\ a * n = n * a
           /\ a <= b => a * n <= b * n
           /\ (a + 1) * n = a * n + n
           /\ a \in Positive /\ n \in Positive => a * n \in Positive
  <1>1. a * n \in Nat /\ a * n = n * a
    OBVIOUS
  <1>2. a <= b => a * n <= b * n
    OBVIOUS
  <1>3. (a + 1) * n = a * n + n
    OBVIOUS
  <1>4. a \in Positive /\ n \in Positive => a * n \in Positive
    BY DEF Positive
  <1> QED BY <1>1, <1>2, <1>3, <1>4

\* An integer has a quotient and a remainder.
LEMMA IntegerDivision ==
    ASSUME NEW x \in Int, NEW y \in Int, y > 0
    PROVE  x = y * (x \div y) + (x % y)
  OBVIOUS

\* Those of a natural number are natural numbers.
LEMMA Division ==
    ASSUME NEW a \in Nat, NEW n \in Positive
    PROVE  \E q \in Nat, r \in Nat : q = a \div n /\ r = a % n /\ r < n /\ a = q * n + r
  <1>1. a \in Int /\ n \in Int /\ n > 0
    BY DEF Positive
  <1>2. PICK r \in Nat : r = a % n /\ r < n
    BY DEF Positive
  <1>3. PICK q \in Nat : q = a \div n
    BY DEF Positive
  <1>4. a = n * (a \div n) + (a % n)
    BY <1>1, IntegerDivision
  <1>5. a = n * q + r
    BY <1>2, <1>3, <1>4
  <1>6. n * q = q * n
    BY <1>1
  <1>7. a = q * n + r
    BY <1>5, <1>6
  <1> QED BY <1>2, <1>3, <1>7

\* It has only one of each.
LEMMA DivisionIsUnique ==
    ASSUME NEW n \in Nat, NEW q \in Nat, NEW r \in Nat, NEW s \in Nat, NEW t \in Nat,
           r < n, t < n, q * n + r = s * n + t
    PROVE  q = s /\ r = t
  <1>1. ASSUME NEW x \in Nat, NEW y \in Nat, x < y
        PROVE  x * n + n <= y * n
    <2>1. (x + 1) * n <= y * n
      BY <1>1, Products
    <2> QED BY <2>1, Products
  <1>2. q * n \in Nat /\ s * n \in Nat
    BY Products
  <1>3. ~(q < s)
    BY <1>1, <1>2
  <1>4. ~(s < q)
    BY <1>1, <1>2
  <1>5. q = s
    BY <1>3, <1>4
  <1> QED BY <1>2, <1>5

\* Quotient and remainder of a number that is given by them.
LEMMA DivisionOfSum ==
    ASSUME NEW n \in Positive, NEW q \in Nat, NEW r \in Nat, r < n
    PROVE  (q * n + r) \div n = q /\ (q * n + r) % n = r
  <1>1. PICK a \in Nat : a = q * n + r
    BY Products DEF Positive
  <1>2. PICK s \in Nat, t \in Nat : s = a \div n /\ t = a % n /\ t < n /\ a = s * n + t
    BY Division, Zenon
  <1>3. s = q /\ t = r
    <2>1. s * n + t = q * n + r /\ n \in Nat
      BY <1>1, <1>2 DEF Positive
    <2> QED BY <1>2, <2>1, DivisionIsUnique
  <1> QED BY <1>1, <1>2, <1>3, Zenon

\* Dividing by a product is dividing twice.
LEMMA DivisionTwice ==
    ASSUME NEW k \in Nat, NEW a \in Positive, NEW b \in Positive
    PROVE  k \div (a * b) = (k \div b) \div a
  <1>1. PICK d \in Nat, y \in Nat : d = k \div b /\ y < b /\ k = d * b + y
    BY Division, Zenon
  <1>2. PICK q \in Nat, x \in Nat : q = d \div a /\ x < a /\ d = q * a + x
    BY Division, Zenon
  <1>4. a \in Nat /\ b \in Nat /\ a * b \in Positive
    BY Products DEF Positive
  <1>5. k = q * (a * b) + (x * b + y)
    <2>1. k = (q * a + x) * b + y
      BY <1>1, <1>2
    <2>2. (q * a + x) * b = q * (a * b) + x * b
      BY <1>4
    <2>3. q * (a * b) \in Nat /\ x * b \in Nat
      BY <1>4, Products
    <2> QED BY <2>1, <2>2, <2>3
  <1>6. x * b + y < a * b /\ x * b + y \in Nat
    <2>1. (x + 1) * b <= a * b
      BY <1>2, <1>4, Products
    <2>2. (x + 1) * b = x * b + b /\ x * b \in Nat /\ a * b \in Nat
      BY <1>4, Products
    <2> QED BY <1>1, <1>4, <2>1, <2>2
  <1>7. k \div (a * b) = q
    BY <1>4, <1>5, <1>6, DivisionOfSum, Zenon
  <1> QED BY <1>1, <1>2, <1>7

---------------------------------------------------------------------------
(* Digits: the row-major order.                                            *)

\* Names for products, quotients, remainders and numbers with a digit appended, so that
\* the facts about them can be cited.
Times(a, n) == a * n
Quotient(a, n) == a \div n
Remainder(a, n) == a % n
Digit(a, n, x) == a * n + x

\* A product of positive numbers is positive.
LEMMA TimesType ==
    ASSUME NEW a \in Positive, NEW n \in Positive
    PROVE  Times(a, n) \in Positive
  BY Products DEF Times, Positive

\* Positive numbers are natural numbers.
LEMMA PositiveIsNat == \A n \in Positive : n \in Nat
  BY DEF Positive

\* A number of digits in their ranges stays within the product of the sizes.
LEMMA DigitKeepsOrder ==
    ASSUME NEW a \in Nat, NEW b \in Nat, NEW n \in Positive, NEW x \in Nat, x < n
    PROVE  Digit(a, n, x) \in Nat /\ Times(b, n) \in Nat /\ (Digit(a, n, x) < Times(b, n) <=> a < b)
  <1>1. a * n \in Nat /\ b * n \in Nat /\ n \in Nat /\ (a + 1) * n = a * n + n
    BY Products DEF Positive
  <1>2. ASSUME a < b PROVE a * n + x < b * n
    <2>1. (a + 1) * n <= b * n
      BY <1>1, <1>2, Products
    <2> QED BY <1>1, <2>1
  <1>3. ASSUME ~(a < b) PROVE ~(a * n + x < b * n)
    <2>1. b * n <= a * n
      BY <1>1, <1>3, Products
    <2> QED BY <1>1, <2>1
  <1> QED BY <1>1, <1>2, <1>3 DEF Digit, Times

\* The last digit and what is in front of it can be read off.
LEMMA DigitIsInjective ==
    ASSUME NEW n \in Positive, NEW a \in Nat, NEW x \in Nat, NEW b \in Nat, NEW y \in Nat,
           x < n, y < n, Digit(a, n, x) = Digit(b, n, y)
    PROVE  a = b /\ x = y
  BY DivisionIsUnique, PositiveIsNat DEF Digit

\* Division takes the last digit off.
LEMMA DigitOfDivision ==
    ASSUME NEW k \in Nat, NEW n \in Positive
    PROVE  /\ Quotient(k, n) \in Nat /\ Remainder(k, n) \in Nat /\ Remainder(k, n) < n
           /\ k = Digit(Quotient(k, n), n, Remainder(k, n))
  <1>1. PICK q \in Nat, r \in Nat : q = k \div n /\ r = k % n /\ r < n /\ k = q * n + r
    BY Division, Zenon
  <1> QED BY <1>1, Zenon DEF Digit, Quotient, Remainder

\* It gives the digits of a number that has one appended.
LEMMA QuotientOfDigit ==
    ASSUME NEW n \in Positive, NEW q \in Nat, NEW x \in Nat, x < n
    PROVE  Quotient(Digit(q, n, x), n) = q /\ Remainder(Digit(q, n, x), n) = x
  BY DivisionOfSum, Zenon DEF Quotient, Remainder, Digit

\* Division by a product takes two digits off.
LEMMA QuotientOfTimes ==
    ASSUME NEW k \in Nat, NEW a \in Positive, NEW b \in Positive
    PROVE  Quotient(k, Times(a, b)) = Quotient(Quotient(k, b), a)
  BY DivisionTwice, Zenon DEF Quotient, Times

\* A shape: the sizes of five dimensions.
IsShape(shape) == shape \in [1..5 -> Positive]

\* The number of places in a tensor of that shape.
Volume(shape) == Times(Times(Times(Times(shape[1], shape[2]), shape[3]), shape[4]), shape[5])

\* The indices of such a tensor.
Indices(shape) == {ix \in [1..5 -> Nat] : \A d \in 1..5 : ix[d] < shape[d]}

\* The sizes of a shape are positive.
LEMMA ShapeType ==
    ASSUME NEW shape, IsShape(shape)
    PROVE  /\ shape[1] \in Positive /\ shape[2] \in Positive /\ shape[3] \in Positive
           /\ shape[4] \in Positive /\ shape[5] \in Positive
  BY DEF IsShape

\* The digits of an index are below the sizes.
LEMMA IndexType ==
    ASSUME NEW shape, NEW ix \in Indices(shape)
    PROVE  /\ ix[1] \in Nat /\ ix[2] \in Nat /\ ix[3] \in Nat /\ ix[4] \in Nat /\ ix[5] \in Nat
           /\ ix[1] < shape[1] /\ ix[2] < shape[2] /\ ix[3] < shape[3]
           /\ ix[4] < shape[4] /\ ix[5] < shape[5]
  BY DEF Indices

\* The place of an index in these words.
LEMMA OffsetIsDigits ==
    ASSUME NEW shape, NEW ix
    PROVE  Offset(shape, ix) =
                Digit(Digit(Digit(Digit(ix[1], shape[2], ix[2]), shape[3], ix[3]),
                            shape[4], ix[4]), shape[5], ix[5])
  BY Zenon DEF Offset, Digit

\* The index of a place in these words.
LEMMA IndexIsQuotients ==
    ASSUME NEW shape, NEW k
    PROVE  IndexAt(shape, k) =
            <<Quotient(k, Times(Times(Times(shape[2], shape[3]), shape[4]), shape[5])),
              Remainder(Quotient(k, Times(Times(shape[3], shape[4]), shape[5])), shape[2]),
              Remainder(Quotient(k, Times(shape[4], shape[5])), shape[3]),
              Remainder(Quotient(k, shape[5]), shape[4]),
              Remainder(k, shape[5])>>
  BY Zenon DEF IndexAt, Quotient, Remainder, Times

\* An index has a place in the tensor.
LEMMA OffsetInRange ==
    ASSUME NEW shape, IsShape(shape), NEW ix \in Indices(shape)
    PROVE  Offset(shape, ix) \in Nat /\ Volume(shape) \in Nat /\ Offset(shape, ix) < Volume(shape)
  <1> DEFINE a2 == Digit(ix[1], shape[2], ix[2])
             a3 == Digit(a2, shape[3], ix[3])
             a4 == Digit(a3, shape[4], ix[4])
             v2 == Times(shape[1], shape[2])
             v3 == Times(v2, shape[3])
             v4 == Times(v3, shape[4])
  <1>1. a2 \in Nat /\ v2 \in Nat /\ a2 < v2
    BY ShapeType, IndexType, PositiveIsNat, DigitKeepsOrder
  <1> HIDE DEF a2, v2
  <1>2. a3 \in Nat /\ v3 \in Nat /\ a3 < v3
    BY <1>1, ShapeType, IndexType, DigitKeepsOrder
  <1> HIDE DEF a3, v3
  <1>3. a4 \in Nat /\ v4 \in Nat /\ a4 < v4
    BY <1>2, ShapeType, IndexType, DigitKeepsOrder
  <1> HIDE DEF a4, v4
  <1>4. /\ Digit(a4, shape[5], ix[5]) \in Nat /\ Times(v4, shape[5]) \in Nat
        /\ Digit(a4, shape[5], ix[5]) < Times(v4, shape[5])
    BY <1>3, ShapeType, IndexType, DigitKeepsOrder
  <1> QED BY <1>4, OffsetIsDigits DEF Volume, a2, a3, a4, v2, v3, v4

\* Two indices with one place are the same.
LEMMA OffsetIsInjective ==
    ASSUME NEW shape, IsShape(shape), NEW ix \in Indices(shape), NEW jx \in Indices(shape),
           Offset(shape, ix) = Offset(shape, jx)
    PROVE  ix = jx
  <1> DEFINE a2 == Digit(ix[1], shape[2], ix[2])
             a3 == Digit(a2, shape[3], ix[3])
             a4 == Digit(a3, shape[4], ix[4])
             b2 == Digit(jx[1], shape[2], jx[2])
             b3 == Digit(b2, shape[3], jx[3])
             b4 == Digit(b3, shape[4], jx[4])
  <1>1. Digit(a4, shape[5], ix[5]) = Digit(b4, shape[5], jx[5])
    BY OffsetIsDigits
  <1>2. a2 \in Nat /\ b2 \in Nat
    BY ShapeType, IndexType, PositiveIsNat, DigitKeepsOrder
  <1>3. a2 = b2 => ix[1] = jx[1] /\ ix[2] = jx[2]
    BY ShapeType, IndexType, DigitIsInjective
  <1> HIDE DEF a2, b2
  <1>4. a3 \in Nat /\ b3 \in Nat
    BY <1>2, ShapeType, IndexType, DigitKeepsOrder
  <1>5. a3 = b3 => a2 = b2 /\ ix[3] = jx[3]
    BY <1>2, ShapeType, IndexType, DigitIsInjective
  <1> HIDE DEF a3, b3
  <1>6. a4 \in Nat /\ b4 \in Nat
    BY <1>4, ShapeType, IndexType, DigitKeepsOrder
  <1>7. a4 = b4 => a3 = b3 /\ ix[4] = jx[4]
    BY <1>4, ShapeType, IndexType, DigitIsInjective
  <1> HIDE DEF a4, b4
  <1>8. a4 = b4 /\ ix[5] = jx[5]
    BY <1>1, <1>6, ShapeType, IndexType, DigitIsInjective
  <1>9. \A d \in 1..5 : ix[d] = jx[d]
    BY <1>3, <1>5, <1>7, <1>8
  <1>10. ix \in [1..5 -> Nat] /\ jx \in [1..5 -> Nat]
    BY DEF Indices
  <1> QED BY <1>9, <1>10

\* Every place has an index: IndexAt finds it.
LEMMA IndexOfPlace ==
    ASSUME NEW shape, IsShape(shape), NEW k \in Nat, k < Volume(shape)
    PROVE  IndexAt(shape, k) \in Indices(shape) /\ Offset(shape, IndexAt(shape, k)) = k
  <1> DEFINE x5 == Remainder(k, shape[5])
             a4 == Quotient(k, shape[5])
             x4 == Remainder(a4, shape[4])
             a3 == Quotient(a4, shape[4])
             x3 == Remainder(a3, shape[3])
             a2 == Quotient(a3, shape[3])
             x2 == Remainder(a2, shape[2])
             x1 == Quotient(a2, shape[2])
             ix == <<x1, x2, x3, x4, x5>>
             v2 == Times(shape[1], shape[2])
             v3 == Times(v2, shape[3])
             v4 == Times(v3, shape[4])
  <1>1. IndexAt(shape, k) = ix
    <2>1. Quotient(k, Times(shape[4], shape[5])) = a3
      BY ShapeType, QuotientOfTimes
    <2>2. Quotient(k, Times(Times(shape[3], shape[4]), shape[5])) = a2
      <3>1. a4 \in Nat
        BY ShapeType, DigitOfDivision
      <3>2. Quotient(a4, Times(shape[3], shape[4])) = a2
        BY <3>1, ShapeType, QuotientOfTimes
      <3> QED BY <3>2, ShapeType, TimesType, QuotientOfTimes
    <2>3. Quotient(k, Times(Times(Times(shape[2], shape[3]), shape[4]), shape[5])) = x1
      <3>1. a4 \in Nat
        BY ShapeType, DigitOfDivision
      <3>2. a3 \in Nat
        BY <3>1, ShapeType, DigitOfDivision
      <3>3. Quotient(a3, Times(shape[2], shape[3])) = x1
        BY <3>2, ShapeType, QuotientOfTimes
      <3>4. Quotient(a4, Times(Times(shape[2], shape[3]), shape[4])) = x1
        BY <3>1, <3>3, ShapeType, TimesType, QuotientOfTimes
      <3> QED BY <3>4, ShapeType, TimesType, QuotientOfTimes
    <2> QED BY <2>1, <2>2, <2>3, IndexIsQuotients, Zenon
  <1>2. x5 \in Nat /\ x5 < shape[5] /\ a4 \in Nat /\ k = Digit(a4, shape[5], x5)
    BY ShapeType, DigitOfDivision
  <1>3. x4 \in Nat /\ x4 < shape[4] /\ a3 \in Nat /\ a4 = Digit(a3, shape[4], x4)
    BY <1>2, ShapeType, DigitOfDivision
  <1>4. x3 \in Nat /\ x3 < shape[3] /\ a2 \in Nat /\ a3 = Digit(a2, shape[3], x3)
    BY <1>3, ShapeType, DigitOfDivision
  <1>5. x2 \in Nat /\ x2 < shape[2] /\ x1 \in Nat /\ a2 = Digit(x1, shape[2], x2)
    BY <1>4, ShapeType, DigitOfDivision
  <1> HIDE DEF x1, x2, x3, x4, x5, a2, a3, a4
  <1>6. x1 < shape[1]
    <2>1. shape[1] \in Nat /\ v2 \in Nat /\ v3 \in Nat /\ v4 \in Nat
      BY ShapeType, TimesType, PositiveIsNat
    <2>2. Volume(shape) = Times(v4, shape[5])
      BY DEF Volume
    <2>3. a2 < v2 => x1 < shape[1]
      BY <1>5, <2>1, ShapeType, DigitKeepsOrder
    <2> HIDE DEF v2
    <2>4. a3 < v3 => a2 < v2
      BY <1>4, <2>1, ShapeType, DigitKeepsOrder
    <2> HIDE DEF v3
    <2>5. a4 < v4 => a3 < v3
      BY <1>3, <2>1, ShapeType, DigitKeepsOrder
    <2> HIDE DEF v4
    <2>6. a4 < v4
      BY <1>2, <2>1, <2>2, ShapeType, DigitKeepsOrder
    <2> QED BY <2>3, <2>4, <2>5, <2>6
  <1>7. ix \in [1..5 -> Nat] /\ ix[1] = x1 /\ ix[2] = x2 /\ ix[3] = x3 /\ ix[4] = x4 /\ ix[5] = x5
    BY <1>2, <1>3, <1>4, <1>5
  <1> HIDE DEF ix
  <1>8. ix \in Indices(shape)
    BY <1>2, <1>3, <1>4, <1>5, <1>6, <1>7 DEF Indices
  <1>9. Offset(shape, ix) = k
    BY <1>2, <1>3, <1>4, <1>5, <1>7, OffsetIsDigits
  <1> QED BY <1>1, <1>8, <1>9

---------------------------------------------------------------------------
(* Transposing permutes the places.                                        *)

\* Swapping two dimensions twice changes nothing.
LEMMA SwapFacts ==
    ASSUME NEW S, NEW s \in [1..5 -> S], NEW i \in 0..4, NEW j \in 0..4
    PROVE  /\ Swap(s, i, j) \in [1..5 -> S] /\ Swap(Swap(s, i, j), i, j) = s
           /\ \A d \in 1..5 : Swap(s, i, j)[d] = IF d = j + 1 THEN s[i + 1]
                                                 ELSE IF d = i + 1 THEN s[j + 1] ELSE s[d]
  <1>1. i + 1 \in 1..5 /\ j + 1 \in 1..5
    OBVIOUS
  <1>2. /\ Swap(s, i, j) \in [1..5 -> S]
        /\ \A d \in 1..5 : Swap(s, i, j)[d] = IF d = j + 1 THEN s[i + 1]
                                              ELSE IF d = i + 1 THEN s[j + 1] ELSE s[d]
    BY <1>1 DEF Swap
  <1>3. PICK t \in [1..5 -> S] : t = Swap(s, i, j)
    BY <1>2
  <1>4. /\ Swap(t, i, j) \in [1..5 -> S]
        /\ \A d \in 1..5 : Swap(t, i, j)[d] = IF d = j + 1 THEN t[i + 1]
                                              ELSE IF d = i + 1 THEN t[j + 1] ELSE t[d]
    BY <1>1, <1>3 DEF Swap
  <1>5. \A d \in 1..5 : Swap(t, i, j)[d] = s[d]
    BY <1>1, <1>2, <1>3, <1>4
  <1>6. Swap(t, i, j) = s
    BY <1>4, <1>5
  <1> QED BY <1>2, <1>3, <1>6

\* An index stays in range when it is swapped together with its shape.
LEMMA SwapOfIndex ==
    ASSUME NEW shape, IsShape(shape), NEW i \in 0..4, NEW j \in 0..4, NEW ix \in Indices(shape)
    PROVE  Swap(ix, i, j) \in Indices(Swap(shape, i, j))
  <1>0. i + 1 \in 1..5 /\ j + 1 \in 1..5
    OBVIOUS
  <1>1. ix \in [1..5 -> Nat] /\ \A d \in 1..5 : ix[d] < shape[d]
    BY DEF Indices
  <1>2. /\ Swap(ix, i, j) \in [1..5 -> Nat]
        /\ \A d \in 1..5 : Swap(ix, i, j)[d] = IF d = j + 1 THEN ix[i + 1]
                                               ELSE IF d = i + 1 THEN ix[j + 1] ELSE ix[d]
    BY <1>0, <1>1 DEF Swap
  <1>3. \A d \in 1..5 : Swap(shape, i, j)[d] = IF d = j + 1 THEN shape[i + 1]
                                               ELSE IF d = i + 1 THEN shape[j + 1] ELSE shape[d]
    BY <1>0 DEF Swap, IsShape
  <1>4. \A d \in 1..5 : Swap(ix, i, j)[d] < Swap(shape, i, j)[d]
    BY <1>0, <1>1, <1>2, <1>3
  <1> QED BY <1>2, <1>4 DEF Indices

\* Where transposing takes the element from that it puts at place k.
Place(shape, i, j, k) == Offset(shape, Swap(IndexAt(Swap(shape, i, j), k), i, j))

\* The pairs of dimensions that initialize_model_parallel transposes; a dimension with
\* itself stands for the groups that are cut from the tensor as it is.
Transposed == {<<1, 2>>, <<1, 4>>, <<2, 4>>, <<3, 4>>, <<2, 2>>, <<4, 4>>}

\* The pair is one of them.
LEMMA PairOfTransposed ==
    ASSUME NEW i, NEW j, <<i, j>> \in Transposed
    PROVE  \/ i = 1 /\ j = 2
           \/ i = 1 /\ j = 4
           \/ i = 2 /\ j = 4
           \/ i = 3 /\ j = 4
           \/ i = 2 /\ j = 2
           \/ i = 4 /\ j = 4
  <1>1. \/ <<i, j>> = <<1, 2>>
        \/ <<i, j>> = <<1, 4>>
        \/ <<i, j>> = <<2, 4>>
        \/ <<i, j>> = <<3, 4>>
        \/ <<i, j>> = <<2, 2>>
        \/ <<i, j>> = <<4, 4>>
    BY Zenon DEF Transposed
  <1>2. \A a, b : <<i, j>> = <<a, b>> => i = a /\ j = b
    BY Zenon
  <1> QED BY <1>1, <1>2, Zenon

\* Transposing does not change the number of places.
LEMMA VolumeOfSwap ==
    ASSUME NEW shape, IsShape(shape), NEW i, NEW j, <<i, j>> \in Transposed
    PROVE  /\ i \in 0..4 /\ j \in 0..4
           /\ IsShape(Swap(shape, i, j)) /\ Volume(Swap(shape, i, j)) = Volume(shape)
  <1>1. \/ i = 1 /\ j = 2
        \/ i = 1 /\ j = 4
        \/ i = 2 /\ j = 4
        \/ i = 3 /\ j = 4
        \/ i = 2 /\ j = 2
        \/ i = 4 /\ j = 4
    BY PairOfTransposed
  <1>2. i \in 0..4 /\ j \in 0..4 /\ i + 1 \in 1..5 /\ j + 1 \in 1..5
    BY <1>1
  <1>3. IsShape(Swap(shape, i, j))
    BY <1>2 DEF IsShape, Swap
  <1>4. PICK a \in Nat, b \in Nat, c \in Nat, d \in Nat, e \in Nat :
            a = shape[1] /\ b = shape[2] /\ c = shape[3] /\ d = shape[4] /\ e = shape[5]
    BY DEF IsShape, Positive
  <1>5. Volume(shape) = (((a * b) * c) * d) * e
    BY <1>4, Zenon DEF Volume, Times
  <1>6. PICK s : s = Swap(shape, i, j)
    OBVIOUS
  <1>7. \A x \in 1..5 : s[x] = IF x = j + 1 THEN shape[i + 1]
                               ELSE IF x = i + 1 THEN shape[j + 1] ELSE shape[x]
    BY <1>2, <1>6 DEF Swap, IsShape
  <1>8. Volume(s) = (((s[1] * s[2]) * s[3]) * s[4]) * s[5]
    BY Zenon DEF Volume, Times
  <1>9. CASE i = 1 /\ j = 2
    <2>1. s[1] = a /\ s[2] = c /\ s[3] = b /\ s[4] = d /\ s[5] = e
      BY <1>4, <1>7, <1>9
    <2>2. Volume(s) = (((a * c) * b) * d) * e
      BY <1>8, <2>1, Zenon
    <2> QED BY <1>3, <1>2, <1>5, <1>6, <2>2
  <1>10. CASE i = 1 /\ j = 4
    <2>1. s[1] = a /\ s[2] = e /\ s[3] = c /\ s[4] = d /\ s[5] = b
      BY <1>4, <1>7, <1>10
    <2>2. Volume(s) = (((a * e) * c) * d) * b
      BY <1>8, <2>1, Zenon
    <2> QED BY <1>3, <1>2, <1>5, <1>6, <2>2
  <1>11. CASE i = 2 /\ j = 4
    <2>1. s[1] = a /\ s[2] = b /\ s[3] = e /\ s[4] = d /\ s[5] = c
      BY <1>4, <1>7, <1>11
    <2>2. Volume(s) = (((a * b) * e) * d) * c
      BY <1>8, <2>1, Zenon
    <2> QED BY <1>3, <1>2, <1>5, <1>6, <2>2
  <1>12. CASE i = 3 /\ j = 4
    <2>1. s[1] = a /\ s[2] = b /\ s[3] = c /\ s[4] = e /\ s[5] = d
      BY <1>4, <1>7, <1>12
    <2>2. Volume(s) = (((a * b) * c) * e) * d
      BY <1>8, <2>1, Zenon
    <2> QED BY <1>3, <1>2, <1>5, <1>6, <2>2
  <1>13. CASE i = j
    <2>1. s[1] = a /\ s[2] = b /\ s[3] = c /\ s[4] = d /\ s[5] = e
      BY <1>4, <1>7, <1>13
    <2> QED BY <1>3, <1>2, <1>5, <1>6, <1>8, <2>1, Zenon
  <1> QED BY <1>1, <1>9, <1>10, <1>11, <1>12, <1>13

\* Every one of `size` places is taken from exactly once.
PlacesPermuted(shape, i, j, size) ==
    /\ \A k \in 0..size - 1 : Place(shape, i, j, k) \in 0..size - 1
    /\ \A k, l \in 0..size - 1 : Place(shape, i, j, k) = Place(shape, i, j, l) => k = l
    /\ \A r \in 0..size - 1 : \E k \in 0..size - 1 : Place(shape, i, j, k) = r

\* Transposing permutes the places of the tensor.
LEMMA PlacePermutes ==
    ASSUME NEW shape, IsShape(shape), NEW i, NEW j, <<i, j>> \in Transposed
    PROVE  Volume(shape) \in Nat /\ PlacesPermuted(shape, i, j, Volume(shape))
  <1>1. PICK other : other = Swap(shape, i, j)
    OBVIOUS
  <1>2. /\ i \in 0..4 /\ j \in 0..4 /\ IsShape(other) /\ Volume(other) = Volume(shape)
        /\ Swap(other, i, j) = shape
    BY <1>1, VolumeOfSwap, SwapFacts DEF IsShape
  <1>3. Volume(shape) \in Nat
    BY ShapeType, TimesType, PositiveIsNat DEF Volume
  <1>4. ASSUME NEW k \in 0..Volume(shape) - 1
        PROVE  /\ IndexAt(other, k) \in Indices(other) /\ Offset(other, IndexAt(other, k)) = k
               /\ Swap(IndexAt(other, k), i, j) \in Indices(shape)
    <2>1. k \in Nat /\ k < Volume(other)
      BY <1>2, <1>3
    <2>2. IndexAt(other, k) \in Indices(other) /\ Offset(other, IndexAt(other, k)) = k
      BY <1>2, <2>1, IndexOfPlace
    <2>3. Swap(IndexAt(other, k), i, j) \in Indices(Swap(other, i, j))
      BY <1>2, <2>2, SwapOfIndex
    <2> QED BY <1>2, <2>2, <2>3
  <1>5. \A s : \A ix \in Indices(s) : ix \in [1..5 -> Nat]
    BY DEF Indices
  <1>6. ASSUME NEW k \in 0..Volume(shape) - 1
        PROVE  Place(shape, i, j, k) \in 0..Volume(shape) - 1
    <2>1. /\ Place(shape, i, j, k) \in Nat /\ Place(shape, i, j, k) < Volume(shape)
      BY <1>1, <1>4, OffsetInRange DEF Place
    <2> QED BY <1>3, <2>1
  <1>7. ASSUME NEW k \in 0..Volume(shape) - 1, NEW l \in 0..Volume(shape) - 1,
               Place(shape, i, j, k) = Place(shape, i, j, l)
        PROVE  k = l
    <2>1. Swap(IndexAt(other, k), i, j) = Swap(IndexAt(other, l), i, j)
      BY <1>1, <1>4, <1>7, OffsetIsInjective DEF Place
    <2>2. IndexAt(other, k) = IndexAt(other, l)
      BY <1>2, <1>4, <1>5, <2>1, SwapFacts
    <2> QED BY <1>4, <2>2
  <1>8. ASSUME NEW r \in 0..Volume(shape) - 1
        PROVE  \E k \in 0..Volume(shape) - 1 : Place(shape, i, j, k) = r
    <2>1. PICK ix \in Indices(shape) : ix = IndexAt(shape, r) /\ Offset(shape, ix) = r
      <3>1. r \in Nat /\ r < Volume(shape)
        BY <1>3
      <3> QED BY <3>1, IndexOfPlace
    <2>2. PICK jx \in Indices(other) : jx = Swap(ix, i, j) /\ Swap(jx, i, j) = ix
      <3>1. Swap(ix, i, j) \in Indices(other)
        BY <1>1, <1>2, SwapOfIndex
      <3>2. ix \in [1..5 -> Nat]
        BY <1>5
      <3>3. Swap(Swap(ix, i, j), i, j) = ix
        BY <1>2, <3>2, SwapFacts
      <3> QED BY <3>1, <3>3
    <2>3. PICK k \in 0..Volume(shape) - 1 : k = Offset(other, jx)
      <3>1. /\ Offset(other, jx) \in Nat /\ Offset(other, jx) < Volume(shape)
        BY <1>2, OffsetInRange
      <3> QED BY <1>3, <3>1
    <2>4. IndexAt(other, k) = jx
      BY <1>2, <1>4, <2>3, OffsetIsInjective
    <2> QED BY <1>1, <2>1, <2>2, <2>4 DEF Place
  <1>9. PlacesPermuted(shape, i, j, Volume(shape))
    BY <1>6, <1>7, <1>8, Zenon DEF PlacesPermuted
  <1> QED BY <1>3, <1>9

---------------------------------------------------------------------------
(* Cutting into rows.                                                      *)

\* `lists` cuts the ranks 0..size-1 into m lists of n, every rank in one place of one list.
Cuts(lists, m, n, size) ==
    /\ lists \in [1..m -> [1..n -> 0..size - 1]]
    /\ \A r \in 0..size - 1 : \E j \in 1..m, i \in 1..n : lists[j][i] = r
    /\ \A j, k \in 1..m : \A i, l \in 1..n : lists[j][i] = lists[k][l] => j = k /\ i = l

\* A list of `size` ranks in some order, as the elements of a tensor are.
Permutes(flat, size) ==
    /\ flat \in [0..size - 1 -> 0..size - 1]
    /\ \A k, l \in 0..size - 1 : flat[k] = flat[l] => k = l
    /\ \A r \in 0..size - 1 : \E k \in 0..size - 1 : flat[k] = r

\* There are `size` ranks.
LEMMA RanksCounted ==
    ASSUME NEW size \in Positive
    PROVE  Cardinality(0..size - 1) = size
  <1>1. size \in Int /\ 0 \in Int /\ size - 1 \in Int /\ ~(0 > size - 1)
    BY DEF Positive
  <1>2. Cardinality(0..size - 1) = (size - 1) - 0 + 1
    BY <1>1, FS_Interval
  <1> QED BY <1>1, <1>2

\* What reshape(-1, n) puts into row j at position i, of m * n ranks.
LEMMA RowsAt ==
    ASSUME NEW m \in Positive, NEW n \in Positive, NEW t, Permutes(t.flat, Times(m, n)),
           NEW j \in 1..m, NEW i \in 1..n
    PROVE  /\ Digit(j - 1, n, i - 1) \in 0..Times(m, n) - 1
           /\ DOMAIN Rows(t, n) = 1..m /\ DOMAIN Rows(t, n)[j] = 1..n
           /\ Rows(t, n)[j][i] = t.flat[Digit(j - 1, n, i - 1)]
  <1>1. PICK size \in Positive : size = Times(m, n)
    BY TimesType
  <1>2. m \in Nat /\ n \in Nat /\ size \in Nat /\ 0 < n
    BY <1>1 DEF Positive
  <1>3. DOMAIN t.flat = 0..size - 1
    BY <1>1 DEF Permutes
  <1>4. size \div n = m
    <2>1. size = m * n + 0
      BY <1>1, <1>2, Products DEF Times
    <2>2. 0 \in Nat
      OBVIOUS
    <2> QED BY <1>2, <2>1, <2>2, DivisionOfSum
  <1>5. Cardinality(DOMAIN t.flat) \div n = m
    BY <1>3, <1>4, RanksCounted
  <1>6. j - 1 \in Nat /\ i - 1 \in Nat /\ i - 1 < n /\ j - 1 < m
    BY <1>2
  <1>7. (j - 1) * n + i - 1 = Digit(j - 1, n, i - 1)
    <2>1. (j - 1) * n \in Nat
      BY <1>2, <1>6, Products
    <2> QED BY <1>6, <2>1 DEF Digit
  <1>8. Digit(j - 1, n, i - 1) \in 0..size - 1
    <2>1. Digit(j - 1, n, i - 1) \in Nat /\ Digit(j - 1, n, i - 1) < size
      BY <1>1, <1>2, <1>6, DigitKeepsOrder
    <2> QED BY <1>2, <2>1
  <1> DEFINE at(b, a) == t.flat[(b - 1) * n + a - 1]
  <1>9. Rows(t, n) = [b \in 1..m |-> [a \in 1..n |-> at(b, a)]]
    BY <1>5, Zenon DEF Rows
  <1>10. at(j, i) = t.flat[Digit(j - 1, n, i - 1)]
    BY <1>7
  <1> HIDE DEF at
  <1> QED BY <1>1, <1>8, <1>9, <1>10

\* A permutation of m * n ranks is cut into m rows of n.
LEMMA RowsCut ==
    ASSUME NEW m \in Positive, NEW n \in Positive, NEW t, Permutes(t.flat, Times(m, n))
    PROVE  Cuts(Rows(t, n), m, n, Times(m, n))
  <1>1. PICK size \in Positive : size = Times(m, n)
    BY TimesType
  <1>2. m \in Nat /\ n \in Nat /\ size \in Nat /\ 0 < n
    BY <1>1 DEF Positive
  <1> DEFINE at(j, i) == Digit(j - 1, n, i - 1)
  <1>3. PICK rows : rows = Rows(t, n)
    OBVIOUS
  <1>4. ASSUME NEW j \in 1..m, NEW i \in 1..n
        PROVE  /\ at(j, i) \in 0..size - 1 /\ rows[j][i] = t.flat[at(j, i)]
               /\ DOMAIN rows = 1..m /\ DOMAIN rows[j] = 1..n
    BY <1>1, <1>3, RowsAt
  <1>5. PICK flat \in [0..size - 1 -> 0..size - 1] :
            /\ flat = t.flat
            /\ \A k, l \in 0..size - 1 : flat[k] = flat[l] => k = l
            /\ \A r \in 0..size - 1 : \E k \in 0..size - 1 : flat[k] = r
    BY <1>1, Zenon DEF Permutes
  <1>6. rows = [j \in 1..m |-> [i \in 1..n |-> flat[at(j, i)]]]
    <2>1. DOMAIN Rows(t, n) = 1..m
      <3>1. 1 \in 1..m /\ 1 \in 1..n
        BY <1>2 DEF Positive
      <3> QED BY <1>3, <1>4, <3>1
    <2>2. \A j \in 1..m : rows[j] = [i \in 1..n |-> rows[j][i]]
      <3>1. \A j \in 1..Cardinality(DOMAIN t.flat) \div n :
                rows[j] = [i \in 1..n |-> t.flat[(j - 1) * n + i - 1]]
        BY <1>3, Zenon DEF Rows
      <3>2. DOMAIN rows = 1..Cardinality(DOMAIN t.flat) \div n
        BY <1>3, Zenon DEF Rows
      <3>3. \A j \in 1..m : rows[j] = [i \in 1..n |-> t.flat[(j - 1) * n + i - 1]]
        BY <1>3, <2>1, <3>1, <3>2
      <3> QED BY <3>3
    <2>3. rows = [j \in 1..m |-> rows[j]]
      BY <1>3, <2>1, Zenon DEF Rows
    <2> HIDE DEF at
    <2> QED BY <1>4, <1>5, <2>2, <2>3
  <1> HIDE DEF at
  <1>7. rows \in [1..m -> [1..n -> 0..size - 1]]
    <2>1. \A j \in 1..m : \A i \in 1..n : flat[at(j, i)] \in 0..size - 1
      BY <1>4, <1>5
    <2> QED BY <1>6, <2>1
  <1>8. \A j \in 1..m : \A i \in 1..n : rows[j][i] = flat[at(j, i)]
    BY <1>6
  <1>9. ASSUME NEW r \in 0..size - 1
         PROVE  \E j \in 1..m, i \in 1..n : rows[j][i] = r
    <2>1. PICK k \in 0..size - 1 : flat[k] = r
      BY <1>5
    <2>2. PICK q \in Nat, x \in Nat : x < n /\ k = Digit(q, n, x)
      <3>1. k \in Nat
        BY <1>2
      <3> QED BY <3>1, DigitOfDivision
    <2>3. q < m
      <3>1. k < size
        BY <1>2
      <3> QED BY <1>1, <1>2, <2>2, <3>1, DigitKeepsOrder
    <2>4. q + 1 \in 1..m /\ x + 1 \in 1..n /\ (q + 1) - 1 = q /\ (x + 1) - 1 = x
      BY <1>2, <2>2, <2>3
    <2>5. at(q + 1, x + 1) = k
      BY <2>2, <2>4 DEF at
    <2> QED BY <1>8, <2>1, <2>4, <2>5
  <1>10. ASSUME NEW j \in 1..m, NEW k \in 1..m, NEW i \in 1..n, NEW l \in 1..n,
                rows[j][i] = rows[k][l]
         PROVE  j = k /\ i = l
    <2>1. at(j, i) = at(k, l)
      <3>1. flat[at(j, i)] = flat[at(k, l)]
        BY <1>8, <1>10
      <3>2. at(j, i) \in 0..size - 1 /\ at(k, l) \in 0..size - 1
        BY <1>4
      <3> QED BY <1>5, <3>1, <3>2
    <2>2. /\ j - 1 \in Nat /\ i - 1 \in Nat /\ k - 1 \in Nat /\ l - 1 \in Nat
          /\ i - 1 < n /\ l - 1 < n
      BY <1>2
    <2>3. j - 1 = k - 1 /\ i - 1 = l - 1
      BY <2>1, <2>2, DigitIsInjective DEF at
    <2> QED BY <1>2, <2>3
  <1>11. Cuts(rows, m, n, size)
    BY <1>7, <1>9, <1>10, Zenon DEF Cuts
  <1> QED BY <1>1, <1>3, <1>11, Zenon

---------------------------------------------------------------------------
(* The lists of every kind.                                                *)

\* The sizes of a layout, as the configurations of WorkerStartup have them.
IsLayout(c) ==
    /\ c.ext \in Positive /\ c.dp \in Positive /\ c.pp \in Positive
    /\ c.pcp \in Positive /\ c.tp \in Positive /\ c.dcp \in Positive
    /\ WorldOf(c) % c.dcp = 0

\* The ranks are laid out in a tensor of the given shape, with one place for each.
LEMMA LaidOut ==
    ASSUME NEW c, IsLayout(c)
    PROVE  /\ IsShape(Shape(c)) /\ WorldOf(c) = Volume(Shape(c)) /\ WorldOf(c) \in Positive
           /\ AllRanks(c).shape = Shape(c)
           /\ AllRanks(c).flat = [k \in 0..WorldOf(c) - 1 |-> k]
           /\ Permutes(AllRanks(c).flat, WorldOf(c))
  <1>1. IsShape(Shape(c))
    BY DEF IsShape, Shape, IsLayout
  <1>2. /\ Shape(c)[1] = c.ext /\ Shape(c)[2] = c.dp /\ Shape(c)[3] = c.pp
        /\ Shape(c)[4] = c.pcp /\ Shape(c)[5] = c.tp
    BY DEF Shape
  <1>3. WorldOf(c) = Volume(Shape(c))
    BY <1>2, Zenon DEF WorldOf, Volume, Times
  <1>4. WorldOf(c) \in Positive
    BY <1>1, <1>3, ShapeType, TimesType DEF Volume
  <1>5. AllRanks(c).shape = Shape(c) /\ AllRanks(c).flat = [k \in 0..WorldOf(c) - 1 |-> k]
    BY DEF AllRanks, Arange
  <1>6. Permutes(AllRanks(c).flat, WorldOf(c))
    BY <1>5 DEF Permutes
  <1> QED BY <1>1, <1>3, <1>4, <1>5, <1>6

\* Transposed, they are the same ranks in another order.
LEMMA TransposePermutes ==
    ASSUME NEW c, IsLayout(c), NEW i, NEW j, <<i, j>> \in Transposed
    PROVE  Permutes(Transpose(AllRanks(c), i, j).flat, WorldOf(c))
  <1>1. PICK shape : shape = Shape(c)
    OBVIOUS
  <1>2. PICK size \in Nat : size = WorldOf(c) /\ size = Volume(shape)
    BY <1>1, LaidOut, PositiveIsNat
  <1>3. PICK flat : flat = Transpose(AllRanks(c), i, j).flat
    OBVIOUS
  <1> DEFINE all == AllRanks(c).flat
  <1>4. flat = [k \in 0..size - 1 |-> all[Place(shape, i, j, k)]]
    <2>1. DOMAIN AllRanks(c).flat = 0..size - 1 /\ AllRanks(c).shape = shape
      <3>1. /\ AllRanks(c).flat = [k \in 0..WorldOf(c) - 1 |-> k]
            /\ AllRanks(c).shape = Shape(c)
        BY LaidOut
      <3> QED BY <1>1, <1>2, <3>1
    <2>2. flat = [k \in DOMAIN AllRanks(c).flat |->
                    AllRanks(c).flat[Offset(AllRanks(c).shape,
                        Swap(IndexAt(Swap(AllRanks(c).shape, i, j), k), i, j))]]
      BY <1>3 DEF Transpose
    <2> QED BY <2>1, <2>2, Zenon DEF Place
  <1>5. /\ \A k \in 0..size - 1 : Place(shape, i, j, k) \in 0..size - 1
        /\ \A k, l \in 0..size - 1 : Place(shape, i, j, k) = Place(shape, i, j, l) => k = l
        /\ \A r \in 0..size - 1 : \E k \in 0..size - 1 : Place(shape, i, j, k) = r
    <2>1. IsShape(shape)
      BY <1>1, LaidOut
    <2>2. PlacesPermuted(shape, i, j, Volume(shape))
      BY <2>1, PlacePermutes
    <2> QED BY <1>2, <2>2, Zenon DEF PlacesPermuted
  <1>6. all = [k \in 0..size - 1 |-> k]
    BY <1>2, LaidOut
  <1> HIDE DEF all
  <1>7. /\ flat \in [0..size - 1 -> 0..size - 1]
        /\ \A k \in 0..size - 1 : flat[k] = Place(shape, i, j, k)
    <2>1. \A k \in 0..size - 1 : all[Place(shape, i, j, k)] = Place(shape, i, j, k)
      BY <1>5, <1>6
    <2>2. \A k \in 0..size - 1 : flat[k] = Place(shape, i, j, k)
      BY <1>4, <2>1
    <2>3. \A k \in 0..size - 1 : flat[k] \in 0..size - 1
      BY <1>5, <2>2
    <2> QED BY <1>4, <2>2, <2>3
  <1>8. Permutes(flat, size)
    <2>1. \A k, l \in 0..size - 1 : flat[k] = flat[l] => k = l
      BY <1>5, <1>7
    <2>2. \A r \in 0..size - 1 : \E k \in 0..size - 1 : flat[k] = r
      BY <1>5, <1>7
    <2> QED BY <1>7, <2>1, <2>2 DEF Permutes
  <1> QED BY <1>2, <1>3, <1>8

---------------------------------------------------------------------------
(* The order of the ranks in a group.                                      *)

\* Numbers are compared by what is in front of the last digit, then by the last digit.
LEMMA DigitOrder ==
    ASSUME NEW n \in Positive, NEW a \in Nat, NEW x \in Nat, NEW b \in Nat, NEW y \in Nat,
           x < n, y < n
    PROVE  Digit(a, n, x) < Digit(b, n, y) <=> (a < b \/ (a = b /\ x < y))
  <1>1. n \in Nat /\ a * n \in Nat /\ b * n \in Nat
    BY Products DEF Positive
  <1>2. ASSUME a < b PROVE a * n + x < b * n + y
    <2>1. (a + 1) * n <= b * n /\ (a + 1) * n = a * n + n
      BY <1>1, <1>2, Products
    <2> QED BY <1>1, <2>1
  <1>3. ASSUME b < a PROVE ~(a * n + x < b * n + y)
    <2>1. (b + 1) * n <= a * n /\ (b + 1) * n = b * n + n
      BY <1>1, <1>3, Products
    <2> QED BY <1>1, <2>1
  <1>4. ASSUME a = b PROVE a * n + x < b * n + y <=> x < y
    BY <1>1, <1>4
  <1> QED BY <1>2, <1>3, <1>4 DEF Digit

\* The lexicographic order of indices.
Before(ix, jx) ==
    \/ ix[1] < jx[1]
    \/ ix[1] = jx[1] /\ ix[2] < jx[2]
    \/ ix[1] = jx[1] /\ ix[2] = jx[2] /\ ix[3] < jx[3]
    \/ ix[1] = jx[1] /\ ix[2] = jx[2] /\ ix[3] = jx[3] /\ ix[4] < jx[4]
    \/ ix[1] = jx[1] /\ ix[2] = jx[2] /\ ix[3] = jx[3] /\ ix[4] = jx[4] /\ ix[5] < jx[5]

\* Places are in the order of their indices.
LEMMA OffsetOrder ==
    ASSUME NEW shape, IsShape(shape), NEW ix \in Indices(shape), NEW jx \in Indices(shape)
    PROVE  Offset(shape, ix) < Offset(shape, jx) <=> Before(ix, jx)
  <1> DEFINE a2 == Digit(ix[1], shape[2], ix[2])
             a3 == Digit(a2, shape[3], ix[3])
             a4 == Digit(a3, shape[4], ix[4])
             b2 == Digit(jx[1], shape[2], jx[2])
             b3 == Digit(b2, shape[3], jx[3])
             b4 == Digit(b3, shape[4], jx[4])
  <1>1. a2 \in Nat /\ b2 \in Nat
    BY ShapeType, IndexType, PositiveIsNat, DigitKeepsOrder
  <1>2. /\ a2 = b2 <=> ix[1] = jx[1] /\ ix[2] = jx[2]
        /\ a2 < b2 <=> (ix[1] < jx[1] \/ (ix[1] = jx[1] /\ ix[2] < jx[2]))
    <2>1. a2 = b2 <=> ix[1] = jx[1] /\ ix[2] = jx[2]
      BY ShapeType, IndexType, DigitIsInjective
    <2>2. /\ shape[2] \in Positive
          /\ ix[1] \in Nat /\ ix[2] \in Nat /\ jx[1] \in Nat /\ jx[2] \in Nat
          /\ ix[2] < shape[2] /\ jx[2] < shape[2]
      BY ShapeType, IndexType
    <2>3. a2 < b2 <=> (ix[1] < jx[1] \/ (ix[1] = jx[1] /\ ix[2] < jx[2]))
      BY <2>2, DigitOrder
    <2> QED BY <2>1, <2>3
  <1> HIDE DEF a2, b2
  <1>3. a3 \in Nat /\ b3 \in Nat
    BY <1>1, ShapeType, IndexType, DigitKeepsOrder
  <1>4. /\ a3 = b3 <=> a2 = b2 /\ ix[3] = jx[3]
        /\ a3 < b3 <=> (a2 < b2 \/ (a2 = b2 /\ ix[3] < jx[3]))
    BY <1>1, ShapeType, IndexType, DigitIsInjective, DigitOrder
  <1> HIDE DEF a3, b3
  <1>5. a4 \in Nat /\ b4 \in Nat
    BY <1>3, ShapeType, IndexType, DigitKeepsOrder
  <1>6. /\ a4 = b4 <=> a3 = b3 /\ ix[4] = jx[4]
        /\ a4 < b4 <=> (a3 < b3 \/ (a3 = b3 /\ ix[4] < jx[4]))
    BY <1>3, ShapeType, IndexType, DigitIsInjective, DigitOrder
  <1>7. Offset(shape, ix) = Digit(a4, shape[5], ix[5]) /\ Offset(shape, jx) = Digit(b4, shape[5], jx[5])
    BY OffsetIsDigits DEF a2, a3, b2, b3
  <1> HIDE DEF a4, b4
  <1>8. Offset(shape, ix) < Offset(shape, jx) <=> (a4 < b4 \/ (a4 = b4 /\ ix[5] < jx[5]))
    BY <1>5, <1>7, ShapeType, IndexType, DigitOrder
  <1> QED BY <1>2, <1>4, <1>6, <1>8 DEF Before

\* The number of ranks in a row of a tensor of that shape, when the rows run through the
\* dimensions after the second or through the last one.
RowSize(shape, j) == IF j = 2 THEN Times(Times(shape[3], shape[4]), shape[5]) ELSE shape[5]

\* Those dimensions.
RowSpan(j) == IF j = 2 THEN {3, 4, 5} ELSE {5}

\* Indices that are the same in the other dimensions.
Agree(ix, jx, span) == \A d \in (1..5) \ span : ix[d] = jx[d]

\* Two places are in one row if their indices agree in the other dimensions.
LEMMA RowOfPlace ==
    ASSUME NEW shape, IsShape(shape), NEW ix \in Indices(shape), NEW jx \in Indices(shape),
           NEW j \in {2, 4}
    PROVE  /\ RowSize(shape, j) \in Positive
           /\ Quotient(Offset(shape, ix), RowSize(shape, j))
                = Quotient(Offset(shape, jx), RowSize(shape, j))
              <=> Agree(ix, jx, RowSpan(j))
  <1> DEFINE a2 == Digit(ix[1], shape[2], ix[2])
             a3 == Digit(a2, shape[3], ix[3])
             a4 == Digit(a3, shape[4], ix[4])
             b2 == Digit(jx[1], shape[2], jx[2])
             b3 == Digit(b2, shape[3], jx[3])
             b4 == Digit(b3, shape[4], jx[4])
  <1>0. \A n \in Positive, q \in Nat, r \in Nat : r < n => Quotient(Digit(q, n, r), n) = q
    BY DivisionOfSum DEF Quotient, Digit
  <1>1. a2 \in Nat /\ b2 \in Nat
    BY ShapeType, IndexType, PositiveIsNat, DigitKeepsOrder
  <1>2. a2 = b2 <=> ix[1] = jx[1] /\ ix[2] = jx[2]
    BY ShapeType, IndexType, DigitIsInjective
  <1> HIDE DEF a2, b2
  <1>3. a3 \in Nat /\ b3 \in Nat
    BY <1>1, ShapeType, IndexType, DigitKeepsOrder
  <1>4. a3 = b3 <=> a2 = b2 /\ ix[3] = jx[3]
    BY <1>1, ShapeType, IndexType, DigitIsInjective
  <1>5. Quotient(a3, shape[3]) = a2 /\ Quotient(b3, shape[3]) = b2
    BY <1>0, <1>1, ShapeType, IndexType
  <1> HIDE DEF a3, b3
  <1>6. a4 \in Nat /\ b4 \in Nat
    BY <1>3, ShapeType, IndexType, DigitKeepsOrder
  <1>7. a4 = b4 <=> a3 = b3 /\ ix[4] = jx[4]
    BY <1>3, ShapeType, IndexType, DigitIsInjective
  <1>8. Quotient(a4, shape[4]) = a3 /\ Quotient(b4, shape[4]) = b3
    BY <1>0, <1>3, ShapeType, IndexType
  <1>9. /\ Offset(shape, ix) = Digit(a4, shape[5], ix[5])
        /\ Offset(shape, jx) = Digit(b4, shape[5], jx[5])
    BY OffsetIsDigits DEF a2, a3, b2, b3
  <1> HIDE DEF a4, b4
  <1>10. /\ Quotient(Offset(shape, ix), shape[5]) = a4
         /\ Quotient(Offset(shape, jx), shape[5]) = b4
    BY <1>0, <1>6, <1>9, ShapeType, IndexType
  <1>11. CASE j = 4
    <2>1. RowSize(shape, j) = shape[5] /\ RowSpan(j) = {5}
      BY <1>11 DEF RowSize, RowSpan
    <2>2. Agree(ix, jx, {5}) <=> ix[1] = jx[1] /\ ix[2] = jx[2] /\ ix[3] = jx[3] /\ ix[4] = jx[4]
      BY DEF Agree
    <2> QED BY <1>2, <1>4, <1>7, <1>10, <2>1, <2>2, ShapeType
  <1>12. CASE j = 2
    <2>1. RowSize(shape, j) = Times(Times(shape[3], shape[4]), shape[5]) /\ RowSpan(j) = {3, 4, 5}
      BY <1>12 DEF RowSize, RowSpan
    <2>2. Agree(ix, jx, {3, 4, 5}) <=> ix[1] = jx[1] /\ ix[2] = jx[2]
      BY DEF Agree
    <2>3. /\ Offset(shape, ix) \in Nat /\ Offset(shape, jx) \in Nat
          /\ Times(shape[3], shape[4]) \in Positive
      BY OffsetInRange, ShapeType, TimesType
    <2>4. /\ Quotient(Offset(shape, ix), Times(Times(shape[3], shape[4]), shape[5])) = a2
          /\ Quotient(Offset(shape, jx), Times(Times(shape[3], shape[4]), shape[5])) = b2
      <3>1. /\ Quotient(Offset(shape, ix), Times(Times(shape[3], shape[4]), shape[5]))
                = Quotient(a4, Times(shape[3], shape[4]))
            /\ Quotient(Offset(shape, jx), Times(Times(shape[3], shape[4]), shape[5]))
                = Quotient(b4, Times(shape[3], shape[4]))
        BY <1>10, <2>3, ShapeType, QuotientOfTimes
      <3>2. /\ Quotient(a4, Times(shape[3], shape[4])) = Quotient(a3, shape[3])
            /\ Quotient(b4, Times(shape[3], shape[4])) = Quotient(b3, shape[3])
        BY <1>6, <1>8, ShapeType, QuotientOfTimes
      <3> QED BY <1>5, <3>1, <3>2
    <2> QED BY <1>2, <2>1, <2>2, <2>3, <2>4, ShapeType, TimesType
  <1> QED BY <1>11, <1>12

\* What a swapped index consists of.
IsSwap(sx, ix, i, j) ==
    \A d \in 1..5 : sx[d] = IF d = j + 1 THEN ix[i + 1] ELSE IF d = i + 1 THEN ix[j + 1] ELSE ix[d]

\* It consists of that.
LEMMA SwappedIndex ==
    ASSUME NEW ix \in [1..5 -> Nat], NEW i \in 0..4, NEW j \in 0..4
    PROVE  \E sx \in [1..5 -> Nat] : sx = Swap(ix, i, j) /\ IsSwap(sx, ix, i, j)
  <1>1. i + 1 \in 1..5 /\ j + 1 \in 1..5
    OBVIOUS
  <1>2. /\ Swap(ix, i, j) \in [1..5 -> Nat]
        /\ \A d \in 1..5 : Swap(ix, i, j)[d] = IF d = j + 1 THEN ix[i + 1]
                                                ELSE IF d = i + 1 THEN ix[j + 1] ELSE ix[d]
    BY <1>1 DEF Swap
  <1> QED BY <1>2 DEF IsSwap

\* Swapping two dimensions keeps the order of the indices of one row.
LEMMA SwapKeepsOrder ==
    ASSUME NEW i, NEW j, <<i, j>> \in Transposed,
           NEW kx \in [1..5 -> Nat], NEW lx \in [1..5 -> Nat],
           Agree(kx, lx, RowSpan(j)), Before(kx, lx)
    PROVE  Before(Swap(kx, i, j), Swap(lx, i, j))
  <1>1. \/ i = 1 /\ j = 2
        \/ i = 1 /\ j = 4
        \/ i = 2 /\ j = 4
        \/ i = 3 /\ j = 4
        \/ i = 2 /\ j = 2
        \/ i = 4 /\ j = 4
    BY PairOfTransposed
  <1>2. i \in 0..4 /\ j \in 0..4
    BY <1>1
  <1>3. PICK sx \in [1..5 -> Nat] : sx = Swap(kx, i, j) /\ IsSwap(sx, kx, i, j)
    BY <1>2, SwappedIndex
  <1>4. PICK tx \in [1..5 -> Nat] : tx = Swap(lx, i, j) /\ IsSwap(tx, lx, i, j)
    BY <1>2, SwappedIndex
  <1>5. CASE j = 2
    <2>1. kx[1] = lx[1] /\ kx[2] = lx[2]
      BY <1>5 DEF Agree, RowSpan
    <2>2. CASE i = 2
      <3>1. \A d \in 1..5 : sx[d] = kx[d] /\ tx[d] = lx[d]
        BY <1>3, <1>4, <1>5, <2>2 DEF IsSwap
      <3>2. Before(sx, tx)
        BY <3>1 DEF Before
      <3> QED BY <1>3, <1>4, <3>2
    <2> SUFFICES ASSUME i = 1 PROVE Before(Swap(kx, i, j), Swap(lx, i, j))
      BY <1>1, <1>5, <2>2
    <2>3. /\ sx[1] = kx[1] /\ sx[2] = kx[3] /\ sx[3] = kx[2] /\ sx[4] = kx[4] /\ sx[5] = kx[5]
          /\ tx[1] = lx[1] /\ tx[2] = lx[3] /\ tx[3] = lx[2] /\ tx[4] = lx[4] /\ tx[5] = lx[5]
      BY <1>3, <1>4, <1>5 DEF IsSwap
    <2>4. Before(sx, tx)
      BY <2>1, <2>3 DEF Before
    <2> QED BY <1>3, <1>4, <2>4
  <1>6. CASE j = 4
    <2>1. kx[1] = lx[1] /\ kx[2] = lx[2] /\ kx[3] = lx[3] /\ kx[4] = lx[4]
      BY <1>6 DEF Agree, RowSpan
    <2>2. kx[5] < lx[5]
      BY <2>1 DEF Before
    <2>3. i \in 1..4
      BY <1>1
    <2>4. sx[i + 1] = kx[5] /\ tx[i + 1] = lx[5]
      BY <1>3, <1>4, <1>6, <2>3 DEF IsSwap
    <2>5. \A d \in 1..5 : d # i + 1 => sx[d] = tx[d]
      <3>1. kx[i + 1] = lx[i + 1] \/ i = 4
        BY <2>1, <2>3
      <3>2. \A d \in 1..4 : kx[d] = lx[d]
        BY <2>1
      <3> QED BY <1>3, <1>4, <1>6, <2>3, <3>1, <3>2 DEF IsSwap
    <2>6. Before(sx, tx)
      BY <2>2, <2>3, <2>4, <2>5 DEF Before
    <2> QED BY <1>3, <1>4, <2>6
  <1> QED BY <1>1, <1>5, <1>6

\* The dimensions that the groups span which are cut after a transpose.
Span(i, j) == IF j = 4 THEN {i + 1} ELSE IF i = 1 THEN {2, 4, 5} ELSE {3, 4, 5}

\* The indices of a row agree outside of the span, in either tensor.
LEMMA SpanOfRow ==
    ASSUME NEW i, NEW j, <<i, j>> \in Transposed,
           NEW kx \in [1..5 -> Nat], NEW lx \in [1..5 -> Nat]
    PROVE  Agree(kx, lx, RowSpan(j)) <=> Agree(Swap(kx, i, j), Swap(lx, i, j), Span(i, j))
  <1>1. \/ i = 1 /\ j = 2
        \/ i = 1 /\ j = 4
        \/ i = 2 /\ j = 4
        \/ i = 3 /\ j = 4
        \/ i = 2 /\ j = 2
        \/ i = 4 /\ j = 4
    BY PairOfTransposed
  <1>2. i \in 0..4 /\ j \in 0..4
    BY <1>1
  <1>3. PICK sx \in [1..5 -> Nat] : sx = Swap(kx, i, j) /\ IsSwap(sx, kx, i, j)
    BY <1>2, SwappedIndex
  <1>4. PICK tx \in [1..5 -> Nat] : tx = Swap(lx, i, j) /\ IsSwap(tx, lx, i, j)
    BY <1>2, SwappedIndex
  <1>5. CASE j = 2
    <2>1. Agree(kx, lx, RowSpan(j)) <=> kx[1] = lx[1] /\ kx[2] = lx[2]
      BY <1>5 DEF Agree, RowSpan
    <2>2. CASE i = 1
      <3>1. Agree(sx, tx, Span(i, j)) <=> sx[1] = tx[1] /\ sx[3] = tx[3]
        BY <1>5, <2>2 DEF Agree, Span
      <3>2. sx[1] = kx[1] /\ sx[3] = kx[2] /\ tx[1] = lx[1] /\ tx[3] = lx[2]
        BY <1>3, <1>4, <1>5, <2>2 DEF IsSwap
      <3> QED BY <1>3, <1>4, <2>1, <3>1, <3>2
    <2>3. CASE i = 2
      <3>1. Agree(sx, tx, Span(i, j)) <=> sx[1] = tx[1] /\ sx[2] = tx[2]
        BY <1>5, <2>3 DEF Agree, Span
      <3>2. sx[1] = kx[1] /\ sx[2] = kx[2] /\ tx[1] = lx[1] /\ tx[2] = lx[2]
        BY <1>3, <1>4, <1>5, <2>3 DEF IsSwap
      <3> QED BY <1>3, <1>4, <2>1, <3>1, <3>2
    <2> QED BY <1>1, <1>5, <2>2, <2>3
  <1>6. CASE j = 4
    <2>1. i \in 1..4
      BY <1>1
    <2>2. Agree(kx, lx, RowSpan(j)) <=> \A d \in 1..4 : kx[d] = lx[d]
      BY <1>6 DEF Agree, RowSpan
    <2>3. Agree(sx, tx, Span(i, j)) <=> \A d \in 1..5 : d # i + 1 => sx[d] = tx[d]
      BY <1>6 DEF Agree, Span
    <2>4. /\ \A d \in 1..4 : d # i + 1 => sx[d] = kx[d] /\ tx[d] = lx[d]
          /\ i # 4 => sx[5] = kx[i + 1] /\ tx[5] = lx[i + 1]
      BY <1>3, <1>4, <1>6, <2>1 DEF IsSwap
    <2>5. (\A d \in 1..4 : kx[d] = lx[d]) => \A d \in 1..5 : d # i + 1 => sx[d] = tx[d]
      BY <2>1, <2>4
    <2>6. ASSUME \A d \in 1..5 : d # i + 1 => sx[d] = tx[d], NEW d \in 1..4
          PROVE  kx[d] = lx[d]
      <3>1. CASE d # i + 1
        BY <2>4, <2>6, <3>1
      <3>2. CASE d = i + 1
        <4>1. i # 4 /\ 5 # i + 1
          BY <2>1, <3>2
        <4> QED BY <2>4, <2>6, <3>2, <4>1
      <3> QED BY <3>1, <3>2
    <2> QED BY <1>3, <1>4, <2>2, <2>3, <2>5, <2>6
  <1> QED BY <1>1, <1>5, <1>6

\* The rank that transposing puts at place k has the index of that place, swapped.
LEMMA RankOfPlace ==
    ASSUME NEW shape, IsShape(shape), NEW i, NEW j, <<i, j>> \in Transposed,
           NEW k \in 0..Volume(shape) - 1
    PROVE  \E kx \in Indices(Swap(shape, i, j)) :
                /\ Offset(Swap(shape, i, j), kx) = k
                /\ Swap(kx, i, j) \in Indices(shape)
                /\ Offset(shape, Swap(kx, i, j)) = Place(shape, i, j, k)
                /\ IndexAt(shape, Place(shape, i, j, k)) = Swap(kx, i, j)
  <1>1. PICK other : other = Swap(shape, i, j)
    OBVIOUS
  <1>2. /\ i \in 0..4 /\ j \in 0..4 /\ IsShape(other) /\ Volume(other) = Volume(shape)
        /\ Swap(other, i, j) = shape
    BY <1>1, VolumeOfSwap, SwapFacts DEF IsShape
  <1>3. Volume(shape) \in Nat
    BY ShapeType, TimesType, PositiveIsNat DEF Volume
  <1>4. k \in Nat /\ k < Volume(other)
    BY <1>2, <1>3
  <1>5. PICK kx \in Indices(other) : kx = IndexAt(other, k) /\ Offset(other, kx) = k
    BY <1>2, <1>4, IndexOfPlace
  <1>6. Swap(kx, i, j) \in Indices(Swap(other, i, j))
    BY <1>2, <1>5, SwapOfIndex
  <1>7. PICK sx \in Indices(shape) : sx = Swap(kx, i, j)
    BY <1>2, <1>6
  <1>8. Offset(shape, sx) = Place(shape, i, j, k)
    BY <1>1, <1>5, <1>7 DEF Place
  <1>9. Offset(shape, sx) \in Nat /\ Offset(shape, sx) < Volume(shape)
    BY OffsetInRange
  <1>10. /\ IndexAt(shape, Offset(shape, sx)) \in Indices(shape)
         /\ Offset(shape, IndexAt(shape, Offset(shape, sx))) = Offset(shape, sx)
    BY <1>9, IndexOfPlace
  <1>11. IndexAt(shape, Offset(shape, sx)) = sx
    BY <1>10, OffsetIsInjective
  <1> QED BY <1>1, <1>5, <1>7, <1>8, <1>11

\* The rank at place k of the transposed tensor.
LEMMA TransposedRank ==
    ASSUME NEW c, IsLayout(c), NEW i, NEW j, NEW k \in 0..WorldOf(c) - 1,
           Place(Shape(c), i, j, k) \in 0..WorldOf(c) - 1
    PROVE  Transpose(AllRanks(c), i, j).flat[k] = Place(Shape(c), i, j, k)
  <1> DEFINE all == AllRanks(c).flat
  <1>1. /\ AllRanks(c).shape = Shape(c) /\ DOMAIN all = 0..WorldOf(c) - 1
        /\ all[Place(Shape(c), i, j, k)] = Place(Shape(c), i, j, k)
    BY LaidOut
  <1>2. Transpose(AllRanks(c), i, j).flat =
            [l \in DOMAIN all |->
                all[Offset(AllRanks(c).shape,
                           Swap(IndexAt(Swap(AllRanks(c).shape, i, j), l), i, j))]]
    BY DEF Transpose
  <1>3. Transpose(AllRanks(c), i, j).flat =
            [l \in 0..WorldOf(c) - 1 |-> all[Place(Shape(c), i, j, l)]]
    BY <1>1, <1>2, Zenon DEF Place
  <1> HIDE DEF all
  <1> QED BY <1>1, <1>3

\* The ranks of a list in increasing order.
Increasing(list, n) == \A x, y \in 1..n : x < y => list[x] < list[y]

\* The groups that are cut after transposing dimensions i and j: they cut the world, each
\* is in increasing order, and a rank is in the group of another if and only if its index
\* differs from the other's in the span of the group only.
LEMMA TransposedRows ==
    ASSUME NEW c, IsLayout(c), NEW i, NEW j, <<i, j>> \in Transposed,
           NEW m \in Positive, NEW n \in Positive,
           n = RowSize(Swap(Shape(c), i, j), j), Times(m, n) = WorldOf(c),
           NEW lists, lists = Rows(Transpose(AllRanks(c), i, j), n)
    PROVE  /\ Cuts(lists, m, n, WorldOf(c))
           /\ \A q \in 1..m : Increasing(lists[q], n)
           /\ \A q \in 1..m : \A x \in 1..n : \A p \in 0..WorldOf(c) - 1 :
                (\E y \in 1..n : lists[q][y] = p)
                    <=> Agree(IndexAt(Shape(c), p), IndexAt(Shape(c), lists[q][x]), Span(i, j))
  <1>1. PICK shape : shape = Shape(c) /\ IsShape(shape)
    BY LaidOut
  <1>2. PICK other : other = Swap(shape, i, j)
    OBVIOUS
  <1>3. IsShape(other) /\ j \in {2, 4}
    BY <1>1, <1>2, VolumeOfSwap, PairOfTransposed
  <1>4. PICK size \in Nat : size = WorldOf(c) /\ size = Volume(shape) /\ size = Times(m, n)
    BY <1>1, LaidOut, PositiveIsNat
  <1>5. PICK t : t = Transpose(AllRanks(c), i, j) /\ Permutes(t.flat, Times(m, n))
    BY TransposePermutes
  <1>6. Cuts(lists, m, n, WorldOf(c))
    BY <1>5, RowsCut
  <1>7. n \in Nat /\ m \in Nat
    BY DEF Positive
  <1> DEFINE rank(k) == Place(shape, i, j, k)
             at(q, x) == Digit(q - 1, n, x - 1)
  <1>8. ASSUME NEW k \in 0..size - 1 PROVE t.flat[k] = rank(k) /\ rank(k) \in 0..size - 1
    <2>1. rank(k) \in 0..size - 1
      <3>1. PlacesPermuted(shape, i, j, size)
        BY <1>1, <1>4, PlacePermutes
      <3> QED BY <3>1 DEF PlacesPermuted
    <2> HIDE DEF rank
    <2>2. t.flat[k] = rank(k)
      BY <1>1, <1>4, <1>5, <2>1, TransposedRank DEF rank
    <2> QED BY <2>1, <2>2
  <1>9. ASSUME NEW k \in 0..size - 1
        PROVE  \E kx \in Indices(other) :
                /\ Offset(other, kx) = k /\ Swap(kx, i, j) \in Indices(shape)
                /\ Offset(shape, Swap(kx, i, j)) = rank(k)
                /\ IndexAt(shape, rank(k)) = Swap(kx, i, j)
    <2>1. k \in 0..Volume(shape) - 1
      BY <1>4
    <2>2. \E kx \in Indices(Swap(shape, i, j)) :
                /\ Offset(Swap(shape, i, j), kx) = k
                /\ Swap(kx, i, j) \in Indices(shape)
                /\ Offset(shape, Swap(kx, i, j)) = Place(shape, i, j, k)
                /\ IndexAt(shape, Place(shape, i, j, k)) = Swap(kx, i, j)
      BY <1>1, <2>1, RankOfPlace
    <2> QED BY <1>2, <2>2, Zenon
  <1>10. ASSUME NEW k \in 0..size - 1, NEW l \in 0..size - 1
         PROVE  Quotient(k, n) = Quotient(l, n)
                    <=> Agree(IndexAt(shape, rank(k)), IndexAt(shape, rank(l)), Span(i, j))
    <2>1. PICK kx \in Indices(other) :
                Offset(other, kx) = k /\ IndexAt(shape, rank(k)) = Swap(kx, i, j)
      BY <1>9
    <2>2. PICK lx \in Indices(other) :
                Offset(other, lx) = l /\ IndexAt(shape, rank(l)) = Swap(lx, i, j)
      BY <1>9
    <2>3. Quotient(k, n) = Quotient(l, n) <=> Agree(kx, lx, RowSpan(j))
      BY <1>1, <1>2, <1>3, <2>1, <2>2, RowOfPlace
    <2>4. kx \in [1..5 -> Nat] /\ lx \in [1..5 -> Nat]
      BY DEF Indices
    <2>5. Agree(kx, lx, RowSpan(j)) <=> Agree(Swap(kx, i, j), Swap(lx, i, j), Span(i, j))
      BY <2>4, SpanOfRow
    <2> QED BY <2>1, <2>2, <2>3, <2>5
  <1>11. ASSUME NEW k \in 0..size - 1, NEW l \in 0..size - 1, Quotient(k, n) = Quotient(l, n), k < l
         PROVE  rank(k) < rank(l)
    <2>1. PICK kx \in Indices(other) :
                /\ Offset(other, kx) = k /\ Swap(kx, i, j) \in Indices(shape)
                /\ Offset(shape, Swap(kx, i, j)) = rank(k)
      BY <1>9
    <2>2. PICK lx \in Indices(other) :
                /\ Offset(other, lx) = l /\ Swap(lx, i, j) \in Indices(shape)
                /\ Offset(shape, Swap(lx, i, j)) = rank(l)
      BY <1>9
    <2>3. Agree(kx, lx, RowSpan(j))
      BY <1>1, <1>2, <1>3, <1>11, <2>1, <2>2, RowOfPlace
    <2>4. kx \in [1..5 -> Nat] /\ lx \in [1..5 -> Nat]
      BY DEF Indices
    <2>5. Before(kx, lx)
      BY <1>3, <1>11, <2>1, <2>2, OffsetOrder
    <2>6. Before(Swap(kx, i, j), Swap(lx, i, j))
      BY <2>3, <2>4, <2>5, SwapKeepsOrder
    <2> HIDE DEF rank
    <2> QED BY <1>1, <2>1, <2>2, <2>6, OffsetOrder
  <1>12. PlacesPermuted(shape, i, j, size)
    BY <1>1, <1>4, PlacePermutes
  <1> HIDE DEF rank
  <1>13. ASSUME NEW q \in 1..m, NEW x \in 1..n
         PROVE  /\ at(q, x) \in 0..size - 1 /\ lists[q][x] = rank(at(q, x))
                /\ Quotient(at(q, x), n) = q - 1
    <2>1. at(q, x) \in 0..size - 1 /\ lists[q][x] = t.flat[at(q, x)]
      BY <1>4, <1>5, RowsAt
    <2>2. q - 1 \in Nat /\ x - 1 \in Nat /\ x - 1 < n
      BY <1>7
    <2>3. Quotient(at(q, x), n) = q - 1
      BY <2>2, DivisionOfSum DEF Quotient, Digit
    <2> HIDE DEF at
    <2> QED BY <1>8, <2>1, <2>3
  <1>14. ASSUME NEW q \in 1..m, NEW x \in 1..n, NEW y \in 1..n, x < y
         PROVE  lists[q][x] < lists[q][y]
    <2>1. at(q, x) < at(q, y)
      <3>1. /\ q - 1 \in Nat /\ x - 1 \in Nat /\ y - 1 \in Nat /\ x - 1 < n /\ y - 1 < n
            /\ x - 1 < y - 1
        BY <1>7, <1>14
      <3> QED BY <3>1, DigitOrder
    <2> HIDE DEF at
    <2> QED BY <1>11, <1>13, <2>1
  <1>15. ASSUME NEW q \in 1..m, NEW x \in 1..n, NEW p \in 0..size - 1
         PROVE  (\E y \in 1..n : lists[q][y] = p)
                    <=> Agree(IndexAt(shape, p), IndexAt(shape, lists[q][x]), Span(i, j))
    <2>1. PICK k \in 0..size - 1 : rank(k) = p
      BY <1>12 DEF PlacesPermuted, rank
    <2>2. Quotient(k, n) = q - 1 <=> Agree(IndexAt(shape, p), IndexAt(shape, lists[q][x]), Span(i, j))
      BY <1>10, <1>13, <2>1
    <2>3. ASSUME NEW y \in 1..n, lists[q][y] = p PROVE Quotient(k, n) = q - 1
      <3>1. rank(at(q, y)) = rank(k) /\ at(q, y) \in 0..size - 1
        BY <1>13, <2>1, <2>3
      <3>2. at(q, y) = k
        <4> HIDE DEF at
        <4> QED BY <1>12, <3>1 DEF PlacesPermuted, rank
      <3> QED BY <1>13, <3>2
    <2>4. ASSUME Quotient(k, n) = q - 1 PROVE \E y \in 1..n : lists[q][y] = p
      <3>1. k \in Nat
        OBVIOUS
      <3>2. PICK r \in Nat : r = Remainder(k, n) /\ r < n /\ k = Digit(q - 1, n, r)
        BY <2>4, <3>1, DigitOfDivision
      <3>3. r + 1 \in 1..n /\ (r + 1) - 1 = r
        BY <1>7, <3>2
      <3>4. at(q, r + 1) = k
        BY <3>2, <3>3
      <3> HIDE DEF at
      <3> QED BY <1>13, <2>1, <3>3, <3>4
    <2> QED BY <2>2, <2>3, <2>4
  <1>16. \A q \in 1..m : Increasing(lists[q], n)
    BY <1>14 DEF Increasing
  <1> QED BY <1>1, <1>4, <1>6, <1>15, <1>16

---------------------------------------------------------------------------
(* A list in increasing order is the list the group is meant to have.      *)

\* The first k entries of an increasing list are k ranks.
LEMMA CountOfPrefix ==
    ASSUME NEW n \in Nat, NEW list, \A x \in 1..n : list[x] \in Nat, Increasing(list, n),
           NEW k \in 0..n
    PROVE  Cardinality({list[x] : x \in 1..k}) = k
  <1>1. \A x \in 1..k : x \in 1..n /\ x \in Nat
    OBVIOUS
  <1> DEFINE T == {list[x] : x \in 1..k}
             f == [x \in 1..k |-> list[x]]
  <1>2. f \in [1..k -> T]
    OBVIOUS
  <1>3. ASSUME NEW x \in 1..k, NEW y \in 1..k, f[x] = f[y] PROVE x = y
    <2>1. list[x] = list[y] /\ list[x] \in Nat /\ list[y] \in Nat
      BY <1>1, <1>3
    <2>2. ~(x < y) /\ ~(y < x)
      BY <1>1, <2>1 DEF Increasing
    <2> QED BY <1>1, <2>2
  <1>4. \A t \in T : \E x \in 1..k : f[x] = t
    OBVIOUS
  <1>5. DOMAIN f = 1..k
    OBVIOUS
  <1> HIDE DEF f, T
  <1>6. f \in Injection(1..k, T)
    BY <1>2, <1>3, <1>5 DEF Injection, IsInjective
  <1>7. f \in Surjection(1..k, T)
    BY <1>2, <1>4 DEF Surjection
  <1>8. ExistsBijection(1..k, T)
    BY <1>6, <1>7 DEF ExistsBijection, Bijection
  <1>9. IsFiniteSet(1..k) /\ Cardinality(1..k) = k
    <2>1. k \in Int /\ 1 \in Int
      OBVIOUS
    <2>2. IsFiniteSet(1..k) /\ Cardinality(1..k) = IF 1 > k THEN 0 ELSE k - 1 + 1
      BY <2>1, FS_Interval
    <2> QED BY <2>2
  <1> QED BY <1>8, <1>9, FS_Bijection DEF T

\* Sorting the members of a group by the number of members below them.
InOrder(members) ==
    [i \in 1..Cardinality(members) |->
        CHOOSE q \in members : Cardinality({p \in members : p < q}) = i - 1]

\* An increasing list is what sorting its members gives.
LEMMA OrderedIsIntended ==
    ASSUME NEW n \in Nat, NEW list \in [1..n -> Nat], Increasing(list, n),
           NEW members, members = {list[x] : x \in 1..n}
    PROVE  list = InOrder(members)
  <1>1. Cardinality(members) = n
    BY CountOfPrefix
  <1> DEFINE below(q) == Cardinality({p \in members : p < q})
  <1>2. ASSUME NEW x \in 1..n PROVE below(list[x]) = x - 1
    <2>1. {p \in members : p < list[x]} = {list[y] : y \in 1..x - 1}
      <3>1. \A y \in 1..n : list[y] < list[x] <=> y < x
        BY DEF Increasing
      <3>2. \A y \in 1..x - 1 : y \in 1..n /\ y < x
        OBVIOUS
      <3>3. \A y \in 1..n : y < x => y \in 1..x - 1
        OBVIOUS
      <3>4. ASSUME NEW p \in members, p < list[x]
            PROVE  p \in {list[y] : y \in 1..x - 1}
        <4>1. PICK y \in 1..n : p = list[y]
          OBVIOUS
        <4>2. y \in 1..x - 1
          BY <3>1, <3>3, <3>4, <4>1
        <4> QED BY <4>1, <4>2
      <3>5. ASSUME NEW y \in 1..x - 1
            PROVE  list[y] \in members /\ list[y] < list[x]
        BY <3>1, <3>2
      <3> QED BY <3>4, <3>5
    <2>2. Cardinality({list[y] : y \in 1..x - 1}) = x - 1
      <3>1. x - 1 \in 0..n /\ \A y \in 1..n : list[y] \in Nat
        OBVIOUS
      <3> QED BY <3>1, CountOfPrefix
    <2> QED BY <2>1, <2>2
  <1> HIDE DEF below
  <1>3. ASSUME NEW i \in 1..n
        PROVE  list[i] = CHOOSE q \in members : below(q) = i - 1
    <2>1. list[i] \in members /\ below(list[i]) = i - 1
      BY <1>2
    <2>2. ASSUME NEW q \in members, below(q) = i - 1 PROVE q = list[i]
      <3>1. PICK x \in 1..n : q = list[x]
        OBVIOUS
      <3>2. x - 1 = i - 1
        BY <1>2, <2>2, <3>1
      <3> QED BY <3>1, <3>2
    <2> QED BY <2>1, <2>2
  <1>4. list = [i \in 1..n |-> CHOOSE q \in members : below(q) = i - 1]
    BY <1>3
  <1> QED BY <1>1, <1>4, Zenon DEF InOrder, below

---------------------------------------------------------------------------
(* The coordinates of a rank are its index in the tensor.                  *)

\* The ranks of the world.
Ranks(c) == 0..WorldOf(c) - 1

\* The index of a rank in the tensor the ranks are laid out in.
At(c, r) == IndexAt(Shape(c), r)

\* The sizes that Coordinate divides by are those that IndexAt divides by.
LEMMA CoordinateIsIndex ==
    ASSUME NEW c, IsLayout(c), NEW r \in Ranks(c)
    PROVE  /\ Coordinate(c, r).ext = At(c, r)[1] /\ Coordinate(c, r).dp = At(c, r)[2]
           /\ Coordinate(c, r).pp = At(c, r)[3] /\ Coordinate(c, r).pcp = At(c, r)[4]
           /\ Coordinate(c, r).tp = At(c, r)[5]
  <1>1. PICK dp \in Nat, pp \in Nat, pcp \in Nat, tp \in Nat :
            dp = c.dp /\ pp = c.pp /\ pcp = c.pcp /\ tp = c.tp
    BY DEF IsLayout, Positive
  <1>2. /\ Shape(c)[2] = dp /\ Shape(c)[3] = pp /\ Shape(c)[4] = pcp /\ Shape(c)[5] = tp
    BY <1>1 DEF Shape
  <1>3. At(c, r) = <<r \div (dp * pp * pcp * tp), (r \div (pp * pcp * tp)) % dp,
                     (r \div (pcp * tp)) % pp, (r \div tp) % pcp, r % tp>>
    BY <1>2, Zenon DEF At, IndexAt
  <1>4. Coordinate(c, r) =
            [tp |-> r % tp, pcp |-> (r \div tp) % pcp, pp |-> (r \div (tp * pcp)) % pp,
             dp |-> (r \div (tp * pcp * pp)) % dp, ext |-> r \div (tp * pcp * pp * dp)]
    BY <1>1, Zenon DEF Coordinate
  <1>5. /\ tp * pcp = pcp * tp
        /\ tp * pcp * pp = pp * pcp * tp
        /\ tp * pcp * pp * dp = dp * pp * pcp * tp
    OBVIOUS
  <1>6. Coordinate(c, r) =
            [tp |-> r % tp, pcp |-> (r \div tp) % pcp, pp |-> (r \div (pcp * tp)) % pp,
             dp |-> (r \div (pp * pcp * tp)) % dp, ext |-> r \div (dp * pp * pcp * tp)]
    BY <1>4, <1>5, Zenon
  <1>7. PICK x1, x2, x3, x4, x5 :
            /\ x1 = r \div (dp * pp * pcp * tp) /\ x2 = (r \div (pp * pcp * tp)) % dp
            /\ x3 = (r \div (pcp * tp)) % pp /\ x4 = (r \div tp) % pcp /\ x5 = r % tp
    OBVIOUS
  <1>8. At(c, r) = <<x1, x2, x3, x4, x5>>
    BY <1>3, <1>7, Zenon
  <1>9. Coordinate(c, r) = [tp |-> x5, pcp |-> x4, pp |-> x3, dp |-> x2, ext |-> x1]
    BY <1>6, <1>7, Zenon
  <1> QED BY <1>8, <1>9

\* The dimensions of the tensor that the groups of a kind span.
KindSpan(kind) ==
    CASE kind = "tp" -> {5}
      [] kind = "pcp" -> {4}
      [] kind = "pp" -> {3}
      [] kind = "dp" -> {2}
      [] kind \in {"ep", "eplb"} -> {2, 4, 5}
      [] kind = "inner" -> {3, 4, 5}

\* The kinds whose groups are cut out of the tensor along dimensions.
CutKinds == {"tp", "pcp", "pp", "dp", "ep", "eplb", "inner"}

\* The peers of a rank are those whose index differs in these dimensions only.
LEMMA PeersAgree ==
    ASSUME NEW c, IsLayout(c), NEW kind \in CutKinds, NEW r \in Ranks(c)
    PROVE  Peers(kind, c, r) = {q \in Ranks(c) : Agree(At(c, q), At(c, r), KindSpan(kind))}
  <1> DEFINE Same(q, d) == Coordinate(c, q)[d] = Coordinate(c, r)[d]
             Equal(q, d) == At(c, q)[d] = At(c, r)[d]
  <1>1. ASSUME NEW q \in Ranks(c)
        PROVE  /\ Same(q, "ext") <=> Equal(q, 1)
               /\ Same(q, "dp") <=> Equal(q, 2)
               /\ Same(q, "pp") <=> Equal(q, 3)
               /\ Same(q, "pcp") <=> Equal(q, 4)
               /\ Same(q, "tp") <=> Equal(q, 5)
    BY CoordinateIsIndex
  <1>2. Peers(kind, c, r) =
            {q \in Ranks(c) : \A d \in {"ext", "dp", "pp", "pcp", "tp"} \ Spans(kind) : Same(q, d)}
    BY Zenon DEF Peers, Ranks
  <1>3. \A q : Agree(At(c, q), At(c, r), KindSpan(kind))
                <=> \A d \in (1..5) \ KindSpan(kind) : Equal(q, d)
    BY Zenon DEF Agree
  <1> HIDE DEF Same, Equal
  <1>4. ASSUME NEW q \in Ranks(c)
        PROVE  (\A d \in {"ext", "dp", "pp", "pcp", "tp"} \ Spans(kind) : Same(q, d))
                    <=> \A d \in (1..5) \ KindSpan(kind) : Equal(q, d)
    <2>1. CASE kind = "tp"
      BY <1>1, <2>1 DEF Spans, KindSpan
    <2>2. CASE kind = "pcp"
      BY <1>1, <2>2 DEF Spans, KindSpan
    <2>3. CASE kind = "pp"
      BY <1>1, <2>3 DEF Spans, KindSpan
    <2>4. CASE kind = "dp"
      BY <1>1, <2>4 DEF Spans, KindSpan
    <2>5. CASE kind \in {"ep", "eplb"}
      BY <1>1, <2>5 DEF Spans, KindSpan
    <2>6. CASE kind = "inner"
      BY <1>1, <2>6 DEF Spans, KindSpan
    <2> QED BY <2>1, <2>2, <2>3, <2>4, <2>5, <2>6 DEF CutKinds
  <1> QED BY <1>2, <1>3, <1>4

---------------------------------------------------------------------------
(* The lists of every kind.                                                *)

\* The block of dcp consecutive ranks that r is in.
Block(c, r) == {q \in Ranks(c) : q \div c.dcp = r \div c.dcp}

\* The ranks in the group of rank r, as the group is cut, and that group.
MembersOf(kind, c, r) == IF kind = "dcp" THEN Block(c, r) ELSE Peers(kind, c, r)
GroupAsCut(kind, c, r) == InOrder(MembersOf(kind, c, r))

\* What the groups of a kind are to be: lists of n ranks that cut the world, each of them
\* the group of its members.
WellCut(kind, c, m, n) ==
    /\ Cuts(GroupRanks(kind, c), m, n, WorldOf(c))
    /\ \A q \in 1..m : \A x \in 1..n :
        GroupRanks(kind, c)[q] = GroupAsCut(kind, c, GroupRanks(kind, c)[q][x])

\* Where dcp divides tp, the number of a block is that of its tensor-parallel group with
\* the number of the block in that group appended.
LEMMA BlockNumber ==
    ASSUME NEW tp \in Positive, NEW dcp \in Positive, tp % dcp = 0, NEW k \in Nat
    PROVE  \E s \in Positive :
            /\ s = tp \div dcp
            /\ Quotient(Remainder(k, tp), dcp) \in Nat /\ Quotient(Remainder(k, tp), dcp) < s
            /\ Quotient(k, tp) \in Nat
            /\ Quotient(k, dcp) = Digit(Quotient(k, tp), s, Quotient(Remainder(k, tp), dcp))
  <1>1. PICK s \in Nat : s = tp \div dcp /\ tp = Digit(s, dcp, 0)
    <2>1. tp \in Nat /\ Remainder(tp, dcp) = 0
      BY PositiveIsNat DEF Remainder
    <2> QED BY <2>1, DigitOfDivision DEF Quotient
  <1>2. dcp \in Nat /\ dcp > 0
    BY DEF Positive
  <1>3. tp = Times(s, dcp) /\ s \in Positive
    <2>1. s * dcp \in Nat
      BY <1>2, Products
    <2>2. tp = s * dcp
      BY <1>1, <2>1 DEF Digit
    <2>3. s # 0
      BY <1>2, <2>2 DEF Positive
    <2> QED BY <2>2, <2>3 DEF Times, Positive
  <1>4. PICK d \in Nat, e \in Nat : d = Quotient(k, dcp) /\ e < dcp /\ k = Digit(d, dcp, e)
    BY DigitOfDivision
  <1>5. PICK a \in Nat, x \in Nat : x < s /\ d = Digit(a, s, x)
    <2>1. s \in Positive
      BY <1>3
    <2>2. /\ Quotient(d, s) \in Nat /\ Remainder(d, s) \in Nat /\ Remainder(d, s) < s
          /\ d = Digit(Quotient(d, s), s, Remainder(d, s))
      BY <2>1, DigitOfDivision
    <2> QED BY <2>2, Zenon
  <1>6. Digit(x, dcp, e) \in Nat /\ Digit(x, dcp, e) < tp
    BY <1>2, <1>3, <1>4, <1>5, PositiveIsNat, DigitKeepsOrder
  <1>7. k = Digit(a, tp, Digit(x, dcp, e))
    <2>1. (a * s + x) * dcp + e = a * (s * dcp) + (x * dcp + e)
      <3>1. (a * s + x) * dcp = a * (s * dcp) + x * dcp
        BY <1>1, <1>2, <1>5
      <3>2. a * (s * dcp) \in Nat /\ x * dcp \in Nat
        BY <1>1, <1>2, <1>5, Products
      <3> QED BY <1>4, <3>1, <3>2
    <2> QED BY <1>3, <1>4, <1>5, <2>1, Zenon DEF Digit, Times
  <1>8. Quotient(k, tp) = a /\ Remainder(k, tp) = Digit(x, dcp, e)
    BY <1>6, <1>7, QuotientOfDigit
  <1>9. Quotient(Remainder(k, tp), dcp) = x
    BY <1>4, <1>8, QuotientOfDigit
  <1> QED BY <1>1, <1>3, <1>4, <1>5, <1>8, <1>9

\* The ranks of a tensor-parallel group are those of one block of tp consecutive ranks.
LEMMA TpPeersAreConsecutive ==
    ASSUME NEW c, IsLayout(c), NEW r \in Ranks(c)
    PROVE  Peers("tp", c, r) = {q \in Ranks(c) : Quotient(q, c.tp) = Quotient(r, c.tp)}
  <1>1. Peers("tp", c, r) = {q \in Ranks(c) : Agree(At(c, q), At(c, r), {5})}
    <2>1. "tp" \in CutKinds /\ KindSpan("tp") = {5}
      BY DEF CutKinds, KindSpan
    <2>2. Peers("tp", c, r) = {q \in Ranks(c) : Agree(At(c, q), At(c, r), KindSpan("tp"))}
      BY <2>1, PeersAgree, Zenon
    <2> QED BY <2>1, <2>2, Zenon
  <1>2. PICK shape : shape = Shape(c) /\ IsShape(shape) /\ Volume(shape) = WorldOf(c)
    BY LaidOut
  <1>3. RowSize(shape, 4) = c.tp /\ RowSpan(4) = {5}
    BY <1>2 DEF RowSize, RowSpan, Shape
  <1>4. ASSUME NEW q \in Ranks(c)
        PROVE  At(c, q) \in Indices(shape) /\ Offset(shape, At(c, q)) = q
    <2>1. q \in Nat /\ q < Volume(shape)
      <3>1. WorldOf(c) \in Nat
        BY LaidOut, PositiveIsNat
      <3> QED BY <1>2, <3>1 DEF Ranks
    <2> QED BY <1>2, <2>1, IndexOfPlace DEF At
  <1>5. ASSUME NEW q \in Ranks(c)
        PROVE  Agree(At(c, q), At(c, r), {5}) <=> Quotient(q, c.tp) = Quotient(r, c.tp)
    <2>1. /\ At(c, q) \in Indices(shape) /\ Offset(shape, At(c, q)) = q
          /\ At(c, r) \in Indices(shape) /\ Offset(shape, At(c, r)) = r
      BY <1>4
    <2>2. Quotient(Offset(shape, At(c, q)), RowSize(shape, 4))
            = Quotient(Offset(shape, At(c, r)), RowSize(shape, 4))
          <=> Agree(At(c, q), At(c, r), RowSpan(4))
      BY <1>2, <2>1, RowOfPlace
    <2> QED BY <1>3, <2>1, <2>2, Zenon
  <1> QED BY <1>1, <1>5

\* Where dcp divides tp, the blocks of consecutive ranks split the tensor-parallel groups.
LEMMA BlocksSplitTp ==
    ASSUME NEW c, IsLayout(c), CanSplit("dcp", c), NEW r \in Ranks(c)
    PROVE  DcpPeers(c, r) = Block(c, r)
  <1>1. PICK tp \in Positive, dcp \in Positive : tp = c.tp /\ dcp = c.dcp /\ tp % dcp = 0
    BY DEF IsLayout, CanSplit
  <1>2. \A q \in Ranks(c) : q \in Nat
    <2>1. WorldOf(c) \in Nat
      BY LaidOut, PositiveIsNat
    <2> QED BY <2>1 DEF Ranks
  <1>3. \A q : Coordinate(c, q).tp \div c.dcp = Quotient(Remainder(q, tp), dcp)
    BY <1>1 DEF Coordinate, Quotient, Remainder
  <1>4. ASSUME NEW q \in Ranks(c)
        PROVE  Quotient(q, dcp) = Quotient(r, dcp)
                <=> /\ Quotient(q, tp) = Quotient(r, tp)
                    /\ Quotient(Remainder(q, tp), dcp) = Quotient(Remainder(r, tp), dcp)
    <2>1. PICK s \in Positive :
            /\ s = tp \div dcp
            /\ Quotient(Remainder(r, tp), dcp) \in Nat /\ Quotient(Remainder(r, tp), dcp) < s
            /\ Quotient(r, tp) \in Nat
            /\ Quotient(r, dcp) = Digit(Quotient(r, tp), s, Quotient(Remainder(r, tp), dcp))
      BY <1>1, <1>2, BlockNumber
    <2>2. /\ Quotient(Remainder(q, tp), dcp) \in Nat /\ Quotient(Remainder(q, tp), dcp) < s
          /\ Quotient(q, tp) \in Nat
          /\ Quotient(q, dcp) = Digit(Quotient(q, tp), s, Quotient(Remainder(q, tp), dcp))
      BY <1>1, <1>2, <2>1, BlockNumber
    <2> QED BY <2>1, <2>2, DigitIsInjective
  <1>5. DcpPeers(c, r) =
            {q \in Ranks(c) :
                /\ Quotient(q, tp) = Quotient(r, tp)
                /\ Quotient(Remainder(q, tp), dcp) = Quotient(Remainder(r, tp), dcp)}
    BY <1>1, <1>3, TpPeersAreConsecutive DEF DcpPeers
  <1>6. Block(c, r) = {q \in Ranks(c) : Quotient(q, dcp) = Quotient(r, dcp)}
    BY <1>1, Zenon DEF Block, Quotient
  <1> QED BY <1>4, <1>5, <1>6

\* The group as it is cut is the group as it is meant to be; that of a context, where dcp
\* divides tp.
LEMMA CutIsIntended ==
    ASSUME NEW c, IsLayout(c), NEW kind, NEW r \in Ranks(c), CanSplit(kind, c)
    PROVE  GroupAsCut(kind, c, r) = IntendedGroup(kind, c, r)
  <1>1. MembersOf(kind, c, r) = IF kind = "dcp" THEN DcpPeers(c, r) ELSE Peers(kind, c, r)
    <2>1. CASE kind = "dcp"
      <3>1. DcpPeers(c, r) = Block(c, r)
        BY <2>1, BlocksSplitTp
      <3> QED BY <2>1, <3>1 DEF MembersOf
    <2>2. CASE kind # "dcp"
      BY <2>2 DEF MembersOf
    <2> QED BY <2>1, <2>2
  <1>2. IntendedGroup(kind, c, r)
            = InOrder(IF kind = "dcp" THEN DcpPeers(c, r) ELSE Peers(kind, c, r))
    BY Zenon DEF IntendedGroup, InOrder
  <1> QED BY <1>1, <1>2, Zenon DEF GroupAsCut

\* Lists of ranks in increasing order that cut the world and hold the members of groups.
Grouping(kind, c, lists, m, n) ==
    /\ Cuts(lists, m, n, WorldOf(c))
    /\ \A q \in 1..m : Increasing(lists[q], n)
    /\ \A q \in 1..m : \A x \in 1..n :
        MembersOf(kind, c, lists[q][x]) = {lists[q][y] : y \in 1..n}

\* Such lists are well cut.
LEMMA WellCutBy ==
    ASSUME NEW c, NEW kind, NEW m \in Positive, NEW n \in Positive, WorldOf(c) \in Nat,
           NEW lists, lists = GroupRanks(kind, c), Grouping(kind, c, lists, m, n)
    PROVE  WellCut(kind, c, m, n)
  <1>1. Cuts(lists, m, n, WorldOf(c))
    BY DEF Grouping
  <1>2. ASSUME NEW q \in 1..m, NEW x \in 1..n
        PROVE  lists[q] = GroupAsCut(kind, c, lists[q][x])
    <2>1. PICK list \in [1..n -> Nat] : list = lists[q]
      BY <1>1 DEF Cuts
    <2>2. PICK members : members = {list[y] : y \in 1..n}
      OBVIOUS
    <2>3. n \in Nat /\ Increasing(list, n)
      BY <2>1 DEF Positive, Grouping
    <2>4. list = InOrder(members)
      BY <2>2, <2>3, OrderedIsIntended
    <2>5. MembersOf(kind, c, lists[q][x]) = {lists[q][y] : y \in 1..n}
      BY Zenon DEF Grouping
    <2>6. {lists[q][y] : y \in 1..n} = members
      BY <2>1, <2>2, Zenon
    <2>7. GroupAsCut(kind, c, lists[q][x]) = InOrder(members)
      BY <2>5, <2>6, Zenon DEF GroupAsCut
    <2> QED BY <2>1, <2>4, <2>7
  <1> QED BY <1>1, <1>2, Zenon DEF WellCut

\* Transposing a dimension with itself changes nothing.
LEMMA TransposeOfSame ==
    ASSUME NEW c, IsLayout(c), NEW i \in {2, 4}, NEW n
    PROVE  Rows(Transpose(AllRanks(c), i, i), n) = Rows(AllRanks(c), n)
  <1>1. PICK shape : shape = Shape(c) /\ IsShape(shape)
    BY LaidOut
  <1>2. PICK size \in Nat : size = WorldOf(c) /\ size = Volume(shape)
    BY <1>1, LaidOut, PositiveIsNat
  <1>3. i \in 0..4 /\ i + 1 \in 1..5
    OBVIOUS
  <1>4. ASSUME NEW S, NEW s \in [1..5 -> S] PROVE Swap(s, i, i) = s
    BY <1>3 DEF Swap
  <1>5. ASSUME NEW k \in 0..size - 1 PROVE Place(shape, i, i, k) = k
    <2>1. Swap(shape, i, i) = shape
      BY <1>1, <1>4 DEF IsShape
    <2>2. k \in Nat /\ k < Volume(shape)
      BY <1>2
    <2>3. IndexAt(shape, k) \in [1..5 -> Nat] /\ Offset(shape, IndexAt(shape, k)) = k
      BY <1>1, <2>2, IndexOfPlace DEF Indices
    <2>4. Swap(IndexAt(shape, k), i, i) = IndexAt(shape, k)
      BY <1>4, <2>3
    <2> QED BY <2>1, <2>3, <2>4 DEF Place
  <1> DEFINE all == AllRanks(c).flat
             flat == Transpose(AllRanks(c), i, i).flat
  <1>6. AllRanks(c).shape = shape /\ all = [k \in 0..size - 1 |-> k]
    BY <1>1, <1>2, LaidOut
  <1>7. flat = [l \in DOMAIN all |->
                    all[Offset(AllRanks(c).shape,
                               Swap(IndexAt(Swap(AllRanks(c).shape, i, i), l), i, i))]]
    BY DEF Transpose
  <1>8. flat = [l \in DOMAIN all |-> all[Place(shape, i, i, l)]]
    BY <1>6, <1>7, Zenon DEF Place
  <1> HIDE DEF all, flat
  <1>9. flat = all
    BY <1>5, <1>6, <1>8
  <1> QED BY <1>9, Zenon DEF Rows, all, flat

\* The number of ranks in a group of a kind.
SizeOf(kind, c) ==
    CASE kind = "world" -> WorldOf(c)
      [] kind = "inner" -> c.pp * c.pcp * c.tp
      [] kind = "tp"    -> c.tp
      [] kind = "dcp"   -> c.dcp
      [] kind = "pcp"   -> c.pcp
      [] kind = "pp"    -> c.pp
      [] kind = "dp"    -> c.dp
      [] kind \in {"ep", "eplb"} -> c.dp * c.pcp * c.tp

\* A transposed tensor is cut into whole rows.
LEMMA RowsFit ==
    ASSUME NEW c, IsLayout(c), NEW i, NEW j, <<i, j>> \in Transposed
    PROVE  /\ RowSize(Swap(Shape(c), i, j), j) \in Positive
           /\ \E m \in Positive : Times(m, RowSize(Swap(Shape(c), i, j), j)) = WorldOf(c)
  <1>1. PICK other : /\ other = Swap(Shape(c), i, j) /\ IsShape(other)
                     /\ Volume(other) = WorldOf(c)
    <2>1. IsShape(Shape(c)) /\ WorldOf(c) = Volume(Shape(c))
      BY LaidOut
    <2> QED BY <2>1, VolumeOfSwap
  <1>2. j \in {2, 4}
    BY PairOfTransposed
  <1>3. /\ other[1] \in Positive /\ other[2] \in Positive /\ other[3] \in Positive
        /\ other[4] \in Positive /\ other[5] \in Positive
    BY <1>1, ShapeType
  <1>4. CASE j = 4
    <2>1. RowSize(other, j) = other[5]
      BY <1>4 DEF RowSize
    <2>2. Times(Times(Times(other[1], other[2]), other[3]), other[4]) \in Positive
      BY <1>3, TimesType
    <2> QED BY <1>1, <1>3, <2>1, <2>2 DEF Volume
  <1>5. CASE j = 2
    <2>1. RowSize(other, j) = Times(Times(other[3], other[4]), other[5])
      BY <1>5 DEF RowSize
    <2>2. Times(other[1], other[2]) \in Positive /\ RowSize(other, j) \in Positive
      BY <1>3, <2>1, TimesType
    <2>3. PICK a \in Nat, b \in Nat, d \in Nat, e \in Nat :
                a = Times(other[1], other[2]) /\ b = other[3] /\ d = other[4] /\ e = other[5]
      BY <1>3, <2>2, PositiveIsNat
    <2>4. ((a * b) * d) * e = a * ((b * d) * e)
      OBVIOUS
    <2>5. Volume(other) = ((a * b) * d) * e
      BY <2>3, Zenon DEF Volume, Times
    <2>6. Times(Times(other[1], other[2]), RowSize(other, j)) = a * ((b * d) * e)
      BY <2>1, <2>3, Zenon DEF Times
    <2> QED BY <1>1, <2>2, <2>4, <2>5, <2>6, Zenon
  <1> QED BY <1>2, <1>4, <1>5

\* The groups of a kind that are cut out of the transposed tensor are well cut.
LEMMA WellCutRows ==
    ASSUME NEW c, IsLayout(c), NEW kind \in CutKinds, NEW i, NEW j, <<i, j>> \in Transposed,
           NEW n, n = RowSize(Swap(Shape(c), i, j), j), KindSpan(kind) = Span(i, j),
           GroupRanks(kind, c) = Rows(Transpose(AllRanks(c), i, j), n)
    PROVE  n \in Positive /\ \E m \in Positive : Times(m, n) = WorldOf(c) /\ WellCut(kind, c, m, n)
  <1>1. n \in Positive
    BY RowsFit
  <1>2. PICK m \in Positive : Times(m, n) = WorldOf(c)
    BY RowsFit
  <1>3. WorldOf(c) \in Nat
    BY LaidOut, PositiveIsNat
  <1>4. PICK lists : lists = GroupRanks(kind, c)
    OBVIOUS
  <1>5. /\ Cuts(lists, m, n, WorldOf(c))
        /\ \A q \in 1..m : Increasing(lists[q], n)
        /\ \A q \in 1..m : \A x \in 1..n : \A p \in 0..WorldOf(c) - 1 :
                (\E y \in 1..n : lists[q][y] = p)
                    <=> Agree(IndexAt(Shape(c), p), IndexAt(Shape(c), lists[q][x]), Span(i, j))
    BY <1>1, <1>2, <1>4, TransposedRows
  <1>6. ASSUME NEW q \in 1..m, NEW x \in 1..n
        PROVE  Peers(kind, c, lists[q][x]) = {lists[q][y] : y \in 1..n}
    <2>1. \A y \in 1..n : lists[q][y] \in Ranks(c)
      <3>1. lists \in [1..m -> [1..n -> 0..WorldOf(c) - 1]]
        BY <1>5, Zenon DEF Cuts
      <3> QED BY <3>1 DEF Ranks
    <2>2. Peers(kind, c, lists[q][x])
            = {p \in Ranks(c) : Agree(At(c, p), At(c, lists[q][x]), Span(i, j))}
      BY <2>1, PeersAgree
    <2>3. \A p \in Ranks(c) :
            (\E y \in 1..n : lists[q][y] = p) <=> Agree(At(c, p), At(c, lists[q][x]), Span(i, j))
      BY <1>5, Zenon DEF At, Ranks
    <2> QED BY <2>1, <2>2, <2>3
  <1>7. kind # "dcp"
    BY DEF CutKinds
  <1>8. \A r : MembersOf(kind, c, r) = Peers(kind, c, r)
    BY <1>7 DEF MembersOf
  <1>9. Grouping(kind, c, lists, m, n)
    BY <1>5, <1>6, <1>8, Zenon DEF Grouping
  <1>10. WellCut(kind, c, m, n)
    BY <1>1, <1>3, <1>4, <1>9, WellCutBy
  <1> QED BY <1>1, <1>2, <1>10

\* The dimensions from which the groups of a kind are cut, and what is left to be shown of
\* the kind: the size of its groups.
LEMMA WellCutByDimensions ==
    ASSUME NEW c, IsLayout(c), NEW kind \in CutKinds, kind = "inner" => c.ext = 1
    PROVE  /\ SizeOf(kind, c) \in Positive
           /\ \E m \in Positive :
                Times(m, SizeOf(kind, c)) = WorldOf(c) /\ WellCut(kind, c, m, SizeOf(kind, c))
  <1> DEFINE n == SizeOf(kind, c)
             shape == Shape(c)
             Goal == /\ n \in Positive
                     /\ \E m \in Positive : Times(m, n) = WorldOf(c) /\ WellCut(kind, c, m, n)
  <1> SUFFICES Goal
    OBVIOUS
  <1>1. PICK ext, dp, pp, pcp, tp :
            /\ ext = c.ext /\ dp = c.dp /\ pp = c.pp /\ pcp = c.pcp /\ tp = c.tp
            /\ ext \in Positive /\ dp \in Positive /\ pp \in Positive
            /\ pcp \in Positive /\ tp \in Positive
    BY DEF IsLayout
  <1>2. /\ shape \in [1..5 -> Positive]
        /\ shape[1] = ext /\ shape[2] = dp /\ shape[3] = pp /\ shape[4] = pcp /\ shape[5] = tp
    BY <1>1, LaidOut DEF Shape, IsShape
  <1> HIDE DEF shape
  <1>3. ASSUME NEW i, NEW j, <<i, j>> \in Transposed, n = RowSize(Swap(shape, i, j), j),
               KindSpan(kind) = Span(i, j),
               GroupRanks(kind, c) = Rows(Transpose(AllRanks(c), i, j), n)
        PROVE  Goal
    BY <1>3, WellCutRows DEF shape
  <1>4. /\ <<1, 2>> \in Transposed /\ <<1, 4>> \in Transposed /\ <<2, 4>> \in Transposed
        /\ <<3, 4>> \in Transposed /\ <<2, 2>> \in Transposed /\ <<4, 4>> \in Transposed
    BY Zenon DEF Transposed
  <1>5. \A i \in 1..4 : \A j \in {4} : RowSize(Swap(shape, i, j), j) = shape[i + 1]
    BY <1>2 DEF RowSize, Swap
  <1>6. CASE kind = "tp"
    <2>1. n = tp /\ KindSpan(kind) = {5} /\ Span(4, 4) = {5}
      BY <1>1, <1>6 DEF SizeOf, KindSpan, Span
    <2>2. RowSize(Swap(shape, 4, 4), 4) = tp
      BY <1>2, <1>5
    <2>3. GroupRanks(kind, c) = Rows(AllRanks(c), tp)
      BY <1>1, <1>6 DEF GroupRanks
    <2>4. Rows(Transpose(AllRanks(c), 4, 4), tp) = Rows(AllRanks(c), tp)
      BY TransposeOfSame
    <2> HIDE DEF n, Goal
    <2> QED BY <1>3, <1>4, <2>1, <2>2, <2>3, <2>4
  <1>7. CASE kind = "pcp"
    <2>1. n = pcp /\ KindSpan(kind) = {4} /\ Span(3, 4) = {4}
      BY <1>1, <1>7 DEF SizeOf, KindSpan, Span
    <2>2. RowSize(Swap(shape, 3, 4), 4) = pcp
      BY <1>2, <1>5
    <2>3. GroupRanks(kind, c) = Rows(Transpose(AllRanks(c), 3, 4), pcp)
      BY <1>1, <1>7 DEF GroupRanks
    <2> HIDE DEF n, Goal
    <2> QED BY <1>3, <1>4, <2>1, <2>2, <2>3
  <1>8. CASE kind = "pp"
    <2>1. n = pp /\ KindSpan(kind) = {3} /\ Span(2, 4) = {3}
      BY <1>1, <1>8 DEF SizeOf, KindSpan, Span
    <2>2. RowSize(Swap(shape, 2, 4), 4) = pp
      BY <1>2, <1>5
    <2>3. GroupRanks(kind, c) = Rows(Transpose(AllRanks(c), 2, 4), pp)
      BY <1>1, <1>8 DEF GroupRanks, PipelineRows
    <2> HIDE DEF n, Goal
    <2> QED BY <1>3, <1>4, <2>1, <2>2, <2>3
  <1>9. CASE kind = "dp"
    <2>1. n = dp /\ KindSpan(kind) = {2} /\ Span(1, 4) = {2}
      BY <1>1, <1>9 DEF SizeOf, KindSpan, Span
    <2>2. RowSize(Swap(shape, 1, 4), 4) = dp
      BY <1>2, <1>5
    <2>3. GroupRanks(kind, c) = Rows(Transpose(AllRanks(c), 1, 4), dp)
      BY <1>1, <1>9 DEF GroupRanks
    <2> HIDE DEF n, Goal
    <2> QED BY <1>3, <1>4, <2>1, <2>2, <2>3
  <1>10. CASE kind \in {"ep", "eplb"}
    <2>1. /\ n = dp * pcp * tp /\ KindSpan(kind) = {2, 4, 5} /\ Span(1, 2) = {2, 4, 5}
      BY <1>1, <1>10 DEF SizeOf, KindSpan, Span
    <2>2. RowSize(Swap(shape, 1, 2), 2) = dp * pcp * tp
      <3>1. Swap(shape, 1, 2)[3] = dp /\ Swap(shape, 1, 2)[4] = pcp /\ Swap(shape, 1, 2)[5] = tp
        BY <1>2 DEF Swap
      <3> QED BY <3>1 DEF RowSize, Times
    <2>3. GroupRanks(kind, c) = Rows(Transpose(AllRanks(c), 1, 2), dp * pcp * tp)
      BY <1>1, <1>10 DEF GroupRanks, ExpertRows
    <2> HIDE DEF n, Goal
    <2> QED BY <1>3, <1>4, <2>1, <2>2, <2>3, Zenon
  <1>11. CASE kind = "inner"
    <2>1. n = pp * pcp * tp /\ KindSpan(kind) = {3, 4, 5} /\ Span(2, 2) = {3, 4, 5}
      BY <1>1, <1>11 DEF SizeOf, KindSpan, Span
    <2>2. RowSize(Swap(shape, 2, 2), 2) = pp * pcp * tp
      <3>1. Swap(shape, 2, 2)[3] = pp /\ Swap(shape, 2, 2)[4] = pcp /\ Swap(shape, 2, 2)[5] = tp
        BY <1>2 DEF Swap
      <3> QED BY <3>1 DEF RowSize, Times
    <2>3. GroupRanks(kind, c) = Rows(AllRanks(c), pp * pcp * tp)
      <3>1. PICK size \in Positive : size = pp * pcp * tp /\ size = c.pp * c.pcp * c.tp
        BY <1>1, TimesType DEF Times
      <3>2. GroupRanks(kind, c) =
                [d \in 1..dp |-> [i \in 1..size |-> (d - 1) * size + i - 1]]
        BY <1>1, <1>11, <3>1 DEF GroupRanks, InnerRows
      <3>3. WorldOf(c) = Times(dp, size)
        <4>1. PICK a \in Nat, b \in Nat, d \in Nat, e \in Nat : a = dp /\ b = pp /\ d = pcp /\ e = tp
          BY <1>1, PositiveIsNat
        <4>2. 1 * a * b * d * e = a * (b * d * e)
          OBVIOUS
        <4>3. WorldOf(c) = 1 * a * b * d * e
          BY <1>1, <1>11, <4>1 DEF WorldOf
        <4> QED BY <3>1, <4>1, <4>2, <4>3 DEF Times
      <3>4. Permutes(AllRanks(c).flat, Times(dp, size))
        BY <3>3, LaidOut
      <3>5. PICK rows : rows = Rows(AllRanks(c), size)
        OBVIOUS
      <3>6. rows \in [1..dp -> [1..size -> 0..Times(dp, size) - 1]]
        <4>1. Cuts(rows, dp, size, Times(dp, size))
          BY <1>1, <3>1, <3>4, <3>5, RowsCut
        <4> QED BY <4>1, Zenon DEF Cuts
      <3>7. ASSUME NEW d \in 1..dp, NEW i \in 1..size
            PROVE  rows[d][i] = (d - 1) * size + i - 1
        <4>1. /\ Digit(d - 1, size, i - 1) \in 0..Times(dp, size) - 1
              /\ rows[d][i] = AllRanks(c).flat[Digit(d - 1, size, i - 1)]
          BY <1>1, <3>1, <3>4, <3>5, RowsAt
        <4>2. rows[d][i] = Digit(d - 1, size, i - 1)
          BY <3>3, <4>1, LaidOut
        <4>3. d - 1 \in Nat /\ i \in Int /\ size \in Nat
          BY <1>1 DEF Positive
        <4>4. (d - 1) * size \in Nat
          BY <4>3, Products
        <4> QED BY <4>2, <4>3, <4>4 DEF Digit
      <3>8. rows = [d \in 1..dp |-> [i \in 1..size |-> (d - 1) * size + i - 1]]
        BY <3>6, <3>7
      <3> QED BY <3>1, <3>2, <3>5, <3>8
    <2>4. Rows(Transpose(AllRanks(c), 2, 2), pp * pcp * tp) = Rows(AllRanks(c), pp * pcp * tp)
      BY TransposeOfSame
    <2> HIDE DEF n, Goal
    <2> QED BY <1>3, <1>4, <2>1, <2>2, <2>3, <2>4, Zenon
  <1> QED BY <1>6, <1>7, <1>8, <1>9, <1>10, <1>11 DEF CutKinds

\* The world itself is one group.
LEMMA WorldWellCut ==
    ASSUME NEW c, IsLayout(c)
    PROVE  WellCut("world", c, 1, WorldOf(c))
  <1>1. PICK n \in Positive : n = WorldOf(c)
    BY LaidOut
  <1>2. n \in Nat /\ 1 \in Positive
    BY DEF Positive
  <1>3. PICK lists : lists = GroupRanks("world", c)
    OBVIOUS
  <1>4. lists = <<[i \in 1..n |-> i - 1]>>
    BY <1>1, <1>3 DEF GroupRanks
  <1>5. lists[1] = [i \in 1..n |-> i - 1] /\ DOMAIN lists = 1..1
    BY <1>4
  <1>6. lists \in [1..1 -> [1..n -> 0..n - 1]]
    <2>1. [i \in 1..n |-> i - 1] \in [1..n -> 0..n - 1]
      BY <1>2
    <2>2. PICK list \in [1..n -> 0..n - 1] : list = [i \in 1..n |-> i - 1]
      BY <2>1
    <2> QED BY <1>4, <2>2
  <1>7. \A q \in 1..1 : q = 1
    OBVIOUS
  <1>8. \A r \in 0..n - 1 : \E j \in 1..1, i \in 1..n : lists[j][i] = r
    <2>1. ASSUME NEW r \in 0..n - 1 PROVE lists[1][r + 1] = r /\ r + 1 \in 1..n /\ 1 \in 1..1
      BY <1>2, <1>5
    <2> QED BY <2>1
  <1>9. ASSUME NEW j \in 1..1, NEW k \in 1..1, NEW i \in 1..n, NEW l \in 1..n,
               lists[j][i] = lists[k][l]
        PROVE  j = k /\ i = l
    <2>1. j = 1 /\ k = 1
      OBVIOUS
    <2>2. i - 1 = l - 1
      BY <1>5, <1>9, <2>1
    <2> QED BY <1>2, <2>1, <2>2
  <1>10. Cuts(lists, 1, n, n)
    BY <1>6, <1>8, <1>9, Zenon DEF Cuts
  <1>11. \A q \in 1..1 : Increasing(lists[q], n)
    <2>1. Increasing(lists[1], n)
      BY <1>2, <1>5 DEF Increasing
    <2> QED BY <1>7, <2>1
  <1>12. \A r : MembersOf("world", c, r) = 0..n - 1
    <2>1. \A r : Peers("world", c, r) = 0..n - 1
      BY <1>1 DEF Peers, Spans
    <2> QED BY <2>1 DEF MembersOf
  <1>13. {lists[1][y] : y \in 1..n} = 0..n - 1
    <2>1. PICK list \in [1..n -> 0..n - 1] : list = lists[1]
      BY <1>6
    <2>2. \A r \in 0..n - 1 : \E y \in 1..n : list[y] = r
      BY <1>7, <1>8, <2>1
    <2>3. {list[y] : y \in 1..n} = 0..n - 1
      BY <2>2
    <2> QED BY <2>1, <2>3
  <1>14. \A q \in 1..1 : \A x \in 1..n :
            MembersOf("world", c, lists[q][x]) = {lists[q][y] : y \in 1..n}
    BY <1>7, <1>12, <1>13, Zenon
  <1>15. Grouping("world", c, lists, 1, n)
    BY <1>1, <1>10, <1>11, <1>14, Zenon DEF Grouping
  <1> QED BY <1>1, <1>2, <1>3, <1>15, WellCutBy

\* The decode context groups are blocks of consecutive ranks.
LEMMA ContextWellCut ==
    ASSUME NEW c, IsLayout(c)
    PROVE  \E m \in Positive : Times(m, c.dcp) = WorldOf(c) /\ WellCut("dcp", c, m, c.dcp)
  <1>1. PICK n \in Positive : n = c.dcp /\ WorldOf(c) % n = 0
    BY DEF IsLayout
  <1>2. PICK size \in Nat : size = WorldOf(c) /\ size > 0
    <2>1. WorldOf(c) \in Nat /\ WorldOf(c) # 0
      BY LaidOut, Zenon DEF Positive
    <2> QED BY <2>1
  <1>3. PICK m \in Nat : size = Digit(m, n, 0)
    <2>1. Remainder(size, n) = 0
      BY <1>1, <1>2 DEF Remainder
    <2> QED BY <2>1, DigitOfDivision
  <1>4. n \in Nat
    BY DEF Positive
  <1>5. size = Times(m, n) /\ m \in Positive
    <2>1. m * n \in Nat
      BY <1>4, Products
    <2>2. size = m * n
      BY <1>3, <2>1 DEF Digit
    <2>3. m # 0
      BY <1>2, <1>4, <2>2
    <2> QED BY <2>2, <2>3 DEF Times, Positive
  <1>6. PICK lists : lists = Rows(AllRanks(c), n)
    OBVIOUS
  <1>7. lists = GroupRanks("dcp", c)
    BY <1>1, <1>6 DEF GroupRanks
  <1>8. Permutes(AllRanks(c).flat, Times(m, n)) /\ AllRanks(c).flat = [k \in 0..size - 1 |-> k]
    BY <1>2, <1>5, LaidOut
  <1>9. Cuts(lists, m, n, size)
    BY <1>5, <1>6, <1>8, RowsCut
  <1>10. ASSUME NEW q \in 1..m, NEW x \in 1..n
         PROVE  lists[q][x] = Digit(q - 1, n, x - 1) /\ lists[q][x] \in 0..size - 1
    <2>1. PICK t : t = AllRanks(c)
      OBVIOUS
    <2>2. Permutes(t.flat, Times(m, n)) /\ lists = Rows(t, n)
      BY <1>6, <1>8, <2>1
    <2>3. /\ Digit(q - 1, n, x - 1) \in 0..size - 1
          /\ lists[q][x] = t.flat[Digit(q - 1, n, x - 1)]
      <3>1. m \in Positive /\ Permutes(t.flat, Times(m, n))
        BY <1>5, <2>2
      <3>2. /\ Digit(q - 1, n, x - 1) \in 0..Times(m, n) - 1
            /\ DOMAIN Rows(t, n) = 1..m /\ DOMAIN Rows(t, n)[q] = 1..n
            /\ Rows(t, n)[q][x] = t.flat[Digit(q - 1, n, x - 1)]
        BY <3>1, RowsAt
      <3> QED BY <1>5, <2>2, <3>2
    <2>4. t.flat = [k \in 0..size - 1 |-> k]
      BY <1>8, <2>1
    <2> QED BY <2>3, <2>4
  <1>11. \A q \in 1..m : Increasing(lists[q], n)
    <2>1. ASSUME NEW q \in 1..m, NEW x \in 1..n, NEW y \in 1..n, x < y
          PROVE  lists[q][x] < lists[q][y]
      <3>1. /\ q - 1 \in Nat /\ x - 1 \in Nat /\ y - 1 \in Nat /\ x - 1 < n /\ y - 1 < n
            /\ x - 1 < y - 1
        BY <1>4, <2>1
      <3>2. Digit(q - 1, n, x - 1) < Digit(q - 1, n, y - 1)
        BY <3>1, DigitOrder
      <3> QED BY <1>10, <3>2, Zenon
    <2> QED BY <2>1 DEF Increasing
  <1>12. ASSUME NEW q \in 1..m, NEW x \in 1..n
         PROVE  Block(c, lists[q][x]) = {lists[q][y] : y \in 1..n}
    <2>1. Block(c, lists[q][x])
            = {p \in 0..size - 1 : Quotient(p, n) = Quotient(lists[q][x], n)}
      BY <1>1, <1>2, Zenon DEF Block, Ranks, Quotient
    <2>2. \A y \in 1..n : Quotient(lists[q][y], n) = q - 1 /\ lists[q][y] \in 0..size - 1
      <3>1. \A y \in 1..n : q - 1 \in Nat /\ y - 1 \in Nat /\ y - 1 < n
        BY <1>4
      <3>2. \A y \in 1..n : Quotient(Digit(q - 1, n, y - 1), n) = q - 1
        BY <3>1, DivisionOfSum DEF Quotient, Digit
      <3> QED BY <1>10, <3>2
    <2>3. ASSUME NEW p \in 0..size - 1, Quotient(p, n) = q - 1
          PROVE  \E y \in 1..n : lists[q][y] = p
      <3>1. PICK r \in Nat : r < n /\ p = Digit(q - 1, n, r)
        BY <2>3, DigitOfDivision
      <3>2. r + 1 \in 1..n /\ (r + 1) - 1 = r
        BY <1>4, <3>1
      <3> QED BY <1>10, <3>1, <3>2
    <2> QED BY <2>1, <2>2, <2>3
  <1>13. \A q \in 1..m : \A x \in 1..n :
            MembersOf("dcp", c, lists[q][x]) = {lists[q][y] : y \in 1..n}
    <2>1. \A r : MembersOf("dcp", c, r) = Block(c, r)
      BY Zenon DEF MembersOf
    <2> QED BY <1>12, <2>1, Zenon
  <1>14. Grouping("dcp", c, lists, m, n)
    BY <1>2, <1>9, <1>11, <1>13, Zenon DEF Grouping
  <1>15. WellCut("dcp", c, m, n)
    BY <1>2, <1>5, <1>7, <1>14, WellCutBy
  <1> QED BY <1>1, <1>2, <1>5, <1>15

\* The lists of every kind are well cut.
LEMMA EveryKindWellCut ==
    ASSUME NEW c, IsLayout(c), NEW kind \in CutKinds \cup {"world", "dcp"},
           kind = "inner" => c.ext = 1
    PROVE  \E m \in Positive :
                /\ m * SizeOf(kind, c) = WorldOf(c)
                /\ WellCut(kind, c, m, SizeOf(kind, c))
  <1>1. CASE kind \in CutKinds
    BY <1>1, WellCutByDimensions DEF Times
  <1>2. CASE kind = "world"
    <2>1. PICK n \in Positive : n = WorldOf(c) /\ n = SizeOf(kind, c)
      BY <1>2, LaidOut DEF SizeOf
    <2>2. 1 * n = WorldOf(c) /\ 1 \in Positive
      BY <2>1 DEF Positive
    <2>3. WellCut(kind, c, 1, n)
      BY <1>2, <2>1, WorldWellCut
    <2> QED BY <2>1, <2>2, <2>3, Zenon
  <1>3. CASE kind = "dcp"
    <2>1. SizeOf(kind, c) = c.dcp
      BY <1>3 DEF SizeOf
    <2> QED BY <1>3, <2>1, ContextWellCut DEF Times
  <1> QED BY <1>1, <1>2, <1>3

\* In a layout of any sizes, the lists of every kind of group are of the size the options
\* say, every rank of the world is in exactly one place of one of them, and each is the
\* intended group of its members: the ranks that differ from them in the dimensions of that
\* kind only, in increasing order; for the context groups, where dcp divides tp, the
\* neighbours in the tensor-parallel group.  The shape, the transposes and the reshapes of
\* initialize_model_parallel are right; the lists of the data-parallel engines are used
\* only where there is no external data parallelism.
THEOREM GroupsCutTheWorld ==
    ASSUME NEW c, IsLayout(c), NEW kind \in CutKinds \cup {"world", "dcp"},
           kind = "inner" => c.ext = 1
    PROVE  \E m \in Positive :
                /\ m * SizeOf(kind, c) = WorldOf(c)
                /\ Cuts(GroupRanks(kind, c), m, SizeOf(kind, c), WorldOf(c))
                /\ CanSplit(kind, c) =>
                    \A q \in 1..m : \A x \in 1..SizeOf(kind, c) :
                        GroupRanks(kind, c)[q] = IntendedGroup(kind, c, GroupRanks(kind, c)[q][x])
  <1>1. PICK m \in Positive :
            m * SizeOf(kind, c) = WorldOf(c) /\ WellCut(kind, c, m, SizeOf(kind, c))
    BY EveryKindWellCut
  <1>2. PICK lists, n : lists = GroupRanks(kind, c) /\ n = SizeOf(kind, c)
    OBVIOUS
  <1>3. /\ Cuts(lists, m, n, WorldOf(c))
        /\ \A q \in 1..m : \A x \in 1..n : lists[q] = GroupAsCut(kind, c, lists[q][x])
    BY <1>1, <1>2, Zenon DEF WellCut
  <1>4. \A q \in 1..m : \A x \in 1..n : lists[q][x] \in Ranks(c)
    <2>1. lists \in [1..m -> [1..n -> 0..WorldOf(c) - 1]]
      BY <1>3, Zenon DEF Cuts
    <2> QED BY <2>1 DEF Ranks
  <1>5. ASSUME CanSplit(kind, c), NEW q \in 1..m, NEW x \in 1..n
        PROVE  lists[q] = IntendedGroup(kind, c, lists[q][x])
    BY <1>3, <1>4, <1>5, CutIsIntended
  <1> QED BY <1>1, <1>2, <1>3, <1>5, Zenon
============================================================================
