---------------------- MODULE ShapedCollectives_proofs ----------------------
(***************************************************************************)
(* Proofs about ShapedCollectives, for any calls: any number of members,   *)
(* and tensors of any number of dimensions of any lengths.                 *)
(*                                                                         *)
(* What is recursive in the model, a product and a sum up to a position,   *)
(* is characterised first; every induction is made by a least              *)
(* counterexample.  Then comes the arithmetic of places in memory, then    *)
(* what the operators on tensors do to the elements, and at last the       *)
(* collectives.                                                            *)
(***************************************************************************)
EXTENDS ShapedCollectives, SequenceTheorems, NaturalsInduction, WellFoundedInduction, TLAPS

---------------------------------------------------------------------------
(* Arithmetic.                                                             *)

\* Division and remainder of a number that is put together.
LEMMA QuotientAndRest ==
    ASSUME NEW q \in Nat, NEW c \in Nat, NEW r \in 0..c - 1
    PROVE  /\ (q * c + r) \div c = q /\ (q * c + r) % c = r
           /\ q * c \in Nat /\ q * c + r \in Nat
  OBVIOUS

\* A number taken apart.
LEMMA Division ==
    ASSUME NEW v \in Nat, NEW c \in Nat, c > 0
    PROVE  /\ v = (v \div c) * c + (v % c)
           /\ v \div c \in Nat /\ v % c \in 0..c - 1
  OBVIOUS

\* A product of naturals.
LEMMA Times ==
    ASSUME NEW a \in Nat, NEW b \in Nat
    PROVE  a * b \in Nat /\ a * b = b * a
  OBVIOUS

\* Products of three and four, in any grouping.
LEMMA Regroup ==
    ASSUME NEW a \in Int, NEW b \in Int, NEW c \in Int
    PROVE  (a * b) * c = a * (b * c) /\ (a + b) * c = a * c + b * c /\ (a - b) * c = a * c - b * c
  OBVIOUS

\* The last of some blocks of c ends where they all do.
LEMMA BlockFits ==
    ASSUME NEW a \in Nat, NEW i \in 0..a - 1, NEW c \in Nat, NEW r \in 0..c - 1
    PROVE  i * c + r \in 0..a * c - 1 /\ i * c + r \in Nat /\ a * c \in Nat /\ i * c \in Nat
  <1>1. PICK h \in Nat : a = i + 1 + h
    <2>1. a - i - 1 \in Nat /\ a = i + 1 + (a - i - 1)
      OBVIOUS
    <2> QED BY <2>1
  <1>2. a * c = i * c + c + h * c /\ h * c \in Nat /\ i * c \in Nat
    BY <1>1
  <1> QED BY <1>2

\* No block of c reaches beyond the last.
LEMMA BlockOf ==
    ASSUME NEW a \in Nat, NEW c \in Nat, NEW v \in 0..a * c - 1, NEW i \in Nat, NEW r \in 0..c - 1,
           v = i * c + r
    PROVE  i \in 0..a - 1
  <1>1. SUFFICES ASSUME i >= a PROVE FALSE
    OBVIOUS
  <1>2. PICK h \in Nat : i = a + h
    <2>1. i - a \in Nat /\ i = a + (i - a)
      BY <1>1
    <2> QED BY <2>1
  <1>3. i * c = a * c + h * c /\ h * c \in Nat /\ a * c \in Nat
    BY <1>2
  <1> QED BY <1>3

---------------------------------------------------------------------------
(* Places.                                                                 *)

\* The parts of the place p.
Parts(p, i, j, k, b, c) ==
    /\ (p - 1) \div (b * c) = i
    /\ ((p - 1) \div c) % b = j
    /\ (p - 1) % c = k

\* The element (i, j, k) of a tensor of a x b x c is one of its elements, and its place
\* tells i, j and k.
LEMMA PlaceFacts ==
    ASSUME NEW a \in Nat, NEW b \in Nat, NEW c \in Nat,
           NEW i \in 0..a - 1, NEW j \in 0..b - 1, NEW k \in 0..c - 1
    PROVE  /\ Place(i, j, k, b, c) \in 1..a * b * c
           /\ Parts(Place(i, j, k, b, c), i, j, k, b, c)
  <1>1. PICK u : u = i * b + j
    OBVIOUS
  <1>2. u \in 0..a * b - 1 /\ u \in Nat /\ a * b \in Nat /\ u \div b = i /\ u % b = j
    BY <1>1, BlockFits, QuotientAndRest
  <1>3. u * c + k \in 0..a * b * c - 1 /\ a * b * c \in Nat
    BY <1>2, BlockFits
  <1>4. PICK p : p = Place(i, j, k, b, c)
    OBVIOUS
  <1>5. p - 1 = u * c + k /\ p \in 1..a * b * c
    <2>1. p = u * c + k + 1
      BY <1>1, <1>4, Zenon DEF Place
    <2>2. PICK v \in Nat : v = u * c + k
      BY <1>2, QuotientAndRest
    <2> QED BY <1>3, <2>1, <2>2
  <1>6. (p - 1) \div c = u /\ (p - 1) % c = k
    BY <1>2, <1>5, QuotientAndRest
  <1>7. (p - 1) \div (b * c) = i
    <2>1. j * c + k \in 0..b * c - 1 /\ b * c \in Nat
      BY BlockFits
    <2>2. p - 1 = i * (b * c) + (j * c + k)
      <3>1. (i * b + j) * c = i * (b * c) + j * c /\ i * (b * c) \in Nat /\ j * c \in Nat
        BY Regroup, Times, i * b \in Int, b * c \in Nat
      <3> QED BY <1>1, <1>5, <3>1
    <2>3. PICK w \in Nat, r \in Nat : w = b * c /\ r = j * c + k /\ r \in 0..w - 1
      BY <2>1
    <2>4. (i * w + r) \div w = i
      BY <2>3, QuotientAndRest
    <2> QED BY <2>2, <2>3, <2>4, Zenon
  <1> QED BY <1>2, <1>4, <1>5, <1>6, <1>7, Zenon DEF Parts

\* Every element has its place.
LEMMA PlaceOfAny ==
    ASSUME NEW a \in Nat, NEW b \in Nat, NEW c \in Nat, NEW p \in 1..a * b * c
    PROVE  \E i \in 0..a - 1, j \in 0..b - 1, k \in 0..c - 1 : p = Place(i, j, k, b, c)
  <1>1. a * b \in Nat /\ a * b * c \in Nat
    BY Times
  <1>2. c > 0 /\ b > 0
    <2>1. CASE c = 0
      BY <1>1, <2>1
    <2>2. CASE b = 0
      <3>1. a * b = 0
        BY <2>2
      <3>2. a * b * c = 0
        BY <3>1
      <3> QED BY <3>2
    <2> QED BY <2>1, <2>2
  <1>3. PICK v \in Nat, u \in Nat, k \in 0..c - 1 : v = p - 1 /\ v = u * c + k
    BY <1>1, <1>2, Division, p - 1 \in Nat
  <1>4. u \in 0..a * b - 1
    <2>1. PICK l \in Nat, h \in Nat : l = a * b /\ h = l * c /\ p \in 1..h
      BY <1>1
    <2>2. v \in 0..l * c - 1
      BY <1>3, <2>1
    <2>3. u \in 0..l - 1
      BY <1>3, <2>1, <2>2, BlockOf
    <2> QED BY <2>1, <2>3
  <1>5. PICK i \in Nat, j \in 0..b - 1 : u = i * b + j
    <2>1. u = (u \div b) * b + (u % b) /\ u \div b \in Nat /\ u % b \in 0..b - 1
      BY <1>2, Division
    <2> QED BY <2>1, Zenon
  <1>6. i \in 0..a - 1
    BY <1>4, <1>5, BlockOf
  <1>7. p = Place(i, j, k, b, c)
    <2>1. v + 1 = Place(i, j, k, b, c)
      BY <1>3, <1>5, Zenon DEF Place
    <2> QED BY <1>3, <2>1
  <1> QED BY <1>6, <1>7

---------------------------------------------------------------------------
(* Running products and sums.                                              *)

\* The natural numbers are well founded.
LEMMA LeastExists ==
    ASSUME NEW S, S \subseteq Nat, S # {}
    PROVE  \E x \in S : \A y \in S : x <= y
  <1>1. \E x \in S : \A y \in S : ~(<<y, x>> \in OpToRel(<, Nat))
    BY NatLessThanWellFounded, WFMin, Zenon
  <1>2. PICK x \in S : \A y \in S : ~(<<y, x>> \in OpToRel(<, Nat))
    BY <1>1
  <1>3. \A y \in S : ~(y < x)
    BY <1>2, Zenon DEF OpToRel
  <1>4. \A y \in S : x <= y
    BY <1>3
  <1> QED BY <1>4

\* u goes from e up to the n-th number of s, and g makes the step.
IsRunning(u, n, s, g, e) == u = [i \in 0..n |-> IF i = 0 THEN e ELSE g[<<u[i - 1], s[i]>>]]

\* There is a running value.
LEMMA RunningExists ==
    ASSUME NEW n \in Nat, NEW s, \A i \in 1..n : s[i] \in Nat,
           NEW g \in [Nat \X Nat -> Nat], NEW e \in Nat
    PROVE  \E u \in [0..n -> Nat] : IsRunning(u, n, s, g, e)
  <1> DEFINE Has(m) == \E u \in [0..m -> Nat] : IsRunning(u, m, s, g, e)
             Bad == {m \in 0..n : ~Has(m)}
  <1>1. SUFFICES ASSUME Bad # {} PROVE FALSE
    BY n \in 0..n
  <1>2. Bad \subseteq Nat
    OBVIOUS
  <1>3. PICK m \in Bad : \A y \in Bad : m <= y
    <2> HIDE DEF Bad
    <2> QED BY <1>1, <1>2, LeastExists
  <1>4. m \in 0..n /\ ~Has(m)
    BY <1>3
  <1>5. CASE m = 0
    <2>1. [i \in 0..0 |-> e] \in [0..0 -> Nat]
      OBVIOUS
    <2>2. IsRunning([i \in 0..0 |-> e], 0, s, g, e)
      BY DEF IsRunning
    <2> QED BY <1>4, <1>5, <2>1, <2>2
  <1>6. CASE m # 0
    <2>1. m - 1 \in 0..n /\ m \in 1..n /\ ~(m <= m - 1)
      BY <1>4, <1>6
    <2>2. Has(m - 1)
      BY <1>3, <2>1
    <2>3. PICK u \in [0..m - 1 -> Nat] : IsRunning(u, m - 1, s, g, e)
      BY <2>2
    <2>4. PICK x \in Nat : x = g[<<u[m - 1], s[m]>>]
      <3>1. m - 1 \in 0..m - 1
        BY <2>1
      <3> QED BY <2>1, <2>3, <3>1
    <2>5. PICK v : v = [i \in 0..m |-> IF i = m THEN x ELSE u[i]]
      OBVIOUS
    <2>6. v \in [0..m -> Nat]
      BY <2>1, <2>3, <2>4, <2>5
    <2>7. \A i \in 0..m : v[i] = IF i = 0 THEN e ELSE g[<<v[i - 1], s[i]>>]
      <3>1. TAKE i \in 0..m
      <3>2. CASE i = m
        <4>1. v[i] = x /\ v[i - 1] = u[m - 1]
          BY <2>1, <2>5, <3>2
        <4> QED BY <1>6, <2>4, <3>2, <4>1
      <3>3. CASE i # m
        <4>1. i \in 0..m - 1 /\ (i # 0 => i - 1 \in 0..m)
          BY <2>1, <3>3
        <4>2. v[i] = u[i] /\ (i # 0 => v[i - 1] = u[i - 1])
          BY <2>1, <2>5, <4>1
        <4>3. u[i] = IF i = 0 THEN e ELSE g[<<u[i - 1], s[i]>>]
          BY <2>3, <4>1, Zenon DEF IsRunning
        <4> QED BY <4>2, <4>3, Zenon
      <3> QED BY <3>2, <3>3
    <2>8. IsRunning(v, m, s, g, e)
      BY <2>6, <2>7 DEF IsRunning
    <2> QED BY <1>4, <2>6, <2>8
  <1> QED BY <1>5, <1>6

\* A function on 0..n.
IsTrack(u, n) == u = [i \in 0..n |-> u[i]]

\* Two functions that go the same way from the same start.
LEMMA SameBySteps ==
    ASSUME NEW n \in Nat, NEW u, IsTrack(u, n), NEW v, IsTrack(v, n),
           u[0] = v[0], \A i \in 1..n : u[i - 1] = v[i - 1] => u[i] = v[i]
    PROVE  u = v
  <1> DEFINE Bad == {i \in 0..n : u[i] # v[i]}
  <1>1. ASSUME Bad # {} PROVE FALSE
    <2>1. Bad \subseteq Nat
      OBVIOUS
    <2>2. PICK i \in Bad : \A y \in Bad : i <= y
      <3> HIDE DEF Bad
      <3> QED BY <1>1, <2>1, LeastExists
    <2>3. i \in 0..n /\ u[i] # v[i]
      BY <2>2
    <2>4. i # 0
      BY <2>3
    <2>5. i - 1 \in 0..n /\ ~(i <= i - 1) /\ i \in 1..n
      BY <2>3, <2>4
    <2>6. u[i - 1] = v[i - 1]
      BY <2>2, <2>5
    <2> QED BY <2>3, <2>5, <2>6
  <1>2. \A i \in 0..n : u[i] = v[i]
    BY <1>1
  <1> QED BY <1>2 DEF IsTrack

\* The running product and the running sum, as a recursive function has them.
IsProduct(u, n, s) == u = [i \in 0..n |-> IF i = 0 THEN 1 ELSE u[i - 1] * s[i]]
IsSum(u, n, s) == u = [i \in 0..n |-> IF i = 0 THEN 0 ELSE u[i - 1] + s[i]]

\* And step by step.
ProductSteps(u, n, s) == IsTrack(u, n) /\ u[0] = 1 /\ \A i \in 1..n : u[i] = u[i - 1] * s[i]
SumSteps(u, n, s) == IsTrack(u, n) /\ u[0] = 0 /\ \A i \in 1..n : u[i] = u[i - 1] + s[i]

\* It is the same.
LEMMA RunningSteps ==
    ASSUME NEW n \in Nat, NEW s, NEW u
    PROVE  /\ IsProduct(u, n, s) <=> ProductSteps(u, n, s)
           /\ IsSum(u, n, s) <=> SumSteps(u, n, s)
  <1>1. /\ 0 \in 0..n /\ \A i \in 1..n : i \in 0..n /\ i # 0
        /\ \A i \in 0..n : i # 0 => i \in 1..n
    OBVIOUS
  <1>2. IsProduct(u, n, s) => ProductSteps(u, n, s)
    BY <1>1 DEF IsProduct, ProductSteps, IsTrack
  <1>3. IsSum(u, n, s) => SumSteps(u, n, s)
    BY <1>1 DEF IsSum, SumSteps, IsTrack
  <1>4. ASSUME ProductSteps(u, n, s) PROVE IsProduct(u, n, s)
    <2>1. \A i \in 0..n : u[i] = IF i = 0 THEN 1 ELSE u[i - 1] * s[i]
      BY <1>1, <1>4, Zenon DEF ProductSteps
    <2> QED BY <1>4, <2>1 DEF IsProduct, ProductSteps, IsTrack
  <1>5. ASSUME SumSteps(u, n, s) PROVE IsSum(u, n, s)
    <2>1. \A i \in 0..n : u[i] = IF i = 0 THEN 0 ELSE u[i - 1] + s[i]
      BY <1>1, <1>5, Zenon DEF SumSteps
    <2> QED BY <1>5, <2>1 DEF IsSum, SumSteps, IsTrack
  <1> QED BY <1>2, <1>3, <1>4, <1>5

\* There is one running product, and one running sum.
LEMMA RunningFacts ==
    ASSUME NEW n \in Nat, NEW s, \A i \in 1..n : s[i] \in Nat
    PROVE  /\ \E u \in [0..n -> Nat] :
                IsProduct(u, n, s) /\ \A v : IsProduct(v, n, s) => v = u
           /\ \E u \in [0..n -> Nat] :
                IsSum(u, n, s) /\ \A v : IsSum(v, n, s) => v = u
  <1>1. PICK g, h : g = [x \in Nat \X Nat |-> x[1] * x[2]] /\ h = [x \in Nat \X Nat |-> x[1] + x[2]]
    OBVIOUS
  <1>2. g \in [Nat \X Nat -> Nat] /\ h \in [Nat \X Nat -> Nat]
    BY <1>1
  <1>3. \A x, y \in Nat : g[<<x, y>>] = x * y /\ h[<<x, y>>] = x + y
    BY <1>1
  <1>4. ASSUME NEW u \in [0..n -> Nat]
        PROVE  /\ IsRunning(u, n, s, g, 1) => IsProduct(u, n, s)
               /\ IsRunning(u, n, s, h, 0) => IsSum(u, n, s)
    <2>1. ASSUME NEW i \in 0..n, i # 0
          PROVE  g[<<u[i - 1], s[i]>>] = u[i - 1] * s[i] /\ h[<<u[i - 1], s[i]>>] = u[i - 1] + s[i]
      <3>1. i - 1 \in 0..n /\ i \in 1..n
        BY <2>1
      <3>2. u[i - 1] \in Nat /\ s[i] \in Nat
        BY <3>1
      <3> QED BY <1>3, <3>2
    <2>2. /\ [i \in 0..n |-> IF i = 0 THEN 1 ELSE u[i - 1] * s[i]] =
                [i \in 0..n |-> IF i = 0 THEN 1 ELSE g[<<u[i - 1], s[i]>>]]
          /\ [i \in 0..n |-> IF i = 0 THEN 0 ELSE u[i - 1] + s[i]] =
                [i \in 0..n |-> IF i = 0 THEN 0 ELSE h[<<u[i - 1], s[i]>>]]
      BY <2>1
    <2> QED BY <2>2, Zenon DEF IsProduct, IsSum, IsRunning
  <1>5. PICK u \in [0..n -> Nat] : IsRunning(u, n, s, g, 1)
    BY <1>2, RunningExists
  <1>6. PICK w \in [0..n -> Nat] : IsRunning(w, n, s, h, 0)
    BY <1>2, RunningExists
  <1>7. IsProduct(u, n, s) /\ IsSum(w, n, s)
    BY <1>4, <1>5, <1>6, Zenon
  <1>8. ASSUME NEW v, IsProduct(v, n, s) PROVE v = u
    <2>1. ProductSteps(u, n, s) /\ ProductSteps(v, n, s)
      BY <1>7, <1>8, RunningSteps
    <2>2. u[0] = v[0] /\ \A i \in 1..n : u[i - 1] = v[i - 1] => u[i] = v[i]
      BY <2>1 DEF ProductSteps
    <2>3. IsTrack(u, n) /\ IsTrack(v, n)
      BY <2>1 DEF ProductSteps
    <2> QED BY <2>2, <2>3, SameBySteps
  <1>9. ASSUME NEW v, IsSum(v, n, s) PROVE v = w
    <2>1. SumSteps(w, n, s) /\ SumSteps(v, n, s)
      BY <1>7, <1>9, RunningSteps
    <2>2. w[0] = v[0] /\ \A i \in 1..n : w[i - 1] = v[i - 1] => w[i] = v[i]
      BY <2>1 DEF SumSteps
    <2>3. IsTrack(w, n) /\ IsTrack(v, n)
      BY <2>1 DEF SumSteps
    <2> QED BY <2>2, <2>3, SameBySteps
  <1> QED BY <1>7, <1>8, <1>9, Zenon

\* What Numel is.
LEMMA NumelFacts ==
    ASSUME NEW s \in Seq(Nat)
    PROVE  /\ \E u \in [0..Len(s) -> Nat] : ProductSteps(u, Len(s), s)
           /\ \A u : ProductSteps(u, Len(s), s) =>
                        Numel(s) = u[Len(s)] /\ u \in [0..Len(s) -> Nat]
  <1>1. PICK n \in Nat : n = Len(s)
    OBVIOUS
  <1>2. \A i \in 1..n : s[i] \in Nat
    BY <1>1
  <1>3. PICK u \in [0..n -> Nat] : IsProduct(u, n, s) /\ \A v : IsProduct(v, n, s) => v = u
    BY <1>2, RunningFacts, Zenon
  <1> DEFINE w == CHOOSE v : IsProduct(v, n, s)
  <1>4. IsProduct(w, n, s)
    BY <1>3, Zenon
  <1>5. Numel(s) = w[n]
    BY <1>1, Zenon DEF Numel, IsProduct
  <1> HIDE DEF w
  <1>6. \A v : IsProduct(v, n, s) => Numel(s) = v[n] /\ v \in [0..n -> Nat]
    BY <1>3, <1>4, <1>5, Zenon
  <1> QED BY <1>1, <1>3, <1>6, RunningSteps, Zenon

\* What Before is.
LEMMA BeforeFacts ==
    ASSUME NEW m \in Nat, NEW s, \A i \in 1..m : s[i] \in Nat
    PROVE  /\ \E u \in [0..m -> Nat] : SumSteps(u, m, s)
           /\ \A u : SumSteps(u, m, s) => Before(s, m) = u[m] /\ u \in [0..m -> Nat]
  <1>1. PICK u \in [0..m -> Nat] : IsSum(u, m, s) /\ \A v : IsSum(v, m, s) => v = u
    BY RunningFacts, Zenon
  <1> DEFINE w == CHOOSE v : IsSum(v, m, s)
  <1>2. IsSum(w, m, s)
    BY <1>1, Zenon
  <1>3. Before(s, m) = w[m]
    BY Zenon DEF Before, IsSum
  <1> HIDE DEF w
  <1>4. \A v : IsSum(v, m, s) => Before(s, m) = v[m] /\ v \in [0..m -> Nat]
    BY <1>1, <1>2, <1>3, Zenon
  <1> QED BY <1>1, <1>4, RunningSteps, Zenon

\* All sums of the first few.
LEMMA BeforeAll ==
    ASSUME NEW n \in Nat, NEW s \in [1..n -> Nat]
    PROVE  /\ \E u \in [0..n -> Nat] : SumSteps(u, n, s)
           /\ \A u : SumSteps(u, n, s) =>
                u \in [0..n -> Nat] /\ \A m \in 0..n : Before(s, m) = u[m]
  <1>1. \A i \in 1..n : s[i] \in Nat
    OBVIOUS
  <1>2. \E u \in [0..n -> Nat] : SumSteps(u, n, s)
    BY <1>1, BeforeFacts, Zenon
  <1>3. ASSUME NEW u, SumSteps(u, n, s) PROVE u \in [0..n -> Nat]
    BY <1>1, <1>3, BeforeFacts, Zenon
  <1>4. ASSUME NEW u, SumSteps(u, n, s), NEW m \in 0..n
        PROVE  Before(s, m) = u[m]
    <2>1. PICK v : v = [i \in 0..m |-> u[i]]
      OBVIOUS
    <2>2. u[0] = 0 /\ \A i \in 1..n : u[i] = u[i - 1] + s[i]
      BY <1>4 DEF SumSteps
    <2>3. \A i \in 1..m : i \in 0..m /\ i - 1 \in 0..m /\ i \in 1..n
      OBVIOUS
    <2>4. IsTrack(v, m) /\ v[0] = 0 /\ v[m] = u[m]
      BY <2>1, <2>2, 0 \in 0..m, m \in 0..m DEF IsTrack
    <2>5. \A i \in 1..m : v[i] = v[i - 1] + s[i]
      BY <2>1, <2>2, <2>3
    <2>6. SumSteps(v, m, s)
      BY <2>4, <2>5, Zenon DEF SumSteps
    <2>7. m \in Nat /\ \A i \in 1..m : s[i] \in Nat
      OBVIOUS
    <2>8. Before(s, m) = v[m]
      BY <2>6, <2>7, BeforeFacts, Zenon
    <2> QED BY <2>4, <2>8
  <1> QED BY <1>2, <1>3, <1>4

\* u has the sums of the first few of the n numbers of s.
HasSums(u, n, s) == \A k \in 0..n : Before(s, k) = u[k]

\* One by one.
LEMMA BeforeAt ==
    ASSUME NEW n \in Nat, NEW s \in [1..n -> Nat], NEW u, SumSteps(u, n, s)
    PROVE  HasSums(u, n, s)
  <1>1. \A v : SumSteps(v, n, s) => \A k \in 0..n : Before(s, k) = v[k]
    BY BeforeAll
  <1>2. \A k \in 0..n : Before(s, k) = u[k]
    BY <1>1, Zenon
  <1> QED BY <1>2, Zenon DEF HasSums

\* One after another.
LEMMA BeforeStep ==
    ASSUME NEW n \in Nat, NEW s \in [1..n -> Nat]
    PROVE  /\ Before(s, 0) = 0
           /\ \A m \in 0..n : Before(s, m) \in Nat
           /\ \A m \in 0..n - 1 : Before(s, m + 1) = Before(s, m) + s[m + 1]
  <1>1. PICK u \in [0..n -> Nat] :
            SumSteps(u, n, s) /\ \A m \in 0..n : Before(s, m) = u[m]
    BY BeforeAll, Zenon
  <1>2. u[0] = 0 /\ \A i \in 1..n : u[i] = u[i - 1] + s[i]
    BY <1>1 DEF SumSteps
  <1>3. ASSUME NEW m \in 0..n - 1
        PROVE  Before(s, m + 1) = Before(s, m) + s[m + 1]
    <2>1. m \in 0..n /\ m + 1 \in 0..n /\ m + 1 \in 1..n /\ (m + 1) - 1 = m
      OBVIOUS
    <2>2. u[m + 1] = u[m] + s[m + 1]
      BY <1>2, <2>1
    <2> QED BY <1>1, <2>1, <2>2
  <1>4. 0 \in 0..n
    OBVIOUS
  <1> QED BY <1>1, <1>2, <1>3, <1>4

\* Equal lengths, and lengths that are all multiplied.
LEMMA BeforeMultiples ==
    ASSUME NEW n \in Nat, NEW x \in Nat
    PROVE  /\ \A m \in 0..n : Before([i \in 1..n |-> x], m) = m * x
           /\ \A s \in [1..n -> Nat] : \A m \in 0..n :
                Before([i \in 1..n |-> s[i] * x], m) = Before(s, m) * x
  <1>1. ASSUME NEW m \in 0..n PROVE Before([i \in 1..n |-> x], m) = m * x
    <2>1. PICK t \in [1..n -> Nat] : t = [i \in 1..n |-> x]
      OBVIOUS
    <2>2. PICK u : u = [i \in 0..n |-> i * x]
      OBVIOUS
    <2>3. IsTrack(u, n) /\ u[0] = 0 /\ u[m] = m * x
      BY <2>2, 0 \in 0..n DEF IsTrack
    <2>4. ASSUME NEW i \in 1..n PROVE u[i] = u[i - 1] + t[i]
      <3>1. i \in 0..n /\ i - 1 \in 0..n
        OBVIOUS
      <3>2. u[i] = i * x /\ u[i - 1] = (i - 1) * x /\ t[i] = x
        BY <2>1, <2>2, <3>1
      <3>3. i * x = (i - 1) * x + x
        OBVIOUS
      <3> QED BY <3>2, <3>3
    <2>5. SumSteps(u, n, t)
      BY <2>3, <2>4 DEF SumSteps
    <2>6. Before(t, m) = u[m]
      <3>1. HasSums(u, n, t)
        BY <2>5, BeforeAt
      <3> QED BY <3>1, Zenon DEF HasSums
    <2> QED BY <2>1, <2>3, <2>6, Zenon
  <1>2. ASSUME NEW s \in [1..n -> Nat], NEW m \in 0..n
        PROVE  Before([i \in 1..n |-> s[i] * x], m) = Before(s, m) * x
    <2>1. PICK t \in [1..n -> Nat] : t = [i \in 1..n |-> s[i] * x]
      <3>1. [i \in 1..n |-> s[i] * x] \in [1..n -> Nat]
        BY Times
      <3> QED BY <3>1
    <2>3. PICK f \in [0..n -> Nat] : SumSteps(f, n, s) /\ Before(s, m) = f[m]
      <3>1. PICK f \in [0..n -> Nat] : SumSteps(f, n, s)
        BY BeforeAll
      <3>2. Before(s, m) = f[m]
        <4>1. HasSums(f, n, s)
          BY <3>1, BeforeAt
        <4> QED BY <4>1, Zenon DEF HasSums
      <3> QED BY <3>1, <3>2
    <2>4. PICK u : u = [i \in 0..n |-> f[i] * x]
      OBVIOUS
    <2>5. f[0] = 0 /\ \A i \in 1..n : f[i] = f[i - 1] + s[i]
      BY <2>3 DEF SumSteps
    <2>6. IsTrack(u, n) /\ u[0] = 0 /\ u[m] = f[m] * x
      BY <2>4, <2>5, 0 \in 0..n DEF IsTrack
    <2>7. ASSUME NEW i \in 1..n PROVE u[i] = u[i - 1] + t[i]
      <3>1. i \in 0..n /\ i - 1 \in 0..n
        OBVIOUS
      <3>2. PICK y \in Nat, z \in Nat : y = f[i - 1] /\ z = s[i]
        <4>1. f[i - 1] \in Nat /\ s[i] \in Nat
          BY <3>1
        <4> QED BY <4>1
      <3>3. u[i] = (y + z) * x /\ u[i - 1] = y * x /\ t[i] = z * x
        BY <2>1, <2>4, <2>5, <3>1, <3>2
      <3>4. (y + z) * x = y * x + z * x
        BY Regroup
      <3> QED BY <3>3, <3>4
    <2>8. SumSteps(u, n, t)
      BY <2>6, <2>7 DEF SumSteps
    <2>9. Before(t, m) = u[m]
      <3>1. HasSums(u, n, t)
        BY <2>8, BeforeAt
      <3> QED BY <3>1, Zenon DEF HasSums
    <2> QED BY <2>1, <2>3, <2>6, <2>9, Zenon
  <1> QED BY <1>1, <1>2

\* The sums grow.
LEMMA BeforeGrows ==
    ASSUME NEW n \in Nat, NEW s \in [1..n -> Nat], NEW m \in 0..n, NEW k \in m..n
    PROVE  Before(s, m) <= Before(s, k)
  <1> DEFINE Bad == {l \in m..n : ~(Before(s, m) <= Before(s, l))}
  <1>1. SUFFICES ASSUME Bad # {} PROVE FALSE
    OBVIOUS
  <1>2. Bad \subseteq Nat
    OBVIOUS
  <1>3. PICK l \in Bad : \A y \in Bad : l <= y
    <2> HIDE DEF Bad
    <2> QED BY <1>1, <1>2, LeastExists
  <1>4. l \in m..n /\ ~(Before(s, m) <= Before(s, l)) /\ Before(s, m) \in Nat
    BY <1>3, BeforeStep
  <1>5. l # m
    BY <1>4
  <1>6. l - 1 \in m..n /\ l - 1 \in 0..n - 1 /\ (l - 1) + 1 = l /\ ~(l <= l - 1) /\ l \in 1..n
    BY <1>4, <1>5
  <1>7. Before(s, m) <= Before(s, l - 1)
    BY <1>3, <1>6
  <1>8. Before(s, l) = Before(s, l - 1) + s[l] /\ s[l] \in Nat
    <2>1. PICK k1 \in 0..n - 1 : k1 = l - 1 /\ k1 + 1 = l
      BY <1>6
    <2>2. Before(s, k1 + 1) = Before(s, k1) + s[k1 + 1]
      BY BeforeStep
    <2>3. Before(s, l) = Before(s, l - 1) + s[l]
      BY <2>1, <2>2, Zenon
    <2> QED BY <1>6, <2>3
  <1>9. Before(s, l - 1) \in Nat
    <2>1. l - 1 \in 0..n
      BY <1>6
    <2> QED BY <2>1, BeforeStep
  <1> QED BY <1>4, <1>7, <1>8, <1>9

\* The place p is in the block of member m.
InBlock(s, m, p) == Before(s, m) < p /\ p <= Before(s, m + 1)

\* It is in one block only.
LEMMA BlockUnique ==
    ASSUME NEW n \in Nat, NEW s \in [1..n -> Nat], NEW p \in Int,
           NEW m \in 0..n - 1, NEW k \in 0..n - 1, InBlock(s, m, p), InBlock(s, k, p)
    PROVE  m = k
  <1>1. ASSUME NEW i \in 0..n - 1, NEW j \in 0..n - 1, i < j, InBlock(s, i, p), InBlock(s, j, p)
        PROVE  FALSE
    <2>1. i + 1 \in 0..n /\ j \in i + 1..n /\ j \in 0..n
      BY <1>1
    <2>2. Before(s, i + 1) <= Before(s, j) /\ Before(s, i + 1) \in Nat /\ Before(s, j) \in Nat
      BY <2>1, BeforeGrows, BeforeStep
    <2> QED BY <1>1, <2>2 DEF InBlock
  <1>2. m < k \/ k < m \/ m = k
    OBVIOUS
  <1> QED BY <1>1, <1>2

---------------------------------------------------------------------------
(* Numbers of elements.                                                    *)

\* How many elements a shape that is joined from two has.
LEMMA NumelJoin ==
    ASSUME NEW s \in Seq(Nat), NEW t \in Seq(Nat)
    PROVE  /\ Numel(s \o t) = Numel(s) * Numel(t)
           /\ Numel(s) \in Nat
  <1>1. PICK m \in Nat, n \in Nat : m = Len(s) /\ n = Len(t)
    OBVIOUS
  <1>2. PICK f \in [0..m -> Nat] : ProductSteps(f, m, s) /\ Numel(s) = f[m]
    BY <1>1, NumelFacts, Zenon
  <1>3. PICK g \in [0..n -> Nat] : ProductSteps(g, n, t) /\ Numel(t) = g[n]
    BY <1>1, NumelFacts, Zenon
  <1>4. PICK x \in Nat : x = f[m] /\ Numel(s) = x
    BY <1>2, m \in 0..m
  <1>5. PICK u : u = [i \in 0..m + n |-> IF i <= m THEN f[i] ELSE x * g[i - m]]
    OBVIOUS
  <1>6. s \o t \in Seq(Nat) /\ Len(s \o t) = m + n
        /\ \A i \in 1..m + n : (s \o t)[i] = IF i <= m THEN s[i] ELSE t[i - m]
    BY <1>1
  <1>7. f[0] = 1 /\ g[0] = 1 /\ (\A i \in 1..m : f[i] = f[i - 1] * s[i])
        /\ \A i \in 1..n : g[i] = g[i - 1] * t[i]
    BY <1>2, <1>3 DEF ProductSteps
  <1>8. IsTrack(u, m + n) /\ u[0] = 1
    BY <1>5, <1>7 DEF IsTrack
  <1>9. ASSUME NEW i \in 1..m + n
        PROVE  u[i] = u[i - 1] * (s \o t)[i]
    <2>1. CASE i <= m
      <3>1. u[i] = f[i] /\ u[i - 1] = f[i - 1] /\ i \in 1..m
        BY <1>5, <2>1
      <3> QED BY <1>6, <1>7, <2>1, <3>1
    <2>2. CASE i > m
      <3>1. PICK j \in 1..n : i = m + j
        <4>1. i - m \in 1..n /\ i = m + (i - m)
          BY <2>2
        <4> QED BY <4>1
      <3>2. j \in 0..n /\ j - 1 \in 0..n
        OBVIOUS
      <3>3. PICK y \in Nat, z \in Nat : y = g[j - 1] /\ z = t[j]
        <4>1. g[j - 1] \in Nat /\ t[j] \in Nat
          <5>1. t \in [1..n -> Nat]
            BY <1>1, LenProperties
          <5> QED BY <3>2, <5>1
        <4> QED BY <4>1
      <3>4. u[i] = x * (y * z)
        <4>1. i \in 0..m + n /\ ~(i <= m) /\ i - m = j
          BY <2>2, <3>1
        <4>2. u[i] = x * g[j]
          BY <1>5, <4>1
        <4> QED BY <1>7, <3>3, <4>2
      <3>5. u[i - 1] = x * y
        <4>1. CASE j = 1
          <5>1. i - 1 = m /\ m \in 0..m + n
            BY <3>1, <4>1
          <5>2. u[i - 1] = f[m]
            BY <1>5, <5>1
          <5>3. y = 1
            BY <1>7, <3>3, <4>1
          <5> QED BY <1>4, <5>2, <5>3
        <4>2. CASE j # 1
          <5>1. i - 1 \in 0..m + n /\ ~(i - 1 <= m) /\ (i - 1) - m = j - 1
            BY <3>1, <4>2
          <5> QED BY <1>5, <3>3, <5>1
        <4> QED BY <4>1, <4>2
      <3>6. (s \o t)[i] = z
        <4>1. ~(i <= m) /\ i - m = j
          BY <2>2, <3>1
        <4> QED BY <1>6, <3>3, <4>1
      <3>7. x * (y * z) = (x * y) * z
        BY <1>4, Regroup
      <3>8. u[i - 1] * (s \o t)[i] = (x * y) * z
        BY <3>5, <3>6, Zenon
      <3>9. u[i] = (x * y) * z
        BY <3>4, <3>7
      <3> QED BY <3>8, <3>9, Zenon
    <2>3. i <= m \/ i > m
      OBVIOUS
    <2> QED BY <2>1, <2>2, <2>3, Zenon
  <1>10. ProductSteps(u, m + n, s \o t)
    BY <1>8, <1>9 DEF ProductSteps
  <1>11. Numel(s \o t) = u[m + n]
    BY <1>6, <1>10, NumelFacts, Zenon
  <1>12. u[m + n] = x * g[n]
    <2>1. CASE n = 0
      BY <1>4, <1>5, <1>7, <2>1
    <2>2. CASE n # 0
      BY <1>5, <2>2
    <2> QED BY <2>1, <2>2
  <1> QED BY <1>3, <1>4, <1>11, <1>12

\* The shapes of no and of one dimension.
LEMMA NumelSmall ==
    /\ Numel(<<>>) = 1
    /\ \A x \in Nat : Numel(<<x>>) = x
  <1>1. Numel(<<>>) = 1
    <2>1. <<>> \in Seq(Nat) /\ Len(<<>>) = 0
      OBVIOUS
    <2>2. PICK u : ProductSteps(u, 0, <<>>) /\ Numel(<<>>) = u[0]
      BY <2>1, NumelFacts, Zenon
    <2> QED BY <2>2 DEF ProductSteps
  <1>2. ASSUME NEW x \in Nat PROVE Numel(<<x>>) = x
    <2>1. PICK s \in Seq(Nat) : s = <<x>> /\ Len(s) = 1 /\ s[1] = x
      <3>1. <<x>> \in Seq(Nat) /\ Len(<<x>>) = 1 /\ <<x>>[1] = x
        OBVIOUS
      <3> QED BY <3>1
    <2>2. PICK u : ProductSteps(u, 1, s) /\ Numel(s) = u[1]
      BY <2>1, NumelFacts, Zenon
    <2>3. u[0] = 1 /\ u[1] = u[0] * s[1]
      BY <2>2 DEF ProductSteps
    <2> QED BY <2>1, <2>2, <2>3
  <1> QED BY <1>1, <1>2

\* A shape is what leads up to a dimension and what trails.
LEMMA SplitShape ==
    ASSUME NEW s \in Seq(Nat), NEW d \in 0..Len(s)
    PROVE  /\ Leading(s, d) \in Seq(Nat) /\ Len(Leading(s, d)) = d
           /\ Trailing(s, d) \in Seq(Nat)
           /\ s = Leading(s, d) \o Trailing(s, d)
  <1>1. Len(s) \in Nat /\ d \in Nat
    OBVIOUS
  <1>2. Leading(s, d) \in Seq(Nat) /\ Len(Leading(s, d)) = d /\ Trailing(s, d) \in Seq(Nat)
    BY <1>1 DEF Leading, Trailing
  <1>3. PICK u \in Seq(Nat), v \in Seq(Nat) : u = Leading(s, d) /\ v = Trailing(s, d)
    BY <1>2
  <1>4. /\ Len(u) = d /\ \A i \in 1..d : u[i] = s[i]
        /\ Len(v) = Len(s) - d /\ \A i \in 1..Len(s) - d : v[i] = s[i + d]
    <2>1. Len(u) = d /\ \A i \in 1..d : u[i] = s[i]
      BY <1>1, <1>3 DEF Leading
    <2>2. Len(v) = Len(s) - d
      BY <1>1, <1>3 DEF Trailing
    <2>3. ASSUME NEW i \in 1..Len(s) - d PROVE v[i] = s[i + d]
      <3>1. v = SubSeq(s, d + 1, Len(s)) /\ d + 1 \in Nat /\ i \in 1..Len(s) - (d + 1) + 1
        BY <1>1, <1>3 DEF Trailing
      <3>2. v[i] = s[d + 1 + i - 1]
        BY <1>1, <3>1
      <3>3. d + 1 + i - 1 = i + d
        BY <1>1
      <3> QED BY <3>2, <3>3, Zenon
    <2> QED BY <2>1, <2>2, <2>3
  <1>5. /\ u \o v \in Seq(Nat) /\ Len(u \o v) = Len(s)
        /\ \A i \in 1..Len(s) : (u \o v)[i] = IF i <= d THEN u[i] ELSE v[i - d]
    <2>1. /\ u \o v \in Seq(Nat) /\ Len(u \o v) = Len(u) + Len(v)
          /\ \A i \in 1..Len(u) + Len(v) :
                  (u \o v)[i] = IF i <= Len(u) THEN u[i] ELSE v[i - Len(u)]
      BY ConcatProperties
    <2>2. Len(u) + Len(v) = Len(s)
      BY <1>1, <1>4
    <2> QED BY <1>4, <2>1, <2>2
  <1>6. ASSUME NEW i \in 1..Len(s) PROVE s[i] = (u \o v)[i]
    <2>1. CASE i <= d
      BY <1>4, <1>5, <2>1
    <2>2. CASE i > d
      <3>1. i - d \in 1..Len(s) - d /\ (i - d) + d = i /\ ~(i <= d)
        BY <1>1, <2>2
      <3>2. v[i - d] = s[i]
        BY <1>4, <3>1
      <3>3. (u \o v)[i] = v[i - d]
        BY <1>5, <3>1
      <3> QED BY <3>2, <3>3, Zenon
    <2>3. i <= d \/ i > d
      BY <1>1
    <2> QED BY <2>1, <2>2, <2>3, Zenon
  <1>7. s = u \o v
    BY <1>5, <1>6, SeqEqual
  <1> QED BY <1>2, <1>3, <1>7

\* The shape with another length in one dimension.
WithLength(s, d, x) == [s EXCEPT ![d + 1] = x]

\* A shape is what leads up to a dimension, its length, and what trails.
LEMMA ShapeParts ==
    ASSUME NEW s \in Seq(Nat), NEW d \in 0..Len(s) - 1, NEW x \in Nat
    PROVE  /\ Leading(s, d) \in Seq(Nat) /\ Len(Leading(s, d)) = d
           /\ Trailing(s, d) \in Seq(Nat) /\ Trailing(s, d + 1) \in Seq(Nat)
           /\ s[d + 1] \in Nat
           /\ s = Leading(s, d) \o Trailing(s, d)
           /\ Trailing(s, d) = <<s[d + 1]>> \o Trailing(s, d + 1)
           /\ WithLength(s, d, x) = Leading(s, d) \o (<<x>> \o Trailing(s, d + 1))
           /\ WithLength(s, d, x) \in Seq(Nat) /\ Len(WithLength(s, d, x)) = Len(s)
  <1>1. Len(s) \in Nat /\ d + 1 \in 1..Len(s) /\ d \in Nat
    OBVIOUS
  <1>2. /\ Leading(s, d) \in Seq(Nat) /\ Len(Leading(s, d)) = d
        /\ Trailing(s, d) \in Seq(Nat) /\ Trailing(s, d + 1) \in Seq(Nat)
        /\ s[d + 1] \in Nat
    BY <1>1 DEF Leading, Trailing
  <1>3. s = Leading(s, d) \o Trailing(s, d)
    <2>1. d \in 0..Len(s)
      BY <1>1
    <2> QED BY <2>1, SplitShape, Zenon
  <1>4. Trailing(s, d) = <<s[d + 1]>> \o Trailing(s, d + 1)
    BY <1>1 DEF Trailing
  <1>5. WithLength(s, d, x) \in Seq(Nat) /\ Len(WithLength(s, d, x)) = Len(s)
    BY <1>1 DEF WithLength
  <1>6. WithLength(s, d, x) = Leading(s, d) \o (<<x>> \o Trailing(s, d + 1))
    <2>1. PICK u \in Seq(Nat), v \in Seq(Nat) : u = Leading(s, d) /\ v = Trailing(s, d + 1)
      BY <1>2
    <2>2. /\ Len(u) = d /\ \A i \in 1..d : u[i] = s[i]
          /\ Len(v) = Len(s) - d - 1 /\ \A i \in 1..Len(s) - d - 1 : v[i] = s[i + d + 1]
      <3>1. Len(u) = d /\ \A i \in 1..d : u[i] = s[i]
        BY <1>1, <2>1 DEF Leading
      <3>2. Len(v) = Len(s) - d - 1
        BY <1>1, <2>1 DEF Trailing
      <3>3. \A i \in 1..Len(s) - d - 1 : v[i] = s[i + d + 1]
        BY <1>1, <2>1 DEF Trailing
      <3> QED BY <3>1, <3>2, <3>3
    <2>3. PICK o \in Seq(Nat) : o = <<x>> /\ Len(o) = 1 /\ o[1] = x
      <3>1. <<x>> \in Seq(Nat) /\ Len(<<x>>) = 1 /\ <<x>>[1] = x
        OBVIOUS
      <3> QED BY <3>1
    <2>10. PICK w \in Seq(Nat) : w = o \o v
      BY ConcatProperties
    <2>4. Len(w) = Len(s) - d /\ w[1] = x /\ \A i \in 2..Len(s) - d : w[i] = s[i + d]
      <3>1. /\ Len(w) = Len(o) + Len(v)
            /\ \A i \in 1..Len(o) + Len(v) : w[i] = IF i <= Len(o) THEN o[i] ELSE v[i - Len(o)]
        BY <2>10, ConcatProperties
      <3>2. Len(o) + Len(v) = Len(s) - d /\ 1 \in 1..Len(s) - d
        BY <1>1, <2>2, <2>3
      <3>3. w[1] = x
        BY <2>3, <3>1, <3>2
      <3>4. ASSUME NEW i \in 2..Len(s) - d PROVE w[i] = s[i + d]
        <4>1. /\ i \in 1..Len(s) - d /\ ~(i <= 1) /\ i - 1 \in 1..Len(s) - d - 1
              /\ (i - 1) + d + 1 = i + d
          BY <1>1
        <4>2. w[i] = v[i - 1]
          BY <2>3, <3>1, <3>2, <4>1
        <4> QED BY <2>2, <4>1, <4>2
      <3> QED BY <3>1, <3>2, <3>3, <3>4
    <2>5. PICK t \in Seq(Nat) : t = WithLength(s, d, x) /\ Len(t) = Len(s)
      BY <1>5
    <2>6. \A i \in 1..Len(s) : t[i] = IF i = d + 1 THEN x ELSE s[i]
      BY <1>1, <2>5 DEF WithLength
    <2>7. /\ u \o w \in Seq(Nat) /\ Len(u \o w) = Len(s)
          /\ \A i \in 1..Len(s) : (u \o w)[i] = IF i <= d THEN u[i] ELSE w[i - d]
      <3>1. /\ u \o w \in Seq(Nat) /\ Len(u \o w) = Len(u) + Len(w)
            /\ \A i \in 1..Len(u) + Len(w) :
                    (u \o w)[i] = IF i <= Len(u) THEN u[i] ELSE w[i - Len(u)]
        BY ConcatProperties
      <3>2. Len(u) + Len(w) = Len(s)
        BY <1>1, <2>2, <2>4
      <3> QED BY <2>2, <3>1, <3>2
    <2>8. ASSUME NEW i \in 1..Len(s) PROVE t[i] = (u \o w)[i]
      <3>1. CASE i <= d
        BY <1>1, <2>2, <2>6, <2>7, <3>1
      <3>2. CASE i = d + 1
        <4>1. ~(i <= d) /\ i - d = 1
          BY <1>1, <3>2
        <4> QED BY <2>4, <2>6, <2>7, <3>2, <4>1
      <3>3. CASE i > d + 1
        <4>1. i - d \in 2..Len(s) - d /\ (i - d) + d = i /\ ~(i <= d) /\ i # d + 1
          BY <1>1, <3>3
        <4>2. w[i - d] = s[i]
          BY <2>4, <4>1
        <4>3. (u \o w)[i] = w[i - d]
          BY <2>7, <4>1
        <4>4. t[i] = s[i]
          BY <2>6, <4>1
        <4> QED BY <4>2, <4>3, <4>4, Zenon
      <3>4. i <= d \/ i = d + 1 \/ i > d + 1
        BY <1>1
      <3> QED BY <3>1, <3>2, <3>3, <3>4, Zenon
    <2>9. t = u \o w
      <3>1. Len(t) = Len(u \o w) /\ \A i \in 1..Len(t) : t[i] = (u \o w)[i]
        BY <2>5, <2>7, <2>8, Zenon
      <3> QED BY <2>7, <3>1, SeqEqual
    <2> QED BY <2>1, <2>3, <2>5, <2>9, <2>10
  <1> QED BY <1>2, <1>3, <1>4, <1>5, <1>6

\* How many elements a tensor of this shape has, and how many of them lead up to a
\* dimension and trail behind it.
LEMMA NumelParts ==
    ASSUME NEW s \in Seq(Nat), NEW d \in 0..Len(s) - 1, NEW x \in Nat
    PROVE  /\ Numel(s) = Numel(Leading(s, d)) * s[d + 1] * Numel(Trailing(s, d + 1))
           /\ Numel(s) = Numel(Leading(s, d)) * Numel(Trailing(s, d))
           /\ Numel(Trailing(s, d)) = s[d + 1] * Numel(Trailing(s, d + 1))
           /\ Numel(WithLength(s, d, x)) =
                Numel(Leading(s, d)) * x * Numel(Trailing(s, d + 1))
           /\ Numel(s) \in Nat /\ Numel(Leading(s, d)) \in Nat /\ s[d + 1] \in Nat
           /\ Numel(Trailing(s, d)) \in Nat /\ Numel(Trailing(s, d + 1)) \in Nat
  <1>1. PICK u \in Seq(Nat), v \in Seq(Nat), w \in Seq(Nat), y \in Nat :
            u = Leading(s, d) /\ v = Trailing(s, d + 1) /\ w = Trailing(s, d) /\ y = s[d + 1]
    <2>1. /\ Leading(s, d) \in Seq(Nat) /\ Trailing(s, d + 1) \in Seq(Nat)
          /\ Trailing(s, d) \in Seq(Nat) /\ s[d + 1] \in Nat
      BY ShapeParts
    <2> QED BY <2>1, Zenon
  <1>2. PICK o \in Seq(Nat), r \in Seq(Nat) : o = <<x>> /\ r = <<y>> /\ Numel(o) = x /\ Numel(r) = y
    <2>1. <<x>> \in Seq(Nat) /\ <<y>> \in Seq(Nat)
      OBVIOUS
    <2> QED BY <2>1, NumelSmall, Zenon
  <1>3. s = u \o w /\ w = r \o v /\ WithLength(s, d, x) = u \o (o \o v)
    <2>1. s = Leading(s, d) \o Trailing(s, d)
      BY ShapeParts
    <2>5. Trailing(s, d) = <<s[d + 1]>> \o Trailing(s, d + 1)
      BY ShapeParts
    <2>6. WithLength(s, d, x) = Leading(s, d) \o (<<x>> \o Trailing(s, d + 1))
      BY ShapeParts
    <2>2. s = u \o w
      BY <1>1, <2>1, Zenon
    <2>3. w = r \o v
      BY <1>1, <1>2, <2>5, Zenon
    <2>4. WithLength(s, d, x) = u \o (o \o v)
      BY <1>1, <1>2, <2>6, Zenon
    <2> QED BY <2>2, <2>3, <2>4
  <1>4. PICK a \in Nat, c \in Nat : a = Numel(u) /\ c = Numel(v)
    <2>1. Numel(u) \in Nat /\ Numel(v) \in Nat
      BY NumelJoin, Zenon
    <2> QED BY <2>1
  <1>5. PICK q \in Seq(Nat) : q = o \o v
    BY ConcatProperties
  <1>6. Numel(q) = x * c /\ Numel(w) = y * c
    <2>1. Numel(o \o v) = Numel(o) * Numel(v) /\ Numel(r \o v) = Numel(r) * Numel(v)
      BY NumelJoin
    <2> QED BY <1>2, <1>3, <1>4, <1>5, <2>1, Zenon
  <1>7. Numel(s) = a * (y * c) /\ Numel(u \o q) = a * (x * c)
    <2>1. Numel(u \o w) = Numel(u) * Numel(w) /\ Numel(u \o q) = Numel(u) * Numel(q)
      BY NumelJoin
    <2> QED BY <1>3, <1>4, <1>6, <2>1, Zenon
  <1>8. a * (y * c) = a * y * c /\ a * (x * c) = a * x * c
    BY Regroup
  <1>9. Numel(s) \in Nat /\ Numel(w) \in Nat
    BY <1>6, <1>7, <1>8, Times
  <1>10. Numel(s) = a * y * c /\ Numel(u \o q) = a * x * c
    BY <1>7, <1>8
  <1> QED BY <1>1, <1>3, <1>4, <1>5, <1>6, <1>7, <1>9, <1>10, Zenon

---------------------------------------------------------------------------
(* Tensors.                                                                *)

\* As many elements as the shape says.
IsTensor(t) ==
    /\ t.shape \in Seq(Nat)
    /\ t = [shape |-> t.shape, data |-> t.data]
    /\ t.data = [p \in 1..Numel(t.shape) |-> t.data[p]]

\* Tensors of the same shape and with the same elements are the same.
LEMMA SameTensor ==
    ASSUME NEW t, IsTensor(t), NEW u, IsTensor(u), t.shape = u.shape,
           \A p \in 1..Numel(t.shape) : t.data[p] = u.data[p]
    PROVE  t = u
  <1>1. t.data = u.data
    BY DEF IsTensor
  <1> QED BY <1>1, Zenon DEF IsTensor

\* The element at the place (i, j, k) of t.
ElementAt(t, i, j, k, b, c) == t.data[Place(i, j, k, b, c)]

\* The same by their places.
SameAt(t, u, a, b, c) ==
    \A i \in 0..a - 1, j \in 0..b - 1, k \in 0..c - 1 :
        ElementAt(t, i, j, k, b, c) = ElementAt(u, i, j, k, b, c)

\* A tensor of a x b x c elements.
IsBlock(t, a, b, c) == IsTensor(t) /\ Numel(t.shape) = a * b * c

\* Tensors of the same shape and with the same element at every place are the same.
LEMMA SameByPlace ==
    ASSUME NEW t, NEW u, IsTensor(u), t.shape = u.shape,
           NEW a \in Nat, NEW b \in Nat, NEW c \in Nat, IsBlock(t, a, b, c),
           SameAt(t, u, a, b, c)
    PROVE  t = u
  <1>1. ASSUME NEW p \in 1..Numel(t.shape) PROVE t.data[p] = u.data[p]
    <2>3. p \in 1..a * b * c
      BY Zenon DEF IsBlock
    <2>1. PICK i \in 0..a - 1, j \in 0..b - 1, k \in 0..c - 1 : p = Place(i, j, k, b, c)
      BY <2>3, PlaceOfAny
    <2>2. ElementAt(t, i, j, k, b, c) = ElementAt(u, i, j, k, b, c)
      BY DEF SameAt
    <2> QED BY <2>1, <2>2 DEF ElementAt
  <1>2. IsTensor(t)
    BY DEF IsBlock
  <1> QED BY <1>1, <1>2, SameTensor

\* The first and the rest.
LEMMA HeadAndTail ==
    ASSUME NEW s \in Seq(Nat), s # <<>>
    PROVE  Head(s) \in Nat /\ s = <<Head(s)>> \o Tail(s)
  <1>1. Len(s) \in Nat /\ Len(s) >= 1 /\ 1 \in 1..Len(s) /\ Len(s) \in 1..Len(s)
    BY EmptySeq
  <1>2. SubSeq(s, 1, Len(s)) = <<s[1]>> \o SubSeq(s, 2, Len(s))
    BY <1>1, SubSeqRecursiveFirst
  <1>3. SubSeq(s, 1, Len(s)) = s
    BY SubSeqFull
  <1>4. Tail(s) = SubSeq(s, 2, Len(s))
    BY TailIsSubSeq
  <1>5. Head(s) = s[1] /\ Head(s) \in Nat
    BY <1>1
  <1> QED BY <1>2, <1>3, <1>4, <1>5, Zenon

\* The same of a sequence that is put together.
LEMMA HeadTailOfJoin ==
    ASSUME NEW n \in Nat, NEW s \in Seq(Nat)
    PROVE  /\ <<n>> \o s \in Seq(Nat) /\ Len(<<n>> \o s) = Len(s) + 1
           /\ Head(<<n>> \o s) = n /\ Tail(<<n>> \o s) = s
  <1>1. PICK o \in Seq(Nat) : o = <<n>> /\ Len(o) = 1 /\ o[1] = n
    <2>1. <<n>> \in Seq(Nat) /\ Len(<<n>>) = 1 /\ <<n>>[1] = n
      OBVIOUS
    <2> QED BY <2>1
  <1>2. PICK t \in Seq(Nat) : t = o \o s
    BY ConcatProperties
  <1>3. /\ Len(t) = Len(o) + Len(s)
        /\ \A i \in 1..Len(o) + Len(s) : t[i] = IF i <= Len(o) THEN o[i] ELSE s[i - Len(o)]
    BY <1>2, ConcatProperties
  <1>4. Len(s) \in Nat /\ Len(t) = Len(s) + 1 /\ t[1] = n
    BY <1>1, <1>3
  <1>5. t # <<>>
    BY <1>4, EmptySeq
  <1>6. Head(t) = t[1]
    BY <1>5
  <1>7. /\ Tail(t) \in Seq(Nat) /\ Len(Tail(t)) = Len(s)
        /\ \A i \in 1..Len(Tail(t)) : Tail(t)[i] = t[i + 1]
    BY <1>4, <1>5, HeadTailProperties
  <1>8. ASSUME NEW i \in 1..Len(Tail(t)) PROVE Tail(t)[i] = s[i]
    <2>1. i + 1 \in 1..Len(s) + 1 /\ ~(i + 1 <= 1) /\ (i + 1) - 1 = i
      BY <1>4, <1>7
    <2>2. t[i + 1] = s[i]
      <3>1. i + 1 \in 1..Len(o) + Len(s) /\ Len(o) = 1
        BY <1>1, <1>4, <2>1
      <3>2. t[i + 1] = IF i + 1 <= Len(o) THEN o[i + 1] ELSE s[(i + 1) - Len(o)]
        BY <1>3, <3>1, Zenon
      <3> QED BY <2>1, <3>1, <3>2, Zenon
    <2> QED BY <1>7, <2>2, Zenon
  <1>9. Tail(t) = s
    BY <1>7, <1>8, SeqEqual
  <1> QED BY <1>1, <1>2, <1>4, <1>6, <1>9, Zenon

\* The element (j, i, k) of t stands at (i, j, k) of w.
IsMoved(w, t, n, b, c) ==
    \A i \in 0..b - 1, j \in 0..n - 1, k \in 0..c - 1 :
        ElementAt(w, i, j, k, n, c) = ElementAt(t, j, i, k, b, c)

\* The element (i, from + j, k) of t stands at (i, j, k) of w.
IsPortion(w, t, from, len, a, b, c) ==
    \A i \in 0..a - 1, j \in 0..len - 1, k \in 0..c - 1 :
        ElementAt(w, i, j, k, len, c) = ElementAt(t, i, from + j, k, b, c)

\* The length of the first dimension, the shape before and behind the place it is moved to,
\* and their numbers of elements.
MoveBlocks(t, d, n, f, r, b, c) ==
    /\ n = Head(t.shape)
    /\ f = Leading(Tail(t.shape), d) /\ r = Trailing(Tail(t.shape), d)
    /\ b = Numel(f) /\ c = Numel(r)

\* What these are.
LEMMA MoveBlocksExist ==
    ASSUME NEW t, t.shape \in Seq(Nat), t.shape # <<>>, NEW d \in 0..Len(t.shape) - 1
    PROVE  \E n \in Nat, f \in Seq(Nat), r \in Seq(Nat), b \in Nat, c \in Nat :
                MoveBlocks(t, d, n, f, r, b, c) /\ Tail(t.shape) = f \o r /\ Len(f) = d
  <1>1. PICK s \in Seq(Nat) : s = Tail(t.shape) /\ Len(s) = Len(t.shape) - 1
    <2>1. Tail(t.shape) \in Seq(Nat) /\ Len(Tail(t.shape)) = Len(t.shape) - 1
      BY HeadTailProperties
    <2> QED BY <2>1
  <1>2. d \in 0..Len(s)
    BY <1>1
  <1>3. PICK f \in Seq(Nat), r \in Seq(Nat) :
            f = Leading(s, d) /\ r = Trailing(s, d) /\ s = f \o r /\ Len(f) = d
    <2>1. Leading(s, d) \in Seq(Nat) /\ Trailing(s, d) \in Seq(Nat) /\ Len(Leading(s, d)) = d
      BY <1>2, SplitShape
    <2>2. s = Leading(s, d) \o Trailing(s, d)
      BY <1>2, SplitShape, Zenon
    <2> QED BY <2>1, <2>2, Zenon
  <1>4. Numel(f) \in Nat /\ Numel(r) \in Nat /\ Head(t.shape) \in Nat
    BY NumelJoin, HeadAndTail
  <1> QED BY <1>1, <1>3, <1>4, Zenon DEF MoveBlocks

\* What becomes of the shape.
MovedShape(w, t, n, f, r, b, c) == Numel(t.shape) = n * b * c /\ w.shape = f \o <<n>> \o r

\* What movedim(0, dim) does: the element (j, i, k) comes to stand at (i, j, k).
LEMMA MoveFacts ==
    ASSUME NEW t, t.shape \in Seq(Nat), t.shape # <<>>, NEW d \in 0..Len(t.shape) - 1,
           NEW n \in Nat, NEW f \in Seq(Nat), NEW r \in Seq(Nat), NEW b \in Nat, NEW c \in Nat,
           MoveBlocks(t, d, n, f, r, b, c)
    PROVE  /\ IsBlock(MoveFirstTo(t, d), b, n, c)
           /\ MovedShape(MoveFirstTo(t, d), t, n, f, r, b, c)
           /\ IsMoved(MoveFirstTo(t, d), t, n, b, c)
  <1>1. PICK s \in Seq(Nat) : s = Tail(t.shape) /\ s = f \o r
    <2>1. Tail(t.shape) \in Seq(Nat) /\ Tail(t.shape) = f \o r
      BY MoveBlocksExist, HeadTailProperties, Zenon DEF MoveBlocks
    <2> QED BY <2>1
  <1>2. t.shape = <<n>> \o s
    BY <1>1, HeadAndTail, Zenon DEF MoveBlocks
  <1>4. b = Numel(f) /\ c = Numel(r)
    BY DEF MoveBlocks
  <1>6. PICK o \in Seq(Nat) : o = <<n>> /\ Numel(o) = n
    <2>1. <<n>> \in Seq(Nat) /\ Numel(<<n>>) = n
      BY NumelSmall
    <2> QED BY <2>1
  <1>7. PICK h \in Seq(Nat) : h = f \o o \o r /\ Numel(h) = b * n * c
    <2>1. PICK q \in Seq(Nat) : q = f \o o
      BY ConcatProperties
    <2>2. Numel(q) = Numel(f) * Numel(o)
      BY <2>1, NumelJoin
    <2>3. PICK h \in Seq(Nat) : h = q \o r
      BY ConcatProperties
    <2>4. Numel(h) = Numel(q) * Numel(r)
      BY <2>3, NumelJoin
    <2>5. Numel(h) = b * n * c
      BY <1>4, <1>6, <2>2, <2>4, Zenon
    <2> QED BY <2>1, <2>3, <2>5, Zenon
  <1>8. Numel(t.shape) = n * b * c
    <2>1. Numel(f \o r) = Numel(f) * Numel(r) /\ Numel(o \o s) = Numel(o) * Numel(s)
      BY NumelJoin
    <2>2. Numel(t.shape) = n * (b * c)
      BY <1>1, <1>2, <1>4, <1>6, <2>1, Zenon
    <2>3. n * (b * c) = n * b * c
      BY Regroup
    <2> QED BY <2>2, <2>3
  <1>9. PICK M : M = MoveFirstTo(t, d)
    OBVIOUS
  <1>10. M = [shape |-> h,
              data |-> [p \in 1..Numel(h) |->
                t.data[Place(((p - 1) \div c) % n, (p - 1) \div (n * c), (p - 1) % c, b, c)]]]
    BY <1>6, <1>7, <1>9, Zenon DEF MoveFirstTo, Filled, MoveBlocks
  <1>11. IsTensor(M) /\ M.shape = h
    BY <1>10 DEF IsTensor
  <1>12. ASSUME NEW i \in 0..b - 1, NEW j \in 0..n - 1, NEW k \in 0..c - 1
         PROVE  ElementAt(M, i, j, k, n, c) = ElementAt(t, j, i, k, b, c)
    <2>1. PICK p : p = Place(i, j, k, n, c)
      OBVIOUS
    <2>2. p \in 1..b * n * c /\ Parts(p, i, j, k, n, c)
      BY <2>1, PlaceFacts
    <2>3. M.data[p] =
            t.data[Place(((p - 1) \div c) % n, (p - 1) \div (n * c), (p - 1) % c, b, c)]
      BY <1>7, <1>10, <2>2
    <2>4. M.data[p] = t.data[Place(j, i, k, b, c)]
      BY <2>2, <2>3, Zenon DEF Parts
    <2> QED BY <2>1, <2>4 DEF ElementAt
  <1>14. /\ IsBlock(MoveFirstTo(t, d), b, n, c)
         /\ MoveFirstTo(t, d).shape = f \o <<n>> \o r
    BY <1>6, <1>7, <1>9, <1>11, Zenon DEF IsBlock
  <1>15. IsMoved(MoveFirstTo(t, d), t, n, b, c)
    BY <1>9, <1>12 DEF IsMoved
  <1> QED BY <1>8, <1>14, <1>15, Zenon DEF MovedShape

\* The three blocks of a shape.
Blocks(s, d, a, x, c) ==
    a = Numel(Leading(s, d)) /\ x = s[d + 1] /\ c = Numel(Trailing(s, d + 1))

\* What these are.
LEMMA BlocksExist ==
    ASSUME NEW s \in Seq(Nat), NEW d \in 0..Len(s) - 1
    PROVE  \E a \in Nat, x \in Nat, c \in Nat : Blocks(s, d, a, x, c)
  <1>1. Numel(Leading(s, d)) \in Nat /\ s[d + 1] \in Nat /\ Numel(Trailing(s, d + 1)) \in Nat
    BY NumelParts
  <1> QED BY <1>1, Zenon DEF Blocks

\* The numbers of elements by blocks.
LEMMA BlocksNumel ==
    ASSUME NEW s \in Seq(Nat), NEW d \in 0..Len(s) - 1,
           NEW a \in Nat, NEW x \in Nat, NEW c \in Nat, Blocks(s, d, a, x, c), NEW y \in Nat
    PROVE  /\ Numel(s) = a * x * c
           /\ WithLength(s, d, y) \in Seq(Nat)
           /\ Numel(WithLength(s, d, y)) = a * y * c
  <1>1. /\ Numel(s) = Numel(Leading(s, d)) * s[d + 1] * Numel(Trailing(s, d + 1))
        /\ Numel(WithLength(s, d, y)) = Numel(Leading(s, d)) * y * Numel(Trailing(s, d + 1))
    BY NumelParts
  <1>2. WithLength(s, d, y) \in Seq(Nat)
    BY ShapeParts
  <1> QED BY <1>1, <1>2, Zenon DEF Blocks

\* The first of these.
LEMMA BlocksTotal ==
    ASSUME NEW s \in Seq(Nat), NEW d \in 0..Len(s) - 1,
           NEW a \in Nat, NEW x \in Nat, NEW c \in Nat, Blocks(s, d, a, x, c)
    PROVE  Numel(s) = a * x * c
  <1>1. Numel(s) = a * x * c /\ WithLength(s, d, x) \in Seq(Nat)
    <2>1. WithLength(s, d, x) \in Seq(Nat)
      BY ShapeParts
    <2>2. /\ Numel(s) = Numel(Leading(s, d)) * s[d + 1] * Numel(Trailing(s, d + 1))
          /\ Numel(WithLength(s, d, x)) =
                Numel(Leading(s, d)) * x * Numel(Trailing(s, d + 1))
      BY NumelParts
    <2> QED BY <2>1, <2>2, Zenon DEF Blocks
  <1> QED BY <1>1

\* What a portion along a dimension has: the element (i, from + j, k) stands at (i, j, k).
LEMMA PortionFacts ==
    ASSUME NEW t, t.shape \in Seq(Nat), NEW d \in 0..Len(t.shape) - 1,
           NEW from \in Nat, NEW len \in Nat,
           NEW a \in Nat, NEW b \in Nat, NEW c \in Nat, Blocks(t.shape, d, a, b, c)
    PROVE  /\ IsBlock(Portion(t, d, from, len), a, len, c)
           /\ Portion(t, d, from, len).shape = WithLength(t.shape, d, len)
           /\ IsPortion(Portion(t, d, from, len), t, from, len, a, b, c)
  <1>2. PICK h \in Seq(Nat) : h = WithLength(t.shape, d, len) /\ Numel(h) = a * len * c
    <2>1. WithLength(t.shape, d, len) \in Seq(Nat) /\ Numel(WithLength(t.shape, d, len)) = a * len * c
      <3>1. PICK s \in Seq(Nat) : s = t.shape
        OBVIOUS
      <3>2. d \in 0..Len(s) - 1 /\ Blocks(s, d, a, b, c)
        BY <3>1, Zenon
      <3>3. WithLength(s, d, len) \in Seq(Nat)
        BY <3>2, BlocksNumel
      <3>4. Numel(WithLength(s, d, len)) = a * len * c
        BY <3>2, BlocksNumel
      <3> QED BY <3>1, <3>3, <3>4, Zenon
    <2> QED BY <2>1, Zenon
  <1>3. PICK P : P = Portion(t, d, from, len)
    OBVIOUS
  <1>4. P = [shape |-> h,
             data |-> [p \in 1..Numel(h) |->
                t.data[Place((p - 1) \div (len * c), from + (((p - 1) \div c) % len), (p - 1) % c,
                             b, c)]]]
    BY <1>2, <1>3, Zenon DEF Portion, Filled, WithLength, Blocks
  <1>5. IsTensor(P) /\ P.shape = h
    BY <1>4 DEF IsTensor
  <1>6. ASSUME NEW i \in 0..a - 1, NEW j \in 0..len - 1, NEW k \in 0..c - 1
        PROVE  ElementAt(P, i, j, k, len, c) = ElementAt(t, i, from + j, k, b, c)
    <2>1. PICK p : p = Place(i, j, k, len, c)
      OBVIOUS
    <2>2. p \in 1..a * len * c /\ Parts(p, i, j, k, len, c)
      BY <2>1, PlaceFacts
    <2>3. P.data[p] =
            t.data[Place((p - 1) \div (len * c), from + (((p - 1) \div c) % len), (p - 1) % c, b, c)]
      BY <1>2, <1>4, <2>2
    <2>4. P.data[p] = t.data[Place(i, from + j, k, b, c)]
      BY <2>2, <2>3, Zenon DEF Parts
    <2> QED BY <2>1, <2>4 DEF ElementAt
  <1>7. IsPortion(P, t, from, len, a, b, c)
    BY <1>6 DEF IsPortion
  <1> QED BY <1>2, <1>3, <1>5, <1>7, Zenon DEF IsBlock

---------------------------------------------------------------------------
(* Calls.                                                                  *)

\* What is assumed of calls.
LEMMA CallFacts ==
    ASSUME call \in Calls
    PROVE  /\ call.op \in {"all_gather", "gather", "all_gatherv", "reduce_scatter", "reduce_scatterv"}
           /\ call.n \in Nat /\ call.n > 0 /\ 0 \in Member
           /\ call.shape \in Seq(Nat) /\ Rank \in Nat /\ call.dim \in Int
           /\ call.sizes \in Seq(Nat)
           /\ call.sizes # <<>> => Len(call.sizes) = call.n
           /\ call.sizes # <<>> => call.sizes \in [1..call.n -> Nat]
           /\ call.sizes # <<>> => call.op \in {"all_gatherv", "reduce_scatterv"}
           /\ call.op = "all_gatherv" => call.shape # <<>>
           /\ call.dst \in Member
           /\ \A m \in Member : m \in Nat /\ m + 1 \in 1..call.n
  <1>1. PICK c : c = call
    OBVIOUS
  <1>2. /\ c.op \in {"all_gather", "gather", "all_gatherv", "reduce_scatter", "reduce_scatterv"}
        /\ c.n \in Nat \ {0}
        /\ c.shape \in Seq(Nat)
        /\ c.dim \in Int
        /\ c.sizes \in Seq(Nat) /\ Len(c.sizes) \in {0, c.n}
        /\ c.dst \in 0..c.n - 1
        /\ c.sizes # <<>> => c.op \in {"all_gatherv", "reduce_scatterv"}
        /\ c.op = "all_gatherv" => c.shape # <<>>
    BY <1>1, CallsAssumption, Zenon
  <1>3. c.sizes # <<>> => Len(c.sizes) = c.n /\ c.sizes \in [1..c.n -> Nat]
    <2>1. c.sizes # <<>> => Len(c.sizes) # 0
      BY <1>2, EmptySeq
    <2>2. c.sizes \in [1..Len(c.sizes) -> Nat]
      BY <1>2, LenProperties
    <2> QED BY <1>2, <2>1, <2>2
  <1>4. Len(c.shape) \in Nat
    BY <1>2
  <1>5. PICK n : n = c.n
    OBVIOUS
  <1>6. n \in Nat /\ n > 0 /\ 0 \in 0..n - 1 /\ \A m \in 0..n - 1 : m \in Nat /\ m + 1 \in 1..n
    BY <1>2, <1>5
  <1> QED BY <1>1, <1>2, <1>3, <1>4, <1>5, <1>6, Zenon DEF Member, Rank

\* A dim in range is one of the dimensions.
LEMMA DimFacts ==
    ASSUME call \in Calls, DimInRange
    PROVE  /\ Dim \in 0..Len(call.shape) - 1 /\ Dim \in Nat /\ call.shape # <<>>
           /\ call.shape[Dim + 1] \in Nat
  <1>1. PICK r \in Nat, d \in Int : r = Rank /\ d = call.dim /\ -r <= d /\ d < r
    BY CallFacts DEF DimInRange
  <1>2. PICK e \in Nat : e = Dim /\ e \in 0..r - 1
    <2>1. CASE d < 0
      <3>1. Dim = d + r /\ d + r \in Nat /\ d + r \in 0..r - 1
        BY <1>1, <2>1 DEF Dim
      <3> QED BY <3>1
    <2>2. CASE ~(d < 0)
      <3>1. Dim = d /\ d \in Nat /\ d \in 0..r - 1
        BY <1>1, <2>2 DEF Dim
      <3> QED BY <3>1
    <2> QED BY <2>1, <2>2
  <1>3. PICK s \in Seq(Nat) : s = call.shape /\ Len(s) = r
    BY <1>1, CallFacts DEF Rank
  <1>4. s # <<>> /\ s[e + 1] \in Nat
    BY <1>2, <1>3, EmptySeq
  <1> QED BY <1>1, <1>2, <1>3, <1>4, Zenon

\* What a member hands in.
LEMMA InputFacts ==
    ASSUME call \in Calls, NEW m \in Member
    PROVE  /\ ShapeOf(m) \in Seq(Nat)
           /\ call.op # "all_gatherv" => ShapeOf(m) = call.shape
           /\ IsTensor(Input(m)) /\ Input(m).shape = ShapeOf(m)
           /\ \A p \in 1..Numel(ShapeOf(m)) : Input(m).data[p] = <<m, p>>
  <1>1. ShapeOf(m) \in Seq(Nat)
    <2>1. CASE call.op = "all_gatherv" /\ call.sizes # <<>>
      <3>1. PICK s \in Seq(Nat), x \in Nat : s = call.shape /\ x = call.sizes[m + 1] /\ s # <<>>
        <4>1. call.sizes[m + 1] \in Nat
          BY <2>1, CallFacts
        <4> QED BY <2>1, <4>1, CallFacts
      <3>2. 1 \in 1..Len(s)
        BY <3>1, EmptySeq
      <3>3. [s EXCEPT ![1] = x] \in Seq(Nat)
        BY <3>2, ExceptSeq
      <3> QED BY <2>1, <3>1, <3>3, Zenon DEF ShapeOf
    <2>2. CASE ~(call.op = "all_gatherv" /\ call.sizes # <<>>)
      BY <2>2, CallFacts DEF ShapeOf
    <2> QED BY <2>1, <2>2
  <1>2. PICK h : h = ShapeOf(m)
    OBVIOUS
  <1>3. Input(m) = [shape |-> h, data |-> [p \in 1..Numel(h) |-> <<m, p>>]]
    BY <1>2, Zenon DEF Input
  <1>4. IsTensor(Input(m)) /\ Input(m).shape = h /\ \A p \in 1..Numel(h) : Input(m).data[p] = <<m, p>>
    BY <1>1, <1>2, <1>3 DEF IsTensor
  <1> QED BY <1>1, <1>2, <1>4 DEF ShapeOf

\* One member's memory after another's.
LEMMA ConcatenatedFacts ==
    ASSUME call \in Calls, NEW l \in [1..call.n -> Nat]
    PROVE  /\ Concatenated(l) = [p \in 1..Before(l, call.n) |-> Concatenated(l)[p]]
           /\ \A m \in Member : \A p \in 1..l[m + 1] :
                /\ Before(l, m) + p \in 1..Before(l, call.n)
                /\ Concatenated(l)[Before(l, m) + p] = Input(m).data[p]
  <1>1. Concatenated(l) = [p \in 1..Before(l, call.n) |-> Concatenated(l)[p]]
    BY DEF Concatenated
  <1>2. ASSUME NEW m \in Member, NEW p \in 1..l[m + 1]
        PROVE  /\ Before(l, m) + p \in 1..Before(l, call.n)
               /\ Concatenated(l)[Before(l, m) + p] = Input(m).data[p]
    <2>1. PICK n \in Nat : n = call.n /\ n > 0 /\ Member = 0..n - 1
      BY CallFacts DEF Member
    <2>2. /\ m \in 0..n - 1 /\ m \in 0..n /\ m + 1 \in 0..n /\ n \in m + 1..n /\ n \in 0..n
          /\ m + 1 \in 1..n
      BY <2>1
    <2>8. l \in [1..n -> Nat]
      BY <2>1
    <2>3. PICK b \in Nat, x \in Nat, e \in Nat :
            b = Before(l, m) /\ x = l[m + 1] /\ e = Before(l, n) /\ Before(l, m + 1) = b + x
            /\ b + x <= e
      <3>1. Before(l, m) \in Nat /\ Before(l, n) \in Nat /\ l[m + 1] \in Nat
        BY <2>2, <2>8, BeforeStep
      <3>2. Before(l, m + 1) = Before(l, m) + l[m + 1]
        BY <2>2, <2>8, BeforeStep
      <3>3. Before(l, m + 1) <= Before(l, n)
        BY <2>2, <2>8, BeforeGrows
      <3> QED BY <3>1, <3>2, <3>3
    <2>4. PICK q \in Nat : q = b + p /\ q \in 1..e /\ b < q /\ q <= b + x /\ q - b = p
      <3>1. b + x <= e /\ p \in 1..x
        BY <2>3, Zenon
      <3>2. b + p \in Nat /\ b + p \in 1..e /\ b < b + p /\ b + p <= b + x /\ (b + p) - b = p
        BY <3>1
      <3> QED BY <3>2, Zenon
    <2>5. \A k \in Member : (Before(l, k) < q /\ q <= Before(l, k + 1)) <=> k = m
      <3>1. InBlock(l, m, q)
        BY <2>3, <2>4 DEF InBlock
      <3>2. ASSUME NEW k \in Member, InBlock(l, k, q) PROVE k = m
        <4>1. k \in 0..n - 1 /\ q \in Int
          BY <2>1
        <4> QED BY <2>2, <2>8, <3>1, <3>2, <4>1, BlockUnique
      <3> QED BY <3>1, <3>2, Zenon DEF InBlock
    <2>6. (CHOOSE k \in Member : Before(l, k) < q /\ q <= Before(l, k + 1)) = m
      BY <2>5, Zenon
    <2>7. Concatenated(l)[q] = Input(m).data[q - b]
      BY <2>1, <2>3, <2>4, <2>6, Zenon DEF Concatenated
    <2> QED BY <2>1, <2>3, <2>4, <2>7, Zenon
  <1> QED BY <1>1, <1>2

---------------------------------------------------------------------------
(* all_gather and gather.                                                  *)

\* The memory of all members.
LEMMA StackedFacts ==
    ASSUME call \in Calls, NEW N, N = Numel(call.shape),
           call.op # "all_gatherv"
    PROVE  /\ N \in Nat
           /\ IsTensor(Stacked) /\ Stacked.shape = <<call.n>> \o call.shape
           /\ \A m \in Member : \A p \in 1..N : Stacked.data[m * N + p] = <<m, p>>
  <1>1. PICK n \in Nat, s \in Seq(Nat) : n = call.n /\ s = call.shape /\ N = Numel(s)
    BY CallFacts, Zenon
  <1>2. N \in Nat
    BY <1>1, NumelJoin
  <1>3. PICK l \in [1..n -> Nat] : l = [i \in 1..n |-> N]
    BY <1>2
  <1>4. \A m \in 0..n : Before(l, m) = m * N
    BY <1>2, <1>3, BeforeMultiples
  <1>5. PICK h \in Seq(Nat) : h = <<n>> \o s /\ Numel(h) = n * N
    <2>1. PICK o \in Seq(Nat) : o = <<n>> /\ Numel(o) = n
      <3>1. <<n>> \in Seq(Nat) /\ Numel(<<n>>) = n
        BY NumelSmall
      <3> QED BY <3>1
    <2>2. o \o s \in Seq(Nat) /\ Numel(o \o s) = Numel(o) * Numel(s)
      BY NumelJoin, ConcatProperties
    <2> QED BY <1>1, <2>1, <2>2, Zenon
  <1>6. PICK C : C = Concatenated(l)
    OBVIOUS
  <1>7. Stacked = [shape |-> h, data |-> C]
    BY <1>1, <1>3, <1>5, <1>6, Zenon DEF Stacked
  <1>8. C = [p \in 1..n * N |-> C[p]]
    <2>1. l \in [1..call.n -> Nat] /\ n \in 0..n
      BY <1>1
    <2>2. C = [p \in 1..Before(l, call.n) |-> C[p]]
      BY <1>6, <2>1, ConcatenatedFacts, Zenon
    <2>3. Before(l, call.n) = n * N
      BY <1>1, <1>4, <2>1, Zenon
    <2> QED BY <2>2, <2>3, Zenon
  <1>9. IsTensor(Stacked) /\ Stacked.shape = h /\ Stacked.data = C
    BY <1>5, <1>7, <1>8 DEF IsTensor
  <1>10. ASSUME NEW m \in Member, NEW p \in 1..N
         PROVE  C[m * N + p] = <<m, p>>
    <2>5. m \in Nat /\ m + 1 \in 1..n
      BY <1>1, CallFacts, Zenon
    <2>1. l \in [1..call.n -> Nat] /\ m + 1 \in 1..n /\ m \in 0..n
      BY <1>1, <2>5
    <2>2. l[m + 1] = N /\ Before(l, m) = m * N
      BY <1>3, <1>4, <2>1
    <2>3. C[Before(l, m) + p] = Input(m).data[p]
      <3>1. p \in 1..l[m + 1]
        BY <2>2, Zenon
      <3> QED BY <1>6, <2>1, <3>1, ConcatenatedFacts, Zenon
    <2>4. Input(m).data[p] = <<m, p>>
      BY <1>1, InputFacts
    <2> QED BY <2>2, <2>3, <2>4, Zenon
  <1> QED BY <1>1, <1>2, <1>5, <1>9, <1>10, Zenon

\* The element (i, j, k) of member m, in a tensor of n * x along dim and in one that still
\* tells the members apart.
InMember(i, m, j, k, n, x, c) ==
    Place(i, m * x + j, k, n * x, c) = Place(i, m, j * c + k, n, x * c)

\* The same in the memory of all members, one after another.
InStack(m, a, i, j, k, x, c) ==
    Place(m, i, j * c + k, a, x * c) = m * (a * x * c) + Place(i, j, k, x, c)

\* The place of the element (i, j, k) of member m in what has been gathered, in a tensor of
\* n * x along dim and in one that still tells the members apart.
LEMMA PlaceInMember ==
    ASSUME NEW i \in Nat, NEW m \in Nat, NEW j \in Nat, NEW k \in Nat,
           NEW n \in Nat, NEW x \in Nat, NEW c \in Nat
    PROVE  InMember(i, m, j, k, n, x, c)
  <1>1. i * (n * x) = (i * n) * x /\ i * n \in Nat /\ m * x \in Nat /\ j * c \in Nat /\ x * c \in Nat
        /\ i * (n * x) \in Nat
    BY Regroup, Times
  <1>2. PICK u \in Nat : u = i * n + m
    BY <1>1
  <1>3. i * (n * x) + (m * x + j) = u * x + j /\ u * x \in Nat
    BY <1>1, <1>2, Regroup
  <1>4. (u * x + j) * c = (u * x) * c + j * c /\ (u * x) * c = u * (x * c) /\ u * (x * c) \in Nat
    BY <1>1, <1>3, Regroup
  <1>5. (u * x + j) * c + k + 1 = u * (x * c) + (j * c + k) + 1
    BY <1>1, <1>3, <1>4
  <1> QED BY <1>2, <1>3, <1>5, Zenon DEF Place, InMember

\* The same in the memory of all members, one after another.
LEMMA PlaceInStack ==
    ASSUME NEW m \in Nat, NEW a \in Nat, NEW i \in Nat, NEW j \in Nat, NEW k \in Nat,
           NEW x \in Nat, NEW c \in Nat
    PROVE  InStack(m, a, i, j, k, x, c)
  <1>1. PICK b \in Nat, y \in Nat, h \in Nat, g \in Nat :
            b = x * c /\ y = i * b /\ h = a * b /\ g = m * h
    <2>1. PICK b \in Nat : b = x * c
      BY Times
    <2>2. i * b \in Nat /\ a * b \in Nat
      BY Times
    <2>3. m * (a * b) \in Nat
      BY <2>2, Times
    <2> QED BY <2>1, <2>2, <2>3
  <1>2. a * x * c = h
    <2>1. (a * x) * c = a * (x * c)
      BY Regroup
    <2> QED BY <1>1, <2>1, Zenon
  <1>3. (m * a + i) * b = g + y
    <2>1. m * a \in Int
      OBVIOUS
    <2>2. (m * a + i) * b = (m * a) * b + i * b
      BY <2>1, Regroup
    <2>3. (m * a) * b = m * (a * b)
      BY Regroup
    <2> QED BY <1>1, <2>2, <2>3, Zenon
  <1>4. PICK z \in Nat : z = j * c
    BY Times
  <1>5. (i * x + j) * c = y + z
    <2>1. i * x \in Int
      OBVIOUS
    <2>2. (i * x + j) * c = (i * x) * c + j * c
      BY <2>1, Regroup
    <2>3. (i * x) * c = i * (x * c)
      BY Regroup
    <2> QED BY <1>1, <1>4, <2>2, <2>3, Zenon
  <1>6. Place(i, j, k, x, c) = y + z + k + 1
    BY <1>5, Zenon DEF Place
  <1>7. Place(m, i, j * c + k, a, x * c) = g + y + (z + k) + 1
    BY <1>1, <1>3, <1>4, Zenon DEF Place
  <1>8. g + y + (z + k) + 1 = g + (y + z + k + 1)
    OBVIOUS
  <1> QED BY <1>1, <1>2, <1>6, <1>7, <1>8, Zenon DEF InStack

\* The element (i, j, k) of member m, in what has been gathered.
IsMembers(t, m, x, a, c) ==
    \A i \in 0..a - 1, j \in 0..x - 1, k \in 0..c - 1 :
        ElementAt(t, i, m * x + j, k, call.n * x, c) = <<m, Place(i, j, k, x, c)>>

\* What has been gathered.
LEMMA JoinedFacts ==
    ASSUME call \in Calls, DimInRange, call.op # "all_gatherv",
           NEW a \in Nat, NEW x \in Nat, NEW c \in Nat, Blocks(call.shape, Dim, a, x, c)
    PROVE  /\ IsTensor(Joined) /\ Joined.shape = WithLength(call.shape, Dim, call.n * x)
           /\ \A m \in Member : IsMembers(Joined, m, x, a, c)
  <1>1. PICK s \in Seq(Nat), n \in Nat, d \in Nat :
            s = call.shape /\ n = call.n /\ d = Dim /\ d \in 0..Len(s) - 1
    BY CallFacts, DimFacts, Zenon
  <1>2. PICK N \in Nat, b \in Nat : N = Numel(s) /\ b = Numel(Trailing(s, d)) /\ N = a * b
        /\ b = x * c /\ N = a * x * c
    <2>1. /\ Numel(s) = Numel(Leading(s, d)) * s[d + 1] * Numel(Trailing(s, d + 1))
          /\ Numel(s) = Numel(Leading(s, d)) * Numel(Trailing(s, d))
          /\ Numel(Trailing(s, d)) = s[d + 1] * Numel(Trailing(s, d + 1))
          /\ Numel(s) \in Nat /\ Numel(Leading(s, d)) \in Nat /\ s[d + 1] \in Nat
          /\ Numel(Trailing(s, d)) \in Nat /\ Numel(Trailing(s, d + 1)) \in Nat
      BY <1>1, NumelParts
    <2> QED BY <1>1, <2>1, Zenon DEF Blocks
  <1>3. PICK S : S = Stacked
    OBVIOUS
  <1>4. /\ IsTensor(S) /\ S.shape = <<n>> \o s
        /\ \A m \in 0..n - 1 : \A p \in 1..N : S.data[m * N + p] = <<m, p>>
    <2>1. /\ IsTensor(S) /\ S.shape = <<call.n>> \o call.shape
          /\ \A m \in Member : \A p \in 1..N : S.data[m * N + p] = <<m, p>>
      BY <1>1, <1>2, <1>3, StackedFacts, Zenon
    <2> QED BY <1>1, <2>1, Zenon DEF Member
  <1>5. S.shape \in Seq(Nat) /\ S.shape # <<>> /\ Head(S.shape) = n /\ Tail(S.shape) = s
        /\ Len(S.shape) = Len(s) + 1
    <2>1. /\ <<n>> \o s \in Seq(Nat) /\ Len(<<n>> \o s) = Len(s) + 1 /\ Head(<<n>> \o s) = n
          /\ Tail(<<n>> \o s) = s
      BY HeadTailOfJoin
    <2>2. Len(s) \in Nat
      OBVIOUS
    <2>3. <<n>> \o s # <<>>
      BY <2>1, <2>2, EmptySeq
    <2> QED BY <1>4, <2>1, <2>3, Zenon
  <1>6. PICK M : M = MoveFirstTo(S, d)
    OBVIOUS
  <1>7. d \in 0..Len(S.shape) - 1
    BY <1>1, <1>5
  <1>8. /\ IsTensor(M) /\ Numel(M.shape) = a * n * b
        /\ \A i \in 0..a - 1, j \in 0..n - 1, k \in 0..b - 1 :
                ElementAt(M, i, j, k, n, b) = ElementAt(S, j, i, k, a, b)
    <2>1. PICK f \in Seq(Nat), r \in Seq(Nat) : f = Leading(s, d) /\ r = Trailing(s, d)
      BY <1>1, ShapeParts
    <2>2. MoveBlocks(S, d, n, f, r, a, b)
      BY <1>1, <1>2, <1>5, <2>1, Zenon DEF Blocks, MoveBlocks
    <2>3. IsTensor(M) /\ Numel(M.shape) = a * n * b /\ IsMoved(M, S, n, a, b)
      <3>1. S.shape \in Seq(Nat) /\ S.shape # <<>>
        BY <1>5
      <3>2. IsBlock(MoveFirstTo(S, d), a, n, b) /\ IsMoved(MoveFirstTo(S, d), S, n, a, b)
        BY <1>7, <2>2, <3>1, MoveFacts
      <3> QED BY <1>6, <3>2, Zenon DEF IsBlock
    <2> QED BY <2>3, Zenon DEF IsMoved
  <1>9. PICK h \in Seq(Nat) : h = WithLength(s, d, n * x) /\ Numel(h) = a * (n * x) * c
    <2>1. n * x \in Nat
      BY <1>2, Times
    <2>2. WithLength(s, d, n * x) \in Seq(Nat)
      BY <1>1, <2>1, ShapeParts
    <2>3. Numel(WithLength(s, d, n * x)) = Numel(Leading(s, d)) * (n * x) * Numel(Trailing(s, d + 1))
      BY <1>1, <2>1, NumelParts
    <2> QED BY <1>1, <2>2, <2>3, Zenon DEF Blocks
  <1>10. Joined = [M EXCEPT !.shape = h]
    BY <1>1, <1>3, <1>6, <1>9, Zenon DEF Joined, Reshape, WithLength, Blocks
  <1>11. a * (n * x) * c = a * n * b
    <2>1. a * (n * x) = (a * n) * x
      BY Regroup
    <2>2. a * n \in Nat
      BY Times
    <2>3. ((a * n) * x) * c = (a * n) * (x * c)
      BY <2>2, Regroup
    <2> QED BY <1>2, <2>1, <2>3, Zenon
  <1>12. /\ Joined = [shape |-> h, data |-> M.data]
         /\ M.data = [p \in 1..Numel(h) |-> M.data[p]]
    <2>1. M = [shape |-> M.shape, data |-> M.data]
          /\ M.data = [p \in 1..Numel(M.shape) |-> M.data[p]]
      BY <1>8 DEF IsTensor
    <2>2. Numel(M.shape) = Numel(h)
      BY <1>8, <1>9, <1>11, Zenon
    <2>3. Joined = [shape |-> h, data |-> M.data]
      BY <1>10, <2>1
    <2> QED BY <2>1, <2>2, <2>3, Zenon
  <1>13. IsTensor(Joined) /\ Joined.shape = h /\ Joined.data = M.data
    BY <1>9, <1>12 DEF IsTensor
  <1>14. ASSUME NEW m \in Member, NEW i \in 0..a - 1, NEW j \in 0..x - 1, NEW k \in 0..c - 1
         PROVE  ElementAt(Joined, i, m * x + j, k, n * x, c) = <<m, Place(i, j, k, x, c)>>
    <2>1. m \in 0..n - 1 /\ m \in Nat
      BY <1>1, CallFacts DEF Member
    <2>2. PICK q : q = j * c + k
      OBVIOUS
    <2>9. i \in Nat /\ j \in Nat /\ k \in Nat
      OBVIOUS
    <2>3. q \in 0..b - 1 /\ q \in Nat
      BY <1>2, <2>2, BlockFits
    <2>4. ElementAt(M, i, m, q, n, b) = ElementAt(S, m, i, q, a, b)
      BY <1>8, <2>1, <2>3
    <2>5. Place(m, i, q, a, b) = m * N + Place(i, j, k, x, c)
      <3>1. InStack(m, a, i, j, k, x, c)
        BY <2>1, <2>9, PlaceInStack
      <3> QED BY <1>2, <2>2, <3>1, Zenon DEF InStack
    <2>6. Place(i, j, k, x, c) \in 1..N
      <3>1. Place(i, j, k, x, c) \in 1..a * x * c
        BY PlaceFacts
      <3> QED BY <1>2, <3>1, Zenon
    <2>7. ElementAt(S, m, i, q, a, b) = <<m, Place(i, j, k, x, c)>>
      <3>1. S.data[m * N + Place(i, j, k, x, c)] = <<m, Place(i, j, k, x, c)>>
        BY <1>4, <2>1, <2>6
      <3> QED BY <2>5, <3>1, Zenon DEF ElementAt
    <2>8. Place(i, m * x + j, k, n * x, c) = Place(i, m, q, n, b)
      <3>1. InMember(i, m, j, k, n, x, c)
        BY <2>1, <2>9, PlaceInMember
      <3> QED BY <1>2, <2>2, <3>1, Zenon DEF InMember
    <2> QED BY <1>13, <2>4, <2>7, <2>8, Zenon DEF ElementAt
  <1> QED BY <1>1, <1>9, <1>13, <1>14, Zenon DEF IsMembers

\* The numbers behind a dimension.
LEMMA TrailingAt ==
    ASSUME NEW s \in Seq(Nat), NEW d \in 0..Len(s) - 1
    PROVE  \E v \in Seq(Nat) :
                /\ v = Trailing(s, d + 1) /\ Len(v) = Len(s) - d - 1
                /\ \A i \in 1..Len(s) - d - 1 : v[i] = s[i + d + 1]
  <1>1. d \in Nat /\ Len(s) \in Nat /\ d + 1 \in 1..Len(s)
    OBVIOUS
  <1>2. PICK v \in Seq(Nat) : v = Trailing(s, d + 1)
    BY ShapeParts
  <1>3. Len(v) = Len(s) - d - 1 /\ \A i \in 1..Len(s) - d - 1 : v[i] = s[i + d + 1]
    <2>1. PICK e \in Int, l \in Int : e = d + 2 /\ l = Len(s) /\ e >= 1
      <3>1. d + 2 \in Int /\ d + 2 >= 1 /\ Len(s) \in Int
        BY <1>1
      <3> QED BY <3>1, Zenon
    <2>2. \A i \in e..l : s[i] \in Nat
      BY <2>1
    <2>3. /\ Len(SubSeq(s, e, l)) = IF e <= l THEN l - e + 1 ELSE 0
          /\ \A i \in 1..l - e + 1 : SubSeq(s, e, l)[i] = s[e + i - 1]
      BY <2>2, SubSeqProperties
    <2>4. v = SubSeq(s, e, l)
      <3>1. d + 1 + 1 = e
        BY <1>1, <2>1
      <3> QED BY <1>2, <2>1, <3>1, Zenon DEF Trailing
    <2>5. l - e + 1 = Len(s) - d - 1
      BY <1>1, <2>1
    <2>6. \A i \in 1..Len(s) - d - 1 : e + i - 1 = i + d + 1
      BY <1>1, <2>1
    <2>7. Len(v) = Len(s) - d - 1
      <3>1. Len(v) = IF e <= l THEN l - e + 1 ELSE 0
        BY <2>3, <2>4, Zenon
      <3> QED BY <1>1, <2>1, <3>1
    <2> QED BY <2>3, <2>4, <2>5, <2>6, <2>7, Zenon
  <1> QED BY <1>2, <1>3, Zenon

\* The numbers of a shape whose length along d has been replaced.
LEMMA WithLengthAt ==
    ASSUME NEW s \in Seq(Nat), NEW d \in 0..Len(s) - 1, NEW x \in Nat
    PROVE  \E t \in Seq(Nat) :
                /\ t = WithLength(s, d, x) /\ Len(t) = Len(s)
                /\ \A i \in 1..Len(s) : t[i] = IF i = d + 1 THEN x ELSE s[i]
  <1>1. WithLength(s, d, x) \in Seq(Nat) /\ Len(WithLength(s, d, x)) = Len(s)
    BY ShapeParts
  <1>2. \A i \in 1..Len(s) : WithLength(s, d, x)[i] = IF i = d + 1 THEN x ELSE s[i]
    <2>1. s \in [1..Len(s) -> Nat]
      BY LenProperties
    <2> QED BY <2>1 DEF WithLength
  <1> QED BY <1>1, <1>2, Zenon

\* A shape whose length along d has been replaced has the same blocks before and behind.
LEMMA WithLengthBlocks ==
    ASSUME NEW s \in Seq(Nat), NEW d \in 0..Len(s) - 1,
           NEW a \in Nat, NEW x \in Nat, NEW c \in Nat, Blocks(s, d, a, x, c),
           NEW y \in Nat, NEW z \in Nat
    PROVE  /\ WithLength(s, d, y) \in Seq(Nat)
           /\ Len(WithLength(s, d, y)) = Len(s)
           /\ Blocks(WithLength(s, d, y), d, a, y, c)
           /\ WithLength(WithLength(s, d, y), d, z) = WithLength(s, d, z)
           /\ WithLength(s, d, x) = s
  <1>1. PICK t \in Seq(Nat) :
            /\ t = WithLength(s, d, y) /\ Len(t) = Len(s)
            /\ \A i \in 1..Len(s) : t[i] = IF i = d + 1 THEN y ELSE s[i]
    BY WithLengthAt
  <1>2. d \in Nat /\ Len(s) \in Nat /\ d + 1 \in 1..Len(s) /\ d \in 0..Len(t) - 1
    BY <1>1
  <1>4. Leading(t, d) = Leading(s, d)
    <2>1. PICK u \in Seq(Nat), v \in Seq(Nat) : u = Leading(t, d) /\ v = Leading(s, d)
      BY <1>1, <1>2, ShapeParts
    <2>2. /\ Len(u) = d /\ \A i \in 1..d : u[i] = t[i]
          /\ Len(v) = d /\ \A i \in 1..d : v[i] = s[i]
      BY <1>1, <1>2, <2>1 DEF Leading
    <2>3. \A i \in 1..d : i \in 1..Len(s) /\ i # d + 1
      BY <1>2
    <2>4. \A i \in 1..d : u[i] = v[i]
      BY <1>1, <2>2, <2>3
    <2>5. u = v
      BY <2>2, <2>4, SeqEqual
    <2> QED BY <2>1, <2>5
  <1>5. Trailing(t, d + 1) = Trailing(s, d + 1)
    <2>1. PICK u \in Seq(Nat) : /\ u = Trailing(t, d + 1) /\ Len(u) = Len(t) - d - 1
                                /\ \A i \in 1..Len(t) - d - 1 : u[i] = t[i + d + 1]
      BY <1>2, TrailingAt
    <2>7. PICK v \in Seq(Nat) : /\ v = Trailing(s, d + 1) /\ Len(v) = Len(s) - d - 1
                                /\ \A i \in 1..Len(s) - d - 1 : v[i] = s[i + d + 1]
      BY TrailingAt
    <2>2. PICK l \in Nat : l = Len(s) - d - 1
      <3>1. Len(s) - d - 1 \in Nat
        BY <1>2
      <3> QED BY <3>1
    <2>3. /\ Len(u) = l /\ \A i \in 1..l : u[i] = t[i + d + 1]
          /\ Len(v) = l /\ \A i \in 1..l : v[i] = s[i + d + 1]
      BY <1>1, <2>1, <2>2, <2>7
    <2>4. \A i \in 1..l : i + d + 1 \in 1..Len(s) /\ i + d + 1 # d + 1
      BY <1>2, <2>2
    <2>8. \A i \in 1..l : t[i + d + 1] = s[i + d + 1]
      BY <1>1, <2>4
    <2>5. \A i \in 1..l : u[i] = v[i]
      BY <2>3, <2>8, Zenon
    <2>6. u = v
      BY <2>3, <2>5, SeqEqual
    <2> QED BY <2>1, <2>6, <2>7
  <1>6. t[d + 1] = y
    BY <1>1, <1>2
  <1>7. WithLength(t, d, z) = WithLength(s, d, z)
    <2>1. PICK v \in Seq(Nat) : /\ v = WithLength(s, d, z) /\ Len(v) = Len(s)
                                /\ \A i \in 1..Len(s) : v[i] = IF i = d + 1 THEN z ELSE s[i]
      BY WithLengthAt
    <2>2. PICK w \in Seq(Nat) : /\ w = WithLength(t, d, z) /\ Len(w) = Len(t)
                                /\ \A i \in 1..Len(t) : w[i] = IF i = d + 1 THEN z ELSE t[i]
      <3>1. d \in 0..Len(t) - 1
        BY <1>2, Zenon
      <3> QED BY <3>1, WithLengthAt
    <2>3. \A i \in 1..Len(s) : w[i] = v[i]
      BY <1>1, <2>1, <2>2
    <2>5. Len(w) = Len(v) /\ \A i \in 1..Len(w) : w[i] = v[i]
      BY <1>1, <2>1, <2>2, <2>3
    <2>4. w = v
      BY <2>5, SeqEqual
    <2> QED BY <2>1, <2>2, <2>4
  <1>8. WithLength(s, d, x) = s
    <2>1. x = s[d + 1]
      BY DEF Blocks
    <2>2. PICK v \in Seq(Nat) : /\ v = WithLength(s, d, x) /\ Len(v) = Len(s)
                                /\ \A i \in 1..Len(s) : v[i] = IF i = d + 1 THEN x ELSE s[i]
      BY WithLengthAt
    <2>3. \A i \in 1..Len(s) : v[i] = s[i]
      BY <2>1, <2>2
    <2>4. v = s
      BY <2>2, <2>3, SeqEqual
    <2> QED BY <2>2, <2>4
  <1>9. Blocks(t, d, a, y, c)
    BY <1>4, <1>5, <1>6, Zenon DEF Blocks
  <1> QED BY <1>1, <1>7, <1>8, <1>9, Zenon

\* Each member's tensor is a portion of what has been gathered.
LEMMA JoinedPortion ==
    ASSUME call \in Calls, DimInRange, call.op # "all_gatherv", NEW m \in Member,
           NEW a \in Nat, NEW x \in Nat, NEW c \in Nat, Blocks(call.shape, Dim, a, x, c)
    PROVE  Portion(Joined, Dim, m * x, x) = Input(m)
  <1>1. PICK s \in Seq(Nat), n \in Nat, d \in Nat :
            s = call.shape /\ n = call.n /\ d = Dim /\ d \in 0..Len(s) - 1
    BY CallFacts, DimFacts, Zenon
  <1>2. PICK J : J = Joined
    OBVIOUS
  <1>3. n * x \in Nat /\ m * x \in Nat
    <2>1. m \in Nat
      BY CallFacts
    <2> QED BY <2>1, Times
  <1>4. PICK y \in Nat, from \in Nat : y = n * x /\ from = m * x
    BY <1>3
  <1>5. IsTensor(J) /\ J.shape = WithLength(s, d, y) /\ IsMembers(J, m, x, a, c)
    BY <1>1, <1>2, <1>4, JoinedFacts, Zenon
  <1>6. Blocks(s, d, a, x, c)
    BY <1>1, Zenon
  <1>7. PICK h \in Seq(Nat) : /\ h = J.shape /\ Len(h) = Len(s) /\ Blocks(h, d, a, y, c)
                              /\ WithLength(h, d, x) = s
    <2>1. /\ WithLength(s, d, y) \in Seq(Nat) /\ Len(WithLength(s, d, y)) = Len(s)
          /\ Blocks(WithLength(s, d, y), d, a, y, c)
      BY <1>1, <1>6, WithLengthBlocks
    <2>2. /\ WithLength(WithLength(s, d, y), d, x) = WithLength(s, d, x)
          /\ WithLength(s, d, x) = s
      BY <1>1, <1>6, WithLengthBlocks
    <2> QED BY <1>5, <2>1, <2>2, Zenon
  <1>8. PICK P : P = Portion(J, d, from, x)
    OBVIOUS
  <1>9. IsBlock(P, a, x, c) /\ P.shape = s /\ IsPortion(P, J, from, x, a, y, c)
    <2>1. J.shape \in Seq(Nat) /\ d \in 0..Len(J.shape) - 1 /\ Blocks(J.shape, d, a, y, c)
      BY <1>1, <1>7, Zenon
    <2>2. /\ IsBlock(Portion(J, d, from, x), a, x, c)
          /\ Portion(J, d, from, x).shape = WithLength(J.shape, d, x)
          /\ IsPortion(Portion(J, d, from, x), J, from, x, a, y, c)
      BY <2>1, PortionFacts
    <2> QED BY <1>7, <1>8, <2>2, Zenon
  <1>10. PICK I : I = Input(m)
    OBVIOUS
  <1>11. IsTensor(I) /\ I.shape = s /\ \A p \in 1..Numel(s) : I.data[p] = <<m, p>>
    BY <1>1, <1>10, InputFacts
  <1>12. Numel(s) = a * x * c
    BY <1>9, Zenon DEF IsBlock
  <1>13. ASSUME NEW i \in 0..a - 1, NEW j \in 0..x - 1, NEW k \in 0..c - 1
         PROVE  ElementAt(P, i, j, k, x, c) = ElementAt(I, i, j, k, x, c)
    <2>1. ElementAt(P, i, j, k, x, c) = ElementAt(J, i, from + j, k, y, c)
      BY <1>9 DEF IsPortion
    <2>2. ElementAt(J, i, from + j, k, y, c) = <<m, Place(i, j, k, x, c)>>
      BY <1>1, <1>4, <1>5, Zenon DEF IsMembers
    <2>3. Place(i, j, k, x, c) \in 1..Numel(s)
      <3>1. Place(i, j, k, x, c) \in 1..a * x * c
        BY PlaceFacts
      <3> QED BY <1>12, <3>1, Zenon
    <2>4. ElementAt(I, i, j, k, x, c) = <<m, Place(i, j, k, x, c)>>
      BY <1>11, <2>3, Zenon DEF ElementAt
    <2> QED BY <2>1, <2>2, <2>4, Zenon
  <1>14. IsTensor(P) /\ P.shape = I.shape /\ Numel(P.shape) = a * x * c
    BY <1>9, <1>11, Zenon DEF IsBlock
  <1>15. P = I
    <2>1. IsTensor(I) /\ P.shape = I.shape
      BY <1>11, <1>14, Zenon
    <2>2. SameAt(P, I, a, x, c)
      BY <1>13, Zenon DEF SameAt
    <2> QED BY <1>9, <2>1, <2>2, SameByPlace
  <1> QED BY <1>1, <1>2, <1>4, <1>8, <1>10, <1>15, Zenon

---------------------------------------------------------------------------
(* all_gatherv.                                                            *)

\* Of the first dimension: rows from `from` on.
InRows(from, j, k, b, e, c) == Place(0, from + j, k, b, c) = from * c + Place(0, j, k, e, c)

\* The place of an element that is `from` rows further on.
LEMMA PlaceInRows ==
    ASSUME NEW from \in Nat, NEW j \in Nat, NEW k \in Nat, NEW b \in Nat, NEW e \in Nat,
           NEW c \in Nat
    PROVE  InRows(from, j, k, b, e, c)
  <1>1. PICK u \in Nat, v \in Nat : u = from * c /\ v = j * c
    BY Times
  <1>2. (from + j) * c = u + v
    BY <1>1, Regroup
  <1>3. 0 * b + (from + j) = from + j /\ 0 * e + j = j
    OBVIOUS
  <1>4. Place(0, from + j, k, b, c) = u + v + k + 1 /\ Place(0, j, k, e, c) = v + k + 1
    BY <1>1, <1>2, <1>3, Zenon DEF Place
  <1>5. u + v + k + 1 = u + (v + k + 1)
    BY <1>1
  <1> QED BY <1>1, <1>4, <1>5, Zenon DEF InRows

\* Nothing is before the first dimension.
LEMMA FirstBlocks ==
    ASSUME NEW s \in Seq(Nat), s # <<>>
    PROVE  /\ 0 \in 0..Len(s) - 1
           /\ \E x \in Nat, c \in Nat : Blocks(s, 0, 1, x, c)
  <1>1. 0 \in 0..Len(s) - 1
    <2>1. Len(s) \in Nat /\ Len(s) # 0
      BY EmptySeq
    <2> QED BY <2>1
  <1>2. PICK a \in Nat, x \in Nat, c \in Nat : Blocks(s, 0, a, x, c)
    BY <1>1, BlocksExist
  <1>3. Leading(s, 0) = <<>>
    <2>1. Leading(s, 0) \in Seq(Nat) /\ Len(Leading(s, 0)) = 0
      BY <1>1, ShapeParts
    <2> QED BY <2>1, EmptySeq
  <1>4. a = 1
    BY <1>2, <1>3, NumelSmall, Zenon DEF Blocks
  <1> QED BY <1>1, <1>2, <1>4, Zenon

\* What all_gatherv returns.
Appended ==
    [shape |-> [call.shape EXCEPT ![1] = SizesSum],
     data |-> Concatenated([i \in 1..call.n |-> Numel(ShapeOf(i - 1))])]

\* The rows of the members follow each other.
AreRows(t, m, c) ==
    \A p \in 1..call.sizes[m + 1] * c : t.data[Before(call.sizes, m) * c + p] = <<m, p>>

\* The memory of all members, with rows of c elements.
LEMMA AppendedFacts ==
    ASSUME call \in Calls, call.op = "all_gatherv", call.sizes # <<>>,
           NEW x \in Nat, NEW c \in Nat, Blocks(call.shape, 0, 1, x, c)
    PROVE  /\ SizesSum \in Nat /\ IsTensor(Appended)
           /\ Appended.shape = WithLength(call.shape, 0, SizesSum)
           /\ \A m \in Member :
                /\ ShapeOf(m) = WithLength(call.shape, 0, call.sizes[m + 1])
                /\ AreRows(Appended, m, c)
  <1>1. PICK s \in Seq(Nat), n \in Nat : s = call.shape /\ n = call.n /\ s # <<>>
    BY CallFacts, Zenon
  <1>2. PICK z \in [1..n -> Nat] : z = call.sizes /\ Len(call.sizes) = n
    <2>1. call.sizes \in [1..call.n -> Nat] /\ Len(call.sizes) = call.n
      BY CallFacts, Zenon
    <2> QED BY <1>1, <2>1, Zenon
  <1>3. 0 \in 0..Len(s) - 1 /\ Blocks(s, 0, 1, x, c)
    BY <1>1, FirstBlocks, Zenon
  <1>4. PICK y \in Nat : y = SizesSum /\ y = Before(z, n)
    <2>1. n \in 0..n /\ Before(z, n) \in Nat
      <3>1. n \in 0..n
        OBVIOUS
      <3> QED BY <3>1, BeforeStep, Zenon
    <2> QED BY <1>2, <2>1, Zenon DEF SizesSum
  <1>5. ASSUME NEW e \in Nat
        PROVE  Numel(WithLength(s, 0, e)) = e * c /\ WithLength(s, 0, e) \in Seq(Nat)
    <2>3. ASSUME NEW a \in Nat, Blocks(s, 0, a, x, c)
          PROVE  Numel(WithLength(s, 0, e)) = a * e * c /\ WithLength(s, 0, e) \in Seq(Nat)
      <3>1. Numel(WithLength(s, 0, e)) = a * e * c
        BY <1>3, <2>3, BlocksNumel
      <3>2. WithLength(s, 0, e) \in Seq(Nat)
        BY <1>3, <2>3, BlocksNumel
      <3> QED BY <3>1, <3>2, Zenon
    <2>4. 1 \in Nat
      OBVIOUS
    <2>1. Numel(WithLength(s, 0, e)) = 1 * e * c /\ WithLength(s, 0, e) \in Seq(Nat)
      BY <1>3, <2>3, <2>4, Zenon
    <2>2. 1 * e = e
      OBVIOUS
    <2> QED BY <2>1, <2>2, Zenon
  <1>6. ASSUME NEW m \in Member
        PROVE  /\ ShapeOf(m) = WithLength(s, 0, z[m + 1])
               /\ Numel(ShapeOf(m)) = z[m + 1] * c
    <2>1. 0 + 1 = 1 /\ z[m + 1] \in Nat
      <3>1. m + 1 \in 1..n
        BY <1>1, CallFacts
      <3> QED BY <3>1
    <2>2. ShapeOf(m) = WithLength(s, 0, z[m + 1])
      BY <1>1, <1>2, <2>1, Zenon DEF ShapeOf, WithLength
    <2> QED BY <1>5, <2>1, <2>2, Zenon
  <1>7. PICK l \in [1..n -> Nat] : /\ l = [i \in 1..n |-> Numel(ShapeOf(i - 1))]
                                  /\ l = [i \in 1..n |-> z[i] * c]
    <2>1. ASSUME NEW i \in 1..n PROVE Numel(ShapeOf(i - 1)) = z[i] * c
      <3>1. i - 1 \in Member /\ (i - 1) + 1 = i
        BY <1>1 DEF Member
      <3>2. PICK m \in Member : m = i - 1 /\ m + 1 = i
        BY <3>1
      <3> QED BY <1>6, <3>2, Zenon
    <2>2. \A i \in 1..n : z[i] * c \in Nat
      BY Times
    <2>3. [i \in 1..n |-> Numel(ShapeOf(i - 1))] = [i \in 1..n |-> z[i] * c]
      BY <2>1, Zenon
    <2>4. [i \in 1..n |-> z[i] * c] \in [1..n -> Nat]
      BY <2>2
    <2> QED BY <2>3, <2>4, Zenon
  <1>8. \A m \in 0..n : Before(l, m) = Before(z, m) * c
    <2>1. \A m \in 0..n : Before([i \in 1..n |-> z[i] * c], m) = Before(z, m) * c
      BY BeforeMultiples
    <2> QED BY <1>7, <2>1, Zenon
  <1>9. PICK C : C = Concatenated(l)
    OBVIOUS
  <1>10. Appended = [shape |-> WithLength(s, 0, y), data |-> C]
    <2>1. 0 + 1 = 1
      OBVIOUS
    <2> QED BY <1>1, <1>4, <1>7, <1>9, <2>1, Zenon DEF Appended, WithLength
  <1>11. PICK h \in Seq(Nat) : h = WithLength(s, 0, y) /\ Numel(h) = y * c
    BY <1>4, <1>5, Zenon
  <1>12. l \in [1..call.n -> Nat] /\ n \in 0..n
    BY <1>1
  <1>13. C = [p \in 1..Numel(h) |-> C[p]]
    <2>1. C = [p \in 1..Before(l, call.n) |-> C[p]]
      BY <1>9, <1>12, ConcatenatedFacts, Zenon
    <2>2. Before(l, call.n) = Numel(h)
      BY <1>1, <1>4, <1>8, <1>11, <1>12, Zenon
    <2> QED BY <2>1, <2>2, Zenon
  <1>14. IsTensor(Appended) /\ Appended.shape = h /\ Appended.data = C
    BY <1>10, <1>11, <1>13 DEF IsTensor
  <1>15. ASSUME NEW m \in Member PROVE AreRows(Appended, m, c)
    <2>4. m \in Nat /\ m + 1 \in 1..n
      BY <1>1, CallFacts, Zenon
    <2>1. m + 1 \in 1..n /\ m \in 0..n
      BY <2>4
    <2>2. l[m + 1] = z[m + 1] * c /\ Before(l, m) = Before(z, m) * c
      BY <1>7, <1>8, <2>1
    <2>3. ASSUME NEW p \in 1..z[m + 1] * c PROVE C[Before(z, m) * c + p] = <<m, p>>
      <3>1. p \in 1..l[m + 1] /\ p \in 1..Numel(ShapeOf(m))
        BY <1>6, <2>2, Zenon
      <3>2. C[Before(l, m) + p] = Input(m).data[p]
        BY <1>9, <1>12, <3>1, ConcatenatedFacts, Zenon
      <3>3. Input(m).data[p] = <<m, p>>
        BY <3>1, InputFacts, Zenon
      <3> QED BY <2>2, <3>2, <3>3, Zenon
    <2> QED BY <1>2, <1>14, <2>3, Zenon DEF AreRows
  <1> QED BY <1>1, <1>2, <1>4, <1>6, <1>11, <1>14, <1>15, Zenon

\* Each member's tensor is a portion of it.
LEMMA AppendedPortion ==
    ASSUME call \in Calls, call.op = "all_gatherv", call.sizes # <<>>, NEW m \in Member
    PROVE  Portion(Appended, 0, Before(call.sizes, m), call.sizes[m + 1]) = Input(m)
  <1>1. PICK s \in Seq(Nat), n \in Nat : s = call.shape /\ n = call.n /\ s # <<>>
    BY CallFacts, Zenon
  <1>2. PICK x \in Nat, c \in Nat : Blocks(s, 0, 1, x, c)
    BY FirstBlocks, <1>1
  <1>3. 0 \in 0..Len(s) - 1
    BY FirstBlocks, <1>1
  <1>4. PICK A : A = Appended
    OBVIOUS
  <1>5. PICK y \in Nat : y = SizesSum /\ IsTensor(A) /\ A.shape = WithLength(s, 0, y)
                        /\ ShapeOf(m) = WithLength(s, 0, call.sizes[m + 1]) /\ AreRows(A, m, c)
    BY <1>1, <1>2, <1>4, AppendedFacts, Zenon
  <1>6. PICK from \in Nat, len \in Nat :
            from = Before(call.sizes, m) /\ len = call.sizes[m + 1]
    <2>1. m + 1 \in 1..n /\ m \in 0..n
      BY <1>1, CallFacts DEF Member
    <2>2. PICK z \in [1..n -> Nat] : z = call.sizes
      BY <1>1, CallFacts, Zenon
    <2>3. Before(z, m) \in Nat /\ z[m + 1] \in Nat
      BY <2>1, BeforeStep
    <2> QED BY <2>2, <2>3, Zenon
  <1>7. PICK h \in Seq(Nat) : h = A.shape /\ 0 \in 0..Len(h) - 1 /\ Blocks(h, 0, 1, y, c)
                              /\ WithLength(h, 0, len) = ShapeOf(m)
    <2>1. /\ WithLength(s, 0, y) \in Seq(Nat) /\ Len(WithLength(s, 0, y)) = Len(s)
          /\ Blocks(WithLength(s, 0, y), 0, 1, y, c)
      BY <1>2, <1>3, WithLengthBlocks
    <2>2. WithLength(WithLength(s, 0, y), 0, len) = WithLength(s, 0, len)
      BY <1>2, <1>3, WithLengthBlocks
    <2> QED BY <1>3, <1>5, <1>6, <2>1, <2>2, Zenon
  <1>8. PICK P : P = Portion(A, 0, from, len)
    OBVIOUS
  <1>9. IsBlock(P, 1, len, c) /\ P.shape = ShapeOf(m) /\ IsPortion(P, A, from, len, 1, y, c)
    <2>1. A.shape \in Seq(Nat) /\ 0 \in 0..Len(A.shape) - 1 /\ Blocks(A.shape, 0, 1, y, c)
      BY <1>7, Zenon
    <2>2. /\ IsBlock(Portion(A, 0, from, len), 1, len, c)
          /\ Portion(A, 0, from, len).shape = WithLength(A.shape, 0, len)
          /\ IsPortion(Portion(A, 0, from, len), A, from, len, 1, y, c)
      BY <2>1, PortionFacts
    <2> QED BY <1>7, <1>8, <2>2, Zenon
  <1>10. PICK I : I = Input(m)
    OBVIOUS
  <1>11. IsTensor(I) /\ I.shape = ShapeOf(m) /\ \A p \in 1..Numel(ShapeOf(m)) : I.data[p] = <<m, p>>
    BY <1>10, InputFacts
  <1>12. Numel(ShapeOf(m)) = 1 * len * c /\ 1 * len = len
    <2>1. 1 * len = len
      OBVIOUS
    <2> QED BY <1>9, <2>1, Zenon DEF IsBlock
  <1>13. ASSUME NEW i \in 0..1 - 1, NEW j \in 0..len - 1, NEW k \in 0..c - 1
         PROVE  ElementAt(P, i, j, k, len, c) = ElementAt(I, i, j, k, len, c)
    <2>1. ElementAt(P, i, j, k, len, c) = ElementAt(A, i, from + j, k, y, c)
      BY <1>9 DEF IsPortion
    <2>2. i = 0 /\ j \in Nat /\ k \in Nat
      OBVIOUS
    <2>3. InRows(from, j, k, y, len, c)
      BY <2>2, PlaceInRows
    <2>4. Place(0, j, k, len, c) \in 1..1 * len * c
      BY <2>2, PlaceFacts
    <2>5. A.data[from * c + Place(0, j, k, len, c)] = <<m, Place(0, j, k, len, c)>>
      BY <1>5, <1>6, <1>12, <2>4, Zenon DEF AreRows
    <2>6. ElementAt(I, 0, j, k, len, c) = <<m, Place(0, j, k, len, c)>>
      BY <1>11, <1>12, <2>4, Zenon DEF ElementAt
    <2>7. ElementAt(A, 0, from + j, k, y, c) = <<m, Place(0, j, k, len, c)>>
      BY <2>3, <2>5, Zenon DEF ElementAt, InRows
    <2> QED BY <2>1, <2>2, <2>6, <2>7, Zenon
  <1>14. P = I
    <2>1. IsTensor(I) /\ P.shape = I.shape
      BY <1>9, <1>11, Zenon
    <2>2. SameAt(P, I, 1, len, c)
      BY <1>13, Zenon DEF SameAt
    <2> QED BY <1>9, <2>1, <2>2, SameByPlace
  <1> QED BY <1>4, <1>6, <1>8, <1>10, <1>14, Zenon

---------------------------------------------------------------------------
(* Shapes that are put together.                                           *)

\* The two parts are found again.
LEMMA JoinParts ==
    ASSUME NEW u \in Seq(Nat), NEW v \in Seq(Nat)
    PROVE  /\ u \o v \in Seq(Nat) /\ Len(u \o v) = Len(u) + Len(v)
           /\ Leading(u \o v, Len(u)) = u /\ Trailing(u \o v, Len(u)) = v
  <1>1. PICK w \in Seq(Nat) : w = u \o v
    BY ConcatProperties
  <1>2. /\ Len(w) = Len(u) + Len(v)
        /\ \A i \in 1..Len(u) + Len(v) : w[i] = IF i <= Len(u) THEN u[i] ELSE v[i - Len(u)]
    BY <1>1, ConcatProperties
  <1>3. PICK d \in Nat : d = Len(u) /\ d \in 0..Len(w)
    BY <1>2
  <1>4. PICK x \in Seq(Nat), y \in Seq(Nat) :
            x = Leading(w, d) /\ y = Trailing(w, d) /\ Len(x) = d /\ w = x \o y
    <2>1. Leading(w, d) \in Seq(Nat) /\ Trailing(w, d) \in Seq(Nat) /\ Len(Leading(w, d)) = d
      BY <1>3, SplitShape
    <2>2. w = Leading(w, d) \o Trailing(w, d)
      BY <1>3, SplitShape, Zenon
    <2> QED BY <2>1, <2>2, Zenon
  <1>5. /\ Len(w) = Len(x) + Len(y)
        /\ \A i \in 1..Len(x) + Len(y) : w[i] = IF i <= Len(x) THEN x[i] ELSE y[i - Len(x)]
    <2>1. /\ Len(x \o y) = Len(x) + Len(y)
          /\ \A i \in 1..Len(x) + Len(y) :
                  (x \o y)[i] = IF i <= Len(x) THEN x[i] ELSE y[i - Len(x)]
      BY ConcatProperties
    <2> QED BY <1>4, <2>1, Zenon
  <1>6. ASSUME NEW i \in 1..d PROVE x[i] = u[i]
    <2>1. i \in 1..Len(u) + Len(v) /\ i \in 1..Len(x) + Len(y) /\ i <= Len(u) /\ i <= Len(x)
      BY <1>3, <1>4
    <2> QED BY <1>2, <1>5, <2>1
  <1>7. x = u
    <2>1. Len(x) = Len(u) /\ \A i \in 1..Len(x) : x[i] = u[i]
      BY <1>3, <1>4, <1>6
    <2> QED BY <2>1, SeqEqual
  <1>8. y = v
    <2>1. Len(y) = Len(v) /\ Len(y) \in Nat
      BY <1>2, <1>3, <1>4, <1>5
    <2>2. ASSUME NEW i \in 1..Len(y) PROVE y[i] = v[i]
      <3>1. PICK j \in Nat : j = d + i
        OBVIOUS
      <3>5. Len(u) = d /\ Len(x) = d /\ Len(y) = Len(v)
        BY <1>3, <1>4, <2>1, Zenon
      <3>2. /\ j \in 1..Len(u) + Len(v) /\ j \in 1..Len(x) + Len(y)
            /\ ~(j <= Len(u)) /\ ~(j <= Len(x)) /\ j - Len(u) = i /\ j - Len(x) = i
        BY <2>1, <3>1, <3>5
      <3>3. w[j] = v[i]
        BY <1>2, <3>2
      <3>4. w[j] = y[i]
        BY <1>5, <3>2
      <3> QED BY <3>3, <3>4, Zenon
    <2> QED BY <2>1, <2>2, SeqEqual
  <1> QED BY <1>1, <1>2, <1>3, <1>4, <1>7, <1>8, Zenon

\* Three parts, in any grouping.
Grouped(u, v, w) == (u \o v) \o w = u \o (v \o w)

\* It makes no difference.
LEMMA JoinGrouping ==
    ASSUME NEW u \in Seq(Nat), NEW v \in Seq(Nat), NEW w \in Seq(Nat)
    PROVE  Grouped(u, v, w)
  BY DEF Grouped

\* Between u and v is a dimension of x.
IsSplit(s, u, x, v) == s = u \o (<<x>> \o v)

\* The blocks of such a shape.
LEMMA SplitBlocks ==
    ASSUME NEW s, NEW u \in Seq(Nat), NEW x \in Nat, NEW v \in Seq(Nat), IsSplit(s, u, x, v)
    PROVE  /\ s \in Seq(Nat) /\ Len(u) \in 0..Len(s) - 1 /\ Len(s) = Len(u) + Len(v) + 1
           /\ s # <<>> /\ s[Len(u) + 1] = x
           /\ Blocks(s, Len(u), Numel(u), x, Numel(v))
           /\ \A y \in Nat : IsSplit(WithLength(s, Len(u), y), u, y, v)
  <1>1. PICK w \in Seq(Nat) : w = <<x>> \o v /\ Len(w) = Len(v) + 1 /\ Head(w) = x /\ Tail(w) = v
    <2>1. <<x>> \o v \in Seq(Nat) /\ Len(<<x>> \o v) = Len(v) + 1
      BY HeadTailOfJoin
    <2>2. Head(<<x>> \o v) = x /\ Tail(<<x>> \o v) = v
      BY HeadTailOfJoin
    <2> QED BY <2>1, <2>2, Zenon
  <1>2. PICK t \in Seq(Nat), d \in Nat : t = s /\ t = u \o w /\ d = Len(u) /\ Len(t) = Len(u) + Len(w)
    <2>1. u \o w \in Seq(Nat) /\ Len(u \o w) = Len(u) + Len(w) /\ Len(u) \in Nat
      BY ConcatProperties
    <2> QED BY <1>1, <2>1, Zenon DEF IsSplit
  <1>3. Leading(t, d) = u /\ Trailing(t, d) = w
    <2>1. Leading(u \o w, Len(u)) = u /\ Trailing(u \o w, Len(u)) = w
      BY JoinParts
    <2> QED BY <1>2, <2>1, Zenon
  <1>4. d \in 0..Len(t) - 1 /\ Len(t) = Len(u) + Len(v) + 1 /\ t # <<>>
    BY <1>1, <1>2, EmptySeq
  <1>5. PICK y \in Nat, r \in Seq(Nat) : y = t[d + 1] /\ r = Trailing(t, d + 1)
    <2>1. t[d + 1] \in Nat /\ Trailing(t, d + 1) \in Seq(Nat)
      BY <1>4, ShapeParts
    <2> QED BY <2>1, Zenon
  <1>6. w = <<y>> \o r
    <2>1. Trailing(t, d) = <<t[d + 1]>> \o Trailing(t, d + 1)
      BY <1>4, ShapeParts
    <2> QED BY <1>3, <1>5, <2>1, Zenon
  <1>7. y = x /\ r = v
    <2>1. Head(<<y>> \o r) = y /\ Tail(<<y>> \o r) = r
      BY HeadTailOfJoin
    <2> QED BY <1>1, <1>6, <2>1, Zenon
  <1>8. Blocks(t, d, Numel(u), x, Numel(v))
    BY <1>3, <1>5, <1>7, Zenon DEF Blocks
  <1>9. ASSUME NEW z \in Nat PROVE IsSplit(WithLength(t, d, z), u, z, v)
    <2>1. WithLength(t, d, z) = Leading(t, d) \o (<<z>> \o Trailing(t, d + 1))
      BY <1>4, ShapeParts
    <2> QED BY <1>3, <1>5, <1>7, <2>1, Zenon DEF IsSplit
  <1> QED BY <1>2, <1>4, <1>5, <1>7, <1>8, <1>9, Zenon

\* A shape can be split at each of its dimensions.
LEMMA SplitExists ==
    ASSUME NEW s \in Seq(Nat), NEW d \in 0..Len(s) - 1
    PROVE  \E u \in Seq(Nat), x \in Nat, v \in Seq(Nat) :
                IsSplit(s, u, x, v) /\ Len(u) = d /\ x = s[d + 1]
  <1>1. PICK u \in Seq(Nat), w \in Seq(Nat), x \in Nat, v \in Seq(Nat) :
            /\ u = Leading(s, d) /\ w = Trailing(s, d) /\ x = s[d + 1] /\ v = Trailing(s, d + 1)
            /\ Len(u) = d
    <2>1. Leading(s, d) \in Seq(Nat) /\ Len(Leading(s, d)) = d /\ s[d + 1] \in Nat
          /\ Trailing(s, d) \in Seq(Nat) /\ Trailing(s, d + 1) \in Seq(Nat)
      BY ShapeParts
    <2> QED BY <2>1, Zenon
  <1>2. s = u \o w
    <2>1. s = Leading(s, d) \o Trailing(s, d)
      BY ShapeParts
    <2> QED BY <1>1, <2>1, Zenon
  <1>3. w = <<x>> \o v
    <2>1. Trailing(s, d) = <<s[d + 1]>> \o Trailing(s, d + 1)
      BY ShapeParts
    <2> QED BY <1>1, <2>1, Zenon
  <1> QED BY <1>1, <1>2, <1>3, Zenon DEF IsSplit

\* The first dimension is n, f those it is to be moved over, r the rest.
MovesOver(s, n, f, r) == s = <<n>> \o (f \o r)

\* And what movedim does to it.
LEMMA MoveOver ==
    ASSUME NEW t, NEW n \in Nat, NEW f \in Seq(Nat), NEW r \in Seq(Nat), MovesOver(t.shape, n, f, r)
    PROVE  /\ t.shape \in Seq(Nat) /\ t.shape # <<>> /\ Len(t.shape) = 1 + Len(f) + Len(r)
           /\ Numel(t.shape) = n * Numel(f) * Numel(r)
           /\ IsBlock(MoveFirstTo(t, Len(f)), Numel(f), n, Numel(r))
           /\ IsSplit(MoveFirstTo(t, Len(f)).shape, f, n, r)
           /\ IsMoved(MoveFirstTo(t, Len(f)), t, n, Numel(f), Numel(r))
  <1>1. PICK w \in Seq(Nat) : w = f \o r /\ Leading(w, Len(f)) = f /\ Trailing(w, Len(f)) = r
                             /\ Len(w) = Len(f) + Len(r)
    BY JoinParts, Zenon
  <1>2. PICK h \in Seq(Nat) : h = t.shape /\ Head(h) = n /\ Tail(h) = w /\ Len(h) = Len(w) + 1
    <2>1. <<n>> \o w \in Seq(Nat) /\ Len(<<n>> \o w) = Len(w) + 1
      BY HeadTailOfJoin
    <2>2. Head(<<n>> \o w) = n /\ Tail(<<n>> \o w) = w
      BY HeadTailOfJoin
    <2> QED BY <1>1, <2>1, <2>2, Zenon DEF MovesOver
  <1>3. PICK d \in Nat, b \in Nat, c \in Nat :
            d = Len(f) /\ b = Numel(f) /\ c = Numel(r) /\ d \in 0..Len(h) - 1
    <2>1. Numel(f) \in Nat /\ Numel(r) \in Nat
      BY NumelJoin, Zenon
    <2>2. Len(f) \in Nat /\ Len(f) \in 0..Len(h) - 1
      BY <1>1, <1>2
    <2> QED BY <2>1, <2>2
  <1>4. h # <<>> /\ Len(h) = 1 + Len(f) + Len(r)
    BY <1>1, <1>2, EmptySeq
  <1>5. MoveBlocks(t, d, n, f, r, b, c)
    BY <1>1, <1>2, <1>3, Zenon DEF MoveBlocks
  <1>6. t.shape \in Seq(Nat) /\ t.shape # <<>> /\ d \in 0..Len(t.shape) - 1
    BY <1>2, <1>3, <1>4, Zenon
  <1>7. IsBlock(MoveFirstTo(t, d), b, n, c) /\ IsMoved(MoveFirstTo(t, d), t, n, b, c)
    BY <1>5, <1>6, MoveFacts
  <1>8. Numel(t.shape) = n * b * c /\ MoveFirstTo(t, d).shape = f \o <<n>> \o r
    <2>1. MovedShape(MoveFirstTo(t, d), t, n, f, r, b, c)
      BY <1>5, <1>6, MoveFacts
    <2> QED BY <2>1, Zenon DEF MovedShape
  <1>9. (f \o <<n>>) \o r = f \o (<<n>> \o r)
    <2>1. <<n>> \in Seq(Nat)
      OBVIOUS
    <2> QED BY <2>1, ConcatAssociative
  <1> QED BY <1>2, <1>3, <1>4, <1>6, <1>7, <1>8, <1>9, Zenon DEF IsSplit

---------------------------------------------------------------------------
(* What the reduce-scatters add up.                                        *)

\* The sum of some tensors, one of each member.
LEMMA SumFacts ==
    ASSUME call \in Calls, NEW T, DOMAIN T = Member, IsTensor(T[0])
    PROVE  /\ IsTensor(SumOf(T)) /\ SumOf(T).shape = T[0].shape
           /\ \A p \in 1..Numel(T[0].shape) : SumOf(T).data[p] = {T[m].data[p] : m \in Member}
  <1>0. PICK h \in Seq(Nat) : h = T[0].shape
    BY DEF IsTensor
  <1>1. PICK a : h = T[0].shape /\ a = T[0].data /\ T[0] = [shape |-> h, data |-> a]
    BY <1>0 DEF IsTensor
  <1>2. a = [p \in 1..Numel(h) |-> a[p]]
    BY <1>1, Zenon DEF IsTensor
  <1>3. PICK D : D = [p \in 1..Numel(h) |-> {T[m].data[p] : m \in Member}]
    OBVIOUS
  <1>4. DOMAIN a = 1..Numel(h)
    BY <1>2
  <1>5. SumOf(T) = [shape |-> h, data |-> D]
    <2>1. SumOf(T) = [T[0] EXCEPT !.data = [p \in DOMAIN T[0].data |-> {T[m].data[p] : m \in Member}]]
      BY Zenon DEF SumOf
    <2>2. SumOf(T) = [T[0] EXCEPT !.data = D]
      BY <1>1, <1>3, <1>4, <2>1, Zenon
    <2> QED BY <1>1, <2>2
  <1>6. SumOf(T).shape = h /\ SumOf(T).data = D
    BY <1>5
  <1>7. IsTensor(SumOf(T))
    BY <1>3, <1>5, <1>6 DEF IsTensor
  <1>8. \A p \in 1..Numel(h) : D[p] = {T[m].data[p] : m \in Member}
    BY <1>3
  <1> QED BY <1>1, <1>6, <1>7, <1>8, Zenon

\* The terms of the sum at a place.
Terms(p) == {<<m, p>> : m \in Member}

\* No two places have the same.
LEMMA TermsDiffer ==
    ASSUME call \in Calls, NEW p, NEW q, Terms(p) = Terms(q)
    PROVE  p = q
  <1>1. 0 \in Member
    BY CallFacts
  <1>2. <<0, p>> \in Terms(q)
    BY <1>1, Zenon DEF Terms
  <1>3. PICK m \in Member : <<0, p>> = <<m, q>>
    BY <1>2, Zenon DEF Terms
  <1> QED BY <1>3

\* The sum of what the members hand in.
Whole == SumOf([k \in Member |-> Input(k)])

\* It tells its places apart.
LEMMA WholeFacts ==
    ASSUME call \in Calls, call.op # "all_gatherv"
    PROVE  /\ IsTensor(Whole) /\ Whole.shape = call.shape
           /\ \A p \in 1..Numel(call.shape) : Whole.data[p] = Terms(p)
  <1>1. PICK T : T = [k \in Member |-> Input(k)]
    OBVIOUS
  <1>2. DOMAIN T = Member /\ \A m \in Member : T[m] = Input(m)
    BY <1>1
  <1>3. 0 \in Member
    BY CallFacts
  <1>4. \A m \in Member : IsTensor(Input(m)) /\ Input(m).shape = call.shape
    BY InputFacts, Zenon
  <1>5. IsTensor(T[0]) /\ T[0].shape = call.shape
    BY <1>2, <1>3, <1>4, Zenon
  <1>6. /\ IsTensor(SumOf(T)) /\ SumOf(T).shape = call.shape
        /\ \A p \in 1..Numel(call.shape) : SumOf(T).data[p] = {T[m].data[p] : m \in Member}
    BY <1>2, <1>5, SumFacts, Zenon
  <1>7. ASSUME NEW p \in 1..Numel(call.shape) PROVE {T[m].data[p] : m \in Member} = Terms(p)
    <2>1. ASSUME NEW m \in Member PROVE T[m].data[p] = <<m, p>>
      <3>1. p \in 1..Numel(ShapeOf(m))
        BY InputFacts, Zenon
      <3> QED BY <1>2, <3>1, InputFacts, Zenon
    <2> QED BY <2>1, Zenon DEF Terms
  <1> QED BY <1>1, <1>6, <1>7, Zenon DEF Whole

\* The first dimension and those that it is to be moved over.
LEMMA MovesExist ==
    ASSUME NEW s \in Seq(Nat), NEW d \in 0..Len(s) - 1
    PROVE  \E n \in Nat, f \in Seq(Nat), r \in Seq(Nat) : MovesOver(s, n, f, r) /\ Len(f) = d
  <1>1. s # <<>> /\ Len(s) \in Nat
    BY EmptySeq
  <1>2. PICK n \in Nat, w \in Seq(Nat) : n = Head(s) /\ w = Tail(s) /\ s = <<n>> \o w
                                        /\ Len(w) = Len(s) - 1
    <2>1. Head(s) \in Nat /\ s = <<Head(s)>> \o Tail(s)
      BY <1>1, HeadAndTail
    <2>2. Tail(s) \in Seq(Nat) /\ Len(Tail(s)) = Len(s) - 1
      BY <1>1, HeadTailProperties
    <2> QED BY <2>1, <2>2, Zenon
  <1>3. d \in 0..Len(w)
    BY <1>1, <1>2
  <1>4. PICK f \in Seq(Nat), r \in Seq(Nat) : w = f \o r /\ Len(f) = d
    <2>1. Leading(w, d) \in Seq(Nat) /\ Trailing(w, d) \in Seq(Nat) /\ Len(Leading(w, d)) = d
      BY <1>3, SplitShape
    <2>2. w = Leading(w, d) \o Trailing(w, d)
      BY <1>3, SplitShape, Zenon
    <2> QED BY <2>1, <2>2, Zenon
  <1> QED BY <1>2, <1>4, Zenon DEF MovesOver

\* Those of the members' tensors.
LEMMA FirstAndDim ==
    ASSUME call \in Calls, DimInRange
    PROVE  \E n \in Nat, f \in Seq(Nat), r \in Seq(Nat) :
                MovesOver(call.shape, n, f, r) /\ Len(f) = Dim
  <1>1. call.shape \in Seq(Nat) /\ Dim \in 0..Len(call.shape) - 1
    BY CallFacts, DimFacts, Zenon
  <1> QED BY <1>1, MovesExist, Zenon

\* The sum of what has been moved is the sum, moved.
LEMMA MovedSum ==
    ASSUME call \in Calls, call.op # "all_gatherv", DimInRange
    PROVE  SumOf(Moved) = MoveFirstTo(Whole, Dim) /\ Moved[0].shape = SumOf(Moved).shape
  <1>1. PICK n \in Nat, f \in Seq(Nat), r \in Seq(Nat) :
            MovesOver(call.shape, n, f, r) /\ Len(f) = Dim
    BY FirstAndDim
  <1>2. PICK b \in Nat, c \in Nat : b = Numel(f) /\ c = Numel(r)
    BY NumelJoin, Zenon
  <1>3. PICK T : T = Moved
    OBVIOUS
  <1>4. DOMAIN T = Member /\ \A m \in Member : T[m] = MoveFirstTo(Input(m), Dim)
    BY <1>3 DEF Moved
  <1>5. \A m \in Member : MovesOver(Input(m).shape, n, f, r)
    BY <1>1, InputFacts, Zenon
  <1>6. ASSUME NEW m \in Member
        PROVE  /\ Numel(Input(m).shape) = n * b * c
               /\ IsBlock(T[m], b, n, c) /\ IsSplit(T[m].shape, f, n, r)
               /\ IsMoved(T[m], Input(m), n, b, c)
    <2>1. PICK t : t = Input(m) /\ MovesOver(t.shape, n, f, r)
      BY <1>5, Zenon
    <2>2. /\ Numel(t.shape) = n * Numel(f) * Numel(r)
          /\ IsBlock(MoveFirstTo(t, Len(f)), Numel(f), n, Numel(r))
          /\ IsSplit(MoveFirstTo(t, Len(f)).shape, f, n, r)
          /\ IsMoved(MoveFirstTo(t, Len(f)), t, n, Numel(f), Numel(r))
      BY <2>1, MoveOver, Zenon
    <2>3. T[m] = MoveFirstTo(t, Len(f))
      BY <1>1, <1>4, <2>1, Zenon
    <2> QED BY <1>2, <2>1, <2>2, <2>3, Zenon
  <1>7. 0 \in Member
    BY CallFacts
  <1>8. PICK W : W = MoveFirstTo(Whole, Dim)
    OBVIOUS
  <1>9. /\ IsBlock(W, b, n, c) /\ IsSplit(W.shape, f, n, r)
        /\ IsMoved(W, Whole, n, b, c)
    <2>1. MovesOver(Whole.shape, n, f, r)
      BY <1>1, WholeFacts, Zenon
    <2> QED BY <1>1, <1>2, <1>8, <2>1, MoveOver, Zenon
  <1>10. PICK V : V = SumOf(T)
    OBVIOUS
  <1>11. /\ IsTensor(V) /\ V.shape = T[0].shape
         /\ \A p \in 1..Numel(T[0].shape) : V.data[p] = {T[m].data[p] : m \in Member}
    <2>1. IsTensor(T[0])
      BY <1>6, <1>7, Zenon DEF IsBlock
    <2>2. DOMAIN T = Member
      BY <1>4, Zenon
    <2> QED BY <1>10, <2>1, <2>2, SumFacts, Zenon
  <1>12. V.shape = W.shape
    BY <1>6, <1>7, <1>9, <1>11, Zenon DEF IsSplit
  <1>13. IsBlock(V, b, n, c) /\ Numel(T[0].shape) = b * n * c
    BY <1>6, <1>7, <1>11, Zenon DEF IsBlock
  <1>14. ASSUME NEW i \in 0..b - 1, NEW j \in 0..n - 1, NEW k \in 0..c - 1
         PROVE  ElementAt(V, i, j, k, n, c) = ElementAt(W, i, j, k, n, c)
    <2>1. Place(i, j, k, n, c) \in 1..b * n * c
      BY PlaceFacts
    <2>2. Place(j, i, k, b, c) \in 1..n * b * c
      BY PlaceFacts
    <2>3. ASSUME NEW m \in Member
          PROVE  T[m].data[Place(i, j, k, n, c)] = <<m, Place(j, i, k, b, c)>>
      <3>1. IsMoved(T[m], Input(m), n, b, c) /\ Numel(Input(m).shape) = n * b * c
        BY <1>6
      <3>2. T[m].data[Place(i, j, k, n, c)] = Input(m).data[Place(j, i, k, b, c)]
        BY <3>1, Zenon DEF IsMoved, ElementAt
      <3>3. Place(j, i, k, b, c) \in 1..Numel(ShapeOf(m))
        <4>1. Input(m).shape = ShapeOf(m)
          BY InputFacts
        <4> QED BY <2>2, <3>1, <4>1, Zenon
      <3>4. Input(m).data[Place(j, i, k, b, c)] = <<m, Place(j, i, k, b, c)>>
        BY <3>3, InputFacts, Zenon
      <3> QED BY <3>2, <3>4, Zenon
    <2>4. V.data[Place(i, j, k, n, c)] = {T[m].data[Place(i, j, k, n, c)] : m \in Member}
      BY <1>11, <1>13, <2>1, Zenon
    <2>5. V.data[Place(i, j, k, n, c)] = Terms(Place(j, i, k, b, c))
      BY <2>3, <2>4, Zenon DEF Terms
    <2>6. W.data[Place(i, j, k, n, c)] = Whole.data[Place(j, i, k, b, c)]
      BY <1>9, Zenon DEF IsMoved, ElementAt
    <2>7. Whole.data[Place(j, i, k, b, c)] = Terms(Place(j, i, k, b, c))
      <3>1. Numel(call.shape) = n * b * c
        BY <1>6, <1>7, InputFacts, Zenon
      <3> QED BY <2>2, <3>1, WholeFacts, Zenon
    <2> QED BY <2>5, <2>6, <2>7, Zenon DEF ElementAt
  <1>15. V = W
    <2>1. SameAt(V, W, b, n, c)
      BY <1>14, Zenon DEF SameAt
    <2>2. IsTensor(W)
      BY <1>9, Zenon DEF IsBlock
    <2> QED BY <1>12, <1>13, <2>1, <2>2, SameByPlace
  <1> QED BY <1>3, <1>8, <1>10, <1>11, <1>15, Zenon

---------------------------------------------------------------------------
(* The shares, for the first two dimensions.                               *)

\* Nowhere to move to.
LEMMA MoveNowhere ==
    ASSUME NEW t, IsTensor(t), t.shape # <<>>
    PROVE  MoveFirstTo(t, 0) = t
  <1>1. PICK s \in Seq(Nat) : s = t.shape /\ s # <<>>
    BY DEF IsTensor
  <1>2. PICK n \in Nat, w \in Seq(Nat) : s = <<n>> \o w
    <2>1. Head(s) \in Nat /\ s = <<Head(s)>> \o Tail(s)
      BY <1>1, HeadAndTail
    <2>2. Tail(s) \in Seq(Nat)
      BY <1>1, HeadTailProperties
    <2> QED BY <2>1, <2>2, Zenon
  <1>3. PICK f \in Seq(Nat) : f = <<>> /\ Len(f) = 0 /\ Numel(f) = 1
    <2>1. <<>> \in Seq(Nat) /\ Len(<<>>) = 0
      OBVIOUS
    <2> QED BY <2>1, NumelSmall, Zenon
  <1>4. PICK c \in Nat : c = Numel(w)
    BY NumelJoin, Zenon
  <1>5. PICK z \in Seq(Nat) : z = <<n>> \o w
    BY HeadTailOfJoin
  <1>6. f \o w = w /\ f \o z = z
    BY <1>3, ConcatEmptySeq
  <1>7. PICK M : M = MoveFirstTo(t, 0)
    OBVIOUS
  <1>8. IsBlock(M, 1, n, c) /\ M.shape = s /\ IsMoved(M, t, n, 1, c)
    <2>1. MovesOver(t.shape, n, f, w)
      BY <1>1, <1>2, <1>6, Zenon DEF MovesOver
    <2>2. /\ IsBlock(MoveFirstTo(t, Len(f)), Numel(f), n, Numel(w))
          /\ IsSplit(MoveFirstTo(t, Len(f)).shape, f, n, w)
          /\ IsMoved(MoveFirstTo(t, Len(f)), t, n, Numel(f), Numel(w))
      BY <2>1, MoveOver, Zenon
    <2>3. IsBlock(M, 1, n, c) /\ IsSplit(M.shape, f, n, w) /\ IsMoved(M, t, n, 1, c)
      BY <1>3, <1>4, <1>7, <2>2, Zenon
    <2>4. M.shape = f \o z
      BY <1>5, <2>3, Zenon DEF IsSplit
    <2> QED BY <1>2, <1>5, <1>6, <2>3, <2>4, Zenon
  <1>9. ASSUME NEW i \in 0..1 - 1, NEW j \in 0..n - 1, NEW k \in 0..c - 1
        PROVE  ElementAt(M, i, j, k, n, c) = ElementAt(t, i, j, k, n, c)
    <2>1. i = 0
      OBVIOUS
    <2>2. ElementAt(M, i, j, k, n, c) = ElementAt(t, j, i, k, 1, c)
      BY <1>8 DEF IsMoved
    <2>3. j * 1 + 0 = j /\ 0 * n + j = j
      OBVIOUS
    <2>4. Place(j, 0, k, 1, c) = Place(0, j, k, n, c)
      BY <2>3, Zenon DEF Place
    <2> QED BY <2>1, <2>2, <2>4, Zenon DEF ElementAt
  <1>10. SameAt(M, t, 1, n, c)
    BY <1>9, Zenon DEF SameAt
  <1>11. M = t
    <2>1. 1 \in Nat
      OBVIOUS
    <2> QED BY <1>1, <1>8, <1>10, <2>1, SameByPlace, Zenon
  <1> QED BY <1>7, <1>11

\* Of the row u, the place of the element (i, k).
InRow(u, i, k, e, n, c) == Place(0, u, i * c + k, e, n * c) = Place(u, i, k, n, c)

\* It is that of the element (u, i, k).
LEMMA PlaceInRow ==
    ASSUME NEW u \in Nat, NEW i \in Nat, NEW k \in Nat, NEW e \in Nat, NEW n \in Nat, NEW c \in Nat
    PROVE  InRow(u, i, k, e, n, c)
  <1>1. PICK y \in Nat, z \in Nat, g \in Nat : y = u * n /\ z = i * c /\ g = y * c
    <2>1. u * n \in Nat /\ i * c \in Nat /\ (u * n) * c \in Nat
      BY Times
    <2> QED BY <2>1
  <1>2. u * (n * c) = g
    <2>1. (u * n) * c = u * (n * c)
      BY Regroup
    <2> QED BY <1>1, <2>1, Zenon
  <1>3. (u * n + i) * c = g + z
    <2>1. (y + i) * c = y * c + i * c
      BY Regroup
    <2> QED BY <1>1, <2>1, Zenon
  <1>4. 0 * e + u = u
    OBVIOUS
  <1>5. Place(0, u, i * c + k, e, n * c) = g + (z + k) + 1
    BY <1>1, <1>2, <1>4, Zenon DEF Place
  <1>6. Place(u, i, k, n, c) = g + z + k + 1
    BY <1>3, Zenon DEF Place
  <1>7. g + (z + k) + 1 = g + z + k + 1
    OBVIOUS
  <1> QED BY <1>5, <1>6, <1>7, Zenon DEF InRow

\* Nothing in front of the first dimension.
LEMMA SplitFirst ==
    ASSUME NEW x \in Nat, NEW v \in Seq(Nat)
    PROVE  /\ <<>> \in Seq(Nat) /\ Len(<<>>) = 0 /\ Numel(<<>>) = 1
           /\ \A s : IsSplit(s, <<>>, x, v) <=> s = <<x>> \o v
  <1>1. PICK f \in Seq(Nat) : f = <<>> /\ Len(f) = 0 /\ Numel(f) = 1
    <2>1. <<>> \in Seq(Nat) /\ Len(<<>>) = 0
      OBVIOUS
    <2> QED BY <2>1, NumelSmall, Zenon
  <1>2. PICK z \in Seq(Nat) : z = <<x>> \o v
    BY HeadTailOfJoin
  <1>3. f \o z = z
    BY <1>1, ConcatEmptySeq
  <1> QED BY <1>1, <1>2, <1>3, Zenon DEF IsSplit

\* A portion of a tensor whose shape is split at that dimension.
LEMMA SplitPortion ==
    ASSUME NEW t, NEW u \in Seq(Nat), NEW x \in Nat, NEW v \in Seq(Nat), IsSplit(t.shape, u, x, v),
           NEW from \in Nat, NEW len \in Nat
    PROVE  /\ IsBlock(Portion(t, Len(u), from, len), Numel(u), len, Numel(v))
           /\ IsSplit(Portion(t, Len(u), from, len).shape, u, len, v)
           /\ IsPortion(Portion(t, Len(u), from, len), t, from, len, Numel(u), x, Numel(v))
  <1>1. PICK s \in Seq(Nat) : s = t.shape /\ Len(u) \in 0..Len(s) - 1
                             /\ Blocks(s, Len(u), Numel(u), x, Numel(v))
                             /\ \A y \in Nat : IsSplit(WithLength(s, Len(u), y), u, y, v)
    BY SplitBlocks, Zenon
  <1>2. PICK d \in Nat, a \in Nat, c \in Nat : d = Len(u) /\ a = Numel(u) /\ c = Numel(v)
    <2>1. Numel(u) \in Nat /\ Numel(v) \in Nat
      BY NumelJoin, Zenon
    <2>2. Len(u) \in Nat
      OBVIOUS
    <2> QED BY <2>1, <2>2
  <1>3. t.shape \in Seq(Nat) /\ d \in 0..Len(t.shape) - 1 /\ Blocks(t.shape, d, a, x, c)
    BY <1>1, <1>2, Zenon
  <1>4. /\ IsBlock(Portion(t, d, from, len), a, len, c)
        /\ Portion(t, d, from, len).shape = WithLength(t.shape, d, len)
        /\ IsPortion(Portion(t, d, from, len), t, from, len, a, x, c)
    BY <1>3, PortionFacts
  <1>5. IsSplit(Portion(t, d, from, len).shape, u, len, v)
    BY <1>1, <1>2, <1>4, Zenon
  <1> QED BY <1>2, <1>4, <1>5, Zenon

\* A share of the columns, taken by way of the rows.
LEMMA MoveThereAndBack ==
    ASSUME NEW t, NEW n \in Nat, NEW b \in Nat, NEW r \in Seq(Nat),
           MovesOver(t.shape, n, <<b>>, r),
           NEW from \in Nat, NEW len \in Nat, from + len <= b
    PROVE  MoveFirstTo(Portion(MoveFirstTo(t, 1), 0, from, len), 1) = Portion(t, 1, from, len)
  <1>1. PICK f \in Seq(Nat), g \in Seq(Nat), e \in Seq(Nat), c \in Nat :
            /\ f = <<b>> /\ Len(f) = 1 /\ Numel(f) = b
            /\ g = <<n>> /\ Len(g) = 1 /\ Numel(g) = n
            /\ e = <<>> /\ Len(e) = 0 /\ Numel(e) = 1 /\ c = Numel(r)
    <2>1. <<b>> \in Seq(Nat) /\ Len(<<b>>) = 1 /\ <<n>> \in Seq(Nat) /\ Len(<<n>>) = 1
          /\ <<>> \in Seq(Nat) /\ Len(<<>>) = 0
      OBVIOUS
    <2>2. Numel(r) \in Nat
      BY NumelJoin, Zenon
    <2> QED BY <2>1, <2>2, NumelSmall, Zenon
  <1>2. PICK q \in Seq(Nat), h \in Nat : q = g \o r /\ h = Numel(q) /\ h = n * c
    <2>1. g \o r \in Seq(Nat)
      BY ConcatProperties
    <2>2. Numel(g \o r) = Numel(g) * Numel(r)
      BY NumelJoin
    <2>3. n * c \in Nat
      BY Times
    <2> QED BY <1>1, <2>1, <2>2, <2>3, Zenon
  <1>3. PICK M : M = MoveFirstTo(t, 1)
    OBVIOUS
  <1>4. IsSplit(M.shape, f, n, r) /\ IsMoved(M, t, n, b, c)
    <2>1. MovesOver(t.shape, n, f, r)
      BY <1>1, Zenon
    <2>2. /\ IsSplit(MoveFirstTo(t, Len(f)).shape, f, n, r)
          /\ IsMoved(MoveFirstTo(t, Len(f)), t, n, Numel(f), Numel(r))
      BY <2>1, MoveOver, Zenon
    <2> QED BY <1>1, <1>3, <2>2, Zenon
  <1>5. IsSplit(M.shape, e, b, q)
    <2>1. M.shape = <<b>> \o q
      BY <1>1, <1>2, <1>4, Zenon DEF IsSplit
    <2> QED BY <1>1, <2>1, SplitFirst, Zenon
  <1>6. PICK P : P = Portion(M, 0, from, len)
    OBVIOUS
  <1>7. IsSplit(P.shape, e, len, q) /\ IsPortion(P, M, from, len, 1, b, h)
    <2>1. /\ IsSplit(Portion(M, Len(e), from, len).shape, e, len, q)
          /\ IsPortion(Portion(M, Len(e), from, len), M, from, len, Numel(e), b, Numel(q))
      BY <1>5, SplitPortion, Zenon
    <2> QED BY <1>1, <1>2, <1>6, <2>1, Zenon
  <1>8. MovesOver(P.shape, len, g, r)
    <2>1. P.shape = <<len>> \o q
      BY <1>1, <1>7, SplitFirst, Zenon
    <2> QED BY <1>2, <2>1, Zenon DEF MovesOver
  <1>9. PICK Y : Y = MoveFirstTo(P, 1)
    OBVIOUS
  <1>10. IsBlock(Y, n, len, c) /\ IsSplit(Y.shape, g, len, r) /\ IsMoved(Y, P, len, n, c)
    <2>1. /\ IsBlock(MoveFirstTo(P, Len(g)), Numel(g), len, Numel(r))
          /\ IsSplit(MoveFirstTo(P, Len(g)).shape, g, len, r)
          /\ IsMoved(MoveFirstTo(P, Len(g)), P, len, Numel(g), Numel(r))
      BY <1>8, MoveOver, Zenon
    <2> QED BY <1>1, <1>9, <2>1, Zenon
  <1>11. PICK Z : Z = Portion(t, 1, from, len)
    OBVIOUS
  <1>12. IsTensor(Z) /\ IsSplit(Z.shape, g, len, r) /\ IsPortion(Z, t, from, len, n, b, c)
    <2>1. IsSplit(t.shape, g, b, r)
      BY <1>1, Zenon DEF MovesOver, IsSplit
    <2>2. /\ IsBlock(Portion(t, Len(g), from, len), Numel(g), len, Numel(r))
          /\ IsSplit(Portion(t, Len(g), from, len).shape, g, len, r)
          /\ IsPortion(Portion(t, Len(g), from, len), t, from, len, Numel(g), b, Numel(r))
      BY <2>1, SplitPortion, Zenon
    <2> QED BY <1>1, <1>11, <2>2, Zenon DEF IsBlock
  <1>13. ASSUME NEW i \in 0..n - 1, NEW j \in 0..len - 1, NEW k \in 0..c - 1
         PROVE  ElementAt(Y, i, j, k, len, c) = ElementAt(Z, i, j, k, len, c)
    <2>1. i \in Nat /\ j \in Nat /\ k \in Nat /\ 0 \in 0..1 - 1
      OBVIOUS
    <2>2. PICK u \in Nat : u = from + j /\ u \in 0..b - 1
      <3>1. from + j \in Nat /\ from + j \in 0..b - 1
        BY <2>1
      <3> QED BY <3>1
    <2>3. PICK v \in Nat : v = i * c + k /\ v \in 0..h - 1
      <3>1. i * c + k \in 0..n * c - 1 /\ i * c + k \in Nat
        BY BlockFits
      <3> QED BY <1>2, <3>1, Zenon
    <2>4. ElementAt(Y, i, j, k, len, c) = P.data[Place(j, i, k, n, c)]
      BY <1>10, Zenon DEF IsMoved, ElementAt
    <2>5. Place(0, j, v, len, h) = Place(j, i, k, n, c)
      <3>1. InRow(j, i, k, len, n, c)
        BY <2>1, PlaceInRow
      <3> QED BY <1>2, <2>3, <3>1, Zenon DEF InRow
    <2>6. P.data[Place(0, j, v, len, h)] = M.data[Place(0, u, v, b, h)]
      <3>1. ElementAt(P, 0, j, v, len, h) = ElementAt(M, 0, from + j, v, b, h)
        BY <1>7, <2>1, <2>3, Zenon DEF IsPortion
      <3> QED BY <2>2, <3>1, Zenon DEF ElementAt
    <2>7. Place(0, u, v, b, h) = Place(u, i, k, n, c)
      <3>1. InRow(u, i, k, b, n, c)
        BY <2>1, PlaceInRow
      <3> QED BY <1>2, <2>3, <3>1, Zenon DEF InRow
    <2>8. M.data[Place(u, i, k, n, c)] = t.data[Place(i, u, k, b, c)]
      BY <1>4, <2>2, Zenon DEF IsMoved, ElementAt
    <2>9. ElementAt(Z, i, j, k, len, c) = t.data[Place(i, u, k, b, c)]
      BY <1>12, <2>2, Zenon DEF IsPortion, ElementAt
    <2> QED BY <2>4, <2>5, <2>6, <2>7, <2>8, <2>9, Zenon
  <1>14. Y = Z
    <2>1. SameAt(Y, Z, n, len, c)
      BY <1>13, Zenon DEF SameAt
    <2>2. Y.shape = Z.shape
      BY <1>10, <1>12, Zenon DEF IsSplit
    <2> QED BY <1>10, <1>12, <2>1, <2>2, SameByPlace
  <1> QED BY <1>3, <1>6, <1>9, <1>11, <1>14, Zenon

---------------------------------------------------------------------------
(* The sizes of the shares.                                                *)

\* n numbers that make S.
AreShares(z, n, S) == z \in [1..n -> Nat] /\ Before(z, n) = S

\* Each of them is within S.
LEMMA ShareWithin ==
    ASSUME NEW n \in Nat, NEW z, NEW S, AreShares(z, n, S), NEW m \in 0..n - 1
    PROVE  /\ Before(z, m) \in Nat /\ z[m + 1] \in Nat /\ S \in Nat
           /\ Before(z, m) + z[m + 1] <= S
  <1>1. z \in [1..n -> Nat] /\ Before(z, n) = S
    BY DEF AreShares
  <1>2. m \in 0..n /\ m + 1 \in 0..n /\ m + 1 \in 1..n /\ n \in m + 1..n /\ n \in 0..n
    OBVIOUS
  <1>3. Before(z, m) \in Nat /\ Before(z, n) \in Nat
    BY <1>1, <1>2, BeforeStep, Zenon
  <1>4. Before(z, m + 1) = Before(z, m) + z[m + 1]
    BY <1>1, BeforeStep, Zenon
  <1>5. Before(z, m + 1) <= Before(z, n)
    BY <1>1, <1>2, BeforeGrows
  <1>6. z[m + 1] \in Nat
    BY <1>1, <1>2
  <1> QED BY <1>1, <1>3, <1>4, <1>5, <1>6, Zenon

\* If there are two of them, and none is zero, each is less than S.
LEMMA ShareSmaller ==
    ASSUME NEW n \in Nat, n > 1, NEW z, NEW S, AreShares(z, n, S), NEW m \in 0..n - 1,
           \A k \in 0..n - 1 : z[k + 1] > 0
    PROVE  z[m + 1] < S
  <1>1. PICK k \in 0..n - 1 : k # m
    <2>1. 0 \in 0..n - 1 /\ 1 \in 0..n - 1
      OBVIOUS
    <2> QED BY <2>1
  <1>2. z \in [1..n -> Nat] /\ Before(z, n) = S
    BY DEF AreShares
  <1>3. PICK x \in Nat, y \in Nat : x = z[m + 1] /\ y = z[k + 1] /\ y > 0
    <2>1. m + 1 \in 1..n /\ k + 1 \in 1..n
      OBVIOUS
    <2>2. z[m + 1] \in Nat /\ z[k + 1] \in Nat /\ z[k + 1] > 0
      BY <1>2, <2>1
    <2> QED BY <2>2
  <1>4. PICK bm \in Nat, bk \in Nat, e \in Nat :
            bm = Before(z, m) /\ bk = Before(z, k) /\ e = S /\ bm + x <= e /\ bk + y <= e
    <2>1. Before(z, m) \in Nat /\ S \in Nat /\ Before(z, m) + z[m + 1] <= S
      BY ShareWithin
    <2>2. Before(z, k) \in Nat /\ Before(z, k) + z[k + 1] <= S
      BY ShareWithin
    <2> QED BY <1>3, <2>1, <2>2, Zenon
  <1>5. CASE k < m
    <2>1. m \in k + 1..n /\ k + 1 \in 0..n
      BY <1>5
    <2>2. Before(z, k + 1) <= Before(z, m)
      BY <1>2, <2>1, BeforeGrows
    <2>3. Before(z, k + 1) = Before(z, k) + z[k + 1]
      BY <1>2, BeforeStep, Zenon
    <2>4. bk + y <= bm
      BY <1>3, <1>4, <2>2, <2>3, Zenon
    <2>5. x < e
      BY <1>3, <1>4, <2>4
    <2> QED BY <1>3, <1>4, <2>5, Zenon
  <1>6. CASE m < k
    <2>1. k \in m + 1..n /\ m + 1 \in 0..n
      BY <1>6
    <2>2. Before(z, m + 1) <= Before(z, k)
      BY <1>2, <2>1, BeforeGrows
    <2>3. Before(z, m + 1) = Before(z, m) + z[m + 1]
      BY <1>2, BeforeStep, Zenon
    <2>4. bm + x <= bk
      BY <1>3, <1>4, <2>2, <2>3, Zenon
    <2>5. x < e
      BY <1>3, <1>4, <2>4
    <2> QED BY <1>3, <1>4, <2>5, Zenon
  <1>7. k < m \/ m < k
    BY <1>1
  <1> QED BY <1>5, <1>6, <1>7, Zenon

\* Equal shares of what can be divided.
LEMMA EvenShares ==
    ASSUME call \in Calls, NEW S \in Nat, S % call.n = 0
    PROVE  /\ AreShares(EvenSizes(S), call.n, S)
           /\ S = call.n * (S \div call.n) /\ S \div call.n \in Nat
           /\ \A i \in 1..call.n : EvenSizes(S)[i] = S \div call.n
  <1>1. PICK n \in Nat : n = call.n /\ n > 0
    BY CallFacts, Zenon
  <1>2. PICK x \in Nat : x = S \div n /\ S = n * x
    <2>1. S = (S \div n) * n + (S % n) /\ S \div n \in Nat
      BY <1>1, Division
    <2>2. S % n = 0
      BY <1>1, Zenon
    <2>3. PICK x \in Nat : x = S \div n
      BY <2>1
    <2>4. S = x * n
      <3>1. x * n \in Nat
        BY Times
      <3>2. S = x * n + 0
        BY <2>1, <2>2, <2>3, Zenon
      <3> QED BY <3>1, <3>2
    <2>5. x * n = n * x
      BY Times
    <2> QED BY <2>3, <2>4, <2>5, Zenon
  <1>3. EvenSizes(S) = [i \in 1..n |-> x]
    BY <1>1, <1>2, Zenon DEF EvenSizes
  <1>4. Before([i \in 1..n |-> x], n) = n * x
    <2>1. n \in 0..n
      OBVIOUS
    <2> QED BY <2>1, BeforeMultiples
  <1>5. [i \in 1..n |-> x] \in [1..n -> Nat] /\ \A i \in 1..n : [j \in 1..n |-> x][i] = x
    OBVIOUS
  <1> QED BY <1>1, <1>2, <1>3, <1>4, <1>5, Zenon DEF AreShares

---------------------------------------------------------------------------
(* What a reduce-scatter returns.                                          *)

\* However a tensor is moved, it stays one.
LEMMA MoveIsTensor ==
    ASSUME NEW t, t.shape \in Seq(Nat), NEW d \in 0..Len(t.shape) - 1
    PROVE  /\ IsTensor(MoveFirstTo(t, d)) /\ MoveFirstTo(t, d).shape # <<>>
           /\ Len(MoveFirstTo(t, d).shape) = Len(t.shape)
  <1>1. PICK n \in Nat, f \in Seq(Nat), r \in Seq(Nat) : MovesOver(t.shape, n, f, r) /\ Len(f) = d
    BY MovesExist
  <1>2. PICK M : M = MoveFirstTo(t, d)
    OBVIOUS
  <1>3. Len(t.shape) = 1 + Len(f) + Len(r)
    BY <1>1, MoveOver, Zenon
  <1>4. IsTensor(M) /\ IsSplit(M.shape, f, n, r)
    <2>1. IsBlock(MoveFirstTo(t, Len(f)), Numel(f), n, Numel(r))
      BY <1>1, MoveOver, Zenon
    <2>2. IsSplit(MoveFirstTo(t, Len(f)).shape, f, n, r)
      BY <1>1, MoveOver, Zenon
    <2> QED BY <1>1, <1>2, <2>1, <2>2, Zenon DEF IsBlock
  <1>5. M.shape # <<>> /\ Len(M.shape) = Len(f) + Len(r) + 1
    BY <1>4, SplitBlocks
  <1>6. Len(f) + Len(r) + 1 = 1 + Len(f) + Len(r)
    OBVIOUS
  <1> QED BY <1>2, <1>3, <1>4, <1>5, <1>6, Zenon

\* The rows that are scattered.
LEMMA RowsFacts ==
    ASSUME call \in Calls, call.op # "all_gatherv", DimInRange
    PROVE  /\ IsTensor(SumOf(Moved)) /\ SumOf(Moved).shape # <<>>
           /\ Len(SumOf(Moved).shape) = Rank
           /\ Rows = SumOf(Moved).shape[1] /\ Rows \in Nat
  <1>1. PICK V : V = SumOf(Moved)
    OBVIOUS
  <1>2. IsTensor(V) /\ V.shape # <<>> /\ Len(V.shape) = Rank
    <2>1. Whole.shape \in Seq(Nat) /\ Dim \in 0..Len(Whole.shape) - 1 /\ Len(Whole.shape) = Rank
      BY CallFacts, WholeFacts, DimFacts, Zenon DEF Rank
    <2>2. /\ IsTensor(MoveFirstTo(Whole, Dim)) /\ MoveFirstTo(Whole, Dim).shape # <<>>
          /\ Len(MoveFirstTo(Whole, Dim).shape) = Len(Whole.shape)
      BY <2>1, MoveIsTensor, Zenon
    <2> QED BY <1>1, <2>1, <2>2, MovedSum, Zenon
  <1>3. Rows = V.shape[1]
    BY <1>1, MovedSum, Zenon DEF Rows
  <1>4. V.shape[1] \in Nat
    <2>1. PICK h \in Seq(Nat) : h = V.shape /\ h # <<>>
      BY <1>2 DEF IsTensor
    <2>2. h[1] \in Nat
      BY <2>1, EmptySeq
    <2> QED BY <2>1, <2>2
  <1> QED BY <1>1, <1>2, <1>3, <1>4, Zenon

\* Rows of a tensor are a tensor.
LEMMA RowsOfTensor ==
    ASSUME NEW t, t.shape \in Seq(Nat), t.shape # <<>>, NEW from \in Nat, NEW len \in Nat
    PROVE  /\ IsTensor(Portion(t, 0, from, len)) /\ Portion(t, 0, from, len).shape # <<>>
           /\ Portion(t, 0, from, len).shape \in Seq(Nat)
           /\ Len(Portion(t, 0, from, len).shape) = Len(t.shape)
  <1>1. PICK h \in Seq(Nat) : h = t.shape /\ h # <<>>
    OBVIOUS
  <1>2. PICK x \in Nat, v \in Seq(Nat) : h = <<x>> \o v
    <2>1. Head(h) \in Nat /\ h = <<Head(h)>> \o Tail(h)
      BY <1>1, HeadAndTail
    <2>2. Tail(h) \in Seq(Nat)
      BY <1>1, HeadTailProperties
    <2> QED BY <2>1, <2>2, Zenon
  <1>3. PICK e \in Seq(Nat) : e = <<>> /\ Len(e) = 0
    BY SplitFirst, Zenon
  <1>4. IsSplit(h, e, x, v)
    BY <1>2, <1>3, SplitFirst, Zenon
  <1>5. PICK P : P = Portion(t, 0, from, len)
    OBVIOUS
  <1>6. IsTensor(P) /\ IsSplit(P.shape, e, len, v)
    <2>1. IsSplit(t.shape, e, x, v)
      BY <1>1, <1>4, Zenon
    <2>2. /\ IsBlock(Portion(t, Len(e), from, len), Numel(e), len, Numel(v))
          /\ IsSplit(Portion(t, Len(e), from, len).shape, e, len, v)
      BY <2>1, SplitPortion, Zenon
    <2> QED BY <1>3, <1>5, <2>2, Zenon DEF IsBlock
  <1>7. P.shape \in Seq(Nat) /\ P.shape # <<>> /\ Len(P.shape) = Len(e) + Len(v) + 1
    BY <1>6, SplitBlocks, Zenon
  <1>8. Len(h) = Len(e) + Len(v) + 1
    BY <1>4, SplitBlocks, Zenon
  <1> QED BY <1>1, <1>5, <1>6, <1>7, <1>8, Zenon

\* A share, as it is returned.
Returns(from, len) == MoveFirstTo(Portion(SumOf(Moved), 0, from, len), Dim)

\* It is a tensor.
LEMMA ReturnsTensor ==
    ASSUME call \in Calls, call.op # "all_gatherv", DimInRange, NEW from \in Nat, NEW len \in Nat
    PROVE  IsTensor(Returns(from, len))
  <1>1. PICK V : V = SumOf(Moved)
    OBVIOUS
  <1>2. PICK h \in Seq(Nat) : h = V.shape /\ h # <<>> /\ Len(h) = Rank
    <2>1. V.shape \in Seq(Nat) /\ V.shape # <<>> /\ Len(V.shape) = Rank
      BY <1>1, RowsFacts, Zenon DEF IsTensor
    <2> QED BY <2>1, Zenon
  <1>3. PICK P : P = Portion(V, 0, from, len)
    OBVIOUS
  <1>4. P.shape \in Seq(Nat) /\ Len(P.shape) = Rank
    <2>1. V.shape \in Seq(Nat) /\ V.shape # <<>> /\ Len(V.shape) = Rank
      BY <1>2, Zenon
    <2> QED BY <1>3, <2>1, RowsOfTensor, Zenon
  <1>5. Dim \in 0..Len(P.shape) - 1
    BY <1>4, DimFacts, Zenon DEF Rank
  <1>6. IsTensor(MoveFirstTo(P, Dim))
    BY <1>4, <1>5, MoveIsTensor, Zenon
  <1> QED BY <1>1, <1>3, <1>6, Zenon DEF Returns

\* For the first two dimensions it is what it ought to be.
LEMMA ReturnsFirstTwo ==
    ASSUME call \in Calls, call.op # "all_gatherv", DimInRange, Dim <= 1
    PROVE  /\ Rows = call.shape[Dim + 1]
           /\ \A from \in Nat, len \in Nat :
                from + len <= Rows => Returns(from, len) = Portion(Whole, Dim, from, len)
  <1>1. PICK t : t = Whole
    OBVIOUS
  <1>2. IsTensor(t) /\ t.shape = call.shape /\ call.shape # <<>> /\ Dim \in Nat
    BY <1>1, WholeFacts, DimFacts, Zenon
  <1>3. Dim = 0 \/ Dim = 1
    BY <1>2
  <1>4. PICK V : V = SumOf(Moved) /\ V = MoveFirstTo(t, Dim) /\ Rows = V.shape[1] /\ Rows \in Nat
    BY <1>1, MovedSum, RowsFacts, Zenon
  <1>5. CASE Dim = 0
    <2>1. V = t
      BY <1>2, <1>4, <1>5, MoveNowhere, Zenon
    <2>2. Rows = call.shape[Dim + 1]
      <3>1. 0 + 1 = 1
        OBVIOUS
      <3> QED BY <1>2, <1>4, <1>5, <2>1, <3>1, Zenon
    <2>3. ASSUME NEW from \in Nat, NEW len \in Nat
          PROVE  Returns(from, len) = Portion(Whole, Dim, from, len)
      <3>1. PICK P : P = Portion(t, 0, from, len)
        OBVIOUS
      <3>2. IsTensor(P) /\ P.shape # <<>>
        <4>1. t.shape \in Seq(Nat) /\ t.shape # <<>>
          BY <1>2, CallFacts, Zenon
        <4> QED BY <3>1, <4>1, RowsOfTensor, Zenon
      <3>7. MoveFirstTo(P, 0) = P
        BY <3>2, MoveNowhere
      <3> QED BY <1>1, <1>4, <1>5, <2>1, <3>1, <3>7, Zenon DEF Returns
    <2> QED BY <2>2, <2>3
  <1>6. CASE Dim = 1
    <2>1. PICK n \in Nat, f \in Seq(Nat), r \in Seq(Nat) : MovesOver(call.shape, n, f, r) /\ Len(f) = 1
      BY <1>6, FirstAndDim, Zenon
    <2>2. PICK b \in Nat : f = <<b>>
      <3>1. f # <<>>
        <4>1. Len(f) # 0
          BY <2>1
        <4> QED BY <4>1, EmptySeq
      <3>2. Head(f) \in Nat /\ f = <<Head(f)>> \o Tail(f)
        BY <3>1, HeadAndTail
      <3>3. Tail(f) \in Seq(Nat) /\ Len(Tail(f)) = 0
        BY <2>1, <3>1, HeadTailProperties
      <3>4. Tail(f) = <<>>
        BY <3>3, EmptySeq
      <3>5. <<Head(f)>> \in Seq(Nat)
        BY <3>2
      <3>6. <<Head(f)>> \o <<>> = <<Head(f)>>
        BY <3>5, ConcatEmptySeq
      <3> QED BY <3>2, <3>4, <3>6, Zenon
    <2>3. MovesOver(t.shape, n, <<b>>, r)
      BY <1>2, <2>1, <2>2, Zenon
    <2>4. Rows = b /\ call.shape[2] = b
      <3>1. IsSplit(V.shape, f, n, r)
        <4>1. IsSplit(MoveFirstTo(t, Len(f)).shape, f, n, r)
          BY <2>2, <2>3, MoveOver, Zenon
        <4> QED BY <1>4, <1>6, <2>1, <4>1, Zenon
      <3>2. PICK z \in Seq(Nat) : z = <<n>> \o r
        BY HeadTailOfJoin
      <3>3. IsSplit(V.shape, <<>>, b, z)
        <4>1. V.shape = <<b>> \o z
          BY <2>2, <3>1, <3>2, Zenon DEF IsSplit
        <4> QED BY <4>1, SplitFirst, Zenon
      <3>4. V.shape[Len(<<>>) + 1] = b
        BY <3>3, SplitFirst, SplitBlocks, Zenon
      <3>5. Len(<<>>) + 1 = 1
        OBVIOUS
      <3>6. PICK g \in Seq(Nat) : g = <<n>> /\ Len(g) + 1 = 2
        <4>1. <<n>> \in Seq(Nat) /\ Len(<<n>>) + 1 = 2
          OBVIOUS
        <4> QED BY <4>1
      <3>7. IsSplit(call.shape, g, b, r)
        BY <2>1, <2>2, <3>6, Zenon DEF IsSplit, MovesOver
      <3>8. call.shape[Len(g) + 1] = b
        BY <3>7, SplitBlocks, Zenon
      <3> QED BY <1>4, <3>4, <3>5, <3>6, <3>8, Zenon
    <2>5. ASSUME NEW from \in Nat, NEW len \in Nat, from + len <= Rows
          PROVE  Returns(from, len) = Portion(Whole, Dim, from, len)
      <3>1. from + len <= b
        BY <2>4, <2>5, Zenon
      <3>2. MoveFirstTo(Portion(MoveFirstTo(t, 1), 0, from, len), 1) = Portion(t, 1, from, len)
        BY <2>3, <3>1, MoveThereAndBack
      <3> QED BY <1>1, <1>4, <1>6, <3>2, Zenon DEF Returns
    <2>6. Rows = call.shape[Dim + 1]
      <3>1. 1 + 1 = 2
        OBVIOUS
      <3> QED BY <1>6, <2>4, <3>1, Zenon
    <2> QED BY <2>5, <2>6
  <1> QED BY <1>3, <1>5, <1>6, Zenon

---------------------------------------------------------------------------
(* The shares, beyond the first two dimensions: the ends of what is        *)
(* returned come from elsewhere.                                           *)

\* The first and the last of a row of c.
EndsAt(i, j, b, c) ==
    Place(i, j, 0, b, c) = (i * b + j) * c + 1 /\ Place(i, j, c - 1, b, c) = (i * b + j + 1) * c

\* Where they are.
LEMMA PlaceEnds ==
    ASSUME NEW i \in Nat, NEW j \in Nat, NEW b \in Nat, NEW c \in Nat
    PROVE  EndsAt(i, j, b, c)
  <1>1. PICK y \in Nat : y = i * b + j
    <2>1. i * b \in Nat
      BY Times
    <2> QED BY <2>1
  <1>2. PICK z \in Nat : z = y * c
    BY Times
  <1>3. (y + 1) * c = z + c
    <2>1. (y + 1) * c = y * c + 1 * c /\ 1 * c = c
      BY Regroup
    <2> QED BY <1>2, <2>1, Zenon
  <1>4. Place(i, j, 0, b, c) = z + 0 + 1 /\ Place(i, j, c - 1, b, c) = z + (c - 1) + 1
    BY <1>1, <1>2, Zenon DEF Place
  <1>5. z + 0 + 1 = z + 1 /\ z + (c - 1) + 1 = z + c
    OBVIOUS
  <1> QED BY <1>1, <1>2, <1>3, <1>4, <1>5, Zenon DEF EndsAt

\* Rows i of what has been moved: the first and the last element of n rows.
MovedEnds(w, t, i, n, b, c) ==
    /\ i * c + 1 \in 1..n * b * c /\ ((n - 1) * b + (i + 1)) * c \in 1..n * b * c
    /\ w.data[(i * n) * c + 1] = t.data[i * c + 1]
    /\ w.data[((i + 1) * n) * c] = t.data[((n - 1) * b + (i + 1)) * c]

\* Where they come from.
LEMMA EndsOfMove ==
    ASSUME NEW w, NEW t, NEW n \in Nat, NEW b \in Nat, NEW c \in Nat, IsMoved(w, t, n, b, c),
           n > 0, c > 0, NEW i \in 0..b - 1
    PROVE  MovedEnds(w, t, i, n, b, c)
  <1>1. i \in Nat /\ 0 \in 0..n - 1 /\ n - 1 \in 0..n - 1 /\ 0 \in 0..c - 1 /\ c - 1 \in 0..c - 1
        /\ 0 \in Nat /\ n - 1 \in Nat
    OBVIOUS
  <1>2. PICK e \in Nat : e = n - 1 /\ e \in 0..n - 1
    BY <1>1
  <1>3. /\ w.data[Place(i, 0, 0, n, c)] = t.data[Place(0, i, 0, b, c)]
        /\ w.data[Place(i, e, c - 1, n, c)] = t.data[Place(e, i, c - 1, b, c)]
    BY <1>1, <1>2, Zenon DEF IsMoved, ElementAt
  <1>4. EndsAt(i, 0, n, c) /\ EndsAt(0, i, b, c) /\ EndsAt(i, e, n, c) /\ EndsAt(e, i, b, c)
    BY <1>1, PlaceEnds
  <1>5. PICK y \in Nat, z \in Nat : y = i * n /\ z = e * b
    BY <1>1, Times
  <1>6. y + 0 = y /\ 0 * b + i = i /\ z + i + 1 = z + (i + 1)
    BY <1>1
  <1>7. y + e + 1 = (i + 1) * n
    <2>1. (i + 1) * n = i * n + 1 * n /\ 1 * n = n
      BY <1>1, Regroup
    <2>2. y + e + 1 = y + n
      BY <1>2
    <2> QED BY <1>5, <2>1, <2>2, Zenon
  <1>8. w.data[y * c + 1] = t.data[i * c + 1]
    BY <1>3, <1>4, <1>5, <1>6, Zenon DEF EndsAt
  <1>10. Place(0, i, 0, b, c) \in 1..n * b * c
    BY <1>1, PlaceFacts
  <1>11. Place(e, i, c - 1, b, c) \in 1..n * b * c
    BY <1>1, <1>2, PlaceFacts
  <1>12. i * c + 1 \in 1..n * b * c /\ (z + (i + 1)) * c \in 1..n * b * c
    BY <1>4, <1>5, <1>6, <1>10, <1>11, Zenon DEF EndsAt
  <1>9. w.data[((i + 1) * n) * c] = t.data[(z + (i + 1)) * c]
    BY <1>3, <1>4, <1>5, <1>6, <1>7, Zenon DEF EndsAt
  <1> QED BY <1>2, <1>5, <1>8, <1>9, <1>12, Zenon DEF MovedEnds

\* The first and the last element of a portion.
PortionEnds(w, t, from, len, a, b, c) ==
    /\ from * c + 1 \in 1..a * b * c /\ ((a - 1) * b + (from + len)) * c \in 1..a * b * c
    /\ w.data[1] = t.data[from * c + 1]
    /\ w.data[(a * len) * c] = t.data[((a - 1) * b + (from + len)) * c]

\* Where they come from.
LEMMA EndsOfPortion ==
    ASSUME NEW w, NEW t, NEW from \in Nat, NEW len \in Nat, NEW a \in Nat, NEW b \in Nat,
           NEW c \in Nat, IsPortion(w, t, from, len, a, b, c), len > 0, a > 0, c > 0,
           from + len <= b
    PROVE  PortionEnds(w, t, from, len, a, b, c)
  <1>1. 0 \in 0..a - 1 /\ 0 \in 0..len - 1 /\ 0 \in 0..c - 1 /\ c - 1 \in 0..c - 1 /\ 0 \in Nat
    OBVIOUS
  <1>2. PICK h \in Nat, e \in Nat, g \in Nat :
            /\ h = a - 1 /\ h \in 0..a - 1 /\ e = len - 1 /\ e \in 0..len - 1
            /\ g = from + e /\ g + 1 = from + len
    <2>1. /\ a - 1 \in Nat /\ len - 1 \in Nat /\ a - 1 \in 0..a - 1 /\ len - 1 \in 0..len - 1
          /\ from + (len - 1) \in Nat /\ from + (len - 1) + 1 = from + len
      OBVIOUS
    <2> QED BY <2>1
  <1>3. /\ w.data[Place(0, 0, 0, len, c)] = t.data[Place(0, from + 0, 0, b, c)]
        /\ w.data[Place(h, e, c - 1, len, c)] = t.data[Place(h, from + e, c - 1, b, c)]
    BY <1>1, <1>2, Zenon DEF IsPortion, ElementAt
  <1>4. EndsAt(0, 0, len, c) /\ EndsAt(0, from, b, c) /\ EndsAt(h, e, len, c) /\ EndsAt(h, g, b, c)
    BY <1>1, PlaceEnds
  <1>5. (0 * len + 0) * c + 1 = 1 /\ 0 * b + from = from /\ from + 0 = from
    OBVIOUS
  <1>6. h * len + e + 1 = a * len
    <2>1. PICK y \in Nat : y = h * len
      BY Times
    <2>2. a * len = h * len + 1 * len
      <3>1. a = h + 1
        BY <1>2
      <3>2. (h + 1) * len = h * len + 1 * len
        BY Regroup
      <3> QED BY <3>1, <3>2, Zenon
    <2>3. 1 * len = len /\ y + e + 1 = y + len
      BY <1>2
    <2> QED BY <2>1, <2>2, <2>3, Zenon
  <1>7. h * b + g + 1 = h * b + (from + len)
    <2>1. PICK y \in Nat : y = h * b
      BY Times
    <2>2. y + g + 1 = y + (from + len)
      BY <1>2
    <2> QED BY <2>1, <2>2, Zenon
  <1>8. w.data[1] = t.data[from * c + 1]
    BY <1>3, <1>4, <1>5, Zenon DEF EndsAt
  <1>14. from \in 0..b - 1 /\ g \in 0..b - 1
    BY <1>2
  <1>10. Place(0, from, 0, b, c) \in 1..a * b * c
    BY <1>1, <1>14, PlaceFacts
  <1>11. Place(h, g, c - 1, b, c) \in 1..a * b * c
    BY <1>1, <1>2, <1>14, PlaceFacts
  <1>12. from * c + 1 \in 1..a * b * c
    BY <1>4, <1>5, <1>10, Zenon DEF EndsAt
  <1>13. (h * b + (from + len)) * c \in 1..a * b * c
    BY <1>4, <1>7, <1>11, Zenon DEF EndsAt
  <1>9. w.data[(a * len) * c] = t.data[(h * b + (from + len)) * c]
    BY <1>2, <1>3, <1>4, <1>6, <1>7, Zenon DEF EndsAt
  <1> QED BY <1>2, <1>8, <1>9, <1>12, <1>13, Zenon DEF PortionEnds

\* A factor that is not zero.
LEMMA Cancel ==
    ASSUME NEW x \in Nat, NEW y \in Nat, NEW b \in Nat, b > 0, x * b = y * b
    PROVE  x = y
  <1>1. 0 \in 0..b - 1
    OBVIOUS
  <1>2. (x * b + 0) \div b = x /\ (y * b + 0) \div b = y
    BY <1>1, QuotientAndRest
  <1> QED BY <1>2, Zenon

\* A product of what is not zero.
LEMMA Positive ==
    ASSUME NEW a \in Nat, NEW b \in Nat
    PROVE  a * b > 0 <=> (a > 0 /\ b > 0)
  <1>1. a = 0 => a * b = 0
    OBVIOUS
  <1>2. b = 0 => a * b = 0
    OBVIOUS
  <1>3. a > 0 /\ b > 0 => a * b > 0
    OBVIOUS
  <1> QED BY <1>1, <1>2, <1>3

\* The same elements stand at the start, and at the end, of what ought to be returned and of
\* what is.
SameStart(S, G, B, from) == (from * (G * S)) * B + 1 = from * B + 1

SameEnd(x, S, G, B, from, len) ==
    ((x - 1) * (S * (G * S)) + (from + len) * (G * S)) * B =
        ((x * (S * G) - 1) * S + (from + len)) * B

\* It cannot be both.
LEMMA NotBothEnds ==
    ASSUME NEW x \in Nat, x > 0, NEW S \in Nat, NEW G \in Nat, G > 0, NEW B \in Nat, B > 0,
           NEW from \in Nat, NEW len \in Nat, len > 0, len < S,
           SameStart(S, G, B, from), SameEnd(x, S, G, B, from, len)
    PROVE  FALSE
  <1>1. PICK C \in Nat, D \in Nat, A \in Nat :
            C = G * S /\ D = S * C /\ A = x * (S * G)
    <2>1. G * S \in Nat /\ S * (G * S) \in Nat /\ S * G \in Nat
      BY Times
    <2>2. x * (S * G) \in Nat
      BY <2>1, Times
    <2> QED BY <2>1, <2>2
  <1>2. PICK u \in Nat, v \in Nat, w \in Nat, k \in Nat :
            u = from * C /\ v = len * C /\ w = x * D /\ k = (x - 1) * D /\ k = w - D
    <2>1. from * C \in Nat /\ len * C \in Nat /\ x * D \in Nat /\ x - 1 \in Nat
      BY Times
    <2>2. (x - 1) * D \in Nat
      BY <2>1, Times
    <2>3. (x - 1) * D = x * D - 1 * D /\ 1 * D = D
      BY Regroup
    <2> QED BY <2>1, <2>2, <2>3
  <1>3. A * S = w
    <2>1. (x * (S * G)) * S = x * ((S * G) * S)
      <3>1. S * G \in Int
        OBVIOUS
      <3> QED BY <3>1, Regroup
    <2>2. (S * G) * S = S * (G * S)
      BY Regroup
    <2> QED BY <1>1, <1>2, <2>1, <2>2, Zenon
  <1>4. A > 0
    <2>1. S > 0
      OBVIOUS
    <2>2. S * G > 0 /\ S * G \in Nat
      BY <2>1, Positive, Times
    <2>3. x * (S * G) > 0
      BY <2>2, Positive
    <2> QED BY <1>1, <2>3, Zenon
  <1>5. PICK q \in Nat : q = (A - 1) * S /\ q = w - S
    <2>1. A - 1 \in Nat
      BY <1>4
    <2>2. (A - 1) * S \in Nat
      BY <2>1, Times
    <2>3. (A - 1) * S = A * S - 1 * S /\ 1 * S = S
      BY Regroup
    <2> QED BY <1>3, <2>2, <2>3
  <1>6. u = from
    <2>1. u * B + 1 = from * B + 1
      BY <1>1, <1>2, Zenon DEF SameStart
    <2>2. u * B \in Nat /\ from * B \in Nat
      BY Times
    <2>3. u * B = from * B
      BY <2>1, <2>2
    <2> QED BY <2>3, Cancel
  <1>7. k + (u + v) = q + (from + len)
    <2>1. (from + len) * C = u + v
      BY <1>2, Regroup
    <2>2. (k + (u + v)) * B = (q + (from + len)) * B
      BY <1>1, <1>2, <1>5, <2>1, Zenon DEF SameEnd
    <2>3. k + (u + v) \in Nat /\ q + (from + len) \in Nat
      OBVIOUS
    <2> QED BY <2>2, <2>3, Cancel
  <1>8. D - v = S - len
    BY <1>2, <1>5, <1>6, <1>7
  <1>9. PICK y \in Nat : y = S - len /\ y > 0
    <2>1. S - len \in Nat /\ S - len > 0
      OBVIOUS
    <2> QED BY <2>1
  <1>10. y * C = 1 * y
    <2>1. (S - len) * C = S * C - len * C
      BY Regroup
    <2>2. 1 * y = y
      OBVIOUS
    <2> QED BY <1>1, <1>2, <1>8, <1>9, <2>1, <2>2, Zenon
  <1>11. C = 1
    <2>1. C * y = 1 * y
      BY <1>10, Times, Zenon
    <2>2. 1 \in Nat
      OBVIOUS
    <2> QED BY <1>9, <2>1, <2>2, Cancel
  <1>12. C >= S
    <2>1. G - 1 \in Nat
      OBVIOUS
    <2>2. (G - 1) * S \in Nat
      BY <2>1, Times
    <2>3. (G - 1) * S = G * S - 1 * S /\ 1 * S = S
      BY Regroup
    <2> QED BY <1>1, <2>2, <2>3
  <1> QED BY <1>11, <1>12

\* How many elements there are to a shape.
HasNumel(s, n) == Numel(s) = n

\* The first and the last element of what ought to be returned.
ShareEnds(from, len, A, z, B) ==
    /\ Portion(Whole, Dim, from, len).data[1] = Terms(from * B + 1)
    /\ Portion(Whole, Dim, from, len).data[(A * len) * B] =
            Terms(((A - 1) * z + (from + len)) * B)

\* And how much of it there is.
ShareFacts(from, len, A, z, B) ==
    /\ Portion(Whole, Dim, from, len).shape[Dim + 1] = len
    /\ Numel(Portion(Whole, Dim, from, len).shape) = (A * len) * B
    /\ A > 0 /\ B > 0 /\ len > 0 /\ from + len <= z => ShareEnds(from, len, A, z, B)

\* Which these are, for a shape that is split at dim.
LEMMA EndsOfShare ==
    ASSUME call \in Calls, call.op # "all_gatherv", DimInRange,
           NEW u \in Seq(Nat), NEW z \in Nat, NEW r \in Seq(Nat), IsSplit(call.shape, u, z, r),
           Len(u) = Dim, NEW A \in Nat, NEW B \in Nat, HasNumel(u, A), HasNumel(r, B),
           NEW from \in Nat, NEW len \in Nat
    PROVE  ShareFacts(from, len, A, z, B)
  <1>1. PICK t : t = Whole
    OBVIOUS
  <1>2. t.shape = call.shape /\ \A p \in 1..Numel(call.shape) : t.data[p] = Terms(p)
    BY <1>1, WholeFacts, Zenon
  <1>3. PICK P : P = Portion(t, Dim, from, len)
    OBVIOUS
  <1>4. IsBlock(P, A, len, B) /\ IsSplit(P.shape, u, len, r) /\ IsPortion(P, t, from, len, A, z, B)
    <2>1. IsSplit(t.shape, u, z, r)
      BY <1>2, Zenon
    <2>2. /\ IsBlock(Portion(t, Len(u), from, len), Numel(u), len, Numel(r))
          /\ IsSplit(Portion(t, Len(u), from, len).shape, u, len, r)
          /\ IsPortion(Portion(t, Len(u), from, len), t, from, len, Numel(u), z, Numel(r))
      BY <2>1, SplitPortion, Zenon
    <2> QED BY <1>3, <2>2, Zenon DEF HasNumel
  <1>5. P.shape[Dim + 1] = len
    BY <1>4, SplitBlocks, Zenon
  <1>7. Numel(P.shape) = (A * len) * B
    BY <1>4, Zenon DEF IsBlock
  <1>8. Numel(call.shape) = A * z * B
    <2>1. PICK s \in Seq(Nat) : s = call.shape /\ Len(u) \in 0..Len(s) - 1
                               /\ Blocks(s, Len(u), Numel(u), z, Numel(r))
      BY SplitBlocks, Zenon
    <2>5. Len(u) \in Nat
      OBVIOUS
    <2>2. PICK d \in Nat : d = Len(u) /\ Blocks(s, d, A, z, B)
      BY <2>1, <2>5, Zenon DEF HasNumel
    <2>3. d \in 0..Len(s) - 1
      BY <2>1, <2>2, Zenon
    <2>4. Numel(s) = A * z * B
      <3>1. Blocks(s, d, A, z, B)
        BY <2>2
      <3> QED BY <2>3, <3>1, BlocksTotal
    <2> QED BY <2>1, <2>4, Zenon
  <1>9. ASSUME A > 0, B > 0, len > 0, from + len <= z
        PROVE  ShareEnds(from, len, A, z, B)
    <2>1. PortionEnds(P, t, from, len, A, z, B)
      BY <1>4, <1>9, EndsOfPortion
    <2> QED BY <1>1, <1>2, <1>3, <1>8, <2>1, Zenon DEF PortionEnds, ShareEnds
  <1> QED BY <1>1, <1>3, <1>5, <1>7, <1>9, Zenon DEF ShareFacts

\* The first and the last element of what is returned.
ReturnedEnds(from, len, x, y, C, B) ==
    /\ Returns(from, len).data[1] = Terms((from * C) * B + 1)
    /\ Returns(from, len).data[((C * x) * len) * B] =
            Terms(((x - 1) * (y * C) + (from + len) * C) * B)

\* And its rows.
ReturnedFacts(from, len, x, y, C, B) ==
    /\ Rows = y
    /\ Returns(from, len).shape[Dim + 1] = len
    /\ x > 0 /\ C > 0 /\ B > 0 /\ len > 0 /\ from + len <= y =>
            ReturnedEnds(from, len, x, y, C, B)

\* Which these are, for a shape of x, y, some more and the rest.
LEMMA EndsOfReturns ==
    ASSUME call \in Calls, call.op # "all_gatherv", DimInRange,
           NEW x \in Nat, NEW y \in Nat, NEW k \in Seq(Nat), NEW r \in Seq(Nat),
           MovesOver(call.shape, x, <<y>> \o k, r), Len(k) + 1 = Dim,
           NEW C \in Nat, NEW B \in Nat, HasNumel(k, C), HasNumel(r, B),
           NEW from \in Nat, NEW len \in Nat
    PROVE  ReturnedFacts(from, len, x, y, C, B)
  <1>1. PICK t : t = Whole
    OBVIOUS
  <1>2. t.shape = call.shape /\ \A p \in 1..Numel(call.shape) : t.data[p] = Terms(p)
    BY <1>1, WholeFacts, Zenon
  <1>3. PICK o \in Seq(Nat), p \in Seq(Nat), e \in Seq(Nat), l \in Seq(Nat) :
            /\ o = <<x>> /\ Len(o) = 1 /\ Numel(o) = x /\ p = <<y>> /\ Len(p) = 1 /\ Numel(p) = y
            /\ e = <<>> /\ Len(e) = 0 /\ Numel(e) = 1 /\ l = <<len>>
    <2>1. <<x>> \in Seq(Nat) /\ Len(<<x>>) = 1 /\ <<y>> \in Seq(Nat) /\ Len(<<y>>) = 1
          /\ <<len>> \in Seq(Nat) /\ <<>> \in Seq(Nat) /\ Len(<<>>) = 0
      OBVIOUS
    <2> QED BY <2>1, NumelSmall, Zenon
  <1>4. PICK F \in Nat, E \in Nat, X \in Nat : F = y * C /\ E = C * x /\ X = E * B
    <2>1. y * C \in Nat /\ C * x \in Nat
      BY Times
    <2>2. (C * x) * B \in Nat
      BY <2>1, Times
    <2> QED BY <2>1, <2>2
  <1>5. PICK f \in Seq(Nat) : f = p \o k /\ Len(f) = Dim /\ Numel(f) = F
    <2>1. p \o k \in Seq(Nat) /\ Len(p \o k) = Len(p) + Len(k)
      BY ConcatProperties
    <2>2. Numel(p \o k) = Numel(p) * Numel(k)
      BY NumelJoin
    <2>3. Numel(p \o k) = F
      BY <1>3, <1>4, <2>2, Zenon DEF HasNumel
    <2>4. Len(p \o k) = Dim
      BY <1>3, <2>1
    <2> QED BY <2>1, <2>3, <2>4, Zenon
  <1>6. PICK g \in Seq(Nat) : g = k \o o /\ Len(g) = Dim /\ Numel(g) = E
    <2>1. k \o o \in Seq(Nat) /\ Len(k \o o) = Len(k) + Len(o)
      BY ConcatProperties
    <2>2. Numel(k \o o) = Numel(k) * Numel(o)
      BY NumelJoin
    <2>3. Numel(k \o o) = E
      BY <1>3, <1>4, <2>2, Zenon DEF HasNumel
    <2>4. Len(k \o o) = Dim
      BY <1>3, <2>1
    <2> QED BY <2>1, <2>3, <2>4, Zenon
  <1>7. PICK q \in Seq(Nat) : q = g \o r /\ Numel(q) = X
    <2>1. g \o r \in Seq(Nat)
      BY ConcatProperties
    <2>2. Numel(g \o r) = Numel(g) * Numel(r)
      BY NumelJoin
    <2>3. Numel(g \o r) = X
      BY <1>4, <1>6, <2>2, Zenon DEF HasNumel
    <2> QED BY <2>1, <2>3, Zenon
  <1>8. f \o (o \o r) = p \o q
    <2>1. PICK w \in Seq(Nat) : w = o \o r
      BY ConcatProperties
    <2>2. Grouped(p, k, w) /\ Grouped(k, o, r)
      BY JoinGrouping
    <2> QED BY <1>5, <1>6, <1>7, <2>1, <2>2, Zenon DEF Grouped
  <1>9. PICK V : V = SumOf(Moved) /\ V = MoveFirstTo(t, Dim) /\ Rows = V.shape[1]
    BY <1>1, MovedSum, RowsFacts, Zenon
  <1>10. /\ IsSplit(V.shape, f, x, r) /\ IsMoved(V, t, x, F, B)
         /\ Numel(t.shape) = x * F * B
    <2>1. MovesOver(t.shape, x, f, r)
      BY <1>2, <1>3, <1>5, Zenon
    <2>2. /\ IsSplit(MoveFirstTo(t, Len(f)).shape, f, x, r)
          /\ IsMoved(MoveFirstTo(t, Len(f)), t, x, Numel(f), Numel(r))
      BY <2>1, MoveOver, Zenon
    <2>3. Numel(t.shape) = x * Numel(f) * Numel(r)
      BY <2>1, MoveOver
    <2> QED BY <1>5, <1>9, <2>2, <2>3, Zenon DEF HasNumel
  <1>11. IsSplit(V.shape, e, y, q)
    <2>1. V.shape = <<y>> \o q
      BY <1>3, <1>8, <1>10, Zenon DEF IsSplit
    <2> QED BY <1>3, <2>1, SplitFirst, Zenon
  <1>12. Rows = y
    <2>1. V.shape[Len(e) + 1] = y
      BY <1>11, SplitBlocks, Zenon
    <2>2. 0 + 1 = 1
      OBVIOUS
    <2> QED BY <1>3, <1>9, <2>1, <2>2, Zenon
  <1>13. PICK P : P = Portion(V, 0, from, len)
    OBVIOUS
  <1>14. IsSplit(P.shape, e, len, q) /\ IsPortion(P, V, from, len, 1, y, X)
    <2>1. /\ IsSplit(Portion(V, Len(e), from, len).shape, e, len, q)
          /\ IsPortion(Portion(V, Len(e), from, len), V, from, len, Numel(e), y, Numel(q))
      BY <1>11, SplitPortion, Zenon
    <2> QED BY <1>3, <1>7, <1>13, <2>1, Zenon
  <1>15. MovesOver(P.shape, len, g, r)
    <2>1. P.shape = <<len>> \o q
      BY <1>3, <1>14, SplitFirst, Zenon
    <2> QED BY <1>7, <2>1, Zenon DEF MovesOver
  <1>16. PICK Y : Y = MoveFirstTo(P, Dim) /\ Y = Returns(from, len)
    BY <1>9, <1>13, Zenon DEF Returns
  <1>17. IsSplit(Y.shape, g, len, r) /\ IsMoved(Y, P, len, E, B)
    <2>1. /\ IsSplit(MoveFirstTo(P, Len(g)).shape, g, len, r)
          /\ IsMoved(MoveFirstTo(P, Len(g)), P, len, Numel(g), Numel(r))
      BY <1>15, MoveOver, Zenon
    <2> QED BY <1>6, <1>16, <2>1, Zenon DEF HasNumel
  <1>18. Y.shape[Dim + 1] = len
    BY <1>6, <1>17, SplitBlocks, Zenon
  <1>19. ASSUME x > 0, C > 0, B > 0, len > 0, from + len <= y
         PROVE  ReturnedEnds(from, len, x, y, C, B)
    <2>1. E > 0 /\ X > 0
      <3>1. E > 0
        BY <1>4, <1>19, Positive
      <3>2. X > 0
        BY <1>4, <1>19, <3>1, Positive
      <3> QED BY <3>1, <3>2
    \* From V to P.
    <2>2. P.data[1] = V.data[from * X + 1] /\ P.data[len * X] = V.data[(from + len) * X]
      <3>1. ASSUME NEW one \in Nat, one > 0, IsPortion(P, V, from, len, one, y, X)
            PROVE  PortionEnds(P, V, from, len, one, y, X)
        BY <1>19, <2>1, <3>1, EndsOfPortion
      <3>2. 1 \in Nat /\ 1 > 0 /\ 1 * len = len /\ (1 - 1) * y + (from + len) = from + len
        OBVIOUS
      <3>3. PortionEnds(P, V, from, len, 1, y, X)
        BY <1>14, <3>1, <3>2, Zenon
      <3> QED BY <3>2, <3>3, Zenon DEF PortionEnds
    \* From P to Y.
    <2>3. Y.data[1] = P.data[1] /\ Y.data[(E * len) * B] = P.data[len * X]
      <3>1. 0 \in 0..E - 1
        BY <2>1
      <3>2. MovedEnds(Y, P, 0, len, E, B)
        BY <1>17, <1>19, <3>1, EndsOfMove
      <3>3. PICK i \in Nat : i = E - 1 /\ i \in 0..E - 1 /\ i + 1 = E
        BY <2>1
      <3>4. MovedEnds(Y, P, i, len, E, B)
        BY <1>17, <1>19, <3>3, EndsOfMove
      <3>5. (0 * len) * B + 1 = 1 /\ 0 * B + 1 = 1
        OBVIOUS
      <3>6. ((len - 1) * E + E) * B = len * X
        <4>1. PICK j \in Nat : j = len - 1 /\ j + 1 = len
          BY <1>19
        <4>2. (j + 1) * E = j * E + 1 * E /\ 1 * E = E
          BY Regroup
        <4>3. (len * E) * B = len * (E * B)
          BY Regroup
        <4> QED BY <1>4, <4>1, <4>2, <4>3, Zenon
      <3>7. Y.data[1] = P.data[1]
        BY <3>2, <3>5, Zenon DEF MovedEnds
      <3>8. Y.data[(E * len) * B] = P.data[len * X]
        BY <3>3, <3>4, <3>6, Zenon DEF MovedEnds
      <3> QED BY <3>7, <3>8
    \* From the sum to V.
    <2>4. PICK a \in Nat, b \in Nat : a = from * C /\ b = (from + len) * C /\ a < F /\ b <= F /\ b > 0
      <3>1. from * C \in Nat /\ from + len \in Nat /\ from + len > 0 /\ y - (from + len) \in Nat
            /\ y - from \in Nat /\ y - from > 0
        BY <1>19, Times
      <3>2. (from + len) * C \in Nat /\ (from + len) * C > 0
        BY <1>19, <3>1, Times, Positive
      <3>3. (y - (from + len)) * C \in Nat /\ (y - from) * C \in Nat /\ (y - from) * C > 0
        BY <1>19, <3>1, Times, Positive
      <3>4. (y - (from + len)) * C = y * C - (from + len) * C
        BY <3>1, Regroup
      <3>5. (y - from) * C = y * C - from * C
        BY Regroup
      <3> QED BY <1>4, <3>1, <3>2, <3>3, <3>4, <3>5
    <2>7. a < F /\ b <= F /\ b > 0
      BY <2>4, Zenon
    <2>5. V.data[from * X + 1] = Terms(a * B + 1)
      <3>1. a \in 0..F - 1
        BY <2>7
      <3>2. MovedEnds(V, t, a, x, F, B)
        BY <1>10, <1>19, <3>1, EndsOfMove
      <3>3. (a * x) * B = from * X
        <4>1. (from * C) * x = from * (C * x)
          BY Regroup
        <4>2. (from * E) * B = from * (E * B)
          BY Regroup
        <4> QED BY <1>4, <2>4, <4>1, <4>2, Zenon
      <3> QED BY <1>2, <1>10, <3>2, <3>3, Zenon DEF MovedEnds
    <2>6. V.data[(from + len) * X] = Terms(((x - 1) * F + b) * B)
      <3>1. PICK i \in Nat : i = b - 1 /\ i \in 0..F - 1 /\ i + 1 = b
        <4>1. b - 1 \in Nat /\ b - 1 \in 0..F - 1 /\ (b - 1) + 1 = b
          BY <2>7
        <4> QED BY <4>1
      <3>2. MovedEnds(V, t, i, x, F, B)
        BY <1>10, <1>19, <3>1, EndsOfMove
      <3>3. (b * x) * B = (from + len) * X
        <4>1. PICK j \in Nat : j = from + len
          OBVIOUS
        <4>2. (j * C) * x = j * (C * x)
          BY Regroup
        <4>3. (j * E) * B = j * (E * B)
          BY Regroup
        <4> QED BY <1>4, <2>4, <4>1, <4>2, <4>3, Zenon
      <3> QED BY <1>2, <1>10, <3>1, <3>2, <3>3, Zenon DEF MovedEnds
    <2> QED BY <1>4, <1>16, <2>2, <2>3, <2>4, <2>5, <2>6, Zenon DEF ReturnedEnds
  <1> QED BY <1>12, <1>16, <1>18, <1>19, Zenon DEF ReturnedFacts

\* A shape of at least three dimensions, up to the last of which something is to be moved.
LEMMA ManyParts ==
    ASSUME NEW s \in Seq(Nat), NEW d \in 0..Len(s) - 1, d > 1
    PROVE  \E x \in Nat, y \in Nat, g \in Seq(Nat), z \in Nat, r \in Seq(Nat) :
                /\ IsSplit(s, <<x>> \o (<<y>> \o g), z, r) /\ z = s[d + 1]
                /\ MovesOver(s, x, <<y>> \o (g \o <<z>>), r)
                /\ Len(g) + 2 = d
  <1>1. PICK u \in Seq(Nat), z \in Nat, r \in Seq(Nat) :
            IsSplit(s, u, z, r) /\ Len(u) = d /\ z = s[d + 1]
    BY SplitExists
  <1>2. PICK x \in Nat, v \in Seq(Nat) : u = <<x>> \o v /\ Len(v) + 1 = d
    <2>1. u # <<>>
      <3>1. Len(u) # 0
        BY <1>1
      <3> QED BY <3>1, EmptySeq
    <2>2. Head(u) \in Nat /\ u = <<Head(u)>> \o Tail(u)
      BY <2>1, HeadAndTail
    <2>3. Tail(u) \in Seq(Nat) /\ Len(Tail(u)) = Len(u) - 1
      BY <2>1, HeadTailProperties
    <2>4. Len(Tail(u)) + 1 = d
      BY <1>1, <2>3
    <2> QED BY <2>2, <2>3, <2>4, Zenon
  <1>3. PICK y \in Nat, g \in Seq(Nat) : v = <<y>> \o g /\ Len(g) + 2 = d
    <2>1. v # <<>>
      <3>1. Len(v) # 0
        BY <1>2
      <3> QED BY <3>1, EmptySeq
    <2>2. Head(v) \in Nat /\ v = <<Head(v)>> \o Tail(v)
      BY <2>1, HeadAndTail
    <2>3. Tail(v) \in Seq(Nat) /\ Len(Tail(v)) = Len(v) - 1
      BY <2>1, HeadTailProperties
    <2>4. Len(Tail(v)) + 2 = d
      BY <1>2, <2>3
    <2> QED BY <2>2, <2>3, <2>4, Zenon
  <1>4. PICK o \in Seq(Nat), p \in Seq(Nat), q \in Seq(Nat) : o = <<x>> /\ p = <<y>> /\ q = <<z>>
    <2>1. <<x>> \in Seq(Nat) /\ <<y>> \in Seq(Nat) /\ <<z>> \in Seq(Nat)
      OBVIOUS
    <2> QED BY <2>1, Zenon
  <1>5. PICK w \in Seq(Nat) : w = q \o r
    BY ConcatProperties
  <1>6. Grouped(o, v, w) /\ Grouped(v, q, r) /\ Grouped(p, g, q)
    BY JoinGrouping
  <1>7. s = o \o (v \o w)
    BY <1>1, <1>2, <1>4, <1>5, <1>6, Zenon DEF IsSplit, Grouped
  <1>8. v \o w = (p \o (g \o q)) \o r
    BY <1>3, <1>4, <1>5, <1>6, Zenon DEF Grouped
  <1>9. MovesOver(s, x, <<y>> \o (g \o <<z>>), r)
    BY <1>4, <1>7, <1>8, Zenon DEF MovesOver
  <1> QED BY <1>1, <1>2, <1>3, <1>9, Zenon

\* Beyond the first two dimensions, what is returned is never the share.
LEMMA BeyondFirstTwo ==
    ASSUME call \in Calls, call.op # "all_gatherv", DimInRange, Dim > 1
    PROVE  /\ \A from \in Nat, len \in Nat, from2 \in Nat, len2 \in Nat :
                Returns(from, len) = Portion(Whole, Dim, from2, len2) => len = len2
           /\ Rows = call.shape[Dim + 1] =>
                \A from \in Nat, len \in Nat :
                    /\ from + len <= Rows /\ len < Rows
                    /\ Numel(Portion(Whole, Dim, from, len).shape) > 0
                    => Returns(from, len) # Portion(Whole, Dim, from, len)
  <1>1. PICK s \in Seq(Nat) : s = call.shape /\ Dim \in 0..Len(s) - 1
    BY CallFacts, DimFacts, Zenon
  <1>2. PICK x \in Nat, y \in Nat, g \in Seq(Nat), z \in Nat, r \in Seq(Nat) :
            /\ IsSplit(s, <<x>> \o (<<y>> \o g), z, r) /\ z = s[Dim + 1]
            /\ MovesOver(s, x, <<y>> \o (g \o <<z>>), r)
            /\ Len(g) + 2 = Dim
    BY <1>1, ManyParts
  <1>3. PICK o \in Seq(Nat), p \in Seq(Nat), q \in Seq(Nat) :
            /\ o = <<x>> /\ Len(o) = 1 /\ Numel(o) = x /\ p = <<y>> /\ Len(p) = 1 /\ Numel(p) = y
            /\ q = <<z>> /\ Len(q) = 1 /\ Numel(q) = z
    <2>1. <<x>> \in Seq(Nat) /\ Len(<<x>>) = 1 /\ <<y>> \in Seq(Nat) /\ Len(<<y>>) = 1
          /\ <<z>> \in Seq(Nat) /\ Len(<<z>>) = 1
      OBVIOUS
    <2> QED BY <2>1, NumelSmall, Zenon
  <1>4. PICK G \in Nat, B \in Nat : G = Numel(g) /\ B = Numel(r)
    BY NumelJoin, Zenon
  <1>5. PICK C \in Nat, A \in Nat : C = G * z /\ A = x * (y * G)
    <2>1. G * z \in Nat /\ y * G \in Nat
      BY Times
    <2>2. x * (y * G) \in Nat
      BY <2>1, Times
    <2> QED BY <2>1, <2>2
  <1>6. PICK k \in Seq(Nat) : k = g \o q /\ Len(k) + 1 = Dim /\ HasNumel(k, C)
    <2>1. g \o q \in Seq(Nat) /\ Len(g \o q) = Len(g) + Len(q)
      BY ConcatProperties
    <2>2. Numel(g \o q) = Numel(g) * Numel(q)
      BY NumelJoin
    <2>3. Len(g \o q) + 1 = Dim
      BY <1>2, <1>3, <2>1
    <2> QED BY <1>3, <1>4, <1>5, <2>1, <2>2, <2>3, Zenon DEF HasNumel
  <1>7. PICK v \in Seq(Nat) : v = p \o g /\ Len(v) + 1 = Dim /\ Numel(v) = y * G
    <2>1. p \o g \in Seq(Nat) /\ Len(p \o g) = Len(p) + Len(g)
      BY ConcatProperties
    <2>2. Numel(p \o g) = Numel(p) * Numel(g)
      BY NumelJoin
    <2>3. Len(p \o g) + 1 = Dim
      BY <1>2, <1>3, <2>1
    <2> QED BY <1>3, <1>4, <2>1, <2>2, <2>3, Zenon
  <1>8. PICK u \in Seq(Nat) : u = o \o v /\ Len(u) = Dim /\ HasNumel(u, A)
    <2>1. o \o v \in Seq(Nat) /\ Len(o \o v) = Len(o) + Len(v)
      BY ConcatProperties
    <2>2. Numel(o \o v) = Numel(o) * Numel(v)
      BY NumelJoin
    <2>3. Len(o \o v) = Dim
      BY <1>3, <1>7, <2>1
    <2> QED BY <1>3, <1>5, <1>7, <2>1, <2>2, <2>3, Zenon DEF HasNumel
  <1>9. IsSplit(call.shape, u, z, r) /\ MovesOver(call.shape, x, <<y>> \o k, r) /\ HasNumel(r, B)
    BY <1>1, <1>2, <1>3, <1>4, <1>6, <1>7, <1>8, Zenon DEF HasNumel
  <1>10. ASSUME NEW from \in Nat, NEW len \in Nat
         PROVE  /\ Rows = y /\ Returns(from, len).shape[Dim + 1] = len
                /\ x > 0 /\ C > 0 /\ B > 0 /\ len > 0 /\ from + len <= y =>
                        ReturnedEnds(from, len, x, y, C, B)
    <2>1. ReturnedFacts(from, len, x, y, C, B)
      BY <1>6, <1>9, EndsOfReturns, Zenon
    <2> QED BY <2>1, Zenon DEF ReturnedFacts
  <1>11. ASSUME NEW from \in Nat, NEW len \in Nat
         PROVE  /\ Portion(Whole, Dim, from, len).shape[Dim + 1] = len
                /\ Numel(Portion(Whole, Dim, from, len).shape) = (A * len) * B
                /\ A > 0 /\ B > 0 /\ len > 0 /\ from + len <= z => ShareEnds(from, len, A, z, B)
    <2>1. ShareFacts(from, len, A, z, B)
      BY <1>8, <1>9, EndsOfShare, Zenon
    <2> QED BY <2>1, Zenon DEF ShareFacts
  <1>12. ASSUME NEW from \in Nat, NEW len \in Nat, NEW from2 \in Nat, NEW len2 \in Nat,
                Returns(from, len) = Portion(Whole, Dim, from2, len2)
         PROVE  len = len2
    <2>1. Returns(from, len).shape[Dim + 1] = len
      BY <1>10, Zenon
    <2>2. Portion(Whole, Dim, from2, len2).shape[Dim + 1] = len2
      BY <1>11, Zenon
    <2> QED BY <1>12, <2>1, <2>2, Zenon
  <1>13. ASSUME Rows = call.shape[Dim + 1], NEW from \in Nat, NEW len \in Nat,
                from + len <= Rows, len < Rows, Numel(Portion(Whole, Dim, from, len).shape) > 0,
                Returns(from, len) = Portion(Whole, Dim, from, len)
         PROVE  FALSE
    <2>1. Rows = y /\ z = y
      BY <1>1, <1>2, <1>10, <1>13, Zenon
    <2>2. from + len <= y /\ len < y /\ from + len <= z
      BY <1>13, <2>1, Zenon
    <2>3. A > 0 /\ len > 0 /\ B > 0
      <3>1. (A * len) * B > 0
        BY <1>11, <1>13, Zenon
      <3>2. A * len \in Nat
        BY Times
      <3>3. A * len > 0 /\ B > 0
        BY <3>1, <3>2, Positive
      <3> QED BY <3>3, Positive
    <2>4. x > 0 /\ G > 0
      <3>1. PICK h \in Nat : h = y * G
        BY Times
      <3>2. x * h > 0
        BY <1>5, <2>3, <3>1, Zenon
      <3>3. x > 0 /\ h > 0
        BY <3>2, Positive
      <3>4. y * G > 0
        BY <3>1, <3>3, Zenon
      <3> QED BY <3>3, <3>4, Positive
    <2>5. C > 0
      <3>1. z > 0
        BY <2>2, <2>3
      <3>2. G * z > 0
        BY <2>4, <3>1, Positive
      <3> QED BY <1>5, <3>2, Zenon
    <2>6. ReturnedEnds(from, len, x, y, C, B) /\ ShareEnds(from, len, A, z, B)
      BY <1>10, <1>11, <2>2, <2>3, <2>4, <2>5, Zenon
    <2>7. C * x = A
      <3>1. PICK h \in Nat : h = y * G
        BY Times
      <3>2. G * y = h /\ h * x = x * h
        BY <3>1, Times
      <3> QED BY <1>5, <2>1, <3>1, <3>2, Zenon
    <2>8. Terms((from * C) * B + 1) = Terms(from * B + 1)
      BY <1>13, <2>6, Zenon DEF ReturnedEnds, ShareEnds
    <2>9. Terms(((x - 1) * (y * C) + (from + len) * C) * B) =
            Terms(((A - 1) * z + (from + len)) * B)
      BY <1>13, <2>6, <2>7, Zenon DEF ReturnedEnds, ShareEnds
    <2>10. (from * C) * B + 1 = from * B + 1
      BY <2>8, TermsDiffer, Zenon
    <2>11. ((x - 1) * (y * C) + (from + len) * C) * B = ((A - 1) * z + (from + len)) * B
      BY <2>9, TermsDiffer, Zenon
    <2>12. SameStart(y, G, B, from)
      BY <1>5, <2>1, <2>10, Zenon DEF SameStart
    <2>13. SameEnd(x, y, G, B, from, len)
      BY <1>5, <2>1, <2>11, Zenon DEF SameEnd
    <2>14. len < y
      BY <2>2
    <2> QED BY <2>3, <2>4, <2>12, <2>13, <2>14, NotBothEnds
  <1> QED BY <1>12, <1>13, Zenon

---------------------------------------------------------------------------
(* What the calls return.                                                  *)

\* How the rows that are scattered are shared out.
IsCut(z) ==
    IF call.sizes # <<>> THEN z = call.sizes /\ Rows = SizesSum
    ELSE z = EvenSizes(Rows) /\ Rows % call.n = 0

\* Nobody to speak to.
Alone(a) ==
    /\ call.n = 1 /\ call.op \in {"all_gather", "gather", "reduce_scatter"}
    /\ a = Returned([m \in Member |-> Input(m)])

\* all_gather, and gather, where all but one get nothing.
GatheredBy(a, S) ==
    /\ call.n # 1 /\ call.op \in {"all_gather", "gather"} /\ DimInRange
    /\ S \subseteq Member
    /\ a = Returned([m \in S |-> Joined])

AppendedByAll(a) ==
    /\ call.n > 1 /\ call.op = "all_gatherv" /\ call.dim = 0 /\ Uneven
    /\ a = Returned([m \in Member |-> Appended])

ScatteredBy(a, z) ==
    /\ call.n # 1 /\ call.op \in {"reduce_scatter", "reduce_scatterv"} /\ DimInRange
    /\ IsCut(z)
    /\ a = Returned([m \in Member |-> Returns(Before(z, m), z[m + 1])])

\* All that a call ends in.
Outcome(a) ==
    \/ a \in {Pending, Raised}
    \/ Alone(a)
    \/ \E S : GatheredBy(a, S)
    \/ AppendedByAll(a)
    \/ \E z : ScatteredBy(a, z)

\* The inductive invariant.
IInv == call \in Calls /\ Outcome(answer)

\* What a call ends in depends on the call.
LEMMA SameOutcome ==
    ASSUME call' = call, NEW a
    PROVE  Outcome(a)' <=> Outcome(a)
  <1>1. /\ Member' = Member /\ Rank' = Rank /\ Dim' = Dim /\ (DimInRange' <=> DimInRange)
        /\ SizesSum' = SizesSum /\ (Uneven' <=> Uneven)
        /\ \A x : EvenSizes(x)' = EvenSizes(x)
    BY DEF Member, Rank, Dim, DimInRange, SizesSum, Uneven, EvenSizes
  <1>2. \A m : Input(m)' = Input(m) /\ ShapeOf(m)' = ShapeOf(m)
    BY DEF Input, ShapeOf
  <1>3. Joined' = Joined /\ Appended' = Appended
    BY DEF Joined, Appended, Dim, Rank, SizesSum, Stacked, Input, ShapeOf, Concatenated, Member
  <1>4. Rows' = Rows /\ \A from, len : Returns(from, len)' = Returns(from, len)
    BY DEF Rows, Returns, Moved, Member, Input, ShapeOf, Dim, Rank
  <1>5. Alone(a)' <=> Alone(a)
    BY DEF Alone, Member, Input, ShapeOf
  <1>6. ASSUME NEW S PROVE GatheredBy(a, S)' <=> GatheredBy(a, S)
    BY <1>1, <1>3 DEF GatheredBy
  <1>7. AppendedByAll(a)' <=> AppendedByAll(a)
    BY <1>1, <1>3 DEF AppendedByAll
  <1>8. ASSUME NEW z PROVE ScatteredBy(a, z)' <=> ScatteredBy(a, z)
    <2>1. IsCut(z)' <=> IsCut(z)
      BY <1>1, <1>4 DEF IsCut
    <2> QED BY <1>1, <1>4, <2>1 DEF ScatteredBy
  <1>9. Pending' = Pending /\ Raised' = Raised
    BY DEF Pending, Raised
  <1> QED BY <1>5, <1>6, <1>7, <1>8, <1>9 DEF Outcome

\* Initially nobody has an answer.
LEMMA InitIInv == Init => IInv
  BY DEF Init, IInv, Outcome

\* gather and all_gather.
LEMMA GatherStep ==
    ASSUME AllGather \/ Gather
    PROVE  Outcome(answer')
  <1>1. call.n = 1 => answer' = Returned([m \in Member |-> Input(m)])
    BY DEF AllGather, Gather
  <1>2. call.n # 1 /\ ~DimInRange => answer' = Raised
    BY DEF AllGather, Gather
  <1>3. call.n # 1 /\ DimInRange =>
            \E S : S \subseteq Member /\ answer' = Returned([m \in S |-> Joined])
    <2>1. SUFFICES ASSUME call.n # 1, DimInRange
                   PROVE  \E S : S \subseteq Member /\ answer' = Returned([m \in S |-> Joined])
      OBVIOUS
    <2>2. CASE AllGather
      BY <2>1, <2>2, Member \subseteq Member, Zenon DEF AllGather
    <2>3. CASE Gather
      BY <2>1, <2>3, Member \cap {call.dst} \subseteq Member, Zenon DEF Gather
    <2> QED BY <2>2, <2>3
  <1>4. call.op \in {"all_gather", "gather"}
    BY DEF AllGather, Gather
  <1>5. CASE call.n = 1
    <2>1. Alone(answer')
      BY <1>1, <1>4, <1>5 DEF Alone
    <2> QED BY <2>1, Zenon DEF Outcome
  <1>6. CASE call.n # 1 /\ DimInRange
    BY <1>3, <1>4, <1>6, Zenon DEF GatheredBy, Outcome
  <1>7. CASE call.n # 1 /\ ~DimInRange
    BY <1>2, <1>7 DEF Outcome
  <1> QED BY <1>5, <1>6, <1>7

\* all_gatherv.
LEMMA AppendStep ==
    ASSUME AllGatherv
    PROVE  Outcome(answer')
  <1>1. call.op = "all_gatherv"
        /\ (call.n > 1 /\ call.dim = 0 /\ Uneven => answer' = Returned([m \in Member |-> Appended]))
    BY Zenon DEF AllGatherv, Appended
  <1>2. ~(call.n > 1 /\ call.dim = 0 /\ Uneven) => answer' = Raised
    BY Zenon DEF AllGatherv
  <1> QED BY <1>1, <1>2, Zenon DEF AppendedByAll, Outcome

\* A reduce-scatter that goes through.
LEMMA ScatterOutcome ==
    ASSUME NEW z, NEW a, a = Scatter(z), IsCut(z), DimInRange, call.n # 1,
           call.op \in {"reduce_scatter", "reduce_scatterv"}
    PROVE  Outcome(a)
  <1>1. a = Returned([m \in Member |-> Returns(Before(z, m), z[m + 1])])
    BY Zenon DEF Scatter, Share, Returns
  <1> QED BY <1>1, Zenon DEF ScatteredBy, Outcome

\* reduce_scatter and reduce_scatterv.
LEMMA ScatterStep ==
    ASSUME call \in Calls, ReduceScatter \/ ReduceScatterv
    PROVE  Outcome(answer')
  <1>1. ASSUME ReduceScatter
        PROVE  Outcome(answer')
    <2>1. call.op = "reduce_scatter" /\ call.sizes = <<>>
      BY <1>1, CallFacts DEF ReduceScatter
    <2>2. CASE call.n = 1
      <3>1. answer' = Returned([m \in Member |-> Input(m)])
        BY <1>1, <2>2, Zenon DEF ReduceScatter
      <3>2. Alone(answer')
        BY <2>1, <2>2, <3>1 DEF Alone
      <3> QED BY <3>2, Zenon DEF Outcome
    <2>3. CASE call.n # 1 /\ DimInRange /\ Rows % call.n = 0
      <3>1. answer' = Scatter(EvenSizes(Rows))
        BY <1>1, <2>3, Zenon DEF ReduceScatter
      <3>2. IsCut(EvenSizes(Rows))
        BY <2>1, <2>3, Zenon DEF IsCut
      <3> QED BY <2>1, <2>3, <3>1, <3>2, ScatterOutcome
    <2>4. CASE call.n # 1 /\ ~(DimInRange /\ Rows % call.n = 0)
      <3>1. answer' = Raised
        BY <1>1, <2>4, Zenon DEF ReduceScatter
      <3> QED BY <3>1 DEF Outcome
    <2> QED BY <2>2, <2>3, <2>4, Zenon
  <1>2. ASSUME ReduceScatterv
        PROVE  Outcome(answer')
    <2>1. call.op = "reduce_scatterv"
      BY <1>2, Zenon DEF ReduceScatterv
    <2>2. CASE call.n # 1 /\ DimInRange /\ call.sizes # <<>> /\ Rows = SizesSum
      <3>1. answer' = Scatter(call.sizes)
        BY <1>2, <2>2, Zenon DEF ReduceScatterv
      <3>2. IsCut(call.sizes)
        BY <2>2, Zenon DEF IsCut
      <3> QED BY <2>1, <2>2, <3>1, <3>2, ScatterOutcome
    <2>3. CASE call.n # 1 /\ DimInRange /\ call.sizes = <<>> /\ Rows % call.n = 0
      <3>1. answer' = Scatter(EvenSizes(Rows))
        BY <1>2, <2>3, Zenon DEF ReduceScatterv
      <3>2. IsCut(EvenSizes(Rows))
        BY <2>3, Zenon DEF IsCut
      <3> QED BY <2>1, <2>3, <3>1, <3>2, ScatterOutcome
    <2>4. CASE /\ ~(call.n # 1 /\ DimInRange /\ call.sizes # <<>> /\ Rows = SizesSum)
               /\ ~(call.n # 1 /\ DimInRange /\ call.sizes = <<>> /\ Rows % call.n = 0)
      <3>1. answer' = Raised
        BY <1>2, <2>4, Zenon DEF ReduceScatterv
      <3> QED BY <3>1 DEF Outcome
    <2> QED BY <2>2, <2>3, <2>4, Zenon
  <1> QED BY <1>1, <1>2, Zenon

\* Every step keeps the invariant.
LEMMA NextIInv ==
    ASSUME IInv, [Next]_vars
    PROVE  IInv'
  <1>1. call' = call
    BY DEF Next, vars
  <1>2. call \in Calls /\ Outcome(answer)
    BY DEF IInv
  <1>3. answer' = answer => Outcome(answer')
    BY <1>2
  <1>4. Step => Outcome(answer')
    BY <1>2, GatherStep, AppendStep, ScatterStep, Zenon DEF Step
  <1>5. Outcome(answer')
    <2>1. Step \/ answer' = answer
      BY DEF Next, vars
    <2> QED BY <1>3, <1>4, <2>1, Zenon
  <1>6. \A a : Outcome(a)' <=> Outcome(a)
    BY <1>1, SameOutcome
  <1>7. Outcome(answer)'
    BY <1>5, <1>6
  <1> QED BY <1>1, <1>2, <1>7 DEF IInv

\* What a call ends in is always one of the outcomes.
THEOREM Invariance == Spec => []IInv
  <1>1. Init => IInv
    BY InitIInv
  <1>2. IInv /\ [Next]_vars => IInv'
    BY NextIInv
  <1> QED BY <1>1, <1>2, PTL DEF Spec

---------------------------------------------------------------------------
(* What follows from it.                                                   *)

\* How a tensor has come about that a member has got.
ReturnedAlone(t) ==
    call.n = 1 /\ call.op \in {"all_gather", "gather", "reduce_scatter"} /\ \E m \in Member : t = Input(m)
ReturnedJoined(t) ==
    call.n # 1 /\ call.op \in {"all_gather", "gather"} /\ DimInRange /\ t = Joined
ReturnedAppended(t) ==
    call.n > 1 /\ call.op = "all_gatherv" /\ call.dim = 0 /\ Uneven /\ t = Appended
ReturnedShare(t, z, m) ==
    /\ call.n # 1 /\ call.op \in {"reduce_scatter", "reduce_scatterv"} /\ DimInRange
    /\ IsCut(z)
    /\ t = Returns(Before(z, m), z[m + 1])

\* Every tensor that is returned has come about in one of four ways.
LEMMA ReturnedFrom ==
    ASSUME IInv, answer.state = "returned", NEW t \in Results
    PROVE  /\ call \in Calls
           /\ \/ ReturnedAlone(t)
              \/ ReturnedJoined(t)
              \/ ReturnedAppended(t)
              \/ \E z : \E m \in Member : ReturnedShare(t, z, m)
  <1>1. answer \notin {Pending, Raised}
    BY DEF Pending, Raised
  <1>2. PICK m : m \in DOMAIN answer.of /\ t = answer.of[m]
    BY DEF Results
  <1>3. ASSUME Alone(answer) PROVE ReturnedAlone(t)
    <2>1. answer.of = [k \in Member |-> Input(k)]
      BY <1>3 DEF Alone, Returned
    <2>2. m \in Member /\ t = Input(m)
      BY <1>2, <2>1
    <2> QED BY <1>3, <2>2, Zenon DEF Alone, ReturnedAlone
  <1>4. ASSUME NEW S, GatheredBy(answer, S) PROVE ReturnedJoined(t)
    <2>1. answer.of = [k \in S |-> Joined]
      BY <1>4 DEF GatheredBy, Returned
    <2>2. t = Joined
      BY <1>2, <2>1
    <2> QED BY <1>4, <2>2, Zenon DEF GatheredBy, ReturnedJoined
  <1>5. ASSUME AppendedByAll(answer) PROVE ReturnedAppended(t)
    <2>1. answer.of = [k \in Member |-> Appended]
      BY <1>5 DEF AppendedByAll, Returned
    <2>2. t = Appended
      BY <1>2, <2>1
    <2> QED BY <1>5, <2>2, Zenon DEF AppendedByAll, ReturnedAppended
  <1>6. ASSUME NEW z, ScatteredBy(answer, z) PROVE m \in Member /\ ReturnedShare(t, z, m)
    <2>1. answer.of = [k \in Member |-> Returns(Before(z, k), z[k + 1])]
      BY <1>6 DEF ScatteredBy, Returned
    <2>2. m \in Member /\ t = Returns(Before(z, m), z[m + 1])
      BY <1>2, <2>1
    <2> QED BY <1>6, <2>2, Zenon DEF ScatteredBy, ReturnedShare
  <1> QED BY <1>1, <1>3, <1>4, <1>5, <1>6, Zenon DEF IInv, Outcome

\* However the rows are cut, these are shares of all of them.
LEMMA CutShares ==
    ASSUME call \in Calls, call.op # "all_gatherv", DimInRange, NEW z, IsCut(z)
    PROVE  AreShares(z, call.n, Rows)
  <1>1. CASE call.sizes # <<>>
    <2>1. z = call.sizes /\ Rows = SizesSum
      BY <1>1, Zenon DEF IsCut
    <2>2. Len(call.sizes) = call.n /\ call.sizes \in [1..call.n -> Nat]
      BY <1>1, CallFacts, Zenon
    <2> QED BY <2>1, <2>2, Zenon DEF AreShares, SizesSum
  <1>2. CASE call.sizes = <<>>
    <2>1. z = EvenSizes(Rows) /\ Rows % call.n = 0
      BY <1>2, Zenon DEF IsCut
    <2>2. Rows \in Nat
      BY RowsFacts, Zenon
    <2> QED BY <2>1, <2>2, EvenShares, Zenon
  <1> QED BY <1>1, <1>2

\* Where a member's share starts, and how long it is.
LEMMA CutWithin ==
    ASSUME call \in Calls, call.op # "all_gatherv", DimInRange, NEW z, IsCut(z), NEW m \in Member
    PROVE  /\ Before(z, m) \in Nat /\ z[m + 1] \in Nat
           /\ Before(z, m) + z[m + 1] <= Rows
  <1>1. AreShares(z, call.n, Rows)
    BY CutShares, Zenon
  <1>2. call.n \in Nat
    BY CallFacts, Zenon
  <1>3. m \in 0..call.n - 1
    BY DEF Member
  <1> QED BY <1>1, <1>2, <1>3, ShareWithin, Zenon

\* Every tensor that is returned is one: what all_gather and gather reshape, what
\* all_gatherv appends and what a reduce-scatter cuts and moves back has as many elements
\* as its shape says.
THEOREM WellShapedHolds == Spec => []WellShaped
  <1>1. ASSUME IInv PROVE WellShaped
    <2>1. SUFFICES ASSUME answer.state = "returned", NEW t \in Results
                   PROVE  DOMAIN t.data = 1..Numel(t.shape)
      BY Zenon DEF WellShaped
    <2>2. call \in Calls
      BY <1>1, <2>1, ReturnedFrom, Zenon
    <2>3. ASSUME ReturnedAlone(t) PROVE IsTensor(t)
      BY <2>2, <2>3, InputFacts, Zenon DEF ReturnedAlone
    <2>4. ASSUME ReturnedJoined(t) PROVE IsTensor(t)
      <3>1. call.op # "all_gatherv" /\ DimInRange /\ t = Joined
        BY <2>4 DEF ReturnedJoined
      <3>2. call.shape \in Seq(Nat) /\ Dim \in 0..Len(call.shape) - 1
        BY <2>2, <3>1, CallFacts, DimFacts, Zenon
      <3>3. PICK a \in Nat, x \in Nat, c \in Nat : Blocks(call.shape, Dim, a, x, c)
        BY <3>2, BlocksExist, Zenon
      <3> QED BY <2>2, <3>1, <3>3, JoinedFacts, Zenon
    <2>5. ASSUME ReturnedAppended(t) PROVE IsTensor(t)
      <3>1. call.op = "all_gatherv" /\ call.sizes # <<>> /\ t = Appended
        BY <2>5, Zenon DEF ReturnedAppended, Uneven
      <3>2. call.shape \in Seq(Nat) /\ call.shape # <<>>
        BY <2>2, <3>1, CallFacts, Zenon
      <3>3. PICK x \in Nat, c \in Nat : Blocks(call.shape, 0, 1, x, c)
        BY <3>2, FirstBlocks, Zenon
      <3> QED BY <2>2, <3>1, <3>3, AppendedFacts, Zenon
    <2>6. ASSUME NEW z, NEW m \in Member, ReturnedShare(t, z, m) PROVE IsTensor(t)
      <3>1. call.op # "all_gatherv" /\ DimInRange /\ IsCut(z) /\ t = Returns(Before(z, m), z[m + 1])
        BY <2>6 DEF ReturnedShare
      <3>2. Before(z, m) \in Nat /\ z[m + 1] \in Nat
        BY <2>2, <3>1, CutWithin, Zenon
      <3> QED BY <2>2, <3>1, <3>2, ReturnsTensor, Zenon
    <2>7. IsTensor(t)
      BY <1>1, <2>1, <2>3, <2>4, <2>5, <2>6, ReturnedFrom, Zenon
    <2>8. PICK n, d : n = Numel(t.shape) /\ d = t.data
      OBVIOUS
    <2>9. d = [p \in 1..n |-> d[p]]
      BY <2>7, <2>8, Zenon DEF IsTensor
    <2>10. DOMAIN d = 1..n
      BY <2>9
    <2> QED BY <2>8, <2>10, Zenon
  <1>2. Spec => []IInv
    BY Invariance
  <1> QED BY <1>1, <1>2, PTL

\* The members' lengths along dim.
Lengths == [i \in 1..call.n |-> IF Rank = 0 THEN 1 ELSE RowsOf(i - 1)]

\* What is to be shown of a tensor that has been gathered.
SideBySide(t) ==
    /\ t.shape = WithLength(call.shape, Dim, Before(Lengths, call.n))
    /\ \A m \in Member : Portion(t, Dim, Before(Lengths, m), Lengths[m + 1]) = Input(m)

\* Tensors of the same shape have the same length.
LEMMA EqualLengths ==
    ASSUME call \in Calls, call.op # "all_gatherv", DimInRange
    PROVE  Lengths = [i \in 1..call.n |-> call.shape[Dim + 1]]
  <1>1. Rank # 0
    <2>1. PICK s \in Seq(Nat) : s = call.shape
      BY CallFacts, Zenon
    <2>2. Dim \in 0..Len(s) - 1
      BY <2>1, DimFacts, Zenon
    <2>3. Len(s) # 0
      BY <2>2
    <2> QED BY <2>1, <2>3, Zenon DEF Rank
  <1>2. ASSUME NEW i \in 1..call.n PROVE RowsOf(i - 1) = call.shape[Dim + 1]
    <2>1. i - 1 \in Member
      BY CallFacts DEF Member
    <2>2. ShapeOf(i - 1) = call.shape
      BY <2>1, InputFacts, Zenon
    <2> QED BY <2>2, Zenon DEF RowsOf
  <1> QED BY <1>1, <1>2 DEF Lengths

\* all_gather and gather.
LEMMA JoinedSideBySide ==
    ASSUME call \in Calls, call.op # "all_gatherv", DimInRange
    PROVE  SideBySide(Joined)
  <1>1. call.shape \in Seq(Nat) /\ Dim \in 0..Len(call.shape) - 1
    BY CallFacts, DimFacts, Zenon
  <1>2. PICK a \in Nat, x \in Nat, c \in Nat : Blocks(call.shape, Dim, a, x, c)
    BY <1>1, BlocksExist, Zenon
  <1>3. x = call.shape[Dim + 1]
    BY <1>2, Zenon DEF Blocks
  <1>4. Lengths = [i \in 1..call.n |-> x]
    BY <1>3, EqualLengths, Zenon
  <1>5. PICK n \in Nat : n = call.n
    BY CallFacts, Zenon
  <1>6. \A m \in 0..n : Before(Lengths, m) = m * x
    BY <1>4, <1>5, BeforeMultiples, Zenon
  <1>7. Before(Lengths, call.n) = call.n * x
    <2>1. n \in 0..n
      OBVIOUS
    <2> QED BY <1>5, <1>6, <2>1, Zenon
  <1>8. Joined.shape = WithLength(call.shape, Dim, call.n * x)
    BY <1>2, JoinedFacts, Zenon
  <1>9. ASSUME NEW m \in Member
        PROVE  Portion(Joined, Dim, Before(Lengths, m), Lengths[m + 1]) = Input(m)
    <2>1. m \in 0..n /\ m + 1 \in 1..call.n
      BY <1>5 DEF Member
    <2>2. Before(Lengths, m) = m * x
      BY <1>6, <2>1, Zenon
    <2>3. Lengths[m + 1] = x
      BY <1>4, <2>1
    <2>4. Portion(Joined, Dim, m * x, x) = Input(m)
      BY <1>2, JoinedPortion, Zenon
    <2> QED BY <2>2, <2>3, <2>4, Zenon
  <1> QED BY <1>7, <1>8, <1>9, Zenon DEF SideBySide

\* all_gatherv.
LEMMA AppendedSideBySide ==
    ASSUME call \in Calls, call.op = "all_gatherv", call.sizes # <<>>, call.dim = 0
    PROVE  SideBySide(Appended)
  <1>1. call.shape \in Seq(Nat) /\ call.shape # <<>> /\ Len(call.sizes) = call.n
        /\ call.sizes \in [1..call.n -> Nat]
    BY CallFacts, Zenon
  <1>2. Dim = 0
    BY DEF Dim
  <1>3. Rank # 0
    <2>1. Len(call.shape) # 0
      BY <1>1, EmptySeq
    <2> QED BY <2>1, Zenon DEF Rank
  <1>4. PICK x \in Nat, c \in Nat : Blocks(call.shape, 0, 1, x, c)
    BY <1>1, FirstBlocks, Zenon
  <1>5. ASSUME NEW i \in 1..call.n PROVE RowsOf(i - 1) = call.sizes[i]
    <2>1. i - 1 \in Member /\ (i - 1) + 1 = i
      <3>1. i - 1 \in Member
        BY CallFacts DEF Member
      <3>2. (i - 1) + 1 = i
        OBVIOUS
      <3> QED BY <3>1, <3>2
    <2>2. ShapeOf(i - 1) = WithLength(call.shape, 0, call.sizes[i])
      BY <1>4, <2>1, AppendedFacts, Zenon
    <2>3. PICK s \in Seq(Nat), y \in Nat : s = call.shape /\ y = call.sizes[i] /\ 0 \in 0..Len(s) - 1
      <3>1. call.sizes[i] \in Nat
        BY <1>1
      <3> QED BY <1>1, <3>1, FirstBlocks, Zenon
    <2>4. WithLength(s, 0, y)[0 + 1] = y
      <3>1. 1 \in DOMAIN s /\ 0 + 1 = 1
        BY <2>3
      <3> QED BY <3>1 DEF WithLength
    <2> QED BY <1>2, <2>2, <2>3, <2>4, Zenon DEF RowsOf
  <1>6. Lengths = call.sizes
    BY <1>1, <1>3, <1>5 DEF Lengths
  <1>7. Appended.shape = WithLength(call.shape, 0, SizesSum)
    BY <1>4, AppendedFacts, Zenon
  <1>8. SizesSum = Before(Lengths, call.n)
    BY <1>1, <1>6, Zenon DEF SizesSum
  <1>9. \A m \in Member : Portion(Appended, 0, Before(Lengths, m), Lengths[m + 1]) = Input(m)
    BY <1>6, AppendedPortion, Zenon
  <1> QED BY <1>2, <1>7, <1>8, <1>9, Zenon DEF SideBySide

\* What a gather returns is the members' tensors side by side along dim, in the order of the
\* members, whichever of the dimensions dim is and however many there are: all_gather, gather
\* and all_gatherv move, reshape and append without an element out of place.
THEOREM GathersHold == Spec => []GathersAreConcatenations
  <1>1. ASSUME IInv PROVE GathersAreConcatenations
    <2>1. SUFFICES ASSUME answer.state = "returned",
                          call.op \in {"all_gather", "gather", "all_gatherv"},
                          NEW t \in Results
                   PROVE  IF call.n = 1 THEN t = Input(0) ELSE SideBySide(t)
      BY Zenon DEF GathersAreConcatenations, SideBySide, Lengths, WithLength
    <2>2. call \in Calls
      BY <1>1, <2>1, ReturnedFrom, Zenon
    <2>3. ASSUME ReturnedAlone(t) PROVE call.n = 1 /\ t = Input(0)
      <3>1. PICK m \in Member : t = Input(m)
        BY <2>3, Zenon DEF ReturnedAlone
      <3>2. call.n = 1
        BY <2>3, Zenon DEF ReturnedAlone
      <3>3. m = 0
        BY <3>2 DEF Member
      <3> QED BY <3>1, <3>2, <3>3, Zenon
    <2>4. ASSUME ReturnedJoined(t) PROVE call.n # 1 /\ SideBySide(t)
      <3>1. call.n # 1 /\ call.op # "all_gatherv" /\ DimInRange /\ t = Joined
        BY <2>4 DEF ReturnedJoined
      <3> QED BY <2>2, <3>1, JoinedSideBySide, Zenon
    <2>5. ASSUME ReturnedAppended(t) PROVE call.n # 1 /\ SideBySide(t)
      <3>1. call.op = "all_gatherv" /\ call.sizes # <<>> /\ call.dim = 0 /\ t = Appended
        BY <2>5, Zenon DEF ReturnedAppended, Uneven
      <3>2. call.n # 1
        BY <2>5 DEF ReturnedAppended
      <3> QED BY <2>2, <3>1, <3>2, AppendedSideBySide, Zenon
    <2>6. ~\E z : \E m \in Member : ReturnedShare(t, z, m)
      BY <2>1 DEF ReturnedShare
    <2>7. ReturnedAlone(t) \/ ReturnedJoined(t) \/ ReturnedAppended(t)
      BY <1>1, <2>1, <2>6, ReturnedFrom, Zenon
    <2> QED BY <2>3, <2>4, <2>5, <2>7, Zenon
  <1>2. Spec => []IInv
    BY Invariance
  <1> QED BY <1>1, <1>2, PTL

\* The sizes of the shares along dim.
Wanted == IF call.sizes # <<>> THEN call.sizes ELSE EvenSizes(call.shape[Dim + 1])

\* Member m's share by them.
LEMMA ShareByWanted ==
    ASSUME NEW m
    PROVE  ShareAlongDim(m) = Portion(Whole, Dim, Before(Wanted, m), Wanted[m + 1])
  BY Zenon DEF ShareAlongDim, Wanted, Whole

\* The rows are those along dim.
LEMMA WantedIsCut ==
    ASSUME NEW z, IsCut(z), Rows = call.shape[Dim + 1]
    PROVE  z = Wanted /\ CanBeCut
  <1>1. z = Wanted
    BY Zenon DEF IsCut, Wanted
  <1>2. CanBeCut
    BY Zenon DEF IsCut, CanBeCut
  <1> QED BY <1>1, <1>2

\* Along a dimension that can be cut, they are shares of it.
LEMMA WantedShares ==
    ASSUME call \in Calls, DimInRange, CanBeCut
    PROVE  AreShares(Wanted, call.n, call.shape[Dim + 1])
  <1>1. CASE call.sizes # <<>>
    <2>1. Wanted = call.sizes /\ SizesSum = call.shape[Dim + 1]
      BY <1>1, Zenon DEF Wanted, CanBeCut
    <2>2. Len(call.sizes) = call.n /\ call.sizes \in [1..call.n -> Nat]
      BY <1>1, CallFacts, Zenon
    <2> QED BY <2>1, <2>2, Zenon DEF AreShares, SizesSum
  <1>2. CASE call.sizes = <<>>
    <2>1. Wanted = EvenSizes(call.shape[Dim + 1]) /\ call.shape[Dim + 1] % call.n = 0
      BY <1>2, Zenon DEF Wanted, CanBeCut
    <2>2. call.shape[Dim + 1] \in Nat
      BY DimFacts, Zenon
    <2> QED BY <2>1, <2>2, EvenShares, Zenon
  <1> QED BY <1>1, <1>2

\* If one share of the rows is as long as that along dim, there are as many rows.
LEMMA EqualCut ==
    ASSUME call \in Calls, call.op # "all_gatherv", DimInRange, CanBeCut,
           NEW z, IsCut(z), NEW m \in Member, z[m + 1] = Wanted[m + 1]
    PROVE  Rows = call.shape[Dim + 1]
  <1>1. CASE call.sizes # <<>>
    BY <1>1, Zenon DEF IsCut, CanBeCut
  <1>2. CASE call.sizes = <<>>
    <2>1. z = EvenSizes(Rows) /\ Rows % call.n = 0
      BY <1>2, Zenon DEF IsCut
    <2>2. Wanted = EvenSizes(call.shape[Dim + 1]) /\ call.shape[Dim + 1] % call.n = 0
      BY <1>2, Zenon DEF Wanted, CanBeCut
    <2>3. Rows \in Nat /\ call.shape[Dim + 1] \in Nat
      BY RowsFacts, DimFacts, Zenon
    <2>4. m + 1 \in 1..call.n
      BY CallFacts, Zenon
    <2>5. EvenSizes(Rows)[m + 1] = Rows \div call.n /\ Rows = call.n * (Rows \div call.n)
      BY <2>1, <2>3, <2>4, EvenShares, Zenon
    <2>6. /\ EvenSizes(call.shape[Dim + 1])[m + 1] = call.shape[Dim + 1] \div call.n
          /\ call.shape[Dim + 1] = call.n * (call.shape[Dim + 1] \div call.n)
      BY <2>2, <2>3, <2>4, EvenShares, Zenon
    <2>7. Rows \div call.n = call.shape[Dim + 1] \div call.n
      BY <2>1, <2>2, <2>5, <2>6, Zenon
    <2> QED BY <2>5, <2>6, <2>7, Zenon
  <1> QED BY <1>1, <1>2

\* A share with elements has a length.
LEMMA NotEmpty ==
    ASSUME call \in Calls, call.op # "all_gatherv", DimInRange, NEW from \in Nat, NEW len \in Nat,
           Numel(Portion(Whole, Dim, from, len).shape) > 0
    PROVE  len > 0
  <1>1. PICK s \in Seq(Nat), d \in Nat : s = call.shape /\ d = Dim /\ d \in 0..Len(s) - 1
    BY CallFacts, DimFacts, Zenon
  <1>2. PICK a \in Nat, x \in Nat, c \in Nat : Blocks(s, d, a, x, c)
    BY <1>1, BlocksExist, Zenon
  <1>3. Whole.shape = s
    BY <1>1, WholeFacts, Zenon
  <1>4. Portion(Whole, d, from, len).shape = WithLength(s, d, len)
    <2>1. /\ Whole.shape \in Seq(Nat) /\ d \in 0..Len(Whole.shape) - 1
          /\ Blocks(Whole.shape, d, a, x, c)
      BY <1>1, <1>2, <1>3, Zenon
    <2>2. /\ IsBlock(Portion(Whole, d, from, len), a, len, c)
          /\ Portion(Whole, d, from, len).shape = WithLength(Whole.shape, d, len)
          /\ IsPortion(Portion(Whole, d, from, len), Whole, from, len, a, x, c)
      BY <2>1, PortionFacts
    <2> QED BY <1>3, <2>2, Zenon
  <1>5. Numel(WithLength(s, d, len)) = a * len * c
    <2>1. d \in 0..Len(s) - 1
      BY <1>1, Zenon
    <2> QED BY <1>2, <2>1, BlocksNumel
  <1>6. (a * len) * c > 0
    BY <1>1, <1>4, <1>5, Zenon
  <1>7. a * len \in Nat
    BY Times
  <1>8. a * len > 0
    BY <1>6, <1>7, Positive
  <1> QED BY <1>8, Positive

\* A member's result of a reduce-scatter.
LEMMA ScatterReturns ==
    ASSUME IInv, answer.state = "returned", call.op \in {"reduce_scatter", "reduce_scatterv"},
           call.n > 1
    PROVE  /\ call \in Calls /\ DimInRange
           /\ \E z : /\ IsCut(z)
                     /\ \A m \in Member : answer.of[m] = Returns(Before(z, m), z[m + 1])
  <1>1. answer \notin {Pending, Raised}
    BY DEF Pending, Raised
  <1>2. ~Alone(answer) /\ ~AppendedByAll(answer) /\ \A S : ~GatheredBy(answer, S)
    <2>1. call.n # 1 /\ call.op \notin {"all_gather", "gather", "all_gatherv"}
      OBVIOUS
    <2> QED BY <2>1 DEF Alone, AppendedByAll, GatheredBy
  <1>3. PICK z : ScatteredBy(answer, z)
    BY <1>1, <1>2, Zenon DEF IInv, Outcome
  <1>4. \A m \in Member : answer.of[m] = Returns(Before(z, m), z[m + 1])
    BY <1>3 DEF ScatteredBy, Returned
  <1>5. IsCut(z) /\ DimInRange
    BY <1>3, Zenon DEF ScatteredBy
  <1> QED BY <1>4, <1>5, Zenon DEF IInv

\* The first two dimensions.
LEMMA SharesAlongFirstTwo ==
    ASSUME call \in Calls, call.op # "all_gatherv", DimInRange, Dim <= 1, NEW z, IsCut(z)
    PROVE  /\ CanBeCut
           /\ \A m \in Member : Returns(Before(z, m), z[m + 1]) = ShareAlongDim(m)
  <1>1. Rows = call.shape[Dim + 1]
    BY ReturnsFirstTwo, Zenon
  <1>2. z = Wanted /\ CanBeCut
    BY <1>1, WantedIsCut, Zenon
  <1>3. ASSUME NEW m \in Member
        PROVE  Returns(Before(z, m), z[m + 1]) = ShareAlongDim(m)
    <2>1. Before(z, m) \in Nat /\ z[m + 1] \in Nat /\ Before(z, m) + z[m + 1] <= Rows
      BY CutWithin, Zenon
    <2>2. Returns(Before(z, m), z[m + 1]) = Portion(Whole, Dim, Before(z, m), z[m + 1])
      BY <2>1, ReturnsFirstTwo, Zenon
    <2>3. ShareAlongDim(m) = Portion(Whole, Dim, Before(Wanted, m), Wanted[m + 1])
      BY ShareByWanted, Zenon
    <2> QED BY <1>2, <2>2, <2>3, Zenon
  <1> QED BY <1>2, <1>3, Zenon

\* The others.
LEMMA NoShareBeyond ==
    ASSUME call \in Calls, call.op # "all_gatherv", DimInRange, Dim > 1, call.n > 1,
           NEW z, IsCut(z), CanBeCut, NoShareIsEmpty, NEW m \in Member,
           Returns(Before(z, m), z[m + 1]) = ShareAlongDim(m)
    PROVE  FALSE
  <1>1. call.n \in Nat /\ \A k \in Member : k \in 0..call.n - 1
    <2>1. call.n \in Nat
      BY CallFacts, Zenon
    <2> QED BY <2>1, Zenon DEF Member
  <1>2. AreShares(Wanted, call.n, call.shape[Dim + 1])
    BY WantedShares, Zenon
  <1>3. ASSUME NEW k \in Member
        PROVE  /\ Before(Wanted, k) \in Nat /\ Wanted[k + 1] \in Nat
               /\ Before(Wanted, k) + Wanted[k + 1] <= call.shape[Dim + 1]
    BY <1>1, <1>2, ShareWithin, Zenon
  <1>4. \A k \in Member : ShareAlongDim(k) = Portion(Whole, Dim, Before(Wanted, k), Wanted[k + 1])
    BY ShareByWanted, Zenon
  <1>5. z[m + 1] = Wanted[m + 1]
    <2>1. Before(z, m) \in Nat /\ z[m + 1] \in Nat
      BY CutWithin, Zenon
    <2>2. Returns(Before(z, m), z[m + 1]) = Portion(Whole, Dim, Before(Wanted, m), Wanted[m + 1])
      BY <1>4, Zenon
    <2> QED BY <1>3, <2>1, <2>2, BeyondFirstTwo, Zenon
  <1>6. Rows = call.shape[Dim + 1]
    BY <1>5, EqualCut, Zenon
  <1>7. z = Wanted
    BY <1>6, WantedIsCut, Zenon
  <1>8. \A k \in Member : Numel(Portion(Whole, Dim, Before(Wanted, k), Wanted[k + 1]).shape) > 0
    BY <1>4, Zenon DEF NoShareIsEmpty
  <1>9. \A k \in 0..call.n - 1 : Wanted[k + 1] > 0
    <2>1. \A k \in Member : Wanted[k + 1] > 0
      BY <1>3, <1>8, NotEmpty, Zenon
    <2> QED BY <2>1, Zenon DEF Member
  <1>10. Wanted[m + 1] < call.shape[Dim + 1]
    BY <1>1, <1>2, <1>9, ShareSmaller, Zenon
  <1>11. Returns(Before(Wanted, m), Wanted[m + 1]) =
            Portion(Whole, Dim, Before(Wanted, m), Wanted[m + 1])
    BY <1>4, <1>7, Zenon
  <1>12. /\ Before(Wanted, m) + Wanted[m + 1] <= Rows /\ Wanted[m + 1] < Rows
         /\ Before(Wanted, m) \in Nat /\ Wanted[m + 1] \in Nat
    BY <1>3, <1>6, <1>10, Zenon
  <1> QED BY <1>6, <1>8, <1>11, <1>12, BeyondFirstTwo, Zenon

\* What a reduce-scatter returns is the member's share of the sum along dim, for any number of
\* members and of dimensions, as long as dim is one of the first two; and beyond them it never
\* is, for no member, unless there is nothing to share: moving dim to the front and back by
\* movedim(0, dim) is right for the first two dimensions and for no other.
THEOREM ScattersHold == Spec => []ScattersAreShares
  <1>1. ASSUME IInv PROVE ScattersAreShares
    <2>1. SUFFICES ASSUME answer.state = "returned", call.n > 1,
                          call.op \in {"reduce_scatter", "reduce_scatterv"}
                   PROVE  /\ Dim <= 1 => CanBeCut /\ \A m \in Member : answer.of[m] = ShareAlongDim(m)
                          /\ ~(Dim <= 1) => (CanBeCut /\ NoShareIsEmpty =>
                                \A m \in Member : answer.of[m] # ShareAlongDim(m))
      BY Zenon DEF ScattersAreShares
    <2>2. call \in Calls /\ DimInRange
      BY <1>1, <2>1, ScatterReturns, Zenon
    <2>3. PICK z : IsCut(z) /\ \A m \in Member : answer.of[m] = Returns(Before(z, m), z[m + 1])
      BY <1>1, <2>1, ScatterReturns, Zenon
    <2>4. call.op # "all_gatherv"
      BY <2>1
    <2>5. Dim <= 1 => CanBeCut /\ \A m \in Member : answer.of[m] = ShareAlongDim(m)
      BY <2>2, <2>3, <2>4, SharesAlongFirstTwo, Zenon
    <2>6. ASSUME ~(Dim <= 1), CanBeCut, NoShareIsEmpty, NEW m \in Member,
                 answer.of[m] = ShareAlongDim(m)
          PROVE  FALSE
      <3>1. Dim > 1
        BY <2>2, <2>6, DimFacts
      <3>2. Returns(Before(z, m), z[m + 1]) = ShareAlongDim(m)
        BY <2>3, <2>6, Zenon
      <3> QED BY <2>1, <2>2, <2>3, <2>4, <2>6, <3>1, <3>2, NoShareBeyond, Zenon
    <2> QED BY <2>5, <2>6, Zenon
  <1>2. Spec => []IInv
    BY Invariance
  <1> QED BY <1>1, <1>2, PTL

---------------------------------------------------------------------------
(* The fake implementations.                                               *)

\* The shape that all_gather_fake announces.
LEMMA AllGatherFakeShape ==
    ASSUME call \in Calls, DimInRange, call.op # "all_gatherv"
    PROVE  Joined.shape = AllGatherFake
  <1>1. call.shape \in Seq(Nat) /\ Dim \in 0..Len(call.shape) - 1 /\ call.n \in Nat
    BY CallFacts, DimFacts, Zenon
  <1>2. PICK a \in Nat, x \in Nat, c \in Nat : Blocks(call.shape, Dim, a, x, c)
    BY <1>1, BlocksExist, Zenon
  <1>3. Joined.shape = WithLength(call.shape, Dim, call.n * x)
    BY <1>2, JoinedFacts, Zenon
  <1>4. call.n * x = x * call.n /\ x = call.shape[Dim + 1]
    <2>1. call.n * x = x * call.n
      BY <1>1, Times
    <2> QED BY <1>2, <2>1, Zenon DEF Blocks
  <1>5. Joined.shape = WithLength(call.shape, Dim, call.shape[Dim + 1] * call.n)
    BY <1>3, <1>4, Zenon
  <1> QED BY <1>5, Zenon DEF AllGatherFake, WithLength

\* The shape that reduce_scatter_fake announces.
LEMMA ReduceScatterFakeShape ==
    ASSUME call \in Calls, call.op = "reduce_scatter", DimInRange, Dim <= 1, NEW z, IsCut(z),
           NEW m \in Member
    PROVE  Returns(Before(z, m), z[m + 1]).shape = ReduceScatterFake
  <1>1. PICK s \in Seq(Nat), d \in Nat : s = call.shape /\ d = Dim /\ d \in 0..Len(s) - 1
    BY CallFacts, DimFacts, Zenon
  <1>2. PICK a \in Nat, x \in Nat, c \in Nat : Blocks(s, d, a, x, c)
    BY <1>1, BlocksExist, Zenon
  <1>3. call.op # "all_gatherv" /\ call.sizes = <<>>
    <2>1. call.op # "all_gatherv"
      OBVIOUS
    <2>2. call.op \notin {"all_gatherv", "reduce_scatterv"}
      OBVIOUS
    <2> QED BY <2>1, <2>2, CallFacts, Zenon
  <1>4. PICK from \in Nat, len \in Nat : /\ from = Before(z, m) /\ len = z[m + 1]
                                         /\ from + len <= Rows
    BY <1>3, CutWithin, Zenon
  <1>5. Returns(from, len) = Portion(Whole, d, from, len) /\ Rows = s[d + 1]
    BY <1>1, <1>3, <1>4, ReturnsFirstTwo, Zenon
  <1>6. Portion(Whole, d, from, len).shape = WithLength(s, d, len)
    <2>1. Whole.shape = s
      BY <1>1, <1>3, WholeFacts, Zenon
    <2>2. /\ Whole.shape \in Seq(Nat) /\ d \in 0..Len(Whole.shape) - 1
          /\ Blocks(Whole.shape, d, a, x, c)
      BY <1>1, <1>2, <2>1, Zenon
    <2>3. /\ IsBlock(Portion(Whole, d, from, len), a, len, c)
          /\ Portion(Whole, d, from, len).shape = WithLength(Whole.shape, d, len)
          /\ IsPortion(Portion(Whole, d, from, len), Whole, from, len, a, x, c)
      BY <2>2, PortionFacts
    <2> QED BY <2>1, <2>3, Zenon
  <1>7. len = s[d + 1] \div call.n
    <2>1. z = EvenSizes(Rows) /\ Rows % call.n = 0
      BY <1>3, Zenon DEF IsCut
    <2>2. Rows \in Nat /\ m + 1 \in 1..call.n
      BY <1>3, RowsFacts, CallFacts, Zenon
    <2>3. EvenSizes(Rows)[m + 1] = Rows \div call.n
      BY <2>1, <2>2, EvenShares, Zenon
    <2> QED BY <1>4, <1>5, <2>1, <2>3, Zenon
  <1>8. Returns(Before(z, m), z[m + 1]).shape = WithLength(call.shape, Dim, call.shape[Dim + 1] \div call.n)
    BY <1>1, <1>4, <1>5, <1>6, <1>7, Zenon
  <1> QED BY <1>8, Zenon DEF ReduceScatterFake, WithLength

\* Compiled code has been laid out for the shape that the operator then returns: whatever the
\* number of members and the shape, all_gather_fake agrees with all_gather, and
\* reduce_scatter_fake with reduce_scatter as long as dim is one of the first two.
THEOREM FakesHold == Spec => []FakeShapesAgree
  <1>1. ASSUME IInv PROVE FakeShapesAgree
    <2>1. ASSUME answer.state = "returned", call.n > 1, call.op = "all_gather", NEW t \in Results
          PROVE  t.shape = AllGatherFake
      <3>1. ~ReturnedAlone(t) /\ ~ReturnedAppended(t) /\ ~\E z : \E m \in Member : ReturnedShare(t, z, m)
        BY <2>1 DEF ReturnedAlone, ReturnedAppended, ReturnedShare
      <3>2. call \in Calls /\ ReturnedJoined(t)
        BY <1>1, <2>1, <3>1, ReturnedFrom, Zenon
      <3>3. t = Joined /\ DimInRange /\ call.op # "all_gatherv"
        BY <2>1, <3>2 DEF ReturnedJoined
      <3> QED BY <3>2, <3>3, AllGatherFakeShape, Zenon
    <2>2. ASSUME answer.state = "returned", call.n > 1, call.op = "reduce_scatter", Dim <= 1,
                 NEW t \in Results
          PROVE  t.shape = ReduceScatterFake
      <3>1. ~ReturnedAlone(t) /\ ~ReturnedAppended(t) /\ ~ReturnedJoined(t)
        BY <2>2 DEF ReturnedAlone, ReturnedAppended, ReturnedJoined
      <3>2. call \in Calls /\ \E z : \E m \in Member : ReturnedShare(t, z, m)
        BY <1>1, <2>2, <3>1, ReturnedFrom, Zenon
      <3>3. PICK z, m : m \in Member /\ ReturnedShare(t, z, m)
        BY <3>2, Zenon
      <3>4. IsCut(z) /\ DimInRange /\ t = Returns(Before(z, m), z[m + 1])
        BY <3>3, Zenon DEF ReturnedShare
      <3> QED BY <2>2, <3>2, <3>3, <3>4, ReduceScatterFakeShape, Zenon
    <2> QED BY <2>1, <2>2, Zenon DEF FakeShapesAgree
  <1>2. Spec => []IInv
    BY Invariance
  <1> QED BY <1>1, <1>2, PTL
===========================================================================
