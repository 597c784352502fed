--------------------------- MODULE VerifierProofs ---------------------------
(***************************************************************************)
(* The validator's promises, for all transactions and all maps of outputs: *)
(* what is written is read back, and the fees of a valid transaction are   *)
(* exact while its totals fit; and the server's: no sample is valid.       *)
(*                                                                         *)
(* An operator defined by a fold or by recursion is shown to satisfy a     *)
(* function's equation step by step; the function exists, because the sets *)
(* it is defined on are finite, and every nonempty set of numbers has a    *)
(* least one (LeastNumber), which stands for induction below.              *)
(***************************************************************************)
EXTENDS Verifier, FiniteSetTheorems, SequenceTheorems, TLAPS

\* Every nonempty set of naturals has a least element: 0..(n - 1) grows with n, and
\* inclusion is well founded on finite sets.
LEMMA LeastNumber ==
    ASSUME NEW T \in SUBSET Nat, T # {}
    PROVE  \E m \in T : \A k \in T : m <= k
<1> DEFINE Below == {0..(n - 1) : n \in T}
<1>1. Below \subseteq FiniteSubsetsOf(Nat) /\ Below # {}
  <2>1. ASSUME NEW n \in Nat PROVE 0..(n - 1) \in FiniteSubsetsOf(Nat)
    <3>1. IsFiniteSet(0..(n - 1))
      BY 0 \in Int, n - 1 \in Int, FS_Interval, Zenon
    <3> QED
      BY <3>1 DEF FiniteSubsetsOf
  <2> QED
    BY <2>1
<1>2. PICK x \in Below : \A y \in Below : <<y, x>> \notin StrictSubsetOrdering(Nat)
  <2>1. IsWellFoundedOn(StrictSubsetOrdering(Nat), FiniteSubsetsOf(Nat))
    BY FS_StrictSubsetOrderingWellFounded
  <2> HIDE DEF Below
  <2> QED
    BY <1>1, <2>1, WFMin
<1>3. PICK m \in T : x = 0..(m - 1)
  BY <1>2
<1>4. ASSUME NEW k \in T PROVE m <= k
  <2> SUFFICES ASSUME k < m PROVE FALSE
    OBVIOUS
  <2>1. <<0..(k - 1), 0..(m - 1)>> \notin StrictSubsetOrdering(Nat)
    BY <1>2, <1>3
  <2>2. 0..(k - 1) \subseteq 0..(m - 1) /\ 0..(k - 1) # 0..(m - 1)
    BY k \in 0..(m - 1), k \notin 0..(k - 1)
  <2> QED
    BY <2>1, <2>2 DEF StrictSubsetOrdering
<1> QED
  BY <1>4

\* Induction, of a set: the naturals that a proof by induction reaches are all of them.
LEMMA InductiveSet ==
    ASSUME NEW T \in SUBSET Nat, 0 \in T, \A n \in T : n + 1 \in T
    PROVE  T = Nat
<1> SUFFICES ASSUME Nat \ T # {} PROVE FALSE
  OBVIOUS
<1>1. PICK m \in Nat \ T : \A k \in Nat \ T : m <= k
  BY LeastNumber
<1>2. m - 1 \in T
  BY <1>1
<1> QED
  BY <1>1, <1>2

\* The greatest number of a set of naturals up to n.
LEMMA MaxIsThere ==
    ASSUME NEW n \in Nat, NEW t \in SUBSET (1..n), t # {}
    PROVE  Max(t) \in t /\ \A x \in t : Max(t) >= x
<1> DEFINE Gaps == {k \in 0..n : n - k \in t}
<1>1. PICK x \in t : TRUE
  OBVIOUS
<1>2. n - x \in Gaps /\ Gaps \subseteq Nat
  BY <1>1
<1>3. PICK k \in Gaps : \A j \in Gaps : k <= j
  BY <1>2, LeastNumber
<1>4. n - k \in t /\ \A y \in t : n - k >= y
  <2>1. \A y \in t : n - y \in Gaps
    OBVIOUS
  <2> QED
    BY <1>3, <2>1
<1>5. \E m \in t : \A y \in t : m >= y
  BY <1>4
<1> QED
  BY <1>5 DEF Max

\* The least number of a set of naturals from 1 on.
LEMMA MinIsThere ==
    ASSUME NEW n \in Nat, NEW t \in SUBSET (1..n), t # {}
    PROVE  Min(t) \in t /\ \A x \in t : Min(t) <= x
<1>1. \E m \in t : \A y \in t : m <= y
  BY LeastNumber, t \in SUBSET Nat
<1> QED
  BY <1>1 DEF Min

\* The greatest number of an interval is its end.
LEMMA MaxOfInterval ==
    ASSUME NEW j \in Nat \ {0}
    PROVE  Max(1..j) = j /\ (1..j) \ {j} = 1..(j - 1)
<1>1. Max(1..j) \in 1..j /\ \A x \in 1..j : Max(1..j) >= x
  BY MaxIsThere, 1..j # {}, 1..j \in SUBSET (1..j)
<1> QED
  BY <1>1

\* The least number of an interval is its beginning.
LEMMA MinOfInterval ==
    ASSUME NEW j \in Nat \ {0}, NEW n \in Nat, j <= n
    PROVE  Min(j..n) = j /\ (j..n) \ {j} = (j + 1)..n
<1>1. j..n \in SUBSET (1..n) /\ j \in j..n
  OBVIOUS
<1>2. Min(j..n) \in j..n /\ Min(j..n) <= j
  BY <1>1, MinIsThere
<1> QED
  BY <1>2

\* Pick takes an element of every nonempty subset of D.
Picks(pick, D) == \A t \in SUBSET D : t # {} => pick[t] \in t

\* Iter folds F over every subset of D, in the order of pick.
IsFold(iter, D, base, pick, F) ==
    \A t \in SUBSET D :
        iter[t] = IF t = {} THEN base ELSE F[<<pick[t], iter[t \ {pick[t]}]>>]

\* A function on the subsets of a finite set that is defined by taking an element out:
\* there is one, given step by step for more and more elements.
LEMMA FoldExists ==
    ASSUME NEW D, IsFiniteSet(D), NEW A, NEW base \in A, NEW pick, Picks(pick, D),
           NEW F \in [D \X A -> A]
    PROVE  \E iter \in [SUBSET D -> A] : IsFold(iter, D, base, pick, F)
<1>0. \A t \in SUBSET D : t # {} => pick[t] \in t
  BY DEF Picks
<1> DEFINE Small(n) == {t \in SUBSET D : Cardinality(t) <= n}
           Given(iter, n) ==
               \A t \in Small(n) :
                   iter[t] = IF t = {} THEN base ELSE F[<<pick[t], iter[t \ {pick[t]}]>>]
           T == {n \in Nat : \E iter \in [SUBSET D -> A] : Given(iter, n)}
<1>1. \A t \in SUBSET D : IsFiniteSet(t) /\ Cardinality(t) \in Nat /\ Cardinality(t) <= Cardinality(D)
  BY FS_Subset, FS_CardinalityType
<1>2. \A t \in SUBSET D : t # {} =>
          /\ t \ {pick[t]} \in SUBSET D
          /\ Cardinality(t \ {pick[t]}) = Cardinality(t) - 1
          /\ Cardinality(t) # 0
  BY <1>0, <1>1, FS_RemoveElement, FS_EmptySet
<1>3. 0 \in T
  <2> DEFINE iter == [t \in SUBSET D |-> base]
  <2>1. \A t \in Small(0) : t = {}
    <3> SUFFICES ASSUME NEW t \in SUBSET D, Cardinality(t) <= 0 PROVE t = {}
      OBVIOUS
    <3> QED
      BY <1>1, FS_EmptySet
  <2>2. iter \in [SUBSET D -> A] /\ Given(iter, 0)
    BY <2>1
  <2> QED
    BY <2>2
<1>4. ASSUME NEW n \in T PROVE n + 1 \in T
  <2>1. PICK g \in [SUBSET D -> A] : Given(g, n)
    OBVIOUS
  <2> DEFINE iter == [t \in SUBSET D |-> IF t = {} THEN base ELSE F[<<pick[t], g[t \ {pick[t]}]>>]]
  <2>2. iter \in [SUBSET D -> A]
    <3>1. ASSUME NEW t \in SUBSET D, t # {} PROVE F[<<pick[t], g[t \ {pick[t]}]>>] \in A
      <4>1. pick[t] \in D /\ t \ {pick[t]} \in SUBSET D
        BY <1>0, <3>1
      <4>2. <<pick[t], g[t \ {pick[t]}]>> \in D \X A
        BY <4>1
      <4> QED
        BY <4>2
    <3> QED
      BY <3>1
  <2>3. \A t \in Small(n) : iter[t] = g[t]
    BY <2>1
  <2>4. \A t \in Small(n + 1) : t # {} => t \ {pick[t]} \in Small(n)
    BY <1>1, <1>2
  <2>5. Given(iter, n + 1)
    BY <2>3, <2>4
  <2> HIDE DEF iter, Given
  <2> QED
    BY <2>2, <2>5
<1>5. T = Nat
  <2> HIDE DEF T
  <2>1. T \in SUBSET Nat
    BY DEF T
  <2> QED
    BY <1>3, <1>4, <2>1, InductiveSet
<1>6. PICK iter \in [SUBSET D -> A] : Given(iter, Cardinality(D))
  BY <1>1, <1>5, D \in SUBSET D
<1> QED
  BY <1>1, <1>6 DEF IsFold

-----------------------------------------------------------------------------
\* F gives the capacities of the widths up to n.
CapacitiesTo(f, n) ==
    f = [w \in 0..n |-> IF w = 0 THEN 1 ELSE Base * f[w - 1]]

\* What such a function is at each width.
LEMMA CapacitiesAt ==
    ASSUME NEW f, NEW n \in Nat, CapacitiesTo(f, n)
    PROVE  \A w \in 0..n : f[w] = IF w = 0 THEN 1 ELSE Base * f[w - 1]
BY Zenon DEF CapacitiesTo

\* There is one for every n, and its values are numbers from 1 on.
LEMMA CapacitiesExist ==
    ASSUME NEW n \in Nat
    PROVE  \E f \in [0..n -> Nat \ {0}] : CapacitiesTo(f, n)
<1> DEFINE T == {k \in Nat : \E f \in [0..k -> Nat \ {0}] : CapacitiesTo(f, k)}
<1>1. 0 \in T
  <2> DEFINE f == [w \in 0..0 |-> 1]
  <2>1. f \in [0..0 -> Nat \ {0}] /\ CapacitiesTo(f, 0)
    BY DEF CapacitiesTo
  <2> QED
    BY <2>1
<1>2. ASSUME NEW k \in T PROVE k + 1 \in T
  <2>1. PICK f \in [0..k -> Nat \ {0}] : CapacitiesTo(f, k)
    OBVIOUS
  <2> DEFINE g == [w \in 0..(k + 1) |-> IF w = k + 1 THEN Base * f[k] ELSE f[w]]
             h == [w \in 0..(k + 1) |-> IF w = 0 THEN 1 ELSE Base * g[w - 1]]
  <2>2. Base * f[k] \in Nat \ {0}
    <3>1. Base \in Nat \ {0} /\ f[k] \in Nat \ {0}
      BY TransactionsAssumption
    <3> QED
      BY <3>1
  <2>3. g \in [0..(k + 1) -> Nat \ {0}]
    BY <2>2
  <2>4. \A w \in 0..(k + 1) : g[w] = h[w]
    <3> TAKE w \in 0..(k + 1)
    <3>1. CASE w = k + 1
      <4>1. w # 0 /\ w - 1 \in 0..(k + 1) /\ w - 1 = k /\ k # k + 1
        BY <3>1
      <4> QED
        BY <3>1, <4>1
    <3>2. CASE w # k + 1
      <4>1. w \in 0..k /\ (w # 0 => w - 1 \in 0..(k + 1) /\ w - 1 # k + 1)
        BY <3>2
      <4>2. f[w] = IF w = 0 THEN 1 ELSE Base * f[w - 1]
        BY <2>1, <4>1, CapacitiesAt
      <4> QED
        BY <3>2, <4>1, <4>2
    <3> QED
      BY <3>1, <3>2
  <2>5. DOMAIN g = 0..(k + 1) /\ g = [w \in 0..(k + 1) |-> g[w]] /\ h = [w \in 0..(k + 1) |-> h[w]]
    OBVIOUS
  <2>6. CapacitiesTo(g, k + 1)
    <3>1. h = [w \in 0..(k + 1) |-> IF w = 0 THEN 1 ELSE Base * g[w - 1]]
      OBVIOUS
    <3> HIDE DEF g, h
    <3>2. g = h
      BY <2>4, <2>5
    <3> QED
      BY <3>1, <3>2 DEF CapacitiesTo
  <2> HIDE DEF g
  <2>7. \E e \in [0..(k + 1) -> Nat \ {0}] : CapacitiesTo(e, k + 1)
    BY <2>3, <2>6
  <2>8. k + 1 \in Nat
    OBVIOUS
  <2> QED
    BY <2>7, <2>8, Zenon
<1>3. T = Nat
  <2> HIDE DEF T
  <2>1. T \in SUBSET Nat
    BY DEF T
  <2> QED
    BY <1>1, <1>2, <2>1, InductiveSet
<1> QED
  BY <1>3

\* They agree, as far as both go.
LEMMA CapacitiesAgree ==
    ASSUME NEW m \in Nat, NEW n \in Nat, NEW f, NEW g, CapacitiesTo(f, m), CapacitiesTo(g, n)
    PROVE  \A w \in 0..m : w <= n => f[w] = g[w]
<1> DEFINE T == {w \in Nat : w <= m /\ w <= n => f[w] = g[w]}
<1>1. \A w \in 0..m : f[w] = IF w = 0 THEN 1 ELSE Base * f[w - 1]
  BY CapacitiesAt
<1>2. \A w \in 0..n : g[w] = IF w = 0 THEN 1 ELSE Base * g[w - 1]
  BY CapacitiesAt
<1>3. 0 \in T
  BY <1>1, <1>2
<1>4. ASSUME NEW w \in T PROVE w + 1 \in T
  <2> SUFFICES ASSUME w + 1 <= m, w + 1 <= n PROVE f[w + 1] = g[w + 1]
    OBVIOUS
  <2>1. f[w] = g[w] /\ w + 1 \in 0..m /\ w + 1 \in 0..n /\ w + 1 # 0 /\ (w + 1) - 1 = w
    OBVIOUS
  <2>2. f[w + 1] = Base * f[w] /\ g[w + 1] = Base * g[w]
    BY <1>1, <1>2, <2>1
  <2> QED
    BY <2>1, <2>2
<1>5. T = Nat
  <2> HIDE DEF T
  <2>1. T \in SUBSET Nat
    BY DEF T
  <2> QED
    BY <1>3, <1>4, <2>1, InductiveSet
<1> QED
  BY <1>5

\* The recursive definition of Capacity holds of it.
LEMMA CapacityEquation ==
    Capacity = [w \in Nat |-> IF w = 0 THEN 1 ELSE Base * Capacity[w - 1]]
<1> DEFINE upTo == [n \in Nat |-> CHOOSE f \in [0..n -> Nat \ {0}] : CapacitiesTo(f, n)]
           c == [n \in Nat |-> upTo[n][n]]
           d == [w \in Nat |-> IF w = 0 THEN 1 ELSE Base * c[w - 1]]
<1>1. ASSUME NEW n \in Nat PROVE CapacitiesTo(upTo[n], n)
  <2>1. upTo[n] = CHOOSE f \in [0..n -> Nat \ {0}] : CapacitiesTo(f, n)
    OBVIOUS
  <2> HIDE DEF upTo
  <2> QED
    BY <2>1, CapacitiesExist
<1> HIDE DEF upTo
<1>2. ASSUME NEW n \in Nat PROVE c[n] = d[n]
  <2>1. upTo[n][n] = IF n = 0 THEN 1 ELSE Base * upTo[n][n - 1]
    BY <1>1, CapacitiesAt, n \in 0..n
  <2>2. n # 0 => upTo[n][n - 1] = upTo[n - 1][n - 1]
    BY <1>1, CapacitiesAgree, n # 0 => n - 1 \in Nat /\ n - 1 \in 0..n
  <2> QED
    BY <2>1, <2>2, n # 0 => n - 1 \in Nat
<1>3. d = [w \in Nat |-> IF w = 0 THEN 1 ELSE Base * c[w - 1]]
  OBVIOUS
<1>4. c = d
  <2>1. c = [w \in Nat |-> c[w]] /\ d = [w \in Nat |-> d[w]]
    OBVIOUS
  <2> HIDE DEF c, d
  <2> QED
    BY <1>2, <2>1
<1> HIDE DEF c, d
<1>5. \E f : f = [w \in Nat |-> IF w = 0 THEN 1 ELSE Base * f[w - 1]]
  BY <1>3, <1>4
<1> QED
  BY <1>5, Zenon DEF Capacity

\* A field of no bytes has one value, and each byte more multiplies them by Base.
LEMMA CapacityStep ==
    /\ Capacity[0] = 1
    /\ \A w \in Nat : Capacity[w + 1] = Base * Capacity[w]
<1>1. \A w \in Nat : Capacity[w] = IF w = 0 THEN 1 ELSE Base * Capacity[w - 1]
  BY CapacityEquation, Zenon
<1>2. \A w \in Nat : w + 1 \in Nat /\ w + 1 # 0 /\ (w + 1) - 1 = w
  OBVIOUS
<1> QED
  BY <1>1, <1>2, 0 \in Nat

\* A field has at least one value.
LEMMA CapacityType ==
    ASSUME NEW w \in Nat
    PROVE  Capacity[w] \in Nat \ {0}
<1> DEFINE T == {k \in Nat : Capacity[k] \in Nat \ {0}}
<1>1. 0 \in T
  BY CapacityStep
<1>2. ASSUME NEW k \in T PROVE k + 1 \in T
  <2>1. Base \in Nat \ {0} /\ Capacity[k] \in Nat \ {0} /\ Capacity[k + 1] = Base * Capacity[k]
    BY CapacityStep, TransactionsAssumption
  <2>2. Base * Capacity[k] \in Nat \ {0}
    BY <2>1
  <2> QED
    BY <2>1, <2>2
<1>3. T = Nat
  <2> HIDE DEF T
  <2>1. T \in SUBSET Nat
    BY DEF T
  <2> QED
    BY <1>1, <1>2, <2>1, InductiveSet
<1> QED
  BY <1>3

-----------------------------------------------------------------------------
\* The remainder of a sum of a multiple and a smaller number is that number, the quotient
\* the multiple's.
LEMMA DivisionIsUnique ==
    ASSUME NEW m \in Nat \ {0}, NEW q \in Int, NEW r \in 0..(m - 1)
    PROVE  (m * q + r) % m = r /\ (m * q + r) \div m = q
OBVIOUS

\* Division with a remainder.
LEMMA Division ==
    ASSUME NEW n \in Int, NEW m \in Nat \ {0}
    PROVE  /\ n \div m \in Int /\ n % m \in 0..(m - 1)
           /\ n = m * (n \div m) + (n % m)
<1>1. m \in Nat /\ m > 0
  OBVIOUS
<1>2. n = m * (n \div m) + (n % m)
  BY <1>1
<1>3. n \div m \in Int /\ n % m \in 0..(m - 1)
  BY <1>1
<1> QED
  BY <1>2, <1>3

\* A product of positive numbers is one, and no smaller than either.
LEMMA Product ==
    ASSUME NEW a \in Nat \ {0}, NEW b \in Nat \ {0}
    PROVE  a * b \in Nat \ {0} /\ a <= a * b /\ b <= a * b
OBVIOUS

\* Dividing by two numbers is dividing by their product; the remainder of the product
\* is that of one and of the other, with its weight.
LEMMA DivisionByProduct ==
    ASSUME NEW n \in Int, NEW a \in Nat \ {0}, NEW b \in Nat \ {0}
    PROVE  /\ (n \div a) \div b = n \div (a * b)
           /\ n % (a * b) = (n % a) + a * ((n \div a) % b)
<1> DEFINE q == n \div a
           p == q \div b
           r == n % a
           s == q % b
<1>1. n = a * q + r /\ q \in Int /\ r \in 0..(a - 1)
  BY Division
<1>2. q = b * p + s /\ p \in Int /\ s \in 0..(b - 1)
  BY <1>1, Division
<1> HIDE DEF q, p, r, s
<1>3. a * b \in Nat \ {0} /\ a * p \in Int /\ a * s \in Int
  BY <1>1, <1>2, Product
<1>4. n = (a * b) * p + (a * s + r)
  <2>1. a * q = a * (b * p) + a * s
    BY <1>1, <1>2
  <2>2. a * (b * p) = (a * b) * p
    BY <1>2
  <2> QED
    BY <1>1, <1>2, <1>3, <2>1, <2>2
<1>5. a * s + r \in 0..(a * b - 1)
  <2>1. a * s <= a * (b - 1) /\ a * s >= 0
    BY <1>2
  <2>2. a * (b - 1) = a * b - a
    OBVIOUS
  <2> QED
    BY <1>1, <1>3, <2>1, <2>2
<1>6. n % (a * b) = a * s + r /\ n \div (a * b) = p
  BY <1>2, <1>3, <1>4, <1>5, DivisionIsUnique
<1> QED
  BY <1>1, <1>3, <1>6 DEF q, p, r, s

\* Half of the values of a field, and twice that.
LEMMA Halves ==
    ASSUME NEW w \in Nat \ {0}
    PROVE  /\ Capacity[w] \div 2 \in Nat \ {0}
           /\ Capacity[w] = 2 * (Capacity[w] \div 2)
<1> DEFINE c == Capacity[w - 1]
           b == Base \div 2
<1>1. Capacity[w] = Base * c /\ c \in Nat \ {0}
  BY CapacityStep, CapacityType, w - 1 \in Nat, (w - 1) + 1 = w
<1>2. Base = 2 * b /\ b \in Nat \ {0}
  BY TransactionsAssumption
<1> HIDE DEF c, b
<1>3. b * c \in Nat \ {0} /\ Base * c = 2 * (b * c)
  <2>1. b * c \in Nat \ {0}
    BY <1>1, <1>2, Product
  <2>2. (2 * b) * c = 2 * (b * c)
    BY <1>1, <1>2
  <2> QED
    BY <1>2, <2>1, <2>2
<1> DEFINE d == b * c
<1>4. d \in Nat \ {0} /\ Capacity[w] = 2 * d
  BY <1>1, <1>3
<1> HIDE DEF d
<1> QED
  BY <1>4

\* Two's complement is the only number of its range that differs from n by a multiple of
\* the number of values.
LEMMA WrapIs ==
    ASSUME NEW w \in Nat \ {0}, NEW m \in SignedNumber(w), NEW q \in Int, NEW n \in Int,
           n = m + Capacity[w] * q
    PROVE  Wrap(n, w) = m
<1> DEFINE half == Capacity[w] \div 2
<1>1. half \in Nat \ {0} /\ Capacity[w] = 2 * half /\ 2 * half \in Nat \ {0}
  BY Halves
<1>2. m \in Int /\ m + half \in 0..(2 * half - 1)
  <2>1. m \in -half..(half - 1)
    BY DEF SignedNumber
  <2> HIDE DEF half
  <2> QED
    BY <1>1, <2>1
<1>3. Wrap(n, w) = ((n + half) % (2 * half)) - half
  BY DEF Wrap
<1> HIDE DEF half
<1>4. n + half = (2 * half) * q + (m + half)
  BY <1>1, <1>2
<1>5. (n + half) % (2 * half) = m + half
  <2> DEFINE c == 2 * half
             r == m + half
  <2>1. (c * q + r) % c = r
    <3>1. c \in Nat \ {0} /\ r \in 0..(c - 1)
      BY <1>1, <1>2
    <3> HIDE DEF c, r
    <3> QED
      BY <3>1, DivisionIsUnique
  <2> QED
    BY <1>4, <2>1
<1> QED
  BY <1>1, <1>2, <1>3, <1>5

\* What Wrap gives is in its range, and differs by a multiple of the number of values.
LEMMA WrapType ==
    ASSUME NEW w \in Nat \ {0}, NEW n \in Int
    PROVE  /\ Wrap(n, w) \in SignedNumber(w) /\ Wrap(n, w) \in Int
           /\ \E q \in Int : n = Wrap(n, w) + Capacity[w] * q
<1> DEFINE half == Capacity[w] \div 2
           r == (n + half) % (2 * half)
           q == (n + half) \div (2 * half)
<1>1. half \in Nat \ {0} /\ Capacity[w] = 2 * half /\ 2 * half \in Nat \ {0}
  BY Halves
<1>2. Wrap(n, w) = r - half /\ SignedNumber(w) = -half..(half - 1)
  BY DEF Wrap, SignedNumber
<1>3. n + half = (2 * half) * q + r /\ q \in Int /\ r \in 0..(2 * half - 1)
  <2> HIDE DEF half
  <2> QED
    BY <1>1, n + half \in Int, Division
<1> HIDE DEF half, r, q
<1>4. (2 * half) * q \in Int
  BY <1>1, <1>3
<1> QED
  BY <1>1, <1>2, <1>3, <1>4

\* A number in the range stays what it is.
LEMMA WrapOfSigned ==
    ASSUME NEW w \in Nat \ {0}, NEW n \in SignedNumber(w)
    PROVE  Wrap(n, w) = n /\ n \in Int
<1>1. n \in Int
  BY Halves DEF SignedNumber
<1>2. n = n + Capacity[w] * 0
  BY <1>1, CapacityType
<1> QED
  BY <1>1, <1>2, WrapIs, 0 \in Int

\* Multiples of the number of values make no difference.
LEMMA WrapOfMultiple ==
    ASSUME NEW w \in Nat \ {0}, NEW n \in Int, NEW q \in Int, NEW m \in Int,
           n = m + Capacity[w] * q
    PROVE  Wrap(n, w) = Wrap(m, w)
<1>1. PICK p \in Int : m = Wrap(m, w) + Capacity[w] * p
  BY WrapType
<1> DEFINE x == Wrap(m, w)
           c == Capacity[w]
<1>2. x \in SignedNumber(w) /\ x \in Int /\ c \in Int
  BY WrapType, CapacityType
<1>3. n = x + c * (p + q)
  <2> HIDE DEF x, c
  <2>1. c * (p + q) = c * p + c * q
    BY <1>2
  <2>2. n = m + c * q /\ m = x + c * p
    BY <1>1 DEF x, c
  <2>3. c * p \in Int /\ c * q \in Int
    BY <1>2
  <2> QED
    BY <1>2, <2>1, <2>2, <2>3
<1> HIDE DEF x
<1>4. Wrap(n, w) = x
  BY <1>2, <1>3, WrapIs, p + q \in Int
<1> QED
  BY <1>4 DEF x

\* A term may be wrapped before it is added.
LEMMA WrapOfSum ==
    ASSUME NEW w \in Nat \ {0}, NEW a \in Int, NEW b \in Int
    PROVE  Wrap(Wrap(a, w) + b, w) = Wrap(a + b, w)
<1>1. PICK q \in Int : a = Wrap(a, w) + Capacity[w] * q
  BY WrapType
<1>2. Wrap(a, w) \in Int /\ Capacity[w] * q \in Int
  BY WrapType, CapacityType
<1>3. a + b = (Wrap(a, w) + b) + Capacity[w] * q
  BY <1>1, <1>2
<1> QED
  BY <1>2, <1>3, WrapOfMultiple, a + b \in Int, Wrap(a, w) + b \in Int

-----------------------------------------------------------------------------
\* Unsigned reads a number from its last byte to its first: value[j] is that of the bytes
\* from j on.
LEMMA UnsignedByBytes ==
    ASSUME NEW n \in Nat, NEW bytes \in [1..n -> Byte]
    PROVE  \E value \in [1..(n + 1) -> Nat] :
               /\ value[n + 1] = 0
               /\ \A j \in 1..n : value[j] = bytes[j] + Base * value[j + 1]
               /\ Unsigned(bytes) = value[1]
<1> DEFINE Equation(iter) ==
               iter = [t \in SUBSET (1..n) |->
                          IF t = {} THEN 0 ELSE bytes[Min(t)] + Base * iter[t \ {Min(t)}]]
           sum == CHOOSE iter : Equation(iter)
           value == [j \in 1..(n + 1) |-> sum[j..n]]
<1>1. Base \in Nat /\ \A j \in 1..n : bytes[j] \in Nat
  BY TransactionsAssumption DEF Byte
<1>2. \E iter : Equation(iter)
  <2> DEFINE pick == [t \in SUBSET (1..n) |-> Min(t)]
             F == [p \in (1..n) \X Nat |-> bytes[p[1]] + Base * p[2]]
  <2>1. IsFiniteSet(1..n)
    BY FS_Interval
  <2>2. \A t \in SUBSET (1..n) : t # {} => pick[t] \in t
    BY MinIsThere
  <2>3. F \in [(1..n) \X Nat -> Nat]
    BY <1>1
  <2>4. \A j \in 1..n, v \in Nat : F[<<j, v>>] = bytes[j] + Base * v
    OBVIOUS
  <2>5. \A t \in SUBSET (1..n) : pick[t] = Min(t)
    OBVIOUS
  <2> HIDE DEF pick, F
  <2>6. \E iter \in [SUBSET (1..n) -> Nat] : IsFold(iter, 1..n, 0, pick, F)
    BY <2>1, <2>2, <2>3, FoldExists, 0 \in Nat DEF Picks
  <2>7. PICK iter \in [SUBSET (1..n) -> Nat] : \A t \in SUBSET (1..n) :
            iter[t] = IF t = {} THEN 0 ELSE F[<<pick[t], iter[t \ {pick[t]}]>>]
    BY <2>6 DEF IsFold
  <2> DEFINE new == [t \in SUBSET (1..n) |->
                        IF t = {} THEN 0 ELSE bytes[Min(t)] + Base * iter[t \ {Min(t)}]]
  <2>8. ASSUME NEW t \in SUBSET (1..n) PROVE iter[t] = new[t]
    <3>1. CASE t = {}
      BY <2>7, <3>1
    <3>2. CASE t # {}
      <4>1. pick[t] \in 1..n /\ iter[t \ {pick[t]}] \in Nat /\ pick[t] = Min(t)
        BY <2>2, <2>5, <2>7, <3>2
      <4> QED
        BY <2>4, <2>7, <3>2, <4>1
    <3> QED
      BY <3>1, <3>2
  <2>9. iter = [t \in SUBSET (1..n) |-> iter[t]] /\ new = [t \in SUBSET (1..n) |-> new[t]]
    OBVIOUS
  <2>10. iter = new
    <3> HIDE DEF new
    <3> QED
      BY <2>8, <2>9
  <2>11. Equation(iter)
    BY <2>10
  <2> QED
    BY <2>11
<1>3. Equation(sum)
  <2> HIDE DEF Equation
  <2> QED
    BY <1>2
<1>4. Unsigned(bytes) = sum[1..n]
  <2>1. DOMAIN bytes = 1..n
    OBVIOUS
  <2> QED
    BY <2>1, Zenon DEF Unsigned, FoldRight, MapThenFoldSet
<1>5. \A t \in SUBSET (1..n) :
          sum[t] = IF t = {} THEN 0 ELSE bytes[Min(t)] + Base * sum[t \ {Min(t)}]
  <2> HIDE DEF sum
  <2> QED
    BY <1>3, Zenon
<1> HIDE DEF sum, Equation
<1>6. value[n + 1] = 0
  BY <1>5, (n + 1)..n = {}, n + 1 \in 1..(n + 1)
<1>7. ASSUME NEW j \in 1..n PROVE value[j] = bytes[j] + Base * value[j + 1]
  <2>1. j..n \in SUBSET (1..n) /\ j \in j..n /\ j \in 1..(n + 1) /\ j + 1 \in 1..(n + 1)
    OBVIOUS
  <2>2. Min(j..n) = j /\ (j..n) \ {j} = (j + 1)..n
    BY MinOfInterval
  <2> QED
    BY <1>5, <2>1, <2>2
<1>8. \A j \in 1..(n + 1) : value[j] \in Nat
  <2> DEFINE T == {k \in Nat : k <= n => value[n + 1 - k] \in Nat}
  <2> HIDE DEF value
  <2>1. 0 \in T
    BY <1>6
  <2>2. ASSUME NEW k \in T PROVE k + 1 \in T
    <3> SUFFICES ASSUME k + 1 <= n PROVE value[n + 1 - (k + 1)] \in Nat
      OBVIOUS
    <3>1. n - k \in 1..n /\ n + 1 - (k + 1) = n - k /\ (n - k) + 1 = n + 1 - k
      OBVIOUS
    <3>2. value[(n - k) + 1] \in Nat
      BY <3>1
    <3>3. value[n - k] = bytes[n - k] + Base * value[(n - k) + 1]
      BY <1>7, <3>1
    <3>4. bytes[n - k] \in Nat
      BY <1>1, <3>1
    <3> HIDE DEF T
    <3>5. value[n - k] \in Nat
      BY <1>1, <3>2, <3>3, <3>4
    <3> QED
      BY <3>1, <3>5
  <2>3. T = Nat
    <3> HIDE DEF T
    <3>1. T \in SUBSET Nat
      BY DEF T
    <3> QED
      BY <2>1, <2>2, <3>1, InductiveSet
  <2> QED
    <3> TAKE j \in 1..(n + 1)
    <3>1. n + 1 - j \in T /\ n + 1 - (n + 1 - j) = j
      <4>1. n + 1 - j \in Nat
        OBVIOUS
      <4> HIDE DEF T
      <4> QED
        BY <2>3, <4>1
    <3> QED
      BY <3>1
<1>9. value \in [1..(n + 1) -> Nat] /\ value[1] = Unsigned(bytes)
  BY <1>4, <1>8, 1 \in 1..(n + 1)
<1> HIDE DEF value
<1> QED
  BY <1>6, <1>7, <1>9

\* One byte is the number it is.
LEMMA UnsignedOfByte ==
    ASSUME NEW b \in Byte
    PROVE  Unsigned(<<b>>) = b
<1>1. <<b>> \in [1..1 -> Byte]
  OBVIOUS
<1>2. PICK value \in [1..(1 + 1) -> Nat] :
          /\ value[1 + 1] = 0
          /\ \A j \in 1..1 : value[j] = <<b>>[j] + Base * value[j + 1]
          /\ Unsigned(<<b>>) = value[1]
  BY <1>1, UnsignedByBytes
<1>3. value[1] = b + Base * 0
  BY <1>2
<1> QED
  BY <1>2, <1>3, TransactionsAssumption DEF Byte

\* LittleEndian makes bytes, as many as it is asked for.
LEMMA LittleEndianType ==
    ASSUME NEW w \in Nat, NEW n \in Int
    PROVE  /\ LittleEndian(n, w) \in [1..w -> Byte]
           /\ LittleEndian(n, w) \in Seq(Byte) /\ Len(LittleEndian(n, w)) = w
<1>1. ASSUME NEW i \in 1..w PROVE (n \div Capacity[i - 1]) % Base \in Byte
  <2>1. Capacity[i - 1] \in Nat \ {0} /\ Base \in Nat \ {0}
    BY CapacityType, TransactionsAssumption
  <2>2. n \div Capacity[i - 1] \in Int
    BY <2>1, Division
  <2> QED
    BY <2>1, <2>2, Division DEF Byte
<1>2. LittleEndian(n, w) \in [1..w -> Byte]
  BY <1>1 DEF LittleEndian
<1> QED
  BY <1>2

\* The bytes of n are read as n, less the multiples of what a field holds.
LEMMA ReadNumberBack ==
    ASSUME NEW w \in Nat, NEW n \in Int
    PROVE  Unsigned(LittleEndian(n, w)) = n % Capacity[w]
<1> DEFINE bytes == LittleEndian(n, w)
           rest(j) == (n \div Capacity[j - 1]) % Capacity[w + 1 - j]
<1>1. PICK value \in [1..(w + 1) -> Nat] :
          /\ value[w + 1] = 0
          /\ \A j \in 1..w : value[j] = bytes[j] + Base * value[j + 1]
          /\ Unsigned(bytes) = value[1]
  BY LittleEndianType, UnsignedByBytes
<1> DEFINE T == {k \in Nat : k <= w => value[w + 1 - k] = rest(w + 1 - k)}
<1>2. ASSUME NEW m \in Int PROVE m % 1 = 0
  OBVIOUS
<1>3. 0 \in T
  <2>1. w + 1 - (w + 1) = 0 /\ w + 1 - 0 = w + 1 /\ w + 1 - 1 = w
    OBVIOUS
  <2>2. Capacity[w] \in Nat \ {0}
    BY CapacityType
  <2>3. rest(w + 1) = (n \div Capacity[w]) % 1
    <3>1. Capacity[w + 1 - (w + 1)] = 1 /\ Capacity[(w + 1) - 1] = Capacity[w]
      BY <2>1, CapacityStep
    <3> QED
      BY <3>1
  <2>4. n \div Capacity[w] \in Int
    BY <2>2, Division
  <2>5. rest(w + 1) = 0
    BY <1>2, <2>3, <2>4
  <2> QED
    BY <1>1, <2>1, <2>5
<1>4. ASSUME NEW k \in T PROVE k + 1 \in T
  <2> SUFFICES ASSUME k + 1 <= w PROVE value[w + 1 - (k + 1)] = rest(w + 1 - (k + 1))
    OBVIOUS
  <2> DEFINE j == w - k
             c == Capacity[j - 1]
             m == n \div c
  <2>1. j \in 1..w /\ w + 1 - (k + 1) = j /\ j + 1 = w + 1 - k
    OBVIOUS
  <2>2. value[j + 1] = rest(j + 1)
    BY <2>1
  <2>3. value[j] = bytes[j] + Base * value[j + 1]
    BY <1>1, <2>1
  <2>4. bytes[j] = m % Base
    BY <2>1 DEF LittleEndian
  <2>5. c \in Nat \ {0} /\ Base \in Nat \ {0} /\ m \in Int /\ Capacity[k] \in Nat \ {0}
    <3>1. j - 1 \in Nat /\ k \in Nat
      BY <2>1
    <3>2. c \in Nat \ {0} /\ Capacity[k] \in Nat \ {0}
      BY <3>1, CapacityType
    <3> HIDE DEF c
    <3> QED
      BY <3>2, TransactionsAssumption, Division
  <2>6. Capacity[j] = c * Base /\ Capacity[k + 1] = Base * Capacity[k]
    <3>1. Capacity[j] = Base * c
      BY <2>1, CapacityStep, j - 1 \in Nat, (j - 1) + 1 = j
    <3>2. Capacity[k + 1] = Base * Capacity[k]
      BY CapacityStep
    <3> HIDE DEF c, j
    <3>3. Base * c = c * Base
      BY <2>5
    <3> QED
      BY <3>1, <3>2, <3>3
  <2>7. rest(j + 1) = (m \div Base) % Capacity[k]
    <3>1. (j + 1) - 1 = j /\ w + 1 - (j + 1) = k
      BY <2>1
    <3>2. n \div Capacity[j] = m \div Base
      <4> HIDE DEF j, c
      <4>1. (n \div c) \div Base = n \div (c * Base)
        BY <2>5, DivisionByProduct
      <4> QED
        BY <2>6, <4>1
    <3> HIDE DEF j, m
    <3> QED
      BY <3>1, <3>2
  <2>8. rest(j) = m % (Base * Capacity[k])
    <3>1. w + 1 - j = k + 1
      BY <2>1
    <3> HIDE DEF j
    <3> QED
      BY <2>6, <3>1
  <2>9. m % (Base * Capacity[k]) = (m % Base) + Base * ((m \div Base) % Capacity[k])
    BY <2>5, DivisionByProduct
  <2> HIDE DEF j, m, c, rest, bytes
  <2> QED
    BY <2>1, <2>2, <2>3, <2>4, <2>7, <2>8, <2>9
<1>5. T = Nat
  <2> HIDE DEF T
  <2>1. T \in SUBSET Nat
    BY DEF T
  <2> QED
    BY <1>3, <1>4, <2>1, InductiveSet
<1>6. value[1] = rest(1)
  <2>1. w \in T /\ w + 1 - w = 1
    <3> HIDE DEF T
    <3> QED
      BY <1>5
  <2> QED
    BY <2>1
<1>7. rest(1) = n % Capacity[w]
  <2>1. 1 - 1 = 0 /\ w + 1 - 1 = w /\ n \div 1 = n
    OBVIOUS
  <2> QED
    BY <2>1, CapacityStep
<1> QED
  BY <1>1, <1>6, <1>7

\* A number that a field holds is read as itself.
LEMMA ReadUnsignedBack ==
    ASSUME NEW w \in Nat, NEW n \in Number(w)
    PROVE  Unsigned(LittleEndian(n, w)) = n /\ n \in Nat
<1> DEFINE c == Capacity[w]
<1>1. c \in Nat \ {0} /\ n \in 0..(c - 1)
  BY CapacityType DEF Number
<1>2. Unsigned(LittleEndian(n, w)) = n % c
  BY ReadNumberBack, <1>1
<1> HIDE DEF c
<1>3. n % c = n
  BY <1>1
<1> QED
  BY <1>1, <1>2, <1>3

\* A signed number that a field holds is read as itself in two's complement.
LEMMA ReadSignedBack ==
    ASSUME NEW w \in Nat \ {0}, NEW n \in SignedNumber(w)
    PROVE  Wrap(Unsigned(LittleEndian(n, w)), w) = n
<1> DEFINE c == Capacity[w]
           r == n % c
           q == n \div c
<1>1. n \in Int /\ c \in Nat \ {0}
  BY WrapOfSigned, CapacityType
<1>2. n = c * q + r /\ q \in Int /\ r \in Int
  <2> HIDE DEF c
  <2>1. n \div c \in Int /\ n % c \in 0..(c - 1) /\ n = c * (n \div c) + (n % c)
    BY <1>1, Division
  <2>2. n % c \in Int
    BY <1>1, <2>1
  <2> HIDE DEF q, r
  <2>3. q = n \div c /\ r = n % c
    BY DEF q, r
  <2> QED
    BY <2>1, <2>2, <2>3
<1>3. Unsigned(LittleEndian(n, w)) = r
  BY ReadNumberBack, <1>1
<1> HIDE DEF q, r
<1>4. r = n + c * (-q)
  BY <1>1, <1>2
<1> HIDE DEF c
<1>5. Wrap(r, w) = n
  BY <1>1, <1>2, <1>4, WrapIs, -q \in Int DEF c
<1> QED
  BY <1>3, <1>5

\* Max picks from every set of numbers up to n.
LEMMA MaxPicks ==
    ASSUME NEW n \in Nat
    PROVE  Picks([t \in SUBSET (1..n) |-> Max(t)], 1..n) /\ IsFiniteSet(1..n)
<1>1. IsFiniteSet(1..n)
  BY FS_Interval
<1>2. \A t \in SUBSET (1..n) : t # {} => Max(t) \in t
  BY MaxIsThere
<1> QED
  BY <1>1, <1>2 DEF Picks

\* Every field has a width.
LEMMA Widths ==
    /\ Width.version \in Nat \ {0} /\ Width.hash \in Nat \ {0} /\ Width.index \in Nat \ {0}
    /\ Width.sequence \in Nat \ {0} /\ Width.value \in Nat \ {0} /\ Width.lockTime \in Nat \ {0}
    /\ \A k \in 1..3 : VarWidth[k] \in Nat \ {0}
BY TransactionsAssumption

\* Total adds from the first value to the last, as an int64 does.
LEMMA TotalInOrder ==
    ASSUME NEW n \in Nat, NEW values \in [1..n -> Int]
    PROVE  \E sum \in [0..n -> Int] :
               /\ sum[0] = 0
               /\ \A j \in 1..n : sum[j] = Wrap(sum[j - 1] + values[j], Width.value)
               /\ Total(values) = sum[n]
<1> DEFINE Equation(iter) ==
               iter = [t \in SUBSET (1..n) |->
                          IF t = {} THEN 0 ELSE Wrap(iter[t \ {Max(t)}] + values[Max(t)], Width.value)]
           pick == [t \in SUBSET (1..n) |-> Max(t)]
           F == [p \in (1..n) \X Int |-> Wrap(p[2] + values[p[1]], Width.value)]
           fold == CHOOSE iter : Equation(iter)
           sum == [j \in 0..n |-> fold[1..j]]
<1>1. \A j \in 1..n, s \in Int : Wrap(s + values[j], Width.value) \in Int
  <2> TAKE j \in 1..n, s \in Int
  <2>1. s + values[j] \in Int
    OBVIOUS
  <2> QED
    BY <2>1, WrapType, Widths
<1>2. F \in [(1..n) \X Int -> Int]
  BY <1>1
<1>3. \A j \in 1..n, s \in Int : F[<<j, s>>] = Wrap(s + values[j], Width.value)
  OBVIOUS
<1>4. \A t \in SUBSET (1..n) : pick[t] = Max(t) /\ (t # {} => pick[t] \in 1..n)
  BY MaxIsThere
<1> HIDE DEF F
<1>5. PICK iter \in [SUBSET (1..n) -> Int] : IsFold(iter, 1..n, 0, pick, F)
  BY <1>2, MaxPicks, FoldExists, 0 \in Int
<1>6. Equation(iter)
  <2> DEFINE new == [t \in SUBSET (1..n) |->
                        IF t = {} THEN 0 ELSE Wrap(iter[t \ {Max(t)}] + values[Max(t)], Width.value)]
  <2> HIDE DEF pick
  <2>1. ASSUME NEW t \in SUBSET (1..n) PROVE iter[t] = new[t]
    <3>1. CASE t = {}
      BY <1>5, <3>1 DEF IsFold
    <3>2. CASE t # {}
      <4>1. pick[t] \in 1..n /\ iter[t \ {pick[t]}] \in Int /\ pick[t] = Max(t)
        BY <1>4, <3>2
      <4> QED
        BY <1>3, <1>5, <3>2, <4>1 DEF IsFold
    <3> QED
      BY <3>1, <3>2
  <2>2. iter = [t \in SUBSET (1..n) |-> iter[t]] /\ new = [t \in SUBSET (1..n) |-> new[t]]
    OBVIOUS
  <2>3. iter = new
    <3> HIDE DEF new
    <3> QED
      BY <2>1, <2>2
  <2> QED
    BY <2>3
<1>7. Equation(fold)
  <2> HIDE DEF Equation
  <2> QED
    BY <1>6
<1>8. Total(values) = fold[1..n]
  <2>1. DOMAIN values = 1..n
    OBVIOUS
  <2> QED
    BY <2>1, Zenon DEF Total, FoldLeft, MapThenFoldSet
<1> HIDE DEF fold
<1>9. \A t \in SUBSET (1..n) :
          fold[t] = IF t = {} THEN 0 ELSE Wrap(fold[t \ {Max(t)}] + values[Max(t)], Width.value)
  BY <1>7, Zenon
<1>10. sum[0] = 0
  BY <1>9, 1..0 = {}, 0 \in 0..n
<1>11. ASSUME NEW j \in 1..n PROVE sum[j] = Wrap(sum[j - 1] + values[j], Width.value)
  <2>1. 1..j \in SUBSET (1..n) /\ j \in 1..j /\ j \in 0..n /\ j - 1 \in 0..n
    OBVIOUS
  <2>2. Max(1..j) = j /\ (1..j) \ {j} = 1..(j - 1)
    BY MaxOfInterval
  <2> QED
    BY <1>9, <2>1, <2>2
<1>12. \A j \in 0..n : sum[j] \in Int
  <2> DEFINE T == {k \in Nat : k <= n => sum[k] \in Int}
  <2> HIDE DEF sum
  <2>1. 0 \in T
    BY <1>10
  <2>2. ASSUME NEW k \in T PROVE k + 1 \in T
    <3> SUFFICES ASSUME k + 1 <= n PROVE sum[k + 1] \in Int
      OBVIOUS
    <3>1. sum[k] \in Int /\ k + 1 \in 1..n /\ (k + 1) - 1 = k
      OBVIOUS
    <3>2. sum[k + 1] = Wrap(sum[k] + values[k + 1], Width.value)
      BY <1>11, <3>1
    <3> HIDE DEF T
    <3> QED
      BY <1>1, <3>1, <3>2
  <2>3. T = Nat
    <3> HIDE DEF T
    <3>1. T \in SUBSET Nat
      BY DEF T
    <3> QED
      BY <2>1, <2>2, <3>1, InductiveSet
  <2> QED
    BY <2>3
<1>13. sum \in [0..n -> Int] /\ fold[1..n] = sum[n]
  BY <1>12
<1> HIDE DEF sum
<1>14. Total(values) = sum[n]
  BY <1>8, <1>13, Zenon
<1> QED
  BY <1>10, <1>11, <1>13, <1>14, Zenon

\* Counts are added from the first to the last.
LEMMA CountInOrder ==
    ASSUME NEW n \in Nat, NEW counts \in [1..n -> Nat]
    PROVE  \E sum \in [0..n -> Nat] :
               /\ sum[0] = 0
               /\ \A j \in 1..n : sum[j] = sum[j - 1] + counts[j]
               /\ FoldLeft(LAMBDA total, count : total + count, 0, counts) = sum[n]
<1> DEFINE Equation(iter) ==
               iter = [t \in SUBSET (1..n) |->
                          IF t = {} THEN 0 ELSE iter[t \ {Max(t)}] + counts[Max(t)]]
           pick == [t \in SUBSET (1..n) |-> Max(t)]
           F == [p \in (1..n) \X Nat |-> p[2] + counts[p[1]]]
           fold == CHOOSE iter : Equation(iter)
           sum == [j \in 0..n |-> fold[1..j]]
<1>1. \A j \in 1..n, s \in Nat : s + counts[j] \in Nat
  OBVIOUS
<1>2. F \in [(1..n) \X Nat -> Nat]
  BY <1>1
<1>3. \A j \in 1..n, s \in Nat : F[<<j, s>>] = s + counts[j]
  OBVIOUS
<1>4. \A t \in SUBSET (1..n) : pick[t] = Max(t) /\ (t # {} => pick[t] \in 1..n)
  BY MaxIsThere
<1> HIDE DEF F
<1>5. PICK iter \in [SUBSET (1..n) -> Nat] : IsFold(iter, 1..n, 0, pick, F)
  BY <1>2, MaxPicks, FoldExists, 0 \in Nat
<1>6. Equation(iter)
  <2> DEFINE new == [t \in SUBSET (1..n) |->
                        IF t = {} THEN 0 ELSE iter[t \ {Max(t)}] + counts[Max(t)]]
  <2> HIDE DEF pick
  <2>1. ASSUME NEW t \in SUBSET (1..n) PROVE iter[t] = new[t]
    <3>1. CASE t = {}
      BY <1>5, <3>1 DEF IsFold
    <3>2. CASE t # {}
      <4>1. pick[t] \in 1..n /\ iter[t \ {pick[t]}] \in Nat /\ pick[t] = Max(t)
        BY <1>4, <3>2
      <4> QED
        BY <1>3, <1>5, <3>2, <4>1 DEF IsFold
    <3> QED
      BY <3>1, <3>2
  <2>2. iter = [t \in SUBSET (1..n) |-> iter[t]] /\ new = [t \in SUBSET (1..n) |-> new[t]]
    OBVIOUS
  <2>3. iter = new
    <3> HIDE DEF new
    <3> QED
      BY <2>1, <2>2
  <2> QED
    BY <2>3
<1>7. Equation(fold)
  <2> HIDE DEF Equation
  <2> QED
    BY <1>6
<1>8. FoldLeft(LAMBDA total, count : total + count, 0, counts) = fold[1..n]
  <2>1. DOMAIN counts = 1..n
    OBVIOUS
  <2> QED
    BY <2>1, Zenon DEF FoldLeft, MapThenFoldSet
<1> HIDE DEF fold
<1>9. \A t \in SUBSET (1..n) :
          fold[t] = IF t = {} THEN 0 ELSE fold[t \ {Max(t)}] + counts[Max(t)]
  BY <1>7, Zenon
<1>10. sum[0] = 0
  BY <1>9, 1..0 = {}, 0 \in 0..n
<1>11. ASSUME NEW j \in 1..n PROVE sum[j] = sum[j - 1] + counts[j]
  <2>1. 1..j \in SUBSET (1..n) /\ j \in 1..j /\ j \in 0..n /\ j - 1 \in 0..n
    OBVIOUS
  <2>2. Max(1..j) = j /\ (1..j) \ {j} = 1..(j - 1)
    BY MaxOfInterval
  <2> QED
    BY <1>9, <2>1, <2>2
<1>12. \A j \in 0..n : sum[j] \in Nat
  <2> DEFINE T == {k \in Nat : k <= n => sum[k] \in Nat}
  <2> HIDE DEF sum
  <2>1. 0 \in T
    BY <1>10
  <2>2. ASSUME NEW k \in T PROVE k + 1 \in T
    <3> SUFFICES ASSUME k + 1 <= n PROVE sum[k + 1] \in Nat
      OBVIOUS
    <3>1. sum[k] \in Nat /\ k + 1 \in 1..n /\ (k + 1) - 1 = k
      OBVIOUS
    <3>2. sum[k + 1] = sum[k] + counts[k + 1]
      BY <1>11, <3>1
    <3> HIDE DEF T
    <3> QED
      BY <1>1, <3>1, <3>2
  <2>3. T = Nat
    <3> HIDE DEF T
    <3>1. T \in SUBSET Nat
      BY DEF T
    <3> QED
      BY <2>1, <2>2, <3>1, InductiveSet
  <2> QED
    BY <2>3
<1>13. sum \in [0..n -> Nat] /\ fold[1..n] = sum[n]
  BY <1>12
<1> HIDE DEF sum
<1>14. FoldLeft(LAMBDA total, count : total + count, 0, counts) = sum[n]
  BY <1>8, <1>13, Zenon
<1> QED
  BY <1>10, <1>11, <1>13, <1>14, Zenon

\* What the elements of D are worth, and such a sum for every subset of D.
Worth(u, D) == MapThenSumSet(LAMBDA o : u[o].value, D)

\* sum is that of every subset of D: what one element, of TLA+'s choice, is worth, and the rest.
IsSum(sum, D, u) ==
    \A t \in SUBSET D :
        sum[t] = IF t = {} THEN 0
                 ELSE u[CHOOSE x \in t : TRUE].value + sum[t \ {CHOOSE x \in t : TRUE}]

\* The sum over a set of what its elements are worth takes out one element after another,
\* whichever TLA+'s choice gives.
LEMMA SumTakesOut ==
    ASSUME NEW D, IsFiniteSet(D), NEW u, \A o \in D : u[o].value \in Int
    PROVE  \E sum : IsSum(sum, D, u) /\ Worth(u, D) = sum[D]
<1> DEFINE Equation(iter) ==
               iter = [t \in SUBSET D |->
                          IF t = {} THEN 0
                          ELSE u[CHOOSE x \in t : TRUE].value + iter[t \ {CHOOSE x \in t : TRUE}]]
           pick == [t \in SUBSET D |-> CHOOSE x \in t : TRUE]
           F == [p \in D \X Int |-> u[p[1]].value + p[2]]
           sum == CHOOSE iter : Equation(iter)
<1>1. F \in [D \X Int -> Int]
  OBVIOUS
<1>2. \A o \in D, s \in Int : F[<<o, s>>] = u[o].value + s
  OBVIOUS
<1>3. \A t \in SUBSET D : pick[t] = CHOOSE x \in t : TRUE
  OBVIOUS
<1>4. Picks(pick, D)
  BY <1>3 DEF Picks
<1> HIDE DEF F
<1>5. PICK iter \in [SUBSET D -> Int] : IsFold(iter, D, 0, pick, F)
  BY <1>1, <1>4, FoldExists, 0 \in Int
<1>6. Equation(iter)
  <2> DEFINE new == [t \in SUBSET D |->
                        IF t = {} THEN 0
                        ELSE u[CHOOSE x \in t : TRUE].value + iter[t \ {CHOOSE x \in t : TRUE}]]
  <2> HIDE DEF pick
  <2>1. ASSUME NEW t \in SUBSET D PROVE iter[t] = new[t]
    <3>1. CASE t = {}
      BY <1>5, <3>1 DEF IsFold
    <3>2. CASE t # {}
      <4>1. pick[t] \in D /\ iter[t \ {pick[t]}] \in Int /\ pick[t] = CHOOSE x \in t : TRUE
        BY <1>3, <1>4, <3>2 DEF Picks
      <4>2. iter[t] = u[pick[t]].value + iter[t \ {pick[t]}]
        BY <1>2, <1>5, <3>2, <4>1 DEF IsFold
      <4> QED
        BY <3>2, <4>1, <4>2
    <3> QED
      BY <3>1, <3>2
  <2>2. iter = [t \in SUBSET D |-> iter[t]] /\ new = [t \in SUBSET D |-> new[t]]
    OBVIOUS
  <2>3. iter = new
    <3> HIDE DEF new
    <3> QED
      BY <2>1, <2>2
  <2> QED
    BY <2>3
<1>7. Equation(sum)
  <2> HIDE DEF Equation
  <2> QED
    BY <1>6
<1>8. Worth(u, D) = sum[D]
  BY Zenon DEF Worth, MapThenSumSet, MapThenFoldSet
<1> HIDE DEF sum
<1>9. \A t \in SUBSET D :
          sum[t] = IF t = {} THEN 0
                   ELSE u[CHOOSE x \in t : TRUE].value + sum[t \ {CHOOSE x \in t : TRUE}]
  BY <1>7, Zenon
<1> QED
  BY <1>8, <1>9, Zenon DEF IsSum

\* sum is that of every subset of D, in whatever order its elements are added.
TakesAny(sum, D, u) ==
    /\ sum[{}] = 0
    /\ \A t \in SUBSET D : sum[t] \in Int /\ \A o \in t : sum[t] = u[o].value + sum[t \ {o}]

\* Such a sum may take out any element first.
LEMMA SumTakesAny ==
    ASSUME NEW D, IsFiniteSet(D), NEW u, \A o \in D : u[o].value \in Int, NEW sum, IsSum(sum, D, u)
    PROVE  TakesAny(sum, D, u)
<1> DEFINE Holds(t) == sum[t] \in Int /\ \A o \in t : sum[t] = u[o].value + sum[t \ {o}]
           T == {n \in Nat : \A t \in SUBSET D : Cardinality(t) <= n => Holds(t)}
<1>0. Holds({}) /\ sum[{}] = 0
  <2>1. {} \in SUBSET D
    OBVIOUS
  <2>2. sum[{}] = 0
    BY <2>1 DEF IsSum
  <2> QED
    BY <2>2
<1>1. \A t \in SUBSET D : IsFiniteSet(t) /\ Cardinality(t) \in Nat
  BY FS_Subset, FS_CardinalityType
<1>2. \A t \in SUBSET D : \A o \in t :
          t \ {o} \in SUBSET D /\ Cardinality(t \ {o}) = Cardinality(t) - 1
  BY <1>1, FS_RemoveElement
<1>3. 0 \in T
  <2>1. ASSUME NEW t \in SUBSET D, Cardinality(t) <= 0 PROVE Holds(t)
    <3>1. t = {}
      BY <1>1, <2>1, FS_EmptySet
    <3> QED
      BY <1>0, <3>1
  <2> QED
    BY <2>1
<1>4. ASSUME NEW n \in T PROVE n + 1 \in T
  <2>1. ASSUME NEW t \in SUBSET D, Cardinality(t) <= n + 1, t # {} PROVE Holds(t)
    <3> DEFINE p == CHOOSE x \in t : TRUE
    <3>1. t # {}
      BY <2>1
    <3>2. p \in t
      BY <3>1
    <3>3. sum[t] = u[p].value + sum[t \ {p}]
      BY <3>1 DEF IsSum
    <3> HIDE DEF p
    <3>4. \A o \in t : Cardinality(t \ {o}) <= n /\ t \ {o} \in SUBSET D
      BY <1>1, <1>2, <2>1
    <3>5. \A o \in t : Holds(t \ {o})
      BY <3>4
    <3>6. ASSUME NEW o \in t, o # p PROVE sum[t] = u[o].value + sum[t \ {o}]
      <4> DEFINE rest == (t \ {o}) \ {p}
                 a == t \ {o}
                 b == t \ {p}
      <4>1. rest = b \ {o} /\ rest = a \ {p} /\ o \in b /\ p \in a
        BY <3>2, <3>6
      <4>2. Holds(a) /\ Holds(b)
        BY <3>2, <3>5
      <4>3. rest \in SUBSET D /\ Cardinality(rest) <= n
        <5>1. a \in SUBSET D /\ Cardinality(a) <= n
          BY <3>4
        <5> HIDE DEF a, rest
        <5>2. Cardinality(rest) = Cardinality(a) - 1 /\ rest \in SUBSET D
          BY <1>2, <4>1, <5>1
        <5> QED
          BY <1>1, <5>1, <5>2
      <4> HIDE DEF a, b, rest
      <4>4. sum[b] = u[o].value + sum[rest] /\ sum[a] = u[p].value + sum[rest]
        BY <4>1, <4>2
      <4>5. sum[rest] \in Int /\ u[o].value \in Int /\ u[p].value \in Int
        <5>1. Holds(rest)
          BY <4>3
        <5> QED
          BY <3>2, <5>1
      <4>6. sum[t] = u[p].value + (u[o].value + sum[rest])
        BY <3>3, <4>4 DEF b
      <4> QED
        BY <4>4, <4>5, <4>6 DEF a
    <3>7. sum[t] \in Int
      <4>1. Holds(t \ {p})
        BY <3>2, <3>5
      <4>2. sum[t \ {p}] \in Int /\ u[p].value \in Int
        BY <3>2, <4>1
      <4> QED
        BY <3>3, <4>2
    <3>8. \A o \in t : sum[t] = u[o].value + sum[t \ {o}]
      BY <3>3, <3>6
    <3> QED
      BY <3>7, <3>8
  <2> HIDE DEF Holds
  <2> QED
    BY <1>0, <2>1
<1>5. T = Nat
  <2> HIDE DEF T
  <2>1. T \in SUBSET Nat
    BY DEF T
  <2> QED
    BY <1>3, <1>4, <2>1, InductiveSet
<1>6. ASSUME NEW t \in SUBSET D PROVE Holds(t)
  <2>1. Cardinality(t) \in T
    <3> HIDE DEF T
    <3> QED
      BY <1>1, <1>5
  <2> QED
    BY <2>1
<1> QED
  BY <1>0, <1>6 DEF TakesAny

\* Worth is the value of a sum that may take out any element first.
LEMMA WorthTakesAny ==
    ASSUME NEW D, IsFiniteSet(D), NEW u, \A o \in D : u[o].value \in Int
    PROVE  \E sum : TakesAny(sum, D, u) /\ Worth(u, D) = sum[D]
<1>1. PICK sum : IsSum(sum, D, u) /\ Worth(u, D) = sum[D]
  BY SumTakesOut
<1>2. TakesAny(sum, D, u)
  BY <1>1, SumTakesAny
<1> QED
  BY <1>1, <1>2

\* What is worth no less than nothing each is worth no less together.
LEMMA WorthIsNatural ==
    ASSUME NEW D, IsFiniteSet(D), NEW u, \A o \in D : u[o].value \in Nat
    PROVE  Worth(u, D) \in Nat
<1>1. PICK sum : IsSum(sum, D, u) /\ Worth(u, D) = sum[D]
  BY SumTakesOut
<1> DEFINE T == {n \in Nat : \A t \in SUBSET D : Cardinality(t) = n => sum[t] \in Nat}
<1>2. \A t \in SUBSET D : IsFiniteSet(t) /\ Cardinality(t) \in Nat
  BY FS_Subset, FS_CardinalityType
<1>3. 0 \in T
  <2>1. ASSUME NEW t \in SUBSET D, Cardinality(t) = 0 PROVE sum[t] \in Nat
    BY <1>1, <1>2, <2>1, FS_EmptySet DEF IsSum
  <2> QED
    BY <2>1
<1>4. ASSUME NEW n \in T PROVE n + 1 \in T
  <2>1. ASSUME NEW t \in SUBSET D, Cardinality(t) = n + 1 PROVE sum[t] \in Nat
    <3> DEFINE p == CHOOSE x \in t : TRUE
    <3>1. t # {}
      BY <2>1, FS_EmptySet
    <3>2. p \in t
      BY <3>1
    <3>3. sum[t] = u[p].value + sum[t \ {p}]
      BY <1>1, <3>1 DEF IsSum
    <3> HIDE DEF p
    <3>4. Cardinality(t \ {p}) = n /\ t \ {p} \in SUBSET D
      <4>1. IsFiniteSet(t)
        BY <1>2
      <4>2. Cardinality(t \ {p}) = Cardinality(t) - 1
        BY <3>2, <4>1, FS_RemoveElement
      <4> QED
        BY <2>1, <4>2
    <3>5. sum[t \ {p}] \in Nat /\ u[p].value \in Nat
      BY <3>2, <3>4
    <3> QED
      BY <3>3, <3>5
  <2> QED
    BY <2>1
<1>5. T = Nat
  <2> HIDE DEF T
  <2>1. T \in SUBSET Nat
    BY DEF T
  <2> QED
    BY <1>3, <1>4, <2>1, InductiveSet
<1>6. Cardinality(D) \in T
  <2> HIDE DEF T
  <2> QED
    BY <1>2, <1>5, D \in SUBSET D
<1> QED
  BY <1>1, <1>6

-----------------------------------------------------------------------------
\* The values of the elements of D in u, each told once, in the order of e.
Tells(values, e, n, u, D) ==
    /\ values = [i \in 1..n |-> u[e[i]].value]
    /\ D = {e[i] : i \in 1..n}
    /\ \A i, j \in 1..n : e[i] = e[j] => i = j
    /\ \A i \in 1..n : u[e[i]].value \in Int

\* A list that tells each value of a set once: its total is the sum over the set, in two's
\* complement.
LEMMA TotalIsSum ==
    ASSUME NEW n \in Nat, NEW e, NEW u, NEW D, NEW total, Tells(total, e, n, u, D)
    PROVE  Total(total) = Wrap(Worth(u, D), Width.value) /\ Worth(u, D) \in Int
<1> DEFINE Part(k) == {e[i] : i \in 1..k}
           values == [i \in 1..n |-> u[e[i]].value]
<1>0. /\ total = values /\ D = {e[i] : i \in 1..n}
      /\ \A i, j \in 1..n : e[i] = e[j] => i = j
      /\ \A i \in 1..n : u[e[i]].value \in Int
  BY DEF Tells
<1>1. IsFiniteSet(D)
  <2>1. IsFiniteSet(1..n)
    BY FS_Interval
  <2> DEFINE f == [i \in 1..n |-> e[i]]
  <2>2. f \in Surjection(1..n, D)
    BY <1>0 DEF Surjection
  <2> QED
    BY <2>1, <2>2, FS_Surjection
<1>2. \A o \in D : u[o].value \in Int
  BY <1>0
<1>3. PICK sum : TakesAny(sum, D, u) /\ Worth(u, D) = sum[D]
  <2> HIDE DEF Part, values
  <2> QED
    BY <1>1, <1>2, WorthTakesAny
<1>4. \A t \in SUBSET D : sum[t] \in Int /\ \A o \in t : sum[t] = u[o].value + sum[t \ {o}]
  BY <1>3 DEF TakesAny
<1>5. sum[{}] = 0
  BY <1>3 DEF TakesAny
<1>6. values \in [1..n -> Int]
  BY <1>0
<1>7. PICK sums \in [0..n -> Int] :
          /\ sums[0] = 0
          /\ \A j \in 1..n : sums[j] = Wrap(sums[j - 1] + values[j], Width.value)
          /\ Total(values) = sums[n]
  <2> HIDE DEF values
  <2> QED
    BY <1>6, TotalInOrder
<1> DEFINE T == {k \in Nat : k <= n => sums[k] = Wrap(sum[Part(k)], Width.value)}
<1>8. 0 \in T
  <2>1. Part(0) = {}
    BY 1..0 = {}
  <2>2. 0 \in SignedNumber(Width.value)
    <3>1. Capacity[Width.value] \div 2 \in Nat \ {0}
      BY Widths, Halves
    <3> QED
      BY <3>1 DEF SignedNumber
  <2>3. Wrap(0, Width.value) = 0
    BY <2>2, Widths, WrapOfSigned
  <2> HIDE DEF Part
  <2> QED
    BY <1>5, <1>7, <2>1, <2>3
<1>9. ASSUME NEW k \in T PROVE k + 1 \in T
  <2> SUFFICES ASSUME k + 1 <= n PROVE sums[k + 1] = Wrap(sum[Part(k + 1)], Width.value)
    OBVIOUS
  <2>1. sums[k] = Wrap(sum[Part(k)], Width.value)
    OBVIOUS
  <2>2. k + 1 \in 1..n /\ (k + 1) - 1 = k /\ values[k + 1] = u[e[k + 1]].value
    OBVIOUS
  <2>3. Part(k + 1) \in SUBSET D /\ Part(k) \in SUBSET D /\ e[k + 1] \in Part(k + 1)
    BY <1>0
  <2>4. Part(k + 1) \ {e[k + 1]} = Part(k)
    <3>1. ASSUME NEW i \in 1..k PROVE e[i] # e[k + 1]
      BY <1>0, <2>2, i \in 1..n, i # k + 1
    <3>2. Part(k + 1) = Part(k) \cup {e[k + 1]}
      OBVIOUS
    <3>3. e[k + 1] \notin Part(k)
      BY <3>1
    <3> HIDE DEF Part
    <3> QED
      BY <3>2, <3>3
  <2> DEFINE w == Width.value
             v == values[k + 1]
             s == sum[Part(k)]
  <2>5. sum[Part(k + 1)] = v + s /\ s \in Int /\ v \in Int
    <3>1. values[k + 1] \in Int
      BY <1>0, <2>2
    <3> HIDE DEF Part, T
    <3>2. sum[Part(k + 1)] = u[e[k + 1]].value + sum[Part(k + 1) \ {e[k + 1]}]
      BY <1>4, <2>3
    <3>3. sum[Part(k)] \in Int
      BY <1>4, <2>3
    <3> HIDE DEF values
    <3> QED
      BY <2>2, <2>4, <3>1, <3>2, <3>3
  <2>6. sums[k + 1] = Wrap(Wrap(s, w) + v, w)
    <3> HIDE DEF Part, T, values
    <3> QED
      BY <1>7, <2>1, <2>2
  <2> HIDE DEF s, v, w, Part, T, values
  <2>7. Wrap(Wrap(s, w) + v, w) = Wrap(s + v, w) /\ s + v = v + s
    <3>1. w \in Nat \ {0}
      BY Widths DEF w
    <3>2. Wrap(Wrap(s, w) + v, w) = Wrap(s + v, w)
      BY <2>5, <3>1, WrapOfSum
    <3> QED
      BY <2>5, <3>2
  <2> QED
    BY <2>5, <2>6, <2>7 DEF w
<1>10. T = Nat
  <2> HIDE DEF T
  <2>1. T \in SUBSET Nat
    BY DEF T
  <2> QED
    BY <1>8, <1>9, <2>1, InductiveSet
<1>11. sums[n] = Wrap(sum[Part(n)], Width.value)
  <2>1. n \in T
    <3> HIDE DEF T
    <3> QED
      BY <1>10
  <2> QED
    BY <2>1
<1>12. Total(values) = Wrap(sum[D], Width.value) /\ sum[D] \in Int
  <2>1. D \in SUBSET D /\ Part(n) = D
    BY <1>0
  <2> HIDE DEF Part, values
  <2> QED
    BY <1>4, <1>7, <1>11, <2>1
<1> HIDE DEF values
<1>13. Total(values) = Wrap(Worth(u, D), Width.value)
  BY <1>3, <1>12, Zenon
<1>14. Worth(u, D) \in Int
  BY <1>3, <1>12, Zenon
<1> QED
  BY <1>0, <1>13, <1>14, Zenon

\* A list has a finite domain, 1 up to its length.
LEMMA Domain ==
    ASSUME NEW S, NEW s \in Slice(S)
    PROVE  s \in Seq(S) /\ Len(s) \in Nat /\ DOMAIN s = 1..Len(s) /\ \A i \in DOMAIN s : s[i] \in S
BY DEF Slice

\* The numbers up to k are finitely many.
LEMMA UpToIsFinite ==
    ASSUME NEW k \in Nat
    PROVE  IsFiniteSet(1..k)
BY 1 \in Int, k \in Int, FS_Interval, Zenon

\* The fees of a transaction whose inputs are distinct and exist: exact if the totals fit
\* and the fees are not negative.
LEMMA FeesOfTransaction ==
    ASSUME NEW tx \in BitcoinTransaction, NEW utxos, \A o \in DOMAIN utxos : utxos[o] \in UTXO,
           BasicRulesHold(tx), InputsAreUnspent(tx, utxos)
    PROVE  LET spent == {Outpoint(tx.inputs[i]) : i \in DOMAIN tx.inputs}
               in == Worth(utxos, spent)
               out == Worth(tx.outputs, DOMAIN tx.outputs)
               fees == Wrap(InputValue(tx, utxos) - OutputValue(tx), Width.value)
           IN  /\ in \in Int /\ out \in Int
               /\ fees \in Int
               /\ in = Wrap(in, Width.value) /\ out = Wrap(out, Width.value) => fees = in - out
<1> DEFINE n == Len(tx.inputs)
           m == Len(tx.outputs)
           e == [i \in 1..n |-> Outpoint(tx.inputs[i])]
           f == [i \in 1..m |-> i]
           spent == {Outpoint(tx.inputs[i]) : i \in DOMAIN tx.inputs}
           in == Worth(utxos, spent)
           out == Worth(tx.outputs, DOMAIN tx.outputs)
           w == Width.value
<1>1. /\ n \in Nat /\ DOMAIN tx.inputs = 1..n
      /\ m \in Nat /\ DOMAIN tx.outputs = 1..m
      /\ \A i \in 1..m : tx.outputs[i] \in TxOutput
  BY Domain DEF BitcoinTransaction
<1>2. w \in Nat \ {0}
  BY Widths
<1>3. \A i \in 1..m : tx.outputs[i].value \in Nat
  BY <1>1, ValidatorAssumption DEF BasicRulesHold
<1>4. \A o \in spent : utxos[o].value \in Nat
  <2>1. \A o \in spent : o \in DOMAIN utxos
    BY DEF InputsAreUnspent
  <2> QED
    BY <2>1 DEF UTXO
<1>5. in \in Nat
  <2>1. IsFiniteSet(spent)
    <3>1. IsFiniteSet(1..n)
      BY <1>1, UpToIsFinite, Zenon
    <3>2. e \in Surjection(1..n, spent)
      BY <1>1 DEF Surjection
    <3> HIDE DEF n, e, spent
    <3> QED
      BY <3>1, <3>2, FS_Surjection
  <2> HIDE DEF spent
  <2> QED
    BY <1>4, <2>1, WorthIsNatural
<1>6. out \in Nat
  <2>1. IsFiniteSet(DOMAIN tx.outputs)
    BY <1>1, UpToIsFinite, Zenon
  <2>2. \A i \in DOMAIN tx.outputs : tx.outputs[i].value \in Nat
    BY <1>1, <1>3
  <2> QED
    BY <2>1, <2>2, WorthIsNatural
<1>7. InputValue(tx, utxos) = Wrap(in, w) /\ in \in Int
  <2>1. {e[i] : i \in 1..n} = spent
    BY <1>1
  <2>2. \A i, j \in 1..n : e[i] = e[j] => i = j
    BY <1>1 DEF BasicRulesHold, InputsAreDistinct
  <2>3. \A i \in 1..n : utxos[e[i]].value \in Int
    BY <1>1, <1>4
  <2>4. InputValue(tx, utxos) = Total([i \in 1..n |-> utxos[e[i]].value])
    <3>1. [i \in DOMAIN tx.inputs |-> SpentOutput(tx, utxos, i).value] = [i \in 1..n |-> utxos[e[i]].value]
      BY <1>1 DEF SpentOutput
    <3> HIDE DEF e
    <3> QED
      BY <3>1, Zenon DEF InputValue
  <2> DEFINE values == [i \in 1..n |-> utxos[e[i]].value]
  <2>5. Tells(values, e, n, utxos, spent)
    <3> HIDE DEF n, e, spent
    <3> QED
      BY <2>1, <2>2, <2>3 DEF Tells
  <2>6. n \in Nat
    BY <1>1
  <2> HIDE DEF e, n, spent, values, w
  <2>7. Total(values) = Wrap(Worth(utxos, spent), Width.value) /\ Worth(utxos, spent) \in Int
    BY <2>5, <2>6, TotalIsSum
  <2> QED
    BY <2>4, <2>7 DEF w, values
<1>8. OutputValue(tx) = Wrap(out, w) /\ out \in Int
  <2>1. {f[i] : i \in 1..m} = DOMAIN tx.outputs
    BY <1>1
  <2>2. \A i, j \in 1..m : f[i] = f[j] => i = j
    OBVIOUS
  <2>3. \A i \in 1..m : tx.outputs[f[i]].value \in Int
    BY <1>3
  <2>4. OutputValue(tx) = Total([i \in 1..m |-> tx.outputs[f[i]].value])
    <3>1. [i \in DOMAIN tx.outputs |-> tx.outputs[i].value] = [i \in 1..m |-> tx.outputs[f[i]].value]
      BY <1>1
    <3> HIDE DEF f
    <3> QED
      BY <3>1, Zenon DEF OutputValue
  <2> DEFINE values == [i \in 1..m |-> tx.outputs[f[i]].value]
             places == DOMAIN tx.outputs
             made == tx.outputs
  <2>5. Tells(values, f, m, made, places)
    <3> HIDE DEF m, f
    <3> QED
      BY <2>1, <2>2, <2>3 DEF Tells
  <2>6. m \in Nat
    BY <1>1
  <2> HIDE DEF f, m, values, places, made, w
  <2>7. Total(values) = Wrap(Worth(made, places), Width.value) /\ Worth(made, places) \in Int
    BY <2>5, <2>6, TotalIsSum
  <2> QED
    BY <2>4, <2>7 DEF w, places, made, values
<1> HIDE DEF in, out, spent, e, f, n, m
<1>9. InputValue(tx, utxos) \in Int /\ OutputValue(tx) \in Int
  <2> HIDE DEF w
  <2> QED
    BY <1>2, <1>7, <1>8, WrapType
<1>10. Wrap(InputValue(tx, utxos) - OutputValue(tx), w) \in Int
  <2> HIDE DEF w
  <2> QED
    BY <1>2, <1>9, WrapType
<1>11. ASSUME in = Wrap(in, w), out = Wrap(out, w)
      PROVE  Wrap(InputValue(tx, utxos) - OutputValue(tx), w) = in - out
  <2> HIDE DEF w
  <2>1. in \in SignedNumber(w) /\ out \in SignedNumber(w)
    BY <1>2, <1>7, <1>8, <1>11, WrapType
  <2>2. in >= 0 /\ out >= 0
    BY <1>5, <1>6
  <2>3. in - out \in SignedNumber(w)
    <3> DEFINE h == Capacity[w] \div 2
    <3>1. h \in Nat \ {0} /\ SignedNumber(w) = -h..(h - 1)
      BY <1>2, Halves DEF SignedNumber
    <3> HIDE DEF h
    <3> QED
      BY <1>7, <1>8, <2>1, <2>2, <3>1
  <2> QED
    BY <1>2, <1>7, <1>8, <1>11, <2>3, WrapOfSigned
<1> QED
  BY <1>7, <1>8, <1>10, <1>11 DEF in, out, spent

\* A function on 1 up to a number.
IsSequence(s) == Len(s) \in Nat /\ s = [i \in 1..Len(s) |-> s[i]]

\* An element appended is the last, and the others stay.
LEMMA AppendIs ==
    ASSUME NEW s, IsSequence(s), NEW x
    PROVE  /\ IsSequence(Append(s, x)) /\ Len(Append(s, x)) = Len(s) + 1
           /\ Front(Append(s, x)) = s /\ Last(Append(s, x)) = x
           /\ \A i \in 1..Len(s) : Append(s, x)[i] = s[i]
<1> DEFINE S == {s[i] : i \in 1..Len(s)} \cup {x}
           t == Append(s, x)
<1>1. s \in Seq(S)
  <2>1. [i \in 1..Len(s) |-> s[i]] \in Seq(S)
    BY IsASeq DEF IsSequence
  <2> QED
    BY <2>1 DEF IsSequence
<1>2. x \in S
  OBVIOUS
<1> HIDE DEF S
<1>3. /\ t \in Seq(S) /\ Len(t) = Len(s) + 1 /\ t[Len(s) + 1] = x
      /\ \A i \in 1..Len(s) : t[i] = s[i]
  BY <1>1, <1>2, AppendProperties
<1>4. IsSequence(t)
  BY <1>3, LenProperties DEF IsSequence
<1>5. Last(t) = x
  BY <1>3 DEF Last
<1>6. Front(t) = s
  <2>1. Len(t) - 1 = Len(s) /\ Len(s) \in Nat
    BY <1>3 DEF IsSequence
  <2>2. SubSeq(t, 1, Len(s)) = [i \in 1..Len(s) |-> t[i]]
    BY <1>3, <2>1
  <2> HIDE DEF t
  <2>3. [i \in 1..Len(s) |-> t[i]] = [i \in 1..Len(s) |-> s[i]]
    BY <1>3
  <2> QED
    BY <2>1, <2>2, <2>3 DEF Front, IsSequence
<1> QED
  BY <1>3, <1>4, <1>5, <1>6

\* Nothing is a sequence.
LEMMA EmptyIs == IsSequence(<<>>) /\ Len(<<>>) = 0
BY DEF IsSequence

-----------------------------------------------------------------------------
\* At p, d has what piece has, as far as d goes.
Begins(d, p, piece) == \A i \in 1..Len(piece) : p + i <= Len(d) => d[p + i] = piece[i]

\* A piece of two begins with the first, and the second begins where that one ends.
LEMMA BeginsWithTwo ==
    ASSUME NEW d, NEW p \in Nat, NEW a \in Seq(Byte), NEW b \in Seq(Byte), Begins(d, p, a \o b)
    PROVE  Begins(d, p, a) /\ Begins(d, p + Len(a), b)
<1>1. /\ Len(a) \in Nat /\ Len(b) \in Nat /\ Len(a \o b) = Len(a) + Len(b)
      /\ \A i \in 1..Len(a) : (a \o b)[i] = a[i]
      /\ \A i \in 1..Len(b) : (a \o b)[Len(a) + i] = b[i]
  OBVIOUS
<1> DEFINE c == a \o b
<1>2. \A i \in 1..Len(c) : p + i <= Len(d) => d[p + i] = c[i]
  BY DEF Begins
<1> HIDE DEF c
<1>3. ASSUME NEW i \in 1..Len(a), p + i <= Len(d) PROVE d[p + i] = a[i]
  BY <1>1, <1>2, <1>3 DEF c
<1>4. ASSUME NEW i \in 1..Len(b), (p + Len(a)) + i <= Len(d) PROVE d[(p + Len(a)) + i] = b[i]
  <2>1. Len(a) + i \in 1..Len(c) /\ p + (Len(a) + i) = (p + Len(a)) + i
    BY <1>1 DEF c
  <2> QED
    BY <1>1, <1>2, <1>4, <2>1 DEF c
<1> QED
  BY <1>3, <1>4 DEF Begins

\* R has read d up to p, if that far it was good and there was enough, and got these values;
\* or it has failed.
Reader(r, d, p, got, good) ==
    /\ d \in Seq(Byte) /\ p \in Nat /\ IsSequence(got) /\ good \in BOOLEAN
    /\ r = IF good /\ p <= Len(d)
           THEN [rest |-> SubSeq(d, p + 1, Len(d)), ok |-> TRUE, got |-> got]
           ELSE Failed

\* Reading as many bytes as a piece has gives the piece.
LEMMA ReadBytesOf ==
    ASSUME NEW r, NEW d, NEW p, NEW got, NEW good, Reader(r, d, p, got, good),
           NEW piece \in Seq(Byte), Begins(d, p, piece)
    PROVE  Reader(ReadBytes(r, Len(piece)), d, p + Len(piece), Append(got, piece), good)
<1> DEFINE n == Len(piece)
           m == Len(d)
           rest == SubSeq(d, p + 1, m)
<1>1. d \in Seq(Byte) /\ p \in Nat /\ IsSequence(got) /\ good \in BOOLEAN /\ n \in Nat /\ m \in Nat
  BY DEF Reader
<1>2. IsSequence(Append(got, piece))
  BY <1>1, AppendIs
<1>3. CASE good /\ p <= m
  <2>1. r.rest = rest /\ r.ok = TRUE /\ r.got = got /\ r = [rest |-> rest, ok |-> TRUE, got |-> got]
    BY <1>3 DEF Reader
  <2>2. rest \in Seq(Byte) /\ Len(rest) = m - p /\ \A i \in 1..(m - p) : rest[i] = d[p + i]
    <3>1. \A i \in 1..(m - p) : (p + 1) + i - 1 = p + i
      BY <1>1
    <3> QED
      BY <1>1, <1>3, <3>1, SubSeqProperties
  <2>3. CASE p + n <= m
    <3>1. SubSeq(rest, 1, n) = piece
      <4>1. SubSeq(rest, 1, n) = [i \in 1..n |-> rest[i]]
        BY <1>1, <2>2, <2>3
      <4>2. ASSUME NEW i \in 1..n PROVE rest[i] = piece[i]
        <5>1. p + i <= m /\ i \in 1..(m - p)
          BY <1>1, <2>3
        <5>2. d[p + i] = piece[i]
          BY <5>1 DEF Begins
        <5> HIDE DEF rest
        <5> QED
          BY <2>2, <5>1, <5>2
      <4>3. piece = [i \in 1..n |-> piece[i]]
        BY LenProperties
      <4> HIDE DEF rest
      <4> QED
        BY <4>1, <4>2, <4>3
    <3>2. SubSeq(rest, n + 1, Len(rest)) = SubSeq(d, (p + n) + 1, m)
      <4>1. SubSeq(rest, n + 1, Len(rest)) = [i \in 1..(m - p - n) |-> rest[n + i]]
        <5> DEFINE part == SubSeq(rest, n + 1, Len(rest))
        <5>1. \A i \in 1..(m - p - n) : (n + 1) + i - 1 = n + i
          BY <1>1
        <5> HIDE DEF rest, n, m
        <5>2. /\ part \in Seq(Byte) /\ Len(part) = m - p - n
              /\ \A i \in 1..(m - p - n) : part[i] = rest[n + i]
          BY <1>1, <2>2, <2>3, <5>1, SubSeqProperties
        <5>3. part = [i \in 1..Len(part) |-> part[i]]
          BY <5>2, LenProperties
        <5> HIDE DEF part
        <5>4. part = [i \in 1..(m - p - n) |-> rest[n + i]]
          BY <5>2, <5>3
        <5> QED
          BY <5>4 DEF part
      <4>2. SubSeq(d, (p + n) + 1, m) = [i \in 1..(m - p - n) |-> d[p + n + i]]
        BY <1>1, <2>3
      <4>3. \A i \in 1..(m - p - n) : rest[n + i] = d[p + n + i]
        <5> TAKE i \in 1..(m - p - n)
        <5>1. n + i \in 1..(m - p) /\ p + (n + i) = p + n + i
          BY <1>1
        <5> QED
          BY <2>2, <5>1
      <4> HIDE DEF rest
      <4> QED
        BY <4>1, <4>2, <4>3
    <3> HIDE DEF rest, n
    <3>3. ReadBytes(r, n) = [rest |-> SubSeq(d, (p + n) + 1, m), ok |-> TRUE, got |-> Append(got, piece)]
      <4>1. n <= Len(rest)
        BY <1>1, <2>2, <2>3
      <4> QED
        BY <2>1, <3>1, <3>2, <4>1 DEF ReadBytes
    <3> QED
      BY <1>1, <1>2, <1>3, <2>3, <3>3 DEF Reader, n
  <2>4. CASE ~(p + n <= m)
    <3>1. ReadBytes(r, n) = Failed
      BY <1>1, <2>1, <2>2, <2>4 DEF ReadBytes
    <3> QED
      BY <1>1, <1>2, <2>4, <3>1 DEF Reader
  <2> QED
    BY <2>3, <2>4
<1>4. CASE ~(good /\ p <= m)
  <2>1. r = Failed /\ ~(good /\ p + n <= m)
    BY <1>1, <1>4 DEF Reader
  <2>2. ReadBytes(r, n) = Failed
    BY <2>1 DEF ReadBytes, Failed
  <2> QED
    BY <1>1, <1>2, <2>1, <2>2 DEF Reader
<1> QED
  BY <1>3, <1>4

-----------------------------------------------------------------------------
\* A reader that has failed goes on failing; one that has not has got a value last.
LEMMA ReaderIs ==
    ASSUME NEW r, NEW d, NEW p, NEW got, NEW good, NEW x, Reader(r, d, p, Append(got, x), good),
           IsSequence(got)
    PROVE  /\ d \in Seq(Byte) /\ p \in Nat /\ good \in BOOLEAN /\ Len(d) \in Nat
           /\ r.ok <=> (good /\ p <= Len(d))
           /\ ~r.ok => r = Failed
           /\ r.ok => Last(r.got) = x /\ r.got = Append(got, x) /\ Reader(Drop(r), d, p, got, good)
<1>1. d \in Seq(Byte) /\ p \in Nat /\ good \in BOOLEAN /\ Len(d) \in Nat
  BY DEF Reader
<1>2. CASE good /\ p <= Len(d)
  <2> DEFINE rest == SubSeq(d, p + 1, Len(d))
  <2>1. r = [rest |-> rest, ok |-> TRUE, got |-> Append(got, x)]
    BY <1>2 DEF Reader
  <2>2. Front(Append(got, x)) = got /\ Last(Append(got, x)) = x
    BY AppendIs
  <2> HIDE DEF rest
  <2>3. r.got = Append(got, x) /\ r.ok
    BY <2>1
  <2>4. Drop(r) = [r EXCEPT !.got = got]
    BY <2>2, <2>3 DEF Drop
  <2>5. Drop(r) = [rest |-> rest, ok |-> TRUE, got |-> got]
    BY <2>1, <2>4
  <2>6. Reader(Drop(r), d, p, got, good)
    BY <1>1, <1>2, <2>5 DEF Reader, rest
  <2> QED
    BY <1>1, <1>2, <2>2, <2>3, <2>6
<1>3. CASE ~(good /\ p <= Len(d))
  BY <1>1, <1>3 DEF Reader, Failed
<1> QED
  BY <1>1, <1>2, <1>3

\* One that has failed has failed for all that follows too.
LEMMA StaysFailed ==
    ASSUME NEW d \in Seq(Byte), NEW p \in Nat, NEW good \in BOOLEAN, ~(good /\ p <= Len(d)),
           NEW q \in Nat, p <= q, NEW more \in BOOLEAN, more => good, NEW got,
           IsSequence(got)
    PROVE  Reader(Failed, d, q, got, more)
<1>1. Len(d) \in Nat
  OBVIOUS
<1>2. ~(more /\ q <= Len(d))
  BY <1>1
<1> QED
  BY <1>2 DEF Reader

\* Reading a number gives what its bytes are worth.
LEMMA ReadNumberOf ==
    ASSUME NEW r, NEW d, NEW p, NEW got, NEW good, Reader(r, d, p, got, good),
           NEW w \in Nat, NEW n \in Int, Begins(d, p, LittleEndian(n, w))
    PROVE  Reader(ReadNumber(r, w), d, p + w, Append(got, Unsigned(LittleEndian(n, w))), good)
<1> DEFINE piece == LittleEndian(n, w)
           b == ReadBytes(r, w)
           x == Unsigned(piece)
<1>1. piece \in Seq(Byte) /\ Len(piece) = w
  BY LittleEndianType
<1> HIDE DEF piece
<1>2. Reader(b, d, p + w, Append(got, piece), good)
  BY <1>1, ReadBytesOf DEF piece
<1>3. IsSequence(got)
  BY DEF Reader
<1>4. IsSequence(Append(got, x))
  BY <1>3, AppendIs
<1>5. /\ p + w \in Nat /\ good \in BOOLEAN /\ Len(d) \in Nat
      /\ b.ok => Last(b.got) = piece /\ b.got = Append(got, piece)
  <2> HIDE DEF b
  <2> QED
    BY <1>2, <1>3, ReaderIs
<1>6. ReadNumber(r, w) = NumberFrom(b)
  BY DEF ReadNumber
<1> HIDE DEF b
<1>7. CASE good /\ p + w <= Len(d)
  <2> DEFINE rest == SubSeq(d, p + w + 1, Len(d))
  <2>1. b = [rest |-> rest, ok |-> TRUE, got |-> Append(got, piece)]
    BY <1>2, <1>7 DEF Reader
  <2>2. Front(b.got) = got /\ Last(b.got) = piece
    BY <1>3, <2>1, AppendIs
  <2>3. NumberFrom(b) = [rest |-> rest, ok |-> TRUE, got |-> Append(got, x)]
    BY <2>1, <2>2 DEF NumberFrom
  <2> HIDE DEF x
  <2> QED
    BY <1>2, <1>4, <1>5, <1>6, <1>7, <2>3 DEF Reader, x, piece
<1>8. CASE ~(good /\ p + w <= Len(d))
  <2>1. b = Failed
    BY <1>2, <1>8 DEF Reader
  <2>2. NumberFrom(b) = Failed
    BY <2>1 DEF NumberFrom, Failed
  <2> HIDE DEF x
  <2> QED
    BY <1>2, <1>4, <1>5, <1>6, <1>8, <2>2 DEF Reader, x, piece
<1> QED
  BY <1>7, <1>8

\* A byte as a number of one byte.
LEMMA OneByte ==
    ASSUME NEW b \in Byte
    PROVE  LittleEndian(b, 1) = <<b>> /\ b \in Nat
<1>1. Base \in Nat \ {0} /\ b \in 0..(Base - 1)
  BY TransactionsAssumption DEF Byte
<1>2. Capacity[0] = 1 /\ b \div 1 = b /\ b % Base = b
  <2>1. b = 1 * b + 0 /\ b = Base * 0 + b /\ 0 \in 0..(1 - 1)
    BY <1>1
  <2>2. b \div 1 = b
    BY <1>1, <2>1, DivisionIsUnique
  <2>3. b % Base = b
    BY <1>1, <2>1, DivisionIsUnique
  <2> QED
    BY <2>2, <2>3, CapacityStep
<1>3. LittleEndian(b, 1) = [i \in 1..1 |-> (b \div Capacity[i - 1]) % Base]
  BY DEF LittleEndian
<1>4. \A i \in 1..1 : (b \div Capacity[i - 1]) % Base = b
  BY <1>2
<1>5. LittleEndian(b, 1) = [i \in 1..1 |-> b]
  BY <1>3, <1>4
<1> QED
  BY <1>1, <1>5

\* The forms of a variable integer: a byte, or a marker and a number.
IsVarInt(piece, n, k) ==
    IF k = 0 THEN piece = <<n>> /\ n < Base - 3
    ELSE piece = <<Base - 4 + k>> \o LittleEndian(n, VarWidth[k]) /\ n \in Number(VarWidth[k])

\* PutVarInt writes one of them.
LEMMA VarIntForms ==
    ASSUME NEW n \in Number(VarWidth[3]), NEW form \in 0..3
    PROVE  \E k \in 0..3 : IsVarInt(PutVarInt(n, form), n, k)
<1> DEFINE fits == {k \in form..3 : IF k = 0 THEN n < Base - 3 ELSE n < Capacity[VarWidth[k]]}
           k == CHOOSE x \in fits : \A y \in fits : x <= y
<1>1. fits \in SUBSET Nat /\ 3 \in fits
  BY Widths, CapacityType DEF Number
<1>2. k \in fits
  <2> HIDE DEF fits
  <2>1. \E x \in fits : \A y \in fits : x <= y
    BY <1>1, LeastNumber
  <2> QED
    BY <2>1
<1>3. PutVarInt(n, form) = IF k = 0 THEN <<n>> ELSE <<Base - 4 + k>> \o LittleEndian(n, VarWidth[k])
  BY Zenon DEF PutVarInt
<1> HIDE DEF k
<1>4. n \in Nat /\ k \in 0..3
  BY <1>2, Widths, CapacityType DEF Number
<1>5. k = 0 => n < Base - 3
  BY <1>2
<1>6. k # 0 => n \in Number(VarWidth[k])
  <2> SUFFICES ASSUME k # 0 PROVE n \in Number(VarWidth[k])
    OBVIOUS
  <2>1. n < Capacity[VarWidth[k]] /\ k \in 1..3
    BY <1>2, <1>4
  <2>2. Capacity[VarWidth[k]] \in Nat
    BY <2>1, Widths, CapacityType
  <2> QED
    BY <1>4, <2>1, <2>2 DEF Number
<1> QED
  BY <1>3, <1>4, <1>5, <1>6 DEF IsVarInt

\* Their bytes.
LEMMA VarIntType ==
    ASSUME NEW piece, NEW n \in Nat, NEW k \in 0..3, IsVarInt(piece, n, k)
    PROVE  piece \in Seq(Byte) /\ Len(piece) >= 1
<1>1. Base \in Nat /\ Base > 3
  BY TransactionsAssumption
<1>2. CASE k = 0
  <2>1. piece = <<n>> /\ n \in Byte
    BY <1>1, <1>2 DEF IsVarInt, Byte
  <2> QED
    BY <2>1
<1>3. CASE k # 0
  <2> DEFINE a == <<Base - 4 + k>>
             b == LittleEndian(n, VarWidth[k])
  <2>1. a \in Seq(Byte) /\ Len(a) = 1
    BY <1>1 DEF Byte
  <2>2. b \in Seq(Byte) /\ Len(b) \in Nat
    <3>1. VarWidth[k] \in Nat /\ n \in Int
      BY <1>3, Widths
    <3> QED
      BY <3>1, LittleEndianType
  <2>3. piece = a \o b
    BY <1>3 DEF IsVarInt
  <2> HIDE DEF a, b
  <2>4. piece \in Seq(Byte) /\ Len(piece) = 1 + Len(b)
    BY <2>1, <2>2, <2>3, ConcatProperties
  <2> QED
    BY <2>2, <2>4
<1> QED
  BY <1>2, <1>3

\* Reading a variable integer gives the number, whichever of its forms was written.
LEMMA ReadVarIntOf ==
    ASSUME NEW r, NEW d, NEW p, NEW got, NEW good, Reader(r, d, p, got, good),
           NEW n \in Number(VarWidth[3]), NEW form \in 0..3, Begins(d, p, PutVarInt(n, form))
    PROVE  Reader(ReadVarInt(r), d, p + Len(PutVarInt(n, form)), Append(got, n), good)
<1> DEFINE piece == PutVarInt(n, form)
           b == ReadNumber(r, 1)
<1>1. PICK k \in 0..3 : IsVarInt(piece, n, k)
  BY VarIntForms
<1>2. n \in Nat /\ Base \in Nat /\ Base > 3
  BY TransactionsAssumption, Widths, CapacityType DEF Number
<1>3. piece \in Seq(Byte) /\ Len(piece) \in Nat
  BY <1>1, <1>2, VarIntType
<1> HIDE DEF piece
<1>4. d \in Seq(Byte) /\ p \in Nat /\ IsSequence(got) /\ good \in BOOLEAN
  BY DEF Reader
<1>5. ReadVarInt(r) = VarIntFrom(b)
  BY DEF ReadVarInt
<1>6. ASSUME NEW x \in Byte, Begins(d, p, <<x>>)
      PROVE  Reader(b, d, p + 1, Append(got, x), good)
  <2>1. LittleEndian(x, 1) = <<x>> /\ Unsigned(<<x>>) = x /\ x \in Int
    BY OneByte, UnsignedOfByte
  <2> QED
    BY <1>6, <2>1, ReadNumberOf
<1> HIDE DEF b
<1>7. CASE k = 0
  <2>1. piece = <<n>> /\ n < Base - 3
    BY <1>1, <1>7 DEF IsVarInt
  <2>2. n \in Byte
    BY <1>2, <2>1 DEF Byte
  <2>3. Reader(b, d, p + 1, Append(got, n), good)
    BY <1>6, <2>1, <2>2 DEF piece
  <2>4. b.ok => Last(b.got) = n
    BY <1>4, <2>3, ReaderIs
  <2>5. VarIntFrom(b) = b
    BY <1>2, <2>1, <2>4 DEF VarIntFrom
  <2>6. Len(piece) = 1
    BY <2>1
  <2> QED
    BY <1>5, <2>3, <2>5, <2>6 DEF piece
<1>8. CASE k # 0
  <2> DEFINE m == Base - 4 + k
             w == VarWidth[k]
             tail == LittleEndian(n, w)
  <2>1. piece = <<m>> \o tail /\ n \in Number(w)
    BY <1>1, <1>8 DEF IsVarInt
  <2>2. w \in Nat
    BY <1>8, Widths
  <2>3. m \in Byte /\ m >= Base - 3 /\ m - Base + 4 = k
    BY <1>2, <1>8 DEF Byte
  <2> HIDE DEF m, w
  <2>4. tail \in Seq(Byte) /\ Len(tail) = w /\ <<m>> \in Seq(Byte) /\ Len(<<m>>) = 1
    <3>1. tail \in Seq(Byte) /\ Len(tail) = w
      <4>1. n \in Int
        BY <1>2
      <4> QED
        BY <2>2, <4>1, LittleEndianType, Zenon
    <3>2. <<m>> \in Seq(Byte) /\ Len(<<m>>) = 1
      BY <2>3
    <3> QED
      BY <3>1, <3>2
  <2>5. Begins(d, p, piece)
    BY DEF piece
  <2> HIDE DEF tail
  <2>6. Begins(d, p, <<m>>) /\ Begins(d, p + 1, tail)
    BY <1>4, <2>1, <2>4, <2>5, BeginsWithTwo
  <2>7. Len(piece) = 1 + w
    BY <2>1, <2>4
  <2>8. Reader(b, d, p + 1, Append(got, m), good)
    BY <1>6, <2>3, <2>6
  <2>9. CASE b.ok
    <3>1. Last(b.got) = m /\ Reader(Drop(b), d, p + 1, got, good)
      BY <1>4, <2>8, <2>9, ReaderIs
    <3>2. VarIntFrom(b) = ReadNumber(Drop(b), w)
      BY <2>3, <2>9, <3>1 DEF VarIntFrom, w
    <3>3. Unsigned(LittleEndian(n, w)) = n
      BY <2>1, <2>2, ReadUnsignedBack
    <3>4. Reader(ReadNumber(Drop(b), w), d, (p + 1) + w, Append(got, n), good)
      BY <1>2, <2>2, <2>6, <3>1, <3>3, ReadNumberOf DEF tail
    <3>5. (p + 1) + w = p + Len(piece)
      BY <1>4, <2>2, <2>7
    <3> QED
      BY <1>5, <3>2, <3>4, <3>5 DEF piece
  <2>10. CASE ~b.ok
    <3>1. b = Failed /\ ~(good /\ p + 1 <= Len(d))
      BY <1>4, <2>8, <2>10, ReaderIs
    <3>2. VarIntFrom(b) = Failed
      BY <3>1 DEF VarIntFrom, Failed
    <3>3. IsSequence(Append(got, n))
      BY <1>4, AppendIs
    <3>4. p + Len(piece) \in Nat /\ p + 1 \in Nat /\ p + 1 <= p + Len(piece)
      BY <1>3, <1>4, <2>2, <2>7
    <3>5. Reader(Failed, d, p + Len(piece), Append(got, n), good)
      BY <1>4, <3>1, <3>3, <3>4, StaysFailed
    <3> QED
      BY <1>5, <3>2, <3>5 DEF piece
  <2> QED
    BY <2>9, <2>10
<1> QED
  BY <1>7, <1>8

-----------------------------------------------------------------------------
\* The bytes of a length.
LEMMA LengthType ==
    ASSUME NEW S, NEW s \in Slice(S), NEW form \in 0..3
    PROVE  /\ Len(s) \in Number(VarWidth[3]) /\ Len(s) \in Nat
           /\ PutVarInt(Len(s), form) \in Seq(Byte) /\ Len(PutVarInt(Len(s), form)) \in Nat \ {0}
<1> DEFINE n == Len(s)
<1>1. n \in Nat /\ n < Capacity[VarWidth[3]] /\ Capacity[VarWidth[3]] \in Nat
  BY Widths, CapacityType DEF Slice
<1>2. n \in Number(VarWidth[3])
  BY <1>1 DEF Number
<1> HIDE DEF n
<1>3. PICK k \in 0..3 : IsVarInt(PutVarInt(n, form), n, k)
  BY <1>2, VarIntForms
<1>4. PutVarInt(n, form) \in Seq(Byte) /\ Len(PutVarInt(n, form)) >= 1
  BY <1>1, <1>3, VarIntType
<1>5. Len(PutVarInt(n, form)) \in Nat
  BY <1>4, LenProperties
<1> QED
  BY <1>1, <1>2, <1>4, <1>5 DEF n

\* The bytes of a script.
LEMMA ScriptType ==
    ASSUME NEW script \in Slice(Byte), NEW form \in 0..3
    PROVE  /\ script \in Seq(Byte) /\ PutScript(script, form) \in Seq(Byte)
           /\ Len(PutScript(script, form)) = Len(PutVarInt(Len(script), form)) + Len(script)
<1>1. script \in Seq(Byte)
  BY DEF Slice
<1>2. PutVarInt(Len(script), form) \in Seq(Byte)
  BY LengthType
<1> QED
  BY <1>1, <1>2, ConcatProperties DEF PutScript

\* Reading a script gives it, if it is not too long.
LEMMA ReadScriptOf ==
    ASSUME NEW r, NEW d, NEW p, NEW got, NEW good, Reader(r, d, p, got, good),
           NEW script \in Slice(Byte), NEW form \in 0..3, Begins(d, p, PutScript(script, form)),
           NEW more \in BOOLEAN, more <=> good /\ Len(script) <= MaxScriptSize
    PROVE  Reader(ReadScript(r), d, p + Len(PutScript(script, form)), Append(got, script), more)
<1> DEFINE size == PutVarInt(Len(script), form)
           n == ReadVarInt(r)
           q == p + Len(PutScript(script, form))
<1>1. /\ script \in Seq(Byte) /\ size \in Seq(Byte) /\ Len(size) \in Nat \ {0}
      /\ Len(script) \in Nat /\ Len(script) \in Number(VarWidth[3])
  BY LengthType, ScriptType
<1>2. q = (p + Len(size)) + Len(script) /\ PutScript(script, form) = size \o script
  <2>1. PutScript(script, form) = size \o script
    BY DEF PutScript
  <2>2. Len(PutScript(script, form)) = Len(size) + Len(script)
    BY ScriptType
  <2>3. p \in Nat
    BY DEF Reader
  <2> HIDE DEF size
  <2> QED
    BY <1>1, <2>1, <2>2, <2>3
<1>3. d \in Seq(Byte) /\ p \in Nat /\ IsSequence(got) /\ good \in BOOLEAN /\ Len(d) \in Nat
  BY DEF Reader
<1> HIDE DEF q
<1>4. Begins(d, p, size) /\ Begins(d, p + Len(size), script)
  <2> HIDE DEF size
  <2> QED
    BY <1>1, <1>2, <1>3, BeginsWithTwo
<1>5. Reader(n, d, p + Len(size), Append(got, Len(script)), good)
  BY <1>1, <1>4, ReadVarIntOf
<1>6. ReadScript(r) = ScriptFrom(n)
  BY DEF ReadScript
<1> HIDE DEF n, size
<1>7. /\ n.ok <=> (good /\ p + Len(size) <= Len(d))
      /\ n.ok => Last(n.got) = Len(script) /\ Reader(Drop(n), d, p + Len(size), got, good)
  BY <1>3, <1>5, ReaderIs
<1>8. q \in Nat /\ IsSequence(Append(got, script)) /\ p + Len(size) <= q
  BY <1>1, <1>2, <1>3, AppendIs
<1>9. CASE n.ok /\ Len(script) <= MaxScriptSize
  <2>1. ScriptFrom(n) = ReadBytes(Drop(n), Len(script))
    BY <1>7, <1>9 DEF ScriptFrom
  <2>2. Reader(ReadBytes(Drop(n), Len(script)), d, (p + Len(size)) + Len(script), Append(got, script), good)
    BY <1>1, <1>4, <1>7, <1>9, ReadBytesOf
  <2>3. more <=> good
    BY <1>9
  <2>4. Reader(ReadScript(r), d, q, Append(got, script), good)
    BY <1>2, <1>6, <2>1, <2>2
  <2> QED
    BY <2>3, <2>4 DEF Reader, q
<1>10. CASE ~(n.ok /\ Len(script) <= MaxScriptSize)
  <2>1. ScriptFrom(n) = Failed
    BY <1>7, <1>10 DEF ScriptFrom
  <2>2. ~(more /\ p + Len(size) <= Len(d))
    <3>1. CASE ~n.ok
      <4>1. ~(good /\ p + Len(size) <= Len(d))
        BY <1>7, <3>1
      <4> QED
        BY <4>1
    <3>2. CASE ~(Len(script) <= MaxScriptSize)
      BY <3>2
    <3> QED
      BY <1>10, <3>1, <3>2
  <2>3. Reader(Failed, d, q, Append(got, script), more)
    <3>1. p + Len(size) \in Nat
      BY <1>1, <1>3
    <3> QED
      BY <1>3, <1>8, <2>2, <3>1, StaysFailed
  <2> QED
    BY <1>6, <2>1, <2>3 DEF q
<1> QED
  BY <1>9, <1>10

\* A reader of a part begins with no values.
LEMMA FreshReader ==
    ASSUME NEW r, NEW d, NEW p, NEW got, NEW good, Reader(r, d, p, got, good)
    PROVE  Reader(Fresh(r), d, p, <<>>, good)
<1>1. CASE good /\ p <= Len(d)
  <2> DEFINE rest == SubSeq(d, p + 1, Len(d))
  <2>1. r = [rest |-> rest, ok |-> TRUE, got |-> got]
    BY <1>1 DEF Reader
  <2> HIDE DEF rest
  <2>2. Fresh(r) = [r EXCEPT !.got = <<>>]
    BY DEF Fresh
  <2>3. Fresh(r) = [rest |-> rest, ok |-> TRUE, got |-> <<>>]
    BY <2>1, <2>2
  <2> QED
    BY <1>1, <2>3, EmptyIs DEF Reader, rest
<1>2. CASE ~(good /\ p <= Len(d))
  <2>1. r = Failed
    BY <1>2 DEF Reader
  <2>2. Fresh(r) = Failed
    BY <2>1 DEF Fresh, Failed
  <2> QED
    BY <1>2, <2>2, EmptyIs DEF Reader
<1> QED
  BY <1>1, <1>2

\* What it has read is one value more of the whole.
LEMMA GotOf ==
    ASSUME NEW r, NEW d, NEW p, NEW got, NEW good, Reader(r, d, p, got, good),
           NEW f, NEW q, NEW values, NEW more, Reader(f, d, q, values, more), p <= q, more => good,
           NEW told, NEW value, f.ok => told = value
    PROVE  Reader(Got(r, f, told), d, q, Append(got, value), more)
<1>1. /\ IsSequence(Append(got, value)) /\ q \in Nat /\ p \in Nat /\ Len(d) \in Nat
      /\ d \in Seq(Byte) /\ good \in BOOLEAN /\ more \in BOOLEAN
  BY AppendIs DEF Reader
<1>2. CASE more /\ q <= Len(d)
  <2> DEFINE rest == SubSeq(d, q + 1, Len(d))
  <2>1. f = [rest |-> rest, ok |-> TRUE, got |-> values]
    BY <1>2 DEF Reader
  <2>2. good /\ p <= Len(d)
    BY <1>1, <1>2
  <2>3. r.got = got
    BY <2>2 DEF Reader
  <2> HIDE DEF rest
  <2>4. Got(r, f, told) = [rest |-> rest, ok |-> TRUE, got |-> Append(got, value)]
    BY <2>1, <2>3 DEF Got
  <2> QED
    BY <1>1, <1>2, <2>4 DEF Reader, rest
<1>3. CASE ~(more /\ q <= Len(d))
  <2>1. f = Failed
    BY <1>3 DEF Reader
  <2>2. Got(r, f, told) = Failed
    BY <2>1 DEF Got, Failed
  <2> QED
    BY <1>1, <1>3, <2>2 DEF Reader
<1> QED
  BY <1>2, <1>3

\* The values of a reader that has not failed.
LEMMA ReaderGot ==
    ASSUME NEW r, NEW d, NEW p, NEW got, NEW good, Reader(r, d, p, got, good)
    PROVE  /\ r.ok <=> (good /\ p <= Len(d))
           /\ r.ok => r.got = got
           /\ d \in Seq(Byte) /\ p \in Nat /\ IsSequence(got) /\ good \in BOOLEAN
BY DEF Reader, Failed

-----------------------------------------------------------------------------
\* A value without a sign is a number.
LEMMA NumberType ==
    ASSUME NEW w \in Nat, NEW n \in Number(w)
    PROVE  n \in Nat /\ n \in Int
BY CapacityType DEF Number

\* The bytes of an input are those of its parts.
LEMMA InputType ==
    ASSUME NEW input \in TxInput, NEW form \in 0..3
    PROVE  LET a == input.prevTxHash
               b == LittleEndian(input.prevTxIndex, Width.index)
               c == PutScript(input.scriptSig, form)
               e == LittleEndian(input.sequence, Width.sequence)
           IN  /\ a \in Seq(Byte) /\ Len(a) = Width.hash /\ b \in Seq(Byte) /\ Len(b) = Width.index
               /\ c \in Seq(Byte) /\ e \in Seq(Byte) /\ Len(e) = Width.sequence
               /\ input.prevTxIndex \in Int /\ input.sequence \in Int
               /\ input.scriptSig \in Slice(Byte)
               /\ PutInput(input, form) \in Seq(Byte)
               /\ PutInput(input, form) = a \o b \o c \o e
               /\ Len(PutInput(input, form)) = Width.hash + Width.index + Len(c) + Width.sequence
               /\ Len(PutInput(input, form)) \in Nat
<1> DEFINE a == input.prevTxHash
           b == LittleEndian(input.prevTxIndex, Width.index)
           c == PutScript(input.scriptSig, form)
           e == LittleEndian(input.sequence, Width.sequence)
<1>1. /\ Width.hash \in Nat /\ Width.index \in Nat /\ Width.sequence \in Nat
      /\ a \in [1..Width.hash -> Byte]
      /\ input.prevTxIndex \in Number(Width.index) /\ input.sequence \in Number(Width.sequence)
      /\ input.scriptSig \in Slice(Byte)
  BY Widths DEF TxInput
<1>2. input.prevTxIndex \in Int /\ input.sequence \in Int
  BY <1>1, NumberType
<1>3. a \in Seq(Byte) /\ Len(a) = Width.hash
  BY <1>1
<1>4. b \in Seq(Byte) /\ Len(b) = Width.index
  BY <1>1, <1>2, LittleEndianType
<1>5. e \in Seq(Byte) /\ Len(e) = Width.sequence
  BY <1>1, <1>2, LittleEndianType
<1>6. c \in Seq(Byte) /\ Len(c) \in Nat
  BY <1>1, ScriptType, LenProperties
<1>7. PutInput(input, form) = a \o b \o c \o e
  BY DEF PutInput
<1> HIDE DEF a, b, c, e
<1>8. a \o b \in Seq(Byte) /\ Len(a \o b) = Width.hash + Width.index
  BY <1>3, <1>4, ConcatProperties
<1>9. a \o b \o c \in Seq(Byte) /\ Len(a \o b \o c) = Width.hash + Width.index + Len(c)
  BY <1>6, <1>8, ConcatProperties
<1>10. /\ a \o b \o c \o e \in Seq(Byte)
       /\ Len(a \o b \o c \o e) = Width.hash + Width.index + Len(c) + Width.sequence
  <2> DEFINE x == a \o b \o c
  <2>1. x \in Seq(Byte) /\ Len(x) = Width.hash + Width.index + Len(c)
    BY <1>9
  <2> HIDE DEF x
  <2>2. x \o e \in Seq(Byte) /\ Len(x \o e) = Len(x) + Len(e)
    BY <1>5, <2>1, ConcatProperties
  <2>3. Len(x) + Len(e) = Width.hash + Width.index + Len(c) + Width.sequence
    BY <1>5, <2>1
  <2> QED
    BY <2>2, <2>3 DEF x
<1>11. Width.hash + Width.index + Len(c) + Width.sequence \in Nat
  BY <1>1, <1>6
<1> QED
  BY <1>1, <1>2, <1>3, <1>4, <1>5, <1>6, <1>7, <1>10, <1>11 DEF a, b, c, e

\* Values got one after another.
LEMMA AppendedOne == ASSUME NEW a PROVE Append(<<>>, a) = <<a>>
OBVIOUS

\* What a sequence with one value more is.
LEMMA AppendedIs ==
    ASSUME NEW s, IsSequence(s), NEW x, NEW t, IsSequence(t), Len(t) = Len(s) + 1,
           \A i \in 1..Len(s) : t[i] = s[i], t[Len(s) + 1] = x
    PROVE  Append(s, x) = t
<1> DEFINE u == Append(s, x)
<1>1. IsSequence(u) /\ Len(u) = Len(s) + 1 /\ (\A i \in 1..Len(s) : u[i] = s[i]) /\ Last(u) = x
  BY AppendIs
<1> HIDE DEF u
<1>2. u[Len(s) + 1] = x
  BY <1>1 DEF Last
<1>3. \A i \in 1..Len(u) : u[i] = t[i]
  BY <1>1, <1>2, Len(s) \in Nat DEF IsSequence
<1>4. u = t
  BY <1>1, <1>3 DEF IsSequence
<1> QED
  BY <1>4 DEF u

\* A second value.
LEMMA AppendedTwo == ASSUME NEW a, NEW b PROVE Append(<<a>>, b) = <<a, b>>
<1> DEFINE s == <<a>>
           t == <<a, b>>
<1>1. IsSequence(s) /\ Len(s) = 1 /\ s[1] = a
  BY DEF IsSequence
<1>2. IsSequence(t) /\ Len(t) = 2 /\ t[1] = a /\ t[2] = b
  BY DEF IsSequence
<1> HIDE DEF s, t
<1>3. \A i \in 1..Len(s) : t[i] = s[i]
  BY <1>1, <1>2
<1>4. Len(t) = Len(s) + 1 /\ t[Len(s) + 1] = b
  BY <1>1, <1>2
<1> QED
  BY <1>1, <1>2, <1>3, <1>4, AppendedIs DEF s, t

\* A third value.
LEMMA AppendedThree == ASSUME NEW a, NEW b, NEW c PROVE Append(<<a, b>>, c) = <<a, b, c>>
<1> DEFINE s == <<a, b>>
           t == <<a, b, c>>
<1>1. IsSequence(s) /\ Len(s) = 2 /\ s[1] = a /\ s[2] = b
  BY DEF IsSequence
<1>2. IsSequence(t) /\ Len(t) = 3 /\ t[1] = a /\ t[2] = b /\ t[3] = c
  BY DEF IsSequence
<1> HIDE DEF s, t
<1>3. \A i \in 1..Len(s) : t[i] = s[i]
  BY <1>1, <1>2
<1>4. Len(t) = Len(s) + 1 /\ t[Len(s) + 1] = c
  BY <1>1, <1>2
<1> QED
  BY <1>1, <1>2, <1>3, <1>4, AppendedIs DEF s, t

\* A fourth value.
LEMMA AppendedFour == ASSUME NEW a, NEW b, NEW c, NEW e PROVE Append(<<a, b, c>>, e) = <<a, b, c, e>>
<1> DEFINE s == <<a, b, c>>
           t == <<a, b, c, e>>
<1>1. IsSequence(s) /\ Len(s) = 3 /\ s[1] = a /\ s[2] = b /\ s[3] = c
  BY DEF IsSequence
<1>2. IsSequence(t) /\ Len(t) = 4 /\ t[1] = a /\ t[2] = b /\ t[3] = c /\ t[4] = e
  BY DEF IsSequence
<1> HIDE DEF s, t
<1>3. \A i \in 1..Len(s) : t[i] = s[i]
  BY <1>1, <1>2
<1>4. Len(t) = Len(s) + 1 /\ t[Len(s) + 1] = e
  BY <1>1, <1>2
<1> QED
  BY <1>1, <1>2, <1>3, <1>4, AppendedIs DEF s, t

\* Reading an input gives it, if its script is not too long.
LEMMA ReadInputOf ==
    ASSUME NEW r, NEW d, NEW p, NEW got, NEW good, Reader(r, d, p, got, good),
           NEW input \in TxInput, NEW form \in 0..3, Begins(d, p, PutInput(input, form)),
           NEW more \in BOOLEAN, more <=> good /\ Len(input.scriptSig) <= MaxScriptSize, NEW i
    PROVE  Reader(ReadTxInput(r, i), d, p + Len(PutInput(input, form)), Append(got, input), more)
<1> DEFINE a == input.prevTxHash
           b == LittleEndian(input.prevTxIndex, Width.index)
           c == PutScript(input.scriptSig, form)
           e == LittleEndian(input.sequence, Width.sequence)
           f0 == Fresh(r)
           f1 == ReadBytes(f0, Width.hash)
           f2 == ReadNumber(f1, Width.index)
           f3 == ReadScript(f2)
           f4 == ReadNumber(f3, Width.sequence)
           p1 == p + Width.hash
           p2 == p1 + Width.index
           p3 == p2 + Len(c)
           p4 == p3 + Width.sequence
           values == <<a, input.prevTxIndex, input.scriptSig, input.sequence>>
           told == [prevTxHash |-> f4.got[1], prevTxIndex |-> f4.got[2],
                    scriptSig |-> f4.got[3], sequence |-> f4.got[4]]
<1>1. /\ a \in Seq(Byte) /\ Len(a) = Width.hash /\ b \in Seq(Byte) /\ Len(b) = Width.index
      /\ c \in Seq(Byte) /\ e \in Seq(Byte) /\ Len(e) = Width.sequence
      /\ input.prevTxIndex \in Int /\ input.sequence \in Int /\ input.scriptSig \in Slice(Byte)
      /\ PutInput(input, form) = a \o b \o c \o e
      /\ Len(PutInput(input, form)) = Width.hash + Width.index + Len(c) + Width.sequence
  BY InputType
<1>2. Width.hash \in Nat /\ Width.index \in Nat /\ Width.sequence \in Nat /\ Len(c) \in Nat
  BY <1>1, Widths, LenProperties
<1>3. d \in Seq(Byte) /\ p \in Nat /\ IsSequence(got) /\ good \in BOOLEAN
  BY ReaderGot
<1>4. /\ p1 \in Nat /\ p2 \in Nat /\ p3 \in Nat /\ p4 \in Nat /\ p <= p4
      /\ p4 = p + Len(PutInput(input, form))
  <2> DEFINE m == Len(c)
  <2>1. m \in Nat
    BY <1>2
  <2>2. Len(PutInput(input, form)) = Width.hash + Width.index + m + Width.sequence
    BY <1>1
  <2> DEFINE h == Width.hash
             j == Width.index
             q == Width.sequence
  <2>3. h \in Nat /\ j \in Nat /\ q \in Nat
    BY <1>2
  <2>4. p1 = p + h /\ p2 = p + h + j /\ p3 = p + h + j + m /\ p4 = p + h + j + m + q
    OBVIOUS
  <2> HIDE DEF m, h, j, q, p1, p2, p3, p4
  <2>5. /\ p1 \in Nat /\ p2 \in Nat /\ p3 \in Nat /\ p4 \in Nat /\ p <= p4
        /\ p4 = p + (h + j + m + q)
    BY <1>3, <2>1, <2>3, <2>4
  <2> QED
    BY <2>2, <2>5 DEF h, j, q
<1>5. /\ Unsigned(b) = input.prevTxIndex /\ Unsigned(e) = input.sequence
  <2>1. input.prevTxIndex \in Number(Width.index) /\ input.sequence \in Number(Width.sequence)
    BY DEF TxInput
  <2> QED
    BY <1>2, <2>1, ReadUnsignedBack
<1>6. ReadTxInput(r, i) = InputFrom(r, f4) /\ InputFrom(r, f4) = Got(r, f4, told)
  BY DEF ReadTxInput, InputFrom
<1> HIDE DEF a, b, c, e, p1, p2, p3, p4, f0, f1, f2, f3, f4
<1>7. Begins(d, p, a) /\ Begins(d, p1, b) /\ Begins(d, p2, c) /\ Begins(d, p3, e)
  <2>1. a \o b \in Seq(Byte) /\ Len(a \o b) = Width.hash + Width.index
    BY <1>1, ConcatProperties
  <2>2. a \o b \o c \in Seq(Byte) /\ Len(a \o b \o c) = Width.hash + Width.index + Len(c)
    BY <1>1, <2>1, ConcatProperties
  <2>3. Begins(d, p, a \o b \o c) /\ Begins(d, p + Len(a \o b \o c), e)
    BY <1>1, <1>3, <2>2, BeginsWithTwo
  <2>4. Begins(d, p, a \o b) /\ Begins(d, p + Len(a \o b), c)
    BY <1>1, <1>3, <2>1, <2>3, BeginsWithTwo
  <2>5. Begins(d, p, a) /\ Begins(d, p + Len(a), b)
    BY <1>1, <1>3, <2>4, BeginsWithTwo
  <2>6. /\ p + Len(a) = p1 /\ p + Len(a \o b) = p2 /\ p + Len(a \o b \o c) = p3
    <3>1. p + Len(a) = p1
      BY <1>1 DEF p1
    <3>2. p + Len(a \o b) = p2
      BY <1>2, <1>3, <2>1 DEF p1, p2
    <3>3. p + Len(a \o b \o c) = p3
      BY <1>2, <1>3, <2>2 DEF p1, p2, p3
    <3> QED
      BY <3>1, <3>2, <3>3
  <2> QED
    BY <2>3, <2>4, <2>5, <2>6
<1>8. Reader(f0, d, p, <<>>, good)
  BY FreshReader DEF f0
<1>9. Reader(f1, d, p1, <<a>>, good)
  <2>1. Reader(ReadBytes(f0, Len(a)), d, p + Len(a), Append(<<>>, a), good)
    BY <1>1, <1>7, <1>8, ReadBytesOf
  <2> QED
    BY <1>1, <2>1, AppendedOne DEF f1, p1
<1>10. Reader(f2, d, p2, <<a, input.prevTxIndex>>, good)
  <2>1. Reader(ReadNumber(f1, Width.index), d, p1 + Width.index,
               Append(<<a>>, Unsigned(LittleEndian(input.prevTxIndex, Width.index))), good)
    BY <1>1, <1>2, <1>7, <1>9, ReadNumberOf DEF b
  <2> QED
    BY <1>5, <2>1, AppendedTwo DEF f2, p2, b
<1>11. Reader(f3, d, p3, <<a, input.prevTxIndex, input.scriptSig>>, more)
  <2>1. Reader(ReadScript(f2), d, p2 + Len(c),
               Append(<<a, input.prevTxIndex>>, input.scriptSig), more)
    BY <1>1, <1>7, <1>10, ReadScriptOf DEF c
  <2> QED
    BY <2>1, AppendedThree DEF f3, p3
<1>12. Reader(f4, d, p4, values, more)
  <2>1. Reader(ReadNumber(f3, Width.sequence), d, p3 + Width.sequence,
               Append(<<a, input.prevTxIndex, input.scriptSig>>,
                      Unsigned(LittleEndian(input.sequence, Width.sequence))), more)
    BY <1>1, <1>2, <1>7, <1>11, ReadNumberOf DEF e
  <2> QED
    BY <1>5, <2>1, AppendedFour DEF f4, p4, e
<1>13. f4.ok => told = input
  <2> SUFFICES ASSUME f4.ok PROVE told = input
    OBVIOUS
  <2>1. f4.got = values
    BY <1>12, ReaderGot
  <2>2. told = [prevTxHash |-> a, prevTxIndex |-> input.prevTxIndex,
                scriptSig |-> input.scriptSig, sequence |-> input.sequence]
    BY <2>1
  <2> HIDE DEF told
  <2> QED
    BY <2>2 DEF TxInput, a
<1> HIDE DEF told, values
<1>14. Reader(Got(r, f4, told), d, p4, Append(got, input), more)
  BY <1>4, <1>12, <1>13, GotOf
<1> QED
  BY <1>4, <1>6, <1>14

\* The bytes of an output are those of its parts.
LEMMA OutputType ==
    ASSUME NEW output \in TxOutput, NEW form \in 0..3
    PROVE  LET a == LittleEndian(output.value, Width.value)
               b == PutScript(output.scriptPubKey, form)
           IN  /\ a \in Seq(Byte) /\ Len(a) = Width.value /\ b \in Seq(Byte) /\ Len(b) \in Nat
               /\ output.value \in Int /\ output.scriptPubKey \in Slice(Byte)
               /\ PutOutput(output, form) \in Seq(Byte)
               /\ PutOutput(output, form) = a \o b
               /\ Len(PutOutput(output, form)) = Width.value + Len(b)
               /\ Len(PutOutput(output, form)) \in Nat
<1> DEFINE a == LittleEndian(output.value, Width.value)
           b == PutScript(output.scriptPubKey, form)
<1>1. Width.value \in Nat \ {0} /\ output.value \in SignedNumber(Width.value) /\ output.scriptPubKey \in Slice(Byte)
  BY Widths DEF TxOutput
<1>2. output.value \in Int
  BY <1>1, WrapOfSigned
<1>3. a \in Seq(Byte) /\ Len(a) = Width.value
  BY <1>1, <1>2, LittleEndianType
<1>4. b \in Seq(Byte) /\ Len(b) \in Nat
  BY <1>1, ScriptType, LenProperties
<1>5. PutOutput(output, form) = a \o b
  BY DEF PutOutput
<1> HIDE DEF a, b
<1>6. a \o b \in Seq(Byte) /\ Len(a \o b) = Width.value + Len(b)
  BY <1>3, <1>4, ConcatProperties
<1>7. Width.value + Len(b) \in Nat
  BY <1>1, <1>4
<1> QED
  BY <1>1, <1>2, <1>3, <1>4, <1>5, <1>6, <1>7 DEF a, b

\* Reading an output gives it, if its script is not too long.
LEMMA ReadOutputOf ==
    ASSUME NEW r, NEW d, NEW p, NEW got, NEW good, Reader(r, d, p, got, good),
           NEW output \in TxOutput, NEW form \in 0..3, Begins(d, p, PutOutput(output, form)),
           NEW more \in BOOLEAN, more <=> good /\ Len(output.scriptPubKey) <= MaxScriptSize, NEW i
    PROVE  Reader(ReadTxOutput(r, i), d, p + Len(PutOutput(output, form)), Append(got, output), more)
<1> DEFINE a == LittleEndian(output.value, Width.value)
           b == PutScript(output.scriptPubKey, form)
           f0 == Fresh(r)
           f1 == ReadNumber(f0, Width.value)
           f2 == ReadScript(f1)
           p1 == p + Width.value
           p2 == p1 + Len(b)
           values == <<Unsigned(a), output.scriptPubKey>>
           told == [value |-> Wrap(f2.got[1], Width.value), scriptPubKey |-> f2.got[2]]
<1>1. /\ a \in Seq(Byte) /\ Len(a) = Width.value /\ b \in Seq(Byte) /\ Len(b) \in Nat
      /\ output.value \in Int /\ output.scriptPubKey \in Slice(Byte)
      /\ PutOutput(output, form) = a \o b
      /\ Len(PutOutput(output, form)) = Width.value + Len(b)
      /\ Width.value \in Nat
  BY OutputType, Widths
<1>2. d \in Seq(Byte) /\ p \in Nat /\ IsSequence(got) /\ good \in BOOLEAN
  BY ReaderGot
<1>3. p1 \in Nat /\ p2 \in Nat /\ p <= p2 /\ p2 = p + Len(PutOutput(output, form))
  <2> DEFINE m == Len(b)
  <2>1. m \in Nat /\ Len(PutOutput(output, form)) = Width.value + m
    BY <1>1
  <2>2. p2 = p1 + m
    OBVIOUS
  <2> DEFINE v == Width.value
  <2>3. v \in Nat /\ p1 = p + v
    BY <1>1
  <2> HIDE DEF m, v, p1, p2
  <2>4. p2 = p + (v + m) /\ p1 \in Nat /\ p2 \in Nat /\ p <= p2
    BY <1>2, <2>1, <2>2, <2>3
  <2> QED
    BY <2>1, <2>4 DEF v
<1>4. ReadTxOutput(r, i) = OutputFrom(r, f2) /\ OutputFrom(r, f2) = Got(r, f2, told)
  BY DEF ReadTxOutput, OutputFrom
<1> HIDE DEF a, b, p1, p2, f0, f1, f2
<1>5. Begins(d, p, a) /\ Begins(d, p1, b)
  BY <1>1, <1>2, BeginsWithTwo DEF p1
<1>6. Reader(f0, d, p, <<>>, good)
  BY FreshReader DEF f0
<1>7. Reader(f1, d, p1, <<Unsigned(a)>>, good)
  <2>1. Reader(ReadNumber(f0, Width.value), d, p + Width.value,
               Append(<<>>, Unsigned(LittleEndian(output.value, Width.value))), good)
    BY <1>1, <1>5, <1>6, ReadNumberOf DEF a
  <2> QED
    BY <2>1, AppendedOne DEF f1, p1, a
<1>8. Reader(f2, d, p2, values, more)
  <2>1. Reader(ReadScript(f1), d, p1 + Len(b), Append(<<Unsigned(a)>>, output.scriptPubKey), more)
    BY <1>1, <1>5, <1>7, ReadScriptOf DEF b
  <2> QED
    BY <2>1, AppendedTwo DEF f2, p2
<1>9. f2.ok => told = output
  <2> SUFFICES ASSUME f2.ok PROVE told = output
    OBVIOUS
  <2>1. f2.got = values
    BY <1>8, ReaderGot
  <2>2. Wrap(Unsigned(a), Width.value) = output.value
    BY Widths, ReadSignedBack DEF TxOutput, a
  <2>3. told = [value |-> output.value, scriptPubKey |-> output.scriptPubKey]
    BY <2>1, <2>2
  <2> HIDE DEF told
  <2> QED
    BY <2>3 DEF TxOutput
<1> HIDE DEF told, values
<1>10. Reader(Got(r, f2, told), d, p2, Append(got, output), more)
  BY <1>3, <1>8, <1>9, GotOf
<1> QED
  BY <1>3, <1>4, <1>10

-----------------------------------------------------------------------------
\* Inputs and outputs are read and written alike.
ReadItem(which, r) == IF which = "input" THEN ReadTxInput(r, 0) ELSE ReadTxOutput(r, 0)

ReadItems(which, r, n) ==
    IF which = "input" THEN FoldLeft(ReadTxInput, r, Indices(n)) ELSE FoldLeft(ReadTxOutput, r, Indices(n))

\* H reads one item after another.
ReadsInOrder(h, which, base, n) ==
    h[0] = base /\ \A j \in 1..n : h[j] = ReadItem(which, h[j - 1])

\* There is such an h.
LEMMA InOrderExists ==
    ASSUME NEW which, NEW base, NEW n \in Nat
    PROVE  \E h : ReadsInOrder(h, which, base, n)
<1> DEFINE T == {k \in Nat : \E h : ReadsInOrder(h, which, base, k)}
<1>1. 0 \in T
  <2> DEFINE h == [j \in 0..0 |-> base]
  <2>1. h[0] = base
    OBVIOUS
  <2> HIDE DEF h
  <2>2. ReadsInOrder(h, which, base, 0)
    BY <2>1 DEF ReadsInOrder
  <2> QED
    BY <2>2
<1>2. ASSUME NEW k \in T PROVE k + 1 \in T
  <2>1. PICK g : ReadsInOrder(g, which, base, k)
    OBVIOUS
  <2> DEFINE h == [j \in 0..(k + 1) |-> IF j = k + 1 THEN ReadItem(which, g[k]) ELSE g[j]]
  <2>2. \A j \in 0..k : h[j] = g[j]
    <3> TAKE j \in 0..k
    <3>1. j \in 0..(k + 1) /\ j # k + 1
      OBVIOUS
    <3> QED
      BY <3>1, Zenon
  <2>3. h[k + 1] = ReadItem(which, g[k])
    <3>1. k + 1 \in 0..(k + 1)
      OBVIOUS
    <3> QED
      BY <3>1, Zenon
  <2> HIDE DEF h
  <2>4. h[0] = base
    BY <2>1, <2>2, 0 \in 0..k DEF ReadsInOrder
  <2>5. ASSUME NEW j \in 1..(k + 1) PROVE h[j] = ReadItem(which, h[j - 1])
    <3>1. CASE j = k + 1
      <4>1. j - 1 = k /\ k \in 0..k
        BY <3>1
      <4> QED
        BY <2>2, <2>3, <3>1, <4>1
    <3>2. CASE j # k + 1
      <4>1. j \in 1..k /\ j \in 0..k /\ j - 1 \in 0..k
        BY <3>2
      <4> QED
        BY <2>1, <2>2, <4>1 DEF ReadsInOrder
    <3> QED
      BY <3>1, <3>2
  <2>6. ReadsInOrder(h, which, base, k + 1)
    BY <2>4, <2>5 DEF ReadsInOrder
  <2> QED
    BY <2>6, k + 1 \in Nat
<1>3. T = Nat
  <2> HIDE DEF T
  <2>1. T \in SUBSET Nat
    BY DEF T
  <2> QED
    BY <1>1, <1>2, <2>1, InductiveSet
<1> QED
  BY <1>3

\* ReadItems reads its items in order.
LEMMA ItemsInOrder ==
    ASSUME NEW which \in {"input", "output"}, NEW base, NEW n \in Nat
    PROVE  \E h : ReadsInOrder(h, which, base, n) /\ ReadItems(which, base, n) = h[n]
<1> DEFINE D == SUBSET (1..n)
           Equation(iter) ==
               iter = [t \in D |-> IF t = {} THEN base ELSE ReadItem(which, iter[t \ {Max(t)}])]
           fold == CHOOSE iter : Equation(iter)
           h == [j \in 0..n |-> fold[1..j]]
<1>1. PICK g : ReadsInOrder(g, which, base, n)
  BY InOrderExists
<1>2. \E iter : Equation(iter)
  <2> DEFINE iter == [t \in D |-> g[Cardinality(t)]]
             new == [t \in D |-> IF t = {} THEN base ELSE ReadItem(which, iter[t \ {Max(t)}])]
  <2>1. ASSUME NEW t \in D PROVE iter[t] = new[t]
    <3>1. IsFiniteSet(1..n) /\ Cardinality(1..n) = n
      BY FS_Interval
    <3>2. IsFiniteSet(t) /\ Cardinality(t) \in Nat /\ Cardinality(t) <= n
      BY <3>1, FS_Subset, FS_CardinalityType
    <3>3. CASE t = {}
      <4>1. Cardinality(t) = 0
        BY <3>3, FS_EmptySet
      <4> QED
        BY <1>1, <3>3, <4>1 DEF ReadsInOrder
    <3>4. CASE t # {}
      <4> DEFINE m == Max(t)
                 rest == t \ {m}
      <4>1. m \in t
        BY <3>4, MaxIsThere
      <4> HIDE DEF m
      <4>2. Cardinality(rest) = Cardinality(t) - 1 /\ rest \in D
        BY <3>2, <4>1, FS_RemoveElement
      <4>3. Cardinality(t) \in 1..n
        BY <3>2, <3>4, FS_EmptySet
      <4>4. g[Cardinality(t)] = ReadItem(which, g[Cardinality(rest)])
        BY <1>1, <4>2, <4>3 DEF ReadsInOrder
      <4>5. iter[t] = g[Cardinality(t)] /\ iter[rest] = g[Cardinality(rest)]
        BY <4>2
      <4>6. new[t] = ReadItem(which, iter[t \ {Max(t)}])
        <5> HIDE DEF iter
        <5> QED
          BY <3>4
      <4> HIDE DEF new, iter
      <4> QED
        BY <4>4, <4>5, <4>6 DEF rest, m
    <3> QED
      BY <3>3, <3>4
  <2>2. iter = [t \in D |-> iter[t]] /\ new = [t \in D |-> new[t]]
    OBVIOUS
  <2>3. iter = new
    <3> HIDE DEF new, iter
    <3> QED
      BY <2>1, <2>2
  <2>4. Equation(iter)
    BY <2>3
  <2> HIDE DEF iter, Equation
  <2> QED
    BY <2>4
<1>3. Equation(fold)
  <2> HIDE DEF Equation
  <2> QED
    BY <1>2
<1>4. DOMAIN Indices(n) = 1..n
  BY DEF Indices
<1>5. ReadItems(which, base, n) = fold[1..n]
  <2>1. CASE which = "input"
    BY <1>4, <2>1, Zenon DEF ReadItems, ReadItem, ReadTxInput, FoldLeft, MapThenFoldSet
  <2>2. CASE which # "input"
    BY <1>4, <2>2, Zenon DEF ReadItems, ReadItem, ReadTxOutput, FoldLeft, MapThenFoldSet
  <2> QED
    BY <2>1, <2>2
<1> HIDE DEF fold
<1>6. \A t \in D : fold[t] = IF t = {} THEN base ELSE ReadItem(which, fold[t \ {Max(t)}])
  BY <1>3, Zenon
<1>7. \A j \in 0..n : h[j] = fold[1..j]
  OBVIOUS
<1> HIDE DEF h
<1>8. h[0] = base
  BY <1>6, <1>7, 1..0 = {}, 0 \in 0..n
<1>9. ASSUME NEW j \in 1..n PROVE h[j] = ReadItem(which, h[j - 1])
  <2>1. 1..j \in D /\ 1..j # {} /\ j \in 0..n /\ j - 1 \in 0..n
    OBVIOUS
  <2>2. Max(1..j) = j /\ (1..j) \ {j} = 1..(j - 1)
    BY MaxOfInterval
  <2>3. fold[1..j] = ReadItem(which, fold[(1..j) \ {Max(1..j)}])
    BY <1>6, <2>1
  <2> QED
    BY <1>7, <2>1, <2>2, <2>3
<1>10. ReadItems(which, base, n) = h[n]
  BY <1>5, <1>7, n \in 0..n
<1>11. ReadsInOrder(h, which, base, n)
  BY <1>8, <1>9 DEF ReadsInOrder
<1> QED
  BY <1>10, <1>11

-----------------------------------------------------------------------------
\* Part joins one piece after another.
JoinsInOrder(part, pieces, n) ==
    /\ part \in [0..n -> Seq(Byte)]
    /\ part[0] = <<>> /\ \A j \in 1..n : part[j] = part[j - 1] \o pieces[j]

\* There is such a part.
LEMMA JoinExists ==
    ASSUME NEW n \in Nat, NEW pieces \in [1..n -> Seq(Byte)]
    PROVE  \E part : JoinsInOrder(part, pieces, n)
<1> DEFINE T == {k \in Nat : k <= n => \E part : JoinsInOrder(part, pieces, k)}
<1>1. 0 \in T
  <2> DEFINE part == [j \in 0..0 |-> <<>>]
  <2>1. part[0] = <<>> /\ part \in [0..0 -> Seq(Byte)]
    OBVIOUS
  <2> HIDE DEF part
  <2>2. JoinsInOrder(part, pieces, 0)
    BY <2>1 DEF JoinsInOrder
  <2> QED
    BY <2>2
<1>2. ASSUME NEW k \in T PROVE k + 1 \in T
  <2> SUFFICES ASSUME k + 1 <= n PROVE \E part : JoinsInOrder(part, pieces, k + 1)
    OBVIOUS
  <2>1. PICK g : JoinsInOrder(g, pieces, k)
    OBVIOUS
  <2> DEFINE next == g[k] \o pieces[k + 1]
             part == [j \in 0..(k + 1) |-> IF j = k + 1 THEN next ELSE g[j]]
  <2>2. next \in Seq(Byte)
    <3>1. g[k] \in Seq(Byte) /\ pieces[k + 1] \in Seq(Byte)
      BY <2>1, k \in 0..k, k + 1 \in 1..n DEF JoinsInOrder
    <3> QED
      BY <3>1, ConcatProperties
  <2> HIDE DEF next
  <2>3. part \in [0..(k + 1) -> Seq(Byte)]
    BY <2>1, <2>2 DEF JoinsInOrder
  <2>4. \A j \in 0..k : part[j] = g[j]
    <3> TAKE j \in 0..k
    <3>1. j \in 0..(k + 1) /\ j # k + 1
      OBVIOUS
    <3> QED
      BY <3>1, Zenon
  <2>5. part[k + 1] = next
    <3>1. k + 1 \in 0..(k + 1)
      OBVIOUS
    <3> QED
      BY <3>1, Zenon
  <2> HIDE DEF part
  <2>6. part[0] = <<>>
    BY <2>1, <2>4, 0 \in 0..k DEF JoinsInOrder
  <2>7. ASSUME NEW j \in 1..(k + 1) PROVE part[j] = part[j - 1] \o pieces[j]
    <3>1. CASE j = k + 1
      <4>1. j - 1 = k /\ k \in 0..k
        BY <3>1
      <4> QED
        BY <2>4, <2>5, <3>1, <4>1 DEF next
    <3>2. CASE j # k + 1
      <4>1. j \in 1..k /\ j \in 0..k /\ j - 1 \in 0..k
        BY <3>2
      <4> QED
        BY <2>1, <2>4, <4>1 DEF JoinsInOrder
    <3> QED
      BY <3>1, <3>2
  <2>8. JoinsInOrder(part, pieces, k + 1)
    BY <2>3, <2>6, <2>7 DEF JoinsInOrder
  <2> QED
    BY <2>8
<1>3. T = Nat
  <2> HIDE DEF T
  <2>1. T \in SUBSET Nat
    BY DEF T
  <2> QED
    BY <1>1, <1>2, <2>1, InductiveSet
<1>4. n \in T
  <2> HIDE DEF T
  <2> QED
    BY <1>3
<1> QED
  BY <1>4

\* FlattenSeq joins its pieces in order.
LEMMA FlattenInOrder ==
    ASSUME NEW n \in Nat, NEW pieces \in [1..n -> Seq(Byte)]
    PROVE  \E part : JoinsInOrder(part, pieces, n) /\ FlattenSeq(pieces) = part[n]
<1>1. Len(pieces) = n /\ n \in 0..n
  OBVIOUS
<1>2. PICK g : JoinsInOrder(g, pieces, n)
  BY JoinExists
<1>3. CASE n = 0
  <2>1. FlattenSeq(pieces) = pieces
    BY <1>1, <1>3 DEF FlattenSeq
  <2>2. pieces = <<>>
    BY <1>3
  <2> QED
    BY <1>2, <1>3, <2>1, <2>2 DEF JoinsInOrder
<1>4. CASE n # 0
  <2> DEFINE Equation(flat) ==
                 flat = [i \in 1..n |-> IF i = 1 THEN pieces[i] ELSE flat[i - 1] \o pieces[i]]
             flatten == CHOOSE flat : Equation(flat)
             part == [j \in 0..n |-> IF j = 0 THEN <<>> ELSE flatten[j]]
  <2>1. \A i \in 1..n : pieces[i] \in Seq(Byte)
    OBVIOUS
  <2>2. \A s \in Seq(Byte) : <<>> \o s = s
    BY ConcatEmptySeq
  <2>3. \E flat : Equation(flat)
    <3> DEFINE flat == [i \in 1..n |-> g[i]]
               new == [i \in 1..n |-> IF i = 1 THEN pieces[i] ELSE flat[i - 1] \o pieces[i]]
    <3>1. ASSUME NEW i \in 1..n PROVE flat[i] = new[i]
      <4>1. flat[i] = g[i] /\ g[i] = g[i - 1] \o pieces[i] /\ g[0] = <<>>
        BY <1>2 DEF JoinsInOrder
      <4>2. CASE i = 1
        <5>1. g[1 - 1] = <<>> /\ 1 - 1 = 0
          BY <4>1
        <5>2. new[i] = pieces[i]
          BY <4>2
        <5> HIDE DEF flat, new
        <5>3. g[i] = <<>> \o pieces[i]
          BY <4>1, <4>2, <5>1
        <5>4. <<>> \o pieces[i] = pieces[i]
          BY <2>1, ConcatEmptySeq
        <5> QED
          BY <4>1, <5>2, <5>3, <5>4
      <4>3. CASE i # 1
        <5>1. i - 1 \in 1..n
          BY <4>3
        <5>2. flat[i - 1] = g[i - 1]
          BY <5>1
        <5>3. new[i] = flat[i - 1] \o pieces[i]
          <6> HIDE DEF flat
          <6> QED
            BY <4>3
        <5> HIDE DEF flat, new
        <5> QED
          BY <4>1, <5>2, <5>3
      <4> QED
        BY <4>2, <4>3
    <3>2. flat = [i \in 1..n |-> flat[i]] /\ new = [i \in 1..n |-> new[i]]
      OBVIOUS
    <3>3. flat = new
      <4> HIDE DEF flat, new
      <4> QED
        BY <3>1, <3>2
    <3>4. Equation(flat)
      BY <3>3
    <3> HIDE DEF Equation, flat
    <3> QED
      BY <3>4
  <2>4. Equation(flatten)
    <3> HIDE DEF Equation
    <3> QED
      BY <2>3
  <2>5. FlattenSeq(pieces) = flatten[n]
    BY <1>1, <1>4, Zenon DEF FlattenSeq
  <2> HIDE DEF flatten
  <2>6. \A i \in 1..n : flatten[i] = IF i = 1 THEN pieces[i] ELSE flatten[i - 1] \o pieces[i]
    BY <2>4, Zenon
  <2>7. part[0] = <<>> /\ \A j \in 1..n : part[j] = flatten[j]
    OBVIOUS
  <2>8. part = [j \in 0..n |-> part[j]]
    OBVIOUS
  <2> HIDE DEF part
  <2>9. ASSUME NEW j \in 1..n PROVE part[j] = part[j - 1] \o pieces[j]
    <3>1. CASE j = 1
      <4>1. j - 1 = 0 /\ pieces[j] \in Seq(Byte)
        BY <2>1, <3>1
      <4> QED
        BY <2>2, <2>6, <2>7, <3>1, <4>1
    <3>2. CASE j # 1
      <4>1. j - 1 \in 1..n
        BY <3>2
      <4> QED
        BY <2>6, <2>7, <3>2, <4>1
    <3> QED
      BY <3>1, <3>2
  <2> DEFINE T == {k \in Nat : k <= n => part[k] \in Seq(Byte)}
  <2>10. 0 \in T
    BY <2>7, <<>> \in Seq(Byte)
  <2>11. ASSUME NEW k \in T PROVE k + 1 \in T
    <3> SUFFICES ASSUME k + 1 <= n PROVE part[k + 1] \in Seq(Byte)
      OBVIOUS
    <3>1. k + 1 \in 1..n /\ (k + 1) - 1 = k /\ part[k] \in Seq(Byte)
      OBVIOUS
    <3>2. part[k + 1] = part[k] \o pieces[k + 1] /\ pieces[k + 1] \in Seq(Byte)
      BY <2>1, <2>9, <3>1
    <3> QED
      BY <3>1, <3>2, ConcatProperties
  <2>12. T = Nat
    <3> HIDE DEF T
    <3>1. T \in SUBSET Nat
      BY DEF T
    <3> QED
      BY <2>10, <2>11, <3>1, InductiveSet
  <2>13. \A k \in 0..n : part[k] \in Seq(Byte)
    <3> TAKE k \in 0..n
    <3>1. k \in T
      <4> HIDE DEF T
      <4> QED
        BY <2>12
    <3> QED
      BY <3>1
  <2>14. part \in [0..n -> Seq(Byte)]
    BY <2>8, <2>13
  <2>15. JoinsInOrder(part, pieces, n)
    BY <2>7, <2>9, <2>14 DEF JoinsInOrder
  <2>16. FlattenSeq(pieces) = part[n]
    BY <1>4, <2>5, <2>7, n \in 1..n
  <2> QED
    BY <2>15, <2>16
<1> QED
  BY <1>3, <1>4

\* The pieces of a part that begins at p follow one another from p.
LEMMA BeginsWithAll ==
    ASSUME NEW d, NEW p \in Nat, NEW n \in Nat, NEW pieces \in [1..n -> Seq(Byte)],
           NEW part, JoinsInOrder(part, pieces, n), Begins(d, p, part[n])
    PROVE  \A j \in 1..n : Begins(d, p + Len(part[j - 1]), pieces[j])
<1>1. \A j \in 0..n : part[j] \in Seq(Byte)
  BY DEF JoinsInOrder
<1>2. ASSUME NEW j \in 1..n, Begins(d, p, part[j])
      PROVE  Begins(d, p, part[j - 1]) /\ Begins(d, p + Len(part[j - 1]), pieces[j])
  <2>1. part[j] = part[j - 1] \o pieces[j] /\ part[j - 1] \in Seq(Byte) /\ pieces[j] \in Seq(Byte)
    BY <1>1, j - 1 \in 0..n DEF JoinsInOrder
  <2> QED
    BY <1>2, <2>1, BeginsWithTwo
<1> DEFINE T == {k \in Nat : k <= n => Begins(d, p, part[n - k])}
<1>3. 0 \in T
  BY n - 0 = n
<1>4. ASSUME NEW k \in T PROVE k + 1 \in T
  <2> SUFFICES ASSUME k + 1 <= n PROVE Begins(d, p, part[n - (k + 1)])
    OBVIOUS
  <2>1. n - k \in 1..n /\ (n - k) - 1 = n - (k + 1)
    OBVIOUS
  <2>2. Begins(d, p, part[n - k])
    OBVIOUS
  <2> QED
    BY <1>2, <2>1, <2>2
<1>5. T = Nat
  <2> HIDE DEF T
  <2>1. T \in SUBSET Nat
    BY DEF T
  <2> QED
    BY <1>3, <1>4, <2>1, InductiveSet
<1>6. ASSUME NEW j \in 1..n PROVE Begins(d, p + Len(part[j - 1]), pieces[j])
  <2>1. n - j \in T
    <3> HIDE DEF T
    <3> QED
      BY <1>5, n - j \in Nat
  <2>2. n - (n - j) = j /\ n - j <= n
    OBVIOUS
  <2>3. Begins(d, p, part[j])
    BY <2>1, <2>2
  <2> QED
    BY <1>2, <2>3
<1> QED
  BY <1>6

-----------------------------------------------------------------------------
\* Inputs and outputs, their scripts and their bytes.
Item(which) == IF which = "input" THEN TxInput ELSE TxOutput
ScriptOf(which, item) == IF which = "input" THEN item.scriptSig ELSE item.scriptPubKey
PutItem(which, item, form) == IF which = "input" THEN PutInput(item, form) ELSE PutOutput(item, form)
PutItems(which, items, form) == [i \in DOMAIN items |-> PutItem(which, items[i], form)]

\* The scripts of the first items are not too long.
Small(which, items, k) == \A i \in 1..k : Len(ScriptOf(which, items[i])) <= MaxScriptSize

\* Reading an item gives it, if its script is not too long.
LEMMA ReadItemOf ==
    ASSUME NEW which \in {"input", "output"}, NEW r, NEW d, NEW p, NEW got, NEW good,
           Reader(r, d, p, got, good), NEW item \in Item(which), NEW form \in 0..3,
           Begins(d, p, PutItem(which, item, form)),
           NEW more \in BOOLEAN, more <=> good /\ Len(ScriptOf(which, item)) <= MaxScriptSize
    PROVE  Reader(ReadItem(which, r), d, p + Len(PutItem(which, item, form)), Append(got, item), more)
<1>1. CASE which = "input"
  <2>1. /\ item \in TxInput /\ Begins(d, p, PutInput(item, form))
        /\ more <=> good /\ Len(item.scriptSig) <= MaxScriptSize
    BY <1>1 DEF Item, PutItem, ScriptOf
  <2>2. Reader(ReadTxInput(r, 0), d, p + Len(PutInput(item, form)), Append(got, item), more)
    BY <2>1, ReadInputOf
  <2> QED
    BY <1>1, <2>2 DEF ReadItem, PutItem
<1>2. CASE which # "input"
  <2>1. /\ item \in TxOutput /\ Begins(d, p, PutOutput(item, form))
        /\ more <=> good /\ Len(item.scriptPubKey) <= MaxScriptSize
    BY <1>2 DEF Item, PutItem, ScriptOf
  <2>2. Reader(ReadTxOutput(r, 0), d, p + Len(PutOutput(item, form)), Append(got, item), more)
    BY <2>1, ReadOutputOf
  <2> QED
    BY <1>2, <2>2 DEF ReadItem, PutItem
<1> QED
  BY <1>1, <1>2

\* The bytes of items.
LEMMA ItemsType ==
    ASSUME NEW which \in {"input", "output"}, NEW items \in Slice(Item(which)), NEW form \in 0..3
    PROVE  /\ items \in Seq(Item(which)) /\ Len(items) \in Nat /\ DOMAIN items = 1..Len(items)
           /\ \A i \in 1..Len(items) : items[i] \in Item(which)
           /\ PutItems(which, items, form) \in [1..Len(items) -> Seq(Byte)]
           /\ FlattenSeq(PutItems(which, items, form)) \in Seq(Byte)
<1>1. /\ items \in Seq(Item(which)) /\ Len(items) \in Nat /\ DOMAIN items = 1..Len(items)
      /\ \A i \in 1..Len(items) : items[i] \in Item(which)
  BY Domain
<1>2. ASSUME NEW i \in 1..Len(items) PROVE PutItem(which, items[i], form) \in Seq(Byte)
  <2>1. items[i] \in Item(which)
    BY <1>1
  <2>2. CASE which = "input"
    BY <2>1, <2>2, InputType DEF PutItem, Item
  <2>3. CASE which # "input"
    BY <2>1, <2>3, OutputType DEF PutItem, Item
  <2> QED
    BY <2>2, <2>3
<1>3. PutItems(which, items, form) \in [1..Len(items) -> Seq(Byte)]
  BY <1>1, <1>2 DEF PutItems
<1>4. \E part : JoinsInOrder(part, PutItems(which, items, form), Len(items))
                /\ FlattenSeq(PutItems(which, items, form)) = part[Len(items)]
  BY <1>1, <1>3, FlattenInOrder
<1>5. FlattenSeq(PutItems(which, items, form)) \in Seq(Byte)
  BY <1>1, <1>4, Len(items) \in 0..Len(items) DEF JoinsInOrder
<1> QED
  BY <1>1, <1>3, <1>5

\* Reading items gives them, if no script of theirs is too long.
LEMMA ReadItemsOf ==
    ASSUME NEW which \in {"input", "output"}, NEW r, NEW d, NEW p, NEW good,
           Reader(r, d, p, <<>>, good), NEW items \in Slice(Item(which)), NEW form \in 0..3,
           Begins(d, p, FlattenSeq(PutItems(which, items, form))),
           NEW more \in BOOLEAN, more <=> good /\ Small(which, items, Len(items))
    PROVE  Reader(ReadItems(which, r, Len(items)), d,
                  p + Len(FlattenSeq(PutItems(which, items, form))), items, more)
<1> DEFINE n == Len(items)
           pieces == PutItems(which, items, form)
           good_(k) == IF good /\ Small(which, items, k) THEN TRUE ELSE FALSE
<1>1. /\ items \in Seq(Item(which)) /\ n \in Nat /\ pieces \in [1..n -> Seq(Byte)]
      /\ \A i \in 1..n : items[i] \in Item(which)
      /\ DOMAIN items = 1..n
  BY ItemsType
<1>2. PICK part : JoinsInOrder(part, pieces, n) /\ FlattenSeq(pieces) = part[n]
  <2> HIDE DEF pieces
  <2> QED
    BY <1>1, FlattenInOrder
<1>3. PICK h : ReadsInOrder(h, which, r, n) /\ ReadItems(which, r, n) = h[n]
  BY <1>1, ItemsInOrder
<1>4. d \in Seq(Byte) /\ p \in Nat /\ good \in BOOLEAN
  BY ReaderGot
<1>5. \A j \in 1..n : Begins(d, p + Len(part[j - 1]), pieces[j])
  <2>1. Begins(d, p, part[n])
    BY <1>2
  <2> HIDE DEF pieces
  <2> QED
    BY <1>1, <1>2, <1>4, <2>1, BeginsWithAll
<1>6. \A j \in 1..n : pieces[j] = PutItem(which, items[j], form)
  BY <1>1 DEF PutItems
<1> HIDE DEF pieces
<1> DEFINE Read(k) == Reader(h[k], d, p + Len(part[k]), SubSeq(items, 1, k), good_(k))
           T == {k \in Nat : k <= n => Read(k)}
<1>7. 0 \in T
  <2>1. h[0] = r
    BY <1>3 DEF ReadsInOrder
  <2>2. part[0] = <<>> /\ Len(<<>>) = 0 /\ p + 0 = p
    BY <1>2, <1>4, EmptyIs DEF JoinsInOrder
  <2>3. SubSeq(items, 1, 0) = <<>>
    BY <1>1
  <2>4. good_(0) = good
    <3>1. Small(which, items, 0)
      BY DEF Small
    <3>2. CASE good = TRUE
      BY <3>1, <3>2
    <3>3. CASE good = FALSE
      BY <3>3
    <3> QED
      BY <1>4, <3>2, <3>3
  <2> HIDE DEF good_
  <2> QED
    BY <2>1, <2>2, <2>3, <2>4
<1>8. ASSUME NEW k \in T PROVE k + 1 \in T
  <2> SUFFICES ASSUME k + 1 <= n PROVE Read(k + 1)
    <3> HIDE DEF Read, n
    <3> QED
      BY <1>1
  <2>0. Read(k)
    <3> HIDE DEF Read, n
    <3> QED
      BY <1>1
  <2> DEFINE item == items[k + 1]
             q == p + Len(part[k])
             prefix == SubSeq(items, 1, k)
  <2>1. k + 1 \in 1..n /\ (k + 1) - 1 = k /\ k \in 0..n
    OBVIOUS
  <2>2. Reader(h[k], d, q, prefix, good_(k))
    BY <2>0
  <2>3. h[k + 1] = ReadItem(which, h[k])
    BY <1>3, <2>1 DEF ReadsInOrder
  <2>4. item \in Item(which) /\ Begins(d, q, PutItem(which, item, form))
    BY <1>1, <1>5, <1>6, <2>1
  <2>5. good_(k + 1) \in BOOLEAN /\ (good_(k + 1) <=> good_(k) /\ Len(ScriptOf(which, item)) <= MaxScriptSize)
    <3>1. 1..(k + 1) = (1..k) \cup {k + 1}
      OBVIOUS
    <3>2. Small(which, items, k + 1) <=> Small(which, items, k) /\ Len(ScriptOf(which, item)) <= MaxScriptSize
      BY <3>1 DEF Small
    <3> QED
      BY <3>2
  <2> HIDE DEF T, Read, good_, q, prefix, item
  <2>6. Reader(h[k + 1], d, q + Len(PutItem(which, item, form)), Append(prefix, item), good_(k + 1))
    BY <2>2, <2>3, <2>4, <2>5, ReadItemOf
  <2>7. q + Len(PutItem(which, item, form)) = p + Len(part[k + 1])
    <3> DEFINE piece == PutItem(which, item, form)
    <3>1. part[k + 1] = part[k] \o piece /\ part[k] \in Seq(Byte) /\ piece \in Seq(Byte)
      BY <1>1, <1>2, <1>6, <2>1 DEF JoinsInOrder, item
    <3> HIDE DEF piece
    <3>2. Len(part[k + 1]) = Len(part[k]) + Len(piece) /\ Len(part[k]) \in Nat /\ Len(piece) \in Nat
      BY <3>1, ConcatProperties, LenProperties
    <3>3. q + Len(piece) = p + Len(part[k + 1])
      BY <1>4, <3>2 DEF q
    <3> QED
      BY <3>3 DEF piece
  <2>8. Append(prefix, item) = SubSeq(items, 1, k + 1)
    <3> DEFINE t == SubSeq(items, 1, k + 1)
    <3>1. /\ prefix \in Seq(Item(which)) /\ Len(prefix) = k /\ \A i \in 1..k : prefix[i] = items[i]
      BY <1>1, <2>1 DEF prefix
    <3>2. /\ t \in Seq(Item(which)) /\ Len(t) = k + 1 /\ \A i \in 1..(k + 1) : t[i] = items[i]
      BY <1>1, <2>1
    <3> HIDE DEF t
    <3>3. IsSequence(prefix) /\ IsSequence(t)
      BY <3>1, <3>2, LenProperties DEF IsSequence
    <3>4. /\ Len(t) = Len(prefix) + 1 /\ t[Len(prefix) + 1] = item
          /\ \A i \in 1..Len(prefix) : t[i] = prefix[i]
      BY <3>1, <3>2 DEF item
    <3> QED
      BY <3>3, <3>4, AppendedIs DEF t
  <2> QED
    BY <2>6, <2>7, <2>8 DEF Read
<1>9. T = Nat
  <2> HIDE DEF T
  <2>1. T \in SUBSET Nat
    BY DEF T
  <2> QED
    BY <1>7, <1>8, <2>1, InductiveSet
<1>10. Read(n)
  <2>1. n \in T
    <3> HIDE DEF T
    <3> QED
      BY <1>1, <1>9
  <2> HIDE DEF Read
  <2> QED
    BY <2>1
<1>11. SubSeq(items, 1, n) = items
  BY <1>1, SubSeqFull
<1>12. good_(n) = more
  OBVIOUS
<1> HIDE DEF good_
<1> QED
  BY <1>2, <1>3, <1>10, <1>11, <1>12 DEF pieces

-----------------------------------------------------------------------------
\* Both lists are read alike.
ItemsFrom(which, n) ==
    IF n.ok /\ Last(n.got) <= MaxCount
    THEN ListFrom(Drop(n), ReadItems(which, Fresh(n), Last(n.got)))
    ELSE Failed

\* Reading a list gives it, if it is not too long and no script of it is.
LEMMA ReadListOf ==
    ASSUME NEW which \in {"input", "output"}, NEW r, NEW d, NEW p, NEW got, NEW good,
           Reader(r, d, p, got, good), NEW items \in Slice(Item(which)), NEW form \in 0..3,
           NEW size, size = PutVarInt(Len(items), form), Begins(d, p, size),
           NEW flat, flat = FlattenSeq(PutItems(which, items, form)), Begins(d, p + Len(size), flat),
           NEW more \in BOOLEAN,
           more <=> good /\ Len(items) <= MaxCount /\ Small(which, items, Len(items))
    PROVE  Reader(ItemsFrom(which, ReadVarInt(r)), d, p + Len(size) + Len(flat), Append(got, items), more)
<1> DEFINE k == Len(items)
           n == ReadVarInt(r)
           q == p + Len(size)
           t == p + Len(size) + Len(flat)
           some == IF good /\ Small(which, items, k) THEN TRUE ELSE FALSE
           f == ReadItems(which, Fresh(n), k)
<1>1. d \in Seq(Byte) /\ p \in Nat /\ IsSequence(got) /\ good \in BOOLEAN /\ Len(d) \in Nat
  BY ReaderGot, LenProperties
<1>2. k \in Nat /\ k \in Number(VarWidth[3]) /\ size \in Seq(Byte) /\ Len(size) \in Nat
  BY LengthType
<1>3. flat \in Seq(Byte) /\ Len(flat) \in Nat
  BY ItemsType, LenProperties
<1>4. q \in Nat /\ t \in Nat /\ p <= q /\ q <= t /\ t = q + Len(flat)
  <2> DEFINE a == Len(size)
             b == Len(flat)
  <2>1. a \in Nat /\ b \in Nat
    BY <1>2, <1>3
  <2>2. q = p + a /\ t = p + a + b
    OBVIOUS
  <2> HIDE DEF a, b, q, t
  <2>3. q \in Nat /\ t \in Nat /\ p <= q /\ q <= t /\ t = q + b
    BY <1>1, <2>1, <2>2
  <2> QED
    BY <2>3 DEF b
<1> HIDE DEF k, n, q, t, f
<1>5. Reader(n, d, q, Append(got, k), good)
  BY <1>2, ReadVarIntOf DEF n, q, k
<1>6. /\ n.ok <=> (good /\ q <= Len(d))
      /\ n.ok => Last(n.got) = k /\ Reader(Drop(n), d, q, got, good)
  BY <1>1, <1>5, ReaderIs
<1>7. IsSequence(Append(got, items))
  BY <1>1, AppendIs
<1>8. CASE n.ok /\ k <= MaxCount
  <2>1. ItemsFrom(which, n) = Got(Drop(n), f, f.got)
    BY <1>6, <1>8 DEF ItemsFrom, ListFrom, f
  <2>2. Reader(Fresh(n), d, q, <<>>, good)
    BY <1>5, FreshReader
  <2>3. some \in BOOLEAN /\ (some <=> good /\ Small(which, items, k)) /\ (some => good)
    OBVIOUS
  <2>4. some <=> more
    BY <1>8 DEF k
  <2> HIDE DEF some
  <2>5. Reader(f, d, t, items, some)
    BY <1>4, <2>2, <2>3, ReadItemsOf DEF f, k, q
  <2>6. f.ok => f.got = items
    BY <2>5, ReaderGot
  <2>7. Reader(Got(Drop(n), f, f.got), d, t, Append(got, items), some)
    BY <1>4, <1>6, <1>8, <2>3, <2>5, <2>6, GotOf
  <2>8. Reader(Got(Drop(n), f, f.got), d, t, Append(got, items), more)
    BY <2>4, <2>7 DEF Reader
  <2> QED
    BY <2>1, <2>8 DEF n, t
<1>9. CASE ~(n.ok /\ k <= MaxCount)
  <2>1. ItemsFrom(which, n) = Failed
    BY <1>6, <1>9 DEF ItemsFrom
  <2>2. ~(more /\ q <= Len(d))
    <3>1. CASE ~n.ok
      <4>1. ~(good /\ q <= Len(d))
        BY <1>6, <3>1
      <4> QED
        BY <4>1
    <3>2. CASE ~(k <= MaxCount)
      BY <3>2 DEF k
    <3> QED
      BY <1>9, <3>1, <3>2
  <2>3. Reader(Failed, d, t, Append(got, items), more)
    BY <1>1, <1>4, <1>7, <2>2, StaysFailed
  <2> QED
    BY <2>1, <2>3 DEF n, t
<1> QED
  BY <1>8, <1>9

\* The limits on what a transaction holds.
WithinLimits(tx) ==
    /\ \A i \in DOMAIN tx.inputs : Len(tx.inputs[i].scriptSig) <= MaxScriptSize
    /\ \A i \in DOMAIN tx.outputs : Len(tx.outputs[i].scriptPubKey) <= MaxScriptSize
    /\ Len(tx.inputs) <= MaxCount /\ Len(tx.outputs) <= MaxCount

\* The parts of a transaction's bytes.
LEMMA TransactionType ==
    ASSUME NEW tx \in BitcoinTransaction, NEW form \in 0..3
    PROVE  LET a == LittleEndian(tx.version, Width.version)
               b == PutVarInt(Len(tx.inputs), form)
               c == FlattenSeq(PutItems("input", tx.inputs, form))
               e == PutVarInt(Len(tx.outputs), form)
               f == FlattenSeq(PutItems("output", tx.outputs, form))
               g == LittleEndian(tx.lockTime, Width.lockTime)
           IN  /\ a \in Seq(Byte) /\ b \in Seq(Byte) /\ c \in Seq(Byte)
               /\ e \in Seq(Byte) /\ f \in Seq(Byte) /\ g \in Seq(Byte)
               /\ Len(a) = Width.version /\ Len(g) = Width.lockTime
               /\ Len(b) \in Nat \ {0} /\ Len(c) \in Nat /\ Len(e) \in Nat \ {0} /\ Len(f) \in Nat
               /\ tx.inputs \in Slice(Item("input")) /\ tx.outputs \in Slice(Item("output"))
               /\ tx.version \in Int /\ tx.lockTime \in Int
               /\ Wrap(Unsigned(a), Width.version) = tx.version /\ Unsigned(g) = tx.lockTime
               /\ Serialise(tx, form) = a \o b \o c \o e \o f \o g
<1>1. /\ tx.version \in SignedNumber(Width.version) /\ tx.lockTime \in Number(Width.lockTime)
      /\ tx.inputs \in Slice(TxInput) /\ tx.outputs \in Slice(TxOutput)
      /\ Width.version \in Nat \ {0} /\ Width.lockTime \in Nat \ {0}
  BY Widths DEF BitcoinTransaction
<1>2. tx.inputs \in Slice(Item("input")) /\ tx.outputs \in Slice(Item("output"))
  BY <1>1 DEF Item
<1>3. tx.version \in Int /\ tx.lockTime \in Int
  BY <1>1, WrapOfSigned, NumberType
<1>4. /\ LittleEndian(tx.version, Width.version) \in Seq(Byte)
      /\ Len(LittleEndian(tx.version, Width.version)) = Width.version
      /\ LittleEndian(tx.lockTime, Width.lockTime) \in Seq(Byte)
      /\ Len(LittleEndian(tx.lockTime, Width.lockTime)) = Width.lockTime
  BY <1>1, <1>3, LittleEndianType
<1>5. /\ Wrap(Unsigned(LittleEndian(tx.version, Width.version)), Width.version) = tx.version
      /\ Unsigned(LittleEndian(tx.lockTime, Width.lockTime)) = tx.lockTime
  BY <1>1, ReadSignedBack, ReadUnsignedBack
<1>6. /\ PutVarInt(Len(tx.inputs), form) \in Seq(Byte) /\ Len(PutVarInt(Len(tx.inputs), form)) \in Nat \ {0}
      /\ PutVarInt(Len(tx.outputs), form) \in Seq(Byte) /\ Len(PutVarInt(Len(tx.outputs), form)) \in Nat \ {0}
  BY <1>2, LengthType
<1>7. /\ FlattenSeq(PutItems("input", tx.inputs, form)) \in Seq(Byte)
      /\ FlattenSeq(PutItems("output", tx.outputs, form)) \in Seq(Byte)
  BY <1>2, ItemsType
<1>8. /\ Len(FlattenSeq(PutItems("input", tx.inputs, form))) \in Nat
      /\ Len(FlattenSeq(PutItems("output", tx.outputs, form))) \in Nat
  BY <1>7, LenProperties
<1>9. /\ PutItems("input", tx.inputs, form) = [i \in DOMAIN tx.inputs |-> PutInput(tx.inputs[i], form)]
      /\ PutItems("output", tx.outputs, form) = [i \in DOMAIN tx.outputs |-> PutOutput(tx.outputs[i], form)]
  BY DEF PutItems, PutItem
<1>10. Serialise(tx, form) =
           LittleEndian(tx.version, Width.version) \o PutVarInt(Len(tx.inputs), form)
               \o FlattenSeq(PutItems("input", tx.inputs, form)) \o PutVarInt(Len(tx.outputs), form)
               \o FlattenSeq(PutItems("output", tx.outputs, form))
               \o LittleEndian(tx.lockTime, Width.lockTime)
  BY <1>9, Zenon DEF Serialise
<1> QED
  BY <1>2, <1>3, <1>4, <1>5, <1>6, <1>7, <1>8, <1>10

\* The bytes s are six pieces.
IsSix(s, a, b, c, e, f, g) ==
    /\ a \in Seq(Byte) /\ b \in Seq(Byte) /\ c \in Seq(Byte)
    /\ e \in Seq(Byte) /\ f \in Seq(Byte) /\ g \in Seq(Byte)
    /\ s = a \o b \o c \o e \o f \o g

\* How long they are.
LEMMA SixType ==
    ASSUME NEW s, NEW a, NEW b, NEW c, NEW e, NEW f, NEW g, IsSix(s, a, b, c, e, f, g)
    PROVE  LET s2 == a \o b
               s3 == s2 \o c
               s4 == s3 \o e
               s5 == s4 \o f
           IN  /\ s = s5 \o g
               /\ s2 \in Seq(Byte) /\ Len(s2) = Len(a) + Len(b)
               /\ s3 \in Seq(Byte) /\ Len(s3) = Len(a) + Len(b) + Len(c)
               /\ s4 \in Seq(Byte) /\ Len(s4) = Len(a) + Len(b) + Len(c) + Len(e)
               /\ s5 \in Seq(Byte) /\ Len(s5) = Len(a) + Len(b) + Len(c) + Len(e) + Len(f)
               /\ s \in Seq(Byte) /\ Len(s) = Len(a) + Len(b) + Len(c) + Len(e) + Len(f) + Len(g)
<1> DEFINE s2 == a \o b
           s3 == s2 \o c
           s4 == s3 \o e
           s5 == s4 \o f
           s6 == s5 \o g
<1>0. /\ a \in Seq(Byte) /\ b \in Seq(Byte) /\ c \in Seq(Byte)
      /\ e \in Seq(Byte) /\ f \in Seq(Byte) /\ g \in Seq(Byte)
      /\ s = s6
  BY DEF IsSix
<1>1. s2 \in Seq(Byte) /\ Len(s2) = Len(a) + Len(b)
  BY <1>0, ConcatProperties
<1>2. s3 \in Seq(Byte) /\ Len(s3) = Len(a) + Len(b) + Len(c)
  <2> HIDE DEF s2
  <2>1. s3 \in Seq(Byte) /\ Len(s3) = Len(s2) + Len(c)
    BY <1>0, <1>1, ConcatProperties
  <2> QED
    BY <1>0, <1>1, <2>1
<1>3. s4 \in Seq(Byte) /\ Len(s4) = Len(a) + Len(b) + Len(c) + Len(e)
  <2> HIDE DEF s3
  <2> QED
    BY <1>0, <1>2, ConcatProperties
<1>4. s5 \in Seq(Byte) /\ Len(s5) = Len(a) + Len(b) + Len(c) + Len(e) + Len(f)
  <2> HIDE DEF s4
  <2> QED
    BY <1>0, <1>3, ConcatProperties
<1>5. s6 \in Seq(Byte) /\ Len(s6) = Len(a) + Len(b) + Len(c) + Len(e) + Len(f) + Len(g)
  <2> HIDE DEF s5
  <2> QED
    BY <1>0, <1>4, ConcatProperties
<1> HIDE DEF s2, s3, s4, s5, s6
<1> QED
  BY <1>0, <1>1, <1>2, <1>3, <1>4, <1>5 DEF s2, s3, s4, s5, s6

\* Their length.
LEMMA SixLength ==
    ASSUME NEW s, NEW a, NEW b, NEW c, NEW e, NEW f, NEW g, IsSix(s, a, b, c, e, f, g)
    PROVE  s \in Seq(Byte) /\ Len(s) = Len(a) + Len(b) + Len(c) + Len(e) + Len(f) + Len(g)
BY SixType

\* They follow one another.
LEMMA BeginsWithSix ==
    ASSUME NEW d, NEW s, NEW a, NEW b, NEW c, NEW e, NEW f, NEW g, IsSix(s, a, b, c, e, f, g),
           Begins(d, 0, s)
    PROVE  /\ Begins(d, 0, a) /\ Begins(d, Len(a), b) /\ Begins(d, Len(a) + Len(b), c)
           /\ Begins(d, Len(a) + Len(b) + Len(c), e)
           /\ Begins(d, Len(a) + Len(b) + Len(c) + Len(e), f)
           /\ Begins(d, Len(a) + Len(b) + Len(c) + Len(e) + Len(f), g)
<1> DEFINE s2 == a \o b
           s3 == s2 \o c
           s4 == s3 \o e
           s5 == s4 \o f
           s6 == s5 \o g
<1>0. /\ a \in Seq(Byte) /\ b \in Seq(Byte) /\ c \in Seq(Byte)
      /\ e \in Seq(Byte) /\ f \in Seq(Byte) /\ g \in Seq(Byte)
      /\ s = s6 /\ Begins(d, 0, s6)
  BY DEF IsSix
<1>1. s2 \in Seq(Byte) /\ Len(s2) = Len(a) + Len(b)
  BY SixType
<1>2. s3 \in Seq(Byte) /\ Len(s3) = Len(a) + Len(b) + Len(c)
  BY SixType
<1>3. s4 \in Seq(Byte) /\ Len(s4) = Len(a) + Len(b) + Len(c) + Len(e)
  BY SixType
<1>4. s5 \in Seq(Byte) /\ Len(s5) = Len(a) + Len(b) + Len(c) + Len(e) + Len(f)
  BY SixType
<1>6. Begins(d, 0, s5) /\ Begins(d, Len(s5), g)
  <2> HIDE DEF s5
  <2>1. Begins(d, 0, s5) /\ Begins(d, 0 + Len(s5), g)
    BY <1>0, <1>4, BeginsWithTwo DEF s6
  <2> QED
    BY <1>4, <2>1, 0 + Len(s5) = Len(s5)
<1>7. Begins(d, 0, s4) /\ Begins(d, Len(s4), f)
  <2> HIDE DEF s4
  <2>1. Begins(d, 0, s4) /\ Begins(d, 0 + Len(s4), f)
    BY <1>0, <1>3, <1>6, BeginsWithTwo DEF s5
  <2> QED
    BY <1>3, <2>1, 0 + Len(s4) = Len(s4)
<1>8. Begins(d, 0, s3) /\ Begins(d, Len(s3), e)
  <2> HIDE DEF s3
  <2>1. Begins(d, 0, s3) /\ Begins(d, 0 + Len(s3), e)
    BY <1>0, <1>2, <1>7, BeginsWithTwo DEF s4
  <2> QED
    BY <1>2, <2>1, 0 + Len(s3) = Len(s3)
<1>9. Begins(d, 0, s2) /\ Begins(d, Len(s2), c)
  <2> HIDE DEF s2
  <2>1. Begins(d, 0, s2) /\ Begins(d, 0 + Len(s2), c)
    BY <1>0, <1>1, <1>8, BeginsWithTwo DEF s3
  <2> QED
    BY <1>1, <2>1, 0 + Len(s2) = Len(s2)
<1>10. Begins(d, 0, a) /\ Begins(d, Len(a), b)
  <2>1. Begins(d, 0, a) /\ Begins(d, 0 + Len(a), b)
    BY <1>0, <1>9, BeginsWithTwo
  <2> QED
    BY <1>0, <2>1, 0 + Len(a) = Len(a)
<1> HIDE DEF s2, s3, s4, s5, s6
<1> QED
  BY <1>0, <1>1, <1>2, <1>3, <1>4, <1>6, <1>7, <1>8, <1>9, <1>10

-----------------------------------------------------------------------------
\* ParseTransaction on bytes that begin as those of a transaction do: it gives the
\* transaction, if all of its bytes are there and the limits are kept, and nothing otherwise.
LEMMA ParseOf ==
    ASSUME NEW tx \in BitcoinTransaction, NEW form \in 0..3, NEW d \in Seq(Byte),
           Begins(d, 0, Serialise(tx, form))
    PROVE  LET all == WithinLimits(tx) /\ Len(Serialise(tx, form)) <= Len(d) /\ Len(d) <= MaxTxSize
           IN  IF all THEN ParseTransaction(d) = [ok |-> TRUE, tx |-> tx]
               ELSE ParseTransaction(d) = [ok |-> FALSE]
<1> DEFINE a == LittleEndian(tx.version, Width.version)
           b == PutVarInt(Len(tx.inputs), form)
           c == FlattenSeq(PutItems("input", tx.inputs, form))
           e == PutVarInt(Len(tx.outputs), form)
           f == FlattenSeq(PutItems("output", tx.outputs, form))
           g == LittleEndian(tx.lockTime, Width.lockTime)
           s == Serialise(tx, form)
           p1 == Len(a)
           p2 == Len(a) + Len(b) + Len(c)
           p3 == Len(a) + Len(b) + Len(c) + Len(e) + Len(f)
           good1 == IF Len(tx.inputs) <= MaxCount /\ Small("input", tx.inputs, Len(tx.inputs))
                    THEN TRUE ELSE FALSE
           good2 == IF good1 /\ Len(tx.outputs) <= MaxCount /\ Small("output", tx.outputs, Len(tx.outputs))
                    THEN TRUE ELSE FALSE
           r0 == [rest |-> d, ok |-> TRUE, got |-> <<>>]
           r1 == ReadNumber(r0, Width.version)
           r2 == ItemsFrom("input", ReadVarInt(r1))
           r3 == ItemsFrom("output", ReadVarInt(r2))
           r4 == ReadNumber(r3, Width.lockTime)
           m == Len(d)
<1>1. /\ a \in Seq(Byte) /\ b \in Seq(Byte) /\ c \in Seq(Byte)
      /\ e \in Seq(Byte) /\ f \in Seq(Byte) /\ g \in Seq(Byte)
      /\ Len(a) = Width.version /\ Len(g) = Width.lockTime
      /\ Len(b) \in Nat \ {0} /\ Len(c) \in Nat /\ Len(e) \in Nat \ {0} /\ Len(f) \in Nat
      /\ tx.inputs \in Slice(Item("input")) /\ tx.outputs \in Slice(Item("output"))
      /\ tx.version \in Int /\ tx.lockTime \in Int
      /\ Wrap(Unsigned(a), Width.version) = tx.version /\ Unsigned(g) = tx.lockTime
      /\ s = a \o b \o c \o e \o f \o g
  BY TransactionType
<1>2. Width.version \in Nat \ {0} /\ Width.lockTime \in Nat \ {0} /\ m \in Nat
  BY Widths, LenProperties
<1>3. ParseTransaction(d) = TransactionFrom(d, r4)
  BY Zenon DEF ParseTransaction, ReadVersion, InputsFrom, OutputsFrom, ItemsFrom, ReadItems
<1>4. good1 \in BOOLEAN /\ good2 \in BOOLEAN
  OBVIOUS
<1>5. good2 <=> WithinLimits(tx)
  <2>1. DOMAIN tx.inputs = 1..Len(tx.inputs) /\ DOMAIN tx.outputs = 1..Len(tx.outputs)
    BY <1>1, ItemsType
  <2>2. Small("input", tx.inputs, Len(tx.inputs))
            <=> \A i \in DOMAIN tx.inputs : Len(tx.inputs[i].scriptSig) <= MaxScriptSize
    BY <2>1 DEF Small, ScriptOf
  <2>3. Small("output", tx.outputs, Len(tx.outputs))
            <=> \A i \in DOMAIN tx.outputs : Len(tx.outputs[i].scriptPubKey) <= MaxScriptSize
    BY <2>1 DEF Small, ScriptOf
  <2> QED
    BY <2>2, <2>3 DEF WithinLimits
<1>6. /\ good1 <=> TRUE /\ Len(tx.inputs) <= MaxCount /\ Small("input", tx.inputs, Len(tx.inputs))
      /\ good2 <=> good1 /\ Len(tx.outputs) <= MaxCount /\ Small("output", tx.outputs, Len(tx.outputs))
  OBVIOUS
<1> HIDE DEF a, b, c, e, f, g, s, r0, r1, r2, r3, r4, good1, good2, m
<1>7. Begins(d, 0, s)
  BY DEF s
<1>8. /\ Begins(d, 0, a) /\ Begins(d, Len(a), b) /\ Begins(d, Len(a) + Len(b), c)
      /\ Begins(d, p2, e) /\ Begins(d, p2 + Len(e), f) /\ Begins(d, p3, g)
      /\ Len(s) = p3 + Len(g)
  <2>1. IsSix(s, a, b, c, e, f, g)
    BY <1>1 DEF IsSix
  <2>2. /\ Begins(d, 0, a) /\ Begins(d, Len(a), b) /\ Begins(d, Len(a) + Len(b), c)
        /\ Begins(d, p2, e) /\ Begins(d, p2 + Len(e), f) /\ Begins(d, p3, g)
    BY <1>7, <2>1, BeginsWithSix
  <2>3. Len(s) = p3 + Len(g)
    BY <2>1, SixLength
  <2> QED
    BY <2>2, <2>3
<1>9. Reader(r0, d, 0, <<>>, TRUE)
  <2>1. SubSeq(d, 0 + 1, m) = d /\ 0 <= m
    BY <1>2, SubSeqFull DEF m
  <2> QED
    BY <2>1, EmptyIs DEF Reader, r0, m
<1>10. Reader(r1, d, p1, <<Unsigned(a)>>, TRUE)
  <2>1. Reader(ReadNumber(r0, Width.version), d, 0 + Width.version,
               Append(<<>>, Unsigned(LittleEndian(tx.version, Width.version))), TRUE)
    BY <1>1, <1>2, <1>8, <1>9, ReadNumberOf DEF a
  <2>2. 0 + Width.version = p1
    BY <1>1, <1>2
  <2> QED
    BY <2>1, <2>2, AppendedOne DEF r1, a
<1>11. Reader(r2, d, p2, <<Unsigned(a), tx.inputs>>, good1)
  <2>1. Reader(r2, d, p1 + Len(b) + Len(c), Append(<<Unsigned(a)>>, tx.inputs), good1)
    BY <1>1, <1>4, <1>6, <1>8, <1>10, ReadListOf DEF r2, b, c
  <2> QED
    BY <2>1, AppendedTwo
<1>12. Reader(r3, d, p3, <<Unsigned(a), tx.inputs, tx.outputs>>, good2)
  <2>1. Reader(r3, d, p2 + Len(e) + Len(f), Append(<<Unsigned(a), tx.inputs>>, tx.outputs), good2)
    BY <1>1, <1>4, <1>6, <1>8, <1>11, ReadListOf DEF r3, e, f
  <2> QED
    BY <2>1, AppendedThree
<1>13. Reader(r4, d, p3 + Len(g), <<Unsigned(a), tx.inputs, tx.outputs, tx.lockTime>>, good2)
  <2>1. Reader(ReadNumber(r3, Width.lockTime), d, p3 + Width.lockTime,
               Append(<<Unsigned(a), tx.inputs, tx.outputs>>,
                      Unsigned(LittleEndian(tx.lockTime, Width.lockTime))), good2)
    BY <1>1, <1>2, <1>8, <1>12, ReadNumberOf DEF g
  <2> QED
    BY <1>1, <2>1, AppendedFour DEF r4, g
<1>14. /\ r4.ok <=> (good2 /\ Len(s) <= m)
       /\ r4.ok => r4.got = <<Unsigned(a), tx.inputs, tx.outputs, tx.lockTime>>
  BY <1>8, <1>13, ReaderGot DEF m
<1>15. MinTxSize <= Len(s) /\ Len(s) \in Nat
  <2> DEFINE v == Width.version
             l == Width.lockTime
             lb == Len(b)
             lc == Len(c)
             le == Len(e)
             lf == Len(f)
  <2>1. /\ v \in Nat /\ l \in Nat /\ lb \in Nat /\ lb >= 1 /\ lc \in Nat
        /\ le \in Nat /\ le >= 1 /\ lf \in Nat
    BY <1>1, <1>2
  <2>2. Len(s) = v + lb + lc + le + lf + l
    BY <1>1, <1>8
  <2>3. MinTxSize = v + l + 2
    BY DEF MinTxSize
  <2> HIDE DEF v, l, lb, lc, le, lf
  <2> QED
    BY <2>1, <2>2, <2>3
<1>16. CASE good2 /\ Len(s) <= m /\ m <= MaxTxSize
  <2>1. MinTxSize <= m
    <3>1. MinTxSize \in Nat
      BY <1>2 DEF MinTxSize
    <3> QED
      BY <1>2, <1>15, <1>16, <3>1
  <2>2. TransactionFrom(d, r4) =
            [ok |-> TRUE,
             tx |-> [version |-> Wrap(r4.got[1], Width.version), inputs |-> r4.got[2],
                     outputs |-> r4.got[3], lockTime |-> r4.got[4]]]
    BY <1>14, <1>16, <2>1 DEF TransactionFrom, m
  <2>3. r4.got = <<Unsigned(a), tx.inputs, tx.outputs, tx.lockTime>>
    BY <1>14, <1>16
  <2>4. [version |-> Wrap(r4.got[1], Width.version), inputs |-> r4.got[2],
         outputs |-> r4.got[3], lockTime |-> r4.got[4]]
            = [version |-> tx.version, inputs |-> tx.inputs, outputs |-> tx.outputs, lockTime |-> tx.lockTime]
    BY <1>1, <2>3
  <2>5. [version |-> tx.version, inputs |-> tx.inputs, outputs |-> tx.outputs, lockTime |-> tx.lockTime] = tx
    BY DEF BitcoinTransaction
  <2> QED
    BY <1>3, <1>5, <1>16, <2>2, <2>4, <2>5 DEF s, m
<1>17. CASE ~(good2 /\ Len(s) <= m /\ m <= MaxTxSize)
  <2>1. TransactionFrom(d, r4) = [ok |-> FALSE]
    BY <1>14, <1>17 DEF TransactionFrom, m
  <2> QED
    BY <1>3, <1>5, <1>17, <2>1 DEF s, m
<1> QED
  BY <1>16, <1>17

\* A transaction has at least one byte.
LEMMA SerialiseType ==
    ASSUME NEW tx \in BitcoinTransaction, NEW form \in 0..3
    PROVE  /\ Serialise(tx, form) \in Seq(Byte) /\ Len(Serialise(tx, form)) \in Nat \ {0}
           /\ Begins(Serialise(tx, form), 0, Serialise(tx, form))
<1> DEFINE a == LittleEndian(tx.version, Width.version)
           b == PutVarInt(Len(tx.inputs), form)
           c == FlattenSeq(PutItems("input", tx.inputs, form))
           e == PutVarInt(Len(tx.outputs), form)
           f == FlattenSeq(PutItems("output", tx.outputs, form))
           g == LittleEndian(tx.lockTime, Width.lockTime)
           s == Serialise(tx, form)
<1>0. IsSix(s, a, b, c, e, f, g)
  BY TransactionType DEF IsSix
<1>1. /\ Len(a) = Width.version /\ Len(g) = Width.lockTime
      /\ Len(b) \in Nat \ {0} /\ Len(c) \in Nat /\ Len(e) \in Nat \ {0} /\ Len(f) \in Nat
  BY TransactionType
<1>2. Len(a) \in Nat /\ Len(g) \in Nat
  BY <1>1, Widths
<1> HIDE DEF a, b, c, e, f, g, s
<1>3. Begins(s, 0, s)
  BY \A i \in 1..Len(s) : 0 + i = i DEF Begins
<1>4. s \in Seq(Byte) /\ Len(s) = Len(a) + Len(b) + Len(c) + Len(e) + Len(f) + Len(g)
  BY <1>0, SixLength
<1>5. Len(a) + Len(b) + Len(c) + Len(e) + Len(f) + Len(g) \in Nat \ {0}
  <2> DEFINE la == Len(a)
             lb == Len(b)
             lc == Len(c)
             le == Len(e)
             lf == Len(f)
             lg == Len(g)
  <2>1. la \in Nat /\ lb \in Nat \ {0} /\ lc \in Nat /\ le \in Nat /\ lf \in Nat /\ lg \in Nat
    BY <1>1, <1>2
  <2> HIDE DEF la, lb, lc, le, lf, lg
  <2>2. la + lb + lc + le + lf + lg \in Nat \ {0}
    BY <2>1
  <2> QED
    BY <2>2 DEF la, lb, lc, le, lf, lg
<1> QED
  BY <1>3, <1>4, <1>5 DEF s

\* The bytes of a call begin as its transaction does, and hold it all if none were taken.
LEMMA DataOf ==
    ASSUME NEW c \in Calls
    PROVE  /\ c.tx \in BitcoinTransaction /\ c.form \in 0..3
           /\ Data(c) \in Seq(Byte) /\ Len(Data(c)) \in Nat
           /\ Begins(Data(c), 0, Serialise(c.tx, c.form))
           /\ c.extra >= 0 <=> Len(Serialise(c.tx, c.form)) <= Len(Data(c))
<1> DEFINE s == Serialise(c.tx, c.form)
           n == Len(s)
<1>1. c.tx \in BitcoinTransaction /\ c.form \in 0..3 /\ c.extra \in Int
  BY VerifierAssumption
<1>2. s \in Seq(Byte) /\ n \in Nat \ {0}
  BY <1>1, SerialiseType
<1>3. Data(c) = IF c.extra >= 0 THEN s \o Zeros(c.extra) ELSE SubSeq(s, 1, n + c.extra)
  BY DEF Data
<1> HIDE DEF s
<1>4. CASE c.extra >= 0
  <2> DEFINE z == Zeros(c.extra)
  <2>1. z \in Seq(Byte) /\ Len(z) \in Nat
    <3>1. 0 \in Byte
      BY TransactionsAssumption DEF Byte
    <3>2. c.extra \in Nat
      BY <1>1, <1>4
    <3> QED
      BY <3>1, <3>2, IsASeq, LenProperties DEF Zeros
  <2> HIDE DEF z
  <2>2. /\ s \o z \in Seq(Byte) /\ Len(s \o z) = n + Len(z)
        /\ \A i \in 1..n : (s \o z)[i] = s[i]
    BY <1>2, <2>1, ConcatProperties
  <2>3. Data(c) = s \o z
    BY <1>3, <1>4 DEF z
  <2>4. Begins(s \o z, 0, s)
    BY <2>2, \A i \in 1..n : 0 + i = i DEF Begins
  <2>5. n <= Len(s \o z) /\ Len(s \o z) \in Nat
    BY <1>2, <2>1, <2>2
  <2> QED
    BY <1>1, <1>4, <2>2, <2>3, <2>4, <2>5 DEF s
<1>5. CASE ~(c.extra >= 0)
  <2> DEFINE m == n + c.extra
             d == SubSeq(s, 1, m)
             l == IF 1 <= m THEN m ELSE 0
  <2>1. m \in Int /\ m < n /\ l \in Nat /\ l < n
    BY <1>1, <1>2, <1>5
  <2>2. d \in Seq(Byte) /\ Len(d) = l /\ \A i \in 1..l : d[i] = s[i]
    <3>1. CASE 1 <= m
      <4>1. m \in 1..n /\ l = m /\ 1 \in 1..(n + 1)
        BY <1>2, <2>1, <3>1
      <4> HIDE DEF m, n, l
      <4>2. d \in Seq(Byte) /\ Len(d) = m /\ \A i \in 1..m : d[i] = s[i]
        BY <1>2, <4>1 DEF n
      <4> QED
        BY <4>1, <4>2
    <3>2. CASE ~(1 <= m)
      <4> HIDE DEF m
      <4>1. d = <<>>
        BY <1>2, <2>1, <3>2, SubSeqEmpty
      <4>2. l = 0 /\ Len(<<>>) = 0 /\ <<>> \in Seq(Byte)
        BY <3>2, EmptyIs
      <4> HIDE DEF d, l
      <4> QED
        BY <4>1, <4>2
    <3> QED
      BY <3>1, <3>2
  <2>3. Data(c) = d
    BY <1>3, <1>5
  <2> HIDE DEF d, l, m
  <2>4. Begins(d, 0, s)
    <3> SUFFICES ASSUME NEW i \in 1..n, 0 + i <= Len(d) PROVE d[0 + i] = s[i]
      BY DEF Begins
    <3>1. 0 + i = i /\ i \in 1..l
      BY <1>2, <2>1, <2>2
    <3> QED
      BY <2>2, <3>1
  <2>5. ~(n <= Len(d)) /\ Len(d) \in Nat
    BY <1>2, <2>1, <2>2
  <2> QED
    BY <1>1, <1>5, <2>2, <2>3, <2>4, <2>5 DEF s
<1> QED
  BY <1>4, <1>5

\* What ParseTransaction makes of a call's bytes.
LEMMA ParseOfCall ==
    ASSUME NEW c \in Calls
    PROVE  IF WithinLimits(c.tx) /\ c.extra >= 0 /\ Len(Data(c)) <= MaxTxSize
           THEN ParseTransaction(Data(c)) = [ok |-> TRUE, tx |-> c.tx]
           ELSE ParseTransaction(Data(c)) = [ok |-> FALSE]
BY DataOf, ParseOf

-----------------------------------------------------------------------------
\* The signature operations of a transaction are counted.
LEMMA SigOpsType ==
    ASSUME NEW tx \in BitcoinTransaction, NEW utxos, \A o \in DOMAIN utxos : utxos[o] \in UTXO,
           InputsAreUnspent(tx, utxos)
    PROVE  SigOps(tx, utxos) \in Nat
<1> DEFINE n == Len(tx.inputs)
           counts == [i \in 1..n |-> CountSigOps(tx.inputs[i].scriptSig)
                                     + CountSigOps(SpentOutput(tx, utxos, i).scriptPubKey)]
<1>1. n \in Nat /\ DOMAIN tx.inputs = 1..n /\ \A i \in 1..n : tx.inputs[i] \in TxInput
  BY Domain DEF BitcoinTransaction
<1>2. ASSUME NEW script \in Seq(Byte) PROVE CountSigOps(script) \in Nat
  <2> DEFINE found == {i \in DOMAIN script : script[i] \in {Op.checkSig, Op.checkMultiSig}}
  <2>1. DOMAIN script = 1..Len(script) /\ Len(script) \in Nat
    BY LenProperties
  <2>2. IsFiniteSet(1..Len(script))
    BY <2>1, FS_Interval
  <2>3. found \in SUBSET (1..Len(script))
    BY <2>1
  <2> HIDE DEF found
  <2>4. IsFiniteSet(found)
    BY <2>2, <2>3, FS_Subset
  <2>5. Cardinality(found) \in Nat
    BY <2>4, FS_CardinalityType
  <2> QED
    BY <2>5 DEF CountSigOps, found
<1>3. ASSUME NEW i \in 1..n
      PROVE  CountSigOps(tx.inputs[i].scriptSig)
             + CountSigOps(SpentOutput(tx, utxos, i).scriptPubKey) \in Nat
  <2>1. tx.inputs[i].scriptSig \in Seq(Byte)
    BY <1>1 DEF TxInput, Slice
  <2>2. SpentOutput(tx, utxos, i).scriptPubKey \in Seq(Byte)
    BY <1>1 DEF SpentOutput, InputsAreUnspent, UTXO
  <2> QED
    BY <1>2, <2>1, <2>2
<1>4. counts \in [1..n -> Nat]
  BY <1>3
<1>5. SigOps(tx, utxos) = FoldLeft(LAMBDA total, count : total + count, 0, counts)
  BY <1>1, Zenon DEF SigOps
<1> HIDE DEF counts
<1>6. PICK sum \in [0..n -> Nat] : FoldLeft(LAMBDA total, count : total + count, 0, counts) = sum[n]
  BY <1>1, <1>4, CountInOrder, Zenon
<1>7. sum[n] \in Nat
  BY <1>1, n \in 0..n
<1> QED
  BY <1>5, <1>6, <1>7, Zenon

-----------------------------------------------------------------------------
\* A call is one of those given, with one of the maps, and holds what ValidateTransaction
\* gave for it.
CallIsAnswered ==
    call # None =>
        /\ call.given \in Calls /\ call.utxos \in UTXOSets
        /\ call.result = ValidateTransaction(Data(call.given), call.utxos)

\* There is no call yet.
LEMMA AnsweredInit == Init => CallIsAnswered
  BY DEF Init, CallIsAnswered

\* Only the call itself sets its result.
LEMMA AnsweredNext == CallIsAnswered /\ [Next]_vars => CallIsAnswered'
<1> SUFFICES ASSUME CallIsAnswered, [Next]_vars PROVE CallIsAnswered'
  OBVIOUS
<1>1. ASSUME NEW c \in Calls, NEW utxos \in UTXOSets, Validate(c, utxos)
      PROVE  CallIsAnswered'
  <2>1. call'.given = c /\ call'.utxos = utxos /\ call'.result = ValidateTransaction(Data(c), utxos)
    BY <1>1 DEF Validate
  <2> QED
    BY <2>1 DEF CallIsAnswered
<1>2. ASSUME UNCHANGED call
      PROVE  CallIsAnswered'
  BY <1>2 DEF CallIsAnswered
<1>3. CASE Start
  BY <1>2, <1>3 DEF Start
<1>4. CASE PopulateSampleUTXOs
  BY <1>2, <1>4 DEF PopulateSampleUTXOs
<1>5. CASE \E hash \in Hash, hash160 \in Hash160 : ProcessTransaction(hash, hash160)
  BY <1>2, <1>5 DEF ProcessTransaction, Select
<1>6. CASE ReportMetrics
  BY <1>2, <1>6 DEF ReportMetrics, Select
<1>7. CASE ReportCache
  BY <1>2, <1>7 DEF ReportCache, Select
<1>8. CASE Stop
  BY <1>2, <1>8 DEF Stop
<1>9. CASE \E g \in Goroutine : Ends(g)
  BY <1>2, <1>9 DEF Ends, Select
<1>10. CASE UNCHANGED vars
  BY <1>2, <1>10 DEF vars
<1> QED
  BY <1>1, <1>3, <1>4, <1>5, <1>6, <1>7, <1>8, <1>9, <1>10 DEF Next

\* A valid result has the size, the operations and the fees of a transaction that was read.
LEMMA ValidResult ==
    ASSUME NEW data, NEW utxos, ValidateTransaction(data, utxos).valid
    PROVE  LET parsed == ParseTransaction(data)
               tx == parsed.tx
               result == ValidateTransaction(data, utxos)
               fees == Wrap(InputValue(tx, utxos) - OutputValue(tx), Width.value)
           IN  /\ parsed.ok /\ BasicRulesHold(tx) /\ InputsAreUnspent(tx, utxos)
               /\ ScriptsAreValid(tx, utxos) /\ ~(fees < 0)
               /\ result = [valid |-> TRUE, errorCode |-> "", size |-> Len(data),
                            sigOps |-> SigOps(tx, utxos), fees |-> fees]
<1> DEFINE fees == Wrap(InputValue(ParseTransaction(data).tx, utxos)
                        - OutputValue(ParseTransaction(data).tx), Width.value)
           parsed == ParseTransaction(data)
<1>1. /\ ValidateTransaction(data, utxos) =
              IF ~parsed.ok THEN Invalid("PARSE_ERROR", 0)
              ELSE IF ~BasicRulesHold(parsed.tx) THEN Invalid("BASIC_VALIDATION_FAILED", Len(data))
              ELSE IF ~InputsAreUnspent(parsed.tx, utxos) THEN Invalid("INPUT_VALIDATION_FAILED", Len(data))
              ELSE IF fees < 0 THEN Invalid("INSUFFICIENT_FEES", Len(data))
              ELSE IF ~ScriptsAreValid(parsed.tx, utxos) THEN Invalid("SCRIPT_VALIDATION_FAILED", Len(data))
              ELSE [valid |-> TRUE, errorCode |-> "", size |-> Len(data),
                    sigOps |-> SigOps(parsed.tx, utxos), fees |-> fees]
  BY DEF ValidateTransaction
<1>2. \A errorCode, size : ~Invalid(errorCode, size).valid
  BY DEF Invalid
<1> HIDE DEF fees, parsed
<1>3. /\ parsed.ok /\ BasicRulesHold(parsed.tx) /\ InputsAreUnspent(parsed.tx, utxos)
      /\ ScriptsAreValid(parsed.tx, utxos) /\ ~(fees < 0)
  BY <1>1, <1>2
<1>4. ValidateTransaction(data, utxos) = [valid |-> TRUE, errorCode |-> "", size |-> Len(data),
                            sigOps |-> SigOps(parsed.tx, utxos), fees |-> fees]
  BY <1>1, <1>3
<1> QED
  BY <1>3, <1>4 DEF fees, parsed

\* An invalid result has an error's code, and neither operations nor fees.
LEMMA InvalidResult ==
    ASSUME NEW data, NEW utxos, ~ValidateTransaction(data, utxos).valid
    PROVE  \E errorCode \in ErrorCodes, size \in {0, Len(data)} :
               ValidateTransaction(data, utxos) = Invalid(errorCode, size)
  BY DEF ValidateTransaction, ErrorCodes

\* What a valid call is about.
LEMMA ValidCall ==
    ASSUME NEW c \in Calls, NEW utxos \in UTXOSets, ValidateTransaction(Data(c), utxos).valid
    PROVE  LET tx == ParseTransaction(Data(c)).tx
           IN  /\ tx \in BitcoinTransaction /\ \A o \in DOMAIN utxos : utxos[o] \in UTXO
               /\ BasicRulesHold(tx) /\ InputsAreUnspent(tx, utxos) /\ ScriptsAreValid(tx, utxos)
<1>1. /\ ParseTransaction(Data(c)).ok
      /\ BasicRulesHold(ParseTransaction(Data(c)).tx)
      /\ InputsAreUnspent(ParseTransaction(Data(c)).tx, utxos)
      /\ ScriptsAreValid(ParseTransaction(Data(c)).tx, utxos)
  BY ValidResult
<1>2. ParseTransaction(Data(c)).tx = c.tx
  BY <1>1, ParseOfCall
<1>3. c.tx \in BitcoinTransaction
  BY DataOf
<1> QED
  BY <1>1, <1>2, <1>3, VerifierAssumption

\* ParseTransaction gives back the transaction its bytes were written from, whichever
\* forms of lengths were used and whatever follows, up to the limits of the code, and
\* reports PARSE_ERROR for every other call: for every width, limit and transaction.
THEOREM ParserReadsBack == Spec => []ReadsWhatWasWritten
<1>1. CallIsAnswered => ReadsWhatWasWritten
  <2> SUFFICES ASSUME CallIsAnswered, call # None
               PROVE  ReadsWhatWasWritten
    BY DEF ReadsWhatWasWritten
  <2> DEFINE c == call.given
             parsed == ParseTransaction(Data(c))
  <2>1. c \in Calls /\ call.result = ValidateTransaction(Data(c), call.utxos)
    BY DEF CallIsAnswered
  <2>2. CASE WithinLimits(c.tx) /\ c.extra >= 0 /\ Len(Data(c)) <= MaxTxSize
    <3>1. parsed.ok /\ parsed.tx = c.tx
      BY <2>1, <2>2, ParseOfCall
    <3> QED
      BY <2>2, <3>1 DEF ReadsWhatWasWritten, WithinLimits
  <2>3. CASE ~(WithinLimits(c.tx) /\ c.extra >= 0 /\ Len(Data(c)) <= MaxTxSize)
    <3>1. ~parsed.ok
      BY <2>1, <2>3, ParseOfCall
    <3>2. call.result.errorCode = "PARSE_ERROR"
      BY <2>1, <3>1 DEF ValidateTransaction, Invalid
    <3> QED
      BY <2>3, <3>2 DEF ReadsWhatWasWritten, WithinLimits
  <2> QED
    BY <2>2, <2>3
<1> QED
  BY <1>1, AnsweredInit, AnsweredNext, PTL DEF Spec

\* The fees of a valid transaction are what the outputs it spends are worth, less the new
\* ones, whenever the two totals are int64 values: a partial sum that wraps does no harm.
THEOREM FeesOfValidAreExact == Spec => []FeesAreExact
<1>1. CallIsAnswered => FeesAreExact
  <2> SUFFICES ASSUME CallIsAnswered, call # None, call.result.valid
               PROVE  FeesAreExact
    BY DEF FeesAreExact
  <2> DEFINE c == call.given
             tx == ParseTransaction(Data(c)).tx
             spent == {Outpoint(tx.inputs[i]) : i \in DOMAIN tx.inputs}
             in == MapThenSumSet(LAMBDA o : call.utxos[o].value, spent)
             out == MapThenSumSet(LAMBDA i : tx.outputs[i].value, DOMAIN tx.outputs)
             fits == {n \in {in, out} : n = Wrap(n, Width.value)}
  <2>1. /\ c \in Calls /\ call.utxos \in UTXOSets /\ ValidateTransaction(Data(c), call.utxos).valid
        /\ call.result = ValidateTransaction(Data(c), call.utxos)
    BY DEF CallIsAnswered
  <2>2. /\ tx \in BitcoinTransaction /\ \A o \in DOMAIN call.utxos : call.utxos[o] \in UTXO
        /\ BasicRulesHold(tx) /\ InputsAreUnspent(tx, call.utxos)
    BY <2>1, ValidCall
  <2>3. call.result.fees = Wrap(InputValue(tx, call.utxos) - OutputValue(tx), Width.value)
    <3> DEFINE result == ValidateTransaction(Data(c), call.utxos)
               fees == Wrap(InputValue(tx, call.utxos) - OutputValue(tx), Width.value)
               operations == SigOps(tx, call.utxos)
               size == Len(Data(c))
    <3>1. result = [valid |-> TRUE, errorCode |-> "", size |-> size, sigOps |-> operations, fees |-> fees]
      BY <2>1, ValidResult
    <3>2. call.result = result
      BY <2>1
    <3> HIDE DEF result, fees, operations, size
    <3>4. result.fees = fees
      BY <3>1
    <3>3. call.result.fees = fees
      BY <3>4, <3>2, Zenon
    <3> QED
      BY <3>3 DEF fees
  <2>4. in = Worth(call.utxos, spent) /\ out = Worth(tx.outputs, DOMAIN tx.outputs)
    BY Zenon DEF Worth
  <2> HIDE DEF tx
  <2>5. Worth(call.utxos, spent) = Wrap(Worth(call.utxos, spent), Width.value)
            /\ Worth(tx.outputs, DOMAIN tx.outputs) = Wrap(Worth(tx.outputs, DOMAIN tx.outputs), Width.value)
        => call.result.fees = Worth(call.utxos, spent) - Worth(tx.outputs, DOMAIN tx.outputs)
    BY <2>2, <2>3, FeesOfTransaction
  <2> HIDE DEF spent, in, out
  <2>6. fits = {in, out} => call.result.fees = in - out
    BY <2>4, <2>5
  <2> QED
    BY <2>6, Zenon DEF FeesAreExact, Spent, Made, fits, in, out, spent, tx
<1> QED
  BY <1>1, AnsweredInit, AnsweredNext, PTL DEF Spec

\* A result is valid or has an error's code, and its fees and signature operations are
\* within their limits.
LEMMA ResultType ==
    ASSUME NEW c \in Calls, NEW utxos \in UTXOSets
    PROVE  LET result == ValidateTransaction(Data(c), utxos)
           IN  /\ result.errorCode \in IF result.valid THEN {""} ELSE ErrorCodes
               /\ result.size \in {0, Len(Data(c))}
               /\ result.sigOps \in 0..MaxSigOps
               /\ result.fees >= 0
<1> DEFINE result == ValidateTransaction(Data(c), utxos)
           tx == ParseTransaction(Data(c)).tx
           operations == SigOps(tx, utxos)
           fees == Wrap(InputValue(tx, utxos) - OutputValue(tx), Width.value)
           size == Len(Data(c))
<1>1. CASE result.valid
  <2>1. /\ tx \in BitcoinTransaction /\ \A o \in DOMAIN utxos : utxos[o] \in UTXO
        /\ BasicRulesHold(tx) /\ InputsAreUnspent(tx, utxos) /\ ScriptsAreValid(tx, utxos)
    BY <1>1, ValidCall
  <2>2. result = [valid |-> TRUE, errorCode |-> "", size |-> size, sigOps |-> operations, fees |-> fees]
    BY <1>1, ValidResult
  <2>7. ~(fees < 0)
    BY <1>1, ValidResult
  <2> HIDE DEF tx, result, size
  <2>3. operations \in Nat /\ operations <= MaxSigOps
    BY <2>1, SigOpsType DEF ScriptsAreValid
  <2>4. fees \in Int
    BY <2>1, FeesOfTransaction
  <2> HIDE DEF operations, fees
  <2>5. operations \in 0..MaxSigOps /\ fees >= 0
    <3>1. MaxSigOps \in Nat
      BY ValidatorAssumption
    <3> QED
      BY <2>3, <2>4, <2>7, <3>1
  <2>6. /\ result.valid /\ result.errorCode = "" /\ result.size = size
        /\ result.sigOps = operations /\ result.fees = fees
    BY <2>2
  <2> QED
    BY <2>5, <2>6 DEF result, size
<1>2. CASE ~result.valid
  <2>1. PICK errorCode \in ErrorCodes, n \in {0, size} : result = Invalid(errorCode, n)
    BY <1>2, InvalidResult
  <2> HIDE DEF result, size
  <2>2. /\ ~result.valid /\ result.errorCode = errorCode /\ result.size = n
        /\ result.sigOps = 0 /\ result.fees = 0
    BY <2>1 DEF Invalid
  <2> QED
    BY <2>2, ValidatorAssumption DEF result, size
<1> QED
  BY <1>1, <1>2

\* A call's values.
CallType ==
    call # None =>
        /\ call.given \in Calls /\ call.utxos \in UTXOSets
        /\ call.result.errorCode \in IF call.result.valid THEN {""} ELSE ErrorCodes
        /\ call.result.size \in {0, Len(Data(call.given))}
        /\ call.result.sigOps \in 0..MaxSigOps
        /\ call.result.fees >= 0

\* The server's variables.
ServerType ==
    /\ started \in BOOLEAN /\ cancelled \in BOOLEAN
    /\ goroutine \in [Goroutine -> {"new", "fill", "loop", "done"}]
    /\ DOMAIN utxoCache \subseteq Hash \X {0}
    /\ validatedCount \in 0..MaxValidated
    /\ event # None =>
          event.topic \in {"tx.validated.v1", "tx.validation_failed.v1", "verifier.metrics.v1",
                           "verifier.utxo_cache.v1"}

\* A call that was answered has its type.
LEMMA AnswerType == CallIsAnswered => CallType
<1> SUFFICES ASSUME CallIsAnswered, call # None PROVE CallType
  BY DEF CallType
<1>1. /\ call.given \in Calls /\ call.utxos \in UTXOSets
      /\ call.result = ValidateTransaction(Data(call.given), call.utxos)
  BY DEF CallIsAnswered
<1>2. LET result == ValidateTransaction(Data(call.given), call.utxos)
      IN  /\ result.errorCode \in IF result.valid THEN {""} ELSE ErrorCodes
          /\ result.size \in {0, Len(Data(call.given))}
          /\ result.sigOps \in 0..MaxSigOps
          /\ result.fees >= 0
  BY <1>1, ResultType
<1> QED
  BY <1>1, <1>2, Zenon DEF CallType

\* Every variable of the verifier has its type; what ValidateTransaction returns has a known
\* code, its size, operations within the limit, and fees that are not negative.
THEOREM TypeCorrect == Spec => []TypeOK
<1>1. Init => ServerType
<2> SUFFICES ASSUME Init PROVE ServerType
  OBVIOUS
<2>1. DOMAIN utxoCache = {}
  BY DEF Init
<2>2. 0 \in 0..MaxValidated
  BY VerifierAssumption
<2> QED
  BY <2>1, <2>2 DEF Init, ServerType
<1>2. ServerType /\ [Next]_vars => ServerType'
  <2> SUFFICES ASSUME ServerType, [Next]_vars PROVE ServerType'
    OBVIOUS
  <2> USE DEF ServerType
  <2>1. CASE \E c \in Calls, utxos \in UTXOSets : Validate(c, utxos)
    BY <2>1 DEF Validate
  <2>2. CASE Start
    BY <2>2 DEF Start
  <2>3. CASE PopulateSampleUTXOs
    <3>1. PICK hashes \in SUBSET Hash \ {{}} :
              \E value \in [hashes -> CachedValues], hash160 \in [hashes -> Hash160] :
                  utxoCache' = [o \in hashes \X {0} |->
                      [value |-> value[o[1]], spent |-> FALSE, scriptPubKey |-> P2PKHScript(hash160[o[1]])]]
      BY <2>3 DEF PopulateSampleUTXOs
    <3>2. DOMAIN utxoCache' = hashes \X {0}
      BY <3>1
    <3>3. goroutine' \in [Goroutine -> {"new", "fill", "loop", "done"}]
      BY <2>3 DEF PopulateSampleUTXOs
    <3> QED
      BY <2>3, <3>2, <3>3 DEF PopulateSampleUTXOs
  <2>4. ASSUME NEW hash \in Hash, NEW hash160 \in Hash160, ProcessTransaction(hash, hash160)
        PROVE  ServerType'
    <3>1. validatedCount' \in 0..MaxValidated
      BY <2>4, VerifierAssumption DEF ProcessTransaction
    <3>2. event'.topic \in {"tx.validated.v1", "tx.validation_failed.v1"}
      <4> DEFINE result == ValidateTransaction(Serialise(SampleTransaction(hash, hash160), 0), utxoCache)
      <4>1. event' = IF result.valid THEN [topic |-> "tx.validated.v1", fees |-> result.fees]
                     ELSE [topic |-> "tx.validation_failed.v1", errorCode |-> result.errorCode]
        BY <2>4 DEF ProcessTransaction
      <4> HIDE DEF result
      <4> QED
        BY <4>1
    <3> QED
      BY <2>4, <3>1, <3>2 DEF ProcessTransaction, Select
  <2>5. CASE ReportMetrics
    BY <2>5 DEF ReportMetrics, Select
  <2>6. CASE ReportCache
    BY <2>6 DEF ReportCache, Select
  <2>7. CASE Stop
    BY <2>7 DEF Stop
  <2>8. CASE \E g \in Goroutine : Ends(g)
    BY <2>8 DEF Ends, Select
  <2>9. CASE UNCHANGED vars
    BY <2>9 DEF vars
  <2> QED
    BY <2>1, <2>2, <2>3, <2>4, <2>5, <2>6, <2>7, <2>8, <2>9 DEF Next
<1>3. CallType /\ ServerType => TypeOK
  BY Zenon DEF CallType, ServerType, TypeOK
<1> QED
  BY <1>1, <1>2, <1>3, AnswerType, AnsweredInit, AnsweredNext, PTL DEF Spec

-----------------------------------------------------------------------------
\* createP2PKHScript gives a script of the pattern that executeScript looks for.
LEMMA ScriptIsP2PKH ==
    ASSUME NEW hash160 \in Hash160
    PROVE  /\ P2PKHScript(hash160) \in Slice(Byte)
           /\ IsP2PKH(P2PKHScript(hash160))
<1> DEFINE a == <<Op.dup, Op.hash160, HashSize>>
           b == hash160
           c == <<Op.equalVerify, Op.checkSig>>
           ab == a \o b
           s == ab \o c
           n == HashSize
<1>1. /\ Op.dup \in Byte /\ Op.hash160 \in Byte /\ n \in Byte
      /\ Op.equalVerify \in Byte /\ Op.checkSig \in Byte
  BY ValidatorAssumption
<1>2. n \in Nat /\ n + 5 < Capacity[VarWidth[3]]
  BY ValidatorAssumption, TransactionsAssumption DEF Byte
<1>3. a \in Seq(Byte) /\ Len(a) = 3
  BY <1>1
<1>4. b \in Seq(Byte) /\ Len(b) = n
  <2>1. hash160 \in [1..n -> Byte]
    BY VerifierAssumption
  <2> QED
    BY <1>2, <2>1, IsASeq, LenProperties
<1>5. c \in Seq(Byte) /\ Len(c) = 2
  BY <1>1
<1> HIDE DEF a, b, c, n
<1>6. /\ ab \in Seq(Byte) /\ Len(ab) = n + 3
      /\ \A i \in 1..3 : ab[i] = a[i]
  <2>1. /\ ab \in Seq(Byte) /\ Len(ab) = Len(a) + Len(b)
        /\ \A i \in 1..(Len(a) + Len(b)) : ab[i] = IF i <= Len(a) THEN a[i] ELSE b[i - Len(a)]
    BY <1>3, <1>4, ConcatProperties
  <2> HIDE DEF ab
  <2> QED
    BY <1>2, <1>3, <1>4, <2>1
<1> HIDE DEF ab
<1>7. /\ s \in Seq(Byte) /\ Len(s) = n + 5
      /\ \A i \in 1..3 : s[i] = a[i]
      /\ s[n + 4] = c[1] /\ s[n + 5] = c[2]
  <2>1. /\ s \in Seq(Byte) /\ Len(s) = Len(ab) + Len(c)
        /\ \A i \in 1..(Len(ab) + Len(c)) : s[i] = IF i <= Len(ab) THEN ab[i] ELSE c[i - Len(ab)]
    BY <1>5, <1>6, ConcatProperties
  <2> HIDE DEF s
  <2>2. \A i \in 1..(n + 5) : s[i] = IF i <= n + 3 THEN ab[i] ELSE c[i - (n + 3)]
    BY <1>2, <1>5, <1>6, <2>1
  <2>3. \A i \in 1..3 : s[i] = a[i]
    BY <1>2, <1>6, <2>2
  <2>4. s[n + 4] = c[1] /\ s[n + 5] = c[2]
    <3>1. /\ n + 4 \in 1..(n + 5) /\ ~(n + 4 <= n + 3) /\ (n + 4) - (n + 3) = 1
          /\ n + 5 \in 1..(n + 5) /\ ~(n + 5 <= n + 3) /\ (n + 5) - (n + 3) = 2
      BY <1>2
    <3> QED
      BY <2>2, <3>1
  <2> QED
    BY <1>2, <1>5, <1>6, <2>1, <2>3, <2>4
<1> HIDE DEF s
<1>8. SubSeq(s, 1, 3) = a
  <2> DEFINE t == SubSeq(s, 1, 3)
  <2>1. \A i \in 1..3 : s[i] \in Byte
    BY <1>2, <1>7
  <2>2. t \in Seq(Byte) /\ Len(t) = 3 /\ \A i \in 1..3 : t[i] = s[i]
    BY <2>1, SubSeqProperties
  <2> HIDE DEF t
  <2>3. t = a
    BY <1>3, <1>7, <2>2, SeqEqual
  <2> QED
    BY <2>3 DEF t
<1>9. SubSeq(s, n + 4, n + 5) = c
  <2> DEFINE t == SubSeq(s, n + 4, n + 5)
  <2>1. \A i \in (n + 4)..(n + 5) : s[i] \in Byte
    BY <1>2, <1>7
  <2>2. /\ t \in Seq(Byte)
        /\ Len(t) = IF n + 4 <= n + 5 THEN (n + 5) - (n + 4) + 1 ELSE 0
        /\ \A i \in 1..((n + 5) - (n + 4) + 1) : t[i] = s[n + 4 + i - 1]
    BY <1>2, <2>1, n + 4 \in Int, n + 5 \in Int, SubSeqProperties
  <2> HIDE DEF t
  <2>3. Len(t) = 2 /\ t[1] = s[n + 4] /\ t[2] = s[n + 5]
    BY <1>2, <2>2
  <2>4. t = c
    BY <1>5, <1>7, <2>2, <2>3, SeqEqual
  <2> QED
    BY <2>4 DEF t
<1>10. P2PKHScript(hash160) = s
  BY DEF P2PKHScript, s, ab, a, b, c, n
<1>11. s \in Slice(Byte)
  BY <1>2, <1>7 DEF Slice
<1>12. IsP2PKH(s)
  BY <1>7, <1>8, <1>9 DEF IsP2PKH, a, c, n
<1> QED
  BY <1>10, <1>11, <1>12

\* A field has at least four values.
LEMMA CapacityIsFour ==
    ASSUME NEW w \in Nat \ {0}
    PROVE  Capacity[w] \in Nat /\ Capacity[w] >= 4
<1> DEFINE p == Capacity[w - 1]
<1>1. w - 1 \in Nat /\ (w - 1) + 1 = w
  OBVIOUS
<1>2. p \in Nat \ {0} /\ Capacity[w] = Base * p
  BY <1>1, CapacityType, CapacityStep
<1>3. Base \in Nat /\ Base >= 4
  BY TransactionsAssumption
<1> HIDE DEF p
<1>4. Base * p \in Nat /\ Base * p >= Base
  BY <1>2, <1>3, Z3
<1> QED
  BY <1>2, <1>3, <1>4

\* The sample is a transaction, of one input without a script.
LEMMA SampleType ==
    ASSUME NEW hash \in Hash, NEW hash160 \in Hash160
    PROVE  SampleTransaction(hash, hash160) \in BitcoinTransaction
<1> DEFINE input == [prevTxHash |-> hash, prevTxIndex |-> 0, scriptSig |-> <<>>,
                     sequence |-> Capacity[Width.sequence] - 1]
           output == [value |-> SampleValue, scriptPubKey |-> P2PKHScript(hash160)]
<1>1. 1 \in SignedNumber(Width.version)
  <2> DEFINE c == Capacity[Width.version]
  <2>1. c \in Nat /\ c >= 4
    BY Widths, CapacityIsFour
  <2> HIDE DEF c
  <2>2. 1 \in -(c \div 2)..(c \div 2 - 1)
    BY <2>1
  <2> QED
    BY <2>2 DEF SignedNumber, c
<1>2. /\ 0 \in Number(Width.index) /\ 0 \in Number(Width.lockTime)
      /\ Capacity[Width.sequence] - 1 \in Number(Width.sequence)
  <2>1. /\ Capacity[Width.index] \in Nat /\ Capacity[Width.index] >= 4
        /\ Capacity[Width.lockTime] \in Nat /\ Capacity[Width.lockTime] >= 4
        /\ Capacity[Width.sequence] \in Nat /\ Capacity[Width.sequence] >= 4
    BY Widths, CapacityIsFour
  <2> QED
    BY <2>1 DEF Number
<1>3. Capacity[VarWidth[3]] \in Nat /\ Capacity[VarWidth[3]] >= 4
  BY Widths, CapacityIsFour
<1>4. <<>> \in Slice(Byte)
  BY <1>3 DEF Slice
<1>5. hash \in [1..Width.hash -> Byte] /\ SampleValue \in SignedNumber(Width.value)
  BY VerifierAssumption
<1>6. input \in TxInput
  BY <1>2, <1>4, <1>5 DEF TxInput
<1>7. output \in TxOutput
  BY <1>5, ScriptIsP2PKH DEF TxOutput
<1> HIDE DEF input, output
<1>8. <<input>> \in Slice(TxInput)
  BY <1>3, <1>6 DEF Slice
<1>9. <<output>> \in Slice(TxOutput)
  BY <1>3, <1>7 DEF Slice
<1>10. SampleTransaction(hash, hash160) =
           [version |-> 1, inputs |-> <<input>>, outputs |-> <<output>>, lockTime |-> 0]
  BY DEF SampleTransaction, input, output
<1> QED
  BY <1>1, <1>2, <1>8, <1>9, <1>10 DEF BitcoinTransaction

\* Every output of the cache asks for a signature.
CacheIsLocked == \A o \in DOMAIN utxoCache : IsP2PKH(utxoCache[o].scriptPubKey)

\* The sample is not valid where every output asks for a signature: it has none.
LEMMA SampleFails ==
    ASSUME NEW hash \in Hash, NEW hash160 \in Hash160, CacheIsLocked
    PROVE  ~ValidateTransaction(Serialise(SampleTransaction(hash, hash160), 0), utxoCache).valid
<1> DEFINE sample == SampleTransaction(hash, hash160)
           data == Serialise(sample, 0)
           tx == ParseTransaction(data).tx
<1> SUFFICES ASSUME ValidateTransaction(data, utxoCache).valid PROVE FALSE
  OBVIOUS
<1>1. /\ ParseTransaction(data).ok /\ InputsAreUnspent(tx, utxoCache) /\ ScriptsAreValid(tx, utxoCache)
  BY ValidResult
<1>2. tx = sample
  <2>1. sample \in BitcoinTransaction
    BY SampleType
  <2> HIDE DEF sample
  <2>2. data \in Seq(Byte) /\ Begins(data, 0, data)
    BY <2>1, SerialiseType
  <2>3. \/ ParseTransaction(data) = [ok |-> TRUE, tx |-> sample]
        \/ ParseTransaction(data) = [ok |-> FALSE]
    BY <2>1, <2>2, ParseOf
  <2> HIDE DEF data
  <2> QED
    BY <1>1, <2>3
<1> HIDE DEF tx
<1>3. DOMAIN sample.inputs = {1} /\ sample.inputs[1].scriptSig = <<>>
  BY DEF SampleTransaction
<1>4. /\ Outpoint(sample.inputs[1]) \in DOMAIN utxoCache
      /\ ScriptRuns(<<>>, SpentOutput(sample, utxoCache, 1).scriptPubKey)
  BY <1>1, <1>2, <1>3 DEF InputsAreUnspent, ScriptsAreValid, ScriptsRun
<1>5. IsP2PKH(SpentOutput(sample, utxoCache, 1).scriptPubKey)
  BY <1>4 DEF CacheIsLocked, SpentOutput
<1>6. Len(<<>>) >= MinScriptSig
  BY <1>4, <1>5 DEF ScriptRuns
<1> QED
  BY <1>6, EmptyIs, ValidatorAssumption

\* No event says that a sample is valid.
SamplesNeverPass == event # None => event.topic # "tx.validated.v1"

\* processTransactions never publishes that a sample is valid: either its input is not in
\* the cache, or the output there asks for a signature, which the sample has not.  So the
\* rate of 98.5 that reportMetrics publishes beside their number (server.go:60, 278-283) is
\* the rate of no sample, whatever the hashes and values are.
THEOREM SamplesNeverValid == Spec => []SamplesNeverPass
<1> DEFINE Inv == CacheIsLocked /\ SamplesNeverPass
<1>1. Init => Inv
  <2> SUFFICES ASSUME Init PROVE Inv
    OBVIOUS
  <2>1. DOMAIN utxoCache = {} /\ event = None
    BY DEF Init
  <2> QED
    BY <2>1 DEF CacheIsLocked, SamplesNeverPass
<1>2. Inv /\ [Next]_vars => Inv'
  <2> SUFFICES ASSUME Inv, [Next]_vars PROVE Inv'
    OBVIOUS
  <2> USE DEF CacheIsLocked, SamplesNeverPass
  <2>1. CASE \E c \in Calls, utxos \in UTXOSets : Validate(c, utxos)
    BY <2>1 DEF Validate
  <2>2. CASE Start
    BY <2>2 DEF Start
  <2>3. CASE PopulateSampleUTXOs
    <3>1. PICK hashes \in SUBSET Hash \ {{}} :
              \E value \in [hashes -> CachedValues], hash160 \in [hashes -> Hash160] :
                  utxoCache' = [o \in hashes \X {0} |->
                      [value |-> value[o[1]], spent |-> FALSE, scriptPubKey |-> P2PKHScript(hash160[o[1]])]]
      BY <2>3 DEF PopulateSampleUTXOs
    <3>2. PICK value \in [hashes -> CachedValues], hash160 \in [hashes -> Hash160] :
              utxoCache' = [o \in hashes \X {0} |->
                  [value |-> value[o[1]], spent |-> FALSE, scriptPubKey |-> P2PKHScript(hash160[o[1]])]]
      BY <3>1
    <3>3. ASSUME NEW o \in DOMAIN utxoCache' PROVE IsP2PKH(utxoCache'[o].scriptPubKey)
      <4>1. o \in hashes \X {0} /\ utxoCache'[o].scriptPubKey = P2PKHScript(hash160[o[1]])
        BY <3>2
      <4>2. hash160[o[1]] \in Hash160
        BY <4>1
      <4> QED
        BY <4>1, <4>2, ScriptIsP2PKH
    <3>4. UNCHANGED event
      BY <2>3 DEF PopulateSampleUTXOs
    <3> QED
      BY <3>3, <3>4
  <2>4. ASSUME NEW hash \in Hash, NEW hash160 \in Hash160, ProcessTransaction(hash, hash160)
        PROVE  Inv'
    <3>1. event'.topic = "tx.validation_failed.v1"
      <4> DEFINE result == ValidateTransaction(Serialise(SampleTransaction(hash, hash160), 0), utxoCache)
      <4>1. event' = IF result.valid THEN [topic |-> "tx.validated.v1", fees |-> result.fees]
                     ELSE [topic |-> "tx.validation_failed.v1", errorCode |-> result.errorCode]
        BY <2>4 DEF ProcessTransaction
      <4>2. ~result.valid
        BY SampleFails
      <4> HIDE DEF result
      <4> QED
        BY <4>1, <4>2
    <3> QED
      BY <2>4, <3>1 DEF ProcessTransaction, Select
  <2>5. CASE ReportMetrics
    BY <2>5 DEF ReportMetrics, Select
  <2>6. CASE ReportCache
    BY <2>6 DEF ReportCache, Select
  <2>7. CASE Stop
    BY <2>7 DEF Stop
  <2>8. CASE \E g \in Goroutine : Ends(g)
    BY <2>8 DEF Ends, Select
  <2>9. CASE UNCHANGED vars
    BY <2>9 DEF vars
  <2> QED
    BY <2>1, <2>2, <2>3, <2>4, <2>5, <2>6, <2>7, <2>8, <2>9 DEF Next
<1> QED
  BY <1>1, <1>2, PTL DEF Spec
=============================================================================
