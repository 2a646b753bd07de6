---------------------------- MODULE Texts_proof -----------------------------
(***************************************************************************)
(* Lemmas about powers, digits and texts, and the induction they rest on,  *)
(* for the proof modules that compute with powers of ten, of two and of a  *)
(* limb's base and that read the texts their modules write: what the       *)
(* digits of a number are worth, wherever they are cut, what text the      *)
(* pieces come to in a buffer, and where a reader finds the sign, the      *)
(* digits, the point and the exponent in it.                               *)
(*                                                                         *)
(* The induction theorems of the library take a predicate, which no prover *)
(* here can instantiate.  A set will do: a set of numbers has a least      *)
(* member because the order is well founded, so one that holds 0 and the   *)
(* successor of each of its members holds every number.                    *)
(***************************************************************************)
EXTENDS Texts, SequenceTheorems, WellFoundedInduction, TLAPS

\* A set of numbers that is not empty has a least member.
LEMMA LeastMember ==
  ASSUME NEW T, T \subseteq Nat, T # {}
  PROVE  \E x \in T : \A y \in T : x <= y
<1> DEFINE R == {ss \in Nat \X Nat : ss[1] < ss[2]}
<1>1. IsWellFoundedOn(R, Nat)
  BY NatLessThanWellFounded, Zenon DEF OpToRel
<1>2. \A x, y \in Nat : y < x => <<y, x>> \in R
  OBVIOUS
<1> HIDE DEF R
<1>3. PICK x \in T : \A y \in T : ~ (<<y, x>> \in R)
  BY <1>1, WFMin, Zenon
<1>4. ASSUME NEW y \in T PROVE x <= y
  <2>1. x \in Nat /\ y \in Nat /\ ~ (y < x)
    BY <1>2, <1>3
  <2> QED
    BY <2>1
<1> QED
  BY <1>4

\* Induction: a set that holds 0 and with a number the next one, holds every number.
LEMMA Induction ==
  ASSUME NEW S, 0 \in S, \A n \in Nat : n \in S => n + 1 \in S
  PROVE  Nat \subseteq S
<1> DEFINE T == Nat \ S
<1> SUFFICES ASSUME T # {} PROVE FALSE
  OBVIOUS
<1>1. PICK x \in T : \A y \in T : x <= y
  BY LeastMember
<1>2. x # 0 /\ x \in Nat
  OBVIOUS
<1>3. x - 1 \in Nat /\ x - 1 \notin T
  BY <1>1, <1>2
<1> QED
  BY <1>2, <1>3

\* Induction up to a bound.
LEMMA InductionUpTo ==
  ASSUME NEW S, NEW m \in Nat, 0 \in S, \A n \in 0 .. m - 1 : n \in S => n + 1 \in S
  PROVE  0 .. m \subseteq S
<1> DEFINE T == {n \in Nat : n <= m => n \in S}
<1>1. 0 \in T
  OBVIOUS
<1>2. \A n \in Nat : n \in T => n + 1 \in T
  OBVIOUS
<1> HIDE DEF T
<1>3. Nat \subseteq T
  BY <1>1, <1>2, Induction
<1> QED
  BY <1>3 DEF T

\* Division by a positive number.
LEMMA DivMod ==
  ASSUME NEW a \in Nat, NEW d \in Nat \ {0}
  PROVE  /\ a \div d \in Nat /\ a % d \in 0 .. d - 1 /\ a % d \in Nat
         /\ a = d * (a \div d) + (a % d)
OBVIOUS

\* A number is divided in one way.
LEMMA DivModIs ==
  ASSUME NEW a \in Nat, NEW d \in Nat \ {0}, NEW q \in Nat, NEW r \in 0 .. d - 1,
         a = d * q + r
  PROVE  a \div d = q /\ a % d = r
<1> DEFINE p == a \div d
           s == a % d
<1>1. p \in Nat /\ s \in 0 .. d - 1 /\ a = d * p + s
  BY DivMod
<1> HIDE DEF p, s
<1>2. \A x, y \in Nat : x < y => d * x + d <= d * y
  <2> SUFFICES ASSUME NEW x \in Nat, NEW y \in Nat, x < y PROVE d * x + d <= d * y
    OBVIOUS
  <2>1. PICK z \in Nat : y = x + 1 + z
    <3>1. y - x - 1 \in Nat /\ y = x + 1 + (y - x - 1)
      OBVIOUS
    <3> QED
      BY <3>1
  <2>2. d * y = d * x + d + d * z
    BY <2>1
  <2>3. d * z \in Nat /\ d * x \in Nat
    OBVIOUS
  <2> QED
    BY <2>2, <2>3
<1>3. d * p \in Nat /\ d * q \in Nat
  BY <1>1
<1>4. p = q
  BY <1>1, <1>2, <1>3
<1>5. s = r
  BY <1>1, <1>3, <1>4
<1> QED
  BY <1>4, <1>5 DEF p, s

\* The quotient of a number below a product.
LEMMA QuotientBelow ==
  ASSUME NEW a \in Nat, NEW d \in Nat \ {0}, NEW c \in Nat, a < d * c
  PROVE  a \div d < c
<1>1. a = d * (a \div d) + (a % d) /\ a \div d \in Nat /\ a % d \in Nat
  BY DivMod
<1>2. SUFFICES ASSUME a \div d >= c PROVE FALSE
  BY <1>1
<1>3. PICK x \in Nat : a \div d = c + x
  <2>1. (a \div d) - c \in Nat /\ a \div d = c + ((a \div d) - c)
    BY <1>1, <1>2
  <2> QED
    BY <2>1
<1>4. d * (a \div d) = d * c + d * x /\ d * x \in Nat /\ d * c \in Nat
  BY <1>3
<1> QED
  BY <1>1, <1>4

\* Products keep the order, and a factor other than 0 can be struck out.
LEMMA Products ==
  ASSUME NEW x \in Nat, NEW y \in Nat, NEW z \in Nat \ {0}
  PROVE  /\ x * z \in Nat /\ x * z = z * x
         /\ x <= y <=> x * z <= y * z
         /\ x < y <=> x * z < y * z
         /\ x = y <=> x * z = y * z
         /\ x <= x * z
         /\ x < y => x * z + z <= y * z
<1>1. x * z \in Nat /\ y * z \in Nat /\ x * z = z * x /\ x <= x * z
  OBVIOUS
<1>2. ASSUME NEW u \in Nat, NEW v \in Nat, u < v
      PROVE  u * z + z <= v * z
  <2>1. PICK w \in Nat : v = u + 1 + w
    <3>1. v - u - 1 \in Nat /\ v = u + 1 + (v - u - 1)
      BY <1>2
    <3> QED
      BY <3>1
  <2>2. v * z = u * z + z + w * z
    BY <2>1
  <2>3. u * z \in Nat /\ w * z \in Nat
    OBVIOUS
  <2> QED
    BY <2>2, <2>3
<1>3. x < y => x * z + z <= y * z
  BY <1>2
<1>4. y < x => y * z + z <= x * z
  BY <1>2
<1>5. x = y => x * z = y * z
  OBVIOUS
<1> QED
  BY <1>1, <1>3, <1>4, <1>5

\* A product of three, in any order.
LEMMA Swapped ==
  ASSUME NEW x \in Nat, NEW y \in Nat, NEW z \in Nat
  PROVE  /\ (x * y) * z = (x * z) * y /\ (x * y) * z = x * (y * z) /\ (x * y) * z = (y * z) * x
         /\ (x * y) * z \in Nat /\ x * y \in Nat /\ y * z \in Nat /\ x * z \in Nat /\ x * y = y * x
OBVIOUS

\* A recursion over the numbers up to n has a solution: one more value can be added to a
\* shorter one.
Recurs(g, base, step, n) == g[0] = base /\ \A k \in 1 .. n : g[k] = step[<<k, g[k - 1]>>]
LEMMA RecursionExists ==
  ASSUME NEW S, NEW base \in S, NEW step \in [Nat \X S -> S], NEW n \in Nat
  PROVE  \E g \in [0 .. n -> S] : Recurs(g, base, step, n)
<1> DEFINE Solves(g, m) == g[0] = base /\ \A k \in 1 .. m : g[k] = step[<<k, g[k - 1]>>]
           T == {m \in Nat : \E g \in [0 .. m -> S] : Solves(g, m)}
<1>1. 0 \in T
  <2> DEFINE g == [k \in 0 .. 0 |-> base]
  <2>1. g \in [0 .. 0 -> S] /\ Solves(g, 0)
    OBVIOUS
  <2>. QED  BY <2>1
<1>2. ASSUME NEW m \in Nat, m \in T PROVE m + 1 \in T
  <2>1. PICK g \in [0 .. m -> S] : Solves(g, m)
    BY <1>2
  <2> DEFINE v == step[<<m + 1, g[m]>>]
             h == [k \in 0 .. m + 1 |-> IF k = m + 1 THEN v ELSE g[k]]
  <2>2. v \in S
    OBVIOUS
  <2> HIDE DEF v
  <2>3. h \in [0 .. m + 1 -> S] /\ h[0] = base /\ h[m + 1] = v /\ \A k \in 0 .. m : h[k] = g[k]
    BY <2>1, <2>2
  <2> HIDE DEF h
  <2>4. ASSUME NEW k \in 1 .. m + 1 PROVE h[k] = step[<<k, h[k - 1]>>]
    <3>1. CASE k = m + 1
      <4>1. k - 1 = m /\ m \in 0 .. m
        BY <3>1
      <4>2. h[k - 1] = g[m]
        BY <2>3, <4>1
      <4>. QED  BY <2>3, <3>1, <4>2 DEF v
    <3>2. CASE k # m + 1
      <4>1. k \in 1 .. m /\ k \in 0 .. m /\ k - 1 \in 0 .. m
        BY <3>2
      <4>2. g[k] = step[<<k, g[k - 1]>>]
        BY <2>1, <4>1
      <4>3. h[k] = g[k] /\ h[k - 1] = g[k - 1]
        BY <2>3, <4>1
      <4>. QED  BY <4>2, <4>3
    <3>. QED  BY <3>1, <3>2
  <2>5. Solves(h, m + 1) /\ m + 1 \in Nat
    BY <2>3, <2>4
  <2>. QED  BY <2>3, <2>5, Zenon
<1> HIDE DEF T
<1>3. Nat \subseteq T
  BY <1>1, <1>2, Induction
<1>4. n \in T
  BY <1>3
<1>. QED  BY <1>4, Zenon DEF T, Recurs

\* Two functions whose values follow from the value before in the same way are the same.
LEMMA SameRecursion ==
  ASSUME NEW m \in Nat, NEW f, NEW g, f[0] = g[0],
         \A k \in 0 .. m - 1 : f[k] = g[k] => f[k + 1] = g[k + 1]
  PROVE  f[m] = g[m]
<1> DEFINE T == {k \in Nat : f[k] = g[k]}
<1>1. 0 \in T /\ \A k \in 0 .. m - 1 : k \in T => k + 1 \in T
  OBVIOUS
<1> HIDE DEF T
<1>2. 0 .. m \subseteq T
  BY <1>1, InductionUpTo
<1>3. m \in T
  BY <1>2
<1>. QED  BY <1>3 DEF T

\* Powers of a number are numbers.
LEMMA PowerType ==
  ASSUME NEW b \in Nat, NEW m \in Nat, PowersUpTo(b, m), NEW k \in 0 .. m
  PROVE  b ^ k \in Nat
<1> DEFINE S == {n \in Nat : b ^ n \in Nat}
<1>1. 0 \in S
  BY DEF PowersUpTo
<1>2. ASSUME NEW n \in 0 .. m - 1, n \in S PROVE n + 1 \in S
  <2>1. b ^ (n + 1) = b * b ^ n /\ b ^ n \in Nat
    BY <1>2 DEF PowersUpTo
  <2>2. b * b ^ n \in Nat
    BY <2>1
  <2> QED
    BY <2>1, <2>2
<1> HIDE DEF S
<1>3. 0 .. m \subseteq S
  BY <1>1, <1>2, InductionUpTo
<1> QED
  BY <1>3 DEF S

\* Powers of a number other than 0 are not 0.
LEMMA PowerPositive ==
  ASSUME NEW b \in Nat \ {0}, NEW m \in Nat, PowersUpTo(b, m), NEW k \in 0 .. m
  PROVE  b ^ k \in Nat \ {0}
<1> DEFINE S == {n \in Nat : b ^ n \in Nat \ {0}}
<1>1. 0 \in S
  BY DEF PowersUpTo
<1>2. ASSUME NEW n \in 0 .. m - 1, n \in S PROVE n + 1 \in S
  <2>1. b ^ (n + 1) = b * b ^ n /\ b ^ n \in Nat \ {0}
    BY <1>2 DEF PowersUpTo
  <2>2. b * b ^ n \in Nat \ {0}
    BY <2>1
  <2> QED
    BY <2>1, <2>2
<1> HIDE DEF S
<1>3. 0 .. m \subseteq S
  BY <1>1, <1>2, InductionUpTo
<1> QED
  BY <1>3 DEF S

\* The product of two powers.
LEMMA PowerSum ==
  ASSUME NEW b \in Nat, NEW m \in Nat, PowersUpTo(b, m),
         NEW j \in Nat, NEW k \in Nat, j + k <= m
  PROVE  b ^ (j + k) = b ^ j * b ^ k
<1> DEFINE S == {n \in Nat : j + n <= m => b ^ (j + n) = b ^ j * b ^ n}
<1>1. 0 \in S
  <2>1. b ^ j \in Nat /\ j + 0 = j /\ b ^ 0 = 1
    BY PowerType DEF PowersUpTo
  <2> QED
    BY <2>1
<1>2. ASSUME NEW n \in Nat, n \in S PROVE n + 1 \in S
  <2> SUFFICES ASSUME j + (n + 1) <= m PROVE b ^ (j + (n + 1)) = b ^ j * b ^ (n + 1)
    OBVIOUS
  <2>1. b ^ (j + n) = b ^ j * b ^ n
    BY <1>2
  <2>2. b ^ ((j + n) + 1) = b * b ^ (j + n) /\ b ^ (n + 1) = b * b ^ n
    BY DEF PowersUpTo
  <2>3. b ^ j \in Nat /\ b ^ n \in Nat
    BY PowerType
  <2>4. b * (b ^ j * b ^ n) = b ^ j * (b * b ^ n)
    BY <2>3
  <2> QED
    BY <2>1, <2>2, <2>4
<1> HIDE DEF S
<1>3. Nat \subseteq S
  BY <1>1, <1>2, Induction
<1>4. k \in S
  BY <1>3
<1> QED
  BY <1>4 DEF S

\* Powers grow: each is at least b times the ones before it.
LEMMA PowerGrows ==
  ASSUME NEW b \in Nat \ {0, 1}, NEW m \in Nat, PowersUpTo(b, m),
         NEW j \in 0 .. m, NEW k \in 0 .. m, j < k
  PROVE  b * b ^ j <= b ^ k /\ b ^ j < b ^ k
<1> DEFINE r == k - j - 1
<1>1. r \in Nat /\ k = (j + 1) + r /\ (j + 1) + r <= m
  OBVIOUS
<1>2. b ^ k = b ^ (j + 1) * b ^ r
  <2> HIDE DEF r
  <2> QED
    BY <1>1, PowerSum
<1>3. b ^ (j + 1) = b * b ^ j
  BY DEF PowersUpTo
<1>4. b ^ j \in Nat \ {0} /\ b ^ r \in Nat \ {0}
  BY <1>1, PowerPositive
<1>5. \A x, y \in Nat \ {0} : b * x <= (b * x) * y /\ x < b * x
  <2> SUFFICES ASSUME NEW x \in Nat \ {0}, NEW y \in Nat \ {0}
               PROVE  b * x <= (b * x) * y /\ x < b * x
    OBVIOUS
  <2>1. b * x \in Nat
    OBVIOUS
  <2>2. x < b * x
    OBVIOUS
  <2> QED
    BY <2>1, <2>2
<1> HIDE DEF r
<1> QED
  BY <1>2, <1>3, <1>4, <1>5

\* In the same order as their exponents, equal ones included.
LEMMA PowerOrder ==
  ASSUME NEW b \in Nat \ {0}, NEW m \in Nat, PowersUpTo(b, m),
         NEW j \in 0 .. m, NEW k \in 0 .. m, j <= k
  PROVE  b ^ j <= b ^ k
<1>1. CASE j = k
  <2>1. b ^ j \in Nat
    BY PowerType
  <2> QED
    BY <1>1, <2>1
<1>2. CASE j < k
  <2>1. b ^ k = b ^ j * b ^ (k - j)
    <3>1. k - j \in Nat /\ j + (k - j) = k /\ j + (k - j) <= m
      BY <1>2
    <3> QED
      BY <3>1, PowerSum
  <2>2. b ^ j \in Nat \ {0} /\ b ^ (k - j) \in Nat \ {0}
    BY <1>2, PowerPositive
  <2> QED
    BY <2>1, <2>2
<1> QED
  BY <1>1, <1>2

\* A power of a power.
LEMMA PowerPower ==
  ASSUME NEW b \in Nat, NEW m \in Nat, PowersUpTo(b, m), NEW h \in Nat, NEW n \in Nat, h * n <= m,
         PowersUpTo(b ^ h, n), NEW j \in 0 .. n
  PROVE  b ^ (h * j) = (b ^ h) ^ j
<1> DEFINE S == {k \in 0 .. n : b ^ (h * k) = (b ^ h) ^ k}
<1>1. 0 \in S
  <2>1. h * 0 = 0 /\ b ^ 0 = 1 /\ (b ^ h) ^ 0 = 1
    BY DEF PowersUpTo
  <2>2. b ^ (h * 0) = (b ^ h) ^ 0
    BY <2>1, Zenon
  <2>. QED  BY <2>2
<1>2. ASSUME NEW k \in 0 .. n - 1, k \in S PROVE k + 1 \in S
  <2>1. h * (k + 1) = h + h * k /\ h * k \in Nat /\ h + h * k <= m
    <3>1. k + 1 \in Nat /\ k + 1 <= n
      OBVIOUS
    <3>2. (k + 1) * h <= n * h
      <4>1. CASE h = 0
        BY <4>1
      <4>2. CASE h # 0
        BY <3>1, <4>2, Products
      <4>. QED  BY <4>1, <4>2
    <3>3. \A x, y \in Nat : x * y = y * x /\ x * y \in Nat
      OBVIOUS
    <3>4. (k + 1) * h = h * (k + 1) /\ n * h = h * n /\ h * (k + 1) = h + h * k /\ h * k \in Nat
      BY <3>1, <3>3
    <3>. QED  BY <3>2, <3>4
  <2>2. b ^ (h + h * k) = b ^ h * b ^ (h * k)
    BY <2>1, PowerSum
  <2>3. (b ^ h) ^ (k + 1) = b ^ h * (b ^ h) ^ k
    BY DEF PowersUpTo
  <2>4. b ^ (h * k) = (b ^ h) ^ k
    BY <1>2
  <2>5. b ^ (h * (k + 1)) = (b ^ h) ^ (k + 1)
    BY <2>1, <2>2, <2>3, <2>4, Zenon
  <2>. QED  BY <2>5
<1> HIDE DEF S
<1>3. 0 .. n \subseteq S
  BY <1>1, <1>2, InductionUpTo
<1>4. j \in S
  BY <1>3
<1>. QED  BY <1>4 DEF S

---------------------------------------------------------------------------
(* The digits of a number *)

\* A digit more.
ValueTurn(w, b, i, x) == x * b + w[i]

\* w is n numbers, and v the values of its first ones.
Numbers(w, n) == n \in Nat /\ Len(w) = n /\ \A i \in 1 .. n : w[i] \in Nat
Values(v, w, b, n) == /\ v \in [0 .. n -> Nat] /\ v[0] = 0
                      /\ \A i \in 1 .. n : v[i] = v[i - 1] * b + w[i]

\* ValueOf is worth what its equations say, digit by digit.
LEMMA ValueSteps ==
  ASSUME NEW w, NEW b \in Nat, NEW n, Numbers(w, n)
  PROVE  \E v : Values(v, w, b, n) /\ ValueOf(w, b) = v[n]
<1> DEFINE step == [x \in Nat \X Nat |-> IF x[1] \in 1 .. n THEN ValueTurn(w, b, x[1], x[2]) ELSE 0]
           G(h) == [i \in 0 .. n |-> IF i = 0 THEN 0 ELSE ValueTurn(w, b, i, h[i - 1])]
<1>1. n \in Nat /\ \A i \in 1 .. n : w[i] \in Nat
  BY DEF Numbers
<1>2. \A i \in 1 .. n, x \in Nat : ValueTurn(w, b, i, x) \in Nat
  BY <1>1 DEF ValueTurn
<1>3. step \in [Nat \X Nat -> Nat]
  BY <1>2
<1>4. PICK g \in [0 .. n -> Nat] : g[0] = 0 /\ \A i \in 1 .. n : g[i] = step[<<i, g[i - 1]>>]
  <2> HIDE DEF step
  <2>1. \E g \in [0 .. n -> Nat] : Recurs(g, 0, step, n)
    BY <1>1, <1>3, RecursionExists, Zenon
  <2>. QED  BY <2>1 DEF Recurs
<1>5. \A i \in 1 .. n : g[i] = ValueTurn(w, b, i, g[i - 1])
  <2> TAKE i \in 1 .. n
  <2>1. i \in Nat /\ i - 1 \in 0 .. n
    BY <1>1
  <2>2. g[i - 1] \in Nat
    BY <1>4, <2>1
  <2>. QED  BY <1>4, <2>1, <2>2
<1> HIDE DEF step
<1>6. g = G(g)
  <2>1. \A i \in 0 .. n : g[i] = G(g)[i]
    BY <1>1, <1>4, <1>5
  <2>2. g = [i \in 0 .. n |-> g[i]]
    BY <1>4
  <2>3. G(g) = [i \in 0 .. n |-> G(g)[i]]
    OBVIOUS
  <2> HIDE DEF G
  <2>. QED  BY <2>1, <2>2, <2>3
<1> DEFINE f == CHOOSE h : h = G(h)
<1>7. f = G(f)
  <2> HIDE DEF G
  <2>. QED  BY <1>6, Zenon
<1>8. ValueOf(w, b) = f[n]
  <2>1. ValueOf(w, b) = LET v[i \in 0 .. n] == IF i = 0 THEN 0 ELSE v[i - 1] * b + w[i] IN v[n]
    BY Zenon DEF ValueOf, Numbers
  <2>. QED  BY <2>1, Zenon DEF ValueTurn
<1> HIDE DEF f
<1>9. f[n] = g[n]
  <2>0. f[0] = 0 /\ \A i \in 1 .. n : f[i] = ValueTurn(w, b, i, f[i - 1])
    <3>1. \A i \in 0 .. n : f[i] = G(f)[i]
      <4> HIDE DEF G
      <4>. QED  BY <1>7
    <3>. QED  BY <1>1, <3>1
  <2> HIDE DEF G
  <2>1. f[0] = g[0]
    BY <1>4, <2>0
  <2>2. ASSUME NEW i \in 0 .. n - 1, f[i] = g[i] PROVE f[i + 1] = g[i + 1]
    <3>1. i + 1 \in 1 .. n /\ (i + 1) - 1 = i
      BY <1>1
    <3>2. f[i + 1] = ValueTurn(w, b, i + 1, f[(i + 1) - 1])
      BY <2>0, <3>1, Zenon
    <3>3. g[i + 1] = ValueTurn(w, b, i + 1, g[(i + 1) - 1])
      BY <1>5, <3>1, Zenon
    <3>. QED  BY <2>2, <3>1, <3>2, <3>3
  <2>. QED  BY <1>1, <2>1, <2>2, SameRecursion
<1>10. Values(g, w, b, n)
  BY <1>4, <1>5 DEF Values, ValueTurn
<1>. QED  BY <1>8, <1>9, <1>10

LEMMA ValueType ==
  ASSUME NEW w \in Seq(Nat), NEW b \in Nat
  PROVE  ValueOf(w, b) \in Nat
<1>1. Numbers(w, Len(w))
  BY DEF Numbers
<1>2. PICK v : Values(v, w, b, Len(w)) /\ ValueOf(w, b) = v[Len(w)]
  BY <1>1, ValueSteps
<1>. QED  BY <1>1, <1>2 DEF Values, Numbers

\* Values that grow alike are the same.
LEMMA ValueIs ==
  ASSUME NEW w, NEW b \in Nat, NEW n, Numbers(w, n), NEW g, Values(g, w, b, n)
  PROVE  ValueOf(w, b) = g[n]
<1>1. PICK v : Values(v, w, b, n) /\ ValueOf(w, b) = v[n]
  BY ValueSteps
<1>2. n \in Nat /\ v[0] = g[0]
  BY <1>1 DEF Numbers, Values
<1>3. ASSUME NEW i \in 0 .. n - 1, v[i] = g[i] PROVE v[i + 1] = g[i + 1]
  <2>1. i + 1 \in 1 .. n /\ (i + 1) - 1 = i
    BY <1>2
  <2>. QED  BY <1>1, <1>3, <2>1 DEF Values
<1>4. v[n] = g[n]
  BY <1>2, <1>3, SameRecursion
<1>. QED  BY <1>1, <1>4

LEMMA Joined ==
  ASSUME NEW S, NEW u \in Seq(S), NEW v \in Seq(S)
  PROVE  /\ Len(u) \in Nat /\ Len(v) \in Nat
         /\ u \o v \in Seq(S) /\ Len(u \o v) = Len(u) + Len(v)
         /\ \A i \in 1 .. Len(u) : (u \o v)[i] = u[i] /\ u[i] \in S
         /\ \A i \in 1 .. Len(v) : (u \o v)[Len(u) + i] = v[i] /\ v[i] \in S
         /\ \A i \in 1 .. Len(u) + Len(v) : (u \o v)[i] \in S
<1>1. Len(u) \in Nat /\ Len(v) \in Nat /\ u \o v \in Seq(S) /\ Len(u \o v) = Len(u) + Len(v)
  BY ConcatProperties, LenProperties
<1>2. ASSUME NEW i \in 1 .. Len(u) PROVE (u \o v)[i] = u[i] /\ u[i] \in S
  <2>1. i \in 1 .. Len(u) + Len(v) /\ i <= Len(u)
    BY <1>1
  <2>. QED  BY <2>1, ConcatProperties, ElementOfSeq
<1>3. ASSUME NEW i \in 1 .. Len(v) PROVE (u \o v)[Len(u) + i] = v[i] /\ v[i] \in S
  <2>1. Len(u) + i \in 1 .. Len(u) + Len(v) /\ ~ (Len(u) + i <= Len(u)) /\ (Len(u) + i) - Len(u) = i
    BY <1>1
  <2>2. v[i] \in S
    BY ElementOfSeq
  <2>. QED  BY <2>1, <2>2, ConcatProperties
<1>4. ASSUME NEW i \in 1 .. Len(u) + Len(v) PROVE (u \o v)[i] \in S
  <2>1. i \in 1 .. Len(u \o v)
    BY <1>1
  <2>. QED  BY <1>1, <2>1, ElementOfSeq
<1>. QED  BY <1>1, <1>2, <1>3, <1>4

LEMMA ValueOfNone ==
  ASSUME NEW b \in Nat
  PROVE  ValueOf(<<>>, b) = 0
<1>1. Numbers(<<>>, 0)
  BY DEF Numbers
<1>2. PICK v : Values(v, <<>>, b, 0) /\ ValueOf(<<>>, b) = v[0]
  BY <1>1, ValueSteps
<1>. QED  BY <1>2 DEF Values

LEMMA TurnShift ==
  ASSUME NEW x \in Nat, NEW y \in Nat, NEW z \in Nat, NEW t \in Nat, NEW b \in Nat
  PROVE  (x * y + z) * b + t = x * (b * y) + (z * b + t)
OBVIOUS

Continues(w, u, v, k, n) == /\ Numbers(u, k) /\ Numbers(v, n) /\ Len(w) = k + n
                            /\ \A i \in 1 .. k : w[i] = u[i]
                            /\ \A i \in 1 .. n : w[k + i] = v[i]
LEMMA ValueSplit ==
  ASSUME NEW b \in Nat, NEW k \in Nat, NEW n \in Nat, PowersUpTo(b, n),
         NEW w, NEW u, NEW v, Continues(w, u, v, k, n)
  PROVE  ValueOf(w, b) = ValueOf(u, b) * b ^ n + ValueOf(v, b)
<1>1. /\ k \in Nat /\ n \in Nat /\ Len(w) = k + n
      /\ \A i \in 1 .. k + n : w[i] \in Nat /\ w[i] = IF i <= k THEN u[i] ELSE v[i - k]
      /\ \A i \in 1 .. k : u[i] \in Nat
      /\ \A i \in 1 .. n : v[i] \in Nat
  <2>0. k \in Nat /\ n \in Nat
    BY DEF Continues, Numbers
  <2>1. \A i \in 1 .. k + n : i <= k => i \in 1 .. k
    BY <2>0
  <2>2. \A i \in 1 .. k + n : ~ (i <= k) => i - k \in 1 .. n /\ k + (i - k) = i
    BY <2>0
  <2>. QED  BY <2>0, <2>1, <2>2 DEF Continues, Numbers
<1>2. PICK f : Values(f, w, b, k + n) /\ ValueOf(w, b) = f[k + n]
  <2>1. Numbers(w, k + n)
    BY <1>1 DEF Numbers
  <2>. QED  BY <2>1, ValueSteps
<1>3. PICK g : Values(g, u, b, k) /\ ValueOf(u, b) = g[k]
  <2>1. Numbers(u, k)
    BY DEF Continues
  <2>. QED  BY <2>1, ValueSteps
<1>4. PICK h : Values(h, v, b, n) /\ ValueOf(v, b) = h[n]
  <2>1. Numbers(v, n)
    BY DEF Continues
  <2>. QED  BY <2>1, ValueSteps
<1>5. f[k] = g[k]
  <2>1. ASSUME NEW i \in 0 .. k - 1, f[i] = g[i] PROVE f[i + 1] = g[i + 1]
    <3>1. i + 1 \in 1 .. k /\ i + 1 \in 1 .. k + n /\ (i + 1) - 1 = i /\ i + 1 <= k
      BY <1>1
    <3>2. w[i + 1] = u[i + 1]
      BY <1>1, <3>1
    <3>3. f[i + 1] = f[i] * b + w[i + 1] /\ g[i + 1] = g[i] * b + u[i + 1]
      BY <1>2, <1>3, <3>1 DEF Values
    <3>. QED  BY <2>1, <3>2, <3>3
  <2>2. f[0] = g[0]
    BY <1>2, <1>3 DEF Values
  <2>. QED  BY <2>1, <2>2, SameRecursion
<1> DEFINE T == {j \in Nat : f[k + j] = g[k] * b ^ j + h[j]}
<1>6. 0 \in T
  <2>1. b ^ 0 = 1 /\ k + 0 = k /\ g[k] \in Nat
    BY <1>1, <1>3 DEF PowersUpTo, Values
  <2>2. h[0] = 0
    BY <1>4 DEF Values
  <2>. QED  BY <1>5, <2>1, <2>2
<1>7. \A j \in 0 .. n - 1 : j \in T => j + 1 \in T
  <2> SUFFICES ASSUME NEW j \in 0 .. n - 1, j \in T PROVE j + 1 \in T
    OBVIOUS
  <2>1. /\ j + 1 \in 1 .. n /\ k + (j + 1) \in 1 .. k + n /\ (k + (j + 1)) - 1 = k + j
        /\ ~ (k + (j + 1) <= k) /\ (k + (j + 1)) - k = j + 1 /\ (j + 1) - 1 = j /\ j \in 0 .. n
    BY <1>1
  <2>2. w[k + (j + 1)] = v[j + 1] /\ v[j + 1] \in Nat
    BY <1>1, <2>1
  <2>3. f[k + (j + 1)] = f[k + j] * b + v[j + 1]
    BY <1>2, <2>1, <2>2 DEF Values
  <2>4. h[j + 1] = h[j] * b + v[j + 1]
    BY <1>4, <2>1 DEF Values
  <2>5. b ^ (j + 1) = b * b ^ j /\ b ^ j \in Nat /\ g[k] \in Nat /\ h[j] \in Nat
    <3>1. b ^ j \in Nat
      BY <1>1, <2>1, PowerType
    <3>2. k \in 0 .. k
      BY <1>1
    <3>3. b ^ (j + 1) = b * b ^ j
      BY DEF PowersUpTo
    <3>. QED  BY <1>3, <1>4, <2>1, <3>1, <3>2, <3>3 DEF Values
  <2>6. j \in T
    OBVIOUS
  <2>7. f[k + j] = g[k] * b ^ j + h[j]
    BY <2>6
  <2>8. (g[k] * b ^ j + h[j]) * b + v[j + 1] = g[k] * (b * b ^ j) + (h[j] * b + v[j + 1])
    <3> DEFINE x == g[k]
               y == b ^ j
               z == h[j]
               t == v[j + 1]
    <3>1. x \in Nat /\ y \in Nat /\ z \in Nat /\ t \in Nat
      BY <2>2, <2>5
    <3> HIDE DEF x, y, z, t
    <3>2. (x * y + z) * b + t = x * (b * y) + (z * b + t)
      BY <3>1, TurnShift
    <3>. QED  BY <3>2 DEF x, y, z, t
  <2>9. f[k + (j + 1)] = g[k] * b ^ (j + 1) + h[j + 1]
    BY <2>3, <2>4, <2>5, <2>7, <2>8, Zenon
  <2>10. j + 1 \in Nat
    BY <2>1
  <2>. QED  BY <2>9, <2>10, Zenon
<1> HIDE DEF T
<1>8. n \in T
  <2>1. 0 .. n \subseteq T
    BY <1>6, <1>7, InductionUpTo
  <2>. QED  BY <2>1
<1>. QED  BY <1>2, <1>3, <1>4, <1>8 DEF T

\* Digits behind digits.
LEMMA ValueConcat ==
  ASSUME NEW b \in Nat, NEW u \in Seq(Nat), NEW v \in Seq(Nat), PowersUpTo(b, Len(v))
  PROVE  ValueOf(u \o v, b) = ValueOf(u, b) * b ^ Len(v) + ValueOf(v, b)
<1>1. /\ Len(u) \in Nat /\ Len(v) \in Nat /\ Len(u \o v) = Len(u) + Len(v)
      /\ \A i \in 1 .. Len(u) : (u \o v)[i] = u[i] /\ u[i] \in Nat
      /\ \A i \in 1 .. Len(v) : (u \o v)[Len(u) + i] = v[i] /\ v[i] \in Nat
  BY Joined
<1> DEFINE w == u \o v
           k == Len(u)
           n == Len(v)
<1>2. k \in Nat /\ n \in Nat /\ PowersUpTo(b, n) /\ Continues(w, u, v, k, n)
  BY <1>1 DEF Continues, Numbers
<1> HIDE DEF w, k, n
<1>3. ValueOf(w, b) = ValueOf(u, b) * b ^ n + ValueOf(v, b)
  BY <1>2, ValueSplit
<1>. QED  BY <1>3 DEF w, n

\* Zeros, however many, add nothing.
LEMMA ValueZeros ==
  ASSUME NEW b \in Nat, NEW u \in Seq(Nat), \A i \in 1 .. Len(u) : u[i] = 0
  PROVE  ValueOf(u, b) = 0
<1>1. Len(u) \in Nat /\ \A i \in 1 .. Len(u) : u[i] \in Nat
  OBVIOUS
<1> DEFINE g == [i \in 0 .. Len(u) |-> 0]
<1>2. g[0] = 0 /\ g[Len(u)] = 0
  BY <1>1
<1>3. \A i \in 1 .. Len(u) : g[i] = g[i - 1] * b + u[i]
  <2> TAKE i \in 1 .. Len(u)
  <2>1. i \in 0 .. Len(u) /\ i - 1 \in 0 .. Len(u) /\ u[i] = 0
    BY <1>1
  <2>. QED  BY <2>1
<1>4. Values(g, u, b, Len(u)) /\ Numbers(u, Len(u))
  BY <1>1, <1>2, <1>3 DEF Values, Numbers
<1> HIDE DEF g
<1>. QED  BY <1>2, <1>4, ValueIs

\* Nor do zeros before other digits.
LEMMA LeadingZeros ==
  ASSUME NEW b \in Nat, NEW u \in Seq(Nat), NEW v \in Seq(Nat), \A i \in 1 .. Len(u) : u[i] = 0
  PROVE  ValueOf(u \o v, b) = ValueOf(v, b)
<1> DEFINE w == u \o v
           k == Len(u)
           n == Len(v)
<1>1. /\ k \in Nat /\ n \in Nat /\ w \in Seq(Nat) /\ Len(w) = k + n
      /\ \A i \in 1 .. k + n : w[i] \in Nat /\ w[i] = IF i <= k THEN u[i] ELSE v[i - k]
      /\ \A i \in 1 .. n : v[i] \in Nat
  <2>1. \A i \in 1 .. k + n : i <= k => i \in 1 .. k
    BY Joined
  <2>2. \A i \in 1 .. k + n : ~ (i <= k) => i - k \in 1 .. n /\ k + (i - k) = i
    BY Joined
  <2>. QED  BY <2>1, <2>2, Joined
<1>2. PICK h : Values(h, v, b, n) /\ ValueOf(v, b) = h[n]
  <2>1. Numbers(v, n)
    BY <1>1 DEF Numbers
  <2>. QED  BY <2>1, ValueSteps
<1> DEFINE g == [i \in 0 .. k + n |-> IF i <= k THEN 0 ELSE h[i - k]]
<1>3. \A i \in 1 .. k : u[i] = 0
  OBVIOUS
<1> HIDE DEF w, k, n
<1>4. g[0] = 0
  BY <1>1
<1>5. \A i \in 1 .. k + n : g[i] = g[i - 1] * b + w[i]
  <2> TAKE i \in 1 .. k + n
  <2>1. i \in 0 .. k + n /\ i - 1 \in 0 .. k + n /\ i \in Nat
    BY <1>1
  <2>2. CASE i <= k
    <3>1. i - 1 <= k /\ i \in 1 .. k
      BY <1>1, <2>1, <2>2
    <3>2. g[i] = 0 /\ g[i - 1] = 0 /\ w[i] = 0
      BY <1>1, <1>3, <2>1, <2>2, <3>1
    <3>. QED  BY <3>2
  <2>3. CASE i > k
    <3>1. i - k \in 1 .. n /\ (i - 1) - k = (i - k) - 1 /\ ~ (i <= k)
      BY <1>1, <2>1, <2>3
    <3>2. g[i] = h[i - k] /\ w[i] = v[i - k]
      BY <1>1, <2>1, <3>1
    <3>3. g[i - 1] = h[(i - k) - 1]
      <4>1. CASE i - 1 <= k
        <5>1. i - k - 1 = 0
          BY <1>1, <2>3, <4>1
        <5>. QED  BY <1>2, <2>1, <4>1, <5>1 DEF Values
      <4>2. CASE ~ (i - 1 <= k)
        BY <2>1, <3>1, <4>2
      <4>. QED  BY <4>1, <4>2
    <3>. QED  BY <1>2, <3>1, <3>2, <3>3 DEF Values
  <2>. QED  BY <1>1, <2>1, <2>2, <2>3
<1>6. g[k + n] = h[n]
  <2>1. k + n \in 0 .. k + n /\ (k + n) - k = n
    BY <1>1
  <2>2. CASE n = 0
    BY <1>1, <1>2, <2>1, <2>2 DEF Values
  <2>3. CASE n # 0
    <3>1. ~ (k + n <= k)
      BY <1>1, <2>3
    <3>. QED  BY <2>1, <3>1
  <2>. QED  BY <2>2, <2>3
<1>7. Values(g, w, b, k + n) /\ Numbers(w, k + n)
  <2>1. g \in [0 .. k + n -> Nat]
    <3>1. ASSUME NEW i \in 0 .. k + n PROVE g[i] \in Nat
      <4>1. CASE i <= k
        BY <4>1
      <4>2. CASE ~ (i <= k)
        <5>1. i - k \in 0 .. n
          BY <1>1, <4>2
        <5>. QED  BY <1>2, <4>2, <5>1 DEF Values
      <4>. QED  BY <4>1, <4>2
    <3>. QED  BY <3>1
  <2> HIDE DEF g
  <2>2. Values(g, w, b, k + n)
    BY <1>4, <1>5, <2>1 DEF Values
  <2>3. Numbers(w, k + n)
    BY <1>1 DEF Numbers
  <2>. QED  BY <2>2, <2>3
<1> HIDE DEF g
<1>8. ValueOf(w, b) = g[k + n]
  BY <1>7, ValueIs
<1>. QED  BY <1>2, <1>6, <1>8 DEF w

LEMMA DivDiv ==
  ASSUME NEW x \in Nat, NEW p \in Nat \ {0}, NEW b \in Nat \ {0}
  PROVE  (x \div p) \div b = x \div (b * p)
<1> DEFINE y == x \div p
           r == x % p
           q == y \div b
           d == y % b
<1>1. y \in Nat /\ r \in 0 .. p - 1 /\ x = p * y + r
  BY DivMod
<1>2. q \in Nat /\ d \in 0 .. b - 1 /\ y = b * q + d
  <2> HIDE DEF y
  <2>. QED  BY <1>1, DivMod
<1> HIDE DEF y, r, q, d
<1>3. p * d + r \in 0 .. b * p - 1
  <2>1. p * d + p <= p * b
    <3>1. d + 1 <= b /\ d + 1 \in Nat
      BY <1>2
    <3>2. (d + 1) * p <= b * p
      BY <3>1, Products
    <3>. QED  BY <1>2, <3>2
  <2>2. p * d \in Nat /\ b * p \in Nat /\ p * b = b * p
    BY <1>2
  <2>. QED  BY <1>1, <2>1, <2>2
<1>4. x = (b * p) * q + (p * d + r)
  <2>1. p * (b * q + d) = p * (b * q) + p * d /\ p * (b * q) = (b * p) * q
    BY <1>2, Swapped
  <2>2. p * (b * q) \in Nat /\ p * d \in Nat /\ r \in Nat
    BY <1>1, <1>2
  <2>. QED  BY <1>1, <1>2, <2>1, <2>2
<1>5. b * p \in Nat \ {0}
  OBVIOUS
<1>6. x \div (b * p) = q
  BY <1>2, <1>3, <1>4, <1>5, DivModIs
<1>. QED  BY <1>6 DEF q, y

\* The digits of a number are digits, and the first of as many as it has is none of the zeros.
LEMMA SpelledType ==
  ASSUME NEW x \in Nat, NEW b \in Nat \ {0, 1}, NEW n \in Nat, PowersUpTo(b, n)
  PROVE  /\ Spelled(x, b, n) \in Seq(0 .. b - 1) /\ Spelled(x, b, n) \in Seq(Nat)
         /\ Len(Spelled(x, b, n)) = n
         /\ \A i \in 1 .. n : Spelled(x, b, n)[i] = (x \div b ^ (n - i)) % b
         /\ (n > 0 /\ x < b ^ n /\ b ^ (n - 1) <= x) => Spelled(x, b, n)[1] # 0
<1>1. \A i \in 0 .. n : b ^ (n - i) \in Nat \ {0}
  <2> TAKE i \in 0 .. n
  <2>1. n - i \in 0 .. n
    OBVIOUS
  <2>. QED  BY <2>1, PowerPositive
<1>2. \A i \in 1 .. n : (x \div b ^ (n - i)) % b \in 0 .. b - 1
  <2> TAKE i \in 1 .. n
  <2>0. b ^ (n - i) \in Nat \ {0}
    BY <1>1
  <2>1. x \div b ^ (n - i) \in Nat
    BY <2>0, DivMod
  <2>. QED  BY <2>1, DivMod
<1>3. Spelled(x, b, n) \in [1 .. n -> 0 .. b - 1]
  BY <1>2 DEF Spelled
<1>4. Spelled(x, b, n) \in Seq(0 .. b - 1)
  BY <1>3
<1>5. Len(Spelled(x, b, n)) = n
  BY <1>3
<1>6. Spelled(x, b, n) \in Seq(Nat)
  BY <1>4, SeqMonotonic, 0 .. b - 1 \subseteq Nat
<1>7. ASSUME n > 0, x < b ^ n, b ^ (n - 1) <= x PROVE Spelled(x, b, n)[1] # 0
  <2> DEFINE p == b ^ (n - 1)
             q == x \div p
  <2>1. b ^ n = b * p /\ p \in Nat \ {0}
    <3>1. n - 1 \in 0 .. n - 1 /\ (n - 1) + 1 = n /\ n - 1 \in 0 .. n
      BY <1>7
    <3>. QED  BY <3>1, PowerPositive DEF PowersUpTo
  <2>2. q \in Nat /\ x = p * q + (x % p) /\ x % p \in 0 .. p - 1
    BY <2>1, DivMod
  <2>3. q < b
    BY <1>7, <2>1, QuotientBelow
  <2>4. q # 0
    <3> SUFFICES ASSUME q = 0 PROVE FALSE
      OBVIOUS
    <3>1. p * q = 0
      BY <2>1
    <3> HIDE DEF q
    <3>. QED  BY <1>7, <2>1, <2>2, <3>1
  <2>5. q % b = q
    <3>1. q = b * 0 + q /\ q \in 0 .. b - 1
      BY <2>2, <2>3
    <3> HIDE DEF q
    <3>. QED  BY <2>2, <3>1, DivModIs
  <2>6. 1 \in 1 .. n
    BY <1>7
  <2>. QED  BY <2>4, <2>5, <2>6 DEF Spelled
<1>. QED  BY <1>4, <1>5, <1>6, <1>7 DEF Spelled

\* What is spelled is what is read.
LEMMA SpelledValue ==
  ASSUME NEW b \in Nat \ {0, 1}, NEW n \in Nat, PowersUpTo(b, n), NEW x \in Nat, x < b ^ n
  PROVE  ValueOf(Spelled(x, b, n), b) = x
<1> DEFINE w == Spelled(x, b, n)
           g == [i \in 0 .. n |-> x \div b ^ (n - i)]
<1>1. /\ w \in Seq(Nat) /\ Len(w) = n
      /\ \A i \in 1 .. n : w[i] = (x \div b ^ (n - i)) % b /\ w[i] \in Nat
  <2>1. w \in Seq(Nat) /\ Len(w) = n /\ \A i \in 1 .. n : w[i] = (x \div b ^ (n - i)) % b
    BY SpelledType
  <2> HIDE DEF w
  <2>. QED  BY <2>1
<1>2. Numbers(w, n)
  BY <1>1 DEF Numbers
<1>3. \A i \in 0 .. n : b ^ (n - i) \in Nat \ {0} /\ g[i] = x \div b ^ (n - i) /\ g[i] \in Nat
  <2> TAKE i \in 0 .. n
  <2>1. n - i \in 0 .. n
    OBVIOUS
  <2>2. b ^ (n - i) \in Nat \ {0}
    BY <2>1, PowerPositive
  <2>3. x \div b ^ (n - i) \in Nat
    BY <2>2, DivMod
  <2>. QED  BY <2>2, <2>3
<1>4. g[0] = 0 /\ g[n] = x
  <2>1. n - 0 = n /\ n - n = 0 /\ b ^ 0 = 1 /\ 0 \in 0 .. n /\ n \in 0 .. n
    BY DEF PowersUpTo
  <2>2. b ^ n \in Nat \ {0}
    BY <1>3, <2>1
  <2>3. x \div b ^ n = 0
    <3>1. x = b ^ n * 0 + x /\ x \in 0 .. b ^ n - 1
      BY <2>2
    <3>. QED  BY <2>2, <3>1, DivModIs
  <2>4. x \div 1 = x
    OBVIOUS
  <2>. QED  BY <1>3, <2>1, <2>3, <2>4
<1>5. ASSUME NEW i \in 1 .. n PROVE g[i] = g[i - 1] * b + w[i]
  <2> DEFINE p == b ^ (n - i)
             y == x \div p
  <2>1. i \in 0 .. n /\ i - 1 \in 0 .. n /\ n - i \in 0 .. n - 1 /\ n - (i - 1) = (n - i) + 1
    OBVIOUS
  <2>2. b ^ (n - (i - 1)) = b * p
    BY <2>1 DEF PowersUpTo
  <2>3. p \in Nat \ {0} /\ y \in Nat
    BY <1>3, <2>1
  <2>4. g[i - 1] = y \div b
    <3>1. g[i - 1] = x \div b ^ (n - (i - 1))
      BY <1>3, <2>1
    <3>2. g[i - 1] = x \div (b * p)
      BY <2>2, <3>1, Zenon
    <3> HIDE DEF p, g
    <3>. QED  BY <2>3, <3>2, DivDiv
  <2>5. w[i] = y % b /\ g[i] = y
    BY <1>1, <1>3, <2>1
  <2> HIDE DEF y, p, g, w
  <2>6. y = b * (y \div b) + (y % b) /\ y \div b \in Nat /\ y % b \in Nat
    <3>1. b \in Nat \ {0} /\ y \in Nat
      BY <2>3
    <3>. QED  BY <3>1, DivMod, Zenon
  <2>7. y = (y \div b) * b + (y % b)
    <3> DEFINE q == y \div b
               r == y % b
    <3>1. y = b * q + r /\ q \in Nat /\ r \in Nat
      BY <2>6
    <3> HIDE DEF q, r
    <3>2. y = q * b + r
      BY <3>1
    <3>. QED  BY <3>2 DEF q, r
  <2>. QED  BY <2>4, <2>5, <2>7, Zenon
<1>6. Values(g, w, b, n)
  BY <1>3, <1>4, <1>5 DEF Values
<1> HIDE DEF g, w
<1>. QED  BY <1>2, <1>4, <1>6, ValueIs DEF w

\* The length of a number is that of the first power above it.
LEMMA LeastPower ==
  ASSUME NEW b \in Nat \ {0}, NEW most \in Nat \ {0}, PowersUpTo(b, most), NEW e \in Nat, e < b ^ most
  PROVE  \E k \in 1 .. most : e < b ^ k /\ (k > 1 => b ^ (k - 1) <= e)
<1> DEFINE T == {k \in 1 .. most : e < b ^ k}
<1>1. T \subseteq Nat /\ most \in T
  OBVIOUS
<1>2. PICK k \in T : \A j \in T : k <= j
  BY <1>1, LeastMember
<1>3. k \in 1 .. most /\ e < b ^ k
  OBVIOUS
<1>4. ASSUME k > 1 PROVE b ^ (k - 1) <= e
  <2>1. k - 1 \in 0 .. most /\ k - 1 \in 1 .. most /\ k - 1 \notin T
    BY <1>2, <1>3, <1>4
  <2>2. b ^ (k - 1) \in Nat
    BY <2>1, PowerType
  <2>. QED  BY <2>1, <2>2
<1>. QED  BY <1>3, <1>4

---------------------------------------------------------------------------
(* Texts put together from pieces *)

AllPieces == [room : Nat, text : Seq(Nat)]
Pieced(p, n) == n \in Nat /\ Len(p) = n /\ \A i \in 1 .. n : p[i] \in AllPieces

\* t is what the first pieces come to, and w what becomes of them in a buffer.
Wholes(t, p, n) == /\ t \in [0 .. n -> Seq(Nat)] /\ t[0] = <<>>
                   /\ \A i \in 1 .. n : t[i] = t[i - 1] \o p[i].text
Writings == [status : {"OK", "BUFFER_TOO_SMALL"}, text : Seq(Nat)]
Unwritten == [status |-> "OK", text |-> <<>>]
Puts(w, p, cap, n) == /\ w \in [0 .. n -> Writings] /\ w[0] = Unwritten
                      /\ \A i \in 1 .. n : w[i] = Put(w[i - 1], p[i], cap)

LEMMA IsPiece ==
  ASSUME NEW x \in AllPieces
  PROVE  x.room \in Nat /\ x.text \in Seq(Nat) /\ Len(x.text) \in Nat
BY DEF AllPieces

LEMMA PutType ==
  ASSUME NEW w \in Writings, NEW x \in AllPieces, NEW cap
  PROVE  Put(w, x, cap) \in Writings
<1>1. w.text \in Seq(Nat) /\ x.text \in Seq(Nat)
  BY DEF Writings, AllPieces
<1>2. w.text \o x.text \in Seq(Nat)
  BY <1>1, Joined
<1>. QED  BY <1>1, <1>2 DEF Put, Writings

Behind(t, x) == t \o x.text
LEMMA WholeSteps ==
  ASSUME NEW p, NEW n, Pieced(p, n)
  PROVE  \E t : Wholes(t, p, n) /\ Whole(p) = t[n]
<1> DEFINE step == [x \in Nat \X Seq(Nat) |-> IF x[1] \in 1 .. n THEN Behind(x[2], p[x[1]]) ELSE <<>>]
           G(h) == [i \in 0 .. n |-> IF i = 0 THEN <<>> ELSE Behind(h[i - 1], p[i])]
<1>1. n \in Nat /\ Len(p) = n /\ \A i \in 1 .. n : p[i].text \in Seq(Nat)
  BY IsPiece DEF Pieced
<1>2. \A i \in 1 .. n, x \in Seq(Nat) : Behind(x, p[i]) \in Seq(Nat)
  BY <1>1, Joined DEF Behind
<1>3. step \in [Nat \X Seq(Nat) -> Seq(Nat)] /\ <<>> \in Seq(Nat)
  BY <1>2, EmptySeq
<1>4. PICK g \in [0 .. n -> Seq(Nat)] : g[0] = <<>> /\ \A i \in 1 .. n : g[i] = step[<<i, g[i - 1]>>]
  <2> HIDE DEF step
  <2>1. \E g \in [0 .. n -> Seq(Nat)] : Recurs(g, <<>>, step, n)
    BY <1>1, <1>3, RecursionExists, Zenon
  <2>. QED  BY <2>1 DEF Recurs
<1>5. \A i \in 1 .. n : g[i] = Behind(g[i - 1], p[i])
  <2> TAKE i \in 1 .. n
  <2>1. i \in Nat /\ i - 1 \in 0 .. n
    BY <1>1
  <2>2. g[i - 1] \in Seq(Nat)
    BY <1>4, <2>1
  <2>. QED  BY <1>4, <2>1, <2>2
<1> HIDE DEF step
<1>6. g = G(g)
  <2>1. \A i \in 0 .. n : g[i] = G(g)[i]
    BY <1>1, <1>4, <1>5, SMTT(60)
  <2>2. g = [i \in 0 .. n |-> g[i]]
    BY <1>4
  <2>3. G(g) = [i \in 0 .. n |-> G(g)[i]]
    OBVIOUS
  <2> HIDE DEF G
  <2>. QED  BY <2>1, <2>2, <2>3
<1> DEFINE f == CHOOSE h : h = G(h)
<1>7. f = G(f)
  <2> HIDE DEF G
  <2>. QED  BY <1>6, Zenon
<1>8. Whole(p) = f[n]
  BY <1>1, Zenon DEF Whole, Behind
<1> HIDE DEF f
<1>9. f[n] = g[n]
  <2>0. f[0] = <<>> /\ \A i \in 1 .. n : f[i] = Behind(f[i - 1], p[i])
    <3>1. ASSUME NEW i \in 0 .. n PROVE f[i] = IF i = 0 THEN <<>> ELSE Behind(f[i - 1], p[i])
      <4>1. G(f)[i] = IF i = 0 THEN <<>> ELSE Behind(f[i - 1], p[i])
        OBVIOUS
      <4> HIDE DEF G
      <4>2. f[i] = G(f)[i]
        BY <1>7
      <4>. QED  BY <4>1, <4>2
    <3>. QED  BY <1>1, <3>1
  <2> HIDE DEF G
  <2>1. f[0] = g[0]
    BY <1>4, <2>0
  <2>2. ASSUME NEW i \in 0 .. n - 1, f[i] = g[i] PROVE f[i + 1] = g[i + 1]
    <3>1. i + 1 \in 1 .. n /\ (i + 1) - 1 = i
      BY <1>1
    <3>2. f[i + 1] = Behind(f[(i + 1) - 1], p[i + 1])
      BY <2>0, <3>1, Zenon
    <3>3. g[i + 1] = Behind(g[(i + 1) - 1], p[i + 1])
      BY <1>5, <3>1, Zenon
    <3>. QED  BY <2>2, <3>1, <3>2, <3>3, Zenon
  <2>. QED  BY <1>1, <2>1, <2>2, SameRecursion
<1>10. Wholes(g, p, n)
  BY <1>4, <1>5 DEF Wholes, Behind
<1>. QED  BY <1>8, <1>9, <1>10

LEMMA WrittenSteps ==
  ASSUME NEW p, NEW n, Pieced(p, n), NEW cap
  PROVE  \E w : Puts(w, p, cap, n) /\ Written(p, cap) = w[n]
<1> DEFINE step == [x \in Nat \X Writings |->
                      IF x[1] \in 1 .. n THEN Put(x[2], p[x[1]], cap) ELSE Unwritten]
           G(h) == [i \in 0 .. n |-> IF i = 0 THEN Unwritten ELSE Put(h[i - 1], p[i], cap)]
<1>1. n \in Nat /\ Len(p) = n /\ \A i \in 1 .. n : p[i] \in AllPieces
  BY DEF Pieced
<1>2. \A i \in 1 .. n, x \in Writings : Put(x, p[i], cap) \in Writings
  BY <1>1, PutType
<1>3. step \in [Nat \X Writings -> Writings] /\ Unwritten \in Writings
  <2>1. Unwritten \in Writings
    BY EmptySeq DEF Unwritten, Writings
  <2>. QED  BY <1>2, <2>1
<1>4. PICK g \in [0 .. n -> Writings] : g[0] = Unwritten /\ \A i \in 1 .. n : g[i] = step[<<i, g[i - 1]>>]
  <2> HIDE DEF step
  <2>1. \E g \in [0 .. n -> Writings] : Recurs(g, Unwritten, step, n)
    BY <1>1, <1>3, RecursionExists, Zenon
  <2>. QED  BY <2>1 DEF Recurs
<1>5. \A i \in 1 .. n : g[i] = Put(g[i - 1], p[i], cap)
  <2> TAKE i \in 1 .. n
  <2>1. i \in Nat /\ i - 1 \in 0 .. n
    BY <1>1
  <2>2. g[i - 1] \in Writings
    BY <1>4, <2>1
  <2>. QED  BY <1>4, <2>1, <2>2
<1> HIDE DEF step
<1>6. g = G(g)
  <2>1. \A i \in 0 .. n : g[i] = G(g)[i]
    BY <1>1, <1>4, <1>5
  <2>2. g = [i \in 0 .. n |-> g[i]]
    BY <1>4
  <2>3. G(g) = [i \in 0 .. n |-> G(g)[i]]
    OBVIOUS
  <2> HIDE DEF G
  <2>. QED  BY <2>1, <2>2, <2>3
<1> DEFINE f == CHOOSE h : h = G(h)
<1>7. f = G(f)
  <2> HIDE DEF G
  <2>. QED  BY <1>6, Zenon
<1>8. Written(p, cap) = f[n]
  BY <1>1, Zenon DEF Written, Unwritten
<1> HIDE DEF f
<1>9. f[n] = g[n]
  <2>0. f[0] = Unwritten /\ \A i \in 1 .. n : f[i] = Put(f[i - 1], p[i], cap)
    <3>1. \A i \in 0 .. n : f[i] = G(f)[i]
      <4> HIDE DEF G
      <4>. QED  BY <1>7
    <3>. QED  BY <1>1, <3>1
  <2> HIDE DEF G
  <2>1. f[0] = g[0]
    BY <1>4, <2>0
  <2>2. ASSUME NEW i \in 0 .. n - 1, f[i] = g[i] PROVE f[i + 1] = g[i + 1]
    <3>1. i + 1 \in 1 .. n /\ (i + 1) - 1 = i
      BY <1>1
    <3>2. f[i + 1] = Put(f[(i + 1) - 1], p[i + 1], cap)
      BY <2>0, <3>1, Zenon
    <3>3. g[i + 1] = Put(g[(i + 1) - 1], p[i + 1], cap)
      BY <1>5, <3>1, Zenon
    <3>. QED  BY <2>2, <3>1, <3>2, <3>3, Zenon
  <2>. QED  BY <1>1, <2>1, <2>2, SameRecursion
<1>10. Puts(g, p, cap, n)
  BY <1>4, <1>5 DEF Puts
<1>. QED  BY <1>8, <1>9, <1>10

\* A text grows piece by piece.
LEMMA WholeGrows ==
  ASSUME NEW p, NEW n, Pieced(p, n), NEW t, Wholes(t, p, n)
  PROVE  /\ n \in Nat /\ \A i \in 0 .. n : Len(t[i]) \in Nat
         /\ \A i \in 1 .. n : /\ Len(t[i]) = Len(t[i - 1]) + Len(p[i].text)
                             /\ Len(p[i].text) \in Nat /\ p[i].room \in Nat
<1>1. n \in Nat
  BY DEF Pieced
<1>2. \A i \in 0 .. n : t[i] \in Seq(Nat) /\ Len(t[i]) \in Nat
  <2> TAKE i \in 0 .. n
  <2>1. t[i] \in Seq(Nat)
    BY DEF Wholes
  <2>. QED  BY <2>1, LenProperties
<1>3. ASSUME NEW i \in 1 .. n
      PROVE  /\ Len(t[i]) = Len(t[i - 1]) + Len(p[i].text)
             /\ Len(p[i].text) \in Nat /\ p[i].room \in Nat
  <2>1. p[i] \in AllPieces /\ i - 1 \in 0 .. n
    BY <1>1 DEF Pieced
  <2>2. p[i].text \in Seq(Nat) /\ Len(p[i].text) \in Nat /\ p[i].room \in Nat
    BY <2>1, IsPiece
  <2>3. t[i] = t[i - 1] \o p[i].text /\ t[i - 1] \in Seq(Nat)
    BY <1>2, <2>1 DEF Wholes
  <2>. QED  BY <2>2, <2>3, Joined
<1>. QED  BY <1>1, <1>2, <1>3

LEMMA WholeOrder ==
  ASSUME NEW p, NEW n, Pieced(p, n), NEW t, Wholes(t, p, n), NEW i \in 0 .. n
  PROVE  \A j \in i .. n : Len(t[i]) <= Len(t[j])
<1>1. /\ n \in Nat /\ \A j \in 0 .. n : Len(t[j]) \in Nat
      /\ \A j \in 1 .. n : Len(t[j]) = Len(t[j - 1]) + Len(p[j].text) /\ Len(p[j].text) \in Nat
  BY WholeGrows
<1> DEFINE T == {k \in Nat : Len(t[i]) <= Len(t[i + k])}
<1>2. 0 \in T
  BY <1>1
<1>3. \A k \in 0 .. (n - i) - 1 : k \in T => k + 1 \in T
  <2> SUFFICES ASSUME NEW k \in 0 .. (n - i) - 1, k \in T PROVE k + 1 \in T
    OBVIOUS
  <2>1. i + (k + 1) \in 1 .. n /\ (i + (k + 1)) - 1 = i + k /\ i + k \in 0 .. n /\ i \in 0 .. n
    BY <1>1
  <2>2. Len(t[i + (k + 1)]) = Len(t[i + k]) + Len(p[i + (k + 1)].text) /\ Len(p[i + (k + 1)].text) \in Nat
    BY <1>1, <2>1
  <2>3. Len(t[i]) \in Nat /\ Len(t[i + k]) \in Nat /\ Len(t[i]) <= Len(t[i + k])
    BY <1>1, <2>1
  <2> DEFINE a == Len(t[i])
             b == Len(t[i + k])
             c == Len(p[i + (k + 1)].text)
             d == Len(t[i + (k + 1)])
  <2>4. a \in Nat /\ b \in Nat /\ c \in Nat /\ a <= b /\ d = b + c
    BY <2>2, <2>3
  <2> HIDE DEF a, b, c, d
  <2>5. a <= d
    BY <2>4
  <2>6. k + 1 \in Nat
    OBVIOUS
  <2>. QED  BY <2>5, <2>6 DEF a, d
<1> HIDE DEF T
<1>4. n - i \in Nat
  BY <1>1
<1>5. 0 .. n - i \subseteq T
  BY <1>2, <1>3, <1>4, InductionUpTo
<1>6. ASSUME NEW j \in i .. n PROVE Len(t[i]) <= Len(t[j])
  <2>1. j - i \in 0 .. n - i /\ i + (j - i) = j
    BY <1>1
  <2>. QED  BY <1>5, <2>1 DEF T
<1>. QED  BY <1>6

\* Either every piece found room and all of the text is there, or some piece did not.
LEMMA WrittenIs ==
  ASSUME NEW p, NEW n, Pieced(p, n), NEW t, Wholes(t, p, n), NEW cap \in Nat
  PROVE  LET r == Written(p, cap)
         IN  \/ /\ r.status = "OK" /\ r.text = t[n]
                /\ \A i \in 1 .. n : Len(t[i - 1]) + p[i].room <= cap
             \/ /\ r.status = "BUFFER_TOO_SMALL"
                /\ \E i \in 1 .. n : /\ r.text = t[i - 1] /\ Len(t[i - 1]) + p[i].room > cap
                                    /\ \A j \in 1 .. i - 1 : Len(t[j - 1]) + p[j].room <= cap
<1>1. PICK w : Puts(w, p, cap, n) /\ Written(p, cap) = w[n]
  BY WrittenSteps
<1>2. /\ n \in Nat /\ \A i \in 0 .. n : Len(t[i]) \in Nat
      /\ \A i \in 1 .. n : /\ Len(t[i]) = Len(t[i - 1]) + Len(p[i].text)
                          /\ Len(p[i].text) \in Nat /\ p[i].room \in Nat
  BY WholeGrows
<1> DEFINE Good(r, k) == /\ r.status = "OK" /\ r.text = t[k]
                         /\ \A i \in 1 .. k : Len(t[i - 1]) + p[i].room <= cap
           Bad(r, k) == /\ r.status = "BUFFER_TOO_SMALL"
                        /\ \E i \in 1 .. k : /\ r.text = t[i - 1] /\ Len(t[i - 1]) + p[i].room > cap
                                            /\ \A j \in 1 .. i - 1 : Len(t[j - 1]) + p[j].room <= cap
           T == {k \in Nat : Good(w[k], k) \/ Bad(w[k], k)}
<1>3. 0 \in T
  <2>1. w[0] = [status |-> "OK", text |-> <<>>] /\ t[0] = <<>>
    BY <1>1 DEF Puts, Wholes, Unwritten
  <2>. QED  BY <2>1
<1>4. \A k \in 0 .. n - 1 : k \in T => k + 1 \in T
  <2> SUFFICES ASSUME NEW k \in 0 .. n - 1, k \in T PROVE k + 1 \in T
    OBVIOUS
  <2>1. k + 1 \in 1 .. n /\ (k + 1) - 1 = k /\ k \in 0 .. n /\ k + 1 \in Nat
    BY <1>2
  <2>2. w[k + 1] = Put(w[k], p[k + 1], cap) /\ t[k + 1] = t[k] \o p[k + 1].text
    BY <1>1, <2>1 DEF Puts, Wholes
  <2>3. Len(t[k]) \in Nat /\ p[k + 1].room \in Nat
    BY <1>2, <2>1
  <2>4. CASE Good(w[k], k) /\ Len(t[k]) + p[k + 1].room <= cap
    <3>0. w[k].status = "OK" /\ w[k].text = t[k] /\ Len(t[k]) + p[k + 1].room <= cap
      BY <2>4
    <3>1. w[k + 1].status = "OK" /\ w[k + 1].text = t[k + 1]
      <4>1. Len(w[k].text) + p[k + 1].room <= cap
        BY <3>0
      <4>2. Put(w[k], p[k + 1], cap) = [status |-> "OK", text |-> w[k].text \o p[k + 1].text]
        BY <3>0, <4>1, Zenon DEF Put
      <4>3. w[k + 1] = [status |-> "OK", text |-> t[k + 1]]
        BY <2>2, <3>0, <4>2, Zenon
      <4>. QED  BY <4>3
    <3>2. ASSUME NEW i \in 1 .. k + 1 PROVE Len(t[i - 1]) + p[i].room <= cap
      <4>1. CASE i = k + 1
        BY <2>1, <2>4, <4>1
      <4>2. CASE i # k + 1
        <5>1. i \in 1 .. k
          BY <4>2
        <5>. QED  BY <2>4, <5>1
      <4>. QED  BY <4>1, <4>2
    <3>. QED  BY <2>1, <3>1, <3>2
  <2>5. CASE Good(w[k], k) /\ ~ (Len(t[k]) + p[k + 1].room <= cap)
    <3>1. w[k + 1].status = "BUFFER_TOO_SMALL" /\ w[k + 1].text = t[k]
      BY <2>2, <2>5 DEF Put
    <3>2. Len(t[k]) + p[k + 1].room > cap
      BY <2>3, <2>5
    <3>3. \A j \in 1 .. k : Len(t[j - 1]) + p[j].room <= cap
      BY <2>5
    <3>4. k + 1 \in 1 .. k + 1
      BY <2>1
    <3>5. Bad(w[k + 1], k + 1)
      BY <2>1, <3>1, <3>2, <3>3, <3>4
    <3>. QED  BY <2>1, <3>5
  <2>6. CASE Bad(w[k], k)
    <3>1. w[k + 1].status = "BUFFER_TOO_SMALL" /\ w[k + 1].text = w[k].text
      BY <2>2, <2>6 DEF Put
    <3>2. PICK i \in 1 .. k : /\ w[k].text = t[i - 1] /\ Len(t[i - 1]) + p[i].room > cap
                              /\ \A j \in 1 .. i - 1 : Len(t[j - 1]) + p[j].room <= cap
      BY <2>6
    <3>3. i \in 1 .. k + 1
      BY <2>1
    <3>4. Bad(w[k + 1], k + 1)
      BY <3>1, <3>2, <3>3
    <3>. QED  BY <2>1, <3>4
  <2>. QED  BY <2>4, <2>5, <2>6
<1> HIDE DEF T
<1>5. 0 .. n \subseteq T
  BY <1>2, <1>3, <1>4, InductionUpTo
<1>6. n \in T
  BY <1>2, <1>5
<1>. QED  BY <1>1, <1>6 DEF T

\* Pieces that ask for the room they take, the last of them for more, stay in the buffer.
LEMMA WrittenFits ==
  ASSUME NEW p, NEW n, Pieced(p, n), NEW cap \in Nat, n > 0,
         \A i \in 1 .. n : Len(p[i].text) <= p[i].room, Len(p[n].text) < p[n].room
  PROVE  /\ Len(Written(p, cap).text) <= cap
         /\ Written(p, cap).status = "OK" => Len(Written(p, cap).text) < cap
         /\ Written(p, cap).status = "OK" => Written(p, cap).text = Whole(p)
         /\ Written(p, cap).status \in {"OK", "BUFFER_TOO_SMALL"}
<1>1. PICK t : Wholes(t, p, n) /\ Whole(p) = t[n]
  BY WholeSteps
<1>2. /\ n \in Nat /\ \A i \in 0 .. n : Len(t[i]) \in Nat
      /\ \A i \in 1 .. n : /\ Len(t[i]) = Len(t[i - 1]) + Len(p[i].text)
                          /\ Len(p[i].text) \in Nat /\ p[i].room \in Nat
  BY <1>1, WholeGrows
<1> DEFINE r == Written(p, cap)
<1>3. \/ /\ r.status = "OK" /\ r.text = t[n]
         /\ \A i \in 1 .. n : Len(t[i - 1]) + p[i].room <= cap
      \/ /\ r.status = "BUFFER_TOO_SMALL"
         /\ \E i \in 1 .. n : /\ r.text = t[i - 1] /\ Len(t[i - 1]) + p[i].room > cap
                             /\ \A j \in 1 .. i - 1 : Len(t[j - 1]) + p[j].room <= cap
  BY <1>1, WrittenIs
<1> HIDE DEF r
<1>4. ASSUME NEW i \in 1 .. n, Len(t[i - 1]) + p[i].room <= cap
      PROVE  Len(t[i]) <= cap /\ (i = n => Len(t[i]) < cap)
  <2> DEFINE a == Len(t[i - 1])
             b == p[i].room
             c == Len(p[i].text)
             d == Len(t[i])
  <2>1. i - 1 \in 0 .. n
    BY <1>2
  <2>2. a \in Nat /\ b \in Nat /\ c \in Nat /\ d = a + c /\ c <= b /\ a + b <= cap
    BY <1>2, <1>4, <2>1
  <2>3. i = n => c < b
    OBVIOUS
  <2> HIDE DEF a, b, c, d
  <2>4. d <= cap /\ (i = n => d < cap)
    BY <2>2, <2>3
  <2>. QED  BY <2>4 DEF d
<1>5. CASE /\ r.status = "OK" /\ r.text = t[n]
           /\ \A i \in 1 .. n : Len(t[i - 1]) + p[i].room <= cap
  <2>1. n \in 1 .. n
    BY <1>2
  <2>2. Len(t[n]) <= cap /\ Len(t[n]) < cap
    BY <1>4, <1>5, <2>1
  <2>. QED  BY <1>1, <1>5, <2>2 DEF r
<1>6. CASE /\ r.status = "BUFFER_TOO_SMALL"
           /\ \E i \in 1 .. n : /\ r.text = t[i - 1] /\ Len(t[i - 1]) + p[i].room > cap
                               /\ \A j \in 1 .. i - 1 : Len(t[j - 1]) + p[j].room <= cap
  <2>1. PICK i \in 1 .. n : /\ r.text = t[i - 1]
                            /\ \A j \in 1 .. i - 1 : Len(t[j - 1]) + p[j].room <= cap
    BY <1>6
  <2>2. Len(t[i - 1]) <= cap
    <3>1. CASE i = 1
      <4>1. t[i - 1] = <<>>
        BY <1>1, <3>1 DEF Wholes
      <4>. QED  BY <4>1
    <3>2. CASE i # 1
      <4>1. i - 1 \in 1 .. i - 1 /\ i - 1 \in 1 .. n
        BY <1>2, <3>2
      <4>2. Len(t[(i - 1) - 1]) + p[i - 1].room <= cap
        BY <2>1, <4>1
      <4>. QED  BY <1>4, <4>1, <4>2
    <3>. QED  BY <3>1, <3>2
  <2>. QED  BY <1>6, <2>1, <2>2 DEF r
<1>. QED  BY <1>3, <1>5, <1>6

\* A refused buffer is not much larger than a text whose pieces ask for little more.
LEMMA RefusedIsSmall ==
  ASSUME NEW p, NEW n, Pieced(p, n), NEW cap \in Nat, NEW t, Wholes(t, p, n), Whole(p) = t[n],
         \A i \in 1 .. n : Len(t[i - 1]) + p[i].room <= 2 * Len(t[n]) + 1,
         Written(p, cap).status = "BUFFER_TOO_SMALL"
  PROVE  cap <= 2 * Len(Whole(p))
<1>1. PICK i \in 1 .. n : Len(t[i - 1]) + p[i].room > cap
  BY WrittenIs
<1>2. n \in Nat /\ Len(t[n]) \in Nat /\ Len(t[i - 1]) \in Nat /\ p[i].room \in Nat
  <2>1. n \in 0 .. n /\ i - 1 \in 0 .. n
    BY DEF Pieced
  <2>. QED  BY <2>1, WholeGrows
<1>3. Len(t[i - 1]) + p[i].room <= 2 * Len(t[n]) + 1
  OBVIOUS
<1> DEFINE a == Len(t[i - 1]) + p[i].room
           d == Len(t[n])
<1>4. a \in Nat /\ d \in Nat /\ a > cap /\ a <= 2 * d + 1
  BY <1>1, <1>2, <1>3
<1> HIDE DEF a, d
<1>5. cap <= 2 * d
  BY <1>4
<1>. QED  BY <1>5 DEF d

\* The pieces of a sequence.
LEMMA PiecedSeq ==
  ASSUME NEW p \in Seq(AllPieces)
  PROVE  Pieced(p, Len(p))
<1>1. Len(p) \in Nat /\ \A i \in 1 .. Len(p) : p[i] \in AllPieces
  BY LenProperties, ElementOfSeq
<1>. QED  BY <1>1 DEF Pieced

LEMMA WholeType ==
  ASSUME NEW p \in Seq(AllPieces)
  PROVE  Whole(p) \in Seq(Nat)
<1>1. Pieced(p, Len(p)) /\ Len(p) \in Nat
  BY PiecedSeq DEF Pieced
<1>2. PICK t : Wholes(t, p, Len(p)) /\ Whole(p) = t[Len(p)]
  BY <1>1, WholeSteps
<1>. QED  BY <1>1, <1>2 DEF Wholes

LEMMA WholeNone == Whole(<<>>) = <<>>
<1>1. Pieced(<<>>, 0)
  BY DEF Pieced
<1>2. PICK t : Wholes(t, <<>>, 0) /\ Whole(<<>>) = t[0]
  BY <1>1, WholeSteps
<1>. QED  BY <1>2 DEF Wholes

LEMMA WholeOne ==
  ASSUME NEW x \in AllPieces
  PROVE  Whole(<<x>>) = x.text
<1> DEFINE p == <<x>>
<1>1. Len(p) = 1 /\ p[1] = x
  OBVIOUS
<1> HIDE DEF p
<1>2. Pieced(p, 1)
  BY <1>1 DEF Pieced
<1>3. PICK t : Wholes(t, p, 1) /\ Whole(p) = t[1]
  BY <1>2, WholeSteps
<1>4. t[1] = <<>> \o x.text
  <2>1. 1 \in 1 .. 1 /\ 1 - 1 = 0
    OBVIOUS
  <2>2. t[1] = t[1 - 1] \o p[1].text /\ t[0] = <<>>
    BY <1>3, <2>1 DEF Wholes
  <2>. QED  BY <1>1, <2>1, <2>2
<1>5. x.text \in Seq(Nat)
  BY DEF AllPieces
<1>. QED  BY <1>3, <1>4, <1>5, ConcatEmptySeq DEF p

LEMMA Grouping ==
  ASSUME NEW u \in Seq(Nat), NEW v \in Seq(Nat), NEW w \in Seq(Nat)
  PROVE  (u \o v) \o w = u \o (v \o w)
BY ConcatAssociative, SMTT(60)

LEMMA Joining ==
  ASSUME NEW u \in Seq(Nat), NEW v \in Seq(Nat)
  PROVE  u \o v \in Seq(Nat) /\ Len(u \o v) = Len(u) + Len(v)
BY Joined

LEMMA WholePrefix ==
  ASSUME NEW p \in Seq(AllPieces), NEW q \in Seq(AllPieces),
         NEW v, Wholes(v, p \o q, Len(p) + Len(q))
  PROVE  v[Len(p)] = Whole(p)
<1> DEFINE r == p \o q
           k == Len(p)
           n == Len(q)
<1>1. k \in Nat /\ n \in Nat /\ \A i \in 1 .. k : r[i] = p[i]
  BY Joined
<1>2. Pieced(p, k)
  BY PiecedSeq
<1>3. Wholes(v, r, k + n)
  OBVIOUS
<1> HIDE DEF r, k, n
<1>4. PICK t : Wholes(t, p, k) /\ Whole(p) = t[k]
  BY <1>2, WholeSteps
<1>5. v[0] = t[0]
  BY <1>3, <1>4 DEF Wholes
<1>6. ASSUME NEW i \in 0 .. k - 1, v[i] = t[i] PROVE v[i + 1] = t[i + 1]
  <2>1. i + 1 \in 1 .. k /\ i + 1 \in 1 .. k + n /\ (i + 1) - 1 = i
    BY <1>1
  <2>2. v[i + 1] = v[(i + 1) - 1] \o r[i + 1].text
    BY <1>3, <2>1, Zenon DEF Wholes
  <2>3. t[i + 1] = t[(i + 1) - 1] \o p[i + 1].text
    BY <1>4, <2>1, Zenon DEF Wholes
  <2>4. r[i + 1] = p[i + 1]
    BY <1>1, <2>1
  <2>. QED  BY <1>6, <2>1, <2>2, <2>3, <2>4, Zenon
<1>7. v[k] = t[k]
  BY <1>1, <1>5, <1>6, SameRecursion
<1>. QED  BY <1>4, <1>7 DEF k

LEMMA WholeConcat ==
  ASSUME NEW p \in Seq(AllPieces), NEW q \in Seq(AllPieces)
  PROVE  /\ p \o q \in Seq(AllPieces)
         /\ Whole(p \o q) = Whole(p) \o Whole(q)
<1> DEFINE r == p \o q
           k == Len(p)
           n == Len(q)
<1>1. /\ r \in Seq(AllPieces) /\ k \in Nat /\ n \in Nat /\ Len(r) = k + n
      /\ \A i \in 1 .. k : r[i] = p[i]
      /\ \A i \in 1 .. n : r[k + i] = q[i]
  BY Joined
<1>2. Pieced(p, k) /\ Pieced(q, n) /\ Pieced(r, k + n)
  <2>1. Pieced(r, Len(r))
    BY <1>1, PiecedSeq
  <2>. QED  BY <1>1, <2>1, PiecedSeq
<1> HIDE DEF r, k, n
<1>3. PICK t : Wholes(t, p, k) /\ Whole(p) = t[k]
  BY <1>2, WholeSteps
<1>4. PICK u : Wholes(u, q, n) /\ Whole(q) = u[n]
  BY <1>2, WholeSteps
<1>5. PICK v : Wholes(v, r, k + n) /\ Whole(r) = v[k + n]
  BY <1>2, WholeSteps
<1>6. v[k] = t[k]
  <2>1. Wholes(v, p \o q, Len(p) + Len(q))
    BY <1>5 DEF r, k, n
  <2>. QED  BY <1>3, <2>1, WholePrefix DEF k
<1> DEFINE g == [j \in 0 .. n |-> v[k + j]]
           h == [j \in 0 .. n |-> t[k] \o u[j]]
<1>7. t[k] \in Seq(Nat) /\ \A j \in 0 .. n : u[j] \in Seq(Nat)
  <2>1. k \in 0 .. k
    BY <1>1
  <2>. QED  BY <1>3, <1>4, <2>1 DEF Wholes
<1>8. g[0] = h[0]
  <2>1. 0 \in 0 .. n /\ k + 0 = k
    BY <1>1
  <2>2. u[0] = <<>>
    BY <1>4 DEF Wholes
  <2>3. t[k] \o <<>> = t[k]
    BY <1>7, ConcatEmptySeq
  <2>. QED  BY <1>6, <2>1, <2>2, <2>3
<1>9. ASSUME NEW j \in 0 .. n - 1, g[j] = h[j] PROVE g[j + 1] = h[j + 1]
  <2>1. /\ j + 1 \in 1 .. n /\ j + 1 \in 0 .. n /\ j \in 0 .. n /\ (j + 1) - 1 = j
        /\ k + (j + 1) \in 1 .. k + n /\ (k + (j + 1)) - 1 = k + j
    <3>1. k \in Nat /\ n \in Nat
      BY <1>1
    <3> HIDE DEF g, h
    <3>. QED  BY <3>1
  <2>2. v[k + (j + 1)] = v[(k + (j + 1)) - 1] \o r[k + (j + 1)].text
    BY <1>5, <2>1, Zenon DEF Wholes
  <2>3. u[j + 1] = u[(j + 1) - 1] \o q[j + 1].text
    BY <1>4, <2>1, Zenon DEF Wholes
  <2>4. r[k + (j + 1)] = q[j + 1]
    BY <1>1, <2>1
  <2>5. v[k + j] = t[k] \o u[j]
    BY <1>9, <2>1
  <2>6. q[j + 1].text \in Seq(Nat)
    <3>1. q[j + 1] \in AllPieces
      BY <1>2, <2>1 DEF Pieced
    <3>. QED  BY <3>1 DEF AllPieces
  <2>7. (t[k] \o u[j]) \o q[j + 1].text = t[k] \o (u[j] \o q[j + 1].text)
    <3>1. t[k] \in Seq(Nat) /\ u[j] \in Seq(Nat)
      BY <1>7, <2>1
    <3> HIDE DEF g, h
    <3>. QED  BY <2>6, <3>1, Grouping, Zenon
  <2>8. v[k + (j + 1)] = t[k] \o u[j + 1]
    BY <2>1, <2>2, <2>3, <2>4, <2>5, <2>7, Zenon
  <2>. QED  BY <2>1, <2>8
<1>10. g[n] = h[n]
  <2> HIDE DEF g, h
  <2>. QED  BY <1>1, <1>8, <1>9, SameRecursion
<1>11. v[k + n] = t[k] \o u[n]
  <2>1. n \in 0 .. n
    BY <1>1
  <2>. QED  BY <1>10, <2>1
<1>. QED  BY <1>1, <1>3, <1>4, <1>5, <1>11, Zenon DEF r

\* The room asked for a piece holds it, and is hardly more than it needs: no more than the
\* piece once again, one symbol, and twice the e symbols that are known to follow.
Ample(x, e) == Len(x.text) <= x.room /\ x.room <= 2 * Len(x.text) + 1 + 2 * e
Sound(p, e) == p \in Seq(AllPieces) /\ \A i \in 1 .. Len(p) : Ample(p[i], e)

LEMMA SoundOne ==
  ASSUME NEW room \in Nat, NEW text \in Seq(Nat), NEW e \in Nat,
         Len(text) <= room, room <= 2 * Len(text) + 1 + 2 * e
  PROVE  /\ Sound(<<Piece(room, text)>>, e) /\ Whole(<<Piece(room, text)>>) = text
         /\ Len(<<Piece(room, text)>>) = 1 /\ <<Piece(room, text)>>[1].text = text
         /\ <<Piece(room, text)>>[1].room = room
<1> DEFINE x == Piece(room, text)
<1>1. x \in AllPieces /\ x.text = text /\ x.room = room
  BY DEF Piece, AllPieces
<1>2. Ample(x, e)
  BY <1>1 DEF Ample
<1> HIDE DEF x
<1>3. <<x>> \in Seq(AllPieces) /\ Len(<<x>>) = 1 /\ <<x>>[1] = x
  BY <1>1
<1>4. \A i \in 1 .. Len(<<x>>) : <<x>>[i] = x
  <2>1. \A i \in 1 .. Len(<<x>>) : i = 1
    BY <1>3
  <2>. QED  BY <1>3, <2>1
<1>5. Sound(<<x>>, e)
  BY <1>2, <1>3, <1>4, Zenon DEF Sound
<1>6. Whole(<<x>>) = text
  BY <1>1, WholeOne
<1>. QED  BY <1>1, <1>3, <1>5, <1>6 DEF x

LEMMA SoundNone ==
  ASSUME NEW e
  PROVE  Sound(<<>>, e)
<1>1. <<>> \in Seq(AllPieces) /\ Len(<<>>) = 0
  BY EmptySeq
<1>2. \A i \in 1 .. Len(<<>>) : FALSE
  BY <1>1
<1>. QED  BY <1>1, <1>2, Zenon DEF Sound

LEMMA SoundMore ==
  ASSUME NEW p, NEW e \in Nat, NEW f \in Nat, e <= f, Sound(p, e)
  PROVE  Sound(p, f)
<1>1. ASSUME NEW i \in 1 .. Len(p) PROVE Ample(p[i], f)
  <2> DEFINE l == Len(p[i].text)
             r == p[i].room
  <2>1. Ample(p[i], e) /\ p[i] \in AllPieces
    BY ElementOfSeq DEF Sound
  <2>2. l \in Nat /\ r \in Nat
    BY <2>1, IsPiece
  <2>3. l <= r /\ r <= 2 * l + 1 + 2 * e
    BY <2>1 DEF Ample
  <2> HIDE DEF l, r
  <2>4. l <= r /\ r <= 2 * l + 1 + 2 * f
    BY <2>2, <2>3
  <2>. QED  BY <2>4 DEF Ample, l, r
<1>. QED  BY <1>1 DEF Sound

LEMMA SoundConcat ==
  ASSUME NEW p, NEW q, NEW e, Sound(p, e), Sound(q, e)
  PROVE  /\ Sound(p \o q, e) /\ Whole(p \o q) = Whole(p) \o Whole(q)
         /\ Whole(p) \in Seq(Nat) /\ Whole(q) \in Seq(Nat)
         /\ Len(Whole(p \o q)) = Len(Whole(p)) + Len(Whole(q))
<1> DEFINE r == p \o q
           k == Len(p)
           n == Len(q)
<1>1. p \in Seq(AllPieces) /\ q \in Seq(AllPieces)
  BY DEF Sound
<1>2. /\ r \in Seq(AllPieces) /\ k \in Nat /\ n \in Nat /\ Len(r) = k + n
      /\ \A i \in 1 .. k : r[i] = p[i]
      /\ \A i \in 1 .. n : r[k + i] = q[i]
  BY <1>1, Joined
<1>3. (\A i \in 1 .. k : Ample(p[i], e)) /\ (\A i \in 1 .. n : Ample(q[i], e))
  BY DEF Sound
<1> HIDE DEF r, k, n
<1>4. ASSUME NEW i \in 1 .. Len(r) PROVE Ample(r[i], e)
  <2>1. CASE i <= k
    <3>1. i \in 1 .. k
      BY <1>2, <2>1
    <3>. QED  BY <1>2, <1>3, <3>1
  <2>2. CASE i > k
    <3>1. i - k \in 1 .. n /\ k + (i - k) = i
      BY <1>2, <2>2
    <3>2. r[i] = q[i - k]
      BY <1>2, <3>1
    <3>. QED  BY <1>3, <3>1, <3>2
  <2>. QED  BY <1>2, <2>1, <2>2
<1>5. Sound(r, e)
  BY <1>2, <1>4 DEF Sound
<1>6. Whole(p) \in Seq(Nat) /\ Whole(q) \in Seq(Nat) /\ Whole(r) = Whole(p) \o Whole(q)
  BY <1>1, WholeType, WholeConcat DEF r
<1>7. Len(Whole(r)) = Len(Whole(p)) + Len(Whole(q))
  BY <1>6, Joined
<1>. QED  BY <1>5, <1>6, <1>7 DEF r

\* A buffer is never left, and none much larger than the text is refused.
LEMMA BufferHolds ==
  ASSUME NEW u, NEW v, NEW e \in Nat, Sound(u, e), Sound(v, 0), e <= Len(Whole(v)), Len(v) > 0,
         Len(v[Len(v)].text) < v[Len(v)].room, NEW cap \in Nat
  PROVE  /\ Len(Written(u \o v, cap).text) <= cap
         /\ Written(u \o v, cap).status = "OK" =>
              /\ Len(Written(u \o v, cap).text) < cap
              /\ Written(u \o v, cap).text = Whole(u \o v)
         /\ Written(u \o v, cap).status = "BUFFER_TOO_SMALL" => cap <= 2 * Len(Whole(u \o v))
         /\ Written(u \o v, cap).status \in {"OK", "BUFFER_TOO_SMALL"}
<1> DEFINE p == u \o v
           k == Len(u)
           n == Len(v)
           m == k + n
<1>1. u \in Seq(AllPieces) /\ v \in Seq(AllPieces)
  BY DEF Sound
<1>2. /\ p \in Seq(AllPieces) /\ k \in Nat /\ n \in Nat /\ Len(p) = m
      /\ \A i \in 1 .. k : p[i] = u[i]
      /\ \A i \in 1 .. n : p[k + i] = v[i]
  BY <1>1, Joined
<1>3. /\ \A i \in 1 .. k : Ample(u[i], e)
      /\ \A i \in 1 .. n : Ample(v[i], 0)
  BY DEF Sound
<1>4. n > 0 /\ Len(v[n].text) < v[n].room
  OBVIOUS
<1>5. Whole(u) \in Seq(Nat) /\ Whole(v) \in Seq(Nat) /\ Len(Whole(p)) = Len(Whole(u)) + Len(Whole(v))
      /\ Len(Whole(u)) \in Nat /\ Len(Whole(v)) \in Nat
  <2>1. Whole(u) \in Seq(Nat) /\ Whole(v) \in Seq(Nat) /\ Whole(p) = Whole(u) \o Whole(v)
    BY <1>1, WholeType, WholeConcat
  <2>. QED  BY <2>1, Joined
<1>6. \A t : Wholes(t, p, m) => t[k] = Whole(u)
  BY <1>1, WholePrefix
<1> HIDE DEF p, k, n
<1>7. Pieced(p, m) /\ m \in Nat
  BY <1>2, PiecedSeq
<1> DEFINE near(i) == IF i <= k THEN e ELSE 0
<1>8. ASSUME NEW i \in 1 .. m
      PROVE  /\ Ample(p[i], near(i))
             /\ i = m => Len(p[i].text) < p[i].room
  <2>1. CASE i <= k
    <3>1. i \in 1 .. k /\ i # m
      BY <1>2, <1>4, <2>1
    <3>. QED  BY <1>2, <1>3, <2>1, <3>1
  <2>2. CASE i > k
    <3>1. i - k \in 1 .. n /\ k + (i - k) = i /\ ~ (i <= k)
      BY <1>2, <2>2
    <3>2. p[i] = v[i - k]
      BY <1>2, <3>1
    <3>3. Ample(p[i], 0) /\ near(i) = 0
      BY <1>3, <3>1, <3>2
    <3>4. i = m => i - k = n
      BY <1>2
    <3>. QED  BY <1>4, <3>2, <3>3, <3>4
  <2>. QED  BY <1>2, <2>1, <2>2
<1> HIDE DEF near
<1>9. PICK t : Wholes(t, p, m) /\ Whole(p) = t[m]
  BY <1>7, WholeSteps
<1>10. /\ \A i \in 0 .. m : Len(t[i]) \in Nat
       /\ \A i \in 1 .. m : /\ Len(t[i]) = Len(t[i - 1]) + Len(p[i].text)
                           /\ Len(p[i].text) \in Nat /\ p[i].room \in Nat
  BY <1>7, <1>9, WholeGrows
<1>11. ASSUME NEW i \in 1 .. m PROVE Len(t[i]) + near(i) <= Len(t[m])
  <2>1. CASE i <= k
    <3>1. i \in 0 .. m /\ k \in i .. m
      BY <1>2, <2>1
    <3>2. Len(t[i]) <= Len(t[k])
      BY <1>7, <1>9, <3>1, WholeOrder
    <3>3. t[k] = Whole(u)
      BY <1>6, <1>9
    <3>4. Len(t[i]) \in Nat
      BY <1>10, <3>1
    <3>. QED  BY <1>5, <1>9, <2>1, <3>2, <3>3, <3>4 DEF near
  <2>2. CASE i > k
    <3>1. i \in 0 .. m /\ m \in i .. m
      BY <1>7
    <3>2. Len(t[i]) <= Len(t[m]) /\ Len(t[i]) \in Nat
      BY <1>7, <1>9, <1>10, <3>1, WholeOrder
    <3>3. near(i) = 0
      BY <1>2, <2>2 DEF near
    <3>. QED  BY <3>2, <3>3
  <2>. QED  BY <1>2, <2>1, <2>2
<1>12. ASSUME NEW i \in 1 .. m PROVE Len(t[i - 1]) + p[i].room <= 2 * Len(t[m]) + 1
  <2> DEFINE a == Len(t[i - 1])
             b == Len(p[i].text)
             c == Len(t[i])
             d == Len(t[m])
             f == near(i)
             r == p[i].room
  <2>0. i - 1 \in 0 .. m /\ i \in 0 .. m /\ m \in 0 .. m
    BY <1>7
  <2>1. a \in Nat /\ b \in Nat /\ d \in Nat /\ r \in Nat /\ c = a + b
    BY <1>10, <2>0
  <2>2. f \in Nat
    BY DEF near
  <2>3. r <= 2 * b + 1 + 2 * f
    BY <1>8 DEF Ample
  <2>4. c + f <= d
    BY <1>11
  <2> HIDE DEF a, b, c, d, f, r
  <2>5. a + r <= 2 * d + 1
    BY <2>1, <2>2, <2>3, <2>4
  <2>. QED  BY <2>5 DEF a, d, r
<1>13. Written(p, cap).status = "BUFFER_TOO_SMALL" => cap <= 2 * Len(Whole(p))
  BY <1>7, <1>9, <1>12, RefusedIsSmall
<1>14. /\ Len(Written(p, cap).text) <= cap
       /\ Written(p, cap).status = "OK" => Len(Written(p, cap).text) < cap
       /\ Written(p, cap).status = "OK" => Written(p, cap).text = Whole(p)
       /\ Written(p, cap).status \in {"OK", "BUFFER_TOO_SMALL"}
  <2>1. m > 0 /\ m \in 1 .. m
    BY <1>2, <1>4
  <2>2. \A i \in 1 .. m : Len(p[i].text) <= p[i].room
    BY <1>8 DEF Ample
  <2>3. Len(p[m].text) < p[m].room
    BY <1>8, <2>1
  <2> HIDE DEF m
  <2>. QED  BY <1>7, <2>1, <2>2, <2>3, WrittenFits
<1>. QED  BY <1>13, <1>14 DEF p

\* Pieces whose tests are in order, the last one with room for the terminating zero.
Safe(p) == \E u, v : \E e \in Nat :
             /\ p = u \o v /\ Sound(u, e) /\ Sound(v, 0) /\ e <= Len(Whole(v))
             /\ Len(v) > 0 /\ Len(v[Len(v)].text) < v[Len(v)].room

LEMMA SafeHolds ==
  ASSUME NEW p, Safe(p), NEW cap \in Nat
  PROVE  /\ Len(Written(p, cap).text) <= cap
         /\ Written(p, cap).status = "OK" =>
              Len(Written(p, cap).text) < cap /\ Written(p, cap).text = Whole(p)
         /\ Written(p, cap).status = "BUFFER_TOO_SMALL" => cap <= 2 * Len(Whole(p))
         /\ Written(p, cap).status \in {"OK", "BUFFER_TOO_SMALL"}
<1>1. PICK u, v : \E e \in Nat :
             /\ p = u \o v /\ Sound(u, e) /\ Sound(v, 0) /\ e <= Len(Whole(v))
             /\ Len(v) > 0 /\ Len(v[Len(v)].text) < v[Len(v)].room
  BY DEF Safe
<1>2. PICK e \in Nat :
             /\ p = u \o v /\ Sound(u, e) /\ Sound(v, 0) /\ e <= Len(Whole(v))
             /\ Len(v) > 0 /\ Len(v[Len(v)].text) < v[Len(v)].room
  BY <1>1
<1>. QED  BY <1>2, BufferHolds, Zenon

LEMMA SafeText ==
  ASSUME NEW p, Safe(p)
  PROVE  p \in Seq(AllPieces) /\ Whole(p) \in Seq(Nat)
<1>1. PICK u, v : p = u \o v /\ u \in Seq(AllPieces) /\ v \in Seq(AllPieces)
  BY Zenon DEF Safe, Sound
<1>2. p \in Seq(AllPieces)
  BY <1>1, WholeConcat, Zenon
<1>. QED  BY <1>2, WholeType

LEMMA SafeSigned ==
  ASSUME NEW s, Sound(s, 0), NEW p, Safe(p)
  PROVE  Safe(s \o p) /\ Whole(s \o p) = Whole(s) \o Whole(p)
<1>1. PICK u, v : \E e \in Nat :
             /\ p = u \o v /\ Sound(u, e) /\ Sound(v, 0) /\ e <= Len(Whole(v))
             /\ Len(v) > 0 /\ Len(v[Len(v)].text) < v[Len(v)].room
  BY DEF Safe
<1>2. PICK e \in Nat :
             /\ p = u \o v /\ Sound(u, e) /\ Sound(v, 0) /\ e <= Len(Whole(v))
             /\ Len(v) > 0 /\ Len(v[Len(v)].text) < v[Len(v)].room
  BY <1>1
<1>3. 0 \in Nat /\ 0 <= e
  OBVIOUS
<1>4. Sound(s \o u, e)
  BY <1>2, <1>3, SoundMore, SoundConcat, Zenon
<1>5. s \in Seq(AllPieces) /\ u \in Seq(AllPieces) /\ v \in Seq(AllPieces) /\ p \in Seq(AllPieces)
  BY <1>2, SafeText, Zenon DEF Sound
<1>6. s \o p = (s \o u) \o v
  <2>1. (s \o u) \o v = s \o (u \o v)
    BY <1>5, ConcatAssociative
  <2>. QED  BY <1>2, <2>1, Zenon
<1>7. Whole(s \o p) = Whole(s) \o Whole(p)
  BY <1>5, WholeConcat, Zenon
<1>. QED  BY <1>2, <1>4, <1>6, <1>7, Zenon DEF Safe

LEMMA SafeOne ==
  ASSUME NEW room \in Nat, NEW text \in Seq(Nat), Len(text) < room, room <= 2 * Len(text) + 1
  PROVE  Safe(<<Piece(room, text)>>) /\ Whole(<<Piece(room, text)>>) = text
<1> DEFINE v == <<Piece(room, text)>>
           n == Len(text)
<1>1. n \in Nat /\ n < room /\ room <= 2 * n + 1 /\ 0 \in Nat
  OBVIOUS
<1>2. n <= room /\ room <= 2 * n + 1 + 2 * 0 /\ 0 <= n
  <2> HIDE DEF n
  <2>. QED  BY <1>1
<1>3. /\ Sound(v, 0) /\ Whole(v) = text /\ Len(v) = 1 /\ v[1].text = text /\ v[1].room = room
  BY <1>1, <1>2, SoundOne, ZenonT(60) DEF n
<1>4. Sound(<<>>, 0)
  BY SoundNone
<1> HIDE DEF v
<1>5. v = <<>> \o v
  <2>1. v \in Seq(AllPieces)
    BY <1>3 DEF Sound
  <2>. QED  BY <2>1, ConcatEmptySeq
<1>6. Len(v) > 0 /\ Len(v[Len(v)].text) < v[Len(v)].room /\ 0 <= Len(Whole(v))
  BY <1>1, <1>2, <1>3 DEF n
<1>. QED  BY <1>1, <1>3, <1>4, <1>5, <1>6, Zenon DEF Safe, v

LEMMA TerminatorIs == /\ Sound(Terminator, 0) /\ Whole(Terminator) = <<>> /\ Len(Terminator) = 1
                      /\ Terminator[1].text = <<>> /\ Terminator[1].room = 1
<1> DEFINE t == <<>>
           one == 1
<1>1. t \in Seq(Nat) /\ one \in Nat /\ 0 \in Nat
  BY EmptySeq
<1>2. Len(t) <= one /\ one <= 2 * Len(t) + 1 + 2 * 0
  BY EmptySeq
<1>3. Terminator = <<Piece(one, t)>>
  BY DEF Terminator
<1> HIDE DEF t, one
<1>4. /\ Sound(<<Piece(one, t)>>, 0) /\ Whole(<<Piece(one, t)>>) = t /\ Len(<<Piece(one, t)>>) = 1
      /\ <<Piece(one, t)>>[1].text = t /\ <<Piece(one, t)>>[1].room = one
  BY <1>1, <1>2, SoundOne, ZenonT(60)
<1>5. /\ Sound(Terminator, 0) /\ Whole(Terminator) = t /\ Len(Terminator) = 1
      /\ Terminator[1].text = t /\ Terminator[1].room = one
  BY <1>3, <1>4, Zenon
<1>. QED  BY <1>5 DEF t, one

\* What e more symbols follow may ask for that much more room.
LEMMA SafeTerminated ==
  ASSUME NEW e \in Nat, NEW u, NEW q, Sound(u, e), Sound(q, 0), e <= Len(Whole(q))
  PROVE  /\ Safe(u \o (q \o Terminator))
         /\ Whole(u \o (q \o Terminator)) = Whole(u) \o Whole(q)
<1> DEFINE v == q \o Terminator
<1>1. Sound(v, 0) /\ Whole(v) = Whole(q) \o <<>> /\ Whole(q) \in Seq(Nat)
  BY TerminatorIs, SoundConcat, Zenon
<1>2. Whole(v) = Whole(q)
  BY <1>1, ConcatEmptySeq
<1>3. u \in Seq(AllPieces) /\ q \in Seq(AllPieces) /\ Terminator \in Seq(AllPieces) /\ v \in Seq(AllPieces)
  BY <1>1, TerminatorIs, Zenon DEF Sound
<1>4. /\ Len(q) \in Nat /\ Len(v) = Len(q) + 1 /\ v[Len(q) + 1] = Terminator[1]
  <2>1. /\ Len(q) \in Nat /\ Len(v) = Len(q) + Len(Terminator)
        /\ \A i \in 1 .. Len(Terminator) : v[Len(q) + i] = Terminator[i]
    BY <1>3, Joined
  <2>2. 1 \in 1 .. Len(Terminator)
    BY TerminatorIs
  <2>. QED  BY <2>1, <2>2, TerminatorIs
<1> HIDE DEF v
<1>5. Len(v) > 0 /\ Len(v[Len(v)].text) < v[Len(v)].room
  <2>1. Len(v) > 0 /\ v[Len(v)] = Terminator[1]
    BY <1>4
  <2>2. Len(<<>>) < 1
    BY EmptySeq
  <2>. QED  BY <2>1, <2>2, TerminatorIs
<1>6. Whole(u \o v) = Whole(u) \o Whole(v)
  BY <1>3, WholeConcat, Zenon
<1>. QED  BY <1>1, <1>2, <1>5, <1>6, Zenon DEF Safe, v

---------------------------------------------------------------------------
(* What a text says *)

\* v stands in w behind the first k symbols.
Stands(v, w, k) == /\ v \in Seq(Nat) /\ w \in Seq(Nat) /\ k \in Nat
                   /\ Len(v) \in Nat /\ Len(w) \in Nat /\ k + Len(v) <= Len(w)
                   /\ \A i \in 1 .. Len(v) : w[k + i] = v[i] /\ v[i] \in Nat

LEMMA StandsLast ==
  ASSUME NEW u \in Seq(Nat), NEW v \in Seq(Nat)
  PROVE  Stands(v, u \o v, Len(u)) /\ Len(u \o v) = Len(u) + Len(v)
BY Joined DEF Stands

LEMMA StandsStill ==
  ASSUME NEW v, NEW u, NEW k, Stands(v, u, k), NEW w \in Seq(Nat)
  PROVE  Stands(v, u \o w, k)
<1>1. /\ u \o w \in Seq(Nat) /\ Len(u \o w) = Len(u) + Len(w) /\ Len(u) \in Nat /\ Len(w) \in Nat
      /\ \A i \in 1 .. Len(u) : (u \o w)[i] = u[i]
  <2>1. u \in Seq(Nat)
    BY DEF Stands
  <2>. QED  BY <2>1, Joined
<1>2. /\ v \in Seq(Nat) /\ k \in Nat /\ Len(v) \in Nat /\ k + Len(v) <= Len(u)
      /\ \A i \in 1 .. Len(v) : u[k + i] = v[i] /\ v[i] \in Nat
  BY DEF Stands
<1>3. ASSUME NEW i \in 1 .. Len(v) PROVE (u \o w)[k + i] = v[i] /\ v[i] \in Nat
  <2>1. k + i \in 1 .. Len(u)
    BY <1>1, <1>2
  <2>. QED  BY <1>1, <1>2, <2>1
<1>4. k + Len(v) <= Len(u \o w)
  BY <1>1, <1>2
<1>5. Len(u \o w) \in Nat
  BY <1>1
<1>. QED  BY <1>1, <1>2, <1>3, <1>4, <1>5 DEF Stands

LEMMA Slice ==
  ASSUME NEW v, NEW w, NEW k, Stands(v, w, k), NEW m, NEW n, m = k + 1, n = k + Len(v)
  PROVE  SubSeq(w, m, n) = v
<1>1. /\ v \in Seq(Nat) /\ w \in Seq(Nat) /\ k \in Nat /\ Len(v) \in Nat /\ Len(w) \in Nat /\ k + Len(v) <= Len(w)
      /\ \A i \in 1 .. Len(v) : w[k + i] = v[i] /\ v[i] \in Nat
  BY DEF Stands
<1>2. m \in Int /\ n \in Int /\ n - m + 1 = Len(v) /\ \A i \in m .. n : w[i] \in Nat
  <2>1. m \in Int /\ n \in Int /\ n - m + 1 = Len(v)
    BY <1>1
  <2>2. ASSUME NEW i \in m .. n PROVE w[i] \in Nat
    <3>1. i - k \in 1 .. Len(v) /\ k + (i - k) = i
      BY <1>1
    <3>. QED  BY <1>1, <3>1
  <2>. QED  BY <2>1, <2>2
<1> DEFINE t == SubSeq(w, m, n)
<1>3. /\ t \in Seq(Nat) /\ Len(t) = (IF m <= n THEN n - m + 1 ELSE 0)
      /\ \A i \in 1 .. n - m + 1 : t[i] = w[m + i - 1]
  BY <1>2, SubSeqProperties, SMTT(60)
<1> HIDE DEF t
<1>4. Len(t) = Len(v)
  BY <1>1, <1>2, <1>3
<1>5. \A i \in 1 .. Len(t) : t[i] = v[i]
  <2> TAKE i \in 1 .. Len(t)
  <2>1. i \in 1 .. n - m + 1 /\ i \in 1 .. Len(v) /\ m + i - 1 = k + i
    BY <1>1, <1>2, <1>4
  <2>. QED  BY <1>1, <1>3, <2>1
<1>6. t = v
  BY <1>1, <1>3, <1>4, <1>5, SeqEqual
<1>. QED  BY <1>6 DEF t

\* The two parts of a text.
SliceIs(w, m, n, v) == SubSeq(w, m, n) = v
LEMMA SliceOf ==
  ASSUME NEW v, NEW w, NEW k, Stands(v, w, k), NEW m, NEW n, m = k + 1, n = k + Len(v)
  PROVE  SliceIs(w, m, n, v)
BY Slice DEF SliceIs

Slices(w, u, v, k, m, n) == SubSeq(w, 1, k) = u /\ SubSeq(w, m, n) = v
LEMMA SliceBoth ==
  ASSUME NEW u, NEW v, NEW w, NEW k, NEW m, NEW n, Stands(u, w, 0), Stands(v, w, k),
         k = Len(u), m = k + 1, n = k + Len(v)
  PROVE  Slices(w, u, v, k, m, n)
<1> DEFINE zero == 0
           one == 1
<1>1. Stands(u, w, zero) /\ one = zero + 1 /\ k = zero + Len(u)
  BY DEF Stands
<1> HIDE DEF zero, one
<1>2. SliceIs(w, one, k, u)
  BY <1>1, SliceOf, Zenon
<1>3. SliceIs(w, m, n, v)
  BY SliceOf, Zenon
<1>. QED  BY <1>2, <1>3, Zenon DEF SliceIs, Slices, one

LEMMA Halves ==
  ASSUME NEW u \in Seq(Nat), NEW v \in Seq(Nat), NEW w, w = u \o v, NEW k, k = Len(u),
         NEW m, m = k + 1, NEW n, n = Len(w)
  PROVE  Slices(w, u, v, k, m, n)
<1>1. Stands(v, w, k) /\ Len(w) = Len(u) + Len(v)
  BY StandsLast
<1>2. Len(u) \in Nat /\ Len(v) \in Nat
  BY LenProperties
<1>3. Stands(u, w, 0)
  <2>1. Stands(u, u, 0)
    <3>1. \A i \in 1 .. Len(u) : 0 + i = i /\ u[i] \in Nat
      BY ElementOfSeq
    <3>. QED  BY <1>2, <3>1 DEF Stands
  <2>. QED  BY <2>1, StandsStill
<1>4. k = Len(u) /\ m = k + 1 /\ n = k + Len(v)
  BY <1>1
<1>. QED  BY <1>1, <1>3, <1>4, SliceBoth, Zenon

LEMMA FirstIs ==
  ASSUME NEW w, NEW c, Len(w) \in Nat, NEW n \in 0 .. Len(w) - 1,
         w[n + 1] = c, \A i \in 1 .. n : w[i] # c
  PROVE  Has(w, c) /\ Before(w, c) = n
<1>1. Has(w, c)
  <2>1. n + 1 \in 1 .. Len(w)
    OBVIOUS
  <2>. QED  BY <2>1 DEF Has
<1>2. ASSUME NEW m \in 0 .. Len(w) - 1, w[m + 1] = c, \A i \in 1 .. m : w[i] # c
      PROVE  m = n
  <2>1. ~ (m < n)
    <3> SUFFICES ASSUME m < n PROVE FALSE
      OBVIOUS
    <3>1. m + 1 \in 1 .. n
      OBVIOUS
    <3>. QED  BY <1>2, <3>1
  <2>2. ~ (n < m)
    <3> SUFFICES ASSUME n < m PROVE FALSE
      OBVIOUS
    <3>1. n + 1 \in 1 .. m
      OBVIOUS
    <3>. QED  BY <1>2, <3>1
  <2>. QED  BY <2>1, <2>2
<1>3. Before(w, c) = n
  BY <1>2, Zenon DEF Before
<1>. QED  BY <1>1, <1>3

\* a and b are w, cut behind the first k symbols.
Splits(a, b, w, k, S) ==
  /\ a \in Seq(S) /\ b \in Seq(S) /\ Len(a) = k /\ Len(b) = Len(w) - k
  /\ \A i \in 1 .. k : a[i] = w[i]
  /\ \A i \in 1 .. Len(w) - k : b[i] = w[k + i]
  /\ a \o b = w

LEMMA Split ==
  ASSUME NEW S, NEW w \in Seq(S), NEW k \in 0 .. Len(w), NEW m, m = k + 1, NEW n, n = Len(w)
  PROVE  Splits(SubSeq(w, 1, k), SubSeq(w, m, n), w, k, S)
<1> DEFINE a == SubSeq(w, 1, k)
           b == SubSeq(w, m, n)
<1>1. n \in Nat /\ k \in Nat /\ k <= n /\ \A i \in 1 .. n : w[i] \in S
  BY ElementOfSeq, LenProperties
<1>2. a \in Seq(S) /\ Len(a) = k /\ \A i \in 1 .. k : a[i] = w[i]
  <2>1. \A i \in 1 .. k : w[i] \in S
    BY <1>1
  <2>2. /\ SubSeq(w, 1, k) \in Seq(S) /\ Len(SubSeq(w, 1, k)) = (IF 1 <= k THEN k - 1 + 1 ELSE 0)
        /\ \A i \in 1 .. k - 1 + 1 : SubSeq(w, 1, k)[i] = w[1 + i - 1]
    BY <1>1, <2>1, SubSeqProperties
  <2>. QED  BY <1>1, <2>2
<1>3. b \in Seq(S) /\ Len(b) = n - k /\ \A i \in 1 .. n - k : b[i] = w[k + i]
  <2>1. \A i \in m .. n : w[i] \in S
    BY <1>1
  <2>2. /\ SubSeq(w, m, n) \in Seq(S) /\ Len(SubSeq(w, m, n)) = (IF m <= n THEN n - m + 1 ELSE 0)
        /\ \A i \in 1 .. n - m + 1 : SubSeq(w, m, n)[i] = w[m + i - 1]
    BY <1>1, <2>1, SubSeqProperties
  <2>. QED  BY <1>1, <2>2
<1>7. a \o b = w
  <2>0. 1 \in 1 .. Len(w) + 1 /\ k \in 1 - 1 .. Len(w) /\ Len(w) \in k .. Len(w)
    BY <1>1
  <2>1. SubSeq(w, 1, k) \o SubSeq(w, k + 1, Len(w)) = SubSeq(w, 1, Len(w))
    BY <2>0, ConcatAdjacentSubSeq, Zenon
  <2>2. SubSeq(w, 1, Len(w)) = w
    BY SubSeqFull
  <2>. QED  BY <2>1, <2>2
<1> HIDE DEF a, b
<1>8. Splits(a, b, w, k, S)
  BY <1>2, <1>3, <1>7 DEF Splits
<1>. QED  BY <1>8 DEF a, b

\* The last z symbols are zeros, and no more than these.
ZerosAt(w, z) == /\ z \in 0 .. Len(w) /\ \A i \in Len(w) - z + 1 .. Len(w) : w[i] = 0
                 /\ z < Len(w) => w[Len(w) - z] # 0
Cut(w, short, z, S) == ZerosAt(w, z) /\ \E zeros : Splits(short, zeros, w, Len(w) - z, S)

LEMMA ZerosEnd ==
  ASSUME NEW w, Len(w) \in Nat
  PROVE  \E z : ZerosAt(w, z)
<1> DEFINE n == Len(w)
           T == {k \in 0 .. n : \A i \in k + 1 .. n : w[i] = 0}
<1>1. n \in T
  OBVIOUS
<1>2. PICK k \in T : \A j \in T : k <= j
  <2>1. T \subseteq Nat /\ T # {}
    BY <1>1
  <2> HIDE DEF T
  <2>. QED  BY <2>1, LeastMember
<1>3. k \in 0 .. n /\ \A i \in k + 1 .. n : w[i] = 0
  BY <1>2
<1>4. ASSUME k > 0 PROVE w[k] # 0
  <2> SUFFICES ASSUME w[k] = 0 PROVE FALSE
    OBVIOUS
  <2>1. k - 1 \in 0 .. n /\ k - 1 < k
    BY <1>3, <1>4
  <2>2. ASSUME NEW i \in (k - 1) + 1 .. n PROVE w[i] = 0
    <3>1. i = k \/ i \in k + 1 .. n
      BY <1>3, <2>1
    <3>. QED  BY <1>3, <3>1
  <2>3. k - 1 \in T
    BY <2>1, <2>2
  <2> HIDE DEF T
  <2>4. k <= k - 1
    BY <1>2, <2>3
  <2>. QED  BY <1>3, <2>4
<1>5. ZerosAt(w, n - k)
  <2>1. n - k \in 0 .. n /\ n - (n - k) = k /\ (n - k < n => k > 0)
    BY <1>3
  <2>. QED  BY <1>3, <1>4, <2>1 DEF ZerosAt
<1>. QED  BY <1>5

LEMMA ZerosCut ==
  ASSUME NEW S, NEW w \in Seq(S)
  PROVE  \E short, z : Cut(w, short, z, S)
<1>1. Len(w) \in Nat
  BY LenProperties
<1>2. PICK z : ZerosAt(w, z)
  BY <1>1, ZerosEnd
<1> DEFINE n == Len(w)
           k == n - z
           m == k + 1
<1>3. k \in 0 .. Len(w)
  BY <1>1, <1>2 DEF ZerosAt
<1>4. m = k + 1 /\ n = Len(w)
  OBVIOUS
<1> HIDE DEF m, n
<1>5. Splits(SubSeq(w, 1, k), SubSeq(w, m, n), w, k, S)
  <2> HIDE DEF k
  <2>. QED  BY <1>3, <1>4, Split
<1>6. Cut(w, SubSeq(w, 1, k), z, S)
  <2>1. k = Len(w) - z
    BY <1>4
  <2> HIDE DEF k
  <2>. QED  BY <1>2, <1>5, <2>1, Zenon DEF Cut
<1>. QED  BY <1>6

\* The symbols a number is written with, but for point, exponent and signs.
Figures == {c \in Nat : c \notin Space .. Exp /\ c # X}

LEMMA SymbolsApart ==
  /\ Exp \notin Figures /\ Point \notin Figures /\ X \notin Figures
  /\ Exp \notin Digits /\ Point \notin Digits /\ X \notin Digits /\ 0 \in Digits
  /\ Minus \notin Digits /\ Plus \notin Digits /\ Space \notin Digits
  /\ Exp \notin {Minus, Plus, Space, 0, X, Point} /\ Point \notin {Minus, Plus, Space, 0, X}
  /\ X \notin {Minus, Plus, Space}
BY DEF Figures, Digits, Minus, Plus, Space, Point, Exp, X

\* Where the parts stand, from which position on and of which lengths.
Meet(pointed, scientific, prefixed, ls, li, lf, les, lx, k1, k2, k3, k4, k5, k6, n) ==
  /\ ls \in 0 .. 1 /\ lf \in Nat /\ les \in 0 .. 1 /\ lx \in Nat /\ li \in Nat \ {0}
  /\ ~ pointed => lf = 0
  /\ scientific => lx > 0
  /\ ~ scientific => les = 0 /\ lx = 0
  /\ k1 \in Nat /\ k1 = ls + (IF prefixed THEN 2 ELSE 0)
  /\ k2 \in Nat /\ k2 = k1 + li
  /\ k3 \in Nat /\ k3 = k2 + (IF pointed THEN 1 ELSE 0)
  /\ k4 \in Nat /\ k4 = k3 + lf
  /\ k5 \in Nat /\ k5 = k4 + (IF scientific THEN 1 ELSE 0)
  /\ k6 \in Nat /\ k6 = k5 + les
  /\ n \in Nat /\ n = k6 + lx

\* What Positions finds.
FoundAt(T, pointed, ls, les, k1, k2, k4) ==
  /\ EndOfDigits(T) = k4
  /\ Has(T, Point) <=> pointed
  /\ (IF Has(T, Point) THEN Before(T, Point) + 1 ELSE k4 + 1) = k2 + 1
  /\ (IF T[1] \in Digits THEN 0 ELSE 1) = ls
  /\ (IF Has(T, X) THEN ls + 3 ELSE ls + 1) = k1 + 1
  /\ (IF k4 + 2 <= Len(T) /\ T[k4 + 2] \notin Digits THEN 1 ELSE 0) = les

\* Where the parts of a text meet.
LEMMA Positions ==
  ASSUME NEW pointed \in BOOLEAN, NEW scientific \in BOOLEAN, NEW prefixed \in BOOLEAN,
         NEW ls, NEW li, NEW lf, NEW les, NEW lx,
         NEW k1, NEW k2, NEW k3, NEW k4, NEW k5, NEW k6, NEW T, NEW n, Len(T) = n,
         Meet(pointed, scientific, prefixed, ls, li, lf, les, lx, k1, k2, k3, k4, k5, k6, n),
         \A i \in 1 .. ls : T[i] \in {Minus, Plus, Space},
         prefixed => T[ls + 1] = 0 /\ T[ls + 2] = X,
         \A i \in k1 + 1 .. k2 : T[i] \in Figures, ~ prefixed => T[k1 + 1] \in Digits,
         pointed => T[k2 + 1] = Point,
         \A i \in k3 + 1 .. k4 : T[i] \in Figures,
         scientific => T[k4 + 1] = Exp,
         \A i \in k5 + 1 .. k6 : T[i] \in {Minus, Plus},
         \A i \in k6 + 1 .. n : T[i] \in Digits
  PROVE  FoundAt(T, pointed, ls, les, k1, k2, k4)
<1>0. /\ ls \in 0 .. 1 /\ lf \in Nat /\ les \in 0 .. 1 /\ lx \in Nat /\ li \in Nat \ {0}
      /\ ~ pointed => lf = 0
      /\ scientific => lx > 0
      /\ ~ scientific => les = 0 /\ lx = 0
      /\ k1 \in Nat /\ k1 = ls + (IF prefixed THEN 2 ELSE 0)
      /\ k2 \in Nat /\ k2 = k1 + li
      /\ k3 \in Nat /\ k3 = k2 + (IF pointed THEN 1 ELSE 0)
      /\ k4 \in Nat /\ k4 = k3 + lf
      /\ k5 \in Nat /\ k5 = k4 + (IF scientific THEN 1 ELSE 0)
      /\ k6 \in Nat /\ k6 = k5 + les
      /\ n \in Nat /\ n = k6 + lx
  BY Zenon DEF Meet
<1> USE <1>0
<1>1. ASSUME NEW i \in 1 .. n
      PROVE  \/ i <= ls /\ T[i] \in {Minus, Plus, Space}
             \/ ls < i /\ i <= k1 /\ prefixed /\ T[i] \in {0, X}
             \/ k1 < i /\ i <= k2 /\ T[i] \in Figures
             \/ k2 < i /\ i <= k3 /\ pointed /\ T[i] = Point
             \/ k3 < i /\ i <= k4 /\ T[i] \in Figures
             \/ k4 < i /\ i <= k5 /\ scientific /\ T[i] = Exp
             \/ k5 < i /\ i <= k6 /\ T[i] \in {Minus, Plus}
             \/ k6 < i /\ T[i] \in Digits
  <2>1. CASE i <= ls
    BY <2>1
  <2>2. CASE ls < i /\ i <= k1
    <3>1. prefixed /\ i \in {ls + 1, ls + 2}
      BY <2>2
    <3>. QED  BY <2>2, <3>1
  <2>3. CASE k1 < i /\ i <= k2
    <3>1. i \in k1 + 1 .. k2
      BY <2>3
    <3>. QED  BY <2>3, <3>1
  <2>4. CASE k2 < i /\ i <= k3
    <3>1. pointed /\ i = k2 + 1
      BY <2>4
    <3>. QED  BY <2>4, <3>1
  <2>5. CASE k3 < i /\ i <= k4
    <3>1. i \in k3 + 1 .. k4
      BY <2>5
    <3>. QED  BY <2>5, <3>1
  <2>6. CASE k4 < i /\ i <= k5
    <3>1. scientific /\ i = k4 + 1
      BY <2>6
    <3>. QED  BY <2>6, <3>1
  <2>7. CASE k5 < i /\ i <= k6
    <3>1. i \in k5 + 1 .. k6
      BY <2>7
    <3>. QED  BY <2>7, <3>1
  <2>8. CASE k6 < i
    <3>1. i \in k6 + 1 .. n
      BY <2>8
    <3>. QED  BY <2>8, <3>1
  <2>. QED  BY <2>1, <2>2, <2>3, <2>4, <2>5, <2>6, <2>7, <2>8
<1>2. Has(T, Exp) <=> scientific
  <2>1. ASSUME scientific PROVE Has(T, Exp)
    <3>1. k4 + 1 \in 1 .. n
      BY <2>1
    <3>. QED  BY <2>1, <3>1 DEF Has
  <2>2. ASSUME ~ scientific PROVE ~ Has(T, Exp)
    <3>1. ASSUME NEW i \in 1 .. n PROVE T[i] # Exp
      BY <1>1, <2>2, SymbolsApart
    <3>. QED  BY <3>1 DEF Has
  <2>. QED  BY <2>1, <2>2
<1>3. EndOfDigits(T) = k4
  <2>1. ASSUME scientific PROVE Before(T, Exp) = k4
    <3>1. k4 \in 0 .. n - 1
      BY <2>1
    <3>3. ASSUME NEW i \in 1 .. k4 PROVE T[i] # Exp
      <4>1. i \in 1 .. n /\ ~ (k4 < i) /\ ~ (k5 < i) /\ ~ (k6 < i)
        OBVIOUS
      <4>. QED  BY <1>1, <4>1, SymbolsApart
    <3>. QED  BY <2>1, <3>1, <3>3, FirstIs
  <2>2. ASSUME ~ scientific PROVE n = k4
    BY <2>2
  <2>. QED  BY <1>2, <2>1, <2>2 DEF EndOfDigits
<1>4. Has(T, Point) <=> pointed
  <2>1. ASSUME pointed PROVE Has(T, Point)
    <3>1. k2 + 1 \in 1 .. n
      BY <2>1
    <3>. QED  BY <2>1, <3>1 DEF Has
  <2>2. ASSUME ~ pointed PROVE ~ Has(T, Point)
    <3>1. ASSUME NEW i \in 1 .. n PROVE T[i] # Point
      BY <1>1, <2>2, SymbolsApart
    <3>. QED  BY <3>1 DEF Has
  <2>. QED  BY <2>1, <2>2
<1>5. (IF Has(T, Point) THEN Before(T, Point) + 1 ELSE k4 + 1) = k2 + 1
  <2>1. ASSUME pointed PROVE Before(T, Point) = k2
    <3>1. k2 \in 0 .. n - 1
      BY <2>1
    <3>3. ASSUME NEW i \in 1 .. k2 PROVE T[i] # Point
      <4>1. i \in 1 .. n /\ ~ (k2 < i) /\ ~ (k3 < i) /\ ~ (k4 < i) /\ ~ (k5 < i) /\ ~ (k6 < i)
        BY SMTT(60)
      <4>. QED  BY <1>1, <4>1, SymbolsApart
    <3>. QED  BY <2>1, <3>1, <3>3, FirstIs
  <2>2. ASSUME ~ pointed PROVE k4 = k2
    BY <2>2
  <2>. QED  BY <1>4, <2>1, <2>2
<1>6. Has(T, X) <=> prefixed
  <2>1. ASSUME prefixed PROVE Has(T, X)
    <3>1. ls + 2 \in 1 .. n
      BY <2>1
    <3>. QED  BY <2>1, <3>1 DEF Has
  <2>2. ASSUME ~ prefixed PROVE ~ Has(T, X)
    <3>1. ASSUME NEW i \in 1 .. n PROVE T[i] # X
      BY <1>1, <2>2, SymbolsApart
    <3>. QED  BY <3>1 DEF Has
  <2>. QED  BY <2>1, <2>2
<1>7. (IF T[1] \in Digits THEN 0 ELSE 1) = ls
  <2>1. CASE ls = 1
    <3>1. T[1] \in {Minus, Plus, Space}
      BY <2>1
    <3>. QED  BY <2>1, <3>1, SymbolsApart
  <2>2. CASE ls = 0
    <3>1. prefixed => T[1] = 0
      BY <2>2
    <3>2. ~ prefixed => T[1] \in Digits
      BY <2>2
    <3>. QED  BY <2>2, <3>1, <3>2, SymbolsApart
  <2>. QED  BY <2>1, <2>2
<1>8. (IF Has(T, X) THEN ls + 3 ELSE ls + 1) = k1 + 1
  BY <1>6
<1>9. (IF k4 + 2 <= Len(T) /\ T[k4 + 2] \notin Digits THEN 1 ELSE 0) = les
  <2>1. CASE ~ scientific
    BY <2>1
  <2>2. CASE scientific /\ les = 1
    <3>1. k4 + 2 \in k5 + 1 .. k6 /\ k4 + 2 <= n
      BY <2>2
    <3>. QED  BY <2>2, <3>1, SymbolsApart
  <2>3. CASE scientific /\ les = 0
    <3>1. k4 + 2 \in k6 + 1 .. n
      BY <2>3
    <3>. QED  BY <2>3, <3>1
  <2>. QED  BY <2>1, <2>2, <2>3
<1>. QED  BY <1>3, <1>4, <1>5, <1>7, <1>8, <1>9 DEF FoundAt

LEMMA StandsIn ==
  ASSUME NEW v, NEW w, NEW k, Stands(v, w, k), NEW S, \A i \in 1 .. Len(v) : v[i] \in S,
         NEW m, m = k + Len(v)
  PROVE  \A i \in k + 1 .. m : w[i] \in S
<1> TAKE i \in k + 1 .. m
<1>1. /\ k \in Nat /\ Len(v) \in Nat
      /\ \A j \in 1 .. Len(v) : w[k + j] = v[j]
  BY DEF Stands
<1>2. i - k \in 1 .. Len(v) /\ k + (i - k) = i
  BY <1>1
<1>. QED  BY <1>1, <1>2

Negative(es) == Len(es) = 1 /\ es[1] = Minus

\* The parts of a text, once it is known where they meet.
LEMMA Parted ==
  ASSUME NEW b, NEW pointed \in BOOLEAN, NEW scientific \in BOOLEAN, NEW prefixed \in BOOLEAN, NEW T,
         NEW s, NEW int, NEW frac, NEW es, NEW ex,
         NEW k1, NEW k2, NEW k3, NEW k4, NEW k5, NEW k6,
         Stands(s, T, 0), Stands(int, T, k1), Stands(frac, T, k3), Stands(es, T, k5), Stands(ex, T, k6),
         Meet(pointed, scientific, prefixed, Len(s), Len(int), Len(frac), Len(es), Len(ex),
              k1, k2, k3, k4, k5, k6, Len(T)),
         FoundAt(T, pointed, Len(s), Len(es), k1, k2, k4)
  PROVE  ReadAs(T, b) = [sign |-> s, int |-> int, frac |-> frac, exp |-> ex,
                         power |-> ValueOf(ex, b) * (IF Negative(es) THEN -1 ELSE 1),
                         pointed |-> pointed]
<1> DEFINE ls == Len(s)
           les == Len(es)
           n == Len(T)
<1>1a. Meet(pointed, scientific, prefixed, Len(s), Len(int), Len(frac), Len(es), Len(ex),
             k1, k2, k3, k4, k5, k6, Len(T))
  OBVIOUS
<1>1. /\ ls = 0 + Len(s) /\ (k2 + 1) - 1 = k1 + Len(int)
      /\ pointed => (k2 + 1) + 1 = k3 + 1
      /\ ~ pointed => Len(frac) = 0 /\ k4 < (k2 + 1) + 1
      /\ (k2 + 1) + 1 \in Int /\ k4 \in Int
      /\ scientific => k4 + 2 + les = k6 + 1 /\ Len(ex) > 0
      /\ ~ scientific => Len(ex) = 0 /\ n < k4 + 2 + les
      /\ n \in Int /\ k4 + 2 + les \in Int
      /\ les = 1 => k5 + 1 = k4 + 2 /\ 1 \in 1 .. les
      /\ k4 = k3 + Len(frac) /\ n = k6 + Len(ex)
  <2> DEFINE li == Len(int)
             lf == Len(frac)
             lx == Len(ex)
  <2>1. Meet(pointed, scientific, prefixed, ls, li, lf, les, lx, k1, k2, k3, k4, k5, k6, n)
    BY <1>1a
  <2> HIDE DEF li, lf, lx, ls, les, n
  <2>2. ls \in Nat /\ ls = 0 + ls
    BY <2>1 DEF Meet
  <2>3. /\ (k2 + 1) - 1 = k1 + li
        /\ pointed => (k2 + 1) + 1 = k3 + 1
        /\ ~ pointed => lf = 0 /\ k4 < (k2 + 1) + 1
        /\ (k2 + 1) + 1 \in Int /\ k4 \in Int
        /\ scientific => k4 + 2 + les = k6 + 1 /\ lx > 0
        /\ ~ scientific => lx = 0 /\ n < k4 + 2 + les
        /\ n \in Int /\ k4 + 2 + les \in Int
        /\ les = 1 => k5 + 1 = k4 + 2 /\ 1 \in 1 .. les
        /\ k4 = k3 + lf /\ n = k6 + lx
    <3>1. /\ lf \in Nat /\ lx \in Nat /\ li \in Nat \ {0} /\ les \in 0 .. 1
          /\ k1 \in Nat /\ k2 \in Nat /\ k3 \in Nat /\ k4 \in Nat /\ k5 \in Nat /\ k6 \in Nat /\ n \in Nat
          /\ k2 = k1 + li /\ k4 = k3 + lf /\ k6 = k5 + les /\ n = k6 + lx
      BY <2>1 DEF Meet
    <3>2. pointed => k3 = k2 + 1
      BY <2>1 DEF Meet
    <3>3. ~ pointed => lf = 0 /\ k3 = k2
      BY <2>1 DEF Meet
    <3>4. scientific => k5 = k4 + 1 /\ lx > 0
      BY <2>1 DEF Meet
    <3>5. ~ scientific => lx = 0 /\ les = 0 /\ k5 = k4
      BY <2>1 DEF Meet
    <3>. QED  BY <3>1, <3>2, <3>3, <3>4, <3>5
  <2>. QED  BY <2>2, <2>3 DEF li, lf, lx, ls
<1>0. T \in Seq(Nat) /\ frac \in Seq(Nat) /\ ex \in Seq(Nat)
  BY DEF Stands
<1> HIDE DEF ls, les, n
<1>2. SubSeq(T, 1, ls) = s
  <2>1. 1 = 0 + 1 /\ ls = 0 + Len(s)
    BY <1>1
  <2>. QED  BY <2>1, Slice, SMTT(60)
<1>3. SubSeq(T, k1 + 1, (k2 + 1) - 1) = int
  <2>1. (k2 + 1) - 1 = k1 + Len(int)
    BY <1>1
  <2>. QED  BY <2>1, Slice
<1>5. SubSeq(T, (k2 + 1) + 1, k4) = frac
  <2> DEFINE m == (k2 + 1) + 1
  <2>0. m \in Int /\ k4 \in Int /\ (pointed => m = k3 + 1) /\ (~ pointed => Len(frac) = 0 /\ k4 < m)
    BY <1>1
  <2> HIDE DEF m
  <2>1. CASE pointed
    <3>1. m = k3 + 1 /\ k4 = k3 + Len(frac)
      BY <1>1, <2>0, <2>1
    <3>. QED  BY <3>1, Slice DEF m
  <2>2. CASE ~ pointed
    <3>1. frac = <<>>
      BY <1>0, <2>0, <2>2, EmptySeq
    <3>2. SubSeq(T, m, k4) = <<>>
      BY <1>0, <2>0, <2>2, SubSeqEmpty
    <3>. QED  BY <3>1, <3>2 DEF m
  <2>. QED  BY <2>1, <2>2
<1>6. SubSeq(T, k4 + 2 + les, n) = ex
  <2> DEFINE m == k4 + 2 + les
  <2>0. m \in Int /\ n \in Int /\ (scientific => m = k6 + 1) /\ (~ scientific => Len(ex) = 0 /\ n < m)
    BY <1>1
  <2> HIDE DEF m
  <2>1. CASE scientific
    <3>1. m = k6 + 1 /\ n = k6 + Len(ex)
      BY <1>1, <2>0, <2>1
    <3>. QED  BY <3>1, Slice DEF m
  <2>2. CASE ~ scientific
    <3>1. ex = <<>>
      BY <1>0, <2>0, <2>2, EmptySeq
    <3>2. SubSeq(T, m, n) = <<>>
      BY <1>0, <2>0, <2>2, SubSeqEmpty
    <3>. QED  BY <3>1, <3>2 DEF m
  <2>. QED  BY <2>1, <2>2
<1>7. (les = 1 /\ T[k4 + 2] = Minus) <=> Negative(es)
  <2>1. ASSUME les = 1 PROVE T[k4 + 2] = es[1]
    <3>1. k5 + 1 = k4 + 2 /\ 1 \in 1 .. les
      BY <1>1, <2>1
    <3>2. \A i \in 1 .. les : T[k5 + i] = es[i]
      BY DEF Stands, les
    <3>. QED  BY <3>1, <3>2
  <2>. QED  BY <2>1 DEF Negative, les
<1>8. FoundAt(T, pointed, ls, les, k1, k2, k4)
  BY DEF ls, les
<1>9. /\ EndOfDigits(T) = k4
      /\ Has(T, Point) <=> pointed
      /\ (IF Has(T, Point) THEN Before(T, Point) + 1 ELSE k4 + 1) = k2 + 1
      /\ (IF T[1] \in Digits THEN 0 ELSE 1) = ls
      /\ (IF Has(T, X) THEN ls + 3 ELSE ls + 1) = k1 + 1
      /\ (IF k4 + 2 <= Len(T) /\ T[k4 + 2] \notin Digits THEN 1 ELSE 0) = les
  BY <1>8, SMTT(20) DEF FoundAt
<1>10. Has(T, Point) = pointed
  <2>1. Has(T, Point) \in BOOLEAN
    BY Zenon DEF Has
  <2>2. Has(T, Point) <=> pointed
    BY <1>9, Zenon
  <2>. QED  BY <2>1, <2>2, Zenon
<1> DEFINE sg == IF T[1] \in Digits THEN 0 ELSE 1
           fr == IF Has(T, X) THEN sg + 3 ELSE sg + 1
           e == EndOfDigits(T)
           xs == IF e + 2 <= Len(T) /\ T[e + 2] \notin Digits THEN 1 ELSE 0
           exp == SubSeq(T, e + 2 + xs, Len(T))
           pn == IF Has(T, Point) THEN Before(T, Point) + 1 ELSE e + 1
<1>11. ReadAs(T, b) =
         [sign |-> SubSeq(T, 1, sg), int |-> SubSeq(T, fr, pn - 1), frac |-> SubSeq(T, pn + 1, e),
          exp |-> exp, power |-> ValueOf(exp, b) * (IF xs = 1 /\ T[e + 2] = Minus THEN -1 ELSE 1),
          pointed |-> Has(T, Point)]
  BY Zenon DEF ReadAs
<1>12. sg = ls /\ fr = k1 + 1 /\ e = k4 /\ xs = les /\ pn = k2 + 1
  <2>1. sg = ls /\ e = k4
    BY <1>9
  <2> HIDE DEF sg, e
  <2>2. fr = k1 + 1 /\ pn = k2 + 1
    BY <1>9, <2>1
  <2>3. xs = les
    BY <1>9, <2>1
  <2>. QED  BY <2>1, <2>2, <2>3
<1>13. exp = ex
  <2>1. SubSeq(T, k4 + 2 + les, Len(T)) = ex
    BY <1>6 DEF n
  <2> HIDE DEF e, xs
  <2>. QED  BY <1>12, <2>1
<1> HIDE DEF sg, fr, e, xs, exp, pn
<1>14. (IF xs = 1 /\ T[e + 2] = Minus THEN -1 ELSE 1) = (IF Negative(es) THEN -1 ELSE 1)
  BY <1>7, <1>12
<1>15. SubSeq(T, 1, sg) = s /\ SubSeq(T, fr, pn - 1) = int /\ SubSeq(T, pn + 1, e) = frac
  BY <1>2, <1>3, <1>5, <1>12
<1>. QED  BY <1>10, <1>11, <1>13, <1>14, <1>15, Zenon

\* A text is read by its parts: a sign, 0x, digits, a point, digits, an exponent of a sign
\* and digits, all but the first digits optional.
Composed(pointed, scientific, s, pre, int, pt, frac, ee, es, ex) ==
  /\ s \in {<<>>, <<Minus>>, <<Plus>>, <<Space>>} /\ pre \in {<<>>, <<0, X>>}
  /\ int \in Seq(Figures) /\ Len(int) > 0 /\ (pre = <<>> => int[1] \in Digits)
  /\ frac \in Seq(Figures) /\ (~ pointed => frac = <<>>)
  /\ es \in {<<>>, <<Minus>>, <<Plus>>} /\ ex \in Seq(Digits)
  /\ IF scientific THEN Len(ex) > 0 ELSE es = <<>> /\ ex = <<>>
  /\ pt = (IF pointed THEN <<Point>> ELSE <<>>)
  /\ ee = (IF scientific THEN <<Exp>> ELSE <<>>)

\* The parts are sequences of numbers.
LEMMA PartsType ==
  ASSUME NEW pointed, NEW scientific, NEW s, NEW pre, NEW int, NEW pt, NEW frac, NEW ee, NEW es, NEW ex,
         Composed(pointed, scientific, s, pre, int, pt, frac, ee, es, ex)
  PROVE  /\ s \in Seq(Nat) /\ pre \in Seq(Nat) /\ int \in Seq(Nat) /\ pt \in Seq(Nat)
         /\ frac \in Seq(Nat) /\ ee \in Seq(Nat) /\ es \in Seq(Nat) /\ ex \in Seq(Nat)
<1>1. Figures \subseteq Nat /\ Digits \subseteq Nat
  BY DEF Figures, Digits
<1>2. int \in Seq(Nat) /\ frac \in Seq(Nat) /\ ex \in Seq(Nat)
  BY <1>1, SeqMonotonic DEF Composed
<1>3. \A x, y \in Nat : <<x, y>> \in Seq(Nat)
  OBVIOUS
<1>4. <<>> \in Seq(Nat) /\ \A x \in Nat : <<x>> \in Seq(Nat)
  BY EmptySeq
<1>5. Minus \in Nat /\ Plus \in Nat /\ Space \in Nat /\ X \in Nat /\ Point \in Nat /\ Exp \in Nat /\ 0 \in Nat
  BY DEF Minus, Plus, Space, X, Point, Exp
<1>6. s \in Seq(Nat)
  BY <1>4, <1>5, Zenon DEF Composed
<1>7. pre \in Seq(Nat)
  BY <1>3, <1>4, <1>5, Zenon DEF Composed
<1>8. pt \in Seq(Nat)
  BY <1>4, <1>5, Zenon DEF Composed
<1>9. ee \in Seq(Nat)
  BY <1>4, <1>5, Zenon DEF Composed
<1>10. es \in Seq(Nat)
  BY <1>4, <1>5, Zenon DEF Composed
<1>. QED  BY <1>2, <1>6, <1>7, <1>8, <1>9, <1>10

\* Where the parts of a text stand, from the parts it begins with.
Standing(pointed, scientific, prefixed, s, int, frac, es, ex, t1, t2, t3, t4, t5, t6, T) ==
  /\ Meet(pointed, scientific, prefixed, Len(s), Len(int), Len(frac), Len(es), Len(ex),
          Len(t1), Len(t2), Len(t3), Len(t4), Len(t5), Len(t6), Len(T))
  /\ FoundAt(T, pointed, Len(s), Len(es), Len(t1), Len(t2), Len(t4))
  /\ Stands(s, T, 0) /\ Stands(int, T, Len(t1)) /\ Stands(frac, T, Len(t3))
  /\ Stands(es, T, Len(t5)) /\ Stands(ex, T, Len(t6))

LEMMA Composition ==
  ASSUME NEW pointed \in BOOLEAN, NEW scientific \in BOOLEAN,
         NEW s, NEW pre, NEW int, NEW pt, NEW frac, NEW ee, NEW es, NEW ex,
         Composed(pointed, scientific, s, pre, int, pt, frac, ee, es, ex)
  PROVE  LET t1 == s \o pre
             t2 == t1 \o int
             t3 == t2 \o pt
             t4 == t3 \o frac
             t5 == t4 \o ee
             t6 == t5 \o es
         IN  Standing(pointed, scientific, pre # <<>>, s, int, frac, es, ex,
                      t1, t2, t3, t4, t5, t6, t6 \o ex)
<1> DEFINE t1 == s \o pre
           t2 == t1 \o int
           t3 == t2 \o pt
           t4 == t3 \o frac
           t5 == t4 \o ee
           t6 == t5 \o es
           T == t6 \o ex
<1>1. /\ s \in Seq(Nat) /\ pre \in Seq(Nat) /\ int \in Seq(Nat) /\ pt \in Seq(Nat)
      /\ frac \in Seq(Nat) /\ ee \in Seq(Nat) /\ es \in Seq(Nat) /\ ex \in Seq(Nat)
  BY PartsType, Zenon
<1>2. /\ t1 \in Seq(Nat) /\ t2 \in Seq(Nat) /\ t3 \in Seq(Nat) /\ t4 \in Seq(Nat)
      /\ t5 \in Seq(Nat) /\ t6 \in Seq(Nat) /\ T \in Seq(Nat)
  <2>1. \A u, v \in Seq(Nat) : u \o v \in Seq(Nat)
    BY Joined
  <2>. QED  BY <1>1, <2>1
<1>3. /\ Len(t1) = Len(s) + Len(pre) /\ Len(t2) = Len(t1) + Len(int) /\ Len(t3) = Len(t2) + Len(pt)
      /\ Len(t4) = Len(t3) + Len(frac) /\ Len(t5) = Len(t4) + Len(ee) /\ Len(t6) = Len(t5) + Len(es)
      /\ Len(T) = Len(t6) + Len(ex)
  <2>1. \A u, v \in Seq(Nat) : Len(u \o v) = Len(u) + Len(v)
    BY Joined
  <2>. QED  BY <1>1, <1>2, <2>1
<1>4. Stands(ex, T, Len(t6))
  <2> HIDE DEF t6
  <2>. QED  BY <1>1, <1>2, StandsLast
<1>5. Stands(es, T, Len(t5))
  <2> HIDE DEF t5
  <2>. QED  BY <1>1, <1>2, StandsLast, StandsStill
<1>6. Stands(ee, T, Len(t4))
  <2> HIDE DEF t4
  <2>. QED  BY <1>1, <1>2, StandsLast, StandsStill
<1>7. Stands(frac, T, Len(t3))
  <2> HIDE DEF t3
  <2>. QED  BY <1>1, <1>2, StandsLast, StandsStill
<1>8. Stands(pt, T, Len(t2))
  <2> HIDE DEF t2
  <2>. QED  BY <1>1, <1>2, StandsLast, StandsStill
<1>9. Stands(int, T, Len(t1))
  <2> HIDE DEF t1
  <2>. QED  BY <1>1, <1>2, StandsLast, StandsStill
<1>10. Stands(pre, T, Len(s))
  <2>1. Stands(pre, t1, Len(s))
    BY <1>1, StandsLast
  <2> HIDE DEF t1
  <2>. QED  BY <1>1, <1>2, <2>1, StandsStill
<1>11. Stands(s, T, 0)
  <2>1. Stands(s, s, 0)
    <3>1. s \in Seq(Nat) /\ Len(s) \in Nat /\ \A i \in 1 .. Len(s) : s[i] \in Nat
      BY <1>1, LenProperties, ElementOfSeq
    <3>2. \A i \in 1 .. Len(s) : s[0 + i] = s[i]
      BY <3>1
    <3>. QED  BY <3>1, <3>2 DEF Stands
  <2>2. Stands(s, t1, 0)
    BY <1>1, <2>1, StandsStill
  <2> HIDE DEF t1
  <2>. QED  BY <1>1, <1>2, <2>2, StandsStill
<1>12. /\ Len(s) \in 0 .. 1 /\ (\A i \in 1 .. Len(s) : s[i] \in {Minus, Plus, Space})
       /\ Len(es) \in 0 .. 1 /\ (\A i \in 1 .. Len(es) : es[i] \in {Minus, Plus})
       /\ pre = <<>> => Len(pre) = 0
       /\ pre # <<>> => Len(pre) = 2 /\ pre[1] = 0 /\ pre[2] = X
       /\ ~ pointed => Len(pt) = 0 /\ Len(frac) = 0
       /\ pointed => Len(pt) = 1 /\ pt[1] = Point
       /\ ~ scientific => Len(ee) = 0 /\ Len(es) = 0 /\ Len(ex) = 0
       /\ scientific => Len(ee) = 1 /\ ee[1] = Exp /\ Len(ex) > 0
       /\ Len(int) > 0 /\ (pre = <<>> => int[1] \in Digits)
  <2> HIDE DEF t1, t2, t3, t4, t5, t6, T
  <2>1. Len(<<>>) = 0 /\ \A x : Len(<<x>>) = 1 /\ <<x>>[1] = x /\ <<x>> # <<>>
    OBVIOUS
  <2>2. \A x, y : Len(<<x, y>>) = 2 /\ <<x, y>>[1] = x /\ <<x, y>>[2] = y
    OBVIOUS
  <2>3. Len(s) \in 0 .. 1 /\ (\A i \in 1 .. Len(s) : s[i] \in {Minus, Plus, Space})
    <3>1. s = <<>> \/ \E c \in {Minus, Plus, Space} : s = <<c>>
      BY Zenon DEF Composed
    <3>2. CASE s = <<>>
      BY <2>1, <3>2
    <3>3. CASE \E c \in {Minus, Plus, Space} : s = <<c>>
      <4> PICK c \in {Minus, Plus, Space} : s = <<c>>
        BY <3>3
      <4>1. Len(s) = 1 /\ s[1] = c
        BY <2>1
      <4>2. \A i \in 1 .. Len(s) : i = 1
        BY <4>1
      <4>. QED  BY <4>1, <4>2
    <3>. QED  BY <3>1, <3>2, <3>3
  <2>4. Len(es) \in 0 .. 1 /\ (\A i \in 1 .. Len(es) : es[i] \in {Minus, Plus})
    <3>1. es = <<>> \/ \E c \in {Minus, Plus} : es = <<c>>
      BY Zenon DEF Composed
    <3>2. CASE es = <<>>
      BY <2>1, <3>2
    <3>3. CASE \E c \in {Minus, Plus} : es = <<c>>
      <4> PICK c \in {Minus, Plus} : es = <<c>>
        BY <3>3
      <4>1. Len(es) = 1 /\ es[1] = c
        BY <2>1
      <4>2. \A i \in 1 .. Len(es) : i = 1
        BY <4>1
      <4>. QED  BY <4>1, <4>2
    <3>. QED  BY <3>1, <3>2, <3>3
  <2>5. pre # <<>> => Len(pre) = 2 /\ pre[1] = 0 /\ pre[2] = X
    <3>1. pre # <<>> => pre = <<0, X>>
      BY Zenon DEF Composed
    <3>. QED  BY <2>2, <3>1
  <2>6. /\ ~ pointed => pt = <<>> /\ frac = <<>>
        /\ pointed => pt = <<Point>>
        /\ ~ scientific => ee = <<>> /\ es = <<>> /\ ex = <<>>
        /\ scientific => ee = <<Exp>> /\ Len(ex) > 0
        /\ Len(int) > 0 /\ (pre = <<>> => int[1] \in Digits)
    BY Zenon DEF Composed
  <2>. QED  BY <2>1, <2>3, <2>4, <2>5, <2>6
<1>13. /\ \A i \in 1 .. Len(int) : int[i] \in Figures
       /\ \A i \in 1 .. Len(frac) : frac[i] \in Figures
       /\ \A i \in 1 .. Len(ex) : ex[i] \in Digits
  <2>1. int \in Seq(Figures) /\ frac \in Seq(Figures) /\ ex \in Seq(Digits)
    BY Zenon DEF Composed
  <2>. QED  BY <2>1, ElementOfSeq
<1> HIDE DEF t1, t2, t3, t4, t5, t6, T
<1>14. /\ Len(s) \in Nat /\ Len(pre) \in Nat /\ Len(int) \in Nat /\ Len(pt) \in Nat /\ Len(frac) \in Nat
       /\ Len(ee) \in Nat /\ Len(es) \in Nat /\ Len(ex) \in Nat
       /\ Len(t1) \in Nat /\ Len(t2) \in Nat /\ Len(t3) \in Nat /\ Len(t4) \in Nat
       /\ Len(t5) \in Nat /\ Len(t6) \in Nat /\ Len(T) \in Nat
  BY <1>1, <1>2, LenProperties
<1> DEFINE k1 == Len(t1)
           k2 == Len(t2)
           k3 == Len(t3)
           k4 == Len(t4)
           k5 == Len(t5)
           k6 == Len(t6)
           prefixed == pre # <<>>
<1>16. \A i \in 1 .. Len(s) : T[i] \in {Minus, Plus, Space}
  <2> DEFINE S == {Minus, Plus, Space}
  <2>1. \A i \in 1 .. Len(s) : s[i] \in S
    BY <1>12
  <2> HIDE DEF S
  <2>2. Len(s) = 0 + Len(s) /\ 0 + 1 = 1
    BY <1>14
  <2>3. \A i \in 0 + 1 .. Len(s) : T[i] \in S
    BY <1>11, <2>1, <2>2, StandsIn
  <2>. QED  BY <2>2, <2>3 DEF S
<1>17. prefixed => T[Len(s) + 1] = 0 /\ T[Len(s) + 2] = X
  <2> SUFFICES ASSUME prefixed PROVE T[Len(s) + 1] = pre[1] /\ T[Len(s) + 2] = pre[2]
    BY <1>12
  <2>0. Len(pre) = 2
    BY <1>12
  <2>1. 1 \in 1 .. Len(pre) /\ 2 \in 1 .. Len(pre)
    BY <2>0
  <2>. QED  BY <1>10, <2>1 DEF Stands
<1>18. \A i \in k1 + 1 .. k2 : T[i] \in Figures
  BY <1>3, <1>9, <1>13, StandsIn
<1>19. ~ prefixed => T[k1 + 1] \in Digits
  <2>1. 1 \in 1 .. Len(int)
    BY <1>12, <1>14
  <2>2. T[k1 + 1] = int[1]
    BY <1>9, <2>1 DEF Stands
  <2>. QED  BY <1>12, <2>2
<1>20. pointed => T[k2 + 1] = Point
  <2> SUFFICES ASSUME pointed PROVE T[k2 + 1] = pt[1]
    BY <1>12
  <2>0. Len(pt) = 1
    BY <1>12
  <2>1. 1 \in 1 .. Len(pt)
    BY <2>0
  <2>. QED  BY <1>8, <2>1 DEF Stands
<1>21. \A i \in k3 + 1 .. k4 : T[i] \in Figures
  BY <1>3, <1>7, <1>13, StandsIn
<1>22. scientific => T[k4 + 1] = Exp
  <2> SUFFICES ASSUME scientific PROVE T[k4 + 1] = ee[1]
    BY <1>12
  <2>0. Len(ee) = 1
    BY <1>12
  <2>1. 1 \in 1 .. Len(ee)
    BY <2>0
  <2>. QED  BY <1>6, <2>1 DEF Stands
<1>23. \A i \in k5 + 1 .. k6 : T[i] \in {Minus, Plus}
  <2> DEFINE S == {Minus, Plus}
  <2>1. \A i \in 1 .. Len(es) : es[i] \in S
    BY <1>12
  <2> HIDE DEF S
  <2>3. \A i \in k5 + 1 .. k6 : T[i] \in S
    BY <1>3, <1>5, <2>1, StandsIn
  <2>. QED  BY <2>3 DEF S
<1>24. \A i \in k6 + 1 .. Len(T) : T[i] \in Digits
  BY <1>3, <1>4, <1>13, StandsIn
<1>25. Meet(pointed, scientific, prefixed, Len(s), Len(int), Len(frac), Len(es), Len(ex),
            k1, k2, k3, k4, k5, k6, Len(T))
  <2>1. Len(pre) = (IF prefixed THEN 2 ELSE 0)
    BY <1>12
  <2>2. Len(pt) = (IF pointed THEN 1 ELSE 0)
    BY <1>12
  <2>3. Len(ee) = (IF scientific THEN 1 ELSE 0)
    BY <1>12
  <2> DEFINE ls == Len(s)
             li == Len(int)
             lf == Len(frac)
             les == Len(es)
             lx == Len(ex)
             n == Len(T)
  <2>4. /\ ls \in 0 .. 1 /\ lf \in Nat /\ les \in 0 .. 1 /\ lx \in Nat /\ li \in Nat /\ li > 0
        /\ ~ pointed => lf = 0
        /\ scientific => lx > 0
        /\ ~ scientific => les = 0 /\ lx = 0
    BY <1>12, <1>14
  <2>5. k1 = ls + (IF prefixed THEN 2 ELSE 0) /\ k3 = k2 + (IF pointed THEN 1 ELSE 0)
        /\ k5 = k4 + (IF scientific THEN 1 ELSE 0)
    BY <1>3, <2>1, <2>2, <2>3
  <2>6. /\ k1 \in Nat /\ k2 \in Nat /\ k3 \in Nat /\ k4 \in Nat /\ k5 \in Nat /\ k6 \in Nat /\ n \in Nat
        /\ k2 = k1 + li /\ k4 = k3 + lf /\ k6 = k5 + les /\ n = k6 + lx
    BY <1>3, <1>14
  <2> HIDE DEF prefixed, ls, li, lf, les, lx, n, k1, k2, k3, k4, k5, k6
  <2>7. Meet(pointed, scientific, prefixed, ls, li, lf, les, lx, k1, k2, k3, k4, k5, k6, n)
    BY <2>4, <2>5, <2>6 DEF Meet
  <2>. QED  BY <2>7 DEF ls, li, lf, les, lx, n
<1>26. prefixed \in BOOLEAN
  OBVIOUS
<1> HIDE DEF k1, k2, k3, k4, k5, k6, prefixed
<1>27. FoundAt(T, pointed, Len(s), Len(es), k1, k2, k4)
  BY <1>16, <1>17, <1>18, <1>19, <1>20, <1>21, <1>22, <1>23, <1>24, <1>25, <1>26, Positions
<1>28. Stands(s, T, 0) /\ Stands(int, T, k1) /\ Stands(frac, T, k3) /\ Stands(es, T, k5) /\ Stands(ex, T, k6)
  BY <1>4, <1>5, <1>7, <1>9, <1>11 DEF k1, k3, k5, k6
<1>29. Standing(pointed, scientific, prefixed, s, int, frac, es, ex, t1, t2, t3, t4, t5, t6, T)
  BY <1>25, <1>27, <1>28, Zenon DEF k1, k2, k3, k4, k5, k6, Standing
<1>. QED  BY <1>29, Zenon DEF T, t1, t2, t3, t4, t5, t6, prefixed

\* The parts put together.
Chain(s, pre, int, pt, frac, ee, es, ex) == ((((((s \o pre) \o int) \o pt) \o frac) \o ee) \o es) \o ex

LEMMA Reading ==
  ASSUME NEW b, NEW pointed \in BOOLEAN, NEW scientific \in BOOLEAN,
         NEW s, NEW pre, NEW int, NEW pt, NEW frac, NEW ee, NEW es, NEW ex,
         Composed(pointed, scientific, s, pre, int, pt, frac, ee, es, ex),
         NEW text, text = Chain(s, pre, int, pt, frac, ee, es, ex)
  PROVE  ReadAs(text, b) = [sign |-> s, int |-> int, frac |-> frac, exp |-> ex,
                            power |-> ValueOf(ex, b) * (IF Negative(es) THEN -1 ELSE 1),
                            pointed |-> pointed]
<1> DEFINE t1 == s \o pre
           t2 == t1 \o int
           t3 == t2 \o pt
           t4 == t3 \o frac
           t5 == t4 \o ee
           t6 == t5 \o es
           prefixed == pre # <<>>
<1>1. Standing(pointed, scientific, prefixed, s, int, frac, es, ex, t1, t2, t3, t4, t5, t6, text)
  BY Composition, ZenonT(60) DEF Chain
<1>2. prefixed \in BOOLEAN
  OBVIOUS
<1> HIDE DEF t1, t2, t3, t4, t5, t6, prefixed
<1>3. /\ Meet(pointed, scientific, prefixed, Len(s), Len(int), Len(frac), Len(es), Len(ex),
              Len(t1), Len(t2), Len(t3), Len(t4), Len(t5), Len(t6), Len(text))
      /\ FoundAt(text, pointed, Len(s), Len(es), Len(t1), Len(t2), Len(t4))
      /\ Stands(s, text, 0) /\ Stands(int, text, Len(t1)) /\ Stands(frac, text, Len(t3))
      /\ Stands(es, text, Len(t5)) /\ Stands(ex, text, Len(t6))
  BY <1>1, Zenon DEF Standing
<1> DEFINE k1 == Len(t1)
           k2 == Len(t2)
           k3 == Len(t3)
           k4 == Len(t4)
           k5 == Len(t5)
           k6 == Len(t6)
           T == text
<1>4. /\ Meet(pointed, scientific, prefixed, Len(s), Len(int), Len(frac), Len(es), Len(ex),
              k1, k2, k3, k4, k5, k6, Len(T))
      /\ FoundAt(T, pointed, Len(s), Len(es), k1, k2, k4)
      /\ Stands(s, T, 0) /\ Stands(int, T, k1) /\ Stands(frac, T, k3)
      /\ Stands(es, T, k5) /\ Stands(ex, T, k6)
  BY <1>3
<1> HIDE DEF k1, k2, k3, k4, k5, k6, T
<1>5. ReadAs(T, b) = [sign |-> s, int |-> int, frac |-> frac, exp |-> ex,
                      power |-> ValueOf(ex, b) * (IF Negative(es) THEN -1 ELSE 1), pointed |-> pointed]
  BY <1>2, <1>4, Parted
<1>. QED  BY <1>5 DEF T

\* A text behind its sign.
Shows(t, pointed, scientific, pre, int, frac, es, ex) ==
  \E pt, ee : /\ Composed(pointed, scientific, <<>>, pre, int, pt, frac, ee, es, ex)
              /\ t = pre \o (int \o (pt \o (frac \o (ee \o (es \o ex)))))

Texts(s, a, b, c, d, e, f, g) == /\ s \in Seq(Nat) /\ a \in Seq(Nat) /\ b \in Seq(Nat) /\ c \in Seq(Nat)
                                 /\ d \in Seq(Nat) /\ e \in Seq(Nat) /\ f \in Seq(Nat) /\ g \in Seq(Nat)

Regrouped(s, a, b, c, d, e, f, g) ==
  /\ s \o (a \o (b \o (c \o (d \o (e \o (f \o g))))))
     = ((((((s \o a) \o b) \o c) \o d) \o e) \o f) \o g
  /\ ((((((s \o a) \o b) \o c) \o d) \o e) \o f) \o g
     = ((((s \o a) \o b) \o c) \o d) \o ((e \o f) \o g)
  /\ (s \o a) \o b \in Seq(Nat) /\ (e \o f) \o g \in Seq(Nat)
  /\ a \o (b \o (c \o (d \o (e \o (f \o g))))) \in Seq(Nat)

LEMMA Nested ==
  ASSUME NEW s, NEW a, NEW b, NEW c, NEW d, NEW e, NEW f, NEW g, Texts(s, a, b, c, d, e, f, g)
  PROVE  Regrouped(s, a, b, c, d, e, f, g)
<1> DEFINE r1 == f \o g
           r2 == e \o r1
           r3 == d \o r2
           r4 == c \o r3
           r5 == b \o r4
           t1 == s \o a
           t2 == t1 \o b
           t3 == t2 \o c
           t4 == t3 \o d
           t5 == t4 \o e
<1>0. /\ r1 = f \o g /\ r2 = e \o r1 /\ r3 = d \o r2 /\ r4 = c \o r3 /\ r5 = b \o r4
      /\ t1 = s \o a /\ t2 = t1 \o b /\ t3 = t2 \o c /\ t4 = t3 \o d /\ t5 = t4 \o e
  OBVIOUS
<1> HIDE DEF r1, r2, r3, r4, r5, t1, t2, t3, t4, t5
<1>s. s \in Seq(Nat) /\ a \in Seq(Nat)
  BY DEF Texts
<1>b. b \in Seq(Nat) /\ c \in Seq(Nat)
  BY DEF Texts
<1>d. d \in Seq(Nat) /\ e \in Seq(Nat)
  BY DEF Texts
<1>f. f \in Seq(Nat) /\ g \in Seq(Nat)
  BY DEF Texts
<1>1. r1 \in Seq(Nat) /\ t1 \in Seq(Nat)
  BY <1>0, <1>s, <1>f, Joining, Zenon
<1>2. r2 \in Seq(Nat) /\ t2 \in Seq(Nat)
  BY <1>0, <1>1, <1>b, <1>d, Joining, Zenon
<1>3. r3 \in Seq(Nat) /\ t3 \in Seq(Nat)
  BY <1>0, <1>2, <1>b, <1>d, Joining, Zenon
<1>4. r4 \in Seq(Nat) /\ t4 \in Seq(Nat)
  BY <1>0, <1>3, <1>b, <1>d, Joining, Zenon
<1>5. r5 \in Seq(Nat) /\ t5 \in Seq(Nat) /\ a \o r5 \in Seq(Nat)
  <2>1. r5 \in Seq(Nat) /\ t5 \in Seq(Nat)
    BY <1>0, <1>4, <1>b, <1>d, Joining, ZenonT(60)
  <2>. QED  BY <2>1, <1>s, Joining, ZenonT(60)
<1>6. (s \o a) \o r5 = s \o (a \o r5)
  BY <1>5, <1>s, Grouping, ZenonT(60)
<1>7. (t1 \o b) \o r4 = t1 \o (b \o r4)
  BY <1>1, <1>4, <1>b, Grouping, ZenonT(60)
<1>8. (t2 \o c) \o r3 = t2 \o (c \o r3)
  BY <1>2, <1>3, <1>b, Grouping, ZenonT(60)
<1>9. (t3 \o d) \o r2 = t3 \o (d \o r2)
  BY <1>3, <1>2, <1>d, Grouping, ZenonT(60)
<1>10. (t4 \o e) \o r1 = t4 \o (e \o r1)
  BY <1>4, <1>1, <1>d, Grouping, ZenonT(60)
<1>11. (t5 \o f) \o g = t5 \o (f \o g)
  BY <1>5, <1>f, Grouping, ZenonT(60)
<1>12. s \o (a \o r5) = t4 \o r2
  BY <1>0, <1>6, <1>7, <1>8, <1>9
<1>13. t4 \o r2 = (t5 \o f) \o g
  BY <1>0, <1>10, <1>11
<1>14. (e \o f) \o g = r2
  <2>1. (e \o f) \o g = e \o (f \o g)
    BY <1>d, <1>f, Grouping, Zenon
  <2>. QED  BY <1>0, <2>1
<1>15. /\ s \o (a \o r5) = (t5 \o f) \o g
       /\ (t5 \o f) \o g = t4 \o ((e \o f) \o g)
       /\ t2 \in Seq(Nat) /\ (e \o f) \o g \in Seq(Nat) /\ a \o r5 \in Seq(Nat)
  BY <1>2, <1>5, <1>12, <1>13, <1>14, Zenon
<1>. QED  BY <1>15 DEF r1, r2, r3, r4, r5, t1, t2, t3, t4, t5, Regrouped

SignTexts == {<<>>, <<Minus>>, <<Plus>>, <<Space>>}

\* The two ways to read a text from its parts.
ShownBy(s, t, pointed, scientific, pre, int, pt, frac, ee, es, ex) ==
  /\ Composed(pointed, scientific, s, pre, int, pt, frac, ee, es, ex)
  /\ Texts(s, pre, int, pt, frac, ee, es, ex)
  /\ s \o t = Chain(s, pre, int, pt, frac, ee, es, ex)
  /\ s \o t = ((((s \o pre) \o int) \o pt) \o frac) \o ((ee \o es) \o ex)

LEMMA ShownParts ==
  ASSUME NEW s \in SignTexts, NEW t, NEW pointed, NEW scientific, NEW pre, NEW int, NEW frac, NEW es, NEW ex,
         Shows(t, pointed, scientific, pre, int, frac, es, ex)
  PROVE  \E pt, ee : ShownBy(s, t, pointed, scientific, pre, int, pt, frac, ee, es, ex)
<1>1. PICK pt, ee : /\ Composed(pointed, scientific, <<>>, pre, int, pt, frac, ee, es, ex)
                    /\ t = pre \o (int \o (pt \o (frac \o (ee \o (es \o ex)))))
  BY DEF Shows
<1>2. Composed(pointed, scientific, s, pre, int, pt, frac, ee, es, ex)
  BY <1>1, Zenon DEF Composed, SignTexts
<1>3. Texts(s, pre, int, pt, frac, ee, es, ex)
  BY <1>2, PartsType, Zenon DEF Texts
<1>4. Regrouped(s, pre, int, pt, frac, ee, es, ex)
  BY <1>3, Nested, Zenon
<1>5. /\ s \o t = Chain(s, pre, int, pt, frac, ee, es, ex)
      /\ s \o t = ((((s \o pre) \o int) \o pt) \o frac) \o ((ee \o es) \o ex)
  BY <1>1, <1>4 DEF Regrouped, Chain
<1>6. ShownBy(s, t, pointed, scientific, pre, int, pt, frac, ee, es, ex)
  BY <1>2, <1>3, <1>5, Zenon DEF ShownBy
<1>. QED  BY <1>6, Zenon

LEMMA ShownRead ==
  ASSUME NEW b, NEW s \in SignTexts, NEW t, NEW pointed \in BOOLEAN, NEW scientific \in BOOLEAN,
         NEW pre, NEW int, NEW frac, NEW es, NEW ex,
         Shows(t, pointed, scientific, pre, int, frac, es, ex)
  PROVE  ReadAs(s \o t, b) = [sign |-> s, int |-> int, frac |-> frac, exp |-> ex,
                              power |-> ValueOf(ex, b) * (IF Negative(es) THEN -1 ELSE 1),
                              pointed |-> pointed]
<1>1. PICK pt, ee : ShownBy(s, t, pointed, scientific, pre, int, pt, frac, ee, es, ex)
  BY ShownParts, Zenon
<1> DEFINE text == s \o t
<1>2. /\ Composed(pointed, scientific, s, pre, int, pt, frac, ee, es, ex)
      /\ text = Chain(s, pre, int, pt, frac, ee, es, ex)
  BY <1>1, Zenon DEF ShownBy
<1> HIDE DEF text
<1>3. ReadAs(text, b) = [sign |-> s, int |-> int, frac |-> frac, exp |-> ex,
                         power |-> ValueOf(ex, b) * (IF Negative(es) THEN -1 ELSE 1), pointed |-> pointed]
  BY <1>2, Reading
<1>. QED  BY <1>3 DEF text

\* How a text comes to show a number.
PointIf(pointed) == IF pointed THEN <<Point>> ELSE <<>>

LengthSum(t, u, v, w) == t \in Seq(Nat) /\ Len(t) = Len(u) + (Len(v) + Len(w))
Plainly(t, pointed, int, frac) ==
  /\ int \in Seq(Digits) /\ Len(int) > 0 /\ frac \in Seq(Digits) /\ (~ pointed => frac = <<>>)
  /\ t = int \o (PointIf(pointed) \o frac)

LEMMA ShowsFixed ==
  ASSUME NEW t, NEW pointed \in BOOLEAN, NEW int, NEW frac, Plainly(t, pointed, int, frac)
  PROVE  /\ Shows(t, pointed, FALSE, <<>>, int, frac, <<>>, <<>>)
         /\ LengthSum(t, int, PointIf(pointed), frac)
<1> DEFINE pt == PointIf(pointed)
<1>0. /\ int \in Seq(Digits) /\ Len(int) > 0 /\ frac \in Seq(Digits) /\ (~ pointed => frac = <<>>)
      /\ t = int \o (pt \o frac) /\ pt = PointIf(pointed)
  BY DEF Plainly
<1> HIDE DEF pt
<1>1. /\ int \in Seq(Figures) /\ frac \in Seq(Figures) /\ int[1] \in Digits
      /\ <<>> \in Seq(Digits) /\ <<>> \in Seq(Nat)
  <2>1. Digits \subseteq Figures
    BY DEF Digits, Figures, Space, Exp, X
  <2>2. int[1] \in Digits
    BY <1>0, ElementOfSeq
  <2>3. int \in Seq(Figures) /\ frac \in Seq(Figures)
    BY <1>0, <2>1, SeqMonotonic
  <2>. QED  BY <2>2, <2>3, EmptySeq
<1>2. Composed(pointed, FALSE, <<>>, <<>>, int, pt, frac, <<>>, <<>>, <<>>)
  BY <1>0, <1>1, Zenon DEF Composed, PointIf
<1>3. int \in Seq(Nat) /\ pt \in Seq(Nat) /\ frac \in Seq(Nat)
  BY <1>2, PartsType, Zenon
<1>4. pt \o frac \in Seq(Nat) /\ t \in Seq(Nat)
  BY <1>0, <1>3, Joining, Zenon
<1>5. Len(t) = Len(int) + (Len(pt) + Len(frac))
  <2>1. Len(int \o (pt \o frac)) = Len(int) + Len(pt \o frac)
    BY <1>3, <1>4, Joining, Zenon
  <2>2. Len(pt \o frac) = Len(pt) + Len(frac)
    BY <1>3, Joining, Zenon
  <2>. QED  BY <1>0, <2>1, <2>2, Zenon
<1>6. t = <<>> \o (int \o (pt \o (frac \o (<<>> \o (<<>> \o <<>>)))))
  <2> DEFINE none == <<>>
  <2>1. none \o none = none
    BY EmptySeq, ConcatEmptySeq
  <2>2. frac \o none = frac
    BY <1>3, ConcatEmptySeq
  <2>3. none \o t = t
    BY <1>4, ConcatEmptySeq
  <2> HIDE DEF none
  <2>4. t = none \o (int \o (pt \o (frac \o (none \o (none \o none)))))
    BY <1>0, <2>1, <2>2, <2>3, Zenon
  <2>. QED  BY <2>4 DEF none
<1>7. Shows(t, pointed, FALSE, <<>>, int, frac, <<>>, <<>>)
  BY <1>2, <1>6, Zenon DEF Shows
<1>. QED  BY <1>0, <1>4, <1>5, <1>7 DEF LengthSum

\* The text of a number with an exponent.
Parcel(t, pointed, pre, int, frac, es, ex) ==
  /\ pre \in {<<>>, <<0, X>>} /\ int \in Seq(Figures) /\ Len(int) > 0 /\ (pre = <<>> => int[1] \in Digits)
  /\ frac \in Seq(Figures) /\ (~ pointed => frac = <<>>)
  /\ es \in {<<>>, <<Minus>>, <<Plus>>} /\ ex \in Seq(Digits) /\ Len(ex) > 0
  /\ t = (pre \o (int \o (PointIf(pointed) \o frac))) \o (<<Exp>> \o (es \o ex))

LEMMA ShowsScientific ==
  ASSUME NEW t, NEW pointed \in BOOLEAN, NEW pre, NEW int, NEW frac, NEW es, NEW ex,
         Parcel(t, pointed, pre, int, frac, es, ex)
  PROVE  Shows(t, pointed, TRUE, pre, int, frac, es, ex)
<1> DEFINE ee == <<Exp>>
           tail == ee \o (es \o ex)
           pt == PointIf(pointed)
           head == int \o (pt \o frac)
<1>0. /\ pre \in {<<>>, <<0, X>>} /\ int \in Seq(Figures) /\ Len(int) > 0 /\ (pre = <<>> => int[1] \in Digits)
      /\ frac \in Seq(Figures) /\ (~ pointed => frac = <<>>)
      /\ es \in {<<>>, <<Minus>>, <<Plus>>} /\ ex \in Seq(Digits) /\ Len(ex) > 0
      /\ t = (pre \o head) \o tail
  BY Zenon DEF Parcel
<1>1. Composed(pointed, TRUE, <<>>, pre, int, pt, frac, ee, es, ex)
  <2>1. ee = (IF TRUE THEN <<Exp>> ELSE <<>>)
    OBVIOUS
  <2> HIDE DEF ee
  <2>. QED  BY <1>0, <2>1, Zenon DEF Composed, PointIf
<1>2. /\ pre \in Seq(Nat) /\ int \in Seq(Nat) /\ pt \in Seq(Nat) /\ frac \in Seq(Nat)
  BY <1>1, PartsType, Zenon
<1>3. ee \in Seq(Nat) /\ es \in Seq(Nat) /\ ex \in Seq(Nat)
  BY <1>1, PartsType, Zenon
<1>4. tail = ee \o (es \o ex) /\ head = int \o (pt \o frac) /\ t = (pre \o head) \o tail
  BY <1>0
<1> HIDE DEF ee, tail, head, pt
<1>5. tail \in Seq(Nat)
  BY <1>3, <1>4, Joining, Zenon
<1>6. pt \o frac \in Seq(Nat) /\ head \in Seq(Nat)
  BY <1>2, <1>4, Joining, Zenon
<1>7. (pre \o head) \o tail = pre \o (head \o tail)
  <2>1. pre \in Seq(Nat)
    BY <1>2
  <2>2. head \in Seq(Nat)
    BY <1>6
  <2>. QED  BY <1>5, <2>1, <2>2, Grouping, Zenon
<1>8. (int \o (pt \o frac)) \o tail = int \o ((pt \o frac) \o tail)
  <2>1. int \in Seq(Nat)
    BY <1>2
  <2>2. pt \o frac \in Seq(Nat)
    BY <1>6
  <2>. QED  BY <1>5, <2>1, <2>2, Grouping, Zenon
<1>9. (pt \o frac) \o tail = pt \o (frac \o tail)
  BY <1>2, <1>5, Grouping, ZenonT(60)
<1>10. t = pre \o (int \o (pt \o (frac \o tail)))
  BY <1>4, <1>7, <1>8, <1>9, Zenon
<1>11. t = pre \o (int \o (pt \o (frac \o (ee \o (es \o ex)))))
  BY <1>4, <1>10, Zenon
<1>. QED  BY <1>1, <1>11, Zenon DEF Shows


---------------------------------------------------------------------------
(* Texts behind each other. *)

\* Digits behind digits spell the number they make together.
SpellTogether(x, y, b, m, n) == Spelled(x, b, m) \o Spelled(y, b, n) = Spelled(x * b ^ n + y, b, m + n)

LEMMA SpelledConcat ==
  ASSUME NEW b \in Nat \ {0, 1}, NEW m \in Nat, NEW n \in Nat, PowersUpTo(b, m + n),
         NEW x \in Nat, NEW y \in Nat, y < b ^ n
  PROVE  SpellTogether(x, y, b, m, n)
<1> DEFINE u == Spelled(x, b, m)
           v == Spelled(y, b, n)
           z == x * b ^ n + y
           w == Spelled(z, b, m + n)
           S == 0 .. b - 1
<1>1. PowersUpTo(b, m) /\ PowersUpTo(b, n) /\ b \in Nat \ {0}
  BY DEF PowersUpTo
<1>2. \A k \in 0 .. m + n : b ^ k \in Nat \ {0}
  BY <1>1, PowerPositive
<1>3. n \in 0 .. m + n /\ b ^ n \in Nat \ {0} /\ x * b ^ n \in Nat /\ z \in Nat
  BY <1>2
<1>4. /\ u \in Seq(S) /\ Len(u) = m
      /\ \A i \in 1 .. m : u[i] = (x \div b ^ (m - i)) % b
  BY <1>1, SpelledType, ZenonT(60)
<1>5. /\ v \in Seq(S) /\ Len(v) = n
      /\ \A i \in 1 .. n : v[i] = (y \div b ^ (n - i)) % b
  BY <1>1, SpelledType, ZenonT(60)
<1> HIDE DEF z
<1>6. /\ w \in Seq(S) /\ Len(w) = m + n
      /\ \A i \in 1 .. m + n : w[i] = (z \div b ^ (m + n - i)) % b
  <2> DEFINE most == m + n
  <2>1. most \in Nat /\ PowersUpTo(b, most)
    OBVIOUS
  <2> HIDE DEF most, S
  <2>2. /\ Spelled(z, b, most) \in Seq(0 .. b - 1) /\ Len(Spelled(z, b, most)) = most
        /\ \A i \in 1 .. most : Spelled(z, b, most)[i] = (z \div b ^ (most - i)) % b
    <3>1. z \in Nat
      BY <1>3
    <3> QED
      BY <2>1, <3>1, SpelledType, Zenon
  <2> QED
    BY <2>2 DEF most, S
<1> HIDE DEF u, v, w, S
<1>7. /\ u \o v \in Seq(S) /\ Len(u \o v) = m + n
      /\ \A i \in 1 .. m : (u \o v)[i] = u[i]
      /\ \A i \in 1 .. n : (u \o v)[m + i] = v[i]
  <2>1. u \in Seq(S) /\ v \in Seq(S)
    BY <1>4, <1>5
  <2>2. /\ u \o v \in Seq(S) /\ Len(u \o v) = Len(u) + Len(v)
        /\ \A i \in 1 .. Len(u) : (u \o v)[i] = u[i]
        /\ \A i \in 1 .. Len(v) : (u \o v)[Len(u) + i] = v[i]
    BY <2>1
  <2> QED
    BY <1>4, <1>5, <2>2
<1>8. ASSUME NEW i \in 1 .. m PROVE (u \o v)[i] = w[i]
  <2> DEFINE p == b ^ (m - i)
             q == b ^ n
  <2>1. m - i \in 0 .. m + n /\ m - i \in Nat /\ i \in 1 .. m + n /\ p \in Nat \ {0} /\ q \in Nat \ {0}
    BY <1>2, <1>3
  <2>2. b ^ (m + n - i) = p * q
    <3>1. (m - i) + n = m + n - i /\ (m - i) + n <= m + n
      OBVIOUS
    <3> QED
      BY <1>1, <2>1, <3>1, PowerSum
  <2> HIDE DEF p, q
  <2>3. z \div q = x
    <3>1. z = q * x + y /\ y \in 0 .. q - 1
      BY <1>3, <2>1 DEF z, q
    <3> QED
      BY <1>3, <2>1, <3>1, DivModIs
  <2>4. (z \div q) \div p = z \div (p * q)
    BY <1>3, <2>1, DivDiv
  <2> QED
    BY <1>4, <1>6, <1>7, <2>1, <2>2, <2>3, <2>4, SMTT(60) DEF p
<1>9. ASSUME NEW i \in 1 .. n PROVE (u \o v)[m + i] = w[m + i]
  <2> DEFINE p == b ^ (n - i)
             q == b ^ (i - 1)
             d == y \div p
             e == y % p
             h == d \div b
             r == d % b
  <2>1. /\ n - i \in 0 .. m + n /\ i - 1 \in 0 .. m + n /\ p \in Nat \ {0} /\ q \in Nat \ {0}
        /\ m + i \in 1 .. m + n /\ m + n - (m + i) = n - i
    BY <1>2
  <2>2. b ^ n = p * (b * q)
    <3>1. (i - 1) + 1 = i /\ i - 1 \in 0 .. (m + n) - 1 /\ i \in Nat /\ n - i \in Nat /\ (n - i) + i = n /\ n <= m + n
      OBVIOUS
    <3>2. b ^ i = b * q
      BY <3>1 DEF PowersUpTo
    <3>3. b ^ ((n - i) + i) = p * b ^ i
      BY <1>1, <3>1, PowerSum
    <3> QED
      BY <3>1, <3>2, <3>3
  <2>3. d \in Nat /\ e \in 0 .. p - 1 /\ y = p * d + e
    BY <2>1, DivMod
  <2>4. h \in Nat /\ r \in 0 .. b - 1 /\ d = b * h + r
    <3> HIDE DEF d
    <3> QED
      BY <1>1, <2>3, DivMod
  <2> HIDE DEF p, q, d, e, h, r
  <2>5. x * q \in Nat /\ b * (x * q) + d \in Nat
    BY <2>1, <2>3, <2>4
  <2>6. z = p * (b * (x * q) + d) + e
    <3>1. x * (p * (b * q)) = p * (b * (x * q))
      <4>1. x * (p * (b * q)) = p * (x * (b * q)) /\ x * (b * q) = b * (x * q)
        BY <2>1, Swapped
      <4> QED
        BY <4>1
    <3>2. p * (b * (x * q) + d) = p * (b * (x * q)) + p * d
      BY <2>1, <2>3, <2>5
    <3>3. p * (b * (x * q)) \in Nat /\ p * d \in Nat /\ e \in Nat
      BY <2>1, <2>3, <2>5
    <3> QED
      BY <2>2, <2>3, <3>1, <3>2, <3>3 DEF z
  <2>7. z \div p = b * (x * q) + d
    <3> DEFINE c == b * (x * q) + d
    <3>1. c \in Nat /\ z = p * c + e
      BY <2>5, <2>6
    <3> HIDE DEF c
    <3>2. z \div p = c
      BY <1>3, <2>1, <2>3, <3>1, DivModIs
    <3> QED
      BY <3>2 DEF c
  <2>8. x * q + h \in Nat /\ b * (x * q) + d = b * (x * q + h) + r
    <3>1. b * (x * q + h) = b * (x * q) + b * h
      BY <2>4, <2>5
    <3>2. b * (x * q) \in Nat /\ b * h \in Nat /\ r \in Nat
      BY <2>4, <2>5
    <3> QED
      BY <2>4, <2>5, <3>1, <3>2
  <2>9. (z \div p) % b = r
    BY <1>1, <2>4, <2>5, <2>7, <2>8, DivModIs
  <2> QED
    BY <1>5, <1>6, <1>7, <2>1, <2>9, SMTT(60) DEF p, r, d
<1>10. \A i \in 1 .. m + n : (u \o v)[i] = w[i]
  <2> TAKE i \in 1 .. m + n
  <2>0. i <= m \/ i > m
    OBVIOUS
  <2>1. CASE i <= m
    <3>1. i \in 1 .. m
      BY <2>1
    <3> QED
      BY <1>8, <3>1
  <2>2. CASE i > m
    <3> DEFINE j == i - m
    <3>1. j \in 1 .. n /\ m + j = i
      BY <2>2
    <3> HIDE DEF j
    <3>2. (u \o v)[m + j] = w[m + j]
      BY <1>9, <3>1
    <3> QED
      BY <3>1, <3>2
  <2> QED
    BY <2>0, <2>1, <2>2, Zenon
<1>11. u \o v = w
  <2>1. u \o v \in Seq(S) /\ w \in Seq(S) /\ Len(u \o v) = Len(w) /\ Len(w) = m + n
    BY <1>6, <1>7
  <2> QED
    BY <1>10, <2>1, SeqEqual
<1> QED
  BY <1>11 DEF u, v, w, z, SpellTogether

=============================================================================
