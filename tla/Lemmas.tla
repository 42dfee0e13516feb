---------------------------------- MODULE Lemmas -------------------------------
(***************************************************************************)
(* What the operators compute that the models share, for every list of     *)
(* events and intervals, and what the proofs of several components need of *)
(* numbers and lists: division into blocks of equal size (chunks,          *)
(* partitions), least and greatest elements, induction over sets of        *)
(* numbers and the existence of recursive functions; then selecting,       *)
(* adding and sorting; the timeline algebra, at which times its results    *)
(* are true, how their intervals lie and how long they last; and the turns *)
(* of a query.                                                             *)
(***************************************************************************)
EXTENDS QueryOperations, WellFoundedInduction, FiniteSetTheorems, TLAPS

--------------------------------------------------------------------------------
(* Numbers.                                                                *)

\* Integer division rounds down.
LEMMA DivBounds ==
  ASSUME NEW m \in Nat, NEW n \in Nat, n > 0
  PROVE  /\ m \div n \in Nat
         /\ n * (m \div n) <= m
         /\ m < n * (m \div n) + n
OBVIOUS

\* Blocks of size n are ordered: if e lies after the start of block j and not
\* after the end of block k, then j is not after k.
LEMMA BlocksAreOrdered ==
  ASSUME NEW j \in Nat, NEW k \in Nat, NEW n \in Nat, NEW e \in Nat,
         n > 0, j * n < e, e <= (k + 1) * n
  PROVE  j <= k
OBVIOUS

\* A nonempty set of natural numbers has a least element.
LEMMA LeastNumber ==
  ASSUME NEW T, T \subseteq Nat, T # {}
  PROVE  \E m \in T : \A n \in T : m <= n
<1> DEFINE R == OpToRel(<, Nat)
<1>1. \E m \in T : \A n \in T : ~(<<n, m>> \in R)
  <2>1. IsWellFoundedOn(R, Nat)
    BY NatLessThanWellFounded
  <2>2. QED
    BY <2>1, WFMin
<1>2. \A m, n \in Nat : ~(<<n, m>> \in R) => m <= n
  BY DEF OpToRel
<1>3. QED
  BY <1>1, <1>2

\* A nonempty set of numbers up to a bound has a greatest element.
LEMMA GreatestNumber ==
  ASSUME NEW bound \in Nat, NEW T, T \subseteq 0 .. bound, T # {}
  PROVE  \E m \in T : \A n \in T : n <= m
<1> DEFINE U == {bound - n : n \in T}
<1>1. U \subseteq Nat /\ U # {}
  <2>1. \A n \in T : bound - n \in Nat
    OBVIOUS
  <2>2. PICK n \in T : TRUE
    OBVIOUS
  <2>3. bound - n \in U
    OBVIOUS
  <2>4. QED
    BY <2>1, <2>3
<1>2. PICK u \in U : \A v \in U : u <= v
  BY <1>1, LeastNumber
<1>3. PICK m \in T : u = bound - m
  BY <1>2
<1>4. ASSUME NEW n \in T PROVE n <= m
  <2>1. u <= bound - n
    BY <1>2
  <2>2. QED
    BY <1>3, <2>1
<1>5. QED
  BY <1>4

\* Induction up to a bound, over a set of numbers.
LEMMA Induction ==
  ASSUME NEW m \in Nat, NEW S, 0 \in S, \A n \in 0 .. m - 1 : n \in S => n + 1 \in S
  PROVE  \A n \in 0 .. m : n \in S
<1> DEFINE T == {n \in 0 .. m : n \notin S}
<1>1. ASSUME NEW n \in T, \A k \in T : n <= k PROVE FALSE
  <2>1. n \in 0 .. m /\ n # 0 /\ n \notin S
    OBVIOUS
  <2>2. n - 1 \in 0 .. m - 1 /\ n - 1 \in 0 .. m /\ n - 1 \notin T
    BY <1>1, <2>1
  <2>3. QED
    BY <2>1, <2>2
<1>2. T = {}
  <2>1. T \subseteq Nat
    OBVIOUS
  <2>2. QED
    BY <1>1, <2>1, LeastNumber
<1>3. QED
  BY <1>2

\* What F makes of a function of n depends on the function at lower numbers only.
Causal(F, numbers) ==
  \A f, g \in DOMAIN F : \A n \in numbers :
    (\A k \in numbers : k < n => f[k] = g[k]) => F[f][n] = F[g][n]

HasFixedPoint(F) == \E f \in DOMAIN F : f = F[f]

\* Recursive functions exist: such an F has a fixed point.
LEMMA RecursionExists ==
  ASSUME NEW a \in 0 .. 1, NEW m \in Nat, NEW U, U # {},
         NEW F \in [[a .. m -> U] -> [a .. m -> U]], Causal(F, a .. m)
  PROVE  HasFixedPoint(F)
<1> DEFINE Functions == [a .. m -> U]
           S == {n \in 0 .. m + 1 : \E f \in Functions : \A k \in a .. m : k < n => f[k] = F[f][k]}
<1>1. 0 \in S
  <2>1. PICK u \in U : TRUE
    OBVIOUS
  <2> DEFINE g == [k \in a .. m |-> u]
  <2>2. g \in Functions /\ \A k \in a .. m : ~(k < 0)
    OBVIOUS
  <2> HIDE DEF g
  <2>3. \E f \in Functions : \A k \in a .. m : k < 0 => f[k] = F[f][k]
    BY <2>2
  <2>4. QED
    BY <2>3
<1>2. ASSUME NEW n \in 0 .. m, n \in S PROVE n + 1 \in S
  <2>1. PICK f \in Functions : \A k \in a .. m : k < n => f[k] = F[f][k]
    BY <1>2
  <2> DEFINE g == [k \in a .. m |-> IF k = n THEN F[f][n] ELSE f[k]]
  <2>2. g \in Functions
    OBVIOUS
  <2>3. \A k \in a .. m : k < n => g[k] = f[k]
    OBVIOUS
  <2>4. n \in a .. m => g[n] = F[f][n]
    OBVIOUS
  <2> HIDE DEF g
  <2>5. ASSUME NEW k \in a .. m, k < n + 1 PROVE g[k] = F[g][k]
    <3>1. \A j \in a .. m : j < k => f[j] = g[j]
      BY <2>3, <2>5
    <3>2. F[f][k] = F[g][k]
      BY <2>2, <3>1 DEF Causal
    <3>3. CASE k = n
      BY <2>4, <3>2, <3>3
    <3>4. CASE k < n
      BY <2>1, <2>3, <3>2, <3>4
    <3>5. QED
      BY <2>5, <3>3, <3>4
  <2>6. QED
    BY <2>2, <2>5
<1>3. \A n \in 0 .. m + 1 : n \in S
  <2> HIDE DEF S
  <2>1. m + 1 \in Nat
    OBVIOUS
  <2>2. \A n \in 0 .. (m + 1) - 1 : n \in S => n + 1 \in S
    BY <1>2
  <2>3. QED
    BY <1>1, <2>1, <2>2, Induction
<1>4. PICK f \in Functions : \A k \in a .. m : k < m + 1 => f[k] = F[f][k]
  <2>1. m + 1 \in 0 .. m + 1
    OBVIOUS
  <2>2. m + 1 \in S
    BY <1>3, <2>1, Zenon
  <2>3. QED
    BY <2>2
<1>5. \A k \in a .. m : f[k] = F[f][k]
  BY <1>4
<1>6. f = F[f]
  BY <1>5
<1>7. QED
  BY <1>6 DEF HasFixedPoint

--------------------------------------------------------------------------------
(* What Select computes.                                                   *)

\* Of the first n elements of s those are kept that f says of the first n - 1, and
\* the n-th if it is wanted.
Kept(f, s, wanted, n) ==
  IF n = 0 THEN <<>>
  ELSE IF s[n] \in wanted THEN Append(f[n - 1], s[n]) ELSE f[n - 1]

Selects(f, s, wanted) == f = [n \in 0 .. Len(s) |-> Kept(f, s, wanted, n)]

\* What Select has kept after n turns.
LEMMA SelectsStep ==
  ASSUME NEW s, NEW wanted, NEW f, Selects(f, s, wanted)
  PROVE  \A n \in 0 .. Len(s) : f[n] = Kept(f, s, wanted, n)
BY DEF Selects

\* The recursion of Select defines a function.
LEMMA SelectUnfolds ==
  ASSUME NEW E, NEW s \in Seq(E), NEW wanted
  PROVE  \E f : Selects(f, s, wanted) /\ Select(s, wanted) = f[Len(s)]
<1> DEFINE U == Seq(E)
           Functions == [0 .. Len(s) -> U]
           F == [f \in Functions |-> [n \in 0 .. Len(s) |-> Kept(f, s, wanted, n)]]
<1>1. Len(s) \in Nat /\ U # {} /\ 0 \in 0 .. 1
  OBVIOUS
<1>2. ASSUME NEW f \in Functions, NEW n \in 0 .. Len(s) PROVE Kept(f, s, wanted, n) \in U
  <2>1. CASE n = 0
    BY <2>1 DEF Kept
  <2>2. CASE n # 0
    <3>1. s[n] \in E /\ f[n - 1] \in Seq(E)
      BY <2>2
    <3>2. QED
      BY <2>2, <3>1 DEF Kept
  <2>3. QED
    BY <2>1, <2>2
<1>3. F \in [Functions -> Functions]
  BY <1>2
<1>4. ASSUME NEW f \in Functions, NEW g \in Functions, NEW n \in 0 .. Len(s),
             \A k \in 0 .. Len(s) : k < n => f[k] = g[k]
      PROVE  F[f][n] = F[g][n]
  <2>1. n # 0 => f[n - 1] = g[n - 1]
    BY <1>4
  <2>2. QED
    BY <2>1 DEF Kept
<1>5. Causal(F, 0 .. Len(s))
  BY <1>3, <1>4 DEF Causal
<1>6. HasFixedPoint(F)
  <2> HIDE DEF U, F
  <2>1. QED
    BY <1>1, <1>3, <1>5, RecursionExists
<1>7. \E f : Selects(f, s, wanted)
  BY <1>6 DEF Selects, HasFixedPoint
<1>8. QED
  BY <1>7 DEF Select, Selects, Kept

\* What is kept of the first n elements depends on nothing else.
LEMMA SelectsAgree ==
  ASSUME NEW s, NEW t, NEW wanted, NEW f, NEW g, Selects(f, s, wanted), Selects(g, t, wanted),
         NEW l \in Nat, l <= Len(s), l <= Len(t), Len(s) \in Nat, Len(t) \in Nat,
         \A i \in 1 .. l : s[i] = t[i]
  PROVE  f[l] = g[l]
<1> DEFINE S == {n \in 0 .. l : f[n] = g[n]}
<1>1. \A n \in 0 .. l : f[n] = Kept(f, s, wanted, n) /\ g[n] = Kept(g, t, wanted, n)
  BY SelectsStep
<1>2. 0 \in S
  BY <1>1 DEF Kept
<1>3. \A n \in 0 .. l - 1 : n \in S => n + 1 \in S
  <2>1. ASSUME NEW n \in 0 .. l - 1, f[n] = g[n] PROVE f[n + 1] = g[n + 1]
    <3>1. n + 1 \in 0 .. l /\ n + 1 # 0 /\ n + 1 - 1 = n /\ s[n + 1] = t[n + 1]
      OBVIOUS
    <3>2. QED
      BY <1>1, <2>1, <3>1 DEF Kept
  <2>2. QED
    BY <2>1
<1>4. \A n \in 0 .. l : n \in S
  <2> HIDE DEF S
  <2>1. QED
    BY <1>2, <1>3, Induction
<1>5. QED
  BY <1>4

\* Appending an element appends it to the selection, or leaves that alone.
LEMMA SelectAppend ==
  ASSUME NEW E, NEW s \in Seq(E), NEW e \in E, NEW wanted
  PROVE  Select(Append(s, e), wanted) =
           IF e \in wanted THEN Append(Select(s, wanted), e) ELSE Select(s, wanted)
<1> DEFINE t == Append(s, e)
           k == Len(s)
<1>1. /\ t \in Seq(E) /\ k \in Nat /\ Len(t) = k + 1 /\ t[k + 1] = e
      /\ \A i \in 1 .. k : s[i] = t[i]
  OBVIOUS
<1> HIDE DEF t
<1>2. PICK f : Selects(f, s, wanted) /\ Select(s, wanted) = f[k]
  BY SelectUnfolds
<1>3. PICK g : Selects(g, t, wanted) /\ Select(t, wanted) = g[k + 1]
  BY <1>1, SelectUnfolds
<1> HIDE DEF k
<1>4. f[k] = g[k]
  BY <1>1, <1>2, <1>3, SelectsAgree DEF k
<1>5. g[k + 1] = Kept(g, t, wanted, k + 1)
  <2>1. k + 1 \in 0 .. Len(t)
    BY <1>1
  <2>2. QED
    BY <1>3, <2>1, SelectsStep
<1>6. g[k + 1] = IF e \in wanted THEN Append(f[k], e) ELSE f[k]
  BY <1>1, <1>4, <1>5 DEF Kept
<1>7. QED
  BY <1>2, <1>3, <1>6 DEF t

\* places says where the elements of t come from: from the wanted places of the first
\* n in s, in their order.
ComesFrom(t, s, wanted, n, places) ==
  /\ places \in [1 .. Len(t) -> 1 .. n]
  /\ \A j \in 1 .. Len(t) : t[j] = s[places[j]] /\ s[places[j]] \in wanted
  /\ \A i, j \in 1 .. Len(t) : i < j => places[i] < places[j]
  /\ \A i \in 1 .. n : s[i] \in wanted => \E j \in 1 .. Len(t) : places[j] = i

\* One turn of Select's loop: the kept elements keep their places in the list.
LEMMA ComesFromNext ==
  ASSUME NEW E, NEW s \in Seq(E), NEW wanted, NEW n \in 0 .. Len(s) - 1,
         NEW t \in Seq(E), NEW places, ComesFrom(t, s, wanted, n, places),
         NEW u, u = IF s[n + 1] \in wanted THEN Append(t, s[n + 1]) ELSE t
  PROVE  u \in Seq(E) /\ \E p : ComesFrom(u, s, wanted, n + 1, p)
<1>1. s[n + 1] \in E /\ n \in Nat /\ Len(t) \in Nat
  OBVIOUS
<1>2. /\ places \in [1 .. Len(t) -> 1 .. n]
      /\ \A j \in 1 .. Len(t) : t[j] = s[places[j]] /\ s[places[j]] \in wanted
      /\ \A i, j \in 1 .. Len(t) : i < j => places[i] < places[j]
      /\ \A i \in 1 .. n : s[i] \in wanted => \E j \in 1 .. Len(t) : places[j] = i
  BY DEF ComesFrom
<1>3. CASE s[n + 1] \notin wanted
  <2>1. u = t
    BY <1>3
  <2>2. places \in [1 .. Len(t) -> 1 .. n + 1]
    BY <1>1, <1>2
  <2>3. ASSUME NEW i \in 1 .. n + 1, s[i] \in wanted
        PROVE  \E j \in 1 .. Len(t) : places[j] = i
    <3>1. i \in 1 .. n
      BY <1>1, <1>3, <2>3
    <3>2. QED
      BY <1>2, <2>3, <3>1
  <2>4. ComesFrom(u, s, wanted, n + 1, places)
    BY <1>2, <2>1, <2>2, <2>3 DEF ComesFrom
  <2>5. QED
    BY <2>1, <2>4
<1>4. CASE s[n + 1] \in wanted
  <2> DEFINE l == Len(t)
             p == [j \in 1 .. l + 1 |-> IF j = l + 1 THEN n + 1 ELSE places[j]]
  <2>1. /\ u \in Seq(E) /\ Len(u) = l + 1 /\ u[l + 1] = s[n + 1]
        /\ \A j \in 1 .. l : u[j] = t[j]
    BY <1>1, <1>4
  <2>2. /\ l \in Nat /\ l + 1 \in 1 .. l + 1
        /\ \A j \in 1 .. l : j \in 1 .. l + 1 /\ j # l + 1
        /\ \A j \in 1 .. l + 1 : j \in 1 .. l \/ j = l + 1
    OBVIOUS
  <2>3. /\ p[l + 1] = n + 1
        /\ \A j \in 1 .. l : p[j] = places[j]
    BY <2>2
  <2>4. \A j \in 1 .. l : p[j] \in 1 .. n
    BY <1>2, <2>3
  <2>5. p \in [1 .. l + 1 -> 1 .. n + 1]
    <3>1. DOMAIN p = 1 .. l + 1 /\ p = [j \in 1 .. l + 1 |-> p[j]]
      OBVIOUS
    <3> HIDE DEF p
    <3>2. \A j \in 1 .. l + 1 : p[j] \in 1 .. n + 1
      BY <1>1, <2>2, <2>3, <2>4
    <3>3. QED
      BY <3>1, <3>2
  <2> HIDE DEF p
  <2>6. \A j \in 1 .. l + 1 : u[j] = s[p[j]] /\ s[p[j]] \in wanted
    <3>1. \A j \in 1 .. l : u[j] = s[p[j]] /\ s[p[j]] \in wanted
      BY <1>2, <2>1, <2>3
    <3>2. u[l + 1] = s[p[l + 1]] /\ s[p[l + 1]] \in wanted
      BY <1>4, <2>1, <2>3
    <3>3. QED
      BY <2>2, <3>1, <3>2
  <2>7. ASSUME NEW i \in 1 .. l + 1, NEW j \in 1 .. l + 1, i < j
        PROVE  p[i] < p[j]
    <3>1. i \in 1 .. l
      BY <2>7
    <3>2. CASE j = l + 1
      BY <1>1, <2>3, <2>4, <3>1, <3>2
    <3>3. CASE j \in 1 .. l
      BY <1>2, <2>3, <2>7, <3>1, <3>3
    <3>4. QED
      BY <2>2, <3>2, <3>3
  <2>8. ASSUME NEW i \in 1 .. n + 1, s[i] \in wanted
        PROVE  \E j \in 1 .. l + 1 : p[j] = i
    <3>1. CASE i = n + 1
      BY <2>2, <2>3, <3>1
    <3>2. CASE i \in 1 .. n
      <4>1. PICK j \in 1 .. l : places[j] = i
        BY <1>2, <2>8, <3>2
      <4>2. QED
        BY <2>2, <2>3, <4>1
    <3>3. QED
      BY <1>1, <3>1, <3>2
  <2>9. ComesFrom(u, s, wanted, n + 1, p)
    BY <2>1, <2>5, <2>6, <2>7, <2>8 DEF ComesFrom
  <2>10. QED
    BY <2>1, <2>9
<1>5. QED
  BY <1>3, <1>4

\* A selection is a sequence of the wanted elements in their order.
LEMMA SelectPlaces ==
  ASSUME NEW E, NEW s \in Seq(E), NEW wanted
  PROVE  /\ Select(s, wanted) \in Seq(E)
         /\ \E places : ComesFrom(Select(s, wanted), s, wanted, Len(s), places)
<1>1. PICK f : Selects(f, s, wanted) /\ Select(s, wanted) = f[Len(s)]
  BY SelectUnfolds
<1> DEFINE Good(n) == f[n] \in Seq(E) /\ \E p : ComesFrom(f[n], s, wanted, n, p)
           S == {n \in 0 .. Len(s) : Good(n)}
<1>2. \A n \in 0 .. Len(s) : f[n] = Kept(f, s, wanted, n)
  BY <1>1, SelectsStep
<1>3. 0 \in S
  <2>1. f[0] = <<>>
    BY <1>2 DEF Kept
  <2>2. ComesFrom(f[0], s, wanted, 0, <<>>) /\ f[0] \in Seq(E)
    BY <2>1 DEF ComesFrom
  <2>3. QED
    BY <2>2
<1>4. \A n \in 0 .. Len(s) - 1 : n \in S => n + 1 \in S
  <2>1. ASSUME NEW n \in 0 .. Len(s) - 1, Good(n) PROVE Good(n + 1)
    <3>1. f[n + 1] = IF s[n + 1] \in wanted THEN Append(f[n], s[n + 1]) ELSE f[n]
      BY <1>2 DEF Kept
    <3>2. PICK p : ComesFrom(f[n], s, wanted, n, p)
      BY <2>1
    <3>3. QED
      BY <2>1, <3>1, <3>2, ComesFromNext
  <2> HIDE DEF Good
  <2>2. \A n \in 0 .. Len(s) - 1 : n + 1 \in 0 .. Len(s)
    OBVIOUS
  <2>3. QED
    BY <2>1, <2>2
<1>5. \A n \in 0 .. Len(s) : n \in S
  <2> HIDE DEF S
  <2>1. QED
    BY <1>3, <1>4, Induction
<1>6. QED
  BY <1>1, <1>5

\* A selection has the wanted elements and no others, and is no longer than what it
\* is taken from.
LEMMA SelectFacts ==
  ASSUME NEW E, NEW s \in Seq(E), NEW wanted
  PROVE  /\ Select(s, wanted) \in Seq(E)
         /\ Len(Select(s, wanted)) <= Len(s)
         /\ \A i \in 1 .. Len(s) : s[i] \in wanted =>
              \E j \in 1 .. Len(Select(s, wanted)) : Select(s, wanted)[j] = s[i]
         /\ \A j \in 1 .. Len(Select(s, wanted)) :
              /\ Select(s, wanted)[j] \in wanted
              /\ \E i \in 1 .. Len(s) : Select(s, wanted)[j] = s[i]
<1> DEFINE t == Select(s, wanted)
<1>1. PICK p : ComesFrom(t, s, wanted, Len(s), p)
  BY SelectPlaces
<1>2. t \in Seq(E)
  BY SelectPlaces
<1> HIDE DEF t
<1>3. Len(t) <= Len(s)
  <2>1. p \in Injection(1 .. Len(t), 1 .. Len(s))
    <3>1. \A i, j \in 1 .. Len(t) : i < j => p[i] # p[j]
      BY <1>1 DEF ComesFrom
    <3>2. \A i, j \in 1 .. Len(t) : i # j => p[i] # p[j]
      <4>1. \A i, j \in 1 .. Len(t) : i # j => i < j \/ j < i
        OBVIOUS
      <4>2. QED
        BY <3>1, <4>1
    <3>3. QED
      BY <1>1, <3>2 DEF ComesFrom, Injection, IsInjective
  <2>2. \A n \in Nat : IsFiniteSet(1 .. n) /\ Cardinality(1 .. n) = n
    BY FS_Interval
  <2>3. Len(s) \in Nat /\ Len(t) \in Nat
    BY <1>2
  <2>4. Cardinality(1 .. Len(t)) <= Cardinality(1 .. Len(s))
    BY <2>1, <2>2, <2>3, FS_Injection
  <2>5. QED
    BY <2>2, <2>3, <2>4
<1>4. \A i \in 1 .. Len(s) : s[i] \in wanted => \E j \in 1 .. Len(t) : t[j] = s[i]
  BY <1>1 DEF ComesFrom
<1>5. \A j \in 1 .. Len(t) : t[j] \in wanted /\ \E i \in 1 .. Len(s) : t[j] = s[i]
  BY <1>1 DEF ComesFrom
<1>6. QED
  BY <1>2, <1>3, <1>4, <1>5 DEF t

\* No element twice.
Once(s) == \A i, j \in 1 .. Len(s) : i # j => s[i] # s[j]

\* A selection has no element twice that its list has only once.
LEMMA SelectOnce ==
  ASSUME NEW E, NEW s \in Seq(E), NEW wanted, Once(s)
  PROVE  Once(Select(s, wanted))
<1> DEFINE t == Select(s, wanted)
<1>1. PICK p : ComesFrom(t, s, wanted, Len(s), p)
  BY SelectPlaces
<1>2. t \in Seq(E)
  BY SelectPlaces
<1> HIDE DEF t
<1>3. ASSUME NEW i \in 1 .. Len(t), NEW j \in 1 .. Len(t), i # j PROVE p[i] # p[j]
  <2>1. i < j \/ j < i
    BY <1>2, <1>3
  <2>2. p[i] \in 1 .. Len(s) /\ p[j] \in 1 .. Len(s)
    BY <1>1 DEF ComesFrom
  <2>3. p[i] < p[j] \/ p[j] < p[i]
    BY <1>1, <2>1 DEF ComesFrom
  <2>4. QED
    BY <2>2, <2>3
<1>4. ASSUME NEW i \in 1 .. Len(t), NEW j \in 1 .. Len(t), i # j PROVE t[i] # t[j]
  BY <1>1, <1>3, <1>4 DEF ComesFrom, Once
<1>5. QED
  BY <1>4 DEF Once, t

\* One element is selected or it is not.
LEMMA SelectOfOne ==
  ASSUME NEW x, NEW wanted
  PROVE  Select(<<x>>, wanted) = IF x \in wanted THEN <<x>> ELSE <<>>
<1>1. /\ <<>> \in Seq({x}) /\ x \in {x} /\ Append(<<>>, x) = <<x>>
  OBVIOUS
<1>2. Select(<<>>, wanted) = <<>>
  <2>1. PICK f : Selects(f, <<>>, wanted) /\ Select(<<>>, wanted) = f[Len(<<>>)]
    BY <1>1, SelectUnfolds
  <2>2. Len(<<>>) = 0 /\ 0 \in 0 .. Len(<<>>)
    OBVIOUS
  <2>3. QED
    BY <2>1, <2>2, SelectsStep DEF Kept
<1>3. Select(Append(<<>>, x), wanted) =
        IF x \in wanted THEN Append(Select(<<>>, wanted), x) ELSE Select(<<>>, wanted)
  BY <1>1, SelectAppend
<1>4. QED
  BY <1>1, <1>2, <1>3

--------------------------------------------------------------------------------
(* What SortBy computes.                                                   *)

\* The n-th of t is the one at places[n] in s; each has its place, smaller keys come
\* first, and equal keys keep their order.
SortedFrom(t, s, key, places) ==
  /\ places \in [1 .. Len(s) -> 1 .. Len(s)]
  /\ \A n \in 1 .. Len(s) : t[n] = s[places[n]]
  /\ \A i \in 1 .. Len(s) : \E n \in 1 .. Len(s) : places[n] = i
  /\ \A m, n \in 1 .. Len(s) : m < n =>
       \/ key[places[m]] < key[places[n]]
       \/ key[places[m]] = key[places[n]] /\ places[m] < places[n]

\* SortBy returns the elements it is given, each once, in the order of their keys.
LEMMA SortPlaces ==
  ASSUME NEW E, NEW s \in Seq(E), NEW key \in [1 .. Len(s) -> Int]
  PROVE  /\ SortBy(s, key) \in Seq(E)
         /\ Len(SortBy(s, key)) = Len(s)
         /\ \E places : SortedFrom(SortBy(s, key), s, key, places)
<1> DEFINE D == 1 .. Len(s)
           UpTo(i) == {j \in D : key[j] < key[i] \/ (key[j] = key[i] /\ j <= i)}
           place == [i \in D |-> Cardinality(UpTo(i))]
           p == [n \in D |-> CHOOSE i \in D : place[i] = n]
           t == [n \in D |-> s[p[n]]]
<1>1. DOMAIN s = D /\ Len(s) \in Nat /\ D \subseteq Nat
  OBVIOUS
<1>2. SortBy(s, key) = t
  BY <1>1 DEF SortBy
<1>3. IsFiniteSet(D) /\ Cardinality(D) = Len(s)
  <2>1. \A n \in Nat : IsFiniteSet(1 .. n) /\ Cardinality(1 .. n) = n
    BY FS_Interval
  <2>2. QED
    BY <1>1, <2>1
<1>4. ASSUME NEW i \in D
      PROVE  IsFiniteSet(UpTo(i)) /\ i \in UpTo(i) /\ place[i] = Cardinality(UpTo(i))
                /\ Cardinality(UpTo(i)) \in D
  <2>1. UpTo(i) \subseteq D /\ i \in UpTo(i)
    OBVIOUS
  <2> HIDE DEF D, UpTo
  <2>2. IsFiniteSet(UpTo(i)) /\ Cardinality(UpTo(i)) <= Len(s)
    BY <1>3, <2>1, FS_Subset
  <2>3. Cardinality(UpTo(i)) \in Nat /\ Cardinality(UpTo(i)) # 0
    BY <2>1, <2>2, FS_CardinalityType, FS_EmptySet
  <2>4. QED
    BY <1>1, <2>1, <2>2, <2>3 DEF D
<1>5. ASSUME NEW i \in D, NEW j \in D, key[j] < key[i] \/ (key[j] = key[i] /\ j < i)
      PROVE  place[j] < place[i]
  <2>1. UpTo(j) \subseteq UpTo(i) /\ i \notin UpTo(j)
    BY <1>1, <1>5
  <2> HIDE DEF UpTo, place
  <2>2. Cardinality(UpTo(j)) <= Cardinality(UpTo(i))
        /\ Cardinality(UpTo(j)) # Cardinality(UpTo(i))
    BY <1>4, <2>1, FS_Subset
  <2>3. /\ place[i] = Cardinality(UpTo(i)) /\ place[j] = Cardinality(UpTo(j))
        /\ Cardinality(UpTo(i)) \in D /\ Cardinality(UpTo(j)) \in D
    BY <1>4
  <2> HIDE DEF D
  <2>4. Cardinality(UpTo(i)) \in Nat /\ Cardinality(UpTo(j)) \in Nat
    BY <1>1, <2>3
  <2>5. QED
    BY <2>2, <2>3, <2>4
<1>6. \A i, j \in D : i = j \/ place[i] < place[j] \/ place[j] < place[i]
  <2>1. \A i, j \in D : \/ i = j
                        \/ key[j] < key[i] \/ (key[j] = key[i] /\ j < i)
                        \/ key[i] < key[j] \/ (key[i] = key[j] /\ i < j)
    BY <1>1
  <2> HIDE DEF place, D
  <2>2. QED
    BY <1>5, <2>1
<1>7. place \in [D -> D]
  BY <1>4
<1>8. \A n \in D : \E i \in D : place[i] = n
  <2> HIDE DEF place
  <2>1. \A i, j \in D : place[i] = place[j] => i = j
    <3>1. \A i \in D : place[i] \in Nat
      BY <1>1, <1>7
    <3> HIDE DEF D
    <3>2. \A i, j \in D : place[i] = place[j] => ~(place[i] < place[j]) /\ ~(place[j] < place[i])
      BY <3>1
    <3>3. QED
      BY <1>6, <3>2
  <2> HIDE DEF D
  <2>2. place \in Injection(D, D)
    BY <1>7, <2>1 DEF Injection, IsInjective
  <2>3. place \in Surjection(D, D)
    BY <1>3, <2>2, FS_Injection
  <2>4. QED
    BY <2>3 DEF Surjection
<1>9. \A n \in D : p[n] \in D /\ place[p[n]] = n
  <2> HIDE DEF place
  <2>1. QED
    BY <1>8
<1> HIDE DEF place, p
<1>10. ASSUME NEW i \in D PROVE place[i] \in D /\ p[place[i]] = i
  <2>1. place[i] \in D
    BY <1>7
  <2>2. p[place[i]] \in D /\ place[p[place[i]]] = place[i]
    BY <1>9, <2>1
  <2>3. ~(place[i] < place[i])
    BY <1>1, <2>1
  <2>4. QED
    BY <1>6, <2>1, <2>2, <2>3
<1>11. ASSUME NEW m \in D, NEW n \in D, m < n
       PROVE  \/ key[p[m]] < key[p[n]]
              \/ key[p[m]] = key[p[n]] /\ p[m] < p[n]
  <2>1. p[m] \in D /\ p[n] \in D /\ place[p[m]] = m /\ place[p[n]] = n
    BY <1>9
  <2>2. p[m] # p[n] /\ ~(place[p[n]] < place[p[m]])
    BY <1>11, <2>1
  <2>3. ~(key[p[n]] < key[p[m]] \/ (key[p[n]] = key[p[m]] /\ p[n] < p[m]))
    BY <1>5, <2>1, <2>2
  <2>4. key[p[n]] \in Int /\ key[p[m]] \in Int
    BY <2>1
  <2>5. QED
    BY <2>1, <2>2, <2>3, <2>4
<1>12. p \in [D -> D]
  <2>1. p = [n \in D |-> p[n]]
    BY DEF p
  <2>2. QED
    BY <1>9, <2>1
<1>13. t \in Seq(E) /\ Len(t) = Len(s)
  <2>1. \A n \in D : s[p[n]] \in E
    BY <1>9
  <2>2. QED
    BY <1>1, <2>1
<1>14. \A i \in D : \E n \in D : p[n] = i
  BY <1>10
<1>15. SortedFrom(t, s, key, p)
  BY <1>11, <1>12, <1>14 DEF SortedFrom
<1> HIDE DEF t
<1>16. QED
  BY <1>2, <1>13, <1>15
--------------------------------------------------------------------------------
(* What Total computes.                                                    *)

TotalTurn(f, values, n) == IF n = 0 THEN 0 ELSE f[n - 1] + values[n]

Totals(f, values) == f = [n \in 0 .. Len(values) |-> TotalTurn(f, values, n)]

\* The recursion of Total defines a function.
LEMMA TotalUnfolds ==
  ASSUME NEW values \in Seq(Int)
  PROVE  \E f : Totals(f, values) /\ Total(values) = f[Len(values)]
<1> DEFINE U == Int
           m == Len(values)
           Functions == [0 .. m -> U]
           F == [f \in Functions |-> [n \in 0 .. m |-> TotalTurn(f, values, n)]]
<1>1. m \in Nat /\ U # {} /\ 0 \in 0 .. 1
  OBVIOUS
<1>2. ASSUME NEW f \in Functions, NEW n \in 0 .. m PROVE TotalTurn(f, values, n) \in U
  <2>1. n # 0 => f[n - 1] \in Int /\ values[n] \in Int
    OBVIOUS
  <2>2. QED
    BY <2>1 DEF TotalTurn
<1>3. F \in [Functions -> Functions]
  BY <1>2
<1>4. ASSUME NEW f \in Functions, NEW g \in Functions, NEW n \in 0 .. m,
             \A k \in 0 .. m : k < n => f[k] = g[k]
      PROVE  F[f][n] = F[g][n]
  <2>1. n # 0 => f[n - 1] = g[n - 1]
    BY <1>4
  <2>2. QED
    BY <2>1 DEF TotalTurn
<1>5. Causal(F, 0 .. m)
  BY <1>3, <1>4 DEF Causal
<1>6. HasFixedPoint(F)
  <2> HIDE DEF U, F, m
  <2>1. QED
    BY <1>1, <1>3, <1>5, RecursionExists
<1>7. \E f : Totals(f, values)
  BY <1>6 DEF Totals, HasFixedPoint
<1>8. QED
  BY <1>7 DEF Total, Totals, TotalTurn

\* What the turns of Total add.
LEMMA TotalSteps ==
  ASSUME NEW values \in Seq(Int)
  PROVE  \E f : /\ Total(values) = f[Len(values)] /\ f[0] = 0
                /\ \A n \in 0 .. Len(values) : f[n] \in Int
                /\ \A n \in 0 .. Len(values) - 1 : f[n + 1] = f[n] + values[n + 1]
<1> DEFINE m == Len(values)
<1>1. PICK f : Totals(f, values) /\ Total(values) = f[m]
  BY TotalUnfolds
<1> DEFINE S == {n \in 0 .. m : f[n] \in Int}
<1>2. m \in Nat /\ \A n \in 1 .. m : values[n] \in Int
  OBVIOUS
<1>3. \A n \in 0 .. m : f[n] = TotalTurn(f, values, n)
  BY <1>1 DEF Totals
<1>4. f[0] = 0
  BY <1>2, <1>3 DEF TotalTurn
<1>5. ASSUME NEW n \in 0 .. m - 1
      PROVE  n + 1 \in 0 .. m /\ f[n + 1] = f[n] + values[n + 1] /\ values[n + 1] \in Int
  <2>1. n + 1 \in 0 .. m /\ n + 1 \in 1 .. m /\ n + 1 # 0 /\ (n + 1) - 1 = n
    BY <1>2
  <2>2. QED
    BY <1>2, <1>3, <2>1 DEF TotalTurn
<1>6. \A n \in 0 .. m : n \in S
  <2>1. 0 \in S
    BY <1>2, <1>4
  <2>2. ASSUME NEW n \in 0 .. m - 1, n \in S PROVE n + 1 \in S
    <3>1. f[n] \in Int
      BY <2>2
    <3>2. f[n] + values[n + 1] \in Int
      BY <1>5, <3>1
    <3>3. QED
      BY <1>5, <3>2
  <2> HIDE DEF S
  <2>3. QED
    BY <1>2, <2>1, <2>2, Induction
<1>7. QED
  BY <1>1, <1>4, <1>5, <1>6

\* A total of integers is an integer, 0 of none and the value itself of one.
LEMMA TotalFacts ==
  ASSUME NEW values \in Seq(Int)
  PROVE  /\ Total(values) \in Int
         /\ Len(values) = 0 => Total(values) = 0
         /\ Len(values) = 1 => Total(values) = values[1]
<1>1. PICK f : /\ Total(values) = f[Len(values)] /\ f[0] = 0
               /\ \A n \in 0 .. Len(values) : f[n] \in Int
               /\ \A n \in 0 .. Len(values) - 1 : f[n + 1] = f[n] + values[n + 1]
  BY TotalSteps
<1>2. Len(values) \in Nat /\ \A n \in 1 .. Len(values) : values[n] \in Int
  OBVIOUS
<1>3. Len(values) = 1 => f[1] = values[1]
  <2>1. Len(values) = 1 => f[0 + 1] = f[0] + values[0 + 1] /\ values[1] \in Int
    BY <1>1, <1>2
  <2>2. QED
    BY <1>1, <2>1
<1>4. QED
  BY <1>1, <1>2, <1>3

\* The union of finite sets, one set more.
LEMMA OneSetMore ==
  ASSUME NEW before, NEW new, NEW after, IsFiniteSet(before), IsFiniteSet(new),
         \A x : x \in after <=> x \in before \/ x \in new
  PROVE  /\ IsFiniteSet(after)
         /\ Cardinality(before) \in Nat /\ Cardinality(after) \in Nat
         /\ Cardinality(new) \in Nat
         /\ Cardinality(after) <= Cardinality(before) + Cardinality(new)
         /\ before \cap new = {} =>
              Cardinality(after) = Cardinality(before) + Cardinality(new)
<1>1. after = before \union new
  OBVIOUS
<1>2. /\ IsFiniteSet(before \union new)
      /\ Cardinality(before \union new) =
           Cardinality(before) + Cardinality(new) - Cardinality(before \cap new)
  BY FS_Union
<1>3. IsFiniteSet(before \cap new)
  BY FS_Intersection
<1>4. /\ Cardinality(before) \in Nat /\ Cardinality(new) \in Nat
      /\ Cardinality(before \cap new) \in Nat /\ Cardinality(before \union new) \in Nat
  BY <1>2, <1>3, FS_CardinalityType
<1>5. before \cap new = {} => Cardinality(before \cap new) = 0
  BY FS_EmptySet
<1>6. QED
  BY <1>1, <1>2, <1>4, <1>5

\* The first n of some sets.
First(A, all, n) == {x \in all : \E i \in 1 .. n : x \in A[i]}

\* The union of the first sets, none, one more and all.
LEMMA FirstSets ==
  ASSUME NEW m \in Nat, NEW A, NEW all,
         \A i \in 1 .. m : IsFiniteSet(A[i]),
         \A x : x \in all <=> \E i \in 1 .. m : x \in A[i]
  PROVE  /\ First(A, all, 0) = {} /\ First(A, all, m) = all
         /\ \A n \in 0 .. m - 1 : \A x :
              x \in First(A, all, n + 1) <=> x \in First(A, all, n) \/ x \in A[n + 1]
<1>1. First(A, all, 0) = {} /\ First(A, all, m) = all
  BY DEF First
<1>2. ASSUME NEW n \in 0 .. m - 1, NEW x
      PROVE  x \in First(A, all, n + 1) <=> x \in First(A, all, n) \/ x \in A[n + 1]
  <2>1. n + 1 \in 1 .. m /\ \A i : i \in 1 .. n + 1 <=> i \in 1 .. n \/ i = n + 1
    OBVIOUS
  <2>2. x \in A[n + 1] => x \in all
    BY <2>1
  <2>3. QED
    BY <2>1, <2>2 DEF First
<1>3. QED
  BY <1>1, <1>2

\* Values of at least the sizes of sets add up to the size of their union or more.
LEMMA TotalCovers ==
  ASSUME NEW values \in Seq(Int), NEW A, NEW all,
         \A i \in 1 .. Len(values) : IsFiniteSet(A[i]) /\ Cardinality(A[i]) <= values[i],
         \A x : x \in all <=> \E i \in 1 .. Len(values) : x \in A[i]
  PROVE  IsFiniteSet(all) /\ Cardinality(all) <= Total(values)
<1>1. PICK m : m = Len(values)
  OBVIOUS
<1>2. PICK f : /\ Total(values) = f[m] /\ f[0] = 0
               /\ \A n \in 0 .. m : f[n] \in Int
               /\ \A n \in 0 .. m - 1 : f[n + 1] = f[n] + values[n + 1]
  BY <1>1, TotalSteps
<1>3. m \in Nat /\ \A i \in 1 .. m : values[i] \in Int
  BY <1>1
<1>4. /\ First(A, all, 0) = {} /\ First(A, all, m) = all
      /\ \A n \in 0 .. m - 1 : \A x :
           x \in First(A, all, n + 1) <=> x \in First(A, all, n) \/ x \in A[n + 1]
  <2>1. /\ \A i \in 1 .. m : IsFiniteSet(A[i])
        /\ \A x : x \in all <=> \E i \in 1 .. m : x \in A[i]
    BY <1>1
  <2>2. QED
    BY <1>3, <2>1, FirstSets
<1> DEFINE Good(n) == IsFiniteSet(First(A, all, n)) /\ Cardinality(First(A, all, n)) <= f[n]
           S == {n \in 0 .. m : Good(n)}
<1>5. Good(0)
  <2>1. IsFiniteSet({}) /\ Cardinality({}) = 0
    BY FS_EmptySet
  <2>2. IsFiniteSet(First(A, all, 0)) /\ Cardinality(First(A, all, 0)) = 0
    BY <1>4, <2>1
  <2>3. QED
    BY <1>2, <2>2
<1>6. ASSUME NEW n \in 0 .. m - 1, Good(n) PROVE Good(n + 1)
  <2>1. n \in 0 .. m /\ n + 1 \in 0 .. m /\ n + 1 \in 1 .. m
    BY <1>3
  <2>2. f[n + 1] = f[n] + values[n + 1] /\ f[n] \in Int /\ values[n + 1] \in Int
    BY <1>2, <1>3, <2>1
  <2>3. PICK new : new = A[n + 1]
    OBVIOUS
  <2>4. IsFiniteSet(new) /\ Cardinality(new) <= values[n + 1]
    BY <1>1, <2>1, <2>3
  <2>5. PICK before, after : before = First(A, all, n) /\ after = First(A, all, n + 1)
    OBVIOUS
  <2>6. \A x : x \in after <=> x \in before \/ x \in new
    BY <1>4, <2>3, <2>5
  <2>7. IsFiniteSet(before) /\ Cardinality(before) <= f[n]
    BY <1>6, <2>5
  <2>8. /\ IsFiniteSet(after)
        /\ Cardinality(before) \in Nat /\ Cardinality(after) \in Nat
        /\ Cardinality(new) \in Nat
        /\ Cardinality(after) <= Cardinality(before) + Cardinality(new)
    BY <2>4, <2>6, <2>7, OneSetMore
  <2>9. Cardinality(after) <= f[n + 1]
    BY <2>2, <2>4, <2>7, <2>8
  <2>10. QED
    BY <2>5, <2>8, <2>9
<1>7. Good(m)
  <2> HIDE DEF Good
  <2>1. 0 \in S
    BY <1>3, <1>5
  <2>2. \A n \in 0 .. m - 1 : n \in S => n + 1 \in S
    BY <1>3, <1>6
  <2> HIDE DEF S
  <2>3. \A n \in 0 .. m : n \in S
    BY <1>3, <2>1, <2>2, Induction
  <2>4. m \in S
    BY <1>3, <2>3
  <2>5. QED
    BY <2>4 DEF S
<1>8. QED
  BY <1>2, <1>4, <1>7

\* Values of no more than the sizes of disjoint sets, and some extra each, add up to no
\* more than the size of the sets' union and all the extras.
LEMMA TotalFits ==
  ASSUME NEW values \in Seq(Int), NEW A, NEW all, NEW extra \in Int,
         \A i \in 1 .. Len(values) : IsFiniteSet(A[i]) /\ values[i] <= Cardinality(A[i]) + extra,
         \A i, j \in 1 .. Len(values) : i # j => A[i] \cap A[j] = {},
         \A x : x \in all <=> \E i \in 1 .. Len(values) : x \in A[i]
  PROVE  /\ IsFiniteSet(all) /\ Cardinality(all) \in Nat
         /\ Total(values) <= Cardinality(all) + Len(values) * extra
<1>1. PICK m : m = Len(values)
  OBVIOUS
<1>2. PICK f : /\ Total(values) = f[m] /\ f[0] = 0
               /\ \A n \in 0 .. m : f[n] \in Int
               /\ \A n \in 0 .. m - 1 : f[n + 1] = f[n] + values[n + 1]
  BY <1>1, TotalSteps
<1>3. m \in Nat /\ \A i \in 1 .. m : values[i] \in Int
  BY <1>1
<1>4. /\ First(A, all, 0) = {} /\ First(A, all, m) = all
      /\ \A n \in 0 .. m - 1 : \A x :
           x \in First(A, all, n + 1) <=> x \in First(A, all, n) \/ x \in A[n + 1]
  <2>1. /\ \A i \in 1 .. m : IsFiniteSet(A[i])
        /\ \A x : x \in all <=> \E i \in 1 .. m : x \in A[i]
    BY <1>1
  <2>2. QED
    BY <1>3, <2>1, FirstSets
<1> DEFINE Good(n) == /\ IsFiniteSet(First(A, all, n)) /\ Cardinality(First(A, all, n)) \in Nat
                      /\ f[n] <= Cardinality(First(A, all, n)) + n * extra
           S == {n \in 0 .. m : Good(n)}
<1>5. Good(0)
  <2>1. IsFiniteSet({}) /\ Cardinality({}) = 0
    BY FS_EmptySet
  <2>2. IsFiniteSet(First(A, all, 0)) /\ Cardinality(First(A, all, 0)) = 0
    BY <1>4, <2>1
  <2>3. 0 * extra = 0
    OBVIOUS
  <2>4. QED
    BY <1>2, <2>2, <2>3
<1>6. ASSUME NEW n \in 0 .. m - 1, Good(n) PROVE Good(n + 1)
  <2>1. n \in Nat /\ n \in 0 .. m /\ n + 1 \in 0 .. m /\ n + 1 \in 1 .. m
    BY <1>3
  <2>2. f[n + 1] = f[n] + values[n + 1] /\ f[n] \in Int /\ values[n + 1] \in Int
    BY <1>2, <1>3, <2>1
  <2>3. PICK new : new = A[n + 1]
    OBVIOUS
  <2>4. IsFiniteSet(new) /\ values[n + 1] <= Cardinality(new) + extra
    BY <1>1, <2>1, <2>3
  <2>5. PICK before, after : before = First(A, all, n) /\ after = First(A, all, n + 1)
    OBVIOUS
  <2>6. \A x : x \in after <=> x \in before \/ x \in new
    BY <1>4, <2>3, <2>5
  <2>7. IsFiniteSet(before) /\ f[n] <= Cardinality(before) + n * extra
    BY <1>6, <2>5
  <2>8. before \cap new = {}
    <3>1. \A i \in 1 .. n : i \in 1 .. Len(values) /\ i # n + 1 /\ n + 1 \in 1 .. Len(values)
      BY <1>1, <2>1
    <3>2. \A i \in 1 .. n : A[i] \cap A[n + 1] = {}
      BY <3>1
    <3>3. QED
      BY <2>3, <2>5, <3>2 DEF First
  <2>9. /\ IsFiniteSet(after)
        /\ Cardinality(before) \in Nat /\ Cardinality(after) \in Nat
        /\ Cardinality(new) \in Nat
        /\ Cardinality(after) = Cardinality(before) + Cardinality(new)
    BY <2>4, <2>6, <2>7, <2>8, OneSetMore
  <2>10. PICK k, l \in Int : k = n * extra /\ l = (n + 1) * extra /\ l = k + extra
    BY <2>1
  <2>11. f[n + 1] <= Cardinality(after) + (n + 1) * extra
    <3>1. f[n] <= Cardinality(before) + k
      BY <2>7, <2>10
    <3>2. f[n + 1] <= Cardinality(after) + l
      BY <2>2, <2>4, <2>9, <2>10, <3>1
    <3>3. QED
      BY <2>10, <3>2
  <2>12. QED
    BY <2>5, <2>9, <2>11
<1>7. Good(m)
  <2> HIDE DEF Good
  <2>1. 0 \in S
    BY <1>3, <1>5
  <2>2. \A n \in 0 .. m - 1 : n \in S => n + 1 \in S
    BY <1>3, <1>6
  <2> HIDE DEF S
  <2>3. \A n \in 0 .. m : n \in S
    BY <1>3, <2>1, <2>2, Induction
  <2>4. m \in S
    BY <1>3, <2>3
  <2>5. QED
    BY <2>4 DEF S
<1>8. QED
  BY <1>1, <1>2, <1>4, <1>7

--------------------------------------------------------------------------------
(* Intervals.                                                              *)

Interval == [Value : BOOLEAN, Start : Int, End : Int]

During(interval, t) == interval.Start <= t /\ t < interval.End
TrueAt(timeline, t) == \E i \in 1 .. Len(timeline) : timeline[i].Value /\ During(timeline[i], t)

\* No interval ends before it starts; all are true; each starts no earlier than the
\* ones before it, after they have ended, or as they end at the earliest.
Forward(timeline) == \A i \in 1 .. Len(timeline) : timeline[i].Start <= timeline[i].End
AllTrue(timeline) == \A i \in 1 .. Len(timeline) : timeline[i].Value
InOrder(timeline) ==
  \A i, j \in 1 .. Len(timeline) : i < j => timeline[i].Start <= timeline[j].Start
Gapped(timeline) == \A i, j \in 1 .. Len(timeline) : i < j => timeline[i].End < timeline[j].Start
Disjoint(timeline) ==
  \A i, j \in 1 .. Len(timeline) : i < j => timeline[i].End <= timeline[j].Start

\* The greater of two numbers.
LEMMA MaxOfTwo ==
  ASSUME NEW a \in Int, NEW b \in Int
  PROVE  /\ Max({a, b}) \in Int /\ Max({a, b}) >= a /\ Max({a, b}) >= b
         /\ Max({a, b}) = a \/ Max({a, b}) = b
<1> DEFINE m == IF a >= b THEN a ELSE b
<1>1. m \in {a, b} /\ \A y \in {a, b} : m >= y
  OBVIOUS
<1>2. Max({a, b}) \in {a, b} /\ \A y \in {a, b} : Max({a, b}) >= y
  BY <1>1 DEF Max
<1>3. QED
  BY <1>2

\* The lesser of two numbers.
LEMMA MinOfTwo ==
  ASSUME NEW a \in Int, NEW b \in Int
  PROVE  /\ Min({a, b}) \in Int /\ Min({a, b}) <= a /\ Min({a, b}) <= b
         /\ Min({a, b}) = a \/ Min({a, b}) = b
<1> DEFINE m == IF a <= b THEN a ELSE b
<1>1. m \in {a, b} /\ \A y \in {a, b} : m <= y
  OBVIOUS
<1>2. Min({a, b}) \in {a, b} /\ \A y \in {a, b} : Min({a, b}) <= y
  BY <1>1 DEF Min
<1>3. QED
  BY <1>2

--------------------------------------------------------------------------------
(* Merging.                                                                *)

\* Appending an interval, or extending the last one by one that it reaches, adds
\* the times of that interval and no others.
LEMMA MergeNextAdds ==
  ASSUME NEW merged \in Seq(Interval), NEW next \in Interval,
         Len(merged) > 0 => merged[Len(merged)].Start <= next.Start
  PROVE  LET m == MergeNext(merged, next)
         IN  /\ m \in Seq(Interval) /\ Len(m) > 0
             /\ m[Len(m)].Start <= next.Start
             /\ \A t \in Int : TrueAt(m, t) <=> TrueAt(merged, t) \/ (next.Value /\ During(next, t))
<1> DEFINE n == Len(merged)
           m == MergeNext(merged, next)
           Joins == n > 0 /\ merged[n].Value = next.Value /\ merged[n].End >= next.Start
<1>1. n \in Nat /\ next.Start \in Int /\ next.End \in Int /\ next.Value \in BOOLEAN
  BY DEF Interval
<1>2. \A i \in 1 .. n : /\ merged[i] \in Interval /\ merged[i].Start \in Int
                        /\ merged[i].End \in Int /\ merged[i].Value \in BOOLEAN
  <2>1. \A i \in 1 .. n : merged[i] \in Interval
    OBVIOUS
  <2>2. QED
    BY <2>1 DEF Interval
<1>3. CASE Joins
  <2> DEFINE end == Max({merged[n].End, next.End})
             joined == [merged[n] EXCEPT !.End = end]
  <2>1. n \in 1 .. n
    BY <1>1, <1>3
  <2>2. /\ end \in Int /\ end >= merged[n].End /\ end >= next.End
        /\ end = merged[n].End \/ end = next.End
    BY <1>1, <1>2, <2>1, MaxOfTwo
  <2>3. m = [merged EXCEPT ![n].End = end]
    BY <1>3 DEF MergeNext
  <2> HIDE DEF end
  <2>4. /\ joined \in Interval /\ joined.Start = merged[n].Start /\ joined.End = end
        /\ joined.Value = merged[n].Value
    BY <1>2, <2>1, <2>2 DEF Interval
  <2>5. m = [merged EXCEPT ![n] = joined]
    BY <2>1, <2>3
  <2> HIDE DEF joined, m
  <2>6. /\ m \in Seq(Interval) /\ Len(m) = n /\ m[n] = joined
        /\ \A i \in 1 .. n : i # n => m[i] = merged[i]
    BY <2>1, <2>4, <2>5
  <2>7. ASSUME NEW t \in Int
        PROVE  TrueAt(m, t) <=> TrueAt(merged, t) \/ (next.Value /\ During(next, t))
    <3>1. merged[n].Start <= next.Start
      BY <2>1
    <3>2. During(joined, t) <=> During(merged[n], t) \/ During(next, t)
      BY <1>1, <1>2, <1>3, <2>1, <2>2, <2>4, <3>1 DEF During
    <3>3. (joined.Value /\ During(joined, t)) <=>
            (merged[n].Value /\ During(merged[n], t)) \/ (next.Value /\ During(next, t))
      BY <1>3, <2>4, <3>2
    <3>4. QED
      BY <2>1, <2>6, <3>3 DEF TrueAt
  <2>8. QED
    BY <1>3, <2>1, <2>4, <2>6, <2>7 DEF m
<1>4. CASE ~Joins
  <2>1. m = Append(merged, next)
    BY <1>4 DEF MergeNext
  <2> HIDE DEF m
  <2>2. /\ m \in Seq(Interval) /\ Len(m) = n + 1 /\ m[n + 1] = next
        /\ \A i \in 1 .. n : m[i] = merged[i]
    BY <2>1
  <2>3. \A i \in 1 .. n + 1 : i \in 1 .. n \/ i = n + 1
    BY <1>1
  <2>4. n + 1 \in 1 .. n + 1 /\ \A i \in 1 .. n : i \in 1 .. n + 1
    BY <1>1
  <2>5. ASSUME NEW t \in Int
        PROVE  TrueAt(m, t) <=> TrueAt(merged, t) \/ (next.Value /\ During(next, t))
    BY <2>2, <2>3, <2>4 DEF TrueAt
  <2>6. QED
    BY <1>1, <2>2, <2>5 DEF m
<1>5. QED
  BY <1>3, <1>4

\* A turn of the loop that merges leaves intervals.
LEMMA MergeNextType ==
  ASSUME NEW merged \in Seq(Interval), NEW next \in Interval
  PROVE  MergeNext(merged, next) \in Seq(Interval)
<1> DEFINE n == Len(merged)
           Joins == n > 0 /\ merged[n].Value = next.Value /\ merged[n].End >= next.Start
<1>1. CASE Joins
  <2> DEFINE end == Max({merged[n].End, next.End})
             joined == [merged[n] EXCEPT !.End = end]
  <2>1. n \in 1 .. n /\ merged[n] \in Interval
    BY <1>1
  <2>2. end \in Int
    BY <2>1, MaxOfTwo DEF Interval
  <2>3. joined \in Interval
    <3> HIDE DEF end
    <3>1. QED
      BY <2>1, <2>2 DEF Interval
  <2>4. MergeNext(merged, next) = [merged EXCEPT ![n] = joined]
    BY <1>1, <2>1 DEF MergeNext
  <2> HIDE DEF joined
  <2>5. QED
    BY <2>1, <2>3, <2>4
<1>2. CASE ~Joins
  BY <1>2 DEF MergeNext
<1>3. QED
  BY <1>1, <1>2

\* The turns of the loop that merges s.
MergeTurn(f, s, n) == IF n = 0 THEN <<>> ELSE MergeNext(f[n - 1], s[n])

Merges(f, s) == f = [n \in 0 .. Len(s) |-> MergeTurn(f, s, n)]

\* What is merged after n turns.
LEMMA MergesStep ==
  ASSUME NEW s, NEW f, Merges(f, s)
  PROVE  \A n \in 0 .. Len(s) : f[n] = MergeTurn(f, s, n)
BY DEF Merges

Sorted(s) == SortBy(s, [i \in DOMAIN s |-> s[i].Start])

\* MergeBoolIntervals is the result of the last turn.
LEMMA MergeUnfolds ==
  ASSUME NEW s, Sorted(s) \in Seq(Interval)
  PROVE  \E f : Merges(f, Sorted(s)) /\ MergeBoolIntervals(s) = f[Len(Sorted(s))]
<1> DEFINE U == Seq(Interval)
           q == Sorted(s)
           Functions == [0 .. Len(q) -> U]
           F == [f \in Functions |-> [n \in 0 .. Len(q) |-> MergeTurn(f, q, n)]]
<1>0. q \in Seq(Interval)
  OBVIOUS
<1>1. MergeBoolIntervals(s) =
        LET merged[n \in 0 .. Len(q)] == MergeTurn(merged, q, n) IN merged[Len(q)]
  BY DEF MergeBoolIntervals, MergeTurn, Sorted
<1> HIDE DEF q
<1>2. Len(q) \in Nat /\ U # {} /\ 0 \in 0 .. 1
  BY <1>0
<1>3. ASSUME NEW f \in Functions, NEW n \in 0 .. Len(q) PROVE MergeTurn(f, q, n) \in U
  <2>1. CASE n = 0
    BY <2>1 DEF MergeTurn
  <2>2. CASE n # 0
    <3>1. n \in 1 .. Len(q) /\ n - 1 \in 0 .. Len(q)
      BY <1>2, <2>2
    <3>2. q[n] \in Interval
      BY <1>0, <3>1
    <3>3. f[n - 1] \in Seq(Interval)
      BY <3>1
    <3>4. MergeNext(f[n - 1], q[n]) \in Seq(Interval)
      BY <3>2, <3>3, MergeNextType
    <3>5. QED
      BY <2>2, <3>4 DEF MergeTurn
  <2>3. QED
    BY <2>1, <2>2
<1>4. F \in [Functions -> Functions]
  BY <1>3
<1>5. ASSUME NEW f \in Functions, NEW g \in Functions, NEW n \in 0 .. Len(q),
             \A k \in 0 .. Len(q) : k < n => f[k] = g[k]
      PROVE  F[f][n] = F[g][n]
  <2>1. n # 0 => f[n - 1] = g[n - 1]
    BY <1>2, <1>5
  <2>2. QED
    BY <2>1 DEF MergeTurn
<1>6. Causal(F, 0 .. Len(q))
  BY <1>4, <1>5 DEF Causal
<1>7. HasFixedPoint(F)
  <2> HIDE DEF U, F
  <2>1. QED
    BY <1>2, <1>4, <1>6, RecursionExists
<1>8. \E f : Merges(f, q)
  BY <1>7 DEF Merges, HasFixedPoint
<1>9. QED
  BY <1>1, <1>8 DEF Merges, q

\* Of intervals in the order of their starts: merging keeps the times.
LEMMA MergesKeepTimes ==
  ASSUME NEW q \in Seq(Interval), NEW f, Merges(f, q),
         \A i, j \in 1 .. Len(q) : i < j => q[i].Start <= q[j].Start
  PROVE  /\ f[Len(q)] \in Seq(Interval)
         /\ \A t \in Int : TrueAt(f[Len(q)], t) <=> TrueAt(q, t)
<1> DEFINE m == Len(q)
           Before(n, t) == \E i \in 1 .. n : q[i].Value /\ During(q[i], t)
           Good(n) == /\ f[n] \in Seq(Interval)
                      /\ n = 0 => f[n] = <<>>
                      /\ n > 0 => Len(f[n]) > 0 /\ f[n][Len(f[n])].Start <= q[n].Start
                      /\ \A t \in Int : TrueAt(f[n], t) <=> Before(n, t)
           S == {n \in 0 .. m : Good(n)}
<1>1. m \in Nat /\ \A n \in 1 .. m : q[n] \in Interval /\ q[n].Start \in Int
  <2>1. m \in Nat /\ \A n \in 1 .. m : q[n] \in Interval
    OBVIOUS
  <2>2. QED
    BY <2>1 DEF Interval
<1>2. \A n \in 0 .. m : f[n] = MergeTurn(f, q, n)
  BY MergesStep
<1>3. 0 \in S
  <2>1. f[0] = <<>>
    BY <1>1, <1>2 DEF MergeTurn
  <2>2. \A t \in Int : ~TrueAt(f[0], t) /\ ~Before(0, t)
    BY <2>1 DEF TrueAt
  <2> HIDE DEF Before
  <2>3. Good(0)
    BY <2>1, <2>2
  <2> HIDE DEF Good
  <2>4. QED
    BY <1>1, <2>3
<1>4. \A n \in 0 .. m - 1 : n \in S => n + 1 \in S
  <2>1. ASSUME NEW n \in 0 .. m - 1, Good(n) PROVE Good(n + 1)
    <3> DEFINE next == q[n + 1]
    <3>1. n + 1 \in 0 .. m /\ n + 1 # 0 /\ n + 1 - 1 = n /\ n + 1 \in 1 .. m
      BY <1>1
    <3>2. f[n + 1] = MergeNext(f[n], next)
      BY <1>2, <3>1 DEF MergeTurn
    <3>3. next \in Interval /\ next.Start \in Int
      BY <1>1, <3>1
    <3>4. Len(f[n]) > 0 => f[n][Len(f[n])].Start <= next.Start
      <4>1. CASE n = 0
        BY <2>1, <4>1
      <4>2. CASE n > 0
        <5>1. n \in 1 .. m /\ n < n + 1
          BY <1>1, <4>2
        <5>2. q[n].Start <= next.Start /\ q[n].Start \in Int
          BY <1>1, <3>1, <5>1
        <5>3. f[n][Len(f[n])] \in Interval
          BY <2>1, <4>2
        <5>4. f[n][Len(f[n])].Start \in Int
          BY <5>3 DEF Interval
        <5>5. QED
          BY <2>1, <3>3, <4>2, <5>2, <5>4
      <4>3. QED
        BY <1>1, <4>1, <4>2
    <3>5. /\ f[n + 1] \in Seq(Interval) /\ Len(f[n + 1]) > 0
          /\ f[n + 1][Len(f[n + 1])].Start <= next.Start
          /\ \A t \in Int :
               TrueAt(f[n + 1], t) <=> TrueAt(f[n], t) \/ (next.Value /\ During(next, t))
      <4>1. f[n] \in Seq(Interval)
        BY <2>1
      <4> HIDE DEF next, Good
      <4>2. QED
        BY <3>2, <3>3, <3>4, <4>1, MergeNextAdds
    <3>6. \A t \in Int : Before(n + 1, t) <=> Before(n, t) \/ (next.Value /\ During(next, t))
      <4>1. \A i : i \in 1 .. n + 1 <=> i \in 1 .. n \/ i = n + 1
        BY <1>1
      <4>2. QED
        BY <4>1
    <3> HIDE DEF next, Before
    <3>7. \A t \in Int : TrueAt(f[n + 1], t) <=> Before(n + 1, t)
      BY <2>1, <3>5, <3>6
    <3>8. QED
      BY <3>1, <3>5, <3>7 DEF next
  <2> HIDE DEF Good
  <2>2. \A n \in 0 .. m - 1 : n + 1 \in 0 .. m
    BY <1>1
  <2>3. QED
    BY <2>1, <2>2
<1>5. \A n \in 0 .. m : n \in S
  <2> HIDE DEF S
  <2>1. QED
    BY <1>1, <1>3, <1>4, Induction
<1>6. Good(m)
  BY <1>1, <1>5
<1>7. QED
  BY <1>6 DEF TrueAt

\* The sorted intervals are the same ones, in the order of their starts.
LEMMA SortedFacts ==
  ASSUME NEW s \in Seq(Interval)
  PROVE  /\ Sorted(s) \in Seq(Interval) /\ Len(Sorted(s)) = Len(s) /\ Len(s) \in Nat
         /\ InOrder(Sorted(s))
         /\ \A i \in 1 .. Len(s) : \E k \in 1 .. Len(s) : Sorted(s)[i] = s[k]
         /\ \A k \in 1 .. Len(s) : \E i \in 1 .. Len(s) : Sorted(s)[i] = s[k]
<1> DEFINE q == Sorted(s)
           key == [i \in DOMAIN s |-> s[i].Start]
<1>1. Len(s) \in Nat /\ DOMAIN s = 1 .. Len(s) /\ \A i \in 1 .. Len(s) : s[i].Start \in Int
  <2>1. \A i \in 1 .. Len(s) : s[i] \in Interval
    OBVIOUS
  <2>2. QED
    BY <2>1 DEF Interval
<1>2. key \in [1 .. Len(s) -> Int] /\ \A i \in 1 .. Len(s) : key[i] = s[i].Start
  BY <1>1
<1>3. q = SortBy(s, key)
  BY DEF Sorted
<1> HIDE DEF q, key
<1>4. q \in Seq(Interval) /\ Len(q) = Len(s)
  BY <1>2, <1>3, SortPlaces
<1>5. PICK p : SortedFrom(q, s, key, p)
  BY <1>2, <1>3, SortPlaces
<1>6. /\ p \in [1 .. Len(s) -> 1 .. Len(s)]
      /\ \A n \in 1 .. Len(s) : q[n] = s[p[n]]
      /\ \A i \in 1 .. Len(s) : \E n \in 1 .. Len(s) : p[n] = i
  BY <1>5 DEF SortedFrom
<1>7. ASSUME NEW i \in 1 .. Len(q), NEW j \in 1 .. Len(q), i < j
      PROVE  q[i].Start <= q[j].Start
  <2>1. key[p[i]] < key[p[j]] \/ key[p[i]] = key[p[j]]
    BY <1>4, <1>5, <1>7 DEF SortedFrom
  <2>2. p[i] \in 1 .. Len(s) /\ p[j] \in 1 .. Len(s)
    BY <1>4, <1>6
  <2>3. key[p[i]] = q[i].Start /\ key[p[j]] = q[j].Start
    BY <1>2, <1>4, <1>6, <2>2
  <2>4. q[i].Start \in Int /\ q[j].Start \in Int
    BY <1>1, <1>4, <1>6, <2>2
  <2>5. QED
    BY <2>1, <2>3, <2>4
<1>8. InOrder(q)
  BY <1>7 DEF InOrder
<1>9. \A i \in 1 .. Len(s) : \E k \in 1 .. Len(s) : q[i] = s[k]
  BY <1>6
<1>10. \A k \in 1 .. Len(s) : \E i \in 1 .. Len(s) : q[i] = s[k]
  <2>1. ASSUME NEW k \in 1 .. Len(s) PROVE \E i \in 1 .. Len(s) : q[i] = s[k]
    <3>1. PICK i \in 1 .. Len(s) : p[i] = k
      BY <1>6
    <3>2. q[i] = s[k]
      BY <1>6, <3>1
    <3>3. QED
      BY <3>2
  <2>2. QED
    BY <2>1
<1>11. QED
  BY <1>1, <1>4, <1>8, <1>9, <1>10 DEF q

\* Merging loses no time and adds none.
LEMMA MergingKeepsTimes ==
  ASSUME NEW s \in Seq(Interval)
  PROVE  /\ MergeBoolIntervals(s) \in Seq(Interval)
         /\ \A t \in Int : TrueAt(MergeBoolIntervals(s), t) <=> TrueAt(s, t)
<1> DEFINE q == Sorted(s)
<1>1. /\ q \in Seq(Interval) /\ Len(q) = Len(s) /\ InOrder(q)
      /\ \A i \in 1 .. Len(s) : \E k \in 1 .. Len(s) : q[i] = s[k]
      /\ \A k \in 1 .. Len(s) : \E i \in 1 .. Len(s) : q[i] = s[k]
  BY SortedFacts
<1>2. PICK f : Merges(f, q) /\ MergeBoolIntervals(s) = f[Len(q)]
  BY <1>1, MergeUnfolds
<1> HIDE DEF q
<1>3. /\ f[Len(q)] \in Seq(Interval)
      /\ \A t \in Int : TrueAt(f[Len(q)], t) <=> TrueAt(q, t)
  BY <1>1, <1>2, MergesKeepTimes DEF InOrder
<1>4. \A t : TrueAt(q, t) <=> TrueAt(s, t)
  BY <1>1, Zenon DEF TrueAt
<1>5. QED
  BY <1>2, <1>3, <1>4

\* Appending an interval or extending the last one leaves the intervals in order,
\* forward if they are, and apart if all are true.
LEMMA MergeNextShape ==
  ASSUME NEW merged \in Seq(Interval), NEW next \in Interval, InOrder(merged),
         Len(merged) > 0 => merged[Len(merged)].Start <= next.Start
  PROVE  LET m == MergeNext(merged, next)
         IN  /\ InOrder(m)
             /\ Forward(merged) /\ next.Start <= next.End => Forward(m)
             /\ AllTrue(merged) /\ Gapped(merged) /\ next.Value => AllTrue(m) /\ Gapped(m)
<1> DEFINE n == Len(merged)
           m == MergeNext(merged, next)
           Joins == n > 0 /\ merged[n].Value = next.Value /\ merged[n].End >= next.Start
<1>1. n \in Nat /\ next.Start \in Int /\ next.End \in Int /\ next.Value \in BOOLEAN
  BY DEF Interval
<1>2. \A i \in 1 .. n : /\ merged[i] \in Interval /\ merged[i].Start \in Int
                        /\ merged[i].End \in Int /\ merged[i].Value \in BOOLEAN
  <2>1. \A i \in 1 .. n : merged[i] \in Interval
    OBVIOUS
  <2>2. QED
    BY <2>1 DEF Interval
<1>3. \A i, j \in 1 .. n : i < j => merged[i].Start <= merged[j].Start
  BY DEF InOrder
<1>4. CASE Joins
  <2> DEFINE end == Max({merged[n].End, next.End})
             joined == [merged[n] EXCEPT !.End = end]
  <2>0. n \in 1 .. n
    BY <1>1, <1>4
  <2>1. end \in Int /\ end >= merged[n].End /\ end >= next.End
    BY <1>1, <1>2, <2>0, MaxOfTwo
  <2>2. /\ Len(m) = n
        /\ \A i \in 1 .. n : /\ m[i].Start = merged[i].Start /\ m[i].Value = merged[i].Value
                             /\ m[i].End = IF i = n THEN end ELSE merged[i].End
    <3>1. m = [merged EXCEPT ![n].End = end]
      BY <1>4 DEF MergeNext
    <3> HIDE DEF end
    <3>2. /\ joined \in Interval /\ joined.Start = merged[n].Start /\ joined.End = end
          /\ joined.Value = merged[n].Value
      BY <1>2, <2>0, <2>1 DEF Interval
    <3>3. m = [merged EXCEPT ![n] = joined]
      BY <2>0, <3>1
    <3> HIDE DEF joined, m
    <3>4. /\ Len(m) = n /\ m[n] = joined
          /\ \A i \in 1 .. n : i # n => m[i] = merged[i]
      BY <2>0, <3>2, <3>3
    <3>5. QED
      BY <2>0, <3>2, <3>4
  <2> HIDE DEF m, end
  <2>3. InOrder(m)
    BY <1>3, <2>2 DEF InOrder
  <2>4. Forward(merged) => Forward(m)
    BY <1>1, <1>2, <2>0, <2>1, <2>2 DEF Forward
  <2>5. AllTrue(merged) => AllTrue(m)
    BY <2>2 DEF AllTrue
  <2>6. Gapped(merged) => Gapped(m)
    BY <1>1, <2>2 DEF Gapped
  <2>7. QED
    BY <2>3, <2>4, <2>5, <2>6 DEF m
<1>5. CASE ~Joins
  <2>1. m = Append(merged, next)
    BY <1>5 DEF MergeNext
  <2>2. /\ Len(m) = n + 1 /\ m[n + 1] = next
        /\ \A i \in 1 .. n : m[i] = merged[i]
        /\ \A i : i \in 1 .. n + 1 <=> i \in 1 .. n \/ i = n + 1
    BY <1>1, <2>1
  <2> HIDE DEF m
  <2>3. \A i \in 1 .. n : n \in 1 .. n /\ (i < n \/ i = n)
    BY <1>1
  <2>4. \A i \in 1 .. n : merged[i].Start <= next.Start
    <3>1. \A i \in 1 .. n : merged[i].Start <= merged[n].Start
      BY <1>2, <1>3, <2>3
    <3>2. QED
      BY <1>1, <1>2, <2>3, <3>1
  <2>5. InOrder(m)
    BY <1>1, <1>3, <2>2, <2>4 DEF InOrder
  <2>6. Forward(merged) /\ next.Start <= next.End => Forward(m)
    BY <2>2 DEF Forward
  <2>7. ASSUME AllTrue(merged), Gapped(merged), next.Value PROVE AllTrue(m) /\ Gapped(m)
    <3>1. AllTrue(m)
      BY <2>2, <2>7 DEF AllTrue
    <3>2. \A i \in 1 .. n : merged[i].End < next.Start
      <4>1. n > 0 => merged[n].End < next.Start
        <5>1. ASSUME n > 0 PROVE n \in 1 .. n /\ merged[n].Value = next.Value
          <6>1. n \in 1 .. n
            BY <1>1, <5>1
          <6>2. merged[n].Value /\ merged[n].Value \in BOOLEAN
            BY <1>2, <2>7, <6>1 DEF AllTrue
          <6>3. merged[n].Value = TRUE /\ next.Value = TRUE
            BY <1>1, <2>7, <6>2, Zenon
          <6>4. QED
            BY <6>1, <6>3
        <5>2. QED
          BY <1>1, <1>2, <1>5, <5>1
      <4>2. \A i \in 1 .. n : i < n => merged[i].End < merged[n].Start
        BY <2>3, <2>7 DEF Gapped
      <4>3. QED
        BY <1>1, <1>2, <2>3, <2>4, <4>1, <4>2
    <3>3. Gapped(m)
      BY <1>1, <2>2, <2>7, <3>2 DEF Gapped
    <3>4. QED
      BY <3>1, <3>3
  <2>8. QED
    BY <2>5, <2>6, <2>7 DEF m
<1>6. QED
  BY <1>4, <1>5

\* Of intervals in the order of their starts: what merging makes of them.
LEMMA MergesShape ==
  ASSUME NEW q \in Seq(Interval), NEW f, Merges(f, q), InOrder(q)
  PROVE  /\ Forward(q) => Forward(f[Len(q)])
         /\ AllTrue(q) => AllTrue(f[Len(q)]) /\ Gapped(f[Len(q)])
<1> DEFINE m == Len(q)
           LastOf(t) == t[Len(t)]
           Good(n) == /\ f[n] \in Seq(Interval) /\ InOrder(f[n])
                      /\ Len(f[n]) > 0 => n > 0 /\ LastOf(f[n]).Start <= q[n].Start
                      /\ Forward(q) => Forward(f[n])
                      /\ AllTrue(q) => AllTrue(f[n]) /\ Gapped(f[n])
           S == {n \in 0 .. m : Good(n)}
<1>1. m \in Nat /\ \A n \in 1 .. m : q[n] \in Interval /\ q[n].Start \in Int
  <2>1. m \in Nat /\ \A n \in 1 .. m : q[n] \in Interval
    OBVIOUS
  <2>2. QED
    BY <2>1 DEF Interval
<1>2. \A n \in 0 .. m : f[n] = MergeTurn(f, q, n)
  BY MergesStep
<1>3. Good(0)
  <2>1. f[0] = <<>>
    BY <1>1, <1>2 DEF MergeTurn
  <2>2. <<>> \in Seq(Interval) /\ Len(<<>>) = 0
    OBVIOUS
  <2>3. QED
    BY <2>1, <2>2 DEF InOrder, Forward, AllTrue, Gapped
<1>4. ASSUME NEW n \in 0 .. m - 1, Good(n) PROVE Good(n + 1)
  <2> DEFINE next == q[n + 1]
  <2>1. n + 1 \in 1 .. m /\ n + 1 \in 0 .. m /\ (n + 1) - 1 = n /\ n + 1 # 0 /\ n + 1 > 0
    BY <1>1
  <2>2. f[n + 1] = MergeNext(f[n], next)
    BY <1>2, <2>1 DEF MergeTurn
  <2>3. next \in Interval /\ next.Start \in Int
    BY <1>1, <2>1
  <2>4. Len(f[n]) > 0 => LastOf(f[n]).Start <= next.Start
    <3>1. ASSUME Len(f[n]) > 0 PROVE LastOf(f[n]).Start <= next.Start
      <4>1. n \in 1 .. m /\ n < n + 1
        BY <1>1, <1>4, <3>1
      <4>2. q[n].Start <= next.Start /\ q[n].Start \in Int
        BY <1>1, <2>1, <4>1 DEF InOrder
      <4>3. LastOf(f[n]) \in Interval
        BY <1>4, <3>1
      <4>4. LastOf(f[n]).Start \in Int
        BY <4>3 DEF Interval
      <4>5. LastOf(f[n]).Start <= q[n].Start
        BY <1>4, <3>1
      <4>6. QED
        BY <2>3, <4>2, <4>4, <4>5
    <3>2. QED
      BY <3>1
  <2>5. f[n] \in Seq(Interval) /\ InOrder(f[n])
    BY <1>4
  <2>6. /\ Forward(q) => next.Start <= next.End
        /\ AllTrue(q) => next.Value
    BY <2>1 DEF Forward, AllTrue
  <2> HIDE DEF next
  <2>7. /\ f[n + 1] \in Seq(Interval) /\ LastOf(f[n + 1]).Start <= next.Start
    BY <2>2, <2>3, <2>4, <2>5, MergeNextAdds
  <2>8. /\ InOrder(f[n + 1])
        /\ Forward(f[n]) /\ next.Start <= next.End => Forward(f[n + 1])
        /\ AllTrue(f[n]) /\ Gapped(f[n]) /\ next.Value => AllTrue(f[n + 1]) /\ Gapped(f[n + 1])
    BY <2>2, <2>3, <2>4, <2>5, MergeNextShape
  <2> HIDE DEF LastOf
  <2>9. QED
    BY <1>4, <2>1, <2>6, <2>7, <2>8 DEF next
<1> HIDE DEF Good
<1>5. \A n \in 0 .. m : n \in S
  <2>1. 0 \in S
    BY <1>1, <1>3
  <2>2. \A n \in 0 .. m - 1 : n \in S => n + 1 \in S
    BY <1>1, <1>4
  <2> HIDE DEF S
  <2>3. QED
    BY <1>1, <2>1, <2>2, Induction
<1>6. Good(m)
  BY <1>1, <1>5
<1>7. QED
  BY <1>6 DEF Good

\* What merging makes of the intervals of a timeline.
LEMMA MergingShape ==
  ASSUME NEW s \in Seq(Interval)
  PROVE  /\ Forward(s) => Forward(MergeBoolIntervals(s))
         /\ AllTrue(s) => AllTrue(MergeBoolIntervals(s)) /\ Gapped(MergeBoolIntervals(s))
<1> DEFINE q == Sorted(s)
           n == Len(s)
<1>1. /\ q \in Seq(Interval) /\ Len(q) = n /\ n \in Nat /\ InOrder(q)
      /\ \A i \in 1 .. n : \E k \in 1 .. n : q[i] = s[k]
  BY SortedFacts
<1>2. PICK f : Merges(f, q) /\ MergeBoolIntervals(s) = f[Len(q)]
  BY <1>1, MergeUnfolds
<1> HIDE DEF q
<1>3. (Forward(s) => Forward(q)) /\ (AllTrue(s) => AllTrue(q))
  BY <1>1 DEF Forward, AllTrue
<1>4. QED
  BY <1>1, <1>2, <1>3, MergesShape

--------------------------------------------------------------------------------
(* Concatenation.                                                          *)

Flatten(f, seqs, n) == IF n = 1 THEN seqs[n] ELSE f[n - 1] \o seqs[n]

Flattens(f, seqs) == f = [n \in 1 .. Len(seqs) |-> Flatten(f, seqs, n)]

\* What is flattened after n turns.
LEMMA FlattensStep ==
  ASSUME NEW seqs, NEW f, Flattens(f, seqs)
  PROVE  \A n \in 1 .. Len(seqs) : f[n] = Flatten(f, seqs, n)
BY DEF Flattens

\* FlattenSeq is the result of the last turn.
LEMMA FlattenUnfolds ==
  ASSUME NEW E, NEW seqs \in Seq(Seq(E)), Len(seqs) # 0
  PROVE  \E f : Flattens(f, seqs) /\ FlattenSeq(seqs) = f[Len(seqs)]
<1> DEFINE U == Seq(E)
           Functions == [1 .. Len(seqs) -> U]
           F == [f \in Functions |-> [n \in 1 .. Len(seqs) |-> Flatten(f, seqs, n)]]
<1>1. Len(seqs) \in Nat /\ U # {} /\ 1 \in 0 .. 1
  OBVIOUS
<1>2. ASSUME NEW f \in Functions, NEW n \in 1 .. Len(seqs) PROVE Flatten(f, seqs, n) \in U
  <2>1. seqs[n] \in Seq(E)
    OBVIOUS
  <2>2. CASE n = 1
    BY <2>1, <2>2 DEF Flatten
  <2>3. CASE n # 1
    <3>1. n - 1 \in 1 .. Len(seqs)
      BY <1>1, <2>3
    <3>2. f[n - 1] \in Seq(E)
      BY <3>1
    <3>3. QED
      BY <2>1, <2>3, <3>2 DEF Flatten
  <2>4. QED
    BY <2>2, <2>3
<1>3. F \in [Functions -> Functions]
  BY <1>2
<1>4. ASSUME NEW f \in Functions, NEW g \in Functions, NEW n \in 1 .. Len(seqs),
             \A k \in 1 .. Len(seqs) : k < n => f[k] = g[k]
      PROVE  F[f][n] = F[g][n]
  <2>1. n # 1 => f[n - 1] = g[n - 1]
    BY <1>1, <1>4
  <2>2. QED
    BY <2>1 DEF Flatten
<1>5. Causal(F, 1 .. Len(seqs))
  BY <1>3, <1>4 DEF Causal
<1>6. HasFixedPoint(F)
  <2> HIDE DEF U, F
  <2>1. QED
    BY <1>1, <1>3, <1>5, RecursionExists
<1>7. \E f : Flattens(f, seqs)
  BY <1>6 DEF Flattens, HasFixedPoint
<1>8. QED
  BY <1>7 DEF FlattenSeq, Flattens, Flatten

Among(e, s) == \E j \in 1 .. Len(s) : s[j] = e

\* A concatenation has the elements of both lists.
LEMMA AmongBoth ==
  ASSUME NEW E, NEW a \in Seq(E), NEW b \in Seq(E)
  PROVE  \A e \in E : Among(e, a \o b) <=> Among(e, a) \/ Among(e, b)
<1>1. /\ Len(a) \in Nat /\ Len(b) \in Nat /\ Len(a \o b) = Len(a) + Len(b)
      /\ \A i \in 1 .. Len(a) : (a \o b)[i] = a[i]
      /\ \A i \in 1 .. Len(b) : (a \o b)[Len(a) + i] = b[i]
  OBVIOUS
<1>2. /\ \A i \in 1 .. Len(a) : i \in 1 .. Len(a) + Len(b)
      /\ \A i \in 1 .. Len(b) : Len(a) + i \in 1 .. Len(a) + Len(b)
      /\ \A i \in 1 .. Len(a) + Len(b) :
           i \in 1 .. Len(a) \/ \E j \in 1 .. Len(b) : i = Len(a) + j
  <2>1. ASSUME NEW i \in 1 .. Len(a) + Len(b), i \notin 1 .. Len(a)
        PROVE  i - Len(a) \in 1 .. Len(b) /\ i = Len(a) + (i - Len(a))
    BY <1>1, <2>1
  <2>2. ASSUME NEW i \in 1 .. Len(a) + Len(b), i \notin 1 .. Len(a)
        PROVE  \E j \in 1 .. Len(b) : i = Len(a) + j
    BY <2>1, <2>2
  <2>3. QED
    BY <1>1, <2>2
<1> DEFINE c == a \o b
<1> HIDE DEF c
<1>3. /\ \A i \in 1 .. Len(a) : i \in 1 .. Len(c) /\ c[i] = a[i]
      /\ \A i \in 1 .. Len(b) : Len(a) + i \in 1 .. Len(c) /\ c[Len(a) + i] = b[i]
      /\ \A i \in 1 .. Len(c) :
           \/ i \in 1 .. Len(a) /\ c[i] = a[i]
           \/ \E j \in 1 .. Len(b) : c[i] = b[j]
  BY <1>1, <1>2 DEF c
<1>4. \A e : Among(e, c) <=> Among(e, a) \/ Among(e, b)
  BY <1>3, Zenon DEF Among
<1>5. QED
  BY <1>4 DEF c

\* The elements of a concatenation.
LEMMA FlattenElements ==
  ASSUME NEW E, NEW seqs \in Seq(Seq(E))
  PROVE  /\ FlattenSeq(seqs) \in Seq(E)
         /\ \A e \in E : Among(e, FlattenSeq(seqs)) <=>
              \E i \in 1 .. Len(seqs) : Among(e, seqs[i])
<1>1. CASE Len(seqs) = 0
  <2>1. FlattenSeq(seqs) = <<>>
    BY <1>1 DEF FlattenSeq
  <2>2. QED
    BY <1>1, <2>1 DEF Among
<1>2. CASE Len(seqs) # 0
  <2>1. PICK f : Flattens(f, seqs) /\ FlattenSeq(seqs) = f[Len(seqs)]
    BY <1>2, FlattenUnfolds
  <2> DEFINE m == Len(seqs)
             Before(n, e) == \E i \in 1 .. n : Among(e, seqs[i])
             Good(n) == /\ f[n] \in Seq(E)
                        /\ \A e \in E : Among(e, f[n]) <=> Before(n, e)
             S == {n \in 0 .. m : n = 0 \/ Good(n)}
  <2>2. m \in Nat /\ \A n \in 1 .. m : seqs[n] \in Seq(E)
    OBVIOUS
  <2>3. \A n \in 1 .. m : f[n] = Flatten(f, seqs, n)
    BY <2>1, FlattensStep
  <2>4. ASSUME NEW n \in 0 .. m - 1, n = 0 \/ Good(n) PROVE Good(n + 1)
    <3>1. n + 1 \in 1 .. m /\ n + 1 - 1 = n /\ seqs[n + 1] \in Seq(E)
      BY <2>2
    <3>2. CASE n = 0
      <4>1. f[1] = seqs[1] /\ seqs[1] \in Seq(E)
        BY <2>3, <3>1, <3>2 DEF Flatten
      <4>2. \A i : i \in 1 .. 1 <=> i = 1
        OBVIOUS
      <4>3. QED
        BY <3>2, <4>1, <4>2
    <3>3. CASE n # 0
      <4>1. f[n] \in Seq(E) /\ f[n + 1] = f[n] \o seqs[n + 1]
        <5>1. n + 1 # 1
          BY <3>3
        <5>2. f[n + 1] = Flatten(f, seqs, n + 1)
          BY <2>3, <3>1
        <5>3. f[n] \in Seq(E)
          BY <2>4, <3>3
        <5>4. Flatten(f, seqs, n + 1) = f[(n + 1) - 1] \o seqs[n + 1]
          BY <5>1 DEF Flatten
        <5>5. (n + 1) - 1 = n
          BY <3>1
        <5>6. QED
          BY <5>2, <5>3, <5>4, <5>5
      <4>2. f[n + 1] \in Seq(E)
        BY <3>1, <4>1
      <4>3. \A e \in E : Among(e, f[n + 1]) <=> Among(e, f[n]) \/ Among(e, seqs[n + 1])
        BY <3>1, <4>1, AmongBoth
      <4>4. \A i : i \in 1 .. n + 1 <=> i \in 1 .. n \/ i = n + 1
        BY <2>2
      <4>5. \A e \in E : Before(n + 1, e) <=> Before(n, e) \/ Among(e, seqs[n + 1])
        BY <4>4
      <4> HIDE DEF Before
      <4>6. QED
        BY <2>4, <3>3, <4>2, <4>3, <4>5
    <3>4. QED
      BY <3>2, <3>3
  <2>5. 0 \in S
    BY <2>2
  <2>6. \A n \in 0 .. m - 1 : n \in S => n + 1 \in S
    <3> HIDE DEF Good
    <3>1. \A n \in 0 .. m - 1 : n + 1 \in 0 .. m
      BY <2>2
    <3>2. QED
      BY <2>4, <3>1
  <2>7. \A n \in 0 .. m : n \in S
    <3> HIDE DEF S
    <3>1. QED
      BY <2>2, <2>5, <2>6, Induction
  <2>8. Good(m)
    BY <1>2, <2>2, <2>7
  <2>9. QED
    BY <2>1, <2>8
<1>3. QED
  BY <1>1, <1>2

\* A concatenation of lists without a common element has no element twice.
LEMMA OnceBoth ==
  ASSUME NEW E, NEW a \in Seq(E), NEW b \in Seq(E), Once(a), Once(b),
         \A e \in E : ~(Among(e, a) /\ Among(e, b))
  PROVE  Once(a \o b)
<1> DEFINE c == a \o b
<1>1. /\ Len(a) \in Nat /\ Len(b) \in Nat /\ Len(c) = Len(a) + Len(b)
      /\ \A i \in 1 .. Len(a) : c[i] = a[i]
      /\ \A i \in 1 .. Len(b) : c[Len(a) + i] = b[i]
  OBVIOUS
<1> HIDE DEF c
<1>2. \A i \in 1 .. Len(c) : i \in 1 .. Len(a) \/ (i - Len(a) \in 1 .. Len(b) /\ i = Len(a) + (i - Len(a)))
  BY <1>1
<1>3. \A i \in 1 .. Len(a), j \in 1 .. Len(b) : a[i] # b[j]
  BY DEF Among
<1>4. ASSUME NEW i \in 1 .. Len(c), NEW j \in 1 .. Len(c), i # j PROVE c[i] # c[j]
  <2> DEFINE k == i - Len(a)
             l == j - Len(a)
  <2>1. CASE i \in 1 .. Len(a) /\ j \in 1 .. Len(a)
    BY <1>1, <1>4, <2>1 DEF Once
  <2>2. CASE i \in 1 .. Len(a) /\ l \in 1 .. Len(b) /\ j = Len(a) + l
    <3>1. c[i] = a[i] /\ c[j] = b[l]
      BY <1>1, <2>2
    <3>2. QED
      BY <1>3, <2>2, <3>1
  <2>3. CASE k \in 1 .. Len(b) /\ i = Len(a) + k /\ j \in 1 .. Len(a)
    <3>1. c[i] = b[k] /\ c[j] = a[j]
      BY <1>1, <2>3
    <3>2. QED
      BY <1>3, <2>3, <3>1
  <2>4. CASE k \in 1 .. Len(b) /\ i = Len(a) + k /\ l \in 1 .. Len(b) /\ j = Len(a) + l
    <3>1. k # l
      BY <1>4, <2>4
    <3>2. c[i] = b[k] /\ c[j] = b[l]
      BY <1>1, <2>4
    <3>3. QED
      BY <2>4, <3>1, <3>2 DEF Once
  <2>5. QED
    BY <1>2, <2>1, <2>2, <2>3, <2>4
<1>5. QED
  BY <1>4 DEF Once, c

\* Neither has a concatenation of many.
LEMMA FlattenOnce ==
  ASSUME NEW E, NEW seqs \in Seq(Seq(E)),
         \A i \in 1 .. Len(seqs) : Once(seqs[i]),
         \A i, j \in 1 .. Len(seqs) : i # j =>
           \A e \in E : ~(Among(e, seqs[i]) /\ Among(e, seqs[j]))
  PROVE  Once(FlattenSeq(seqs))
<1>1. CASE Len(seqs) = 0
  <2>1. FlattenSeq(seqs) = <<>>
    BY <1>1 DEF FlattenSeq
  <2>2. QED
    BY <2>1 DEF Once
<1>2. CASE Len(seqs) # 0
  <2>1. PICK f : Flattens(f, seqs) /\ FlattenSeq(seqs) = f[Len(seqs)]
    BY <1>2, FlattenUnfolds
  <2> DEFINE m == Len(seqs)
             Good(n) == /\ f[n] \in Seq(E)
                        /\ \A e \in E : Among(e, f[n]) => \E i \in 1 .. n : Among(e, seqs[i])
                        /\ Once(f[n])
             S == {n \in 0 .. m : n = 0 \/ Good(n)}
  <2>2. m \in Nat /\ \A n \in 1 .. m : seqs[n] \in Seq(E)
    OBVIOUS
  <2>3. \A n \in 1 .. m : f[n] = Flatten(f, seqs, n)
    BY <2>1, FlattensStep
  <2>4. ASSUME NEW n \in 0 .. m - 1, n = 0 \/ Good(n) PROVE Good(n + 1)
    <3>1. n + 1 \in 1 .. m /\ n + 1 - 1 = n /\ seqs[n + 1] \in Seq(E) /\ n + 1 \in 1 .. n + 1
      BY <2>2
    <3>2. CASE n = 0
      <4>1. f[n + 1] = seqs[n + 1]
        BY <2>3, <3>1, <3>2 DEF Flatten
      <4>2. QED
        BY <3>1, <4>1
    <3>3. CASE n # 0
      <4>1. f[n + 1] = f[n] \o seqs[n + 1]
        <5>1. f[n + 1] = Flatten(f, seqs, n + 1) /\ n + 1 # 1
          BY <2>3, <3>1, <3>3
        <5>2. Flatten(f, seqs, n + 1) = f[(n + 1) - 1] \o seqs[n + 1]
          BY <5>1 DEF Flatten
        <5>3. (n + 1) - 1 = n
          BY <3>1
        <5>4. QED
          BY <5>1, <5>2, <5>3
      <4>2. /\ f[n] \in Seq(E) /\ Once(f[n])
            /\ \A e \in E : Among(e, f[n]) => \E i \in 1 .. n : Among(e, seqs[i])
        BY <2>4, <3>3
      <4>3. f[n + 1] \in Seq(E)
        BY <3>1, <4>1, <4>2
      <4>4. \A i \in 1 .. n : i \in 1 .. m /\ i # n + 1 /\ i \in 1 .. n + 1
        BY <2>2
      <4>5. Once(f[n + 1])
        <5>1. \A e \in E : ~(Among(e, f[n]) /\ Among(e, seqs[n + 1]))
          BY <3>1, <4>2, <4>4
        <5>2. Once(f[n] \o seqs[n + 1])
          BY <3>1, <4>2, <5>1, OnceBoth
        <5>3. QED
          BY <4>1, <5>2
      <4>6. \A e \in E : Among(e, f[n + 1]) <=> Among(e, f[n]) \/ Among(e, seqs[n + 1])
        BY <3>1, <4>1, <4>2, AmongBoth
      <4>7. \A e \in E : Among(e, f[n + 1]) => \E i \in 1 .. n + 1 : Among(e, seqs[i])
        BY <3>1, <4>2, <4>4, <4>6
      <4>8. QED
        BY <4>3, <4>5, <4>7
    <3>4. QED
      BY <3>2, <3>3
  <2>5. 0 \in S
    BY <2>2
  <2>6. \A n \in 0 .. m - 1 : n \in S => n + 1 \in S
    <3> HIDE DEF Good
    <3>1. \A n \in 0 .. m - 1 : n + 1 \in 0 .. m
      BY <2>2
    <3>2. QED
      BY <2>4, <3>1
  <2>7. \A n \in 0 .. m : n \in S
    <3> HIDE DEF S
    <3>1. QED
      BY <2>2, <2>5, <2>6, Induction
  <2>8. Good(m)
    BY <1>2, <2>2, <2>7
  <2>9. QED
    BY <2>1, <2>8
<1>3. QED
  BY <1>1, <1>2

\* When a list of intervals is true depends on its elements, not on their order.
LEMMA TrueAmong ==
  ASSUME NEW timeline \in Seq(Interval)
  PROVE  \A t : TrueAt(timeline, t) <=>
           \E x \in Interval : Among(x, timeline) /\ x.Value /\ During(x, t)
<1>1. \A i \in 1 .. Len(timeline) : timeline[i] \in Interval
  OBVIOUS
<1>2. QED
  BY <1>1 DEF TrueAt, Among

\* A concatenation is true when one of its parts is.
LEMMA FlattenTimes ==
  ASSUME NEW seqs \in Seq(Seq(Interval))
  PROVE  /\ FlattenSeq(seqs) \in Seq(Interval)
         /\ \A t : TrueAt(FlattenSeq(seqs), t) <=> \E i \in 1 .. Len(seqs) : TrueAt(seqs[i], t)
<1>1. /\ FlattenSeq(seqs) \in Seq(Interval)
      /\ \A e \in Interval : Among(e, FlattenSeq(seqs)) <=>
           \E i \in 1 .. Len(seqs) : Among(e, seqs[i])
  BY FlattenElements
<1>2. \A i \in 1 .. Len(seqs) : seqs[i] \in Seq(Interval)
  OBVIOUS
<1>3. \A t : TrueAt(FlattenSeq(seqs), t) <=> \E i \in 1 .. Len(seqs) : TrueAt(seqs[i], t)
  BY <1>1, <1>2, TrueAmong
<1>4. QED
  BY <1>1, <1>3

\* The elements of a concatenation are those of its parts.
LEMMA FlattenShape ==
  ASSUME NEW seqs \in Seq(Seq(Interval))
  PROVE  /\ FlattenSeq(seqs) \in Seq(Interval)
         /\ (\A i \in 1 .. Len(seqs) : Forward(seqs[i])) => Forward(FlattenSeq(seqs))
         /\ (\A i \in 1 .. Len(seqs) : AllTrue(seqs[i])) => AllTrue(FlattenSeq(seqs))
<1> DEFINE flat == FlattenSeq(seqs)
<1>1. /\ flat \in Seq(Interval)
      /\ \A e \in Interval : Among(e, flat) <=> \E i \in 1 .. Len(seqs) : Among(e, seqs[i])
  BY FlattenElements
<1> HIDE DEF flat
<1>2. ASSUME NEW k \in 1 .. Len(flat)
      PROVE  \E i \in 1 .. Len(seqs) : \E j \in 1 .. Len(seqs[i]) : flat[k] = seqs[i][j]
  <2>1. flat[k] \in Interval /\ Among(flat[k], flat)
    BY <1>1 DEF Among
  <2>2. PICK i \in 1 .. Len(seqs) : Among(flat[k], seqs[i])
    BY <1>1, <2>1
  <2>3. PICK j \in 1 .. Len(seqs[i]) : seqs[i][j] = flat[k]
    BY <2>2 DEF Among
  <2>4. QED
    BY <2>3
<1>3. (\A i \in 1 .. Len(seqs) : Forward(seqs[i])) => Forward(flat)
  BY <1>2 DEF Forward
<1>4. (\A i \in 1 .. Len(seqs) : AllTrue(seqs[i])) => AllTrue(flat)
  BY <1>2 DEF AllTrue
<1>5. QED
  BY <1>1, <1>3, <1>4 DEF flat

--------------------------------------------------------------------------------
(* Selections.                                                             *)

\* Select keeps the wanted elements and no others.
LEMMA SelectElements ==
  ASSUME NEW E, NEW s \in Seq(E), NEW wanted
  PROVE  /\ Select(s, wanted) \in Seq(E)
         /\ \A e : Among(e, Select(s, wanted)) <=> Among(e, s) /\ e \in wanted
<1>1. /\ Select(s, wanted) \in Seq(E)
      /\ \A i \in 1 .. Len(s) : s[i] \in wanted =>
           \E j \in 1 .. Len(Select(s, wanted)) : Select(s, wanted)[j] = s[i]
      /\ \A j \in 1 .. Len(Select(s, wanted)) :
           /\ Select(s, wanted)[j] \in wanted
           /\ \E i \in 1 .. Len(s) : Select(s, wanted)[j] = s[i]
  BY SelectFacts
<1>2. QED
  BY <1>1 DEF Among

\* Intervals that are not true, or are empty, count for nothing.
LEMMA TruesTimes ==
  ASSUME NEW timeline \in Seq(Interval)
  PROVE  /\ Trues(timeline) \in Seq(Interval)
         /\ \A i \in 1 .. Len(Trues(timeline)) : Trues(timeline)[i].Value
         /\ \A t : TrueAt(Trues(timeline), t) <=> TrueAt(timeline, t)
<1> DEFINE wanted == {i \in ToSet(timeline) : i.Value}
<1>1. /\ Trues(timeline) \in Seq(Interval)
      /\ \A e : Among(e, Trues(timeline)) <=> Among(e, timeline) /\ e \in wanted
  BY SelectElements DEF Trues
<1>2. \A e : Among(e, timeline) => e \in ToSet(timeline)
  BY DEF Among, ToSet
<1>3. \A i \in 1 .. Len(Trues(timeline)) : Trues(timeline)[i].Value
  BY <1>1 DEF Among
<1>4. \A t : TrueAt(Trues(timeline), t) <=> TrueAt(timeline, t)
  BY <1>1, <1>2, TrueAmong
<1>5. QED
  BY <1>1, <1>3, <1>4

\* The true intervals of a timeline keep its shape.
LEMMA TruesShape ==
  ASSUME NEW timeline \in Seq(Interval)
  PROVE  /\ Trues(timeline) \in Seq(Interval)
         /\ Forward(timeline) => Forward(Trues(timeline))
         /\ Disjoint(timeline) => Disjoint(Trues(timeline))
<1> DEFINE wanted == {i \in ToSet(timeline) : i.Value}
           trues == Trues(timeline)
<1>1. trues \in Seq(Interval) /\ Len(trues) \in Nat
  BY TruesTimes
<1>2. PICK p : ComesFrom(trues, timeline, wanted, Len(timeline), p)
  BY SelectPlaces DEF Trues
<1> HIDE DEF trues
<1>3. /\ \A j \in 1 .. Len(trues) : p[j] \in 1 .. Len(timeline) /\ trues[j] = timeline[p[j]]
      /\ \A i, j \in 1 .. Len(trues) : i < j => p[i] < p[j]
  BY <1>2 DEF ComesFrom
<1>4. Forward(timeline) => Forward(trues)
  BY <1>3 DEF Forward
<1>5. Disjoint(timeline) => Disjoint(trues)
  BY <1>3 DEF Disjoint
<1>6. QED
  BY <1>1, <1>4, <1>5 DEF trues

\* An empty interval has no time: without it a list is true at the same times.
LEMMA NonEmptyTimes ==
  ASSUME NEW timeline \in Seq(Interval)
  PROVE  /\ NonEmpty(timeline) \in Seq(Interval)
         /\ \A i \in 1 .. Len(NonEmpty(timeline)) : Among(NonEmpty(timeline)[i], timeline)
         /\ \A t \in Int : TrueAt(NonEmpty(timeline), t) <=> TrueAt(timeline, t)
<1> DEFINE wanted == {i \in ToSet(timeline) : i.Start < i.End}
<1>1. /\ NonEmpty(timeline) \in Seq(Interval)
      /\ \A e : Among(e, NonEmpty(timeline)) <=> Among(e, timeline) /\ e \in wanted
  BY SelectElements DEF NonEmpty
<1>2. \A e : Among(e, timeline) => e \in ToSet(timeline)
  BY DEF Among, ToSet
<1>3. \A i \in 1 .. Len(NonEmpty(timeline)) : Among(NonEmpty(timeline)[i], timeline)
  BY <1>1 DEF Among
<1>4. ASSUME NEW t \in Int, NEW e \in Interval, During(e, t) PROVE e.Start < e.End
  BY <1>4 DEF During, Interval
<1>5. \A t \in Int : TrueAt(NonEmpty(timeline), t) <=> TrueAt(timeline, t)
  BY <1>1, <1>2, <1>4, TrueAmong
<1>6. QED
  BY <1>1, <1>3, <1>5

\* What is left of the nonempty intervals goes forward.
LEMMA NonEmptyForward ==
  ASSUME NEW timeline \in Seq(Interval)
  PROVE  Forward(NonEmpty(timeline))
<1> DEFINE wanted == {i \in ToSet(timeline) : i.Start < i.End}
           left == NonEmpty(timeline)
<1>1. left \in Seq(Interval) /\ \A e : Among(e, left) => e \in wanted
  BY SelectElements DEF NonEmpty
<1> HIDE DEF left
<1>2. ASSUME NEW i \in 1 .. Len(left) PROVE left[i].Start <= left[i].End
  <2>1. left[i] \in wanted /\ left[i] \in Interval
    BY <1>1 DEF Among
  <2>2. QED
    BY <2>1 DEF Interval
<1>3. QED
  BY <1>2 DEF Forward, left

--------------------------------------------------------------------------------
(* AND and OR.                                                             *)

\* Two intervals intersect at the times in both.
LEMMA IntersectionTimes ==
  ASSUME NEW x \in Interval, NEW y \in Interval
  PROVE  /\ Intersection(x, y) \in Interval
         /\ Intersection(x, y).Value
         /\ \A t \in Int : During(Intersection(x, y), t) <=> During(x, t) /\ During(y, t)
<1> DEFINE start == Max({x.Start, y.Start})
           end == Min({x.End, y.End})
<1>1. x.Start \in Int /\ x.End \in Int /\ y.Start \in Int /\ y.End \in Int
  BY DEF Interval
<1>2. start \in Int /\ start >= x.Start /\ start >= y.Start
      /\ (start = x.Start \/ start = y.Start)
  BY <1>1, MaxOfTwo
<1>3. end \in Int /\ end <= x.End /\ end <= y.End /\ (end = x.End \/ end = y.End)
  BY <1>1, MinOfTwo
<1>4. Intersection(x, y) = [Value |-> TRUE, Start |-> start, End |-> end]
  BY DEF Intersection, True
<1> HIDE DEF start, end
<1>5. Intersection(x, y) \in Interval
  BY <1>2, <1>3, <1>4 DEF Interval
<1>6. \A t \in Int : During(Intersection(x, y), t) <=> During(x, t) /\ During(y, t)
  BY <1>1, <1>2, <1>3, <1>4 DEF During
<1>7. Intersection(x, y).Value
  BY <1>4
<1>8. QED
  BY <1>5, <1>6, <1>7

\* The conjunction of two timelines is true when both are.
LEMMA AndTwoTimes ==
  ASSUME NEW a \in Seq(Interval), NEW b \in Seq(Interval)
  PROVE  /\ AndTwoTimelines(a, b) \in Seq(Interval)
         /\ \A t \in Int : TrueAt(AndTwoTimelines(a, b), t) <=> TrueAt(a, t) /\ TrueAt(b, t)
<1> DEFINE A == Trues(a)
           B == Trues(b)
           pairs(i) == [j \in 1 .. Len(B) |-> Intersection(A[i], B[j])]
           rows == [i \in 1 .. Len(A) |-> NonEmpty(pairs(i))]
<1>1. /\ A \in Seq(Interval) /\ \A i \in 1 .. Len(A) : A[i].Value
      /\ \A t : TrueAt(A, t) <=> TrueAt(a, t)
  BY TruesTimes
<1>2. /\ B \in Seq(Interval) /\ \A j \in 1 .. Len(B) : B[j].Value
      /\ \A t : TrueAt(B, t) <=> TrueAt(b, t)
  BY TruesTimes
<1>3. DOMAIN Trues(a) = 1 .. Len(A) /\ DOMAIN Trues(b) = 1 .. Len(B)
  BY <1>1, <1>2
<1>4. AndTwoTimelines(a, b) = MergeBoolIntervals(FlattenSeq(rows))
  BY <1>3 DEF AndTwoTimelines
<1> HIDE DEF A, B
<1>5. ASSUME NEW i \in 1 .. Len(A)
      PROVE  /\ pairs(i) \in Seq(Interval) /\ Len(pairs(i)) = Len(B)
             /\ \A t \in Int : TrueAt(pairs(i), t) <=> During(A[i], t) /\ TrueAt(B, t)
  <2>1. A[i] \in Interval /\ \A j \in 1 .. Len(B) : B[j] \in Interval
    BY <1>1, <1>2
  <2>2. \A j \in 1 .. Len(B) :
          /\ Intersection(A[i], B[j]) \in Interval /\ Intersection(A[i], B[j]).Value
          /\ \A t \in Int :
               During(Intersection(A[i], B[j]), t) <=> During(A[i], t) /\ During(B[j], t)
    BY <2>1, IntersectionTimes
  <2>3. Len(B) \in Nat
    BY <1>2
  <2>4. pairs(i) \in Seq(Interval) /\ Len(pairs(i)) = Len(B)
    BY <2>2, <2>3
  <2>5. \A j \in 1 .. Len(B) : pairs(i)[j] = Intersection(A[i], B[j])
    OBVIOUS
  <2> HIDE DEF pairs
  <2>6. ASSUME NEW t \in Int
        PROVE  TrueAt(pairs(i), t) <=> During(A[i], t) /\ TrueAt(B, t)
    <3>1. \A j \in 1 .. Len(B) :
            /\ pairs(i)[j].Value
            /\ During(pairs(i)[j], t) <=> During(A[i], t) /\ During(B[j], t)
      BY <2>2, <2>5
    <3>2. QED
      BY <1>2, <2>4, <3>1 DEF TrueAt
  <2>7. QED
    BY <2>4, <2>6
<1> HIDE DEF pairs
<1>6. \A i \in 1 .. Len(A) :
        /\ NonEmpty(pairs(i)) \in Seq(Interval)
        /\ \A t \in Int : TrueAt(NonEmpty(pairs(i)), t) <=> TrueAt(pairs(i), t)
  BY <1>5, NonEmptyTimes
<1>7. /\ rows \in Seq(Seq(Interval)) /\ Len(rows) = Len(A)
      /\ \A i \in 1 .. Len(A) : rows[i] = NonEmpty(pairs(i))
  <2>1. Len(A) \in Nat
    BY <1>1
  <2>2. QED
    BY <1>6, <2>1
<1> HIDE DEF rows
<1>8. /\ FlattenSeq(rows) \in Seq(Interval)
      /\ \A t : TrueAt(FlattenSeq(rows), t) <=> \E i \in 1 .. Len(rows) : TrueAt(rows[i], t)
  BY <1>7, FlattenTimes
<1>9. /\ AndTwoTimelines(a, b) \in Seq(Interval)
      /\ \A t \in Int : TrueAt(AndTwoTimelines(a, b), t) <=> TrueAt(FlattenSeq(rows), t)
  BY <1>4, <1>8, MergingKeepsTimes
<1>10. \A t \in Int : TrueAt(FlattenSeq(rows), t) <=>
         \E i \in 1 .. Len(A) : During(A[i], t) /\ TrueAt(B, t)
  <2>1. ASSUME NEW t \in Int, NEW i \in 1 .. Len(A)
        PROVE  TrueAt(rows[i], t) <=> During(A[i], t) /\ TrueAt(B, t)
    BY <1>5, <1>6, <1>7
  <2>2. QED
    BY <1>7, <1>8, <2>1
<1>11. \A t : TrueAt(A, t) <=> \E i \in 1 .. Len(A) : During(A[i], t)
  BY <1>1 DEF TrueAt
<1>12. QED
  BY <1>1, <1>2, <1>9, <1>10, <1>11

AndTurn(f, timelines, n) ==
  IF n = 0 THEN <<>>
  ELSE IF n = 1 THEN timelines[1]
  ELSE AndTwoTimelines(f[n - 1], timelines[n])

Joins(f, timelines) == f = [n \in 0 .. Len(timelines) |-> AndTurn(f, timelines, n)]

\* What is joined after n turns of AND.
LEMMA JoinsStep ==
  ASSUME NEW timelines, NEW f, Joins(f, timelines)
  PROVE  \A n \in 0 .. Len(timelines) : f[n] = AndTurn(f, timelines, n)
BY DEF Joins

\* AND is the result of the last turn.
LEMMA AndUnfolds ==
  ASSUME NEW timelines \in Seq(Seq(Interval))
  PROVE  \E f : Joins(f, timelines) /\ AND(timelines) = f[Len(timelines)]
<1> DEFINE U == Seq(Interval)
           m == Len(timelines)
           Functions == [0 .. m -> U]
           F == [f \in Functions |-> [n \in 0 .. m |-> AndTurn(f, timelines, n)]]
<1>1. m \in Nat /\ U # {} /\ 0 \in 0 .. 1
  OBVIOUS
<1>2. ASSUME NEW f \in Functions, NEW n \in 0 .. m PROVE AndTurn(f, timelines, n) \in U
  <2>1. CASE n = 0
    BY <2>1 DEF AndTurn
  <2>2. CASE n # 0
    <3>1. n \in 1 .. m /\ n - 1 \in 0 .. m
      BY <1>1, <2>2
    <3>2. timelines[n] \in Seq(Interval)
      BY <3>1
    <3>3. f[n - 1] \in Seq(Interval)
      BY <3>1
    <3>4. AndTwoTimelines(f[n - 1], timelines[n]) \in Seq(Interval)
      BY <3>2, <3>3, AndTwoTimes
    <3>5. timelines[1] \in Seq(Interval)
      BY <1>1, <3>1
    <3>6. QED
      BY <2>2, <3>4, <3>5 DEF AndTurn
  <2>3. QED
    BY <2>1, <2>2
<1>3. F \in [Functions -> Functions]
  BY <1>2
<1>4. ASSUME NEW f \in Functions, NEW g \in Functions, NEW n \in 0 .. m,
             \A k \in 0 .. m : k < n => f[k] = g[k]
      PROVE  F[f][n] = F[g][n]
  <2>1. n # 0 => f[n - 1] = g[n - 1]
    BY <1>1, <1>4
  <2>2. QED
    BY <2>1 DEF AndTurn
<1>5. Causal(F, 0 .. m)
  BY <1>3, <1>4 DEF Causal
<1>6. HasFixedPoint(F)
  <2> HIDE DEF U, F, m
  <2>1. QED
    BY <1>1, <1>3, <1>5, RecursionExists
<1>7. \E f : Joins(f, timelines)
  BY <1>6 DEF Joins, HasFixedPoint
<1>8. QED
  BY <1>7 DEF AND, Joins, AndTurn

\* A conjunction is true when all of its conditions are, and never without one.
LEMMA AndTimes ==
  ASSUME NEW timelines \in Seq(Seq(Interval))
  PROVE  /\ AND(timelines) \in Seq(Interval)
         /\ \A t \in Int : TrueAt(AND(timelines), t) <=>
              Len(timelines) > 0 /\ \A i \in 1 .. Len(timelines) : TrueAt(timelines[i], t)
<1>1. PICK f : Joins(f, timelines) /\ AND(timelines) = f[Len(timelines)]
  BY AndUnfolds
<1> DEFINE m == Len(timelines)
           All(n, t) == n > 0 /\ \A i \in 1 .. n : TrueAt(timelines[i], t)
           Good(n) == /\ f[n] \in Seq(Interval)
                      /\ \A t \in Int : TrueAt(f[n], t) <=> All(n, t)
           S == {n \in 0 .. m : Good(n)}
<1>2. m \in Nat /\ \A n \in 1 .. m : timelines[n] \in Seq(Interval)
  OBVIOUS
<1>3. \A n \in 0 .. m : f[n] = AndTurn(f, timelines, n)
  BY <1>1, JoinsStep
<1>4. 0 \in S
  <2>1. f[0] = <<>>
    BY <1>2, <1>3 DEF AndTurn
  <2>2. \A t \in Int : ~TrueAt(f[0], t) /\ ~All(0, t)
    BY <2>1 DEF TrueAt
  <2> HIDE DEF All
  <2>3. Good(0)
    BY <2>1, <2>2
  <2> HIDE DEF Good
  <2>4. QED
    BY <1>2, <2>3
<1>5. ASSUME NEW n \in 0 .. m - 1, Good(n) PROVE Good(n + 1)
  <2>1. n \in Nat /\ n + 1 \in 1 .. m /\ n + 1 \in 0 .. m /\ n + 1 # 0
    BY <1>2
  <2>2. timelines[n + 1] \in Seq(Interval) /\ f[n] \in Seq(Interval)
    BY <1>2, <1>5, <2>1
  <2>3. f[n + 1] = AndTurn(f, timelines, n + 1)
    BY <1>3, <2>1
  <2>4. CASE n = 0
    <3>1. f[1] = timelines[1]
      BY <2>3, <2>4 DEF AndTurn
    <3>2. \A t : All(1, t) <=> TrueAt(timelines[1], t)
      <4>1. \A i : i \in 1 .. 1 <=> i = 1
        OBVIOUS
      <4>2. QED
        BY <4>1
    <3> HIDE DEF All
    <3>3. Good(1)
      BY <2>2, <2>4, <3>1, <3>2
    <3> HIDE DEF Good
    <3>4. QED
      BY <2>4, <3>3
  <2>5. CASE n # 0
    <3>1. AndTurn(f, timelines, n + 1) = AndTwoTimelines(f[(n + 1) - 1], timelines[n + 1])
      <4>1. n + 1 # 0 /\ n + 1 # 1
        BY <2>1, <2>5
      <4>2. QED
        BY <4>1 DEF AndTurn
    <3>2. (n + 1) - 1 = n
      BY <2>1
    <3>3. f[n + 1] = AndTwoTimelines(f[n], timelines[n + 1])
      BY <2>3, <3>1, <3>2
    <3>4. /\ f[n + 1] \in Seq(Interval)
          /\ \A t \in Int : TrueAt(f[n + 1], t) <=>
               TrueAt(f[n], t) /\ TrueAt(timelines[n + 1], t)
      BY <2>2, <3>3, AndTwoTimes
    <3>5. \A i : i \in 1 .. n + 1 <=> i \in 1 .. n \/ i = n + 1
      BY <2>1
    <3>6. \A t : All(n + 1, t) <=> All(n, t) /\ TrueAt(timelines[n + 1], t)
      BY <2>1, <2>5, <3>5
    <3> HIDE DEF All
    <3>7. QED
      BY <1>5, <3>4, <3>6
  <2>6. QED
    BY <2>4, <2>5
<1>6. \A n \in 0 .. m - 1 : n \in S => n + 1 \in S
  <2> HIDE DEF Good
  <2>1. \A n \in 0 .. m - 1 : n + 1 \in 0 .. m
    BY <1>2
  <2>2. QED
    BY <1>5, <2>1
<1>7. \A n \in 0 .. m : n \in S
  <2> HIDE DEF S
  <2>1. QED
    BY <1>2, <1>4, <1>6, Induction
<1>8. Good(m)
  BY <1>2, <1>7
<1>9. QED
  BY <1>1, <1>8

\* A disjunction is true when one of its conditions is.
LEMMA OrTimes ==
  ASSUME NEW timelines \in Seq(Seq(Interval))
  PROVE  /\ OR(timelines) \in Seq(Interval)
         /\ \A t \in Int : TrueAt(OR(timelines), t) <=>
              \E i \in 1 .. Len(timelines) : TrueAt(timelines[i], t)
<1>1. CASE Len(timelines) = 1
  <2>1. OR(timelines) = timelines[1] /\ timelines[1] \in Seq(Interval)
    BY <1>1 DEF OR
  <2>2. \A i : i \in 1 .. Len(timelines) <=> i = 1
    BY <1>1
  <2>3. QED
    BY <2>1, <2>2
<1>2. CASE Len(timelines) # 1
  <2> DEFINE flat == FlattenSeq(timelines)
  <2>1. OR(timelines) = MergeBoolIntervals(flat)
    BY <1>2 DEF OR
  <2>2. /\ flat \in Seq(Interval)
        /\ \A t : TrueAt(flat, t) <=> \E i \in 1 .. Len(timelines) : TrueAt(timelines[i], t)
    BY FlattenTimes
  <2> HIDE DEF flat
  <2>3. MergeBoolIntervals(flat) \in Seq(Interval)
        /\ \A t \in Int : TrueAt(MergeBoolIntervals(flat), t) <=> TrueAt(flat, t)
    BY <2>2, MergingKeepsTimes
  <2>4. QED
    BY <2>1, <2>2, <2>3
<1>3. QED
  BY <1>1, <1>2

\* The intersections of two timelines are true, go forward and lie apart.
LEMMA AndTwoShape ==
  ASSUME NEW a \in Seq(Interval), NEW b \in Seq(Interval)
  PROVE  LET both == AndTwoTimelines(a, b) IN Forward(both) /\ AllTrue(both) /\ Gapped(both)
<1> DEFINE A == Trues(a)
           B == Trues(b)
           Row(i) == [j \in DOMAIN B |-> Intersection(A[i], B[j])]
           rows == [i \in DOMAIN A |-> NonEmpty(Row(i))]
<1>1. A \in Seq(Interval) /\ B \in Seq(Interval)
  BY TruesTimes
<1>2. AndTwoTimelines(a, b) = MergeBoolIntervals(FlattenSeq(rows))
  BY DEF AndTwoTimelines
<1> HIDE DEF A, B
<1>3. /\ Len(A) \in Nat /\ DOMAIN A = 1 .. Len(A) /\ \A i \in 1 .. Len(A) : A[i] \in Interval
      /\ Len(B) \in Nat /\ DOMAIN B = 1 .. Len(B) /\ \A i \in 1 .. Len(B) : B[i] \in Interval
  BY <1>1
<1>4. ASSUME NEW i \in 1 .. Len(A)
      PROVE  NonEmpty(Row(i)) \in Seq(Interval) /\ Forward(NonEmpty(Row(i))) /\ AllTrue(NonEmpty(Row(i)))
  <2>1. \A j \in 1 .. Len(B) : Intersection(A[i], B[j]) \in Interval /\ Intersection(A[i], B[j]).Value
    BY <1>3, IntersectionTimes
  <2>2. /\ Row(i) \in Seq(Interval) /\ Len(Row(i)) = Len(B)
        /\ \A j \in 1 .. Len(B) : Row(i)[j].Value
    BY <1>3, <2>1
  <2> HIDE DEF Row
  <2>3. /\ NonEmpty(Row(i)) \in Seq(Interval)
        /\ \A k \in 1 .. Len(NonEmpty(Row(i))) : Among(NonEmpty(Row(i))[k], Row(i))
    BY <2>2, NonEmptyTimes
  <2>4. AllTrue(NonEmpty(Row(i)))
    BY <2>2, <2>3 DEF AllTrue, Among
  <2>5. Forward(NonEmpty(Row(i)))
    BY <2>2, NonEmptyForward
  <2>6. QED
    BY <2>3, <2>4, <2>5
<1> HIDE DEF Row
<1>5. /\ rows \in Seq(Seq(Interval)) /\ Len(rows) = Len(A)
      /\ \A i \in 1 .. Len(A) : rows[i] = NonEmpty(Row(i))
  BY <1>3, <1>4
<1> HIDE DEF rows
<1>6. FlattenSeq(rows) \in Seq(Interval) /\ Forward(FlattenSeq(rows)) /\ AllTrue(FlattenSeq(rows))
  BY <1>4, <1>5, FlattenShape
<1>7. QED
  BY <1>2, <1>6, MergingShape

\* Every turn of AND leaves intervals.
LEMMA JoinsAreTimelines ==
  ASSUME NEW timelines \in Seq(Seq(Interval)), NEW f, Joins(f, timelines)
  PROVE  \A n \in 0 .. Len(timelines) : f[n] \in Seq(Interval)
<1> DEFINE m == Len(timelines)
           S == {n \in 0 .. m : f[n] \in Seq(Interval)}
<1>1. m \in Nat /\ \A n \in 1 .. m : timelines[n] \in Seq(Interval)
  OBVIOUS
<1>2. \A n \in 0 .. m : f[n] = AndTurn(f, timelines, n)
  BY JoinsStep
<1>3. 0 \in S
  <2>1. f[0] = <<>> /\ <<>> \in Seq(Interval)
    BY <1>1, <1>2 DEF AndTurn
  <2>2. 0 \in 0 .. m /\ f[0] \in Seq(Interval)
    BY <1>1, <2>1
  <2>3. QED
    BY <2>2
<1>4. ASSUME NEW n \in 0 .. m - 1, n \in S PROVE n + 1 \in S
  <2>1. /\ n + 1 \in 1 .. m /\ n + 1 \in 0 .. m /\ n + 1 # 0 /\ (n + 1) - 1 = n
        /\ 1 \in 1 .. m /\ f[n] \in Seq(Interval)
    BY <1>1, <1>4
  <2>2. f[n + 1] = IF n + 1 = 1 THEN timelines[1] ELSE AndTwoTimelines(f[n], timelines[n + 1])
    BY <1>2, <2>1 DEF AndTurn
  <2>3. /\ AndTwoTimelines(f[n], timelines[n + 1]) \in Seq(Interval)
        /\ timelines[1] \in Seq(Interval)
    BY <1>1, <2>1, AndTwoTimes
  <2>4. QED
    BY <2>1, <2>2, <2>3
<1> HIDE DEF S
<1>5. \A n \in 0 .. m : n \in S
  BY <1>1, <1>3, <1>4, Induction
<1>6. QED
  BY <1>5 DEF S

\* AND returns nothing, its only condition, or intersections.
LEMMA AndShape ==
  ASSUME NEW timelines \in Seq(Seq(Interval))
  PROVE  LET all == AND(timelines)
         IN  \/ Len(timelines) = 1 /\ all = timelines[1]
             \/ Forward(all) /\ AllTrue(all) /\ Gapped(all)
<1> DEFINE m == Len(timelines)
<1>1. PICK f : Joins(f, timelines) /\ AND(timelines) = f[m]
  BY AndUnfolds
<1>2. m \in Nat /\ m \in 0 .. m
  OBVIOUS
<1>3. f[m] = AndTurn(f, timelines, m)
  BY <1>1, <1>2, JoinsStep
<1>4. CASE m = 0
  <2>1. f[m] = <<>>
    BY <1>3, <1>4 DEF AndTurn
  <2>2. QED
    BY <1>1, <2>1 DEF Forward, AllTrue, Gapped
<1>5. CASE m = 1
  BY <1>1, <1>3, <1>5 DEF AndTurn
<1>6. CASE m > 1
  <2>1. m # 0 /\ m # 1 /\ m \in 1 .. m /\ timelines[m] \in Seq(Interval)
    BY <1>2, <1>6
  <2>2. f[m] = AndTwoTimelines(f[m - 1], timelines[m])
    BY <1>3, <2>1 DEF AndTurn
  <2>3. f[m - 1] \in Seq(Interval)
    BY <1>1, <1>6, JoinsAreTimelines
  <2>4. QED
    BY <1>1, <2>1, <2>2, <2>3, AndTwoShape
<1>7. m = 0 \/ m = 1 \/ m > 1
  <2>1. m \in Nat
    BY <1>2
  <2> HIDE DEF m
  <2>2. QED
    BY <2>1
<1>8. QED
  BY <1>4, <1>5, <1>6, <1>7

\* OR returns its only condition or merges all.
LEMMA OrShape ==
  ASSUME NEW timelines \in Seq(Seq(Interval))
  PROVE  LET any == OR(timelines)
         IN  /\ (\A i \in 1 .. Len(timelines) : Forward(timelines[i])) => Forward(any)
             /\ (\A i \in 1 .. Len(timelines) : AllTrue(timelines[i])) =>
                  AllTrue(any) /\ ((Len(timelines) = 1 /\ any = timelines[1]) \/ Gapped(any))
<1>1. CASE Len(timelines) = 1
  <2>1. OR(timelines) = timelines[1] /\ 1 \in 1 .. Len(timelines)
    BY <1>1 DEF OR
  <2>2. QED
    BY <1>1, <2>1
<1>2. CASE Len(timelines) # 1
  <2>1. OR(timelines) = MergeBoolIntervals(FlattenSeq(timelines))
    BY <1>2 DEF OR
  <2>2. FlattenSeq(timelines) \in Seq(Interval)
    BY FlattenShape
  <2>3. QED
    BY <2>1, <2>2, FlattenShape, MergingShape
<1>3. QED
  BY <1>1, <1>2

--------------------------------------------------------------------------------
(* Least and greatest of the values at some places.                        *)

\* Among finitely many values there are a greatest and a least one.
LEMMA GreatestValue ==
  ASSUME NEW n \in Nat, NEW f \in [1 .. n -> Int], NEW T, T \subseteq 1 .. n, T # {}
  PROVE  /\ \E i \in T : \A j \in T : f[j] <= f[i]
         /\ \E i \in T : \A j \in T : f[i] <= f[j]
<1>1. f \in Seq(Int) /\ Len(f) = n
  OBVIOUS
<1>2. PICK p : SortedFrom(SortBy(f, f), f, f, p)
  BY <1>1, SortPlaces
<1> DEFINE P == {k \in 1 .. n : p[k] \in T}
<1>3. /\ p \in [1 .. n -> 1 .. n]
      /\ \A i \in 1 .. n : \E k \in 1 .. n : p[k] = i
      /\ \A k, l \in 1 .. n : k < l => f[p[k]] < f[p[l]] \/ f[p[k]] = f[p[l]]
  BY <1>1, <1>2 DEF SortedFrom
<1>4. \A i \in T : \E k \in P : p[k] = i
  BY <1>3
<1>5. P \subseteq 0 .. n /\ P \subseteq Nat /\ P # {} /\ P \subseteq 1 .. n
  <2>1. P # {}
    BY <1>4
  <2>2. QED
    BY <2>1
<1>6. \A k \in P : p[k] \in T
  OBVIOUS
<1> HIDE DEF P
<1>7. ASSUME NEW k \in P, NEW l \in P, k <= l PROVE f[p[k]] <= f[p[l]]
  <2>1. k \in 1 .. n /\ l \in 1 .. n /\ (k = l \/ k < l)
    BY <1>5, <1>7
  <2>2. f[p[k]] \in Int /\ f[p[l]] \in Int
    BY <1>3, <2>1
  <2>3. f[p[k]] = f[p[l]] \/ f[p[k]] < f[p[l]]
    BY <1>3, <2>1
  <2>4. QED
    BY <2>2, <2>3
<1>8. PICK k \in P : \A l \in P : l <= k
  BY <1>5, GreatestNumber
<1>9. PICK k2 \in P : \A l \in P : k2 <= l
  BY <1>5, LeastNumber
<1>10. \A j \in T : f[j] <= f[p[k]]
  BY <1>4, <1>7, <1>8
<1>11. \A j \in T : f[p[k2]] <= f[j]
  BY <1>4, <1>7, <1>9
<1>12. QED
  BY <1>6, <1>10, <1>11

\* Max and Min of finitely many values.
LEMMA MaxAndMin ==
  ASSUME NEW n \in Nat, NEW f \in [1 .. n -> Int], NEW T, T \subseteq 1 .. n, T # {}
  PROVE  LET V == {f[i] : i \in T}
         IN  /\ Max(V) \in V /\ \A v \in V : v <= Max(V)
             /\ Min(V) \in V /\ \A v \in V : Min(V) <= v
<1> DEFINE V == {f[i] : i \in T}
<1>1. PICK i \in T : \A j \in T : f[j] <= f[i]
  BY GreatestValue
<1>2. PICK k \in T : \A j \in T : f[k] <= f[j]
  BY GreatestValue
<1>3. f[i] \in V /\ \A v \in V : f[i] >= v
  BY <1>1
<1>4. f[k] \in V /\ \A v \in V : f[k] <= v
  BY <1>2
<1>5. V \subseteq Int
  OBVIOUS
<1> HIDE DEF V
<1>6. Max(V) \in V /\ \A v \in V : Max(V) >= v
  BY <1>3 DEF Max
<1>7. Min(V) \in V /\ \A v \in V : Min(V) <= v
  BY <1>4 DEF Min
<1>8. QED
  BY <1>5, <1>6, <1>7 DEF V

--------------------------------------------------------------------------------
(* NOT.                                                                    *)

\* A negation is true nowhere, and goes forward.
LEMMA NotTimes ==
  ASSUME NEW timeline \in Seq(Interval)
  PROVE  /\ NOT(timeline) \in Seq(Interval)
         /\ \A i \in 1 .. Len(NOT(timeline)) : ~NOT(timeline)[i].Value
         /\ Forward(NOT(timeline))
<1>1. CASE timeline = <<>>
  BY <1>1 DEF NOT, Forward
<1>2. CASE timeline # <<>>
  <2> DEFINE trues == Trues(timeline)
             Starts == {timeline[i].Start : i \in DOMAIN timeline}
             Ends == {timeline[i].End : i \in DOMAIN timeline}
             gapStarts == <<Min(Starts)>> \o [i \in DOMAIN trues |-> trues[i].End]
             gapEnds == [i \in DOMAIN trues |-> trues[i].Start] \o <<Max(Ends)>>
             gaps == [i \in DOMAIN gapStarts |-> False(gapStarts[i], gapEnds[i])]
             T == 1 .. Len(timeline)
  <2>1. /\ Len(timeline) \in Nat /\ DOMAIN timeline = T /\ T # {}
        /\ \A i \in T : timeline[i].Start \in Int /\ timeline[i].End \in Int
    <3>1. \A i \in T : timeline[i] \in Interval
      OBVIOUS
    <3>2. QED
      BY <1>2, <3>1 DEF Interval
  <2>2. Min(Starts) \in Int /\ Max(Ends) \in Int
    <3> DEFINE f == [i \in T |-> timeline[i].Start]
               g == [i \in T |-> timeline[i].End]
               V == {f[i] : i \in T}
               W == {g[i] : i \in T}
    <3>1. f \in [T -> Int] /\ g \in [T -> Int] /\ V \subseteq Int /\ W \subseteq Int
      BY <2>1
    <3>2. Starts = V /\ Ends = W
      BY <2>1
    <3> HIDE DEF f, g, Starts, Ends
    <3>3. Min(V) \in V /\ Max(W) \in W
      BY <2>1, <3>1, MaxAndMin
    <3> HIDE DEF V, W
    <3>4. QED
      BY <3>1, <3>2, <3>3
  <2>3. /\ trues \in Seq(Interval) /\ DOMAIN trues = 1 .. Len(trues) /\ Len(trues) \in Nat
        /\ \A i \in 1 .. Len(trues) : trues[i].Start \in Int /\ trues[i].End \in Int
    <3>1. trues \in Seq(Interval)
      BY TruesTimes
    <3> HIDE DEF trues
    <3>2. \A i \in 1 .. Len(trues) : trues[i] \in Interval
      BY <3>1
    <3>3. QED
      BY <3>1, <3>2 DEF Interval
  <2> HIDE DEF trues, Starts, Ends
  <2>4. /\ gapStarts \in Seq(Int) /\ Len(gapStarts) = Len(trues) + 1
        /\ gapEnds \in Seq(Int) /\ Len(gapEnds) = Len(trues) + 1
    BY <2>2, <2>3
  <2>5. NOT(timeline) = NonEmpty(gaps)
    BY <1>2 DEF NOT, trues, Starts, Ends
  <2> HIDE DEF gapStarts, gapEnds
  <2>6. \A i \in 1 .. Len(gapStarts) : False(gapStarts[i], gapEnds[i]) \in Interval
                                       /\ ~False(gapStarts[i], gapEnds[i]).Value
    <3>1. \A i \in 1 .. Len(gapStarts) : gapStarts[i] \in Int /\ gapEnds[i] \in Int
      BY <2>4
    <3>2. QED
      BY <3>1 DEF False, Interval
  <2>7. gaps \in Seq(Interval) /\ \A i \in 1 .. Len(gaps) : ~gaps[i].Value
    BY <2>4, <2>6
  <2> HIDE DEF gaps
  <2>8. \A e : Among(e, gaps) => ~e.Value
    BY <2>7 DEF Among
  <2>9. QED
    BY <2>5, <2>7, <2>8, NonEmptyTimes, NonEmptyForward
<1>3. QED
  BY <1>1, <1>2

--------------------------------------------------------------------------------
(* From events to intervals.                                               *)

Stamped(E) == \A e \in E : e.Timestamp \in Int

\* Min of a nonempty set of natural numbers.
LEMMA MinOfNumbers ==
  ASSUME NEW T, T \subseteq Nat, T # {}
  PROVE  Min(T) \in T /\ \A n \in T : Min(T) <= n
<1>1. PICK m \in T : \A n \in T : m <= n
  BY LeastNumber
<1>2. QED
  BY <1>1 DEF Min

\* The events in their order are the same events, and later ones come later.
LEMMA EventOrder ==
  ASSUME NEW E, NEW events \in Seq(E), Stamped(E)
  PROVE  /\ ByTimestamp(events) \in Seq(E) /\ Len(ByTimestamp(events)) = Len(events)
         /\ \A e : Among(e, ByTimestamp(events)) <=> Among(e, events)
         /\ \A i, j \in 1 .. Len(events) : i <= j =>
              ByTimestamp(events)[i].Timestamp <= ByTimestamp(events)[j].Timestamp
         /\ \E p : SortedFrom(ByTimestamp(events), events,
                              [i \in DOMAIN events |-> events[i].Timestamp], p)
<1> DEFINE q == ByTimestamp(events)
           key == [i \in DOMAIN events |-> events[i].Timestamp]
           n == Len(events)
<1>1. n \in Nat /\ DOMAIN events = 1 .. n /\ \A i \in 1 .. n : events[i].Timestamp \in Int
  <2>1. n \in Nat /\ DOMAIN events = 1 .. n /\ \A i \in 1 .. n : events[i] \in E
    OBVIOUS
  <2>2. QED
    BY <2>1 DEF Stamped
<1>2. key \in [1 .. n -> Int] /\ \A i \in 1 .. n : key[i] = events[i].Timestamp
  BY <1>1
<1>3. q = SortBy(events, key)
  BY DEF ByTimestamp
<1> HIDE DEF q, key
<1>4. q \in Seq(E) /\ Len(q) = n
  BY <1>2, <1>3, SortPlaces
<1>5. PICK p : SortedFrom(q, events, key, p)
  BY <1>2, <1>3, SortPlaces
<1>6. /\ p \in [1 .. n -> 1 .. n]
      /\ \A i \in 1 .. n : q[i] = events[p[i]]
      /\ \A i \in 1 .. n : \E k \in 1 .. n : p[k] = i
      /\ \A i, j \in 1 .. n : i < j => key[p[i]] < key[p[j]] \/ key[p[i]] = key[p[j]]
  BY <1>5 DEF SortedFrom
<1>7. \A i \in 1 .. n : p[i] \in 1 .. n /\ q[i] = events[p[i]]
  BY <1>6
<1>8. ASSUME NEW i \in 1 .. n PROVE \E k \in 1 .. n : q[k] = events[i]
  <2>1. PICK k \in 1 .. n : p[k] = i
    BY <1>6
  <2>2. QED
    BY <1>7, <2>1
<1>9. \A e : Among(e, q) <=> Among(e, events)
  <2>1. \A i \in 1 .. Len(q) : \E k \in 1 .. Len(events) : events[k] = q[i]
    BY <1>4, <1>7
  <2>2. \A k \in 1 .. Len(events) : \E i \in 1 .. Len(q) : q[i] = events[k]
    BY <1>4, <1>8
  <2>3. ASSUME NEW e, Among(e, q) PROVE Among(e, events)
    <3>1. PICK i \in 1 .. Len(q) : q[i] = e
      BY <2>3 DEF Among
    <3>2. QED
      BY <2>1, <3>1 DEF Among
  <2>4. ASSUME NEW e, Among(e, events) PROVE Among(e, q)
    <3>1. PICK i \in 1 .. Len(events) : events[i] = e
      BY <2>4 DEF Among
    <3>2. QED
      BY <2>2, <3>1 DEF Among
  <2>5. QED
    BY <2>3, <2>4
<1>10. \A i \in 1 .. n : q[i].Timestamp = key[p[i]] /\ key[p[i]] \in Int
  <2>1. \A i \in 1 .. n : key[i] \in Int /\ key[i] = events[i].Timestamp
    BY <1>2
  <2> HIDE DEF n
  <2>2. ASSUME NEW i \in 1 .. n
        PROVE  q[i].Timestamp = key[p[i]] /\ key[p[i]] \in Int
    <3>1. p[i] \in 1 .. n /\ q[i] = events[p[i]]
      BY <1>7
    <3>2. QED
      BY <2>1, <3>1
  <2>3. QED
    BY <2>2
<1>11. ASSUME NEW i \in 1 .. n, NEW j \in 1 .. n, i <= j
       PROVE  q[i].Timestamp <= q[j].Timestamp
  <2>1. key[p[i]] \in Int /\ key[p[j]] \in Int
    BY <1>10
  <2>2. i = j \/ i < j
    BY <1>11
  <2>3. key[p[i]] <= key[p[j]]
    <3>1. i < j => key[p[i]] < key[p[j]] \/ key[p[i]] = key[p[j]]
      BY <1>6
    <3>2. i = j => key[p[i]] = key[p[j]]
      OBVIOUS
    <3>3. QED
      BY <2>1, <2>2, <3>1, <3>2
  <2>4. QED
    BY <1>10, <2>3
<1>12. QED
  BY <1>4, <1>5, <1>9, <1>11 DEF q, key

\* The last event in the order is a latest one.
LEMMA LastEvent ==
  ASSUME NEW E, NEW events \in Seq(E), Stamped(E), Len(events) > 0
  PROVE  LET last == Last(ByTimestamp(events))
         IN  /\ Among(last, events) /\ last.Timestamp \in Int
             /\ \A e : Among(e, events) => e.Timestamp <= last.Timestamp
<1> DEFINE q == ByTimestamp(events)
           n == Len(events)
           last == Last(q)
<1>1. /\ q \in Seq(E) /\ Len(q) = n
      /\ \A e : Among(e, q) <=> Among(e, events)
      /\ \A i, j \in 1 .. n : i <= j => q[i].Timestamp <= q[j].Timestamp
  BY EventOrder
<1> HIDE DEF q
<1>2. n \in 1 .. n /\ \A i \in 1 .. n : i <= n
  OBVIOUS
<1>3. last = q[n] /\ q[n] \in E
  BY <1>1, <1>2 DEF Last
<1> HIDE DEF last, n
<1>4. Among(last, events)
  <2>1. Among(last, q)
    BY <1>1, <1>2, <1>3, Zenon DEF Among
  <2>2. QED
    BY <1>1, <2>1
<1>5. ASSUME NEW e, Among(e, events) PROVE e.Timestamp <= last.Timestamp
  <2>1. PICK i \in 1 .. n : q[i] = e
    BY <1>1, <1>5 DEF Among
  <2>2. QED
    BY <1>1, <1>2, <1>3, <2>1
<1>6. QED
  BY <1>3, <1>4, <1>5 DEF Stamped, last, q

\* What has existed is true from the first match on, to an hour after the last event.
LEMMA HasExistedTimes ==
  ASSUME NEW E, NEW events \in Seq(E), Stamped(E), NEW condition
  PROVE  /\ HasExisted(events, condition) \in Seq(Interval)
         /\ \A t \in Int : TrueAt(HasExisted(events, condition), t) <=>
              /\ \E e \in E : Among(e, events) /\ e.Value = condition /\ e.Timestamp <= t
              /\ \E e \in E : Among(e, events) /\ t < e.Timestamp + Hour
<1> DEFINE q == ByTimestamp(events)
           n == Len(events)
           Matching == {i \in DOMAIN q : q[i].Value = condition}
           last == Last(q)
           result == HasExisted(events, condition)
<1>1. /\ q \in Seq(E) /\ Len(q) = n /\ n \in Nat
      /\ \A e : Among(e, q) <=> Among(e, events)
      /\ \A i, j \in 1 .. n : i <= j => q[i].Timestamp <= q[j].Timestamp
  BY EventOrder
<1>2. result = IF Matching = {} THEN <<>>
               ELSE <<True(q[Min(Matching)].Timestamp, last.Timestamp + Hour)>>
  BY DEF HasExisted
<1>3. n > 0 => /\ Among(last, events) /\ last.Timestamp \in Int
               /\ \A e : Among(e, events) => e.Timestamp <= last.Timestamp
  BY LastEvent
<1>4. Hour \in Int
  BY TimelineAssumption
<1> HIDE DEF q, last
<1>5. \A i \in 1 .. n : q[i] \in E /\ q[i].Timestamp \in Int /\ Among(q[i], events)
  <2>1. \A i \in 1 .. n : q[i] \in E /\ Among(q[i], q)
    BY <1>1 DEF Among
  <2>2. QED
    BY <1>1, <2>1 DEF Stamped
<1>6. \A e : Among(e, events) <=> \E i \in 1 .. n : q[i] = e
  BY <1>1 DEF Among
<1>7. Matching \subseteq 1 .. n /\ \A i \in 1 .. n : i \in Matching <=> q[i].Value = condition
  BY <1>1
<1> HIDE DEF Matching
<1>8. CASE Matching = {}
  <2>1. result = <<>>
    BY <1>2, <1>8
  <2>2. \A e : Among(e, events) => e.Value # condition
    BY <1>6, <1>7, <1>8
  <2>3. QED
    BY <2>1, <2>2 DEF TrueAt
<1>9. CASE Matching # {}
  <2> DEFINE m == Min(Matching)
             start == q[m].Timestamp
             end == last.Timestamp + Hour
  <2>1. m \in Matching /\ \A i \in Matching : m <= i
    <3>1. Matching \subseteq Nat
      BY <1>7
    <3>2. QED
      BY <1>9, <3>1, MinOfNumbers
  <2>2. m \in 1 .. n /\ n > 0
    <3> HIDE DEF m, n
    <3>1. m \in 1 .. n
      BY <1>7, <2>1
    <3>2. QED
      BY <1>1, <3>1
  <2>3. start \in Int /\ end \in Int
    BY <1>3, <1>4, <1>5, <2>2
  <2>4. result = <<[Value |-> TRUE, Start |-> start, End |-> end]>>
    BY <1>2, <1>9 DEF True
  <2>5. ASSUME NEW t \in Int
        PROVE  /\ start <= t <=>
                    \E e \in E : Among(e, events) /\ e.Value = condition /\ e.Timestamp <= t
               /\ t < end <=> \E e \in E : Among(e, events) /\ t < e.Timestamp + Hour
    <3>1. ASSUME start <= t
          PROVE  \E e \in E : Among(e, events) /\ e.Value = condition /\ e.Timestamp <= t
      BY <1>5, <1>7, <2>1, <2>2, <3>1
    <3>2. ASSUME NEW e \in E, Among(e, events), e.Value = condition, e.Timestamp <= t
          PROVE  start <= t
      <4>1. PICK i \in 1 .. n : q[i] = e
        BY <1>6, <3>2
      <4>2. m <= i
        BY <1>7, <2>1, <3>2, <4>1
      <4>3. start <= e.Timestamp /\ e.Timestamp \in Int
        BY <1>1, <1>5, <2>2, <4>1, <4>2
      <4> HIDE DEF start
      <4>4. QED
        BY <2>3, <3>2, <4>3
    <3>3. ASSUME t < end PROVE \E e \in E : Among(e, events) /\ t < e.Timestamp + Hour
      <4>1. last \in E /\ Among(last, events)
        BY <1>3, <1>5, <1>6, <2>2
      <4>2. QED
        BY <3>3, <4>1
    <3>4. ASSUME NEW e \in E, Among(e, events), t < e.Timestamp + Hour PROVE t < end
      <4>1. e.Timestamp \in Int /\ e.Timestamp <= last.Timestamp /\ last.Timestamp \in Int
        BY <1>3, <2>2, <3>4 DEF Stamped
      <4>2. QED
        BY <1>4, <3>4, <4>1
    <3>5. QED
      BY <3>1, <3>2, <3>3, <3>4
  <2> HIDE DEF start, end, result
  <2>6. result \in Seq(Interval)
    BY <2>3, <2>4 DEF Interval
  <2>7. \A t : TrueAt(result, t) <=> start <= t /\ t < end
    <3>1. Len(result) = 1 /\ result[1].Value /\ result[1].Start = start /\ result[1].End = end
      BY <2>4
    <3>2. \A i : i \in 1 .. 1 <=> i = 1
      OBVIOUS
    <3>3. QED
      BY <3>1, <3>2 DEF TrueAt, During
  <2>8. QED
    BY <2>5, <2>6, <2>7 DEF result
<1>10. QED
  BY <1>8, <1>9

\* What has existed is one interval, and goes forward.
LEMMA HasExistedShape ==
  ASSUME NEW E, NEW events \in Seq(E), Stamped(E), NEW condition
  PROVE  LET existed == HasExisted(events, condition)
         IN  Forward(existed) /\ AllTrue(existed) /\ Gapped(existed)
<1> DEFINE q == ByTimestamp(events)
           n == Len(events)
           Matching == {i \in DOMAIN q : q[i].Value = condition}
           existed == HasExisted(events, condition)
<1>1. /\ q \in Seq(E) /\ Len(q) = n /\ n \in Nat
      /\ \A i, j \in 1 .. n : i <= j => q[i].Timestamp <= q[j].Timestamp
  BY EventOrder
<1>2. existed = IF Matching = {} THEN <<>>
                ELSE <<True(q[Min(Matching)].Timestamp, Last(q).Timestamp + Hour)>>
  BY DEF HasExisted
<1> HIDE DEF q
<1>3. DOMAIN q = 1 .. n /\ \A i \in 1 .. n : q[i].Timestamp \in Int
  BY <1>1 DEF Stamped
<1>4. CASE Matching = {}
  BY <1>2, <1>4 DEF Forward, AllTrue, Gapped
<1>5. CASE Matching # {}
  <2> DEFINE first == Min(Matching)
             start == q[first].Timestamp
             end == Last(q).Timestamp + Hour
  <2>1. first \in 1 .. n
    <3>1. Matching \subseteq Nat /\ Matching \subseteq 1 .. n
      BY <1>3
    <3> HIDE DEF Matching
    <3>2. QED
      BY <1>5, <3>1, MinOfNumbers
  <2> HIDE DEF first, Matching
  <2>2. n \in 1 .. n /\ first <= n /\ Last(q) = q[n]
    BY <1>1, <2>1 DEF Last
  <2>3. start <= q[n].Timestamp
    BY <1>1, <2>1, <2>2
  <2>4. start <= end
    <3>1. start \in Int /\ q[n].Timestamp \in Int /\ Hour \in Nat
      BY <1>3, <2>1, <2>2, TimelineAssumption
    <3>2. QED
      BY <2>2, <2>3, <3>1
  <2> HIDE DEF start, end
  <2>5. existed = <<[Value |-> TRUE, Start |-> start, End |-> end]>>
    BY <1>2, <1>5 DEF first, start, end, True
  <2>6. Len(existed) = 1 /\ existed[1].Value /\ existed[1].Start = start /\ existed[1].End = end
    BY <2>5
  <2> HIDE DEF existed
  <2>7. \A i \in 1 .. 1 : i = 1
    OBVIOUS
  <2>8. QED
    BY <2>4, <2>6, <2>7 DEF Forward, AllTrue, Gapped, existed
<1>6. QED
  BY <1>4, <1>5

\* What has existed within a window is true for that long from every match on.
LEMMA HasExistedWithinTimes ==
  ASSUME NEW E, NEW events \in Seq(E), Stamped(E), NEW condition, NEW window \in Int
  PROVE  /\ HasExistedWithin(events, condition, window) \in Seq(Interval)
         /\ \A t \in Int : TrueAt(HasExistedWithin(events, condition, window), t) <=>
              \E e \in E : /\ Among(e, events) /\ e.Value = condition
                           /\ e.Timestamp <= t /\ t < e.Timestamp + window
<1> DEFINE q == ByTimestamp(events)
           matching == Select(q, {e \in ToSet(events) : e.Value = condition})
           Span(e) == True(e.Timestamp, e.Timestamp + window)
           spans == [i \in DOMAIN matching |-> Span(matching[i])]
<1>1. q \in Seq(E) /\ \A e : Among(e, q) <=> Among(e, events)
  BY EventOrder
<1>2. HasExistedWithin(events, condition, window) = MergeBoolIntervals(spans)
  BY DEF HasExistedWithin
<1> HIDE DEF q
<1>3. /\ matching \in Seq(E)
      /\ \A e : Among(e, matching) <=> Among(e, events) /\ e.Value = condition
  <2>1. /\ matching \in Seq(E)
        /\ \A e : Among(e, matching) <=>
             Among(e, q) /\ e \in {x \in ToSet(events) : x.Value = condition}
    BY <1>1, SelectElements
  <2>2. \A e : Among(e, events) => e \in ToSet(events)
    BY DEF Among, ToSet
  <2> HIDE DEF matching
  <2>3. QED
    BY <1>1, <2>1, <2>2
<1> HIDE DEF matching
<1>4. \A e \in E : /\ Span(e) \in Interval /\ Span(e).Value
                   /\ \A t : During(Span(e), t) <=> e.Timestamp <= t /\ t < e.Timestamp + window
  <2>1. \A e \in E : e.Timestamp \in Int /\ e.Timestamp + window \in Int
    BY DEF Stamped
  <2>2. QED
    BY <2>1 DEF True, Interval, During
<1> HIDE DEF Span
<1>5. /\ Len(matching) \in Nat /\ DOMAIN matching = 1 .. Len(matching)
      /\ \A i \in 1 .. Len(matching) : matching[i] \in E
  BY <1>3
<1>6. /\ spans \in Seq(Interval) /\ Len(spans) = Len(matching)
      /\ \A i \in 1 .. Len(matching) : spans[i] = Span(matching[i])
  BY <1>4, <1>5
<1> HIDE DEF spans
<1>7. \A t : TrueAt(spans, t) <=>
        \E e \in E : Among(e, matching) /\ e.Timestamp <= t /\ t < e.Timestamp + window
  <2>1. \A t : TrueAt(spans, t) <=> \E i \in 1 .. Len(matching) : During(Span(matching[i]), t)
    BY <1>4, <1>5, <1>6 DEF TrueAt
  <2>2. QED
    BY <1>4, <1>5, <2>1 DEF Among
<1>8. /\ MergeBoolIntervals(spans) \in Seq(Interval)
      /\ \A t \in Int : TrueAt(MergeBoolIntervals(spans), t) <=> TrueAt(spans, t)
  BY <1>6, MergingKeepsTimes
<1>9. QED
  BY <1>2, <1>3, <1>7, <1>8

\* What has existed within a window lies apart, and goes forward if the window does.
LEMMA HasExistedWithinShape ==
  ASSUME NEW E, NEW events \in Seq(E), Stamped(E), NEW condition, NEW window \in Int
  PROVE  LET within == HasExistedWithin(events, condition, window)
         IN  /\ window >= 0 => Forward(within)
             /\ AllTrue(within) /\ Gapped(within)
<1> DEFINE q == ByTimestamp(events)
           matching == Select(q, {e \in ToSet(events) : e.Value = condition})
           Span(e) == True(e.Timestamp, e.Timestamp + window)
           spans == [i \in DOMAIN matching |-> Span(matching[i])]
<1>1. q \in Seq(E)
  BY EventOrder
<1>2. HasExistedWithin(events, condition, window) = MergeBoolIntervals(spans)
  BY DEF HasExistedWithin
<1> HIDE DEF q
<1>3. matching \in Seq(E)
  BY <1>1, SelectElements
<1> HIDE DEF matching
<1>4. \A e \in E : /\ Span(e) \in Interval /\ Span(e).Value
                   /\ window >= 0 => Span(e).Start <= Span(e).End
  <2>1. \A e \in E : e.Timestamp \in Int /\ e.Timestamp + window \in Int
    BY DEF Stamped
  <2>2. QED
    BY <2>1 DEF True, Interval
<1> HIDE DEF Span
<1>5. /\ Len(matching) \in Nat /\ DOMAIN matching = 1 .. Len(matching)
      /\ \A i \in 1 .. Len(matching) : matching[i] \in E
  BY <1>3
<1>6. /\ spans \in Seq(Interval) /\ Len(spans) = Len(matching)
      /\ \A i \in 1 .. Len(matching) : spans[i] = Span(matching[i])
  BY <1>4, <1>5
<1> HIDE DEF spans
<1>7. AllTrue(spans) /\ (window >= 0 => Forward(spans))
  BY <1>4, <1>5, <1>6 DEF AllTrue, Forward
<1>8. QED
  BY <1>2, <1>6, <1>7, MergingShape

\* The places at which the value changes, those after i, and when the state that
\* starts at i ends.
ChangesOf(q) == {i \in DOMAIN q : i = 1 \/ q[i].Value # q[i - 1].Value}
LaterThan(q, i) == {j \in ChangesOf(q) : j > i}
EndAt(q, i) ==
  IF LaterThan(q, i) = {} THEN Last(q).Timestamp + Nanosecond
  ELSE q[Min(LaterThan(q, i))].Timestamp

\* k is the last place with a time up to t.
LastUpTo(q, t, k) ==
  q[k].Timestamp <= t /\ \A l \in 1 .. Len(q) : q[l].Timestamp <= t => l <= k

\* The last event with the latest time up to t.
LatestIn(events, t) ==
  {i \in 1 .. Len(events) :
     /\ events[i].Timestamp <= t
     /\ \A j \in 1 .. Len(events) : events[j].Timestamp <= t =>
          /\ events[j].Timestamp <= events[i].Timestamp
          /\ events[j].Timestamp = events[i].Timestamp => j <= i}

LastUpToHas(q, t, value) == \E k \in 1 .. Len(q) : LastUpTo(q, t, k) /\ q[k].Value = value
LatestHas(events, t, value) == \E i \in LatestIn(events, t) : events[i].Value = value

\* Between changes the value stays.
LEMMA ValueStays ==
  ASSUME NEW E, NEW q \in Seq(E), NEW i \in 1 .. Len(q), NEW k \in 1 .. Len(q), i <= k,
         \A j \in ChangesOf(q) : j > i => j > k
  PROVE  q[k].Value = q[i].Value
<1> DEFINE S == {d \in 0 .. k - i : q[i + d].Value = q[i].Value}
<1>1. k - i \in Nat /\ i \in Nat /\ k \in Nat /\ Len(q) \in Nat /\ DOMAIN q = 1 .. Len(q)
  OBVIOUS
<1>2. 0 \in S
  <2>1. i + 0 = i /\ 0 \in 0 .. k - i
    BY <1>1
  <2>2. QED
    BY <2>1
<1>3. ASSUME NEW d \in 0 .. (k - i) - 1, q[i + d].Value = q[i].Value
      PROVE  q[i + (d + 1)].Value = q[i].Value
  <2>1. /\ i + (d + 1) \in 1 .. Len(q) /\ (i + (d + 1)) - 1 = i + d
        /\ i + (d + 1) # 1 /\ i + (d + 1) > i /\ ~(i + (d + 1) > k)
    BY <1>1
  <2>2. i + (d + 1) \notin ChangesOf(q)
    BY <2>1
  <2>3. QED
    BY <1>1, <1>3, <2>1, <2>2 DEF ChangesOf
<1>4. \A d \in 0 .. (k - i) - 1 : d \in S => d + 1 \in S
  <2>1. \A d \in 0 .. (k - i) - 1 : d + 1 \in 0 .. k - i
    BY <1>1
  <2>2. QED
    BY <1>3, <2>1
<1>5. \A d \in 0 .. k - i : d \in S
  <2> HIDE DEF S
  <2>1. QED
    BY <1>1, <1>2, <1>4, Induction
<1>6. k - i \in 0 .. k - i /\ i + (k - i) = k
  BY <1>1
<1>7. k - i \in S
  BY <1>5, <1>6
<1>8. q[i + (k - i)].Value = q[i].Value
  BY <1>7
<1>9. QED
  BY <1>6, <1>8

\* A state that starts up to t lasts beyond it if no change comes up to t; the last
\* one lasts until just after the last event.
LEMMA EndsLater ==
  ASSUME NEW E, NEW q \in Seq(E), Stamped(E),
         \A i, j \in 1 .. Len(q) : i <= j => q[i].Timestamp <= q[j].Timestamp,
         NEW t \in Int, NEW k \in 1 .. Len(q), LastUpTo(q, t, k), NEW i \in ChangesOf(q)
  PROVE  q[i].Timestamp <= t /\ t < EndAt(q, i) <=>
           /\ i <= k /\ \A j \in ChangesOf(q) : j > i => j > k
           /\ t < q[Len(q)].Timestamp + Nanosecond
<1> DEFINE n == Len(q)
           end == EndAt(q, i)
<1>1. /\ n \in Nat /\ n \in 1 .. n /\ ChangesOf(q) \subseteq 1 .. n
      /\ \A j \in 1 .. n : q[j].Timestamp \in Int
  <2>1. \A j \in 1 .. n : q[j] \in E
    OBVIOUS
  <2>2. QED
    BY <2>1 DEF ChangesOf, Stamped
<1>2. i \in 1 .. n /\ Nanosecond \in Nat \ {0}
  BY <1>1, TimelineAssumption
<1>3. \A j \in 1 .. n : q[j].Timestamp <= t <=> j <= k
  <2>1. \A j \in 1 .. n : j <= k => q[j].Timestamp <= q[k].Timestamp
    OBVIOUS
  <2>2. q[k].Timestamp <= t
    BY DEF LastUpTo
  <2>3. \A j \in 1 .. n : q[j].Timestamp <= t => j <= k
    BY DEF LastUpTo
  <2>4. ASSUME NEW j \in 1 .. n, j <= k PROVE q[j].Timestamp <= t
    <3>1. q[j].Timestamp \in Int /\ q[k].Timestamp \in Int /\ q[j].Timestamp <= q[k].Timestamp
      BY <1>1, <2>1, <2>4
    <3>2. QED
      BY <2>2, <3>1
  <2>5. QED
    BY <2>3, <2>4
<1>4. CASE LaterThan(q, i) = {}
  <2>1. end = q[n].Timestamp + Nanosecond
    BY <1>4 DEF EndAt, Last
  <2>2. \A j \in ChangesOf(q) : ~(j > i)
    BY <1>4 DEF LaterThan
  <2>3. QED
    BY <1>2, <1>3, <2>1, <2>2
<1>5. CASE LaterThan(q, i) # {}
  <2> DEFINE next == Min(LaterThan(q, i))
  <2>1. next \in LaterThan(q, i) /\ \A j \in LaterThan(q, i) : next <= j
    <3>1. LaterThan(q, i) \subseteq Nat
      BY <1>1 DEF LaterThan
    <3>2. QED
      BY <1>5, <3>1, MinOfNumbers
  <2>2. end = q[next].Timestamp
    BY <1>5 DEF EndAt
  <2> HIDE DEF next, end, n
  <2>3. next \in ChangesOf(q) /\ next > i /\ next \in 1 .. n
        /\ \A j \in ChangesOf(q) : j > i => next <= j
    BY <1>1, <2>1 DEF LaterThan
  <2>4. end \in Int /\ end <= q[n].Timestamp /\ q[n].Timestamp \in Int
    <3>1. next <= n
      BY <1>1, <2>3
    <3>2. q[next].Timestamp <= q[n].Timestamp
      BY <1>1, <2>3, <3>1 DEF n
    <3>3. QED
      BY <1>1, <2>2, <2>3, <3>2
  <2>5. t < end <=> next > k
    <3>1. end <= t <=> next <= k
      BY <1>3, <2>2, <2>3
    <3>2. QED
      BY <1>1, <2>3, <2>4, <3>1
  <2>6. t < end => t < q[n].Timestamp + Nanosecond
    BY <1>2, <2>4
  <2>7. next > k <=> \A j \in ChangesOf(q) : j > i => j > k
    <3>1. \A j \in ChangesOf(q) : j \in Int
      BY <1>1
    <3>2. QED
      BY <2>3, <3>1
  <2>8. QED
    BY <1>2, <1>3, <2>5, <2>6, <2>7 DEF end, n
<1>6. QED
  BY <1>4, <1>5

\* Some state covers t if and only if the last event up to t has it.
LEMMA StateAtLast ==
  ASSUME NEW E, NEW q \in Seq(E), Stamped(E), NEW equals,
         \A i, j \in 1 .. Len(q) : i <= j => q[i].Timestamp <= q[j].Timestamp,
         NEW t \in Int, NEW k \in 1 .. Len(q), LastUpTo(q, t, k)
  PROVE  (\E i \in ChangesOf(q) : /\ q[i].Value = equals
                                  /\ q[i].Timestamp <= t /\ t < EndAt(q, i))
           <=> q[k].Value = equals /\ t < q[Len(q)].Timestamp + Nanosecond
<1> DEFINE Open(i) == i <= k /\ \A j \in ChangesOf(q) : j > i => j > k
<1>1. \A i \in ChangesOf(q) : q[i].Timestamp <= t /\ t < EndAt(q, i) <=>
        Open(i) /\ t < q[Len(q)].Timestamp + Nanosecond
  BY EndsLater
<1>2. ChangesOf(q) \subseteq 1 .. Len(q) /\ Len(q) \in Nat
  BY DEF ChangesOf
<1>3. \A i \in ChangesOf(q) : Open(i) => q[k].Value = q[i].Value
  BY <1>2, ValueStays
<1>4. \E i \in ChangesOf(q) : Open(i)
  <2> DEFINE T == {i \in ChangesOf(q) : i <= k}
  <2>1. 1 \in ChangesOf(q) /\ 1 <= k
    BY DEF ChangesOf
  <2>2. T \subseteq 0 .. k /\ T # {} /\ k \in Nat
    BY <1>2, <2>1
  <2>3. PICK i \in T : \A j \in T : j <= i
    <3> HIDE DEF T
    <3>1. QED
      BY <2>2, GreatestNumber
  <2>4. i \in ChangesOf(q) /\ i <= k
    BY <2>3
  <2>5. ASSUME NEW j \in ChangesOf(q), j > i PROVE j > k
    <3>1. j \in Int /\ i \in Int
      BY <1>2, <2>4
    <3>2. j \notin T
      BY <2>3, <2>5, <3>1
    <3>3. QED
      BY <3>1, <3>2
  <2>6. QED
    BY <2>4, <2>5
<1> HIDE DEF Open
<1>5. QED
  BY <1>1, <1>3, <1>4

\* The last one up to t in the order is the last of the latest ones in the list.
LEMMA LatestIsLast ==
  ASSUME NEW E, NEW events \in Seq(E), Stamped(E), NEW value, NEW t \in Int
  PROVE  LatestHas(events, t, value) <=> LastUpToHas(ByTimestamp(events), t, value)
<1> DEFINE q == ByTimestamp(events)
           n == Len(events)
           key == [i \in DOMAIN events |-> events[i].Timestamp]
<1>1. /\ Len(q) = n /\ n \in Nat
      /\ \A i, j \in 1 .. n : i <= j => q[i].Timestamp <= q[j].Timestamp
  BY EventOrder
<1>2. PICK p : SortedFrom(q, events, key, p)
  BY EventOrder
<1>3. \A i \in 1 .. n : key[i] = events[i].Timestamp /\ key[i] \in Int
  <2>1. \A i \in 1 .. n : events[i] \in E
    OBVIOUS
  <2>2. QED
    BY <2>1 DEF Stamped
<1> HIDE DEF q, key
<1>4. /\ \A k \in 1 .. n : p[k] \in 1 .. n /\ q[k] = events[p[k]]
      /\ \A i \in 1 .. n : \E k \in 1 .. n : p[k] = i
      /\ \A k, l \in 1 .. n : k < l =>
           key[p[k]] < key[p[l]] \/ (key[p[k]] = key[p[l]] /\ p[k] < p[l])
  BY <1>2 DEF SortedFrom
<1> HIDE DEF n
<1>5. ASSUME NEW k \in 1 .. n
      PROVE  q[k].Timestamp = key[p[k]] /\ key[p[k]] \in Int /\ p[k] \in Nat
  <2>1. p[k] \in 1 .. n /\ q[k] = events[p[k]]
    BY <1>4
  <2>2. p[k] \in Nat
    BY <1>1, <2>1
  <2>3. QED
    BY <1>3, <2>1, <2>2
<1>6. ASSUME NEW k \in 1 .. n, LastUpTo(q, t, k) PROVE p[k] \in LatestIn(events, t)
  <2>1. ASSUME NEW j \in 1 .. n, events[j].Timestamp <= t
        PROVE  /\ events[j].Timestamp <= events[p[k]].Timestamp
               /\ events[j].Timestamp = events[p[k]].Timestamp => j <= p[k]
    <3>1. PICK l \in 1 .. n : p[l] = j
      BY <1>4
    <3>2. q[l] = events[j] /\ q[k] = events[p[k]]
      BY <1>4, <3>1
    <3>3. l <= k
      BY <1>1, <1>6, <2>1, <3>2 DEF LastUpTo
    <3>4. CASE l = k
      BY <1>5, <3>1, <3>4, <3>2
    <3>5. CASE l < k
      <4>1. key[p[l]] < key[p[k]] \/ (key[p[l]] = key[p[k]] /\ p[l] < p[k])
        BY <1>4, <3>5
      <4>2. /\ key[p[l]] = events[j].Timestamp /\ key[p[k]] = events[p[k]].Timestamp
            /\ key[p[l]] \in Int /\ key[p[k]] \in Int /\ p[l] \in Nat /\ p[k] \in Nat
        BY <1>5, <3>2
      <4>3. QED
        BY <3>1, <4>1, <4>2
    <3>6. l = k \/ l < k
      BY <1>1, <3>3
    <3>7. QED
      BY <3>4, <3>5, <3>6
  <2>2. p[k] \in 1 .. n /\ events[p[k]].Timestamp <= t
    BY <1>4, <1>6 DEF LastUpTo
  <2>3. QED
    BY <2>1, <2>2 DEF LatestIn, n
<1>7. ASSUME NEW i \in LatestIn(events, t)
      PROVE  \E k \in 1 .. n : LastUpTo(q, t, k) /\ q[k] = events[i]
  <2>1. /\ i \in 1 .. n /\ events[i].Timestamp <= t
        /\ \A j \in 1 .. n : events[j].Timestamp <= t =>
             /\ events[j].Timestamp <= events[i].Timestamp
             /\ events[j].Timestamp = events[i].Timestamp => j <= i
    BY DEF LatestIn, n
  <2>2. PICK k \in 1 .. n : p[k] = i
    BY <1>4, <2>1
  <2>3. q[k] = events[i] /\ q[k].Timestamp <= t
    BY <1>4, <2>1, <2>2
  <2>4. ASSUME NEW l \in 1 .. n, q[l].Timestamp <= t PROVE l <= k
    <3>1. p[l] \in 1 .. n /\ q[l] = events[p[l]]
      BY <1>4
    <3>2. /\ events[p[l]].Timestamp <= events[i].Timestamp
          /\ events[p[l]].Timestamp = events[i].Timestamp => p[l] <= i
      BY <2>1, <2>4, <3>1
    <3>3. /\ key[p[l]] = events[p[l]].Timestamp /\ key[p[k]] = events[i].Timestamp
          /\ key[p[l]] \in Int /\ key[p[k]] \in Int /\ p[l] \in Nat /\ p[k] \in Nat
      BY <1>5, <2>3, <3>1
    <3>4. ~(key[p[k]] < key[p[l]] \/ (key[p[k]] = key[p[l]] /\ p[k] < p[l]))
      BY <2>2, <3>2, <3>3
    <3>5. ~(k < l)
      BY <1>4, <3>4
    <3>6. QED
      BY <1>1, <3>5
  <2>5. LastUpTo(q, t, k)
    BY <1>1, <2>3, <2>4 DEF LastUpTo
  <2>6. QED
    BY <2>3, <2>5
<1>8. \A k \in 1 .. n : q[k] = events[p[k]]
  BY <1>4
<1>9. QED
  BY <1>1, <1>6, <1>7, <1>8 DEF LatestHas, LastUpToHas, q

\* A state covers the times at which the latest event has it, up to just after the
\* last event.
Covered(timeline, t) == \E i \in 1 .. Len(timeline) : During(timeline[i], t)

\* A list of what has a start and an end.
Spans(timeline) ==
  /\ Len(timeline) \in Nat /\ DOMAIN timeline = 1 .. Len(timeline)
  /\ \A i \in 1 .. Len(timeline) : timeline[i].Start \in Int /\ timeline[i].End \in Int

\* A state ends at a time.
LEMMA StateEnds ==
  ASSUME NEW E, NEW q \in Seq(E), Stamped(E), NEW i \in ChangesOf(q)
  PROVE  EndAt(q, i) \in Int
<1> DEFINE n == Len(q)
           next == Min(LaterThan(q, i))
<1>1. /\ n \in Nat /\ ChangesOf(q) \subseteq 1 .. n
      /\ \A k \in 1 .. n : q[k].Timestamp \in Int
  BY DEF ChangesOf, Stamped
<1>2. CASE LaterThan(q, i) = {}
  <2>1. EndAt(q, i) = q[n].Timestamp + Nanosecond /\ n \in 1 .. n
    BY <1>1, <1>2 DEF EndAt, Last
  <2>2. QED
    BY <1>1, <2>1, TimelineAssumption
<1>3. CASE LaterThan(q, i) # {}
  <2>1. next \in LaterThan(q, i)
    <3>1. LaterThan(q, i) \subseteq Nat
      BY <1>1 DEF LaterThan
    <3>2. QED
      BY <1>3, <3>1, MinOfNumbers
  <2>2. EndAt(q, i) = q[next].Timestamp
    BY <1>3 DEF EndAt
  <2>3. next \in 1 .. n
    BY <1>1, <2>1 DEF LaterThan
  <2>4. QED
    BY <1>1, <2>2, <2>3
<1>4. QED
  BY <1>2, <1>3

\* A state lasts while the latest event shows it, to just after the last event.
LEMMA StateTimes ==
  ASSUME NEW E, NEW events \in Seq(E), Stamped(E), NEW equals
  PROVE  /\ Spans(LatestEventToState(events, equals))
         /\ \A t \in Int : Covered(LatestEventToState(events, equals), t) <=>
              /\ LatestHas(events, t, equals)
              /\ \E e \in E : Among(e, events) /\ t < e.Timestamp + Nanosecond
<1> DEFINE q == ByTimestamp(events)
           n == Len(events)
           numbers == [i \in DOMAIN q |-> i]
           opening == Select(numbers, {i \in ChangesOf(q) : q[i].Value = equals})
           result == LatestEventToState(events, equals)
<1>1. /\ q \in Seq(E) /\ Len(q) = n /\ n \in Nat
      /\ \A e : Among(e, q) <=> Among(e, events)
      /\ \A i, j \in 1 .. n : i <= j => q[i].Timestamp <= q[j].Timestamp
  BY EventOrder
<1>2. result = [j \in DOMAIN opening |->
                  [State |-> equals, Start |-> q[opening[j]].Timestamp,
                   End |-> EndAt(q, opening[j])]]
  BY DEF LatestEventToState, ChangesOf, LaterThan, EndAt
<1> HIDE DEF q, result
<1>3. DOMAIN q = 1 .. n /\ ChangesOf(q) \subseteq 1 .. n
  BY <1>1 DEF ChangesOf
<1>4. /\ opening \in Seq(1 .. n)
      /\ \A i : Among(i, opening) <=> i \in ChangesOf(q) /\ q[i].Value = equals
  <2>1. numbers \in Seq(1 .. n) /\ \A i : Among(i, numbers) <=> i \in 1 .. n
    BY <1>1, <1>3 DEF Among
  <2> HIDE DEF numbers
  <2>2. QED
    BY <1>3, <2>1, SelectElements
<1> HIDE DEF opening
<1>5. /\ DOMAIN result = 1 .. Len(opening) /\ Len(result) = Len(opening)
      /\ \A j \in 1 .. Len(opening) :
           result[j].Start = q[opening[j]].Timestamp /\ result[j].End = EndAt(q, opening[j])
  <2>1. DOMAIN opening = 1 .. Len(opening) /\ Len(opening) \in Nat
    BY <1>4
  <2>2. QED
    BY <1>2, <2>1
<1>6. \A t : Covered(result, t) <=>
        \E i \in ChangesOf(q) : /\ q[i].Value = equals
                                /\ q[i].Timestamp <= t /\ t < EndAt(q, i)
  <2>1. \A t : Covered(result, t) <=>
          \E j \in 1 .. Len(opening) :
            q[opening[j]].Timestamp <= t /\ t < EndAt(q, opening[j])
    BY <1>5 DEF Covered, During
  <2>2. QED
    BY <1>4, <2>1 DEF Among
<1>7. ASSUME NEW t \in Int
      PROVE  Covered(result, t) <=>
               /\ LatestHas(events, t, equals)
               /\ \E e \in E : Among(e, events) /\ t < e.Timestamp + Nanosecond
  <2>1. LatestHas(events, t, equals) <=>
        (\E k \in 1 .. n : LastUpTo(q, t, k) /\ q[k].Value = equals)
    <3>1. LatestHas(events, t, equals) <=> LastUpToHas(q, t, equals)
      BY LatestIsLast DEF q
    <3>2. QED
      BY <1>1, <3>1 DEF LastUpToHas
  <2>2. CASE \E k \in 1 .. n : LastUpTo(q, t, k)
    <3>1. PICK k \in 1 .. n : LastUpTo(q, t, k)
      BY <2>2
    <3>2. \A l \in 1 .. n : LastUpTo(q, t, l) => l = k
      BY <1>1, <3>1 DEF LastUpTo
    <3>3. Covered(result, t) <=> q[k].Value = equals /\ t < q[n].Timestamp + Nanosecond
      <4> HIDE DEF n
      <4>1. (\E i \in ChangesOf(q) : /\ q[i].Value = equals
                                     /\ q[i].Timestamp <= t /\ t < EndAt(q, i))
              <=> q[k].Value = equals /\ t < q[Len(q)].Timestamp + Nanosecond
        BY <1>1, <3>1, StateAtLast
      <4>2. QED
        BY <1>1, <1>6, <4>1, Zenon
    <3>4. t < q[n].Timestamp + Nanosecond <=>
            \E e \in E : Among(e, events) /\ t < e.Timestamp + Nanosecond
      <4>1. n > 0 /\ Last(q) = q[n]
        BY <1>1 DEF Last
      <4>2. /\ Among(q[n], events) /\ q[n].Timestamp \in Int /\ q[n] \in E
            /\ \A e : Among(e, events) => e.Timestamp <= q[n].Timestamp
        <5>1. q[n] \in E
          BY <1>1, <4>1
        <5>2. QED
          BY <4>1, <5>1, LastEvent DEF q
      <4>3. \A e \in E : Among(e, events) /\ t < e.Timestamp + Nanosecond =>
              t < q[n].Timestamp + Nanosecond
        <5>1. \A e \in E : e.Timestamp \in Int
          BY DEF Stamped
        <5>2. Nanosecond \in Int
          BY TimelineAssumption
        <5>3. QED
          BY <4>2, <5>1, <5>2
      <4>4. QED
        BY <4>2, <4>3
    <3>5. QED
      BY <2>1, <3>1, <3>2, <3>3, <3>4
  <2>3. CASE ~\E k \in 1 .. n : LastUpTo(q, t, k)
    <3>1. \A i \in 1 .. n : ~(q[i].Timestamp <= t)
      <4> DEFINE T == {i \in 1 .. n : q[i].Timestamp <= t}
      <4>1. T = {}
        <5>1. T \subseteq 0 .. n
          OBVIOUS
        <5>2. ASSUME NEW k \in T, \A l \in T : l <= k PROVE FALSE
          <6>1. k \in 1 .. n /\ LastUpTo(q, t, k)
            BY <1>1, <5>2 DEF LastUpTo
          <6>2. QED
            BY <2>3, <6>1
        <5> HIDE DEF T
        <5>3. QED
          BY <1>1, <5>1, <5>2, GreatestNumber
      <4>2. QED
        BY <4>1
    <3>2. ~Covered(result, t)
      BY <1>3, <1>6, <3>1
    <3>3. QED
      BY <2>1, <2>3, <3>2
  <2>4. QED
    BY <2>2, <2>3
<1>8. Spans(result)
  <2>1. ASSUME NEW j \in 1 .. Len(opening)
        PROVE  result[j].Start \in Int /\ result[j].End \in Int
    <3>1. opening[j] \in ChangesOf(q) /\ q[opening[j]] \in E
      BY <1>1, <1>3, <1>4 DEF Among
    <3>2. EndAt(q, opening[j]) \in Int
      BY <1>1, <3>1, StateEnds
    <3>3. QED
      BY <1>5, <3>1, <3>2 DEF Stamped
  <2>2. QED
    BY <1>4, <1>5, <2>1 DEF Spans
<1>9. QED
  BY <1>7, <1>8 DEF result

\* A state ends after it starts, and no later than the next change.
LEMMA StateEndsInTime ==
  ASSUME NEW E, NEW q \in Seq(E), Stamped(E),
         \A i, j \in 1 .. Len(q) : i <= j => q[i].Timestamp <= q[j].Timestamp,
         NEW i \in ChangesOf(q)
  PROVE  /\ q[i].Timestamp <= EndAt(q, i)
         /\ \A j \in ChangesOf(q) : i < j => EndAt(q, i) <= q[j].Timestamp
<1> DEFINE n == Len(q)
           next == Min(LaterThan(q, i))
<1>1. /\ n \in Nat /\ ChangesOf(q) \subseteq 1 .. n /\ i \in 1 .. n
      /\ \A k \in 1 .. n : q[k].Timestamp \in Int
  <2>1. ChangesOf(q) \subseteq 1 .. n
    BY DEF ChangesOf
  <2>2. QED
    BY <2>1 DEF Stamped
<1>2. \A j : j \in LaterThan(q, i) <=> j \in ChangesOf(q) /\ i < j
  BY <1>1 DEF LaterThan
<1>3. CASE LaterThan(q, i) = {}
  <2>1. EndAt(q, i) = q[n].Timestamp + Nanosecond /\ n \in 1 .. n /\ i <= n
    BY <1>1, <1>3 DEF EndAt, Last
  <2>2. q[i].Timestamp <= q[n].Timestamp /\ Nanosecond \in Nat
    BY <1>1, <2>1, TimelineAssumption
  <2>3. q[i].Timestamp \in Int /\ q[n].Timestamp \in Int
    BY <1>1, <2>1
  <2>4. QED
    BY <1>2, <1>3, <2>1, <2>2, <2>3
<1>4. CASE LaterThan(q, i) # {}
  <2>1. next \in LaterThan(q, i) /\ \A j \in LaterThan(q, i) : next <= j
    <3>1. LaterThan(q, i) \subseteq Nat
      BY <1>1, <1>2
    <3>2. QED
      BY <1>4, <3>1, MinOfNumbers
  <2>2. EndAt(q, i) = q[next].Timestamp
    BY <1>4 DEF EndAt
  <2> HIDE DEF next
  <2>3. next \in 1 .. n /\ i <= next
    BY <1>1, <1>2, <2>1
  <2>4. q[i].Timestamp <= q[next].Timestamp
    BY <1>1, <2>3
  <2>5. \A j \in ChangesOf(q) : i < j => j \in 1 .. n /\ next <= j
    BY <1>1, <1>2, <2>1
  <2>6. \A j \in ChangesOf(q) : i < j => q[next].Timestamp <= q[j].Timestamp
    BY <2>3, <2>5
  <2>7. QED
    BY <2>2, <2>4, <2>6
<1>5. QED
  BY <1>3, <1>4

\* The spans of a state go forward, one after the other.
LEMMA StateShape ==
  ASSUME NEW E, NEW events \in Seq(E), Stamped(E), NEW equals
  PROVE  LET spans == LatestEventToState(events, equals) IN Forward(spans) /\ Disjoint(spans)
<1> DEFINE q == ByTimestamp(events)
           n == Len(events)
           numbers == [i \in DOMAIN q |-> i]
           wanted == {i \in ChangesOf(q) : q[i].Value = equals}
           opening == Select(numbers, wanted)
           spans == LatestEventToState(events, equals)
<1>1. /\ q \in Seq(E) /\ Len(q) = n /\ n \in Nat
      /\ \A i, j \in 1 .. n : i <= j => q[i].Timestamp <= q[j].Timestamp
  BY EventOrder
<1>2. spans = [j \in DOMAIN opening |->
                 [State |-> equals, Start |-> q[opening[j]].Timestamp,
                  End |-> EndAt(q, opening[j])]]
  BY DEF LatestEventToState, ChangesOf, LaterThan, EndAt
<1> HIDE DEF q, spans
<1>3. DOMAIN q = 1 .. n
  BY <1>1
<1>4. numbers \in Seq(Nat) /\ Len(numbers) = n /\ \A i \in 1 .. n : numbers[i] = i
  BY <1>1, <1>3
<1> HIDE DEF numbers
<1>5. opening \in Seq(Nat) /\ \E p : ComesFrom(opening, numbers, wanted, n, p)
  BY <1>4, SelectPlaces
<1>6. PICK p : ComesFrom(opening, numbers, wanted, n, p)
  BY <1>5
<1> HIDE DEF opening
<1>7. /\ \A j \in 1 .. Len(opening) : opening[j] = p[j] /\ opening[j] \in ChangesOf(q)
      /\ \A i, j \in 1 .. Len(opening) : i < j => opening[i] < opening[j]
  BY <1>4, <1>6 DEF ComesFrom
<1>8. \A j \in 1 .. Len(opening) :
        /\ q[opening[j]].Timestamp <= EndAt(q, opening[j])
        /\ \A k \in ChangesOf(q) : opening[j] < k => EndAt(q, opening[j]) <= q[k].Timestamp
  BY <1>1, <1>7, StateEndsInTime
<1>9. /\ Len(spans) = Len(opening)
      /\ \A j \in 1 .. Len(opening) : /\ spans[j].Start = q[opening[j]].Timestamp
                                      /\ spans[j].End = EndAt(q, opening[j])
  BY <1>2, <1>5
<1>10. Forward(spans)
  BY <1>8, <1>9 DEF Forward
<1>11. Disjoint(spans)
  BY <1>7, <1>8, <1>9 DEF Disjoint
<1>12. QED
  BY <1>10, <1>11 DEF spans

\* A state is a condition that is true while it lasts.
LEMMA StateAsBool ==
  ASSUME NEW timeline, Spans(timeline)
  PROVE  /\ ConvertStateTimelineToBoolTimeline(timeline) \in Seq(Interval)
         /\ \A t : TrueAt(ConvertStateTimelineToBoolTimeline(timeline), t) <=> Covered(timeline, t)
<1> DEFINE n == Len(timeline)
           bools == ConvertStateTimelineToBoolTimeline(timeline)
<1>1. /\ n \in Nat
      /\ bools = [i \in 1 .. n |-> True(timeline[i].Start, timeline[i].End)]
      /\ \A i \in 1 .. n : timeline[i].Start \in Int /\ timeline[i].End \in Int
  BY DEF Spans, ConvertStateTimelineToBoolTimeline
<1> HIDE DEF n, bools
<1>2. \A i \in 1 .. n : True(timeline[i].Start, timeline[i].End) \in Interval
  BY <1>1 DEF True, Interval
<1>3. bools \in Seq(Interval) /\ Len(bools) = n
  BY <1>1, <1>2
<1>4. \A i \in 1 .. n : /\ bools[i].Value = TRUE
                        /\ \A t : During(bools[i], t) <=> During(timeline[i], t)
  BY <1>1 DEF True, During
<1>5. \A t : TrueAt(bools, t) <=> Covered(timeline, t)
  BY <1>3, <1>4 DEF TrueAt, Covered, n
<1>6. QED
  BY <1>3, <1>5 DEF bools

\* A state as a condition has the shape of the state.
LEMMA StateAsBoolShape ==
  ASSUME NEW timeline, Spans(timeline)
  PROVE  LET bools == ConvertStateTimelineToBoolTimeline(timeline)
         IN  /\ AllTrue(bools)
             /\ Forward(timeline) => Forward(bools)
             /\ Disjoint(timeline) => Disjoint(bools)
<1> DEFINE n == Len(timeline)
           bools == ConvertStateTimelineToBoolTimeline(timeline)
<1>1. /\ n \in Nat
      /\ bools = [i \in 1 .. n |-> True(timeline[i].Start, timeline[i].End)]
  BY DEF Spans, ConvertStateTimelineToBoolTimeline
<1> HIDE DEF bools
<1>2. bools \in Seq(Interval)
  BY StateAsBool DEF bools
<1>3. /\ Len(bools) = n
      /\ \A i \in 1 .. n : /\ bools[i].Value = TRUE
                           /\ bools[i].Start = timeline[i].Start /\ bools[i].End = timeline[i].End
  BY <1>1, <1>2 DEF True
<1>4. QED
  BY <1>3 DEF AllTrue, Forward, Disjoint, bools

--------------------------------------------------------------------------------
(* Durations, and nothing to combine.                                      *)

\* A duration is a number, and 0 of an empty timeline.
LEMMA DurationIsNumber ==
  ASSUME NEW timeline \in Seq(Interval)
  PROVE  /\ DurationWhere(timeline) \in Int
         /\ Len(timeline) = 0 => DurationWhere(timeline) = 0
<1> DEFINE trues == Trues(timeline)
           lengths == [i \in DOMAIN trues |-> trues[i].End - trues[i].Start]
<1>1. DurationWhere(timeline) = Total(lengths)
  BY DEF DurationWhere
<1>2. trues \in Seq(Interval) /\ Len(trues) <= Len(timeline)
  BY TruesTimes, SelectFacts DEF Trues
<1> HIDE DEF trues
<1>3. \A i \in 1 .. Len(trues) : trues[i].End - trues[i].Start \in Int
  <2>1. \A i \in 1 .. Len(trues) : trues[i] \in Interval
    BY <1>2
  <2>2. QED
    BY <2>1 DEF Interval
<1>4. lengths \in Seq(Int) /\ Len(lengths) = Len(trues)
  BY <1>2, <1>3
<1> HIDE DEF lengths
<1>5. QED
  BY <1>1, <1>2, <1>4, TotalFacts

\* Adding an interval to a set of units adds at most its length, and as much where
\* none of its units is in the set.
LEMMA IntervalAdds ==
  ASSUME NEW S, IsFiniteSet(S), NEW start \in Int, NEW end \in Int, start <= end
  PROVE  LET more == S \union (start .. end - 1)
         IN  /\ IsFiniteSet(more)
             /\ Cardinality(more) <= Cardinality(S) + (end - start)
             /\ (\A t \in S : ~(start <= t /\ t < end)) =>
                  Cardinality(more) = Cardinality(S) + (end - start)
<1> DEFINE T == start .. end - 1
<1>1. end - 1 \in Int
  OBVIOUS
<1>2. IsFiniteSet(T) /\ Cardinality(T) = IF start > end - 1 THEN 0 ELSE (end - 1) - start + 1
  BY <1>1, FS_Interval
<1>3. Cardinality(T) = end - start
  BY <1>2
<1>4. ASSUME \A t \in S : ~(start <= t /\ t < end) PROVE S \cap T = {}
  BY <1>4
<1> HIDE DEF T
<1>5. IsFiniteSet(S \cap T)
  BY FS_Intersection
<1>6. Cardinality(S) \in Nat /\ Cardinality(S \cap T) \in Nat
  BY <1>5, FS_CardinalityType
<1>7. /\ IsFiniteSet(S \union T)
      /\ Cardinality(S \union T) = Cardinality(S) + Cardinality(T) - Cardinality(S \cap T)
  BY <1>2, FS_Union
<1>8. S \cap T = {} => Cardinality(S \cap T) = 0
  BY FS_EmptySet
<1>9. Cardinality(S \union T) <= Cardinality(S) + (end - start)
  BY <1>3, <1>6, <1>7
<1>10. ASSUME \A t \in S : ~(start <= t /\ t < end)
       PROVE  Cardinality(S \union T) = Cardinality(S) + (end - start)
  BY <1>3, <1>4, <1>6, <1>7, <1>8, <1>10
<1>11. QED
  BY <1>7, <1>9, <1>10 DEF T

\* Intervals that go forward cover at most as many units as their lengths add up to,
\* and as many where they are disjoint.
LEMMA LengthsCount ==
  ASSUME NEW c \in Seq(Interval), Forward(c)
  PROVE  LET S == {t \in Int : \E i \in 1 .. Len(c) : During(c[i], t)}
             total == Total([i \in DOMAIN c |-> c[i].End - c[i].Start])
         IN  /\ IsFiniteSet(S) /\ Cardinality(S) <= total
             /\ Disjoint(c) => Cardinality(S) = total
<1> DEFINE m == Len(c)
           lengths == [i \in DOMAIN c |-> c[i].End - c[i].Start]
           Before(n) == {t \in Int : \E i \in 1 .. n : During(c[i], t)}
<1>1. /\ m \in Nat /\ DOMAIN c = 1 .. m
      /\ \A i \in 1 .. m : c[i].Start \in Int /\ c[i].End \in Int /\ c[i].Start <= c[i].End
  <2>1. \A i \in 1 .. m : c[i] \in Interval
    OBVIOUS
  <2>2. QED
    BY <2>1 DEF Interval, Forward
<1>2. /\ lengths \in Seq(Int) /\ Len(lengths) = m
      /\ \A i \in 1 .. m : lengths[i] = c[i].End - c[i].Start
  BY <1>1
<1> HIDE DEF lengths
<1>3. PICK f : Totals(f, lengths) /\ Total(lengths) = f[m]
  BY <1>2, TotalUnfolds
<1>4. \A n \in 0 .. m : f[n] = TotalTurn(f, lengths, n)
  BY <1>2, <1>3 DEF Totals
<1> DEFINE Good(n) == /\ f[n] \in Int
                      /\ IsFiniteSet(Before(n)) /\ Cardinality(Before(n)) <= f[n]
                      /\ Disjoint(c) => Cardinality(Before(n)) = f[n]
           S == {n \in 0 .. m : Good(n)}
<1>5. Good(0)
  <2>1. f[0] = 0
    BY <1>1, <1>4 DEF TotalTurn
  <2>2. Before(0) = {}
    OBVIOUS
  <2> HIDE DEF Before
  <2>3. QED
    BY <2>1, <2>2, FS_EmptySet
<1>6. ASSUME NEW n \in 0 .. m - 1, Good(n) PROVE Good(n + 1)
  <2> DEFINE start == c[n + 1].Start
             end == c[n + 1].End
  <2>1. n \in Nat /\ n + 1 \in 0 .. m /\ n + 1 \in 1 .. m /\ n + 1 # 0 /\ (n + 1) - 1 = n
    BY <1>1
  <2>2. f[n + 1] = f[n] + (end - start) /\ start \in Int /\ end \in Int /\ start <= end
    <3>1. f[n + 1] = f[n] + lengths[n + 1]
      BY <1>4, <2>1 DEF TotalTurn
    <3>2. QED
      BY <1>1, <1>2, <2>1, <3>1
  <2>3. Before(n + 1) = Before(n) \union (start .. end - 1)
    <3>1. \A i : i \in 1 .. n + 1 <=> i \in 1 .. n \/ i = n + 1
      BY <2>1
    <3>2. \A t \in Int : During(c[n + 1], t) <=> t \in start .. end - 1
      BY <2>2 DEF During
    <3> HIDE DEF start, end
    <3>3. \A t \in Int : t \in Before(n + 1) <=> t \in Before(n) \/ During(c[n + 1], t)
      BY <3>1
    <3>4. start .. end - 1 \subseteq Int /\ Before(n + 1) \subseteq Int /\ Before(n) \subseteq Int
      OBVIOUS
    <3> HIDE DEF Before
    <3>5. QED
      BY <3>2, <3>3, <3>4
  <2>4. ASSUME Disjoint(c) PROVE \A t \in Before(n) : ~(start <= t /\ t < end)
    <3>1. \A i \in 1 .. n : i \in 1 .. m /\ c[i].End <= start /\ c[i].End \in Int
      BY <1>1, <2>1, <2>4 DEF Disjoint
    <3>2. QED
      BY <2>2, <3>1 DEF During
  <2> HIDE DEF Before, start, end
  <2>5. /\ f[n] \in Int /\ IsFiniteSet(Before(n)) /\ Cardinality(Before(n)) <= f[n]
        /\ Disjoint(c) => Cardinality(Before(n)) = f[n]
    BY <1>6
  <2>6. /\ IsFiniteSet(Before(n + 1))
        /\ Cardinality(Before(n + 1)) <= Cardinality(Before(n)) + (end - start)
        /\ Disjoint(c) => Cardinality(Before(n + 1)) = Cardinality(Before(n)) + (end - start)
    <3> DEFINE before == Before(n)
               more == before \union (start .. end - 1)
    <3>1. IsFiniteSet(before) /\ start \in Int /\ end \in Int /\ start <= end
      BY <2>2, <2>5
    <3>2. Disjoint(c) => \A t \in before : ~(start <= t /\ t < end)
      BY <2>4
    <3> HIDE DEF before
    <3>3. /\ IsFiniteSet(more)
          /\ Cardinality(more) <= Cardinality(before) + (end - start)
          /\ (\A t \in before : ~(start <= t /\ t < end)) =>
               Cardinality(more) = Cardinality(before) + (end - start)
      BY <3>1, IntervalAdds
    <3> HIDE DEF more
    <3>4. Before(n + 1) = more
      BY <2>3 DEF more, before
    <3>5. QED
      BY <3>2, <3>3, <3>4 DEF before
  <2>7. Cardinality(Before(n)) \in Nat /\ Cardinality(Before(n + 1)) \in Nat
    BY <2>5, <2>6, FS_CardinalityType
  <2>8. f[n + 1] \in Int
    BY <2>2, <2>5
  <2>9. Cardinality(Before(n + 1)) <= f[n + 1]
    BY <2>2, <2>5, <2>6, <2>7
  <2>10. QED
    BY <2>2, <2>5, <2>6, <2>8, <2>9
<1> HIDE DEF Good
<1>7. \A n \in 0 .. m : n \in S
  <2>1. 0 \in S
    BY <1>1, <1>5
  <2>2. ASSUME NEW n \in 0 .. m - 1, n \in S PROVE n + 1 \in S
    <3>1. n + 1 \in 0 .. m
      BY <1>1
    <3>2. QED
      BY <1>6, <2>2, <3>1
  <2> HIDE DEF S
  <2>3. QED
    BY <1>1, <2>1, <2>2, Induction
<1>8. Good(m)
  BY <1>1, <1>7
<1>9. QED
  BY <1>3, <1>8 DEF Good, lengths

\* The duration of a timeline that goes forward is at least the number of units in
\* which it is true, and that number where it is disjoint.
LEMMA DurationCounts ==
  ASSUME NEW timeline \in Seq(Interval), Forward(timeline), NEW S,
         \A t : t \in S <=> t \in Int /\ TrueAt(timeline, t)
  PROVE  /\ DurationWhere(timeline) >= Cardinality(S)
         /\ Disjoint(timeline) => DurationWhere(timeline) = Cardinality(S)
<1> DEFINE c == Trues(timeline)
           U == {t \in Int : \E i \in 1 .. Len(c) : During(c[i], t)}
           total == Total([i \in DOMAIN c |-> c[i].End - c[i].Start])
<1>1. DurationWhere(timeline) = total
  BY DEF DurationWhere
<1>2. /\ c \in Seq(Interval) /\ Forward(c)
      /\ Disjoint(timeline) => Disjoint(c)
  BY TruesShape
<1>3. /\ \A i \in 1 .. Len(c) : c[i].Value
      /\ \A t : TrueAt(c, t) <=> TrueAt(timeline, t)
  BY TruesTimes
<1> HIDE DEF c
<1>4. U = S
  <2>1. \A t : t \in U <=> t \in Int /\ TrueAt(c, t)
    BY <1>3 DEF TrueAt
  <2> HIDE DEF U
  <2>2. QED
    BY <1>3, <2>1
<1>5. /\ IsFiniteSet(U) /\ Cardinality(U) <= total
      /\ Disjoint(c) => Cardinality(U) = total
  BY <1>2, LengthsCount
<1>6. total \in Int
  <2> DEFINE lengths == [i \in DOMAIN c |-> c[i].End - c[i].Start]
  <2>1. \A i \in 1 .. Len(c) : c[i].Start \in Int /\ c[i].End \in Int
    <3>1. \A i \in 1 .. Len(c) : c[i] \in Interval
      BY <1>2
    <3>2. QED
      BY <3>1 DEF Interval
  <2>2. lengths \in Seq(Int)
    <3>1. DOMAIN c = 1 .. Len(c) /\ Len(c) \in Nat
      BY <1>2
    <3>2. \A i \in 1 .. Len(c) : c[i].End - c[i].Start \in Int
      BY <2>1
    <3>3. QED
      BY <3>1, <3>2
  <2> HIDE DEF lengths
  <2>3. Total(lengths) \in Int
    BY <2>2, TotalFacts
  <2>4. QED
    BY <2>3 DEF lengths
<1> HIDE DEF U, total
<1>7. Cardinality(U) \in Nat
  BY <1>5, FS_CardinalityType
<1>8. QED
  BY <1>1, <1>2, <1>4, <1>5, <1>6, <1>7

\* Of nothing, nothing is merged.
LEMMA NoneToMerge == MergeBoolIntervals(<<>>) = <<>>
<1>1. <<>> \in Seq(Interval) /\ Len(<<>>) = 0
  OBVIOUS
<1>2. Sorted(<<>>) \in Seq(Interval) /\ Len(Sorted(<<>>)) = 0
  <2> DEFINE key == [i \in DOMAIN <<>> |-> <<>>[i].Start]
  <2>1. key \in [1 .. 0 -> Int]
    OBVIOUS
  <2> HIDE DEF key
  <2>2. SortBy(<<>>, key) \in Seq(Interval) /\ Len(SortBy(<<>>, key)) = 0
    BY <1>1, <2>1, SortPlaces
  <2>3. QED
    BY <2>2 DEF Sorted, key
<1>3. PICK f : Merges(f, Sorted(<<>>)) /\ MergeBoolIntervals(<<>>) = f[Len(Sorted(<<>>))]
  BY <1>2, MergeUnfolds
<1>4. f[0] = <<>>
  BY <1>2, <1>3, MergesStep DEF MergeTurn
<1>5. QED
  BY <1>2, <1>3, <1>4

\* Of no conditions, neither the conjunction nor the disjunction has an interval.
LEMMA NoneToCombine ==
  AND(<<>>) = <<>> /\ OR(<<>>) = <<>>
<1>1. <<>> \in Seq(Seq(Interval)) /\ <<>> \in Seq(Interval) /\ Len(<<>>) = 0
  OBVIOUS
<1>2. AND(<<>>) = <<>>
  <2>1. PICK f : Joins(f, <<>>) /\ AND(<<>>) = f[Len(<<>>)]
    BY <1>1, AndUnfolds
  <2>2. f[0] = <<>>
    BY <1>1, <2>1, JoinsStep DEF AndTurn
  <2>3. QED
    BY <1>1, <2>1, <2>2
<1>3. FlattenSeq(<<>>) = <<>>
  BY DEF FlattenSeq
<1>4. QED
  BY <1>1, <1>2, <1>3, NoneToMerge DEF OR

\* Of two timelines that are never true together nothing is left, and else something.
LEMMA AndTwoEmpty ==
  ASSUME NEW a \in Seq(Interval), NEW b \in Seq(Interval)
  PROVE  AndTwoTimelines(a, b) # <<>> <=> \E t \in Int : TrueAt(a, t) /\ TrueAt(b, t)
<1> DEFINE A == Trues(a)
           B == Trues(b)
           pairs(i) == [j \in 1 .. Len(B) |-> Intersection(A[i], B[j])]
           rows == [i \in 1 .. Len(A) |-> NonEmpty(pairs(i))]
           flat == FlattenSeq(rows)
<1>1. /\ AndTwoTimelines(a, b) \in Seq(Interval)
      /\ \A t \in Int : TrueAt(AndTwoTimelines(a, b), t) <=> TrueAt(a, t) /\ TrueAt(b, t)
  BY AndTwoTimes
<1>2. A \in Seq(Interval) /\ B \in Seq(Interval)
  BY TruesTimes
<1>3. \A i \in 1 .. Len(A) : A[i].Value
  BY TruesTimes
<1>4. AndTwoTimelines(a, b) = MergeBoolIntervals(flat)
  <2>1. DOMAIN Trues(a) = 1 .. Len(A) /\ DOMAIN Trues(b) = 1 .. Len(B)
    BY <1>2
  <2>2. QED
    BY <2>1 DEF AndTwoTimelines
<1> HIDE DEF A, B
<1>5. ASSUME NEW i \in 1 .. Len(A)
      PROVE  /\ NonEmpty(pairs(i)) \in Seq(Interval)
             /\ \A x : Among(x, NonEmpty(pairs(i))) => x.Start < x.End /\ x.Value
  <2> DEFINE left == pairs(i)
             wanted == {x \in ToSet(left) : x.Start < x.End}
  <2>1. \A j \in 1 .. Len(B) :
          Intersection(A[i], B[j]) \in Interval /\ Intersection(A[i], B[j]).Value
    BY <1>2, IntersectionTimes
  <2>2. /\ left \in Seq(Interval) /\ Len(left) = Len(B)
        /\ \A j \in 1 .. Len(left) : left[j].Value
    BY <1>2, <2>1
  <2> HIDE DEF left
  <2>3. /\ NonEmpty(left) \in Seq(Interval)
        /\ \A x : Among(x, NonEmpty(left)) <=> Among(x, left) /\ x \in wanted
    BY <2>2, SelectElements DEF NonEmpty
  <2>4. \A x : Among(x, NonEmpty(left)) => x.Start < x.End /\ x.Value
    BY <2>2, <2>3 DEF Among
  <2>5. QED
    BY <2>3, <2>4 DEF left
<1> HIDE DEF pairs
<1>6. /\ rows \in Seq(Seq(Interval)) /\ Len(rows) = Len(A)
      /\ \A i \in 1 .. Len(A) : rows[i] = NonEmpty(pairs(i))
  BY <1>2, <1>5
<1> HIDE DEF rows
<1>7. /\ flat \in Seq(Interval)
      /\ \A e \in Interval : Among(e, flat) <=> \E i \in 1 .. Len(rows) : Among(e, rows[i])
  BY <1>6, FlattenElements
<1> HIDE DEF flat
<1>8. ASSUME flat # <<>> PROVE \E t \in Int : TrueAt(flat, t)
  <2>1. 1 \in 1 .. Len(flat) /\ flat[1] \in Interval
    BY <1>7, <1>8
  <2>2. Among(flat[1], flat)
    BY <2>1 DEF Among
  <2>3. flat[1].Start < flat[1].End /\ flat[1].Value
    BY <1>5, <1>6, <1>7, <2>1, <2>2
  <2>4. flat[1].Start \in Int /\ flat[1].Start <= flat[1].Start
    BY <2>1 DEF Interval
  <2>5. QED
    BY <2>1, <2>3, <2>4 DEF TrueAt, During
<1>9. \A t \in Int : TrueAt(MergeBoolIntervals(flat), t) <=> TrueAt(flat, t)
  BY <1>7, MergingKeepsTimes
<1>10. ASSUME flat = <<>> PROVE AndTwoTimelines(a, b) = <<>>
  BY <1>4, <1>10, NoneToMerge
<1>11. ASSUME NEW t \in Int, TrueAt(AndTwoTimelines(a, b), t) PROVE AndTwoTimelines(a, b) # <<>>
  BY <1>11 DEF TrueAt
<1>12. QED
  BY <1>1, <1>4, <1>8, <1>9, <1>10, <1>11

\* Two conditions are joined in one turn.
LEMMA AndOfTwo ==
  ASSUME NEW a \in Seq(Interval), NEW b \in Seq(Interval)
  PROVE  AND(<<a, b>>) = AndTwoTimelines(a, b)
<1> DEFINE timelines == <<a, b>>
<1>1. /\ timelines \in Seq(Seq(Interval)) /\ Len(timelines) = 2
      /\ timelines[1] = a /\ timelines[2] = b
  OBVIOUS
<1> HIDE DEF timelines
<1>2. PICK f : Joins(f, timelines) /\ AND(timelines) = f[Len(timelines)]
  BY <1>1, AndUnfolds
<1>3. 1 \in 0 .. Len(timelines) /\ 2 \in 0 .. Len(timelines) /\ 2 - 1 = 1
  BY <1>1
<1>4. f[1] = AndTurn(f, timelines, 1) /\ f[2] = AndTurn(f, timelines, 2)
  BY <1>2, <1>3, JoinsStep
<1>5. f[1] = a
  BY <1>1, <1>4 DEF AndTurn
<1>6. f[2] = AndTwoTimelines(f[2 - 1], timelines[2])
  BY <1>4 DEF AndTurn
<1>7. QED
  BY <1>1, <1>2, <1>3, <1>5, <1>6 DEF timelines

\* With gaps between its intervals a timeline is disjoint.
LEMMA GappedIsDisjoint ==
  ASSUME NEW timeline \in Seq(Interval), Gapped(timeline)
  PROVE  Disjoint(timeline)
<1>1. \A i \in 1 .. Len(timeline) : timeline[i].Start \in Int /\ timeline[i].End \in Int
  <2>1. \A i \in 1 .. Len(timeline) : timeline[i] \in Interval
    OBVIOUS
  <2>2. QED
    BY <2>1 DEF Interval
<1>2. QED
  BY <1>1 DEF Gapped, Disjoint

--------------------------------------------------------------------------------
(* Streaks.                                                                *)

\* The greatest of finitely many numbers, with 0 among them.
LEMMA GreatestOfRuns ==
  ASSUME NEW h \in Nat, NEW V, V \subseteq 0 .. h, 0 \in V
  PROVE  Max(V) \in V /\ \A v \in V : v <= Max(V)
<1>1. PICK m \in V : \A v \in V : v <= m
  BY GreatestNumber
<1>2. \A v \in V : m >= v
  BY <1>1
<1>3. Max(V) \in V /\ \A v \in V : Max(V) >= v
  BY <1>1, <1>2 DEF Max
<1>4. QED
  BY <1>3

Length(interval) == interval.End - interval.Start

\* What a streak is compared with: no less than any true interval that is long enough.
LEMMA StreakIsLongest ==
  ASSUME NEW c \in Seq(Interval), NEW min \in Int
  PROVE  LET longest == LongestConsecutiveTrueDuration(c, min)
         IN  /\ longest \in Int /\ longest >= 0
             /\ \/ longest = 0
                \/ \E i \in 1 .. Len(c) : c[i].Value /\ longest = Length(c[i]) /\ longest >= min
             /\ \A i \in 1 .. Len(c) : c[i].Value /\ Length(c[i]) >= min => longest >= Length(c[i])
<1> DEFINE n == Len(c)
           T == {i \in 1 .. n : c[i].Value /\ Length(c[i]) >= min} \union {n + 1}
           f == [i \in 1 .. n + 1 |-> IF i = n + 1 THEN 0 ELSE Length(c[i])]
           V == {f[i] : i \in T}
           W == {0} \union {d \in {c[i].End - c[i].Start : i \in {j \in DOMAIN c : c[j].Value}} :
                              d >= min}
<1>1. n \in Nat /\ DOMAIN c = 1 .. n /\ n + 1 \in Nat /\ n + 1 \in 1 .. n + 1
  OBVIOUS
<1>2. \A i \in 1 .. n : /\ Length(c[i]) \in Int /\ Length(c[i]) = c[i].End - c[i].Start
                        /\ i # n + 1 /\ i \in 1 .. n + 1
  <2>1. \A i \in 1 .. n : c[i] \in Interval
    OBVIOUS
  <2>2. QED
    BY <1>1, <2>1 DEF Interval, Length
<1> HIDE DEF n
<1>3. /\ f \in [1 .. n + 1 -> Int] /\ f[n + 1] = 0
      /\ \A i \in 1 .. n : f[i] = Length(c[i])
  BY <1>1, <1>2
<1>4. T \subseteq 1 .. n + 1 /\ T # {}
  BY <1>1, <1>2
<1> HIDE DEF f
<1>5. W = V
  <2>1. ASSUME NEW d \in W PROVE d \in V
    <3>1. CASE d = 0
      BY <1>3, <3>1
    <3>2. CASE d # 0
      <4>1. PICK i \in 1 .. n : c[i].Value /\ d = c[i].End - c[i].Start /\ d >= min
        BY <1>1, <3>2
      <4>2. i \in T /\ d = f[i]
        BY <1>2, <1>3, <4>1
      <4>3. QED
        BY <4>2
    <3>3. QED
      BY <3>1, <3>2
  <2>2. ASSUME NEW i \in T PROVE f[i] \in W
    <3>1. CASE i = n + 1
      BY <1>3, <3>1
    <3>2. CASE i # n + 1
      <4>1. i \in 1 .. n /\ c[i].Value /\ Length(c[i]) >= min
        BY <3>2
      <4>2. f[i] = c[i].End - c[i].Start /\ f[i] >= min /\ i \in DOMAIN c
        BY <1>1, <1>2, <1>3, <4>1
      <4>3. QED
        BY <4>1, <4>2
    <3>3. QED
      BY <3>1, <3>2
  <2> HIDE DEF W, T
  <2>3. QED
    BY <2>1, <2>2
<1>6. LongestConsecutiveTrueDuration(c, min) = Max(V)
  BY <1>5 DEF LongestConsecutiveTrueDuration
<1>7. Max(V) \in V /\ \A v \in V : v <= Max(V)
  <2> HIDE DEF T
  <2>1. QED
    BY <1>1, <1>3, <1>4, MaxAndMin
<1>8. V \subseteq Int /\ 0 \in V
  BY <1>1, <1>3, <1>4
<1>9. PICK k \in T : Max(V) = f[k]
  BY <1>7
<1>10. \/ Max(V) = 0
       \/ \E i \in 1 .. n : c[i].Value /\ Max(V) = Length(c[i]) /\ Max(V) >= min
  <2>1. CASE k = n + 1
    BY <1>3, <1>9, <2>1
  <2>2. CASE k # n + 1
    <3>1. k \in 1 .. n /\ c[k].Value /\ Length(c[k]) >= min
      BY <2>2
    <3>2. Max(V) = Length(c[k])
      BY <1>3, <1>9, <3>1
    <3>3. QED
      BY <3>1, <3>2
  <2>3. QED
    BY <2>1, <2>2
<1>11. \A i \in 1 .. n : c[i].Value /\ Length(c[i]) >= min => Max(V) >= Length(c[i])
  <2>1. ASSUME NEW i \in 1 .. n, c[i].Value, Length(c[i]) >= min PROVE Max(V) >= Length(c[i])
    <3>1. i \in T /\ f[i] = Length(c[i])
      BY <1>3, <2>1
    <3>2. Length(c[i]) \in V
      BY <3>1
    <3> HIDE DEF V
    <3>3. QED
      BY <1>7, <1>8, <3>2
  <2>2. QED
    BY <2>1
<1> HIDE DEF V
<1>12. Max(V) \in Int /\ Max(V) >= 0
  BY <1>7, <1>8
<1>13. QED
  BY <1>6, <1>10, <1>11, <1>12 DEF n

\* Units from lo to hi.
LiesIn(S, lo, hi) == lo \in Int /\ hi \in Int /\ lo <= hi /\ S \subseteq lo .. hi

\* The runs among such units.
LEMMA RunsAreShort ==
  ASSUME NEW S, NEW lo, NEW hi, LiesIn(S, lo, hi)
  PROVE  /\ Runs(S) \subseteq 0 .. hi - lo + 1
         /\ \A d : d \in Runs(S) <=>
              \E p, q \in S : p <= q /\ p .. q \subseteq S /\ d = q - p + 1
<1>1. ASSUME NEW d PROVE d \in Runs(S) <=>
                           \E p, q \in S : p <= q /\ p .. q \subseteq S /\ d = q - p + 1
  <2>1. ASSUME d \in Runs(S) PROVE \E p, q \in S : p <= q /\ p .. q \subseteq S /\ d = q - p + 1
    <3>1. PICK r \in S \X S : r[1] <= r[2] /\ r[1] .. r[2] \subseteq S /\ d = r[2] - r[1] + 1
      BY <2>1 DEF Runs
    <3>2. QED
      BY <3>1
  <2>2. ASSUME NEW p \in S, NEW q \in S, p <= q, p .. q \subseteq S, d = q - p + 1
        PROVE  d \in Runs(S)
    <3>1. /\ <<p, q>> \in S \X S /\ <<p, q>>[1] = p /\ <<p, q>>[2] = q
      OBVIOUS
    <3>2. QED
      BY <2>2, <3>1 DEF Runs
  <2>3. QED
    BY <2>1, <2>2
<1>2. \A p, q \in S : p <= q => q - p + 1 \in 0 .. hi - lo + 1
  BY DEF LiesIn
<1>3. QED
  BY <1>1, <1>2

\* A streak is no longer than the longest run of units that is long enough, and as
\* long where true intervals lie apart and no other ones are between them.
LEMMA StreakIsRun ==
  ASSUME NEW S, NEW lo, NEW hi, LiesIn(S, lo, hi), NEW c \in Seq(Interval),
         \A t \in Int : TrueAt(c, t) <=> t \in S, NEW min \in Int
  PROVE  LET streak == LongestConsecutiveTrueDuration(c, min)
             longest == Max({0} \union {d \in Runs(S) : d >= min})
         IN  /\ streak <= longest
             /\ AllTrue(c) /\ Gapped(c) => streak = longest
<1> DEFINE streak == LongestConsecutiveTrueDuration(c, min)
           V == {0} \union {d \in Runs(S) : d >= min}
           longest == Max(V)
<1>1. /\ streak \in Int /\ streak >= 0
      /\ \/ streak = 0
         \/ \E i \in 1 .. Len(c) : c[i].Value /\ streak = Length(c[i]) /\ streak >= min
      /\ \A i \in 1 .. Len(c) : c[i].Value /\ Length(c[i]) >= min => streak >= Length(c[i])
  BY StreakIsLongest
<1> HIDE DEF streak
<1>2. /\ Runs(S) \subseteq 0 .. hi - lo + 1
      /\ \A d : d \in Runs(S) <=> \E p, q \in S : p <= q /\ p .. q \subseteq S /\ d = q - p + 1
  BY RunsAreShort
<1>3. longest \in V /\ \A v \in V : v <= longest
  <2>1. PICK h \in Nat : h = hi - lo + 1
    BY DEF LiesIn
  <2>2. V \subseteq 0 .. h /\ 0 \in V
    BY <1>2, <2>1
  <2> HIDE DEF V
  <2>3. QED
    BY <2>2, GreatestOfRuns
<1>4. longest \in Int /\ longest >= 0 /\ 0 \in V
  BY <1>2, <1>3
<1>5. \A i \in 1 .. Len(c) : c[i] \in Interval /\ c[i].Start \in Int /\ c[i].End \in Int
  <2>1. \A i \in 1 .. Len(c) : c[i] \in Interval
    OBVIOUS
  <2>2. QED
    BY <2>1 DEF Interval
<1>6. streak <= longest
  <2>1. CASE streak = 0
    BY <1>4, <2>1
  <2>2. CASE streak # 0
    <3>1. PICK i \in 1 .. Len(c) : c[i].Value /\ streak = Length(c[i]) /\ streak >= min
      BY <1>1, <2>2
    <3> DEFINE p == c[i].Start
               q == c[i].End - 1
    <3>2. p \in Int /\ q \in Int /\ p <= q /\ streak = q - p + 1
      <4>1. c[i].Start \in Int /\ c[i].End \in Int /\ streak = c[i].End - c[i].Start
        BY <1>5, <3>1 DEF Length
      <4>2. streak \in Int /\ streak > 0
        BY <1>1, <2>2
      <4>3. QED
        BY <4>1, <4>2
    <3>3. ASSUME NEW t \in p .. q PROVE t \in S
      <4>1. t \in Int /\ During(c[i], t)
        BY <1>5 DEF During
      <4>2. QED
        BY <3>1, <4>1 DEF TrueAt
    <3> HIDE DEF p, q
    <3>4. p \in S /\ q \in S /\ p .. q \subseteq S
      BY <3>2, <3>3
    <3>5. streak \in V
      BY <1>2, <3>1, <3>2, <3>4
    <3>6. QED
      BY <1>3, <3>5
  <2>3. QED
    BY <2>1, <2>2
<1>7. ASSUME AllTrue(c), Gapped(c) PROVE longest <= streak
  <2>1. CASE longest = 0
    BY <1>1, <2>1
  <2>2. CASE longest # 0
    <3>1. longest \in Runs(S) /\ longest >= min
      BY <1>3, <2>2
    <3>2. PICK p \in S, q \in S : p <= q /\ p .. q \subseteq S /\ longest = q - p + 1
      BY <1>2, <3>1
    <3>3. p \in Int /\ q \in Int
      BY DEF LiesIn
    <3>4. PICK i \in 1 .. Len(c) : c[i].Value /\ During(c[i], p)
      BY <3>3 DEF TrueAt
    <3> DEFINE end == c[i].End
    <3>5. c[i].Start <= p /\ p < end /\ end \in Int /\ c[i].Start \in Int
      BY <1>5, <3>4 DEF During
    <3>6. ASSUME end <= q PROVE FALSE
      <4>1. end \in S
        BY <3>2, <3>3, <3>5, <3>6
      <4>2. PICK j \in 1 .. Len(c) : During(c[j], end)
        BY <3>5, <4>1 DEF TrueAt
      <4>3. c[j].Start <= end /\ end < c[j].End /\ c[j].Start \in Int /\ c[j].End \in Int
        BY <1>5, <4>2 DEF During
      <4>4. ~(i < j)
        BY <1>7, <3>5, <4>3 DEF Gapped
      <4>5. ~(j < i)
        <5>1. ASSUME j < i PROVE c[j].End < c[i].Start
          BY <1>7, <5>1 DEF Gapped
        <5>2. QED
          BY <3>3, <3>5, <4>3, <5>1
      <4>6. i = j
        BY <4>4, <4>5
      <4>7. QED
        BY <3>5, <4>3, <4>6
    <3>7. Length(c[i]) >= longest /\ Length(c[i]) \in Int
      BY <3>2, <3>3, <3>5, <3>6 DEF Length
    <3>8. streak >= Length(c[i])
      BY <1>1, <1>4, <3>1, <3>4, <3>7
    <3>9. QED
      BY <1>1, <1>4, <3>7, <3>8
  <2>3. QED
    BY <2>1, <2>2
<1>8. QED
  BY <1>1, <1>4, <1>6, <1>7 DEF streak

--------------------------------------------------------------------------------
(* The events of a query.                                                  *)

\* What is known of the list of events of a query.
Listed(es) == es \in Seq(ToSet(es)) /\ Stamped(ToSet(es))

\* What is among the elements of a list has a place in it.
LEMMA AmongPlaces ==
  ASSUME NEW s, s \in Seq(ToSet(s))
  PROVE  \A e : Among(e, s) <=> e \in ToSet(s)
<1>1. DOMAIN s = 1 .. Len(s)
  OBVIOUS
<1>2. QED
  BY <1>1 DEF Among, ToSet

\* filterEventsByType keeps the events of the type, all of them and no others.
LEMMA FilterKeeps ==
  ASSUME NEW es, Listed(es), NEW type
  PROVE  /\ FilterEventsByType(es, type) \in Seq(ToSet(es))
         /\ \A e : Among(e, FilterEventsByType(es, type)) <=> Among(e, es) /\ e.Type = type
<1> DEFINE wanted == {e \in ToSet(es) : e.Type = type}
<1>1. /\ Select(es, wanted) \in Seq(ToSet(es))
      /\ \A e : Among(e, Select(es, wanted)) <=> Among(e, es) /\ e \in wanted
  BY SelectElements DEF Listed
<1>2. \A e : Among(e, es) <=> e \in ToSet(es)
  BY AmongPlaces DEF Listed
<1>3. QED
  BY <1>1, <1>2 DEF FilterEventsByType

--------------------------------------------------------------------------------
(* ProcessQuery.                                                           *)

QueryTurn(f, es, ops, n) ==
  IF n = 0 THEN [last |-> Seconds(0), results |-> <<>>] ELSE ExecuteNext(es, f[n - 1], ops[n])

IsQuery(f, es, ops) == f = [n \in 0 .. Len(ops) |-> QueryTurn(f, es, ops, n)]

\* What is known after n turns.
LEMMA QueryStep ==
  ASSUME NEW es, NEW ops, Len(ops) \in Nat, NEW f, IsQuery(f, es, ops)
  PROVE  /\ f[0] = [last |-> Seconds(0), results |-> <<>>]
         /\ \A n \in 0 .. Len(ops) - 1 : f[n + 1] = ExecuteNext(es, f[n], ops[n + 1])
<1>1. \A n \in 0 .. Len(ops) : f[n] = QueryTurn(f, es, ops, n)
  BY DEF IsQuery
<1>2. \A n \in 0 .. Len(ops) - 1 : n + 1 \in 0 .. Len(ops) /\ n + 1 # 0 /\ (n + 1) - 1 = n
  OBVIOUS
<1>3. 0 \in 0 .. Len(ops)
  OBVIOUS
<1>4. QED
  BY <1>1, <1>2, <1>3 DEF QueryTurn

\* The recursion of ProcessQuery defines a function.
LEMMA QueryUnfolds ==
  ASSUME NEW es, NEW ops, Len(ops) \in Nat
  PROVE  \E f : IsQuery(f, es, ops) /\ ProcessQuery(es, ops) = AnswerOf(f[Len(ops)])
<1> DEFINE m == Len(ops)
           Upto(f, k) == \A n \in 0 .. k : f[n] = QueryTurn(f, es, ops, n)
           S == {k \in 0 .. m : \E f : Upto(f, k)}
<1>1. 0 \in S
  <2> DEFINE g == [n \in 0 .. 0 |-> [last |-> Seconds(0), results |-> <<>>]]
  <2>1. \A n \in 0 .. 0 : n = 0
    OBVIOUS
  <2>2. g[0] = [last |-> Seconds(0), results |-> <<>>]
    OBVIOUS
  <2> HIDE DEF g
  <2>3. Upto(g, 0)
    BY <2>1, <2>2 DEF QueryTurn
  <2>4. 0 \in 0 .. m
    OBVIOUS
  <2> HIDE DEF Upto
  <2>5. QED
    BY <2>3, <2>4
<1>2. ASSUME NEW k \in 0 .. m - 1, k \in S PROVE k + 1 \in S
  <2>1. PICK f : Upto(f, k)
    BY <1>2
  <2> DEFINE next == QueryTurn(f, es, ops, k + 1)
             g == [n \in 0 .. k + 1 |-> IF n = k + 1 THEN next ELSE f[n]]
  <2> HIDE DEF next
  <2>2. k \in Nat /\ k + 1 \in 0 .. m /\ (k + 1) - 1 = k /\ k + 1 # 0
    OBVIOUS
  <2>3. /\ \A n \in 0 .. k : g[n] = f[n]
        /\ g[k + 1] = next
    BY <2>2
  <2> HIDE DEF g
  <2>4. ASSUME NEW n \in 0 .. k PROVE g[n] = QueryTurn(g, es, ops, n)
    <3>1. f[n] = QueryTurn(f, es, ops, n)
      BY <2>1
    <3>2. n # 0 => n - 1 \in 0 .. k
      BY <2>2
    <3>3. n # 0 => g[n - 1] = f[n - 1]
      BY <2>3, <3>2
    <3>4. QED
      BY <2>3, <3>1, <3>3 DEF QueryTurn
  <2>5. g[k + 1] = QueryTurn(g, es, ops, k + 1)
    <3>1. g[k] = f[k]
      BY <2>2, <2>3
    <3>2. QED
      BY <2>2, <2>3, <3>1 DEF QueryTurn, next
  <2>6. \A n \in 0 .. k + 1 : n \in 0 .. k \/ n = k + 1
    BY <2>2
  <2>7. Upto(g, k + 1)
    BY <2>4, <2>5, <2>6
  <2> HIDE DEF Upto
  <2>8. QED
    BY <2>2, <2>7
<1>3. PICK f : Upto(f, m)
  <2> HIDE DEF S
  <2>1. \A k \in 0 .. m : k \in S
    BY <1>1, <1>2, Induction
  <2>2. m \in S
    BY <2>1
  <2>3. QED
    BY <2>2 DEF S
<1> DEFINE h == [n \in 0 .. m |-> f[n]]
<1>4. ASSUME NEW n \in 0 .. m PROVE h[n] = QueryTurn(h, es, ops, n)
  <2>1. h[n] = f[n] /\ f[n] = QueryTurn(f, es, ops, n)
    BY <1>3
  <2>2. n # 0 => n - 1 \in 0 .. m
    OBVIOUS
  <2>3. n # 0 => h[n - 1] = f[n - 1]
    BY <2>2
  <2> HIDE DEF h
  <2>4. QED
    BY <2>1, <2>3 DEF QueryTurn
<1>5. h = [n \in 0 .. m |-> h[n]]
  OBVIOUS
<1> HIDE DEF h
<1>6. IsQuery(h, es, ops)
  BY <1>4, <1>5 DEF IsQuery
<1>7. \E g : IsQuery(g, es, ops)
  BY <1>6
<1>8. QED
  BY <1>7 DEF ProcessQuery, IsQuery, QueryTurn
================================================================================
