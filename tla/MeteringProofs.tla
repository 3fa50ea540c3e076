--------------------------- MODULE MeteringProofs ---------------------------
(***************************************************************************)
(* Theorems about the accounting of traffic.                               *)
(***************************************************************************)
EXTENDS Metering, FiniteSetTheorems, WellFoundedInduction, TLAPS

-----------------------------------------------------------------------------
(* Numbers.                                                                *)
LEMMA SmallestNat ==
  ASSUME NEW T, T \subseteq Nat, T # {}
  PROVE  \E x \in T : \A y \in T : x <= y
<1>1. PICK x \in T : \A y \in T : ~ (<<y, x>> \in OpToRel(<, Nat))
  <2>1. \E x \in T : \A y \in T : ~ (<<y, x>> \in OpToRel(<, Nat))
    BY NatLessThanWellFounded, WFMin
  <2> QED BY <2>1
<1>2. \A y \in T : ~ (y < x)
  BY <1>1 DEF OpToRel
<1> QED BY <1>2

LEMMA DivBounds ==
  ASSUME NEW x \in Int, NEW d \in Nat \ {0}
  PROVE  x \div d \in Int /\ d * (x \div d) <= x /\ x < d * (x \div d) + d
OBVIOUS

LEMMA DivNat ==
  ASSUME NEW x \in Nat, NEW d \in Nat \ {0}
  PROVE  x \div d \in Nat
BY DivBounds

LEMMA DivMonotone ==
  ASSUME NEW x \in Int, NEW y \in Int, x <= y, NEW d \in Nat \ {0}
  PROVE  x \div d <= y \div d
OBVIOUS

LEMMA MaxOfTwo ==
  ASSUME NEW a \in Int, NEW b \in Int
  PROVE  Max({a, b}) = IF a >= b THEN a ELSE b
<1>1. \A x \in {a, b} : (\A y \in {a, b} : x >= y) <=> x = IF a >= b THEN a ELSE b
  OBVIOUS
<1> QED BY <1>1 DEF Max

LEMMA MinOfTwo ==
  ASSUME NEW a \in Int, NEW b \in Int
  PROVE  Min({a, b}) = IF a <= b THEN a ELSE b
<1>1. \A x \in {a, b} : (\A y \in {a, b} : x <= y) <=> x = IF a <= b THEN a ELSE b
  OBVIOUS
<1> QED BY <1>1 DEF Min

LEMMA LargestUpTo ==
  ASSUME NEW n \in Nat, NEW s, s \subseteq 0 .. n, s # {}
  PROVE  Max(s) \in s /\ \A y \in s : y <= Max(s)
<1> DEFINE T == {n - y : y \in s}
<1>1. T \subseteq Nat /\ T # {}
  <2>1. \A y \in s : n - y \in Nat
    OBVIOUS
  <2> QED BY <2>1
<1>2. PICK t \in T : \A u \in T : t <= u
  <2> HIDE DEF T
  <2> QED BY <1>1, SmallestNat
<1>3. PICK x \in s : t = n - x
  BY <1>2
<1>4. ASSUME NEW y \in s PROVE x >= y
  <2>1. n - x <= n - y
    BY <1>2, <1>3
  <2>2. x \in Int /\ y \in Int
    OBVIOUS
  <2> QED BY <2>1, <2>2
<1>5. s \subseteq Int
  OBVIOUS
<1>6. \A y \in s : x >= y
  BY <1>4
<1>7. Max(s) \in s /\ \A y \in s : Max(s) >= y
  BY <1>6 DEF Max
<1> QED BY <1>5, <1>7

-----------------------------------------------------------------------------
(* Sums over finite sets: the recursive function behind the folds exists,   *)
(* and it is a sum in any order.                                            *)
Picks(S, ch) == \A s \in SUBSET S : s # {} => ch[s] \in s

Recurs(D, w, ch, f) ==
  \A s \in D : f[s] = IF s = {} THEN 0 ELSE w[ch[s]] + f[s \ {ch[s]}]

LEMMA SmallerSet ==
  ASSUME NEW S, IsFiniteSet(S), NEW s \in SUBSET S, NEW x \in s
  PROVE  /\ IsFiniteSet(s) /\ Cardinality(s) \in Nat \ {0} /\ s \ {x} \in SUBSET S
         /\ Cardinality(s \ {x}) = Cardinality(s) - 1 /\ Cardinality(s) <= Cardinality(S)
<1>1. IsFiniteSet(s) /\ Cardinality(s) <= Cardinality(S)
  BY FS_Subset
<1>2. Cardinality(s) \in Nat /\ Cardinality(s \ {x}) = Cardinality(s) - 1
  BY <1>1, FS_CardinalityType, FS_RemoveElement
<1>3. Cardinality(s) # 0
  BY <1>1, FS_EmptySet
<1> QED BY <1>1, <1>2, <1>3

LEMMA SumExists ==
  ASSUME NEW S, IsFiniteSet(S), NEW w \in [S -> Int], NEW ch, Picks(S, ch)
  PROVE  \E f \in [SUBSET S -> Int] : Recurs(SUBSET S, w, ch, f)
<1> DEFINE Upto(n) == {s \in SUBSET S : Cardinality(s) <= n}
           Exists(n) == \E f \in [Upto(n) -> Int] : Recurs(Upto(n), w, ch, f)
           Bad == {n \in Nat : ~Exists(n)}
<1>1. \A s \in SUBSET S : IsFiniteSet(s) /\ Cardinality(s) \in Nat /\ Cardinality(s) <= Cardinality(S)
  BY FS_Subset, FS_CardinalityType
<1>2. \A s \in SUBSET S : s # {} =>
        /\ ch[s] \in s /\ s \ {ch[s]} \in SUBSET S
        /\ Cardinality(s \ {ch[s]}) = Cardinality(s) - 1 /\ w[ch[s]] \in Int
  BY SmallerSet DEF Picks
<1>3. Exists(0)
  <2> DEFINE f == [s \in Upto(0) |-> 0]
  <2>1. \A s \in Upto(0) : s = {}
    BY <1>1, FS_EmptySet
  <2>2. f \in [Upto(0) -> Int] /\ Recurs(Upto(0), w, ch, f)
    BY <2>1 DEF Recurs
  <2> QED BY <2>2
<1>4. ASSUME NEW n \in Nat, Exists(n)
      PROVE  Exists(n + 1)
  <2>1. PICK f \in [Upto(n) -> Int] : Recurs(Upto(n), w, ch, f)
    BY <1>4
  <2> DEFINE g == [s \in Upto(n + 1) |-> IF s = {} THEN 0 ELSE w[ch[s]] + f[s \ {ch[s]}]]
  <2>2. \A s \in Upto(n + 1) : s # {} => s \ {ch[s]} \in Upto(n)
    BY <1>1, <1>2
  <2>3. g \in [Upto(n + 1) -> Int]
    BY <1>2, <2>2
  <2>4. Upto(n) \subseteq Upto(n + 1)
    BY <1>1
  <2>5. \A s \in Upto(n) : g[s] = f[s]
    BY <2>1, <2>4 DEF Recurs
  <2>6. \A s \in Upto(n + 1) : s # {} => g[s] = w[ch[s]] + g[s \ {ch[s]}]
    BY <2>2, <2>5
  <2>7. \A s \in Upto(n + 1) : s = {} => g[s] = 0
    OBVIOUS
  <2>8. Recurs(Upto(n + 1), w, ch, g)
    <3> HIDE DEF g, Upto
    <3> QED BY <2>6, <2>7 DEF Recurs
  <2> QED BY <2>3, <2>8
<1>5. \A n \in Nat : Exists(n)
  <2> HIDE DEF Exists
  <2> SUFFICES ASSUME Bad # {} PROVE FALSE
    OBVIOUS
  <2>1. PICK n \in Bad : \A k \in Bad : n <= k
    BY SmallestNat
  <2>2. n # 0 /\ n \in Nat /\ ~Exists(n)
    BY <1>3, <2>1
  <2>3. n - 1 \in Nat /\ Exists(n - 1)
    BY <2>1, <2>2
  <2>4. Exists((n - 1) + 1) /\ (n - 1) + 1 = n
    BY <1>4, <2>2, <2>3
  <2> QED BY <2>2, <2>4
<1>6. Cardinality(S) \in Nat /\ Upto(Cardinality(S)) = SUBSET S
  BY <1>1, FS_CardinalityType
<1>7. Exists(Cardinality(S))
  <2> HIDE DEF Exists
  <2> QED BY <1>5, <1>6
<1> QED BY <1>6, <1>7

LEMMA MinimalSet ==
  ASSUME NEW S, IsFiniteSet(S), NEW B, B \subseteq SUBSET S, B # {}
  PROVE  \E s \in B : \A x \in s : s \ {x} \notin B
<1> DEFINE T == {Cardinality(s) : s \in B}
<1>1. T \subseteq Nat /\ T # {}
  <2>1. \A s \in B : Cardinality(s) \in Nat
    BY FS_Subset, FS_CardinalityType
  <2> QED BY <2>1
<1>2. PICK n \in T : \A k \in T : n <= k
  <2> HIDE DEF T
  <2> QED BY <1>1, SmallestNat
<1>3. PICK s \in B : n = Cardinality(s)
  BY <1>2
<1>4. \A x \in s : Cardinality(s \ {x}) = Cardinality(s) - 1 /\ Cardinality(s) \in Nat
  BY SmallerSet
<1>5. ASSUME NEW x \in s, s \ {x} \in B PROVE FALSE
  <2>1. Cardinality(s) <= Cardinality(s \ {x})
    BY <1>2, <1>3, <1>5
  <2> QED BY <1>4, <2>1
<1> QED BY <1>5

(* The choice-free form: f[s] is the sum of w over s.                       *)
Sums(S, w, f) ==
  /\ \A s \in SUBSET S : f[s] \in Int
  /\ f[{}] = 0
  /\ \A s \in SUBSET S : \A x \in s : f[s] = w[x] + f[s \ {x}]

Unfolds(S, w, ch, f) ==
  /\ f[{}] = 0
  /\ \A s \in SUBSET S : s # {} =>
       \/ f[s] = w[ch[s]] + f[s \ {ch[s]}]
       \/ f[s] = f[s \ {ch[s]}] + w[ch[s]]

LEMMA RecursSums ==
  ASSUME NEW S, IsFiniteSet(S), NEW w \in [S -> Int], NEW ch, Picks(S, ch),
         NEW f, Unfolds(S, w, ch, f)
  PROVE  Sums(S, w, f)
<1>1. f[{}] = 0
  BY DEF Unfolds
<1>3. \A s \in SUBSET S : f[s] \in Int
  <2> DEFINE B == {s \in SUBSET S : f[s] \notin Int}
  <2> SUFFICES ASSUME B # {} PROVE FALSE
    OBVIOUS
  <2>1. PICK s \in B : \A x \in s : s \ {x} \notin B
    <3>1. B \subseteq SUBSET S
      OBVIOUS
    <3> HIDE DEF B
    <3> QED BY <3>1, MinimalSet
  <2>2. s # {}
    BY <1>1
  <2>3. ch[s] \in s /\ w[ch[s]] \in Int
    BY <2>2 DEF Picks
  <2>4. f[s \ {ch[s]}] \in Int
    BY <2>1, <2>3
  <2>5. f[s] = w[ch[s]] + f[s \ {ch[s]}] \/ f[s] = f[s \ {ch[s]}] + w[ch[s]]
    BY <2>2 DEF Unfolds
  <2> QED BY <2>3, <2>4, <2>5
<1>2. ASSUME NEW s \in SUBSET S, s # {}
      PROVE  ch[s] \in s /\ f[s] = w[ch[s]] + f[s \ {ch[s]}]
  <2>1. ch[s] \in s /\ w[ch[s]] \in Int /\ f[s \ {ch[s]}] \in Int
    BY <1>2, <1>3 DEF Picks
  <2>2. f[s] = w[ch[s]] + f[s \ {ch[s]}] \/ f[s] = f[s \ {ch[s]}] + w[ch[s]]
    BY <1>2 DEF Unfolds
  <2> QED BY <2>1, <2>2
<1>4. \A s \in SUBSET S : \A x \in s : f[s] = w[x] + f[s \ {x}]
  <2> DEFINE P(s) == \A x \in s : f[s] = w[x] + f[s \ {x}]
             B == {s \in SUBSET S : ~P(s)}
  <2> SUFFICES ASSUME B # {} PROVE FALSE
    OBVIOUS
  <2>1. PICK s \in B : \A x \in s : s \ {x} \notin B
    <3>1. B \subseteq SUBSET S
      OBVIOUS
    <3> HIDE DEF B
    <3> QED BY <3>1, MinimalSet
  <2>2. \A x \in s : P(s \ {x})
    BY <2>1
  <2>3. PICK x \in s : f[s] # w[x] + f[s \ {x}]
    BY <2>1
  <2>4. PICK c \in s : c = ch[s] /\ f[s] = w[c] + f[s \ {c}]
    BY <1>2, <2>3
  <2>5. x # c
    BY <2>3, <2>4
  <2>6. f[s \ {c}] = w[x] + f[(s \ {c}) \ {x}]
    BY <2>2, <2>5
  <2>7. f[s \ {x}] = w[c] + f[(s \ {x}) \ {c}]
    BY <2>2, <2>5
  <2>8. (s \ {x}) \ {c} = (s \ {c}) \ {x}
    OBVIOUS
  <2>9. w[x] \in Int /\ w[c] \in Int /\ f[(s \ {x}) \ {c}] \in Int
    BY <1>3
  <2> DEFINE r == f[(s \ {x}) \ {c}]
  <2>10. f[s] = w[c] + (w[x] + r) /\ f[s \ {x}] = w[c] + r /\ r \in Int
    BY <2>4, <2>6, <2>7, <2>8, <2>9
  <2> HIDE DEF r
  <2>11. f[s] = w[x] + f[s \ {x}]
    BY <2>9, <2>10
  <2> QED BY <2>3, <2>11
<1> QED BY <1>1, <1>3, <1>4 DEF Sums

(* A larger weight, a larger sum.                                           *)
LEMMA SumLess ==
  ASSUME NEW S, IsFiniteSet(S), NEW w \in [S -> Int], NEW f, Sums(S, w, f),
         NEW v \in [S -> Int], NEW g, Sums(S, v, g), NEW D \in SUBSET S,
         \A x \in D : w[x] <= v[x]
  PROVE  f[D] <= g[D]
<1> DEFINE B == {s \in SUBSET D : ~(f[s] <= g[s])}
<1> SUFFICES ASSUME B # {} PROVE FALSE
  OBVIOUS
<1>1. PICK s \in B : \A x \in s : s \ {x} \notin B
  <2>1. B \subseteq SUBSET S
    OBVIOUS
  <2> HIDE DEF B
  <2> QED BY <2>1, MinimalSet
<1>2. s # {}
  <2>1. f[{}] = 0 /\ g[{}] = 0
    BY DEF Sums
  <2> QED BY <2>1
<1>3. PICK x \in s : TRUE
  BY <1>2
<1>4. f[s \ {x}] <= g[s \ {x}] /\ w[x] <= v[x]
  BY <1>1
<1>5. f[s] = w[x] + f[s \ {x}] /\ g[s] = v[x] + g[s \ {x}]
  BY DEF Sums
<1>6. {w[x], v[x], f[s \ {x}], g[s \ {x}]} \subseteq Int
  BY DEF Sums
<1> QED BY <1>4, <1>5, <1>6

LEMMA SumZero ==
  ASSUME NEW S, IsFiniteSet(S)
  PROVE  Sums(S, [x \in S |-> 0], [s \in SUBSET S |-> 0])
BY DEF Sums

LEMMA SumOne ==
  ASSUME NEW S, IsFiniteSet(S), NEW w \in [S -> Int], NEW f, Sums(S, w, f),
         NEW v \in [S -> Int], NEW g, Sums(S, v, g), NEW k \in S,
         \A x \in S \ {k} : w[x] = v[x]
  PROVE  g[S] - f[S] = v[k] - w[k]
<1>1. f[S \ {k}] <= g[S \ {k}] /\ g[S \ {k}] <= f[S \ {k}]
  BY SumLess
<1>2. f[S] = w[k] + f[S \ {k}] /\ g[S] = v[k] + g[S \ {k}]
  BY DEF Sums
<1>3. {w[k], v[k], f[S \ {k}], g[S \ {k}]} \subseteq Int
  BY DEF Sums
<1> QED BY <1>1, <1>2, <1>3

-----------------------------------------------------------------------------
(* The counters of the cards.                                              *)
Counters == [Cards -> [index : Nat, bytes : Nat]]
Weights(k) == [c \in Cards |-> k[c].bytes]

LEMMA TotalIsSum ==
  ASSUME NEW k \in Counters
  PROVE  \E f : Sums(Cards, Weights(k), f) /\ Total(k) = f[Cards]
<1> DEFINE ch == [s \in SUBSET Cards |-> CHOOSE x \in s : TRUE]
           w == Weights(k)
           Equation(f) == f = [s \in SUBSET Cards |->
                                 IF s = {} THEN 0
                                 ELSE k[CHOOSE x \in s : TRUE].bytes + f[s \ {CHOOSE x \in s : TRUE}]]
<1>1. w \in [Cards -> Int] /\ IsFiniteSet(Cards) /\ \A c \in Cards : w[c] = k[c].bytes
  BY MeteringAssumption DEF Counters, Weights
<1>2. Picks(Cards, ch) /\ \A s \in SUBSET Cards : ch[s] = CHOOSE x \in s : TRUE
  BY DEF Picks
<1> HIDE DEF w, ch
<1>3. PICK g \in [SUBSET Cards -> Int] : Recurs(SUBSET Cards, w, ch, g)
  BY <1>1, <1>2, SumExists
<1>10. \A s \in SUBSET Cards : s # {} =>
         ch[s] = (CHOOSE x \in s : TRUE) /\ w[ch[s]] = k[ch[s]].bytes
  BY <1>1, <1>2 DEF Picks
<1>4. Equation(g)
  <2>1. \A s \in SUBSET Cards :
          g[s] = IF s = {} THEN 0
                 ELSE k[CHOOSE x \in s : TRUE].bytes + g[s \ {CHOOSE x \in s : TRUE}]
    <3>1. ASSUME NEW s \in SUBSET Cards, s # {}
          PROVE  g[s] = k[CHOOSE x \in s : TRUE].bytes + g[s \ {CHOOSE x \in s : TRUE}]
      <4>1. g[s] = w[ch[s]] + g[s \ {ch[s]}]
        BY <1>3, <3>1 DEF Recurs
      <4> QED BY <1>10, <3>1, <4>1
    <3>2. g[{}] = 0
      BY <1>3 DEF Recurs
    <3> QED BY <3>1, <3>2
  <2> QED BY <2>1
<1> DEFINE f == CHOOSE h : Equation(h)
<1>5. Equation(f)
  <2> HIDE DEF Equation
  <2> QED BY <1>4
<1>6. Total(k) = f[Cards]
  BY DEF Total, MapThenSumSet, MapThenFoldSet
<1> HIDE DEF f
<1>7. Unfolds(Cards, w, ch, f)
  <2>1. ASSUME NEW s \in SUBSET Cards, s # {}
        PROVE  f[s] = w[ch[s]] + f[s \ {ch[s]}]
    <3>1. f[s] = k[CHOOSE x \in s : TRUE].bytes + f[s \ {CHOOSE x \in s : TRUE}]
      BY <1>5, <2>1
    <3> QED BY <1>10, <2>1, <3>1
  <2>2. f[{}] = 0
    BY <1>5
  <2> QED BY <2>1, <2>2 DEF Unfolds
<1>8. Sums(Cards, w, f)
  BY <1>1, <1>2, <1>7, RecursSums
<1> QED BY <1>6, <1>8 DEF w

LEMMA TotalBounds ==
  ASSUME NEW k \in Counters
  PROVE  Total(k) \in Nat
<1>1. PICK f : Sums(Cards, Weights(k), f) /\ Total(k) = f[Cards]
  BY TotalIsSum
<1> DEFINE zero == [x \in Cards |-> 0]
           none == [s \in SUBSET Cards |-> 0]
<1>2. Sums(Cards, zero, none) /\ IsFiniteSet(Cards) /\ none[Cards] = 0
  BY SumZero, MeteringAssumption
<1>3. /\ Weights(k) \in [Cards -> Int] /\ zero \in [Cards -> Int]
      /\ \A c \in Cards : zero[c] <= Weights(k)[c]
  BY DEF Weights, Counters
<1> HIDE DEF zero, none
<1>4. none[Cards] <= f[Cards]
  BY <1>1, <1>2, <1>3, SumLess
<1>5. f[Cards] \in Int
  BY <1>1 DEF Sums
<1> QED BY <1>1, <1>2, <1>4, <1>5

LEMMA TotalGrows ==
  ASSUME NEW old \in Counters, NEW new \in Counters,
         \A c \in Cards : new[c].bytes >= old[c].bytes
  PROVE  Total(old) <= Total(new)
<1>1. PICK f : Sums(Cards, Weights(old), f) /\ Total(old) = f[Cards]
  BY TotalIsSum
<1>2. PICK g : Sums(Cards, Weights(new), g) /\ Total(new) = g[Cards]
  BY TotalIsSum
<1>3. /\ Weights(old) \in [Cards -> Int] /\ Weights(new) \in [Cards -> Int]
      /\ \A c \in Cards : Weights(old)[c] <= Weights(new)[c]
  BY DEF Weights, Counters
<1> QED BY <1>1, <1>2, <1>3, SumLess, MeteringAssumption

LEMMA TotalCarried ==
  ASSUME NEW k \in Counters, NEW card \in Cards
  PROVE  /\ [k EXCEPT ![card].bytes = @ + Packet] \in Counters
         /\ Total([k EXCEPT ![card].bytes = @ + Packet]) = Total(k) + Packet
<1> DEFINE new == [k EXCEPT ![card].bytes = @ + Packet]
<1>1. Packet \in Nat /\ IsFiniteSet(Cards)
  BY MeteringAssumption
<1>2. new \in Counters
  BY <1>1 DEF Counters
<1>3. /\ \A c \in Cards \ {card} : new[c].bytes = k[c].bytes
      /\ new[card].bytes = k[card].bytes + Packet
  BY DEF Counters
<1> HIDE DEF new
<1>4. PICK f : Sums(Cards, Weights(k), f) /\ Total(k) = f[Cards]
  BY TotalIsSum
<1>5. PICK g : Sums(Cards, Weights(new), g) /\ Total(new) = g[Cards]
  BY <1>2, TotalIsSum
<1>6. /\ Weights(k) \in [Cards -> Int] /\ Weights(new) \in [Cards -> Int]
      /\ \A c \in Cards \ {card} : Weights(k)[c] = Weights(new)[c]
      /\ Weights(new)[card] - Weights(k)[card] = Packet
  BY <1>1, <1>2, <1>3 DEF Weights, Counters
<1>7. g[Cards] - f[Cards] = Weights(new)[card] - Weights(k)[card]
  BY <1>1, <1>4, <1>5, <1>6, SumOne
<1>8. Total(k) \in Nat /\ Total(new) \in Nat
  BY <1>2, TotalBounds
<1>9. Total(new) = Total(k) + Packet
  BY <1>1, <1>4, <1>5, <1>6, <1>7, <1>8
<1> QED BY <1>2, <1>9 DEF new

-----------------------------------------------------------------------------
(* Sums over sequences: running totals.                                    *)
Runs(w, n, h) == h[0] = 0 /\ \A i \in 1 .. n : h[i] = h[i - 1] + w[i]

LEMMA InductiveUpTo ==
  ASSUME NEW n \in Nat, NEW T, 0 \in T, \A i \in 1 .. n : i - 1 \in T => i \in T
  PROVE  \A i \in 0 .. n : i \in T
<1> DEFINE B == {i \in 0 .. n : i \notin T}
<1> SUFFICES ASSUME B # {} PROVE FALSE
  OBVIOUS
<1>1. PICK i \in B : \A j \in B : i <= j
  <2>1. B \subseteq Nat
    OBVIOUS
  <2> HIDE DEF B
  <2> QED BY <2>1, SmallestNat
<1>2. i \in 1 .. n /\ i - 1 \in 0 .. n
  BY <1>1
<1>3. i - 1 \in T
  BY <1>1, <1>2
<1> QED BY <1>1, <1>2, <1>3

LEMMA RunsAlike ==
  ASSUME NEW n \in Nat, NEW w, NEW h, Runs(w, n, h), NEW g, Runs(w, n, g)
  PROVE  h[n] = g[n]
<1> DEFINE T == {i \in 0 .. n : h[i] = g[i]}
<1>1. 0 \in T /\ \A i \in 1 .. n : i - 1 \in T => i \in T
  BY DEF Runs
<1> HIDE DEF T
<1>2. \A i \in 0 .. n : i \in T
  BY <1>1, InductiveUpTo
<1>3. n \in T
  BY <1>2
<1> QED BY <1>3 DEF T

LEMMA RunsInt ==
  ASSUME NEW n \in Nat, NEW w, NEW h, Runs(w, n, h), \A i \in 1 .. n : w[i] \in Int
  PROVE  \A i \in 0 .. n : h[i] \in Int
<1> DEFINE T == {i \in 0 .. n : h[i] \in Int}
<1>1. 0 \in T /\ \A i \in 1 .. n : i - 1 \in T => i \in T
  <2>1. ASSUME NEW i \in 1 .. n, i - 1 \in T PROVE i \in T
    <3>1. h[i] = h[i - 1] + w[i] /\ h[i - 1] \in Int /\ w[i] \in Int
      BY <2>1 DEF Runs
    <3> QED BY <3>1
  <2> QED BY <2>1 DEF Runs
<1> HIDE DEF T
<1>2. \A i \in 0 .. n : i \in T
  BY <1>1, InductiveUpTo
<1> QED BY <1>2 DEF T

LEMMA RunsExist ==
  ASSUME NEW n \in Nat, NEW w \in [1 .. n -> Int], NEW f, Sums(1 .. n, w, f)
  PROVE  \E h : Runs(w, n, h) /\ h[n] = f[1 .. n]
<1> DEFINE h == [i \in 0 .. n |-> f[1 .. i]]
<1>1. h[0] = 0 /\ h[n] = f[1 .. n]
  <2>1. 1 .. 0 = {}
    OBVIOUS
  <2> QED BY <2>1 DEF Sums
<1>2. ASSUME NEW i \in 1 .. n PROVE h[i] = h[i - 1] + w[i]
  <2>1. 1 .. i \in SUBSET (1 .. n) /\ i \in 1 .. i /\ (1 .. i) \ {i} = 1 .. (i - 1)
    OBVIOUS
  <2> DEFINE s == 1 .. i
             t == 1 .. (i - 1)
  <2> HIDE DEF s, t
  <2>5. s \in SUBSET (1 .. n) /\ i \in s /\ s \ {i} = t
    BY <2>1 DEF s, t
  <2>6. f[s] = w[i] + f[t]
    <3>1. f[s] = w[i] + f[s \ {i}]
      BY <2>5 DEF Sums
    <3> QED BY <2>5, <3>1
  <2>2. f[1 .. i] = w[i] + f[1 .. (i - 1)]
    BY <2>6 DEF s, t
  <2>3. w[i] \in Int /\ f[1 .. (i - 1)] \in Int
    <3>1. 1 .. (i - 1) \in SUBSET (1 .. n)
      OBVIOUS
    <3> QED BY <3>1 DEF Sums
  <2>4. i \in 0 .. n /\ i - 1 \in 0 .. n
    OBVIOUS
  <2> QED BY <2>2, <2>3, <2>4
<1> HIDE DEF h
<1> QED BY <1>1, <1>2 DEF Runs

(* The bytes in a sequence of buckets.                                     *)
Bytes(q) == FoldLeft(LAMBDA sum, b : sum + b.bytes, 0, q)
BytesOf(q) == [i \in DOMAIN q |-> q[i].bytes]
Buckets == [start : Nat, end : Nat, bytes : Nat]

LEMMA BytesHasRun ==
  ASSUME NEW q \in Seq(Buckets)
  PROVE  \E h : Runs(BytesOf(q), Len(q), h) /\ Bytes(q) = h[Len(q)]
<1> DEFINE n == Len(q)
           S == 1 .. n
           w == BytesOf(q)
           ch == [s \in SUBSET S |-> Max(s)]
           Equation(f) == f = [s \in SUBSET S |->
                                 IF s = {} THEN 0 ELSE f[s \ {Max(s)}] + q[Max(s)].bytes]
<1>1. /\ n \in Nat /\ DOMAIN q = S /\ IsFiniteSet(S) /\ w \in [S -> Int]
      /\ \A i \in S : w[i] = q[i].bytes
  <2>3. n \in Nat /\ DOMAIN q = S /\ \A i \in S : q[i] \in Buckets
    OBVIOUS
  <2>4. \A b \in Buckets : b.bytes \in Int
    BY DEF Buckets
  <2>1. n \in Nat /\ DOMAIN q = S /\ \A i \in S : q[i].bytes \in Int
    BY <2>3, <2>4
  <2>2. IsFiniteSet(S)
    BY <2>1, FS_Interval
  <2> QED BY <2>1, <2>2 DEF BytesOf
<1>2. \A s \in SUBSET S : s # {} =>
        ch[s] = Max(s) /\ ch[s] \in s /\ w[ch[s]] = q[Max(s)].bytes
  <2> SUFFICES ASSUME NEW s \in SUBSET S, s # {}
               PROVE  ch[s] = Max(s) /\ ch[s] \in s /\ w[ch[s]] = q[Max(s)].bytes
    OBVIOUS
  <2>1. ch[s] = Max(s)
    OBVIOUS
  <2>2. Max(s) \in s
    <3>1. n \in Nat /\ s \subseteq 0 .. n
      BY <1>1
    <3> HIDE DEF n, S
    <3> QED BY <3>1, LargestUpTo
  <2> HIDE DEF ch, w
  <2> QED BY <1>1, <2>1, <2>2
<1> HIDE DEF w, ch, n
<1>3. Picks(S, ch)
  BY <1>2 DEF Picks
<1>4. PICK g \in [SUBSET S -> Int] : Recurs(SUBSET S, w, ch, g)
  BY <1>1, <1>3, SumExists
<1>5. Equation(g)
  <2>1. ASSUME NEW s \in SUBSET S, s # {}
        PROVE  g[s] = g[s \ {Max(s)}] + q[Max(s)].bytes
    <3>1. g[s] = w[ch[s]] + g[s \ {ch[s]}]
      BY <1>4, <2>1 DEF Recurs
    <3>2. w[ch[s]] \in Int /\ g[s \ {ch[s]}] \in Int
      BY <1>1, <1>2, <2>1
    <3>3. g[s] = g[s \ {ch[s]}] + w[ch[s]]
      BY <3>1, <3>2
    <3>4. ch[s] = Max(s) /\ w[ch[s]] = q[Max(s)].bytes
      BY <1>2, <2>1
    <3> QED BY <3>3, <3>4
  <2>2. g[{}] = 0
    BY <1>4 DEF Recurs
  <2>3. \A s \in SUBSET S : g[s] = IF s = {} THEN 0 ELSE g[s \ {Max(s)}] + q[Max(s)].bytes
    BY <2>1, <2>2
  <2> QED BY <2>3
<1> DEFINE f == CHOOSE u : Equation(u)
<1>6. Equation(f)
  <2> HIDE DEF Equation
  <2> QED BY <1>5
<1>7. Bytes(q) = f[S]
  BY <1>1 DEF Bytes, FoldLeft, MapThenFoldSet
<1> HIDE DEF f
<1>8. Unfolds(S, w, ch, f)
  <2>1. ASSUME NEW s \in SUBSET S, s # {}
        PROVE  f[s] = f[s \ {ch[s]}] + w[ch[s]]
    <3>1. f[s] = f[s \ {Max(s)}] + q[Max(s)].bytes
      BY <1>6, <2>1
    <3>2. ch[s] = Max(s) /\ w[ch[s]] = q[Max(s)].bytes
      BY <1>2, <2>1
    <3> QED BY <3>1, <3>2
  <2>2. f[{}] = 0
    BY <1>6
  <2> QED BY <2>1, <2>2 DEF Unfolds
<1>9. Sums(S, w, f)
  BY <1>1, <1>3, <1>8, RecursSums
<1>10. PICK r : Runs(w, n, r) /\ r[n] = f[S]
  BY <1>1, <1>9, RunsExist
<1> QED BY <1>7, <1>10 DEF w, n

LEMMA BytesRun ==
  ASSUME NEW q \in Seq(Buckets), NEW h, Runs(BytesOf(q), Len(q), h)
  PROVE  Bytes(q) = h[Len(q)]
<1>1. PICK g : Runs(BytesOf(q), Len(q), g) /\ Bytes(q) = g[Len(q)]
  BY BytesHasRun
<1>2. Len(q) \in Nat
  OBVIOUS
<1> QED BY <1>1, <1>2, RunsAlike

LEMMA BytesNat ==
  ASSUME NEW q \in Seq(Buckets)
  PROVE  Bytes(q) \in Nat
<1>1. PICK h : Runs(BytesOf(q), Len(q), h) /\ Bytes(q) = h[Len(q)]
  BY BytesHasRun
<1> DEFINE T == {i \in 0 .. Len(q) : h[i] \in Nat}
<1>2. \A i \in 1 .. Len(q) : BytesOf(q)[i] \in Nat
  <2>1. \A i \in 1 .. Len(q) : q[i] \in Buckets /\ i \in DOMAIN q
    OBVIOUS
  <2> QED BY <2>1 DEF BytesOf, Buckets
<1>3. 0 \in T /\ \A i \in 1 .. Len(q) : i - 1 \in T => i \in T
  <2>1. ASSUME NEW i \in 1 .. Len(q), i - 1 \in T PROVE i \in T
    <3>1. h[i] = h[i - 1] + BytesOf(q)[i] /\ h[i - 1] \in Nat
      BY <1>1, <2>1 DEF Runs
    <3> QED BY <1>2, <3>1
  <2>2. h[0] = 0
    BY <1>1 DEF Runs
  <2> QED BY <2>1, <2>2
<1>4. Len(q) \in Nat
  OBVIOUS
<1>5. Len(q) \in T
  <2> HIDE DEF T
  <2>1. \A i \in 0 .. Len(q) : i \in T
    BY <1>3, <1>4, InductiveUpTo
  <2> QED BY <1>4, <2>1
<1> QED BY <1>1, <1>5

LEMMA BytesConcat ==
  ASSUME NEW p \in Seq(Buckets), NEW q \in Seq(Buckets)
  PROVE  p \o q \in Seq(Buckets) /\ Bytes(p \o q) = Bytes(p) + Bytes(q)
<1>1. PICK f : Runs(BytesOf(p), Len(p), f) /\ Bytes(p) = f[Len(p)]
  BY BytesHasRun
<1>2. PICK g : Runs(BytesOf(q), Len(q), g) /\ Bytes(q) = g[Len(q)]
  BY BytesHasRun
<1> DEFINE r == p \o q
           h == [i \in 0 .. Len(r) |-> IF i <= Len(p) THEN f[i] ELSE f[Len(p)] + g[i - Len(p)]]
<1>3. /\ r \in Seq(Buckets) /\ Len(r) = Len(p) + Len(q) /\ Len(p) \in Nat /\ Len(q) \in Nat
      /\ \A i \in 1 .. Len(r) : r[i] = IF i <= Len(p) THEN p[i] ELSE q[i - Len(p)]
  OBVIOUS
<1>4. /\ \A i \in 1 .. Len(p) : BytesOf(p)[i] = p[i].bytes /\ p[i].bytes \in Int
      /\ \A i \in 1 .. Len(q) : BytesOf(q)[i] = q[i].bytes /\ q[i].bytes \in Int
  <2>1. \A i \in 1 .. Len(p) : p[i] \in Buckets /\ i \in DOMAIN p
    OBVIOUS
  <2>2. \A i \in 1 .. Len(q) : q[i] \in Buckets /\ i \in DOMAIN q
    OBVIOUS
  <2> QED BY <2>1, <2>2 DEF BytesOf, Buckets
<1>5. \A i \in 0 .. Len(p) : f[i] \in Int
  BY <1>1, <1>3, <1>4, RunsInt
<1>6. \A i \in 0 .. Len(q) : g[i] \in Int
  BY <1>2, <1>3, <1>4, RunsInt
<1> HIDE DEF r
<1>7. \A i \in 1 .. Len(r) : BytesOf(r)[i] = r[i].bytes
  <2>1. DOMAIN r = 1 .. Len(r)
    BY <1>3
  <2> QED BY <2>1 DEF BytesOf
<1>8. ASSUME NEW i \in 1 .. Len(r)
      PROVE  h[i] = h[i - 1] + BytesOf(r)[i]
  <2>1. i \in 0 .. Len(r) /\ i - 1 \in 0 .. Len(r)
    BY <1>3
  <2>2. CASE i <= Len(p)
    <3>1. i \in 1 .. Len(p) /\ i - 1 <= Len(p)
      BY <1>3, <2>2
    <3>2. f[i] = f[i - 1] + p[i].bytes
      BY <1>1, <1>4, <3>1 DEF Runs
    <3>3. BytesOf(r)[i] = p[i].bytes
      BY <1>3, <1>7, <2>2
    <3>4. h[i] = f[i] /\ h[i - 1] = f[i - 1]
      BY <2>1, <2>2, <3>1
    <3> QED BY <3>2, <3>3, <3>4
  <2>3. CASE i = Len(p) + 1
    <3>1. 1 \in 1 .. Len(q)
      BY <1>3, <2>3
    <3>2. g[1] = g[1 - 1] + q[1].bytes /\ g[0] = 0 /\ 1 - 1 = 0
      BY <1>2, <1>4, <3>1 DEF Runs
    <3>3. BytesOf(r)[i] = q[1].bytes
      BY <1>3, <1>7, <2>3
    <3>4. h[i] = f[Len(p)] + g[1] /\ h[i - 1] = f[Len(p)]
      BY <1>3, <2>1, <2>3
    <3>5. g[1] = q[1].bytes
      BY <1>4, <3>1, <3>2
    <3> QED BY <3>3, <3>4, <3>5
  <2>4. CASE i > Len(p) + 1
    <3> DEFINE j == i - Len(p)
    <3>1. j \in 2 .. Len(q) /\ j - 1 \in 1 .. Len(q) /\ (i - 1) - Len(p) = j - 1
      BY <1>3, <2>4
    <3>2. g[j] = g[j - 1] + q[j].bytes
      BY <1>2, <1>4, <3>1 DEF Runs
    <3>3. BytesOf(r)[i] = q[j].bytes
      BY <1>3, <1>7, <2>4
    <3>4. h[i] = f[Len(p)] + g[j] /\ h[i - 1] = f[Len(p)] + g[j - 1]
      BY <1>3, <2>1, <2>4, <3>1
    <3>5. f[Len(p)] \in Int /\ g[j - 1] \in Int /\ q[j].bytes \in Int
      BY <1>3, <1>4, <1>5, <1>6, <3>1
    <3> HIDE DEF j, h
    <3> QED BY <3>2, <3>3, <3>4, <3>5
  <2> QED BY <1>3, <2>2, <2>3, <2>4
<1>9. h[0] = 0
  <2>1. 0 \in 0 .. Len(r) /\ 0 <= Len(p) /\ f[0] = 0
    BY <1>1, <1>3 DEF Runs
  <2> QED BY <2>1
<1>10. h[Len(r)] = f[Len(p)] + g[Len(q)]
  <2>1. CASE Len(q) = 0
    <3>1. Len(r) = Len(p) /\ g[Len(q)] = 0 /\ Len(r) \in 0 .. Len(r) /\ f[Len(p)] \in Int
      BY <1>2, <1>3, <1>5, <2>1 DEF Runs
    <3> QED BY <3>1
  <2>2. CASE Len(q) > 0
    <3>1. ~(Len(r) <= Len(p)) /\ Len(r) - Len(p) = Len(q) /\ Len(r) \in 0 .. Len(r)
      BY <1>3, <2>2
    <3> QED BY <3>1
  <2> QED BY <1>3, <2>1, <2>2
<1> HIDE DEF h
<1>11. Runs(BytesOf(r), Len(r), h)
  BY <1>8, <1>9 DEF Runs
<1>12. Bytes(r) = h[Len(r)]
  BY <1>3, <1>11, BytesRun
<1> QED BY <1>1, <1>2, <1>3, <1>10, <1>12 DEF r

LEMMA BytesSmall ==
  /\ Bytes(<<>>) = 0
  /\ \A b \in Buckets : Bytes(<<b>>) = b.bytes
<1>1. Bytes(<<>>) = 0
  <2>1. PICK h : Runs(BytesOf(<<>>), Len(<<>>), h) /\ Bytes(<<>>) = h[Len(<<>>)]
    <3>1. <<>> \in Seq(Buckets)
      OBVIOUS
    <3> QED BY <3>1, BytesHasRun
  <2>2. Len(<<>>) = 0
    OBVIOUS
  <2> QED BY <2>1, <2>2 DEF Runs
<1>2. ASSUME NEW b \in Buckets PROVE Bytes(<<b>>) = b.bytes
  <2> DEFINE q == <<b>>
  <2>1. q \in Seq(Buckets) /\ Len(q) = 1 /\ q[1] = b /\ 1 \in DOMAIN q
    OBVIOUS
  <2> HIDE DEF q
  <2>2. PICK h : Runs(BytesOf(q), Len(q), h) /\ Bytes(q) = h[Len(q)]
    BY <2>1, BytesHasRun
  <2>3. h[1] = h[0] + BytesOf(q)[1] /\ h[0] = 0
    <3>1. 1 \in 1 .. Len(q) /\ 1 - 1 = 0
      BY <2>1
    <3>2. h[1] = h[1 - 1] + BytesOf(q)[1]
      BY <2>2, <3>1 DEF Runs
    <3> QED BY <2>2, <3>1, <3>2 DEF Runs
  <2>4. BytesOf(q)[1] = b.bytes /\ b.bytes \in Int
    BY <2>1 DEF BytesOf, Buckets
  <2>5. Bytes(q) = b.bytes
    BY <2>1, <2>2, <2>3, <2>4
  <2> QED BY <2>5 DEF q
<1> QED BY <1>1, <1>2

(* Going on with the last bucket and dropping the first ones.              *)
LEMMA EndsOfSequence ==
  ASSUME NEW q \in Seq(Buckets), q # <<>>
  PROVE  /\ Front(q) \in Seq(Buckets) /\ Tail(q) \in Seq(Buckets)
         /\ Last(q) \in Buckets /\ q[1] \in Buckets
         /\ Len(q) \in Nat \ {0} /\ Len(Front(q)) = Len(q) - 1 /\ Len(Tail(q)) = Len(q) - 1
         /\ \A i \in 1 .. Len(q) - 1 : Front(q)[i] = q[i] /\ Tail(q)[i] = q[i + 1]
         /\ Last(q) = q[Len(q)]
         /\ q = Front(q) \o <<Last(q)>> /\ q = <<q[1]>> \o Tail(q)
<1>1. Len(q) \in Nat \ {0} /\ \A i \in 1 .. Len(q) : q[i] \in Buckets
  OBVIOUS
<1>2. /\ Front(q) \in Seq(Buckets) /\ Len(Front(q)) = Len(q) - 1
      /\ \A i \in 1 .. Len(q) - 1 : Front(q)[i] = q[i]
  <2> DEFINE n == Len(q) - 1
  <2>1. n \in Nat /\ Front(q) = SubSeq(q, 1, n) /\ \A i \in 1 .. n : i \in 1 .. Len(q)
    BY <1>1 DEF Front
  <2> HIDE DEF n
  <2>2. SubSeq(q, 1, n) \in Seq(Buckets) /\ Len(SubSeq(q, 1, n)) = n
    BY <1>1, <2>1
  <2>3. \A i \in 1 .. n : SubSeq(q, 1, n)[i] = q[i]
    BY <1>1, <2>1
  <2> QED BY <2>1, <2>2, <2>3 DEF n
<1>3. /\ Tail(q) \in Seq(Buckets) /\ Len(Tail(q)) = Len(q) - 1
      /\ \A i \in 1 .. Len(q) - 1 : Tail(q)[i] = q[i + 1]
  BY <1>1
<1>4. Last(q) = q[Len(q)] /\ Last(q) \in Buckets /\ q[1] \in Buckets
  BY <1>1 DEF Last
<1>5. q = Front(q) \o <<Last(q)>>
  BY <1>1, <1>2, <1>4
<1>6. q = <<q[1]>> \o Tail(q)
  BY <1>1, <1>3, <1>4
<1> QED BY <1>1, <1>2, <1>3, <1>4, <1>5, <1>6

LEMMA BucketGoesOn ==
  ASSUME NEW l \in Buckets, NEW p \in Buckets
  PROVE  /\ [l EXCEPT !.end = p.end, !.bytes = @ + p.bytes] \in Buckets
         /\ [l EXCEPT !.end = p.end, !.bytes = @ + p.bytes].bytes = l.bytes + p.bytes
<1>1. p.end \in Nat /\ p.bytes \in Nat /\ l.bytes \in Nat
  BY DEF Buckets
<1>2. DOMAIN l = {"start", "end", "bytes"}
  BY DEF Buckets
<1>3. \A e \in Nat : \A b \in Nat : [l EXCEPT !.end = e, !.bytes = b] \in Buckets
  BY DEF Buckets
<1>4. l.bytes + p.bytes \in Nat
  BY <1>1
<1> QED BY <1>1, <1>2, <1>3, <1>4

LEMMA SameSequence ==
  ASSUME NEW p \in Seq(Buckets), NEW q \in Seq(Buckets), Len(p) = Len(q),
         \A i \in 1 .. Len(q) : p[i] = q[i]
  PROVE  p = q
OBVIOUS

LEMMA BytesExtended ==
  ASSUME NEW q \in Seq(Buckets), NEW ps \in Seq(Buckets)
  PROVE  Extended(q, ps) \in Seq(Buckets) /\ Bytes(Extended(q, ps)) = Bytes(q) + Bytes(ps)
<1>1. CASE ps = <<>>
  BY <1>1, BytesSmall, BytesNat DEF Extended
<1>2. CASE ps # <<>> /\ ~Continues(q, ps[1])
  BY <1>2, BytesConcat DEF Extended
<1>3. CASE ps # <<>> /\ Continues(q, ps[1])
  <2>1. q # <<>>
    BY <1>3 DEF Continues
  <2> DEFINE b == [Last(q) EXCEPT !.end = ps[1].end, !.bytes = @ + ps[1].bytes]
  <2>2. /\ Front(q) \in Seq(Buckets) /\ Last(q) \in Buckets /\ q = Front(q) \o <<Last(q)>>
        /\ Tail(ps) \in Seq(Buckets) /\ ps[1] \in Buckets /\ ps = <<ps[1]>> \o Tail(ps)
    BY <1>3, <2>1, EndsOfSequence
  <2>3. b \in Buckets /\ b.bytes = Last(q).bytes + ps[1].bytes
    BY <2>2, BucketGoesOn
  <2>4. Extended(q, ps) = (Front(q) \o <<b>>) \o Tail(ps)
    BY <1>3 DEF Extended
  <2> HIDE DEF b
  <2>5. <<b>> \in Seq(Buckets) /\ <<Last(q)>> \in Seq(Buckets) /\ <<ps[1]>> \in Seq(Buckets)
    BY <2>2, <2>3
  <2>6. Front(q) \o <<b>> \in Seq(Buckets) /\ Bytes(Front(q) \o <<b>>) = Bytes(Front(q)) + Bytes(<<b>>)
    BY <2>2, <2>5, BytesConcat
  <2>7. /\ Extended(q, ps) \in Seq(Buckets)
        /\ Bytes(Extended(q, ps)) = Bytes(Front(q) \o <<b>>) + Bytes(Tail(ps))
    BY <2>2, <2>4, <2>6, BytesConcat
  <2>8. Bytes(q) = Bytes(Front(q)) + Bytes(<<Last(q)>>)
    BY <2>2, <2>5, BytesConcat
  <2>9. Bytes(ps) = Bytes(<<ps[1]>>) + Bytes(Tail(ps))
    BY <2>2, <2>5, BytesConcat
  <2>10. /\ Bytes(<<b>>) = b.bytes /\ Bytes(<<Last(q)>>) = Last(q).bytes
         /\ Bytes(<<ps[1]>>) = ps[1].bytes
    BY <2>2, <2>3, BytesSmall
  <2>11. /\ Bytes(Front(q)) \in Nat /\ Bytes(Tail(ps)) \in Nat
         /\ Last(q).bytes \in Nat /\ ps[1].bytes \in Nat
    BY <2>2, BytesNat DEF Buckets
  <2> QED BY <2>3, <2>6, <2>7, <2>8, <2>9, <2>10, <2>11
<1> QED BY <1>1, <1>2, <1>3

LEMMA BytesSuffix ==
  ASSUME NEW q \in Seq(Buckets), NEW i \in 1 .. Len(q)
  PROVE  SubSeq(q, i, Len(q)) \in Seq(Buckets) /\ Bytes(SubSeq(q, i, Len(q))) <= Bytes(q)
<1> DEFINE a == SubSeq(q, 1, i - 1)
           b == SubSeq(q, i, Len(q))
<1>1. Len(q) \in Nat /\ \A j \in 1 .. Len(q) : q[j] \in Buckets
  OBVIOUS
<1>2. a \in Seq(Buckets) /\ Len(a) = i - 1 /\ \A j \in 1 .. i - 1 : a[j] = q[j]
  BY <1>1
<1>3. /\ b \in Seq(Buckets) /\ Len(b) = Len(q) - i + 1
      /\ \A j \in 1 .. Len(q) - i + 1 : b[j] = q[j + i - 1]
  BY <1>1
<1> HIDE DEF a, b
<1>4. q = a \o b
  <2>1. Len(a \o b) = Len(q) /\ a \o b \in Seq(Buckets)
    BY <1>1, <1>2, <1>3
  <2>2. ASSUME NEW j \in 1 .. Len(q) PROVE (a \o b)[j] = q[j]
    <3>1. CASE j <= i - 1
      BY <1>1, <1>2, <1>3, <3>1
    <3>2. CASE j > i - 1
      <4> DEFINE k == j - (i - 1)
      <4>1. k \in 1 .. Len(q) - i + 1 /\ k + i - 1 = j
        BY <1>1, <3>2
      <4>2. (a \o b)[j] = b[k]
        BY <1>1, <1>2, <1>3, <3>2
      <4> HIDE DEF k
      <4>3. b[k] = q[k + i - 1]
        BY <1>3, <4>1
      <4> QED BY <4>1, <4>2, <4>3
    <3>3. j <= i - 1 \/ j > i - 1
      BY <1>1
    <3> QED BY <3>1, <3>2, <3>3
  <2> QED BY <2>1, <2>2, SameSequence
<1>5. Bytes(q) = Bytes(a) + Bytes(b) /\ Bytes(a) \in Nat /\ Bytes(b) \in Nat
  BY <1>2, <1>3, <1>4, BytesConcat, BytesNat
<1> QED BY <1>3, <1>5 DEF b

-----------------------------------------------------------------------------
(* The pieces of an interval hold no more than the interval.               *)
LEMMA ShareAdded ==
  ASSUME NEW v \in Nat, NEW w \in Nat \ {0}, NEW h \in Nat,
         NEW f \in Int, NEW s \in Int, NEW e \in Int, f <= s, s <= e,
         w * h <= v * (s - f)
  PROVE  /\ (v * (e - s)) \div w \in Nat
         /\ w * (h + (v * (e - s)) \div w) <= v * (e - f)
<1> DEFINE y == e - s
           z == s - f
           x == (v * y) \div w
<1>1. y \in Nat /\ z \in Nat /\ e - f = y + z
  OBVIOUS
<1>2. v * y \in Nat /\ v * z \in Nat
  BY <1>1
<1>3. v * (y + z) = v * y + v * z
  BY <1>1
<1>4. x \in Nat /\ w * x <= v * y
  <2> HIDE DEF y
  <2> DEFINE u == v * y
  <2>1. u \in Nat
    BY <1>2
  <2> HIDE DEF u
  <2>2. u \div w \in Nat /\ w * (u \div w) <= u
    BY <2>1, DivBounds, DivNat
  <2> QED BY <2>2 DEF u
<1> HIDE DEF x
<1>5. w * (h + x) = w * h + w * x
  BY <1>4
<1>6. w * h \in Nat /\ w * x \in Nat
  BY <1>4
<1>7. w * h <= v * z
  OBVIOUS
<1> HIDE DEF y, z
<1>8. w * (h + x) <= v * (y + z)
  BY <1>2, <1>3, <1>4, <1>5, <1>6, <1>7
<1>9. w * (h + x) <= v * (e - f)
  BY <1>1, <1>8
<1> QED BY <1>4, <1>9 DEF x, y

LEMMA QuotientBelow ==
  ASSUME NEW v \in Nat, NEW w \in Nat \ {0}, NEW h \in Nat, NEW y \in Nat, y <= w,
         w * h <= v * y
  PROVE  h <= v
<1>1. v * y <= v * w
  BY Z3
<1>2. w * h <= w * v
  <2>1. v * y \in Nat /\ v * w \in Nat /\ w * h \in Nat /\ v * w = w * v
    OBVIOUS
  <2> QED BY <1>1, <2>1
<1>3. ~(h >= v + 1)
  <2> SUFFICES ASSUME h >= v + 1 PROVE FALSE
    OBVIOUS
  <2>1. w * h >= w * (v + 1) /\ w * (v + 1) = w * v + w
    BY Z3
  <2>2. w * v \in Nat /\ w * h \in Nat
    OBVIOUS
  <2> QED BY <1>2, <2>1, <2>2
<1> QED BY <1>3

LEMMA Minutes ==
  ASSUME NEW f \in Nat, NEW n \in Nat, f < n, NEW b \in Nat \ {0}
  PROVE  /\ f \div b \in Nat /\ (n - 1) \div b \in Nat /\ f \div b <= (n - 1) \div b
         /\ \A k \in (f \div b) .. ((n - 1) \div b) :
              /\ k * b \in Nat /\ (k + 1) * b \in Nat /\ k * b < (k + 1) * b
              /\ k * b < n /\ f < (k + 1) * b
              /\ k > f \div b => k * b > f
              /\ k < (n - 1) \div b => (k + 1) * b < n
         /\ (f \div b) * b <= f /\ ((n - 1) \div b + 1) * b >= n
<1> DEFINE x == f \div b
           y == (n - 1) \div b
<1>1. n - 1 \in Nat /\ f <= n - 1
  OBVIOUS
<1>2. x \in Nat /\ b * x <= f /\ f < b * x + b
  BY DivBounds, DivNat
<1>3. y \in Nat /\ b * y <= n - 1 /\ n - 1 < b * y + b
  BY <1>1, DivBounds, DivNat
<1>4. x <= y
  BY <1>1, DivMonotone
<1> HIDE DEF x, y
<1>5. \A k \in Nat : k * b = b * k /\ (k + 1) * b = b * k + b /\ b * k \in Nat
  OBVIOUS
<1>6. \A j \in Nat : \A k \in Nat : j <= k => b * j <= b * k
  BY Z3
<1>7. ASSUME NEW k \in x .. y
      PROVE  /\ k * b \in Nat /\ (k + 1) * b \in Nat /\ k * b < (k + 1) * b
             /\ k * b < n /\ f < (k + 1) * b
             /\ k > x => k * b > f
             /\ k < y => (k + 1) * b < n
  <2>1. k \in Nat /\ k * b = b * k /\ (k + 1) * b = b * k + b /\ b * k \in Nat
    BY <1>2, <1>3, <1>5
  <2>2. b * x <= b * k /\ b * k <= b * y
    BY <1>2, <1>3, <1>6, <2>1
  <2>3. b * x \in Nat /\ b * y \in Nat
    BY <1>2, <1>3
  <2>4. k > x => k * b > f
    <3> SUFFICES ASSUME k > x PROVE k * b > f
      OBVIOUS
    <3>1. b * (x + 1) <= b * k
      BY <1>2, <1>6, <2>1
    <3>2. b * (x + 1) = b * x + b
      BY <1>2
    <3> QED BY <1>2, <2>1, <2>3, <3>1, <3>2
  <2>5. k < y => (k + 1) * b < n
    <3> SUFFICES ASSUME k < y PROVE (k + 1) * b < n
      OBVIOUS
    <3>1. b * (k + 1) <= b * y
      BY <1>3, <1>6, <2>1
    <3>2. b * (k + 1) = b * k + b
      BY <2>1
    <3> QED BY <1>3, <2>1, <2>3, <3>1, <3>2
  <2> QED BY <1>2, <1>3, <2>1, <2>2, <2>3, <2>4, <2>5
<1>8. x * b <= f /\ (y + 1) * b >= n
  BY <1>2, <1>3, <1>5
<1> QED BY <1>2, <1>3, <1>4, <1>7, <1>8 DEF x, y

LEMMA SpreadFromBounds ==
  ASSUME now \in Nat, NEW p, p.last \in Nat, p.last < now
  PROVE  SpreadFrom(p) \in Nat /\ p.last <= SpreadFrom(p) /\ SpreadFrom(p) < now
<1>1. Window \in Nat \ {0} /\ Extra \in Nat
  BY MeteringAssumption
<1>2. now - Window - Extra \in Int /\ now - Window - Extra < now /\ p.last \in Int
  BY <1>1
<1>3. SpreadFrom(p) = IF p.last >= now - Window - Extra THEN p.last ELSE now - Window - Extra
  BY <1>2, MaxOfTwo DEF SpreadFrom
<1> QED BY <1>2, <1>3

(* Pieces follow one another from the last sample, cut short, until now.   *)
LEMMA PiecesFollow ==
  ASSUME now \in Nat, NEW p, p.last \in Nat, p.last < now, NEW m,
         Delta(p.counters, m.counters) \in Nat
  PROVE  LET q == Pieces(p, m)
             v == Scale * Delta(p.counters, m.counters)
         IN /\ q \in Seq(Buckets) /\ Len(q) \in Nat \ {0}
            /\ q[1].start = SpreadFrom(p) /\ q[Len(q)].end = now
            /\ \A i \in 1 .. Len(q) :
                 /\ q[i].bytes = (v * (q[i].end - q[i].start)) \div (now - p.last)
                 /\ q[i].start < q[i].end /\ q[i].end <= now /\ q[i].start >= SpreadFrom(p)
                 /\ i > 1 => q[i].start = q[i - 1].end
<1> DEFINE v == Scale * Delta(p.counters, m.counters)
           f == SpreadFrom(p)
           x == f \div Bucket
           y == (now - 1) \div Bucket
           start(k) == Max({f, k * Bucket})
           end(k) == Min({now, (k + 1) * Bucket})
           n == y - x + 1
           q == Pieces(p, m)
           w == now - p.last
<1>1. f \in Nat /\ p.last <= f /\ f < now
  BY SpreadFromBounds
<1>2. Bucket \in Nat \ {0} /\ v \in Nat /\ w \in Nat \ {0}
  BY MeteringAssumption
<1>3. q = [i \in 1 .. n |->
             [start |-> start(x + i - 1), end |-> end(x + i - 1),
              bytes |-> (v * (end(x + i - 1) - start(x + i - 1))) \div w]]
  BY DEF Pieces
<1> HIDE DEF q, v, w, f
<1>4. /\ x \in Nat /\ y \in Nat /\ x <= y
      /\ \A k \in x .. y :
           /\ k * Bucket \in Nat /\ (k + 1) * Bucket \in Nat /\ k * Bucket < (k + 1) * Bucket
           /\ k * Bucket < now /\ f < (k + 1) * Bucket
           /\ k > x => k * Bucket > f
           /\ k < y => (k + 1) * Bucket < now
      /\ x * Bucket <= f /\ (y + 1) * Bucket >= now
  BY <1>1, <1>2, Minutes
<1> HIDE DEF x, y
<1>5. ASSUME NEW k \in x .. y
      PROVE  /\ start(k) = IF k = x THEN f ELSE k * Bucket
             /\ end(k) = IF k = y THEN now ELSE (k + 1) * Bucket
             /\ start(k) \in Nat /\ end(k) \in Nat
             /\ start(k) < end(k) /\ end(k) <= now /\ start(k) >= f
  <2>1. /\ k * Bucket \in Nat /\ (k + 1) * Bucket \in Nat /\ k * Bucket < (k + 1) * Bucket
        /\ k * Bucket < now /\ f < (k + 1) * Bucket
        /\ k > x => k * Bucket > f
        /\ k < y => (k + 1) * Bucket < now
    BY <1>4
  <2>2. start(k) = IF f >= k * Bucket THEN f ELSE k * Bucket
    BY <1>1, <2>1, MaxOfTwo
  <2>3. end(k) = IF now <= (k + 1) * Bucket THEN now ELSE (k + 1) * Bucket
    BY <2>1, MinOfTwo
  <2> HIDE DEF start, end
  <2>4. k \in Int /\ x <= k /\ k <= y /\ (k # x => k > x) /\ (k # y => k < y)
    BY <1>4
  <2>5. start(k) = IF k = x THEN f ELSE k * Bucket
    BY <1>1, <1>4, <2>1, <2>2, <2>4
  <2>6. end(k) = IF k = y THEN now ELSE (k + 1) * Bucket
    BY <1>1, <1>4, <2>1, <2>3, <2>4
  <2>7. start(k) \in Nat /\ end(k) \in Nat /\ start(k) < end(k) /\ end(k) <= now /\ start(k) >= f
    BY <1>1, <2>1, <2>2, <2>3
  <2> QED BY <2>5, <2>6, <2>7
<1> HIDE DEF start, end
<1>6. n \in Nat \ {0} /\ \A i \in 1 .. n : x + i - 1 \in x .. y
  BY <1>4
<1>7. \A i \in 1 .. n : start(x + i - 1) < end(x + i - 1) /\ end(x + i - 1) <= now
                        /\ start(x + i - 1) \in Nat /\ end(x + i - 1) \in Nat
                        /\ start(x + i - 1) >= f
  BY <1>5, <1>6
<1>8. ASSUME NEW i \in 1 .. n
      PROVE  (v * (end(x + i - 1) - start(x + i - 1))) \div w \in Nat
  <2> DEFINE d == end(x + i - 1) - start(x + i - 1)
  <2>1. d \in Nat
    BY <1>7
  <2> HIDE DEF d
  <2>2. v * d \in Nat
    BY <1>2, <2>1
  <2> DEFINE u == v * d
  <2> HIDE DEF u
  <2>3. u \in Nat => u \div w \in Nat
    BY <1>2, DivNat
  <2> QED BY <2>2, <2>3 DEF u, d
<1>9. Len(q) = n /\ DOMAIN q = 1 .. n
  <2> HIDE DEF n
  <2> QED BY <1>3, <1>6
<1>10. ASSUME NEW i \in 1 .. n
       PROVE  /\ q[i].start = start(x + i - 1) /\ q[i].end = end(x + i - 1)
              /\ q[i].bytes = (v * (end(x + i - 1) - start(x + i - 1))) \div w
              /\ q[i] \in Buckets
  <2> DEFINE b == (v * (end(x + i - 1) - start(x + i - 1))) \div w
             a == start(x + i - 1)
             e == end(x + i - 1)
  <2>1. q[i] = [start |-> a, end |-> e, bytes |-> b]
    BY <1>3
  <2>2. a \in Nat /\ e \in Nat /\ b \in Nat
    BY <1>7, <1>8
  <2> HIDE DEF a, e, b
  <2>3. q[i].start = a /\ q[i].end = e /\ q[i].bytes = b /\ q[i] \in Buckets
    BY <2>1, <2>2 DEF Buckets
  <2> QED BY <2>3 DEF a, e, b
<1>11. \A i \in 1 .. n : q[i] \in Buckets
  BY <1>10
<1>12. q \in Seq(Buckets)
  <2> HIDE DEF n
  <2> QED BY <1>3, <1>6, <1>9, <1>11
<1>13. ASSUME NEW i \in 1 .. n
       PROVE  /\ q[i].bytes = (v * (q[i].end - q[i].start)) \div w
              /\ q[i].start < q[i].end /\ q[i].end <= now /\ q[i].start >= f
  BY <1>7, <1>10
<1>14. ASSUME NEW i \in 1 .. n, i > 1
       PROVE  q[i].start = q[i - 1].end
  <2>1. i - 1 \in 1 .. n /\ x + i - 1 \in x .. y /\ x + i - 1 # x
        /\ x + (i - 1) - 1 \in x .. y /\ x + (i - 1) - 1 # y
        /\ (x + (i - 1) - 1) + 1 = x + i - 1
    BY <1>4, <1>6, <1>14
  <2>2. q[i].start = start(x + i - 1) /\ q[i - 1].end = end(x + (i - 1) - 1)
    BY <1>10, <2>1
  <2>3. start(x + i - 1) = (x + i - 1) * Bucket
    BY <1>5, <2>1
  <2>4. end(x + (i - 1) - 1) = ((x + (i - 1) - 1) + 1) * Bucket
    BY <1>5, <2>1
  <2> QED BY <2>1, <2>2, <2>3, <2>4
<1>15. q[1].start = f
  <2>1. 1 \in 1 .. n /\ x + 1 - 1 = x /\ x \in x .. y
    BY <1>4, <1>6
  <2> QED BY <1>5, <1>10, <2>1
<1>16. q[n].end = now
  <2>1. n \in 1 .. n /\ x + n - 1 = y /\ y \in x .. y
    BY <1>4, <1>6
  <2> HIDE DEF n
  <2> QED BY <1>5, <1>10, <2>1
<1> HIDE DEF n
<1> QED BY <1>6, <1>9, <1>12, <1>13, <1>14, <1>15, <1>16 DEF q, v, w, f

LEMMA PiecesHold ==
  ASSUME now \in Nat, NEW p, p.last \in Nat, p.last < now, NEW m,
         Delta(p.counters, m.counters) \in Nat
  PROVE  Bytes(Pieces(p, m)) <= Scale * Delta(p.counters, m.counters)
<1> DEFINE v == Scale * Delta(p.counters, m.counters)
           f == SpreadFrom(p)
           q == Pieces(p, m)
           w == now - p.last
<1>1. f \in Nat /\ p.last <= f /\ f < now
  BY SpreadFromBounds
<1>2. v \in Nat /\ w \in Nat \ {0}
  BY MeteringAssumption
<1>3. /\ q \in Seq(Buckets) /\ Len(q) \in Nat \ {0}
      /\ q[1].start = f /\ q[Len(q)].end = now
      /\ \A i \in 1 .. Len(q) :
           /\ q[i].bytes = (v * (q[i].end - q[i].start)) \div w
           /\ q[i].start < q[i].end /\ q[i].end <= now /\ q[i].start >= f
           /\ i > 1 => q[i].start = q[i - 1].end
  BY PiecesFollow
<1>4. now - f \in Nat /\ now - f <= w
  BY <1>1
<1> HIDE DEF v, f, q, w
<1>5. PICK h : Runs(BytesOf(q), Len(q), h) /\ Bytes(q) = h[Len(q)]
  BY <1>3, BytesHasRun
<1> DEFINE E(i) == IF i = 0 THEN f ELSE q[i].end
           T == {i \in 0 .. Len(q) : h[i] \in Nat /\ w * h[i] <= v * (E(i) - f)}
<1>6. 0 \in T
  <2>1. h[0] = 0 /\ E(0) - f = 0
    BY <1>1, <1>5 DEF Runs
  <2>2. w * 0 <= v * 0
    BY <1>2
  <2> QED BY <1>3, <2>1, <2>2
<1>7. ASSUME NEW i \in 1 .. Len(q), i - 1 \in T
      PROVE  i \in T
  <2>1. q[i] \in Buckets /\ i \in DOMAIN q
    BY <1>3
  <2>2. q[i].start \in Nat /\ q[i].end \in Nat
    BY <2>1 DEF Buckets
  <2>3. q[i].start = E(i - 1)
    BY <1>3
  <2>4. /\ h[i - 1] \in Nat /\ w * h[i - 1] <= v * (q[i].start - f)
    BY <1>7, <2>3
  <2>5. q[i].start < q[i].end /\ q[i].start >= f
    BY <1>3
  <2>6. h[i] = h[i - 1] + (v * (q[i].end - q[i].start)) \div w
    <3>1. h[i] = h[i - 1] + BytesOf(q)[i]
      BY <1>5 DEF Runs
    <3>2. BytesOf(q)[i] = q[i].bytes
      BY <2>1 DEF BytesOf
    <3> QED BY <1>3, <3>1, <3>2
  <2>7. /\ (v * (q[i].end - q[i].start)) \div w \in Nat
        /\ w * (h[i - 1] + (v * (q[i].end - q[i].start)) \div w) <= v * (q[i].end - f)
    <3> DEFINE a == q[i].start
               e == q[i].end
               k == h[i - 1]
    <3>1. a \in Int /\ e \in Int /\ f \in Int /\ k \in Nat /\ f <= a /\ a <= e
      BY <1>1, <2>2, <2>4, <2>5
    <3>2. w * k <= v * (a - f)
      BY <2>4
    <3> HIDE DEF a, e, k
    <3>3. (v * (e - a)) \div w \in Nat /\ w * (k + (v * (e - a)) \div w) <= v * (e - f)
      BY <1>2, <3>1, <3>2, ShareAdded
    <3> QED BY <3>3 DEF a, e, k
  <2>8. E(i) = q[i].end
    BY <1>3
  <2>9. h[i] \in Nat /\ w * h[i] <= v * (E(i) - f)
    BY <2>4, <2>6, <2>7, <2>8
  <2> QED BY <1>3, <2>9
<1>8. Len(q) \in T
  <2> HIDE DEF T
  <2>1. \A i \in 0 .. Len(q) : i \in T
    BY <1>3, <1>6, <1>7, InductiveUpTo
  <2> QED BY <1>3, <2>1
<1>9. h[Len(q)] \in Nat /\ w * h[Len(q)] <= v * (now - f)
  BY <1>3, <1>8
<1>10. h[Len(q)] <= v
  BY <1>2, <1>4, <1>9, QuotientBelow
<1> QED BY <1>5, <1>10 DEF v, q

-----------------------------------------------------------------------------
(* What each day gets of an interval, and how many days are kept.          *)
DailyOK(daily) ==
  /\ DOMAIN daily \subseteq Nat /\ IsFiniteSet(DOMAIN daily)
  /\ \A d \in DOMAIN daily : daily[d] \in Nat

LEMMA SmallestOf ==
  ASSUME NEW T, T \subseteq Nat, T # {}
  PROVE  Min(T) \in T /\ \A y \in T : Min(T) <= y
<1>1. \E x \in T : \A y \in T : x <= y
  BY SmallestNat
<1> QED BY <1>1 DEF Min

LEMMA DailyBytesNat ==
  ASSUME NEW prev \in Metrics, NEW next \in Metrics
  PROVE  DailyBytes(prev, next) \in Nat
<1>1. prev.counters \in Counters /\ next.counters \in Counters
  BY DEF Metrics, Counters
<1>2. Total(prev.counters) \in Nat /\ Total(next.counters) \in Nat
  BY <1>1, TotalBounds
<1>3. DeltaValid(prev.counters, next.counters) => Total(prev.counters) <= Total(next.counters)
  BY <1>1, TotalGrows DEF DeltaValid
<1>4. Total(next.counters) >= Total(prev.counters) => Delta(prev.counters, next.counters) \in Nat
  BY <1>2 DEF Delta
<1>5. DeltaValid(prev.counters, next.counters) => Delta(prev.counters, next.counters) \in Nat
  BY <1>2, <1>3 DEF Delta
<1> HIDE DEF DeltaValid
<1> QED BY <1>4, <1>5 DEF DailyBytes

LEMMA ShareMonotone ==
  ASSUME NEW v \in Nat, NEW from \in Nat, NEW to \in Nat, from < to,
         NEW s \in Nat, NEW t \in Nat, s <= t
  PROVE  /\ Share(v, from, to, s) \in Int /\ Share(v, from, to, t) \in Int
         /\ Share(v, from, to, s) <= Share(v, from, to, t)
<1> DEFINE x == s - from
           y == t - from
           w == to - from
<1>1. x \in Int /\ y \in Int /\ x <= y /\ w \in Nat \ {0}
  OBVIOUS
<1> HIDE DEF x, y, w
<1>2. v * x \in Int /\ v * y \in Int /\ v * x <= v * y
  <2>1. v * x \in Int /\ v * y \in Int
    BY <1>1
  <2>2. v * x <= v * y
    BY <1>1, Z3
  <2> QED BY <2>1, <2>2
<1> DEFINE a == v * x
           b == v * y
<1> HIDE DEF a, b
<1>3. a \in Int /\ b \in Int /\ a <= b => a \div w \in Int /\ b \div w \in Int /\ a \div w <= b \div w
  BY <1>1, DivBounds, DivMonotone
<1> QED BY <1>2, <1>3 DEF Share, x, y, w, a, b

LEMMA OfDayNat ==
  ASSUME NEW v \in Nat, NEW prev \in Metrics, NEW next \in Metrics, prev.at < next.at,
         NEW d \in DatesBetween(prev, next)
  PROVE  d \in Nat /\ OfDay(d, v, prev, next) \in Nat
<1>1. prev.at \in Nat /\ next.at \in Nat /\ Day \in Nat \ {0} /\ Retain \in Nat \ {0}
  BY MeteringAssumption DEF Metrics
<1> DEFINE f == prev.at
           n == next.at
<1>2. f \in Nat /\ n \in Nat /\ f < n
  BY <1>1
<1>3. DateOf(f) \in Nat /\ DateOf(n) \in Int /\ DateOf(n - 1) \in Nat
      /\ DateOf(f) = f \div Day /\ DateOf(n - 1) = (n - 1) \div Day
  <2>1. f \in Nat /\ n \in Nat /\ n - 1 \in Nat
    BY <1>2
  <2> HIDE DEF f, n
  <2>2. \A t \in Nat : t \div Day \in Nat
    BY <1>1, DivNat
  <2> QED BY <2>1, <2>2 DEF DateOf
<1>4. d \in (f \div Day) .. ((n - 1) \div Day)
  <2> DEFINE r == DateOf(n) - (Retain - 1)
  <2>1. r \in Int
    BY <1>1, <1>3
  <2>2. d \in Max({DateOf(f), r}) .. DateOf(n - 1)
    BY DEF DatesBetween
  <2> HIDE DEF r
  <2>3. Max({DateOf(f), r}) = IF DateOf(f) >= r THEN DateOf(f) ELSE r
    BY <1>3, <2>1, MaxOfTwo
  <2> QED BY <1>3, <2>1, <2>2, <2>3
<1> HIDE DEF f, n
<1>5. d \in Nat /\ d * Day \in Nat /\ (d + 1) * Day \in Nat /\ d * Day < (d + 1) * Day
      /\ d * Day < n /\ f < (d + 1) * Day
  <2>1. f \div Day \in Nat
    BY <1>3
  <2> QED BY <1>1, <1>2, <1>4, <2>1, Minutes
<1> DEFINE s == Max({d * Day, f})
           t == Min({(d + 1) * Day, n})
<1>6. s \in Nat /\ t \in Nat /\ s <= t
  <2>1. s = IF d * Day >= f THEN d * Day ELSE f
    BY <1>2, <1>5, MaxOfTwo
  <2>2. t = IF (d + 1) * Day <= n THEN (d + 1) * Day ELSE n
    BY <1>2, <1>5, MinOfTwo
  <2> HIDE DEF s, t
  <2> QED BY <1>2, <1>5, <2>1, <2>2
<1> HIDE DEF s, t
<1>7. /\ Share(v, f, n, s) \in Int /\ Share(v, f, n, t) \in Int
      /\ Share(v, f, n, s) <= Share(v, f, n, t)
  BY <1>2, <1>6, ShareMonotone
<1>8. OfDay(d, v, prev, next) = Share(v, f, n, t) - Share(v, f, n, s)
  BY DEF OfDay, s, t, f, n
<1> QED BY <1>5, <1>7, <1>8

LEMMA AddDailyOK ==
  ASSUME NEW daily, DailyOK(daily), NEW prev, NEW next \in Metrics,
         prev # Nothing => prev \in Metrics /\ prev.at < next.at
  PROVE  DailyOK(AddDailyTraffic(daily, prev, next))
<1>1. CASE prev = Nothing \/ DailyBytes(prev, next) = 0
  BY <1>1 DEF AddDailyTraffic
<1>2. CASE ~(prev = Nothing \/ DailyBytes(prev, next) = 0)
  <2> DEFINE v == DailyBytes(prev, next)
             dates == DatesBetween(prev, next)
             new == [d \in DOMAIN daily \cup dates |->
                       OnDate(daily, d) + IF d \in dates THEN OfDay(d, v, prev, next) ELSE 0]
  <2>1. prev \in Metrics /\ prev.at < next.at /\ v \in Nat
    BY <1>2, DailyBytesNat
  <2>2. AddDailyTraffic(daily, prev, next) = new
    BY <1>2 DEF AddDailyTraffic
  <2> HIDE DEF v
  <2>3. \A d \in dates : d \in Nat /\ OfDay(d, v, prev, next) \in Nat
    BY <2>1, OfDayNat
  <2>4. IsFiniteSet(dates)
    <3> DEFINE a == Max({DateOf(prev.at), DateOf(next.at) - (Retain - 1)})
               b == DateOf(next.at - 1)
    <3>1. a \in Int /\ b \in Int
      <4>1. prev.at \in Nat /\ next.at \in Nat /\ Day \in Nat \ {0} /\ Retain \in Nat
        BY <2>1, MeteringAssumption DEF Metrics
      <4>2. DateOf(prev.at) \in Int /\ DateOf(next.at) \in Int /\ b \in Int
        BY <4>1, DivBounds DEF DateOf
      <4>3. DateOf(next.at) - (Retain - 1) \in Int
        BY <4>1, <4>2
      <4>4. a \in {DateOf(prev.at), DateOf(next.at) - (Retain - 1)}
        BY <4>2, <4>3, MaxOfTwo
      <4> QED BY <4>2, <4>3, <4>4
    <3>2. dates = a .. b
      BY DEF DatesBetween
    <3> QED BY <3>1, <3>2, FS_Interval
  <2> HIDE DEF dates
  <2>5. \A d \in DOMAIN daily \cup dates : OnDate(daily, d) \in Nat
    BY DEF OnDate, DailyOK
  <2>6. \A d \in DOMAIN daily \cup dates : new[d] \in Nat
    BY <2>3, <2>5
  <2>7. DOMAIN new = DOMAIN daily \cup dates
    OBVIOUS
  <2> HIDE DEF new
  <2>8. IsFiniteSet(DOMAIN daily \cup dates) /\ DOMAIN daily \cup dates \subseteq Nat
    BY <2>3, <2>4, FS_Union DEF DailyOK
  <2> QED BY <2>2, <2>6, <2>7, <2>8 DEF DailyOK
<1> QED BY <1>1, <1>2

LEMMA PruneDailyOK ==
  ASSUME NEW daily, DailyOK(daily)
  PROVE  DailyOK(PruneDaily(daily)) /\ Cardinality(DOMAIN PruneDaily(daily)) <= Retain
<1> DEFINE D == DOMAIN daily
           later(e) == {f \in D : f > e}
           K == {e \in D : Cardinality(later(e)) < Retain}
<1>1. D \subseteq Nat /\ IsFiniteSet(D) /\ \A d \in D : daily[d] \in Nat
  BY DEF DailyOK
<1>2. Retain \in Nat \ {0}
  BY MeteringAssumption
<1>3. PruneDaily(daily) = [d \in K |-> daily[d]]
  BY DEF PruneDaily
<1>4. K \subseteq D /\ IsFiniteSet(K)
  <2>1. K \subseteq D
    OBVIOUS
  <2> QED BY <1>1, <2>1, FS_Subset
<1>5. Cardinality(K) <= Retain
  <2>1. CASE K = {}
    <3> HIDE DEF K
    <3>1. Cardinality(K) = 0
      BY <2>1, FS_EmptySet
    <3> QED BY <1>2, <3>1
  <2>2. CASE K # {}
    <3>1. PICK m \in K : \A y \in K : m <= y
      <4>1. K \subseteq Nat
        BY <1>1, <1>4
      <4> HIDE DEF K
      <4> QED BY <2>2, <4>1, SmallestNat
    <3>2. IsFiniteSet(later(m)) /\ Cardinality(later(m)) \in Nat /\ Cardinality(later(m)) < Retain
      <4>1. later(m) \subseteq D
        OBVIOUS
      <4>2. IsFiniteSet(later(m)) /\ Cardinality(later(m)) \in Nat
        BY <1>1, <4>1, FS_Subset, FS_CardinalityType
      <4> QED BY <3>1, <4>2
    <3>3. K \subseteq later(m) \cup {m}
      <4>1. ASSUME NEW y \in K PROVE y = m \/ y > m
        <5>1. y \in Nat /\ m \in Nat /\ m <= y
          BY <1>1, <3>1
        <5> QED BY <5>1
      <4> QED BY <4>1
    <3>4. IsFiniteSet(later(m) \cup {m}) /\ Cardinality(later(m) \cup {m}) <= Cardinality(later(m)) + 1
      <4> DEFINE L == later(m)
      <4>1. IsFiniteSet(L) /\ Cardinality(L) \in Nat
        BY <3>2
      <4> HIDE DEF L
      <4>2. /\ IsFiniteSet(L \cup {m})
            /\ Cardinality(L \cup {m}) = IF m \in L THEN Cardinality(L) ELSE Cardinality(L) + 1
        BY <4>1, FS_AddElement
      <4>3. Cardinality(L \cup {m}) <= Cardinality(L) + 1
        BY <4>1, <4>2
      <4> QED BY <4>2, <4>3 DEF L
    <3>5. Cardinality(K) <= Cardinality(later(m) \cup {m}) /\ Cardinality(K) \in Nat
          /\ Cardinality(later(m) \cup {m}) \in Nat
      <4> HIDE DEF K, later
      <4> QED BY <1>4, <3>3, <3>4, FS_Subset, FS_CardinalityType
    <3> HIDE DEF K, later
    <3> QED BY <1>2, <3>2, <3>4, <3>5
  <2> QED BY <2>1, <2>2
<1> HIDE DEF K
<1>6. DOMAIN PruneDaily(daily) = K /\ \A d \in K : PruneDaily(daily)[d] = daily[d]
  BY <1>3
<1>7. DailyOK(PruneDaily(daily))
  BY <1>1, <1>4, <1>6 DEF DailyOK
<1> QED BY <1>5, <1>6, <1>7

-----------------------------------------------------------------------------
(* The buckets of a history follow one another.                            *)
Follow(q, t) ==
  \A i \in 1 .. Len(q) : /\ q[i].start < q[i].end /\ q[i].end <= t
                         /\ i > 1 => q[i - 1].end <= q[i].start

LEMMA FollowConcat ==
  ASSUME NEW t \in Nat, NEW p \in Seq(Buckets), Follow(p, t),
         NEW q \in Seq(Buckets), Follow(q, t),
         p # <<>> /\ q # <<>> => p[Len(p)].end <= q[1].start
  PROVE  Follow(p \o q, t)
<1> DEFINE r == p \o q
<1>1. /\ Len(p) \in Nat /\ Len(q) \in Nat /\ Len(r) = Len(p) + Len(q)
      /\ \A i \in 1 .. Len(r) : r[i] = IF i <= Len(p) THEN p[i] ELSE q[i - Len(p)]
  OBVIOUS
<1> HIDE DEF r
<1>2. ASSUME NEW i \in 1 .. Len(r)
      PROVE  /\ r[i].start < r[i].end /\ r[i].end <= t
             /\ i > 1 => r[i - 1].end <= r[i].start
  <2>1. CASE i <= Len(p)
    <3>1. i \in 1 .. Len(p) /\ r[i] = p[i]
      BY <1>1, <2>1
    <3>2. i > 1 => r[i - 1] = p[i - 1]
      BY <1>1, <2>1
    <3> QED BY <3>1, <3>2 DEF Follow
  <2>2. CASE i = Len(p) + 1
    <3>1. 1 \in 1 .. Len(q) /\ r[i] = q[1] /\ q # <<>>
      BY <1>1, <2>2
    <3>2. i > 1 => r[i - 1] = p[Len(p)] /\ p # <<>>
      BY <1>1, <2>2
    <3> QED BY <3>1, <3>2 DEF Follow
  <2>3. CASE i > Len(p) + 1
    <3> DEFINE j == i - Len(p)
    <3>1. j \in 1 .. Len(q) /\ j > 1 /\ r[i] = q[j]
      BY <1>1, <2>3
    <3>2. i - 1 \in 1 .. Len(r) /\ ~(i - 1 <= Len(p)) /\ (i - 1) - Len(p) = j - 1
      BY <1>1, <2>3
    <3>3. r[i - 1] = q[j - 1]
      BY <1>1, <3>2
    <3> HIDE DEF j
    <3> QED BY <3>1, <3>3 DEF Follow
  <2> QED BY <1>1, <2>1, <2>2, <2>3
<1> QED BY <1>2 DEF Follow, r

LEMMA FollowLater ==
  ASSUME NEW q \in Seq(Buckets), NEW s \in Int, NEW t \in Int, s <= t, Follow(q, s)
  PROVE  Follow(q, t)
<1>1. ASSUME NEW i \in 1 .. Len(q) PROVE q[i].end \in Nat
  <2>1. q[i] \in Buckets
    OBVIOUS
  <2> QED BY <2>1 DEF Buckets
<1> QED BY <1>1 DEF Follow

LEMMA FollowExtended ==
  ASSUME NEW t \in Nat, NEW q \in Seq(Buckets), Follow(q, t),
         NEW ps \in Seq(Buckets), Follow(ps, t),
         q # <<>> /\ ps # <<>> => q[Len(q)].end <= ps[1].start
  PROVE  Follow(Extended(q, ps), t)
<1>1. CASE ps = <<>>
  BY <1>1 DEF Extended
<1>2. CASE ps # <<>> /\ ~Continues(q, ps[1])
  BY <1>2, FollowConcat DEF Extended
<1>3. CASE ps # <<>> /\ Continues(q, ps[1])
  <2>1. q # <<>> /\ Last(q).end = ps[1].start
    BY <1>3 DEF Continues
  <2> DEFINE b == [Last(q) EXCEPT !.end = ps[1].end, !.bytes = @ + ps[1].bytes]
             n == Len(q)
             k == Len(ps)
             f == Front(q)
             r == Tail(ps)
  <2>2. /\ f \in Seq(Buckets) /\ Last(q) \in Buckets /\ Last(q) = q[n]
        /\ n \in Nat \ {0} /\ Len(f) = n - 1
        /\ \A i \in 1 .. n - 1 : f[i] = q[i]
    BY <2>1, EndsOfSequence
  <2>3. /\ r \in Seq(Buckets) /\ ps[1] \in Buckets /\ k \in Nat \ {0} /\ Len(r) = k - 1
        /\ \A i \in 1 .. k - 1 : r[i] = ps[i + 1]
    BY <1>3, EndsOfSequence
  <2>4. b \in Buckets
    BY <2>2, <2>3, BucketGoesOn
  <2>5. b.start = Last(q).start /\ b.end = ps[1].end
    <3>1. DOMAIN Last(q) = {"start", "end", "bytes"}
      BY <2>2 DEF Buckets
    <3> QED BY <3>1
  <2>6. Extended(q, ps) = (f \o <<b>>) \o r
    BY <1>3 DEF Extended
  <2> HIDE DEF b, f, r
  <2>7. Follow(f, t)
    <3> HIDE DEF n
    <3>1. \A i \in 1 .. n - 1 : i \in 1 .. n /\ f[i] = q[i] /\ (i > 1 => i - 1 \in 1 .. n - 1)
      BY <2>2
    <3>3. ASSUME NEW i \in 1 .. n - 1
          PROVE  /\ f[i].start < f[i].end /\ f[i].end <= t
                 /\ i > 1 => f[i - 1].end <= f[i].start
      <4>1. f[i] = q[i] /\ (i > 1 => f[i - 1] = q[i - 1])
        BY <2>2, <3>1
      <4>2. q[i].start < q[i].end /\ q[i].end <= t /\ (i > 1 => q[i - 1].end <= q[i].start)
        <5>1. i \in 1 .. Len(q)
          BY <3>1 DEF n
        <5> QED BY <5>1 DEF Follow
      <4>3. f[i].start < f[i].end /\ f[i].end <= t
        BY <4>1, <4>2
      <4>4. ASSUME i > 1 PROVE f[i - 1].end <= f[i].start
        <5>1. q[i - 1].end <= q[i].start /\ f[i] = q[i] /\ f[i - 1] = q[i - 1]
          BY <4>1, <4>2, <4>4
        <5> QED BY <5>1
      <4> QED BY <4>3, <4>4
    <3> QED BY <2>2, <3>3 DEF Follow
  <2>8. Follow(r, t)
    <3>1. ASSUME NEW i \in 1 .. k - 1
          PROVE  /\ r[i].start < r[i].end /\ r[i].end <= t
                 /\ i > 1 => r[i - 1].end <= r[i].start
      <4>1. i + 1 \in 1 .. k /\ i + 1 > 1 /\ (i + 1) - 1 = i /\ r[i] = ps[i + 1]
        BY <2>3
      <4>2. i > 1 => r[i - 1] = ps[i]
        BY <2>3
      <4> QED BY <4>1, <4>2 DEF Follow
    <3> QED BY <2>3, <3>1 DEF Follow
  <2>9. <<b>> \in Seq(Buckets) /\ Len(<<b>>) = 1 /\ <<b>>[1] = b /\ <<b>> # <<>>
    BY <2>4
  <2>10. Last(q).start < Last(q).end /\ ps[1].start < ps[1].end /\ ps[1].end <= t
    <3>1. n \in 1 .. n /\ 1 \in 1 .. k
      BY <2>2, <2>3
    <3> QED BY <2>2, <3>1 DEF Follow
  <2>11. b.start < b.end /\ b.end <= t
    <3>1. {Last(q).start, Last(q).end, ps[1].start, ps[1].end} \subseteq Nat
      BY <2>2, <2>3 DEF Buckets
    <3> QED BY <2>1, <2>5, <2>10, <3>1
  <2>12. Follow(<<b>>, t)
    <3>1. \A i \in 1 .. 1 : i = 1 /\ ~(i > 1)
      OBVIOUS
    <3> QED BY <2>9, <2>11, <3>1 DEF Follow
  <2>13. f # <<>> => f[Len(f)].end <= b.start
    <3> SUFFICES ASSUME f # <<>> PROVE f[Len(f)].end <= b.start
      OBVIOUS
    <3>1. Len(f) # 0
      BY <2>2
    <3>2. n \in 1 .. n /\ n > 1 /\ n - 1 \in 1 .. n - 1
      BY <2>2, <3>1
    <3>3. q[n - 1].end <= q[n].start
      BY <3>2 DEF Follow
    <3> QED BY <2>2, <2>5, <3>2, <3>3
  <2>14. f \o <<b>> \in Seq(Buckets) /\ Follow(f \o <<b>>, t)
    <3>1. f # <<>> /\ <<b>> # <<>> => f[Len(f)].end <= <<b>>[1].start
      BY <2>9, <2>13
    <3>2. f \o <<b>> \in Seq(Buckets)
      BY <2>2, <2>9
    <3> QED BY <2>2, <2>7, <2>9, <2>12, <3>1, <3>2, FollowConcat
  <2>15. Len(f \o <<b>>) = n /\ (f \o <<b>>)[n] = b
    BY <2>2, <2>4
  <2>16. r # <<>> => b.end <= r[1].start
    <3> SUFFICES ASSUME r # <<>> PROVE b.end <= r[1].start
      OBVIOUS
    <3>1. Len(r) # 0
      BY <2>3
    <3>2. 2 \in 1 .. k /\ 2 - 1 = 1 /\ 1 \in 1 .. k - 1 /\ 1 + 1 = 2
      BY <2>3, <3>1
    <3>3. ps[1].end <= ps[2].start
      BY <3>2 DEF Follow
    <3>4. r[1] = ps[2]
      BY <2>3, <3>2
    <3> QED BY <2>5, <3>3, <3>4
  <2> DEFINE g == f \o <<b>>
  <2>17. g \in Seq(Buckets) /\ Follow(g, t) /\ g[Len(g)] = b
    BY <2>14, <2>15
  <2> HIDE DEF g
  <2>18. Follow(g \o r, t)
    BY <2>3, <2>8, <2>16, <2>17, FollowConcat
  <2> QED BY <2>6, <2>18 DEF g
<1> QED BY <1>1, <1>2, <1>3

LEMMA FollowSuffix ==
  ASSUME NEW q \in Seq(Buckets), NEW t, Follow(q, t), NEW i \in 1 .. Len(q)
  PROVE  Follow(SubSeq(q, i, Len(q)), t)
<1> DEFINE b == SubSeq(q, i, Len(q))
           n == Len(q) - i + 1
<1>1. /\ Len(q) \in Nat /\ i \in Nat /\ Len(b) = n /\ n \in Nat
      /\ \A j \in 1 .. n : b[j] = q[j + i - 1]
  OBVIOUS
<1>2. \A j \in 1 .. n : j + i - 1 \in 1 .. Len(q) /\ (j > 1 => j - 1 \in 1 .. n /\ (j - 1) + i - 1 = (j + i - 1) - 1
                          /\ j + i - 1 > 1)
  BY <1>1
<1> HIDE DEF b, n
<1>3. ASSUME NEW j \in 1 .. n
      PROVE  /\ b[j].start < b[j].end /\ b[j].end <= t
             /\ j > 1 => b[j - 1].end <= b[j].start
  <2>1. b[j] = q[j + i - 1] /\ j + i - 1 \in 1 .. Len(q)
    BY <1>1, <1>2
  <2>2. j > 1 => b[j - 1] = q[(j + i - 1) - 1] /\ j + i - 1 > 1
    BY <1>1, <1>2
  <2> DEFINE k == j + i - 1
  <2> HIDE DEF k
  <2>3. k \in 1 .. Len(q) => q[k].start < q[k].end /\ q[k].end <= t /\ (k > 1 => q[k - 1].end <= q[k].start)
    BY DEF Follow
  <2> QED BY <2>1, <2>2, <2>3 DEF k
<1> QED BY <1>1, <1>3 DEF Follow, b

-----------------------------------------------------------------------------
(* Types, by induction over the steps.                                     *)
Nodes == [boot : Nat, source : {PhysicalNIC, Legacy}, counters : Counters, whole : BOOLEAN]

Histories ==
  [first : Nat, last : Nat, gap : Nat, boot : Nat, counters : Counters,
   metric : Nat, buckets : Seq(Buckets), since : Nat]

StoreFits(s, t) ==
  /\ DOMAIN s = {"latest", "contact", "daily", "known"}
  /\ s.latest \in Metrics \cup {Nothing}
  /\ s.contact \in (0 .. t) \cup {Nothing}
  /\ DailyOK(s.daily) /\ Cardinality(DOMAIN s.daily) <= Retain

HistoryFits(p, t) ==
  p # Nothing => /\ p \in Histories
                 /\ p.first <= p.gap /\ p.gap <= p.last /\ p.last <= t
                 /\ Follow(p.buckets, p.last)

LEMMA NewHistoryFits ==
  ASSUME now \in Nat, NEW m \in Metrics
  PROVE  HistoryFits(NewHistory(m), now) /\ NewHistory(m) \in Histories
<1>1. m.boot \in Nat /\ m.at \in Nat /\ m.counters \in Counters
  BY DEF Metrics, Counters
<1>2. <<>> \in Seq(Buckets) /\ Follow(<<>>, now)
  BY DEF Follow
<1>3. NewHistory(m) \in Histories
  BY <1>1, <1>2 DEF NewHistory, Histories
<1>4. /\ NewHistory(m).first = now /\ NewHistory(m).gap = now /\ NewHistory(m).last = now
      /\ NewHistory(m).buckets = <<>>
  BY DEF NewHistory
<1> QED BY <1>2, <1>3, <1>4 DEF HistoryFits

(* What an advance does to each part of a history.                         *)
LEMMA AdvancedParts ==
  ASSUME NEW p \in Histories, NEW m
  PROVE  /\ Advanced(p, m).first = p.first /\ Advanced(p, m).since = p.since
         /\ Advanced(p, m).last = now /\ Advanced(p, m).metric = m.at
         /\ Advanced(p, m).boot = m.boot /\ Advanced(p, m).counters = m.counters
         /\ Advanced(p, m).gap = (IF WasReset(p, m) \/ Interrupted(p) THEN now ELSE p.gap)
         /\ Advanced(p, m).buckets = (IF WasReset(p, m) THEN p.buckets
                                      ELSE Extended(p.buckets, Pieces(p, m)))
         /\ DOMAIN Advanced(p, m) = DOMAIN p
<1>1. DOMAIN p = {"first", "last", "gap", "boot", "counters", "metric", "buckets", "since"}
  BY DEF Histories
<1> QED BY <1>1 DEF Advanced

LEMMA HistoryMade ==
  ASSUME NEW p, p.first \in Nat, p.last \in Nat, p.gap \in Nat, p.boot \in Nat,
         p.counters \in Counters, p.metric \in Nat, p.buckets \in Seq(Buckets), p.since \in Nat,
         p = [first |-> p.first, last |-> p.last, gap |-> p.gap, boot |-> p.boot,
              counters |-> p.counters, metric |-> p.metric, buckets |-> p.buckets,
              since |-> p.since]
  PROVE  p \in Histories
BY DEF Histories

LEMMA AdvancedMade ==
  ASSUME now \in Nat, NEW p \in Histories, NEW m \in Metrics, 
         WasReset(p, m) \/ Extended(p.buckets, Pieces(p, m)) \in Seq(Buckets)
  PROVE  Advanced(p, m) \in Histories
<1> DEFINE g == IF WasReset(p, m) \/ Interrupted(p) THEN now ELSE p.gap
           b == IF WasReset(p, m) THEN p.buckets ELSE Extended(p.buckets, Pieces(p, m))
<1>1. p.gap \in Nat /\ p.buckets \in Seq(Buckets)
  BY DEF Histories
<1>2. g \in Nat /\ b \in Seq(Buckets) /\ m.boot \in Nat /\ m.counters \in Counters /\ m.at \in Nat
  BY <1>1 DEF Metrics, Counters
<1>3. Advanced(p, m) = [p EXCEPT !.gap = g, !.buckets = b, !.boot = m.boot,
                                 !.counters = m.counters, !.last = now, !.metric = m.at]
  BY DEF Advanced
<1> HIDE DEF g, b
<1>4. [p EXCEPT !.gap = g, !.buckets = b, !.boot = m.boot,
                !.counters = m.counters, !.last = now, !.metric = m.at] \in Histories
  BY <1>2 DEF Histories
<1> QED BY <1>3, <1>4

LEMMA NoReset ==
  ASSUME NEW p \in Histories, NEW m \in Metrics, ~WasReset(p, m)
  PROVE  Delta(p.counters, m.counters) \in Nat
<1>1. p.counters \in Counters /\ m.counters \in Counters
  BY DEF Histories, Metrics, Counters
<1>2. Total(p.counters) \in Nat /\ Total(m.counters) \in Nat
  BY <1>1, TotalBounds
<1>3. Total(p.counters) <= Total(m.counters)
  BY <1>1, TotalGrows DEF WasReset, DeltaValid
<1> QED BY <1>2, <1>3 DEF Delta

LEMMA PiecesFit ==
  ASSUME now \in Nat, NEW p \in Histories, p.last < now, NEW m,
         Delta(p.counters, m.counters) \in Nat
  PROVE  /\ Pieces(p, m) \in Seq(Buckets) /\ Follow(Pieces(p, m), now)
         /\ Pieces(p, m)[1].start >= p.last /\ Pieces(p, m)[1].start \in Nat
         /\ Bytes(Pieces(p, m)) <= Scale * Delta(p.counters, m.counters)
<1> DEFINE q == Pieces(p, m)
<1>1. p.last \in Nat
  BY DEF Histories
<1>2. SpreadFrom(p) \in Nat /\ p.last <= SpreadFrom(p)
  BY <1>1, SpreadFromBounds
<1>3. /\ q \in Seq(Buckets) /\ Len(q) \in Nat \ {0} /\ q[1].start = SpreadFrom(p)
      /\ \A i \in 1 .. Len(q) : /\ q[i].start < q[i].end /\ q[i].end <= now
                                /\ i > 1 => q[i].start = q[i - 1].end
  BY <1>1, PiecesFollow
<1>4. Bytes(q) <= Scale * Delta(p.counters, m.counters)
  BY <1>1, PiecesHold
<1> HIDE DEF q
<1>5. ASSUME NEW i \in 1 .. Len(q), i > 1 PROVE q[i - 1].end <= q[i].start
  <2>1. q[i] \in Buckets
    BY <1>3
  <2>2. q[i].start \in Nat /\ q[i].start = q[i - 1].end
    BY <1>3, <1>5, <2>1 DEF Buckets
  <2> QED BY <2>2
<1>6. Follow(q, now)
  BY <1>3, <1>5 DEF Follow
<1> QED BY <1>1, <1>2, <1>3, <1>4, <1>6 DEF q

LEMMA AdvancedFits ==
  ASSUME now \in Nat, NEW p \in Histories, HistoryFits(p, now), p # Nothing,
         NEW m \in Metrics, Advances(p, m)
  PROVE  HistoryFits(Advanced(p, m), now) /\ Advanced(p, m) \in Histories
<1> DEFINE h == Advanced(p, m)
<1>1. /\ p.first \in Nat /\ p.gap \in Nat /\ p.last \in Nat /\ p.buckets \in Seq(Buckets)
      /\ p.first <= p.gap /\ p.gap <= p.last /\ p.last < now /\ Follow(p.buckets, p.last)
  BY DEF Histories, HistoryFits, Advances
<1>2. Follow(p.buckets, now)
  BY <1>1, FollowLater
<1>3. ASSUME ~WasReset(p, m)
      PROVE  /\ Extended(p.buckets, Pieces(p, m)) \in Seq(Buckets)
             /\ Follow(Extended(p.buckets, Pieces(p, m)), now)
  <2> DEFINE q == p.buckets
             ps == Pieces(p, m)
  <2>1. /\ ps \in Seq(Buckets) /\ Follow(ps, now) /\ ps[1].start >= p.last
        /\ ps[1].start \in Nat
    BY <1>1, <1>3, NoReset, PiecesFit
  <2>2. q # <<>> => q[Len(q)].end <= p.last /\ q[Len(q)].end \in Nat
    <3> SUFFICES ASSUME q # <<>> PROVE q[Len(q)].end <= p.last /\ q[Len(q)].end \in Nat
      OBVIOUS
    <3>1. q \in Seq(Buckets) /\ Follow(q, p.last)
      BY <1>1
    <3> HIDE DEF q
    <3>2. Len(q) \in 1 .. Len(q) /\ q[Len(q)] \in Buckets
      BY <3>1
    <3> QED BY <3>1, <3>2 DEF Follow, Buckets
  <2>3. q \in Seq(Buckets) /\ Follow(q, now)
    BY <1>1, <1>2
  <2> HIDE DEF q, ps
  <2>4. q # <<>> /\ ps # <<>> => q[Len(q)].end <= ps[1].start
    BY <1>1, <2>1, <2>2
  <2>5. Follow(Extended(q, ps), now)
    BY <2>1, <2>3, <2>4, FollowExtended
  <2>6. Extended(q, ps) \in Seq(Buckets)
    BY <2>1, <2>3, BytesExtended
  <2> QED BY <2>5, <2>6 DEF q, ps
<1>4. h \in Histories
  BY <1>3, AdvancedMade
<1>5. /\ h.first = p.first /\ h.last = now
      /\ h.gap = (IF WasReset(p, m) \/ Interrupted(p) THEN now ELSE p.gap)
      /\ h.buckets = (IF WasReset(p, m) THEN p.buckets ELSE Extended(p.buckets, Pieces(p, m)))
  BY AdvancedParts
<1> HIDE DEF h
<1>6. Follow(h.buckets, now)
  BY <1>2, <1>3, <1>5
<1>7. h.first <= h.gap /\ h.gap <= now
  BY <1>1, <1>5
<1> QED BY <1>4, <1>5, <1>6, <1>7 DEF HistoryFits, h

(* Collecting only drops the first buckets.                                *)
LEMMA CollectedParts ==
  ASSUME NEW p \in Histories, Collected(p) # Nothing
  PROVE  /\ Collected(p) \in Histories
         /\ Collected(p).first = p.first /\ Collected(p).gap = p.gap
         /\ Collected(p).last = p.last /\ Collected(p).metric = p.metric
         /\ Collected(p).since = p.since /\ Collected(p).boot = p.boot
         /\ Collected(p).counters = p.counters
         /\ \/ Collected(p).buckets = <<>>
            \/ \E i \in 1 .. Len(p.buckets) :
                 Collected(p).buckets = SubSeq(p.buckets, i, Len(p.buckets))
<1> DEFINE q == p.buckets
           keep == {i \in DOMAIN q : q[i].end >= now - Window - Bucket}
           b == IF keep = {} THEN <<>> ELSE SubSeq(q, Min(keep), Len(q))
<1>1. q \in Seq(Buckets) /\ DOMAIN p = {"first", "last", "gap", "boot", "counters", "metric", "buckets", "since"}
  BY DEF Histories
<1>2. DOMAIN q = 1 .. Len(q) /\ Len(q) \in Nat
  BY <1>1
<1>3. keep # {} => Min(keep) \in 1 .. Len(q)
  <2>1. keep \subseteq Nat /\ keep \subseteq 1 .. Len(q)
    BY <1>2
  <2> HIDE DEF keep
  <2> QED BY <2>1, SmallestOf
<1>4. Collected(p) = [p EXCEPT !.buckets = b]
  BY DEF Collected
<1> HIDE DEF keep, q
<1>5. b = <<>> \/ \E i \in 1 .. Len(q) : b = SubSeq(q, i, Len(q))
  BY <1>3
<1> HIDE DEF b
<1>6. b \in Seq(Buckets)
  <2>1. CASE b = <<>>
    BY <2>1
  <2>2. ASSUME NEW i \in 1 .. Len(q), b = SubSeq(q, i, Len(q)) PROVE b \in Seq(Buckets)
    BY <1>1, <2>2, BytesSuffix
  <2> QED BY <1>5, <2>1, <2>2
<1>7. [p EXCEPT !.buckets = b] \in Histories
  BY <1>6 DEF Histories
<1>8. /\ Collected(p).first = p.first /\ Collected(p).gap = p.gap
      /\ Collected(p).last = p.last /\ Collected(p).metric = p.metric
      /\ Collected(p).since = p.since /\ Collected(p).boot = p.boot
      /\ Collected(p).counters = p.counters /\ Collected(p).buckets = b
  BY <1>1, <1>4
<1> QED BY <1>4, <1>5, <1>7, <1>8 DEF q

LEMMA CollectedFits ==
  ASSUME now \in Nat, NEW p, HistoryFits(p, now)
  PROVE  HistoryFits(Collected(p), now)
<1> SUFFICES ASSUME Collected(p) # Nothing PROVE HistoryFits(Collected(p), now)
  BY DEF HistoryFits
<1>1. p # Nothing
  BY DEF Collected
<1>2. /\ p \in Histories /\ p.first <= p.gap /\ p.gap <= p.last /\ p.last <= now
      /\ Follow(p.buckets, p.last)
  BY <1>1 DEF HistoryFits
<1>3. p.buckets \in Seq(Buckets)
  BY <1>2 DEF Histories
<1>4. /\ Collected(p) \in Histories
      /\ Collected(p).first = p.first /\ Collected(p).gap = p.gap
      /\ Collected(p).last = p.last
      /\ \/ Collected(p).buckets = <<>>
         \/ \E i \in 1 .. Len(p.buckets) :
              Collected(p).buckets = SubSeq(p.buckets, i, Len(p.buckets))
  BY <1>2, CollectedParts
<1>5. Follow(Collected(p).buckets, p.last)
  <2>1. Follow(<<>>, p.last)
    BY DEF Follow
  <2>2. \A i \in 1 .. Len(p.buckets) : Follow(SubSeq(p.buckets, i, Len(p.buckets)), p.last)
    BY <1>2, <1>3, FollowSuffix
  <2> QED BY <1>4, <2>1, <2>2
<1> QED BY <1>2, <1>4, <1>5 DEF HistoryFits

LEMMA SampledFits ==
  ASSUME now \in Nat, NEW p, HistoryFits(p, now), NEW m \in Metrics \cup {Nothing}, NEW c
  PROVE  HistoryFits(Collected(Sampled(p, m, c)), now)
<1>1. HistoryFits(Sampled(p, m, c), now)
  <2>1. CASE ~Usable(m, c)
    BY <2>1 DEF Sampled
  <2>2. CASE Usable(m, c) /\ p = Nothing
    <3>1. m \in Metrics
      BY <2>2 DEF Usable
    <3> QED BY <2>2, <3>1, NewHistoryFits DEF Sampled
  <2>3. CASE Usable(m, c) /\ p # Nothing /\ Advances(p, m)
    <3>1. m \in Metrics /\ p \in Histories
      BY <2>3 DEF Usable, HistoryFits
    <3> QED BY <2>3, <3>1, AdvancedFits DEF Sampled
  <2>4. CASE Usable(m, c) /\ p # Nothing /\ ~Advances(p, m)
    BY <2>4 DEF Sampled
  <2> QED BY <2>1, <2>2, <2>3, <2>4
<1> QED BY <1>1, CollectedFits

(* What the handler of a metric does to each part of a stored node.        *)
DaysWith(s, m) ==
  PruneDaily(AddDailyTraffic([d \in DOMAIN s.daily \cup {DateOf(m.at)} |-> OnDate(s.daily, d)],
                             s.latest, m))

Handled(s, m, t) == UpdateMetric([s EXCEPT !.contact = t], m)

LEMMA UpdateParts ==
  ASSUME NEW s, DOMAIN s = {"latest", "contact", "daily", "known"}, NEW m, NEW t,
         NEW r, r = Handled(s, m, t)
  PROVE  /\ DOMAIN r = DOMAIN s /\ r.contact = t
         /\ Newer(m, s) => /\ r.latest = m /\ r.known = s.known \cup {m.at}
                           /\ r.daily = DaysWith(s, m)
         /\ ~Newer(m, s) => r.latest = s.latest /\ r.daily = s.daily /\ r.known = s.known
<1> DEFINE u == [s EXCEPT !.contact = t]
           e == DaysWith(s, m)
           k == s.known \cup {m.at}
<1>1. DOMAIN u = DOMAIN s /\ u.contact = t /\ u.latest = s.latest /\ u.daily = s.daily
      /\ u.known = s.known
  OBVIOUS
<1>2. Newer(m, u) <=> Newer(m, s)
  BY <1>1 DEF Newer
<1>3. DaysWith(u, m) = e
  BY <1>1 DEF DaysWith
<1>4. r = IF ~Newer(m, u) THEN u
          ELSE [u EXCEPT !.latest = m, !.daily = DaysWith(u, m), !.known = u.known \cup {m.at}]
  BY DEF Handled, UpdateMetric, DaysWith
<1>5. k = u.known \cup {m.at}
  BY <1>1
<1> HIDE DEF e, k, u
<1>6. CASE ~Newer(m, s)
  <2>1. r = u
    BY <1>2, <1>4, <1>6
  <2> QED BY <1>1, <1>6, <2>1
<1>7. CASE Newer(m, s)
  <2>1. r = [u EXCEPT !.latest = m, !.daily = e, !.known = k]
    BY <1>2, <1>3, <1>4, <1>5, <1>7
  <2>2. DOMAIN r = DOMAIN s /\ r.contact = t /\ r.latest = m /\ r.daily = e /\ r.known = k
    BY <1>1, <2>1
  <2> QED BY <1>7, <2>2 DEF e, k
<1> QED BY <1>6, <1>7

LEMMA UpdatedLatest ==
  ASSUME NEW s, DOMAIN s = {"latest", "contact", "daily", "known"}, NEW m, NEW t
  PROVE  UpdateMetric([s EXCEPT !.contact = t], m).latest \in {m, s.latest}
<1> DEFINE u == [s EXCEPT !.contact = t]
           e == PruneDaily(AddDailyTraffic(
                      [d \in DOMAIN u.daily \cup {DateOf(m.at)} |-> OnDate(u.daily, d)],
                      u.latest, m))
           k == u.known \cup {m.at}
           r == UpdateMetric(u, m)
<1>1. r = IF ~Newer(m, u) THEN u ELSE [u EXCEPT !.latest = m, !.daily = e, !.known = k]
  BY DEF UpdateMetric
<1>2. DOMAIN u = DOMAIN s /\ u.latest = s.latest
  OBVIOUS
<1> HIDE DEF e, k, u, r
<1>3. r.latest = m \/ r.latest = s.latest
  BY <1>1, <1>2
<1> QED BY <1>3 DEF r, u

LEMMA UpdateFits ==
  ASSUME now \in Nat, NEW s, StoreFits(s, now), NEW m \in Metrics
  PROVE  StoreFits(UpdateMetric([s EXCEPT !.contact = now], m), now)
<1> DEFINE r == UpdateMetric([s EXCEPT !.contact = now], m)
           new == [d \in DOMAIN s.daily \cup {DateOf(m.at)} |-> OnDate(s.daily, d)]
           e == DaysWith(s, m)
<1>1. /\ DOMAIN s = {"latest", "contact", "daily", "known"}
      /\ s.latest \in Metrics \cup {Nothing} /\ DailyOK(s.daily)
      /\ Cardinality(DOMAIN s.daily) <= Retain
  BY DEF StoreFits
<1>2. /\ DOMAIN r = {"latest", "contact", "daily", "known"} /\ r.contact = now
      /\ Newer(m, s) => r.latest = m /\ r.daily = e
      /\ ~Newer(m, s) => r.latest = s.latest /\ r.daily = s.daily
  <2> HIDE DEF r, e
  <2>1. r = Handled(s, m, now) /\ e = DaysWith(s, m)
    BY DEF r, e, Handled
  <2> QED BY <1>1, <2>1, UpdateParts
<1>3. m.at \in Nat
  BY DEF Metrics
<1>4. DailyOK(new)
  <2>1. DateOf(m.at) \in Nat
    BY <1>3, DivNat, MeteringAssumption DEF DateOf
  <2> DEFINE x == DateOf(m.at)
             D == DOMAIN s.daily \cup {x}
  <2>2. DOMAIN new = D /\ \A d \in D : new[d] = OnDate(s.daily, d)
    OBVIOUS
  <2> HIDE DEF x, new
  <2>3. D \subseteq Nat /\ IsFiniteSet(D)
    BY <1>1, <2>1, FS_AddElement DEF DailyOK, x
  <2>4. \A d \in D : OnDate(s.daily, d) \in Nat
    BY <1>1 DEF DailyOK, OnDate
  <2> QED BY <2>2, <2>3, <2>4 DEF DailyOK
<1> HIDE DEF r, new
<1>5. Newer(m, s) => DailyOK(e) /\ Cardinality(DOMAIN e) <= Retain
  <2> SUFFICES ASSUME Newer(m, s) PROVE DailyOK(e) /\ Cardinality(DOMAIN e) <= Retain
    OBVIOUS
  <2>1. s.latest # Nothing => s.latest \in Metrics /\ s.latest.at < m.at
    <3> SUFFICES ASSUME s.latest # Nothing PROVE s.latest \in Metrics /\ s.latest.at < m.at
      OBVIOUS
    <3>1. s.latest \in Metrics /\ m.at > s.latest.at
      BY <1>1 DEF Newer
    <3>2. s.latest.at \in Nat
      BY <3>1 DEF Metrics
    <3> QED BY <1>3, <3>1, <3>2
  <2>2. DailyOK(AddDailyTraffic(new, s.latest, m))
    BY <1>4, <2>1, AddDailyOK
  <2>3. e = PruneDaily(AddDailyTraffic(new, s.latest, m))
    BY DEF DaysWith, new
  <2> QED BY <2>2, <2>3, PruneDailyOK
<1> HIDE DEF e
<1>6. now \in 0 .. now
  OBVIOUS
<1>7. StoreFits(r, now)
  BY <1>1, <1>2, <1>5, <1>6 DEF StoreFits
<1> QED BY <1>7 DEF r

(* The bytes the node has moved never fall.                                *)
Ascending(s, t) == \A i \in 1 .. t + 1 : \A j \in i .. t + 1 : s[i] <= s[j]

MeterTyped ==
  /\ now \in 0 .. Horizon
  /\ moved \in Seq(Nat) /\ Len(moved) = now + 1 /\ Ascending(moved, now)
  /\ node \in Nodes /\ wire \subseteq Metrics
  /\ StoreFits(store, now) /\ StoreFits(storeFile, now)
  /\ HistoryFits(host, now) /\ HistoryFits(hostFile, now)

LEMMA NewStoreFits == \A t \in Nat : StoreFits(NewStore, t)
<1>1. DailyOK(<<>>) /\ Cardinality(DOMAIN <<>>) <= Retain
  <2>1. DOMAIN <<>> = {}
    OBVIOUS
  <2>2. IsFiniteSet({}) /\ Cardinality({}) = 0
    BY FS_EmptySet
  <2> QED BY <2>1, <2>2, MeteringAssumption DEF DailyOK
<1> QED BY <1>1 DEF NewStore, StoreFits

LEMMA FitsLater ==
  ASSUME NEW s \in Nat, NEW t \in Nat, s <= t, NEW p
  PROVE  /\ StoreFits(p, s) => StoreFits(p, t)
         /\ HistoryFits(p, s) => HistoryFits(p, t)
<1>1. StoreFits(p, s) => StoreFits(p, t)
  <2>1. (0 .. s) \cup {Nothing} \subseteq (0 .. t) \cup {Nothing}
    OBVIOUS
  <2> QED BY <2>1 DEF StoreFits
<1>2. HistoryFits(p, s) => HistoryFits(p, t)
  <2>1. p \in Histories => p.last \in Nat
    BY DEF Histories
  <2> QED BY <2>1 DEF HistoryFits
<1> QED BY <1>1, <1>2

LEMMA MovedOn ==
  ASSUME MeterTyped, NEW b \in Nat, moved' = Append(moved, Moved(now) + b)
  PROVE  /\ moved' \in Seq(Nat) /\ Len(moved') = now + 2 /\ Ascending(moved', now + 1)
         /\ moved'[now + 2] = moved[now + 1] + b
         /\ \A i \in 1 .. now + 1 : moved'[i] = moved[i] /\ moved[i] \in Nat
<1>1. now \in Nat /\ moved \in Seq(Nat) /\ Len(moved) = now + 1 /\ Ascending(moved, now)
  BY DEF MeterTyped
<1>2. Moved(now) = moved[now + 1]
  <2>1. Max({now, 0}) = now /\ Min({now, now}) = now
    BY <1>1, MaxOfTwo, MinOfTwo
  <2> QED BY <2>1 DEF Moved
<1>3. \A i \in 1 .. now + 1 : moved[i] \in Nat
  BY <1>1
<1>4. moved[now + 1] \in Nat
  BY <1>1, <1>3
<1> DEFINE x == moved[now + 1] + b
<1>5. x \in Nat /\ moved' = Append(moved, x)
  BY <1>2, <1>4
<1>6. x >= moved[now + 1]
  BY <1>4
<1> HIDE DEF x
<1>7. moved' \in Seq(Nat) /\ Len(moved') = now + 2 /\ moved'[now + 2] = x
      /\ \A i \in 1 .. now + 1 : moved'[i] = moved[i]
  BY <1>1, <1>5
<1>8. ASSUME NEW i \in 1 .. now + 2, NEW j \in i .. now + 2 PROVE moved'[i] <= moved'[j]
  <2>1. CASE j <= now + 1
    <3>1. i \in 1 .. now + 1 /\ j \in i .. now + 1 /\ j \in 1 .. now + 1
      BY <1>1, <2>1
    <3> QED BY <1>1, <1>7, <3>1 DEF Ascending
  <2>2. CASE j = now + 2 /\ i <= now + 1
    <3>1. i \in 1 .. now + 1 /\ now + 1 \in i .. now + 1
      BY <1>1, <2>2
    <3>2. moved[i] <= moved[now + 1] /\ moved[i] \in Nat
      BY <1>1, <1>3, <3>1 DEF Ascending
    <3> QED BY <1>4, <1>5, <1>6, <1>7, <2>2, <3>1, <3>2
  <2>3. CASE j = now + 2 /\ i = now + 2
    BY <1>5, <1>7, <2>3
  <2> QED BY <1>1, <2>1, <2>2, <2>3
<1>9. Ascending(moved', now + 1)
  <2>1. (now + 1) + 1 = now + 2
    BY <1>1
  <2> QED BY <1>8, <2>1 DEF Ascending
<1> QED BY <1>3, <1>7, <1>9 DEF x

(* The node's own steps.                                                   *)
LEMMA CarryParts ==
  ASSUME node \in Nodes, NEW card \in Cards,
         node' = [node EXCEPT !.counters[card].bytes = @ + Packet]
  PROVE  /\ node' \in Nodes /\ node'.boot = node.boot /\ node'.source = node.source
         /\ node'.counters = [node.counters EXCEPT ![card].bytes = @ + Packet]
<1> DEFINE k == [node.counters EXCEPT ![card].bytes = @ + Packet]
<1>1. node.counters \in Counters /\ DOMAIN node = {"boot", "source", "counters", "whole"}
  BY DEF Nodes
<1>2. k \in Counters
  BY <1>1, TotalCarried
<1>3. node' = [node EXCEPT !.counters = k]
  OBVIOUS
<1> HIDE DEF k
<1>4. [node EXCEPT !.counters = k] \in Nodes
  BY <1>2 DEF Nodes
<1>5. node'.counters = k /\ node'.boot = node.boot /\ node'.source = node.source
  BY <1>1, <1>3
<1> QED BY <1>3, <1>4, <1>5 DEF k

LEMMA RebootParts ==
  ASSUME node \in Nodes, Reboot
  PROVE  /\ node' \in Nodes /\ node'.boot = node.boot + 1 /\ node'.source = node.source
         /\ \A c \in Cards : /\ node'.counters[c].index = node.counters[c].index
                             /\ node'.counters[c].bytes = 0
<1> DEFINE k == [c \in Cards |-> [node.counters[c] EXCEPT !.bytes = 0]]
<1>1. /\ node.counters \in Counters /\ DOMAIN node = {"boot", "source", "counters", "whole"}
      /\ node.boot + 1 \in Nat
  BY DEF Nodes
<1>2. k \in Counters /\ \A c \in Cards : k[c].index = node.counters[c].index /\ k[c].bytes = 0
  BY <1>1 DEF Counters
<1>3. node' = [node EXCEPT !.boot = node.boot + 1, !.whole = FALSE, !.counters = k]
  BY DEF Reboot
<1> HIDE DEF k
<1>4. [node EXCEPT !.boot = node.boot + 1, !.whole = FALSE, !.counters = k] \in Nodes
  BY <1>1, <1>2 DEF Nodes
<1>5. node'.boot = node.boot + 1 /\ node'.counters = k /\ node'.source = node.source
  BY <1>1, <1>3
<1> QED BY <1>2, <1>3, <1>4, <1>5

LEMMA ReplaceParts ==
  ASSUME node \in Nodes, NEW card \in Cards, Replace(card)
  PROVE  /\ node' \in Nodes /\ node'.boot = node.boot /\ node'.source = node.source
         /\ node'.counters[card].index = node.counters[card].index + 1
         /\ node'.counters[card].bytes = 0
         /\ \A c \in Cards \ {card} : node'.counters[c] = node.counters[c]
<1> DEFINE k == [node.counters EXCEPT ![card] = [index |-> @.index + 1, bytes |-> 0]]
<1>1. /\ node.counters \in Counters /\ DOMAIN node = {"boot", "source", "counters", "whole"}
  BY DEF Nodes
<1>2. /\ k \in Counters /\ k[card].index = node.counters[card].index + 1 /\ k[card].bytes = 0
      /\ \A c \in Cards \ {card} : k[c] = node.counters[c]
  BY <1>1 DEF Counters
<1>3. node' = [node EXCEPT !.whole = FALSE, !.counters = k]
  BY <1>1 DEF Replace
<1> HIDE DEF k
<1>4. [node EXCEPT !.whole = FALSE, !.counters = k] \in Nodes
  BY <1>2 DEF Nodes
<1>5. node'.counters = k /\ node'.boot = node.boot /\ node'.source = node.source
  BY <1>1, <1>3
<1> QED BY <1>2, <1>3, <1>4, <1>5

LEMMA UpgradeParts ==
  ASSUME node \in Nodes, Upgrade
  PROVE  /\ node' \in Nodes /\ node'.boot = node.boot /\ node'.counters = node.counters
         /\ node.source = Legacy /\ node'.source = PhysicalNIC
<1>1. DOMAIN node = {"boot", "source", "counters", "whole"}
  BY DEF Nodes
<1>2. node' = [node EXCEPT !.source = PhysicalNIC, !.whole = FALSE] /\ node.source = Legacy
  BY DEF Upgrade
<1>3. [node EXCEPT !.source = PhysicalNIC, !.whole = FALSE] \in Nodes
  BY DEF Nodes
<1> QED BY <1>1, <1>2, <1>3

LEMMA ReadingTyped ==
  ASSUME MeterTyped
  PROVE  NewMetric \in Metrics /\ NewMetric.at = now
<1>1. now \in 0 .. Horizon /\ node \in Nodes
  BY DEF MeterTyped
<1>2. /\ node.source \in {PhysicalNIC, Legacy} /\ node.boot \in Nat
      /\ node.counters \in [Cards -> [index : Nat, bytes : Nat]]
  BY <1>1 DEF Nodes, Counters
<1> QED BY <1>1, <1>2 DEF NewMetric, Metrics

LEMMA MeterTypedInit == MeterInit => MeterTyped
<1> SUFFICES ASSUME MeterInit PROVE MeterTyped
  OBVIOUS
<1> USE DEF MeterInit
<1>1. now \in 0 .. Horizon /\ now = 0
  BY MeteringAssumption
<1>2. moved \in Seq(Nat) /\ Len(moved) = now + 1 /\ Ascending(moved, now)
  <2>1. moved \in Seq(Nat) /\ Len(moved) = 1 /\ moved[1] = 0
    OBVIOUS
  <2>2. \A i \in 1 .. 0 + 1 : \A j \in i .. 0 + 1 : i = 1 /\ j = 1
    OBVIOUS
  <2> QED BY <1>1, <2>1, <2>2 DEF Ascending
<1>3. node \in Nodes
  <2>1. NoCounters \in Counters
    BY DEF NoCounters, Counters
  <2>2. PICK s \in {PhysicalNIC, Legacy} :
          node = [boot |-> 0, source |-> s, counters |-> NoCounters, whole |-> TRUE]
    OBVIOUS
  <2> QED BY <2>1, <2>2 DEF Nodes
<1>4. StoreFits(store, now) /\ StoreFits(storeFile, now)
  BY NewStoreFits
<1>5. HistoryFits(host, now) /\ HistoryFits(hostFile, now)
  BY DEF HistoryFits
<1> QED BY <1>1, <1>2, <1>3, <1>4, <1>5 DEF MeterTyped

LEMMA MeterTypedStep == MeterTyped /\ [MeterNext]_meterVars => MeterTyped'
<1> SUFFICES ASSUME MeterTyped, [MeterNext]_meterVars PROVE MeterTyped'
  OBVIOUS
<1>0. /\ now \in 0 .. Horizon /\ now \in Nat
      /\ moved \in Seq(Nat) /\ Len(moved) = now + 1 /\ Ascending(moved, now)
      /\ node \in Nodes /\ wire \subseteq Metrics
      /\ StoreFits(store, now) /\ StoreFits(storeFile, now)
      /\ HistoryFits(host, now) /\ HistoryFits(hostFile, now)
      /\ store.latest \in Metrics \cup {Nothing}
  BY DEF MeterTyped, StoreFits
<1>1. CASE PassUnit
  <2>1. now' = now + 1 /\ now' \in 0 .. Horizon
    BY <1>0, <1>1, MeteringAssumption DEF PassUnit
  <2>2. wire' \subseteq Metrics
    BY <1>0, <1>1 DEF PassUnit
  <2>3. UNCHANGED <<store, storeFile, host, hostFile>>
    BY <1>1 DEF PassUnit, storeVars, hostVars
  <2>4. /\ StoreFits(store', now') /\ StoreFits(storeFile', now')
        /\ HistoryFits(host', now') /\ HistoryFits(hostFile', now')
    <3>1. now' \in Nat /\ now <= now'
      BY <1>0, <2>1
    <3> QED BY <1>0, <2>3, <3>1, FitsLater
  <2>5. /\ node' \in Nodes
        /\ \E b \in Nat : moved' = Append(moved, Moved(now) + b)
    <3>1. CASE Idle
      <4>1. moved' = Append(moved, Moved(now) + 0)
        <5>1. Moved(now) \in Nat
          <6>1. Max({now, 0}) = now /\ Min({now, now}) = now
            BY <1>0, MaxOfTwo, MinOfTwo
          <6>2. now + 1 \in 1 .. Len(moved)
            BY <1>0
          <6>3. moved[now + 1] \in Nat
            BY <1>0, <6>2
          <6> QED BY <6>1, <6>3 DEF Moved
        <5> QED BY <3>1, <5>1 DEF Idle
      <4>2. 0 \in Nat
        OBVIOUS
      <4> QED BY <1>0, <3>1, <4>1, <4>2 DEF Idle
    <3>2. ASSUME NEW card \in Cards, Carry(card)
          PROVE  /\ node' \in Nodes
                 /\ \E b \in Nat : moved' = Append(moved, Moved(now) + b)
      BY <1>0, <3>2, CarryParts, MeteringAssumption DEF Carry
    <3> QED BY <1>1, <3>1, <3>2 DEF PassUnit
  <2>6. moved' \in Seq(Nat) /\ Len(moved') = now' + 1 /\ Ascending(moved', now')
    <3>1. PICK b \in Nat : moved' = Append(moved, Moved(now) + b)
      BY <2>5
    <3>2. moved' \in Seq(Nat) /\ Len(moved') = now + 2 /\ Ascending(moved', now + 1)
      BY <3>1, MovedOn
    <3> QED BY <1>0, <2>1, <3>2
  <2> QED BY <2>1, <2>2, <2>4, <2>5, <2>6 DEF MeterTyped
<1>2. CASE RestartCounters
  <2>1. node' \in Nodes
    BY <1>0, <1>2, RebootParts, UpgradeParts, ReplaceParts DEF RestartCounters
  <2>2. UNCHANGED <<now, moved, wire, store, storeFile, host, hostFile>>
    BY <1>2 DEF RestartCounters, storeVars, hostVars
  <2> QED BY <1>0, <2>1, <2>2 DEF MeterTyped
<1>3. CASE Report
  <2>1. wire' \subseteq Metrics
    BY <1>0, <1>3, ReadingTyped DEF Report
  <2>2. UNCHANGED <<now, moved, node, store, storeFile, host, hostFile>>
    BY <1>3 DEF Report, storeVars, hostVars
  <2> QED BY <1>0, <2>1, <2>2 DEF MeterTyped
<1>4. ASSUME NEW m \in wire, HandleMetric(m) PROVE MeterTyped'
  <2>1. wire' \subseteq Metrics /\ store' = UpdateMetric([store EXCEPT !.contact = now], m)
    BY <1>0, <1>4 DEF HandleMetric
  <2>2. UNCHANGED <<now, moved, node, storeFile, host, hostFile>>
    BY <1>4 DEF HandleMetric, nodeVars, hostVars
  <2>3. m \in Metrics
    BY <1>0
  <2>4. StoreFits(store', now)
    BY <1>0, <2>1, <2>3, UpdateFits
  <2> QED BY <1>0, <2>1, <2>2, <2>4 DEF MeterTyped
<1>5. CASE HostRound
  <2>1. host' = Collected(Sampled(host, store.latest, store.contact))
    BY <1>5 DEF HostRound
  <2>2. hostFile' \in {hostFile, host'}
    BY <1>5 DEF HostRound
  <2>3. UNCHANGED <<now, moved, node, wire, store, storeFile>>
    BY <1>5 DEF HostRound, nodeVars, storeVars
  <2>4. HistoryFits(host', now)
    BY <1>0, <2>1, SampledFits
  <2>5. HistoryFits(hostFile', now)
    BY <1>0, <2>2, <2>4
  <2> QED BY <1>0, <2>3, <2>4, <2>5 DEF MeterTyped
<1>6. CASE FlushStore
  <2>1. storeFile' = store
    BY <1>6 DEF FlushStore
  <2>2. UNCHANGED <<now, moved, node, wire, store, host, hostFile>>
    BY <1>6 DEF FlushStore, nodeVars, hostVars
  <2> QED BY <1>0, <2>1, <2>2 DEF MeterTyped
<1>7. CASE Stop
  <2>1. store' = NewStore /\ host' = Nothing
    BY <1>7 DEF Stop
  <2>2. UNCHANGED <<now, moved, node, wire, storeFile, hostFile>>
    BY <1>7 DEF Stop, nodeVars
  <2>3. StoreFits(store', now) /\ HistoryFits(host', now)
    BY <1>0, <2>1, NewStoreFits DEF HistoryFits
  <2> QED BY <1>0, <2>2, <2>3 DEF MeterTyped
<1>8. CASE Start
  <2>1. store' = storeFile /\ host' = hostFile
    BY <1>8 DEF Start
  <2>2. UNCHANGED <<now, moved, node, wire, storeFile, hostFile>>
    BY <1>8 DEF Start, nodeVars
  <2> QED BY <1>0, <2>1, <2>2 DEF MeterTyped
<1>9. CASE UNCHANGED meterVars
  <2>1. UNCHANGED <<now, moved, node, wire, store, storeFile, host, hostFile>>
    BY <1>9 DEF meterVars, nodeVars, storeVars, hostVars
  <2> QED BY <1>0, <2>1 DEF MeterTyped
<1> QED BY <1>1, <1>2, <1>3, <1>4, <1>5, <1>6, <1>7, <1>8, <1>9 DEF MeterNext

(* Every metric, stored node and history has its type, and the buckets of  *)
(* a history follow one another, whatever is lost, late or restarted.      *)
THEOREM MeterTypeCorrect == MeterSpec => []MeterTypeOK
<1>1. MeterTyped => MeterTypeOK
  <2> SUFFICES ASSUME MeterTyped PROVE MeterTypeOK
    OBVIOUS
  <2>1. ASSUME NEW s, StoreFits(s, now) PROVE StoreOK(s)
    BY <2>1 DEF StoreFits, StoreOK, DailyOK
  <2>2. ASSUME NEW p, HistoryFits(p, now) PROVE HistoryOK(p)
    <3>1. CASE p = Nothing
      BY <3>1 DEF HistoryOK
    <3>2. CASE p # Nothing
      <4>1. p.buckets \in Seq(Buckets) /\ Follow(p.buckets, p.last)
            /\ p.first <= p.gap /\ p.gap <= p.last /\ p.last <= now
        BY <2>2, <3>2 DEF HistoryFits, Histories
      <4>2. DOMAIN p.buckets = 1 .. Len(p.buckets)
        BY <4>1
      <4> QED BY <4>1, <4>2 DEF HistoryOK, Follow
    <3> QED BY <3>1, <3>2
  <2> QED BY <2>1, <2>2 DEF MeterTypeOK, MeterTyped
<1> QED BY <1>1, MeterTypedInit, MeterTypedStep, PTL DEF MeterSpec

-----------------------------------------------------------------------------
(* What Central knows of the counters: a reading is of a metric on its way, *)
(* of the latest metric of a store, or the last one a history counted.      *)
ReadingOf(m) == [at |-> m.at, boot |-> m.boot, counters |-> m.counters]
LastOf(p) == [at |-> p.metric, boot |-> p.boot, counters |-> p.counters]
Present == [at |-> now, boot |-> node.boot, counters |-> node.counters]

Readings ==
  {ReadingOf(m) : m \in wire \cup ({store.latest, storeFile.latest} \ {Nothing})}
    \cup {LastOf(p) : p \in {host, hostFile} \ {Nothing}}

SameCards(x, y) == \A c \in Cards : x.counters[c].index = y.counters[c].index

(* Reading y may come after reading x, when mv[t + 1] bytes had been moved  *)
(* at time t: the counters tell what was moved unless they were restarted,  *)
(* which the boot or the index of a card betrays.                           *)
Followed(x, y, mv) ==
  /\ x.boot <= y.boot
  /\ x.boot = y.boot => \A c \in Cards : x.counters[c].index <= y.counters[c].index
  /\ x.boot = y.boot /\ SameCards(x, y) =>
       /\ Total(y.counters) - Total(x.counters) = mv[y.at + 1] - mv[x.at + 1]
       /\ \A c \in Cards : x.counters[c].bytes <= y.counters[c].bytes
  /\ Total(y.counters) - Total(x.counters) <= mv[y.at + 1] - mv[x.at + 1]

ReadingsOrdered ==
  /\ \A x \in Readings : /\ x.at \in 0 .. now /\ x.boot \in Nat /\ x.counters \in Counters
                         /\ x.at = now => sent = now
                         /\ Followed(x, Present, moved)
  /\ \A x \in Readings : \A y \in Readings : x.at < y.at => Followed(x, y, moved)

HistoryHolds(p, mv) ==
  p # Nothing => /\ p.since <= p.metric
                 /\ Bytes(p.buckets) <= Scale * (mv[p.metric + 1] - mv[p.since + 1])

MeterSound ==
  ReadingsOrdered /\ HistoryHolds(host, moved) /\ HistoryHolds(hostFile, moved)

LEMMA MovedValues ==
  ASSUME MeterTyped
  PROVE  /\ now \in Nat /\ Scale \in Nat \ {0} /\ node \in Nodes
         /\ node.boot \in Nat /\ node.counters \in Counters
         /\ \A t \in 0 .. now : /\ t + 1 \in 1 .. now + 1 /\ moved[t + 1] \in Nat
                                /\ Moved(t) = moved[t + 1]
         /\ \A s \in 0 .. now : \A t \in 0 .. now : s <= t => moved[s + 1] <= moved[t + 1]
<1>1. now \in Nat /\ moved \in Seq(Nat) /\ Len(moved) = now + 1 /\ Ascending(moved, now)
  BY DEF MeterTyped
<1>2. node.boot \in Nat /\ node.counters \in Counters /\ node \in Nodes
  BY DEF MeterTyped, Nodes
<1>3. ASSUME NEW t \in 0 .. now
      PROVE  t + 1 \in 1 .. now + 1 /\ moved[t + 1] \in Nat /\ Moved(t) = moved[t + 1]
  <2>1. t + 1 \in 1 .. now + 1 /\ t \in Nat /\ t <= now
    BY <1>1
  <2>2. moved[t + 1] \in Nat
    BY <1>1, <2>1
  <2>3. Max({t, 0}) = t /\ Min({t, now}) = t
    BY <1>1, <2>1, MaxOfTwo, MinOfTwo
  <2> QED BY <2>1, <2>2, <2>3 DEF Moved
<1>4. ASSUME NEW s \in 0 .. now, NEW t \in 0 .. now, s <= t
      PROVE  moved[s + 1] <= moved[t + 1]
  <2>1. s + 1 \in 1 .. now + 1 /\ t + 1 \in (s + 1) .. now + 1
    BY <1>1, <1>4
  <2> QED BY <1>1, <2>1 DEF Ascending
<1>5. Scale \in Nat \ {0}
  BY MeteringAssumption
<1> QED BY <1>1, <1>2, <1>3, <1>4, <1>5

LEMMA ReadingParts ==
  ASSUME NEW m, NEW p
  PROVE  /\ ReadingOf(m).at = m.at /\ ReadingOf(m).boot = m.boot
         /\ ReadingOf(m).counters = m.counters
         /\ LastOf(p).at = p.metric /\ LastOf(p).boot = p.boot
         /\ LastOf(p).counters = p.counters
         /\ Present.at = now /\ Present.boot = node.boot
         /\ Present.counters = node.counters
BY DEF ReadingOf, LastOf, Present

(* The order does not depend on more of the past than the readings' times.  *)
LEMMA FollowedLater ==
  ASSUME MeterTyped, NEW b \in Nat, moved' = Append(moved, Moved(now) + b),
         NEW x, NEW y, x.at \in 0 .. now, y.at \in 0 .. now, Followed(x, y, moved)
  PROVE  Followed(x, y, moved')
<1>1. \A i \in 1 .. now + 1 : moved'[i] = moved[i]
  BY MovedOn
<1>2. x.at + 1 \in 1 .. now + 1 /\ y.at + 1 \in 1 .. now + 1
  BY MovedValues
<1>3. moved'[x.at + 1] = moved[x.at + 1] /\ moved'[y.at + 1] = moved[y.at + 1]
  BY <1>1, <1>2
<1> QED BY <1>3 DEF Followed

LEMMA FollowedCarried ==
  ASSUME MeterTyped, NEW b \in Nat, moved' = Append(moved, Moved(now) + b),
         now' = now + 1, node' \in Nodes, node'.boot = node.boot,
         \A c \in Cards : /\ node'.counters[c].index = node.counters[c].index
                          /\ node'.counters[c].bytes >= node.counters[c].bytes,
         Total(node'.counters) = Total(node.counters) + b,
         NEW x, x.at \in 0 .. now, x.counters \in Counters, Followed(x, Present, moved)
  PROVE  Followed(x, Present', moved')
<1>1. /\ moved'[now + 2] = moved[now + 1] + b
      /\ \A i \in 1 .. now + 1 : moved'[i] = moved[i] /\ moved[i] \in Nat
  BY MovedOn
<1>2. x.at + 1 \in 1 .. now + 1 /\ now + 1 \in 1 .. now + 1 /\ (now + 1) + 1 = now + 2
  BY MovedValues
<1>3. moved'[x.at + 1] = moved[x.at + 1] /\ moved[x.at + 1] \in Nat /\ moved[now + 1] \in Nat
  BY <1>1, <1>2
<1>4. /\ Present.at = now /\ Present.boot = node.boot /\ Present.counters = node.counters
      /\ Present'.at = now + 1 /\ Present'.boot = node.boot
      /\ Present'.counters = node'.counters
  BY DEF Present
<1>5. Total(x.counters) \in Nat /\ Total(node.counters) \in Nat
  BY MovedValues, TotalBounds
<1>6. SameCards(x, Present') <=> SameCards(x, Present)
  BY <1>4 DEF SameCards
<1> DEFINE old == Total(node.counters) - Total(x.counters)
           new == Total(node'.counters) - Total(x.counters)
           was == moved[now + 1] - moved[x.at + 1]
           is == moved'[(now + 1) + 1] - moved'[x.at + 1]
<1>7. new = old + b /\ is = was + b /\ old \in Int /\ was \in Int
  <2>1. new = old + b /\ old \in Int
    <3> DEFINE tn == Total(node.counters)
               tx == Total(x.counters)
    <3>1. tn \in Nat /\ tx \in Nat /\ Total(node'.counters) = tn + b
      BY <1>5
    <3> HIDE DEF tn, tx
    <3>2. (tn + b) - tx = (tn - tx) + b /\ tn - tx \in Int
      BY <3>1
    <3> QED BY <3>1, <3>2 DEF tn, tx
  <2>2. is = was + b /\ was \in Int
    <3> DEFINE mn == moved[now + 1]
               mx == moved[x.at + 1]
    <3>1. mn \in Nat /\ mx \in Nat /\ moved'[(now + 1) + 1] = mn + b /\ moved'[x.at + 1] = mx
      BY <1>1, <1>2, <1>3
    <3> HIDE DEF mn, mx
    <3>2. (mn + b) - mx = (mn - mx) + b /\ mn - mx \in Int
      BY <3>1
    <3> QED BY <3>1, <3>2 DEF mn, mx
  <2> QED BY <2>1, <2>2
<1>8. /\ x.boot <= node.boot
      /\ x.boot = node.boot => \A c \in Cards : x.counters[c].index <= node.counters[c].index
      /\ x.boot = node.boot /\ SameCards(x, Present) =>
           old = was /\ \A c \in Cards : x.counters[c].bytes <= node.counters[c].bytes
      /\ old <= was
  BY <1>4 DEF Followed
<1> HIDE DEF old, was, new, is
<1>10. ASSUME NEW c \in Cards, x.counters[c].bytes <= node.counters[c].bytes
       PROVE  x.counters[c].bytes <= node'.counters[c].bytes
  <2>1. node.counters \in Counters /\ node'.counters \in Counters
    BY MovedValues DEF Nodes
  <2>2. {x.counters[c].bytes, node.counters[c].bytes, node'.counters[c].bytes} \subseteq Nat
    BY <2>1 DEF Counters
  <2> QED BY <1>10, <2>2
<1>9. /\ x.boot = node.boot => \A c \in Cards : x.counters[c].index <= node'.counters[c].index
      /\ x.boot = node.boot /\ SameCards(x, Present') =>
           new = is /\ \A c \in Cards : x.counters[c].bytes <= node'.counters[c].bytes
      /\ new <= is
  BY <1>6, <1>7, <1>8, <1>10
<1> QED BY <1>4, <1>8, <1>9 DEF Followed, new, is

LEMMA FollowedRestarted ==
  ASSUME MeterTyped, Reboot \/ Upgrade \/ \E card \in Cards : Replace(card),
         UNCHANGED <<now, moved>>,
         NEW x, x.at \in 0 .. now, x.boot \in Nat, x.counters \in Counters,
         Followed(x, Present, moved)
  PROVE  Followed(x, Present', moved')
<1>1. /\ Present.at = now /\ Present.boot = node.boot /\ Present.counters = node.counters
      /\ Present'.at = now /\ Present'.boot = node'.boot
      /\ Present'.counters = node'.counters
  BY DEF Present
<1>2. node \in Nodes /\ node.boot \in Nat /\ node.counters \in Counters
  BY MovedValues
<1>3. /\ moved' = moved /\ moved[now + 1] \in Nat /\ moved[x.at + 1] \in Nat
  <2>1. now \in 0 .. now
    BY MovedValues
  <2> QED BY <2>1, MovedValues
<1>4. /\ x.boot <= node.boot
      /\ x.boot = node.boot => \A c \in Cards : x.counters[c].index <= node.counters[c].index
      /\ x.boot = node.boot /\ SameCards(x, Present) =>
           /\ Total(node.counters) - Total(x.counters) = moved[now + 1] - moved[x.at + 1]
           /\ \A c \in Cards : x.counters[c].bytes <= node.counters[c].bytes
      /\ Total(node.counters) - Total(x.counters) <= moved[now + 1] - moved[x.at + 1]
  BY <1>1 DEF Followed
<1>5. ASSUME node' \in Nodes, \A c \in Cards : node'.counters[c].bytes <= node.counters[c].bytes
      PROVE  Total(node'.counters) - Total(x.counters) <= moved[now + 1] - moved[x.at + 1]
  <2>1. node'.counters \in Counters
    BY <1>5 DEF Nodes
  <2>2. \A c \in Cards : node'.counters[c].bytes \in Nat /\ node.counters[c].bytes \in Nat
    BY <1>2, <2>1 DEF Counters
  <2>3. Total(node'.counters) <= Total(node.counters)
    BY <1>2, <1>5, <2>1, <2>2, TotalGrows
  <2>4. Total(node'.counters) \in Nat /\ Total(node.counters) \in Nat /\ Total(x.counters) \in Nat
    BY <1>2, <2>1, TotalBounds
  <2> QED BY <1>3, <1>4, <2>3, <2>4
<1>6. CASE Reboot
  <2>1. /\ node' \in Nodes /\ node'.boot = node.boot + 1
        /\ \A c \in Cards : node'.counters[c].bytes = 0
    BY <1>2, <1>6, RebootParts
  <2>2. \A c \in Cards : node'.counters[c].bytes <= node.counters[c].bytes
    <3>1. \A c \in Cards : node.counters[c].bytes \in Nat
      BY <1>2 DEF Counters
    <3> QED BY <2>1, <3>1
  <2>3. Total(node'.counters) - Total(x.counters) <= moved[now + 1] - moved[x.at + 1]
    BY <1>5, <2>1, <2>2
  <2>4. x.boot <= node'.boot /\ x.boot # node'.boot
    BY <1>2, <1>4, <2>1
  <2> QED BY <1>1, <1>3, <2>3, <2>4 DEF Followed
<1>7. CASE Upgrade
  <2>1. node'.boot = node.boot /\ node'.counters = node.counters
    BY <1>2, <1>7, UpgradeParts
  <2>2. SameCards(x, Present') <=> SameCards(x, Present)
    BY <1>1, <2>1 DEF SameCards
  <2> QED BY <1>1, <1>3, <1>4, <2>1, <2>2 DEF Followed
<1>8. ASSUME NEW card \in Cards, Replace(card)
      PROVE  Followed(x, Present', moved')
  <2>1. /\ node' \in Nodes /\ node'.boot = node.boot
        /\ node'.counters[card].index = node.counters[card].index + 1
        /\ node'.counters[card].bytes = 0
        /\ \A c \in Cards \ {card} : node'.counters[c] = node.counters[c]
    BY <1>2, <1>8, ReplaceParts
  <2>2. \A c \in Cards : /\ node.counters[c].bytes \in Nat /\ node.counters[c].index \in Nat
                         /\ x.counters[c].index \in Nat
    BY <1>2 DEF Counters
  <2>3. \A c \in Cards : node'.counters[c].bytes <= node.counters[c].bytes
    <3>1. ASSUME NEW c \in Cards PROVE node'.counters[c].bytes <= node.counters[c].bytes
      <4>1. CASE c = card
        BY <2>1, <2>2, <4>1
      <4>2. CASE c # card
        <5>1. node'.counters[c] = node.counters[c] /\ node.counters[c].bytes \in Nat
          BY <2>1, <2>2, <4>2
        <5> QED BY <5>1
      <4> QED BY <4>1, <4>2
    <3> QED BY <3>1
  <2>4. Total(node'.counters) - Total(x.counters) <= moved[now + 1] - moved[x.at + 1]
    BY <1>5, <2>1, <2>3
  <2>5. x.boot = node'.boot => \A c \in Cards : x.counters[c].index <= node'.counters[c].index
    <3>1. ASSUME x.boot = node'.boot, NEW c \in Cards
          PROVE  x.counters[c].index <= node'.counters[c].index
      <4>1. x.counters[c].index <= node.counters[c].index
        BY <1>4, <2>1, <3>1
      <4>2. CASE c = card
        BY <2>1, <2>2, <4>1, <4>2
      <4>3. CASE c # card
        BY <2>1, <4>1, <4>3
      <4> QED BY <4>2, <4>3
    <3> QED BY <3>1
  <2>6. x.boot = node'.boot => ~SameCards(x, Present')
    <3> SUFFICES ASSUME x.boot = node'.boot PROVE ~SameCards(x, Present')
      OBVIOUS
    <3>1. x.counters[card].index <= node.counters[card].index
      BY <1>4, <2>1
    <3>2. x.counters[card].index # node'.counters[card].index
      BY <2>1, <2>2, <3>1
    <3> QED BY <1>1, <3>2 DEF SameCards
  <2> QED BY <1>1, <1>3, <1>4, <2>1, <2>4, <2>5, <2>6 DEF Followed
<1> QED BY <1>6, <1>7, <1>8

LEMMA ReadingsKept ==
  ASSUME ReadingsOrdered, Readings' \subseteq Readings, UNCHANGED <<now, moved, node, sent>>
  PROVE  ReadingsOrdered'
<1>1. Present' = Present
  BY DEF Present
<1> HIDE DEF Readings
<1> QED BY <1>1 DEF ReadingsOrdered, Followed, SameCards

LEMMA HoldsLater ==
  ASSUME MeterTyped, NEW b \in Nat, moved' = Append(moved, Moved(now) + b),
         NEW p, HistoryHolds(p, moved), HistoryFits(p, now), p # Nothing => p.metric <= now
  PROVE  HistoryHolds(p, moved')
<1> SUFFICES ASSUME p # Nothing
             PROVE  HistoryHolds(p, moved')
  BY DEF HistoryHolds
<1>1. p.since \in Nat /\ p.metric \in Nat /\ p.since <= p.metric /\ p.metric <= now
  BY DEF HistoryFits, Histories, HistoryHolds
<1>2. now \in Nat /\ \A i \in 1 .. now + 1 : moved'[i] = moved[i]
  BY MovedOn, MovedValues
<1>3. moved'[p.since + 1] = moved[p.since + 1] /\ moved'[p.metric + 1] = moved[p.metric + 1]
  <2>1. p.since + 1 \in 1 .. now + 1 /\ p.metric + 1 \in 1 .. now + 1
    BY <1>1, <1>2
  <2> QED BY <1>2, <2>1
<1> QED BY <1>3 DEF HistoryHolds

(* An advance counts what the counters gained, and never a restart.        *)
LEMMA AdvancedHolds ==
  ASSUME MeterTyped, NEW p \in Histories, p # Nothing, HistoryHolds(p, moved),
         HistoryFits(p, now), NEW m \in Metrics, Advances(p, m), m.at \in 0 .. now,
         Followed(LastOf(p), ReadingOf(m), moved)
  PROVE  HistoryHolds(Advanced(p, m), moved)
<1> DEFINE h == Advanced(p, m)
           a == moved[p.since + 1]
           b == moved[p.metric + 1]
           c == moved[m.at + 1]
<1>1. /\ p.since \in Nat /\ p.metric \in Nat /\ p.last \in Nat /\ p.buckets \in Seq(Buckets)
      /\ p.last <= now /\ p.since <= p.metric
      /\ Bytes(p.buckets) <= Scale * (b - a)
  BY DEF Histories, HistoryFits, HistoryHolds
<1>2. p.metric < m.at /\ p.last < now /\ now \in Nat /\ m.at \in Nat
  BY <1>1, MovedValues DEF Advances
<1>3. p.since \in 0 .. now /\ p.metric \in 0 .. now
  BY <1>1, <1>2
<1>4. a \in Nat /\ b \in Nat /\ c \in Nat /\ a <= b /\ b <= c /\ Scale \in Nat
  <2>1. a \in Nat /\ b \in Nat /\ c \in Nat /\ Scale \in Nat
    BY <1>3, MovedValues
  <2>2. p.since <= p.metric /\ p.metric <= m.at
    BY <1>1, <1>2
  <2>3. a <= b
    BY <1>3, <2>2, MovedValues
  <2>4. b <= c
    BY <1>3, <2>2, MovedValues
  <2> QED BY <2>1, <2>3, <2>4
<1>5. /\ h.since = p.since /\ h.metric = m.at
      /\ h.buckets = (IF WasReset(p, m) THEN p.buckets ELSE Extended(p.buckets, Pieces(p, m)))
  BY AdvancedParts
<1>6. Bytes(p.buckets) \in Nat
  BY <1>1, BytesNat
<1>7. CASE WasReset(p, m)
  <2>1. h.buckets = p.buckets
    BY <1>5, <1>7
  <2> HIDE DEF h, a, b, c
  <2>2. Scale * (b - a) <= Scale * (c - a)
    <3>1. b - a <= c - a /\ b - a \in Nat /\ c - a \in Nat
      BY <1>4
    <3> DEFINE x == b - a
               y == c - a
    <3> HIDE DEF x, y
    <3>2. x \in Nat /\ y \in Nat /\ x <= y => Scale * x <= Scale * y
      BY <1>4, Z3
    <3> QED BY <3>1, <3>2 DEF x, y
  <2>3. Scale * (b - a) \in Int /\ Scale * (c - a) \in Int
    BY <1>4
  <2>4. Bytes(h.buckets) <= Scale * (c - a)
    BY <1>1, <1>6, <2>1, <2>2, <2>3
  <2>5. h.since <= h.metric
    BY <1>1, <1>2, <1>5
  <2> QED BY <1>5, <2>4, <2>5 DEF HistoryHolds, h, a, b, c
<1>8. CASE ~WasReset(p, m)
  <2> DEFINE d == Delta(p.counters, m.counters)
             q == Pieces(p, m)
  <2>1. d = c - b
    <3>1. LastOf(p).boot = ReadingOf(m).boot /\ SameCards(LastOf(p), ReadingOf(m))
      BY <1>8, ReadingParts DEF WasReset, DeltaValid, SameCards
    <3>2. /\ LastOf(p).counters = p.counters /\ ReadingOf(m).counters = m.counters
          /\ LastOf(p).at = p.metric /\ ReadingOf(m).at = m.at
      BY ReadingParts
    <3> QED BY <3>1, <3>2 DEF Followed, Delta
  <2>2. d \in Nat
    BY <1>4, <2>1
  <2>3. q \in Seq(Buckets) /\ Bytes(q) <= Scale * d
    BY <1>2, <2>2, PiecesFit
  <2>4. Bytes(Extended(p.buckets, q)) = Bytes(p.buckets) + Bytes(q) /\ Bytes(q) \in Nat
    BY <1>1, <2>3, BytesExtended, BytesNat
  <2>5. h.buckets = Extended(p.buckets, q)
    BY <1>5, <1>8
  <2> HIDE DEF h, a, b, c, d, q
  <2>6. Scale * (c - a) = Scale * (b - a) + Scale * (c - b)
    BY <1>4
  <2>7. Scale * (b - a) \in Int /\ Scale * (c - b) \in Int
    BY <1>4
  <2>8. Bytes(h.buckets) <= Scale * (c - a)
    BY <1>1, <1>6, <2>1, <2>3, <2>4, <2>5, <2>6, <2>7
  <2>9. h.since <= h.metric
    BY <1>1, <1>2, <1>5
  <2> QED BY <1>5, <2>8, <2>9 DEF HistoryHolds, h, a, b, c
<1> QED BY <1>7, <1>8

LEMMA CollectedHolds ==
  ASSUME NEW p, NEW mv, HistoryHolds(p, mv), p # Nothing => p \in Histories,
         p # Nothing => Scale * (mv[p.metric + 1] - mv[p.since + 1]) \in Nat
  PROVE  /\ HistoryHolds(Collected(p), mv)
         /\ Collected(p) # Nothing => p # Nothing /\ LastOf(Collected(p)) = LastOf(p)
<1> SUFFICES ASSUME Collected(p) # Nothing
             PROVE  HistoryHolds(Collected(p), mv) /\ p # Nothing /\ LastOf(Collected(p)) = LastOf(p)
  BY DEF HistoryHolds
<1>1. p # Nothing
  BY DEF Collected
<1>2. p \in Histories /\ p.buckets \in Seq(Buckets)
  BY <1>1 DEF Histories
<1> DEFINE h == Collected(p)
           z == Scale * (mv[p.metric + 1] - mv[p.since + 1])
<1>3. /\ h.metric = p.metric /\ h.since = p.since /\ h.boot = p.boot /\ h.counters = p.counters
      /\ \/ h.buckets = <<>>
         \/ \E i \in 1 .. Len(p.buckets) : h.buckets = SubSeq(p.buckets, i, Len(p.buckets))
  BY <1>2, CollectedParts
<1>4. p.since <= p.metric /\ Bytes(p.buckets) <= z /\ z \in Nat /\ Bytes(p.buckets) \in Nat
  BY <1>1, <1>2, BytesNat DEF HistoryHolds
<1> HIDE DEF h, z
<1>5. Bytes(h.buckets) <= z
  <2>1. CASE h.buckets = <<>>
    BY <1>4, <2>1, BytesSmall
  <2>2. ASSUME NEW i \in 1 .. Len(p.buckets), h.buckets = SubSeq(p.buckets, i, Len(p.buckets))
        PROVE  Bytes(h.buckets) <= z
    <3>1. h.buckets \in Seq(Buckets) /\ Bytes(h.buckets) <= Bytes(p.buckets)
      BY <1>2, <2>2, BytesSuffix
    <3>2. Bytes(h.buckets) \in Nat
      BY <3>1, BytesNat
    <3> QED BY <1>4, <3>1, <3>2
  <2> QED BY <1>3, <2>1, <2>2
<1> QED BY <1>1, <1>3, <1>4, <1>5 DEF HistoryHolds, LastOf, h, z

LEMMA SampledHolds ==
  ASSUME MeterTyped, NEW p, HistoryHolds(p, moved), HistoryFits(p, now),
         NEW m \in Metrics \cup {Nothing}, NEW t,
         p # Nothing => p.metric <= now,
         m # Nothing => m.at \in 0 .. now,
         p # Nothing /\ m # Nothing /\ p.metric < m.at => Followed(LastOf(p), ReadingOf(m), moved)
  PROVE  LET h == Collected(Sampled(p, m, t)) IN
         /\ HistoryHolds(h, moved)
         /\ h # Nothing => \/ m # Nothing /\ LastOf(h) = ReadingOf(m)
                           \/ p # Nothing /\ LastOf(h) = LastOf(p)
<1> DEFINE s == Sampled(p, m, t)
<1>0. now \in Nat
  BY MovedValues
<1>1. /\ HistoryHolds(s, moved) /\ HistoryFits(s, now)
      /\ s # Nothing => /\ s.metric <= now
                        /\ \/ m # Nothing /\ LastOf(s) = ReadingOf(m)
                           \/ p # Nothing /\ LastOf(s) = LastOf(p)
  <2>1. CASE ~Usable(m, t)
    BY <2>1 DEF Sampled
  <2>2. CASE Usable(m, t) /\ p = Nothing
    <3>1. m \in Metrics /\ m # Nothing /\ s = NewHistory(m)
      BY <2>2 DEF Usable, Sampled
    <3>2. /\ s.metric = m.at /\ s.since = m.at /\ s.boot = m.boot /\ s.counters = m.counters
          /\ s.buckets = <<>>
      BY <3>1 DEF NewHistory
    <3>3. m.at \in 0 .. now /\ moved[m.at + 1] \in Nat /\ Scale \in Nat
      BY <3>1, MovedValues
    <3>4. Scale * (moved[m.at + 1] - moved[m.at + 1]) = 0
      BY <3>3
    <3>5. HistoryHolds(s, moved)
      BY <3>2, <3>3, <3>4, BytesSmall DEF HistoryHolds
    <3>6. HistoryFits(s, now)
      BY <1>0, <3>1, NewHistoryFits
    <3> HIDE DEF s
    <3>7. LastOf(s) = ReadingOf(m) /\ s.metric <= now
      BY <3>2, <3>3 DEF LastOf, ReadingOf
    <3> QED BY <3>1, <3>5, <3>6, <3>7
  <2>3. CASE Usable(m, t) /\ p # Nothing /\ Advances(p, m)
    <3>1. m \in Metrics /\ m # Nothing /\ p \in Histories /\ s = Advanced(p, m)
      BY <2>3 DEF Usable, Sampled, HistoryFits
    <3>2. p.metric < m.at /\ m.at \in 0 .. now
      <4>1. p.metric \in Nat
        BY <3>1 DEF Histories
      <4> QED BY <2>3, <3>1, <4>1, <1>0 DEF Advances
    <3>3. HistoryHolds(s, moved) /\ HistoryFits(s, now)
      BY <1>0, <2>3, <3>1, <3>2, AdvancedHolds, AdvancedFits
    <3>4. s.metric = m.at /\ s.boot = m.boot /\ s.counters = m.counters
      BY <3>1, AdvancedParts
    <3> HIDE DEF s
    <3>5. LastOf(s) = ReadingOf(m) /\ s.metric <= now
      BY <3>2, <3>4, <1>0 DEF LastOf, ReadingOf
    <3> QED BY <3>1, <3>3, <3>5
  <2>4. CASE Usable(m, t) /\ p # Nothing /\ ~Advances(p, m)
    BY <2>4 DEF Sampled
  <2> QED BY <2>1, <2>2, <2>3, <2>4
<1> HIDE DEF s
<1>2. s # Nothing => s \in Histories /\ Scale * (moved[s.metric + 1] - moved[s.since + 1]) \in Nat
  <2> SUFFICES ASSUME s # Nothing
               PROVE  s \in Histories /\ Scale * (moved[s.metric + 1] - moved[s.since + 1]) \in Nat
    OBVIOUS
  <2>1. s \in Histories /\ s.since \in Nat /\ s.metric \in Nat /\ s.metric <= now /\ s.since <= s.metric
    BY <1>1 DEF HistoryFits, Histories, HistoryHolds
  <2>2. s.since \in 0 .. now /\ s.metric \in 0 .. now
    BY <1>0, <2>1
  <2> DEFINE x == moved[s.since + 1]
             y == moved[s.metric + 1]
  <2>3. x \in Nat /\ y \in Nat /\ x <= y /\ Scale \in Nat
    BY <2>1, <2>2, MovedValues
  <2> HIDE DEF x, y
  <2>4. y - x \in Nat
    BY <2>3
  <2>5. Scale * (y - x) \in Nat
    BY <2>3, <2>4
  <2> QED BY <2>1, <2>5 DEF x, y
<1>3. /\ HistoryHolds(Collected(s), moved)
      /\ Collected(s) # Nothing => s # Nothing /\ LastOf(Collected(s)) = LastOf(s)
  BY <1>1, <1>2, CollectedHolds
<1> QED BY <1>1, <1>3 DEF s

LEMMA MeterSoundInit == MeterInit => MeterSound
<1> SUFFICES ASSUME MeterInit PROVE MeterSound
  OBVIOUS
<1>1. wire = {} /\ store.latest = Nothing /\ storeFile.latest = Nothing
      /\ host = Nothing /\ hostFile = Nothing
  BY DEF MeterInit, NewStore
<1>2. Readings = {}
  BY <1>1 DEF Readings
<1> QED BY <1>1, <1>2 DEF MeterSound, ReadingsOrdered, HistoryHolds

LEMMA MeterSoundStep == MeterTyped /\ MeterSound /\ [MeterNext]_meterVars => MeterSound'
<1> SUFFICES ASSUME MeterTyped, MeterSound, [MeterNext]_meterVars PROVE MeterSound'
  OBVIOUS
<1>0. /\ ReadingsOrdered /\ HistoryHolds(host, moved) /\ HistoryHolds(hostFile, moved)
      /\ HistoryFits(host, now) /\ HistoryFits(hostFile, now)
      /\ now \in Nat /\ node \in Nodes /\ wire \subseteq Metrics
      /\ store.latest \in Metrics \cup {Nothing}
  BY MovedValues DEF MeterSound, MeterTyped, StoreFits
<1>a. \A x \in Readings : /\ x.at \in 0 .. now /\ x.boot \in Nat /\ x.counters \in Counters
                          /\ x.at = now => sent = now
                          /\ Followed(x, Present, moved)
  BY <1>0 DEF ReadingsOrdered
<1>b. \A x \in Readings : \A y \in Readings : x.at < y.at => Followed(x, y, moved)
  BY <1>0 DEF ReadingsOrdered
<1>c. /\ \A m \in wire : ReadingOf(m) \in Readings
      /\ store.latest # Nothing => ReadingOf(store.latest) \in Readings
      /\ storeFile.latest # Nothing => ReadingOf(storeFile.latest) \in Readings
      /\ host # Nothing => LastOf(host) \in Readings
      /\ hostFile # Nothing => LastOf(hostFile) \in Readings
  BY DEF Readings
<1>d. /\ host # Nothing => host.metric <= now
      /\ hostFile # Nothing => hostFile.metric <= now
  <2>1. ASSUME NEW p, LastOf(p) \in Readings PROVE p.metric <= now
    <3>1. p.metric \in 0 .. now
      BY <1>a, <2>1, ReadingParts
    <3> QED BY <1>0, <3>1
  <2> QED BY <1>c, <2>1
<1>1. CASE PassUnit
  <2>1. /\ now' = now + 1 /\ sent' = sent /\ wire' \subseteq wire
        /\ UNCHANGED <<store, storeFile, host, hostFile>>
    BY <1>1 DEF PassUnit, storeVars, hostVars
  <2>2. Readings' \subseteq Readings
    BY <2>1 DEF Readings
  <2>3. PICK b \in Nat :
          /\ moved' = Append(moved, Moved(now) + b)
          /\ node' \in Nodes /\ node'.boot = node.boot
          /\ \A c \in Cards : /\ node'.counters[c].index = node.counters[c].index
                             /\ node'.counters[c].bytes >= node.counters[c].bytes
          /\ Total(node'.counters) = Total(node.counters) + b
    <3>0. node.counters \in Counters /\ Total(node.counters) \in Nat
          /\ Moved(now) \in Nat
      <4>1. node.counters \in Counters /\ now \in 0 .. now
        BY <1>0, MovedValues
      <4>2. Moved(now) \in Nat
        BY <4>1, MovedValues
      <4> QED BY <4>1, <4>2, TotalBounds
    <3>1. CASE Idle
      <4>1. moved' = Append(moved, Moved(now) + 0) /\ node' = node
        BY <3>0, <3>1 DEF Idle
      <4>2. Total(node'.counters) = Total(node.counters) + 0 /\ 0 \in Nat
        BY <3>0, <4>1
      <4>3. \A c \in Cards : node.counters[c].bytes \in Nat
        BY <3>0 DEF Counters
      <4>4. \A c \in Cards : /\ node'.counters[c].index = node.counters[c].index
                             /\ node'.counters[c].bytes >= node.counters[c].bytes
        BY <4>1, <4>3
      <4> QED BY <1>0, <4>1, <4>2, <4>4
    <3>2. ASSUME NEW card \in Cards, Carry(card)
          PROVE  \E b \in Nat :
                   /\ moved' = Append(moved, Moved(now) + b)
                   /\ node' \in Nodes /\ node'.boot = node.boot
                   /\ \A c \in Cards : /\ node'.counters[c].index = node.counters[c].index
                                      /\ node'.counters[c].bytes >= node.counters[c].bytes
                   /\ Total(node'.counters) = Total(node.counters) + b
      <4>1. /\ moved' = Append(moved, Moved(now) + Packet) /\ Packet \in Nat
            /\ node' = [node EXCEPT !.counters[card].bytes = @ + Packet]
        BY <3>2, MeteringAssumption DEF Carry
      <4>2. /\ node' \in Nodes /\ node'.boot = node.boot
            /\ node'.counters = [node.counters EXCEPT ![card].bytes = @ + Packet]
        BY <1>0, <4>1, CarryParts
      <4>3. Total(node'.counters) = Total(node.counters) + Packet
        BY <3>0, <4>2, TotalCarried
      <4>4. ASSUME NEW c \in Cards
            PROVE  /\ node'.counters[c].index = node.counters[c].index
                   /\ node'.counters[c].bytes >= node.counters[c].bytes
        <5>1. node.counters[c].bytes \in Nat
          BY <3>0 DEF Counters
        <5>2. CASE c = card
          BY <3>0, <4>1, <4>2, <5>1, <5>2 DEF Counters
        <5>3. CASE c # card
          BY <3>0, <4>2, <5>1, <5>3 DEF Counters
        <5> QED BY <5>2, <5>3
      <4> QED BY <4>1, <4>2, <4>3, <4>4
    <3> QED BY <1>1, <3>1, <3>2 DEF PassUnit
  <2>4. ASSUME NEW x \in Readings'
        PROVE  /\ x.at \in 0 .. now' /\ x.boot \in Nat /\ x.counters \in Counters
               /\ x.at = now' => sent' = now'
               /\ Followed(x, Present', moved')
    <3>1. x \in Readings
      BY <2>2
    <3>2. x.at \in 0 .. now /\ x.boot \in Nat /\ x.counters \in Counters
          /\ Followed(x, Present, moved)
      BY <1>a, <3>1
    <3>3. x.at \in 0 .. now' /\ x.at # now'
      BY <1>0, <2>1, <3>2
    <3>4. Followed(x, Present', moved')
      BY <2>1, <2>3, <3>2, FollowedCarried
    <3> QED BY <3>2, <3>3, <3>4
  <2>5. ASSUME NEW x \in Readings', NEW y \in Readings', x.at < y.at
        PROVE  Followed(x, y, moved')
    <3>1. x \in Readings /\ y \in Readings
      BY <2>2
    <3>2. x.at \in 0 .. now /\ y.at \in 0 .. now /\ Followed(x, y, moved)
      BY <1>a, <1>b, <2>5, <3>1
    <3> QED BY <2>3, <3>2, FollowedLater
  <2>6. HistoryHolds(host, moved') /\ HistoryHolds(hostFile, moved')
    BY <1>0, <1>d, <2>3, HoldsLater
  <2>7. ReadingsOrdered'
    <3> HIDE DEF Readings, Present, Followed
    <3> QED BY <2>4, <2>5 DEF ReadingsOrdered, Followed, SameCards
  <2> QED BY <2>1, <2>6, <2>7 DEF MeterSound
<1>2. CASE RestartCounters
  <2>1. /\ UNCHANGED <<now, moved, sent, wire, store, storeFile, host, hostFile>>
        /\ Reboot \/ Upgrade \/ \E card \in Cards : Replace(card)
    BY <1>2 DEF RestartCounters, storeVars, hostVars
  <2>2. Readings' = Readings
    BY <2>1 DEF Readings
  <2>3. \A x \in Readings' : Followed(x, Present', moved')
    BY <1>a, <2>1, <2>2, FollowedRestarted
  <2>4. ReadingsOrdered'
    <3>1. \A x \in Readings' : /\ x.at \in 0 .. now' /\ x.boot \in Nat /\ x.counters \in Counters
                               /\ x.at = now' => sent' = now'
      BY <1>a, <2>1, <2>2
    <3>2. \A x \in Readings' : \A y \in Readings' : x.at < y.at => Followed(x, y, moved')
      BY <1>b, <2>1, <2>2
    <3> QED BY <2>3, <3>1, <3>2 DEF ReadingsOrdered, Followed, SameCards
  <2> QED BY <1>0, <2>1, <2>4 DEF MeterSound, HistoryHolds
<1>3. CASE Report
  <2>1. /\ UNCHANGED <<now, moved, node, store, storeFile, host, hostFile>>
        /\ sent # now /\ sent' = now /\ wire' \in {wire, wire \cup {NewMetric}}
    BY <1>3 DEF Report, storeVars, hostVars
  <2>2. Readings' \subseteq Readings \cup {Present}
    <3>1. ReadingOf(NewMetric) = Present
      BY DEF NewMetric, ReadingOf, Present
    <3>2. \A m \in wire' : m \in wire \/ m = NewMetric
      BY <2>1
    <3> QED BY <2>1, <3>1, <3>2 DEF Readings
  <2>3. Present' = Present /\ Present.at = now /\ Present.boot \in Nat
        /\ Present.counters \in Counters
    BY <2>1, MovedValues DEF Present
  <2>4. Followed(Present, Present, moved)
    <3>1. Total(Present.counters) \in Nat /\ moved[Present.at + 1] \in Nat
      <4>1. now \in 0 .. now
        BY <1>0
      <4> QED BY <2>3, <4>1, MovedValues, TotalBounds
    <3>2. \A c \in Cards : Present.counters[c].index \in Nat /\ Present.counters[c].bytes \in Nat
      BY <2>3 DEF Counters
    <3> DEFINE u == Total(Present.counters)
               w == moved[Present.at + 1]
    <3>3. u \in Nat /\ w \in Nat
      BY <3>1
    <3>4. u - u = w - w /\ u - u <= w - w
      <4> HIDE DEF u, w
      <4> QED BY <3>3
    <3>5. Present.boot <= Present.boot
      BY <2>3
    <3> QED BY <3>2, <3>4, <3>5 DEF Followed
  <2>5. ASSUME NEW x \in Readings' PROVE x = Present \/ (x \in Readings /\ x.at < now)
    <3>1. ASSUME x \in Readings PROVE x.at < now
      BY <1>0, <1>a, <2>1, <3>1
    <3> QED BY <2>2, <3>1
  <2>6. ASSUME NEW x \in Readings'
        PROVE  /\ x.at \in 0 .. now' /\ x.boot \in Nat /\ x.counters \in Counters
               /\ x.at = now' => sent' = now'
               /\ Followed(x, Present', moved')
    BY <1>0, <1>a, <2>1, <2>3, <2>4, <2>5
  <2>7. ASSUME NEW x \in Readings', NEW y \in Readings', x.at < y.at
        PROVE  Followed(x, y, moved')
    <3>1. CASE x = Present
      <4>1. ~(x.at < y.at)
        <5>1. y.at = now \/ (y \in Readings /\ y.at < now)
          BY <2>3, <2>5
        <5> QED BY <1>0, <1>a, <2>3, <3>1, <5>1
      <4> QED BY <2>7, <4>1
    <3>2. CASE x \in Readings /\ y = Present
      BY <1>a, <2>1, <3>2
    <3>3. CASE x \in Readings /\ y \in Readings
      BY <1>b, <2>1, <2>7, <3>3
    <3> QED BY <2>5, <3>1, <3>2, <3>3
  <2>8. ReadingsOrdered'
    BY <2>6, <2>7 DEF ReadingsOrdered, Followed, SameCards
  <2> QED BY <1>0, <2>1, <2>8 DEF MeterSound, HistoryHolds
<1>4. ASSUME NEW m \in wire, HandleMetric(m) PROVE MeterSound'
  <2>1. /\ UNCHANGED <<now, moved, node, sent, storeFile, host, hostFile>>
        /\ wire' \subseteq wire /\ store' = UpdateMetric([store EXCEPT !.contact = now], m)
    BY <1>4 DEF HandleMetric, nodeVars, hostVars
  <2>2. store'.latest \in {m, store.latest}
    <3>1. DOMAIN store = {"latest", "contact", "daily", "known"}
      BY DEF MeterTyped, StoreFits
    <3>2. UpdateMetric([store EXCEPT !.contact = now], m).latest \in {m, store.latest}
      BY <3>1, UpdatedLatest
    <3> QED BY <2>1, <3>2
  <2>3. Readings' \subseteq Readings
    BY <2>1, <2>2 DEF Readings
  <2>4. ReadingsOrdered'
    BY <1>0, <2>1, <2>3, ReadingsKept
  <2> QED BY <1>0, <2>1, <2>4 DEF MeterSound, HistoryHolds
<1>5. CASE HostRound
  <2>1. /\ UNCHANGED <<now, moved, node, sent, wire, store, storeFile>>
        /\ host' = Collected(Sampled(host, store.latest, store.contact))
        /\ hostFile' \in {hostFile, host'}
    BY <1>5 DEF HostRound, nodeVars, storeVars
  <2>2. store.latest # Nothing => store.latest.at \in 0 .. now
    BY <1>a, <1>c, ReadingParts
  <2>3. host # Nothing /\ store.latest # Nothing /\ host.metric < store.latest.at =>
          Followed(LastOf(host), ReadingOf(store.latest), moved)
    BY <1>b, <1>c, ReadingParts
  <2>4. /\ HistoryHolds(host', moved)
        /\ host' # Nothing => \/ store.latest # Nothing /\ LastOf(host') = ReadingOf(store.latest)
                              \/ host # Nothing /\ LastOf(host') = LastOf(host)
    BY <1>0, <1>d, <2>1, <2>2, <2>3, SampledHolds
  <2>5. host' # Nothing => LastOf(host') \in Readings
    BY <1>c, <2>4
  <2>6. Readings' \subseteq Readings
    <3>1. \A p \in {host', hostFile'} \ {Nothing} : LastOf(p) \in Readings
      BY <1>c, <2>1, <2>5
    <3>2. \A m \in wire' \cup ({store'.latest, storeFile'.latest} \ {Nothing}) : ReadingOf(m) \in Readings
      BY <1>c, <2>1
    <3>3. Readings' = {ReadingOf(m) : m \in wire' \cup ({store'.latest, storeFile'.latest} \ {Nothing})}
                        \cup {LastOf(p) : p \in {host', hostFile'} \ {Nothing}}
      BY DEF Readings, ReadingOf, LastOf
    <3> HIDE DEF Readings
    <3> QED BY <3>1, <3>2, <3>3
  <2>7. ReadingsOrdered'
    BY <1>0, <2>1, <2>6, ReadingsKept
  <2>8. HistoryHolds(hostFile', moved)
    BY <1>0, <2>1, <2>4
  <2>9. HistoryHolds(host', moved') /\ HistoryHolds(hostFile', moved')
    BY <2>1, <2>4, <2>8
  <2> QED BY <2>7, <2>9 DEF MeterSound, HistoryHolds
<1>6. CASE FlushStore
  <2>1. /\ UNCHANGED <<now, moved, node, sent, wire, store, host, hostFile>>
        /\ storeFile' = store
    BY <1>6 DEF FlushStore, nodeVars, hostVars
  <2>2. Readings' \subseteq Readings
    BY <2>1 DEF Readings
  <2>3. ReadingsOrdered'
    BY <1>0, <2>1, <2>2, ReadingsKept
  <2> QED BY <1>0, <2>1, <2>3 DEF MeterSound, HistoryHolds
<1>7. CASE Stop
  <2>1. /\ UNCHANGED <<now, moved, node, sent, wire, storeFile, hostFile>>
        /\ store'.latest = Nothing /\ host' = Nothing
    BY <1>7 DEF Stop, nodeVars, NewStore
  <2>2. Readings' \subseteq Readings
    BY <2>1 DEF Readings
  <2>3. ReadingsOrdered'
    BY <1>0, <2>1, <2>2, ReadingsKept
  <2> QED BY <1>0, <2>1, <2>3 DEF MeterSound, HistoryHolds
<1>8. CASE Start
  <2>1. /\ UNCHANGED <<now, moved, node, sent, wire, storeFile, hostFile>>
        /\ store' = storeFile /\ host' = hostFile
    BY <1>8 DEF Start, nodeVars
  <2>2. Readings' \subseteq Readings
    BY <2>1 DEF Readings
  <2>3. ReadingsOrdered'
    BY <1>0, <2>1, <2>2, ReadingsKept
  <2> QED BY <1>0, <2>1, <2>3 DEF MeterSound, HistoryHolds
<1>9. CASE UNCHANGED meterVars
  <2>1. UNCHANGED <<now, moved, node, sent, wire, store, storeFile, host, hostFile>>
    BY <1>9 DEF meterVars, nodeVars, storeVars, hostVars
  <2>2. Readings' \subseteq Readings
    BY <2>1 DEF Readings
  <2>3. ReadingsOrdered'
    BY <1>0, <2>1, <2>2, ReadingsKept
  <2> QED BY <1>0, <2>1, <2>3 DEF MeterSound, HistoryHolds
<1> QED BY <1>1, <1>2, <1>3, <1>4, <1>5, <1>6, <1>7, <1>8, <1>9 DEF MeterNext

(* No byte is counted twice in a history: whatever was lost, late, saved   *)
(* and read again, or restarted, its buckets hold at most what the node    *)
(* moved between the first and the last metric of it.                      *)
THEOREM NothingCountedTwice == MeterSpec => []NeverOvercounts
<1>1. MeterTyped /\ MeterSound => NeverOvercounts
  <2> SUFFICES ASSUME MeterTyped, MeterSound, host # Nothing
               PROVE  Bytes(host.buckets) <= Scale * (Moved(host.metric) - Moved(host.since))
    BY DEF NeverOvercounts, Bytes
  <2>1. /\ host.since \in Nat /\ host.metric \in Nat /\ host.since <= host.metric
        /\ Bytes(host.buckets) <= Scale * (moved[host.metric + 1] - moved[host.since + 1])
    BY DEF MeterTyped, MeterSound, HistoryFits, Histories, HistoryHolds
  <2>2. LastOf(host) \in Readings
    BY DEF Readings
  <2>3. host.metric \in 0 .. now
    BY <2>2, ReadingParts DEF MeterSound, ReadingsOrdered
  <2>4. host.since \in 0 .. now
    BY <2>1, <2>3, MovedValues
  <2>5. Moved(host.metric) = moved[host.metric + 1] /\ Moved(host.since) = moved[host.since + 1]
    BY <2>3, <2>4, MovedValues
  <2> QED BY <2>1, <2>5
<1>2. MeterSpec => [](MeterTyped /\ MeterSound)
  BY MeterTypedInit, MeterTypedStep, MeterSoundInit, MeterSoundStep, PTL DEF MeterSpec
<1> QED BY <1>1, <1>2, PTL

-----------------------------------------------------------------------------
(* The sum of the days.                                                    *)
DaySum(daily) == MapThenSumSet(LAMBDA d : daily[d], DOMAIN daily)

LEMMA DaySumIs ==
  ASSUME NEW daily, DailyOK(daily), NEW u \in [DOMAIN daily -> Int],
         \A d \in DOMAIN daily : u[d] = daily[d]
  PROVE  \E f : Sums(DOMAIN daily, u, f) /\ DaySum(daily) = f[DOMAIN daily]
<1> DEFINE S == DOMAIN daily
           ch == [s \in SUBSET S |-> CHOOSE x \in s : TRUE]
           Equation(f) == f = [s \in SUBSET S |->
                                 IF s = {} THEN 0
                                 ELSE daily[CHOOSE x \in s : TRUE] + f[s \ {CHOOSE x \in s : TRUE}]]
<1>1. IsFiniteSet(S) /\ u \in [S -> Int] /\ \A x \in S : u[x] = daily[x]
  BY DEF DailyOK
<1>2. Picks(S, ch) /\ \A s \in SUBSET S : ch[s] = CHOOSE x \in s : TRUE
  BY DEF Picks
<1> HIDE DEF ch
<1>3. PICK g \in [SUBSET S -> Int] : Recurs(SUBSET S, u, ch, g)
  BY <1>1, <1>2, SumExists
<1>4. \A s \in SUBSET S : s # {} =>
         ch[s] = (CHOOSE x \in s : TRUE) /\ u[ch[s]] = daily[ch[s]]
  BY <1>1, <1>2 DEF Picks
<1>5. Equation(g)
  <2>1. \A s \in SUBSET S :
          g[s] = IF s = {} THEN 0
                 ELSE daily[CHOOSE x \in s : TRUE] + g[s \ {CHOOSE x \in s : TRUE}]
    <3>1. ASSUME NEW s \in SUBSET S, s # {}
          PROVE  g[s] = daily[CHOOSE x \in s : TRUE] + g[s \ {CHOOSE x \in s : TRUE}]
      <4>1. g[s] = u[ch[s]] + g[s \ {ch[s]}]
        BY <1>3, <3>1 DEF Recurs
      <4> QED BY <1>4, <3>1, <4>1
    <3>2. g[{}] = 0
      BY <1>3 DEF Recurs
    <3> QED BY <3>1, <3>2
  <2> QED BY <2>1
<1> DEFINE f == CHOOSE h : Equation(h)
<1>6. Equation(f)
  <2> HIDE DEF Equation
  <2> QED BY <1>5
<1>7. DaySum(daily) = f[S]
  BY DEF DaySum, MapThenSumSet, MapThenFoldSet
<1> HIDE DEF f
<1>8. Unfolds(S, u, ch, f)
  <2>1. ASSUME NEW s \in SUBSET S, s # {}
        PROVE  f[s] = u[ch[s]] + f[s \ {ch[s]}]
    <3>1. f[s] = daily[CHOOSE x \in s : TRUE] + f[s \ {CHOOSE x \in s : TRUE}]
      BY <1>6, <2>1
    <3> QED BY <1>4, <2>1, <3>1
  <2>2. f[{}] = 0
    BY <1>6
  <2> QED BY <2>1, <2>2 DEF Unfolds
<1>9. Sums(S, u, f)
  BY <1>1, <1>2, <1>8, RecursSums
<1> QED BY <1>7, <1>9

LEMMA SumsAlike ==
  ASSUME NEW S, IsFiniteSet(S), NEW w \in [S -> Int], NEW f, Sums(S, w, f),
         NEW g, Sums(S, w, g)
  PROVE  f[S] = g[S]
<1>1. \A x \in S : w[x] <= w[x]
  OBVIOUS
<1>2. f[S] <= g[S] /\ g[S] <= f[S]
  BY <1>1, SumLess
<1>3. f[S] \in Int /\ g[S] \in Int
  BY DEF Sums
<1> QED BY <1>2, <1>3

LEMMA SumsAdd ==
  ASSUME NEW S, NEW w \in [S -> Int], NEW f, Sums(S, w, f),
         NEW v \in [S -> Int], NEW g, Sums(S, v, g),
         NEW u, \A x \in S : u[x] = w[x] + v[x]
  PROVE  \E h : Sums(S, u, h) /\ h[S] = f[S] + g[S]
<1> DEFINE h == [s \in SUBSET S |-> f[s] + g[s]]
<1>1. /\ \A s \in SUBSET S : h[s] \in Int
      /\ h[{}] = 0 /\ h[S] = f[S] + g[S]
  BY DEF Sums
<1>2. ASSUME NEW s \in SUBSET S, NEW x \in s PROVE h[s] = u[x] + h[s \ {x}]
  <2>1. /\ f[s] = w[x] + f[s \ {x}] /\ g[s] = v[x] + g[s \ {x}]
        /\ {w[x], v[x], f[s \ {x}], g[s \ {x}]} \subseteq Int
    <3>1. x \in S /\ s \ {x} \in SUBSET S
      OBVIOUS
    <3>2. w[x] \in Int /\ v[x] \in Int
      BY <3>1
    <3> QED BY <3>1, <3>2 DEF Sums
  <2>2. u[x] = w[x] + v[x] /\ h[s] = f[s] + g[s] /\ h[s \ {x}] = f[s \ {x}] + g[s \ {x}]
    OBVIOUS
  <2> HIDE DEF h
  <2> QED BY <2>1, <2>2
<1> HIDE DEF h
<1> QED BY <1>1, <1>2 DEF Sums

Padded(S, T, w, u) == \A x \in S : u[x] = IF x \in T THEN w[x] ELSE 0

LEMMA SumsWiden ==
  ASSUME NEW S, NEW T \in SUBSET S, NEW w \in [T -> Int], NEW f, Sums(T, w, f),
         NEW u, Padded(S, T, w, u)
  PROVE  \E h : Sums(S, u, h) /\ h[S] = f[T]
<1> DEFINE h == [s \in SUBSET S |-> f[s \cap T]]
<1>1. \A s \in SUBSET S : h[s] \in Int /\ s \cap T \in SUBSET T /\ h[s] = f[s \cap T]
  BY DEF Sums
<1>2. h[{}] = 0 /\ h[S] = f[T]
  <2>1. {} \cap T = {} /\ S \cap T = T
    OBVIOUS
  <2> QED BY <2>1 DEF Sums
<1> HIDE DEF h
<1>3. ASSUME NEW s \in SUBSET S, NEW x \in s PROVE h[s] = u[x] + h[s \ {x}]
  <2>0. x \in S /\ s \ {x} \in SUBSET S
    OBVIOUS
  <2>1. CASE x \in T
    <3>1. (s \ {x}) \cap T = (s \cap T) \ {x} /\ x \in s \cap T
      BY <2>1
    <3>2. f[s \cap T] = w[x] + f[(s \cap T) \ {x}]
      BY <1>1, <3>1 DEF Sums
    <3>3. u[x] = w[x]
      BY <2>0, <2>1 DEF Padded
    <3>4. h[s \ {x}] = f[(s \ {x}) \cap T] /\ h[s] = f[s \cap T]
      BY <1>1, <2>0
    <3> QED BY <3>1, <3>2, <3>3, <3>4
  <2>2. CASE x \notin T
    <3>1. (s \ {x}) \cap T = s \cap T
      BY <2>2
    <3>2. u[x] = 0
      BY <2>0, <2>2 DEF Padded
    <3>3. h[s \ {x}] = f[(s \ {x}) \cap T] /\ h[s] = f[s \cap T] /\ h[s] \in Int
      BY <1>1, <2>0
    <3>4. h[s \ {x}] = h[s]
      BY <3>1, <3>3
    <3> QED BY <3>2, <3>3, <3>4
  <2> QED BY <2>1, <2>2
<1> QED BY <1>1, <1>2, <1>3 DEF Sums

(* A sum of differences.                                                   *)
Differences(a, b, F, w) ==
  /\ \A d \in a .. (b + 1) : F[d] \in Int
  /\ \A d \in a .. b : w[d] = F[d + 1] - F[d]

LEMMA Telescoped ==
  ASSUME NEW a \in Int, NEW b \in Int, a <= b,
         NEW F, NEW w, Differences(a, b, F, w),
         NEW f, Sums(a .. b, w, f)
  PROVE  f[a .. b] = F[b + 1] - F[a]
<1> DEFINE n == b + 1 - a
           S == a .. b
           T == {k \in 0 .. n : f[a .. (a + k - 1)] = F[a + k] - F[a]}
<1>0. n \in Nat /\ a + n = b + 1 /\ a + n - 1 = b
  OBVIOUS
<1>d. /\ \A d \in a .. (b + 1) : F[d] \in Int
      /\ \A d \in a .. b : w[d] = F[d + 1] - F[d]
  BY DEF Differences
<1> HIDE DEF n
<1>1. 0 \in T
  <2>1. a .. (a + 0 - 1) = {} /\ a + 0 = a /\ F[a] \in Int /\ 0 \in 0 .. n
    BY <1>0, <1>d
  <2>2. f[{}] = 0
    BY DEF Sums
  <2> QED BY <2>1, <2>2
<1>2. ASSUME NEW k \in 1 .. n, k - 1 \in T PROVE k \in T
  <2> DEFINE s == a .. (a + k - 1)
             x == a + k - 1
  <2>1. s \in SUBSET S /\ x \in s /\ s \ {x} = a .. (a + (k - 1) - 1)
    <3>1. k \in Nat /\ k >= 1 /\ k <= n
      OBVIOUS
    <3>2. s \subseteq S /\ x \in s
      BY <1>0, <3>1
    <3>3. ASSUME NEW y \in Int
          PROVE  y \in s \ {x} <=> y \in a .. (a + (k - 1) - 1)
      <4>1. y \in s <=> a <= y /\ y <= a + k - 1
        BY <3>1
      <4>2. y \in a .. (a + (k - 1) - 1) <=> a <= y /\ y <= a + (k - 1) - 1
        BY <3>1
      <4>3. (y <= a + k - 1 /\ y # a + k - 1) <=> y <= a + (k - 1) - 1
        BY <3>1
      <4> HIDE DEF s
      <4> QED BY <4>1, <4>2, <4>3
    <3>4. s \subseteq Int /\ a .. (a + (k - 1) - 1) \subseteq Int
      BY <3>1
    <3> DEFINE r == a .. (a + (k - 1) - 1)
    <3>5. s \ {x} = r
      <4> HIDE DEF s, x, S, r
      <4>1. r \subseteq Int
        BY <3>4 DEF r
      <4>2. \A y \in Int : y \in s \ {x} <=> y \in r
        BY <3>3 DEF r
      <4> QED BY <3>4, <4>1, <4>2
    <3> QED BY <3>2, <3>5
  <2>2. f[s] = w[x] + f[s \ {x}]
    <3> HIDE DEF s, x
    <3> QED BY <2>1 DEF Sums
  <2>3. w[x] = F[x + 1] - F[x] /\ x + 1 = a + k /\ x = a + (k - 1)
    BY <1>0, <1>d
  <2>4. f[s \ {x}] = F[a + (k - 1)] - F[a]
    BY <1>2, <2>1
  <2>5. F[a + k] \in Int /\ F[a + (k - 1)] \in Int /\ F[a] \in Int
    <3>1. a + k \in a .. (b + 1) /\ a + (k - 1) \in a .. (b + 1) /\ a \in a .. (b + 1)
      BY <1>0
    <3> QED BY <1>d, <3>1
  <2>6. f[s] = F[a + k] - F[a]
    <3> HIDE DEF s, x
    <3> QED BY <2>2, <2>3, <2>4, <2>5
  <2> QED BY <2>6
<1>3. n \in T
  <2> HIDE DEF T
  <2>1. \A k \in 0 .. n : k \in T
    BY <1>0, <1>1, <1>2, InductiveUpTo
  <2> QED BY <1>0, <2>1
<1> QED BY <1>0, <1>3

(* A calendar day and its bounds.                                          *)
LEMMA DateBounds ==
  ASSUME NEW t \in Nat, NEW d \in Nat
  PROVE  /\ DateOf(t) \in Nat /\ Day \in Nat \ {0}
         /\ d * Day \in Nat /\ (d + 1) * Day \in Nat /\ d * Day < (d + 1) * Day
         /\ d <= DateOf(t) => d * Day <= t
         /\ d > DateOf(t) => d * Day > t
<1>1. Day \in Nat \ {0}
  BY MeteringAssumption
<1> DEFINE q == t \div Day
<1>2. q \in Nat /\ Day * q <= t /\ t < Day * q + Day
  BY <1>1, DivBounds, DivNat
<1> HIDE DEF q
<1>3. d * Day = Day * d /\ (d + 1) * Day = Day * d + Day /\ Day * d \in Nat /\ Day * q \in Nat
      /\ Day * (q + 1) = Day * q + Day
  BY <1>1, <1>2
<1>4. \A j \in Nat : \A k \in Nat : j <= k => Day * j <= Day * k
  BY <1>1, Z3
<1>5. d <= q => d * Day <= t
  <2> SUFFICES ASSUME d <= q PROVE d * Day <= t
    OBVIOUS
  <2>1. Day * d <= Day * q
    BY <1>2, <1>4
  <2> QED BY <1>2, <1>3, <2>1
<1>6. d > q => d * Day > t
  <2> SUFFICES ASSUME d > q PROVE d * Day > t
    OBVIOUS
  <2>1. q + 1 \in Nat /\ q + 1 <= d
    BY <1>2
  <2>2. Day * (q + 1) <= Day * d
    BY <1>4, <2>1
  <2> DEFINE x == Day * q
             y == Day * d
             z == Day * (q + 1)
  <2>3. x \in Nat /\ y \in Nat /\ z = x + Day /\ z <= y /\ t < x + Day /\ d * Day = y
    BY <1>2, <1>3, <2>2
  <2> HIDE DEF x, y, z
  <2> QED BY <1>1, <2>3
<1>7. (d + 1) * Day \in Nat /\ d * Day \in Nat /\ d * Day < (d + 1) * Day
  BY <1>1, <1>3
<1> QED BY <1>1, <1>2, <1>5, <1>6, <1>7 DEF DateOf, q

(* The days an interval is spread over meet it.                            *)
LEMMA DatesMeet ==
  ASSUME NEW prev \in Metrics, NEW next \in Metrics, prev.at < next.at
  PROVE  LET a == DateOf(next.at) - (Retain - 1) IN
         /\ prev.at \in Nat /\ next.at \in Nat /\ next.at - 1 \in Nat /\ Retain \in Nat \ {0}
         /\ DateOf(prev.at) \in Nat /\ DateOf(next.at) \in Nat /\ DateOf(next.at - 1) \in Nat
         /\ DateOf(prev.at) <= DateOf(next.at - 1) /\ DateOf(next.at - 1) <= DateOf(next.at)
         /\ a \in Int
         /\ DatesBetween(prev, next) =
              (IF DateOf(prev.at) >= a THEN DateOf(prev.at) ELSE a) .. DateOf(next.at - 1)
         /\ \A d \in DatesBetween(prev, next) :
              d \in DateOf(prev.at) .. DateOf(next.at - 1)
         /\ \A d \in DateOf(prev.at) .. DateOf(next.at - 1) :
              /\ d \in Nat /\ d * Day \in Nat /\ (d + 1) * Day \in Nat /\ d * Day < (d + 1) * Day
              /\ d * Day < next.at /\ prev.at < (d + 1) * Day
<1> DEFINE f == prev.at
           n == next.at
           a == DateOf(n) - (Retain - 1)
<1>1. f \in Nat /\ n \in Nat /\ n - 1 \in Nat /\ f < n /\ Retain \in Nat \ {0} /\ Day \in Nat \ {0}
  BY MeteringAssumption DEF Metrics
<1> HIDE DEF f, n
<1>2. DateOf(f) \in Nat /\ DateOf(n) \in Nat /\ DateOf(n - 1) \in Nat
  BY <1>1, DivNat DEF DateOf
<1>3. DateOf(f) <= DateOf(n - 1) /\ DateOf(n - 1) <= DateOf(n)
  <2>1. f \in Int /\ n \in Int /\ n - 1 \in Int /\ f <= n - 1 /\ n - 1 <= n
    BY <1>1
  <2> QED BY <1>1, <2>1, DivMonotone DEF DateOf
<1>4. a \in Int
  BY <1>1, <1>2
<1>5. DatesBetween(prev, next) = (IF DateOf(f) >= a THEN DateOf(f) ELSE a) .. DateOf(n - 1)
  <2>1. DatesBetween(prev, next) = Max({DateOf(f), a}) .. DateOf(n - 1)
    BY DEF DatesBetween, f, n
  <2> HIDE DEF a
  <2>2. Max({DateOf(f), a}) = IF DateOf(f) >= a THEN DateOf(f) ELSE a
    BY <1>2, <1>4, MaxOfTwo
  <2> QED BY <2>1, <2>2
<1> HIDE DEF a
<1>6. \A d \in DatesBetween(prev, next) : d \in DateOf(f) .. DateOf(n - 1)
  BY <1>2, <1>4, <1>5
<1>7. ASSUME NEW d \in DateOf(f) .. DateOf(n - 1)
      PROVE  /\ d \in Nat /\ d * Day \in Nat /\ (d + 1) * Day \in Nat /\ d * Day < (d + 1) * Day
             /\ d * Day < n /\ f < (d + 1) * Day
  <2>1. d \in Nat /\ d + 1 \in Nat /\ d <= DateOf(n - 1) /\ d + 1 > DateOf(f)
    BY <1>2
  <2>2. d * Day <= n - 1
    BY <1>1, <2>1, DateBounds
  <2>3. (d + 1) * Day > f
    BY <1>1, <2>1, DateBounds
  <2>4. d * Day \in Nat /\ (d + 1) * Day \in Nat /\ d * Day < (d + 1) * Day
    BY <1>1, <2>1, DateBounds
  <2> QED BY <1>1, <2>1, <2>2, <2>3, <2>4
<1> QED BY <1>1, <1>2, <1>3, <1>4, <1>5, <1>6, <1>7 DEF a, f, n

LEMMA ShareEnds ==
  ASSUME NEW v \in Nat, NEW from \in Nat, NEW to \in Nat, from < to
  PROVE  Share(v, from, to, from) = 0 /\ Share(v, from, to, to) = v
<1> DEFINE w == to - from
<1>1. w \in Nat \ {0} /\ from - from = 0
  BY SMT
<1> HIDE DEF w
<1>2. (v * 0) \div w = 0
  <2>1. v * 0 = 0 /\ 0 \in Int
    OBVIOUS
  <2>2. 0 \div w \in Int /\ w * (0 \div w) <= 0 /\ 0 < w * (0 \div w) + w
    BY <1>1, DivBounds
  <2> DEFINE q == 0 \div w
  <2>3. q = 0
    <3>1. q \in Int /\ w * q <= 0 /\ 0 < w * q + w
      BY <2>2
    <3> HIDE DEF q
    <3>2. ~(q >= 1)
      <4>1. q >= 1 => w * q >= w
        BY <1>1, <3>1, Z3
      <4>2. w * q \in Int
        BY <1>1, <3>1
      <4> QED BY <1>1, <3>1, <4>1, <4>2
    <3>3. ~(q <= -1)
      <4>1. q <= -1 => w * q <= -w
        BY <1>1, <3>1, Z3
      <4>2. w * q \in Int
        BY <1>1, <3>1
      <4> QED BY <1>1, <3>1, <4>1, <4>2
    <3> QED BY <3>1, <3>2, <3>3
  <2> QED BY <2>1, <2>3
<1>3. (v * w) \div w = v
  <2> DEFINE u == v * w
             q == u \div w
  <2>1. u \in Int /\ u = w * v
    BY <1>1
  <2> HIDE DEF u
  <2>2. q \in Int /\ w * q <= u /\ u < w * q + w
    BY <1>1, <2>1, DivBounds
  <2> HIDE DEF q
  <2>3. w * q \in Int /\ w * v \in Int
    BY <1>1, <2>2
  <2>4. ~(q >= v + 1)
    <3>1. q >= v + 1 => w * q >= w * (v + 1)
      BY <1>1, <2>2, Z3
    <3>2. w * (v + 1) = w * v + w
      BY <1>1
    <3> QED BY <1>1, <2>1, <2>2, <2>3, <3>1, <3>2
  <2>5. ~(q + 1 <= v)
    <3>1. q + 1 <= v => w * (q + 1) <= w * v
      BY <1>1, <2>2, Z3
    <3>2. w * (q + 1) = w * q + w
      BY <1>1, <2>2
    <3> QED BY <1>1, <2>1, <2>2, <2>3, <3>1, <3>2
  <2>6. q = v
    BY <2>2, <2>4, <2>5
  <2> QED BY <2>6 DEF q, u
<1>4. Share(v, from, to, from) = (v * 0) \div w /\ Share(v, from, to, to) = (v * w) \div w
  BY <1>1 DEF Share, w
<1> QED BY <1>2, <1>3, <1>4

(* The days of an interval share its bytes, all of them unless a day is    *)
(* too old to be kept.                                                     *)
LEMMA DaysShare ==
  ASSUME NEW prev \in Metrics, NEW next \in Metrics, prev.at < next.at, NEW v \in Nat,
         NEW g, Sums(DatesBetween(prev, next),
                     [d \in DatesBetween(prev, next) |-> OfDay(d, v, prev, next)], g)
  PROVE  /\ \A d \in DatesBetween(prev, next) : OfDay(d, v, prev, next) <= v
         /\ g[DatesBetween(prev, next)] \in 0 .. v
         /\ DateOf(next.at) - (Retain - 1) <= DateOf(prev.at) => g[DatesBetween(prev, next)] = v
<1> DEFINE f == prev.at
           n == next.at
           r == DateOf(n) - (Retain - 1)
           dates == DatesBetween(prev, next)
           a == IF DateOf(f) >= r THEN DateOf(f) ELSE r
           b == DateOf(n - 1)
           clip(d) == IF d * Day <= f THEN f ELSE IF d * Day >= n THEN n ELSE d * Day
           F == [d \in DateOf(f) .. (b + 1) |-> Share(v, f, n, clip(d))]
           w == [d \in dates |-> OfDay(d, v, prev, next)]
<1>1. /\ f \in Nat /\ n \in Nat /\ n - 1 \in Nat /\ f < n /\ DateOf(f) \in Nat /\ b \in Nat
      /\ DateOf(f) <= b /\ b <= DateOf(n) /\ r \in Int /\ a \in Int
      /\ dates = a .. b
      /\ \A d \in dates : d \in DateOf(f) .. b
      /\ \A d \in DateOf(f) .. b :
              /\ d \in Nat /\ d * Day \in Nat /\ (d + 1) * Day \in Nat /\ d * Day < (d + 1) * Day
              /\ d * Day < n /\ f < (d + 1) * Day
  BY DatesMeet
<1>1a. a >= DateOf(f) /\ (r <= DateOf(f) => a = DateOf(f))
  BY <1>1
<1> HIDE DEF f, n, r, a, b, dates
<1>2. ASSUME NEW d \in DateOf(f) .. (b + 1)
      PROVE  F[d] \in Int /\ 0 <= F[d] /\ F[d] <= v
  <2>1. d \in Nat /\ d * Day \in Nat
    BY <1>1, DateBounds
  <2>2. clip(d) \in Nat /\ f <= clip(d) /\ clip(d) <= n
    BY <1>1, <2>1
  <2> DEFINE c == clip(d)
  <2>3. F[d] = Share(v, f, n, c)
    OBVIOUS
  <2> HIDE DEF c, F
  <2>4. /\ Share(v, f, n, c) \in Int
        /\ Share(v, f, n, f) <= Share(v, f, n, c) /\ Share(v, f, n, c) <= Share(v, f, n, n)
    BY <1>1, <2>2, ShareMonotone DEF c
  <2> QED BY <1>1, <2>3, <2>4, ShareEnds
<1>3. ASSUME NEW d \in DateOf(f) .. b
      PROVE  OfDay(d, v, prev, next) = F[d + 1] - F[d]
  <2>1. /\ d \in Nat /\ d * Day \in Nat /\ (d + 1) * Day \in Nat /\ d * Day < (d + 1) * Day
        /\ d * Day < n /\ f < (d + 1) * Day
    BY <1>1
  <2>2. Min({(d + 1) * Day, n}) = clip(d + 1)
    <3>1. Min({(d + 1) * Day, n}) = IF (d + 1) * Day <= n THEN (d + 1) * Day ELSE n
      BY <1>1, <2>1, MinOfTwo
    <3> QED BY <1>1, <2>1, <3>1
  <2>3. Max({d * Day, f}) = clip(d)
    <3> DEFINE x == d * Day
    <3>1. x \in Int /\ f \in Int
      BY <1>1, <2>1
    <3> HIDE DEF x
    <3>2. Max({x, f}) = IF x >= f THEN x ELSE f
      BY <3>1, MaxOfTwo
    <3>3. x = d * Day
      BY DEF x
    <3> QED BY <1>1, <2>1, <3>2, <3>3
  <2>4. d \in DateOf(f) .. (b + 1) /\ d + 1 \in DateOf(f) .. (b + 1)
    BY <1>1
  <2>5. F[d] = Share(v, f, n, Max({d * Day, f})) /\ F[d + 1] = Share(v, f, n, Min({(d + 1) * Day, n}))
    BY <2>2, <2>3, <2>4
  <2> HIDE DEF F
  <2> QED BY <2>5 DEF OfDay, f, n
<1>4. F[DateOf(f)] = 0 /\ F[b + 1] = v
  <2>1. DateOf(f) \in DateOf(f) .. (b + 1) /\ b + 1 \in DateOf(f) .. (b + 1)
    BY <1>1
  <2>2. clip(DateOf(f)) = f
    <3>1. DateOf(f) * Day <= f
      BY <1>1, DateBounds
    <3> QED BY <3>1
  <2>3. clip(b + 1) = n
    <3>1. b + 1 \in Nat /\ b + 1 > DateOf(n - 1)
      BY <1>1 DEF b
    <3>2. (b + 1) * Day > n - 1 /\ (b + 1) * Day \in Nat
      BY <1>1, <3>1, DateBounds
    <3> QED BY <1>1, <3>2
  <2>4. F[DateOf(f)] = Share(v, f, n, f) /\ F[b + 1] = Share(v, f, n, n)
    BY <2>1, <2>2, <2>3
  <2> HIDE DEF F
  <2> QED BY <1>1, <2>4, ShareEnds
<1> HIDE DEF F
<1>5. \A d \in dates : OfDay(d, v, prev, next) <= v
  <2> SUFFICES ASSUME NEW d \in dates PROVE OfDay(d, v, prev, next) <= v
    OBVIOUS
  <2>1. d \in DateOf(f) .. b
    BY <1>1
  <2>2. d \in DateOf(f) .. (b + 1) /\ d + 1 \in DateOf(f) .. (b + 1)
    BY <1>1, <2>1
  <2>3. /\ F[d] \in Int /\ 0 <= F[d] /\ F[d + 1] \in Int /\ F[d + 1] <= v
    BY <1>2, <2>2
  <2>4. OfDay(d, v, prev, next) = F[d + 1] - F[d]
    BY <1>3, <2>1
  <2> QED BY <2>3, <2>4
<1>6. g[dates] \in 0 .. v /\ (r <= DateOf(f) => g[dates] = v)
  <2>1. CASE a <= b
    <3>1. a \in Int /\ b \in Int
      BY <1>1
    <3>2. dates = a .. b
      BY <1>1
    <3>3. \A d \in a .. (b + 1) : F[d] \in Int
      <4>1. \A d \in a .. (b + 1) : d \in DateOf(f) .. (b + 1)
        BY <1>1, <1>1a
      <4> QED BY <1>2, <4>1
    <3>4. \A d \in a .. b : w[d] = F[d + 1] - F[d]
      <4>1. \A d \in dates : w[d] = OfDay(d, v, prev, next) /\ d \in DateOf(f) .. b
        BY <1>1
      <4> HIDE DEF w
      <4> QED BY <1>3, <3>2, <4>1
    <3>5. Sums(a .. b, w, g)
      <4>1. Sums(dates, w, g)
        BY DEF dates
      <4> HIDE DEF w
      <4> QED BY <3>2, <4>1
    <3> HIDE DEF w
    <3>6. g[a .. b] = F[b + 1] - F[a]
      <4>1. Differences(a, b, F, w)
        BY <3>3, <3>4 DEF Differences
      <4> QED BY <2>1, <3>1, <3>5, <4>1, Telescoped
    <3>7. g[dates] = v - F[a]
      BY <1>4, <3>2, <3>6
    <3>8. a \in DateOf(f) .. (b + 1)
      BY <1>1, <1>1a, <2>1
    <3>9. F[a] \in Int /\ 0 <= F[a] /\ F[a] <= v
      BY <1>2, <3>8
    <3>10. r <= DateOf(f) => F[a] = 0
      BY <1>1a, <1>4
    <3> QED BY <3>7, <3>9, <3>10
  <2>2. CASE ~(a <= b)
    <3>1. dates = {}
      BY <1>1, <2>2
    <3>2. g[dates] = 0
      BY <3>1 DEF Sums
    <3>3. ~(r <= DateOf(f))
      BY <1>1, <1>1a, <2>2
    <3> QED BY <3>2, <3>3
  <2> QED BY <2>1, <2>2
<1> QED BY <1>5, <1>6 DEF dates, r, f, n

LEMMA DaySumNat ==
  ASSUME NEW daily, DailyOK(daily)
  PROVE  DaySum(daily) \in Nat
<1> DEFINE D == DOMAIN daily
           w == [d \in D |-> daily[d]]
           z == [d \in D |-> 0]
           o == [s \in SUBSET D |-> 0]
<1>1. IsFiniteSet(D) /\ \A d \in D : daily[d] \in Nat
  BY DEF DailyOK
<1>2. w \in [D -> Int] /\ z \in [D -> Int] /\ \A d \in D : z[d] <= w[d] /\ w[d] = daily[d]
  BY <1>1
<1>3. Sums(D, z, o) /\ o[D] = 0
  BY <1>1, SumZero
<1> HIDE DEF w, z, o
<1>4. PICK f : Sums(D, w, f) /\ DaySum(daily) = f[D]
  BY <1>2, DaySumIs
<1>5. o[D] <= f[D]
  BY <1>1, <1>2, <1>3, <1>4, SumLess
<1>6. f[D] \in Int
  BY <1>4 DEF Sums
<1> QED BY <1>3, <1>4, <1>5, <1>6

LEMMA DaySumNone ==
  ASSUME NEW daily, DOMAIN daily = {}
  PROVE  DaySum(daily) = 0
<1>1. DailyOK(daily)
  BY FS_EmptySet DEF DailyOK
<1> DEFINE w == [d \in DOMAIN daily |-> 0]
<1>2. w \in [DOMAIN daily -> Int] /\ \A d \in DOMAIN daily : w[d] = daily[d]
  OBVIOUS
<1> HIDE DEF w
<1>3. PICK f : Sums(DOMAIN daily, w, f) /\ DaySum(daily) = f[DOMAIN daily]
  BY <1>1, <1>2, DaySumIs
<1> QED BY <1>3 DEF Sums

LEMMA DaySumAdded ==
  ASSUME NEW daily, DailyOK(daily), NEW E, NEW w \in [E -> Int], NEW g, Sums(E, w, g),
         NEW new, DailyOK(new), DOMAIN new = DOMAIN daily \cup E,
         \A d \in DOMAIN new : new[d] = OnDate(daily, d) + IF d \in E THEN w[d] ELSE 0
  PROVE  DaySum(new) = DaySum(daily) + g[E]
<1> DEFINE D == DOMAIN daily
           S == DOMAIN new
           u == [d \in D |-> daily[d]]
           n == [d \in S |-> new[d]]
           uw == [d \in S |-> IF d \in D THEN u[d] ELSE 0]
           ww == [d \in S |-> IF d \in E THEN w[d] ELSE 0]
           sum == [d \in S |-> uw[d] + ww[d]]
<1>1. /\ IsFiniteSet(S) /\ D \in SUBSET S /\ E \in SUBSET S
      /\ u \in [D -> Int] /\ \A d \in D : u[d] = daily[d]
      /\ n \in [S -> Int] /\ \A d \in S : n[d] = new[d]
  BY DEF DailyOK
<1>2. PICK f : Sums(D, u, f) /\ DaySum(daily) = f[D]
  <2> HIDE DEF u
  <2> QED BY <1>1, DaySumIs
<1>3. PICK h : Sums(S, n, h) /\ DaySum(new) = h[S]
  <2> HIDE DEF n
  <2> QED BY <1>1, DaySumIs
<1>4. PICK fw : Sums(S, uw, fw) /\ fw[S] = f[D]
  <2>1. Padded(S, D, u, uw)
    BY DEF Padded
  <2> HIDE DEF u, S, D, uw
  <2> QED BY <1>1, <1>2, <2>1, SumsWiden
<1>5. PICK gw : Sums(S, ww, gw) /\ gw[S] = g[E]
  <2>1. Padded(S, E, w, ww)
    BY DEF Padded
  <2> HIDE DEF S, ww
  <2> QED BY <1>1, <2>1, SumsWiden
<1>6. uw \in [S -> Int] /\ ww \in [S -> Int]
  BY <1>1
<1>7. PICK both : Sums(S, sum, both) /\ both[S] = fw[S] + gw[S]
  <2>1. \A d \in S : sum[d] = uw[d] + ww[d]
    OBVIOUS
  <2> HIDE DEF S, uw, ww, sum
  <2> QED BY <1>4, <1>5, <1>6, <2>1, SumsAdd
<1>8. \A d \in S : n[d] = sum[d]
  <2> SUFFICES ASSUME NEW d \in S PROVE n[d] = sum[d]
    OBVIOUS
  <2>1. n[d] = OnDate(daily, d) + IF d \in E THEN w[d] ELSE 0
    OBVIOUS
  <2>2. sum[d] = (IF d \in D THEN u[d] ELSE 0) + (IF d \in E THEN w[d] ELSE 0)
    OBVIOUS
  <2>3. OnDate(daily, d) = IF d \in D THEN u[d] ELSE 0
    BY DEF OnDate
  <2> QED BY <2>1, <2>2, <2>3
<1>9. n = sum
  <2>1. DOMAIN n = S /\ DOMAIN sum = S
    OBVIOUS
  <2>2. n = [d \in S |-> n[d]] /\ sum = [d \in S |-> sum[d]]
    OBVIOUS
  <2> HIDE DEF n, sum
  <2> QED BY <1>8, <2>2
<1>10. both[S] = f[D] + g[E]
  BY <1>4, <1>5, <1>7
<1>11. h[S] = both[S]
  <2>1. Sums(S, n, both)
    <3> HIDE DEF n, sum
    <3> QED BY <1>7, <1>9
  <2> HIDE DEF n, S
  <2> QED BY <1>1, <1>3, <2>1, SumsAlike
<1> QED BY <1>2, <1>3, <1>10, <1>11

LEMMA DaySumLess ==
  ASSUME NEW daily, DailyOK(daily), NEW K, K \subseteq DOMAIN daily,
         NEW new, DailyOK(new), DOMAIN new = K, \A d \in K : new[d] = daily[d]
  PROVE  DaySum(new) <= DaySum(daily)
<1> DEFINE D == DOMAIN daily
           u == [d \in D |-> daily[d]]
           n == [d \in K |-> new[d]]
           nw == [d \in D |-> IF d \in K THEN n[d] ELSE 0]
<1>3. /\ IsFiniteSet(D) /\ K \in SUBSET D
      /\ u \in [D -> Int] /\ \A d \in D : u[d] = daily[d]
      /\ n \in [K -> Int] /\ \A d \in K : n[d] = new[d]
  BY DEF DailyOK
<1>1. PICK f : Sums(D, u, f) /\ DaySum(daily) = f[D]
  <2> HIDE DEF u
  <2> QED BY <1>3, DaySumIs
<1>2. PICK h : Sums(K, n, h) /\ DaySum(new) = h[K]
  <2> HIDE DEF n
  <2> QED BY <1>3, DaySumIs
<1>4. PICK hw : Sums(D, nw, hw) /\ hw[D] = h[K]
  <2>1. Padded(D, K, n, nw)
    BY DEF Padded
  <2> HIDE DEF n, D, nw
  <2> QED BY <1>2, <1>3, <2>1, SumsWiden
<1>5. nw \in [D -> Int] /\ \A d \in D : nw[d] <= u[d]
  BY <1>3 DEF DailyOK
<1>7. hw[D] <= f[D]
  <2> HIDE DEF nw, u, D
  <2> QED BY <1>1, <1>3, <1>4, <1>5, SumLess
<1> QED BY <1>1, <1>2, <1>4, <1>7

(* What adding the traffic of an interval does to the days.                *)
LEMMA AddedDays ==
  ASSUME NEW daily, DailyOK(daily), NEW prev \in Metrics, NEW next \in Metrics,
         prev.at < next.at, prev # Nothing
  PROVE  LET new == AddDailyTraffic(daily, prev, next)
             v == DailyBytes(prev, next)
         IN /\ DailyOK(new)
            /\ \E total \in 0 .. v :
                 /\ DaySum(new) = DaySum(daily) + total
                 /\ DateOf(next.at) - (Retain - 1) <= DateOf(prev.at) => total = v
            /\ DOMAIN daily \subseteq DOMAIN new
            /\ \A d \in DOMAIN new :
                 \/ d \in DOMAIN daily /\ new[d] = daily[d]
                 \/ /\ d \in DateOf(prev.at) .. DateOf(next.at - 1)
                    /\ new[d] <= OnDate(daily, d) + v
<1> DEFINE v == DailyBytes(prev, next)
           dates == DatesBetween(prev, next)
           new == AddDailyTraffic(daily, prev, next)
<1>1. DailyOK(new) /\ v \in Nat /\ DaySum(daily) \in Nat
  BY AddDailyOK, DailyBytesNat, DaySumNat
<1>2. CASE v = 0
  <2>1. new = daily
    BY <1>2 DEF AddDailyTraffic
  <2> HIDE DEF new, v
  <2>2. DaySum(new) = DaySum(daily) + 0 /\ 0 \in 0 .. v
    BY <1>1, <1>2, <2>1
  <2> QED BY <1>1, <1>2, <2>1, <2>2 DEF new, v
<1>3. CASE v # 0
  <2> DEFINE w == [d \in dates |-> OfDay(d, v, prev, next)]
             added == [d \in DOMAIN daily \cup dates |->
                         OnDate(daily, d) + IF d \in dates THEN OfDay(d, v, prev, next) ELSE 0]
  <2>1. new = added
    BY <1>3 DEF AddDailyTraffic
  <2>2. DOMAIN added = DOMAIN daily \cup dates
        /\ \A d \in DOMAIN daily \cup dates :
             added[d] = OnDate(daily, d) + IF d \in dates THEN OfDay(d, v, prev, next) ELSE 0
    OBVIOUS
  <2> HIDE DEF v, new, added
  <2>3. IsFiniteSet(dates)
    <3>1. IsFiniteSet(DOMAIN added)
      BY <1>1, <2>1 DEF DailyOK
    <3>2. dates \subseteq DOMAIN added
      BY <2>2
    <3> QED BY <3>1, <3>2, FS_Subset
  <2>4. \A d \in dates : OfDay(d, v, prev, next) \in Nat
    BY <1>1, OfDayNat
  <2>5. w \in [dates -> Int] /\ \A d \in dates : w[d] = OfDay(d, v, prev, next)
    BY <2>4
  <2>6. PICK g : Sums(dates, w, g)
    <3>1. DOMAIN w = dates /\ \A d \in dates : w[d] \in Nat
      BY <2>4
    <3>2. dates \subseteq Nat
      BY <1>1, <2>1, <2>2 DEF DailyOK
    <3>3. DailyOK(w)
      BY <2>3, <3>1, <3>2 DEF DailyOK
    <3> HIDE DEF w, dates
    <3> QED BY <2>5, <3>1, <3>3, DaySumIs
  <2>7. /\ \A d \in dates : OfDay(d, v, prev, next) <= v
        /\ g[dates] \in 0 .. v
        /\ DateOf(next.at) - (Retain - 1) <= DateOf(prev.at) => g[dates] = v
    BY <1>1, <2>6, DaysShare
  <2>8. \A d \in dates : d \in DateOf(prev.at) .. DateOf(next.at - 1)
    BY DatesMeet
  <2> HIDE DEF w, dates
  <2>9. \A d \in DOMAIN new : new[d] = OnDate(daily, d) + IF d \in dates THEN w[d] ELSE 0
    BY <2>1, <2>2, <2>5
  <2>10. DaySum(new) = DaySum(daily) + g[dates]
    BY <1>1, <2>1, <2>2, <2>5, <2>6, <2>9, DaySumAdded
  <2>11. ASSUME NEW d \in DOMAIN new
         PROVE  \/ d \in DOMAIN daily /\ new[d] = daily[d]
                \/ /\ d \in DateOf(prev.at) .. DateOf(next.at - 1)
                   /\ new[d] <= OnDate(daily, d) + v
    <3>1. OnDate(daily, d) \in Nat
      BY DEF OnDate, DailyOK
    <3>2. CASE d \in dates
      <4>1. new[d] = OnDate(daily, d) + OfDay(d, v, prev, next)
        BY <2>1, <2>2, <3>2
      <4>2. OfDay(d, v, prev, next) \in Nat /\ OfDay(d, v, prev, next) <= v
        BY <2>4, <2>7, <3>2
      <4>3. new[d] <= OnDate(daily, d) + v
        BY <1>1, <3>1, <4>1, <4>2
      <4> QED BY <2>8, <3>2, <4>3
    <3>3. CASE d \notin dates
      <4>1. d \in DOMAIN daily /\ new[d] = OnDate(daily, d) + 0
        BY <2>1, <2>2, <3>3
      <4> QED BY <3>1, <4>1 DEF OnDate
    <3> QED BY <3>2, <3>3
  <2> QED BY <1>1, <2>1, <2>2, <2>7, <2>10, <2>11 DEF new, v
<1> QED BY <1>2, <1>3

(* What pruning leaves: all days if they are few enough.                   *)
LEMMA PrunedDays ==
  ASSUME NEW daily, DailyOK(daily)
  PROVE  /\ DOMAIN PruneDaily(daily) \subseteq DOMAIN daily
         /\ \A d \in DOMAIN PruneDaily(daily) : PruneDaily(daily)[d] = daily[d]
         /\ DaySum(PruneDaily(daily)) <= DaySum(daily)
         /\ \A a \in Nat : \A b \in Nat :
              DOMAIN daily \subseteq a .. b /\ b - a < Retain =>
                DaySum(PruneDaily(daily)) = DaySum(daily)
<1> DEFINE D == DOMAIN daily
           later(e) == {f \in D : f > e}
           K == {e \in D : Cardinality(later(e)) < Retain}
           p == PruneDaily(daily)
<1>1. p = [d \in K |-> daily[d]]
  BY DEF PruneDaily
<1>2. DOMAIN p = K /\ \A d \in K : p[d] = daily[d]
  BY <1>1
<1>3. K \subseteq D
  OBVIOUS
<1>4. DailyOK(p)
  BY PruneDailyOK
<1> HIDE DEF p
<1>5. DaySum(p) <= DaySum(daily)
  <2> HIDE DEF K
  <2> QED BY <1>2, <1>3, <1>4, DaySumLess
<1>6. ASSUME NEW a \in Nat, NEW b \in Nat, D \subseteq a .. b, b - a < Retain
      PROVE  DaySum(p) = DaySum(daily)
  <2>1. ASSUME NEW e \in D PROVE e \in K
    <3>1. e \in a .. b
      BY <1>6
    <3>2. later(e) \subseteq (e + 1) .. b
      <4>1. ASSUME NEW f \in later(e) PROVE f \in (e + 1) .. b
        <5>1. f \in a .. b /\ f > e
          BY <1>6
        <5> QED BY <3>1, <5>1
      <4> QED BY <4>1
    <3>3. IsFiniteSet((e + 1) .. b) /\ Cardinality((e + 1) .. b) = b - e
      <4>1. e + 1 \in Int /\ b \in Int /\ e + 1 <= b + 1
        BY <3>1
      <4>2. /\ IsFiniteSet((e + 1) .. b)
            /\ Cardinality((e + 1) .. b) = IF e + 1 > b THEN 0 ELSE b - (e + 1) + 1
        BY <4>1, FS_Interval
      <4> QED BY <3>1, <4>2
    <3>4. Cardinality(later(e)) <= b - e /\ Cardinality(later(e)) \in Nat
      <4> DEFINE L == later(e)
      <4>1. L \subseteq (e + 1) .. b
        BY <3>2
      <4> HIDE DEF L
      <4> QED BY <3>3, <4>1, FS_Subset, FS_CardinalityType DEF L
    <3>5. Cardinality(later(e)) < Retain
      <4>1. b - e <= b - a /\ Retain \in Nat
        BY <3>1, MeteringAssumption
      <4> HIDE DEF later
      <4> QED BY <1>6, <3>1, <3>4, <4>1
    <3> QED BY <3>5
  <2>2. D = K
    BY <1>3, <2>1
  <2> HIDE DEF K
  <2>3. DOMAIN daily = K /\ K \subseteq DOMAIN p /\ \A d \in DOMAIN daily : daily[d] = p[d]
    BY <1>2, <2>2
  <2>4. DaySum(daily) <= DaySum(p)
    BY <1>4, <2>3, DaySumLess
  <2>5. DaySum(p) \in Nat /\ DaySum(daily) \in Nat
    BY <1>4, DaySumNat
  <2> QED BY <1>5, <2>4, <2>5
<1> QED BY <1>2, <1>3, <1>5, <1>6 DEF p

-----------------------------------------------------------------------------
(* The days of a node and the times of the metrics they were counted from,  *)
(* when mv[t + 1] bytes had been moved at time t.                           *)
DaysHold(daily, known, first, last, mv, whole) ==
  /\ {first, last} \subseteq known /\ known \subseteq first .. last
  /\ \A d \in DOMAIN daily : d \in DateOf(first) .. DateOf(last)
  /\ DaySum(daily) <= mv[last + 1] - mv[first + 1]
  /\ whole /\ DateOf(last) - DateOf(first) < Retain =>
       DaySum(daily) = mv[last + 1] - mv[first + 1]
  /\ \A d \in DOMAIN daily : \A f \in known : \A t \in known :
       (f <= d * Day \/ f = first) /\ (t >= (d + 1) * Day \/ t = last)
         => daily[d] <= mv[t + 1] - mv[f + 1]

LEMMA WithToday ==
  ASSUME NEW daily, DailyOK(daily), NEW x \in Nat
  PROVE  LET base == [d \in DOMAIN daily \cup {x} |-> OnDate(daily, d)] IN
         /\ DailyOK(base) /\ DaySum(base) = DaySum(daily)
         /\ DOMAIN base = DOMAIN daily \cup {x}
         /\ \A d \in DOMAIN base : base[d] = OnDate(daily, d)
         /\ \A d \in Nat : OnDate(base, d) = OnDate(daily, d)
<1> DEFINE D == DOMAIN daily \cup {x}
           base == [d \in D |-> OnDate(daily, d)]
           w == [d \in {x} |-> 0]
           g == [s \in SUBSET {x} |-> 0]
<1>1. DOMAIN base = D /\ \A d \in D : base[d] = OnDate(daily, d)
  OBVIOUS
<1> HIDE DEF base
<1>2. D \subseteq Nat /\ IsFiniteSet(D)
  BY FS_AddElement DEF DailyOK
<1>3. \A d \in D : OnDate(daily, d) \in Nat
  BY DEF DailyOK, OnDate
<1>4. DailyOK(base)
  BY <1>1, <1>2, <1>3 DEF DailyOK
<1>5. Sums({x}, w, g)
  BY FS_Singleton, SumZero
<1>6. w \in [{x} -> Int] /\ g[{x}] = 0 /\ \A d \in {x} : w[d] = 0
  OBVIOUS
<1>7. \A d \in DOMAIN base : base[d] = OnDate(daily, d) + IF d \in {x} THEN w[d] ELSE 0
  BY <1>1, <1>3, <1>6
<1> HIDE DEF w, g
<1>8. DaySum(base) = DaySum(daily) + g[{x}]
  BY <1>1, <1>4, <1>5, <1>6, <1>7, DaySumAdded
<1>9. DaySum(daily) \in Nat
  BY DaySumNat
<1>10. \A d \in Nat : OnDate(base, d) = OnDate(daily, d)
  BY <1>1 DEF OnDate
<1>11. DaySum(base) = DaySum(daily)
  BY <1>6, <1>8, <1>9
<1> QED BY <1>1, <1>4, <1>10, <1>11 DEF base

(* The first metric of a node counts nothing.                              *)
LEMMA DaysBegin ==
  ASSUME NEW daily, DOMAIN daily = {}, NEW t \in Nat, NEW mv, mv[t + 1] \in Nat, NEW whole
  PROVE  DaysHold(PruneDaily([d \in DOMAIN daily \cup {DateOf(t)} |-> OnDate(daily, d)]),
                  {} \cup {t}, t, t, mv, whole)
<1> DEFINE x == DateOf(t)
           base == [d \in DOMAIN daily \cup {x} |-> OnDate(daily, d)]
           p == PruneDaily(base)
<1>1. x \in Nat /\ DailyOK(daily)
  BY DateBounds, FS_EmptySet DEF DailyOK
<1> HIDE DEF x
<1>2. /\ DailyOK(base) /\ DaySum(base) = DaySum(daily) /\ DOMAIN base = {x}
      /\ \A d \in DOMAIN base : base[d] = 0
  <2>1. /\ DailyOK(base) /\ DaySum(base) = DaySum(daily)
        /\ DOMAIN base = DOMAIN daily \cup {x}
        /\ \A d \in DOMAIN base : base[d] = OnDate(daily, d)
    BY <1>1, WithToday
  <2> HIDE DEF base
  <2> QED BY <2>1 DEF OnDate
<1> HIDE DEF base
<1>3. DaySum(daily) = 0
  BY DaySumNone
<1>4. DaySum(p) \in Nat /\ DaySum(p) <= DaySum(base)
  BY <1>2, PruneDailyOK, DaySumNat, PrunedDays
<1>5. \A d \in DOMAIN p : d = x /\ p[d] = 0
  BY <1>2, PrunedDays
<1> HIDE DEF p
<1>6. DaySum(p) = 0 /\ mv[t + 1] - mv[t + 1] = 0
  BY <1>2, <1>3, <1>4
<1>7. {} \cup {t} = {t} /\ t .. t = {t} /\ x .. x = {x}
  BY <1>1
<1>8. \A f \in {t} : f = t
  OBVIOUS
<1>9. DaysHold(p, {t}, t, t, mv, whole)
  BY <1>5, <1>6, <1>7, <1>8 DEF DaysHold, x
<1> QED BY <1>7, <1>9 DEF p, base, x

(* Every further metric counts what was moved since the one before.        *)
LEMMA DaysAdvance ==
  ASSUME NEW daily, DailyOK(daily), NEW known, NEW first \in Nat,
         NEW prev \in Metrics, NEW next \in Metrics, prev # Nothing, prev.at < next.at,
         NEW mv, \A i \in 0 .. next.at : mv[i + 1] \in Nat,
         \A i \in 0 .. next.at : \A j \in 0 .. next.at : i <= j => mv[i + 1] <= mv[j + 1],
         NEW whole, DaysHold(daily, known, first, prev.at, mv, whole),
         DailyBytes(prev, next) <= mv[next.at + 1] - mv[prev.at + 1],
         whole => DailyBytes(prev, next) = mv[next.at + 1] - mv[prev.at + 1]
  PROVE  LET base == [d \in DOMAIN daily \cup {DateOf(next.at)} |-> OnDate(daily, d)]
         IN DaysHold(PruneDaily(AddDailyTraffic(base, prev, next)),
                     known \cup {next.at}, first, next.at, mv, whole)
<1> DEFINE l == prev.at
           n == next.at
           x == DateOf(n)
           v == DailyBytes(prev, next)
           base == [d \in DOMAIN daily \cup {x} |-> OnDate(daily, d)]
           new == AddDailyTraffic(base, prev, next)
           p == PruneDaily(new)
           k == known \cup {n}
           ml == mv[l + 1]
           mn == mv[n + 1]
           mf == mv[first + 1]
<1>1. /\ l \in Nat /\ n \in Nat /\ n - 1 \in Nat /\ l < n /\ Retain \in Nat \ {0}
      /\ DateOf(l) \in Nat /\ x \in Nat /\ DateOf(n - 1) \in Nat
      /\ DateOf(l) <= DateOf(n - 1) /\ DateOf(n - 1) <= x
      /\ \A d \in DateOf(l) .. DateOf(n - 1) :
              /\ d \in Nat /\ d * Day \in Nat /\ (d + 1) * Day \in Nat /\ d * Day < (d + 1) * Day
              /\ d * Day < n /\ l < (d + 1) * Day
  BY DatesMeet
<1>2. v \in Nat
  BY DailyBytesNat
<1>3. /\ DailyOK(base) /\ DaySum(base) = DaySum(daily)
      /\ DOMAIN base = DOMAIN daily \cup {x}
      /\ \A d \in DOMAIN base : base[d] = OnDate(daily, d)
      /\ \A d \in Nat : OnDate(base, d) = OnDate(daily, d)
  BY <1>1, WithToday
<1> HIDE DEF base
<1>4. /\ DailyOK(new)
      /\ \E total \in 0 .. v :
           /\ DaySum(new) = DaySum(base) + total
           /\ x - (Retain - 1) <= DateOf(l) => total = v
      /\ \A d \in DOMAIN new :
           \/ d \in DOMAIN base /\ new[d] = base[d]
           \/ d \in DateOf(l) .. DateOf(n - 1) /\ new[d] <= OnDate(base, d) + v
  BY <1>3, AddedDays
<1> HIDE DEF new
<1>5. /\ DOMAIN p \subseteq DOMAIN new /\ \A d \in DOMAIN p : p[d] = new[d]
      /\ DaySum(p) <= DaySum(new)
      /\ \A a \in Nat : \A b \in Nat :
           DOMAIN new \subseteq a .. b /\ b - a < Retain => DaySum(p) = DaySum(new)
  BY <1>4, PrunedDays
<1>6. DaySum(p) \in Nat /\ DaySum(new) \in Nat /\ DaySum(daily) \in Nat
  BY <1>4, PruneDailyOK, DaySumNat
<1> HIDE DEF p
<1>7. /\ first \in known /\ l \in known /\ known \subseteq first .. l
      /\ \A d \in DOMAIN daily : d \in DateOf(first) .. DateOf(l)
      /\ DaySum(daily) <= ml - mf
      /\ whole /\ DateOf(l) - DateOf(first) < Retain => DaySum(daily) = ml - mf
      /\ \A d \in DOMAIN daily : \A f \in known : \A t \in known :
           (f <= d * Day \/ f = first) /\ (t >= (d + 1) * Day \/ t = l)
             => daily[d] <= mv[t + 1] - mv[f + 1]
  BY DEF DaysHold
<1>8. first <= l /\ DateOf(first) \in Nat /\ DateOf(first) <= DateOf(l)
  <2>1. first <= l
    BY <1>1, <1>7
  <2> HIDE DEF l
  <2>2. DateOf(first) \in Nat
    BY DateBounds
  <2>3. DateOf(first) <= DateOf(l)
    BY <1>1, <2>1, MeteringAssumption, DivMonotone DEF DateOf
  <2> QED BY <2>1, <2>2, <2>3
<1>9. /\ ml \in Nat /\ mn \in Nat /\ mf \in Nat /\ ml <= mn /\ mf <= ml
      /\ v <= mn - ml /\ (whole => v = mn - ml)
  <2>1. l \in 0 .. n /\ n \in 0 .. n /\ first \in 0 .. n
    BY <1>1, <1>8
  <2>2. l <= n /\ first <= l
    BY <1>1, <1>8
  <2> QED BY <2>1, <2>2
<1>10. \A t \in k : /\ t \in 0 .. n /\ first <= t /\ t <= n
                    /\ t # n => t \in known /\ t <= l
  BY <1>1, <1>7, <1>8
<1> HIDE DEF l, n, x, v, ml, mn, mf
<1>11. first \in k /\ n \in k /\ k \subseteq first .. n
  BY <1>7, <1>10, <1>1
<1>12. \A d \in DOMAIN new : d \in DateOf(first) .. x
  <2> SUFFICES ASSUME NEW d \in DOMAIN new PROVE d \in DateOf(first) .. x
    OBVIOUS
  <2>1. CASE d \in DOMAIN daily
    <3>1. d \in DateOf(first) .. DateOf(l)
      BY <1>7, <2>1
    <3> QED BY <1>1, <1>8, <3>1
  <2>2. CASE d = x
    BY <1>1, <1>8, <2>2
  <2>3. CASE d \in DateOf(l) .. DateOf(n - 1)
    BY <1>1, <1>8, <2>3
  <2> QED BY <1>3, <1>4, <2>1, <2>2, <2>3
<1>13. PICK total \in 0 .. v : /\ DaySum(new) = DaySum(daily) + total
                               /\ x - (Retain - 1) <= DateOf(l) => total = v
  BY <1>3, <1>4
<1>14. DaySum(p) <= mn - mf
  BY <1>2, <1>5, <1>6, <1>7, <1>9, <1>13
<1>15. ASSUME whole, x - DateOf(first) < Retain
       PROVE  DaySum(p) = mn - mf
  <2>1. DateOf(l) - DateOf(first) < Retain /\ x - (Retain - 1) <= DateOf(l)
    BY <1>1, <1>8, <1>15
  <2>2. DaySum(new) = DaySum(daily) + v /\ DaySum(daily) = ml - mf /\ v = mn - ml
    BY <1>7, <1>9, <1>13, <1>15, <2>1
  <2>3. DaySum(p) = DaySum(new)
    BY <1>1, <1>5, <1>8, <1>12, <1>15
  <2> QED BY <1>6, <1>9, <2>2, <2>3
<1>16. ASSUME NEW d \in DOMAIN p, NEW f \in k, NEW t \in k,
              f <= d * Day \/ f = first, t >= (d + 1) * Day \/ t = n
       PROVE  p[d] <= mv[t + 1] - mv[f + 1]
  <2>1. d \in DOMAIN new /\ p[d] = new[d] /\ d \in DateOf(first) .. x
    BY <1>5, <1>12
  <2>2. d \in Nat
    BY <1>1, <1>8, <2>1
  <2>3. d * Day \in Nat /\ (d + 1) * Day \in Nat /\ d * Day < (d + 1) * Day
    BY <2>2, <1>1, DateBounds
  <2>4. f \in 0 .. n /\ t \in 0 .. n /\ first <= t /\ f <= n
    BY <1>10
  <2>5. mv[f + 1] \in Nat /\ mv[t + 1] \in Nat
    BY <2>4 DEF n
  <2>6. f <= t
    BY <1>16, <2>3, <2>4
  <2>7. mv[f + 1] <= mv[t + 1]
    BY <2>4, <2>6 DEF n
  <2>8. ASSUME d * Day < n PROVE f # n /\ f \in known
    <3>1. f # n
      BY <1>1, <1>8, <1>16, <2>3, <2>8
    <3> QED BY <1>10, <3>1
  <2>9. ASSUME f \in known PROVE OnDate(daily, d) <= ml - mv[f + 1]
    <3>1. CASE d \in DOMAIN daily
      BY <1>7, <1>16, <2>9, <3>1 DEF OnDate, ml
    <3>2. CASE d \notin DOMAIN daily
      <4>1. f <= l /\ l \in 0 .. n /\ f \in 0 .. n
        BY <1>1, <1>7, <2>4, <2>9
      <4>2. mv[f + 1] <= ml
        BY <4>1 DEF n, ml
      <4>3. OnDate(daily, d) = 0
        BY <3>2 DEF OnDate
      <4> QED BY <1>9, <2>5, <4>2, <4>3
    <3> QED BY <3>1, <3>2
  <2>10. OnDate(daily, d) \in Nat /\ new[d] \in Nat
    BY <1>4, <2>1 DEF OnDate, DailyOK
  <2>11. CASE d \in DOMAIN base /\ new[d] = base[d]
    <3>1. new[d] = OnDate(daily, d)
      BY <1>3, <2>11
    <3>2. CASE d \notin DOMAIN daily
      <4>1. new[d] = 0
        BY <3>1, <3>2 DEF OnDate
      <4> QED BY <2>1, <2>5, <2>7, <4>1
    <3>3. CASE d \in DOMAIN daily
      <4>1. d \in DateOf(first) .. DateOf(l)
        BY <1>7, <3>3
      <4>2. d <= DateOf(l)
        BY <1>1, <1>8, <4>1
      <4>3. d * Day <= l
        BY <1>1, <2>2, <4>2, DateBounds
      <4>4. f \in known
        BY <1>1, <2>3, <2>8, <4>3
      <4>5. CASE t = n
        <5>1. OnDate(daily, d) <= ml - mv[f + 1] /\ mv[t + 1] = mn
          BY <2>9, <4>4, <4>5 DEF mn
        <5> QED BY <1>9, <2>1, <2>5, <2>10, <3>1, <5>1
      <4>6. CASE t # n
        <5>1. t \in known /\ t >= (d + 1) * Day
          BY <1>10, <1>16, <4>6
        <5>2. daily[d] <= mv[t + 1] - mv[f + 1]
          BY <1>7, <1>16, <3>3, <4>4, <5>1
        <5> QED BY <2>1, <3>1, <3>3, <5>2 DEF OnDate
      <4> QED BY <4>5, <4>6
    <3> QED BY <3>2, <3>3
  <2>12. CASE d \in DateOf(l) .. DateOf(n - 1) /\ new[d] <= OnDate(base, d) + v
    <3>1. d * Day < n /\ l < (d + 1) * Day
      BY <1>1, <2>12
    <3>2. f \in known
      BY <2>8, <3>1
    <3>3. t = n
      <4>1. ASSUME t # n PROVE FALSE
        <5>1. t <= l /\ t >= (d + 1) * Day
          BY <1>10, <1>16, <4>1
        <5> QED BY <1>1, <2>3, <2>4, <3>1, <5>1
      <4> QED BY <4>1
    <3>4. OnDate(base, d) = OnDate(daily, d)
      BY <1>3, <2>2
    <3>5. OnDate(daily, d) <= ml - mv[f + 1] /\ mv[t + 1] = mn
      BY <2>9, <3>2, <3>3 DEF mn
    <3>6. new[d] <= OnDate(daily, d) + v
      BY <2>12, <3>4
    <3> QED BY <1>2, <1>9, <2>1, <2>5, <2>10, <3>5, <3>6
  <2> QED BY <1>4, <2>1, <2>11, <2>12
<1> HIDE DEF k
<1>17. DaysHold(p, k, first, n, mv, whole)
  <2>1. \A d \in DOMAIN p : d \in DateOf(first) .. DateOf(n)
    BY <1>5, <1>12 DEF x
  <2>2. DaySum(p) <= mv[n + 1] - mv[first + 1]
    BY <1>14 DEF mn, mf
  <2>3. whole /\ DateOf(n) - DateOf(first) < Retain => DaySum(p) = mv[n + 1] - mv[first + 1]
    BY <1>15 DEF mn, mf, x
  <2> QED BY <1>11, <1>16, <2>1, <2>2, <2>3 DEF DaysHold
<1> QED BY <1>17 DEF p, new, base, x, k, n

StoreHolds(s, mv, whole) ==
  IF s.latest = Nothing THEN s.known = {} /\ DOMAIN s.daily = {}
  ELSE \E first \in Nat : DaysHold(s.daily, s.known, first, s.latest.at, mv, whole)

(* While no counter was restarted every metric is of the present series.   *)
OfNode(m, nd) ==
  /\ m.source = nd.source /\ m.boot = nd.boot
  /\ \A c \in Cards : m.counters[c].index = nd.counters[c].index

Accepted == wire \cup ({store.latest, storeFile.latest} \ {Nothing})

DaysSound ==
  /\ node.whole => \A m \in Accepted : OfNode(m, node)
  /\ StoreHolds(store, moved, node.whole) /\ StoreHolds(storeFile, moved, node.whole)

LEMMA BytesCounted ==
  ASSUME NEW prev \in Metrics, NEW next \in Metrics, NEW mv,
         mv[prev.at + 1] \in Nat, mv[next.at + 1] \in Nat,
         mv[prev.at + 1] <= mv[next.at + 1],
         Followed(ReadingOf(prev), ReadingOf(next), mv)
  PROVE  /\ DailyBytes(prev, next) <= mv[next.at + 1] - mv[prev.at + 1]
         /\ \A nd : OfNode(prev, nd) /\ OfNode(next, nd) =>
              DailyBytes(prev, next) = mv[next.at + 1] - mv[prev.at + 1]
<1> DEFINE x == ReadingOf(prev)
           y == ReadingOf(next)
           d == mv[next.at + 1] - mv[prev.at + 1]
           e == Delta(prev.counters, next.counters)
<1>1. /\ x.at = prev.at /\ x.boot = prev.boot /\ x.counters = prev.counters
      /\ y.at = next.at /\ y.boot = next.boot /\ y.counters = next.counters
  BY ReadingParts
<1>2. /\ prev.counters \in Counters /\ next.counters \in Counters
      /\ prev.source \in {PhysicalNIC, Legacy} /\ next.source \in {PhysicalNIC, Legacy}
  BY DEF Metrics, Counters
<1>3. d \in Nat
  OBVIOUS
<1>4. /\ e <= d
      /\ x.boot = y.boot /\ SameCards(x, y) =>
           e = d /\ \A c \in Cards : prev.counters[c].bytes <= next.counters[c].bytes
  BY <1>1 DEF Followed, Delta
<1>5. e \in Int /\ (e = d => Total(next.counters) >= Total(prev.counters))
  <2>1. Total(prev.counters) \in Nat /\ Total(next.counters) \in Nat
    BY <1>2, TotalBounds
  <2> QED BY <1>3, <2>1 DEF Delta
<1>6. DailyBytes(prev, next) \in {e, 0}
  BY DEF DailyBytes
<1> HIDE DEF d
<1>7. DailyBytes(prev, next) <= d
  <2> HIDE DEF e
  <2> QED BY <1>3, <1>4, <1>5, <1>6
<1>8. ASSUME NEW nd, OfNode(prev, nd), OfNode(next, nd)
      PROVE  DailyBytes(prev, next) = d
  <2>1. /\ prev.source = next.source /\ prev.boot = next.boot
        /\ \A c \in Cards : prev.counters[c].index = next.counters[c].index
    BY <1>8 DEF OfNode
  <2>2. e = d /\ \A c \in Cards : prev.counters[c].bytes <= next.counters[c].bytes
    BY <1>1, <1>4, <2>1 DEF SameCards
  <2>3. DeltaValid(prev.counters, next.counters)
    <3>1. \A c \in Cards : prev.counters[c].bytes \in Nat /\ next.counters[c].bytes \in Nat
      BY <1>2 DEF Counters
    <3>2. \A c \in Cards : next.counters[c].bytes >= prev.counters[c].bytes
      BY <2>2, <3>1
    <3> QED BY <2>1, <3>2 DEF DeltaValid
  <2>4. Total(next.counters) >= Total(prev.counters)
    BY <1>5, <2>2
  <2>5. DailyBytes(prev, next) = e
    <3> HIDE DEF e
    <3>1. CASE prev.source = Legacy
      BY <2>1, <2>4, <3>1 DEF DailyBytes, e
    <3>2. CASE prev.source = PhysicalNIC
      <4>1. Legacy # PhysicalNIC
        BY DEF Legacy, PhysicalNIC
      <4> QED BY <2>1, <2>3, <3>2, <4>1 DEF DailyBytes, e
    <3> QED BY <1>2, <3>1, <3>2
  <2> QED BY <2>2, <2>5
<1> QED BY <1>7, <1>8 DEF d

(* What was counted does not change with what is moved later, nor when     *)
(* nothing is claimed about whole series any more.                         *)
LEMMA DaysLater ==
  ASSUME NEW s, NEW mv, NEW nv, NEW n \in Nat, \A i \in 1 .. n + 1 : nv[i] = mv[i],
         s.latest # Nothing => s.latest.at \in 0 .. n,
         NEW whole, NEW still, StoreHolds(s, mv, whole), still => whole
  PROVE  StoreHolds(s, nv, still)
<1>1. CASE s.latest = Nothing
  BY <1>1 DEF StoreHolds
<1>2. CASE s.latest # Nothing
  <2> DEFINE l == s.latest.at
  <2>1. PICK first \in Nat : DaysHold(s.daily, s.known, first, l, mv, whole)
    BY <1>2 DEF StoreHolds
  <2>2. l \in Nat /\ l <= n
    BY <1>2
  <2> HIDE DEF l
  <2>3. first \in s.known /\ l \in s.known /\ s.known \subseteq first .. l
    BY <2>1 DEF DaysHold
  <2>4. \A t \in s.known : nv[t + 1] = mv[t + 1]
    <3> SUFFICES ASSUME NEW t \in s.known PROVE nv[t + 1] = mv[t + 1]
      OBVIOUS
    <3>1. t \in first .. l
      BY <2>3
    <3>2. t + 1 \in 1 .. n + 1
      BY <2>2, <3>1
    <3> QED BY <3>2
  <2>5. nv[first + 1] = mv[first + 1] /\ nv[l + 1] = mv[l + 1]
    BY <2>3, <2>4
  <2>6. DaysHold(s.daily, s.known, first, l, nv, still)
    BY <2>1, <2>4, <2>5 DEF DaysHold
  <2> QED BY <1>2, <2>6 DEF StoreHolds, l
<1> QED BY <1>1, <1>2

(* The handler of a metric counts what was moved since the latest one.     *)
LEMMA UpdateHolds ==
  ASSUME NEW s, StoreFits(s, now), NEW m \in Metrics, NEW mv, NEW whole \in BOOLEAN,
         StoreHolds(s, mv, whole),
         \A i \in 0 .. m.at : mv[i + 1] \in Nat,
         \A i \in 0 .. m.at : \A j \in 0 .. m.at : i <= j => mv[i + 1] <= mv[j + 1],
         s.latest # Nothing /\ s.latest.at < m.at =>
           /\ Followed(ReadingOf(s.latest), ReadingOf(m), mv)
           /\ whole => \E nd : OfNode(s.latest, nd) /\ OfNode(m, nd)
  PROVE  StoreHolds(UpdateMetric([s EXCEPT !.contact = now], m), mv, whole)
<1> DEFINE r == UpdateMetric([s EXCEPT !.contact = now], m)
           new == [d \in DOMAIN s.daily \cup {DateOf(m.at)} |-> OnDate(s.daily, d)]
           e == DaysWith(s, m)
<1>1. /\ DOMAIN s = {"latest", "contact", "daily", "known"}
      /\ s.latest \in Metrics \cup {Nothing} /\ DailyOK(s.daily)
  BY DEF StoreFits
<1>2. /\ Newer(m, s) => r.latest = m /\ r.known = s.known \cup {m.at} /\ r.daily = e
      /\ ~Newer(m, s) => r.latest = s.latest /\ r.daily = s.daily /\ r.known = s.known
  <2> HIDE DEF r, e
  <2>1. r = Handled(s, m, now) /\ e = DaysWith(s, m)
    BY DEF r, e, Handled
  <2> QED BY <1>1, <2>1, UpdateParts
<1>2a. e = PruneDaily(AddDailyTraffic(new, s.latest, m))
  BY DEF DaysWith
<1>3. m.at \in Nat /\ m # Nothing
  BY NothingAssumption DEF Metrics
<1>4. mv[m.at + 1] \in Nat
  BY <1>3
<1> HIDE DEF r, e
<1>5. CASE ~Newer(m, s)
  BY <1>2, <1>5 DEF StoreHolds, r
<1>6. CASE Newer(m, s) /\ s.latest = Nothing
  <2>1. s.known = {} /\ DOMAIN s.daily = {}
    BY <1>6 DEF StoreHolds
  <2>2. DaysHold(PruneDaily(new), {} \cup {m.at}, m.at, m.at, mv, whole)
    BY <1>3, <1>4, <2>1, DaysBegin
  <2>3. AddDailyTraffic(new, s.latest, m) = new
    BY <1>6 DEF AddDailyTraffic
  <2> HIDE DEF new
  <2>4. DaysHold(r.daily, r.known, m.at, m.at, mv, whole) /\ r.latest = m
    BY <1>2, <1>2a, <1>6, <2>1, <2>2, <2>3
  <2> QED BY <1>3, <2>4 DEF StoreHolds, r
<1>7. CASE Newer(m, s) /\ s.latest # Nothing
  <2>1. s.latest \in Metrics /\ s.latest.at \in Nat /\ s.latest.at < m.at
    <3>1. s.latest \in Metrics /\ m.at > s.latest.at
      BY <1>1, <1>7 DEF Newer
    <3>2. s.latest.at \in Nat
      BY <3>1 DEF Metrics
    <3> QED BY <1>3, <3>1, <3>2
  <2>2. PICK first \in Nat : DaysHold(s.daily, s.known, first, s.latest.at, mv, whole)
    BY <1>7 DEF StoreHolds
  <2>3. /\ mv[s.latest.at + 1] \in Nat /\ mv[s.latest.at + 1] <= mv[m.at + 1]
    <3>1. s.latest.at \in 0 .. m.at /\ m.at \in 0 .. m.at /\ s.latest.at <= m.at
      BY <1>3, <2>1
    <3> QED BY <3>1
  <2>4. /\ DailyBytes(s.latest, m) <= mv[m.at + 1] - mv[s.latest.at + 1]
        /\ whole => DailyBytes(s.latest, m) = mv[m.at + 1] - mv[s.latest.at + 1]
    BY <1>4, <1>7, <2>1, <2>3, BytesCounted
  <2>5. DaysHold(PruneDaily(AddDailyTraffic(new, s.latest, m)),
                 s.known \cup {m.at}, first, m.at, mv, whole)
    BY <1>1, <1>7, <2>1, <2>2, <2>4, DaysAdvance
  <2> HIDE DEF new
  <2>6. DaysHold(r.daily, r.known, first, m.at, mv, whole) /\ r.latest = m
    BY <1>2, <1>2a, <1>7, <2>5
  <2> QED BY <1>3, <2>6 DEF StoreHolds, r
<1> QED BY <1>5, <1>6, <1>7 DEF r

LEMMA DaysSoundInit == MeterInit => DaysSound
<1> SUFFICES ASSUME MeterInit PROVE DaysSound
  OBVIOUS
<1>1. wire = {} /\ store = NewStore /\ storeFile = NewStore
  BY DEF MeterInit
<1>2. NewStore.latest = Nothing /\ NewStore.known = {} /\ DOMAIN NewStore.daily = {}
  BY DEF NewStore
<1>3. StoreHolds(NewStore, moved, node.whole)
  BY <1>2 DEF StoreHolds
<1> QED BY <1>1, <1>2, <1>3 DEF DaysSound, Accepted

LEMMA SameSeries ==
  ASSUME NEW nd, NEW ne, ne.source = nd.source, ne.boot = nd.boot,
         \A c \in Cards : ne.counters[c].index = nd.counters[c].index, NEW m, OfNode(m, nd)
  PROVE  OfNode(m, ne)
BY DEF OfNode

LEMMA WholeOrNot ==
  ASSUME node \in Nodes
  PROVE  /\ node.whole \in BOOLEAN
         /\ Reboot \/ Upgrade \/ (\E card \in Cards : Replace(card)) => node'.whole = FALSE
         /\ \A card \in Cards : Carry(card) =>
              /\ node'.whole = node.whole /\ node'.source = node.source
              /\ node'.boot = node.boot
              /\ \A c \in Cards : node'.counters[c].index = node.counters[c].index
<1>1. /\ DOMAIN node = {"boot", "source", "counters", "whole"} /\ node.counters \in Counters
      /\ node.whole \in BOOLEAN
  BY DEF Nodes
<1>2. Reboot => node'.whole = FALSE
  <2> DEFINE k == [c \in Cards |-> [node.counters[c] EXCEPT !.bytes = 0]]
             b == node.boot + 1
  <2>1. Reboot => node' = [node EXCEPT !.boot = b, !.whole = FALSE, !.counters = k]
    BY DEF Reboot
  <2> HIDE DEF k, b
  <2> QED BY <1>1, <2>1
<1>3. Upgrade => node'.whole = FALSE
  BY <1>1 DEF Upgrade
<1>4. ASSUME NEW card \in Cards, Replace(card) PROVE node'.whole = FALSE
  <2> DEFINE k == [node.counters EXCEPT ![card] = [index |-> @.index + 1, bytes |-> 0]]
  <2>1. node' = [node EXCEPT !.whole = FALSE, !.counters = k]
    BY <1>1, <1>4 DEF Replace
  <2> HIDE DEF k
  <2> QED BY <1>1, <2>1
<1>5. ASSUME NEW card \in Cards, Carry(card)
      PROVE  /\ node'.whole = node.whole /\ node'.source = node.source
             /\ node'.boot = node.boot
             /\ \A c \in Cards : node'.counters[c].index = node.counters[c].index
  <2>1. node' = [node EXCEPT !.counters[card].bytes = @ + Packet]
    BY <1>5 DEF Carry
  <2> DEFINE k == [node.counters EXCEPT ![card].bytes = @ + Packet]
  <2>2. node' = [node EXCEPT !.counters = k]
    BY <1>1, <2>1
  <2>3. \A c \in Cards : k[c].index = node.counters[c].index
    BY <1>1 DEF Counters
  <2> HIDE DEF k
  <2>4. node'.counters = k /\ node'.whole = node.whole /\ node'.source = node.source
        /\ node'.boot = node.boot
    BY <1>1, <2>2
  <2> QED BY <2>3, <2>4
<1> QED BY <1>1, <1>2, <1>3, <1>4, <1>5

LEMMA DaysSoundStep ==
  MeterTyped /\ MeterSound /\ DaysSound /\ [MeterNext]_meterVars => DaysSound'
<1> SUFFICES ASSUME MeterTyped, MeterSound, DaysSound, [MeterNext]_meterVars PROVE DaysSound'
  OBVIOUS
<1>0. /\ now \in Nat /\ node \in Nodes /\ wire \subseteq Metrics /\ node.whole \in BOOLEAN
      /\ StoreFits(store, now)
      /\ store.latest \in Metrics \cup {Nothing}
      /\ StoreHolds(store, moved, node.whole) /\ StoreHolds(storeFile, moved, node.whole)
      /\ node.whole => \A m \in Accepted : OfNode(m, node)
  <2>1. /\ node \in Nodes /\ wire \subseteq Metrics /\ StoreFits(store, now)
        /\ store.latest \in Metrics \cup {Nothing}
    BY DEF MeterTyped, StoreFits
  <2> QED BY <2>1, MovedValues, WholeOrNot DEF DaysSound
<1>a. /\ \A x \in Readings : x.at \in 0 .. now
      /\ \A x \in Readings : \A y \in Readings : x.at < y.at => Followed(x, y, moved)
  BY DEF MeterSound, ReadingsOrdered
<1>b. /\ \A m \in wire : ReadingOf(m) \in Readings
      /\ store.latest # Nothing => ReadingOf(store.latest) \in Readings
      /\ storeFile.latest # Nothing => ReadingOf(storeFile.latest) \in Readings
  BY DEF Readings
<1>c. /\ \A m \in wire : m.at \in 0 .. now
      /\ store.latest # Nothing => store.latest.at \in 0 .. now
      /\ storeFile.latest # Nothing => storeFile.latest.at \in 0 .. now
  BY <1>a, <1>b, ReadingParts
<1>d. \A m \in Accepted : m \in wire \/ (m = store.latest /\ m # Nothing)
                                     \/ (m = storeFile.latest /\ m # Nothing)
  BY DEF Accepted
<1>1. CASE PassUnit
  <2>1. wire' \subseteq wire /\ UNCHANGED <<store, storeFile>>
    BY <1>1 DEF PassUnit, storeVars
  <2>2. Accepted' \subseteq Accepted
    BY <2>1 DEF Accepted
  <2>3. /\ node'.whole = node.whole /\ node'.source = node.source /\ node'.boot = node.boot
        /\ \A c \in Cards : node'.counters[c].index = node.counters[c].index
    <3>1. CASE Idle
      BY <3>1 DEF Idle
    <3>2. ASSUME NEW card \in Cards, Carry(card)
          PROVE  /\ node'.whole = node.whole /\ node'.source = node.source
                 /\ node'.boot = node.boot
                 /\ \A c \in Cards : node'.counters[c].index = node.counters[c].index
      BY <1>0, <3>2, WholeOrNot
    <3> QED BY <1>1, <3>1, <3>2 DEF PassUnit
  <2>4. node'.whole => \A m \in Accepted' : OfNode(m, node')
    BY <1>0, <2>2, <2>3, SameSeries
  <2>5. PICK b \in Nat : moved' = Append(moved, Moved(now) + b)
    <3>0. Moved(now) \in Nat
      <4>1. now \in 0 .. now
        BY <1>0
      <4> QED BY <4>1, MovedValues
    <3>1. CASE Idle
      <4>1. moved' = Append(moved, Moved(now) + 0) /\ 0 \in Nat
        BY <3>0, <3>1 DEF Idle
      <4> QED BY <4>1
    <3>2. ASSUME NEW card \in Cards, Carry(card)
          PROVE  \E b \in Nat : moved' = Append(moved, Moved(now) + b)
      <4>1. moved' = Append(moved, Moved(now) + Packet) /\ Packet \in Nat
        BY <3>2, MeteringAssumption DEF Carry
      <4> QED BY <4>1
    <3> QED BY <1>1, <3>1, <3>2 DEF PassUnit
  <2>6. \A i \in 1 .. now + 1 : moved'[i] = moved[i]
    BY <2>5, MovedOn
  <2>7. StoreHolds(store, moved', node'.whole) /\ StoreHolds(storeFile, moved', node'.whole)
    <3> DEFINE nv == moved'
    <3>1. \A i \in 1 .. now + 1 : nv[i] = moved[i]
      BY <2>6
    <3> HIDE DEF nv
    <3>a. now \in Nat /\ (node.whole => node.whole)
      BY <1>0
    <3>b. StoreHolds(store, moved, node.whole) /\ StoreHolds(storeFile, moved, node.whole)
      BY <1>0
    <3>2. StoreHolds(store, nv, node.whole)
      BY <1>c, <3>1, <3>a, <3>b, DaysLater
    <3>3. StoreHolds(storeFile, nv, node.whole)
      BY <1>c, <3>1, <3>a, <3>b, DaysLater
    <3> QED BY <2>3, <3>2, <3>3 DEF nv
  <2> QED BY <2>1, <2>4, <2>7 DEF DaysSound
<1>2. CASE RestartCounters
  <2>1. UNCHANGED <<moved, store, storeFile>>
    BY <1>2 DEF RestartCounters, storeVars
  <2>2. node'.whole = FALSE
    BY <1>0, <1>2, WholeOrNot DEF RestartCounters
  <2>3. StoreHolds(store, moved, FALSE) /\ StoreHolds(storeFile, moved, FALSE)
    <3>1. \A i \in 1 .. now + 1 : moved[i] = moved[i]
      OBVIOUS
    <3> QED BY <1>0, <1>c, <3>1, DaysLater
  <2> QED BY <2>1, <2>2, <2>3 DEF DaysSound
<1>3. CASE Report
  <2>1. UNCHANGED <<moved, node, store, storeFile>> /\ wire' \in {wire, wire \cup {NewMetric}}
    BY <1>3 DEF Report, storeVars
  <2>2. Accepted' \subseteq Accepted \cup {NewMetric}
    BY <2>1 DEF Accepted
  <2>3. OfNode(NewMetric, node)
    BY DEF OfNode, NewMetric
  <2> QED BY <1>0, <2>1, <2>2, <2>3 DEF DaysSound
<1>4. ASSUME NEW m \in wire, HandleMetric(m) PROVE DaysSound'
  <2>1. /\ UNCHANGED <<moved, node, storeFile>> /\ wire' \subseteq wire
        /\ store' = UpdateMetric([store EXCEPT !.contact = now], m)
    BY <1>4 DEF HandleMetric, nodeVars
  <2>2. store'.latest \in {m, store.latest}
    <3>1. DOMAIN store = {"latest", "contact", "daily", "known"}
      BY <1>0 DEF StoreFits
    <3>2. UpdateMetric([store EXCEPT !.contact = now], m).latest \in {m, store.latest}
      BY <3>1, UpdatedLatest
    <3> QED BY <2>1, <3>2
  <2>3. Accepted' \subseteq Accepted
    BY <2>1, <2>2 DEF Accepted
  <2>4. m \in Metrics /\ m.at \in Nat /\ m.at <= now /\ m \in Accepted
    BY <1>0, <1>c DEF Accepted
  <2>5. /\ \A i \in 0 .. m.at : moved[i + 1] \in Nat
        /\ \A i \in 0 .. m.at : \A j \in 0 .. m.at : i <= j => moved[i + 1] <= moved[j + 1]
    <3>1. \A i \in 0 .. m.at : i \in 0 .. now
      BY <1>0, <2>4
    <3> QED BY <3>1, MovedValues
  <2>6. store.latest # Nothing /\ store.latest.at < m.at =>
          /\ Followed(ReadingOf(store.latest), ReadingOf(m), moved)
          /\ node.whole => \E nd : OfNode(store.latest, nd) /\ OfNode(m, nd)
    <3> SUFFICES ASSUME store.latest # Nothing, store.latest.at < m.at
                 PROVE  /\ Followed(ReadingOf(store.latest), ReadingOf(m), moved)
                        /\ node.whole => \E nd : OfNode(store.latest, nd) /\ OfNode(m, nd)
      OBVIOUS
    <3>1. Followed(ReadingOf(store.latest), ReadingOf(m), moved)
      BY <1>a, <1>b, ReadingParts
    <3>2. store.latest \in Accepted
      BY DEF Accepted
    <3> QED BY <1>0, <2>4, <3>1, <3>2
  <2>7. StoreHolds(UpdateMetric([store EXCEPT !.contact = now], m), moved, node.whole)
    BY <1>0, <2>4, <2>5, <2>6, UpdateHolds
  <2>8. StoreHolds(store', moved', node'.whole) /\ StoreHolds(storeFile', moved', node'.whole)
    BY <1>0, <2>1, <2>7
  <2>9. node'.whole => \A a \in Accepted' : OfNode(a, node')
    BY <1>0, <2>1, <2>3
  <2> QED BY <2>8, <2>9 DEF DaysSound
<1>5. CASE HostRound
  <2>1. UNCHANGED <<moved, node, wire, store, storeFile>>
    BY <1>5 DEF HostRound, nodeVars, storeVars
  <2> QED BY <1>0, <2>1 DEF DaysSound, Accepted
<1>6. CASE FlushStore
  <2>1. UNCHANGED <<moved, node, wire, store>> /\ storeFile' = store
    BY <1>6 DEF FlushStore, nodeVars
  <2>2. Accepted' \subseteq Accepted
    BY <2>1 DEF Accepted
  <2> QED BY <1>0, <2>1, <2>2 DEF DaysSound
<1>7. CASE Stop
  <2>1. UNCHANGED <<moved, node, wire, storeFile>> /\ store' = NewStore
    BY <1>7 DEF Stop, nodeVars
  <2>2. NewStore.latest = Nothing /\ NewStore.known = {} /\ DOMAIN NewStore.daily = {}
    BY DEF NewStore
  <2>3. Accepted' \subseteq Accepted
    BY <2>1, <2>2 DEF Accepted
  <2>4. StoreHolds(store', moved', node'.whole)
    BY <2>1, <2>2 DEF StoreHolds
  <2> QED BY <1>0, <2>1, <2>3, <2>4 DEF DaysSound
<1>8. CASE Start
  <2>1. UNCHANGED <<moved, node, wire, storeFile>> /\ store' = storeFile
    BY <1>8 DEF Start, nodeVars
  <2>2. Accepted' \subseteq Accepted
    BY <2>1 DEF Accepted
  <2> QED BY <1>0, <2>1, <2>2 DEF DaysSound
<1>9. CASE UNCHANGED meterVars
  <2>1. UNCHANGED <<moved, node, wire, store, storeFile>>
    BY <1>9 DEF meterVars, nodeVars, storeVars
  <2> QED BY <1>0, <2>1 DEF DaysSound, Accepted
<1> QED BY <1>1, <1>2, <1>3, <1>4, <1>5, <1>6, <1>7, <1>8, <1>9 DEF MeterNext

(* The days of a node add up: they hold every byte between its first and   *)
(* its latest metric unless a counter was restarted or a day is too old,   *)
(* never more, and no day holds bytes moved outside the metrics around it, *)
(* whatever is lost, late or forgotten at a stop.                          *)
THEOREM DaysAddUp == MeterSpec => []DailyExact
<1>1. MeterTyped /\ MeterSound /\ DaysSound => DailyExact
  <2> SUFFICES ASSUME MeterTyped, MeterSound, DaysSound, store.latest # Nothing
               PROVE  LET all == Moved(store.latest.at) - Moved(Min(store.known)) IN
                      /\ DailySum <= all
                      /\ node.whole /\ DateOf(store.latest.at) - DateOf(Min(store.known)) < Retain
                           => DailySum = all
                      /\ \A d \in DOMAIN store.daily :
                           store.daily[d] <= Moved(Around(d).to) - Moved(Around(d).from)
    BY DEF DailyExact
  <2> DEFINE k == store.known
             l == store.latest.at
  <2>1. PICK first \in Nat : DaysHold(store.daily, k, first, l, moved, node.whole)
    BY DEF DaysSound, StoreHolds
  <2>2. ReadingOf(store.latest) \in Readings
    BY DEF Readings
  <2>3. l \in 0 .. now /\ now \in Nat
    BY <2>2, ReadingParts, MovedValues DEF MeterSound, ReadingsOrdered
  <2>4. DOMAIN store.daily \subseteq Nat /\ DailySum = DaySum(store.daily)
    <3>1. DOMAIN store.daily \subseteq Nat
      BY DEF MeterTyped, StoreFits, DailyOK
    <3> QED BY <3>1 DEF DailySum, DaySum
  <2> HIDE DEF k, l
  <2>5. /\ first \in k /\ l \in k /\ k \subseteq first .. l
        /\ DaySum(store.daily) <= moved[l + 1] - moved[first + 1]
        /\ node.whole /\ DateOf(l) - DateOf(first) < Retain =>
             DaySum(store.daily) = moved[l + 1] - moved[first + 1]
        /\ \A d \in DOMAIN store.daily : \A f \in k : \A t \in k :
             (f <= d * Day \/ f = first) /\ (t >= (d + 1) * Day \/ t = l)
               => store.daily[d] <= moved[t + 1] - moved[f + 1]
    BY <2>1 DEF DaysHold
  <2>a. first \in k /\ l \in k /\ \A t \in k : t \in first .. l
    BY <2>5
  <2>b. l \in Nat /\ l <= now
    BY <2>3
  <2>c. \A t \in k : t \in Nat /\ first <= t /\ t <= l /\ t \in 0 .. now
    BY <2>3, <2>a, <2>b
  <2>6. k \subseteq Nat /\ k \subseteq 0 .. l /\ k # {}
    BY <2>a, <2>b, <2>c
  <2>7. Min(k) = first
    <3>1. Min(k) \in k /\ \A t \in k : Min(k) <= t
      BY <2>6, SmallestOf
    <3>2. Min(k) \in Nat /\ first <= Min(k) /\ Min(k) <= first
      BY <2>a, <2>c, <3>1
    <3> QED BY <3>2
  <2>8. Max(k) = l
    <3>1. Max(k) \in k /\ \A t \in k : t <= Max(k)
      BY <2>b, <2>6, LargestUpTo
    <3>2. Max(k) \in Nat /\ l <= Max(k) /\ Max(k) <= l
      BY <2>a, <2>c, <3>1
    <3> QED BY <2>b, <3>2
  <2>9. \A t \in k : Moved(t) = moved[t + 1]
    BY <2>c, MovedValues
  <2>10. ASSUME NEW d \in DOMAIN store.daily
         PROVE  store.daily[d] <= Moved(Around(d).to) - Moved(Around(d).from)
    <3> DEFINE before == {t \in k : t <= d * Day}
               after == {t \in k : t >= (d + 1) * Day}
               f == IF before = {} THEN Min(k) ELSE Max(before)
               t == IF after = {} THEN Max(k) ELSE Min(after)
    <3>1. Around(d).from = f /\ Around(d).to = t
      BY DEF Around, k
    <3>2. f \in k /\ (f <= d * Day \/ f = first)
      <4>1. CASE before = {}
        BY <2>a, <2>7, <4>1
      <4>2. CASE before # {}
        <5>1. before \subseteq 0 .. l /\ l \in Nat
          BY <2>b, <2>6
        <5>2. f = Max(before)
          BY <4>2
        <5> HIDE DEF f
        <5>3. f \in before
          <6> HIDE DEF before
          <6> QED BY <4>2, <5>1, <5>2, LargestUpTo
        <5> QED BY <5>3
      <4> QED BY <4>1, <4>2
    <3>3. t \in k /\ (t >= (d + 1) * Day \/ t = l)
      <4>1. CASE after = {}
        BY <2>a, <2>8, <4>1
      <4>2. CASE after # {}
        <5>1. after \subseteq Nat
          BY <2>6
        <5>2. t = Min(after)
          BY <4>2
        <5> HIDE DEF t
        <5>3. t \in after
          <6> HIDE DEF after
          <6> QED BY <4>2, <5>1, <5>2, SmallestOf
        <5> QED BY <5>3
      <4> QED BY <4>1, <4>2
    <3> HIDE DEF f, t
    <3>4. store.daily[d] <= moved[t + 1] - moved[f + 1]
      BY <2>5, <3>2, <3>3
    <3> QED BY <2>9, <3>1, <3>2, <3>3, <3>4
  <2> QED BY <2>4, <2>5, <2>7, <2>9, <2>10 DEF k, l
<1>2. MeterSpec => [](MeterTyped /\ MeterSound /\ DaysSound)
  BY MeterTypedInit, MeterTypedStep, MeterSoundInit, MeterSoundStep,
     DaysSoundInit, DaysSoundStep, PTL DEF MeterSpec
<1> QED BY <1>1, <1>2, PTL
=============================================================================
