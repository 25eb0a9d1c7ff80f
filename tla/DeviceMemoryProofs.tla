--------------------------- MODULE DeviceMemoryProofs ---------------------------
(***************************************************************************)
(* MemoryAccounted, OneEmptyPoolKept and ImplementsAllocator for any       *)
(* resources, requests, memory types and sizes of which PoolsFit holds:    *)
(* the hypothesis of the three theorems, which the heaps do not ensure and *)
(* without which split_block() can subtract more than a block has.         *)
(*                                                                         *)
(* Of a pool what is inductive is Sound: its blocks tile it and begin at   *)
(* multiples of the minimum size, no two neighbours are free, and its      *)
(* lists and bits are those of its free blocks by size class.  A size that *)
(* is rounded up still fits its block (AllocateIs): because of the bytes   *)
(* that the alignment keeps in reserve, of the class that is searched for, *)
(* or of what a last block is made of (RoundedFits).                       *)
(*                                                                         *)
(* Of the heaps it is MemoryInv: every block in use *)
(* is that of one resource and every resource in a pool has one there, and *)
(* every chunk is that of one pool, of one resource that has it alone, or  *)
(* of one call that destroys it.                                           *)
(***************************************************************************)
EXTENDS DeviceMemory, FiniteSetTheorems, WellFoundedInduction, TLAPS

(* Induction up to a bound, over the numbers that have a property. *)
LEMMA CountingUp ==
  ASSUME NEW b \in Nat, NEW S \in SUBSET (0 .. b), 0 \in S, \A n \in S : n < b => n + 1 \in S
  PROVE  \A n \in 0 .. b : n \in S
<1> DEFINE T == (0 .. b) \ S
           Below == {ss \in Nat \X Nat : ss[1] < ss[2]}
<1>1. Below = OpToRel(<, Nat)
  BY DEF OpToRel
<1>2. IsWellFoundedOn(Below, Nat)
  BY NatLessThanWellFounded, <1>1
<1>3. \A m, n \in Nat : <<m, n>> \in Below <=> m < n
  OBVIOUS
<1> HIDE DEF Below
<1>4. ASSUME T # {} PROVE FALSE
  <2>1. T \in SUBSET Nat
    OBVIOUS
  <2>2. PICK n \in T : \A m \in T : ~(<<m, n>> \in Below)
    BY <1>2, <1>4, <2>1, WFMin
  <2>3. n \in 0 .. b /\ n \notin S /\ n # 0
    BY <2>2
  <2>4. n - 1 \in 0 .. b /\ n - 1 < n
    BY <2>3
  <2>5. n - 1 \in S
    <3>1. PICK m \in 0 .. b : m = n - 1
      BY <2>4
    <3>2. <<m, n>> \in Below
      BY <1>3, <2>3, <2>4, <3>1
    <3>3. m \notin T
      BY <2>2, <3>2
    <3> QED
      BY <3>1, <3>3
  <2> QED
    BY <2>3, <2>4, <2>5
<1> QED
  BY <1>4

(* There is a function for a recursion over the numbers up to a bound. *)
Recursion(b, V, start, next) == b \in Nat /\ start \in V /\ next \in [(1 .. b) \X V -> V]
Computes(f, b, V, start, next) ==
  f \in [0 .. b -> V] /\ f[0] = start /\ \A n \in 1 .. b : f[n] = next[<<n, f[n - 1]>>]

(* What a recursion computes up to a bound exists.                         *)
LEMMA RecursionExists ==
  ASSUME NEW b, NEW V, NEW start, NEW next, Recursion(b, V, start, next)
  PROVE  \E f : Computes(f, b, V, start, next)
<1> USE DEF Recursion
<1> DEFINE Follows(f, n) == f \in [0 .. n -> V] /\ f[0] = start /\ \A k \in 1 .. n : f[k] = next[<<k, f[k - 1]>>]
           S == {n \in 0 .. b : \E f : Follows(f, n)}
<1>1. 0 \in S
  <2>1. Follows([n \in 0 .. 0 |-> start], 0)
    OBVIOUS
  <2> HIDE DEF Follows
  <2>2. \E f : Follows(f, 0)
    BY <2>1
  <2> QED
    BY <2>2
<1>2. ASSUME NEW n \in S, n < b PROVE n + 1 \in S
  <2>1. PICK f : Follows(f, n)
    OBVIOUS
  <2> DEFINE g == [k \in 0 .. n + 1 |-> IF k = n + 1 THEN next[<<n + 1, f[n]>>] ELSE f[k]]
  <2>2. n \in Nat /\ n + 1 \in 1 .. b
    BY <1>2
  <2>3. next[<<n + 1, f[n]>>] \in V
    BY <2>1, <2>2
  <2>4. g \in [0 .. n + 1 -> V]
    BY <2>1, <2>2, <2>3
  <2>5. g[0] = start
    BY <2>1, <2>2
  <2>6. \A k \in 1 .. n + 1 : g[k] = next[<<k, g[k - 1]>>]
    <3>1. ASSUME NEW k \in 1 .. n PROVE g[k] = next[<<k, g[k - 1]>>]
      <4>1. k \in 0 .. n + 1 /\ k # n + 1 /\ k - 1 \in 0 .. n + 1 /\ k - 1 # n + 1
        BY <2>2
      <4>2. g[k] = f[k] /\ g[k - 1] = f[k - 1]
        BY <4>1
      <4> QED
        BY <2>1, <4>2
    <3>2. g[n + 1] = next[<<n + 1, g[n]>>]
      <4>1. n + 1 \in 0 .. n + 1 /\ n \in 0 .. n + 1 /\ n # n + 1
        BY <2>2
      <4>2. g[n + 1] = next[<<n + 1, f[n]>>] /\ g[n] = f[n]
        BY <4>1
      <4> QED
        BY <4>2
    <3>3. \A k \in 1 .. n + 1 : k \in 1 .. n \/ (k = n + 1 /\ k - 1 = n)
      BY <2>2
    <3> QED
      BY <3>1, <3>2, <3>3
  <2>7. Follows(g, n + 1)
    BY <2>4, <2>5, <2>6
  <2> HIDE DEF Follows, g
  <2>8. \E h : Follows(h, n + 1)
    BY <2>7
  <2>9. n + 1 \in 0 .. b
    BY <2>2
  <2> QED
    BY <2>8, <2>9
<1>3. b \in S
  <2>1. S \in SUBSET (0 .. b) /\ b \in 0 .. b
    OBVIOUS
  <2> HIDE DEF S
  <2> QED
    BY <1>1, <1>2, <2>1, CountingUp
<1> QED
  BY <1>3 DEF Computes

-----------------------------------------------------------------------------
(* Powers of two, and the arithmetic of sizes. *)

LEMMA PowerIs == Power[0] = 1 /\ \A n \in 1 .. 34 : Power[n] = 2 * Power[n - 1]
<1>1. \E f : f = [n \in 0 .. 34 |-> IF n = 0 THEN 1 ELSE 2 * f[n - 1]]
  <2> DEFINE next == [x \in (1 .. 34) \X Nat |-> 2 * x[2]]
  <2>1. next \in [(1 .. 34) \X Nat -> Nat]
    OBVIOUS
  <2>2. \A n \in 1 .. 34, m \in Nat : next[<<n, m>>] = 2 * m
    OBVIOUS
  <2> HIDE DEF next
  <2>3. Recursion(34, Nat, 1, next)
    BY <2>1 DEF Recursion
  <2>4. PICK f : Computes(f, 34, Nat, 1, next)
    BY <2>3, RecursionExists
  <2>5. \A n \in 1 .. 34 : f[n] = 2 * f[n - 1]
    <3> SUFFICES ASSUME NEW n \in 1 .. 34 PROVE f[n] = 2 * f[n - 1]
      OBVIOUS
    <3>1. n - 1 \in 0 .. 34
      OBVIOUS
    <3>2. f[n - 1] \in Nat /\ f[n] = next[<<n, f[n - 1]>>]
      BY <2>4, <3>1 DEF Computes
    <3> QED
      BY <2>2, <3>2
  <2>6. f = [n \in 0 .. 34 |-> IF n = 0 THEN 1 ELSE 2 * f[n - 1]]
    BY <2>4, <2>5 DEF Computes
  <2> QED
    BY <2>6
<1>2. Power = [n \in 0 .. 34 |-> IF n = 0 THEN 1 ELSE 2 * Power[n - 1]]
  BY <1>1, Zenon DEF Power
<1>3. 0 \in 0 .. 34 /\ \A n \in 1 .. 34 : n \in 0 .. 34 /\ n # 0
  OBVIOUS
<1> QED
  BY <1>2, <1>3

LEMMA PowerTyped == \A n \in 0 .. 34 : Power[n] \in Nat /\ Power[n] > 0
<1> DEFINE S == {n \in 0 .. 34 : Power[n] \in Nat /\ Power[n] > 0}
<1>1. 0 \in S
  BY PowerIs
<1>2. ASSUME NEW n \in S, n < 34 PROVE n + 1 \in S
  <2>1. n + 1 \in 1 .. 34 /\ (n + 1) - 1 = n
    BY <1>2
  <2>2. Power[n + 1] = 2 * Power[n]
    BY <2>1, PowerIs
  <2> QED
    BY <2>1, <2>2
<1>3. S \in SUBSET (0 .. 34)
  OBVIOUS
<1> HIDE DEF S
<1>4. \A n \in 0 .. 34 : n \in S
  BY <1>1, <1>2, <1>3, CountingUp
<1> QED
  BY <1>4 DEF S

LEMMA PowerNext == \A n \in 0 .. 33 : Power[n + 1] = 2 * Power[n]
<1> SUFFICES ASSUME NEW n \in 0 .. 33 PROVE Power[n + 1] = 2 * Power[n]
  OBVIOUS
<1>1. n + 1 \in 1 .. 34 /\ (n + 1) - 1 = n
  OBVIOUS
<1> QED
  BY <1>1, PowerIs

(* A sum of exponents. *)
LEMMA PowerOfSum ==
  ASSUME NEW a \in 0 .. 34
  PROVE  \A b \in 0 .. 34 - a : Power[a + b] = Power[a] * Power[b]
<1> DEFINE S == {b \in 0 .. 34 - a : Power[a + b] = Power[a] * Power[b]}
<1>1. 0 \in S
  BY PowerIs, PowerTyped
<1>2. ASSUME NEW b \in S, b < 34 - a PROVE b + 1 \in S
  <2>1. b \in 0 .. 33 /\ a + b \in 0 .. 33 /\ a + (b + 1) = (a + b) + 1 /\ b + 1 \in 0 .. 34 - a
    BY <1>2
  <2>2. Power[(a + b) + 1] = 2 * Power[a + b] /\ Power[b + 1] = 2 * Power[b] /\ Power[a + b] = Power[a] * Power[b]
    BY <2>1, PowerNext
  <2>3. Power[a] \in Nat /\ Power[b] \in Nat
    BY <2>1, PowerTyped
  <2>4. Power[a + (b + 1)] = Power[a] * Power[b + 1]
    BY <2>1, <2>2, <2>3
  <2> QED
    BY <2>1, <2>4
<1>3. S \in SUBSET (0 .. 34 - a) /\ 34 - a \in Nat
  OBVIOUS
<1> HIDE DEF S
<1>4. \A b \in 0 .. 34 - a : b \in S
  BY <1>1, <1>2, <1>3, CountingUp
<1> QED
  BY <1>4 DEF S

(* The powers ascend, and each divides those above it. *)
LEMMA PowerAscends ==
  ASSUME NEW a \in 0 .. 34, NEW b \in 0 .. 34, a <= b
  PROVE  /\ Power[b] = Power[b - a] * Power[a] /\ Power[b - a] \in Nat /\ Power[b - a] > 0
         /\ Power[a] <= Power[b] /\ (a < b => 2 * Power[a] <= Power[b])
<1>1. b - a \in 0 .. 34 - a /\ b - a \in 0 .. 34 /\ a + (b - a) = b
  OBVIOUS
<1>2. Power[b] = Power[a] * Power[b - a]
  BY <1>1, PowerOfSum
<1>3. Power[b - a] \in Nat /\ Power[b - a] > 0 /\ Power[a] \in Nat /\ Power[a] > 0
  BY <1>1, PowerTyped
<1>4. Power[a] <= Power[b]
  BY <1>2, <1>3
<1>5. ASSUME a < b PROVE Power[b - a] >= 2
  <2>1. b - a - 1 \in 0 .. 33 /\ (b - a - 1) + 1 = b - a
    BY <1>5
  <2>2. Power[b - a] = 2 * Power[b - a - 1] /\ Power[b - a - 1] \in Nat /\ Power[b - a - 1] > 0
    BY <2>1, PowerNext, PowerTyped
  <2> QED
    BY <2>2
<1> QED
  BY <1>2, <1>3, <1>4, <1>5

(* The logarithm of a size. *)
Sizes == 1 .. 2 * WordSize

(* The word is a power of two that the table of powers goes beyond.        *)
LEMMA WordIs == WordSize \in Nat /\ \E w \in 1 .. 32 : WordSize = Power[w] /\ 2 * WordSize = Power[w + 1]
<1>1. PICK w \in 1 .. 32 : WordSize = Power[w]
  BY PoolAssumption
<1>2. w \in 0 .. 33 /\ w \in 0 .. 34
  OBVIOUS
<1> QED
  BY <1>1, <1>2, PowerNext, PowerTyped

(* A divisor goes once into what is less than twice as large.              *)
LEMMA DivisionIsOne ==
  ASSUME NEW n \in Nat, NEW p \in Nat, p > 0
  PROVE  n \div p = 1 <=> p <= n /\ n < 2 * p
<1> DEFINE q == n \div p
           r == n % p
<1>1. q \in Nat /\ r \in 0 .. p - 1 /\ n = p * q + r
  OBVIOUS
<1> HIDE DEF q, r
<1>2. q = 1 => p <= n /\ n < 2 * p
  BY <1>1
<1>3. q = 0 => n < p
  BY <1>1
<1>4. q >= 2 => n >= 2 * p
  BY <1>1
<1>5. q = 1 <=> p <= n /\ n < 2 * p
  BY <1>1, <1>2, <1>3, <1>4
<1> QED
  BY <1>5 DEF q

(* Log2 is the integer logarithm of a size.                                *)
LEMMA LogIs ==
  ASSUME NEW n \in Sizes
  PROVE  Log2[n] \in 0 .. 33 /\ Power[Log2[n]] <= n /\ n < Power[Log2[n] + 1]
<1> DEFINE S == {k \in 0 .. 34 : Power[k] <= n}
<1>1. \E k \in 0 .. 33 : Power[k] <= n /\ n < Power[k + 1]
  <2> SUFFICES ASSUME \A k \in 0 .. 33 : Power[k] <= n => ~(n < Power[k + 1]) PROVE FALSE
    OBVIOUS
  <2>1. n \in Nat /\ n > 0
    BY WordIs DEF Sizes
  <2>2. 0 \in S
    BY <2>1, PowerIs
  <2>3. ASSUME NEW k \in S, k < 34 PROVE k + 1 \in S
    <3>1. k \in 0 .. 33 /\ k + 1 \in 0 .. 34
      BY <2>3
    <3>2. ~(n < Power[k + 1]) /\ Power[k + 1] \in Nat
      BY <3>1, PowerTyped
    <3> QED
      BY <2>1, <3>1, <3>2
  <2>4. S \in SUBSET (0 .. 34) /\ 34 \in 0 .. 34
    OBVIOUS
  <2> HIDE DEF S
  <2>5. 34 \in S
    BY <2>2, <2>3, <2>4, CountingUp
  <2>6. PICK w \in 1 .. 32 : 2 * WordSize = Power[w + 1]
    BY WordIs
  <2>7. w + 1 \in 0 .. 34 /\ w + 1 < 34
    OBVIOUS
  <2>8. 2 * Power[w + 1] <= Power[34] /\ Power[w + 1] \in Nat /\ Power[w + 1] > 0 /\ Power[34] \in Nat
    <3> DEFINE v == w + 1
               top == 34
    <3>1. v \in 0 .. 34 /\ top \in 0 .. 34 /\ v <= top /\ v < top
      BY <2>7
    <3> HIDE DEF v, top
    <3>2. 2 * Power[v] <= Power[top] /\ Power[v] \in Nat /\ Power[v] > 0 /\ Power[top] \in Nat
      BY <3>1, PowerAscends, PowerTyped
    <3> QED
      BY <3>2 DEF v, top
  <2>9. n <= Power[w + 1] /\ Power[34] <= n
    BY <2>5, <2>6 DEF Sizes, S
  <2> QED
    BY <2>1, <2>8, <2>9
<1>2. Log2[n] = CHOOSE k \in 0 .. 33 : n \div Power[k] = 1
  BY DEF Log2, Sizes
<1>3. \A k \in 0 .. 33 : n \div Power[k] = 1 <=> Power[k] <= n /\ n < Power[k + 1]
  <2> SUFFICES ASSUME NEW k \in 0 .. 33 PROVE n \div Power[k] = 1 <=> Power[k] <= n /\ n < Power[k + 1]
    OBVIOUS
  <2>1. k \in 0 .. 34 /\ n \in Nat
    BY WordIs DEF Sizes
  <2>2. Power[k] \in Nat /\ Power[k] > 0 /\ Power[k + 1] = 2 * Power[k]
    BY <2>1, PowerTyped, PowerNext
  <2> QED
    BY <2>1, <2>2, DivisionIsOne
<1>4. Log2[n] \in 0 .. 33 /\ n \div Power[Log2[n]] = 1
  BY <1>1, <1>2, <1>3
<1> QED
  BY <1>3, <1>4

(* The logarithm is the only number between whose powers the size lies.    *)
LEMMA LogOf ==
  ASSUME NEW n \in Sizes, NEW k \in 0 .. 33, Power[k] <= n, n < Power[k + 1]
  PROVE  Log2[n] = k
<1> DEFINE l == Log2[n]
<1>1. l \in 0 .. 33 /\ Power[l] <= n /\ n < Power[l + 1]
  BY LogIs
<1>2. n \in Nat
  BY WordIs DEF Sizes
<1> HIDE DEF l
<1>3. ASSUME l < k PROVE FALSE
  <2>1. l + 1 \in 0 .. 34 /\ k \in 0 .. 34 /\ l + 1 <= k
    BY <1>1, <1>3
  <2>2. Power[l + 1] <= Power[k] /\ Power[l + 1] \in Nat /\ Power[k] \in Nat
    BY <2>1, PowerAscends, PowerTyped
  <2> QED
    BY <1>1, <1>2, <2>2
<1>4. ASSUME k < l PROVE FALSE
  <2>1. k + 1 \in 0 .. 34 /\ l \in 0 .. 34 /\ k + 1 <= l
    BY <1>1, <1>4
  <2>2. Power[k + 1] <= Power[l] /\ Power[k + 1] \in Nat /\ Power[l] \in Nat
    BY <2>1, PowerAscends, PowerTyped
  <2> QED
    BY <1>1, <1>2, <2>2
<1> QED
  BY <1>1, <1>3, <1>4 DEF l

LEMMA LogOfPower == ASSUME NEW k \in 0 .. 33, Power[k] \in Sizes PROVE Log2[Power[k]] = k
<1>1. Power[k + 1] = 2 * Power[k] /\ Power[k] \in Nat /\ Power[k] > 0
  BY PowerNext, PowerTyped
<1> QED
  BY <1>1, LogOf

LEMMA LogAscends == ASSUME NEW n \in Sizes, NEW p \in Sizes, n <= p PROVE Log2[n] <= Log2[p]
<1> SUFFICES ASSUME Log2[p] < Log2[n] PROVE FALSE
  BY LogIs
<1> DEFINE k == Log2[p]
           l == Log2[n]
<1>1. k \in 0 .. 33 /\ l \in 0 .. 33 /\ p < Power[k + 1] /\ Power[l] <= n
  BY LogIs
<1>2. k < l /\ n \in Nat /\ p \in Nat
  BY WordIs DEF Sizes
<1> HIDE DEF k, l
<1>3. k + 1 \in 0 .. 34 /\ l \in 0 .. 34 /\ k + 1 <= l
  BY <1>1, <1>2
<1>4. Power[k + 1] <= Power[l] /\ Power[k + 1] \in Nat /\ Power[l] \in Nat
  BY <1>3, PowerAscends, PowerTyped
<1> QED
  BY <1>1, <1>2, <1>4

(* The logarithms of the counts. *)
LogMin == Log2[MinSize]
LogSl == Log2[SlCount]
LogWord == Log2[WordSize]

(* The counts that memory_pool.hh derives from the minimum size, the word  *)
(* and the number of second-level lists.                                   *)
LEMMA CountsAre ==
  /\ LogMin \in 1 .. 8 /\ MinSize = Power[LogMin] /\ LogSl \in 0 .. 5 /\ SlCount = Power[LogSl]
  /\ LogWord \in 1 .. 32 /\ WordSize = Power[LogWord] /\ LogSl <= LogMin /\ LogMin < LogWord
  /\ MinSize \in Nat /\ SlCount \in Nat /\ WordSize \in Nat /\ SlCount > 0 /\ MinSize > 1 /\ MinSize < WordSize
<1>1. PICK m \in 1 .. 8, l \in 0 .. 5, w \in 1 .. 32 : MinSize = Power[m] /\ SlCount = Power[l] /\ WordSize = Power[w]
  BY PoolAssumption
<1>2. m \in 0 .. 34 /\ l \in 0 .. 34 /\ w \in 0 .. 34 /\ m \in 0 .. 33 /\ l \in 0 .. 33 /\ w \in 0 .. 33 /\ m # 0
  OBVIOUS
<1>3. MinSize \in Nat /\ MinSize > 0 /\ SlCount \in Nat /\ SlCount > 0 /\ WordSize \in Nat
  BY <1>1, <1>2, PowerTyped
<1>4. MinSize \in Sizes /\ SlCount \in Sizes /\ WordSize \in Sizes
  BY <1>3, PoolAssumption DEF Sizes
<1>5. LogMin = m /\ LogSl = l /\ LogWord = w
  BY <1>1, <1>2, <1>4, LogOfPower DEF LogMin, LogSl, LogWord
<1>6. LogSl <= LogMin
  BY <1>4, LogAscends, PoolAssumption DEF LogSl, LogMin
<1>7. MinSize > 1
  <2> DEFINE z == 0
  <2>1. z \in 0 .. 34 /\ z < m /\ z <= m
    BY <1>2
  <2>2. Power[z] = 1
    BY PowerIs
  <2> HIDE DEF z
  <2>3. 2 * Power[z] <= Power[m]
    BY <1>2, <2>1, PowerAscends
  <2> QED
    BY <1>1, <1>3, <2>2, <2>3
<1>8. LogMin < LogWord
  <2>1. LogMin <= LogWord
    BY <1>3, <1>4, LogAscends, PoolAssumption DEF LogMin, LogWord
  <2>2. LogMin # LogWord
    <3>1. MinSize # WordSize
      BY <1>3, PoolAssumption
    <3>2. m # w
      BY <1>1, <3>1
    <3> QED
      BY <1>5, <3>2
  <2> QED
    BY <1>5, <2>1, <2>2
<1> QED
  BY <1>1, <1>3, <1>5, <1>6, <1>7, <1>8, PoolAssumption

(* Facts about quotients and remainders that the provers need spelt out.   *)
LEMMA Quotient ==
  ASSUME NEW n \in Nat, NEW d \in Nat, d > 0
  PROVE  n \div d \in Nat /\ (n \div d) * d <= n /\ n < ((n \div d) + 1) * d
OBVIOUS

LEMMA Remainder ==
  ASSUME NEW d \in Nat, d > 0, NEW q \in Nat, NEW r \in 0 .. d - 1
  PROVE  (q * d + r) % d = r /\ (q * d + r) \div d = q
OBVIOUS

(* The width of the classes of sizes with a logarithm. *)
Width(k) == Power[k - LogSl]

(* The classes of a first level are equally wide, and a width is a number  *)
(* of bytes.                                                               *)
LEMMA WidthIs ==
  ASSUME NEW k \in LogMin .. 34
  PROVE  Width(k) \in Nat /\ Width(k) > 0 /\ Power[k] = SlCount * Width(k)
<1>1. LogSl \in 0 .. 34 /\ k \in 0 .. 34 /\ LogSl <= k
  BY CountsAre
<1>2. Power[k] = Power[k - LogSl] * Power[LogSl] /\ Power[k - LogSl] \in Nat /\ Power[k - LogSl] > 0
  BY <1>1, PowerAscends
<1> QED
  BY <1>2, CountsAre DEF Width

(* The size class of a size, by its logarithm and its place in the first   *)
(* level.                                                                  *)
LEMMA ClassIs ==
  ASSUME NEW n \in MinSize .. 2 * WordSize
  PROVE  /\ n \in Sizes /\ Log2[n] \in LogMin .. 33 /\ n \div Width(Log2[n]) \in SlCount .. 2 * SlCount - 1
         /\ SizeClass(n) = <<Log2[n] - LogMin, (n \div Width(Log2[n])) - SlCount>>
<1> DEFINE k == Log2[n]
           d == Width(k)
           q == n \div d
<1>1. n \in Sizes /\ n \in Nat
  BY CountsAre DEF Sizes
<1>2. k \in 0 .. 33 /\ Power[k] <= n /\ n < Power[k + 1]
  BY <1>1, LogIs
<1>3. LogMin <= k
  <2>1. MinSize \in Sizes /\ MinSize <= n
    BY CountsAre DEF Sizes
  <2> QED
    BY <1>1, <2>1, LogAscends DEF LogMin
<1> HIDE DEF k
<1>4. k \in LogMin .. 34 /\ k \in 0 .. 33
  BY <1>2, <1>3, CountsAre
<1>5. d \in Nat /\ d > 0 /\ Power[k] = SlCount * d /\ Power[k + 1] = 2 * Power[k]
  BY <1>4, WidthIs, PowerNext
<1> HIDE DEF d
<1>6. q \in Nat /\ q * d <= n /\ n < (q + 1) * d
  BY <1>1, <1>5, Quotient
<1> HIDE DEF q
<1>7. SlCount \in Nat /\ SlCount > 0
  BY CountsAre
<1>8. SlCount * d <= n /\ n < (2 * SlCount) * d
  BY <1>2, <1>5, <1>7
<1>9. SlCount < q + 1
  BY <1>1, <1>5, <1>6, <1>7, <1>8
<1>10. q < 2 * SlCount
  BY <1>1, <1>5, <1>6, <1>7, <1>8
<1>11. q % SlCount = q - SlCount
  <2>1. q - SlCount \in 0 .. SlCount - 1 /\ q = 1 * SlCount + (q - SlCount)
    BY <1>6, <1>7, <1>9, <1>10
  <2> QED
    BY <1>7, <2>1, Remainder
<1>12. SizeClass(n) = <<k - LogMin, q % SlCount>>
  BY DEF SizeClass, k, q, d, Width, LogMin, LogSl
<1> QED
  BY <1>1, <1>4, <1>6, <1>7, <1>9, <1>10, <1>11, <1>12 DEF k, q, d

(* A block has a class of the bitsets.                                     *)
LEMMA ClassInRange ==
  ASSUME NEW n \in MinSize .. WordSize - 1
  PROVE  SizeClass(n) \in Classes
<1> DEFINE k == Log2[n]
           q == n \div Width(k)
<1>1. n \in MinSize .. 2 * WordSize
  BY CountsAre
<1>2. n \in Sizes /\ k \in LogMin .. 33 /\ q \in SlCount .. 2 * SlCount - 1 /\ SizeClass(n) = <<k - LogMin, q - SlCount>>
  BY <1>1, ClassIs
<1>3. k < LogWord
  <2> SUFFICES ASSUME LogWord <= k PROVE FALSE
    BY <1>2, CountsAre
  <2>1. LogWord \in 0 .. 34 /\ k \in 0 .. 34
    <3>1. LogWord \in 1 .. 32 /\ LogMin \in 1 .. 8
      BY CountsAre
    <3> HIDE DEF LogWord, LogMin
    <3> QED
      BY <1>2, <3>1
  <2>2. Power[LogWord] <= Power[k] /\ Power[k] <= n /\ Power[k] \in Nat
    BY <1>2, <2>1, PowerAscends, LogIs, PowerTyped
  <2> QED
    BY <2>2, CountsAre
<1> HIDE DEF k, q
<1>4. k - LogMin \in 0 .. FlCount - 1
  BY <1>2, <1>3, CountsAre DEF FlCount, LogMin, LogWord
<1>5. q - SlCount \in 0 .. SlCount - 1
  BY <1>2, CountsAre
<1> QED
  BY <1>2, <1>4, <1>5 DEF Classes

(* A larger size has no smaller a class.                                   *)
LEMMA ClassAscends ==
  ASSUME NEW n \in MinSize .. 2 * WordSize, NEW p \in MinSize .. 2 * WordSize, n <= p
  PROVE  AtLeast(SizeClass(p), SizeClass(n))
<1> DEFINE k == Log2[n]
           l == Log2[p]
<1>1. /\ n \in Sizes /\ k \in LogMin .. 33 /\ n \div Width(k) \in SlCount .. 2 * SlCount - 1
      /\ SizeClass(n) = <<k - LogMin, (n \div Width(k)) - SlCount>>
  BY ClassIs
<1>2. /\ p \in Sizes /\ l \in LogMin .. 33 /\ p \div Width(l) \in SlCount .. 2 * SlCount - 1
      /\ SizeClass(p) = <<l - LogMin, (p \div Width(l)) - SlCount>>
  BY ClassIs
<1>3. k <= l
  BY <1>1, <1>2, LogAscends
<1> HIDE DEF k, l
<1>4. CASE k = l
  <2>1. k \in LogMin .. 34 /\ n \in Nat /\ p \in Nat
    BY <1>1, <1>2, CountsAre DEF Sizes
  <2> DEFINE d == Width(k)
             i == n \div d
             j == p \div d
  <2>2. d \in Nat /\ d > 0
    BY <2>1, WidthIs
  <2> HIDE DEF d
  <2>3. i \in Nat /\ i * d <= n /\ j \in Nat /\ p < (j + 1) * d
    BY <2>1, <2>2, Quotient
  <2> HIDE DEF i, j
  <2>4. i * d < (j + 1) * d
    BY <2>1, <2>2, <2>3
  <2>5. i < j + 1
    BY <2>2, <2>3, <2>4
  <2>6. SizeClass(n) = <<k - LogMin, i - SlCount>> /\ SizeClass(p) = <<k - LogMin, j - SlCount>>
    BY <1>1, <1>2, <1>4 DEF i, j, d
  <2>7. j - SlCount >= i - SlCount
    BY <2>3, <2>5, CountsAre
  <2> QED
    BY <2>6, <2>7 DEF AtLeast
<1>5. CASE k < l
  <2>1. l - LogMin > k - LogMin
    BY <1>1, <1>2, <1>5, CountsAre
  <2> QED
    BY <1>1, <1>2, <2>1 DEF AtLeast
<1> QED
  BY <1>1, <1>2, <1>3, <1>4, <1>5, CountsAre

(* Alignment rounds up to the next multiple.                               *)
LEMMA AlignUpIs ==
  ASSUME NEW n \in Nat, NEW a \in Nat, a > 0
  PROVE  /\ AlignUp(n, a) \in Nat /\ n <= AlignUp(n, a) /\ AlignUp(n, a) < n + a
         /\ \E q \in Nat : AlignUp(n, a) = q * a
<1> DEFINE q == (n + a - 1) \div a
<1>1. n + a - 1 \in Nat
  OBVIOUS
<1>2. q \in Nat /\ q * a <= n + a - 1 /\ n + a - 1 < (q + 1) * a
  BY <1>1, Quotient
<1>3. AlignUp(n, a) = q * a
  BY DEF AlignUp
<1> HIDE DEF q
<1> QED
  BY <1>2, <1>3

(* A size that is a multiple of the width of its class is the least of it, *)
(* or of a class above.                                                    *)
LEMMA ClassHolds ==
  ASSUME NEW n \in MinSize .. 2 * WordSize, NEW q \in Nat, n = q * Width(Log2[n]),
         NEW s \in MinSize .. 2 * WordSize, AtLeast(SizeClass(s), SizeClass(n))
  PROVE  n <= s
<1> DEFINE k == Log2[n]
           l == Log2[s]
<1>1. /\ n \in Sizes /\ k \in LogMin .. 33
      /\ SizeClass(n) = <<k - LogMin, (n \div Width(k)) - SlCount>> /\ n \div Width(k) \in SlCount .. 2 * SlCount - 1
  BY ClassIs
<1>2. /\ s \in Sizes /\ l \in LogMin .. 33
      /\ SizeClass(s) = <<l - LogMin, (s \div Width(l)) - SlCount>> /\ s \div Width(l) \in SlCount .. 2 * SlCount - 1
  BY ClassIs
<1>3. n < Power[k + 1] /\ Power[l] <= s
  BY <1>1, <1>2, LogIs
<1>4. l > k \/ (l = k /\ s \div Width(l) >= n \div Width(k))
  BY <1>1, <1>2, CountsAre DEF AtLeast
<1>5. n = q * Width(k) /\ n \in Nat /\ s \in Nat
  BY CountsAre
<1> HIDE DEF k, l
<1>6. CASE l > k
  <2>1. k + 1 \in 0 .. 34 /\ l \in 0 .. 34 /\ k + 1 <= l
    BY <1>1, <1>2, <1>6, CountsAre
  <2>2. Power[k + 1] <= Power[l] /\ Power[k + 1] \in Nat /\ Power[l] \in Nat
    BY <2>1, PowerAscends, PowerTyped
  <2> QED
    BY <1>3, <1>5, <2>2
<1>7. CASE l = k /\ s \div Width(l) >= n \div Width(k)
  <2> DEFINE d == Width(k)
             i == s \div d
  <2>1. k \in LogMin .. 34
    BY <1>1, CountsAre
  <2>2. d \in Nat /\ d > 0
    BY <2>1, WidthIs
  <2>3. n = q * d + 0 /\ 0 \in 0 .. d - 1 /\ i >= n \div d
    BY <1>5, <1>7, <2>2
  <2> HIDE DEF d
  <2>4. n \div d = q
    BY <2>2, <2>3, Remainder
  <2>5. i \in Nat /\ i * d <= s
    BY <1>5, <2>2, Quotient
  <2> HIDE DEF i
  <2>6. i >= q
    BY <2>3, <2>4
  <2>7. q * d <= i * d
    BY <2>2, <2>5, <2>6
  <2>8. q * d \in Nat /\ i * d \in Nat
    BY <2>2, <2>5
  <2> QED
    BY <1>5, <2>3, <2>5, <2>7, <2>8
<1> QED
  BY <1>4, <1>6, <1>7

(* What is searched for: at least the worst case, and the classes that are *)
(* looked at hold nothing less.                                            *)
LEMMA SearchIs ==
  ASSUME NEW worst \in MinSize .. WordSize
  PROVE  LET n == AlignUp(worst, Power[Log2[worst] - Log2[SlCount]]) IN
         /\ n \in MinSize .. 2 * WordSize /\ worst <= n /\ n < worst + Width(Log2[worst])
         /\ \E q \in Nat : n = q * Width(Log2[worst])
         /\ \A s \in MinSize .. 2 * WordSize : AtLeast(SizeClass(s), SizeClass(n)) <=> n <= s
<1> DEFINE k == Log2[worst]
           d == Width(k)
           n == AlignUp(worst, d)
<1>1. worst \in MinSize .. 2 * WordSize /\ worst \in Nat
  BY CountsAre
<1>2. worst \in Sizes /\ k \in LogMin .. 33
  BY <1>1, ClassIs
<1>3. Power[k] <= worst /\ worst < Power[k + 1]
  BY <1>2, LogIs
<1> HIDE DEF k
<1>4. k \in LogMin .. 34 /\ k \in 0 .. 33 /\ k + 1 \in LogMin .. 34
  BY <1>2, CountsAre
<1>5. d \in Nat /\ d > 0 /\ Power[k] = SlCount * d /\ Power[k + 1] = 2 * Power[k] /\ Power[k] \in Nat
  BY <1>4, WidthIs, PowerNext, PowerTyped
<1>6. Width(k + 1) = 2 * d
  <2>1. k - LogSl \in 0 .. 33 /\ (k + 1) - LogSl = (k - LogSl) + 1
    BY <1>2, CountsAre
  <2> QED
    BY <2>1, PowerNext DEF Width, d
<1> HIDE DEF d
<1>7. n \in Nat /\ worst <= n /\ n < worst + d /\ \E q \in Nat : n = q * d
  BY <1>1, <1>5, AlignUpIs
<1> HIDE DEF n
<1>8. PICK q \in Nat : n = q * d
  BY <1>7
<1>9. n <= Power[k + 1]
  <2>1. SlCount \in Nat
    BY CountsAre
  <2>2. n < (2 * SlCount + 1) * d
    BY <1>1, <1>3, <1>5, <1>7, <2>1
  <2>3. q < 2 * SlCount + 1
    BY <1>5, <1>8, <2>1, <2>2
  <2>4. q * d <= (2 * SlCount) * d
    BY <1>5, <2>1, <2>3
  <2> QED
    BY <1>5, <1>8, <2>1, <2>4
<1>10. Power[k + 1] <= 2 * WordSize
  BY <1>1, <1>3, <1>5, CountsAre
<1>11. n \in MinSize .. 2 * WordSize /\ n \in Sizes
  BY <1>1, <1>5, <1>7, <1>9, <1>10, CountsAre DEF Sizes
<1>12. \E p \in Nat : n = p * Width(Log2[n])
  <2>1. CASE n < Power[k + 1]
    <3>1. Log2[n] = k
      BY <1>1, <1>3, <1>4, <1>5, <1>7, <1>11, <2>1, LogOf
    <3> QED
      BY <1>8, <3>1 DEF d
  <2>2. CASE n = Power[k + 1]
    <3>1. k + 1 \in 0 .. 33
      <4> SUFFICES ASSUME k = 33 PROVE FALSE
        BY <1>4
      <4>1. Power[34] <= 2 * WordSize
        BY <1>10
      <4>2. LogWord + 1 \in 0 .. 34 /\ LogWord + 1 < 34 /\ LogWord \in 0 .. 33
        <5>1. LogWord \in 1 .. 32
          BY CountsAre
        <5> HIDE DEF LogWord
        <5> QED
          BY <5>1
      <4>3. Power[LogWord + 1] = 2 * WordSize
        BY <4>2, CountsAre, PowerNext
      <4> DEFINE v == LogWord + 1
                 top == 34
      <4>4. v \in 0 .. 34 /\ top \in 0 .. 34 /\ v <= top /\ v < top
        BY <4>2
      <4> HIDE DEF v, top
      <4>5. 2 * Power[v] <= Power[top] /\ Power[v] \in Nat /\ Power[v] > 0 /\ Power[top] \in Nat
        BY <4>4, PowerAscends, PowerTyped
      <4> QED
        BY <4>1, <4>3, <4>5 DEF v, top
    <3>2. Log2[n] = k + 1
      BY <1>11, <2>2, <3>1, LogOfPower
    <3>3. n = SlCount * Width(k + 1)
      BY <1>4, <2>2, WidthIs
    <3> QED
      BY <3>2, <3>3, CountsAre
  <2> QED
    BY <1>1, <1>5, <1>7, <1>9, <2>1, <2>2
<1>13. \A s \in MinSize .. 2 * WordSize : AtLeast(SizeClass(s), SizeClass(n)) <=> n <= s
  BY <1>11, <1>12, ClassAscends, ClassHolds
<1>14. n = AlignUp(worst, Power[Log2[worst] - Log2[SlCount]])
  BY DEF n, d, k, Width, LogSl
<1> QED
  BY <1>7, <1>11, <1>13, <1>14 DEF d, k

(* What is in a concatenation, and what a removal leaves.                  *)
LEMMA Joined ==
  ASSUME NEW S, NEW s \in Seq(S), NEW t \in Seq(S)
  PROVE  /\ s \o t \in Seq(S) /\ Len(s \o t) = Len(s) + Len(t)
         /\ \A n \in 1 .. Len(s) : (s \o t)[n] = s[n]
         /\ \A n \in 1 .. Len(t) : (s \o t)[Len(s) + n] = t[n]
         /\ \A n \in 1 .. Len(s \o t) : n \in 1 .. Len(s) \/ \E k \in 1 .. Len(t) : n = Len(s) + k
<1>1. s \o t \in Seq(S) /\ Len(s \o t) = Len(s) + Len(t) /\ Len(s) \in Nat /\ Len(t) \in Nat
  OBVIOUS
<1>2. \A n \in 1 .. Len(s) : (s \o t)[n] = s[n]
  OBVIOUS
<1>3. \A n \in 1 .. Len(t) : (s \o t)[Len(s) + n] = t[n]
  OBVIOUS
<1>4. ASSUME NEW n \in 1 .. Len(s \o t), n \notin 1 .. Len(s) PROVE \E k \in 1 .. Len(t) : n = Len(s) + k
  <2>1. n - Len(s) \in 1 .. Len(t) /\ n = Len(s) + (n - Len(s))
    BY <1>1, <1>4
  <2> QED
    BY <2>1
<1> QED
  BY <1>1, <1>2, <1>3, <1>4

LEMMA Removed ==
  ASSUME NEW S, NEW s \in Seq(S), NEW i \in 1 .. Len(s)
  PROVE  /\ RemoveAt(s, i) \in Seq(S) /\ Len(RemoveAt(s, i)) = Len(s) - 1
         /\ \A k \in 1 .. Len(s) - 1 : RemoveAt(s, i)[k] = s[IF k < i THEN k ELSE k + 1]
<1> DEFINE front == SubSeq(s, 1, i - 1)
           rest == SubSeq(s, i + 1, Len(s))
<1>1. front \in Seq(S) /\ Len(front) = i - 1 /\ \A k \in 1 .. i - 1 : front[k] = s[k]
  OBVIOUS
<1>2. rest \in Seq(S) /\ Len(rest) = Len(s) - i /\ \A k \in 1 .. Len(s) - i : rest[k] = s[k + i]
  OBVIOUS
<1>3. RemoveAt(s, i) = front \o rest
  BY DEF RemoveAt
<1>4. Len(s) \in Nat /\ i \in Nat
  OBVIOUS
<1> HIDE DEF front, rest
<1>5. RemoveAt(s, i) \in Seq(S) /\ Len(RemoveAt(s, i)) = Len(s) - 1
  BY <1>1, <1>2, <1>3, <1>4, Joined
<1>6. ASSUME NEW k \in 1 .. Len(s) - 1 PROVE RemoveAt(s, i)[k] = s[IF k < i THEN k ELSE k + 1]
  <2>1. CASE k < i
    <3>1. k \in 1 .. Len(front) /\ k \in 1 .. i - 1
      BY <1>1, <1>4, <2>1
    <3>2. (front \o rest)[k] = front[k]
      BY <1>1, <1>2, <3>1, Joined
    <3> QED
      BY <1>1, <1>3, <2>1, <3>1, <3>2
  <2>2. CASE ~(k < i)
    <3> DEFINE l == k - (i - 1)
    <3>1. l \in 1 .. Len(rest) /\ l \in 1 .. Len(s) - i /\ Len(front) + l = k /\ l + i = k + 1
      BY <1>1, <1>2, <1>4, <2>2
    <3> HIDE DEF l
    <3>2. (front \o rest)[Len(front) + l] = rest[l]
      BY <1>1, <1>2, <3>1, Joined
    <3> QED
      BY <1>2, <1>3, <2>2, <3>1, <3>2
  <2> QED
    BY <2>1, <2>2
<1> QED
  BY <1>5, <1>6

-----------------------------------------------------------------------------
(* Blocks begin at multiples of the minimum size. *)
Units == {q * MinSize : q \in Nat}

(* Sums and differences of multiples of the minimum size are multiples of  *)
(* it.                                                                     *)
LEMMA UnitsAre ==
  /\ Units \subseteq Nat /\ 0 \in Units /\ MinSize \in Units
  /\ \A n \in Nat : n % MinSize = 0 <=> n \in Units
  /\ \A m, n \in Units : m + n \in Units /\ (n <= m => m - n \in Units) /\ (n < m => m - n >= MinSize)
<1>1. MinSize \in Nat /\ MinSize > 0
  BY CountsAre
<1>2. Units \subseteq Nat
  BY <1>1 DEF Units
<1>3. 0 \in Units /\ MinSize \in Units
  <2>1. 0 = 0 * MinSize /\ MinSize = 1 * MinSize
    BY <1>1
  <2> QED
    BY <2>1 DEF Units
<1>4. ASSUME NEW n \in Nat PROVE n % MinSize = 0 <=> n \in Units
  <2>1. ASSUME n % MinSize = 0 PROVE n \in Units
    <3>1. n = (n \div MinSize) * MinSize /\ n \div MinSize \in Nat
      BY <1>1, <2>1
    <3> QED
      BY <3>1 DEF Units
  <2>2. ASSUME n \in Units PROVE n % MinSize = 0
    <3>1. PICK q \in Nat : n = q * MinSize
      BY <2>2 DEF Units
    <3>2. n = q * MinSize + 0 /\ 0 \in 0 .. MinSize - 1
      BY <1>1, <3>1
    <3> QED
      BY <1>1, <3>2, Remainder
  <2> QED
    BY <2>1, <2>2
<1>5. ASSUME NEW m \in Units, NEW n \in Units
      PROVE  m + n \in Units /\ (n <= m => m - n \in Units) /\ (n < m => m - n >= MinSize)
  <2>1. PICK p \in Nat, q \in Nat : m = p * MinSize /\ n = q * MinSize
    BY DEF Units
  <2>2. m + n = (p + q) * MinSize /\ p + q \in Nat
    BY <1>1, <2>1
  <2>3. ASSUME n <= m PROVE m - n \in Units
    <3>1. q <= p
      BY <1>1, <2>1, <2>3
    <3>2. m - n = (p - q) * MinSize /\ p - q \in Nat
      BY <1>1, <2>1, <3>1
    <3> QED
      BY <3>2 DEF Units
  <2>4. ASSUME n < m PROVE m - n >= MinSize
    <3>1. p - q >= 1 /\ p - q \in Int
      BY <1>1, <2>1, <2>4
    <3>2. (p - q) * MinSize >= MinSize
      BY <1>1, <3>1
    <3> QED
      BY <1>1, <2>1, <3>2
  <2> QED
    BY <2>2, <2>3, <2>4 DEF Units
<1> QED
  BY <1>2, <1>3, <1>4, <1>5

-----------------------------------------------------------------------------
(* Powers of two from the minimum size on are multiples of it.             *)
LEMMA PowerInUnits == ASSUME NEW a \in 0 .. 34, Power[a] >= MinSize PROVE Power[a] \in Units
<1> DEFINE m == LogMin
<1>1. m \in 0 .. 34 /\ MinSize = Power[m] /\ MinSize \in Nat /\ MinSize > 0
  <2>1. m \in 1 .. 8
    BY CountsAre
  <2> HIDE DEF m
  <2>2. m \in 0 .. 34
    BY <2>1
  <2> QED
    BY <2>2, CountsAre DEF m
<1> HIDE DEF m
<1>2. m <= a
  <2> SUFFICES ASSUME a < m PROVE FALSE
    BY <1>1
  <2>1. Power[a] \in Nat /\ Power[a] > 0
    BY PowerTyped
  <2>2. a <= m
    BY <1>1
  <2>3. 2 * Power[a] <= Power[m]
    BY <1>1, <2>2, PowerAscends
  <2> QED
    BY <1>1, <2>1, <2>3
<1>3. Power[a] = Power[a - m] * MinSize /\ Power[a - m] \in Nat
  BY <1>1, <1>2, PowerAscends
<1> QED
  BY <1>3 DEF Units

-----------------------------------------------------------------------------
(* The blocks of a pool, which follow one another. *)
Block == [offset : Nat, size : Nat, free : BOOLEAN]

Tiles(P, total) ==
  /\ P \in Seq(Block) /\ Len(P) >= 1
  /\ P[1].offset = 0 /\ P[Len(P)].offset + P[Len(P)].size = total
  /\ \A i \in 1 .. Len(P) : P[i].offset \in Units /\ P[i].size >= MinSize
  /\ \A i \in 2 .. Len(P) : P[i].offset = P[i - 1].offset + P[i - 1].size

Coalesced(P) == \A i \in 2 .. Len(P) : ~(P[i].free /\ P[i - 1].free)

FreeIn(P) == {b \in {P[i] : i \in DOMAIN P} : b.free}
UsedIn(P) == {b \in {P[i] : i \in DOMAIN P} : ~b.free}

LEMMA BlockIs ==
  ASSUME NEW P \in Seq(Block), NEW i \in 1 .. Len(P)
  PROVE  P[i] \in Block /\ P[i].offset \in Nat /\ P[i].size \in Nat /\ P[i].free \in BOOLEAN
<1>1. P[i] \in Block
  OBVIOUS
<1> QED
  BY <1>1 DEF Block

(* Blocks that tile a pool lie apart, in the order of the list, within the *)
(* pool.                                                                   *)
LEMMA TilesApart ==
  ASSUME NEW P, NEW total, Tiles(P, total)
  PROVE  /\ Len(P) \in Nat /\ total \in Nat
         /\ \A i \in 1 .. Len(P) : P[i].offset \in Units /\ P[i].offset + P[i].size <= total
         /\ \A i, j \in 1 .. Len(P) : i < j => P[i].offset + P[i].size <= P[j].offset
         /\ \A i, j \in 1 .. Len(P) : P[i].offset = P[j].offset => i = j
<1> DEFINE b == Len(P) - 1
           Ordered(n) == \A i \in 1 .. n - 1 : P[i].offset + P[i].size <= P[n].offset
           S == {n \in 0 .. b : Ordered(n + 1)}
<1>1. Len(P) \in Nat /\ Len(P) >= 1 /\ b \in Nat
  BY DEF Tiles
<1>2. \A i \in 1 .. Len(P) : P[i].offset \in Nat /\ P[i].size \in Nat /\ P[i].offset \in Units /\ P[i].size >= MinSize
  BY BlockIs DEF Tiles
<1>3. 0 \in S
  <2>1. 0 + 1 = 1 /\ 1 - 1 = 0 /\ 0 \in 0 .. b /\ 1 .. 0 = {}
    BY <1>1
  <2> QED
    BY <2>1
<1>4. ASSUME NEW n \in S, n < b PROVE n + 1 \in S
  <2>1. n \in Nat /\ n + 1 \in 1 .. Len(P) /\ n + 2 \in 2 .. Len(P) /\ (n + 2) - 1 = n + 1 /\ n + 1 \in 0 .. b
    BY <1>1, <1>4
  <2>2. P[n + 2].offset = P[n + 1].offset + P[n + 1].size
    BY <2>1 DEF Tiles
  <2>3. Ordered(n + 1)
    OBVIOUS
  <2>5. ASSUME NEW i \in 1 .. n + 1 PROVE P[i].offset + P[i].size <= P[n + 2].offset
    <3>1. i \in 1 .. Len(P) /\ (i = n + 1 \/ i \in 1 .. (n + 1) - 1)
      BY <2>1
    <3>2. P[i].offset + P[i].size <= P[n + 1].offset \/ i = n + 1
      BY <2>3, <3>1
    <3>3. P[i].size \in Nat /\ P[i].offset \in Nat /\ P[n + 1].offset \in Nat /\ P[n + 1].size \in Nat
      BY <1>2, <2>1, <3>1
    <3> HIDE DEF Ordered, S, b
    <3>4. CASE i = n + 1
      BY <2>2, <3>3, <3>4
    <3>5. CASE P[i].offset + P[i].size <= P[n + 1].offset
      BY <2>2, <3>3, <3>5
    <3> QED
      BY <3>2, <3>4, <3>5
  <2>6. Ordered(n + 2)
    <3>1. (n + 2) - 1 = n + 1
      BY <2>1
    <3> QED
      BY <2>5, <3>1
  <2>7. (n + 1) + 1 = n + 2
    BY <2>1
  <2> QED
    BY <2>1, <2>6, <2>7
<1>5. \A n \in 1 .. Len(P) : Ordered(n)
  <2>1. S \in SUBSET (0 .. b)
    OBVIOUS
  <2> HIDE DEF S
  <2>2. \A n \in 0 .. b : n \in S
    BY <1>1, <1>3, <1>4, <2>1, CountingUp
  <2>3. \A n \in 0 .. b : Ordered(n + 1)
    BY <2>2 DEF S
  <2> HIDE DEF Ordered
  <2> TAKE n \in 1 .. Len(P)
  <2>4. n - 1 \in 0 .. b /\ (n - 1) + 1 = n
    BY <1>1
  <2> QED
    BY <2>3, <2>4
<1>6. \A i, j \in 1 .. Len(P) : i < j => P[i].offset + P[i].size <= P[j].offset
  BY <1>1, <1>5
<1>7. P[Len(P)].offset + P[Len(P)].size = total /\ Len(P) \in 1 .. Len(P)
  BY <1>1 DEF Tiles
<1>8. ASSUME NEW i \in 1 .. Len(P) PROVE P[i].offset + P[i].size <= total
  BY <1>1, <1>2, <1>6, <1>7
<1>9. ASSUME NEW i \in 1 .. Len(P), NEW j \in 1 .. Len(P), P[i].offset = P[j].offset PROVE i = j
  <2>1. P[i].size > 0 /\ P[j].size > 0
    BY <1>2, CountsAre
  <2>2. ~(i < j) /\ ~(j < i)
    BY <1>2, <1>6, <1>9, <2>1
  <2> QED
    BY <1>1, <2>2
<1> QED
  BY <1>1, <1>2, <1>5, <1>6, <1>7, <1>8, <1>9

(* Block i of P is in two in Q; all of them are used. *)
IsCut(P, Q, i) ==
  /\ P \in Seq(Block) /\ Q \in Seq(Block) /\ i \in 1 .. Len(P) /\ Len(Q) = Len(P) + 1
  /\ \A k \in 1 .. Len(P) : (k < i => Q[k] = P[k]) /\ (k > i => Q[k + 1] = P[k])
  /\ Q[i].offset = P[i].offset /\ Q[i + 1].offset = Q[i].offset + Q[i].size /\ P[i].size = Q[i].size + Q[i + 1].size
  /\ ~P[i].free /\ ~Q[i].free /\ ~Q[i + 1].free

Members(P) == {P[k] : k \in 1 .. Len(P)}

LEMMA InIs ==
  ASSUME NEW P \in Seq(Block)
  PROVE  FreeIn(P) = {b \in Members(P) : b.free} /\ UsedIn(P) = {b \in Members(P) : ~b.free}
BY DEF FreeIn, UsedIn, Members

(* A block cut in two gives its place to both parts, and to no other       *)
(* block.                                                                  *)
LEMMA CutMembers ==
  ASSUME NEW P, NEW Q, NEW i, IsCut(P, Q, i),
         \A k \in 1 .. Len(P) : P[k] = P[i] => k = i,
         \A k \in 1 .. Len(Q) : (Q[k] = Q[i] => k = i) /\ (Q[k] = Q[i + 1] => k = i + 1)
  PROVE  /\ FreeIn(Q) = FreeIn(P)
         /\ UsedIn(Q) = (UsedIn(P) \ {P[i]}) \cup {Q[i], Q[i + 1]}
         /\ UsedIn(P) = (UsedIn(Q) \ {Q[i], Q[i + 1]}) \cup {P[i]}
         /\ Coalesced(P) <=> Coalesced(Q)
<1> DEFINE Rest == {P[k] : k \in (1 .. Len(P)) \ {i}}
<1>1. /\ P \in Seq(Block) /\ Q \in Seq(Block) /\ i \in 1 .. Len(P) /\ Len(Q) = Len(P) + 1 /\ Len(P) \in Nat /\ i \in Nat
      /\ \A k \in 1 .. Len(P) : (k < i => Q[k] = P[k]) /\ (k > i => Q[k + 1] = P[k])
      /\ ~P[i].free /\ ~Q[i].free /\ ~Q[i + 1].free
  BY DEF IsCut
<1>2. Members(P) = Rest \cup {P[i]} /\ P[i] \notin Rest
  BY <1>1 DEF Members
<1>3. Members(Q) = Rest \cup {Q[i], Q[i + 1]}
  <2>1. ASSUME NEW k \in 1 .. Len(Q) PROVE Q[k] \in Rest \cup {Q[i], Q[i + 1]}
    <3>1. k < i \/ k = i \/ k = i + 1 \/ (k - 1 > i /\ k - 1 \in 1 .. Len(P) /\ (k - 1) + 1 = k)
      BY <1>1
    <3>2. CASE k < i
      BY <1>1, <3>2
    <3>3. CASE k - 1 > i /\ k - 1 \in 1 .. Len(P) /\ (k - 1) + 1 = k
      <4>1. Q[k] = P[k - 1] /\ k - 1 \in (1 .. Len(P)) \ {i}
        BY <1>1, <3>3
      <4>2. P[k - 1] \in Rest
        BY <4>1
      <4> QED
        BY <4>1, <4>2
    <3>4. CASE k = i \/ k = i + 1
      <4> HIDE DEF Rest
      <4> QED
        BY <3>4
    <3> QED
      BY <3>1, <3>2, <3>3, <3>4
  <2>2. ASSUME NEW k \in (1 .. Len(P)) \ {i} PROVE \E l \in 1 .. Len(Q) : Q[l] = P[k]
    <3>1. (k < i /\ k \in 1 .. Len(Q)) \/ (k > i /\ k + 1 \in 1 .. Len(Q))
      BY <1>1
    <3> QED
      BY <1>1, <3>1
  <2>3. i \in 1 .. Len(Q) /\ i + 1 \in 1 .. Len(Q)
    BY <1>1
  <2>4. Members(Q) \subseteq Rest \cup {Q[i], Q[i + 1]}
    <3> HIDE DEF Rest
    <3> QED
      BY <2>1 DEF Members
  <2>5. Rest \subseteq Members(Q)
    BY <2>2 DEF Members
  <2>6. Q[i] \in Members(Q) /\ Q[i + 1] \in Members(Q)
    BY <2>3 DEF Members
  <2> QED
    BY <2>4, <2>5, <2>6
<1>4. Q[i] \notin Rest /\ Q[i + 1] \notin Rest
  <2> SUFFICES ASSUME NEW k \in (1 .. Len(P)) \ {i}, P[k] = Q[i] \/ P[k] = Q[i + 1] PROVE FALSE
    OBVIOUS
  <2>1. CASE k < i
    <3>1. Q[k] = P[k] /\ k \in 1 .. Len(Q) /\ k # i /\ k # i + 1
      BY <1>1, <2>1
    <3> QED
      BY <3>1
  <2>2. CASE k > i
    <3>1. Q[k + 1] = P[k] /\ k + 1 \in 1 .. Len(Q) /\ k + 1 # i /\ k + 1 # i + 1
      BY <1>1, <2>2
    <3> QED
      BY <3>1
  <2> QED
    BY <1>1, <2>1, <2>2
<1> HIDE DEF Rest
<1>5. FreeIn(Q) = FreeIn(P)
  <2>1. FreeIn(P) = {b \in Rest : b.free}
    BY <1>1, <1>2, InIs
  <2>2. FreeIn(Q) = {b \in Rest : b.free}
    BY <1>1, <1>3, InIs
  <2> QED
    BY <2>1, <2>2
<1>6. UsedIn(Q) = (UsedIn(P) \ {P[i]}) \cup {Q[i], Q[i + 1]}
  BY <1>1, <1>2, <1>3, InIs
<1>7. UsedIn(P) = (UsedIn(Q) \ {Q[i], Q[i + 1]}) \cup {P[i]}
  BY <1>1, <1>2, <1>3, <1>4, InIs
<1>8. ASSUME Coalesced(P) PROVE Coalesced(Q)
  <2> SUFFICES ASSUME NEW k \in 2 .. Len(Q) PROVE ~(Q[k].free /\ Q[k - 1].free)
    BY DEF Coalesced
  <2>1. CASE k < i
    <3>1. k \in 2 .. Len(P) /\ k - 1 \in 1 .. Len(P) /\ k - 1 < i /\ k \in 1 .. Len(P)
      BY <1>1, <2>1
    <3>2. Q[k] = P[k] /\ Q[k - 1] = P[k - 1]
      BY <1>1, <2>1, <3>1
    <3> QED
      BY <1>8, <3>1, <3>2 DEF Coalesced
  <2>2. CASE k = i \/ k = i + 1
    BY <1>1, <2>2
  <2>3. CASE k = i + 2
    <3>1. k - 1 = i + 1
      BY <1>1, <2>3
    <3> QED
      BY <1>1, <3>1
  <2>4. CASE k > i + 2
    <3>1. k - 1 \in 2 .. Len(P) /\ k - 2 \in 1 .. Len(P) /\ k - 2 > i /\ k - 1 \in 1 .. Len(P) /\ k - 1 > i
          /\ (k - 1) + 1 = k /\ (k - 2) + 1 = k - 1 /\ (k - 1) - 1 = k - 2
      BY <1>1, <2>4
    <3>2. Q[k] = P[k - 1] /\ Q[k - 1] = P[k - 2]
      BY <1>1, <3>1
    <3>3. ~(P[k - 1].free /\ P[(k - 1) - 1].free)
      BY <1>8, <3>1 DEF Coalesced
    <3> QED
      BY <3>1, <3>2, <3>3
  <2> QED
    BY <1>1, <2>1, <2>2, <2>3, <2>4
<1>9. ASSUME Coalesced(Q) PROVE Coalesced(P)
  <2> SUFFICES ASSUME NEW k \in 2 .. Len(P) PROVE ~(P[k].free /\ P[k - 1].free)
    BY DEF Coalesced
  <2>1. CASE k < i
    <3>1. k \in 2 .. Len(Q) /\ k - 1 \in 1 .. Len(P) /\ k - 1 < i /\ k \in 1 .. Len(P)
      BY <1>1, <2>1
    <3>2. Q[k] = P[k] /\ Q[k - 1] = P[k - 1]
      BY <1>1, <2>1, <3>1
    <3> QED
      BY <1>9, <3>1, <3>2 DEF Coalesced
  <2>2. CASE k = i \/ k = i + 1
    <3>1. k = i \/ k - 1 = i
      BY <1>1, <2>2
    <3> QED
      BY <1>1, <3>1
  <2>3. CASE k > i + 1
    <3>1. k + 1 \in 2 .. Len(Q) /\ k - 1 \in 1 .. Len(P) /\ k - 1 > i /\ k \in 1 .. Len(P) /\ k > i
          /\ (k - 1) + 1 = k /\ (k + 1) - 1 = k
      BY <1>1, <2>3
    <3>2. Q[k + 1] = P[k] /\ Q[k] = P[k - 1]
      BY <1>1, <3>1
    <3>3. ~(Q[k + 1].free /\ Q[(k + 1) - 1].free)
      BY <1>9, <3>1 DEF Coalesced
    <3> QED
      BY <3>1, <3>2, <3>3
  <2> QED
    BY <1>1, <2>1, <2>2, <2>3
<1> QED
  BY <1>5, <1>6, <1>7, <1>8, <1>9

(* A block is cut in two. *)
LEMMA CutTiles ==
  ASSUME NEW P, NEW Q, NEW i, NEW total, Tiles(P, total), IsCut(P, Q, i),
         Q[i].size \in Units, Q[i].size >= MinSize, Q[i + 1].size >= MinSize
  PROVE  /\ Tiles(Q, total) /\ FreeIn(Q) = FreeIn(P) /\ (Coalesced(P) => Coalesced(Q))
         /\ UsedIn(Q) = (UsedIn(P) \ {P[i]}) \cup {Q[i], Q[i + 1]}
<1>1. /\ P \in Seq(Block) /\ Q \in Seq(Block) /\ i \in 1 .. Len(P) /\ Len(Q) = Len(P) + 1 /\ Len(P) \in Nat /\ i \in Nat
      /\ \A k \in 1 .. Len(P) : (k < i => Q[k] = P[k]) /\ (k > i => Q[k + 1] = P[k])
      /\ Q[i].offset = P[i].offset /\ Q[i + 1].offset = Q[i].offset + Q[i].size /\ P[i].size = Q[i].size + Q[i + 1].size
  BY DEF IsCut
<1>2. /\ \A k \in 1 .. Len(P) : P[k].offset \in Nat /\ P[k].size \in Nat
      /\ \A k \in 1 .. Len(Q) : Q[k].offset \in Nat /\ Q[k].size \in Nat
  BY <1>1, BlockIs
<1>3. /\ Len(P) >= 1 /\ P[1].offset = 0 /\ P[Len(P)].offset + P[Len(P)].size = total
      /\ \A k \in 1 .. Len(P) : P[k].offset \in Units /\ P[k].size >= MinSize
      /\ \A k \in 2 .. Len(P) : P[k].offset = P[k - 1].offset + P[k - 1].size
  BY DEF Tiles
<1>4. i \in 1 .. Len(Q) /\ i + 1 \in 1 .. Len(Q)
  BY <1>1
<1>5. Q[i].offset \in Units /\ Q[i + 1].offset \in Units
  <2>1. Q[i].offset \in Units
    BY <1>1, <1>3
  <2> QED
    BY <1>1, <2>1, UnitsAre
<1>6. ASSUME NEW k \in 1 .. Len(Q) PROVE Q[k].offset \in Units /\ Q[k].size >= MinSize
  <2>1. k < i \/ k = i \/ k = i + 1 \/ (k - 1 > i /\ k - 1 \in 1 .. Len(P) /\ (k - 1) + 1 = k)
    BY <1>1
  <2>2. CASE k < i
    BY <1>1, <1>3, <2>2
  <2>3. CASE k - 1 > i /\ k - 1 \in 1 .. Len(P) /\ (k - 1) + 1 = k
    <3>1. Q[k] = P[k - 1]
      BY <1>1, <2>3
    <3> QED
      BY <1>3, <2>3, <3>1
  <2> QED
    BY <1>5, <2>1, <2>2, <2>3
<1>7. ASSUME NEW k \in 2 .. Len(Q) PROVE Q[k].offset = Q[k - 1].offset + Q[k - 1].size
  <2>1. CASE k < i
    <3>1. k \in 2 .. Len(P) /\ k - 1 \in 1 .. Len(P) /\ k - 1 < i /\ k \in 1 .. Len(P)
      BY <1>1, <2>1
    <3>2. Q[k] = P[k] /\ Q[k - 1] = P[k - 1]
      BY <1>1, <2>1, <3>1
    <3> QED
      BY <1>3, <3>1, <3>2
  <2>2. CASE k = i
    <3>1. k \in 2 .. Len(P) /\ k - 1 \in 1 .. Len(P) /\ k - 1 < i
      BY <1>1, <2>2
    <3>2. Q[k - 1] = P[k - 1] /\ Q[k].offset = P[k].offset
      BY <1>1, <2>2, <3>1
    <3>3. P[k].offset = P[k - 1].offset + P[k - 1].size
      BY <1>3, <3>1
    <3> QED
      BY <3>2, <3>3
  <2>3. CASE k = i + 1
    <3>1. k - 1 = i /\ k = i + 1
      BY <1>1, <2>3
    <3>2. Q[i + 1].offset = Q[i].offset + Q[i].size
      BY <1>1
    <3> QED
      BY ONLY <3>1, <3>2
  <2>4. CASE k = i + 2
    <3>1. k - 1 = i + 1 /\ i + 1 \in 2 .. Len(P) /\ i + 1 > i /\ i + 1 \in 1 .. Len(P) /\ (i + 1) + 1 = k /\ (i + 1) - 1 = i
      BY <1>1, <2>4
    <3>2. Q[k] = P[i + 1] /\ P[i + 1].offset = P[i].offset + P[i].size
      <4>1. P[i + 1].offset = P[(i + 1) - 1].offset + P[(i + 1) - 1].size
        BY <1>3, <3>1
      <4> QED
        BY <1>1, <3>1, <4>1
    <3>3. Q[k - 1].offset + Q[k - 1].size = P[i].offset + P[i].size
      <4>1. Q[i + 1].offset = P[i].offset + Q[i].size /\ P[i].size = Q[i].size + Q[i + 1].size
        BY <1>1
      <4>2. P[i].offset \in Nat /\ Q[i].size \in Nat /\ Q[i + 1].size \in Nat
        BY <1>1, <1>2, <1>4
      <4>3. k - 1 = i + 1
        BY <3>1
      <4> QED
        BY ONLY <4>1, <4>2, <4>3
    <3> QED
      BY ONLY <3>2, <3>3
  <2>5. CASE k > i + 2
    <3>1. k - 1 \in 2 .. Len(P) /\ k - 2 \in 1 .. Len(P) /\ k - 2 > i /\ k - 1 \in 1 .. Len(P) /\ k - 1 > i
          /\ (k - 1) + 1 = k /\ (k - 2) + 1 = k - 1 /\ (k - 1) - 1 = k - 2
      BY <1>1, <2>5
    <3>2. Q[k] = P[k - 1] /\ Q[k - 1] = P[k - 2]
      BY <1>1, <3>1
    <3>3. P[k - 1].offset = P[(k - 1) - 1].offset + P[(k - 1) - 1].size
      BY <1>3, <3>1
    <3> QED
      BY <3>1, <3>2, <3>3
  <2> QED
    BY <1>1, <2>1, <2>2, <2>3, <2>4, <2>5
<1>8. Q[1].offset = 0
  <2>1. 1 < i \/ i = 1
    BY <1>1
  <2>2. 1 \in 1 .. Len(P)
    BY <1>1, <1>3
  <2> QED
    BY <1>1, <1>3, <2>1, <2>2
<1>9. Q[Len(Q)].offset + Q[Len(Q)].size = total
  <2>1. CASE i = Len(P)
    <3>1. Len(Q) = i + 1
      BY <1>1, <2>1
    <3> QED
      BY <1>1, <1>2, <1>3, <1>4, <2>1, <3>1
  <2>2. CASE i < Len(P)
    <3>1. Len(P) \in 1 .. Len(P) /\ Len(P) > i
      BY <1>1, <1>3, <2>2
    <3>2. Q[Len(P) + 1] = P[Len(P)]
      BY <1>1, <3>1
    <3> QED
      BY <1>1, <1>3, <3>2
  <2> QED
    BY <1>1, <2>1, <2>2
<1>10. Tiles(Q, total)
  <2>1. Len(Q) >= 1
    BY <1>1
  <2> QED
    BY <1>1, <1>6, <1>7, <1>8, <1>9, <2>1 DEF Tiles
<1>11. \A k \in 1 .. Len(P) : P[k] = P[i] => k = i
  BY <1>1, TilesApart
<1>12. \A k \in 1 .. Len(Q) : (Q[k] = Q[i] => k = i) /\ (Q[k] = Q[i + 1] => k = i + 1)
  BY <1>4, <1>10, TilesApart
<1> QED
  BY <1>10, <1>11, <1>12, CutMembers

(* Two blocks become one. *)
LEMMA JoinTiles ==
  ASSUME NEW P, NEW Q, NEW i, NEW total, Tiles(Q, total), IsCut(P, Q, i)
  PROVE  /\ Tiles(P, total) /\ FreeIn(P) = FreeIn(Q) /\ (Coalesced(Q) => Coalesced(P))
         /\ UsedIn(P) = (UsedIn(Q) \ {Q[i], Q[i + 1]}) \cup {P[i]}
<1>1. /\ P \in Seq(Block) /\ Q \in Seq(Block) /\ i \in 1 .. Len(P) /\ Len(Q) = Len(P) + 1 /\ Len(P) \in Nat /\ i \in Nat
      /\ \A k \in 1 .. Len(P) : (k < i => Q[k] = P[k]) /\ (k > i => Q[k + 1] = P[k])
      /\ Q[i].offset = P[i].offset /\ Q[i + 1].offset = Q[i].offset + Q[i].size /\ P[i].size = Q[i].size + Q[i + 1].size
  BY DEF IsCut
<1>2. /\ \A k \in 1 .. Len(P) : P[k].offset \in Nat /\ P[k].size \in Nat
      /\ \A k \in 1 .. Len(Q) : Q[k].offset \in Nat /\ Q[k].size \in Nat
  BY <1>1, BlockIs
<1>3. /\ Len(Q) >= 1 /\ Q[1].offset = 0 /\ Q[Len(Q)].offset + Q[Len(Q)].size = total
      /\ \A k \in 1 .. Len(Q) : Q[k].offset \in Units /\ Q[k].size >= MinSize
      /\ \A k \in 2 .. Len(Q) : Q[k].offset = Q[k - 1].offset + Q[k - 1].size
  BY DEF Tiles
<1>4. i \in 1 .. Len(Q) /\ i + 1 \in 1 .. Len(Q) /\ Len(P) >= 1
  BY <1>1
<1>5. P[i].offset \in Units /\ P[i].size >= MinSize
  <2>1. Q[i].offset \in Units /\ Q[i].size >= MinSize
    BY <1>3, <1>4
  <2>2. P[i].size >= MinSize
    <3>1. Q[i].size \in Nat /\ Q[i + 1].size \in Nat /\ P[i].size = Q[i].size + Q[i + 1].size /\ Q[i].size >= MinSize
      BY <1>1, <1>2, <1>4, <2>1
    <3>2. MinSize \in Nat
      BY CountsAre
    <3> QED
      BY <3>1, <3>2
  <2> QED
    BY <1>1, <2>1, <2>2
<1>6. ASSUME NEW k \in 1 .. Len(P) PROVE P[k].offset \in Units /\ P[k].size >= MinSize
  <2>1. CASE k < i
    <3>1. k \in 1 .. Len(Q)
      BY <1>1
    <3> QED
      BY <1>1, <1>3, <2>1, <3>1
  <2>2. CASE k > i
    <3>1. k + 1 \in 1 .. Len(Q)
      BY <1>1
    <3> QED
      BY <1>1, <1>3, <2>2, <3>1
  <2> QED
    BY <1>1, <1>5, <2>1, <2>2
<1>7. ASSUME NEW k \in 2 .. Len(P) PROVE P[k].offset = P[k - 1].offset + P[k - 1].size
  <2>1. CASE k < i
    <3>1. k \in 2 .. Len(Q) /\ k - 1 \in 1 .. Len(P) /\ k - 1 < i /\ k \in 1 .. Len(P)
      BY <1>1, <2>1
    <3>2. Q[k] = P[k] /\ Q[k - 1] = P[k - 1]
      BY <1>1, <2>1, <3>1
    <3> QED
      BY <1>3, <3>1, <3>2
  <2>2. CASE k = i
    <3>1. k \in 2 .. Len(Q) /\ k - 1 \in 1 .. Len(P) /\ k - 1 < i
      BY <1>1, <2>2
    <3>2. Q[k - 1] = P[k - 1] /\ Q[k].offset = P[k].offset
      BY <1>1, <2>2, <3>1
    <3>3. Q[k].offset = Q[k - 1].offset + Q[k - 1].size
      BY <1>3, <3>1
    <3> QED
      BY <3>2, <3>3
  <2>3. CASE k = i + 1
    <3>1. k - 1 = i /\ k \in 1 .. Len(P) /\ k > i /\ k + 1 \in 2 .. Len(Q) /\ (k + 1) - 1 = i + 1
      BY <1>1, <2>3
    <3>2. Q[k + 1] = P[k]
      BY <1>1, <3>1
    <3>3. Q[k + 1].offset = Q[i + 1].offset + Q[i + 1].size
      <4>1. Q[k + 1].offset = Q[(k + 1) - 1].offset + Q[(k + 1) - 1].size
        BY <1>3, <3>1
      <4> QED
        BY <3>1, <4>1
    <3>4. P[k].offset = (Q[i].offset + Q[i].size) + Q[i + 1].size
      BY <1>1, <3>2, <3>3
    <3>5. P[k - 1].offset = Q[i].offset /\ P[k - 1].size = Q[i].size + Q[i + 1].size
      BY <1>1, <3>1
    <3>6. Q[i].offset \in Nat /\ Q[i].size \in Nat /\ Q[i + 1].size \in Nat
      BY <1>2, <1>4
    <3> QED
      BY <3>4, <3>5, <3>6
  <2>4. CASE k > i + 1
    <3>1. k + 1 \in 2 .. Len(Q) /\ k - 1 \in 1 .. Len(P) /\ k - 1 > i /\ k \in 1 .. Len(P) /\ k > i
          /\ (k - 1) + 1 = k /\ (k + 1) - 1 = k
      BY <1>1, <2>4
    <3>2. Q[k + 1] = P[k] /\ Q[k] = P[k - 1]
      BY <1>1, <3>1
    <3>3. Q[k + 1].offset = Q[(k + 1) - 1].offset + Q[(k + 1) - 1].size
      BY <1>3, <3>1
    <3> QED
      BY <3>1, <3>2, <3>3
  <2> QED
    BY <1>1, <2>1, <2>2, <2>3, <2>4
<1>8. P[1].offset = 0
  <2>1. 1 < i \/ i = 1
    BY <1>1
  <2>2. 1 \in 1 .. Len(P)
    BY <1>4, <1>1
  <2> QED
    BY <1>1, <1>3, <2>1, <2>2
<1>9. P[Len(P)].offset + P[Len(P)].size = total
  <2>1. CASE i = Len(P)
    <3>1. Len(Q) = i + 1
      BY <1>1, <2>1
    <3> QED
      BY <1>1, <1>2, <1>3, <1>4, <2>1, <3>1, SMTT(30)
  <2>2. CASE i < Len(P)
    <3>1. Len(P) \in 1 .. Len(P) /\ Len(P) > i
      BY <1>1, <1>4, <2>2
    <3>2. Q[Len(P) + 1] = P[Len(P)]
      BY <1>1, <3>1
    <3> QED
      BY <1>1, <1>3, <3>2
  <2> QED
    BY <1>1, <2>1, <2>2
<1>10. Tiles(P, total)
  BY <1>1, <1>4, <1>6, <1>7, <1>8, <1>9 DEF Tiles
<1>11. \A k \in 1 .. Len(P) : P[k] = P[i] => k = i
  BY <1>1, <1>10, TilesApart
<1>12. \A k \in 1 .. Len(Q) : (Q[k] = Q[i] => k = i) /\ (Q[k] = Q[i + 1] => k = i + 1)
  BY <1>4, TilesApart
<1> QED
  BY <1>10, <1>11, <1>12, CutMembers

(* Block i is marked as free, or as used. *)
IsMarked(P, Q, i) ==
  /\ P \in Seq(Block) /\ Q \in Seq(Block) /\ i \in 1 .. Len(P) /\ Len(Q) = Len(P)
  /\ \A k \in 1 .. Len(P) : k # i => Q[k] = P[k]
  /\ Q[i].offset = P[i].offset /\ Q[i].size = P[i].size

MarkFree(P, i) == [P EXCEPT ![i].free = TRUE]
MarkUsed(P, i) == [P EXCEPT ![i].free = FALSE]

(* A block that is marked changes nothing but its flag.                    *)
LEMMA MarkedIs ==
  ASSUME NEW P \in Seq(Block), NEW i \in 1 .. Len(P)
  PROVE  /\ IsMarked(P, MarkFree(P, i), i) /\ MarkFree(P, i)[i].free
         /\ IsMarked(P, MarkUsed(P, i), i) /\ ~MarkUsed(P, i)[i].free
<1>1. P[i] \in Block
  OBVIOUS
<1>2. ASSUME NEW b \in Block, b.offset = P[i].offset, b.size = P[i].size
      PROVE  IsMarked(P, [P EXCEPT ![i] = b], i) /\ [P EXCEPT ![i] = b][i] = b
  <2> DEFINE Q == [P EXCEPT ![i] = b]
  <2>1. Q \in Seq(Block) /\ Len(Q) = Len(P)
    BY <1>2
  <2>2. Q[i] = b /\ \A k \in 1 .. Len(P) : k # i => Q[k] = P[k]
    OBVIOUS
  <2> HIDE DEF Q
  <2> QED
    BY <1>2, <2>1, <2>2 DEF IsMarked, Q
<1> DEFINE yes == [P[i] EXCEPT !.free = TRUE]
           no == [P[i] EXCEPT !.free = FALSE]
<1>3. yes \in Block /\ yes.offset = P[i].offset /\ yes.size = P[i].size /\ yes.free
  BY <1>1 DEF Block
<1>4. no \in Block /\ no.offset = P[i].offset /\ no.size = P[i].size /\ ~no.free
  BY <1>1 DEF Block
<1> DEFINE A == [P EXCEPT ![i] = yes]
           B == [P EXCEPT ![i] = no]
<1>5. MarkFree(P, i) = A /\ MarkUsed(P, i) = B
  BY DEF MarkFree, MarkUsed
<1>6. IsMarked(P, A, i) /\ A[i] = yes /\ IsMarked(P, B, i) /\ B[i] = no
  <2> HIDE DEF yes, no
  <2> QED
    BY <1>2, <1>3, <1>4
<1> HIDE DEF yes, no, A, B
<1> QED
  BY <1>3, <1>4, <1>5, <1>6

(* Marking a block moves it from the free to the used or back, and keeps   *)
(* the tiling.                                                             *)
LEMMA MarkedTiles ==
  ASSUME NEW P, NEW Q, NEW i, NEW total, Tiles(P, total), IsMarked(P, Q, i)
  PROVE  /\ Tiles(Q, total)
         /\ ~P[i].free /\ Q[i].free => FreeIn(Q) = FreeIn(P) \cup {Q[i]} /\ UsedIn(Q) = UsedIn(P) \ {P[i]}
         /\ P[i].free /\ ~Q[i].free => FreeIn(Q) = FreeIn(P) \ {P[i]} /\ UsedIn(Q) = UsedIn(P) \cup {Q[i]}
         /\ Coalesced(P) /\ (Q[i].free => (i > 1 => ~P[i - 1].free) /\ (i < Len(P) => ~P[i + 1].free)) => Coalesced(Q)
<1> DEFINE Rest == {P[k] : k \in (1 .. Len(P)) \ {i}}
<1>1. P \in Seq(Block) /\ Len(P) \in Nat /\ i \in Nat /\ i \in 1 .. Len(P)
  BY DEF Tiles, IsMarked
<1>2. /\ Q \in Seq(Block) /\ Len(Q) = Len(P)
      /\ \A k \in 1 .. Len(P) : k # i => Q[k] = P[k]
      /\ \A k \in 1 .. Len(P) : Q[k].offset = P[k].offset /\ Q[k].size = P[k].size
  BY DEF IsMarked
<1>3. Tiles(Q, total)
  <2>1. 1 \in 1 .. Len(P) /\ Len(P) \in 1 .. Len(P) /\ \A k \in 2 .. Len(P) : k \in 1 .. Len(P) /\ k - 1 \in 1 .. Len(P)
    BY <1>1 DEF Tiles
  <2>2. /\ P[1].offset = 0 /\ P[Len(P)].offset + P[Len(P)].size = total /\ Len(P) >= 1
        /\ \A k \in 1 .. Len(P) : P[k].offset \in Units /\ P[k].size >= MinSize
        /\ \A k \in 2 .. Len(P) : P[k].offset = P[k - 1].offset + P[k - 1].size
    BY DEF Tiles
  <2>3. Q[1].offset = 0 /\ Q[Len(Q)].offset + Q[Len(Q)].size = total
    BY <1>2, <2>1, <2>2
  <2>4. \A k \in 1 .. Len(Q) : Q[k].offset \in Units /\ Q[k].size >= MinSize
    BY <1>2, <2>2
  <2>5. \A k \in 2 .. Len(Q) : Q[k].offset = Q[k - 1].offset + Q[k - 1].size
    BY <1>2, <2>1, <2>2
  <2> QED
    BY <1>2, <2>2, <2>3, <2>4, <2>5 DEF Tiles
<1>4. Members(P) = Rest \cup {P[i]} /\ Members(Q) = Rest \cup {Q[i]}
  <2>1. Members(Q) = {Q[k] : k \in 1 .. Len(P)}
    BY <1>2 DEF Members
  <2>2. 1 .. Len(P) = ((1 .. Len(P)) \ {i}) \cup {i}
    BY <1>1
  <2>3. {Q[k] : k \in (1 .. Len(P)) \ {i}} = Rest
    BY <1>2
  <2> HIDE DEF Rest
  <2>4. Members(Q) = {Q[k] : k \in (1 .. Len(P)) \ {i}} \cup {Q[i]}
    BY <2>1, <2>2
  <2>5. Members(P) = Rest \cup {P[i]}
    BY <2>2 DEF Members, Rest
  <2> QED
    BY <2>3, <2>4, <2>5
<1>5. P[i] \notin Rest
  <2>1. \A k \in 1 .. Len(P) : P[k] = P[i] => k = i
    BY <1>1, TilesApart
  <2> QED
    BY <2>1
<1>6. Q[i] \notin Rest
  <2>1. \A k \in 1 .. Len(Q) : Q[k] = Q[i] => k = i
    BY <1>1, <1>2, <1>3, TilesApart
  <2> QED
    BY <1>2, <2>1
<1> HIDE DEF Rest
<1>7. /\ FreeIn(P) = {b \in Rest \cup {P[i]} : b.free} /\ UsedIn(P) = {b \in Rest \cup {P[i]} : ~b.free}
      /\ FreeIn(Q) = {b \in Rest \cup {Q[i]} : b.free} /\ UsedIn(Q) = {b \in Rest \cup {Q[i]} : ~b.free}
  BY <1>1, <1>2, <1>4, InIs
<1>8. ASSUME ~P[i].free, Q[i].free PROVE FreeIn(Q) = FreeIn(P) \cup {Q[i]} /\ UsedIn(Q) = UsedIn(P) \ {P[i]}
  BY <1>2, <1>5, <1>7, <1>8
<1>9. ASSUME P[i].free, ~Q[i].free PROVE FreeIn(Q) = FreeIn(P) \ {P[i]} /\ UsedIn(Q) = UsedIn(P) \cup {Q[i]}
  BY <1>2, <1>5, <1>7, <1>9
<1>10. ASSUME Coalesced(P), Q[i].free => (i > 1 => ~P[i - 1].free) /\ (i < Len(P) => ~P[i + 1].free)
       PROVE  Coalesced(Q)
  <2> SUFFICES ASSUME NEW k \in 2 .. Len(Q) PROVE ~(Q[k].free /\ Q[k - 1].free)
    BY DEF Coalesced
  <2>1. k \in 2 .. Len(P) /\ k \in 1 .. Len(P) /\ k - 1 \in 1 .. Len(P) /\ ~(P[k].free /\ P[k - 1].free)
    BY <1>1, <1>2, <1>10 DEF Coalesced
  <2>2. CASE k # i /\ k - 1 # i
    BY <1>2, <2>1, <2>2
  <2>3. CASE k = i
    BY <1>2, <1>10, <2>1, <2>3
  <2>4. CASE k - 1 = i
    <3>1. k = i + 1 /\ i < Len(P) /\ k # i
      BY <1>1, <2>1, <2>4
    <3> QED
      BY <1>2, <1>10, <2>1, <2>4, <3>1
  <2> QED
    BY <2>2, <2>3, <2>4
<1> QED
  BY <1>3, <1>8, <1>9, <1>10
-----------------------------------------------------------------------------
(* A pool while an operation is under way: its blocks follow one another,  *)
(* and its lists and bits know the free ones.                              *)
PoolType == [phys : Seq(Block), lists : [Classes -> Seq(Nat)], bits : SUBSET Classes, used : Int]

Linked(pool, c) ==
  /\ IsInjective(pool.lists[c])
  /\ ToSet(pool.lists[c]) = {b.offset : b \in {f \in FreeIn(pool.phys) : SizeClass(f.size) = c}}
  /\ c \in pool.bits <=> pool.lists[c] # <<>>

WellFormed(pool, total) ==
  /\ pool \in PoolType /\ Tiles(pool.phys, total) /\ total < WordSize
  /\ \A c \in Classes : Linked(pool, c)

(* Every block of a pool has a class, as the pool is smaller than the      *)
(* word.                                                                   *)
LEMMA ClassOfBlock ==
  ASSUME NEW P, NEW total, Tiles(P, total), total < WordSize, NEW i \in 1 .. Len(P)
  PROVE  P[i].size \in MinSize .. WordSize - 1 /\ SizeClass(P[i].size) \in Classes
<1>1. P[i].size \in Nat /\ P[i].offset \in Nat /\ P[i].size >= MinSize
  BY BlockIs DEF Tiles
<1>2. P[i].offset + P[i].size <= total /\ total \in Nat
  BY TilesApart
<1>3. P[i].size \in MinSize .. WordSize - 1
  <2>1. MinSize \in Nat /\ WordSize \in Nat
    BY CountsAre
  <2> QED
    BY <1>1, <1>2, <2>1
<1> QED
  BY <1>3, ClassInRange

(* A list without duplicates stays one when another block is put first, or *)
(* one is taken out.                                                       *)
LEMMA Pushed ==
  ASSUME NEW s \in Seq(Nat), IsInjective(s), NEW x \in Nat, x \notin ToSet(s)
  PROVE  <<x>> \o s \in Seq(Nat) /\ IsInjective(<<x>> \o s) /\ ToSet(<<x>> \o s) = ToSet(s) \cup {x} /\ <<x>> \o s # <<>>
<1> DEFINE t == <<x>> \o s
<1>1. t \in Seq(Nat) /\ Len(t) = Len(s) + 1 /\ Len(s) \in Nat /\ t[1] = x /\ \A k \in 1 .. Len(s) : t[k + 1] = s[k]
  OBVIOUS
<1>2. DOMAIN t = 1 .. Len(s) + 1 /\ DOMAIN s = 1 .. Len(s)
  BY <1>1
<1> HIDE DEF t
<1>3. \A k \in 1 .. Len(s) + 1 : k = 1 \/ (k - 1 \in 1 .. Len(s) /\ (k - 1) + 1 = k)
  BY <1>1
<1>4. \A k \in 1 .. Len(s) + 1 : k # 1 => t[k] = s[k - 1]
  BY <1>1, <1>3
<1>5. \A k \in 1 .. Len(s) : s[k] # x
  BY <1>2 DEF ToSet
<1>6. IsInjective(t)
  <2> SUFFICES ASSUME NEW k \in 1 .. Len(s) + 1, NEW l \in 1 .. Len(s) + 1, t[k] = t[l] PROVE k = l
    BY <1>2 DEF IsInjective
  <2>1. CASE k = 1 /\ l # 1
    BY <1>1, <1>3, <1>4, <1>5, <2>1
  <2>2. CASE k # 1 /\ l = 1
    BY <1>1, <1>3, <1>4, <1>5, <2>2
  <2>3. CASE k # 1 /\ l # 1
    <3>1. s[k - 1] = s[l - 1] /\ k - 1 \in 1 .. Len(s) /\ l - 1 \in 1 .. Len(s)
      BY <1>3, <1>4, <2>3
    <3>2. k - 1 = l - 1
      BY <1>2, <3>1 DEF IsInjective
    <3> QED
      BY <1>1, <3>2
  <2> QED
    BY <2>1, <2>2, <2>3
<1>7. ToSet(t) = ToSet(s) \cup {x}
  <2>1. ToSet(t) = {t[k] : k \in 1 .. Len(s) + 1} /\ ToSet(s) = {s[k] : k \in 1 .. Len(s)}
    BY <1>2 DEF ToSet
  <2>2. ASSUME NEW k \in 1 .. Len(s) PROVE \E l \in 1 .. Len(s) + 1 : t[l] = s[k]
    <3>1. k + 1 \in 1 .. Len(s) + 1
      BY <1>1
    <3> QED
      BY <1>1, <3>1
  <2>3. 1 \in 1 .. Len(s) + 1
    BY <1>1
  <2>4. ASSUME NEW k \in 1 .. Len(s) + 1 PROVE t[k] \in ToSet(s) \cup {x}
    BY <1>1, <1>3, <1>4, <2>1
  <2>5. ToSet(t) \subseteq ToSet(s) \cup {x}
    BY <2>1, <2>4
  <2>6. ToSet(s) \subseteq ToSet(t) /\ x \in ToSet(t)
    BY <1>1, <2>1, <2>2, <2>3
  <2> QED
    BY <2>5, <2>6
<1>8. t # <<>>
  BY <1>1
<1> QED
  BY <1>1, <1>6, <1>7, <1>8 DEF t

LEMMA WithoutIs ==
  ASSUME NEW s \in Seq(Nat), IsInjective(s), NEW x \in Nat, x \in ToSet(s)
  PROVE  /\ Without(s, x) \in Seq(Nat) /\ IsInjective(Without(s, x)) /\ ToSet(Without(s, x)) = ToSet(s) \ {x}
         /\ Without(s, x) = <<>> <=> s = <<x>>
<1> DEFINE i == CHOOSE k \in DOMAIN s : s[k] = x
           t == RemoveAt(s, i)
<1>1. i \in 1 .. Len(s) /\ s[i] = x /\ Len(s) \in Nat
  BY DEF ToSet
<1> HIDE DEF i
<1>2. t \in Seq(Nat) /\ Len(t) = Len(s) - 1 /\ \A k \in 1 .. Len(s) - 1 : t[k] = s[IF k < i THEN k ELSE k + 1]
  BY <1>1, Removed
<1>3. DOMAIN s = 1 .. Len(s) /\ DOMAIN t = 1 .. Len(s) - 1
  BY <1>2
<1> HIDE DEF t
<1>4. \A k \in 1 .. Len(s) - 1 :
        (k < i => t[k] = s[k] /\ k \in 1 .. Len(s)) /\ (~(k < i) => t[k] = s[k + 1] /\ k + 1 \in 1 .. Len(s) /\ k + 1 > i)
  <2> TAKE k \in 1 .. Len(s) - 1
  <2>1. t[k] = s[IF k < i THEN k ELSE k + 1]
    BY <1>2
  <2>2. k \in 1 .. Len(s) /\ k + 1 \in 1 .. Len(s) /\ (~(k < i) => k + 1 > i)
    BY <1>1
  <2> QED
    BY <2>1, <2>2
<1>5. \A k, l \in 1 .. Len(s) : s[k] = s[l] => k = l
  BY <1>3 DEF IsInjective
<1>6. IsInjective(t)
  <2> SUFFICES ASSUME NEW k \in 1 .. Len(s) - 1, NEW l \in 1 .. Len(s) - 1, t[k] = t[l] PROVE k = l
    BY <1>3 DEF IsInjective
  <2>1. CASE k < i /\ l < i
    BY <1>4, <1>5, <2>1
  <2>2. CASE ~(k < i) /\ ~(l < i)
    <3>1. k + 1 = l + 1
      BY <1>4, <1>5, <2>2
    <3> QED
      BY <1>1, <3>1
  <2>3. CASE k < i /\ ~(l < i)
    <3>1. k = l + 1
      BY <1>4, <1>5, <2>3
    <3> QED
      BY <1>1, <2>3, <3>1
  <2>4. CASE ~(k < i) /\ l < i
    <3>1. l = k + 1
      BY <1>4, <1>5, <2>4
    <3> QED
      BY <1>1, <2>4, <3>1
  <2> QED
    BY <2>1, <2>2, <2>3, <2>4
<1>7. ToSet(t) = ToSet(s) \ {x}
  <2>1. ToSet(t) = {t[k] : k \in 1 .. Len(s) - 1} /\ ToSet(s) = {s[k] : k \in 1 .. Len(s)}
    BY <1>3 DEF ToSet
  <2>2. ASSUME NEW k \in 1 .. Len(s) - 1 PROVE t[k] \in ToSet(s) \ {x}
    <3>1. PICK l \in 1 .. Len(s) : t[k] = s[l] /\ l # i
      <4>1. CASE k < i
        BY <1>1, <1>4, <4>1
      <4>2. CASE ~(k < i)
        <5>1. k + 1 \in 1 .. Len(s) /\ t[k] = s[k + 1] /\ k + 1 # i
          BY <1>1, <1>4, <4>2
        <5> QED
          BY <5>1
      <4> QED
        BY <4>1, <4>2
    <3> QED
      BY <1>1, <1>5, <2>1, <3>1
  <2>3. ASSUME NEW l \in 1 .. Len(s), l # i PROVE \E k \in 1 .. Len(s) - 1 : t[k] = s[l]
    <3>1. CASE l < i
      <4>1. l \in 1 .. Len(s) - 1
        BY <1>1, <3>1
      <4> QED
        BY <1>4, <3>1, <4>1
    <3>2. CASE l > i
      <4>1. l - 1 \in 1 .. Len(s) - 1 /\ ~(l - 1 < i) /\ (l - 1) + 1 = l
        BY <1>1, <3>2
      <4>2. t[l - 1] = s[(l - 1) + 1]
        BY <1>4, <4>1
      <4> QED
        BY <4>1, <4>2
    <3> QED
      BY <1>1, <2>3, <3>1, <3>2
  <2>4. ToSet(t) \subseteq ToSet(s) \ {x}
    BY <2>1, <2>2
  <2>5. ToSet(s) \ {x} \subseteq ToSet(t)
    <3> SUFFICES ASSUME NEW l \in 1 .. Len(s), s[l] # x PROVE s[l] \in ToSet(t)
      BY <2>1
    <3>1. l # i
      BY <1>1
    <3> QED
      BY <2>1, <2>3, <3>1
  <2> QED
    BY <2>4, <2>5
<1>8. t = <<>> <=> s = <<x>>
  <2>1. t = <<>> <=> Len(s) = 1
    <3>1. t = <<>> <=> Len(t) = 0
      <4>1. t \in Seq(Nat)
        BY <1>2
      <4> QED
        BY <4>1
    <3>2. Len(t) = 0 <=> Len(s) = 1
      BY <1>1, <1>2
    <3> QED
      BY <3>1, <3>2
  <2>2. ASSUME Len(s) = 1 PROVE s = <<x>>
    <3>1. i = 1
      BY <1>1, <2>2
    <3> QED
      BY <1>1, <2>2, <3>1
  <2> QED
    BY <2>1, <2>2
<1>9. Without(s, x) = t
  BY DEF Without, t, i
<1> QED
  BY <1>2, <1>6, <1>7, <1>8, <1>9

(* A block that is linked or unlinked. *)
LEMMA LinkIs ==
  ASSUME NEW pool, NEW total, WellFormed(pool, total), NEW i \in 1 .. Len(pool.phys), ~pool.phys[i].free
  PROVE  LET Q == LinkBlock(pool, i) IN
         /\ WellFormed(Q, total) /\ IsMarked(pool.phys, Q.phys, i) /\ Q.used = pool.used
         /\ Q.phys[i].free
<1> DEFINE P == pool.phys
           x == P[i].offset
           class == SizeClass(P[i].size)
           Q == LinkBlock(pool, i)
<1>1. /\ pool \in PoolType /\ Tiles(P, total) /\ P \in Seq(Block) /\ pool.lists \in [Classes -> Seq(Nat)]
      /\ pool.bits \in SUBSET Classes /\ pool.used \in Int /\ \A c \in Classes : Linked(pool, c)
  BY DEF WellFormed, PoolType
<1>2. class \in Classes /\ x \in Nat
  BY <1>1, BlockIs, ClassOfBlock DEF WellFormed
<1>3. /\ Q.phys = MarkFree(P, i) /\ Q.lists = [pool.lists EXCEPT ![class] = <<x>> \o @]
      /\ Q.bits = pool.bits \cup {class} /\ Q.used = pool.used
  BY <1>1 DEF LinkBlock, PoolType, MarkFree
<1>4. /\ IsMarked(P, Q.phys, i)
      /\ Q.phys[i].free
  <2> HIDE DEF Q
  <2> QED
    BY <1>1, <1>3, MarkedIs
<1>5. Tiles(Q.phys, total) /\ FreeIn(Q.phys) = FreeIn(P) \cup {Q.phys[i]}
  <2>1. Q.phys[i].free /\ ~P[i].free
    <3> HIDE DEF Q
    <3> QED
      BY <1>4
  <2> HIDE DEF Q
  <2> QED
    BY <1>1, <1>4, <2>1, MarkedTiles
<1>6. x \notin {b.offset : b \in FreeIn(P)}
  <2> SUFFICES ASSUME NEW k \in 1 .. Len(P), P[k].free, P[k].offset = x PROVE FALSE
    BY <1>1 DEF FreeIn
  <2>1. k = i
    BY <1>1, TilesApart
  <2> QED
    BY <2>1
<1>7. Q.phys[i].offset = x /\ SizeClass(Q.phys[i].size) = class /\ Q.phys \in Seq(Block)
  BY <1>4 DEF IsMarked
<1> DEFINE Mine(free, c) == {b.offset : b \in {f \in free : SizeClass(f.size) = c}}
<1>8. ASSUME NEW c \in Classes PROVE Linked(Q, c)
  <2>1. Linked(pool, c) /\ pool.lists[c] \in Seq(Nat)
    BY <1>1
  <2>2. CASE c = class
    <3>1. Mine(FreeIn(Q.phys), c) = Mine(FreeIn(P), c) \cup {x}
      <4> HIDE DEF P, Q, x, class
      <4> QED
        BY <1>5, <1>7, <2>2
    <3>2. x \notin ToSet(pool.lists[c])
      BY <1>6, <2>1 DEF Linked
    <3>3. Q.lists[c] = <<x>> \o pool.lists[c]
      BY <1>1, <1>2, <1>3, <2>2
    <3> DEFINE s == pool.lists[c]
    <3>4. IsInjective(s) /\ s \in Seq(Nat) /\ ToSet(s) = Mine(FreeIn(P), c)
      BY <2>1 DEF Linked
    <3> HIDE DEF s, x, P, Mine
    <3>5. IsInjective(<<x>> \o s) /\ ToSet(<<x>> \o s) = ToSet(s) \cup {x} /\ <<x>> \o s # <<>>
      BY <1>2, <3>2, <3>4, Pushed DEF s
    <3>6. c \in Q.bits
      BY <1>3, <2>2
    <3>7. ToSet(Q.lists[c]) = Mine(FreeIn(Q.phys), c)
      BY <3>1, <3>3, <3>4, <3>5 DEF s
    <3> QED
      BY <3>3, <3>5, <3>6, <3>7 DEF Linked, s, Mine
  <2>3. CASE c # class
    <3>1. Mine(FreeIn(Q.phys), c) = Mine(FreeIn(P), c)
      <4> HIDE DEF P, Q, x, class
      <4> QED
        BY <1>5, <1>7, <2>3
    <3>2. Q.lists[c] = pool.lists[c] /\ (c \in Q.bits <=> c \in pool.bits)
      BY <1>1, <1>3, <2>3
    <3> QED
      BY <2>1, <3>1, <3>2 DEF Linked
  <2> QED
    BY <2>2, <2>3
<1>9. Q \in PoolType
  <2>1. <<x>> \o pool.lists[class] \in Seq(Nat)
    BY <1>1, <1>2
  <2>2. Q.lists \in [Classes -> Seq(Nat)]
    BY <1>1, <1>2, <1>3, <2>1
  <2>3. Q.bits \in SUBSET Classes
    BY <1>1, <1>2, <1>3
  <2>4. Q = [pool EXCEPT !.phys = Q.phys, !.lists = Q.lists, !.bits = Q.bits]
    BY <1>1 DEF LinkBlock, PoolType
  <2> HIDE DEF Q
  <2> QED
    BY <1>1, <1>7, <2>2, <2>3, <2>4 DEF PoolType
<1>10. total < WordSize
  BY DEF WellFormed
<1> QED
  BY <1>3, <1>4, <1>5, <1>8, <1>9, <1>10 DEF WellFormed

(* unlink_block() takes a free block out of its list and clears the bits   *)
(* of a list that ends up empty.                                           *)
LEMMA UnlinkIs ==
  ASSUME NEW pool, NEW total, WellFormed(pool, total), NEW i \in 1 .. Len(pool.phys), pool.phys[i].free
  PROVE  LET Q == UnlinkBlock(pool, i) IN
         /\ WellFormed(Q, total) /\ IsMarked(pool.phys, Q.phys, i) /\ Q.used = pool.used
         /\ ~Q.phys[i].free
<1> DEFINE P == pool.phys
           x == P[i].offset
           class == SizeClass(P[i].size)
           Q == UnlinkBlock(pool, i)
<1>1. /\ pool \in PoolType /\ Tiles(P, total) /\ P \in Seq(Block) /\ pool.lists \in [Classes -> Seq(Nat)]
      /\ pool.bits \in SUBSET Classes /\ pool.used \in Int /\ \A c \in Classes : Linked(pool, c)
  BY DEF WellFormed, PoolType
<1>2. class \in Classes /\ x \in Nat
  BY <1>1, BlockIs, ClassOfBlock DEF WellFormed
<1>3. /\ Q.phys = MarkUsed(P, i) /\ Q.lists = [pool.lists EXCEPT ![class] = Without(@, x)]
      /\ Q.bits = IF pool.lists[class] = <<x>> THEN pool.bits \ {class} ELSE pool.bits
      /\ Q.used = pool.used
  BY <1>1 DEF UnlinkBlock, PoolType, MarkUsed
<1>4. /\ IsMarked(P, Q.phys, i)
      /\ ~Q.phys[i].free
  <2> HIDE DEF Q
  <2> QED
    BY <1>1, <1>3, MarkedIs
<1>5. Tiles(Q.phys, total) /\ FreeIn(Q.phys) = FreeIn(P) \ {P[i]}
  <2>1. ~Q.phys[i].free /\ P[i].free
    BY <1>4
  <2> HIDE DEF Q
  <2> QED
    BY <1>1, <1>4, <2>1, MarkedTiles
<1>6. P[i] \in FreeIn(P) /\ \A b \in FreeIn(P) : b.offset = x => b = P[i]
  <2>1. P[i] \in FreeIn(P)
    BY <1>1 DEF FreeIn
  <2>2. ASSUME NEW k \in 1 .. Len(P), P[k].offset = x PROVE P[k] = P[i]
    BY <1>1, <2>2, TilesApart
  <2> QED
    BY <1>1, <2>1, <2>2 DEF FreeIn
<1>7. Q.phys \in Seq(Block)
  BY <1>4 DEF IsMarked
<1> DEFINE Mine(free, c) == {b.offset : b \in {f \in free : SizeClass(f.size) = c}}
<1> DEFINE s == pool.lists[class]
<1>8. IsInjective(s) /\ s \in Seq(Nat) /\ ToSet(s) = Mine(FreeIn(P), class) /\ x \in ToSet(s)
  BY <1>1, <1>2, <1>6 DEF Linked
<1>9. /\ Without(s, x) \in Seq(Nat) /\ IsInjective(Without(s, x)) /\ ToSet(Without(s, x)) = ToSet(s) \ {x}
      /\ Without(s, x) = <<>> <=> s = <<x>>
  <2> HIDE DEF s, x
  <2> QED
    BY <1>2, <1>8, WithoutIs
<1>10. ASSUME NEW c \in Classes PROVE Linked(Q, c)
  <2>1. Linked(pool, c) /\ pool.lists[c] \in Seq(Nat)
    BY <1>1
  <2>2. CASE c = class
    <3>1. Mine(FreeIn(Q.phys), class) = Mine(FreeIn(P), class) \ {x}
      <4> DEFINE F == FreeIn(P)
                 b == P[i]
      <4>1. b \in F /\ (\A f \in F : f.offset = x => f = b) /\ SizeClass(b.size) = class /\ b.offset = x
        BY <1>6
      <4>2. FreeIn(Q.phys) = F \ {b}
        BY <1>5
      <4> DEFINE G == FreeIn(Q.phys)
      <4> HIDE DEF x, class, F, b, G
      <4>3. Mine(G, class) = Mine(F, class) \ {x}
        <5> HIDE DEF P, Q
        <5>1. G = F \ {b}
          BY <4>2 DEF G
        <5> QED
          BY <4>1, <5>1
      <4> QED
        BY <4>3 DEF F, G
    <3>2. Q.lists[class] = Without(s, x)
      BY <1>1, <1>2, <1>3
    <3> HIDE DEF s, x, P, Mine, Q
    <3>3. class \in Q.bits <=> s # <<x>>
      <4>1. class \in pool.bits
        <5>1. s # <<>>
          BY <1>8 DEF ToSet
        <5> QED
          BY <1>1, <1>2, <5>1 DEF Linked, s
      <4> QED
        BY <1>3, <4>1 DEF s
    <3>4. ToSet(Q.lists[class]) = Mine(FreeIn(Q.phys), class)
      BY <1>8, <1>9, <3>1, <3>2
    <3> QED
      BY <1>9, <2>2, <3>2, <3>3, <3>4 DEF Linked, Mine
  <2>3. CASE c # class
    <3>1. Mine(FreeIn(Q.phys), c) = Mine(FreeIn(P), c)
      <4>1. SizeClass(P[i].size) # c
        BY <2>3
      <4> HIDE DEF P, Q, x, class
      <4> QED
        BY <1>5, <4>1
    <3>2. Q.lists[c] = pool.lists[c] /\ (c \in Q.bits <=> c \in pool.bits)
      BY <1>1, <1>3, <2>3
    <3> QED
      BY <2>1, <3>1, <3>2 DEF Linked
  <2> QED
    BY <2>2, <2>3
<1>11. Q \in PoolType
  <2>1. Q.lists \in [Classes -> Seq(Nat)]
    BY <1>1, <1>2, <1>3, <1>9
  <2>2. Q.bits \in SUBSET Classes
    BY <1>1, <1>2, <1>3
  <2>3. Q = [pool EXCEPT !.phys = Q.phys, !.lists = Q.lists, !.bits = Q.bits]
    BY <1>1 DEF UnlinkBlock, PoolType
  <2> HIDE DEF Q
  <2> QED
    BY <1>1, <1>7, <2>1, <2>2, <2>3 DEF PoolType
<1>12. total < WordSize
  BY DEF WellFormed
<1> QED
  BY <1>3, <1>4, <1>5, <1>10, <1>11, <1>12 DEF WellFormed

(* A block that is cut in two, and two that become one. *)
LEMMA InsertedIs ==
  ASSUME NEW S, NEW s \in Seq(S), NEW i \in 1 .. Len(s) + 1, NEW e \in S, NEW r, r = InsertAt(s, i, e)
  PROVE  /\ r \in Seq(S) /\ Len(r) = Len(s) + 1 /\ r[i] = e
         /\ \A k \in 1 .. Len(s) : (k < i => r[k] = s[k]) /\ (k >= i => r[k + 1] = s[k])
<1> DEFINE front == SubSeq(s, 1, i - 1)
           rest == SubSeq(s, i, Len(s))
           head == front \o <<e>>
           t == head \o rest
<1>1. front \in Seq(S) /\ Len(front) = i - 1 /\ \A k \in 1 .. i - 1 : front[k] = s[k]
  OBVIOUS
<1>2. rest \in Seq(S) /\ Len(rest) = Len(s) - (i - 1) /\ \A k \in 1 .. Len(s) - (i - 1) : rest[k] = s[k + (i - 1)]
  OBVIOUS
<1>3. Len(s) \in Nat /\ i \in Nat /\ i >= 1
  OBVIOUS
<1> HIDE DEF front, rest
<1>4. head \in Seq(S) /\ Len(head) = i /\ head[i] = e /\ \A k \in 1 .. i - 1 : head[k] = s[k]
  <2>1. <<e>> \in Seq(S) /\ Len(<<e>>) = 1 /\ <<e>>[1] = e /\ 1 \in 1 .. Len(<<e>>)
    OBVIOUS
  <2>2. head \in Seq(S) /\ Len(head) = Len(front) + 1
    BY <1>1, <2>1, Joined
  <2>3. head[Len(front) + 1] = e
    BY <1>1, <2>1, Joined
  <2>4. \A k \in 1 .. Len(front) : head[k] = front[k]
    BY <1>1, <2>1, Joined
  <2> HIDE DEF head
  <2> QED
    BY <1>1, <1>3, <2>2, <2>3, <2>4
<1> HIDE DEF head
<1>5. t \in Seq(S) /\ Len(t) = Len(s) + 1
  BY <1>2, <1>3, <1>4, Joined
<1>6. \A k \in 1 .. Len(head) : t[k] = head[k]
  BY <1>2, <1>4, Joined
<1>7. \A k \in 1 .. Len(rest) : t[Len(head) + k] = rest[k]
  <2>1. \A k \in 1 .. Len(rest) : (head \o rest)[Len(head) + k] = rest[k]
    <3>1. head \in Seq(S) /\ rest \in Seq(S)
      BY <1>2, <1>4
    <3> QED
      BY <3>1, Joined
  <2> QED
    BY <2>1
<1>8. r = t
  BY DEF InsertAt, t, head, front, rest
<1> HIDE DEF t
<1>9. t[i] = e
  BY <1>3, <1>4, <1>6
<1>10. ASSUME NEW k \in 1 .. Len(s) PROVE (k < i => t[k] = s[k]) /\ (k >= i => t[k + 1] = s[k])
  <2>1. CASE k < i
    <3>1. k \in 1 .. i - 1 /\ k \in 1 .. Len(head)
      BY <1>3, <1>4, <2>1
    <3> QED
      BY <1>4, <1>6, <2>1, <3>1
  <2>2. CASE k >= i
    <3> DEFINE l == k - (i - 1)
    <3>1. l \in 1 .. Len(rest) /\ l \in 1 .. Len(s) - (i - 1) /\ l + (i - 1) = k /\ Len(head) + l = k + 1 /\ ~(k < i)
      BY <1>2, <1>3, <1>4, <2>2
    <3> HIDE DEF l
    <3>2. t[k + 1] = rest[l] /\ rest[l] = s[k]
      BY <1>2, <1>7, <3>1
    <3> QED
      BY <3>1, <3>2
  <2> QED
    BY <1>3, <2>1, <2>2
<1> QED
  BY <1>5, <1>8, <1>9, <1>10

(* The free blocks are all that the lists depend on. *)
LEMMA SameLists ==
  ASSUME NEW pool, NEW total, WellFormed(pool, total), NEW R, Tiles(R, total), FreeIn(R) = FreeIn(pool.phys)
  PROVE  LET Q == [pool EXCEPT !.phys = R] IN
         WellFormed(Q, total) /\ Q.phys = R /\ Q.used = pool.used /\ Q.lists = pool.lists /\ Q.bits = pool.bits
<1> DEFINE Q == [pool EXCEPT !.phys = R]
<1>1. pool \in PoolType /\ R \in Seq(Block)
  BY DEF WellFormed, Tiles
<1>2. Q \in PoolType /\ Q.phys = R /\ Q.used = pool.used /\ Q.lists = pool.lists /\ Q.bits = pool.bits
  BY <1>1 DEF PoolType
<1> HIDE DEF Q
<1>3. \A c \in Classes : Linked(Q, c)
  BY <1>2 DEF WellFormed, Linked
<1>4. WellFormed(Q, total)
  BY <1>2, <1>3 DEF WellFormed
<1> QED
  BY <1>2, <1>4 DEF Q

(* A block in use is cut in two blocks in use.                             *)
LEMMA CutIs ==
  ASSUME NEW pool, NEW total, WellFormed(pool, total), NEW i \in 1 .. Len(pool.phys), ~pool.phys[i].free,
         NEW size \in Units, size >= MinSize, size + MinSize <= pool.phys[i].size
  PROVE  LET Q == Cut(pool, i, size) IN
         /\ WellFormed(Q, total) /\ IsCut(pool.phys, Q.phys, i) /\ Q.used = pool.used
         /\ Q.phys[i].size = size /\ (Coalesced(pool.phys) => Coalesced(Q.phys))
<1> DEFINE P == pool.phys
           block == [P[i] EXCEPT !.size = size]
           rest == [offset |-> P[i].offset + size, size |-> P[i].size - size, free |-> FALSE]
           A == ReplaceAt(P, i, block)
           R == InsertAt(A, i + 1, rest)
<1>1. /\ Tiles(P, total) /\ P \in Seq(Block) /\ Len(P) \in Nat /\ i \in Nat /\ size \in Nat
      /\ P[i] \in Block /\ P[i].offset \in Nat /\ P[i].size \in Nat
  <2>1. Tiles(P, total)
    BY DEF WellFormed
  <2>2. P \in Seq(Block)
    BY <2>1 DEF Tiles
  <2>3. size \in Nat
    BY UnitsAre
  <2>4. P[i] \in Block /\ P[i].offset \in Nat /\ P[i].size \in Nat
    BY <2>2, BlockIs
  <2> QED
    BY <2>1, <2>2, <2>3, <2>4
<1>2. P[i].size \in MinSize .. WordSize - 1 /\ MinSize \in Nat /\ WordSize \in Nat /\ MinSize > 0
  BY <1>1, ClassOfBlock, CountsAre, SMTT(30) DEF WellFormed
<1>3. (P[i].size - size) % WordSize = P[i].size - size /\ P[i].size - size \in Nat /\ P[i].size - size >= MinSize
  <2> DEFINE n == P[i].size - size
  <2>1. n \in 0 .. WordSize - 1 /\ n >= MinSize /\ n = 0 * WordSize + n /\ WordSize > 0
    BY <1>1, <1>2
  <2> HIDE DEF n
  <2>2. n % WordSize = n
    BY <1>2, <2>1, Remainder
  <2> QED
    BY <2>1, <2>2 DEF n
<1>4. block \in Block /\ block.offset = P[i].offset /\ block.size = size /\ ~block.free
  BY <1>1 DEF Block
<1>5. rest \in Block /\ rest.offset = P[i].offset + size /\ rest.size = P[i].size - size /\ ~rest.free
  <2> DEFINE n == P[i].offset + size
             m == P[i].size - size
  <2>1. n \in Nat /\ m \in Nat
    BY <1>1, <1>3
  <2> HIDE DEF n, m
  <2>2. rest = [offset |-> n, size |-> m, free |-> FALSE]
    BY DEF n, m
  <2> HIDE DEF rest
  <2>3. rest \in Block /\ rest.offset = n /\ rest.size = m /\ ~rest.free
    BY <2>1, <2>2 DEF Block
  <2> QED
    BY <2>3 DEF n, m
<1>6. Cut(pool, i, size) = [pool EXCEPT !.phys = R]
  BY <1>3 DEF Cut
<1> HIDE DEF block, rest
<1>7. A \in Seq(Block) /\ Len(A) = Len(P) /\ A[i] = block /\ \A k \in 1 .. Len(P) : k # i => A[k] = P[k]
  BY <1>1, <1>4 DEF ReplaceAt
<1> HIDE DEF A
<1>8. i + 1 \in 1 .. Len(A) + 1
  BY <1>1, <1>7
<1>9. /\ R \in Seq(Block) /\ Len(R) = Len(A) + 1 /\ R[i + 1] = rest
      /\ \A k \in 1 .. Len(A) : (k < i + 1 => R[k] = A[k]) /\ (k >= i + 1 => R[k + 1] = A[k])
  <2>1. R = InsertAt(A, i + 1, rest)
    OBVIOUS
  <2>2. A \in Seq(Block) /\ rest \in Block /\ i + 1 \in 1 .. Len(A) + 1
    BY <1>5, <1>7, <1>8
  <2> DEFINE m == i + 1
  <2> HIDE DEF R, m
  <2>3. R = InsertAt(A, m, rest) /\ m \in 1 .. Len(A) + 1
    BY <2>1, <2>2 DEF m
  <2>4. /\ R \in Seq(Block) /\ Len(R) = Len(A) + 1 /\ R[m] = rest
        /\ \A k \in 1 .. Len(A) : (k < m => R[k] = A[k]) /\ (k >= m => R[k + 1] = A[k])
    BY ONLY <2>2, <2>3, InsertedIs
  <2> QED
    BY <2>4 DEF m
<1> HIDE DEF R
<1>10. R[i] = block /\ R[i + 1] = rest
  BY <1>1, <1>7, <1>9
<1>11. \A k \in 1 .. Len(P) : (k < i => R[k] = P[k]) /\ (k > i => R[k + 1] = P[k])
  BY <1>1, <1>7, <1>9
<1>12. IsCut(P, R, i)
  BY <1>1, <1>4, <1>5, <1>7, <1>9, <1>10, <1>11 DEF IsCut
<1>13. Tiles(R, total) /\ FreeIn(R) = FreeIn(P) /\ (Coalesced(P) => Coalesced(R))
  <2>1. R[i].size \in Units /\ R[i].size >= MinSize /\ R[i + 1].size >= MinSize
    BY <1>3, <1>4, <1>5, <1>10
  <2> QED
    BY <1>1, <1>12, <2>1, CutTiles
<1> QED
  BY <1>4, <1>6, <1>10, <1>12, <1>13, SameLists

JoinedAt(pool, i, p, block) == [pool EXCEPT !.phys = RemoveAt(ReplaceAt(@, i, block), p)]

(* Two neighbours in use become one block in use.                          *)
LEMMA JoinIs ==
  ASSUME NEW pool, NEW total, WellFormed(pool, total), NEW j \in 1 .. Len(pool.phys) - 1,
         ~pool.phys[j].free, ~pool.phys[j + 1].free,
         NEW block \in Block, block.offset = pool.phys[j].offset, ~block.free,
         block.size = pool.phys[j].size + pool.phys[j + 1].size,
         NEW i, NEW p, (i = j /\ p = j + 1) \/ (i = j + 1 /\ p = j)
  PROVE  LET Q == JoinedAt(pool, i, p, block) IN
         /\ WellFormed(Q, total) /\ IsCut(Q.phys, pool.phys, j) /\ Q.used = pool.used
         /\ Q.phys[j] = block /\ (Coalesced(pool.phys) => Coalesced(Q.phys))
<1> DEFINE P == pool.phys
           A == ReplaceAt(P, i, block)
           R == RemoveAt(A, p)
<1>1. /\ Tiles(P, total) /\ P \in Seq(Block) /\ Len(P) \in Nat /\ j \in Nat /\ j \in 1 .. Len(P) /\ j + 1 \in 1 .. Len(P)
  BY DEF WellFormed, Tiles
<1>2. A \in Seq(Block) /\ Len(A) = Len(P) /\ A[i] = block /\ \A k \in 1 .. Len(P) : k # i => A[k] = P[k]
  BY <1>1 DEF ReplaceAt
<1> HIDE DEF A
<1>3. p \in 1 .. Len(A) /\ p \in Nat /\ i \in Nat
  BY <1>1, <1>2
<1>4. R \in Seq(Block) /\ Len(R) = Len(A) - 1 /\ \A k \in 1 .. Len(A) - 1 : R[k] = A[IF k < p THEN k ELSE k + 1]
  BY <1>2, <1>3, Removed
<1> HIDE DEF R
<1>5. \A k \in 1 .. Len(P) - 1 : (k < p => R[k] = A[k]) /\ (k >= p => R[k + 1 - 1] = A[k + 1])
  <2> TAKE k \in 1 .. Len(P) - 1
  <2>1. R[k] = A[IF k < p THEN k ELSE k + 1] /\ k + 1 - 1 = k
    BY <1>1, <1>2, <1>4
  <2> QED
    BY <1>1, <1>3, <2>1
<1>6. R[j] = block
  <2>1. j \in 1 .. Len(P) - 1 /\ j + 1 - 1 = j
    BY <1>1
  <2>2. CASE i = j /\ p = j + 1
    <3>1. j < p
      BY <1>1, <2>2
    <3> QED
      BY <1>2, <1>5, <2>1, <2>2, <3>1
  <2>3. CASE i = j + 1 /\ p = j
    <3>1. j >= p
      BY <1>1, <2>3
    <3> QED
      BY <1>2, <1>5, <2>1, <2>3, <3>1
  <2> QED
    BY <2>2, <2>3
<1>7. ASSUME NEW k \in 1 .. Len(P) - 1 PROVE (k < j => P[k] = R[k]) /\ (k > j => P[k + 1] = R[k])
  <2>1. CASE k < j
    <3>1. k < p /\ k # i /\ k \in 1 .. Len(P)
      BY <1>1, <2>1
    <3>2. R[k] = A[k]
      BY <1>5, <3>1
    <3> QED
      BY <1>1, <1>2, <2>1, <3>1, <3>2
  <2>2. CASE k > j
    <3>1. k >= p /\ k + 1 # i /\ k + 1 \in 1 .. Len(P) /\ k + 1 - 1 = k
      BY <1>1, <2>2
    <3>2. R[k] = A[k + 1]
      BY <1>5, <3>1
    <3> QED
      BY <1>1, <1>2, <2>2, <3>1, <3>2
  <2> QED
    BY <1>1, <2>1, <2>2
<1>8. P[j + 1].offset = P[j].offset + P[j].size
  <2>1. j + 1 \in 2 .. Len(P) /\ (j + 1) - 1 = j
    BY <1>1
  <2>2. P[j + 1].offset = P[(j + 1) - 1].offset + P[(j + 1) - 1].size
    BY <1>1, <2>1 DEF Tiles
  <2> QED
    BY <2>1, <2>2
<1>9. IsCut(R, P, j)
  <2>1. Len(R) = Len(P) - 1 /\ Len(P) = Len(R) + 1 /\ j \in 1 .. Len(R)
    BY <1>1, <1>2, <1>4
  <2>2. \A k \in 1 .. Len(R) : (k < j => P[k] = R[k]) /\ (k > j => P[k + 1] = R[k])
    BY <1>7, <2>1
  <2> QED
    BY <1>1, <1>4, <1>6, <1>8, <2>1, <2>2 DEF IsCut
<1>10. Tiles(R, total) /\ FreeIn(R) = FreeIn(P) /\ (Coalesced(P) => Coalesced(R))
  BY <1>1, <1>9, JoinTiles
<1>11. JoinedAt(pool, i, p, block) = [pool EXCEPT !.phys = R]
  BY DEF JoinedAt, R, A
<1>12. WellFormed([pool EXCEPT !.phys = R], total) /\ [pool EXCEPT !.phys = R].phys = R /\ [pool EXCEPT !.phys = R].used = pool.used
  BY <1>10, SameLists
<1> HIDE DEF P
<1> QED
  BY <1>6, <1>9, <1>10, <1>11, <1>12 DEF P

-----------------------------------------------------------------------------
(* allocate(). *)
LEMMA LeastNumber == ASSUME NEW S \in SUBSET Nat, S # {} PROVE \E n \in S : \A m \in S : n <= m
<1> DEFINE Below == {ss \in Nat \X Nat : ss[1] < ss[2]}
<1>1. Below = OpToRel(<, Nat)
  BY DEF OpToRel
<1>2. IsWellFoundedOn(Below, Nat)
  BY NatLessThanWellFounded, <1>1
<1>3. \A m, n \in Nat : <<m, n>> \in Below <=> m < n
  OBVIOUS
<1> HIDE DEF Below
<1>4. PICK n \in S : \A m \in S : ~(<<m, n>> \in Below)
  BY <1>2, WFMin
<1>5. \A m \in S : ~(m < n)
  BY <1>3, <1>4
<1> QED
  BY <1>5

(* A set of classes has a least one, which find_list() takes.              *)
LEMMA LeastClass ==
  ASSUME NEW S \in SUBSET Classes, S # {}
  PROVE  \E c \in S : \A d \in S : AtLeast(d, c)
<1>1. \A c \in S : c[1] \in Nat /\ c[2] \in Nat
  BY DEF Classes
<1> DEFINE First == {c[1] : c \in S}
<1>2. First \in SUBSET Nat /\ First # {}
  BY <1>1
<1>3. PICK f \in First : \A g \in First : f <= g
  BY <1>2, LeastNumber
<1> DEFINE Second == {c[2] : c \in {e \in S : e[1] = f}}
<1>4. Second \in SUBSET Nat /\ Second # {}
  BY <1>1, <1>3
<1>5. PICK g \in Second : \A h \in Second : g <= h
  BY <1>4, LeastNumber
<1>6. PICK c \in S : c[1] = f /\ c[2] = g
  BY <1>5
<1>7. ASSUME NEW d \in S PROVE AtLeast(d, c)
  <2>1. f <= d[1] /\ (d[1] = f => g <= d[2])
    BY <1>3, <1>5
  <2> QED
    BY <1>1, <1>6, <2>1 DEF AtLeast
<1> QED
  BY <1>7

(* What is in front of the first aligned byte. *)
LEMMA PaddingIs ==
  ASSUME NEW offset \in Units, NEW a \in 0 .. 32
  PROVE  LET padding == AlignUp(offset, Power[a]) - offset IN
         padding \in Units /\ padding < Power[a] /\ (offset + padding) % Power[a] = 0 /\ (padding > 0 => padding >= MinSize)
<1> DEFINE p == Power[a]
           n == AlignUp(offset, p)
<1>1. a \in 0 .. 34 /\ LogMin \in 0 .. 34 /\ MinSize = Power[LogMin] /\ MinSize \in Nat /\ MinSize > 0
  <2>1. LogMin \in 1 .. 8
    BY CountsAre
  <2> HIDE DEF LogMin
  <2> QED
    BY <2>1, CountsAre
<1>2. p \in Nat /\ p > 0
  BY <1>1, PowerTyped
<1>3. offset \in Nat
  BY UnitsAre
<1> HIDE DEF p
<1>4. PICK q \in Nat : n = q * p
  BY <1>2, <1>3, AlignUpIs
<1>5. n \in Nat /\ offset <= n /\ n < offset + p
  BY <1>2, <1>3, AlignUpIs
<1> HIDE DEF n
<1>6. n % p = 0
  <2>1. n = q * p + 0 /\ 0 \in 0 .. p - 1
    BY <1>2, <1>4
  <2> QED
    BY <1>2, <2>1, Remainder
<1>7. n \in Units
  <2>1. CASE a <= LogMin
    <3>1. PICK k \in Nat : MinSize = k * p
      <4>1. Power[LogMin] = Power[LogMin - a] * Power[a] /\ Power[LogMin - a] \in Nat
        BY <1>1, <2>1, PowerAscends
      <4> QED
        BY <1>1, <4>1 DEF p
    <3>2. PICK m \in Nat : offset = m * MinSize
      BY DEF Units
    <3>3. offset = (m * k) * p /\ m * k \in Nat
      BY <1>2, <3>1, <3>2
    <3> DEFINE mk == m * k
    <3>4. mk \in Nat /\ offset = mk * p
      BY <3>3
    <3> HIDE DEF mk
    <3>5. q * p < (mk + 1) * p
      BY <1>2, <1>4, <1>5, <3>4
    <3>6. q < mk + 1
      BY <1>2, <3>4, <3>5
    <3>7. q * p <= mk * p
      BY <1>2, <3>4, <3>6
    <3>8. n = offset
      BY <1>3, <1>4, <1>5, <3>4, <3>7
    <3> QED
      BY <3>8
  <2>2. CASE LogMin < a
    <3>1. PICK k \in Nat : p = k * MinSize
      <4>1. Power[a] = Power[a - LogMin] * Power[LogMin] /\ Power[a - LogMin] \in Nat
        <5> DEFINE m == LogMin
        <5>1. m \in 0 .. 34 /\ m < a
          BY <1>1, <2>2
        <5> HIDE DEF m
        <5>2. m <= a
          BY <1>1, <5>1
        <5>3. Power[a] = Power[a - m] * Power[m] /\ Power[a - m] \in Nat
          BY <1>1, <5>1, <5>2, PowerAscends
        <5> QED
          BY <5>3 DEF m
      <4> QED
        BY <1>1, <4>1 DEF p
    <3>2. n = (q * k) * MinSize /\ q * k \in Nat
      BY <1>1, <1>4, <3>1
    <3> QED
      BY <3>2 DEF Units
  <2> QED
    BY <1>1, <2>1, <2>2
<1>8. n - offset \in Units /\ (offset < n => n - offset >= MinSize)
  BY <1>5, <1>7, UnitsAre
<1>9. offset + (n - offset) = n /\ n - offset < p /\ (n - offset > 0 => offset < n)
  BY <1>2, <1>3, <1>5
<1> QED
  BY <1>6, <1>8, <1>9 DEF n, p

(* A multiple of the minimum size that is large enough is so rounded up. *)
LEMMA RoundedIs ==
  ASSUME NEW size \in Nat, NEW n \in Units, size <= n
  PROVE  AlignUp(size, MinSize) \in Units /\ size <= AlignUp(size, MinSize) /\ AlignUp(size, MinSize) <= n
<1> DEFINE r == AlignUp(size, MinSize)
<1>1. MinSize \in Nat /\ MinSize > 0 /\ n \in Nat
  BY CountsAre, UnitsAre
<1>2. r \in Nat /\ size <= r /\ r < size + MinSize /\ \E q \in Nat : r = q * MinSize
  BY <1>1, AlignUpIs
<1> HIDE DEF r
<1>3. r \in Units
  BY <1>2 DEF Units
<1>4. ASSUME n < r PROVE FALSE
  <2>1. r - n >= MinSize
    BY <1>3, <1>4, UnitsAre
  <2> QED
    BY <1>1, <1>2, <2>1
<1> QED
  BY <1>1, <1>2, <1>3, <1>4 DEF r

(* A size of which the classes are as wide as the minimum size, or wider,  *)
(* is searched for by a multiple of it.                                    *)
LEMMA SearchInUnits ==
  ASSUME NEW worst \in MinSize .. WordSize, worst >= SlCount * MinSize
  PROVE  AlignUp(worst, Power[Log2[worst] - Log2[SlCount]]) \in Units
<1> DEFINE k == Log2[worst]
           d == Width(k)
           n == AlignUp(worst, d)
<1>1. worst \in MinSize .. 2 * WordSize
  BY CountsAre
<1>2. k \in LogMin .. 33 /\ worst \in Sizes
  BY <1>1, ClassIs
<1>3. worst < Power[k + 1]
  BY <1>2, LogIs
<1>4. \E q \in Nat : n = q * d
  BY SearchIs DEF Width, LogSl
<1> HIDE DEF n, k
<1>5. k \in LogMin .. 34 /\ k \in 0 .. 33 /\ k - LogSl \in 0 .. 34 /\ k \in Nat
  BY <1>2, CountsAre
<1>6. d \in Nat /\ d > 0 /\ Power[k] = SlCount * d /\ Power[k + 1] = 2 * Power[k]
  BY <1>5, WidthIs, PowerNext
<1>7. d >= MinSize
  <2> DEFINE m == LogMin
             l == LogSl
  <2>1. m \in 1 .. 8 /\ l \in 0 .. 5 /\ MinSize = Power[m] /\ SlCount = Power[l]
    BY CountsAre
  <2> HIDE DEF m, l
  <2>2. m \in 0 .. 34 /\ l \in 0 .. 34 /\ m + l \in 0 .. 34 /\ l <= m + l /\ (m + l) - l = m
    BY <2>1
  <2>3. Power[m + l] = MinSize * SlCount
    BY <2>1, <2>2, PowerAscends
  <2>4. m + l < k + 1
    <3> SUFFICES ASSUME k + 1 <= m + l PROVE FALSE
      BY <1>5, <2>1
    <3>1. Power[k + 1] <= Power[m + l]
      <4>1. k + 1 \in 0 .. 34
        BY <1>5
      <4> QED
        BY <2>2, <4>1, PowerAscends
    <3>2. MinSize \in Nat /\ SlCount \in Nat /\ worst \in Nat
      BY CountsAre
    <3>3. MinSize * SlCount = SlCount * MinSize /\ SlCount * MinSize \in Nat
      BY <3>2
    <3>4. k + 1 \in 0 .. 34
      BY <1>5
    <3>5. Power[k + 1] \in Nat
      BY <3>4, PowerTyped
    <3> QED
      BY <1>3, <2>3, <3>1, <3>2, <3>3, <3>5
  <2>5. k - l \in 0 .. 34 /\ m <= k - l /\ m \in 0 .. 34
    BY <1>5, <2>1, <2>4 DEF l
  <2>6. Power[m] <= Power[k - l]
    BY <2>5, PowerAscends
  <2> QED
    BY <2>1, <2>6 DEF d, Width, l
<1>8. d \in Units
  BY <1>5, <1>7, PowerInUnits DEF d, Width
<1>9. n \in Units
  <2>1. PICK q \in Nat, p \in Nat : n = q * d /\ d = p * MinSize
    BY <1>4, <1>8 DEF Units
  <2>2. MinSize \in Nat
    BY CountsAre
  <2>3. n = (q * p) * MinSize /\ q * p \in Nat
    BY <2>1, <2>2
  <2> QED
    BY <2>3 DEF Units
<1>10. n = AlignUp(worst, Power[Log2[worst] - Log2[SlCount]])
  BY DEF n, d, k, Width, LogSl
<1> QED
  BY <1>9, <1>10

-----------------------------------------------------------------------------
(* The bytes of the blocks. *)
BytesIn(S) == UNION {BytesOf(b) : b \in S}

(* Blocks that lie apart share no byte.                                    *)
LEMMA IntervalsApart ==
  ASSUME NEW a \in Nat, NEW n \in Nat, NEW b \in Nat, NEW m \in Nat, a + n <= b \/ b + m <= a
  PROVE  (a .. a + n - 1) \cap (b .. b + m - 1) = {}
OBVIOUS

(* A block has as many bytes as its size says.                             *)
LEMMA BytesAre ==
  ASSUME NEW b \in Block
  PROVE  IsFiniteSet(BytesOf(b)) /\ Cardinality(BytesOf(b)) = b.size
<1> DEFINE o == b.offset
           e == b.offset + b.size - 1
<1>1. b.offset \in Nat /\ b.size \in Nat
  BY DEF Block
<1>2. o \in Int /\ e \in Int /\ (o > e => b.size = 0) /\ (~(o > e) => e - o + 1 = b.size)
  BY <1>1
<1> HIDE DEF o, e
<1>3. IsFiniteSet(o .. e) /\ Cardinality(o .. e) = IF o > e THEN 0 ELSE e - o + 1
  BY <1>2, FS_Interval
<1>4. IsFiniteSet(o .. e) /\ Cardinality(o .. e) = b.size
  BY <1>2, <1>3
<1> QED
  BY <1>4 DEF BytesOf, o, e

(* Blocks of a pool share no byte.                                         *)
LEMMA BytesApart ==
  ASSUME NEW P, NEW total, Tiles(P, total), NEW b \in Members(P)
  PROVE  /\ b \in Block /\ b.size > 0 /\ BytesOf(b) \subseteq 0 .. total - 1
         /\ \A c \in Members(P) : c # b => BytesOf(b) \cap BytesOf(c) = {}
<1>1. P \in Seq(Block) /\ Len(P) \in Nat /\ total \in Nat /\ MinSize \in Nat /\ MinSize > 0
  BY TilesApart, CountsAre, SMTT(30) DEF Tiles
<1>2. PICK i \in 1 .. Len(P) : b = P[i]
  BY DEF Members
<1>3. b \in Block /\ b.offset \in Nat /\ b.size \in Nat
  BY <1>1, <1>2, BlockIs
<1>4. b.size > 0 /\ b.offset + b.size <= total
  <2>1. b.size >= MinSize
    BY <1>2 DEF Tiles
  <2>2. b.offset + b.size <= total
    BY <1>2, TilesApart
  <2> QED
    BY <1>1, <1>3, <2>1, <2>2
<1>5. ASSUME NEW c \in Members(P), c # b PROVE BytesOf(b) \cap BytesOf(c) = {}
  <2>1. PICK j \in 1 .. Len(P) : c = P[j]
    BY DEF Members
  <2>2. c \in Block /\ c.offset \in Nat /\ c.size \in Nat /\ i # j
    BY <1>1, <1>2, <1>5, <2>1, BlockIs
  <2>3. b.offset + b.size <= c.offset \/ c.offset + c.size <= b.offset
    <3>1. i < j \/ j < i
      BY <2>2
    <3> QED
      BY <1>2, <2>1, <3>1, TilesApart
  <2>4. b.offset \in Nat /\ b.size \in Nat /\ c.offset \in Nat /\ c.size \in Nat
    BY <1>3, <2>2
  <2> QED
    BY ONLY <2>3, <2>4, IntervalsApart DEF BytesOf
<1>6. BytesOf(b) \subseteq 0 .. total - 1
  BY <1>1, <1>3, <1>4 DEF BytesOf
<1> QED
  BY <1>3, <1>4, <1>5, <1>6

(* The bytes of several blocks add up.                                     *)
LEMMA BytesAdded ==
  ASSUME NEW P, NEW total, Tiles(P, total), NEW S \in SUBSET Members(P), NEW b \in Members(P), b \notin S
  PROVE  /\ IsFiniteSet(BytesIn(S)) /\ Cardinality(BytesIn(S)) \in Nat
         /\ Cardinality(BytesIn(S \cup {b})) = Cardinality(BytesIn(S)) + b.size
<1>1. BytesIn(S) \subseteq 0 .. total - 1 /\ total \in Int
  BY BytesApart, TilesApart DEF BytesIn
<1>2. IsFiniteSet(BytesIn(S)) /\ Cardinality(BytesIn(S)) \in Nat
  <2>1. IsFiniteSet(0 .. total - 1)
    BY <1>1, FS_Interval
  <2> QED
    BY <1>1, <2>1, FS_Subset, FS_CardinalityType
<1>3. b \in Block /\ BytesIn(S) \cap BytesOf(b) = {}
  BY BytesApart DEF BytesIn
<1>4. BytesIn(S \cup {b}) = BytesIn(S) \cup BytesOf(b)
  BY DEF BytesIn
<1>5. IsFiniteSet(BytesOf(b)) /\ Cardinality(BytesOf(b)) = b.size /\ b.size \in Nat
  BY <1>3, BytesAre DEF Block
<1>6. /\ Cardinality(BytesIn(S) \cup BytesOf(b))
           = Cardinality(BytesIn(S)) + Cardinality(BytesOf(b)) - Cardinality(BytesIn(S) \cap BytesOf(b))
  BY <1>2, <1>5, FS_Union
<1> DEFINE more == Cardinality(BytesIn(S) \cup BytesOf(b))
           less == Cardinality(BytesIn(S))
           shared == Cardinality(BytesIn(S) \cap BytesOf(b))
<1>7. shared = 0
  BY <1>3, FS_EmptySet
<1>8. more = less + b.size - shared
  BY <1>5, <1>6
<1>9. less \in Nat
  BY <1>2
<1> HIDE DEF more, less, shared
<1>10. more = less + b.size
  BY <1>5, <1>7, <1>8, <1>9
<1> QED
  BY <1>2, <1>4, <1>10 DEF more, less

-----------------------------------------------------------------------------
(* What holds of a pool between two calls. *)
Sound(pool, total) ==
  WellFormed(pool, total) /\ Coalesced(pool.phys) /\ pool.used = Cardinality(BytesIn(UsedIn(pool.phys)))

(* The sets of blocks that the properties speak of are those of the list.  *)
LEMMA BlocksAre ==
  ASSUME NEW pool, pool \in PoolType
  PROVE  /\ BlocksOf(pool) = Members(pool.phys) /\ FreeBlocks(pool) = FreeIn(pool.phys)
         /\ UsedBlocks(pool) = UsedIn(pool.phys) /\ UsedBytes(pool) = BytesIn(UsedIn(pool.phys))
         /\ pool.phys \in Seq(Block) /\ DOMAIN pool.phys = 1 .. Len(pool.phys) /\ Len(pool.phys) \in Nat
<1>1. pool.phys \in Seq(Block) /\ DOMAIN pool.phys = 1 .. Len(pool.phys) /\ Len(pool.phys) \in Nat
  BY DEF PoolType
<1> QED
  BY <1>1 DEF BlocksOf, FreeBlocks, UsedBlocks, UsedBytes, FreeIn, UsedIn, BytesIn, Members

(* Sound is stronger than what PoolsValid asks of a pool.                  *)
LEMMA SoundIsValid ==
  ASSUME NEW pool, NEW total, Sound(pool, total)
  PROVE  Valid(pool, total)
<1> DEFINE P == pool.phys
<1>1. pool \in PoolType /\ Tiles(P, total) /\ (\A c \in Classes : Linked(pool, c)) /\ Coalesced(P)
  BY DEF Sound, WellFormed
<1>2. DOMAIN P = 1 .. Len(P) /\ Len(P) \in Nat /\ P \in Seq(Block) /\ FreeBlocks(pool) = FreeIn(P) /\ UsedBytes(pool) = BytesIn(UsedIn(P))
  BY <1>1, BlocksAre
<1>3. Tiled(pool, total)
  <2>1. P # <<>> /\ P[1].offset = 0 /\ P[Len(P)].offset + P[Len(P)].size = total
    BY <1>1, <1>2 DEF Tiles
  <2>2. ASSUME NEW i \in 1 .. Len(P) PROVE
          /\ P[i].size >= MinSize /\ P[i].offset % MinSize = 0
          /\ i > 1 => P[i].offset = P[i - 1].offset + P[i - 1].size /\ ~(P[i].free /\ P[i - 1].free)
    <3>1. P[i].offset \in Units /\ P[i].size >= MinSize
      BY <1>1 DEF Tiles
    <3>2. P[i].offset \in Nat /\ P[i].offset % MinSize = 0
      BY <3>1, UnitsAre
    <3>3. ASSUME i > 1 PROVE i \in 2 .. Len(P)
      BY <1>2, <3>3
    <3> QED
      BY <1>1, <3>1, <3>2, <3>3 DEF Tiles, Coalesced
  <2> HIDE DEF P
  <2>3. \A i \in DOMAIN P :
          /\ P[i].size >= MinSize /\ P[i].offset % MinSize = 0
          /\ i > 1 => P[i].offset = P[i - 1].offset + P[i - 1].size /\ ~(P[i].free /\ P[i - 1].free)
    BY <1>2, <2>2
  <2> QED
    BY <2>1, <2>3 DEF Tiled, P
<1>4. ListsExact(pool)
  <2>1. pool.bits \subseteq Classes
    BY <1>1 DEF PoolType
  <2>2. pool.used = Cardinality(UsedBytes(pool))
    BY <1>2 DEF Sound
  <2> QED
    BY <1>1, <1>2, <2>1, <2>2 DEF ListsExact, Linked
<1> QED
  BY <1>3, <1>4 DEF Valid

(* A pool is empty when no block of it is in use. *)
LEMMA EmptyIs ==
  ASSUME NEW pool, NEW total, Sound(pool, total)
  PROVE  pool.used = 0 <=> UsedIn(pool.phys) = {}
<1> DEFINE P == pool.phys
           U == UsedIn(P)
<1>1. Tiles(P, total) /\ P \in Seq(Block)
  BY DEF Sound, WellFormed, Tiles
<1>2. U \in SUBSET Members(P)
  BY <1>1, InIs
<1>3. CASE U = {}
  <2>1. BytesIn(U) = {}
    BY <1>3 DEF BytesIn
  <2> QED
    BY <1>3, <2>1, FS_EmptySet DEF Sound
<1>4. CASE U # {}
  <2>1. PICK b \in U : TRUE
    BY <1>4
  <2> DEFINE S == U \ {b}
  <2>2. S \in SUBSET Members(P) /\ b \in Members(P) /\ b \notin S /\ S \cup {b} = U
    BY <1>2, <2>1
  <2> HIDE DEF U, S, P
  <2>3. Cardinality(BytesIn(S)) \in Nat /\ Cardinality(BytesIn(U)) = Cardinality(BytesIn(S)) + b.size
    BY <1>1, <2>2, BytesAdded
  <2>4. b.size > 0 /\ b.size \in Nat
    BY <1>1, <2>2, BytesApart DEF Block
  <2>5. pool.used = Cardinality(BytesIn(U))
    BY DEF Sound, U, P
  <2>6. pool.used > 0
    BY <2>3, <2>4, <2>5
  <2> QED
    BY <1>4, <2>3, <2>4, <2>5, <2>6 DEF U, P
<1> QED
  BY <1>3, <1>4

-----------------------------------------------------------------------------
(* Block `at' of the pool is taken, and the used blocks in U besides. *)
Reserved(U, pool, at, total) ==
  /\ WellFormed(pool, total) /\ Coalesced(pool.phys) /\ at \in 1 .. Len(pool.phys)
  /\ ~pool.phys[at].free
  /\ UsedIn(pool.phys) = U \cup {pool.phys[at]} /\ pool.phys[at] \notin U

NotFreeAfter(P, i) == i < Len(P) => ~P[i + 1].free
NotFreeBefore(P, i) == i > 1 => ~P[i - 1].free

(* The halves of a block are no blocks of the list that is cut. *)
LEMMA CutApart ==
  ASSUME NEW P, NEW Q, NEW i, NEW total, Tiles(P, total), IsCut(P, Q, i),
         Q[i].size >= MinSize, Q[i + 1].size >= MinSize, NEW k \in 1 .. Len(P), k # i
  PROVE  P[k] # Q[i] /\ P[k] # Q[i + 1]
<1>1. /\ P \in Seq(Block) /\ Q \in Seq(Block) /\ i \in 1 .. Len(P) /\ Len(P) \in Nat /\ Len(Q) = Len(P) + 1
      /\ MinSize \in Nat /\ MinSize > 0
  BY TilesApart, CountsAre DEF IsCut
<1>2. i \in 1 .. Len(Q) /\ i + 1 \in 1 .. Len(Q)
  BY <1>1
<1>3. Q[i].offset \in Nat /\ Q[i].size \in Nat /\ Q[i + 1].offset \in Nat /\ Q[i + 1].size \in Nat
  BY <1>1, <1>2, BlockIs
<1>4. P[i].offset \in Nat /\ P[i].size \in Nat /\ P[k].offset \in Nat /\ P[k].size \in Nat
  BY <1>1, BlockIs
<1>5. Q[i].offset = P[i].offset /\ Q[i + 1].offset = Q[i].offset + Q[i].size /\ P[i].size = Q[i].size + Q[i + 1].size
  BY DEF IsCut
<1>6. P[k].offset + P[k].size <= P[i].offset \/ P[i].offset + P[i].size <= P[k].offset
  <2>1. k < i \/ i < k
    BY <1>1
  <2> QED
    BY <1>1, <2>1, TilesApart
<1>7. P[k].offset # P[i].offset
  BY <1>1, TilesApart
<1>8. Q[i + 1].offset > P[i].offset /\ Q[i + 1].offset < P[i].offset + P[i].size
  <2> DEFINE o == Q[i].offset
             s == Q[i].size
             t == Q[i + 1].size
  <2>1. o \in Nat /\ s \in Nat /\ t \in Nat /\ s > 0 /\ t > 0
    <3>1. MinSize \in Nat /\ MinSize > 0 /\ s >= MinSize /\ t >= MinSize
      BY <1>1
    <3>2. o \in Nat /\ s \in Nat /\ t \in Nat
      BY <1>3
    <3> HIDE DEF o, s, t
    <3> QED
      BY <3>1, <3>2
  <2>2. Q[i + 1].offset = o + s /\ P[i].offset = o /\ P[i].size = s + t
    BY <1>5
  <2> HIDE DEF o, s, t
  <2> QED
    BY <2>1, <2>2
<1>9. P[k].size >= MinSize
  BY DEF Tiles
<1>10. P[k].offset # Q[i + 1].offset
  BY <1>1, <1>3, <1>4, <1>6, <1>8, <1>9, SMTT(30)
<1> QED
  BY <1>5, <1>7, <1>10

(* Both halves of a taken block. *)
LEMMA ReservedCut ==
  ASSUME NEW U, NEW pool, NEW at, NEW total, Reserved(U, pool, at, total),
         NEW size \in Units, size >= MinSize, size + MinSize <= pool.phys[at].size
  PROVE  LET Q == Cut(pool, at, size)
             first == Q.phys[at]
             second == Q.phys[at + 1]
         IN /\ WellFormed(Q, total) /\ Coalesced(Q.phys) /\ Q.used = pool.used
            /\ at \in 1 .. Len(Q.phys) /\ at + 1 \in 1 .. Len(Q.phys) /\ Len(Q.phys) = Len(pool.phys) + 1
            /\ UsedIn(Q.phys) = U \cup {first, second} /\ first \notin U /\ second \notin U /\ first # second
            /\ ~first.free /\ ~second.free
            /\ first.offset = pool.phys[at].offset /\ first.size = size
            /\ second.offset = pool.phys[at].offset + size /\ second.size = pool.phys[at].size - size
            /\ \A k \in 1 .. Len(pool.phys) : (k < at => Q.phys[k] = pool.phys[k]) /\ (k > at => Q.phys[k + 1] = pool.phys[k])
<1> DEFINE P == pool.phys
           Q == Cut(pool, at, size)
           R == Q.phys
<1>1. /\ WellFormed(pool, total) /\ Tiles(P, total) /\ P \in Seq(Block) /\ Coalesced(P) /\ at \in 1 .. Len(P) /\ ~P[at].free
      /\ UsedIn(P) = U \cup {P[at]} /\ P[at] \notin U /\ Len(P) \in Nat
  <2>1. Tiles(P, total)
    BY DEF Reserved, WellFormed
  <2>2. P \in Seq(Block) /\ Len(P) \in Nat
    BY <2>1, TilesApart DEF Tiles
  <2> QED
    BY <2>1, <2>2 DEF Reserved
<1>2. /\ WellFormed(Q, total) /\ IsCut(P, R, at) /\ Q.used = pool.used /\ R[at].size = size /\ Coalesced(R)
  BY <1>1, CutIs
<1> HIDE DEF Q
<1>3. /\ R \in Seq(Block) /\ Len(R) = Len(P) + 1 /\ at \in 1 .. Len(R) /\ at + 1 \in 1 .. Len(R)
      /\ at \in Nat
  BY <1>1, <1>2 DEF IsCut
<1>4. P[at].offset \in Nat /\ P[at].size \in Nat /\ size \in Nat /\ MinSize \in Nat /\ MinSize > 0
  <2>1. P[at].offset \in Nat /\ P[at].size \in Nat
    BY <1>1, BlockIs
  <2> QED
    BY <2>1, UnitsAre, CountsAre
<1>5. R[at + 1].size \in Nat /\ R[at].size \in Nat /\ R[at + 1].offset \in Nat /\ R[at].offset \in Nat
  BY <1>3, BlockIs
<1>6. /\ R[at].offset = P[at].offset /\ R[at + 1].offset = R[at].offset + R[at].size /\ P[at].size = R[at].size + R[at + 1].size
      /\ ~R[at].free /\ ~R[at + 1].free
      /\ \A k \in 1 .. Len(P) : (k < at => R[k] = P[k]) /\ (k > at => R[k + 1] = P[k])
  BY <1>2 DEF IsCut
<1>7. R[at + 1].offset = P[at].offset + size /\ R[at + 1].size = P[at].size - size /\ R[at + 1].size >= MinSize
  BY <1>2, <1>4, <1>5, <1>6
<1>8. UsedIn(R) = (UsedIn(P) \ {P[at]}) \cup {R[at], R[at + 1]}
  BY <1>1, <1>2, <1>7, CutTiles
<1>9. UsedIn(R) = U \cup {R[at], R[at + 1]}
  BY <1>1, <1>8
<1>10. ASSUME NEW u \in U PROVE u # R[at] /\ u # R[at + 1]
  <2>1. u \in UsedIn(P) /\ u # P[at]
    BY <1>1
  <2>2. u \in Members(P)
    BY <1>1, <2>1, InIs
  <2>3. PICK k \in 1 .. Len(P) : u = P[k]
    BY <2>2 DEF Members
  <2>4. k # at
    BY <2>1, <2>3
  <2> HIDE DEF R, P
  <2>5. P[k] # R[at] /\ P[k] # R[at + 1]
    BY <1>1, <1>2, <1>7, <2>3, <2>4, CutApart
  <2> QED
    BY <2>3, <2>5
<1>11. R[at].offset # R[at + 1].offset
  BY <1>2, <1>4, <1>5, <1>6
<1> QED
  BY <1>2, <1>3, <1>6, <1>7, <1>9, <1>10, <1>11 DEF Q

(* The first half becomes free again. *)
LEMMA FrontFreed ==
  ASSUME NEW U, NEW pool, NEW at, NEW total, Reserved(U, pool, at, total),
         NEW size \in Units, size >= MinSize, size + MinSize <= pool.phys[at].size,
         NotFreeBefore(pool.phys, at), NotFreeAfter(pool.phys, at)
  PROVE  LET Q == LinkBlock(Cut(pool, at, size), at) IN
         /\ Reserved(U, Q, at + 1, total) /\ Q.used = pool.used /\ NotFreeAfter(Q.phys, at + 1)
         /\ Q.phys[at + 1].offset = pool.phys[at].offset + size /\ Q.phys[at + 1].size = pool.phys[at].size - size
<1> DEFINE P == pool.phys
           C == Cut(pool, at, size)
           S == C.phys
           Q == LinkBlock(C, at)
           R == Q.phys
<1>1. /\ WellFormed(C, total) /\ Coalesced(S) /\ C.used = pool.used
      /\ at \in 1 .. Len(S) /\ at + 1 \in 1 .. Len(S) /\ Len(S) = Len(P) + 1
      /\ UsedIn(S) = U \cup {S[at], S[at + 1]} /\ S[at] \notin U /\ S[at + 1] \notin U /\ S[at] # S[at + 1]
      /\ ~S[at].free /\ ~S[at + 1].free
      /\ S[at + 1].offset = P[at].offset + size /\ S[at + 1].size = P[at].size - size
      /\ \A k \in 1 .. Len(P) : (k < at => S[k] = P[k]) /\ (k > at => S[k + 1] = P[k])
  BY ReservedCut
<1> HIDE DEF C
<1>2. WellFormed(Q, total) /\ IsMarked(S, R, at) /\ Q.used = C.used /\ R[at].free
  BY <1>1, LinkIs
<1>3. Tiles(S, total) /\ Len(P) \in Nat /\ at \in 1 .. Len(P) /\ Len(S) \in Nat
  <2>1. Tiles(S, total) /\ Tiles(P, total) /\ at \in 1 .. Len(P)
    BY <1>1 DEF WellFormed, Reserved
  <2> QED
    BY <2>1, TilesApart
<1> HIDE DEF Q
<1>4. UsedIn(R) = UsedIn(S) \ {S[at]}
  BY <1>1, <1>2, <1>3, MarkedTiles
<1>5. Coalesced(R)
  <2>1. at > 1 => ~S[at - 1].free
    <3> SUFFICES ASSUME at > 1 PROVE ~S[at - 1].free
      OBVIOUS
    <3>1. at - 1 \in 1 .. Len(P) /\ at - 1 < at
      BY <1>3
    <3> QED
      BY <1>1, <3>1 DEF NotFreeBefore
  <2>2. at < Len(S) => ~S[at + 1].free
    BY <1>1
  <2> QED
    BY <1>1, <1>2, <1>3, <2>1, <2>2, MarkedTiles
<1>6. Len(R) = Len(S) /\ \A k \in 1 .. Len(S) : k # at => R[k] = S[k]
  BY <1>2 DEF IsMarked
<1>7. R[at + 1] = S[at + 1]
  BY <1>1, <1>3, <1>6
<1>8. UsedIn(R) = U \cup {R[at + 1]} /\ R[at + 1] \notin U
  BY <1>1, <1>4, <1>7
<1>9. NotFreeAfter(R, at + 1)
  <2> SUFFICES ASSUME at + 1 < Len(R) PROVE ~R[(at + 1) + 1].free
    BY DEF NotFreeAfter
  <2>1. at < Len(P) /\ at + 1 \in 1 .. Len(P) /\ at + 1 > at /\ (at + 1) + 1 \in 1 .. Len(S) /\ (at + 1) + 1 # at
    BY <1>1, <1>3, <1>6
  <2>2. R[(at + 1) + 1] = S[(at + 1) + 1] /\ S[(at + 1) + 1] = P[at + 1]
    BY <1>1, <1>6, <2>1
  <2> QED
    BY <2>1, <2>2 DEF NotFreeAfter
<1>10. Reserved(U, Q, at + 1, total)
  BY <1>1, <1>2, <1>5, <1>6, <1>7, <1>8 DEF Reserved
<1> QED
  BY <1>1, <1>2, <1>7, <1>9, <1>10 DEF Q, C

(* The second half becomes free again. *)
LEMMA BackFreed ==
  ASSUME NEW U, NEW pool, NEW at, NEW total, Reserved(U, pool, at, total),
         NEW size \in Units, size >= MinSize, size + MinSize <= pool.phys[at].size,
         NotFreeAfter(pool.phys, at)
  PROVE  LET Q == LinkBlock(Cut(pool, at, size), at + 1) IN
         /\ Reserved(U, Q, at, total) /\ Q.used = pool.used
         /\ Q.phys[at].offset = pool.phys[at].offset /\ Q.phys[at].size = size
<1> DEFINE P == pool.phys
           C == Cut(pool, at, size)
           S == C.phys
           n == at + 1
           Q == LinkBlock(C, n)
           R == Q.phys
<1>1. /\ WellFormed(C, total) /\ Coalesced(S) /\ C.used = pool.used
      /\ at \in 1 .. Len(S) /\ n \in 1 .. Len(S) /\ Len(S) = Len(P) + 1
      /\ UsedIn(S) = U \cup {S[at], S[n]} /\ S[at] \notin U /\ S[n] \notin U /\ S[at] # S[n]
      /\ ~S[at].free /\ ~S[n].free
      /\ S[at].offset = P[at].offset /\ S[at].size = size
      /\ \A k \in 1 .. Len(P) : (k < at => S[k] = P[k]) /\ (k > at => S[k + 1] = P[k])
  BY ReservedCut
<1>2. Tiles(S, total) /\ Len(P) \in Nat /\ at \in 1 .. Len(P) /\ Len(S) \in Nat
  <2> HIDE DEF C
  <2>1. Tiles(S, total) /\ Tiles(P, total) /\ at \in 1 .. Len(P)
    BY <1>1 DEF WellFormed, Reserved
  <2> QED
    BY <2>1, TilesApart
<1>3. n \in Nat /\ n = at + 1 /\ n - 1 = at
  BY <1>2
<1> HIDE DEF C, n
<1>4. WellFormed(Q, total) /\ IsMarked(S, R, n) /\ Q.used = C.used /\ R[n].free
  BY <1>1, LinkIs
<1> HIDE DEF Q
<1>5. UsedIn(R) = UsedIn(S) \ {S[n]}
  BY <1>1, <1>2, <1>4, MarkedTiles
<1>6. Coalesced(R)
  <2>1. n > 1 => ~S[n - 1].free
    BY <1>1, <1>3
  <2>2. n < Len(S) => ~S[n + 1].free
    <3> SUFFICES ASSUME n < Len(S) PROVE ~S[n + 1].free
      OBVIOUS
    <3>1. at < Len(P) /\ n \in 1 .. Len(P) /\ n > at
      BY <1>1, <1>2, <1>3
    <3>2. S[n + 1] = P[n]
      BY <1>1, <3>1
    <3> QED
      BY <1>3, <3>1, <3>2 DEF NotFreeAfter
  <2> QED
    BY <1>1, <1>2, <1>4, <2>1, <2>2, MarkedTiles
<1>7. Len(R) = Len(S) /\ \A k \in 1 .. Len(S) : k # n => R[k] = S[k]
  BY <1>4 DEF IsMarked
<1>8. R[at] = S[at]
  BY <1>1, <1>2, <1>3, <1>7
<1>9. UsedIn(R) = U \cup {R[at]} /\ R[at] \notin U
  BY <1>1, <1>5, <1>8
<1>10. Reserved(U, Q, at, total)
  BY <1>1, <1>4, <1>6, <1>7, <1>8, <1>9 DEF Reserved
<1> QED
  BY <1>1, <1>4, <1>8, <1>10 DEF Q, C, n

(* What is known of a block that an operation has to itself.               *)
LEMMA ReservedIs ==
  ASSUME NEW U, NEW pool, NEW at, NEW total, Reserved(U, pool, at, total)
  PROVE  /\ pool.phys[at].offset \in Units /\ pool.phys[at].offset \in Nat
         /\ pool.phys[at].size \in MinSize .. WordSize - 1
         /\ at \in 1 .. Len(pool.phys) /\ Len(pool.phys) \in Nat /\ pool.phys \in Seq(Block)
<1>1. Tiles(pool.phys, total) /\ total < WordSize /\ at \in 1 .. Len(pool.phys)
  BY DEF Reserved, WellFormed
<1>2. pool.phys[at].offset \in Units /\ Len(pool.phys) \in Nat
  BY <1>1, TilesApart
<1>3. pool.phys \in Seq(Block)
  BY <1>1 DEF Tiles
<1>4. pool.phys[at].size \in MinSize .. WordSize - 1
  BY <1>1, ClassOfBlock
<1> QED
  BY <1>1, <1>2, <1>3, <1>4, UnitsAre

(* With d a minimum size, rest what it leaves of a pool, and q the size    *)
(* rounded up: the size fits in w of them and the rest, and so does q.     *)
LEMMA RestFits ==
  ASSUME NEW d \in Nat, d > 0, NEW q \in Nat, NEW w \in Int, NEW rest \in Nat, NEW size \in Nat,
         size <= w * d + rest, q * d - size + rest < d
  PROVE  q * d <= w * d + rest
<1> DEFINE k == q - w
           qd == q * d
           wd == w * d
<1>1. k \in Int /\ k * d = qd - wd /\ qd \in Int /\ wd \in Int
  OBVIOUS
<1> HIDE DEF k
<1>2. k * d < d
  <2> HIDE DEF qd, wd
  <2>1. size <= wd + rest /\ qd - size + rest < d
    BY Zenon DEF qd, wd
  <2> QED
    BY <1>1, <2>1
<1>3. k < 1
  <2> SUFFICES ASSUME k >= 1 PROVE FALSE
    BY <1>1
  <2>1. k * d >= d
    BY <1>1
  <2> QED
    BY <1>1, <1>2, <2>1
<1>4. k * d <= 0
  <2>1. k <= 0
    BY <1>1, <1>3
  <2> QED
    BY <1>1, <2>1
<1>5. qd <= wd
  <2> HIDE DEF qd, wd
  <2> QED
    BY <1>1, <1>4
<1> QED
  BY <1>1, <1>5

(* A block is a multiple of the minimum size or, as the last of its pool,  *)
(* one with the rest of it; so a size that fits still does when it is      *)
(* rounded up, if rounding adds few bytes.                                 *)
LEMMA RoundedFits ==
  ASSUME NEW U, NEW pool, NEW at, NEW total, Reserved(U, pool, at, total),
         NEW size \in Nat, size <= pool.phys[at].size,
         AlignUp(size, MinSize) - size + (total % MinSize) < MinSize
  PROVE  AlignUp(size, MinSize) <= pool.phys[at].size
<1> DEFINE P == pool.phys
           offset == P[at].offset
           whole == P[at].size
           n == AlignUp(size, MinSize)
           rest == total % MinSize
<1>1. /\ offset \in Units /\ offset \in Nat /\ whole \in Nat /\ at \in 1 .. Len(P) /\ Len(P) \in Nat
      /\ MinSize \in Nat /\ MinSize > 0
  <2>1. whole \in MinSize .. WordSize - 1 /\ MinSize \in Nat /\ WordSize \in Nat /\ MinSize > 0
    BY ReservedIs, CountsAre
  <2> HIDE DEF whole
  <2>2. whole \in Nat
    BY <2>1
  <2> QED
    BY <2>1, <2>2, ReservedIs
<1>2. Tiles(P, total) /\ total \in Nat
  <2>1. Tiles(P, total)
    BY DEF Reserved, WellFormed
  <2> QED
    BY <2>1, TilesApart
<1>3. CASE at < Len(P)
  <2>1. at + 1 \in 1 .. Len(P) /\ at + 1 \in 2 .. Len(P) /\ (at + 1) - 1 = at
    BY <1>1, <1>3
  <2>2. P[at + 1].offset = offset + whole /\ P[at + 1].offset \in Units
    BY <1>2, <2>1 DEF Tiles
  <2> DEFINE next == P[at + 1].offset
  <2>3. next \in Nat /\ next = offset + whole /\ next \in Units
    BY <2>2, UnitsAre
  <2> HIDE DEF next, offset, whole
  <2>4. whole = next - offset /\ offset <= next
    BY <1>1, <2>3
  <2>5. whole \in Units
    BY <1>1, <2>3, <2>4, UnitsAre
  <2> QED
    BY <2>5, RoundedIs DEF whole
<1>4. CASE at = Len(P)
  <2>1. offset + whole = total
    BY <1>2, <1>4 DEF Tiles
  <2>2. n \in Nat /\ size <= n /\ n < size + MinSize /\ \E q \in Nat : n = q * MinSize
    BY <1>1, AlignUpIs
  <2>3. PICK q \in Nat : n = q * MinSize
    BY <2>2
  <2>4. PICK p \in Nat : offset = p * MinSize
    BY <1>1 DEF Units
  <2> DEFINE t == total \div MinSize
  <2>5. rest \in 0 .. MinSize - 1 /\ t \in Nat /\ total = t * MinSize + rest
    BY <1>1, <1>2
  <2>6. n - size + rest < MinSize
    BY Zenon
  <2>7. size <= whole
    BY Zenon
  <2> HIDE DEF t, rest, n, whole, offset, P
  <2> DEFINE w == t - p
  <2>8. w \in Int /\ whole = w * MinSize + rest
    BY <1>1, <2>1, <2>4, <2>5
  <2>9. size <= w * MinSize + rest /\ q * MinSize - size + rest < MinSize /\ rest \in Nat
    BY <2>3, <2>5, <2>6, <2>7, <2>8
  <2> HIDE DEF w
  <2>10. q * MinSize <= w * MinSize + rest
    BY <1>1, <2>8, <2>9, RestFits
  <2>11. n <= whole
    BY <2>3, <2>8, <2>10
  <2> QED
    BY <2>11 DEF n, whole, P
<1> QED
  BY <1>1, <1>3, <1>4

(* Block i and, in r, the aligned part of it that is still taken. *)
Aligned(U, pool, i, r, size, alignment, total) ==
  LET block == r.pool.phys[r.at] IN
  /\ Reserved(U, r.pool, r.at, total) /\ r.pool.used = pool.used /\ NotFreeAfter(r.pool.phys, r.at)
  /\ block.offset % alignment = 0 /\ block.size >= size /\ pool.phys[i].offset <= block.offset
  /\ block.offset + block.size = pool.phys[i].offset + pool.phys[i].size
  /\ IF MinSize <= alignment THEN size + MinSize - 1 <= block.size ELSE r.pool = pool /\ r.at = i

(* align_block() gives the bytes below the alignment back as a free block. *)
LEMMA AlignIs ==
  ASSUME NEW U, NEW pool, NEW at, NEW total, Reserved(U, pool, at, total),
         NotFreeBefore(pool.phys, at), NotFreeAfter(pool.phys, at), NEW a \in 0 .. 32,
         NEW size \in Nat, size >= MinSize, size + Power[a] - 1 <= pool.phys[at].size
  PROVE  Aligned(U, pool, at, AlignBlock(pool, at, Power[a]), size, Power[a], total)
<1> DEFINE offset == pool.phys[at].offset
           whole == pool.phys[at].size
           power == Power[a]
           padding == AlignUp(offset, power) - offset
           r == AlignBlock(pool, at, power)
           block == r.pool.phys[r.at]
<1>1. offset \in Units /\ offset \in Nat /\ whole \in Nat /\ MinSize \in Nat /\ MinSize > 0
  <2>1. whole \in MinSize .. WordSize - 1 /\ MinSize \in Nat /\ WordSize \in Nat /\ MinSize > 0
    BY ReservedIs, CountsAre
  <2> HIDE DEF whole
  <2>2. whole \in Nat
    BY <2>1
  <2> QED
    BY <2>1, <2>2, ReservedIs
<1>2. padding \in Units /\ padding < power /\ (offset + padding) % power = 0 /\ (padding > 0 => padding >= MinSize)
  BY <1>1, PaddingIs
<1>3. power \in Nat /\ power > 0 /\ padding \in Nat
  <2>1. a \in 0 .. 34
    OBVIOUS
  <2> QED
    BY <1>2, <2>1, PowerTyped, UnitsAre
<1>4. AlignBlock(pool, at, power) = IF padding = 0 THEN [pool |-> pool, at |-> at]
                     ELSE [pool |-> LinkBlock(Cut(pool, at, padding), at), at |-> at + 1]
  BY DEF AlignBlock
<1> HIDE DEF padding, r, power
<1>7. MinSize <= power => padding + MinSize <= power
  <2> SUFFICES ASSUME MinSize <= power PROVE padding + MinSize <= power
    OBVIOUS
  <2>1. power \in Units
    <3>1. a \in 0 .. 34
      OBVIOUS
    <3> QED
      BY <3>1, PowerInUnits DEF power
  <2>2. power - padding >= MinSize
    BY <1>2, <2>1, UnitsAre
  <2> QED
    BY <1>1, <1>3, <2>2
<1>8. size + power - 1 <= whole /\ MinSize <= size
  BY DEF power
<1>9. MinSize <= power => size + MinSize - 1 <= whole - padding
  <2> HIDE DEF whole
  <2> QED
    BY <1>1, <1>3, <1>7, <1>8
<1>10. padding # 0 => MinSize <= power
  <2> SUFFICES ASSUME padding # 0 PROVE MinSize <= power
    OBVIOUS
  <2> QED
    BY <1>1, <1>2, <1>3
<1>5. CASE padding = 0
  <2>1. r.pool = pool /\ r.at = at
    BY <1>4, <1>5 DEF r
  <2>2. offset % power = 0
    BY <1>1, <1>2, <1>5
  <2>3. whole >= size
    BY <1>1, <1>3 DEF power
  <2>4. MinSize <= power => size + MinSize - 1 <= whole
    <3> HIDE DEF whole
    <3> QED
      BY <1>1, <1>5, <1>9
  <2> QED
    BY <1>1, <2>1, <2>2, <2>3, <2>4 DEF power, r, Aligned
<1>6. CASE padding # 0
  <2>1. r.pool = LinkBlock(Cut(pool, at, padding), at) /\ r.at = at + 1
    BY <1>4, <1>6 DEF r
  <2>2. padding >= MinSize
    BY <1>2, <1>3, <1>6
  <2>3. padding + size <= whole /\ padding + MinSize <= whole
    <3>1. size + power - 1 <= whole
      BY DEF power
    <3>2. MinSize <= size
      OBVIOUS
    <3>3. padding < power /\ padding \in Nat /\ power \in Nat /\ MinSize \in Nat /\ whole \in Nat
      BY <1>1, <1>2, <1>3
    <3> HIDE DEF whole
    <3> QED
      BY <3>1, <3>2, <3>3
  <2>4. /\ Reserved(U, r.pool, r.at, total) /\ r.pool.used = pool.used /\ NotFreeAfter(r.pool.phys, r.at)
        /\ block.offset = offset + padding /\ block.size = whole - padding
    BY <1>2, <2>1, <2>2, <2>3, FrontFreed
  <2> HIDE DEF block, offset, whole
  <2>5. /\ block.offset % power = 0 /\ block.size >= size /\ offset <= block.offset
        /\ block.offset + block.size = offset + whole
    BY <1>1, <1>2, <1>3, <2>3, <2>4
  <2>6. MinSize <= power /\ size + MinSize - 1 <= block.size
    BY <1>6, <1>9, <1>10, <2>4
  <2> QED
    BY <2>4, <2>5, <2>6 DEF block, offset, whole, power, r, Aligned
<1> QED
  BY <1>5, <1>6

(* split_block() gives the bytes above the size back, if they make a       *)
(* block.                                                                  *)
LEMMA SplitIs ==
  ASSUME NEW U, NEW pool, NEW at, NEW total, Reserved(U, pool, at, total), NotFreeAfter(pool.phys, at),
         NEW size \in Nat, size >= MinSize, AlignUp(size, MinSize) <= pool.phys[at].size
  PROVE  LET Q == SplitBlock(pool, at, size)
             block == Q.phys[at]
         IN /\ Reserved(U, Q, at, total) /\ Q.used = pool.used
            /\ block.offset = pool.phys[at].offset /\ block.size < AlignUp(size, MinSize) + MinSize
            /\ size <= block.size /\ block.size <= pool.phys[at].size
<1> DEFINE whole == pool.phys[at].size
           aligned == AlignUp(size, MinSize)
           Q == SplitBlock(pool, at, size)
<1>1. whole \in Nat /\ whole \in 0 .. WordSize - 1 /\ MinSize \in Nat /\ MinSize > 0 /\ WordSize \in Nat
  <2>1. whole \in MinSize .. WordSize - 1
    BY ReservedIs
  <2>2. MinSize \in Nat /\ MinSize > 0 /\ WordSize \in Nat
    BY CountsAre
  <2> HIDE DEF whole
  <2> QED
    BY <2>1, <2>2
<1>2. aligned \in Units /\ size <= aligned /\ aligned <= whole
  <2>1. size <= aligned /\ \E q \in Nat : aligned = q * MinSize
    BY <1>1, AlignUpIs
  <2> QED
    BY <2>1 DEF Units
<1>3. aligned \in Nat
  BY <1>2, UnitsAre
<1> HIDE DEF aligned, whole
<1>4. (whole - aligned) % WordSize = whole - aligned
  <2> DEFINE n == whole - aligned
  <2>1. n \in 0 .. WordSize - 1 /\ n = 0 * WordSize + n /\ WordSize > 0
    BY <1>1, <1>2, <1>3
  <2> HIDE DEF n
  <2>2. n % WordSize = n
    BY <1>1, <2>1, Remainder
  <2> QED
    BY <2>2 DEF n
<1>5. Q = IF whole - aligned < MinSize THEN pool ELSE LinkBlock(Cut(pool, at, aligned), at + 1)
  BY <1>4 DEF SplitBlock, whole, aligned
<1> HIDE DEF Q
<1>6. CASE whole - aligned < MinSize
  <2>1. whole < aligned + MinSize /\ size <= whole /\ whole <= whole
    BY <1>1, <1>2, <1>3, <1>6
  <2> QED
    BY <1>5, <1>6, <2>1 DEF Q, whole, aligned
<1>7. CASE ~(whole - aligned < MinSize)
  <2>1. aligned + MinSize <= whole /\ aligned >= MinSize /\ aligned < aligned + MinSize
    BY <1>1, <1>2, <1>3, <1>7
  <2>2. Q = LinkBlock(Cut(pool, at, aligned), at + 1)
    BY <1>5, <1>7
  <2>3. aligned + MinSize <= pool.phys[at].size
    BY <2>1 DEF whole
  <2>4. Reserved(U, Q, at, total) /\ Q.used = pool.used /\ Q.phys[at].offset = pool.phys[at].offset /\ Q.phys[at].size = aligned
    BY <1>2, <2>1, <2>2, <2>3, BackFreed
  <2> QED
    BY <1>2, <2>1, <2>4 DEF Q, whole, aligned
<1> QED
  BY <1>6, <1>7

(* A block is found by its offset.                                         *)
LEMMA IndexIs ==
  ASSUME NEW pool, NEW total, WellFormed(pool, total), NEW i \in 1 .. Len(pool.phys)
  PROVE  IndexOf(pool, pool.phys[i].offset) = i
<1>1. Tiles(pool.phys, total) /\ DOMAIN pool.phys = 1 .. Len(pool.phys)
  BY BlocksAre DEF WellFormed
<1>2. \A j \in 1 .. Len(pool.phys) : pool.phys[j].offset = pool.phys[i].offset => j = i
  BY <1>1, TilesApart
<1> QED
  BY <1>1, <1>2 DEF IndexOf

(* A free block is taken. *)
LEMMA UnlinkReserves ==
  ASSUME NEW pool, NEW total, WellFormed(pool, total), Coalesced(pool.phys),
         NEW i \in 1 .. Len(pool.phys), pool.phys[i].free
  PROVE  LET Q == UnlinkBlock(pool, i) IN
         /\ Reserved(UsedIn(pool.phys), Q, i, total) /\ Q.used = pool.used
         /\ NotFreeBefore(Q.phys, i) /\ NotFreeAfter(Q.phys, i)
         /\ Q.phys[i].offset = pool.phys[i].offset /\ Q.phys[i].size = pool.phys[i].size
         /\ Len(Q.phys) = Len(pool.phys) /\ \A k \in 1 .. Len(pool.phys) : k # i => Q.phys[k] = pool.phys[k]
<1> DEFINE P == pool.phys
           Q == UnlinkBlock(pool, i)
           R == Q.phys
<1>1. Tiles(P, total) /\ P \in Seq(Block) /\ Len(P) \in Nat /\ i \in Nat
  <2>1. Tiles(P, total)
    BY DEF WellFormed
  <2> QED
    BY <2>1, TilesApart DEF Tiles
<1>2. WellFormed(Q, total) /\ IsMarked(P, R, i) /\ Q.used = pool.used /\ ~R[i].free
  BY UnlinkIs
<1> HIDE DEF Q
<1>3. UsedIn(R) = UsedIn(P) \cup {R[i]} /\ Coalesced(R)
  BY <1>1, <1>2, MarkedTiles
<1>4. /\ Len(R) = Len(P) /\ R[i].offset = P[i].offset /\ R[i].size = P[i].size
      /\ \A k \in 1 .. Len(P) : k # i => R[k] = P[k]
  BY <1>2 DEF IsMarked
<1>5. R[i] \notin UsedIn(P)
  <2> SUFFICES ASSUME NEW k \in 1 .. Len(P), ~P[k].free, P[k] = R[i] PROVE FALSE
    BY <1>1 DEF UsedIn
  <2>1. k = i
    BY <1>1, <1>4, TilesApart
  <2> QED
    BY <2>1
<1>6. NotFreeBefore(R, i)
  <2> SUFFICES ASSUME i > 1 PROVE ~R[i - 1].free
    BY DEF NotFreeBefore
  <2>1. i \in 2 .. Len(P) /\ i - 1 \in 1 .. Len(P) /\ i - 1 # i
    BY <1>1
  <2> QED
    BY <1>4, <2>1 DEF Coalesced
<1>7. NotFreeAfter(R, i)
  <2> SUFFICES ASSUME i < Len(P) PROVE ~R[i + 1].free
    BY <1>4 DEF NotFreeAfter
  <2>1. i + 1 \in 2 .. Len(P) /\ i + 1 \in 1 .. Len(P) /\ i + 1 # i /\ (i + 1) - 1 = i
    BY <1>1
  <2>2. ~(P[i + 1].free /\ P[(i + 1) - 1].free)
    BY <2>1 DEF Coalesced
  <2> QED
    BY <1>4, <2>1, <2>2
<1> QED
  BY <1>2, <1>3, <1>4, <1>5, <1>6, <1>7 DEF Reserved, Q

(* The size classes of the free blocks are those that are marked. *)
LEMMA FreeIsMarked ==
  ASSUME NEW pool, NEW total, WellFormed(pool, total)
  PROVE  /\ pool.bits \in SUBSET Classes
         /\ \A b \in FreeIn(pool.phys) : b.size \in MinSize .. WordSize - 1 /\ SizeClass(b.size) \in pool.bits
         /\ \A c \in pool.bits : \E i \in 1 .. Len(pool.phys) :
              /\ IndexOf(pool, Head(pool.lists[c])) = i /\ pool.phys[i].free /\ SizeClass(pool.phys[i].size) = c
<1> DEFINE P == pool.phys
<1>1. /\ Tiles(P, total) /\ pool.bits \in SUBSET Classes /\ (\A c \in Classes : Linked(pool, c) /\ pool.lists[c] \in Seq(Nat))
      /\ DOMAIN P = 1 .. Len(P) /\ P \in Seq(Block) /\ total < WordSize
  BY BlocksAre DEF WellFormed, PoolType
<1>2. ASSUME NEW b \in FreeIn(P) PROVE b.size \in MinSize .. WordSize - 1 /\ SizeClass(b.size) \in pool.bits
  <2>1. PICK i \in 1 .. Len(P) : b = P[i]
    BY <1>1 DEF FreeIn
  <2>2. b.size \in MinSize .. WordSize - 1 /\ SizeClass(b.size) \in Classes
    BY <1>1, <2>1, ClassOfBlock
  <2> DEFINE c == SizeClass(b.size)
  <2>3. b.offset \in ToSet(pool.lists[c])
    BY <1>1, <2>2 DEF Linked
  <2>4. pool.lists[c] # <<>>
    BY <2>3 DEF ToSet
  <2> QED
    BY <1>1, <2>2, <2>4 DEF Linked
<1>3. ASSUME NEW c \in pool.bits
      PROVE  \E i \in 1 .. Len(P) : IndexOf(pool, Head(pool.lists[c])) = i /\ P[i].free /\ SizeClass(P[i].size) = c
  <2> DEFINE s == pool.lists[c]
  <2>1. s \in Seq(Nat) /\ s # <<>> /\ ToSet(s) = {b.offset : b \in {f \in FreeIn(P) : SizeClass(f.size) = c}}
    BY <1>1 DEF Linked
  <2>2. Head(s) \in ToSet(s)
    <3> HIDE DEF s
    <3>1. Head(s) = s[1] /\ 1 \in DOMAIN s
      BY <2>1
    <3> QED
      BY <3>1 DEF ToSet
  <2>3. PICK b \in FreeIn(P) : b.offset = Head(s) /\ SizeClass(b.size) = c
    BY <2>1, <2>2
  <2>4. PICK i \in 1 .. Len(P) : P[i] = b
    BY <1>1 DEF FreeIn
  <2>5. IndexOf(pool, Head(s)) = i
    BY <2>3, <2>4, IndexIs
  <2>6. P[i].free
    BY <2>4 DEF FreeIn
  <2> QED
    BY <2>3, <2>4, <2>5, <2>6
<1> QED
  BY <1>1, <1>2, <1>3

(* What allocate() promises about the pool and the offset that it returns. *)
Given(pool, found, size, alignment, total) ==
  /\ Sound(found.pool, total)
  /\ \E c \in Members(found.pool.phys) :
       /\ c.offset = found.offset /\ ~c.free
       /\ UsedIn(found.pool.phys) = UsedIn(pool.phys) \cup {c} /\ c \notin UsedIn(pool.phys)
       /\ c.offset % alignment = 0 /\ c.size < AlignUp(size, MinSize) + MinSize /\ size <= c.size
       /\ \E b \in FreeIn(pool.phys) : b.offset <= c.offset /\ c.offset + c.size <= b.offset + b.size

AtLeastMin(request) == IF request < MinSize THEN MinSize ELSE request

(* allocate() takes nothing if no list of the class of the search is       *)
(* there, and otherwise a block that was free, aligned and no larger than  *)
(* asked by a minimum size.                                                *)
LEMMA AllocateIs ==
  ASSUME NEW pool, NEW total, Sound(pool, total), NEW request \in Nat, NEW a \in 0 .. 32,
         AtLeastMin(request) + Power[a] - 1 <= WordSize, RoundingFits(total, AtLeastMin(request), Power[a])
  PROVE  LET size == AtLeastMin(request)
             found == Allocate(pool, request, Power[a])
         IN \/ found = NoBlock /\ \A b \in FreeIn(pool.phys) : b.size < SearchSize(size, Power[a])
            \/ found # NoBlock /\ Given(pool, found, size, Power[a], total)
<1> DEFINE P == pool.phys
           size == AtLeastMin(request)
           power == Power[a]
           worst == size + power - 1
           n == SearchSize(size, power)
           wanted == SizeClass(n)
           classes == {c \in pool.bits : AtLeast(c, wanted)}
           found == Allocate(pool, request, power)
<1>1. size \in Nat /\ size >= MinSize /\ power \in Nat /\ power > 0 /\ MinSize \in Nat /\ WordSize \in Nat
  <2>1. MinSize \in Nat /\ WordSize \in Nat
    BY CountsAre
  <2>2. a \in 0 .. 34
    OBVIOUS
  <2>3. power \in Nat /\ power > 0
    BY <2>2, PowerTyped
  <2> QED
    BY <2>1, <2>3 DEF AtLeastMin
<1>11. MinSize > 0 /\ SlCount \in Nat
  BY CountsAre
<1>12. RoundingFits(total, size, power)
  OBVIOUS
<1>2. worst \in MinSize .. WordSize
  <2>1. worst <= WordSize
    OBVIOUS
  <2> HIDE DEF size, power
  <2> QED
    BY <1>1, <2>1
<1>3. n = AlignUp(worst, Power[Log2[worst] - Log2[SlCount]])
  BY DEF SearchSize
<1> HIDE DEF worst
<1>4. n \in MinSize .. 2 * WordSize /\ worst <= n /\ \A s \in MinSize .. 2 * WordSize : AtLeast(SizeClass(s), wanted) <=> n <= s
  <2> DEFINE k == AlignUp(worst, Power[Log2[worst] - Log2[SlCount]])
  <2>1. k \in MinSize .. 2 * WordSize /\ worst <= k /\ \A s \in MinSize .. 2 * WordSize : AtLeast(SizeClass(s), SizeClass(k)) <=> k <= s
    BY <1>2, SearchIs
  <2> HIDE DEF n, k
  <2>2. n = k
    BY <1>3 DEF k
  <2> QED
    BY <2>1, <2>2
<1>5. WellFormed(pool, total) /\ Coalesced(P)
  BY DEF Sound
<1>6. /\ pool.bits \in SUBSET Classes
      /\ \A b \in FreeIn(P) : b.size \in MinSize .. WordSize - 1 /\ SizeClass(b.size) \in pool.bits
  BY <1>5, FreeIsMarked
<1>7. CASE classes = {}
  <2>1. found = NoBlock
    BY <1>7 DEF Allocate, AtLeastMin
  <2>2. ASSUME NEW b \in FreeIn(P) PROVE b.size < n
    <3>1. b.size \in MinSize .. 2 * WordSize /\ ~AtLeast(SizeClass(b.size), wanted)
      BY <1>1, <1>6, <1>7
    <3> HIDE DEF n
    <3>2. ~(n <= b.size)
      BY <1>4, <3>1
    <3> QED
      BY <1>1, <1>4, <3>1, <3>2
  <2> QED
    BY <2>1, <2>2
<1>8. CASE classes # {}
  <2> DEFINE class == CHOOSE c \in classes : \A d \in classes : AtLeast(d, c)
             i == IndexOf(pool, Head(pool.lists[class]))
             B == UnlinkBlock(pool, i)
             aligned == AlignBlock(B, i, power)
             split == SplitBlock(aligned.pool, aligned.at, size)
             block == split.phys[aligned.at]
  <2>1. found = [pool |-> [split EXCEPT !.used = @ + block.size], offset |-> block.offset]
    BY <1>8 DEF Allocate, AtLeastMin
  <2>2. class \in classes
    <3>1. classes \in SUBSET Classes
      BY <1>6
    <3> HIDE DEF classes
    <3>2. \E c \in classes : \A d \in classes : AtLeast(d, c)
      BY <1>8, <3>1, LeastClass
    <3> QED
      BY <3>2
  <2> HIDE DEF class
  <2>3. i \in 1 .. Len(P) /\ P[i].free /\ SizeClass(P[i].size) = class
    <3>1. class \in pool.bits
      BY <2>2
    <3> QED
      BY <1>5, <3>1, FreeIsMarked
  <2> HIDE DEF i
  <2>4. P[i] \in FreeIn(P)
    <3>1. DOMAIN P = 1 .. Len(P)
      BY <1>5, BlocksAre DEF WellFormed
    <3> QED
      BY <2>3, <3>1 DEF FreeIn
  <2>5. n <= P[i].size
    <3>1. P[i].size \in MinSize .. 2 * WordSize /\ AtLeast(SizeClass(P[i].size), wanted)
      BY <1>1, <1>6, <2>2, <2>3, <2>4
    <3> HIDE DEF n, P
    <3> QED
      BY <1>4, <3>1
  <2>6. /\ Reserved(UsedIn(P), B, i, total) /\ B.used = pool.used /\ NotFreeBefore(B.phys, i) /\ NotFreeAfter(B.phys, i)
        /\ B.phys[i].offset = P[i].offset /\ B.phys[i].size = P[i].size
    BY <1>5, <2>3, UnlinkReserves
  <2>7. size + power - 1 <= P[i].size
    <3>1. P[i].size \in Nat
      BY <1>1, <1>6, <2>4
    <3> HIDE DEF n, P, size, power
    <3> QED
      BY <1>1, <1>2, <1>4, <2>5, <3>1 DEF worst
  <2> HIDE DEF B
  <2> DEFINE S == aligned.pool
             at == aligned.at
  <2>8. /\ Reserved(UsedIn(P), S, at, total) /\ S.used = pool.used /\ NotFreeAfter(S.phys, at)
        /\ S.phys[at].offset % power = 0 /\ S.phys[at].size >= size /\ P[i].offset <= S.phys[at].offset
        /\ S.phys[at].offset + S.phys[at].size = P[i].offset + P[i].size
        /\ IF MinSize <= power THEN size + MinSize - 1 <= S.phys[at].size ELSE S = B /\ at = i
    <3>1. size + power - 1 <= B.phys[i].size
      BY <2>6, <2>7
    <3> HIDE DEF size, P
    <3>2. Aligned(UsedIn(P), B, i, AlignBlock(B, i, Power[a]), size, Power[a], total)
      <4> DEFINE U == UsedIn(P)
      <4>1. Reserved(U, B, i, total) /\ NotFreeBefore(B.phys, i) /\ NotFreeAfter(B.phys, i)
        BY <2>6
      <4>2. size \in Nat /\ size >= MinSize /\ size + Power[a] - 1 <= B.phys[i].size
        BY <1>1, <3>1
      <4> HIDE DEF U
      <4>3. Aligned(U, B, i, AlignBlock(B, i, Power[a]), size, Power[a], total)
        BY ONLY <4>1, <4>2, a \in 0 .. 32, AlignIs
      <4> QED
        BY <4>3 DEF U
    <3> QED
      BY <2>6, <3>2 DEF Aligned
  <2> HIDE DEF aligned
  <2>9. /\ Reserved(UsedIn(P), split, at, total) /\ split.used = pool.used
        /\ block.offset = S.phys[at].offset /\ block.size < AlignUp(size, MinSize) + MinSize
        /\ size <= block.size /\ block.size <= S.phys[at].size
    <3> HIDE DEF size, P
    <3>1. size <= S.phys[at].size
      BY <1>1, <2>8, ReservedIs
    <3>3. AlignUp(size, MinSize) <= S.phys[at].size
      <4> DEFINE whole == S.phys[at].size
                 rounded == AlignUp(size, MinSize)
      <4>1. whole \in MinSize .. WordSize - 1
        BY <2>8, ReservedIs
      <4>2. whole \in Nat
        <5> HIDE DEF whole
        <5> QED
          BY <1>1, <4>1
      <4>3. rounded \in Nat /\ rounded < size + MinSize
        BY <1>1, <1>11, AlignUpIs
      <4>4. CASE MinSize <= power
        <5>1. size + MinSize - 1 <= whole
          BY <2>8, <4>4
        <5> HIDE DEF whole, rounded
        <5>2. rounded <= whole
          BY <1>1, <4>2, <4>3, <5>1
        <5> QED
          BY <5>2 DEF whole, rounded
      <4>5. CASE ~(MinSize <= power) /\ size >= SlCount * MinSize
        <5>1. S = B /\ at = i
          BY <2>8, <4>5
        <5>2. n \in Units /\ size <= n
          <6>1. worst >= SlCount * MinSize /\ size <= worst
            <7>1. SlCount * MinSize \in Nat
              BY CountsAre
            <7> QED
              BY <1>1, <4>5, <7>1 DEF worst
          <6>2. n \in Units
            <7> HIDE DEF n
            <7> QED
              BY <1>2, <1>3, <6>1, SearchInUnits
          <6> HIDE DEF n
          <6> QED
            BY <1>1, <1>2, <1>4, <6>1, <6>2
        <5>3. rounded <= n
          <6> HIDE DEF n
          <6> QED
            BY <1>1, <5>2, RoundedIs
        <5>4. n <= whole
          BY <2>5, <2>6, <5>1
        <5> HIDE DEF n, whole, rounded
        <5>5. rounded <= whole
          BY <1>4, <4>2, <4>3, <5>3, <5>4
        <5> QED
          BY <5>5 DEF whole, rounded
      <4>6. CASE ~(MinSize <= power) /\ ~(size >= SlCount * MinSize)
        <5>1. rounded - size + (total % MinSize) < MinSize
          BY <1>1, <1>12, <4>6 DEF RoundingFits
        <5> QED
          BY <1>1, <2>8, <3>1, <5>1, RoundedFits
      <4> QED
        BY <4>4, <4>5, <4>6
    <3>2. /\ Reserved(UsedIn(P), split, at, total) /\ split.used = S.used
          /\ split.phys[at].offset = S.phys[at].offset /\ split.phys[at].size < AlignUp(size, MinSize) + MinSize
          /\ size <= split.phys[at].size /\ split.phys[at].size <= S.phys[at].size
      BY <1>1, <2>8, <3>3, SplitIs
    <3> QED
      BY <2>8, <3>2
  <2>10. /\ S.phys[at].offset \in Nat /\ S.phys[at].size \in Nat
    BY <1>1, <2>8, ReservedIs, SMTT(30)
  <2>11. block.offset \in Nat /\ block.size \in Nat /\ at \in 1 .. Len(split.phys) /\ split.phys \in Seq(Block)
    <3>1. split.phys[at].offset \in Nat /\ split.phys[at].size \in MinSize .. WordSize - 1 /\ at \in 1 .. Len(split.phys) /\ split.phys \in Seq(Block)
      <4>1. Reserved(UsedIn(P), split, at, total)
        BY <2>9
      <4> HIDE DEF split, P, S, at
      <4> QED
        BY <4>1, ReservedIs
    <3> QED
      BY <1>1, <3>1
  <2> HIDE DEF split
  <2> DEFINE Q == [split EXCEPT !.used = @ + block.size]
  <2>12. found.pool = Q /\ found.offset = block.offset /\ found # NoBlock
    BY <2>1 DEF NoBlock
  <2>13. WellFormed(split, total) /\ Coalesced(split.phys) /\ UsedIn(split.phys) = UsedIn(P) \cup {block} /\ block \notin UsedIn(P) /\ ~block.free
    BY <2>9 DEF Reserved
  <2>14. Q.phys = split.phys /\ Q.used = pool.used + block.size /\ Q.lists = split.lists /\ Q.bits = split.bits /\ Q \in PoolType
    <3>1. pool.used \in Int /\ split \in PoolType
      BY <1>5, <2>13 DEF WellFormed, PoolType
    <3> DEFINE u == split.used + block.size
    <3>2. u \in Int
      BY <2>9, <2>11, <3>1
    <3> HIDE DEF u, block
    <3>3. [split EXCEPT !.used = u] \in PoolType
      BY <3>1, <3>2 DEF PoolType
    <3>4. Q = [split EXCEPT !.used = u]
      BY DEF u
    <3> HIDE DEF Q
    <3>5. Q.phys = split.phys /\ Q.used = u /\ Q.lists = split.lists /\ Q.bits = split.bits
      BY <3>1, <3>4 DEF PoolType
    <3> QED
      BY <2>9, <3>3, <3>4, <3>5 DEF u
  <2> HIDE DEF Q
  <2>15. WellFormed(Q, total)
    BY <2>13, <2>14 DEF WellFormed, Linked
  <2>16. UsedIn(P) \in SUBSET Members(Q.phys) /\ block \in Members(Q.phys) /\ Tiles(Q.phys, total)
    <3>1. UsedIn(split.phys) \in SUBSET Members(split.phys)
      BY <2>11, InIs
    <3> QED
      BY <2>11, <2>13, <2>14, <2>15, <3>1 DEF WellFormed, Members
  <2>17. Q.used = Cardinality(BytesIn(UsedIn(Q.phys)))
    <3>1. Cardinality(BytesIn(UsedIn(P) \cup {block})) = Cardinality(BytesIn(UsedIn(P))) + block.size
      BY <2>13, <2>16, BytesAdded
    <3> QED
      BY <2>13, <2>14, <3>1 DEF Sound
  <2>18. Sound(Q, total)
    BY <2>13, <2>14, <2>15, <2>17 DEF Sound
  <2>19. P[i].offset <= block.offset /\ block.offset + block.size <= P[i].offset + P[i].size
    <3>1. P[i].offset \in Nat /\ P[i].size \in Nat
      <4>1. P \in Seq(Block)
        BY <1>5, BlocksAre DEF WellFormed
      <4> QED
        BY <2>3, <4>1, BlockIs
    <3> HIDE DEF block, P, S
    <3> QED
      BY <2>8, <2>9, <2>10, <2>11, <3>1
  <2>20. block.offset % power = 0
    BY <2>8, <2>9
  <2> HIDE DEF block, found, size, power, P
  <2>21. Given(pool, found, size, power, total)
    BY <2>4, <2>9, <2>12, <2>13, <2>14, <2>16, <2>18, <2>19, <2>20 DEF Given, P
  <2> QED
    BY <2>12, <2>21 DEF found, size, power
<1> QED
  BY <1>7, <1>8

-----------------------------------------------------------------------------
(* free().  Block i is merged with the free block p next to it, and the    *)
(* two begin at j.                                                         *)
Beside(i, p, j) == (i = j /\ p = j + 1) \/ (i = j + 1 /\ p = j)
MergedBlock(P, i, p, j, block) ==
  /\ block \in Block /\ ~block.free /\ block.offset = P[j].offset /\ block.size = P[i].size + P[p].size
Merged(pool, i, p, block) == JoinedAt(UnlinkBlock(pool, p), i, p, block)

(* A free neighbour is taken into a block.                                 *)
LEMMA MergeIs ==
  ASSUME NEW U, NEW pool, NEW i, NEW total, Reserved(U, pool, i, total),
         NEW p \in 1 .. Len(pool.phys), pool.phys[p].free, NEW j, Beside(i, p, j),
         NEW block, MergedBlock(pool.phys, i, p, j, block)
  PROVE  LET Q == Merged(pool, i, p, block) IN
         /\ Reserved(U, Q, j, total) /\ Q.used = pool.used
         /\ p = j \/ NotFreeBefore(pool.phys, i) => NotFreeBefore(Q.phys, j)
         /\ p # j => NotFreeAfter(Q.phys, j)
<1> DEFINE P == pool.phys
           B == UnlinkBlock(pool, p)
           S == B.phys
           Q == JoinedAt(B, i, p, block)
           R == Q.phys
<1>1. /\ WellFormed(pool, total) /\ Coalesced(P) /\ i \in 1 .. Len(P) /\ Tiles(P, total) /\ P \in Seq(Block) /\ ~P[i].free
      /\ UsedIn(P) = U \cup {P[i]} /\ P[i] \notin U
  <2>1. Tiles(P, total)
    BY DEF Reserved, WellFormed
  <2> QED
    BY <2>1 DEF Reserved, Tiles
<1>2. Len(P) \in Nat /\ i \in Nat /\ p \in Nat /\ j \in Nat /\ j \in 1 .. Len(P) /\ j + 1 \in 1 .. Len(P) /\ j \in 1 .. Len(P) - 1
  <2>1. Len(P) \in Nat
    BY <1>1, TilesApart
  <2> HIDE DEF P
  <2> QED
    BY <1>1, <2>1 DEF Beside, P
<1>3. /\ Reserved(UsedIn(P), B, p, total) /\ B.used = pool.used
      /\ NotFreeBefore(S, p) /\ NotFreeAfter(S, p)
      /\ S[p].offset = P[p].offset /\ S[p].size = P[p].size
      /\ Len(S) = Len(P) /\ \A k \in 1 .. Len(P) : k # p => S[k] = P[k]
  BY <1>1, UnlinkReserves
<1> HIDE DEF B
<1>4. WellFormed(B, total) /\ Coalesced(S) /\ ~S[p].free /\ UsedIn(S) = UsedIn(P) \cup {S[p]} /\ S[p] \notin UsedIn(P) /\ Tiles(S, total)
  BY <1>3 DEF Reserved, WellFormed
<1>5. i # p /\ S[i] = P[i]
  BY <1>1, <1>2, <1>3 DEF Beside
<1>6. ~S[j].free /\ ~S[j + 1].free /\ block.offset = S[j].offset /\ block.size = S[j].size + S[j + 1].size
  <2>1. block.offset = P[j].offset /\ block.size = P[i].size + P[p].size
    BY DEF MergedBlock
  <2>2. P[i].size \in Nat /\ P[p].size \in Nat
    BY <1>1, BlockIs
  <2> HIDE DEF P, S
  <2>3. CASE i = j /\ p = j + 1
    BY <1>1, <1>3, <1>4, <1>5, <2>1, <2>3
  <2>4. CASE i = j + 1 /\ p = j
    BY <1>1, <1>3, <1>4, <1>5, <2>1, <2>2, <2>4
  <2> QED
    BY <2>3, <2>4 DEF Beside
<1>7. WellFormed(Q, total) /\ IsCut(R, S, j) /\ Q.used = B.used /\ R[j] = block /\ Coalesced(R)
  <2>1. j \in 1 .. Len(S) - 1 /\ block \in Block /\ ~block.free
    BY <1>2, <1>3 DEF MergedBlock
  <2>2. (i = j /\ p = j + 1) \/ (i = j + 1 /\ p = j)
    BY DEF Beside
  <2>3. ~B.phys[j].free /\ ~B.phys[j + 1].free /\ block.offset = B.phys[j].offset /\ block.size = B.phys[j].size + B.phys[j + 1].size
    BY <1>6
  <2>4. /\ WellFormed(Q, total) /\ IsCut(Q.phys, B.phys, j) /\ Q.used = B.used
        /\ Q.phys[j] = block /\ (Coalesced(B.phys) => Coalesced(Q.phys))
    BY ONLY <1>4, <2>1, <2>2, <2>3, JoinIs, ZenonT(60)
  <2> QED
    BY <1>4, <2>4
<1> HIDE DEF Q
<1>8. /\ Len(S) = Len(R) + 1 /\ j \in 1 .. Len(R)
      /\ \A k \in 1 .. Len(R) : (k < j => S[k] = R[k]) /\ (k > j => S[k + 1] = R[k])
  BY <1>7 DEF IsCut
<1>9. UsedIn(R) = (UsedIn(S) \ {S[j], S[j + 1]}) \cup {block}
  BY <1>4, <1>7, JoinTiles
<1>10. UsedIn(R) = U \cup {block}
  <2>1. {S[j], S[j + 1]} = {P[i], S[p]}
    BY <1>5 DEF Beside
  <2> HIDE DEF P, S, R
  <2> QED
    BY <1>1, <1>4, <1>9, <2>1
<1>11. block \notin U
  <2> SUFFICES ASSUME block \in U PROVE FALSE
    OBVIOUS
  <2>1. block \in UsedIn(P) /\ block # P[i]
    BY <1>1
  <2>2. PICK k \in 1 .. Len(P) : block = P[k] /\ ~P[k].free
    BY <1>1, <2>1, InIs DEF Members
  <2>3. k = j
    <3>1. P[k].offset = P[j].offset
      BY <2>2 DEF MergedBlock
    <3> QED
      BY <1>1, <1>2, <3>1, TilesApart
  <2> QED
    BY <2>1, <2>2, <2>3 DEF Beside
<1>12. ASSUME p = j \/ NotFreeBefore(P, i) PROVE NotFreeBefore(R, j)
  <2> SUFFICES ASSUME j > 1 PROVE ~R[j - 1].free
    BY DEF NotFreeBefore
  <2>1. j - 1 \in 1 .. Len(R) /\ j - 1 \in 1 .. Len(P) /\ j - 1 < j /\ j - 1 # p
    BY <1>2, <1>8 DEF Beside
  <2>2. R[j - 1] = S[j - 1] /\ S[j - 1] = P[j - 1]
    BY <1>3, <1>8, <2>1
  <2>3. CASE p = j
    BY <1>3, <2>2, <2>3 DEF NotFreeBefore
  <2>4. CASE p # j
    <3>1. i = j
      BY <2>4 DEF Beside
    <3> QED
      BY <1>12, <2>2, <2>4, <3>1 DEF NotFreeBefore
  <2> QED
    BY <2>3, <2>4
<1>13. ASSUME p # j PROVE NotFreeAfter(R, j)
  <2> SUFFICES ASSUME j < Len(R) PROVE ~R[j + 1].free
    BY DEF NotFreeAfter
  <2>1. p = j + 1
    BY <1>13 DEF Beside
  <2>2. j + 1 \in 1 .. Len(R) /\ j + 1 > j /\ p < Len(S)
    BY <1>2, <1>3, <1>8, <2>1
  <2>3. S[p + 1] = R[j + 1]
    BY <1>8, <2>1, <2>2
  <2> QED
    BY <1>3, <2>2, <2>3 DEF NotFreeAfter
<1>14. Reserved(U, Q, j, total)
  <2>1. ~block.free
    BY DEF MergedBlock
  <2> QED
    BY <1>7, <1>8, <1>10, <1>11, <2>1 DEF Reserved
<1> QED
  BY <1>3, <1>7, <1>12, <1>13, <1>14 DEF Merged, Q, B

(* Block i has been merged with what is free before it. *)
LEMMA MergePreviousIs ==
  ASSUME NEW U, NEW pool, NEW i, NEW total, Reserved(U, pool, i, total)
  PROVE  LET r == MergePrevious(pool, i) IN
         Reserved(U, r.pool, r.at, total) /\ r.pool.used = pool.used /\ NotFreeBefore(r.pool.phys, r.at)
<1> DEFINE P == pool.phys
           p == Before(pool, i)
           prev == P[p]
           block == [P[i] EXCEPT !.offset = (@ - prev.size) % WordSize, !.size = @ + prev.size]
           r == MergePrevious(pool, i)
<1>1. Tiles(P, total) /\ P \in Seq(Block) /\ Len(P) \in Nat /\ i \in 1 .. Len(P) /\ total < WordSize /\ ~P[i].free
  <2>1. Tiles(P, total) /\ i \in 1 .. Len(P) /\ total < WordSize /\ ~P[i].free
    BY DEF Reserved, WellFormed
  <2> QED
    BY <2>1, TilesApart DEF Tiles
<1>2. r = IF prev.free /\ prev.offset < P[i].offset
          THEN [pool |-> Merged(pool, i, p, block), at |-> IF p < i THEN i - 1 ELSE i]
          ELSE [pool |-> pool, at |-> i]
  BY DEF MergePrevious, Merged, JoinedAt
<1> HIDE DEF r, block
<1>3. CASE i = 1
  <2>1. p = Len(P) /\ p \in 1 .. Len(P) /\ P[1].offset = 0
    BY <1>1, <1>3 DEF Before, Tiles
  <2>2. prev.offset \in Nat
    BY <1>1, <2>1, BlockIs
  <2>3. ~(prev.offset < P[i].offset)
    BY <1>3, <2>1, <2>2
  <2>4. r.pool = pool /\ r.at = i
    BY <1>2, <2>3
  <2> QED
    BY <1>3, <2>4 DEF NotFreeBefore, r
<1>4. CASE i > 1 /\ ~prev.free
  <2>1. p = i - 1
    BY <1>1, <1>4 DEF Before
  <2>2. r.pool = pool /\ r.at = i
    BY <1>2, <1>4
  <2> QED
    BY <1>4, <2>1, <2>2 DEF NotFreeBefore, r
<1>5. CASE i > 1 /\ prev.free
  <2>1. p = i - 1 /\ p \in 1 .. Len(P) /\ i \in 2 .. Len(P) /\ i = p + 1 /\ p < i
    BY <1>1, <1>5 DEF Before
  <2>2. prev.offset \in Nat /\ prev.size \in Nat /\ P[i].offset \in Nat /\ P[i].size \in Nat /\ P[i] \in Block
    BY <1>1, <2>1, BlockIs
  <2>3. P[i].offset = prev.offset + prev.size /\ prev.size >= MinSize /\ P[i].offset + P[i].size <= total
    BY <1>1, <2>1, TilesApart DEF Tiles
  <2>4. MinSize \in Nat /\ MinSize > 0 /\ WordSize \in Nat /\ WordSize > 0 /\ total \in Nat
    <3>1. MinSize \in Nat /\ MinSize > 0 /\ WordSize \in Nat /\ WordSize > 0
      BY CountsAre
    <3> QED
      BY <1>1, <3>1, TilesApart
  <2> HIDE DEF p
  <2>5. (P[i].offset - prev.size) % WordSize = prev.offset
    <3> DEFINE n == prev.offset
    <3>1. P[i].offset - prev.size = n /\ n \in 0 .. WordSize - 1 /\ n = 0 * WordSize + n
      <4>1. total < WordSize
        BY <1>1
      <4> HIDE DEF prev
      <4> QED
        BY <2>2, <2>3, <2>4, <4>1
    <3> HIDE DEF n
    <3>2. n % WordSize = n
      BY <2>4, <3>1, Remainder
    <3> QED
      BY <3>1, <3>2 DEF n
  <2>6. MergedBlock(P, i, p, p, block)
    <3> DEFINE o == (P[i].offset - prev.size) % WordSize
               s == P[i].size + prev.size
    <3>1. o \in Nat /\ s \in Nat /\ o = prev.offset
      BY <2>2, <2>5
    <3>2. block = [P[i] EXCEPT !.offset = o, !.size = s]
      BY DEF block
    <3> HIDE DEF o, s, block
    <3>3. block \in Block /\ block.offset = o /\ block.size = s /\ block.free = P[i].free
      BY <2>2, <3>1, <3>2 DEF Block
    <3> QED
      BY <1>1, <3>1, <3>3 DEF MergedBlock, s
  <2>7. prev.offset < P[i].offset
    <3> HIDE DEF prev
    <3> QED
      BY <2>2, <2>3, <2>4
  <2>8. r.pool = Merged(pool, i, p, block) /\ r.at = p
    BY <1>1, <1>2, <1>5, <2>1, <2>7
  <2>9. Beside(i, p, p)
    BY <2>1 DEF Beside
  <2> HIDE DEF P
  <2>10. Reserved(U, r.pool, p, total) /\ r.pool.used = pool.used /\ NotFreeBefore(r.pool.phys, p)
    BY <1>5, <2>1, <2>6, <2>8, <2>9, MergeIs DEF P
  <2> QED
    BY <2>8, <2>10 DEF r
<1> QED
  BY <1>1, <1>3, <1>4, <1>5

(* After both neighbours have been tried, neither is free.                 *)
LEMMA MergeNextIs ==
  ASSUME NEW U, NEW pool, NEW i, NEW total, Reserved(U, pool, i, total), NotFreeBefore(pool.phys, i)
  PROVE  LET r == MergeNext(pool, i) IN
         /\ Reserved(U, r.pool, r.at, total) /\ r.pool.used = pool.used
         /\ NotFreeBefore(r.pool.phys, r.at) /\ NotFreeAfter(r.pool.phys, r.at)
<1> DEFINE P == pool.phys
           n == After(pool, i)
           next == P[n]
           block == [P[i] EXCEPT !.size = @ + next.size]
           r == MergeNext(pool, i)
<1>1. Tiles(P, total) /\ P \in Seq(Block) /\ Len(P) \in Nat /\ i \in 1 .. Len(P) /\ ~P[i].free
  <2>1. Tiles(P, total) /\ i \in 1 .. Len(P) /\ ~P[i].free
    BY DEF Reserved, WellFormed
  <2> QED
    BY <2>1, TilesApart DEF Tiles
<1>2. r = IF next.free /\ next.offset > P[i].offset
          THEN [pool |-> Merged(pool, i, n, block), at |-> IF n < i THEN i - 1 ELSE i]
          ELSE [pool |-> pool, at |-> i]
  BY DEF MergeNext, Merged, JoinedAt
<1> HIDE DEF r, block
<1>3. CASE i = Len(P)
  <2>1. n = 1 /\ P[1].offset = 0 /\ P[i].offset \in Nat
    BY <1>1, <1>3, BlockIs DEF After, Tiles
  <2>2. ~(next.offset > P[i].offset)
    BY <2>1
  <2>3. r.pool = pool /\ r.at = i
    BY <1>2, <2>2
  <2> QED
    BY <1>1, <1>3, <2>3 DEF NotFreeAfter, r
<1>4. CASE i < Len(P) /\ ~next.free
  <2>1. n = i + 1
    BY <1>1, <1>4 DEF After
  <2>2. r.pool = pool /\ r.at = i
    BY <1>2, <1>4
  <2> QED
    BY <1>4, <2>1, <2>2 DEF NotFreeAfter, r
<1>5. CASE i < Len(P) /\ next.free
  <2>1. n = i + 1 /\ n \in 1 .. Len(P) /\ ~(n < i) /\ n # i
    BY <1>1, <1>5 DEF After
  <2>2. next.offset \in Nat /\ next.size \in Nat /\ P[i].offset \in Nat /\ P[i].size \in Nat /\ P[i] \in Block
    BY <1>1, <2>1, BlockIs
  <2>3. next.offset > P[i].offset
    <3>1. n \in 2 .. Len(P) /\ n - 1 = i
      BY <1>1, <2>1
    <3>2. next.offset = P[i].offset + P[i].size /\ P[i].size >= MinSize
      BY <1>1, <3>1 DEF Tiles
    <3>3. MinSize \in Nat /\ MinSize > 0
      BY CountsAre
    <3> HIDE DEF next
    <3> QED
      BY <2>2, <3>2, <3>3
  <2> HIDE DEF n
  <2>4. MergedBlock(P, i, n, i, block)
    <3> DEFINE s == P[i].size + next.size
    <3>1. s \in Nat
      BY <2>2
    <3>2. block = [P[i] EXCEPT !.size = s]
      BY DEF block
    <3> HIDE DEF s, block
    <3>3. block \in Block /\ block.offset = P[i].offset /\ block.size = s /\ block.free = P[i].free
      BY <2>2, <3>1, <3>2 DEF Block
    <3> QED
      BY <1>1, <3>1, <3>3 DEF MergedBlock, s
  <2>5. r.pool = Merged(pool, i, n, block) /\ r.at = i
    BY <1>2, <1>5, <2>1, <2>3
  <2>6. Beside(i, n, i)
    BY <2>1 DEF Beside
  <2> HIDE DEF P
  <2>7. Reserved(U, r.pool, i, total) /\ r.pool.used = pool.used /\ NotFreeBefore(r.pool.phys, i) /\ NotFreeAfter(r.pool.phys, i)
    BY <1>5, <2>1, <2>4, <2>5, <2>6, MergeIs DEF P
  <2> QED
    BY <2>5, <2>7 DEF r
<1> QED
  BY <1>1, <1>3, <1>4, <1>5

(* free() takes the block, and no other, out of those in use.              *)
LEMMA FreeIs ==
  ASSUME NEW pool, NEW total, Sound(pool, total), NEW b \in UsedIn(pool.phys)
  PROVE  LET Q == Free(pool, b.offset) IN Sound(Q, total) /\ UsedIn(Q.phys) = UsedIn(pool.phys) \ {b}
<1> DEFINE P == pool.phys
           U == UsedIn(P) \ {b}
<1>1. WellFormed(pool, total) /\ Coalesced(P) /\ Tiles(P, total) /\ P \in Seq(Block) /\ pool \in PoolType /\ pool.used \in Int
  BY DEF Sound, WellFormed, Tiles, PoolType
<1>2. PICK i \in 1 .. Len(P) : b = P[i] /\ ~P[i].free
  BY <1>1, InIs DEF Members
<1>3. IndexOf(pool, b.offset) = i
  BY <1>1, <1>2, IndexIs
<1> DEFINE u == pool.used - P[i].size
           L == [pool EXCEPT !.used = u]
           m == MergePrevious(L, i)
           n == MergeNext(m.pool, m.at)
           Q == LinkBlock(n.pool, n.at)
<1>4. Free(pool, b.offset) = Q
  <2>1. [pool EXCEPT !.used = @ - pool.phys[i].size] = L
    BY DEF L
  <2> HIDE DEF L
  <2> QED
    BY <1>3, <2>1 DEF Free
<1>5. u \in Int /\ P[i].size \in Nat
  BY <1>1, BlockIs
<1> HIDE DEF u
<1>6. L \in PoolType /\ L.phys = P /\ L.lists = pool.lists /\ L.bits = pool.bits /\ L.used = u
  BY <1>1, <1>5 DEF PoolType
<1> HIDE DEF L
<1>7. Reserved(U, L, i, total)
  <2>1. WellFormed(L, total)
    BY <1>6 DEF WellFormed, Linked, Sound
  <2>2. UsedIn(P) = U \cup {P[i]} /\ P[i] \notin U
    BY <1>2
  <2> HIDE DEF U, P
  <2> QED
    BY <1>1, <1>2, <1>6, <2>1, <2>2 DEF Reserved
<1> HIDE DEF U
<1>8. Reserved(U, m.pool, m.at, total) /\ m.pool.used = u /\ NotFreeBefore(m.pool.phys, m.at)
  BY <1>6, <1>7, MergePreviousIs
<1> HIDE DEF m
<1>9. Reserved(U, n.pool, n.at, total) /\ n.pool.used = u /\ NotFreeBefore(n.pool.phys, n.at) /\ NotFreeAfter(n.pool.phys, n.at)
  BY <1>8, MergeNextIs
<1> HIDE DEF n
<1> DEFINE S == n.pool.phys
           at == n.at
           R == Q.phys
<1>10. /\ WellFormed(n.pool, total) /\ Coalesced(S) /\ at \in 1 .. Len(S) /\ ~S[at].free /\ UsedIn(S) = U \cup {S[at]} /\ S[at] \notin U
       /\ Tiles(S, total)
  BY <1>9 DEF Reserved, WellFormed
<1>11. WellFormed(Q, total) /\ IsMarked(S, R, at) /\ Q.used = u /\ R[at].free
  BY <1>9, <1>10, LinkIs
<1> HIDE DEF Q
<1>12. UsedIn(R) = U
  <2>1. UsedIn(R) = UsedIn(S) \ {S[at]}
    BY <1>10, <1>11, MarkedTiles
  <2> QED
    BY <1>10, <2>1
<1>13. Coalesced(R)
  <2>1. (at > 1 => ~S[at - 1].free) /\ (at < Len(S) => ~S[at + 1].free)
    BY <1>9 DEF NotFreeBefore, NotFreeAfter
  <2> QED
    BY <1>10, <1>11, <2>1, MarkedTiles
<1>14. Q.used = Cardinality(BytesIn(U))
  <2>1. U \in SUBSET Members(P) /\ b \in Members(P) /\ b \notin U /\ U \cup {b} = UsedIn(P)
    BY <1>1, InIs DEF U
  <2> DEFINE k == Cardinality(BytesIn(U))
  <2>2. Cardinality(BytesIn(UsedIn(P))) = k + b.size /\ k \in Nat
    BY <1>1, <2>1, BytesAdded
  <2>3. pool.used = k + b.size
    BY <2>2 DEF Sound
  <2> HIDE DEF k, P
  <2>4. u = k
    <3>1. u = pool.used - b.size /\ b.size \in Nat
      BY <1>2, <1>5 DEF u
    <3> QED
      BY <2>2, <2>3, <3>1
  <2> QED
    BY <1>11, <2>4 DEF k
<1>15. Sound(Q, total)
  BY <1>11, <1>12, <1>13, <1>14 DEF Sound
<1> QED
  BY <1>4, <1>12, <1>15 DEF U

(* A new pool is one free block. *)
LEMMA NewPoolIs ==
  ASSUME NEW size \in Nat, size >= MinSize, size < WordSize
  PROVE  Sound(NewPool(size), size) /\ UsedIn(NewPool(size).phys) = {}
<1> DEFINE block == [offset |-> 0, size |-> size, free |-> FALSE]
           P == <<block>>
           lists == [c \in Classes |-> <<>>]
           Z == [phys |-> P, lists |-> lists, bits |-> {}, used |-> 0]
           Q == NewPool(size)
<1>1. block \in Block /\ block.offset = 0 /\ block.size = size /\ ~block.free /\ size \in Nat
  BY UnitsAre DEF Block
<1>2. Q = LinkBlock(Z, 1)
  BY DEF NewPool
<1> HIDE DEF block
<1>3. P \in Seq(Block) /\ Len(P) = 1 /\ P[1] = block /\ DOMAIN P = 1 .. 1
  BY <1>1
<1> HIDE DEF P
<1>4. Tiles(P, size)
  BY <1>1, <1>3, UnitsAre DEF Tiles
<1>5. FreeIn(P) = {} /\ UsedIn(P) = {P[1]}
  BY <1>1, <1>3 DEF FreeIn, UsedIn
<1>6. Z.phys = P /\ Z.lists = lists /\ Z.bits = {} /\ Z.used = 0 /\ lists \in [Classes -> Seq(Nat)]
  OBVIOUS
<1>7. Z \in PoolType
  BY <1>3 DEF PoolType
<1> HIDE DEF Z
<1>8. ASSUME NEW c \in Classes PROVE Linked(Z, c)
  <2>1. Z.lists[c] = <<>>
    BY <1>6
  <2>2. IsInjective(<<>>) /\ ToSet(<<>>) = {}
    BY DEF IsInjective, ToSet
  <2> HIDE DEF lists
  <2> QED
    BY <1>5, <1>6, <2>1, <2>2 DEF Linked
<1>9. WellFormed(Z, size)
  BY <1>4, <1>6, <1>7, <1>8 DEF WellFormed
<1>10. WellFormed(Q, size) /\ IsMarked(P, Q.phys, 1) /\ Q.used = 0 /\ Q.phys[1].free
  <2>1. 1 \in 1 .. Len(Z.phys) /\ ~Z.phys[1].free
    <3>1. Z.phys = P /\ ~P[1].free /\ 1 \in 1 .. Len(P)
      BY <1>1, <1>3, <1>6
    <3> QED
      BY <3>1
  <2> QED
    BY <1>2, <1>6, <1>9, <2>1, LinkIs
<1> HIDE DEF Q
<1>11. UsedIn(Q.phys) = {}
  <2>1. UsedIn(Q.phys) = UsedIn(P) \ {P[1]}
    BY <1>1, <1>3, <1>4, <1>10, MarkedTiles
  <2> QED
    BY <1>5, <2>1
<1>12. Coalesced(Q.phys)
  BY <1>3, <1>10 DEF IsMarked, Coalesced
<1>13. Cardinality(BytesIn({})) = 0
  <2>1. BytesIn({}) = {}
    BY DEF BytesIn
  <2> QED
    BY <2>1, FS_EmptySet
<1> QED
  BY <1>10, <1>11, <1>12, <1>13 DEF Sound, Q

-----------------------------------------------------------------------------
(* Sizes of pools, and requests that come to them. *)
Suits(total) ==
  total >= MinSize /\ \A request \in Requests : RoundingFits(total, AtLeastMin(request.size), AlignmentOf(request))
PoolSizes == {total \in {PoolSize \div Power[shift] : shift \in PoolAttempts} : Suits(total)}

(* The pools that a heap creates are within the word.                      *)
LEMMA PoolSizeIs ==
  ASSUME NEW size \in PoolSizes
  PROVE  size \in Nat /\ size >= MinSize /\ size <= PoolSize /\ size < WordSize
<1>1. PICK shift \in PoolAttempts : size = PoolSize \div Power[shift]
  BY DEF PoolSizes
<1>2. shift \in 0 .. 34
  BY DeviceAssumption
<1>3. Power[shift] \in Nat /\ Power[shift] > 0
  BY <1>2, PowerTyped
<1>4. PoolSize \in Nat /\ AlignmentLimit \in Nat \ {0} /\ PoolSize + AlignmentLimit <= WordSize
  BY DeviceAssumption
<1>5. size \in Nat /\ size * Power[shift] <= PoolSize
  BY <1>1, <1>3, <1>4, Quotient
<1>6. size >= MinSize
  BY DEF PoolSizes, Suits
<1>8. size <= PoolSize
  <2> DEFINE p == Power[shift]
  <2>1. p \in Nat /\ p >= 1
    BY <1>3
  <2>2. size * p <= PoolSize
    BY <1>5
  <2> HIDE DEF p
  <2>3. size * p >= size
    BY <1>5, <2>1
  <2>4. size * p \in Nat
    BY <1>5, <2>1
  <2> QED
    BY <1>4, <1>5, <2>2, <2>3, <2>4
<1>9. WordSize \in Nat
  BY CountsAre
<1> QED
  BY <1>4, <1>5, <1>6, <1>8, <1>9

(* Where the pools fit, all that a heap creates are such pools.            *)
LEMMA PoolsSuit ==
  ASSUME PoolsFit, NEW shift \in PoolAttempts
  PROVE  PoolSize \div Power[shift] \in PoolSizes
BY DEF PoolsFit, PoolSizes, Suits, AtLeastMin

(* An alignment raised to the granularity of the device still divides the  *)
(* offset.                                                                 *)
LEMMA RequestIs ==
  ASSUME NEW r \in Requests
  PROVE  /\ r.size \in Nat \ {0} /\ r.types \subseteq Types
         /\ \E a \in 0 .. 32 : AlignmentOf(r) = Power[a]
         /\ AlignmentOf(r) \in Nat \ {0} /\ r.alignment \in Nat \ {0}
         /\ \A n \in Nat : n % AlignmentOf(r) = 0 => n % r.alignment = 0
<1>1. r.size \in Nat \ {0} /\ r.types \subseteq Types
  BY DeviceAssumption DEF Types
<1>2. PICK b \in 0 .. 32 : r.alignment = Power[b]
  BY DeviceAssumption
<1>3. PICK g \in 0 .. 32 : Granularity = Power[g]
  BY DeviceAssumption
<1>4. b \in 0 .. 34 /\ g \in 0 .. 34
  OBVIOUS
<1>5. Power[b] \in Nat \ {0} /\ Power[g] \in Nat \ {0}
  BY <1>4, PowerTyped
<1> DEFINE al == AlignmentOf(r)
<1>6. PICK a \in 0 .. 32 : al = Power[a] /\ b <= a
  <2>1. CASE r.alignment < Granularity
    <3>1. al = Power[g]
      BY <1>3, <2>1 DEF AlignmentOf
    <3>2. ~(g <= b)
      <4> SUFFICES ASSUME g <= b PROVE FALSE
        OBVIOUS
      <4>1. Power[g] <= Power[b]
        BY <1>4, PowerAscends
      <4> QED
        BY <1>2, <1>3, <1>5, <2>1, <4>1
    <3> QED
      BY <1>4, <3>1, <3>2
  <2>2. CASE ~(r.alignment < Granularity)
    BY <1>2, <2>2 DEF AlignmentOf
  <2> QED
    BY <2>1, <2>2
<1> HIDE DEF al
<1>7. a \in 0 .. 34
  OBVIOUS
<1>8. al \in Nat \ {0}
  BY <1>6, <1>7, PowerTyped
<1>9. ASSUME NEW n \in Nat, n % al = 0 PROVE n % r.alignment = 0
  <2> DEFINE p == Power[b]
             k == Power[a - b]
  <2>1. Power[a] = Power[a - b] * Power[b] /\ Power[a - b] \in Nat
    BY <1>4, <1>6, <1>7, PowerAscends
  <2>2. al = k * p /\ k \in Nat /\ p \in Nat /\ p > 0
    BY <1>5, <1>6, <2>1
  <2> HIDE DEF p, k
  <2>3. PICK q \in Nat : n = q * al
    <3>1. n \div al \in Nat /\ (n \div al) * al <= n /\ n < ((n \div al) + 1) * al
      BY <1>8, Quotient
    <3>2. n = al * (n \div al) + (n % al)
      BY <1>8
    <3> DEFINE q == n \div al
    <3>3. n = q * al /\ q \in Nat
      BY <1>8, <1>9, <3>1, <3>2
    <3> QED
      BY <3>3
  <2>4. n = (q * k) * p /\ q * k \in Nat
    BY <2>2, <2>3
  <2> DEFINE qk == q * k
  <2>5. qk \in Nat /\ n = qk * p + 0 /\ 0 \in 0 .. p - 1
    BY <2>2, <2>4
  <2> HIDE DEF qk
  <2>6. n % p = 0
    BY <2>2, <2>5, Remainder
  <2> QED
    BY <1>2, <2>6 DEF p
<1> QED
  BY <1>1, <1>2, <1>5, <1>6, <1>8, <1>9 DEF al

(* allocate() of a pool for a request that comes to it. *)
LEMMA RequestFits ==
  ASSUME NEW size \in PoolSizes, NEW r \in Requests, r.size < size, AlignmentOf(r) <= AlignmentLimit
  PROVE  /\ AtLeastMin(r.size) + AlignmentOf(r) - 1 \in MinSize .. WordSize /\ r.size <= AtLeastMin(r.size)
         /\ RoundingFits(size, AtLeastMin(r.size), AlignmentOf(r))
<1>1. size \in Nat /\ size >= MinSize /\ size <= PoolSize
  BY PoolSizeIs
<1>2. PoolSize \in Nat /\ AlignmentLimit \in Nat /\ PoolSize + AlignmentLimit <= WordSize
  BY DeviceAssumption
<1>3. r.size \in Nat /\ AlignmentOf(r) \in Nat \ {0}
  BY RequestIs
<1>4. MinSize \in Nat /\ WordSize \in Nat
  BY CountsAre
<1>5. RoundingFits(size, AtLeastMin(r.size), AlignmentOf(r))
  BY DEF PoolSizes, Suits
<1> QED
  BY <1>1, <1>2, <1>3, <1>4, <1>5 DEF AtLeastMin

(* What a heap gets from one of its pools.                                 *)
LEMMA PoolAllocateIs ==
  ASSUME NEW entry, entry.size \in PoolSizes, Sound(entry.pool, entry.size), NEW r \in Requests,
         NEW found, found = PoolAllocate(entry, r), found # NoBlock
  PROVE  Given(entry.pool, found, AtLeastMin(r.size), AlignmentOf(r), entry.size) /\ r.size <= AtLeastMin(r.size)
<1>1. r.size \in Nat /\ entry.size \in Nat /\ AlignmentOf(r) \in Nat /\ AlignmentLimit \in Nat
  BY RequestIs, PoolSizeIs, DeviceAssumption
<1>2. r.size < entry.size /\ AlignmentOf(r) <= AlignmentLimit /\ found = Allocate(entry.pool, r.size, AlignmentOf(r))
  BY <1>1 DEF PoolAllocate
<1>3. PICK a \in 0 .. 32 : AlignmentOf(r) = Power[a]
  BY RequestIs
<1>4. /\ AtLeastMin(r.size) + Power[a] - 1 <= WordSize /\ r.size <= AtLeastMin(r.size)
      /\ RoundingFits(entry.size, AtLeastMin(r.size), Power[a])
  BY <1>2, <1>3, RequestFits
<1> QED
  BY <1>1, <1>2, <1>3, <1>4, AllocateIs

-----------------------------------------------------------------------------
(* The allocator: what must hold of the chunks, the pools, what the        *)
(* resources hold and, in own, the chunk that a resource or its call has   *)
(* to itself.                                                              *)
Entry == [chunk : Chunks, size : PoolSizes, pool : PoolType]
Allocation == [chunk : Chunks, offset : Int, type : Types, size : Nat \ {0}, alignment : Nat \ {0}]

EntriesIn(ps, t) == {ps[t][i] : i \in 1 .. Len(ps[t])}
Pooled(h, a) == h[a] # None /\ h[a].offset # Dedicated
Alone(h, a) == h[a] # None /\ h[a].offset = Dedicated

AccountsTyped(ch, ps, h, own) ==
  /\ DOMAIN ch \subseteq Chunks /\ ps \in [Types -> Seq(Entry)]
  /\ h \in [Resources -> {None} \cup Allocation] /\ own \in [Resources -> Chunks \cup {0}]

PoolsKept(ch, ps) ==
  \A t \in Types : \A e \in EntriesIn(ps, t) :
    Sound(e.pool, e.size) /\ e.chunk \in DOMAIN ch /\ ch[e.chunk] = e.size

OnePool(ps) ==
  \A t, u \in Types : \A i \in 1 .. Len(ps[t]) : \A j \in 1 .. Len(ps[u]) :
    ps[t][i].chunk = ps[u][j].chunk => t = u /\ i = j

(* The resource has a block of the pool, large enough and aligned. *)
Lies(h, a, e) ==
  /\ e.chunk = h[a].chunk
  /\ \E b \in UsedIn(e.pool.phys) : b.offset = h[a].offset /\ h[a].size <= b.size /\ b.offset % h[a].alignment = 0

RangesKept(ps, h) == \A a \in Resources : Pooled(h, a) => \E e \in EntriesIn(ps, h[a].type) : Lies(h, a, e)

Has(h, a, t, e, b) == Pooled(h, a) /\ h[a].type = t /\ h[a].chunk = e.chunk /\ h[a].offset = b.offset

BlocksKept(ps, h) ==
  \A t \in Types : \A e \in EntriesIn(ps, t) : \A b \in UsedIn(e.pool.phys) : \E a \in Resources : Has(h, a, t, e, b)

RangesApart(h) ==
  \A a, b \in Resources :
    Pooled(h, a) /\ Pooled(h, b) /\ h[a].chunk = h[b].chunk /\ h[a].offset = h[b].offset => a = b

ChunksKept(ch, ps, h, own) ==
  /\ \A a \in Resources : own[a] # 0 => own[a] \in DOMAIN ch
  /\ \A a, b \in Resources : own[a] = own[b] /\ own[a] # 0 => a = b
  /\ \A t \in Types : \A e \in EntriesIn(ps, t) : \A a \in Resources : e.chunk # own[a]
  /\ \A a \in Resources : Alone(h, a) => own[a] = h[a].chunk /\ ch[own[a]] = h[a].size
  /\ \A c \in DOMAIN ch : (\E t \in Types : \E e \in EntriesIn(ps, t) : e.chunk = c) \/ \E a \in Resources : own[a] = c

Accounts(ch, ps, h, own) ==
  /\ AccountsTyped(ch, ps, h, own) /\ PoolsKept(ch, ps) /\ OnePool(ps) /\ RangesKept(ps, h) /\ BlocksKept(ps, h)
  /\ RangesApart(h) /\ ChunksKept(ch, ps, h, own)

(* No chunk is the number 0, which stands for none.                        *)
LEMMA NumbersOfChunks == \A c \in Chunks : c \in Nat \ {0}
BY DeviceAssumption

LEMMA NotNone == ASSUME NEW x \in Allocation PROVE x # None /\ x.chunk \in Chunks /\ x.offset \in Int /\ x.size \in Nat \ {0}
<1>1. x.chunk \in Chunks /\ x.offset \in Int /\ x.size \in Nat \ {0}
  BY DEF Allocation
<1>2. x.chunk # 0
  BY <1>1, NumbersOfChunks
<1>3. None.chunk = 0
  BY DEF None
<1> QED
  BY <1>1, <1>2, <1>3

(* The pools of the heaps are entries with a chunk, a size and a pool.     *)
LEMMA EntriesAre ==
  ASSUME NEW ps \in [Types -> Seq(Entry)], NEW t \in Types
  PROVE  /\ Len(ps[t]) \in Nat /\ ps[t] \in Seq(Entry) /\ DOMAIN ps[t] = 1 .. Len(ps[t])
         /\ \A i \in 1 .. Len(ps[t]) : ps[t][i] \in Entry /\ ps[t][i] \in EntriesIn(ps, t)
         /\ \A e \in EntriesIn(ps, t) : e \in Entry /\ e.chunk \in Chunks /\ e.size \in PoolSizes /\ e.pool \in PoolType
<1>1. Len(ps[t]) \in Nat /\ ps[t] \in Seq(Entry) /\ DOMAIN ps[t] = 1 .. Len(ps[t])
  OBVIOUS
<1> DEFINE s == ps[t]
<1>2. \A i \in 1 .. Len(s) : s[i] \in Entry
  <2>1. s \in Seq(Entry)
    BY <1>1
  <2> HIDE DEF s
  <2> QED
    BY <2>1
<1>3. \A e \in EntriesIn(ps, t) : e \in Entry
  BY <1>2 DEF EntriesIn
<1>4. \A e \in Entry : e.chunk \in Chunks /\ e.size \in PoolSizes /\ e.pool \in PoolType
  BY DEF Entry
<1>5. \A i \in 1 .. Len(ps[t]) : ps[t][i] \in EntriesIn(ps, t)
  BY DEF EntriesIn
<1> QED
  BY <1>1, <1>2, <1>3, <1>4, <1>5

(* A chunk that is new belongs to nobody. *)
LEMMA NewChunkIs ==
  ASSUME NEW ch, NEW ps, NEW h, NEW own, Accounts(ch, ps, h, own), NEW c \in Chunks \ DOMAIN ch
  PROVE  /\ \A t \in Types : \A e \in EntriesIn(ps, t) : e.chunk # c
         /\ \A a \in Resources : own[a] # c
         /\ \A a \in Resources : h[a] # None => h[a].chunk # c
         /\ c # 0
<1>1. c # 0
  BY NumbersOfChunks
<1>2. \A t \in Types : \A e \in EntriesIn(ps, t) : e.chunk # c
  BY DEF Accounts, PoolsKept
<1>3. \A a \in Resources : own[a] # c
  BY <1>1 DEF Accounts, ChunksKept
<1>4. ASSUME NEW a \in Resources, h[a] # None PROVE h[a].chunk # c
  <2>1. CASE Pooled(h, a)
    <3>1. h[a].type \in Types
      BY <1>4 DEF Accounts, AccountsTyped, Allocation
    <3>2. PICK e \in EntriesIn(ps, h[a].type) : e.chunk = h[a].chunk
      BY <2>1 DEF Accounts, RangesKept, Lies
    <3> QED
      BY <1>2, <3>1, <3>2
  <2>2. CASE Alone(h, a)
    BY <1>3, <2>2 DEF Accounts, ChunksKept
  <2> QED
    BY <1>4, <2>1, <2>2 DEF Pooled, Alone
<1> QED
  BY <1>1, <1>2, <1>3, <1>4

Grown(ch, ch2, c, size) ==
  DOMAIN ch2 = DOMAIN ch \cup {c} /\ ch2[c] = size /\ \A d \in DOMAIN ch : d # c => ch2[d] = ch[d]

(* A resource gets a chunk of its own. *)
LEMMA ChunkGivenKeeps ==
  ASSUME NEW ch, NEW ps, NEW h, NEW own, Accounts(ch, ps, h, own), NEW c \in Chunks \ DOMAIN ch,
         NEW a \in Resources, h[a] = None, own[a] = 0, NEW x \in Allocation, x.chunk = c, x.offset = Dedicated,
         NEW ch2, Grown(ch, ch2, c, x.size)
  PROVE  Accounts(ch2, ps, [h EXCEPT ![a] = x], [own EXCEPT ![a] = c])
<1> DEFINE h2 == [h EXCEPT ![a] = x]
           own2 == [own EXCEPT ![a] = c]
<1>1. AccountsTyped(ch, ps, h, own)
  BY DEF Accounts
<1>2. h2 \in [Resources -> {None} \cup Allocation] /\ h2[a] = x /\ \A b \in Resources : b # a => h2[b] = h[b]
  BY <1>1 DEF AccountsTyped
<1>3. own2 \in [Resources -> Chunks \cup {0}] /\ own2[a] = c /\ \A b \in Resources : b # a => own2[b] = own[b]
  BY <1>1 DEF AccountsTyped
<1> HIDE DEF h2, own2
<1>4. \A b \in Resources : Pooled(h2, b) <=> Pooled(h, b)
  BY <1>2 DEF Pooled
<1>5. \A b \in Resources : Pooled(h, b) => h2[b] = h[b]
  BY <1>2, <1>4 DEF Pooled
<1>6. /\ \A t \in Types : \A e \in EntriesIn(ps, t) : e.chunk # c
      /\ \A b \in Resources : own[b] # c
      /\ c # 0
  BY NewChunkIs
<1>7. AccountsTyped(ch2, ps, h2, own2)
  BY <1>1, <1>2, <1>3 DEF AccountsTyped, Grown
<1>8. PoolsKept(ch2, ps)
  BY <1>6 DEF Accounts, PoolsKept, Grown
<1>9. RangesKept(ps, h2)
  BY <1>4, <1>5 DEF Accounts, RangesKept, Lies
<1>10. BlocksKept(ps, h2)
  <2>1. \A b \in Resources, t \in Types : \A e, u : Has(h, b, t, e, u) => Has(h2, b, t, e, u)
    BY <1>4, <1>5 DEF Has
  <2>2. BlocksKept(ps, h)
    BY DEF Accounts
  <2> QED
    BY <2>1, <2>2 DEF BlocksKept
<1>11. RangesApart(h2)
  BY <1>4, <1>5 DEF Accounts, RangesApart
<1>12. ChunksKept(ch2, ps, h2, own2)
  <2>1. ChunksKept(ch, ps, h, own)
    BY DEF Accounts
  <2>2. \A b \in Resources : own2[b] # 0 => own2[b] \in DOMAIN ch2
    BY <1>3, <2>1 DEF ChunksKept, Grown
  <2>3. \A b, d \in Resources : own2[b] = own2[d] /\ own2[b] # 0 => b = d
    BY <1>3, <1>6, <2>1 DEF ChunksKept
  <2>4. \A t \in Types : \A e \in EntriesIn(ps, t) : \A b \in Resources : e.chunk # own2[b]
    BY <1>3, <1>6, <2>1 DEF ChunksKept
  <2>5. ASSUME NEW b \in Resources, Alone(h2, b) PROVE own2[b] = h2[b].chunk /\ ch2[own2[b]] = h2[b].size
    <3>1. CASE b = a
      BY <1>2, <1>3, <3>1 DEF Grown
    <3>2. CASE b # a
      <4>1. Alone(h, b) /\ h2[b] = h[b] /\ own2[b] = own[b] /\ h[b] # None
        BY <1>2, <1>3, <2>5, <3>2 DEF Alone
      <4>2. own[b] = h[b].chunk /\ ch[own[b]] = h[b].size
        BY <2>1, <4>1 DEF ChunksKept
      <4>3. h[b] \in Allocation
        BY <1>1, <4>1 DEF AccountsTyped
      <4>4. own[b] # 0
        BY <4>2, <4>3, NotNone, NumbersOfChunks
      <4>5. own[b] \in DOMAIN ch /\ own[b] # c
        BY <1>6, <2>1, <4>4 DEF ChunksKept
      <4> QED
        BY <4>1, <4>2, <4>5 DEF Grown
    <3> QED
      BY <3>1, <3>2
  <2>6. ASSUME NEW d \in DOMAIN ch2
        PROVE  (\E t \in Types : \E e \in EntriesIn(ps, t) : e.chunk = d) \/ \E b \in Resources : own2[b] = d
    <3>1. CASE d = c
      BY <1>3, <3>1
    <3>2. CASE d # c
      <4>1. d \in DOMAIN ch
        BY <3>2 DEF Grown
      <4>2. d # 0
        BY <1>1, <4>1, NumbersOfChunks DEF AccountsTyped
      <4> QED
        BY <1>3, <2>1, <4>1, <4>2 DEF ChunksKept
    <3> QED
      BY <3>1, <3>2
  <2> QED
    BY <2>2, <2>3, <2>4, <2>5, <2>6 DEF ChunksKept
<1>13. OnePool(ps)
  BY DEF Accounts
<1> QED
  BY <1>7, <1>8, <1>9, <1>10, <1>11, <1>12, <1>13 DEF Accounts, h2, own2

(* The chunk of a resource or its call is freed. *)
LEMMA ChunkFreedKeeps ==
  ASSUME NEW ch, NEW ps, NEW h, NEW own, Accounts(ch, ps, h, own),
         NEW a \in Resources, ~Pooled(h, a), own[a] # 0,
         NEW ch2, ch2 = [d \in DOMAIN ch \ {own[a]} |-> ch[d]]
  PROVE  Accounts(ch2, ps, [h EXCEPT ![a] = None], [own EXCEPT ![a] = 0])
<1> DEFINE h2 == [h EXCEPT ![a] = None]
           own2 == [own EXCEPT ![a] = 0]
           c == own[a]
<1>1. AccountsTyped(ch, ps, h, own) /\ ChunksKept(ch, ps, h, own)
  BY DEF Accounts
<1>2. h2 \in [Resources -> {None} \cup Allocation] /\ h2[a] = None /\ \A b \in Resources : b # a => h2[b] = h[b]
  BY <1>1 DEF AccountsTyped
<1>3. own2 \in [Resources -> Chunks \cup {0}] /\ own2[a] = 0 /\ \A b \in Resources : b # a => own2[b] = own[b]
  BY <1>1 DEF AccountsTyped
<1>4. DOMAIN ch2 = DOMAIN ch \ {c} /\ \A d \in DOMAIN ch2 : ch2[d] = ch[d]
  OBVIOUS
<1> HIDE DEF h2, own2
<1>5. \A b \in Resources : Pooled(h2, b) <=> Pooled(h, b)
  BY <1>2 DEF Pooled
<1>6. \A b \in Resources : Pooled(h, b) => h2[b] = h[b]
  BY <1>2, <1>5 DEF Pooled
<1>7. \A t \in Types : \A e \in EntriesIn(ps, t) : e.chunk # c
  BY <1>1 DEF ChunksKept
<1>8. AccountsTyped(ch2, ps, h2, own2)
  BY <1>1, <1>2, <1>3, <1>4 DEF AccountsTyped
<1>9. PoolsKept(ch2, ps)
  BY <1>4, <1>7 DEF Accounts, PoolsKept
<1>10. RangesKept(ps, h2)
  BY <1>5, <1>6 DEF Accounts, RangesKept, Lies
<1>11. BlocksKept(ps, h2)
  <2>1. \A b \in Resources, t \in Types : \A e, u : Has(h, b, t, e, u) => Has(h2, b, t, e, u)
    BY <1>5, <1>6 DEF Has
  <2>2. BlocksKept(ps, h)
    BY DEF Accounts
  <2> QED
    BY <2>1, <2>2 DEF BlocksKept
<1>12. RangesApart(h2)
  BY <1>5, <1>6 DEF Accounts, RangesApart
<1>13. ChunksKept(ch2, ps, h2, own2)
  <2>1. \A b \in Resources : own2[b] # 0 => own2[b] \in DOMAIN ch2
    BY <1>1, <1>3, <1>4 DEF ChunksKept
  <2>2. \A b, d \in Resources : own2[b] = own2[d] /\ own2[b] # 0 => b = d
    BY <1>1, <1>3 DEF ChunksKept
  <2>3. ASSUME NEW t \in Types, NEW e \in EntriesIn(ps, t), NEW b \in Resources PROVE e.chunk # own2[b]
    <3>1. e.chunk # 0
      BY <1>1, EntriesAre, NumbersOfChunks DEF AccountsTyped
    <3> QED
      BY <1>1, <1>3, <3>1 DEF ChunksKept
  <2>4. ASSUME NEW b \in Resources, Alone(h2, b) PROVE own2[b] = h2[b].chunk /\ ch2[own2[b]] = h2[b].size
    <3>1. b # a /\ Alone(h, b) /\ h2[b] = h[b] /\ own2[b] = own[b] /\ h[b] # None
      BY <1>2, <1>3, <2>4 DEF Alone
    <3>2. own[b] = h[b].chunk /\ ch[own[b]] = h[b].size
      BY <1>1, <3>1 DEF ChunksKept
    <3>3. h[b] \in Allocation
      BY <1>1, <3>1 DEF AccountsTyped
    <3>4. own[b] # 0
      BY <3>2, <3>3, NotNone, NumbersOfChunks
    <3>5. own[b] \in DOMAIN ch2
      BY <1>1, <1>4, <3>1, <3>4 DEF ChunksKept
    <3> QED
      BY <1>4, <3>1, <3>2, <3>5
  <2>5. ASSUME NEW d \in DOMAIN ch2
        PROVE  (\E t \in Types : \E e \in EntriesIn(ps, t) : e.chunk = d) \/ \E b \in Resources : own2[b] = d
    <3>1. d \in DOMAIN ch /\ d # c
      BY <1>4
    <3> QED
      BY <1>1, <1>3, <3>1 DEF ChunksKept
  <2> QED
    BY <2>1, <2>2, <2>3, <2>4, <2>5 DEF ChunksKept
<1>14. OnePool(ps)
  BY DEF Accounts
<1> QED
  BY <1>8, <1>9, <1>10, <1>11, <1>12, <1>13, <1>14 DEF Accounts, h2, own2

(* One pool changes. *)
WithPool(ps, t, i, q) == [ps EXCEPT ![t][i].pool = q]

(* A heap one of whose pools has changed.                                  *)
LEMMA WithPoolIs ==
  ASSUME NEW ps \in [Types -> Seq(Entry)], OnePool(ps), NEW t \in Types, NEW i \in 1 .. Len(ps[t]), NEW q \in PoolType
  PROVE  LET ps2 == WithPool(ps, t, i, q)
             e == ps[t][i]
             e2 == ps2[t][i]
         IN /\ ps2 \in [Types -> Seq(Entry)] /\ OnePool(ps2) /\ e \in EntriesIn(ps, t) /\ e2 \in EntriesIn(ps2, t)
            /\ e2.chunk = e.chunk /\ e2.size = e.size /\ e2.pool = q
            /\ \A u \in Types : \A f \in EntriesIn(ps2, u) : (u = t /\ f = e2) \/ (f \in EntriesIn(ps, u) /\ f.chunk # e.chunk)
            /\ \A u \in Types : \A f \in EntriesIn(ps, u) : (u = t /\ f = e) \/ (f \in EntriesIn(ps2, u) /\ f.chunk # e.chunk)
<1> DEFINE ps2 == WithPool(ps, t, i, q)
           s == ps[t]
           s2 == ps2[t]
           e == s[i]
           new == [e EXCEPT !.pool = q]
<1>1. s \in Seq(Entry) /\ Len(s) \in Nat /\ i \in 1 .. Len(s) /\ e \in Entry
  BY EntriesAre
<1>2. new \in Entry /\ new.chunk = e.chunk /\ new.size = e.size /\ new.pool = q
  BY <1>1 DEF Entry
<1>3. s2 = [s EXCEPT ![i] = new] /\ \A u \in Types : u # t => ps2[u] = ps[u]
  BY DEF WithPool
<1> HIDE DEF new
<1>4. s2 \in Seq(Entry) /\ Len(s2) = Len(s) /\ s2[i] = new /\ \A j \in 1 .. Len(s) : j # i => s2[j] = s[j]
  <2> HIDE DEF s, s2
  <2> QED
    BY <1>1, <1>2, <1>3
<1>5. ps2 \in [Types -> Seq(Entry)]
  <2>1. ps2 = [ps EXCEPT ![t] = s2]
    BY <1>3 DEF WithPool
  <2> HIDE DEF s2, ps2
  <2> QED
    BY <1>4, <2>1
<1> HIDE DEF ps2
<1>6. \A u \in Types : Len(ps2[u]) = Len(ps[u]) /\ \A j \in 1 .. Len(ps[u]) : ps2[u][j].chunk = ps[u][j].chunk
  BY <1>2, <1>3, <1>4
<1>7. OnePool(ps2)
  BY <1>6 DEF OnePool
<1>8. e \in EntriesIn(ps, t) /\ s2[i] \in EntriesIn(ps2, t)
  BY <1>4 DEF EntriesIn
<1>9. ASSUME NEW u \in Types, NEW j \in 1 .. Len(ps[u]), ~(u = t /\ j = i)
      PROVE  ps2[u][j] = ps[u][j] /\ ps[u][j].chunk # e.chunk
  <2>1. ps2[u][j] = ps[u][j]
    BY <1>3, <1>4, <1>9
  <2>2. ps[u][j].chunk # e.chunk
    BY <1>9 DEF OnePool
  <2> QED
    BY <2>1, <2>2
<1>10. ASSUME NEW u \in Types, NEW f \in EntriesIn(ps2, u)
       PROVE  (u = t /\ f = s2[i]) \/ (f \in EntriesIn(ps, u) /\ f.chunk # e.chunk)
  <2>1. PICK j \in 1 .. Len(ps[u]) : f = ps2[u][j]
    BY <1>6 DEF EntriesIn
  <2>2. CASE u = t /\ j = i
    BY <2>1, <2>2
  <2>3. CASE ~(u = t /\ j = i)
    BY <1>9, <2>1, <2>3 DEF EntriesIn
  <2> QED
    BY <2>2, <2>3
<1>11. ASSUME NEW u \in Types, NEW f \in EntriesIn(ps, u)
       PROVE  (u = t /\ f = e) \/ (f \in EntriesIn(ps2, u) /\ f.chunk # e.chunk)
  <2>1. PICK j \in 1 .. Len(ps[u]) : f = ps[u][j]
    BY DEF EntriesIn
  <2>2. CASE u = t /\ j = i
    BY <2>1, <2>2
  <2>3. CASE ~(u = t /\ j = i)
    BY <1>6, <1>9, <2>1, <2>3 DEF EntriesIn
  <2> QED
    BY <2>2, <2>3
<1>12. s2[i].chunk = e.chunk /\ s2[i].size = e.size /\ s2[i].pool = q
  BY <1>2, <1>4
<1> QED
  BY <1>5, <1>7, <1>8, <1>10, <1>11, <1>12 DEF ps2

(* One block at most is at an offset.                                      *)
LEMMA OneBlockThere ==
  ASSUME NEW q, NEW total, Sound(q, total), NEW b \in UsedIn(q.phys), NEW d \in UsedIn(q.phys), b.offset = d.offset
  PROVE  b = d
<1>1. Tiles(q.phys, total) /\ q.phys \in Seq(Block)
  BY DEF Sound, WellFormed, Tiles
<1>2. PICK i \in 1 .. Len(q.phys) : b = q.phys[i]
  BY <1>1, InIs DEF Members
<1>3. PICK j \in 1 .. Len(q.phys) : d = q.phys[j]
  BY <1>1, InIs DEF Members
<1>4. i = j
  BY <1>1, <1>2, <1>3, TilesApart
<1> QED
  BY <1>2, <1>3, <1>4

(* What the chunks are does not depend on what the pools do with them. *)
LEMMA SameChunks ==
  ASSUME NEW ch, NEW ps, NEW h, NEW own, Accounts(ch, ps, h, own), NEW t \in Types, NEW i \in 1 .. Len(ps[t]),
         NEW q \in PoolType, Sound(q, ps[t][i].size), NEW h2, \A a \in Resources : Alone(h2, a) => h2[a] = h[a]
  PROVE  LET ps2 == WithPool(ps, t, i, q) IN PoolsKept(ch, ps2) /\ ChunksKept(ch, ps2, h2, own)
<1> DEFINE ps2 == WithPool(ps, t, i, q)
           e == ps[t][i]
           e2 == ps2[t][i]
<1>1. AccountsTyped(ch, ps, h, own) /\ ps \in [Types -> Seq(Entry)] /\ OnePool(ps) /\ PoolsKept(ch, ps) /\ ChunksKept(ch, ps, h, own)
  BY DEF Accounts, AccountsTyped
<1>2. /\ ps2 \in [Types -> Seq(Entry)] /\ OnePool(ps2) /\ e \in EntriesIn(ps, t) /\ e2 \in EntriesIn(ps2, t)
      /\ e2.chunk = e.chunk /\ e2.size = e.size /\ e2.pool = q
      /\ \A u \in Types : \A f \in EntriesIn(ps2, u) : (u = t /\ f = e2) \/ (f \in EntriesIn(ps, u) /\ f.chunk # e.chunk)
      /\ \A u \in Types : \A f \in EntriesIn(ps, u) : (u = t /\ f = e) \/ (f \in EntriesIn(ps2, u) /\ f.chunk # e.chunk)
  BY <1>1, WithPoolIs
<1> HIDE DEF ps2, e, e2
<1>3. Sound(q, e.size)
  BY DEF e
<1>4. PoolsKept(ch, ps2)
  BY <1>1, <1>2, <1>3 DEF PoolsKept
<1>5. \A u \in Types : \A f \in EntriesIn(ps2, u) : \E g \in EntriesIn(ps, u) : g.chunk = f.chunk
  BY <1>2
<1>6. \A u \in Types : \A g \in EntriesIn(ps, u) : \E f \in EntriesIn(ps2, u) : g.chunk = f.chunk
  BY <1>2
<1>7. ChunksKept(ch, ps2, h2, own)
  <2>1. \A u \in Types : \A f \in EntriesIn(ps2, u) : \A a \in Resources : f.chunk # own[a]
    BY <1>1, <1>5 DEF ChunksKept
  <2>2. ASSUME NEW c \in DOMAIN ch, ~\E a \in Resources : own[a] = c
        PROVE  \E u \in Types : \E f \in EntriesIn(ps2, u) : f.chunk = c
    <3>1. PICK u \in Types : \E g \in EntriesIn(ps, u) : g.chunk = c
      BY <1>1, <2>2 DEF ChunksKept
    <3>2. PICK g \in EntriesIn(ps, u) : g.chunk = c
      BY <3>1
    <3>3. PICK f \in EntriesIn(ps2, u) : g.chunk = f.chunk
      BY <1>6, <3>2
    <3> QED
      BY <3>2, <3>3
  <2>3. \A a \in Resources : Alone(h2, a) => own[a] = h2[a].chunk /\ ch[own[a]] = h2[a].size
    BY <1>1 DEF ChunksKept, Alone
  <2> QED
    BY <1>1, <2>1, <2>2, <2>3 DEF ChunksKept
<1> QED
  BY <1>4, <1>7 DEF ps2

(* A resource gets a block of a pool. *)
LEMMA BlockGivenKeeps ==
  ASSUME NEW ch, NEW ps, NEW h, NEW own, Accounts(ch, ps, h, own), NEW t \in Types, NEW i \in 1 .. Len(ps[t]),
         NEW q, Sound(q, ps[t][i].size), NEW b, b \notin UsedIn(ps[t][i].pool.phys),
         UsedIn(q.phys) = UsedIn(ps[t][i].pool.phys) \cup {b},
         NEW a \in Resources, h[a] = None, NEW x \in Allocation, x.type = t, x.chunk = ps[t][i].chunk,
         x.offset = b.offset, x.offset # Dedicated, x.size <= b.size, b.offset % x.alignment = 0
  PROVE  Accounts(ch, WithPool(ps, t, i, q), [h EXCEPT ![a] = x], own)
<1> DEFINE ps2 == WithPool(ps, t, i, q)
           h2 == [h EXCEPT ![a] = x]
           e == ps[t][i]
           e2 == ps2[t][i]
<1>1. AccountsTyped(ch, ps, h, own) /\ ps \in [Types -> Seq(Entry)] /\ OnePool(ps) /\ q \in PoolType
  BY DEF Accounts, AccountsTyped, Sound, WellFormed
<1>2. /\ ps2 \in [Types -> Seq(Entry)] /\ OnePool(ps2) /\ e \in EntriesIn(ps, t) /\ e2 \in EntriesIn(ps2, t)
      /\ e2.chunk = e.chunk /\ e2.size = e.size /\ e2.pool = q
      /\ \A u \in Types : \A f \in EntriesIn(ps2, u) : (u = t /\ f = e2) \/ (f \in EntriesIn(ps, u) /\ f.chunk # e.chunk)
      /\ \A u \in Types : \A f \in EntriesIn(ps, u) : (u = t /\ f = e) \/ (f \in EntriesIn(ps2, u) /\ f.chunk # e.chunk)
  BY <1>1, WithPoolIs
<1>3. h2 \in [Resources -> {None} \cup Allocation] /\ h2[a] = x /\ \A d \in Resources : d # a => h2[d] = h[d]
  BY <1>1 DEF AccountsTyped
<1>4. x # None /\ Pooled(h2, a) /\ ~Alone(h2, a)
  BY <1>3, NotNone DEF Pooled, Alone
<1>5. \A d \in Resources : Pooled(h2, d) => d = a \/ (d # a /\ Pooled(h, d) /\ h2[d] = h[d])
  BY <1>3 DEF Pooled
<1>6. \A d \in Resources : Pooled(h, d) => Pooled(h2, d) /\ h2[d] = h[d] /\ d # a
  BY <1>3 DEF Pooled
<1>7. PoolsKept(ch, ps2) /\ ChunksKept(ch, ps2, h2, own)
  <2>1. \A d \in Resources : Alone(h2, d) => h2[d] = h[d]
    BY <1>3, <1>4
  <2> HIDE DEF h2
  <2> QED
    BY <1>1, <2>1, SameChunks
<1> DEFINE U == UsedIn(e.pool.phys)
<1>8. UsedIn(q.phys) = U \cup {b} /\ b \notin U /\ x.chunk = e.chunk
  OBVIOUS
<1> HIDE DEF ps2, h2, e, e2, U
<1>9. RangesKept(ps2, h2)
  <2> SUFFICES ASSUME NEW d \in Resources, Pooled(h2, d) PROVE \E f \in EntriesIn(ps2, h2[d].type) : Lies(h2, d, f)
    BY DEF RangesKept
  <2>1. CASE d = a
    <3>1. Lies(h2, a, e2)
      BY <1>2, <1>3, <1>8 DEF Lies
    <3> QED
      BY <1>2, <1>3, <2>1, <3>1
  <2>2. CASE d # a
    <3>1. Pooled(h, d) /\ h2[d] = h[d] /\ h[d].type \in Types
      <4>1. Pooled(h, d) /\ h2[d] = h[d] /\ h[d] # None
        BY <1>5, <2>2 DEF Pooled
      <4> QED
        BY <1>1, <4>1 DEF AccountsTyped, Allocation
    <3>2. PICK f \in EntriesIn(ps, h[d].type) : Lies(h, d, f)
      BY <3>1 DEF Accounts, RangesKept
    <3>3. CASE h[d].type = t /\ f = e
      <4>1. Lies(h2, d, e2)
        BY <1>2, <1>8, <3>1, <3>2, <3>3 DEF Lies, U
      <4> QED
        BY <1>2, <3>1, <3>3, <4>1
    <3>4. CASE f \in EntriesIn(ps2, h[d].type)
      <4>1. Lies(h2, d, f)
        BY <3>1, <3>2 DEF Lies
      <4> QED
        BY <3>1, <3>4, <4>1
    <3> QED
      BY <1>2, <3>1, <3>3, <3>4
  <2> QED
    BY <2>1, <2>2
<1>10. BlocksKept(ps2, h2)
  <2> SUFFICES ASSUME NEW u \in Types, NEW f \in EntriesIn(ps2, u), NEW c \in UsedIn(f.pool.phys)
               PROVE  \E d \in Resources : Has(h2, d, u, f, c)
    BY DEF BlocksKept
  <2>1. BlocksKept(ps, h)
    BY DEF Accounts
  <2>2. CASE u = t /\ f = e2
    <3>1. CASE c = b
      <4>1. Has(h2, a, u, f, c)
        BY <1>2, <1>3, <1>4, <1>8, <2>2, <3>1 DEF Has
      <4> QED
        BY <4>1
    <3>2. CASE c # b
      <4>1. c \in U
        BY <1>2, <1>8, <2>2, <3>2
      <4>2. PICK d \in Resources : Has(h, d, t, e, c)
        BY <1>2, <2>1, <4>1 DEF BlocksKept, U
      <4>3. Has(h2, d, u, f, c)
        BY <1>2, <1>6, <2>2, <4>2 DEF Has
      <4> QED
        BY <4>3
    <3> QED
      BY <3>1, <3>2
  <2>3. CASE f \in EntriesIn(ps, u)
    <3>1. PICK d \in Resources : Has(h, d, u, f, c)
      BY <2>1, <2>3 DEF BlocksKept
    <3>2. Has(h2, d, u, f, c)
      BY <1>6, <3>1 DEF Has
    <3> QED
      BY <3>2
  <2> QED
    BY <1>2, <2>2, <2>3
<1>11. ASSUME NEW d \in Resources, Pooled(h, d), h[d].chunk = x.chunk PROVE h[d].offset # x.offset
  <2>1. h[d].type \in Types
    BY <1>1, <1>11 DEF AccountsTyped, Allocation, Pooled
  <2>2. PICK f \in EntriesIn(ps, h[d].type) : Lies(h, d, f)
    BY <1>11 DEF Accounts, RangesKept
  <2>3. f = e
    BY <1>2, <1>8, <1>11, <2>1, <2>2 DEF Lies
  <2>4. PICK c \in U : c.offset = h[d].offset
    BY <2>2, <2>3 DEF Lies, U
  <2>5. c.offset # b.offset
    <3> SUFFICES ASSUME c.offset = b.offset PROVE FALSE
      OBVIOUS
    <3>1. c \in UsedIn(q.phys) /\ b \in UsedIn(q.phys)
      BY <1>8
    <3>2. c = b
      BY <3>1, OneBlockThere
    <3> QED
      BY <1>8, <3>2
  <2> QED
    BY <2>4, <2>5
<1>12. RangesApart(h2)
  <2> SUFFICES ASSUME NEW c \in Resources, NEW d \in Resources, Pooled(h2, c), Pooled(h2, d),
                      h2[c].chunk = h2[d].chunk, h2[c].offset = h2[d].offset
               PROVE  c = d
    BY DEF RangesApart
  <2>1. RangesApart(h)
    BY DEF Accounts
  <2>2. CASE c = a
    BY <1>3, <1>5, <1>11, <2>2
  <2>3. CASE d = a
    BY <1>3, <1>5, <1>11, <2>3
  <2>4. CASE c # a /\ d # a
    BY <1>5, <2>1, <2>4 DEF RangesApart
  <2> QED
    BY <2>2, <2>3, <2>4
<1>13. AccountsTyped(ch, ps2, h2, own)
  BY <1>1, <1>2, <1>3 DEF AccountsTyped
<1> QED
  BY <1>2, <1>7, <1>9, <1>10, <1>12, <1>13 DEF Accounts, ps2, h2

(* A resource gives its block back. *)
LEMMA BlockFreedKeeps ==
  ASSUME NEW ch, NEW ps, NEW h, NEW own, Accounts(ch, ps, h, own), NEW a \in Resources, Pooled(h, a),
         NEW t, t = h[a].type, NEW i \in 1 .. Len(ps[t]), ps[t][i].chunk = h[a].chunk,
         NEW q, Sound(q, ps[t][i].size), NEW b \in UsedIn(ps[t][i].pool.phys), b.offset = h[a].offset,
         UsedIn(q.phys) = UsedIn(ps[t][i].pool.phys) \ {b}
  PROVE  Accounts(ch, WithPool(ps, t, i, q), [h EXCEPT ![a] = None], own)
<1> DEFINE ps2 == WithPool(ps, t, i, q)
           h2 == [h EXCEPT ![a] = None]
           e == ps[t][i]
           e2 == ps2[t][i]
<1>1. AccountsTyped(ch, ps, h, own) /\ ps \in [Types -> Seq(Entry)] /\ OnePool(ps) /\ q \in PoolType /\ t \in Types
  <2>1. AccountsTyped(ch, ps, h, own)
    BY DEF Accounts
  <2>2. t \in Types
    BY <2>1 DEF AccountsTyped, Allocation, Pooled
  <2> QED
    BY <2>1, <2>2 DEF Accounts, AccountsTyped, Sound, WellFormed
<1>2. /\ ps2 \in [Types -> Seq(Entry)] /\ OnePool(ps2) /\ e \in EntriesIn(ps, t) /\ e2 \in EntriesIn(ps2, t)
      /\ e2.chunk = e.chunk /\ e2.size = e.size /\ e2.pool = q
      /\ \A u \in Types : \A f \in EntriesIn(ps2, u) : (u = t /\ f = e2) \/ (f \in EntriesIn(ps, u) /\ f.chunk # e.chunk)
      /\ \A u \in Types : \A f \in EntriesIn(ps, u) : (u = t /\ f = e) \/ (f \in EntriesIn(ps2, u) /\ f.chunk # e.chunk)
  BY <1>1, WithPoolIs, SMTT(30)
<1>3. h2 \in [Resources -> {None} \cup Allocation] /\ h2[a] = None /\ \A d \in Resources : d # a => h2[d] = h[d]
  BY <1>1 DEF AccountsTyped
<1>4. \A d \in Resources : Pooled(h2, d) <=> d # a /\ Pooled(h, d)
  BY <1>3 DEF Pooled
<1>5. PoolsKept(ch, ps2) /\ ChunksKept(ch, ps2, h2, own)
  <2>1. \A d \in Resources : Alone(h2, d) => h2[d] = h[d]
    BY <1>3 DEF Alone
  <2> HIDE DEF h2
  <2> QED
    BY <1>1, <2>1, SameChunks
<1> DEFINE U == UsedIn(e.pool.phys)
<1>6. UsedIn(q.phys) = U \ {b} /\ b \in U /\ h[a].chunk = e.chunk
  OBVIOUS
<1>7. Sound(e.pool, e.size)
  BY <1>1, <1>2 DEF Accounts, PoolsKept
<1> HIDE DEF ps2, h2, e, e2, U
<1>8. RangesKept(ps2, h2)
  <2> SUFFICES ASSUME NEW d \in Resources, Pooled(h2, d) PROVE \E f \in EntriesIn(ps2, h2[d].type) : Lies(h2, d, f)
    BY DEF RangesKept
  <2>1. d # a /\ Pooled(h, d) /\ h2[d] = h[d] /\ h[d].type \in Types
    <3>1. d # a /\ Pooled(h, d) /\ h2[d] = h[d] /\ h[d] # None
      BY <1>3, <1>4 DEF Pooled
    <3> QED
      BY <1>1, <3>1 DEF AccountsTyped, Allocation
  <2>2. PICK f \in EntriesIn(ps, h[d].type) : Lies(h, d, f)
    BY <2>1 DEF Accounts, RangesKept
  <2>3. CASE h[d].type = t /\ f = e
    <3>1. PICK c \in U : c.offset = h[d].offset /\ h[d].size <= c.size /\ c.offset % h[d].alignment = 0
      BY <2>2, <2>3 DEF Lies, U
    <3>2. c # b
      <4>1. h[d].chunk = h[a].chunk
        BY <1>6, <2>2, <2>3 DEF Lies
      <4> QED
        BY <2>1, <3>1, <4>1 DEF Accounts, RangesApart
    <3>3. Lies(h2, d, e2)
      BY <1>2, <1>6, <2>1, <2>2, <2>3, <3>1, <3>2 DEF Lies
    <3> QED
      BY <1>2, <2>1, <2>3, <3>3
  <2>4. CASE f \in EntriesIn(ps2, h[d].type)
    <3>1. Lies(h2, d, f)
      BY <2>1, <2>2 DEF Lies
    <3> QED
      BY <2>1, <2>4, <3>1
  <2> QED
    BY <1>2, <2>1, <2>3, <2>4
<1>9. BlocksKept(ps2, h2)
  <2> SUFFICES ASSUME NEW u \in Types, NEW f \in EntriesIn(ps2, u), NEW c \in UsedIn(f.pool.phys)
               PROVE  \E d \in Resources : Has(h2, d, u, f, c)
    BY DEF BlocksKept
  <2>1. BlocksKept(ps, h)
    BY DEF Accounts
  <2>2. CASE u = t /\ f = e2
    <3>1. c \in U /\ c # b
      BY <1>2, <1>6, <2>2
    <3>5. c \in UsedIn(e.pool.phys) /\ t \in Types /\ e \in EntriesIn(ps, t)
      BY <1>1, <1>2, <3>1 DEF U
    <3>2. PICK d \in Resources : Has(h, d, t, e, c)
      BY <2>1, <3>5 DEF BlocksKept
    <3>3. d # a
      <4> SUFFICES ASSUME d = a PROVE FALSE
        OBVIOUS
      <4>1. c.offset = b.offset
        BY <3>2 DEF Has
      <4>2. c \in UsedIn(e.pool.phys) /\ b \in UsedIn(e.pool.phys)
        BY <1>6, <3>1 DEF U
      <4>3. c = b
        BY <1>7, <4>1, <4>2, OneBlockThere
      <4> QED
        BY <3>1, <4>3
    <3>4. Has(h2, d, u, f, c)
      BY <1>2, <1>3, <1>4, <2>2, <3>2, <3>3 DEF Has
    <3> QED
      BY <3>4
  <2>3. CASE f \in EntriesIn(ps, u) /\ f.chunk # e.chunk
    <3>1. PICK d \in Resources : Has(h, d, u, f, c)
      BY <2>1, <2>3 DEF BlocksKept
    <3>2. d # a
      BY <1>6, <2>3, <3>1 DEF Has
    <3>3. Has(h2, d, u, f, c)
      BY <1>3, <1>4, <3>1, <3>2 DEF Has
    <3> QED
      BY <3>3
  <2> QED
    BY <1>2, <2>2, <2>3
<1>10. RangesApart(h2)
  BY <1>3, <1>4 DEF Accounts, RangesApart
<1>11. AccountsTyped(ch, ps2, h2, own)
  BY <1>1, <1>2, <1>3 DEF AccountsTyped
<1> QED
  BY <1>2, <1>5, <1>8, <1>9, <1>10, <1>11 DEF Accounts, ps2, h2
(* A heap makes a pool of a new chunk. *)
WithEntry(ps, t, e) == [ps EXCEPT ![t] = Append(@, e)]

(* A heap with one more pool.                                              *)
LEMMA WithEntryIs ==
  ASSUME NEW ps \in [Types -> Seq(Entry)], NEW t \in Types, NEW e \in Entry
  PROVE  LET ps2 == WithEntry(ps, t, e)
             n == Len(ps[t]) + 1
         IN /\ ps2 \in [Types -> Seq(Entry)] /\ n \in 1 .. Len(ps2[t]) /\ ps2[t][n] = e /\ Len(ps2[t]) = n
            /\ \A i \in 1 .. Len(ps[t]) : ps2[t][i] = ps[t][i]
            /\ \A u \in Types : u # t => ps2[u] = ps[u]
            /\ \A u \in Types : \A f \in EntriesIn(ps2, u) : (u = t /\ f = e) \/ f \in EntriesIn(ps, u)
            /\ \A u \in Types : \A f \in EntriesIn(ps, u) : f \in EntriesIn(ps2, u)
<1> DEFINE ps2 == WithEntry(ps, t, e)
           s == ps[t]
           s2 == ps2[t]
           n == Len(s) + 1
<1>1. s \in Seq(Entry) /\ Len(s) \in Nat
  BY EntriesAre
<1>2. s2 = Append(s, e) /\ \A u \in Types : u # t => ps2[u] = ps[u]
  BY DEF WithEntry
<1>3. s2 \in Seq(Entry) /\ Len(s2) = n /\ s2[n] = e /\ n \in 1 .. Len(s2) /\ \A i \in 1 .. Len(s) : s2[i] = s[i]
  <2> HIDE DEF s, s2
  <2> QED
    BY <1>1, <1>2
<1>4. ps2 \in [Types -> Seq(Entry)]
  <2>1. ps2 = [ps EXCEPT ![t] = s2]
    BY <1>2 DEF WithEntry
  <2> HIDE DEF s2, ps2
  <2> QED
    BY <1>3, <2>1
<1> HIDE DEF ps2
<1>5. ASSUME NEW u \in Types, NEW f \in EntriesIn(ps2, u) PROVE (u = t /\ f = e) \/ f \in EntriesIn(ps, u)
  <2>1. CASE u = t
    <3>1. PICK i \in 1 .. Len(s2) : f = s2[i]
      BY <2>1 DEF EntriesIn
    <3>2. i = n \/ i \in 1 .. Len(s)
      BY <1>1, <1>3, <3>1
    <3> QED
      BY <1>3, <2>1, <3>1, <3>2 DEF EntriesIn
  <2>2. CASE u # t
    BY <1>2, <2>2 DEF EntriesIn
  <2> QED
    BY <2>1, <2>2
<1>6. ASSUME NEW u \in Types, NEW f \in EntriesIn(ps, u) PROVE f \in EntriesIn(ps2, u)
  <2>1. CASE u = t
    <3>1. PICK i \in 1 .. Len(s) : f = s[i]
      BY <2>1 DEF EntriesIn
    <3>2. i \in 1 .. Len(s2)
      BY <1>1, <1>3, <3>1
    <3> QED
      BY <1>3, <2>1, <3>1, <3>2 DEF EntriesIn
  <2>2. CASE u # t
    BY <1>2, <2>2 DEF EntriesIn
  <2> QED
    BY <2>1, <2>2
<1> QED
  BY <1>2, <1>3, <1>4, <1>5, <1>6 DEF ps2

(* A pool in a new chunk, without a block in use, keeps the accounts.      *)
LEMMA PoolAddedKeeps ==
  ASSUME NEW ch, NEW ps, NEW h, NEW own, Accounts(ch, ps, h, own), NEW c \in Chunks \ DOMAIN ch, NEW t \in Types,
         NEW e \in Entry, e.chunk = c, Sound(e.pool, e.size), UsedIn(e.pool.phys) = {},
         NEW ch2, Grown(ch, ch2, c, e.size)
  PROVE  Accounts(ch2, WithEntry(ps, t, e), h, own)
<1> DEFINE ps2 == WithEntry(ps, t, e)
           n == Len(ps[t]) + 1
<1>1. AccountsTyped(ch, ps, h, own) /\ ps \in [Types -> Seq(Entry)] /\ OnePool(ps) /\ PoolsKept(ch, ps)
      /\ ChunksKept(ch, ps, h, own)
  BY DEF Accounts, AccountsTyped
<1>2. /\ ps2 \in [Types -> Seq(Entry)] /\ n \in 1 .. Len(ps2[t]) /\ ps2[t][n] = e /\ Len(ps2[t]) = n
      /\ \A i \in 1 .. Len(ps[t]) : ps2[t][i] = ps[t][i]
      /\ \A u \in Types : u # t => ps2[u] = ps[u]
      /\ \A u \in Types : \A f \in EntriesIn(ps2, u) : (u = t /\ f = e) \/ f \in EntriesIn(ps, u)
      /\ \A u \in Types : \A f \in EntriesIn(ps, u) : f \in EntriesIn(ps2, u)
  BY <1>1, WithEntryIs
<1>3. /\ \A u \in Types : \A f \in EntriesIn(ps, u) : f.chunk # c
      /\ \A a \in Resources : own[a] # c
      /\ \A a \in Resources : h[a] # None => h[a].chunk # c
      /\ c # 0
  BY NewChunkIs
<1>4. e \in EntriesIn(ps2, t)
  BY <1>2 DEF EntriesIn
<1> HIDE DEF ps2
<1>5. AccountsTyped(ch2, ps2, h, own)
  BY <1>1, <1>2 DEF AccountsTyped, Grown
<1>6. PoolsKept(ch2, ps2)
  <2> SUFFICES ASSUME NEW u \in Types, NEW f \in EntriesIn(ps2, u)
               PROVE  Sound(f.pool, f.size) /\ f.chunk \in DOMAIN ch2 /\ ch2[f.chunk] = f.size
    BY DEF PoolsKept
  <2>1. CASE f = e
    BY <2>1 DEF Grown
  <2>2. CASE f \in EntriesIn(ps, u)
    BY <1>1, <1>3, <2>2 DEF PoolsKept, Grown
  <2> QED
    BY <1>2, <2>1, <2>2
<1>7. OnePool(ps2)
  <2> SUFFICES ASSUME NEW u \in Types, NEW v \in Types, NEW i \in 1 .. Len(ps2[u]), NEW j \in 1 .. Len(ps2[v]),
                      ps2[u][i].chunk = ps2[v][j].chunk
               PROVE  u = v /\ i = j
    BY DEF OnePool
  <2>1. \A w \in Types : \A k \in 1 .. Len(ps2[w]) :
          (w = t /\ k = n /\ ps2[w][k].chunk = c)
          \/ (k \in 1 .. Len(ps[w]) /\ ps2[w][k] = ps[w][k] /\ ps[w][k].chunk # c)
    <3> SUFFICES ASSUME NEW w \in Types, NEW k \in 1 .. Len(ps2[w])
                 PROVE  (w = t /\ k = n /\ ps2[w][k].chunk = c)
                        \/ (k \in 1 .. Len(ps[w]) /\ ps2[w][k] = ps[w][k] /\ ps[w][k].chunk # c)
      OBVIOUS
    <3>1. CASE w = t /\ k = n
      BY <1>2, <3>1
    <3>2. CASE ~(w = t /\ k = n)
      <4>1. k \in 1 .. Len(ps[w]) /\ ps2[w][k] = ps[w][k]
        <5>1. Len(ps[t]) \in Nat
          BY <1>1, EntriesAre
        <5> QED
          BY <1>2, <3>2, <5>1
      <4>2. ps[w][k] \in EntriesIn(ps, w)
        BY <4>1 DEF EntriesIn
      <4> QED
        BY <1>3, <4>1, <4>2
    <3> QED
      BY <3>1, <3>2
  <2>2. CASE ps2[u][i].chunk = c
    <3>1. u = t /\ i = n
      BY <2>1, <2>2
    <3>2. v = t /\ j = n
      BY <2>1, <2>2
    <3> QED
      BY <3>1, <3>2
  <2>3. CASE ps2[u][i].chunk # c
    <3>1. i \in 1 .. Len(ps[u]) /\ j \in 1 .. Len(ps[v]) /\ ps[u][i].chunk = ps[v][j].chunk
      BY <2>1, <2>3
    <3> QED
      BY <1>1, <3>1 DEF OnePool
  <2> QED
    BY <2>2, <2>3
<1>8. RangesKept(ps2, h)
  <2> SUFFICES ASSUME NEW a \in Resources, Pooled(h, a) PROVE \E f \in EntriesIn(ps2, h[a].type) : Lies(h, a, f)
    BY DEF RangesKept
  <2>1. PICK f \in EntriesIn(ps, h[a].type) : Lies(h, a, f)
    BY DEF Accounts, RangesKept
  <2>2. h[a].type \in Types
    BY <1>1 DEF AccountsTyped, Allocation, Pooled
  <2> QED
    BY <1>2, <2>1, <2>2
<1>9. BlocksKept(ps2, h)
  <2>1. BlocksKept(ps, h)
    BY DEF Accounts
  <2> QED
    BY <1>2, <2>1 DEF BlocksKept
<1>10. ChunksKept(ch2, ps2, h, own)
  <2>1. \A a \in Resources : own[a] # 0 => own[a] \in DOMAIN ch2
    BY <1>1 DEF ChunksKept, Grown
  <2>2. \A a, b \in Resources : own[a] = own[b] /\ own[a] # 0 => a = b
    BY <1>1 DEF ChunksKept
  <2>3. ASSUME NEW u \in Types, NEW f \in EntriesIn(ps2, u), NEW a \in Resources PROVE f.chunk # own[a]
    <3>1. CASE f = e
      BY <1>3, <3>1
    <3>2. CASE f \in EntriesIn(ps, u)
      BY <1>1, <3>2 DEF ChunksKept
    <3> QED
      BY <1>2, <3>1, <3>2
  <2>4. ASSUME NEW a \in Resources, Alone(h, a) PROVE own[a] = h[a].chunk /\ ch2[own[a]] = h[a].size
    <3>1. own[a] = h[a].chunk /\ ch[own[a]] = h[a].size /\ h[a] # None
      BY <1>1, <2>4 DEF ChunksKept, Alone
    <3>2. h[a] \in Allocation
      BY <1>1, <3>1 DEF AccountsTyped
    <3>3. own[a] # 0
      BY <3>1, <3>2, NotNone, NumbersOfChunks
    <3>4. own[a] \in DOMAIN ch /\ own[a] # c
      BY <1>1, <1>3, <3>3 DEF ChunksKept
    <3> QED
      BY <3>1, <3>4 DEF Grown
  <2>5. ASSUME NEW d \in DOMAIN ch2, ~\E a \in Resources : own[a] = d
        PROVE  \E u \in Types : \E f \in EntriesIn(ps2, u) : f.chunk = d
    <3>1. CASE d = c
      BY <1>4, <3>1
    <3>2. CASE d # c
      <4>1. d \in DOMAIN ch
        BY <3>2 DEF Grown
      <4>2. PICK u \in Types : \E f \in EntriesIn(ps, u) : f.chunk = d
        BY <1>1, <2>5, <4>1 DEF ChunksKept
      <4> QED
        BY <1>2, <4>2
    <3> QED
      BY <3>1, <3>2
  <2> QED
    BY <2>1, <2>2, <2>3, <2>4, <2>5 DEF ChunksKept
<1>11. RangesApart(h)
  BY DEF Accounts
<1> QED
  BY <1>5, <1>6, <1>7, <1>8, <1>9, <1>10, <1>11 DEF Accounts, ps2

(* A heap gives up an empty pool, whose chunk the call takes over. *)
Rest(ps, t, k) == [ps EXCEPT ![t] = WithoutPool(ps[t], k).rest]

(* A heap with one pool less: the last has taken the place of the one that *)
(* went.                                                                   *)
LEMMA RestIs ==
  ASSUME NEW ps \in [Types -> Seq(Entry)], OnePool(ps), NEW t \in Types, NEW k \in 1 .. Len(ps[t])
  PROVE  LET ps2 == Rest(ps, t, k)
             e == ps[t][k]
         IN /\ ps2 \in [Types -> Seq(Entry)] /\ OnePool(ps2) /\ WithoutPool(ps[t], k).doomed = e.chunk
            /\ \A u \in Types : \A f \in EntriesIn(ps2, u) : f \in EntriesIn(ps, u) /\ f.chunk # e.chunk
            /\ \A u \in Types : \A f \in EntriesIn(ps, u) : (u = t /\ f = e) \/ f \in EntriesIn(ps2, u)
<1> DEFINE ps2 == Rest(ps, t, k)
           s == ps[t]
           s2 == ps2[t]
           e == s[k]
           n == Len(s)
           at(j) == IF j = k THEN n ELSE j
<1>1. s \in Seq(Entry) /\ n \in Nat /\ k \in 1 .. n /\ DOMAIN s = 1 .. n
  BY EntriesAre
<1>2. s2 = Front(ReplaceAt(s, k, Last(s))) /\ (\A u \in Types : u # t => ps2[u] = ps[u])
      /\ WithoutPool(s, k).doomed = e.chunk
  BY DEF Rest, WithoutPool
<1>3. s2 \in Seq(Entry) /\ Len(s2) = n - 1 /\ \A j \in 1 .. n - 1 : s2[j] = s[at(j)]
  <2> DEFINE r == ReplaceAt(s, k, Last(s))
  <2> HIDE DEF s
  <2>1. n \in 1 .. n /\ Last(s) = s[n] /\ s[n] \in Entry
    BY <1>1 DEF Last
  <2>2. r = [s EXCEPT ![k] = s[n]]
    BY <1>1, <2>1 DEF ReplaceAt
  <2>3. r \in Seq(Entry) /\ Len(r) = n /\ \A j \in 1 .. n : r[j] = s[at(j)]
    BY <1>1, <2>1, <2>2
  <2>4. s2 = SubSeq(r, 1, n - 1)
    BY <1>2, <2>3 DEF Front
  <2> HIDE DEF r, s2, n
  <2>5. s2 \in Seq(Entry) /\ Len(s2) = n - 1 /\ \A j \in 1 .. n - 1 : s2[j] = r[j]
    BY <1>1, <2>3, <2>4
  <2> QED
    BY <1>1, <2>3, <2>5
<1>4. ps2 \in [Types -> Seq(Entry)]
  <2>1. ps2 = [ps EXCEPT ![t] = s2]
    BY <1>2 DEF Rest
  <2> HIDE DEF s2, ps2
  <2> QED
    BY <1>3, <2>1
<1> HIDE DEF ps2
<1>5. /\ \A j \in 1 .. n - 1 : at(j) \in 1 .. n /\ at(j) # k
      /\ \A i, j \in 1 .. n - 1 : at(i) = at(j) => i = j
      /\ \A j \in 1 .. n : j # k => \E i \in 1 .. n - 1 : at(i) = j
  <2> HIDE DEF s, n
  <2>1. ASSUME NEW j \in 1 .. n - 1 PROVE at(j) \in 1 .. n /\ at(j) # k
    BY <1>1
  <2>2. ASSUME NEW i \in 1 .. n - 1, NEW j \in 1 .. n - 1, at(i) = at(j) PROVE i = j
    BY <1>1, <2>2
  <2>3. ASSUME NEW j \in 1 .. n, j # k PROVE \E i \in 1 .. n - 1 : at(i) = j
    <3>1. CASE j = n
      <4>1. k \in 1 .. n - 1 /\ at(k) = j
        BY <1>1, <2>3, <3>1
      <4> QED
        BY <4>1
    <3>2. CASE j # n
      <4>1. j \in 1 .. n - 1 /\ at(j) = j
        BY <1>1, <2>3, <3>2
      <4> QED
        BY <4>1
    <3> QED
      BY <3>1, <3>2
  <2> QED
    BY <2>1, <2>2, <2>3
<1> HIDE DEF at
<1>7. OnePool(ps2)
  <2> SUFFICES ASSUME NEW u \in Types, NEW v \in Types, NEW i \in 1 .. Len(ps2[u]), NEW j \in 1 .. Len(ps2[v]),
                      ps2[u][i].chunk = ps2[v][j].chunk
               PROVE  u = v /\ i = j
    BY DEF OnePool
  <2>1. PICK i2 \in 1 .. Len(ps[u]) : ps2[u][i] = ps[u][i2] /\ i2 = (IF u = t THEN at(i) ELSE i)
    BY <1>2, <1>3, <1>5
  <2>2. PICK j2 \in 1 .. Len(ps[v]) : ps2[v][j] = ps[v][j2] /\ j2 = (IF v = t THEN at(j) ELSE j)
    BY <1>2, <1>3, <1>5
  <2>3. u = v /\ i2 = j2
    BY <2>1, <2>2 DEF OnePool
  <2> QED
    BY <1>3, <1>5, <2>1, <2>2, <2>3
<1>8. ASSUME NEW u \in Types, NEW f \in EntriesIn(ps2, u) PROVE f \in EntriesIn(ps, u) /\ f.chunk # e.chunk
  <2>1. PICK i \in 1 .. Len(ps2[u]) : f = ps2[u][i]
    BY DEF EntriesIn
  <2>2. PICK j \in 1 .. Len(ps[u]) : f = ps[u][j] /\ ~(u = t /\ j = k)
    <3>1. CASE u = t
      <4>1. i \in 1 .. n - 1 /\ at(i) \in 1 .. Len(ps[u]) /\ at(i) # k /\ f = ps[u][at(i)]
        BY <1>3, <1>5, <2>1, <3>1
      <4> QED
        BY <4>1
    <3>2. CASE u # t
      BY <1>2, <2>1, <3>2
    <3> QED
      BY <3>1, <3>2
  <2>3. f.chunk # e.chunk
    BY <2>2 DEF OnePool
  <2> QED
    BY <2>2, <2>3 DEF EntriesIn
<1>9. ASSUME NEW u \in Types, NEW f \in EntriesIn(ps, u) PROVE (u = t /\ f = e) \/ f \in EntriesIn(ps2, u)
  <2>1. CASE u = t
    <3>1. PICK j \in 1 .. n : f = s[j]
      BY <2>1 DEF EntriesIn
    <3>2. CASE j = k
      BY <2>1, <3>1, <3>2
    <3>3. CASE j # k
      <4>1. PICK i \in 1 .. n - 1 : at(i) = j
        BY <1>5, <3>3
      <4>2. f = s2[i] /\ i \in 1 .. Len(s2)
        BY <1>3, <3>1, <4>1
      <4> QED
        BY <2>1, <4>2 DEF EntriesIn
    <3> QED
      BY <3>2, <3>3
  <2>2. CASE u # t
    BY <1>2, <2>2 DEF EntriesIn
  <2> QED
    BY <2>1, <2>2
<1> QED
  BY <1>2, <1>4, <1>7, <1>8, <1>9 DEF ps2

(* A pool without a block in use may go; its chunk is then that of the     *)
(* call.                                                                   *)
LEMMA PoolDroppedKeeps ==
  ASSUME NEW ch, NEW ps, NEW h, NEW own, Accounts(ch, ps, h, own), NEW a \in Resources, h[a] = None, own[a] = 0,
         NEW t \in Types, NEW k \in 1 .. Len(ps[t]), UsedIn(ps[t][k].pool.phys) = {}
  PROVE  Accounts(ch, Rest(ps, t, k), h, [own EXCEPT ![a] = ps[t][k].chunk])
<1> DEFINE ps2 == Rest(ps, t, k)
           e == ps[t][k]
           own2 == [own EXCEPT ![a] = e.chunk]
<1>1. AccountsTyped(ch, ps, h, own) /\ ps \in [Types -> Seq(Entry)] /\ OnePool(ps) /\ PoolsKept(ch, ps)
      /\ ChunksKept(ch, ps, h, own)
  BY DEF Accounts, AccountsTyped
<1>2. /\ ps2 \in [Types -> Seq(Entry)] /\ OnePool(ps2)
      /\ \A u \in Types : \A f \in EntriesIn(ps2, u) : f \in EntriesIn(ps, u) /\ f.chunk # e.chunk
      /\ \A u \in Types : \A f \in EntriesIn(ps, u) : (u = t /\ f = e) \/ f \in EntriesIn(ps2, u)
  BY <1>1, RestIs
<1>3. e \in EntriesIn(ps, t) /\ e.chunk \in Chunks
  BY <1>1, EntriesAre
<1>4. own2 \in [Resources -> Chunks \cup {0}] /\ own2[a] = e.chunk /\ \A b \in Resources : b # a => own2[b] = own[b]
  BY <1>1, <1>3 DEF AccountsTyped
<1>5. UsedIn(e.pool.phys) = {}
  OBVIOUS
<1> HIDE DEF ps2, e, own2
<1>6. AccountsTyped(ch, ps2, h, own2)
  BY <1>1, <1>2, <1>4 DEF AccountsTyped
<1>7. PoolsKept(ch, ps2)
  BY <1>1, <1>2 DEF PoolsKept
<1>8. RangesKept(ps2, h)
  <2> SUFFICES ASSUME NEW b \in Resources, Pooled(h, b) PROVE \E f \in EntriesIn(ps2, h[b].type) : Lies(h, b, f)
    BY DEF RangesKept
  <2>1. PICK f \in EntriesIn(ps, h[b].type) : Lies(h, b, f)
    BY DEF Accounts, RangesKept
  <2>2. h[b].type \in Types
    BY <1>1 DEF AccountsTyped, Allocation, Pooled
  <2>3. f # e
    BY <1>5, <2>1 DEF Lies
  <2> QED
    BY <1>2, <2>1, <2>2, <2>3
<1>9. BlocksKept(ps2, h)
  <2>1. BlocksKept(ps, h)
    BY DEF Accounts
  <2> QED
    BY <1>2, <2>1 DEF BlocksKept
<1>10. ChunksKept(ch, ps2, h, own2)
  <2>1. \A b \in Resources : own2[b] # 0 => own2[b] \in DOMAIN ch
    <3>1. e.chunk \in DOMAIN ch
      BY <1>1, <1>3 DEF PoolsKept
    <3> QED
      BY <1>1, <1>4, <3>1 DEF ChunksKept
  <2>2. \A b \in Resources : own[b] # e.chunk
    BY <1>1, <1>3 DEF ChunksKept
  <2>3. \A b, d \in Resources : own2[b] = own2[d] /\ own2[b] # 0 => b = d
    BY <1>1, <1>4, <2>2 DEF ChunksKept
  <2>4. ASSUME NEW u \in Types, NEW f \in EntriesIn(ps2, u), NEW b \in Resources PROVE f.chunk # own2[b]
    <3>1. f \in EntriesIn(ps, u) /\ f.chunk # e.chunk
      BY <1>2
    <3>2. f.chunk # own[b]
      BY <1>1, <3>1 DEF ChunksKept
    <3> QED
      BY <1>4, <3>1, <3>2
  <2>5. ASSUME NEW b \in Resources, Alone(h, b) PROVE own2[b] = h[b].chunk /\ ch[own2[b]] = h[b].size
    <3>1. b # a
      BY <2>5 DEF Alone
    <3> QED
      BY <1>1, <1>4, <2>5, <3>1 DEF ChunksKept
  <2>6. ASSUME NEW d \in DOMAIN ch, ~\E b \in Resources : own2[b] = d
        PROVE  \E u \in Types : \E f \in EntriesIn(ps2, u) : f.chunk = d
    <3>1. d # 0 /\ d # e.chunk
      BY <1>1, <1>4, <2>6, NumbersOfChunks DEF AccountsTyped
    <3>2. ~\E b \in Resources : own[b] = d
      <4> SUFFICES ASSUME NEW b \in Resources, own[b] = d PROVE FALSE
        OBVIOUS
      <4> QED
        BY <1>4, <2>6, <3>1
    <3>3. PICK u \in Types : \E f \in EntriesIn(ps, u) : f.chunk = d
      BY <1>1, <3>2 DEF ChunksKept
    <3> QED
      BY <1>2, <3>1, <3>3
  <2> QED
    BY <2>1, <2>3, <2>4, <2>5, <2>6 DEF ChunksKept
<1>11. RangesApart(h)
  BY DEF Accounts
<1> QED
  BY <1>2, <1>6, <1>7, <1>8, <1>9, <1>10, <1>11 DEF Accounts, ps2, e, own2
(* The calls. *)
Working == [at : {"dedicated", "pools", "fallback"}, request : Requests, types : SUBSET Types, type : Types]
Freeing == [at |-> "free"]
Destroying == [at : {"destroy"}, chunk : Chunks]
Calls == {Idle, Freeing} \cup Working \cup Destroying

CallFits(c, x) ==
  /\ c \in Calls
  /\ c.at = "free" => x # None
  /\ c.at \notin {"idle", "free"} => x = None

CallsFit(c, h) == DOMAIN c = Resources /\ \A a \in Resources : CallFits(c[a], h[a])

(* The chunk that a resource or its call has to itself. *)
OwnOf(h, c) ==
  [a \in Resources |-> IF Alone(h, a) THEN h[a].chunk ELSE IF c[a].at = "destroy" THEN c[a].chunk ELSE 0]

(* The inductive invariant of the allocator. *)
MemoryInv == CallsFit(call, held) /\ Accounts(chunks, pools, held, OwnOf(held, call))

(* Where a call can be.                                                    *)
LEMMA CallIs ==
  ASSUME NEW c \in Calls
  PROVE  /\ c.at \in {"dedicated", "pools", "fallback"} => c \in Working
         /\ c \in Working => /\ c.at \in {"dedicated", "pools", "fallback"}
                             /\ c.request \in Requests /\ c.types \in SUBSET Types /\ c.type \in Types
         /\ c.at = "destroy" => c.chunk \in Chunks
         /\ c = Idle => c.at = "idle"
BY DEF Calls, Working, Freeing, Destroying, Idle

LEMMA LeastOf == ASSUME NEW S \in SUBSET Nat, S # {} PROVE Min(S) \in S /\ \A n \in S : Min(S) <= n
BY LeastNumber DEF Min

(* The choice of a memory type.                                            *)
LEMMA CostIs ==
  ASSUME NEW flags, NEW t \in Types
  PROVE  Cost(t, Wishes(flags)) \in Nat
<1> DEFINE wishes == Wishes(flags)
<1>1. IsFiniteSet(TypeFlags[t])
  BY DeviceAssumption DEF Types
<1>2. wishes.desirable \in {{"HostCached", "DeviceLocal"}, {}, {"DeviceLocal"}}
  BY DEF Wishes
<1>3. IsFiniteSet(wishes.desirable)
  <2>1. IsFiniteSet({}) /\ IsFiniteSet({"DeviceLocal"})
    BY FS_EmptySet, FS_Singleton
  <2>2. IsFiniteSet({"DeviceLocal"} \cup {"HostCached"})
    BY <2>1, FS_AddElement
  <2>3. {"HostCached", "DeviceLocal"} = {"DeviceLocal"} \cup {"HostCached"}
    OBVIOUS
  <2> QED
    BY <1>2, <2>1, <2>2, <2>3
<1>4. IsFiniteSet(wishes.desirable \ TypeFlags[t]) /\ IsFiniteSet(wishes.undesirable \cap TypeFlags[t])
  BY <1>1, <1>3, FS_Subset
<1>5. Cardinality(wishes.desirable \ TypeFlags[t]) \in Nat /\ Cardinality(wishes.undesirable \cap TypeFlags[t]) \in Nat
  BY <1>4, FS_CardinalityType
<1> QED
  BY <1>5 DEF Cost

LEMMA BestTypeIs ==
  ASSUME NEW flags, NEW types \in SUBSET Types
  PROVE  BestType(flags, types) = NoType \/ BestType(flags, types) \in types
<1> DEFINE wishes == Wishes(flags)
           suitable == {t \in types : wishes.required \subseteq TypeFlags[t]}
           cost(t) == Cost(t, wishes)
           cheapest == {t \in suitable : \A u \in suitable : cost(t) <= cost(u)}
<1>1. \A t \in suitable : cost(t) \in Nat
  BY CostIs
<1>2. suitable # {} => cheapest # {}
  <2> SUFFICES ASSUME suitable # {} PROVE cheapest # {}
    OBVIOUS
  <2> DEFINE costs == {cost(t) : t \in suitable}
  <2>1. costs \in SUBSET Nat /\ costs # {}
    BY <1>1
  <2>2. PICK n \in costs : \A m \in costs : n <= m
    BY <2>1, LeastNumber
  <2>3. PICK t \in suitable : cost(t) = n
    BY <2>2
  <2>4. \A u \in suitable : cost(t) <= cost(u)
    BY <2>2, <2>3
  <2> QED
    BY <2>3, <2>4
<1>3. cheapest \subseteq types /\ types \subseteq Nat
  BY DeviceAssumption DEF Types
<1>4. suitable # {} => Min(cheapest) \in types
  BY <1>2, <1>3, LeastOf
<1>5. BestType(flags, types) = IF suitable = {} THEN NoType ELSE Min(cheapest)
  BY DEF BestType
<1> QED
  BY <1>4, <1>5

(* A call that goes on to the next memory type, or gives up.               *)
LEMMA TryingIs ==
  ASSUME NEW r \in Requests, NEW types \in SUBSET Types
  PROVE  Trying(r, types) \in {Idle} \cup Working
<1> DEFINE type == BestType(r.flags, types)
<1>1. type = NoType \/ type \in types
  BY BestTypeIs
<1> HIDE DEF type
<1>2. CASE type = NoType
  BY <1>2 DEF Trying, type
<1>3. CASE type # NoType
  BY <1>1, <1>3 DEF Trying, Working, type
<1> QED
  BY <1>2, <1>3

LEMMA NextTypeIs == ASSUME NEW c \in Working PROVE NextType(c) \in {Idle} \cup Working
<1>1. c.request \in Requests /\ c.types \ {c.type} \in SUBSET Types
  BY DEF Working
<1> QED
  BY <1>1, TryingIs DEF NextType

LEMMA AtIs ==
  ASSUME NEW c \in Working, NEW place \in {"dedicated", "pools", "fallback"}
  PROVE  [c EXCEPT !.at = place] \in Working
BY DEF Working

LEMMA PoolsExhaustedIs == ASSUME NEW c \in Working PROVE PoolsExhausted(c) \in {Idle} \cup Working
BY NextTypeIs, AtIs DEF PoolsExhausted

(* Only the call and the allocation of one resource change. *)
Changes(f, g, a, v) == DOMAIN f = Resources /\ a \in Resources /\ g = [f EXCEPT ![a] = v]

OwnAfter(x, d, v) ==
  \/ x # None /\ x.offset = Dedicated /\ v = x.chunk
  \/ x = None /\ d.at = "destroy" /\ v = d.chunk
  \/ (x = None \/ x.offset # Dedicated) /\ d.at # "destroy" /\ v = 0

(* Which chunk a resource or its call has alone, after a step of it.       *)
LEMMA OwnIs ==
  ASSUME NEW h, NEW h2, NEW c, NEW c2, NEW a, NEW x, NEW d, NEW v,
         Changes(h, h2, a, x), Changes(c, c2, a, d), OwnAfter(x, d, v)
  PROVE  OwnOf(h2, c2) = [OwnOf(h, c) EXCEPT ![a] = v]
<1>1. h2[a] = x /\ c2[a] = d /\ \A b \in Resources : b # a => h2[b] = h[b] /\ c2[b] = c[b]
  BY DEF Changes
<1>2. OwnOf(h2, c2)[a] = v /\ \A b \in Resources : b # a => OwnOf(h2, c2)[b] = OwnOf(h, c)[b]
  BY <1>1 DEF OwnOf, Alone, OwnAfter, Changes
<1>3. DOMAIN OwnOf(h, c) = Resources
  BY DEF OwnOf
<1>4. OwnOf(h2, c2) = [b \in Resources |-> OwnOf(h2, c2)[b]]
  BY DEF OwnOf
<1> QED
  BY <1>2, <1>3, <1>4
(* What the invariant says of the state, in the terms of the lemmas. *)
LEMMA InvIs ==
  ASSUME MemoryInv
  PROVE  /\ DOMAIN call = Resources /\ DOMAIN held = Resources /\ \A a \in Resources : CallFits(call[a], held[a])
         /\ AccountsTyped(chunks, pools, held, OwnOf(held, call))
         /\ DOMAIN chunks \subseteq Chunks /\ pools \in [Types -> Seq(Entry)]
         /\ \A a \in Resources : held[a] \in {None} \cup Allocation
         /\ \A a \in Resources : held[a] # None => held[a].chunk \in Chunks /\ held[a].offset \in Int /\ held[a].type \in Types
<1>1. /\ DOMAIN call = Resources /\ \A a \in Resources : CallFits(call[a], held[a])
      /\ AccountsTyped(chunks, pools, held, OwnOf(held, call))
  BY DEF MemoryInv, CallsFit, Accounts
<1>2. /\ DOMAIN chunks \subseteq Chunks /\ pools \in [Types -> Seq(Entry)]
      /\ DOMAIN held = Resources /\ \A a \in Resources : held[a] \in {None} \cup Allocation
  BY <1>1 DEF AccountsTyped
<1> QED
  BY <1>1, <1>2 DEF Allocation

(* A step of one call leaves the others what they were.                    *)
LEMMA CallsFitAfter ==
  ASSUME NEW c, NEW h, CallsFit(c, h), DOMAIN h = Resources, NEW a \in Resources, NEW d, NEW x, CallFits(d, x)
  PROVE  CallsFit([c EXCEPT ![a] = d], [h EXCEPT ![a] = x])
BY DEF CallsFit

(* A step that changes no more than what the call of one resource does     *)
(* next.                                                                   *)
LEMMA OnlyCall ==
  ASSUME MemoryInv, NEW a \in Resources, NEW d, call' = [call EXCEPT ![a] = d], UNCHANGED <<chunks, pools, held>>,
         CallFits(d, held[a]), d.at # "destroy", call[a].at # "destroy"
  PROVE  MemoryInv'
<1>1. DOMAIN call = Resources /\ DOMAIN held = Resources
  BY InvIs
<1>2. CallsFit(call, held)
  BY DEF MemoryInv
<1>3. CallsFit(call', held')
  BY <1>1, <1>2 DEF CallsFit
<1>4. OwnOf(held', call') = OwnOf(held, call)
  <2>1. \A b \in Resources : (call'[b].at = "destroy" => b # a /\ call'[b] = call[b]) /\ (call[b].at = "destroy" => call'[b] = call[b])
    BY <1>1
  <2> QED
    BY <2>1 DEF OwnOf
<1> QED
  BY <1>3, <1>4 DEF MemoryInv

LEMMA NextFits ==
  ASSUME NEW d \in {Idle} \cup Working
  PROVE  CallFits(d, None) /\ d.at # "destroy" /\ d.at # "free"
<1>1. d \in Calls
  BY DEF Calls
<1>2. d = Idle => d.at = "idle"
  BY DEF Idle
<1>3. d \in Working => d.at \in {"dedicated", "pools", "fallback"}
  BY DEF Working
<1> QED
  BY <1>1, <1>2, <1>3 DEF CallFits

(* A call that looks for memory has none yet.                              *)
LEMMA WorkingCall ==
  ASSUME MemoryInv, NEW a \in Resources, call[a].at \in {"dedicated", "pools", "fallback"}
  PROVE  /\ call[a] \in Working /\ held[a] = None
         /\ call[a].request \in Requests /\ call[a].types \in SUBSET Types /\ call[a].type \in Types
         /\ OwnOf(held, call)[a] = 0 /\ call[a].at # "destroy"
<1>1. CallFits(call[a], held[a])
  BY InvIs
<1>2. call[a] \in Working /\ held[a] = None
  BY <1>1, CallIs DEF CallFits
<1>3. OwnOf(held, call)[a] = 0
  BY <1>2 DEF OwnOf, Alone
<1> QED
  BY <1>2, <1>3, CallIs DEF Calls

(* One lemma for each action: the accounts are kept.                       *)
LEMMA CallStarts ==
  ASSUME MemoryInv, NEW a \in Resources, NEW request \in Requests, AllocateFor(a, request)
  PROVE  MemoryInv'
<1>1. held[a] = None /\ call[a] = Idle
  BY DEF AllocateFor
<1>2. Trying(request, request.types) \in {Idle} \cup Working
  BY RequestIs, TryingIs
<1>3. CallFits(Trying(request, request.types), held[a]) /\ Trying(request, request.types).at # "destroy"
  BY <1>1, <1>2, NextFits
<1>4. call[a].at # "destroy"
  BY <1>1 DEF Idle
<1> QED
  BY <1>3, <1>4, OnlyCall DEF AllocateFor

LEMMA CallReleases ==
  ASSUME MemoryInv, NEW a \in Resources, Release(a)
  PROVE  MemoryInv'
<1>1. held[a] # None /\ call[a] = Idle
  BY DEF Release
<1>2. CallFits(Freeing, held[a]) /\ Freeing.at # "destroy"
  BY <1>1 DEF CallFits, Freeing, Calls
<1>3. call[a].at # "destroy"
  BY <1>1 DEF Idle
<1>4. call' = [call EXCEPT ![a] = Freeing] /\ UNCHANGED <<chunks, pools, held>>
  BY DEF Release, Freeing
<1> QED
  BY <1>2, <1>3, <1>4, OnlyCall

LEMMA CallGoesOn ==
  ASSUME MemoryInv, NEW a \in Resources, DedicatedRefused(a) \/ PoolRefused(a)
  PROVE  MemoryInv'
<1>1. call[a].at \in {"dedicated", "pools", "fallback"}
  BY DEF DedicatedRefused, PoolRefused
<1>2. call[a] \in Working /\ held[a] = None /\ call[a].at # "destroy"
  BY <1>1, WorkingCall
<1>3. PICK d \in {Idle} \cup Working : call' = [call EXCEPT ![a] = d] /\ UNCHANGED <<chunks, pools, held>>
  <2>1. CASE PoolRefused(a)
    BY <1>2, <2>1, PoolsExhaustedIs DEF PoolRefused
  <2>2. CASE DedicatedRefused(a) /\ call[a].at = "dedicated"
    <3>1. [call[a] EXCEPT !.at = "pools"] \in Working
      BY <1>2, AtIs
    <3> QED
      BY <2>2, <3>1 DEF DedicatedRefused
  <2>3. CASE DedicatedRefused(a) /\ call[a].at # "dedicated"
    BY <1>2, <2>3, NextTypeIs DEF DedicatedRefused
  <2> QED
    BY <2>1, <2>2, <2>3
<1>4. CallFits(d, held[a]) /\ d.at # "destroy"
  BY <1>2, NextFits
<1> QED
  BY <1>2, <1>3, <1>4, OnlyCall

(* A chunk that the driver gives is new. *)
LEMMA ChunkGivenIs ==
  ASSUME MemoryInv, NEW size, ChunkGiven(size)
  PROVE  NewChunk \in Chunks \ DOMAIN chunks /\ Grown(chunks, chunks', NewChunk, size)
<1>1. DOMAIN chunks \subseteq Chunks /\ DOMAIN chunks # Chunks
  BY InvIs DEF ChunkGiven
<1>2. Chunks \ DOMAIN chunks \in SUBSET Nat /\ Chunks \ DOMAIN chunks # {}
  BY <1>1, DeviceAssumption
<1>3. NewChunk \in Chunks \ DOMAIN chunks
  BY <1>2, LeastOf DEF NewChunk
<1>4. chunks' = [c \in DOMAIN chunks \cup {NewChunk} |-> IF c = NewChunk THEN size ELSE chunks[c]]
  BY DEF ChunkGiven
<1> HIDE DEF NewChunk
<1> QED
  BY <1>3, <1>4 DEF Grown

(* The allocation that a call obtains. *)
Obtained(c, chunk, offset) ==
  [chunk |-> chunk, offset |-> offset, type |-> c.type, size |-> c.request.size, alignment |-> c.request.alignment]

(* What the resource holds when a call has found memory.                   *)
LEMMA ObtainIs ==
  ASSUME MemoryInv, NEW a \in Resources, call[a].at \in {"dedicated", "pools", "fallback"},
         NEW chunk \in Chunks, NEW offset \in Int, Obtain(a, chunk, offset),
         NEW x, x = Obtained(call[a], chunk, offset)
  PROVE  /\ x \in Allocation /\ x # None /\ x.chunk = chunk /\ x.offset = offset /\ x.type = call[a].type
         /\ x.size = call[a].request.size /\ x.alignment = call[a].request.alignment
         /\ held' = [held EXCEPT ![a] = x] /\ CallsFit(call', held')
         /\ offset = Dedicated => OwnOf(held', call') = [OwnOf(held, call) EXCEPT ![a] = chunk]
         /\ offset # Dedicated => OwnOf(held', call') = [OwnOf(held, call) EXCEPT ![a] = 0]
<1> DEFINE c == call[a]
           v == IF offset = Dedicated THEN chunk ELSE 0
<1>1. c.request \in Requests /\ c.type \in Types
  BY WorkingCall
<1>2. x.chunk = chunk /\ x.offset = offset /\ x.type = c.type /\ x.size = c.request.size /\ x.alignment = c.request.alignment
  BY DEF Obtained
<1>3. x \in Allocation
  <2>1. c.request.size \in Nat \ {0} /\ c.request.alignment \in Nat \ {0}
    BY <1>1, RequestIs
  <2> QED
    BY <1>1, <2>1 DEF Obtained, Allocation
<1>4. x # None
  BY <1>3, NotNone
<1>5. held' = [held EXCEPT ![a] = x]
  BY DEF Obtain, Obtained
<1>6. PICK d \in {Idle, Freeing} : call' = [call EXCEPT ![a] = d]
  BY DEF Obtain, Freeing
<1>7. d.at # "destroy" /\ CallFits(d, x)
  BY <1>4 DEF CallFits, Freeing, Calls, Idle
<1> HIDE DEF c, v
<1>8. DOMAIN call = Resources /\ DOMAIN held = Resources
  BY InvIs
<1>9. CallsFit(call', held')
  BY <1>5, <1>6, <1>7, <1>8, CallsFitAfter DEF MemoryInv
<1>10. OwnOf(held', call') = [OwnOf(held, call) EXCEPT ![a] = v]
  <2>1. OwnAfter(x, d, v)
    BY <1>2, <1>4, <1>7 DEF OwnAfter, v
  <2>2. Changes(held, held', a, x) /\ Changes(call, call', a, d)
    BY <1>5, <1>6, <1>8 DEF Changes
  <2> QED
    BY <2>1, <2>2, OwnIs
<1> QED
  BY <1>2, <1>3, <1>4, <1>5, <1>9, <1>10 DEF c, v

(* The chunk of an allocation of its own is that of the resource.          *)
LEMMA DedicatedKeeps ==
  ASSUME MemoryInv, NEW a \in Resources, AllocateDedicated(a)
  PROVE  MemoryInv'
<1> DEFINE own == OwnOf(held, call)
           x == Obtained(call[a], NewChunk, Dedicated)
<1>1. call[a].at \in {"dedicated", "pools", "fallback"} /\ ChunkGiven(call[a].request.size)
      /\ Obtain(a, NewChunk, Dedicated) /\ pools' = pools
  BY DEF AllocateDedicated
<1>2. NewChunk \in Chunks \ DOMAIN chunks /\ Grown(chunks, chunks', NewChunk, call[a].request.size)
  BY <1>1, ChunkGivenIs
<1>3. Dedicated \in Int
  BY DEF Dedicated
<1>4. held[a] = None /\ own[a] = 0
  BY <1>1, WorkingCall
<1>5. Accounts(chunks, pools, held, own)
  BY DEF MemoryInv
<1> HIDE DEF x, own
<1>6. /\ x \in Allocation /\ x.chunk = NewChunk /\ x.offset = Dedicated /\ x.size = call[a].request.size
      /\ held' = [held EXCEPT ![a] = x] /\ CallsFit(call', held')
      /\ OwnOf(held', call') = [own EXCEPT ![a] = NewChunk]
  <2>1. x = Obtained(call[a], NewChunk, Dedicated)
    BY DEF x
  <2> QED
    BY <1>1, <1>2, <1>3, <2>1, ObtainIs DEF own
<1> HIDE DEF NewChunk
<1>7. Accounts(chunks', pools, [held EXCEPT ![a] = x], [own EXCEPT ![a] = NewChunk])
  BY <1>2, <1>4, <1>5, <1>6, ChunkGivenKeeps
<1> QED
  BY <1>1, <1>6, <1>7 DEF MemoryInv
(* A call that obtains the block that a pool gave it. *)
LEMMA PoolGives ==
  ASSUME MemoryInv, NEW a \in Resources, call[a].at = "pools",
         NEW ch, NEW ps, Accounts(ch, ps, held, OwnOf(held, call)),
         NEW t, t = call[a].type, NEW i \in 1 .. Len(ps[t]),
         NEW found, found = PoolAllocate(ps[t][i], call[a].request), found # NoBlock,
         Obtain(a, ps[t][i].chunk, found.offset)
  PROVE  CallsFit(call', held') /\ Accounts(ch, WithPool(ps, t, i, found.pool), held', OwnOf(held', call'))
<1> DEFINE own == OwnOf(held, call)
           e == ps[t][i]
           r == call[a].request
           size == AtLeastMin(r.size)
           x == Obtained(call[a], e.chunk, found.offset)
<1>1. held[a] = None /\ own[a] = 0 /\ r \in Requests /\ t \in Types
  BY WorkingCall
<1>2. ps \in [Types -> Seq(Entry)] /\ own \in [Resources -> Chunks \cup {0}]
  BY DEF Accounts, AccountsTyped
<1>3. e \in EntriesIn(ps, t) /\ e.chunk \in Chunks /\ e.size \in PoolSizes
  BY <1>1, <1>2, EntriesAre
<1>4. Sound(e.pool, e.size)
  BY <1>1, <1>3 DEF Accounts, PoolsKept
<1>5. Given(e.pool, found, size, AlignmentOf(r), e.size) /\ r.size <= size
  BY <1>1, <1>3, <1>4, PoolAllocateIs
<1>6. PICK b \in Members(found.pool.phys) :
        /\ b.offset = found.offset /\ ~b.free
        /\ UsedIn(found.pool.phys) = UsedIn(e.pool.phys) \cup {b} /\ b \notin UsedIn(e.pool.phys)
        /\ b.offset % AlignmentOf(r) = 0 /\ size <= b.size
  BY <1>5 DEF Given
<1>7. Sound(found.pool, e.size)
  BY <1>5 DEF Given
<1>8. b \in Block /\ b.offset \in Nat /\ b.size \in Nat
  <2>1. found.pool.phys \in Seq(Block)
    BY <1>7 DEF Sound, WellFormed, Tiles
  <2>2. PICK k \in 1 .. Len(found.pool.phys) : b = found.pool.phys[k]
    BY <1>6 DEF Members
  <2>3. b \in Block
    BY <2>1, <2>2, BlockIs
  <2> QED
    BY <2>3 DEF Block
<1>9. found.offset \in Int /\ found.offset # Dedicated
  <2>1. found.offset = b.offset
    BY <1>6
  <2>2. found.offset \in Nat
    BY <1>8, <2>1
  <2> QED
    BY ONLY <2>2 DEF Dedicated
<1>10. call[a].at \in {"dedicated", "pools", "fallback"} /\ Obtain(a, e.chunk, found.offset)
  OBVIOUS
<1> HIDE DEF x, own, size, e
<1>11. /\ x \in Allocation /\ x.chunk = e.chunk /\ x.offset = found.offset /\ x.type = t
       /\ x.size = r.size /\ x.alignment = r.alignment
       /\ held' = [held EXCEPT ![a] = x] /\ CallsFit(call', held')
       /\ OwnOf(held', call') = [own EXCEPT ![a] = 0]
  <2>1. /\ x \in Allocation /\ x.chunk = e.chunk /\ x.offset = found.offset /\ x.type = call[a].type
        /\ x.size = call[a].request.size /\ x.alignment = call[a].request.alignment
        /\ held' = [held EXCEPT ![a] = x] /\ CallsFit(call', held')
        /\ OwnOf(held', call') = [own EXCEPT ![a] = 0]
    <3>1. x = Obtained(call[a], e.chunk, found.offset)
      BY DEF x
    <3> QED
      BY ONLY MemoryInv, a \in Resources, <1>3, <1>9, <1>10, <3>1, ObtainIs, SMTT(60) DEF own
  <2> QED
    BY <2>1
<1>12. OwnOf(held', call') = own
  <2>1. [own EXCEPT ![a] = 0] = own
    BY <1>1, <1>2
  <2> QED
    BY <1>9, <1>11, <2>1
<1>13. x.size <= b.size /\ b.offset % x.alignment = 0
  <2>1. r.size \in Nat /\ size \in Nat
    BY <1>1, RequestIs, CountsAre DEF size, AtLeastMin
  <2>2. x.size <= b.size
    <3>1. size <= b.size
      BY <1>6
    <3>2. r.size <= b.size
      BY <1>5, <1>8, <2>1, <3>1
    <3> QED
      BY <1>11, <3>2
  <2>3. b.offset % r.alignment = 0
    BY <1>1, <1>6, <1>8, RequestIs
  <2> QED
    BY <1>11, <2>2, <2>3
<1>14. Accounts(ch, ps, held, own)
  BY DEF own
<1>15. Accounts(ch, WithPool(ps, t, i, found.pool), [held EXCEPT ![a] = x], own)
  <2>1. x.chunk = ps[t][i].chunk /\ Sound(found.pool, ps[t][i].size)
        /\ b \notin UsedIn(ps[t][i].pool.phys) /\ UsedIn(found.pool.phys) = UsedIn(ps[t][i].pool.phys) \cup {b}
    BY <1>6, <1>7, <1>11 DEF e
  <2>2. x.offset = b.offset /\ x.offset # Dedicated
    BY <1>6, <1>9, <1>11
  <2> QED
    BY <1>1, <1>11, <1>13, <1>14, <2>1, <2>2, BlockGivenKeeps
<1> QED
  BY <1>11, <1>12, <1>15

(* A block of a pool that the heap has.                                    *)
LEMMA FromPoolKeeps ==
  ASSUME MemoryInv, NEW a \in Resources, AllocateFromPool(a)
  PROVE  MemoryInv'
<1> DEFINE t == call[a].type
           r == call[a].request
           i == Min(Fitting(t, r))
           found == PoolAllocate(pools[t][i], r)
<1>1. call[a].at = "pools" /\ Fitting(t, r) # {} /\ pools' = WithPool(pools, t, i, found.pool)
      /\ Obtain(a, pools[t][i].chunk, found.offset) /\ chunks' = chunks
  BY DEF AllocateFromPool, WithPool
<1>2. t \in Types /\ pools \in [Types -> Seq(Entry)]
  BY <1>1, WorkingCall, InvIs
<1>3. DOMAIN pools[t] = 1 .. Len(pools[t]) /\ Len(pools[t]) \in Nat
  BY <1>2, EntriesAre
<1>4. Fitting(t, r) \in SUBSET Nat
  BY <1>3 DEF Fitting
<1>5. i \in Fitting(t, r)
  BY <1>1, <1>4, LeastOf
<1>6. i \in 1 .. Len(pools[t]) /\ found # NoBlock
  BY <1>3, <1>5 DEF Fitting
<1>7. Accounts(chunks, pools, held, OwnOf(held, call))
  BY DEF MemoryInv
<1> HIDE DEF i
<1>8. CallsFit(call', held') /\ Accounts(chunks, WithPool(pools, t, i, found.pool), held', OwnOf(held', call'))
  BY <1>1, <1>6, <1>7, PoolGives
<1> QED
  BY <1>1, <1>8 DEF MemoryInv

(* A pool that is created and allocated from, as one step.                 *)
LEMMA AppendedIs ==
  ASSUME NEW S, NEW s \in Seq(S), NEW x, NEW y
  PROVE  Append(s, y) = [Append(s, x) EXCEPT ![Len(s) + 1] = y]
<1> DEFINE f == Append(s, y)
           g == Append(s, x)
           h == [g EXCEPT ![Len(s) + 1] = y]
           T == S \cup {x, y}
<1>1. s \in Seq(T) /\ Len(s) \in Nat
  OBVIOUS
<1>2. f \in Seq(T) /\ Len(f) = Len(s) + 1 /\ f[Len(s) + 1] = y /\ \A k \in 1 .. Len(s) : f[k] = s[k]
  BY <1>1
<1>3. g \in Seq(T) /\ Len(g) = Len(s) + 1 /\ g[Len(s) + 1] = x /\ \A k \in 1 .. Len(s) : g[k] = s[k]
  BY <1>1
<1> HIDE DEF f, g
<1>4. f = [k \in 1 .. Len(f) |-> f[k]] /\ g = [k \in 1 .. Len(g) |-> g[k]]
  BY <1>2, <1>3
<1>5. \A k \in 1 .. Len(s) + 1 : f[k] = h[k]
  BY <1>1, <1>2, <1>3, <1>4
<1>6. h = [k \in 1 .. Len(s) + 1 |-> h[k]]
  BY <1>3, <1>4
<1> HIDE DEF h
<1>7. f = h
  BY <1>2, <1>4, <1>5, <1>6
<1> QED
  BY <1>7 DEF f, g, h

(* A block of a pool that is created for it.                               *)
LEMMA CreateKeeps ==
  ASSUME PoolsFit, MemoryInv, NEW a \in Resources, CreatePool(a)
  PROVE  MemoryInv'
<1> DEFINE t == call[a].type
           r == call[a].request
           own == OwnOf(held, call)
<1>1. call[a].at = "pools"
  BY DEF CreatePool
<1>2. t \in Types /\ pools \in [Types -> Seq(Entry)] /\ call[a] \in Working /\ held[a] = None /\ call[a].at # "destroy"
  BY <1>1, WorkingCall, InvIs
<1>3. PICK shift \in PoolAttempts :
        LET size  == PoolSize \div Power[shift]
            entry == [chunk |-> NewChunk, size |-> size, pool |-> NewPool(size)]
            found == PoolAllocate(entry, r)
        IN  /\ ChunkGiven(size)
            /\ IF found # NoBlock
               THEN /\ pools' = [pools EXCEPT ![t] = Append(@, [entry EXCEPT !.pool = found.pool])]
                    /\ Obtain(a, NewChunk, found.offset)
               ELSE /\ pools' = [pools EXCEPT ![t] = Append(@, entry)]
                    /\ call' = [call EXCEPT ![a] = PoolsExhausted(@)]
                    /\ UNCHANGED held
  BY DEF CreatePool
<1> DEFINE size == PoolSize \div Power[shift]
           e == [chunk |-> NewChunk, size |-> size, pool |-> NewPool(size)]
           found == PoolAllocate(e, r)
           ps == WithEntry(pools, t, e)
           n == Len(pools[t]) + 1
<1>4. size \in PoolSizes
  BY PoolsSuit
<1>5. Sound(NewPool(size), size) /\ UsedIn(NewPool(size).phys) = {} /\ NewPool(size) \in PoolType
  <2> HIDE DEF size
  <2>1. size \in Nat /\ size >= MinSize /\ size < WordSize
    BY <1>4, PoolSizeIs
  <2> QED
    BY <2>1, NewPoolIs DEF Sound, WellFormed
<1>6. NewChunk \in Chunks \ DOMAIN chunks /\ Grown(chunks, chunks', NewChunk, size)
  BY <1>3, ChunkGivenIs
<1>7. e \in Entry /\ e.chunk = NewChunk /\ e.size = size /\ e.pool = NewPool(size)
  BY <1>4, <1>5, <1>6 DEF Entry
<1>8. Accounts(chunks, pools, held, own)
  BY DEF MemoryInv
<1> HIDE DEF e, size, own, ps
<1>9. Accounts(chunks', ps, held, own)
  BY <1>2, <1>5, <1>6, <1>7, <1>8, PoolAddedKeeps DEF ps
<1>10. n \in 1 .. Len(ps[t]) /\ ps[t][n] = e
  <2>1. n \in 1 .. Len(WithEntry(pools, t, e)[t]) /\ WithEntry(pools, t, e)[t][n] = e
    BY <1>2, <1>7, WithEntryIs
  <2> QED
    BY <2>1 DEF ps
<1>11. CASE found # NoBlock
  <2>1. pools' = [pools EXCEPT ![t] = Append(@, [e EXCEPT !.pool = found.pool])] /\ Obtain(a, NewChunk, found.offset)
    BY <1>3, <1>11 DEF e, size
  <2>2. CallsFit(call', held') /\ Accounts(chunks', WithPool(ps, t, n, found.pool), held', OwnOf(held', call'))
    <3>1. found = PoolAllocate(ps[t][n], call[a].request) /\ Obtain(a, ps[t][n].chunk, found.offset)
      BY <1>7, <1>10, <2>1
    <3> HIDE DEF found, n
    <3>2. Accounts(chunks', ps, held, OwnOf(held, call))
      BY <1>9 DEF own
    <3> QED
      BY <1>1, <1>10, <1>11, <3>1, <3>2, PoolGives
  <2>3. pools' = WithPool(ps, t, n, found.pool)
    <3> DEFINE s == pools[t]
               e2 == [e EXCEPT !.pool = found.pool]
    <3>1. s \in Seq(Entry) /\ Len(s) \in Nat
      BY <1>2, EntriesAre
    <3>2. Append(s, e2) = [Append(s, e) EXCEPT ![Len(s) + 1] = e2]
      <4> HIDE DEF s, e2
      <4> QED
        BY <3>1, AppendedIs
    <3>3. ps[t] = Append(s, e) /\ Append(s, e)[n] = e
      BY <1>2, <1>10 DEF ps, WithEntry
    <3> HIDE DEF s
    <3>4. [ps EXCEPT ![t][n].pool = found.pool] = [ps EXCEPT ![t] = [Append(s, e) EXCEPT ![n] = e2]]
      BY <3>3
    <3>5. [ps EXCEPT ![t] = Append(s, e2)] = [pools EXCEPT ![t] = Append(s, e2)]
      BY <1>2 DEF ps, WithEntry
    <3> QED
      BY <2>1, <3>2, <3>4, <3>5 DEF WithPool, s
  <2> QED
    BY <2>2, <2>3 DEF MemoryInv
<1>12. CASE found = NoBlock
  <2>1. pools' = ps /\ call' = [call EXCEPT ![a] = PoolsExhausted(call[a])] /\ held' = held
    BY <1>3, <1>12 DEF e, size, ps, WithEntry
  <2>2. CallFits(PoolsExhausted(call[a]), None) /\ PoolsExhausted(call[a]).at # "destroy"
    BY <1>2, PoolsExhaustedIs, NextFits
  <2>3. DOMAIN call = Resources /\ CallsFit(call, held)
    BY InvIs DEF MemoryInv
  <2>4. CallsFit(call', held')
    BY <1>2, <2>1, <2>2, <2>3 DEF CallsFit
  <2>5. OwnOf(held', call') = own
    <3>1. \A b \in Resources : (call'[b].at = "destroy" => b # a /\ call'[b] = call[b]) /\ (call[b].at = "destroy" => call'[b] = call[b])
      BY <1>2, <2>1, <2>2, <2>3
    <3> QED
      BY <2>1, <3>1 DEF OwnOf, own
  <2> QED
    BY <1>9, <2>1, <2>4, <2>5 DEF MemoryInv
<1> QED
  BY <1>11, <1>12

(* The chunk of an allocation of its own goes with it.                     *)
LEMMA DedicatedFreedKeeps ==
  ASSUME MemoryInv, NEW a \in Resources, FreeDedicated(a)
  PROVE  MemoryInv'
<1> DEFINE own == OwnOf(held, call)
<1>1. /\ call[a].at = "free" /\ held[a].offset = Dedicated /\ ChunkFreed(held[a].chunk)
      /\ held' = [held EXCEPT ![a] = None] /\ call' = [call EXCEPT ![a] = Idle] /\ pools' = pools
  BY DEF FreeDedicated
<1>2. held[a] # None /\ DOMAIN held = Resources /\ DOMAIN call = Resources /\ held[a].chunk \in Chunks
  BY <1>1, InvIs DEF CallFits
<1>3. Alone(held, a) /\ ~Pooled(held, a) /\ own[a] = held[a].chunk
  BY <1>1, <1>2 DEF Alone, Pooled, OwnOf
<1>4. own[a] # 0
  BY <1>2, <1>3, NumbersOfChunks
<1>5. Accounts(chunks, pools, held, own) /\ CallsFit(call, held)
  BY DEF MemoryInv
<1>6. chunks' = [d \in DOMAIN chunks \ {own[a]} |-> chunks[d]]
  BY <1>1, <1>3 DEF ChunkFreed
<1>7. CallsFit(call', held')
  <2>1. CallFits(Idle, None)
    BY DEF CallFits, Idle, Calls
  <2> QED
    BY <1>1, <1>2, <1>5, <2>1, CallsFitAfter
<1>8. OwnOf(held', call') = [own EXCEPT ![a] = 0]
  <2>1. OwnAfter(None, Idle, 0)
    BY DEF OwnAfter, Idle
  <2>2. Changes(held, held', a, None) /\ Changes(call, call', a, Idle)
    BY <1>1, <1>2 DEF Changes
  <2> QED
    BY <2>1, <2>2, OwnIs
<1> HIDE DEF own
<1>9. Accounts(chunks', pools, [held EXCEPT ![a] = None], [own EXCEPT ![a] = 0])
  BY <1>3, <1>4, <1>5, <1>6, ChunkFreedKeeps
<1> QED
  BY <1>1, <1>7, <1>8, <1>9 DEF MemoryInv

(* The chunk of a pool that went is freed by the call that has it.         *)
LEMMA DestroyKeeps ==
  ASSUME MemoryInv, NEW a \in Resources, DestroyPool(a)
  PROVE  MemoryInv'
<1> DEFINE own == OwnOf(held, call)
<1>1. /\ call[a].at = "destroy" /\ ChunkFreed(call[a].chunk)
      /\ held' = held /\ call' = [call EXCEPT ![a] = Idle] /\ pools' = pools
  BY DEF DestroyPool
<1>2. held[a] = None /\ DOMAIN held = Resources /\ DOMAIN call = Resources /\ call[a].chunk \in Chunks
  BY <1>1, InvIs, CallIs DEF CallFits
<1>3. ~Alone(held, a) /\ ~Pooled(held, a) /\ own[a] = call[a].chunk
  BY <1>1, <1>2 DEF Alone, Pooled, OwnOf
<1>4. own[a] # 0
  BY <1>2, <1>3, NumbersOfChunks
<1>5. Accounts(chunks, pools, held, own) /\ CallsFit(call, held)
  BY DEF MemoryInv
<1>6. chunks' = [d \in DOMAIN chunks \ {own[a]} |-> chunks[d]]
  BY <1>1, <1>3 DEF ChunkFreed
<1>7. held' = [held EXCEPT ![a] = None]
  <2>1. held = [b \in Resources |-> held[b]]
    BY InvIs DEF AccountsTyped
  <2> QED
    BY <1>1, <1>2, <2>1
<1>8. CallsFit(call', held')
  <2>1. CallFits(Idle, None)
    BY DEF CallFits, Idle, Calls
  <2>2. CallsFit([call EXCEPT ![a] = Idle], [held EXCEPT ![a] = None])
    BY <1>2, <1>5, <2>1, CallsFitAfter
  <2>3. call' = [call EXCEPT ![a] = Idle]
    BY <1>1
  <2> QED
    BY <1>7, <2>2, <2>3
<1>9. OwnOf(held', call') = [own EXCEPT ![a] = 0]
  <2>1. OwnAfter(None, Idle, 0)
    BY DEF OwnAfter, Idle
  <2>2. Changes(held, held', a, None) /\ Changes(call, call', a, Idle)
    BY <1>1, <1>2, <1>7 DEF Changes
  <2> QED
    BY <2>1, <2>2, OwnIs
<1> HIDE DEF own
<1>10. Accounts(chunks', pools, [held EXCEPT ![a] = None], [own EXCEPT ![a] = 0])
  BY <1>3, <1>4, <1>5, <1>6, ChunkFreedKeeps
<1> QED
  BY <1>1, <1>7, <1>8, <1>9, <1>10 DEF MemoryInv
(* The block that a resource gives back is in use in the pool of its chunk. *)
LEMMA FreedIsPooled ==
  ASSUME MemoryInv, NEW a \in Resources, FreeBlock(a), NEW t, t = held[a].type,
         NEW i, i = PoolIndex(pools[t], held[a].chunk)
  PROVE  /\ held[a] # None /\ Pooled(held, a) /\ t \in Types /\ pools \in [Types -> Seq(Entry)]
         /\ i \in 1 .. Len(pools[t]) /\ pools[t][i].chunk = held[a].chunk /\ Sound(pools[t][i].pool, pools[t][i].size)
         /\ \E b \in UsedIn(pools[t][i].pool.phys) : b.offset = held[a].offset
<1>1. call[a].at = "free" /\ held[a].offset # Dedicated
  BY DEF FreeBlock
<1>2. Accounts(chunks, pools, held, OwnOf(held, call)) /\ pools \in [Types -> Seq(Entry)]
      /\ held[a] # None /\ t \in Types
  <2>1. CallFits(call[a], held[a])
    BY InvIs
  <2>2. held[a] # None
    BY <1>1, <2>1 DEF CallFits
  <2> QED
    BY <2>2, InvIs DEF MemoryInv
<1>3. Pooled(held, a)
  BY <1>1, <1>2 DEF Pooled
<1>4. DOMAIN pools[t] = 1 .. Len(pools[t])
  BY <1>2, EntriesAre
<1>5. PICK f \in EntriesIn(pools, t) : Lies(held, a, f)
  BY <1>2, <1>3 DEF Accounts, RangesKept
<1>6. PICK j \in 1 .. Len(pools[t]) : f = pools[t][j]
  BY <1>5 DEF EntriesIn
<1>7. pools[t][j].chunk = held[a].chunk
  BY <1>5, <1>6 DEF Lies
<1>8. \A k \in 1 .. Len(pools[t]) : pools[t][k].chunk = held[a].chunk => k = j
  BY <1>2, <1>7 DEF Accounts, OnePool
<1>9. i = j
  BY <1>4, <1>7, <1>8 DEF PoolIndex
<1>10. Sound(f.pool, f.size)
  BY <1>2, <1>5 DEF Accounts, PoolsKept
<1> QED
  BY <1>2, <1>3, <1>5, <1>6, <1>7, <1>9, <1>10 DEF Lies

(* A heap has at most as many pools as before when it takes a block back,  *)
(* and the chunk of a pool that goes is the call's.                        *)
LEMMA FreeBlockKeeps ==
  ASSUME MemoryInv, NEW a \in Resources, FreeBlock(a)
  PROVE  MemoryInv'
<1> DEFINE own == OwnOf(held, call)
           t == held[a].type
           i == PoolIndex(pools[t], held[a].chunk)
           e == pools[t][i]
           q == Free(e.pool, held[a].offset)
           ps == WithPool(pools, t, i, q)
           after == [pools[t] EXCEPT ![i].pool = Free(@, held[a].offset)]
           shrunk == Shrunk(pools[t], after, i)
           next == IF shrunk.doomed = 0 THEN Idle ELSE [at |-> "destroy", chunk |-> shrunk.doomed]
           h2 == [held EXCEPT ![a] = None]
<1>1. /\ call[a].at = "free" /\ held[a].offset # Dedicated
      /\ pools' = [pools EXCEPT ![t] = shrunk.rest] /\ held' = h2
      /\ call' = [call EXCEPT ![a] = next] /\ chunks' = chunks
  BY DEF FreeBlock
<1>2. /\ held[a] # None /\ Pooled(held, a) /\ t \in Types /\ pools \in [Types -> Seq(Entry)]
      /\ i \in 1 .. Len(pools[t]) /\ e.chunk = held[a].chunk /\ Sound(e.pool, e.size)
      /\ \E b \in UsedIn(e.pool.phys) : b.offset = held[a].offset
  BY FreedIsPooled
<1>3. /\ Accounts(chunks, pools, held, own) /\ CallsFit(call, held) /\ own \in [Resources -> Chunks \cup {0}]
      /\ DOMAIN held = Resources /\ DOMAIN call = Resources /\ held[a].offset \in Int
  BY <1>2, InvIs DEF MemoryInv, AccountsTyped
<1>4. DOMAIN pools[t] = 1 .. Len(pools[t]) /\ Len(pools[t]) \in Nat
  BY <1>2, EntriesAre
<1>5. ~Alone(held, a) /\ own[a] = 0
  BY <1>1, <1>2 DEF Alone, OwnOf
<1>6. PICK b \in UsedIn(e.pool.phys) : b.offset = held[a].offset
  BY <1>2
<1>8. Sound(q, e.size) /\ UsedIn(q.phys) = UsedIn(e.pool.phys) \ {b}
  BY <1>6, <1>2, FreeIs
<1>9. Accounts(chunks, ps, h2, own)
  <2> HIDE DEF i, q, own
  <2>1. pools[t][i].chunk = held[a].chunk /\ Sound(q, pools[t][i].size) /\ b \in UsedIn(pools[t][i].pool.phys)
        /\ UsedIn(q.phys) = UsedIn(pools[t][i].pool.phys) \ {b}
    BY <1>2, <1>6, <1>8
  <2> QED
    BY <1>2, <1>3, <1>5, <1>6, <2>1, BlockFreedKeeps
<1>10. ps[t] = after /\ ps = [pools EXCEPT ![t] = after] /\ ps \in [Types -> Seq(Entry)]
  <2>1. ps[t] = after /\ ps = [pools EXCEPT ![t] = after]
    BY <1>2, <1>3 DEF WithPool
  <2> QED
    BY <1>9, <2>1 DEF Accounts, AccountsTyped
<1>11. Len(after) = Len(pools[t]) /\ DOMAIN after = 1 .. Len(pools[t])
  <2>1. DOMAIN ps[t] = 1 .. Len(ps[t])
    BY <1>2, <1>3, <1>10, EntriesAre
  <2>2. DOMAIN after = DOMAIN pools[t]
    OBVIOUS
  <2>3. Len(ps[t]) \in Nat
    BY <1>2, <1>3, <1>10, EntriesAre
  <2> HIDE DEF after, ps
  <2> QED
    BY <1>4, <1>10, <2>1, <2>2, <2>3
<1> HIDE DEF i, q, own, after, ps, h2, next
(* A pool that is empty may go. *)
<1>12. ASSUME NEW k \in 1 .. Len(ps[t]), IsEmpty(ps[t][k]), shrunk = WithoutPool(ps[t], k)
       PROVE  MemoryInv'
  <2> DEFINE d == ps[t][k]
  <2>1. d \in EntriesIn(ps, t) /\ d.chunk \in Chunks
    BY <1>2, <1>3, <1>10, EntriesAre
  <2>2. UsedIn(d.pool.phys) = {}
    <3>1. Sound(d.pool, d.size)
      BY <1>2, <1>3, <1>9, <2>1 DEF Accounts, PoolsKept
    <3> QED
      BY <1>12, <3>1, EmptyIs DEF IsEmpty
  <2>3. h2[a] = None
    BY <1>2, <1>3 DEF h2
  <2>4. Accounts(chunks, Rest(ps, t, k), h2, [own EXCEPT ![a] = d.chunk])
    BY <1>2, <1>3, <1>5, <1>9, <2>2, <2>3, PoolDroppedKeeps
  <2>5. pools' = Rest(ps, t, k)
    BY <1>1, <1>2, <1>3, <1>10, <1>12 DEF Rest
  <2>6. shrunk.doomed = d.chunk
    BY <1>12 DEF WithoutPool
  <2> HIDE DEF d, shrunk
  <2>7. d.chunk # 0
    BY <2>1, NumbersOfChunks
  <2>8. next = [at |-> "destroy", chunk |-> d.chunk]
    BY <2>6, <2>7 DEF next
  <2>9. next.at = "destroy" /\ next.chunk = d.chunk /\ next \in Calls
    BY <2>1, <2>8 DEF Calls, Destroying
  <2>10. CallsFit(call', held')
    <3>1. CallFits(next, None)
      BY <2>9 DEF CallFits
    <3>2. CallsFit([call EXCEPT ![a] = next], [held EXCEPT ![a] = None])
      BY <1>2, <1>3, <3>1, CallsFitAfter
    <3> QED
      BY <1>1, <3>2 DEF h2
  <2>11. OwnOf(held', call') = [own EXCEPT ![a] = d.chunk]
    <3>1. OwnAfter(None, next, d.chunk)
      BY <2>9 DEF OwnAfter
    <3>2. Changes(held, held', a, None) /\ Changes(call, call', a, next)
      BY <1>1, <1>2, <1>3 DEF Changes, h2
    <3> QED
      BY <3>1, <3>2, OwnIs DEF own
  <2> QED
    BY <1>1, <2>4, <2>5, <2>10, <2>11 DEF MemoryInv
<1>13. ASSUME shrunk.rest = after, shrunk.doomed = 0
       PROVE  MemoryInv'
  <2>1. pools' = ps
    BY <1>1, <1>10, <1>13
  <2>2. next = Idle
    BY <1>13 DEF next
  <2> HIDE DEF shrunk
  <2>3. CallsFit(call', held')
    <3>1. CallFits(Idle, None)
      BY DEF CallFits, Idle, Calls
    <3>2. CallsFit([call EXCEPT ![a] = Idle], [held EXCEPT ![a] = None])
      BY <1>2, <1>3, <3>1, CallsFitAfter
    <3> QED
      BY <1>1, <2>2, <3>2 DEF h2
  <2>4. OwnOf(held', call') = own
    <3>1. OwnAfter(None, Idle, 0)
      BY DEF OwnAfter, Idle
    <3>2. Changes(held, held', a, None) /\ Changes(call, call', a, Idle)
      BY <1>1, <1>2, <1>3, <2>2 DEF Changes, h2
    <3>3. OwnOf(held', call') = [own EXCEPT ![a] = 0]
      BY <3>1, <3>2, OwnIs DEF own
    <3>4. [own EXCEPT ![a] = 0] = own
      BY <1>2, <1>3, <1>5
    <3> QED
      BY <3>3, <3>4
  <2> QED
    BY <1>1, <1>9, <2>1, <2>3, <2>4 DEF MemoryInv
<1> DEFINE spare == EmptyPools(pools[t]) # {}
<1>14. CASE IsEmpty(after[i]) /\ spare
  <2>1. shrunk = WithoutPool(after, i)
    BY <1>14 DEF Shrunk
  <2> QED
    BY <1>2, <1>10, <1>11, <1>12, <1>14, <2>1
<1>15. CASE ~IsEmpty(after[i]) /\ spare /\ IsEmpty(Last(after))
  <2>1. shrunk = WithoutPool(after, Len(after))
    BY <1>15 DEF Shrunk
  <2>2. Len(after) \in 1 .. Len(after) /\ Last(after) = after[Len(after)]
    BY <1>4, <1>2, <1>11 DEF Last
  <2> QED
    BY <1>10, <1>12, <1>15, <2>1, <2>2
<1>16. CASE ~(IsEmpty(after[i]) /\ spare) /\ ~(~IsEmpty(after[i]) /\ spare /\ IsEmpty(Last(after)))
  <2>1. shrunk = [rest |-> after, doomed |-> 0]
    BY <1>16 DEF Shrunk
  <2> QED
    BY <1>13, <2>1
<1> QED
  BY <1>14, <1>15, <1>16

(* MemoryInv is inductive.                                                 *)
LEMMA StartsAccounted == MemoryInit => MemoryInv
<1> SUFFICES ASSUME MemoryInit PROVE MemoryInv
  OBVIOUS
<1> DEFINE own == OwnOf(held, call)
<1>1. /\ chunks = <<>> /\ pools = [t \in Types |-> <<>>]
      /\ held = [a \in Resources |-> None] /\ call = [a \in Resources |-> Idle]
  BY DEF MemoryInit
<1>2. own = [a \in Resources |-> 0]
  BY <1>1 DEF OwnOf, Alone, Idle
<1> HIDE DEF own
<1>3. DOMAIN chunks = {} /\ \A t \in Types : EntriesIn(pools, t) = {} /\ Len(pools[t]) = 0
  BY <1>1 DEF EntriesIn
<1>4. \A a \in Resources : ~Pooled(held, a) /\ ~Alone(held, a)
  BY <1>1 DEF Pooled, Alone
<1>5. AccountsTyped(chunks, pools, held, own)
  <2>1. pools \in [Types -> Seq(Entry)]
    BY <1>1
  <2>2. held \in [Resources -> {None} \cup Allocation] /\ own \in [Resources -> Chunks \cup {0}]
    BY <1>1, <1>2
  <2> QED
    BY <1>3, <2>1, <2>2 DEF AccountsTyped
<1>6. PoolsKept(chunks, pools) /\ OnePool(pools) /\ RangesKept(pools, held) /\ BlocksKept(pools, held) /\ RangesApart(held)
  BY <1>3, <1>4 DEF PoolsKept, OnePool, RangesKept, BlocksKept, RangesApart
<1>7. ChunksKept(chunks, pools, held, own)
  BY <1>2, <1>3, <1>4 DEF ChunksKept
<1>8. CallsFit(call, held)
  BY <1>1 DEF CallsFit, CallFits, Calls, Idle
<1> QED
  BY <1>5, <1>6, <1>7, <1>8 DEF MemoryInv, Accounts, own

LEMMA KeepsAccounted == PoolsFit /\ MemoryInv /\ [MemoryNext]_memoryVars => MemoryInv'
<1> SUFFICES ASSUME PoolsFit, MemoryInv, [MemoryNext]_memoryVars PROVE MemoryInv'
  OBVIOUS
<1>1. ASSUME NEW a \in Resources, NEW request \in Requests, AllocateFor(a, request) PROVE MemoryInv'
  BY <1>1, CallStarts
<1>2. ASSUME NEW a \in Resources, Release(a) PROVE MemoryInv'
  BY <1>2, CallReleases
<1>3. ASSUME NEW a \in Resources, Continue(a) PROVE MemoryInv'
  BY <1>3, DedicatedKeeps, CallGoesOn, FromPoolKeeps, CreateKeeps, DedicatedFreedKeeps, FreeBlockKeeps, DestroyKeeps DEF Continue
<1>4. CASE UNCHANGED memoryVars
  BY <1>4 DEF memoryVars, MemoryInv
<1> QED
  BY <1>1, <1>2, <1>3, <1>4 DEF MemoryNext

-----------------------------------------------------------------------------
(* The invariants of the runs follow from it. *)
LEMMA InvPools == MemoryInv => PoolsValid
<1> SUFFICES ASSUME MemoryInv, NEW t \in Types, NEW i \in DOMAIN pools[t]
             PROVE  /\ Valid(pools[t][i].pool, pools[t][i].size)
                    /\ PooledBlocks(t, pools[t][i]) = {b.offset : b \in UsedBlocks(pools[t][i].pool)}
  BY DEF PoolsValid
<1> DEFINE e == pools[t][i]
<1>1. Accounts(chunks, pools, held, OwnOf(held, call)) /\ pools \in [Types -> Seq(Entry)]
  BY InvIs DEF MemoryInv
<1>2. i \in 1 .. Len(pools[t]) /\ e \in EntriesIn(pools, t)
  BY <1>1, EntriesAre
<1>3. Sound(e.pool, e.size)
  BY <1>1, <1>2 DEF Accounts, PoolsKept
<1>4. UsedBlocks(e.pool) = UsedIn(e.pool.phys)
  BY <1>3, BlocksAre DEF Sound, WellFormed
<1>5. \A f \in EntriesIn(pools, t) : f.chunk = e.chunk => f = e
  BY <1>1, <1>2 DEF Accounts, OnePool, EntriesIn
<1> HIDE DEF e
<1>6. ASSUME NEW a \in Resources, Pooled(held, a), held[a].type = t, held[a].chunk = e.chunk
      PROVE  \E b \in UsedIn(e.pool.phys) : b.offset = held[a].offset
  <2>1. PICK f \in EntriesIn(pools, t) : Lies(held, a, f)
    BY <1>1, <1>6 DEF Accounts, RangesKept
  <2>2. f = e
    BY <1>5, <1>6, <2>1 DEF Lies
  <2> QED
    BY <2>1, <2>2 DEF Lies
<1>7. ASSUME NEW b \in UsedIn(e.pool.phys)
      PROVE  \E a \in Resources : Pooled(held, a) /\ held[a].type = t /\ held[a].chunk = e.chunk /\ held[a].offset = b.offset
  BY <1>1, <1>2 DEF Accounts, BlocksKept, Has
<1>8. PooledBlocks(t, e) = {held[a].offset : a \in {b \in Resources : Pooled(held, b) /\ held[b].type = t /\ held[b].chunk = e.chunk}}
  BY DEF PooledBlocks, Pooled
<1>9. PooledBlocks(t, e) = {b.offset : b \in UsedIn(e.pool.phys)}
  BY <1>6, <1>7, <1>8
<1> QED
  BY <1>3, <1>4, <1>9, SoundIsValid DEF e

(* Every chunk has one owner.                                              *)
LEMMA InvChunks == MemoryInv => ChunksOwned
<1> SUFFICES ASSUME MemoryInv PROVE ChunksOwned
  OBVIOUS
<1> DEFINE own == OwnOf(held, call)
           P(t, i) == <<"pool", t, i>>
           R(a) == <<"resource", a>>
           C(a) == <<"call", a>>
<1>1. ChunksKept(chunks, pools, held, own) /\ OnePool(pools) /\ pools \in [Types -> Seq(Entry)] /\ DOMAIN chunks \subseteq Chunks
      /\ PoolsKept(chunks, pools)
  BY InvIs DEF MemoryInv, Accounts
<1>2. \A t \in Types : DOMAIN pools[t] = 1 .. Len(pools[t]) /\ \A i \in 1 .. Len(pools[t]) : pools[t][i] \in EntriesIn(pools, t)
  BY <1>1, EntriesAre
<1>3. \A o : o \in Owners <=> \/ \E t \in Types : \E i \in 1 .. Len(pools[t]) : o = P(t, i)
                              \/ \E a \in Resources : Alone(held, a) /\ o = R(a)
                              \/ \E a \in Resources : call[a].at = "destroy" /\ o = C(a)
  <2>1. \A o : o \in Owners <=> \/ \E t \in Types : \E i \in DOMAIN pools[t] : o = P(t, i)
                                \/ \E a \in Resources : Alone(held, a) /\ o = R(a)
                                \/ \E a \in Resources : call[a].at = "destroy" /\ o = C(a)
    <3> DEFINE A == UNION {{<<"pool", t, i>> : i \in DOMAIN pools[t]} : t \in Types}
               B == {<<"resource", a>> : a \in {b \in Resources : held[b] # None /\ held[b].offset = Dedicated}}
               D == {<<"call", a>> : a \in {b \in Resources : call[b].at = "destroy"}}
    <3>1. \A o : o \in A <=> \E t \in Types : \E i \in DOMAIN pools[t] : o = P(t, i)
      <4> DEFINE Slots(t) == {P(t, i) : i \in DOMAIN pools[t]}
      <4>1. A = UNION {Slots(t) : t \in Types}
        OBVIOUS
      <4> HIDE DEF A
      <4>2. \A o, t : o \in Slots(t) <=> \E i \in DOMAIN pools[t] : o = P(t, i)
        OBVIOUS
      <4> HIDE DEF Slots, P
      <4>3. \A o : o \in A <=> \E t \in Types : o \in Slots(t)
        BY <4>1
      <4> QED
        BY <4>2, <4>3
    <3>2. \A o : o \in B <=> \E a \in Resources : Alone(held, a) /\ o = R(a)
      BY DEF Alone
    <3>3. \A o : o \in D <=> \E a \in Resources : call[a].at = "destroy" /\ o = C(a)
      OBVIOUS
    <3>4. Owners = A \cup B \cup D
      BY DEF Owners
    <3> HIDE DEF A, B, D
    <3> QED
      BY <3>1, <3>2, <3>3, <3>4
  <2> QED
    BY <1>2, <2>1
<1>4. \A t, i : OwnedBy(P(t, i)) = pools[t][i].chunk
  BY DEF OwnedBy
<1>5. \A a : OwnedBy(R(a)) = held[a].chunk /\ OwnedBy(C(a)) = call[a].chunk
  BY DEF OwnedBy
<1>6. ASSUME NEW a \in Resources, Alone(held, a)
      PROVE  OwnedBy(R(a)) = own[a] /\ own[a] # 0 /\ call[a].at # "destroy"
  <2>1. held[a] # None /\ held[a].chunk \in Chunks /\ own[a] = held[a].chunk
    BY <1>6, InvIs DEF Alone, OwnOf
  <2>2. call[a].at # "destroy"
    BY <2>1, InvIs DEF CallFits
  <2> QED
    BY <1>5, <2>1, <2>2, NumbersOfChunks
<1>7. ASSUME NEW a \in Resources, call[a].at = "destroy"
      PROVE  OwnedBy(C(a)) = own[a] /\ own[a] # 0 /\ ~Alone(held, a)
  <2>1. held[a] = None /\ call[a].chunk \in Chunks
    BY <1>7, InvIs, CallIs DEF CallFits
  <2>2. own[a] = call[a].chunk
    BY <1>7, <2>1 DEF OwnOf, Alone
  <2> QED
    BY <1>5, <2>1, <2>2, NumbersOfChunks DEF Alone
<1>8. \A a \in Resources : own[a] # 0 => Alone(held, a) \/ call[a].at = "destroy"
  BY DEF OwnOf
<1> HIDE DEF own, P, R, C
<1>9. DOMAIN chunks = {OwnedBy(o) : o \in Owners}
  <2>1. ASSUME NEW c \in DOMAIN chunks PROVE \E o \in Owners : OwnedBy(o) = c
    <3>1. CASE \E t \in Types : \E e \in EntriesIn(pools, t) : e.chunk = c
      <4>1. PICK t \in Types : \E i \in 1 .. Len(pools[t]) : pools[t][i].chunk = c
        BY <3>1 DEF EntriesIn
      <4> QED
        BY <1>3, <1>4, <4>1
    <3>2. CASE \E a \in Resources : own[a] = c
      <4>1. PICK a \in Resources : own[a] = c
        BY <3>2
      <4>2. own[a] # 0
        BY <1>1, <4>1, NumbersOfChunks
      <4>3. CASE Alone(held, a)
        BY <1>3, <1>6, <4>1, <4>3
      <4>4. CASE call[a].at = "destroy"
        BY <1>3, <1>7, <4>1, <4>4
      <4> QED
        BY <1>8, <4>2, <4>3, <4>4
    <3> QED
      BY <1>1, <3>1, <3>2 DEF ChunksKept
  <2>2. ASSUME NEW o \in Owners PROVE OwnedBy(o) \in DOMAIN chunks
    <3>1. CASE \E t \in Types : \E i \in 1 .. Len(pools[t]) : o = P(t, i)
      BY <1>1, <1>2, <1>4, <3>1 DEF PoolsKept
    <3>2. CASE \E a \in Resources : Alone(held, a) /\ o = R(a)
      BY <1>1, <1>6, <3>2 DEF ChunksKept
    <3>3. CASE \E a \in Resources : call[a].at = "destroy" /\ o = C(a)
      BY <1>1, <1>7, <3>3 DEF ChunksKept
    <3> QED
      BY <1>3, <3>1, <3>2, <3>3
  <2> QED
    BY <2>1, <2>2
<1>10. ASSUME NEW o \in Owners, NEW p \in Owners, OwnedBy(o) = OwnedBy(p) PROVE o = p
  <2>1. \/ \E t \in Types : \E i \in 1 .. Len(pools[t]) : o = P(t, i) /\ OwnedBy(o) = pools[t][i].chunk
        \/ \E a \in Resources : own[a] # 0 /\ OwnedBy(o) = own[a]
                                /\ ((Alone(held, a) /\ o = R(a)) \/ (~Alone(held, a) /\ o = C(a)))
    BY <1>3, <1>4, <1>6, <1>7
  <2>2. \/ \E t \in Types : \E i \in 1 .. Len(pools[t]) : p = P(t, i) /\ OwnedBy(p) = pools[t][i].chunk
        \/ \E a \in Resources : own[a] # 0 /\ OwnedBy(p) = own[a]
                                /\ ((Alone(held, a) /\ p = R(a)) \/ (~Alone(held, a) /\ p = C(a)))
    BY <1>3, <1>4, <1>6, <1>7
  <2>3. \A t \in Types : \A i \in 1 .. Len(pools[t]) : \A a \in Resources : pools[t][i].chunk # own[a]
    BY <1>1, <1>2 DEF ChunksKept
  <2>4. \A t, u \in Types : \A i \in 1 .. Len(pools[t]) : \A j \in 1 .. Len(pools[u]) :
          pools[t][i].chunk = pools[u][j].chunk => t = u /\ i = j
    BY <1>1 DEF OnePool
  <2>5. \A a, b \in Resources : own[a] = own[b] /\ own[a] # 0 => a = b
    BY <1>1 DEF ChunksKept
  <2> QED
    BY <1>10, <2>1, <2>2, <2>3, <2>4, <2>5
<1> QED
  BY <1>9, <1>10 DEF ChunksOwned

(* The least class floor that is not below a size is not below the size    *)
(* that is searched for.                                                   *)
LEMMA FloorIs ==
  ASSUME NEW worst \in MinSize .. WordSize, NEW k \in LogMin .. LogWord, NEW j \in 0 .. SlCount - 1,
         NEW f, f = Power[k] + j * (Power[k] \div SlCount), worst <= f
  PROVE  f \in Nat /\ AlignUp(worst, Power[Log2[worst] - Log2[SlCount]]) <= f
<1> DEFINE n == AlignUp(worst, Power[Log2[worst] - Log2[SlCount]])
           l == Log2[worst]
           w == Width(l)
           v == Width(k)
           s == SlCount
<1>1. /\ LogMin \in 1 .. 8 /\ LogWord \in 1 .. 32 /\ LogSl \in 0 .. 5 /\ LogSl <= LogMin /\ s \in Nat /\ s > 0
      /\ MinSize \in Nat /\ WordSize \in Nat /\ MinSize < WordSize
  BY CountsAre
<1>2. n < worst + w /\ \E q \in Nat : n = q * w
  BY SearchIs
<1>3. l \in LogMin .. 33 /\ worst \in Sizes
  <2>1. worst \in MinSize .. 2 * WordSize
    BY <1>1
  <2> QED
    BY <2>1, ClassIs
<1>4. Power[l] <= worst
  BY <1>3, LogIs
<1>5. v \in Nat /\ v > 0 /\ Power[k] = s * v /\ Power[k] \div s = v
  <2>1. v \in Nat /\ v > 0 /\ Power[k] = s * v
    BY <1>1, WidthIs
  <2>2. (v * s + 0) \div s = v
    BY <1>1, <2>1, Remainder
  <2> HIDE DEF s, v
  <2> QED
    BY <1>1, <2>1, <2>2
<1>6. w \in Nat /\ w > 0
  BY <1>1, <1>3, WidthIs
<1>7. f = s * v + j * v
  BY <1>5
<1> HIDE DEF s, v, n
<1>8. f \in Nat /\ f < 2 * (s * v)
  <2>1. j \in Nat /\ j < s
    BY <1>1 DEF s
  <2>2. j * v \in Nat /\ j * v < s * v
    BY <1>1, <1>5, <2>1
  <2>3. s * v \in Nat
    BY <1>1, <1>5
  <2> HIDE DEF w
  <2> QED
    BY <1>7, <2>2, <2>3
<1>9. l <= k
  <2> SUFFICES ASSUME k < l PROVE FALSE
    BY <1>1, <1>3
  <2>1. k \in 0 .. 34 /\ l \in 0 .. 34
    BY <1>1, <1>3
  <2> HIDE DEF l
  <2>4. k < l /\ k <= l
    BY <2>1
  <2>2. 2 * Power[k] <= Power[l]
    BY ONLY <2>1, <2>4, PowerAscends
  <2>3. Power[k] \in Nat /\ Power[l] \in Nat
    BY <2>1, PowerTyped
  <2> QED
    BY <1>1, <1>4, <1>5, <1>8, <2>2, <2>3
<1>10. PICK m \in Nat : f = m * w
  <2> DEFINE x == l - LogSl
             y == k - LogSl
             z == Power[y - x]
  <2>1. x \in 0 .. 34 /\ y \in 0 .. 34 /\ x <= y
    BY <1>1, <1>3, <1>9
  <2> HIDE DEF x, y
  <2>2. Power[y] = z * Power[x] /\ z \in Nat
    BY <2>1, PowerAscends
  <2>3. v = z * w
    BY <2>2 DEF v, Width, x, y
  <2> HIDE DEF z, w
  <2>4. f = ((s + j) * z) * w /\ (s + j) * z \in Nat
    BY <1>1, <1>6, <1>7, <2>2, <2>3
  <2> QED
    BY <2>4
<1>11. PICK q \in Nat : n = q * w
  BY <1>2
<1> HIDE DEF w, l
<1>12. q * w < m * w + w
  BY <1>1, <1>2, <1>6, <1>8, <1>10, <1>11
<1>13. q <= m
  <2> SUFFICES ASSUME m + 1 <= q PROVE FALSE
    OBVIOUS
  <2>1. (m + 1) * w <= q * w
    BY <1>6
  <2> QED
    BY <1>6, <1>12, <2>1
<1>14. q * w <= m * w
  BY <1>6, <1>13
<1> QED
  BY <1>8, <1>10, <1>11, <1>14 DEF n, l

(* The least size of the class that the search starts from.                *)
LEMMA ClassFloorIs ==
  ASSUME NEW worst \in MinSize .. WordSize
  PROVE  AlignUp(worst, Power[Log2[worst] - Log2[SlCount]]) <= ClassFloor[worst] /\ ClassFloor[worst] \in Nat
<1> DEFINE S == {n \in ClassFloors : n >= worst}
<1>1. /\ LogMin \in 1 .. 8 /\ LogWord \in 1 .. 32 /\ LogMin < LogWord /\ WordSize = Power[LogWord]
      /\ MinSize \in Nat /\ MinSize > 1 /\ WordSize \in Nat /\ SlCount \in Nat /\ SlCount > 0
  BY CountsAre
<1>2. \A f \in S : \E k \in LogMin .. LogWord, j \in 0 .. SlCount - 1 : f = Power[k] + j * (Power[k] \div SlCount)
  BY DEF ClassFloors, LogMin, LogWord
<1>3. \A f \in S : f \in Nat /\ AlignUp(worst, Power[Log2[worst] - Log2[SlCount]]) <= f
  <2> SUFFICES ASSUME NEW f \in S
               PROVE  f \in Nat /\ AlignUp(worst, Power[Log2[worst] - Log2[SlCount]]) <= f
    OBVIOUS
  <2>1. PICK k \in LogMin .. LogWord, j \in 0 .. SlCount - 1 : f = Power[k] + j * (Power[k] \div SlCount)
    BY <1>2
  <2>2. f \in Nat
    <3>1. Power[k] \in Nat
      BY <1>1, PowerTyped
    <3>2. Power[k] \div SlCount \in Nat
      BY <1>1, <3>1, Quotient
    <3>3. j \in Nat
      BY <1>1
    <3>4. j * (Power[k] \div SlCount) \in Nat
      BY <3>2, <3>3
    <3> QED
      BY <2>1, <3>1, <3>4
  <2>3. worst <= f
    BY <1>1, <2>2
  <2> QED
    BY <2>1, <2>3, FloorIs
<1>4. WordSize \in S
  <2>1. WordSize = Power[LogWord] + 0 * (Power[LogWord] \div SlCount)
    <3>1. Power[LogWord] \div SlCount \in Nat
      BY <1>1, Quotient
    <3> QED
      BY <1>1, <3>1
  <2>2. LogWord \in LogMin .. LogWord /\ 0 \in 0 .. SlCount - 1
    BY <1>1
  <2>3. WordSize \in ClassFloors
    BY <2>1, <2>2 DEF ClassFloors, LogMin, LogWord
  <2> QED
    BY <1>1, <2>3
<1>5. Min(S) \in S
  BY <1>3, <1>4, LeastOf
<1>6. worst \in 1 .. WordSize
  BY <1>1
<1>7. ClassFloor[worst] = Min(S)
  BY <1>6 DEF ClassFloor
<1> QED
  BY <1>3, <1>5, <1>7

Fits(pool, total, request) ==
  LET alignment == AlignmentOf(request)
      size  == IF request.size < MinSize THEN MinSize ELSE request.size
      found == Allocate(pool, request.size, alignment)
  IN  request.size < total /\ alignment <= AlignmentLimit =>
        IF found = NoBlock
        THEN \A b \in FreeBlocks(pool) : b.size < ClassFloor[size + alignment - 1]
        ELSE LET block == found.pool.phys[IndexOf(found.pool, found.offset)] IN
             /\ block.offset % alignment = 0
             /\ block.size >= request.size /\ block.size < AlignUp(size, MinSize) + MinSize
             /\ \E b \in FreeBlocks(pool) :
                  b.offset <= block.offset /\ block.offset + block.size <= b.offset + b.size

(* The good fit, of every request in every pool.                           *)
LEMMA InvFit == MemoryInv => GoodFit
<1> SUFFICES ASSUME MemoryInv, NEW t \in Types, NEW i \in DOMAIN pools[t], NEW request \in Requests
             PROVE  Fits(pools[t][i].pool, pools[t][i].size, request)
  BY DEF GoodFit, Fits
<1> SUFFICES ASSUME request.size < pools[t][i].size, AlignmentOf(request) <= AlignmentLimit
             PROVE  LET pool  == pools[t][i].pool
                        alignment == AlignmentOf(request)
                        size  == AtLeastMin(request.size)
                        found == Allocate(pool, request.size, alignment)
                    IN  IF found = NoBlock
                        THEN \A b \in FreeBlocks(pool) : b.size < ClassFloor[size + alignment - 1]
                        ELSE LET block == found.pool.phys[IndexOf(found.pool, found.offset)] IN
                             /\ block.offset % alignment = 0
                             /\ block.size >= request.size /\ block.size < AlignUp(size, MinSize) + MinSize
                             /\ \E b \in FreeBlocks(pool) :
                                  b.offset <= block.offset /\ block.offset + block.size <= b.offset + b.size
  BY DEF Fits, AtLeastMin
<1> DEFINE e == pools[t][i]
           pool == e.pool
           alignment == AlignmentOf(request)
           size == AtLeastMin(request.size)
           worst == size + alignment - 1
           found == Allocate(pool, request.size, alignment)
<1>1. Accounts(chunks, pools, held, OwnOf(held, call)) /\ pools \in [Types -> Seq(Entry)]
  BY InvIs DEF MemoryInv
<1>2. e \in EntriesIn(pools, t) /\ e.size \in PoolSizes
  BY <1>1, EntriesAre
<1>3. Sound(pool, e.size)
  BY <1>1, <1>2 DEF Accounts, PoolsKept
<1>4. FreeBlocks(pool) = FreeIn(pool.phys)
  BY <1>3, BlocksAre DEF Sound, WellFormed
<1>5. request.size \in Nat \ {0} /\ alignment \in Nat \ {0}
  BY RequestIs
<1>6. PICK a \in 0 .. 32 : alignment = Power[a]
  BY RequestIs
<1>7. worst \in MinSize .. WordSize /\ request.size <= size /\ RoundingFits(e.size, size, alignment)
  BY <1>2, RequestFits
<1>8. MinSize \in Nat /\ MinSize > 1 /\ size \in Nat
  BY <1>5, CountsAre DEF AtLeastMin
<1> HIDE DEF e, size
<1>9. AlignUp(worst, Power[Log2[worst] - Log2[SlCount]]) <= ClassFloor[worst] /\ ClassFloor[worst] \in Nat
  BY <1>7, ClassFloorIs
<1>10. SearchSize(size, alignment) = AlignUp(worst, Power[Log2[worst] - Log2[SlCount]])
  BY DEF SearchSize
<1> HIDE DEF worst, alignment
<1>11. \/ found = NoBlock /\ \A b \in FreeIn(pool.phys) : b.size < SearchSize(size, alignment)
       \/ found # NoBlock /\ Given(pool, found, size, alignment, e.size)
  <2>1. size + Power[a] - 1 <= WordSize
    BY <1>6, <1>7, CountsAre DEF worst
  <2>2. AtLeastMin(request.size) + Power[a] - 1 <= WordSize /\ RoundingFits(e.size, AtLeastMin(request.size), Power[a])
    BY <1>6, <1>7, <2>1 DEF size
  <2> QED
    BY <1>3, <1>5, <1>6, <2>2, AllocateIs DEF size
<1> HIDE DEF found
<1>12. CASE found = NoBlock
  <2> SUFFICES ASSUME NEW b \in FreeIn(pool.phys) PROVE b.size < ClassFloor[worst]
    BY <1>4, <1>12 DEF worst, size, alignment, found, e
  <2>1. b.size < SearchSize(size, alignment)
    BY <1>11, <1>12
  <2>2. b.size \in Nat /\ SearchSize(size, alignment) \in Nat
    <3>1. b.size \in MinSize .. WordSize - 1
      BY <1>3, FreeIsMarked DEF Sound
    <3>2. SearchSize(size, alignment) \in MinSize .. 2 * WordSize
      BY <1>7, <1>10, SearchIs
    <3> QED
      BY <1>8, <3>1, <3>2, CountsAre
  <2> QED
    BY <1>9, <1>10, <2>1, <2>2
<1>13. CASE found # NoBlock
  <2>1. Given(pool, found, size, alignment, e.size)
    BY <1>11, <1>13
  <2>2. PICK c \in Members(found.pool.phys) :
          /\ c.offset = found.offset /\ c.offset % alignment = 0 /\ c.size < AlignUp(size, MinSize) + MinSize /\ size <= c.size
          /\ \E b \in FreeIn(pool.phys) : b.offset <= c.offset /\ c.offset + c.size <= b.offset + b.size
    BY <2>1 DEF Given
  <2>3. found.pool.phys[IndexOf(found.pool, found.offset)] = c
    <3>1. WellFormed(found.pool, e.size)
      BY <2>1 DEF Given, Sound
    <3>2. PICK k \in 1 .. Len(found.pool.phys) : c = found.pool.phys[k]
      BY <2>2 DEF Members
    <3>3. IndexOf(found.pool, found.pool.phys[k].offset) = k
      BY <3>1, IndexIs
    <3> QED
      BY <2>2, <3>2, <3>3
  <2>4. c.size >= request.size /\ c.size < AlignUp(size, MinSize) + MinSize
    <3>1. c \in Block
      <4>1. found.pool.phys \in Seq(Block)
        BY <2>1 DEF Given, Sound, WellFormed, Tiles
      <4>2. PICK k \in 1 .. Len(found.pool.phys) : c = found.pool.phys[k]
        BY <2>2 DEF Members
      <4> QED
        BY <4>1, <4>2, BlockIs
    <3>2. c.size \in Nat
      BY <3>1 DEF Block
    <3>3. c.size < AlignUp(size, MinSize) + MinSize /\ size <= c.size
      BY <2>2
    <3> QED
      BY <1>5, <1>7, <1>8, <3>2, <3>3
  <2> QED
    BY <1>4, <1>13, <2>2, <2>3, <2>4 DEF size, alignment, found, e
<1> QED
  BY <1>12, <1>13

(* The heaps account for all of the device memory, by pool, block, chunk   *)
(* and owner, and find the free block of a good fit, provided that their   *)
(* pools fit the requests.                                                 *)
THEOREM MemoryIsAccounted ==
  ASSUME PoolsFit
  PROVE  MemorySpec => []MemoryAccounted
<1>1. MemoryInv => MemoryAccounted
  BY InvPools, InvChunks, InvFit DEF MemoryAccounted
<1>2. MemoryInv /\ [MemoryNext]_memoryVars => MemoryInv'
  BY KeepsAccounted
<1> QED
  BY <1>1, <1>2, StartsAccounted, PTL DEF MemorySpec
-----------------------------------------------------------------------------
(* The allocator implements its abstract specification. *)
RangeAt(x) ==
  IF x = None THEN None
  ELSE [chunk |-> x.chunk, offset |-> IF x.offset = Dedicated THEN 0 ELSE x.offset, size |-> x.size, alignment |-> x.alignment]

(* The range of memory that the abstract allocator sees of an allocation.  *)
LEMMA RangeIs ==
  ASSUME NEW x \in Allocation
  PROVE  /\ RangeAt(x) # None /\ RangeAt(x).chunk = x.chunk /\ RangeAt(x).size = x.size /\ RangeAt(x).alignment = x.alignment
         /\ x.offset = Dedicated => RangeAt(x).offset = 0
         /\ x.offset # Dedicated => RangeAt(x).offset = x.offset
         /\ x.chunk \in Chunks /\ x.size \in Nat \ {0} /\ x.alignment \in Nat \ {0} /\ x.offset \in Int
<1>1. x # None /\ x.chunk \in Chunks /\ x.size \in Nat \ {0} /\ x.alignment \in Nat \ {0} /\ x.offset \in Int
  BY NotNone DEF Allocation
<1>2. RangeAt(x) = [chunk |-> x.chunk, offset |-> IF x.offset = Dedicated THEN 0 ELSE x.offset, size |-> x.size, alignment |-> x.alignment]
  BY <1>1 DEF RangeAt
<1>3. RangeAt(x).chunk # 0 /\ None.chunk = 0
  BY <1>1, <1>2, NumbersOfChunks DEF None
<1> QED
  BY <1>1, <1>2, <1>3

(* The block of a pool that a resource has. *)
LEMMA BlockHeld ==
  ASSUME MemoryInv, NEW a \in Resources, Pooled(held, a)
  PROVE  \E e \in EntriesIn(pools, held[a].type) : \E i \in 1 .. Len(e.pool.phys) :
           /\ Tiles(e.pool.phys, e.size) /\ e.chunk = held[a].chunk
           /\ e.chunk \in DOMAIN chunks /\ chunks[e.chunk] = e.size
           /\ e.pool.phys[i].offset = held[a].offset /\ held[a].size <= e.pool.phys[i].size
           /\ e.pool.phys[i].offset % held[a].alignment = 0
<1>1. Accounts(chunks, pools, held, OwnOf(held, call)) /\ held[a].type \in Types
  BY InvIs DEF MemoryInv, Pooled
<1>2. PICK e \in EntriesIn(pools, held[a].type) : Lies(held, a, e)
  BY <1>1 DEF Accounts, RangesKept
<1>3. PICK b \in UsedIn(e.pool.phys) : b.offset = held[a].offset /\ held[a].size <= b.size /\ b.offset % held[a].alignment = 0
  BY <1>2 DEF Lies
<1>4. Tiles(e.pool.phys, e.size) /\ e.chunk \in DOMAIN chunks /\ chunks[e.chunk] = e.size
  BY <1>1, <1>2 DEF Accounts, PoolsKept, Sound, WellFormed
<1>5. PICK i \in 1 .. Len(e.pool.phys) : b = e.pool.phys[i]
  BY <1>4, InIs DEF Tiles, Members
<1> QED
  BY <1>2, <1>3, <1>4, <1>5 DEF Lies

(* It lies within its chunk, aligned.                                      *)
LEMMA RangeWithin ==
  ASSUME MemoryInv, NEW a \in Resources, held[a] # None
  PROVE  Abstract!Within(RangeAt(held[a]), chunks)
<1> DEFINE x == held[a]
           r == RangeAt(x)
<1>1. x \in Allocation
  BY InvIs
<1>2. /\ r.chunk = x.chunk /\ r.size = x.size /\ r.alignment = x.alignment
      /\ x.offset = Dedicated => r.offset = 0
      /\ x.offset # Dedicated => r.offset = x.offset
      /\ x.chunk \in Chunks /\ x.size \in Nat \ {0} /\ x.alignment \in Nat \ {0}
  BY <1>1, RangeIs
<1> HIDE DEF r
<1>3. CASE x.offset = Dedicated
  <2> DEFINE own == OwnOf(held, call)
  <2>1. Alone(held, a) /\ own[a] = x.chunk
    BY <1>3 DEF Alone, OwnOf
  <2>2. x.chunk \in DOMAIN chunks /\ chunks[x.chunk] = x.size
    <3>1. ChunksKept(chunks, pools, held, own)
      BY DEF MemoryInv, Accounts
    <3>2. own[a] # 0
      BY <1>2, <2>1, NumbersOfChunks
    <3> HIDE DEF own
    <3> QED
      BY <2>1, <3>1, <3>2 DEF ChunksKept
  <2>3. r.offset = 0 /\ 0 % r.alignment = 0
    BY <1>2, <1>3
  <2> QED
    BY <1>2, <2>2, <2>3 DEF Abstract!Within, r
<1>4. CASE x.offset # Dedicated
  <2>1. Pooled(held, a)
    BY <1>4 DEF Pooled
  <2>2. PICK e \in EntriesIn(pools, x.type) : \E i \in 1 .. Len(e.pool.phys) :
           /\ Tiles(e.pool.phys, e.size) /\ e.chunk = x.chunk
           /\ e.chunk \in DOMAIN chunks /\ chunks[e.chunk] = e.size
           /\ e.pool.phys[i].offset = x.offset /\ x.size <= e.pool.phys[i].size
           /\ e.pool.phys[i].offset % x.alignment = 0
    BY <2>1, BlockHeld
  <2>3. PICK i \in 1 .. Len(e.pool.phys) :
           /\ Tiles(e.pool.phys, e.size) /\ e.chunk = x.chunk
           /\ e.chunk \in DOMAIN chunks /\ chunks[e.chunk] = e.size
           /\ e.pool.phys[i].offset = x.offset /\ x.size <= e.pool.phys[i].size
           /\ e.pool.phys[i].offset % x.alignment = 0
    BY <2>2
  <2> DEFINE b == e.pool.phys[i]
  <2>4. b.offset \in Nat /\ b.size \in Nat /\ b.offset + b.size <= e.size /\ e.size \in Nat
    BY <2>3, TilesApart, BlockIs DEF Tiles
  <2>5. r.chunk \in DOMAIN chunks /\ chunks[r.chunk] = e.size /\ r.offset = b.offset /\ r.offset % r.alignment = 0
    BY <1>2, <1>4, <2>3
  <2>6. r.size \in Nat /\ r.size <= b.size
    BY <1>2, <2>3
  <2> HIDE DEF b
  <2>7. r.offset >= 0 /\ r.offset + r.size <= chunks[r.chunk]
    BY <2>4, <2>5, <2>6
  <2>8. Abstract!Within(r, chunks)
    BY <2>5, <2>7 DEF Abstract!Within
  <2> QED
    BY <2>8 DEF r
<1> QED
  BY <1>3, <1>4 DEF r

(* Those of two resources do not overlap: in one pool they are different   *)
(* blocks, in different pools different chunks.                            *)
LEMMA RangesNotOverlap ==
  ASSUME MemoryInv, NEW a \in Resources, NEW b \in Resources, a # b, held[a] # None, held[b] # None
  PROVE  ~Abstract!Overlap(RangeAt(held[a]), RangeAt(held[b]))
<1> SUFFICES ASSUME held[a].chunk = held[b].chunk, Abstract!Overlap(RangeAt(held[a]), RangeAt(held[b])) PROVE FALSE
  <2>1. RangeAt(held[a]).chunk = held[a].chunk /\ RangeAt(held[b]).chunk = held[b].chunk
    BY InvIs, RangeIs
  <2> QED
    BY <2>1 DEF Abstract!Overlap
<1> DEFINE own == OwnOf(held, call)
<1>1. Accounts(chunks, pools, held, own)
  BY DEF MemoryInv
<1>2. held[a] \in Allocation /\ held[b] \in Allocation /\ held[a].chunk \in Chunks
      /\ held[a].type \in Types /\ held[b].type \in Types
  BY InvIs
<1>3. held[a].chunk # 0
  BY <1>2, NumbersOfChunks
<1>4. \A c \in Resources : Alone(held, c) => own[c] = held[c].chunk
  BY DEF OwnOf
<1> HIDE DEF own
<1>5. \A t \in Types : \A e \in EntriesIn(pools, t) : \A c \in Resources : e.chunk # own[c]
  BY <1>1 DEF Accounts, ChunksKept
<1>6. \A c \in Resources : Pooled(held, c) /\ held[c].type \in Types =>
        \E e \in EntriesIn(pools, held[c].type) : e.chunk = held[c].chunk
  BY <1>1 DEF Accounts, RangesKept, Lies
<1>7. Pooled(held, a) /\ Pooled(held, b)
  <2>1. (Alone(held, a) \/ Pooled(held, a)) /\ (Alone(held, b) \/ Pooled(held, b))
    BY DEF Alone, Pooled
  <2>2. ~(Alone(held, a) /\ Alone(held, b))
    BY <1>1, <1>3, <1>4 DEF Accounts, ChunksKept
  <2>3. ~(Alone(held, a) /\ Pooled(held, b))
    BY <1>2, <1>4, <1>5, <1>6
  <2>4. ~(Pooled(held, a) /\ Alone(held, b))
    BY <1>2, <1>4, <1>5, <1>6
  <2> QED
    BY <2>1, <2>2, <2>3, <2>4
<1>8. PICK e \in EntriesIn(pools, held[a].type) : \E i \in 1 .. Len(e.pool.phys) :
        /\ Tiles(e.pool.phys, e.size) /\ e.chunk = held[a].chunk
        /\ e.pool.phys[i].offset = held[a].offset /\ held[a].size <= e.pool.phys[i].size
  BY <1>7, BlockHeld
<1>9. PICK f \in EntriesIn(pools, held[b].type) : \E j \in 1 .. Len(f.pool.phys) :
        /\ f.chunk = held[b].chunk
        /\ f.pool.phys[j].offset = held[b].offset /\ held[b].size <= f.pool.phys[j].size
  BY <1>7, BlockHeld
<1>10. e = f
  <2>1. PICK k \in 1 .. Len(pools[held[a].type]) : e = pools[held[a].type][k]
    BY <1>8 DEF EntriesIn
  <2>2. PICK l \in 1 .. Len(pools[held[b].type]) : f = pools[held[b].type][l]
    BY <1>9 DEF EntriesIn
  <2>3. e.chunk = f.chunk
    BY <1>8, <1>9
  <2>4. OnePool(pools)
    BY <1>1 DEF Accounts
  <2>5. held[a].type = held[b].type /\ k = l
    BY <1>2, <2>1, <2>2, <2>3, <2>4 DEF OnePool
  <2> QED
    BY <2>1, <2>2, <2>5
<1> DEFINE P == e.pool.phys
<1>11. PICK i \in 1 .. Len(P) : P[i].offset = held[a].offset /\ held[a].size <= P[i].size
  BY <1>8
<1>12. PICK j \in 1 .. Len(P) : P[j].offset = held[b].offset /\ held[b].size <= P[j].size
  BY <1>9, <1>10
<1>13. Tiles(P, e.size) /\ Len(P) \in Nat
  BY <1>8, TilesApart
<1>14. held[a].offset # held[b].offset
  BY <1>1, <1>7 DEF Accounts, RangesApart
<1>15. RangeAt(held[a]).offset = P[i].offset /\ RangeAt(held[a]).size <= P[i].size
       /\ RangeAt(held[b]).offset = P[j].offset /\ RangeAt(held[b]).size <= P[j].size
       /\ RangeAt(held[a]).size \in Nat /\ RangeAt(held[b]).size \in Nat
  BY <1>2, <1>7, <1>11, <1>12, RangeIs DEF Pooled
<1>16. P[i].offset \in Nat /\ P[i].size \in Nat /\ P[j].offset \in Nat /\ P[j].size \in Nat
  BY <1>13, BlockIs DEF Tiles
<1>17. i < j \/ j < i
  BY <1>11, <1>12, <1>13, <1>14
<1>18. P[i].offset + P[i].size <= P[j].offset \/ P[j].offset + P[j].size <= P[i].offset
  BY <1>13, <1>17, TilesApart
<1>19. RangeAt(held[a]).offset < RangeAt(held[b]).offset + RangeAt(held[b]).size
       /\ RangeAt(held[b]).offset < RangeAt(held[a]).offset + RangeAt(held[a]).size
  BY DEF Abstract!Overlap
<1> HIDE DEF P
<1> QED
  BY <1>15, <1>16, <1>18, <1>19, SMTT(30)
(* The steps, seen from the abstract specification. *)
LEMMA RangeOfIs == \A a \in Resources : RangeOf(a) = RangeAt(held[a])
BY DEF RangeOf, RangeAt

(* The same of the next state.                                             *)
LEMMA RangeOfIsNext == \A a \in Resources : RangeOf(a)' = RangeAt(held'[a])
BY DEF RangeOf, RangeAt

LEMMA RangeNone == RangeAt(None) = None
BY DEF RangeAt

(* A chunk that the device gives or takes back is a growth or a shrinkage  *)
(* of the abstract memory.                                                 *)
LEMMA ChunkComes ==
  ASSUME NEW c \in Chunks \ DOMAIN chunks, NEW size, Grown(chunks, chunks', c, size)
  PROVE  Abstract!Grow
BY DEF Abstract!Grow, Grown

LEMMA ChunkGoes ==
  ASSUME MemoryInv', NEW c \in DOMAIN chunks, ChunkFreed(c)
  PROVE  Abstract!Shrink
<1>1. chunks' = [d \in DOMAIN chunks \ {c} |-> chunks[d]]
  BY DEF ChunkFreed
<1>2. ASSUME NEW a \in Resources, RangeOf(a)' # None PROVE RangeOf(a)'.chunk # c
  <2>1. held'[a] # None
    BY <1>2, RangeOfIsNext, RangeNone
  <2>2. held'[a] \in {None} \cup Allocation /\ Abstract!Within(RangeAt(held'[a]), chunks')
    <3>1. held'[a] \in {None} \cup Allocation
      BY DEF MemoryInv, Accounts, AccountsTyped
    <3>2. (MemoryInv /\ held[a] # None => Abstract!Within(RangeAt(held[a]), chunks))'
      BY RangeWithin, PTL
    <3> QED
      BY <2>1, <3>1, <3>2
  <2>3. RangeAt(held'[a]).chunk \in DOMAIN chunks'
    BY <2>2 DEF Abstract!Within
  <2> QED
    BY <1>1, <2>3, RangeOfIsNext
<1> QED
  BY <1>1, <1>2 DEF Abstract!Shrink, Abstract!Unused

LEMMA NoOverlapNext ==
  ASSUME MemoryInv', NEW a \in Resources, NEW b \in Resources, a # b, held'[a] # None, held'[b] # None
  PROVE  ~Abstract!Overlap(RangeAt(held'[a]), RangeAt(held'[b])) /\ Abstract!Within(RangeAt(held'[a]), chunks')
<1>1. (MemoryInv /\ a # b /\ held[a] # None /\ held[b] # None => ~Abstract!Overlap(RangeAt(held[a]), RangeAt(held[b])))'
  BY RangesNotOverlap, PTL
<1>2. (MemoryInv /\ held[a] # None => Abstract!Within(RangeAt(held[a]), chunks))'
  BY RangeWithin, PTL
<1> QED
  BY <1>1, <1>2

LEMMA WithinNext ==
  ASSUME MemoryInv', NEW a \in Resources, held'[a] # None
  PROVE  Abstract!Within(RangeAt(held'[a]), chunks') /\ RangeAt(held'[a]) # None
<1>1. (MemoryInv /\ held[a] # None => Abstract!Within(RangeAt(held[a]), chunks))'
  BY RangeWithin, PTL
<1>2. held'[a] \in Allocation
  BY DEF MemoryInv, Accounts, AccountsTyped
<1> QED
  BY <1>1, <1>2, RangeIs

(* An allocation that a call ends with is one that the abstract allocator  *)
(* may give, and one that is given back one that it takes.                 *)
LEMMA Gives ==
  ASSUME MemoryInv, MemoryInv', NEW a \in Resources, held[a] = None, NEW x \in Allocation,
         held' = [held EXCEPT ![a] = x], chunks' = chunks \/ Abstract!Grow
  PROVE  Abstract!Give(a)
<1> DEFINE r == [b \in Resources |-> RangeOf(b)]
           r2 == [b \in Resources |-> RangeOf(b)']
<1>1. DOMAIN held = Resources
  BY InvIs
<1>2. held'[a] = x /\ x # None /\ \A b \in Resources : b # a => held'[b] = held[b]
  BY <1>1, NotNone
<1>3. \A b \in Resources : r[b] = RangeAt(held[b]) /\ r2[b] = RangeAt(held'[b])
  BY RangeOfIs, RangeOfIsNext
<1> HIDE DEF r, r2
<1>4. r[a] = None
  BY <1>3, RangeNone
<1>5. \A b \in Resources \ {a} : r2[b] = r[b]
  BY <1>2, <1>3
<1>6. r2[a] # None /\ Abstract!Within(r2[a], chunks')
  BY <1>2, <1>3, WithinNext
<1>7. ASSUME NEW b \in Resources \ {a}, r[b] # None PROVE ~Abstract!Overlap(r2[a], r[b])
  <2>1. held'[b] = held[b] /\ held[b] # None
    BY <1>2, <1>3, <1>7, RangeNone
  <2>2. ~Abstract!Overlap(RangeAt(held'[a]), RangeAt(held'[b]))
    BY <1>2, <2>1, NoOverlapNext
  <2> QED
    BY <1>3, <2>1, <2>2
<1>8. chunks' = chunks \/ Abstract!Grow
  OBVIOUS
<1> HIDE DEF r, r2
<1>9. /\ r[a] = None
      /\ \A b \in Resources \ {a} : r2[b] = r[b]
      /\ r2[a] # None
      /\ chunks' = chunks \/ Abstract!Grow
      /\ Abstract!Within(r2[a], chunks')
      /\ \A b \in Resources \ {a} : r[b] # None => ~Abstract!Overlap(r2[a], r[b])
  BY <1>4, <1>5, <1>6, <1>7, <1>8
<1> QED
  BY <1>9 DEF Abstract!Give, Abstract!Same, r, r2

LEMMA TakesBack ==
  ASSUME MemoryInv, NEW a \in Resources, held[a] # None, held' = [held EXCEPT ![a] = None],
         chunks' = chunks \/ Abstract!Shrink
  PROVE  Abstract!TakeBack(a)
<1> DEFINE r == [b \in Resources |-> RangeOf(b)]
           r2 == [b \in Resources |-> RangeOf(b)']
<1>1. DOMAIN held = Resources /\ held[a] \in Allocation
  BY InvIs
<1>2. \A b \in Resources : r[b] = RangeAt(held[b]) /\ r2[b] = RangeAt(held'[b])
  BY RangeOfIs, RangeOfIsNext
<1>3. r[a] # None
  BY <1>1, <1>2, RangeIs
<1>4. r2 = [r EXCEPT ![a] = None]
  <2>1. r2[a] = None /\ \A b \in Resources : b # a => r2[b] = r[b]
    BY <1>1, <1>2, RangeNone
  <2>2. r2 = [b \in Resources |-> r2[b]] /\ r = [b \in Resources |-> r[b]]
    OBVIOUS
  <2> HIDE DEF r, r2
  <2> QED
    BY <2>1, <2>2
<1>5. r[a] # None /\ r2 = [r EXCEPT ![a] = None] /\ (chunks' = chunks \/ Abstract!Shrink)
  BY <1>3, <1>4
<1> QED
  BY <1>5 DEF Abstract!TakeBack, Abstract!Same, r, r2

(* The pool that is allocated from is the first of those that fit.         *)
LEMMA FittingIs ==
  ASSUME NEW t \in Types, pools \in [Types -> Seq(Entry)], NEW request, Fitting(t, request) # {}
  PROVE  Min(Fitting(t, request)) \in 1 .. Len(pools[t])
<1>1. DOMAIN pools[t] = 1 .. Len(pools[t]) /\ Len(pools[t]) \in Nat
  BY EntriesAre
<1>2. Fitting(t, request) \in SUBSET Nat /\ Fitting(t, request) \subseteq 1 .. Len(pools[t])
  BY <1>1 DEF Fitting
<1> QED
  BY <1>2, LeastOf

(* The step of the abstract specification that a step is. *)
LEMMA StepImplements ==
  ASSUME MemoryInv, MemoryInv', [MemoryNext]_memoryVars
  PROVE  [Abstract!Next]_<<chunks, [a \in Resources |-> RangeOf(a)]>>
<1> DEFINE r == [b \in Resources |-> RangeOf(b)]
<1>1. ASSUME held' = held PROVE r' = r
  <2>1. \A b \in Resources : RangeOf(b)' = RangeOf(b)
    BY <1>1, RangeOfIs, RangeOfIsNext
  <2> QED
    BY <2>1
<1>2. ASSUME NEW a \in Resources, \E request \in Requests : AllocateFor(a, request) PROVE UNCHANGED <<chunks, r>>
  BY <1>1, <1>2 DEF AllocateFor
<1>3. ASSUME NEW a \in Resources, Release(a) \/ DedicatedRefused(a) \/ PoolRefused(a) PROVE UNCHANGED <<chunks, r>>
  BY <1>1, <1>3 DEF Release, DedicatedRefused, PoolRefused
<1>4. ASSUME NEW a \in Resources, call[a].at \in {"dedicated", "pools", "fallback"}, NEW chunk \in Chunks, NEW offset,
             Obtain(a, chunk, offset), chunks' = chunks \/ Abstract!Grow
      PROVE  Abstract!Give(a)
  <2> DEFINE x == Obtained(call[a], chunk, offset)
  <2>1. held' = [held EXCEPT ![a] = x] /\ held[a] = None /\ DOMAIN held = Resources
    BY <1>4, WorkingCall, InvIs DEF Obtain, Obtained
  <2>2. held'[a] = x /\ held'[a] \in {None} \cup Allocation
    BY <2>1 DEF MemoryInv, Accounts, AccountsTyped
  <2>3. x.chunk = chunk
    BY DEF Obtained
  <2> HIDE DEF x
  <2>4. x # None
    BY <2>3, NumbersOfChunks DEF None
  <2> QED
    BY <1>4, <2>1, <2>2, <2>4, Gives
<1>5. ASSUME NEW a \in Resources, AllocateDedicated(a) PROVE Abstract!Give(a)
  <2>1. call[a].at \in {"dedicated", "pools", "fallback"} /\ ChunkGiven(call[a].request.size) /\ Obtain(a, NewChunk, Dedicated)
    BY <1>5 DEF AllocateDedicated
  <2>2. NewChunk \in Chunks \ DOMAIN chunks /\ Grown(chunks, chunks', NewChunk, call[a].request.size)
    BY <2>1, ChunkGivenIs
  <2> HIDE DEF NewChunk
  <2>3. Abstract!Grow
    BY <2>2, ChunkComes
  <2> QED
    BY <1>4, <2>1, <2>2, <2>3
<1>6. ASSUME NEW a \in Resources, AllocateFromPool(a) PROVE Abstract!Give(a)
  <2> DEFINE t == call[a].type
             i == Min(Fitting(t, call[a].request))
             found == PoolAllocate(pools[t][i], call[a].request)
  <2>1. call[a].at = "pools" /\ Fitting(t, call[a].request) # {} /\ chunks' = chunks
        /\ Obtain(a, pools[t][i].chunk, found.offset)
    BY <1>6 DEF AllocateFromPool
  <2>2. t \in Types /\ pools \in [Types -> Seq(Entry)]
    BY <2>1, WorkingCall, InvIs
  <2>3. i \in 1 .. Len(pools[t])
    BY <2>1, <2>2, FittingIs
  <2> HIDE DEF i, found
  <2>4. pools[t][i].chunk \in Chunks
    BY <2>2, <2>3, EntriesAre
  <2> QED
    BY <1>4, <2>1, <2>4
<1>7. ASSUME NEW a \in Resources, CreatePool(a) PROVE Abstract!Give(a) \/ (Abstract!Grow /\ r' = r)
  <2>1. call[a].at = "pools"
    BY <1>7 DEF CreatePool
  <2>2. PICK size, offset : ChunkGiven(size) /\ (Obtain(a, NewChunk, offset) \/ held' = held)
    BY <1>7 DEF CreatePool
  <2>3. NewChunk \in Chunks \ DOMAIN chunks /\ Grown(chunks, chunks', NewChunk, size)
    BY <2>2, ChunkGivenIs
  <2> HIDE DEF NewChunk
  <2>4. Abstract!Grow
    BY <2>3, ChunkComes
  <2> QED
    BY <1>1, <1>4, <2>1, <2>2, <2>3, <2>4
<1>8. ASSUME NEW a \in Resources, FreeDedicated(a) PROVE Abstract!TakeBack(a)
  <2>1. call[a].at = "free" /\ held[a].offset = Dedicated /\ ChunkFreed(held[a].chunk) /\ held' = [held EXCEPT ![a] = None]
    BY <1>8 DEF FreeDedicated
  <2>2. held[a] # None
    BY <2>1, InvIs DEF CallFits
  <2>3. held[a].chunk \in DOMAIN chunks
    <3>1. Abstract!Within(RangeAt(held[a]), chunks)
      BY <2>2, RangeWithin
    <3>2. RangeAt(held[a]).chunk = held[a].chunk
      BY <2>2, InvIs, RangeIs
    <3> QED
      BY <3>1, <3>2 DEF Abstract!Within
  <2>4. Abstract!Shrink
    BY <2>1, <2>3, ChunkGoes
  <2> QED
    BY <2>1, <2>2, <2>4, TakesBack
<1>9. ASSUME NEW a \in Resources, FreeBlock(a) PROVE Abstract!TakeBack(a)
  <2>1. call[a].at = "free" /\ held' = [held EXCEPT ![a] = None] /\ chunks' = chunks
    BY <1>9 DEF FreeBlock
  <2>2. held[a] # None
    BY <2>1, InvIs DEF CallFits
  <2> QED
    BY <2>1, <2>2, TakesBack
<1>10. ASSUME NEW a \in Resources, DestroyPool(a) PROVE Abstract!Shrink /\ r' = r
  <2>1. call[a].at = "destroy" /\ ChunkFreed(call[a].chunk) /\ held' = held
    BY <1>10 DEF DestroyPool
  <2>2. call[a].chunk \in DOMAIN chunks
    <3>1. held[a] = None /\ call[a].chunk \in Chunks
      BY <2>1, InvIs, CallIs DEF CallFits
    <3>2. OwnOf(held, call)[a] = call[a].chunk /\ call[a].chunk # 0
      BY <2>1, <3>1, NumbersOfChunks DEF OwnOf, Alone
    <3>3. ChunksKept(chunks, pools, held, OwnOf(held, call))
      BY DEF MemoryInv, Accounts
    <3> QED
      BY <3>2, <3>3 DEF ChunksKept
  <2> QED
    BY <1>1, <2>1, <2>2, ChunkGoes
<1> HIDE DEF r
<1>11. ASSUME NEW a \in Resources, Continue(a) PROVE Abstract!Next \/ UNCHANGED <<chunks, r>>
  <2>1. CASE AllocateDedicated(a) \/ AllocateFromPool(a) \/ CreatePool(a)
    BY <1>5, <1>6, <1>7, <2>1 DEF Abstract!Next, r
  <2>2. CASE FreeDedicated(a) \/ FreeBlock(a) \/ DestroyPool(a)
    BY <1>8, <1>9, <1>10, <2>2 DEF Abstract!Next, r
  <2>3. CASE DedicatedRefused(a) \/ PoolRefused(a)
    BY <1>3, <2>3
  <2> QED
    BY <1>11, <2>1, <2>2, <2>3 DEF Continue
<1>12. ASSUME UNCHANGED memoryVars PROVE UNCHANGED <<chunks, r>>
  BY <1>1, <1>12 DEF memoryVars
<1>13. ASSUME MemoryNext PROVE Abstract!Next \/ UNCHANGED <<chunks, r>>
  <2>1. PICK a \in Resources : (\E request \in Requests : AllocateFor(a, request)) \/ Release(a) \/ Continue(a)
    BY <1>13 DEF MemoryNext
  <2> QED
    BY <1>2, <1>3, <1>11, <2>1
<1>14. Abstract!Next \/ UNCHANGED <<chunks, r>>
  BY <1>12, <1>13
<1> QED
  BY <1>14 DEF r

(* No two resources share a byte of device memory, each has the size and   *)
(* the alignment it asked for, and no chunk is freed under a resource:     *)
(* every step of the heaps is one of the abstract allocator or none,       *)
(* provided that their pools fit the requests.                             *)
THEOREM MemoryIsAllocated ==
  ASSUME PoolsFit
  PROVE  MemorySpec => ImplementsAllocator
<1>1. MemoryInit => Abstract!Init
  <2> SUFFICES ASSUME MemoryInit PROVE Abstract!Init
    OBVIOUS
  <2>1. chunks = <<>> /\ \A a \in Resources : held[a] = None
    BY DEF MemoryInit
  <2>2. \A a \in Resources : RangeOf(a) = None
    BY <2>1, RangeOfIs, RangeNone
  <2> QED
    BY <2>1, <2>2 DEF Abstract!Init
<1>2. MemoryInv /\ MemoryInv' /\ [MemoryNext]_memoryVars => [Abstract!Next]_<<chunks, [a \in Resources |-> RangeOf(a)]>>
  BY StepImplements
<1>3. MemoryInv /\ [MemoryNext]_memoryVars => MemoryInv'
  BY KeepsAccounted
<1> QED
  BY <1>1, <1>2, <1>3, StartsAccounted, PTL DEF MemorySpec, ImplementsAllocator, Abstract!Spec
-----------------------------------------------------------------------------
(* The empty pools of a heap. *)
LEMMA EmptyPoolsAre ==
  ASSUME NEW s \in Seq(Entry)
  PROVE  EmptyPools(s) \subseteq 1 .. Len(s) /\ IsFiniteSet(EmptyPools(s)) /\ Cardinality(EmptyPools(s)) \in Nat
<1>1. EmptyPools(s) \subseteq 1 .. Len(s) /\ Len(s) \in Nat
  BY DEF EmptyPools
<1>2. IsFiniteSet(1 .. Len(s))
  BY <1>1, FS_Interval
<1> QED
  BY <1>1, <1>2, FS_Subset, FS_CardinalityType

(* The pool that goes is one less of the empty ones, if it was empty.      *)
LEMMA RestEmpty ==
  ASSUME NEW s \in Seq(Entry), NEW k \in 1 .. Len(s), NEW r, r = WithoutPool(s, k).rest
  PROVE  Cardinality(EmptyPools(r)) = Cardinality(EmptyPools(s) \ {k})
<1> DEFINE n == Len(s)
           at(j) == IF j = k THEN n ELSE j
           F == EmptyPools(s) \ {k}
           D == EmptyPools(r)
<1>1. n \in Nat /\ k \in 1 .. n /\ DOMAIN s = 1 .. n
  OBVIOUS
<1>2. Len(r) = n - 1 /\ DOMAIN r = 1 .. n - 1 /\ \A j \in 1 .. n - 1 : r[j] = s[at(j)]
  <2> DEFINE p == ReplaceAt(s, k, Last(s))
  <2>1. n \in 1 .. n /\ Last(s) = s[n] /\ s[n] \in Entry
    BY <1>1 DEF Last
  <2>2. p = [s EXCEPT ![k] = s[n]]
    BY <1>1, <2>1 DEF ReplaceAt
  <2>3. p \in Seq(Entry) /\ Len(p) = n /\ \A j \in 1 .. n : p[j] = s[at(j)]
    BY <1>1, <2>1, <2>2
  <2>4. r = SubSeq(p, 1, n - 1)
    BY <2>3 DEF Front, WithoutPool
  <2> HIDE DEF p, n
  <2>5. r \in Seq(Entry) /\ Len(r) = n - 1 /\ \A j \in 1 .. n - 1 : r[j] = p[j]
    BY <1>1, <2>3, <2>4
  <2> QED
    BY <1>1, <2>3, <2>5
<1>3. IsFiniteSet(F) /\ Cardinality(F) \in Nat /\ F \subseteq 1 .. n
  BY EmptyPoolsAre, FS_Subset, FS_CardinalityType
<1>4. \A j \in 1 .. n - 1 : j \in D <=> IsEmpty(s[at(j)])
  BY <1>2 DEF EmptyPools
<1>5. \A j \in 1 .. n : j \in F <=> IsEmpty(s[j]) /\ j # k
  BY <1>1 DEF EmptyPools
<1>6. D \subseteq 1 .. n - 1
  BY <1>2 DEF EmptyPools
<1> HIDE DEF D, F, n
<1>7. CASE n \notin F
  <2>1. D = F
    <3>1. ASSUME NEW j \in 1 .. n - 1 PROVE j \in D <=> j \in F
      BY <1>1, <1>4, <1>5, <1>7
    <3>2. F \subseteq 1 .. n - 1
      BY <1>1, <1>3, <1>7
    <3> QED
      BY <1>6, <3>1, <3>2
  <2> QED
    BY <2>1 DEF D, F
<1>8. CASE n \in F
  <2>1. k \in 1 .. n - 1 /\ IsEmpty(s[n]) /\ n # k
    BY <1>1, <1>3, <1>5, <1>8
  <2>2. D = (F \ {n}) \cup {k}
    <3>1. ASSUME NEW j \in 1 .. n - 1 PROVE j \in D <=> j \in F \/ j = k
      BY <1>1, <1>4, <1>5, <2>1
    <3>2. F \ {n} \subseteq 1 .. n - 1 /\ n \notin 1 .. n - 1
      BY <1>1, <1>3
    <3> QED
      BY <1>6, <2>1, <3>1, <3>2
  <2>3. k \notin F \ {n}
    BY <1>1, <1>5
  <2>4. IsFiniteSet(F \ {n}) /\ Cardinality(F \ {n}) = Cardinality(F) - 1
    BY <1>3, <1>8, FS_RemoveElement
  <2>5. Cardinality(D) = Cardinality(F \ {n}) + 1
    BY <2>2, <2>3, <2>4, FS_AddElement
  <2> QED
    BY <1>3, <2>4, <2>5 DEF D, F
<1> QED
  BY <1>7, <1>8

(* Another resource has memory of the chunk of a. *)
Shared(a) == \E d \in Resources \ {a} : held[d].chunk = held[a].chunk

(* A pool is empty once a resource has given its block back just if no     *)
(* other resource has memory of its chunk.                                 *)
LEMMA EmptyAfter ==
  ASSUME MemoryInv, NEW a \in Resources, Pooled(held, a), NEW t, t = held[a].type, NEW i \in 1 .. Len(pools[t]),
         pools[t][i].chunk = held[a].chunk, NEW b \in UsedIn(pools[t][i].pool.phys), b.offset = held[a].offset
  PROVE  UsedIn(pools[t][i].pool.phys) \ {b} = {} <=> ~Shared(a)
<1> DEFINE e == pools[t][i]
           U == UsedIn(e.pool.phys)
           own == OwnOf(held, call)
<1>1. Accounts(chunks, pools, held, own) /\ t \in Types /\ pools \in [Types -> Seq(Entry)] /\ held[a].chunk \in Chunks
  BY InvIs DEF MemoryInv, Pooled
<1>2. e \in EntriesIn(pools, t) /\ Sound(e.pool, e.size)
  BY <1>1, EntriesAre DEF Accounts, PoolsKept
<1>3. held[a].chunk # 0
  BY <1>1, NumbersOfChunks
<1>4. e.chunk = held[a].chunk /\ b \in U
  OBVIOUS
<1> HIDE DEF e, U
<1>5. ASSUME NEW c \in U \ {b} PROVE \E d \in Resources \ {a} : held[d].chunk = held[a].chunk
  <2>1. c \in UsedIn(e.pool.phys) /\ b \in UsedIn(e.pool.phys)
    BY <1>4 DEF U
  <2>2. BlocksKept(pools, held)
    BY <1>1 DEF Accounts
  <2>3. PICK d \in Resources : Has(held, d, t, e, c)
    BY <1>1, <1>2, <2>1, <2>2 DEF BlocksKept
  <2>4. held[d].chunk = held[a].chunk /\ held[d].offset = c.offset
    BY <1>4, <2>3 DEF Has
  <2>5. c.offset # b.offset
    BY <1>2, <2>1, OneBlockThere
  <2>6. d # a
    BY <2>4, <2>5
  <2> QED
    BY <2>4, <2>6
<1>6. ASSUME NEW d \in Resources \ {a}, held[d].chunk = held[a].chunk PROVE \E c \in U : c # b
  <2>1. held[d] # None
    BY <1>3, <1>6 DEF None
  <2>2. Pooled(held, d)
    <3> SUFFICES ASSUME Alone(held, d) PROVE FALSE
      BY <2>1 DEF Pooled, Alone
    <3>1. own[d] = held[a].chunk
      BY <1>6 DEF OwnOf
    <3> HIDE DEF own
    <3> QED
      BY <1>1, <1>2, <1>4, <3>1 DEF Accounts, ChunksKept
  <2>3. held[d].type \in Types
    BY <2>1, InvIs
  <2>4. PICK f \in EntriesIn(pools, held[d].type) : Lies(held, d, f)
    BY <1>1, <2>2 DEF Accounts, RangesKept
  <2>5. f = e
    <3>1. PICK j \in 1 .. Len(pools[held[d].type]) : f = pools[held[d].type][j]
      BY <2>4 DEF EntriesIn
    <3>2. pools[held[d].type][j].chunk = pools[t][i].chunk
      BY <1>4, <1>6, <2>4, <3>1 DEF Lies, e
    <3>3. OnePool(pools)
      BY <1>1 DEF Accounts
    <3>4. held[d].type = t /\ j = i
      BY <1>1, <2>3, <3>2, <3>3 DEF OnePool
    <3> QED
      BY <3>1, <3>4 DEF e
  <2>6. PICK c \in U : c.offset = held[d].offset
    BY <2>4, <2>5 DEF Lies, U
  <2>7. held[d].offset # held[a].offset
    BY <1>1, <1>6, <2>2 DEF Accounts, RangesApart
  <2> QED
    BY <2>6, <2>7
<1> QED
  BY <1>5, <1>6 DEF e, U, Shared

(* How many of the pools that remain are empty when pool i, which had a    *)
(* block in use, has got one back.                                         *)
LEMMA ShrunkEmpty ==
  ASSUME NEW s \in Seq(Entry), NEW after \in Seq(Entry), Len(after) = Len(s), NEW i \in 1 .. Len(s),
         \A j \in 1 .. Len(s) : j # i => after[j] = s[j], ~IsEmpty(s[i]),
         NEW r, r = Shrunk(s, after, i).rest
  PROVE  LET before == Cardinality(EmptyPools(s))
         IN  /\ ~IsEmpty(after[i]) => Cardinality(EmptyPools(r)) <= before
             /\ IsEmpty(after[i]) => Cardinality(EmptyPools(r)) = IF before = 0 THEN 1 ELSE before
<1> DEFINE n == Len(s)
           E == EmptyPools(s)
           A == EmptyPools(after)
<1>1. n \in Nat /\ DOMAIN s = 1 .. n /\ DOMAIN after = 1 .. n
  OBVIOUS
<1>2. E \subseteq 1 .. n /\ IsFiniteSet(E) /\ Cardinality(E) \in Nat
      /\ A \subseteq 1 .. n /\ IsFiniteSet(A) /\ Cardinality(A) \in Nat
  BY EmptyPoolsAre
<1>3. i \notin E /\ \A j \in 1 .. n : j \in A <=> j \in E \/ (j = i /\ IsEmpty(after[i]))
  BY <1>1 DEF EmptyPools
<1>4. Cardinality(E) = 0 <=> E = {}
  BY <1>2, FS_EmptySet
<1> HIDE DEF E, A, n
<1>5. CASE IsEmpty(after[i])
  <2>1. A = E \cup {i}
    BY <1>2, <1>3, <1>5 DEF n
  <2>2. Cardinality(A) = Cardinality(E) + 1
    BY <1>2, <1>3, <2>1, FS_AddElement
  <2>3. CASE E = {}
    <3>1. r = after
      BY <1>5, <2>3 DEF Shrunk, E
    <3> QED
      BY <1>4, <1>5, <2>2, <2>3, <3>1 DEF A, E
  <2>4. CASE E # {}
    <3>1. r = WithoutPool(after, i).rest
      BY <1>5, <2>4 DEF Shrunk, E
    <3>2. i \in 1 .. Len(after)
      OBVIOUS
    <3>3. Cardinality(EmptyPools(r)) = Cardinality(A \ {i})
      BY <3>1, <3>2, RestEmpty DEF A
    <3>4. A \ {i} = E
      BY <1>3, <2>1
    <3> QED
      BY <1>4, <1>5, <2>4, <3>3, <3>4 DEF E
  <2> QED
    BY <2>3, <2>4
<1>6. CASE ~IsEmpty(after[i])
  <2>1. A = E
    BY <1>2, <1>3, <1>6
  <2>2. CASE E # {} /\ IsEmpty(Last(after))
    <3>1. r = WithoutPool(after, Len(after)).rest
      BY <1>6, <2>2 DEF Shrunk, E
    <3>2. Len(after) \in 1 .. Len(after)
      BY <1>1 DEF n
    <3>3. Cardinality(EmptyPools(r)) = Cardinality(A \ {Len(after)})
      BY <3>1, <3>2, RestEmpty DEF A
    <3>4. Cardinality(A \ {Len(after)}) <= Cardinality(A)
      <4>1. Cardinality(A \ {Len(after)}) = IF Len(after) \in A THEN Cardinality(A) - 1 ELSE Cardinality(A)
        BY <1>2, FS_RemoveElement
      <4> QED
        BY <1>2, <4>1
    <3>5. Cardinality(EmptyPools(r)) <= Cardinality(E)
      BY <2>1, <3>3, <3>4
    <3> QED
      BY <1>6, <3>5 DEF E
  <2>3. CASE ~(E # {} /\ IsEmpty(Last(after)))
    <3>1. r = after
      BY <1>6, <2>3 DEF Shrunk, E
    <3>2. Cardinality(EmptyPools(r)) <= Cardinality(E)
      BY <1>2, <2>1, <3>1 DEF A
    <3> QED
      BY <1>6, <3>2 DEF E
  <2> QED
    BY <2>2, <2>3
<1> QED
  BY <1>5, <1>6

KeepsOneEmpty(a) ==
  LET before == Cardinality(EmptyPools(pools[held[a].type]))
      after  == Cardinality(EmptyPools(pools'[held[a].type]))
  IN  IF \E b \in Resources \ {a} : held[b].chunk = held[a].chunk THEN after <= before
      ELSE after = IF before = 0 THEN 1 ELSE before

(* The free of a block, seen by how many pools are empty.                  *)
LEMMA FreeKeepsOneEmpty ==
  ASSUME MemoryInv, NEW a \in Resources, FreeBlock(a)
  PROVE  KeepsOneEmpty(a)
<1> DEFINE t == held[a].type
           i == PoolIndex(pools[t], held[a].chunk)
           e == pools[t][i]
           q == Free(e.pool, held[a].offset)
           after == [pools[t] EXCEPT ![i].pool = Free(@, held[a].offset)]
           r == pools'[t]
<1>1. Pooled(held, a) /\ t \in Types /\ pools \in [Types -> Seq(Entry)]
  BY FreedIsPooled
<1>2. /\ i \in 1 .. Len(pools[t]) /\ e.chunk = held[a].chunk /\ Sound(e.pool, e.size)
      /\ \E b \in UsedIn(e.pool.phys) : b.offset = held[a].offset
  BY FreedIsPooled
<1>3. PICK b \in UsedIn(e.pool.phys) : b.offset = held[a].offset
  BY <1>2
<1>4. Sound(q, e.size) /\ UsedIn(q.phys) = UsedIn(e.pool.phys) \ {b}
  BY <1>2, <1>3, FreeIs
<1>5. pools[t] \in Seq(Entry) /\ DOMAIN pools[t] = 1 .. Len(pools[t]) /\ Len(pools[t]) \in Nat
  BY <1>1, EntriesAre
<1>6. r = Shrunk(pools[t], after, i).rest
  BY <1>1 DEF FreeBlock
<1>7. /\ after \in Seq(Entry) /\ Len(after) = Len(pools[t])
      /\ after[i].pool = q /\ \A j \in 1 .. Len(pools[t]) : j # i => after[j] = pools[t][j]
  <2>1. q \in PoolType
    BY <1>4 DEF Sound, WellFormed
  <2>2. e \in Entry
    BY <1>2, <1>5
  <2> DEFINE g == [e EXCEPT !.pool = q]
  <2>3. g \in Entry /\ g.pool = q
    BY <2>1, <2>2 DEF Entry
  <2>4. after = [pools[t] EXCEPT ![i] = g]
    BY <1>2, <1>5
  <2> HIDE DEF g, e, q, i, after, t
  <2> QED
    BY <1>2, <1>5, <2>3, <2>4
<1>8. ~IsEmpty(pools[t][i])
  <2> HIDE DEF i, t, q
  <2>1. UsedIn(e.pool.phys) # {}
    BY <1>3
  <2> QED
    BY <1>2, <2>1, EmptyIs DEF IsEmpty
<1>9. IsEmpty(after[i]) <=> ~Shared(a)
  <2> HIDE DEF i, q, after
  <2>1. IsEmpty(after[i]) <=> UsedIn(e.pool.phys) \ {b} = {}
    BY <1>4, <1>7, EmptyIs DEF IsEmpty
  <2>2. UsedIn(pools[t][i].pool.phys) \ {b} = {} <=> ~Shared(a)
    <3>1. \A k \in 1 .. Len(pools[t]) : pools[t][k].chunk = held[a].chunk =>
            \A c \in UsedIn(pools[t][k].pool.phys) : c.offset = held[a].offset =>
              (UsedIn(pools[t][k].pool.phys) \ {c} = {} <=> ~Shared(a))
      BY <1>1, EmptyAfter
    <3>2. i \in 1 .. Len(pools[t]) /\ pools[t][i].chunk = held[a].chunk /\ b \in UsedIn(pools[t][i].pool.phys)
      BY <1>2, <1>3
    <3> QED
      BY ONLY <1>3, <3>1, <3>2
  <2> QED
    BY <2>1, <2>2
<1> HIDE DEF i, q, after, r
<1>10. LET before == Cardinality(EmptyPools(pools[t]))
       IN  /\ ~IsEmpty(after[i]) => Cardinality(EmptyPools(r)) <= before
           /\ IsEmpty(after[i]) => Cardinality(EmptyPools(r)) = IF before = 0 THEN 1 ELSE before
  BY <1>2, <1>5, <1>6, <1>7, <1>8, ShrunkEmpty
<1> QED
  BY <1>9, <1>10 DEF KeepsOneEmpty, Shared, r

(* A heap keeps one empty pool in reserve and no more, provided that its   *)
(* pools fit the requests.                                                 *)
THEOREM OnePoolInReserve ==
  ASSUME PoolsFit
  PROVE  MemorySpec => OneEmptyPoolKept
<1>1. MemoryInv /\ [MemoryNext]_memoryVars =>
        [\A a \in Resources : FreeBlock(a) =>
           LET before == Cardinality(EmptyPools(pools[held[a].type]))
               after  == Cardinality(EmptyPools(pools'[held[a].type]))
           IN  IF \E b \in Resources \ {a} : held[b].chunk = held[a].chunk THEN after <= before
               ELSE after = IF before = 0 THEN 1 ELSE before]_memoryVars
  BY FreeKeepsOneEmpty DEF KeepsOneEmpty
<1>2. MemoryInv /\ [MemoryNext]_memoryVars => MemoryInv'
  BY KeepsAccounted
<1> QED
  BY <1>1, <1>2, StartsAccounted, PTL DEF MemorySpec, OneEmptyPoolKept
===============================================================================
