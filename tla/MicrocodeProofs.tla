-------------------------- MODULE MicrocodeProofs --------------------------
(***************************************************************************)
(* Proofs about Microcode, for bytes of two, four or eight bits: whatever  *)
(* the operands, no uop computes a value wider than a register, and a page *)
(* fault names the instruction and an address the guest may not access.    *)
(***************************************************************************)
EXTENDS Microcode, FiniteSetTheorems, WellFoundedInduction, NaturalsInduction, TLAPS

-----------------------------------------------------------------------------
(***************************************************************************)
(* Powers of two.  The provers know ^ for literals only; that 2 ^ n counts *)
(* the subsets of a set of n elements gives the rest.                      *)
(***************************************************************************)

\* Induction up to n, over a set of numbers.
LEMMA Upwards ==
  ASSUME NEW n \in Nat, NEW G, 0 \in G, \A k \in 0 .. n - 1 : k \in G => k + 1 \in G
  PROVE  0 .. n \subseteq G
<1> DEFINE bad == (0 .. n) \ G
<1>1. ASSUME bad # {} PROVE FALSE
  <2>1. bad \in SUBSET Nat
    OBVIOUS
  <2> HIDE DEF bad
  <2>2. PICK c \in bad : \A d \in bad : ~(<<d, c>> \in OpToRel(<, Nat))
    BY <1>1, <2>1, WFMin, NatLessThanWellFounded
  <2>3. \A d \in bad : ~(d < c)
    BY <2>1, <2>2 DEF OpToRel
  <2>4. c \in 0 .. n /\ c \notin G
    BY <2>2 DEF bad
  <2>5. c # 0
    BY <2>4
  <2>6. c - 1 \in 0 .. n - 1 /\ c - 1 \in 0 .. n /\ c - 1 < c /\ (c - 1) + 1 = c
    BY <2>4, <2>5
  <2>7. c - 1 \notin bad
    BY <2>3, <2>6
  <2>8. c - 1 \in G
    BY <2>6, <2>7 DEF bad
  <2> QED
    BY <2>4, <2>6, <2>8
<1> QED
  BY <1>1

\* The subsets of 1 .. n are what 2 ^ n counts.
LEMMA PowerCounts ==
  ASSUME NEW n \in Nat
  PROVE  IsFiniteSet(SUBSET (1 .. n)) /\ Cardinality(SUBSET (1 .. n)) = 2 ^ n
<1>1. IsFiniteSet(1 .. n) /\ Cardinality(1 .. n) = n
  BY FS_Interval
<1> QED
  BY <1>1, FS_SUBSET

LEMMA PowerPositive ==
  ASSUME NEW n \in Nat
  PROVE  2 ^ n \in Nat /\ 2 ^ n > 0
<1>1. 2 ^ n \in Nat
  BY PowerCounts, FS_CardinalityType
<1>2. {} \in SUBSET (1 .. n)
  OBVIOUS
<1>3. 2 ^ n # 0
  BY <1>2, PowerCounts, FS_EmptySet
<1> QED
  BY <1>1, <1>3

LEMMA PowerStep ==
  ASSUME NEW n \in Nat
  PROVE  2 ^ (n + 1) = 2 * 2 ^ n
<1> DEFINE S == SUBSET (1 .. n)
           T == {A \in SUBSET (1 .. n + 1) : n + 1 \in A}
<1>1. SUBSET (1 .. n + 1) = S \cup T
  <2>1. 1 .. n + 1 = (1 .. n) \cup {n + 1}
    OBVIOUS
  <2> QED
    BY <2>1
<1>2. S \cap T = {}
  <2>1. n + 1 \notin 1 .. n
    OBVIOUS
  <2> QED
    BY <2>1
<1>3. ExistsBijection(S, T)
  <2> DEFINE f == [A \in S |-> A \cup {n + 1}]
  <2>0. n + 1 \notin 1 .. n /\ 1 .. n + 1 = (1 .. n) \cup {n + 1}
    OBVIOUS
  <2>1. f \in [S -> T]
    BY <2>0
  <2>2. ASSUME NEW A \in S, NEW B \in S, f[A] = f[B] PROVE A = B
    BY <2>0, <2>2
  <2>3. ASSUME NEW B \in T PROVE \E A \in S : f[A] = B
    <3>1. B \ {n + 1} \in S /\ (B \ {n + 1}) \cup {n + 1} = B
      BY <2>0
    <3> QED
      BY <3>1
  <2> HIDE DEF f, S, T
  <2> QED
    BY <2>1, <2>2, <2>3 DEF ExistsBijection, Bijection, Injection, Surjection, IsInjective
<1>4. IsFiniteSet(S) /\ Cardinality(S) = 2 ^ n
  BY PowerCounts
<1>5. Cardinality(SUBSET (1 .. n + 1)) = 2 ^ (n + 1)
  BY PowerCounts
<1>6. 2 ^ n \in Nat
  BY PowerPositive
<1> HIDE DEF S, T
<1>7. IsFiniteSet(T) /\ Cardinality(T) = 2 ^ n
  BY <1>3, <1>4, FS_Bijection
<1>8. Cardinality(S \cup T) = Cardinality(S) + Cardinality(T) - Cardinality({})
  BY <1>2, <1>4, <1>7, FS_Union
<1>9. Cardinality({}) = 0
  BY FS_EmptySet
<1>10. 2 ^ (n + 1) = Cardinality(S \cup T)
  BY <1>1, <1>5
<1>11. ASSUME NEW p \in Nat, 2 ^ (n + 1) = p + p - 0 PROVE 2 ^ (n + 1) = 2 * p
  BY <1>11
<1> QED
  BY <1>4, <1>6, <1>7, <1>8, <1>9, <1>10, <1>11

LEMMA PowerSum ==
  ASSUME NEW m \in Nat, NEW n \in Nat
  PROVE  2 ^ (m + n) = 2 ^ m * 2 ^ n
<1> DEFINE G == {k \in 0 .. n : 2 ^ (m + k) = 2 ^ m * 2 ^ k}
<1>0. PICK p \in Nat : p = 2 ^ m
  BY PowerPositive
<1>1. 0 \in G
  <2>1. m + 0 = m /\ 2 ^ 0 = 1 /\ p * 1 = p
    BY <1>0
  <2> QED
    BY <1>0, <2>1
<1>2. ASSUME NEW k \in 0 .. n - 1, k \in G PROVE k + 1 \in G
  <2>1. k \in Nat /\ m + k \in Nat /\ m + (k + 1) = (m + k) + 1 /\ k + 1 \in 0 .. n
    OBVIOUS
  <2>2. PICK q \in Nat : q = 2 ^ k
    BY <2>1, PowerPositive
  <2>3. 2 ^ (m + k) = p * q
    BY <1>0, <1>2, <2>2
  <2>4. 2 ^ (m + (k + 1)) = 2 * (p * q)
    BY <2>1, <2>3, PowerStep
  <2>5. 2 ^ (k + 1) = 2 * q
    BY <2>1, <2>2, PowerStep
  <2>6. 2 * (p * q) = p * (2 * q)
    OBVIOUS
  <2> QED
    BY <1>0, <2>1, <2>4, <2>5, <2>6
<1>3. 0 .. n \subseteq G
  <2> HIDE DEF G
  <2> QED
    BY <1>1, <1>2, Upwards
<1> QED
  BY <1>3

\* A smaller power divides a larger one.
LEMMA PowerDivides ==
  ASSUME NEW m \in Nat, NEW n \in Nat, m <= n
  PROVE  /\ 2 ^ m \in Nat \ {0} /\ 2 ^ n \in Nat \ {0} /\ 2 ^ m <= 2 ^ n
         /\ \E q \in Nat \ {0} : 2 ^ n = 2 ^ m * q
<1>1. n - m \in Nat /\ m + (n - m) = n
  OBVIOUS
<1>2. PICK p \in Nat \ {0} : p = 2 ^ m
  BY PowerPositive
<1>3. PICK q \in Nat \ {0} : q = 2 ^ (n - m)
  BY <1>1, PowerPositive
<1>4. 2 ^ n = p * q
  BY <1>1, <1>2, <1>3, PowerSum
<1>5. p * q \in Nat \ {0} /\ p <= p * q
  OBVIOUS
<1> QED
  BY <1>2, <1>4, <1>5

\* The widths of the operand sizes, from the byte to the whole register.
LEMMA Widths ==
  ASSUME NEW s \in 0 .. 3
  PROVE  Width(s) \in Nat \ {0} /\ Width(s) <= Width(3) /\ 16 <= Width(3) /\ Width(2) \in Nat \ {0}
<1>1. 2 ^ 0 = 1 /\ 2 ^ 1 = 2 /\ 2 ^ 2 = 4 /\ 2 ^ 3 = 8
  OBVIOUS
<1>2. Width(0) = ByteBits /\ Width(1) = ByteBits * 2 /\ Width(2) = ByteBits * 4 /\ Width(3) = ByteBits * 8
  BY <1>1, ByteBitsAssumption DEF Width
<1>3. s = 0 \/ s = 1 \/ s = 2 \/ s = 3
  OBVIOUS
<1> QED
  BY <1>2, <1>3, ByteBitsAssumption

\* A word holds a whole number of values of each size.
LEMMA WordHolds ==
  ASSUME NEW s \in 0 .. 3
  PROVE  /\ 2 ^ Width(s) \in Nat \ {0} /\ WordSize \in Nat \ {0} /\ 2 ^ Width(s) <= WordSize /\ 32 <= WordSize
         /\ \E q \in Nat \ {0} : WordSize = 2 ^ Width(s) * q
<1>1. Width(s) \in Nat /\ Width(3) \in Nat /\ Width(s) <= Width(3) /\ 5 <= Width(3)
  BY Widths
<1>2. 2 ^ 5 = 32
  OBVIOUS
<1>3. 2 ^ 5 <= 2 ^ Width(3)
  BY <1>1, PowerDivides
<1> QED
  BY <1>1, <1>2, <1>3, PowerDivides DEF WordSize

\* The low part of any number is a word.
LEMMA LowWord ==
  ASSUME NEW x \in Int, NEW s \in 0 .. 3
  PROVE  Lo(x, s) \in Word /\ Lo(x, s) \in Nat /\ Lo(x, s) < 2 ^ Width(s)
<1>1. PICK m \in Nat \ {0} : m = 2 ^ Width(s)
  BY WordHolds
<1>2. WordSize \in Nat /\ m <= WordSize
  BY <1>1, WordHolds
<1>3. x % m \in 0 .. m - 1
  BY Z3
<1> QED
  BY <1>1, <1>2, <1>3 DEF Lo, Word

\* Replacing the low part of a word leaves a word.
LEMMA MergeWord ==
  ASSUME NEW rd \in Word, NEW x \in Int, NEW s \in 0 .. 3
  PROVE  x86_merge(rd, x, s) \in Word
<1>1. CASE ~(s < 2)
  BY <1>1, LowWord DEF x86_merge
<1>2. CASE s < 2
  <2>1. PICK m \in Nat \ {0} : m = 2 ^ Width(s)
    BY WordHolds
  <2>2. PICK q \in Nat \ {0} : WordSize = m * q
    BY <2>1, WordHolds
  <2>3. rd \in Nat /\ rd < m * q
    BY <2>2, WordHolds DEF Word
  <2>4. x % m \in 0 .. m - 1
    BY Z3
  <2>5. PICK d \in Nat : d = rd \div m
    BY <2>3, Z3
  <2>6. rd - (rd % m) = m * d
    BY <2>3, <2>5, Z3
  <2>7. d < q
    <3>1. m * d <= rd
      BY <2>3, <2>5, Z3
    <3>2. m * d < m * q
      BY <2>3, <3>1
    <3> QED
      BY <3>2, Z3
  <2>8. m * d + m <= m * q
    <3>1. d + 1 <= q
      BY <2>7
    <3>2. m * (d + 1) <= m * q
      BY <3>1, Z3
    <3> QED
      BY <3>2, Z3
  <2>9. m * d + (x % m) \in 0 .. m * q - 1
    <3>1. m * d \in Nat /\ m * q \in Nat
      OBVIOUS
    <3> QED
      BY <2>4, <2>8, <3>1
  <2>10. x86_merge(rd, x, s) = m * d + (x % m)
    BY <1>2, <2>1, <2>6 DEF x86_merge, Lo
  <2> QED
    BY <2>2, <2>9, <2>10 DEF Word
<1> QED
  BY <1>1, <1>2
-----------------------------------------------------------------------------
(***************************************************************************)
(* Functions defined by recursion on 0 .. n: there is one, and its values  *)
(* are where they should be.                                               *)
(***************************************************************************)
Iterates(f, n, S, r, h) ==
  f \in [0 .. n -> S] /\ f[0] = r /\ \A i \in 1 .. n : f[i] = h[<<i, f[i - 1]>>]

LEMMA Iteration ==
  ASSUME NEW n \in Nat, NEW S, NEW r \in S, NEW h \in [(1 .. n) \X S -> S]
  PROVE  \E f : Iterates(f, n, S, r, h)
<1> DEFINE G == {k \in 0 .. n : \E f : Iterates(f, k, S, r, h)}
<1>1. 0 \in G
  <2> DEFINE f == [i \in 0 .. 0 |-> r]
  <2>1. f \in [0 .. 0 -> S] /\ f[0] = r /\ 1 .. 0 = {}
    OBVIOUS
  <2>2. Iterates(f, 0, S, r, h)
    BY <2>1 DEF Iterates
  <2> QED
    BY <2>2
<1>2. ASSUME NEW k \in 0 .. n - 1, k \in G PROVE k + 1 \in G
  <2>1. PICK f : Iterates(f, k, S, r, h)
    BY <1>2
  <2>2. f \in [0 .. k -> S] /\ f[0] = r /\ \A i \in 1 .. k : f[i] = h[<<i, f[i - 1]>>]
    BY <2>1 DEF Iterates
  <2>3. k + 1 \in 1 .. n /\ k \in 0 .. k /\ k + 1 \in 0 .. n
    OBVIOUS
  <2>4. PICK v \in S : v = h[<<k + 1, f[k]>>]
    BY <2>2, <2>3
  <2> DEFINE g == [i \in 0 .. k + 1 |-> IF i = k + 1 THEN v ELSE f[i]]
  <2>5. g[k + 1] = v /\ \A i \in 0 .. k : g[i] = f[i]
    OBVIOUS
  <2>6. g \in [0 .. k + 1 -> S]
    BY <2>2
  <2> HIDE DEF g
  <2>7. g[0] = r
    BY <2>2, <2>5
  <2>8. ASSUME NEW i \in 1 .. k + 1 PROVE g[i] = h[<<i, g[i - 1]>>]
    <3>1. CASE i = k + 1
      <4>1. i - 1 = k
        BY <3>1
      <4> QED
        BY <2>3, <2>4, <2>5, <3>1, <4>1
    <3>2. CASE i # k + 1
      <4>1. i \in 1 .. k /\ i \in 0 .. k /\ i - 1 \in 0 .. k
        BY <3>2
      <4> QED
        BY <2>2, <2>5, <4>1
    <3> QED
      BY <3>1, <3>2
  <2>9. Iterates(g, k + 1, S, r, h)
    BY <2>6, <2>7, <2>8 DEF Iterates
  <2> QED
    BY <2>3, <2>9
<1>3. 0 .. n \subseteq G
  <2> HIDE DEF G
  <2> QED
    BY <1>1, <1>2, Upwards
<1>4. n \in G
  BY <1>3
<1> QED
  BY <1>4

\* Sums of n integers.
Sums(f, g, n) == f = [k \in 0 .. n |-> IF k = 0 THEN 0 ELSE f[k - 1] + g[k - 1]]

LEMMA SumsExist ==
  ASSUME NEW n \in Nat, NEW g \in [0 .. n - 1 -> Int]
  PROVE  \E f : Sums(f, g, n)
<1> DEFINE h == [p \in (1 .. n) \X Int |-> p[2] + g[p[1] - 1]]
<1>1. h \in [(1 .. n) \X Int -> Int]
  <2>1. ASSUME NEW p \in (1 .. n) \X Int PROVE p[2] + g[p[1] - 1] \in Int
    <3>1. p[1] \in 1 .. n /\ p[2] \in Int
      OBVIOUS
    <3>2. p[1] - 1 \in 0 .. n - 1
      BY <3>1
    <3> QED
      BY <3>1, <3>2
  <2> QED
    BY <2>1
<1>2. \A i \in 1 .. n, v \in Int : h[<<i, v>>] = v + g[i - 1]
  OBVIOUS
<1> HIDE DEF h
<1>3. PICK f : Iterates(f, n, Int, 0, h)
  <2>1. 0 \in Int
    OBVIOUS
  <2> QED
    BY <1>1, <2>1, Iteration, Zenon
<1>4. f \in [0 .. n -> Int] /\ f[0] = 0 /\ \A i \in 1 .. n : f[i] = h[<<i, f[i - 1]>>]
  BY <1>3 DEF Iterates
<1>5. ASSUME NEW k \in 0 .. n PROVE f[k] = IF k = 0 THEN 0 ELSE f[k - 1] + g[k - 1]
  <2>1. CASE k = 0
    BY <1>4, <2>1
  <2>2. CASE k # 0
    <3>1. k \in 1 .. n /\ k - 1 \in 0 .. n
      BY <2>2
    <3> QED
      BY <1>2, <1>4, <2>2, <3>1
  <2> QED
    BY <2>1, <2>2
<1>6. f = [k \in 0 .. n |-> IF k = 0 THEN 0 ELSE f[k - 1] + g[k - 1]]
  BY <1>4, <1>5
<1> QED
  BY <1>6 DEF Sums

LEMMA SumsInt ==
  ASSUME NEW n \in Nat, NEW g \in [0 .. n - 1 -> Int], NEW f, Sums(f, g, n)
  PROVE  f[0] = 0 /\ \A k \in 0 .. n : /\ f[k] \in Int
                                       /\ k # 0 => f[k] = f[k - 1] + g[k - 1]
<1>1. f = [k \in 0 .. n |-> IF k = 0 THEN 0 ELSE f[k - 1] + g[k - 1]]
  BY DEF Sums
<1>2. \A k \in 0 .. n : f[k] = IF k = 0 THEN 0 ELSE f[k - 1] + g[k - 1]
  BY <1>1
<1>3. f[0] = 0 /\ \A k \in 0 .. n : k # 0 => f[k] = f[k - 1] + g[k - 1]
  BY <1>2
<1> DEFINE G == {k \in 0 .. n : f[k] \in Int}
<1>4. 0 \in G
  BY <1>3
<1>5. ASSUME NEW k \in 0 .. n - 1, k \in G PROVE k + 1 \in G
  <2>1. k + 1 \in 0 .. n /\ k + 1 # 0 /\ (k + 1) - 1 = k
    OBVIOUS
  <2>2. f[k + 1] = f[k] + g[k] /\ f[k] \in Int /\ g[k] \in Int
    BY <1>3, <1>5, <2>1
  <2> QED
    BY <2>1, <2>2
<1>6. 0 .. n \subseteq G
  <2> HIDE DEF G
  <2> QED
    BY <1>4, <1>5, Upwards
<1> QED
  BY <1>3, <1>6

-----------------------------------------------------------------------------
(***************************************************************************)
(* What the uops compute from words are integers, and flags are flags.     *)
(***************************************************************************)

LEMMA BitBounds ==
  ASSUME NEW x \in Int, NEW i \in Nat
  PROVE  Bit(x, i) \in 0 .. 1 /\ x \div 2 ^ i \in Int /\ x % 2 ^ i \in Nat
<1>1. PICK m \in Nat \ {0} : m = 2 ^ i
  BY PowerPositive
<1>2. x \div m \in Int /\ x % m \in Nat /\ (x \div m) % 2 \in 0 .. 1
  BY Z3
<1> QED
  BY <1>1, <1>2 DEF Bit

LEMMA BitwiseInt ==
  ASSUME NEW op \in {"and", "or", "xor"}, NEW a \in Int, NEW b \in Int
  PROVE  BitwiseOp(op, a, b) \in Int
<1> DEFINE n == Width(3)
           one(i) == CASE op = "and" -> Bit(a, i) * Bit(b, i)
                       [] op = "or"  -> Bit(a, i) + Bit(b, i) - Bit(a, i) * Bit(b, i)
                       [] op = "xor" -> (Bit(a, i) + Bit(b, i)) % 2
           g == [j \in 0 .. n - 1 |-> one(j) * 2 ^ j]
           upto == CHOOSE f : f = [k \in 0 .. n |-> IF k = 0 THEN 0 ELSE f[k - 1] + one(k - 1) * 2 ^ (k - 1)]
<1>1. n \in Nat
  BY Widths
<1>2. ASSUME NEW i \in Nat PROVE one(i) * 2 ^ i \in Int
  <2>1. PICK x \in 0 .. 1 : x = Bit(a, i)
    BY BitBounds
  <2>2. PICK y \in 0 .. 1 : y = Bit(b, i)
    BY BitBounds
  <2>3. x * y \in Int /\ x + y - x * y \in Int /\ (x + y) % 2 \in Int
    BY Z3
  <2>4. one(i) \in Int
    BY <2>1, <2>2, <2>3
  <2> HIDE DEF one
  <2> QED
    BY <2>4, PowerPositive
<1>3. BitwiseOp(op, a, b) = upto[n]
  BY DEF BitwiseOp
<1> HIDE DEF n, one
<1>4. g \in [0 .. n - 1 -> Int]
  BY <1>1, <1>2
<1>5. ASSUME NEW f PROVE Sums(f, g, n) <=> f = [k \in 0 .. n |-> IF k = 0 THEN 0 ELSE f[k - 1] + one(k - 1) * 2 ^ (k - 1)]
  <2>1. \A k \in 0 .. n : k # 0 => k - 1 \in 0 .. n - 1
    BY <1>1
  <2>2. \A k \in 0 .. n : k # 0 => g[k - 1] = one(k - 1) * 2 ^ (k - 1)
    BY <2>1
  <2> HIDE DEF g
  <2>3. [k \in 0 .. n |-> IF k = 0 THEN 0 ELSE f[k - 1] + g[k - 1]]
          = [k \in 0 .. n |-> IF k = 0 THEN 0 ELSE f[k - 1] + one(k - 1) * 2 ^ (k - 1)]
    BY <2>2
  <2> QED
    BY <2>3 DEF Sums
<1> HIDE DEF g
<1>6. PICK f : Sums(f, g, n)
  BY <1>1, <1>4, SumsExist
<1>7. upto = [k \in 0 .. n |-> IF k = 0 THEN 0 ELSE upto[k - 1] + one(k - 1) * 2 ^ (k - 1)]
  BY <1>5, <1>6
<1> HIDE DEF upto
<1>8. Sums(upto, g, n)
  BY <1>5, <1>7
<1> QED
  BY <1>1, <1>3, <1>4, <1>8, SumsInt

LEMMA ByteswapInt ==
  ASSUME NEW x \in Int, NEW s \in 0 .. 3
  PROVE  byteswap(x, s) \in Int
<1> DEFINE n == 2 ^ s
           byte(i) == (x \div 2 ^ (ByteBits * i)) % 2 ^ ByteBits
           g == [j \in 0 .. n - 1 |-> byte(j) * 2 ^ (ByteBits * (n - (j + 1)))]
           upto == CHOOSE f : f = [k \in 0 .. n |-> IF k = 0 THEN 0 ELSE f[k - 1] + byte(k - 1) * 2 ^ (ByteBits * (n - k))]
<1>1. n \in Nat
  BY PowerPositive
<1>2. byteswap(x, s) = upto[n]
  BY DEF byteswap
<1>3. ASSUME NEW i \in Nat PROVE byte(i) \in Int
  <2>1. ByteBits * i \in Nat /\ ByteBits \in Nat
    BY ByteBitsAssumption
  <2>2. PICK m \in Nat \ {0} : m = 2 ^ (ByteBits * i)
    BY <2>1, PowerPositive
  <2>3. PICK w \in Nat \ {0} : w = 2 ^ ByteBits
    BY <2>1, PowerPositive
  <2>4. (x \div m) % w \in Int
    BY Z3
  <2> QED
    BY <2>2, <2>3, <2>4
<1> HIDE DEF n, byte
<1>4. g \in [0 .. n - 1 -> Int]
  <2>1. ASSUME NEW j \in 0 .. n - 1 PROVE byte(j) * 2 ^ (ByteBits * (n - (j + 1))) \in Int
    <3>1. n - (j + 1) \in Nat /\ j \in Nat
      BY <1>1
    <3>2. ByteBits * (n - (j + 1)) \in Nat
      BY <3>1, ByteBitsAssumption
    <3>3. 2 ^ (ByteBits * (n - (j + 1))) \in Int
      BY <3>2, PowerPositive
    <3> QED
      BY <1>3, <3>1, <3>3
  <2> QED
    BY <2>1
<1>5. ASSUME NEW f PROVE Sums(f, g, n) <=> f = [k \in 0 .. n |-> IF k = 0 THEN 0 ELSE f[k - 1] + byte(k - 1) * 2 ^ (ByteBits * (n - k))]
  <2>1. \A k \in 0 .. n : k # 0 => k - 1 \in 0 .. n - 1 /\ (k - 1) + 1 = k
    BY <1>1
  <2>2. \A k \in 0 .. n : k # 0 => g[k - 1] = byte(k - 1) * 2 ^ (ByteBits * (n - k))
    BY <2>1
  <2> HIDE DEF g
  <2>3. [k \in 0 .. n |-> IF k = 0 THEN 0 ELSE f[k - 1] + g[k - 1]]
          = [k \in 0 .. n |-> IF k = 0 THEN 0 ELSE f[k - 1] + byte(k - 1) * 2 ^ (ByteBits * (n - k))]
    BY <2>2
  <2> QED
    BY <2>3 DEF Sums
<1> HIDE DEF g
<1>6. PICK f : Sums(f, g, n)
  BY <1>1, <1>4, SumsExist
<1>7. upto = [k \in 0 .. n |-> IF k = 0 THEN 0 ELSE upto[k - 1] + byte(k - 1) * 2 ^ (ByteBits * (n - k))]
  BY <1>5, <1>6
<1> HIDE DEF upto
<1>8. Sums(upto, g, n)
  BY <1>5, <1>7
<1> QED
  BY <1>1, <1>2, <1>4, <1>8, SumsInt

\* Rotating a number by a number.
LEMMA RotrInt ==
  ASSUME NEW v \in Int, NEW n \in Int, NEW s \in 0 .. 3
  PROVE  rotr(v, n, s) \in Int
<1>1. PICK w \in Nat \ {0} : w = Width(s)
  BY Widths
<1>2. PICK k \in Nat : k = n % w /\ w - k \in Nat
  <2>1. n % w \in 0 .. w - 1
    BY Z3
  <2> QED
    BY <2>1
<1>3. v \div 2 ^ k \in Int /\ v % 2 ^ k \in Int
  BY BitBounds
<1>4. 2 ^ (w - k) \in Int
  BY <1>2, PowerPositive
<1>5. (v \div 2 ^ k) + (v % 2 ^ k) * 2 ^ (w - k) \in Int
  BY <1>3, <1>4
<1> QED
  BY <1>1, <1>2, <1>5 DEF rotr

\* One round of a rotation through carry, either way.
Round == [value: Int, cf: Int]

LEMMA RotateCarryLeftInt ==
  ASSUME NEW v \in Int, NEW count \in Nat, NEW carry \in Int, NEW s \in 0 .. 3
  PROVE  RotateCarryLeftOp(v, count, carry, s).value \in Int
<1> DEFINE after(r) == [value |-> ((2 * r.value) % 2 ^ Width(s)) + r.cf, cf |-> high_bit(r.value, s)]
           first == [value |-> v, cf |-> carry]
           h == [p \in (1 .. count) \X Round |-> after(p[2])]
           round == CHOOSE f : f = [i \in 0 .. count |-> IF i = 0 THEN first ELSE after(f[i - 1])]
<1>1. ASSUME NEW r \in Round PROVE after(r) \in Round
  <2>1. PICK m \in Nat \ {0} : m = 2 ^ Width(s)
    BY WordHolds
  <2>2. r.value \in Int /\ r.cf \in Int
    BY DEF Round
  <2>3. ((2 * r.value) % m) + r.cf \in Int
    <3>1. 2 * r.value \in Int
      BY <2>2
    <3>2. PICK y \in Int : y = 2 * r.value
      BY <3>1
    <3>3. y % m \in Int
      BY Z3
    <3> QED
      BY <2>2, <3>2, <3>3
  <2>4. Width(s) - 1 \in Nat
    BY Widths
  <2>5. high_bit(r.value, s) \in Int
    BY <2>2, <2>4, BitBounds DEF high_bit
  <2> QED
    BY <2>1, <2>3, <2>5 DEF Round
<1>2. first \in Round
  BY DEF Round
<1>3. RotateCarryLeftOp(v, count, carry, s).value = round[count].value
  BY DEF RotateCarryLeftOp, Shifted
<1> HIDE DEF after, first
<1>4. h \in [(1 .. count) \X Round -> Round] /\ \A i \in 1 .. count, r \in Round : h[<<i, r>>] = after(r)
  BY <1>1
<1> HIDE DEF h
<1>5. PICK f : Iterates(f, count, Round, first, h)
  BY <1>2, <1>4, Iteration
<1>6. f \in [0 .. count -> Round] /\ f[0] = first /\ \A i \in 1 .. count : f[i] = h[<<i, f[i - 1]>>]
  BY <1>5 DEF Iterates
<1>7. ASSUME NEW i \in 0 .. count PROVE f[i] = IF i = 0 THEN first ELSE after(f[i - 1])
  <2>1. i # 0 => i \in 1 .. count /\ i - 1 \in 0 .. count
    OBVIOUS
  <2> QED
    BY <1>4, <1>6, <2>1
<1>8. f = [i \in 0 .. count |-> IF i = 0 THEN first ELSE after(f[i - 1])]
  BY <1>6, <1>7
<1>9. round = [i \in 0 .. count |-> IF i = 0 THEN first ELSE after(round[i - 1])]
  BY <1>8
<1> HIDE DEF round
<1> DEFINE G == {i \in 0 .. count : round[i] \in Round}
<1>10. 0 \in G
  BY <1>2, <1>9
<1>11. ASSUME NEW k \in 0 .. count - 1, k \in G PROVE k + 1 \in G
  <2>1. k + 1 \in 0 .. count /\ k + 1 # 0 /\ (k + 1) - 1 = k
    OBVIOUS
  <2>2. round[k + 1] = after(round[k])
    BY <1>9, <2>1
  <2> QED
    BY <1>1, <1>11, <2>1, <2>2
<1>12. 0 .. count \subseteq G
  <2> HIDE DEF G
  <2> QED
    BY <1>10, <1>11, Upwards
<1>13. round[count] \in Round
  BY <1>12
<1> QED
  BY <1>3, <1>13 DEF Round

LEMMA RotateCarryRightInt ==
  ASSUME NEW v \in Int, NEW count \in Nat, NEW carry \in Int, NEW s \in 0 .. 3
  PROVE  RotateCarryRightOp(v, count, carry, s).value \in Int
<1> DEFINE after(r) == [value |-> r.value \div 2 + r.cf * 2 ^ (Width(s) - 1), cf |-> r.value % 2]
           first == [value |-> v, cf |-> carry]
           h == [p \in (1 .. count) \X Round |-> after(p[2])]
           round == CHOOSE f : f = [i \in 0 .. count |-> IF i = 0 THEN first ELSE after(f[i - 1])]
<1>1. ASSUME NEW r \in Round PROVE after(r) \in Round
  <2>1. r.value \in Int /\ r.cf \in Int
    BY DEF Round
  <2>2. Width(s) - 1 \in Nat
    BY Widths
  <2>3. PICK m \in Nat : m = 2 ^ (Width(s) - 1)
    BY <2>2, PowerPositive
  <2>4. PICK y \in Int : y = r.value
    BY <2>1
  <2>5. y \div 2 \in Int /\ y % 2 \in Int
    BY Z3
  <2>6. r.cf * m \in Int
    BY <2>1
  <2>7. y \div 2 + r.cf * m \in Int
    BY <2>5, <2>6
  <2> QED
    BY <2>3, <2>4, <2>5, <2>7 DEF Round
<1>2. first \in Round
  BY DEF Round
<1>3. RotateCarryRightOp(v, count, carry, s).value = round[count].value
  BY DEF RotateCarryRightOp, Shifted
<1> HIDE DEF after, first
<1>4. h \in [(1 .. count) \X Round -> Round] /\ \A i \in 1 .. count, r \in Round : h[<<i, r>>] = after(r)
  BY <1>1
<1> HIDE DEF h
<1>5. PICK f : Iterates(f, count, Round, first, h)
  BY <1>2, <1>4, Iteration
<1>6. f \in [0 .. count -> Round] /\ f[0] = first /\ \A i \in 1 .. count : f[i] = h[<<i, f[i - 1]>>]
  BY <1>5 DEF Iterates
<1>7. ASSUME NEW i \in 0 .. count PROVE f[i] = IF i = 0 THEN first ELSE after(f[i - 1])
  <2>1. i # 0 => i \in 1 .. count /\ i - 1 \in 0 .. count
    OBVIOUS
  <2> QED
    BY <1>4, <1>6, <2>1
<1>8. f = [i \in 0 .. count |-> IF i = 0 THEN first ELSE after(f[i - 1])]
  BY <1>6, <1>7
<1>9. round = [i \in 0 .. count |-> IF i = 0 THEN first ELSE after(round[i - 1])]
  BY <1>8
<1> HIDE DEF round
<1> DEFINE G == {i \in 0 .. count : round[i] \in Round}
<1>10. 0 \in G
  BY <1>2, <1>9
<1>11. ASSUME NEW k \in 0 .. count - 1, k \in G PROVE k + 1 \in G
  <2>1. k + 1 \in 0 .. count /\ k + 1 # 0 /\ (k + 1) - 1 = k
    OBVIOUS
  <2>2. round[k + 1] = after(round[k])
    BY <1>9, <2>1
  <2> QED
    BY <1>1, <1>11, <2>1, <2>2
<1>12. 0 .. count \subseteq G
  <2> HIDE DEF G
  <2> QED
    BY <1>10, <1>11, Upwards
<1>13. round[count] \in Round
  BY <1>12
<1> QED
  BY <1>3, <1>13 DEF Round

LEMMA ShiftLeftInt ==
  ASSUME NEW v \in Int, NEW count \in Nat, NEW s \in 0 .. 3
  PROVE  ShiftLeftOp(v, count, s).value \in Int
<1>1. PICK m \in Nat \ {0} : m = 2 ^ Width(s)
  BY WordHolds
<1>2. PICK p \in Nat : p = 2 ^ count
  BY PowerPositive
<1>3. PICK y \in Int : y = v * p
  OBVIOUS
<1>4. y % m \in Int
  BY Z3
<1> QED
  BY <1>1, <1>2, <1>3, <1>4 DEF ShiftLeftOp, Shifted

LEMMA ShiftRightInt ==
  ASSUME NEW v \in Int, NEW count \in Nat, NEW s \in 0 .. 3
  PROVE  ShiftRightOp(v, count, s).value \in Int
BY BitBounds DEF ShiftRightOp, Shifted

LEMMA ShiftArithmeticRightInt ==
  ASSUME NEW v \in Int, NEW count \in Nat, NEW s \in 0 .. 3
  PROVE  ShiftArithmeticRightOp(v, count, s).value \in Int
<1>1. PICK w \in Nat \ {0} : w = Width(s)
  BY Widths
<1>2. PICK sign \in Int : sign = high_bit(v, s)
  <2>1. w - 1 \in Nat
    OBVIOUS
  <2> QED
    BY <1>1, <2>1, BitBounds DEF high_bit
<1>3. PICK m \in Nat : m = 2 ^ w
  BY PowerPositive
<1>4. sign * Ones(s) \in Int
  <2>1. sign * (m - 1) \in Int
    OBVIOUS
  <2> QED
    BY <1>1, <1>3, <2>1 DEF Ones
<1>5. ASSUME ~(count >= w) PROVE v \div 2 ^ count + sign * (2 ^ w - 2 ^ (w - count)) \in Int
  <2>1. w - count \in Nat
    BY <1>5
  <2>2. PICK q \in Nat : q = 2 ^ (w - count)
    BY <2>1, PowerPositive
  <2>3. v \div 2 ^ count \in Int /\ sign * (m - q) \in Int
    BY BitBounds
  <2> QED
    BY <1>3, <2>2, <2>3
<1> QED
  BY <1>1, <1>2, <1>4, <1>5 DEF ShiftArithmeticRightOp, Shifted

LEMMA RotateInt ==
  ASSUME NEW v \in Int, NEW count \in Nat, NEW s \in 0 .. 3
  PROVE  RotateLeftOp(v, count, s).value \in Int /\ RotateRightOp(v, count, s).value \in Int
<1>1. PICK w \in Nat \ {0} : w = Width(s)
  BY Widths
<1>2. PICK k \in Int : k = w - (count % w)
  <2>1. count % w \in Int
    BY Z3
  <2> QED
    BY <2>1
<1>3. rotl(v, count, s) \in Int
  BY <1>1, <1>2, RotrInt DEF rotl
<1>4. rotr(v, count, s) \in Int
  <2>1. count \in Int
    OBVIOUS
  <2> QED
    BY <2>1, RotrInt
<1> QED
  BY <1>3, <1>4 DEF RotateLeftOp, RotateRightOp, Shifted

\* Operands and results of a register's width.
InputsOK(x) ==
  /\ x.ra \in Word /\ x.rb \in Word /\ x.rc \in Word
  /\ x.raflags \subseteq AllFlags /\ x.rbflags \subseteq AllFlags /\ x.rcflags \subseteq AllFlags

ResultOK(r) == r.data \in Word /\ r.flags \subseteq AllFlags /\ r.exception \in {"none", "SkipBlock", "DivideOverflow"}

LEMMA WordNat == ASSUME NEW x \in Word PROVE x \in Nat /\ x \in Int
BY WordHolds DEF Word

LEMMA SmallWord == ASSUME NEW x \in 0 .. 31 PROVE x \in Word
<1>1. WordSize \in Nat /\ 32 <= WordSize
  <2>1. 0 \in 0 .. 3
    OBVIOUS
  <2> QED
    BY <2>1, WordHolds
<1> QED
  BY <1>1 DEF Word

LEMMA FlagBitsWord == ASSUME NEW f PROVE FlagBits(f) \in Word
<1>1. \A n : flag_bit(f, n) \in 0 .. 1
  BY DEF flag_bit
<1>2. FlagBits(f) \in 0 .. 31
  BY <1>1 DEF FlagBits
<1> QED
  BY <1>2, SmallWord

LEMMA GenflagsOK == ASSUME NEW r, NEW s PROVE x86_genflags(r, s) \subseteq AllFlags
BY DEF x86_genflags, If, AllFlags, ZAPS

LEMMA LowInt ==
  ASSUME NEW x \in Word, NEW s \in 0 .. 3
  PROVE  Lo(x, s) \in Nat /\ Lo(x, s) \in Int
BY LowWord, WordNat

\* A result is written over the low part of a word.
LEMMA MergedOK ==
  ASSUME NEW rd \in Word, NEW v \in Int, NEW s \in 0 .. 3, NEW f, f \subseteq AllFlags
  PROVE  ResultOK(Result(x86_merge(rd, v, s), f))
BY MergeWord DEF ResultOK, Result

LEMMA EffectiveCountNat ==
  ASSUME NEW op, NEW rb \in Int, NEW s \in 0 .. 3
  PROVE  EffectiveCount(op, rb, s) \in Nat
<1>1. PICK w \in Nat \ {0} : w = Width(s)
  BY Widths
<1>2. PICK v \in Nat \ {0} : v = Width(2)
  BY Widths
<1>3. PICK t \in Nat \ {0} : t = Width(3)
  BY Widths
<1>4. PICK masked \in Nat : masked = x86_shift_count(rb, s)
  <2>1. rb % v \in Nat /\ rb % t \in Nat
    BY Z3
  <2> QED
    BY <1>2, <1>3, <2>1 DEF x86_shift_count
<1>5. masked % w \in Nat /\ masked % (w + 1) \in Nat
  <2>1. PICK z \in Nat \ {0} : z = w + 1
    OBVIOUS
  <2>2. masked % w \in Nat /\ masked % z \in Nat
    BY Z3
  <2> QED
    BY <2>1, <2>2
<1> QED
  BY <1>1, <1>4, <1>5 DEF EffectiveCount

LEMMA ShiftOK ==
  ASSUME NEW u, u.op \in ShiftOp, u.size \in 0 .. 3, NEW x, InputsOK(x)
  PROVE  ResultOK(shiftop(u, x))
<1> DEFINE s == u.size
           v == Lo(x.ra, s)
           count == EffectiveCount(u.op, Lo(x.rb, s), s)
           carry == flag_bit(x.rcflags, "CF")
           r == CASE count = 0 -> Shifted(v, 0, 0, 0)
                  [] count > 0 /\ u.op \in {"shl", "shls"} -> ShiftLeftOp(v, count, s)
                  [] count > 0 /\ u.op \in {"shr", "shrs"} -> ShiftRightOp(v, count, s)
                  [] count > 0 /\ u.op \in {"sar", "sars"} -> ShiftArithmeticRightOp(v, count, s)
                  [] count > 0 /\ u.op = "rotl" -> RotateLeftOp(v, count, s)
                  [] count > 0 /\ u.op = "rotr" -> RotateRightOp(v, count, s)
                  [] count > 0 /\ u.op = "rotcl" -> RotateCarryLeftOp(v, count, carry, s)
                  [] count > 0 /\ u.op = "rotcr" -> RotateCarryRightOp(v, count, carry, s)
           all == x86_genflags(r.value, s)
                    \cup If(u.setflags # {} /\ r.cf = 1, {"CF"}) \cup If(u.setflags # {} /\ r.of = 1, {"OF"})
           flags == IF r.count = 0 THEN x.rcflags ELSE all
<1>1. s \in 0 .. 3 /\ x.ra \in Word /\ x.rb \in Word
  BY DEF InputsOK
<1>2. v \in Int /\ Lo(x.rb, s) \in Int
  BY <1>1, LowInt
<1>3. count \in Nat
  BY <1>1, <1>2, EffectiveCountNat
<1>4. carry \in Int
  BY DEF flag_bit
<1>5. shiftop(u, x) = Result(x86_merge(x.ra, r.value, s), flags)
  BY DEF shiftop
<1> HIDE DEF s, v, count, carry
<1>6. r.value \in Int
  <2>1. CASE count = 0
    <3>1. r = Shifted(v, 0, 0, 0)
      BY <2>1
    <3>2. Shifted(v, 0, 0, 0).value = v
      BY DEF Shifted
    <3> HIDE DEF r
    <3> QED
      BY <1>2, <3>1, <3>2
  <2>2. CASE count # 0
    <3>0. count > 0
      BY <1>3, <2>2
    <3>1. CASE u.op \in {"shl", "shls"}
      <4>1. r = ShiftLeftOp(v, count, s)
        BY <2>2, <3>0, <3>1
      <4> QED
        BY <1>1, <1>2, <1>3, <4>1, ShiftLeftInt
    <3>2. CASE u.op \in {"shr", "shrs"}
      <4>1. r = ShiftRightOp(v, count, s)
        BY <2>2, <3>0, <3>2
      <4> QED
        BY <1>1, <1>2, <1>3, <4>1, ShiftRightInt
    <3>3. CASE u.op \in {"sar", "sars"}
      <4>1. r = ShiftArithmeticRightOp(v, count, s)
        BY <2>2, <3>0, <3>3
      <4> QED
        BY <1>1, <1>2, <1>3, <4>1, ShiftArithmeticRightInt
    <3>4. CASE u.op = "rotl"
      <4>1. r = RotateLeftOp(v, count, s)
        BY <2>2, <3>0, <3>4
      <4> QED
        BY <1>1, <1>2, <1>3, <4>1, RotateInt
    <3>5. CASE u.op = "rotr"
      <4>1. r = RotateRightOp(v, count, s)
        BY <2>2, <3>0, <3>5
      <4> QED
        BY <1>1, <1>2, <1>3, <4>1, RotateInt
    <3>6. CASE u.op = "rotcl"
      <4>1. r = RotateCarryLeftOp(v, count, carry, s)
        BY <2>2, <3>0, <3>6
      <4> QED
        BY <1>1, <1>2, <1>3, <1>4, <4>1, RotateCarryLeftInt
    <3>7. CASE u.op = "rotcr"
      <4>1. r = RotateCarryRightOp(v, count, carry, s)
        BY <2>2, <3>0, <3>7
      <4> QED
        BY <1>1, <1>2, <1>3, <1>4, <4>1, RotateCarryRightInt
    <3> QED
      BY <3>1, <3>2, <3>3, <3>4, <3>5, <3>6, <3>7 DEF ShiftOp
  <2> QED
    BY <2>1, <2>2
<1> HIDE DEF r
<1>7. all \subseteq AllFlags
  BY GenflagsOK DEF If, AllFlags
<1>8. flags \subseteq AllFlags
  BY <1>7 DEF InputsOK
<1> HIDE DEF flags
<1> QED
  BY <1>1, <1>5, <1>6, <1>8, MergedOK

\* Sum and difference, whole and in part.
LEMMA Aluop2Int ==
  ASSUME NEW subtract, NEW a \in Int, NEW b \in Int, NEW carry \in Int, NEW s \in 0 .. 3
  PROVE  /\ x86_aluop2(subtract, a, b, carry, s).value \in Int
         /\ x86_aluop2(subtract, a, b, carry, s).flags \subseteq AllFlags
<1>1. PICK m \in Nat \ {0} : m = 2 ^ Width(s)
  BY WordHolds
<1> DEFINE step(x, y) == IF subtract THEN (x - y + m) % m ELSE (x + y) % m
<1>2. ASSUME NEW x \in Int, NEW y \in Int PROVE step(x, y) \in Int
  <2>1. PICK d \in Int : d = x - y + m
    OBVIOUS
  <2>2. PICK e \in Int : e = x + y
    OBVIOUS
  <2>3. d % m \in Int /\ e % m \in Int
    BY Z3
  <2> QED
    BY <2>1, <2>2, <2>3
<1>3. x86_aluop2(subtract, a, b, carry, s).value = step(step(a, b), carry)
  BY <1>1 DEF x86_aluop2
<1>4. x86_aluop2(subtract, a, b, carry, s).flags \subseteq AllFlags
  BY DEF x86_aluop2, If, AllFlags
<1> HIDE DEF step
<1> QED
  BY <1>2, <1>3, <1>4

LEMMA InvertInt ==
  ASSUME NEW x \in Int, NEW s \in 0 .. 3
  PROVE  Invert(x, s) \in Int /\ Ones(s) \in Int
<1>1. 2 ^ Width(s) \in Int /\ Lo(x, s) \in Int
  BY LowWord, WordHolds
<1> QED
  BY <1>1 DEF Invert, Ones

LEMMA ExpOpInt ==
  ASSUME NEW op \in {"and", "or", "xor", "nor"}, NEW a \in Int, NEW b \in Int, NEW s \in 0 .. 3
  PROVE  exp_op(op, a, b, s) \in Int
<1>1. CASE op = "nor"
  <2>1. BitwiseOp("or", a, b) \in Int
    BY BitwiseInt
  <2> QED
    BY <1>1, <2>1, InvertInt DEF exp_op
<1>2. CASE op # "nor"
  BY <1>2, BitwiseInt DEF exp_op
<1> QED
  BY <1>1, <1>2

LEMMA BittestInt ==
  ASSUME NEW op \in {"bt", "bts", "btr", "btc"}, NEW a \in Int, NEW b \in Int, NEW s \in 0 .. 3
  PROVE  bittest(op, a, b, s) \in Int
<1>1. PICK w \in Nat \ {0} : w = Width(s)
  BY Widths
<1>2. PICK i \in Nat : i = b % w
  BY Z3
<1>3. PICK one \in Nat : one = 2 ^ i
  BY PowerPositive
<1>4. PICK bit \in Int : bit = Bit(a, i)
  BY BitBounds
<1>5. PICK cleared \in Int : cleared = a - one * bit
  OBVIOUS
<1>6. cleared + one \in Int /\ cleared + one * (1 - bit) \in Int
  OBVIOUS
<1>7. Ones(s) \in Int
  BY InvertInt
<1> QED
  BY <1>1, <1>2, <1>3, <1>4, <1>5, <1>6, <1>7 DEF bittest

LEMMA AluOK ==
  ASSUME NEW u, u.op \in AluOp, u.size \in 0 .. 3, NEW x, InputsOK(x)
  PROVE  ResultOK(aluop(u, x))
<1> DEFINE s == u.size
           a == Lo(x.ra, s)
           b == Lo(x.rb, s)
           cf == If(Bit(a, b % Width(s)) = 1, {"CF"})
           sum == x86_aluop2(u.op = "sub", a, b, flag_bit(x.rcflags, "CF"), s)
           rt == CASE u.op \in {"and", "or", "xor", "nor"}  -> exp_op(u.op, a, b, s)
                   [] u.op \in {"bt", "bts", "btr", "btc"}  -> bittest(u.op, a, b, s)
                   [] u.op = "bswap" -> IF s >= 2 THEN byteswap(b, s) ELSE 0
                   [] u.op \in {"add", "sub"} -> sum.value
           flags == CASE u.op \in {"and", "or", "xor", "nor"} -> If(u.setflags # {}, x86_genflags(rt, s))
                      [] u.op \in {"bt", "bts", "btr", "btc"} -> cf
                      [] u.op = "bswap" -> {}
                      [] u.op \in {"add", "sub"} ->
                           If(u.setflags # {}, x86_genflags(rt, s) \cup sum.flags)
<1>1. s \in 0 .. 3 /\ x.ra \in Word /\ x.rb \in Word
  BY DEF InputsOK
<1>2. a \in Int /\ b \in Int
  BY <1>1, LowInt
<1>3. flag_bit(x.rcflags, "CF") \in Int
  BY DEF flag_bit
<1>4. sum.value \in Int /\ sum.flags \subseteq AllFlags
  BY <1>1, <1>2, <1>3, Aluop2Int
<1>5. cf \subseteq AllFlags
  BY DEF If, AllFlags
<1>6. aluop(u, x) = Result(x86_merge(x.ra, rt, s), flags)
  BY DEF aluop
<1> HIDE DEF s, a, b, cf, sum
<1>7. rt \in Int
  <2>1. CASE u.op \in {"and", "or", "xor", "nor"}
    <3>1. rt = exp_op(u.op, a, b, s)
      BY <2>1
    <3> HIDE DEF rt
    <3> QED
      BY <1>1, <1>2, <2>1, <3>1, ExpOpInt
  <2>2. CASE u.op \in {"bt", "bts", "btr", "btc"}
    <3>1. rt = bittest(u.op, a, b, s)
      BY <2>2
    <3> HIDE DEF rt
    <3> QED
      BY <1>1, <1>2, <2>2, <3>1, BittestInt
  <2>3. CASE u.op = "bswap"
    <3>1. rt = byteswap(b, s) \/ rt = 0
      BY <2>3
    <3> HIDE DEF rt
    <3> QED
      BY <1>1, <1>2, <3>1, ByteswapInt
  <2>4. CASE u.op \in {"add", "sub"}
    <3>1. rt = sum.value
      BY <2>4
    <3> HIDE DEF rt
    <3> QED
      BY <1>4, <3>1
  <2> QED
    BY <2>1, <2>2, <2>3, <2>4 DEF AluOp
<1> HIDE DEF rt
<1>8. flags \subseteq AllFlags
  <2>1. x86_genflags(rt, s) \subseteq AllFlags
    BY GenflagsOK
  <2> QED
    BY <1>4, <1>5, <2>1 DEF AluOp, If
<1> HIDE DEF flags
<1> QED
  BY <1>1, <1>6, <1>7, <1>8, MergedOK

\* A number whose low k bits are all clear is a multiple of 2 ^ k.
LEMMA ClearBits ==
  ASSUME NEW b \in Nat, NEW w \in Nat, \A i \in 0 .. w - 1 : Bit(b, i) = 0
  PROVE  b % 2 ^ w = 0
<1> DEFINE G == {k \in 0 .. w : b % 2 ^ k = 0}
<1>1. 0 \in G
  <2>1. 2 ^ 0 = 1 /\ b % 1 = 0
    BY Z3
  <2> QED
    BY <2>1
<1>2. ASSUME NEW k \in 0 .. w - 1, k \in G PROVE k + 1 \in G
  <2>1. k \in Nat /\ k + 1 \in 0 .. w
    OBVIOUS
  <2>2. PICK p \in Nat \ {0} : p = 2 ^ k
    BY <2>1, PowerPositive
  <2>3. 2 ^ (k + 1) = 2 * p
    BY <2>1, <2>2, PowerStep
  <2>4. b % p = 0
    BY <1>2, <2>2
  <2>5. (b \div p) % 2 = 0
    BY <2>2 DEF Bit
  <2>6. PICK d \in Nat : d = b \div p /\ b = p * d
    <3>1. b \div p \in Nat /\ b = p * (b \div p) + (b % p)
      BY Z3
    <3> QED
      BY <2>4, <3>1
  <2>7. PICK e \in Nat : d = 2 * e
    <3>1. d \div 2 \in Nat /\ d = 2 * (d \div 2) + (d % 2)
      BY Z3
    <3>2. d % 2 = 0
      BY <2>5, <2>6
    <3> QED
      BY <3>1, <3>2
  <2>8. b = (2 * p) * e
    BY <2>6, <2>7
  <2>9. PICK q \in Nat \ {0} : q = 2 * p
    OBVIOUS
  <2>10. (q * e) % q = 0
    BY Z3
  <2> QED
    BY <2>1, <2>3, <2>8, <2>9, <2>10
<1>3. 0 .. w \subseteq G
  <2> HIDE DEF G
  <2> QED
    BY <1>1, <1>2, Upwards
<1> QED
  BY <1>3

\* A set of numbers below w has a least and a greatest one.
LEMMA Extremes ==
  ASSUME NEW w \in Nat, NEW S \in SUBSET (0 .. w - 1), S # {}
  PROVE  (\E i \in S : \A j \in S : i <= j) /\ (\E i \in S : \A j \in S : i >= j)
<1>1. \A i \in S : i \in Nat /\ i < w
  OBVIOUS
<1>2. \E i \in S : \A j \in S : i <= j
  <2>1. S \in SUBSET Nat
    BY <1>1
  <2>2. PICK c \in S : \A d \in S : ~(<<d, c>> \in OpToRel(<, Nat))
    BY <2>1, WFMin, NatLessThanWellFounded
  <2>3. \A d \in S : ~(d < c)
    BY <2>1, <2>2 DEF OpToRel
  <2> QED
    BY <1>1, <2>3
<1>3. \E i \in S : \A j \in S : i >= j
  <2> DEFINE T == {n \in Nat : w - 1 - n \in S}
  <2>1. T # {}
    <3>1. PICK i \in S : TRUE
      OBVIOUS
    <3>2. w - 1 - i \in Nat /\ w - 1 - (w - 1 - i) = i
      BY <1>1
    <3> QED
      BY <3>2
  <2>2. T \in SUBSET Nat
    OBVIOUS
  <2> HIDE DEF T
  <2>3. PICK c \in T : \A d \in T : ~(<<d, c>> \in OpToRel(<, Nat))
    BY <2>1, <2>2, WFMin, NatLessThanWellFounded
  <2>4. \A d \in T : ~(d < c)
    BY <2>2, <2>3 DEF OpToRel
  <2>5. c \in Nat /\ w - 1 - c \in S
    BY DEF T
  <2>6. ASSUME NEW j \in S PROVE w - 1 - c >= j
    <3>1. w - 1 - j \in Nat /\ w - 1 - (w - 1 - j) = j
      BY <1>1
    <3>2. w - 1 - j \in T
      BY <3>1 DEF T
    <3>3. ~(w - 1 - j < c)
      BY <2>4, <3>2
    <3> QED
      BY <1>1, <2>5, <3>3
  <2> QED
    BY <2>5, <2>6
<1> QED
  BY <1>2, <1>3

LEMMA ScanOK ==
  ASSUME NEW u, u.op \in {"ctz", "clz"}, u.size \in 0 .. 3, NEW x, InputsOK(x)
  PROVE  ResultOK(ctzclzop(u, x))
<1> DEFINE b == Lo(x.rb, u.size)
           set == {i \in 0 .. Width(u.size) - 1 : Bit(b, i) = 1}
           index == IF u.op = "ctz" THEN CHOOSE i \in set : \A j \in set : i <= j
                                    ELSE CHOOSE i \in set : \A j \in set : i >= j
           v == IF b = 0 THEN 0 ELSE index
           flags == If(b = 0, {"ZF"})
<1>1. x.ra \in Word /\ x.rb \in Word
  BY DEF InputsOK
<1>2. PICK w \in Nat : w = Width(u.size)
  BY Widths
<1>3. b \in Nat /\ b < 2 ^ w
  BY <1>1, <1>2, LowWord, WordNat
<1>4. ctzclzop(u, x) = Result(x86_merge(x.ra, v, u.size), flags)
  BY DEF ctzclzop
<1>5. flags \subseteq AllFlags
  BY DEF If, AllFlags, ZAPS
<1> HIDE DEF b, flags
<1>6. ASSUME b # 0 PROVE index \in Int
  <2>1. ASSUME \A i \in 0 .. w - 1 : Bit(b, i) = 0 PROVE FALSE
    <3>1. b % 2 ^ w = 0
      BY <1>3, <2>1, ClearBits
    <3>2. PICK m \in Nat \ {0} : m = 2 ^ w
      BY PowerPositive
    <3>3. b < m /\ b % m = 0
      BY <1>3, <3>1, <3>2
    <3>4. b = 0
      BY <1>3, <3>3, Z3
    <3> QED
      BY <1>6, <3>4
  <2>2. PICK i \in 0 .. w - 1 : Bit(b, i) # 0
    BY <2>1
  <2>3. i \in Nat /\ b \in Int
    BY <1>3
  <2>4. Bit(b, i) \in 0 .. 1
    BY <2>3, BitBounds
  <2>5. i \in set
    BY <1>2, <2>2, <2>4
  <2>6. set \in SUBSET (0 .. w - 1)
    BY <1>2
  <2> HIDE DEF set
  <2>7. (\E j \in set : \A k \in set : j <= k) /\ (\E j \in set : \A k \in set : j >= k)
    BY <2>5, <2>6, Extremes
  <2>8. index \in set
    BY <2>7
  <2> HIDE DEF index
  <2> QED
    BY <2>6, <2>8
<1>7. v \in Int
  BY <1>6
<1> HIDE DEF v
<1> QED
  BY <1>1, <1>4, <1>5, <1>7, MergedOK

\* A sign extension of any number to a word.
LEMMA SignextInt ==
  ASSUME NEW x \in Int, NEW bits \in Nat
  PROVE  signext64(x, bits) \in Int
<1>1. PICK m \in Nat \ {0} : m = 2 ^ bits
  BY PowerPositive
<1>2. x % m \in Int
  BY Z3
<1>3. WordSize \in Int
  <2>1. 0 \in 0 .. 3
    OBVIOUS
  <2> QED
    BY <2>1, WordHolds
<1>4. (x % m) + (WordSize - m) \in Int
  BY <1>2, <1>3
<1> QED
  BY <1>1, <1>2, <1>4 DEF signext64

LEMMA MaskOK ==
  ASSUME NEW u, u.size \in 0 .. 3, u.cond \in {"none", "zeroext", "signext"},
         u.mask.ms \in Nat, u.mask.mc \in Nat, u.mask.ds \in Nat, NEW x, InputsOK(x)
  PROVE  ResultOK(exp_op_mask(u, x))
<1> DEFINE s == u.size
           ms == u.mask.ms
           mc == u.mask.mc
           M == rotr((2 ^ mc - 1) % 2 ^ Width(s), ms, s)
           moved == rotr(Lo(x.rb, s), u.mask.ds, s)
           kept == x.ra - BitwiseOp("and", x.ra, M)
           merged == kept + BitwiseOp("and", moved, M)
           rd == CASE u.cond = "none"    -> merged
                   [] u.cond = "zeroext" -> merged % 2 ^ (ms + mc)
                   [] u.cond = "signext" -> signext64(merged, ms + mc)
           base == x86_genflags(rd, s)
           flags == base \cup (x.raflags \cap {"CF"}) \cup If(("SF" \in base) # ("OF" \in x.raflags), {"OF"})
<1>1. s \in 0 .. 3 /\ x.ra \in Word /\ x.ra \in Int /\ Lo(x.rb, s) \in Int
  BY WordNat, LowInt DEF InputsOK
<1>2. ms \in Int /\ u.mask.ds \in Int /\ ms + mc \in Nat
  OBVIOUS
<1>3. M \in Int
  <2>1. PICK m \in Nat \ {0} : m = 2 ^ Width(s)
    BY WordHolds
  <2>2. PICK q \in Int : q = 2 ^ mc - 1
    BY PowerPositive
  <2>3. q % m \in Int
    BY Z3
  <2> QED
    BY <1>1, <1>2, <2>1, <2>2, <2>3, RotrInt
<1>4. moved \in Int
  BY <1>1, <1>2, RotrInt
<1>5. exp_op_mask(u, x) = Result(x86_merge(x.ra, rd, s), flags)
  BY DEF exp_op_mask
<1> HIDE DEF s, ms, mc, M, moved
<1>6. BitwiseOp("and", x.ra, M) \in Int /\ BitwiseOp("and", moved, M) \in Int
  BY <1>1, <1>3, <1>4, BitwiseInt
<1>7. merged \in Int
  BY <1>1, <1>6
<1> HIDE DEF kept, merged
<1>8. merged % 2 ^ (ms + mc) \in Int
  BY <1>2, <1>7, BitBounds
<1>9. signext64(merged, ms + mc) \in Int
  BY <1>2, <1>7, SignextInt
<1>10. rd \in Int
  BY <1>7, <1>8, <1>9
<1> HIDE DEF rd
<1>11. flags \subseteq AllFlags
  BY GenflagsOK DEF If, AllFlags, InputsOK
<1> HIDE DEF flags
<1> QED
  BY <1>1, <1>5, <1>10, <1>11, MergedOK

LEMMA SignedInt ==
  ASSUME NEW x \in Int, NEW s \in 0 .. 3
  PROVE  Signed(x, s) \in Int
<1>1. Lo(x, s) \in Int /\ 2 ^ Width(s) \in Int
  BY LowWord, WordHolds
<1> QED
  BY <1>1 DEF Signed

LEMMA MulOK ==
  ASSUME NEW u, u.op \in {"mull", "mulh", "mulhu"}, u.size \in 0 .. 3, NEW x, InputsOK(x)
  PROVE  ResultOK(x86_mul(u, x))
<1> DEFINE s == u.size
           M == 2 ^ Width(s)
           sprod == Signed(x.ra, s) * Signed(x.rb, s)
           uprod == Lo(x.ra, s) * Lo(x.rb, s)
           low == sprod % M
           wide == IF u.op = "mulhu" THEN uprod \div M # 0 ELSE sprod # Signed(low, s)
           rt == CASE u.op = "mull"  -> low
                   [] u.op = "mulh"  -> (sprod \div M) % M
                   [] u.op = "mulhu" -> uprod \div M
           flags == If(wide, {"CF", "OF"}) \cup If(u.setflags # {}, x86_genflags(rt, s))
<1>1. s \in 0 .. 3 /\ x.ra \in Word /\ x.ra \in Int /\ x.rb \in Word /\ x.rb \in Int
  BY WordNat DEF InputsOK
<1>2. PICK m \in Nat \ {0} : m = M
  BY WordHolds
<1>3. PICK p \in Int : p = sprod
  <2>1. Signed(x.ra, s) \in Int /\ Signed(x.rb, s) \in Int
    BY <1>1, SignedInt
  <2> QED
    BY <2>1
<1>4. PICK q \in Int : q = uprod
  <2>1. Lo(x.ra, s) \in Int /\ Lo(x.rb, s) \in Int
    BY <1>1, LowInt
  <2> QED
    BY <2>1
<1>5. p % m \in Int /\ (p \div m) % m \in Int /\ q \div m \in Int
  BY Z3
<1>6. x86_mul(u, x) = Result(x86_merge(x.ra, rt, s), flags)
  BY DEF x86_mul
<1> HIDE DEF s, M, sprod, uprod
<1>7. rt \in Int
  BY <1>2, <1>3, <1>4, <1>5
<1> HIDE DEF rt, low, wide
<1>8. flags \subseteq AllFlags
  BY GenflagsOK DEF If, AllFlags
<1> HIDE DEF flags
<1> QED
  BY <1>1, <1>6, <1>7, <1>8, MergedOK

\* The quotient and remainder that are delivered are integers.
LEMMA DivInt ==
  ASSUME NEW hi \in Nat, NEW lo \in Nat, NEW d \in Nat, NEW s \in 0 .. 3
  PROVE  /\ div_rem(hi, lo, d, s).q \in Int /\ div_rem(hi, lo, d, s).r \in Int
         /\ div_rem_s(hi, lo, d, s).q \in Int /\ div_rem_s(hi, lo, d, s).r \in Int
<1>1. PICK m \in Nat \ {0} : m = 2 ^ Width(s)
  BY WordHolds
<1>2. div_rem(hi, lo, d, s).q \in Int /\ div_rem(hi, lo, d, s).r \in Int
  <2>1. PICK n \in Nat : n = hi * m + lo
    OBVIOUS
  <2>2. ASSUME d # 0 PROVE n \div d \in Int /\ n % d \in Int
    BY <2>2, Z3
  <2>3. div_rem(hi, lo, d, s) = IF d = 0 \/ n \div d >= m THEN [ok |-> FALSE, q |-> 0, r |-> 0]
                                 ELSE [ok |-> TRUE, q |-> n \div d, r |-> n % d]
    BY <1>1, <2>1 DEF div_rem
  <2> QED
    BY <2>2, <2>3
<1>3. div_rem_s(hi, lo, d, s).q \in Int /\ div_rem_s(hi, lo, d, s).r \in Int
  <2>1. Signed(hi, s) \in Int /\ Signed(d, s) \in Int
    BY SignedInt
  <2>2. PICK n \in Int : n = Signed(hi, s) * m + lo
    BY <2>1
  <2>3. PICK e \in Int : e = Signed(d, s)
    BY <2>1
  <2>4. ASSUME e # 0 PROVE Truncate(n, e) \in Int
    <3>1. PICK a \in Nat : a = Magnitude(n)
      BY DEF Magnitude
    <3>2. PICK b \in Nat \ {0} : b = Magnitude(e)
      BY <2>4 DEF Magnitude
    <3>3. a \div b \in Int
      BY Z3
    <3> QED
      BY <3>1, <3>2, <3>3 DEF Truncate
  <2>5. ASSUME e # 0 PROVE Truncate(n, e) % m \in Int /\ (n - Truncate(n, e) * e) % m \in Int
    <3>1. PICK t \in Int : t = Truncate(n, e)
      BY <2>4, <2>5
    <3>2. PICK r \in Int : r = n - t * e
      OBVIOUS
    <3>3. t % m \in Int /\ r % m \in Int
      BY Z3
    <3> QED
      BY <3>1, <3>2, <3>3
  <2>6. div_rem_s(hi, lo, d, s) =
          IF e = 0 \/ Truncate(n, e) # Signed(Truncate(n, e) % m, s) THEN [ok |-> FALSE, q |-> 0, r |-> 0]
          ELSE [ok |-> TRUE, q |-> Truncate(n, e) % m, r |-> (n - Truncate(n, e) * e) % m]
    BY <1>1, <2>2, <2>3 DEF div_rem_s
  <2>7. CASE e = 0 \/ Truncate(n, e) # Signed(Truncate(n, e) % m, s)
    BY <2>6, <2>7
  <2>8. CASE ~(e = 0 \/ Truncate(n, e) # Signed(Truncate(n, e) % m, s))
    <3>1. /\ div_rem_s(hi, lo, d, s).q = Truncate(n, e) % m
          /\ div_rem_s(hi, lo, d, s).r = (n - Truncate(n, e) * e) % m
      BY <2>6, <2>8
    <3> QED
      BY <2>5, <2>8, <3>1
  <2> QED
    BY <2>7, <2>8
<1> QED
  BY <1>2, <1>3

LEMMA DivOK ==
  ASSUME NEW u, u.size \in 0 .. 3, NEW x, InputsOK(x)
  PROVE  ResultOK(x86_div(u, x))
<1> DEFINE s == u.size
           signed == u.op \in {"divs", "rems"}
           d == IF signed THEN div_rem_s(Lo(x.ra, s), Lo(x.rb, s), Lo(x.rc, s), s)
                          ELSE div_rem(Lo(x.ra, s), Lo(x.rb, s), Lo(x.rc, s), s)
<1>1. s \in 0 .. 3 /\ x.ra \in Word /\ x.rb \in Word
  BY DEF InputsOK
<1>2. Lo(x.ra, s) \in Nat /\ Lo(x.rb, s) \in Nat /\ Lo(x.rc, s) \in Nat
  BY LowInt DEF InputsOK
<1>3. d.q \in Int /\ d.r \in Int
  BY <1>1, <1>2, DivInt
<1>4. \/ x86_div(u, x) = [data |-> 0, flags |-> {}, exception |-> "DivideOverflow"]
      \/ x86_div(u, x) = Result(x86_merge(x.rb, d.q, s), x86_genflags(d.q, s))
      \/ x86_div(u, x) = Result(x86_merge(x.ra, d.r, s), x86_genflags(d.r, s))
  BY DEF x86_div
<1> HIDE DEF s, d
<1>5. ResultOK([data |-> 0, flags |-> {}, exception |-> "DivideOverflow"])
  BY SmallWord DEF ResultOK
<1>6. ResultOK(Result(x86_merge(x.rb, d.q, s), x86_genflags(d.q, s)))
  BY <1>1, <1>3, GenflagsOK, MergedOK
<1>7. ResultOK(Result(x86_merge(x.ra, d.r, s), x86_genflags(d.r, s)))
  BY <1>1, <1>3, GenflagsOK, MergedOK
<1> QED
  BY <1>4, <1>5, <1>6, <1>7

LEMMA FlagOK ==
  ASSUME NEW u, u.op \in FlagOp, NEW x, InputsOK(x)
  PROVE  /\ ResultOK(uop_impl_collcc(x)) /\ ResultOK(uop_impl_movrcc(x)) /\ ResultOK(uop_impl_movccr(x))
         /\ u.op \in {"andcc", "orcc", "ornotcc", "xorcc"} => ResultOK(uop_impl_cc(u.op, x))
<1>1. ASSUME NEW f, f \subseteq AllFlags PROVE ResultOK(Result(FlagBits(f), f))
  BY <1>1, FlagBitsWord DEF ResultOK, Result
<1>2. ResultOK(uop_impl_collcc(x))
  BY <1>1 DEF uop_impl_collcc, InputsOK, AllFlags
<1>3. FlagsOf(x.rb) \subseteq AllFlags
  BY DEF FlagsOf
<1>4. ResultOK(uop_impl_movrcc(x)) /\ ResultOK(uop_impl_movccr(x))
  BY <1>1, <1>3 DEF uop_impl_movrcc, uop_impl_movccr, InputsOK
<1>5. ASSUME u.op \in {"andcc", "orcc", "ornotcc", "xorcc"} PROVE ResultOK(uop_impl_cc(u.op, x))
  <2> DEFINE f == CASE u.op = "andcc"   -> x.raflags \cap x.rbflags
                    [] u.op = "orcc"    -> x.raflags \cup x.rbflags
                    [] u.op = "ornotcc" -> x.raflags \cup (AllFlags \ x.rbflags)
                    [] u.op = "xorcc"   -> (x.raflags \cup x.rbflags) \ (x.raflags \cap x.rbflags)
  <2>1. f \subseteq AllFlags
    BY <1>5 DEF InputsOK
  <2>2. uop_impl_cc(u.op, x) = Result(0, f)
    BY DEF uop_impl_cc
  <2> HIDE DEF f
  <2> QED
    BY <2>1, <2>2, SmallWord DEF ResultOK, Result
<1> QED
  BY <1>2, <1>4, <1>5

LEMMA BranchOK ==
  ASSUME NEW u, u.op \in BranchOp, u.riptaken \in Word, u.ripseq \in Word, NEW x, InputsOK(x)
  PROVE  ResultOK(get_synthcode_for_branch(u, x))
<1>1. ASSUME NEW w \in Word PROVE ResultOK(Result(w, {}))
  BY DEF ResultOK, Result
<1>2. ResultOK(uop_impl_condbranch(u, x)) /\ ResultOK(uop_impl_jmp(x)) /\ ResultOK(uop_impl_bru(u))
  BY <1>1 DEF uop_impl_condbranch, uop_impl_jmp, uop_impl_bru, InputsOK
<1> QED
  BY <1>2 DEF get_synthcode_for_branch, BranchOp

LEMMA ChkSubOK ==
  ASSUME NEW u, u.raises = "SkipBlock", NEW x
  PROVE  ResultOK(uop_impl_chk_sub(u, x))
BY SmallWord DEF uop_impl_chk_sub, ResultOK, Result

LEMMA SimpleOK ==
  ASSUME NEW u, WellFormed(u), u.op \in {"nop", "ld_pre", "mov", "adda", "ctz", "clz", "sel", "set"} \cup AluOp,
         NEW x, InputsOK(x)
  PROVE  ResultOK(get_synthcode_for_alu(u, x))
<1>0. u.size \in 0 .. 3 /\ u.extshift \in Nat
  BY DEF WellFormed
<1>1. x.ra \in Word /\ x.rb \in Word /\ x.rc \in Word /\ x.ra \in Int /\ x.rb \in Int /\ x.rc \in Int
  BY WordNat DEF InputsOK
<1>2. ResultOK(Result(0, {}))
  BY SmallWord DEF ResultOK, Result
<1>3. ResultOK(exp_op_mov(u, x))
  BY <1>0, <1>1, MergedOK DEF exp_op_mov, InputsOK
<1>4. ResultOK(aluop3s(u, x))
  <2>1. PICK m \in Nat \ {0} : m = 2 ^ Width(u.size)
    BY <1>0, WordHolds
  <2>2. PICK p \in Nat : p = 2 ^ u.extshift
    BY <1>0, PowerPositive
  <2>3. PICK y \in Int : y = x.ra + x.rb + x.rc * p
    BY <1>1
  <2>4. y % m \in Int
    BY Z3
  <2>5. x86_genflags(y % m, u.size) \subseteq AllFlags
    BY GenflagsOK
  <2>6. aluop3s(u, x) = Result(x86_merge(x.ra, y % m, u.size), x86_genflags(y % m, u.size))
    BY <2>1, <2>2, <2>3 DEF aluop3s
  <2> QED
    BY <1>0, <1>1, <2>4, <2>5, <2>6, MergedOK
<1>5. ResultOK(uop_impl_sel(u, x))
  <2> DEFINE c == evaluate_cond(u.cond, x.rcflags, x.rcflags)
             v == IF c THEN x.rb ELSE x.ra
             f == IF c THEN x.rbflags ELSE x.raflags
  <2>1. v \in Int /\ f \subseteq AllFlags
    BY <1>1 DEF InputsOK
  <2>2. uop_impl_sel(u, x) = Result(x86_merge(x.ra, v, u.size), f)
    BY DEF uop_impl_sel
  <2> HIDE DEF v, f
  <2> QED
    BY <1>0, <1>1, <2>1, <2>2, MergedOK
<1>6. ResultOK(uop_impl_set(u, x))
  <2> DEFINE c == evaluate_cond(u.cond, x.raflags, x.rbflags)
             v == IF c THEN 1 ELSE 0
             f == If(c, {"CF"})
  <2>1. v \in Int /\ f \subseteq AllFlags
    BY DEF If, AllFlags
  <2>2. uop_impl_set(u, x) = Result(x86_merge(x.rc, v, u.size), f)
    BY DEF uop_impl_set
  <2> HIDE DEF v, f
  <2> QED
    BY <1>0, <1>1, <2>1, <2>2, MergedOK
<1>7. CASE u.op \in {"nop", "ld_pre"}
  BY <1>2, <1>7 DEF get_synthcode_for_alu
<1>8. CASE u.op = "mov"
  BY <1>3, <1>8 DEF get_synthcode_for_alu
<1>9. CASE u.op = "adda"
  BY <1>4, <1>9 DEF get_synthcode_for_alu
<1>10. CASE u.op \in {"ctz", "clz"}
  BY <1>0, <1>10, ScanOK DEF get_synthcode_for_alu
<1>11. CASE u.op = "sel"
  BY <1>5, <1>11 DEF get_synthcode_for_alu
<1>12. CASE u.op = "set"
  BY <1>6, <1>12 DEF get_synthcode_for_alu
<1>13. CASE u.op \in AluOp
  <2>1. get_synthcode_for_alu(u, x) = aluop(u, x)
    BY <1>13 DEF get_synthcode_for_alu, AluOp
  <2> QED
    BY <1>0, <1>13, <2>1, AluOK
<1> QED
  BY <1>7, <1>8, <1>9, <1>10, <1>11, <1>12, <1>13

\* What a uop computes from words is a word.
LEMMA UopOK ==
  ASSUME NEW u, WellFormed(u), u.op \notin MemoryOp, u.op # "mf", NEW x, InputsOK(x)
  PROVE  ResultOK(get_synthcode_for_uop(u, x))
<1>1. u.size \in 0 .. 3 /\ u.op \in UopName /\ u.riptaken \in Word /\ u.ripseq \in Word
  BY DEF WellFormed
<1>2. CASE u.op \in BranchOp
  <2>1. get_synthcode_for_uop(u, x) = get_synthcode_for_branch(u, x)
    BY <1>2 DEF get_synthcode_for_uop, BranchOp
  <2> QED
    BY <1>1, <1>2, <2>1, BranchOK
<1>3. CASE u.op = "chk_sub"
  <2>1. get_synthcode_for_uop(u, x) = uop_impl_chk_sub(u, x) /\ u.raises = "SkipBlock"
    BY <1>3 DEF get_synthcode_for_uop, WellFormed
  <2> QED
    BY <2>1, ChkSubOK
<1>4. CASE u.op \in ShiftOp
  <2>1. get_synthcode_for_uop(u, x) = shiftop(u, x)
    BY <1>4 DEF get_synthcode_for_uop, ShiftOp
  <2> QED
    BY <1>1, <1>4, <2>1, ShiftOK
<1>5. CASE u.op \in {"mask", "maskb"}
  <2>1. /\ get_synthcode_for_uop(u, x) = exp_op_mask(u, x) /\ u.cond \in {"none", "zeroext", "signext"}
        /\ u.mask.ms \in Nat /\ u.mask.mc \in Nat /\ u.mask.ds \in Nat
    BY <1>5 DEF get_synthcode_for_uop, WellFormed
  <2> QED
    BY <1>1, <2>1, MaskOK
<1>6. CASE u.op \in FlagOp
  <2>1. \/ get_synthcode_for_uop(u, x) \in {uop_impl_collcc(x), uop_impl_movrcc(x), uop_impl_movccr(x)}
        \/ u.op \in {"andcc", "orcc", "ornotcc", "xorcc"} /\ get_synthcode_for_uop(u, x) = uop_impl_cc(u.op, x)
    BY <1>6 DEF get_synthcode_for_uop, FlagOp
  <2> QED
    BY <1>6, <2>1, FlagOK
<1>7. CASE u.op \in {"mull", "mulh", "mulhu"}
  <2>1. get_synthcode_for_uop(u, x) = x86_mul(u, x)
    BY <1>7 DEF get_synthcode_for_uop
  <2> QED
    BY <1>1, <1>7, <2>1, MulOK
<1>8. CASE u.op \in {"div", "rem", "divs", "rems"}
  <2>1. get_synthcode_for_uop(u, x) = x86_div(u, x)
    BY <1>8 DEF get_synthcode_for_uop
  <2> QED
    BY <1>1, <2>1, DivOK
<1>9. CASE u.op \in {"nop", "ld_pre", "mov", "adda", "ctz", "clz", "sel", "set"} \cup AluOp
  <2>1. get_synthcode_for_uop(u, x) = get_synthcode_for_alu(u, x)
    BY <1>9 DEF get_synthcode_for_uop, AluOp
  <2> QED
    BY <1>9, <2>1, SimpleOK
<1>10. \/ u.op \in BranchOp \/ u.op = "chk_sub" \/ u.op \in ShiftOp \/ u.op \in {"mask", "maskb"} \/ u.op \in FlagOp
       \/ u.op \in {"mull", "mulh", "mulhu"} \/ u.op \in {"div", "rem", "divs", "rems"}
       \/ u.op \in {"nop", "ld_pre", "mov", "adda", "ctz", "clz", "sel", "set"} \cup AluOp
  BY <1>1 DEF UopName, MemoryOp, OtherOp, ProductOp
<1> QED
  BY <1>2, <1>3, <1>4, <1>5, <1>6, <1>7, <1>8, <1>9, <1>10

-----------------------------------------------------------------------------
(***************************************************************************)
(* Memory: n bytes put together are a number of n bytes, and a load or a   *)
(* store that check_and_translate lets through stays within memory.        *)
(***************************************************************************)
LEMMA GatherBounds ==
  ASSUME NEW byte, NEW n \in Nat, \A k \in 0 .. n - 1 : byte[k] \in Byte
  PROVE  Gather(byte, n) \in Nat /\ Gather(byte, n) < 2 ^ (ByteBits * n)
<1> DEFINE part(i) == byte[i] * 2 ^ (ByteBits * i)
           g == [j \in 0 .. n - 1 |-> part(j)]
           upto == CHOOSE f : f = [k \in 0 .. n |-> IF k = 0 THEN 0 ELSE f[k - 1] + byte[k - 1] * 2 ^ (ByteBits * (k - 1))]
<1>0. ByteBits \in Nat
  BY ByteBitsAssumption
<1>p. PICK B \in Nat \ {0} : B = 2 ^ ByteBits
  BY <1>0, PowerPositive
<1>1. ASSUME NEW i \in 0 .. n - 1 PROVE byte[i] \in 0 .. B - 1 /\ 2 ^ (ByteBits * i) \in Nat /\ part(i) \in Int
  <2>1. ByteBits * i \in Nat
    BY <1>0
  <2>2. PICK p \in Nat : p = 2 ^ (ByteBits * i)
    BY <2>1, PowerPositive
  <2>3. byte[i] \in 0 .. B - 1
    BY <1>p DEF Byte
  <2> QED
    BY <2>2, <2>3
<1>3. Gather(byte, n) = upto[n]
  BY DEF Gather
<1>4. g \in [0 .. n - 1 -> Int]
  BY <1>1
<1>5. ASSUME NEW f PROVE Sums(f, g, n) <=> f = [k \in 0 .. n |-> IF k = 0 THEN 0 ELSE f[k - 1] + byte[k - 1] * 2 ^ (ByteBits * (k - 1))]
  <2>1. \A k \in 0 .. n : k # 0 => k - 1 \in 0 .. n - 1
    OBVIOUS
  <2>2. \A k \in 0 .. n : k # 0 => g[k - 1] = byte[k - 1] * 2 ^ (ByteBits * (k - 1))
    BY <2>1
  <2> HIDE DEF g
  <2>3. [k \in 0 .. n |-> IF k = 0 THEN 0 ELSE f[k - 1] + g[k - 1]]
          = [k \in 0 .. n |-> IF k = 0 THEN 0 ELSE f[k - 1] + byte[k - 1] * 2 ^ (ByteBits * (k - 1))]
    BY <2>2
  <2> QED
    BY <2>3 DEF Sums
<1>g. \A k \in 0 .. n - 1 : g[k] = byte[k] * 2 ^ (ByteBits * k)
  OBVIOUS
<1> HIDE DEF g
<1>6. PICK f : Sums(f, g, n)
  BY <1>4, SumsExist
<1>7. upto = [k \in 0 .. n |-> IF k = 0 THEN 0 ELSE upto[k - 1] + byte[k - 1] * 2 ^ (ByteBits * (k - 1))]
  BY <1>5, <1>6
<1> HIDE DEF upto
<1>8. Sums(upto, g, n)
  BY <1>5, <1>7
<1>9. upto[0] = 0 /\ \A k \in 0 .. n : k # 0 => upto[k] = upto[k - 1] + g[k - 1]
  BY <1>4, <1>8, SumsInt
<1> DEFINE G == {k \in 0 .. n : upto[k] \in Nat /\ upto[k] < 2 ^ (ByteBits * k)}
<1>10. 0 \in G
  <2>1. ByteBits * 0 = 0
    BY <1>0
  <2>a. 2 ^ 0 = 1
    OBVIOUS
  <2>2. 2 ^ (ByteBits * 0) = 1
    BY <2>1, <2>a, Zenon
  <2>3. upto[0] \in Nat /\ upto[0] < 1 /\ 0 \in 0 .. n
    BY <1>9
  <2> QED
    BY <2>2, <2>3
<1>11. ASSUME NEW k \in 0 .. n - 1, k \in G PROVE k + 1 \in G
  <2>1. k + 1 \in 0 .. n /\ k + 1 # 0 /\ (k + 1) - 1 = k /\ ByteBits * k \in Nat /\ ByteBits * (k + 1) = ByteBits * k + ByteBits
    BY <1>0
  <2>2. PICK p \in Nat \ {0} : p = 2 ^ (ByteBits * k)
    BY <2>1, PowerPositive
  <2>3. 2 ^ (ByteBits * (k + 1)) = p * B
    BY <1>0, <1>p, <2>1, <2>2, PowerSum
  <2>4. PICK b \in 0 .. B - 1 : b = byte[k]
    BY <1>1
  <2>5. upto[k + 1] = upto[k] + b * p
    BY <1>9, <1>g, <2>1, <2>2, <2>4
  <2>6. upto[k] \in Nat /\ upto[k] < p
    BY <1>11, <2>2
  <2>7. b * p \in Nat /\ p + b * p <= p * B
    <3>1. b + 1 <= B
      OBVIOUS
    <3>2. p * (b + 1) <= p * B
      BY <3>1, Z3
    <3> QED
      BY <3>2, Z3
  <2>8. p * B \in Nat
    OBVIOUS
  <2>9. upto[k] + b * p \in Nat /\ upto[k] + b * p < p * B
    BY <2>6, <2>7, <2>8
  <2> QED
    BY <2>1, <2>3, <2>5, <2>9
<1>12. 0 .. n \subseteq G
  <2> HIDE DEF G
  <2> QED
    BY <1>10, <1>11, Upwards
<1> QED
  BY <1>3, <1>12

\* Sign extension of a value of one of the sizes.
LEMMA SignextWord ==
  ASSUME NEW x \in Int, NEW s \in 0 .. 3
  PROVE  signext64(x, Width(s)) \in Word
<1>1. PICK m \in Nat \ {0} : m = 2 ^ Width(s)
  BY WordHolds
<1>2. WordSize \in Nat /\ m <= WordSize
  BY <1>1, WordHolds
<1>3. x % m \in 0 .. m - 1
  BY Z3
<1>4. x % m \in Word /\ (x % m) + (WordSize - m) \in Word
  BY <1>2, <1>3 DEF Word
<1> QED
  BY <1>1, <1>4 DEF signext64

\* The sizes in bytes.
LEMMA ByteCounts ==
  ASSUME NEW s \in 0 .. 3
  PROVE  Bytes(s) \in {1, 2, 4, 8} /\ ByteBits * Bytes(s) = Width(s)
<1>1. 2 ^ 0 = 1 /\ 2 ^ 1 = 2 /\ 2 ^ 2 = 4 /\ 2 ^ 3 = 8
  OBVIOUS
<1>2. s = 0 \/ s = 1 \/ s = 2 \/ s = 3
  OBVIOUS
<1> QED
  BY <1>1, <1>2 DEF Bytes, Width

LEMMA ExtractWord ==
  ASSUME NEW byte, NEW from \in Nat, NEW s \in 0 .. 3, NEW signext,
         \A k \in 0 .. Bytes(s) - 1 : byte[from + k] \in Byte
  PROVE  extract_bytes(byte, from, s, signext) \in Word
<1> DEFINE n == Bytes(s)
           part == [k \in 0 .. n - 1 |-> byte[from + k]]
           v == Gather(part, n)
<1>1. n \in Nat /\ ByteBits * n = Width(s)
  BY ByteCounts
<1>2. \A k \in 0 .. n - 1 : part[k] \in Byte
  OBVIOUS
<1>3. extract_bytes(byte, from, s, signext) = IF signext THEN signext64(v, Width(s)) ELSE v
  BY DEF extract_bytes
<1> HIDE DEF part
<1>4. v \in Nat /\ v < 2 ^ Width(s)
  BY <1>1, <1>2, GatherBounds
<1> HIDE DEF v
<1>5. v \in Word
  BY <1>4, WordHolds DEF Word
<1> QED
  BY <1>3, <1>4, <1>5, SignextWord

LEMMA ByteOfByte ==
  ASSUME NEW w \in Int, NEW k \in Nat
  PROVE  ByteOf(w, k) \in Byte
<1>1. ByteBits \in Nat /\ ByteBits * k \in Nat
  BY ByteBitsAssumption
<1>2. PICK B \in Nat \ {0} : B = 2 ^ ByteBits
  BY <1>1, PowerPositive
<1>3. PICK p \in Nat \ {0} : p = 2 ^ (ByteBits * k)
  BY <1>1, PowerPositive
<1>4. w \div p \in Int
  BY Z3
<1>5. (w \div p) % B \in 0 .. B - 1
  BY <1>4, Z3
<1> QED
  BY <1>2, <1>3, <1>5 DEF ByteOf, Byte

LEMMA ZeroByte == 0 \in Byte
<1>1. PICK B \in Nat \ {0} : B = 2 ^ ByteBits
  BY ByteBitsAssumption, PowerPositive
<1> QED
  BY <1>1 DEF Byte

LEMMA DivUnique ==
  ASSUME NEW M \in Nat \ {0}, NEW d \in Int, NEW e \in 0 .. M - 1
  PROVE  (M * d + e) \div M = d
<1>1. PICK k \in Int : k = M * d
  OBVIOUS
<1>2. PICK c \in Int : c = (k + e) \div M
  BY Z3
<1>3. M * c <= k + e /\ k + e < M * c + M
  BY <1>2, Z3
<1>4. M * c < M * d + M /\ M * d < M * c + M
  BY <1>1, <1>3
<1>5. c < d + 1 /\ d < c + 1
  BY <1>4, Z3
<1> QED
  BY <1>1, <1>2, <1>5

\* The chunk of an address within a page is within that page, and within memory.
LEMMA ChunkInPage ==
  ASSUME NEW a \in Nat
  PROVE  /\ Floor8(a) \in Nat /\ Floor8(a) % 8 = 0 /\ Floor8(a) <= a /\ a < Floor8(a) + 8
         /\ PageOf(Floor8(a)) = PageOf(a)
         /\ PageOf(a) \in Page => a \in Address /\ \A k \in 0 .. 7 : Floor8(a) + k \in Address
<1>1. PICK M \in Nat \ {0} : M = PageSize /\ M % 8 = 0
  BY MicrocodeAssumption
<1>2. PICK m \in Nat : M = 8 * m
  <2>1. M \div 8 \in Nat /\ M = 8 * (M \div 8)
    BY <1>1, Z3
  <2> QED
    BY <2>1
<1>3. m \in Nat \ {0}
  BY <1>2
<1>4. PICK q \in Nat : q = a \div 8
  BY Z3
<1>5. PICK r \in 0 .. 7 : r = a % 8
  BY Z3
<1>6. a = 8 * q + r
  BY <1>4, <1>5, Z3
<1>7. Floor8(a) = 8 * q
  BY <1>5, <1>6 DEF Floor8
<1>8. (8 * q) % 8 = 0
  BY Z3
<1>9. PICK d \in Nat : d = q \div m
  BY <1>3, Z3
<1>10. PICK e \in 0 .. m - 1 : e = q % m
  BY <1>3, Z3
<1>11. q = m * d + e
  BY <1>3, <1>9, <1>10, Z3
<1>12. 8 * q = M * d + 8 * e /\ 8 * e \in 0 .. M - 1 /\ 8 * e + r \in 0 .. M - 1 /\ 8 * q + r = M * d + (8 * e + r)
  <2>1. PICK t \in Nat : t = m * d
    OBVIOUS
  <2>2. M * d = 8 * t
    BY <1>2, <2>1, Z3
  <2>3. q = t + e
    BY <1>11, <2>1
  <2> QED
    BY <1>2, <2>2, <2>3
<1>13. PageOf(Floor8(a)) = d /\ PageOf(a) = d
  <2>1. (M * d + 8 * e) \div M = d
    BY <1>12, DivUnique
  <2>2. (M * d + (8 * e + r)) \div M = d
    BY <1>12, DivUnique
  <2> QED
    BY <1>1, <1>6, <1>7, <1>12, <2>1, <2>2 DEF PageOf
<1>14. ASSUME PageOf(a) \in Page PROVE a \in Address /\ \A k \in 0 .. 7 : Floor8(a) + k \in Address
  <2>1. MemSize \in Nat /\ MemSize % M = 0
    BY <1>1, MicrocodeAssumption
  <2>2. PICK p \in Nat : p = MemSize \div M
    BY <2>1, Z3
  <2>3. MemSize = M * p
    BY <2>1, <2>2, Z3
  <2>4. d \in 0 .. p - 1
    BY <1>1, <1>13, <1>14, <2>2 DEF Page
  <2>5. M * d + M <= M * p
    <3>1. d + 1 <= p
      BY <2>4
    <3>2. M * (d + 1) <= M * p
      BY <3>1, Z3
    <3> QED
      BY <3>2, Z3
  <2>6. PICK x \in Nat : x = M * d
    OBVIOUS
  <2>7. x + M <= MemSize
    BY <2>3, <2>5, <2>6
  <2>8. 8 * e <= M - 8
    BY <1>2
  <2>9. 8 * q = x + 8 * e
    BY <1>12, <2>6
  <2>10. 8 * q + 7 <= MemSize - 1
    BY <2>1, <2>7, <2>8, <2>9
  <2> QED
    BY <1>6, <1>7, <2>1, <2>10 DEF Address
<1> QED
  BY <1>6, <1>7, <1>8, <1>13, <1>14

\* What addrgen checks before a load or a store goes ahead.
LEMMA AddrgenOK ==
  ASSUME NEW u, WellFormed(u), u.op \in MemoryOp, NEW x, InputsOK(x)
  PROVE  LET a == addrgen(u, x)
         IN /\ a.orig \in Nat /\ a.addr \in Nat
            /\ u.cond = "lo" => a.addr = Floor8(a.orig)
            /\ u.cond = "none" => a.addr = a.orig
            /\ u.cond # "hi" => ~ a.annul
            /\ u.cond = "hi" => Floor8(a.addr) = a.addr
            /\ a.exception = "none" /\ ~ a.annul /\ u.internal = "none" =>
                 a.addr % Bytes(u.size) = 0 /\ PageOf(a.addr) \in Page
            /\ a.exception = "PageFault" => ~ Allows(a.addr, IF u.op = "st" THEN "write" ELSE "read")
<1> DEFINE a == addrgen(u, x)
           orig == IF u.op = "st" \/ u.cond = "none" THEN (x.ra + x.rb) % WordSize ELSE x.ra
           annul == u.cond = "hi" /\ Floor8(orig + Bytes(u.size) - 1) = Floor8(orig)
           addr == CASE u.cond = "none" -> orig
                     [] u.cond = "lo" -> Floor8(orig)
                     [] u.cond = "hi" -> Floor8(orig) + 8
           exc == IF annul THEN "none" ELSE check_and_translate(addr, u.size, u.op = "st", u.internal # "none")
<1>1. a = [orig |-> orig, addr |-> addr, annul |-> annul, exception |-> exc]
  BY DEF addrgen
<1>2. u.cond \in {"none", "lo", "hi"} /\ u.size \in 0 .. 3
  BY DEF WellFormed
<1>3. orig \in Nat
  <2>1. x.ra \in Nat /\ x.rb \in Nat
    BY WordNat DEF InputsOK
  <2>2. PICK W \in Nat \ {0} : W = WordSize
    <3>1. 0 \in 0 .. 3
      OBVIOUS
    <3> QED
      BY <3>1, WordHolds
  <2>3. PICK y \in Nat : y = x.ra + x.rb
    BY <2>1
  <2>4. y % W \in Nat
    BY Z3
  <2> QED
    BY <2>1, <2>2, <2>3, <2>4
<1>4. a.orig = orig /\ a.addr = addr /\ a.annul = annul /\ a.exception = exc
  <2> HIDE DEF a, orig, annul, addr, exc
  <2> QED
    BY <1>1
<1> HIDE DEF a, orig
<1>5. Floor8(orig) \in Nat /\ Floor8(orig) % 8 = 0
  BY <1>3, ChunkInPage
<1>6. Floor8(Floor8(orig) + 8) = Floor8(orig) + 8
  <2>1. PICK f \in Nat : f = Floor8(orig) /\ f % 8 = 0
    BY <1>5
  <2>2. (f + 8) % 8 = 0
    BY <2>1, Z3
  <2> QED
    BY <2>1, <2>2 DEF Floor8
<1>7. addr \in Nat
  BY <1>2, <1>3, <1>5
<1>8. ASSUME exc = "none", ~ annul, u.internal = "none" PROVE addr % Bytes(u.size) = 0 /\ PageOf(addr) \in Page
  <2>1. check_and_translate(addr, u.size, u.op = "st", FALSE) = "none"
    BY <1>8
  <2> HIDE DEF addr
  <2> QED
    BY <2>1 DEF check_and_translate, Allows
<1>9. ASSUME exc = "PageFault" PROVE ~ Allows(addr, IF u.op = "st" THEN "write" ELSE "read")
  <2>1. check_and_translate(addr, u.size, u.op = "st", u.internal # "none") = "PageFault"
    BY <1>9
  <2> HIDE DEF addr
  <2> QED
    BY <2>1 DEF check_and_translate
<1> QED
  BY <1>2, <1>3, <1>4, <1>6, <1>7, <1>8, <1>9 DEF a

\* A load yields a word.
LEMMA LoadWord ==
  ASSUME NEW u, WellFormed(u), u.op \in MemoryOp, NEW x, InputsOK(x), mem \in [Address -> Byte],
         state.internal_eflags \in Int, state.mxcsr \in Int, committed \in Nat,
         addrgen(u, x).exception = "none"
  PROVE  issueload(u, x, addrgen(u, x)) \in Word
<1> DEFINE a == addrgen(u, x)
           chunk == [k \in 0 .. 7 |-> mem[Floor8(a.addr) + k]]
           aligner == [k \in 0 .. 15 |-> IF k < 8 THEN ByteOf(x.rb, k) ELSE IF a.annul THEN 0 ELSE chunk[k - 8]]
<1>1. u.size \in 0 .. 3 /\ u.cond \in {"none", "lo", "hi"} /\ u.internal \in InternalField \cup {"none"}
  BY DEF WellFormed
<1>2. /\ a.orig \in Nat /\ a.addr \in Nat /\ (u.cond # "hi" => ~ a.annul)
      /\ ~ a.annul /\ u.internal = "none" => a.addr % Bytes(u.size) = 0 /\ PageOf(a.addr) \in Page
  BY AddrgenOK
<1>3. PICK n \in {1, 2, 4, 8} : n = Bytes(u.size)
  BY <1>1, ByteCounts
<1>4. CASE u.internal # "none"
  <2>1. Internal(u.internal) \in Int
    <3>1. 2 ^ Width(2) \in Nat
      BY WordHolds
    <3> QED
      BY <1>1, <1>4, <3>1 DEF Internal, InternalField
  <2>2. issueload(u, x, a) = Lo(Internal(u.internal), u.size)
    <3> HIDE DEF a
    <3> QED
      BY <1>4 DEF issueload
  <2> QED
    BY <1>1, <2>1, <2>2, LowWord
<1>5. ASSUME u.internal = "none", ~ a.annul PROVE \A k \in 0 .. 7 : chunk[k] \in Byte
  <2>1. \A k \in 0 .. 7 : Floor8(a.addr) + k \in Address
    BY <1>2, <1>5, ChunkInPage
  <2> HIDE DEF a
  <2> QED
    BY <2>1
<1>6. CASE u.internal = "none" /\ u.cond = "hi"
  <2>1. ASSUME NEW k \in 0 .. 15 PROVE aligner[k] \in Byte
    <3>1. x.rb \in Int
      BY WordNat DEF InputsOK
    <3>2. CASE k < 8
      <4>1. aligner[k] = ByteOf(x.rb, k)
        BY <3>2
      <4> QED
        BY <3>1, <4>1, ByteOfByte
    <3>3. CASE ~(k < 8) /\ a.annul
      <4>1. aligner[k] = 0
        BY <3>3
      <4> QED
        BY <4>1, ZeroByte
    <3>4. CASE ~(k < 8) /\ ~ a.annul
      <4>1. k - 8 \in 0 .. 7 /\ aligner[k] = chunk[k - 8]
        BY <3>4
      <4> QED
        BY <1>5, <1>6, <3>4, <4>1
    <3> QED
      BY <3>2, <3>3, <3>4
  <2>2. issueload(u, x, a) = extract_bytes(aligner, a.orig % 8, u.size, u.op = "ldx")
    <3> HIDE DEF a
    <3> QED
      BY <1>6 DEF issueload
  <2>3. PICK o \in 0 .. 7 : o = a.orig % 8
    BY <1>2, Z3
  <2>4. \A k \in 0 .. Bytes(u.size) - 1 : o + k \in 0 .. 15
    BY <1>3
  <2> HIDE DEF a, aligner
  <2>5. \A k \in 0 .. Bytes(u.size) - 1 : aligner[o + k] \in Byte
    BY <2>1, <2>4
  <2>6. extract_bytes(aligner, o, u.size, u.op = "ldx") \in Word
    <3>1. u.size \in 0 .. 3 /\ o \in Nat
      BY <1>1
    <3> HIDE DEF chunk
    <3> QED
      BY <2>5, <3>1, ExtractWord, Zenon
  <2> QED
    BY <2>2, <2>3, <2>6 DEF a
<1>7. CASE u.internal = "none" /\ u.cond # "hi"
  <2>1. issueload(u, x, a) = extract_bytes(chunk, a.addr % 8, u.size, u.op = "ldx")
    <3> HIDE DEF a
    <3> QED
      BY <1>7 DEF issueload
  <2>2. PICK d \in Nat : d = a.addr /\ d % n = 0
    BY <1>2, <1>3, <1>7
  <2>3. PICK o \in 0 .. 7 : o = d % 8
    BY Z3
  <2>4. o + n <= 8
    <3>1. n = 1 \/ n = 2 \/ n = 4 \/ n = 8
      OBVIOUS
    <3> QED
      BY <2>2, <2>3, <3>1, Z3
  <2>5. \A k \in 0 .. Bytes(u.size) - 1 : o + k \in 0 .. 7
    BY <1>3, <2>4
  <2>6. \A k \in 0 .. 7 : chunk[k] \in Byte
    BY <1>2, <1>5, <1>7
  <2> HIDE DEF a, chunk, aligner
  <2>7. \A k \in 0 .. Bytes(u.size) - 1 : chunk[o + k] \in Byte
    BY <2>5, <2>6
  <2>8. extract_bytes(chunk, o, u.size, u.op = "ldx") \in Word
    <3>1. o \in Nat /\ u.size \in 0 .. 3
      BY <1>1
    <3> QED
      BY <2>7, <3>1, ExtractWord, Zenon
  <2> QED
    BY <2>1, <2>2, <2>3, <2>8 DEF a
<1> QED
  BY <1>4, <1>6, <1>7

\* A store leaves bytes in memory.
LEMMA StoreBytes ==
  ASSUME NEW u, u.size \in 0 .. 3, NEW x, InputsOK(x), NEW a, mem \in [Address -> Byte]
  PROVE  issuestore(u, x, a) \in [Address -> Byte]
<1> DEFINE off == a.orig % 8
           part(k) == IF u.cond = "hi" THEN k + 8 - off ELSE k - off
           written(b) == Floor8(b) = Floor8(a.addr) /\ part(b % 8) \in 0 .. Bytes(u.size) - 1
<1>1. issuestore(u, x, a) = [b \in Address |-> IF written(b) THEN ByteOf(x.rc, part(b % 8)) ELSE mem[b]]
  BY DEF issuestore
<1>2. ASSUME NEW b \in Address, written(b) PROVE ByteOf(x.rc, part(b % 8)) \in Byte
  <2>1. part(b % 8) \in Nat
    <3>1. Bytes(u.size) \in Nat
      BY ByteCounts
    <3> HIDE DEF part
    <3> QED
      BY <1>2, <3>1
  <2>2. x.rc \in Int
    BY WordNat DEF InputsOK
  <2> HIDE DEF part
  <2> QED
    BY <2>1, <2>2, ByteOfByte
<1> HIDE DEF part, written
<1> QED
  BY <1>1, <1>2

LEMMA FxSavedBytes ==
  ASSUME NEW target \in Word, mem \in [Address -> Byte], state.mxcsr \in Int
  PROVE  FxSaved(target) \in [Address -> Byte]
<1>1. ASSUME NEW b \in Address, b - target \in 0 .. FxBytes - 1 PROVE ByteOf(state.mxcsr, b - target) \in Byte
  <2>1. FxBytes \in Nat
    BY ByteCounts DEF FxBytes
  <2>2. b - target \in Nat
    BY <1>1, <2>1
  <2> QED
    BY <2>2, ByteOfByte
<1> QED
  BY <1>1 DEF FxSaved

\* The image fxrstor reads lies in the pages that FirstRefused has checked.
LEMMA FxLoadedInt ==
  ASSUME NEW target \in Word, mem \in [Address -> Byte], FirstRefused(target, "read") = -1
  PROVE  FxLoaded(target) \in Int
<1>1. target \in Nat
  BY WordNat
<1>2. PICK M \in Nat : M = PageSize /\ M >= 8
  <2>1. PageSize \in Nat \ {0} /\ PageSize % 8 = 0
    BY MicrocodeAssumption
  <2>2. PICK M \in Nat \ {0} : M = PageSize /\ M % 8 = 0
    BY <2>1
  <2>3. M >= 8
    BY <2>2, Z3
  <2> QED
    BY <2>2, <2>3
<1>3. FxBytes = 4
  <2>1. 2 ^ 2 = 4
    OBVIOUS
  <2> QED
    BY <2>1 DEF FxBytes, Bytes
<1> DEFINE second == (PageOf(target) + 1) * PageSize
<1>4. -1 # target
  BY <1>1
<1>5. Allows(target, "read")
  BY <1>4 DEF FirstRefused
<1>6. PICK d \in Nat : d = PageOf(target)
  BY <1>1, <1>2, Z3 DEF PageOf
<1>7. M * d <= target /\ target < M * d + M
  BY <1>1, <1>2, <1>6, Z3 DEF PageOf
<1>8. PICK y \in Nat : y = M * d
  OBVIOUS
<1>9. second = y + M
  <2>1. (d + 1) * M = y + M
    BY <1>8, Z3
  <2> QED
    BY <1>2, <1>6, <2>1
<1>10. PICK p \in Nat : MemSize = M * p /\ p = MemSize \div M
  <2>1. PICK S \in Nat : S = MemSize /\ S % M = 0
    BY <1>2, MicrocodeAssumption
  <2>2. S \div M \in Nat /\ S = M * (S \div M)
    BY <1>2, <2>1, Z3
  <2> QED
    BY <2>1, <2>2
<1>11. Page = 0 .. p - 1
  BY <1>2, <1>10 DEF Page
<1>12. d + 1 <= p /\ M * d + M <= MemSize
  <2>1. d \in 0 .. p - 1
    BY <1>5, <1>6, <1>11 DEF Allows
  <2>2. M * (d + 1) <= M * p
    BY <2>1, Z3
  <2>3. M * (d + 1) = M * d + M
    BY Z3
  <2> QED
    BY <1>10, <2>1, <2>2, <2>3
<1>13. target + 3 < MemSize
  <2>0. MemSize \in Nat
    BY MicrocodeAssumption
  <2>1. CASE ~(target + FxBytes > second)
    BY <1>1, <1>3, <1>8, <1>9, <1>12, <2>0, <2>1
  <2>2. CASE target + FxBytes > second
    <3>1. Allows(second, "read")
      <4>1. second # -1
        BY <1>9
      <4> QED
        BY <1>4, <1>5, <2>2, <4>1 DEF FirstRefused
    <3>2. PageOf(second) = d + 1
      <4>1. (M * (d + 1) + 0) \div M = d + 1
        <5>1. M \in Nat \ {0} /\ d + 1 \in Int /\ 0 \in 0 .. M - 1
          BY <1>2
        <5> QED
          BY <5>1, DivUnique
      <4>2. M * (d + 1) + 0 = second
        BY <1>8, <1>9, Z3
      <4> QED
        BY <1>2, <4>1, <4>2 DEF PageOf
    <3>3. d + 1 \in 0 .. p - 1
      BY <1>11, <3>1, <3>2 DEF Allows
    <3>4. M * (d + 2) <= M * p
      BY <3>3, Z3
    <3>5. M * (d + 2) = y + M + M
      BY <1>8, Z3
    <3> QED
      BY <1>1, <1>2, <1>7, <1>8, <1>10, <2>0, <3>4, <3>5
  <2> QED
    BY <2>1, <2>2
<1>14. \A k \in 0 .. 3 : target + k \in Address
  BY <1>1, <1>13, MicrocodeAssumption DEF Address
<1> DEFINE part == [k \in 0 .. FxBytes - 1 |-> mem[target + k]]
<1>15. \A k \in 0 .. FxBytes - 1 : part[k] \in Byte
  BY <1>3, <1>14
<1> HIDE DEF part
<1>16. FxBytes \in Nat
  BY <1>3
<1>17. Gather(part, FxBytes) \in Nat
  BY <1>15, <1>16, GatherBounds
<1> QED
  BY <1>17 DEF FxLoaded, part

-----------------------------------------------------------------------------
(***************************************************************************)
(* The inductive invariant.                                                *)
(***************************************************************************)
StateOK ==
  state \in [regs : [GPR -> Word], flags : SUBSET AllFlags, rip : Word, internal_eflags : Int, mxcsr : Int]

\* A part of a cracked access writes t9, t4 or what the access writes; only the last part of
\* the last uop of the block ends the instruction.
Part(u) == WellFormed(u) /\ u.rd \in {"t9", "t4", bb[upc].rd} /\ (u.eom => upc = Len(bb))

BufOK ==
  buf # <<>> =>
    /\ upc <= Len(bb) /\ bb[upc].op \in MemoryOp
    /\ buf \in Seq({buf[k] : k \in DOMAIN buf})
    /\ \A k \in DOMAIN buf : Part(buf[k]) /\ (k < Len(buf) => ~ buf[k].eom)

\* Until the last uop of the block, rip is the instruction's and there is an instruction left to run.
AtInstruction == phase = "run" /\ upc <= Len(bb) => arf["rip"] = Ripstart /\ committed < Limit

\* Once the last uop that writes it is done, selfrip is the address of the instruction.
SelfripOK ==
  \A k \in DOMAIN bb :
    SetsSelfrip(bb[k]) /\ (\A j \in DOMAIN bb : j > k => bb[j].rd # "selfrip") /\ k < upc => arf["selfrip"] = Ripstart

Inv ==
  /\ TypeOK /\ StateOK
  /\ \E c \in Cases : insn = c.insn
  /\ Busy => state.rip = Ripstart
  /\ dirty \in BOOLEAN /\ (dirty => restarts < MaxRestarts)
  /\ WellFormedBlock(bb) /\ BufOK
  /\ arf["trace"] = 0 /\ arflags["zero"] = {}
  /\ AtInstruction /\ SelfripOK
  /\ FaultNamed

LEMMA InputsTyped ==
  ASSUME TypeOK, NEW u, WellFormed(u)
  PROVE  InputsOK(Inputs(u))
<1> DEFINE data(r) == IF r = "imm" THEN u.rbimm ELSE arf[archreg_remap_table(r)]
           flag(r) == IF r = "imm" THEN {} ELSE arflags[archreg_remap_table(r)]
<1>1. arf \in [CoreReg -> Word] /\ arflags \in [CoreReg -> SUBSET AllFlags] /\ u.rbimm \in Word
  BY DEF TypeOK, WellFormed
<1>2. ASSUME NEW r \in CoreReg \cup {"zf", "cf", "of", "imm"} PROVE data(r) \in Word /\ flag(r) \subseteq AllFlags
  <2>1. "flags" \in CoreReg
    BY DEF CoreReg
  <2>2. r # "imm" => archreg_remap_table(r) \in CoreReg
    BY <2>1 DEF archreg_remap_table
  <2> QED
    BY <1>1, <2>2
<1>3. {u.ra, u.rb, u.rc} \subseteq CoreReg \cup {"zf", "cf", "of", "imm"}
  BY DEF WellFormed
<1>4. Inputs(u) = [ra |-> data(u.ra), rb |-> data(u.rb), rc |-> data(u.rc),
                   raflags |-> flag(u.ra), rbflags |-> flag(u.rb), rcflags |-> flag(u.rc)]
  BY DEF Inputs
<1> HIDE DEF data, flag
<1> QED
  BY <1>2, <1>3, <1>4 DEF InputsOK

\* Cracking keeps what the core relies on.
LEMMA Cracked ==
  ASSUME NEW u, WellFormed(u), u.op \in MemoryOp
  PROVE  \E a, b, c :
           /\ split_unaligned(u) = <<a, b, c>>
           /\ WellFormed(a) /\ WellFormed(b) /\ WellFormed(c)
           /\ {a.rd, b.rd, c.rd} \subseteq {"t9", "t4", u.rd}
           /\ ~ a.eom /\ ~ b.eom /\ (c.eom => u.eom)
<1> DEFINE st == u.op = "st"
           ag == [u EXCEPT !.op = "add", !.size = 3, !.cond = "none", !.eom = FALSE, !.internal = "none",
                           !.rd = "t9", !.rc = "zero"]
           part == [u EXCEPT !.ra = "t9", !.rb = "imm", !.rbimm = 0, !.som = FALSE]
           lo == [part EXCEPT !.cond = IF st THEN "hi" ELSE "lo", !.eom = FALSE,
                              !.rd = IF st THEN u.rd ELSE "t4", !.size = IF st THEN u.size ELSE 3]
           hi == [part EXCEPT !.cond = IF st THEN "lo" ELSE "hi", !.rb = IF st THEN "imm" ELSE "t4"]
<1>1. split_unaligned(u) = <<ag, lo, hi>>
  BY DEF split_unaligned
<1>2. UopField \subseteq DOMAIN u
  BY DEF WellFormed
<1>3. /\ DOMAIN ag = DOMAIN u /\ ag.op = "add" /\ ag.size = 3 /\ ag.rd = "t9" /\ ag.ra = u.ra /\ ag.rb = u.rb
      /\ ag.rc = "zero" /\ ag.rbimm = u.rbimm /\ ag.mask = u.mask /\ ag.cond = "none" /\ ag.extshift = u.extshift
      /\ ag.internal = "none" /\ ag.riptaken = u.riptaken /\ ag.ripseq = u.ripseq /\ ag.eom = FALSE
  BY <1>2 DEF UopField
<1>4. /\ DOMAIN part = DOMAIN u /\ part.op = u.op /\ part.size = u.size /\ part.rd = u.rd /\ part.ra = "t9"
      /\ part.rb = "imm" /\ part.rc = u.rc /\ part.rbimm = 0 /\ part.mask = u.mask /\ part.extshift = u.extshift
      /\ part.internal = u.internal /\ part.riptaken = u.riptaken /\ part.ripseq = u.ripseq /\ part.eom = u.eom
  BY <1>2 DEF UopField
<1> HIDE DEF part
<1>5. /\ DOMAIN lo = DOMAIN u /\ lo.op = u.op /\ lo.size \in {u.size, 3} /\ lo.rd \in {u.rd, "t4"} /\ lo.ra = "t9"
      /\ lo.rb = "imm" /\ lo.rc = u.rc /\ lo.rbimm = 0 /\ lo.mask = u.mask /\ lo.cond \in {"lo", "hi"}
      /\ lo.extshift = u.extshift /\ lo.internal = u.internal /\ lo.riptaken = u.riptaken
      /\ lo.ripseq = u.ripseq /\ lo.eom = FALSE
  BY <1>2, <1>4 DEF UopField
<1>6. /\ DOMAIN hi = DOMAIN u /\ hi.op = u.op /\ hi.size = u.size /\ hi.rd = u.rd /\ hi.ra = "t9"
      /\ hi.rb \in {"imm", "t4"} /\ hi.rc = u.rc /\ hi.rbimm = 0 /\ hi.mask = u.mask /\ hi.cond \in {"lo", "hi"}
      /\ hi.extshift = u.extshift /\ hi.internal = u.internal /\ hi.riptaken = u.riptaken
      /\ hi.ripseq = u.ripseq /\ hi.eom = u.eom
  BY <1>2, <1>4 DEF UopField
<1> HIDE DEF ag, lo, hi
<1>7. {"t9", "t4", "zero"} \subseteq CoreReg
  BY DEF CoreReg, Temporary
<1>8. WellFormed(ag)
  BY <1>3, <1>7 DEF WellFormed, UopName, AluOp, MemoryOp
<1>9. 0 \in Word
  BY SmallWord
<1>10. WellFormed(lo)
  BY <1>5, <1>7, <1>9 DEF WellFormed, MemoryOp
<1>11. WellFormed(hi)
  BY <1>6, <1>7, <1>9 DEF WellFormed, MemoryOp
<1> QED
  BY <1>1, <1>3, <1>5, <1>6, <1>8, <1>10, <1>11

LEMMA OwnElements ==
  ASSUME NEW S, NEW s \in Seq(S)
  PROVE  s \in Seq({s[k] : k \in DOMAIN s})
<1> DEFINE T == {s[k] : k \in DOMAIN s}
<1>1. Len(s) \in Nat /\ DOMAIN s = 1 .. Len(s)
  OBVIOUS
<1>2. \A k \in 1 .. Len(s) : s[k] \in T
  BY <1>1
<1>3. s = [k \in 1 .. Len(s) |-> s[k]]
  BY <1>1
<1> HIDE DEF T
<1>4. [k \in 1 .. Len(s) |-> s[k]] \in Seq(T)
  BY <1>1, <1>2
<1>5. s \in Seq(T)
  BY <1>3, <1>4, Zenon
<1> QED
  BY <1>5 DEF T

\* What is left of a cracked access once its first part is done.
Rest == IF buf # <<>> THEN Tail(buf) ELSE <<>>

LEMMA CurrentOK ==
  ASSUME Inv, upc <= Len(bb)
  PROVE  LET u == CurrentUop
         IN /\ upc \in DOMAIN bb /\ upc \in Nat /\ Len(bb) \in Nat
            /\ Part(u) /\ (u.eom => Rest = <<>>)
            /\ bb[upc].op \notin MemoryOp => u = bb[upc]
            /\ Rest # <<>> =>
                 /\ bb[upc].op \in MemoryOp
                 /\ Rest \in Seq({Rest[k] : k \in DOMAIN Rest})
                 /\ \A k \in DOMAIN Rest : Part(Rest[k]) /\ (k < Len(Rest) => ~ Rest[k].eom)
<1>1. Len(bb) \in Nat /\ DOMAIN bb = 1 .. Len(bb) /\ upc \in 1 .. Len(bb) + 1
  BY DEF Inv, WellFormedBlock, TypeOK
<1>2. upc \in DOMAIN bb /\ upc \in Nat
  BY <1>1
<1>3. WellFormed(bb[upc]) /\ (bb[upc].eom => upc = Len(bb))
  BY <1>2 DEF Inv, WellFormedBlock
<1>4. CASE buf = <<>>
  BY <1>1, <1>2, <1>3, <1>4 DEF CurrentUop, Rest, Part
<1>5. CASE buf # <<>>
  <2> DEFINE S == {buf[k] : k \in DOMAIN buf}
  <2>1. /\ bb[upc].op \in MemoryOp /\ buf \in Seq(S)
        /\ \A k \in DOMAIN buf : Part(buf[k]) /\ (k < Len(buf) => ~ buf[k].eom)
    BY <1>5 DEF Inv, BufOK
  <2> HIDE DEF S
  <2>2. Len(buf) \in Nat \ {0} /\ DOMAIN buf = 1 .. Len(buf) /\ 1 \in DOMAIN buf /\ Head(buf) = buf[1]
    BY <1>5, <2>1
  <2>3. CurrentUop = buf[1] /\ Rest = Tail(buf)
    BY <1>5, <2>2 DEF CurrentUop, Rest
  <2>4. Tail(buf) \in Seq(S) /\ Len(Tail(buf)) = Len(buf) - 1
    BY <1>5, <2>1, <2>2
  <2>5. \A k \in 1 .. Len(buf) - 1 : Tail(buf)[k] = buf[k + 1]
    BY <1>5, <2>1, <2>2
  <2>6. CurrentUop.eom => Rest = <<>>
    <3>1. buf[1].eom => Len(buf) = 1
      BY <2>1, <2>2
    <3> QED
      BY <2>2, <2>3, <2>4, <3>1
  <2>7. DOMAIN Rest = 1 .. Len(buf) - 1 /\ Len(Rest) = Len(buf) - 1
    BY <2>2, <2>3, <2>4
  <2>8. Rest \in Seq({Rest[k] : k \in DOMAIN Rest})
    <3>1. Rest \in Seq(S)
      BY <2>3, <2>4
    <3> QED
      BY <3>1, OwnElements, Zenon
  <2>9. ASSUME NEW k \in DOMAIN Rest PROVE Part(Rest[k]) /\ (k < Len(Rest) => ~ Rest[k].eom)
    <3>1. k + 1 \in DOMAIN buf /\ Rest[k] = buf[k + 1] /\ (k < Len(Rest) => k + 1 < Len(buf))
      BY <2>2, <2>3, <2>5, <2>7
    <3> QED
      BY <2>1, <3>1
  <2> QED
    BY <1>1, <1>2, <2>1, <2>2, <2>3, <2>6, <2>8, <2>9
<1> QED
  BY <1>4, <1>5

LEMMA ProceedOK ==
  ASSUME Inv, phase = "run", upc <= Len(bb), Proceed(CurrentUop), bb' = bb
  PROVE  /\ upc' \in 1 .. Len(bb) + 1 /\ committed' \in 0 .. Limit /\ BufOK'
         /\ upc' <= Len(bb) => ~ CurrentUop.eom /\ committed' = committed
         /\ upc' = upc \/ upc' = upc + 1
<1> DEFINE u == CurrentUop
<1>1. /\ upc \in DOMAIN bb /\ upc \in Nat /\ Len(bb) \in Nat /\ Part(u) /\ (u.eom => Rest = <<>>)
      /\ Rest # <<>> =>
           /\ bb[upc].op \in MemoryOp /\ Rest \in Seq({Rest[k] : k \in DOMAIN Rest})
           /\ \A k \in DOMAIN Rest : Part(Rest[k]) /\ (k < Len(Rest) => ~ Rest[k].eom)
  BY CurrentOK
<1>2. /\ buf' = Rest /\ upc' = (IF Rest = <<>> THEN upc + 1 ELSE upc)
      /\ committed' = IF u.eom THEN committed + 1 ELSE committed
  BY DEF Proceed, Rest
<1>3. upc \in 1 .. Len(bb) /\ committed \in Nat /\ committed < Limit /\ Limit \in Nat
  BY <1>1, MicrocodeAssumption DEF Inv, TypeOK, AtInstruction
<1> HIDE DEF u
<1>4. u.eom => upc = Len(bb)
  BY <1>1 DEF Part
<1>5. BufOK'
  <2>1. CASE Rest = <<>>
    BY <1>2, <2>1 DEF BufOK
  <2>2. CASE Rest # <<>>
    <3>1. upc' = upc /\ buf' = Rest
      BY <1>2, <2>2
    <3>2. ASSUME NEW k \in DOMAIN Rest PROVE Part(buf[k])' /\ (k < Len(buf') => ~ buf'[k].eom)
      <4>1. Part(Rest[k]) /\ (k < Len(Rest) => ~ Rest[k].eom)
        BY <1>1, <2>2
      <4> QED
        BY <3>1, <4>1 DEF Part
    <3>3. buf' \in Seq({buf'[k] : k \in DOMAIN buf'})
      BY <1>1, <2>2, <3>1, Zenon
    <3> QED
      BY <1>1, <1>3, <2>2, <3>1, <3>2, <3>3 DEF BufOK
  <2> QED
    BY <2>1, <2>2
<1>6. upc' \in 1 .. Len(bb) + 1 /\ committed' \in 0 .. Limit
  BY <1>2, <1>3
<1>7. upc' <= Len(bb) => ~ u.eom /\ committed' = committed
  BY <1>1, <1>2, <1>3, <1>4
<1> QED
  BY <1>2, <1>5, <1>6, <1>7 DEF u

LEMMA NextRipWord ==
  ASSUME NEW u, NEW d \in Word, arf["rip"] = Ripstart
  PROVE  NextRip(u, d) \in Word /\ arf["rip"] + (Rip - Ripstart) \in Word
<1>1. Ripstart \in Word /\ Rip \in Word
  BY AddressAssumption DEF Word
<1>2. Ripstart \in Nat /\ Rip \in Nat
  BY <1>1, WordNat
<1>3. arf["rip"] + (Rip - Ripstart) = Rip
  BY <1>2
<1> QED
  BY <1>1, <1>3 DEF NextRip

\* A uop that completes keeps the invariant, if what it yields is a word and, where selfrip
\* is set, the address of the instruction.
LEMMA CommitInv ==
  ASSUME Inv, Executing, NEW r, r.data \in Word, r.flags \subseteq AllFlags,
         SetsSelfrip(CurrentUop) => r.data = Ripstart, Commit(CurrentUop, r)
  PROVE  Inv'
<1> DEFINE u == CurrentUop
           mask == setflags_to_x86_flags(u.setflags)
           flags == (FlagsOf(arf["flags"]) \ mask) \cup (r.flags \cap mask)
           rip == IF u.eom THEN NextRip(u, r.data) ELSE arf["rip"]
           data == IF u.nouserflags THEN arf ELSE [arf EXCEPT !["flags"] = FlagBits(flags)]
           sets == IF u.nouserflags THEN arflags ELSE [arflags EXCEPT !["flags"] = flags]
<1>1. /\ arf' = [data EXCEPT ![u.rd] = r.data, !["rip"] = rip]
      /\ arflags' = [sets EXCEPT ![u.rd] = r.flags]
      /\ Proceed(u)
      /\ UNCHANGED <<guest, phase, fault, dirty, restarts, bb, retired>>
  BY DEF Commit
<1>2. phase = "run" /\ upc <= Len(bb)
  BY DEF Executing
<1>3. arf \in [CoreReg -> Word] /\ arflags \in [CoreReg -> SUBSET AllFlags] /\ arf["rip"] = Ripstart
  BY <1>2 DEF Inv, TypeOK, AtInstruction
<1>4. /\ Part(u) /\ (bb[upc].op \notin MemoryOp => u = bb[upc]) /\ upc \in DOMAIN bb
      /\ upc \in Nat /\ Len(bb) \in Nat
  BY <1>2, CurrentOK
<1>5. rip \in Word /\ (~ u.eom => rip = Ripstart)
  <2>1. NextRip(u, r.data) \in Word
    BY <1>3, NextRipWord
  <2>2. Ripstart \in Word
    BY AddressAssumption DEF Word
  <2> HIDE DEF u
  <2> QED
    BY <1>3, <2>1, <2>2
<1>6. flags \subseteq AllFlags
  <2>1. FlagsOf(arf["flags"]) \subseteq AllFlags
    BY DEF FlagsOf
  <2> QED
    BY <2>1
<1>7. FlagBits(flags) \in Word
  BY FlagBitsWord
<1>8. /\ upc' \in 1 .. Len(bb) + 1 /\ committed' \in 0 .. Limit /\ BufOK'
      /\ upc' <= Len(bb) => ~ u.eom /\ committed' = committed
      /\ upc' = upc \/ upc' = upc + 1
  BY <1>1, <1>2, ProceedOK
<1>9. u.rd \notin {"zero", "trace"} /\ u.rd \in {"t9", "t4", bb[upc].rd}
  BY <1>4 DEF Part, WellFormed
<1> HIDE DEF u, flags, rip
<1>10. data \in [CoreReg -> Word] /\ sets \in [CoreReg -> SUBSET AllFlags]
  BY <1>3, <1>6, <1>7
<1>11. {"trace", "zero", "selfrip", "rip", "flags"} \subseteq CoreReg
  BY DEF CoreReg, Temporary
<1>12. data["trace"] = 0 /\ sets["zero"] = {} /\ data["selfrip"] = arf["selfrip"]
  BY <1>3, <1>11 DEF Inv
<1> HIDE DEF data, sets
<1>13. arf' \in [CoreReg -> Word]
  BY <1>1, <1>5, <1>10
<1>14. arflags' \in [CoreReg -> SUBSET AllFlags]
  BY <1>1, <1>10
<1>15. arf'["trace"] = 0 /\ arflags'["zero"] = {} /\ arf'["rip"] = rip
  BY <1>1, <1>9, <1>10, <1>11, <1>12
<1>16. arf'["selfrip"] = IF u.rd = "selfrip" THEN r.data ELSE arf["selfrip"]
  BY <1>1, <1>10, <1>11, <1>12
<1>17. SelfripOK'
  <2>1. SUFFICES ASSUME NEW k \in DOMAIN bb, SetsSelfrip(bb[k]), \A j \in DOMAIN bb : j > k => bb[j].rd # "selfrip", k < upc'
                 PROVE  arf'["selfrip"] = Ripstart
    BY <1>1 DEF SelfripOK
  <2>2. k \in Nat
    BY DEF Inv, WellFormedBlock
  <2>3. CASE k < upc
    <3>1. bb[upc].rd # "selfrip"
      BY <1>4, <2>1, <2>2, <2>3
    <3>2. arf["selfrip"] = Ripstart
      BY <2>1, <2>3 DEF Inv, SelfripOK
    <3> QED
      BY <1>9, <1>16, <3>1, <3>2
  <2>4. CASE k = upc
    <3>1. bb[upc].op \notin MemoryOp /\ bb[upc].rd = "selfrip"
      BY <2>1, <2>4 DEF SetsSelfrip, MemoryOp
    <3>2. u = bb[k] /\ u.rd = "selfrip"
      BY <1>4, <2>4, <3>1
    <3>3. r.data = Ripstart
      BY <2>1, <3>2 DEF u
    <3> QED
      BY <1>16, <3>2, <3>3
  <2>5. k < upc \/ k = upc
    BY <1>4, <1>8, <2>1, <2>2
  <2> QED
    BY <2>3, <2>4, <2>5
<1>18. AtInstruction'
  BY <1>1, <1>2, <1>5, <1>8, <1>15 DEF AtInstruction, Inv
<1>19. TypeOK'
  BY <1>1, <1>8, <1>13, <1>14 DEF TypeOK, Inv, guest
<1>20. FaultNamed'
  BY <1>1, <1>2 DEF FaultNamed
<1> QED
  BY <1>1, <1>8, <1>15, <1>17, <1>18, <1>19, <1>20 DEF Inv, guest, StateOK, Busy

\* The uop that sets selfrip computes the address of the instruction.
LEMMA SelfripValue ==
  ASSUME Inv, NEW u, SetsSelfrip(u)
  PROVE  get_synthcode_for_uop(u, Inputs(u)).data = Ripstart
<1> DEFINE x == Inputs(u)
           M == 2 ^ Width(3)
<1>1. /\ u.op = "add" /\ u.rd = "selfrip" /\ u.ra = "trace" /\ u.rb = "imm" /\ u.rc = "zero"
      /\ u.size = 3 /\ u.rbimm = Ripstart
  BY DEF SetsSelfrip
<1>2. x.ra = 0 /\ x.rb = Ripstart /\ x.rcflags = {}
  BY <1>1 DEF Inputs, archreg_remap_table, Inv
<1>3. PICK m \in Nat \ {0} : m = M
  BY WordHolds
<1>4. Ripstart \in 0 .. m - 1
  BY <1>3, AddressAssumption DEF WordSize
<1>5. 0 % m = 0 /\ Ripstart % m = Ripstart
  BY <1>4, Z3
<1>6. Lo(x.ra, 3) = 0 /\ Lo(x.rb, 3) = Ripstart
  BY <1>2, <1>3, <1>5 DEF Lo
<1>7. x86_aluop2(FALSE, 0, Ripstart, 0, 3).value = Ripstart
  <2>1. (0 + Ripstart) % m = Ripstart /\ (Ripstart + 0) % m = Ripstart
    BY <1>4, <1>5
  <2> QED
    BY <1>3, <2>1 DEF x86_aluop2
<1> DEFINE sum == x86_aluop2(u.op = "sub", Lo(x.ra, 3), Lo(x.rb, 3), flag_bit(x.rcflags, "CF"), 3)
<1>8. sum.value = Ripstart
  <2>1. flag_bit(x.rcflags, "CF") = 0 /\ (u.op = "sub") = FALSE
    BY <1>1, <1>2 DEF flag_bit
  <2> HIDE DEF x
  <2> QED
    BY <1>6, <1>7, <2>1
<1>9. get_synthcode_for_uop(u, x) = aluop(u, x)
  <2> HIDE DEF x
  <2> QED
    BY <1>1 DEF get_synthcode_for_uop, get_synthcode_for_alu
<1>10. aluop(u, x).data = x86_merge(x.ra, sum.value, 3)
  <2> HIDE DEF x
  <2> QED
    BY <1>1 DEF aluop, Result
<1>11. x86_merge(x.ra, Ripstart, 3) = Ripstart
  BY <1>3, <1>5 DEF x86_merge, Lo
<1> QED
  BY <1>8, <1>9, <1>10, <1>11

LEMMA CrackInv == ASSUME Inv, Crack PROVE Inv'
<1> DEFINE u == CurrentUop
<1>1. /\ phase = "run" /\ upc <= Len(bb) /\ u.op \in MemoryOp /\ buf' = split_unaligned(u)
      /\ UNCHANGED <<guest, phase, fault, committed, dirty, restarts, bb, upc, arf, arflags, saved_flags, retired>>
  BY DEF Crack, Executing, MemoryOp
<1>2. /\ Part(u) /\ (bb[upc].op \notin MemoryOp => u = bb[upc])
  BY <1>1, CurrentOK
<1> HIDE DEF u
<1>3. WellFormed(u)
  BY <1>2 DEF Part
<1>4. PICK a, b, c :
           /\ split_unaligned(u) = <<a, b, c>>
           /\ WellFormed(a) /\ WellFormed(b) /\ WellFormed(c)
           /\ {a.rd, b.rd, c.rd} \subseteq {"t9", "t4", u.rd}
           /\ ~ a.eom /\ ~ b.eom /\ (c.eom => u.eom)
  BY <1>1, <1>3, Cracked
<1>5. bb[upc].op \in MemoryOp
  BY <1>1, <1>2
<1>6. Part(a) /\ Part(b) /\ Part(c)
  BY <1>2, <1>4 DEF Part
<1>7. buf' = <<a, b, c>>
  BY <1>1, <1>4
<1>8. Len(buf') = 3 /\ DOMAIN buf' = 1 .. 3 /\ buf'[1] = a /\ buf'[2] = b /\ buf'[3] = c
  BY <1>7
<1>9. buf' \in Seq({buf'[k] : k \in DOMAIN buf'})
  <2>1. <<a, b, c>> \in Seq({a, b, c})
    OBVIOUS
  <2>2. buf' \in Seq({a, b, c})
    BY <1>7, <2>1
  <2> QED
    BY <2>2, OwnElements, Zenon
<1>10. ASSUME NEW k \in DOMAIN buf' PROVE Part(buf[k])' /\ (k < Len(buf') => ~ buf'[k].eom)
  <2>1. k = 1 \/ k = 2 \/ k = 3
    BY <1>8
  <2>2. Part(buf'[k]) /\ (k < Len(buf') => ~ buf'[k].eom)
    BY <1>4, <1>6, <1>8, <2>1
  <2> QED
    BY <1>1, <2>2 DEF Part
<1>11. BufOK'
  BY <1>1, <1>5, <1>9, <1>10 DEF BufOK
<1> QED
  BY <1>1, <1>11 DEF Inv, TypeOK, StateOK, Busy, AtInstruction, SelfripOK, FaultNamed, Allows, guest

LEMMA LoadInv == ASSUME Inv, Load PROVE Inv'
<1> DEFINE u == CurrentUop
           x == Inputs(u)
           v == issueload(u, x, addrgen(u, x))
<1>1. /\ Executing /\ u.op \in MemoryOp /\ u.op # "add" /\ addrgen(u, x).exception = "none" /\ Commit(u, Result(v, {}))
  BY DEF Load, MemoryOp
<1>2. WellFormed(u)
  BY <1>1, CurrentOK DEF Executing, Part
<1>3. InputsOK(x)
  BY <1>2, InputsTyped DEF Inv
<1>4. v \in Word
  <2>1. mem \in [Address -> Byte] /\ state.internal_eflags \in Int /\ state.mxcsr \in Int /\ committed \in Nat
    BY MicrocodeAssumption DEF Inv, TypeOK, StateOK
  <2> HIDE DEF u, x
  <2> QED
    BY <1>1, <1>2, <1>3, <2>1, LoadWord
<1> HIDE DEF v, x
<1>5. Result(v, {}).data = v /\ Result(v, {}).flags = {}
  BY DEF Result
<1>6. ~ SetsSelfrip(u)
  BY <1>1 DEF SetsSelfrip
<1> QED
  BY <1>1, <1>4, <1>5, <1>6, CommitInv

LEMMA StoreInv == ASSUME Inv, Store PROVE Inv'
<1> DEFINE u == CurrentUop
           x == Inputs(u)
           a == addrgen(u, x)
<1>1. /\ phase = "run" /\ upc <= Len(bb) /\ u.op = "st"
      /\ mem' = issuestore(u, x, a)
      /\ arf' = [arf EXCEPT !["rip"] = IF u.eom THEN NextRip(u, 0) ELSE @]
      /\ dirty' \in {FALSE} \cup If(insn.op \in Restartable /\ restarts < MaxRestarts, {TRUE})
      /\ Proceed(u)
      /\ UNCHANGED <<insn, state, perm, phase, fault, restarts, bb, arflags, retired>>
  BY DEF Store, Executing
<1>2. Part(u) /\ (bb[upc].op \notin MemoryOp => u = bb[upc]) /\ upc \in DOMAIN bb /\ upc \in Nat /\ Len(bb) \in Nat
  BY <1>1, CurrentOK
<1>3. WellFormed(u) /\ u.size \in 0 .. 3
  BY <1>2 DEF Part, WellFormed
<1>4. InputsOK(x)
  BY <1>3, InputsTyped DEF Inv
<1>5. mem' \in [Address -> Byte]
  <2> HIDE DEF u, x, a
  <2> QED
    BY <1>1, <1>3, <1>4, StoreBytes DEF Inv, TypeOK
<1>6. /\ upc' \in 1 .. Len(bb) + 1 /\ committed' \in 0 .. Limit /\ BufOK'
      /\ upc' <= Len(bb) => ~ u.eom /\ committed' = committed
      /\ upc' = upc \/ upc' = upc + 1
  BY <1>1, ProceedOK
<1> HIDE DEF u, x, a
<1>7. arf \in [CoreReg -> Word] /\ arf["rip"] = Ripstart
  BY <1>1 DEF Inv, TypeOK, AtInstruction
<1>8. NextRip(u, 0) \in Word
  BY <1>7, NextRipWord, SmallWord
<1>9. "rip" \in CoreReg /\ "trace" \in CoreReg /\ "selfrip" \in CoreReg
  BY DEF CoreReg, Temporary
<1>10. arf' \in [CoreReg -> Word] /\ arf'["trace"] = arf["trace"] /\ arf'["selfrip"] = arf["selfrip"]
  BY <1>1, <1>7, <1>8, <1>9
<1>11. ~ u.eom => arf'["rip"] = Ripstart
  BY <1>1, <1>7, <1>9
<1>12. dirty' \in BOOLEAN /\ (dirty' => restarts < MaxRestarts)
  BY <1>1 DEF If
<1>13. SelfripOK'
  <2>1. SUFFICES ASSUME NEW k \in DOMAIN bb, SetsSelfrip(bb[k]), \A j \in DOMAIN bb : j > k => bb[j].rd # "selfrip", k < upc'
                 PROVE  arf'["selfrip"] = Ripstart
    BY <1>1 DEF SelfripOK
  <2>2. k \in Nat
    BY DEF Inv, WellFormedBlock
  <2>3. k # upc
    <3>1. bb[k].op \notin MemoryOp /\ bb[k].op # "st"
      BY <2>1 DEF SetsSelfrip, MemoryOp
    <3> QED
      BY <1>1, <1>2, <3>1
  <2>4. k < upc
    BY <1>2, <1>6, <2>1, <2>2, <2>3
  <2> QED
    BY <1>10, <2>1, <2>4 DEF Inv, SelfripOK
<1>14. AtInstruction'
  BY <1>1, <1>6, <1>11 DEF AtInstruction, Inv
<1>15. TypeOK'
  BY <1>1, <1>5, <1>6, <1>10 DEF TypeOK, Inv
<1>16. FaultNamed'
  BY <1>1 DEF FaultNamed
<1> QED
  BY <1>1, <1>6, <1>10, <1>12, <1>13, <1>14, <1>15, <1>16 DEF Inv, StateOK, Busy

\* A state with no block to execute.
LEMMA NoBlock ==
  ASSUME LeaveBlock
  PROVE  /\ WellFormedBlock(bb)' /\ BufOK' /\ SelfripOK' /\ AtInstruction' /\ upc' \in 1 .. Len(bb') + 1
<1>1. bb' = <<>> /\ upc' = 1 /\ buf' = <<>>
  BY DEF LeaveBlock
<1>2. Len(bb') = 0 /\ DOMAIN bb' = {} /\ 1 .. 0 = {} /\ upc' > Len(bb')
  BY <1>1
<1>3. WellFormedBlock(bb)' /\ BufOK' /\ SelfripOK'
  BY <1>1, <1>2 DEF WellFormedBlock, KnowsSelfrip, BufOK, SelfripOK
<1>4. ~ (upc' <= Len(bb'))
  BY <1>1, <1>2
<1>5. AtInstruction'
  BY <1>4 DEF AtInstruction
<1>6. upc' \in 1 .. Len(bb') + 1
  BY <1>1, <1>2
<1> QED
  BY <1>3, <1>5, <1>6

\* An exception changes the flags at most, and leaves the block.
LEMMA ThrowInv ==
  ASSUME Inv, NEW kind, NEW addr, NEW store, NEW rip, Throw(kind, addr, store, rip),
         arf' = arf \/ RestoreFlags, UNCHANGED arflags,
         phase' \in {"faulted", "raised", "aborted"}, phase = "run",
         phase' = "faulted" => rip = Ripstart /\ ~ Allows(addr, IF store THEN "write" ELSE "read")
  PROVE  Inv'
<1>1. /\ fault' = [kind |-> kind, addr |-> addr, store |-> store, rip |-> rip]
      /\ LeaveBlock
      /\ UNCHANGED <<insn, state, mem, perm, dirty, restarts, committed, saved_flags, retired>>
  BY DEF Throw
<1>2. WellFormedBlock(bb)' /\ BufOK' /\ SelfripOK' /\ AtInstruction' /\ upc' \in 1 .. Len(bb') + 1
  BY <1>1, NoBlock
<1>3. arf' \in [CoreReg -> Word] /\ arf'["trace"] = arf["trace"]
  <2>1. arf \in [CoreReg -> Word]
    BY DEF Inv, TypeOK
  <2>2. CASE RestoreFlags
    <3>1. PICK f : arf' = [arf EXCEPT !["flags"] = FlagBits(f)]
      BY <2>2 DEF RestoreFlags
    <3>2. FlagBits(f) \in Word
      BY FlagBitsWord
    <3>3. "trace" \in CoreReg /\ "flags" \in CoreReg
      BY DEF CoreReg
    <3> QED
      BY <2>1, <3>1, <3>2, <3>3
  <2> QED
    BY <2>1, <2>2
<1>4. TypeOK'
  BY <1>1, <1>2, <1>3 DEF TypeOK, Inv
<1>5. FaultNamed'
  <2>1. fault'.rip = rip /\ fault'.addr = addr /\ fault'.store = store
    BY <1>1
  <2>2. ASSUME NEW right PROVE Allows(addr, right)' <=> Allows(addr, right)
    BY <1>1 DEF Allows
  <2>3. CASE phase' = "faulted"
    <3>1. ~ Allows(addr, IF store THEN "write" ELSE "read")'
      BY <1>1, <2>3 DEF Allows
    <3> QED
      BY <2>1, <2>3, <3>1 DEF FaultNamed, Allows
  <2> QED
    BY <2>3 DEF FaultNamed
<1>6. Busy
  BY DEF Busy
<1> QED
  BY <1>1, <1>2, <1>3, <1>4, <1>5, <1>6 DEF Inv, StateOK

LEMMA PageFaultInv == ASSUME Inv, PageFault PROVE Inv'
<1> DEFINE u == CurrentUop
           a == addrgen(u, Inputs(u))
           addr == handle_common_exceptions(u, a)
           st == u.op = "st"
<1>1. /\ phase = "run" /\ upc <= Len(bb) /\ u.op \in MemoryOp /\ a.exception = "PageFault"
      /\ Throw("PageFault", addr, st, arf["rip"]) /\ RestoreFlags /\ phase' = "faulted" /\ UNCHANGED arflags
  BY DEF PageFault, Executing, MemoryOp
<1>2. WellFormed(u)
  BY <1>1, CurrentOK DEF Part
<1>3. InputsOK(Inputs(u))
  BY <1>2, InputsTyped DEF Inv
<1>4. /\ a.orig \in Nat /\ a.addr \in Nat
      /\ u.cond = "lo" => a.addr = Floor8(a.orig)
      /\ u.cond = "none" => a.addr = a.orig
      /\ ~ Allows(a.addr, IF u.op = "st" THEN "write" ELSE "read")
  <2> HIDE DEF u
  <2> QED
    BY <1>1, <1>2, <1>3, AddrgenOK
<1>5. u.cond \in {"none", "lo", "hi"}
  BY <1>1, <1>2 DEF WellFormed
<1> HIDE DEF u, a
<1>6. PageOf(addr) = PageOf(a.addr)
  <2>1. CASE u.cond = "lo"
    <3>1. addr = a.orig
      BY <2>1 DEF handle_common_exceptions
    <3>2. PageOf(Floor8(a.orig)) = PageOf(a.orig)
      BY <1>4, ChunkInPage
    <3> QED
      BY <1>4, <2>1, <3>1, <3>2
  <2>2. CASE u.cond # "lo"
    BY <1>4, <1>5, <2>2 DEF handle_common_exceptions
  <2> QED
    BY <2>1, <2>2
<1>7. ~ Allows(addr, IF st THEN "write" ELSE "read")
  BY <1>4, <1>6 DEF Allows
<1>8. arf["rip"] = Ripstart
  BY <1>1 DEF Inv, AtInstruction
<1> HIDE DEF addr, st
<1> QED
  BY <1>1, <1>7, <1>8, ThrowInv

LEMMA ComputeInv == ASSUME Inv, Compute PROVE Inv'
<1> DEFINE u == CurrentUop
           r == IF u.op = "mf" THEN Result(0, {}) ELSE get_synthcode_for_uop(u, Inputs(u))
<1>1. /\ Executing /\ phase = "run" /\ upc <= Len(bb) /\ u.op \notin MemoryOp
      /\ CASE r.exception = "none" -> Commit(u, r)
           [] r.exception = "SkipBlock" ->
                /\ arf' = [arf EXCEPT !["rip"] = @ + (Rip - Ripstart)]
                /\ committed' = committed + 1
                /\ LeaveBlock
                /\ UNCHANGED <<guest, phase, fault, dirty, restarts, arflags, saved_flags, retired>>
           [] r.exception = "DivideOverflow" ->
                /\ Throw("DivideOverflow", 0, FALSE, arf["rip"])
                /\ RestoreFlags
                /\ phase' = "aborted"
                /\ UNCHANGED arflags
  BY DEF Compute, Executing, MemoryOp
<1>2. WellFormed(u)
  BY <1>1, CurrentOK DEF Part
<1>3. InputsOK(Inputs(u))
  BY <1>2, InputsTyped DEF Inv
<1>4. ResultOK(r)
  <2>1. CASE u.op = "mf"
    BY <2>1, SmallWord DEF ResultOK, Result
  <2>2. CASE u.op # "mf"
    <3> HIDE DEF u
    <3>1. r = get_synthcode_for_uop(u, Inputs(u))
      BY <2>2
    <3> QED
      BY <1>1, <1>2, <1>3, <2>2, <3>1, UopOK
  <2> QED
    BY <2>1, <2>2
<1>5. SetsSelfrip(u) => r.data = Ripstart
  <2> HIDE DEF u
  <2> QED
    BY SelfripValue DEF SetsSelfrip
<1> HIDE DEF r
<1>6. r.data \in Word /\ r.flags \subseteq AllFlags /\ r.exception \in {"none", "SkipBlock", "DivideOverflow"}
  BY <1>4 DEF ResultOK
<1>7. CASE r.exception = "none"
  <2>1. Commit(u, r)
    BY <1>1, <1>7
  <2> QED
    BY <1>1, <1>5, <1>6, <2>1, CommitInv
<1>8. CASE r.exception = "SkipBlock"
  <2>1. /\ arf' = [arf EXCEPT !["rip"] = @ + (Rip - Ripstart)] /\ committed' = committed + 1 /\ LeaveBlock
        /\ UNCHANGED <<guest, phase, fault, dirty, restarts, arflags, saved_flags, retired>>
    BY <1>1, <1>8
  <2>2. WellFormedBlock(bb)' /\ BufOK' /\ SelfripOK' /\ AtInstruction' /\ upc' \in 1 .. Len(bb') + 1
    BY <2>1, NoBlock
  <2>3. arf \in [CoreReg -> Word] /\ arf["rip"] = Ripstart /\ committed \in Nat /\ committed < Limit
    BY <1>1, MicrocodeAssumption DEF Inv, TypeOK, AtInstruction
  <2>4. arf["rip"] + (Rip - Ripstart) \in Word
    BY <2>3, NextRipWord, SmallWord
  <2>5. "rip" \in CoreReg /\ "trace" \in CoreReg
    BY DEF CoreReg
  <2>6. arf' \in [CoreReg -> Word] /\ arf'["trace"] = arf["trace"]
    BY <2>1, <2>3, <2>4, <2>5
  <2>7. committed' \in 0 .. Limit
    BY <2>1, <2>3, MicrocodeAssumption
  <2>8. TypeOK'
    BY <2>1, <2>2, <2>6, <2>7 DEF TypeOK, Inv, guest
  <2>9. FaultNamed'
    BY <1>1, <2>1 DEF FaultNamed
  <2> QED
    BY <2>1, <2>2, <2>6, <2>8, <2>9 DEF Inv, StateOK, Busy, guest
<1>9. CASE r.exception = "DivideOverflow"
  <2>1. Throw("DivideOverflow", 0, FALSE, arf["rip"]) /\ RestoreFlags /\ phase' = "aborted" /\ UNCHANGED arflags
    BY <1>1, <1>9
  <2> QED
    BY <1>1, <2>1, ThrowInv
<1> QED
  BY <1>6, <1>7, <1>8, <1>9

\* The block that is fetched is one of those BlocksWellFormed speaks of.
LEMMA FetchOK ==
  ASSUME BlocksWellFormed, Inv
  PROVE  WellFormedBlock(fetch_or_translate_basic_block(state))
<1>1. PICK c \in Cases : insn = c.insn
  BY DEF Inv
<1>2. PICK df \in BOOLEAN : df = (state.internal_eflags = DirectionFlag)
  OBVIOUS
<1>3. fetch_or_translate_basic_block(state) = translate([c.insn EXCEPT !.df = df])
  BY <1>1, <1>2 DEF fetch_or_translate_basic_block
<1> QED
  BY <1>3 DEF BlocksWellFormed

LEMMA NewBlock ==
  ASSUME BlocksWellFormed, Inv, bb' = fetch_or_translate_basic_block(state), upc' = 1, buf' = <<>>
  PROVE  WellFormedBlock(bb)' /\ BufOK' /\ SelfripOK' /\ upc' \in 1 .. Len(bb') + 1
<1>1. WellFormedBlock(bb')
  BY FetchOK
<1>2. Len(bb') \in Nat /\ DOMAIN bb' = 1 .. Len(bb')
  BY <1>1 DEF WellFormedBlock
<1>3. \A k \in DOMAIN bb' : ~ (k < upc')
  BY <1>2
<1>4. SelfripOK'
  BY <1>3 DEF SelfripOK
<1>5. BufOK'
  BY DEF BufOK
<1> QED
  BY <1>1, <1>2, <1>4, <1>5

LEMMA SelfModifiedInv == ASSUME BlocksWellFormed, Inv, SelfModified PROVE Inv'
<1>1. /\ phase = "run" /\ dirty /\ upc <= Len(bb) /\ dirty' = FALSE /\ restarts' = restarts + 1
      /\ bb' = fetch_or_translate_basic_block(state) /\ upc' = 1 /\ buf' = <<>>
      /\ UNCHANGED <<guest, phase, fault, committed, arf, arflags, saved_flags, retired>>
  BY DEF SelfModified
<1>2. WellFormedBlock(bb)' /\ BufOK' /\ SelfripOK' /\ upc' \in 1 .. Len(bb') + 1
  BY <1>1, NewBlock
<1>3. restarts' \in 0 .. MaxRestarts
  BY <1>1, MicrocodeAssumption DEF Inv, TypeOK
<1>4. AtInstruction'
  BY <1>1 DEF Inv, AtInstruction
<1>5. TypeOK'
  BY <1>1, <1>2, <1>3 DEF TypeOK, Inv, guest
<1>6. FaultNamed'
  BY <1>1 DEF FaultNamed
<1> QED
  BY <1>1, <1>2, <1>4, <1>5, <1>6 DEF Inv, StateOK, Busy, guest

LEMMA NextBlockInv == ASSUME BlocksWellFormed, Inv, NextBlock PROVE Inv'
<1>1. /\ phase = "run" /\ committed < Limit /\ arf["rip"] = Ripstart
      /\ bb' = fetch_or_translate_basic_block(state) /\ upc' = 1 /\ buf' = <<>>
      /\ UNCHANGED <<guest, phase, fault, committed, dirty, restarts, arf, arflags, saved_flags, retired>>
  BY DEF NextBlock
<1>2. WellFormedBlock(bb)' /\ BufOK' /\ SelfripOK' /\ upc' \in 1 .. Len(bb') + 1
  BY <1>1, NewBlock
<1>3. AtInstruction'
  BY <1>1 DEF Inv, AtInstruction
<1>4. TypeOK'
  BY <1>1, <1>2 DEF TypeOK, Inv, guest
<1>5. FaultNamed'
  BY <1>1 DEF FaultNamed
<1> QED
  BY <1>1, <1>2, <1>3, <1>4, <1>5 DEF Inv, StateOK, Busy, guest

\* The core's registers as they are loaded from the host's state.
LEMMA LoadedState ==
  ASSUME NEW s, s.regs \in [GPR -> Word], s.rip \in Word, s.flags \subseteq AllFlags
  PROVE  /\ external_to_core_state(s) \in [CoreReg -> Word] /\ FlagRegistersOf(s) \in [CoreReg -> SUBSET AllFlags]
         /\ external_to_core_state(s)["trace"] = 0 /\ FlagRegistersOf(s)["zero"] = {}
         /\ external_to_core_state(s)["rip"] = s.rip
<1>1. FlagBits(s.flags) \in Word /\ 0 \in Word
  BY FlagBitsWord, SmallWord
<1>2. {"trace", "zero", "rip"} \subseteq CoreReg /\ "trace" \notin GPR /\ "rip" \notin GPR
  BY DEF CoreReg, GPR
<1>3. external_to_core_state(s) \in [CoreReg -> Word]
  <2>1. ASSUME NEW r \in CoreReg PROVE (CASE r \in GPR -> s.regs[r]
                       [] r = "rip" -> s.rip
                       [] r = "flags" -> FlagBits(s.flags)
                       [] OTHER -> 0) \in Word
    <3>1. "flags" \notin GPR
      BY DEF GPR
    <3>2. CASE r \in GPR
      BY <1>2, <3>1, <3>2
    <3>3. CASE r \notin GPR
      BY <1>1, <3>3
    <3> QED
      BY <3>2, <3>3
  <2> QED
    BY <2>1 DEF external_to_core_state
<1>4. FlagRegistersOf(s) \in [CoreReg -> SUBSET AllFlags] /\ FlagRegistersOf(s)["zero"] = {}
  BY <1>2 DEF FlagRegistersOf
<1>5. external_to_core_state(s)["trace"] = 0 /\ external_to_core_state(s)["rip"] = s.rip
  BY <1>2 DEF external_to_core_state
<1> QED
  BY <1>3, <1>4, <1>5

LEMMA RunInv == ASSUME BlocksWellFormed, Inv, Run PROVE Inv'
<1>1. /\ phase = "idle" /\ phase' = "run" /\ fault' = NoFault /\ committed' = 0
      /\ arf' = external_to_core_state(state) /\ arflags' = FlagRegistersOf(state)
      /\ bb' = fetch_or_translate_basic_block(state) /\ upc' = 1 /\ buf' = <<>> /\ saved_flags' = {}
      /\ UNCHANGED <<guest, dirty, restarts, retired>>
  BY DEF Run
<1>2. WellFormedBlock(bb)' /\ BufOK' /\ SelfripOK' /\ upc' \in 1 .. Len(bb') + 1
  BY <1>1, NewBlock
<1>3. state.regs \in [GPR -> Word] /\ state.rip \in Word /\ state.flags \subseteq AllFlags /\ state.rip = Ripstart
  BY <1>1 DEF Inv, TypeOK, Busy
<1>4. /\ arf' \in [CoreReg -> Word] /\ arflags' \in [CoreReg -> SUBSET AllFlags]
      /\ arf'["trace"] = 0 /\ arflags'["zero"] = {} /\ arf'["rip"] = Ripstart
  BY <1>1, <1>3, LoadedState
<1>5. committed' \in 0 .. Limit /\ committed' < Limit
  BY <1>1, MicrocodeAssumption
<1>6. AtInstruction'
  BY <1>4, <1>5 DEF AtInstruction
<1>7. TypeOK'
  BY <1>1, <1>2, <1>4, <1>5 DEF TypeOK, Inv, guest
<1>8. FaultNamed'
  BY <1>1 DEF FaultNamed
<1>9. Busy /\ Busy'
  BY <1>1 DEF Busy
<1> QED
  BY <1>1, <1>2, <1>4, <1>6, <1>7, <1>8, <1>9 DEF Inv, StateOK, guest

\* The record of the host's state.
StateSet == [regs : [GPR -> Word], flags : SUBSET AllFlags, rip : Word, internal_eflags : Int, mxcsr : Int]

LEMMA WriteBackInv ==
  ASSUME Inv, NEW s \in StateSet, WriteBack(s), mem' \in [Address -> Byte]
  PROVE  Inv'
<1>1. /\ state' = s /\ phase' = (IF s.rip = Ripstart THEN "idle" ELSE "done") /\ fault' = NoFault
      /\ arf' = external_to_core_state(s) /\ arflags' = FlagRegistersOf(s)
      /\ LeaveBlock /\ retired' = mem'
      /\ UNCHANGED <<insn, perm, committed, dirty, restarts, saved_flags>>
  BY DEF WriteBack
<1>2. s.regs \in [GPR -> Word] /\ s.rip \in Word /\ s.flags \subseteq AllFlags
  BY DEF StateSet
<1>3. WellFormedBlock(bb)' /\ BufOK' /\ SelfripOK' /\ AtInstruction' /\ upc' \in 1 .. Len(bb') + 1
  BY <1>1, NoBlock
<1>4. /\ arf' \in [CoreReg -> Word] /\ arflags' \in [CoreReg -> SUBSET AllFlags]
      /\ arf'["trace"] = 0 /\ arflags'["zero"] = {}
  BY <1>1, <1>2, LoadedState
<1>5. TypeOK'
  BY <1>1, <1>2, <1>3, <1>4 DEF TypeOK, Inv
<1>6. FaultNamed'
  BY <1>1 DEF FaultNamed
<1>7. Busy' => state'.rip = Ripstart
  BY <1>1 DEF Busy
<1>8. StateOK'
  BY <1>1 DEF StateOK, StateSet
<1> QED
  BY <1>1, <1>3, <1>4, <1>5, <1>6, <1>7, <1>8 DEF Inv

LEMMA SavedState == ASSUME Inv PROVE core_to_external_state \in StateSet
<1>1. state \in StateSet
  BY DEF Inv, StateOK, StateSet
<1>2. arf \in [CoreReg -> Word]
  BY DEF Inv, TypeOK
<1>3. GPR \subseteq CoreReg /\ "rip" \in CoreReg
  BY DEF CoreReg
<1>4. [r \in GPR |-> arf[r]] \in [GPR -> Word] /\ arf["rip"] \in Word
  BY <1>2, <1>3
<1>5. FlagsOf(arf["flags"]) \in SUBSET AllFlags
  BY DEF FlagsOf
<1> QED
  BY <1>1, <1>4, <1>5 DEF core_to_external_state, StateSet

LEMMA EndBlockInv == ASSUME Inv, EndBlock PROVE Inv'
<1>1. mem' = mem /\ WriteBack(core_to_external_state)
  BY DEF EndBlock
<1>2. mem' \in [Address -> Byte]
  BY <1>1 DEF Inv, TypeOK
<1> QED
  BY <1>1, <1>2, SavedState, WriteBackInv

\* An assist leaves registers, flags and rip of their widths.
LEMMA AssistedState ==
  ASSUME Inv, NEW s \in StateSet, NEW assist, assist = "fxrstor" => FirstRefused(arf["ar1"], "read") = -1
  PROVE  AfterAssist(assist, s) \in StateSet
<1>1. arf \in [CoreReg -> Word] /\ {"nextrip", "ar1", "rcx"} \subseteq CoreReg
  BY DEF Inv, TypeOK, CoreReg, Temporary, GPR
<1>2. arf["nextrip"] \in Word /\ arf["ar1"] \in Word /\ arf["rcx"] \in Word
  BY <1>1
<1> DEFINE next == [s EXCEPT !.rip = arf["nextrip"]]
<1>3. next \in StateSet
  BY <1>2 DEF StateSet
<1> HIDE DEF next
<1>4. 0 \in Word /\ 1 \in Word /\ 2 \in Word /\ 3 \in Word /\ 4 \in Word
  BY SmallWord
<1>5. {"rax", "rbx", "rcx", "rdx"} \subseteq GPR
  BY DEF GPR
<1>6. CASE assist = "popf"
  <2>1. FlagsOf(arf["ar1"]) \in SUBSET AllFlags
    BY DEF FlagsOf
  <2>2. PICK b \in Int : b = Bit(arf["ar1"], 5)
    BY <1>2, WordNat, BitBounds
  <2>3. DirectionFlag * b \in Int
    BY DEF DirectionFlag
  <2>4. AfterAssist(assist, s) = [next EXCEPT !.flags = FlagsOf(arf["ar1"]), !.internal_eflags = DirectionFlag * b]
    BY <1>6, <2>2 DEF AfterAssist, next
  <2> QED
    BY <1>3, <2>1, <2>3, <2>4 DEF StateSet
<1>7. CASE assist \in {"cld", "std"}
  <2>1. AfterAssist(assist, s) \in {[next EXCEPT !.internal_eflags = 0], [next EXCEPT !.internal_eflags = DirectionFlag]}
    BY <1>7 DEF AfterAssist, next
  <2>2. DirectionFlag \in Int
    BY DEF DirectionFlag
  <2> QED
    BY <1>3, <2>1, <2>2 DEF StateSet
<1>8. CASE assist \in {"ldmxcsr", "fxrstor"}
  <2>1. Lo(arf["ar1"], 2) \in Int
    BY <1>2, LowInt
  <2>2. assist = "fxrstor" => FxLoaded(arf["ar1"]) \in Int
    BY <1>2, FxLoadedInt DEF Inv, TypeOK
  <2>3. PICK v \in Int : AfterAssist(assist, s) = [next EXCEPT !.mxcsr = v]
    BY <1>8, <2>1, <2>2 DEF AfterAssist, next
  <2> QED
    BY <1>3, <2>3 DEF StateSet
<1>9. CASE assist = "cpuid"
  <2>1. next.regs \in [GPR -> Word]
    BY <1>3 DEF StateSet
  <2>2. [next.regs EXCEPT !["rax"] = 1, !["rbx"] = 2, !["rcx"] = 3, !["rdx"] = 4] \in [GPR -> Word]
    BY <1>4, <1>5, <2>1
  <2>3. AfterAssist(assist, s) = [next EXCEPT !.regs = [@ EXCEPT !["rax"] = 1, !["rbx"] = 2, !["rcx"] = 3, !["rdx"] = 4]]
    BY <1>9 DEF AfterAssist, next
  <2> QED
    BY <1>3, <2>2, <2>3 DEF StateSet
<1>10. CASE assist = "syscall"
  <2>1. [s.regs EXCEPT !["rax"] = 0] \in [GPR -> Word]
    BY <1>4 DEF StateSet
  <2>2. AfterAssist(assist, s) = [s EXCEPT !.rip = arf["rcx"], !.regs = [s.regs EXCEPT !["rax"] = 0]]
    BY <1>10 DEF AfterAssist, StateSet
  <2> QED
    BY <1>2, <2>1, <2>2 DEF StateSet
<1>11. CASE assist \in {"sysenter", "int"}
  <2>1. [next.regs EXCEPT !["rax"] = 0] \in [GPR -> Word]
    BY <1>3, <1>4 DEF StateSet
  <2>2. AfterAssist(assist, s) = [next EXCEPT !.regs["rax"] = 0]
    BY <1>11 DEF AfterAssist, next
  <2> QED
    BY <1>3, <2>1, <2>2 DEF StateSet
<1>12. CASE assist \notin {"popf", "cld", "std", "ldmxcsr", "fxrstor", "cpuid", "syscall", "sysenter", "int"}
  <2>1. AfterAssist(assist, s) = next
    BY <1>12 DEF AfterAssist, next
  <2> QED
    BY <1>3, <2>1
<1> QED
  BY <1>6, <1>7, <1>8, <1>9, <1>10, <1>11, <1>12

LEMMA BarrierInv == ASSUME Inv, Barrier PROVE Inv'
<1> DEFINE assist == Last(bb).raises
           s == core_to_external_state
<1>1. /\ mem' = (IF assist = "fxsave" THEN FxSaved(arf["ar1"]) ELSE mem)
      /\ WriteBack(AfterAssist(assist, s))
      /\ assist = "fxrstor" => FirstRefused(arf["ar1"], "read") = -1
  BY DEF Barrier
<1>2. arf["ar1"] \in Word /\ mem \in [Address -> Byte] /\ state.mxcsr \in Int
  BY DEF Inv, TypeOK, CoreReg, Temporary, StateOK
<1>3. mem' \in [Address -> Byte]
  BY <1>1, <1>2, FxSavedBytes
<1>4. s \in StateSet
  BY SavedState
<1> HIDE DEF s, assist
<1>5. AfterAssist(assist, s) \in StateSet
  BY <1>1, <1>4, AssistedState
<1> QED
  BY <1>1, <1>3, <1>5, WriteBackInv

\* The address that a copy is refused is one the guest may not access.
LEMMA RefusedNamed ==
  ASSUME NEW target, NEW right, FirstRefused(target, right) # -1
  PROVE  ~ Allows(FirstRefused(target, right), right)
BY DEF FirstRefused

LEMMA BarrierRaisesInv == ASSUME Inv, BarrierRaises PROVE Inv'
<1> DEFINE assist == Last(bb).raises
           right == IF assist = "fxsave" THEN "write" ELSE "read"
           refused == IF assist \in {"fxsave", "fxrstor"} THEN FirstRefused(arf["ar1"], right) ELSE -1
           exception == IF refused # -1 THEN "PageFault" ELSE AssistException(assist)
           addr == IF refused # -1 THEN refused ELSE 0
           st == right = "write"
           rip == IF assist = "int" THEN arf["rip"] ELSE arf["selfrip"]
<1>1. /\ phase = "run" /\ bb # <<>> /\ upc > Len(bb)
      /\ Throw(exception, addr, st, rip)
      /\ phase' = (IF exception = "PageFault" THEN "faulted" ELSE "raised")
      /\ UNCHANGED <<arf, arflags>>
  BY DEF BarrierRaises, AtBarrier
<1>2. ASSUME phase' = "faulted" PROVE rip = Ripstart /\ ~ Allows(addr, IF st THEN "write" ELSE "read")
  <2>1. AssistException(assist) # "PageFault"
    <3> HIDE DEF assist
    <3> QED
      BY DEF AssistException
  <2>2. refused # -1
    BY <1>1, <1>2, <2>1
  <2>3. assist \in {"fxsave", "fxrstor"} /\ refused = FirstRefused(arf["ar1"], right) /\ addr = refused
    BY <2>2
  <2>4. (IF st THEN "write" ELSE "read") = right
    OBVIOUS
  <2>5. ~ Allows(addr, IF st THEN "write" ELSE "read")
    <3> HIDE DEF right, refused, addr, st
    <3> QED
      BY <2>2, <2>3, <2>4, RefusedNamed
  <2>6. PICK k \in DOMAIN bb : SetsSelfrip(bb[k]) /\ \A j \in DOMAIN bb : j > k => bb[j].rd # "selfrip"
    BY <1>1, <2>3 DEF Inv, WellFormedBlock, KnowsSelfrip
  <2>7. k < upc
    BY <1>1 DEF Inv, WellFormedBlock, TypeOK
  <2>8. arf["selfrip"] = Ripstart
    BY <2>6, <2>7 DEF Inv, SelfripOK
  <2> QED
    BY <2>3, <2>5, <2>8
<1>3. phase' \in {"faulted", "raised", "aborted"}
  BY <1>1
<1> HIDE DEF exception, addr, st, rip
<1> QED
  BY <1>1, <1>2, <1>3, ThrowInv

LEMMA RepairInv == ASSUME Inv, Repair PROVE Inv'
<1>1. /\ phase = "faulted" /\ phase' = "idle"
      /\ UNCHANGED <<insn, state, mem, fault, committed, dirty, restarts, core, retired>>
  BY DEF Repair
<1>2. FaultNamed' /\ AtInstruction'
  BY <1>1 DEF FaultNamed, AtInstruction
<1>3. BufOK' /\ SelfripOK' /\ WellFormedBlock(bb)'
  BY <1>1 DEF Inv, BufOK, Part, SelfripOK, core
<1> QED
  BY <1>1, <1>2, <1>3 DEF Inv, TypeOK, StateOK, Busy, core

LEMMA StutterInv == ASSUME Inv, UNCHANGED vars PROVE Inv'
BY DEF Inv, TypeOK, StateOK, Busy, BufOK, Part, AtInstruction, SelfripOK, FaultNamed, Allows, vars

LEMMA InitInv == ASSUME Init PROVE Inv
<1>1. PICK c \in Cases :
        /\ insn = c.insn
        /\ state = [regs |-> c.regs, flags |-> c.flags, rip |-> Ripstart,
                    internal_eflags |-> IF c.df THEN DirectionFlag ELSE 0, mxcsr |-> 3]
        /\ mem = c.mem /\ retired = c.mem
  BY DEF Init
<1>2. /\ phase = "idle" /\ committed = 0 /\ dirty = FALSE /\ restarts = 0
      /\ bb = <<>> /\ upc = 1 /\ buf = <<>>
      /\ arf = [r \in CoreReg |-> 0] /\ arflags = [r \in CoreReg |-> {}]
  BY DEF Init
<1>3. c.regs \in [GPR -> Word] /\ c.flags \subseteq AllFlags /\ c.mem \in [Address -> Byte]
  BY CasesAssumption
<1>4. Ripstart \in Word /\ 0 \in Word
  BY AddressAssumption, SmallWord DEF Word
<1>5. StateOK
  BY <1>1, <1>3, <1>4 DEF StateOK, DirectionFlag
<1>6. Len(bb) = 0 /\ DOMAIN bb = {} /\ 1 .. 0 = {}
  BY <1>2
<1>7. WellFormedBlock(bb) /\ BufOK /\ SelfripOK /\ AtInstruction
  BY <1>2, <1>6 DEF WellFormedBlock, KnowsSelfrip, BufOK, SelfripOK, AtInstruction
<1>8. arf \in [CoreReg -> Word] /\ arflags \in [CoreReg -> SUBSET AllFlags] /\ arf["trace"] = 0 /\ arflags["zero"] = {}
  BY <1>2, <1>4 DEF CoreReg
<1>9. committed \in 0 .. Limit /\ restarts \in 0 .. MaxRestarts /\ upc \in 1 .. Len(bb) + 1
  BY <1>2, <1>6, MicrocodeAssumption
<1>10. TypeOK
  BY <1>1, <1>2, <1>3, <1>4, <1>8, <1>9 DEF TypeOK
<1> QED
  BY <1>1, <1>2, <1>5, <1>7, <1>8, <1>10 DEF Inv, FaultNamed

LEMMA NextInv == ASSUME BlocksWellFormed, Inv, [Next]_vars PROVE Inv'
<1>1. CASE Over \/ UNCHANGED vars
  BY <1>1, StutterInv DEF Over
<1>2. CASE Next /\ ~ Over
  BY <1>2, CrackInv, LoadInv, StoreInv, PageFaultInv, ComputeInv, SelfModifiedInv, BarrierInv, BarrierRaisesInv,
     EndBlockInv, NextBlockInv, RunInv, RepairInv DEF Next, Step
<1> QED
  BY <1>1, <1>2

\* The sequential core (seqcore.cpp) and the uops of uopimpl.cpp keep every register, flag set,
\* byte of memory and count in its width, through faults, retries and restarts for modified code.
THEOREM MicrocodeTypeCorrect == ASSUME BlocksWellFormed PROVE Spec => []TypeOK
<1>1. Inv => TypeOK
  BY DEF Inv
<1> QED
  BY <1>1, InitInv, NextInv, PTL DEF Spec

\* handle_common_exceptions and the fxsave and fxrstor assists: a page fault names the instruction
\* and an address the guest may not access, also where an access was cracked in two.
THEOREM MicrocodeFaultNamed == ASSUME BlocksWellFormed PROVE Spec => []FaultNamed
<1>1. Inv => FaultNamed
  BY DEF Inv
<1> QED
  BY <1>1, InitInv, NextInv, PTL DEF Spec
=============================================================================
