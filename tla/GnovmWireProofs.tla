-------------------------- MODULE GnovmWireProofs --------------------------
(***************************************************************************)
(* Theorems about GnovmWire: for words of any width, texts and messages of *)
(* any length, what a sender means is what the node decodes.               *)
(***************************************************************************)
EXTENDS GnovmWire, WellFoundedInduction, SequenceTheorems, TLAPS

-----------------------------------------------------------------------------
(* Loops and recursive functions on an interval of numbers. *)

LEMMA LeastElement ==
    ASSUME NEW T \in SUBSET Nat, T # {}
    PROVE  \E m \in T : \A y \in T : m <= y
<1>1. PICK m \in T : \A y \in T : ~ (<<y, m>> \in OpToRel(<, Nat))
  BY WFMin, NatLessThanWellFounded
<1>2. ASSUME NEW y \in T PROVE m <= y
  <2>1. m \in Nat /\ y \in Nat /\ <<y, m>> \in Nat \X Nat
    OBVIOUS
  <2>2. ~ (y < m)
    BY <1>1, <2>1 DEF OpToRel
  <2> QED
    BY <2>1, <2>2
<1> QED
  BY <1>2

(* What holds at 0 and passes from each number to the next holds at n. *)
LEMMA Iterations ==
    ASSUME NEW n \in Nat, NEW Good, 0 \in Good,
           \A i \in 1 .. n : i - 1 \in Good => i \in Good
    PROVE  \A i \in 0 .. n : i \in Good
<1> DEFINE Bad == {i \in 0 .. n : i \notin Good}
<1>1. SUFFICES ASSUME Bad # {} PROVE FALSE
  OBVIOUS
<1>2. Bad \in SUBSET Nat
  OBVIOUS
<1>3. PICK i \in Bad : \A j \in Bad : i <= j
  BY <1>1, <1>2, LeastElement
<1>4. i \in 1 .. n /\ i - 1 \in 0 .. n /\ ~(i <= i - 1)
  <2>1. i \in 0 .. n /\ i # 0
    BY <1>3
  <2> QED
    BY <2>1
<1>5. i - 1 \in Good
  BY <1>3, <1>4
<1> QED
  BY <1>3, <1>4, <1>5

(* A function on 0..n whose values follow from the ones after them exists: *)
(* it can be filled in from the last one backwards.                        *)
BackwardLoop(f, n, S, step) ==
    f \in [0 .. n -> S] /\ \A i \in 0 .. n : f[i] = step[i][f]

LEMMA Backwards ==
    ASSUME NEW n \in Nat, NEW S, NEW s \in S,
           NEW step \in [0 .. n -> [[0 .. n -> S] -> S]],
           \A i \in 0 .. n : \A f, g \in [0 .. n -> S] :
               (\A j \in 0 .. n : j > i => f[j] = g[j]) => step[i][f] = step[i][g]
    PROVE  \E f : BackwardLoop(f, n, S, step)
<1> DEFINE Filled(f, k) == \A i \in 0 .. n : i + k > n => f[i] = step[i][f]
           Good == {k \in 0 .. n + 1 : \E f \in [0 .. n -> S] : Filled(f, k)}
<1>1. 0 \in Good
  <2>1. [i \in 0 .. n |-> s] \in [0 .. n -> S]
    OBVIOUS
  <2>2. Filled([i \in 0 .. n |-> s], 0) /\ 0 \in 0 .. n + 1
    <3>1. \A i \in 0 .. n : ~(i + 0 > n)
      OBVIOUS
    <3> QED
      BY <3>1
  <2> HIDE DEF Filled
  <2> QED
    BY <2>1, <2>2
<1>2. ASSUME NEW k \in 1 .. n + 1, k - 1 \in Good PROVE k \in Good
  <2>1. PICK f \in [0 .. n -> S] : Filled(f, k - 1)
    BY <1>2
  <2>2. /\ k \in Nat /\ n + 1 - k \in 0 .. n
        /\ \A i \in 0 .. n : (i + k > n <=> i + (k - 1) > n \/ i = n + 1 - k)
                             /\ (i > n + 1 - k <=> i + (k - 1) > n)
    OBVIOUS
  <2> DEFINE m == n + 1 - k
             g == [f EXCEPT ![m] = step[m][f]]
  <2>3. g \in [0 .. n -> S] /\ g[m] = step[m][f]
        /\ \A i \in 0 .. n : i # m => g[i] = f[i]
    BY <2>2
  <2>4. m \in 0 .. n
    BY <2>2
  <2>5. \A i \in 0 .. n : i + k > n => i >= m
    BY <2>2
  <2> HIDE DEF g, m
  <2>6. ASSUME NEW i \in 0 .. n, i >= m PROVE step[i][g] = step[i][f]
    <3>1. \A j \in 0 .. n : j > i => g[j] = f[j]
      BY <2>3, <2>4, <2>6
    <3> QED
      BY <2>3, <3>1
  <2>7. Filled(g, k)
    <3> SUFFICES ASSUME NEW i \in 0 .. n, i + k > n PROVE g[i] = step[i][g]
      OBVIOUS
    <3>1. CASE i = m
      BY <2>3, <2>4, <2>5, <2>6, <3>1
    <3>2. CASE i # m
      <4>1. i + (k - 1) > n
        BY <2>2, <3>2 DEF m
      <4> QED
        BY <2>1, <2>3, <2>5, <2>6, <3>2, <4>1
    <3> QED
      BY <3>1, <3>2
  <2>8. k \in 0 .. n + 1
    OBVIOUS
  <2> HIDE DEF Filled
  <2> QED
    BY <2>3, <2>7, <2>8
<1> HIDE DEF Good
<1>3. n + 1 \in Good
  <2>1. n + 1 \in Nat /\ n + 1 \in 0 .. n + 1
    OBVIOUS
  <2> QED
    BY <1>1, <1>2, <2>1, Iterations
<1>4. PICK f \in [0 .. n -> S] : Filled(f, n + 1)
  BY <1>3 DEF Good
<1>5. \A i \in 0 .. n : i + (n + 1) > n
  OBVIOUS
<1> QED
  BY <1>4, <1>5 DEF BackwardLoop

(* So does one whose values follow from the one before them. *)
ForwardLoop(f, n, S, start, step) ==
    /\ f \in [0 .. n -> S] /\ f[0] = start
    /\ \A i \in 1 .. n : f[i] = step[i][f[i - 1]]

LEMMA Forwards ==
    ASSUME NEW n \in Nat, NEW S, NEW start \in S, NEW step \in [1 .. n -> [S -> S]]
    PROVE  \E f : ForwardLoop(f, n, S, start, step)
<1> DEFINE Filled(f, k) == f[0] = start /\ \A i \in 1 .. n : i <= k => f[i] = step[i][f[i - 1]]
           Good == {k \in 0 .. n : \E f \in [0 .. n -> S] : Filled(f, k)}
<1>1. 0 \in Good
  <2>1. [i \in 0 .. n |-> start] \in [0 .. n -> S] /\ 0 \in 0 .. n
    OBVIOUS
  <2>2. Filled([i \in 0 .. n |-> start], 0)
    OBVIOUS
  <2> QED
    BY <2>1, <2>2
<1>2. ASSUME NEW k \in 1 .. n, k - 1 \in Good PROVE k \in Good
  <2>1. PICK f \in [0 .. n -> S] : Filled(f, k - 1)
    BY <1>2
  <2> DEFINE g == [f EXCEPT ![k] = step[k][f[k - 1]]]
  <2>2. k - 1 \in 0 .. n /\ k \in 0 .. n /\ k # 0 /\ 0 \in 0 .. n
    OBVIOUS
  <2>3. g \in [0 .. n -> S] /\ g[k] = step[k][f[k - 1]]
        /\ \A i \in 0 .. n : i # k => g[i] = f[i]
    BY <2>2
  <2> HIDE DEF g
  <2>4. ASSUME NEW i \in 1 .. n, i <= k PROVE g[i] = step[i][g[i - 1]]
    <3>1. i - 1 \in 0 .. n /\ i - 1 # k /\ i \in 0 .. n
      BY <2>4
    <3>2. g[i - 1] = f[i - 1]
      BY <2>3, <3>1
    <3>3. CASE i = k
      BY <2>3, <3>2, <3>3
    <3>4. CASE i # k
      <4>1. i <= k - 1
        BY <2>4, <3>4
      <4> QED
        BY <2>1, <2>3, <3>1, <3>2, <3>4, <4>1
    <3> QED
      BY <3>3, <3>4
  <2>5. Filled(g, k)
    BY <2>1, <2>2, <2>3, <2>4
  <2> QED
    BY <2>2, <2>3, <2>5
<1> HIDE DEF Good
<1>3. n \in Good
  <2>1. \A i \in 0 .. n : i \in Good
    BY <1>1, <1>2, Iterations
  <2> QED
    BY <2>1
<1>4. PICK f \in [0 .. n -> S] : Filled(f, n)
  BY <1>3 DEF Good
<1> QED
  BY <1>4 DEF ForwardLoop

-----------------------------------------------------------------------------
(* Powers of two. *)

LEMMA Powers ==
    /\ Pow2 \in [0 .. Word -> Nat \ {0}]
    /\ Pow2[0] = 1
    /\ \A n \in 1 .. Word : Pow2[n] = 2 * Pow2[n - 1]
<1> DEFINE Is(f) == f = [n \in 0 .. Word |-> IF n = 0 THEN 1 ELSE 2 * f[n - 1]]
           Pos == Nat \ {0}
           step == [i \in 1 .. Word |-> [x \in Pos |-> 2 * x]]
<1>1. Word \in Nat
  BY WordAssumption
<1>2. step \in [1 .. Word -> [Pos -> Pos]] /\ 1 \in Pos
      /\ \A i \in 1 .. Word, x \in Pos : step[i][x] = 2 * x
  OBVIOUS
<1> HIDE DEF step, Pos
<1>3. PICK f : ForwardLoop(f, Word, Pos, 1, step)
  BY <1>1, <1>2, Forwards
<1>4. \A i \in 1 .. Word : i - 1 \in 0 .. Word /\ f[i] = 2 * f[i - 1]
  <2>1. \A i \in 1 .. Word : i - 1 \in 0 .. Word
    BY <1>1
  <2> QED
    BY <1>2, <1>3, <2>1 DEF ForwardLoop
<1>5. f = [n \in 0 .. Word |-> f[n]]
  BY <1>3 DEF ForwardLoop
<1>6. \A n \in 0 .. Word : f[n] = IF n = 0 THEN 1 ELSE 2 * f[n - 1]
  BY <1>3, <1>4 DEF ForwardLoop
<1>7. Is(f)
  BY <1>5, <1>6
<1>8. Is(Pow2)
  BY <1>7 DEF Pow2
<1>9. \A n \in 0 .. Word : Pow2[n] = IF n = 0 THEN 1 ELSE 2 * Pow2[n - 1]
  BY <1>8
<1>10. Pow2 = [n \in 0 .. Word |-> Pow2[n]]
  BY <1>8
<1> DEFINE Good == {n \in 0 .. Word : Pow2[n] \in Nat \ {0}}
<1>11. 0 \in Good
  BY <1>1, <1>9
<1>12. \A n \in 1 .. Word : n - 1 \in Good => n \in Good
  BY <1>1, <1>9
<1>13. \A n \in 0 .. Word : n \in Good
  <2> HIDE DEF Good
  <2> QED
    BY <1>1, <1>11, <1>12, Iterations
<1>14. \A n \in 0 .. Word : Pow2[n] \in Nat \ {0}
  BY <1>13
<1>15. 0 \in 0 .. Word /\ \A n \in 1 .. Word : n \in 0 .. Word /\ n # 0
  BY <1>1
<1>16. Pow2 \in [0 .. Word -> Nat \ {0}]
  BY <1>10, <1>14
<1>17. Pow2[0] = 1 /\ \A n \in 1 .. Word : Pow2[n] = 2 * Pow2[n - 1]
  BY <1>9, <1>15
<1> QED
  BY <1>16, <1>17

LEMMA PowersGrow ==
    ASSUME NEW m \in 0 .. Word, NEW n \in m .. Word
    PROVE  Pow2[m] <= Pow2[n]
<1> DEFINE Good == {i \in 0 .. n : i >= m => Pow2[m] <= Pow2[i]}
<1>1. Word \in Nat /\ m \in Nat /\ n \in Nat /\ m <= n
  BY WordAssumption
<1>2. \A i \in 0 .. n : i \in 0 .. Word /\ Pow2[i] \in Nat
  BY <1>1, Powers
<1>3. 0 \in Good
  BY <1>1, <1>2
<1>4. ASSUME NEW i \in 1 .. n, i - 1 \in Good PROVE i \in Good
  <2>1. i \in 0 .. n /\ i - 1 \in 0 .. n /\ i \in 1 .. Word
    BY <1>1
  <2>2. Pow2[i] = 2 * Pow2[i - 1] /\ Pow2[i - 1] \in Nat /\ Pow2[i] \in Nat
    BY <1>2, <2>1, Powers
  <2>3. CASE i = m
    BY <1>2, <2>1, <2>2, <2>3
  <2>4. CASE i # m
    <3>1. i >= m => i - 1 >= m
      BY <1>1, <2>4
    <3>2. Pow2[m] \in Nat
      BY Powers
    <3> QED
      BY <1>4, <2>1, <2>2, <3>1, <3>2
  <2> QED
    BY <2>3, <2>4
<1>5. n \in Good
  <2> HIDE DEF Good
  <2> QED
    BY <1>1, <1>3, <1>4, Iterations
<1> QED
  BY <1>1, <1>5

LEMMA WordSizes ==
    /\ Word \in Nat /\ Word >= 8
    /\ Groups \in Nat /\ Groups >= 2 /\ Word = 7 * Groups - 6
    /\ Half \in Nat /\ Half >= 128 /\ Uint64 \in Nat /\ Uint64 = 2 * Half
    /\ FieldUint \in Nat /\ FieldUint >= 16 /\ 8 * FieldUint <= Half
<1>1. Word \in Nat /\ FieldWord \in Nat /\ Word >= 8 /\ FieldWord >= 4 /\ FieldWord + 4 <= Word
  BY WordAssumption
<1>2. Groups \in Nat /\ Word = 7 * Groups - 6 /\ Groups >= 2
  BY WordAssumption, <1>1 DEF Groups
<1>3. \A n \in 0 .. Word : Pow2[n] \in Nat
  BY Powers
<1>4. Half \in Nat /\ Uint64 \in Nat /\ Uint64 = 2 * Half
  <2>1. Word \in 1 .. Word /\ Word - 1 \in 0 .. Word
    BY <1>1
  <2> QED
    BY <1>3, <2>1, Powers DEF Half, Uint64
<1>5. Pow2[7] = 128 /\ Pow2[4] = 16
  <2>1. {0, 1, 2, 3, 4, 5, 6, 7} \subseteq 0 .. Word /\ {1, 2, 3, 4, 5, 6, 7} \subseteq 1 .. Word
    BY <1>1
  <2>2. Pow2[1] = 2 /\ Pow2[2] = 4
    BY <2>1, Powers
  <2>3. Pow2[3] = 8 /\ Pow2[4] = 16
    BY <2>1, <2>2, Powers
  <2>4. Pow2[5] = 32 /\ Pow2[6] = 64
    BY <2>1, <2>3, Powers
  <2> QED
    BY <2>1, <2>3, <2>4, Powers
<1>6. Half >= 128
  <2>1. 7 \in 0 .. Word /\ Word - 1 \in 7 .. Word
    BY <1>1
  <2>2. Pow2[7] <= Pow2[Word - 1]
    BY <2>1, PowersGrow
  <2> QED
    BY <1>4, <1>5, <2>2 DEF Half
<1>7. FieldUint \in Nat /\ FieldUint >= 16
  <2>1. 4 \in 0 .. Word /\ FieldWord \in 4 .. Word /\ FieldWord \in 0 .. Word
    BY <1>1
  <2>2. Pow2[4] <= Pow2[FieldWord]
    BY <2>1, PowersGrow
  <2> QED
    BY <1>3, <1>5, <2>1, <2>2 DEF FieldUint
<1>8. 8 * FieldUint <= Half
  <2> DEFINE w == FieldWord
  <2>1. w + 1 \in 1 .. Word /\ w + 2 \in 1 .. Word /\ w + 3 \in 1 .. Word
        /\ (w + 1) - 1 = w /\ (w + 2) - 1 = w + 1 /\ (w + 3) - 1 = w + 2
    BY <1>1
  <2>2. Pow2[w + 1] = 2 * Pow2[w] /\ Pow2[w + 2] = 2 * Pow2[w + 1] /\ Pow2[w + 3] = 2 * Pow2[w + 2]
    BY <2>1, Powers
  <2>3. w + 3 \in 0 .. Word /\ Word - 1 \in w + 3 .. Word
    BY <1>1
  <2>4. Pow2[w + 3] <= Pow2[Word - 1]
    BY <2>3, PowersGrow
  <2>5. w \in 0 .. Word /\ w + 1 \in 0 .. Word /\ w + 2 \in 0 .. Word /\ w + 3 \in 0 .. Word
    BY <1>1
  <2>6. Pow2[w] \in Nat /\ Pow2[w + 1] \in Nat /\ Pow2[w + 2] \in Nat /\ Pow2[w + 3] \in Nat
    BY <1>3, <2>5
  <2> QED
    BY <1>4, <2>2, <2>4, <2>6 DEF FieldUint, Half
<1> QED
  BY <1>1, <1>2, <1>4, <1>6, <1>7, <1>8

-----------------------------------------------------------------------------
(* Varints. *)

Byte == 0 .. 255

LEMMA BytesAreNumbers == \A x \in Byte : x \in Nat /\ x <= 255
  BY DEF Byte

(* g[k] is what the bytes after the k-th spell.                            *)
Reads(g, b, i, n) ==
    /\ g \in [0 .. n -> Nat] /\ g[n] = 0
    /\ \A k \in 0 .. n - 1 : g[k] = (b[i + k + 1] % 128) + 128 * g[k + 1]

LEMMA ValueIs ==
    ASSUME NEW b \in Seq(Byte), NEW i \in Nat, NEW n \in Nat, i + n <= Len(b),
           NEW g, Reads(g, b, i, n)
    PROVE  Value(b, i, n) = g[0]
<1> DEFINE Is(f) == f = [k \in 0 .. n |-> IF k = n THEN 0
                                          ELSE (b[i + k + 1] % 128) + 128 * f[k + 1]]
           h == CHOOSE f : Is(f)
<1>1. Is(g)
  <2>1. \A k \in 0 .. n : k # n => k \in 0 .. n - 1
    OBVIOUS
  <2>2. \A k \in 0 .. n : g[k] = IF k = n THEN 0 ELSE (b[i + k + 1] % 128) + 128 * g[k + 1]
    BY <2>1 DEF Reads
  <2>3. g = [k \in 0 .. n |-> g[k]]
    BY DEF Reads
  <2> QED
    BY <2>2, <2>3
<1>2. Value(b, i, n) = h[0]
  BY DEF Value
<1>3. Is(h)
  BY <1>1
<1> HIDE DEF h
<1>4. \A k \in 0 .. n : h[k] = IF k = n THEN 0 ELSE (b[i + k + 1] % 128) + 128 * h[k + 1]
  BY <1>3
<1> DEFINE Good == {j \in 0 .. n : h[n - j] = g[n - j]}
<1>5. 0 \in Good
  <2>1. n \in 0 .. n /\ n - 0 = n /\ 0 \in 0 .. n
    OBVIOUS
  <2> QED
    BY <1>4, <2>1 DEF Reads
<1>6. ASSUME NEW j \in 1 .. n, j - 1 \in Good PROVE j \in Good
  <2>1. /\ n - j \in 0 .. n /\ n - j # n /\ n - j \in 0 .. n - 1 /\ j \in 0 .. n
        /\ (n - j) + 1 = n - (j - 1)
    OBVIOUS
  <2>2. h[n - (j - 1)] = g[n - (j - 1)]
    BY <1>6
  <2> QED
    BY <1>4, <2>1, <2>2 DEF Reads
<1>7. n \in Good
  <2>1. \A j \in 0 .. n : j \in Good
    <3> HIDE DEF Good
    <3> QED
      BY <1>5, <1>6, Iterations
  <2> QED
    BY <2>1
<1> QED
  <2>1. n - n = 0
    OBVIOUS
  <2> QED
    BY <1>2, <1>7, <2>1

LEMMA ValueReads ==
    ASSUME NEW b \in Seq(Byte), NEW i \in Nat, NEW n \in Nat, i + n <= Len(b)
    PROVE  \E g : Reads(g, b, i, n)
<1> DEFINE F == [0 .. n -> Nat]
           step == [k \in 0 .. n |->
                      [f \in F |-> IF k = n THEN 0 ELSE (b[i + k + 1] % 128) + 128 * f[k + 1]]]
<1>1. ASSUME NEW k \in 0 .. n, NEW f \in F
      PROVE  (IF k = n THEN 0 ELSE (b[i + k + 1] % 128) + 128 * f[k + 1]) \in Nat
  <2>1. CASE k = n
    BY <2>1
  <2>2. CASE k # n
    <3>1. i + k + 1 \in 1 .. Len(b) /\ k + 1 \in 0 .. n
      BY <2>2
    <3>2. b[i + k + 1] \in Byte
      BY <3>1
    <3>3. b[i + k + 1] \in Nat
      BY <3>2, BytesAreNumbers
    <3>4. f[k + 1] \in Nat
      BY <3>1
    <3> HIDE DEF F
    <3> QED
      BY <2>2, <3>3, <3>4
  <2> QED
    BY <2>1, <2>2
<1>2. step \in [0 .. n -> [F -> Nat]]
  BY <1>1
<1>3. \A k \in 0 .. n : \A f \in F :
        step[k][f] = IF k = n THEN 0 ELSE (b[i + k + 1] % 128) + 128 * f[k + 1]
  OBVIOUS
<1>4. \A k \in 0 .. n : \A f, g \in F :
        (\A j \in 0 .. n : j > k => f[j] = g[j]) => step[k][f] = step[k][g]
  <2> SUFFICES ASSUME NEW k \in 0 .. n, NEW f \in F, NEW g \in F,
                      \A j \in 0 .. n : j > k => f[j] = g[j]
               PROVE  step[k][f] = step[k][g]
    OBVIOUS
  <2>1. k # n => f[k + 1] = g[k + 1]
    OBVIOUS
  <2> HIDE DEF F, step
  <2> QED
    BY <1>3, <2>1
<1> HIDE DEF step
<1>5. PICK g : BackwardLoop(g, n, Nat, step)
  <2>1. 0 \in Nat
    OBVIOUS
  <2> QED
    BY <1>2, <1>4, <2>1, Backwards
<1>6. g \in F /\ \A k \in 0 .. n : g[k] = step[k][g]
  BY <1>5 DEF BackwardLoop
<1>7. \A k \in 0 .. n - 1 : k \in 0 .. n /\ k # n
  OBVIOUS
<1>8. n \in 0 .. n
  OBVIOUS
<1>9. g[n] = 0 /\ \A k \in 0 .. n - 1 : g[k] = (b[i + k + 1] % 128) + 128 * g[k + 1]
  BY <1>3, <1>6, <1>7, <1>8, ZenonT(60)
<1>10. Reads(g, b, i, n)
  BY <1>6, <1>9 DEF Reads
<1> QED
  BY <1>10

(* What n bytes spell does not depend on where they stand.                 *)
SameBytes(b, i, c, j, n) ==
    /\ b \in Seq(Byte) /\ i \in Nat /\ n \in Nat /\ i + n <= Len(b)
    /\ c \in Seq(Byte) /\ j \in Nat /\ j + n <= Len(c)
    /\ \A k \in 1 .. n : c[j + k] = b[i + k]

LEMMA ValueMoves ==
    ASSUME NEW b, NEW i, NEW n, NEW c, NEW j, SameBytes(b, i, c, j, n)
    PROVE  Value(c, j, n) = Value(b, i, n) /\ Value(b, i, n) \in Nat
<1>0. /\ b \in Seq(Byte) /\ i \in Nat /\ n \in Nat /\ i + n <= Len(b)
      /\ c \in Seq(Byte) /\ j \in Nat /\ j + n <= Len(c)
      /\ \A k \in 1 .. n : c[j + k] = b[i + k]
  BY DEF SameBytes
<1>1. PICK g : Reads(g, b, i, n)
  BY <1>0, ValueReads
<1>3. Reads(g, c, j, n)
  <2>1. ASSUME NEW k \in 0 .. n - 1
        PROVE  g[k] = (c[j + k + 1] % 128) + 128 * g[k + 1]
    <3> DEFINE m == k + 1
    <3>1. m \in 1 .. n /\ j + m = j + k + 1 /\ i + m = i + k + 1
      BY <1>0
    <3>2. c[j + m] = b[i + m]
      BY <1>0, <3>1
    <3> HIDE DEF m
    <3>3. c[j + k + 1] = b[i + k + 1]
      BY <3>1, <3>2
    <3>4. g[k] = (b[i + k + 1] % 128) + 128 * g[k + 1]
      BY <1>1 DEF Reads
    <3> QED
      BY <3>3, <3>4
  <2>2. g \in [0 .. n -> Nat] /\ g[n] = 0
    BY <1>1 DEF Reads
  <2> QED
    BY <2>1, <2>2 DEF Reads
<1>4. Value(b, i, n) = g[0] /\ Value(c, j, n) = g[0]
  BY <1>0, <1>1, <1>3, ValueIs
<1>5. g[0] \in Nat
  <2>1. 0 \in 0 .. n
    BY <1>0
  <2> QED
    BY <1>1, <2>1 DEF Reads
<1> QED
  BY <1>4, <1>5

(* l[k] is what is left of v after k - 1 groups.                           *)
Left(l, v) ==
    /\ l \in [1 .. Groups -> Nat] /\ l[1] = v
    /\ \A k \in 2 .. Groups : l[k] = l[k - 1] \div 128

LEMMA LeftExists ==
    ASSUME NEW v \in Nat
    PROVE  \E l : Left(l, v)
<1> DEFINE step == [i \in 1 .. Groups - 1 |-> [x \in Nat |-> x \div 128]]
<1>1. Groups \in Nat /\ Groups - 1 \in Nat
  BY WordSizes
<1>2. step \in [1 .. Groups - 1 -> [Nat -> Nat]]
      /\ \A i \in 1 .. Groups - 1, x \in Nat : step[i][x] = x \div 128
  OBVIOUS
<1> HIDE DEF step
<1>3. PICK f : ForwardLoop(f, Groups - 1, Nat, v, step)
  BY <1>1, <1>2, Forwards
<1>4. f \in [0 .. Groups - 1 -> Nat] /\ f[0] = v
      /\ \A i \in 1 .. Groups - 1 : f[i] = step[i][f[i - 1]]
  BY <1>3 DEF ForwardLoop
<1> DEFINE l == [k \in 1 .. Groups |-> f[k - 1]]
<1>5. l \in [1 .. Groups -> Nat]
  <2>1. \A k \in 1 .. Groups : k - 1 \in 0 .. Groups - 1
    BY <1>1
  <2> QED
    BY <1>4, <2>1
<1>6. l[1] = v
  <2>1. 1 \in 1 .. Groups /\ 1 - 1 = 0
    BY WordSizes
  <2> QED
    BY <1>4, <2>1
<1>7. ASSUME NEW k \in 2 .. Groups PROVE l[k] = l[k - 1] \div 128
  <2>1. k \in 1 .. Groups /\ k - 1 \in 1 .. Groups - 1 /\ k - 1 \in 1 .. Groups
        /\ (k - 1) - 1 \in 0 .. Groups - 1
    BY <1>1
  <2> DEFINE i == k - 1
  <2>2. l[k] = f[i] /\ l[k - 1] = f[i - 1]
    BY <2>1
  <2>3. i \in 1 .. Groups - 1 /\ i - 1 \in 0 .. Groups - 1
    BY <2>1
  <2> HIDE DEF i, l
  <2>4. f[i - 1] \in Nat /\ f[i] = step[i][f[i - 1]]
    BY <1>4, <2>3
  <2> QED
    BY <1>2, <2>2, <2>3, <2>4
<1> HIDE DEF l
<1> QED
  BY <1>5, <1>6, <1>7 DEF Left

(* The bytes written for v, given what is left of it where.                *)
LEMMA BytesFromLeft ==
    ASSUME NEW v \in Nat, NEW l, Left(l, v), NEW n \in 1 .. Groups, l[n] < 128,
           \A k \in 1 .. n - 1 : l[k] >= 128
    PROVE  VarintBytes(v) = [k \in 1 .. n |-> IF k = n THEN l[k] ELSE 128 + (l[k] % 128)]
<1> DEFINE Is(f) == f = [k \in 1 .. Groups |-> IF k = 1 THEN v ELSE f[k - 1] \div 128]
           h == CHOOSE f : Is(f)
<1>1. Is(l)
  <2>1. \A k \in 1 .. Groups : k # 1 => k \in 2 .. Groups
    BY WordSizes
  <2>2. \A k \in 1 .. Groups : l[k] = IF k = 1 THEN v ELSE l[k - 1] \div 128
    BY <2>1 DEF Left
  <2>3. l = [k \in 1 .. Groups |-> l[k]]
    BY DEF Left
  <2> QED
    BY <2>2, <2>3
<1>2. Is(h)
  BY <1>1
<1> DEFINE First(f, m) == f[m] < 128 /\ \A k \in 1 .. m - 1 : f[k] >= 128
           m == CHOOSE m \in 1 .. Groups : First(h, m)
<1>3. VarintBytes(v) = [k \in 1 .. m |-> IF k = m THEN h[k] ELSE 128 + (h[k] % 128)]
  BY DEF VarintBytes
<1> HIDE DEF h
<1>4. \A k \in 1 .. Groups : h[k] = IF k = 1 THEN v ELSE h[k - 1] \div 128
  BY <1>2
<1>5. \A k \in 1 .. Groups : h[k] = l[k]
  <2> DEFINE Good == {k \in 0 .. Groups : k # 0 => h[k] = l[k]}
  <2>1. 0 \in Good
    BY WordSizes
  <2>2. ASSUME NEW k \in 1 .. Groups, k - 1 \in Good PROVE k \in Good
    <3>1. CASE k = 1
      BY <1>4, <3>1, WordSizes DEF Left
    <3>2. CASE k # 1
      <4>1. k \in 2 .. Groups /\ k - 1 # 0 /\ k \in 0 .. Groups
        BY <3>2, WordSizes
      <4>2. h[k - 1] = l[k - 1]
        BY <2>2, <4>1
      <4>3. h[k] = h[k - 1] \div 128 /\ l[k] = l[k - 1] \div 128
        BY <1>4, <3>2, <4>1 DEF Left
      <4> QED
        BY <4>1, <4>2, <4>3
    <3> QED
      BY <3>1, <3>2
  <2>3. \A k \in 0 .. Groups : k \in Good
    <3>1. Groups \in Nat
      BY WordSizes
    <3> HIDE DEF Good
    <3> QED
      BY <2>1, <2>2, <3>1, Iterations
  <2>4. \A k \in 1 .. Groups : k \in 0 .. Groups /\ k # 0
    BY WordSizes
  <2> QED
    BY <2>3, <2>4
<1>6. \A k \in 1 .. n - 1 : k \in 1 .. Groups
  BY WordSizes
<1>7. First(h, n)
  BY <1>5, <1>6
<1>8. m \in 1 .. Groups /\ First(h, m)
  <2> HIDE DEF First
  <2> QED
    BY <1>7
<1> HIDE DEF m
<1>9. m = n
  <2>1. m \in Nat /\ n \in Nat
    BY <1>8
  <2>2. \A k \in 1 .. Groups : l[k] \in Nat
    BY DEF Left
  <2>3. ~(m < n)
    <3>1. m < n => m \in 1 .. n - 1
      BY <1>8
    <3>2. l[m] < 128 /\ l[m] \in Nat
      BY <1>5, <1>8, <2>2
    <3> QED
      BY <3>1, <3>2
  <2>4. ~(n < m)
    <3>1. n < m => n \in 1 .. m - 1
      BY <1>8
    <3>2. h[n] < 128 /\ h[n] \in Nat
      BY <1>5, <2>2
    <3> QED
      BY <1>8, <3>1, <3>2
  <2> QED
    BY <2>1, <2>3, <2>4
<1>10. \A k \in 1 .. n : k \in 1 .. Groups
  BY WordSizes
<1> QED
  BY <1>3, <1>5, <1>9, <1>10

LEMMA SevenBits ==
    ASSUME NEW j \in Nat, j + 7 <= Word
    PROVE  Pow2[j + 7] = 128 * Pow2[j] /\ Pow2[j] \in Nat /\ Pow2[7] = 128
<1>1. ASSUME NEW i \in Nat, i < Word
      PROVE  Pow2[i + 1] = 2 * Pow2[i] /\ Pow2[i] \in Nat
  <2> DEFINE m == i + 1
  <2>1. m \in 1 .. Word /\ m - 1 = i /\ i \in 0 .. Word
    BY <1>1, WordAssumption
  <2>2. Pow2[m] = 2 * Pow2[m - 1] /\ Pow2[i] \in Nat
    BY <2>1, Powers
  <2> QED
    BY <2>1, <2>2
<1>2. ASSUME NEW i \in Nat, i + 7 <= Word
      PROVE  Pow2[i + 7] = 128 * Pow2[i] /\ Pow2[i] \in Nat
  <2>1. /\ i < Word /\ i + 1 \in Nat /\ i + 1 < Word /\ i + 2 \in Nat /\ i + 2 < Word
        /\ i + 3 \in Nat /\ i + 3 < Word /\ i + 4 \in Nat /\ i + 4 < Word
        /\ i + 5 \in Nat /\ i + 5 < Word /\ i + 6 \in Nat /\ i + 6 < Word
    BY <1>2, WordAssumption
  <2>2. /\ (i + 1) + 1 = i + 2 /\ (i + 2) + 1 = i + 3 /\ (i + 3) + 1 = i + 4
        /\ (i + 4) + 1 = i + 5 /\ (i + 5) + 1 = i + 6 /\ (i + 6) + 1 = i + 7
    OBVIOUS
  <2>3. Pow2[i + 1] = 2 * Pow2[i] /\ Pow2[i] \in Nat
    BY <1>1, <2>1
  <2>4. Pow2[i + 2] = 2 * Pow2[i + 1]
    BY <1>1, <2>1, <2>2
  <2>5. Pow2[i + 3] = 2 * Pow2[i + 2]
    BY <1>1, <2>1, <2>2
  <2>6. Pow2[i + 4] = 2 * Pow2[i + 3]
    BY <1>1, <2>1, <2>2
  <2>7. Pow2[i + 5] = 2 * Pow2[i + 4]
    BY <1>1, <2>1, <2>2
  <2>8. Pow2[i + 6] = 2 * Pow2[i + 5]
    BY <1>1, <2>1, <2>2
  <2>9. Pow2[i + 7] = 2 * Pow2[i + 6]
    BY <1>1, <2>1, <2>2
  <2> QED
    BY <2>3, <2>4, <2>5, <2>6, <2>7, <2>8, <2>9
<1>3. Pow2[7] = 128
  <2>1. 0 \in Nat /\ 0 + 7 <= Word /\ 0 + 7 = 7
    BY WordSizes
  <2>2. Pow2[0 + 7] = 128 * Pow2[0]
    BY <1>2, <2>1
  <2> QED
    BY <2>1, <2>2, Powers
<1> QED
  BY <1>2, <1>3

(* Len64 counts the bits of a number that has any.                         *)
LEMMA Bits ==
    ASSUME NEW x \in 1 .. Uint64 - 1
    PROVE  /\ Len64(x) \in 1 .. Word
           /\ x < Pow2[Len64(x)] /\ Pow2[Len64(x) - 1] <= x
<1> DEFINE T == {n \in 0 .. Word : Pow2[n] > x}
           Is(n) == Pow2[n] > x /\ (n > 0 => Pow2[n - 1] <= x)
<1>1. Word \in Nat /\ x \in Nat /\ x >= 1 /\ Uint64 \in Nat
  BY WordSizes
<1>2. \A n \in 0 .. Word : Pow2[n] \in Nat
  BY Powers
<1>3. T \in SUBSET Nat /\ Word \in T
  BY <1>1 DEF Uint64
<1>4. PICK n \in T : \A y \in T : n <= y
  BY <1>3, LeastElement
<1>5. n \in 0 .. Word /\ Is(n)
  <2>1. ASSUME n > 0 PROVE Pow2[n - 1] <= x
    <3>1. n \in 1 .. Word /\ n - 1 \in 0 .. Word /\ ~(n <= n - 1)
      BY <2>1, <1>1
    <3>2. n - 1 \notin T
      BY <1>4, <3>1
    <3>3. ~(Pow2[n - 1] > x)
      BY <3>1, <3>2
    <3>4. Pow2[n - 1] \in Nat
      BY <1>2, <3>1
    <3> QED
      BY <1>1, <3>3, <3>4
  <2> QED
    BY <2>1
<1> DEFINE m == Len64(x)
<1>6. m \in 0 .. Word /\ Is(m)
  <2>1. m = CHOOSE k \in 0 .. Word : Is(k)
    BY DEF Len64
  <2> HIDE DEF Is, m
  <2> QED
    BY <1>5, <2>1
<1>7. m # 0
  BY <1>1, <1>6, Powers
<1> HIDE DEF m
<1>8. m \in 1 .. Word /\ m > 0
  BY <1>1, <1>6, <1>7
<1>9. m \in 1 .. Word /\ x < Pow2[m] /\ Pow2[m - 1] <= x
  <2>1. Pow2[m] > x /\ Pow2[m - 1] <= x
    BY <1>6, <1>8
  <2>2. Pow2[m] \in Nat
    BY <1>2, <1>6
  <2> QED
    BY <1>1, <1>8, <2>1, <2>2
<1> QED
  BY <1>9 DEF m

(* A number of m bits takes a group for every seven of them.               *)
LEMMA GroupsOfBits ==
    ASSUME NEW v \in Nat, NEW l, Left(l, v), NEW m \in 1 .. Word, v < Pow2[m],
           m > 1 => Pow2[m - 1] <= v,
           NEW n, n = (m + 6) \div 7
    PROVE  n \in 1 .. Groups /\ l[n] < 128 /\ \A k \in 1 .. n - 1 : l[k] >= 128
<1> DEFINE Good == {k \in 0 .. n : k # 0 =>
                       /\ l[k] < Pow2[m - 7 * (k - 1)]
                       /\ m > 1 => l[k] >= Pow2[m - 1 - 7 * (k - 1)]}
<1>1. n \in 1 .. Groups /\ n \in Nat /\ m \in Nat /\ 7 * (n - 1) <= m - 1 /\ m <= 7 * n
  BY WordSizes
<1>2. \A k \in 1 .. n : k \in 1 .. Groups /\ l[k] \in Nat
  BY <1>1, WordSizes DEF Left
<1>3. \A i \in 0 .. Word : Pow2[i] \in Nat
  BY Powers
<1>4. 0 \in Good
  BY <1>1
<1>5. ASSUME NEW k \in 1 .. n, k - 1 \in Good PROVE k \in Good
  <2>1. CASE k = 1
    <3>1. 7 * (k - 1) = 0 /\ m - 0 = m /\ m - 1 - 0 = m - 1 /\ k \in 0 .. n
      BY <2>1, <1>1
    <3>2. l[k] = v
      BY <2>1 DEF Left
    <3>3. m - 1 \in 0 .. Word /\ m > 1 => Pow2[m - 1] <= v
      BY <1>1
    <3>4. m > 1 => l[k] >= Pow2[m - 1]
      BY <1>1, <1>2, <1>3, <3>2, WordSizes
    <3> QED
      BY <3>1, <3>2, <3>4
  <2>2. CASE k # 1
    <3> DEFINE a == m - 7 * (k - 1)
               c == a - 1
    <3>1. /\ k - 1 \in 1 .. n /\ k - 1 # 0 /\ k \in 2 .. Groups /\ k \in 0 .. n
          /\ a \in Nat /\ a >= 1 /\ a + 7 <= Word /\ c \in Nat /\ c + 7 <= Word
          /\ m - 7 * ((k - 1) - 1) = a + 7 /\ m - 1 - 7 * ((k - 1) - 1) = c + 7
          /\ m - 1 - 7 * (k - 1) = c
          /\ m > 1
      BY <2>2, <1>1, WordSizes
    <3>2. l[k - 1] < Pow2[a + 7] /\ l[k - 1] >= Pow2[c + 7]
      BY <1>5, <3>1
    <3>3. l[k] = l[k - 1] \div 128 /\ l[k - 1] \in Nat /\ l[k] \in Nat
      BY <1>2, <3>1 DEF Left
    <3> HIDE DEF a, c
    <3>4. /\ Pow2[a + 7] = 128 * Pow2[a] /\ Pow2[a] \in Nat
          /\ Pow2[c + 7] = 128 * Pow2[c] /\ Pow2[c] \in Nat
      BY <3>1, SevenBits
    <3>5. l[k] < Pow2[a] /\ l[k] >= Pow2[c]
      <4> DEFINE x == l[k - 1]
                 y == l[k]
                 A == Pow2[a]
                 C == Pow2[c]
      <4>1. x \in Nat /\ A \in Nat /\ C \in Nat /\ y = x \div 128 /\ x < 128 * A /\ x >= 128 * C
        BY <3>2, <3>3, <3>4
      <4> HIDE DEF x, y, A, C
      <4>2. y < A /\ y >= C
        BY <4>1
      <4> QED
        BY <4>2 DEF x, y, A, C
    <3> QED
      BY <3>1, <3>5 DEF a, c
  <2> QED
    BY <2>1, <2>2
<1>6. \A k \in 1 .. n : k \in Good /\ k # 0
  <2>1. \A k \in 0 .. n : k \in Good
    <3> HIDE DEF Good
    <3> QED
      BY <1>1, <1>4, <1>5, Iterations
  <2>2. \A k \in 1 .. n : k \in 0 .. n /\ k # 0
    BY <1>1
  <2> QED
    BY <2>1, <2>2
<1>7. l[n] < 128
  <2> DEFINE a == m - 7 * (n - 1)
  <2>1. n \in 1 .. n /\ a \in 0 .. 7 /\ a \in 0 .. Word /\ 7 \in 0 .. Word /\ 7 \in a .. Word
    BY <1>1, WordSizes
  <2>2. l[n] < Pow2[a] /\ l[n] \in Nat
    BY <1>2, <1>6, <2>1
  <2> HIDE DEF a
  <2>3. Pow2[a] <= Pow2[7] /\ Pow2[a] \in Nat
    BY <1>3, <2>1, PowersGrow
  <2>4. Pow2[7] = 128
    <3>1. 0 \in Nat /\ 0 + 7 <= Word
      BY WordSizes
    <3> QED
      BY <3>1, SevenBits
  <2> QED
    BY <2>2, <2>3, <2>4
<1>8. ASSUME NEW k \in 1 .. n - 1 PROVE l[k] >= 128
  <2> DEFINE c == m - 1 - 7 * (k - 1)
  <2>1. k \in 1 .. n /\ m > 1 /\ c \in 7 .. Word /\ 7 \in 0 .. Word /\ c \in 0 .. Word
    BY <1>1, WordSizes
  <2>2. l[k] >= Pow2[c] /\ l[k] \in Nat
    BY <1>2, <1>6, <2>1
  <2> HIDE DEF c
  <2>3. Pow2[7] <= Pow2[c] /\ Pow2[c] \in Nat
    BY <1>3, <2>1, PowersGrow
  <2>4. Pow2[7] = 128
    <3>1. 0 \in Nat /\ 0 + 7 <= Word
      BY WordSizes
    <3> QED
      BY <3>1, SevenBits
  <2> QED
    BY <2>2, <2>3, <2>4
<1> QED
  BY <1>1, <1>7, <1>8

-----------------------------------------------------------------------------
(* What an encoder writes.                                                 *)

(* A varint of n bytes that starts the sequence s and means v.             *)
Spells(s, n, v) ==
    /\ s \in Seq(Byte) /\ n \in 1 .. Groups /\ n <= Len(s)
    /\ s[n] < 128 /\ \A k \in 1 .. n - 1 : s[k] >= 128
    /\ Value(s, 0, n) = v

LEMMA VarintsSpell ==
    ASSUME NEW v \in 0 .. Uint64 - 1
    PROVE  Sov(v) = Len(VarintBytes(v)) /\ Spells(VarintBytes(v), Sov(v), v)
<1> DEFINE x == IF v = 0 THEN 1 ELSE v
           m == Len64(x)
           n == (m + 6) \div 7
           s == VarintBytes(v)
<1>1. v \in Nat /\ x \in 1 .. Uint64 - 1 /\ v <= x /\ (x # v => x = 1)
  BY WordSizes
<1>2. PICK l : Left(l, v)
  BY <1>1, LeftExists
<1>3. m \in 1 .. Word /\ x < Pow2[m] /\ Pow2[m - 1] <= x
  <2> HIDE DEF x
  <2> QED
    BY <1>1, Bits
<1>4. v < Pow2[m] /\ (m > 1 => Pow2[m - 1] <= v)
  <2>1. m \in 0 .. Word /\ Word \in Nat
    BY <1>3, WordSizes
  <2>2. Pow2[m] \in Nat
    BY <2>1, Powers
  <2>3. m > 1 => Pow2[m - 1] >= 2
    <3> SUFFICES ASSUME m > 1 PROVE Pow2[m - 1] >= 2
      OBVIOUS
    <3> HIDE DEF m
    <3>1. 1 \in 1 .. Word /\ 1 \in 0 .. Word /\ 1 - 1 = 0 /\ m - 1 \in 1 .. Word /\ m - 1 \in 0 .. Word
      BY <1>3, WordSizes
    <3>2. Pow2[1] = 2
      BY <3>1, Powers
    <3>3. Pow2[1] <= Pow2[m - 1] /\ Pow2[m - 1] \in Nat
      BY <3>1, PowersGrow, Powers
    <3> QED
      BY <3>2, <3>3
  <2>4. m > 1 => Pow2[m - 1] \in Nat
    <3>1. m > 1 => m - 1 \in 0 .. Word
      BY <1>3, <2>1
    <3> QED
      BY <3>1, Powers
  <2> HIDE DEF m, x
  <2> QED
    BY <1>1, <1>3, <2>2, <2>3, <2>4
<1>5. n \in 1 .. Groups /\ l[n] < 128 /\ \A k \in 1 .. n - 1 : l[k] >= 128
  <2> HIDE DEF m
  <2> QED
    BY <1>1, <1>2, <1>3, <1>4, GroupsOfBits
<1>6. Sov(v) = n
  BY DEF Sov
<1> HIDE DEF x, m, n
<1>7. s = [k \in 1 .. n |-> IF k = n THEN l[k] ELSE 128 + (l[k] % 128)]
  BY <1>1, <1>2, <1>5, BytesFromLeft
<1>8. n \in Nat /\ n >= 1 /\ \A k \in 1 .. n : k \in 1 .. Groups /\ l[k] \in Nat
  BY <1>2, <1>5, WordSizes DEF Left
<1>9. \A k \in 1 .. n - 1 : k \in 1 .. n /\ k # n
  BY <1>8
<1>10. ASSUME NEW k \in 1 .. n
       PROVE  (IF k = n THEN l[k] ELSE 128 + (l[k] % 128)) \in Byte
  BY <1>5, <1>8 DEF Byte
<1>11. s \in Seq(Byte) /\ Len(s) = n
  BY <1>7, <1>8, <1>10
<1>12. s[n] = l[n] /\ \A k \in 1 .. n - 1 : s[k] = 128 + (l[k] % 128)
  <2>1. n \in 1 .. n
    BY <1>8
  <2> HIDE DEF s
  <2> QED
    BY <1>7, <1>9, <2>1
<1>13. s[n] < 128 /\ \A k \in 1 .. n - 1 : s[k] >= 128
  <2>1. \A k \in 1 .. n - 1 : l[k] \in Nat
    BY <1>8, <1>9
  <2> HIDE DEF s
  <2> QED
    BY <1>5, <1>12, <2>1
<1> DEFINE g == [k \in 0 .. n |-> IF k = n THEN 0 ELSE l[k + 1]]
<1>14. Reads(g, s, 0, n)
  <2>1. ASSUME NEW k \in 0 .. n PROVE (IF k = n THEN 0 ELSE l[k + 1]) \in Nat
    <3>1. k # n => k + 1 \in 1 .. n
      BY <1>8
    <3> QED
      BY <1>8, <3>1
  <2>2. g \in [0 .. n -> Nat] /\ g[n] = 0
    <3>1. n \in 0 .. n
      BY <1>8
    <3> QED
      BY <2>1, <3>1
  <2>3. ASSUME NEW k \in 0 .. n - 1 PROVE g[k] = (s[0 + k + 1] % 128) + 128 * g[k + 1]
    <3> DEFINE j == k + 1
    <3>1. k \in 0 .. n /\ k # n /\ j \in 0 .. n /\ j \in 1 .. n /\ 0 + k + 1 = j /\ j \in Nat
      BY <1>8
    <3>2. g[k] = l[j]
      BY <3>1
    <3>3. CASE j = n
      <4>1. g[j] = 0 /\ s[j] = l[j] /\ l[j] \in Nat /\ l[j] < 128
        BY <1>5, <1>8, <1>12, <3>1, <3>3
      <4> HIDE DEF g, s, j
      <4> QED
        BY <3>1, <3>2, <4>1 DEF j
    <3>4. CASE j # n
      <4> DEFINE i == j + 1
      <4>1. j \in 1 .. n - 1 /\ i \in 2 .. Groups /\ i - 1 = j /\ i \in 1 .. n
        BY <1>8, <3>1, <3>4
      <4>2. g[j] = l[i]
        BY <3>1, <3>4
      <4>3. s[j] = 128 + (l[j] % 128) /\ l[j] \in Nat
        BY <1>8, <1>12, <3>1, <4>1
      <4>4. l[i] = l[i - 1] \div 128
        BY <1>2, <4>1 DEF Left
      <4> HIDE DEF g, s, i, j
      <4>5. g[j] = l[j] \div 128
        BY <4>1, <4>2, <4>4
      <4>6. l[j] = (s[j] % 128) + 128 * g[j]
        BY <4>3, <4>5
      <4>7. s[0 + k + 1] = s[j] /\ g[k + 1] = g[j]
        BY <3>1 DEF j
      <4> QED
        BY <3>2, <4>6, <4>7
    <3> QED
      BY <3>3, <3>4
  <2> HIDE DEF g, s
  <2> QED
    BY <2>2, <2>3 DEF Reads
<1>15. g[0] = v
  <2>1. 0 \in 0 .. n /\ 0 # n /\ 0 + 1 = 1
    BY <1>8
  <2> HIDE DEF s
  <2> QED
    BY <1>2, <2>1 DEF Left
<1> HIDE DEF g, s
<1>16. Value(s, 0, n) = v
  <2>1. 0 \in Nat /\ 0 + n <= Len(s)
    BY <1>8, <1>11
  <2> QED
    BY <1>8, <1>11, <1>14, <1>15, <2>1, ValueIs
<1> QED
  BY <1>5, <1>6, <1>8, <1>11, <1>13, <1>16 DEF s, Spells

LEMMA FirstOfTwo ==
    ASSUME NEW S, NEW s \in Seq(S), Len(s) >= 1, NEW t \in Seq(S)
    PROVE  s \o t # <<>> /\ (s \o t)[1] = s[1]
<1>1. Len(s) \in Nat /\ Len(t) \in Nat /\ 1 \in 1 .. Len(s) + Len(t) /\ 1 <= Len(s)
  BY LenProperties
<1>2. Len(s \o t) = Len(s) + Len(t)
  BY ConcatProperties
<1>3. (s \o t)[1] = s[1]
  BY <1>1, ConcatProperties
<1>4. Len(s \o t) # 0 /\ Len(<<>>) = 0
  BY <1>1, <1>2
<1> QED
  BY <1>3, <1>4

LEMMA SplitsInOneWay ==
    ASSUME NEW S, NEW s \in Seq(S), NEW t \in Seq(S), NEW u \in Seq(S), NEW v \in Seq(S),
           Len(s) = Len(t), s \o u = t \o v
    PROVE  s = t /\ u = v
<1>1. /\ Len(s \o u) = Len(s) + Len(u) /\ Len(t \o v) = Len(t) + Len(v)
      /\ Len(s) \in Nat /\ Len(u) \in Nat /\ Len(v) \in Nat
  BY ConcatProperties, LenProperties
<1>2. ASSUME NEW k \in 1 .. Len(s) PROVE s[k] = t[k]
  <2>1. (s \o u)[k] = s[k] /\ (t \o v)[k] = t[k]
    OBVIOUS
  <2> QED
    BY <2>1
<1>3. ASSUME NEW k \in 1 .. Len(u) PROVE u[k] = v[k]
  <2> DEFINE i == Len(s) + k
  <2>1. i \in 1 .. Len(s) + Len(u) /\ i \in 1 .. Len(t) + Len(v) /\ ~(i <= Len(s)) /\ i - Len(s) = k
    BY <1>1
  <2> HIDE DEF i
  <2>2. (s \o u)[i] = u[i - Len(s)]
    BY <2>1, ConcatProperties
  <2>3. (t \o v)[i] = v[i - Len(t)]
    BY <2>1, ConcatProperties
  <2> QED
    BY <2>1, <2>2, <2>3
<1>4. Len(u) = Len(v)
  BY <1>1
<1>5. s = t
  <2>1. \A k \in 1 .. Len(s) : s[k] = t[k]
    BY <1>2
  <2> QED
    BY <2>1, SeqEqual, Zenon
<1>6. u = v
  <2>1. \A k \in 1 .. Len(u) : u[k] = v[k]
    BY <1>3
  <2> QED
    BY <1>4, <2>1, SeqEqual, Zenon
<1> QED
  BY <1>5, <1>6

LEMMA SpellsThen ==
    ASSUME NEW s, NEW n, NEW v, Spells(s, n, v), NEW t \in Seq(Byte)
    PROVE  Spells(s \o t, n, v)
<1>1. s \in Seq(Byte) /\ n \in Nat /\ n >= 1 /\ n <= Len(s) /\ 0 + n <= Len(s) /\ 0 \in Nat
  BY WordSizes DEF Spells
<1>2. s \o t \in Seq(Byte) /\ Len(s \o t) = Len(s) + Len(t) /\ Len(t) \in Nat /\ Len(s) \in Nat
  BY <1>1
<1>3. \A k \in 1 .. n : (s \o t)[k] = s[k] /\ 0 + k = k
  BY <1>1
<1>4. \A k \in 1 .. n : (s \o t)[0 + k] = s[0 + k]
  BY <1>3, Zenon
<1>5. 0 + n <= Len(s \o t)
  BY <1>1, <1>2
<1>6. Value(s \o t, 0, n) = Value(s, 0, n)
  <2>1. SameBytes(s, 0, s \o t, 0, n)
    BY <1>1, <1>2, <1>4, <1>5, Zenon DEF SameBytes
  <2> QED
    BY <2>1, ValueMoves
<1>7. n \in 1 .. n /\ \A k \in 1 .. n - 1 : k \in 1 .. n
  BY <1>1
<1> QED
  BY <1>1, <1>2, <1>3, <1>6, <1>7 DEF Spells

LEMMA SpellsOnce ==
    ASSUME NEW s, NEW n, NEW v, Spells(s, n, v), NEW m, NEW w, Spells(s, m, w)
    PROVE  n = m /\ v = w
<1>1. n \in Nat /\ m \in Nat /\ n >= 1 /\ m >= 1
  BY WordSizes DEF Spells
<1>2. \A k \in 1 .. Len(s) : s[k] \in Nat
  BY BytesAreNumbers DEF Spells
<1>3. n \in 1 .. Len(s) /\ m \in 1 .. Len(s)
  BY <1>1 DEF Spells
<1>4. ~(n < m)
  <2>1. n < m => n \in 1 .. m - 1
    BY <1>1
  <2> QED
    BY <1>2, <1>3, <2>1 DEF Spells
<1>5. ~(m < n)
  <2>1. m < n => m \in 1 .. n - 1
    BY <1>1
  <2> QED
    BY <1>2, <1>3, <2>1 DEF Spells
<1> QED
  BY <1>1, <1>4, <1>5 DEF Spells

LEMMA EncodedVarint ==
    ASSUME NEW v \in 0 .. Uint64 - 1, NEW rest \in Seq(Byte)
    PROVE  EncodeVarint(v, rest) = VarintBytes(v) \o rest
<1> DEFINE bytes == VarintBytes(v)
           n == Sov(v)
           zeros == [k \in 1 .. n |-> 0]
           room == zeros \o rest
<1>1. bytes \in Seq(Byte) /\ Len(bytes) = n /\ n \in Nat
  BY VarintsSpell, WordSizes DEF Spells
<1>2. EncodeVarint(v, rest) = [k \in DOMAIN room |-> IF k <= Len(bytes) THEN bytes[k] ELSE room[k]]
  BY DEF EncodeVarint, Overwritten
<1> HIDE DEF bytes, n
<1>3. zeros \in Seq(Byte) /\ Len(zeros) = n
  <2>1. 0 \in Byte
    BY DEF Byte
  <2> QED
    BY <1>1, <2>1
<1> HIDE DEF zeros
<1>4. room \in Seq(Byte) /\ Len(room) = n + Len(rest) /\ DOMAIN room = 1 .. n + Len(rest)
      /\ Len(rest) \in Nat
  BY <1>1, <1>3
<1>5. \A k \in 1 .. n + Len(rest) : k > n => room[k] = rest[k - n]
  BY <1>1, <1>3
<1>6. bytes \o rest \in Seq(Byte) /\ Len(bytes \o rest) = n + Len(rest)
  BY <1>1
<1>7. \A k \in 1 .. n + Len(rest) :
        (bytes \o rest)[k] = IF k <= n THEN bytes[k] ELSE rest[k - n]
  BY <1>1
<1> HIDE DEF room
<1> DEFINE e == [k \in 1 .. n + Len(rest) |-> IF k <= n THEN bytes[k] ELSE room[k]]
<1>8. EncodeVarint(v, rest) = e
  BY <1>1, <1>2, <1>4
<1>9. \A k \in 1 .. n + Len(rest) : e[k] = (bytes \o rest)[k]
  BY <1>1, <1>4, <1>5, <1>7
<1>10. e \in Seq(Byte) /\ Len(e) = n + Len(rest)
  <2>1. \A k \in 1 .. n + Len(rest) : (bytes \o rest)[k] \in Byte
    BY <1>6
  <2>2. n + Len(rest) \in Nat
    BY <1>1, <1>4
  <2>3. \A k \in 1 .. n + Len(rest) : (IF k <= n THEN bytes[k] ELSE room[k]) \in Byte
    BY <1>9, <2>1
  <2> QED
    BY <2>2, <2>3
<1> HIDE DEF e
<1>11. e = bytes \o rest
  BY <1>6, <1>9, <1>10, SeqEqual
<1> QED
  BY <1>8, <1>11 DEF bytes

(* What a message may hold: its length is an int.                          *)
Content == {s \in Seq(Byte) : Len(s) < Half}

LEMMA PutBytes ==
    ASSUME NEW num \in 1 .. Foreign, NEW s \in Content
    PROVE  /\ Put(num, s) = <<num * 8 + 2>> \o (VarintBytes(Len(s)) \o s)
           /\ Put(num, s) \in Seq(Byte) /\ Len(Put(num, s)) = FieldSize(Len(s))
<1>1. s \in Seq(Byte) /\ Len(s) \in Nat /\ Len(s) \in 0 .. Uint64 - 1
  BY WordSizes DEF Content
<1>2. num * 8 + 2 \in Byte
  BY DEF Foreign, Byte
<1> DEFINE v == VarintBytes(Len(s))
<1>3. v \in Seq(Byte) /\ Len(v) = Sov(Len(s)) /\ Len(v) \in Nat
  BY <1>1, VarintsSpell DEF Spells
<1>4. Put(num, s) = <<num * 8 + 2>> \o (v \o s)
  BY <1>1, EncodedVarint DEF Put
<1> HIDE DEF v
<1>5. v \o s \in Seq(Byte) /\ Len(v \o s) = Len(v) + Len(s)
  BY <1>1, <1>3
<1>6. <<num * 8 + 2>> \in Seq(Byte) /\ Len(<<num * 8 + 2>>) = 1
  BY <1>2
<1>7. <<num * 8 + 2>> \o (v \o s) \in Seq(Byte)
      /\ Len(<<num * 8 + 2>> \o (v \o s)) = 1 + (Len(v) + Len(s))
  BY <1>5, <1>6
<1> QED
  BY <1>1, <1>3, <1>4, <1>7 DEF FieldSize, v

-----------------------------------------------------------------------------
(* The parameters as bytes.                                                *)

ParamNames == {"sysnames_pkgpath", "chain_domain", "default_deposit", "storage_price",
               "storage_fee_collector"}
ParamValues == [ParamNames -> Content]

LEMMA ParamsTable ==
    /\ DOMAIN Fields["Params"] = 1 .. 5
    /\ \A num \in 1 .. 5 : /\ Fields["Params"][num].type = "text"
                           /\ Fields["Params"][num].name \in ParamNames
    /\ FieldNames("Params") = ParamNames
    /\ New("Params") = [n \in ParamNames |-> <<>>]
<1>1. Fields["Params"] = ParamsFields
  BY DEF Fields
<1>2. /\ DOMAIN ParamsFields = 1 .. 5
      /\ ParamsFields[1] = Text("sysnames_pkgpath")
      /\ ParamsFields[2] = Text("chain_domain")
      /\ ParamsFields[3] = Text("default_deposit")
      /\ ParamsFields[4] = Text("storage_price")
      /\ ParamsFields[5] = Text("storage_fee_collector")
  BY DEF ParamsFields
<1>3. \A n : Text(n).type = "text" /\ Text(n).name = n
  BY DEF Text
<1>4. 1 .. 5 = {1, 2, 3, 4, 5}
  OBVIOUS
<1>5. \A num \in 1 .. 5 : ParamsFields[num].type = "text" /\ ParamsFields[num].name \in ParamNames
  BY <1>2, <1>3, <1>4 DEF ParamNames
<1>6. FieldNames("Params") = ParamNames
  <2>1. FieldNames("Params") = {ParamsFields[i].name : i \in 1 .. 5}
    BY <1>1, <1>2 DEF FieldNames, ToSet
  <2> QED
    BY <1>2, <1>3, <1>4, <2>1 DEF ParamNames
<1>7. \A n \in ParamNames : Zero(CHOOSE f \in ToSet(Fields["Params"]) : f.name = n) = <<>>
  <2> SUFFICES ASSUME NEW n \in ParamNames
               PROVE  Zero(CHOOSE f \in ToSet(Fields["Params"]) : f.name = n) = <<>>
    OBVIOUS
  <2> DEFINE g == CHOOSE f \in ToSet(Fields["Params"]) : f.name = n
  <2>1. \E f \in ToSet(Fields["Params"]) : f.name = n
    BY <1>6 DEF FieldNames
  <2>2. g \in ToSet(Fields["Params"])
    BY <2>1
  <2>3. \A f \in ToSet(Fields["Params"]) : f.type = "text"
    BY <1>1, <1>2, <1>5 DEF ToSet
  <2> HIDE DEF g
  <2>4. Zero(g) = <<>>
    BY <2>2, <2>3 DEF Zero
  <2> QED
    BY <2>4 DEF g
<1>8. New("Params") = [n \in ParamNames |-> <<>>]
  BY <1>6, <1>7 DEF New
<1> QED
  BY <1>1, <1>2, <1>5, <1>6, <1>8

LEMMA TextBytes ==
    ASSUME NEW num \in 1 .. Foreign, NEW s \in Content
    PROVE  PutText(num, s) \in Seq(Byte) /\ Len(PutText(num, s)) = TextSize(s)
           /\ TextSize(s) \in Nat
<1>1. s \in Seq(Byte) /\ Len(s) \in Nat /\ (s = <<>> <=> Len(s) = 0)
  BY EmptySeq, LenProperties DEF Content
<1>2. CASE s = <<>>
  BY <1>1, <1>2 DEF PutText, TextSize
<1>3. CASE s # <<>>
  <2>1. PutText(num, s) = Put(num, s) /\ TextSize(s) = FieldSize(Len(s))
    BY <1>1, <1>3 DEF PutText, TextSize
  <2>2. Put(num, s) \in Seq(Byte) /\ Len(Put(num, s)) = FieldSize(Len(s))
    BY PutBytes
  <2>3. Len(Put(num, s)) \in Nat
    BY <2>2
  <2> QED
    BY <2>1, <2>2, <2>3
<1> QED
  BY <1>2, <1>3

(* What follows the field num begins with the tag of a later one.          *)
After(num, u) == u \in Seq(Byte) /\ (u # <<>> => u[1] > num * 8 + 2)

LEMMA TextThen ==
    ASSUME NEW num \in 1 .. Foreign, NEW s \in Content, NEW u \in Seq(Byte)
    PROVE  \/ s = <<>> /\ PutText(num, s) \o u = u
           \/ /\ s # <<>>
              /\ PutText(num, s) \o u = <<num * 8 + 2>> \o (VarintBytes(Len(s)) \o (s \o u))
<1>1. s \in Seq(Byte) /\ Len(s) \in 0 .. Uint64 - 1
  BY WordSizes DEF Content
<1>2. CASE s = <<>>
  BY <1>2, ConcatEmptySeq DEF PutText
<1>3. CASE s # <<>>
  <2> DEFINE v == VarintBytes(Len(s))
             tag == <<num * 8 + 2>>
  <2>1. PutText(num, s) = tag \o (v \o s)
    BY <1>3, PutBytes DEF PutText
  <2>2. v \in Seq(Byte) /\ tag \in Seq(Byte)
    BY <1>1, VarintsSpell DEF Spells, Foreign, Byte
  <2> HIDE DEF v, tag
  <2> DEFINE vs == v \o s
  <2>3. vs \in Seq(Byte)
    BY <1>1, <2>2, ConcatProperties
  <2>5. vs \o u = v \o (s \o u)
    BY <1>1, <2>2, ConcatAssociative, SMTT(30)
  <2> HIDE DEF vs
  <2>4. (tag \o vs) \o u = tag \o (vs \o u)
    BY <2>2, <2>3, ConcatAssociative, SMTT(30)
  <2> QED
    BY <1>3, <2>1, <2>4, <2>5 DEF v, tag, vs
<1> QED
  BY <1>2, <1>3

SameText(num, s, u, t, v) ==
    /\ num \in 1 .. Foreign /\ s \in Content /\ t \in Content
    /\ After(num, u) /\ After(num, v)
    /\ PutText(num, s) \o u = PutText(num, t) \o v

LEMMA TextSplits ==
    ASSUME NEW num, NEW s, NEW u, NEW t, NEW v, SameText(num, s, u, t, v)
    PROVE  s = t /\ u = v
<1> DEFINE tag == <<num * 8 + 2>>
           x == VarintBytes(Len(s))
           y == VarintBytes(Len(t))
<1>0. /\ num \in 1 .. Foreign /\ s \in Content /\ t \in Content
      /\ After(num, u) /\ After(num, v)
      /\ PutText(num, s) \o u = PutText(num, t) \o v
  BY DEF SameText
<1>1. u \in Seq(Byte) /\ v \in Seq(Byte) /\ s \in Seq(Byte) /\ t \in Seq(Byte)
  BY <1>0 DEF After, Content
<1>2. /\ Len(s) \in 0 .. Uint64 - 1 /\ Len(t) \in 0 .. Uint64 - 1
      /\ tag \in Seq(Byte) /\ Len(tag) = 1 /\ tag[1] = num * 8 + 2 /\ num * 8 + 2 \in Nat
  BY <1>0, <1>1, WordSizes DEF Content, Foreign, Byte
<1>3. x \in Seq(Byte) /\ y \in Seq(Byte)
  BY <1>2, VarintsSpell DEF Spells
<1>4. s \o u \in Seq(Byte) /\ t \o v \in Seq(Byte)
  BY <1>1, ConcatProperties
<1> HIDE DEF x, y, tag
<1>5. x \o (s \o u) \in Seq(Byte) /\ y \o (t \o v) \in Seq(Byte)
  BY <1>3, <1>4, ConcatProperties
<1>6. \A z \in Seq(Byte) : tag \o z # <<>> /\ (tag \o z)[1] = num * 8 + 2
  <2> SUFFICES ASSUME NEW z \in Seq(Byte) PROVE tag \o z # <<>> /\ (tag \o z)[1] = num * 8 + 2
    OBVIOUS
  <2>0. tag \in Seq(Byte) /\ Len(tag) >= 1
    BY <1>2
  <2>1. tag \o z # <<>> /\ (tag \o z)[1] = tag[1]
    BY <2>0, FirstOfTwo
  <2> QED
    BY <1>2, <2>1
<1>7. \A w : After(num, w) => \A z \in Seq(Byte) : w # tag \o z
  BY <1>2, <1>6 DEF After
<1>8. \/ s = <<>> /\ PutText(num, s) \o u = u
      \/ s # <<>> /\ PutText(num, s) \o u = tag \o (x \o (s \o u))
  BY <1>0, <1>1, TextThen DEF x, tag
<1>9. \/ t = <<>> /\ PutText(num, t) \o v = v
      \/ t # <<>> /\ PutText(num, t) \o v = tag \o (y \o (t \o v))
  BY <1>0, <1>1, TextThen DEF y, tag
<1>10. CASE s = <<>> \/ t = <<>>
  BY <1>0, <1>5, <1>7, <1>8, <1>9, <1>10
<1>11. CASE s # <<>> /\ t # <<>>
  <2>1. tag \o (x \o (s \o u)) = tag \o (y \o (t \o v))
    BY <1>0, <1>8, <1>9, <1>11
  <2>2. x \o (s \o u) = y \o (t \o v)
    BY <1>2, <1>5, <2>1, SplitsInOneWay
  <2>3. Spells(x \o (s \o u), Sov(Len(s)), Len(s))
    BY <1>2, <1>4, VarintsSpell, SpellsThen DEF x
  <2>4. Spells(y \o (t \o v), Sov(Len(t)), Len(t))
    BY <1>2, <1>4, VarintsSpell, SpellsThen DEF y
  <2>5. Len(s) = Len(t)
    BY <2>2, <2>3, <2>4, SpellsOnce
  <2>6. x = y
    BY <2>5 DEF x, y
  <2>7. s \o u = t \o v
    BY <1>3, <1>4, <2>2, <2>6, SplitsInOneWay
  <2> QED
    BY <1>1, <2>5, <2>7, SplitsInOneWay
<1> QED
  BY <1>10, <1>11

LEMMA AfterText ==
    ASSUME NEW num \in 1 .. Foreign - 1, NEW s \in Content, NEW u, After(num + 1, u)
    PROVE  After(num, PutText(num + 1, s) \o u)
<1> DEFINE next == num + 1
           tag == <<next * 8 + 2>>
           rest == VarintBytes(Len(s)) \o (s \o u)
           all == PutText(next, s) \o u
<1>1. num \in Nat /\ next \in 1 .. Foreign /\ next * 8 + 2 > num * 8 + 2 /\ next * 8 + 2 \in Byte
      /\ next * 8 + 2 \in Nat
  BY DEF Foreign, Byte
<1>2. u \in Seq(Byte) /\ s \in Seq(Byte) /\ Len(s) \in 0 .. Uint64 - 1
      /\ (u # <<>> => u[1] > next * 8 + 2)
  BY WordSizes DEF After, Content
<1>3. rest \in Seq(Byte) /\ tag \in Seq(Byte) /\ Len(tag) = 1 /\ tag[1] = next * 8 + 2
  <2>1. VarintBytes(Len(s)) \in Seq(Byte)
    BY <1>2, VarintsSpell DEF Spells
  <2>2. s \o u \in Seq(Byte)
    BY <1>2, ConcatProperties
  <2> QED
    BY <1>1, <2>1, <2>2, ConcatProperties
<1> HIDE DEF next
<1>4. all \in Seq(Byte)
  BY <1>1, <1>2, TextBytes, ConcatProperties
<1>5. all = u \/ all = tag \o rest
  BY <1>1, <1>2, TextThen
<1> HIDE DEF all, rest, tag
<1>6. CASE all = u
  <2> SUFFICES ASSUME u # <<>> PROVE u[1] > num * 8 + 2
    BY <1>4, <1>6 DEF After, all, next
  <2>1. 1 \in 1 .. Len(u)
    BY <1>2, EmptySeq
  <2>2. u[1] \in Nat
    <3>1. u[1] \in Byte
      BY <1>2, <2>1, ElementOfSeq
    <3> QED
      BY <3>1, BytesAreNumbers
  <2> QED
    BY <1>1, <1>2, <2>2
<1>7. CASE all = tag \o rest
  <2>1. tag \in Seq(Byte) /\ Len(tag) >= 1 /\ rest \in Seq(Byte)
    BY <1>3
  <2>2. (tag \o rest)[1] = tag[1]
    BY <2>1, FirstOfTwo
  <2>3. all[1] > num * 8 + 2
    BY <1>1, <1>3, <1>7, <2>2
  <2> QED
    BY <1>4, <2>3 DEF After, all, next
<1> QED
  BY <1>5, <1>6, <1>7

(* The bytes of the parameters, from the first on.                         *)
From5(m) == PutText(5, m.storage_fee_collector) \o <<>>
From4(m) == PutText(4, m.storage_price) \o From5(m)
From3(m) == PutText(3, m.default_deposit) \o From4(m)
From2(m) == PutText(2, m.chain_domain) \o From3(m)

LEMMA ParamsInOrder ==
    ASSUME NEW m \in ParamValues
    PROVE  /\ After(5, <<>>) /\ After(4, From5(m)) /\ After(3, From4(m)) /\ After(2, From3(m))
           /\ After(1, From2(m))
           /\ ParamsBytes(m) = PutText(1, m.sysnames_pkgpath) \o From2(m)
<1>1. /\ m.sysnames_pkgpath \in Content /\ m.chain_domain \in Content
      /\ m.default_deposit \in Content /\ m.storage_price \in Content
      /\ m.storage_fee_collector \in Content
  BY DEF ParamValues, ParamNames
<1>2. After(5, <<>>)
  BY EmptySeq DEF After
<1>3. /\ {1, 2, 3, 4} \subseteq 1 .. Foreign - 1 /\ {1, 2, 3, 4, 5} \subseteq 1 .. Foreign
      /\ 1 + 1 = 2 /\ 2 + 1 = 3 /\ 3 + 1 = 4 /\ 4 + 1 = 5
  BY DEF Foreign
<1>4. After(4, From5(m))
  <2>1. After(4 + 1, <<>>) /\ 4 \in 1 .. Foreign - 1
    BY <1>2, <1>3
  <2>2. After(4, PutText(4 + 1, m.storage_fee_collector) \o <<>>)
    BY <1>1, <2>1, AfterText
  <2> QED
    BY <1>3, <2>2 DEF From5
<1>5. After(3, From4(m))
  <2>1. After(3 + 1, From5(m)) /\ 3 \in 1 .. Foreign - 1
    BY <1>3, <1>4
  <2>2. After(3, PutText(3 + 1, m.storage_price) \o From5(m))
    BY <1>1, <2>1, AfterText
  <2> QED
    BY <1>3, <2>2 DEF From4
<1>6. After(2, From3(m))
  <2>1. After(2 + 1, From4(m)) /\ 2 \in 1 .. Foreign - 1
    BY <1>3, <1>5
  <2>2. After(2, PutText(2 + 1, m.default_deposit) \o From4(m))
    BY <1>1, <2>1, AfterText
  <2> QED
    BY <1>3, <2>2 DEF From3
<1>7. After(1, From2(m))
  <2>1. After(1 + 1, From3(m)) /\ 1 \in 1 .. Foreign - 1
    BY <1>3, <1>6
  <2>2. After(1, PutText(1 + 1, m.chain_domain) \o From3(m))
    BY <1>1, <2>1, AfterText
  <2> QED
    BY <1>3, <2>2 DEF From2
<1> DEFINE a == PutText(1, m.sysnames_pkgpath)
           b == PutText(2, m.chain_domain)
           c == PutText(3, m.default_deposit)
           d == PutText(4, m.storage_price)
           e == PutText(5, m.storage_fee_collector)
<1>8. a \in Seq(Byte) /\ b \in Seq(Byte) /\ c \in Seq(Byte) /\ d \in Seq(Byte) /\ e \in Seq(Byte)
  BY <1>1, <1>3, TextBytes
<1>9. /\ From5(m) = e \o <<>> /\ From4(m) = d \o From5(m)
      /\ From3(m) = c \o From4(m) /\ From2(m) = b \o From3(m)
  BY DEF From5, From4, From3, From2
<1> DEFINE ab == a \o b
           abc == ab \o c
           abcd == abc \o d
           de == d \o e
           cde == c \o de
<1>10. ParamsBytes(m) = abcd \o e
  BY DEF ParamsBytes
<1> HIDE DEF a, b, c, d, e
<1>11. From5(m) = e /\ From4(m) = de /\ From3(m) = cde /\ From2(m) = b \o cde
  BY <1>8, <1>9, ConcatEmptySeq
<1>12. ab \in Seq(Byte) /\ de \in Seq(Byte)
  BY <1>8, ConcatProperties
<1> HIDE DEF de
<1>13. cde \in Seq(Byte)
  BY <1>8, <1>12, ConcatProperties
<1> HIDE DEF cde
<1>14. ab \o cde = a \o (b \o cde)
  BY <1>8, <1>13, ConcatAssociative, SMTT(30)
<1> HIDE DEF ab
<1>15. abc \in Seq(Byte)
  BY <1>8, <1>12, ConcatProperties
<1>16. abc \o de = ab \o (c \o de)
  <2>1. c \in Seq(Byte)
    BY <1>8
  <2> QED
    BY <1>12, <2>1, ConcatAssociative, SMTT(30)
<1> HIDE DEF abc
<1>17. abcd \o e = abc \o (d \o e)
  <2>1. d \in Seq(Byte) /\ e \in Seq(Byte)
    BY <1>8
  <2> QED
    BY <1>15, <2>1, ConcatAssociative
<1>18. ParamsBytes(m) = a \o From2(m)
  BY <1>10, <1>11, <1>14, <1>16, <1>17 DEF cde, de
<1> QED
  BY <1>2, <1>4, <1>5, <1>6, <1>7, <1>18 DEF a

(* The size that is computed is the length that is written.                *)
LEMMA MarshalledWhole ==
    ASSUME NEW s \in Seq(Byte), NEW size, size = Len(s)
    PROVE  Marshalled(s, size) = Done(s)
<1>1. size \in Nat /\ [k \in 1 .. size - Len(s) |-> 0] = <<>>
  OBVIOUS
<1>2. Marshalled(s, size) = Done(SubSeq(<<>> \o s, 1, Len(s)))
  BY <1>1 DEF Marshalled
<1> QED
  BY <1>2, ConcatEmptySeq, SubSeqFull

LEMMA ParamsAreMarshalled ==
    ASSUME NEW m \in ParamValues
    PROVE  Marshal("Params", m) = Done(ParamsBytes(m))
<1>1. /\ m.sysnames_pkgpath \in Content /\ m.chain_domain \in Content
      /\ m.default_deposit \in Content /\ m.storage_price \in Content
      /\ m.storage_fee_collector \in Content
  BY DEF ParamValues, ParamNames
<1> DEFINE a == PutText(1, m.sysnames_pkgpath)
           b == PutText(2, m.chain_domain)
           c == PutText(3, m.default_deposit)
           d == PutText(4, m.storage_price)
           e == PutText(5, m.storage_fee_collector)
<1>2. /\ a \in Seq(Byte) /\ Len(a) = TextSize(m.sysnames_pkgpath)
      /\ b \in Seq(Byte) /\ Len(b) = TextSize(m.chain_domain)
      /\ c \in Seq(Byte) /\ Len(c) = TextSize(m.default_deposit)
      /\ d \in Seq(Byte) /\ Len(d) = TextSize(m.storage_price)
      /\ e \in Seq(Byte) /\ Len(e) = TextSize(m.storage_fee_collector)
  <2>1. {1, 2, 3, 4, 5} \subseteq 1 .. Foreign
    BY DEF Foreign
  <2> QED
    BY <1>1, <2>1, TextBytes
<1> DEFINE bytes == ParamsBytes(m)
           size == ParamsSize(m)
           ab == a \o b
           abc == ab \o c
           abcd == abc \o d
<1>3. bytes = abcd \o e
  BY DEF ParamsBytes
<1>4. size = Len(a) + Len(b) + Len(c) + Len(d) + Len(e)
  BY <1>2 DEF ParamsSize
<1> HIDE DEF a, b, c, d, e
<1>5. ab \in Seq(Byte) /\ Len(ab) = Len(a) + Len(b)
  BY <1>2, ConcatProperties
<1> HIDE DEF ab
<1>6. abc \in Seq(Byte) /\ Len(abc) = Len(ab) + Len(c)
  BY <1>2, <1>5, ConcatProperties
<1> HIDE DEF abc
<1>7. abcd \in Seq(Byte) /\ Len(abcd) = Len(abc) + Len(d)
  BY <1>2, <1>6, ConcatProperties
<1> HIDE DEF abcd
<1>8. bytes \in Seq(Byte) /\ Len(bytes) = size /\ size \in Nat
  <2>1. bytes \in Seq(Byte) /\ Len(bytes) = Len(abcd) + Len(e)
    BY <1>2, <1>3, <1>7, ConcatProperties, ZenonT(60)
  <2>2. Len(bytes) \in Nat
    BY <2>1, LenProperties
  <2> QED
    BY <1>4, <1>5, <1>6, <1>7, <2>1, <2>2
<1>9. Marshal("Params", m) = Marshalled(bytes, size)
  BY DEF Marshal, BytesOf, SizeOf
<1> HIDE DEF bytes, size
<1>10. Marshalled(bytes, size) = Done(bytes)
  BY <1>8, MarshalledWhole
<1> QED
  BY <1>9, <1>10 DEF bytes

LEMMA ParamsDiffer ==
    ASSUME NEW p \in ParamValues, NEW q \in ParamValues
    PROVE  ParamsEqual(p, q) <=> Marshal("Params", p) = Marshal("Params", q)
<1>1. /\ p.sysnames_pkgpath \in Content /\ p.chain_domain \in Content
      /\ p.default_deposit \in Content /\ p.storage_price \in Content
      /\ p.storage_fee_collector \in Content
      /\ q.sysnames_pkgpath \in Content /\ q.chain_domain \in Content
      /\ q.default_deposit \in Content /\ q.storage_price \in Content
      /\ q.storage_fee_collector \in Content
  BY DEF ParamValues, ParamNames
<1>2. Marshal("Params", p) = Done(ParamsBytes(p)) /\ Marshal("Params", q) = Done(ParamsBytes(q))
  BY ParamsAreMarshalled
<1>3. ASSUME ParamsEqual(p, q) PROVE ParamsBytes(p) = ParamsBytes(q)
  BY <1>3 DEF ParamsEqual, ParamsBytes
<1>4. ASSUME Marshal("Params", p) = Marshal("Params", q) PROVE ParamsEqual(p, q)
  <2>1. ParamsBytes(p) = ParamsBytes(q)
    <3>1. Done(ParamsBytes(p)).msg = Done(ParamsBytes(q)).msg
      BY <1>2, <1>4
    <3> QED
      BY <3>1 DEF Done
  <2>2. /\ 1 \in 1 .. Foreign /\ 2 \in 1 .. Foreign /\ 3 \in 1 .. Foreign
        /\ 4 \in 1 .. Foreign /\ 5 \in 1 .. Foreign
    BY DEF Foreign
  <2>3. p.sysnames_pkgpath = q.sysnames_pkgpath /\ From2(p) = From2(q)
    <3> DEFINE s == p.sysnames_pkgpath
               t == q.sysnames_pkgpath
               u == From2(p)
               v == From2(q)
               num == 1
    <3>1. num \in 1 .. Foreign /\ s \in Content /\ t \in Content /\ After(num, u) /\ After(num, v)
      BY <1>1, <2>2, ParamsInOrder
    <3>2. PutText(num, s) \o u = PutText(num, t) \o v
      BY <2>1, ParamsInOrder
    <3>3. SameText(num, s, u, t, v)
      BY <3>1, <3>2 DEF SameText
    <3>4. s = t /\ u = v
      BY <3>3, TextSplits
    <3> QED
      BY <3>4
  <2>4. p.chain_domain = q.chain_domain /\ From3(p) = From3(q)
    <3> DEFINE s == p.chain_domain
               t == q.chain_domain
               u == From3(p)
               v == From3(q)
               num == 2
    <3>1. num \in 1 .. Foreign /\ s \in Content /\ t \in Content /\ After(num, u) /\ After(num, v)
      BY <1>1, <2>2, ParamsInOrder
    <3>2. PutText(num, s) \o u = PutText(num, t) \o v
      BY <2>3 DEF From2
    <3>3. SameText(num, s, u, t, v)
      BY <3>1, <3>2 DEF SameText
    <3>4. s = t /\ u = v
      BY <3>3, TextSplits
    <3> QED
      BY <3>4
  <2>5. p.default_deposit = q.default_deposit /\ From4(p) = From4(q)
    <3> DEFINE s == p.default_deposit
               t == q.default_deposit
               u == From4(p)
               v == From4(q)
               num == 3
    <3>1. num \in 1 .. Foreign /\ s \in Content /\ t \in Content /\ After(num, u) /\ After(num, v)
      BY <1>1, <2>2, ParamsInOrder
    <3>2. PutText(num, s) \o u = PutText(num, t) \o v
      BY <2>4 DEF From3
    <3>3. SameText(num, s, u, t, v)
      BY <3>1, <3>2 DEF SameText
    <3>4. s = t /\ u = v
      BY <3>3, TextSplits
    <3> QED
      BY <3>4
  <2>6. p.storage_price = q.storage_price /\ From5(p) = From5(q)
    <3> DEFINE s == p.storage_price
               t == q.storage_price
               u == From5(p)
               v == From5(q)
               num == 4
    <3>1. num \in 1 .. Foreign /\ s \in Content /\ t \in Content /\ After(num, u) /\ After(num, v)
      BY <1>1, <2>2, ParamsInOrder
    <3>2. PutText(num, s) \o u = PutText(num, t) \o v
      BY <2>5 DEF From4
    <3>3. SameText(num, s, u, t, v)
      BY <3>1, <3>2 DEF SameText
    <3>4. s = t /\ u = v
      BY <3>3, TextSplits
    <3> QED
      BY <3>4
  <2>7. p.storage_fee_collector = q.storage_fee_collector
    <3>1. PutText(5, p.storage_fee_collector) \o <<>> = PutText(5, q.storage_fee_collector) \o <<>>
      BY <2>6 DEF From5
    <3>2. SameText(5, p.storage_fee_collector, <<>>, q.storage_fee_collector, <<>>)
      BY <1>1, <2>2, <3>1, ParamsInOrder DEF SameText
    <3> QED
      BY <3>2, TextSplits
  <2> QED
    BY <2>3, <2>4, <2>5, <2>6, <2>7 DEF ParamsEqual
<1> QED
  BY <1>2, <1>3, <1>4

(* Parameters the sender said are typed, and are what is compared.         *)
ParamsHeld ==
    kind = "Params" =>
        /\ Ok(expect) => expect.msg \in ParamValues
        /\ \A n \in DOMAIN seen : seen[n] \in ParamValues

LEMMA TextsFit == Texts \subseteq Content
<1>1. Byte = 0 .. 255
  BY DEF Byte
<1> SUFFICES ASSUME NEW s \in Texts PROVE s \in Content
  OBVIOUS
<1>2. s \in Seq(Byte) /\ Len(s) + 1 + Groups < Half
  BY <1>1, SenderAssumption
<1>3. Len(s) \in Nat
  BY <1>2
<1> QED
  BY <1>2, <1>3, WordSizes DEF Content

LEMMA ParamsHeldAtFirst == Init => ParamsHeld
<1> SUFFICES ASSUME Init, kind = "Params"
             PROVE  /\ Ok(expect) => expect.msg \in ParamValues
                    /\ \A n \in DOMAIN seen : seen[n] \in ParamValues
  BY DEF ParamsHeld
<1>1. New("Params") \in ParamValues
  <2>1. <<>> \in Content
    BY WordSizes, EmptySeq DEF Content
  <2> QED
    BY <2>1, ParamsTable DEF ParamValues
<1>2. expect = Done(New("Params")) /\ seen = [n \in {0} |-> New("Params")]
  BY DEF Init
<1>3. expect.msg = New("Params")
  BY <1>2 DEF Done
<1>4. \A n \in DOMAIN seen : seen[n] = New("Params")
  BY <1>2
<1> QED
  BY <1>1, <1>3, <1>4

(* What SendField sends for a value v of the field f: the count behind the  *)
(* tag, and what is behind the count.                                      *)
WireOf(f)     == IF f.type = "uint" THEN 0 ELSE 2
CountOf(f, v) == IF f.type = "uint" THEN v ELSE Len(Body(f, v))
BodyOf(f, v)  == IF f.type = "uint" THEN <<>> ELSE Body(f, v)
Heads(f, num, v) ==
    {Plain(num, WireOf(f), CountOf(f, v))} \cup Odd(num, WireOf(f), CountOf(f, v))
Result(f, v) ==
    IF NoNumber(f, v) THEN Failed("NotANumber")
    ELSE Done([expect.msg EXCEPT ![f.name] = Meant(f, @, Says(f, v))])

LEMMA FieldIsSent ==
    ASSUME NEW num, NEW v, SendField(num, v), NEW f, f = Fields[kind][num]
    PROVE  /\ Open
           /\ \E head \in Heads(f, num, v) : Arrives(head \o BodyOf(f, v), Result(f, v))
<1> DEFINE Sent(wt, count, body) ==
        /\ Open
        /\ \E head \in {Plain(num, wt, count)} \cup Odd(num, wt, count) :
              Arrives(head \o body, Result(f, v))
<1>1. \A wt, count, body : Sends(num, wt, count, body, Result(f, v)) => Sent(wt, count, body)
  BY DEF Sends
<1>2. Sent(WireOf(f), CountOf(f, v), BodyOf(f, v))
  <2> HIDE DEF Sent
  <2>1. CASE f.type = "uint"
    <3>1. Sends(num, 0, v, <<>>, Result(f, v))
      BY <2>1 DEF SendField, Result
    <3> QED
      BY <1>1, <2>1, <3>1 DEF WireOf, CountOf, BodyOf
  <2>2. CASE f.type # "uint"
    <3>1. SendsData(num, Body(f, v), Result(f, v))
      BY <2>2 DEF SendField, Result
    <3>2. Sends(num, 2, Len(Body(f, v)), Body(f, v), Result(f, v))
      BY <3>1 DEF SendsData
    <3> QED
      BY <1>1, <2>2, <3>2 DEF WireOf, CountOf, BodyOf
  <2> QED
    BY <2>1, <2>2
<1> QED
  BY <1>2 DEF Heads

LEMMA ParamsStayHeld == ParamsHeld /\ [Next]_vars => ParamsHeld'
<1> SUFFICES ASSUME ParamsHeld, [Next]_vars, kind' = "Params"
             PROVE  /\ Ok(expect') => expect'.msg \in ParamValues
                    /\ \A n \in DOMAIN seen' : seen'[n] \in ParamValues
  BY DEF ParamsHeld, Ok
<1> DEFINE Typed(r) == Ok(r) => r.msg \in ParamValues
<1>1. kind = "Params"
  <2>1. \A bytes, result : Arrives(bytes, result) => kind' = kind
    BY DEF Arrives
  <2>2. \A num, v : SendField(num, v) => kind' = kind
    BY <2>1, FieldIsSent
  <2>3. \A num : SendWrongType(num) => kind' = kind
    BY <2>1 DEF SendWrongType
  <2>4. SendForeign => kind' = kind
    BY <2>1 DEF SendForeign
  <2>5. SendRefused => kind' = kind
    BY <2>1 DEF SendRefused
  <2>6. \A byte : SendJunk(byte) => kind' = kind
    BY DEF SendJunk
  <2>7. UNCHANGED vars => kind' = kind
    BY DEF vars
  <2> QED
    BY <2>2, <2>3, <2>4, <2>5, <2>6, <2>7 DEF Next
<1>2. Typed(expect) /\ \A n \in DOMAIN seen : seen[n] \in ParamValues
  BY <1>1 DEF ParamsHeld
<1>3. ASSUME NEW bytes, NEW result, Arrives(bytes, result), Typed(result)
      PROVE  Typed(expect') /\ \A n \in DOMAIN seen' : seen'[n] \in ParamValues
  <2>1. expect' = result
        /\ seen' = IF Ok(result)
                   THEN [n \in DOMAIN seen \cup {Len(wire')} |->
                           IF n \in DOMAIN seen THEN seen[n] ELSE result.msg]
                   ELSE seen
    BY <1>3 DEF Arrives
  <2>2. CASE Ok(result)
    <3>1. \A n \in DOMAIN seen' : seen'[n] \in {result.msg} \cup {seen[m] : m \in DOMAIN seen}
      BY <2>1, <2>2
    <3> QED
      BY <1>2, <1>3, <2>1, <2>2, <3>1
  <2>3. CASE ~Ok(result)
    BY <1>2, <1>3, <2>1, <2>3
  <2> QED
    BY <2>2, <2>3
<1>4. \A e : e # "None" => Typed(Failed(e))
  BY DEF Ok, Failed
<1>5. ASSUME NEW num \in DOMAIN Fields[kind], NEW v \in Contents(Fields[kind][num]),
             SendField(num, v)
      PROVE  \E bytes, result : Arrives(bytes, result) /\ Typed(result)
  <2> DEFINE f == Fields["Params"][num]
             held == [expect.msg EXCEPT ![f.name] = v]
  <2>1. num \in 1 .. 5 /\ f.type = "text" /\ f.name \in ParamNames
    BY <1>1, ParamsTable
  <2>2. v \in Content
    BY <1>1, <2>1, TextsFit DEF Contents
  <2>3. expect.msg \in ParamValues
    BY <1>2, <1>5, FieldIsSent DEF Open
  <2>4. held \in ParamValues
    BY <2>1, <2>2, <2>3 DEF ParamValues
  <2>5. \A old : Meant(f, old, v) = v
    BY <2>1 DEF Meant
  <2>6. \E bytes : Arrives(bytes, Done([expect.msg EXCEPT ![f.name] = Meant(f, @, v)]))
    <3>1. ~NoNumber(f, v) /\ Says(f, v) = v
      BY <2>1 DEF NoNumber, Says
    <3> QED
      BY <1>1, <1>5, <3>1, FieldIsSent DEF Result
  <2>7. [expect.msg EXCEPT ![f.name] = Meant(f, @, v)] = held
    BY <2>1, <2>3, <2>5 DEF ParamValues
  <2>8. Typed(Done(held))
    BY <2>4 DEF Done
  <2> HIDE DEF held
  <2> QED
    BY <2>6, <2>7, <2>8
<1>6. ASSUME NEW num, SendWrongType(num)
      PROVE  \E bytes, result : Arrives(bytes, result) /\ Typed(result)
  BY <1>4, <1>6 DEF SendWrongType
<1>7. ASSUME SendForeign
      PROVE  \E bytes, result : Arrives(bytes, result) /\ Typed(result)
  BY <1>2, <1>7 DEF SendForeign
<1>8. ASSUME SendRefused
      PROVE  \E bytes, result : Arrives(bytes, result) /\ Typed(result)
  <2>1. \E bytes, e : Arrives(bytes, Failed(e)) /\ e # "None"
    BY <1>8 DEF SendRefused
  <2> QED
    BY <1>4, <2>1
<1>9. ASSUME NEW byte, SendJunk(byte)
      PROVE  Typed(expect') /\ \A n \in DOMAIN seen' : seen'[n] \in ParamValues
  <2>1. expect' = Failed("Unknown") /\ seen' = seen
    BY <1>9 DEF SendJunk
  <2> QED
    BY <1>2, <1>4, <2>1
<1>10. ASSUME UNCHANGED vars
       PROVE  Typed(expect') /\ \A n \in DOMAIN seen' : seen'[n] \in ParamValues
  BY <1>2, <1>10 DEF vars
<1> HIDE DEF Typed
<1>11. Typed(expect') /\ \A n \in DOMAIN seen' : seen'[n] \in ParamValues
  BY <1>3, <1>5, <1>6, <1>7, <1>8, <1>9, <1>10 DEF Next
<1> QED
  BY <1>11 DEF Typed

(* Params.Equal holds exactly of the values whose encoding, which the store *)
(* keeps, is the same: for texts of any bytes and any length an int holds.  *)
THEOREM EqualMeansSameBytes == Spec => []EqualIsSameBytes
<1>1. ParamsHeld => EqualIsSameBytes
  <2> SUFFICES ASSUME ParamsHeld, kind = "Params", Ok(expect), NEW n \in DOMAIN seen
               PROVE  ParamsEqual(expect.msg, seen[n]) <=>
                          Marshal("Params", expect.msg) = Marshal("Params", seen[n])
    BY DEF EqualIsSameBytes
  <2>1. expect.msg \in ParamValues /\ seen[n] \in ParamValues
    BY DEF ParamsHeld
  <2> QED
    BY <2>1, ParamsDiffer
<1> QED
  BY <1>1, ParamsHeldAtFirst, ParamsStayHeld, PTL DEF Spec

-----------------------------------------------------------------------------
(* Reading: every pass of a loop of the decoder moves on, and none leaves  *)
(* the input.                                                              *)

Errors == {"IntOverflow", "UnexpectedEOF", "InvalidLength", "IllegalWireType",
           "UnexpectedEndOfGroup", "EndGroup", "IllegalTag", "WrongWireType", "NotANumber"}
Failures == {Failed(e) : e \in Errors}

LEMMA Results ==
    /\ \A v, n : Ok(At(v, n)) /\ At(v, n).val = v /\ At(v, n).next = n
    /\ \A e : Failed(e).err = e /\ (e # "None" => ~Ok(Failed(e)))
    /\ \A r \in Failures : ~Ok(r) /\ r.err \in Errors
    /\ \A e \in Errors : Failed(e) \in Failures
  BY DEF At, Failed, Ok, Failures, Errors

LEMMA OneTakes ==
    ASSUME NEW b \in Seq(Byte), NEW i \in Nat, NEW n \in 1 .. Groups, NEW m \in 1 .. Groups,
           Takes(b, i, n), Takes(b, i, m)
    PROVE  n = m
<1>1. ASSUME NEW x \in 1 .. Groups, NEW y \in 1 .. Groups, Takes(b, i, x), Takes(b, i, y)
      PROVE  ~(x < y)
  <2> SUFFICES ASSUME x < y PROVE FALSE
    OBVIOUS
  <2>1. x \in Nat /\ y \in Nat /\ x >= 1 /\ x \in 1 .. y - 1
    BY WordSizes
  <2>2. i + x <= Len(b) /\ b[i + x] < 128 /\ b[i + x] >= 128
    BY <1>1, <2>1 DEF Takes
  <2>3. i + x \in 1 .. Len(b)
    BY <2>1, <2>2
  <2>4. b[i + x] \in Byte
    BY <2>3, ElementOfSeq
  <2> DEFINE z == b[i + x]
  <2>5. z \in Nat /\ z < 128 /\ z >= 128
    BY <2>2, <2>4, BytesAreNumbers
  <2> HIDE DEF z
  <2> QED
    BY <2>5
<1>2. ~(n < m) /\ ~(m < n)
  BY <1>1
<1> QED
  BY <1>2, WordSizes

LEMMA VarintIsRead ==
    ASSUME NEW b \in Seq(Byte), NEW i \in Nat, NEW n \in 1 .. Groups, Takes(b, i, n)
    PROVE  ReadVarint(b, i) = At(Value(b, i, n) % Uint64, i + n)
<1> DEFINE m == CHOOSE m \in 1 .. Groups : Takes(b, i, m)
<1>1. m \in 1 .. Groups /\ Takes(b, i, m)
  <2> HIDE DEF Takes
  <2> QED
    OBVIOUS
<1>2. ReadVarint(b, i) = At(Value(b, i, m) % Uint64, i + m)
  BY DEF ReadVarint
<1> HIDE DEF m
<1>3. m = n
  BY <1>1, OneTakes
<1> QED
  BY <1>2, <1>3

(* What a varint that was read consists of.                                *)
LEMMA VarintRead ==
    ASSUME NEW b \in Seq(Byte), NEW i \in Nat, Ok(ReadVarint(b, i))
    PROVE  \E n \in 1 .. Groups : /\ Takes(b, i, n)
                                  /\ ReadVarint(b, i) = At(Value(b, i, n) % Uint64, i + n)
<1>1. PICK n \in 1 .. Groups : Takes(b, i, n)
  <2>1. ASSUME ~ \E n \in 1 .. Groups : Takes(b, i, n) PROVE FALSE
    <3>1. ReadVarint(b, i) = Failed("IntOverflow") \/ ReadVarint(b, i) = Failed("UnexpectedEOF")
      BY <2>1 DEF ReadVarint
    <3>2. "IntOverflow" # "None" /\ "UnexpectedEOF" # "None"
      OBVIOUS
    <3> QED
      BY <3>1, <3>2, Results
  <2> QED
    BY <2>1
<1> QED
  BY <1>1, VarintIsRead

LEMMA VarintMoves ==
    ASSUME NEW b \in Seq(Byte), NEW i \in Nat, Ok(ReadVarint(b, i))
    PROVE  /\ ReadVarint(b, i).next \in i + 1 .. Len(b)
           /\ ReadVarint(b, i).val \in 0 .. Uint64 - 1
<1>1. PICK n \in 1 .. Groups : /\ Takes(b, i, n)
                               /\ ReadVarint(b, i) = At(Value(b, i, n) % Uint64, i + n)
  BY VarintRead
<1>2. n \in Nat /\ n >= 1 /\ i + n <= Len(b) /\ Len(b) \in Nat
  BY <1>1, WordSizes DEF Takes
<1>3. Value(b, i, n) \in Nat
  <2>1. SameBytes(b, i, b, i, n)
    BY <1>2 DEF SameBytes
  <2> QED
    BY <2>1, ValueMoves
<1>4. Value(b, i, n) % Uint64 \in 0 .. Uint64 - 1
  <2> DEFINE v == Value(b, i, n)
  <2> HIDE DEF v
  <2>1. v \in Nat => v % Uint64 \in 0 .. Uint64 - 1
    BY WordSizes
  <2> QED
    BY <1>3, <2>1 DEF v
<1> QED
  BY <1>1, <1>2, <1>4, Results


(* A reader at offset i of b: it fails, or goes on behind i.               *)
LEMMA VarintMovesOn ==
    ASSUME NEW b \in Seq(Byte), NEW i \in Nat
    PROVE  \/ ReadVarint(b, i) \in Failures
           \/ /\ Ok(ReadVarint(b, i))
              /\ ReadVarint(b, i).next \in i + 1 .. Len(b)
              /\ ReadVarint(b, i).val \in 0 .. Uint64 - 1
<1>1. CASE Ok(ReadVarint(b, i))
  BY <1>1, VarintMoves
<1>2. CASE ~Ok(ReadVarint(b, i))
  <2>1. ~ \E n \in 1 .. Groups : Takes(b, i, n)
    <3> SUFFICES ASSUME NEW n \in 1 .. Groups, Takes(b, i, n) PROVE FALSE
      OBVIOUS
    <3>1. ReadVarint(b, i) = At(Value(b, i, n) % Uint64, i + n)
      BY VarintIsRead
    <3> QED
      BY <1>2, <3>1, Results
  <2>2. ReadVarint(b, i) = Failed("IntOverflow") \/ ReadVarint(b, i) = Failed("UnexpectedEOF")
    BY <2>1 DEF ReadVarint
  <2>3. "IntOverflow" \in Errors /\ "UnexpectedEOF" \in Errors
    BY DEF Errors
  <2> QED
    BY <2>2, <2>3, Results
<1> QED
  BY <1>1, <1>2

LEMMA LengthMovesOn ==
    ASSUME NEW b \in Seq(Byte), NEW i \in Nat
    PROVE  \/ ReadLength(b, i) \in Failures
           \/ /\ Ok(ReadLength(b, i))
              /\ ReadLength(b, i).next \in i + 1 .. Len(b)
              /\ ReadLength(b, i).val \in Nat
              /\ ReadLength(b, i).val >= ReadLength(b, i).next
<1> DEFINE r == ReadVarint(b, i)
<1>1. r \in Failures \/ (Ok(r) /\ r.next \in i + 1 .. Len(b) /\ r.val \in 0 .. Uint64 - 1)
  BY VarintMovesOn
<1>2. ReadLength(b, i) = LengthOf(r)
  BY DEF ReadLength
<1> HIDE DEF r
<1>3. CASE r \in Failures
  <2>1. ~Ok(r)
    BY <1>3, Results
  <2> QED
    BY <1>2, <1>3, <2>1 DEF LengthOf
<1>4. CASE Ok(r) /\ r.next \in i + 1 .. Len(b) /\ r.val \in 0 .. Uint64 - 1
  <2>1. CASE Signed(r.val, Uint64) < 0 \/ r.next + r.val >= Half
    <3>1. LengthOf(r) = Failed("InvalidLength") /\ "InvalidLength" \in Errors
      BY <1>4, <2>1 DEF LengthOf, Errors
    <3> QED
      BY <1>2, <3>1, Results
  <2>2. CASE ~(Signed(r.val, Uint64) < 0 \/ r.next + r.val >= Half)
    <3>1. LengthOf(r) = At(r.next + r.val, r.next)
      BY <1>4, <2>2 DEF LengthOf
    <3>2. r.next \in Nat /\ r.val \in Nat
      BY <1>4, WordSizes
    <3>3. r.next + r.val \in Nat /\ r.next + r.val >= r.next
      BY <3>2
    <3> QED
      BY <1>2, <1>4, <3>1, <3>3, Results
  <2> QED
    BY <2>1, <2>2
<1> QED
  BY <1>1, <1>3, <1>4

LEMMA ValueMovesOn ==
    ASSUME NEW b \in Seq(Byte), NEW wt, NEW i \in Nat
    PROVE  \/ PastValue(b, wt, i) \in Failures
           \/ /\ Ok(PastValue(b, wt, i))
              /\ PastValue(b, wt, i).next \in Nat /\ PastValue(b, wt, i).next >= i
<1> DEFINE p == PastValue(b, wt, i)
<1>1. CASE wt = 0
  <2>1. p = ReadVarint(b, i)
    BY <1>1 DEF PastValue
  <2>2. \A n \in i + 1 .. Len(b) : n \in Nat /\ n >= i
    OBVIOUS
  <2> HIDE DEF p
  <2>3. p \in Failures \/ (Ok(p) /\ p.next \in Nat /\ p.next >= i)
    BY <2>1, <2>2, VarintMovesOn
  <2> QED
    BY <2>3 DEF p
<1>2. CASE wt = 2
  <2> DEFINE r == ReadLength(b, i)
  <2>1. p = IF Ok(r) THEN At(0, r.val) ELSE r
    BY <1>2 DEF PastValue
  <2>2. r \in Failures \/ (Ok(r) /\ r.next \in i + 1 .. Len(b) /\ r.val \in Nat /\ r.val >= r.next)
    BY LengthMovesOn
  <2> HIDE DEF r, p
  <2>3. CASE r \in Failures
    <3>1. p = r
      BY <2>1, <2>3, Results
    <3> QED
      BY <2>3, <3>1 DEF p
  <2>4. CASE Ok(r) /\ r.next \in i + 1 .. Len(b) /\ r.val \in Nat /\ r.val >= r.next
    <3>1. p = At(0, r.val)
      BY <2>1, <2>4
    <3>2. r.val \in Nat /\ r.val >= i
      BY <2>4
    <3>3. Ok(p) /\ p.next \in Nat /\ p.next >= i
      BY <3>1, <3>2, Results
    <3> QED
      BY <3>3 DEF p
  <2> QED
    BY <2>2, <2>3, <2>4
<1>3. CASE wt \in {1, 3, 4, 5}
  <2>1. p = At(0, i + 8) \/ p = At(0, i) \/ p = At(0, i + 4)
    BY <1>3 DEF PastValue
  <2>2. i + 8 \in Nat /\ i + 4 \in Nat /\ i + 8 >= i /\ i + 4 >= i /\ i >= i
    OBVIOUS
  <2> HIDE DEF p
  <2>3. Ok(p) /\ p.next \in Nat /\ p.next >= i
    BY <2>1, <2>2, Results
  <2> QED
    BY <2>3 DEF p
<1>4. CASE wt \notin {0, 1, 2, 3, 4, 5}
  <2>1. p = Failed("IllegalWireType") /\ "IllegalWireType" \in Errors
    BY <1>4 DEF PastValue, Errors
  <2> QED
    BY <2>1, Results
<1> QED
  BY <1>1, <1>2, <1>3, <1>4

Passed(n, depth) == [err |-> "None", next |-> n, depth |-> depth]
Beyond(i) == {Passed(n, depth) : n \in {x \in Nat : x > i}, depth \in Nat}

LEMMA SkipOneMovesOn ==
    ASSUME NEW b \in Seq(Byte), NEW i \in Nat, NEW depth \in Nat
    PROVE  SkipOne(b, i, depth) \in Failures \cup Beyond(i)
<1> DEFINE tag == ReadVarint(b, i)
           wt == WireType(tag.val)
           past == PastValue(b, wt, tag.next)
           inner == CASE wt = 3 -> depth + 1 [] wt = 4 -> depth - 1 [] OTHER -> depth
<1>1. CASE i >= Len(b)
  <2>1. SkipOne(b, i, depth) = Failed("UnexpectedEOF") /\ "UnexpectedEOF" \in Errors
    BY <1>1 DEF SkipOne, Errors
  <2> QED
    BY <2>1, Results
<1>2. CASE ~(i >= Len(b)) /\ ~Ok(tag)
  <2>1. SkipOne(b, i, depth) = tag
    BY <1>2 DEF SkipOne, SkipTagged
  <2> QED
    BY <1>2, <2>1, VarintMovesOn
<1>3. CASE ~(i >= Len(b)) /\ Ok(tag) /\ wt = 4 /\ depth = 0
  <2>1. SkipOne(b, i, depth) = Failed("UnexpectedEndOfGroup") /\ "UnexpectedEndOfGroup" \in Errors
    BY <1>3 DEF SkipOne, SkipTagged, Errors
  <2> QED
    BY <2>1, Results
<1>4. CASE ~(i >= Len(b)) /\ Ok(tag) /\ ~(wt = 4 /\ depth = 0)
  <2>1. SkipOne(b, i, depth) = Behind(past, inner)
    BY <1>4 DEF SkipOne, SkipTagged
  <2>2. inner \in Nat
    BY <1>4
  <2>3. tag.next \in Nat /\ tag.next > i
    <3>1. tag.next \in i + 1 .. Len(b)
      BY <1>4, VarintMovesOn, Results
    <3> QED
      BY <3>1
  <2> HIDE DEF wt, inner, tag
  <2>4. past \in Failures \/ (Ok(past) /\ past.next \in Nat /\ past.next >= tag.next)
    BY <2>3, ValueMovesOn
  <2> HIDE DEF past
  <2>5. CASE past \in Failures
    BY <2>1, <2>5, Results DEF Behind
  <2>6. CASE Ok(past) /\ past.next \in Nat /\ past.next >= tag.next
    <3>1. SkipOne(b, i, depth) = Passed(past.next, inner)
      BY <2>1, <2>6 DEF Behind, Passed
    <3>2. past.next \in {x \in Nat : x > i}
      BY <2>3, <2>6
    <3> QED
      BY <2>2, <3>1, <3>2 DEF Beyond
  <2> QED
    BY <2>4, <2>5, <2>6
<1> QED
  BY <1>1, <1>2, <1>3, <1>4

(* skipTx: h[k] is where it is after k passes.                             *)
Onward(b, s) == IF ~Ok(s) \/ s.depth = 0 THEN s ELSE SkipOne(b, s.next, s.depth)
Skipped(b, i, h) ==
    /\ h \in [1 .. Len(b) + 1 -> Failures \cup Beyond(i)]
    /\ \A k \in 1 .. Len(b) + 1 : h[k] = IF k = 1 THEN SkipOne(b, i, 0) ELSE Onward(b, h[k - 1])

(* skipTx ends with the pass that fails or leaves the outermost group.     *)
LEMMA SkipStops ==
    ASSUME NEW b \in Seq(Byte), NEW i \in Nat, NEW h, Skipped(b, i, h),
           NEW k \in 1 .. Len(b) + 1, ~Ok(h[k]) \/ h[k].depth = 0
    PROVE  h[Len(b) + 1] = h[k]
<1> DEFINE n == Len(b) + 1 - k
           Good == {j \in 0 .. n : h[k + j] = h[k]}
<1>1. n \in Nat /\ k \in Nat /\ k + n = Len(b) + 1 /\ k >= 1 /\ Len(b) \in Nat
  OBVIOUS
<1>2. 0 \in Good
  BY <1>1
<1>3. ASSUME NEW j \in 1 .. n, j - 1 \in Good PROVE j \in Good
  <2> DEFINE m == k + j
  <2>1. m \in 1 .. Len(b) + 1 /\ m # 1 /\ m - 1 = k + (j - 1) /\ j \in 0 .. n
    BY <1>1
  <2> HIDE DEF m
  <2>2. h[m] = Onward(b, h[m - 1])
    BY <2>1 DEF Skipped
  <2>3. h[m - 1] = h[k]
    BY <1>3, <2>1
  <2>4. h[m] = h[k]
    BY <2>2, <2>3 DEF Onward
  <2> QED
    BY <2>1, <2>4 DEF m
<1>4. \A j \in 0 .. n : j \in Good
  <2> HIDE DEF Good, n
  <2> QED
    BY <1>1, <1>2, <1>3, Iterations
<1> QED
  BY <1>1, <1>4

LEMMA SkipPasses ==
    ASSUME NEW b \in Seq(Byte), NEW i \in Nat
    PROVE  \E h : Skipped(b, i, h) /\ Skip(b, i) = h[Len(b) + 1]
<1> DEFINE S == Failures \cup Beyond(i)
           n == Len(b)
           step == [k \in 1 .. n |-> [s \in S |-> Onward(b, s)]]
           Is(f) == f = [k \in 1 .. n + 1 |->
                           IF k = 1 THEN SkipOne(b, i, 0) ELSE Onward(b, f[k - 1])]
           h == CHOOSE f : Is(f)
           last == CHOOSE k \in 1 .. n + 1 : Ended(h[k]) \/ k = n + 1
<1>1. n \in Nat
  OBVIOUS
<1>2. SkipOne(b, i, 0) \in S
  BY SkipOneMovesOn
<1>3. ASSUME NEW s \in S PROVE Onward(b, s) \in S
  <2>1. CASE ~Ok(s) \/ s.depth = 0
    BY <2>1 DEF Onward
  <2>2. CASE ~(~Ok(s) \/ s.depth = 0)
    <3>1. PICK m \in Nat, d \in Nat : m > i /\ s = Passed(m, d)
      BY <2>2, Results DEF Beyond
    <3>2. s.next = m /\ s.depth = d
      BY <3>1 DEF Passed
    <3>3. SkipOne(b, m, d) \in Failures \cup Beyond(m)
      BY SkipOneMovesOn
    <3>4. Beyond(m) \subseteq Beyond(i)
      BY <3>1 DEF Beyond
    <3> QED
      BY <2>2, <3>2, <3>3, <3>4 DEF Onward
  <2> QED
    BY <2>1, <2>2
<1>4. step \in [1 .. n -> [S -> S]] /\ \A k \in 1 .. n : \A s \in S : step[k][s] = Onward(b, s)
  <2> HIDE DEF S
  <2> QED
    BY <1>3
<1>5. PICK f : ForwardLoop(f, n, S, SkipOne(b, i, 0), step)
  <2> HIDE DEF step, S, n
  <2> QED
    BY <1>1, <1>2, <1>4, Forwards
<1>6. /\ f \in [0 .. n -> S] /\ f[0] = SkipOne(b, i, 0)
      /\ \A k \in 1 .. n : f[k] = Onward(b, f[k - 1])
  <2>1. /\ f \in [0 .. n -> S] /\ f[0] = SkipOne(b, i, 0)
        /\ \A k \in 1 .. n : f[k] = step[k][f[k - 1]]
    BY <1>5 DEF ForwardLoop
  <2>2. \A k \in 1 .. n : k - 1 \in 0 .. n
    BY <1>1
  <2> HIDE DEF step, S, n
  <2> QED
    BY <1>4, <2>1, <2>2
<1> DEFINE g == [k \in 1 .. n + 1 |-> f[k - 1]]
<1>7. Is(g)
  <2>1. ASSUME NEW k \in 1 .. n + 1
        PROVE  g[k] = IF k = 1 THEN SkipOne(b, i, 0) ELSE Onward(b, g[k - 1])
    <3>1. g[k] = f[k - 1]
      OBVIOUS
    <3>2. CASE k = 1
      BY <1>6, <3>1, <3>2
    <3>3. CASE k # 1
      <4>1. k - 1 \in 1 .. n /\ k - 1 \in 1 .. n + 1
        BY <1>1, <3>3
      <4>2. g[k - 1] = f[(k - 1) - 1]
        BY <4>1
      <4> HIDE DEF g, n
      <4>3. f[k - 1] = Onward(b, f[(k - 1) - 1])
        BY <1>6, <4>1
      <4> QED
        BY <3>1, <3>3, <4>2, <4>3
    <3> QED
      BY <3>2, <3>3
  <2>2. g = [k \in 1 .. n + 1 |-> g[k]]
    OBVIOUS
  <2> HIDE DEF g, n
  <2> QED
    BY <2>1, <2>2
<1>8. Skip(b, i) = h[last]
  BY DEF Skip, Onward, Ended
<1>9. Is(h)
  <2> HIDE DEF g, Is
  <2> QED
    BY <1>7
<1> HIDE DEF h
<1>10. h = [k \in 1 .. n + 1 |-> h[k]]
       /\ \A k \in 1 .. n + 1 : h[k] = IF k = 1 THEN SkipOne(b, i, 0) ELSE Onward(b, h[k - 1])
  <2> HIDE DEF n
  <2> QED
    BY <1>9
<1> HIDE DEF Is, S, n
<1> DEFINE Good == {k \in 0 .. n : h[k + 1] \in S}
<1>11. 0 \in Good
  <2>1. 0 \in 0 .. n /\ 0 + 1 = 1 /\ 1 \in 1 .. n + 1
    BY <1>1
  <2> QED
    BY <1>2, <1>10, <2>1
<1>12. ASSUME NEW k \in 1 .. n, k - 1 \in Good PROVE k \in Good
  <2>1. k \in 0 .. n /\ k + 1 \in 1 .. n + 1 /\ k + 1 # 1 /\ (k + 1) - 1 = k /\ (k - 1) + 1 = k
    BY <1>1
  <2>2. h[k] \in S
    BY <1>12, <2>1
  <2> QED
    BY <1>3, <1>10, <2>1, <2>2
<1>13. \A k \in 0 .. n : k \in Good
  <2> HIDE DEF Good
  <2> QED
    BY <1>1, <1>11, <1>12, Iterations
<1>14. ASSUME NEW k \in 1 .. n + 1 PROVE h[k] \in S
  <2>1. k - 1 \in 0 .. n /\ (k - 1) + 1 = k
    BY <1>1
  <2> QED
    BY <1>13, <2>1
<1>15. h \in [1 .. n + 1 -> S]
  BY <1>10, <1>14
<1>16. Skipped(b, i, h)
  BY <1>10, <1>15 DEF Skipped, S, n
<1>17. last \in 1 .. n + 1 /\ (Ended(h[last]) \/ last = n + 1)
  <2>1. n + 1 \in 1 .. n + 1
    BY <1>1
  <2> QED
    BY <2>1
<1> HIDE DEF last
<1>18. h[n + 1] = h[last]
  <2>1. CASE Ended(h[last])
    BY <1>16, <1>17, <2>1, SkipStops DEF Ended, n
  <2>2. CASE last = n + 1
    BY <2>2
  <2> QED
    BY <1>17, <2>1, <2>2
<1> QED
  BY <1>8, <1>16, <1>18 DEF n

LEMMA SkipMovesOn ==
    ASSUME NEW b \in Seq(Byte), NEW i \in Nat
    PROVE  Skip(b, i) \in Failures \cup Beyond(i)
<1>1. PICK h : Skipped(b, i, h) /\ Skip(b, i) = h[Len(b) + 1]
  BY SkipPasses
<1>2. Len(b) + 1 \in 1 .. Len(b) + 1
  OBVIOUS
<1> QED
  BY <1>1, <1>2 DEF Skipped

(* The tables: a field of a message that another message holds is a text.  *)
Embedded == {"Coin", "Params", "KVPair"}
Declares(f) ==
    /\ f.type \in {"text", "strings", "uint", "msg", "msgs"}
    /\ f.type \in {"msg", "msgs"} => f.of \in Embedded
    /\ f.type = "msg" => f.of = "Params"

LEMMA TablesDeclare ==
    /\ Embedded \subseteq DOMAIN Fields
    /\ \A k \in DOMAIN Fields : \A num \in DOMAIN Fields[k] :
          num \in 1 .. 6 /\ Declares(Fields[k][num])
<1> DEFINE Fine(t) == \A num \in DOMAIN t : num \in 1 .. 6 /\ Declares(t[num])
<1>1. /\ \A n : Declares(Text(n)) /\ Declares(Strings(n)) /\ Declares(Uint(n))
      /\ \A n : Declares(Msg(n, "Params"))
      /\ \A n : \A of \in Embedded : Declares(Msgs(n, of))
  BY DEF Declares, Text, Strings, Uint, Msg, Msgs, Embedded
<1>2. "Coin" \in Embedded /\ "Params" \in Embedded /\ "KVPair" \in Embedded
  BY DEF Embedded
<1>3. Fine(CoinFields) /\ Fine(ModuleFields) /\ Fine(MsgCallResponseFields)
      /\ Fine(MsgRunResponseFields) /\ Fine(QueryInfoRequestFields)
      /\ Fine(QueryInfoResponseFields) /\ Fine(QueryRealmStorageRequestFields)
      /\ Fine(QueryRealmStorageResponseFields) /\ Fine(QueryEvalResponseFields)
  <2> HIDE DEF Declares
  <2> QED
    BY <1>1 DEF CoinFields, Amount, ModuleFields, MsgCallResponseFields, MsgRunResponseFields,
       QueryInfoRequestFields, QueryInfoResponseFields, QueryRealmStorageRequestFields,
       QueryRealmStorageResponseFields, QueryEvalResponseFields
<1>4. Fine(MsgUpdateParamsResponseFields) /\ Fine(MsgAddPackageResponseFields)
      /\ Fine(QueryParamsRequestFields)
  BY DEF MsgUpdateParamsResponseFields, MsgAddPackageResponseFields, QueryParamsRequestFields
<1>5. Fine(ParamsFields) /\ Fine(KVPairFields)
  BY <1>1 DEF ParamsFields, KVPairFields
<1>6. Fine(GenesisStateFields) /\ Fine(MsgUpdateParamsFields) /\ Fine(QueryParamsResponseFields)
  BY <1>1, <1>2 DEF GenesisStateFields, MsgUpdateParamsFields, QueryParamsResponseFields
<1>7. Fine(MsgAddPackageFields) /\ Fine(MsgRunFields)
  BY <1>1, <1>2 DEF MsgAddPackageFields, MsgRunFields
<1>8. Fine(MsgCallFields)
  BY <1>1, <1>2 DEF MsgCallFields
<1>9. Fine(QueryEvalRequestFields) /\ Fine(QueryRenderRequestFields)
  BY <1>1 DEF QueryEvalRequestFields, QueryRenderRequestFields
<1> HIDE DEF Fine
<1>10. \A k \in DOMAIN Fields : Fine(Fields[k])
  BY <1>3, <1>4, <1>5, <1>6, <1>7, <1>8, <1>9 DEF Fields
<1>11. Embedded \subseteq DOMAIN Fields
  BY DEF Embedded, Fields
<1> QED
  BY <1>10, <1>11 DEF Fine

(* What is stored in a field, and what a pass of Unmarshal's loop gives.   *)
Entries(k) ==
    {e \in {Fields[k][num] : num \in DOMAIN Fields[k]} \X (Nat \cup Seq(Byte)) :
        IF e[1].type = "uint" THEN e[2] \in Nat ELSE e[2] \in Seq(Byte)}
Reading(stores, n) == [err |-> "None", stores |-> stores, next |-> n]
Readings(k, b, i) == [err : {"None"}, stores : Seq(Entries(k)), next : i + 1 .. Len(b)]

LEMMA IsReading ==
    ASSUME NEW k, NEW stores \in Seq(Entries(k)), NEW b, NEW i, NEW n \in i + 1 .. Len(b)
    PROVE  Reading(stores, n) \in Readings(k, b, i)
  BY DEF Reading, Readings

LEMMA OneEntry ==
    ASSUME NEW k, NEW num \in DOMAIN Fields[k], NEW v,
           IF Fields[k][num].type = "uint" THEN v \in Nat ELSE v \in Seq(Byte),
           NEW b, NEW i, NEW n \in i + 1 .. Len(b)
    PROVE  Stores(Fields[k][num], v, n) \in Readings(k, b, i)
<1> DEFINE f == Fields[k][num]
           e == <<f, v>>
<1>1. e[1] = f /\ e[2] = v /\ f \in {Fields[k][x] : x \in DOMAIN Fields[k]} /\ v \in Nat \cup Seq(Byte)
  OBVIOUS
<1>2. e \in {Fields[k][x] : x \in DOMAIN Fields[k]} \X (Nat \cup Seq(Byte))
  BY <1>1
<1>3. e \in Entries(k)
  BY <1>1, <1>2 DEF Entries
<1> HIDE DEF e
<1>4. <<e>> \in Seq(Entries(k))
  BY <1>3
<1>5. Stores(f, v, n) = Reading(<<e>>, n)
  BY DEF Stores, Reading, e
<1> QED
  BY <1>4, <1>5, IsReading

(* The digits of a number are bytes.                                       *)
LEMMA Numbers == \A s \in DOMAIN NumberOf : NumberOf[s] \in Seq(Byte) /\ s \in Seq(Byte) /\ s # <<>>
<1>1. Byte = 0 .. 255
  BY DEF Byte
<1>2. <<>> \in Seq(Byte)
  OBVIOUS
<1> QED
  BY <1>1, <1>2, NumberAssumption

LEMMA TextMovesOn ==
    ASSUME NEW k, NEW num \in DOMAIN Fields[k], NEW v \in Seq(Byte), Fields[k][num].type # "uint",
           NEW b, NEW i, NEW n \in i + 1 .. Len(b)
    PROVE  StoresText(Fields[k][num], v, n) \in Failures \cup Readings(k, b, i)
<1> DEFINE f == Fields[k][num]
           R == StoresText(f, v, n)
<1>1. CASE R = Failed("NotANumber")
  <2>1. "NotANumber" \in Errors
    BY DEF Errors
  <2> HIDE DEF R
  <2> QED
    BY <1>1, <2>1, Results DEF R
<1>2. CASE R = Reading(<<>>, n)
  <2>1. <<>> \in Seq(Entries(k))
    OBVIOUS
  <2> HIDE DEF R
  <2> QED
    BY <1>2, <2>1, IsReading DEF R
<1>3. CASE \E w \in Seq(Byte) : R = Stores(f, w, n)
  <2> HIDE DEF R
  <2> QED
    BY <1>3, OneEntry DEF R
<1>4. \/ R = Failed("NotANumber") \/ R = Reading(<<>>, n)
      \/ \E w \in Seq(Byte) : R = Stores(f, w, n)
  BY Numbers DEF StoresText, Reading
<1> QED
  BY <1>1, <1>2, <1>3, <1>4

LEMMA DeclaredMovesOn ==
    ASSUME NEW k, NEW num \in DOMAIN Fields[k], NEW b \in Seq(Byte), NEW i \in Nat, NEW tag,
           tag.next \in i + 1 .. Len(b)
    PROVE  Declared(Fields[k][num], b, tag) \in Failures \cup Readings(k, b, i)
<1> DEFINE f == Fields[k][num]
           D == Declared(f, b, tag)
<1>1. tag.next \in Nat /\ tag.next > i
  OBVIOUS
<1>2. CASE WireType(tag.val) # (IF f.type = "uint" THEN 0 ELSE 2)
  <2>1. D = Failed("WrongWireType") /\ "WrongWireType" \in Errors
    BY <1>2 DEF Declared, Errors
  <2> HIDE DEF D
  <2>2. D \in Failures
    BY <2>1, Results
  <2> QED
    BY <2>2 DEF D
<1>3. CASE ~(WireType(tag.val) # (IF f.type = "uint" THEN 0 ELSE 2)) /\ f.type = "uint"
  <2> DEFINE r == ReadVarint(b, tag.next)
  <2>1. D = Number(f, r)
    BY <1>3 DEF Declared
  <2>2. r \in Failures \/ (Ok(r) /\ r.next \in tag.next + 1 .. Len(b) /\ r.val \in 0 .. Uint64 - 1)
    BY <1>1, VarintMovesOn
  <2> HIDE DEF r, D
  <2>3. CASE r \in Failures
    <3>1. D = r
      BY <2>1, <2>3, Results DEF Number
    <3> QED
      BY <2>3, <3>1 DEF D
  <2>4. CASE Ok(r) /\ r.next \in tag.next + 1 .. Len(b) /\ r.val \in 0 .. Uint64 - 1
    <3>1. D = Stores(f, r.val, r.next)
      BY <2>1, <2>4 DEF Number
    <3>2. r.next \in i + 1 .. Len(b) /\ r.val \in Nat
      BY <1>1, <2>4, WordSizes
    <3>3. D \in Readings(k, b, i)
      BY <1>3, <3>1, <3>2, OneEntry
    <3> QED
      BY <3>3 DEF D
  <2> QED
    BY <2>2, <2>3, <2>4
<1>4. CASE ~(WireType(tag.val) # (IF f.type = "uint" THEN 0 ELSE 2)) /\ f.type # "uint"
  <2> DEFINE r == ReadLength(b, tag.next)
             data == Slice(b, r.next, r.val)
  <2>1. D = Delimited(f, b, r)
    BY <1>4 DEF Declared
  <2>2. r \in Failures \/ (Ok(r) /\ r.next \in tag.next + 1 .. Len(b) /\ r.val \in Nat /\ r.val >= r.next)
    BY <1>1, LengthMovesOn
  <2> HIDE DEF r, D
  <2>3. CASE r \in Failures
    <3>1. D = r
      BY <2>1, <2>3, Results DEF Delimited
    <3> QED
      BY <2>3, <3>1 DEF D
  <2>4. CASE Ok(r) /\ PastEnd(b, r.val)
    <3>1. D = Failed("UnexpectedEOF") /\ "UnexpectedEOF" \in Errors
      BY <2>1, <2>4 DEF Delimited, Errors
    <3>2. D \in Failures
      BY <3>1, Results
    <3> QED
      BY <3>2 DEF D
  <2>5. CASE /\ Ok(r) /\ r.next \in tag.next + 1 .. Len(b) /\ r.val \in Nat /\ r.val >= r.next
             /\ ~PastEnd(b, r.val)
    <3>1. r.val <= Len(b)
      BY <2>5 DEF PastEnd
    <3>2. data = Done(SubSeq(b, r.next + 1, r.val))
      BY <2>5, <3>1 DEF Slice
    <3> DEFINE v == SubSeq(b, r.next + 1, r.val)
    <3>3. v \in Seq(Byte)
      <4>1. \A x \in r.next + 1 .. r.val : x \in 1 .. Len(b)
        BY <1>1, <2>5, <3>1
      <4>2. \A x \in r.next + 1 .. r.val : b[x] \in Byte
        BY <4>1, ElementOfSeq
      <4>3. r.next + 1 \in Int /\ r.val \in Int
        BY <1>1, <2>5
      <4> QED
        BY <4>2, <4>3, SubSeqProperties
    <3> HIDE DEF data, v
    <3>4. Ok(data) /\ data.msg = v
      <4>1. data = Done(v)
        BY <3>2 DEF v
      <4> QED
        BY <4>1 DEF Done, Ok
    <3>5. D = StoresText(f, v, r.val)
      BY <2>1, <2>5, <3>4 DEF Delimited, data
    <3>6. r.val \in i + 1 .. Len(b)
      BY <1>1, <2>5, <3>1
    <3>7. D \in Failures \cup Readings(k, b, i)
      BY <1>4, <3>3, <3>5, <3>6, TextMovesOn
    <3> QED
      BY <3>7 DEF D
  <2> QED
    BY <2>2, <2>3, <2>4, <2>5
<1> QED
  BY <1>2, <1>3, <1>4

LEMMA FieldMovesOn ==
    ASSUME NEW k, NEW b \in Seq(Byte), NEW i \in Nat
    PROVE  FieldAt(k, b, i) \in Failures \cup Readings(k, b, i)
<1> DEFINE tag == ReadVarint(b, i)
           num == FieldNum(tag.val)
           F == FieldAt(k, b, i)
<1>1. tag \in Failures \/ (Ok(tag) /\ tag.next \in i + 1 .. Len(b))
  BY VarintMovesOn
<1>2. F = Tagged(k, b, i, tag)
  BY DEF FieldAt
<1> HIDE DEF tag, F
<1>3. CASE tag \in Failures
  <2>1. F = tag
    BY <1>2, <1>3, Results DEF Tagged
  <2> QED
    BY <1>3, <2>1 DEF F
<1>4. CASE Ok(tag) /\ (WireType(tag.val) = 4 \/ num <= 0)
  <2>1. (F = Failed("EndGroup") \/ F = Failed("IllegalTag"))
        /\ "EndGroup" \in Errors /\ "IllegalTag" \in Errors
    BY <1>2, <1>4 DEF Tagged, Errors
  <2>2. F \in Failures
    BY <2>1, Results
  <2> QED
    BY <2>2 DEF F
<1>5. CASE /\ Ok(tag) /\ ~(WireType(tag.val) = 4 \/ num <= 0) /\ num \in DOMAIN Fields[k]
           /\ tag.next \in i + 1 .. Len(b)
  <2>1. F = Declared(Fields[k][num], b, tag)
    BY <1>2, <1>5 DEF Tagged
  <2> HIDE DEF num
  <2>2. F \in Failures \cup Readings(k, b, i)
    BY <1>5, <2>1, DeclaredMovesOn
  <2> QED
    BY <2>2 DEF F
<1>6. CASE Ok(tag) /\ ~(WireType(tag.val) = 4 \/ num <= 0) /\ num \notin DOMAIN Fields[k]
  <2> DEFINE past == Skip(b, i)
  <2>1. F = Skips(b, past)
    BY <1>2, <1>6 DEF Tagged
  <2>2. past \in Failures \cup Beyond(i)
    BY SkipMovesOn
  <2> HIDE DEF past
  <2>3. CASE past \in Failures
    <3>1. F = past
      BY <2>1, <2>3, Results DEF Skips
    <3> QED
      BY <2>3, <3>1 DEF F
  <2>4. CASE past \in Beyond(i)
    <3>1. Ok(past) /\ past.next \in Nat /\ past.next > i
      BY <2>4 DEF Beyond, Passed, Ok
    <3>2. CASE PastEnd(b, past.next)
      <4>1. F = Failed("UnexpectedEOF") /\ "UnexpectedEOF" \in Errors
        BY <2>1, <3>1, <3>2 DEF Skips, Errors
      <4>2. F \in Failures
        BY <4>1, Results
      <4> QED
        BY <4>2 DEF F
    <3>3. CASE ~PastEnd(b, past.next)
      <4>1. F = Reading(<<>>, past.next)
        BY <2>1, <3>1, <3>3 DEF Skips, Reading
      <4>2. past.next \in i + 1 .. Len(b) /\ <<>> \in Seq(Entries(k))
        BY <3>1, <3>3 DEF PastEnd
      <4>3. F \in Readings(k, b, i)
        BY <4>1, <4>2, IsReading
      <4> QED
        BY <4>3 DEF F
    <3> QED
      BY <3>2, <3>3
  <2> QED
    BY <2>2, <2>3, <2>4
<1> QED
  BY <1>1, <1>3, <1>4, <1>5, <1>6

(* The loop of Unmarshal: g[i] is what it gathers from offset i on.        *)
Gathered(k) == [stores : Seq(Entries(k)), err : Errors \cup {"None"}]
Gathers(k, b, i, g) ==
    IF i = Len(b) THEN [stores |-> <<>>, err |-> "None"] ELSE GoOn(b, FieldAt(k, b, i), g)
Loops(k, b, g) == g = [i \in 0 .. Len(b) |-> Gathers(k, b, i, g)]

LEMMA GathersMore ==
    ASSUME NEW k, NEW b \in Seq(Byte), NEW i \in 0 .. Len(b), NEW g,
           \A j \in 0 .. Len(b) : j > i => g[j] \in Gathered(k)
    PROVE  Gathers(k, b, i, g) \in Gathered(k)
<1> DEFINE r == FieldAt(k, b, i)
           G == Gathers(k, b, i, g)
<1>1. r \in Failures \cup Readings(k, b, i) /\ i \in Nat
  BY FieldMovesOn
<1>2. i = Len(b) => G = [stores |-> <<>>, err |-> "None"]
  BY DEF Gathers
<1>3. i # Len(b) /\ ~Ok(r) => G = [stores |-> <<>>, err |-> r.err]
  BY DEF Gathers, GoOn
<1>4. i # Len(b) /\ Ok(r) /\ ~(r.next > Len(b)) =>
        G = [stores |-> r.stores \o g[r.next].stores, err |-> g[r.next].err]
  BY DEF Gathers, GoOn, StoredWith
<1> HIDE DEF r, G
<1>5. <<>> \in Seq(Entries(k))
  OBVIOUS
<1>6. CASE i = Len(b)
  <2>1. G = [stores |-> <<>>, err |-> "None"]
    BY <1>2, <1>6
  <2>2. G \in Gathered(k)
    BY <1>5, <2>1 DEF Gathered
  <2> QED
    BY <2>2 DEF G
<1>7. CASE i # Len(b) /\ r \in Failures
  <2>1. ~Ok(r) /\ r.err \in Errors
    BY <1>7, Results
  <2>2. G = [stores |-> <<>>, err |-> r.err]
    BY <1>3, <1>7, <2>1
  <2>3. G \in Gathered(k)
    BY <1>5, <2>1, <2>2 DEF Gathered
  <2> QED
    BY <2>3 DEF G
<1>8. CASE i # Len(b) /\ r \in Readings(k, b, i)
  <2>1. Ok(r) /\ r.stores \in Seq(Entries(k)) /\ r.next \in i + 1 .. Len(b)
    BY <1>8 DEF Readings, Ok
  <2>2. r.next \in 0 .. Len(b) /\ r.next > i /\ ~(r.next > Len(b))
    BY <1>1, <2>1
  <2> DEFINE rest == g[r.next]
  <2>3. rest \in Gathered(k)
    BY <2>2
  <2> HIDE DEF rest
  <2>4. rest.stores \in Seq(Entries(k)) /\ rest.err \in Errors \cup {"None"}
    BY <2>3 DEF Gathered
  <2> DEFINE both == r.stores \o rest.stores
  <2>5. both \in Seq(Entries(k))
    BY <2>1, <2>4, ConcatProperties
  <2> HIDE DEF both
  <2>6. G = [stores |-> both, err |-> rest.err]
    BY <1>4, <1>8, <2>1, <2>2 DEF both, rest
  <2> QED
    BY <2>4, <2>5, <2>6 DEF Gathered, G
<1> QED
  BY <1>1, <1>6, <1>7, <1>8

LEMMA LoopExists ==
    ASSUME NEW k, NEW b \in Seq(Byte)
    PROVE  \E g : Loops(k, b, g)
<1> DEFINE n == Len(b)
           S == Gathered(k)
           F == [0 .. n -> S]
           step == [i \in 0 .. n |-> [f \in F |-> Gathers(k, b, i, f)]]
           s == [stores |-> <<>>, err |-> "None"]
<1>1. n \in Nat /\ s \in S
  <2>1. <<>> \in Seq(Entries(k))
    OBVIOUS
  <2> QED
    BY <2>1 DEF Gathered
<1>2. ASSUME NEW i \in 0 .. n, NEW f \in F PROVE Gathers(k, b, i, f) \in S
  BY GathersMore
<1>3. \A i \in 0 .. n : \A f \in F : step[i][f] = Gathers(k, b, i, f)
  OBVIOUS
<1>4. step \in [0 .. n -> [F -> S]]
  <2> HIDE DEF F, S, n
  <2> QED
    BY <1>2
<1>5. ASSUME NEW i \in 0 .. n, NEW f \in F, NEW g \in F,
             \A j \in 0 .. n : j > i => f[j] = g[j]
      PROVE  Gathers(k, b, i, f) = Gathers(k, b, i, g)
  <2> DEFINE r == FieldAt(k, b, i)
  <2>1. r \in Failures \cup Readings(k, b, i) /\ i \in Nat
    BY FieldMovesOn
  <2> HIDE DEF r
  <2>2. Ok(r) => f[r.next] = g[r.next]
    <3> SUFFICES ASSUME Ok(r) PROVE f[r.next] = g[r.next]
      OBVIOUS
    <3>1. r \in Readings(k, b, i)
      BY <2>1, Results
    <3>2. r.next \in i + 1 .. n
      BY <3>1 DEF Readings
    <3>3. r.next \in 0 .. n /\ r.next > i
      BY <2>1, <3>2
    <3> QED
      BY <1>5, <3>3
  <2> QED
    BY <2>2 DEF Gathers, GoOn, r
<1>6. \A i \in 0 .. n : \A f, g \in F :
        (\A j \in 0 .. n : j > i => f[j] = g[j]) => step[i][f] = step[i][g]
  <2> HIDE DEF F, step, n
  <2> QED
    BY <1>3, <1>5
<1> HIDE DEF step
<1>7. PICK g : BackwardLoop(g, n, S, step)
  <2> HIDE DEF S, s, n
  <2> QED
    BY <1>1, <1>4, <1>6, Backwards
<1>8. g \in F /\ \A i \in 0 .. n : g[i] = step[i][g]
  BY <1>7 DEF BackwardLoop
<1> HIDE DEF S
<1>9. g = [i \in 0 .. n |-> g[i]] /\ \A i \in 0 .. n : g[i] = Gathers(k, b, i, g)
  <2>1. g = [i \in 0 .. n |-> g[i]]
    BY <1>8
  <2> HIDE DEF F
  <2> QED
    BY <1>3, <1>8, <2>1
<1>10. Loops(k, b, g)
  BY <1>9 DEF Loops
<1> QED
  BY <1>10

LEMMA LoopGathers ==
    ASSUME NEW k, NEW b \in Seq(Byte)
    PROVE  \E g : /\ g \in [0 .. Len(b) -> Gathered(k)]
                  /\ \A i \in 0 .. Len(b) : g[i] = Gathers(k, b, i, g)
                  /\ Loop(k, b) = g[0]
<1> DEFINE n == Len(b)
           h == CHOOSE g : Loops(k, b, g)
<1>1. Loop(k, b) = h[0]
  BY DEF Loop, Loops, Gathers
<1>2. Loops(k, b, h)
  BY LoopExists
<1> HIDE DEF h
<1>3. h = [i \in 0 .. n |-> Gathers(k, b, i, h)]
  BY <1>2 DEF Loops
<1>4. n \in Nat /\ \A i \in 0 .. n : h[i] = Gathers(k, b, i, h)
  BY <1>3
<1> DEFINE Good == {j \in 0 .. n : \A i \in n - j .. n : h[i] \in Gathered(k)}
<1>5. ASSUME NEW i \in 0 .. n, \A j \in 0 .. n : j > i => h[j] \in Gathered(k)
      PROVE  h[i] \in Gathered(k)
  BY <1>4, <1>5, GathersMore
<1>6. 0 \in Good
  <2>1. \A i \in n - 0 .. n : i \in 0 .. n /\ \A j \in 0 .. n : ~(j > i)
    BY <1>4
  <2>2. \A i \in n - 0 .. n : h[i] \in Gathered(k)
    BY <1>5, <2>1
  <2> QED
    BY <1>4, <2>2
<1>7. ASSUME NEW j \in 1 .. n, j - 1 \in Good PROVE j \in Good
  <2> SUFFICES ASSUME NEW i \in n - j .. n PROVE h[i] \in Gathered(k)
    BY <1>4
  <2>1. i \in 0 .. n /\ \A m \in 0 .. n : m > i => m \in n - (j - 1) .. n
    BY <1>4
  <2>2. \A m \in n - (j - 1) .. n : h[m] \in Gathered(k)
    BY <1>7
  <2> QED
    BY <1>5, <2>1, <2>2
<1>8. n \in Good
  <2>1. \A j \in 0 .. n : j \in Good
    <3> HIDE DEF Good, n
    <3> QED
      BY <1>4, <1>6, <1>7, Iterations
  <2> QED
    BY <1>4, <2>1
<1>9. \A i \in 0 .. n : h[i] \in Gathered(k)
  <2>1. n - n = 0
    BY <1>4
  <2> QED
    BY <1>8, <2>1
<1>10. h \in [0 .. n -> Gathered(k)]
  BY <1>3, <1>9
<1> QED
  BY <1>1, <1>4, <1>10

LEMMA LoopIsGathered ==
    ASSUME NEW k, NEW b \in Seq(Byte)
    PROVE  Loop(k, b) \in Gathered(k)
<1>1. PICK g : g \in [0 .. Len(b) -> Gathered(k)] /\ Loop(k, b) = g[0]
  BY LoopGathers
<1>2. 0 \in 0 .. Len(b)
  OBVIOUS
<1> QED
  BY <1>1, <1>2

(* Every outcome is one of these, none of them a panic.                    *)
Outcomes == Errors \cup {"None"}

LEMMA DecodedFails ==
    ASSUME NEW k \in DOMAIN Fields, NEW e \in Entries(k), NEW old
    PROVE  Decoded(e[1], old, e[2]).err \in Outcomes
<1> DEFINE f == e[1]
           v == e[2]
<1>1. PICK num \in DOMAIN Fields[k] : f = Fields[k][num]
  BY DEF Entries
<1>2. Declares(f) /\ IF f.type = "uint" THEN v \in Nat ELSE v \in Seq(Byte)
  BY <1>1, TablesDeclare DEF Entries
<1> HIDE DEF f, v
<1>3. CASE f.type \notin {"msg", "msgs"}
  <2>1. Decoded(f, old, v) = Done(v)
    BY <1>3 DEF Decoded
  <2> QED
    BY <2>1 DEF Done, Outcomes, f, v
<1>4. CASE f.type \in {"msg", "msgs"}
  <2> DEFINE into == IF f.type = "msg" THEN old ELSE New(f.of)
             loop == Loop(f.of, v)
  <2>1. Decoded(f, old, v) = HoldTexts(into, loop)
    BY <1>4 DEF Decoded, UnmarshalTexts
  <2>2. v \in Seq(Byte)
    BY <1>2, <1>4
  <2>3. loop \in Gathered(f.of)
    BY <2>2, LoopIsGathered
  <2> HIDE DEF into, loop
  <2>4. loop.err \in Outcomes
    BY <2>3 DEF Gathered, Outcomes
  <2>5. \/ \E m : HoldTexts(into, loop) = Done(m)
        \/ HoldTexts(into, loop) = Failed(loop.err)
    BY DEF HoldTexts
  <2>6. HoldTexts(into, loop).err \in Outcomes
    BY <2>4, <2>5 DEF Done, Failed, Outcomes
  <2> QED
    BY <2>1, <2>6 DEF f, v
<1> QED
  BY <1>3, <1>4

(* The message Unmarshal fills, entry by entry: after[n] is what it is     *)
(* after n of them.                                                        *)
Holds(k, stores, n, after) ==
    after = [j \in 0 .. n |-> IF j = 0 THEN Done(New(k))
                              ELSE HoldOne(after[j - 1], stores[j][1], stores[j][2])]

LEMMA HoldExists ==
    ASSUME NEW k, NEW stores, NEW n \in Nat
    PROVE  \E after : Holds(k, stores, n, after)
<1> DEFINE Good == {j \in 0 .. n : \E after : Holds(k, stores, j, after)}
<1>1. 0 \in Good
  <2> DEFINE g == [j \in 0 .. 0 |-> Done(New(k))]
  <2>1. \A j \in 0 .. 0 : j = 0
    OBVIOUS
  <2>2. g = [j \in 0 .. 0 |-> IF j = 0 THEN Done(New(k))
                              ELSE HoldOne(g[j - 1], stores[j][1], stores[j][2])]
    BY <2>1
  <2> HIDE DEF g
  <2>3. Holds(k, stores, 0, g)
    BY <2>2 DEF Holds
  <2> QED
    BY <2>3
<1>2. ASSUME NEW i \in 1 .. n, i - 1 \in Good PROVE i \in Good
  <2>1. PICK f : Holds(k, stores, i - 1, f)
    BY <1>2
  <2> DEFINE g == [j \in 0 .. i |-> IF j = i THEN HoldOne(f[i - 1], stores[i][1], stores[i][2])
                                    ELSE f[j]]
  <2>2. i \in Nat /\ i # 0 /\ i \in 0 .. i /\ i - 1 \in 0 .. i /\ i - 1 # i
    OBVIOUS
  <2>3. ASSUME NEW j \in 0 .. i
        PROVE  g[j] = IF j = 0 THEN Done(New(k))
                      ELSE HoldOne(g[j - 1], stores[j][1], stores[j][2])
    <3>1. CASE j = i
      <4>1. g[j] = HoldOne(f[i - 1], stores[i][1], stores[i][2]) /\ g[i - 1] = f[i - 1]
        BY <2>2, <3>1
      <4> HIDE DEF g
      <4> QED
        BY <2>2, <3>1, <4>1
    <3>2. CASE j # i
      <4>1. j \in 0 .. i - 1 /\ (j # 0 => j - 1 \in 0 .. i /\ j - 1 # i)
        BY <2>2, <3>2
      <4>2. g[j] = f[j] /\ (j # 0 => g[j - 1] = f[j - 1])
        BY <3>2, <4>1
      <4> HIDE DEF g
      <4>3. f[j] = IF j = 0 THEN Done(New(k))
                   ELSE HoldOne(f[j - 1], stores[j][1], stores[j][2])
        BY <2>1, <4>1 DEF Holds
      <4> QED
        BY <4>2, <4>3
    <3> QED
      BY <3>1, <3>2
  <2>4. g = [j \in 0 .. i |-> g[j]]
    OBVIOUS
  <2> HIDE DEF g
  <2>5. Holds(k, stores, i, g)
    BY <2>3, <2>4 DEF Holds
  <2> QED
    BY <2>5
<1>3. n \in Good
  <2>1. \A j \in 0 .. n : j \in Good
    <3> HIDE DEF Good
    <3> QED
      BY <1>1, <1>2, Iterations
  <2> QED
    BY <2>1
<1> QED
  BY <1>3

(* For every message and every bytes: none is read outside the input.      *)
LEMMA UnmarshalEnds ==
    ASSUME NEW k \in DOMAIN Fields, NEW b \in Seq(Byte)
    PROVE  Unmarshal(k, b).err \in Outcomes
<1> DEFINE loop == Loop(k, b)
           stores == loop.stores
           n == Len(stores)
           h == CHOOSE after : Holds(k, stores, n, after)
<1>1. loop \in Gathered(k)
  BY LoopIsGathered
<1>2. Unmarshal(k, b) = IF Ok(h[n]) /\ ~Ok(loop) THEN Failed(loop.err) ELSE h[n]
  BY DEF Unmarshal, Hold, Holds
<1> HIDE DEF loop
<1>3. stores \in Seq(Entries(k)) /\ loop.err \in Outcomes
  BY <1>1 DEF Gathered, Outcomes
<1> HIDE DEF stores
<1>4. n \in Nat
  BY <1>3
<1>5. Holds(k, stores, n, h)
  BY <1>4, HoldExists
<1> HIDE DEF h
<1>6. \A j \in 0 .. n : h[j] = IF j = 0 THEN Done(New(k))
                               ELSE HoldOne(h[j - 1], stores[j][1], stores[j][2])
  BY <1>5 DEF Holds
<1> DEFINE Good == {j \in 0 .. n : h[j].err \in Outcomes}
<1>7. 0 \in Good
  <2>1. 0 \in 0 .. n
    BY <1>4
  <2>2. h[0] = Done(New(k))
    BY <1>6, <2>1
  <2>3. h[0].err = "None"
    BY <2>2 DEF Done
  <2> QED
    BY <2>1, <2>3 DEF Outcomes
<1>8. ASSUME NEW j \in 1 .. n, j - 1 \in Good PROVE j \in Good
  <2> DEFINE e == stores[j]
             last == h[j - 1]
             r == Decoded(e[1], last.msg[e[1].name], e[2])
  <2>1. j \in 0 .. n /\ j # 0 /\ e \in Entries(k)
    BY <1>3, <1>4
  <2>2. h[j] = HoldOne(last, e[1], e[2])
    BY <1>6, <2>1
  <2>3. last.err \in Outcomes
    BY <1>8
  <2>4. r.err \in Outcomes
    <3> HIDE DEF e, last
    <3> QED
      BY <2>1, DecodedFails
  <2>5. HoldOne(last, e[1], e[2]) = IF Ok(last) THEN HeldIf(last.msg, e[1], r) ELSE last
    BY DEF HoldOne
  <2> HIDE DEF e, last, r
  <2>6. h[j] = r \/ h[j] = last \/ \E m : h[j] = Done(m)
    BY <2>2, <2>5 DEF HeldIf
  <2>7. \A m : Done(m).err \in Outcomes
    BY DEF Done, Outcomes
  <2>8. h[j].err \in Outcomes
    BY <2>3, <2>4, <2>6, <2>7
  <2> QED
    BY <2>1, <2>8
<1>9. h[n].err \in Outcomes
  <2>1. \A j \in 0 .. n : j \in Good
    <3> HIDE DEF Good, n
    <3> QED
      BY <1>4, <1>7, <1>8, Iterations
  <2> QED
    BY <1>4, <2>1
<1> QED
  BY <1>2, <1>3, <1>9 DEF Failed

-----------------------------------------------------------------------------
(* What the sender sends is bytes.                                         *)

LEMMA SmallTables ==
    /\ New("Coin") = [n \in {"denom", "amount"} |-> <<>>]
    /\ FieldNames("Coin") = {"denom", "amount"}
    /\ New("KVPair") = [n \in {"key", "value"} |-> <<>>] /\ FieldNames("KVPair") = {"key", "value"}
<1>1. ASSUME NEW k \in {"Coin", "KVPair"}, NEW N, FieldNames(k) = N,
             \A f \in ToSet(Fields[k]) : f.type = "text"
      PROVE  New(k) = [n \in N |-> <<>>]
  <2>1. ASSUME NEW n \in N
        PROVE  Zero(CHOOSE f \in ToSet(Fields[k]) : f.name = n) = <<>>
    <3> DEFINE g == CHOOSE f \in ToSet(Fields[k]) : f.name = n
    <3>1. \E f \in ToSet(Fields[k]) : f.name = n
      BY <1>1 DEF FieldNames
    <3>2. g \in ToSet(Fields[k])
      BY <3>1
    <3> HIDE DEF g
    <3>3. Zero(g) = <<>>
      BY <1>1, <3>2 DEF Zero
    <3> QED
      BY <3>3 DEF g
  <2> QED
    BY <1>1, <2>1 DEF New
<1>2. \A n : Text(n).type = "text" /\ Text(n).name = n
  BY DEF Text
<1>3. Fields["Coin"] = CoinFields /\ Fields["KVPair"] = KVPairFields
  BY DEF Fields
<1>4. ToSet(CoinFields) = {Text("denom"), Text("amount")}
  <2>1. DOMAIN CoinFields = 1 .. 2 /\ CoinFields[1] = Text("denom")
        /\ CoinFields[2] = Text("amount") /\ 1 .. 2 = {1, 2}
    BY DEF CoinFields, Amount
  <2> QED
    BY <2>1 DEF ToSet
<1>5. ToSet(KVPairFields) = {Text("key"), Text("value")}
  <2>1. DOMAIN KVPairFields = 1 .. 2 /\ KVPairFields[1] = Text("key")
        /\ KVPairFields[2] = Text("value") /\ 1 .. 2 = {1, 2}
    BY DEF KVPairFields
  <2> QED
    BY <2>1 DEF ToSet
<1>6. FieldNames("Coin") = {"denom", "amount"} /\ FieldNames("KVPair") = {"key", "value"}
  BY <1>2, <1>3, <1>4, <1>5 DEF FieldNames
<1>7. /\ \A f \in ToSet(Fields["Coin"]) : f.type = "text"
      /\ \A f \in ToSet(Fields["KVPair"]) : f.type = "text"
  BY <1>2, <1>3, <1>4, <1>5
<1> QED
  BY <1>1, <1>6, <1>7

LEMMA EmptyText ==
    /\ <<>> \in Content /\ \A num : PutText(num, <<>>) = <<>>
    /\ \A s \in Seq(Byte) : s \o <<>> = s /\ <<>> \o s = s
<1>1. <<>> \in Seq(Byte) /\ Len(<<>>) = 0
  OBVIOUS
<1> QED
  BY <1>1, WordSizes, ConcatEmptySeq DEF Content, PutText

LEMMA EmbeddedFields ==
    /\ \A n : Text(n).name = n /\ Text(n).type = "text"
    /\ DOMAIN Fields["Coin"] = {1, 2}
    /\ Fields["Coin"][1] = Text("denom") /\ Fields["Coin"][2] = Text("amount")
    /\ DOMAIN Fields["KVPair"] = {1, 2}
    /\ Fields["KVPair"][1] = Text("key") /\ Fields["KVPair"][2] = Text("value")
    /\ DOMAIN Fields["Params"] = {1, 2, 3, 4, 5}
    /\ Fields["Params"][1] = Text("sysnames_pkgpath")
    /\ Fields["Params"][2] = Text("chain_domain")
    /\ Fields["Params"][3] = Text("default_deposit")
    /\ Fields["Params"][4] = Text("storage_price")
    /\ Fields["Params"][5] = Text("storage_fee_collector")
<1>1. \A n : Text(n).name = n /\ Text(n).type = "text"
  BY DEF Text
<1>2. Fields["Coin"] = CoinFields /\ Fields["KVPair"] = KVPairFields
      /\ Fields["Params"] = ParamsFields
  BY DEF Fields
<1>3. DOMAIN CoinFields = {1, 2} /\ CoinFields[1] = Text("denom") /\ CoinFields[2] = Text("amount")
  BY DEF CoinFields, Amount
<1>4. DOMAIN KVPairFields = {1, 2} /\ KVPairFields[1] = Text("key") /\ KVPairFields[2] = Text("value")
  BY DEF KVPairFields
<1>5. /\ DOMAIN ParamsFields = {1, 2, 3, 4, 5}
      /\ ParamsFields[1] = Text("sysnames_pkgpath")
      /\ ParamsFields[2] = Text("chain_domain")
      /\ ParamsFields[3] = Text("default_deposit")
      /\ ParamsFields[4] = Text("storage_price")
      /\ ParamsFields[5] = Text("storage_fee_collector")
  <2>1. 1 .. 5 = {1, 2, 3, 4, 5}
    OBVIOUS
  <2> QED
    BY <2>1 DEF ParamsFields
<1> QED
  BY <1>1, <1>2, <1>3, <1>4, <1>5

LEMMA EmbeddedTables ==
    ASSUME NEW k \in Embedded
    PROVE  /\ k \in DOMAIN Fields /\ 1 \in DOMAIN Fields[k]
           /\ New(k) = [n \in FieldNames(k) |-> <<>>]
           /\ \A num \in DOMAIN Fields[k] :
                 num \in 1 .. 5 /\ Fields[k][num].type = "text" /\ Fields[k][num].name \in FieldNames(k)
<1>1. k \in DOMAIN Fields
  BY TablesDeclare
<1>2. New(k) = [n \in FieldNames(k) |-> <<>>]
  BY SmallTables, ParamsTable DEF Embedded
<1>3. \A num \in DOMAIN Fields[k] : Fields[k][num].name \in FieldNames(k)
  BY DEF FieldNames, ToSet
<1>4. CASE k = "Coin"
  BY <1>1, <1>2, <1>3, <1>4, EmbeddedFields
<1>5. CASE k = "KVPair"
  BY <1>1, <1>2, <1>3, <1>5, EmbeddedFields
<1>6. CASE k = "Params"
  BY <1>1, <1>2, <1>3, <1>6, EmbeddedFields
<1> QED
  BY <1>4, <1>5, <1>6 DEF Embedded

LEMMA VarintsAreBytes ==
    ASSUME NEW v \in 0 .. Uint64 - 1
    PROVE  /\ VarintBytes(v) \in Seq(Byte) /\ Len(VarintBytes(v)) \in 1 .. Groups
           /\ VarintBytes(v)[Len(VarintBytes(v))] < 128
  BY VarintsSpell DEF Spells

LEMMA UnusualBytes ==
    ASSUME NEW s \in Seq(Byte), Len(s) \in 1 .. Groups, s[Len(s)] < 128, NEW t \in Unusual(s)
    PROVE  t \in Seq(Byte)
<1>1. Groups \in Nat
  BY WordSizes
<1>2. \A k \in 1 .. Len(s) : s[k] \in 0 .. 255
  <2>1. \A k \in 1 .. Len(s) : s[k] \in Byte
    BY ElementOfSeq
  <2> QED
    BY <2>1 DEF Byte
<1>3. Wrapped(s) \in Seq(Byte)
  <2> DEFINE byte(k) == IF k <= Len(s) THEN s[k] % 128 ELSE 0
  <2>1. ASSUME NEW k \in 1 .. Groups
        PROVE  byte(k) \in 0 .. 127
    <3>1. CASE k <= Len(s)
      <4>1. k \in 1 .. Len(s)
        BY <1>1, <3>1
      <4> DEFINE x == s[k]
      <4>2. x \in 0 .. 255
        BY <1>2, <4>1
      <4> HIDE DEF x
      <4>3. x % 128 \in 0 .. 127
        BY <4>2
      <4> QED
        BY <3>1, <4>3 DEF x
    <3>2. CASE ~(k <= Len(s))
      BY <3>2
    <3> QED
      BY <3>1, <3>2
  <2>2. Wrapped(s) = [k \in 1 .. Groups |-> IF k < Groups THEN byte(k) + 128 ELSE byte(k) + 2]
    BY DEF Wrapped
  <2> HIDE DEF byte
  <2>3. ASSUME NEW k \in 1 .. Groups
        PROVE  (IF k < Groups THEN byte(k) + 128 ELSE byte(k) + 2) \in Byte
    <3> DEFINE x == byte(k)
    <3>1. x \in 0 .. 127
      BY <2>1
    <3> HIDE DEF x
    <3>2. (IF k < Groups THEN x + 128 ELSE x + 2) \in Byte
      BY <3>1 DEF Byte
    <3> QED
      BY <3>2 DEF x
  <2> QED
    BY <1>1, <2>2, <2>3
<1>4. Longer(s) \in Seq(Byte)
  <2> DEFINE u == [k \in DOMAIN s |-> IF k = Len(s) THEN s[k] + 128 ELSE s[k]]
  <2>1. ASSUME NEW k \in 1 .. Len(s) PROVE (IF k = Len(s) THEN s[k] + 128 ELSE s[k]) \in Byte
    <3> DEFINE x == s[k]
    <3>1. x \in 0 .. 255 /\ (k = Len(s) => x < 128)
      BY <1>2
    <3> HIDE DEF x
    <3>2. (IF k = Len(s) THEN x + 128 ELSE x) \in Byte
      BY <3>1 DEF Byte
    <3> QED
      BY <3>2 DEF x
  <2>2. DOMAIN s = 1 .. Len(s) /\ Len(s) \in Nat
    OBVIOUS
  <2>3. u \in Seq(Byte)
    <3>1. u \in [1 .. Len(s) -> Byte]
      BY <2>1, <2>2
    <3> HIDE DEF u
    <3> QED
      BY <2>2, <3>1
  <2>4. <<0>> \in Seq(Byte)
    BY DEF Byte
  <2> HIDE DEF u
  <2>5. u \o <<0>> \in Seq(Byte)
    BY <2>3, <2>4, ConcatProperties
  <2> QED
    BY <2>5 DEF Longer, u
<1> QED
  BY <1>3, <1>4 DEF Unusual

LEMMA HeadBytes ==
    ASSUME NEW num \in 1 .. Foreign, NEW wt \in 0 .. 7, NEW n \in 0 .. Uint64 - 1
    PROVE  Plain(num, wt, n) \in Seq(Byte) /\ Odd(num, wt, n) \subseteq Seq(Byte)
<1> DEFINE x == num * 8 + wt
           y == (num + FieldUint) * 8 + wt
           tag == VarintBytes(x)
           count == VarintBytes(n)
           far == VarintBytes(y)
<1>1. x \in 0 .. Uint64 - 1 /\ y \in 0 .. Uint64 - 1
  <2>1. num \in Nat /\ num <= 15 /\ wt \in Nat /\ wt <= 7
    BY DEF Foreign
  <2>2. x \in Nat /\ x <= 127 /\ y = x + 8 * FieldUint
    BY <2>1, WordSizes
  <2> HIDE DEF x, y
  <2> QED
    BY <2>2, WordSizes
<1> HIDE DEF x, y
<1>2. /\ tag \in Seq(Byte) /\ Len(tag) \in 1 .. Groups /\ tag[Len(tag)] < 128
      /\ count \in Seq(Byte) /\ Len(count) \in 1 .. Groups /\ count[Len(count)] < 128
      /\ far \in Seq(Byte)
  BY <1>1, VarintsAreBytes
<1>3. Plain(num, wt, n) = tag \o count
      /\ Odd(num, wt, n) = {t \o count : t \in Unusual(tag) \cup {far}}
                           \cup {tag \o c : c \in Unusual(count)}
  BY DEF Plain, Odd, x, y
<1> HIDE DEF tag, count, far
<1>4. Unusual(tag) \cup {far} \subseteq Seq(Byte) /\ Unusual(count) \subseteq Seq(Byte)
  BY <1>2, UnusualBytes
<1>5. \A s, t \in Seq(Byte) : s \o t \in Seq(Byte)
  BY ConcatProperties
<1>6. tag \o count \in Seq(Byte)
  BY <1>2, <1>5
<1>7. {t \o count : t \in Unusual(tag) \cup {far}} \subseteq Seq(Byte)
  BY <1>2, <1>4, <1>5
<1>8. {tag \o c : c \in Unusual(count)} \subseteq Seq(Byte)
  BY <1>2, <1>4, <1>5
<1> QED
  BY <1>3, <1>6, <1>7, <1>8

(* What stands behind the tag and the length of a field.                   *)
LEMMA TextsFitBehind ==
    ASSUME NEW num \in 1 .. 5, NEW s \in Texts \cup {<<>>}
    PROVE  PutText(num, s) \in Content
<1>1. num \in 1 .. Foreign /\ s \in Content
  BY TextsFit, EmptyText DEF Foreign
<1>2. PutText(num, s) \in Seq(Byte) /\ Len(PutText(num, s)) = TextSize(s)
  BY <1>1, TextBytes
<1>3. TextSize(s) < Half
  <2>1. CASE s = <<>>
    BY <2>1, WordSizes DEF TextSize
  <2>2. CASE s # <<>>
    <3>1. s \in Seq(Byte) /\ Len(s) + 1 + Groups < Half /\ Len(s) \in Nat
      <4>1. s \in Texts
        BY <2>2
      <4>2. Len(s) + 1 + Groups < Half
        BY <4>1, SenderAssumption
      <4> QED
        BY <1>1, <4>2 DEF Content
    <3>2. Len(s) \in 0 .. Uint64 - 1
      BY <3>1, WordSizes
    <3>3. Sov(Len(s)) \in 1 .. Groups
      BY <3>2, VarintsSpell DEF Spells
    <3>4. TextSize(s) = 1 + Len(s) + Sov(Len(s)) \/ TextSize(s) = 0
      BY DEF TextSize, FieldSize
    <3> DEFINE l == Len(s)  o == Sov(Len(s))  z == TextSize(s)
    <3> HIDE DEF l, o, z
    <3>5. l \in Nat /\ o \in 1 .. Groups /\ l + 1 + Groups < Half /\ (z = 1 + l + o \/ z = 0)
      BY <3>1, <3>3, <3>4 DEF l, o, z
    <3>6. z < Half
      BY <3>5, WordSizes
    <3> QED
      BY <3>6 DEF z
  <2> QED
    BY <2>1, <2>2
<1> QED
  BY <1>2, <1>3 DEF Content

LEMMA DataFits ==
    ASSUME NEW k \in DOMAIN Fields, NEW num \in DOMAIN Fields[k],
           NEW v \in Contents(Fields[k][num])
    PROVE  LET f == Fields[k][num]
           IN  IF f.type = "uint" THEN v \in 0 .. Uint64 - 1 ELSE Body(f, v) \in Content
<1> DEFINE f == Fields[k][num]
<1>1. Declares(f)
  BY TablesDeclare
<1>2. v \in Contents(f)
  OBVIOUS
<1> HIDE DEF f
<1>3. CASE f.type = "uint"
  <2>1. v \in Uints
    BY <1>2, <1>3 DEF Contents
  <2> QED
    BY <1>3, <2>1, SenderAssumption DEF f
<1>4. CASE f.type \in {"text", "strings"}
  <2>1. v \in Texts
    BY <1>2, <1>4 DEF Contents
  <2>2. v \in Content
    BY <2>1, TextsFit
  <2> QED
    BY <1>4, <2>2 DEF f, Body
<1>5. CASE f.type \in {"msg", "msgs"}
  <2>1. f.of \in Embedded
    BY <1>1, <1>5 DEF Declares
  <2>2. v.num \in DOMAIN Fields[f.of] /\ v.s \in Texts
    BY <1>2, <1>5 DEF Contents
  <2>3. v.num \in 1 .. 5 /\ v.s \in Texts \cup {<<>>}
    BY <2>1, <2>2, EmbeddedTables
  <2>4. PutText(v.num, v.s) \in Content
    BY <2>3, TextsFitBehind
  <2> QED
    BY <1>5, <2>4 DEF f, Body
<1> QED
  BY <1>1, <1>3, <1>4, <1>5 DEF Declares

WireIsBytes == kind \in DOMAIN Fields \ {"Coin"} /\ wire \in Seq(Byte)

LEMMA ArrivingBytes ==
    ASSUME WireIsBytes, NEW s \in Seq(Byte), NEW result, Arrives(s, result)
    PROVE  WireIsBytes'
<1>1. wire \in Seq(Byte) /\ wire' = wire \o s /\ kind' = kind
  BY DEF WireIsBytes, Arrives
<1>2. wire \o s \in Seq(Byte)
  BY <1>1, ConcatProperties
<1> QED
  BY <1>1, <1>2 DEF WireIsBytes

LEMMA WireStaysBytes == WireIsBytes /\ [Next]_vars => WireIsBytes'
<1> SUFFICES ASSUME WireIsBytes, [Next]_vars PROVE WireIsBytes'
  OBVIOUS
<1>1. ASSUME NEW num \in DOMAIN Fields[kind], NEW v \in Contents(Fields[kind][num]),
             SendField(num, v)
      PROVE  WireIsBytes'
  <2> DEFINE f == Fields[kind][num]
             wt == WireOf(f)
             count == CountOf(f, v)
             body == BodyOf(f, v)
  <2>1. kind \in DOMAIN Fields /\ num \in 1 .. 6
    BY TablesDeclare DEF WireIsBytes
  <2>2. IF f.type = "uint" THEN v \in 0 .. Uint64 - 1 ELSE Body(f, v) \in Content
    BY <2>1, DataFits
  <2>3. \E head, result : /\ head = Plain(num, wt, count) \/ head \in Odd(num, wt, count)
                          /\ Arrives(head \o body, result)
    BY <1>1, FieldIsSent DEF Heads
  <2>4. wt \in 0 .. 7 /\ count \in 0 .. Uint64 - 1 /\ body \in Seq(Byte)
    BY <2>2, WordSizes DEF Content, WireOf, CountOf, BodyOf
  <2> HIDE DEF wt, count, body
  <2>5. num \in 1 .. Foreign
    BY <2>1 DEF Foreign
  <2>6. PICK head, result : /\ head = Plain(num, wt, count) \/ head \in Odd(num, wt, count)
                            /\ Arrives(head \o body, result)
    BY <2>3
  <2>7. head \in Seq(Byte)
    BY <2>4, <2>5, <2>6, HeadBytes
  <2>8. head \o body \in Seq(Byte)
    BY <2>4, <2>7, ConcatProperties
  <2> QED
    BY <2>6, <2>8, ArrivingBytes
<1>2. ASSUME NEW num \in DOMAIN Fields[kind], SendWrongType(num) PROVE WireIsBytes'
  <2>1. num \in 1 .. 6
    BY TablesDeclare DEF WireIsBytes
  <2>2. PICK wt \in {0, 1, 2, 3, 5} : Arrives(<<num * 8 + wt, 0>>, Failed("WrongWireType"))
    BY <1>2 DEF SendWrongType
  <2>3. num * 8 + wt \in Byte /\ 0 \in Byte
    BY <2>1 DEF Byte
  <2>4. <<num * 8 + wt, 0>> \in Seq(Byte)
    BY <2>3
  <2> QED
    BY <2>2, <2>4, ArrivingBytes
<1>3. ASSUME SendForeign PROVE WireIsBytes'
  <2>1. PICK s \in ForeignFields : Arrives(s, expect)
    BY <1>3 DEF SendForeign
  <2>2. s \in Seq(Byte)
    <3>1. /\ <<120, 128, 1>> \in Seq(Byte) /\ <<121, 10, 0, 0, 0, 0, 0, 0, 10>> \in Seq(Byte)
          /\ <<122, 2, 10, 0>> \in Seq(Byte) /\ <<123, 123, 124, 8, 1, 124>> \in Seq(Byte)
          /\ <<125, 10, 1, 8, 128>> \in Seq(Byte)
      BY DEF Byte
    <3>2. ForeignFields = { <<120, 128, 1>>, <<121, 10, 0, 0, 0, 0, 0, 0, 10>>,
                            <<122, 2, 10, 0>>, <<123, 123, 124, 8, 1, 124>>,
                            <<125, 10, 1, 8, 128>> }
      <4>1. Foreign * 8 + 0 = 120 /\ Foreign * 8 + 1 = 121 /\ Foreign * 8 + 2 = 122
            /\ Foreign * 8 + 3 = 123 /\ Foreign * 8 + 4 = 124 /\ Foreign * 8 + 5 = 125
        BY DEF Foreign
      <4> HIDE DEF Foreign
      <4> QED
        BY <4>1 DEF ForeignFields
    <3> QED
      BY <3>1, <3>2, ZenonT(60)
  <2> QED
    BY <2>1, <2>2, ArrivingBytes
<1>4. ASSUME SendRefused PROVE WireIsBytes'
  <2> DEFINE u == [n \in 1 .. Groups |-> IF n < Groups THEN 255 ELSE 1]
             w == [n \in 1 .. Groups |-> 128]
             t == <<Foreign * 8 + 2>>
             tu == t \o u
             x == <<8 + 4>>
             y == <<2, 0>>
             z == <<Foreign * 8 + 6, 0>>
  <2>1. PICK r \in { <<x, "EndGroup">>, <<y, "IllegalTag">>, <<tu, "InvalidLength">>,
                     <<w, "IntOverflow">>, <<z, "IllegalWireType">> } :
              Arrives(r[1], Failed(r[2]))
    BY <1>4 DEF SendRefused
  <2>2. x \in Seq(Byte) /\ y \in Seq(Byte) /\ t \in Seq(Byte) /\ z \in Seq(Byte)
    BY DEF Foreign, Byte
  <2>3. u \in Seq(Byte) /\ w \in Seq(Byte)
    <3>1. Groups \in Nat
      BY WordSizes
    <3>2. 255 \in Byte /\ 1 \in Byte /\ 128 \in Byte
      BY DEF Byte
    <3>3. u \in [1 .. Groups -> Byte] /\ w \in [1 .. Groups -> Byte]
      BY <3>2
    <3> HIDE DEF u, w
    <3> QED
      BY <3>1, <3>3
  <2> HIDE DEF t, u, w, x, y, z
  <2>4. tu \in Seq(Byte)
    BY <2>2, <2>3, ConcatProperties
  <2> HIDE DEF tu
  <2>5. r[1] \in {x, y, tu, w, z}
    BY <2>1
  <2>6. r[1] \in Seq(Byte)
    BY <2>2, <2>3, <2>4, <2>5
  <2> QED
    BY <2>1, <2>6, ArrivingBytes
<1>5. ASSUME NEW byte \in Bytes, SendJunk(byte) PROVE WireIsBytes'
  <2>1. byte \in Byte
    BY SenderAssumption DEF Byte
  <2>2. wire' = Append(wire, byte) /\ kind' = kind /\ wire \in Seq(Byte)
    BY <1>5 DEF SendJunk, WireIsBytes
  <2>3. Append(wire, byte) \in Seq(Byte)
    BY <2>1, <2>2, AppendProperties
  <2> QED
    BY <2>2, <2>3 DEF WireIsBytes
<1>6. ASSUME UNCHANGED vars PROVE WireIsBytes'
  BY <1>6 DEF vars, WireIsBytes
<1> QED
  BY <1>1, <1>2, <1>3, <1>4, <1>5, <1>6 DEF Next

(* No bytes make a decoder read outside its input: for every message, for  *)
(* fields of any number and length and bytes without meaning, the loops of *)
(* Unmarshal and skipTx move on with every pass and check each end before  *)
(* they slice.                                                             *)
THEOREM NeverReadsOutside == Spec => []ReadsInside
<1>1. Init => WireIsBytes
  BY SenderAssumption DEF Init, WireIsBytes
<1>2. WireIsBytes => ReadsInside
  <2>1. "Panic" \notin Outcomes
    BY DEF Outcomes, Errors
  <2> QED
    BY <2>1, UnmarshalEnds DEF WireIsBytes, ReadsInside
<1> QED
  BY <1>1, <1>2, WireStaysBytes, PTL DEF Spec

-----------------------------------------------------------------------------
(* What bytes mean wherever they stand.                                    *)

(* The bytes p stand at offset i of c; c breaks off after x of them.       *)
Stands(p, c, i) ==
    /\ p \in Seq(Byte) /\ c \in Seq(Byte) /\ i \in Nat /\ i + Len(p) <= Len(c)
    /\ \A k \in 1 .. Len(p) : c[i + k] = p[k]
Breaks(p, x, c, i) ==
    /\ p \in Seq(Byte) /\ c \in Seq(Byte) /\ i \in Nat /\ x \in Nat /\ x < Len(p)
    /\ Len(c) = i + x /\ \A k \in 1 .. x : c[i + k] = p[k]

LEMMA Parts ==
    ASSUME NEW p \in Seq(Byte), NEW q \in Seq(Byte)
    PROVE  /\ p \o q \in Seq(Byte) /\ Len(p \o q) = Len(p) + Len(q)
           /\ Len(p) \in Nat /\ Len(q) \in Nat
           /\ \A k \in 1 .. Len(p) : k \in 1 .. Len(p \o q) /\ (p \o q)[k] = p[k]
           /\ \A k \in 1 .. Len(q) : /\ Len(p) + k \in 1 .. Len(p \o q)
                                     /\ (p \o q)[Len(p) + k] = q[k]
  OBVIOUS

LEMMA StandsParts ==
    ASSUME NEW p \in Seq(Byte), NEW q \in Seq(Byte), NEW c, NEW i, Stands(p \o q, c, i)
    PROVE  Stands(p, c, i) /\ Stands(q, c, i + Len(p))
<1> DEFINE r == p \o q
           n == Len(p)
           m == Len(q)
<1>1. /\ r \in Seq(Byte) /\ Len(r) = n + m /\ n \in Nat /\ m \in Nat
      /\ \A k \in 1 .. n : k \in 1 .. Len(r) /\ r[k] = p[k]
      /\ \A k \in 1 .. m : n + k \in 1 .. Len(r) /\ r[n + k] = q[k]
  BY Parts
<1>2. /\ c \in Seq(Byte) /\ i \in Nat /\ i + Len(r) <= Len(c) /\ Len(c) \in Nat
      /\ \A k \in 1 .. Len(r) : c[i + k] = r[k]
  BY DEF Stands
<1> HIDE DEF r
<1>3. \A k \in 1 .. n : c[i + k] = p[k]
  BY <1>1, <1>2
<1>4. \A k \in 1 .. m : c[(i + n) + k] = q[k]
  <2> SUFFICES ASSUME NEW k \in 1 .. m PROVE c[(i + n) + k] = q[k]
    OBVIOUS
  <2>1. c[i + (n + k)] = q[k]
    BY <1>1, <1>2
  <2>2. i + (n + k) = (i + n) + k
    BY <1>1, <1>2
  <2> QED
    BY <2>1, <2>2
<1> HIDE DEF n, m
<1>5. i + n \in Nat /\ i + n <= Len(c) /\ (i + n) + m <= Len(c)
  BY <1>1, <1>2
<1> QED
  BY <1>2, <1>3, <1>4, <1>5 DEF Stands, n, m

LEMMA BreaksParts ==
    ASSUME NEW p \in Seq(Byte), NEW q \in Seq(Byte), NEW x, NEW c, NEW i, Breaks(p \o q, x, c, i)
    PROVE  \/ Breaks(p, x, c, i)
           \/ /\ Stands(p, c, i)
              /\ x - Len(p) \in Nat /\ Breaks(q, x - Len(p), c, i + Len(p))
<1> DEFINE r == p \o q
           n == Len(p)
           m == Len(q)
           y == x - n
<1>1. /\ r \in Seq(Byte) /\ Len(r) = n + m /\ n \in Nat /\ m \in Nat
      /\ \A k \in 1 .. n : k \in 1 .. Len(r) /\ r[k] = p[k]
      /\ \A k \in 1 .. m : n + k \in 1 .. Len(r) /\ r[n + k] = q[k]
  BY Parts
<1>2. /\ c \in Seq(Byte) /\ i \in Nat /\ x \in Nat /\ x < Len(r) /\ Len(c) = i + x
      /\ \A k \in 1 .. x : c[i + k] = r[k]
  BY DEF Breaks
<1> HIDE DEF r
<1>3. CASE x < n
  <2>1. \A k \in 1 .. x : c[i + k] = p[k]
    BY <1>1, <1>2, <1>3
  <2> QED
    BY <1>2, <1>3, <2>1 DEF Breaks
<1>4. CASE x >= n
  <2>1. \A k \in 1 .. n : c[i + k] = p[k]
    BY <1>1, <1>2, <1>4
  <2>2. y \in Nat /\ y < m /\ i + n \in Nat /\ Len(c) = (i + n) + y /\ i + n <= Len(c)
    BY <1>1, <1>2, <1>4
  <2>3. \A k \in 1 .. y : c[(i + n) + k] = q[k]
    <3> SUFFICES ASSUME NEW k \in 1 .. y PROVE c[(i + n) + k] = q[k]
      OBVIOUS
    <3>1. k \in 1 .. m /\ n + k \in 1 .. x
      BY <1>1, <1>2, <2>2
    <3>2. c[i + (n + k)] = q[k]
      BY <1>1, <1>2, <3>1
    <3>3. i + (n + k) = (i + n) + k
      BY <1>1, <1>2, <3>1
    <3> QED
      BY <3>2, <3>3
  <2> HIDE DEF n, m, y
  <2>4. Stands(p, c, i)
    BY <1>2, <2>1, <2>2 DEF Stands, n
  <2>5. Breaks(q, y, c, i + n)
    BY <1>2, <2>2, <2>3 DEF Breaks, m
  <2> QED
    BY <2>2, <2>4, <2>5 DEF n, y
<1> QED
  BY <1>1, <1>2, <1>3, <1>4

(* A varint of value v, in one of its spellings.                           *)
Varint(s, v) ==
    /\ s \in Seq(Byte) /\ Len(s) \in 1 .. Groups
    /\ s[Len(s)] < 128 /\ \A k \in 1 .. Len(s) - 1 : s[k] >= 128
    /\ Value(s, 0, Len(s)) % Uint64 = v

LEMMA VarintStands ==
    ASSUME NEW s, NEW v, Varint(s, v), NEW c, NEW i, Stands(s, c, i)
    PROVE  ReadVarint(c, i) = At(v, i + Len(s))
<1> DEFINE n == Len(s)
<1>1. /\ s \in Seq(Byte) /\ n \in 1 .. Groups /\ s[n] < 128 /\ Groups \in Nat
      /\ \A k \in 1 .. n - 1 : s[k] >= 128
      /\ Value(s, 0, n) % Uint64 = v
  BY WordSizes DEF Varint
<1>2. c \in Seq(Byte) /\ i \in Nat /\ i + n <= Len(c) /\ \A k \in 1 .. n : c[i + k] = s[k]
  BY DEF Stands
<1> HIDE DEF n
<1>3. n \in Nat /\ n \in 1 .. n /\ \A k \in 1 .. n - 1 : k \in 1 .. n
  BY <1>1
<1>4. Takes(c, i, n)
  BY <1>1, <1>2, <1>3 DEF Takes
<1>5. ReadVarint(c, i) = At(Value(c, i, n) % Uint64, i + n)
  BY <1>1, <1>2, <1>4, VarintIsRead
<1>6. SameBytes(s, 0, c, i, n)
  <2>1. 0 + n <= Len(s) /\ 0 \in Nat
    BY <1>3 DEF n
  <2>2. \A k \in 1 .. n : c[i + k] = s[0 + k]
    BY <1>2
  <2> QED
    BY <1>1, <1>2, <1>3, <2>1, <2>2 DEF SameBytes
<1>7. Value(c, i, n) = Value(s, 0, n)
  BY <1>6, ValueMoves
<1> QED
  BY <1>1, <1>5, <1>7 DEF n

LEMMA VarintBreaks ==
    ASSUME NEW s, NEW v, Varint(s, v), NEW x, NEW c, NEW i, Breaks(s, x, c, i)
    PROVE  ReadVarint(c, i) = Failed("UnexpectedEOF")
<1> DEFINE m == Len(s)
<1>1. /\ s \in Seq(Byte) /\ m \in 1 .. Groups /\ Groups \in Nat
      /\ \A k \in 1 .. m - 1 : s[k] >= 128
  BY WordSizes DEF Varint
<1>2. /\ c \in Seq(Byte) /\ i \in Nat /\ x \in Nat /\ x < m /\ Len(c) = i + x
      /\ \A k \in 1 .. x : c[i + k] = s[k]
  BY DEF Breaks
<1> HIDE DEF m
<1>3. ~ \E n \in 1 .. Groups : Takes(c, i, n)
  <2> SUFFICES ASSUME NEW n \in 1 .. Groups, Takes(c, i, n) PROVE FALSE
    OBVIOUS
  <2>1. i + n <= i + x /\ c[i + n] < 128
    BY <1>2 DEF Takes
  <2>2. n \in 1 .. x /\ n \in 1 .. m - 1
    BY <1>1, <1>2, <2>1
  <2>3. c[i + n] = s[n] /\ s[n] >= 128
    BY <1>1, <1>2, <2>2
  <2>4. s[n] \in Nat
    <3>1. n \in 1 .. Len(s)
      BY <1>1, <2>2 DEF m
    <3>2. s[n] \in Byte
      BY <1>1, <3>1, ElementOfSeq
    <3> QED
      BY <3>2, BytesAreNumbers
  <2> QED
    BY <2>1, <2>3, <2>4
<1>4. ~(i + Groups <= Len(c))
  BY <1>1, <1>2
<1> QED
  BY <1>3, <1>4 DEF ReadVarint

LEMMA PlainVarint ==
    ASSUME NEW v \in 0 .. Uint64 - 1
    PROVE  Varint(VarintBytes(v), v) /\ Spells(VarintBytes(v), Len(VarintBytes(v)), v)
<1> DEFINE s == VarintBytes(v)
           n == Len(s)
<1>1. Spells(s, n, v)
  BY VarintsSpell
<1>2. v % Uint64 = v
  BY WordSizes
<1> HIDE DEF s
<1> QED
  BY <1>1, <1>2 DEF Spells, Varint, s

LEMMA LongerVarint ==
    ASSUME NEW s, NEW v, Spells(s, Len(s), v), Len(s) < Groups, v \in 0 .. Uint64 - 1
    PROVE  Varint(Longer(s), v)
<1> DEFINE n == Len(s)
           u == [k \in DOMAIN s |-> IF k = Len(s) THEN s[k] + 128 ELSE s[k]]
           t == Longer(s)
           m == n + 1
<1>1. /\ s \in Seq(Byte) /\ n \in Nat /\ n >= 1 /\ n < Groups /\ Groups \in Nat
      /\ s[n] < 128 /\ Value(s, 0, n) = v
      /\ \A k \in 1 .. n - 1 : s[k] >= 128
  BY WordSizes DEF Spells
<1>2. \A k \in 1 .. n : s[k] \in Nat /\ s[k] <= 255
  <2>1. \A k \in 1 .. n : s[k] \in Byte
    BY <1>1, ElementOfSeq
  <2> QED
    BY <2>1, BytesAreNumbers
<1>3. u \in Seq(Byte) /\ Len(u) = n /\ u[n] = s[n] + 128 /\ \A k \in 1 .. n - 1 : u[k] = s[k]
  <2>1. DOMAIN s = 1 .. n
    BY <1>1
  <2>2. ASSUME NEW k \in 1 .. n PROVE (IF k = n THEN s[k] + 128 ELSE s[k]) \in Byte
    <3> DEFINE x == s[k]
    <3>1. x \in Nat /\ x <= 255 /\ (k = n => x < 128)
      BY <1>1, <1>2
    <3> HIDE DEF x
    <3>2. (IF k = n THEN x + 128 ELSE x) \in Byte
      BY <3>1 DEF Byte
    <3> QED
      BY <3>2 DEF x
  <2>3. u \in [1 .. n -> Byte]
    BY <2>1, <2>2
  <2>4. \A k \in 1 .. n : u[k] = IF k = n THEN s[k] + 128 ELSE s[k]
    BY <2>1
  <2> HIDE DEF u, n
  <2>5. n \in 1 .. n /\ \A k \in 1 .. n - 1 : k \in 1 .. n /\ k # n
    BY <1>1
  <2> QED
    BY <1>1, <2>3, <2>4, <2>5
<1>4. t = u \o <<0>>
  BY DEF Longer
<1> HIDE DEF t, u
<1>5. <<0>> \in Seq(Byte) /\ Len(<<0>>) = 1 /\ <<0>>[1] = 0
  BY DEF Byte
<1>6. t \in Seq(Byte) /\ Len(t) = m /\ t[m] = 0 /\ \A k \in 1 .. n : t[k] = u[k]
  <2> DEFINE z == <<0>>
             r == u \o z
  <2>1. z \in Seq(Byte) /\ Len(z) = 1 /\ z[1] = 0 /\ t = r
    BY <1>4, <1>5
  <2> HIDE DEF z, n
  <2>0. u \in Seq(Byte) /\ z \in Seq(Byte)
    BY <1>3, <2>1
  <2>2. /\ r \in Seq(Byte) /\ Len(r) = Len(u) + Len(z) /\ Len(u) \in Nat /\ Len(z) \in Nat
        /\ \A k \in 1 .. Len(u) : k \in 1 .. Len(r) /\ r[k] = u[k]
        /\ \A k \in 1 .. Len(z) : Len(u) + k \in 1 .. Len(r) /\ r[Len(u) + k] = z[k]
    BY <2>0, Parts
  <2>3. 1 \in 1 .. Len(z)
    BY <2>1
  <2> HIDE DEF r
  <2> QED
    BY <1>3, <2>1, <2>2, <2>3
<1>7. \A k \in 1 .. n : t[k] >= 128 /\ t[k] % 128 = s[k] % 128
  <2> SUFFICES ASSUME NEW k \in 1 .. n PROVE t[k] >= 128 /\ t[k] % 128 = s[k] % 128
    OBVIOUS
  <2> DEFINE x == s[k]
             y == t[k]
  <2>1. x \in Nat /\ (k = n => x < 128 /\ y = x + 128) /\ (k # n => x >= 128 /\ y = x)
    BY <1>1, <1>2, <1>3, <1>6
  <2> HIDE DEF x, y
  <2>2. y >= 128 /\ y % 128 = x % 128
    BY <2>1
  <2> QED
    BY <2>2 DEF x, y
<1>8. PICK g : Reads(g, s, 0, n)
  <2>1. 0 + n <= Len(s) /\ 0 \in Nat
    BY <1>1
  <2> QED
    BY <1>1, <2>1, ValueReads
<1> DEFINE h == [k \in 0 .. m |-> IF k = m THEN 0 ELSE g[k]]
<1> HIDE DEF n
<1>9. Reads(h, t, 0, m)
  <2>1. g \in [0 .. n -> Nat] /\ g[n] = 0
        /\ \A k \in 0 .. n - 1 : g[k] = (s[0 + k + 1] % 128) + 128 * g[k + 1]
    BY <1>8 DEF Reads
  <2>2. h \in [0 .. m -> Nat] /\ h[m] = 0 /\ \A k \in 0 .. n : h[k] = g[k]
    BY <1>1, <2>1
  <2> HIDE DEF h
  <2>3. ASSUME NEW k \in 0 .. m - 1
        PROVE  h[k] = (t[0 + k + 1] % 128) + 128 * h[k + 1]
    <3>1. CASE k = n
      <4>1. h[k] = 0 /\ h[k + 1] = 0 /\ t[0 + k + 1] = 0
        BY <1>1, <1>6, <2>1, <2>2, <3>1
      <4> QED
        BY <4>1
    <3>2. CASE k # n
      <4>1. k \in 0 .. n - 1 /\ k \in 0 .. n /\ k + 1 \in 0 .. n /\ k + 1 \in 1 .. n /\ 0 + k + 1 = k + 1
        BY <1>1, <3>2
      <4>2. h[k] = g[k] /\ h[k + 1] = g[k + 1]
        BY <2>2, <4>1
      <4>3. t[k + 1] % 128 = s[k + 1] % 128
        BY <1>7, <4>1
      <4>4. g[k] = (s[k + 1] % 128) + 128 * g[k + 1]
        BY <2>1, <4>1
      <4> QED
        BY <4>1, <4>2, <4>3, <4>4
    <3> QED
      BY <3>1, <3>2
  <2> QED
    BY <2>2, <2>3 DEF Reads
<1>10. Value(t, 0, m) = v
  <2>1. 0 + m <= Len(t) /\ 0 \in Nat /\ m \in Nat /\ 0 + n <= Len(s) /\ n \in Nat
    BY <1>1, <1>6 DEF n
  <2>2. Value(t, 0, m) = h[0]
    <3> HIDE DEF h, m
    <3> QED
      BY <1>6, <1>9, <2>1, ValueIs
  <2>3. Value(s, 0, n) = g[0]
    BY <1>1, <1>8, <2>1, ValueIs
  <2>4. h[0] = g[0]
    BY <1>1
  <2> QED
    BY <1>1, <2>2, <2>3, <2>4
<1>11. v % Uint64 = v
  BY WordSizes
<1>12. m \in 1 .. Groups /\ m - 1 = n /\ m \in Nat
  BY <1>1
<1> HIDE DEF m
<1>13. t[m] < 128 /\ \A k \in 1 .. m - 1 : t[k] >= 128
  BY <1>6, <1>7, <1>12
<1> QED
  BY <1>6, <1>10, <1>11, <1>12, <1>13 DEF Varint, t

(* What is left of a value behind k groups is below the rest of the word.  *)
LEMMA LeftIsSmall ==
    ASSUME NEW s \in Seq(Byte), NEW n \in 1 .. Groups, n <= Len(s), NEW g, Reads(g, s, 0, n),
           g[0] < Uint64
    PROVE  \A k \in 0 .. n - 1 : Word - 7 * k \in 0 .. Word /\ g[k] < Pow2[Word - 7 * k]
<1> DEFINE Good == {k \in 0 .. n - 1 : Word - 7 * k \in 0 .. Word /\ g[k] < Pow2[Word - 7 * k]}
           last == n - 1
<1>1. /\ n \in Nat /\ n >= 1 /\ last \in Nat /\ Word \in Nat /\ Groups \in Nat
      /\ n <= Groups /\ Word = 7 * Groups - 6
  BY WordSizes
<1>2. /\ g \in [0 .. n -> Nat]
      /\ \A k \in 0 .. n - 1 : g[k] = (s[0 + k + 1] % 128) + 128 * g[k + 1]
  BY DEF Reads
<1>3. 0 \in Good
  BY <1>1 DEF Uint64
<1>4. ASSUME NEW k \in 1 .. last, k - 1 \in Good PROVE k \in Good
  <2> DEFINE j == Word - 7 * k
             x == s[k] % 128
  <2>1. j \in Nat /\ j + 7 <= Word /\ j + 7 = Word - 7 * (k - 1) /\ k \in 0 .. n - 1 /\ k \in 1 .. Len(s)
    BY <1>1
  <2>2. k - 1 \in 0 .. n - 1 /\ 0 + (k - 1) + 1 = k /\ (k - 1) + 1 = k /\ k \in 0 .. n
    BY <1>1
  <2>3. g[k - 1] = x + 128 * g[k]
    BY <1>2, <2>2
  <2>4. x \in Nat
    <3>1. s[k] \in Nat
      BY <2>1, ElementOfSeq, BytesAreNumbers
    <3> QED
      BY <3>1
  <2>5. g[k] \in Nat /\ g[k - 1] \in Nat
    BY <1>2, <2>2
  <2> HIDE DEF x
  <2>6. g[k - 1] < Pow2[j + 7]
    BY <1>4, <2>1
  <2> HIDE DEF j
  <2>7. Pow2[j + 7] = 128 * Pow2[j] /\ Pow2[j] \in Nat
    BY <2>1, SevenBits
  <2> DEFINE a == g[k]
             b == Pow2[j]
  <2>8. a \in Nat /\ b \in Nat /\ x + 128 * a < 128 * b
    BY <2>3, <2>5, <2>6, <2>7
  <2> HIDE DEF a, b
  <2>9. a < b
    BY <2>4, <2>8
  <2>10. g[k] < Pow2[j]
    BY <2>9 DEF a, b
  <2>11. j \in 0 .. Word
    BY <1>1, <2>1
  <2> QED
    BY <2>1, <2>10, <2>11 DEF j
<1>5. \A k \in 0 .. last : k \in Good
  <2> HIDE DEF Good, last
  <2> QED
    BY <1>1, <1>3, <1>4, Iterations
<1> QED
  BY <1>5

LEMMA WrappedVarint ==
    ASSUME NEW s, NEW v, Spells(s, Len(s), v), v \in 0 .. Uint64 - 1
    PROVE  Varint(Wrapped(s), v)
<1> DEFINE n == Len(s)
           last == Groups - 1
           byte(k) == IF k <= n THEN s[k] % 128 ELSE 0
           t == Wrapped(s)
<1>1. /\ s \in Seq(Byte) /\ n \in Nat /\ n >= 1 /\ n <= Groups /\ Groups \in Nat /\ n \in 1 .. Groups
      /\ s[n] < 128 /\ Value(s, 0, n) = v /\ last \in Nat /\ last >= 1
      /\ v \in Nat /\ v < Uint64 /\ n <= Len(s)
  BY WordSizes DEF Spells
<1>2. \A k \in 1 .. n : s[k] \in Nat /\ s[k] <= 255
  <2>1. \A k \in 1 .. n : s[k] \in Byte
    BY <1>1, ElementOfSeq
  <2> QED
    BY <2>1, BytesAreNumbers
<1>3. PICK g : Reads(g, s, 0, n)
  <2>1. 0 + n <= Len(s) /\ 0 \in Nat
    BY <1>1
  <2> QED
    BY <1>1, <2>1, ValueReads
<1>4. /\ g \in [0 .. n -> Nat] /\ g[n] = 0
      /\ \A k \in 0 .. n - 1 : g[k] = (s[0 + k + 1] % 128) + 128 * g[k + 1]
  BY <1>3 DEF Reads
<1>5. g[0] = v
  <2>1. 0 + n <= Len(s) /\ 0 \in Nat
    BY <1>1
  <2> QED
    BY <1>1, <1>3, <2>1, ValueIs
<1>6. \A k \in 0 .. n - 1 : Word - 7 * k \in 0 .. Word /\ g[k] < Pow2[Word - 7 * k]
  BY <1>1, <1>3, <1>5, LeftIsSmall
<1>7. \A k \in 1 .. Groups : byte(k) \in 0 .. 127
  <2> SUFFICES ASSUME NEW k \in 1 .. Groups PROVE byte(k) \in 0 .. 127
    OBVIOUS
  <2>1. CASE k <= n
    <3> DEFINE x == s[k]
    <3>1. x \in Nat
      BY <1>1, <1>2, <2>1
    <3> HIDE DEF x
    <3>2. x % 128 \in 0 .. 127
      BY <3>1
    <3> QED
      BY <2>1, <3>2 DEF x
  <2>2. CASE ~(k <= n)
    BY <2>2
  <2> QED
    BY <2>1, <2>2
<1>8. byte(Groups) <= 1
  <2>1. CASE n < Groups
    BY <1>1, <2>1
  <2>2. CASE n = Groups
    <3>1. last \in 0 .. n - 1 /\ 0 + last + 1 = n /\ last + 1 = n /\ Word - 7 * last = 1
      BY <1>1, <2>2, WordSizes
    <3>2. g[last] < Pow2[1] /\ g[last] = (s[n] % 128) + 128 * g[n]
      <4> HIDE DEF last, n
      <4>1. g[last] < Pow2[1]
        BY <1>6, <3>1
      <4>2. g[last] = (s[0 + last + 1] % 128) + 128 * g[last + 1]
        BY <1>4, <3>1
      <4> QED
        BY <3>1, <4>1, <4>2
    <3>3. Pow2[1] = 2
      <4>1. 1 \in 1 .. Word /\ 1 - 1 = 0
        BY WordSizes
      <4>2. Pow2[1] = 2 * Pow2[1 - 1] /\ Pow2[0] = 1
        BY <4>1, Powers
      <4> QED
        BY <4>2
    <3> DEFINE x == s[n] % 128
    <3>4. x \in 0 .. 127
      BY <1>1, <1>7, <2>2
    <3>5. x < 2
      <4>1. g[last] = x + 128 * g[n] /\ g[n] = 0
        BY <1>4, <3>2
      <4> HIDE DEF x, last, n
      <4> QED
        BY <3>2, <3>3, <3>4, <4>1
    <3> HIDE DEF x
    <3>6. byte(Groups) = x
      BY <1>1, <2>2 DEF x
    <3> HIDE DEF byte
    <3> QED
      BY <3>4, <3>5, <3>6
  <2> QED
    BY <1>1, <2>1, <2>2
<1>9. \A k \in 0 .. n - 1 : g[k] = byte(k + 1) + 128 * g[k + 1]
  <2> SUFFICES ASSUME NEW k \in 0 .. n - 1 PROVE g[k] = byte(k + 1) + 128 * g[k + 1]
    OBVIOUS
  <2>1. k + 1 <= n /\ 0 + k + 1 = k + 1
    BY <1>1
  <2> QED
    BY <1>4, <2>1
<1>10. \A k \in n + 1 .. Groups : byte(k) = 0
  BY <1>1
<1>11. t = [k \in 1 .. Groups |-> IF k < Groups THEN byte(k) + 128 ELSE byte(k) + 2]
  BY DEF Wrapped
<1> HIDE DEF byte, t
<1>12. /\ t \in [1 .. Groups -> Byte]
       /\ \A k \in 1 .. Groups - 1 : t[k] = byte(k) + 128
       /\ t[Groups] = byte(Groups) + 2
  <2>1. ASSUME NEW k \in 1 .. Groups
        PROVE  (IF k < Groups THEN byte(k) + 128 ELSE byte(k) + 2) \in Byte
    <3> DEFINE x == byte(k)
    <3>1. x \in 0 .. 127
      BY <1>7
    <3> HIDE DEF x
    <3>2. (IF k < Groups THEN x + 128 ELSE x + 2) \in Byte
      BY <3>1 DEF Byte
    <3> QED
      BY <3>2 DEF x
  <2>2. \A k \in 1 .. Groups - 1 : t[k] = byte(k) + 128
    BY <1>1, <1>11
  <2>3. t[Groups] = byte(Groups) + 2
    BY <1>1, <1>11
  <2> QED
    BY <1>11, <2>1, <2>2, <2>3
<1>13. t \in Seq(Byte) /\ Len(t) = Groups
  BY <1>1, <1>12
<1>14. t[Groups] < 128 /\ \A k \in 1 .. Groups - 1 : t[k] >= 128
  <2>1. \A k \in 1 .. Groups : byte(k) \in Nat
    <3>1. 0 .. 127 \subseteq Nat
      OBVIOUS
    <3> QED
      BY <1>7, <3>1
  <2>2. Groups \in 1 .. Groups /\ \A k \in 1 .. Groups - 1 : k \in 1 .. Groups
    BY <1>1
  <2>3. t[Groups] < 128
    BY <1>8, <1>12, <2>1, <2>2
  <2>4. \A k \in 1 .. Groups - 1 : t[k] >= 128
    <3> SUFFICES ASSUME NEW k \in 1 .. Groups - 1 PROVE t[k] >= 128
      OBVIOUS
    <3> DEFINE x == byte(k)
    <3>1. x \in Nat /\ t[k] = x + 128
      BY <1>12, <2>1, <2>2
    <3> HIDE DEF x
    <3> QED
      BY <3>1
  <2> QED
    BY <2>3, <2>4
<1> DEFINE pow(k) == Pow2[7 * (last - k)]
           rest(k) == IF k <= n THEN g[k] ELSE 0
           h == [k \in 0 .. Groups |-> IF k = Groups THEN 0 ELSE rest(k) + 2 * pow(k)]
<1>15. \A k \in 0 .. last : pow(k) \in Nat
  <2> SUFFICES ASSUME NEW k \in 0 .. last PROVE pow(k) \in Nat
    OBVIOUS
  <2> DEFINE j == 7 * (last - k)
  <2>1. j \in 0 .. Word
    BY <1>1, WordSizes
  <2> HIDE DEF j
  <2>2. Pow2[j] \in Nat
    BY <2>1, Powers
  <2> QED
    BY <2>2 DEF j
<1>16. \A k \in 0 .. last - 1 : pow(k) = 128 * pow(k + 1)
  <2> SUFFICES ASSUME NEW k \in 0 .. last - 1 PROVE pow(k) = 128 * pow(k + 1)
    OBVIOUS
  <2> DEFINE j == 7 * (last - (k + 1))
  <2>1. j \in Nat /\ j + 7 <= Word /\ j + 7 = 7 * (last - k)
    BY <1>1, WordSizes
  <2> HIDE DEF j
  <2>2. Pow2[j + 7] = 128 * Pow2[j]
    BY <2>1, SevenBits
  <2> QED
    BY <2>1, <2>2 DEF j
<1>17. pow(last) = 1 /\ 2 * pow(0) = Uint64
  <2>1. 7 * (last - last) = 0 /\ 7 * (last - 0) = Word - 1
    BY <1>1, WordSizes
  <2>2. Pow2[0] = 1
    BY Powers
  <2>3. Uint64 = 2 * Pow2[Word - 1]
    BY WordSizes DEF Half
  <2> QED
    BY <2>1, <2>2, <2>3
<1> HIDE DEF pow
<1>18. /\ \A k \in 0 .. Groups : rest(k) \in Nat
       /\ \A k \in 0 .. last : rest(k) = byte(k + 1) + 128 * rest(k + 1)
       /\ rest(0) = v /\ rest(Groups) = 0
  <2>1. \A k \in 0 .. Groups : rest(k) \in Nat
    BY <1>1, <1>4
  <2>2. ASSUME NEW k \in 0 .. last PROVE rest(k) = byte(k + 1) + 128 * rest(k + 1)
    <3>1. CASE k < n
      <4>1. k \in 0 .. n - 1 /\ k + 1 <= n /\ k <= n
        BY <1>1, <3>1
      <4> QED
        BY <1>9, <4>1
    <3>2. CASE ~(k < n)
      <4>1. k + 1 \in n + 1 .. Groups /\ ~(k + 1 <= n)
        BY <1>1, <3>2
      <4>2. rest(k) = 0 /\ rest(k + 1) = 0
        BY <1>1, <1>4, <3>2, <4>1
      <4>3. byte(k + 1) = 0
        BY <1>10, <4>1
      <4> QED
        BY <4>2, <4>3
    <3> QED
      BY <3>1, <3>2
  <2>3. rest(0) = v /\ rest(Groups) = 0
    BY <1>1, <1>4, <1>5
  <2> QED
    BY <2>1, <2>2, <2>3
<1> HIDE DEF rest
<1>19. h \in [0 .. Groups -> Nat] /\ h[Groups] = 0 /\ h[0] = v + Uint64
       /\ \A k \in 0 .. last : h[k] = rest(k) + 2 * pow(k)
  <2>1. \A k \in 0 .. last : h[k] = rest(k) + 2 * pow(k)
    BY <1>1
  <2>2. \A k \in 0 .. Groups : (IF k = Groups THEN 0 ELSE rest(k) + 2 * pow(k)) \in Nat
    <3> SUFFICES ASSUME NEW k \in 0 .. Groups
                 PROVE  (IF k = Groups THEN 0 ELSE rest(k) + 2 * pow(k)) \in Nat
      OBVIOUS
    <3>1. CASE k = Groups
      BY <3>1
    <3>2. CASE k # Groups
      <4>1. k \in 0 .. last
        BY <1>1, <3>2
      <4> QED
        BY <1>15, <1>18, <4>1, <3>2
    <3> QED
      BY <3>1, <3>2
  <2>3. h[Groups] = 0
    BY <1>1
  <2>4. h[0] = v + Uint64
    BY <1>1, <1>17, <1>18, <2>1
  <2>5. h \in [0 .. Groups -> Nat]
    BY <2>2
  <2> QED
    BY <2>1, <2>3, <2>4, <2>5
<1> HIDE DEF h
<1>20. ASSUME NEW k \in 0 .. Groups - 1
       PROVE  h[k] = (t[0 + k + 1] % 128) + 128 * h[k + 1]
  <2> DEFINE x == byte(k + 1)
             y == rest(k + 1)
  <2>1. k + 1 \in 1 .. Groups /\ k \in 0 .. last /\ 0 + k + 1 = k + 1 /\ k + 1 \in 0 .. Groups
    BY <1>1
  <2>2. x \in 0 .. 127 /\ y \in Nat /\ h[k] = (x + 128 * y) + 2 * pow(k)
    BY <1>7, <1>18, <1>19, <2>1
  <2>3. CASE k = last
    <3>1. t[k + 1] = x + 2 /\ x <= 1 /\ k + 1 = Groups
      BY <1>1, <1>8, <1>12, <2>3
    <3>2. y = 0 /\ h[k + 1] = 0 /\ pow(k) = 1
      BY <1>17, <1>18, <1>19, <2>3, <3>1
    <3> HIDE DEF x, y
    <3>3. (x + 2) % 128 = x + 2
      BY <2>2, <3>1
    <3> QED
      BY <2>1, <2>2, <3>1, <3>2, <3>3
  <2>4. CASE k # last
    <3>1. k \in 0 .. last - 1 /\ k + 1 \in 0 .. last /\ k + 1 \in 1 .. Groups - 1
      BY <1>1, <2>4
    <3>2. t[k + 1] = x + 128
      BY <1>12, <3>1
    <3> DEFINE p == pow(k + 1)
    <3>3. p \in Nat /\ pow(k) = 128 * p /\ h[k + 1] = y + 2 * p
      BY <1>15, <1>16, <1>19, <3>1
    <3> HIDE DEF x, y, p
    <3>4. (x + 128) % 128 = x
      BY <2>2
    <3> QED
      BY <2>1, <2>2, <3>2, <3>3, <3>4
  <2> QED
    BY <2>3, <2>4
<1>21. Reads(h, t, 0, Groups)
  BY <1>19, <1>20 DEF Reads
<1>22. Value(t, 0, Groups) = v + Uint64
  <2>1. 0 + Groups <= Len(t) /\ 0 \in Nat
    BY <1>1, <1>13
  <2> QED
    BY <1>1, <1>13, <1>19, <1>21, <2>1, ValueIs, SMTT(30)
<1>23. (v + Uint64) % Uint64 = v
  BY WordSizes
<1>24. Groups \in 1 .. Groups
  BY <1>1
<1> QED
  BY <1>13, <1>14, <1>22, <1>23, <1>24 DEF Varint, t

LEMMA UnusualVarint ==
    ASSUME NEW v \in 0 .. Uint64 - 1, NEW t \in Unusual(VarintBytes(v))
    PROVE  Varint(t, v)
<1> DEFINE s == VarintBytes(v)
<1>1. Spells(s, Len(s), v)
  BY PlainVarint
<1> HIDE DEF s
<1>2. t = Wrapped(s) \/ (Len(s) < Groups /\ t = Longer(s))
  BY DEF Unusual, s
<1> QED
  BY <1>1, <1>2, LongerVarint, WrappedVarint

(* A tag of field number num and wire type wt, in one of its spellings.    *)
Tag(t, num, wt) == \E v : Varint(t, v) /\ FieldNum(v) = num /\ WireType(v) = wt

LEMMA TagNumbers ==
    ASSUME NEW num \in 0 .. Foreign, NEW wt \in 0 .. 7, NEW v,
           v = num * 8 + wt \/ v = (num + FieldUint) * 8 + wt
    PROVE  v \in 0 .. Uint64 - 1 /\ FieldNum(v) = num /\ WireType(v) = wt
<1>1. num \in Nat /\ num <= 15 /\ wt \in Nat /\ wt <= 7
  BY DEF Foreign
<1>2. FieldUint >= 32 /\ FieldUint \in Nat /\ 8 * FieldUint <= Half /\ Half >= 128
      /\ Uint64 = 2 * Half /\ Half \in Nat
  <2>1. 5 \in 0 .. Word /\ FieldWord \in 5 .. Word /\ 4 \in 0 .. Word /\ 5 \in 1 .. Word
    BY WordAssumption
  <2>2. Pow2[5] <= Pow2[FieldWord]
    BY <2>1, PowersGrow
  <2>3. Pow2[5] = 32
    <3>1. 1 \in 1 .. Word /\ 2 \in 1 .. Word /\ 3 \in 1 .. Word /\ 4 \in 1 .. Word
      BY WordSizes
    <3>2. Pow2[1] = 2 * Pow2[0] /\ Pow2[2] = 2 * Pow2[1] /\ Pow2[3] = 2 * Pow2[2]
      BY <3>1, Powers
    <3>3. Pow2[4] = 2 * Pow2[3] /\ Pow2[5] = 2 * Pow2[4] /\ Pow2[0] = 1
      BY <2>1, <3>1, Powers
    <3> QED
      BY <3>2, <3>3
  <2> QED
    BY <2>2, <2>3, WordSizes DEF FieldUint
<1> DEFINE F == FieldUint
<1>3. v = num * 8 + wt \/ v = num * 8 + wt + 8 * F
  BY <1>1, <1>2
<1> HIDE DEF F
<1>4. F \in Nat /\ F >= 32 /\ 8 * F <= Half
  BY <1>2 DEF F
<1>5. v \in Nat /\ v < Uint64 /\ v % 8 = wt /\ (v \div 8 = num \/ v \div 8 = num + F)
  BY <1>1, <1>2, <1>3, <1>4
<1>6. num % F = num /\ (num + F) % F = num
  BY <1>1, <1>4
<1>7. (v \div 8) % F = num
  BY <1>5, <1>6
<1>8. Signed(num, F) = num
  BY <1>1, <1>4 DEF Signed
<1> QED
  BY <1>2, <1>5, <1>7, <1>8 DEF FieldNum, WireType, F

LEMMA TagSpelled ==
    ASSUME NEW num \in 0 .. Foreign, NEW wt \in 0 .. 7, NEW v,
           v = num * 8 + wt \/ v = (num + FieldUint) * 8 + wt, NEW t, Varint(t, v)
    PROVE  Tag(t, num, wt)
  BY TagNumbers DEF Tag

LEMMA HeadsSpelled ==
    ASSUME NEW num \in 0 .. Foreign, NEW wt \in 0 .. 7, NEW n \in 0 .. Uint64 - 1,
           NEW head \in {Plain(num, wt, n)} \cup Odd(num, wt, n)
    PROVE  \E t, u : head = t \o u /\ Tag(t, num, wt) /\ Varint(u, n)
<1> DEFINE x == num * 8 + wt
           y == (num + FieldUint) * 8 + wt
           tag == VarintBytes(x)
           count == VarintBytes(n)
           far == VarintBytes(y)
<1>1. x \in 0 .. Uint64 - 1 /\ y \in 0 .. Uint64 - 1
  BY TagNumbers
<1>2. Plain(num, wt, n) = tag \o count
      /\ Odd(num, wt, n) = {t \o count : t \in Unusual(tag) \cup {far}}
                           \cup {tag \o c : c \in Unusual(count)}
  BY DEF Plain, Odd
<1>3. Tag(tag, num, wt) /\ Tag(far, num, wt) /\ \A t \in Unusual(tag) : Tag(t, num, wt)
  <2>1. Varint(tag, x) /\ Varint(far, y)
    <3> HIDE DEF x, y
    <3> QED
      BY <1>1, PlainVarint
  <2>2. \A t \in Unusual(tag) : Varint(t, x)
    <3> HIDE DEF x, y
    <3> QED
      BY <1>1, UnusualVarint
  <2>3. \A t : Varint(t, x) \/ Varint(t, y) => Tag(t, num, wt)
    BY TagSpelled
  <2> QED
    BY <2>1, <2>2, <2>3
<1>4. Varint(count, n) /\ \A c \in Unusual(count) : Varint(c, n)
  BY PlainVarint, UnusualVarint
<1> HIDE DEF x, y, tag, count, far
<1>5. CASE head = tag \o count
  BY <1>3, <1>4, <1>5
<1>6. CASE head \in {t \o count : t \in Unusual(tag) \cup {far}}
  BY <1>3, <1>4, <1>6
<1>7. CASE head \in {tag \o c : c \in Unusual(count)}
  BY <1>3, <1>4, <1>7
<1> QED
  BY <1>2, <1>5, <1>6, <1>7

(* A tag and what is behind it, or what it breaks off in.                  *)
LEMMA TagStands ==
    ASSUME NEW t, NEW num, NEW wt, Tag(t, num, wt), NEW q \in Seq(Byte), NEW c, NEW i,
           Stands(t \o q, c, i)
    PROVE  \E v : /\ ReadVarint(c, i) = At(v, i + Len(t)) /\ FieldNum(v) = num /\ WireType(v) = wt
                  /\ Stands(q, c, i + Len(t))
<1>1. PICK v : Varint(t, v) /\ FieldNum(v) = num /\ WireType(v) = wt
  BY DEF Tag
<1>2. t \in Seq(Byte)
  BY <1>1 DEF Varint
<1>3. Stands(t, c, i) /\ Stands(q, c, i + Len(t))
  BY <1>2, StandsParts
<1> QED
  BY <1>1, <1>3, VarintStands

LEMMA TagBreaks ==
    ASSUME NEW t, NEW num, NEW wt, Tag(t, num, wt), NEW q \in Seq(Byte), NEW x, NEW c, NEW i,
           Breaks(t \o q, x, c, i)
    PROVE  \/ ReadVarint(c, i) = Failed("UnexpectedEOF")
           \/ \E v, y : /\ ReadVarint(c, i) = At(v, i + Len(t))
                        /\ FieldNum(v) = num /\ WireType(v) = wt
                        /\ Breaks(q, y, c, i + Len(t))
<1>1. PICK v : Varint(t, v) /\ FieldNum(v) = num /\ WireType(v) = wt
  BY DEF Tag
<1>2. t \in Seq(Byte)
  BY <1>1 DEF Varint
<1>3. CASE Breaks(t, x, c, i)
  BY <1>1, <1>3, VarintBreaks
<1>4. CASE Stands(t, c, i) /\ Breaks(q, x - Len(t), c, i + Len(t))
  <2>1. ReadVarint(c, i) = At(v, i + Len(t))
    BY <1>1, <1>4, VarintStands
  <2> QED
    BY <1>1, <1>4, <2>1
<1> QED
  BY <1>2, <1>3, <1>4, BreaksParts

-----------------------------------------------------------------------------
(* The pieces a message is made of.                                        *)

(* A pass of Unmarshal's loop that comes to p stores s and goes on behind  *)
(* p, whatever is around it; and it runs out of input where p breaks off.  *)
Means(k, p, s) ==
    /\ p \in Seq(Byte) /\ Len(p) >= 1 /\ s \in Seq(Entries(k))
    /\ \A c, i : Stands(p, c, i) /\ i + Len(p) < Half =>
                     FieldAt(k, c, i) = Reading(s, i + Len(p))
    /\ \A x, c, i : Breaks(p, x, c, i) /\ i + Len(p) < Half =>
                     FieldAt(k, c, i) = Failed("UnexpectedEOF")

LEMMA EntryIs ==
    ASSUME NEW k, NEW num \in DOMAIN Fields[k], NEW f, f = Fields[k][num], NEW v,
           IF f.type = "uint" THEN v \in Nat ELSE v \in Seq(Byte)
    PROVE  /\ << <<f, v>> >> \in Seq(Entries(k))
           /\ \A next : Stores(f, v, next) = Reading(<< <<f, v>> >>, next)
<1> DEFINE e == <<f, v>>
<1>1. e[1] = f /\ e[2] = v /\ f \in {Fields[k][x] : x \in DOMAIN Fields[k]} /\ v \in Nat \cup Seq(Byte)
  OBVIOUS
<1>2. e \in {Fields[k][x] : x \in DOMAIN Fields[k]} \X (Nat \cup Seq(Byte))
  BY <1>1
<1>3. e \in Entries(k)
  BY <1>1, <1>2 DEF Entries
<1>4. \A next : Stores(f, v, next) = Reading(<<e>>, next)
  BY DEF Stores, Reading
<1> HIDE DEF e
<1>5. <<e>> \in Seq(Entries(k))
  BY <1>3
<1> QED
  BY <1>4, <1>5 DEF e

LEMMA LengthStands ==
    ASSUME NEW n \in Nat, NEW j \in Nat, j + n < Half
    PROVE  LengthOf(At(n, j)) = At(j + n, j)
<1>1. Half \in Nat /\ Uint64 = 2 * Half
  BY WordSizes
<1>2. Signed(n, Uint64) = n
  BY <1>1 DEF Signed
<1>3. ~(Signed(n, Uint64) < 0 \/ j + n >= Half)
  BY <1>1, <1>2
<1> QED
  BY <1>3, Results DEF LengthOf

(* Dispatch on a tag that is read: a field the message declares.           *)
LEMMA TaggedDeclared ==
    ASSUME NEW k \in DOMAIN Fields, NEW num \in DOMAIN Fields[k], NEW f, f = Fields[k][num],
           NEW c, NEW i, NEW v, NEW j, ReadVarint(c, i) = At(v, j),
           FieldNum(v) = num, WireType(v) = WireOf(f)
    PROVE  FieldAt(k, c, i) = IF f.type = "uint" THEN Number(f, ReadVarint(c, j))
                              ELSE Delimited(f, c, ReadLength(c, j))
<1> DEFINE tag == At(v, j)
<1>1. Ok(tag) /\ tag.val = v /\ tag.next = j
  BY Results
<1>2. num \in 1 .. 6 /\ num > 0
  <2>1. num \in 1 .. 6
    BY TablesDeclare
  <2> QED
    BY <2>1
<1>3. WireType(v) # 4
  BY DEF WireOf
<1>4. FieldAt(k, c, i) = Tagged(k, c, i, tag)
  BY DEF FieldAt
<1> HIDE DEF tag
<1>5. FieldAt(k, c, i) = Declared(f, c, tag)
  BY <1>1, <1>2, <1>3, <1>4 DEF Tagged
<1>6. WireType(tag.val) = IF f.type = "uint" THEN 0 ELSE 2
  BY <1>1 DEF WireOf
<1> QED
  BY <1>1, <1>5, <1>6 DEF Declared

LEMMA UintMeans ==
    ASSUME NEW k \in DOMAIN Fields, NEW num \in DOMAIN Fields[k], NEW f, f = Fields[k][num],
           f.type = "uint", NEW n \in 0 .. Uint64 - 1,
           NEW t, Tag(t, num, WireOf(f)), NEW u, Varint(u, n)
    PROVE  Means(k, t \o u, << <<f, n>> >>)
<1> DEFINE p == t \o u
           s == << <<f, n>> >>
<1>1. t \in Seq(Byte) /\ u \in Seq(Byte) /\ Len(u) >= 1
  BY WordSizes DEF Tag, Varint
<1>2. p \in Seq(Byte) /\ Len(p) = Len(t) + Len(u) /\ Len(t) \in Nat /\ Len(u) \in Nat /\ Len(p) >= 1
  BY <1>1, Parts
<1>3. n \in Nat
  BY WordSizes
<1>4. s \in Seq(Entries(k)) /\ \A next : Stores(f, n, next) = Reading(s, next)
  BY <1>3, EntryIs
<1>5. ASSUME NEW c, NEW i, Stands(p, c, i)
      PROVE  FieldAt(k, c, i) = Reading(s, i + Len(p))
  <2> DEFINE j == i + Len(t)
  <2>1. PICK v : /\ ReadVarint(c, i) = At(v, j) /\ FieldNum(v) = num /\ WireType(v) = WireOf(f)
                 /\ Stands(u, c, j)
    BY <1>1, <1>5, TagStands
  <2>2. ReadVarint(c, j) = At(n, j + Len(u))
    BY <2>1, VarintStands
  <2>3. FieldAt(k, c, i) = Number(f, ReadVarint(c, j))
    BY <2>1, TaggedDeclared
  <2>4. FieldAt(k, c, i) = Stores(f, n, j + Len(u))
    BY <2>2, <2>3, Results DEF Number
  <2>5. j + Len(u) = i + Len(p)
    <3>1. i \in Nat
      BY <1>5 DEF Stands
    <3> HIDE DEF p
    <3> QED
      BY <1>2, <3>1
  <2> QED
    BY <1>4, <2>4, <2>5
<1>6. ASSUME NEW x, NEW c, NEW i, Breaks(p, x, c, i)
      PROVE  FieldAt(k, c, i) = Failed("UnexpectedEOF")
  <2> DEFINE j == i + Len(t)
  <2>1. CASE ReadVarint(c, i) = Failed("UnexpectedEOF")
    BY <2>1, Results DEF FieldAt, Tagged
  <2>2. ASSUME NEW v, NEW y, ReadVarint(c, i) = At(v, j), FieldNum(v) = num,
               WireType(v) = WireOf(f), Breaks(u, y, c, j)
        PROVE  FieldAt(k, c, i) = Failed("UnexpectedEOF")
    <3>1. ReadVarint(c, j) = Failed("UnexpectedEOF")
      BY <2>2, VarintBreaks
    <3>2. FieldAt(k, c, i) = Number(f, ReadVarint(c, j))
      BY <2>2, TaggedDeclared
    <3> QED
      BY <3>1, <3>2, Results DEF Number
  <2> QED
    BY <1>1, <1>6, <2>1, <2>2, TagBreaks
<1> HIDE DEF p, s
<1>7. Means(k, p, s)
  BY <1>2, <1>4, <1>5, <1>6 DEF Means
<1> QED
  BY <1>7 DEF p, s

(* A text behind its tag and its length, of any spelling.                  *)
Delimits(f, num, data, t, u) ==
    /\ f.type # "uint" /\ data \in Content
    /\ Tag(t, num, WireOf(f)) /\ Varint(u, Len(data))

LEMMA TextStands ==
    ASSUME NEW k \in DOMAIN Fields, NEW num \in DOMAIN Fields[k], NEW f, f = Fields[k][num],
           NEW data, NEW t, NEW u, Delimits(f, num, data, t, u),
           NEW c, NEW i, Stands(t \o (u \o data), c, i), i + Len(t \o (u \o data)) < Half
    PROVE  FieldAt(k, c, i) = StoresText(f, data, i + Len(t \o (u \o data)))
<1> DEFINE q == u \o data
           p == t \o q
           n == Len(data)
<1>0. f.type # "uint" /\ data \in Content /\ Tag(t, num, WireOf(f)) /\ Varint(u, n)
  BY DEF Delimits
<1>1. t \in Seq(Byte) /\ u \in Seq(Byte) /\ Len(u) >= 1 /\ data \in Seq(Byte) /\ n \in Nat
  BY <1>0, WordSizes DEF Tag, Varint, Content
<1>2. q \in Seq(Byte) /\ Len(q) = Len(u) + n /\ Len(u) \in Nat
  BY <1>1, Parts
<1>3. p \in Seq(Byte) /\ Len(p) = Len(t) + Len(q) /\ Len(t) \in Nat
  <2>1. t \in Seq(Byte) /\ q \in Seq(Byte)
    BY <1>1, <1>2
  <2> HIDE DEF q
  <2> QED
    BY <2>1, Parts
<1>4. Stands(p, c, i) /\ i + Len(p) < Half
  OBVIOUS
<1> HIDE DEF n, p
<1>5. FieldAt(k, c, i) = StoresText(f, data, i + Len(p))
  <2> DEFINE h == i + Len(t)
             j == h + Len(u)
             post == j + n
  <2>0. i \in Nat /\ h \in Nat /\ j \in Nat /\ post = i + Len(p)
    <3>1. i \in Nat
      BY <1>4 DEF Stands
    <3> HIDE DEF q
    <3> QED
      BY <1>1, <1>2, <1>3, <3>1, SMTT(30)
  <2>1. PICK v : /\ ReadVarint(c, i) = At(v, h) /\ FieldNum(v) = num /\ WireType(v) = WireOf(f)
                 /\ Stands(q, c, h)
    <3> HIDE DEF q
    <3> QED
      BY <1>0, <1>2, <1>4, TagStands DEF p
  <2>2. Stands(u, c, h) /\ Stands(data, c, j)
    BY <1>1, <2>1, StandsParts
  <2>3. ReadVarint(c, h) = At(n, j)
    BY <1>0, <2>2, VarintStands
  <2> HIDE DEF j, h, q
  <2>4. ReadLength(c, h) = At(post, j)
    BY <1>1, <1>4, <2>0, <2>3, LengthStands DEF ReadLength
  <2>5. FieldAt(k, c, i) = Delimited(f, c, At(post, j))
    BY <1>0, <2>1, <2>4, TaggedDeclared
  <2>6. c \in Seq(Byte) /\ post <= Len(c) /\ Len(c) \in Nat /\ \A x \in 1 .. n : c[j + x] = data[x]
    BY <1>1, <2>2 DEF Stands, n
  <2>7. SubSeq(c, j + 1, post) = data
    <3> DEFINE d == SubSeq(c, j + 1, post)
    <3>1. post \in Nat /\ post - j = n
      BY <1>1, <2>0
    <3>2. /\ d \in Seq(Byte) /\ Len(d) = n
          /\ \A x \in 1 .. n : d[x] = c[j + x]
      <4>1. j + 1 \in 1 .. post + 1 /\ post \in j .. Len(c)
        BY <1>1, <2>0, <2>6
      <4> HIDE DEF post
      <4>2. d \in Seq(Byte) /\ Len(d) = post - (j + 1) + 1
            /\ \A x \in 1 .. post - (j + 1) + 1 : d[x] = c[(j + 1) + x - 1]
        BY <2>0, <2>6, <3>1, <4>1, SubSeqProperties
      <4>3. post - (j + 1) + 1 = n /\ \A x \in 1 .. n : (j + 1) + x - 1 = j + x
        BY <1>1, <2>0, <3>1
      <4> HIDE DEF d
      <4> QED
        BY <4>2, <4>3
    <3> HIDE DEF d, post
    <3>3. d = data
      BY <1>1, <2>6, <3>2, SeqEqual DEF n
    <3> QED
      BY <3>3 DEF d
  <2>8. ~(post > Len(c))
    BY <1>1, <2>0, <2>6
  <2> HIDE DEF post
  <2>9. Slice(c, j, post) = Done(data)
    BY <2>7, <2>8 DEF Slice
  <2>10. Ok(Done(data)) /\ Done(data).msg = data
    BY DEF Ok, Done
  <2>11. Delimited(f, c, At(post, j)) = StoresText(f, data, post)
    BY <2>8, <2>9, <2>10, Results DEF Delimited, PastEnd
  <2> QED
    BY <2>0, <2>5, <2>11
<1> QED
  BY <1>5 DEF p

LEMMA TextMeans ==
    ASSUME NEW k \in DOMAIN Fields, NEW num \in DOMAIN Fields[k], NEW f, f = Fields[k][num],
           NEW data, NEW t, NEW u, Delimits(f, num, data, t, u), NEW s \in Seq(Entries(k)),
           \A next : StoresText(f, data, next) = Reading(s, next)
    PROVE  Means(k, t \o (u \o data), s)
<1> DEFINE q == u \o data
           p == t \o q
           n == Len(data)
<1>0. f.type # "uint" /\ data \in Content /\ Tag(t, num, WireOf(f)) /\ Varint(u, n)
  BY DEF Delimits
<1>1. t \in Seq(Byte) /\ u \in Seq(Byte) /\ Len(u) >= 1 /\ data \in Seq(Byte) /\ n \in Nat
  BY <1>0, WordSizes DEF Tag, Varint, Content
<1>2. q \in Seq(Byte) /\ Len(q) = Len(u) + n /\ Len(u) \in Nat
  BY <1>1, Parts
<1>3. p \in Seq(Byte) /\ Len(p) = Len(t) + Len(q) /\ Len(t) \in Nat
  <2>1. t \in Seq(Byte) /\ q \in Seq(Byte)
    BY <1>1, <1>2
  <2> HIDE DEF q
  <2> QED
    BY <2>1, Parts
<1> HIDE DEF n
<1>5. ASSUME NEW c, NEW i, Stands(p, c, i), i + Len(p) < Half
      PROVE  FieldAt(k, c, i) = Reading(s, i + Len(p))
  BY <1>5, TextStands
<1>6. ASSUME NEW x, NEW c, NEW i, Breaks(p, x, c, i), i + Len(p) < Half
      PROVE  FieldAt(k, c, i) = Failed("UnexpectedEOF")
  <2> DEFINE h == i + Len(t)
             j == h + Len(u)
             post == j + n
  <2>0. i \in Nat /\ h \in Nat /\ j \in Nat /\ post = i + Len(p)
    <3>1. i \in Nat
      BY <1>6 DEF Breaks
    <3> HIDE DEF p, q
    <3> QED
      BY <1>1, <1>2, <1>3, <3>1
  <2>1. CASE ReadVarint(c, i) = Failed("UnexpectedEOF")
    BY <2>1, Results DEF FieldAt, Tagged
  <2>2. ASSUME NEW v, NEW y, ReadVarint(c, i) = At(v, h), FieldNum(v) = num,
               WireType(v) = WireOf(f), Breaks(q, y, c, h)
        PROVE  FieldAt(k, c, i) = Failed("UnexpectedEOF")
    <3>1. FieldAt(k, c, i) = Delimited(f, c, ReadLength(c, h))
      BY <1>0, <2>2, TaggedDeclared
    <3>2. CASE ReadVarint(c, h) = Failed("UnexpectedEOF")
      <4>1. ReadLength(c, h) = Failed("UnexpectedEOF")
        BY <3>2, Results DEF ReadLength, LengthOf
      <4> QED
        BY <3>1, <4>1, Results DEF Delimited
    <3>3. ASSUME NEW z, Stands(u, c, h), Breaks(data, z, c, j)
          PROVE  FieldAt(k, c, i) = Failed("UnexpectedEOF")
      <4>1. ReadVarint(c, h) = At(n, j)
        BY <1>0, <3>3, VarintStands
      <4>2. post > Len(c)
        <5>1. Len(c) = j + z /\ z \in Nat /\ z < n
          BY <3>3 DEF Breaks, n
        <5> HIDE DEF j
        <5> QED
          BY <1>1, <2>0, <5>1
      <4> HIDE DEF j, h, p, q
      <4>3. ReadLength(c, h) = At(post, j)
        BY <1>1, <1>6, <2>0, <4>1, LengthStands DEF ReadLength
      <4> HIDE DEF post
      <4> QED
        BY <3>1, <4>2, <4>3, Results DEF Delimited, PastEnd
    <3> QED
      BY <1>0, <1>1, <2>2, <3>2, <3>3, BreaksParts, VarintBreaks
  <2> HIDE DEF q
  <2> QED
    BY <1>0, <1>2, <1>6, <2>1, <2>2, TagBreaks
<1>7. Len(p) >= 1
  <2> HIDE DEF p, q
  <2> QED
    BY <1>1, <1>2, <1>3
<1> HIDE DEF p
<1>8. Means(k, p, s)
  BY <1>3, <1>5, <1>6, <1>7 DEF Means
<1> QED
  BY <1>8 DEF p, q

(* What a text leaves: itself, but for an amount.                          *)
LEMMA PlainText ==
    ASSUME NEW k, NEW num \in DOMAIN Fields[k], NEW f, f = Fields[k][num], f.type # "uint",
           f # Amount, NEW data \in Seq(Byte)
    PROVE  /\ << <<f, data>> >> \in Seq(Entries(k))
           /\ \A next : StoresText(f, data, next) = Reading(<< <<f, data>> >>, next)
  BY EntryIs DEF StoresText

LEMMA NumberText ==
    ASSUME NEW k, NEW num \in DOMAIN Fields[k], NEW f, f = Fields[k][num],
           f = Amount, NEW data \in DOMAIN NumberOf
    PROVE  /\ << <<f, NumberOf[data]>> >> \in Seq(Entries(k))
           /\ \A next : StoresText(f, data, next) = Reading(<< <<f, NumberOf[data]>> >>, next)
<1>1. NumberOf[data] \in Seq(Byte) /\ data # <<>>
  BY Numbers
<1>2. f.type # "uint"
  BY DEF Amount, Text
<1> DEFINE v == NumberOf[data]
<1>3. \A next : StoresText(f, data, next) = Stores(f, v, next)
  BY <1>1 DEF StoresText
<1>4. v \in Seq(Byte)
  BY <1>1
<1> HIDE DEF v
<1>5. /\ << <<f, v>> >> \in Seq(Entries(k))
      /\ \A next : Stores(f, v, next) = Reading(<< <<f, v>> >>, next)
  <2>1. IF f.type = "uint" THEN v \in Nat ELSE v \in Seq(Byte)
    BY <1>2, <1>4
  <2>2. f = Fields[k][num]
    OBVIOUS
  <2> QED
    BY ONLY <2>1, <2>2, EntryIs
<1> QED
  BY <1>3, <1>5 DEF v

LEMMA SkipFirst ==
    ASSUME NEW b \in Seq(Byte), NEW i \in Nat,
           ~Ok(SkipOne(b, i, 0)) \/ SkipOne(b, i, 0).depth = 0
    PROVE  Skip(b, i) = SkipOne(b, i, 0)
<1>1. PICK h : Skipped(b, i, h) /\ Skip(b, i) = h[Len(b) + 1]
  BY SkipPasses
<1>2. 1 \in 1 .. Len(b) + 1
  OBVIOUS
<1>3. h[1] = SkipOne(b, i, 0)
  BY <1>1, <1>2 DEF Skipped
<1> QED
  BY <1>1, <1>2, <1>3, SkipStops

LEMMA ByteVarint ==
    ASSUME NEW x \in 0 .. 127
    PROVE  <<x>> \in Seq(Byte) /\ Len(<<x>>) = 1 /\ Varint(<<x>>, x)
<1> DEFINE s == <<x>>
           g == [k \in 0 .. 1 |-> IF k = 1 THEN 0 ELSE x]
<1>1. s \in Seq(Byte) /\ Len(s) = 1 /\ s[1] = x /\ x \in Nat /\ x < 128 /\ x % 128 = x
  BY DEF Byte
<1>2. g \in [0 .. 1 -> Nat] /\ g[1] = 0 /\ g[0] = x
  BY <1>1
<1> HIDE DEF s, g
<1>3. Reads(g, s, 0, 1)
  <2>1. \A k \in 0 .. 1 - 1 : k = 0
    OBVIOUS
  <2>2. g[0] = (s[0 + 0 + 1] % 128) + 128 * g[0 + 1]
    <3>1. 0 + 0 + 1 = 1 /\ 0 + 1 = 1
      OBVIOUS
    <3>2. s[0 + 0 + 1] % 128 = x /\ g[0 + 1] = 0
      BY <1>1, <1>2, <3>1
    <3> QED
      BY <1>1, <1>2, <3>2
  <2> QED
    BY <1>2, <2>1, <2>2 DEF Reads
<1>4. Value(s, 0, 1) = x
  <2> DEFINE n == 1
  <2>1. 0 + n <= Len(s) /\ 0 \in Nat /\ n \in Nat /\ Reads(g, s, 0, n)
    BY <1>1, <1>3
  <2>2. s \in Seq(Byte)
    BY <1>1
  <2> HIDE DEF n
  <2>3. Value(s, 0, n) = g[0]
    BY <2>1, <2>2, ValueIs
  <2> QED
    BY <1>2, <2>3 DEF n
<1>5. x % Uint64 = x /\ 1 \in 1 .. Groups
  BY <1>1, WordSizes
<1>6. Varint(s, x)
  BY <1>1, <1>4, <1>5 DEF Varint
<1> QED
  BY <1>1, <1>6 DEF s

LEMMA ByteRead ==
    ASSUME NEW c \in Seq(Byte), NEW j \in Nat, j < Len(c), c[j + 1] < 128
    PROVE  ReadVarint(c, j) = At(c[j + 1], j + 1)
<1> DEFINE x == c[j + 1]
           s == <<x>>
<1>1. x \in 0 .. 127
  <2>1. j + 1 \in 1 .. Len(c)
    OBVIOUS
  <2>2. x \in Nat
    BY <2>1, ElementOfSeq, BytesAreNumbers
  <2>3. x < 128
    OBVIOUS
  <2> HIDE DEF x
  <2> QED
    BY <2>2, <2>3
<1> HIDE DEF x
<1>2. s \in Seq(Byte) /\ Len(s) = 1 /\ Varint(s, x) /\ s[1] = x
  BY <1>1, ByteVarint
<1> HIDE DEF s
<1>3. Stands(s, c, j)
  <2>1. \A k \in 1 .. Len(s) : k = 1
    BY <1>2
  <2>2. j + Len(s) <= Len(c)
    BY <1>2
  <2>3. \A k \in 1 .. Len(s) : c[j + k] = s[k]
    BY <1>2, <2>1 DEF x
  <2> QED
    BY <1>2, <2>2, <2>3 DEF Stands
<1>4. ReadVarint(c, j) = At(x, j + 1)
  BY <1>2, <1>3, VarintStands
<1> QED
  BY <1>4 DEF x

(* A tag of a field no message has.                                        *)
LEMMA ForeignTag ==
    ASSUME NEW k \in DOMAIN Fields, NEW wt \in 0 .. 7, wt # 4,
           NEW c \in Seq(Byte), NEW i \in Nat, i < Len(c), c[i + 1] = Foreign * 8 + wt
    PROVE  /\ FieldAt(k, c, i) = Skips(c, Skip(c, i))
           /\ SkipOne(c, i, 0) = Behind(PastValue(c, wt, i + 1), IF wt = 3 THEN 1 ELSE 0)
<1> DEFINE x == Foreign * 8 + wt
           tag == At(x, i + 1)
<1>1. x < 128 /\ Foreign \in 0 .. Foreign
  BY DEF Foreign
<1>2. FieldNum(x) = Foreign /\ WireType(x) = wt
  BY <1>1, TagNumbers
<1> HIDE DEF x
<1>3. ReadVarint(c, i) = tag
  BY <1>1, ByteRead DEF x
<1>4. Ok(tag) /\ tag.val = x /\ tag.next = i + 1
  BY Results
<1> HIDE DEF tag
<1>5. FieldAt(k, c, i) = Skips(c, Skip(c, i))
  <2>1. Foreign \notin DOMAIN Fields[k]
    <3>1. \A num \in DOMAIN Fields[k] : num \in 1 .. 6
      BY TablesDeclare
    <3>2. Foreign \notin 1 .. 6
      BY DEF Foreign
    <3> QED
      BY <3>1, <3>2
  <2>2. ~(Foreign <= 0)
    BY DEF Foreign
  <2>3. FieldAt(k, c, i) = Tagged(k, c, i, tag)
    BY <1>3 DEF FieldAt
  <2> QED
    BY <1>2, <1>4, <2>1, <2>2, <2>3 DEF Tagged
<1>6. SkipOne(c, i, 0) = SkipTagged(c, tag, 0)
  <2>1. ~(i >= Len(c))
    OBVIOUS
  <2> QED
    BY <1>3, <2>1 DEF SkipOne
<1>7. SkipTagged(c, tag, 0) = Behind(PastValue(c, wt, i + 1), IF wt = 3 THEN 1 ELSE 0)
  <2>1. SkipTagged(c, tag, 0)
        = Behind(PastValue(c, wt, i + 1), CASE wt = 3 -> 0 + 1 [] wt = 4 -> 0 - 1 [] OTHER -> 0)
    BY <1>2, <1>4 DEF SkipTagged
  <2>2. (CASE wt = 3 -> 0 + 1 [] wt = 4 -> 0 - 1 [] OTHER -> 0) = IF wt = 3 THEN 1 ELSE 0
    OBVIOUS
  <2> QED
    BY <2>1, <2>2
<1> QED
  BY <1>5, <1>6, <1>7

LEMMA ForeignValue ==
    ASSUME NEW k \in DOMAIN Fields, NEW wt \in 0 .. 7, wt # 4, wt # 3,
           NEW c \in Seq(Byte), NEW i \in Nat, i < Len(c), c[i + 1] = Foreign * 8 + wt
    PROVE  FieldAt(k, c, i) = Skips(c, Behind(PastValue(c, wt, i + 1), 0))
<1> DEFINE past == PastValue(c, wt, i + 1)
<1>1. SkipOne(c, i, 0) = Behind(past, 0) /\ FieldAt(k, c, i) = Skips(c, Skip(c, i))
  BY ForeignTag
<1> HIDE DEF past
<1>2. ~Ok(Behind(past, 0)) \/ Behind(past, 0).depth = 0
  BY DEF Behind
<1>3. Skip(c, i) = Behind(past, 0)
  BY <1>1, <1>2, SkipFirst
<1> QED
  BY <1>1, <1>3 DEF past

LEMMA SkipsValue ==
    /\ \A c, n, v : n <= Len(c) /\ n \in Nat /\ Len(c) \in Nat =>
          Skips(c, Behind(At(v, n), 0)) = Reading(<<>>, n)
    /\ \A c, n, v : n > Len(c) => Skips(c, Behind(At(v, n), 0)) = Failed("UnexpectedEOF")
    /\ \A c, e : e # "None" => Skips(c, Behind(Failed(e), 0)) = Failed(e)
<1>1. \A n, v : Behind(At(v, n), 0) = Passed(n, 0)
  BY Results DEF Behind, Passed
<1>2. \A n : Ok(Passed(n, 0)) /\ Passed(n, 0).next = n
  BY DEF Passed, Ok
<1>3. \A e : e # "None" => Behind(Failed(e), 0) = Failed(e) /\ ~Ok(Failed(e))
  BY Results DEF Behind
<1>4. \A c, n : n <= Len(c) /\ n \in Nat /\ Len(c) \in Nat => Skips(c, Passed(n, 0)) = Reading(<<>>, n)
  BY <1>2 DEF Skips, PastEnd, Reading
<1>5. \A c, n : n > Len(c) => Skips(c, Passed(n, 0)) = Failed("UnexpectedEOF")
  BY <1>2 DEF Skips, PastEnd
<1>6. \A c, e : e # "None" => Skips(c, Failed(e)) = Failed(e)
  BY <1>3 DEF Skips
<1> QED
  BY <1>1, <1>3, <1>4, <1>5, <1>6

(* How the value q of an undeclared field of wire type wt is passed.       *)
Passes(wt, q) ==
    /\ \A c, j : Stands(q, c, j) /\ j + Len(q) < Half =>
                     \E v : PastValue(c, wt, j) = At(v, j + Len(q))
    /\ \A y, c, j : Breaks(q, y, c, j) /\ j + Len(q) < Half =>
                     \/ PastValue(c, wt, j) = Failed("UnexpectedEOF")
                     \/ \E v, n : PastValue(c, wt, j) = At(v, n) /\ n > Len(c)

LEMMA ForeignMeans ==
    ASSUME NEW k \in DOMAIN Fields, NEW wt \in {0, 1, 2, 5}, NEW q \in Seq(Byte), Passes(wt, q)
    PROVE  Means(k, <<Foreign * 8 + wt>> \o q, <<>>)
<1> DEFINE x == Foreign * 8 + wt
           t == <<x>>
           p == t \o q
<1>1. x \in 0 .. 127 /\ wt \in 0 .. 7 /\ wt # 4 /\ wt # 3
  BY DEF Foreign
<1> HIDE DEF x
<1>2. t \in Seq(Byte) /\ Len(t) = 1 /\ Varint(t, x) /\ t[1] = x
  BY <1>1, ByteVarint
<1> HIDE DEF t
<1>3. p \in Seq(Byte) /\ Len(p) = Len(t) + Len(q) /\ Len(t) \in Nat /\ Len(q) \in Nat
  BY <1>2, Parts
<1>4. Len(p) >= 1 /\ Len(p) = 1 + Len(q)
  BY <1>2, <1>3
<1>5. ASSUME NEW c, NEW i, Stands(t, c, i)
      PROVE  /\ c \in Seq(Byte) /\ i \in Nat /\ i + 1 <= Len(c) /\ Len(c) \in Nat
             /\ FieldAt(k, c, i) = Skips(c, Behind(PastValue(c, wt, i + 1), 0))
  <2>1. c \in Seq(Byte) /\ i \in Nat /\ i + 1 <= Len(c) /\ c[i + 1] = t[1]
    <3>1. 1 \in 1 .. Len(t)
      BY <1>2
    <3> QED
      BY <1>2, <1>5, <3>1 DEF Stands
  <2>2. i < Len(c) /\ c[i + 1] = Foreign * 8 + wt
    BY <1>2, <2>1 DEF x
  <2> QED
    BY <1>1, <2>1, <2>2, ForeignValue
<1>6. ASSUME NEW c, NEW i, Stands(p, c, i), i + Len(p) < Half
      PROVE  FieldAt(k, c, i) = Reading(<<>>, i + Len(p))
  <2>1. Stands(t, c, i) /\ Stands(q, c, i + Len(t))
    BY <1>2, <1>6, StandsParts
  <2>2. (i + 1) + Len(q) = i + Len(p) /\ i \in Nat /\ i + Len(p) <= Len(c) /\ Len(c) \in Nat
        /\ i + Len(p) \in Nat
    <3>1. i \in Nat /\ i + Len(p) <= Len(c) /\ c \in Seq(Byte)
      BY <1>6 DEF Stands
    <3> HIDE DEF p
    <3> QED
      BY <1>3, <1>4, <3>1, SMTT(30)
  <2>3. Stands(q, c, i + 1)
    BY <1>2, <2>1
  <2> HIDE DEF p
  <2>4. PICK v : PastValue(c, wt, i + 1) = At(v, i + Len(p))
    BY <1>6, <2>2, <2>3 DEF Passes
  <2>5. FieldAt(k, c, i) = Skips(c, Behind(At(v, i + Len(p)), 0))
    BY <1>5, <2>1, <2>4
  <2> QED
    BY <2>2, <2>5, SkipsValue
<1>7. ASSUME NEW y, NEW c, NEW i, Breaks(p, y, c, i), i + Len(p) < Half
      PROVE  FieldAt(k, c, i) = Failed("UnexpectedEOF")
  <2>1. CASE Breaks(t, y, c, i)
    <3>1. ReadVarint(c, i) = Failed("UnexpectedEOF")
      BY <1>2, <2>1, VarintBreaks
    <3> QED
      BY <3>1, Results DEF FieldAt, Tagged
  <2>2. ASSUME NEW z, Stands(t, c, i), Breaks(q, z, c, i + Len(t))
        PROVE  FieldAt(k, c, i) = Failed("UnexpectedEOF")
    <3>1. (i + 1) + Len(q) = i + Len(p)
      <4>1. i \in Nat
        BY <2>2 DEF Stands
      <4> HIDE DEF p
      <4> QED
        BY <1>3, <1>4, <4>1
    <3>2. Breaks(q, z, c, i + 1) /\ (i + 1) + Len(q) < Half
      BY <1>2, <1>7, <2>2, <3>1
    <3>3. \/ PastValue(c, wt, i + 1) = Failed("UnexpectedEOF")
          \/ \E v, n : PastValue(c, wt, i + 1) = At(v, n) /\ n > Len(c)
      BY <3>2 DEF Passes
    <3>4. FieldAt(k, c, i) = Skips(c, Behind(PastValue(c, wt, i + 1), 0))
      BY <1>5, <2>2
    <3> QED
      BY <3>3, <3>4, SkipsValue
  <2> QED
    BY <1>2, <1>7, <2>1, <2>2, BreaksParts
<1>8. <<>> \in Seq(Entries(k))
  OBVIOUS
<1> HIDE DEF p
<1>9. Means(k, p, <<>>)
  BY <1>3, <1>4, <1>6, <1>7, <1>8 DEF Means
<1> QED
  BY <1>9 DEF p, t, x

LEMMA VarintPasses ==
    ASSUME NEW q, NEW v, Varint(q, v)
    PROVE  Passes(0, q)
<1>1. \A c, j : PastValue(c, 0, j) = ReadVarint(c, j)
  BY DEF PastValue
<1>2. \A c, j : Stands(q, c, j) => PastValue(c, 0, j) = At(v, j + Len(q))
  BY <1>1, VarintStands
<1>3. \A y, c, j : Breaks(q, y, c, j) => PastValue(c, 0, j) = Failed("UnexpectedEOF")
  BY <1>1, VarintBreaks
<1> QED
  BY <1>2, <1>3 DEF Passes

LEMMA FixedPasses ==
    ASSUME NEW q \in Seq(Byte), NEW wt, (wt = 1 /\ Len(q) = 8) \/ (wt = 5 /\ Len(q) = 4)
    PROVE  Passes(wt, q)
<1>1. \A c, j : PastValue(c, wt, j) = At(0, j + Len(q))
  <2>1. CASE wt = 1 /\ Len(q) = 8
    BY <2>1 DEF PastValue
  <2>2. CASE wt = 5 /\ Len(q) = 4
    BY <2>2 DEF PastValue
  <2> QED
    BY <2>1, <2>2
<1>2. \A y, c, j : Breaks(q, y, c, j) => j + Len(q) > Len(c)
  <2> SUFFICES ASSUME NEW y, NEW c, NEW j, Breaks(q, y, c, j) PROVE j + Len(q) > Len(c)
    OBVIOUS
  <2>1. j \in Nat /\ y \in Nat /\ y < Len(q) /\ Len(c) = j + y /\ Len(q) \in Nat
    BY DEF Breaks
  <2> QED
    BY <2>1
<1> QED
  BY <1>1, <1>2 DEF Passes

LEMMA DataPasses ==
    ASSUME NEW data \in Content, NEW u, Varint(u, Len(data))
    PROVE  Passes(2, u \o data)
<1> DEFINE q == u \o data
           n == Len(data)
<1>1. u \in Seq(Byte) /\ data \in Seq(Byte) /\ n \in Nat
  BY DEF Varint, Content
<1>2. q \in Seq(Byte) /\ Len(q) = Len(u) + n /\ Len(u) \in Nat
  BY <1>1, Parts
<1> HIDE DEF n
<1>3. \A c, j : PastValue(c, 2, j) = IF Ok(ReadLength(c, j)) THEN At(0, ReadLength(c, j).val)
                                     ELSE ReadLength(c, j)
  BY DEF PastValue
<1>4. ASSUME NEW c, NEW j, j \in Nat, Stands(u, c, j), j + Len(q) < Half
      PROVE  PastValue(c, 2, j) = At(0, j + Len(q))
  <2> DEFINE h == j + Len(u)
             post == h + n
  <2>1. ReadVarint(c, j) = At(n, h)
    BY <1>4, VarintStands DEF n
  <2>2. h \in Nat /\ post = j + Len(q) /\ post < Half
    <3> HIDE DEF q
    <3> QED
      BY <1>1, <1>2, <1>4
  <2> HIDE DEF h, q
  <2>3. ReadLength(c, j) = At(post, h)
    BY <1>1, <2>1, <2>2, LengthStands DEF ReadLength
  <2> HIDE DEF post
  <2> QED
    BY <1>3, <2>2, <2>3, Results
<1>5. ASSUME NEW c, NEW j, Stands(q, c, j), j + Len(q) < Half
      PROVE  PastValue(c, 2, j) = At(0, j + Len(q))
  <2>1. Stands(u, c, j)
    BY <1>1, <1>5, StandsParts
  <2>2. j \in Nat
    BY <1>5 DEF Stands
  <2> QED
    BY <1>4, <1>5, <2>1, <2>2
<1>6. ASSUME NEW y, NEW c, NEW j, Breaks(q, y, c, j), j + Len(q) < Half
      PROVE  \/ PastValue(c, 2, j) = Failed("UnexpectedEOF")
             \/ PastValue(c, 2, j) = At(0, j + Len(q)) /\ j + Len(q) > Len(c)
  <2>1. CASE Breaks(u, y, c, j)
    <3>1. ReadVarint(c, j) = Failed("UnexpectedEOF")
      BY <2>1, VarintBreaks
    <3>2. ReadLength(c, j) = Failed("UnexpectedEOF")
      BY <3>1, Results DEF ReadLength, LengthOf
    <3> QED
      BY <1>3, <3>2, Results
  <2>2. CASE Stands(u, c, j)
    <3>1. j \in Nat /\ y \in Nat /\ y < Len(q) /\ Len(c) = j + y
      BY <1>6 DEF Breaks
    <3> HIDE DEF q
    <3>2. j + Len(q) > Len(c)
      BY <1>1, <1>2, <3>1
    <3> QED
      BY <1>4, <1>6, <2>2, <3>1, <3>2
  <2> QED
    BY <1>1, <1>6, <2>1, <2>2, BreaksParts
<1> HIDE DEF q
<1> QED
  BY <1>5, <1>6 DEF Passes, q

LEMMA EndRead ==
    ASSUME NEW c \in Seq(Byte), NEW i, i = Len(c)
    PROVE  ReadVarint(c, i) = Failed("UnexpectedEOF")
<1>1. <<0>> \in Seq(Byte) /\ Len(<<0>>) = 1 /\ Varint(<<0>>, 0)
  BY ByteVarint
<1> DEFINE s == <<0>>
<1> HIDE DEF s
<1>2. Breaks(s, 0, c, i)
  BY <1>1 DEF Breaks, s
<1> QED
  BY <1>1, <1>2, VarintBreaks DEF s

LEMMA SkipByte ==
    ASSUME NEW c \in Seq(Byte), NEW i \in Nat, i < Len(c), NEW x \in {8, 123, 124}, c[i + 1] = x,
           NEW depth \in Nat, x = 124 => depth >= 1
    PROVE  SkipOne(c, i, depth) =
               IF x = 8 THEN Behind(ReadVarint(c, i + 1), depth)
               ELSE Passed(i + 1, IF x = 123 THEN depth + 1 ELSE depth - 1)
<1> DEFINE tag == At(x, i + 1)
           wt == WireType(x)
<1>1. x < 128 /\ ~(i >= Len(c)) /\ wt = IF x = 8 THEN 0 ELSE IF x = 123 THEN 3 ELSE 4
  BY DEF WireType
<1>2. ReadVarint(c, i) = tag
  BY <1>1, ByteRead
<1>3. Ok(tag) /\ tag.val = x /\ tag.next = i + 1
  BY Results
<1> HIDE DEF tag, wt
<1>4. SkipOne(c, i, depth) = SkipTagged(c, tag, depth)
  BY <1>1, <1>2 DEF SkipOne
<1>5. ~(wt = 4 /\ depth = 0)
  BY <1>1
<1>6. SkipTagged(c, tag, depth)
      = Behind(PastValue(c, wt, i + 1),
               CASE wt = 3 -> depth + 1 [] wt = 4 -> depth - 1 [] OTHER -> depth)
  BY <1>3, <1>5 DEF SkipTagged, wt
<1>7. \A n, d : Behind(At(0, n), d) = Passed(n, d)
  BY Results DEF Behind, Passed
<1>8. CASE x = 8
  <2>1. wt = 0 /\ PastValue(c, 0, i + 1) = ReadVarint(c, i + 1)
    BY <1>1, <1>8 DEF PastValue
  <2> QED
    BY <1>4, <1>6, <1>8, <2>1
<1>9. CASE x = 123
  <2>1. wt = 3 /\ PastValue(c, 3, i + 1) = At(0, i + 1)
    BY <1>1, <1>9 DEF PastValue
  <2> QED
    BY <1>4, <1>6, <1>7, <1>9, <2>1
<1>10. CASE x = 124
  <2>1. wt = 4 /\ PastValue(c, 4, i + 1) = At(0, i + 1)
    BY <1>1, <1>10 DEF PastValue
  <2> QED
    BY <1>4, <1>6, <1>7, <1>10, <2>1
<1> QED
  BY <1>8, <1>9, <1>10

(* A group with a group and a field in it, as far as its bytes go.         *)
Group == <<123, 123, 124, 8, 1, 124>>

LEMMA GroupBytes ==
    /\ Group \in Seq(Byte) /\ Len(Group) = 6
    /\ Group[1] = 123 /\ Group[2] = 123 /\ Group[3] = 124
    /\ Group[4] = 8 /\ Group[5] = 1 /\ Group[6] = 124
  BY DEF Group, Byte

LEMMA GroupPasses ==
    ASSUME NEW c \in Seq(Byte), NEW i \in Nat, NEW h, Skipped(c, i, h),
           NEW x \in 1 .. 6, i + x <= Len(c), \A k \in 1 .. x : c[i + k] = Group[k]
    PROVE  /\ h[1] = Passed(i + 1, 1)
           /\ x >= 2 => h[2] = Passed(i + 2, 2)
           /\ x >= 3 => h[3] = Passed(i + 3, 1)
           /\ x >= 4 => h[4] = Behind(ReadVarint(c, i + 4), 1)
           /\ x >= 5 => h[4] = Passed(i + 5, 1)
           /\ x >= 6 => h[5] = Passed(i + 6, 0)
<1>0. Len(c) \in Nat /\ x \in Nat
  OBVIOUS
<1>1. /\ \A k \in 1 .. Len(c) + 1 : h[k] = IF k = 1 THEN SkipOne(c, i, 0) ELSE Onward(c, h[k - 1])
      /\ \A n, d : Passed(n, d).next = n /\ Passed(n, d).depth = d /\ Ok(Passed(n, d))
  BY DEF Skipped, Passed, Ok
<1>2. \A n, d : d # 0 => Onward(c, Passed(n, d)) = SkipOne(c, n, d)
  BY <1>1 DEF Onward
<1>3. h[1] = Passed(i + 1, 1)
  <2>1. 1 \in 1 .. Len(c) + 1 /\ 1 \in 1 .. x /\ i < Len(c)
    BY <1>0
  <2>2. c[i + 1] = 123 /\ h[1] = SkipOne(c, i, 0)
    BY <1>1, <2>1, GroupBytes
  <2>3. SkipOne(c, i, 0) = Passed(i + 1, 0 + 1)
    BY <2>1, <2>2, SkipByte
  <2> QED
    BY <2>2, <2>3
<1>4. ASSUME x >= 2 PROVE h[2] = Passed(i + 2, 2)
  <2> DEFINE j == i + 1
  <2>1. 2 \in 1 .. Len(c) + 1 /\ 2 \in 1 .. x /\ j < Len(c) /\ j \in Nat /\ j + 1 = i + 2
    BY <1>0, <1>4
  <2>2. c[j + 1] = 123 /\ h[2] = SkipOne(c, j, 1)
    BY <1>1, <1>2, <1>3, <2>1, GroupBytes, SMTT(30)
  <2> HIDE DEF j
  <2>3. SkipOne(c, j, 1) = Passed(j + 1, 1 + 1)
    BY <2>1, <2>2, SkipByte
  <2> QED
    BY <2>1, <2>2, <2>3
<1>5. ASSUME x >= 3 PROVE h[3] = Passed(i + 3, 1)
  <2> DEFINE j == i + 2
  <2>1. 3 \in 1 .. Len(c) + 1 /\ 3 \in 1 .. x /\ j < Len(c) /\ j \in Nat /\ j + 1 = i + 3 /\ x >= 2
    BY <1>0, <1>5
  <2>2. c[j + 1] = 124 /\ h[3] = SkipOne(c, j, 2)
    BY <1>1, <1>2, <1>4, <2>1, GroupBytes
  <2> HIDE DEF j
  <2>3. SkipOne(c, j, 2) = Passed(j + 1, 2 - 1)
    BY <2>1, <2>2, SkipByte
  <2> QED
    BY <2>1, <2>2, <2>3
<1>6. ASSUME x >= 4 PROVE h[4] = Behind(ReadVarint(c, i + 4), 1)
  <2> DEFINE j == i + 3
  <2>1. 4 \in 1 .. Len(c) + 1 /\ 4 \in 1 .. x /\ j < Len(c) /\ j \in Nat /\ j + 1 = i + 4 /\ x >= 3
    BY <1>0, <1>6
  <2>2. c[j + 1] = 8 /\ h[4] = SkipOne(c, j, 1)
    BY <1>1, <1>2, <1>5, <2>1, GroupBytes, SMTT(30)
  <2> HIDE DEF j
  <2>3. SkipOne(c, j, 1) = Behind(ReadVarint(c, j + 1), 1)
    BY <2>1, <2>2, SkipByte
  <2> QED
    BY <2>1, <2>2, <2>3
<1>7. ASSUME x >= 5 PROVE h[4] = Passed(i + 5, 1)
  <2> DEFINE j == i + 4
  <2>1. 5 \in 1 .. x /\ j < Len(c) /\ j \in Nat /\ j + 1 = i + 5 /\ x >= 4
    BY <1>0, <1>7
  <2>2. c[j + 1] = 1
    BY <2>1, GroupBytes, SMTT(30)
  <2> HIDE DEF j
  <2>3. ReadVarint(c, j) = At(1, j + 1)
    BY <2>1, <2>2, ByteRead
  <2>4. Behind(At(1, j + 1), 1) = Passed(j + 1, 1)
    BY Results DEF Behind, Passed
  <2> QED
    BY <1>6, <2>1, <2>3, <2>4 DEF j
<1>8. ASSUME x >= 6 PROVE h[5] = Passed(i + 6, 0)
  <2> DEFINE j == i + 5
  <2>1. 5 \in 1 .. Len(c) + 1 /\ 6 \in 1 .. x /\ j < Len(c) /\ j \in Nat /\ j + 1 = i + 6 /\ x >= 5
    BY <1>0, <1>8
  <2>2. c[j + 1] = 124 /\ h[5] = SkipOne(c, j, 1)
    BY <1>1, <1>2, <1>7, <2>1, GroupBytes, SMTT(30)
  <2> HIDE DEF j
  <2>3. SkipOne(c, j, 1) = Passed(j + 1, 1 - 1)
    BY <2>1, <2>2, SkipByte
  <2> QED
    BY <2>1, <2>2, <2>3
<1> QED
  BY <1>3, <1>4, <1>5, <1>6, <1>7, <1>8

LEMMA GroupBreaks ==
    ASSUME NEW c, NEW i, NEW x, x # 0, Breaks(Group, x, c, i)
    PROVE  Skip(c, i) = Failed("UnexpectedEOF")
<1>1. /\ c \in Seq(Byte) /\ i \in Nat /\ x \in 1 .. 5 /\ x \in 1 .. 6 /\ Len(c) = i + x
      /\ \A k \in 1 .. x : c[i + k] = Group[k]
  BY GroupBytes DEF Breaks
<1>2. PICK h : Skipped(c, i, h) /\ Skip(c, i) = h[Len(c) + 1]
  BY <1>1, SkipPasses
<1>3. /\ h[1] = Passed(i + 1, 1)
      /\ x >= 2 => h[2] = Passed(i + 2, 2)
      /\ x >= 3 => h[3] = Passed(i + 3, 1)
      /\ x >= 4 => h[4] = Behind(ReadVarint(c, i + 4), 1)
      /\ x >= 5 => h[4] = Passed(i + 5, 1)
  <2>1. i + x <= Len(c)
    BY <1>1
  <2>2. /\ c \in Seq(Byte) /\ i \in Nat /\ Skipped(c, i, h) /\ x \in 1 .. 6
        /\ \A k \in 1 .. x : c[i + k] = Group[k]
    BY <1>1, <1>2
  <2> QED
    BY ONLY <2>1, <2>2, GroupPasses
<1>4. \A k \in 2 .. Len(c) + 1 : h[k] = Onward(c, h[k - 1])
  BY <1>1, <1>2 DEF Skipped
<1>5. \A n, d : n = Len(c) /\ d # 0 => Onward(c, Passed(n, d)) = Failed("UnexpectedEOF")
  <2>1. \A n, d : Passed(n, d).next = n /\ Passed(n, d).depth = d /\ Ok(Passed(n, d))
    BY DEF Passed, Ok
  <2>2. \A d : SkipOne(c, Len(c), d) = Failed("UnexpectedEOF")
    <3>1. Len(c) >= Len(c)
      BY <1>1
    <3> QED
      BY <3>1 DEF SkipOne
  <2> QED
    BY <2>1, <2>2 DEF Onward
<1>6. \E k \in 1 .. Len(c) + 1 : h[k] = Failed("UnexpectedEOF")
  <2>1. CASE x = 1
    <3>1. 2 \in 2 .. Len(c) + 1 /\ 2 - 1 = 1 /\ 2 \in 1 .. Len(c) + 1
      BY <1>1, <2>1
    <3>2. h[2] = Failed("UnexpectedEOF")
      BY <1>1, <1>3, <1>4, <1>5, <2>1, <3>1
    <3> QED
      BY <3>1, <3>2
  <2>2. CASE x = 2
    <3>1. 3 \in 2 .. Len(c) + 1 /\ 3 - 1 = 2 /\ 3 \in 1 .. Len(c) + 1
      BY <1>1, <2>2
    <3>2. h[3] = Failed("UnexpectedEOF")
      BY <1>1, <1>3, <1>4, <1>5, <2>2, <3>1
    <3> QED
      BY <3>1, <3>2
  <2>3. CASE x = 3
    <3>1. 4 \in 2 .. Len(c) + 1 /\ 4 - 1 = 3 /\ 4 \in 1 .. Len(c) + 1
      BY <1>1, <2>3
    <3>2. h[4] = Failed("UnexpectedEOF")
      BY <1>1, <1>3, <1>4, <1>5, <2>3, <3>1
    <3> QED
      BY <3>1, <3>2
  <2>4. CASE x = 4
    <3>1. 4 \in 1 .. Len(c) + 1 /\ i + 4 = Len(c)
      BY <1>1, <2>4
    <3>2. ReadVarint(c, i + 4) = Failed("UnexpectedEOF")
      BY <1>1, <3>1, EndRead
    <3>3. h[4] = Failed("UnexpectedEOF")
      BY <1>3, <2>4, <3>2, Results DEF Behind
    <3> QED
      BY <3>1, <3>3
  <2>5. CASE x = 5
    <3>1. 5 \in 2 .. Len(c) + 1 /\ 5 - 1 = 4 /\ 5 \in 1 .. Len(c) + 1
      BY <1>1, <2>5
    <3>2. h[5] = Failed("UnexpectedEOF")
      BY <1>1, <1>3, <1>4, <1>5, <2>5, <3>1
    <3> QED
      BY <3>1, <3>2
  <2> QED
    BY <1>1, <2>1, <2>2, <2>3, <2>4, <2>5
<1> QED
  BY <1>1, <1>2, <1>6, SkipStops, Results, SMTT(30)

LEMMA GroupMeans ==
    ASSUME NEW k \in DOMAIN Fields
    PROVE  Means(k, Group, <<>>)
<1>1. ASSUME NEW c \in Seq(Byte), NEW i \in Nat, i < Len(c), c[i + 1] = 123
      PROVE  FieldAt(k, c, i) = Skips(c, Skip(c, i))
  <2>1. c[i + 1] = Foreign * 8 + 3
    BY <1>1 DEF Foreign
  <2> QED
    BY <1>1, <2>1, ForeignTag
<1>2. ASSUME NEW c, NEW i, Stands(Group, c, i), i + Len(Group) < Half
      PROVE  FieldAt(k, c, i) = Reading(<<>>, i + Len(Group))
  <2>1. /\ c \in Seq(Byte) /\ i \in Nat /\ i + 6 <= Len(c) /\ Len(c) \in Nat
        /\ \A j \in 1 .. 6 : c[i + j] = Group[j]
    BY <1>2, GroupBytes DEF Stands
  <2>2. PICK h : Skipped(c, i, h) /\ Skip(c, i) = h[Len(c) + 1]
    BY <2>1, SkipPasses
  <2>3. h[5] = Passed(i + 6, 0)
    <3>1. 6 \in 1 .. 6 /\ 6 >= 6
      OBVIOUS
    <3> QED
      BY <2>1, <2>2, <3>1, GroupPasses
  <2>4. 5 \in 1 .. Len(c) + 1 /\ h[5].depth = 0
    BY <2>1, <2>3 DEF Passed
  <2>5. Skip(c, i) = Passed(i + 6, 0)
    BY <2>1, <2>2, <2>3, <2>4, SkipStops
  <2>6. Skips(c, Passed(i + 6, 0)) = Reading(<<>>, i + 6)
    <3>1. ~(i + 6 > Len(c))
      BY <2>1
    <3> QED
      BY <3>1 DEF Skips, Passed, Ok, PastEnd, Reading
  <2>7. i < Len(c) /\ c[i + 1] = 123
    <3>1. 1 \in 1 .. 6
      OBVIOUS
    <3> QED
      BY <2>1, <3>1, GroupBytes
  <2> QED
    BY <1>1, <2>1, <2>5, <2>6, <2>7, GroupBytes
<1>3. ASSUME NEW x, NEW c, NEW i, Breaks(Group, x, c, i)
      PROVE  FieldAt(k, c, i) = Failed("UnexpectedEOF")
  <2>1. /\ c \in Seq(Byte) /\ i \in Nat /\ x \in Nat /\ Len(c) = i + x
        /\ \A j \in 1 .. x : c[i + j] = Group[j]
    BY <1>3 DEF Breaks
  <2>2. CASE x = 0
    <3>1. ReadVarint(c, i) = Failed("UnexpectedEOF")
      BY <2>1, <2>2, EndRead
    <3> QED
      BY <3>1, Results DEF FieldAt, Tagged
  <2>3. CASE x # 0
    <3>1. 1 \in 1 .. x /\ i < Len(c)
      BY <2>1, <2>3
    <3>2. c[i + 1] = 123
      BY <2>1, <3>1, GroupBytes
    <3>3. FieldAt(k, c, i) = Skips(c, Failed("UnexpectedEOF"))
      BY <1>1, <1>3, <2>1, <2>3, <3>1, <3>2, GroupBreaks
    <3> QED
      BY <3>3, Results DEF Skips
  <2> QED
    BY <2>2, <2>3
<1>4. <<>> \in Seq(Entries(k)) /\ Len(Group) >= 1
  BY GroupBytes
<1> QED
  BY <1>2, <1>3, <1>4, GroupBytes DEF Means

LEMMA TwoBytes ==
    ASSUME NEW x \in Byte, x >= 128, NEW y \in 0 .. 127
    PROVE  \E v : Varint(<<x, y>>, v)
<1> DEFINE s == <<x, y>>
<1>1. s \in Seq(Byte) /\ Len(s) = 2 /\ s[1] = x /\ s[2] = y
  BY DEF Byte
<1> HIDE DEF s
<1>2. 2 \in 1 .. Groups
  BY WordSizes
<1>3. \A k \in 1 .. Len(s) - 1 : s[k] >= 128
  <2>1. \A k \in 1 .. Len(s) - 1 : k = 1
    BY <1>1
  <2> QED
    BY <1>1, <2>1
<1>4. s[Len(s)] < 128
  BY <1>1
<1>5. Varint(s, Value(s, 0, Len(s)) % Uint64)
  BY <1>1, <1>2, <1>3, <1>4 DEF Varint
<1> QED
  BY <1>5 DEF s

(* Fields of a newer schema mean nothing here, whatever their wire type.   *)
LEMMA ForeignFieldsMean ==
    ASSUME NEW k \in DOMAIN Fields, NEW p \in ForeignFields
    PROVE  Means(k, p, <<>>)
<1> DEFINE fixed8 == <<10, 0, 0, 0, 0, 0, 0, 10>>
           fixed4 == <<10, 1, 8, 128>>
<1>1. \/ p = <<Foreign * 8 + 0>> \o <<128, 1>>
      \/ p = <<Foreign * 8 + 1>> \o fixed8
      \/ p = <<Foreign * 8 + 2>> \o (<<2>> \o <<10, 0>>)
      \/ p = Group
      \/ p = <<Foreign * 8 + 5>> \o fixed4
  BY DEF ForeignFields, Foreign, Group
<1>2. Means(k, <<Foreign * 8 + 0>> \o <<128, 1>>, <<>>)
  <2>1. 128 \in Byte /\ 128 >= 128 /\ 1 \in 0 .. 127
    BY DEF Byte
  <2> DEFINE q == <<128, 1>>
             wt == 0
  <2>2. PICK v : Varint(q, v)
    BY <2>1, TwoBytes
  <2> HIDE DEF q
  <2>3. Passes(wt, q) /\ q \in Seq(Byte) /\ wt \in {0, 1, 2, 5}
    BY <2>2, VarintPasses DEF Varint
  <2> HIDE DEF wt
  <2>4. Means(k, <<Foreign * 8 + wt>> \o q, <<>>)
    BY <2>3, ForeignMeans
  <2> QED
    BY <2>4 DEF wt, q
<1>3. Means(k, <<Foreign * 8 + 1>> \o fixed8, <<>>)
  <2> DEFINE wt == 1
  <2>1. fixed8 \in Seq(Byte) /\ Len(fixed8) = 8 /\ wt = 1 /\ wt \in {0, 1, 2, 5}
    BY DEF Byte
  <2> HIDE DEF fixed8, wt
  <2>2. Passes(wt, fixed8)
    BY <2>1, FixedPasses
  <2>3. Means(k, <<Foreign * 8 + wt>> \o fixed8, <<>>)
    BY <2>1, <2>2, ForeignMeans
  <2> QED
    BY <2>3 DEF wt
<1>4. Means(k, <<Foreign * 8 + 2>> \o (<<2>> \o <<10, 0>>), <<>>)
  <2> DEFINE wt == 2
             u == <<2>>
             data == <<10, 0>>
             q == u \o data
  <2>1. u \in Seq(Byte) /\ Varint(u, 2)
    BY ByteVarint
  <2>2. data \in Content /\ Len(data) = 2 /\ data \in Seq(Byte)
    BY WordSizes DEF Content, Byte
  <2> HIDE DEF u, data
  <2>3. Passes(2, q) /\ q \in Seq(Byte)
    BY <2>1, <2>2, DataPasses, Parts
  <2>4. wt = 2 /\ wt \in {0, 1, 2, 5}
    OBVIOUS
  <2> HIDE DEF q, wt
  <2>5. Means(k, <<Foreign * 8 + wt>> \o q, <<>>)
    BY <2>3, <2>4, ForeignMeans
  <2> QED
    BY <2>5 DEF wt, q, u, data
<1>5. Means(k, <<Foreign * 8 + 5>> \o fixed4, <<>>)
  <2> DEFINE wt == 5
  <2>1. fixed4 \in Seq(Byte) /\ Len(fixed4) = 4 /\ wt = 5 /\ wt \in {0, 1, 2, 5}
    BY DEF Byte
  <2> HIDE DEF fixed4, wt
  <2>2. Passes(wt, fixed4)
    BY <2>1, FixedPasses
  <2>3. Means(k, <<Foreign * 8 + wt>> \o fixed4, <<>>)
    BY <2>1, <2>2, ForeignMeans
  <2> QED
    BY <2>3 DEF wt
<1> QED
  BY <1>1, <1>2, <1>3, <1>4, <1>5, GroupMeans

-----------------------------------------------------------------------------
(* The mistakes that have to be refused.                                   *)

Refuses(k, p, e) ==
    /\ p \in Seq(Byte) /\ Len(p) >= 1 /\ e \in Errors
    /\ \A c, i : Stands(p, c, i) /\ i + Len(p) < Half => FieldAt(k, c, i) = Failed(e)

(* A byte that announces no other, and what is behind it.                  *)
Begins(p, x, q) == x \in 0 .. 127 /\ q \in Seq(Byte) /\ p = <<x>> \o q

LEMMA FirstByte ==
    ASSUME NEW p, NEW x, NEW q, Begins(p, x, q), NEW c, NEW i, Stands(p, c, i)
    PROVE  /\ c \in Seq(Byte) /\ i \in Nat /\ i < Len(c) /\ c[i + 1] = x
           /\ ReadVarint(c, i) = At(x, i + 1) /\ Stands(q, c, i + 1)
<1> DEFINE t == <<x>>
<1>1. t \in Seq(Byte) /\ Len(t) = 1 /\ t[1] = x /\ Varint(t, x)
  BY ByteVarint DEF Begins
<1>0. q \in Seq(Byte) /\ p = t \o q
  BY DEF Begins
<1> HIDE DEF t
<1>2. Stands(t, c, i) /\ Stands(q, c, i + Len(t))
  BY <1>0, <1>1, StandsParts
<1>3. c \in Seq(Byte) /\ i \in Nat /\ i + 1 <= Len(c) /\ c[i + 1] = x
  <2>1. 1 \in 1 .. Len(t)
    BY <1>1
  <2> QED
    BY <1>1, <1>2, <2>1 DEF Stands
<1>4. ReadVarint(c, i) = At(x, i + Len(t))
  BY <1>1, <1>2, VarintStands
<1> QED
  BY <1>1, <1>2, <1>3, <1>4

LEMMA ByteThen ==
    ASSUME NEW x \in 0 .. 127, NEW q \in Seq(Byte)
    PROVE  <<x>> \o q \in Seq(Byte) /\ Len(<<x>> \o q) >= 1
<1> DEFINE t == <<x>>
<1>1. t \in Seq(Byte) /\ Len(t) = 1
  BY ByteVarint
<1> HIDE DEF t
<1>2. t \o q \in Seq(Byte) /\ Len(t \o q) = 1 + Len(q) /\ Len(q) \in Nat
  BY <1>1, Parts
<1> QED
  BY <1>2 DEF t

LEMMA WrongTypeRefused ==
    ASSUME NEW k \in DOMAIN Fields, NEW num \in DOMAIN Fields[k],
           NEW wt \in {0, 1, 2, 3, 5} \ {WireOf(Fields[k][num])}
    PROVE  Refuses(k, <<num * 8 + wt, 0>>, "WrongWireType")
<1> DEFINE x == num * 8 + wt
           q == <<0>>
           f == Fields[k][num]
<1>1. num \in 1 .. 6
  BY TablesDeclare
<1>2. x \in 0 .. 127 /\ num \in 0 .. Foreign /\ wt \in 0 .. 7 /\ wt # 4 /\ ~(num <= 0)
  BY <1>1 DEF Foreign
<1>3. FieldNum(x) = num /\ WireType(x) = wt
  BY <1>2, TagNumbers
<1>4. <<x, 0>> = <<x>> \o q
  BY <1>1
<1>5. q \in Seq(Byte)
  BY ByteVarint
<1> HIDE DEF x, q
<1> DEFINE p == <<x>> \o q
<1>6. ASSUME NEW c, NEW i, Stands(p, c, i) PROVE FieldAt(k, c, i) = Failed("WrongWireType")
  <2> DEFINE tag == At(x, i + 1)
  <2>1. ReadVarint(c, i) = tag
    <3>1. Begins(p, x, q)
      BY <1>2, <1>5 DEF Begins
    <3> HIDE DEF p
    <3> QED
      BY <1>6, <3>1, FirstByte
  <2>2. Ok(tag) /\ tag.val = x
    BY Results
  <2> HIDE DEF tag
  <2>3. FieldAt(k, c, i) = Declared(f, c, tag)
    BY <1>2, <1>3, <2>1, <2>2 DEF FieldAt, Tagged
  <2>4. WireType(tag.val) # (IF f.type = "uint" THEN 0 ELSE 2)
    BY <1>3, <2>2 DEF WireOf
  <2> QED
    BY <2>3, <2>4 DEF Declared
<1>7. Refuses(k, <<x>> \o q, "WrongWireType")
  BY <1>2, <1>5, <1>6, ByteThen DEF Refuses, Errors
<1> QED
  BY <1>4, <1>7 DEF x

LEMMA EndOfGroupRefused ==
    ASSUME NEW k \in DOMAIN Fields
    PROVE  Refuses(k, <<8 + 4>>, "EndGroup")
<1> DEFINE p == <<8 + 4>>
<1>1. 8 + 4 \in 0 .. 127 /\ WireType(8 + 4) = 4
  BY DEF WireType
<1>2. p = <<8 + 4>> \o <<>> /\ <<>> \in Seq(Byte)
  OBVIOUS
<1>3. ASSUME NEW c, NEW i, Stands(p, c, i) PROVE FieldAt(k, c, i) = Failed("EndGroup")
  <2> DEFINE tag == At(8 + 4, i + 1)
             x == 8 + 4
  <2>1. ReadVarint(c, i) = tag
    <3>1. Begins(p, x, <<>>)
      BY <1>1, <1>2 DEF Begins
    <3>2. tag = At(x, i + 1)
      OBVIOUS
    <3> HIDE DEF p, x, tag
    <3> QED
      BY <1>3, <3>1, <3>2, FirstByte
  <2>2. Ok(tag) /\ WireType(tag.val) = 4
    BY <1>1, Results
  <2> HIDE DEF tag
  <2> QED
    BY <2>1, <2>2 DEF FieldAt, Tagged, tag
<1>4. p \in Seq(Byte) /\ Len(p) >= 1
  BY <1>1, <1>2, ByteThen
<1> HIDE DEF p
<1>5. Refuses(k, p, "EndGroup")
  BY <1>3, <1>4 DEF Refuses, Errors
<1> QED
  BY <1>5 DEF p

LEMMA NoNumberRefused ==
    ASSUME NEW k \in DOMAIN Fields
    PROVE  Refuses(k, <<2, 0>>, "IllegalTag")
<1> DEFINE p == <<2, 0>>
           num == 0
           wt == 2
           x == num * 8 + wt
<1>1. p = <<x>> \o <<0>> /\ <<0>> \in Seq(Byte) /\ x \in 0 .. 127
  BY ByteVarint
<1>2. FieldNum(x) = num /\ WireType(x) = wt
  <2>1. num \in 0 .. Foreign /\ wt \in 0 .. 7
    BY DEF Foreign
  <2> HIDE DEF num, wt
  <2> QED
    BY <2>1, TagNumbers
<1> HIDE DEF x
<1>3. ASSUME NEW c, NEW i, Stands(p, c, i) PROVE FieldAt(k, c, i) = Failed("IllegalTag")
  <2> DEFINE tag == At(x, i + 1)
  <2>1. ReadVarint(c, i) = tag
    <3>1. Begins(p, x, <<0>>)
      BY <1>1 DEF Begins
    <3> HIDE DEF p
    <3> QED
      BY <1>3, <3>1, FirstByte
  <2>2. Ok(tag) /\ tag.val = x
    BY Results
  <2> HIDE DEF tag
  <2>3. WireType(tag.val) # 4 /\ FieldNum(tag.val) <= 0
    BY <1>2, <2>2
  <2> QED
    BY <2>1, <2>2, <2>3 DEF FieldAt, Tagged
<1>4. p \in Seq(Byte) /\ Len(p) >= 1
  BY <1>1, ByteThen
<1> HIDE DEF p
<1>5. Refuses(k, p, "IllegalTag")
  BY <1>3, <1>4 DEF Refuses, Errors
<1> QED
  BY <1>5 DEF p

LEMMA NoWireTypeRefused ==
    ASSUME NEW k \in DOMAIN Fields
    PROVE  Refuses(k, <<Foreign * 8 + 6, 0>>, "IllegalWireType")
<1> DEFINE wt == 6
           x == Foreign * 8 + wt
           p == <<x, 0>>
<1>1. p = <<x>> \o <<0>> /\ <<0>> \in Seq(Byte) /\ x \in 0 .. 127 /\ wt \in 0 .. 7 /\ wt # 4 /\ wt # 3
  BY ByteVarint DEF Foreign
<1>2. ASSUME NEW c, NEW i, Stands(p, c, i) PROVE FieldAt(k, c, i) = Failed("IllegalWireType")
  <2>1. c \in Seq(Byte) /\ i \in Nat /\ i < Len(c) /\ c[i + 1] = x
    <3>1. Begins(p, x, <<0>>)
      BY <1>1 DEF Begins
    <3> HIDE DEF x, p
    <3> QED
      BY <1>2, <3>1, FirstByte
  <2>2. PastValue(c, wt, i + 1) = Failed("IllegalWireType")
    BY DEF PastValue
  <2>3. FieldAt(k, c, i) = Skips(c, Behind(PastValue(c, wt, i + 1), 0))
    <3>1. c[i + 1] = Foreign * 8 + wt
      BY <2>1
    <3> HIDE DEF wt, x
    <3> QED
      BY <1>1, <2>1, <3>1, ForeignValue
  <2>4. Skips(c, Behind(Failed("IllegalWireType"), 0)) = Failed("IllegalWireType")
    BY SkipsValue
  <2> QED
    BY <2>2, <2>3, <2>4
<1>3. p \in Seq(Byte) /\ Len(p) >= 1
  <2> HIDE DEF x
  <2> QED
    BY <1>1, ByteThen
<1> HIDE DEF p
<1>4. Refuses(k, p, "IllegalWireType")
  BY <1>2, <1>3 DEF Refuses, Errors
<1> QED
  BY <1>4 DEF p, x, wt

LEMMA NoEndRefused ==
    ASSUME NEW k \in DOMAIN Fields
    PROVE  Refuses(k, [j \in 1 .. Groups |-> 128], "IntOverflow")
<1> DEFINE p == [j \in 1 .. Groups |-> 128]
<1>1. p \in Seq(Byte) /\ Len(p) = Groups /\ \A j \in 1 .. Groups : p[j] = 128
  <2>1. Groups \in Nat /\ p \in [1 .. Groups -> Byte] /\ \A j \in 1 .. Groups : p[j] = 128
    BY WordSizes DEF Byte
  <2> HIDE DEF p
  <2> QED
    BY <2>1
<1> HIDE DEF p
<1>2. ASSUME NEW c, NEW i, Stands(p, c, i) PROVE FieldAt(k, c, i) = Failed("IntOverflow")
  <2>1. i + Groups <= Len(c) /\ \A j \in 1 .. Groups : c[i + j] = 128
    BY <1>1, <1>2 DEF Stands
  <2>2. ~ \E n \in 1 .. Groups : Takes(c, i, n)
    BY <2>1 DEF Takes
  <2>3. ReadVarint(c, i) = Failed("IntOverflow")
    BY <2>1, <2>2 DEF ReadVarint
  <2> QED
    BY <2>3, Results DEF FieldAt, Tagged
<1>3. Len(p) >= 1
  BY <1>1, WordSizes
<1>4. Refuses(k, p, "IntOverflow")
  BY <1>1, <1>2, <1>3 DEF Refuses, Errors
<1> QED
  BY <1>4 DEF p

(* A length of all ones is a negative one.                                 *)
Ones == [j \in 1 .. Groups |-> IF j < Groups THEN 255 ELSE 1]

LEMMA OnesBytes ==
    /\ Ones \in Seq(Byte) /\ Len(Ones) = Groups /\ Ones[Groups] = 1
    /\ \A j \in 1 .. Groups - 1 : Ones[j] = 255
<1>1. Groups \in Nat /\ Groups >= 2 /\ Ones \in [1 .. Groups -> Byte]
  BY WordSizes DEF Byte, Ones
<1>2. \A j \in 1 .. Groups : Ones[j] = IF j < Groups THEN 255 ELSE 1
  BY DEF Ones
<1>3. Ones \in Seq(Byte) /\ Len(Ones) = Groups
  BY <1>1
<1>4. Ones[Groups] = 1
  BY <1>1, <1>2
<1>5. \A j \in 1 .. Groups - 1 : Ones[j] = 255
  BY <1>1, <1>2
<1> QED
  BY <1>3, <1>4, <1>5

LEMMA OnesVarint == Varint(Ones, Uint64 - 1)
<1> DEFINE n == Groups
<1>1. n \in Nat /\ n >= 2 /\ Word \in Nat /\ Word = 7 * n - 6 /\ n \in 1 .. Groups
      /\ Uint64 \in Nat /\ Uint64 >= 1
  BY WordSizes
<1>2. Ones \in Seq(Byte) /\ Len(Ones) = n /\ Ones[n] = 1 /\ \A j \in 1 .. n - 1 : Ones[j] = 255
  BY OnesBytes
<1> HIDE DEF n
<1>3. PICK g : Reads(g, Ones, 0, n)
  <2>1. 0 \in Nat /\ 0 + n <= Len(Ones)
    BY <1>1, <1>2
  <2> QED
    BY <1>1, <1>2, <2>1, ValueReads
<1>4. /\ \A k \in 0 .. n : g[k] \in Nat
      /\ g[n] = 0
      /\ \A k \in 0 .. n - 1 : g[k] = (Ones[k + 1] % 128) + 128 * g[k + 1]
  <2>1. /\ g \in [0 .. n -> Nat] /\ g[n] = 0
        /\ \A k \in 0 .. n - 1 : g[k] = (Ones[0 + k + 1] % 128) + 128 * g[k + 1]
    BY <1>3 DEF Reads
  <2>2. \A k \in 0 .. n - 1 : 0 + k + 1 = k + 1
    OBVIOUS
  <2> QED
    BY <2>1, <2>2
<1> DEFINE m == n - 1
           Good == {j \in 0 .. m : g[m - j] + 1 = Pow2[7 * j + 1]}
<1>5. m \in Nat /\ m - 0 = m /\ m \in 0 .. n - 1 /\ m + 1 = n /\ 7 * m + 1 = Word
  BY <1>1
<1>6. 0 \in Good
  <2>1. g[m] = (Ones[n] % 128) + 128 * g[n]
    BY <1>4, <1>5
  <2>2. g[m] = 1
    BY <1>2, <1>4, <2>1
  <2>3. Pow2[1] = 2
    <3>1. 1 \in 1 .. Word /\ 1 - 1 = 0
      BY <1>1
    <3> QED
      BY <3>1, Powers
  <2>4. 7 * 0 + 1 = 1 /\ 0 \in 0 .. m
    BY <1>5
  <2> HIDE DEF m
  <2> QED
    BY <1>5, <2>2, <2>3, <2>4
<1>7. ASSUME NEW j \in 1 .. m, j - 1 \in Good PROVE j \in Good
  <2> DEFINE x == m - j
             e == 7 * (j - 1) + 1
  <2>1. x \in 0 .. n - 1 /\ x + 1 = m - (j - 1) /\ x + 1 \in 0 .. n /\ x + 1 \in 1 .. n - 1
        /\ e \in Nat /\ e + 7 = 7 * j + 1 /\ e + 7 <= Word /\ j \in 0 .. m
    BY <1>1, <1>5
  <2>2. g[x] = (Ones[x + 1] % 128) + 128 * g[x + 1]
    BY <1>4, <2>1
  <2>3. Ones[x + 1] % 128 = 127
    BY <1>2, <2>1
  <2>4. g[x + 1] + 1 = Pow2[e] /\ g[x + 1] \in Nat
    BY <1>4, <1>7, <2>1
  <2> HIDE DEF x, e
  <2>5. Pow2[e + 7] = 128 * Pow2[e]
    BY <2>1, SevenBits
  <2> DEFINE a == g[x + 1]
             y == g[x]
             w == Pow2[e]
             z == Pow2[e + 7]
  <2>6. a \in Nat /\ y = 127 + 128 * a /\ a + 1 = w /\ z = 128 * w
    BY <2>2, <2>3, <2>4, <2>5
  <2> HIDE DEF a, y, w, z
  <2>7. y + 1 = z
    BY <2>6
  <2>8. g[m - j] + 1 = Pow2[7 * j + 1]
    BY <2>1, <2>7 DEF y, z, x
  <2> QED
    BY <2>1, <2>8
<1>8. m \in Good
  <2>1. \A j \in 0 .. m : j \in Good
    <3> HIDE DEF Good, m
    <3> QED
      BY <1>5, <1>6, <1>7, Iterations
  <2> QED
    BY <1>5, <2>1
<1>9. g[0] = Uint64 - 1
  <2>1. m - m = 0 /\ 0 \in 0 .. n
    BY <1>1, <1>5
  <2>2. g[0] + 1 = Uint64 /\ g[0] \in Nat
    BY <1>4, <1>5, <1>8, <2>1 DEF Uint64
  <2> QED
    BY <2>2
<1>10. Value(Ones, 0, n) = g[0]
  <2>1. 0 \in Nat /\ 0 + n <= Len(Ones)
    BY <1>1, <1>2
  <2> QED
    BY <1>1, <1>2, <1>3, <2>1, ValueIs
<1>11. (Uint64 - 1) % Uint64 = Uint64 - 1
  BY <1>1
<1>12. \A k \in 1 .. n - 1 : Ones[k] >= 128
  BY <1>2
<1> QED
  BY <1>1, <1>2, <1>9, <1>10, <1>11, <1>12 DEF Varint

LEMMA NegativeLengthRefused ==
    ASSUME NEW k \in DOMAIN Fields
    PROVE  Refuses(k, <<Foreign * 8 + 2>> \o Ones, "InvalidLength")
<1> DEFINE wt == 2
           x == Foreign * 8 + wt
           p == <<x>> \o Ones
<1>1. Ones \in Seq(Byte) /\ x \in 0 .. 127 /\ wt \in 0 .. 7 /\ wt # 4 /\ wt # 3
  BY OnesBytes DEF Foreign
<1>2. ASSUME NEW c, NEW i, Stands(p, c, i) PROVE FieldAt(k, c, i) = Failed("InvalidLength")
  <2> DEFINE v == Uint64 - 1
             h == i + 1 + Len(Ones)
  <2>1. c \in Seq(Byte) /\ i \in Nat /\ i < Len(c) /\ c[i + 1] = x /\ Stands(Ones, c, i + 1)
    <3>1. Begins(p, x, Ones)
      BY <1>1 DEF Begins
    <3> HIDE DEF x, p
    <3> QED
      BY <1>2, <3>1, FirstByte
  <2>2. ReadVarint(c, i + 1) = At(v, h)
    BY <2>1, OnesVarint, VarintStands
  <2>3. Signed(v, Uint64) < 0
    BY WordSizes DEF Signed
  <2> HIDE DEF v, h
  <2>4. ReadLength(c, i + 1) = Failed("InvalidLength")
    BY <2>2, <2>3, Results DEF ReadLength, LengthOf
  <2>5. PastValue(c, wt, i + 1) = Failed("InvalidLength")
    BY <2>4, Results DEF PastValue
  <2>6. FieldAt(k, c, i) = Skips(c, Behind(PastValue(c, wt, i + 1), 0))
    <3>1. c[i + 1] = Foreign * 8 + wt
      BY <2>1
    <3> HIDE DEF wt, x
    <3> QED
      BY <1>1, <2>1, <3>1, ForeignValue
  <2>7. Skips(c, Behind(Failed("InvalidLength"), 0)) = Failed("InvalidLength")
    BY SkipsValue
  <2> QED
    BY <2>5, <2>6, <2>7
<1>3. p \in Seq(Byte) /\ Len(p) >= 1
  <2> HIDE DEF x
  <2> QED
    BY <1>1, ByteThen
<1> HIDE DEF p
<1>4. Refuses(k, p, "InvalidLength")
  BY <1>2, <1>3 DEF Refuses, Errors
<1> QED
  BY <1>4 DEF p, x, wt

-----------------------------------------------------------------------------
(* Pieces in a row. *)

Gathering(k, c, g) ==
    g \in [0 .. Len(c) -> Gathered(k)] /\ \A i \in 0 .. Len(c) : g[i] = Gathers(k, c, i, g)

(* However a message goes on that begins with b, the loop stores u first.  *)
Said(k, b, u) ==
    /\ b \in Seq(Byte) /\ u \in Seq(Entries(k))
    /\ \A c, g : Stands(b, c, 0) /\ Len(c) < Half /\ Gathering(k, c, g) =>
                     g[0].stores = u \o g[Len(b)].stores /\ g[0].err = g[Len(b)].err

LEMMA SaidNothing ==
    ASSUME NEW k
    PROVE  Said(k, <<>>, <<>>)
<1>1. <<>> \in Seq(Byte) /\ <<>> \in Seq(Entries(k)) /\ Len(<<>>) = 0
  OBVIOUS
<1>2. ASSUME NEW c, NEW g, Stands(<<>>, c, 0), Gathering(k, c, g)
      PROVE  g[0].stores = <<>> \o g[0].stores
  <2>1. 0 \in 0 .. Len(c)
    BY <1>2 DEF Stands
  <2>2. g[0] \in Gathered(k)
    BY <1>2, <2>1 DEF Gathering
  <2>3. g[0].stores \in Seq(Entries(k))
    BY <2>2 DEF Gathered
  <2> DEFINE t == g[0].stores
  <2> HIDE DEF t
  <2>4. <<>> \o t = t
    BY <2>3, ConcatEmptySeq DEF t
  <2> QED
    BY <2>4 DEF t
<1> QED
  BY <1>1, <1>2 DEF Said

(* At offset i of c the loop comes to p, which means s, and goes on at n.  *)
ComesTo(k, c, g, p, s, i, n) ==
    /\ Gathering(k, c, g) /\ Len(c) < Half
    /\ Means(k, p, s) /\ Stands(p, c, i) /\ n = i + Len(p)

LEMMA NextGathered ==
    ASSUME NEW k, NEW c, NEW g, NEW p, NEW s, NEW i, NEW n, ComesTo(k, c, g, p, s, i, n)
    PROVE  /\ g[n] \in Gathered(k)
           /\ g[i].stores = s \o g[n].stores /\ g[i].err = g[n].err
<1> DEFINE r == FieldAt(k, c, i)
<1>1. i \in Nat /\ n \in Nat /\ n <= Len(c) /\ Len(c) \in Nat /\ Len(p) \in Nat /\ Len(p) >= 1
  BY DEF ComesTo, Stands, Means
<1>2. n \in 0 .. Len(c) /\ ~(n > Len(c)) /\ i \in 0 .. Len(c) /\ i # Len(c) /\ n < Half
  BY <1>1, WordSizes DEF ComesTo
<1>3. r = Reading(s, n)
  BY <1>2 DEF ComesTo, Means
<1> HIDE DEF r
<1>4. Ok(r) /\ r.next = n /\ r.stores = s
  BY <1>3 DEF Reading, Ok
<1>5. g[i] = Gathers(k, c, i, g) /\ g[n] \in Gathered(k)
  BY <1>2 DEF ComesTo, Gathering
<1>6. g[i] = [stores |-> s \o g[n].stores, err |-> g[n].err]
  BY <1>2, <1>4, <1>5 DEF Gathers, GoOn, StoredWith, r
<1>7. g[i].stores = s \o g[n].stores /\ g[i].err = g[n].err
  BY <1>6
<1> QED
  BY <1>5, <1>7

LEMMA SaidMore ==
    ASSUME NEW k, NEW b, NEW u, Said(k, b, u), NEW p, NEW s, Means(k, p, s)
    PROVE  Said(k, b \o p, u \o s)
<1> DEFINE d == b \o p
           w == u \o s
<1>1. b \in Seq(Byte) /\ p \in Seq(Byte) /\ u \in Seq(Entries(k)) /\ s \in Seq(Entries(k))
  BY DEF Said, Means
<1>2. d \in Seq(Byte) /\ Len(d) = Len(b) + Len(p)
  BY <1>1, Parts
<1>3. w \in Seq(Entries(k))
  BY <1>1, ConcatProperties
<1>4. ASSUME NEW c, NEW g, Stands(d, c, 0), Len(c) < Half, Gathering(k, c, g)
      PROVE  g[0].stores = w \o g[Len(d)].stores /\ g[0].err = g[Len(d)].err
  <2>1. Stands(b, c, 0) /\ Stands(p, c, 0 + Len(b))
    BY <1>1, <1>4, StandsParts
  <2>2. 0 + Len(b) = Len(b)
    BY <1>1
  <2> HIDE DEF d, w
  <2>3. g[0].stores = u \o g[Len(b)].stores /\ g[0].err = g[Len(b)].err
    BY <1>4, <2>1 DEF Said
  <2> DEFINE x == g[Len(d)]
  <2>4. x \in Gathered(k) /\ g[Len(b)].stores = s \o x.stores /\ g[Len(b)].err = x.err
    <3> DEFINE i == Len(b)
               n == Len(d)
    <3>1. ComesTo(k, c, g, p, s, i, n)
      BY <1>2, <1>4, <2>1, <2>2 DEF ComesTo
    <3> HIDE DEF i, n
    <3>2. g[n] \in Gathered(k) /\ g[i].stores = s \o g[n].stores /\ g[i].err = g[n].err
      BY ONLY <3>1, NextGathered
    <3> QED
      BY <3>2 DEF i, n
  <2> DEFINE t == x.stores
  <2>5. t \in Seq(Entries(k))
    BY <2>4 DEF Gathered
  <2> HIDE DEF x
  <2>6. g[0].stores = u \o (s \o t) /\ g[0].err = x.err
    BY <2>3, <2>4
  <2> HIDE DEF t
  <2>7. u \o (s \o t) = (u \o s) \o t
    BY <1>1, <2>5, ConcatAssociative, SMTT(30)
  <2> QED
    BY <2>6, <2>7 DEF w, t, x
<1> HIDE DEF d, w
<1>5. Said(k, d, w)
  BY <1>2, <1>3, <1>4 DEF Said
<1> QED
  BY <1>5 DEF d, w

LEMMA StandsItself ==
    ASSUME NEW b \in Seq(Byte)
    PROVE  Stands(b, b, 0)
<1>1. Len(b) \in Nat /\ \A k \in 1 .. Len(b) : 0 + k = k
  OBVIOUS
<1> QED
  BY <1>1 DEF Stands

LEMMA LoopIs ==
    ASSUME NEW k, NEW c \in Seq(Byte)
    PROVE  \E g : Gathering(k, c, g) /\ Loop(k, c) = g[0]
  BY LoopGathers DEF Gathering

LEMMA SaidAll ==
    ASSUME NEW k, NEW b, NEW u, Said(k, b, u), Len(b) < Half
    PROVE  Loop(k, b).stores = u /\ Loop(k, b).err = "None"
<1>1. b \in Seq(Byte) /\ u \in Seq(Entries(k)) /\ Len(b) \in Nat /\ Len(b) \in 0 .. Len(b)
  BY DEF Said
<1>2. PICK g : Gathering(k, b, g) /\ Loop(k, b) = g[0]
  BY <1>1, LoopIs
<1>3. g[0].stores = u \o g[Len(b)].stores /\ g[0].err = g[Len(b)].err
  BY <1>1, <1>2, StandsItself DEF Said
<1>4. g[Len(b)] = [stores |-> <<>>, err |-> "None"]
  BY <1>1, <1>2 DEF Gathering, Gathers
<1>5. u \o <<>> = u
  BY <1>1, ConcatEmptySeq
<1> QED
  BY <1>2, <1>3, <1>4, <1>5

(* An error ends the loop, with what was stored before.                    *)
LEMMA SaidThenFails ==
    ASSUME NEW k, NEW b, NEW u, Said(k, b, u), NEW c, Stands(b, c, 0), Len(c) < Half,
           Len(c) # Len(b), NEW e \in Errors, FieldAt(k, c, Len(b)) = Failed(e)
    PROVE  Loop(k, c).stores = u /\ Loop(k, c).err = e
<1>1. b \in Seq(Byte) /\ u \in Seq(Entries(k)) /\ c \in Seq(Byte)
  BY DEF Said, Stands
<1>2. Len(b) \in 0 .. Len(c)
  BY <1>1 DEF Stands
<1>3. PICK g : Gathering(k, c, g) /\ Loop(k, c) = g[0]
  BY <1>1, LoopIs
<1>4. g[0].stores = u \o g[Len(b)].stores /\ g[0].err = g[Len(b)].err
  BY <1>3 DEF Said
<1>5. ~Ok(Failed(e)) /\ Failed(e).err = e
  BY Results DEF Errors
<1>6. g[Len(b)] = [stores |-> <<>>, err |-> e]
  BY <1>2, <1>3, <1>5 DEF Gathering, Gathers, GoOn
<1>7. u \o <<>> = u
  BY <1>1, ConcatEmptySeq
<1> QED
  BY <1>3, <1>4, <1>6, <1>7

(* An end b \o p is refused in.                                            *)
LEMMA SaidThenRefused ==
    ASSUME NEW k, NEW b, NEW u, Said(k, b, u), NEW p, NEW e, Refuses(k, p, e), Len(b \o p) < Half
    PROVE  Loop(k, b \o p).stores = u /\ Loop(k, b \o p).err = e
<1> DEFINE c == b \o p
<1>1. b \in Seq(Byte) /\ p \in Seq(Byte) /\ e \in Errors /\ Len(p) >= 1
  BY DEF Said, Refuses
<1>2. c \in Seq(Byte) /\ Len(c) = Len(b) + Len(p) /\ Len(b) \in Nat /\ Len(p) \in Nat
  BY <1>1, Parts
<1>3. Stands(b, c, 0) /\ Stands(p, c, 0 + Len(b))
  <2>1. Stands(c, c, 0)
    BY <1>2, StandsItself
  <2> QED
    BY <1>1, <2>1, StandsParts
<1>4. 0 + Len(b) = Len(b) /\ Len(b) # Len(c) /\ Len(b) + Len(p) < Half /\ Len(c) < Half
  BY <1>1, <1>2
<1> HIDE DEF c
<1>5. FieldAt(k, c, Len(b)) = Failed(e)
  BY <1>3, <1>4 DEF Refuses
<1>6. Loop(k, c).stores = u /\ Loop(k, c).err = e
  BY <1>1, <1>3, <1>4, <1>5, SaidThenFails
<1> QED
  BY <1>6 DEF c

(* A cut c in the middle of the last piece.                                *)
CutIn(k, b, u, p, s, n, c) ==
    /\ Said(k, b, u) /\ Means(k, p, s) /\ Len(b \o p) < Half
    /\ n \in Len(b) + 1 .. Len(b \o p) - 1 /\ c = SubSeq(b \o p, 1, n)

LEMMA SaidThenCut ==
    ASSUME NEW k, NEW b, NEW u, NEW p, NEW s, NEW n, NEW c, CutIn(k, b, u, p, s, n, c)
    PROVE  Loop(k, c).stores = u /\ Loop(k, c).err = "UnexpectedEOF"
<1> DEFINE d == b \o p
           x == n - Len(b)
<1>1. b \in Seq(Byte) /\ p \in Seq(Byte)
  BY DEF CutIn, Said, Means
<1>2. /\ d \in Seq(Byte) /\ Len(d) = Len(b) + Len(p) /\ Len(b) \in Nat /\ Len(p) \in Nat
      /\ \A i \in 1 .. Len(b) : i \in 1 .. Len(d) /\ d[i] = b[i]
      /\ \A i \in 1 .. Len(p) : Len(b) + i \in 1 .. Len(d) /\ d[Len(b) + i] = p[i]
  BY <1>1, Parts
<1>0. Said(k, b, u) /\ Means(k, p, s) /\ Len(d) < Half /\ n \in Len(b) + 1 .. Len(d) - 1
  BY DEF CutIn
<1>3. n \in Nat /\ n > Len(b) /\ n < Len(d) /\ n \in 0 .. Len(d)
  BY <1>0, <1>2
<1>4. c = SubSeq(d, 1, n)
  BY DEF CutIn
<1> HIDE DEF d
<1>5. c \in Seq(Byte) /\ Len(c) = n /\ \A i \in 1 .. n : c[i] = d[i]
  <2>1. /\ 1 \in 1 .. n + 1 /\ n \in 1 - 1 .. Len(d)
        /\ n - 1 + 1 = n /\ \A i \in 1 .. n : 1 + i - 1 = i
    BY <1>3
  <2>2. /\ c \in Seq(Byte) /\ Len(c) = IF 1 <= n THEN n - 1 + 1 ELSE 0
        /\ \A i \in 1 .. n - 1 + 1 : c[i] = d[1 + i - 1]
    BY <1>2, <1>3, <1>4, <2>1, SubSeqProperties
  <2>3. Len(c) = n
    BY <1>3, <2>2
  <2>4. \A i \in 1 .. n : c[i] = d[1 + i - 1]
    BY <2>1, <2>2
  <2> QED
    BY <2>1, <2>2, <2>3, <2>4
<1>6. Stands(b, c, 0)
  <2>1. 0 + Len(b) <= Len(c) /\ \A i \in 1 .. Len(b) : 0 + i = i /\ i \in 1 .. n
    BY <1>2, <1>3, <1>5
  <2>2. \A i \in 1 .. Len(b) : c[0 + i] = b[i]
    BY <1>2, <1>5, <2>1
  <2> QED
    BY <1>1, <1>5, <2>1, <2>2 DEF Stands
<1>7. Breaks(p, x, c, Len(b))
  <2>1. x \in Nat /\ x < Len(p) /\ Len(c) = Len(b) + x
    BY <1>2, <1>3, <1>5
  <2>2. \A i \in 1 .. x : i \in 1 .. Len(p) /\ Len(b) + i \in 1 .. n
    BY <1>2, <1>3
  <2>3. \A i \in 1 .. x : c[Len(b) + i] = p[i]
    BY <1>2, <1>5, <2>2
  <2> HIDE DEF x
  <2> QED
    BY <1>1, <1>2, <1>5, <2>1, <2>3 DEF Breaks
<1>8. Len(b) + Len(p) < Half /\ Len(c) < Half /\ Len(c) # Len(b)
  BY <1>0, <1>2, <1>3, <1>5, WordSizes
<1>9. FieldAt(k, c, Len(b)) = Failed("UnexpectedEOF")
  BY <1>0, <1>7, <1>8 DEF Means
<1> DEFINE e == "UnexpectedEOF"
<1>10. e \in Errors /\ FieldAt(k, c, Len(b)) = Failed(e)
  BY <1>9 DEF Errors
<1> HIDE DEF e
<1>11. Loop(k, c).stores = u /\ Loop(k, c).err = e
  <2>1. /\ Said(k, b, u) /\ Stands(b, c, 0) /\ Len(c) < Half /\ Len(c) # Len(b)
        /\ e \in Errors /\ FieldAt(k, c, Len(b)) = Failed(e)
    BY <1>0, <1>6, <1>8, <1>10
  <2> QED
    BY ONLY <2>1, SaidThenFails
<1> QED
  BY <1>11 DEF e

-----------------------------------------------------------------------------
(* Entries in a row. *)

(* However the entries go on that begin with u, the message is m after u.  *)
Keeps(k, u, m) ==
    /\ u \in Seq(Entries(k))
    /\ \A w, after : w \in Seq(Entries(k)) /\ Holds(k, u \o w, Len(u \o w), after) =>
                         after[Len(u)] = Done(m)

LEMMA KeepsNothing ==
    ASSUME NEW k
    PROVE  Keeps(k, <<>>, New(k))
<1>1. <<>> \in Seq(Entries(k)) /\ Len(<<>>) = 0
  OBVIOUS
<1>2. ASSUME NEW w \in Seq(Entries(k)), NEW after, Holds(k, <<>> \o w, Len(<<>> \o w), after)
      PROVE  after[0] = Done(New(k))
  <2> DEFINE t == <<>> \o w
  <2>1. t \in Seq(Entries(k))
    BY <1>1, ConcatProperties
  <2> HIDE DEF t
  <2>2. 0 \in 0 .. Len(t)
    BY <2>1
  <2>3. Holds(k, t, Len(t), after)
    BY <1>2 DEF t
  <2> QED
    BY <2>2, <2>3 DEF Holds
<1> QED
  BY <1>1, <1>2 DEF Keeps

LEMMA KeepsMore ==
    ASSUME NEW k, NEW u, NEW m, Keeps(k, u, m), NEW f, NEW v, NEW held,
           << <<f, v>> >> \in Seq(Entries(k)), HoldOne(Done(m), f, v) = Done(held)
    PROVE  Keeps(k, u \o << <<f, v>> >>, held)
<1> DEFINE e == <<f, v>>
           s == <<e>>
           t == u \o s
<1>1. u \in Seq(Entries(k)) /\ s \in Seq(Entries(k)) /\ Len(s) = 1 /\ s[1] = e /\ e[1] = f /\ e[2] = v
  BY DEF Keeps
<1> HIDE DEF s
<1>2. /\ t \in Seq(Entries(k)) /\ Len(t) = Len(u) + 1 /\ Len(u) \in Nat
      /\ t[Len(u) + 1] = e
  <2>1. t \in Seq(Entries(k)) /\ Len(t) = Len(u) + Len(s) /\ Len(u) \in Nat
    BY <1>1, ConcatProperties, SMTT(30)
  <2>2. Len(u) + 1 > Len(u) /\ Len(u) + 1 \in 1 .. Len(u) + Len(s) /\ (Len(u) + 1) - Len(u) = 1
    BY <1>1, <2>1
  <2>3. t[Len(u) + 1] = s[1]
    BY <1>1, <2>1, <2>2, ConcatProperties
  <2> QED
    BY <1>1, <2>1, <2>3
<1>3. ASSUME NEW w \in Seq(Entries(k)), NEW after, Holds(k, t \o w, Len(t \o w), after)
      PROVE  after[Len(t)] = Done(held)
  <2> DEFINE d == t \o w
             x == s \o w
             n == Len(u) + 1
  <2>1. u \o x = d
    BY <1>1, ConcatAssociative
  <2>2. x \in Seq(Entries(k))
    BY <1>1, ConcatProperties
  <2> HIDE DEF t
  <2>3. d \in Seq(Entries(k)) /\ Len(d) = Len(t) + Len(w) /\ Len(w) \in Nat /\ d[n] = e
    BY <1>2, ConcatProperties
  <2> HIDE DEF x, d, e
  <2>4. Holds(k, d, Len(d), after) /\ Holds(k, u \o x, Len(u \o x), after)
    BY <1>3, <2>1 DEF d
  <2>5. after[Len(u)] = Done(m)
    BY <2>2, <2>4 DEF Keeps
  <2>6. n \in 0 .. Len(d) /\ n # 0 /\ n - 1 = Len(u) /\ n = Len(t)
    BY <1>2, <2>3
  <2>7. after[n] = HoldOne(after[n - 1], d[n][1], d[n][2])
    <3> HIDE DEF n
    <3> QED
      BY <2>4, <2>6 DEF Holds
  <2>8. after[n] = HoldOne(Done(m), f, v)
    BY <1>1, <2>3, <2>5, <2>6, <2>7
  <2> QED
    BY <2>6, <2>8
<1> HIDE DEF t
<1>4. Keeps(k, t, held)
  BY <1>2, <1>3 DEF Keeps
<1> QED
  BY <1>4 DEF t, s, e

LEMMA KeepsAll ==
    ASSUME NEW k, NEW u, NEW m, Keeps(k, u, m), NEW loop, loop.stores = u
    PROVE  Hold(k, loop) = IF Ok(loop) THEN Done(m) ELSE Failed(loop.err)
<1> DEFINE stores == loop.stores
           n == Len(stores)
           h == CHOOSE after : Holds(k, stores, n, after)
<1>1. Hold(k, loop) = IF Ok(h[n]) /\ ~Ok(loop) THEN Failed(loop.err) ELSE h[n]
  BY DEF Hold, Holds
<1>2. stores \in Seq(Entries(k)) /\ n \in Nat /\ n = Len(u)
  BY DEF Keeps
<1>3. Holds(k, stores, n, h)
  <2> HIDE DEF stores, n
  <2> QED
    BY <1>2, HoldExists
<1> HIDE DEF h
<1>4. h[n] = Done(m)
  <2>1. u \o <<>> = u /\ <<>> \in Seq(Entries(k))
    BY <1>2, ConcatEmptySeq
  <2>2. Holds(k, u \o <<>>, Len(u \o <<>>), h)
    BY <1>3, <2>1
  <2> QED
    BY <1>2, <2>1, <2>2 DEF Keeps
<1>5. Ok(Done(m))
  BY DEF Ok, Done
<1> QED
  BY <1>1, <1>4, <1>5

(* A value that is refused ends the message.                               *)
LEMMA KeepsThenFails ==
    ASSUME NEW k, NEW u, NEW m, Keeps(k, u, m), NEW f, NEW v, NEW e \in Errors,
           << <<f, v>> >> \in Seq(Entries(k)), HoldOne(Done(m), f, v) = Failed(e),
           NEW loop, loop.stores = u \o << <<f, v>> >>
    PROVE  Hold(k, loop) = Failed(e)
<1> DEFINE s == << <<f, v>> >>
           stores == loop.stores
           n == Len(stores)
           h == CHOOSE after : Holds(k, stores, n, after)
<1>1. Hold(k, loop) = IF Ok(h[n]) /\ ~Ok(loop) THEN Failed(loop.err) ELSE h[n]
  BY DEF Hold, Holds
<1>2. u \in Seq(Entries(k)) /\ s \in Seq(Entries(k)) /\ Len(s) = 1
      /\ s[1][1] = f /\ s[1][2] = v /\ stores = u \o s
  BY DEF Keeps
<1> HIDE DEF s, stores
<1>3. stores \in Seq(Entries(k)) /\ n = Len(u) + 1 /\ Len(u) \in Nat /\ stores[n] = s[1]
  <2> DEFINE d == u \o s
  <2>0. d \in Seq(Entries(k)) /\ Len(d) = Len(u) + Len(s) /\ Len(u) \in Nat
    <3>1. u \in Seq(Entries(k)) /\ s \in Seq(Entries(k))
      BY <1>2
    <3>2. Len(u) \in Nat
      BY <3>1
    <3>3. d \in Seq(Entries(k)) /\ Len(d) = Len(u) + Len(s)
      BY ONLY <3>1, ConcatProperties
    <3> QED
      BY <3>2, <3>3
  <2>1. stores \in Seq(Entries(k)) /\ Len(stores) = Len(u) + Len(s) /\ Len(u) \in Nat
    BY <1>2, <2>0
  <2>2. Len(u) + 1 > Len(u) /\ Len(u) + 1 \in 1 .. Len(u) + Len(s) /\ (Len(u) + 1) - Len(u) = 1
    BY <1>2, <2>1
  <2>3. stores[Len(u) + 1] = s[1]
    BY <1>2, <2>1, <2>2, ConcatProperties
  <2> QED
    BY <1>2, <2>1, <2>3
<1>4. Holds(k, stores, n, h)
  <2>1. n \in Nat
    BY <1>3
  <2> HIDE DEF n
  <2> QED
    BY <2>1, HoldExists
<1> HIDE DEF h
<1>5. h[Len(u)] = Done(m)
  BY <1>2, <1>4 DEF Keeps
<1>6. h[n] = HoldOne(h[n - 1], stores[n][1], stores[n][2])
  <2>1. n \in 0 .. n /\ n # 0
    BY <1>3
  <2> HIDE DEF n
  <2> QED
    BY <1>4, <2>1 DEF Holds
<1>7. h[n] = Failed(e)
  <2>1. n - 1 = Len(u)
    BY <1>3
  <2> HIDE DEF n
  <2> QED
    BY <1>2, <1>3, <1>5, <1>6, <2>1
<1>8. ~Ok(Failed(e))
  BY DEF Ok, Failed, Errors
<1> QED
  BY <1>1, <1>7, <1>8

-----------------------------------------------------------------------------
(* Fields in a row: after the bytes b, whatever follows, m is held.        *)

Decodes(k, b, m) == \E u : Said(k, b, u) /\ Keeps(k, u, m)

LEMMA DecodesNothing ==
    ASSUME NEW k
    PROVE  Decodes(k, <<>>, New(k))
  BY SaidNothing, KeepsNothing DEF Decodes

LEMMA DecodesForeign ==
    ASSUME NEW k, NEW b, NEW m, Decodes(k, b, m), NEW p, Means(k, p, <<>>)
    PROVE  Decodes(k, b \o p, m)
<1>1. PICK u : Said(k, b, u) /\ Keeps(k, u, m)
  BY DEF Decodes
<1>2. Said(k, b \o p, u \o <<>>)
  BY <1>1, SaidMore
<1>3. u \o <<>> = u
  BY <1>1, ConcatEmptySeq DEF Said
<1> QED
  BY <1>1, <1>2, <1>3 DEF Decodes

LEMMA DecodesField ==
    ASSUME NEW k, NEW b, NEW m, Decodes(k, b, m), NEW f, NEW v, NEW held,
           NEW p, Means(k, p, << <<f, v>> >>), HoldOne(Done(m), f, v) = Done(held)
    PROVE  Decodes(k, b \o p, held)
<1>1. PICK u : Said(k, b, u) /\ Keeps(k, u, m)
  BY DEF Decodes
<1>2. << <<f, v>> >> \in Seq(Entries(k))
  BY DEF Means
<1> DEFINE s == << <<f, v>> >>
<1>3. Keeps(k, u \o s, held)
  BY <1>1, <1>2, KeepsMore
<1>4. Said(k, b \o p, u \o s)
  <2>1. Means(k, p, s)
    OBVIOUS
  <2> HIDE DEF s
  <2> QED
    BY <1>1, <2>1, SaidMore
<1> HIDE DEF s
<1> QED
  BY <1>3, <1>4 DEF Decodes

LEMMA DecodesAll ==
    ASSUME NEW k, NEW b, NEW m, Decodes(k, b, m), Len(b) < Half
    PROVE  Unmarshal(k, b) = Done(m)
<1>1. PICK u : Said(k, b, u) /\ Keeps(k, u, m)
  BY DEF Decodes
<1>2. Loop(k, b).stores = u /\ Ok(Loop(k, b))
  BY <1>1, SaidAll DEF Ok
<1> DEFINE loop == Loop(k, b)
<1> HIDE DEF loop
<1>3. Hold(k, loop) = Done(m)
  BY <1>1, <1>2, KeepsAll DEF loop
<1> QED
  BY <1>3 DEF Unmarshal, loop

LEMMA DecodesRefused ==
    ASSUME NEW k, NEW b, NEW m, Decodes(k, b, m), NEW p, NEW e, Refuses(k, p, e), Len(b \o p) < Half
    PROVE  Unmarshal(k, b \o p) = Failed(e)
<1>1. PICK u : Said(k, b, u) /\ Keeps(k, u, m)
  BY DEF Decodes
<1> DEFINE loop == Loop(k, b \o p)
<1>2. loop.stores = u /\ loop.err = e
  BY <1>1, SaidThenRefused
<1>3. ~Ok(loop)
  BY <1>2 DEF Ok, Refuses, Errors
<1> HIDE DEF loop
<1>4. Hold(k, loop) = Failed(e)
  BY <1>1, <1>2, <1>3, KeepsAll
<1> QED
  BY <1>4 DEF Unmarshal, loop

LEMMA DecodesMistake ==
    ASSUME NEW k, NEW b, NEW m, Decodes(k, b, m), NEW f, NEW v, NEW e \in Errors,
           NEW p, Means(k, p, << <<f, v>> >>), HoldOne(Done(m), f, v) = Failed(e),
           Len(b \o p) < Half
    PROVE  Unmarshal(k, b \o p) = Failed(e)
<1> DEFINE s == << <<f, v>> >>
           c == b \o p
           loop == Loop(k, c)
<1>1. PICK u : Said(k, b, u) /\ Keeps(k, u, m)
  BY DEF Decodes
<1>2. s \in Seq(Entries(k)) /\ Means(k, p, s)
  BY DEF Means
<1>3. Said(k, c, u \o s)
  <2> HIDE DEF s
  <2> QED
    BY <1>1, <1>2, SaidMore
<1>4. loop.stores = u \o s
  <2> HIDE DEF c, s
  <2> QED
    BY <1>3, SaidAll DEF c
<1> HIDE DEF loop
<1>5. Hold(k, loop) = Failed(e)
  BY <1>1, <1>2, <1>4, KeepsThenFails
<1> QED
  BY <1>5 DEF Unmarshal, loop

LEMMA DecodesCut ==
    ASSUME NEW k, NEW b, NEW m, Decodes(k, b, m), NEW p, NEW s, Means(k, p, s),
           Len(b \o p) < Half, NEW n \in Len(b) + 1 .. Len(b \o p) - 1
    PROVE  Unmarshal(k, SubSeq(b \o p, 1, n)) = Failed("UnexpectedEOF")
<1>1. PICK u : Said(k, b, u) /\ Keeps(k, u, m)
  BY DEF Decodes
<1> DEFINE c == SubSeq(b \o p, 1, n)
           loop == Loop(k, c)
<1>2. loop.stores = u /\ loop.err = "UnexpectedEOF"
  <2>1. CutIn(k, b, u, p, s, n, c)
    BY <1>1 DEF CutIn
  <2> HIDE DEF c
  <2> QED
    BY <2>1, SaidThenCut
<1>3. ~Ok(loop)
  BY <1>2 DEF Ok
<1> HIDE DEF loop, c
<1>4. Hold(k, loop) = Failed("UnexpectedEOF")
  BY <1>1, <1>2, <1>3, KeepsAll
<1> QED
  BY <1>4 DEF Unmarshal, loop, c

TextsHeld(m, stores, n, h) ==
    h = [k \in 0 .. n |-> IF k = 0 THEN m ELSE Held(h[k - 1], stores[k][1], stores[k][2])]

LEMMA HoldNoText ==
    ASSUME NEW m, NEW loop, Ok(loop), loop.stores = <<>>
    PROVE  HoldTexts(m, loop) = Done(m)
<1> DEFINE n == Len(loop.stores)
           h == CHOOSE h : TextsHeld(m, loop.stores, n, h)
           g == [k \in 0 .. 0 |-> m]
<1>1. HoldTexts(m, loop) = Done(h[n])
  BY DEF HoldTexts, TextsHeld
<1>2. n = 0 /\ 0 \in 0 .. 0 /\ \A k \in 0 .. 0 : k = 0
  OBVIOUS
<1>3. TextsHeld(m, loop.stores, 0, g)
  <2>1. g = [k \in 0 .. 0 |-> IF k = 0 THEN m
                              ELSE Held(g[k - 1], loop.stores[k][1], loop.stores[k][2])]
    BY <1>2
  <2> HIDE DEF g
  <2> QED
    BY <2>1 DEF TextsHeld
<1> HIDE DEF g
<1>4. TextsHeld(m, loop.stores, 0, h)
  <2> HIDE DEF n
  <2> QED
    BY <1>2, <1>3
<1> HIDE DEF h, n
<1>5. h[0] = m
  BY <1>2, <1>4 DEF TextsHeld
<1> QED
  BY <1>1, <1>2, <1>5

LEMMA HoldOneText ==
    ASSUME NEW m, NEW loop, Ok(loop), NEW f, NEW v, loop.stores = << <<f, v>> >>
    PROVE  HoldTexts(m, loop) = Done(Held(m, f, v))
<1> DEFINE stores == loop.stores
           n == Len(stores)
           h == CHOOSE h : TextsHeld(m, stores, n, h)
           d == Held(m, f, v)
           g == [k \in 0 .. 1 |-> IF k = 0 THEN m ELSE d]
<1>1. HoldTexts(m, loop) = Done(h[n])
  BY DEF HoldTexts, TextsHeld
<1>2. n = 1 /\ stores[1][1] = f /\ stores[1][2] = v
  OBVIOUS
<1> HIDE DEF stores, n
<1>3. TextsHeld(m, stores, 1, g)
  <2>1. g[0] = m /\ g = [k \in 0 .. 1 |-> g[k]]
    OBVIOUS
  <2>2. ASSUME NEW k \in 0 .. 1
        PROVE  g[k] = IF k = 0 THEN m ELSE Held(g[k - 1], stores[k][1], stores[k][2])
    <3>1. CASE k = 0
      BY <2>1, <3>1
    <3>2. CASE k = 1
      <4>1. k - 1 = 0 /\ k # 0 /\ g[1] = d
        BY <3>2
      <4> HIDE DEF g
      <4> QED
        BY <1>2, <2>1, <3>2, <4>1
    <3> QED
      BY <3>1, <3>2
  <2> HIDE DEF g
  <2> QED
    BY <2>1, <2>2 DEF TextsHeld
<1> HIDE DEF g
<1>4. TextsHeld(m, stores, 1, h)
  BY <1>2, <1>3
<1> HIDE DEF h
<1>5. h[0] = m /\ h[1] = Held(h[0], stores[1][1], stores[1][2])
  <2>1. 0 \in 0 .. 1 /\ 1 \in 0 .. 1 /\ 1 - 1 = 0 /\ 1 # 0
    OBVIOUS
  <2> QED
    BY <1>4, <2>1 DEF TextsHeld
<1> QED
  BY <1>1, <1>2, <1>5

(* Only a coin has an amount.                                              *)
LEMMA NoAmount ==
    ASSUME NEW k \in DOMAIN Fields \ {"Coin"}, NEW num \in DOMAIN Fields[k]
    PROVE  Fields[k][num] # Amount
<1> DEFINE Fine(t) == \A x \in DOMAIN t : t[x].name # "amount"
<1>1. /\ \A n : Text(n).name = n /\ Strings(n).name = n /\ Uint(n).name = n
      /\ \A n, of : Msg(n, of).name = n /\ Msgs(n, of).name = n
  BY DEF Text, Strings, Uint, Msg, Msgs
<1>2. Fine(ModuleFields) /\ Fine(MsgCallResponseFields)
      /\ Fine(MsgRunResponseFields) /\ Fine(QueryInfoRequestFields)
      /\ Fine(QueryInfoResponseFields) /\ Fine(QueryRealmStorageRequestFields)
      /\ Fine(QueryRealmStorageResponseFields) /\ Fine(QueryEvalResponseFields)
  BY <1>1 DEF ModuleFields, MsgCallResponseFields, MsgRunResponseFields,
     QueryInfoRequestFields, QueryInfoResponseFields, QueryRealmStorageRequestFields,
     QueryRealmStorageResponseFields, QueryEvalResponseFields
<1>3. Fine(MsgUpdateParamsResponseFields) /\ Fine(MsgAddPackageResponseFields)
      /\ Fine(QueryParamsRequestFields)
  BY DEF MsgUpdateParamsResponseFields, MsgAddPackageResponseFields, QueryParamsRequestFields
<1>4. Fine(KVPairFields) /\ Fine(MsgUpdateParamsFields) /\ Fine(QueryParamsResponseFields)
  BY <1>1 DEF KVPairFields, MsgUpdateParamsFields, QueryParamsResponseFields
<1>5. Fine(ParamsFields) /\ Fine(GenesisStateFields)
  BY <1>1 DEF ParamsFields, GenesisStateFields
<1>6. Fine(MsgAddPackageFields) /\ Fine(MsgRunFields) /\ Fine(MsgCallFields)
  BY <1>1 DEF MsgAddPackageFields, MsgRunFields, MsgCallFields
<1>7. Fine(QueryEvalRequestFields) /\ Fine(QueryRenderRequestFields)
  BY <1>1 DEF QueryEvalRequestFields, QueryRenderRequestFields
<1> HIDE DEF Fine
<1>8. Fine(Fields[k])
  BY <1>2, <1>3, <1>4, <1>5, <1>6, <1>7 DEF Fields
<1> QED
  BY <1>1, <1>8 DEF Fine, Amount

(* The text an embedded message consists of, behind its tag and length.    *)
LEMMA TextDelimits ==
    ASSUME NEW k \in Embedded, NEW num \in DOMAIN Fields[k], NEW s \in Texts, s # <<>>
    PROVE  \E t, u : PutText(num, s) = t \o (u \o s) /\ Delimits(Fields[k][num], num, s, t, u)
<1> DEFINE f == Fields[k][num]
           x == num * 8 + 2
           t == <<x>>
           u == VarintBytes(Len(s))
<1>1. num \in 1 .. 5 /\ num \in 1 .. Foreign /\ f.type = "text" /\ s \in Content
  BY EmbeddedTables, TextsFit DEF Foreign
<1>2. PutText(num, s) = t \o (u \o s)
  BY <1>1, PutBytes DEF PutText
<1>3. Varint(t, x)
  <2>1. x \in 0 .. 127
    <3>1. num \in 1 .. 5
      BY <1>1
    <3> QED
      BY ONLY <3>1
  <2> HIDE DEF x
  <2> QED
    BY <2>1, ByteVarint
<1>4. Tag(t, num, 2)
  <2>1. num \in 0 .. Foreign /\ 2 \in 0 .. 7
    BY <1>1
  <2> HIDE DEF t
  <2> QED
    BY <1>3, <2>1, TagSpelled
<1>5. Varint(u, Len(s))
  <2>1. Len(s) \in 0 .. Uint64 - 1
    BY <1>1, WordSizes DEF Content
  <2> QED
    BY <2>1, PlainVarint
<1>6. WireOf(f) = 2 /\ f.type # "uint"
  BY <1>1 DEF WireOf
<1> HIDE DEF t, u
<1>7. Delimits(f, num, s, t, u)
  BY <1>1, <1>4, <1>5, <1>6 DEF Delimits
<1> HIDE DEF f
<1>8. \E a, b : PutText(num, s) = a \o (b \o s) /\ Delimits(f, num, s, a, b)
  BY <1>2, <1>7
<1> QED
  BY <1>8 DEF f

(* A single piece.                                                         *)
LEMMA LoopOfOne ==
    ASSUME NEW k, NEW p, NEW w, Means(k, p, w), Len(p) < Half
    PROVE  Ok(Loop(k, p)) /\ Loop(k, p).stores = w
<1>1. p \in Seq(Byte) /\ w \in Seq(Entries(k))
  BY DEF Means
<1>2. Said(k, <<>> \o p, <<>> \o w)
  BY SaidNothing, SaidMore
<1>3. <<>> \o p = p /\ <<>> \o w = w
  BY <1>1, ConcatEmptySeq
<1> QED
  BY <1>2, <1>3, SaidAll DEF Ok

(* The text is stored into what is there.                                  *)
Meaning(f, s) == IF f = Amount THEN NumberOf[s] ELSE s

LEMMA TextIsLooped ==
    ASSUME NEW k \in Embedded, NEW num \in DOMAIN Fields[k], NEW s \in Texts, s # <<>>,
           Fields[k][num] = Amount => s \in DOMAIN NumberOf
    PROVE  /\ Ok(Loop(k, PutText(num, s)))
           /\ Loop(k, PutText(num, s)).stores =
                  << <<Fields[k][num], Meaning(Fields[k][num], s)>> >>
<1> DEFINE p == PutText(num, s)
           f == Fields[k][num]
           w == << <<f, Meaning(f, s)>> >>
<1>1. num \in 1 .. 5 /\ f.type # "uint" /\ k \in DOMAIN Fields /\ s \in Seq(Byte)
  BY EmbeddedTables, TextsFit DEF Content
<1>2. Len(p) < Half
  BY <1>1, TextsFitBehind DEF Content
<1>3. PICK t, u : p = t \o (u \o s) /\ Delimits(f, num, s, t, u)
  BY TextDelimits
<1>4. w \in Seq(Entries(k)) /\ \A next : StoresText(f, s, next) = Reading(w, next)
  <2>1. CASE f = Amount
    BY <2>1, NumberText DEF Meaning
  <2>2. CASE f # Amount
    BY <1>1, <2>2, PlainText DEF Meaning
  <2> QED
    BY <2>1, <2>2
<1> HIDE DEF p, w
<1>5. Means(k, p, w)
  <2> HIDE DEF f
  <2>1. f = Fields[k][num]
    BY DEF f
  <2> QED
    BY <1>1, <1>3, <1>4, <2>1, TextMeans
<1>6. Ok(Loop(k, p)) /\ Loop(k, p).stores = w
  BY <1>2, <1>5, LoopOfOne
<1> QED
  BY <1>6 DEF p, w

(* An amount that is no number is refused.                                 *)
LEMMA NoNumberIsLooped ==
    ASSUME NEW k \in Embedded, NEW num \in DOMAIN Fields[k], NEW s \in Texts, s # <<>>,
           Fields[k][num] = Amount, s \notin DOMAIN NumberOf
    PROVE  Loop(k, PutText(num, s)).err = "NotANumber"
<1> DEFINE p == PutText(num, s)
           f == Fields[k][num]
           e == "NotANumber"
<1>1. num \in 1 .. 5 /\ num \in 1 .. Foreign /\ k \in DOMAIN Fields /\ s \in Content
  BY EmbeddedTables, TextsFit DEF Foreign
<1>2. Len(p) < Half /\ p \in Seq(Byte)
  BY <1>1, TextsFitBehind DEF Content
<1>3. PICK t, u : p = t \o (u \o s) /\ Delimits(f, num, s, t, u)
  BY TextDelimits
<1>4. \A next : StoresText(f, s, next) = Failed(e)
  BY DEF StoresText
<1>5. e \in Errors
  BY DEF Errors
<1>6. Len(p) >= 1
  <2>1. t \in Seq(Byte) /\ u \in Seq(Byte) /\ s \in Seq(Byte) /\ Len(s) >= 1
    BY <1>1, <1>3 DEF Delimits, Tag, Varint, Content
  <2>2. u \o s \in Seq(Byte) /\ Len(u \o s) = Len(u) + Len(s) /\ Len(u) \in Nat
    BY <2>1, Parts
  <2> DEFINE q == u \o s
  <2>3. q \in Seq(Byte) /\ Len(q) >= 1
    BY <2>1, <2>2
  <2> HIDE DEF q
  <2>4. Len(t \o q) = Len(t) + Len(q) /\ Len(t) \in Nat /\ Len(q) \in Nat
    BY <2>1, <2>3, Parts
  <2>5. p = t \o q
    BY <1>3 DEF q
  <2> HIDE DEF p
  <2> QED
    BY <2>3, <2>4, <2>5
<1> HIDE DEF p, e, f
<1>7. Refuses(k, p, e)
  <2>1. f = Fields[k][num]
    BY DEF f
  <2>2. ASSUME NEW c, NEW i, Stands(p, c, i), i + Len(p) < Half
        PROVE  FieldAt(k, c, i) = Failed(e)
    BY <1>1, <1>3, <1>4, <2>1, <2>2, TextStands
  <2> QED
    BY <1>2, <1>5, <1>6, <2>2 DEF Refuses
<1>8. <<>> \o p = p
  BY <1>2, ConcatEmptySeq
<1>9. Said(k, <<>>, <<>>) /\ Len(<<>> \o p) < Half
  BY <1>2, <1>8, SaidNothing
<1>10. Loop(k, <<>> \o p).err = e
  BY <1>7, <1>9, SaidThenRefused
<1> QED
  BY <1>8, <1>10 DEF p, e

(* What the contents v of a message in a message say.                      *)
Within(f, v) ==
    /\ f.type \in {"msg", "msgs"} /\ f.of \in Embedded
    /\ v.num \in DOMAIN Fields[f.of] /\ v.s \in Texts

LEMMA SaysWithin ==
    ASSUME NEW f, NEW v, Within(f, v)
    PROVE  /\ Body(f, v) = PutText(v.num, v.s)
           /\ Inner(f, v).name \in FieldNames(f.of)
           /\ v.s = <<>> => ~NoNumber(f, v) /\ Says(f, v) = New(f.of)
           /\ v.s # <<>> =>
                 /\ NoNumber(f, v) <=> Inner(f, v) = Amount /\ v.s \notin DOMAIN NumberOf
                 /\ Says(f, v) = [n \in FieldNames(f.of) |->
                                     IF n = Inner(f, v).name THEN Meaning(Inner(f, v), v.s)
                                     ELSE <<>>]
<1> DEFINE g == Inner(f, v)  N == FieldNames(f.of)
<1>1. Body(f, v) = PutText(v.num, v.s)
  BY DEF Within, Body
<1>2. g = Fields[f.of][v.num] /\ g.name \in N /\ New(f.of) = [n \in N |-> <<>>]
  BY EmbeddedTables DEF Within, Inner
<1>3. Says(f, v) = [New(f.of) EXCEPT ![g.name] = IF g = Amount /\ v.s # <<>> THEN NumberOf[v.s]
                                                 ELSE v.s]
  BY DEF Within, Says
<1>4. NoNumber(f, v) <=> g = Amount /\ v.s \notin DOMAIN NumberOf \cup {<<>>}
  BY DEF Within, NoNumber
<1> HIDE DEF g, N
<1>5. CASE v.s = <<>>
  <2>1. Says(f, v) = New(f.of)
    BY <1>2, <1>3, <1>5
  <2> QED
    BY <1>1, <1>2, <1>4, <1>5, <2>1 DEF g, N
<1>6. CASE v.s # <<>>
  <2>1. Says(f, v) = [n \in N |-> IF n = g.name THEN Meaning(g, v.s) ELSE <<>>]
    BY <1>2, <1>3, <1>6 DEF Meaning
  <2> QED
    BY <1>1, <1>2, <1>4, <1>6, <2>1 DEF g, N
<1> QED
  BY <1>5, <1>6

LEMMA TextIsMerged ==
    ASSUME NEW f, NEW v, Within(f, v), NEW old, old = [n \in FieldNames(f.of) |-> old[n]],
           f.of = "Coin" => old = New(f.of)
    PROVE  UnmarshalTexts(f.of, old, Body(f, v)) =
               IF NoNumber(f, v) THEN Failed("NotANumber") ELSE Done(Merged(old, Says(f, v)))
<1> DEFINE k == f.of
           g == Inner(f, v)
           s == v.s
           w == Says(f, v)
           loop == Loop(k, PutText(v.num, s))
           N == FieldNames(k)
<1>1. k \in Embedded /\ v.num \in DOMAIN Fields[k] /\ s \in Texts /\ g = Fields[k][v.num]
  BY DEF Within, Inner
<1>2. g.type = "text" /\ g.name \in N /\ New(k) = [n \in N |-> <<>>]
  BY <1>1, EmbeddedTables
<1>3. UnmarshalTexts(k, old, Body(f, v)) = HoldTexts(old, loop)
  BY SaysWithin DEF UnmarshalTexts
<1>4. old = [n \in N |-> old[n]]
  OBVIOUS
<1>5. Merged(old, w) = [n \in N |-> IF w[n] = <<>> THEN old[n] ELSE w[n]]
  BY <1>4 DEF Merged
<1>6. CASE s = <<>>
  <2>1. ~NoNumber(f, v) /\ w = New(k) /\ PutText(v.num, s) = <<>>
    BY <1>6, SaysWithin DEF PutText
  <2>2. Merged(old, w) = old
    BY <1>2, <1>4, <1>5, <2>1
  <2>3. Ok(loop) /\ loop.stores = <<>>
    <3>1. <<>> \in Seq(Byte) /\ Len(<<>>) < Half
      BY EmptyText DEF Content
    <3> QED
      BY <2>1, <3>1, SaidNothing, SaidAll DEF Ok
  <2>4. HoldTexts(old, loop) = Done(old)
    BY <2>3, HoldNoText
  <2> QED
    BY <1>3, <2>1, <2>2, <2>4
<1>7. CASE s # <<>> /\ NoNumber(f, v)
  <2>1. g = Amount /\ s \notin DOMAIN NumberOf
    BY <1>7, SaysWithin
  <2>2. loop.err = "NotANumber"
    BY <1>1, <1>7, <2>1, NoNumberIsLooped
  <2>3. HoldTexts(old, loop) = Failed("NotANumber")
    BY <2>2 DEF HoldTexts, Ok
  <2> QED
    BY <1>3, <1>7, <2>3
<1>8. CASE s # <<>> /\ ~NoNumber(f, v)
  <2> DEFINE x == Meaning(g, s)
  <2>1. (g = Amount => s \in DOMAIN NumberOf)
        /\ w = [n \in N |-> IF n = g.name THEN x ELSE <<>>]
    BY <1>8, SaysWithin
  <2>2. Ok(loop) /\ loop.stores = << <<g, x>> >>
    BY <1>1, <1>8, <2>1, TextIsLooped
  <2>3. HoldTexts(old, loop) = Done(Held(old, g, x))
    BY <2>2, HoldOneText
  <2>4. Held(old, g, x) = [old EXCEPT ![g.name] = x]
    BY <1>2 DEF Held, Store
  <2>5. x # <<>> \/ old = New(k)
    <3>1. g = Amount => k = "Coin"
      BY <1>1, NoAmount, TablesDeclare
    <3> QED
      BY <1>8, <3>1 DEF Meaning
  <2>6. Merged(old, w) = [n \in N |-> IF n = g.name THEN x ELSE old[n]]
    <3> HIDE DEF x, g, w, N, k
    <3>1. \A n \in N : (IF w[n] = <<>> THEN old[n] ELSE w[n]) = IF n = g.name THEN x ELSE old[n]
      <4>1. CASE x # <<>>
        BY <2>1, <4>1
      <4>2. CASE x = <<>>
        BY <1>2, <2>1, <2>5, <4>2
      <4> QED
        BY <4>1, <4>2
    <3> QED
      BY <1>5, <3>1
  <2>7. [old EXCEPT ![g.name] = x] = [n \in N |-> IF n = g.name THEN x ELSE old[n]]
    <3> HIDE DEF x, g, N
    <3> QED
      BY <1>2, <1>4
  <2>8. HoldTexts(old, loop) = Done(Merged(old, w))
    BY <2>3, <2>4, <2>6, <2>7
  <2> QED
    BY <1>3, <1>8, <2>8
<1> QED
  BY <1>6, <1>7, <1>8

-----------------------------------------------------------------------------
(* Fields of a message.                                                    *)

LEMMA NamesDiffer ==
    \A k \in DOMAIN Fields : \A x, y \in DOMAIN Fields[k] :
        Fields[k][x].name = Fields[k][y].name => x = y
<1> DEFINE Fine(t) == \A x, y \in DOMAIN t : t[x].name = t[y].name => x = y
<1>1. /\ \A n : Text(n).name = n /\ Strings(n).name = n /\ Uint(n).name = n
      /\ \A n, of : Msg(n, of).name = n /\ Msgs(n, of).name = n
  BY DEF Text, Strings, Uint, Msg, Msgs
<1>3. Fine(CoinFields) /\ Fine(ModuleFields) /\ Fine(MsgCallResponseFields)
      /\ Fine(MsgRunResponseFields) /\ Fine(QueryInfoRequestFields)
      /\ Fine(QueryInfoResponseFields) /\ Fine(QueryRealmStorageRequestFields)
      /\ Fine(QueryRealmStorageResponseFields) /\ Fine(QueryEvalResponseFields)
  BY <1>1 DEF CoinFields, Amount, ModuleFields, MsgCallResponseFields, MsgRunResponseFields,
     QueryInfoRequestFields, QueryInfoResponseFields, QueryRealmStorageRequestFields,
     QueryRealmStorageResponseFields, QueryEvalResponseFields
<1>4. Fine(MsgUpdateParamsResponseFields) /\ Fine(MsgAddPackageResponseFields)
      /\ Fine(QueryParamsRequestFields)
  BY DEF MsgUpdateParamsResponseFields, MsgAddPackageResponseFields, QueryParamsRequestFields
<1>5. Fine(KVPairFields) /\ Fine(MsgUpdateParamsFields) /\ Fine(QueryParamsResponseFields)
  BY <1>1 DEF KVPairFields, MsgUpdateParamsFields, QueryParamsResponseFields
<1>6. Fine(ParamsFields)
  BY <1>1 DEF ParamsFields
<1>7. Fine(GenesisStateFields)
  BY <1>1 DEF GenesisStateFields
<1>8. Fine(MsgAddPackageFields) /\ Fine(MsgRunFields)
  BY <1>1 DEF MsgAddPackageFields, MsgRunFields
<1>9. Fine(MsgCallFields)
  BY <1>1 DEF MsgCallFields
<1>10. Fine(QueryEvalRequestFields) /\ Fine(QueryRenderRequestFields)
  BY <1>1 DEF QueryEvalRequestFields, QueryRenderRequestFields
<1> HIDE DEF Fine
<1>11. \A k \in DOMAIN Fields : Fine(Fields[k])
  BY <1>3, <1>4, <1>5, <1>6, <1>7, <1>8, <1>9, <1>10 DEF Fields
<1> QED
  BY <1>11 DEF Fine

(* What a field of a message holds: lists of what their elements say.      *)
Sayings(f) == {Says(f, v) : v \in Contents(f)}
Shape(f, x) ==
    /\ f.type \in {"strings", "msgs"} => x \in Seq(Sayings(f))
    /\ f.type = "msg" => x = [n \in FieldNames(f.of) |-> x[n]]
Shaped(k, m) ==
    /\ m = [n \in FieldNames(k) |-> m[n]]
    /\ \A num \in DOMAIN Fields[k] : Shape(Fields[k][num], m[Fields[k][num].name])

LEMMA NewIsShaped ==
    ASSUME NEW k \in DOMAIN Fields
    PROVE  Shaped(k, New(k))
<1> DEFINE m == New(k)
<1>1. m = [n \in FieldNames(k) |-> Zero(CHOOSE f \in ToSet(Fields[k]) : f.name = n)]
  BY DEF New
<1> HIDE DEF m
<1>2. ASSUME NEW num \in DOMAIN Fields[k] PROVE Shape(Fields[k][num], m[Fields[k][num].name])
  <2> DEFINE f == Fields[k][num]
             g == CHOOSE g \in ToSet(Fields[k]) : g.name = f.name
  <2>1. f \in ToSet(Fields[k]) /\ f.name \in FieldNames(k)
    BY DEF ToSet, FieldNames
  <2>2. g \in ToSet(Fields[k]) /\ g.name = f.name
    BY <2>1
  <2> HIDE DEF g
  <2>3. PICK x \in DOMAIN Fields[k] : g = Fields[k][x]
    BY <2>2 DEF ToSet
  <2>4. g = f
    BY <2>2, <2>3, NamesDiffer
  <2>5. m[f.name] = Zero(f)
    BY <1>1, <2>1, <2>4 DEF g
  <2> HIDE DEF f
  <2>6. Shape(f, Zero(f))
    <3>1. f.type \in {"strings", "msgs"} => Zero(f) = <<>>
      BY DEF Zero
    <3>2. f.type = "msg" => Zero(f) = [n \in FieldNames(f.of) |-> <<>>]
      BY DEF Zero
    <3>3. f.type = "msg" => Zero(f) = [n \in FieldNames(f.of) |-> Zero(f)[n]]
      BY <3>2
    <3>4. <<>> \in Seq(Sayings(f))
      OBVIOUS
    <3> QED
      BY <3>1, <3>3, <3>4 DEF Shape
  <2> QED
    BY <2>5, <2>6 DEF f
<1>3. m = [n \in FieldNames(k) |-> m[n]]
  BY <1>1
<1>4. Shaped(k, m)
  BY <1>2, <1>3 DEF Shaped
<1> QED
  BY <1>4 DEF m

LEMMA MeantIsShaped ==
    ASSUME NEW k \in DOMAIN Fields, NEW m, Shaped(k, m), NEW num \in DOMAIN Fields[k],
           NEW f, f = Fields[k][num], NEW v \in Contents(f)
    PROVE  Shaped(k, [m EXCEPT ![f.name] = Meant(f, @, Says(f, v))])
<1> DEFINE old == m[f.name]
           w == Says(f, v)
           x == Meant(f, old, w)
           held == [m EXCEPT ![f.name] = x]
<1>1. Shape(f, old) /\ m = [n \in FieldNames(k) |-> m[n]] /\ Declares(f)
  BY TablesDeclare DEF Shaped
<1>2. f.name \in FieldNames(k)
  BY DEF FieldNames, ToSet
<1>0. w \in Sayings(f)
  BY DEF Sayings
<1> HIDE DEF old, w
<1>3. Shape(f, x)
  <2>1. CASE f.type \in {"text", "uint"}
    BY <2>1 DEF Shape
  <2>2. CASE f.type \in {"strings", "msgs"}
    <3>1. x = old \o <<w>> /\ old \in Seq(Sayings(f))
      BY <1>1, <2>2 DEF Meant, Shape
    <3>2. <<w>> \in Seq(Sayings(f))
      BY <1>0
    <3>3. x \in Seq(Sayings(f))
      BY <3>1, <3>2, ConcatProperties
    <3> HIDE DEF x
    <3> QED
      BY <2>2, <3>3 DEF Shape
  <2>3. CASE f.type = "msg"
    <3>1. x = Merged(old, w) /\ old = [n \in FieldNames(f.of) |-> old[n]]
      BY <1>1, <2>3 DEF Meant, Shape
    <3>2. x = [n \in FieldNames(f.of) |-> IF w[n] = <<>> THEN old[n] ELSE w[n]]
      BY <3>1 DEF Merged
    <3> HIDE DEF x
    <3>3. x = [n \in FieldNames(f.of) |-> x[n]]
      BY <3>2
    <3> QED
      BY <2>3, <3>3 DEF Shape
  <2> QED
    BY <1>1, <2>1, <2>2, <2>3 DEF Declares
<1> HIDE DEF x
<1>4. held[f.name] = x /\ held = [n \in FieldNames(k) |-> held[n]]
      /\ \A n \in FieldNames(k) : n # f.name => held[n] = m[n]
  BY <1>1, <1>2
<1> HIDE DEF held
<1>5. ASSUME NEW y \in DOMAIN Fields[k] PROVE Shape(Fields[k][y], held[Fields[k][y].name])
  <2>1. CASE y = num
    BY <1>3, <1>4, <2>1
  <2>2. CASE y # num
    <3>1. Fields[k][y].name # f.name /\ Fields[k][y].name \in FieldNames(k)
      BY <2>2, NamesDiffer DEF FieldNames, ToSet
    <3> QED
      BY <1>4, <3>1 DEF Shaped
  <2> QED
    BY <2>1, <2>2
<1>6. Shaped(k, held)
  BY <1>4, <1>5 DEF Shaped
<1> QED
  BY <1>6 DEF held, x, old, w

(* What the field f is sent with is decoded, and held as it is meant.      *)
ValueOf(f, v) == IF f.type = "uint" THEN v ELSE Body(f, v)

LEMMA ContentsAreWithin ==
    ASSUME NEW f, Declares(f), f.type \in {"msg", "msgs"}, NEW v \in Contents(f)
    PROVE  Within(f, v)
  BY DEF Declares, Contents, Within

LEMMA FieldIsHeld ==
    ASSUME NEW k \in DOMAIN Fields, NEW m, Shaped(k, m), NEW num \in DOMAIN Fields[k],
           NEW f, f = Fields[k][num], NEW v \in Contents(f)
    PROVE  HoldOne(Done(m), f, ValueOf(f, v)) =
               IF NoNumber(f, v) THEN Failed("NotANumber")
               ELSE Done([m EXCEPT ![f.name] = Meant(f, @, Says(f, v))])
<1> DEFINE old == m[f.name]
           x == ValueOf(f, v)
           w == Says(f, v)
           d == Decoded(f, old, x)
<1>1. Shape(f, old) /\ Declares(f)
  BY TablesDeclare DEF Shaped
<1>2. Ok(Done(m)) /\ Done(m).msg = m
  BY DEF Ok, Done
<1>3. HoldOne(Done(m), f, x) = HeldIf(m, f, d)
  BY <1>2 DEF HoldOne
<1> HIDE DEF old, x, w
<1>4. IF NoNumber(f, v) THEN d = Failed("NotANumber")
      ELSE \E r : d = Done(r) /\ Store(f, old, r) = Meant(f, old, w)
  <2>1. CASE f.type \notin {"msg", "msgs"}
    <3>1. x = v /\ w = v /\ ~NoNumber(f, v)
      BY <2>1 DEF x, ValueOf, Body, w, Says, NoNumber
    <3>2. d = Done(v)
      BY <2>1, <3>1 DEF Decoded
    <3>3. CASE f.type = "strings"
      <4>1. old \in Seq(Sayings(f))
        BY <1>1, <3>3 DEF Shape
      <4>2. Append(old, v) = old \o <<v>>
        BY <4>1
      <4>3. Store(f, old, v) = Meant(f, old, v)
        BY <3>3, <4>2 DEF Store, Meant
      <4> QED
        BY <3>1, <3>2, <4>3
    <3>4. CASE f.type \in {"text", "uint"}
      <4>1. Store(f, old, v) = Meant(f, old, v)
        BY <3>4 DEF Store, Meant
      <4> QED
        BY <3>1, <3>2, <4>1
    <3> QED
      BY <1>1, <2>1, <3>3, <3>4 DEF Declares
  <2>2. CASE f.type = "msg"
    <3>1. Within(f, v) /\ f.of = "Params" /\ f.of # "Coin"
      BY <1>1, <2>2, ContentsAreWithin DEF Declares
    <3>2. old = [i \in FieldNames(f.of) |-> old[i]]
      BY <1>1, <2>2 DEF Shape
    <3>3. d = UnmarshalTexts(f.of, old, Body(f, v))
      BY <2>2 DEF Decoded, x, ValueOf
    <3>4. d = IF NoNumber(f, v) THEN Failed("NotANumber") ELSE Done(Merged(old, w))
      BY <3>1, <3>2, <3>3, TextIsMerged DEF w
    <3>5. Store(f, old, Merged(old, w)) = Meant(f, old, w)
      BY <2>2 DEF Store, Meant
    <3> QED
      BY <3>4, <3>5
  <2>3. CASE f.type = "msgs"
    <3> DEFINE new == New(f.of)
    <3>1. Within(f, v) /\ new = [i \in FieldNames(f.of) |-> <<>>]
      BY <1>1, <2>3, ContentsAreWithin, EmbeddedTables DEF Within
    <3>2. d = UnmarshalTexts(f.of, new, Body(f, v))
      BY <2>3 DEF Decoded, x, ValueOf
    <3>3. new = [i \in FieldNames(f.of) |-> new[i]]
      <4> HIDE DEF new
      <4> QED
        BY <3>1
    <3>4. d = IF NoNumber(f, v) THEN Failed("NotANumber") ELSE Done(Merged(new, w))
      BY <3>1, <3>2, <3>3, TextIsMerged DEF w
    <3>5. ~NoNumber(f, v) => Merged(new, w) = w
      <4>1. w = [i \in FieldNames(f.of) |-> w[i]]
        <5>1. CASE v.s = <<>>
          <6>1. w = new
            BY <3>1, <5>1, SaysWithin DEF w
          <6> HIDE DEF new
          <6> QED
            BY <3>3, <6>1
        <5>2. CASE v.s # <<>>
          BY <3>1, <5>2, SaysWithin DEF w
        <5> QED
          BY <5>1, <5>2
      <4>2. Merged(new, w) = [i \in FieldNames(f.of) |-> IF w[i] = <<>> THEN <<>> ELSE w[i]]
        BY <3>1 DEF Merged
      <4> HIDE DEF new
      <4> QED
        BY <4>1, <4>2
    <3>6. old \in Seq(Sayings(f))
      BY <1>1, <2>3 DEF Shape
    <3>7. Append(old, w) = old \o <<w>>
      BY <3>6
    <3>8. Store(f, old, w) = Meant(f, old, w)
      BY <2>3, <3>7 DEF Store, Meant
    <3> QED
      BY <3>4, <3>5, <3>8
  <2> QED
    BY <2>1, <2>2, <2>3
<1> HIDE DEF d
<1>5. CASE NoNumber(f, v)
  <2>1. d = Failed("NotANumber") /\ ~Ok(d)
    BY <1>4, <1>5 DEF Ok, Failed
  <2>2. HeldIf(m, f, d) = Failed("NotANumber")
    BY <2>1 DEF HeldIf
  <2> QED
    BY <1>3, <1>5, <2>2 DEF x
<1>6. CASE ~NoNumber(f, v)
  <2>1. PICK r : d = Done(r) /\ Store(f, old, r) = Meant(f, old, w)
    BY <1>4, <1>6
  <2>2. Ok(d) /\ d.msg = r
    BY <2>1 DEF Ok, Done
  <2>3. HeldIf(m, f, d) = Done([m EXCEPT ![f.name] = Store(f, old, r)])
    BY <2>2 DEF HeldIf, Held, old
  <2>4. [m EXCEPT ![f.name] = Meant(f, @, w)] = [m EXCEPT ![f.name] = Meant(f, old, w)]
    BY DEF old
  <2> QED
    BY <1>3, <1>6, <2>1, <2>3, <2>4 DEF x, w
<1> QED
  BY <1>5, <1>6

-----------------------------------------------------------------------------
(* A field the message declares, however it is spelled, means the value it *)
(* is sent for.                                                            *)
LEMMA FieldMeans ==
    ASSUME NEW k \in DOMAIN Fields \ {"Coin"}, NEW num \in DOMAIN Fields[k], NEW f, f = Fields[k][num],
           NEW v \in Contents(f), NEW head \in Heads(f, num, v)
    PROVE  Means(k, head \o BodyOf(f, v), << <<f, ValueOf(f, v)>> >>)
<1> DEFINE wt == WireOf(f)
           count == CountOf(f, v)
           body == BodyOf(f, v)
           data == Body(f, v)
           x == ValueOf(f, v)
<1>1. IF f.type = "uint" THEN v \in 0 .. Uint64 - 1 ELSE data \in Content
  BY DataFits
<1>2. num \in 0 .. Foreign /\ wt \in 0 .. 7
  BY TablesDeclare DEF Foreign, WireOf
<1>3. count \in 0 .. Uint64 - 1
  BY <1>1, WordSizes DEF Content, CountOf
<1>4. head \in {Plain(num, wt, count)} \cup Odd(num, wt, count)
  BY DEF Heads
<1> HIDE DEF wt, count
<1>5. PICK t, u : head = t \o u /\ Tag(t, num, wt) /\ Varint(u, count)
  <2>1. \A h \in {Plain(num, wt, count)} \cup Odd(num, wt, count) :
            \E t, u : h = t \o u /\ Tag(t, num, wt) /\ Varint(u, count)
    BY ONLY <1>2, <1>3, HeadsSpelled
  <2> QED
    BY <1>4, <2>1
<1>6. t \in Seq(Byte) /\ u \in Seq(Byte)
  BY <1>5 DEF Tag, Varint
<1>7. Tag(t, num, WireOf(f))
  BY <1>5 DEF wt
<1>8. CASE f.type = "uint"
  <2>1. count = v /\ body = <<>> /\ x = v
    BY <1>8 DEF count, CountOf, BodyOf, ValueOf
  <2>2. Means(k, t \o u, << <<f, v>> >>)
    BY <1>1, <1>5, <1>7, <1>8, <2>1, UintMeans
  <2>3. t \o u \in Seq(Byte)
    BY <1>6, ConcatProperties
  <2>4. head \o body = t \o u
    BY <1>5, <2>1, <2>3, ConcatEmptySeq
  <2> QED
    BY <2>1, <2>2, <2>4
<1>9. CASE f.type # "uint"
  <2>1. count = Len(data) /\ body = data /\ x = data
    BY <1>9 DEF count, CountOf, BodyOf, ValueOf
  <2>2. data \in Content /\ data \in Seq(Byte)
    BY <1>1, <1>9 DEF Content
  <2> HIDE DEF data, body, x
  <2>3. Varint(u, Len(data))
    BY <1>5, <2>1
  <2>0. f # Amount
    BY NoAmount
  <2>4. Means(k, t \o (u \o data), << <<f, data>> >>)
    <3> DEFINE e == << <<f, data>> >>
    <3>1. e \in Seq(Entries(k)) /\ \A next : StoresText(f, data, next) = Reading(e, next)
      BY <1>9, <2>0, <2>2, PlainText
    <3>2. Delimits(f, num, data, t, u)
      BY <1>7, <1>9, <2>2, <2>3 DEF Delimits
    <3> HIDE DEF e
    <3>3. Means(k, t \o (u \o data), e)
      BY <3>1, <3>2, TextMeans
    <3> QED
      BY <3>3 DEF e
  <2>5. (t \o u) \o data = t \o (u \o data)
    BY <1>6, <2>2, ConcatAssociative
  <2>6. Means(k, head \o body, << <<f, x>> >>)
    BY <1>5, <2>1, <2>4, <2>5
  <2> QED
    BY <2>6 DEF body, x
<1> QED
  BY <1>8, <1>9

-----------------------------------------------------------------------------
(* The sender's bytes so far, as a receiver takes them: while nothing      *)
(* without meaning was sent they decode to the message they mean, or to    *)
(* the error of the mistake, and seen ends with the last field.            *)

Followed ==
    /\ expect = Done(expect.msg)
    /\ Decodes(kind, wire, expect.msg) /\ Shaped(kind, expect.msg)
    /\ DOMAIN seen \subseteq 0 .. Len(wire)
    /\ Len(wire) \in DOMAIN seen /\ seen[Len(wire)] = expect.msg
Following ==
    /\ WireIsBytes
    /\ junk = 0 => /\ Len(wire) < Half
                   /\ Ok(expect) => Followed
                   /\ ~Ok(expect) => Unmarshal(kind, wire) = expect

\* What a step adds to the bytes: something that means s, or a mistake.
Grows(p, s, held) ==
    /\ Open /\ Arrives(p, Done(held))
    /\ Means(kind, p, s) /\ Decodes(kind, wire \o p, held) /\ Shaped(kind, held)
Stops(p, e) ==
    /\ Open /\ Arrives(p, Failed(e))
    /\ p \in Seq(Byte) /\ Len(p) >= 1 /\ e \in Errors /\ Unmarshal(kind, wire \o p) = Failed(e)

LEMMA RefusesStops ==
    ASSUME Following, NEW p, NEW e, Open, Arrives(p, Failed(e)), Refuses(kind, p, e)
    PROVE  Stops(p, e)
<1>1. p \in Seq(Byte) /\ Len(p) >= 1 /\ e \in Errors
  BY DEF Refuses
<1>2. Followed /\ wire \in Seq(Byte) /\ Len(wire) + Len(p) < Half
  BY DEF Following, Open, WireIsBytes, Arrives
<1>3. Len(wire \o p) < Half
  BY <1>1, <1>2, Parts
<1>4. Unmarshal(kind, wire \o p) = Failed(e)
  BY <1>2, <1>3, DecodesRefused DEF Followed
<1> QED
  BY <1>1, <1>4 DEF Stops

LEMMA FieldGrows ==
    ASSUME Following, NEW num \in DOMAIN Fields[kind], NEW v \in Contents(Fields[kind][num]),
           SendField(num, v)
    PROVE  (\E p, s, held : Grows(p, s, held)) \/ \E p, e : Stops(p, e)
<1> DEFINE f == Fields[kind][num]
           m == expect.msg
           body == BodyOf(f, v)
           held == [m EXCEPT ![f.name] = Meant(f, @, Says(f, v))]
           s == << <<f, ValueOf(f, v)>> >>
           err == "NotANumber"
<1>1. PICK head \in Heads(f, num, v) : Open /\ Arrives(head \o body, Result(f, v))
  BY FieldIsSent
<1>2. kind \in DOMAIN Fields \ {"Coin"} /\ Decodes(kind, wire, m) /\ Shaped(kind, m)
      /\ wire \in Seq(Byte)
  BY <1>1 DEF Open, Following, Followed, WireIsBytes
<1>3. Means(kind, head \o body, s)
  BY <1>2, FieldMeans
<1>4. HoldOne(Done(m), f, ValueOf(f, v)) =
          IF NoNumber(f, v) THEN Failed(err) ELSE Done(held)
  BY <1>2, FieldIsHeld
<1>5. CASE NoNumber(f, v)
  <2> DEFINE p == head \o body
  <2>1. Result(f, v) = Failed(err) /\ err \in Errors
    BY <1>5 DEF Result, Errors
  <2>2. p \in Seq(Byte) /\ Len(p) >= 1
    BY <1>3 DEF Means
  <2>3. Len(wire \o p) < Half
    <3>1. Len(wire) + Len(p) < Half
      BY <1>1 DEF Arrives
    <3> HIDE DEF p
    <3> QED
      BY <1>2, <2>2, <3>1, Parts
  <2>4. Unmarshal(kind, wire \o p) = Failed(err)
    <3> DEFINE x == ValueOf(f, v)
    <3> HIDE DEF f, m, held, body, err, x
    <3>1. Means(kind, p, << <<f, x>> >>) /\ HoldOne(Done(m), f, x) = Failed(err)
      BY <1>3, <1>4, <1>5 DEF x
    <3> HIDE DEF p
    <3> QED
      BY <1>2, <2>1, <2>3, <3>1, DecodesMistake
  <2>5. Stops(p, err)
    <3> HIDE DEF f, m, held, body, err
    <3> QED
      BY <1>1, <2>1, <2>2, <2>4 DEF Stops
  <2> HIDE DEF p, err
  <2> QED
    BY <2>5
<1>6. CASE ~NoNumber(f, v)
  <2>1. Result(f, v) = Done(held)
    BY <1>6 DEF Result
  <2>2. Shaped(kind, held)
    BY <1>2, MeantIsShaped
  <2>3. Decodes(kind, wire \o (head \o body), held)
    <3> HIDE DEF f, m, held, body
    <3> QED
      BY <1>2, <1>3, <1>4, <1>6, DecodesField
  <2>4. Grows(head \o body, s, held)
    <3> HIDE DEF f, m, held, body, s
    <3> QED
      BY <1>1, <1>3, <2>1, <2>2, <2>3 DEF Grows
  <2> HIDE DEF s, held
  <2> QED
    BY <2>4
<1> QED
  BY <1>5, <1>6

LEMMA ForeignGrows ==
    ASSUME Following, SendForeign
    PROVE  \E p, s, held : Grows(p, s, held)
<1>1. PICK p \in ForeignFields : Open /\ Arrives(p, expect)
  BY DEF SendForeign
<1>2. kind \in DOMAIN Fields /\ Followed
  BY <1>1 DEF Open, Following, WireIsBytes
<1>3. Means(kind, p, <<>>)
  BY <1>2, ForeignFieldsMean
<1>4. Decodes(kind, wire \o p, expect.msg)
  BY <1>2, <1>3, DecodesForeign DEF Followed
<1>5. Grows(p, <<>>, expect.msg)
  BY <1>1, <1>2, <1>3, <1>4 DEF Grows, Followed
<1> QED
  BY <1>5

LEMMA WrongTypeStops ==
    ASSUME Following, NEW num \in DOMAIN Fields[kind], SendWrongType(num)
    PROVE  \E p, e : Stops(p, e)
<1>1. PICK wt \in {0, 1, 2, 3, 5} \ {WireOf(Fields[kind][num])} :
          Open /\ Arrives(<<num * 8 + wt, 0>>, Failed("WrongWireType"))
  BY DEF SendWrongType, WireOf
<1>2. kind \in DOMAIN Fields
  BY DEF Following, WireIsBytes
<1>3. Refuses(kind, <<num * 8 + wt, 0>>, "WrongWireType")
  BY <1>2, WrongTypeRefused
<1>4. Stops(<<num * 8 + wt, 0>>, "WrongWireType")
  BY <1>1, <1>3, RefusesStops
<1> QED
  BY <1>4

LEMMA RefusedStops ==
    ASSUME Following, SendRefused
    PROVE  \E p, e : Stops(p, e)
<1> DEFINE a == <<8 + 4>>
           b == <<2, 0>>
           c == <<Foreign * 8 + 2>> \o Ones
           d == [k \in 1 .. Groups |-> 128]
           z == <<Foreign * 8 + 6, 0>>
<1>1. PICK r \in { <<a, "EndGroup">>, <<b, "IllegalTag">>, <<c, "InvalidLength">>,
                   <<d, "IntOverflow">>, <<z, "IllegalWireType">> } :
          Open /\ Arrives(r[1], Failed(r[2]))
  BY DEF SendRefused, Ones
<1>2. kind \in DOMAIN Fields
  BY DEF Following, WireIsBytes
<1>3. Refuses(kind, a, "EndGroup") /\ Refuses(kind, b, "IllegalTag")
  BY <1>2, EndOfGroupRefused, NoNumberRefused
<1>4. Refuses(kind, c, "InvalidLength") /\ Refuses(kind, d, "IntOverflow")
  BY <1>2, NegativeLengthRefused, NoEndRefused
<1>5. Refuses(kind, z, "IllegalWireType")
  BY <1>2, NoWireTypeRefused
<1> HIDE DEF a, b, c, d, z
<1>6. Refuses(kind, r[1], r[2])
  BY <1>1, <1>3, <1>4, <1>5
<1>7. Stops(r[1], r[2])
  BY <1>1, <1>6, RefusesStops
<1> QED
  BY <1>7

LEMMA FollowingSteps ==
    ASSUME Following, [Next]_vars
    PROVE  \/ \E p, s, held : Grows(p, s, held)
           \/ \E p, e : Stops(p, e)
           \/ \E byte \in Bytes : SendJunk(byte)
           \/ UNCHANGED vars
  BY FieldGrows, ForeignGrows, WrongTypeStops, RefusedStops DEF Next

(* The bytes of an arrival.                                                *)
LEMMA ArrivesBehind ==
    ASSUME Following, Open, NEW p \in Seq(Byte), Len(p) >= 1, NEW result, Arrives(p, result)
    PROVE  /\ WireIsBytes /\ Len(wire) \in Nat /\ Len(wire) < Half /\ Followed
           /\ wire' = wire \o p /\ kind' = kind /\ junk' = junk /\ expect' = result
           /\ Len(wire') = Len(wire) + Len(p) /\ Len(wire') < Half /\ Len(p) \in Nat
           /\ WireIsBytes'
<1>1. WireIsBytes /\ Len(wire) < Half /\ Followed
  BY DEF Following, Open
<1>2. wire \in Seq(Byte) /\ Len(wire) \in Nat /\ Len(p) \in Nat
  BY <1>1 DEF WireIsBytes
<1>3. wire' = wire \o p /\ kind' = kind /\ junk' = junk /\ expect' = result
      /\ Len(wire) + Len(p) < Half
  BY DEF Arrives
<1>4. Len(wire \o p) = Len(wire) + Len(p)
  BY <1>2, ConcatProperties
<1>5. WireIsBytes'
  BY <1>1, ArrivingBytes
<1> QED
  BY <1>1, <1>2, <1>3, <1>4, <1>5

LEMMA FollowingAtFirst == Init => Following
<1> SUFFICES ASSUME Init PROVE Following
  OBVIOUS
<1> DEFINE m == New(kind)
<1>1. kind \in DOMAIN Fields /\ wire = <<>> /\ Len(wire) = 0 /\ WireIsBytes
  BY SenderAssumption DEF Init, WireIsBytes
<1>2. Decodes(kind, wire, m) /\ Shaped(kind, m)
  BY <1>1, DecodesNothing, NewIsShaped
<1>3. expect = Done(m) /\ seen = [n \in {0} |-> m] /\ DOMAIN seen = {0} /\ seen[0] = m
  BY DEF Init
<1> HIDE DEF m
<1>4. expect.msg = m /\ Ok(expect)
  BY <1>3 DEF Done, Ok
<1>5. Followed
  BY <1>1, <1>2, <1>3, <1>4 DEF Followed
<1> QED
  BY <1>1, <1>4, <1>5, WordSizes DEF Following

(* What a step that adds a field leaves: the lengths of seen stay, and the *)
(* new one is behind all of them.                                          *)
LEMMA GrownFollows ==
    ASSUME Following, NEW p, NEW s, NEW held, Grows(p, s, held)
    PROVE  /\ Following' /\ Len(wire) # Len(wire')
           /\ DOMAIN seen' = DOMAIN seen \cup {Len(wire')} /\ Len(wire') \notin DOMAIN seen
           /\ \A n \in DOMAIN seen : seen'[n] = seen[n]
<1>1. Open /\ Arrives(p, Done(held)) /\ p \in Seq(Byte) /\ Len(p) >= 1
      /\ Decodes(kind, wire \o p, held) /\ Shaped(kind, held)
  BY DEF Grows, Means
<1>2. /\ WireIsBytes /\ Len(wire) \in Nat /\ Followed
      /\ wire' = wire \o p /\ kind' = kind /\ junk' = junk /\ expect' = Done(held)
      /\ Len(wire') = Len(wire) + Len(p) /\ Len(wire') < Half /\ Len(p) \in Nat
      /\ WireIsBytes'
  BY <1>1, ArrivesBehind
<1>3. Ok(Done(held)) /\ Done(held).msg = held
  BY DEF Ok, Done
<1>4. seen' = [n \in DOMAIN seen \cup {Len(wire')} |-> IF n \in DOMAIN seen THEN seen[n] ELSE held]
  BY <1>1, <1>3 DEF Arrives
<1>5. DOMAIN seen \subseteq 0 .. Len(wire)
  BY <1>2 DEF Followed
<1>6. Len(wire') \in Nat /\ Len(wire') > Len(wire) /\ Len(wire') \notin DOMAIN seen
  BY <1>1, <1>2, <1>5
<1>7. DOMAIN seen' = DOMAIN seen \cup {Len(wire')}
      /\ (\A n \in DOMAIN seen : seen'[n] = seen[n]) /\ seen'[Len(wire')] = held
  BY <1>4, <1>6
<1>8. DOMAIN seen' \subseteq 0 .. Len(wire')
  BY <1>2, <1>5, <1>6, <1>7
<1>9. Followed'
  BY <1>1, <1>2, <1>3, <1>7, <1>8 DEF Followed
<1>10. Following'
  BY <1>2, <1>3, <1>9 DEF Following
<1> QED
  BY <1>2, <1>6, <1>7, <1>10

LEMMA StoppedFollows ==
    ASSUME Following, NEW p, NEW e, Stops(p, e)
    PROVE  Following' /\ ~Ok(expect')
<1>1. Open /\ Arrives(p, Failed(e)) /\ p \in Seq(Byte) /\ Len(p) >= 1 /\ e \in Errors
  BY DEF Stops
<1>2. /\ Len(wire) \in Nat /\ Followed
      /\ wire' = wire \o p /\ kind' = kind /\ expect' = Failed(e)
      /\ Len(wire') < Half /\ WireIsBytes'
  BY <1>1, ArrivesBehind
<1>3. Unmarshal(kind, wire \o p) = Failed(e)
  BY DEF Stops
<1>4. ~Ok(Failed(e))
  BY <1>1 DEF Ok, Failed, Errors
<1>5. ~Ok(expect)' /\ (Unmarshal(kind, wire) = expect)'
  BY <1>2, <1>3, <1>4
<1> QED
  BY <1>2, <1>4, <1>5 DEF Following

LEMMA JunkFollows ==
    ASSUME Following, NEW byte \in Bytes, SendJunk(byte), junk \in Nat
    PROVE  Following' /\ junk' # 0
<1>1. WireIsBytes'
  BY WireStaysBytes DEF Following, Next
<1>2. junk' = junk + 1
  BY DEF SendJunk
<1> QED
  BY <1>1, <1>2 DEF Following

(* The inductive invariant of the two theorems.                            *)
Counted == Following /\ junk \in Nat

LEMMA CountedAtFirst == Init => Counted
  BY FollowingAtFirst DEF Counted, Init

LEMMA StaysCounted == Counted /\ [Next]_vars => Counted'
<1> SUFFICES ASSUME Counted, [Next]_vars PROVE Counted'
  OBVIOUS
<1>1. Following /\ junk \in Nat
  BY DEF Counted
<1>2. ASSUME NEW p, NEW s, NEW held, Grows(p, s, held) PROVE Counted'
  <2>1. junk' = junk
    BY <1>2 DEF Grows, Arrives
  <2> QED
    BY <1>1, <1>2, <2>1, GrownFollows DEF Counted
<1>3. ASSUME NEW p, NEW e, Stops(p, e) PROVE Counted'
  <2>1. junk' = junk
    BY <1>3 DEF Stops, Arrives
  <2> QED
    BY <1>1, <1>3, <2>1, StoppedFollows DEF Counted
<1>4. ASSUME NEW byte \in Bytes, SendJunk(byte) PROVE Counted'
  <2>1. junk' = junk + 1
    BY <1>4 DEF SendJunk
  <2> QED
    BY <1>1, <1>4, <2>1, JunkFollows DEF Counted
<1>5. ASSUME UNCHANGED vars PROVE Counted'
  BY <1>1, <1>5 DEF Counted, vars, Following, Followed, WireIsBytes
<1> QED
  BY <1>1, <1>2, <1>3, <1>4, <1>5, FollowingSteps

(* Whatever a sender sends, in any of the spellings protobuf allows, is     *)
(* decoded to the message it means, and its first mistake to its error:     *)
(* for every message, any number of fields, contents of any bytes and any   *)
(* length that fits.                                                        *)
THEOREM MessagesDecodeAsMeant == Spec => []DecodesAsMeant
<1>1. Counted => DecodesAsMeant
  <2> SUFFICES ASSUME Following, junk = 0 PROVE Unmarshal(kind, wire) = expect
    BY DEF Counted, DecodesAsMeant
  <2>1. CASE Ok(expect)
    <3>1. Followed /\ Len(wire) < Half
      BY <2>1 DEF Following
    <3> QED
      BY <3>1, DecodesAll DEF Followed
  <2>2. CASE ~Ok(expect)
    BY <2>2 DEF Following
  <2> QED
    BY <2>1, <2>2
<1> QED
  BY <1>1, CountedAtFirst, StaysCounted, PTL DEF Spec

(* A message cut short runs out of input, unless the cut falls between two  *)
(* fields.                                                                  *)
LEMMA CutsAreNoticed ==
    ASSUME Following, NEW p, NEW s, NEW held, Grows(p, s, held)
    PROVE  CutIsNoticed'
<1> DEFINE l == Len(wire)  d == DOMAIN seen  whole == wire \o p
<1>1. Open /\ p \in Seq(Byte) /\ Len(p) >= 1 /\ Means(kind, p, s) /\ Arrives(p, Done(held))
  BY DEF Grows, Means
<1>2. /\ WireIsBytes /\ l \in Nat /\ l < Half /\ Followed
      /\ wire' = whole /\ kind' = kind /\ Len(wire') = l + Len(p) /\ Len(wire') < Half
      /\ Len(p) \in Nat
  BY <1>1, ArrivesBehind
<1>3. /\ DOMAIN seen' = d \cup {Len(wire')} /\ Len(wire') \notin d
      /\ \A n \in d : seen'[n] = seen[n]
  BY GrownFollows
<1>4. d \subseteq 0 .. l /\ l \in d /\ seen[l] = expect.msg /\ Decodes(kind, wire, expect.msg)
  BY <1>2 DEF Followed
<1> HIDE DEF d
<1>5. LastField' = l
  <2>1. wire' # <<>>
    BY <1>1, <1>2
  <2>2. DOMAIN seen' \ {Len(wire')} = d
    BY <1>3
  <2>3. \A x \in d : (\A y \in d : x >= y) => x = l
    BY <1>2, <1>4
  <2>4. \A y \in d : l >= y
    BY <1>2, <1>4
  <2>5. Max(d) = l
    BY <1>4, <2>3, <2>4 DEF Max
  <2>6. LastField' = Max(DOMAIN seen' \ {Len(wire')})
    BY <2>1 DEF LastField
  <2> QED
    BY <2>2, <2>5, <2>6
<1>6. ASSUME NEW n \in l .. (Len(whole) - 1)
      PROVE  Unmarshal(kind, SubSeq(whole, 1, n)) =
                 IF n \in DOMAIN seen' THEN Done(seen'[n]) ELSE Failed("UnexpectedEOF")
  <2>1. CASE n = l
    <3>1. SubSeq(whole, 1, l) = wire
      <4>1. wire \in Seq(Byte)
        BY <1>2 DEF WireIsBytes
      <4> QED
        BY <1>1, <4>1, ConcatProperties, SubSeqProperties
    <3>2. Unmarshal(kind, wire) = Done(expect.msg)
      BY <1>2, <1>4, DecodesAll
    <3>3. n \in DOMAIN seen' /\ seen'[n] = expect.msg
      BY <1>3, <1>4, <2>1
    <3> QED
      BY <2>1, <3>1, <3>2, <3>3
  <2>2. CASE n # l
    <3>1. n \in l + 1 .. Len(whole) - 1
      BY <1>2, <2>2
    <3>2. n \notin DOMAIN seen'
      BY <1>2, <1>3, <1>4, <3>1
    <3>3. Unmarshal(kind, SubSeq(whole, 1, n)) = Failed("UnexpectedEOF")
      BY <1>1, <1>2, <1>4, <3>1, DecodesCut
    <3> QED
      BY <3>2, <3>3
  <2> QED
    BY <2>1, <2>2
<1> HIDE DEF l, whole
<1>7. \A n \in LastField' .. (Len(wire') - 1) : \A cut \in {SubSeq(wire', 1, n)} :
          Unmarshal(kind', cut) =
              IF n \in DOMAIN seen' THEN Done(seen'[n]) ELSE Failed("UnexpectedEOF")
  BY <1>2, <1>5, <1>6
<1> QED
  BY <1>7 DEF CutIsNoticed

THEOREM CutMessagesAreNoticed == Spec => []CutIsNoticed
<1> DEFINE Inv == Counted /\ CutIsNoticed
<1>1. Init => Inv
  <2> SUFFICES ASSUME Init PROVE CutIsNoticed
    BY CountedAtFirst
  <2>1. wire = <<>> /\ Len(wire) = 0 /\ LastField = 0
    BY DEF Init, LastField
  <2>2. LastField .. (Len(wire) - 1) = {}
    BY <2>1
  <2> QED
    BY <2>2 DEF CutIsNoticed
<1>2. Inv /\ [Next]_vars => Inv'
  <2> SUFFICES ASSUME Inv, [Next]_vars PROVE CutIsNoticed'
    BY StaysCounted
  <2>1. Following /\ junk \in Nat
    BY DEF Counted
  <2>2. ASSUME NEW p, NEW s, NEW held, Grows(p, s, held) PROVE CutIsNoticed'
    BY <2>1, <2>2, CutsAreNoticed
  <2>3. ASSUME NEW p, NEW e, Stops(p, e) PROVE CutIsNoticed'
    BY <2>1, <2>3, StoppedFollows DEF CutIsNoticed
  <2>4. ASSUME NEW byte \in Bytes, SendJunk(byte) PROVE CutIsNoticed'
    BY <2>1, <2>4, JunkFollows DEF CutIsNoticed
  <2>5. ASSUME UNCHANGED vars PROVE CutIsNoticed'
    BY <2>5 DEF vars, CutIsNoticed, LastField
  <2> QED
    BY <2>1, <2>2, <2>3, <2>4, <2>5, FollowingSteps
<1>3. Inv => CutIsNoticed
  OBVIOUS
<1> QED
  BY <1>1, <1>2, <1>3, PTL DEF Spec
=============================================================================
