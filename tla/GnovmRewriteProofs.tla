------------------------- MODULE GnovmRewriteProofs -------------------------
(***************************************************************************)
(* The theorem that what Unmarshal accepts Marshal writes again: what a    *)
(* message costs that was read (its size is no more than the bytes), and   *)
(* what is written of it (as many bytes as its size, and they mean it).    *)
(***************************************************************************)
EXTENDS GnovmWireProofs

-----------------------------------------------------------------------------
(* What a varint costs.  Sov is the shortest spelling: a varint that was   *)
(* read took at least as many bytes.                                       *)

LEMMA SovOfBits ==
    /\ Sov(0) = 1
    /\ \A x \in 1 .. Uint64 - 1 : Sov(x) = (Len64(x) + 6) \div 7
    /\ \A x \in 0 .. Uint64 - 1 : Sov(x) \in Nat /\ Sov(x) >= 1
<1>1. 1 \in 1 .. Uint64 - 1
  BY WordSizes
<1>2. Sov(0) = (Len64(1) + 6) \div 7
  BY DEF Sov
<1>3. \A x \in 1 .. Uint64 - 1 : Sov(x) = (Len64(x) + 6) \div 7
  BY WordSizes DEF Sov
<1>4. Len64(1) = 1
  <2> DEFINE x == 1
             n == Len64(x)
  <2>1. x \in 1 .. Uint64 - 1 /\ x = 1
    BY <1>1
  <2> HIDE DEF x
  <2>2. n \in 1 .. Word /\ x < Pow2[n] /\ Pow2[n - 1] <= x
    BY <2>1, Bits
  <2> HIDE DEF n
  <2>3. n \in Nat /\ n >= 1 /\ Word \in Nat /\ Word >= 8
    BY <2>2, WordSizes
  <2>4. ASSUME n >= 2 PROVE FALSE
    <3> DEFINE one == 1
               p == n - 1
    <3>1. one \in 0 .. Word /\ p \in one .. Word /\ one \in 1 .. Word /\ one - 1 = 0
      BY <2>2, <2>3, <2>4
    <3>2. Pow2[one] = 2
      <4> HIDE DEF one
      <4>1. Pow2[one] = 2 * Pow2[one - 1]
        BY <3>1, Powers
      <4> QED
        BY <3>1, <4>1, Powers
    <3>3. Pow2[one] <= Pow2[p]
      <4> HIDE DEF one, p
      <4> QED
        BY <3>1, PowersGrow
    <3>4. Pow2[p] \in Nat
      <4> HIDE DEF p
      <4>1. p \in 0 .. Word
        BY <3>1
      <4> QED
        BY <4>1, Powers
    <3>5. Pow2[p] <= x
      BY <2>2
    <3> HIDE DEF p, one
    <3> QED
      BY <2>1, <3>2, <3>3, <3>4, <3>5
  <2>5. n = 1
    BY <2>3, <2>4
  <2> QED
    BY <2>5 DEF n, x
<1>5. Sov(0) = 1
  <2>1. (1 + 6) \div 7 = 1
    OBVIOUS
  <2> QED
    BY <1>2, <1>4, <2>1
<1>6. ASSUME NEW x \in 0 .. Uint64 - 1 PROVE Sov(x) \in Nat /\ Sov(x) >= 1
  <2>1. CASE x = 0
    BY <1>5, <2>1
  <2>2. CASE x # 0
    <3> DEFINE n == Len64(x)
    <3>1. x \in 1 .. Uint64 - 1
      BY <2>2, WordSizes
    <3>2. n \in 1 .. Word
      BY <3>1, Bits
    <3>3. Sov(x) = (n + 6) \div 7
      BY <1>3, <3>1
    <3> HIDE DEF n
    <3>4. n \in Nat /\ n >= 1
      BY <3>2, WordSizes
    <3>5. (n + 6) \div 7 \in Nat /\ (n + 6) \div 7 >= 1
      BY <3>4
    <3> QED
      BY <3>3, <3>5
  <2> QED
    BY <2>1, <2>2
<1> QED
  BY <1>3, <1>5, <1>6

(* A number below a power of two has no more bits than its exponent.       *)
LEMMA FewBits ==
    ASSUME NEW x \in 1 .. Uint64 - 1, NEW m \in 0 .. Word, x < Pow2[m]
    PROVE  Len64(x) <= m
<1> DEFINE n == Len64(x)
           p == n - 1
<1>1. n \in 1 .. Word /\ Pow2[p] <= x
  BY Bits
<1> HIDE DEF n
<1>2. Word \in Nat /\ n \in Nat /\ m \in Nat /\ p \in 0 .. Word /\ x \in Nat
  BY <1>1, WordSizes
<1>3. Pow2[p] \in Nat /\ Pow2[m] \in Nat
  <2> HIDE DEF p
  <2> QED
    BY <1>2, Powers
<1>4. ASSUME ~(n <= m) PROVE FALSE
  <2>1. p \in m .. Word
    BY <1>1, <1>2, <1>4
  <2> HIDE DEF p
  <2>2. Pow2[m] <= Pow2[p]
    BY <2>1, PowersGrow
  <2> QED
    BY <1>1, <1>2, <1>3, <2>2
<1> QED
  BY <1>4 DEF n

LEMMA SovIsShortest ==
    ASSUME NEW x \in 0 .. Uint64 - 1, NEW n \in Nat, n >= 1, 7 * n <= Word, x < Pow2[7 * n]
    PROVE  Sov(x) <= n
<1>1. CASE x = 0
  BY <1>1, SovOfBits
<1>2. CASE x # 0
  <2> DEFINE m == 7 * n
             l == Len64(x)
  <2>1. x \in 1 .. Uint64 - 1 /\ m \in 0 .. Word
    BY <1>2, WordSizes
  <2>2. l <= m /\ l \in 1 .. Word
    <3> HIDE DEF m
    <3>1. x < Pow2[m]
      BY DEF m
    <3> QED
      BY <2>1, <3>1, FewBits, Bits
  <2>3. Sov(x) = (l + 6) \div 7
    BY <2>1, SovOfBits
  <2> HIDE DEF l
  <2>4. l \in Nat /\ l <= 7 * n
    BY <2>2, WordSizes
  <2>5. (l + 6) \div 7 <= n
    BY <2>4
  <2> QED
    BY <2>3, <2>5
<1> QED
  BY <1>1, <1>2

LEMMA SovWithin ==
    ASSUME NEW x \in 0 .. Uint64 - 1
    PROVE  Sov(x) <= Groups
<1>1. CASE x = 0
  BY <1>1, SovOfBits, WordSizes
<1>2. CASE x # 0
  <2> DEFINE l == Len64(x)
  <2>1. x \in 1 .. Uint64 - 1
    BY <1>2, WordSizes
  <2>2. l \in 1 .. Word /\ Sov(x) = (l + 6) \div 7
    BY <2>1, SovOfBits, Bits
  <2> HIDE DEF l
  <2>3. l \in Nat /\ l <= 7 * Groups - 6 /\ Groups \in Nat
    BY <2>2, WordSizes
  <2>4. (l + 6) \div 7 <= Groups
    BY <2>3
  <2> QED
    BY <2>2, <2>4
<1> QED
  BY <1>1, <1>2

LEMMA SovGrows ==
    ASSUME NEW x \in 0 .. Uint64 - 1, NEW y \in 0 .. Uint64 - 1, x <= y
    PROVE  Sov(x) <= Sov(y)
<1>1. CASE x = 0
  BY <1>1, SovOfBits
<1>2. CASE x # 0
  <2> DEFINE l == Len64(x)
             m == Len64(y)
  <2>1. x \in 1 .. Uint64 - 1 /\ y \in 1 .. Uint64 - 1
    BY <1>2, WordSizes
  <2>2. m \in 1 .. Word /\ y < Pow2[m] /\ l \in 1 .. Word
    BY <2>1, Bits
  <2>3. Sov(x) = (l + 6) \div 7 /\ Sov(y) = (m + 6) \div 7
    BY <2>1, SovOfBits
  <2> HIDE DEF m
  <2>4. m \in 0 .. Word /\ x \in Nat /\ y \in Nat /\ Pow2[m] \in Nat
    <3>1. m \in 0 .. Word
      BY <2>2, WordSizes
    <3> QED
      BY <2>1, <3>1, Powers
  <2>5. x < Pow2[m]
    BY <2>2, <2>4
  <2>6. l <= m
    BY <2>1, <2>4, <2>5, FewBits
  <2> HIDE DEF l
  <2>7. l \in Nat /\ m \in Nat
    BY <2>2, WordSizes
  <2>8. (l + 6) \div 7 <= (m + 6) \div 7
    BY <2>6, <2>7
  <2> QED
    BY <2>3, <2>8
<1> QED
  BY <1>1, <1>2

(* A sum takes one byte more than its larger part at most.                 *)
LEMMA SovOfSum ==
    ASSUME NEW x \in 0 .. Uint64 - 1, NEW y \in 0 .. Uint64 - 1, x <= y, x + y < Uint64
    PROVE  Sov(x + y) <= Sov(x) + Sov(y)
<1> DEFINE z == x + y
<1>1. x \in Nat /\ y \in Nat /\ z \in 0 .. Uint64 - 1 /\ Uint64 \in Nat
  BY WordSizes
<1>2. Sov(x) \in Nat /\ Sov(x) >= 1 /\ Sov(y) \in Nat /\ Sov(z) \in Nat
  BY <1>1, SovOfBits
<1>3. CASE y = 0
  <2>1. z = y
    BY <1>1, <1>3
  <2> QED
    BY <1>2, <2>1
<1>4. CASE y # 0
  <2> DEFINE l == Len64(z)
             m == Len64(y)
  <2>1. z \in 1 .. Uint64 - 1 /\ y \in 1 .. Uint64 - 1
    BY <1>1, <1>4
  <2>2. m \in 1 .. Word /\ y < Pow2[m] /\ l \in 1 .. Word
    <3> HIDE DEF z
    <3> QED
      BY <2>1, Bits
  <2>3. Sov(z) = (l + 6) \div 7 /\ Sov(y) = (m + 6) \div 7
    <3> HIDE DEF z
    <3> QED
      BY <2>1, SovOfBits
  <2>4. l <= m + 1
    <3> HIDE DEF m
    <3>1. m \in Nat /\ Word \in Nat /\ l \in Nat /\ l <= Word
      <4> HIDE DEF l
      <4> QED
        BY <2>2, WordSizes
    <3>2. CASE m = Word
      BY <3>1, <3>2
    <3>3. CASE m # Word
      <4> DEFINE n == m + 1
      <4>1. n \in 1 .. Word /\ n \in 0 .. Word /\ m \in 0 .. Word /\ n - 1 = m
        BY <2>2, <3>1, <3>3
      <4>2. Pow2[n] = 2 * Pow2[m] /\ Pow2[m] \in Nat
        <5> HIDE DEF n
        <5>1. Pow2[n] = 2 * Pow2[n - 1]
          BY <4>1, Powers
        <5> QED
          BY <4>1, <5>1, Powers
      <4>3. z < Pow2[n]
        <5> HIDE DEF n
        <5> QED
          BY <1>1, <2>2, <4>2
      <4>4. l <= n
        <5> HIDE DEF n, z
        <5> QED
          BY <2>1, <4>1, <4>3, FewBits
      <4> QED
        BY <4>4
    <3> QED
      BY <3>2, <3>3
  <2> HIDE DEF l, m
  <2>5. l \in Nat /\ m \in Nat
    BY <2>2, WordSizes
  <2>6. (l + 6) \div 7 <= (m + 6) \div 7 + 1
    BY <2>4, <2>5
  <2> HIDE DEF z
  <2>7. Sov(z) <= Sov(x) + Sov(y)
    BY <1>2, <2>3, <2>6
  <2> QED
    BY <2>7 DEF z
<1> QED
  BY <1>3, <1>4

(* n bytes hold less than 2^(7n).                                          *)
LEMMA ValueIsSmall ==
    ASSUME NEW b \in Seq(Byte), NEW i \in Nat, NEW n \in Nat, i + n <= Len(b), 7 * n <= Word
    PROVE  Value(b, i, n) \in Nat /\ Value(b, i, n) < Pow2[7 * n]
<1>1. PICK g : Reads(g, b, i, n)
  BY ValueReads
<1>2. Value(b, i, n) = g[0]
  BY <1>1, ValueIs
<1>3. /\ g \in [0 .. n -> Nat] /\ g[n] = 0
      /\ \A k \in 0 .. n - 1 : g[k] = (b[i + k + 1] % 128) + 128 * g[k + 1]
  BY <1>1 DEF Reads
<1>4. Word \in Nat
  BY WordSizes
<1> DEFINE Good == {j \in 0 .. n : g[n - j] < Pow2[7 * j]}
<1>5. 0 \in Good
  <2>1. n - 0 = n /\ 7 * 0 = 0 /\ 0 \in 0 .. n
    OBVIOUS
  <2> QED
    BY <1>3, <2>1, Powers
<1>6. ASSUME NEW j \in 1 .. n, j - 1 \in Good PROVE j \in Good
  <2> DEFINE k == n - j
             e == 7 * (j - 1)
             f == 7 * j
  <2>1. k \in 0 .. n - 1 /\ k + 1 = n - (j - 1) /\ k + 1 \in 0 .. n
    OBVIOUS
  <2>2. e \in Nat /\ e + 7 <= Word /\ e + 7 = f /\ e \in 0 .. Word
    BY <1>4
  <2>3. g[k + 1] < Pow2[e] /\ g[k + 1] \in Nat
    <3>1. g[n - (j - 1)] < Pow2[e]
      BY <1>6
    <3> HIDE DEF e, k
    <3> QED
      BY <1>3, <2>1, <3>1
  <2>4. Pow2[f] = 128 * Pow2[e] /\ Pow2[e] \in Nat
    <3> HIDE DEF e, f
    <3>1. Pow2[e + 7] = 128 * Pow2[e] /\ Pow2[e] \in Nat
      BY <2>2, SevenBits
    <3> QED
      BY <2>2, <3>1
  <2>5. b[i + k + 1] % 128 \in 0 .. 127
    <3>1. i + k + 1 \in 1 .. Len(b)
      BY <2>1
    <3> HIDE DEF k
    <3>2. b[i + k + 1] \in Byte
      BY <3>1, ElementOfSeq
    <3>3. \A x \in Byte : x % 128 \in 0 .. 127
      BY DEF Byte
    <3> QED
      BY <3>2, <3>3
  <2>6. g[k] = (b[i + k + 1] % 128) + 128 * g[k + 1]
    BY <1>3, <2>1
  <2> HIDE DEF e, f
  <2>7. g[k] < Pow2[f]
    <3> DEFINE low == b[i + k + 1] % 128
               high == g[k + 1]
               p == Pow2[e]
    <3>1. low \in 0 .. 127 /\ high \in Nat /\ p \in Nat /\ high < p
      BY <2>3, <2>4, <2>5
    <3> HIDE DEF low, high, p
    <3>2. low + 128 * high < 128 * p
      BY <3>1
    <3> QED
      BY <2>4, <2>6, <3>2 DEF low, high, p
  <2> QED
    BY <2>7 DEF f
<1>7. n \in Good
  <2>1. \A j \in 0 .. n : j \in Good
    <3> HIDE DEF Good
    <3> QED
      BY <1>5, <1>6, Iterations
  <2> QED
    BY <2>1
<1>8. g[0] < Pow2[7 * n] /\ g[0] \in Nat
  <2>1. n - n = 0 /\ 0 \in 0 .. n
    OBVIOUS
  <2> QED
    BY <1>3, <1>7, <2>1
<1> QED
  BY <1>2, <1>8

(* A varint that was read took the bytes its shortest spelling takes, or   *)
(* more.                                                                   *)
LEMMA VarintCosts ==
    ASSUME NEW b \in Seq(Byte), NEW i \in Nat, Ok(ReadVarint(b, i))
    PROVE  /\ ReadVarint(b, i).next \in i + 1 .. Len(b)
           /\ ReadVarint(b, i).val \in 0 .. Uint64 - 1
           /\ Sov(ReadVarint(b, i).val) <= ReadVarint(b, i).next - i
<1>1. PICK n \in 1 .. Groups : /\ Takes(b, i, n)
                               /\ ReadVarint(b, i) = At(Value(b, i, n) % Uint64, i + n)
  BY VarintRead
<1> DEFINE v == Value(b, i, n)
           x == v % Uint64
<1>2. ReadVarint(b, i).val = x /\ ReadVarint(b, i).next = i + n
  BY <1>1, Results
<1>3. x \in 0 .. Uint64 - 1 /\ i + n \in i + 1 .. Len(b)
  BY <1>2, VarintMoves
<1>4. n \in Nat /\ n >= 1 /\ i + n <= Len(b) /\ Groups \in Nat /\ Word = 7 * Groups - 6
      /\ Uint64 \in Nat
  BY <1>1, <1>3, WordSizes
<1> HIDE DEF x
<1>5. Sov(x) <= n
  <2>1. CASE n = Groups
    BY <1>3, <2>1, SovWithin
  <2>2. CASE n # Groups
    <3> DEFINE m == 7 * n
    <3>1. m <= Word /\ m \in 0 .. Word /\ Word \in m .. Word /\ Word \in 0 .. Word
      BY <1>4, <2>2
    <3>2. v \in Nat /\ v < Pow2[m]
      BY <1>4, <3>1, ValueIsSmall
    <3> HIDE DEF m
    <3>3. Pow2[m] <= Uint64 /\ Pow2[m] \in Nat
      BY <3>1, PowersGrow, Powers DEF Uint64
    <3> HIDE DEF v
    <3>4. v < Uint64
      BY <1>4, <3>2, <3>3
    <3>5. x = v
      BY <1>4, <3>2, <3>4 DEF x
    <3>6. x < Pow2[7 * n] /\ 7 * n <= Word
      BY <3>1, <3>2, <3>5 DEF m
    <3> QED
      BY <1>3, <1>4, <3>6, SovIsShortest
  <2> QED
    BY <2>1, <2>2
<1>6. i + n - i = n
  BY <1>4
<1> QED
  BY <1>2, <1>3, <1>5, <1>6

(* A length that was read, and the data behind it.                         *)
LEMMA LengthCosts ==
    ASSUME NEW b \in Seq(Byte), NEW i \in Nat, Ok(ReadLength(b, i)), NEW l,
           l = ReadLength(b, i).val - ReadLength(b, i).next
    PROVE  /\ ReadLength(b, i).next \in i + 1 .. Len(b)
           /\ ReadLength(b, i).val \in Nat
           /\ l \in 0 .. Uint64 - 1
           /\ Sov(l) <= ReadLength(b, i).next - i
<1> DEFINE r == ReadVarint(b, i)
<1>1. ReadLength(b, i) = LengthOf(r)
  BY DEF ReadLength
<1> HIDE DEF r
<1>2. Ok(r)
  <2> SUFFICES ASSUME ~Ok(r) PROVE FALSE
    OBVIOUS
  <2>1. LengthOf(r) = r
    BY DEF LengthOf
  <2> QED
    BY <1>1, <2>1
<1>3. r.next \in i + 1 .. Len(b) /\ r.val \in 0 .. Uint64 - 1 /\ Sov(r.val) <= r.next - i
  BY <1>2, VarintCosts DEF r
<1>4. ~(Signed(r.val, Uint64) < 0 \/ r.next + r.val >= Half)
  <2> SUFFICES ASSUME Signed(r.val, Uint64) < 0 \/ r.next + r.val >= Half PROVE FALSE
    OBVIOUS
  <2>1. LengthOf(r) = Failed("InvalidLength") /\ "InvalidLength" # "None"
    BY <1>2 DEF LengthOf
  <2> QED
    BY <1>1, <2>1, Results
<1>5. LengthOf(r) = At(r.next + r.val, r.next)
  BY <1>2, <1>4 DEF LengthOf
<1>6. ReadLength(b, i).next = r.next /\ ReadLength(b, i).val = r.next + r.val
  BY <1>1, <1>5, Results
<1>7. r.next \in Nat /\ r.val \in Nat
  BY <1>3, WordSizes
<1>8. l = r.val
  BY <1>6, <1>7
<1> QED
  BY <1>3, <1>6, <1>7, <1>8

-----------------------------------------------------------------------------
(* What a field costs: the bytes of its tag, its count and its data.  This *)
(* is what the shortest spelling of it takes, and never more than what was *)
(* read.  An amount is written in its own digits, which may be more than   *)
(* those it was read from: for it only the tag and the length count.       *)

EntryCost(e) ==
    IF e[1].type = "uint" THEN 1 + Sov(e[2])
    ELSE IF e[1] = Amount THEN 2 ELSE FieldSize(Len(e[2]))

(* What an amount can be: never set, zero, or the digits that spell it.    *)
Amounts ==
    {s \in Content : Len(s) < 128 /\ (s = <<>> \/ (s \in DOMAIN NumberOf /\ NumberOf[s] = s))}

LEMMA NumbersAreAmounts == \A s \in DOMAIN NumberOf : NumberOf[s] \in Amounts
<1> SUFFICES ASSUME NEW s \in DOMAIN NumberOf PROVE NumberOf[s] \in Amounts
  OBVIOUS
<1> DEFINE v == NumberOf[s]
<1>1. v \in Seq(Byte) /\ Len(v) < 128
      /\ (v = <<>> \/ (v \in DOMAIN NumberOf /\ NumberOf[v] = v))
  BY Numbers, NumberAssumption
<1> HIDE DEF v
<1>2. v \in Content
  <2>1. Len(v) \in Nat
    BY <1>1
  <2> QED
    BY <1>1, <2>1, WordSizes DEF Content
<1>3. v \in Amounts
  BY <1>1, <1>2 DEF Amounts
<1> QED
  BY <1>3 DEF v

(* An entry whose number fits the word, or whose data fit a message.       *)
Priced(k) == {e \in Entries(k) : IF e[1].type = "uint" THEN e[2] \in 0 .. Uint64 - 1
                                 ELSE e[2] \in Content /\ (e[1] = Amount => e[2] \in Amounts)}

LEMMA PricedCosts ==
    ASSUME NEW k, NEW e \in Priced(k)
    PROVE  EntryCost(e) \in Nat /\ EntryCost(e) >= 2
<1>1. CASE e[1].type = "uint"
  <2>1. e[2] \in 0 .. Uint64 - 1
    BY <1>1 DEF Priced
  <2>2. Sov(e[2]) \in Nat /\ Sov(e[2]) >= 1
    BY <2>1, SovOfBits
  <2> QED
    BY <1>1, <2>2 DEF EntryCost
<1>3. CASE e[1].type # "uint" /\ e[1] = Amount
  BY <1>3 DEF EntryCost
<1>2. CASE e[1].type # "uint" /\ e[1] # Amount
  <2> DEFINE l == Len(e[2])
  <2>1. e[2] \in Seq(Byte) /\ l < Half
    BY <1>2 DEF Priced, Content
  <2>2. l \in Nat
    BY <2>1
  <2> HIDE DEF l
  <2>3. l \in 0 .. Uint64 - 1
    BY <2>1, <2>2, WordSizes
  <2>4. Sov(l) \in Nat /\ Sov(l) >= 1
    BY <2>3, SovOfBits
  <2>5. EntryCost(e) = 1 + l + Sov(l)
    BY <1>2 DEF EntryCost, FieldSize, l
  <2> QED
    BY <2>2, <2>4, <2>5
<1> QED
  BY <1>1, <1>2, <1>3

(* What was read at offset i and stored is no entry, or one that cost what *)
(* was read at most.                                                       *)
OneWithin(k, s, n) ==
    \/ s = <<>>
    \/ \E e \in Priced(k) : s = <<e>> /\ EntryCost(e) <= n

LEMMA DeclaredCosts ==
    ASSUME NEW k, NEW num \in DOMAIN Fields[k], NEW b \in Seq(Byte), Len(b) < Half,
           NEW i \in Nat, NEW tag, tag.next \in i + 1 .. Len(b),
           Ok(Declared(Fields[k][num], b, tag))
    PROVE  /\ Declared(Fields[k][num], b, tag).next \in i + 1 .. Len(b)
           /\ OneWithin(k, Declared(Fields[k][num], b, tag).stores,
                        Declared(Fields[k][num], b, tag).next - i)
<1> DEFINE f == Fields[k][num]
           D == Declared(f, b, tag)
<1>1. tag.next \in Nat /\ tag.next > i /\ Ok(D)
  OBVIOUS
<1>2. CASE WireType(tag.val) # (IF f.type = "uint" THEN 0 ELSE 2)
  <2>1. D = Failed("WrongWireType") /\ "WrongWireType" # "None"
    BY <1>2 DEF Declared
  <2> QED
    BY <1>1, <2>1, Results
<1>3. CASE ~(WireType(tag.val) # (IF f.type = "uint" THEN 0 ELSE 2)) /\ f.type = "uint"
  <2> DEFINE r == ReadVarint(b, tag.next)
             e == <<f, r.val>>
  <2>1. D = Number(f, r)
    BY <1>3 DEF Declared
  <2> HIDE DEF D
  <2>2. Ok(r)
    BY <1>1, <2>1 DEF Number
  <2>3. r.next \in tag.next + 1 .. Len(b) /\ r.val \in 0 .. Uint64 - 1 /\ Sov(r.val) <= r.next - tag.next
    BY <1>1, <2>2, VarintCosts
  <2> HIDE DEF r
  <2>4. D = Stores(f, r.val, r.next)
    BY <2>1, <2>2 DEF Number
  <2>5. r.next \in i + 1 .. Len(b) /\ r.val \in Nat
    BY <1>1, <2>3, WordSizes
  <2>6. D.next = r.next /\ D.stores = <<e>>
    BY <2>4 DEF Stores
  <2>7. e[1] = f /\ e[2] = r.val
    OBVIOUS
  <2>8. e \in Entries(k)
    BY <1>3, <2>5, <2>7 DEF Entries
  <2> HIDE DEF e
  <2>9. e \in Priced(k)
    BY <1>3, <2>3, <2>7, <2>8 DEF Priced
  <2>10. EntryCost(e) = 1 + Sov(r.val)
    BY <1>3, <2>7 DEF EntryCost
  <2>11. Sov(r.val) \in Nat
    BY <2>3, SovOfBits
  <2>12. EntryCost(e) <= r.next - i
    BY <1>1, <2>3, <2>5, <2>10, <2>11
  <2>13. OneWithin(k, D.stores, D.next - i)
    BY <2>6, <2>9, <2>12 DEF OneWithin
  <2> QED
    BY <2>5, <2>6, <2>13 DEF D
<1>4. CASE ~(WireType(tag.val) # (IF f.type = "uint" THEN 0 ELSE 2)) /\ f.type # "uint"
  <2> DEFINE r == ReadLength(b, tag.next)
             data == Slice(b, r.next, r.val)
             v == SubSeq(b, r.next + 1, r.val)
             l == r.val - r.next
  <2>1. D = Delimited(f, b, r)
    BY <1>4 DEF Declared
  <2>2. Ok(r)
    <3> SUFFICES ASSUME ~Ok(r) PROVE FALSE
      OBVIOUS
    <3>1. Delimited(f, b, r) = r
      BY DEF Delimited
    <3> QED
      BY <1>1, <2>1, <3>1
  <2>3. r.next \in tag.next + 1 .. Len(b) /\ r.val \in Nat
        /\ l \in 0 .. Uint64 - 1 /\ Sov(l) <= r.next - tag.next
    BY <1>1, <2>2, LengthCosts
  <2> HIDE DEF D, r
  <2>4. ~PastEnd(b, r.val)
    <3> SUFFICES ASSUME PastEnd(b, r.val) PROVE FALSE
      OBVIOUS
    <3>1. Delimited(f, b, r) = Failed("UnexpectedEOF") /\ "UnexpectedEOF" # "None"
      BY <2>2 DEF Delimited
    <3> QED
      BY <1>1, <2>1, <3>1, Results
  <2>5. r.val <= Len(b) /\ Len(b) \in Nat
    BY <2>4, <2>3 DEF PastEnd
  <2>6. data = Done(v)
    BY <2>3, <2>5 DEF Slice
  <2>7. Ok(data) /\ data.msg = v
    <3> HIDE DEF data, v
    <3> QED
      BY <2>6 DEF Done, Ok
  <2>8. D = StoresText(f, v, r.val)
    <3> HIDE DEF v
    <3> QED
      BY <2>1, <2>2, <2>4, <2>7 DEF Delimited
  <2>9. r.next \in Nat /\ r.next > tag.next /\ l \in Nat
    BY <1>1, <2>3, WordSizes
  <2>10. v \in Seq(Byte) /\ Len(v) = l
    <3>1. \A x \in r.next + 1 .. r.val : x \in 1 .. Len(b)
      BY <2>3, <2>5, <2>9
    <3>2. \A x \in r.next + 1 .. r.val : b[x] \in Byte
      BY <3>1, ElementOfSeq
    <3>3. r.next + 1 \in Int /\ r.val \in Int
      BY <2>3, <2>9
    <3>4. v \in Seq(Byte) /\ Len(v) = IF r.next + 1 <= r.val THEN r.val - (r.next + 1) + 1 ELSE 0
      BY <3>2, <3>3, SubSeqProperties
    <3> HIDE DEF v
    <3> QED
      BY <2>3, <2>9, <3>4
  <2>11. r.val \in i + 1 .. Len(b) /\ l <= Len(b)
    BY <1>1, <2>3, <2>5, <2>9
  <2> HIDE DEF v
  <2>12. v \in Content
    BY <2>10, <2>11, <2>5, <2>9, WordSizes DEF Content
  <2>13. Sov(l) \in Nat /\ Sov(l) >= 1
    BY <2>3, SovOfBits
  <2>14. 1 + l + Sov(l) <= r.val - i /\ 2 <= r.val - i
    <3> DEFINE s == Sov(l)
    <3>1. s \in Nat /\ s >= 1 /\ s <= r.next - tag.next
      BY <2>3, <2>13
    <3> HIDE DEF s
    <3>2. 1 + l + s <= r.val - i
      BY <1>1, <2>3, <2>9, <3>1, SMTT(30)
    <3>3. 2 <= r.val - i
      BY <1>1, <2>3, <2>9, <3>1, <3>2
    <3> QED
      BY <3>2, <3>3 DEF s
  <2>15. CASE f # Amount
    <3> DEFINE e == <<f, v>>
    <3>1. D.next = r.val /\ D.stores = <<e>>
      BY <2>8, <2>15 DEF StoresText, Stores
    <3>2. e[1] = f /\ e[2] = v
      OBVIOUS
    <3>3. e \in Entries(k)
      BY <1>4, <2>10, <3>2 DEF Entries
    <3> HIDE DEF e
    <3>4. e \in Priced(k)
      BY <1>4, <2>12, <2>15, <3>2, <3>3 DEF Priced
    <3>5. EntryCost(e) = 1 + l + Sov(l)
      <4> HIDE DEF l
      <4> QED
        BY <1>4, <2>10, <2>15, <3>2 DEF EntryCost, FieldSize
    <3>6. OneWithin(k, D.stores, D.next - i)
      BY <2>14, <3>1, <3>4, <3>5 DEF OneWithin
    <3> QED
      BY <2>11, <3>1, <3>6 DEF D
  <2>16. CASE f = Amount /\ v = <<>>
    <3>1. D.next = r.val /\ D.stores = <<>>
      BY <2>8, <2>16 DEF StoresText
    <3>2. OneWithin(k, D.stores, D.next - i)
      BY <3>1 DEF OneWithin
    <3> QED
      BY <2>11, <3>1, <3>2 DEF D
  <2>17. CASE f = Amount /\ v # <<>>
    <3>1. v \in DOMAIN NumberOf
      <4> SUFFICES ASSUME v \notin DOMAIN NumberOf PROVE FALSE
        OBVIOUS
      <4>1. D = Failed("NotANumber") /\ "NotANumber" # "None"
        BY <2>8, <2>17 DEF StoresText
      <4> QED
        BY <1>1, <4>1 DEF D, Failed, Ok
    <3> DEFINE w == NumberOf[v]
               e == <<f, w>>
    <3>2. D = Stores(f, w, r.val)
      BY <2>8, <2>17, <3>1 DEF StoresText
    <3>3. w \in Amounts
      BY <3>1, NumbersAreAmounts
    <3> HIDE DEF w
    <3>4. D.next = r.val /\ D.stores = <<e>>
      BY <3>2 DEF Stores
    <3>5. e[1] = f /\ e[2] = w /\ w \in Content /\ w \in Seq(Byte)
      BY <3>3 DEF Amounts, Content
    <3>6. e \in Entries(k)
      BY <1>4, <3>5 DEF Entries
    <3> HIDE DEF e
    <3>7. e \in Priced(k)
      BY <1>4, <3>3, <3>5, <3>6 DEF Priced
    <3>8. EntryCost(e) = 2
      BY <1>4, <2>17, <3>5 DEF EntryCost
    <3>9. OneWithin(k, D.stores, D.next - i)
      BY <2>14, <3>4, <3>7, <3>8 DEF OneWithin
    <3> QED
      BY <2>11, <3>4, <3>9 DEF D
  <2> QED
    BY <2>15, <2>16, <2>17
<1> QED
  BY <1>2, <1>3, <1>4

LEMMA FieldCosts ==
    ASSUME NEW k, NEW b \in Seq(Byte), Len(b) < Half, NEW i \in Nat, Ok(FieldAt(k, b, i))
    PROVE  /\ FieldAt(k, b, i).next \in i + 1 .. Len(b)
           /\ OneWithin(k, FieldAt(k, b, i).stores, FieldAt(k, b, i).next - i)
<1> DEFINE tag == ReadVarint(b, i)
           num == FieldNum(tag.val)
           F == FieldAt(k, b, i)
<1>1. F \in Readings(k, b, i)
  BY FieldMovesOn, Results
<1>2. F.next \in i + 1 .. Len(b) /\ Ok(F)
  BY <1>1 DEF Readings
<1>3. F = Tagged(k, b, i, tag)
  BY DEF FieldAt
<1> HIDE DEF F
<1>4. Ok(tag)
  BY <1>2, <1>3 DEF Tagged
<1>5. tag.next \in i + 1 .. Len(b)
  BY <1>4, VarintCosts
<1> HIDE DEF tag
<1>6. ~(WireType(tag.val) = 4 \/ num <= 0)
  <2> SUFFICES ASSUME WireType(tag.val) = 4 \/ num <= 0 PROVE FALSE
    OBVIOUS
  <2>1. (F = Failed("EndGroup") \/ F = Failed("IllegalTag"))
        /\ "EndGroup" # "None" /\ "IllegalTag" # "None"
    BY <1>3, <1>4 DEF Tagged
  <2> QED
    BY <1>2, <2>1, Results
<1>7. CASE num \in DOMAIN Fields[k]
  <2>1. F = Declared(Fields[k][num], b, tag)
    BY <1>3, <1>4, <1>6, <1>7 DEF Tagged
  <2> HIDE DEF num
  <2>2. OneWithin(k, F.stores, F.next - i)
    BY <1>2, <1>5, <1>7, <2>1, DeclaredCosts
  <2> QED
    BY <1>2, <2>2 DEF F
<1>8. CASE num \notin DOMAIN Fields[k]
  <2> DEFINE past == Skip(b, i)
  <2>1. F = Skips(b, past)
    BY <1>3, <1>4, <1>6, <1>8 DEF Tagged
  <2> HIDE DEF past
  <2>2. F.stores = <<>>
    <3>1. CASE ~Ok(past)
      BY <1>2, <2>1, <3>1 DEF Skips
    <3>2. CASE Ok(past) /\ PastEnd(b, past.next)
      <4>1. F = Failed("UnexpectedEOF") /\ "UnexpectedEOF" # "None"
        BY <2>1, <3>2 DEF Skips
      <4> QED
        BY <1>2, <4>1, Results
    <3>3. CASE Ok(past) /\ ~PastEnd(b, past.next)
      BY <2>1, <3>3 DEF Skips
    <3> QED
      BY <3>1, <3>2, <3>3
  <2>3. OneWithin(k, F.stores, F.next - i)
    BY <2>2 DEF OneWithin
  <2> QED
    BY <1>2, <2>3 DEF F
<1> QED
  BY <1>7, <1>8

(* Entries that n bytes pay for: c is what is left after each.             *)
Pays(u, n, c) ==
    /\ c \in [0 .. Len(u) -> Nat] /\ c[0] <= n
    /\ \A j \in 1 .. Len(u) : c[j] + EntryCost(u[j]) <= c[j - 1]
Affords(k, u, n) == u \in Seq(Priced(k)) /\ n \in Nat /\ \E c : Pays(u, n, c)

LEMMA NothingIsAfforded ==
    ASSUME NEW k, NEW n \in Nat
    PROVE  Affords(k, <<>>, n)
<1> DEFINE u == <<>>
           c == [j \in 0 .. 0 |-> 0]
<1>1. u \in Seq(Priced(k)) /\ Len(u) = 0
  OBVIOUS
<1>2. c \in [0 .. 0 -> Nat] /\ c[0] = 0
  OBVIOUS
<1> HIDE DEF u, c
<1>3. \A j \in 1 .. Len(u) : FALSE
  BY <1>1
<1>4. Pays(u, n, c)
  BY <1>1, <1>2, <1>3 DEF Pays
<1>5. Affords(k, u, n)
  BY <1>1, <1>4 DEF Affords
<1> QED
  BY <1>5 DEF u

LEMMA FirstIsAfforded ==
    ASSUME NEW k, NEW u, NEW n, Affords(k, u, n), NEW e \in Priced(k), NEW m \in Nat,
           n + EntryCost(e) <= m
    PROVE  Affords(k, <<e>> \o u, m)
<1> DEFINE w == <<e>> \o u
           l == Len(u)
           p == EntryCost(e)
<1>1. u \in Seq(Priced(k)) /\ n \in Nat /\ l \in Nat /\ p \in Nat
  BY PricedCosts DEF Affords
<1>2. PICK c : Pays(u, n, c)
  BY DEF Affords
<1>3. w \in Seq(Priced(k)) /\ Len(w) = l + 1 /\ w[1] = e
  <2>1. <<e>> \in Seq(Priced(k)) /\ Len(<<e>>) = 1 /\ <<e>>[1] = e
    OBVIOUS
  <2> QED
    BY <1>1, <2>1, ConcatProperties
<1>4. ASSUME NEW j \in 2 .. l + 1 PROVE w[j] = u[j - 1] /\ j - 1 \in 1 .. l
  <2>1. <<e>> \in Seq(Priced(k)) /\ Len(<<e>>) = 1
    OBVIOUS
  <2>2. j \in 1 .. Len(<<e>>) + Len(u) /\ ~(j <= Len(<<e>>)) /\ j - Len(<<e>>) = j - 1
    BY <1>1, <2>1
  <2>3. w[j] = u[j - Len(<<e>>)]
    BY <1>1, <2>1, <2>2, ConcatProperties
  <2> QED
    BY <1>1, <2>2, <2>3
<1> HIDE DEF w, p
<1> DEFINE d == [j \in 0 .. l + 1 |-> IF j = 0 THEN m ELSE c[j - 1]]
<1>5. c \in [0 .. l -> Nat] /\ c[0] <= n /\ \A j \in 1 .. l : c[j] + EntryCost(u[j]) <= c[j - 1]
  BY <1>2 DEF Pays
<1> HIDE DEF l
<1>6. d \in [0 .. l + 1 -> Nat] /\ d[0] = m /\ \A j \in 1 .. l + 1 : d[j] = c[j - 1]
  <2>1. \A j \in 1 .. l + 1 : j - 1 \in 0 .. l
    BY <1>1
  <2>2. \A j \in 0 .. l + 1 : j # 0 => j \in 1 .. l + 1
    BY <1>1
  <2>3. \A j \in 0 .. l + 1 : (IF j = 0 THEN m ELSE c[j - 1]) \in Nat
    BY <1>5, <2>1, <2>2
  <2> QED
    BY <1>1, <2>3
<1> HIDE DEF d
<1>7. ASSUME NEW j \in 1 .. l + 1 PROVE d[j] + EntryCost(w[j]) <= d[j - 1]
  <2>1. CASE j = 1
    <3>1. d[j] = c[0] /\ d[j - 1] = m /\ w[j] = e
      BY <1>3, <1>6, <2>1
    <3>2. c[0] \in Nat
      BY <1>1, <1>5
    <3>3. c[0] + p <= m
      BY <1>1, <1>5, <3>2 DEF p
    <3> QED
      BY <3>1, <3>3 DEF p
  <2>2. CASE j # 1
    <3>1. j \in 2 .. l + 1 /\ j - 1 \in 1 .. l /\ j - 1 \in 1 .. l + 1
      BY <1>1, <2>2
    <3>2. d[j] = c[j - 1] /\ d[j - 1] = c[j - 1 - 1] /\ w[j] = u[j - 1]
      BY <1>4, <1>6, <3>1
    <3>3. c[j - 1] + EntryCost(u[j - 1]) <= c[j - 1 - 1]
      BY <1>5, <3>1
    <3> QED
      BY <3>2, <3>3
  <2> QED
    BY <2>1, <2>2
<1>8. Pays(w, m, d)
  <2>1. m <= m
    OBVIOUS
  <2> QED
    BY <1>3, <1>6, <1>7, <2>1 DEF Pays
<1>9. Affords(k, w, m)
  BY <1>3, <1>8 DEF Affords
<1> QED
  BY <1>9 DEF w

LEMMA MoreAffords ==
    ASSUME NEW k, NEW u, NEW n, Affords(k, u, n), NEW m \in Nat, n <= m
    PROVE  Affords(k, u, m)
<1>1. PICK c : Pays(u, n, c)
  BY DEF Affords
<1>2. u \in Seq(Priced(k)) /\ n \in Nat /\ 0 \in 0 .. Len(u)
  BY DEF Affords
<1>3. c[0] <= n /\ c[0] \in Nat
  BY <1>1, <1>2 DEF Pays
<1>4. c[0] <= m
  BY <1>2, <1>3
<1>5. Pays(u, m, c)
  BY <1>1, <1>4 DEF Pays
<1> QED
  BY <1>2, <1>5 DEF Affords

(* What the loop of Unmarshal collects is paid for by the input.           *)
LEMMA LoopCosts ==
    ASSUME NEW k, NEW b \in Seq(Byte), Len(b) < Half
    PROVE  Affords(k, Loop(k, b).stores, Len(b))
<1> DEFINE n == Len(b)
<1>1. PICK g : /\ \A i \in 0 .. n : g[i] = Gathers(k, b, i, g)
               /\ Loop(k, b) = g[0]
  BY LoopGathers
<1>2. n \in Nat
  OBVIOUS
<1> DEFINE Fine(i) == Affords(k, g[i].stores, n - i)
           Good == {j \in 0 .. n : \A i \in n - j .. n : Fine(i)}
<1>3. ASSUME NEW i \in 0 .. n, \A j \in 0 .. n : j > i => Fine(j)
      PROVE  Fine(i)
  <2> DEFINE r == FieldAt(k, b, i)
  <2>1. g[i] = IF i = n THEN [stores |-> <<>>, err |-> "None"]
               ELSE IF ~Ok(r) THEN [stores |-> <<>>, err |-> r.err]
               ELSE IF r.next > n THEN [stores |-> r.stores, err |-> "UnexpectedEOF"]
               ELSE [stores |-> r.stores \o g[r.next].stores, err |-> g[r.next].err]
    BY <1>1 DEF Gathers, GoOn, StoredWith
  <2>2. i \in Nat /\ n - i \in Nat
    BY <1>2
  <2>3. Ok(r) => r.next \in i + 1 .. n /\ OneWithin(k, r.stores, r.next - i)
    BY <2>2, FieldCosts
  <2> HIDE DEF r, n
  <2>4. CASE i = n \/ ~Ok(r)
    <3>1. g[i].stores = <<>>
      BY <2>1, <2>4
    <3> QED
      BY <2>2, <3>1, NothingIsAfforded
  <2>5. CASE ~(i = n \/ ~Ok(r))
    <3> DEFINE next == r.next
               rest == g[next].stores
    <3>1. ~(next > n) /\ next \in i + 1 .. n /\ next \in 0 .. n /\ next > i /\ n - next \in Nat /\ n - next <= n - i
      BY <1>2, <2>2, <2>3, <2>5
    <3>2. Affords(k, rest, n - next)
      BY <1>3, <3>1
    <3>3. g[i].stores = r.stores \o rest
      <4> DEFINE both == r.stores \o rest
                 err == g[next].err
      <4>1. g[i] = [stores |-> both, err |-> err]
        BY <2>1, <2>5, <3>1
      <4> HIDE DEF both, err
      <4>2. g[i].stores = both
        BY <4>1
      <4> QED
        BY <4>2 DEF both
    <3>4. OneWithin(k, r.stores, next - i)
      BY <2>3, <2>5
    <3> HIDE DEF next, rest
    <3>5. CASE r.stores = <<>>
      <4>1. rest \in Seq(Priced(k))
        BY <3>2 DEF Affords
      <4>2. <<>> \o rest = rest
        BY <4>1
      <4>3. g[i].stores = rest
        BY <3>3, <3>5, <4>2
      <4> QED
        BY <2>2, <3>1, <3>2, <4>3, MoreAffords
    <3>6. CASE r.stores # <<>>
      <4>1. PICK e \in Priced(k) : r.stores = <<e>> /\ EntryCost(e) <= next - i
        BY <3>4, <3>6 DEF OneWithin
      <4> DEFINE p == EntryCost(e)
      <4>2. p \in Nat /\ p <= next - i
        BY <4>1, PricedCosts
      <4> HIDE DEF p
      <4>3. (n - next) + p <= n - i
        BY <1>2, <2>2, <3>1, <4>2
      <4>4. Affords(k, <<e>> \o rest, n - i)
        BY <2>2, <3>2, <4>3, FirstIsAfforded DEF p
      <4> QED
        BY <3>3, <4>1, <4>4
    <3> QED
      BY <3>5, <3>6
  <2> QED
    BY <2>4, <2>5
<1> HIDE DEF Fine
<1>4. 0 \in Good
  <2>1. \A i \in n - 0 .. n : i \in 0 .. n /\ \A j \in 0 .. n : ~(j > i)
    BY <1>2
  <2>2. \A i \in n - 0 .. n : Fine(i)
    BY <1>3, <2>1
  <2> QED
    BY <1>2, <2>2
<1>5. ASSUME NEW j \in 1 .. n, j - 1 \in Good PROVE j \in Good
  <2> SUFFICES ASSUME NEW i \in n - j .. n PROVE Fine(i)
    BY <1>2
  <2>1. i \in 0 .. n /\ \A m \in 0 .. n : m > i => m \in n - (j - 1) .. n
    BY <1>2
  <2>2. \A m \in n - (j - 1) .. n : Fine(m)
    BY <1>5
  <2> QED
    BY <1>3, <2>1, <2>2
<1>6. n \in Good
  <2>1. \A j \in 0 .. n : j \in Good
    <3> HIDE DEF Good, n
    <3> QED
      BY <1>2, <1>4, <1>5, Iterations
  <2> QED
    BY <1>2, <2>1
<1>7. Fine(0) /\ n - 0 = n
  BY <1>2, <1>6
<1> QED
  BY <1>1, <1>7 DEF Fine

-----------------------------------------------------------------------------
(* Sizes of lists.  A size is a number the code can hold.                  *)

Size == 0 .. Uint64 - 1

LEMMA FieldSizes ==
    /\ \A x \in Size : x \in Nat /\ FieldSize(x) \in Nat /\ FieldSize(x) >= x + 2
    /\ \A x, y \in Size : x <= y => FieldSize(x) <= FieldSize(y)
    /\ FieldSize(0) = 2
<1>1. ASSUME NEW x \in Size
      PROVE  x \in Nat /\ FieldSize(x) \in Nat /\ FieldSize(x) >= x + 2
  <2>1. x \in Nat /\ Sov(x) \in Nat /\ Sov(x) >= 1
    BY SovOfBits, WordSizes DEF Size
  <2> QED
    BY <2>1 DEF FieldSize
<1>2. ASSUME NEW x \in Size, NEW y \in Size, x <= y
      PROVE  FieldSize(x) <= FieldSize(y)
  <2>1. x \in Nat /\ y \in Nat /\ Sov(x) \in Nat /\ Sov(y) \in Nat
    BY SovOfBits, WordSizes DEF Size
  <2>2. Sov(x) <= Sov(y)
    BY <1>2, SovGrows DEF Size
  <2> QED
    BY <1>2, <2>1, <2>2 DEF FieldSize
<1>3. FieldSize(0) = 2
  <2>1. Sov(0) = 1
    BY SovOfBits
  <2> QED
    BY <2>1 DEF FieldSize
<1> QED
  BY <1>1, <1>2, <1>3

(* s is what the loop over the elements has summed up after each.          *)
Sums(t, s) ==
    /\ s \in [0 .. Len(t) -> Nat] /\ s[0] = 0
    /\ \A j \in 1 .. Len(t) : s[j] = s[j - 1] + FieldSize(t[j])

LEMMA SumsExist ==
    ASSUME NEW t \in Seq(Size)
    PROVE  \E s : Sums(t, s)
<1> DEFINE n == Len(t)
           S == Nat
           z == 0
           step == [j \in 1 .. n |-> [x \in S |-> x + FieldSize(t[j])]]
<1>1. \A j \in 1 .. n : FieldSize(t[j]) \in Nat
  <2> SUFFICES ASSUME NEW j \in 1 .. n PROVE FieldSize(t[j]) \in Nat
    OBVIOUS
  <2>1. t[j] \in Size
    BY ElementOfSeq
  <2> QED
    BY <2>1, FieldSizes
<1>2. n \in Nat /\ z \in S
  OBVIOUS
<1>3. step \in [1 .. n -> [S -> S]] /\ \A j \in 1 .. n : \A x \in S : step[j][x] = x + FieldSize(t[j])
  <2> HIDE DEF n
  <2>1. \A j \in 1 .. n : \A x \in S : x + FieldSize(t[j]) \in S
    BY <1>1
  <2> QED
    BY <2>1
<1> HIDE DEF step, n, S, z
<1>4. PICK s : ForwardLoop(s, n, S, z, step)
  BY <1>2, <1>3, Forwards
<1>5. s \in [0 .. n -> S] /\ s[0] = z /\ \A j \in 1 .. n : s[j] = step[j][s[j - 1]]
  BY <1>4 DEF ForwardLoop
<1>6. ASSUME NEW j \in 1 .. n PROVE s[j] = s[j - 1] + FieldSize(t[j])
  <2>1. j - 1 \in 0 .. n
    BY <1>2
  <2>2. s[j - 1] \in S
    BY <1>5, <2>1
  <2> QED
    BY <1>3, <1>5, <2>2
<1>7. Sums(t, s)
  BY <1>5, <1>6 DEF Sums, n, S, z
<1> QED
  BY <1>7

LEMMA ListSizeIs ==
    ASSUME NEW t \in Seq(Size), NEW s, Sums(t, s)
    PROVE  ListSize(t) = s[Len(t)]
<1> DEFINE n == Len(t)
           Is(r) == r = [j \in 0 .. n |-> IF j = 0 THEN 0 ELSE r[j - 1] + FieldSize(t[j])]
           h == CHOOSE r : Is(r)
<1>1. ListSize(t) = h[n]
  BY DEF ListSize
<1>2. n \in Nat
  OBVIOUS
<1>3. Is(s)
  <2>1. s = [j \in 0 .. n |-> s[j]]
    BY DEF Sums
  <2>2. ASSUME NEW j \in 0 .. n PROVE s[j] = IF j = 0 THEN 0 ELSE s[j - 1] + FieldSize(t[j])
    <3>1. j # 0 => j \in 1 .. n
      BY <1>2
    <3> QED
      BY <3>1 DEF Sums
  <2> QED
    BY <2>1, <2>2
<1>4. Is(h)
  <2> HIDE DEF Is
  <2> QED
    BY <1>3
<1> HIDE DEF h
<1> DEFINE Good == {j \in 0 .. n : h[j] = s[j]}
<1>5. \A j \in 0 .. n : h[j] = IF j = 0 THEN 0 ELSE h[j - 1] + FieldSize(t[j])
  BY <1>4
<1> HIDE DEF Is
<1>6. 0 \in Good
  BY <1>2, <1>5 DEF Sums
<1>7. ASSUME NEW j \in 1 .. n, j - 1 \in Good PROVE j \in Good
  <2>1. j \in 0 .. n /\ j # 0 /\ h[j - 1] = s[j - 1]
    BY <1>2, <1>7
  <2>2. h[j] = h[j - 1] + FieldSize(t[j])
    BY <1>5, <2>1
  <2>3. s[j] = s[j - 1] + FieldSize(t[j])
    BY DEF Sums
  <2> QED
    BY <2>1, <2>2, <2>3
<1>8. \A j \in 0 .. n : j \in Good
  <2> HIDE DEF Good, n
  <2> QED
    BY <1>2, <1>6, <1>7, Iterations
<1> QED
  BY <1>1, <1>2, <1>8

LEMMA ListSizes ==
    /\ ListSize(<<>>) = 0
    /\ \A t \in Seq(Size) :
          ListSize(t) \in Nat /\ \A j \in 1 .. Len(t) : FieldSize(t[j]) <= ListSize(t)
<1>1. ListSize(<<>>) = 0
  <2> DEFINE t == <<>>
             s == [j \in 0 .. 0 |-> 0]
  <2>1. t \in Seq(Size) /\ Len(t) = 0
    OBVIOUS
  <2>2. s \in [0 .. 0 -> Nat] /\ s[0] = 0
    OBVIOUS
  <2> HIDE DEF t, s
  <2>3. Sums(t, s)
    BY <2>1, <2>2 DEF Sums
  <2>4. ListSize(t) = s[0]
    BY <2>1, <2>3, ListSizeIs
  <2> QED
    BY <2>2, <2>4 DEF t
<1>2. ASSUME NEW t \in Seq(Size)
      PROVE  ListSize(t) \in Nat /\ \A j \in 1 .. Len(t) : FieldSize(t[j]) <= ListSize(t)
  <2> DEFINE n == Len(t)
  <2>1. PICK s : Sums(t, s)
    BY SumsExist
  <2>2. ListSize(t) = s[n]
    BY <2>1, ListSizeIs
  <2>3. n \in Nat /\ s \in [0 .. n -> Nat] /\ s[0] = 0
    BY <2>1 DEF Sums
  <2>4. \A j \in 1 .. n : FieldSize(t[j]) \in Nat /\ s[j] = s[j - 1] + FieldSize(t[j])
    <3> SUFFICES ASSUME NEW j \in 1 .. n
                 PROVE  FieldSize(t[j]) \in Nat /\ s[j] = s[j - 1] + FieldSize(t[j])
      OBVIOUS
    <3>1. t[j] \in Size
      BY ElementOfSeq
    <3> QED
      BY <2>1, <3>1, FieldSizes DEF Sums
  <2> HIDE DEF n
  <2> DEFINE Good == {j \in 0 .. n : \A i \in 1 .. j : FieldSize(t[i]) <= s[j]}
  <2>5. 0 \in Good
    BY <2>3
  <2>6. ASSUME NEW j \in 1 .. n, j - 1 \in Good PROVE j \in Good
    <3>1. j - 1 \in 0 .. n /\ s[j - 1] \in Nat /\ j \in 0 .. n
      BY <2>3
    <3>2. s[j] = s[j - 1] + FieldSize(t[j]) /\ FieldSize(t[j]) \in Nat
      BY <2>4
    <3> SUFFICES ASSUME NEW i \in 1 .. j PROVE FieldSize(t[i]) <= s[j]
      BY <3>1
    <3>3. i \in 1 .. n
      BY <2>3
    <3>4. FieldSize(t[i]) \in Nat
      BY <2>4, <3>3
    <3>5. CASE i = j
      BY <3>1, <3>2, <3>5
    <3>6. CASE i # j
      <4>1. i \in 1 .. j - 1
        BY <2>3, <3>6
      <4>2. FieldSize(t[i]) <= s[j - 1]
        BY <2>6, <4>1
      <4> QED
        BY <3>1, <3>2, <3>4, <4>2
    <3> QED
      BY <3>5, <3>6
  <2>7. \A j \in 0 .. n : j \in Good
    <3> HIDE DEF Good
    <3> QED
      BY <2>3, <2>5, <2>6, Iterations
  <2>8. n \in 0 .. n /\ n \in Good
    BY <2>3, <2>7
  <2> QED
    BY <2>2, <2>3, <2>8 DEF n
<1> QED
  BY <1>1, <1>2

(* One element more.                                                       *)
LEMMA ListSizeMore ==
    ASSUME NEW t \in Seq(Size), NEW x \in Size
    PROVE  /\ Append(t, x) \in Seq(Size)
           /\ ListSize(Append(t, x)) = ListSize(t) + FieldSize(x)
<1> DEFINE u == Append(t, x)
           n == Len(t)
           p == FieldSize(x)
<1>1. u \in Seq(Size) /\ Len(u) = n + 1 /\ u[n + 1] = x /\ \A j \in 1 .. n : u[j] = t[j]
  BY AppendProperties
<1>2. n \in Nat /\ p \in Nat
  BY FieldSizes
<1>3. PICK s : Sums(t, s)
  BY SumsExist
<1>4. ListSize(t) = s[n]
  BY <1>3, ListSizeIs
<1> DEFINE r == [j \in 0 .. n + 1 |-> IF j = n + 1 THEN s[n] + p ELSE s[j]]
<1>5. /\ s \in [0 .. n -> Nat] /\ s[0] = 0
      /\ \A j \in 1 .. n : s[j] = s[j - 1] + FieldSize(t[j])
  BY <1>3 DEF Sums
<1> HIDE DEF u, n, p
<1>6. r \in [0 .. n + 1 -> Nat] /\ r[n + 1] = s[n] + p /\ \A j \in 0 .. n : r[j] = s[j]
  <2>1. \A j \in 0 .. n + 1 : j # n + 1 => j \in 0 .. n
    BY <1>2
  <2>2. \A j \in 0 .. n + 1 : (IF j = n + 1 THEN s[n] + p ELSE s[j]) \in Nat
    BY <1>2, <1>5, <2>1
  <2>3. \A j \in 0 .. n : j \in 0 .. n + 1 /\ j # n + 1
    BY <1>2
  <2> QED
    BY <1>2, <2>2, <2>3
<1> HIDE DEF r
<1>7. ASSUME NEW j \in 1 .. n + 1 PROVE r[j] = r[j - 1] + FieldSize(u[j])
  <2>1. CASE j = n + 1
    <3>1. j - 1 = n /\ n \in 0 .. n
      BY <1>2, <2>1
    <3>2. FieldSize(u[j]) = p
      BY <1>1, <2>1 DEF p
    <3>3. r[j - 1] = s[n] /\ r[j] = s[n] + p
      BY <1>6, <2>1, <3>1
    <3> QED
      BY <3>2, <3>3
  <2>2. CASE j # n + 1
    <3>1. j \in 1 .. n /\ j \in 0 .. n /\ j - 1 \in 0 .. n
      BY <1>2, <2>2
    <3>2. r[j] = s[j] /\ r[j - 1] = s[j - 1] /\ u[j] = t[j]
      BY <1>1, <1>6, <3>1
    <3> QED
      BY <1>5, <3>1, <3>2
  <2> QED
    BY <2>1, <2>2
<1>8. r[0] = 0
  BY <1>2, <1>5, <1>6
<1>9. Sums(u, r)
  BY <1>1, <1>6, <1>7, <1>8 DEF Sums
<1>10. ListSize(u) = r[n + 1]
  BY <1>1, <1>9, ListSizeIs
<1> QED
  BY <1>1, <1>4, <1>6, <1>10 DEF u, p

-----------------------------------------------------------------------------
(* The word is so wide that the largest text, its tag and an amount have a *)
(* size that is a number.                                                  *)

LEMMA WordIsLarge == 2 * Groups + 8192 <= Half
<1>1. /\ Word \in Nat /\ Word >= 15 /\ Word = 7 * Groups - 6
      /\ Groups \in Nat /\ 2 * Groups <= Word - 1
  <2>1. Word >= 9 /\ Word \in Nat /\ Word = 7 * Groups - 6 /\ Groups \in Nat
    BY WordAssumption, WordSizes
  <2>2. Groups >= 3
    BY <2>1
  <2> QED
    BY <2>1, <2>2
<1> DEFINE d == Word - 2
           h == Word - 1
           e == 14
<1>2. /\ d \in Nat /\ h \in Nat /\ h = d + 1 /\ d \in 0 .. Word /\ h \in 1 .. Word
      /\ e \in 0 .. Word /\ h \in e .. Word
  BY <1>1
<1>3. Pow2[h] = 2 * Pow2[d] /\ Pow2[d] \in Nat
  <2>1. h - 1 = d
    BY <1>2
  <2> HIDE DEF d, h
  <2>2. Pow2[h] = 2 * Pow2[h - 1] /\ Pow2[d] \in Nat
    BY <1>2, Powers
  <2> QED
    BY <2>1, <2>2
<1>4. Pow2[h] >= 16384
  <2> DEFINE j == 7
             z == 0
  <2>1. j \in Nat /\ j + 7 <= Word /\ e = j + 7 /\ z \in Nat /\ z + 7 <= Word /\ j = z + 7
    BY <1>1
  <2> HIDE DEF j, z, e
  <2>2. Pow2[j + 7] = 128 * Pow2[j] /\ Pow2[z + 7] = 128 * Pow2[z]
    BY <2>1, SevenBits
  <2>3. Pow2[z] = 1
    BY Powers DEF z
  <2>4. Pow2[e] = 16384
    BY <2>1, <2>2, <2>3
  <2> HIDE DEF h
  <2>5. Pow2[e] <= Pow2[h]
    BY <1>2, PowersGrow
  <2>6. Pow2[h] \in Nat
    BY <1>2, Powers
  <2> QED
    BY <2>4, <2>5, <2>6
<1>5. Pow2[d] >= d + 1
  <2> DEFINE Good == {n \in 0 .. d : Pow2[n] >= n + 1}
  <2>1. \A n \in 1 .. d : n \in 1 .. Word /\ n - 1 \in 0 .. Word
    BY <1>1
  <2> HIDE DEF d
  <2>2. 0 \in Good
    BY <1>2, Powers
  <2>3. ASSUME NEW n \in 1 .. d, n - 1 \in Good PROVE n \in Good
    <3>3. n \in 0 .. d /\ n \in Nat /\ n >= 1 /\ (n - 1) + 1 = n
      BY <1>2
    <3>1. Pow2[n] = 2 * Pow2[n - 1] /\ Pow2[n - 1] >= n
      <4>1. Pow2[n] = 2 * Pow2[n - 1]
        BY <2>1, Powers
      <4>2. Pow2[n - 1] >= (n - 1) + 1
        BY <2>3
      <4> QED
        BY <3>3, <4>1, <4>2
    <3>2. Pow2[n - 1] \in Nat
      BY <2>1, Powers
    <3> DEFINE q == Pow2[n - 1]
    <3>4. q \in Nat /\ q >= n /\ Pow2[n] = 2 * q
      BY <3>1, <3>2
    <3> HIDE DEF q
    <3>5. 2 * q >= n + 1
      BY <3>1, <3>3, <3>4
    <3> QED
      BY <3>3, <3>4, <3>5
  <2>4. \A n \in 0 .. d : n \in Good
    <3> HIDE DEF Good
    <3> QED
      BY <1>2, <2>2, <2>3, Iterations
  <2>5. d \in 0 .. d
    BY <1>2
  <2> QED
    BY <2>4, <2>5
<1>6. Half = Pow2[h]
  BY DEF Half
<1> DEFINE q == Pow2[d]
<1>7. q \in Nat /\ q >= d + 1 /\ Half = 2 * q /\ Half >= 16384 /\ d + 1 = Word - 1
  BY <1>1, <1>3, <1>4, <1>5, <1>6
<1> HIDE DEF q, d
<1> QED
  BY <1>1, <1>7

(* What an amount is written with.                                         *)
LEMMA DigitsSpell ==
    ASSUME NEW a \in Amounts
    PROVE  /\ Digits(a) \in Content /\ Digits(a) # <<>> /\ Len(Digits(a)) < 128
           /\ Digits(a) \in DOMAIN NumberOf /\ NumberOf[Digits(a)] = a
<1>1. CASE a = <<>>
  <2> DEFINE z == <<48>>
  <2>1. Digits(a) = z
    BY <1>1 DEF Digits
  <2>2. z \in Seq(Byte) /\ Len(z) = 1 /\ z # <<>>
    BY DEF Byte
  <2>3. z \in DOMAIN NumberOf /\ NumberOf[z] = <<>>
    BY NumberAssumption
  <2> HIDE DEF z
  <2>4. z \in Content /\ Len(z) < 128
    BY <2>2, WordSizes DEF Content
  <2> HIDE DEF z
  <2> DEFINE g == Digits(a)
  <2>5. g = z
    BY <2>1
  <2> HIDE DEF g
  <2>6. g \in Content /\ g # <<>> /\ Len(g) < 128 /\ g \in DOMAIN NumberOf /\ NumberOf[g] = a
    BY <1>1, <2>2, <2>3, <2>4, <2>5
  <2> QED
    BY <2>6 DEF g
<1>2. CASE a # <<>>
  <2>1. Digits(a) = a
    BY <1>2 DEF Digits
  <2>2. a \in Content /\ Len(a) < 128 /\ a \in DOMAIN NumberOf /\ NumberOf[a] = a
    BY <1>2 DEF Amounts
  <2> QED
    BY <1>2, <2>1, <2>2
<1> QED
  BY <1>1, <1>2

-----------------------------------------------------------------------------
(* What a message holds, and the size of it.                               *)

EmbSize(of, x) ==
    CASE of = "Coin"   -> CoinSize(x)
      [] of = "Params" -> ParamsSize(x)
      [] of = "KVPair" -> KVPairSize(x)

TextValues(of) == {x \in [FieldNames(of) -> Content] : of = "Coin" => x.amount \in Amounts}
Emb(of) == {x \in TextValues(of) : EmbSize(of, x) \in Size /\ (of # "Coin" => EmbSize(of, x) < Half)}
Values(f) ==
    CASE f.type = "text"    -> Content
      [] f.type = "strings" -> Seq(Content)
      [] f.type = "uint"    -> Size
      [] f.type = "msg"     -> Emb(f.of)
      [] f.type = "msgs"    -> Seq(Emb(f.of))

LEMMA TextSizes ==
    ASSUME NEW s \in Content
    PROVE  /\ Len(s) \in Size /\ TextSize(s) \in Nat
           /\ TextSize(s) <= FieldSize(Len(s)) /\ Len(s) <= TextSize(s)
<1> DEFINE l == Len(s)
<1>1. l \in Nat /\ l < Half
  BY DEF Content
<1>2. TextSize(s) = IF l > 0 THEN FieldSize(l) ELSE 0
  BY DEF TextSize
<1> HIDE DEF l
<1>3. l \in Size
  BY <1>1, WordSizes DEF Size
<1>4. FieldSize(l) \in Nat /\ FieldSize(l) >= l + 2
  BY <1>3, FieldSizes
<1>5. TextSize(s) \in Nat /\ TextSize(s) <= FieldSize(l) /\ l <= TextSize(s)
  BY <1>1, <1>2, <1>4
<1> QED
  BY <1>3, <1>5 DEF l

(* A coin has a size, however large its denom.                             *)
LEMMA CoinFits ==
    ASSUME NEW x \in TextValues("Coin")
    PROVE  EmbSize("Coin", x) \in Size
<1> DEFINE d == Digits(x.amount)
           l == Len(x.denom)
           n == Len(d)
           p == TextSize(x.denom)
           q == FieldSize(n)
<1>1. x.denom \in Content /\ x.amount \in Amounts
  BY SmallTables DEF TextValues
<1>2. EmbSize("Coin", x) = p + q
  BY DEF EmbSize, CoinSize
<1>3. d \in Content /\ n < 128
  BY <1>1, DigitsSpell
<1>4. l \in Size /\ p \in Nat /\ p <= FieldSize(l)
  BY <1>1, TextSizes
<1>5. l \in Nat /\ l < Half
  BY <1>1 DEF Content
<1> HIDE DEF p, l, d
<1>6. n \in Size /\ n \in Nat
  <2>1. n \in Size
    BY <1>3, TextSizes
  <2> QED
    BY <2>1, FieldSizes
<1> HIDE DEF n
<1>7. FieldSize(l) = 1 + l + Sov(l) /\ q = 1 + n + Sov(n)
  BY DEF FieldSize
<1>8. /\ Sov(l) \in Nat /\ Sov(l) <= Groups /\ Sov(n) \in Nat /\ Sov(n) <= Groups
  BY <1>4, <1>6, SovOfBits, SovWithin DEF Size
<1> DEFINE s == Sov(l)
           t == Sov(n)
<1>9. /\ s \in Nat /\ s <= Groups /\ t \in Nat /\ t <= Groups
      /\ p <= 1 + l + s /\ q = 1 + n + t
  BY <1>4, <1>7, <1>8
<1> HIDE DEF s, t, q
<1>10. p + q \in Nat /\ p + q <= 130 + Half + 2 * Groups
  BY <1>3, <1>4, <1>5, <1>6, <1>9, WordSizes
<1>11. p + q <= Uint64 - 1 /\ p + q \in Nat
  BY <1>10, WordSizes, WordIsLarge
<1> QED
  BY <1>2, <1>11, WordSizes DEF Size

LEMMA EmbSizes ==
    ASSUME NEW k \in Embedded, NEW x \in TextValues(k)
    PROVE  EmbSize(k, x) \in Nat
<1>1. CASE k = "Coin"
  <2>1. EmbSize("Coin", x) \in Size
    BY <1>1, CoinFits
  <2> QED
    BY <1>1, <2>1, WordSizes DEF Size
<1>2. CASE k = "KVPair"
  <2>1. x.key \in Content /\ x.value \in Content
    BY <1>2, SmallTables DEF TextValues
  <2>2. TextSize(x.key) \in Nat /\ TextSize(x.value) \in Nat
    BY <2>1, TextSizes
  <2> QED
    BY <1>2, <2>2 DEF EmbSize, KVPairSize
<1>3. CASE k = "Params"
  <2>1. /\ x.sysnames_pkgpath \in Content /\ x.chain_domain \in Content
        /\ x.default_deposit \in Content /\ x.storage_price \in Content
        /\ x.storage_fee_collector \in Content
    BY <1>3, ParamsTable DEF TextValues, ParamNames
  <2>2. /\ TextSize(x.sysnames_pkgpath) \in Nat /\ TextSize(x.chain_domain) \in Nat
        /\ TextSize(x.default_deposit) \in Nat /\ TextSize(x.storage_price) \in Nat
        /\ TextSize(x.storage_fee_collector) \in Nat
    BY <2>1, TextSizes
  <2> QED
    BY <1>3, <2>2 DEF EmbSize, ParamsSize
<1> QED
  BY <1>1, <1>2, <1>3 DEF Embedded

(* A text stored into an embedded message.                                 *)
LEMMA EmbStores ==
    ASSUME NEW k \in Embedded, NEW x \in TextValues(k), NEW num \in DOMAIN Fields[k],
           NEW f, f = Fields[k][num], NEW v \in Content, f = Amount => v \in Amounts
    PROVE  /\ f.type = "text" /\ Held(x, f, v) \in TextValues(k)
           /\ k # "Coin" => EmbSize(k, Held(x, f, v)) <= EmbSize(k, x) + FieldSize(Len(v))
<1> DEFINE y == Held(x, f, v)
           p == FieldSize(Len(v))
           q == TextSize(v)
<1>1. f.type = "text" /\ f.name \in FieldNames(k)
  BY EmbeddedTables
<1>2. y = [x EXCEPT ![f.name] = v]
  BY <1>1 DEF Held, Store
<1>3. p \in Nat /\ q \in Nat /\ q <= p
  <2>1. Len(v) \in Size /\ q \in Nat /\ q <= p
    BY TextSizes
  <2> QED
    BY <2>1, FieldSizes
<1> HIDE DEF y
<1>4. y \in TextValues(k)
  <2>1. y \in [FieldNames(k) -> Content]
    BY <1>1, <1>2 DEF TextValues
  <2>2. CASE k = "Coin" /\ f.name = "amount"
    <3>1. f = Amount
      BY <2>2, EmbeddedFields DEF Amount
    <3>2. y.amount = v
      BY <1>1, <1>2, <2>2 DEF TextValues
    <3> QED
      BY <2>1, <3>1, <3>2 DEF TextValues
  <2>3. CASE ~(k = "Coin" /\ f.name = "amount")
    <3>1. k = "Coin" => y.amount = x.amount /\ x.amount \in Amounts
      BY <1>2, <2>3, SmallTables DEF TextValues
    <3> QED
      BY <2>1, <3>1 DEF TextValues
  <2> QED
    BY <2>2, <2>3
<1>5. \A n \in FieldNames(k) : y[n] = (IF n = f.name THEN v ELSE x[n]) /\ TextSize(x[n]) \in Nat
  BY <1>1, <1>2, TextSizes DEF TextValues
<1> HIDE DEF p
<1>6. CASE k = "Coin"
  BY <1>1, <1>4, <1>6 DEF y
<1>7. CASE k = "KVPair"
  <2>1. f.name \in {"key", "value"} /\ FieldNames(k) = {"key", "value"}
    BY <1>1, <1>7, SmallTables
  <2>2. TextSize(x.key) \in Nat /\ TextSize(x.value) \in Nat
    BY <1>5, <2>1
  <2>3. /\ TextSize(y.key) = IF f.name = "key" THEN q ELSE TextSize(x.key)
        /\ TextSize(y.value) = IF f.name = "value" THEN q ELSE TextSize(x.value)
    BY <1>5, <2>1
  <2> HIDE DEF q
  <2>4. EmbSize(k, y) = TextSize(y.key) + TextSize(y.value)
        /\ EmbSize(k, x) = TextSize(x.key) + TextSize(x.value)
    BY <1>7 DEF EmbSize, KVPairSize
  <2>5. EmbSize(k, y) <= EmbSize(k, x) + p
    BY <1>3, <2>1, <2>2, <2>3, <2>4
  <2> QED
    BY <1>1, <1>4, <2>5 DEF y, p
<1>8. CASE k = "Params"
  <2>1. f.name \in ParamNames /\ FieldNames(k) = ParamNames
    BY <1>1, <1>8, ParamsTable
  <2>2. /\ TextSize(x.sysnames_pkgpath) \in Nat /\ TextSize(x.chain_domain) \in Nat
        /\ TextSize(x.default_deposit) \in Nat /\ TextSize(x.storage_price) \in Nat
        /\ TextSize(x.storage_fee_collector) \in Nat
    BY <1>5, <2>1 DEF ParamNames
  <2>3. /\ TextSize(y.sysnames_pkgpath) =
              IF f.name = "sysnames_pkgpath" THEN q ELSE TextSize(x.sysnames_pkgpath)
        /\ TextSize(y.chain_domain) = IF f.name = "chain_domain" THEN q ELSE TextSize(x.chain_domain)
        /\ TextSize(y.default_deposit) = IF f.name = "default_deposit" THEN q ELSE TextSize(x.default_deposit)
        /\ TextSize(y.storage_price) = IF f.name = "storage_price" THEN q ELSE TextSize(x.storage_price)
        /\ TextSize(y.storage_fee_collector) =
              IF f.name = "storage_fee_collector" THEN q ELSE TextSize(x.storage_fee_collector)
    BY <1>5, <2>1 DEF ParamNames
  <2> HIDE DEF q
  <2>4. /\ EmbSize(k, y) = TextSize(y.sysnames_pkgpath) + TextSize(y.chain_domain)
              + TextSize(y.default_deposit) + TextSize(y.storage_price) + TextSize(y.storage_fee_collector)
        /\ EmbSize(k, x) = TextSize(x.sysnames_pkgpath) + TextSize(x.chain_domain)
              + TextSize(x.default_deposit) + TextSize(x.storage_price) + TextSize(x.storage_fee_collector)
    BY <1>8 DEF EmbSize, ParamsSize
  <2>5. EmbSize(k, y) <= EmbSize(k, x) + p
    BY <1>3, <2>1, <2>2, <2>3, <2>4 DEF ParamNames
  <2> QED
    BY <1>1, <1>4, <2>5 DEF y, p
<1> QED
  BY <1>6, <1>7, <1>8 DEF Embedded

LEMMA EmptyEmb ==
    ASSUME NEW k \in Embedded
    PROVE  New(k) \in Emb(k) /\ (k # "Coin" => EmbSize(k, New(k)) = 0)
<1> DEFINE x == New(k)
<1>1. x = [n \in FieldNames(k) |-> <<>>]
  BY EmbeddedTables
<1> HIDE DEF x
<1>2. x \in TextValues(k)
  <2>1. k = "Coin" => x.amount = <<>>
    BY <1>1, SmallTables
  <2>2. <<>> \in Amounts
    <3>1. Len(<<>>) = 0
      OBVIOUS
    <3> QED
      BY <3>1, EmptyText DEF Amounts
  <2> QED
    BY <1>1, <2>1, <2>2, EmptyText DEF TextValues
<1>3. TextSize(<<>>) = 0
  BY DEF TextSize
<1>4. k # "Coin" => EmbSize(k, x) = 0
  <2>1. CASE k = "Coin"
    BY <2>1
  <2>2. CASE k = "KVPair"
    <3>1. x.key = <<>> /\ x.value = <<>>
      BY <1>1, <2>2, SmallTables
    <3> QED
      BY <1>3, <2>2, <3>1 DEF EmbSize, KVPairSize
  <2>3. CASE k = "Params"
    <3>1. /\ x.sysnames_pkgpath = <<>> /\ x.chain_domain = <<>>
          /\ x.default_deposit = <<>> /\ x.storage_price = <<>>
          /\ x.storage_fee_collector = <<>>
      BY <1>1, <2>3, ParamsTable DEF ParamNames
    <3> QED
      BY <1>3, <2>3, <3>1 DEF EmbSize, ParamsSize
  <2> QED
    BY <2>1, <2>2, <2>3 DEF Embedded
<1>5. EmbSize(k, x) \in Size
  <2>1. 0 \in Size
    BY WordSizes DEF Size
  <2>2. k = "Coin" => EmbSize(k, x) \in Size
    BY <1>2, CoinFits
  <2> QED
    BY <1>4, <2>1, <2>2
<1>6. x \in Emb(k)
  BY <1>2, <1>4, <1>5, WordSizes DEF Emb
<1> QED
  BY <1>4, <1>6 DEF x

(* The entries of an embedded message are texts.                           *)
LEMMA EmbEntry ==
    ASSUME NEW k \in Embedded, NEW e \in Priced(k), NEW x \in TextValues(k)
    PROVE  /\ e[2] \in Content /\ Held(x, e[1], e[2]) \in TextValues(k)
           /\ k # "Coin" => EmbSize(k, Held(x, e[1], e[2])) <= EmbSize(k, x) + EntryCost(e)
<1>1. PICK num \in DOMAIN Fields[k] : e[1] = Fields[k][num]
  BY DEF Priced, Entries
<1> DEFINE f == Fields[k][num]
<1>2. f.type = "text"
  BY EmbeddedTables
<1>3. e[2] \in Content /\ e[1] = f /\ (f = Amount => e[2] \in Amounts)
  BY <1>1, <1>2 DEF Priced
<1>4. k # "Coin" => EntryCost(e) = FieldSize(Len(e[2]))
  <2>1. k # "Coin" => f # Amount
    BY TablesDeclare, NoAmount DEF Embedded
  <2> HIDE DEF f
  <2> QED
    BY <1>2, <1>3, <2>1 DEF EntryCost
<1> HIDE DEF f
<1>5. Held(x, f, e[2]) \in TextValues(k)
      /\ (k # "Coin" => EmbSize(k, Held(x, f, e[2])) <= EmbSize(k, x) + FieldSize(Len(e[2])))
  <2> DEFINE v == e[2]
  <2>1. v \in Content /\ (f = Amount => v \in Amounts)
    BY <1>3
  <2> HIDE DEF v
  <2>2. Held(x, f, v) \in TextValues(k)
        /\ (k # "Coin" => EmbSize(k, Held(x, f, v)) <= EmbSize(k, x) + FieldSize(Len(v)))
    BY <2>1, EmbStores DEF f
  <2> QED
    BY <2>2 DEF v
<1> QED
  BY <1>3, <1>4, <1>5

LEMMA TextsHeldExist ==
    ASSUME NEW k \in Embedded, NEW old \in TextValues(k), NEW u \in Seq(Priced(k))
    PROVE  \E h : TextsHeld(old, u, Len(u), h)
<1> DEFINE n == Len(u)
           S == TextValues(k)
           step == [j \in 1 .. n |-> [x \in S |-> Held(x, u[j][1], u[j][2])]]
<1>1. n \in Nat /\ old \in S
  OBVIOUS
<1>2. \A j \in 1 .. n : \A x \in S : Held(x, u[j][1], u[j][2]) \in S
  <2> SUFFICES ASSUME NEW j \in 1 .. n, NEW x \in S PROVE Held(x, u[j][1], u[j][2]) \in S
    OBVIOUS
  <2> DEFINE e == u[j]
  <2>1. e \in Priced(k)
    BY ElementOfSeq
  <2> HIDE DEF e
  <2>2. Held(x, e[1], e[2]) \in TextValues(k)
    BY <2>1, EmbEntry
  <2> QED
    BY <2>2 DEF e
<1> HIDE DEF n, S
<1>3. step \in [1 .. n -> [S -> S]] /\ \A j \in 1 .. n : \A x \in S : step[j][x] = Held(x, u[j][1], u[j][2])
  BY <1>2
<1> HIDE DEF step
<1>4. PICK h : ForwardLoop(h, n, S, old, step)
  BY <1>1, <1>3, Forwards
<1>5. h \in [0 .. n -> S] /\ h[0] = old /\ \A j \in 1 .. n : h[j] = step[j][h[j - 1]]
  BY <1>4 DEF ForwardLoop
<1>6. ASSUME NEW j \in 0 .. n
      PROVE  h[j] = IF j = 0 THEN old ELSE Held(h[j - 1], u[j][1], u[j][2])
  <2>1. CASE j = 0
    BY <1>5, <2>1
  <2>2. CASE j # 0
    <3>1. j \in 1 .. n /\ j - 1 \in 0 .. n
      BY <1>1, <2>2
    <3>2. h[j - 1] \in S
      BY <1>5, <3>1
    <3> QED
      BY <1>3, <1>5, <2>2, <3>1, <3>2
  <2> QED
    BY <2>1, <2>2
<1>7. h = [j \in 0 .. n |-> h[j]]
  BY <1>5
<1>8. TextsHeld(old, u, n, h)
  BY <1>6, <1>7 DEF TextsHeld
<1> QED
  BY <1>8 DEF n

(* What an embedded message is decoded into grows by the bytes decoded at  *)
(* most.                                                                   *)
LEMMA EmbDecodes ==
    ASSUME NEW k \in Embedded, NEW old \in TextValues(k), NEW v \in Content,
           k # "Coin" => EmbSize(k, old) + Len(v) < Half, Ok(UnmarshalTexts(k, old, v))
    PROVE  \E x \in Emb(k) : /\ UnmarshalTexts(k, old, v) = Done(x)
                             /\ k # "Coin" => EmbSize(k, x) <= EmbSize(k, old) + Len(v)
<1> DEFINE loop == Loop(k, v)
           u == loop.stores
           n == Len(u)
           l == Len(v)
           s == EmbSize(k, old)
           h == CHOOSE h : TextsHeld(old, u, n, h)
<1>1. UnmarshalTexts(k, old, v) = IF Ok(loop) THEN Done(h[n]) ELSE Failed(loop.err)
  BY DEF UnmarshalTexts, HoldTexts, TextsHeld
<1>2. Affords(k, u, l) /\ v \in Seq(Byte) /\ l \in Nat
  BY LoopCosts DEF Content
<1>3. u \in Seq(Priced(k)) /\ n \in Nat
  BY <1>2 DEF Affords
<1>4. PICK c : Pays(u, l, c)
  BY <1>2 DEF Affords
<1>5. TextsHeld(old, u, n, h)
  BY <1>3, TextsHeldExist
<1>6. s \in Nat /\ (k # "Coin" => s + l < Half)
  BY EmbSizes
<1> HIDE DEF h, loop
<1>7. h[0] = old /\ \A j \in 1 .. n : h[j] = Held(h[j - 1], u[j][1], u[j][2])
  <2>1. 0 \in 0 .. n /\ \A j \in 1 .. n : j \in 0 .. n /\ j # 0
    BY <1>3
  <2> QED
    BY <1>5, <2>1 DEF TextsHeld
<1>8. /\ c \in [0 .. n -> Nat] /\ c[0] <= l
      /\ \A j \in 1 .. n : c[j] + EntryCost(u[j]) <= c[j - 1]
  BY <1>4 DEF Pays
<1> HIDE DEF n, l, s, u
<1> DEFINE Good == {j \in 0 .. n : /\ h[j] \in TextValues(k)
                                   /\ k # "Coin" => EmbSize(k, h[j]) + c[j] <= s + l}
<1>9. 0 \in Good
  <2>1. 0 \in 0 .. n
    BY <1>3
  <2>2. c[0] \in Nat
    BY <1>8, <2>1
  <2>3. s + c[0] <= s + l
    BY <1>2, <1>6, <1>8, <2>2
  <2> QED
    BY <1>7, <2>1, <2>3 DEF s
<1>10. ASSUME NEW j \in 1 .. n, j - 1 \in Good PROVE j \in Good
  <2> DEFINE e == u[j]
             x == h[j - 1]
             y == Held(x, e[1], e[2])
  <2>1. e \in Priced(k)
    BY <1>3, ElementOfSeq DEF n
  <2>2. x \in TextValues(k) /\ (k # "Coin" => EmbSize(k, x) + c[j - 1] <= s + l)
    BY <1>10
  <2>3. h[j] = y
    BY <1>7
  <2>4. c[j] + EntryCost(e) <= c[j - 1]
    BY <1>8
  <2>5. j \in 0 .. n /\ j - 1 \in 0 .. n
    BY <1>3
  <2>6. c[j] \in Nat /\ c[j - 1] \in Nat
    BY <1>8, <2>5
  <2> HIDE DEF e, x
  <2>7. y \in TextValues(k) /\ (k # "Coin" => EmbSize(k, y) <= EmbSize(k, x) + EntryCost(e))
    BY <2>1, <2>2, EmbEntry
  <2> HIDE DEF y
  <2>8. EmbSize(k, x) \in Nat /\ EmbSize(k, y) \in Nat /\ EntryCost(e) \in Nat
    BY <2>1, <2>2, <2>7, EmbSizes, PricedCosts
  <2>9. k # "Coin" => EmbSize(k, y) + c[j] <= s + l
    BY <1>2, <1>6, <2>2, <2>4, <2>6, <2>7, <2>8, SMTT(30)
  <2> QED
    BY <2>3, <2>5, <2>7, <2>9
<1>11. n \in Good
  <2>1. \A j \in 0 .. n : j \in Good
    <3> HIDE DEF Good
    <3> QED
      BY <1>3, <1>9, <1>10, Iterations
  <2>2. n \in 0 .. n
    BY <1>3
  <2> QED
    BY <2>1, <2>2
<1> DEFINE x == h[n]
<1>12. x \in TextValues(k) /\ (k # "Coin" => EmbSize(k, x) + c[n] <= s + l) /\ c[n] \in Nat
  BY <1>8, <1>11
<1> HIDE DEF x
<1>13. EmbSize(k, x) \in Nat
  BY <1>12, EmbSizes
<1>14. k # "Coin" => EmbSize(k, x) <= s + l /\ EmbSize(k, x) < Half
  BY <1>2, <1>6, <1>12, <1>13, WordSizes
<1>15. x \in Emb(k)
  <2>1. k # "Coin" => EmbSize(k, x) \in Size
    BY <1>13, <1>14, WordSizes DEF Size
  <2>2. k = "Coin" => EmbSize(k, x) \in Size
    BY <1>12, CoinFits
  <2> QED
    BY <1>12, <1>14, <2>1, <2>2 DEF Emb
<1>16. UnmarshalTexts(k, old, v) = Done(x)
  <2>1. Ok(loop)
    <3> SUFFICES ASSUME ~Ok(loop) PROVE FALSE
      OBVIOUS
    <3>1. UnmarshalTexts(k, old, v) = Failed(loop.err)
      BY <1>1
    <3> QED
      BY <3>1 DEF Failed, Ok
  <2> QED
    BY <1>1, <2>1 DEF x
<1> QED
  BY <1>14, <1>15, <1>16 DEF s, l

(* The elements of a repeated field.                                       *)
Repeated(f) == Declares(f) /\ f.type \in {"strings", "msgs"}
Elements(f) == IF f.type = "strings" THEN Content ELSE Emb(f.of)
ElementSize(f, x) == IF f.type = "strings" THEN Len(x) ELSE EmbSize(f.of, x)
SizesOf(f, l) == [j \in DOMAIN l |-> ElementSize(f, l[j])]

PieceSize(f, x) ==
    CASE f.type = "text" -> TextSize(x)
      [] f.type = "uint" -> UintSize(x)
      [] f.type = "msg"  -> FieldSize(EmbSize(f.of, x))
      [] OTHER           -> ListSize(SizesOf(f, x))

LEMMA EmbIsSized ==
    ASSUME NEW k \in Embedded, NEW x \in Emb(k)
    PROVE  x \in TextValues(k) /\ EmbSize(k, x) \in Size /\ (k # "Coin" => EmbSize(k, x) < Half)
  BY DEF Emb

LEMMA ElementSizes ==
    ASSUME NEW f, Repeated(f), NEW x \in Elements(f)
    PROVE  ElementSize(f, x) \in Size
<1>1. CASE f.type = "strings"
  BY <1>1, TextSizes DEF Elements, ElementSize
<1>2. CASE f.type # "strings"
  <2>1. f.of \in Embedded /\ x \in Emb(f.of)
    BY <1>2 DEF Repeated, Declares, Elements
  <2>2. EmbSize(f.of, x) \in Size
    BY <2>1, EmbIsSized
  <2> QED
    BY <1>2, <2>2 DEF ElementSize
<1> QED
  BY <1>1, <1>2

LEMMA SizesOfList ==
    ASSUME NEW f, Repeated(f), NEW l \in Seq(Elements(f))
    PROVE  /\ SizesOf(f, l) \in Seq(Size) /\ Len(SizesOf(f, l)) = Len(l)
           /\ \A j \in 1 .. Len(l) : SizesOf(f, l)[j] = ElementSize(f, l[j])
<1> DEFINE t == SizesOf(f, l)
           n == Len(l)
<1>1. n \in Nat /\ t = [j \in 1 .. n |-> ElementSize(f, l[j])]
  BY DEF SizesOf
<1>2. \A j \in 1 .. n : ElementSize(f, l[j]) \in Size
  <2> SUFFICES ASSUME NEW j \in 1 .. n PROVE ElementSize(f, l[j]) \in Size
    OBVIOUS
  <2> DEFINE x == l[j]
  <2>1. x \in Elements(f)
    BY ElementOfSeq
  <2> HIDE DEF x
  <2>2. ElementSize(f, x) \in Size
    BY <2>1, ElementSizes
  <2> QED
    BY <2>2 DEF x
<1> HIDE DEF t, n
<1>3. t \in [1 .. n -> Size]
  BY <1>1, <1>2
<1>4. t \in Seq(Size) /\ Len(t) = n /\ \A j \in 1 .. n : t[j] = ElementSize(f, l[j])
  BY <1>1, <1>3
<1> QED
  BY <1>4 DEF t, n

LEMMA SizesOfMore ==
    ASSUME NEW f, Repeated(f), NEW l \in Seq(Elements(f)), NEW x \in Elements(f)
    PROVE  /\ Append(l, x) \in Seq(Elements(f))
           /\ ListSize(SizesOf(f, Append(l, x))) = ListSize(SizesOf(f, l)) + FieldSize(ElementSize(f, x))
<1> DEFINE m == Append(l, x)
           n == Len(l)
           t == SizesOf(f, l)
           z == ElementSize(f, x)
           s == SizesOf(f, m)
           r == Append(t, z)
<1>1. n \in Nat /\ m \in Seq(Elements(f)) /\ Len(m) = n + 1 /\ m[n + 1] = x /\ \A j \in 1 .. n : m[j] = l[j]
  BY AppendProperties
<1>2. t \in Seq(Size) /\ Len(t) = n /\ \A j \in 1 .. n : t[j] = ElementSize(f, l[j])
  BY SizesOfList
<1>3. z \in Size
  BY ElementSizes
<1> HIDE DEF m
<1>4. s \in Seq(Size) /\ Len(s) = n + 1 /\ \A j \in 1 .. n + 1 : s[j] = ElementSize(f, m[j])
  BY <1>1, SizesOfList
<1> HIDE DEF t, z, s
<1>5. r \in Seq(Size) /\ Len(r) = n + 1 /\ r[n + 1] = z /\ \A j \in 1 .. n : r[j] = t[j]
  BY <1>2, <1>3, AppendProperties
<1>6. ListSize(r) = ListSize(t) + FieldSize(z)
  BY <1>2, <1>3, ListSizeMore
<1> HIDE DEF r, n
<1>7. \A j \in 1 .. n + 1 : s[j] = r[j]
  <2> SUFFICES ASSUME NEW j \in 1 .. n + 1 PROVE s[j] = r[j]
    OBVIOUS
  <2>1. CASE j = n + 1
    BY <1>1, <1>4, <1>5, <2>1 DEF z
  <2>2. CASE j # n + 1
    <3>1. j \in 1 .. n
      BY <1>1, <2>2
    <3> QED
      BY <1>1, <1>2, <1>4, <1>5, <3>1
  <2> QED
    BY <2>1, <2>2
<1>8. s = r
  BY <1>4, <1>5, <1>7
<1> QED
  BY <1>1, <1>6, <1>8 DEF m, t, z, s

LEMMA PieceSizes ==
    ASSUME NEW f, Declares(f), NEW x \in Values(f)
    PROVE  PieceSize(f, x) \in Nat
<1>1. CASE f.type = "text"
  BY <1>1, TextSizes DEF PieceSize, Values
<1>2. CASE f.type = "uint"
  <2>1. x \in Size /\ Sov(x) \in Nat
    BY <1>2, SovOfBits DEF Values, Size
  <2> QED
    BY <1>2, <2>1 DEF PieceSize, UintSize
<1>3. CASE f.type = "msg"
  <2>1. f.of \in Embedded /\ x \in Emb(f.of)
    BY <1>3 DEF Declares, Values
  <2>2. EmbSize(f.of, x) \in Size
    BY <2>1, EmbIsSized
  <2> QED
    BY <1>3, <2>2, FieldSizes DEF PieceSize
<1>4. CASE f.type \in {"strings", "msgs"}
  <2>1. Repeated(f) /\ x \in Seq(Elements(f))
    BY <1>4 DEF Repeated, Values, Elements
  <2>2. SizesOf(f, x) \in Seq(Size)
    BY <2>1, SizesOfList
  <2>3. PieceSize(f, x) = ListSize(SizesOf(f, x))
    BY <1>4 DEF PieceSize
  <2> QED
    BY <2>2, <2>3, ListSizes
<1> QED
  BY <1>1, <1>2, <1>3, <1>4 DEF Declares

(* A value that was read, put into its field: the field holds a value and  *)
(* is larger by what was read at most, if it is no list of coins.          *)
CoinList(f) == f.type = "msgs" /\ f.of = "Coin"
ReadFor(f, x, v) ==
    /\ Declares(f) /\ f # Amount /\ x \in Values(f)
    /\ IF f.type = "uint" THEN v \in Size ELSE v \in Content
    /\ f.type = "msg" => PieceSize(f, x) + EntryCost(<<f, v>>) < Half
    /\ Ok(Decoded(f, x, v))

LEMMA ValueIsHeld ==
    ASSUME NEW f, NEW x, NEW v, ReadFor(f, x, v), NEW y, y = Store(f, x, Decoded(f, x, v).msg)
    PROVE  /\ y \in Values(f)
           /\ ~CoinList(f) => PieceSize(f, y) <= PieceSize(f, x) + EntryCost(<<f, v>>)
<1> DEFINE e == <<f, v>>
           cost == EntryCost(e)
           d == Decoded(f, x, v)
           s == PieceSize(f, x)
<1>1. /\ Declares(f) /\ f # Amount /\ x \in Values(f)
      /\ (f.type = "msg" => s + cost < Half) /\ Ok(d) /\ e[1] = f /\ e[2] = v
  BY DEF ReadFor
<1>2. s \in Nat
  BY <1>1, PieceSizes
<1>3. f.type \notin {"msg", "msgs"} => d = Done(v) /\ d.msg = v
  BY DEF Decoded, Done
<1>4. y = IF f.type \in {"strings", "msgs"} THEN Append(x, d.msg) ELSE d.msg
  BY DEF Store
<1> HIDE DEF d, e
<1>5. CASE f.type = "uint"
  <2>1. v \in Size /\ y = v
    BY <1>3, <1>4, <1>5 DEF ReadFor
  <2>2. cost = 1 + Sov(v) /\ Sov(v) \in Nat
    BY <1>1, <1>5, <2>1, SovOfBits DEF EntryCost, Size
  <2>3. PieceSize(f, y) <= cost /\ PieceSize(f, y) \in Nat
    BY <1>5, <2>1, <2>2 DEF PieceSize, UintSize
  <2> HIDE DEF s, cost
  <2>4. PieceSize(f, y) <= s + cost
    BY <1>2, <2>2, <2>3
  <2>5. y \in Values(f)
    BY <1>5, <2>1 DEF Values
  <2> QED
    BY <2>4, <2>5 DEF s, cost, e
<1>6. CASE f.type # "uint"
  <2> DEFINE l == Len(v)
             p == Sov(l)
  <2>1. v \in Content /\ l \in Size /\ l \in Nat /\ p \in Nat
    <3>1. v \in Content
      BY <1>6 DEF ReadFor
    <3>2. l \in Size
      BY <3>1, TextSizes
    <3> QED
      BY <3>1, <3>2, SovOfBits, FieldSizes DEF Size
  <2>2. cost = FieldSize(l) /\ cost = 1 + l + p
    BY <1>1, <1>6 DEF EntryCost, FieldSize
  <2> HIDE DEF s, cost, l, p
  <2>3. CASE f.type = "text"
    <3>1. y = v
      BY <1>3, <1>4, <2>3
    <3>2. PieceSize(f, y) <= cost /\ PieceSize(f, y) \in Nat
      BY <2>1, <2>2, <2>3, <3>1, TextSizes DEF PieceSize, l
    <3>3. PieceSize(f, y) <= s + cost
      BY <1>2, <2>1, <2>2, <3>2
    <3>4. y \in Values(f)
      BY <2>1, <2>3, <3>1 DEF Values
    <3> QED
      BY <3>3, <3>4 DEF s, cost, e
  <2>4. CASE f.type = "strings"
    <3>1. Repeated(f) /\ x \in Seq(Elements(f)) /\ v \in Elements(f)
      BY <1>1, <2>1, <2>4 DEF Repeated, Values, Elements
    <3>2. y = Append(x, v)
      BY <1>3, <1>4, <2>4
    <3>3. y \in Seq(Elements(f))
          /\ ListSize(SizesOf(f, y)) = ListSize(SizesOf(f, x)) + FieldSize(ElementSize(f, v))
      BY <3>1, <3>2, SizesOfMore
    <3>4. ElementSize(f, v) = l /\ PieceSize(f, y) = ListSize(SizesOf(f, y))
          /\ s = ListSize(SizesOf(f, x))
      BY <2>4 DEF ElementSize, PieceSize, l, s
    <3>5. PieceSize(f, y) = s + cost
      BY <2>2, <3>3, <3>4
    <3>6. PieceSize(f, y) <= s + cost
      BY <1>2, <2>1, <2>2, <3>5
    <3>7. y \in Values(f)
      BY <2>4, <3>3 DEF Values, Elements
    <3> QED
      BY <3>6, <3>7 DEF s, cost, e
  <2>5. CASE f.type = "msgs"
    <3> DEFINE k == f.of
               new == New(k)
    <3>1. k \in Embedded /\ d = UnmarshalTexts(k, new, v)
      BY <1>1, <2>5 DEF Declares, Decoded, d
    <3>2. new \in Emb(k) /\ (k # "Coin" => EmbSize(k, new) = 0)
      BY <3>1, EmptyEmb
    <3> HIDE DEF new
    <3>3. new \in TextValues(k)
      BY <3>2 DEF Emb
    <3>4. k # "Coin" => EmbSize(k, new) + Len(v) < Half
      <4>1. l < Half
        BY <2>1 DEF Content, l
      <4> QED
        BY <2>1, <3>2, <4>1 DEF l
    <3> HIDE DEF k
    <3>5. PICK z \in Emb(k) : UnmarshalTexts(k, new, v) = Done(z)
                              /\ (k # "Coin" => EmbSize(k, z) <= EmbSize(k, new) + Len(v))
      BY <1>1, <2>1, <3>1, <3>3, <3>4, EmbDecodes
    <3>6. d.msg = z
      BY <3>1, <3>5 DEF Done
    <3>7. y = Append(x, z)
      BY <1>4, <2>5, <3>6
    <3>8. Repeated(f) /\ x \in Seq(Elements(f)) /\ z \in Elements(f)
      BY <1>1, <2>5, <3>5 DEF Repeated, Values, Elements, k
    <3>9. y \in Seq(Elements(f))
          /\ ListSize(SizesOf(f, y)) = ListSize(SizesOf(f, x)) + FieldSize(ElementSize(f, z))
      BY <3>7, <3>8, SizesOfMore
    <3>10. ElementSize(f, z) = EmbSize(k, z) /\ PieceSize(f, y) = ListSize(SizesOf(f, y))
           /\ s = ListSize(SizesOf(f, x))
      BY <2>5 DEF ElementSize, PieceSize, k, s
    <3>11. EmbSize(k, z) \in Size /\ (k # "Coin" => EmbSize(k, z) <= l)
      <4>1. EmbSize(k, z) \in Size
        BY <3>1, <3>5, EmbIsSized
      <4>2. k # "Coin" => EmbSize(k, z) <= 0 + l
        BY <3>2, <3>5 DEF l
      <4> QED
        BY <2>1, <4>1, <4>2
    <3>12. (k # "Coin" => FieldSize(EmbSize(k, z)) <= FieldSize(l)) /\ FieldSize(EmbSize(k, z)) \in Nat
      BY <2>1, <3>11, FieldSizes
    <3>13. k # "Coin" => PieceSize(f, y) <= s + cost
      BY <1>2, <2>1, <2>2, <3>9, <3>10, <3>12
    <3>14. y \in Values(f)
      BY <2>5, <3>9 DEF Values, Elements
    <3>15. ~CoinList(f) => k # "Coin"
      BY <2>5 DEF CoinList, k
    <3> QED
      BY <3>13, <3>14, <3>15 DEF s, cost, e
  <2>6. CASE f.type = "msg"
    <3> DEFINE k == f.of
               q == EmbSize(k, x)
    <3>1. k \in Embedded /\ k # "Coin" /\ d = UnmarshalTexts(k, x, v) /\ x \in Emb(k)
      BY <1>1, <2>6 DEF Declares, Decoded, d, Values
    <3> HIDE DEF k
    <3>2. x \in TextValues(k) /\ q \in Size
      BY <3>1, EmbIsSized
    <3>3. s = FieldSize(q) /\ s = 1 + q + Sov(q)
      BY <2>6 DEF PieceSize, FieldSize, s, k
    <3> HIDE DEF q
    <3>4. q \in Nat /\ Sov(q) \in Nat
      BY <3>2, SovOfBits, FieldSizes DEF Size
    <3>5. q + l < Half /\ q + l \in Nat
      BY <1>1, <1>2, <2>1, <2>2, <2>6, <3>3, <3>4, WordSizes
    <3>6. PICK z \in Emb(k) : UnmarshalTexts(k, x, v) = Done(z)
                              /\ EmbSize(k, z) <= q + l
      <4>1. EmbSize(k, x) + Len(v) < Half
        BY <3>5 DEF q, l
      <4> QED
        BY <1>1, <2>1, <3>1, <3>2, <4>1, EmbDecodes DEF q, l
    <3>7. y = z
      <4>1. d.msg = z
        BY <3>1, <3>6 DEF Done
      <4> QED
        BY <1>4, <2>6, <4>1
    <3> DEFINE r == EmbSize(k, z)
               w == q + l
    <3>8. r \in Size /\ r <= w /\ r \in Nat /\ PieceSize(f, y) = FieldSize(r)
      <4>1. r \in Size
        BY <3>1, <3>6, EmbIsSized
      <4>2. PieceSize(f, y) = FieldSize(r)
        BY <2>6, <3>7 DEF PieceSize, k
      <4> QED
        BY <3>6, <4>1, <4>2, FieldSizes
    <3>9. w \in Size
      BY <3>5, WordSizes DEF Size
    <3>10. Sov(w) <= Sov(q) + Sov(l)
      <4>1. q + l < Uint64 /\ l + q < Uint64 /\ l + q = q + l
        BY <2>1, <3>4, <3>5, WordSizes
      <4>2. CASE q <= l
        BY <2>1, <3>2, <4>1, <4>2, SovOfSum DEF Size
      <4>3. CASE ~(q <= l)
        <5>1. l <= q
          BY <2>1, <3>4, <4>3
        <5>2. Sov(l + q) <= Sov(l) + Sov(q)
          BY <2>1, <3>2, <4>1, <5>1, SovOfSum DEF Size
        <5>3. Sov(l) + Sov(q) = Sov(q) + Sov(l)
          BY <2>1, <3>4 DEF p
        <5> QED
          BY <4>1, <5>2, <5>3
      <4> QED
        BY <4>2, <4>3
    <3> HIDE DEF r
    <3>11. FieldSize(r) <= FieldSize(w) /\ FieldSize(r) \in Nat /\ FieldSize(w) = 1 + w + Sov(w)
           /\ Sov(w) \in Nat
      BY <3>8, <3>9, FieldSizes, SovOfBits DEF FieldSize, Size
    <3>12. PieceSize(f, y) <= s + cost
      BY <2>1, <2>2, <3>3, <3>4, <3>8, <3>10, <3>11 DEF p
    <3>13. y \in Values(f)
      BY <2>6, <3>6, <3>7 DEF Values, k
    <3> QED
      BY <3>12, <3>13 DEF s, cost, e
  <2> QED
    BY <1>1, <1>6, <2>3, <2>4, <2>5, <2>6 DEF Declares
<1> QED
  BY <1>5, <1>6

(* A message, its fields in the order of their numbers (there are six at   *)
(* most), and its size.                                                    *)
Typed(k, m) ==
    /\ m = [n \in FieldNames(k) |-> m[n]]
    /\ \A num \in DOMAIN Fields[k] : m[Fields[k][num].name] \in Values(Fields[k][num])
Piece(k, m, num) ==
    IF num \in DOMAIN Fields[k] THEN PieceSize(Fields[k][num], m[Fields[k][num].name]) ELSE 0
Total(k, m) ==
    Piece(k, m, 1) + Piece(k, m, 2) + Piece(k, m, 3)
    + Piece(k, m, 4) + Piece(k, m, 5) + Piece(k, m, 6)

LEMMA PiecesAreParts ==
    ASSUME NEW k \in DOMAIN Fields, NEW m, Typed(k, m)
    PROVE  /\ \A num \in 1 .. 6 : Piece(k, m, num) \in Nat /\ Piece(k, m, num) <= Total(k, m)
           /\ Total(k, m) \in Nat
<1>1. ASSUME NEW num \in 1 .. 6 PROVE Piece(k, m, num) \in Nat
  <2>1. CASE num \in DOMAIN Fields[k]
    <3>1. Declares(Fields[k][num]) /\ m[Fields[k][num].name] \in Values(Fields[k][num])
      BY <2>1, TablesDeclare DEF Typed
    <3>2. PieceSize(Fields[k][num], m[Fields[k][num].name]) \in Nat
      BY <3>1, PieceSizes
    <3> QED
      BY <2>1, <3>2 DEF Piece
  <2>2. CASE num \notin DOMAIN Fields[k]
    BY <2>2 DEF Piece
  <2> QED
    BY <2>1, <2>2
<1>2. \A num \in 1 .. 6 : num = 1 \/ num = 2 \/ num = 3 \/ num = 4 \/ num = 5 \/ num = 6
  OBVIOUS
<1>3. /\ Piece(k, m, 1) \in Nat /\ Piece(k, m, 2) \in Nat /\ Piece(k, m, 3) \in Nat
      /\ Piece(k, m, 4) \in Nat /\ Piece(k, m, 5) \in Nat /\ Piece(k, m, 6) \in Nat
  BY <1>1
<1>4. Total(k, m) \in Nat
  BY <1>3 DEF Total
<1>5. ASSUME NEW num \in 1 .. 6 PROVE Piece(k, m, num) <= Total(k, m)
  BY <1>2, <1>3 DEF Total
<1> QED
  BY <1>1, <1>4, <1>5

(* Another value in one field.                                             *)
Changed(k, m, num, y, held) ==
    /\ k \in DOMAIN Fields /\ Typed(k, m)
    /\ num \in DOMAIN Fields[k] /\ y \in Values(Fields[k][num])
    /\ held = [m EXCEPT ![Fields[k][num].name] = y]

LEMMA TotalChanges ==
    ASSUME NEW k, NEW m, NEW num, NEW y, NEW held, Changed(k, m, num, y, held)
    PROVE  /\ Typed(k, held)
           /\ Total(k, held) + PieceSize(Fields[k][num], m[Fields[k][num].name])
              = Total(k, m) + PieceSize(Fields[k][num], y)
<1> DEFINE f == Fields[k][num]
<1>1. /\ k \in DOMAIN Fields /\ Typed(k, m) /\ num \in DOMAIN Fields[k]
      /\ y \in Values(f) /\ num \in 1 .. 6 /\ held = [m EXCEPT ![f.name] = y]
  BY TablesDeclare DEF Changed
<1>2. f.name \in FieldNames(k) /\ \A n \in DOMAIN Fields[k] : Fields[k][n].name \in FieldNames(k)
  BY <1>1 DEF FieldNames, ToSet
<1>3. m = [n \in FieldNames(k) |-> m[n]]
  BY <1>1 DEF Typed
<1>4. held[f.name] = y /\ held = [n \in FieldNames(k) |-> held[n]]
      /\ \A n \in FieldNames(k) : n # f.name => held[n] = m[n]
  BY <1>1, <1>2, <1>3
<1>5. ASSUME NEW n \in DOMAIN Fields[k], n # num
      PROVE  held[Fields[k][n].name] = m[Fields[k][n].name]
  <2>1. Fields[k][n].name # f.name /\ Fields[k][n].name \in FieldNames(k)
    BY <1>1, <1>2, <1>5, NamesDiffer
  <2> QED
    BY <1>4, <2>1
<1>6. ASSUME NEW n \in DOMAIN Fields[k]
      PROVE  held[Fields[k][n].name] \in Values(Fields[k][n])
  <2>1. CASE n = num
    BY <1>1, <1>4, <2>1
  <2>2. CASE n # num
    BY <1>1, <1>5, <2>2 DEF Typed
  <2> QED
    BY <2>1, <2>2
<1>7. Typed(k, held)
  BY <1>4, <1>6 DEF Typed
<1>8. Piece(k, held, num) = PieceSize(f, y) /\ Piece(k, m, num) = PieceSize(f, m[f.name])
  BY <1>1, <1>4 DEF Piece
<1>9. ASSUME NEW n \in 1 .. 6, n # num PROVE Piece(k, held, n) = Piece(k, m, n)
  <2>1. CASE n \in DOMAIN Fields[k]
    BY <1>5, <1>9, <2>1 DEF Piece
  <2>2. CASE n \notin DOMAIN Fields[k]
    BY <2>2 DEF Piece
  <2> QED
    BY <2>1, <2>2
<1>10. \A n \in 1 .. 6 : Piece(k, held, n) \in Nat /\ Piece(k, m, n) \in Nat
  BY <1>1, <1>7, PiecesAreParts
<1> HIDE DEF f
<1> DEFINE p(n) == Piece(k, held, n)
           q(n) == Piece(k, m, n)
<1>11. Total(k, held) = p(1) + p(2) + p(3) + p(4) + p(5) + p(6)
       /\ Total(k, m) = q(1) + q(2) + q(3) + q(4) + q(5) + q(6)
  BY DEF Total
<1>12. num = 1 \/ num = 2 \/ num = 3 \/ num = 4 \/ num = 5 \/ num = 6
  BY <1>1
<1>13. Total(k, held) + q(num) = Total(k, m) + p(num)
  <2>1. \A n \in {1, 2, 3, 4, 5, 6} : p(n) \in Nat /\ q(n) \in Nat /\ (n # num => p(n) = q(n))
    BY <1>9, <1>10
  <2> HIDE DEF p, q
  <2> QED
    BY <1>11, <1>12, <2>1
<1> QED
  BY <1>7, <1>8, <1>13 DEF f

(* A message nothing was read into.                                        *)
LEMMA ZeroIsHeld ==
    ASSUME NEW k \in DOMAIN Fields, NEW num \in DOMAIN Fields[k]
    PROVE  New(k)[Fields[k][num].name] = Zero(Fields[k][num])
<1> DEFINE f == Fields[k][num]
           g == CHOOSE g \in ToSet(Fields[k]) : g.name = f.name
<1>1. f \in ToSet(Fields[k]) /\ f.name \in FieldNames(k)
  BY DEF ToSet, FieldNames
<1>2. g \in ToSet(Fields[k]) /\ g.name = f.name
  BY <1>1
<1> HIDE DEF g
<1>3. PICK x \in DOMAIN Fields[k] : g = Fields[k][x]
  BY <1>2 DEF ToSet
<1>4. g = f
  BY <1>2, <1>3, NamesDiffer
<1> QED
  BY <1>1, <1>4 DEF New, g

LEMMA ZeroSizes ==
    ASSUME NEW f, Declares(f)
    PROVE  /\ Zero(f) \in Values(f)
           /\ PieceSize(f, Zero(f)) = IF f.type = "msg" THEN 2 ELSE 0
<1>1. CASE f.type = "text"
  <2>1. Zero(f) = <<>> /\ TextSize(<<>>) = 0
    BY <1>1 DEF Zero, TextSize
  <2> QED
    BY <1>1, <2>1, EmptyText DEF Values, PieceSize
<1>2. CASE f.type = "uint"
  <2>1. Zero(f) = 0 /\ UintSize(0) = 0 /\ 0 \in Size
    BY <1>2, WordSizes DEF Zero, UintSize, Size
  <2> QED
    BY <1>2, <2>1 DEF Values, PieceSize
<1>3. CASE f.type = "msg"
  <2>1. f.of \in Embedded /\ f.of # "Coin"
    BY <1>3 DEF Declares
  <2>2. Zero(f) = New(f.of)
    BY <1>3, <2>1, EmbeddedTables DEF Zero
  <2>3. New(f.of) \in Emb(f.of) /\ EmbSize(f.of, New(f.of)) = 0
    BY <2>1, EmptyEmb
  <2> QED
    BY <1>3, <2>2, <2>3, FieldSizes DEF Values, PieceSize
<1>4. CASE f.type \in {"strings", "msgs"}
  <2> DEFINE l == <<>>
             t == SizesOf(f, l)
  <2>1. Zero(f) = l /\ l \in Seq(Elements(f)) /\ Len(l) = 0 /\ Repeated(f)
    BY <1>4 DEF Zero, Repeated
  <2> HIDE DEF l
  <2>2. t \in Seq(Size) /\ Len(t) = 0
    BY <2>1, SizesOfList
  <2> HIDE DEF t
  <2>3. t = <<>>
    BY <2>2
  <2>4. ListSize(t) = 0
    BY <2>3, ListSizes
  <2> QED
    BY <1>4, <2>1, <2>4 DEF Values, PieceSize, Elements, t
<1> QED
  BY <1>1, <1>2, <1>3, <1>4 DEF Declares

LEMMA OneMsg ==
    \A k \in DOMAIN Fields : \A x, y \in DOMAIN Fields[k] :
        Fields[k][x].type = "msg" /\ Fields[k][y].type = "msg" => x = y
<1> DEFINE Fine(t) == \A x, y \in DOMAIN t : t[x].type = "msg" /\ t[y].type = "msg" => x = y
<1>1. /\ \A n : Text(n).type = "text" /\ Strings(n).type = "strings" /\ Uint(n).type = "uint"
      /\ \A n, of : Msg(n, of).type = "msg" /\ Msgs(n, of).type = "msgs"
  BY DEF Text, Strings, Uint, Msg, Msgs
<1>2. Fine(ModuleFields) /\ Fine(MsgCallResponseFields)
      /\ Fine(MsgRunResponseFields) /\ Fine(QueryInfoRequestFields)
      /\ Fine(QueryInfoResponseFields) /\ Fine(QueryRealmStorageRequestFields)
      /\ Fine(QueryRealmStorageResponseFields) /\ Fine(QueryEvalResponseFields)
  BY DEF ModuleFields, MsgCallResponseFields, MsgRunResponseFields,
     QueryInfoRequestFields, QueryInfoResponseFields, QueryRealmStorageRequestFields,
     QueryRealmStorageResponseFields, QueryEvalResponseFields
<1>3. Fine(MsgUpdateParamsResponseFields) /\ Fine(MsgAddPackageResponseFields)
      /\ Fine(QueryParamsRequestFields)
  BY DEF MsgUpdateParamsResponseFields, MsgAddPackageResponseFields, QueryParamsRequestFields
<1>4. Fine(KVPairFields) /\ Fine(MsgUpdateParamsFields) /\ Fine(QueryParamsResponseFields)
  BY <1>1 DEF KVPairFields, MsgUpdateParamsFields, QueryParamsResponseFields
<1>5. Fine(ParamsFields)
  BY <1>1 DEF ParamsFields
<1>6. Fine(GenesisStateFields)
  BY <1>1 DEF GenesisStateFields
<1>7. Fine(MsgAddPackageFields) /\ Fine(MsgRunFields)
  BY <1>1 DEF MsgAddPackageFields, MsgRunFields
<1>8. Fine(MsgCallFields)
  BY <1>1 DEF MsgCallFields
<1>9. Fine(QueryEvalRequestFields) /\ Fine(QueryRenderRequestFields)
  BY <1>1 DEF QueryEvalRequestFields, QueryRenderRequestFields
<1>11. Fine(CoinFields)
  BY <1>1 DEF CoinFields, Amount
<1> HIDE DEF Fine
<1>10. \A k \in DOMAIN Fields : Fine(Fields[k])
  BY <1>2, <1>3, <1>4, <1>5, <1>6, <1>7, <1>8, <1>9, <1>11 DEF Fields
<1> QED
  BY <1>10 DEF Fine

(* A message with an embedded message holds no coins.                      *)
LEMMA CoinsOrMsg ==
    ASSUME NEW k \in DOMAIN Fields, NEW num \in DOMAIN Fields[k]
    PROVE  /\ Fields[k][num].type = "msg" => k \notin WithCoins
           /\ k \notin WithCoins => ~CoinList(Fields[k][num])
<1> DEFINE Free(t) == \A x \in DOMAIN t : t[x].type # "msg"
           Fine(t) == \A x \in DOMAIN t : t[x].type = "msgs" => t[x].of # "Coin"
<1>1. /\ \A n : Text(n).type = "text" /\ Strings(n).type = "strings" /\ Uint(n).type = "uint"
      /\ \A n, of : Msg(n, of).type = "msg" /\ Msgs(n, of).type = "msgs" /\ Msgs(n, of).of = of
  BY DEF Text, Strings, Uint, Msg, Msgs
<1>2. Free(CoinFields)
  BY <1>1 DEF CoinFields, Amount
<1>3. Free(MsgAddPackageFields) /\ Free(MsgRunFields)
  BY <1>1 DEF MsgAddPackageFields, MsgRunFields
<1>4. Free(MsgCallFields)
  BY <1>1 DEF MsgCallFields
<1>5. Fine(ModuleFields) /\ Fine(MsgCallResponseFields)
      /\ Fine(MsgRunResponseFields) /\ Fine(QueryInfoRequestFields)
      /\ Fine(QueryInfoResponseFields) /\ Fine(QueryRealmStorageRequestFields)
      /\ Fine(QueryRealmStorageResponseFields) /\ Fine(QueryEvalResponseFields)
  BY <1>1 DEF ModuleFields, MsgCallResponseFields, MsgRunResponseFields,
     QueryInfoRequestFields, QueryInfoResponseFields, QueryRealmStorageRequestFields,
     QueryRealmStorageResponseFields, QueryEvalResponseFields
<1>6. Fine(MsgUpdateParamsResponseFields) /\ Fine(MsgAddPackageResponseFields)
      /\ Fine(QueryParamsRequestFields)
  BY DEF MsgUpdateParamsResponseFields, MsgAddPackageResponseFields, QueryParamsRequestFields
<1>7. Fine(KVPairFields) /\ Fine(MsgUpdateParamsFields) /\ Fine(QueryParamsResponseFields)
  BY <1>1 DEF KVPairFields, MsgUpdateParamsFields, QueryParamsResponseFields
<1>8. Fine(ParamsFields)
  BY <1>1 DEF ParamsFields
<1>9. Fine(GenesisStateFields)
  BY <1>1 DEF GenesisStateFields
<1>10. Fine(QueryEvalRequestFields) /\ Fine(QueryRenderRequestFields)
  BY <1>1 DEF QueryEvalRequestFields, QueryRenderRequestFields
<1> HIDE DEF Free, Fine
<1>11. Free(Fields[k]) \/ (Fine(Fields[k]) /\ k # "Coin")
  BY <1>2, <1>3, <1>4, <1>5, <1>6, <1>7, <1>8, <1>9, <1>10 DEF Fields
<1>12. Fine(Fields[k]) /\ k # "Coin" => k \notin WithCoins
  <2> SUFFICES ASSUME Fine(Fields[k]), k # "Coin", k \in WithCoins PROVE FALSE
    OBVIOUS
  <2>1. PICK f \in ToSet(Fields[k]) : f.type = "msgs" /\ f.of = "Coin"
    BY DEF WithCoins
  <2>2. PICK x \in DOMAIN Fields[k] : f = Fields[k][x]
    BY DEF ToSet
  <2> QED
    BY <2>1, <2>2 DEF Fine
<1>13. Fields[k][num].type = "msg" => k \notin WithCoins
  <2>1. Fields[k][num].type = "msg" => ~Free(Fields[k])
    BY DEF Free
  <2> QED
    BY <1>11, <1>12, <2>1
<1>14. k \notin WithCoins => ~CoinList(Fields[k][num])
  <2> SUFFICES ASSUME CoinList(Fields[k][num]) PROVE k \in WithCoins
    OBVIOUS
  <2>1. Fields[k][num] \in ToSet(Fields[k])
    BY DEF ToSet
  <2> QED
    BY <2>1 DEF CoinList, WithCoins
<1> QED
  BY <1>13, <1>14

LEMMA NewIsSmall ==
    ASSUME NEW k \in DOMAIN Fields
    PROVE  Typed(k, New(k)) /\ Total(k, New(k)) <= 2
<1> DEFINE m == New(k)
           p(n) == Piece(k, m, n)
<1>1. m = [n \in FieldNames(k) |-> m[n]]
  BY DEF New
<1>2. \A num \in DOMAIN Fields[k] : m[Fields[k][num].name] = Zero(Fields[k][num]) /\ Declares(Fields[k][num])
  BY ZeroIsHeld, TablesDeclare
<1> HIDE DEF m
<1>3. \A num \in DOMAIN Fields[k] : m[Fields[k][num].name] \in Values(Fields[k][num])
  BY <1>2, ZeroSizes
<1>4. Typed(k, m)
  BY <1>1, <1>3 DEF Typed
<1> DEFINE IsMsg(n) == n \in DOMAIN Fields[k] /\ Fields[k][n].type = "msg"
<1>5. ASSUME NEW n \in 1 .. 6 PROVE p(n) = IF IsMsg(n) THEN 2 ELSE 0
  <2>1. CASE n \in DOMAIN Fields[k]
    BY <1>2, <2>1, ZeroSizes DEF Piece
  <2>2. CASE n \notin DOMAIN Fields[k]
    BY <2>2 DEF Piece
  <2> QED
    BY <2>1, <2>2
<1>6. \A x, y \in 1 .. 6 : IsMsg(x) /\ IsMsg(y) => x = y
  BY OneMsg
<1>7. Total(k, m) = p(1) + p(2) + p(3) + p(4) + p(5) + p(6)
  BY DEF Total
<1> HIDE DEF IsMsg, p
<1>8. Total(k, m) <= 2
  BY <1>5, <1>6, <1>7
<1> QED
  BY <1>4, <1>8 DEF m

(* One more value read: the message, if it holds no coins, is larger by    *)
(* what was read at most.                                                  *)
LEMMA HeldCosts ==
    ASSUME NEW k \in DOMAIN Fields \ {"Coin"}, NEW m, Typed(k, m), NEW e \in Priced(k),
           k \notin WithCoins => Total(k, m) + EntryCost(e) < Half,
           Ok(HoldOne(Done(m), e[1], e[2]))
    PROVE  \E held : /\ HoldOne(Done(m), e[1], e[2]) = Done(held)
                     /\ Typed(k, held)
                     /\ k \notin WithCoins => Total(k, held) <= Total(k, m) + EntryCost(e)
<1>1. PICK num \in DOMAIN Fields[k] : e[1] = Fields[k][num]
  BY DEF Priced, Entries
<1> DEFINE f == Fields[k][num]
           v == e[2]
           x == m[f.name]
           d == Decoded(f, x, v)
           y == Store(f, x, d.msg)
           held == [m EXCEPT ![f.name] = y]
           cost == EntryCost(e)
           r == HoldOne(Done(m), f, v)
<1>2. e = <<f, v>>
  BY <1>1 DEF Priced, Entries
<1>3. r = IF Ok(d) THEN Done(held) ELSE d
  <2>1. Ok(Done(m)) /\ Done(m).msg = m
    BY DEF Ok, Done
  <2>2. r = HeldIf(m, f, d)
    BY <2>1 DEF HoldOne
  <2>3. Held(m, f, d.msg) = held
    BY DEF Held
  <2> QED
    BY <2>2, <2>3 DEF HeldIf
<1>4. Ok(r)
  BY <1>1
<1> HIDE DEF r
<1>5. Ok(d) /\ r = Done(held)
  BY <1>3, <1>4
<1>6. Declares(f) /\ f # Amount /\ x \in Values(f) /\ num \in 1 .. 6
  BY TablesDeclare, NoAmount DEF Typed
<1> DEFINE NoCoins == k \notin WithCoins
<1>18. (f.type = "msg" => NoCoins) /\ (NoCoins => ~CoinList(f))
  BY CoinsOrMsg
<1>7. PieceSize(f, x) <= Total(k, m) /\ PieceSize(f, x) \in Nat /\ Total(k, m) \in Nat
  BY <1>6, PiecesAreParts DEF Piece
<1>8. cost \in Nat /\ (NoCoins => Total(k, m) + cost < Half)
  BY PricedCosts
<1> HIDE DEF cost, NoCoins
<1>9. f.type = "msg" => PieceSize(f, x) + cost < Half
  BY <1>7, <1>8, <1>18, WordSizes
<1>10. IF f.type = "uint" THEN v \in Size ELSE v \in Content
  BY <1>1 DEF Priced, Size
<1>11. ReadFor(f, x, v)
  <2>1. f.type = "msg" => PieceSize(f, x) + EntryCost(<<f, v>>) < Half
    BY <1>2, <1>9 DEF cost
  <2> HIDE DEF f, x, v, d
  <2> QED
    BY <1>5, <1>6, <1>10, <2>1 DEF ReadFor, d
<1> HIDE DEF y
<1>12. y \in Values(f) /\ (NoCoins => PieceSize(f, y) <= PieceSize(f, x) + cost)
  <2>1. y \in Values(f) /\ (~CoinList(f) => PieceSize(f, y) <= PieceSize(f, x) + EntryCost(<<f, v>>))
    <3>1. y = Store(f, x, Decoded(f, x, v).msg)
      BY DEF y
    <3> HIDE DEF f, x, v, d
    <3> QED
      BY <1>11, <3>1, ValueIsHeld
  <2> QED
    BY <1>2, <1>18, <2>1 DEF cost
<1>13. Changed(k, m, num, y, held)
  BY <1>12 DEF Changed
<1> HIDE DEF held
<1>14. /\ Typed(k, held)
       /\ Total(k, held) + PieceSize(f, x) = Total(k, m) + PieceSize(f, y)
  <2>1. /\ Typed(k, held)
        /\ Total(k, held) + PieceSize(Fields[k][num], m[Fields[k][num].name])
           = Total(k, m) + PieceSize(Fields[k][num], y)
    <3> HIDE DEF f, x
    <3> QED
      BY <1>13, TotalChanges
  <2> QED
    BY <2>1
<1>15. Total(k, held) \in Nat /\ PieceSize(f, y) \in Nat
  BY <1>6, <1>12, <1>14, PiecesAreParts, PieceSizes
<1> HIDE DEF f, x
<1>16. NoCoins => Total(k, held) <= Total(k, m) + cost
  BY <1>7, <1>8, <1>12, <1>14, <1>15
<1>17. HoldOne(Done(m), e[1], e[2]) = Done(held)
  BY <1>1, <1>5 DEF r, f, v
<1> QED
  BY <1>14, <1>16, <1>17 DEF cost, NoCoins

(* A message without coins that is accepted is no larger than what was     *)
(* read, but for the tag and the length of an embedded message.            *)
LEMMA UnmarshalCosts ==
    ASSUME NEW k \in DOMAIN Fields \ {"Coin"}, NEW b \in Seq(Byte), Len(b) + 2 < Half,
           Ok(Unmarshal(k, b))
    PROVE  \E m : /\ Unmarshal(k, b) = Done(m) /\ Typed(k, m)
                  /\ k \notin WithCoins => Total(k, m) <= Len(b) + 2
<1> DEFINE NoCoins == k \notin WithCoins
<1> DEFINE loop == Loop(k, b)
           u == loop.stores
           n == Len(u)
           l == Len(b)
           after == CHOOSE after : Holds(k, u, n, after)
           result == after[n]
<1>1. Unmarshal(k, b) = IF Ok(result) /\ ~Ok(loop) THEN Failed(loop.err) ELSE result
  BY DEF Unmarshal, Hold, Holds
<1>2. l \in Nat /\ l + 2 < Half
  OBVIOUS
<1>3. Affords(k, u, l)
  <2>1. Len(b) < Half
    BY <1>2, WordSizes
  <2> QED
    BY <2>1, LoopCosts
<1>4. u \in Seq(Priced(k)) /\ n \in Nat
  BY <1>3 DEF Affords
<1>5. PICK c : Pays(u, l, c)
  BY <1>3 DEF Affords
<1>6. Holds(k, u, n, after)
  BY <1>4, HoldExists
<1> HIDE DEF after, loop
<1>7. after[0] = Done(New(k)) /\ \A j \in 1 .. n : after[j] = HoldOne(after[j - 1], u[j][1], u[j][2])
  <2>1. 0 \in 0 .. n /\ \A j \in 1 .. n : j \in 0 .. n /\ j # 0
    BY <1>4
  <2> QED
    BY <1>6, <2>1 DEF Holds
<1>8. /\ c \in [0 .. n -> Nat] /\ c[0] <= l
      /\ \A j \in 1 .. n : c[j] + EntryCost(u[j]) <= c[j - 1]
  BY <1>5 DEF Pays
<1> HIDE DEF n, u, l
<1> DEFINE Bounded(j) == \E m : /\ after[j] = Done(m) /\ Typed(k, m)
                                /\ NoCoins => Total(k, m) + c[j] <= l + 2
           Good == {j \in 0 .. n : Ok(after[j]) => Bounded(j)}
<1>9. 0 \in Good
  <2> DEFINE m == New(k)
  <2>1. 0 \in 0 .. n /\ c[0] \in Nat
    BY <1>4, <1>8
  <2>2. Typed(k, m) /\ Total(k, m) <= 2 /\ after[0] = Done(m)
    BY <1>7, NewIsSmall
  <2> HIDE DEF m
  <2>3. Total(k, m) \in Nat
    BY <2>2, PiecesAreParts
  <2>4. Total(k, m) + c[0] <= l + 2
    BY <1>2, <1>8, <2>1, <2>2, <2>3
  <2> QED
    BY <2>1, <2>2, <2>4
<1>10. ASSUME NEW j \in 1 .. n, j - 1 \in Good PROVE j \in Good
  <2> DEFINE e == u[j]
             last == after[j - 1]
  <2>1. j \in 0 .. n /\ j - 1 \in 0 .. n
    BY <1>4
  <2> SUFFICES ASSUME Ok(after[j]) PROVE Bounded(j)
    BY <2>1
  <2>2. after[j] = HoldOne(last, e[1], e[2])
    BY <1>7
  <2>3. e \in Priced(k)
    BY <1>4, ElementOfSeq DEF n
  <2>4. c[j] + EntryCost(e) <= c[j - 1]
    BY <1>8
  <2>5. c[j] \in Nat /\ c[j - 1] \in Nat
    BY <1>8, <2>1
  <2> HIDE DEF e, last
  <2>6. Ok(last)
    BY <2>2 DEF HoldOne
  <2>7. Bounded(j - 1)
    BY <1>10, <2>6 DEF last
  <2>8. PICK m : last = Done(m) /\ Typed(k, m) /\ (NoCoins => Total(k, m) + c[j - 1] <= l + 2)
    BY <2>7 DEF last
  <2>9. Total(k, m) \in Nat /\ EntryCost(e) \in Nat
    BY <2>3, <2>8, PiecesAreParts, PricedCosts
  <2>10. NoCoins => Total(k, m) + EntryCost(e) < Half
    BY <1>2, <2>4, <2>5, <2>8, <2>9, WordSizes
  <2>11. PICK held : /\ HoldOne(Done(m), e[1], e[2]) = Done(held)
                     /\ Typed(k, held) /\ (NoCoins => Total(k, held) <= Total(k, m) + EntryCost(e))
    BY <2>2, <2>3, <2>8, <2>10, HeldCosts
  <2>12. Total(k, held) \in Nat
    BY <2>11, PiecesAreParts
  <2>13. NoCoins => Total(k, held) + c[j] <= l + 2
    BY <1>2, <2>4, <2>5, <2>8, <2>9, <2>11, <2>12, SMTT(30)
  <2> QED
    BY <2>2, <2>8, <2>11, <2>13
<1>11. n \in Good
  <2>1. \A j \in 0 .. n : j \in Good
    <3> HIDE DEF Good
    <3> QED
      BY <1>4, <1>9, <1>10, Iterations
  <2>2. n \in 0 .. n
    BY <1>4
  <2> QED
    BY <2>1, <2>2
<1>12. Unmarshal(k, b) = result /\ Ok(result)
  <2> SUFFICES ASSUME Ok(result) /\ ~Ok(loop) PROVE FALSE
    BY <1>1
  <2>1. Unmarshal(k, b) = Failed(loop.err)
    BY <1>1
  <2> QED
    BY <2>1 DEF Failed, Ok
<1>13. PICK m : /\ after[n] = Done(m) /\ Typed(k, m)
                /\ NoCoins => Total(k, m) + c[n] <= l + 2
  BY <1>11, <1>12
<1>14. c[n] \in Nat /\ Total(k, m) \in Nat
  <2>1. n \in 0 .. n
    BY <1>4
  <2> QED
    BY <1>8, <1>13, <2>1, PiecesAreParts
<1>15. NoCoins => Total(k, m) <= l + 2
  BY <1>2, <1>13, <1>14
<1> QED
  BY <1>12, <1>13, <1>15 DEF l

-----------------------------------------------------------------------------
(* Writing a message.  Behind bytes that decode to what was written before *)
(* comes one field more.                                                   *)

(* The message as far as its first n fields.                               *)
Upto(k, m, n) ==
    [x \in FieldNames(k) |-> IF \E j \in DOMAIN Fields[k] : j <= n /\ Fields[k][j].name = x
                             THEN m[x] ELSE New(k)[x]]

LEMMA UptoEnds ==
    ASSUME NEW k \in DOMAIN Fields, NEW m, m = [x \in FieldNames(k) |-> m[x]],
           NEW n \in Nat, \A j \in DOMAIN Fields[k] : j <= n
    PROVE  Upto(k, m, n) = m /\ Upto(k, m, 0) = New(k)
<1>1. \A x \in FieldNames(k) : \E j \in DOMAIN Fields[k] : Fields[k][j].name = x
  BY DEF FieldNames, ToSet
<1>2. Upto(k, m, n) = m
  BY <1>1 DEF Upto
<1>3. \A j \in DOMAIN Fields[k] : ~(j <= 0)
  BY TablesDeclare
<1>4. New(k) = [x \in FieldNames(k) |-> New(k)[x]]
  BY DEF New
<1>5. Upto(k, m, 0) = New(k)
  <2> DEFINE new == New(k)
  <2>1. Upto(k, m, 0) = [x \in FieldNames(k) |-> new[x]]
    BY <1>3 DEF Upto
  <2> HIDE DEF new
  <2> QED
    BY <1>4, <2>1 DEF new
<1> QED
  BY <1>2, <1>5

LEMMA UptoMore ==
    ASSUME NEW k \in DOMAIN Fields, NEW m, NEW num \in 1 .. 6
    PROVE  /\ Upto(k, m, num - 1) = [x \in FieldNames(k) |-> Upto(k, m, num - 1)[x]]
           /\ num \notin DOMAIN Fields[k] => Upto(k, m, num) = Upto(k, m, num - 1)
           /\ num \in DOMAIN Fields[k] =>
                /\ Fields[k][num].name \in FieldNames(k)
                /\ Upto(k, m, num - 1)[Fields[k][num].name] = Zero(Fields[k][num])
                /\ Upto(k, m, num) = [Upto(k, m, num - 1) EXCEPT ![Fields[k][num].name] =
                                          m[Fields[k][num].name]]
<1> DEFINE T == DOMAIN Fields[k]
           Has(n, x) == \E j \in T : j <= n /\ Fields[k][j].name = x
           u == Upto(k, m, num - 1)
           w == Upto(k, m, num)
<1>1. \A j \in T : j \in 1 .. 6 /\ Fields[k][j].name \in FieldNames(k)
  BY TablesDeclare DEF FieldNames, ToSet
<1>2. /\ u = [x \in FieldNames(k) |-> IF Has(num - 1, x) THEN m[x] ELSE New(k)[x]]
      /\ w = [x \in FieldNames(k) |-> IF Has(num, x) THEN m[x] ELSE New(k)[x]]
  BY DEF Upto
<1> HIDE DEF u, w
<1>3. u = [x \in FieldNames(k) |-> u[x]]
  BY <1>2
<1>4. CASE num \notin T
  <2>1. \A x \in FieldNames(k) : Has(num, x) <=> Has(num - 1, x)
    <3>1. \A j \in T : j <= num <=> j <= num - 1
      BY <1>1, <1>4
    <3> QED
      BY <3>1
  <2> HIDE DEF Has
  <2>2. w = u
    BY <1>2, <2>1
  <2> QED
    BY <1>3, <1>4, <2>2 DEF u, w
<1>5. CASE num \in T
  <2> DEFINE f == Fields[k][num]
  <2>1. f.name \in FieldNames(k)
    BY <1>1, <1>5
  <2>2. ~Has(num - 1, f.name) /\ Has(num, f.name)
    <3>1. \A j \in T : Fields[k][j].name = f.name => j = num
      BY <1>5, NamesDiffer
    <3>2. num <= num /\ ~(num <= num - 1)
      OBVIOUS
    <3> QED
      BY <1>5, <3>1, <3>2
  <2>3. \A x \in FieldNames(k) : x # f.name => (Has(num, x) <=> Has(num - 1, x))
    <3>1. \A j \in T : j # num => (j <= num <=> j <= num - 1)
      BY <1>1
    <3> QED
      BY <3>1
  <2>4. New(k)[f.name] = Zero(f)
    BY <1>5, ZeroIsHeld
  <2> HIDE DEF Has, f
  <2>5. u[f.name] = Zero(f) /\ w[f.name] = m[f.name]
    BY <1>2, <2>1, <2>2, <2>4
  <2>6. \A x \in FieldNames(k) : x # f.name => w[x] = u[x]
    BY <1>2, <2>3
  <2>7. w = [x \in FieldNames(k) |-> w[x]]
    BY <1>2
  <2>8. w = [u EXCEPT ![f.name] = m[f.name]]
    BY <1>3, <2>1, <2>5, <2>6, <2>7
  <2> QED
    BY <1>3, <1>5, <2>1, <2>5, <2>8 DEF u, w, f
<1> QED
  BY <1>4, <1>5

(* A field with data: a text, an amount, an element or an embedded message. *)
Writes(f, data) == data \in Content /\ (f = Amount => data \in DOMAIN NumberOf)
DataBehind(k, b, m, num, data, z) ==
    /\ k \in DOMAIN Fields /\ num \in DOMAIN Fields[k] /\ Fields[k][num].type # "uint"
    /\ Writes(Fields[k][num], data) /\ Decodes(k, b, m)
    /\ Decoded(Fields[k][num], m[Fields[k][num].name], Meaning(Fields[k][num], data)) = Done(z)

LEMMA DataDecodes ==
    ASSUME NEW k, NEW b, NEW m, NEW num, NEW data, NEW z, DataBehind(k, b, m, num, data, z)
    PROVE  Decodes(k, b \o Put(num, data), Held(m, Fields[k][num], z))
<1> DEFINE f == Fields[k][num]
           l == Len(data)
           x == num * 8 + 2
           t == <<x>>
           u == VarintBytes(l)
           p == t \o (u \o data)
           v == Meaning(f, data)
<1>1. /\ k \in DOMAIN Fields /\ num \in DOMAIN Fields[k] /\ f.type # "uint"
      /\ data \in Content /\ (f = Amount => data \in DOMAIN NumberOf)
      /\ Decodes(k, b, m) /\ Decoded(f, m[f.name], v) = Done(z)
  BY DEF DataBehind, Writes
<1> HIDE DEF v
<1>2. num \in 1 .. 6 /\ num \in 1 .. Foreign /\ num \in 0 .. Foreign /\ 2 \in 0 .. 7
  BY <1>1, TablesDeclare DEF Foreign
<1>3. Put(num, data) = p
  BY <1>1, <1>2, PutBytes
<1>4. Varint(t, x)
  <2>1. x \in 0 .. 127
    BY ONLY <1>2
  <2> HIDE DEF x
  <2> QED
    BY <2>1, ByteVarint
<1>5. Tag(t, num, 2)
  <2> HIDE DEF t
  <2> QED
    BY <1>2, <1>4, TagSpelled
<1>6. Varint(u, l)
  <2>1. l \in 0 .. Uint64 - 1
    BY <1>1, WordSizes DEF Content
  <2> QED
    BY <2>1, PlainVarint
<1>7. WireOf(f) = 2
  BY <1>1 DEF WireOf
<1>8. HoldOne(Done(m), f, v) = Done(Held(m, f, z))
  <2>1. Ok(Done(m)) /\ Done(m).msg = m /\ Ok(Done(z)) /\ Done(z).msg = z
    BY DEF Ok, Done
  <2> HIDE DEF f
  <2>2. HoldOne(Done(m), f, v) = HeldIf(m, f, Done(z))
    BY <1>1, <2>1 DEF HoldOne
  <2> QED
    BY <2>1, <2>2 DEF HeldIf
<1> HIDE DEF t, u
<1> DEFINE s == << <<f, v>> >>
<1>9. Means(k, p, s)
  <2>1. Tag(t, num, WireOf(f))
    BY <1>5, <1>7
  <2>2. Delimits(f, num, data, t, u)
    BY <1>1, <1>6, <2>1 DEF Delimits
  <2>3. s \in Seq(Entries(k)) /\ \A next : StoresText(f, data, next) = Reading(s, next)
    <3>1. CASE f = Amount
      <4>1. v = NumberOf[data]
        BY <3>1 DEF v, Meaning
      <4> QED
        BY <1>1, <3>1, <4>1, NumberText
    <3>2. CASE f # Amount
      <4>1. v = data /\ data \in Seq(Byte)
        BY <1>1, <3>2 DEF v, Meaning, Content
      <4> QED
        BY <1>1, <3>2, <4>1, PlainText
    <3> QED
      BY <3>1, <3>2
  <2> HIDE DEF s
  <2>4. \A next : StoresText(f, data, next) = Reading(s, next)
    BY <2>3
  <2> QED
    BY <1>1, <2>2, <2>3, <2>4, TextMeans
<1> HIDE DEF p, f
<1>10. Decodes(k, b \o p, Held(m, f, z))
  BY <1>1, <1>8, <1>9, DecodesField
<1> QED
  BY <1>3, <1>10 DEF f

(* A field with a number.                                                  *)
NumberBehind(k, b, m, num, v) ==
    /\ k \in DOMAIN Fields /\ num \in DOMAIN Fields[k] /\ Fields[k][num].type = "uint"
    /\ v \in Size /\ Decodes(k, b, m)

LEMMA NumberDecodes ==
    ASSUME NEW k, NEW b, NEW m, NEW num, NEW v, NumberBehind(k, b, m, num, v), v # 0
    PROVE  /\ Decodes(k, b \o PutUint(num, v), Held(m, Fields[k][num], v))
           /\ PutUint(num, v) \in Seq(Byte) /\ Len(PutUint(num, v)) = UintSize(v)
<1> DEFINE f == Fields[k][num]
           x == num * 8
           t == <<x>>
           u == VarintBytes(v)
           p == t \o u
<1>1. /\ k \in DOMAIN Fields /\ num \in DOMAIN Fields[k] /\ f.type = "uint"
      /\ v \in Size /\ v \in 0 .. Uint64 - 1 /\ Decodes(k, b, m)
  BY DEF NumberBehind, Size
<1>2. num \in 1 .. 6 /\ num \in 1 .. Foreign /\ num \in 0 .. Foreign /\ 0 \in 0 .. 7
  BY <1>1, TablesDeclare DEF Foreign
<1>3. Varint(u, v) /\ u \in Seq(Byte) /\ Len(u) = Sov(v)
  BY <1>1, PlainVarint, VarintsAreBytes, VarintsSpell
<1>4. Varint(t, x) /\ t \in Seq(Byte) /\ Len(t) = 1
  <2>1. x \in 0 .. 127
    BY ONLY <1>2
  <2> HIDE DEF x
  <2> QED
    BY <2>1, ByteVarint
<1>5. PutUint(num, v) = p
  <2>1. <<>> \in Seq(Byte)
    OBVIOUS
  <2>2. EncodeVarint(v, <<>>) = u \o <<>>
    BY <1>1, <2>1, EncodedVarint
  <2> HIDE DEF u
  <2>3. u \o <<>> = u
    BY <1>3, ConcatEmptySeq
  <2> QED
    BY <2>2, <2>3 DEF PutUint
<1>6. Tag(t, num, 0)
  <2>1. x = num * 8 + 0
    BY <1>2
  <2> HIDE DEF t, x
  <2> QED
    BY <1>2, <1>4, <2>1, TagSpelled
<1>7. HoldOne(Done(m), f, v) = Done(Held(m, f, v))
  <2>1. Ok(Done(m)) /\ Done(m).msg = m /\ Ok(Done(v)) /\ Done(v).msg = v
    BY DEF Ok, Done
  <2> HIDE DEF f
  <2>2. Decoded(f, m[f.name], v) = Done(v)
    BY <1>1 DEF Decoded
  <2>3. HoldOne(Done(m), f, v) = HeldIf(m, f, Done(v))
    BY <2>1, <2>2 DEF HoldOne
  <2> QED
    BY <2>1, <2>3 DEF HeldIf
<1> HIDE DEF t, u
<1>8. Means(k, p, << <<f, v>> >>)
  <2>1. Tag(t, num, WireOf(f))
    BY <1>1, <1>6 DEF WireOf
  <2> QED
    BY <1>1, <1>3, <2>1, UintMeans
<1>9. p \in Seq(Byte) /\ Len(p) = 1 + Sov(v)
  <2>1. p \in Seq(Byte) /\ Len(p) = Len(t) + Len(u)
    BY <1>3, <1>4, Parts
  <2> QED
    BY <1>3, <1>4, <2>1
<1> HIDE DEF p, f
<1>10. Decodes(k, b \o p, Held(m, f, v))
  BY <1>1, <1>7, <1>8, DecodesField
<1>11. UintSize(v) = 1 + Sov(v)
  BY DEF UintSize
<1> QED
  BY <1>5, <1>9, <1>10, <1>11 DEF f

(* l bytes b hold the first n fields of m.                                 *)
WrittenTo(k, m, n, b, l) ==
    /\ k \in DOMAIN Fields /\ b \in Seq(Byte) /\ Len(b) = l
    /\ Decodes(k, b, Upto(k, m, n))

LEMMA NothingWritten ==
    ASSUME NEW k \in DOMAIN Fields, NEW m, m = [x \in FieldNames(k) |-> m[x]]
    PROVE  WrittenTo(k, m, 0, <<>>, 0)
<1>1. Upto(k, m, 0) = New(k)
  <2>1. \A j \in DOMAIN Fields[k] : j <= 6
    BY TablesDeclare
  <2> DEFINE n == 6
  <2>2. n \in Nat /\ \A j \in DOMAIN Fields[k] : j <= n
    BY <2>1
  <2> HIDE DEF n
  <2> QED
    BY <2>2, UptoEnds
<1>2. Decodes(k, <<>>, New(k)) /\ <<>> \in Seq(Byte) /\ Len(<<>>) = 0
  BY DecodesNothing
<1> QED
  BY <1>1, <1>2 DEF WrittenTo

(* The next field is written as p, which is s bytes.                       *)
NextPart(k, m, prev, num, b, l) ==
    /\ WrittenTo(k, m, prev, b, l) /\ num \in 1 .. 6 /\ prev = num - 1

LEMMA PartLeftOut ==
    ASSUME NEW k, NEW m, NEW prev, NEW num, NEW b, NEW l, NextPart(k, m, prev, num, b, l),
           \/ num \notin DOMAIN Fields[k]
           \/ m[Fields[k][num].name] = Zero(Fields[k][num])
    PROVE  WrittenTo(k, m, num, b \o <<>>, l + 0)
<1>1. /\ k \in DOMAIN Fields /\ b \in Seq(Byte) /\ Len(b) = l /\ num \in 1 .. 6
      /\ Decodes(k, b, Upto(k, m, num - 1))
  BY DEF NextPart, WrittenTo
<1>2. Upto(k, m, num) = Upto(k, m, num - 1)
  <2> DEFINE u == Upto(k, m, num - 1)
             f == Fields[k][num]
  <2>1. CASE num \notin DOMAIN Fields[k]
    BY <1>1, <2>1, UptoMore
  <2>2. CASE num \in DOMAIN Fields[k]
    <3>1. m[f.name] = Zero(f)
      BY <2>2
    <3>2. u = [x \in FieldNames(k) |-> u[x]] /\ f.name \in FieldNames(k) /\ u[f.name] = Zero(f)
          /\ Upto(k, m, num) = [u EXCEPT ![f.name] = m[f.name]]
      BY <1>1, <2>2, UptoMore
    <3> HIDE DEF u, f
    <3>3. [u EXCEPT ![f.name] = Zero(f)] = u
      BY <3>2
    <3> QED
      BY <3>1, <3>2, <3>3 DEF u
  <2> QED
    BY <2>1, <2>2
<1>3. b \o <<>> = b /\ l + 0 = l
  BY <1>1, ConcatEmptySeq
<1> QED
  BY <1>1, <1>2, <1>3 DEF WrittenTo

(* Data put at once: into a field that holds nothing yet.                  *)
DataNext(k, m, prev, num, b, l, data) ==
    /\ NextPart(k, m, prev, num, b, l)
    /\ num \in DOMAIN Fields[k] /\ Fields[k][num].type \in {"text", "msg"}
    /\ Writes(Fields[k][num], data)
    /\ Decoded(Fields[k][num], Zero(Fields[k][num]), Meaning(Fields[k][num], data))
       = Done(m[Fields[k][num].name])

LEMMA DataWritten ==
    ASSUME NEW k, NEW m, NEW prev, NEW num, NEW b, NEW l, NEW data,
           DataNext(k, m, prev, num, b, l, data)
    PROVE  WrittenTo(k, m, num, b \o Put(num, data), l + FieldSize(Len(data)))
<1> DEFINE f == Fields[k][num]
           x == m[f.name]
           u == Upto(k, m, num - 1)
           p == Put(num, data)
<1>1. /\ k \in DOMAIN Fields /\ b \in Seq(Byte) /\ Len(b) = l /\ num \in 1 .. 6
      /\ Decodes(k, b, u) /\ num \in DOMAIN Fields[k] /\ f.type \in {"text", "msg"}
      /\ Writes(f, data) /\ data \in Content /\ Decoded(f, Zero(f), Meaning(f, data)) = Done(x)
  BY DEF DataNext, NextPart, WrittenTo, Writes
<1>2. u[f.name] = Zero(f) /\ Upto(k, m, num) = [u EXCEPT ![f.name] = x]
  BY <1>1, UptoMore
<1>3. p \in Seq(Byte) /\ Len(p) = FieldSize(Len(data))
  <2>1. num \in 1 .. Foreign
    BY <1>1 DEF Foreign
  <2> QED
    BY <1>1, <2>1, PutBytes
<1>4. Decodes(k, b \o p, Held(u, f, x))
  <2>1. DataBehind(k, b, u, num, data, x)
    <3> HIDE DEF u, x
    <3> QED
      BY <1>1, <1>2 DEF DataBehind
  <2> HIDE DEF u, x
  <2> QED
    BY <2>1, DataDecodes
<1>5. Held(u, f, x) = [u EXCEPT ![f.name] = x]
  BY <1>1 DEF Held, Store
<1>6. b \o p \in Seq(Byte) /\ Len(b \o p) = l + FieldSize(Len(data))
  <2> HIDE DEF p
  <2>1. b \o p \in Seq(Byte) /\ Len(b \o p) = Len(b) + Len(p)
    BY <1>1, <1>3, Parts
  <2> QED
    BY <1>1, <1>3, <2>1
<1> HIDE DEF p, u, x
<1> QED
  BY <1>1, <1>2, <1>4, <1>5, <1>6 DEF WrittenTo, p

TextNext(k, m, prev, num, b, l) ==
    /\ NextPart(k, m, prev, num, b, l)
    /\ num \in DOMAIN Fields[k] /\ Fields[k][num].type = "text" /\ Fields[k][num] # Amount
    /\ m[Fields[k][num].name] \in Content

LEMMA TextWritten ==
    ASSUME NEW k, NEW m, NEW prev, NEW num, NEW b, NEW l, TextNext(k, m, prev, num, b, l),
           NEW s, s = m[Fields[k][num].name]
    PROVE  WrittenTo(k, m, num, b \o PutText(num, s), l + TextSize(s))
<1>1. /\ NextPart(k, m, prev, num, b, l) /\ num \in DOMAIN Fields[k]
      /\ Fields[k][num].type = "text" /\ Fields[k][num] # Amount /\ s \in Content
  BY DEF TextNext
<1>2. CASE s = <<>>
  <2>1. PutText(num, s) = <<>> /\ TextSize(s) = 0
    BY <1>2 DEF PutText, TextSize
  <2>2. m[Fields[k][num].name] = Zero(Fields[k][num])
    BY <1>1, <1>2 DEF Zero
  <2> QED
    BY <1>1, <2>1, <2>2, PartLeftOut
<1>3. CASE s # <<>>
  <2>1. PutText(num, s) = Put(num, s)
    BY <1>3 DEF PutText
  <2>2. TextSize(s) = FieldSize(Len(s))
    <3>1. s \in Seq(Byte)
      BY <1>1 DEF Content
    <3>2. Len(s) > 0
      BY <1>3, <3>1
    <3> QED
      BY <3>2 DEF TextSize
  <2>3. Decoded(Fields[k][num], Zero(Fields[k][num]), s) = Done(s)
    BY <1>1 DEF Decoded
  <2>4. DataNext(k, m, prev, num, b, l, s)
    BY <1>1, <2>3 DEF DataNext, Meaning, Writes
  <2>5. WrittenTo(k, m, num, b \o Put(num, s), l + FieldSize(Len(s)))
    BY <2>4, DataWritten
  <2> QED
    BY <2>1, <2>2, <2>5
<1> QED
  BY <1>2, <1>3

EmbBytes(of, x) ==
    CASE of = "Coin"   -> CoinBytes(x)
      [] of = "Params" -> ParamsBytes(x)
      [] of = "KVPair" -> KVPairBytes(x)

(* The fields of an embedded message, one after the other.                 *)
LEMMA EmbText ==
    ASSUME NEW k \in Embedded, NEW x \in TextValues(k), NEW num \in DOMAIN Fields[k],
           Fields[k][num] # Amount,
           NEW prev, prev = num - 1, NEW b, NEW l, WrittenTo(k, x, prev, b, l),
           NEW s, s = x[Fields[k][num].name]
    PROVE  WrittenTo(k, x, num, b \o PutText(num, s), l + TextSize(s))
<1>1. num \in 1 .. 5 /\ Fields[k][num].type = "text" /\ Fields[k][num].name \in FieldNames(k)
  BY EmbeddedTables
<1>2. num \in 1 .. 6 /\ x[Fields[k][num].name] \in Content
  BY <1>1 DEF TextValues
<1>3. TextNext(k, x, prev, num, b, l)
  BY <1>1, <1>2 DEF TextNext, NextPart
<1> QED
  BY <1>3, TextWritten

(* The digits of the amount, also of one that was never set.               *)
LEMMA AmountWritten ==
    ASSUME NEW k, k = "Coin", NEW x \in TextValues(k), NEW num, num = 2,
           NEW prev, prev = num - 1, NEW b, NEW l, WrittenTo(k, x, prev, b, l),
           NEW data, data = Digits(x.amount)
    PROVE  WrittenTo(k, x, num, b \o Put(num, data), l + FieldSize(Len(data)))
<1> DEFINE f == Fields[k][num]
           a == x.amount
<1>1. num \in DOMAIN Fields[k] /\ f = Amount /\ num \in 1 .. 6
  BY EmbeddedFields DEF Amount
<1>2. f.name = "amount" /\ f.type = "text"
  BY <1>1, EmbeddedFields DEF Amount
<1>3. data \in Content /\ data \in DOMAIN NumberOf /\ NumberOf[data] = a
  BY DigitsSpell DEF TextValues
<1> HIDE DEF f
<1>4. Meaning(f, data) = a /\ Writes(f, data)
  BY <1>1, <1>3 DEF Meaning, Writes
<1>5. Decoded(f, Zero(f), a) = Done(a) /\ x[f.name] = a
  BY <1>2 DEF Decoded
<1> HIDE DEF a
<1>6. DataNext(k, x, prev, num, b, l, data)
  BY <1>1, <1>2, <1>4, <1>5 DEF DataNext, NextPart, f
<1> QED
  BY <1>6, DataWritten

LEMMA EmbWritten ==
    ASSUME NEW k \in Embedded, NEW x \in TextValues(k)
    PROVE  \E n \in 1 .. 5 :
               /\ WrittenTo(k, x, n, EmbBytes(k, x), EmbSize(k, x))
               /\ \A j \in DOMAIN Fields[k] : j <= n
<1>1. x = [n \in FieldNames(k) |-> x[n]] /\ k \in DOMAIN Fields
  BY EmbeddedTables DEF TextValues
<1>2. WrittenTo(k, x, 0, <<>>, 0)
  BY <1>1, NothingWritten
<1>3. \A n \in FieldNames(k) : x[n] \in Content /\ PutText(1, x[n]) \in Seq(Byte)
                               /\ TextSize(x[n]) \in Nat
  <2> SUFFICES ASSUME NEW n \in FieldNames(k)
               PROVE  x[n] \in Content /\ PutText(1, x[n]) \in Seq(Byte) /\ TextSize(x[n]) \in Nat
    OBVIOUS
  <2> DEFINE s == x[n]
             one == 1
  <2>1. s \in Content /\ one \in 1 .. Foreign
    BY DEF TextValues, Foreign
  <2> HIDE DEF s, one
  <2>2. PutText(one, s) \in Seq(Byte) /\ TextSize(s) \in Nat
    BY <2>1, TextBytes
  <2> QED
    BY <2>1, <2>2 DEF s, one
<1> DEFINE n0 == 0
           n1 == 1
           n2 == 2
           n3 == 3
           n4 == 4
           n5 == 5
<1>4. n0 = n1 - 1 /\ n1 = n2 - 1 /\ n2 = n3 - 1 /\ n3 = n4 - 1 /\ n4 = n5 - 1
  OBVIOUS
<1>8. k # "Coin" => \A num \in DOMAIN Fields[k] : Fields[k][num] # Amount
  BY <1>1, NoAmount
<1>5. CASE k = "Coin"
  <2> DEFINE d == Digits(x.amount)
             b1 == <<>> \o PutText(n1, x.denom)
             l1 == 0 + TextSize(x.denom)
             b2 == b1 \o Put(n2, d)
             l2 == l1 + FieldSize(Len(d))
  <2>1. "denom" \in FieldNames(k)
    BY <1>5, SmallTables
  <2>2. /\ n1 \in DOMAIN Fields[k] /\ Fields[k][n1].name = "denom" /\ Fields[k][n1] # Amount
        /\ \A j \in DOMAIN Fields[k] : j <= n2
    <3>1. Text("denom").name # Text("amount").name
      BY EmbeddedFields
    <3> QED
      BY <1>5, <3>1, EmbeddedFields DEF Amount
  <2>3. b2 = EmbBytes(k, x) /\ l2 = EmbSize(k, x)
    <3>1. PutText(n1, x.denom) \in Seq(Byte) /\ TextSize(x.denom) \in Nat
      BY <1>3, <2>1
    <3>2. b1 = PutText(n1, x.denom) /\ l1 = TextSize(x.denom)
      BY <3>1, ConcatEmptySeq
    <3>3. EmbBytes(k, x) = PutText(n1, x.denom) \o Put(n2, d)
          /\ EmbSize(k, x) = TextSize(x.denom) + FieldSize(Len(d))
      BY <1>5 DEF EmbBytes, EmbSize, CoinBytes, CoinSize
    <3> QED
      BY <3>2, <3>3
  <2>7. n2 = 2 /\ n2 \in 1 .. 5
    BY DEF n2
  <2> HIDE DEF n0, n1, n2
  <2>4. WrittenTo(k, x, n1, b1, l1)
    BY <1>2, <1>4, <2>2, EmbText DEF n0
  <2> HIDE DEF b1, l1
  <2>8. d = Digits(x.amount)
    OBVIOUS
  <2> HIDE DEF d
  <2>5. WrittenTo(k, x, n2, b2, l2)
    BY <1>4, <1>5, <2>4, <2>7, <2>8, AmountWritten
  <2> HIDE DEF b2, l2
  <2>6. WrittenTo(k, x, n2, EmbBytes(k, x), EmbSize(k, x))
    BY <2>3, <2>5
  <2> QED
    BY <2>2, <2>6, <2>7
<1>6. CASE k = "KVPair"
  <2> DEFINE b1 == <<>> \o PutText(n1, x.key)
             l1 == 0 + TextSize(x.key)
             b2 == b1 \o PutText(n2, x.value)
             l2 == l1 + TextSize(x.value)
  <2>1. "key" \in FieldNames(k) /\ "value" \in FieldNames(k)
    BY <1>6, SmallTables
  <2>2. /\ n1 \in DOMAIN Fields[k] /\ Fields[k][n1].name = "key"
        /\ n2 \in DOMAIN Fields[k] /\ Fields[k][n2].name = "value"
        /\ \A j \in DOMAIN Fields[k] : j <= n2
    BY <1>6, EmbeddedFields
  <2>20. \A num \in DOMAIN Fields[k] : Fields[k][num] # Amount
    BY <1>6, <1>8
  <2>3. b2 = EmbBytes(k, x) /\ l2 = EmbSize(k, x)
    <3>1. PutText(n1, x.key) \in Seq(Byte) /\ TextSize(x.key) \in Nat
      BY <1>3, <2>1
    <3>2. b1 = PutText(n1, x.key) /\ l1 = TextSize(x.key)
      BY <3>1, ConcatEmptySeq
    <3>3. EmbBytes(k, x) = PutText(n1, x.key) \o PutText(n2, x.value)
          /\ EmbSize(k, x) = TextSize(x.key) + TextSize(x.value)
      BY <1>6 DEF EmbBytes, EmbSize, KVPairBytes, KVPairSize
    <3> QED
      BY <3>2, <3>3
  <2> HIDE DEF n0, n1, n2
  <2>4. WrittenTo(k, x, n1, b1, l1)
    BY <1>2, <1>4, <2>2, <2>20, EmbText DEF n0
  <2> HIDE DEF b1, l1
  <2>5. WrittenTo(k, x, n2, b2, l2)
    BY <1>4, <2>2, <2>20, <2>4, EmbText
  <2> HIDE DEF b2, l2
  <2>6. WrittenTo(k, x, n2, EmbBytes(k, x), EmbSize(k, x))
    BY <2>3, <2>5
  <2>7. n2 \in 1 .. 5
    BY DEF n2
  <2> QED
    BY <2>2, <2>6, <2>7
<1>7. CASE k = "Params"
  <2> DEFINE b1 == <<>> \o PutText(n1, x.sysnames_pkgpath)
             l1 == 0 + TextSize(x.sysnames_pkgpath)
             b2 == b1 \o PutText(n2, x.chain_domain)
             l2 == l1 + TextSize(x.chain_domain)
             b3 == b2 \o PutText(n3, x.default_deposit)
             l3 == l2 + TextSize(x.default_deposit)
             b4 == b3 \o PutText(n4, x.storage_price)
             l4 == l3 + TextSize(x.storage_price)
             b5 == b4 \o PutText(n5, x.storage_fee_collector)
             l5 == l4 + TextSize(x.storage_fee_collector)
  <2>1. "sysnames_pkgpath" \in FieldNames(k)
    BY <1>7, ParamsTable DEF ParamNames
  <2>2. /\ n1 \in DOMAIN Fields[k] /\ Fields[k][n1].name = "sysnames_pkgpath"
        /\ n2 \in DOMAIN Fields[k] /\ Fields[k][n2].name = "chain_domain"
        /\ n3 \in DOMAIN Fields[k] /\ Fields[k][n3].name = "default_deposit"
        /\ n4 \in DOMAIN Fields[k] /\ Fields[k][n4].name = "storage_price"
        /\ n5 \in DOMAIN Fields[k] /\ Fields[k][n5].name = "storage_fee_collector"
        /\ \A j \in DOMAIN Fields[k] : j <= n5
    BY <1>7, EmbeddedFields
  <2>20. \A num \in DOMAIN Fields[k] : Fields[k][num] # Amount
    BY <1>7, <1>8
  <2>3. b5 = EmbBytes(k, x) /\ l5 = EmbSize(k, x)
    <3>1. PutText(n1, x.sysnames_pkgpath) \in Seq(Byte) /\ TextSize(x.sysnames_pkgpath) \in Nat
      BY <1>3, <2>1
    <3>2. b1 = PutText(n1, x.sysnames_pkgpath) /\ l1 = TextSize(x.sysnames_pkgpath)
      BY <3>1, ConcatEmptySeq
    <3>3. EmbBytes(k, x) = ParamsBytes(x) /\ EmbSize(k, x) = ParamsSize(x)
      BY <1>7 DEF EmbBytes, EmbSize
    <3> HIDE DEF b1, l1
    <3>4. b5 = ParamsBytes(x)
      BY <3>2 DEF ParamsBytes
    <3>5. l5 = ParamsSize(x)
      BY <3>2 DEF ParamsSize
    <3> QED
      BY <3>3, <3>4, <3>5
  <2> HIDE DEF n0, n1, n2, n3, n4, n5
  <2>4. WrittenTo(k, x, n1, b1, l1)
    BY <1>2, <1>4, <2>2, <2>20, EmbText DEF n0
  <2> HIDE DEF b1, l1
  <2>5. WrittenTo(k, x, n2, b2, l2)
    BY <1>4, <2>2, <2>20, <2>4, EmbText
  <2> HIDE DEF b2, l2
  <2>6. WrittenTo(k, x, n3, b3, l3)
    BY <1>4, <2>2, <2>20, <2>5, EmbText
  <2> HIDE DEF b3, l3
  <2>7. WrittenTo(k, x, n4, b4, l4)
    BY <1>4, <2>2, <2>20, <2>6, EmbText
  <2> HIDE DEF b4, l4
  <2>8. WrittenTo(k, x, n5, b5, l5)
    BY <1>4, <2>2, <2>20, <2>7, EmbText
  <2> HIDE DEF b5, l5
  <2>9. WrittenTo(k, x, n5, EmbBytes(k, x), EmbSize(k, x))
    BY <2>3, <2>8
  <2>10. n5 \in 1 .. 5
    BY DEF n5
  <2> QED
    BY <2>2, <2>9, <2>10
<1> QED
  BY <1>5, <1>6, <1>7 DEF Embedded

(* Decoding into an empty embedded message is decoding it as a message.    *)
LEMMA TextsAreRead ==
    ASSUME NEW k \in Embedded, NEW b \in Content, NEW x, Decodes(k, b, x)
    PROVE  UnmarshalTexts(k, New(k), b) = Done(x)
<1> DEFINE new == New(k)
           loop == Loop(k, b)
<1>1. PICK u : Said(k, b, u) /\ Keeps(k, u, x)
  BY DEF Decodes
<1> DEFINE n == Len(u)
           h == CHOOSE h : TextsHeld(new, u, n, h)
           after == [j \in 0 .. n |-> Done(h[j])]
<1>2. b \in Seq(Byte) /\ Len(b) < Half
  BY DEF Content
<1>3. loop.stores = u /\ Ok(loop)
  BY <1>1, <1>2, SaidAll DEF Ok
<1>4. u \in Seq(Priced(k)) /\ n \in Nat
  <2>1. Affords(k, loop.stores, Len(b))
    BY <1>2, LoopCosts
  <2> QED
    BY <1>3, <2>1 DEF Affords
<1>5. UnmarshalTexts(k, new, b) = HoldTexts(new, loop)
  BY DEF UnmarshalTexts
<1> HIDE DEF loop
<1>6. HoldTexts(new, loop) = Done(h[n])
  BY <1>3 DEF HoldTexts, TextsHeld
<1>7. TextsHeld(new, u, n, h)
  <2>1. new \in TextValues(k)
    BY EmptyEmb DEF Emb
  <2> HIDE DEF new
  <2> QED
    BY <1>4, <2>1, TextsHeldExist
<1> HIDE DEF h, new
<1>8. \A j \in 0 .. n : h[j] = IF j = 0 THEN new ELSE Held(h[j - 1], u[j][1], u[j][2])
  BY <1>7 DEF TextsHeld
<1>9. ASSUME NEW j \in 1 .. n
      PROVE  HoldOne(Done(h[j - 1]), u[j][1], u[j][2]) = Done(h[j])
  <2> DEFINE e == u[j]
             m == h[j - 1]
  <2>1. e \in Priced(k)
    BY <1>4, ElementOfSeq
  <2>2. h[j] = Held(m, e[1], e[2])
    BY <1>4, <1>8
  <2> HIDE DEF e, m
  <2>3. PICK num \in DOMAIN Fields[k] : e[1] = Fields[k][num]
    BY <2>1 DEF Priced, Entries
  <2>4. e[1].type = "text"
    BY <2>3, EmbeddedTables
  <2> DEFINE f == e[1]
             v == e[2]
  <2>5. f.type = "text"
    BY <2>4
  <2> HIDE DEF f, v
  <2>6. Ok(Done(m)) /\ Done(m).msg = m /\ Ok(Done(v)) /\ Done(v).msg = v
    BY DEF Ok, Done
  <2>7. Decoded(f, m[f.name], v) = Done(v)
    BY <2>5 DEF Decoded
  <2>8. HoldOne(Done(m), f, v) = HeldIf(m, f, Done(v))
    BY <2>6, <2>7 DEF HoldOne
  <2>9. HoldOne(Done(m), f, v) = Done(Held(m, f, v))
    BY <2>6, <2>8 DEF HeldIf
  <2> QED
    BY <2>2, <2>9 DEF e, m, f, v
<1>10. Holds(k, u, n, after)
  <2>1. after = [j \in 0 .. n |-> after[j]] /\ \A j \in 0 .. n : after[j] = Done(h[j])
    OBVIOUS
  <2> HIDE DEF after
  <2>2. ASSUME NEW j \in 0 .. n
        PROVE  after[j] = IF j = 0 THEN Done(New(k)) ELSE HoldOne(after[j - 1], u[j][1], u[j][2])
    <3>1. CASE j = 0
      BY <1>8, <2>1, <3>1 DEF new
    <3>2. CASE j # 0
      <4>1. j \in 1 .. n /\ j - 1 \in 0 .. n
        BY <1>4, <3>2
      <4> QED
        BY <1>9, <2>1, <3>2, <4>1
    <3> QED
      BY <3>1, <3>2
  <2> QED
    BY <2>1, <2>2 DEF Holds
<1>11. after[n] = Done(h[n])
  BY <1>4
<1> HIDE DEF after
<1>12. after[n] = Done(x)
  <2>1. u \in Seq(Entries(k)) /\ <<>> \in Seq(Entries(k)) /\ u \o <<>> = u
    BY <1>1, ConcatEmptySeq DEF Keeps
  <2> QED
    BY <1>1, <1>10, <2>1 DEF Keeps
<1> QED
  BY <1>5, <1>6, <1>11, <1>12 DEF new

LEMMA EmbIsBytes ==
    ASSUME NEW k \in Embedded, NEW x \in Emb(k)
    PROVE  EmbBytes(k, x) \in Seq(Byte) /\ Len(EmbBytes(k, x)) = EmbSize(k, x)
<1>1. x \in TextValues(k)
  BY EmbIsSized
<1>2. PICK n \in 1 .. 5 : WrittenTo(k, x, n, EmbBytes(k, x), EmbSize(k, x))
  BY <1>1, EmbWritten
<1> QED
  BY <1>2 DEF WrittenTo

LEMMA EmbIsRead ==
    ASSUME NEW k \in Embedded, NEW x \in Emb(k), EmbSize(k, x) < Half
    PROVE  /\ EmbBytes(k, x) \in Content /\ Len(EmbBytes(k, x)) = EmbSize(k, x)
           /\ UnmarshalTexts(k, New(k), EmbBytes(k, x)) = Done(x)
<1> DEFINE b == EmbBytes(k, x)
<1>1. x \in TextValues(k) /\ EmbSize(k, x) < Half /\ k \in DOMAIN Fields
      /\ x = [y \in FieldNames(k) |-> x[y]]
  BY EmbIsSized, EmbeddedTables DEF TextValues
<1>2. PICK n \in 1 .. 5 : WrittenTo(k, x, n, b, EmbSize(k, x)) /\ \A j \in DOMAIN Fields[k] : j <= n
  BY <1>1, EmbWritten
<1> HIDE DEF b
<1>3. b \in Seq(Byte) /\ Len(b) = EmbSize(k, x) /\ Decodes(k, b, Upto(k, x, n))
  BY <1>2 DEF WrittenTo
<1>4. Upto(k, x, n) = x
  BY <1>1, <1>2, UptoEnds
<1>5. b \in Content
  BY <1>1, <1>3 DEF Content
<1>6. UnmarshalTexts(k, New(k), b) = Done(x)
  BY <1>3, <1>4, <1>5, TextsAreRead
<1> QED
  BY <1>3, <1>5, <1>6 DEF b

-----------------------------------------------------------------------------
(* Writing a repeated field, one element after the other.                  *)

ElementBytes(f, x) == IF f.type = "strings" THEN x ELSE EmbBytes(f.of, x)
ListData(f, l) == [j \in DOMAIN l |-> ElementBytes(f, l[j])]

(* F holds the first sequences of q, joined.                               *)
Joins(q, F) ==
    /\ F \in [0 .. Len(q) -> Seq(Byte)] /\ F[0] = <<>>
    /\ \A j \in 1 .. Len(q) : F[j] = F[j - 1] \o q[j]

LEMMA Flattened ==
    ASSUME NEW q \in Seq(Seq(Byte))
    PROVE  \E F : Joins(q, F) /\ FlattenSeq(q) = F[Len(q)]
<1> DEFINE n == Len(q)
           S == Seq(Byte)
           z == <<>>
           step == [j \in 1 .. n |-> [x \in S |-> x \o q[j]]]
<1>1. \A j \in 1 .. n : q[j] \in S
  <2> SUFFICES ASSUME NEW j \in 1 .. n PROVE q[j] \in S
    OBVIOUS
  <2> QED
    BY ElementOfSeq
<1>2. n \in Nat /\ z \in S
  OBVIOUS
<1>3. step \in [1 .. n -> [S -> S]] /\ \A j \in 1 .. n : \A x \in S : step[j][x] = x \o q[j]
  <2>1. \A j \in 1 .. n : \A x \in S : x \o q[j] \in S
    <3> SUFFICES ASSUME NEW j \in 1 .. n, NEW x \in S PROVE x \o q[j] \in S
      OBVIOUS
    <3> DEFINE y == q[j]
    <3>1. y \in S
      BY <1>1
    <3> HIDE DEF y
    <3> QED
      BY <3>1, Parts
  <2> HIDE DEF n, S
  <2> QED
    BY <2>1
<1>4. n = 0 => FlattenSeq(q) = z
  BY DEF FlattenSeq
<1> DEFINE Is(r) == r = [i \in 1 .. n |-> IF i = 1 THEN q[i] ELSE r[i - 1] \o q[i]]
           h == CHOOSE r : Is(r)
<1>5. n # 0 => FlattenSeq(q) = h[n]
  BY DEF FlattenSeq
<1> HIDE DEF step, n, S, z
<1>6. PICK F : ForwardLoop(F, n, S, z, step)
  BY <1>2, <1>3, Forwards
<1>7. F \in [0 .. n -> S] /\ F[0] = z /\ \A j \in 1 .. n : F[j] = step[j][F[j - 1]]
  BY <1>6 DEF ForwardLoop
<1>8. ASSUME NEW j \in 1 .. n PROVE F[j] = F[j - 1] \o q[j]
  <2>1. j - 1 \in 0 .. n
    BY <1>2
  <2>2. F[j - 1] \in S
    BY <1>7, <2>1
  <2> QED
    BY <1>3, <1>7, <2>2
<1>9. ASSUME NEW j \in 1 .. n, j = 1 PROVE F[j] = q[j]
  <2> DEFINE y == q[j]
  <2>1. y \in Seq(Byte) /\ F[j - 1] = <<>>
    BY <1>1, <1>7, <1>9 DEF S, z
  <2>2. F[j] = <<>> \o y
    BY <1>8, <2>1
  <2> HIDE DEF y
  <2>3. F[j] = y
    BY <2>1, <2>2, ConcatEmptySeq
  <2> QED
    BY <2>3 DEF y
<1>10. FlattenSeq(q) = F[n]
  <2>1. CASE n = 0
    BY <1>4, <1>7, <2>1
  <2>2. CASE n # 0
    <3> DEFINE r == [i \in 1 .. n |-> F[i]]
    <3>1. Is(r)
      <4>1. ASSUME NEW i \in 1 .. n
            PROVE  r[i] = IF i = 1 THEN q[i] ELSE r[i - 1] \o q[i]
        <5>1. i # 1 => i - 1 \in 1 .. n
          BY <1>2
        <5>2. i # 1 => r[i - 1] = F[i - 1]
          BY <5>1
        <5> QED
          BY <1>8, <1>9, <5>2
      <4>2. r = [i \in 1 .. n |-> r[i]]
        OBVIOUS
      <4> HIDE DEF r
      <4> QED
        BY <4>1, <4>2
    <3>2. Is(h)
      <4> HIDE DEF Is, r
      <4> QED
        BY <3>1
    <3> HIDE DEF h, r
    <3>3. \A i \in 1 .. n : h[i] = IF i = 1 THEN q[i] ELSE h[i - 1] \o q[i]
      BY <3>2
    <3> HIDE DEF Is
    <3> DEFINE Good == {i \in 0 .. n : i = 0 \/ h[i] = F[i]}
    <3>4. 0 \in Good
      BY <1>2
    <3>5. ASSUME NEW i \in 1 .. n, i - 1 \in Good PROVE i \in Good
      <4>1. CASE i = 1
        BY <1>2, <1>9, <3>3, <4>1
      <4>2. CASE i # 1
        <5>1. i - 1 # 0 /\ i \in 0 .. n
          BY <1>2, <4>2
        <5>2. h[i - 1] = F[i - 1]
          BY <3>5, <5>1
        <5>3. h[i] = h[i - 1] \o q[i]
          BY <3>3, <4>2
        <5>4. F[i] = F[i - 1] \o q[i]
          BY <1>8
        <5>5. h[i] = F[i]
          BY <5>2, <5>3, <5>4
        <5> QED
          BY <5>1, <5>5
      <4> QED
        BY <4>1, <4>2
    <3>6. \A i \in 0 .. n : i \in Good
      <4> HIDE DEF Good
      <4> QED
        BY <1>2, <3>4, <3>5, Iterations
    <3>7. n \in Good
      BY <1>2, <3>6
    <3> QED
      BY <1>5, <2>2, <3>7
  <2> QED
    BY <2>1, <2>2
<1>11. Joins(q, F)
  BY <1>7, <1>8 DEF Joins, n, S, z
<1> QED
  BY <1>10, <1>11 DEF n

LEMMA ElementIsBytes ==
    ASSUME NEW f, Repeated(f), NEW x \in Elements(f)
    PROVE  ElementBytes(f, x) \in Seq(Byte) /\ Len(ElementBytes(f, x)) = ElementSize(f, x)
<1>1. CASE f.type = "strings"
  BY <1>1 DEF Elements, ElementBytes, ElementSize, Content
<1>2. CASE f.type # "strings"
  <2>1. f.of \in Embedded /\ x \in Emb(f.of)
    BY <1>2 DEF Repeated, Declares, Elements
  <2>2. EmbBytes(f.of, x) \in Seq(Byte) /\ Len(EmbBytes(f.of, x)) = EmbSize(f.of, x)
    BY <2>1, EmbIsBytes
  <2> QED
    BY <1>2, <2>2 DEF ElementBytes, ElementSize
<1> QED
  BY <1>1, <1>2

LEMMA ElementIsRead ==
    ASSUME NEW f, Repeated(f), NEW x \in Elements(f), ElementSize(f, x) < Half, NEW old
    PROVE  /\ ElementBytes(f, x) \in Content /\ Len(ElementBytes(f, x)) = ElementSize(f, x)
           /\ Decoded(f, old, ElementBytes(f, x)) = Done(x)
<1>1. CASE f.type = "strings"
  BY <1>1 DEF Elements, ElementBytes, ElementSize, Decoded
<1>2. CASE f.type # "strings"
  <2> DEFINE k == f.of
             b == EmbBytes(k, x)
  <2>1. f.type = "msgs" /\ k \in Embedded /\ x \in Emb(k)
    BY <1>2 DEF Repeated, Declares, Elements
  <2>2. b \in Content /\ Len(b) = EmbSize(k, x) /\ UnmarshalTexts(k, New(k), b) = Done(x)
    <3>1. EmbSize(k, x) < Half
      BY <1>2 DEF ElementSize
    <3> HIDE DEF k
    <3> QED
      BY <2>1, <3>1, EmbIsRead
  <2>3. ElementBytes(f, x) = b /\ ElementSize(f, x) = EmbSize(k, x)
    BY <1>2 DEF ElementBytes, ElementSize
  <2>4. Decoded(f, old, b) = UnmarshalTexts(k, New(k), b)
    BY <2>1 DEF Decoded
  <2> QED
    BY <2>2, <2>3, <2>4
<1> QED
  BY <1>1, <1>2

(* Behind the first j - 1 elements comes one more.                         *)
ElementBehind(k, c, u, num, x, j) ==
    /\ k \in DOMAIN Fields /\ num \in DOMAIN Fields[k] /\ Repeated(Fields[k][num])
    /\ x \in Seq(Elements(Fields[k][num])) /\ j \in 1 .. Len(x)
    /\ ElementSize(Fields[k][num], x[j]) < Half
    /\ u = [y \in FieldNames(k) |-> u[y]]
    /\ Decodes(k, c, [u EXCEPT ![Fields[k][num].name] = SubSeq(x, 1, j - 1)])

LEMMA ElementWritten ==
    ASSUME NEW k, NEW c, NEW u, NEW num, NEW x, NEW j, ElementBehind(k, c, u, num, x, j)
    PROVE  Decodes(k, c \o Put(num, ElementBytes(Fields[k][num], x[j])),
                   [u EXCEPT ![Fields[k][num].name] = SubSeq(x, 1, j)])
<1> DEFINE f == Fields[k][num]
           z == x[j]
           data == ElementBytes(f, z)
           w == SubSeq(x, 1, j - 1)
           m == [u EXCEPT ![f.name] = w]
           held == [u EXCEPT ![f.name] = SubSeq(x, 1, j)]
<1>1. /\ k \in DOMAIN Fields /\ num \in DOMAIN Fields[k] /\ Repeated(f)
      /\ x \in Seq(Elements(f)) /\ j \in 1 .. Len(x) /\ ElementSize(f, z) < Half
      /\ u = [y \in FieldNames(k) |-> u[y]] /\ Decodes(k, c, m)
  BY DEF ElementBehind
<1>2. f.name \in FieldNames(k)
  BY <1>1 DEF FieldNames, ToSet
<1>3. z \in Elements(f)
  <2> HIDE DEF f
  <2> QED
    BY <1>1, ElementOfSeq
<1> HIDE DEF z
<1>4. data \in Content /\ \A old : Decoded(f, old, data) = Done(z)
  <2> HIDE DEF f
  <2> QED
    BY <1>1, <1>3, ElementIsRead
<1> HIDE DEF data
<1>5. f.type \in {"strings", "msgs"} /\ f.type # "uint" /\ f # Amount
  BY <1>1 DEF Repeated, Amount, Text
<1>6. DataBehind(k, c, m, num, data, z)
  <2>1. Meaning(f, data) = data /\ Writes(f, data)
    BY <1>4, <1>5 DEF Meaning, Writes
  <2> HIDE DEF m
  <2> QED
    BY <1>1, <1>4, <1>5, <2>1 DEF DataBehind
<1>7. Decodes(k, c \o Put(num, data), Held(m, f, z))
  <2> HIDE DEF m, f
  <2> QED
    BY <1>6, DataDecodes DEF f
<1>8. Held(m, f, z) = held
  <2>1. Append(w, z) = SubSeq(x, 1, j)
    BY <1>1 DEF z
  <2>2. m[f.name] = w
    <3> HIDE DEF w, f
    <3> QED
      BY <1>1, <1>2
  <2> HIDE DEF w
  <2>3. Held(m, f, z) = [m EXCEPT ![f.name] = Append(w, z)]
    <3> HIDE DEF m, f
    <3> QED
      BY <1>5, <2>2 DEF Held, Store
  <2> HIDE DEF f
  <2> QED
    BY <1>1, <1>2, <2>1, <2>3
<1> QED
  BY <1>7, <1>8 DEF data, z

(* What is put for the elements of a list.                                 *)
Puts(f, num, x) == [j \in 1 .. Len(x) |-> Put(num, ElementBytes(f, x[j]))]

LEMMA PutIsBytes ==
    ASSUME NEW num \in 1 .. Foreign, NEW s \in Seq(Byte), Len(s) \in Size
    PROVE  Put(num, s) \in Seq(Byte) /\ Len(Put(num, s)) = FieldSize(Len(s))
<1> DEFINE v == VarintBytes(Len(s))
           t == <<num * 8 + 2>>
<1>1. Len(s) \in Nat /\ Len(s) \in 0 .. Uint64 - 1
  BY DEF Size
<1>2. t \in Seq(Byte) /\ Len(t) = 1
  <2>1. num * 8 + 2 \in Byte
    BY DEF Foreign, Byte
  <2> QED
    BY <2>1
<1>3. v \in Seq(Byte) /\ Len(v) = Sov(Len(s)) /\ Len(v) \in Nat
  BY <1>1, VarintsSpell DEF Spells
<1>4. Put(num, s) = t \o (v \o s)
  BY <1>1, EncodedVarint DEF Put
<1> HIDE DEF v, t
<1>5. v \o s \in Seq(Byte) /\ Len(v \o s) = Len(v) + Len(s)
  BY <1>3, Parts
<1> DEFINE w == v \o s
<1>6. w \in Seq(Byte)
  BY <1>5
<1> HIDE DEF w
<1>7. t \o w \in Seq(Byte) /\ Len(t \o w) = Len(t) + Len(w)
  BY <1>2, <1>6, Parts
<1> QED
  BY <1>1, <1>2, <1>3, <1>4, <1>5, <1>7 DEF FieldSize, w

LEMMA PutsAreBytes ==
    ASSUME NEW f, Repeated(f), NEW x \in Seq(Elements(f)), NEW num \in 1 .. 6
    PROVE  /\ PutStrings(num, ListData(f, x)) = FlattenSeq(Puts(f, num, x))
           /\ Puts(f, num, x) \in Seq(Seq(Byte)) /\ Len(Puts(f, num, x)) = Len(x)
           /\ SizesOf(f, x) \in Seq(Size) /\ Len(SizesOf(f, x)) = Len(x)
           /\ \A j \in 1 .. Len(x) :
                 /\ Puts(f, num, x)[j] \in Seq(Byte) /\ FieldSize(SizesOf(f, x)[j]) \in Nat
                 /\ Len(Puts(f, num, x)[j]) = FieldSize(SizesOf(f, x)[j])
<1> DEFINE n == Len(x)
           q == [j \in 1 .. n |-> Put(num, ElementBytes(f, x[j]))]
           t == SizesOf(f, x)
<1>1. n \in Nat /\ DOMAIN x = 1 .. n
  OBVIOUS
<1>2. PutStrings(num, ListData(f, x)) = FlattenSeq(q) /\ Puts(f, num, x) = q
  BY <1>1 DEF PutStrings, ListData, Puts
<1>3. t \in Seq(Size) /\ Len(t) = n /\ \A j \in 1 .. n : t[j] = ElementSize(f, x[j])
  BY SizesOfList
<1>4. ASSUME NEW j \in 1 .. n
      PROVE  q[j] \in Seq(Byte) /\ Len(q[j]) = FieldSize(t[j]) /\ FieldSize(t[j]) \in Nat
  <2> DEFINE z == x[j]
             data == ElementBytes(f, z)
             p == Put(num, data)
             s == t[j]
  <2>1. z \in Elements(f)
    BY ElementOfSeq
  <2>2. s \in Size /\ s = ElementSize(f, z)
    <3> HIDE DEF t, n
    <3> QED
      BY <1>3, ElementOfSeq
  <2> HIDE DEF s, z
  <2>3. data \in Seq(Byte) /\ Len(data) = ElementSize(f, z) /\ Len(data) \in Size
    BY <2>1, <2>2, ElementIsBytes
  <2> HIDE DEF data
  <2>4. p \in Seq(Byte) /\ Len(p) = FieldSize(Len(data))
    <3>1. num \in 1 .. Foreign
      BY DEF Foreign
    <3> QED
      BY <2>3, <3>1, PutIsBytes
  <2>5. q[j] = p
    BY DEF data, z
  <2>6. FieldSize(s) \in Nat
    BY <2>2, FieldSizes
  <2> HIDE DEF p, q
  <2> QED
    BY <2>2, <2>3, <2>4, <2>5, <2>6 DEF s
<1>5. q \in Seq(Seq(Byte)) /\ Len(q) = n
  <2>1. q = [j \in 1 .. n |-> q[j]]
    OBVIOUS
  <2> HIDE DEF q, n
  <2>2. q \in [1 .. n -> Seq(Byte)]
    BY <1>4, <2>1
  <2> QED
    BY <1>1, <2>2
<1> HIDE DEF q, t
<1> QED
  BY <1>2, <1>3, <1>4, <1>5 DEF n, t

(* All elements, into a field that holds none yet.                         *)
ListNext(k, m, prev, num, b, l) ==
    /\ NextPart(k, m, prev, num, b, l)
    /\ num \in DOMAIN Fields[k] /\ Repeated(Fields[k][num])
    /\ m[Fields[k][num].name] \in Seq(Elements(Fields[k][num]))

LEMMA ListWritten ==
    ASSUME NEW k, NEW m, NEW prev, NEW num, NEW b, NEW l, ListNext(k, m, prev, num, b, l),
           NEW f, f = Fields[k][num], NEW x, x = m[f.name], ListSize(SizesOf(f, x)) < Half
    PROVE  WrittenTo(k, m, num, b \o PutStrings(num, ListData(f, x)), l + ListSize(SizesOf(f, x)))
<1> DEFINE u == Upto(k, m, num - 1)
           n == Len(x)
           q == [j \in 1 .. n |-> Put(num, ElementBytes(f, x[j]))]
           t == SizesOf(f, x)
<1>1. /\ k \in DOMAIN Fields /\ b \in Seq(Byte) /\ Len(b) = l /\ num \in 1 .. 6
      /\ Decodes(k, b, u) /\ num \in DOMAIN Fields[k] /\ Repeated(f) /\ x \in Seq(Elements(f))
  BY DEF ListNext, NextPart, WrittenTo
<1>2. u = [y \in FieldNames(k) |-> u[y]] /\ u[f.name] = <<>> /\ f.name \in FieldNames(k)
      /\ Upto(k, m, num) = [u EXCEPT ![f.name] = x]
  <2>1. Zero(f) = <<>>
    BY <1>1 DEF Repeated, Zero
  <2> QED
    BY <1>1, <2>1, UptoMore
<1> HIDE DEF u
<1>3. n \in Nat /\ DOMAIN x = 1 .. n
  BY <1>1
<1>4. q = Puts(f, num, x) /\ t = SizesOf(f, x)
  BY <1>3 DEF Puts
<1> HIDE DEF q, t
<1>5. /\ PutStrings(num, ListData(f, x)) = FlattenSeq(q)
      /\ q \in Seq(Seq(Byte)) /\ Len(q) = n /\ t \in Seq(Size) /\ Len(t) = n
  BY <1>1, <1>4, PutsAreBytes
<1>16. \A j \in 1 .. n : ElementSize(f, x[j]) < Half
  <2>1. \A j \in 1 .. n : t[j] = ElementSize(f, x[j])
    BY <1>1, <1>4, SizesOfList
  <2>2. ASSUME NEW j \in 1 .. n PROVE t[j] < Half
    <3> DEFINE y == t[j]
    <3>1. y \in Size /\ FieldSize(y) <= ListSize(t) /\ ListSize(t) \in Nat /\ ListSize(t) < Half
      <4>1. y \in Size
        BY <1>5, ElementOfSeq
      <4>2. FieldSize(t[j]) <= ListSize(t) /\ ListSize(t) \in Nat
        BY <1>5, ListSizes
      <4> QED
        BY <1>4, <4>1, <4>2
    <3> HIDE DEF y
    <3>2. y \in Nat /\ FieldSize(y) \in Nat /\ FieldSize(y) >= y + 2
      BY <3>1, FieldSizes
    <3>3. y < Half
      BY <3>1, <3>2, WordSizes
    <3> QED
      BY <3>3 DEF y
  <2> QED
    BY <2>1, <2>2
<1>6. \A j \in 1 .. n : q[j] \in Seq(Byte) /\ Len(q[j]) = FieldSize(t[j]) /\ FieldSize(t[j]) \in Nat
  <2>1. \A j \in 1 .. Len(x) :
           /\ Puts(f, num, x)[j] \in Seq(Byte) /\ FieldSize(SizesOf(f, x)[j]) \in Nat
           /\ Len(Puts(f, num, x)[j]) = FieldSize(SizesOf(f, x)[j])
    <3>1. Repeated(f) /\ x \in Seq(Elements(f)) /\ num \in 1 .. 6
      BY <1>1
    <3> QED
      BY ONLY <3>1, PutsAreBytes
  <2> QED
    BY <1>4, <2>1
<1>7. \A j \in 1 .. n : q[j] = Put(num, ElementBytes(f, x[j]))
  BY DEF q
<1>8. PICK F : Joins(q, F) /\ FlattenSeq(q) = F[n]
  BY <1>5, Flattened
<1>9. PICK s : Sums(t, s)
  BY <1>5, SumsExist
<1>10. /\ F \in [0 .. n -> Seq(Byte)] /\ F[0] = <<>>
       /\ \A j \in 1 .. n : F[j] = F[j - 1] \o q[j]
  BY <1>5, <1>8 DEF Joins
<1>11. /\ s \in [0 .. n -> Nat] /\ s[0] = 0 /\ ListSize(t) = s[n]
       /\ \A j \in 1 .. n : s[j] = s[j - 1] + FieldSize(t[j])
  <2>1. ListSize(t) = s[Len(t)]
    BY <1>5, <1>9, ListSizeIs
  <2> HIDE DEF n
  <2> QED
    BY <1>5, <1>9, <2>1 DEF Sums
<1> HIDE DEF n
<1> DEFINE held(j) == [u EXCEPT ![f.name] = SubSeq(x, 1, j)]
           c(j) == b \o F[j]
           Written(j) == c(j) \in Seq(Byte) /\ Len(c(j)) = l + s[j] /\ Decodes(k, c(j), held(j))
           Good == {j \in 0 .. n : Written(j)}
<1>12. held(0) = u /\ held(n) = [u EXCEPT ![f.name] = x]
  <2>1. SubSeq(x, 1, 0) = <<>> /\ SubSeq(x, 1, n) = x
    <3> DEFINE E == Elements(f)
    <3>1. x \in Seq(E)
      BY <1>1
    <3> HIDE DEF E
    <3> QED
      BY <3>1 DEF n
  <2>2. [u EXCEPT ![f.name] = <<>>] = u
    BY <1>2
  <2> QED
    BY <2>1, <2>2
<1> HIDE DEF held
<1>13. 0 \in Good
  <2>1. c(0) = b
    BY <1>1, <1>10, ConcatEmptySeq
  <2>2. l = l + s[0]
    BY <1>1, <1>11
  <2> HIDE DEF c
  <2> QED
    BY <1>1, <1>3, <1>12, <2>1, <2>2
<1>14. ASSUME NEW j \in 1 .. n, j - 1 \in Good PROVE j \in Good
  <2> DEFINE last == c(j - 1)
             p == q[j]
             z == FieldSize(t[j])
             g == F[j - 1]
  <2>1. j \in 0 .. n /\ j - 1 \in 0 .. n
    BY <1>3
  <2>2. Written(j - 1)
    BY <1>14
  <2>3. last \in Seq(Byte) /\ Len(last) = l + s[j - 1] /\ Decodes(k, last, held(j - 1))
    BY <2>2
  <2>4. p \in Seq(Byte) /\ Len(p) = z /\ z \in Nat /\ g \in Seq(Byte)
    BY <1>6, <1>10, <2>1
  <2>5. c(j) = last \o p
    <3>1. c(j) = b \o (g \o p) /\ last = b \o g
      BY <1>10
    <3> HIDE DEF c, last, p, g
    <3>2. b \in Seq(Byte) /\ g \in Seq(Byte) /\ p \in Seq(Byte)
      BY <1>1, <2>4
    <3>3. (b \o g) \o p = b \o (g \o p)
      BY ONLY <3>2, ConcatAssociative, SMTT(30)
    <3> QED
      BY <3>1, <3>3
  <2>6. ElementBehind(k, last, u, num, x, j)
    <3>1. Decodes(k, last, [u EXCEPT ![f.name] = SubSeq(x, 1, j - 1)])
      BY <2>3 DEF held
    <3> HIDE DEF last
    <3> QED
      BY <1>1, <1>2, <1>16, <3>1 DEF ElementBehind, n
  <2> HIDE DEF last
  <2>7. Decodes(k, last \o Put(num, ElementBytes(f, x[j])), held(j))
    BY <2>6, ElementWritten DEF held
  <2>8. p = Put(num, ElementBytes(f, x[j]))
    BY <1>7
  <2> HIDE DEF p
  <2>9. last \o p \in Seq(Byte) /\ Len(last \o p) = Len(last) + Len(p)
    BY <2>3, <2>4, Parts
  <2>10. s[j] = s[j - 1] + z
    BY <1>11
  <2> HIDE DEF z, c, g
  <2>11. Len(c(j)) = l + s[j]
    <3>1. Len(c(j)) = (l + s[j - 1]) + z
      BY <2>3, <2>4, <2>5, <2>9
    <3>2. s[j - 1] \in Nat /\ l \in Nat
      BY <1>1, <1>11, <2>1, SMTT(30)
    <3> QED
      BY <2>4, <2>10, <3>1, <3>2
  <2>12. c(j) \in Seq(Byte) /\ Decodes(k, c(j), held(j))
    BY <2>5, <2>7, <2>8, <2>9
  <2> QED
    BY <2>1, <2>11, <2>12
<1>15. Written(n)
  <2>1. \A j \in 0 .. n : j \in Good
    <3> HIDE DEF Good
    <3> QED
      BY <1>3, <1>13, <1>14, Iterations
  <2>2. n \in 0 .. n
    BY <1>3
  <2> QED
    BY <2>1, <2>2
<1> QED
  BY <1>1, <1>2, <1>4, <1>5, <1>8, <1>11, <1>12, <1>15 DEF WrittenTo

-----------------------------------------------------------------------------
(* A whole message: its parts in the order of their numbers.               *)

PieceBytes(f, num, x) ==
    CASE f.type = "text" -> PutText(num, x)
      [] f.type = "uint" -> PutUint(num, x)
      [] f.type = "msg"  -> Put(num, EmbBytes(f.of, x))
      [] OTHER           -> PutStrings(num, ListData(f, x))
Part(k, m, num) ==
    IF num \in DOMAIN Fields[k]
    THEN PieceBytes(Fields[k][num], num, m[Fields[k][num].name]) ELSE <<>>
Whole(k, m) ==
    Part(k, m, 1) \o Part(k, m, 2) \o Part(k, m, 3)
    \o Part(k, m, 4) \o Part(k, m, 5) \o Part(k, m, 6)

LEMMA NumberWritten ==
    ASSUME NEW k, NEW m, NEW prev, NEW num, NEW b, NEW l, NextPart(k, m, prev, num, b, l),
           num \in DOMAIN Fields[k], Fields[k][num].type = "uint",
           NEW v, v = m[Fields[k][num].name], v \in Size
    PROVE  WrittenTo(k, m, num, b \o PutUint(num, v), l + UintSize(v))
<1>1. CASE v = 0
  <2>1. PutUint(num, v) = <<>> /\ UintSize(v) = 0
    BY <1>1 DEF PutUint, UintSize
  <2>2. m[Fields[k][num].name] = Zero(Fields[k][num])
    BY <1>1 DEF Zero
  <2> QED
    BY <2>1, <2>2, PartLeftOut
<1>2. CASE v # 0
  <2> DEFINE f == Fields[k][num]
             u == Upto(k, m, num - 1)
             p == PutUint(num, v)
  <2>1. /\ k \in DOMAIN Fields /\ b \in Seq(Byte) /\ Len(b) = l /\ num \in 1 .. 6
        /\ Decodes(k, b, u)
    BY DEF NextPart, WrittenTo
  <2>2. Upto(k, m, num) = [u EXCEPT ![f.name] = v]
    BY <2>1, UptoMore
  <2> HIDE DEF u
  <2>3. NumberBehind(k, b, u, num, v)
    BY <2>1 DEF NumberBehind
  <2>4. Decodes(k, b \o p, Held(u, f, v)) /\ p \in Seq(Byte) /\ Len(p) = UintSize(v)
    BY <1>2, <2>3, NumberDecodes
  <2>5. Held(u, f, v) = [u EXCEPT ![f.name] = v]
    BY DEF Held, Store
  <2> HIDE DEF p
  <2>6. b \o p \in Seq(Byte) /\ Len(b \o p) = Len(b) + Len(p)
    BY <2>1, <2>4, Parts
  <2>7. Len(b \o p) = l + UintSize(v)
    BY <2>1, <2>4, <2>6
  <2> HIDE DEF f
  <2>8. Decodes(k, b \o p, Upto(k, m, num))
    BY <2>2, <2>4, <2>5
  <2> QED
    BY <2>1, <2>6, <2>7, <2>8 DEF WrittenTo, p
<1> QED
  BY <1>1, <1>2

LEMMA MsgWritten ==
    ASSUME NEW k, NEW m, NEW prev, NEW num, NEW b, NEW l, NextPart(k, m, prev, num, b, l),
           num \in DOMAIN Fields[k], Fields[k][num].type = "msg",
           NEW of, of = Fields[k][num].of, of \in Embedded \ {"Coin"},
           NEW x, x = m[Fields[k][num].name], x \in Emb(of)
    PROVE  WrittenTo(k, m, num, b \o Put(num, EmbBytes(of, x)), l + FieldSize(EmbSize(of, x)))
<1> DEFINE data == EmbBytes(of, x)
           f == Fields[k][num]
<1>1. data \in Content /\ Len(data) = EmbSize(of, x) /\ UnmarshalTexts(of, New(of), data) = Done(x)
  <2>1. EmbSize(of, x) < Half
    BY EmbIsSized
  <2> QED
    BY <2>1, EmbIsRead
<1>2. Zero(f) = New(of)
  BY EmbeddedTables DEF Zero
<1> HIDE DEF data
<1>3. Decoded(f, Zero(f), data) = Done(x)
  BY <1>1, <1>2 DEF Decoded
<1>4. DataNext(k, m, prev, num, b, l, data)
  <2>1. f # Amount
    BY DEF Amount, Text
  <2>2. Meaning(f, data) = data /\ Writes(f, data)
    BY <1>1, <2>1 DEF Meaning, Writes
  <2> QED
    BY <1>1, <1>3, <2>2 DEF DataNext
<1>5. WrittenTo(k, m, num, b \o Put(num, data), l + FieldSize(Len(data)))
  BY <1>4, DataWritten
<1> QED
  BY <1>1, <1>5 DEF data

LEMMA PartWritten ==
    ASSUME NEW k, k # "Coin", NEW m, Typed(k, m), NEW prev, NEW num, NEW b, NEW l,
           NextPart(k, m, prev, num, b, l), Piece(k, m, num) < Half
    PROVE  WrittenTo(k, m, num, b \o Part(k, m, num), l + Piece(k, m, num))
<1> DEFINE f == Fields[k][num]
           x == m[f.name]
<1>1. k \in DOMAIN Fields
  BY DEF NextPart, WrittenTo
<1>2. CASE num \notin DOMAIN Fields[k]
  <2>1. Part(k, m, num) = <<>> /\ Piece(k, m, num) = 0
    BY <1>2 DEF Part, Piece
  <2> QED
    BY <1>2, <2>1, PartLeftOut
<1>3. CASE num \in DOMAIN Fields[k]
  <2>1. Declares(f) /\ x \in Values(f)
    BY <1>1, <1>3, TablesDeclare DEF Typed
  <2>2. Part(k, m, num) = PieceBytes(f, num, x) /\ Piece(k, m, num) = PieceSize(f, x)
    BY <1>3 DEF Part, Piece
  <2>3. CASE f.type = "text"
    <3>1. Part(k, m, num) = PutText(num, x) /\ Piece(k, m, num) = TextSize(x) /\ x \in Content
      BY <2>1, <2>2, <2>3 DEF PieceBytes, PieceSize, Values
    <3>2. TextNext(k, m, prev, num, b, l)
      BY <1>1, <1>3, <2>3, <3>1, NoAmount DEF TextNext
    <3>3. WrittenTo(k, m, num, b \o PutText(num, x), l + TextSize(x))
      BY <3>2, TextWritten
    <3> QED
      BY <3>1, <3>3
  <2>4. CASE f.type = "uint"
    <3>1. Part(k, m, num) = PutUint(num, x) /\ Piece(k, m, num) = UintSize(x) /\ x \in Size
      BY <2>1, <2>2, <2>4 DEF PieceBytes, PieceSize, Values
    <3>2. WrittenTo(k, m, num, b \o PutUint(num, x), l + UintSize(x))
      BY <1>3, <2>4, <3>1, NumberWritten
    <3> QED
      BY <3>1, <3>2
  <2>5. CASE f.type = "msg"
    <3> DEFINE of == f.of
    <3>1. Part(k, m, num) = Put(num, EmbBytes(of, x)) /\ Piece(k, m, num) = FieldSize(EmbSize(of, x))
          /\ x \in Emb(of) /\ of \in Embedded \ {"Coin"}
      BY <2>1, <2>2, <2>5 DEF PieceBytes, PieceSize, Values, Declares
    <3>2. WrittenTo(k, m, num, b \o Put(num, EmbBytes(of, x)), l + FieldSize(EmbSize(of, x)))
      BY <1>3, <2>5, <3>1, MsgWritten
    <3> QED
      BY <3>1, <3>2
  <2>6. CASE f.type \in {"strings", "msgs"}
    <3>1. Part(k, m, num) = PutStrings(num, ListData(f, x)) /\ Piece(k, m, num) = ListSize(SizesOf(f, x))
      BY <2>2, <2>6 DEF PieceBytes, PieceSize
    <3>2. Repeated(f) /\ x \in Seq(Elements(f))
      BY <2>1, <2>6 DEF Repeated, Values, Elements
    <3>3. ListNext(k, m, prev, num, b, l)
      BY <1>3, <3>2 DEF ListNext
    <3>4. WrittenTo(k, m, num, b \o PutStrings(num, ListData(f, x)), l + ListSize(SizesOf(f, x)))
      BY <3>1, <3>3, ListWritten
    <3> QED
      BY <3>1, <3>4
  <2> QED
    BY <2>1, <2>3, <2>4, <2>5, <2>6 DEF Declares
<1> QED
  BY <1>2, <1>3

LEMMA PartIsBytes ==
    ASSUME NEW k \in DOMAIN Fields, NEW m, Typed(k, m), NEW num \in 1 .. 6
    PROVE  Part(k, m, num) \in Seq(Byte)
<1> DEFINE f == Fields[k][num]
           x == m[f.name]
<1>1. CASE num \notin DOMAIN Fields[k]
  BY <1>1 DEF Part
<1>2. CASE num \in DOMAIN Fields[k]
  <2>1. Declares(f) /\ x \in Values(f) /\ Part(k, m, num) = PieceBytes(f, num, x)
    BY <1>2, TablesDeclare DEF Typed, Part
  <2>2. num \in 1 .. Foreign
    BY DEF Foreign
  <2> HIDE DEF f, x
  <2>3. CASE f.type = "text"
    <3>1. x \in Content /\ PieceBytes(f, num, x) = PutText(num, x)
      BY <2>1, <2>3 DEF PieceBytes, Values
    <3> QED
      BY <2>1, <2>2, <3>1, TextBytes
  <2>4. CASE f.type = "uint"
    <3>1. x \in 0 .. Uint64 - 1 /\ PieceBytes(f, num, x) = PutUint(num, x)
      BY <2>1, <2>4 DEF PieceBytes, Values, Size
    <3>2. EncodeVarint(x, <<>>) \in Seq(Byte) /\ <<num * 8>> \in Seq(Byte)
      <4> DEFINE u == VarintBytes(x)
                 e == <<>>
      <4>1. u \in Seq(Byte) /\ e \in Seq(Byte)
        BY <3>1, VarintsAreBytes
      <4>2. EncodeVarint(x, e) = u \o e
        BY <3>1, <4>1, EncodedVarint
      <4>3. num * 8 \in Byte
        BY DEF Byte
      <4> HIDE DEF u, e
      <4>4. EncodeVarint(x, e) \in Seq(Byte)
        BY <4>1, <4>2, ConcatEmptySeq DEF e
      <4> QED
        BY <4>3, <4>4 DEF e
    <3>3. PutUint(num, x) \in Seq(Byte)
      BY <3>2, Parts DEF PutUint
    <3> QED
      BY <2>1, <3>1, <3>3
  <2>5. CASE f.type = "msg"
    <3> DEFINE of == f.of
               data == EmbBytes(of, x)
    <3>1. of \in Embedded /\ x \in Emb(of) /\ PieceBytes(f, num, x) = Put(num, data)
      BY <2>1, <2>5 DEF PieceBytes, Values, Declares
    <3> HIDE DEF of
    <3>2. data \in Seq(Byte) /\ Len(data) \in Size
      BY <3>1, EmbIsBytes, EmbIsSized
    <3> HIDE DEF data
    <3> QED
      BY <2>1, <2>2, <3>1, <3>2, PutIsBytes
  <2>6. CASE f.type \in {"strings", "msgs"}
    <3> DEFINE q == Puts(f, num, x)
    <3>1. Repeated(f) /\ x \in Seq(Elements(f)) /\ PieceBytes(f, num, x) = PutStrings(num, ListData(f, x))
      BY <2>1, <2>6 DEF Repeated, Values, Elements, PieceBytes
    <3>2. PutStrings(num, ListData(f, x)) = FlattenSeq(q) /\ q \in Seq(Seq(Byte))
      BY <3>1, PutsAreBytes
    <3> HIDE DEF q
    <3>3. PICK F : Joins(q, F) /\ FlattenSeq(q) = F[Len(q)]
      BY <3>2, Flattened
    <3>4. Len(q) \in 0 .. Len(q)
      BY <3>2
    <3>5. F[Len(q)] \in Seq(Byte)
      BY <3>3, <3>4 DEF Joins
    <3> QED
      BY <2>1, <3>1, <3>2, <3>3, <3>5
  <2> QED
    BY <2>1, <2>3, <2>4, <2>5, <2>6 DEF Declares
<1> QED
  BY <1>1, <1>2

LEMMA WholeIsWritten ==
    ASSUME NEW k \in DOMAIN Fields \ {"Coin"}, NEW m, Typed(k, m), Total(k, m) < Half
    PROVE  /\ Whole(k, m) \in Seq(Byte) /\ Len(Whole(k, m)) = Total(k, m)
           /\ Unmarshal(k, Whole(k, m)) = Done(m)
<1> DEFINE e == <<>>
           z == 0
           n1 == 1
           n2 == 2
           n3 == 3
           n4 == 4
           n5 == 5
           n6 == 6
           b1 == e \o Part(k, m, n1)
           b2 == b1 \o Part(k, m, n2)
           b3 == b2 \o Part(k, m, n3)
           b4 == b3 \o Part(k, m, n4)
           b5 == b4 \o Part(k, m, n5)
           b6 == b5 \o Part(k, m, n6)
           l1 == z + Piece(k, m, n1)
           l2 == l1 + Piece(k, m, n2)
           l3 == l2 + Piece(k, m, n3)
           l4 == l3 + Piece(k, m, n4)
           l5 == l4 + Piece(k, m, n5)
           l6 == l5 + Piece(k, m, n6)
<1>1. /\ z = n1 - 1 /\ n1 = n2 - 1 /\ n2 = n3 - 1 /\ n3 = n4 - 1 /\ n4 = n5 - 1 /\ n5 = n6 - 1
      /\ n1 \in 1 .. 6 /\ n2 \in 1 .. 6 /\ n3 \in 1 .. 6 /\ n4 \in 1 .. 6 /\ n5 \in 1 .. 6 /\ n6 \in 1 .. 6
  OBVIOUS
<1>2. m = [x \in FieldNames(k) |-> m[x]]
  BY DEF Typed
<1>3. WrittenTo(k, m, z, e, z)
  BY <1>2, NothingWritten
<1>4. l6 = Total(k, m)
  <2>1. Piece(k, m, n1) \in Nat
    BY PiecesAreParts
  <2>2. l1 = Piece(k, m, n1)
    BY <2>1
  <2> HIDE DEF l1
  <2> QED
    BY <2>2 DEF Total
<1>5. \A j \in DOMAIN Fields[k] : j <= n6
  BY TablesDeclare
<1>6. b1 = Part(k, m, n1) => b6 = Whole(k, m)
  <2> HIDE DEF b1
  <2> QED
    BY DEF Whole
<1>7. n6 \in Nat
  OBVIOUS
<1>18. \A num \in 1 .. 6 : Piece(k, m, num) < Half
  <2>1. \A num \in 1 .. 6 : Piece(k, m, num) \in Nat /\ Piece(k, m, num) <= Total(k, m)
    BY PiecesAreParts
  <2>2. Total(k, m) \in Nat
    BY PiecesAreParts
  <2> QED
    BY <2>1, <2>2, WordSizes
<1> HIDE DEF n1, n2, n3, n4, n5, n6, z, e
<1>8. WrittenTo(k, m, n1, b1, l1)
  <2>1. NextPart(k, m, z, n1, e, z)
    BY <1>1, <1>3 DEF NextPart
  <2> QED
    BY <1>1, <1>18, <2>1, PartWritten
<1> HIDE DEF b1, l1
<1>9. WrittenTo(k, m, n2, b2, l2)
  <2>1. NextPart(k, m, n1, n2, b1, l1)
    BY <1>1, <1>8 DEF NextPart
  <2> QED
    BY <1>1, <1>18, <2>1, PartWritten
<1> HIDE DEF b2, l2
<1>10. WrittenTo(k, m, n3, b3, l3)
  <2>1. NextPart(k, m, n2, n3, b2, l2)
    BY <1>1, <1>9 DEF NextPart
  <2> QED
    BY <1>1, <1>18, <2>1, PartWritten
<1> HIDE DEF b3, l3
<1>11. WrittenTo(k, m, n4, b4, l4)
  <2>1. NextPart(k, m, n3, n4, b3, l3)
    BY <1>1, <1>10 DEF NextPart
  <2> QED
    BY <1>1, <1>18, <2>1, PartWritten
<1> HIDE DEF b4, l4
<1>12. WrittenTo(k, m, n5, b5, l5)
  <2>1. NextPart(k, m, n4, n5, b4, l4)
    BY <1>1, <1>11 DEF NextPart
  <2> QED
    BY <1>1, <1>18, <2>1, PartWritten
<1> HIDE DEF b5, l5
<1>13. WrittenTo(k, m, n6, b6, l6)
  <2>1. NextPart(k, m, n5, n6, b5, l5)
    BY <1>1, <1>12 DEF NextPart
  <2> QED
    BY <1>1, <1>18, <2>1, PartWritten
<1> HIDE DEF b6, l6
<1>14. b6 = Whole(k, m)
  <2> DEFINE p == Part(k, m, n1)
  <2>1. p \in Seq(Byte)
    BY <1>1, PartIsBytes
  <2> HIDE DEF p
  <2>2. e \o p = p
    BY <2>1, ConcatEmptySeq DEF e
  <2> QED
    BY <1>6, <2>2 DEF b1, p
<1>15. b6 \in Seq(Byte) /\ Len(b6) = l6 /\ Decodes(k, b6, Upto(k, m, n6))
  BY <1>13 DEF WrittenTo
<1>16. Upto(k, m, n6) = m
  BY <1>2, <1>5, <1>7, UptoEnds
<1>17. Unmarshal(k, b6) = Done(m)
  BY <1>4, <1>15, <1>16, DecodesAll
<1> QED
  BY <1>4, <1>14, <1>15, <1>17

-----------------------------------------------------------------------------
(* The encoder and the size of every message write its parts.              *)

(* A message has as many parts as its table has fields.                    *)
LEMMA PartsEnd ==
    ASSUME NEW k \in DOMAIN Fields, NEW m, Typed(k, m)
    PROVE  /\ DOMAIN Fields[k] = {} => Whole(k, m) = <<>> /\ Total(k, m) = 0
           /\ DOMAIN Fields[k] = {1} =>
                /\ Whole(k, m) = Part(k, m, 1)
                /\ Total(k, m) = Piece(k, m, 1)
           /\ DOMAIN Fields[k] = {1, 2} =>
                /\ Whole(k, m) = Part(k, m, 1) \o Part(k, m, 2)
                /\ Total(k, m) = Piece(k, m, 1) + Piece(k, m, 2)
           /\ DOMAIN Fields[k] = {1, 2, 3} =>
                /\ Whole(k, m) = Part(k, m, 1) \o Part(k, m, 2) \o Part(k, m, 3)
                /\ Total(k, m) = Piece(k, m, 1) + Piece(k, m, 2) + Piece(k, m, 3)
           /\ DOMAIN Fields[k] = {1, 2, 3, 4} =>
                /\ Whole(k, m) = Part(k, m, 1) \o Part(k, m, 2) \o Part(k, m, 3) \o Part(k, m, 4)
                /\ Total(k, m) = Piece(k, m, 1) + Piece(k, m, 2) + Piece(k, m, 3) + Piece(k, m, 4)
           /\ DOMAIN Fields[k] = {1, 2, 3, 4, 5} =>
                /\ Whole(k, m) = Part(k, m, 1) \o Part(k, m, 2) \o Part(k, m, 3) \o Part(k, m, 4)
                                 \o Part(k, m, 5)
                /\ Total(k, m) = Piece(k, m, 1) + Piece(k, m, 2) + Piece(k, m, 3) + Piece(k, m, 4)
                                 + Piece(k, m, 5)
<1> DEFINE T == DOMAIN Fields[k]
           p1 == Part(k, m, 1)
           p2 == Part(k, m, 2)
           p3 == Part(k, m, 3)
           p4 == Part(k, m, 4)
           p5 == Part(k, m, 5)
           p6 == Part(k, m, 6)
           q2 == p1 \o p2
           q3 == q2 \o p3
           q4 == q3 \o p4
           q5 == q4 \o p5
           q6 == q5 \o p6
           w == Whole(k, m)
           t == Total(k, m)
           s1 == Piece(k, m, 1)
           s2 == Piece(k, m, 2)
           s3 == Piece(k, m, 3)
           s4 == Piece(k, m, 4)
           s5 == Piece(k, m, 5)
           s6 == Piece(k, m, 6)
<1>1. /\ 1 \notin T => p1 = <<>> /\ s1 = 0
      /\ 2 \notin T => p2 = <<>> /\ s2 = 0
      /\ 3 \notin T => p3 = <<>> /\ s3 = 0
      /\ 4 \notin T => p4 = <<>> /\ s4 = 0
      /\ 5 \notin T => p5 = <<>> /\ s5 = 0
      /\ 6 \notin T => p6 = <<>> /\ s6 = 0
  BY DEF Part, Piece
<1>2. /\ s1 \in Nat /\ s2 \in Nat /\ s3 \in Nat /\ s4 \in Nat /\ s5 \in Nat /\ s6 \in Nat
      /\ t = s1 + s2 + s3 + s4 + s5 + s6
  <2>1. /\ s1 \in Nat /\ s2 \in Nat /\ s3 \in Nat /\ s4 \in Nat /\ s5 \in Nat /\ s6 \in Nat
    BY PiecesAreParts
  <2> HIDE DEF s1, s2, s3, s4, s5, s6
  <2> QED
    BY <2>1 DEF Total, s1, s2, s3, s4, s5, s6
<1>3. /\ p1 \in Seq(Byte) /\ p2 \in Seq(Byte) /\ p3 \in Seq(Byte)
      /\ p4 \in Seq(Byte) /\ p5 \in Seq(Byte)
  BY PartIsBytes
<1>4. w = q6
  BY DEF Whole
<1> DEFINE none == <<>>
<1>5. \A p \in Seq(Byte) : p \o none = p
  BY ConcatEmptySeq
<1>6. none \in Seq(Byte)
  OBVIOUS
<1> HIDE DEF p1, p2, p3, p4, p5, p6, s1, s2, s3, s4, s5, s6, w, t, none
<1>7. q2 \in Seq(Byte)
  BY <1>3, Parts
<1> HIDE DEF q2
<1>8. q3 \in Seq(Byte)
  BY <1>3, <1>7, Parts
<1> HIDE DEF q3
<1>9. q4 \in Seq(Byte)
  BY <1>3, <1>8, Parts
<1> HIDE DEF q4
<1>10. q5 \in Seq(Byte)
  BY <1>3, <1>9, Parts
<1> HIDE DEF q5
<1>11. p6 = none => w = q5
  BY <1>4, <1>5, <1>10
<1> HIDE DEF q6
<1>12. p5 = none => q5 = q4
  BY <1>5, <1>9 DEF q5
<1>13. p4 = none => q4 = q3
  BY <1>5, <1>8 DEF q4
<1>14. p3 = none => q3 = q2
  BY <1>5, <1>7 DEF q3
<1>15. p2 = none => q2 = p1
  BY <1>3, <1>5 DEF q2
<1>16. /\ 1 \notin T => p1 = none /\ s1 = 0
       /\ 2 \notin T => p2 = none /\ s2 = 0
       /\ 3 \notin T => p3 = none /\ s3 = 0
       /\ 4 \notin T => p4 = none /\ s4 = 0
       /\ 5 \notin T => p5 = none /\ s5 = 0
       /\ 6 \notin T => p6 = none /\ s6 = 0
  BY <1>1 DEF none
<1> HIDE DEF T
<1>17. T = {} => w = none /\ t = 0
  BY <1>2, <1>11, <1>12, <1>13, <1>14, <1>15, <1>16
<1>18. T = {1} => w = p1 /\ t = s1
  BY <1>2, <1>11, <1>12, <1>13, <1>14, <1>15, <1>16
<1>19. T = {1, 2} => w = q2 /\ t = s1 + s2
  BY <1>2, <1>11, <1>12, <1>13, <1>14, <1>16
<1>20. T = {1, 2, 3} => w = q3 /\ t = s1 + s2 + s3
  BY <1>2, <1>11, <1>12, <1>13, <1>16
<1>21. T = {1, 2, 3, 4} => w = q4 /\ t = s1 + s2 + s3 + s4
  BY <1>2, <1>11, <1>12, <1>16
<1>22. T = {1, 2, 3, 4, 5} => w = q5 /\ t = s1 + s2 + s3 + s4 + s5
  BY <1>2, <1>11, <1>16
<1> QED
  BY <1>17, <1>18, <1>19, <1>20, <1>21, <1>22
     DEF T, w, t, none, q5, q4, q3, q2, p1, p2, p3, p4, p5, s1, s2, s3, s4, s5

(* What each branch of an encoder, and of a size, does with its field.     *)
LEMMA FieldParts ==
    ASSUME NEW k \in DOMAIN Fields, NEW m, Typed(k, m),
           NEW num \in DOMAIN Fields[k], NEW n, NEW x, x = m[n]
    PROVE  /\ Fields[k][num] = Text(n) => Part(k, m, num) = PutText(num, x) /\ Piece(k, m, num) = TextSize(x)
           /\ Fields[k][num] = Uint(n) => Part(k, m, num) = PutUint(num, x) /\ Piece(k, m, num) = UintSize(x)
           /\ Fields[k][num] = Msg(n, "Params") =>
                /\ Part(k, m, num) = Put(num, ParamsBytes(x))
                /\ Piece(k, m, num) = FieldSize(ParamsSize(x))
           /\ Fields[k][num] = Strings(n) =>
                Part(k, m, num) = PutStrings(num, x) /\ Piece(k, m, num) = StringsSize(x)
           /\ Fields[k][num] = Msgs(n, "Coin") =>
                Part(k, m, num) = PutCoins(num, x) /\ Piece(k, m, num) = CoinsSize(x)
           /\ Fields[k][num] = Msgs(n, "KVPair") =>
                Part(k, m, num) = PutPairs(num, x) /\ Piece(k, m, num) = PairsSize(x)
<1> DEFINE f == Fields[k][num]
<1>1. Part(k, m, num) = PieceBytes(f, num, m[f.name]) /\ Piece(k, m, num) = PieceSize(f, m[f.name])
  BY DEF Part, Piece
<1>2. m[f.name] \in Values(f)
  BY DEF Typed
<1> HIDE DEF f
<1>3. ASSUME f = Text(n)
      PROVE  Part(k, m, num) = PutText(num, x) /\ Piece(k, m, num) = TextSize(x)
  <2>1. f.type = "text" /\ f.name = n
    BY <1>3 DEF Text
  <2> QED
    BY <1>1, <2>1 DEF PieceBytes, PieceSize
<1>4. ASSUME f = Uint(n)
      PROVE  Part(k, m, num) = PutUint(num, x) /\ Piece(k, m, num) = UintSize(x)
  <2>1. f.type = "uint" /\ f.name = n
    BY <1>4 DEF Uint
  <2> QED
    BY <1>1, <2>1 DEF PieceBytes, PieceSize
<1>5. ASSUME f = Msg(n, "Params")
      PROVE  Part(k, m, num) = Put(num, ParamsBytes(x)) /\ Piece(k, m, num) = FieldSize(ParamsSize(x))
  <2>1. f.type = "msg" /\ f.name = n /\ f.of = "Params"
    BY <1>5 DEF Msg
  <2>2. EmbBytes("Params", x) = ParamsBytes(x) /\ EmbSize("Params", x) = ParamsSize(x)
    BY DEF EmbBytes, EmbSize
  <2> QED
    BY <1>1, <2>1, <2>2 DEF PieceBytes, PieceSize
<1>6. ASSUME f = Strings(n)
      PROVE  Part(k, m, num) = PutStrings(num, x) /\ Piece(k, m, num) = StringsSize(x)
  <2>1. f.type = "strings" /\ f.name = n
    BY <1>6 DEF Strings
  <2>2. x \in Seq(Content)
    BY <1>2, <2>1 DEF Values
  <2>3. ListData(f, x) = x
    <3>1. ListData(f, x) = [j \in DOMAIN x |-> x[j]]
      BY <2>1 DEF ListData, ElementBytes
    <3> QED
      BY <2>2, <3>1
  <2>4. ListSize(SizesOf(f, x)) = StringsSize(x)
    BY <2>1 DEF SizesOf, ElementSize, StringsSize
  <2> QED
    BY <1>1, <2>1, <2>3, <2>4 DEF PieceBytes, PieceSize
<1>7. ASSUME f = Msgs(n, "Coin")
      PROVE  Part(k, m, num) = PutCoins(num, x) /\ Piece(k, m, num) = CoinsSize(x)
  <2>1. f.type = "msgs" /\ f.name = n /\ f.of = "Coin"
    BY <1>7 DEF Msgs
  <2>2. ListData(f, x) = [j \in DOMAIN x |-> CoinBytes(x[j])]
    BY <2>1 DEF ListData, ElementBytes, EmbBytes
  <2>3. ListSize(SizesOf(f, x)) = CoinsSize(x)
    BY <2>1 DEF SizesOf, ElementSize, EmbSize, CoinsSize
  <2> QED
    BY <1>1, <2>1, <2>2, <2>3 DEF PieceBytes, PieceSize, PutCoins
<1>8. ASSUME f = Msgs(n, "KVPair")
      PROVE  Part(k, m, num) = PutPairs(num, x) /\ Piece(k, m, num) = PairsSize(x)
  <2>1. f.type = "msgs" /\ f.name = n /\ f.of = "KVPair"
    BY <1>8 DEF Msgs
  <2>2. ListData(f, x) = [j \in DOMAIN x |-> KVPairBytes(x[j])]
    BY <2>1 DEF ListData, ElementBytes, EmbBytes
  <2>3. ListSize(SizesOf(f, x)) = PairsSize(x)
    BY <2>1 DEF SizesOf, ElementSize, EmbSize, PairsSize
  <2> QED
    BY <1>1, <2>1, <2>2, <2>3 DEF PieceBytes, PieceSize, PutPairs
<1> QED
  BY <1>3, <1>4, <1>5, <1>6, <1>7, <1>8 DEF f

(* What is written and counted are the parts of m.                         *)
MarshalsParts(k, m) == BytesOf(k, m) = Whole(k, m) /\ SizeOf(k, m) = Total(k, m)

LEMMA NoPart ==
    ASSUME NEW k \in DOMAIN Fields, NEW m, Typed(k, m), Fields[k] = <<>>
    PROVE  Whole(k, m) = <<>> /\ Total(k, m) = 0
<1>1. DOMAIN Fields[k] = {}
  OBVIOUS
<1> QED
  BY <1>1, PartsEnd

LEMMA OneText ==
    ASSUME NEW k \in DOMAIN Fields, NEW m, Typed(k, m), NEW n, Fields[k] = <<Text(n)>>
    PROVE  Whole(k, m) = PutText(1, m[n]) /\ Total(k, m) = TextSize(m[n])
<1>1. DOMAIN Fields[k] = {1} /\ Fields[k][1] = Text(n)
  OBVIOUS
<1>2. 1 \in DOMAIN Fields[k]
  BY <1>1
<1>3. Part(k, m, 1) = PutText(1, m[n]) /\ Piece(k, m, 1) = TextSize(m[n])
  <2> DEFINE one == 1
  <2>1. one \in DOMAIN Fields[k] /\ Fields[k][one] = Text(n)
    BY <1>1, <1>2
  <2> HIDE DEF one
  <2>2. Part(k, m, one) = PutText(one, m[n]) /\ Piece(k, m, one) = TextSize(m[n])
    BY <2>1, FieldParts
  <2> QED
    BY <2>2 DEF one
<1> QED
  BY <1>1, <1>3, PartsEnd

(* The messages without a field, and those of one text.                    *)
LEMMA ShortParts ==
    ASSUME NEW m, NEW k \in {"MsgUpdateParamsResponse", "MsgAddPackageResponse", "QueryParamsRequest",
                              "Module",
                              "MsgCallResponse",
                              "MsgRunResponse",
                              "QueryInfoRequest",
                              "QueryInfoResponse",
                              "QueryRealmStorageRequest",
                              "QueryRealmStorageResponse",
                              "QueryEvalResponse"}, Typed(k, m)
    PROVE  MarshalsParts(k, m)
<1>1. CASE k = "MsgUpdateParamsResponse"
  <2>1. k \in DOMAIN Fields /\ Fields[k] = <<>>
    BY <1>1 DEF Fields, MsgUpdateParamsResponseFields
  <2>2. Whole(k, m) = MsgUpdateParamsResponseBytes(m) /\ Total(k, m) = MsgUpdateParamsResponseSize(m)
    BY <2>1, NoPart DEF MsgUpdateParamsResponseBytes, MsgUpdateParamsResponseSize
  <2>3. BytesOf(k, m) = MsgUpdateParamsResponseBytes(m) /\ SizeOf(k, m) = MsgUpdateParamsResponseSize(m)
    BY <1>1 DEF BytesOf, SizeOf
  <2> QED
    BY <2>2, <2>3 DEF MarshalsParts
<1>2. CASE k = "MsgAddPackageResponse"
  <2>1. k \in DOMAIN Fields /\ Fields[k] = <<>>
    BY <1>2 DEF Fields, MsgAddPackageResponseFields
  <2>2. Whole(k, m) = MsgAddPackageResponseBytes(m) /\ Total(k, m) = MsgAddPackageResponseSize(m)
    BY <2>1, NoPart DEF MsgAddPackageResponseBytes, MsgAddPackageResponseSize
  <2>3. BytesOf(k, m) = MsgAddPackageResponseBytes(m) /\ SizeOf(k, m) = MsgAddPackageResponseSize(m)
    BY <1>2 DEF BytesOf, SizeOf
  <2> QED
    BY <2>2, <2>3 DEF MarshalsParts
<1>3. CASE k = "QueryParamsRequest"
  <2>1. k \in DOMAIN Fields /\ Fields[k] = <<>>
    BY <1>3 DEF Fields, QueryParamsRequestFields
  <2>2. Whole(k, m) = QueryParamsRequestBytes(m) /\ Total(k, m) = QueryParamsRequestSize(m)
    BY <2>1, NoPart DEF QueryParamsRequestBytes, QueryParamsRequestSize
  <2>3. BytesOf(k, m) = QueryParamsRequestBytes(m) /\ SizeOf(k, m) = QueryParamsRequestSize(m)
    BY <1>3 DEF BytesOf, SizeOf
  <2> QED
    BY <2>2, <2>3 DEF MarshalsParts
<1>4. CASE k = "Module"
  <2>1. k \in DOMAIN Fields /\ Fields[k] = <<Text("authority")>>
    BY <1>4 DEF Fields, ModuleFields
  <2>2. Whole(k, m) = ModuleBytes(m) /\ Total(k, m) = ModuleSize(m)
    BY <2>1, OneText DEF ModuleBytes, ModuleSize
  <2>3. BytesOf(k, m) = ModuleBytes(m) /\ SizeOf(k, m) = ModuleSize(m)
    BY <1>4 DEF BytesOf, SizeOf
  <2> QED
    BY <2>2, <2>3 DEF MarshalsParts
<1>5. CASE k = "MsgCallResponse"
  <2>1. k \in DOMAIN Fields /\ Fields[k] = <<Text("result")>>
    BY <1>5 DEF Fields, MsgCallResponseFields
  <2>2. Whole(k, m) = MsgCallResponseBytes(m) /\ Total(k, m) = MsgCallResponseSize(m)
    BY <2>1, OneText DEF MsgCallResponseBytes, MsgCallResponseSize
  <2>3. BytesOf(k, m) = MsgCallResponseBytes(m) /\ SizeOf(k, m) = MsgCallResponseSize(m)
    BY <1>5 DEF BytesOf, SizeOf
  <2> QED
    BY <2>2, <2>3 DEF MarshalsParts
<1>6. CASE k = "MsgRunResponse"
  <2>1. k \in DOMAIN Fields /\ Fields[k] = <<Text("result")>>
    BY <1>6 DEF Fields, MsgRunResponseFields
  <2>2. Whole(k, m) = MsgRunResponseBytes(m) /\ Total(k, m) = MsgRunResponseSize(m)
    BY <2>1, OneText DEF MsgRunResponseBytes, MsgRunResponseSize
  <2>3. BytesOf(k, m) = MsgRunResponseBytes(m) /\ SizeOf(k, m) = MsgRunResponseSize(m)
    BY <1>6 DEF BytesOf, SizeOf
  <2> QED
    BY <2>2, <2>3 DEF MarshalsParts
<1>7. CASE k = "QueryInfoRequest"
  <2>1. k \in DOMAIN Fields /\ Fields[k] = <<Text("pkg_path")>>
    BY <1>7 DEF Fields, QueryInfoRequestFields
  <2>2. Whole(k, m) = QueryInfoRequestBytes(m) /\ Total(k, m) = QueryInfoRequestSize(m)
    BY <2>1, OneText DEF QueryInfoRequestBytes, QueryInfoRequestSize
  <2>3. BytesOf(k, m) = QueryInfoRequestBytes(m) /\ SizeOf(k, m) = QueryInfoRequestSize(m)
    BY <1>7 DEF BytesOf, SizeOf
  <2> QED
    BY <2>2, <2>3 DEF MarshalsParts
<1>8. CASE k = "QueryInfoResponse"
  <2>1. k \in DOMAIN Fields /\ Fields[k] = <<Text("result")>>
    BY <1>8 DEF Fields, QueryInfoResponseFields
  <2>2. Whole(k, m) = QueryInfoResponseBytes(m) /\ Total(k, m) = QueryInfoResponseSize(m)
    BY <2>1, OneText DEF QueryInfoResponseBytes, QueryInfoResponseSize
  <2>3. BytesOf(k, m) = QueryInfoResponseBytes(m) /\ SizeOf(k, m) = QueryInfoResponseSize(m)
    BY <1>8 DEF BytesOf, SizeOf
  <2> QED
    BY <2>2, <2>3 DEF MarshalsParts
<1>9. CASE k = "QueryRealmStorageRequest"
  <2>1. k \in DOMAIN Fields /\ Fields[k] = <<Text("pkg_path")>>
    BY <1>9 DEF Fields, QueryRealmStorageRequestFields
  <2>2. Whole(k, m) = QueryRealmStorageRequestBytes(m) /\ Total(k, m) = QueryRealmStorageRequestSize(m)
    BY <2>1, OneText DEF QueryRealmStorageRequestBytes, QueryRealmStorageRequestSize
  <2>3. BytesOf(k, m) = QueryRealmStorageRequestBytes(m) /\ SizeOf(k, m) = QueryRealmStorageRequestSize(m)
    BY <1>9 DEF BytesOf, SizeOf
  <2> QED
    BY <2>2, <2>3 DEF MarshalsParts
<1>10. CASE k = "QueryRealmStorageResponse"
  <2>1. k \in DOMAIN Fields /\ Fields[k] = <<Text("result")>>
    BY <1>10 DEF Fields, QueryRealmStorageResponseFields
  <2>2. Whole(k, m) = QueryRealmStorageResponseBytes(m) /\ Total(k, m) = QueryRealmStorageResponseSize(m)
    BY <2>1, OneText DEF QueryRealmStorageResponseBytes, QueryRealmStorageResponseSize
  <2>3. BytesOf(k, m) = QueryRealmStorageResponseBytes(m) /\ SizeOf(k, m) = QueryRealmStorageResponseSize(m)
    BY <1>10 DEF BytesOf, SizeOf
  <2> QED
    BY <2>2, <2>3 DEF MarshalsParts
<1>11. CASE k = "QueryEvalResponse"
  <2>1. k \in DOMAIN Fields /\ Fields[k] = <<Text("result")>>
    BY <1>11 DEF Fields, QueryEvalResponseFields
  <2>2. Whole(k, m) = QueryEvalResponseBytes(m) /\ Total(k, m) = QueryEvalResponseSize(m)
    BY <2>1, OneText DEF QueryEvalResponseBytes, QueryEvalResponseSize
  <2>3. BytesOf(k, m) = QueryEvalResponseBytes(m) /\ SizeOf(k, m) = QueryEvalResponseSize(m)
    BY <1>11 DEF BytesOf, SizeOf
  <2> QED
    BY <2>2, <2>3 DEF MarshalsParts
<1> QED
  BY <1>1, <1>2, <1>3, <1>4, <1>4, <1>5, <1>6, <1>7, <1>8, <1>9, <1>10, <1>11

LEMMA ParamsParts ==
    ASSUME NEW m, Typed("Params", m)
    PROVE  MarshalsParts("Params", m)
<1> DEFINE k == "Params"
           n1 == 1
           n2 == 2
           n3 == 3
           n4 == 4
           n5 == 5
<1>1. /\ k \in DOMAIN Fields /\ DOMAIN Fields[k] = {1, 2, 3, 4, 5}
      /\ n1 \in DOMAIN Fields[k] /\ Fields[k][n1] = Text("sysnames_pkgpath")
      /\ n2 \in DOMAIN Fields[k] /\ Fields[k][n2] = Text("chain_domain")
      /\ n3 \in DOMAIN Fields[k] /\ Fields[k][n3] = Text("default_deposit")
      /\ n4 \in DOMAIN Fields[k] /\ Fields[k][n4] = Text("storage_price")
      /\ n5 \in DOMAIN Fields[k] /\ Fields[k][n5] = Text("storage_fee_collector")
  BY DEF Fields, ParamsFields
<1> HIDE DEF n1, n2, n3, n4, n5
<1>2. /\ Part(k, m, n1) = PutText(n1, m.sysnames_pkgpath)
      /\ Piece(k, m, n1) = TextSize(m.sysnames_pkgpath)
  BY <1>1, FieldParts
<1>3. /\ Part(k, m, n2) = PutText(n2, m.chain_domain)
      /\ Piece(k, m, n2) = TextSize(m.chain_domain)
  BY <1>1, FieldParts
<1>4. /\ Part(k, m, n3) = PutText(n3, m.default_deposit)
      /\ Piece(k, m, n3) = TextSize(m.default_deposit)
  BY <1>1, FieldParts
<1>5. /\ Part(k, m, n4) = PutText(n4, m.storage_price)
      /\ Piece(k, m, n4) = TextSize(m.storage_price)
  BY <1>1, FieldParts
<1>6. /\ Part(k, m, n5) = PutText(n5, m.storage_fee_collector)
      /\ Piece(k, m, n5) = TextSize(m.storage_fee_collector)
  BY <1>1, FieldParts
<1>7. /\ Whole(k, m) = Part(k, m, 1) \o Part(k, m, 2) \o Part(k, m, 3)
                       \o Part(k, m, 4) \o Part(k, m, 5)
      /\ Total(k, m) = Piece(k, m, 1) + Piece(k, m, 2) + Piece(k, m, 3)
                       + Piece(k, m, 4) + Piece(k, m, 5)
  BY <1>1, PartsEnd
<1>8. Whole(k, m) = ParamsBytes(m) /\ Total(k, m) = ParamsSize(m)
  BY <1>2, <1>3, <1>4, <1>5, <1>6, <1>7 DEF ParamsBytes, ParamsSize, n1, n2, n3, n4, n5
<1>9. BytesOf(k, m) = ParamsBytes(m) /\ SizeOf(k, m) = ParamsSize(m)
  BY DEF BytesOf, SizeOf
<1> QED
  BY <1>8, <1>9 DEF MarshalsParts

LEMMA KVPairParts ==
    ASSUME NEW m, Typed("KVPair", m)
    PROVE  MarshalsParts("KVPair", m)
<1> DEFINE k == "KVPair"
           n1 == 1
           n2 == 2
<1>1. /\ k \in DOMAIN Fields /\ DOMAIN Fields[k] = {1, 2}
      /\ n1 \in DOMAIN Fields[k] /\ Fields[k][n1] = Text("key")
      /\ n2 \in DOMAIN Fields[k] /\ Fields[k][n2] = Text("value")
  BY DEF Fields, KVPairFields
<1> HIDE DEF n1, n2
<1>2. /\ Part(k, m, n1) = PutText(n1, m.key)
      /\ Piece(k, m, n1) = TextSize(m.key)
  BY <1>1, FieldParts
<1>3. /\ Part(k, m, n2) = PutText(n2, m.value)
      /\ Piece(k, m, n2) = TextSize(m.value)
  BY <1>1, FieldParts
<1>4. /\ Whole(k, m) = Part(k, m, 1) \o Part(k, m, 2)
      /\ Total(k, m) = Piece(k, m, 1) + Piece(k, m, 2)
  BY <1>1, PartsEnd
<1>5. Whole(k, m) = KVPairBytes(m) /\ Total(k, m) = KVPairSize(m)
  BY <1>2, <1>3, <1>4 DEF KVPairBytes, KVPairSize, n1, n2
<1>6. BytesOf(k, m) = KVPairBytes(m) /\ SizeOf(k, m) = KVPairSize(m)
  BY DEF BytesOf, SizeOf
<1> QED
  BY <1>5, <1>6 DEF MarshalsParts

LEMMA GenesisStateParts ==
    ASSUME NEW m, Typed("GenesisState", m)
    PROVE  MarshalsParts("GenesisState", m)
<1> DEFINE k == "GenesisState"
           n1 == 1
           n2 == 2
           n3 == 3
<1>1. /\ k \in DOMAIN Fields /\ DOMAIN Fields[k] = {1, 2, 3}
      /\ n1 \in DOMAIN Fields[k] /\ Fields[k][n1] = Msg("params", "Params")
      /\ n2 \in DOMAIN Fields[k] /\ Fields[k][n2] = Text("realm_params")
      /\ n3 \in DOMAIN Fields[k] /\ Fields[k][n3] = Msgs("state", "KVPair")
  BY DEF Fields, GenesisStateFields
<1> HIDE DEF n1, n2, n3
<1>2. /\ Part(k, m, n1) = Put(n1, ParamsBytes(m.params))
      /\ Piece(k, m, n1) = FieldSize(ParamsSize(m.params))
  BY <1>1, FieldParts
<1>3. /\ Part(k, m, n2) = PutText(n2, m.realm_params)
      /\ Piece(k, m, n2) = TextSize(m.realm_params)
  BY <1>1, FieldParts
<1>4. /\ Part(k, m, n3) = PutPairs(n3, m.state)
      /\ Piece(k, m, n3) = PairsSize(m.state)
  BY <1>1, FieldParts
<1>5. /\ Whole(k, m) = Part(k, m, 1) \o Part(k, m, 2) \o Part(k, m, 3)
      /\ Total(k, m) = Piece(k, m, 1) + Piece(k, m, 2) + Piece(k, m, 3)
  BY <1>1, PartsEnd
<1>6. Whole(k, m) = GenesisStateBytes(m) /\ Total(k, m) = GenesisStateSize(m)
  BY <1>2, <1>3, <1>4, <1>5 DEF GenesisStateBytes, GenesisStateSize, n1, n2, n3
<1>7. BytesOf(k, m) = GenesisStateBytes(m) /\ SizeOf(k, m) = GenesisStateSize(m)
  BY DEF BytesOf, SizeOf
<1> QED
  BY <1>6, <1>7 DEF MarshalsParts

LEMMA MsgUpdateParamsParts ==
    ASSUME NEW m, Typed("MsgUpdateParams", m)
    PROVE  MarshalsParts("MsgUpdateParams", m)
<1> DEFINE k == "MsgUpdateParams"
           n1 == 1
           n2 == 2
<1>1. /\ k \in DOMAIN Fields /\ DOMAIN Fields[k] = {1, 2}
      /\ n1 \in DOMAIN Fields[k] /\ Fields[k][n1] = Text("authority")
      /\ n2 \in DOMAIN Fields[k] /\ Fields[k][n2] = Msg("params", "Params")
  BY DEF Fields, MsgUpdateParamsFields
<1> HIDE DEF n1, n2
<1>2. /\ Part(k, m, n1) = PutText(n1, m.authority)
      /\ Piece(k, m, n1) = TextSize(m.authority)
  BY <1>1, FieldParts
<1>3. /\ Part(k, m, n2) = Put(n2, ParamsBytes(m.params))
      /\ Piece(k, m, n2) = FieldSize(ParamsSize(m.params))
  BY <1>1, FieldParts
<1>4. /\ Whole(k, m) = Part(k, m, 1) \o Part(k, m, 2)
      /\ Total(k, m) = Piece(k, m, 1) + Piece(k, m, 2)
  BY <1>1, PartsEnd
<1>5. Whole(k, m) = MsgUpdateParamsBytes(m) /\ Total(k, m) = MsgUpdateParamsSize(m)
  BY <1>2, <1>3, <1>4 DEF MsgUpdateParamsBytes, MsgUpdateParamsSize, n1, n2
<1>6. BytesOf(k, m) = MsgUpdateParamsBytes(m) /\ SizeOf(k, m) = MsgUpdateParamsSize(m)
  BY DEF BytesOf, SizeOf
<1> QED
  BY <1>5, <1>6 DEF MarshalsParts

LEMMA MsgAddPackageParts ==
    ASSUME NEW m, Typed("MsgAddPackage", m)
    PROVE  MarshalsParts("MsgAddPackage", m)
<1> DEFINE k == "MsgAddPackage"
           n1 == 1
           n2 == 2
           n3 == 3
           n4 == 4
<1>1. /\ k \in DOMAIN Fields /\ DOMAIN Fields[k] = {1, 2, 3, 4}
      /\ n1 \in DOMAIN Fields[k] /\ Fields[k][n1] = Text("creator")
      /\ n2 \in DOMAIN Fields[k] /\ Fields[k][n2] = Msgs("send", "Coin")
      /\ n3 \in DOMAIN Fields[k] /\ Fields[k][n3] = Msgs("max_deposit", "Coin")
      /\ n4 \in DOMAIN Fields[k] /\ Fields[k][n4] = Text("package")
  BY DEF Fields, MsgAddPackageFields
<1> HIDE DEF n1, n2, n3, n4
<1>2. /\ Part(k, m, n1) = PutText(n1, m.creator)
      /\ Piece(k, m, n1) = TextSize(m.creator)
  BY <1>1, FieldParts
<1>3. /\ Part(k, m, n2) = PutCoins(n2, m.send)
      /\ Piece(k, m, n2) = CoinsSize(m.send)
  BY <1>1, FieldParts
<1>4. /\ Part(k, m, n3) = PutCoins(n3, m.max_deposit)
      /\ Piece(k, m, n3) = CoinsSize(m.max_deposit)
  BY <1>1, FieldParts
<1>5. /\ Part(k, m, n4) = PutText(n4, m.package)
      /\ Piece(k, m, n4) = TextSize(m.package)
  BY <1>1, FieldParts
<1>6. /\ Whole(k, m) = Part(k, m, 1) \o Part(k, m, 2) \o Part(k, m, 3)
                       \o Part(k, m, 4)
      /\ Total(k, m) = Piece(k, m, 1) + Piece(k, m, 2) + Piece(k, m, 3)
                       + Piece(k, m, 4)
  BY <1>1, PartsEnd
<1>7. Whole(k, m) = MsgAddPackageBytes(m) /\ Total(k, m) = MsgAddPackageSize(m)
  BY <1>2, <1>3, <1>4, <1>5, <1>6 DEF MsgAddPackageBytes, MsgAddPackageSize, n1, n2, n3, n4
<1>8. BytesOf(k, m) = MsgAddPackageBytes(m) /\ SizeOf(k, m) = MsgAddPackageSize(m)
  BY DEF BytesOf, SizeOf
<1> QED
  BY <1>7, <1>8 DEF MarshalsParts

LEMMA MsgCallParts ==
    ASSUME NEW m, Typed("MsgCall", m)
    PROVE  MarshalsParts("MsgCall", m)
<1> DEFINE k == "MsgCall"
           n1 == 1
           n2 == 2
           n3 == 3
           n4 == 4
           n5 == 5
           n6 == 6
<1>1. /\ k \in DOMAIN Fields /\ DOMAIN Fields[k] = {1, 2, 3, 4, 5, 6}
      /\ n1 \in DOMAIN Fields[k] /\ Fields[k][n1] = Text("caller")
      /\ n2 \in DOMAIN Fields[k] /\ Fields[k][n2] = Msgs("send", "Coin")
      /\ n3 \in DOMAIN Fields[k] /\ Fields[k][n3] = Msgs("max_deposit", "Coin")
      /\ n4 \in DOMAIN Fields[k] /\ Fields[k][n4] = Text("pkg_path")
      /\ n5 \in DOMAIN Fields[k] /\ Fields[k][n5] = Text("function")
      /\ n6 \in DOMAIN Fields[k] /\ Fields[k][n6] = Strings("args")
  BY DEF Fields, MsgCallFields
<1> HIDE DEF n1, n2, n3, n4, n5, n6
<1>2. /\ Part(k, m, n1) = PutText(n1, m.caller)
      /\ Piece(k, m, n1) = TextSize(m.caller)
  BY <1>1, FieldParts
<1>3. /\ Part(k, m, n2) = PutCoins(n2, m.send)
      /\ Piece(k, m, n2) = CoinsSize(m.send)
  BY <1>1, FieldParts
<1>4. /\ Part(k, m, n3) = PutCoins(n3, m.max_deposit)
      /\ Piece(k, m, n3) = CoinsSize(m.max_deposit)
  BY <1>1, FieldParts
<1>5. /\ Part(k, m, n4) = PutText(n4, m.pkg_path)
      /\ Piece(k, m, n4) = TextSize(m.pkg_path)
  BY <1>1, FieldParts
<1>6. /\ Part(k, m, n5) = PutText(n5, m.function)
      /\ Piece(k, m, n5) = TextSize(m.function)
  BY <1>1, FieldParts
<1>7. /\ Part(k, m, n6) = PutStrings(n6, m.args)
      /\ Piece(k, m, n6) = StringsSize(m.args)
  BY <1>1, FieldParts
<1>8. /\ Whole(k, m) = Part(k, m, 1) \o Part(k, m, 2) \o Part(k, m, 3)
                       \o Part(k, m, 4) \o Part(k, m, 5) \o Part(k, m, 6)
      /\ Total(k, m) = Piece(k, m, 1) + Piece(k, m, 2) + Piece(k, m, 3)
                       + Piece(k, m, 4) + Piece(k, m, 5) + Piece(k, m, 6)
  BY DEF Whole, Total
<1>9. Whole(k, m) = MsgCallBytes(m) /\ Total(k, m) = MsgCallSize(m)
  BY <1>2, <1>3, <1>4, <1>5, <1>6, <1>7, <1>8 DEF MsgCallBytes, MsgCallSize, n1, n2, n3, n4, n5, n6
<1>10. BytesOf(k, m) = MsgCallBytes(m) /\ SizeOf(k, m) = MsgCallSize(m)
  BY DEF BytesOf, SizeOf
<1> QED
  BY <1>9, <1>10 DEF MarshalsParts

LEMMA MsgRunParts ==
    ASSUME NEW m, Typed("MsgRun", m)
    PROVE  MarshalsParts("MsgRun", m)
<1> DEFINE k == "MsgRun"
           n1 == 1
           n2 == 2
           n3 == 3
           n4 == 4
<1>1. /\ k \in DOMAIN Fields /\ DOMAIN Fields[k] = {1, 2, 3, 4}
      /\ n1 \in DOMAIN Fields[k] /\ Fields[k][n1] = Text("caller")
      /\ n2 \in DOMAIN Fields[k] /\ Fields[k][n2] = Msgs("send", "Coin")
      /\ n3 \in DOMAIN Fields[k] /\ Fields[k][n3] = Msgs("max_deposit", "Coin")
      /\ n4 \in DOMAIN Fields[k] /\ Fields[k][n4] = Text("pkg")
  BY DEF Fields, MsgRunFields
<1> HIDE DEF n1, n2, n3, n4
<1>2. /\ Part(k, m, n1) = PutText(n1, m.caller)
      /\ Piece(k, m, n1) = TextSize(m.caller)
  BY <1>1, FieldParts
<1>3. /\ Part(k, m, n2) = PutCoins(n2, m.send)
      /\ Piece(k, m, n2) = CoinsSize(m.send)
  BY <1>1, FieldParts
<1>4. /\ Part(k, m, n3) = PutCoins(n3, m.max_deposit)
      /\ Piece(k, m, n3) = CoinsSize(m.max_deposit)
  BY <1>1, FieldParts
<1>5. /\ Part(k, m, n4) = PutText(n4, m.pkg)
      /\ Piece(k, m, n4) = TextSize(m.pkg)
  BY <1>1, FieldParts
<1>6. /\ Whole(k, m) = Part(k, m, 1) \o Part(k, m, 2) \o Part(k, m, 3)
                       \o Part(k, m, 4)
      /\ Total(k, m) = Piece(k, m, 1) + Piece(k, m, 2) + Piece(k, m, 3)
                       + Piece(k, m, 4)
  BY <1>1, PartsEnd
<1>7. Whole(k, m) = MsgRunBytes(m) /\ Total(k, m) = MsgRunSize(m)
  BY <1>2, <1>3, <1>4, <1>5, <1>6 DEF MsgRunBytes, MsgRunSize, n1, n2, n3, n4
<1>8. BytesOf(k, m) = MsgRunBytes(m) /\ SizeOf(k, m) = MsgRunSize(m)
  BY DEF BytesOf, SizeOf
<1> QED
  BY <1>7, <1>8 DEF MarshalsParts

LEMMA QueryParamsResponseParts ==
    ASSUME NEW m, Typed("QueryParamsResponse", m)
    PROVE  MarshalsParts("QueryParamsResponse", m)
<1> DEFINE k == "QueryParamsResponse"
           n1 == 1
<1>1. /\ k \in DOMAIN Fields /\ DOMAIN Fields[k] = {1}
      /\ n1 \in DOMAIN Fields[k] /\ Fields[k][n1] = Msg("params", "Params")
  BY DEF Fields, QueryParamsResponseFields
<1> HIDE DEF n1
<1>2. /\ Part(k, m, n1) = Put(n1, ParamsBytes(m.params))
      /\ Piece(k, m, n1) = FieldSize(ParamsSize(m.params))
  BY <1>1, FieldParts
<1>3. /\ Whole(k, m) = Part(k, m, 1)
      /\ Total(k, m) = Piece(k, m, 1)
  BY <1>1, PartsEnd
<1>4. Whole(k, m) = QueryParamsResponseBytes(m) /\ Total(k, m) = QueryParamsResponseSize(m)
  BY <1>2, <1>3 DEF QueryParamsResponseBytes, QueryParamsResponseSize, n1
<1>5. BytesOf(k, m) = QueryParamsResponseBytes(m) /\ SizeOf(k, m) = QueryParamsResponseSize(m)
  BY DEF BytesOf, SizeOf
<1> QED
  BY <1>4, <1>5 DEF MarshalsParts

LEMMA QueryEvalRequestParts ==
    ASSUME NEW m, Typed("QueryEvalRequest", m)
    PROVE  MarshalsParts("QueryEvalRequest", m)
<1> DEFINE k == "QueryEvalRequest"
           n1 == 1
           n2 == 2
           n3 == 3
<1>1. /\ k \in DOMAIN Fields /\ DOMAIN Fields[k] = {1, 2, 3}
      /\ n1 \in DOMAIN Fields[k] /\ Fields[k][n1] = Text("pkg_path")
      /\ n2 \in DOMAIN Fields[k] /\ Fields[k][n2] = Text("expr")
      /\ n3 \in DOMAIN Fields[k] /\ Fields[k][n3] = Uint("max_gas")
  BY DEF Fields, QueryEvalRequestFields
<1> HIDE DEF n1, n2, n3
<1>2. /\ Part(k, m, n1) = PutText(n1, m.pkg_path)
      /\ Piece(k, m, n1) = TextSize(m.pkg_path)
  BY <1>1, FieldParts
<1>3. /\ Part(k, m, n2) = PutText(n2, m.expr)
      /\ Piece(k, m, n2) = TextSize(m.expr)
  BY <1>1, FieldParts
<1>4. /\ Part(k, m, n3) = PutUint(n3, m.max_gas)
      /\ Piece(k, m, n3) = UintSize(m.max_gas)
  BY <1>1, FieldParts
<1>5. /\ Whole(k, m) = Part(k, m, 1) \o Part(k, m, 2) \o Part(k, m, 3)
      /\ Total(k, m) = Piece(k, m, 1) + Piece(k, m, 2) + Piece(k, m, 3)
  BY <1>1, PartsEnd
<1>6. Whole(k, m) = QueryEvalRequestBytes(m) /\ Total(k, m) = QueryEvalRequestSize(m)
  BY <1>2, <1>3, <1>4, <1>5 DEF QueryEvalRequestBytes, QueryEvalRequestSize, n1, n2, n3
<1>7. BytesOf(k, m) = QueryEvalRequestBytes(m) /\ SizeOf(k, m) = QueryEvalRequestSize(m)
  BY DEF BytesOf, SizeOf
<1> QED
  BY <1>6, <1>7 DEF MarshalsParts

LEMMA QueryRenderRequestParts ==
    ASSUME NEW m, Typed("QueryRenderRequest", m)
    PROVE  MarshalsParts("QueryRenderRequest", m)
<1> DEFINE k == "QueryRenderRequest"
           n1 == 1
           n2 == 2
<1>1. /\ k \in DOMAIN Fields /\ DOMAIN Fields[k] = {1, 2}
      /\ n1 \in DOMAIN Fields[k] /\ Fields[k][n1] = Text("pkg_path")
      /\ n2 \in DOMAIN Fields[k] /\ Fields[k][n2] = Strings("args")
  BY DEF Fields, QueryRenderRequestFields
<1> HIDE DEF n1, n2
<1>2. /\ Part(k, m, n1) = PutText(n1, m.pkg_path)
      /\ Piece(k, m, n1) = TextSize(m.pkg_path)
  BY <1>1, FieldParts
<1>3. /\ Part(k, m, n2) = PutStrings(n2, m.args)
      /\ Piece(k, m, n2) = StringsSize(m.args)
  BY <1>1, FieldParts
<1>4. /\ Whole(k, m) = Part(k, m, 1) \o Part(k, m, 2)
      /\ Total(k, m) = Piece(k, m, 1) + Piece(k, m, 2)
  BY <1>1, PartsEnd
<1>5. Whole(k, m) = QueryRenderRequestBytes(m) /\ Total(k, m) = QueryRenderRequestSize(m)
  BY <1>2, <1>3, <1>4 DEF QueryRenderRequestBytes, QueryRenderRequestSize, n1, n2
<1>6. BytesOf(k, m) = QueryRenderRequestBytes(m) /\ SizeOf(k, m) = QueryRenderRequestSize(m)
  BY DEF BytesOf, SizeOf
<1> QED
  BY <1>5, <1>6 DEF MarshalsParts

(* Every message.                                                          *)
LEMMA MessageParts ==
    ASSUME NEW k \in DOMAIN Fields \ {"Coin"}, NEW m, Typed(k, m)
    PROVE  MarshalsParts(k, m)
<1>1. k \in {"MsgUpdateParamsResponse", "MsgAddPackageResponse", "QueryParamsRequest",
               "Module", "MsgCallResponse",
               "MsgRunResponse", "QueryInfoRequest", "QueryInfoResponse",
               "QueryRealmStorageRequest", "QueryRealmStorageResponse", "QueryEvalResponse",
               "Params", "KVPair", "GenesisState",
               "MsgUpdateParams", "MsgAddPackage", "MsgCall",
               "MsgRun", "QueryParamsResponse", "QueryEvalRequest",
               "QueryRenderRequest"}
  BY DEF Fields
<1>2. k \in {"MsgUpdateParamsResponse", "MsgAddPackageResponse", "QueryParamsRequest",
               "Module",
               "MsgCallResponse",
               "MsgRunResponse",
               "QueryInfoRequest",
               "QueryInfoResponse",
               "QueryRealmStorageRequest",
               "QueryRealmStorageResponse",
               "QueryEvalResponse"} => MarshalsParts(k, m)
  BY ShortParts
<1>3. k = "Params" => MarshalsParts(k, m)
  BY ParamsParts
<1>4. k = "KVPair" => MarshalsParts(k, m)
  BY KVPairParts
<1>5. k = "GenesisState" => MarshalsParts(k, m)
  BY GenesisStateParts
<1>6. k = "MsgUpdateParams" => MarshalsParts(k, m)
  BY MsgUpdateParamsParts
<1>7. k = "MsgAddPackage" => MarshalsParts(k, m)
  BY MsgAddPackageParts
<1>8. k = "MsgCall" => MarshalsParts(k, m)
  BY MsgCallParts
<1>9. k = "MsgRun" => MarshalsParts(k, m)
  BY MsgRunParts
<1>10. k = "QueryParamsResponse" => MarshalsParts(k, m)
  BY QueryParamsResponseParts
<1>11. k = "QueryEvalRequest" => MarshalsParts(k, m)
  BY QueryEvalRequestParts
<1>12. k = "QueryRenderRequest" => MarshalsParts(k, m)
  BY QueryRenderRequestParts
<1> QED
  BY <1>1, <1>2, <1>3, <1>4, <1>5, <1>6, <1>7, <1>8, <1>9, <1>10, <1>11, <1>12

(* Bytes that are accepted give a message that fits in two bytes more, if  *)
(* it holds no coins; as long as its size is the length of a slice, it is  *)
(* written in so many bytes, and they decode to the same message.          *)
LEMMA AcceptedIsWritten ==
    ASSUME NEW k \in DOMAIN Fields \ {"Coin"}, NEW b \in Seq(Byte), Len(b) + 2 < Half,
           NEW r, r = Unmarshal(k, b), Ok(r)
    PROVE  /\ k \notin WithCoins => SizeOf(k, r.msg) <= Len(b) + 2
           /\ SizeOf(k, r.msg) < Half =>
                 \E s \in Seq(Byte) : /\ Marshal(k, r.msg) = Done(s) /\ Len(s) = SizeOf(k, r.msg)
                                      /\ Unmarshal(k, s) = r
<1>1. PICK m : /\ r = Done(m) /\ Typed(k, m)
               /\ k \notin WithCoins => Total(k, m) <= Len(b) + 2
  BY UnmarshalCosts
<1>2. r.msg = m
  BY <1>1 DEF Done
<1>3. BytesOf(k, m) = Whole(k, m) /\ SizeOf(k, m) = Total(k, m)
  BY <1>1, MessageParts DEF MarshalsParts
<1>4. ASSUME Total(k, m) < Half
      PROVE  \E s \in Seq(Byte) : /\ Marshal(k, m) = Done(s) /\ Len(s) = Total(k, m)
                                  /\ Unmarshal(k, s) = r
  <2> DEFINE s == Whole(k, m)
             l == Total(k, m)
  <2>1. s \in Seq(Byte) /\ Len(s) = l /\ Unmarshal(k, s) = Done(m)
    BY <1>1, <1>4, WholeIsWritten
  <2>2. Marshal(k, m) = Marshalled(s, l)
    BY <1>3 DEF Marshal
  <2> HIDE DEF s, l
  <2>3. Marshal(k, m) = Done(s)
    BY <2>1, <2>2, MarshalledWhole
  <2>4. Len(s) = Total(k, m)
    BY <2>1 DEF l
  <2> QED
    BY <1>1, <2>1, <2>3, <2>4
<1>5. k \notin WithCoins => SizeOf(k, r.msg) <= Len(b) + 2
  BY <1>1, <1>2, <1>3
<1>6. SizeOf(k, r.msg) < Half =>
         \E s \in Seq(Byte) : /\ Marshal(k, r.msg) = Done(s) /\ Len(s) = SizeOf(k, r.msg)
                              /\ Unmarshal(k, s) = r
  BY <1>2, <1>3, <1>4
<1> QED
  BY <1>5, <1>6

(* What a node accepted from anyone it can write again: for every message  *)
(* and bytes of any kind, Size is as much as the encoder writes, the       *)
(* buffer of Marshal is filled from end to start and what it holds decodes *)
(* to the message it was written from.  The bytes exceed those that were   *)
(* read by the tag and the length of an embedded message at most, unless   *)
(* the message holds coins, whose amount is written even if it was not     *)
(* read; the size of such a message has to be the length of a slice.       *)
THEOREM AcceptedCanBeRewritten == Spec => []AcceptedIsRewritable
<1>1. Init => WireIsBytes
  BY SenderAssumption DEF Init, WireIsBytes
<1>2. WireIsBytes => AcceptedIsRewritable
  <2> SUFFICES ASSUME WireIsBytes, Len(wire) + 2 < Half, NEW r, r = Unmarshal(kind, wire), Ok(r)
               PROVE  /\ kind \notin WithCoins => SizeOf(kind, r.msg) <= Len(wire) + 2
                      /\ SizeOf(kind, r.msg) < Half =>
                            \E again \in {Marshal(kind, r.msg)} :
                               /\ Ok(again) /\ Len(again.msg) = SizeOf(kind, r.msg)
                               /\ Unmarshal(kind, again.msg) = r
    BY DEF AcceptedIsRewritable
  <2>1. kind \in DOMAIN Fields \ {"Coin"} /\ wire \in Seq(Byte)
    BY DEF WireIsBytes
  <2>2. kind \notin WithCoins => SizeOf(kind, r.msg) <= Len(wire) + 2
    BY <2>1, AcceptedIsWritten
  <2>3. ASSUME SizeOf(kind, r.msg) < Half
        PROVE  \E again \in {Marshal(kind, r.msg)} :
                  /\ Ok(again) /\ Len(again.msg) = SizeOf(kind, r.msg)
                  /\ Unmarshal(kind, again.msg) = r
    <3>1. PICK s \in Seq(Byte) : /\ Marshal(kind, r.msg) = Done(s) /\ Len(s) = SizeOf(kind, r.msg)
                                 /\ Unmarshal(kind, s) = r
      BY <2>1, <2>3, AcceptedIsWritten
    <3>2. Ok(Done(s)) /\ Done(s).msg = s
      BY DEF Ok, Done
    <3> QED
      BY <3>1, <3>2
  <2> QED
    BY <2>2, <2>3
<1> QED
  BY <1>1, <1>2, WireStaysBytes, PTL DEF Spec
=============================================================================
