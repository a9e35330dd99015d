--------------------------- MODULE AnalysisProofs ---------------------------
(***************************************************************************)
(* Theorems about the programs of analysis/.                               *)
(*                                                                         *)
(* HammingEC, for any number of blocks: after parity, and after the repair *)
(* of any one or two blocks, every block is what it was; a refused repair  *)
(* has touched nothing.  CodeInv says what every block holds in every      *)
(* stage; the rest is about masks, bits and the blocks that hold one.      *)
(*                                                                         *)
(* SignalChain, for any filters, oscillators, signals and sizes: what is   *)
(* transformed is the chain's products and convolutions.  ChainInv says    *)
(* what every pipe, ring and sample holds between two modules' steps.      *)
(***************************************************************************)
EXTENDS MCAnalysis, FiniteSums

-----------------------------------------------------------------------------
(* Masks *)

\* The recursive function of the masks.
LEMMA MaskIs ==
    /\ Mask[0] = 1
    /\ \A p \in 0..PARITY_BITS : Mask[p] \in Nat \ {0}
    /\ \A p \in Bits : Mask[p + 1] = 2 * Mask[p]
<1>1. PARITY_BITS \in Nat \ {0}
  BY CodeAssumption
<1> DEFINE S == Nat \ {0}
           f == [x \in (1..PARITY_BITS) \X S |-> 2 * x[2]]
<1>2. PICK g \in [0..PARITY_BITS -> S] :
          IsRecursive(g, PARITY_BITS, 1, f)
  <2>1. PARITY_BITS \in Nat /\ 1 \in S /\ f \in [(1..PARITY_BITS) \X S -> S]
    BY <1>1
  <2> HIDE DEF S, f
  <2> QED BY <2>1, RecursionExists
<1>3. \A p \in 1..PARITY_BITS : f[<<p, g[p - 1]>>] = 2 * g[p - 1]
  <2> TAKE p \in 1..PARITY_BITS
  <2>1. p - 1 \in 0..PARITY_BITS
    BY <1>1
  <2>2. <<p, g[p - 1]>> \in (1..PARITY_BITS) \X S
    BY <2>1
  <2> QED BY <2>2
<1>4. g = [p \in 0..PARITY_BITS |-> IF p = 0 THEN 1 ELSE 2 * g[p - 1]]
  <2>1. ASSUME NEW p \in 0..PARITY_BITS
        PROVE  g[p] = IF p = 0 THEN 1 ELSE 2 * g[p - 1]
    <3>1. p # 0 => p \in 1..PARITY_BITS
      BY <1>1
    <3> HIDE DEF f, S
    <3> QED BY <1>2, <1>3, <3>1 DEF IsRecursive
  <2>2. DOMAIN g = 0..PARITY_BITS
    OBVIOUS
  <2> HIDE DEF S, f
  <2> QED BY <2>1, <2>2
<1>5. Mask = [p \in 0..PARITY_BITS |-> IF p = 0 THEN 1 ELSE 2 * Mask[p - 1]]
  <2> HIDE DEF S, f
  <2> QED BY <1>4 DEF Mask
<1>6. Mask[0] = 1 /\ \A p \in Bits : p + 1 \in 0..PARITY_BITS /\ Mask[p + 1] = 2 * Mask[p]
  <2> HIDE DEF S, f
  <2> QED BY <1>1, <1>5 DEF Bits
<1>7. \A p \in 0..PARITY_BITS : Mask[p] \in Nat \ {0}
  <2> DEFINE A == { p \in Nat : p <= PARITY_BITS => Mask[p] \in Nat \ {0} }
  <2>1. 0 \in A
    BY <1>6
  <2>2. ASSUME NEW p \in Nat, p \in A PROVE p + 1 \in A
    <3> SUFFICES ASSUME p + 1 <= PARITY_BITS PROVE Mask[p + 1] \in Nat \ {0}
      OBVIOUS
    <3>1. p \in Bits /\ Mask[p] \in Nat \ {0}
      BY <1>1, <2>2 DEF Bits
    <3> QED BY <1>6, <3>1
  <2> HIDE DEF A
  <2>3. \A p \in Nat : p \in A
    BY <2>1, <2>2, NatInductionOnSet
  <2> QED BY <2>3, <1>1 DEF A
<1> QED BY <1>6, <1>7

\* A mask is a multiple of every smaller one, twice the smaller one at least.
LEMMA MaskMultiple ==
    ASSUME NEW p \in Bits, NEW q \in 0..PARITY_BITS, p < q
    PROVE  \E c \in Nat \ {0} : Mask[q] = (2 * c) * Mask[p]
<1>1. PARITY_BITS \in Nat \ {0} /\ p \in Nat /\ q \in Nat
  BY CodeAssumption DEF Bits
<1> DEFINE A == { d \in Nat : p + 1 + d <= PARITY_BITS =>
                        \E c \in Nat \ {0} : Mask[p + 1 + d] = (2 * c) * Mask[p] }
<1>2. 0 \in A
  <2>1. Mask[p + 1 + 0] = (2 * 1) * Mask[p]
    BY <1>1, MaskIs
  <2> QED BY <2>1
<1>3. ASSUME NEW d \in Nat, d \in A PROVE d + 1 \in A
  <2> SUFFICES ASSUME p + 1 + (d + 1) <= PARITY_BITS
               PROVE  \E c \in Nat \ {0} : Mask[p + 1 + (d + 1)] = (2 * c) * Mask[p]
    OBVIOUS
  <2> DEFINE n == p + 1 + d
  <2>1. n \in Bits /\ p + 1 + (d + 1) = n + 1 /\ p \in 0..PARITY_BITS
    BY <1>1 DEF Bits
  <2>2. PICK c \in Nat \ {0} : Mask[n] = (2 * c) * Mask[p]
    BY <1>1, <1>3
  <2>3. Mask[n + 1] = 2 * Mask[n] /\ Mask[p] \in Nat
    BY <2>1, MaskIs
  <2>4. Mask[n + 1] = (2 * (2 * c)) * Mask[p] /\ 2 * c \in Nat \ {0}
    <3> HIDE DEF n
    <3> QED BY <2>2, <2>3
  <2> QED BY <2>1, <2>4
<1> HIDE DEF A
<1>4. \A d \in Nat : d \in A
  BY <1>2, <1>3, NatInductionOnSet
<1>5. q - p - 1 \in Nat /\ p + 1 + (q - p - 1) = q /\ q <= PARITY_BITS
  BY <1>1
<1>6. q - p - 1 \in A
  BY <1>4, <1>5
<1> QED BY <1>5, <1>6 DEF A

\* Masks grow.
LEMMA MaskGrows ==
    ASSUME NEW p \in Bits, NEW q \in 0..PARITY_BITS, p < q
    PROVE  2 * Mask[p] <= Mask[q] /\ Mask[p] < Mask[q]
<1>1. PICK c \in Nat \ {0} : Mask[q] = (2 * c) * Mask[p]
  BY MaskMultiple
<1>2. Mask[p] \in Nat \ {0}
  BY MaskIs, CodeAssumption DEF Bits
<1> DEFINE m == Mask[p]
<1> HIDE DEF m
<1>3. (2 * c) * m = c * (2 * m) /\ c * (2 * m) >= 1 * (2 * m)
  BY <1>2 DEF m
<1> QED BY <1>1, <1>2, <1>3 DEF m

\* Two bits have two masks.
LEMMA MaskInjective ==
    ASSUME NEW p \in Bits, NEW q \in Bits, Mask[p] = Mask[q]
    PROVE  p = q
<1>1. p \in Int /\ q \in Int /\ p \in 0..PARITY_BITS /\ q \in 0..PARITY_BITS
  BY CodeAssumption DEF Bits
<1>2. Mask[p] \in Nat /\ Mask[q] \in Nat
  BY <1>1, MaskIs
<1>3. ~(p < q) /\ ~(q < p)
  BY <1>1, <1>2, MaskGrows
<1> QED BY <1>1, <1>3

\* Every number below the last mask is between a mask and the next.
LEMMA RangeExists ==
    ASSUME NEW b \in Nat \ {0}, b < Mask[PARITY_BITS]
    PROVE  \E p \in Bits : Mask[p] <= b /\ b < Mask[p + 1]
<1>1. PARITY_BITS \in Nat \ {0}
  BY CodeAssumption
<1> DEFINE A == { n \in Nat : n <= PARITY_BITS /\ b < Mask[n] =>
                     \E p \in Bits : Mask[p] <= b /\ b < Mask[p + 1] }
<1>2. 0 \in A
  BY MaskIs
<1>3. ASSUME NEW n \in Nat, n \in A PROVE n + 1 \in A
  <2> SUFFICES ASSUME n + 1 <= PARITY_BITS, b < Mask[n + 1]
               PROVE  \E p \in Bits : Mask[p] <= b /\ b < Mask[p + 1]
    OBVIOUS
  <2>1. n \in Bits /\ n \in 0..PARITY_BITS
    BY <1>1 DEF Bits
  <2>2. Mask[n] \in Nat
    BY <2>1, MaskIs
  <2> QED BY <1>3, <2>1, <2>2
<1> HIDE DEF A
<1>4. PARITY_BITS \in A
  BY <1>1, <1>2, <1>3, NatInductionOnSet
<1> QED BY <1>1, <1>4 DEF A

-----------------------------------------------------------------------------
(* Bits *)

\* The bits below the number's own range, at its top, and above it.
LEMMA BitAbove ==
    ASSUME NEW p \in Bits, NEW x \in Nat, x < Mask[p]
    PROVE  ~Bit(x, p)
<1>1. Mask[p] \in Nat \ {0}
  BY MaskIs, CodeAssumption DEF Bits
<1> DEFINE m == Mask[p]
<1> HIDE DEF m
<1>2. x = m * 0 + x /\ x \in 0..(m - 1) /\ m \in Nat \ {0}
  BY <1>1 DEF m
<1>3. x \div m = 0
  BY <1>2, QuotientUnique
<1> QED BY <1>3 DEF Bit, m

LEMMA BitTop ==
    ASSUME NEW p \in Bits, NEW x \in Nat, Mask[p] <= x, x < Mask[p + 1]
    PROVE  Bit(x, p)
<1>1. Mask[p] \in Nat \ {0} /\ Mask[p + 1] = 2 * Mask[p]
  BY MaskIs, CodeAssumption DEF Bits
<1> DEFINE m == Mask[p]
<1> HIDE DEF m
<1>2. x = m * 1 + (x - m) /\ x - m \in 0..(m - 1) /\ m \in Nat \ {0}
  BY <1>1 DEF m
<1>3. x \div m = 1
  BY <1>2, QuotientUnique
<1> QED BY <1>3 DEF Bit, m

\* Adding a mask changes no bit below it.
LEMMA BitShift ==
    ASSUME NEW p \in Bits, NEW q \in 0..PARITY_BITS, p < q, NEW x \in Nat
    PROVE  Bit(x + Mask[q], p) <=> Bit(x, p)
<1>1. PICK c \in Nat \ {0} : Mask[q] = (2 * c) * Mask[p]
  BY MaskMultiple
<1>2. Mask[p] \in Nat \ {0}
  BY MaskIs, CodeAssumption DEF Bits
<1> DEFINE m == Mask[p]
           k == x \div m
           r == x % m
<1> HIDE DEF m
<1>3. k \in Nat /\ r \in 0..(m - 1) /\ x = m * k + r
  BY <1>2, Division DEF m
<1> HIDE DEF k, r
<1>4. (2 * c) * m = m * (2 * c) /\ m * (k + 2 * c) = m * k + m * (2 * c)
  BY <1>2, <1>3 DEF m
<1>5. x + Mask[q] = m * (k + 2 * c) + r
  BY <1>1, <1>2, <1>3, <1>4 DEF m
<1>6. (x + Mask[q]) \div m = k + 2 * c
  <2>1. k + 2 * c \in Nat /\ m \in Nat \ {0}
    BY <1>2, <1>3 DEF m
  <2> QED BY <1>3, <1>5, <2>1, QuotientUnique
<1>7. (k + 2 * c) % 2 = k % 2
  BY <1>3
<1> QED BY <1>6, <1>7 DEF Bit, m, k

\* A mask has one bit.
LEMMA BitOfMask ==
    ASSUME NEW p \in Bits, NEW q \in Bits
    PROVE  Bit(Mask[q], p) <=> p = q
<1>1. /\ PARITY_BITS \in Nat /\ p \in Nat /\ q \in Nat
      /\ p \in 0..PARITY_BITS /\ q \in 0..PARITY_BITS
      /\ q + 1 \in 0..PARITY_BITS
  BY CodeAssumption DEF Bits
<1>2. Mask[p] \in Nat \ {0} /\ Mask[q] \in Nat \ {0} /\ Mask[q + 1] = 2 * Mask[q]
  BY <1>1, MaskIs
<1>3. CASE p < q
  <2>1. ~Bit(0, p)
    BY <1>2, BitAbove
  <2>2. Bit(0 + Mask[q], p) <=> Bit(0, p)
    BY <1>1, <1>3, BitShift
  <2>3. 0 + Mask[q] = Mask[q]
    BY <1>2
  <2> QED BY <1>1, <1>3, <2>1, <2>2, <2>3
<1>4. CASE p = q
  BY <1>2, <1>4, BitTop
<1>5. CASE q < p
  BY <1>1, <1>2, <1>5, MaskGrows, BitAbove
<1> QED BY <1>1, <1>3, <1>4, <1>5

\* Two numbers below the last mask differ in a bit.
LEMMA BitsDiffer ==
    ASSUME NEW a \in Nat, NEW b \in Nat, a < b, b < Mask[PARITY_BITS]
    PROVE  \E p \in Bits : ~(Bit(a, p) <=> Bit(b, p))
<1>1. PARITY_BITS \in Nat \ {0}
  BY CodeAssumption
<1> DEFINE Differ(x, y, n) == \E p \in Bits : p < n /\ ~(Bit(x, p) <=> Bit(y, p))
           A == { n \in Nat : n <= PARITY_BITS =>
                    \A x, y \in Nat : x < y /\ y < Mask[n] => Differ(x, y, n) }
<1>2. 0 \in A
  BY MaskIs
<1>3. ASSUME NEW n \in Nat, n \in A PROVE n + 1 \in A
  <2> SUFFICES ASSUME n + 1 <= PARITY_BITS, NEW x \in Nat, NEW y \in Nat,
                      x < y, y < Mask[n + 1]
               PROVE  Differ(x, y, n + 1)
    OBVIOUS
  <2>1. /\ n \in Bits /\ n \in 0..PARITY_BITS /\ \A p \in Bits : p < n => p < n + 1
        /\ n < n + 1
    BY <1>1 DEF Bits
  <2>2. Mask[n] \in Nat \ {0} /\ Mask[n + 1] = 2 * Mask[n]
    BY <2>1, MaskIs
  <2>3. \A u, v \in Nat : u < v /\ v < Mask[n] => Differ(u, v, n)
    BY <1>3, <2>1
  <2>4. CASE y < Mask[n]
    <3>1. Differ(x, y, n)
      BY <2>3, <2>4
    <3> QED BY <2>1, <3>1
  <2>5. CASE Mask[n] <= y /\ x < Mask[n]
    <3>1. Bit(y, n) /\ ~Bit(x, n)
      BY <2>1, <2>5, BitTop, BitAbove
    <3> QED BY <2>1, <3>1
  <2>6. CASE Mask[n] <= x
    <3> DEFINE u == x - Mask[n]
               v == y - Mask[n]
    <3>1. /\ u \in Nat /\ v \in Nat /\ u < v /\ v < Mask[n]
          /\ u + Mask[n] = x /\ v + Mask[n] = y
      BY <2>2, <2>6
    <3> HIDE DEF u, v
    <3>2. PICK p \in Bits : p < n /\ ~(Bit(u, p) <=> Bit(v, p))
      BY <2>3, <3>1
    <3>3. Bit(u + Mask[n], p) <=> Bit(u, p)
      BY <2>1, <3>1, <3>2, BitShift
    <3>4. Bit(v + Mask[n], p) <=> Bit(v, p)
      BY <2>1, <3>1, <3>2, BitShift
    <3>5. ~(Bit(x, p) <=> Bit(y, p))
      BY <3>1, <3>2, <3>3, <3>4
    <3> QED BY <2>1, <3>2, <3>5
  <2> QED BY <2>2, <2>4, <2>5, <2>6
<1> HIDE DEF A
<1>4. PARITY_BITS \in A
  BY <1>1, <1>2, <1>3, NatInductionOnSet
<1>5. Differ(a, b, PARITY_BITS)
  BY <1>1, <1>4 DEF A
<1> QED BY <1>5

\* The bit a block is repaired by is one of its own; a parity block's is its name.
LEMMA SingleBitIs ==
    ASSUME NEW b \in Ids
    PROVE  /\ SingleBit(b) \in Bits /\ Bit(b, SingleBit(b))
           /\ \A q \in Bits : b = Mask[q] => SingleBit(b) = q
<1>1. b \in Nat \ {0} /\ b < Mask[PARITY_BITS]
  BY CodeAssumption, MaskIs DEF Ids
<1> DEFINE s == SingleBit(b)
<1>2. s \in Bits /\ Mask[s] <= b /\ b < Mask[s + 1]
  BY <1>1, RangeExists DEF SingleBit
<1> HIDE DEF s
<1>3. Bit(b, s)
  BY <1>1, <1>2, BitTop
<1>4. \A q \in Bits : b = Mask[q] => s = q
  BY <1>3, <1>2, BitOfMask
<1> QED BY <1>2, <1>3, <1>4 DEF s

-----------------------------------------------------------------------------
(* Repair of one block *)

\* Parity blocks are blocks, and have one bit.
LEMMA ParityIsBlock ==
    ASSUME NEW p \in Bits
    PROVE  Mask[p] \in Ids /\ Mask[p] \notin DataBlocks /\ Bit(Mask[p], p)
<1>1. /\ PARITY_BITS - 1 \in Bits /\ p \in 0..PARITY_BITS
      /\ PARITY_BITS - 1 \in 0..PARITY_BITS
      /\ p = PARITY_BITS - 1 \/ p < PARITY_BITS - 1
  BY CodeAssumption DEF Bits
<1>2. Mask[p] \in Nat \ {0} /\ Mask[PARITY_BITS - 1] \in Nat
  BY <1>1, MaskIs
<1>3. Mask[p] <= Mask[PARITY_BITS - 1]
  BY <1>1, <1>2, MaskGrows
<1>4. Mask[p] \in Ids
  BY <1>2, <1>3, CodeAssumption DEF Ids
<1> QED BY <1>4, BitOfMask DEF DataBlocks, ParityBlocks

\* Of the blocks with a bit, those whose content has x in it: the block itself and
\* the parity block of that bit, if x has it.
Holders(x, p) == { b \in Ids : Bit(b, p) /\ x \in CodeWord[b] }

LEMMA HoldersAre ==
    ASSUME NEW x \in DataBlocks \cup {Junk}, NEW p \in Bits
    PROVE  Holders(x, p) = IF x \in DataBlocks /\ Bit(x, p) THEN {x, Mask[p]} ELSE {}
<1>1. ASSUME NEW b \in Ids, Bit(b, p)
      PROVE  x \in CodeWord[b] <=> x \in DataBlocks /\ Bit(x, p) /\ (b = x \/ b = Mask[p])
  <2>1. CASE b \in DataBlocks
    <3>1. CodeWord[b] = {b}
      BY <2>1 DEF CodeWord
    <3>2. b # Mask[p]
      BY <2>1, ParityIsBlock
    <3> QED BY <1>1, <2>1, <3>1, <3>2
  <2>2. CASE b \notin DataBlocks
    <3>1. PICK q \in Bits : b = Mask[q]
      BY <2>2 DEF DataBlocks, ParityBlocks
    <3>2. q = p
      BY <1>1, <3>1, BitOfMask
    <3>3. SingleBit(b) = p
      BY <3>1, <3>2, SingleBitIs
    <3>4. CodeWord[b] = { d \in DataBlocks : p \in BitsOf(d) }
      BY <2>2, <3>3 DEF CodeWord
    <3> QED BY <2>2, <3>1, <3>2, <3>4 DEF BitsOf
  <2> QED BY <2>1, <2>2
<1>2. x \in DataBlocks => x \in Ids
  BY DEF DataBlocks
<1> QED BY <1>1, <1>2, ParityIsBlock DEF Holders

\* The cardinalities that count here.
LEMMA CardinalityUpTo2 ==
    /\ Cardinality({}) = 0
    /\ \A a : Cardinality({a}) = 1
    /\ \A a, b : a # b => Cardinality({a, b}) = 2
<1>1. Cardinality({}) = 0 /\ IsFiniteSet({})
  BY FS_EmptySet
<1>2. \A a : Cardinality({a}) = 1 /\ IsFiniteSet({a})
  BY FS_Singleton
<1>3. ASSUME NEW a, NEW b, a # b PROVE Cardinality({a, b}) = 2
  <2> DEFINE S == {a}
  <2>1. Cardinality(S) = 1 /\ IsFiniteSet(S) /\ b \notin S
    BY <1>2, <1>3
  <2>2. S \cup {b} = {a, b}
    OBVIOUS
  <2> HIDE DEF S
  <2>3. Cardinality(S \cup {b}) = Cardinality(S) + 1
    BY <2>1, FS_AddElement
  <2>4. Cardinality(S \cup {b}) = 2
    BY <2>1, <2>3
  <2> QED BY <2>2, <2>4
<1> QED BY <1>1, <1>2, <1>3

\* repairBlock: a bit of the block that every other block with it is there for
\* brings its content back.
LEMMA RepairsBlock ==
    ASSUME NEW s, NEW id \in Ids, NEW p \in Bits, Bit(id, p),
           s.present \subseteq Ids \ {id},
           \A b \in Ids \ {id} : Bit(b, p) => b \in s.present /\ s.blocks[b] = CodeWord[b]
    PROVE  RepairBlock(s, id, p) = [ blocks  |-> [s.blocks EXCEPT ![id] = CodeWord[id]],
                                     present |-> s.present \cup {id} ]
<1>1. Sources(p, s.present) = { b \in Ids \ {id} : Bit(b, p) }
  <2>1. \A b \in Ids : Bit(b, p) => b >= Mask[p]
    <3> TAKE b \in Ids
    <3>1. b \in Nat /\ Mask[p] \in Nat
      BY MaskIs, CodeAssumption DEF Ids, Bits
    <3> QED BY <3>1, BitAbove
  <2> QED BY <2>1 DEF Sources
<1>2. ASSUME NEW x \in DataBlocks \cup {Junk}
      PROVE  Cardinality({ b \in Sources(p, s.present) : x \in s.blocks[b] }) % 2 = 1
                 <=> x \in CodeWord[id]
  <2> DEFINE H == { b \in Sources(p, s.present) : x \in s.blocks[b] }
  <2>1. H = Holders(x, p) \ {id}
    BY <1>1 DEF Holders
  <2>2. x \in CodeWord[id] <=> id \in Holders(x, p)
    BY DEF Holders
  <2>3. CASE x \in DataBlocks /\ Bit(x, p)
    <3>1. Holders(x, p) = {x, Mask[p]} /\ x # Mask[p]
      BY <2>3, HoldersAre, ParityIsBlock
    <3>2. CASE id = x
      <4>1. H = {Mask[p]}
        BY <2>1, <3>1, <3>2
      <4>2. Cardinality(H) = 1
        <5> HIDE DEF H
        <5> QED BY <4>1, CardinalityUpTo2
      <4> QED BY <2>2, <3>1, <3>2, <4>2
    <3>3. CASE id = Mask[p]
      <4>1. H = {x}
        BY <2>1, <3>1, <3>3
      <4>2. Cardinality(H) = 1
        <5> HIDE DEF H
        <5> QED BY <4>1, CardinalityUpTo2
      <4> QED BY <2>2, <3>1, <3>3, <4>2
    <3>4. CASE id \notin {x, Mask[p]}
      <4>1. H = {x, Mask[p]}
        BY <2>1, <3>1, <3>4
      <4>2. Cardinality(H) = 2
        <5> HIDE DEF H
        <5> QED BY <3>1, <4>1, CardinalityUpTo2
      <4> QED BY <2>2, <3>1, <3>4, <4>2
    <3> QED BY <3>2, <3>3, <3>4
  <2>4. CASE ~(x \in DataBlocks /\ Bit(x, p))
    <3>1. Holders(x, p) = {}
      BY <2>4, HoldersAre
    <3>2. H = {}
      BY <2>1, <3>1
    <3>3. Cardinality(H) = 0
      BY <3>2, CardinalityUpTo2
    <3> QED BY <2>2, <3>1, <3>3
  <2> QED BY <2>3, <2>4
<1>3. CodeWord[id] \subseteq DataBlocks \cup {Junk}
  BY DEF CodeWord
<1>4. XorAll(s.blocks, Sources(p, s.present)) = CodeWord[id]
  BY <1>2, <1>3 DEF XorAll
<1> QED BY <1>4 DEF RepairBlock

-----------------------------------------------------------------------------
(* parity *)

Uncoded == [ blocks  |-> [b \in Ids |-> IF b \in DataBlocks THEN {b} ELSE {Junk}],
             present |-> Ids ]
Coded == [blocks |-> CodeWord, present |-> Ids]

\* The blocks once the parity blocks of the first p bits are made.
CodedUpTo(p) ==
    [ blocks  |-> [b \in Ids |-> IF b \in DataBlocks \/ (\E q \in Bits : q < p /\ b = Mask[q])
                                 THEN CodeWord[b] ELSE {Junk}],
      present |-> Ids ]

\* One turn of parity's loop.
TurnOfParity(s, p) == RepairBlock([s EXCEPT !.present = @ \ {Mask[p]}], Mask[p], p)

LEMMA ParityTurn ==
    ASSUME NEW p \in Bits
    PROVE  TurnOfParity(CodedUpTo(p), p) = CodedUpTo(p + 1)
<1> DEFINE s == [CodedUpTo(p) EXCEPT !.present = @ \ {Mask[p]}]
           id == Mask[p]
<1>1. s.present = Ids \ {id} /\ s.blocks = CodedUpTo(p).blocks
  BY DEF CodedUpTo
<1>2. id \in Ids /\ id \notin DataBlocks /\ Bit(id, p)
  BY ParityIsBlock
<1>3. ASSUME NEW b \in Ids \ {id}, Bit(b, p) PROVE b \in s.present /\ s.blocks[b] = CodeWord[b]
  <2>1. b \in DataBlocks
    <3>1. ASSUME NEW q \in Bits, b = Mask[q] PROVE FALSE
      BY <1>3, <3>1, BitOfMask
    <3> QED BY <3>1 DEF DataBlocks, ParityBlocks
  <2> QED BY <1>1, <2>1 DEF CodedUpTo
<1> HIDE DEF s, id
<1>4. RepairBlock(s, id, p) = [ blocks  |-> [s.blocks EXCEPT ![id] = CodeWord[id]],
                                present |-> s.present \cup {id} ]
  BY <1>1, <1>2, <1>3, RepairsBlock
<1>5. s.present \cup {id} = Ids
  BY <1>1, <1>2
<1>6. [s.blocks EXCEPT ![id] = CodeWord[id]] = CodedUpTo(p + 1).blocks
  <2>1. p \in Nat /\ \A q \in Bits : q \in Nat
    BY CodeAssumption DEF Bits
  <2>2. ASSUME NEW b \in Ids
        PROVE  (\E q \in Bits : q < p + 1 /\ b = Mask[q])
                   <=> b = id \/ (\E q \in Bits : q < p /\ b = Mask[q])
    BY <2>1 DEF id
  <2>3. s.blocks = [b \in Ids |-> IF b \in DataBlocks \/ (\E q \in Bits : q < p /\ b = Mask[q])
                                  THEN CodeWord[b] ELSE {Junk}]
    BY <1>1 DEF CodedUpTo
  <2>4. ASSUME NEW b \in Ids
        PROVE  [s.blocks EXCEPT ![id] = CodeWord[id]][b] = CodedUpTo(p + 1).blocks[b]
    <3>1. CodedUpTo(p + 1).blocks[b]
              = IF b \in DataBlocks \/ (\E q \in Bits : q < p + 1 /\ b = Mask[q])
                THEN CodeWord[b] ELSE {Junk}
      BY DEF CodedUpTo
    <3>2. [s.blocks EXCEPT ![id] = CodeWord[id]][b] = IF b = id THEN CodeWord[id] ELSE s.blocks[b]
      BY <2>3
    <3> QED BY <2>2, <2>3, <3>1, <3>2
  <2>5. DOMAIN CodedUpTo(p + 1).blocks = Ids /\ DOMAIN s.blocks = Ids
    BY <2>3 DEF CodedUpTo
  <2>6. CodedUpTo(p + 1).blocks = [b \in Ids |-> CodedUpTo(p + 1).blocks[b]]
    BY DEF CodedUpTo
  <2>7. [s.blocks EXCEPT ![id] = CodeWord[id]]
            = [b \in Ids |-> [s.blocks EXCEPT ![id] = CodeWord[id]][b]]
    BY <2>3
  <2> QED BY <2>4, <2>6, <2>7
<1>7. TurnOfParity(CodedUpTo(p), p) = RepairBlock(s, id, p)
  BY DEF TurnOfParity, s, id
<1>8. CodedUpTo(p + 1) = [blocks |-> CodedUpTo(p + 1).blocks, present |-> Ids]
  BY DEF CodedUpTo
<1> QED BY <1>4, <1>5, <1>6, <1>7, <1>8

\* parity makes the code word.
LEMMA ParityCodes ==
    ASSUME Here = Uncoded
    PROVE  ParityFrom[PARITY_BITS] = Coded
<1>1. PARITY_BITS \in Nat \ {0}
  BY CodeAssumption
<1> DEFINE g == [p \in 0..PARITY_BITS |-> CodedUpTo(p)]
<1>2. CodedUpTo(0) = Uncoded
  <2>1. \A b \in Ids : ~(\E q \in Bits : q < 0 /\ b = Mask[q])
    BY DEF Bits
  <2>2. \A b \in Ids : b \in DataBlocks => CodeWord[b] = {b}
    BY DEF CodeWord
  <2> QED BY <2>1, <2>2 DEF CodedUpTo, Uncoded
<1>3. ASSUME NEW p \in 1..PARITY_BITS
      PROVE  CodedUpTo(p) = TurnOfParity(CodedUpTo(p - 1), p - 1)
  <2>1. p - 1 \in Bits /\ (p - 1) + 1 = p
    BY <1>1 DEF Bits
  <2> QED BY <2>1, ParityTurn
<1>4. g = [p \in 0..PARITY_BITS |-> IF p = 0 THEN Here ELSE TurnOfParity(g[p - 1], p - 1)]
  <2>1. ASSUME NEW p \in 0..PARITY_BITS
        PROVE  g[p] = IF p = 0 THEN Here ELSE TurnOfParity(g[p - 1], p - 1)
    <3>1. CASE p = 0
      BY <1>2, <3>1
    <3>2. CASE p # 0
      <4>1. p \in 1..PARITY_BITS /\ p - 1 \in 0..PARITY_BITS
        BY <1>1, <3>2
      <4> QED BY <1>3, <3>2, <4>1
    <3> QED BY <3>1, <3>2
  <2>2. g = [p \in 0..PARITY_BITS |-> g[p]]
    OBVIOUS
  <2> HIDE DEF g
  <2> QED BY <2>1, <2>2
<1>5. ParityFrom = [p \in 0..PARITY_BITS |->
                        IF p = 0 THEN Here ELSE TurnOfParity(ParityFrom[p - 1], p - 1)]
  <2> HIDE DEF g
  <2> QED BY <1>4 DEF ParityFrom, TurnOfParity
<1> DEFINE A == { p \in Nat : p <= PARITY_BITS => ParityFrom[p] = CodedUpTo(p) }
<1>6. 0 \in A
  <2>1. ParityFrom[0] = Here
    BY <1>1, <1>5
  <2> QED BY <1>2, <2>1
<1>7. ASSUME NEW p \in Nat, p \in A PROVE p + 1 \in A
  <2> SUFFICES ASSUME p + 1 <= PARITY_BITS PROVE ParityFrom[p + 1] = CodedUpTo(p + 1)
    OBVIOUS
  <2>1. p + 1 \in 0..PARITY_BITS /\ p + 1 \in 1..PARITY_BITS /\ p + 1 # 0 /\ (p + 1) - 1 = p
    BY <1>1
  <2>2. ParityFrom[p + 1] = TurnOfParity(ParityFrom[p], p)
    BY <1>5, <2>1
  <2>3. ParityFrom[p] = CodedUpTo(p)
    BY <1>1, <1>7
  <2>4. CodedUpTo(p + 1) = TurnOfParity(CodedUpTo(p), p)
    BY <1>3, <2>1
  <2> QED BY <2>2, <2>3, <2>4
<1> HIDE DEF A
<1>8. PARITY_BITS \in A
  BY <1>1, <1>6, <1>7, NatInductionOnSet
<1>9. ParityFrom[PARITY_BITS] = CodedUpTo(PARITY_BITS)
  BY <1>1, <1>8 DEF A
<1>10. CodedUpTo(PARITY_BITS) = Coded
  <2>1. \A q \in Bits : q < PARITY_BITS
    BY <1>1 DEF Bits
  <2>2. \A b \in Ids : b \in DataBlocks \/ (\E q \in Bits : q < PARITY_BITS /\ b = Mask[q])
    BY <2>1 DEF DataBlocks, ParityBlocks
  <2>3. CodeWord = [b \in Ids |-> CodeWord[b]]
    BY DEF CodeWord
  <2> QED BY <2>2, <2>3 DEF CodedUpTo, Coded
<1> QED BY <1>9, <1>10

-----------------------------------------------------------------------------
(* repair *)

(***************************************************************************)
(* What a stage knows of the blocks: after a loss, a block that is present *)
(* is as it was coded, and nothing has changed while the scan goes on,     *)
(* which has noted what is missing before its position, in ascending       *)
(* order.  RepairRestores speaks of nothing before the repair is over.     *)
(***************************************************************************)
Scanned ==
    /\ pos \in Nat \ {0} /\ moff \in Seq(Ids) /\ Len(moff) <= 2
    /\ \A b \in Missing : b < pos => \E k \in 1..Len(moff) : b = moff[k]
    /\ \A k \in 1..Len(moff) : moff[k] \in Missing /\ moff[k] < pos
    /\ Len(moff) = 2 => moff[1] < moff[2]

CodeInv ==
    /\ stage = "data" => Here = Uncoded
    /\ stage \in {"coded", "repaired"} => Here = Coded
    /\ stage = "lost" =>
          /\ present \subseteq Ids
          /\ blocks = [b \in Ids |-> IF b \in present THEN CodeWord[b] ELSE {Junk}]
          /\ before = Here
          /\ Scanned

\* A set of natural numbers has a smallest.
LEMMA MinIsIn ==
    ASSUME NEW s \in SUBSET Nat, s # {}
    PROVE  Min(s) \in s /\ \A y \in s : Min(s) <= y
<1> DEFINE A == { n \in Nat : n \in s => \E x \in s : \A y \in s : x <= y }
           B == { n \in Nat : \A m \in 0..n : m \in A }
<1>1. \A x \in s : x \in Nat
  OBVIOUS
<1>2. 0 \in B
  BY <1>1
<1>3. ASSUME NEW n \in Nat, n \in B PROVE n + 1 \in B
  <2>1. CASE \E m \in 0..n : m \in s
    <3>1. \E x \in s : \A y \in s : x <= y
      BY <1>3, <2>1
    <3> QED BY <3>1
  <2>2. CASE \A m \in 0..n : m \notin s
    <3>1. n + 1 \in A
      <4> SUFFICES ASSUME n + 1 \in s PROVE \E x \in s : \A y \in s : x <= y
        OBVIOUS
      <4>1. \A y \in s : n + 1 <= y
        BY <1>1, <2>2
      <4> QED BY <4>1
    <3>2. \A m \in 0..(n + 1) : m \in 0..n \/ m = n + 1
      OBVIOUS
    <3> QED BY <1>3, <3>1, <3>2
  <2> QED BY <2>1, <2>2
<1> HIDE DEF B
<1>4. PICK n \in s : TRUE
  OBVIOUS
<1>5. n \in B
  BY <1>1, <1>2, <1>3, NatInductionOnSet
<1>6. \E x \in s : \A y \in s : x <= y
  BY <1>1, <1>5 DEF B
<1> QED BY <1>6 DEF Min

\* The lowest of the bits that one block has and another has not.
LEMMA LowestIsIn ==
    ASSUME NEW s \in SUBSET Bits, s # {}
    PROVE  LowestBit(s) \in s
<1>1. s \in SUBSET Nat
  BY CodeAssumption DEF Bits
<1> QED BY <1>1, MinIsIn DEF LowestBit

\* A content of the blocks that is right at all blocks but one, once that one is set.
LEMMA SetLast ==
    ASSUME NEW f, NEW id \in Ids, DOMAIN f = Ids, f = [b \in Ids |-> f[b]],
           \A b \in Ids \ {id} : f[b] = CodeWord[b]
    PROVE  [f EXCEPT ![id] = CodeWord[id]] = CodeWord
<1>1. CodeWord = [b \in Ids |-> CodeWord[b]]
  BY DEF CodeWord
<1>2. [f EXCEPT ![id] = CodeWord[id]] = [b \in Ids |-> IF b = id THEN CodeWord[id] ELSE f[b]]
  OBVIOUS
<1>3. \A b \in Ids : (IF b = id THEN CodeWord[id] ELSE f[b]) = CodeWord[b]
  OBVIOUS
<1> QED BY <1>1, <1>2, <1>3

\* The last missing block is repaired by its own bit.
LEMMA LastRepair ==
    ASSUME NEW s, NEW id \in Ids, s.present = Ids \ {id},
           s.blocks = [b \in Ids |-> s.blocks[b]],
           \A b \in Ids \ {id} : s.blocks[b] = CodeWord[b]
    PROVE  RepairBlock(s, id, SingleBit(id)) = Coded
<1> DEFINE p == SingleBit(id)
<1>1. p \in Bits /\ Bit(id, p)
  BY SingleBitIs
<1> HIDE DEF p
<1>2. RepairBlock(s, id, p) = [ blocks  |-> [s.blocks EXCEPT ![id] = CodeWord[id]],
                                present |-> s.present \cup {id} ]
  BY <1>1, RepairsBlock
<1> DEFINE f == s.blocks
<1>3. DOMAIN f = Ids /\ f = [b \in Ids |-> f[b]] /\ \A b \in Ids \ {id} : f[b] = CodeWord[b]
  OBVIOUS
<1> HIDE DEF f
<1>4. [f EXCEPT ![id] = CodeWord[id]] = CodeWord
  BY <1>3, SetLast
<1>5. s.present \cup {id} = Ids
  OBVIOUS
<1> QED BY <1>2, <1>4, <1>5 DEF Coded, p, f

\* The order for two blocks: the first by a bit that the second has not.
LEMMA DoubleOrderIs ==
    ASSUME NEW a \in Ids, NEW b \in Ids, a > b
    PROVE  \E x, y \in Ids, p \in Bits :
              /\ DoubleOrder(a, b) = << [id |-> x, bit |-> p], [id |-> y, bit |-> SingleBit(y)] >>
              /\ {x, y} = {a, b} /\ x # y
              /\ Bit(x, p) /\ ~Bit(y, p)
<1> DEFINE da == BitsOf(a) \ BitsOf(b)
           db == BitsOf(b) \ BitsOf(a)
<1>1. a \in Nat /\ b \in Nat /\ a < Mask[PARITY_BITS] /\ b < a /\ a # b
  BY CodeAssumption, MaskIs DEF Ids
<1>2. PICK p \in Bits : ~(Bit(b, p) <=> Bit(a, p))
  BY <1>1, BitsDiffer
<1>3. da \subseteq Bits /\ db \subseteq Bits /\ (da # {} \/ db # {})
  BY <1>2 DEF BitsOf
<1>4. /\ \A q \in da : Bit(a, q) /\ ~Bit(b, q)
      /\ \A q \in db : Bit(b, q) /\ ~Bit(a, q)
  BY DEF BitsOf
<1>5. DoubleOrder(a, b) =
          IF da # {}
          THEN << [id |-> a, bit |-> LowestBit(da)], [id |-> b, bit |-> SingleBit(b)] >>
          ELSE << [id |-> b, bit |-> LowestBit(db)], [id |-> a, bit |-> SingleBit(a)] >>
  BY DEF DoubleOrder
<1> HIDE DEF da, db
<1>6. CASE da # {}
  <2>1. LowestBit(da) \in da
    BY <1>3, <1>6, LowestIsIn
  <2> QED BY <1>1, <1>3, <1>4, <1>5, <1>6, <2>1
<1>7. CASE da = {}
  <2>1. LowestBit(db) \in db
    BY <1>3, <1>7, LowestIsIn
  <2> QED BY <1>1, <1>3, <1>4, <1>5, <1>7, <2>1
<1> QED BY <1>6, <1>7

\* Two missing blocks are repaired, one after the other.
LEMMA TwoRepaired ==
    ASSUME NEW a \in Ids, NEW b \in Ids, a > b,
           present = Ids \ {a, b}, blocks = [c \in Ids |-> blocks[c]],
           \A c \in present : blocks[c] = CodeWord[c]
    PROVE  LET o == DoubleOrder(a, b)
               s == RepairBlock(Here, o[1].id, o[1].bit)
           IN  RepairBlock(s, o[2].id, o[2].bit) = Coded
<1>1. PICK x \in Ids, y \in Ids, p \in Bits :
              /\ DoubleOrder(a, b) = << [id |-> x, bit |-> p], [id |-> y, bit |-> SingleBit(y)] >>
              /\ {x, y} = {a, b} /\ x # y
              /\ Bit(x, p) /\ ~Bit(y, p)
  BY DoubleOrderIs
<1> DEFINE h == Here
           f == [h.blocks EXCEPT ![x] = CodeWord[x]]
           s == [blocks |-> f, present |-> h.present \cup {x}]
<1>2. h.present = Ids \ {x, y} /\ h.blocks = blocks
  BY <1>1 DEF Here
<1>3. \A c \in Ids \ {x} : Bit(c, p) => c \in h.present /\ h.blocks[c] = CodeWord[c]
  BY <1>1, <1>2 DEF Here
<1> HIDE DEF h
<1>4. RepairBlock(h, x, p) = s
  BY <1>1, <1>2, <1>3, RepairsBlock
<1>5. s.present = Ids \ {y}
  BY <1>1, <1>2
<1>6. f = [c \in Ids |-> f[c]] /\ \A c \in Ids \ {y} : f[c] = CodeWord[c]
  BY <1>1, <1>2
<1>7. s.blocks = [c \in Ids |-> s.blocks[c]] /\ \A c \in Ids \ {y} : s.blocks[c] = CodeWord[c]
  <2> HIDE DEF f
  <2> QED BY <1>6
<1> HIDE DEF s
<1>8. RepairBlock(s, y, SingleBit(y)) = Coded
  BY <1>5, <1>7, LastRepair
<1> QED BY <1>1, <1>4, <1>8 DEF h

\* The next missing block is noted behind those before it.
LEMMA ScanStep ==
    ASSUME Scanned, Ahead # {}, NEW next, next = Min(Ahead),
           moff' = Append(moff, next), pos' = next + 1, ~Full, present' = present
    PROVE  Scanned'
<1>1. Ahead \in SUBSET Nat /\ Missing \in SUBSET Ids /\ Missing' = Missing
  BY DEF Ahead, Missing, Ids
<1>2. next \in Missing /\ next >= pos /\ next \in Ids /\ next \in Nat /\ \A y \in Ahead : next <= y
  BY <1>1, MinIsIn DEF Ahead, Ids
<1>3. pos \in Nat \ {0} /\ moff \in Seq(Ids) /\ Len(moff) \in Nat /\ Len(moff) < 2
  BY CodeAssumption DEF Scanned, Full
<1>4. /\ moff' \in Seq(Ids) /\ Len(moff') = Len(moff) + 1 /\ moff'[Len(moff')] = next
      /\ \A k \in 1..Len(moff) : moff'[k] = moff[k]
  BY <1>2, <1>3
<1>8. \A b \in Missing : b \in Nat
  BY DEF Missing, Ids
<1>5. ASSUME NEW k \in 1..Len(moff) PROVE moff[k] \in Missing /\ moff[k] < pos /\ moff[k] \in Nat
  <2>1. moff[k] \in Missing /\ moff[k] < pos
    BY <1>5 DEF Scanned
  <2> QED BY <1>8, <2>1, Zenon
<1>6. /\ \A b \in Missing' : b < pos' => \E k \in 1..Len(moff') : b = moff'[k]
      /\ \A k \in 1..Len(moff') : moff'[k] \in Missing' /\ moff'[k] < pos'
  <2>1. ASSUME NEW b \in Missing, b < pos' PROVE \E k \in 1..Len(moff') : b = moff'[k]
    <3>1. b \in Nat
      BY <1>1 DEF Ids
    <3>2. CASE b < pos
      <4>1. PICK k \in 1..Len(moff) : b = moff[k]
        BY <3>2 DEF Scanned
      <4> QED BY <1>3, <1>4, <4>1
    <3>3. CASE b >= pos
      <4>1. b \in Ahead
        BY <3>3 DEF Ahead
      <4>2. b = next
        BY <1>2, <2>1, <3>1, <4>1
      <4> QED BY <1>3, <1>4, <4>2
    <3> QED BY <1>3, <3>1, <3>2, <3>3
  <2>2. ASSUME NEW k \in 1..Len(moff') PROVE moff'[k] \in Missing /\ moff'[k] < pos'
    <3>1. CASE k = Len(moff')
      BY <1>2, <1>4, <3>1
    <3>2. CASE k # Len(moff')
      <4>1. k \in 1..Len(moff)
        BY <1>3, <1>4, <3>2
      <4>2. moff[k] \in Missing /\ moff[k] < pos /\ moff[k] \in Nat /\ moff'[k] = moff[k]
        BY <1>4, <1>5, <4>1
      <4> QED BY <1>2, <1>3, <4>2
    <3> QED BY <3>1, <3>2
  <2> QED BY <1>1, <2>1, <2>2
<1>7. Len(moff') = 2 => moff'[1] < moff'[2]
  <2> SUFFICES ASSUME Len(moff') = 2 PROVE moff'[1] < moff'[2]
    OBVIOUS
  <2>1. 1 \in 1..Len(moff) /\ moff'[2] = next
    BY <1>3, <1>4
  <2>2. moff'[1] = moff[1] /\ moff[1] < pos /\ moff[1] \in Nat
    BY <1>4, <1>5, <2>1
  <2> QED BY <1>2, <1>3, <2>1, <2>2
<1> QED BY <1>2, <1>3, <1>4, <1>6, <1>7 DEF Scanned

\* When the scan is over, it has noted all that is missing.
LEMMA ScanOver ==
    ASSUME Scanned, Ahead = {}
    PROVE  /\ \A b \in Missing : \E k \in 1..Len(moff) : b = moff[k]
           /\ \A k \in 1..Len(moff) : moff[k] \in Missing
           /\ moff \in Seq(Ids) /\ Len(moff) \in Nat /\ Len(moff) <= 2
           /\ Len(moff) = 2 => moff[1] < moff[2]
<1>1. \A b \in Missing : b \in Nat /\ ~(b >= pos) /\ pos \in Nat
  BY DEF Ahead, Missing, Ids, Scanned
<1>2. \A b \in Missing : b < pos
  BY <1>1
<1> QED BY <1>2 DEF Scanned

\* Every step keeps what the stage knows.
LEMMA CodeStep == CodeInv /\ [Next]_vars => CodeInv'
<1> SUFFICES ASSUME CodeInv, [Next]_vars PROVE CodeInv'
  OBVIOUS
<1>1. CASE Parity
  <2>1. Here = Uncoded
    BY <1>1 DEF Parity, CodeInv
  <2>2. ParityFrom[PARITY_BITS] = Coded
    BY <2>1, ParityCodes
  <2>3. blocks' = CodeWord /\ present' = Ids /\ stage' = "coded"
    BY <1>1, <2>2 DEF Parity, Become, Coded
  <2> QED BY <2>3 DEF CodeInv, Here, Coded
<1>2. CASE LoseSome
  <2>1. PICK lost : Lose(lost)
    BY <1>2 DEF LoseSome
  <2>2. blocks = CodeWord /\ present = Ids
    BY <1>2 DEF LoseSome, CodeInv, Here, Coded
  <2>3. /\ present' = Ids \ lost
        /\ blocks' = [b \in Ids |-> IF b \in present' THEN CodeWord[b] ELSE {Junk}]
    BY <2>1, <2>2 DEF Lose
  <2>4. stage' = "lost" /\ before' = Here'
    BY <2>1 DEF Lose, Here
  <2>5. Scanned'
    <3>1. pos' = 1 /\ moff' = <<>>
      BY <2>1 DEF Lose
    <3>2. \A b \in Missing' : ~(b < 1)
      BY DEF Missing, Ids
    <3> QED BY <3>1, <3>2 DEF Scanned
  <2> QED BY <2>3, <2>4, <2>5 DEF CodeInv
<1>3. CASE Repair
  <2>1. /\ present \subseteq Ids
        /\ blocks = [b \in Ids |-> IF b \in present THEN CodeWord[b] ELSE {Junk}]
    BY <1>3 DEF Repair, CodeInv
  <2>2. /\ blocks = [b \in Ids |-> blocks[b]]
        /\ \A b \in present : blocks[b] = CodeWord[b]
    BY <2>1
  <2>3. /\ \A b \in Missing : \E k \in 1..Len(moff) : b = moff[k]
        /\ \A k \in 1..Len(moff) : moff[k] \in Missing
        /\ moff \in Seq(Ids)
        /\ Len(moff) = 2 => moff[1] < moff[2]
    BY <1>3, ScanOver DEF Repair, CodeInv, Scanned
  <2>4. blocks' = CodeWord /\ present' = Ids
    <3>1. CASE RepairNone
      <4>3. 1..Len(moff) = {}
        BY <3>1 DEF RepairNone
      <4>1. present = Ids
        BY <2>1, <2>3, <4>3 DEF Missing
      <4>2. CodeWord = [b \in Ids |-> CodeWord[b]]
        BY DEF CodeWord
      <4> QED BY <2>1, <3>1, <4>1, <4>2 DEF RepairNone
    <3>2. CASE RepairOne
      <4> DEFINE id == moff[1]
      <4>5. Len(moff) = 1 /\ 1..Len(moff) = {1}
        BY <3>2 DEF RepairOne
      <4>1. id \in Ids /\ Missing = {id}
        BY <2>3, <4>5
      <4>2. present = Ids \ {id}
        BY <2>1, <4>1 DEF Missing
      <4>3. Become(RepairBlock(Here, id, SingleBit(id)))
        BY <3>2 DEF RepairOne
      <4> HIDE DEF id
      <4>4. RepairBlock(Here, id, SingleBit(id)) = Coded
        <5> DEFINE s == Here
        <5>1. /\ s.present = Ids \ {id} /\ s.blocks = [b \in Ids |-> s.blocks[b]]
              /\ \A b \in Ids \ {id} : s.blocks[b] = CodeWord[b]
          BY <2>2, <4>2 DEF Here
        <5> HIDE DEF s
        <5>2. RepairBlock(s, id, SingleBit(id)) = Coded
          BY <4>1, <5>1, LastRepair
        <5> QED BY <5>2 DEF s
      <4> QED BY <4>3, <4>4 DEF Become, Coded
    <3>3. CASE RepairTwo
      <4> DEFINE a == moff[2]
                 b == moff[1]
                 o == DoubleOrder(a, b)
                 s == RepairBlock(Here, o[1].id, o[1].bit)
      <4>5. Len(moff) = 2 /\ 1..Len(moff) = {1, 2}
        BY <3>3 DEF RepairTwo
      <4>1. a \in Ids /\ b \in Ids /\ b < a /\ Missing = {a, b}
        <5> HIDE DEF o, s
        <5>1. 1 \in 1..Len(moff) /\ 2 \in 1..Len(moff)
          BY <4>5
        <5>2. a \in Missing /\ b \in Missing
          BY <2>3, <5>1
        <5>3. \A c \in Missing : c = a \/ c = b
          BY <2>3, <4>5
        <5>4. b < a
          BY <2>3, <4>5
        <5> HIDE DEF a, b
        <5>5. a \in Ids /\ b \in Ids
          BY <5>2 DEF Missing
        <5> QED BY <5>2, <5>3, <5>4, <5>5
      <4>2. a > b /\ present = Ids \ {a, b}
        BY <2>1, <4>1 DEF Missing, Ids
      <4>3. Become(RepairBlock(s, o[2].id, o[2].bit))
        BY <3>3 DEF RepairTwo
      <4> HIDE DEF a, b
      <4>4. RepairBlock(s, o[2].id, o[2].bit) = Coded
        BY <2>2, <4>1, <4>2, TwoRepaired
      <4> HIDE DEF o, s
      <4> QED BY <4>3, <4>4 DEF Become, Coded
    <3> QED BY <1>3, <3>1, <3>2, <3>3 DEF Repair
  <2> QED BY <1>3, <2>4 DEF Repair, CodeInv, Here, Coded
<1>4. CASE RepairRefused
  BY <1>4 DEF RepairRefused, CodeInv, Here
<1>5. CASE Receive
  BY <1>5 DEF Receive, CodeInv, Here, Uncoded
<1>6. CASE UNCHANGED vars
  BY <1>6 DEF vars, CodeInv, Here, Scanned, Missing
<1>7. CASE NoteMissing
  <2>1. Scanned'
    BY <1>7, ScanStep DEF NoteMissing, CodeInv
  <2>2. stage = "lost" /\ stage' = "lost" /\ UNCHANGED <<blocks, present, before>>
    BY <1>7 DEF NoteMissing
  <2> QED BY <2>1, <2>2 DEF CodeInv, Here
<1> QED BY <1>1, <1>2, <1>3, <1>4, <1>5, <1>6, <1>7 DEF Next

-----------------------------------------------------------------------------
(* Theorems about the erasure code *)

\* Nothing is lost at first.
LEMMA CodeHolds == Spec => []CodeInv
<1>1. Init => CodeInv
  BY DEF Init, CodeInv, Here, Uncoded
<1> QED BY <1>1, CodeStep, PTL DEF Spec

\* HammingEC.cpp:103-155: parity, and repair of any one or two of any number of
\* blocks, leave every block, parity included, as it was.
THEOREM RepairCorrect == Spec => []RepairRestores
<1>1. CodeInv => RepairRestores
  BY DEF CodeInv, RepairRestores, Here, Coded
<1> QED BY <1>1, CodeHolds, PTL

\* How many blocks the scan may have noted.
LEMMA Counted ==
    ASSUME NEW S, NEW m \in Seq(Ids), Len(m) <= 2,
           \A b \in S : \E k \in 1..Len(m) : b = m[k], \A k \in 1..Len(m) : m[k] \in S
    PROVE  /\ IsFiniteSet(S) /\ Cardinality(S) \in Nat /\ Cardinality(S) <= 2
           /\ Len(m) = 2 /\ m[1] # m[2] => Cardinality(S) = 2
<1>1. CASE Len(m) = 0
  <2>1. 1..Len(m) = {}
    BY <1>1
  <2>2. S = {}
    BY <2>1
  <2> QED BY <1>1, <2>2, FS_EmptySet
<1>2. CASE Len(m) = 1
  <2>1. 1..Len(m) = {1}
    BY <1>2
  <2>2. S = {m[1]}
    BY <2>1
  <2>3. IsFiniteSet(S) /\ Cardinality(S) = 1
    BY <2>2, FS_Singleton
  <2> QED BY <1>2, <2>3
<1>3. CASE Len(m) = 2
  <2>1. 1..Len(m) = {1, 2}
    BY <1>3
  <2>2. S = {m[1]} \cup {m[2]}
    BY <2>1
  <2>3. IsFiniteSet({m[1]}) /\ Cardinality({m[1]}) = 1
    BY FS_Singleton
  <2>4. IsFiniteSet(S) /\ Cardinality(S) = IF m[2] \in {m[1]} THEN 1 ELSE 1 + 1
    BY <2>2, <2>3, FS_AddElement
  <2> QED BY <2>4
<1>4. Len(m) = 0 \/ Len(m) = 1 \/ Len(m) = 2
  <2> DEFINE n == Len(m)
  <2>1. n \in Nat /\ n <= 2
    OBVIOUS
  <2> HIDE DEF n
  <2>2. n = 0 \/ n = 1 \/ n = 2
    BY <2>1
  <2> QED BY <2>2 DEF n
<1> QED BY <1>1, <1>2, <1>3, <1>4

\* A third missing block ahead of two that are noted.
LEMMA ThreeMissing ==
    ASSUME Scanned, Ahead # {}, Full
    PROVE  Cardinality(Missing) \in Nat /\ 3 <= Cardinality(Missing)
<1>1. /\ moff \in Seq(Ids) /\ Len(moff) = 2 /\ 1..Len(moff) = {1, 2}
      /\ moff[1] \in Missing /\ moff[2] \in Missing /\ moff[1] < moff[2]
      /\ moff[1] < pos /\ moff[2] < pos /\ pos \in Nat
  <2>1. moff \in Seq(Ids) /\ Len(moff) \in Nat /\ Len(moff) <= 2 /\ Len(moff) >= 2 /\ pos \in Nat
    BY CodeAssumption DEF Scanned, Full
  <2>2. Len(moff) = 2 /\ 1..Len(moff) = {1, 2}
    <3> DEFINE n == Len(moff)
    <3>1. n \in Nat /\ n <= 2 /\ n >= 2
      BY <2>1
    <3> HIDE DEF n
    <3>2. n = 2 /\ 1..n = {1, 2}
      BY <3>1
    <3> QED BY <3>2 DEF n
  <2>3. 1 \in 1..Len(moff) /\ 2 \in 1..Len(moff)
    BY <2>2
  <2>4. \A k \in 1..Len(moff) : moff[k] \in Missing /\ moff[k] < pos
    BY DEF Scanned
  <2>5. moff[1] \in Missing /\ moff[2] \in Missing /\ moff[1] < pos /\ moff[2] < pos
    BY <2>3, <2>4, Zenon
  <2>6. moff[1] < moff[2]
    BY <2>2 DEF Scanned
  <2> QED BY <2>1, <2>2, <2>5, <2>6
<1>2. PICK x \in Ahead : TRUE
  OBVIOUS
<1> DEFINE a == moff[1]
           b == moff[2]
           S == {a} \cup {b}
<1>3. a \in Nat /\ b \in Nat /\ a < b /\ x \in Missing /\ x \in Nat /\ x >= pos
  BY <1>1, <1>2 DEF Ahead, Missing, Ids
<1>4. x # a /\ x # b /\ b \notin {a} /\ S \cup {x} \subseteq Missing
  BY <1>1, <1>3
<1>5. IsFiniteSet({a}) /\ Cardinality({a}) = 1
  BY FS_Singleton
<1>6. IsFiniteSet(S) /\ Cardinality(S) = 2
  BY <1>4, <1>5, FS_AddElement
<1>7. x \notin S
  BY <1>4
<1> HIDE DEF S
<1>8. IsFiniteSet(S \cup {x}) /\ Cardinality(S \cup {x}) = 3
  BY <1>6, <1>7, FS_AddElement
<1>9. IsFiniteSet(Missing)
  <2>1. IsFiniteSet(Ids)
    BY CodeAssumption, FS_Interval DEF Ids
  <2> QED BY <2>1, FS_Subset DEF Missing
<1> QED BY <1>4, <1>8, <1>9, FS_Subset, FS_CardinalityType

\* HammingEC.cpp:121-133: repair refuses exactly when more than two blocks are missing,
\* though it counts them only until it meets the third, and has then written nothing.
THEOREM RefusalExact == Spec => RefusesExactly
<1>1. CodeInv /\ [Next]_vars => [Answers]_vars
  <2> SUFFICES ASSUME CodeInv, [Next]_vars, stage = "lost", stage' # "lost"
               PROVE  /\ (stage' = "refused") <=> (Cardinality(Ids \ before.present) > MAX_MISSING)
                      /\ stage' = "refused" => blocks' = before.blocks /\ present' = before.present
    BY DEF Answers
  <2>1. /\ before = Here /\ Scanned /\ MAX_MISSING = 2
        /\ Ids \ before.present = Missing /\ before.blocks = blocks /\ before.present = present
    BY CodeAssumption DEF CodeInv, Here, Missing
  <2>2. CASE Repair
    <3>1. Ahead = {} /\ stage' = "repaired"
      BY <2>2 DEF Repair
    <3>2. Cardinality(Missing) \in Nat /\ Cardinality(Missing) <= 2
      BY <2>1, <3>1, ScanOver, Counted
    <3>3. ~(Cardinality(Ids \ before.present) > MAX_MISSING)
      BY <2>1, <3>2
    <3> QED BY <3>1, <3>3
  <2>3. CASE RepairRefused
    <3>1. Ahead # {} /\ Full /\ stage' = "refused" /\ blocks' = blocks /\ present' = present
      BY <2>3 DEF RepairRefused
    <3>2. Cardinality(Missing) \in Nat /\ 3 <= Cardinality(Missing)
      BY <2>1, <3>1, ThreeMissing
    <3>3. Cardinality(Ids \ before.present) > MAX_MISSING
      BY <2>1, <3>2
    <3> QED BY <2>1, <3>1, <3>3
  <2>4. CASE Parity \/ LoseSome \/ Receive \/ NoteMissing \/ UNCHANGED vars
    BY <2>4 DEF Parity, LoseSome, Lose, Receive, NoteMissing, vars
  <2> QED BY <2>2, <2>3, <2>4 DEF Next
<1> QED BY <1>1, CodeHolds, PTL DEF Spec, RefusesExactly

-----------------------------------------------------------------------------
(* The signal chain: what is known of its parameters *)

\* What a tap of n samples, the newest at s, holds of the signal x.
RingOf(f, x, n, s, t) ==
    \A k \in Radio!Taps(f) :
        t[(k + s) % Radio!Length(f)] = IF k < n THEN x[n - 1 - k] ELSE 0

\* The signals behind the pipes of mixers and filters.
Mixed1 == Radio!Product(signal, Oscillator["lo1"])
Filtered1 == Radio!Convolved("filtIf1", Mixed1)
Mixed2 == Radio!Product(Filtered1, Oscillator["lo2"])
Filtered2 == Radio!Convolved("filtIf2", Mixed2)

LEMMA SamplesIs ==
    /\ Oversampling \in Nat \ {0} /\ AdcSamples \in Nat \ {0}
    /\ Radio!SAMPLES = AdcSamples * Oversampling /\ Radio!SAMPLES \in Nat \ {0}
    /\ Radio!Steps = 0..(Radio!SAMPLES - 1)
<1>1. Oversampling \in Nat \ {0} /\ AdcSamples \in Nat \ {0}
  BY RadioAssumption DEF Radio!ChainConstants
<1>2. AdcSamples * Oversampling \in Nat \ {0}
  BY <1>1
<1> QED BY <1>1, <1>2 DEF Radio!SAMPLES, Radio!Steps

\* What is asked of the sizes of the run.
LEMMA ChainBounds ==
    /\ Filtered \in Nat /\ Settled \in Nat /\ FftSize \in Nat \ {0} /\ Stride \in Nat \ {0}
    /\ Filtered >= 2 * (Radio!Length("decimation") - 1)
    /\ Settled >= Filtered
    /\ Settled + Stride * (FftSize - 1) + 1 < AdcSamples
    /\ Filtered - 1 <= AdcSamples - 1
<1>1. /\ Filtered \in Nat /\ Settled \in Nat /\ FftSize \in Nat \ {0} /\ Stride \in Nat \ {0}
      /\ Filtered >= 2 * (Radio!Length("decimation") - 1)
      /\ Settled >= Filtered
      /\ Settled + Stride * (FftSize - 1) + 1 < AdcSamples
  BY RadioAssumption DEF Radio!ChainConstants
<1>2. Stride * (FftSize - 1) \in Nat
  BY <1>1
<1>3. Filtered - 1 <= AdcSamples - 1
  BY <1>1, <1>2, SamplesIs
<1> QED BY <1>1, <1>3

LEMMA WeightsAre ==
    ASSUME NEW f \in Radio!Filters \cup {"decimation"}
    PROVE  /\ Radio!Length(f) \in Nat \ {0} /\ Radio!Taps(f) = 0..(Radio!Length(f) - 1)
           /\ \A n \in Radio!Taps(f) : Weights[f][n] \in Int
BY RadioAssumption DEF Radio!ChainConstants

LEMMA ChainIs ==
    /\ Radio!Chain[1] = "rf" /\ Radio!Chain[2] = "lo1" /\ Radio!Chain[3] = "lo2"
    /\ Radio!Chain[4] = "mix1" /\ Radio!Chain[5] = "filtIf1"
    /\ Radio!Chain[6] = "mix2" /\ Radio!Chain[7] = "filtIf2"
    /\ Radio!Modules = {"rf", "lo1", "lo2", "mix1", "filtIf1", "mix2", "filtIf2"}
<1>1. /\ Radio!Chain[1] = "rf" /\ Radio!Chain[2] = "lo1" /\ Radio!Chain[3] = "lo2"
      /\ Radio!Chain[4] = "mix1" /\ Radio!Chain[5] = "filtIf1"
      /\ Radio!Chain[6] = "mix2" /\ Radio!Chain[7] = "filtIf2"
  BY DEF Radio!Chain
<1>2. 1..7 = {1, 2, 3, 4, 5, 6, 7}
  OBVIOUS
<1> QED BY <1>1, <1>2 DEF Radio!Modules

\* What a convolution sums.
Terms(f, x, s) ==
    [n \in Radio!Taps(f) |-> IF n <= s THEN Weights[f][n] * x[s - n] ELSE 0]

\* Sums are the same in the module that is instantiated.
LEMMA SameSum == \A g : Radio!SumFunction(g) = SumFunctionOnSet(g, DOMAIN g)
BY DEF Radio!SumFunction, Radio!SumFunctionOnSet, Radio!FoldFunctionOnSet, Radio!MapThenFoldSet,
       SumFunctionOnSet, FoldFunctionOnSet, MapThenFoldSet

LEMMA ConvolvedAt ==
    ASSUME NEW f \in Radio!Filters, NEW x, NEW s \in Radio!Steps
    PROVE  Radio!Convolved(f, x)[s] = SumFunctionOnSet(Terms(f, x, s), Radio!Taps(f))
<1>1. Radio!Convolved(f, x) = [n \in Radio!Steps |-> Radio!SumFunction(Terms(f, x, n))]
  BY DEF Radio!Convolved, Terms
<1>2. Radio!Convolved(f, x)[s] = Radio!SumFunction(Terms(f, x, s))
  BY <1>1
<1>3. DOMAIN Terms(f, x, s) = Radio!Taps(f)
  BY DEF Terms
<1> QED BY <1>2, <1>3, SameSum

\* A sum of numbers is a number.
LEMMA SumInt ==
    ASSUME NEW S, IsFiniteSet(S), NEW g, \A k \in S : g[k] \in Int
    PROVE  SumFunctionOnSet(g, S) \in Int
<1>1. 0 \in Int /\ Int \subseteq Int /\ \A a, b \in Int : a + b \in Int
  OBVIOUS
<1> QED BY <1>1, SumTyped

\* A convolution of numbers is a number.
LEMMA ConvolvedInt ==
    ASSUME NEW f \in Radio!Filters, NEW x, \A n \in Radio!Steps : x[n] \in Int
    PROVE  \A n \in Radio!Steps : Radio!Convolved(f, x)[n] \in Int
<1> TAKE n \in Radio!Steps
<1>1. ASSUME NEW k \in Radio!Taps(f) PROVE Terms(f, x, n)[k] \in Int
  <2>1. Weights[f][k] \in Int /\ k \in Nat /\ n \in Nat
    BY WeightsAre, SamplesIs
  <2>2. k <= n => x[n - k] \in Int
    BY <2>1, SamplesIs
  <2>3. Terms(f, x, n)[k] = IF k <= n THEN Weights[f][k] * x[n - k] ELSE 0
    BY DEF Terms
  <2> QED BY <2>1, <2>2, <2>3
<1>2. IsFiniteSet(Radio!Taps(f))
  BY WeightsAre, FS_Interval
<1> QED BY <1>1, <1>2, SumInt, ConvolvedAt

\* All signals are numbers at every step.
LEMMA SignalsInt ==
    ASSUME signal \in Signals
    PROVE  \A n \in Radio!Steps :
               Mixed1[n] \in Int /\ Mixed2[n] \in Int /\ Filtered2[n] \in Int
<1>1. /\ \A n \in Radio!Steps : signal[n] \in Int
      /\ \A n \in Radio!Steps : Oscillator["lo1"][n] \in Int /\ Oscillator["lo2"][n] \in Int
  BY RadioAssumption DEF Radio!ChainConstants
<1>2. \A n \in Radio!Steps : Mixed1[n] \in Int
  BY <1>1 DEF Mixed1, Radio!Product
<1> HIDE DEF Mixed1
<1>3. \A n \in Radio!Steps : Filtered1[n] \in Int
  BY <1>2, ConvolvedInt DEF Filtered1, Radio!Filters
<1> HIDE DEF Filtered1
<1>4. \A n \in Radio!Steps : Mixed2[n] \in Int
  BY <1>1, <1>3 DEF Mixed2, Radio!Product
<1> HIDE DEF Mixed2
<1>5. \A n \in Radio!Steps : Filtered2[n] \in Int
  BY <1>4, ConvolvedInt DEF Filtered2, Radio!Filters
<1> QED BY <1>2, <1>4, <1>5

\* Samples are numbers.
LEMMA SampledInt ==
    ASSUME signal \in Signals
    PROVE  \A k \in 0..(AdcSamples - 1) : Radio!Sampled[k] \in Int
<1> TAKE k \in 0..(AdcSamples - 1)
<1> DEFINE e == (k + 1) * Oversampling - 1
<1>1. k \in Nat /\ k + 1 \in Nat /\ k + 1 <= AdcSamples /\ k + 1 # 0
  BY SamplesIs
<1>2. (k + 1) * Oversampling <= AdcSamples * Oversampling /\ (k + 1) * Oversampling \in Nat \ {0}
  BY <1>1, SamplesIs
<1>3. e \in Radio!Steps
  BY <1>2, SamplesIs
<1>4. Filtered2[e] \in Int
  BY <1>3, SignalsInt
<1>5. Radio!Received = Filtered2
  BY DEF Radio!Received, Filtered2, Mixed2, Filtered1, Mixed1
<1>6. Radio!Sampled[k] = Radio!Turned(k, 4 * Filtered2[e])
  BY <1>5 DEF Radio!Sampled
<1> HIDE DEF e
<1> QED BY <1>4, <1>6 DEF Radio!Turned

-----------------------------------------------------------------------------
(* A turn of a filter's ring *)

\* What a filter whose newest tap is at s sums.
Drawn(f, s, t) ==
    [n \in Radio!Taps(f) |-> Weights[f][n] * t[(n + s) % Radio!Length(f)]]

\* Two places of a ring of n, added.
LEMMA RingSum ==
    ASSUME NEW n \in Nat \ {0}, NEW a \in 0..(n - 1), NEW b \in 0..(n - 1)
    PROVE  (a + b) % n = IF a + b < n THEN a + b ELSE a + b - n
<1>1. CASE a + b < n
  <2>1. (a + b) \div n = 0
    <3>1. n * 0 + (a + b) = a + b /\ 0 \in Nat /\ a + b \in 0..(n - 1)
      BY <1>1
    <3>2. (n * 0 + (a + b)) \div n = 0
      BY <3>1, QuotientUnique
    <3> QED BY <3>1, <3>2
  <2>2. a + b = n * ((a + b) \div n) + ((a + b) % n) /\ (a + b) % n \in Int
    BY Division
  <2> QED BY <1>1, <2>1, <2>2
<1>2. CASE ~(a + b < n)
  <2>1. (a + b) \div n = 1
    <3>1. n * 1 + (a + b - n) = a + b /\ 1 \in Nat /\ a + b - n \in 0..(n - 1)
      BY <1>2
    <3>2. (n * 1 + (a + b - n)) \div n = 1
      BY <3>1, QuotientUnique
    <3> QED BY <3>1, <3>2
  <2>2. a + b = n * ((a + b) \div n) + ((a + b) % n) /\ (a + b) % n \in Int
    BY Division
  <2> QED BY <1>2, <2>1, <2>2
<1> QED BY <1>1, <1>2

\* One turn of a ring of n: all but the newest place are where they were.
LEMMA RingTurned ==
    ASSUME NEW n \in Nat \ {0}, NEW k \in 1..(n - 1), NEW s \in 0..(n - 1),
           NEW r \in 0..(n - 1), s = 0 => r = n - 1, s # 0 => r = s - 1
    PROVE  /\ (k + r) % n = ((k - 1) + s) % n
           /\ (k + r) % n # r /\ (k + r) % n \in 0..(n - 1)
<1>1. n \in Int /\ k \in Int /\ s \in Int /\ 1 <= k /\ k <= n - 1 /\ 0 <= s /\ s <= n - 1
  OBVIOUS
<1>2. k \in 0..(n - 1) /\ k - 1 \in 0..(n - 1)
  BY <1>1
<1>3. (k + r) % n = IF k + r < n THEN k + r ELSE k + r - n
  BY <1>2, RingSum
<1>4. ((k - 1) + s) % n = IF (k - 1) + s < n THEN (k - 1) + s ELSE (k - 1) + s - n
  BY <1>2, RingSum
<1> DEFINE p == (k + r) % n
           q == ((k - 1) + s) % n
<1>5. /\ p = IF k + r < n THEN k + r ELSE k + r - n
      /\ q = IF (k - 1) + s < n THEN (k - 1) + s ELSE (k - 1) + s - n
  BY <1>3, <1>4
<1> HIDE DEF p, q
<1>6. CASE s = 0
  <2>1. r = n - 1
    BY <1>6
  <2>2. p = k - 1 /\ q = k - 1
    BY <1>1, <1>5, <1>6, <2>1
  <2> QED BY <1>1, <2>1, <2>2 DEF p, q
<1>7. CASE s # 0
  <2>1. r = s - 1
    BY <1>7
  <2>2. p = q
    BY <1>1, <1>5, <2>1
  <2>3. p # r /\ p \in 0..(n - 1)
    BY <1>1, <1>5, <1>7, <2>1
  <2> QED BY <2>2, <2>3 DEF p, q
<1> QED BY <1>6, <1>7

\* A new sample of the signal in place of the oldest tap: the ring holds the
\* newest samples again, and what the filter sums is the convolution.
LEMMA FilterTurn ==
    ASSUME NEW f \in Radio!Filters, NEW x, \A k \in Radio!Steps : x[k] \in Int,
           NEW n \in Radio!Steps, NEW s \in 0..(Radio!Length(f) - 1),
           NEW t, t = [k \in Radio!Taps(f) |-> t[k]], RingOf(f, x, n, s, t),
           NEW r, r = (IF s = 0 THEN Radio!Length(f) - 1 ELSE s - 1),
           NEW u, u = [t EXCEPT ![r] = x[n]]
    PROVE  /\ r \in 0..(Radio!Length(f) - 1)
           /\ u = [k \in Radio!Taps(f) |-> u[k]]
           /\ RingOf(f, x, n + 1, r, u)
           /\ SumFunctionOnSet(Drawn(f, r, u), Radio!Taps(f)) = Radio!Convolved(f, x)[n]
<1> DEFINE L == Radio!Length(f)
           T == Radio!Taps(f)
<1>1. L \in Nat \ {0} /\ T = 0..(L - 1) /\ n \in Nat /\ \A k \in T : Weights[f][k] \in Int
  BY WeightsAre, SamplesIs
<1>2. \A k \in T : t[(k + s) % L] = IF k < n THEN x[n - 1 - k] ELSE 0
  BY DEF RingOf
<1>3. s \in 0..(L - 1) /\ r = (IF s = 0 THEN L - 1 ELSE s - 1)
  OBVIOUS
<1>4. t = [k \in T |-> t[k]]
  OBVIOUS
<1> HIDE DEF L, T
<1>5. r \in 0..(L - 1)
  BY <1>1, <1>3
<1>6. u = [k \in T |-> u[k]] /\ u[r] = x[n] /\ \A k \in T \ {r} : u[k] = t[k]
  BY <1>1, <1>4, <1>5
<1>7. ASSUME NEW k \in T PROVE u[(k + r) % L] = IF k < n + 1 THEN x[n - k] ELSE 0
  <2>1. CASE k = 0
    <3>1. (k + r) % L = r
      BY <1>1, <1>5, <2>1, RingSum
    <3> QED BY <1>1, <1>6, <2>1, <3>1
  <2>2. CASE k # 0
    <3>1. k - 1 \in T /\ k - 1 \in 0..(L - 1) /\ k \in 0..(L - 1)
      BY <1>1, <2>2
    <3>2. (k + r) % L = ((k - 1) + s) % L /\ (k + r) % L # r /\ (k + r) % L \in T
      <4>1. k \in 1..(L - 1)
        BY <1>1, <2>2, <3>1
      <4>2. L \in Nat \ {0}
        BY <1>1
      <4>3. (k + r) % L = ((k - 1) + s) % L /\ (k + r) % L # r /\ (k + r) % L \in 0..(L - 1)
        <5>1. s = 0 => r = L - 1
          BY <1>3
        <5>2. s # 0 => r = s - 1
          BY <1>3
        <5>3. s \in 0..(L - 1) /\ r \in 0..(L - 1)
          BY <1>3, <1>5
        <5> QED BY <4>1, <4>2, <5>1, <5>2, <5>3, RingTurned
      <4> QED BY <1>1, <4>3
    <3>3. u[(k + r) % L] = IF k - 1 < n THEN x[n - 1 - (k - 1)] ELSE 0
      BY <1>2, <1>6, <3>1, <3>2
    <3>4. n - 1 - (k - 1) = n - k /\ (k - 1 < n <=> k < n + 1)
      BY <1>1, <3>1
    <3> QED BY <3>3, <3>4
  <2> QED BY <2>1, <2>2
<1>8. RingOf(f, x, n + 1, r, u)
  <2>1. \A k \in T : (n + 1) - 1 - k = n - k
    BY <1>1
  <2> QED BY <1>7, <2>1 DEF RingOf, L, T
<1>9. Drawn(f, r, u) = Terms(f, x, n)
  <2>1. ASSUME NEW k \in T
        PROVE  Weights[f][k] * u[(k + r) % L] = IF k <= n THEN Weights[f][k] * x[n - k] ELSE 0
    BY <1>1, <1>7
  <2> QED BY <2>1 DEF Drawn, Terms, L, T
<1>10. SumFunctionOnSet(Drawn(f, r, u), T) = Radio!Convolved(f, x)[n]
  BY <1>9, ConvolvedAt DEF T
<1> QED BY <1>5, <1>6, <1>8, <1>10 DEF L, T

-----------------------------------------------------------------------------
(* What the chain has done *)

\* Steps made by the module at place k of the chain.
Made(k) == IF at > k THEN i + 1 ELSE i

\* The filter at place k of the chain, which reads x.
RingInv(f, k, x) ==
    /\ step[f] \in 0..(Radio!Length(f) - 1)
    /\ taps[f] = [n \in Radio!Taps(f) |-> taps[f][n]]
    /\ RingOf(f, x, Made(k), step[f], taps[f])

\* Every pipe written in this turn holds its signal at this very step.
PipesInv ==
    /\ i \in Radio!Steps /\ at \in 1..8
    /\ DOMAIN out = Radio!Modules
    /\ DOMAIN step = Radio!Sources \cup Radio!Filters /\ DOMAIN taps = Radio!Filters
    /\ step["rf"] = Made(1) /\ step["lo1"] = Made(2) /\ step["lo2"] = Made(3)
    /\ RingInv("filtIf1", 5, Mixed1) /\ RingInv("filtIf2", 7, Mixed2)
    /\ at > 1 => out["rf"] = signal[i]
    /\ at > 2 => out["lo1"] = Oscillator["lo1"][i]
    /\ at > 3 => out["lo2"] = Oscillator["lo2"][i]
    /\ at > 4 => out["mix1"] = Mixed1[i]
    /\ at > 5 => out["filtIf1"] = Filtered1[i]
    /\ at > 6 => out["mix2"] = Mixed2[i]
    /\ at > 7 => out["filtIf2"] = Filtered2[i]

\* The samples kept so far.
KeptInv ==
    \A k \in 0..(AdcSamples - 1) :
        (k + 1) * Oversampling <= i => output[k] = 4 * Filtered2[(k + 1) * Oversampling - 1]

\* The filter loop has come down to i.
LoopInv ==
    /\ i \in (Filtered - 1)..(AdcSamples - 1)
    /\ \A k \in 0..(AdcSamples - 1) :
           output[k] = IF k > i THEN Radio!Decimated(k) ELSE Radio!Sampled[k]

ChainInv ==
    /\ signal \in Signals
    /\ loop \in {"chain", "filter", "done"}
    /\ output = [k \in 0..(AdcSamples - 1) |-> output[k]]
    /\ loop = "chain" => PipesInv /\ KeptInv
    /\ loop = "filter" => LoopInv
    /\ OutputIsConvolution

-----------------------------------------------------------------------------
(* The chain's steps *)

\* The signals are what they were while the received one is.
LEMMA SameSignals ==
    ASSUME signal' = signal
    PROVE  /\ Mixed1' = Mixed1 /\ Filtered1' = Filtered1
           /\ Mixed2' = Mixed2 /\ Filtered2' = Filtered2
           /\ Radio!Sampled' = Radio!Sampled
           /\ \A k : Radio!Decimated(k)' = Radio!Decimated(k)
BY DEF Mixed1, Filtered1, Mixed2, Filtered2, Radio!Product, Radio!Convolved,
       Radio!Sampled, Radio!Received, Radio!Decimated, Radio!Turned

\* The module that is stepped, and how.
LEMMA Stepped ==
    ASSUME PipesInv, Radio!DoStep
    PROVE  /\ at' = at + 1 /\ at \in 1..7 /\ at' \in 1..8
           /\ \/ at = 1 /\ Radio!Oscillate("rf")
              \/ at = 2 /\ Radio!Oscillate("lo1")
              \/ at = 3 /\ Radio!Oscillate("lo2")
              \/ at = 4 /\ Radio!Mix("mix1")
              \/ at = 5 /\ Radio!Filter("filtIf1")
              \/ at = 6 /\ Radio!Mix("mix2")
              \/ at = 7 /\ Radio!Filter("filtIf2")
<1>1. at \in 1..7 /\ at' = at + 1
  BY DEF PipesInv, Radio!DoStep
<1>2. at = 1 \/ at = 2 \/ at = 3 \/ at = 4 \/ at = 5 \/ at = 6 \/ at = 7
  BY <1>1
<1>3. DOMAIN Radio!Factors = {"mix1", "mix2"}
  BY DEF Radio!Factors
<1>4. \/ Radio!Chain[at] \in Radio!Sources /\ Radio!Oscillate(Radio!Chain[at])
      \/ Radio!Chain[at] \in {"mix1", "mix2"} /\ Radio!Mix(Radio!Chain[at])
      \/ Radio!Chain[at] \in Radio!Filters /\ Radio!Filter(Radio!Chain[at])
  BY <1>3 DEF Radio!DoStep
<1>5. /\ at = 1 => Radio!Oscillate("rf")
      /\ at = 2 => Radio!Oscillate("lo1")
      /\ at = 3 => Radio!Oscillate("lo2")
      /\ at = 4 => Radio!Mix("mix1")
      /\ at = 5 => Radio!Filter("filtIf1")
      /\ at = 6 => Radio!Mix("mix2")
      /\ at = 7 => Radio!Filter("filtIf2")
  BY <1>4, ChainIs DEF Radio!Sources, Radio!Filters
<1> QED BY <1>1, <1>2, <1>5

\* A source gives the value of this step.
LEMMA OscillateStep ==
    ASSUME NEW m \in Radio!Sources, Radio!Oscillate(m),
           DOMAIN out = Radio!Modules, DOMAIN step = Radio!Sources \cup Radio!Filters,
           step[m] = i
    PROVE  /\ DOMAIN out' = Radio!Modules /\ DOMAIN step' = DOMAIN step /\ taps' = taps
           /\ out'[m] = (IF m = "rf" THEN signal[i] ELSE Oscillator[m][i])
           /\ step'[m] = i + 1
           /\ \A k \in Radio!Modules \ {m} : out'[k] = out[k]
           /\ \A k \in DOMAIN step \ {m} : step'[k] = step[k]
<1>1. m \in Radio!Modules
  BY ChainIs DEF Radio!Sources
<1>2. /\ out' = [out EXCEPT ![m] = IF m = "rf" THEN signal[step[m]]
                                   ELSE Oscillator[m][step[m]]]
      /\ step' = [step EXCEPT ![m] = @ + 1] /\ taps' = taps
  BY DEF Radio!Oscillate
<1> QED BY <1>1, <1>2

\* A mixer multiplies the pipes of its two factors.
LEMMA MixStep ==
    ASSUME NEW m \in {"mix1", "mix2"}, Radio!Mix(m), DOMAIN out = Radio!Modules
    PROVE  /\ DOMAIN out' = Radio!Modules /\ step' = step /\ taps' = taps
           /\ m = "mix1" => out'[m] = out["rf"] * out["lo1"]
           /\ m = "mix2" => out'[m] = out["filtIf1"] * out["lo2"]
           /\ \A k \in Radio!Modules \ {m} : out'[k] = out[k]
<1>1. m \in Radio!Modules
  BY ChainIs
<1>2. /\ Radio!Factors["mix1"][1] = "rf" /\ Radio!Factors["mix1"][2] = "lo1"
      /\ Radio!Factors["mix2"][1] = "filtIf1" /\ Radio!Factors["mix2"][2] = "lo2"
  BY DEF Radio!Factors
<1>3. out' = [out EXCEPT ![m] = out[Radio!Factors[m][1]] * out[Radio!Factors[m][2]]]
  BY DEF Radio!Mix
<1>4. out'[m] = out[Radio!Factors[m][1]] * out[Radio!Factors[m][2]]
  BY <1>1, <1>3
<1> QED BY <1>1, <1>2, <1>3, <1>4 DEF Radio!Mix

\* A filter that has seen the signal up to this step.
LEMMA FilterStep ==
    ASSUME NEW f \in Radio!Filters, Radio!Filter(f), i \in Radio!Steps,
           NEW x, \A k \in Radio!Steps : x[k] \in Int,
           DOMAIN out = Radio!Modules, DOMAIN step = Radio!Sources \cup Radio!Filters,
           DOMAIN taps = Radio!Filters,
           step[f] \in 0..(Radio!Length(f) - 1),
           taps[f] = [n \in Radio!Taps(f) |-> taps[f][n]],
           RingOf(f, x, i, step[f], taps[f]), out[Radio!FilterInput[f]] = x[i]
    PROVE  /\ DOMAIN out' = Radio!Modules /\ DOMAIN step' = DOMAIN step
           /\ DOMAIN taps' = DOMAIN taps
           /\ step'[f] \in 0..(Radio!Length(f) - 1)
           /\ taps'[f] = [n \in Radio!Taps(f) |-> taps'[f][n]]
           /\ RingOf(f, x, i + 1, step'[f], taps'[f])
           /\ out'[f] = Radio!Convolved(f, x)[i]
           /\ \A k \in Radio!Modules \ {f} : out'[k] = out[k]
           /\ \A k \in DOMAIN step \ {f} : step'[k] = step[k]
           /\ \A k \in Radio!Filters \ {f} : taps'[k] = taps[k]
<1> DEFINE r == Radio!Newest(f)
           t == taps[f]
           u == [t EXCEPT ![r] = x[i]]
           d == Drawn(f, r, u)
           s == step[f]
<1>1. f \in Radio!Modules
  BY ChainIs DEF Radio!Filters
<1>2. /\ step' = [step EXCEPT ![f] = r] /\ taps' = [taps EXCEPT ![f] = u]
      /\ out' = [out EXCEPT ![f] = Radio!SumFunction(d)]
  BY DEF Radio!Filter, Drawn
<1>3. r = IF s = 0 THEN Radio!Length(f) - 1 ELSE s - 1
  BY DEF Radio!Newest
<1>4. DOMAIN d = Radio!Taps(f)
  BY DEF Drawn
<1>5. u = [t EXCEPT ![r] = x[i]]
  OBVIOUS
<1>6. /\ s \in 0..(Radio!Length(f) - 1) /\ t = [n \in Radio!Taps(f) |-> t[n]]
      /\ RingOf(f, x, i, s, t) /\ d = Drawn(f, r, u)
  OBVIOUS
<1> HIDE DEF r, t, u, d, s
<1>7. /\ r \in 0..(Radio!Length(f) - 1)
      /\ u = [k \in Radio!Taps(f) |-> u[k]]
      /\ RingOf(f, x, i + 1, r, u)
      /\ SumFunctionOnSet(Drawn(f, r, u), Radio!Taps(f)) = Radio!Convolved(f, x)[i]
  BY <1>3, <1>5, <1>6, FilterTurn
<1>8. Radio!SumFunction(d) = Radio!Convolved(f, x)[i]
  BY <1>4, <1>6, <1>7, SameSum
<1>9. step'[f] = r /\ taps'[f] = u /\ out'[f] = Radio!Convolved(f, x)[i]
  BY <1>1, <1>2, <1>8
<1>10. /\ DOMAIN out' = Radio!Modules /\ DOMAIN step' = DOMAIN step
       /\ DOMAIN taps' = DOMAIN taps
       /\ \A k \in Radio!Modules \ {f} : out'[k] = out[k]
       /\ \A k \in DOMAIN step \ {f} : step'[k] = step[k]
       /\ \A k \in Radio!Filters \ {f} : taps'[k] = taps[k]
  BY <1>2
<1> QED BY <1>7, <1>9, <1>10

\* A module's step leaves the rest of the chain as it was and its own pipe, ring
\* and count at this step.
LEMMA PipesStep ==
    ASSUME signal \in Signals, signal' = signal, PipesInv, Radio!DoStep
    PROVE  PipesInv'
<1>1. i' = i /\ at' = at + 1 /\ at \in 1..7 /\ at' \in 1..8 /\ i \in Radio!Steps /\ i \in Nat
  BY Stepped, SamplesIs DEF PipesInv, Radio!DoStep
<1>2. /\ DOMAIN out = Radio!Modules
      /\ DOMAIN step = Radio!Sources \cup Radio!Filters /\ DOMAIN taps = Radio!Filters
  BY DEF PipesInv
<1>3. /\ Mixed1' = Mixed1 /\ Filtered1' = Filtered1
      /\ Mixed2' = Mixed2 /\ Filtered2' = Filtered2
  BY SameSignals
<1>4. /\ Mixed1[i] = signal[i] * Oscillator["lo1"][i]
      /\ Mixed2[i] = Filtered1[i] * Oscillator["lo2"][i]
  BY <1>1 DEF Mixed1, Mixed2, Radio!Product
<1>5. /\ Filtered1 = Radio!Convolved("filtIf1", Mixed1)
      /\ Filtered2 = Radio!Convolved("filtIf2", Mixed2)
  BY DEF Filtered1, Filtered2
<1>6. /\ \A k \in Radio!Steps : Mixed1[k] \in Int
      /\ \A k \in Radio!Steps : Mixed2[k] \in Int
  BY SignalsInt
<1>7. /\ Radio!Sources = {"rf", "lo1", "lo2"} /\ Radio!Filters = {"filtIf1", "filtIf2"}
      /\ Radio!Modules = {"rf", "lo1", "lo2", "mix1", "filtIf1", "mix2", "filtIf2"}
  BY ChainIs DEF Radio!Sources, Radio!Filters
<1>8. \A k \in 1..7 : k # at => Made(k)' = Made(k)
  BY <1>1 DEF Made
<1>9. \A k \in 1..7 : k = at => Made(k) = i /\ Made(k)' = i + 1
  BY <1>1 DEF Made
<1>10. ASSUME NEW f \in Radio!Filters, NEW k \in 1..7, k # at, NEW x,
              RingInv(f, k, x), step'[f] = step[f], taps'[f] = taps[f]
       PROVE  /\ step'[f] \in 0..(Radio!Length(f) - 1)
              /\ taps'[f] = [n \in Radio!Taps(f) |-> taps'[f][n]]
              /\ RingOf(f, x, Made(k)', step'[f], taps'[f])
  BY <1>8, <1>10 DEF RingInv
<1> USE <1>1, <1>2, <1>3, <1>7
<1> HIDE DEF Mixed1, Filtered1, Mixed2, Filtered2
<1>11. CASE at = 1 /\ Radio!Oscillate("rf")
  <2>1. step["rf"] = i
    BY <1>9, <1>11 DEF PipesInv
  <2>2. /\ DOMAIN out' = Radio!Modules /\ DOMAIN step' = DOMAIN step /\ taps' = taps
        /\ out'["rf"] = signal[i] /\ step'["rf"] = i + 1
        /\ \A k \in Radio!Modules \ {"rf"} : out'[k] = out[k]
        /\ \A k \in DOMAIN step \ {"rf"} : step'[k] = step[k]
    BY <1>11, <2>1, OscillateStep
  <2> QED BY <1>8, <1>9, <1>10, <1>11, <2>2 DEF PipesInv, RingInv
<1>12. CASE at = 2 /\ Radio!Oscillate("lo1")
  <2>1. step["lo1"] = i
    BY <1>9, <1>12 DEF PipesInv
  <2>2. /\ DOMAIN out' = Radio!Modules /\ DOMAIN step' = DOMAIN step /\ taps' = taps
        /\ out'["lo1"] = Oscillator["lo1"][i] /\ step'["lo1"] = i + 1
        /\ \A k \in Radio!Modules \ {"lo1"} : out'[k] = out[k]
        /\ \A k \in DOMAIN step \ {"lo1"} : step'[k] = step[k]
    BY <1>12, <2>1, OscillateStep
  <2> QED BY <1>8, <1>9, <1>10, <1>12, <2>2 DEF PipesInv, RingInv
<1>13. CASE at = 3 /\ Radio!Oscillate("lo2")
  <2>1. step["lo2"] = i
    BY <1>9, <1>13 DEF PipesInv
  <2>2. /\ DOMAIN out' = Radio!Modules /\ DOMAIN step' = DOMAIN step /\ taps' = taps
        /\ out'["lo2"] = Oscillator["lo2"][i] /\ step'["lo2"] = i + 1
        /\ \A k \in Radio!Modules \ {"lo2"} : out'[k] = out[k]
        /\ \A k \in DOMAIN step \ {"lo2"} : step'[k] = step[k]
    BY <1>13, <2>1, OscillateStep
  <2> QED BY <1>8, <1>9, <1>10, <1>13, <2>2 DEF PipesInv, RingInv
<1>14. CASE at = 4 /\ Radio!Mix("mix1")
  <2>1. /\ DOMAIN out' = Radio!Modules /\ step' = step /\ taps' = taps
        /\ out'["mix1"] = out["rf"] * out["lo1"]
        /\ \A k \in Radio!Modules \ {"mix1"} : out'[k] = out[k]
    BY <1>14, MixStep
  <2>2. out'["mix1"] = Mixed1[i]
    BY <1>4, <1>14, <2>1 DEF PipesInv
  <2> QED BY <1>8, <1>10, <1>14, <2>1, <2>2 DEF PipesInv, RingInv
<1>15. CASE at = 5 /\ Radio!Filter("filtIf1")
  <2>1. RingInv("filtIf1", 5, Mixed1) /\ out["mix1"] = Mixed1[i]
    BY <1>15 DEF PipesInv
  <2>2. Radio!FilterInput["filtIf1"] = "mix1"
    BY DEF Radio!FilterInput
  <2>3. /\ DOMAIN out' = Radio!Modules /\ DOMAIN step' = DOMAIN step
        /\ DOMAIN taps' = DOMAIN taps
        /\ step'["filtIf1"] \in 0..(Radio!Length("filtIf1") - 1)
        /\ taps'["filtIf1"] = [n \in Radio!Taps("filtIf1") |-> taps'["filtIf1"][n]]
        /\ RingOf("filtIf1", Mixed1, i + 1, step'["filtIf1"], taps'["filtIf1"])
        /\ out'["filtIf1"] = Filtered1[i]
        /\ \A k \in Radio!Modules \ {"filtIf1"} : out'[k] = out[k]
        /\ \A k \in DOMAIN step \ {"filtIf1"} : step'[k] = step[k]
        /\ \A k \in Radio!Filters \ {"filtIf1"} : taps'[k] = taps[k]
    <3>1. RingOf("filtIf1", Mixed1, i, step["filtIf1"], taps["filtIf1"])
      BY <1>9, <1>15, <2>1 DEF RingInv
    <3> QED BY <1>5, <1>6, <1>15, <2>1, <2>2, <3>1, FilterStep DEF RingInv
  <2> QED BY <1>8, <1>9, <1>10, <1>15, <2>3 DEF PipesInv, RingInv
<1>16. CASE at = 6 /\ Radio!Mix("mix2")
  <2>1. /\ DOMAIN out' = Radio!Modules /\ step' = step /\ taps' = taps
        /\ out'["mix2"] = out["filtIf1"] * out["lo2"]
        /\ \A k \in Radio!Modules \ {"mix2"} : out'[k] = out[k]
    BY <1>16, MixStep
  <2>2. out'["mix2"] = Mixed2[i]
    BY <1>4, <1>16, <2>1 DEF PipesInv
  <2> QED BY <1>8, <1>10, <1>16, <2>1, <2>2 DEF PipesInv, RingInv
<1>17. CASE at = 7 /\ Radio!Filter("filtIf2")
  <2>1. RingInv("filtIf2", 7, Mixed2) /\ out["mix2"] = Mixed2[i]
    BY <1>17 DEF PipesInv
  <2>2. Radio!FilterInput["filtIf2"] = "mix2"
    BY DEF Radio!FilterInput
  <2>3. /\ DOMAIN out' = Radio!Modules /\ DOMAIN step' = DOMAIN step
        /\ DOMAIN taps' = DOMAIN taps
        /\ step'["filtIf2"] \in 0..(Radio!Length("filtIf2") - 1)
        /\ taps'["filtIf2"] = [n \in Radio!Taps("filtIf2") |-> taps'["filtIf2"][n]]
        /\ RingOf("filtIf2", Mixed2, i + 1, step'["filtIf2"], taps'["filtIf2"])
        /\ out'["filtIf2"] = Filtered2[i]
        /\ \A k \in Radio!Modules \ {"filtIf2"} : out'[k] = out[k]
        /\ \A k \in DOMAIN step \ {"filtIf2"} : step'[k] = step[k]
        /\ \A k \in Radio!Filters \ {"filtIf2"} : taps'[k] = taps[k]
    <3>1. RingOf("filtIf2", Mixed2, i, step["filtIf2"], taps["filtIf2"])
      BY <1>9, <1>17, <2>1 DEF RingInv
    <3> QED BY <1>5, <1>6, <1>17, <2>1, <2>2, <3>1, FilterStep DEF RingInv
  <2> QED BY <1>8, <1>9, <1>10, <1>17, <2>3 DEF PipesInv, RingInv
<1> QED BY <1>11, <1>12, <1>13, <1>14, <1>15, <1>16, <1>17, Stepped

\* The last step of the chain has been made for sample k once k + 1 samples' steps
\* are over.
LEMMA KeptAt ==
    ASSUME i \in Radio!Steps, NEW k \in 0..(AdcSamples - 1)
    PROVE  /\ (k + 1) * Oversampling \in Nat /\ (k + 1) * Oversampling <= Radio!SAMPLES
           /\ (k + 1) * Oversampling - 1 \in Radio!Steps
           /\ (k + 1) * Oversampling = i + 1 <=>
                  (i + 1) % Oversampling = 0 /\ k = i \div Oversampling
<1>1. /\ i \in Nat /\ i < AdcSamples * Oversampling /\ k \in Nat /\ k + 1 \in Nat
      /\ k + 1 <= AdcSamples
  BY SamplesIs
<1>2. Oversampling \in Nat \ {0} /\ AdcSamples \in Nat
  BY SamplesIs
<1>3. (k + 1) * Oversampling <= AdcSamples * Oversampling
  BY <1>1, <1>2
<1>4. (k + 1) * Oversampling \in Nat \ {0}
  BY <1>1, <1>2
<1>5. ASSUME (k + 1) * Oversampling = i + 1
      PROVE  (i + 1) % Oversampling = 0 /\ k = i \div Oversampling
  <2>1. i + 1 = Oversampling * (k + 1) + 0 /\ 0 \in 0..(Oversampling - 1)
    BY <1>1, <1>2, <1>5
  <2>2. (i + 1) \div Oversampling = k + 1
    <3>1. (Oversampling * (k + 1) + 0) \div Oversampling = k + 1
      BY <1>1, <1>2, <2>1, QuotientUnique
    <3> QED BY <2>1, <3>1
  <2>3. i + 1 = Oversampling * (k + 1) + ((i + 1) % Oversampling)
        /\ (i + 1) % Oversampling \in Nat
    <3>1. i + 1 \in Nat
      BY <1>1
    <3>2. i + 1 = Oversampling * ((i + 1) \div Oversampling) + ((i + 1) % Oversampling)
          /\ (i + 1) % Oversampling \in 0..(Oversampling - 1)
      BY <1>2, <3>1, Division
    <3>3. (i + 1) % Oversampling \in Nat
      BY <1>2, <3>2
    <3> QED BY <2>2, <3>2, <3>3
  <2>4. (i + 1) % Oversampling = 0
    <3> DEFINE m == (i + 1) % Oversampling
               p == Oversampling * (k + 1)
    <3>1. i + 1 = p + m /\ i + 1 = p + 0 /\ m \in Nat /\ p \in Nat
      BY <1>1, <1>2, <2>1, <2>3
    <3> HIDE DEF m, p
    <3>2. m = 0
      BY <3>1
    <3> QED BY <3>2 DEF m
  <2>5. i = Oversampling * k + (Oversampling - 1)
        /\ Oversampling - 1 \in 0..(Oversampling - 1)
    BY <1>1, <1>2, <2>1
  <2>6. i \div Oversampling = k
    <3>1. (Oversampling * k + (Oversampling - 1)) \div Oversampling = k
      BY <1>1, <1>2, <2>5, QuotientUnique
    <3> QED BY <2>5, <3>1
  <2> QED BY <2>4, <2>6
<1>6. ASSUME (i + 1) % Oversampling = 0, k = i \div Oversampling
      PROVE  (k + 1) * Oversampling = i + 1
  <2> DEFINE q == (i + 1) \div Oversampling
  <2>1. i + 1 \in Nat
    BY <1>1
  <2>2. q \in Nat /\ i + 1 = Oversampling * q + 0
    BY <1>2, <1>6, <2>1, Division
  <2> HIDE DEF q
  <2>3. q # 0
    BY <1>1, <1>2, <2>2
  <2>4. q - 1 \in Nat /\ i = Oversampling * (q - 1) + (Oversampling - 1)
        /\ Oversampling - 1 \in 0..(Oversampling - 1)
    BY <1>1, <1>2, <2>2, <2>3
  <2>5. i \div Oversampling = q - 1
    <3>1. (Oversampling * (q - 1) + (Oversampling - 1)) \div Oversampling = q - 1
      BY <1>2, <2>4, QuotientUnique
    <3> QED BY <2>4, <3>1
  <2>6. k + 1 = q
    BY <1>6, <2>2, <2>5
  <2> QED BY <1>2, <2>2, <2>6
<1>7. /\ (k + 1) * Oversampling <= Radio!SAMPLES
      /\ (k + 1) * Oversampling - 1 \in Radio!Steps
  BY <1>1, <1>2, <1>3, <1>4, SamplesIs
<1> QED BY <1>4, <1>5, <1>6, <1>7

\* Sampling keeps the sample whose last step has just been made, if any.
LEMMA SampleStep == ChainInv /\ Radio!Sample => ChainInv'
<1> SUFFICES ASSUME ChainInv, Radio!Sample PROVE ChainInv'
  OBVIOUS
<1> DEFINE kept == IF (i + 1) % Oversampling # 0 THEN output
                   ELSE [output EXCEPT ![i \div Oversampling] = 4 * out["filtIf2"]]
<1>1. PipesInv /\ KeptInv /\ at = 8 /\ i \in Radio!Steps /\ i \in Nat
  BY SamplesIs DEF ChainInv, Radio!Sample, PipesInv
<1>2. output = [k \in 0..(AdcSamples - 1) |-> output[k]]
  BY DEF ChainInv
<1>3. out["filtIf2"] = Filtered2[i]
  BY <1>1 DEF PipesInv
<1>4. /\ Mixed1' = Mixed1 /\ Filtered2' = Filtered2 /\ Mixed2' = Mixed2
      /\ Filtered1' = Filtered1 /\ Radio!Sampled' = Radio!Sampled
      /\ signal \in Signals /\ signal' = signal
  BY SameSignals DEF ChainInv, Radio!Sample
<1>5. /\ kept = [k \in 0..(AdcSamples - 1) |-> kept[k]]
      /\ \A k \in 0..(AdcSamples - 1) :
             (k + 1) * Oversampling <= i + 1 =>
                 kept[k] = 4 * Filtered2[(k + 1) * Oversampling - 1]
  <2>1. kept = [k \in 0..(AdcSamples - 1) |-> kept[k]]
    BY <1>2
  <2>2. ASSUME NEW k \in 0..(AdcSamples - 1), (k + 1) * Oversampling <= i + 1
        PROVE  kept[k] = 4 * Filtered2[(k + 1) * Oversampling - 1]
    <3> DEFINE e == (k + 1) * Oversampling
               z == (i + 1) % Oversampling
               q == i \div Oversampling
    <3>1. e \in Nat /\ (e = i + 1 <=> z = 0 /\ k = q)
      BY <1>1, KeptAt
    <3>2. kept = IF z # 0 THEN output ELSE [output EXCEPT ![q] = 4 * Filtered2[i]]
      BY <1>3
    <3>3. e <= i => output[k] = 4 * Filtered2[e - 1]
      BY <1>1 DEF KeptInv
    <3>4. e <= i + 1
      BY <2>2
    <3> HIDE DEF e, z, q, kept
    <3>5. kept[k] = 4 * Filtered2[e - 1]
      <4>1. CASE e = i + 1
        <5>1. z = 0 /\ k = q /\ e - 1 = i
          BY <1>1, <3>1, <4>1
        <5>2. kept[k] = 4 * Filtered2[i]
          BY <1>2, <3>2, <5>1
        <5> QED BY <5>1, <5>2
      <4>2. CASE e <= i
        <5>1. e # i + 1
          BY <1>1, <3>1, <4>2
        <5>2. kept[k] = output[k]
          BY <1>2, <3>1, <3>2, <5>1
        <5> QED BY <3>3, <4>2, <5>2
      <4> QED BY <1>1, <3>1, <3>4, <4>1, <4>2
    <3> QED BY <3>5 DEF e
  <2> HIDE DEF kept
  <2> QED BY <2>1, <2>2
<1>6. \/ /\ i + 1 < Radio!SAMPLES /\ i' = i + 1 /\ at' = 1
         /\ output' = kept /\ loop' = loop
      \/ /\ ~(i + 1 < Radio!SAMPLES) /\ loop' = "filter" /\ i' = AdcSamples - 1
         /\ output' = [k \in DOMAIN kept |-> Radio!Turned(k, kept[k])]
  <2>1. Radio!Chain[7] = "filtIf2"
    BY ChainIs
  <2> QED BY <2>1 DEF Radio!Sample
<1>7. out' = out /\ step' = step /\ taps' = taps /\ loop = "chain"
  BY DEF Radio!Sample
<1> HIDE DEF kept
<1>8. CASE i + 1 < Radio!SAMPLES /\ i' = i + 1 /\ at' = 1 /\ output' = kept /\ loop' = loop
  <2>1. i' \in Radio!Steps /\ at' \in 1..8
    BY <1>1, <1>8, SamplesIs
  <2>2. \A k \in 1..7 : Made(k)' = Made(k)
    BY <1>1, <1>8 DEF Made
  <2>3. RingInv("filtIf1", 5, Mixed1)'
    BY <1>1, <1>4, <1>7, <2>2 DEF PipesInv, RingInv
  <2>4. RingInv("filtIf2", 7, Mixed2)'
    BY <1>1, <1>4, <1>7, <2>2 DEF PipesInv, RingInv
  <2>5. PipesInv'
    BY <1>1, <1>7, <1>8, <2>1, <2>2, <2>3, <2>4 DEF PipesInv
  <2>6. KeptInv'
    BY <1>4, <1>5, <1>8 DEF KeptInv
  <2>7. loop' = "chain" /\ output' = [k \in 0..(AdcSamples - 1) |-> output'[k]]
    BY <1>5, <1>7, <1>8
  <2> QED BY <1>4, <2>5, <2>6, <2>7 DEF ChainInv, OutputIsConvolution, Radio!OutputIsConvolution
<1>9. CASE /\ ~(i + 1 < Radio!SAMPLES) /\ loop' = "filter" /\ i' = AdcSamples - 1
           /\ output' = [k \in DOMAIN kept |-> Radio!Turned(k, kept[k])]
  <2>1. output' = [k \in 0..(AdcSamples - 1) |-> Radio!Turned(k, kept[k])]
    <3>1. DOMAIN kept = 0..(AdcSamples - 1)
      BY <1>5
    <3> QED BY <1>9, <3>1
  <2>2. output' = Radio!Sampled
    <3>1. ASSUME NEW k \in 0..(AdcSamples - 1)
          PROVE  kept[k] = 4 * Filtered2[(k + 1) * Oversampling - 1]
      <4>1. (k + 1) * Oversampling <= Radio!SAMPLES /\ (k + 1) * Oversampling \in Nat
        BY <1>1, KeptAt
      <4>2. (k + 1) * Oversampling <= i + 1
        <5> DEFINE e == (k + 1) * Oversampling
        <5> HIDE DEF e
        <5>1. e <= i + 1
          BY <1>1, <1>9, <4>1, SamplesIs DEF e
        <5> QED BY <5>1 DEF e
      <4> QED BY <1>5, <4>2
    <3>2. Radio!Received = Filtered2
      BY DEF Radio!Received, Filtered2, Mixed2, Filtered1, Mixed1
    <3>3. Radio!Sampled = [k \in 0..(AdcSamples - 1) |->
                             Radio!Turned(k, 4 * Filtered2[(k + 1) * Oversampling - 1])]
      BY <3>2 DEF Radio!Sampled
    <3> QED BY <2>1, <3>1, <3>3
  <2>3. LoopInv'
    <3>1. i' \in (Filtered - 1)..(AdcSamples - 1)
      BY <1>9, ChainBounds
    <3>2. \A k \in 0..(AdcSamples - 1) : ~(k > i')
      BY <1>9, SamplesIs
    <3> QED BY <1>4, <2>2, <3>1, <3>2 DEF LoopInv
  <2>4. output' = [k \in 0..(AdcSamples - 1) |-> output'[k]]
    BY <2>1
  <2> QED BY <1>4, <1>9, <2>3, <2>4 DEF ChainInv, OutputIsConvolution, Radio!OutputIsConvolution
<1> QED BY <1>6, <1>8, <1>9

\* The filter loop writes what it will not read again.
LEMMA DecimateStep == ChainInv /\ Radio!Decimate => ChainInv'
<1> SUFFICES ASSUME ChainInv, Radio!Decimate PROVE ChainInv'
  OBVIOUS
<1> DEFINE L == Radio!Length("decimation")
           T == Radio!Taps("decimation")
           W == Weights["decimation"]
           S == Radio!Sampled
<1>1. /\ LoopInv /\ i >= Filtered /\ i' = i - 1 /\ loop = "filter" /\ loop' = "filter"
      /\ output = [k \in 0..(AdcSamples - 1) |-> output[k]]
      /\ signal \in Signals /\ signal' = signal
  BY DEF ChainInv, Radio!Decimate
<1>2. /\ Radio!Sampled' = Radio!Sampled
      /\ \A k : Radio!Decimated(k)' = Radio!Decimated(k)
  BY <1>1, SameSignals
<1>3. /\ Filtered \in Nat /\ AdcSamples \in Nat \ {0} /\ Filtered >= 2 * (L - 1)
      /\ L \in Nat \ {0} /\ T = 0..(L - 1) /\ \A j \in T : W[j] \in Int
  BY ChainBounds, SamplesIs, WeightsAre
<1>4. i \in (Filtered - 1)..(AdcSamples - 1) /\ i \in Nat
  BY <1>1, <1>3 DEF LoopInv
<1>5. \A k \in 0..(AdcSamples - 1) : S[k] \in Int
  BY <1>1, SampledInt
<1>6. output'[i] = Radio!Decimated(i)
  <2>1. ASSUME NEW j \in T PROVE output[i - 2 * j] * W[j] = W[j] * S[i - 2 * j]
    <3>1. i - 2 * j \in 0..(AdcSamples - 1) /\ ~(i - 2 * j > i)
      BY <1>1, <1>3, <1>4, SMTT(60)
    <3>2. output[i - 2 * j] = S[i - 2 * j]
      BY <1>1, <3>1 DEF LoopInv
    <3> HIDE DEF S, W
    <3> QED BY <1>3, <1>5, <3>1, <3>2
  <2>2. [j \in T |-> output[i - 2 * j] * W[j]] = [j \in T |-> W[j] * S[i - 2 * j]]
    <3> HIDE DEF S, W, T
    <3> QED BY <2>1
  <2>3. output' = [output EXCEPT ![i] =
                     Radio!SumFunction([j \in T |-> output[i - 2 * j] * W[j]])]
    BY DEF Radio!Decimate
  <2>4. Radio!Decimated(i) = Radio!SumFunction([j \in T |-> W[j] * S[i - 2 * j]])
    BY DEF Radio!Decimated
  <2>5. output' = [output EXCEPT ![i] = Radio!Decimated(i)]
    BY <2>2, <2>3, <2>4
  <2>6. i \in DOMAIN output
    BY <1>1, <1>4
  <2> QED BY <2>5, <2>6
<1>7. /\ output' = [k \in 0..(AdcSamples - 1) |-> output'[k]]
      /\ \A k \in 0..(AdcSamples - 1) : k # i => output'[k] = output[k]
  BY <1>1 DEF Radio!Decimate
<1> HIDE DEF L, T, W, S
<1>8. LoopInv'
  <2>1. i' \in (Filtered - 1)..(AdcSamples - 1)
    BY <1>1, <1>3, <1>4
  <2>2. ASSUME NEW k \in 0..(AdcSamples - 1)
        PROVE  output'[k] = IF k > i' THEN Radio!Decimated(k) ELSE Radio!Sampled[k]
    <3>1. CASE k = i
      <4>1. k > i'
        BY <1>1, <1>4, <3>1
      <4> QED BY <1>6, <3>1, <4>1
    <3>2. CASE k # i
      <4>1. k > i' <=> k > i
        BY <1>1, <1>4, <3>2
      <4> QED BY <1>1, <1>7, <3>2, <4>1 DEF LoopInv
    <3> QED BY <3>1, <3>2
  <2> QED BY <1>2, <2>1, <2>2 DEF LoopInv
<1> QED BY <1>1, <1>7, <1>8 DEF ChainInv, OutputIsConvolution, Radio!OutputIsConvolution

\* What is split has been filtered.
LEMMA SplitStep == ChainInv /\ Radio!Split => ChainInv'
<1> SUFFICES ASSUME ChainInv, Radio!Split PROVE ChainInv'
  OBVIOUS
<1>1. /\ LoopInv /\ i < Filtered /\ loop' = "done" /\ output' = output
      /\ output = [k \in 0..(AdcSamples - 1) |-> output[k]]
      /\ signal \in Signals /\ signal' = signal
      /\ in' = [k \in 0..(FftSize - 1) |-> Radio!Pair(output, k)]
  BY DEF ChainInv, Radio!Split
<1>2. \A k : Radio!Decimated(k)' = Radio!Decimated(k)
  BY <1>1, SameSignals
<1>3. ASSUME NEW k \in 0..(FftSize - 1)
      PROVE  in'[k] = <<Radio!Decimated(Settled + Stride * k),
                        Radio!Decimated(Settled + Stride * k + 1)>>
  <2> DEFINE p == Settled + Stride * k
  <2>1. p \in Nat /\ p >= Settled /\ p + 1 < AdcSamples
    <3>1. /\ FftSize \in Nat \ {0} /\ Stride \in Nat \ {0} /\ Settled \in Nat
          /\ Settled + Stride * (FftSize - 1) + 1 < AdcSamples
      BY ChainBounds
    <3>2. Stride * k \in Nat /\ Stride * k <= Stride * (FftSize - 1)
      BY <3>1
    <3> QED BY <3>1, <3>2, SamplesIs
  <2>2. in'[k] = <<output[p], output[p + 1]>>
    BY <1>1 DEF Radio!Pair
  <2> HIDE DEF p
  <2>3. /\ p \in 0..(AdcSamples - 1) /\ p + 1 \in 0..(AdcSamples - 1)
        /\ p > i /\ p + 1 > i
    <3>1. i \in Int
      BY <1>1, ChainBounds, SamplesIs DEF LoopInv
    <3>2. /\ i < Filtered /\ Settled >= Filtered
          /\ Filtered \in Nat /\ Settled \in Nat /\ AdcSamples \in Nat
      BY <1>1, ChainBounds, SamplesIs
    <3> QED BY <2>1, <3>1, <3>2
  <2>4. output[p] = Radio!Decimated(p) /\ output[p + 1] = Radio!Decimated(p + 1)
    BY <1>1, <2>3 DEF LoopInv
  <2>5. in'[k] = <<Radio!Decimated(p), Radio!Decimated(p + 1)>>
    BY <2>2, <2>4
  <2> QED BY <2>5 DEF p
<1>4. OutputIsConvolution'
  BY <1>2, <1>3 DEF OutputIsConvolution, Radio!OutputIsConvolution
<1> QED BY <1>1, <1>4 DEF ChainInv

-----------------------------------------------------------------------------
(* Theorem about the signal chain *)

\* Nothing of the chain moves in a step that is not the simulation's.
LEMMA ChainSame == ChainInv /\ UNCHANGED chain => ChainInv'
<1> SUFFICES ASSUME ChainInv, UNCHANGED chain PROVE ChainInv'
  OBVIOUS
<1>1. /\ Mixed1' = Mixed1 /\ Filtered1' = Filtered1
      /\ Mixed2' = Mixed2 /\ Filtered2' = Filtered2
      /\ Radio!Sampled' = Radio!Sampled
      /\ \A k : Radio!Decimated(k)' = Radio!Decimated(k)
  BY SameSignals DEF chain
<1>2. /\ signal' = signal /\ loop' = loop /\ i' = i /\ at' = at /\ out' = out
      /\ step' = step /\ taps' = taps /\ output' = output /\ in' = in
  BY DEF chain
<1>3. PipesInv => PipesInv'
  BY <1>1, <1>2 DEF PipesInv, RingInv, Made
<1>4. KeptInv => KeptInv'
  BY <1>1, <1>2 DEF KeptInv
<1>5. LoopInv => LoopInv'
  BY <1>1, <1>2 DEF LoopInv
<1>6. OutputIsConvolution => OutputIsConvolution'
  BY <1>1, <1>2 DEF OutputIsConvolution, Radio!OutputIsConvolution
<1> QED BY <1>2, <1>3, <1>4, <1>5, <1>6 DEF ChainInv

\* All pipes, rings and counts of the chain are at their beginning.
LEMMA ChainStart == Radio!Init => ChainInv
<1> SUFFICES ASSUME Radio!Init PROVE ChainInv
  OBVIOUS
<1>1. /\ signal \in Signals /\ loop = "chain" /\ i = 0 /\ at = 1
      /\ out = [m \in Radio!Modules |-> 0]
      /\ step = [m \in Radio!Sources \cup Radio!Filters |-> 0]
      /\ taps = [f \in Radio!Filters |-> [n \in Radio!Taps(f) |-> 0]]
      /\ output = [k \in 0..(AdcSamples - 1) |-> 0]
  BY DEF Radio!Init
<1>2. i \in Radio!Steps /\ at \in 1..8
  BY <1>1, SamplesIs
<1>3. ASSUME NEW f \in Radio!Filters, NEW k \in 1..7, NEW x PROVE RingInv(f, k, x)
  <2>1. /\ Radio!Length(f) \in Nat \ {0} /\ Radio!Taps(f) = 0..(Radio!Length(f) - 1)
        /\ step[f] = 0 /\ taps[f] = [n \in Radio!Taps(f) |-> 0] /\ Made(k) = 0
    BY <1>1, WeightsAre DEF Made
  <2>2. RingOf(f, x, 0, step[f], taps[f])
    <3>1. ASSUME NEW n \in Radio!Taps(f)
          PROVE  (n + 0) % Radio!Length(f) \in Radio!Taps(f) /\ ~(n < 0)
      BY <2>1
    <3> QED BY <2>1, <3>1 DEF RingOf
  <2> QED BY <2>1, <2>2 DEF RingInv
<1>4. step["rf"] = 0 /\ step["lo1"] = 0 /\ step["lo2"] = 0
  BY <1>1 DEF Radio!Sources
<1>5. PipesInv
  BY <1>1, <1>2, <1>3, <1>4 DEF PipesInv, Made, Radio!Filters
<1>6. KeptInv
  <2>1. ASSUME NEW k \in 0..(AdcSamples - 1) PROVE ~((k + 1) * Oversampling <= i)
    <3>1. (k + 1) * Oversampling \in Nat \ {0}
      BY SamplesIs
    <3> QED BY <1>1, <3>1
  <2> QED BY <2>1 DEF KeptInv
<1> QED BY <1>1, <1>5, <1>6 DEF ChainInv, OutputIsConvolution, Radio!OutputIsConvolution

\* analysis/frequency/main.cpp: whatever the weights, oscillators and signal,
\* the transform is given the chain's products and convolutions of this very
\* signal.
THEOREM ChainCorrect == BothSpec => []OutputIsConvolution
<1>1. BothInit => ChainInv
  BY ChainStart DEF BothInit
<1>2. ChainInv /\ [CodeNext \/ ChainNext]_<<part, vars, chain>> => ChainInv'
  <2> SUFFICES ASSUME ChainInv, [CodeNext \/ ChainNext]_<<part, vars, chain>>
               PROVE  ChainInv'
    OBVIOUS
  <2>1. CASE Radio!DoStep
    <3>1. /\ loop = "chain" /\ loop' = "chain" /\ signal' = signal /\ output' = output
          /\ i' = i /\ signal \in Signals /\ PipesInv /\ KeptInv
          /\ output = [k \in 0..(AdcSamples - 1) |-> output[k]]
      BY <2>1 DEF Radio!DoStep, ChainInv
    <3>2. PipesInv'
      BY <2>1, <3>1, PipesStep
    <3>3. KeptInv'
      <4>1. Filtered2' = Filtered2
        BY <3>1, SameSignals
      <4> QED BY <3>1, <4>1 DEF KeptInv
    <3> QED BY <3>1, <3>2, <3>3 DEF ChainInv, OutputIsConvolution, Radio!OutputIsConvolution
  <2>2. CASE Radio!Sample
    BY <2>2, SampleStep
  <2>3. CASE Radio!Decimate
    BY <2>3, DecimateStep
  <2>4. CASE Radio!Split
    BY <2>4, SplitStep
  <2>5. CASE UNCHANGED chain
    BY <2>5, ChainSame
  <2>6. Radio!Finished => UNCHANGED chain
    BY DEF Radio!Finished, chain
  <2> QED BY <2>1, <2>2, <2>3, <2>4, <2>5, <2>6 DEF CodeNext, ChainNext, Radio!Next
<1>3. ChainInv => OutputIsConvolution
  BY DEF ChainInv
<1> QED BY <1>1, <1>2, <1>3, PTL DEF BothSpec
=============================================================================
