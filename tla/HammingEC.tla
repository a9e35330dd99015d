----------------------------- MODULE HammingEC -----------------------------
(***************************************************************************)
(* The erasure code of analysis/hamming_ec/HammingEC.cpp: BLOCK_COUNT      *)
(* blocks, the ones at powers of two being parity, any two of which may be *)
(* rebuilt by XOR.                                                         *)
(*                                                                         *)
(* The content of a block is the set of data blocks whose XOR it is, so    *)
(* XOR keeps what occurs an odd number of times and equality of contents   *)
(* means equality for all data.  Junk is what a lost block's memory holds: *)
(* it is in no data, and disappears only when the block is cleared.        *)
(***************************************************************************)
EXTENDS Integers, Sequences, FiniteSets, FiniteSetsExt

CONSTANTS BLOCK_COUNT, PARITY_BITS, MAX_MISSING, MAX_LOST

\* 1u << p
Mask[p \in 0..PARITY_BITS] == IF p = 0 THEN 1 ELSE 2 * Mask[p - 1]

ASSUME CodeAssumption ==
    /\ PARITY_BITS \in Nat \ {0} /\ BLOCK_COUNT \in Nat
    /\ Mask[PARITY_BITS - 1] <= BLOCK_COUNT /\ BLOCK_COUNT < Mask[PARITY_BITS]
    /\ MAX_MISSING = 2 /\ MAX_LOST \in Nat

Ids == 1..BLOCK_COUNT
Junk == 0

VARIABLES
    stage,      \* "data", "coded", "lost", "repaired" or "refused"
    blocks,     \* content of every block
    present,    \* blocks marked present
    pos,        \* repair: the block its scan looks at next
    moff,       \* repair: the missing blocks found so far
    before      \* history: blocks and present when repair was called, or done

vars == <<stage, blocks, present, pos, moff, before>>

Bit(n, p) == (n \div Mask[p]) % 2 = 1
Bits == 0..(PARITY_BITS - 1)
BitsOf(n) == { p \in Bits : Bit(n, p) }
ParityBlocks == { Mask[p] : p \in Bits }
DataBlocks == Ids \ ParityBlocks

-----------------------------------------------------------------------------
(* initLuts: the mask that repairs a single block, and for two blocks the  *)
(* order of repair.  A mask is named by its bit.                           *)

\* the last p whose range of block numbers mask .. 2*mask-1 holds b
SingleBit(b) == CHOOSE p \in Bits : Mask[p] <= b /\ b < Mask[p + 1]

\* getMask: the lowest bit of a non-empty set
LowestBit(s) == Min(s)

\* Mutant of DoubleOrder: each block by its own mask, as if it were lost alone.
DoubleOrderAlone(a, b) ==
    << [id |-> a, bit |-> SingleBit(a)], [id |-> b, bit |-> SingleBit(b)] >>

\* cell for blocks a and b, a > b: which to repair first and by which bit
DoubleOrder(a, b) ==
    LET da == BitsOf(a) \ BitsOf(b)
        db == BitsOf(b) \ BitsOf(a)
    IN  IF da # {}
        THEN << [id |-> a, bit |-> LowestBit(da)], [id |-> b, bit |-> SingleBit(b)] >>
        ELSE << [id |-> b, bit |-> LowestBit(db)], [id |-> a, bit |-> SingleBit(a)] >>

-----------------------------------------------------------------------------
\* repairBlock: clear, then XOR every present block of the mask, from the mask on
Sources(bit, there) == { b \in there : b >= Mask[bit] /\ Bit(b, bit) }
XorAll(bs, ids) ==
    { x \in DataBlocks \cup {Junk} : Cardinality({ b \in ids : x \in bs[b] }) % 2 = 1 }
RepairBlock(s, id, bit) ==
    [ blocks  |-> [s.blocks EXCEPT ![id] = XorAll(s.blocks, Sources(bit, s.present))],
      present |-> s.present \cup {id} ]

Here == [blocks |-> blocks, present |-> present]
Become(s) == blocks' = s.blocks /\ present' = s.present

Init ==
    /\ stage = "data"
    /\ blocks = [b \in Ids |-> IF b \in DataBlocks THEN {b} ELSE {Junk}]
    /\ present = Ids
    /\ pos = 1 /\ moff = <<>>
    /\ before = Here

\* parity: every parity block in turn is marked missing and repaired by its bit
ParityFrom[p \in 0..PARITY_BITS] ==
    IF p = 0 THEN Here
    ELSE LET s == ParityFrom[p - 1]
         IN  RepairBlock([s EXCEPT !.present = @ \ {Mask[p - 1]}], Mask[p - 1], p - 1)

Parity ==
    /\ stage = "data"
    /\ Become(ParityFrom[PARITY_BITS])
    /\ stage' = "coded"
    /\ UNCHANGED <<pos, moff, before>>

\* Some blocks are lost (external); their memory is overwritten.
Lose(lost) ==
    /\ present' = Ids \ lost
    /\ blocks' = [b \in Ids |-> IF b \in lost THEN {Junk} ELSE blocks[b]]
    /\ before' = [blocks |-> blocks', present |-> present']
    /\ stage' = "lost"
    /\ pos' = 1 /\ moff' = <<>>

-----------------------------------------------------------------------------
(* repair: the scan for missing blocks, which passes over those present,   *)
(* and refuses when it meets one more than it can note                     *)

Missing == Ids \ present
Ahead == { b \in Missing : b >= pos }

\* Mutant of Full: the new block is counted before the test.
FullEarly == Len(moff) + 1 >= MAX_MISSING
Full == Len(moff) >= MAX_MISSING

NoteMissing ==
    /\ stage = "lost"
    /\ Ahead # {} /\ ~Full
    /\ moff' = Append(moff, Min(Ahead))
    /\ pos' = Min(Ahead) + 1
    /\ UNCHANGED <<stage, blocks, present, before>>

RepairRefused ==
    /\ stage = "lost"
    /\ Ahead # {} /\ Full
    /\ stage' = "refused"
    /\ UNCHANGED <<blocks, present, pos, moff, before>>

RepairNone ==
    /\ Len(moff) = 0
    /\ UNCHANGED <<blocks, present>>

RepairOne ==
    /\ Len(moff) = 1
    /\ Become(RepairBlock(Here, moff[1], SingleBit(moff[1])))

\* The table has a cell only for a greater and a smaller block, in this order; the
\* scan notes them the other way round.
RepairTwo ==
    /\ Len(moff) = 2
    /\ LET o == DoubleOrder(moff[2], moff[1])
           s == RepairBlock(Here, o[1].id, o[1].bit)
       IN  Become(RepairBlock(s, o[2].id, o[2].bit))

Repair ==
    /\ stage = "lost"
    /\ Ahead = {}
    /\ RepairNone \/ RepairOne \/ RepairTwo
    /\ stage' = "repaired"
    /\ pos' = 1 /\ moff' = <<>>
    /\ before' = [blocks |-> blocks', present |-> present']

\* A refused set of blocks is received again.
Receive ==
    /\ stage = "refused"
    /\ stage' = "data"
    /\ blocks' = [b \in Ids |-> IF b \in DataBlocks THEN {b} ELSE {Junk}]
    /\ present' = Ids
    /\ pos' = 1 /\ moff' = <<>>
    /\ before' = [blocks |-> blocks', present |-> present']

LoseSome ==
    /\ stage \in {"coded", "repaired"}
    /\ \/ Lose({})
       \/ \E f \in [1..MAX_LOST -> Ids] : Lose({ f[i] : i \in 1..MAX_LOST })

Next == Parity \/ LoseSome \/ NoteMissing \/ RepairRefused \/ Repair \/ Receive

Spec == Init /\ [][Next]_vars

-----------------------------------------------------------------------------
(* Properties *)

\* The code word: a parity block is the XOR of the data blocks with its bit.
CodeWord ==
    [b \in Ids |-> IF b \in DataBlocks THEN {b}
                   ELSE { d \in DataBlocks : SingleBit(b) \in BitsOf(d) }]

\* Contents are sets of data blocks, or junk.
TypeOK ==
    /\ stage \in {"data", "coded", "lost", "repaired", "refused"}
    /\ \A b \in Ids : blocks[b] \subseteq DataBlocks \cup {Junk}
    /\ present \subseteq Ids
    /\ pos \in 1..(BLOCK_COUNT + 1) /\ moff \in Seq(Ids) /\ Len(moff) <= MAX_MISSING

\* After parity, and after a successful repair of any one or two blocks in
\* whatever positions, every block, parity included, is what it was.
RepairRestores ==
    stage \in {"coded", "repaired"} => blocks = CodeWord /\ present = Ids

\* What repair answers: it takes a decision in the middle of its scan, on a count of
\* what it has passed, and must take it exactly when more blocks were missing at the
\* call than it can rebuild; then it has written nothing and marked nothing.
Answers ==
    stage = "lost" /\ stage' # "lost" =>
        /\ (stage' = "refused") <=> (Cardinality(Ids \ before.present) > MAX_MISSING)
        /\ stage' = "refused" => blocks' = before.blocks /\ present' = before.present

RefusesExactly == [][Answers]_vars
=============================================================================
