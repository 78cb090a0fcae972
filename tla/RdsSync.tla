------------------------------- MODULE RdsSync -------------------------------
(***************************************************************************)
(* rdsBlockSynchronizer (fm-system/rds/rds-blocksynchronizer.cpp) with     *)
(* rdsDecoder::processBit, which calls it for every bit: find a block A,   *)
(* take the next blocks at the distance they should have, give up at the   *)
(* first block that fails.                                                 *)
(*                                                                         *)
(* A bit is what place of a group it has on the air; of the 26 bits the    *)
(* code keeps, what matters is how many of the last ones are undamaged     *)
(* and in order.  If a whole block is, its syndrome is zero, and any other *)
(* 26 bits may have syndrome zero by accident: an imitation, with a        *)
(* payload that can be anything.                                           *)
(***************************************************************************)
EXTENDS Integers

CONSTANTS
  Group,          \* what a group can say
  TypeB,          \* the groups of type B among them
  NoGroup,        \* what a cleared block says
  BitsPerBlock,   \* NUM_BITS_PER_BLOCK
  PayloadBits,    \* NUM_BITS_BLOCK_PAYLOAD
  BerReset,       \* NUM_BITS_BER_CALC_RESET
  MaxDamage,      \* bound: bits that are damaged, missed or doubled
  MaxImitations   \* bound: windows with syndrome zero by accident

ASSUME RdsAssumption ==
  /\ BitsPerBlock \in Nat /\ BitsPerBlock >= 2
  /\ PayloadBits \in 1 .. BitsPerBlock - 1
  /\ BerReset \in Nat \ {0}
  /\ MaxDamage \in Nat /\ MaxImitations \in Nat
  /\ TypeB \subseteq Group /\ NoGroup \notin Group

VARIABLES
  air,                 \* the last bit received: its place, its group, and how
                       \* many bits up to it came undamaged and in order
  damage, imitations,  \* how many there were of each
  rdsIsSynchronized,
  rdsCurrentBlock,
  rdsBitsinBlock,
  rdsGrp,              \* for each block, the group it was received from
  rdsBitsProcessed,
  rdsNumofBitErrors

syncVars == <<air, damage, imitations, rdsIsSynchronized, rdsCurrentBlock,
              rdsBitsinBlock, rdsGrp, rdsBitsProcessed, rdsNumofBitErrors>>

Block == 0 .. 3
BLOCK_A == 0
BLOCK_B == 1
BLOCK_C == 2
BLOCK_D == 3
SYNC_END_BLOCK == BLOCK_C

LastBit == BitsPerBlock - 1

Air == [block : Block, bit : 0 .. LastBit, group : Group, inOrder : 0 .. BitsPerBlock]

Cleared == [b \in Block |-> NoGroup]

\* The receiver starts anywhere in a group.
Init ==
  /\ air \in [block : Block, bit : 0 .. LastBit, group : Group, inOrder : {0}]
  /\ damage = 0
  /\ imitations = 0
  /\ rdsIsSynchronized = FALSE
  /\ rdsCurrentBlock = BLOCK_A
  /\ rdsBitsinBlock = 0
  /\ rdsGrp = Cleared
  /\ rdsBitsProcessed = 0
  /\ rdsNumofBitErrors = 0

-----------------------------------------------------------------------------
(* The bits on the air.                                                    *)

NextBlock(b) == IF b = BLOCK_D THEN BLOCK_A ELSE b + 1

\* What may be on the air one bit after a; after a group comes any group.
OneOn(a) ==
  LET more == IF a.inOrder = BitsPerBlock THEN BitsPerBlock ELSE a.inOrder + 1 IN
  [block   : {IF a.bit = LastBit THEN NextBlock(a.block) ELSE a.block},
   bit     : {IF a.bit = LastBit THEN 0 ELSE a.bit + 1},
   group   : IF a.bit = LastBit /\ a.block = BLOCK_D THEN Group ELSE {a.group},
   inOrder : {more}]

\* doDecode takes a bit at each top of the clock it recovers: in noise it may
\* take a wrong bit, one bit twice, or miss one.
Spoilt ==
  {[a EXCEPT !.inOrder = 0] : a \in OneOn(air)}
    \union {[air EXCEPT !.inOrder = 1]}
    \union {[a EXCEPT !.inOrder = 1] : a \in UNION {OneOn(b) : b \in OneOn(air)}}

Receive(a) ==
  \/ a \in OneOn(air) /\ UNCHANGED damage
  \/ a \in Spoilt /\ damage < MaxDamage /\ damage' = damage + 1

Received == OneOn(air) \union (IF damage < MaxDamage THEN Spoilt ELSE {})

-----------------------------------------------------------------------------
(* The code.                                                               *)

\* getOffset: the offset word of block C tells the type of the group.
SameOffset(g, h) == (g \in TypeB) <=> (h \in TypeB)

\* The bits up to a are block b of a group, as getSyndrome can tell.
IsBlock(a, b) ==
  /\ a.inOrder = BitsPerBlock /\ a.block = b /\ a.bit = LastBit
  /\ b = BLOCK_C => SameOffset(rdsGrp[BLOCK_B], a.group)

\* getSyndrome is zero, the payload is that of group g.
SyndromeZero(a, b, g) ==
  \/ /\ IsBlock(a, b)
     /\ g = a.group
     /\ UNCHANGED imitations
  \/ /\ ~IsBlock(a, b)
     /\ g \in Group
     /\ imitations < MaxImitations
     /\ imitations' = imitations + 1

SyndromeNonzero(a, b) == ~IsBlock(a, b) /\ UNCHANGED imitations

\* Mutant: resync leaves the current block what it is.
resyncInPlace ==
  /\ rdsIsSynchronized' = FALSE
  /\ rdsBitsinBlock' = 0
  /\ UNCHANGED <<rdsCurrentBlock, rdsGrp>>

\* Mutant: a failing block is passed over, the group goes on.
resyncGoOn ==
  /\ rdsCurrentBlock' = NextBlock(rdsCurrentBlock)
  /\ rdsBitsinBlock' = 0
  /\ UNCHANGED <<rdsIsSynchronized, rdsGrp>>

\* resync: look for a block A, with what is in the group left there.
resync ==
  /\ rdsCurrentBlock' = BLOCK_A
  /\ rdsIsSynchronized' = FALSE
  /\ rdsBitsinBlock' = 0
  /\ UNCHANGED rdsGrp

\* Mutant: the bit that completes a block is counted for the next one too.
TakeBlockEarly(g) ==
  /\ rdsGrp' = IF rdsCurrentBlock = BLOCK_D THEN Cleared
                                            ELSE [rdsGrp EXCEPT ![rdsCurrentBlock] = g]
  /\ rdsCurrentBlock' = NextBlock(rdsCurrentBlock)
  /\ rdsBitsinBlock' = 1

\* setBlock and setNextBlock; a complete group is decoded and cleared.
TakeBlock(g) ==
  /\ rdsGrp' = IF rdsCurrentBlock = BLOCK_D THEN Cleared
                                            ELSE [rdsGrp EXCEPT ![rdsCurrentBlock] = g]
  /\ rdsCurrentBlock' = NextBlock(rdsCurrentBlock)
  /\ rdsBitsinBlock' = 0

\* pushBitinBlockA: shift bit by bit until there is a block A.
pushBitinBlockA(a) ==
  /\ ~rdsIsSynchronized /\ rdsCurrentBlock = BLOCK_A
  /\ air' = a
  /\ \/ /\ SyndromeNonzero(a, BLOCK_A)
        /\ UNCHANGED <<rdsCurrentBlock, rdsBitsinBlock, rdsGrp>>
     \/ \E g \in Group : SyndromeZero(a, BLOCK_A, g) /\ TakeBlock(g)
  /\ UNCHANGED <<rdsIsSynchronized, rdsBitsProcessed, rdsNumofBitErrors>>

\* pushBitNotSynchronized: the block after a block A, without any error.
pushBitNotSynchronized(a) ==
  /\ ~rdsIsSynchronized /\ rdsCurrentBlock # BLOCK_A
  /\ air' = a
  /\ \/ /\ rdsBitsinBlock < LastBit
        /\ rdsBitsinBlock' = rdsBitsinBlock + 1
        /\ UNCHANGED <<imitations, rdsIsSynchronized, rdsCurrentBlock, rdsGrp>>
     \/ /\ rdsBitsinBlock = LastBit
        /\ SyndromeNonzero(a, rdsCurrentBlock)
        /\ resync
     \/ /\ rdsBitsinBlock = LastBit
        /\ \E g \in Group : SyndromeZero(a, rdsCurrentBlock, g) /\ TakeBlock(g)
        /\ rdsIsSynchronized' = (rdsCurrentBlock >= SYNC_END_BLOCK)
  /\ UNCHANGED <<rdsBitsProcessed, rdsNumofBitErrors>>

\* The counts behind the bit error rate, after a block with n bits in error.
CountBits(n) ==
  LET processed == rdsBitsProcessed + PayloadBits IN
  IF processed >= BerReset
  THEN rdsBitsProcessed' = 0 /\ rdsNumofBitErrors' = 0
  ELSE rdsBitsProcessed' = processed /\ rdsNumofBitErrors' = rdsNumofBitErrors + n

\* correctErrors inverts n payload bits, the oldest of the block.  They stay
\* inverted in the bits the search for a block A continues with.
correctErrors(a, n) ==
  \/ n = 0 /\ air' = a
  \/ /\ n > 0
     /\ \E newer \in BitsPerBlock - PayloadBits .. BitsPerBlock - n :
          air' = [a EXCEPT !.inOrder = IF newer < @ THEN newer ELSE @]

\* pushBitSynchronized, with decodeBlock.  A block with errors is dropped, also
\* when they were corrected: decodeBlock looks at the syndrome of before.
pushBitSynchronized(a) ==
  /\ rdsIsSynchronized
  /\ \/ /\ rdsBitsinBlock + 1 < BitsPerBlock
        /\ rdsBitsinBlock' = rdsBitsinBlock + 1
        /\ air' = a
        /\ UNCHANGED <<imitations, rdsIsSynchronized, rdsCurrentBlock, rdsGrp,
                       rdsBitsProcessed, rdsNumofBitErrors>>
     \/ /\ rdsBitsinBlock + 1 = BitsPerBlock
        /\ SyndromeNonzero(a, rdsCurrentBlock)
        /\ \E n \in 0 .. PayloadBits : correctErrors(a, n) /\ CountBits(n)
        /\ resync
     \/ /\ rdsBitsinBlock + 1 = BitsPerBlock
        /\ \E g \in Group : SyndromeZero(a, rdsCurrentBlock, g) /\ TakeBlock(g)
        /\ air' = a
        /\ CountBits(0)
        /\ UNCHANGED rdsIsSynchronized

pushBit(a) ==
  \/ pushBitinBlockA(a)
  \/ pushBitNotSynchronized(a)
  \/ pushBitSynchronized(a)

Next == \E a \in Received : Receive(a) /\ pushBit(a)

\* As long as the receiver runs there are bits, good or bad.
Spec == Init /\ [][Next]_syncVars /\ WF_syncVars(Next)

-----------------------------------------------------------------------------
(* The properties.                                                         *)

\* Every variable has its type, and the bit error rate is at most 1: the two
\* counts of decodeBlock are reset together.
TypeOK ==
  /\ air \in Air
  /\ damage \in 0 .. MaxDamage
  /\ imitations \in 0 .. MaxImitations
  /\ rdsIsSynchronized \in BOOLEAN
  /\ rdsCurrentBlock \in Block
  /\ rdsBitsinBlock \in 0 .. LastBit
  /\ rdsGrp \in [Block -> Group \union {NoGroup}]
  /\ rdsBitsProcessed \in 0 .. BerReset - 1
  /\ rdsNumofBitErrors \in 0 .. rdsBitsProcessed

\* A block A was found, and no block failed since.
Locked == rdsIsSynchronized \/ rdsCurrentBlock # BLOCK_A

\* The last bit is the one that the receiver takes it for.
InPlace ==
  IF rdsBitsinBlock = 0
  THEN air.bit = LastBit /\ rdsCurrentBlock = NextBlock(air.block)
  ELSE air.bit + 1 = rdsBitsinBlock /\ rdsCurrentBlock = air.block

\* In a receiver that no imitation has misled, the count of the bits and the
\* current block are those of the bits on the air, and the blocks taken so far
\* are those of the group on the air, unless a bit was spoilt in this very block:
\* a slip of the clock never outlives the block it occurs in.
LockedOnBlocks ==
  imitations = 0 /\ Locked /\ air.inOrder > rdsBitsinBlock =>
    /\ InPlace
    /\ \A b \in Block : b < rdsCurrentBlock => rdsGrp[b] = air.group

\* processBit gives rdsGrp to the group decoder.
Completes == rdsCurrentBlock = BLOCK_D /\ rdsCurrentBlock' = BLOCK_A /\ rdsIsSynchronized'

\* Without imitations a group that is decoded is one that was sent: its blocks
\* A, B and C, which the code keeps apart through losses of lock, are those of
\* the group of block D.
WholeGroups ==
  [][Completes /\ imitations' = 0 =>
       \A b \in {BLOCK_A, BLOCK_B, BLOCK_C} : rdsGrp[b] = air'.group]_syncVars

\* When reception has become good, the receiver locks and keeps the lock,
\* whatever bits, true or imitated, it had taken before.
Relocks == <>[]rdsIsSynchronized
=============================================================================
