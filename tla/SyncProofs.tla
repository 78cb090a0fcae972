------------------------------ MODULE SyncProofs ------------------------------
(***************************************************************************)
(* Proofs about the two synchronisations: RdsSync and RdsDecoder, for      *)
(* every size of the blocks, every set of groups and any number of damaged *)
(* bits and imitations; and DabSync, for every frame, window, range of the *)
(* search and number of disturbances.                                      *)
(***************************************************************************)
EXTENDS RdsDecoder, DabSync, TLAPS


-----------------------------------------------------------------------------
(* The bits on the air.                                                    *)

\* The bit after a, field by field.
LEMMA OneOnFields ==
  ASSUME NEW a \in Air, NEW b \in OneOn(a)
  PROVE  /\ b \in Air
         /\ b.bit = IF a.bit = LastBit THEN 0 ELSE a.bit + 1
         /\ b.block = IF a.bit = LastBit THEN NextBlock(a.block) ELSE a.block
         /\ a.bit # LastBit => b.group = a.group
         /\ b.inOrder = IF a.inOrder = BitsPerBlock THEN BitsPerBlock ELSE a.inOrder + 1
<1>1. BitsPerBlock \in Nat /\ BitsPerBlock >= 2
  BY RdsAssumption DEF RdsAssumption
<1>2. a.block \in Block /\ a.bit \in 0 .. LastBit /\ a.group \in Group
        /\ a.inOrder \in 0 .. BitsPerBlock
  BY DEF Air
<1>3. NextBlock(a.block) \in Block
  BY <1>2 DEF NextBlock, Block, BLOCK_A, BLOCK_D
<1> QED BY <1>1, <1>2, <1>3 DEF OneOn, Air, LastBit

\* A spoilt bit begins the count of the bits in order anew, and then it is not
\* the one that was due.
LEMMA SpoiltFields ==
  ASSUME air \in Air, NEW a \in Spoilt
  PROVE  /\ a \in Air
         /\ a.inOrder \in {0, 1}
         /\ a.inOrder = 1 /\ air.bit = LastBit => a.bit # 0
<1>1. BitsPerBlock \in Nat /\ BitsPerBlock >= 2
  BY RdsAssumption DEF RdsAssumption
<1>2. CASE \E b \in OneOn(air) : a = [b EXCEPT !.inOrder = 0]
  <2>1. PICK b \in OneOn(air) : a = [b EXCEPT !.inOrder = 0]
    BY <1>2
  <2>2. b \in Air
    BY OneOnFields
  <2> QED BY <1>1, <2>1, <2>2 DEF Air
<1>3. CASE a = [air EXCEPT !.inOrder = 1]
  BY <1>1, <1>3 DEF Air, LastBit
<1>4. CASE \E b \in OneOn(air) : \E c \in OneOn(b) : a = [c EXCEPT !.inOrder = 1]
  <2>1. PICK b \in OneOn(air) : \E c \in OneOn(b) : a = [c EXCEPT !.inOrder = 1]
    BY <1>4
  <2>2. PICK c \in OneOn(b) : a = [c EXCEPT !.inOrder = 1]
    BY <2>1
  <2>3. b \in Air /\ (air.bit = LastBit => b.bit = 0)
    BY OneOnFields
  <2>4. c \in Air /\ c.bit = IF b.bit = LastBit THEN 0 ELSE b.bit + 1
    BY <2>3, OneOnFields
  <2> QED BY <1>1, <2>2, <2>3, <2>4 DEF Air, LastBit
<1> QED BY <1>2, <1>3, <1>4 DEF Spoilt

-----------------------------------------------------------------------------
(* Types.                                                                  *)

LEMMA InitType == Init => TypeOK
<1> SUFFICES ASSUME Init PROVE TypeOK
  OBVIOUS
<1>1. air \in Air
  BY RdsAssumption DEF RdsAssumption, Init, Air
<1>2. rdsIsSynchronized \in BOOLEAN
  BY DEF Init
<1>3. rdsGrp \in [Block -> Group \union {NoGroup}]
  BY DEF Init, Cleared
<1> QED BY <1>1, <1>2, <1>3, RdsAssumption
        DEF RdsAssumption, Init, TypeOK, Block, BLOCK_A, LastBit

\* What TakeBlock leaves has its type.
LEMMA TakeBlockType ==
  ASSUME TypeOK, NEW g \in Group, TakeBlock(g)
  PROVE  /\ rdsGrp' \in [Block -> Group \union {NoGroup}]
         /\ rdsCurrentBlock' \in Block
         /\ rdsBitsinBlock' \in 0 .. LastBit
BY RdsAssumption DEF RdsAssumption, TypeOK, TakeBlock, NextBlock, Block, BLOCK_A, BLOCK_D,
   LastBit, Cleared

\* So has what resync leaves.
LEMMA ResyncType ==
  ASSUME TypeOK, resync
  PROVE  /\ rdsGrp' \in [Block -> Group \union {NoGroup}]
         /\ rdsCurrentBlock' \in Block
         /\ rdsBitsinBlock' \in 0 .. LastBit
         /\ rdsIsSynchronized' \in BOOLEAN
<1>1. rdsIsSynchronized' \in BOOLEAN
  BY DEF resync
<1> QED BY <1>1, RdsAssumption DEF RdsAssumption, TypeOK, resync, Block, BLOCK_A, LastBit

\* The counts of the bit error rate.
LEMMA CountBitsType ==
  ASSUME TypeOK, NEW n \in 0 .. PayloadBits, CountBits(n)
  PROVE  /\ rdsBitsProcessed' \in 0 .. BerReset - 1
         /\ rdsNumofBitErrors' \in 0 .. rdsBitsProcessed'
BY RdsAssumption DEF RdsAssumption, TypeOK, CountBits

\* A syndrome costs an imitation or none.
LEMMA ImitationsType ==
  ASSUME TypeOK, NEW a, NEW b,
         SyndromeNonzero(a, b) \/ \E g \in Group : SyndromeZero(a, b, g)
  PROVE  imitations' \in 0 .. MaxImitations /\ imitations' >= imitations
BY RdsAssumption DEF RdsAssumption, TypeOK, SyndromeNonzero, SyndromeZero

\* A bit has its type, and so has the count of the damage.
LEMMA ReceiveType ==
  ASSUME TypeOK, NEW a \in Received, Receive(a)
  PROVE  a \in Air /\ damage' \in 0 .. MaxDamage
<1>1. air \in Air /\ damage \in 0 .. MaxDamage /\ MaxDamage \in Nat
  BY RdsAssumption DEF RdsAssumption, TypeOK
<1>2. CASE a \in OneOn(air) /\ UNCHANGED damage
  BY <1>1, <1>2, OneOnFields
<1>3. CASE a \in Spoilt /\ damage < MaxDamage /\ damage' = damage + 1
  BY <1>1, <1>3, SpoiltFields
<1> QED BY <1>2, <1>3 DEF Receive

\* Corrections leave a bit of its type.
LEMMA CorrectionType ==
  ASSUME NEW a \in Air, NEW n \in 0 .. PayloadBits, correctErrors(a, n)
  PROVE  air' \in Air
BY RdsAssumption DEF RdsAssumption, correctErrors, Air

\* Every step keeps the types.
LEMMA NextType == TypeOK /\ [Next]_syncVars => TypeOK'
<1> SUFFICES ASSUME TypeOK, [Next]_syncVars PROVE TypeOK'
  OBVIOUS
<1>1. CASE UNCHANGED syncVars
  BY <1>1 DEF TypeOK, syncVars
<1>2. ASSUME NEW a \in Received, Receive(a), pushBitinBlockA(a) PROVE TypeOK'
  <2>1. a \in Air /\ damage' \in 0 .. MaxDamage
    BY <1>2, ReceiveType
  <2>2. imitations' \in 0 .. MaxImitations
    BY <1>2, ImitationsType DEF pushBitinBlockA
  <2>3. /\ rdsGrp' \in [Block -> Group \union {NoGroup}]
        /\ rdsCurrentBlock' \in Block
        /\ rdsBitsinBlock' \in 0 .. LastBit
    BY <1>2, TakeBlockType DEF pushBitinBlockA, TypeOK
  <2> QED BY <1>2, <2>1, <2>2, <2>3 DEF pushBitinBlockA, TypeOK
<1>3. ASSUME NEW a \in Received, Receive(a), pushBitNotSynchronized(a) PROVE TypeOK'
  <2>1. a \in Air /\ damage' \in 0 .. MaxDamage
    BY <1>3, ReceiveType
  <2>2. imitations' \in 0 .. MaxImitations
    BY <1>3, ImitationsType DEF pushBitNotSynchronized, TypeOK
  <2>3. /\ rdsGrp' \in [Block -> Group \union {NoGroup}]
        /\ rdsCurrentBlock' \in Block
        /\ rdsBitsinBlock' \in 0 .. LastBit
        /\ rdsIsSynchronized' \in BOOLEAN
    <3>1. CASE rdsBitsinBlock < LastBit /\ rdsBitsinBlock' = rdsBitsinBlock + 1
                 /\ UNCHANGED <<rdsIsSynchronized, rdsCurrentBlock, rdsGrp>>
      BY <3>1, RdsAssumption DEF RdsAssumption, TypeOK, LastBit
    <3>2. CASE resync
      BY <3>2, ResyncType
    <3>3. CASE (\E g \in Group : TakeBlock(g))
                 /\ rdsIsSynchronized' = (rdsCurrentBlock >= SYNC_END_BLOCK)
      <4>1. rdsIsSynchronized' \in BOOLEAN
        BY <3>3
      <4> QED BY <3>3, <4>1, TakeBlockType
    <3> QED BY <1>3, <3>1, <3>2, <3>3 DEF pushBitNotSynchronized
  <2> QED BY <1>3, <2>1, <2>2, <2>3 DEF pushBitNotSynchronized, TypeOK
<1>4. ASSUME NEW a \in Received, Receive(a), pushBitSynchronized(a) PROVE TypeOK'
  <2>1. a \in Air /\ damage' \in 0 .. MaxDamage
    BY <1>4, ReceiveType
  <2>2. imitations' \in 0 .. MaxImitations
    BY <1>4, ImitationsType DEF pushBitSynchronized, TypeOK
  <2>3. CASE /\ rdsBitsinBlock + 1 < BitsPerBlock
             /\ rdsBitsinBlock' = rdsBitsinBlock + 1
             /\ air' = a
             /\ UNCHANGED <<rdsIsSynchronized, rdsCurrentBlock, rdsGrp,
                            rdsBitsProcessed, rdsNumofBitErrors>>
    <3>1. rdsBitsinBlock' \in 0 .. LastBit
      BY <2>3, RdsAssumption DEF RdsAssumption, TypeOK, LastBit
    <3> QED BY <2>1, <2>2, <2>3, <3>1 DEF TypeOK
  <2>4. CASE (\E n \in 0 .. PayloadBits : correctErrors(a, n) /\ CountBits(n)) /\ resync
    <3>1. air' \in Air
      BY <2>1, <2>4, CorrectionType
    <3>2. /\ rdsBitsProcessed' \in 0 .. BerReset - 1
          /\ rdsNumofBitErrors' \in 0 .. rdsBitsProcessed'
      BY <2>4, CountBitsType
    <3> QED BY <2>1, <2>2, <2>4, <3>1, <3>2, ResyncType DEF TypeOK
  <2>5. CASE (\E g \in Group : TakeBlock(g)) /\ air' = a /\ CountBits(0)
               /\ UNCHANGED rdsIsSynchronized
    <3>1. 0 \in 0 .. PayloadBits
      BY RdsAssumption DEF RdsAssumption
    <3>2. /\ rdsBitsProcessed' \in 0 .. BerReset - 1
          /\ rdsNumofBitErrors' \in 0 .. rdsBitsProcessed'
      BY <2>5, <3>1, CountBitsType
    <3> QED BY <2>1, <2>2, <2>5, <3>2, TakeBlockType DEF TypeOK
  <2> QED BY <1>4, <2>3, <2>4, <2>5 DEF pushBitSynchronized
<1> QED BY <1>1, <1>2, <1>3, <1>4 DEF Next, pushBit

\* Every variable of the synchroniser keeps its type, and there are never more bits
\* in error than bits: decodeBlock resets both counts together.
THEOREM SyncTypeCorrect == Spec => []TypeOK
<1>1. Init => TypeOK
  BY InitType
<1>2. TypeOK /\ [Next]_syncVars => TypeOK'
  BY NextType
<1> QED BY <1>1, <1>2, PTL DEF Spec

-----------------------------------------------------------------------------
(* LockedOnBlocks alone is not inductive.  At the end of a block all bits  *)
(* of it must have come in order, and that the count of the bits in order  *)
(* equals that of the bits in the block is possible only after a slip at   *)
(* the first bit, by which the block ends at the wrong place.              *)

AtBoundary ==
  imitations = 0 /\ Locked /\ rdsBitsinBlock = 0 => air.inOrder = BitsPerBlock

SlippedAtFirst ==
  imitations = 0 /\ Locked /\ rdsBitsinBlock > 0 /\ air.inOrder = rdsBitsinBlock =>
    air.bit + 1 # rdsBitsinBlock

IInv == TypeOK /\ LockedOnBlocks /\ AtBoundary /\ SlippedAtFirst

\* The bit that a locked receiver is given, by what it was before.
LEMMA NextBit ==
  ASSUME IInv, imitations = 0, Locked, NEW a \in Received, Receive(a)
  PROVE  /\ a \in Air
         /\ a.inOrder > rdsBitsinBlock + 1 =>
              /\ rdsBitsinBlock = 0 => a.bit = 0 /\ a.block = rdsCurrentBlock
              /\ rdsBitsinBlock > 0 => a.bit = rdsBitsinBlock /\ a.block = rdsCurrentBlock
              /\ \A b \in Block : b < rdsCurrentBlock => rdsGrp[b] = a.group
         /\ a.inOrder = rdsBitsinBlock + 1 /\ rdsBitsinBlock < LastBit => a.bit # rdsBitsinBlock
<1>1. TypeOK /\ air \in Air /\ BitsPerBlock \in Nat /\ BitsPerBlock >= 2
  BY RdsAssumption DEF RdsAssumption, IInv, TypeOK
<1>2. a \in Air
  BY <1>1, ReceiveType
<1>3. CASE a \in OneOn(air)
  <2>1. /\ a.bit = IF air.bit = LastBit THEN 0 ELSE air.bit + 1
        /\ a.block = IF air.bit = LastBit THEN NextBlock(air.block) ELSE air.block
        /\ air.bit # LastBit => a.group = air.group
        /\ a.inOrder = IF air.inOrder = BitsPerBlock THEN BitsPerBlock ELSE air.inOrder + 1
    BY <1>1, <1>3, OneOnFields
  <2>2. CASE air.inOrder > rdsBitsinBlock
    <3>1. InPlace /\ \A b \in Block : b < rdsCurrentBlock => rdsGrp[b] = air.group
      BY <2>2 DEF IInv, LockedOnBlocks
    <3>2. rdsBitsinBlock \in 0 .. LastBit /\ air.bit \in 0 .. LastBit
            /\ air.inOrder \in 0 .. BitsPerBlock
      BY <1>1 DEF TypeOK, Air
    <3>3. CASE rdsBitsinBlock = 0
      <4>1. air.inOrder = BitsPerBlock /\ a.inOrder = BitsPerBlock
        BY <2>1, <3>3 DEF IInv, AtBoundary
      <4>2. air.bit = LastBit /\ rdsCurrentBlock = NextBlock(air.block)
        BY <3>1, <3>3 DEF InPlace
      <4>3. rdsCurrentBlock = 0 \/ air.block # 3
        BY <4>2 DEF NextBlock, BLOCK_A, BLOCK_D
      <4>4. ASSUME NEW b \in Block, b < rdsCurrentBlock PROVE rdsGrp[b] = a.group
        <5>1. air.block # BLOCK_D
          BY <1>1, <4>3, <4>4 DEF Block, BLOCK_D, TypeOK
        <5>2. a.group = air.group
          BY <1>3, <5>1 DEF OneOn
        <5> QED BY <3>1, <4>4, <5>2
      <4> QED BY <1>1, <1>2, <2>1, <3>2, <3>3, <4>1, <4>2, <4>4 DEF LastBit
    <3>4. CASE rdsBitsinBlock > 0
      <4>1. air.bit + 1 = rdsBitsinBlock /\ rdsCurrentBlock = air.block
        BY <3>1, <3>4 DEF InPlace
      <4>2. air.bit # LastBit
        BY <1>1, <3>2, <4>1 DEF LastBit
      <4> QED BY <1>1, <1>2, <2>1, <2>2, <3>1, <3>2, <3>4, <4>1, <4>2 DEF LastBit
    <3> QED BY <3>2, <3>3, <3>4
  <2>3. CASE ~(air.inOrder > rdsBitsinBlock)
    <3>1. rdsBitsinBlock \in 0 .. LastBit /\ air.bit \in 0 .. LastBit
            /\ air.inOrder \in 0 .. BitsPerBlock
      BY <1>1 DEF TypeOK, Air
    <3>2. rdsBitsinBlock > 0
      BY <1>1, <2>3, <3>1 DEF IInv, AtBoundary
    <3>3. air.inOrder = rdsBitsinBlock => air.bit + 1 # rdsBitsinBlock
      BY <3>2 DEF IInv, SlippedAtFirst
    <3> QED BY <1>1, <1>2, <2>1, <2>3, <3>1, <3>2, <3>3 DEF LastBit
  <2> QED BY <2>2, <2>3
<1>4. CASE a \in Spoilt
  <2>1. a.inOrder \in {0, 1} /\ (a.inOrder = 1 /\ air.bit = LastBit => a.bit # 0)
    BY <1>1, <1>4, SpoiltFields
  <2>2. rdsBitsinBlock \in 0 .. LastBit
    BY <1>1 DEF TypeOK
  <2>3. ASSUME rdsBitsinBlock = 0 PROVE air.bit = LastBit
    BY <1>1, <2>3 DEF IInv, AtBoundary, LockedOnBlocks, InPlace
  <2> QED BY <1>1, <1>2, <2>1, <2>2, <2>3 DEF LastBit
<1> QED BY <1>3, <1>4 DEF Receive

\* Counting one more bit of a block.
LEMMA CountStep ==
  ASSUME IInv, NEW a \in Received, Receive(a), Locked, rdsBitsinBlock < LastBit,
         air' = a, rdsBitsinBlock' = rdsBitsinBlock + 1,
         UNCHANGED <<imitations, rdsIsSynchronized, rdsCurrentBlock, rdsGrp>>
  PROVE  LockedOnBlocks' /\ AtBoundary' /\ SlippedAtFirst'
<1>1. rdsBitsinBlock \in 0 .. LastBit /\ BitsPerBlock \in Nat /\ BitsPerBlock >= 2
  BY RdsAssumption DEF RdsAssumption, IInv, TypeOK
<1>2. AtBoundary'
  BY <1>1 DEF AtBoundary
<1>3. CASE imitations # 0
  BY <1>2, <1>3 DEF LockedOnBlocks, SlippedAtFirst
<1>4. CASE imitations = 0
  <2>1. /\ a \in Air
        /\ a.inOrder > rdsBitsinBlock + 1 =>
             /\ a.bit = rdsBitsinBlock /\ a.block = rdsCurrentBlock
             /\ \A b \in Block : b < rdsCurrentBlock => rdsGrp[b] = a.group
        /\ a.inOrder = rdsBitsinBlock + 1 => a.bit # rdsBitsinBlock
    BY <1>1, <1>4, NextBit
  <2>2. a.bit \in Nat /\ a.inOrder \in Nat
    BY <2>1 DEF Air, LastBit
  <2>3. SlippedAtFirst'
    BY <1>1, <2>1, <2>2 DEF SlippedAtFirst
  <2>4. LockedOnBlocks'
    BY <1>1, <2>1, <2>2 DEF LockedOnBlocks, InPlace
  <2> QED BY <1>2, <2>3, <2>4
<1> QED BY <1>3, <1>4

\* At the end of a block, if it is one: the blocks before are of the same group.
LEMMA EndOfBlock ==
  ASSUME IInv, imitations = 0, Locked, NEW a \in Received, Receive(a),
         rdsBitsinBlock = LastBit, IsBlock(a, rdsCurrentBlock)
  PROVE  \A b \in Block : b < rdsCurrentBlock => rdsGrp[b] = a.group
<1>1. BitsPerBlock \in Nat /\ BitsPerBlock >= 2
  BY RdsAssumption DEF RdsAssumption
<1>2. a.inOrder = rdsBitsinBlock + 1 /\ a.bit = rdsBitsinBlock /\ rdsBitsinBlock > 0
  BY <1>1 DEF IsBlock, LastBit
<1>3. air \in Air /\ TypeOK
  BY DEF IInv, TypeOK
<1>4. a \in OneOn(air)
  BY <1>1, <1>2, <1>3, SpoiltFields DEF Receive, LastBit
<1>5. /\ a.bit = IF air.bit = LastBit THEN 0 ELSE air.bit + 1
      /\ air.bit # LastBit => a.group = air.group
      /\ a.inOrder = IF air.inOrder = BitsPerBlock THEN BitsPerBlock ELSE air.inOrder + 1
  BY <1>3, <1>4, OneOnFields
<1>6. air.bit # LastBit /\ air.bit + 1 = rdsBitsinBlock
  BY <1>2, <1>5
<1>7. air.inOrder > rdsBitsinBlock
  <2>1. air.inOrder \in 0 .. BitsPerBlock
    BY <1>3 DEF Air
  <2>2. air.inOrder # rdsBitsinBlock
    BY <1>2, <1>6 DEF IInv, SlippedAtFirst
  <2> QED BY <1>1, <1>2, <1>5, <2>1, <2>2 DEF LastBit
<1> QED BY <1>5, <1>6, <1>7 DEF IInv, LockedOnBlocks

\* Taking a block.
LEMMA TakeStep ==
  ASSUME IInv, NEW a \in Received, Receive(a), NEW g \in Group,
         SyndromeZero(a, rdsCurrentBlock, g), TakeBlock(g), air' = a,
         Locked => rdsBitsinBlock = LastBit
  PROVE  LockedOnBlocks' /\ AtBoundary' /\ SlippedAtFirst'
<1>1. TypeOK /\ BitsPerBlock \in Nat /\ BitsPerBlock >= 2 /\ imitations \in Nat
  BY RdsAssumption DEF RdsAssumption, IInv, TypeOK
<1>2. rdsBitsinBlock' = 0
  BY DEF TakeBlock
<1>3. CASE imitations' # 0
  BY <1>3 DEF LockedOnBlocks, AtBoundary, SlippedAtFirst
<1>4. CASE imitations' = 0
  <2>1. IsBlock(a, rdsCurrentBlock) /\ g = a.group /\ imitations = 0
    BY <1>1, <1>4 DEF SyndromeZero
  <2>2. a.inOrder = BitsPerBlock /\ a.block = rdsCurrentBlock /\ a.bit = LastBit
    BY <2>1 DEF IsBlock
  <2>3. AtBoundary' /\ SlippedAtFirst'
    BY <1>2, <2>2 DEF AtBoundary, SlippedAtFirst
  <2>4. InPlace'
    BY <1>2, <2>2 DEF InPlace, TakeBlock
  <2>5. ASSUME NEW b \in Block, b < rdsCurrentBlock' PROVE rdsGrp'[b] = a.group
    <3>1. rdsCurrentBlock # BLOCK_D /\ rdsCurrentBlock' = rdsCurrentBlock + 1
      BY <2>5 DEF TakeBlock, NextBlock, BLOCK_A, BLOCK_D, Block
    <3>2. rdsGrp' = [rdsGrp EXCEPT ![rdsCurrentBlock] = g]
      BY <3>1 DEF TakeBlock
    <3>3. rdsCurrentBlock \in Block /\ rdsGrp \in [Block -> Group \union {NoGroup}]
      BY <1>1 DEF TypeOK
    <3>4. CASE b = rdsCurrentBlock
      BY <2>1, <3>2, <3>3, <3>4
    <3>5. CASE b # rdsCurrentBlock
      <4>1. b < rdsCurrentBlock
        BY <2>5, <3>1, <3>3, <3>5 DEF Block
      <4>2. Locked
        BY <3>3, <4>1 DEF Locked, Block, BLOCK_A
      <4>3. rdsGrp[b] = a.group
        BY <2>1, <4>1, <4>2, EndOfBlock
      <4> QED BY <3>2, <3>3, <3>5, <4>3
    <3> QED BY <3>4, <3>5
  <2>6. LockedOnBlocks'
    BY <2>4, <2>5 DEF LockedOnBlocks
  <2> QED BY <2>3, <2>6
<1> QED BY <1>3, <1>4

\* Without a lock nothing is claimed.
LEMMA UnlockedStep ==
  ASSUME ~Locked'
  PROVE  LockedOnBlocks' /\ AtBoundary' /\ SlippedAtFirst'
BY DEF LockedOnBlocks, AtBoundary, SlippedAtFirst

LEMMA ResyncUnlocks == ASSUME resync PROVE ~Locked'
BY DEF resync, Locked

LEMMA NextIInv == IInv /\ [Next]_syncVars => IInv'
<1> SUFFICES ASSUME IInv, [Next]_syncVars PROVE IInv'
  OBVIOUS
<1>1. TypeOK'
  BY NextType DEF IInv
<1>2. CASE UNCHANGED syncVars
  BY <1>1, <1>2 DEF IInv, LockedOnBlocks, AtBoundary, SlippedAtFirst, Locked, InPlace, syncVars
<1>3. ASSUME NEW a \in Received, Receive(a), pushBitinBlockA(a) PROVE IInv'
  <2>1. ~Locked /\ rdsCurrentBlock = BLOCK_A /\ air' = a
    BY <1>3 DEF pushBitinBlockA, Locked
  <2>2. CASE UNCHANGED <<rdsCurrentBlock, rdsIsSynchronized>>
    BY <1>1, <2>1, <2>2, UnlockedStep DEF IInv, Locked
  <2>3. CASE \E g \in Group : SyndromeZero(a, BLOCK_A, g) /\ TakeBlock(g)
    BY <1>1, <1>3, <2>1, <2>3, TakeStep DEF IInv
  <2> QED BY <1>3, <2>2, <2>3 DEF pushBitinBlockA
<1>4. ASSUME NEW a \in Received, Receive(a), pushBitNotSynchronized(a) PROVE IInv'
  <2>1. Locked /\ air' = a
    BY <1>4 DEF pushBitNotSynchronized, Locked
  <2>2. CASE /\ rdsBitsinBlock < LastBit
             /\ rdsBitsinBlock' = rdsBitsinBlock + 1
             /\ UNCHANGED <<imitations, rdsIsSynchronized, rdsCurrentBlock, rdsGrp>>
    BY <1>1, <1>4, <2>1, <2>2, CountStep DEF IInv
  <2>3. CASE resync
    BY <1>1, <2>3, ResyncUnlocks, UnlockedStep DEF IInv
  <2>4. CASE rdsBitsinBlock = LastBit
               /\ \E g \in Group : SyndromeZero(a, rdsCurrentBlock, g) /\ TakeBlock(g)
    BY <1>1, <1>4, <2>1, <2>4, TakeStep DEF IInv
  <2> QED BY <1>4, <2>2, <2>3, <2>4 DEF pushBitNotSynchronized
<1>5. ASSUME NEW a \in Received, Receive(a), pushBitSynchronized(a) PROVE IInv'
  <2>1. Locked
    BY <1>5 DEF pushBitSynchronized, Locked
  <2>2. rdsBitsinBlock \in 0 .. LastBit /\ BitsPerBlock \in Nat
    BY RdsAssumption DEF RdsAssumption, IInv, TypeOK
  <2>3. CASE /\ rdsBitsinBlock + 1 < BitsPerBlock
             /\ rdsBitsinBlock' = rdsBitsinBlock + 1
             /\ air' = a
             /\ UNCHANGED <<imitations, rdsIsSynchronized, rdsCurrentBlock, rdsGrp>>
    <3>1. rdsBitsinBlock < LastBit
      BY <2>2, <2>3 DEF LastBit
    <3> QED BY <1>1, <1>5, <2>1, <2>3, <3>1, CountStep DEF IInv
  <2>4. CASE resync
    BY <1>1, <2>4, ResyncUnlocks, UnlockedStep DEF IInv
  <2>5. CASE /\ rdsBitsinBlock + 1 = BitsPerBlock
             /\ \E g \in Group : SyndromeZero(a, rdsCurrentBlock, g) /\ TakeBlock(g)
             /\ air' = a
    <3>1. rdsBitsinBlock = LastBit
      BY <2>2, <2>5 DEF LastBit
    <3> QED BY <1>1, <1>5, <2>5, <3>1, TakeStep DEF IInv
  <2> QED BY <1>5, <2>3, <2>4, <2>5 DEF pushBitSynchronized
<1> QED BY <1>2, <1>3, <1>4, <1>5 DEF Next, pushBit

LEMMA InitIInv == Init => IInv
<1> SUFFICES ASSUME Init PROVE IInv
  OBVIOUS
<1>1. ~Locked
  BY DEF Init, Locked
<1> QED BY <1>1, InitType DEF IInv, LockedOnBlocks, AtBoundary, SlippedAtFirst

\* A receiver that no imitation has misled counts the bits and the blocks as they
\* are on the air, unless one was spoilt in the block it is in.
THEOREM SyncLocked == Spec => []LockedOnBlocks
<1>1. Init => IInv
  BY InitIInv
<1>2. IInv /\ [Next]_syncVars => IInv'
  BY NextIInv
<1>3. IInv => LockedOnBlocks
  BY DEF IInv
<1> QED BY <1>1, <1>2, <1>3, PTL DEF Spec

\* The step that completes a group: all of its blocks are of the group on the air.
LEMMA CompleteIsWhole ==
  ASSUME IInv, Next, Completes, imitations' = 0
  PROVE  /\ air'.group \in Group
         /\ \A b \in {BLOCK_A, BLOCK_B, BLOCK_C} : rdsGrp[b] = air'.group
<1>1. TypeOK /\ BitsPerBlock \in Nat /\ imitations \in Nat
  BY RdsAssumption DEF RdsAssumption, IInv, TypeOK
<1>2. rdsCurrentBlock = BLOCK_D /\ rdsIsSynchronized' /\ rdsCurrentBlock' # BLOCK_D
  BY DEF Completes, BLOCK_A, BLOCK_D
<1>3. PICK a \in Received : Receive(a) /\ pushBit(a)
  BY DEF Next
<1>4. ~pushBitinBlockA(a)
  BY <1>2 DEF pushBitinBlockA, BLOCK_A, BLOCK_D
<1>5. CASE pushBitNotSynchronized(a) \/ pushBitSynchronized(a)
  <2>1. Locked /\ ~resync
    BY <1>2 DEF Locked, resync, BLOCK_A, BLOCK_D
  <2>2. PICK g \in Group : /\ SyndromeZero(a, rdsCurrentBlock, g)
                            /\ rdsBitsinBlock = LastBit
                            /\ air' = a
    <3>1. rdsBitsinBlock + 1 = BitsPerBlock => rdsBitsinBlock = LastBit
      BY <1>1 DEF LastBit, TypeOK
    <3> QED BY <1>2, <1>5, <2>1, <3>1 DEF pushBitNotSynchronized, pushBitSynchronized
  <2>3. imitations = 0 /\ IsBlock(a, rdsCurrentBlock)
    BY <1>1, <2>2 DEF SyndromeZero
  <2>4. \A b \in Block : b < rdsCurrentBlock => rdsGrp[b] = a.group
    BY <1>3, <2>1, <2>2, <2>3, EndOfBlock
  <2>5. a.group \in Group
    BY <1>1, <1>3, ReceiveType DEF Air
  <2> QED BY <1>2, <2>2, <2>4, <2>5 DEF Block, BLOCK_A, BLOCK_B, BLOCK_C, BLOCK_D
<1> QED BY <1>3, <1>4, <1>5 DEF pushBit

\* What is decoded without imitations is a group that was sent, never blocks of two.
THEOREM SyncWholeGroups == Spec => WholeGroups
<1> DEFINE Whole == Completes /\ imitations' = 0 =>
                      \A b \in {BLOCK_A, BLOCK_B, BLOCK_C} : rdsGrp[b] = air'.group
<1>1. Init => IInv
  BY InitIInv
<1>2. IInv /\ [Next]_syncVars => IInv'
  BY NextIInv
<1>3. IInv /\ [Next]_syncVars => [Whole]_syncVars
  BY CompleteIsWhole
<1> QED BY <1>1, <1>2, <1>3, PTL DEF Spec, WholeGroups

-----------------------------------------------------------------------------
(* The group decoder: with whole groups, all it has is of one station.     *)

Messages(p) == {m \in {Message(g) : g \in Group} : m.pi = p}

\* The states of the decoder with characters of station p only.
OfStation(p) ==
  [pi : {p}, label : [NameSegment -> SUBSET {p}],
   flag : {NoFlag} \union {g.flag : g \in Group},
   register : SUBSET {g.segment : g \in Group},
   text : [Fragment -> SUBSET Messages(p)],
   shownLabel : SUBSET {p}, shownText : SUBSET Messages(p)]

\* What is shown of a text is of the messages of its segments.
LEMMA ShownIsOfText ==
  ASSUME NEW D, NEW S, NEW text \in [D -> SUBSET S], NEW segments \in SUBSET D
  PROVE  Shown(text, segments) \subseteq S
BY DEF Shown

LEMMA ResetOfStation ==
  ASSUME NEW d, NEW p PROVE reset(d, p) \in OfStation(p)
BY DEF reset, OfStation, NoLabel, NoText

LEMMA NameOfStation ==
  ASSUME NEW g \in Group, NEW d \in OfStation(g.pi)
  PROVE  Handle_Basic_Tuning(d, g, g) \in OfStation(g.pi)
<1> DEFINE label == [d.label EXCEPT ![g.segment] = {g.pi}]
<1>1. label \in [NameSegment -> SUBSET {g.pi}]
  BY DEF OfStation
<1>2. Shown(label, NameSegment) \subseteq {g.pi}
  BY <1>1, ShownIsOfText
<1>3. Handle_Basic_Tuning(d, g, g)
        = [d EXCEPT !.label = label, !.shownLabel = Shown(label, NameSegment)]
  BY DEF Handle_Basic_Tuning
<1> HIDE DEF label
<1> QED BY <1>1, <1>2, <1>3 DEF OfStation

LEMMA FragmentOfStation ==
  ASSUME NEW g \in Group, NEW d \in OfStation(g.pi)
  PROVE  StoreFragment(d, g, g, g) \in OfStation(g.pi)
<1> DEFINE text == [d.text EXCEPT ![g.segment] = {Message(g), Message(g)}]
           register == d.register \union {g.segment}
           stored == [d EXCEPT !.text = text, !.register = register,
                               !.shownText = Shown(text, Fragment)]
<1>1. Message(g) \in Messages(g.pi)
  BY DEF Message, Messages
<1>2. text \in [Fragment -> SUBSET Messages(g.pi)]
  BY <1>1 DEF OfStation
<1>3. Shown(text, Fragment) \subseteq Messages(g.pi)
  BY <1>2, ShownIsOfText
<1>4. register \subseteq {h.segment : h \in Group}
  BY DEF OfStation
<1>5. NoText \in [Fragment -> SUBSET Messages(g.pi)]
  BY DEF NoText
<1>6. StoreFragment(d, g, g, g) \in {stored, [stored EXCEPT !.register = {}, !.text = NoText]}
  BY DEF StoreFragment
<1>7. stored \in OfStation(g.pi)
  <2> HIDE DEF text, register
  <2> QED BY <1>2, <1>3, <1>4 DEF OfStation
<1> HIDE DEF stored
<1> QED BY <1>5, <1>6, <1>7 DEF OfStation

LEMMA TextOfStation ==
  ASSUME NEW g \in Group, NEW d \in OfStation(g.pi)
  PROVE  Handle_RadioText(d, g, g, g) \in OfStation(g.pi)
<1> DEFINE first == FirstFragments(d.register)
           shown == UNION {Shown(d.text, 0 .. n - 1) : n \in first}
           empty == [d EXCEPT !.flag = g.flag, !.register = {}, !.text = NoText,
                              !.shownText = {}]
<1>1. shown \subseteq Messages(g.pi)
  <2>1. ASSUME NEW n \in first PROVE Shown(d.text, 0 .. n - 1) \subseteq Messages(g.pi)
    <3> DEFINE some == 0 .. n - 1
    <3>1. some \in SUBSET Fragment
      BY SegmentAssumption DEF SegmentAssumption, FirstFragments, Fragment
    <3>2. d.text \in [Fragment -> SUBSET Messages(g.pi)]
      BY DEF OfStation
    <3>3. Shown(d.text, some) \subseteq Messages(g.pi)
      <4> HIDE DEF some
      <4> QED BY <3>1, <3>2, ShownIsOfText
    <3> QED BY <3>3
  <2> QED BY <2>1
<1>2. empty \in OfStation(g.pi)
  <2>1. NoText \in [Fragment -> SUBSET Messages(g.pi)]
    BY DEF NoText
  <2> QED BY <2>1 DEF OfStation
<1>3. [d EXCEPT !.flag = g.flag, !.shownText = shown] \in OfStation(g.pi)
  <2> HIDE DEF shown
  <2> QED BY <1>1 DEF OfStation
<1>4. Handle_RadioText(d, g, g, g) \in {StoreFragment(d, g, g, g), StoreFragment(empty, g, g, g),
                                        [d EXCEPT !.flag = g.flag, !.shownText = shown]}
  BY DEF Handle_RadioText
<1> HIDE DEF empty, shown
<1> QED BY <1>2, <1>3, <1>4, FragmentOfStation

LEMMA DecodeOfStation ==
  ASSUME NEW g \in Group, Decoder \in OfStation(m_piCode)
  PROVE  decode(g, g, g, g) \in OfStation(g.pi)
<1> DEFINE d == IF g.pi = m_piCode THEN Decoder ELSE reset(Decoder, g.pi)
<1>1. d \in OfStation(g.pi)
  BY ResetOfStation
<1>2. decode(g, g, g, g) \in {d, Handle_Basic_Tuning(d, g, g), Handle_RadioText(d, g, g, g)}
  BY DEF decode
<1> HIDE DEF d
<1> QED BY <1>1, <1>2, NameOfStation, TextOfStation

\* Without imitations the decoder has characters of the station of its PI code only.
OneStationInv == imitations = 0 => Decoder \in OfStation(m_piCode)

LEMMA InitOneStation == GroupInit => OneStationInv
BY DEF GroupInit, OneStationInv, Decoder, OfStation, NoLabel, NoText

\* After SetDecoder the state is the one given.
LEMMA SetDecoderSets ==
  ASSUME NEW p, NEW d \in OfStation(p), SetDecoder(d)
  PROVE  Decoder' \in OfStation(m_piCode')
BY DEF SetDecoder, Decoder, OfStation

LEMMA NextOneStation == IInv /\ OneStationInv /\ [processBit]_vars => OneStationInv'
<1> SUFFICES ASSUME IInv, OneStationInv, [processBit]_vars, imitations' = 0
             PROVE  Decoder' \in OfStation(m_piCode')
  BY DEF OneStationInv
<1>1. CASE UNCHANGED vars
  BY <1>1 DEF OneStationInv, vars, syncVars, groupVars, Decoder
<1>2. CASE processBit
  <2>1. imitations = 0
    <3>1. imitations \in Nat
      BY RdsAssumption DEF RdsAssumption, IInv, TypeOK
    <3>2. PICK a \in Received : pushBit(a)
      BY <1>2 DEF processBit, Next
    <3>3. imitations' = imitations \/ imitations' = imitations + 1
      BY <3>2 DEF pushBit, pushBitinBlockA, pushBitNotSynchronized, pushBitSynchronized,
                  SyndromeZero, SyndromeNonzero
    <3> QED BY <3>1, <3>3
  <2>2. Decoder \in OfStation(m_piCode)
    BY <2>1 DEF OneStationInv
  <2>3. CASE ~Completes /\ UNCHANGED groupVars
    BY <2>2, <2>3 DEF groupVars, Decoder
  <2>4. CASE Completes /\ DecodeGroup
    <3> DEFINE g == air'.group
    <3>1. g \in Group /\ \A b \in {BLOCK_A, BLOCK_B, BLOCK_C} : rdsGrp[b] = g
      BY <1>2, <2>4, CompleteIsWhole DEF processBit
    <3>2. SetDecoder(decode(g, g, g, g))
      BY <2>1, <2>4, <3>1 DEF DecodeGroup
    <3>3. decode(g, g, g, g) \in OfStation(g.pi)
      BY <2>2, <3>1, DecodeOfStation
    <3> HIDE DEF g
    <3> QED BY <3>2, <3>3, SetDecoderSets
  <2> QED BY <1>2, <2>3, <2>4 DEF processBit
<1> QED BY <1>1, <1>2

\* A step of the whole decoder is one of the synchroniser.
LEMMA DecoderStep == [processBit]_vars => [Next]_syncVars
BY DEF processBit, vars, syncVars

\* The GUI never shows characters of another station than the one received.
THEOREM DecoderOneStation == RdsSpec => []OneStation
<1>1. RdsInit => IInv /\ OneStationInv
  BY InitIInv, InitOneStation DEF RdsInit
<1>2. IInv /\ OneStationInv /\ [processBit]_vars => IInv' /\ OneStationInv'
  BY NextIInv, NextOneStation, DecoderStep
<1>3. OneStationInv => OneStation
  BY DEF OneStationInv, OneStation, Decoder, OfStation, Messages
<1> QED BY <1>1, <1>2, <1>3, PTL DEF RdsSpec

\* The synchroniser keeps in step with the air in the whole decoder, too.
THEOREM DecoderLocked == RdsSpec => []LockedOnBlocks
<1>1. RdsInit => IInv
  BY InitIInv DEF RdsInit
<1>2. IInv /\ [processBit]_vars => IInv'
  BY NextIInv, DecoderStep
<1>3. IInv => LockedOnBlocks
  BY DEF IInv
<1> QED BY <1>1, <1>2, <1>3, PTL DEF RdsSpec
-----------------------------------------------------------------------------
(* The types of the group decoder, with imitations or without.             *)

Pis == {g.pi : g \in Group}
AllMessages == {Message(g) : g \in Group}

DecoderTypes ==
  [pi : Pis \union {NoPi}, label : [NameSegment -> SUBSET Pis], flag : {NoFlag, 0, 1},
   register : SUBSET Fragment, text : [Fragment -> SUBSET AllMessages],
   shownLabel : SUBSET Pis, shownText : SUBSET AllMessages]

LEMMA FragmentType ==
  ASSUME NEW d \in DecoderTypes, NEW b \in Group, NEW c \in Group, NEW e \in Group,
         b.kind = "text"
  PROVE  StoreFragment(d, b, c, e) \in DecoderTypes
<1> DEFINE text == [d.text EXCEPT ![b.segment] = {Message(c), Message(e)}]
           register == d.register \union {b.segment}
           stored == [d EXCEPT !.text = text, !.register = register,
                               !.shownText = Shown(text, Fragment)]
<1>1. b.segment \in Fragment
  BY GroupAssumption DEF GroupAssumption, Fragment
<1>2. Message(c) \in AllMessages /\ Message(e) \in AllMessages
  BY DEF AllMessages
<1>3. text \in [Fragment -> SUBSET AllMessages]
  BY <1>2 DEF DecoderTypes
<1>4. Shown(text, Fragment) \subseteq AllMessages
  BY <1>3, ShownIsOfText
<1>5. register \subseteq Fragment
  BY <1>1 DEF DecoderTypes
<1>6. NoText \in [Fragment -> SUBSET AllMessages]
  BY DEF NoText
<1>7. StoreFragment(d, b, c, e) \in {stored, [stored EXCEPT !.register = {}, !.text = NoText]}
  BY DEF StoreFragment
<1>8. stored \in DecoderTypes
  <2> HIDE DEF text, register
  <2> QED BY <1>3, <1>4, <1>5 DEF DecoderTypes
<1> HIDE DEF stored
<1> QED BY <1>6, <1>7, <1>8 DEF DecoderTypes

LEMMA TextType ==
  ASSUME NEW d \in DecoderTypes, NEW b \in Group, NEW c \in Group, NEW e \in Group,
         b.kind = "text"
  PROVE  Handle_RadioText(d, b, c, e) \in DecoderTypes
<1> DEFINE first == FirstFragments(d.register)
           shown == UNION {Shown(d.text, 0 .. n - 1) : n \in first}
           empty == [d EXCEPT !.flag = b.flag, !.register = {}, !.text = NoText,
                              !.shownText = {}]
<1>1. shown \subseteq AllMessages
  <2>1. ASSUME NEW n \in first PROVE Shown(d.text, 0 .. n - 1) \subseteq AllMessages
    <3> DEFINE some == 0 .. n - 1
    <3>1. some \in SUBSET Fragment
      BY SegmentAssumption DEF SegmentAssumption, FirstFragments, Fragment
    <3>2. d.text \in [Fragment -> SUBSET AllMessages]
      BY DEF DecoderTypes
    <3>3. Shown(d.text, some) \subseteq AllMessages
      <4> HIDE DEF some
      <4> QED BY <3>1, <3>2, ShownIsOfText
    <3> QED BY <3>3
  <2> QED BY <2>1
<1>2. b.flag \in {NoFlag, 0, 1}
  BY GroupAssumption DEF GroupAssumption
<1>3. empty \in DecoderTypes
  <2>1. NoText \in [Fragment -> SUBSET AllMessages]
    BY DEF NoText
  <2> QED BY <1>2, <2>1 DEF DecoderTypes
<1>4. [d EXCEPT !.flag = b.flag, !.shownText = shown] \in DecoderTypes
  <2> HIDE DEF shown
  <2> QED BY <1>1, <1>2 DEF DecoderTypes
<1>5. Handle_RadioText(d, b, c, e) \in {StoreFragment(d, b, c, e), StoreFragment(empty, b, c, e),
                                        [d EXCEPT !.flag = b.flag, !.shownText = shown]}
  BY DEF Handle_RadioText
<1> HIDE DEF empty, shown
<1> QED BY <1>3, <1>4, <1>5, FragmentType

LEMMA NameType ==
  ASSUME NEW d \in DecoderTypes, NEW b \in Group, NEW e \in Group
  PROVE  Handle_Basic_Tuning(d, b, e) \in DecoderTypes
<1> DEFINE label == [d.label EXCEPT ![b.segment] = {e.pi}]
<1>1. label \in [NameSegment -> SUBSET Pis]
  BY DEF DecoderTypes, Pis
<1>2. Shown(label, NameSegment) \subseteq Pis
  BY <1>1, ShownIsOfText
<1>3. Handle_Basic_Tuning(d, b, e)
        = [d EXCEPT !.label = label, !.shownLabel = Shown(label, NameSegment)]
  BY DEF Handle_Basic_Tuning
<1> HIDE DEF label
<1> QED BY <1>1, <1>2, <1>3 DEF DecoderTypes

LEMMA DecodeType ==
  ASSUME Decoder \in DecoderTypes,
         NEW a \in Group, NEW b \in Group, NEW c \in Group, NEW e \in Group
  PROVE  decode(a, b, c, e) \in DecoderTypes
<1> DEFINE d == IF a.pi = m_piCode THEN Decoder ELSE reset(Decoder, a.pi)
<1>1. d \in DecoderTypes
  BY DEF reset, DecoderTypes, NoLabel, NoText, Pis
<1>2. \/ decode(a, b, c, e) = d
      \/ decode(a, b, c, e) = Handle_Basic_Tuning(d, b, e)
      \/ b.kind = "text" /\ decode(a, b, c, e) = Handle_RadioText(d, b, c, e)
  BY DEF decode
<1> HIDE DEF d
<1> QED BY <1>1, <1>2, NameType, TextType

\* The blocks of the group before the current one are set.
BlocksTaken == \A b \in Block : b < rdsCurrentBlock => rdsGrp[b] \in Group

LEMMA NextBlocksTaken == TypeOK /\ BlocksTaken /\ [Next]_syncVars => BlocksTaken'
<1> SUFFICES ASSUME TypeOK, BlocksTaken, [Next]_syncVars PROVE BlocksTaken'
  OBVIOUS
<1>1. CASE UNCHANGED <<rdsCurrentBlock, rdsGrp>>
  BY <1>1 DEF BlocksTaken
<1>2. ASSUME NEW g \in Group, TakeBlock(g) PROVE BlocksTaken'
  <2>1. rdsGrp \in [Block -> Group \union {NoGroup}] /\ rdsCurrentBlock \in Block
    BY DEF TypeOK
  <2>2. CASE rdsCurrentBlock = BLOCK_D
    BY <1>2, <2>2 DEF TakeBlock, NextBlock, BlocksTaken, BLOCK_A, BLOCK_D, Block
  <2>3. CASE rdsCurrentBlock # BLOCK_D
    <3>1. rdsGrp' = [rdsGrp EXCEPT ![rdsCurrentBlock] = g] /\ rdsCurrentBlock' = rdsCurrentBlock + 1
      BY <1>2, <2>3 DEF TakeBlock, NextBlock
    <3>2. ASSUME NEW b \in Block, b < rdsCurrentBlock + 1 PROVE rdsGrp'[b] \in Group
      <4>1. b = rdsCurrentBlock \/ b < rdsCurrentBlock
        BY <2>1, <3>2 DEF Block
      <4> QED BY <2>1, <3>1, <4>1 DEF BlocksTaken
    <3> QED BY <3>1, <3>2 DEF BlocksTaken
  <2> QED BY <2>2, <2>3
<1>3. CASE resync
  BY <1>3 DEF resync, BlocksTaken, BLOCK_A, Block
<1>4. CASE UNCHANGED syncVars
  BY <1>1, <1>4 DEF syncVars
<1>5. ASSUME NEW a, pushBit(a) PROVE BlocksTaken'
  <2>1. CASE pushBitinBlockA(a)
    BY <1>1, <1>2, <2>1 DEF pushBitinBlockA
  <2>2. CASE pushBitNotSynchronized(a)
    BY <1>1, <1>2, <1>3, <2>2 DEF pushBitNotSynchronized
  <2>3. CASE pushBitSynchronized(a)
    BY <1>1, <1>2, <1>3, <2>3 DEF pushBitSynchronized
  <2> QED BY <1>5, <2>1, <2>2, <2>3 DEF pushBit
<1> QED BY <1>4, <1>5 DEF Next

LEMMA NextDecoderType ==
  ASSUME BlocksTaken, Decoder \in DecoderTypes, [processBit]_vars
  PROVE  Decoder' \in DecoderTypes
<1>1. CASE UNCHANGED groupVars
  BY <1>1 DEF groupVars, Decoder
<1>2. CASE Completes /\ DecodeGroup
  <2>1. PICK e \in Group :
          SetDecoder(decode(rdsGrp[BLOCK_A], rdsGrp[BLOCK_B], rdsGrp[BLOCK_C], e))
    BY <1>2 DEF DecodeGroup
  <2>2. rdsGrp[BLOCK_A] \in Group /\ rdsGrp[BLOCK_B] \in Group /\ rdsGrp[BLOCK_C] \in Group
    BY <1>2 DEF Completes, BlocksTaken, Block, BLOCK_A, BLOCK_B, BLOCK_C, BLOCK_D
  <2> DEFINE d == decode(rdsGrp[BLOCK_A], rdsGrp[BLOCK_B], rdsGrp[BLOCK_C], e)
  <2>3. d \in DecoderTypes
    BY <2>2, DecodeType
  <2> HIDE DEF d
  <2> QED BY <2>1, <2>3 DEF d, SetDecoder, Decoder, DecoderTypes
<1> QED BY <1>1, <1>2 DEF processBit, vars

\* Every variable of both decoders keeps its type, also when imitations mislead them.
THEOREM DecoderTypeCorrect == RdsSpec => []DecoderTypeOK
<1> DEFINE TInv == TypeOK /\ BlocksTaken /\ Decoder \in DecoderTypes
<1>1. RdsInit => TInv
  <2>1. Init => BlocksTaken
    BY DEF Init, BlocksTaken, BLOCK_A, Block
  <2>2. GroupInit => Decoder \in DecoderTypes
    BY DEF GroupInit, Decoder, DecoderTypes, NoLabel, NoText
  <2> QED BY <2>1, <2>2, InitType DEF RdsInit
<1>2. TInv /\ [processBit]_vars => TInv'
  BY NextType, NextBlocksTaken, NextDecoderType, DecoderStep
<1>3. TInv => DecoderTypeOK
  BY DEF DecoderTypeOK, Decoder, DecoderTypes, Pis, AllMessages
<1> QED BY <1>1, <1>2, <1>3, PTL DEF RdsSpec


-----------------------------------------------------------------------------
(* Places.                                                                 *)

\* A remainder does not matter to another one of the same number.
LEMMA StepOn ==
  ASSUME NEW F \in Int, F > 0, NEW a \in Int, NEW b \in Int
  PROVE  ((a % F) + b) % F = (a + b) % F
OBVIOUS

\* The lengths are numbers, and the parts of a frame are its length.
LEMMA Lengths ==
  /\ T_s \in Nat \ {0} /\ T_F \in Nat \ {0}
  /\ T_null \in Nat \ {0} /\ T_g \in Nat \ {0} /\ T_u \in Nat \ {0}
  /\ nrBlocks \in Nat \ {0} /\ Window \in Nat \ {0} /\ Window <= T_g
  /\ T_null + nrBlocks * T_s = T_F
<1>1. T_g \in Nat \ {0} /\ T_u \in Nat \ {0} /\ T_null \in Nat \ {0}
      /\ nrBlocks \in Nat \ {0} /\ Window \in Nat \ {0} /\ Window <= T_g
  BY DabSyncAssumption DEF DabSyncAssumption
<1>2. T_s \in Nat \ {0}
  BY <1>1 DEF T_s
<1>3. nrBlocks * T_s \in Nat
  BY <1>1, <1>2
<1> QED
  BY <1>1, <1>2, <1>3 DEF T_F

\* The same of a frame.
LEMMA FrameOn ==
  ASSUME NEW a \in Int, NEW b \in Int
  PROVE  ((a % T_F) + b) % T_F = (a + b) % T_F /\ a % T_F \in 0 .. T_F - 1
<1>1. T_F \in Int /\ T_F > 0
  BY Lengths
<1>2. ((a % T_F) + b) % T_F = (a + b) % T_F
  BY <1>1, StepOn
<1> QED
  BY <1>1, <1>2

\* The next sample is somewhere in the frame.
LEMMA PassedPlace ==
  ASSUME pos \in Int, NEW n \in Int
  PROVE  Passed(n) \in 0 .. T_F - 1
BY Lengths DEF Passed

\* A sample whose place is a sum is at a sum again after some more.
LEMMA PassedOn ==
  ASSUME NEW a \in Int, NEW n \in Int, pos = a % T_F
  PROVE  Passed(n) = (a + n) % T_F
BY FrameOn DEF Passed

-----------------------------------------------------------------------------
(* Types.                                                                  *)

LEMMA DabInitType == DabInit => DabTypeOK
<1> SUFFICES ASSUME DabInit PROVE DabTypeOK
  OBVIOUS
<1>1. MaxDisturbances \in Nat /\ nrBlocks \in Nat /\ nrBlocks > 4
  BY DabSyncAssumption DEF DabSyncAssumption
<1>2. 0 \in 0 .. MaxDisturbances /\ 0 \in 0 .. nrBlocks - 1 /\ 0 \in {0} \union Indices
  BY <1>1
<1>3. pc = "warmUp" /\ ensemble \in BOOLEAN /\ offset \in Offset /\ pos \in 0 .. T_F - 1
  BY DEF DabInit
<1>4. shift \in Int /\ disturbances \in 0 .. MaxDisturbances /\ sLevel \in 1 .. MaxLevel
  BY <1>2 DEF DabInit
<1>5. counter \in Nat /\ startIndex \in {0} \union Indices /\ ofdmSymbolCount \in 0 .. nrBlocks - 1
  BY <1>2 DEF DabInit
<1>6. slipped \in BOOLEAN /\ ficSynced \in BOOLEAN
  BY DEF DabInit
<1>7. coarseOffset \in Int /\ fineOffset \in Int
  BY DEF DabInit
<1> QED
  BY <1>3, <1>4, <1>5, <1>6, <1>7 DEF DabTypeOK

LEMMA TruncatedType ==
  ASSUME NEW a \in Int, NEW b \in Nat \ {0}
  PROVE  Truncated(a, b) \in Int
BY DEF Truncated

LEMMA CoarseType ==
  ASSUME DabTypeOK, CorrectCoarse
  PROVE  coarseOffset' \in Int
<1>1. CoarseStep \in Int /\ SearchRange \in Int /\ WrongEstimate \subseteq Int
  BY DabSyncAssumption DEF DabSyncAssumption
<1>2. CASE ficSynced
  BY <1>2 DEF CorrectCoarse, DabTypeOK
<1>3. CASE ~ficSynced
  <2>1. PICK n \in WrongEstimate \union (-SearchRange .. SearchRange - 1) :
          coarseOffset' =
              LET c == coarseOffset + n * CoarseStep
              IN  IF n = NoEstimate THEN coarseOffset ELSE IF Abs(c) > MaxCoarse THEN 0 ELSE c
    BY <1>3 DEF CorrectCoarse
  <2>2. n \in Int
    BY <1>1
  <2>3. coarseOffset + n * CoarseStep \in Int
    BY <1>1, <2>2 DEF DabTypeOK
  <2> QED
    BY <2>1, <2>3 DEF DabTypeOK
<1> QED
  BY <1>2, <1>3

LEMMA FineType ==
  ASSUME DabTypeOK, CorrectFine
  PROVE  coarseOffset' \in Int /\ fineOffset' \in Int
<1>1. CarrierDiff \in Int /\ Gain \in Nat \ {0}
  BY DabSyncAssumption DEF DabSyncAssumption
<1>2. PICK f \in -CarrierDiff .. CarrierDiff :
        LET fine == Truncated(Gain * fineOffset + f, Gain)
            over == IF 2 * fine > CarrierDiff THEN CarrierDiff
                    ELSE IF 2 * fine < -CarrierDiff THEN -CarrierDiff ELSE 0
        IN  /\ fineOffset' = fine - over
            /\ coarseOffset' = coarseOffset + over
  BY DEF CorrectFine
<1> DEFINE fine == Truncated(Gain * fineOffset + f, Gain)
<1>3. Gain * fineOffset + f \in Int
  BY <1>1 DEF DabTypeOK
<1>4. fine \in Int
  BY <1>1, <1>3, TruncatedType
<1> HIDE DEF fine
<1> QED
  BY <1>1, <1>2, <1>4 DEF DabTypeOK, fine

LEMMA DabNextType == DabTypeOK /\ [DabNext]_dabVars => DabTypeOK'
<1> SUFFICES ASSUME DabTypeOK, [DabNext]_dabVars PROVE DabTypeOK'
  OBVIOUS
<1> USE Lengths
<1>0. pos \in Int /\ \A n \in Int : Passed(n) \in 0 .. T_F - 1
  BY PassedPlace DEF DabTypeOK
<1>1. CASE WarmUp
  BY <1>0, <1>1 DEF WarmUp, DabTypeOK, session, level, frequency
<1>2. CASE FirstLevel
  <2>1. C_LEVEL_SIZE \in Int
    BY DabSyncAssumption DEF DabSyncAssumption
  <2>2. pos' \in 0 .. T_F - 1 /\ pc' = "dip" /\ counter' \in Nat
    BY <1>0, <1>2, <2>1 DEF FirstLevel
  <2> QED
    BY <1>2, <2>2 DEF FirstLevel, DabTypeOK, session, frequency
<1>3. ASSUME NEW limit, Turn(limit), pc \in {"dip", "endOfDip"} PROVE DabTypeOK'
  <2>1. pos' \in 0 .. T_F - 1
    BY <1>0, <1>3 DEF Turn, GetSample
  <2>2. disturbances' \in 0 .. MaxDisturbances
    BY <1>3, DabSyncAssumption DEF Turn, GetSample, DabTypeOK, DabSyncAssumption
  <2>3. pc' \in {"dip", "endOfDip", "level"} /\ counter' \in Nat
    BY <1>3 DEF Turn, DabTypeOK
  <2> QED
    BY <1>3, <2>1, <2>2, <2>3 DEF Turn, DabTypeOK, session, frequency
<1>4. CASE SyncOnNull
  BY <1>3, <1>4 DEF SyncOnNull
<1>5. CASE DipFound
  BY <1>5 DEF DipFound, DabTypeOK, session, place, frequency
<1>6. CASE SyncOnEndNull
  BY <1>3, <1>6 DEF SyncOnEndNull
<1>7. CASE EndOfDipFound
  BY <1>7 DEF EndOfDipFound, DabTypeOK, session, place, frequency
<1>8. CASE PhaseSync
  <2>1. PICK index \in Indices \union {NotFound} :
          /\ FindIndex(index)
          /\ IF index = NotFound
             THEN pc' = "level" /\ shift' = 0 /\ UNCHANGED startIndex
             ELSE pc' = "block0" /\ shift' = index - Distance /\ startIndex' = index
    BY <1>8 DEF PhaseSync
  <2>2. index \in Int /\ Distance \in Int
    BY DEF Indices, NotFound, Distance, DabTypeOK
  <2>3. disturbances' \in 0 .. MaxDisturbances
    BY <2>1, DabSyncAssumption DEF FindIndex, DabTypeOK, DabSyncAssumption
  <2>4. pc' \in {"level", "block0"} /\ shift' \in Int /\ startIndex' \in {0} \union Indices
    BY <2>1, <2>2 DEF DabTypeOK
  <2> QED
    <3>1. T_u \in Int
      OBVIOUS
    <3>2. pos' \in 0 .. T_F - 1 /\ slipped' \in BOOLEAN
      BY <1>0, <1>8, <3>1 DEF PhaseSync
    <3> QED
      BY <1>8, <2>3, <2>4, <3>2 DEF PhaseSync, DabTypeOK, session, level, frequency
<1>9. CASE Block_0
  <2>1. startIndex \in Int
    BY DEF DabTypeOK, Indices
  <2>2. pos' \in 0 .. T_F - 1
    BY <1>0, <1>9, <2>1 DEF Block_0
  <2>3. coarseOffset' \in Int
    BY <1>9, CoarseType DEF Block_0
  <2>4. 1 \in 0 .. nrBlocks - 1
    BY DabSyncAssumption DEF DabSyncAssumption
  <2> QED
    BY <1>9, <2>2, <2>3, <2>4 DEF Block_0, DabTypeOK, session, level
<1>10. CASE DataBlock
  <2>1. (ofdmSymbolCount + 1) % nrBlocks \in 0 .. nrBlocks - 1
    BY DEF DabTypeOK
  <2>2. ficSynced' \in BOOLEAN
    BY <1>10 DEF DataBlock, DabTypeOK
  <2>3. pc' \in {"block", "null"}
    BY <1>10 DEF DataBlock
  <2> QED
    BY <1>0, <1>10, <2>1, <2>2, <2>3 DEF DataBlock, DabTypeOK, session, level
<1>11. CASE EndOfFrame
  <2>1. coarseOffset' \in Int /\ fineOffset' \in Int
    BY <1>11, FineType DEF EndOfFrame
  <2> QED
    BY <1>0, <1>11, <2>1 DEF EndOfFrame, DabTypeOK, session, level
<1>12. CASE Settle
  BY <1>12, DabSyncAssumption
  DEF Settle, DabTypeOK, DabSyncAssumption, session, place, frequency
<1>13. CASE Start
  BY <1>13 DEF Start, DabTypeOK, frequency
<1>14. CASE Stop
  <2>1. 0 \in 0 .. T_F - 1 /\ 0 \in 0 .. nrBlocks - 1
    OBVIOUS
  <2>2. pc' = "off" /\ ensemble' \in BOOLEAN /\ offset' \in Offset /\ pos' \in 0 .. T_F - 1
    BY <1>14, <2>1 DEF Stop, DabTypeOK, session
  <2>3. shift' \in Int /\ disturbances' \in 0 .. MaxDisturbances /\ sLevel' \in 1 .. MaxLevel
    BY <1>14 DEF Stop, DabTypeOK
  <2>4. counter' \in Nat /\ startIndex' \in {0} \union Indices /\ ofdmSymbolCount' \in 0 .. nrBlocks - 1
    BY <1>14, <2>1 DEF Stop
  <2>5. slipped' \in BOOLEAN /\ ficSynced' \in BOOLEAN
    BY <1>14 DEF Stop
  <2>6. coarseOffset' \in Int /\ fineOffset' \in Int
    BY <1>14 DEF Stop
  <2> QED
    BY <2>2, <2>3, <2>4, <2>5, <2>6 DEF DabTypeOK
<1>15. ASSUME NEW n \in Int, Moved(n) PROVE pos' \in 0 .. T_F - 1 /\ shift' \in Int
  BY <1>0, <1>15 DEF Moved, DabTypeOK
<1>16. CASE Lose
  <2>1. PICK n \in Lost : Moved(n)
    BY <1>16 DEF Lose
  <2>2. n \in Int
    BY DabSyncAssumption DEF DabSyncAssumption
  <2> QED
    BY <1>15, <1>16, <2>1, <2>2, DabSyncAssumption
    DEF Lose, Moved, DabTypeOK, DabSyncAssumption, session, level, frequency
<1>17. CASE Slip
  <2>1. PICK n \in {-1, 1} : Moved(n)
    BY <1>17 DEF Slip
  <2> QED
    BY <1>15, <1>17, <2>1 DEF Slip, Moved, DabTypeOK, session, level, frequency
<1>18. CASE UNCHANGED dabVars
  BY <1>18 DEF dabVars, session, place, level, frequency, DabTypeOK
<1> QED
  BY <1>1, <1>2, <1>4, <1>5, <1>6, <1>7, <1>8, <1>9, <1>10, <1>11, <1>12, <1>13, <1>14,
     <1>16, <1>17, <1>18
  DEF DabNext, Receiver

\* Every variable keeps its type, for every frame and any disturbances.
THEOREM DabTypeCorrect == DabSpec => []DabTypeOK
BY DabInitType, DabNextType, PTL DEF DabSpec
-----------------------------------------------------------------------------
(* The place in the frame.                                                 *)

\* Samples that are lost move the place and the shift alike.
LEMMA MovedInPlace ==
  ASSUME DabTypeOK, BlocksInPlace, NEW n \in Int, Moved(n)
  PROVE  BlocksInPlace'
<1> USE Lengths
<1>1. pos \in Int /\ shift \in Int /\ startIndex \in Int /\ ofdmSymbolCount \in Int
  BY DEF DabTypeOK, Indices
<1>2. pc' = pc /\ startIndex' = startIndex /\ ofdmSymbolCount' = ofdmSymbolCount
  BY DEF Moved
<1>3. CASE pc = "block0"
  <2>1. pos' = (pos + n) % T_F /\ shift' = shift + n
    BY <1>3 DEF Moved, InFrame, Passed
  <2>2. (((pos + n) % T_F) + startIndex) % T_F = ((pos + startIndex) + n) % T_F
    <3>0. pos + n \in Int
      BY <1>1
    <3>1. (((pos + n) % T_F) + startIndex) % T_F = ((pos + n) + startIndex) % T_F
      BY <1>1, <3>0, FrameOn
    <3> QED BY <1>1, <3>1
  <2> DEFINE a == T_null + T_s + shift
  <2>3. (pos + startIndex) % T_F = a % T_F
    BY <1>3 DEF BlocksInPlace, Passed
  <2>4. a \in Int
    BY <1>1
  <2> HIDE DEF a
  <2>5. ((pos + startIndex) + n) % T_F = (((pos + startIndex) % T_F) + n) % T_F
    <3>1. pos + startIndex \in Int
      BY <1>1
    <3> QED BY <3>1, FrameOn
  <2>6. ((a % T_F) + n) % T_F = (a + n) % T_F
    BY <2>4, FrameOn
  <2>7. a + n = T_null + T_s + (shift + n)
    BY <1>1 DEF a
  <2> QED
    BY <1>2, <1>3, <2>1, <2>2, <2>3, <2>5, <2>6, <2>7 DEF BlocksInPlace, Passed
<1>4. ASSUME NEW b \in Int, pos = (b + shift) % T_F, InFrame
      PROVE  pos' = (b + shift') % T_F
  <2>1. pos' = Passed(n) /\ shift' = shift + n
    BY <1>4 DEF Moved
  <2>2. b + shift \in Int
    BY <1>1
  <2>3. Passed(n) = ((b + shift) + n) % T_F
    <3> DEFINE a == b + shift
    <3> HIDE DEF a
    <3> QED BY <1>4, <2>2, PassedOn DEF a
  <2>4. (b + shift) + n = b + (shift + n)
    BY <1>1
  <2> QED
    BY <2>1, <2>3, <2>4
<1>5. CASE pc = "block"
  <2> DEFINE b == T_null + ofdmSymbolCount * T_s
  <2>1. b \in Int
    BY <1>1
  <2>2. pos = (b + shift) % T_F
    BY <1>5 DEF BlocksInPlace
  <2>3. pos' = (b + shift') % T_F
    <3> HIDE DEF b
    <3> QED BY <1>4, <1>5, <2>1, <2>2 DEF InFrame
  <2> QED
    BY <1>2, <1>5, <2>3 DEF BlocksInPlace
<1>6. CASE pc = "null"
  <2>1. pos = (0 + shift) % T_F
    BY <1>1, <1>6 DEF BlocksInPlace
  <2>2. pos' = (0 + shift') % T_F
    BY <1>4, <1>6, <2>1 DEF InFrame
  <2>3. shift' \in Int
    BY <1>1 DEF Moved
  <2> QED
    BY <1>2, <1>6, <2>2, <2>3 DEF BlocksInPlace
<1>7. CASE pc = "check"
  <2>1. pos = (T_null + shift) % T_F
    BY <1>7 DEF BlocksInPlace
  <2>2. pos' = (T_null + shift') % T_F
    BY <1>4, <1>7, <2>1 DEF InFrame
  <2> QED
    BY <1>2, <1>7, <2>2 DEF BlocksInPlace
<1>8. CASE pc \notin {"block0", "block", "null", "check"}
  BY <1>2, <1>8 DEF BlocksInPlace
<1> QED
  BY <1>3, <1>5, <1>6, <1>7, <1>8

\* An index that is found is the distance to block 0, but for the error in shift.
LEMMA FoundInPlace ==
  ASSUME DabTypeOK, PhaseSync
  PROVE  BlocksInPlace'
<1> USE Lengths
<1>1. pos \in Int
  BY DEF DabTypeOK
<1>2. PICK index \in Indices \union {NotFound} :
          IF index = NotFound
          THEN pc' = "level"
          ELSE pc' = "block0" /\ shift' = index - Distance /\ startIndex' = index
  BY DEF PhaseSync
<1>3. CASE index = NotFound
  BY <1>2, <1>3 DEF BlocksInPlace
<1>4. CASE index # NotFound
  <2>1. index \in Int
    BY DEF Indices, NotFound
  <2>2. pos' = (pos + T_u) % T_F
    BY DEF PhaseSync, Passed
  <2>3. (((pos + T_u) % T_F) + index) % T_F = (pos + (T_u + index)) % T_F
    <3>0. pos + T_u \in Int
      BY <1>1
    <3>1. (((pos + T_u) % T_F) + index) % T_F = ((pos + T_u) + index) % T_F
      BY <1>1, <2>1, <3>0, FrameOn
    <3> QED BY <1>1, <2>1, <3>1
  <2> DEFINE d == (T_null + T_g) - pos
             e == pos + (T_u + index)
  <2>4. d \in Int /\ e \in Int /\ Distance = d % T_F
    BY <1>1, <2>1 DEF Distance
  <2>5. Distance \in Int
    BY <2>4
  <2>6. e = (T_null + T_s + index) - d
    BY <1>1, <2>1 DEF T_s
  <2>7. (e - Distance) + Distance = e
    BY <2>4, <2>5
  <2>8. T_null + T_s + (index - Distance) = (e - Distance) + d
    BY <2>1, <2>4, <2>5, <2>6
  <2>9. ((d % T_F) + (e - Distance)) % T_F = (d + (e - Distance)) % T_F
    <3> HIDE DEF d, e
    <3>1. e - Distance \in Int
      BY <2>4, <2>5
    <3> QED BY <2>4, <3>1, FrameOn
  <2>10. e % T_F = (T_null + T_s + (index - Distance)) % T_F
    <3>1. (d % T_F) + (e - Distance) = e
      BY <2>4, <2>5, <2>7
    <3>2. d + (e - Distance) = T_null + T_s + (index - Distance)
      BY <2>4, <2>5, <2>8
    <3> QED BY <2>9, <3>1, <3>2
  <2> QED
    BY <1>2, <1>4, <2>2, <2>3, <2>10 DEF BlocksInPlace, Passed
<1> QED
  BY <1>3, <1>4

LEMMA NextInPlace ==
  DabTypeOK /\ BlocksInPlace /\ [DabNext]_dabVars => BlocksInPlace'
<1> SUFFICES ASSUME DabTypeOK, BlocksInPlace, [DabNext]_dabVars PROVE BlocksInPlace'
  OBVIOUS
<1> USE Lengths
<1>0. pos \in Int /\ shift \in Int /\ startIndex \in Int /\ ofdmSymbolCount \in 0 .. nrBlocks - 1
  BY DEF DabTypeOK, Indices
<1>1. CASE PhaseSync
  BY <1>1, FoundInPlace
<1>2. CASE Block_0
  <2>1. pos' = (T_null + T_s + shift) % T_F
    BY <1>2 DEF Block_0, BlocksInPlace
  <2>2. pc' = "block" /\ ofdmSymbolCount' = 1 /\ shift' = shift
    BY <1>2 DEF Block_0
  <2> QED
    BY <2>1, <2>2 DEF BlocksInPlace
<1>3. CASE DataBlock
  <2> DEFINE k == ofdmSymbolCount
             a == T_null + k * T_s + shift
  <2>1. a \in Int /\ pos = a % T_F
    BY <1>0, <1>3 DEF DataBlock, BlocksInPlace
  <2>2. pos' = (a + T_s) % T_F /\ shift' = shift
    <3> HIDE DEF a
    <3>1. T_s \in Int
      OBVIOUS
    <3>2. Passed(T_s) = (a + T_s) % T_F
      BY <2>1, <3>1, PassedOn
    <3> QED BY <1>3, <3>2 DEF DataBlock
  <2>3. a + T_s = T_null + (k + 1) * T_s + shift
    BY <1>0
  <2>4. CASE k + 1 < nrBlocks
    <3>1. (k + 1) % nrBlocks = k + 1
      BY <1>0, <2>4
    <3>2. pc' = "block" /\ ofdmSymbolCount' = k + 1
      BY <1>3, <2>4, <3>1 DEF DataBlock
    <3> QED
      BY <2>2, <2>3, <3>2 DEF BlocksInPlace
  <2>5. CASE k + 1 = nrBlocks
    <3>1. pc' = "null"
      BY <1>0, <1>3, <2>5 DEF DataBlock
    <3>2. a + T_s = T_F + shift
      BY <1>0, <2>3, <2>5
    <3>3. ((T_F % T_F) + shift) % T_F = (T_F + shift) % T_F /\ T_F % T_F = 0
      <4>0. T_F \in Int
        OBVIOUS
      <4>1. ((T_F % T_F) + shift) % T_F = (T_F + shift) % T_F
        BY <1>0, <4>0, FrameOn
      <4>2. T_F % T_F = 0
        OBVIOUS
      <4> QED BY <4>1, <4>2
    <3>4. pos' = shift' % T_F
      BY <1>0, <2>2, <3>2, <3>3
    <3> QED
      BY <3>1, <3>4 DEF BlocksInPlace
  <2> QED
    BY <1>0, <2>4, <2>5
<1>4. CASE EndOfFrame
  <2>1. pos = shift % T_F
    BY <1>4 DEF EndOfFrame, BlocksInPlace
  <2>2. Passed(T_null) = (shift + T_null) % T_F
    <3>1. T_null \in Int
      OBVIOUS
    <3> QED BY <1>0, <2>1, <3>1, PassedOn
  <2>3. pc' = "check" /\ pos' = (T_null + shift') % T_F
    BY <1>0, <1>4, <2>2 DEF EndOfFrame
  <2> QED
    BY <2>3 DEF BlocksInPlace
<1>5. CASE Lose
  <2>1. PICK n \in Lost : Moved(n)
    BY <1>5 DEF Lose
  <2>2. n \in Int
    BY DabSyncAssumption DEF DabSyncAssumption
  <2> QED
    BY <2>1, <2>2, MovedInPlace
<1>6. CASE Slip
  BY <1>6, MovedInPlace DEF Slip
<1>7. CASE Settle \/ UNCHANGED dabVars
  BY <1>7 DEF Settle, dabVars, session, place, level, frequency, BlocksInPlace, Passed
<1>8. CASE Start \/ Stop \/ WarmUp \/ FirstLevel \/ DipFound \/ EndOfDipFound
  <2>1. pc' \notin {"block0", "block", "null", "check"}
    BY <1>8 DEF Start, Stop, WarmUp, FirstLevel, DipFound, EndOfDipFound
  <2> QED
    BY <2>1 DEF BlocksInPlace
<1>9. CASE SyncOnNull \/ SyncOnEndNull
  <2>1. pc' \in {"level", "dip", "endOfDip"}
    BY <1>9 DEF SyncOnNull, SyncOnEndNull, Turn
  <2> QED
    BY <2>1 DEF BlocksInPlace
<1> QED
  BY <1>1, <1>2, <1>3, <1>4, <1>5, <1>6, <1>7, <1>8, <1>9 DEF DabNext, Receiver

\* Every block is read where it is on the air, but for what was lost since the
\* index was found and its error: BlocksInPlace of the run, for every frame.
THEOREM DabInPlace == DabSpec => []BlocksInPlace
<1>1. DabInit => BlocksInPlace
  BY DEF DabInit, BlocksInPlace
<1> QED
  BY <1>1, DabTypeCorrect, NextInPlace, PTL DEF DabSpec
==============================================================================
