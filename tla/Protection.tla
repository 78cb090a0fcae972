----------------------------- MODULE Protection -----------------------------
(***************************************************************************)
(* The bits between the ofdm decoder and the decoders of FIBs and audio:   *)
(* the FIC blocks (ficHandler), the time de-interleaver of a Backend, and  *)
(* the puncturing of the convolutional code: what FIG 0/1 says of the      *)
(* protection of a subchannel, and what eep_protection and uep_protection  *)
(* make of it.  The Viterbi decoder itself is left out.                    *)
(***************************************************************************)
EXTENDS Integers, Sequences, SequencesExt, Functions
-----------------------------------------------------------------------------
(* FIG 0/1.                                                                *)

CUSize == 64

\* Size in capacity units, level, bit rate.
ProtLevel ==
  << <<16,5,32>>, <<21,4,32>>, <<24,3,32>>, <<29,2,32>>, <<35,1,32>>, <<24,5,48>>, <<29,4,48>>,
     <<35,3,48>>, <<42,2,48>>, <<52,1,48>>, <<29,5,56>>, <<35,4,56>>, <<42,3,56>>, <<52,2,56>>,
     <<32,5,64>>, <<42,4,64>>, <<48,3,64>>, <<58,2,64>>, <<70,1,64>>, <<40,5,80>>, <<52,4,80>>,
     <<58,3,80>>, <<70,2,80>>, <<84,1,80>>, <<48,5,96>>, <<58,4,96>>, <<70,3,96>>, <<84,2,96>>,
     <<104,1,96>>, <<58,5,112>>, <<70,4,112>>, <<84,3,112>>, <<104,2,112>>, <<64,5,128>>, <<84,4,128>>,
     <<96,3,128>>, <<116,2,128>>, <<140,1,128>>, <<80,5,160>>, <<104,4,160>>, <<116,3,160>>, <<140,2,160>>,
     <<168,1,160>>, <<96,5,192>>, <<116,4,192>>, <<140,3,192>>, <<168,2,192>>, <<208,1,192>>, <<116,5,224>>,
     <<140,4,224>>, <<168,3,224>>, <<208,2,224>>, <<232,1,224>>, <<128,5,256>>, <<168,4,256>>, <<192,3,256>>,
     <<232,2,256>>, <<280,1,256>>, <<160,5,320>>, <<208,4,320>>, <<280,2,320>>, <<192,5,384>>, <<280,3,384>>,
     <<416,1,384>> >>

table_1 == <<12, 8, 6, 4>>
table_2 == <<27, 21, 18, 15>>

\* The short form: an index in the table.
ShortForm(index) ==
  LET row == ProtLevel[index + 1] IN
  [shortForm |-> TRUE, Length |-> row[1], protLevel |-> row[2], bitRate |-> row[3]]

\* The long form: option 0 is profile A, option 1 profile B; a level and a size.
LongForm(option, level, size) ==
  [shortForm |-> FALSE, Length |-> size, protLevel |-> level + 4 * option,
   bitRate   |-> IF option = 0 THEN (size \div table_1[level + 1]) * 8
                               ELSE (size \div table_2[level + 1]) * 32]
-----------------------------------------------------------------------------
(* The profiles: blocks of 128 bits, each kind with its puncturing.        *)

\* Bit rate, level, L1 .. L4, PI1 .. PI4.
profileTable ==
  << <<32,5,3,4,17,0,5,3,2,-1>>, <<32,4,3,3,18,0,11,6,5,-1>>, <<32,3,3,4,14,3,15,9,6,8>>,
     <<32,2,3,4,14,3,22,13,8,13>>, <<32,1,3,5,13,3,24,17,12,17>>, <<48,5,4,3,26,3,5,4,2,3>>,
     <<48,4,3,4,26,3,9,6,4,6>>, <<48,3,3,4,26,3,15,10,6,9>>, <<48,2,3,4,26,3,24,14,8,15>>,
     <<48,1,3,5,25,3,24,18,13,18>>, <<56,5,6,10,23,3,5,4,2,3>>, <<56,4,6,10,23,3,9,6,4,5>>,
     <<56,3,6,12,21,3,16,7,6,9>>, <<56,2,6,10,23,3,23,13,8,13>>, <<64,5,6,9,31,2,5,3,2,3>>,
     <<64,4,6,9,33,0,11,6,5,-1>>, <<64,3,6,12,27,3,16,8,6,9>>, <<64,2,6,10,29,3,23,13,8,13>>,
     <<64,1,6,11,28,3,24,18,12,18>>, <<80,5,6,10,41,3,6,3,2,3>>, <<80,4,6,10,41,3,11,6,5,6>>,
     <<80,3,6,11,40,3,16,8,6,7>>, <<80,2,6,10,41,3,23,13,8,13>>, <<80,1,6,10,41,3,24,7,12,18>>,
     <<96,5,7,9,53,3,5,4,2,4>>, <<96,4,7,10,52,3,9,6,4,6>>, <<96,3,6,12,51,3,16,9,6,10>>,
     <<96,2,6,10,53,3,22,12,9,12>>, <<96,1,6,13,50,3,24,18,13,19>>, <<112,5,14,17,50,3,5,4,2,5>>,
     <<112,4,11,21,49,3,9,6,4,8>>, <<112,3,11,23,47,3,16,8,6,9>>, <<112,2,11,21,49,3,23,12,9,14>>,
     <<128,5,12,19,62,3,5,3,2,4>>, <<128,4,11,21,61,3,11,6,5,7>>, <<128,3,11,22,60,3,16,9,6,10>>,
     <<128,2,11,21,61,3,22,12,9,14>>, <<128,1,11,20,62,3,24,17,13,19>>, <<160,5,11,19,87,3,5,4,2,4>>,
     <<160,4,11,23,83,3,11,6,5,9>>, <<160,3,11,24,82,3,16,8,6,11>>, <<160,2,11,21,85,3,22,11,9,13>>,
     <<160,1,11,22,84,3,24,18,12,19>>, <<192,5,11,20,110,3,6,4,2,5>>, <<192,4,11,22,108,3,10,6,4,9>>,
     <<192,3,11,24,106,3,16,10,6,11>>, <<192,2,11,20,110,3,22,13,9,13>>, <<192,1,11,21,109,3,24,20,13,24>>,
     <<224,5,12,22,131,3,8,6,2,6>>, <<224,4,12,26,127,3,12,8,4,11>>, <<224,3,11,20,134,3,16,10,7,9>>,
     <<224,2,11,22,132,3,24,16,10,15>>, <<224,1,11,24,130,3,24,20,12,20>>, <<256,5,11,24,154,3,6,5,2,5>>,
     <<256,4,11,24,154,3,12,9,5,10>>, <<256,3,11,27,151,3,16,10,7,10>>, <<256,2,11,22,156,3,24,14,10,13>>,
     <<256,1,11,26,152,3,24,19,14,18>>, <<320,5,11,26,200,3,8,5,2,6>>, <<320,4,11,25,201,3,13,9,5,10>>,
     <<320,2,11,26,200,3,24,17,9,17>>, <<384,5,11,27,247,3,8,6,2,7>>, <<384,3,11,24,250,3,16,9,7,10>>,
     <<384,1,12,28,245,3,24,20,14,23>> >>

Blocks(L, PI) == [blocks |-> L, PI |-> PI]

\* The second row when there is no row.
findIndex(bitRate, protLevel) ==
  LET found == {i \in DOMAIN profileTable :
                  profileTable[i][1] = bitRate /\ profileTable[i][2] = protLevel} IN
  IF found = {} THEN 2 ELSE CHOOSE i \in found : \A j \in found : i <= j

uep_protection(bitRate, protLevel) ==
  LET row == profileTable[findIndex(bitRate, protLevel)] IN
  [i \in 1 .. 4 |-> Blocks(row[2 + i], row[6 + i])]

eep_protection(bitRate, protLevel) ==
  LET most == ((6 * bitRate) \div 8) - 3
      half == (2 * bitRate) \div 8 IN
  CASE protLevel = 0 -> <<Blocks(most, 24), Blocks(3, 23)>>
    [] protLevel = 1 /\ bitRate = 8 -> <<Blocks(5, 13), Blocks(1, 12)>>
    [] protLevel = 1 /\ bitRate # 8 -> <<Blocks(half - 3, 14), Blocks(2 * half + 3, 13)>>
    [] protLevel = 2 -> <<Blocks(most, 8), Blocks(3, 7)>>
    [] protLevel = 3 -> <<Blocks(2 * half - 3, 3), Blocks(half + 3, 2)>>
    [] protLevel = 4 -> <<Blocks(most, 10), Blocks(3, 9)>>
    [] protLevel = 5 -> <<Blocks(most, 6), Blocks(3, 5)>>
    [] protLevel = 6 -> <<Blocks(most, 4), Blocks(3, 3)>>
    [] protLevel = 7 -> <<Blocks(most, 2), Blocks(3, 1)>>

\* Row PI of P_Codes has 8 + PI ones of 32; the first 24 bits of row 8 have 12.
OnesOf(PI) == 8 + PI
TailBits   == 24
TailOnes   == 12

Total(numbers) == FoldLeft(LAMBDA n, x : n + x, 0, numbers)

\* indexTable: how long it is, how much of it the profile writes, how many of these
\* are true, each of which takes a bit of the fragment.
Deconvolver(d) ==
  LET profile == IF d.shortForm THEN uep_protection(d.bitRate, d.protLevel)
                                ELSE eep_protection(d.bitRate, d.protLevel)
      blocks(b) == IF b.blocks > 0 THEN b.blocks ELSE 0 IN
  [size    |-> 4 * 24 * d.bitRate + TailBits,
   written |-> Total([i \in DOMAIN profile |-> 128 * blocks(profile[i])]) + TailBits,
   taken   |-> Total([i \in DOMAIN profile |-> 4 * OnesOf(profile[i].PI) * blocks(profile[i])])
                 + TailOnes]

\* The FIC: 2304 bits in for 768 out.
FicDeconvolver ==
  [size |-> 3072 + TailBits, written |-> 128 * (21 + 3) + TailBits,
   taken |-> 4 * (21 * OnesOf(16) + 3 * OnesOf(15)) + TailOnes]
-----------------------------------------------------------------------------
(* ficHandler: three blocks of 3072 bits make four FICs of 2304; here a    *)
(* block is four units, and a FIC three.                                   *)

UnitsOfBlock == 4
UnitsOfFic   == 3

ficHandler == [index |-> 0, ficno |-> 0, ofdm_input |-> [i \in 0 .. UnitsOfFic - 1 |-> <<>>],
               fics |-> <<>>]

\* One unit; a full FIC is processed, with its number.
FicUnit(h, unit) ==
  LET input == [h.ofdm_input EXCEPT ![h.index] = unit] IN
  IF h.index + 1 < UnitsOfFic THEN [h EXCEPT !.index = @ + 1, !.ofdm_input = input]
  ELSE [index |-> 0, ficno |-> h.ficno + 1, ofdm_input |-> input,
        fics |-> Append(h.fics, [ficno |-> h.ficno, units |-> input])]

\* Mutant: the first block does not start anew.
process_ficBlockOn(h, data, blkno) ==
  FoldLeft(FicUnit, [h EXCEPT !.fics = <<>>, !.ficno = IF blkno = 1 THEN 0 ELSE @], data)

process_ficBlock(h, data, blkno) ==
  LET start == IF blkno = 1 THEN [h EXCEPT !.index = 0, !.ficno = 0, !.fics = <<>>]
                            ELSE [h EXCEPT !.fics = <<>>] IN
  FoldLeft(FicUnit, start, data)
-----------------------------------------------------------------------------
(* Backend::processSegment: the bits of a fragment, sixteen classes.       *)

interleaveMap == <<0, 8, 4, 12, 2, 10, 6, 14, 1, 9, 5, 13, 3, 11, 7, 15>>

Class == 0 .. 15

NewBackend == [interleaveData |-> [s \in Class |-> [c \in Class |-> -1]],
               interleaverIndex |-> 0, countforInterleaver |-> 0, tempX |-> <<>>]

\* What is deconvolved; nothing until the de-interleaver is filled.
processSegment(b, Data) ==
  LET i    == b.interleaverIndex
      temp == [c \in Class |-> b.interleaveData[(i + interleaveMap[c + 1]) % 16][c]] IN
  [interleaveData      |-> [b.interleaveData EXCEPT ![i] = Data],
   interleaverIndex    |-> (i + 1) % 16,
   countforInterleaver |-> IF b.countforInterleaver <= 15 THEN b.countforInterleaver + 1
                           ELSE b.countforInterleaver,
   tempX               |-> IF b.countforInterleaver <= 15 THEN <<>> ELSE temp]
=============================================================================
