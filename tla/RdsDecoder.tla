------------------------------ MODULE RdsDecoder -----------------------------
(***************************************************************************)
(* rdsGroupDecoder (fm-system/rds/rds-groupdecoder.cpp) behind the block   *)
(* synchroniser: the name of the station and the radio text, assembled     *)
(* from groups that carry a segment each.                                  *)
(*                                                                         *)
(* A character is what station and message it comes from.  prepareText     *)
(* leaves out the last character, never a whole segment, so what the GUI   *)
(* shows of a text is of the stations and messages of its segments.        *)
(* The flags (DI, music or speech), frequencies, time and TMC change       *)
(* nothing here.                                                           *)
(***************************************************************************)
EXTENDS RdsSync

CONSTANTS
  NoPi,           \* the PI code 0
  NameSegments,   \* NUMBER_OF_NAME_SEGMENTS
  NUM_OF_FRAGMENTS

ASSUME SegmentAssumption == NameSegments \in Nat \ {0} /\ NUM_OF_FRAGMENTS \in Nat \ {0}

\* A segment and a flag are bits of a block: there are no others.
ASSUME GroupAssumption ==
  \A g \in Group : /\ g.flag \in {0, 1}
                   /\ g.kind = "name" => g.segment \in 0 .. NameSegments - 1
                   /\ g.kind = "text" => g.segment \in 0 .. NUM_OF_FRAGMENTS - 1

VARIABLES
  m_piCode,
  stationLabel,
  textABflag,
  textSegmentRegister,   \* the set of the bits that are 1
  textBuffer,
  shownLabel,            \* what the GUI shows: of which stations
  shownText              \* and of which messages there are characters

groupVars == <<m_piCode, stationLabel, textABflag, textSegmentRegister, textBuffer,
               shownLabel, shownText>>

vars == <<syncVars, groupVars>>

NameSegment == 0 .. NameSegments - 1
Fragment == 0 .. NUM_OF_FRAGMENTS - 1

\* A segment is the set of what its characters come from, spaces from nothing.
NoLabel == [s \in NameSegment |-> {}]
NoText  == [s \in Fragment |-> {}]
NoFlag  == -1

\* The characters of segments that prepareText gives the GUI to show.
Shown(text, segments) == UNION {text[s] : s \in segments}

GroupInit ==
  /\ m_piCode = NoPi
  /\ stationLabel = NoLabel
  /\ textABflag = NoFlag
  /\ textSegmentRegister = {}
  /\ textBuffer = NoText
  /\ shownLabel = {}
  /\ shownText = {}

\* The state of the decoder as a record, so that reset and the handler of a group
\* can both be made in one step.
Decoder == [pi |-> m_piCode, label |-> stationLabel, flag |-> textABflag,
            register |-> textSegmentRegister, text |-> textBuffer,
            shownLabel |-> shownLabel, shownText |-> shownText]

\* Mutant: a new station leaves the segments of the text that are there.
resetAllButText(d, pi) ==
  [d EXCEPT !.pi = pi, !.label = NoLabel, !.flag = NoFlag,
            !.shownLabel = {}, !.shownText = {}]

\* reset, and the PI code of the new station.
reset(d, pi) ==
  [pi |-> pi, label |-> NoLabel, flag |-> NoFlag, register |-> {}, text |-> NoText,
   shownLabel |-> {}, shownText |-> {}]

\* Handle_Basic_Tuning_and_Switching.  addtoStationLabel puts twice the number of
\* the segment in its register, not the bit: the register never is full, and
\* decides nothing that is not done anyway.
Handle_Basic_Tuning(d, blockB, blockD) ==
  LET label == [d.label EXCEPT ![blockB.segment] = {blockD.pi}] IN
  [d EXCEPT !.label = label, !.shownLabel = Shown(label, NameSegment)]

Message(g) == [pi |-> g.pi, flag |-> g.flag]

\* A segment is stored, marked and shown; the text is complete with the end of
\* text character or when all segments are in.
StoreFragment(d, blockB, blockC, blockD) ==
  LET text     == [d.text EXCEPT ![blockB.segment] = {Message(blockC), Message(blockD)}]
      register == d.register \union {blockB.segment}
      stored   == [d EXCEPT !.text = text, !.register = register,
                            !.shownText = Shown(text, Fragment)] IN
  IF blockC.end \/ blockD.end \/ register = Fragment
  THEN [stored EXCEPT !.register = {}, !.text = NoText]
  ELSE stored

\* The register says that these many segments came, the first ones, and not all.
FirstFragments(register) ==
  {n \in 1 .. NUM_OF_FRAGMENTS - 1 : register = 0 .. n - 1}

\* Handle_RadioText.  When the A/B flag changes and the old text had no gap, it is
\* shown, and the segment of the new text is not stored, nor the buffer cleared.
Handle_RadioText(d, blockB, blockC, blockD) ==
  LET first  == FirstFragments(d.register)
      shown  == UNION {Shown(d.text, 0 .. n - 1) : n \in first}
      empty  == [d EXCEPT !.flag = blockB.flag, !.register = {}, !.text = NoText,
                          !.shownText = {}] IN
  IF d.flag = blockB.flag THEN StoreFragment(d, blockB, blockC, blockD)
  ELSE IF first # {} THEN [d EXCEPT !.flag = blockB.flag, !.shownText = shown]
  ELSE StoreFragment(empty, blockB, blockC, blockD)

\* decode, of the blocks of a group.
decode(blockA, blockB, blockC, blockD) ==
  LET d == IF blockA.pi = m_piCode THEN Decoder ELSE reset(Decoder, blockA.pi) IN
  IF blockB \in TypeB THEN d
  ELSE CASE blockB.kind = "name"  -> Handle_Basic_Tuning(d, blockB, blockD)
         [] blockB.kind = "text"  -> Handle_RadioText(d, blockB, blockC, blockD)
         [] OTHER -> d

SetDecoder(d) ==
  /\ m_piCode' = d.pi
  /\ stationLabel' = d.label
  /\ textABflag' = d.flag
  /\ textSegmentRegister' = d.register
  /\ textBuffer' = d.text
  /\ shownLabel' = d.shownLabel
  /\ shownText' = d.shownText

\* The group is decoded in the call that completes it.
DecodeGroup ==
  \E blockD \in Group :
    /\ imitations' = imitations => blockD = air'.group
    /\ SetDecoder(decode(rdsGrp[BLOCK_A], rdsGrp[BLOCK_B], rdsGrp[BLOCK_C], blockD))

processBit ==
  /\ Next
  /\ \/ Completes /\ DecodeGroup
     \/ ~Completes /\ UNCHANGED groupVars

RdsInit == Init /\ GroupInit

RdsSpec == RdsInit /\ [][processBit]_vars /\ WF_vars(processBit)

-----------------------------------------------------------------------------
(* The properties.                                                         *)

\* Every variable has its type; rdsGrp is given to decode with every block set.
DecoderTypeOK ==
  LET pi == {g.pi : g \in Group}
      message == {Message(g) : g \in Group} IN
  /\ TypeOK
  /\ m_piCode \in pi \union {NoPi}
  /\ stationLabel \in [NameSegment -> SUBSET pi]
  /\ textABflag \in {NoFlag, 0, 1}
  /\ textSegmentRegister \subseteq Fragment
  /\ textBuffer \in [Fragment -> SUBSET message]
  /\ shownLabel \subseteq pi
  /\ shownText \subseteq message

\* The GUI never shows a name or a text with characters of two stations, or of one
\* that is not the station of the groups received: decode resets all of it when the
\* PI code changes, in the call that gets the first segment of the new station.
OneStation ==
  imitations = 0 => /\ shownLabel \subseteq {m_piCode}
                    /\ \A m \in shownText : m.pi = m_piCode
=============================================================================
