------------------------------ MODULE PadProofs ------------------------------
(***************************************************************************)
(* Proofs about Backends, for every set of objects and labels, and any     *)
(* number of losses: the slides and the labels in the PAD; and what        *)
(* follows for all lines together.                                         *)
(***************************************************************************)
EXTENDS BackendsProofs, ShortLabels

-----------------------------------------------------------------------------
(* PAD: the data group that padHandler puts together, and what is on its way. *)

\* A unit of a data group, as it goes on the air.
GroupUnit == [group : PadGroup, n : Nat, index : 0 .. 2 * MaxLosses - 1]

Character == [label : Label \union ShortLabel \union {None}, segment : Nat, n : Nat]

PadMembers ==
  [dynamicLabelText : Seq(Character), currentSlide : MotObject \union {None},
   mscGroupElement : BOOLEAN, xpadLength : Int, dataGroupLength : Nat,
   msc_dataGroupBuffer : Seq(GroupUnit), still_to_go : Int, lastSegment : BOOLEAN,
   firstSegment : BOOLEAN, shortpadData : Seq(Character)]

PadStatics == [remainDataLength : Int, isLastSegment : BOOLEAN, moreXPad : BOOLEAN]

PadWork ==
  [pad : PadMembers, static : PadStatics, shown : Seq(Seq(Character)), handed : Seq(WholeObject)]

\* The first k units of a group.
Begun(g, i, k) == [n \in 1 .. k |-> Unit(g, n, i)]

\* Units that no data group is made of.
Mixed(buffer) ==
  \E p \in DOMAIN buffer : buffer[p] # Unit(buffer[1].group, p, buffer[1].index)

\* On the air a is further than the buffer, by d groups, of which h may have been lost;
\* or within the group, by a unit at least.  What comes next is none of the group in the
\* buffer.
Behind(buffer, i, a, h) ==
  \/ a.group # None /\ a.index = i /\ a.unit > Len(buffer) + 1 /\ h >= 1
  \/ \E d \in 1 .. h : /\ a.index = (i + d) % (2 * MaxLosses)
                       /\ a.group # None => d < h

\* The buffer is a mixture, or the begin of a group that goes on or is behind.
BufferOK(p, a, e, h) ==
  p.msc_dataGroupBuffer # <<>> =>
    \E g \in PadGroup, i \in 0 .. 2 * MaxLosses - 1 :
      /\ p.msc_dataGroupBuffer[1] = Unit(g, 1, i)
      /\ p.dataGroupLength = GroupUnits[g]
      /\ \/ Mixed(p.msc_dataGroupBuffer)
         \/ /\ p.msc_dataGroupBuffer = Begun(g, i, Len(p.msc_dataGroupBuffer))
            /\ \/ /\ e /\ a.group = g /\ a.index = i /\ a.unit = Len(p.msc_dataGroupBuffer) + 1
               \/ ~(e /\ a.group # None) /\ Behind(p.msc_dataGroupBuffer, i, a, h)

\* When all of a group came so far, it is what there is in the buffer.
EntireOK(p, a, e) ==
  e /\ a.group # None =>
    /\ p.mscGroupElement
    /\ p.dataGroupLength = GroupUnits[a.group]
    /\ p.msc_dataGroupBuffer = Begun(a.group, a.index, a.unit - 1)

ElementOK(p) ==
  /\ p.msc_dataGroupBuffer # <<>> => p.mscGroupElement
  /\ p.mscGroupElement => Len(p.msc_dataGroupBuffer) < p.dataGroupLength

\* Where the broadcaster of groups is.
OnAir(a) ==
  /\ a.index \in 0 .. 2 * MaxLosses - 1
  /\ a.group # None => a.group \in PadGroup /\ a.unit \in 2 .. GroupUnits[a.group]
  /\ a.group = None => a.unit = 1

GroupsOK(p, a, e, h) == ElementOK(p) /\ OnAir(a) /\ BufferOK(p, a, e, h) /\ EntireOK(p, a, e)

\* A PAD without CI is of the size that was noted.
SizeOK(p, a, e) ==
  a.size # 0 => a.size \in 1 .. 4 /\ a.group # None /\ (e => p.xpadLength = a.size)

SlideOK(slide, s) ==
  IF s = None THEN slide = None
  ELSE slide # None /\ slide.transportId = s.id /\ slide.motMap = s.got

\* A label is at one of its characters.
LabelOK(a, labels) ==
  /\ a.label # None => a.label \in labels /\ a.segment \in Segment(a.label)
  /\ a.segment \in Nat /\ a.n \in Nat

Slides == [id : Object, got : SUBSET Pieces(Object)]

-----------------------------------------------------------------------------
LEMMA PadWorkFields ==
  ASSUME NEW w \in PadWork
  PROVE  /\ w.pad \in PadMembers /\ w.static \in PadStatics
         /\ w.shown \in Seq(Seq(Character)) /\ w.handed \in Seq(WholeObject)
BY DEF PadWork

LEMMA PadMemberFields ==
  ASSUME NEW p \in PadMembers
  PROVE  /\ p.dynamicLabelText \in Seq(Character) /\ p.currentSlide \in MotObject \union {None}
         /\ p.mscGroupElement \in BOOLEAN /\ p.xpadLength \in Int /\ p.dataGroupLength \in Nat
         /\ p.msc_dataGroupBuffer \in Seq(GroupUnit)
BY DEF PadMembers

LEMMA PadReplaced ==
  ASSUME NEW w \in PadWork, NEW p \in PadMembers
  PROVE  /\ [w EXCEPT !.pad = p] \in PadWork
         /\ [w EXCEPT !.pad = p].pad = p /\ [w EXCEPT !.pad = p].static = w.static
         /\ [w EXCEPT !.pad = p].shown = w.shown /\ [w EXCEPT !.pad = p].handed = w.handed
BY DEF PadWork

LEMMA StaticReplaced ==
  ASSUME NEW w \in PadWork, NEW s \in PadStatics
  PROVE  /\ [w EXCEPT !.static = s] \in PadWork
         /\ [w EXCEPT !.static = s].static = s /\ [w EXCEPT !.static = s].pad = w.pad
         /\ [w EXCEPT !.static = s].shown = w.shown /\ [w EXCEPT !.static = s].handed = w.handed
BY DEF PadWork

LEMMA ShownReplaced ==
  ASSUME NEW w \in PadWork, NEW s \in Seq(Seq(Character))
  PROVE  /\ [w EXCEPT !.shown = s] \in PadWork
         /\ [w EXCEPT !.shown = s].static = w.static /\ [w EXCEPT !.shown = s].pad = w.pad
         /\ [w EXCEPT !.shown = s].shown = s /\ [w EXCEPT !.shown = s].handed = w.handed
BY DEF PadWork

LEMMA HandedReplaced ==
  ASSUME NEW w \in PadWork, NEW s \in Seq(WholeObject)
  PROVE  /\ [w EXCEPT !.handed = s] \in PadWork
         /\ [w EXCEPT !.handed = s].static = w.static /\ [w EXCEPT !.handed = s].pad = w.pad
         /\ [w EXCEPT !.handed = s].shown = w.shown /\ [w EXCEPT !.handed = s].handed = s
BY DEF PadWork

\* What there is of data groups is the same.
SameGroup(u, w) ==
  /\ u.pad.currentSlide = w.pad.currentSlide /\ u.pad.mscGroupElement = w.pad.mscGroupElement
  /\ u.pad.xpadLength = w.pad.xpadLength /\ u.pad.dataGroupLength = w.pad.dataGroupLength
  /\ u.pad.msc_dataGroupBuffer = w.pad.msc_dataGroupBuffer /\ u.handed = w.handed

LEMMA TextReplaced ==
  ASSUME NEW w \in PadWork, NEW t \in Seq(Character)
  PROVE  /\ [w EXCEPT !.pad.dynamicLabelText = t] \in PadWork
         /\ SameGroup([w EXCEPT !.pad.dynamicLabelText = t], w)
         /\ [w EXCEPT !.pad.dynamicLabelText = t].static = w.static
         /\ [w EXCEPT !.pad.dynamicLabelText = t].shown = w.shown
         /\ [w EXCEPT !.pad.dynamicLabelText = t].pad.dynamicLabelText = t
<1> DEFINE p == [w.pad EXCEPT !.dynamicLabelText = t]
<1>1. [w EXCEPT !.pad.dynamicLabelText = t] = [w EXCEPT !.pad = p]
  OBVIOUS
<1>2. w.pad \in PadMembers
  BY PadWorkFields
<1>3. /\ p \in PadMembers /\ p.dynamicLabelText = t
      /\ p.currentSlide = w.pad.currentSlide /\ p.mscGroupElement = w.pad.mscGroupElement
      /\ p.xpadLength = w.pad.xpadLength /\ p.dataGroupLength = w.pad.dataGroupLength
      /\ p.msc_dataGroupBuffer = w.pad.msc_dataGroupBuffer
  BY <1>2 DEF PadMembers
<1> HIDE DEF p
<1> QED BY <1>1, <1>3, PadReplaced DEF SameGroup

LEMMA StaticsSet ==
  ASSUME NEW w \in PadWork, NEW a \in BOOLEAN, NEW b \in Int, NEW c \in BOOLEAN
  PROVE  /\ [w EXCEPT !.static.moreXPad = a, !.static.remainDataLength = b,
                      !.static.isLastSegment = c] \in PadWork
         /\ SameGroup([w EXCEPT !.static.moreXPad = a, !.static.remainDataLength = b,
                      !.static.isLastSegment = c], w)
<1> DEFINE s1 == [w.static EXCEPT !.moreXPad = a]
           s2 == [s1 EXCEPT !.remainDataLength = b]
           s3 == [s2 EXCEPT !.isLastSegment = c]
           w1 == [w EXCEPT !.static = s1]
           w2 == [w1 EXCEPT !.static = s2]
           w3 == [w2 EXCEPT !.static = s3]
           u == [w EXCEPT !.static.moreXPad = a, !.static.remainDataLength = b,
                      !.static.isLastSegment = c]
<1>1. s1 \in PadStatics
  BY PadWorkFields DEF PadStatics
<1> HIDE DEF s1
<1>2. s2 \in PadStatics
  BY <1>1 DEF PadStatics
<1> HIDE DEF s2
<1>3. s3 \in PadStatics
  BY <1>2 DEF PadStatics
<1> HIDE DEF s3
<1>4. w1 \in PadWork /\ w1.static = s1 /\ w1.pad = w.pad /\ w1.handed = w.handed
  BY <1>1, StaticReplaced
<1> HIDE DEF w1
<1>5. w2 \in PadWork /\ w2.static = s2 /\ w2.pad = w.pad /\ w2.handed = w.handed
  BY <1>2, <1>4, StaticReplaced
<1> HIDE DEF w2
<1>6. w3 \in PadWork /\ w3.pad = w.pad /\ w3.handed = w.handed
  BY <1>3, <1>5, StaticReplaced
<1>7. u = [[[w EXCEPT !.static.moreXPad = a] EXCEPT !.static.remainDataLength = b]
             EXCEPT !.static.isLastSegment = c]
  OBVIOUS
<1>8. [w EXCEPT !.static.moreXPad = a] = w1
  BY DEF w1, s1
<1>9. [w1 EXCEPT !.static.remainDataLength = b] = w2
  BY <1>4 DEF w2, s2
<1>10. [w2 EXCEPT !.static.isLastSegment = c] = w3
  BY <1>5 DEF s3
<1>11. u = w3
  <2> HIDE DEF w3, u
  <2> QED BY <1>7, <1>8, <1>9, <1>10
<1> HIDE DEF u, w3
<1>12. u \in PadWork /\ SameGroup(u, w)
  BY <1>6, <1>11 DEF SameGroup
<1> QED BY <1>12 DEF u

\* Labels: what a subfield of one leaves alone.
LEMMA ClearOK == ASSUME NEW w \in PadWork PROVE Clear(w) \in PadWork /\ SameGroup(Clear(w), w)
<1>1. <<>> \in Seq(Character)
  OBVIOUS
<1> QED BY <1>1, TextReplaced DEF Clear

LEMMA Append1OK ==
  ASSUME NEW w \in PadWork, NEW chars \in Seq(Character)
  PROVE  /\ Append1(w, chars) \in PadWork /\ SameGroup(Append1(w, chars), w)
         /\ Append1(w, chars).static = w.static
<1> DEFINE t == w.pad.dynamicLabelText \o chars
<1>1. t \in Seq(Character)
  BY PadWorkFields, PadMemberFields
<1>2. Append1(w, chars) = [w EXCEPT !.pad.dynamicLabelText = t]
  BY DEF Append1
<1> HIDE DEF t
<1>3. /\ [w EXCEPT !.pad.dynamicLabelText = t] \in PadWork
      /\ SameGroup([w EXCEPT !.pad.dynamicLabelText = t], w)
      /\ [w EXCEPT !.pad.dynamicLabelText = t].static = w.static
  BY <1>1, TextReplaced
<1> QED BY <1>2, <1>3

LEMMA ShowOK == ASSUME NEW w \in PadWork PROVE Show(w) \in PadWork /\ SameGroup(Show(w), w)
<1> DEFINE s == Append(w.shown, w.pad.dynamicLabelText)
<1>1. s \in Seq(Seq(Character))
  BY PadWorkFields, PadMemberFields
<1>2. Show(w) = [w EXCEPT !.shown = s]
  BY DEF Show
<1> HIDE DEF s
<1> QED BY <1>1, <1>2, ShownReplaced DEF SameGroup

LEMMA SameAgain ==
  ASSUME NEW u, NEW v, NEW w, SameGroup(u, v), SameGroup(v, w) PROVE SameGroup(u, w)
BY DEF SameGroup

LEMMA SegmentLength ==
  ASSUME NEW l \in Label \union ShortLabel, NEW s \in Segment(l)
  PROVE  Characters[l][s] \in Nat \ {0} /\ s \in Nat \ {0} /\ Len(Characters[l]) \in Nat
           /\ s <= Len(Characters[l])
<1>1. Characters[l] \in Seq(Nat \ {0})
  BY PadAssumption DEF PadAssumption
<1> QED BY <1>1 DEF Segment

LEMMA SegmentStartOK ==
  ASSUME NEW w \in PadWork, NEW f, f.label \in Label, f.segment \in Segment(f.label)
  PROVE  SegmentStart(w, f) \in PadWork /\ SameGroup(SegmentStart(w, f), w)
<1> DEFINE total == Characters[f.label][f.segment]
           begin == StartOfLabel(w, f)
           char  == <<Char(f.label, f.segment, 1)>>
           text  == Append1(begin, char)
           more  == total > 1
           last  == IF ~IsLast(f) THEN FALSE ELSE IF more THEN TRUE ELSE text.static.isLastSegment
           rest  == total - 1
           new   == [text EXCEPT !.static.moreXPad = more, !.static.remainDataLength = rest,
                                 !.static.isLastSegment = last]
<1>1. total \in Nat /\ f.segment \in Nat
  BY SegmentLength
<1>2. begin \in PadWork /\ SameGroup(begin, w)
  BY ClearOK DEF StartOfLabel, SameGroup
<1>3. char \in Seq(Character)
  <2>1. Char(f.label, f.segment, 1) \in Character
    BY <1>1 DEF Char, Character
  <2> QED BY <2>1
<1> HIDE DEF begin, char
<1>4. text \in PadWork /\ SameGroup(text, begin)
  BY <1>2, <1>3, Append1OK
<1>5. more \in BOOLEAN /\ rest \in Int
  BY <1>1
<1>6. last \in BOOLEAN
  <2>1. text.static.isLastSegment \in BOOLEAN
    BY <1>4, PadWorkFields DEF PadStatics
  <2> HIDE DEF text, more
  <2> QED BY <2>1
<1>7. SegmentStart(w, f) = IF IsLast(f) /\ ~more THEN Show(new) ELSE new
  BY DEF SegmentStart, begin, char
<1> HIDE DEF text, more, rest, last
<1>8. new \in PadWork /\ SameGroup(new, text)
  BY <1>4, <1>5, <1>6, StaticsSet
<1> HIDE DEF new
<1>9. Show(new) \in PadWork /\ SameGroup(Show(new), new)
  BY <1>8, ShowOK
<1>10. SameGroup(new, w)
  BY <1>2, <1>4, <1>8, SameAgain
<1>11. SameGroup(Show(new), w)
  BY <1>9, <1>10, SameAgain
<1> QED BY <1>7, <1>8, <1>9, <1>10, <1>11

LEMMA SegmentMoreOK ==
  ASSUME NEW w \in PadWork, NEW f, f.label \in Label \union {None}, f.segment \in Nat, f.n \in Nat
  PROVE  SegmentMore(w, f) \in PadWork /\ SameGroup(SegmentMore(w, f), w)
<1> DEFINE char == <<Char(f.label, f.segment, f.n)>>
           text == Append1(w, char)
           more == w.static.remainDataLength > 1
           rest == IF more THEN text.static.remainDataLength - 1 ELSE text.static.remainDataLength
           last == text.static.isLastSegment
           new  == [text EXCEPT !.static.moreXPad = more, !.static.remainDataLength = rest]
<1>1. char \in Seq(Character)
  <2>1. Char(f.label, f.segment, f.n) \in Character
    BY DEF Char, Character
  <2> QED BY <2>1
<1> HIDE DEF char
<1>2. text \in PadWork /\ SameGroup(text, w)
  BY <1>1, Append1OK
<1>3. SegmentMore(w, f) = IF ~w.static.moreXPad THEN w
                          ELSE IF ~more /\ w.static.isLastSegment THEN Show(new) ELSE new
  BY DEF SegmentMore, char
<1>4. more \in BOOLEAN
  OBVIOUS
<1> HIDE DEF text, more
<1>5. rest \in Int /\ last \in BOOLEAN
  <2>1. text.static \in PadStatics
    BY <1>2, PadWorkFields
  <2> QED BY <2>1 DEF PadStatics
<1>6. new \in PadWork /\ SameGroup(new, text)
  <2> DEFINE s1 == [text.static EXCEPT !.moreXPad = more]
             s2 == [s1 EXCEPT !.remainDataLength = rest]
             w1 == [text EXCEPT !.static = s1]
             w2 == [w1 EXCEPT !.static = s2]
  <2> HIDE DEF rest, last
  <2>1. s1 \in PadStatics
    BY <1>2, <1>4, PadWorkFields DEF PadStatics
  <2> HIDE DEF s1
  <2>2. s2 \in PadStatics
    BY <1>5, <2>1 DEF PadStatics
  <2>3. w1 \in PadWork /\ w1.static = s1 /\ w1.pad = text.pad /\ w1.handed = text.handed
    BY <1>2, <2>1, StaticReplaced
  <2>4. w1 = [text EXCEPT !.static.moreXPad = more]
    BY DEF s1
  <2> HIDE DEF w1
  <2>5. w2 = [w1 EXCEPT !.static.remainDataLength = rest]
    BY <2>3
  <2> HIDE DEF s2
  <2>6. w2 \in PadWork /\ w2.pad = text.pad /\ w2.handed = text.handed
    BY <2>2, <2>3, StaticReplaced
  <2>7. new = [[text EXCEPT !.static.moreXPad = more] EXCEPT !.static.remainDataLength = rest]
    OBVIOUS
  <2> HIDE DEF new, w2
  <2> QED BY <2>4, <2>5, <2>6, <2>7 DEF SameGroup
<1> HIDE DEF new
<1>7. Show(new) \in PadWork /\ SameGroup(Show(new), new)
  BY <1>6, ShowOK
<1>8. SameGroup(new, w)
  BY <1>2, <1>6, SameAgain
<1>9. SameGroup(Show(new), w)
  BY <1>7, <1>8, SameAgain
<1>10. SameGroup(w, w)
  BY DEF SameGroup
<1> QED BY <1>3, <1>6, <1>7, <1>8, <1>9, <1>10

-----------------------------------------------------------------------------
\* Data groups: one member of padHandler is replaced, or two.
LEMMA LengthSet ==
  ASSUME NEW w \in PadWork, NEW n \in Nat
  PROVE  LET u == [w EXCEPT !.pad.dataGroupLength = n] IN
         /\ u \in PadWork /\ u.pad.dataGroupLength = n /\ u.handed = w.handed
         /\ u.pad.currentSlide = w.pad.currentSlide /\ u.pad.mscGroupElement = w.pad.mscGroupElement
         /\ u.pad.xpadLength = w.pad.xpadLength
         /\ u.pad.msc_dataGroupBuffer = w.pad.msc_dataGroupBuffer
<1> DEFINE p == [w.pad EXCEPT !.dataGroupLength = n]
<1>1. [w EXCEPT !.pad.dataGroupLength = n] = [w EXCEPT !.pad = p]
  OBVIOUS
<1>2. w.pad \in PadMembers
  BY PadWorkFields
<1>3. /\ p \in PadMembers /\ p.dataGroupLength = n
      /\ p.currentSlide = w.pad.currentSlide /\ p.mscGroupElement = w.pad.mscGroupElement
      /\ p.xpadLength = w.pad.xpadLength
      /\ p.msc_dataGroupBuffer = w.pad.msc_dataGroupBuffer
  BY <1>2 DEF PadMembers
<1> HIDE DEF p
<1> QED BY <1>1, <1>3, PadReplaced

LEMMA SizeSet ==
  ASSUME NEW w \in PadWork, NEW n \in Int
  PROVE  LET u == [w EXCEPT !.pad.xpadLength = n] IN
         /\ u \in PadWork /\ u.pad.xpadLength = n /\ u.handed = w.handed
         /\ u.pad.currentSlide = w.pad.currentSlide /\ u.pad.mscGroupElement = w.pad.mscGroupElement
         /\ u.pad.dataGroupLength = w.pad.dataGroupLength
         /\ u.pad.msc_dataGroupBuffer = w.pad.msc_dataGroupBuffer
<1> DEFINE p == [w.pad EXCEPT !.xpadLength = n]
<1>1. [w EXCEPT !.pad.xpadLength = n] = [w EXCEPT !.pad = p]
  OBVIOUS
<1>2. w.pad \in PadMembers
  BY PadWorkFields
<1>3. /\ p \in PadMembers /\ p.xpadLength = n
      /\ p.currentSlide = w.pad.currentSlide /\ p.mscGroupElement = w.pad.mscGroupElement
      /\ p.dataGroupLength = w.pad.dataGroupLength
      /\ p.msc_dataGroupBuffer = w.pad.msc_dataGroupBuffer
  BY <1>2 DEF PadMembers
<1> HIDE DEF p
<1> QED BY <1>1, <1>3, PadReplaced

LEMMA BufferSet ==
  ASSUME NEW w \in PadWork, NEW b \in Seq(GroupUnit)
  PROVE  LET u == [w EXCEPT !.pad.msc_dataGroupBuffer = b] IN
         /\ u \in PadWork /\ u.pad.msc_dataGroupBuffer = b /\ u.handed = w.handed
         /\ u.pad.currentSlide = w.pad.currentSlide /\ u.pad.mscGroupElement = w.pad.mscGroupElement
         /\ u.pad.xpadLength = w.pad.xpadLength /\ u.pad.dataGroupLength = w.pad.dataGroupLength
<1> DEFINE p == [w.pad EXCEPT !.msc_dataGroupBuffer = b]
<1>1. [w EXCEPT !.pad.msc_dataGroupBuffer = b] = [w EXCEPT !.pad = p]
  OBVIOUS
<1>2. w.pad \in PadMembers
  BY PadWorkFields
<1>3. /\ p \in PadMembers /\ p.msc_dataGroupBuffer = b
      /\ p.currentSlide = w.pad.currentSlide /\ p.mscGroupElement = w.pad.mscGroupElement
      /\ p.xpadLength = w.pad.xpadLength /\ p.dataGroupLength = w.pad.dataGroupLength
  BY <1>2 DEF PadMembers
<1> HIDE DEF p
<1> QED BY <1>1, <1>3, PadReplaced

LEMMA ElementOn ==
  ASSUME NEW w \in PadWork, NEW b \in Seq(GroupUnit)
  PROVE  LET u == [w EXCEPT !.pad.msc_dataGroupBuffer = b, !.pad.mscGroupElement = TRUE] IN
         /\ u \in PadWork /\ u.pad.msc_dataGroupBuffer = b /\ u.pad.mscGroupElement
         /\ u.handed = w.handed /\ u.pad.currentSlide = w.pad.currentSlide
         /\ u.pad.xpadLength = w.pad.xpadLength /\ u.pad.dataGroupLength = w.pad.dataGroupLength
<1> DEFINE v == [w EXCEPT !.pad.msc_dataGroupBuffer = b]
           p == [v.pad EXCEPT !.mscGroupElement = TRUE]
           u == [v EXCEPT !.pad = p]
<1>1. /\ v \in PadWork /\ v.pad.msc_dataGroupBuffer = b /\ v.handed = w.handed
      /\ v.pad.currentSlide = w.pad.currentSlide
      /\ v.pad.xpadLength = w.pad.xpadLength /\ v.pad.dataGroupLength = w.pad.dataGroupLength
  BY BufferSet
<1>2. [w EXCEPT !.pad.msc_dataGroupBuffer = b, !.pad.mscGroupElement = TRUE]
        = [v EXCEPT !.pad.mscGroupElement = TRUE]
  OBVIOUS
<1> HIDE DEF v
<1>3. v.pad \in PadMembers
  BY <1>1, PadWorkFields
<1>4. /\ p \in PadMembers /\ p.mscGroupElement /\ p.msc_dataGroupBuffer = v.pad.msc_dataGroupBuffer
      /\ p.currentSlide = v.pad.currentSlide
      /\ p.xpadLength = v.pad.xpadLength /\ p.dataGroupLength = v.pad.dataGroupLength
  BY <1>3 DEF PadMembers
<1>5. [v EXCEPT !.pad.mscGroupElement = TRUE] = u
  OBVIOUS
<1> HIDE DEF p
<1>6. u \in PadWork /\ u.pad = p /\ u.handed = v.handed
  BY <1>1, <1>4, PadReplaced
<1> HIDE DEF u
<1> QED BY <1>1, <1>2, <1>4, <1>5, <1>6

LEMMA ElementOff ==
  ASSUME NEW w \in PadWork, NEW b \in Seq(GroupUnit)
  PROVE  LET u == [w EXCEPT !.pad.msc_dataGroupBuffer = b, !.pad.mscGroupElement = FALSE] IN
         /\ u \in PadWork /\ u.pad.msc_dataGroupBuffer = b /\ ~u.pad.mscGroupElement
         /\ u.handed = w.handed /\ u.pad.currentSlide = w.pad.currentSlide
         /\ u.pad.xpadLength = w.pad.xpadLength /\ u.pad.dataGroupLength = w.pad.dataGroupLength
<1> DEFINE v == [w EXCEPT !.pad.msc_dataGroupBuffer = b]
           p == [v.pad EXCEPT !.mscGroupElement = FALSE]
           u == [v EXCEPT !.pad = p]
<1>1. /\ v \in PadWork /\ v.pad.msc_dataGroupBuffer = b /\ v.handed = w.handed
      /\ v.pad.currentSlide = w.pad.currentSlide
      /\ v.pad.xpadLength = w.pad.xpadLength /\ v.pad.dataGroupLength = w.pad.dataGroupLength
  BY BufferSet
<1>2. [w EXCEPT !.pad.msc_dataGroupBuffer = b, !.pad.mscGroupElement = FALSE]
        = [v EXCEPT !.pad.mscGroupElement = FALSE]
  OBVIOUS
<1> HIDE DEF v
<1>3. v.pad \in PadMembers
  BY <1>1, PadWorkFields
<1>4. /\ p \in PadMembers /\ ~p.mscGroupElement /\ p.msc_dataGroupBuffer = v.pad.msc_dataGroupBuffer
      /\ p.currentSlide = v.pad.currentSlide
      /\ p.xpadLength = v.pad.xpadLength /\ p.dataGroupLength = v.pad.dataGroupLength
  BY <1>3 DEF PadMembers
<1>5. [v EXCEPT !.pad.mscGroupElement = FALSE] = u
  OBVIOUS
<1> HIDE DEF p
<1>6. u \in PadWork /\ u.pad = p /\ u.handed = v.handed
  BY <1>1, <1>4, PadReplaced
<1> HIDE DEF u
<1> QED BY <1>1, <1>2, <1>4, <1>5, <1>6

LEMMA SlideSet ==
  ASSUME NEW w \in PadWork, NEW o \in MotObject \union {None}
  PROVE  LET u == [w EXCEPT !.pad.currentSlide = o] IN
         /\ u \in PadWork /\ u.pad.currentSlide = o /\ u.handed = w.handed
         /\ u.pad.mscGroupElement = w.pad.mscGroupElement
         /\ u.pad.xpadLength = w.pad.xpadLength /\ u.pad.dataGroupLength = w.pad.dataGroupLength
         /\ u.pad.msc_dataGroupBuffer = w.pad.msc_dataGroupBuffer
<1> DEFINE p == [w.pad EXCEPT !.currentSlide = o]
<1>1. [w EXCEPT !.pad.currentSlide = o] = [w EXCEPT !.pad = p]
  OBVIOUS
<1>2. w.pad \in PadMembers
  BY PadWorkFields
<1>3. /\ p \in PadMembers /\ p.currentSlide = o
      /\ p.msc_dataGroupBuffer = w.pad.msc_dataGroupBuffer /\ p.mscGroupElement = w.pad.mscGroupElement
      /\ p.xpadLength = w.pad.xpadLength /\ p.dataGroupLength = w.pad.dataGroupLength
  BY <1>2 DEF PadMembers
<1> HIDE DEF p
<1> QED BY <1>1, <1>3, PadReplaced

-----------------------------------------------------------------------------
(* The slide.                                                              *)

LEMMA NoneIsNothing ==
  /\ None \notin DataGroup /\ None \notin MotObject /\ None \notin Slides
<1>1. ASSUME NEW h \in MotObject
      PROVE  h \in [transportId : Object \union DirObject,
                    motMap : SUBSET Pieces(Object \union DirObject), numofSegments : Int]
  <2>1. h.transportId \in Object \union DirObject
    BY MotObjectFields
  <2>2. h.motMap \subseteq AllOf(h.transportId)
    BY MotObjectFields
  <2>3. h.motMap \in SUBSET Pieces(Object \union DirObject)
    BY <2>1, <2>2 DEF Pieces
  <2>4. h.numofSegments \in Int
    <3>1. NumSegments[h.transportId] \in Int
      BY <2>1, Counts DEF Id
    <3> QED BY <3>1, MotObjectFields
  <2>5. h = [transportId |-> h.transportId, motMap |-> h.motMap, numofSegments |-> h.numofSegments]
    BY MotObjectFields
  <2> DEFINE a == h.transportId
             b == h.motMap
             c == h.numofSegments
  <2> HIDE DEF a, b, c
  <2>6. a \in Object \union DirObject /\ b \in SUBSET Pieces(Object \union DirObject) /\ c \in Int
    BY <2>1, <2>3, <2>4 DEF a, b, c
  <2>7. [transportId |-> a, motMap |-> b, numofSegments |-> c]
          \in [transportId : Object \union DirObject,
               motMap : SUBSET Pieces(Object \union DirObject), numofSegments : Int]
    BY <2>6
  <2> QED BY <2>5, <2>7 DEF a, b, c
<1> QED BY <1>1, NoneAssumption DEF NoneAssumption, Slides

\* What there is in a data group of the PAD.
LEMMA PadGroupFields ==
  ASSUME NEW g \in PadGroup
  PROVE  /\ g \in DataGroup /\ g.id \in Object /\ g # None
         /\ GroupUnits[g] \in Nat \ {0}
         /\ g.type = "body" => Piece(g) \in AllOf(g.id) /\ Piece(g) \in Pieces(Object)
<1>1. g \in DataGroup /\ g.id \in Object
  BY BackendsAssumption DEF PadGroup, BackendsAssumption
<1>2. GroupUnits[g] \in Nat \ {0}
  BY <1>1, PadAssumption DEF PadAssumption
<1>3. g.type = "body" => Piece(g) \in AllOf(g.id)
  BY <1>1, GroupTypes
<1> QED BY <1>1, <1>2, <1>3, NoneIsNothing DEF Pieces

\* A segment that is there is the one there is with its number.
LEMMA SegmentAdded ==
  ASSUME NEW h \in MotObject, NEW g \in DataGroup, g.type = "body", g.id = h.transportId
  PROVE  addBodySegment(h, g).object.motMap = h.motMap \union {Piece(g)}
<1>1. CASE Has(h.motMap, g.number)
  <2>1. PICK p \in h.motMap : p.number = g.number
    BY <1>1 DEF Has
  <2>2. p \in AllOf(h.transportId)
    BY <2>1, MotObjectFields
  <2>3. p = Piece(g)
    BY <2>1, <2>2 DEF AllOf, Piece
  <2>4. addBodySegment(h, g).object = h
    BY <1>1 DEF addBodySegment
  <2> QED BY <2>1, <2>3, <2>4
<1>2. CASE ~Has(h.motMap, g.number)
  <2> DEFINE pieces == h.motMap \union {Piece(g)}
             count == IF g.last THEN g.number + 1 ELSE h.numofSegments
             new == [h EXCEPT !.motMap = pieces, !.numofSegments = count]
  <2>1. addBodySegment(h, g).object = new
    BY <1>2 DEF addBodySegment
  <2> HIDE DEF pieces, count
  <2>2. new = [transportId |-> h.transportId, motMap |-> pieces, numofSegments |-> count]
    BY ObjectReplaced
  <2> HIDE DEF new
  <2>3. new.motMap = pieces
    BY <2>2
  <2> QED BY <2>1, <2>3 DEF pieces
<1> QED BY <1>1, <1>2

LEMMA SlideStep ==
  ASSUME NEW w \in PadWork, NEW g \in PadGroup, NEW s \in Slides \union {None},
         SlideOK(w.pad.currentSlide, s)
  PROVE  /\ Slide(w, g) \in PadWork
         /\ Slide(w, g).pad.mscGroupElement = w.pad.mscGroupElement
         /\ Slide(w, g).pad.xpadLength = w.pad.xpadLength
         /\ Slide(w, g).pad.dataGroupLength = w.pad.dataGroupLength
         /\ Slide(w, g).pad.msc_dataGroupBuffer = w.pad.msc_dataGroupBuffer
         /\ SlideOf(s, g) \in Slides \union {None}
         /\ SlideOK(Slide(w, g).pad.currentSlide, SlideOf(s, g))
<1> DEFINE slide == w.pad.currentSlide
           same == slide # None /\ slide.transportId = g.id
<1>1. g \in DataGroup /\ g.id \in Object /\ g.type \in {"header", "body", "directory"}
  BY PadGroupFields, GroupTypes
<1>2. slide \in MotObject \union {None}
  BY PadWorkFields, PadMemberFields
<1>3. same <=> s # None /\ s.id = g.id
  BY DEF SlideOK
<1>4. CASE g.type = "header" /\ ~same
  <2>1. Slide(w, g) = [w EXCEPT !.pad.currentSlide = motObject(g.id)]
    BY <1>4 DEF Slide
  <2>2. motObject(g.id) \in MotObject /\ motObject(g.id) # None
    BY <1>1, NewObject, NoneIsNothing
  <2>3. SlideOf(s, g) = [id |-> g.id, got |-> {}]
    BY <1>3, <1>4 DEF SlideOf
  <2>4. [id |-> g.id, got |-> {}] \in Slides
    BY <1>1 DEF Slides
  <2>5. SlideOK(motObject(g.id), [id |-> g.id, got |-> {}])
    BY <2>2, <2>4, NoneIsNothing DEF SlideOK, motObject
  <2> HIDE DEF slide, same
  <2> QED BY <2>1, <2>2, <2>3, <2>4, <2>5, SlideSet
<1>5. CASE g.type = "body" /\ same
  <2> DEFINE r == addBodySegment(slide, g)
             u == [w EXCEPT !.pad.currentSlide = r.object]
             h == IF r.handed = None THEN w.handed ELSE Append(w.handed, r.handed)
             v == [u EXCEPT !.handed = h]
             t == [s EXCEPT !.got = s.got \union {Piece(g)}]
  <2>1. slide \in MotObject /\ g.id = slide.transportId
    BY <1>2, <1>5
  <2>2. r.object \in MotObject /\ r.object.transportId = slide.transportId
          /\ r.handed \in WholeObject \union {None}
          /\ r.object.motMap = slide.motMap \union {Piece(g)}
    BY <1>1, <1>5, <2>1, BodySegmentOK, SegmentAdded
  <2> HIDE DEF r
  <2>3. h \in Seq(WholeObject)
    BY <2>2, PadWorkFields
  <2>4. Slide(w, g) = [w EXCEPT !.pad.currentSlide = r.object, !.handed = h]
    BY <1>5 DEF Slide, r
  <2> HIDE DEF h
  <2>5. Slide(w, g) = v
    BY <2>4
  <2>6. /\ u \in PadWork /\ u.pad.currentSlide = r.object
        /\ u.pad.mscGroupElement = w.pad.mscGroupElement
        /\ u.pad.xpadLength = w.pad.xpadLength /\ u.pad.dataGroupLength = w.pad.dataGroupLength
        /\ u.pad.msc_dataGroupBuffer = w.pad.msc_dataGroupBuffer
    BY <2>2, SlideSet
  <2> HIDE DEF u
  <2>7. v \in PadWork /\ v.pad = u.pad
    BY <2>3, <2>6, HandedReplaced
  <2>8. SlideOf(s, g) = t /\ s \in Slides
    BY <1>3, <1>5 DEF SlideOf
  <2>9. t \in Slides /\ t.id = s.id /\ t.got = s.got \union {Piece(g)}
    <3>1. Piece(g) \in Pieces(Object)
      BY <1>5, PadGroupFields
    <3> QED BY <2>8, <3>1 DEF Slides
  <2>10. r.object # None
    BY <2>2, NoneIsNothing
  <2>11. s # None /\ t # None /\ s.got = slide.motMap /\ s.id = slide.transportId
    BY <2>8, <2>9, NoneIsNothing DEF SlideOK
  <2> HIDE DEF v, t, slide, same
  <2>12. SlideOK(r.object, t)
    BY <2>2, <2>9, <2>10, <2>11 DEF SlideOK
  <2> QED BY <2>5, <2>6, <2>7, <2>8, <2>9, <2>12
<1>6. CASE ~(g.type = "header" /\ ~same) /\ ~(g.type = "body" /\ same)
  <2>1. Slide(w, g) = w
    BY <1>6 DEF Slide
  <2>2. SlideOf(s, g) = s
    BY <1>3, <1>6 DEF SlideOf
  <2> QED BY <2>1, <2>2
<1> QED BY <1>4, <1>5, <1>6

-----------------------------------------------------------------------------
(* The continuity index.                                                   *)

Around == 2 * MaxLosses

LEMMA AroundOK == Around \in Nat /\ Around >= 2
BY BackendsAssumption DEF BackendsAssumption, Around

\* Less than twice around.
LEMMA Wraps ==
  ASSUME NEW m \in Nat \ {0}, NEW x \in Nat, x < m + m
  PROVE  x % m = IF x < m THEN x ELSE x - m
<1> DEFINE q == x \div m
           r == x % m
<1>1. q \in Int /\ r \in 0 .. m - 1 /\ x = m * q + r
  OBVIOUS
<1> HIDE DEF q, r
<1>2. q >= 0
  <2> SUFFICES ASSUME q <= -1 PROVE FALSE
    BY <1>1
  <2>1. m * q <= m * (-1)
    BY <1>1
  <2> QED BY <1>1, <2>1
<1>3. q <= 1
  <2> SUFFICES ASSUME q >= 2 PROVE FALSE
    BY <1>1
  <2>1. m * q >= m * 2
    BY <1>1
  <2> QED BY <1>1, <2>1
<1>4. q = 0 \/ q = 1
  BY <1>1, <1>2, <1>3
<1>5. q = 0 => x = r
  BY <1>1
<1>6. q = 1 => x = m + r
  BY <1>1
<1> QED BY <1>1, <1>4, <1>5, <1>6 DEF r

LEMMA IndexOthers ==
  ASSUME NEW i \in 0 .. Around - 1, NEW d \in Nat, 1 <= d, d < Around
  PROVE  (i + d) % Around # i
<1>1. i + d \in Nat /\ i + d < Around + Around /\ Around \in Nat \ {0}
  BY AroundOK
<1>2. (i + d) % Around = IF i + d < Around THEN i + d ELSE (i + d) - Around
  BY <1>1, Wraps
<1> QED BY <1>1, <1>2

LEMMA IndexNext ==
  ASSUME NEW i \in 0 .. Around - 1, NEW d \in Nat, d < Around
  PROVE  (((i + d) % Around) + 1) % Around = (i + (d + 1)) % Around
<1> DEFINE x == (i + d) % Around
<1>a. i + d \in Nat /\ i + d < Around + Around /\ Around \in Nat \ {0}
  BY AroundOK
<1>1. x = IF i + d < Around THEN i + d ELSE (i + d) - Around
  BY <1>a, Wraps
<1>2. i + (d + 1) \in Nat /\ i + (d + 1) < Around + Around
  BY AroundOK
<1>3. (i + (d + 1)) % Around = IF i + (d + 1) < Around THEN i + (d + 1) ELSE (i + (d + 1)) - Around
  BY <1>2, <1>a, Wraps
<1>4. x + 1 \in Nat /\ x + 1 < Around + Around
  BY <1>1, AroundOK
<1> HIDE DEF x
<1>5. (x + 1) % Around = IF x + 1 < Around THEN x + 1 ELSE (x + 1) - Around
  BY <1>4, <1>a, Wraps
<1> QED BY <1>1, <1>3, <1>5, AroundOK DEF x

\* The broadcaster moves on.
LEMMA MovedOn ==
  ASSUME NEW a \in Program, NEW g \in PadGroup, NEW n \in Nat \ {0}, a.index \in 0 .. Around - 1
  PROVE  LET b == MovedUnit(a, g, n) IN
         /\ b \in Program /\ OnAir(b)
         /\ n < GroupUnits[g] => b.group = g /\ b.unit = n + 1 /\ b.index = a.index
         /\ n >= GroupUnits[g] => b.group = None /\ b.unit = 1 /\ b.index = (a.index + 1) % Around
         /\ b.label = a.label /\ b.segment = a.segment /\ b.n = a.n /\ b.size = a.size
         /\ b.slide = a.slide
<1> DEFINE b == MovedUnit(a, g, n)
           x == (a.index + 1) % Around
<1>1. GroupUnits[g] \in Nat \ {0} /\ g # None
  BY PadGroupFields
<1>2. x \in 0 .. Around - 1
  BY AroundOK
<1>3. CASE n < GroupUnits[g]
  <2> DEFINE u == n + 1
             c == [a EXCEPT !.group = g]
             d == [c EXCEPT !.unit = u]
  <2>1. b = [[a EXCEPT !.group = g] EXCEPT !.unit = u]
    BY <1>3 DEF MovedUnit
  <2>a. u \in Nat
    OBVIOUS
  <2> HIDE DEF u
  <2>2. /\ c \in Program /\ c.group = g /\ c.index = a.index /\ c.label = a.label
        /\ c.segment = a.segment /\ c.n = a.n /\ c.size = a.size /\ c.slide = a.slide
    BY DEF Program
  <2> HIDE DEF c
  <2>3. /\ d \in Program /\ d.group = g /\ d.index = a.index /\ d.label = a.label
        /\ d.segment = a.segment /\ d.n = a.n /\ d.size = a.size /\ d.unit = u /\ d.slide = a.slide
    BY <2>2, <2>a DEF Program
  <2>4. b = d
    BY <2>1 DEF c
  <2> HIDE DEF b, d
  <2>5. OnAir(b)
    BY <1>1, <1>3, <2>3, <2>4 DEF OnAir, Around, u
  <2> QED BY <1>1, <1>3, <2>3, <2>4, <2>5 DEF b, u
<1>4. CASE n >= GroupUnits[g]
  <2> DEFINE c == [a EXCEPT !.group = None]
             d == [c EXCEPT !.unit = 1]
             f == [d EXCEPT !.index = x]
  <2>1. b = [[[a EXCEPT !.group = None] EXCEPT !.unit = 1] EXCEPT !.index = x]
    <3>1. ~(n < GroupUnits[g])
      BY <1>1, <1>4
    <3> QED BY <3>1 DEF MovedUnit, Around
  <2>2. /\ c \in Program /\ c.group = None /\ c.label = a.label
        /\ c.segment = a.segment /\ c.n = a.n /\ c.size = a.size /\ c.slide = a.slide
    BY DEF Program
  <2> HIDE DEF c
  <2>3. /\ d \in Program /\ d.group = None /\ d.label = a.label
        /\ d.segment = a.segment /\ d.n = a.n /\ d.size = a.size /\ d.unit = 1 /\ d.slide = a.slide
    BY <2>2 DEF Program
  <2>4. x \in 0 .. 2 * MaxLosses
    BY <1>2, AroundOK DEF Around
  <2>a. d = [[a EXCEPT !.group = None] EXCEPT !.unit = 1]
    BY DEF c
  <2> HIDE DEF d, x
  <2>5. /\ f \in Program /\ f.group = None /\ f.label = a.label /\ f.index = x
        /\ f.segment = a.segment /\ f.n = a.n /\ f.size = a.size /\ f.unit = 1 /\ f.slide = a.slide
    BY <2>3, <2>4 DEF Program
  <2>6. b = f
    BY <2>1, <2>a
  <2> HIDE DEF b, f
  <2>7. OnAir(b)
    BY <1>2, <2>5, <2>6 DEF OnAir, Around
  <2> QED BY <1>1, <1>4, <2>5, <2>6, <2>7 DEF b, x
<1> QED BY <1>1, <1>3, <1>4

\* What was behind is so after the next units, within the group or at its end.
LEMMA BehindMoves ==
  ASSUME NEW buffer \in Seq(GroupUnit), NEW i \in 0 .. Around - 1, NEW a \in Program, OnAir(a),
         a.group # None, NEW h \in 0 .. Around, Behind(buffer, i, a, h),
         NEW n \in Nat, n >= a.unit
  PROVE  Behind(buffer, i, MovedUnit(a, a.group, n), h)
<1> DEFINE b == MovedUnit(a, a.group, n)
<1>1. a.group \in PadGroup /\ a.unit \in Nat /\ a.unit >= 2 /\ a.index \in 0 .. Around - 1
  BY PadGroupFields DEF OnAir, Around
<1>2. GroupUnits[a.group] \in Nat
  BY <1>1, PadGroupFields
<1>3. /\ n < GroupUnits[a.group] => b.group = a.group /\ b.unit = n + 1 /\ b.index = a.index
      /\ n >= GroupUnits[a.group] => b.group = None /\ b.index = (a.index + 1) % Around
  BY <1>1, MovedOn
<1> HIDE DEF b
<1>4. CASE n < GroupUnits[a.group]
  <2>1. b.group = a.group /\ b.index = a.index /\ b.unit > a.unit /\ Len(buffer) \in Nat
    BY <1>1, <1>3, <1>4
  <2>2. CASE a.index = i /\ a.unit > Len(buffer) + 1 /\ h >= 1
    <3>1. b.unit > Len(buffer) + 1
      BY <1>1, <1>3, <1>4, <2>1, <2>2
    <3> QED BY <2>1, <2>2, <3>1 DEF Behind, b
  <2>3. CASE \E d \in 1 .. h : /\ a.index = (i + d) % (2 * MaxLosses)
                               /\ a.group # None => d < h
    <3>1. \E d \in 1 .. h : /\ b.index = (i + d) % (2 * MaxLosses)
                            /\ b.group # None => d < h
      BY <2>1, <2>3
    <3> QED BY <3>1 DEF Behind, b
  <2> QED BY <2>2, <2>3 DEF Behind
<1>5. CASE n >= GroupUnits[a.group] /\ a.index = i /\ h >= 1
  <2>1. 1 \in 1 .. h /\ b.index = (i + 1) % (2 * MaxLosses) /\ b.group = None
    BY <1>3, <1>5 DEF Around
  <2> QED BY <2>1 DEF Behind, b
<1>6. CASE n >= GroupUnits[a.group] /\ ~(a.index = i /\ h >= 1)
  <2>1. PICK d \in 1 .. h : a.index = (i + d) % Around /\ d < h
    BY <1>6 DEF Behind, Around
  <2>2. d + 1 \in 1 .. h /\ d < Around /\ d \in Nat
    BY <2>1, AroundOK
  <2>3. b.index = (i + (d + 1)) % Around
    BY <1>3, <1>6, <2>1, <2>2, IndexNext
  <2>4. b.group = None
    BY <1>3, <1>6
  <2> QED BY <2>2, <2>3, <2>4 DEF Behind, Around, b
<1> QED BY <1>2, <1>4, <1>5, <1>6 DEF b

\* When one group begins and is lost, its end as well or not, one more is.
LEMMA BehindBegins ==
  ASSUME NEW buffer \in Seq(GroupUnit), NEW i \in 0 .. Around - 1, NEW a \in Program, OnAir(a),
         a.group = None, NEW g \in PadGroup, NEW h \in 0 .. Around - 1, Behind(buffer, i, a, h)
  PROVE  Behind(buffer, i, MovedUnit(a, g, 1), h + 1)
<1> DEFINE b == MovedUnit(a, g, 1)
<1>1. PICK d \in 1 .. h : a.index = (i + d) % Around
  BY DEF Behind, Around
<1>2. GroupUnits[g] \in Nat \ {0} /\ a.index \in 0 .. Around - 1
  BY PadGroupFields DEF OnAir, Around
<1>3. /\ 1 < GroupUnits[g] => b.index = a.index
      /\ 1 >= GroupUnits[g] => b.group = None /\ b.index = (a.index + 1) % Around
  BY <1>2, MovedOn
<1> HIDE DEF b
<1>4. CASE 1 < GroupUnits[g]
  <2>1. d \in 1 .. h + 1 /\ d < h + 1
    BY <1>1
  <2> QED BY <1>1, <1>3, <1>4, <2>1 DEF Behind, Around, b
<1>5. CASE 1 >= GroupUnits[g]
  <2>1. d + 1 \in 1 .. h + 1 /\ d < Around /\ d \in Nat
    BY <1>1, AroundOK
  <2>2. b.index = (i + (d + 1)) % Around
    BY <1>1, <1>3, <1>5, <2>1, IndexNext
  <2> QED BY <1>3, <1>5, <2>1, <2>2 DEF Behind, Around, b
<1> QED BY <1>2, <1>4, <1>5

\* When units of the group in the buffer are lost, it is behind.
LEMMA BehindStarts ==
  ASSUME NEW buffer \in Seq(GroupUnit), NEW a \in Program, OnAir(a), a.group # None,
         a.unit = Len(buffer) + 1, NEW n \in Nat, n >= a.unit, NEW h \in Nat, h >= 1
  PROVE  Behind(buffer, a.index, MovedUnit(a, a.group, n), h)
<1> DEFINE b == MovedUnit(a, a.group, n)
<1>1. a.group \in PadGroup /\ a.unit \in Nat /\ a.unit >= 2 /\ a.index \in 0 .. Around - 1
  BY PadGroupFields DEF OnAir, Around
<1>2. GroupUnits[a.group] \in Nat
  BY <1>1, PadGroupFields
<1>3. /\ n < GroupUnits[a.group] => b.group = a.group /\ b.unit = n + 1 /\ b.index = a.index
      /\ n >= GroupUnits[a.group] => b.group = None /\ b.index = (a.index + 1) % Around
  BY <1>1, MovedOn
<1> HIDE DEF b
<1>4. CASE n < GroupUnits[a.group]
  <2>1. b.unit > Len(buffer) + 1
    BY <1>1, <1>3, <1>4
  <2> QED BY <1>3, <1>4, <2>1 DEF Behind, b
<1>5. CASE n >= GroupUnits[a.group]
  <2>1. 1 \in 1 .. h
    OBVIOUS
  <2> QED BY <1>3, <1>5, <2>1 DEF Behind, Around, b
<1> QED BY <1>2, <1>4, <1>5

LEMMA BehindMore ==
  ASSUME NEW buffer, NEW i, NEW a, NEW h \in Nat, NEW k \in Nat, h <= k, Behind(buffer, i, a, h)
  PROVE  Behind(buffer, i, a, k)
<1>1. CASE a.group # None /\ a.index = i /\ a.unit > Len(buffer) + 1 /\ h >= 1
  <2>1. k >= 1
    BY <1>1
  <2> QED BY <1>1, <2>1 DEF Behind
<1>2. CASE \E d \in 1 .. h : /\ a.index = (i + d) % (2 * MaxLosses)
                             /\ a.group # None => d < h
  <2>1. PICK d \in 1 .. h : /\ a.index = (i + d) % (2 * MaxLosses)
                            /\ a.group # None => d < h
    BY <1>2
  <2>2. d \in 1 .. k /\ (d < h => d < k)
    OBVIOUS
  <2> QED BY <2>1, <2>2 DEF Behind
<1> QED BY <1>1, <1>2 DEF Behind

\* The next unit is then none of the group in the buffer.
LEMMA BehindOthers ==
  ASSUME NEW buffer \in Seq(GroupUnit), NEW i \in 0 .. Around - 1, NEW a \in Program, OnAir(a),
         a.group # None, NEW h \in 0 .. Around, Behind(buffer, i, a, h), NEW g
  PROVE  Unit(a.group, a.unit, a.index) # Unit(g, Len(buffer) + 1, i)
<1>1. a.unit # Len(buffer) + 1 \/ a.index # i
  <2>1. CASE a.index = i /\ a.unit > Len(buffer) + 1
    <3>1. a.unit \in Nat /\ Len(buffer) \in Nat
      BY DEF Program
    <3> QED BY <2>1, <3>1
  <2>2. CASE ~(a.index = i /\ a.unit > Len(buffer) + 1)
    <3>1. PICK d \in 1 .. h : a.index = (i + d) % Around /\ d < h
      BY <2>2 DEF Behind, Around
    <3>2. d \in Nat /\ 1 <= d /\ d < Around
      BY <3>1, AroundOK
    <3> QED BY <3>1, <3>2, IndexOthers
  <2> QED BY <2>1, <2>2
<1>2. ASSUME Unit(a.group, a.unit, a.index) = Unit(g, Len(buffer) + 1, i) PROVE FALSE
  <2> DEFINE x == Unit(a.group, a.unit, a.index)
             y == Unit(g, Len(buffer) + 1, i)
  <2>1. x.n = a.unit /\ x.index = a.index /\ y.n = Len(buffer) + 1 /\ y.index = i
    BY DEF Unit
  <2> HIDE DEF x, y
  <2>2. x = y
    BY <1>2 DEF x, y
  <2> QED BY <1>1, <2>1, <2>2
<1> QED BY <1>2

-----------------------------------------------------------------------------
(* The buffer of a units group.                                             *)

LEMMA UnitOK ==
  ASSUME NEW g \in PadGroup, NEW n \in Nat, NEW i \in 0 .. Around - 1
  PROVE  Unit(g, n, i) \in GroupUnit
BY DEF Unit, GroupUnit, Around

LEMMA UnitMembers ==
  ASSUME NEW g, NEW n, NEW i
  PROVE  Unit(g, n, i).group = g /\ Unit(g, n, i).n = n /\ Unit(g, n, i).index = i
BY DEF Unit

\* Not all units of one group: nothing comes of it.
LEMMA BuildNothing ==
  ASSUME NEW w, NEW units \in Seq(GroupUnit), w.pad.dataGroupLength \in Nat,
         NEW p \in 1 .. w.pad.dataGroupLength, p <= Len(units),
         units[p] # Unit(units[1].group, p, units[1].index)
  PROVE  build_MSC_segment(w, units) = w
<1> DEFINE n == w.pad.dataGroupLength
           k == IF Len(units) < n THEN Len(units) ELSE n
           taken == SubSeq(units, 1, k)
           whole == UnitsOf(taken[1].group, taken[1].index)
<1>1. k \in Nat /\ k <= Len(units) /\ p \in 1 .. k /\ 1 \in 1 .. k
  OBVIOUS
<1> HIDE DEF k
<1>2. taken[p] = units[p] /\ taken[1] = units[1] /\ Len(taken) = k
  BY <1>1
<1> HIDE DEF taken
<1>3. taken # whole
  <2> SUFFICES ASSUME taken = whole PROVE FALSE
    OBVIOUS
  <2>1. DOMAIN taken = 1 .. k
    BY <1>1 DEF taken
  <2>2. p \in DOMAIN whole
    BY <1>1, <2>1
  <2>3. whole[p] = Unit(taken[1].group, p, taken[1].index)
    BY <2>2 DEF UnitsOf
  <2> QED BY <1>2, <2>3
<1> HIDE DEF whole
<1>4. build_MSC_segment(w, units)
        = IF taken # <<>> /\ taken = whole THEN Slide(w, taken[1].group) ELSE w
  BY DEF build_MSC_segment, taken, whole, k
<1> QED BY <1>3, <1>4

\* All of one: its segment goes to the slide.
LEMMA BuildWhole ==
  ASSUME NEW w, NEW g \in PadGroup, NEW i, NEW units \in Seq(GroupUnit),
         w.pad.dataGroupLength = GroupUnits[g], GroupUnits[g] <= Len(units),
         \A n \in 1 .. GroupUnits[g] : units[n] = Unit(g, n, i)
  PROVE  build_MSC_segment(w, units) = Slide(w, g)
<1> DEFINE n == w.pad.dataGroupLength
           k == IF Len(units) < n THEN Len(units) ELSE n
           taken == SubSeq(units, 1, k)
           whole == UnitsOf(taken[1].group, taken[1].index)
<1>1. k = GroupUnits[g] /\ k \in Nat /\ k >= 1 /\ k <= Len(units)
  BY PadGroupFields
<1> HIDE DEF k
<1>2. taken = [m \in 1 .. k |-> Unit(g, m, i)]
  <2>1. taken = [m \in 1 .. k |-> units[m]]
    BY <1>1
  <2> HIDE DEF taken
  <2> QED BY <1>1, <2>1
<1>3. taken # <<>> /\ taken[1] = Unit(g, 1, i)
  <2>1. taken[1] = Unit(g, 1, i)
    BY <1>1, <1>2
  <2>2. Len(taken) = k
    BY <1>1
  <2> HIDE DEF taken
  <2> QED BY <1>1, <2>1, <2>2
<1> HIDE DEF taken
<1>4. taken[1].group = g /\ taken[1].index = i
  BY <1>3 DEF Unit
<1>5. whole = [m \in 1 .. k |-> Unit(g, m, i)]
  BY <1>1, <1>4 DEF UnitsOf
<1> HIDE DEF whole
<1>6. build_MSC_segment(w, units)
        = IF taken # <<>> /\ taken = whole THEN Slide(w, taken[1].group) ELSE w
  BY DEF build_MSC_segment, taken, whole, k
<1> QED BY <1>2, <1>3, <1>4, <1>5, <1>6

\* The group in a buffer, and whatever else.
InGroup(w, g) ==
  /\ w \in PadWork /\ ElementOK(w.pad)
  /\ w.pad.dataGroupLength = GroupUnits[g]
  /\ w.pad.msc_dataGroupBuffer # <<>>

LEMMA BufferFields ==
  ASSUME NEW w, NEW g, InGroup(w, g)
  PROVE  /\ w.pad.msc_dataGroupBuffer \in Seq(GroupUnit)
         /\ w.pad.mscGroupElement /\ w.pad.dataGroupLength \in Nat
         /\ Len(w.pad.msc_dataGroupBuffer) \in Nat
         /\ 1 <= Len(w.pad.msc_dataGroupBuffer)
         /\ Len(w.pad.msc_dataGroupBuffer) < w.pad.dataGroupLength
<1>1. w.pad.msc_dataGroupBuffer \in Seq(GroupUnit) /\ w.pad.dataGroupLength \in Nat
  BY PadWorkFields, PadMemberFields DEF InGroup
<1>2. w.pad.mscGroupElement /\ w.pad.msc_dataGroupBuffer # <<>>
        /\ Len(w.pad.msc_dataGroupBuffer) < w.pad.dataGroupLength
  BY DEF InGroup, ElementOK
<1> QED BY <1>1, <1>2

\* A mixture stays one until it is dropped.
LEMMA AddMixed ==
  ASSUME NEW w, NEW g \in PadGroup, InGroup(w, g),
         NEW units \in Seq(GroupUnit), Len(units) >= 1,
         \E p \in 1 .. Len(w.pad.msc_dataGroupBuffer) + 1 :
           (w.pad.msc_dataGroupBuffer \o units)[p]
             # Unit(w.pad.msc_dataGroupBuffer[1].group, p, w.pad.msc_dataGroupBuffer[1].index)
  PROVE  LET u == add_MSC_element(w, units) IN
         /\ u \in PadWork /\ ElementOK(u.pad) /\ u.pad.currentSlide = w.pad.currentSlide
         /\ u.pad.xpadLength = w.pad.xpadLength /\ u.pad.dataGroupLength = w.pad.dataGroupLength
         /\ u.pad.msc_dataGroupBuffer # <<>> =>
              /\ Mixed(u.pad.msc_dataGroupBuffer)
              /\ u.pad.msc_dataGroupBuffer[1] = w.pad.msc_dataGroupBuffer[1]
<1> DEFINE old == w.pad.msc_dataGroupBuffer
           buffer == old \o units
           u == add_MSC_element(w, units)
<1>1. old \in Seq(GroupUnit) /\ old # <<>> /\ w \in PadWork /\ w.pad.mscGroupElement
        /\ w.pad.dataGroupLength \in Nat /\ Len(old) \in Nat /\ 1 <= Len(old)
        /\ Len(old) < w.pad.dataGroupLength
  BY BufferFields DEF InGroup
<1> HIDE DEF old
<1>2. buffer \in Seq(GroupUnit) /\ Len(buffer) = Len(old) + Len(units) /\ buffer[1] = old[1]
        /\ buffer # <<>> /\ <<>> \in Seq(GroupUnit)
  BY <1>1
<1>3. PICK p \in 1 .. Len(old) + 1 : buffer[p] # Unit(old[1].group, p, old[1].index)
  BY DEF old
<1>4. Mixed(buffer)
  <2>1. p \in DOMAIN buffer /\ buffer[1] = old[1]
    BY <1>1, <1>2
  <2> HIDE DEF buffer
  <2> QED BY <1>3, <2>1 DEF Mixed
<1> HIDE DEF buffer
<1>5. p \in 1 .. w.pad.dataGroupLength /\ p <= Len(buffer)
  BY <1>1, <1>2, <1>3
<1>6. build_MSC_segment(w, buffer) = w
  <2>1. buffer[p] # Unit(buffer[1].group, p, buffer[1].index)
    BY <1>2, <1>3
  <2> QED BY <1>1, <1>2, <1>5, <2>1, BuildNothing
<1>7. u = IF Len(buffer) >= w.pad.dataGroupLength
          THEN [w EXCEPT !.pad.msc_dataGroupBuffer = <<>>]
          ELSE [w EXCEPT !.pad.msc_dataGroupBuffer = buffer]
  <2>1. u = IF old = <<>> THEN w
            ELSE IF Len(buffer) >= w.pad.dataGroupLength
            THEN [build_MSC_segment(w, buffer) EXCEPT !.pad.msc_dataGroupBuffer = <<>>]
            ELSE [w EXCEPT !.pad.msc_dataGroupBuffer = buffer]
    BY DEF add_MSC_element, buffer, old
  <2> QED BY <1>1, <1>6, <2>1
<1> HIDE DEF u
<1>8. CASE Len(buffer) >= w.pad.dataGroupLength
  <2>1. u = [w EXCEPT !.pad.msc_dataGroupBuffer = <<>>]
    BY <1>7, <1>8
  <2>2. /\ u \in PadWork /\ u.pad.msc_dataGroupBuffer = <<>>
        /\ u.pad.currentSlide = w.pad.currentSlide /\ u.pad.mscGroupElement = w.pad.mscGroupElement
        /\ u.pad.xpadLength = w.pad.xpadLength /\ u.pad.dataGroupLength = w.pad.dataGroupLength
    BY <1>1, <1>2, <2>1, BufferSet
  <2>3. ElementOK(u.pad)
    BY <1>1, <2>2 DEF ElementOK
  <2> QED BY <2>2, <2>3 DEF u
<1>9. CASE ~(Len(buffer) >= w.pad.dataGroupLength)
  <2>1. u = [w EXCEPT !.pad.msc_dataGroupBuffer = buffer]
    BY <1>7, <1>9
  <2>2. /\ u \in PadWork /\ u.pad.msc_dataGroupBuffer = buffer
        /\ u.pad.currentSlide = w.pad.currentSlide /\ u.pad.mscGroupElement = w.pad.mscGroupElement
        /\ u.pad.xpadLength = w.pad.xpadLength /\ u.pad.dataGroupLength = w.pad.dataGroupLength
    BY <1>1, <1>2, <2>1, BufferSet
  <2>3. ElementOK(u.pad)
    BY <1>1, <1>2, <1>9, <2>2 DEF ElementOK
  <2> QED BY <1>2, <1>4, <2>2, <2>3 DEF u, old
<1> QED BY <1>8, <1>9

\* The group goes on, perhaps to its end.
GoneOn(u, w, g, i, n, s) ==
  /\ u \in PadWork /\ ElementOK(u.pad)
  /\ u.pad.xpadLength = w.pad.xpadLength /\ u.pad.dataGroupLength = w.pad.dataGroupLength
  /\ n < GroupUnits[g] =>
       /\ u.pad.mscGroupElement
       /\ u.pad.msc_dataGroupBuffer = Begun(g, i, n)
       /\ SlideOK(u.pad.currentSlide, s)
  /\ n >= GroupUnits[g] =>
       /\ u.pad.msc_dataGroupBuffer = <<>>
       /\ SlideOK(u.pad.currentSlide, SlideOf(s, g)) /\ SlideOf(s, g) \in Slides \union {None}

LEMMA AsFunction ==
  ASSUME NEW S, NEW s \in Seq(S)
  PROVE  s = [n \in 1 .. Len(s) |-> s[n]]
OBVIOUS

\* A sequence behind another, position by position.
Joint(s, t) == [n \in 1 .. Len(s) + Len(t) |-> IF n <= Len(s) THEN s[n] ELSE t[n - Len(s)]]

LEMMA Joined ==
  ASSUME NEW S, NEW s \in Seq(S), NEW t \in Seq(S)
  PROVE  s \o t = Joint(s, t)
<1> DEFINE j == s \o t
<1>1. j \in Seq(S) /\ Len(j) = Len(s) + Len(t) /\ Len(s) \in Nat /\ Len(t) \in Nat
  OBVIOUS
<1>2. \A n \in 1 .. Len(s) + Len(t) : j[n] = IF n <= Len(s) THEN s[n] ELSE t[n - Len(s)]
  OBVIOUS
<1> HIDE DEF j
<1>3. j = [n \in 1 .. Len(j) |-> j[n]]
  BY <1>1, AsFunction
<1>4. j = [n \in 1 .. Len(s) + Len(t) |-> j[n]]
  BY <1>1, <1>3
<1>5. j = Joint(s, t)
  BY <1>2, <1>4 DEF Joint
<1> QED BY <1>5 DEF j

LEMMA AddGoing ==
  ASSUME NEW w, NEW g \in PadGroup, NEW i \in 0 .. Around - 1, InGroup(w, g),
         NEW k \in Nat \ {0}, w.pad.msc_dataGroupBuffer = Begun(g, i, k),
         NEW m \in Nat \ {0}, NEW units, units = [j \in 1 .. m |-> Unit(g, k + j, i)],
         NEW s \in Slides \union {None}, SlideOK(w.pad.currentSlide, s)
  PROVE  GoneOn(add_MSC_element(w, units), w, g, i, k + m, s)
<1> DEFINE old == w.pad.msc_dataGroupBuffer
           buffer == old \o units
           u == add_MSC_element(w, units)
           built == Slide(w, g)
<1>1. old \in Seq(GroupUnit) /\ old # <<>> /\ w \in PadWork /\ w.pad.mscGroupElement
        /\ w.pad.dataGroupLength = GroupUnits[g] /\ GroupUnits[g] \in Nat
  BY BufferFields, PadGroupFields DEF InGroup
<1>2. buffer = Begun(g, i, k + m)
  <2>1. old = [n \in 1 .. k |-> Unit(g, n, i)]
    BY DEF Begun
  <2> HIDE DEF old
  <2>a. \A j \in 1 .. m : Unit(g, k + j, i) \in GroupUnit
    BY UnitOK
  <2>2. Len(old) = k /\ Len(units) = m /\ units \in Seq(GroupUnit)
    BY <2>1, <2>a, <1>1
  <2>3. buffer = [n \in 1 .. k + m |-> IF n <= k THEN old[n] ELSE units[n - k]]
    <3>1. buffer = Joint(old, units)
      BY <1>1, <2>2, Joined
    <3> HIDE DEF buffer
    <3> QED BY <2>2, <3>1 DEF Joint
  <2>4. ASSUME NEW n \in 1 .. k + m PROVE (IF n <= k THEN old[n] ELSE units[n - k]) = Unit(g, n, i)
    <3>1. CASE n <= k
      BY <2>1, <3>1
    <3>2. CASE ~(n <= k)
      <4>1. n - k \in 1 .. m /\ k + (n - k) = n
        BY <3>2
      <4> QED BY <3>2, <4>1
    <3> QED BY <3>1, <3>2
  <2> HIDE DEF buffer
  <2> QED BY <2>3, <2>4 DEF Begun
<1>3. Begun(g, i, k + m) \in Seq(GroupUnit) /\ Len(Begun(g, i, k + m)) = k + m
        /\ \A n \in 1 .. k + m : Begun(g, i, k + m)[n] = Unit(g, n, i)
  BY UnitOK DEF Begun
<1> HIDE DEF buffer, old
<1>4. u = IF k + m >= GroupUnits[g]
          THEN [build_MSC_segment(w, buffer) EXCEPT !.pad.msc_dataGroupBuffer = <<>>]
          ELSE [w EXCEPT !.pad.msc_dataGroupBuffer = buffer]
  <2>1. u = IF old = <<>> THEN w
            ELSE IF Len(buffer) >= w.pad.dataGroupLength
            THEN [build_MSC_segment(w, buffer) EXCEPT !.pad.msc_dataGroupBuffer = <<>>]
            ELSE [w EXCEPT !.pad.msc_dataGroupBuffer = buffer]
    BY DEF add_MSC_element, buffer, old
  <2> QED BY <1>1, <1>2, <1>3, <2>1
<1> HIDE DEF u
<1>5. CASE k + m >= GroupUnits[g]
  <2>1. build_MSC_segment(w, buffer) = built
    <3>1. buffer \in Seq(GroupUnit) /\ GroupUnits[g] <= Len(buffer)
      BY <1>1, <1>2, <1>3, <1>5
    <3>2. \A n \in 1 .. GroupUnits[g] : buffer[n] = Unit(g, n, i)
      BY <1>1, <1>2, <1>3, <1>5
    <3> QED BY <1>1, <3>1, <3>2, BuildWhole
  <2>2. /\ built \in PadWork
        /\ built.pad.mscGroupElement = w.pad.mscGroupElement
        /\ built.pad.xpadLength = w.pad.xpadLength
        /\ built.pad.dataGroupLength = w.pad.dataGroupLength
        /\ SlideOf(s, g) \in Slides \union {None}
        /\ SlideOK(built.pad.currentSlide, SlideOf(s, g))
    BY <1>1, SlideStep
  <2>3. <<>> \in Seq(GroupUnit)
    OBVIOUS
  <2> HIDE DEF built
  <2>4. u = [built EXCEPT !.pad.msc_dataGroupBuffer = <<>>]
    BY <1>4, <1>5, <2>1
  <2>5. /\ u \in PadWork /\ u.pad.msc_dataGroupBuffer = <<>>
        /\ u.pad.currentSlide = built.pad.currentSlide
        /\ u.pad.mscGroupElement = built.pad.mscGroupElement
        /\ u.pad.xpadLength = built.pad.xpadLength
        /\ u.pad.dataGroupLength = built.pad.dataGroupLength
    BY <2>2, <2>3, <2>4, BufferSet
  <2>6. ElementOK(u.pad)
    <3>1. w.pad.dataGroupLength > 0
      BY <1>1, PadGroupFields
    <3> QED BY <1>1, <2>2, <2>5, <3>1 DEF ElementOK
  <2>7. ~(k + m < GroupUnits[g])
    BY <1>1, <1>5
  <2> QED BY <2>2, <2>5, <2>6, <2>7 DEF u, GoneOn
<1>6. CASE k + m < GroupUnits[g]
  <2>1. u = [w EXCEPT !.pad.msc_dataGroupBuffer = buffer]
    BY <1>1, <1>4, <1>6
  <2>a. buffer \in Seq(GroupUnit)
    BY <1>2, <1>3
  <2>2. /\ u \in PadWork /\ u.pad.msc_dataGroupBuffer = buffer
        /\ u.pad.currentSlide = w.pad.currentSlide /\ u.pad.mscGroupElement = w.pad.mscGroupElement
        /\ u.pad.xpadLength = w.pad.xpadLength /\ u.pad.dataGroupLength = w.pad.dataGroupLength
    BY <1>1, <2>a, <2>1, BufferSet
  <2>3. ElementOK(u.pad)
    BY <1>1, <1>2, <1>3, <1>6, <2>2 DEF ElementOK
  <2>4. ~(k + m >= GroupUnits[g])
    BY <1>1, <1>6
  <2> QED BY <1>1, <1>2, <2>2, <2>3, <2>4 DEF u, GoneOn
<1> QED BY <1>1, <1>5, <1>6

-----------------------------------------------------------------------------
(* Moves of the broadcaster, and what comes of them.  e: all of the group    *)
(* came so far; s: the slide that the groups make; h: moves that were lost.  *)

GroupState(w, a, e, s, h) ==
  /\ w \in PadWork /\ a \in Program /\ e \in BOOLEAN /\ s \in Slides \union {None}
  /\ GroupsOK(w.pad, a, e, h)
  /\ SlideOK(w.pad.currentSlide, s)

AirOf(b, a) == b.group = a.group /\ b.unit = a.unit /\ b.index = a.index

LEMMA StateKept ==
  ASSUME NEW w, NEW a, NEW e, NEW s, NEW h, GroupState(w, a, e, s, h),
         NEW u \in PadWork, SameGroup(u, w), NEW b \in Program, AirOf(b, a)
  PROVE  GroupState(u, b, e, s, h)
<1>1. ElementOK(u.pad)
  BY DEF GroupState, GroupsOK, ElementOK, SameGroup
<1>2. OnAir(b)
  BY DEF GroupState, GroupsOK, OnAir, AirOf
<1>3. BufferOK(u.pad, b, e, h)
  BY DEF GroupState, GroupsOK, BufferOK, Behind, SameGroup, AirOf
<1>4. EntireOK(u.pad, b, e)
  BY DEF GroupState, GroupsOK, EntireOK, SameGroup, AirOf
<1>5. SlideOK(u.pad.currentSlide, s)
  BY DEF GroupState, SameGroup
<1> QED BY <1>1, <1>2, <1>3, <1>4, <1>5 DEF GroupState, GroupsOK

LEMMA StateMore ==
  ASSUME NEW w, NEW a, NEW e, NEW s, NEW h \in Nat, GroupState(w, a, e, s, h),
         NEW k \in Nat, h <= k
  PROVE  GroupState(w, a, e, s, k)
<1>1. BufferOK(w.pad, a, e, k)
  <2> SUFFICES ASSUME w.pad.msc_dataGroupBuffer # <<>>
               PROVE  BufferOK(w.pad, a, e, k)
    BY DEF BufferOK
  <2>1. PICK g \in PadGroup, i \in 0 .. 2 * MaxLosses - 1 :
      /\ w.pad.msc_dataGroupBuffer[1] = Unit(g, 1, i)
      /\ w.pad.dataGroupLength = GroupUnits[g]
      /\ \/ Mixed(w.pad.msc_dataGroupBuffer)
         \/ /\ w.pad.msc_dataGroupBuffer = Begun(g, i, Len(w.pad.msc_dataGroupBuffer))
            /\ \/ /\ e /\ a.group = g /\ a.index = i /\ a.unit = Len(w.pad.msc_dataGroupBuffer) + 1
               \/ ~(e /\ a.group # None) /\ Behind(w.pad.msc_dataGroupBuffer, i, a, h)
    BY DEF GroupState, GroupsOK, BufferOK
  <2>2. Behind(w.pad.msc_dataGroupBuffer, i, a, h) => Behind(w.pad.msc_dataGroupBuffer, i, a, k)
    BY BehindMore
  <2> QED BY <2>1, <2>2 DEF BufferOK
<1> QED BY <1>1 DEF GroupState, GroupsOK

\* What was not all there is a mixture, or behind.
LEMMA NotEntire ==
  ASSUME NEW w, NEW a, NEW e, NEW s, NEW h \in 0 .. Around, GroupState(w, a, e, s, h),
         ~(e /\ a.group # None), w.pad.msc_dataGroupBuffer # <<>>
  PROVE  \E g \in PadGroup, i \in 0 .. Around - 1 :
           /\ w.pad.msc_dataGroupBuffer[1] = Unit(g, 1, i) /\ InGroup(w, g)
           /\ \/ Mixed(w.pad.msc_dataGroupBuffer)
              \/ /\ w.pad.msc_dataGroupBuffer = Begun(g, i, Len(w.pad.msc_dataGroupBuffer))
                 /\ Behind(w.pad.msc_dataGroupBuffer, i, a, h)
<1>1. PICK g \in PadGroup, i \in 0 .. 2 * MaxLosses - 1 :
      /\ w.pad.msc_dataGroupBuffer[1] = Unit(g, 1, i)
      /\ w.pad.dataGroupLength = GroupUnits[g]
      /\ \/ Mixed(w.pad.msc_dataGroupBuffer)
         \/ /\ w.pad.msc_dataGroupBuffer = Begun(g, i, Len(w.pad.msc_dataGroupBuffer))
            /\ \/ /\ e /\ a.group = g /\ a.index = i /\ a.unit = Len(w.pad.msc_dataGroupBuffer) + 1
               \/ ~(e /\ a.group # None) /\ Behind(w.pad.msc_dataGroupBuffer, i, a, h)
  BY DEF GroupState, GroupsOK, BufferOK
<1>2. g # None
  BY PadGroupFields
<1>3. InGroup(w, g)
  BY <1>1 DEF InGroup, GroupState, GroupsOK
<1> QED BY <1>1, <1>2, <1>3 DEF Around

\* The buffer stays as it is, a mixture or behind, and the group is not all there.
LEMMA StaysBehind ==
  ASSUME NEW w, NEW a, NEW e, NEW s, NEW h \in 0 .. Around, GroupState(w, a, e, s, h),
         NEW b \in Program, OnAir(b), NEW k,
         w.pad.msc_dataGroupBuffer # <<>> =>
           \E g \in PadGroup, i \in 0 .. Around - 1 :
             /\ w.pad.msc_dataGroupBuffer[1] = Unit(g, 1, i) /\ InGroup(w, g)
             /\ \/ Mixed(w.pad.msc_dataGroupBuffer)
                \/ /\ w.pad.msc_dataGroupBuffer = Begun(g, i, Len(w.pad.msc_dataGroupBuffer))
                   /\ Behind(w.pad.msc_dataGroupBuffer, i, b, k)
  PROVE  GroupState(w, b, FALSE, s, k)
<1>1. BufferOK(w.pad, b, FALSE, k)
  <2> SUFFICES ASSUME w.pad.msc_dataGroupBuffer # <<>>
               PROVE  BufferOK(w.pad, b, FALSE, k)
    BY DEF BufferOK
  <2>1. PICK g \in PadGroup, i \in 0 .. Around - 1 :
             /\ w.pad.msc_dataGroupBuffer[1] = Unit(g, 1, i) /\ InGroup(w, g)
             /\ \/ Mixed(w.pad.msc_dataGroupBuffer)
                \/ /\ w.pad.msc_dataGroupBuffer = Begun(g, i, Len(w.pad.msc_dataGroupBuffer))
                   /\ Behind(w.pad.msc_dataGroupBuffer, i, b, k)
    OBVIOUS
  <2>2. w.pad.dataGroupLength = GroupUnits[g]
    BY <2>1 DEF InGroup
  <2> QED BY <2>1, <2>2 DEF BufferOK, Around
<1>2. EntireOK(w.pad, b, FALSE)
  BY DEF EntireOK
<1> QED BY <1>1, <1>2 DEF GroupState, GroupsOK

\* Units of a group that is not all there may come to nothing.
LEMMA UnitsIgnored ==
  ASSUME NEW w, NEW a, NEW s, NEW h \in 0 .. Around, GroupState(w, a, FALSE, s, h),
         a.group # None, NEW n \in Nat, n >= a.unit
  PROVE  GroupState(w, MovedUnit(a, a.group, n), FALSE, s, h)
<1> DEFINE b == MovedUnit(a, a.group, n)
           buffer == w.pad.msc_dataGroupBuffer
<1>1. a \in Program /\ OnAir(a) /\ a.group \in PadGroup /\ a.index \in 0 .. Around - 1
        /\ a.unit \in Nat /\ a.unit >= 2
  BY PadGroupFields DEF GroupState, GroupsOK, OnAir, Around
<1>2. b \in Program /\ OnAir(b)
  <2>1. n \in Nat \ {0}
    BY <1>1
  <2> QED BY <1>1, <2>1, MovedOn
<1>3. buffer \in Seq(GroupUnit)
  BY PadWorkFields, PadMemberFields DEF GroupState
<1>4. ASSUME buffer # <<>>
      PROVE  \E g \in PadGroup, i \in 0 .. Around - 1 :
               /\ buffer[1] = Unit(g, 1, i) /\ InGroup(w, g)
               /\ \/ Mixed(buffer)
                  \/ buffer = Begun(g, i, Len(buffer)) /\ Behind(buffer, i, b, h)
  <2>1. PICK g \in PadGroup, i \in 0 .. Around - 1 :
           /\ buffer[1] = Unit(g, 1, i) /\ InGroup(w, g)
           /\ \/ Mixed(buffer)
              \/ buffer = Begun(g, i, Len(buffer)) /\ Behind(buffer, i, a, h)
    BY <1>4, NotEntire
  <2> HIDE DEF b, buffer
  <2>2. Behind(buffer, i, a, h) => Behind(buffer, i, b, h)
    BY <1>1, <1>3, BehindMoves DEF b
  <2> QED BY <2>1, <2>2
<1> HIDE DEF b
<1>5. GroupState(w, b, FALSE, s, h)
  BY <1>2, <1>4, StaysBehind
<1> QED BY <1>5 DEF b

\* Units are lost.
LEMMA UnitsLost ==
  ASSUME NEW w, NEW a, NEW e, NEW s, NEW h \in 0 .. Around - 1, GroupState(w, a, e, s, h),
         a.group # None, NEW n \in Nat, n >= a.unit
  PROVE  GroupState(w, MovedUnit(a, a.group, n), FALSE, s, h + 1)
<1>0. h \in Nat /\ h + 1 \in Nat /\ h <= h + 1 /\ h \in 0 .. Around /\ h + 1 \in 0 .. Around
  BY AroundOK
<1>1. CASE ~e
  <2>1. GroupState(w, a, FALSE, s, h)
    BY <1>1 DEF GroupState
  <2>2. GroupState(w, a, FALSE, s, h + 1)
    BY <1>0, <2>1, StateMore
  <2> QED BY <1>0, <2>2, UnitsIgnored
<1>2. CASE e
  <2> DEFINE b == MovedUnit(a, a.group, n)
             buffer == w.pad.msc_dataGroupBuffer
             g == a.group
             i == a.index
  <2>1. a \in Program /\ OnAir(a) /\ g \in PadGroup /\ i \in 0 .. Around - 1
          /\ a.unit \in Nat /\ a.unit >= 2
    BY PadGroupFields DEF GroupState, GroupsOK, OnAir, Around
  <2>2. b \in Program /\ OnAir(b)
    <3>1. n \in Nat \ {0}
      BY <2>1
    <3> QED BY <2>1, <3>1, MovedOn
  <2>3. buffer \in Seq(GroupUnit) /\ buffer = Begun(g, i, a.unit - 1)
          /\ w.pad.dataGroupLength = GroupUnits[g] /\ ElementOK(w.pad) /\ w \in PadWork
    BY <1>2, PadWorkFields, PadMemberFields DEF GroupState, GroupsOK, EntireOK
  <2> HIDE DEF b, buffer, g, i
  <2>4. a.unit - 1 \in Nat /\ 1 <= a.unit - 1
    BY <2>1
  <2>5. Len(buffer) = a.unit - 1 /\ buffer[1] = Unit(g, 1, i)
    <3>1. \A x \in 1 .. a.unit - 1 : Unit(g, x, i) \in GroupUnit
      BY <2>1, UnitOK
    <3> QED BY <2>3, <2>4, <3>1 DEF Begun
  <2>6. a.unit = Len(buffer) + 1
    BY <2>1, <2>5
  <2>7. Behind(buffer, i, b, h + 1)
    <3>1. h + 1 >= 1
      BY <1>0
    <3> QED BY <1>0, <2>1, <2>3, <2>6, <3>1, BehindStarts DEF b, i
  <2>8. InGroup(w, g)
    BY <2>3, <2>4, <2>5 DEF InGroup, buffer
  <2>9. GroupState(w, b, FALSE, s, h + 1)
    <3>1. \E x \in PadGroup, y \in 0 .. Around - 1 :
             /\ buffer[1] = Unit(x, 1, y) /\ InGroup(w, x)
             /\ \/ Mixed(buffer)
                \/ /\ buffer = Begun(x, y, Len(buffer))
                   /\ Behind(buffer, y, b, h + 1)
      BY <2>1, <2>3, <2>5, <2>7, <2>8
    <3> QED BY <1>0, <2>2, <3>1, StaysBehind DEF buffer
  <2> QED BY <2>9 DEF b, g
<1> QED BY <1>1, <1>2

\* The begin of a group is lost.
LEMMA BeginLost ==
  ASSUME NEW w, NEW a, NEW e, NEW s, NEW h \in 0 .. Around - 1, GroupState(w, a, e, s, h),
         a.group = None, NEW g \in PadGroup
  PROVE  GroupState(w, MovedUnit(a, g, 1), FALSE, s, h + 1)
<1> DEFINE b == MovedUnit(a, g, 1)
           buffer == w.pad.msc_dataGroupBuffer
<1>0. h \in 0 .. Around
  BY AroundOK
<1>1. a \in Program /\ OnAir(a) /\ a.index \in 0 .. Around - 1
  BY DEF GroupState, GroupsOK, OnAir, Around
<1>2. b \in Program /\ OnAir(b)
  BY <1>1, MovedOn
<1>3. buffer \in Seq(GroupUnit)
  BY PadWorkFields, PadMemberFields DEF GroupState
<1>4. ASSUME buffer # <<>>
      PROVE  \E x \in PadGroup, i \in 0 .. Around - 1 :
               /\ buffer[1] = Unit(x, 1, i) /\ InGroup(w, x)
               /\ \/ Mixed(buffer)
                  \/ buffer = Begun(x, i, Len(buffer)) /\ Behind(buffer, i, b, h + 1)
  <2>1. PICK x \in PadGroup, i \in 0 .. Around - 1 :
           /\ buffer[1] = Unit(x, 1, i) /\ InGroup(w, x)
           /\ \/ Mixed(buffer)
              \/ buffer = Begun(x, i, Len(buffer)) /\ Behind(buffer, i, a, h)
    BY <1>0, <1>4, NotEntire
  <2> HIDE DEF b, buffer
  <2>2. Behind(buffer, i, a, h) => Behind(buffer, i, b, h + 1)
    BY <1>1, <1>3, BehindBegins DEF b
  <2> QED BY <2>1, <2>2
<1> HIDE DEF b
<1>5. GroupState(w, b, FALSE, s, h + 1)
  BY <1>0, <1>2, <1>4, StaysBehind
<1> QED BY <1>5 DEF b

\* The slide after units of which all came of a group, up to the n-th.
SlideAfter(s, g, n) == IF n >= GroupUnits[g] THEN SlideOf(s, g) ELSE s

\* The next m units of the group.
UnitsFrom(a, m) == [j \in 1 .. m |-> Unit(a.group, a.unit + j - 1, a.index)]

\* After w, the size that was noted is the same.
StateAfter(u, w, b, e, s, h) ==
  GroupState(u, b, e, s, h) /\ u.pad.xpadLength = w.pad.xpadLength

\* Units of a group that is all there so far.
LEMMA UnitsEntire ==
  ASSUME NEW w, NEW a, NEW s, NEW h, GroupState(w, a, TRUE, s, h), a.group # None,
         NEW m \in Nat \ {0}
  PROVE  StateAfter(add_MSC_element(w, UnitsFrom(a, m)), w,
                    MovedUnit(a, a.group, a.unit + m - 1), TRUE,
                    SlideAfter(s, a.group, a.unit + m - 1), h)
<1> DEFINE units == UnitsFrom(a, m)
           k == a.unit - 1
           n == k + m
           g == a.group
           i == a.index
           b == MovedUnit(a, g, n)
           u == add_MSC_element(w, units)
<1>1. a \in Program /\ OnAir(a) /\ g \in PadGroup /\ i \in 0 .. Around - 1
        /\ a.unit \in Nat /\ a.unit >= 2 /\ GroupUnits[g] \in Nat
  BY PadGroupFields DEF GroupState, GroupsOK, OnAir, Around
<1>2. w.pad.msc_dataGroupBuffer = Begun(g, i, k)
        /\ w.pad.dataGroupLength = GroupUnits[g] /\ ElementOK(w.pad) /\ w \in PadWork
  BY DEF GroupState, GroupsOK, EntireOK
<1>3. k \in Nat \ {0} /\ n \in Nat \ {0} /\ a.unit + m - 1 = n
  BY <1>1
<1> HIDE DEF g, i
<1>4. units = [j \in 1 .. m |-> Unit(g, k + j, i)]
  <2>1. \A j \in 1 .. m : a.unit + j - 1 = k + j
    BY <1>1
  <2> QED BY <2>1 DEF g, i, UnitsFrom
<1> HIDE DEF k, units
<1>a. Begun(g, i, k) # <<>>
  <2>1. \A x \in 1 .. k : Unit(g, x, i) \in GroupUnit
    BY <1>1, <1>3, UnitOK
  <2>2. Len(Begun(g, i, k)) = k
    BY <1>3, <2>1 DEF Begun
  <2> QED BY <1>3, <2>2
<1>5. InGroup(w, g)
  BY <1>2, <1>a DEF InGroup
<1>6. SlideOK(w.pad.currentSlide, s) /\ s \in Slides \union {None}
  BY DEF GroupState
<1>b. GoneOn(u, w, g, i, n, s)
  BY <1>1, <1>2, <1>3, <1>4, <1>5, <1>6, AddGoing
<1> HIDE DEF u, n
<1>7. /\ u \in PadWork /\ ElementOK(u.pad)
      /\ u.pad.xpadLength = w.pad.xpadLength /\ u.pad.dataGroupLength = GroupUnits[g]
  BY <1>2, <1>b DEF GoneOn
<1>8. /\ b \in Program /\ OnAir(b)
      /\ n < GroupUnits[g] => b.group = g /\ b.unit = n + 1 /\ b.index = a.index
      /\ n >= GroupUnits[g] => b.group = None
  BY <1>1, <1>3, MovedOn DEF Around, i
<1> HIDE DEF b
<1>9. GroupState(u, b, TRUE, SlideAfter(s, g, n), h)
  <2>1. CASE n < GroupUnits[g]
    <3>1. ~(n >= GroupUnits[g])
      BY <1>1, <1>3, <2>1
    <3>2. SlideAfter(s, g, n) = s
      BY <3>1 DEF SlideAfter
    <3>3. b.group = g /\ b.unit = n + 1 /\ b.index = i
      BY <1>8, <2>1 DEF i
    <3>4. b.unit - 1 = n
      BY <1>3, <3>3
    <3>a. u.pad.mscGroupElement /\ u.pad.msc_dataGroupBuffer = Begun(g, i, n)
            /\ SlideOK(u.pad.currentSlide, s)
      BY <1>b, <2>1 DEF GoneOn
    <3>5. EntireOK(u.pad, b, TRUE)
      BY <1>7, <3>a, <3>3, <3>4 DEF EntireOK
    <3>6. Len(Begun(g, i, n)) = n /\ Begun(g, i, n)[1] = Unit(g, 1, i)
      <4>1. \A x \in 1 .. n : Unit(g, x, i) \in GroupUnit
        BY <1>1, <1>3, UnitOK
      <4> QED BY <1>3, <4>1 DEF Begun
    <3>7. BufferOK(u.pad, b, TRUE, h)
      BY <1>1, <1>7, <3>a, <3>3, <3>6 DEF BufferOK, Around
    <3> QED BY <1>6, <1>7, <1>8, <3>a, <3>2, <3>5, <3>7 DEF GroupState, GroupsOK
  <2>2. CASE n >= GroupUnits[g]
    <3>1. SlideAfter(s, g, n) = SlideOf(s, g)
      BY <2>2 DEF SlideAfter
    <3>a. /\ u.pad.msc_dataGroupBuffer = <<>>
          /\ SlideOK(u.pad.currentSlide, SlideOf(s, g)) /\ SlideOf(s, g) \in Slides \union {None}
      BY <1>b, <2>2 DEF GoneOn
    <3>2. EntireOK(u.pad, b, TRUE)
      BY <1>8, <2>2 DEF EntireOK
    <3>3. BufferOK(u.pad, b, TRUE, h)
      BY <3>a DEF BufferOK
    <3> QED BY <1>7, <1>8, <3>a, <3>1, <3>2, <3>3 DEF GroupState, GroupsOK
  <2>3. n < GroupUnits[g] \/ n >= GroupUnits[g]
    BY <1>1, <1>3
  <2> QED BY <2>1, <2>2, <2>3, Zenon
<1> QED BY <1>3, <1>7, <1>9 DEF b, u, g, units, StateAfter

\* Units of a group that is not: the first m of those up to the n-th.
LEMMA UnitsPartly ==
  ASSUME NEW w, NEW a, NEW s, NEW h \in 0 .. Around, GroupState(w, a, FALSE, s, h),
         a.group # None, NEW m \in Nat \ {0}, NEW n \in Nat, n >= a.unit
  PROVE  StateAfter(add_MSC_element(w, UnitsFrom(a, m)), w, MovedUnit(a, a.group, n), FALSE, s, h)
<1> DEFINE units == UnitsFrom(a, m)
           b == MovedUnit(a, a.group, n)
           u == add_MSC_element(w, units)
           old == w.pad.msc_dataGroupBuffer
<1>1. a \in Program /\ OnAir(a) /\ a.group \in PadGroup /\ a.index \in 0 .. Around - 1
        /\ a.unit \in Nat /\ a.unit >= 2 /\ w \in PadWork /\ old \in Seq(GroupUnit)
  BY PadGroupFields, PadWorkFields, PadMemberFields DEF GroupState, GroupsOK, OnAir, Around
<1>2. CASE old = <<>>
  <2>1. add_MSC_element(w, units) = w
    BY <1>2 DEF add_MSC_element
  <2> HIDE DEF units
  <2> QED BY <2>1, UnitsIgnored DEF StateAfter, units
<1>3. CASE old # <<>>
  <2>1. PICK g \in PadGroup, i \in 0 .. Around - 1 :
           /\ old[1] = Unit(g, 1, i) /\ InGroup(w, g)
           /\ \/ Mixed(old)
              \/ old = Begun(g, i, Len(old)) /\ Behind(old, i, a, h)
    BY <1>3, NotEntire
  <2>2. units \in Seq(GroupUnit) /\ Len(units) = m /\ units[1] = Unit(a.group, a.unit, a.index)
    <3>1. \A j \in 1 .. m : a.unit + j - 1 \in Nat /\ Unit(a.group, a.unit + j - 1, a.index) \in GroupUnit
      BY <1>1, UnitOK
    <3>2. a.unit + 1 - 1 = a.unit
      BY <1>1
    <3> QED BY <3>1, <3>2 DEF UnitsFrom
  <2> HIDE DEF units
  <2>3. \E p \in 1 .. Len(old) + 1 : (old \o units)[p] # Unit(old[1].group, p, old[1].index)
    <3> HIDE DEF old
    <3>1. CASE Mixed(old)
      <4>a. DOMAIN old = 1 .. Len(old)
        BY <1>1
      <4>1. PICK p \in 1 .. Len(old) : old[p] # Unit(old[1].group, p, old[1].index)
        BY <3>1, <4>a DEF Mixed
      <4>2. (old \o units)[p] = old[p] /\ p \in 1 .. Len(old) + 1
        BY <1>1, <2>2
      <4> QED BY <4>1, <4>2
    <3>2. CASE Behind(old, i, a, h)
      <4>1. Unit(a.group, a.unit, a.index) # Unit(g, Len(old) + 1, i)
        BY <1>1, <3>2, BehindOthers
      <4>2. (old \o units)[Len(old) + 1] = units[1] /\ Len(old) + 1 \in 1 .. Len(old) + 1
        BY <1>1, <2>2
      <4>3. old[1].group = g /\ old[1].index = i
        BY <2>1 DEF Unit
      <4> QED BY <2>2, <4>1, <4>2, <4>3
    <3> QED BY <2>1, <3>1, <3>2
  <2>4. Len(units) >= 1
    BY <2>2
  <2>5. /\ u \in PadWork /\ ElementOK(u.pad) /\ u.pad.currentSlide = w.pad.currentSlide
        /\ u.pad.xpadLength = w.pad.xpadLength /\ u.pad.dataGroupLength = w.pad.dataGroupLength
        /\ u.pad.msc_dataGroupBuffer # <<>> =>
             /\ Mixed(u.pad.msc_dataGroupBuffer)
             /\ u.pad.msc_dataGroupBuffer[1] = old[1]
    BY <2>1, <2>2, <2>3, <2>4, AddMixed
  <2> HIDE DEF u, old
  <2>6. b \in Program /\ OnAir(b)
    <3>1. n \in Nat \ {0}
      BY <1>1
    <3> QED BY <1>1, <3>1, MovedOn
  <2> HIDE DEF b
  <2>7. w.pad.dataGroupLength = GroupUnits[g]
    BY <2>1 DEF InGroup
  <2>8. BufferOK(u.pad, b, FALSE, h)
    BY <2>1, <2>5, <2>7 DEF BufferOK, Around
  <2>9. EntireOK(u.pad, b, FALSE)
    BY DEF EntireOK
  <2>10. SlideOK(u.pad.currentSlide, s) /\ s \in Slides \union {None}
    BY <2>5 DEF GroupState
  <2>11. GroupState(u, b, FALSE, s, h)
    BY <2>5, <2>6, <2>8, <2>9, <2>10 DEF GroupState, GroupsOK
  <2> QED BY <2>5, <2>11 DEF u, b, units, StateAfter
<1> QED BY <1>2, <1>3

\* The first unit of a group.
LEMMA BeginTaken ==
  ASSUME NEW w, NEW a, NEW e, NEW s, NEW h, GroupState(w, a, e, s, h), a.group = None,
         NEW g \in PadGroup
  PROVE  StateAfter(new_MSC_element([w EXCEPT !.pad.dataGroupLength = GroupUnits[g]],
                                    <<Unit(g, 1, a.index)>>), w,
                    MovedUnit(a, g, 1), TRUE, SlideAfter(s, g, 1), h)
<1> DEFINE v == [w EXCEPT !.pad.dataGroupLength = GroupUnits[g]]
           i == a.index
           units == <<Unit(g, 1, i)>>
           u == new_MSC_element(v, units)
           b == MovedUnit(a, g, 1)
<1>1. GroupUnits[g] \in Nat \ {0} /\ w \in PadWork /\ a \in Program /\ i \in 0 .. Around - 1
        /\ SlideOK(w.pad.currentSlide, s) /\ s \in Slides \union {None}
  BY PadGroupFields DEF GroupState, GroupsOK, OnAir, Around
<1>2. /\ v \in PadWork /\ v.pad.dataGroupLength = GroupUnits[g]
      /\ v.pad.currentSlide = w.pad.currentSlide
      /\ v.pad.xpadLength = w.pad.xpadLength
  <2>1. GroupUnits[g] \in Nat
    BY <1>1
  <2> QED BY <1>1, <2>1, LengthSet
<1> HIDE DEF v
<1>3. /\ b \in Program /\ OnAir(b)
      /\ 1 < GroupUnits[g] => b.group = g /\ b.unit = 1 + 1 /\ b.index = i
      /\ 1 >= GroupUnits[g] => b.group = None
  BY <1>1, MovedOn
<1> HIDE DEF i, b
<1>4. units \in Seq(GroupUnit) /\ Len(units) = 1 /\ units[1] = Unit(g, 1, i) /\ units = Begun(g, i, 1)
        /\ units # <<>> /\ <<>> \in Seq(GroupUnit)
  <2>1. Unit(g, 1, i) \in GroupUnit
    BY <1>1, UnitOK
  <2>2. units = Begun(g, i, 1)
    BY DEF Begun
  <2> QED BY <2>1, <2>2
<1> HIDE DEF units
<1>5. CASE 1 < GroupUnits[g]
  <2>1. u = [v EXCEPT !.pad.msc_dataGroupBuffer = units, !.pad.mscGroupElement = TRUE]
    BY <1>1, <1>2, <1>4, <1>5 DEF new_MSC_element
  <2> HIDE DEF u
  <2>2. /\ u \in PadWork /\ u.pad.msc_dataGroupBuffer = units /\ u.pad.mscGroupElement
        /\ u.pad.currentSlide = v.pad.currentSlide
        /\ u.pad.xpadLength = v.pad.xpadLength /\ u.pad.dataGroupLength = v.pad.dataGroupLength
    BY <1>2, <1>4, <2>1, ElementOn
  <2>3. ElementOK(u.pad)
    BY <1>2, <1>4, <1>5, <2>2 DEF ElementOK
  <2>4. EntireOK(u.pad, b, TRUE)
    <3>1. (1 + 1) - 1 = 1
      OBVIOUS
    <3> QED BY <1>2, <1>3, <1>4, <1>5, <2>2, <3>1 DEF EntireOK
  <2>5. BufferOK(u.pad, b, TRUE, h)
    BY <1>1, <1>2, <1>3, <1>4, <1>5, <2>2 DEF BufferOK, Around
  <2>6. SlideAfter(s, g, 1) = s
    BY <1>1, <1>5 DEF SlideAfter
  <2>7. GroupState(u, b, TRUE, SlideAfter(s, g, 1), h)
    BY <1>1, <1>2, <1>3, <2>2, <2>3, <2>4, <2>5, <2>6 DEF GroupState, GroupsOK
  <2> QED BY <1>2, <2>2, <2>7 DEF u, b, v, i, units, StateAfter
<1>6. CASE 1 >= GroupUnits[g]
  <2> DEFINE c == [v EXCEPT !.pad.msc_dataGroupBuffer = <<>>, !.pad.mscGroupElement = FALSE]
  <2>1. u = build_MSC_segment(c, units)
    BY <1>1, <1>2, <1>4, <1>6 DEF new_MSC_element
  <2>2. /\ c \in PadWork /\ c.pad.msc_dataGroupBuffer = <<>> /\ ~c.pad.mscGroupElement
        /\ c.pad.currentSlide = v.pad.currentSlide
        /\ c.pad.xpadLength = v.pad.xpadLength /\ c.pad.dataGroupLength = v.pad.dataGroupLength
    BY <1>2, <1>4, ElementOff
  <2> HIDE DEF c
  <2>3. u = Slide(c, g)
    <3>1. c.pad.dataGroupLength = GroupUnits[g] /\ GroupUnits[g] <= Len(units)
      BY <1>1, <1>2, <1>4, <1>6, <2>2
    <3>2. \A x \in 1 .. GroupUnits[g] : units[x] = Unit(g, x, i)
      BY <1>1, <1>4, <1>6
    <3> QED BY <1>4, <2>1, <3>1, <3>2, BuildWhole
  <2>4. /\ u \in PadWork
        /\ u.pad.mscGroupElement = c.pad.mscGroupElement
        /\ u.pad.xpadLength = c.pad.xpadLength
        /\ u.pad.dataGroupLength = c.pad.dataGroupLength
        /\ u.pad.msc_dataGroupBuffer = c.pad.msc_dataGroupBuffer
        /\ SlideOf(s, g) \in Slides \union {None}
        /\ SlideOK(u.pad.currentSlide, SlideOf(s, g))
    <3>1. SlideOK(c.pad.currentSlide, s)
      BY <1>1, <1>2, <2>2
    <3> QED BY <1>1, <2>2, <2>3, <3>1, SlideStep
  <2> HIDE DEF u
  <2>5. ElementOK(u.pad)
    <3>1. ~u.pad.mscGroupElement
      BY <2>2, <2>4
    <3> QED BY <2>2, <2>4, <3>1 DEF ElementOK
  <2>6. EntireOK(u.pad, b, TRUE)
    BY <1>3, <1>6 DEF EntireOK
  <2>7. BufferOK(u.pad, b, TRUE, h)
    BY <2>2, <2>4 DEF BufferOK
  <2>8. SlideAfter(s, g, 1) = SlideOf(s, g)
    BY <1>6 DEF SlideAfter
  <2>9. GroupState(u, b, TRUE, SlideAfter(s, g, 1), h)
    BY <1>3, <2>4, <2>5, <2>6, <2>7, <2>8 DEF GroupState, GroupsOK
  <2>10. u.pad.xpadLength = w.pad.xpadLength
    BY <1>2, <2>2, <2>4
  <2> QED BY <2>9, <2>10 DEF u, b, v, i, units, StateAfter
<1>7. 1 < GroupUnits[g] \/ 1 >= GroupUnits[g]
  BY <1>1
<1> QED BY <1>5, <1>6, <1>7, Zenon

-----------------------------------------------------------------------------
(* Subfields.                                                              *)

IsField(f) ==
  \/ f.ci = 0
  \/ f.ci = 1 /\ f.length \in Nat
  \/ f.ci = 2 /\ (f.label = None \/ (f.label \in Label /\ f.segment \in Segment(f.label)))
  \/ f.ci = 3 /\ f.label \in Label \union {None} /\ f.segment \in Nat /\ f.n \in Nat
  \/ f.ci \in {12, 13} /\ f.unit \in GroupUnit

\* Any segment leaves a padHandler.
LEMMA SlideClosed == ASSUME NEW w \in PadWork, NEW g \in PadGroup PROVE Slide(w, g) \in PadWork
<1> DEFINE slide == w.pad.currentSlide
           same == slide # None /\ slide.transportId = g.id
<1>1. g \in DataGroup /\ g.id \in Object
  BY PadGroupFields
<1>2. slide \in MotObject \union {None}
  BY PadWorkFields, PadMemberFields
<1>3. CASE g.type = "header" /\ ~same
  <2>1. Slide(w, g) = [w EXCEPT !.pad.currentSlide = motObject(g.id)]
    BY <1>3 DEF Slide
  <2>2. motObject(g.id) \in MotObject
    BY <1>1, NewObject
  <2> HIDE DEF slide, same
  <2> QED BY <2>1, <2>2, SlideSet
<1>4. CASE g.type = "body" /\ same
  <2> DEFINE r == addBodySegment(slide, g)
             u == [w EXCEPT !.pad.currentSlide = r.object]
             h == IF r.handed = None THEN w.handed ELSE Append(w.handed, r.handed)
             v == [u EXCEPT !.handed = h]
  <2>1. slide \in MotObject /\ g.id = slide.transportId
    BY <1>2, <1>4
  <2>2. r.object \in MotObject /\ r.handed \in WholeObject \union {None}
    BY <1>1, <1>4, <2>1, BodySegmentOK
  <2> HIDE DEF r
  <2>3. h \in Seq(WholeObject)
    BY <2>2, PadWorkFields
  <2>4. Slide(w, g) = [w EXCEPT !.pad.currentSlide = r.object, !.handed = h]
    BY <1>4 DEF Slide, r
  <2> HIDE DEF h
  <2>5. Slide(w, g) = v
    BY <2>4
  <2>6. u \in PadWork
    BY <2>2, SlideSet
  <2> HIDE DEF u
  <2>7. v \in PadWork
    BY <2>3, <2>6, HandedReplaced
  <2> QED BY <2>5, <2>7
<1>5. CASE ~(g.type = "header" /\ ~same) /\ ~(g.type = "body" /\ same)
  <2>1. Slide(w, g) = w
    BY <1>5 DEF Slide
  <2> QED BY <2>1
<1> QED BY <1>3, <1>4, <1>5

LEMMA BuildClosed ==
  ASSUME NEW w \in PadWork, NEW units \in Seq(GroupUnit)
  PROVE  build_MSC_segment(w, units) \in PadWork
<1> DEFINE n == w.pad.dataGroupLength
           k == IF Len(units) < n THEN Len(units) ELSE n
           taken == SubSeq(units, 1, k)
           whole == UnitsOf(taken[1].group, taken[1].index)
<1>1. n \in Nat
  BY PadWorkFields, PadMemberFields
<1> HIDE DEF n
<1>2. k \in Nat /\ k <= Len(units)
  BY <1>1
<1> HIDE DEF k
<1>3. taken \in Seq(GroupUnit)
  BY <1>2
<1> HIDE DEF taken, whole
<1>4. build_MSC_segment(w, units)
        = IF taken # <<>> /\ taken = whole THEN Slide(w, taken[1].group) ELSE w
  BY DEF build_MSC_segment, taken, whole, k, n
<1>5. taken # <<>> => taken[1].group \in PadGroup
  <2>1. taken # <<>> => taken[1] \in GroupUnit
    BY <1>3
  <2> QED BY <2>1 DEF GroupUnit
<1> QED BY <1>4, <1>5, SlideClosed

LEMMA NewClosed ==
  ASSUME NEW w \in PadWork, NEW x \in GroupUnit
  PROVE  new_MSC_element(w, <<x>>) \in PadWork
<1> DEFINE units == <<x>>
           c == [w EXCEPT !.pad.msc_dataGroupBuffer = <<>>, !.pad.mscGroupElement = FALSE]
           d == [w EXCEPT !.pad.msc_dataGroupBuffer = units, !.pad.mscGroupElement = TRUE]
<1>1. units \in Seq(GroupUnit) /\ <<>> \in Seq(GroupUnit)
  OBVIOUS
<1> HIDE DEF units
<1>2. c \in PadWork /\ d \in PadWork
  BY <1>1, ElementOn, ElementOff
<1>3. new_MSC_element(w, units)
        = IF Len(units) >= w.pad.dataGroupLength THEN build_MSC_segment(c, units) ELSE d
  BY DEF new_MSC_element
<1> HIDE DEF c, d
<1>4. new_MSC_element(w, units) \in PadWork
  BY <1>1, <1>2, <1>3, BuildClosed
<1> QED BY <1>4 DEF units

LEMMA AddClosed ==
  ASSUME NEW w \in PadWork, NEW x \in GroupUnit
  PROVE  add_MSC_element(w, <<x>>) \in PadWork
<1> DEFINE old == w.pad.msc_dataGroupBuffer
           buffer == old \o <<x>>
           c == build_MSC_segment(w, buffer)
<1>1. buffer \in Seq(GroupUnit) /\ <<>> \in Seq(GroupUnit)
  BY PadWorkFields, PadMemberFields
<1>2. add_MSC_element(w, <<x>>)
        = IF old = <<>> THEN w
          ELSE IF Len(buffer) >= w.pad.dataGroupLength THEN [c EXCEPT !.pad.msc_dataGroupBuffer = <<>>]
          ELSE [w EXCEPT !.pad.msc_dataGroupBuffer = buffer]
  BY DEF add_MSC_element
<1> HIDE DEF old, buffer
<1>3. c \in PadWork
  BY <1>1, BuildClosed
<1> HIDE DEF c
<1>4. [c EXCEPT !.pad.msc_dataGroupBuffer = <<>>] \in PadWork
        /\ [w EXCEPT !.pad.msc_dataGroupBuffer = buffer] \in PadWork
  BY <1>1, <1>3, BufferSet
<1> QED BY <1>2, <1>4

LEMMA SubfieldClosed ==
  ASSUME NEW w \in PadWork, NEW f, IsField(f), f.ci # 0
  PROVE  Subfield(w, f) \in PadWork
<1>1. CASE f.ci = 1 /\ f.length \in Nat
  <2>1. Subfield(w, f) = [w EXCEPT !.pad.dataGroupLength = f.length]
    BY <1>1 DEF Subfield
  <2> QED BY <1>1, <2>1, LengthSet
<1>2. CASE f.ci = 2 /\ (f.label = None \/ (f.label \in Label /\ f.segment \in Segment(f.label)))
  <2>1. Subfield(w, f) = IF f.label = None THEN LabelCommand(w) ELSE SegmentStart(w, f)
    BY <1>2 DEF Subfield
  <2> QED BY <1>2, <2>1, ClearOK, SegmentStartOK DEF LabelCommand
<1>3. CASE f.ci = 3 /\ f.label \in Label \union {None} /\ f.segment \in Nat /\ f.n \in Nat
  <2>1. Subfield(w, f) = SegmentMore(w, f)
    BY <1>3 DEF Subfield
  <2> QED BY <1>3, <2>1, SegmentMoreOK
<1>4. CASE f.ci = 12 /\ f.unit \in GroupUnit
  <2>1. Subfield(w, f) = new_MSC_element(w, <<f.unit>>)
    BY <1>4 DEF Subfield
  <2> QED BY <1>4, <2>1, NewClosed
<1>5. CASE f.ci = 13 /\ f.unit \in GroupUnit
  <2>1. Subfield(w, f) = add_MSC_element(w, <<f.unit>>)
    BY <1>5 DEF Subfield
  <2> QED BY <1>5, <2>1, AddClosed
<1> QED BY <1>1, <1>2, <1>3, <1>4, <1>5 DEF IsField

\* The subfields of a PAD, one after another.
Handles(k, n, w, fields) ==
  /\ k[0] = w
  /\ \A i \in 1 .. n : k[i] = Subfield(k[i - 1], fields[i])

LEMMA SubfieldsHandled ==
  ASSUME NEW w \in PadWork, NEW n \in Nat, NEW fields, DOMAIN fields = 1 .. n,
         \A i \in 1 .. n : IsField(fields[i]) /\ fields[i].ci # 0
  PROVE  \E k : Handles(k, n, w, fields) /\ FoldLeft(Subfield, w, fields) = k[n]
<1> DEFINE F == [x \in PadWork \X (1 .. n) |-> Subfield(x[1], fields[x[2]])]
           Step(k, s) == IF s = {} THEN w ELSE Subfield(k[s \ {Max(s)}], fields[Max(s)])
<1>2. F \in [PadWork \X (1 .. n) -> PadWork]
  <2>1. \A v \in PadWork : \A i \in 1 .. n : Subfield(v, fields[i]) \in PadWork
    BY SubfieldClosed
  <2> QED BY <2>1
<1>3. PICK g : IsFold(g, PadWork, w, n, F)
  <2> HIDE DEF F
  <2> QED BY <1>2, FoldExists
<1>4. g = [s \in SUBSET (1 .. n) |-> Step(g, s)]
  <2>1. ASSUME NEW s \in SUBSET (1 .. n), s # {}
        PROVE  F[<<g[s \ {Max(s)}], Max(s)>>] = Subfield(g[s \ {Max(s)}], fields[Max(s)])
    <3>1. Max(s) \in 1 .. n
      BY <2>1, MaxFound
    <3>2. g[s \ {Max(s)}] \in PadWork
      BY <1>3 DEF IsFold
    <3> QED BY <3>1, <3>2
  <2> HIDE DEF F
  <2> QED BY <1>3, <2>1 DEF IsFold
<1>5. PICK k : /\ k = [s \in SUBSET (DOMAIN fields) |-> Step(k, s)]
               /\ FoldLeft(Subfield, w, fields) = k[DOMAIN fields]
  BY <1>4, Zenon DEF FoldLeft, MapThenFoldSet
<1>6. ASSUME NEW i \in 1 .. n PROVE k[1 .. i] = Subfield(k[1 .. (i - 1)], fields[i])
  BY <1>5, UpTo
<1>7. k[1 .. 0] = w
  BY <1>5
<1> DEFINE c == [i \in 0 .. n |-> k[1 .. i]]
<1>8. c[0] = w
  BY <1>7
<1>9. ASSUME NEW i \in 1 .. n PROVE c[i] = Subfield(c[i - 1], fields[i])
  <2>1. i \in 0 .. n /\ i - 1 \in 0 .. n
    OBVIOUS
  <2> QED BY <1>6, <2>1
<1>10. c[n] = FoldLeft(Subfield, w, fields)
  <2>1. c[n] = k[1 .. n]
    OBVIOUS
  <2> QED BY <1>5, <2>1
<1> HIDE DEF c
<1> QED BY <1>8, <1>9, <1>10 DEF Handles

-----------------------------------------------------------------------------
(* What came through.                                                      *)

\* The broadcaster is at the same place.
Placed(b, a) ==
  /\ b.label = a.label /\ b.segment = a.segment /\ b.n = a.n
  /\ b.command = a.command
  /\ b.group = a.group /\ b.unit = a.unit /\ b.index = a.index /\ b.size = a.size

LEMMA IntactSet ==
  ASSUME NEW a \in Program, NEW i \in BOOLEAN, NEW d \in Seq(Label \union ShortLabel)
  PROVE  LET b == [a EXCEPT !.intact = i, !.due = d] IN
         /\ b \in Program /\ Placed(b, a) /\ b.entire = a.entire /\ b.arrived = a.arrived
BY DEF Program, Placed

ArrivedNow(b, a, e, d) == b \in Program /\ Placed(b, a) /\ b.entire = e /\ b.arrived = d

LEMMA EntireSet ==
  ASSUME NEW a \in Program, NEW d \in Seq(PadGroup)
  PROVE  \A e \in BOOLEAN : ArrivedNow([a EXCEPT !.entire = e, !.arrived = d], a, e, d)
BY DEF Program, Placed, ArrivedNow

LEMMA ProgramFields ==
  ASSUME NEW a \in Program
  PROVE  /\ a.intact \in BOOLEAN /\ a.entire \in BOOLEAN /\ a.due \in Seq(Label \union ShortLabel)
         /\ a.arrived \in Seq(PadGroup) /\ a.slide \in {None} \union Slides
BY DEF Program, Slides

\* The slide that a series of groups makes.
SlidesOf(s, groups) == FoldLeft(SlideOf, s, groups)

\* A subfield of a label, or of no data.
LEMMA OtherCame ==
  ASSUME NEW a \in Program, NEW f, IsField(f), f.ci \notin {12, 13}, NEW got \in BOOLEAN
  PROVE  LET b == Came(a, f, got) IN
         /\ b \in Program /\ Placed(b, a) /\ b.entire = a.entire /\ b.arrived = a.arrived
<1>1. CASE f.ci \in {2, 3}
  <2> DEFINE i == f.label # None /\ got /\ (a.intact \/ (f.segment = 1 /\ f.n = 1))
             d == IF i /\ EndsLabel(f) THEN Append(a.due, f.label) ELSE a.due
             b == [a EXCEPT !.intact = i, !.due = d]
  <2>1. Came(a, f, got) = b
    BY <1>1 DEF Came
  <2>2. i \in BOOLEAN
    OBVIOUS
  <2>3. i => f.label \in Label
    BY <1>1 DEF IsField
  <2> HIDE DEF i
  <2>4. d \in Seq(Label \union ShortLabel)
    BY <2>3, ProgramFields
  <2> HIDE DEF d
  <2>5. b \in Program /\ Placed(b, a) /\ b.entire = a.entire /\ b.arrived = a.arrived
    BY <2>2, <2>4, IntactSet
  <2> QED BY <2>1, <2>5, Zenon
<1>2. CASE f.ci \notin {2, 3}
  <2>1. Came(a, f, got) = a
    BY <1>2 DEF Came
  <2> QED BY <2>1 DEF Placed
<1> QED BY <1>1, <1>2, Zenon

\* A unit of a data group.
CameEntire(a, f, got) == got /\ (a.entire \/ f.ci = 12)

CameArrived(a, f, got) ==
  IF CameEntire(a, f, got) /\ f.unit.n = GroupUnits[f.unit.group]
  THEN Append(a.arrived, f.unit.group) ELSE a.arrived

LEMMA UnitCame ==
  ASSUME NEW a \in Program, NEW f, f.ci \in {12, 13}, f.unit \in GroupUnit, NEW got \in BOOLEAN
  PROVE  ArrivedNow(Came(a, f, got), a, CameEntire(a, f, got), CameArrived(a, f, got))
<1> DEFINE e == got /\ (a.entire \/ f.ci = 12)
           d == IF e /\ f.unit.n = GroupUnits[f.unit.group]
                THEN Append(a.arrived, f.unit.group) ELSE a.arrived
           b == [a EXCEPT !.entire = e, !.arrived = d]
<1>0. f.ci \notin {2, 3}
  OBVIOUS
<1>1. Came(a, f, got) = b
  BY <1>0, Zenon DEF Came
<1>2. d \in Seq(PadGroup)
  <2>1. f.unit.group \in PadGroup
    BY DEF GroupUnit
  <2> QED BY <2>1, ProgramFields
<1>3. e \in BOOLEAN
  OBVIOUS
<1>4. ArrivedNow(b, a, e, d)
  <2> HIDE DEF d, e
  <2> QED BY <1>2, <1>3, EntireSet
<1> HIDE DEF b
<1>5. ArrivedNow(Came(a, f, got), a, e, d)
  <2> HIDE DEF d, e
  <2> QED BY <1>1, <1>4
<1> QED BY <1>5, Zenon DEF CameEntire, CameArrived

LEMMA CameClosed ==
  ASSUME NEW a \in Program, NEW f, IsField(f), NEW got \in BOOLEAN
  PROVE  Came(a, f, got) \in Program /\ Placed(Came(a, f, got), a)
<1>1. CASE f.ci \in {12, 13}
  <2>1. f.unit \in GroupUnit
    BY <1>1 DEF IsField
  <2>2. ArrivedNow(Came(a, f, got), a, CameEntire(a, f, got), CameArrived(a, f, got))
    BY <1>1, <2>1, UnitCame
  <2> QED BY <2>2, Zenon DEF ArrivedNow
<1>2. CASE f.ci \notin {12, 13}
  BY <1>2, OtherCame, Zenon
<1> QED BY <1>1, <1>2, Zenon

\* Subfields one after another, of which the first got came.
Comes(c, n, a, fields, got) ==
  /\ c[0] = a
  /\ \A i \in 1 .. n : c[i] = Came(c[i - 1], fields[i], i <= got)

Numbered(fields, got) == [i \in DOMAIN fields |-> [f |-> fields[i], got |-> i <= got]]

AllCame(a, numbered) == FoldLeft(LAMBDA b, x : Came(b, x.f, x.got), a, numbered)

LEMMA FieldsCame ==
  ASSUME NEW a \in Program, NEW n \in Nat, NEW fields, DOMAIN fields = 1 .. n,
         \A i \in 1 .. n : IsField(fields[i]), NEW got \in Int
  PROVE  \E c : /\ Comes(c, n, a, fields, got)
                /\ AllCame(a, Numbered(fields, got)) = c[n]
<1> DEFINE numbered == Numbered(fields, got)
           F == [x \in Program \X (1 .. n) |-> Came(x[1], numbered[x[2]].f, numbered[x[2]].got)]
           Step(k, s) == IF s = {} THEN a
                         ELSE Came(k[s \ {Max(s)}], numbered[Max(s)].f, numbered[Max(s)].got)
<1>1. /\ DOMAIN numbered = 1 .. n
      /\ \A i \in 1 .. n : numbered[i].f = fields[i] /\ numbered[i].got = (i <= got)
  BY DEF Numbered
<1>a. \A i \in 1 .. n : (i <= got) \in BOOLEAN
  OBVIOUS
<1> HIDE DEF numbered
<1>2. F \in [Program \X (1 .. n) -> Program]
  <2>1. ASSUME NEW v \in Program, NEW i \in 1 .. n
        PROVE  Came(v, numbered[i].f, numbered[i].got) \in Program
    BY <1>1, <1>a, CameClosed
  <2> QED BY <2>1
<1>3. PICK g : IsFold(g, Program, a, n, F)
  <2> HIDE DEF F
  <2> QED BY <1>2, FoldExists
<1>4. g = [s \in SUBSET (1 .. n) |-> Step(g, s)]
  <2>1. ASSUME NEW s \in SUBSET (1 .. n), s # {}
        PROVE  F[<<g[s \ {Max(s)}], Max(s)>>]
                 = Came(g[s \ {Max(s)}], numbered[Max(s)].f, numbered[Max(s)].got)
    <3>1. Max(s) \in 1 .. n
      BY <2>1, MaxFound
    <3>2. g[s \ {Max(s)}] \in Program
      BY <1>3 DEF IsFold
    <3> QED BY <3>1, <3>2
  <2> HIDE DEF F
  <2> QED BY <1>3, <2>1 DEF IsFold
<1>5. PICK k : /\ k = [s \in SUBSET (DOMAIN numbered) |-> Step(k, s)]
               /\ FoldLeft(LAMBDA b, x : Came(b, x.f, x.got), a, numbered) = k[DOMAIN numbered]
  BY <1>1, <1>4, Zenon DEF FoldLeft, MapThenFoldSet
<1>6. ASSUME NEW i \in 1 .. n PROVE k[1 .. i] = Came(k[1 .. (i - 1)], numbered[i].f, numbered[i].got)
  BY <1>1, <1>5, UpTo
<1>7. k[1 .. 0] = a
  <2>1. 1 .. 0 = {} /\ 1 .. 0 \in SUBSET (1 .. n)
    OBVIOUS
  <2> QED BY <1>1, <1>5, <2>1
<1> DEFINE c == [i \in 0 .. n |-> k[1 .. i]]
<1>8. c[0] = a
  BY <1>7
<1>9. ASSUME NEW i \in 1 .. n PROVE c[i] = Came(c[i - 1], fields[i], i <= got)
  <2>1. i \in 0 .. n /\ i - 1 \in 0 .. n
    OBVIOUS
  <2>2. c[i] = k[1 .. i] /\ c[i - 1] = k[1 .. (i - 1)]
    BY <2>1
  <2> HIDE DEF c
  <2> QED BY <1>1, <1>6, <2>2
<1>10. c[n] = AllCame(a, numbered)
  <2>1. c[n] = k[1 .. n]
    OBVIOUS
  <2> QED BY <1>1, <1>5, <2>1, Zenon DEF AllCame
<1> HIDE DEF c
<1> QED BY <1>8, <1>9, <1>10 DEF Comes, numbered

\* All of it leaves the broadcaster where it is.
LEMMA CamesPlaced ==
  ASSUME NEW a \in Program, NEW n \in Nat, NEW fields,
         \A i \in 1 .. n : IsField(fields[i]), NEW got \in Int, NEW c, Comes(c, n, a, fields, got)
  PROVE  \A i \in 0 .. n : c[i] \in Program /\ Placed(c[i], a)
<1> DEFINE S == {i \in Nat : i <= n => c[i] \in Program /\ Placed(c[i], a)}
<1>1. 0 \in S
  BY DEF Comes, Placed
<1>2. ASSUME NEW i \in Nat, i \in S PROVE i + 1 \in S
  <2>1. SUFFICES ASSUME i + 1 <= n PROVE c[i + 1] \in Program /\ Placed(c[i + 1], a)
    OBVIOUS
  <2>2. i + 1 \in 1 .. n /\ (i + 1) - 1 = i /\ (i + 1 <= got) \in BOOLEAN
    BY <2>1
  <2>3. c[i] \in Program /\ Placed(c[i], a)
    BY <1>2, <2>1
  <2>4. c[i + 1] = Came(c[i], fields[i + 1], i + 1 <= got)
    BY <2>2 DEF Comes
  <2>5. c[i + 1] \in Program /\ Placed(c[i + 1], c[i])
    BY <2>2, <2>3, <2>4, CameClosed
  <2> QED BY <2>3, <2>5 DEF Placed
<1> HIDE DEF S
<1>3. \A i \in Nat : i \in S
  BY <1>1, <1>2, AllNumbers
<1> QED BY <1>3 DEF S

-----------------------------------------------------------------------------
(* The slides that data groups make.                                       *)

LEMMA SlideOfClosed ==
  ASSUME NEW s \in Slides \union {None}, NEW g \in PadGroup
  PROVE  SlideOf(s, g) \in Slides \union {None}
<1>1. g.id \in Object /\ (g.type = "body" => Piece(g) \in Pieces(Object))
  BY PadGroupFields
<1>2. CASE g.type = "header" /\ (s = None \/ s.id # g.id)
  <2>1. SlideOf(s, g) = [id |-> g.id, got |-> {}]
    BY <1>2 DEF SlideOf
  <2>2. {} \in SUBSET Pieces(Object)
    OBVIOUS
  <2> QED BY <1>1, <2>1, <2>2 DEF Slides
<1>3. CASE g.type = "body" /\ s # None /\ s.id = g.id
  <2> DEFINE t == s.got \union {Piece(g)}
  <2>1. SlideOf(s, g) = [s EXCEPT !.got = t]
    BY <1>3 DEF SlideOf
  <2>2. s \in Slides
    BY <1>3
  <2>3. s.got \in SUBSET Pieces(Object)
    BY <2>2 DEF Slides
  <2>4. t \in SUBSET Pieces(Object)
    BY <1>1, <1>3, <2>3
  <2> HIDE DEF t
  <2> QED BY <2>1, <2>2, <2>4 DEF Slides
<1>4. CASE ~(g.type = "header" /\ (s = None \/ s.id # g.id)) /\ ~(g.type = "body" /\ s # None /\ s.id = g.id)
  <2>1. SlideOf(s, g) = s
    BY <1>4 DEF SlideOf
  <2> QED BY <2>1
<1> QED BY <1>2, <1>3, <1>4

Makes(c, n, s, groups) ==
  /\ c[0] = s
  /\ \A i \in 1 .. n : c[i] = SlideOf(c[i - 1], groups[i])

LEMMA SlidesMade ==
  ASSUME NEW s \in Slides \union {None}, NEW groups \in Seq(PadGroup)
  PROVE  \E c : Makes(c, Len(groups), s, groups) /\ SlidesOf(s, groups) = c[Len(groups)]
<1> DEFINE n == Len(groups)
           V == Slides \union {None}
           F == [x \in V \X (1 .. n) |-> SlideOf(x[1], groups[x[2]])]
           Step(k, t) == IF t = {} THEN s ELSE SlideOf(k[t \ {Max(t)}], groups[Max(t)])
<1>1. n \in Nat /\ DOMAIN groups = 1 .. n /\ \A i \in 1 .. n : groups[i] \in PadGroup
  OBVIOUS
<1> HIDE DEF n
<1>2. F \in [V \X (1 .. n) -> V]
  <2>1. ASSUME NEW v \in V, NEW i \in 1 .. n PROVE SlideOf(v, groups[i]) \in V
    BY <1>1, SlideOfClosed
  <2> HIDE DEF V
  <2> QED BY <2>1
<1>3. PICK g : IsFold(g, V, s, n, F)
  <2>1. s \in V
    OBVIOUS
  <2> HIDE DEF F, V
  <2> QED BY <1>1, <1>2, <2>1, FoldExists
<1> HIDE DEF V
<1>4. g = [t \in SUBSET (1 .. n) |-> Step(g, t)]
  <2>1. ASSUME NEW t \in SUBSET (1 .. n), t # {}
        PROVE  F[<<g[t \ {Max(t)}], Max(t)>>] = SlideOf(g[t \ {Max(t)}], groups[Max(t)])
    <3>1. Max(t) \in 1 .. n
      BY <1>1, <2>1, MaxFound
    <3>2. g[t \ {Max(t)}] \in V
      BY <1>3 DEF IsFold
    <3> QED BY <3>1, <3>2
  <2> HIDE DEF F
  <2> QED BY <1>3, <2>1 DEF IsFold
<1>5. PICK k : /\ k = [t \in SUBSET (DOMAIN groups) |-> Step(k, t)]
               /\ FoldLeft(SlideOf, s, groups) = k[DOMAIN groups]
  BY <1>1, <1>4, Zenon DEF FoldLeft, MapThenFoldSet
<1>6. ASSUME NEW i \in 1 .. n PROVE k[1 .. i] = SlideOf(k[1 .. (i - 1)], groups[i])
  BY <1>1, <1>5, UpTo
<1>7. k[1 .. 0] = s
  <2>1. 1 .. 0 = {} /\ 1 .. 0 \in SUBSET (1 .. n)
    OBVIOUS
  <2> QED BY <1>1, <1>5, <2>1
<1> DEFINE c == [i \in 0 .. n |-> k[1 .. i]]
<1>8. c[0] = s
  BY <1>1, <1>7
<1>9. ASSUME NEW i \in 1 .. n PROVE c[i] = SlideOf(c[i - 1], groups[i])
  <2>1. i \in 0 .. n /\ i - 1 \in 0 .. n
    BY <1>1
  <2>2. c[i] = k[1 .. i] /\ c[i - 1] = k[1 .. (i - 1)]
    BY <2>1
  <2> HIDE DEF c
  <2> QED BY <1>6, <2>2
<1>10. c[n] = FoldLeft(SlideOf, s, groups)
  <2>1. c[n] = k[1 .. n]
    BY <1>1
  <2> QED BY <1>1, <1>5, <2>1
<1> HIDE DEF c
<1> QED BY <1>8, <1>9, <1>10 DEF Makes, n, SlidesOf

LEMMA NoSlides == ASSUME NEW s \in Slides \union {None} PROVE SlidesOf(s, <<>>) = s
<1>1. <<>> \in Seq(PadGroup) /\ Len(<<>>) = 0
  OBVIOUS
<1>2. PICK c : Makes(c, Len(<<>>), s, <<>>) /\ SlidesOf(s, <<>>) = c[Len(<<>>)]
  BY <1>1, SlidesMade
<1> QED BY <1>1, <1>2 DEF Makes

LEMMA SlidesClosed ==
  ASSUME NEW s \in Slides \union {None}, NEW groups \in Seq(PadGroup)
  PROVE  SlidesOf(s, groups) \in Slides \union {None}
<1> DEFINE n == Len(groups)
<1>1. PICK c : Makes(c, n, s, groups) /\ SlidesOf(s, groups) = c[n]
  BY SlidesMade
<1>2. n \in Nat /\ \A i \in 1 .. n : groups[i] \in PadGroup
  OBVIOUS
<1> HIDE DEF n
<1> DEFINE S == {i \in Nat : i <= n => c[i] \in Slides \union {None}}
<1>3. 0 \in S
  BY <1>1 DEF Makes
<1>4. ASSUME NEW i \in Nat, i \in S PROVE i + 1 \in S
  <2>1. SUFFICES ASSUME i + 1 <= n PROVE c[i + 1] \in Slides \union {None}
    OBVIOUS
  <2>2. i + 1 \in 1 .. n /\ (i + 1) - 1 = i /\ c[i] \in Slides \union {None}
    BY <1>2, <1>4, <2>1
  <2>3. c[i + 1] = SlideOf(c[i], groups[i + 1])
    BY <1>1, <2>2 DEF Makes
  <2> QED BY <1>2, <2>2, <2>3, SlideOfClosed
<1> HIDE DEF S
<1>5. \A i \in Nat : i \in S
  BY <1>3, <1>4, AllNumbers
<1>6. n <= n
  BY <1>2
<1> QED BY <1>1, <1>2, <1>5, <1>6 DEF S

LEMMA SlidesMore ==
  ASSUME NEW s \in Slides \union {None}, NEW groups \in Seq(PadGroup), NEW g \in PadGroup
  PROVE  SlidesOf(s, Append(groups, g)) = SlideOf(SlidesOf(s, groups), g)
<1> DEFINE n == Len(groups)
           more == Append(groups, g)
<1>1. PICK c : Makes(c, n, s, groups) /\ SlidesOf(s, groups) = c[n]
  BY SlidesMade
<1>2. /\ n \in Nat /\ more \in Seq(PadGroup) /\ Len(more) = n + 1 /\ more[n + 1] = g
      /\ \A i \in 1 .. n : more[i] = groups[i]
  OBVIOUS
<1> HIDE DEF n, more
<1>3. PICK d : Makes(d, n + 1, s, more) /\ SlidesOf(s, more) = d[n + 1]
  BY <1>2, SlidesMade
<1> DEFINE S == {i \in Nat : i <= n => d[i] = c[i]}
<1>4. 0 \in S
  BY <1>1, <1>3 DEF Makes
<1>5. ASSUME NEW i \in Nat, i \in S PROVE i + 1 \in S
  <2>1. SUFFICES ASSUME i + 1 <= n PROVE d[i + 1] = c[i + 1]
    OBVIOUS
  <2>2. i + 1 \in 1 .. n /\ i + 1 \in 1 .. n + 1 /\ (i + 1) - 1 = i /\ d[i] = c[i]
    BY <1>2, <1>5, <2>1
  <2>3. c[i + 1] = SlideOf(c[i], groups[i + 1])
    BY <1>1, <2>2 DEF Makes
  <2>4. d[i + 1] = SlideOf(d[i], more[i + 1])
    BY <1>3, <2>2 DEF Makes
  <2> QED BY <1>2, <2>2, <2>3, <2>4
<1> HIDE DEF S
<1>6. \A i \in Nat : i \in S
  BY <1>4, <1>5, AllNumbers
<1>7. n <= n /\ n + 1 \in 1 .. n + 1 /\ (n + 1) - 1 = n
  BY <1>2
<1>8. d[n] = c[n]
  BY <1>2, <1>6, <1>7 DEF S
<1>9. d[n + 1] = SlideOf(d[n], more[n + 1])
  BY <1>3, <1>7 DEF Makes
<1> QED BY <1>1, <1>2, <1>3, <1>8, <1>9 DEF more

-----------------------------------------------------------------------------
(* Moves of the broadcaster.                                               *)

\* A part of a label or a command; the begin of a group; more of it; and an application
\* that is not handled.
IsLabelMove(m, a) ==
  \E f : /\ m.fields = <<f>> /\ IsField(f) /\ f.ci \in {2, 3}
         /\ AirOf(m.air, a) /\ m.air \in Program /\ LabelOK(m.air, Label)

IsBeginMove(m, a) ==
  /\ a.group = None
  /\ \E g \in PadGroup :
       /\ m.fields = <<[ci |-> 1, length |-> GroupUnits[g]], UnitField(g, 1, a.index)>>
       /\ m.air = MovedUnit(a, g, 1)

IsGoMove(m, a) ==
  /\ a.group # None
  /\ m.fields = <<UnitField(a.group, a.unit, a.index)>>
  /\ m.air = MovedUnit(a, a.group, a.unit)

IsOtherMove(m, a) == m.fields = <<[ci |-> 0]>> /\ m.air = a

LEMMA LabelSet ==
  ASSUME NEW a \in Program, NEW l \in Label \union {None}, NEW s \in Nat, NEW n \in Nat,
         l # None => s \in Segment(l)
  PROVE  LET b == [a EXCEPT !.label = l, !.segment = s, !.n = n] IN
         b \in Program /\ AirOf(b, a) /\ LabelOK(b, Label)
BY DEF Program, AirOf, LabelOK

LEMMA CommandSet ==
  ASSUME NEW a \in Program, NEW i \in BOOLEAN
  PROVE  LET b == [a EXCEPT !.command = i] IN
         b \in Program /\ AirOf(b, a) /\ (LabelOK(a, Label) => LabelOK(b, Label))
BY DEF Program, AirOf, LabelOK

LEMMA MovedOK ==
  ASSUME NEW a \in Program, NEW l \in Label, NEW s \in Segment(l), NEW n \in Nat
  PROVE  Moved(a, l, s, n) \in Program /\ AirOf(Moved(a, l, s, n), a)
           /\ LabelOK(Moved(a, l, s, n), Label)
<1>0. /\ Characters[l] \in Seq(Nat \ {0}) /\ Segment(l) = 1 .. Len(Characters[l])
      /\ Len(Characters[l]) \in Nat /\ s \in Nat
  BY PadAssumption DEF Segment
<1>1. CASE n < Characters[l][s]
  <2> DEFINE b == [a EXCEPT !.label = l, !.segment = s, !.n = n + 1]
  <2>1. Moved(a, l, s, n) = b
    BY <1>1 DEF Moved
  <2>2. n + 1 \in Nat
    OBVIOUS
  <2>3. b \in Program /\ AirOf(b, a) /\ LabelOK(b, Label)
    BY <1>0, <2>2, LabelSet
  <2> HIDE DEF b
  <2> QED BY <2>1, <2>3
<1>2. CASE ~(n < Characters[l][s]) /\ s < Len(Characters[l])
  <2> DEFINE b == [a EXCEPT !.label = l, !.segment = s + 1, !.n = 1]
  <2>1. Moved(a, l, s, n) = b
    BY <1>2 DEF Moved
  <2>2. s + 1 \in Nat /\ 1 \in Nat /\ s + 1 \in Segment(l)
    BY <1>0, <1>2
  <2>3. b \in Program /\ AirOf(b, a) /\ LabelOK(b, Label)
    BY <2>2, LabelSet
  <2> HIDE DEF b
  <2> QED BY <2>1, <2>3
<1>3. CASE ~(n < Characters[l][s]) /\ ~(s < Len(Characters[l]))
  <2> DEFINE b == [a EXCEPT !.label = None, !.segment = 1, !.n = 1]
  <2>1. Moved(a, l, s, n) = b
    BY <1>3 DEF Moved
  <2>2. 1 \in Nat
    OBVIOUS
  <2>3. b \in Program /\ AirOf(b, a) /\ LabelOK(b, Label)
    BY <2>2, LabelSet
  <2> HIDE DEF b
  <2> QED BY <2>1, <2>3
<1> QED BY <1>1, <1>2, <1>3

LEMMA LabelFields ==
  ASSUME NEW l, NEW s \in Nat, NEW n \in Nat, l \in Label \union {None},
         l # None /\ n = 1 => s \in Segment(l)
  PROVE  IsField(LabelField(l, s, n)) /\ LabelField(l, s, n).ci \in {2, 3}
<1> DEFINE f == LabelField(l, s, n)
<1>1. f.ci = (IF n = 1 THEN 2 ELSE 3) /\ f.label = l /\ f.segment = s /\ f.n = n
  BY DEF LabelField
<1> HIDE DEF f
<1>2. f.ci \in {2, 3} /\ IsField(f)
  <2>1. CASE n = 1
    BY <1>1, <2>1 DEF IsField
  <2>2. CASE n # 1
    BY <1>1, <2>2 DEF IsField
  <2> QED BY <2>1, <2>2
<1> QED BY <1>2 DEF f

LEMMA LabelMoveKinds ==
  ASSUME NEW a \in Program, LabelOK(a, Label), NEW m \in LabelMoves(a)
  PROVE  IsLabelMove(m, a)
<1>0. a.segment \in Nat /\ a.n \in Nat /\ 1 \in Nat /\ 2 \in Nat
  BY DEF LabelOK
<1>1. CASE \E l \in LabelSent : m = Move(<<LabelField(l, 1, 1)>>, Moved(a, l, 1, 1))
  <2>1. PICK l \in LabelSent : m = Move(<<LabelField(l, 1, 1)>>, Moved(a, l, 1, 1))
    BY <1>1
  <2>2. l \in Label
    BY DEF LabelSent
  <2>3. 1 \in Segment(l)
    <3>1. Characters[l] \in Seq(Nat \ {0}) /\ Characters[l] # <<>>
      BY <2>2, PadAssumption
    <3> HIDE DEF LabelSent
    <3>2. Len(Characters[l]) \in Nat /\ Len(Characters[l]) # 0 /\ DOMAIN Characters[l] = 1 .. Len(Characters[l])
      BY <3>1
    <3> QED BY <3>2 DEF Segment
  <2>4. IsField(LabelField(l, 1, 1)) /\ LabelField(l, 1, 1).ci \in {2, 3}
    BY <1>0, <2>2, <2>3, LabelFields
  <2>5. Moved(a, l, 1, 1) \in Program /\ AirOf(Moved(a, l, 1, 1), a)
           /\ LabelOK(Moved(a, l, 1, 1), Label)
    BY <1>0, <2>2, <2>3, MovedOK
  <2> QED BY <2>1, <2>4, <2>5 DEF IsLabelMove, Move
<1>2. CASE m = Move(<<LabelField(None, 1, 1)>>,
                    [a EXCEPT !.label = None, !.segment = 1, !.command = TRUE])
  <2> DEFINE x == [a EXCEPT !.label = None, !.segment = 1, !.n = a.n]
             b == [x EXCEPT !.command = TRUE]
  <2>1. [a EXCEPT !.label = None, !.segment = 1, !.command = TRUE] = b
    BY DEF Program
  <2>2. x \in Program /\ AirOf(x, a) /\ LabelOK(x, Label)
    BY <1>0, LabelSet
  <2> HIDE DEF x
  <2>3. b \in Program /\ AirOf(b, x) /\ LabelOK(b, Label)
    BY <2>2, CommandSet
  <2> HIDE DEF b
  <2>4. AirOf(b, a)
    BY <2>2, <2>3 DEF AirOf
  <2>5. IsField(LabelField(None, 1, 1)) /\ LabelField(None, 1, 1).ci \in {2, 3}
    BY <1>0, LabelFields
  <2>6. m = Move(<<LabelField(None, 1, 1)>>, b)
    BY <1>2, <2>1
  <2> QED BY <2>3, <2>4, <2>5, <2>6 DEF IsLabelMove, Move
<1>3. CASE a.label # None
             /\ m = Move(<<LabelField(a.label, a.segment, a.n)>>, Moved(a, a.label, a.segment, a.n))
  <2>1. a.label \in Label /\ a.segment \in Segment(a.label)
    BY <1>3 DEF LabelOK
  <2>2. IsField(LabelField(a.label, a.segment, a.n)) /\ LabelField(a.label, a.segment, a.n).ci \in {2, 3}
    BY <1>0, <2>1, LabelFields
  <2>3. LET b == Moved(a, a.label, a.segment, a.n) IN
        b \in Program /\ AirOf(b, a) /\ LabelOK(b, Label)
    BY <1>0, <2>1, MovedOK
  <2> QED BY <1>3, <2>2, <2>3 DEF IsLabelMove, Move
<1>4. CASE m = Move(<<LabelField(None, 1, 2)>>, [a EXCEPT !.command = FALSE])
  <2>1. IsField(LabelField(None, 1, 2)) /\ LabelField(None, 1, 2).ci \in {2, 3}
    BY <1>0, LabelFields
  <2>2. LET b == [a EXCEPT !.command = FALSE] IN
        b \in Program /\ AirOf(b, a) /\ LabelOK(b, Label)
    BY CommandSet
  <2> QED BY <1>4, <2>1, <2>2 DEF IsLabelMove, Move
<1> QED BY <1>1, <1>2, <1>3, <1>4, Zenon DEF LabelMoves

LEMMA MoveKinds ==
  ASSUME NEW a \in Program, LabelOK(a, Label), NEW m \in Moves(a)
  PROVE  IsLabelMove(m, a) \/ IsBeginMove(m, a) \/ IsGoMove(m, a) \/ IsOtherMove(m, a)
<1>1. CASE m \in LabelMoves(a)
  BY <1>1, LabelMoveKinds
<1>2. CASE m \in GroupMoves(a)
  <2>1. CASE a.group = None
    <3>1. \E g \in PadGroup :
            m = Move(<<[ci |-> 1, length |-> GroupUnits[g]], UnitField(g, 1, a.index)>>, MovedUnit(a, g, 1))
      BY <1>2, <2>1, Zenon DEF GroupMoves
    <3> QED BY <2>1, <3>1 DEF IsBeginMove, Move
  <2>2. CASE a.group # None
    <3>1. m = Move(<<UnitField(a.group, a.unit, a.index)>>, MovedUnit(a, a.group, a.unit))
      BY <1>2, <2>2, Zenon DEF GroupMoves
    <3> QED BY <2>2, <3>1 DEF IsGoMove, Move
  <2> QED BY <2>1, <2>2
<1>3. CASE m = Move(<<[ci |-> 0]>>, a)
  BY <1>3 DEF IsOtherMove, Move
<1> QED BY <1>1, <1>2, <1>3 DEF Moves

-----------------------------------------------------------------------------
(* Units of data groups that came, or did not.                             *)

SlideAt(s, g, n) == IF n = GroupUnits[g] THEN SlideOf(s, g) ELSE s

LEMMA SlideAtAfter ==
  ASSUME NEW s, NEW g \in PadGroup, NEW n \in Nat, n <= GroupUnits[g]
  PROVE  SlideAt(s, g, n) = SlideAfter(s, g, n)
<1>1. GroupUnits[g] \in Nat
  BY PadGroupFields
<1> QED BY <1>1 DEF SlideAt, SlideAfter

LEMMA UnitArrives ==
  ASSUME NEW a \in Program, NEW f, f.unit \in GroupUnit, NEW s \in Slides \union {None},
         NEW got, CameEntire(a, f, got)
  PROVE  SlidesOf(s, CameArrived(a, f, got))
           = SlideAt(SlidesOf(s, a.arrived), f.unit.group, f.unit.n)
<1>1. f.unit.group \in PadGroup /\ a.arrived \in Seq(PadGroup)
  BY ProgramFields DEF GroupUnit
<1>2. CASE f.unit.n = GroupUnits[f.unit.group]
  <2>1. CameArrived(a, f, got) = Append(a.arrived, f.unit.group)
    BY <1>2 DEF CameArrived
  <2> QED BY <1>1, <1>2, <2>1, SlidesMore DEF SlideAt
<1>3. CASE f.unit.n # GroupUnits[f.unit.group]
  <2>1. CameArrived(a, f, got) = a.arrived
    BY <1>3 DEF CameArrived
  <2> QED BY <1>3, <2>1 DEF SlideAt
<1> QED BY <1>2, <1>3

\* The first unit of a group came.
LEMMA FirstTaken ==
  ASSUME NEW a \in Program, NEW f, f.ci = 12, f.unit \in GroupUnit, NEW got \in BOOLEAN,
         NEW s \in Slides \union {None}
  PROVE  got =>
           /\ Came(a, f, got) \in Program /\ Came(a, f, got).entire = TRUE
           /\ SlidesOf(s, Came(a, f, got).arrived)
                = SlideAt(SlidesOf(s, a.arrived), f.unit.group, f.unit.n)
<1>1. ArrivedNow(Came(a, f, got), a, CameEntire(a, f, got), CameArrived(a, f, got))
  <2>1. f.ci \in {12, 13}
    OBVIOUS
  <2> QED BY <2>1, UnitCame
<1> SUFFICES ASSUME got
             PROVE  /\ Came(a, f, got) \in Program /\ Came(a, f, got).entire = TRUE
                    /\ SlidesOf(s, Came(a, f, got).arrived)
                         = SlideAt(SlidesOf(s, a.arrived), f.unit.group, f.unit.n)
  OBVIOUS
<1>2. CameEntire(a, f, got)
  BY DEF CameEntire
<1>3. SlidesOf(s, CameArrived(a, f, got)) = SlideAt(SlidesOf(s, a.arrived), f.unit.group, f.unit.n)
  BY <1>2, UnitArrives
<1>4. CameEntire(a, f, got) = TRUE
  BY Zenon DEF CameEntire
<1> QED BY <1>1, <1>3, <1>4, Zenon DEF ArrivedNow

\* Another unit of a group came of which all came so far.
LEMMA NextTaken ==
  ASSUME NEW a \in Program, a.entire, NEW f, f.ci = 13, f.unit \in GroupUnit,
         NEW got \in BOOLEAN, NEW s \in Slides \union {None}
  PROVE  got =>
           /\ Came(a, f, got) \in Program /\ Came(a, f, got).entire = TRUE
           /\ SlidesOf(s, Came(a, f, got).arrived)
                = SlideAt(SlidesOf(s, a.arrived), f.unit.group, f.unit.n)
<1>1. ArrivedNow(Came(a, f, got), a, CameEntire(a, f, got), CameArrived(a, f, got))
  <2>1. f.ci \in {12, 13}
    OBVIOUS
  <2> QED BY <2>1, UnitCame
<1> SUFFICES ASSUME got
             PROVE  /\ Came(a, f, got) \in Program /\ Came(a, f, got).entire = TRUE
                    /\ SlidesOf(s, Came(a, f, got).arrived)
                         = SlideAt(SlidesOf(s, a.arrived), f.unit.group, f.unit.n)
  OBVIOUS
<1>2. CameEntire(a, f, got)
  BY DEF CameEntire
<1>3. SlidesOf(s, CameArrived(a, f, got)) = SlideAt(SlidesOf(s, a.arrived), f.unit.group, f.unit.n)
  BY <1>2, UnitArrives
<1>4. CameEntire(a, f, got) = TRUE
  BY Zenon DEF CameEntire
<1> QED BY <1>1, <1>3, <1>4, Zenon DEF ArrivedNow

\* A unit did not come, or it is of a group of which not all came.
NotAll(b, a) == b \in Program /\ b.entire = FALSE /\ b.arrived = a.arrived

LEMMA UnitNotAll ==
  ASSUME NEW a \in Program, NEW f, f.ci \in {12, 13}, f.unit \in GroupUnit, NEW got \in BOOLEAN
  PROVE  CameEntire(a, f, got) \/ NotAll(Came(a, f, got), a)
<1> SUFFICES ASSUME ~CameEntire(a, f, got)
             PROVE  NotAll(Came(a, f, got), a)
  OBVIOUS
<1>1. ArrivedNow(Came(a, f, got), a, CameEntire(a, f, got), CameArrived(a, f, got))
  BY UnitCame
<1>2. CameArrived(a, f, got) = a.arrived
  BY Zenon DEF CameArrived
<1>4. CameEntire(a, f, got) = FALSE
  BY Zenon DEF CameEntire
<1> QED BY <1>1, <1>2, <1>4, Zenon DEF ArrivedNow, NotAll

-----------------------------------------------------------------------------
(* The padHandler and the broadcaster: w after what came, a where the      *)
(* broadcaster is, c what it knows of what came.                           *)

PadState(w, a, c, s, h) ==
  c \in Program /\ GroupState(w, a, c.entire, SlidesOf(s, c.arrived), h)

\* Subfields, from the p-th, of which the first got came.
TakenHere(k, c, p, fields, got) ==
  \A j \in 1 .. Len(fields) :
    /\ k[p + j] = Subfield(k[p + j - 1], fields[j])
    /\ c[p + j] = Came(c[p + j - 1], fields[j], p + j <= got)

Passed(c, p, fields, got) ==
  \A j \in 1 .. Len(fields) : c[p + j] = Came(c[p + j - 1], fields[j], p + j <= got)

\* After n subfields.
StateTaken(k, c, p, n, a, s, h) ==
  /\ PadState(k[p + n], a, c[p + n], s, h)
  /\ k[p + n].pad.xpadLength = k[p].pad.xpadLength

LEMMA LabelMoveTaken ==
  ASSUME NEW k, NEW c, NEW p \in Nat, NEW a, NEW s, NEW h, PadState(k[p], a, c[p], s, h),
         NEW m, IsLabelMove(m, a), NEW got \in Int, TakenHere(k, c, p, m.fields, got)
  PROVE  StateTaken(k, c, p, Len(m.fields), m.air, s, h)
<1>1. PICK f : /\ m.fields = <<f>> /\ IsField(f) /\ f.ci \in {2, 3}
               /\ AirOf(m.air, a) /\ m.air \in Program
  BY DEF IsLabelMove
<1>2. Len(m.fields) = 1 /\ m.fields[1] = f /\ p + 1 - 1 = p /\ (p + 1 <= got) \in BOOLEAN
  BY <1>1
<1>3. k[p + 1] = Subfield(k[p], f) /\ c[p + 1] = Came(c[p], f, p + 1 <= got)
  <2>1. 1 \in 1 .. Len(m.fields)
    BY <1>2
  <2> QED BY <1>2, <2>1 DEF TakenHere
<1>4. k[p] \in PadWork /\ c[p] \in Program
  BY DEF PadState, GroupState
<1>5. /\ c[p + 1] \in Program
      /\ c[p + 1].entire = c[p].entire /\ c[p + 1].arrived = c[p].arrived
  <2>1. f.ci \notin {12, 13}
    BY <1>1
  <2> DEFINE came == p + 1 <= got
  <2>2. came \in BOOLEAN /\ c[p + 1] = Came(c[p], f, came)
    BY <1>2, <1>3
  <2> HIDE DEF came
  <2>3. LET b == Came(c[p], f, came) IN
        b \in Program /\ b.entire = c[p].entire /\ b.arrived = c[p].arrived
    BY <1>1, <1>4, <2>1, <2>2, OtherCame, Zenon
  <2> QED BY <2>2, <2>3, Zenon
<1>6. k[p + 1] \in PadWork /\ SameGroup(k[p + 1], k[p])
  <2>1. CASE f.ci = 2 /\ f.label = None
    <3>1. k[p + 1] = Clear(k[p])
      BY <1>3, <2>1 DEF Subfield, LabelCommand
    <3> QED BY <1>4, <3>1, ClearOK
  <2>2. CASE f.ci = 2 /\ f.label # None
    <3>1. k[p + 1] = SegmentStart(k[p], f) /\ f.label \in Label /\ f.segment \in Segment(f.label)
      BY <1>1, <1>3, <2>2 DEF Subfield, IsField
    <3> QED BY <1>4, <3>1, SegmentStartOK
  <2>3. CASE f.ci = 3
    <3>1. k[p + 1] = SegmentMore(k[p], f) /\ f.label \in Label \union {None} /\ f.segment \in Nat /\ f.n \in Nat
      BY <1>1, <1>3, <2>3 DEF Subfield, IsField
    <3> QED BY <1>4, <3>1, SegmentMoreOK
  <2> QED BY <1>1, <2>1, <2>2, <2>3
<1>7. GroupState(k[p + 1], m.air, c[p].entire, SlidesOf(s, c[p].arrived), h)
  <2>1. GroupState(k[p], a, c[p].entire, SlidesOf(s, c[p].arrived), h)
    BY DEF PadState
  <2> QED BY <1>1, <1>6, <2>1, StateKept
<1>8. k[p + 1].pad.xpadLength = k[p].pad.xpadLength
  BY <1>6 DEF SameGroup
<1>9. PadState(k[p + 1], m.air, c[p + 1], s, h)
  BY <1>5, <1>7, Zenon DEF PadState
<1> QED BY <1>2, <1>8, <1>9, Zenon DEF StateTaken

LEMMA UnitFields ==
  ASSUME NEW g, NEW n \in Nat, NEW i
  PROVE  /\ UnitField(g, n, i).ci = (IF n = 1 THEN 12 ELSE 13)
         /\ UnitField(g, n, i).unit = Unit(g, n, i)
BY DEF UnitField

LEMMA BeginMoveTaken ==
  ASSUME NEW k, NEW c, NEW p \in Nat, NEW a, NEW s \in Slides \union {None}, NEW h,
         PadState(k[p], a, c[p], s, h),
         NEW m, IsBeginMove(m, a), NEW got \in Int, TakenHere(k, c, p, m.fields, got),
         p + Len(m.fields) <= got
  PROVE  StateTaken(k, c, p, Len(m.fields), m.air, s, h)
<1>1. PICK g \in PadGroup :
        /\ m.fields = <<[ci |-> 1, length |-> GroupUnits[g]], UnitField(g, 1, a.index)>>
        /\ m.air = MovedUnit(a, g, 1)
  BY DEF IsBeginMove
<1> DEFINE f == [ci |-> 1, length |-> GroupUnits[g]]
           u == UnitField(g, 1, a.index)
           t == SlidesOf(s, c[p].arrived)
<1>2. /\ f.ci = 1 /\ f.length = GroupUnits[g] /\ GroupUnits[g] \in Nat \ {0} /\ IsField(f)
      /\ u.ci = 12 /\ u.unit = Unit(g, 1, a.index)
  BY PadGroupFields, UnitFields DEF IsField
<1>a. m.fields = <<f, u>>
  BY <1>1
<1> HIDE DEF f, u
<1>3. /\ Len(m.fields) = 2 /\ m.fields[1] = f /\ m.fields[2] = u
      /\ p + 1 - 1 = p /\ p + 2 - 1 = p + 1
      /\ (p + 1 <= got) \in BOOLEAN /\ (p + 2 <= got) \in BOOLEAN /\ p + 2 <= got
  BY <1>a
<1>4. /\ k[p + 1] = Subfield(k[p], f) /\ c[p + 1] = Came(c[p], f, p + 1 <= got)
      /\ k[p + 2] = Subfield(k[p + 1], u) /\ c[p + 2] = Came(c[p + 1], u, p + 2 <= got)
  <2>1. 1 \in 1 .. Len(m.fields) /\ 2 \in 1 .. Len(m.fields)
    BY <1>3
  <2> QED BY <1>3, <2>1 DEF TakenHere
<1>5. k[p] \in PadWork /\ c[p] \in Program /\ a \in Program /\ a.index \in 0 .. Around - 1
  BY DEF PadState, GroupState, GroupsOK, OnAir, Around
<1>6. c[p + 1] \in Program /\ c[p + 1].arrived = c[p].arrived
  <2>1. f.ci \notin {12, 13}
    BY <1>2
  <2> DEFINE came == p + 1 <= got
  <2>2. came \in BOOLEAN /\ c[p + 1] = Came(c[p], f, came)
    BY <1>3, <1>4
  <2> HIDE DEF came
  <2>3. LET b == Came(c[p], f, came) IN
        b \in Program /\ b.entire = c[p].entire /\ b.arrived = c[p].arrived
    BY <1>2, <1>5, <2>1, <2>2, OtherCame, Zenon
  <2> QED BY <2>2, <2>3, Zenon
<1>7. u.unit \in GroupUnit /\ u.unit.group = g /\ u.unit.n = 1
  <2>1. 1 \in Nat
    OBVIOUS
  <2> QED BY <1>2, <1>5, <2>1, UnitOK, UnitMembers
<1>8. c[p + 2] \in Program /\ c[p + 2].entire = TRUE /\ SlidesOf(s, c[p + 2].arrived) = SlideAt(t, g, 1)
  <2> DEFINE came == p + 2 <= got
  <2>2. came \in BOOLEAN /\ c[p + 2] = Came(c[p + 1], u, came) /\ came
    BY <1>3, <1>4
  <2> HIDE DEF came
  <2>3. came =>
           /\ Came(c[p + 1], u, came) \in Program /\ Came(c[p + 1], u, came).entire = TRUE
           /\ SlidesOf(s, Came(c[p + 1], u, came).arrived)
                = SlideAt(SlidesOf(s, c[p + 1].arrived), u.unit.group, u.unit.n)
    BY <1>2, <1>6, <1>7, <2>2, FirstTaken, Zenon
  <2> QED BY <1>6, <1>7, <2>2, <2>3, Zenon
<1>9. SlideAt(t, g, 1) = SlideAfter(t, g, 1)
  <2>1. 1 \in Nat /\ 1 <= GroupUnits[g]
    BY <1>2
  <2> QED BY <2>1, SlideAtAfter
<1>10. k[p + 2] = new_MSC_element([k[p] EXCEPT !.pad.dataGroupLength = GroupUnits[g]],
                                  <<Unit(g, 1, a.index)>>)
  BY <1>2, <1>4 DEF Subfield
<1>11. GroupState(k[p], a, c[p].entire, t, h) /\ a.group = None
  BY DEF PadState, IsBeginMove
<1> HIDE DEF t
<1> DEFINE v == new_MSC_element([k[p] EXCEPT !.pad.dataGroupLength = GroupUnits[g]],
                                <<Unit(g, 1, a.index)>>)
<1>b. StateAfter(v, k[p], MovedUnit(a, g, 1), TRUE, SlideAfter(t, g, 1), h)
  BY <1>11, BeginTaken, Zenon
<1>12. /\ GroupState(k[p + 2], MovedUnit(a, g, 1), TRUE, SlideAfter(t, g, 1), h)
       /\ k[p + 2].pad.xpadLength = k[p].pad.xpadLength
  <2>1. k[p + 2] = v
    BY <1>10
  <2> HIDE DEF v
  <2> QED BY <1>b, <2>1, Zenon DEF StateAfter
<1>13. PadState(k[p + 2], m.air, c[p + 2], s, h)
  BY <1>1, <1>8, <1>9, <1>12, Zenon DEF PadState
<1> QED BY <1>3, <1>12, <1>13, Zenon DEF StateTaken

LEMMA GoMoveTaken ==
  ASSUME NEW k, NEW c, NEW p \in Nat, NEW a, NEW s \in Slides \union {None}, NEW h \in 0 .. Around,
         PadState(k[p], a, c[p], s, h),
         NEW m, IsGoMove(m, a), NEW got \in Int, TakenHere(k, c, p, m.fields, got),
         p + Len(m.fields) <= got
  PROVE  StateTaken(k, c, p, Len(m.fields), m.air, s, h)
<1> DEFINE g == a.group
           n == a.unit
           u == UnitField(g, n, a.index)
           t == SlidesOf(s, c[p].arrived)
<1>1. m.fields = <<u>> /\ m.air = MovedUnit(a, g, n) /\ g # None
  BY DEF IsGoMove
<1>2. /\ k[p] \in PadWork /\ c[p] \in Program /\ a \in Program /\ a.index \in 0 .. Around - 1
      /\ g \in PadGroup /\ n \in Nat /\ n >= 2 /\ n <= GroupUnits[g]
  BY <1>1, PadGroupFields DEF PadState, GroupState, GroupsOK, OnAir, Around
<1>3. u.ci = 13 /\ u.unit = Unit(g, n, a.index)
  BY <1>2, UnitFields
<1>4. u.unit \in GroupUnit /\ u.unit.group = g /\ u.unit.n = n
  BY <1>2, <1>3, UnitOK, UnitMembers
<1>5. GroupState(k[p], a, c[p].entire, t, h)
  BY DEF PadState
<1> DEFINE units == <<Unit(g, n, a.index)>>
<1>b. units = UnitsFrom(a, 1)
  <2>1. \A j \in 1 .. 1 : j = 1 /\ a.unit + j - 1 = n
    BY <1>2
  <2>2. [j \in 1 .. 1 |-> Unit(a.group, a.unit + j - 1, a.index)] = [j \in 1 .. 1 |-> Unit(g, n, a.index)]
    BY <2>1
  <2> QED BY <2>2 DEF UnitsFrom
<1> HIDE DEF u, t
<1>6. /\ Len(m.fields) = 1 /\ m.fields[1] = u /\ p + 1 - 1 = p
      /\ (p + 1 <= got) \in BOOLEAN /\ p + 1 <= got
  BY <1>1
<1>7. k[p + 1] = Subfield(k[p], u) /\ c[p + 1] = Came(c[p], u, p + 1 <= got)
  <2>1. 1 \in 1 .. Len(m.fields)
    BY <1>6
  <2> QED BY <1>6, <2>1 DEF TakenHere
<1>8. k[p + 1] = add_MSC_element(k[p], units)
  BY <1>3, <1>7 DEF Subfield
<1> DEFINE came == p + 1 <= got
<1>9. came \in BOOLEAN /\ c[p + 1] = Came(c[p], u, came) /\ came
  BY <1>6, <1>7
<1> HIDE DEF came, units, g, n
<1>c. c[p].entire \in BOOLEAN
  BY <1>2, ProgramFields
<1>10. CASE c[p].entire
  <2>1. came =>
           /\ Came(c[p], u, came) \in Program /\ Came(c[p], u, came).entire = TRUE
           /\ SlidesOf(s, Came(c[p], u, came).arrived)
                = SlideAt(SlidesOf(s, c[p].arrived), u.unit.group, u.unit.n)
    BY <1>2, <1>3, <1>4, <1>9, <1>10, NextTaken, Zenon
  <2>2. c[p + 1] \in Program /\ c[p + 1].entire = TRUE /\ SlidesOf(s, c[p + 1].arrived) = SlideAt(t, g, n)
    BY <1>4, <1>9, <2>1, Zenon DEF t
  <2>3. SlideAt(t, g, n) = SlideAfter(t, g, n)
    BY <1>2, SlideAtAfter
  <2>4. GroupState(k[p], a, TRUE, t, h)
    <3>1. c[p].entire = TRUE
      BY <1>10, <1>c, Zenon
    <3> QED BY <1>5, <3>1, Zenon
  <2>5. 1 \in Nat \ {0} /\ a.group # None /\ a.unit + 1 - 1 = n /\ a.group = g
    BY <1>1, <1>2 DEF n, g
  <2>a. StateAfter(add_MSC_element(k[p], UnitsFrom(a, 1)), k[p],
                   MovedUnit(a, a.group, a.unit + 1 - 1), TRUE,
                   SlideAfter(t, a.group, a.unit + 1 - 1), h)
    BY <2>4, <2>5, UnitsEntire, Zenon
  <2>6. /\ GroupState(k[p + 1], MovedUnit(a, g, n), TRUE, SlideAfter(t, g, n), h)
        /\ k[p + 1].pad.xpadLength = k[p].pad.xpadLength
    BY <1>b, <1>8, <2>a, <2>5, Zenon DEF StateAfter
  <2>7. PadState(k[p + 1], m.air, c[p + 1], s, h)
    BY <1>1, <2>2, <2>3, <2>6, Zenon DEF PadState, g, n
  <2> QED BY <1>6, <2>6, <2>7, Zenon DEF StateTaken
<1>11. CASE ~c[p].entire
  <2>1. ~CameEntire(c[p], u, came)
    BY <1>3, <1>11 DEF CameEntire
  <2>2. u.ci \in {12, 13}
    BY <1>3
  <2>a. came \in BOOLEAN
    BY <1>9
  <2>b. CameEntire(c[p], u, came) \/ NotAll(Came(c[p], u, came), c[p])
    BY <1>2, <1>4, <2>a, <2>2, UnitNotAll
  <2>3. NotAll(c[p + 1], c[p])
    BY <1>9, <2>1, <2>b
  <2>4. GroupState(k[p], a, FALSE, t, h)
    <3>1. c[p].entire = FALSE
      BY <1>11, <1>c, Zenon
    <3> QED BY <1>5, <3>1, Zenon
  <2>5. 1 \in Nat \ {0} /\ a.group # None /\ n >= a.unit /\ a.group = g
    BY <1>1, <1>2 DEF n, g
  <2>6. /\ GroupState(k[p + 1], MovedUnit(a, g, n), FALSE, t, h)
        /\ k[p + 1].pad.xpadLength = k[p].pad.xpadLength
    <3>1. n \in Nat
      BY <1>2
    <3>2. StateAfter(add_MSC_element(k[p], UnitsFrom(a, 1)), k[p], MovedUnit(a, a.group, n),
                     FALSE, t, h)
      BY <2>4, <2>5, <3>1, UnitsPartly, Zenon
    <3> QED BY <1>b, <1>8, <2>5, <3>2, Zenon DEF StateAfter
  <2>7. PadState(k[p + 1], m.air, c[p + 1], s, h)
    BY <1>1, <2>3, <2>6, Zenon DEF PadState, NotAll, g, n, t
  <2> QED BY <1>6, <2>6, <2>7, Zenon DEF StateTaken
<1> QED BY <1>10, <1>11, Zenon

-----------------------------------------------------------------------------
(* Moves that were lost.                                                   *)

\* A subfield that is no part of a group tells nothing of it, whether it came or not.
LEMMA OtherPassed ==
  ASSUME NEW b \in Program, NEW f, IsField(f), f.ci \notin {12, 13}, NEW x \in Int, NEW got \in Int,
         NEW d, d = Came(b, f, x <= got)
  PROVE  d \in Program /\ d.entire = b.entire /\ d.arrived = b.arrived
<1> DEFINE came == x <= got
<1>1. came \in BOOLEAN /\ d = Came(b, f, came)
  OBVIOUS
<1> HIDE DEF came
<1>2. LET y == Came(b, f, came) IN
      y \in Program /\ y.entire = b.entire /\ y.arrived = b.arrived
  BY <1>1, OtherCame, Zenon
<1> QED BY <1>1, <1>2, Zenon

LEMMA UnitPassed ==
  ASSUME NEW b \in Program, NEW f, f.ci \in {12, 13}, f.unit \in GroupUnit, NEW x \in Int,
         NEW got \in Int, got < x, NEW d, d = Came(b, f, x <= got)
  PROVE  NotAll(d, b)
<1> DEFINE came == x <= got
<1>1. came \in BOOLEAN /\ d = Came(b, f, came) /\ ~came
  OBVIOUS
<1>2. came \in BOOLEAN
  OBVIOUS
<1> HIDE DEF came
<1>3. CameEntire(b, f, came) \/ NotAll(Came(b, f, came), b)
  BY <1>2, UnitNotAll
<1>4. ~CameEntire(b, f, came)
  BY <1>1 DEF CameEntire
<1> QED BY <1>1, <1>3, <1>4, Zenon

LEMMA LabelMoveLost ==
  ASSUME NEW w, NEW c, NEW p \in Nat, NEW a, NEW s, NEW h, PadState(w, a, c[p], s, h),
         NEW m, IsLabelMove(m, a) \/ IsOtherMove(m, a), NEW got \in Int, Passed(c, p, m.fields, got)
  PROVE  PadState(w, m.air, c[p + Len(m.fields)], s, h)
<1>0. c[p] \in Program /\ w \in PadWork /\ a \in Program
  BY DEF PadState, GroupState
<1>1. PICK f : /\ m.fields = <<f>> /\ IsField(f) /\ f.ci \notin {12, 13}
               /\ AirOf(m.air, a) /\ m.air \in Program
  <2>1. CASE IsLabelMove(m, a)
    <3>1. PICK f : m.fields = <<f>> /\ IsField(f) /\ f.ci \in {2, 3} /\ AirOf(m.air, a) /\ m.air \in Program
      BY <2>1 DEF IsLabelMove
    <3>2. f.ci \notin {12, 13}
      BY <3>1
    <3> QED BY <3>1, <3>2
  <2>2. CASE IsOtherMove(m, a)
    <3> DEFINE f == [ci |-> 0]
    <3>1. IsField(f) /\ f.ci \notin {12, 13}
      BY DEF IsField
    <3>2. m.fields = <<f>> /\ m.air = a
      BY <2>2 DEF IsOtherMove
    <3> HIDE DEF f
    <3> QED BY <1>0, <3>1, <3>2 DEF AirOf
  <2> QED BY <2>1, <2>2
<1>2. Len(m.fields) = 1 /\ m.fields[1] = f /\ p + 1 - 1 = p /\ p + 1 \in Int
  BY <1>1
<1>3. c[p + 1] = Came(c[p], f, p + 1 <= got)
  <2>1. 1 \in 1 .. Len(m.fields)
    BY <1>2
  <2> QED BY <1>2, <2>1 DEF Passed
<1>4. c[p + 1] \in Program /\ c[p + 1].entire = c[p].entire /\ c[p + 1].arrived = c[p].arrived
  BY <1>0, <1>1, <1>2, <1>3, OtherPassed
<1>5. SameGroup(w, w)
  BY DEF SameGroup
<1>6. GroupState(w, m.air, c[p].entire, SlidesOf(s, c[p].arrived), h)
  <2>1. GroupState(w, a, c[p].entire, SlidesOf(s, c[p].arrived), h)
    BY DEF PadState
  <2> QED BY <1>0, <1>1, <1>5, <2>1, StateKept
<1>7. PadState(w, m.air, c[p + 1], s, h)
  BY <1>4, <1>6, Zenon DEF PadState
<1> QED BY <1>2, <1>7, Zenon

LEMMA BeginMoveLost ==
  ASSUME NEW w, NEW c, NEW p \in Nat, NEW a, NEW s, NEW h \in 0 .. Around - 1,
         PadState(w, a, c[p], s, h),
         NEW m, IsBeginMove(m, a), NEW got \in Int, got <= p, Passed(c, p, m.fields, got)
  PROVE  PadState(w, m.air, c[p + Len(m.fields)], s, h + 1)
<1>1. PICK g \in PadGroup :
        /\ m.fields = <<[ci |-> 1, length |-> GroupUnits[g]], UnitField(g, 1, a.index)>>
        /\ m.air = MovedUnit(a, g, 1)
  BY DEF IsBeginMove
<1> DEFINE f == [ci |-> 1, length |-> GroupUnits[g]]
           u == UnitField(g, 1, a.index)
<1>2. /\ f.ci \notin {12, 13} /\ IsField(f)
      /\ u.ci \in {12, 13} /\ u.unit = Unit(g, 1, a.index)
  BY PadGroupFields, UnitFields DEF IsField
<1>a. m.fields = <<f, u>>
  BY <1>1
<1> HIDE DEF f, u
<1>3. /\ Len(m.fields) = 2 /\ m.fields[1] = f /\ m.fields[2] = u
      /\ p + 1 - 1 = p /\ p + 2 - 1 = p + 1 /\ p + 1 \in Int /\ p + 2 \in Int /\ got < p + 2
  BY <1>a
<1>4. c[p + 1] = Came(c[p], f, p + 1 <= got) /\ c[p + 2] = Came(c[p + 1], u, p + 2 <= got)
  <2>1. 1 \in 1 .. Len(m.fields) /\ 2 \in 1 .. Len(m.fields)
    BY <1>3
  <2> QED BY <1>3, <2>1 DEF Passed
<1>5. c[p] \in Program /\ a \in Program /\ a.index \in 0 .. Around - 1
  BY DEF PadState, GroupState, GroupsOK, OnAir, Around
<1>6. c[p + 1] \in Program /\ c[p + 1].entire = c[p].entire /\ c[p + 1].arrived = c[p].arrived
  BY <1>2, <1>3, <1>4, <1>5, OtherPassed
<1>7. u.unit \in GroupUnit
  <2>1. 1 \in Nat
    OBVIOUS
  <2> QED BY <1>2, <1>5, <2>1, UnitOK
<1>8. NotAll(c[p + 2], c[p + 1])
  BY <1>2, <1>3, <1>4, <1>6, <1>7, UnitPassed
<1>9. GroupState(w, MovedUnit(a, g, 1), FALSE, SlidesOf(s, c[p].arrived), h + 1)
  <2>1. GroupState(w, a, c[p].entire, SlidesOf(s, c[p].arrived), h) /\ a.group = None
    BY DEF PadState, IsBeginMove
  <2> QED BY <2>1, BeginLost
<1>10. PadState(w, m.air, c[p + 2], s, h + 1)
  BY <1>1, <1>6, <1>8, <1>9, Zenon DEF PadState, NotAll
<1> QED BY <1>3, <1>10, Zenon

LEMMA GoMoveLost ==
  ASSUME NEW w, NEW c, NEW p \in Nat, NEW a, NEW s, NEW h \in 0 .. Around - 1,
         PadState(w, a, c[p], s, h),
         NEW m, IsGoMove(m, a), NEW got \in Int, got <= p, Passed(c, p, m.fields, got)
  PROVE  PadState(w, m.air, c[p + Len(m.fields)], s, h + 1)
<1> DEFINE g == a.group
           n == a.unit
           u == UnitField(g, n, a.index)
<1>1. m.fields = <<u>> /\ m.air = MovedUnit(a, g, n) /\ g # None
  BY DEF IsGoMove
<1>2. /\ c[p] \in Program /\ a \in Program /\ a.index \in 0 .. Around - 1
      /\ g \in PadGroup /\ n \in Nat /\ n >= 2
  BY <1>1, PadGroupFields DEF PadState, GroupState, GroupsOK, OnAir, Around
<1>3. u.ci \in {12, 13} /\ u.unit = Unit(g, n, a.index)
  BY <1>2, UnitFields
<1>4. u.unit \in GroupUnit
  BY <1>2, <1>3, UnitOK
<1> HIDE DEF u
<1>5. Len(m.fields) = 1 /\ m.fields[1] = u /\ p + 1 - 1 = p /\ p + 1 \in Int /\ got < p + 1
  BY <1>1
<1>6. c[p + 1] = Came(c[p], u, p + 1 <= got)
  <2>1. 1 \in 1 .. Len(m.fields)
    BY <1>5
  <2> QED BY <1>5, <2>1 DEF Passed
<1>7. NotAll(c[p + 1], c[p])
  BY <1>2, <1>3, <1>4, <1>5, <1>6, UnitPassed
<1>8. GroupState(w, MovedUnit(a, g, n), FALSE, SlidesOf(s, c[p].arrived), h + 1)
  <2>1. GroupState(w, a, c[p].entire, SlidesOf(s, c[p].arrived), h) /\ a.group # None
    BY <1>1 DEF PadState
  <2>2. n >= a.unit
    BY <1>2
  <2> QED BY <1>2, <2>1, <2>2, UnitsLost
<1>9. PadState(w, m.air, c[p + 1], s, h + 1)
  BY <1>1, <1>7, <1>8, Zenon DEF PadState, NotAll
<1> QED BY <1>5, <1>9, Zenon

LEMMA PadStateMore ==
  ASSUME NEW w, NEW a, NEW c, NEW s, NEW h \in Nat, PadState(w, a, c, s, h), NEW n \in Nat, h <= n
  PROVE  PadState(w, a, c, s, n)
BY StateMore DEF PadState

\* What comes after a move.
LEMMA MoveAir ==
  ASSUME NEW a \in Program, LabelOK(a, Label), OnAir(a), NEW m \in Moves(a)
  PROVE  m.air \in Program /\ LabelOK(m.air, Label) /\ OnAir(m.air)
<1>0. a.index \in 0 .. Around - 1
  BY DEF OnAir, Around
<1>1. CASE IsLabelMove(m, a)
  BY <1>1 DEF IsLabelMove, AirOf, OnAir
<1>2. ASSUME NEW g \in PadGroup, NEW i \in Nat \ {0}, m.air = MovedUnit(a, g, i)
      PROVE  m.air \in Program /\ LabelOK(m.air, Label) /\ OnAir(m.air)
  <2>1. LET b == MovedUnit(a, g, i) IN
        b \in Program /\ OnAir(b) /\ b.label = a.label /\ b.segment = a.segment /\ b.n = a.n
    BY <1>0, MovedOn
  <2> QED BY <1>2, <2>1 DEF LabelOK
<1>3. CASE IsBeginMove(m, a)
  <2>1. PICK g \in PadGroup : m.air = MovedUnit(a, g, 1)
    BY <1>3 DEF IsBeginMove
  <2>2. 1 \in Nat \ {0}
    OBVIOUS
  <2> QED BY <1>2, <2>1, <2>2
<1>4. CASE IsGoMove(m, a)
  <2>1. m.air = MovedUnit(a, a.group, a.unit) /\ a.group # None
    BY <1>4 DEF IsGoMove
  <2>2. a.group \in PadGroup /\ a.unit \in Nat \ {0}
    BY <2>1 DEF OnAir
  <2> QED BY <1>2, <2>1, <2>2
<1>5. CASE IsOtherMove(m, a)
  BY <1>5 DEF IsOtherMove
<1> QED BY <1>1, <1>3, <1>4, <1>5, MoveKinds

LEMMA MoveTaken ==
  ASSUME NEW k, NEW c, NEW p \in Nat, NEW a, LabelOK(a, Label), NEW s \in Slides \union {None},
         NEW h \in 0 .. Around, PadState(k[p], a, c[p], s, h),
         NEW m \in Moves(a), ~IsOtherMove(m, a), NEW got \in Int, TakenHere(k, c, p, m.fields, got),
         p + Len(m.fields) <= got
  PROVE  StateTaken(k, c, p, Len(m.fields), m.air, s, h)
<1>0. a \in Program
  BY DEF PadState, GroupState
<1>1. CASE IsLabelMove(m, a)
  BY <1>1, LabelMoveTaken
<1>2. CASE IsBeginMove(m, a)
  BY <1>2, BeginMoveTaken
<1>3. CASE IsGoMove(m, a)
  BY <1>3, GoMoveTaken
<1> QED BY <1>0, <1>1, <1>2, <1>3, MoveKinds

LEMMA MoveLost ==
  ASSUME NEW w, NEW c, NEW p \in Nat, NEW a, LabelOK(a, Label), NEW s, NEW h \in 0 .. Around - 1,
         PadState(w, a, c[p], s, h),
         NEW m \in Moves(a), NEW got \in Int, got <= p, Passed(c, p, m.fields, got)
  PROVE  PadState(w, m.air, c[p + Len(m.fields)], s, h + 1)
<1>0. a \in Program /\ h \in Nat /\ h + 1 \in Nat /\ h <= h + 1
  BY AroundOK DEF PadState, GroupState
<1>1. CASE IsLabelMove(m, a) \/ IsOtherMove(m, a)
  <2>1. PadState(w, m.air, c[p + Len(m.fields)], s, h)
    BY <1>1, LabelMoveLost
  <2> QED BY <1>0, <2>1, PadStateMore
<1>2. CASE IsBeginMove(m, a)
  BY <1>2, BeginMoveLost
<1>3. CASE IsGoMove(m, a)
  BY <1>3, GoMoveLost
<1> QED BY <1>0, <1>1, <1>2, <1>3, MoveKinds

-----------------------------------------------------------------------------
(* PADs of one move or two.                                                *)

\* The group goes on behind a PAD that ends within it, and did not begin in it.
GoesOn(m) ==
  /\ m.air.group # None /\ Last(m.fields).ci = 13
  /\ \A i \in DOMAIN m.fields : m.fields[i].ci # 12

Sized(m) == Move(m.fields, [m.air EXCEPT !.size = IF GoesOn(m) THEN Len(m.fields) ELSE 0])

LEMMA ComposedOf ==
  ASSUME NEW a, NEW m \in Composed(a)
  PROVE  \E x \in Moves(a) :
           \/ m = Sized(x)
           \/ \E y \in Moves(x.air) : m = Sized(Move(x.fields \o y.fields, y.air))
BY Zenon DEF Composed, Sized, GoesOn

\* A move has one subfield or two.
MoveFieldsOK(m) ==
  /\ Len(m.fields) \in 1 .. 2 /\ DOMAIN m.fields = 1 .. Len(m.fields)
  /\ \A i \in 1 .. Len(m.fields) : IsField(m.fields[i])
  /\ \A V : (\A i \in 1 .. Len(m.fields) : m.fields[i] \in V) => m.fields \in Seq(V)

LEMMA OneField ==
  ASSUME NEW m, NEW f, m.fields = <<f>>, IsField(f) PROVE MoveFieldsOK(m)
<1>1. Len(m.fields) = 1 /\ DOMAIN m.fields = 1 .. 1 /\ m.fields[1] = f
  OBVIOUS
<1>2. ASSUME NEW V, f \in V PROVE m.fields \in Seq(V)
  BY <1>2
<1> QED BY <1>1, <1>2 DEF MoveFieldsOK

LEMMA TwoFields ==
  ASSUME NEW m, NEW f, NEW g, m.fields = <<f, g>>, IsField(f), IsField(g) PROVE MoveFieldsOK(m)
<1>1. Len(m.fields) = 2 /\ DOMAIN m.fields = 1 .. 2 /\ m.fields[1] = f /\ m.fields[2] = g
  OBVIOUS
<1>2. ASSUME NEW V, f \in V, g \in V PROVE m.fields \in Seq(V)
  BY <1>2
<1>3. \A i \in 1 .. 2 : i = 1 \/ i = 2
  OBVIOUS
<1>4. ASSUME NEW V, \A i \in 1 .. Len(m.fields) : m.fields[i] \in V PROVE m.fields \in Seq(V)
  <2>1. 1 \in 1 .. Len(m.fields) /\ 2 \in 1 .. Len(m.fields)
    BY <1>1
  <2>2. f \in V /\ g \in V
    BY <1>1, <1>4, <2>1
  <2> QED BY <1>2, <2>2
<1>5. \A i \in 1 .. Len(m.fields) : IsField(m.fields[i])
  BY <1>1, <1>3
<1>6. Len(m.fields) \in 1 .. 2 /\ DOMAIN m.fields = 1 .. Len(m.fields)
  BY <1>1
<1> QED BY <1>4, <1>5, <1>6 DEF MoveFieldsOK

LEMMA MoveFields ==
  ASSUME NEW a \in Program, LabelOK(a, Label), OnAir(a), NEW m \in Moves(a)
  PROVE  /\ MoveFieldsOK(m)
         /\ ~IsOtherMove(m, a) => \A i \in 1 .. Len(m.fields) : m.fields[i].ci # 0
         /\ IsOtherMove(m, a) => m.fields[1].ci = 0
<1>0. a.index \in 0 .. Around - 1
  BY DEF OnAir, Around
<1>1. CASE IsLabelMove(m, a)
  <2>1. PICK f : m.fields = <<f>> /\ IsField(f) /\ f.ci \in {2, 3}
    BY <1>1 DEF IsLabelMove
  <2>2. MoveFieldsOK(m)
    BY <2>1, OneField
  <2>3. \A i \in 1 .. Len(m.fields) : m.fields[i] = f
    BY <2>1
  <2>4. f.ci # 0 /\ m.fields[1] = f
    BY <2>1
  <2>5. ~IsOtherMove(m, a)
    <3>1. m.fields # <<[ci |-> 0]>>
      BY <2>4
    <3> QED BY <3>1 DEF IsOtherMove
  <2> QED BY <2>2, <2>3, <2>4, <2>5
<1>2. CASE IsBeginMove(m, a)
  <2>1. PICK g \in PadGroup :
          m.fields = <<[ci |-> 1, length |-> GroupUnits[g]], UnitField(g, 1, a.index)>>
    BY <1>2 DEF IsBeginMove
  <2> DEFINE f == [ci |-> 1, length |-> GroupUnits[g]]
             u == UnitField(g, 1, a.index)
  <2>2. f.ci = 1 /\ u.ci = 12 /\ u.unit = Unit(g, 1, a.index) /\ f.length \in Nat /\ m.fields = <<f, u>>
    BY <2>1, PadGroupFields, UnitFields
  <2> HIDE DEF f, u
  <2>3. IsField(f) /\ IsField(u)
    <3>1. 1 \in Nat
      OBVIOUS
    <3>2. u.unit \in GroupUnit
      BY <1>0, <2>2, <3>1, UnitOK
    <3> QED BY <2>2, <3>2 DEF IsField
  <2>4. MoveFieldsOK(m)
    BY <2>2, <2>3, TwoFields
  <2>5. \A i \in 1 .. Len(m.fields) : m.fields[i] = f \/ m.fields[i] = u
    <3>1. Len(m.fields) = 2 /\ m.fields[1] = f /\ m.fields[2] = u
      BY <2>2
    <3> QED BY <3>1
  <2>6. m.fields # <<[ci |-> 0]>>
    BY <2>2
  <2> QED BY <2>2, <2>4, <2>5, <2>6 DEF IsOtherMove
<1>3. CASE IsGoMove(m, a)
  <2> DEFINE u == UnitField(a.group, a.unit, a.index)
  <2>1. m.fields = <<u>> /\ a.group \in PadGroup /\ a.unit \in Nat /\ a.unit # 1
    BY <1>3 DEF IsGoMove, OnAir
  <2>2. u.ci = 13 /\ u.unit \in GroupUnit
    BY <1>0, <2>1, UnitFields, UnitOK
  <2> HIDE DEF u
  <2>3. IsField(u)
    BY <2>2 DEF IsField
  <2>4. MoveFieldsOK(m)
    BY <2>1, <2>3, OneField
  <2>5. \A i \in 1 .. Len(m.fields) : m.fields[i] = u
    BY <2>1
  <2>6. ~IsOtherMove(m, a)
    <3>1. m.fields[1] = u
      BY <2>1
    <3>2. m.fields # <<[ci |-> 0]>>
      BY <2>2, <3>1
    <3> QED BY <3>2 DEF IsOtherMove
  <2> QED BY <2>2, <2>4, <2>5, <2>6
<1>4. CASE IsOtherMove(m, a)
  <2> DEFINE f == [ci |-> 0]
  <2>1. m.fields = <<f>> /\ f.ci = 0 /\ IsField(f)
    BY <1>4 DEF IsOtherMove, IsField
  <2> HIDE DEF f
  <2>2. MoveFieldsOK(m)
    BY <2>1, OneField
  <2> QED BY <1>4, <2>1, <2>2
<1> QED BY <1>1, <1>2, <1>3, <1>4, MoveKinds

-----------------------------------------------------------------------------
(* What of a PAD is handled.                                               *)

LEMMA AllHandled ==
  ASSUME NEW fields, \A i \in DOMAIN fields : fields[i].ci # 0
  PROVE  HandledOf(fields) = fields
BY DEF HandledOf

LEMMA SomeHandled ==
  ASSUME NEW V, NEW fields \in Seq(V), NEW j \in 1 .. Len(fields), fields[j].ci = 0,
         \A i \in 1 .. j - 1 : fields[i].ci # 0
  PROVE  HandledOf(fields) = SubSeq(fields, 1, j - 1)
<1> DEFINE First(i) == fields[i].ci = 0 /\ \A x \in 1 .. i - 1 : fields[x].ci # 0
           i == CHOOSE x \in DOMAIN fields : First(x)
<1>1. DOMAIN fields = 1 .. Len(fields) /\ Len(fields) \in Nat
  OBVIOUS
<1>2. j \in DOMAIN fields /\ First(j)
  BY <1>1
<1>3. i \in DOMAIN fields /\ First(i)
  <2> HIDE DEF First
  <2> QED BY <1>2
<1>4. i = j
  <2>1. i \in Int /\ j \in Int /\ 1 <= i /\ 1 <= j
    BY <1>1, <1>3
  <2>2. ~(i < j)
    <3> SUFFICES ASSUME i < j PROVE FALSE
      OBVIOUS
    <3>1. i \in 1 .. j - 1
      BY <2>1
    <3> QED BY <1>3, <3>1
  <2>3. ~(j < i)
    <3> SUFFICES ASSUME j < i PROVE FALSE
      OBVIOUS
    <3>1. j \in 1 .. i - 1
      BY <2>1
    <3> QED BY <1>3, <3>1
  <2> QED BY <2>1, <2>2, <2>3
<1>5. HandledOf(fields) = SubSeq(fields, 1, i - 1)
  <2>1. \E x \in DOMAIN fields : fields[x].ci = 0
    BY <1>2
  <2> QED BY <2>1, Zenon DEF HandledOf
<1> HIDE DEF i
<1> QED BY <1>4, <1>5

-----------------------------------------------------------------------------
(* A PAD with CI.                                                          *)

PadAfter(u, w, a, c, s, h) ==
  PadState(u, a, c, s, h) /\ u.pad.xpadLength = w.pad.xpadLength

\* After its subfields, whether they were handled or lost.
CameWithCI(w, b, fields, air, s, h) ==
  LET n == Len(fields)
      handled == HandledOf(fields) IN
  /\ h <= Around - 2 => \A c : Comes(c, n, b, fields, 0) => PadState(w, air, c[n], s, h + 2)
  /\ Len(handled) = n \/ h <= Around - 2 => \A c : Comes(c, n, b, fields, Len(handled)) =>
       PadAfter(FoldLeft(Subfield, w, handled), w, air, c[n], s,
                IF Len(handled) = n THEN h ELSE h + 2)

LEMMA SequencesJoined ==
  ASSUME NEW V, NEW p \in Seq(V), NEW q \in Seq(V)
  PROVE  /\ p \o q \in Seq(V) /\ Len(p \o q) = Len(p) + Len(q)
         /\ DOMAIN (p \o q) = 1 .. Len(p) + Len(q)
         /\ \A i \in 1 .. Len(p) : (p \o q)[i] = p[i]
         /\ \A j \in 1 .. Len(q) : (p \o q)[Len(p) + j] = q[j]
<1>1. Len(p) \in Nat /\ Len(q) \in Nat
  OBVIOUS
<1>2. ASSUME NEW i \in 1 .. Len(p) PROVE (p \o q)[i] = p[i]
  OBVIOUS
<1>3. ASSUME NEW j \in 1 .. Len(q) PROVE (p \o q)[Len(p) + j] = q[j]
  <2>1. Len(p) + j \in 1 .. Len(p) + Len(q) /\ Len(p) + j > Len(p) /\ (Len(p) + j) - Len(p) = j
    BY <1>1
  <2> QED BY <2>1
<1> QED BY <1>1, <1>2, <1>3

FieldsJoined(fields, x, y) ==
  LET n == Len(x.fields)
      m == Len(y.fields) IN
  /\ n \in 1 .. 2 /\ m \in 1 .. 2
  /\ Len(fields) = n + m /\ DOMAIN fields = 1 .. n + m
  /\ \A i \in 1 .. n : fields[i] = x.fields[i]
  /\ \A j \in 1 .. m : fields[n + j] = y.fields[j]
  /\ \A i \in 1 .. n + m : IsField(fields[i])
  /\ \E V : fields \in Seq(V) /\ x.fields \in Seq(V)

LEMMA JoinedFields ==
  ASSUME NEW x, NEW y, MoveFieldsOK(x), MoveFieldsOK(y)
  PROVE  FieldsJoined(x.fields \o y.fields, x, y)
<1> DEFINE n == Len(x.fields)
           m == Len(y.fields)
           V == {x.fields[i] : i \in 1 .. n} \union {y.fields[j] : j \in 1 .. m}
           fields == x.fields \o y.fields
<1>1. n \in 1 .. 2 /\ m \in 1 .. 2
  BY DEF MoveFieldsOK
<1>2. x.fields \in Seq(V) /\ y.fields \in Seq(V)
  <2>1. (\A i \in 1 .. n : x.fields[i] \in V) /\ (\A j \in 1 .. m : y.fields[j] \in V)
    OBVIOUS
  <2> HIDE DEF V
  <2> QED BY <2>1 DEF MoveFieldsOK
<1> HIDE DEF V
<1>3. /\ fields \in Seq(V) /\ Len(fields) = n + m /\ DOMAIN fields = 1 .. n + m
      /\ \A i \in 1 .. n : fields[i] = x.fields[i]
      /\ \A j \in 1 .. m : fields[n + j] = y.fields[j]
  <2>1. x.fields \in Seq(V) /\ y.fields \in Seq(V)
    BY <1>2
  <2> DEFINE p == x.fields
             q == y.fields
  <2>2. p \in Seq(V) /\ q \in Seq(V)
    BY <2>1
  <2> HIDE DEF p, q
  <2>3. /\ p \o q \in Seq(V) /\ Len(p \o q) = Len(p) + Len(q)
        /\ DOMAIN (p \o q) = 1 .. Len(p) + Len(q)
    BY <2>2, SequencesJoined
  <2>4. \A i \in 1 .. Len(p) : (p \o q)[i] = p[i]
    BY <2>2, SequencesJoined
  <2>5. \A j \in 1 .. Len(q) : (p \o q)[Len(p) + j] = q[j]
    BY <2>2, SequencesJoined
  <2> QED BY <2>3, <2>4, <2>5, Zenon DEF p, q
<1>4. (\A i \in 1 .. n : IsField(x.fields[i])) /\ (\A j \in 1 .. m : IsField(y.fields[j]))
  BY DEF MoveFieldsOK
<1> HIDE DEF n, m, fields
<1>5. ASSUME NEW i \in 1 .. n + m PROVE IsField(fields[i])
  <2>1. CASE i <= n
    <3>1. i \in 1 .. n
      BY <1>1, <2>1
    <3> QED BY <1>3, <1>4, <3>1
  <2>2. CASE i > n
    <3>1. i - n \in 1 .. m /\ n + (i - n) = i
      BY <1>1, <2>2
    <3> QED BY <1>3, <1>4, <3>1
  <2> QED BY <1>1, <2>1, <2>2
<1> QED BY <1>1, <1>2, <1>3, <1>5 DEF n, m, fields, FieldsJoined

LEMMA PadOnAir ==
  ASSUME NEW w, NEW a, NEW c, NEW s, NEW h, PadState(w, a, c, s, h)
  PROVE  /\ w \in PadWork /\ a \in Program /\ OnAir(a) /\ c \in Program
         /\ SlidesOf(s, c.arrived) \in Slides \union {None}
BY DEF PadState, GroupState, GroupsOK

LEMMA OneMoveCame ==
  ASSUME NEW w, NEW a, LabelOK(a, Label), NEW b, NEW s \in Slides \union {None},
         NEW h \in 0 .. Around, PadState(w, a, b, s, h), NEW x \in Moves(a)
  PROVE  CameWithCI(w, b, x.fields, x.air, s, h)
<1> DEFINE fields == x.fields
           n == Len(fields)
           handled == HandledOf(fields)
           u == FoldLeft(Subfield, w, handled)
<1>0. /\ h <= Around - 2 => h \in 0 .. Around - 1
      /\ h \in Nat /\ h \in 0 .. Around
      /\ h + 1 \in Nat /\ h + 2 \in Nat /\ h + 1 <= h + 2 /\ 0 \in Nat
  BY AroundOK
<1>1. w \in PadWork /\ a \in Program /\ OnAir(a)
  BY PadOnAir
<1>2. /\ MoveFieldsOK(x)
      /\ ~IsOtherMove(x, a) => \A i \in 1 .. n : fields[i].ci # 0
      /\ IsOtherMove(x, a) => fields[1].ci = 0
  BY <1>1, MoveFields
<1>3. n \in 1 .. 2 /\ n \in Nat /\ DOMAIN fields = 1 .. n /\ \A i \in 1 .. n : IsField(fields[i])
  BY <1>2 DEF MoveFieldsOK
<1>4. ASSUME h <= Around - 2, NEW c, Comes(c, n, b, fields, 0) PROVE PadState(w, x.air, c[n], s, h + 2)
  <2>1. c[0] = b
    BY <1>4 DEF Comes
  <2>2. Passed(c, 0, fields, 0)
    <3>1. \A j \in 1 .. n : 0 + j = j /\ 0 + j - 1 = j - 1
      BY <1>3
    <3> HIDE DEF fields
    <3> QED BY <1>4, <3>1 DEF Comes, Passed
  <2>3. PadState(w, x.air, c[0 + n], s, h + 1)
    <3>1. PICK p \in Nat : p = 0
      OBVIOUS
    <3>2. PadState(w, a, c[p], s, h) /\ 0 <= p /\ Passed(c, p, x.fields, 0) /\ 0 \in Int
      BY <2>1, <2>2, <3>1
    <3>3. PadState(w, x.air, c[p + Len(x.fields)], s, h + 1)
      BY <1>0, <1>4, <3>2, MoveLost
    <3> QED BY <3>1, <3>3
  <2>4. 0 + n = n
    BY <1>3
  <2>5. PadState(w, x.air, c[n], s, h + 1)
    BY <2>3, <2>4, Zenon
  <2> QED BY <1>0, <2>5, PadStateMore
<1>5. ASSUME Len(handled) = n \/ h <= Around - 2, NEW c, Comes(c, n, b, fields, Len(handled))
      PROVE  PadAfter(u, w, x.air, c[n], s, IF Len(handled) = n THEN h ELSE h + 2)
  <2>1. CASE IsOtherMove(x, a)
    <3>1. handled = SubSeq(fields, 1, 1 - 1)
      <4>1. PICK V : fields \in Seq(V)
        <5>1. fields \in Seq({fields[i] : i \in 1 .. n})
          <6>1. \A i \in 1 .. n : fields[i] \in {fields[j] : j \in 1 .. n}
            OBVIOUS
          <6> QED BY <1>2, <6>1 DEF MoveFieldsOK
        <5> QED BY <5>1
      <4>2. 1 \in 1 .. Len(fields) /\ fields[1].ci = 0 /\ \A i \in 1 .. 1 - 1 : fields[i].ci # 0
        BY <1>2, <1>3, <2>1
      <4> HIDE DEF fields
      <4> QED BY <4>1, <4>2, SomeHandled
    <3>2. handled = <<>> /\ Len(handled) = 0
      <4>1. SubSeq(fields, 1, 0) = <<>>
        OBVIOUS
      <4> QED BY <3>1, <4>1
    <3>3. u = w
      <4>1. \E k : Handles(k, 0, w, <<>>) /\ FoldLeft(Subfield, w, <<>>) = k[0]
        <5>1. DOMAIN <<>> = 1 .. 0 /\ 0 \in Nat /\ \A i \in 1 .. 0 : IsField(<<>>[i]) /\ <<>>[i].ci # 0
          OBVIOUS
        <5> QED BY <1>1, <5>1, SubfieldsHandled
      <4> QED BY <3>2, <4>1 DEF Handles
    <3>4. PadState(w, x.air, c[n], s, h + 2)
      <4>1. h <= Around - 2
        <5> HIDE DEF handled, n
        <5> QED BY <1>3, <1>5, <3>2
      <4> QED BY <1>4, <1>5, <3>2, <4>1
    <3> HIDE DEF u, handled, n
    <3>5. (IF Len(handled) = n THEN h ELSE h + 2) = h + 2
      BY <1>3, <3>2
    <3> QED BY <3>3, <3>4, <3>5 DEF PadAfter
  <2>2. CASE ~IsOtherMove(x, a)
    <3>1. handled = fields
      <4>1. \A i \in DOMAIN fields : fields[i].ci # 0
        BY <1>2, <1>3, <2>2
      <4> HIDE DEF fields
      <4> QED BY <4>1, AllHandled
    <3>2. PICK k : Handles(k, n, w, fields) /\ FoldLeft(Subfield, w, fields) = k[n]
      <4>1. \A i \in 1 .. n : IsField(fields[i]) /\ fields[i].ci # 0
        BY <1>2, <1>3, <2>2
      <4> HIDE DEF fields, n
      <4> QED BY <1>1, <1>3, <4>1, SubfieldsHandled
    <3>3. TakenHere(k, c, 0, fields, n)
      <4>1. \A j \in 1 .. n : 0 + j = j /\ 0 + j - 1 = j - 1
        BY <1>3
      <4>2. Comes(c, n, b, fields, n)
        BY <1>5, <3>1
      <4> HIDE DEF fields
      <4> QED BY <3>2, <4>1, <4>2 DEF Comes, Handles, TakenHere
    <3>4. StateTaken(k, c, 0, n, x.air, s, h)
      <4>1. PadState(k[0], a, c[0], s, h)
        BY <1>5, <3>2 DEF Comes, Handles
      <4>2. 0 + n <= n /\ n \in Int
        BY <1>3
      <4> QED BY <1>0, <2>2, <3>3, <4>1, <4>2, MoveTaken
    <3>5. k[0] = w /\ 0 + n = n /\ u = k[n] /\ (IF Len(handled) = n THEN h ELSE h + 2) = h
      BY <1>3, <3>1, <3>2 DEF Handles
    <3>6. PadState(k[n], x.air, c[n], s, h) /\ k[n].pad.xpadLength = w.pad.xpadLength
      BY <3>4, <3>5, Zenon DEF StateTaken
    <3> HIDE DEF u, handled, n
    <3> QED BY <3>5, <3>6 DEF PadAfter
  <2> QED BY <2>1, <2>2
<1> QED BY <1>4, <1>5, Zenon DEF CameWithCI

\* One move after another.
PassesBoth(c, b, x, y, got) ==
  c[0] = b /\ Passed(c, 0, x.fields, got) /\ Passed(c, Len(x.fields), y.fields, got)

LEMMA PassedBoth ==
  ASSUME NEW x, NEW y, MoveFieldsOK(x), MoveFieldsOK(y), NEW b, NEW c, NEW got \in Int,
         Comes(c, Len(x.fields) + Len(y.fields), b, x.fields \o y.fields, got)
  PROVE  PassesBoth(c, b, x, y, got)
<1> DEFINE fields == x.fields \o y.fields
           n == Len(x.fields)
           m == Len(y.fields)
<1>1. /\ n \in 1 .. 2 /\ m \in 1 .. 2
      /\ \A i \in 1 .. n : fields[i] = x.fields[i]
      /\ \A j \in 1 .. m : fields[n + j] = y.fields[j]
  <2>1. FieldsJoined(fields, x, y)
    BY JoinedFields
  <2> QED BY <2>1, Zenon DEF FieldsJoined
<1>2. c[0] = b /\ \A i \in 1 .. n + m : c[i] = Came(c[i - 1], fields[i], i <= got)
  BY Zenon DEF Comes
<1> HIDE DEF fields, n, m
<1>3. ASSUME NEW j \in 1 .. n
      PROVE  c[0 + j] = Came(c[0 + j - 1], x.fields[j], 0 + j <= got)
  <2>1. j \in 1 .. n + m /\ 0 + j = j /\ 0 + j - 1 = j - 1
    BY <1>1
  <2> QED BY <1>1, <1>2, <2>1
<1>4. ASSUME NEW j \in 1 .. m
      PROVE  c[n + j] = Came(c[n + j - 1], y.fields[j], n + j <= got)
  <2>1. n + j \in 1 .. n + m
    BY <1>1
  <2> QED BY <1>1, <1>2, <2>1
<1> QED BY <1>2, <1>3, <1>4, Zenon DEF Passed, PassesBoth, n, m

LEMMA TakenFirst ==
  ASSUME NEW x, NEW c, NEW got \in Int, Passed(c, 0, x.fields, got), Len(x.fields) \in Nat,
         NEW k, NEW w, NEW q \in Nat, Len(x.fields) <= q, NEW f, Handles(k, q, w, f),
         \A i \in 1 .. Len(x.fields) : f[i] = x.fields[i]
  PROVE  TakenHere(k, c, 0, x.fields, got)
<1> DEFINE n == Len(x.fields)
<1>1. ASSUME NEW j \in 1 .. n PROVE k[0 + j] = Subfield(k[0 + j - 1], x.fields[j])
  <2>1. j \in 1 .. q /\ 0 + j = j /\ 0 + j - 1 = j - 1
    OBVIOUS
  <2> QED BY <2>1 DEF Handles
<1> QED BY <1>1, Zenon DEF TakenHere, Passed

LEMMA TakenSecond ==
  ASSUME NEW y, NEW c, NEW n \in Nat, NEW got \in Int, Passed(c, n, y.fields, got),
         Len(y.fields) \in Nat,
         NEW k, NEW w, NEW f, Handles(k, n + Len(y.fields), w, f),
         \A j \in 1 .. Len(y.fields) : f[n + j] = y.fields[j]
  PROVE  TakenHere(k, c, n, y.fields, got)
<1> DEFINE m == Len(y.fields)
<1>1. ASSUME NEW j \in 1 .. m PROVE k[n + j] = Subfield(k[n + j - 1], y.fields[j])
  <2>1. n + j \in 1 .. n + m
    OBVIOUS
  <2>2. k[n + j] = Subfield(k[n + j - 1], f[n + j])
    BY <2>1 DEF Handles
  <2> QED BY <2>2
<1> QED BY <1>1, Zenon DEF TakenHere, Passed

\* All of two moves is lost.
LEMMA BothLost ==
  ASSUME NEW w, NEW a, LabelOK(a, Label), NEW b, NEW s \in Slides \union {None},
         NEW h \in 0 .. Around - 2, PadState(w, a, b, s, h), NEW x \in Moves(a),
         NEW y \in Moves(x.air), NEW c,
         Comes(c, Len(x.fields) + Len(y.fields), b, x.fields \o y.fields, 0)
  PROVE  PadState(w, y.air, c[Len(x.fields) + Len(y.fields)], s, h + 2)
<1> DEFINE n == Len(x.fields)
<1>0. /\ h \in 0 .. Around - 1 /\ h \in 0 .. Around /\ h \in Nat
      /\ h + 1 \in 0 .. Around - 1 /\ (h + 1) + 1 = h + 2 /\ 0 \in Int
  BY AroundOK
<1>1. a \in Program /\ OnAir(a)
  BY PadOnAir
<1>2. x.air \in Program /\ LabelOK(x.air, Label) /\ OnAir(x.air)
  BY <1>1, MoveAir
<1>3. MoveFieldsOK(x) /\ MoveFieldsOK(y)
  BY <1>1, <1>2, MoveFields
<1>6. n \in Nat
  BY <1>3 DEF MoveFieldsOK
<1>7. c[0] = b /\ Passed(c, 0, x.fields, 0) /\ Passed(c, n, y.fields, 0)
  BY <1>0, <1>3, PassedBoth DEF PassesBoth
<1> HIDE DEF n
<1>8. PadState(w, x.air, c[n], s, h + 1)
  <2>1. PICK p \in Nat : p = 0
    OBVIOUS
  <2>2. PadState(w, a, c[p], s, h) /\ 0 <= p /\ Passed(c, p, x.fields, 0)
    BY <1>7, <2>1
  <2>3. PadState(w, x.air, c[p + n], s, h + 1)
    BY <1>0, <2>2, MoveLost DEF n
  <2>4. p + n = n
    BY <1>6, <2>1
  <2> QED BY <2>3, <2>4, Zenon
<1>9. PadState(w, y.air, c[n + Len(y.fields)], s, (h + 1) + 1)
  <2>1. 0 <= n
    BY <1>6
  <2> QED BY <1>0, <1>2, <1>6, <1>7, <1>8, <2>1, MoveLost
<1> QED BY <1>0, <1>9 DEF n

\* Two moves of which all is handled.
LEMMA BothTaken ==
  ASSUME NEW w, NEW a, LabelOK(a, Label), NEW b, NEW s \in Slides \union {None},
         NEW h \in 0 .. Around, PadState(w, a, b, s, h), NEW x \in Moves(a),
         NEW y \in Moves(x.air), ~IsOtherMove(x, a), ~IsOtherMove(y, x.air), NEW c, NEW k,
         Comes(c, Len(x.fields) + Len(y.fields), b, x.fields \o y.fields,
               Len(x.fields) + Len(y.fields)),
         Handles(k, Len(x.fields) + Len(y.fields), w, x.fields \o y.fields)
  PROVE  PadAfter(k[Len(x.fields) + Len(y.fields)], w, y.air,
                  c[Len(x.fields) + Len(y.fields)], s, h)
<1> DEFINE n == Len(x.fields)
           m == Len(y.fields)
           fields == x.fields \o y.fields
<1>0. h \in 0 .. Around
  BY AroundOK
<1>1. a \in Program /\ OnAir(a)
  BY PadOnAir
<1>2. x.air \in Program /\ LabelOK(x.air, Label) /\ OnAir(x.air)
  BY <1>1, MoveAir
<1>3. MoveFieldsOK(x) /\ MoveFieldsOK(y)
  BY <1>1, <1>2, MoveFields
<1>4. FieldsJoined(fields, x, y)
  BY <1>3, JoinedFields
<1>5. /\ n \in 1 .. 2 /\ m \in 1 .. 2
      /\ \A i \in 1 .. n : fields[i] = x.fields[i]
      /\ \A j \in 1 .. m : fields[n + j] = y.fields[j]
  BY <1>4, Zenon DEF FieldsJoined
<1>6. n \in Nat /\ m \in Nat /\ n + m \in Nat /\ n <= n + m /\ n + m \in Int
  <2> HIDE DEF n, m
  <2> QED BY <1>5
<1>7. c[0] = b /\ Passed(c, 0, x.fields, n + m) /\ Passed(c, n, y.fields, n + m)
  BY <1>3, <1>6, PassedBoth DEF PassesBoth
<1>a. k[0] = w
  BY DEF Handles
<1>8. TakenHere(k, c, 0, x.fields, n + m)
  <2> HIDE DEF fields
  <2> QED BY <1>5, <1>6, <1>7, TakenFirst DEF fields
<1>9. TakenHere(k, c, n, y.fields, n + m)
  <2> HIDE DEF fields
  <2> QED BY <1>5, <1>6, <1>7, TakenSecond DEF fields
<1>10. StateTaken(k, c, 0, n, x.air, s, h)
  <2> HIDE DEF n, m, fields
  <2>1. PICK p \in Nat : p = 0
    OBVIOUS
  <2>2. PadState(k[p], a, c[p], s, h) /\ TakenHere(k, c, p, x.fields, n + m) /\ p + n <= n + m
    BY <1>6, <1>7, <1>8, <1>a, <2>1
  <2>3. StateTaken(k, c, p, n, x.air, s, h)
    BY <1>0, <1>6, <2>2, MoveTaken DEF n
  <2> QED BY <2>1, <2>3, Zenon
<1> HIDE DEF n, m, fields
<1>11. PadState(k[n], x.air, c[n], s, h) /\ k[n].pad.xpadLength = w.pad.xpadLength
  <2>1. 0 + n = n
    BY <1>6
  <2> QED BY <1>a, <1>10, <2>1, Zenon DEF StateTaken
<1>12. StateTaken(k, c, n, m, y.air, s, h)
  <2>1. n + m <= n + m
    BY <1>6
  <2> QED BY <1>0, <1>2, <1>6, <1>9, <1>11, <2>1, MoveTaken DEF m
<1>13. PadAfter(k[n + m], w, y.air, c[n + m], s, h)
  BY <1>11, <1>12, Zenon DEF StateTaken, PadAfter
<1> QED BY <1>13 DEF n, m

\* Two moves of which the first is handled.
LEMMA FirstHandled ==
  ASSUME NEW w, NEW a, LabelOK(a, Label), NEW b, NEW s \in Slides \union {None},
         NEW h \in 0 .. Around - 2, PadState(w, a, b, s, h), NEW x \in Moves(a),
         NEW y \in Moves(x.air), ~IsOtherMove(x, a), NEW c, NEW k, NEW f,
         Comes(c, Len(x.fields) + Len(y.fields), b, x.fields \o y.fields, Len(x.fields)),
         Handles(k, Len(x.fields), w, f), \A i \in 1 .. Len(x.fields) : f[i] = x.fields[i]
  PROVE  PadAfter(k[Len(x.fields)], w, y.air, c[Len(x.fields) + Len(y.fields)], s, h + 1)
<1> DEFINE n == Len(x.fields)
           m == Len(y.fields)
<1>0. h \in 0 .. Around /\ h \in 0 .. Around - 1
  BY AroundOK
<1>1. a \in Program /\ OnAir(a)
  BY PadOnAir
<1>2. x.air \in Program /\ LabelOK(x.air, Label) /\ OnAir(x.air)
  BY <1>1, MoveAir
<1>3. MoveFieldsOK(x) /\ MoveFieldsOK(y)
  BY <1>1, <1>2, MoveFields
<1>5. n \in 1 .. 2 /\ m \in 1 .. 2
  BY <1>3 DEF MoveFieldsOK
<1>6. n \in Nat /\ m \in Nat /\ n + m \in Nat /\ n <= n /\ n \in Int
  <2> HIDE DEF n, m
  <2> QED BY <1>5
<1>7. c[0] = b /\ Passed(c, 0, x.fields, n) /\ Passed(c, n, y.fields, n)
  BY <1>3, <1>6, PassedBoth DEF PassesBoth
<1>8. k[0] = w
  BY DEF Handles
<1>9. TakenHere(k, c, 0, x.fields, n)
  BY <1>5, <1>6, <1>7, TakenFirst
<1> HIDE DEF n, m
<1>10. StateTaken(k, c, 0, n, x.air, s, h)
  <2>1. PICK p \in Nat : p = 0
    OBVIOUS
  <2>2. PadState(k[p], a, c[p], s, h) /\ TakenHere(k, c, p, x.fields, n) /\ p + n <= n
    BY <1>6, <1>7, <1>8, <1>9, <2>1
  <2>3. StateTaken(k, c, p, n, x.air, s, h)
    BY <1>0, <1>6, <2>2, MoveTaken DEF n
  <2> QED BY <2>1, <2>3, Zenon
<1>11. PadState(k[n], x.air, c[n], s, h) /\ k[n].pad.xpadLength = w.pad.xpadLength
  <2>1. 0 + n = n
    BY <1>6
  <2> QED BY <1>8, <1>10, <2>1, Zenon DEF StateTaken
<1>12. PadState(k[n], y.air, c[n + m], s, h + 1)
  BY <1>0, <1>2, <1>6, <1>7, <1>11, MoveLost DEF m
<1>13. PadAfter(k[n], w, y.air, c[n + m], s, h + 1)
  BY <1>11, <1>12, Zenon DEF PadAfter
<1> QED BY <1>13 DEF n, m

LEMMA TwoMovesCame ==
  ASSUME NEW w, NEW a, LabelOK(a, Label), NEW b, NEW s \in Slides \union {None},
         NEW h \in 0 .. Around, PadState(w, a, b, s, h), NEW x \in Moves(a),
         NEW y \in Moves(x.air)
  PROVE  CameWithCI(w, b, x.fields \o y.fields, y.air, s, h)
<1> DEFINE n == Len(x.fields)
           m == Len(y.fields)
           fields == x.fields \o y.fields
           handled == HandledOf(fields)
           u == FoldLeft(Subfield, w, handled)
<1>0. (h <= Around - 2 => h \in 0 .. Around - 2) /\ h \in Nat /\ h + 1 \in Nat /\ h + 2 \in Nat /\ h + 1 <= h + 2
  BY AroundOK
<1>1. w \in PadWork /\ a \in Program /\ OnAir(a)
  BY PadOnAir
<1>2. x.air \in Program /\ LabelOK(x.air, Label) /\ OnAir(x.air)
  BY <1>1, MoveAir
<1>3. /\ MoveFieldsOK(x) /\ MoveFieldsOK(y)
      /\ ~IsOtherMove(x, a) => \A i \in 1 .. n : x.fields[i].ci # 0
      /\ IsOtherMove(x, a) => x.fields[1].ci = 0
      /\ ~IsOtherMove(y, x.air) => \A i \in 1 .. m : y.fields[i].ci # 0
      /\ IsOtherMove(y, x.air) => y.fields[1].ci = 0
  BY <1>1, <1>2, MoveFields
<1>4. FieldsJoined(fields, x, y)
  BY <1>3, JoinedFields
<1>5. /\ n \in 1 .. 2 /\ m \in 1 .. 2
      /\ Len(fields) = n + m /\ DOMAIN fields = 1 .. n + m
      /\ \A i \in 1 .. n : fields[i] = x.fields[i]
      /\ \A j \in 1 .. m : fields[n + j] = y.fields[j]
      /\ \A i \in 1 .. n + m : IsField(fields[i])
      /\ \E V : fields \in Seq(V)
  BY <1>4, Zenon DEF FieldsJoined
<1> HIDE DEF fields, n, m
<1>6. n \in Nat /\ m \in Nat /\ n + m \in Nat /\ n # n + m /\ 0 # n + m
  BY <1>5
<1>7. ASSUME h <= Around - 2, NEW c, Comes(c, n + m, b, fields, 0)
      PROVE  PadState(w, y.air, c[n + m], s, h + 2)
  BY <1>0, <1>7, BothLost DEF n, m, fields
<1>8. ASSUME Len(handled) = n + m \/ h <= Around - 2,
             NEW c, Comes(c, n + m, b, fields, Len(handled))
      PROVE  PadAfter(u, w, y.air, c[n + m], s, IF Len(handled) = n + m THEN h ELSE h + 2)
  <2>1. CASE IsOtherMove(x, a)
    <3>1. handled = SubSeq(fields, 1, 1 - 1)
      <4>1. 1 \in 1 .. Len(fields) /\ fields[1].ci = 0 /\ \A i \in 1 .. 1 - 1 : fields[i].ci # 0
        BY <1>3, <1>5, <2>1
      <4> QED BY <1>5, <4>1, SomeHandled
    <3>2. handled = <<>> /\ Len(handled) = 0
      <4>1. SubSeq(fields, 1, 0) = <<>>
        OBVIOUS
      <4> QED BY <3>1, <4>1
    <3>3. u = w
      <4>1. \E k : Handles(k, 0, w, <<>>) /\ FoldLeft(Subfield, w, <<>>) = k[0]
        <5>1. DOMAIN <<>> = 1 .. 0 /\ 0 \in Nat /\ \A i \in 1 .. 0 : IsField(<<>>[i]) /\ <<>>[i].ci # 0
          OBVIOUS
        <5> QED BY <1>1, <5>1, SubfieldsHandled
      <4> QED BY <3>2, <4>1 DEF Handles
    <3> HIDE DEF u, handled
    <3>4. PadState(w, y.air, c[n + m], s, h + 2)
      <4>1. h <= Around - 2
        BY <1>6, <1>8, <3>2
      <4> QED BY <1>7, <1>8, <3>2, <4>1
    <3>5. (IF Len(handled) = n + m THEN h ELSE h + 2) = h + 2
      BY <1>6, <3>2
    <3> QED BY <3>3, <3>4, <3>5 DEF PadAfter
  <2>2. CASE ~IsOtherMove(x, a) /\ IsOtherMove(y, x.air)
    <3>0. n + 1 \in 1 .. Len(fields) /\ fields[n + 1].ci = 0 /\ (n + 1) - 1 = n
      <4>1. 1 \in 1 .. m /\ n + 1 \in 1 .. n + m
        BY <1>5
      <4> QED BY <1>3, <1>5, <1>6, <2>2, <4>1
    <3>1. handled = SubSeq(fields, 1, (n + 1) - 1)
      <4>1. \A i \in 1 .. (n + 1) - 1 : fields[i].ci # 0
        BY <1>3, <1>5, <2>2, <3>0
      <4> QED BY <1>5, <3>0, <4>1, SomeHandled
    <3>2. /\ DOMAIN handled = 1 .. n /\ Len(handled) = n
          /\ \A i \in 1 .. n : handled[i] = fields[i]
      <4>1. n <= Len(fields)
        BY <1>5
      <4>2. handled = SubSeq(fields, 1, n)
        BY <3>0, <3>1
      <4>3. PICK V : fields \in Seq(V)
        BY <1>5
      <4> HIDE DEF handled
      <4> QED BY <1>6, <4>1, <4>2, <4>3
    <3> HIDE DEF handled
    <3>3. PICK k : Handles(k, n, w, handled) /\ u = k[n]
      <4>1. \A i \in 1 .. n : IsField(handled[i]) /\ handled[i].ci # 0
        <5>1. \A i \in 1 .. n : i \in 1 .. n + m
          BY <1>6
        <5> QED BY <1>3, <1>5, <2>2, <3>2, <5>1
      <4> QED BY <1>1, <1>6, <3>2, <4>1, SubfieldsHandled
    <3> HIDE DEF u
    <3>4. PadAfter(k[n], w, y.air, c[n + m], s, h + 1)
      <4>1. Comes(c, n + m, b, fields, n) /\ \A i \in 1 .. n : handled[i] = x.fields[i]
        BY <1>5, <1>8, <3>2
      <4>2. h \in 0 .. Around - 2
        BY <1>0, <1>6, <1>8, <3>2
      <4> QED BY <2>2, <3>3, <4>1, <4>2, FirstHandled DEF n, m, fields
    <3>5. PadAfter(u, w, y.air, c[n + m], s, h + 2)
      <4>1. PadState(k[n], y.air, c[n + m], s, h + 1) /\ k[n].pad.xpadLength = w.pad.xpadLength
        BY <3>4 DEF PadAfter
      <4>2. PadState(k[n], y.air, c[n + m], s, h + 2)
        BY <1>0, <4>1, PadStateMore
      <4> QED BY <3>3, <4>1, <4>2 DEF PadAfter
    <3>6. (IF Len(handled) = n + m THEN h ELSE h + 2) = h + 2
      BY <1>6, <3>2
    <3> QED BY <3>5, <3>6
  <2>3. CASE ~IsOtherMove(x, a) /\ ~IsOtherMove(y, x.air)
    <3>0. \A i \in 1 .. n + m : fields[i].ci # 0
      <4> TAKE i \in 1 .. n + m
      <4>1. CASE i <= n
        <5>1. i \in 1 .. n
          BY <4>1
        <5> QED BY <1>3, <1>5, <2>3, <5>1
      <4>2. CASE i > n
        <5>1. i - n \in 1 .. m /\ n + (i - n) = i
          BY <1>6, <4>2
        <5> QED BY <1>3, <1>5, <2>3, <5>1
      <4> QED BY <1>6, <4>1, <4>2
    <3>1. handled = fields
      BY <1>5, <3>0, AllHandled
    <3>2. PICK k : Handles(k, n + m, w, fields) /\ u = k[n + m]
      <4>1. PICK k : Handles(k, n + m, w, fields) /\ FoldLeft(Subfield, w, fields) = k[n + m]
        BY <1>1, <1>5, <1>6, <3>0, SubfieldsHandled
      <4> QED BY <3>1, <4>1
    <3>3. Comes(c, n + m, b, fields, n + m) /\ Len(handled) = n + m
      BY <1>5, <1>8, <3>1
    <3> HIDE DEF u, handled
    <3>4. PadAfter(k[n + m], w, y.air, c[n + m], s, h)
      BY <2>3, <3>2, <3>3, BothTaken DEF n, m, fields
    <3>5. (IF Len(handled) = n + m THEN h ELSE h + 2) = h
      BY <3>3
    <3> QED BY <3>2, <3>4, <3>5
  <2> QED BY <2>1, <2>2, <2>3
<1> QED BY <1>5, <1>7, <1>8, Zenon DEF CameWithCI, fields

-----------------------------------------------------------------------------
(* What the broadcaster knows after a PAD.                                 *)

Start(a, air) ==
  [air EXCEPT !.intact = a.intact, !.entire = a.entire, !.due = <<>>, !.arrived = <<>>]

LEMMA StartOK ==
  ASSUME NEW a \in Program, NEW air \in Program
  PROVE  ArrivedNow(Start(a, air), air, a.entire, <<>>)
<1> DEFINE b == [air EXCEPT !.intact = a.intact, !.due = <<>>]
           c == [b EXCEPT !.entire = a.entire, !.arrived = <<>>]
<1>1. /\ a.intact \in BOOLEAN /\ a.entire \in BOOLEAN
      /\ <<>> \in Seq(Label \union ShortLabel) /\ <<>> \in Seq(PadGroup)
  BY ProgramFields
<1>2. b \in Program /\ Placed(b, air)
  BY <1>1, IntactSet
<1>3. Start(a, air) = c
  BY DEF Start, Program
<1> HIDE DEF b
<1>4. ArrivedNow(c, b, a.entire, <<>>)
  BY <1>1, <1>2, EntireSet
<1> HIDE DEF c
<1>5. ArrivedNow(c, air, a.entire, <<>>)
  BY <1>2, <1>4, Zenon DEF ArrivedNow, Placed
<1> QED BY <1>3, <1>5, Zenon

LEMMA StartState ==
  ASSUME NEW w, NEW a, NEW h, GroupState(w, a, a.entire, a.slide, h), NEW air \in Program
  PROVE  PadState(w, a, Start(a, air), a.slide, h) /\ Start(a, air) \in Program
<1>1. a \in Program /\ a.slide \in Slides \union {None}
  BY DEF GroupState
<1>2. ArrivedNow(Start(a, air), air, a.entire, <<>>)
  BY <1>1, StartOK
<1>3. SlidesOf(a.slide, <<>>) = a.slide
  BY <1>1, NoSlides
<1> QED BY <1>2, <1>3, Zenon DEF PadState, ArrivedNow

LEMMA EndSet ==
  ASSUME NEW a \in Program, NEW i \in BOOLEAN, NEW s \in Slides \union {None}
  PROVE  LET b == [a EXCEPT !.clean = i, !.slide = s] IN
         b \in Program /\ Placed(b, a) /\ b.entire = a.entire /\ b.slide = s
BY DEF Program, Placed, Slides

Ended(b, a, i) == b.intact = a.intact /\ b.due = a.due /\ b.clean = i

LEMMA EndClean ==
  ASSUME NEW a \in Program, NEW i \in BOOLEAN, NEW s
  PROVE  Ended([a EXCEPT !.clean = i, !.slide = s], a, i)
BY DEF Program, Ended

\* What Follow comes to.
Followed(b, c, n, air, slide) ==
  /\ b \in Program /\ Placed(b, air)
  /\ b.entire = c[n].entire /\ b.slide = SlidesOf(slide, c[n].arrived)
  /\ b.intact = c[n].intact /\ b.due = c[n].due

\* Nothing of a PAD was lost, and nothing before since a label came whole.
CleanAfter(a, fields, got) == got = Len(fields) /\ (a.clean \/ a.due # <<>>)

LEMMA FollowMade ==
  ASSUME NEW a \in Program, NEW sent, sent.air \in Program, NEW n \in Nat, Len(sent.fields) = n,
         DOMAIN sent.fields = 1 .. n, \A i \in 1 .. n : IsField(sent.fields[i]), NEW got \in Int
  PROVE  \E c : /\ Comes(c, n, Start(a, sent.air), sent.fields, got)
                /\ Followed(Follow(a, sent, got), c, n, sent.air, a.slide)
                /\ Follow(a, sent, got).clean = CleanAfter(a, sent.fields, got)
<1> DEFINE start == Start(a, sent.air)
           end == AllCame(start, Numbered(sent.fields, got))
           clean == CleanAfter(a, sent.fields, got)
           slide == SlidesOf(a.slide, end.arrived)
           b == [end EXCEPT !.clean = clean, !.slide = slide]
<1>1. start \in Program /\ Placed(start, sent.air)
  BY StartOK, Zenon DEF ArrivedNow
<1>2. Follow(a, sent, got) = b
  BY Zenon DEF Follow, Start, Numbered, SlidesOf, AllCame, CleanAfter
<1>3. PICK c : Comes(c, n, start, sent.fields, got) /\ end = c[n]
  <2> HIDE DEF start
  <2> QED BY <1>1, FieldsCame
<1> HIDE DEF start, end
<1>4. end \in Program /\ Placed(end, start)
  <2>1. \A i \in 0 .. n : c[i] \in Program /\ Placed(c[i], start)
    BY <1>1, <1>3, CamesPlaced
  <2>2. n \in 0 .. n
    OBVIOUS
  <2> QED BY <1>3, <2>1, <2>2
<1>5. clean \in BOOLEAN
  BY DEF CleanAfter
<1>6. slide \in Slides \union {None}
  <2>1. a.slide \in Slides \union {None} /\ end.arrived \in Seq(PadGroup)
    BY <1>4, ProgramFields
  <2> QED BY <2>1, SlidesClosed
<1> HIDE DEF clean
<1>10. Ended(b, end, clean)
  <2> HIDE DEF slide
  <2> QED BY <1>4, <1>5, EndClean
<1>7. b \in Program /\ Placed(b, end) /\ b.entire = end.entire /\ b.slide = slide
  <2> HIDE DEF slide
  <2> QED BY <1>4, <1>5, <1>6, EndSet
<1> HIDE DEF b
<1>8. Placed(b, sent.air)
  BY <1>1, <1>4, <1>7 DEF Placed
<1>9. Followed(b, c, n, sent.air, a.slide)
  BY <1>3, <1>7, <1>8, <1>10, Zenon DEF Followed, Ended
<1> QED BY <1>2, <1>3, <1>9, <1>10, Zenon DEF start, clean, Ended

\* The state of padHandler and broadcaster between PADs.
PadGood(w, a, h) ==
  GroupState(w, a, a.entire, a.slide, h) /\ LabelOK(a, Label) /\ SizeOK(w.pad, a, a.entire)

LEMMA FollowGood ==
  ASSUME NEW b, NEW c, NEW n, NEW air, NEW slide, Followed(b, c, n, air, slide),
         NEW u, NEW air0, NEW h, PadState(u, air0, c[n], slide, h), AirOf(air, air0),
         LabelOK(air, Label), SizeOK(u.pad, air, c[n].entire)
  PROVE  PadGood(u, b, h)
<1>1. GroupState(u, air0, c[n].entire, SlidesOf(slide, c[n].arrived), h) /\ u \in PadWork
  BY DEF PadState, GroupState
<1>2. AirOf(b, air0) /\ SameGroup(u, u) /\ b \in Program
  BY DEF AirOf, Followed, Placed, SameGroup
<1>3. GroupState(u, b, c[n].entire, SlidesOf(slide, c[n].arrived), h)
  BY <1>1, <1>2, StateKept
<1>4. GroupState(u, b, b.entire, b.slide, h)
  BY <1>3, Zenon DEF Followed
<1>5. LabelOK(b, Label)
  BY DEF Followed, Placed, LabelOK
<1>6. SizeOK(u.pad, b, b.entire)
  <2>1. b.entire = c[n].entire /\ b.size = air.size /\ b.group = air.group
    BY Zenon DEF Followed, Placed
  <2> QED BY <2>1, Zenon DEF SizeOK
<1> QED BY <1>4, <1>5, <1>6 DEF PadGood

LEMMA NotedState ==
  ASSUME NEW w, NEW a, NEW b, NEW s, NEW h, PadState(w, a, b, s, h), NEW n \in Nat
  PROVE  LET v == IF w.pad.mscGroupElement THEN [w EXCEPT !.pad.xpadLength = n] ELSE w IN
         PadState(v, a, b, s, h) /\ (w.pad.mscGroupElement => v.pad.xpadLength = n)
<1>1. CASE w.pad.mscGroupElement
  <2> DEFINE v == [w EXCEPT !.pad.xpadLength = n]
  <2>1. w \in PadWork /\ GroupState(w, a, b.entire, SlidesOf(s, b.arrived), h) /\ b \in Program
    BY DEF PadState, GroupState
  <2>2. /\ v \in PadWork /\ v.pad.xpadLength = n
        /\ v.pad.currentSlide = w.pad.currentSlide /\ v.pad.mscGroupElement = w.pad.mscGroupElement
        /\ v.pad.dataGroupLength = w.pad.dataGroupLength
        /\ v.pad.msc_dataGroupBuffer = w.pad.msc_dataGroupBuffer
    <3>1. n \in Int
      OBVIOUS
    <3> QED BY <2>1, <3>1, SizeSet
  <2> HIDE DEF v
  <2>3. GroupState(v, a, b.entire, SlidesOf(s, b.arrived), h)
    BY <2>1, <2>2 DEF GroupState, GroupsOK, ElementOK, BufferOK, EntireOK
  <2>4. PadState(v, a, b, s, h) /\ v.pad.xpadLength = n
    BY <2>1, <2>2, <2>3 DEF PadState
  <2> QED BY <1>1, <2>4 DEF v
<1>2. CASE ~w.pad.mscGroupElement
  BY <1>2
<1> QED BY <1>1, <1>2
-----------------------------------------------------------------------------
(* The size of a PAD without CI.                                           *)

\* When no group begins in a PAD, one of which all came by its end was so before.
LEMMA EntireBack ==
  ASSUME NEW b \in Program, NEW n \in Nat \ {0}, NEW fields, NEW got \in Int, NEW c,
         Comes(c, n, b, fields, got),
         \A i \in 1 .. n : IsField(fields[i]) /\ fields[i].ci # 12,
         fields[n].ci = 13, c[n].entire
  PROVE  b.entire /\ n <= got
<1> DEFINE S == {i \in Nat : i <= n => (c[i].entire => b.entire)}
<1>1. \A i \in 0 .. n : c[i] \in Program
  BY CamesPlaced
<1>2. ASSUME NEW i \in 1 .. n, fields[i].ci = 13
      PROVE  c[i].entire => c[i - 1].entire /\ i <= got
  <2> DEFINE came == i <= got
  <2>1. c[i] = Came(c[i - 1], fields[i], came)
    BY DEF Comes
  <2>2. c[i - 1] \in Program
    <3>1. i - 1 \in 0 .. n
      OBVIOUS
    <3> QED BY <1>1, <3>1
  <2>3. fields[i].unit \in GroupUnit /\ fields[i].ci \in {12, 13} /\ fields[i].ci # 12
    BY <1>2 DEF IsField
  <2>4. came \in BOOLEAN
    OBVIOUS
  <2> HIDE DEF came
  <2>5. CameEntire(c[i - 1], fields[i], came) \/ NotAll(Came(c[i - 1], fields[i], came), c[i - 1])
    BY <2>2, <2>3, <2>4, UnitNotAll
  <2>6. CASE CameEntire(c[i - 1], fields[i], came)
    BY <2>3, <2>6, Zenon DEF CameEntire, came
  <2>7. CASE NotAll(Came(c[i - 1], fields[i], came), c[i - 1])
    <3>1. c[i].entire = FALSE
      BY <2>1, <2>7, Zenon DEF NotAll
    <3> QED BY <3>1, Zenon
  <2> QED BY <2>5, <2>6, <2>7
<1>3. ASSUME NEW i \in 1 .. n PROVE c[i].entire => c[i - 1].entire
  <2>1. CASE fields[i].ci = 13
    BY <1>2, <2>1
  <2>2. CASE fields[i].ci # 13
    <3>1. c[i] = Came(c[i - 1], fields[i], i <= got)
      BY DEF Comes
    <3>2. c[i - 1] \in Program
      <4>1. i - 1 \in 0 .. n
        OBVIOUS
      <4> QED BY <1>1, <4>1
    <3>3. fields[i].ci \notin {12, 13} /\ IsField(fields[i]) /\ i \in Int
      BY <2>2
    <3>4. c[i].entire = c[i - 1].entire
      BY <3>1, <3>2, <3>3, OtherPassed
    <3> QED BY <3>4, Zenon
  <2> QED BY <2>1, <2>2
<1>4. 0 \in S
  BY DEF Comes
<1>5. ASSUME NEW i \in Nat, i \in S PROVE i + 1 \in S
  <2>1. CASE i + 1 <= n
    <3>1. i + 1 \in 1 .. n /\ (i + 1) - 1 = i /\ i <= n
      BY <2>1
    <3>2. c[i + 1].entire => c[i].entire
      BY <1>3, <3>1
    <3>3. c[i].entire => b.entire
      BY <1>5, <3>1
    <3>4. c[i + 1].entire => b.entire
      BY <3>2, <3>3, Zenon
    <3> HIDE DEF S
    <3>5. i + 1 \in Nat
      OBVIOUS
    <3> QED BY <3>4, <3>5, Zenon DEF S
  <2> QED BY <2>1
<1> HIDE DEF S
<1>6. \A i \in Nat : i \in S
  BY <1>4, <1>5, AllNumbers
<1>7. c[n].entire => b.entire
  <2>1. n \in S /\ n <= n
    BY <1>6
  <2> QED BY <2>1, Zenon DEF S
<1>8. n \in 1 .. n
  OBVIOUS
<1> QED BY <1>2, <1>7, <1>8

\* A group that goes on behind a move that begins none was there before.
LEMMA NotBegun ==
  ASSUME NEW a \in Program, LabelOK(a, Label), NEW m \in Moves(a), m.air.group # None,
         \A i \in 1 .. Len(m.fields) : m.fields[i].ci # 12
  PROVE  a.group # None
<1>1. CASE IsLabelMove(m, a)
  BY <1>1 DEF IsLabelMove, AirOf
<1>2. CASE IsBeginMove(m, a)
  <2>1. PICK g \in PadGroup :
           m.fields = <<[ci |-> 1, length |-> GroupUnits[g]], UnitField(g, 1, a.index)>>
    BY <1>2 DEF IsBeginMove
  <2>2. Len(m.fields) = 2 /\ m.fields[2] = UnitField(g, 1, a.index)
    BY <2>1
  <2>3. UnitField(g, 1, a.index).ci = 12
    BY UnitFields
  <2>4. 2 \in 1 .. Len(m.fields)
    BY <2>2
  <2> QED BY <2>2, <2>3, <2>4
<1>3. CASE IsGoMove(m, a)
  BY <1>3 DEF IsGoMove
<1>4. CASE IsOtherMove(m, a)
  BY <1>4 DEF IsOtherMove
<1> QED BY <1>1, <1>2, <1>3, <1>4, MoveKinds
-----------------------------------------------------------------------------
(* Variable X-PAD.                                                         *)

LEMMA HandledSome ==
  ASSUME NEW V, NEW fields \in Seq(V)
  PROVE  Len(HandledOf(fields)) \in 0 .. Len(fields)
<1> DEFINE S == {i \in 1 .. Len(fields) : fields[i].ci = 0}
<1>1. Len(fields) \in Nat /\ DOMAIN fields = 1 .. Len(fields)
  OBVIOUS
<1>2. CASE S = {}
  <2>1. \A i \in DOMAIN fields : fields[i].ci # 0
    BY <1>1, <1>2
  <2>2. HandledOf(fields) = fields
    BY <2>1, AllHandled
  <2> QED BY <1>1, <2>2
<1>3. CASE S # {}
  <2>1. S \subseteq Nat
    OBVIOUS
  <2>2. PICK j \in S : \A i \in S : j <= i
    <3> HIDE DEF S
    <3> QED BY <1>3, <2>1, LeastNumber
  <2>3. j \in 1 .. Len(fields) /\ fields[j].ci = 0
    OBVIOUS
  <2>4. \A i \in 1 .. j - 1 : fields[i].ci # 0
    <3>1. ASSUME NEW i \in 1 .. j - 1, fields[i].ci = 0 PROVE FALSE
      <4>1. i \in 1 .. Len(fields) /\ ~(j <= i)
        BY <2>3
      <4>2. i \in S
        BY <3>1, <4>1
      <4> QED BY <2>2, <4>1, <4>2
    <3> QED BY <3>1
  <2>5. HandledOf(fields) = SubSeq(fields, 1, j - 1)
    BY <2>3, <2>4, SomeHandled
  <2>6. Len(SubSeq(fields, 1, j - 1)) = j - 1
    BY <2>3
  <2> QED BY <2>3, <2>5, <2>6
<1> QED BY <1>2, <1>3

LEMMA SizedAir ==
  ASSUME NEW m, m.air \in Program, Len(m.fields) \in 1 .. 4
  PROVE  LET b == Sized(m).air IN
         /\ b \in Program /\ AirOf(b, m.air) /\ (LabelOK(m.air, Label) => LabelOK(b, Label))
         /\ b.size = IF GoesOn(m) THEN Len(m.fields) ELSE 0
<1> DEFINE a == m.air
           n == IF GoesOn(m) THEN Len(m.fields) ELSE 0
           b == [a EXCEPT !.size = n]
<1>1. Sized(m).air = b
  BY DEF Sized, Move
<1>2. n \in 0 .. 4
  OBVIOUS
<1>3. a \in Program
  OBVIOUS
<1> HIDE DEF n, a
<1>4. b \in Program /\ AirOf(b, a) /\ b.size = n
      /\ b.label = a.label /\ b.segment = a.segment /\ b.n = a.n
  BY <1>2, <1>3 DEF Program, AirOf
<1> HIDE DEF b
<1>5. LabelOK(a, Label) => LabelOK(b, Label)
  BY <1>4 DEF LabelOK
<1>6. Sized(m).air \in Program /\ AirOf(Sized(m).air, a) /\ Sized(m).air.size = n
      /\ (LabelOK(a, Label) => LabelOK(Sized(m).air, Label))
  BY <1>1, <1>4, <1>5, Zenon
<1> QED BY <1>6, Zenon DEF n, a

\* A PAD of one move or two.
ComposedOK(x, a) ==
  /\ x.air \in Program /\ LabelOK(x.air, Label) /\ OnAir(x.air)
  /\ Len(x.fields) \in 1 .. 4 /\ DOMAIN x.fields = 1 .. Len(x.fields)
  /\ \A i \in 1 .. Len(x.fields) : IsField(x.fields[i])
  /\ \E V : x.fields \in Seq(V)
  /\ GoesOn(x) => a.group # None

ComposedFrom(m, w, a, b, s, h) ==
  \E x : m = Sized(x) /\ ComposedOK(x, a) /\ CameWithCI(w, b, x.fields, x.air, s, h)

LEMMA ComposedCame ==
  ASSUME NEW w, NEW a, LabelOK(a, Label), NEW b, NEW s \in Slides \union {None},
         NEW h \in 0 .. Around, PadState(w, a, b, s, h), NEW m \in Composed(a)
  PROVE  ComposedFrom(m, w, a, b, s, h)
<1>1. PICK x \in Moves(a) :
           \/ m = Sized(x)
           \/ \E y \in Moves(x.air) : m = Sized(Move(x.fields \o y.fields, y.air))
  BY ComposedOf
<1>2. a \in Program /\ OnAir(a)
  BY PadOnAir
<1>3. x.air \in Program /\ LabelOK(x.air, Label) /\ OnAir(x.air)
  BY <1>2, MoveAir
<1>4. MoveFieldsOK(x)
  BY <1>2, MoveFields
<1>5. CASE m = Sized(x)
  <2>1. CameWithCI(w, b, x.fields, x.air, s, h)
    BY OneMoveCame
  <2>2. GoesOn(x) => a.group # None
    <3>1. SUFFICES ASSUME GoesOn(x) PROVE a.group # None
      OBVIOUS
    <3>2. x.air.group # None /\ \A i \in 1 .. Len(x.fields) : x.fields[i].ci # 12
      BY <1>4, <3>1 DEF GoesOn, MoveFieldsOK
    <3> QED BY <1>2, <3>2, NotBegun
  <2>3. \E V : x.fields \in Seq(V)
    <3>1. \A i \in 1 .. Len(x.fields) : x.fields[i] \in {x.fields[j] : j \in 1 .. Len(x.fields)}
      OBVIOUS
    <3>2. x.fields \in Seq({x.fields[j] : j \in 1 .. Len(x.fields)})
      BY <1>4, <3>1 DEF MoveFieldsOK
    <3> QED BY <3>2
  <2>4. ComposedOK(x, a)
    BY <1>3, <1>4, <2>2, <2>3 DEF ComposedOK, MoveFieldsOK
  <2> QED BY <1>5, <2>1, <2>4, Zenon DEF ComposedFrom
<1>6. ASSUME NEW y \in Moves(x.air), m = Sized(Move(x.fields \o y.fields, y.air))
      PROVE  ComposedFrom(m, w, a, b, s, h)
  <2> DEFINE fields == x.fields \o y.fields
             z == Move(fields, y.air)
             n == Len(x.fields)
             k == Len(y.fields)
  <2>1. y.air \in Program /\ LabelOK(y.air, Label) /\ OnAir(y.air)
    BY <1>3, MoveAir
  <2>2. MoveFieldsOK(y)
    BY <1>3, MoveFields
  <2>3. CameWithCI(w, b, fields, y.air, s, h)
    BY TwoMovesCame
  <2>4. z.fields = fields /\ z.air = y.air
    BY DEF Move
  <2>5. FieldsJoined(fields, x, y)
    BY <1>4, <2>2, JoinedFields
  <2>a. n \in 1 .. 2 /\ k \in 1 .. 2
    BY <2>5 DEF FieldsJoined
  <2> HIDE DEF fields, z, n, k
  <2>6. GoesOn(z) => a.group # None
    <3>1. SUFFICES ASSUME GoesOn(z) PROVE a.group # None
      OBVIOUS
    <3>2. y.air.group # None /\ \A i \in DOMAIN fields : fields[i].ci # 12
      BY <2>4, <3>1, Zenon DEF GoesOn
    <3>3. \A i \in 1 .. n : x.fields[i].ci # 12
      <4>1. ASSUME NEW i \in 1 .. n PROVE x.fields[i].ci # 12
        <5>1. n \in 1 .. 2 /\ k \in 1 .. 2 /\ DOMAIN fields = 1 .. n + k /\ fields[i] = x.fields[i]
          BY <2>5 DEF FieldsJoined, n, k
        <5>2. i \in 1 .. n + k
          BY <2>a
        <5> QED BY <3>2, <5>1, <5>2
      <4> QED BY <4>1
    <3>4. \A j \in 1 .. k : y.fields[j].ci # 12
      <4>1. ASSUME NEW j \in 1 .. k PROVE y.fields[j].ci # 12
        <5>1. n \in 1 .. 2 /\ k \in 1 .. 2 /\ DOMAIN fields = 1 .. n + k
              /\ fields[n + j] = y.fields[j]
          BY <2>5 DEF FieldsJoined, n, k
        <5>2. n + j \in 1 .. n + k
          BY <2>a
        <5> QED BY <3>2, <5>1, <5>2
      <4> QED BY <4>1
    <3>5. x.air.group # None
      BY <1>3, <3>2, <3>4, NotBegun DEF k
    <3> QED BY <1>2, <3>3, <3>5, NotBegun DEF n
  <2>b. /\ Len(fields) = n + k /\ DOMAIN fields = 1 .. n + k
        /\ \A i \in 1 .. n + k : IsField(fields[i])
        /\ \E V : fields \in Seq(V)
    BY <2>5, Zenon DEF FieldsJoined, n, k
  <2>7. /\ Len(fields) \in 1 .. 4 /\ DOMAIN fields = 1 .. Len(fields)
        /\ \A i \in 1 .. Len(fields) : IsField(fields[i])
        /\ \E V : fields \in Seq(V)
    <3>1. n + k \in 1 .. 4
      BY <2>a
    <3> QED BY <2>b, <3>1, Zenon
  <2>8. ComposedOK(z, a)
    BY <2>1, <2>4, <2>6, <2>7 DEF ComposedOK
  <2>9. m = Sized(z)
    BY <1>6 DEF z, fields
  <2> QED BY <2>3, <2>4, <2>8, <2>9, Zenon DEF ComposedFrom
<1> QED BY <1>1, <1>5, <1>6
\* The subfields of a PAD and where the broadcaster is after it.
SentOK(sent, m) == sent.fields = m.fields /\ sent.air = m.air

LEMMA SizedIs ==
  ASSUME NEW m, NEW x, m = Sized(x)
  PROVE  m.fields = x.fields
BY DEF Sized, Move

\* All of a variable X-PAD is lost.
LEMMA VariableLost ==
  ASSUME NEW w, NEW a, NEW h \in 0 .. Around - 2, PadGood(w, a, h), NEW m \in Composed(a),
         NEW sent, SentOK(sent, m)
  PROVE  PadGood(w, Follow(a, sent, 0), h + 2)
<1>0. h \in 0 .. Around /\ h <= Around - 2
  BY AroundOK
<1>1. GroupState(w, a, a.entire, a.slide, h) /\ LabelOK(a, Label)
  BY DEF PadGood
<1>2. a \in Program /\ a.slide \in Slides \union {None}
  BY <1>1 DEF GroupState
<1> DEFINE b == Start(a, sent.air)
<1>3. PadState(w, a, Start(a, a), a.slide, h)
  BY <1>1, <1>2, StartState
<1>4. PICK y : m = Sized(y) /\ ComposedOK(y, a)
  <2>1. ComposedFrom(m, w, a, Start(a, a), a.slide, h)
    BY <1>0, <1>1, <1>2, <1>3, ComposedCame
  <2> QED BY <2>1, Zenon DEF ComposedFrom
<1>5. m.air \in Program
  <2>1. y.air \in Program /\ Len(y.fields) \in 1 .. 4
    BY <1>4 DEF ComposedOK
  <2> QED BY <1>4, <2>1, SizedAir
<1>6. PadState(w, a, b, a.slide, h) /\ b \in Program
  <2>1. sent.air \in Program
    BY <1>5 DEF SentOK
  <2> QED BY <1>1, <2>1, StartState
<1> HIDE DEF b
<1>7. PICK x : m = Sized(x) /\ ComposedOK(x, a) /\ CameWithCI(w, b, x.fields, x.air, a.slide, h)
  <2>1. ComposedFrom(m, w, a, b, a.slide, h)
    BY <1>0, <1>1, <1>2, <1>6, ComposedCame
  <2> QED BY <2>1, Zenon DEF ComposedFrom
<1> DEFINE n == Len(x.fields)
<1>8. /\ x.air \in Program /\ LabelOK(x.air, Label) /\ n \in 1 .. 4 /\ DOMAIN x.fields = 1 .. n
      /\ \A i \in 1 .. n : IsField(x.fields[i])
  BY <1>7 DEF ComposedOK
<1>9. sent.fields = x.fields /\ sent.air = m.air
  BY <1>7, SizedIs DEF SentOK
<1>10. /\ m.air \in Program /\ AirOf(m.air, x.air) /\ LabelOK(m.air, Label)
       /\ m.air.size = IF GoesOn(x) THEN n ELSE 0
  BY <1>7, <1>8, SizedAir
<1> HIDE DEF n
<1>11. n \in Nat /\ n \in 1 .. n /\ n \in Nat \ {0}
  BY <1>8
<1>12. PICK c : /\ Comes(c, n, b, sent.fields, 0)
                /\ Followed(Follow(a, sent, 0), c, n, sent.air, a.slide)
  <2>1. Len(sent.fields) = n /\ DOMAIN sent.fields = 1 .. n
        /\ \A i \in 1 .. n : IsField(sent.fields[i])
    BY <1>8, <1>9 DEF n
  <2> QED BY <1>2, <1>5, <1>9, <1>11, <2>1, FollowMade DEF b
<1>13. PadState(w, x.air, c[n], a.slide, h + 2)
  BY <1>0, <1>7, <1>9, <1>12, Zenon DEF CameWithCI, n
<1>14. SizeOK(w.pad, m.air, c[n].entire)
  <2>1. CASE ~GoesOn(x)
    <3>1. m.air.size = 0
      BY <1>10, <2>1
    <3> QED BY <3>1 DEF SizeOK
  <2>2. CASE GoesOn(x)
    <3>1. m.air.size = n /\ m.air.group # None
      BY <1>10, <2>2 DEF GoesOn, AirOf
    <3>2. c[n].entire => FALSE
      <4>1. SUFFICES ASSUME c[n].entire PROVE FALSE
        OBVIOUS
      <4>2. Comes(c, n, b, x.fields, 0)
        BY <1>9, <1>12
      <4>3. x.fields[n].ci = 13 /\ \A i \in 1 .. n : x.fields[i].ci # 12
        BY <1>8, <2>2 DEF GoesOn, Last, n
      <4>4. n <= 0
        BY <1>6, <1>8, <1>11, <4>1, <4>2, <4>3, EntireBack
      <4> QED BY <1>8, <4>4
    <3> QED BY <1>8, <3>1, <3>2 DEF SizeOK
  <2> QED BY <2>1, <2>2
<1> QED BY <1>9, <1>10, <1>12, <1>13, <1>14, FollowGood

\* The subfields up to an application that is not handled are handled.
LEMMA VariableHandled ==
  ASSUME NEW w, NEW a, NEW h \in 0 .. Around, PadGood(w, a, h), NEW m \in Composed(a),
         NEW sent, SentOK(sent, m), Len(HandledOf(m.fields)) = Len(m.fields) \/ h <= Around - 2
  PROVE  LET q == Len(HandledOf(m.fields)) IN
         PadGood(WithCI(w, m.fields), Follow(a, sent, q), IF q = Len(m.fields) THEN h ELSE h + 2)
<1>1. GroupState(w, a, a.entire, a.slide, h) /\ LabelOK(a, Label)
  BY DEF PadGood
<1>2. a \in Program /\ a.slide \in Slides \union {None}
  BY <1>1 DEF GroupState
<1> DEFINE b == Start(a, sent.air)
           v == IF w.pad.mscGroupElement THEN [w EXCEPT !.pad.xpadLength = Len(m.fields)] ELSE w
           u == FoldLeft(Subfield, v, HandledOf(m.fields))
           q == Len(HandledOf(m.fields))
<1>3. PadState(w, a, Start(a, a), a.slide, h)
  BY <1>1, <1>2, StartState
<1>4. PICK y : m = Sized(y) /\ ComposedOK(y, a)
  <2>1. ComposedFrom(m, w, a, Start(a, a), a.slide, h)
    BY <1>1, <1>2, <1>3, ComposedCame
  <2> QED BY <2>1, Zenon DEF ComposedFrom
<1>5. m.air \in Program /\ Len(m.fields) \in Nat
  <2>1. y.air \in Program /\ Len(y.fields) \in 1 .. 4
    BY <1>4 DEF ComposedOK
  <2>2. m.air \in Program
    BY <1>4, <2>1, SizedAir
  <2>3. m.fields = y.fields
    BY <1>4, SizedIs
  <2> QED BY <2>1, <2>2, <2>3
<1>6. PadState(w, a, b, a.slide, h) /\ b \in Program
  <2>1. sent.air \in Program
    BY <1>5 DEF SentOK
  <2> QED BY <1>1, <2>1, StartState
<1>a. b.entire = a.entire
  <2>1. sent.air \in Program
    BY <1>5 DEF SentOK
  <2> QED BY <1>2, <2>1, StartOK DEF ArrivedNow
<1>b. WithCI(w, m.fields) = u
  BY DEF WithCI
<1> HIDE DEF b
<1>c. PadState(v, a, b, a.slide, h) /\ (w.pad.mscGroupElement => v.pad.xpadLength = Len(m.fields))
  BY <1>5, <1>6, NotedState
<1> HIDE DEF v
<1>7. PICK x : m = Sized(x) /\ ComposedOK(x, a) /\ CameWithCI(v, b, x.fields, x.air, a.slide, h)
  <2>1. ComposedFrom(m, v, a, b, a.slide, h)
    BY <1>1, <1>2, <1>c, ComposedCame
  <2> QED BY <2>1, Zenon DEF ComposedFrom
<1> DEFINE n == Len(x.fields)
<1>8. /\ x.air \in Program /\ LabelOK(x.air, Label) /\ n \in 1 .. 4 /\ DOMAIN x.fields = 1 .. n
      /\ \A i \in 1 .. n : IsField(x.fields[i])
  BY <1>7 DEF ComposedOK
<1>9. m.fields = x.fields /\ sent.fields = x.fields /\ sent.air = m.air
  BY <1>7, SizedIs DEF SentOK
<1>10. /\ m.air \in Program /\ AirOf(m.air, x.air) /\ LabelOK(m.air, Label)
       /\ m.air.size = IF GoesOn(x) THEN n ELSE 0
  BY <1>7, <1>8, SizedAir
<1>d. q \in Int
  <2>1. PICK V : x.fields \in Seq(V)
    BY <1>7 DEF ComposedOK
  <2>2. Len(HandledOf(x.fields)) \in 0 .. Len(x.fields)
    BY <2>1, HandledSome
  <2> QED BY <1>8, <1>9, <2>2
<1> DEFINE k == IF q = n THEN h ELSE h + 2
<1>e. k = IF q = Len(m.fields) THEN h ELSE h + 2
  BY <1>9
<1>f. q = n \/ h <= Around - 2
  BY <1>9
<1> HIDE DEF n, q, u, k
<1>11. n \in Nat /\ n \in 1 .. n /\ n \in Nat \ {0}
  BY <1>8
<1>12. PICK c : /\ Comes(c, n, b, sent.fields, q)
                /\ Followed(Follow(a, sent, q), c, n, sent.air, a.slide)
  <2>1. Len(sent.fields) = n /\ DOMAIN sent.fields = 1 .. n
        /\ \A i \in 1 .. n : IsField(sent.fields[i])
    BY <1>8, <1>9 DEF n
  <2> QED BY <1>2, <1>5, <1>9, <1>11, <1>d, <2>1, FollowMade DEF b
<1>13. PadAfter(u, v, x.air, c[n], a.slide, k)
  BY <1>7, <1>9, <1>12, <1>f, Zenon DEF CameWithCI, n, q, u, k
<1>14. SizeOK(u.pad, m.air, c[n].entire)
  <2>1. CASE ~GoesOn(x)
    <3>1. m.air.size = 0
      BY <1>10, <2>1
    <3> QED BY <3>1 DEF SizeOK
  <2>2. CASE GoesOn(x)
    <3>1. m.air.size = n /\ m.air.group # None
      BY <1>10, <2>2 DEF GoesOn, AirOf
    <3>2. c[n].entire => u.pad.xpadLength = n
      <4>1. SUFFICES ASSUME c[n].entire PROVE u.pad.xpadLength = n
        OBVIOUS
      <4>2. Comes(c, n, b, x.fields, q)
        BY <1>9, <1>12
      <4>3. x.fields[n].ci = 13 /\ \A i \in 1 .. n : x.fields[i].ci # 12
        BY <1>8, <2>2 DEF GoesOn, Last, n
      <4>4. b.entire
        BY <1>6, <1>8, <1>11, <1>d, <4>1, <4>2, <4>3, EntireBack
      <4>5. a.group # None
        BY <1>7, <2>2 DEF ComposedOK
      <4>6. w.pad.mscGroupElement
        <5>1. EntireOK(w.pad, a, a.entire)
          BY <1>1 DEF GroupState, GroupsOK
        <5>2. a.entire
          BY <1>a, <4>4
        <5> QED BY <4>5, <5>1, <5>2 DEF EntireOK
      <4>7. v.pad.xpadLength = Len(m.fields) /\ Len(m.fields) = n
        BY <1>9, <1>c, <4>6 DEF n
      <4>8. u.pad.xpadLength = v.pad.xpadLength
        BY <1>13, Zenon DEF PadAfter
      <4> QED BY <4>7, <4>8
    <3> QED BY <1>8, <3>1, <3>2 DEF SizeOK
  <2> QED BY <2>1, <2>2
<1>15. PadState(u, x.air, c[n], a.slide, k)
  BY <1>13, Zenon DEF PadAfter
<1>16. PadGood(u, Follow(a, sent, q), k)
  BY <1>9, <1>10, <1>12, <1>14, <1>15, FollowGood
<1> QED BY <1>16, <1>b, <1>e, Zenon DEF q
-----------------------------------------------------------------------------
(* A PAD without CI.                                                       *)

\* Its subfields, and where the broadcaster is after it.
PlainFields(fields, a) ==
  /\ Len(fields) = a.size /\ DOMAIN fields = 1 .. a.size
  /\ \A i \in 1 .. a.size : /\ fields[i].ci = 13
                            /\ fields[i].unit = Unit(a.group, a.unit + i - 1, a.index)

PlainAir(a) ==
  LET b == MovedUnit(a, a.group, (a.unit + a.size) - 1) IN
  IF b.group = None THEN [b EXCEPT !.size = 0] ELSE b

PlainOK(sent, a) ==
  /\ sent.pad.kind = "plain" /\ sent.pad.units = UnitsFrom(a, a.size)
  /\ PlainFields(sent.fields, a)
  /\ sent.air = PlainAir(a)

LEMMA PlainSent ==
  ASSUME NEW a, a.unit \in Nat, a.size \in 0 .. 4, NEW sent \in Plain(a)
  PROVE  a.size # 0 /\ PlainOK(sent, a)
<1> DEFINE b == MovedUnit(a, a.group, (a.unit + a.size) - 1)
           units == [i \in 1 .. a.size |-> Unit(a.group, a.unit + i - 1, a.index)]
           fields == [i \in 1 .. a.size |-> [ci |-> 13, unit |-> units[i]]]
           air == IF b.group = None THEN [b EXCEPT !.size = 0] ELSE b
<1>1. a.size # 0
  BY DEF Plain
<1>2. sent = [pad |-> [kind |-> "plain", units |-> units], fields |-> fields, air |-> air]
  BY <1>1, Zenon DEF Plain
<1>3. units = UnitsFrom(a, a.size)
  BY DEF UnitsFrom
<1>a. air = PlainAir(a)
  BY DEF PlainAir
<1>4. PlainFields(fields, a)
  <2>1. Len(fields) = a.size /\ DOMAIN fields = 1 .. a.size
    OBVIOUS
  <2>2. ASSUME NEW i \in 1 .. a.size
        PROVE  fields[i].ci = 13 /\ fields[i].unit = Unit(a.group, a.unit + i - 1, a.index)
    OBVIOUS
  <2> QED BY <2>1, <2>2 DEF PlainFields
<1> HIDE DEF units, fields, air
<1>5. sent.pad.kind = "plain" /\ sent.pad.units = units /\ sent.fields = fields /\ sent.air = air
  BY <1>2
<1> QED BY <1>1, <1>3, <1>4, <1>5, <1>a, Zenon DEF PlainOK

LEMMA PlainUnits ==
  ASSUME NEW a \in Program, OnAir(a), a.group # None, NEW fields, PlainFields(fields, a)
  PROVE  \A i \in 1 .. a.size :
           IsField(fields[i]) /\ fields[i].unit \in GroupUnit /\ fields[i].ci = 13
<1>1. ASSUME NEW i \in 1 .. a.size PROVE fields[i].unit \in GroupUnit /\ fields[i].ci = 13
  <2>1. /\ a.group \in PadGroup /\ a.unit \in Nat /\ a.unit >= 2 /\ a.index \in 0 .. Around - 1
        /\ a.size \in Nat
    BY DEF OnAir, Program, Around
  <2>2. a.unit + i - 1 \in Nat
    BY <2>1
  <2>3. Unit(a.group, a.unit + i - 1, a.index) \in GroupUnit
    BY <2>1, <2>2, UnitOK
  <2> QED BY <2>3 DEF PlainFields
<1> QED BY <1>1 DEF IsField

CameWhole(d, s, t) == d \in Program /\ d.entire = TRUE /\ SlidesOf(s, d.arrived) = t

\* All of it came, of a group of which all came so far.
LEMMA PlainEntire ==
  ASSUME NEW a \in Program, OnAir(a), a.group # None, a.size # 0,
         NEW fields, PlainFields(fields, a),
         NEW b \in Program, b.entire, NEW s \in Slides \union {None}, SlidesOf(s, b.arrived) = s,
         NEW c, Comes(c, a.size, b, fields, a.size)
  PROVE  CameWhole(c[a.size], s, SlideAfter(s, a.group, a.unit + a.size - 1))
<1> DEFINE g == a.group
           z == a.size
           Good(j) == /\ c[j] \in Program /\ c[j].entire = TRUE
                      /\ SlidesOf(s, c[j].arrived) = SlideAfter(s, g, a.unit + j - 1)
           S == {j \in Nat : j <= z => Good(j)}
<1>1. /\ g \in PadGroup /\ a.unit \in Nat /\ a.unit >= 2 /\ a.unit <= GroupUnits[g]
      /\ GroupUnits[g] \in Nat /\ z \in Nat
  <2>1. g \in PadGroup /\ a.unit \in 2 .. GroupUnits[g] /\ z \in 0 .. 4
    BY DEF OnAir, Program
  <2>2. GroupUnits[g] \in Nat \ {0}
    BY <2>1, PadGroupFields
  <2> QED BY <2>1, <2>2
<1>2. Good(0)
  <2>1. c[0] = b
    BY DEF Comes
  <2>2. SlideAfter(s, g, a.unit + 0 - 1) = s
    BY <1>1 DEF SlideAfter
  <2>3. b.entire = TRUE
    BY ProgramFields
  <2> QED BY <2>1, <2>2, <2>3
<1>3. ASSUME NEW j \in Nat, j + 1 <= z, Good(j) PROVE Good(j + 1)
  <2> DEFINE f == fields[j + 1]
             came == j + 1 <= z
             n == a.unit + j
  <2>1. j + 1 \in 1 .. z /\ n \in Nat /\ a.unit + (j + 1) - 1 = n /\ a.unit + j - 1 = n - 1
    BY <1>1, <1>3
  <2>2. c[j + 1] = Came(c[j], f, came)
    <3>1. (j + 1) - 1 = j
      OBVIOUS
    <3> QED BY <2>1, <3>1 DEF Comes
  <2>3. f.ci = 13 /\ f.unit \in GroupUnit /\ f.unit = Unit(g, n, a.index)
    BY <2>1, PlainUnits DEF PlainFields
  <2>4. came \in BOOLEAN /\ came
    BY <1>3
  <2>5. f.unit.group = g /\ f.unit.n = n
    BY <2>3, UnitMembers
  <2>6. c[j] \in Program /\ c[j].entire
    BY <1>3
  <2>7. SlidesOf(s, c[j].arrived) = SlideAfter(s, g, n - 1)
    BY <1>3, <2>1
  <2> HIDE DEF came, f, n
  <2>8. /\ Came(c[j], f, came) \in Program /\ Came(c[j], f, came).entire = TRUE
        /\ SlidesOf(s, Came(c[j], f, came).arrived)
             = SlideAt(SlidesOf(s, c[j].arrived), f.unit.group, f.unit.n)
    <3>1. came \in BOOLEAN
      BY <2>4
    <3>2. came => /\ Came(c[j], f, came) \in Program /\ Came(c[j], f, came).entire = TRUE
                  /\ SlidesOf(s, Came(c[j], f, came).arrived)
                       = SlideAt(SlidesOf(s, c[j].arrived), f.unit.group, f.unit.n)
      BY <2>3, <2>6, <3>1, NextTaken
    <3> QED BY <2>4, <3>2, Zenon
  <2>9. SlideAt(SlideAfter(s, g, n - 1), g, n) = SlideAfter(s, g, n)
    BY <1>1, <2>1 DEF SlideAt, SlideAfter
  <2>10. SlidesOf(s, Came(c[j], f, came).arrived) = SlideAfter(s, g, n)
    BY <2>5, <2>7, <2>8, <2>9
  <2>11. SlideAfter(s, g, a.unit + (j + 1) - 1) = SlideAfter(s, g, n)
    BY <2>1
  <2> QED BY <2>2, <2>8, <2>10, <2>11, Zenon
<1> HIDE DEF Good, g
<1>4. 0 \in S
  BY <1>2
<1>5. ASSUME NEW j \in Nat, j \in S PROVE j + 1 \in S
  <2>1. CASE j + 1 <= z
    <3>1. j <= z
      BY <1>1, <2>1
    <3>2. Good(j + 1)
      BY <1>3, <1>5, <2>1, <3>1
    <3> QED BY <3>2
  <2>2. CASE ~(j + 1 <= z)
    BY <2>2
  <2> QED BY <2>1, <2>2
<1> HIDE DEF S
<1>6. \A j \in Nat : j \in S
  BY <1>4, <1>5, AllNumbers
<1>7. Good(z)
  <2>1. z \in S /\ z <= z
    BY <1>1, <1>6
  <2> QED BY <2>1, Zenon DEF S
<1> QED BY <1>7, Zenon DEF Good, g, z, CameWhole

\* It was lost, or not all of the group came before.
LEMMA PlainNotAll ==
  ASSUME NEW a \in Program, OnAir(a), a.group # None, a.size # 0,
         NEW fields, PlainFields(fields, a),
         NEW b \in Program, NEW got \in Int, ~b.entire \/ got <= 0,
         NEW c, Comes(c, a.size, b, fields, got)
  PROVE  NotAll(c[a.size], b)
<1> DEFINE z == a.size
           Good(j) == /\ c[j] \in Program /\ c[j].arrived = b.arrived
                      /\ c[j].entire = FALSE \/ (got <= 0 /\ j = 0)
           S == {j \in Nat : j <= z => Good(j)}
<1>1. z \in Nat /\ z # 0
  BY DEF Program
<1>2. Good(0)
  <2>1. c[0] = b
    BY DEF Comes
  <2>2. b.entire \in BOOLEAN
    BY ProgramFields
  <2> QED BY <2>1, <2>2
<1>3. ASSUME NEW j \in Nat, j + 1 <= z, Good(j) PROVE Good(j + 1) /\ c[j + 1].entire = FALSE
  <2> DEFINE f == fields[j + 1]
             came == j + 1 <= got
  <2>1. j + 1 \in 1 .. z /\ (j + 1) - 1 = j
    BY <1>1, <1>3
  <2>2. c[j + 1] = Came(c[j], f, came)
    BY <2>1 DEF Comes
  <2>3. f.ci = 13 /\ f.unit \in GroupUnit /\ f.ci \in {12, 13} /\ f.ci # 12
    BY SMTT(30), <2>1, PlainUnits DEF PlainFields
  <2>4. came \in BOOLEAN
    OBVIOUS
  <2>5. c[j] \in Program /\ c[j].arrived = b.arrived /\ (c[j].entire = FALSE \/ got <= 0)
    BY <1>3
  <2>6. got <= 0 => ~came
    OBVIOUS
  <2> HIDE DEF came, f
  <2>7. ~CameEntire(c[j], f, came)
    <3>1. SUFFICES ASSUME CameEntire(c[j], f, came) PROVE FALSE
      OBVIOUS
    <3>2. came /\ c[j].entire
      BY <2>3, <3>1, Zenon DEF CameEntire
    <3>3. CASE c[j].entire = FALSE
      BY <3>2, <3>3, Zenon
    <3>4. CASE got <= 0
      BY <2>6, <3>2, <3>4
    <3> QED BY <2>5, <3>3, <3>4
  <2>8. NotAll(Came(c[j], f, came), c[j])
    BY <2>3, <2>4, <2>5, <2>7, UnitNotAll
  <2>9. c[j + 1] \in Program /\ c[j + 1].entire = FALSE /\ c[j + 1].arrived = b.arrived
    BY <2>2, <2>5, <2>8, Zenon DEF NotAll
  <2> QED BY <2>9, Zenon
<1> HIDE DEF Good
<1>4. 0 \in S
  BY <1>2
<1>5. ASSUME NEW j \in Nat, j \in S PROVE j + 1 \in S
  <2>1. CASE j + 1 <= z
    <3>1. j <= z
      BY <1>1, <2>1
    <3>2. Good(j + 1)
      BY <1>3, <1>5, <2>1, <3>1
    <3> QED BY <3>2
  <2>2. CASE ~(j + 1 <= z)
    BY <2>2
  <2> QED BY <2>1, <2>2
<1> HIDE DEF S
<1>6. \A j \in Nat : j \in S
  BY <1>4, <1>5, AllNumbers
<1>7. Good(z - 1)
  <2>1. z - 1 \in Nat /\ z - 1 <= z
    BY <1>1
  <2>2. z - 1 \in S
    BY <1>6, <2>1
  <2> QED BY <2>1, <2>2, Zenon DEF S
<1>8. Good(z) /\ c[z].entire = FALSE
  <2>1. z - 1 \in Nat /\ (z - 1) + 1 = z /\ z <= z
    BY <1>1
  <2>2. Good((z - 1) + 1) /\ c[(z - 1) + 1].entire = FALSE
    BY <1>3, <1>7, <2>1
  <2> QED BY <2>1, <2>2
<1> QED BY <1>8, Zenon DEF Good, NotAll
LEMMA AirSizeSet ==
  ASSUME NEW a \in Program, NEW n \in 0 .. 4
  PROVE  LET b == [a EXCEPT !.size = n] IN
         /\ b \in Program /\ AirOf(b, a) /\ b.size = n
         /\ b.label = a.label /\ b.segment = a.segment /\ b.n = a.n
BY DEF Program, AirOf

\* Where the broadcaster is behind a PAD without CI.
PlainEnd(air, a, n) ==
  /\ air \in Program /\ AirOf(air, MovedUnit(a, a.group, n)) /\ LabelOK(air, Label)
  /\ air.size = 0 \/ (air.size = a.size /\ air.group # None)

LEMMA PlainPlaced ==
  ASSUME NEW a \in Program, OnAir(a), LabelOK(a, Label), a.group # None, a.size # 0
  PROVE  PlainEnd(PlainAir(a), a, (a.unit + a.size) - 1)
<1> DEFINE n == (a.unit + a.size) - 1
           b == MovedUnit(a, a.group, n)
           air == IF b.group = None THEN [b EXCEPT !.size = 0] ELSE b
<1>1. a.group \in PadGroup /\ a.index \in 0 .. Around - 1 /\ n \in Nat \ {0}
  BY DEF OnAir, Program, Around
<1>2. air = PlainAir(a)
  BY DEF PlainAir
<1> HIDE DEF n
<1>3. b \in Program /\ b.label = a.label /\ b.segment = a.segment /\ b.n = a.n /\ b.size = a.size
  BY <1>1, MovedOn
<1> HIDE DEF b
<1>4. CASE b.group # None
  <2>1. air = b
    BY <1>4
  <2>2. LabelOK(b, Label) /\ AirOf(b, b)
    BY <1>3 DEF LabelOK, AirOf
  <2>3. PlainEnd(b, a, n)
    BY <1>3, <1>4, <2>2 DEF PlainEnd, b
  <2> QED BY <1>2, <2>1, <2>3, Zenon DEF n
<1>5. CASE b.group = None
  <2> DEFINE d == [b EXCEPT !.size = 0]
  <2>1. air = d
    BY <1>5
  <2>2. d \in Program /\ AirOf(d, b) /\ d.size = 0 /\ LabelOK(d, Label)
    <3>1. d \in Program /\ AirOf(d, b) /\ d.size = 0
          /\ d.label = b.label /\ d.segment = b.segment /\ d.n = b.n
      <4>1. 0 \in 0 .. 4
        OBVIOUS
      <4> QED BY <1>3, <4>1, AirSizeSet
    <3> HIDE DEF d
    <3> QED BY <1>3, <3>1 DEF LabelOK
  <2> HIDE DEF d
  <2>3. PlainEnd(d, a, n)
    BY <2>2 DEF PlainEnd, b
  <2> QED BY <1>2, <2>1, <2>3, Zenon DEF n
<1> QED BY <1>4, <1>5

\* The part of the units that is taken.
LEMMA UnitsFirst ==
  ASSUME NEW a, NEW m \in Nat, NEW n \in Nat, m <= n
  PROVE  SubSeq(UnitsFrom(a, n), 1, m) = UnitsFrom(a, m) /\ Len(UnitsFrom(a, n)) = n
<1>1. Len(UnitsFrom(a, n)) = n /\ Len(UnitsFrom(a, m)) = m
  BY DEF UnitsFrom
<1>2. \A j \in 1 .. m : j \in 1 .. n
  OBVIOUS
<1>3. SubSeq(UnitsFrom(a, n), 1, m) = [j \in 1 .. m |-> UnitsFrom(a, n)[j]]
  BY DEF UnitsFrom
<1>4. \A j \in 1 .. m : UnitsFrom(a, n)[j] = UnitsFrom(a, m)[j]
  BY <1>2 DEF UnitsFrom
<1> QED BY <1>1, <1>3, <1>4 DEF UnitsFrom

\* What a PAD without CI does.
LEMMA WithoutCITaken ==
  ASSUME NEW w, NEW a, NEW e \in BOOLEAN, NEW s, NEW h \in 0 .. Around,
         GroupState(w, a, e, s, h), a.group # None, a.size \in 1 .. 4, SizeOK(w.pad, a, e)
  PROVE  StateAfter(WithoutCI(w, UnitsFrom(a, a.size)), w,
                    MovedUnit(a, a.group, (a.unit + a.size) - 1), e,
                    IF e THEN SlideAfter(s, a.group, (a.unit + a.size) - 1) ELSE s, h)
<1> DEFINE z == a.size
           n == (a.unit + a.size) - 1
           x == w.pad.xpadLength
           units == UnitsFrom(a, z)
           taken == w.pad.mscGroupElement /\ x > 0 /\ Len(units) >= x
           b == MovedUnit(a, a.group, n)
<1>1. /\ z \in Nat \ {0} /\ a.unit \in Nat /\ n \in Nat /\ n >= a.unit /\ x \in Int
      /\ n = a.unit + z - 1 /\ w.pad \in PadMembers
  <2>1. /\ w \in PadWork /\ a \in Program
    BY DEF GroupState
  <2>2. w.pad \in PadMembers /\ x \in Int
    BY <2>1, PadWorkFields, PadMemberFields
  <2>3. a.unit \in Nat
    BY <2>1 DEF Program
  <2> QED BY <2>2, <2>3
<1>2. Len(units) = z
  BY <1>1, UnitsFirst
<1>3. WithoutCI(w, units) = IF taken THEN add_MSC_element(w, SubSeq(units, 1, x)) ELSE w
  BY DEF WithoutCI
<1>4. taken => x \in Nat \ {0} /\ x <= z
  BY <1>1, <1>2
<1>5. taken => SubSeq(units, 1, x) = UnitsFrom(a, x)
  BY <1>1, <1>4, UnitsFirst
<1> HIDE DEF n, x, units, taken, b
<1>6. CASE e = TRUE
  <2>1. taken /\ x = z
    <3>1. w.pad.mscGroupElement
      BY <1>6 DEF GroupState, GroupsOK, EntireOK
    <3>2. x = z
      BY <1>6 DEF SizeOK, x
    <3> QED BY <1>1, <1>2, <3>1, <3>2 DEF taken, x
  <2>2. WithoutCI(w, units) = add_MSC_element(w, UnitsFrom(a, z))
    BY <1>3, <1>5, <2>1
  <2>3. StateAfter(add_MSC_element(w, UnitsFrom(a, z)), w, MovedUnit(a, a.group, a.unit + z - 1), TRUE,
                   SlideAfter(s, a.group, a.unit + z - 1), h)
    <3>1. GroupState(w, a, TRUE, s, h)
      BY <1>6
    <3> QED BY <1>1, <3>1, UnitsEntire
  <2>4. StateAfter(WithoutCI(w, units), w, b, TRUE, SlideAfter(s, a.group, n), h)
    BY <1>1, <2>2, <2>3 DEF b
  <2>5. (IF e THEN SlideAfter(s, a.group, n) ELSE s) = SlideAfter(s, a.group, n)
    BY <1>6
  <2> QED BY <1>6, <2>4, <2>5, Zenon DEF b, n, units
<1>7. CASE e = FALSE
  <2>1. GroupState(w, a, FALSE, s, h)
    BY <1>7
  <2>2. StateAfter(WithoutCI(w, units), w, b, FALSE, s, h)
    <3>1. CASE taken
      <4>1. WithoutCI(w, units) = add_MSC_element(w, UnitsFrom(a, x))
        BY <1>3, <1>5, <3>1
      <4>2. StateAfter(add_MSC_element(w, UnitsFrom(a, x)), w, b, FALSE, s, h)
        BY <1>1, <1>4, <2>1, <3>1, UnitsPartly DEF b
      <4> QED BY <4>1, <4>2
    <3>2. CASE ~taken
      <4>1. WithoutCI(w, units) = w
        BY <1>3, <3>2
      <4>2. GroupState(w, b, FALSE, s, h)
        BY <1>1, <2>1, UnitsIgnored DEF b
      <4> QED BY <4>1, <4>2 DEF StateAfter
    <3> QED BY <3>1, <3>2
  <2>3. (IF e THEN SlideAfter(s, a.group, n) ELSE s) = s
    BY <1>7
  <2> QED BY <1>7, <2>2, <2>3, Zenon DEF b, n, units
<1> QED BY <1>6, <1>7
LEMMA PlainLost ==
  ASSUME NEW w, NEW a, NEW h \in 0 .. Around - 2, PadGood(w, a, h), NEW sent, PlainOK(sent, a),
         a.size # 0
  PROVE  PadGood(w, Follow(a, sent, 0), h + 2)
<1> DEFINE b == Start(a, sent.air)
           z == a.size
           n == (a.unit + a.size) - 1
           d == MovedUnit(a, a.group, n)
<1>1. GroupState(w, a, a.entire, a.slide, h) /\ LabelOK(a, Label) /\ SizeOK(w.pad, a, a.entire)
  BY DEF PadGood
<1>2. /\ a \in Program /\ a.slide \in Slides \union {None} /\ OnAir(a) /\ a.group # None
      /\ z \in 1 .. 4
  BY <1>1 DEF GroupState, GroupsOK, SizeOK
<1>3. PlainEnd(sent.air, a, n)
  BY <1>1, <1>2, PlainPlaced DEF PlainOK
<1>4. /\ PlainFields(sent.fields, a) /\ Len(sent.fields) = z /\ DOMAIN sent.fields = 1 .. z
      /\ \A i \in 1 .. z : IsField(sent.fields[i])
  <2>1. PlainFields(sent.fields, a)
    BY DEF PlainOK
  <2> QED BY <1>2, <2>1, PlainUnits DEF PlainFields
<1>5. n \in Nat /\ n >= a.unit /\ z \in Nat
  BY <1>2 DEF Program
<1>6. PadState(w, a, b, a.slide, h) /\ b \in Program
  BY <1>1, <1>3, StartState DEF PlainEnd
<1> HIDE DEF b, n, z
<1>7. PICK c : /\ Comes(c, z, b, sent.fields, 0)
               /\ Followed(Follow(a, sent, 0), c, z, sent.air, a.slide)
  BY <1>2, <1>3, <1>4, <1>5, FollowMade DEF b, PlainEnd
<1>8. c[z] \in Program /\ c[z].entire = FALSE /\ c[z].arrived = b.arrived
  <2>1. PICK got \in Int : got = 0
    OBVIOUS
  <2>2. Comes(c, a.size, b, sent.fields, got)
    BY <1>7, <2>1 DEF z
  <2>3. got <= 0
    BY <2>1
  <2>4. NotAll(c[a.size], b)
    BY <1>2, <1>4, <1>6, <2>2, <2>3, PlainNotAll
  <2> QED BY <2>4, Zenon DEF NotAll, z
<1>9. GroupState(w, a, b.entire, SlidesOf(a.slide, b.arrived), h)
  BY <1>6 DEF PadState
<1>10. GroupState(w, d, FALSE, SlidesOf(a.slide, b.arrived), h + 1)
  <2>1. h \in 0 .. Around - 1
    BY AroundOK
  <2> QED BY <1>2, <1>5, <1>9, <2>1, UnitsLost
<1> HIDE DEF d
<1>11. GroupState(w, d, FALSE, SlidesOf(a.slide, b.arrived), h + 2)
  <2>1. h + 1 \in Nat /\ h + 2 \in Nat /\ h + 1 <= h + 2
    OBVIOUS
  <2> QED BY <1>10, <2>1, StateMore
<1>12. PadState(w, d, c[z], a.slide, h + 2)
  BY <1>8, <1>11, Zenon DEF PadState
<1>13. SizeOK(w.pad, sent.air, c[z].entire)
  <2>1. sent.air.size = 0 \/ (sent.air.size \in 1 .. 4 /\ sent.air.group # None)
    BY <1>2, <1>3 DEF PlainEnd, z
  <2>2. ~(c[z].entire)
    BY <1>8, Zenon
  <2> QED BY <2>1, <2>2, Zenon DEF SizeOK
<1>14. AirOf(sent.air, d) /\ LabelOK(sent.air, Label)
  BY <1>3 DEF PlainEnd, d
<1> QED BY <1>7, <1>12, <1>13, <1>14, FollowGood

LEMMA PlainHandled ==
  ASSUME NEW w, NEW a, NEW h \in 0 .. Around, PadGood(w, a, h), NEW sent, PlainOK(sent, a),
         a.size # 0
  PROVE  PadGood(WithoutCI(w, sent.pad.units), Follow(a, sent, Len(sent.fields)), h)
<1> DEFINE b == Start(a, sent.air)
           z == a.size
           n == (a.unit + a.size) - 1
           d == MovedUnit(a, a.group, n)
           u == WithoutCI(w, UnitsFrom(a, a.size))
           s == IF a.entire THEN SlideAfter(a.slide, a.group, n) ELSE a.slide
<1>1. GroupState(w, a, a.entire, a.slide, h) /\ LabelOK(a, Label) /\ SizeOK(w.pad, a, a.entire)
  BY DEF PadGood
<1>2. /\ a \in Program /\ a.slide \in Slides \union {None} /\ OnAir(a) /\ a.group # None
      /\ z \in 1 .. 4
  BY <1>1 DEF GroupState, GroupsOK, SizeOK
<1>3. PlainEnd(sent.air, a, n)
  BY <1>1, <1>2, PlainPlaced DEF PlainOK
<1>4. /\ PlainFields(sent.fields, a) /\ Len(sent.fields) = z /\ DOMAIN sent.fields = 1 .. z
      /\ \A i \in 1 .. z : IsField(sent.fields[i])
  <2>1. PlainFields(sent.fields, a)
    BY DEF PlainOK
  <2> QED BY <1>2, <2>1, PlainUnits DEF PlainFields
<1>5. n \in Nat /\ n >= a.unit /\ z \in Nat
  BY <1>2 DEF Program
<1>a. a.entire \in BOOLEAN
  BY <1>2, ProgramFields
<1>b. WithoutCI(w, sent.pad.units) = u
  BY DEF PlainOK
<1>c. StateAfter(u, w, d, a.entire, s, h)
  <2>1. h \in 0 .. Around
    BY AroundOK
  <2> QED BY <1>1, <1>2, <1>a, <2>1, WithoutCITaken
<1>6. /\ b \in Program /\ b.entire = a.entire /\ b.arrived = <<>>
      /\ SlidesOf(a.slide, b.arrived) = a.slide
  <2>1. sent.air \in Program
    BY <1>3 DEF PlainEnd
  <2>2. ArrivedNow(b, sent.air, a.entire, <<>>)
    BY <1>2, <2>1, StartOK
  <2> HIDE DEF b
  <2>3. b \in Program /\ b.entire = a.entire /\ b.arrived = <<>>
    BY <2>2, Zenon DEF ArrivedNow
  <2> QED BY <1>2, <2>3, NoSlides
<1> HIDE DEF b, n, z, d, u, s
<1>7. PICK c : /\ Comes(c, z, b, sent.fields, z)
               /\ Followed(Follow(a, sent, z), c, z, sent.air, a.slide)
  BY <1>2, <1>3, <1>4, <1>5, FollowMade DEF b, PlainEnd
<1>d. Comes(c, a.size, b, sent.fields, a.size) /\ a.size # 0
  BY <1>7 DEF z
<1>8. c[z] \in Program /\ c[z].entire = a.entire /\ SlidesOf(a.slide, c[z].arrived) = s
  <2>1. CASE a.entire
    <3>1. b.entire
      BY <1>6, <2>1
    <3>2. /\ c[z] \in Program /\ c[z].entire = TRUE
          /\ SlidesOf(a.slide, c[z].arrived) = SlideAfter(a.slide, a.group, a.unit + a.size - 1)
      <4>1. CameWhole(c[a.size], a.slide, SlideAfter(a.slide, a.group, a.unit + a.size - 1))
        BY <1>2, <1>4, <1>6, <1>d, <3>1, PlainEntire
      <4> QED BY <4>1, Zenon DEF CameWhole, z
    <3>3. a.unit + a.size - 1 = n
      BY <1>2, <1>5 DEF n, z, Program
    <3>4. s = SlideAfter(a.slide, a.group, n)
      BY <2>1 DEF s
    <3>5. a.entire = TRUE
      BY <1>a, <2>1
    <3>6. SlidesOf(a.slide, c[z].arrived) = s
      BY <3>2, <3>3, <3>4
    <3> QED BY <3>2, <3>5, <3>6, Zenon
  <2>2. CASE ~a.entire
    <3>1. ~b.entire
      BY <1>6, <2>2
    <3>2. a.size \in Int
      BY <1>2 DEF z
    <3>a. NotAll(c[a.size], b)
      BY <1>2, <1>4, <1>6, <1>d, <3>1, <3>2, PlainNotAll
    <3>3. c[z] \in Program /\ c[z].entire = FALSE /\ c[z].arrived = b.arrived
      BY <3>a, Zenon DEF NotAll, z
    <3>4. s = a.slide
      BY <2>2 DEF s
    <3>5. a.entire = FALSE
      BY <1>a, <2>2
    <3>6. SlidesOf(a.slide, c[z].arrived) = s
      BY <1>6, <3>3, <3>4
    <3> QED BY <3>3, <3>5, <3>6, Zenon
  <2> QED BY <2>1, <2>2
<1>9. PadState(u, d, c[z], a.slide, h)
  BY <1>8, <1>c, Zenon DEF PadState, StateAfter
<1>10. SizeOK(u.pad, sent.air, c[z].entire)
  <2>1. sent.air.size = 0 \/ (sent.air.size = a.size /\ sent.air.group # None)
    BY <1>3 DEF PlainEnd
  <2>2. a.size \in 1 .. 4 /\ (a.entire => w.pad.xpadLength = a.size)
    BY <1>1, <1>2 DEF SizeOK, z
  <2>3. u.pad.xpadLength = w.pad.xpadLength
    BY <1>c DEF StateAfter
  <2>4. c[z].entire => a.entire
    BY <1>8, Zenon
  <2> QED BY <2>1, <2>2, <2>3, <2>4 DEF SizeOK
<1>11. AirOf(sent.air, d) /\ LabelOK(sent.air, Label)
  BY <1>3 DEF PlainEnd, d
<1>12. PadGood(u, Follow(a, sent, z), h)
  BY <1>7, <1>9, <1>10, <1>11, FollowGood
<1> QED BY <1>4, <1>12, <1>b

\* No PAD at all.
LEMMA NoneGood ==
  ASSUME NEW w, NEW a, NEW h \in Nat, PadGood(w, a, h), NEW sent, sent.fields = <<>>, sent.air = a
  PROVE  PadGood(w, Follow(a, sent, 0), h)
<1> DEFINE b == Start(a, a)
<1>1. GroupState(w, a, a.entire, a.slide, h) /\ LabelOK(a, Label) /\ SizeOK(w.pad, a, a.entire)
  BY DEF PadGood
<1>2. a \in Program /\ a.slide \in Slides \union {None}
  BY <1>1 DEF GroupState
<1>3. PadState(w, a, b, a.slide, h) /\ b.entire = a.entire
  BY <1>1, <1>2, StartState, StartOK DEF ArrivedNow
<1>4. Len(sent.fields) = 0 /\ DOMAIN sent.fields = 1 .. 0 /\ 0 \in Nat /\ 0 \in Int
      /\ \A i \in 1 .. 0 : IsField(sent.fields[i])
  OBVIOUS
<1> HIDE DEF b
<1>5. PICK n \in Nat : n = 0
  OBVIOUS
<1>6. PICK c : /\ Comes(c, n, b, sent.fields, n)
               /\ Followed(Follow(a, sent, n), c, n, sent.air, a.slide)
  BY <1>2, <1>4, <1>5, FollowMade DEF b
<1>7. c[n] = b
  BY <1>5, <1>6 DEF Comes
<1>8. PadState(w, a, c[n], a.slide, h)
  BY <1>3, <1>7
<1>9. SizeOK(w.pad, sent.air, c[n].entire)
  BY <1>1, <1>3, <1>7, Zenon
<1>10. AirOf(sent.air, a) /\ LabelOK(sent.air, Label)
  BY <1>1 DEF AirOf
<1>11. PadGood(w, Follow(a, sent, n), h)
  BY <1>6, <1>8, <1>9, <1>10, FollowGood
<1> QED BY <1>5, <1>11
-----------------------------------------------------------------------------
(* The line of PADs.  Each loss counts for two groups that may be lost.    *)

PadOK == audio = mp4Processor /\ PadGood(padwork, program, 2 * losses)

PadInv == line \in PadLine => losses \in 0 .. MaxLosses /\ PadOK

\* A padHandler that is new.
LEMMA NewPadWork ==
  ASSUME NEW st \in PadStatics
  PROVE  LET w == Working(NewPadHandler, st) IN
         /\ w \in PadWork /\ w.static = st
         /\ w.pad.msc_dataGroupBuffer = <<>> /\ w.pad.mscGroupElement = FALSE
         /\ w.pad.currentSlide = None /\ w.handed = <<>>
<1> DEFINE w == Working(NewPadHandler, st)
<1>1. NewPadHandler \in PadMembers
  BY DEF NewPadHandler, PadMembers
<1>2. /\ NewPadHandler.msc_dataGroupBuffer = <<>> /\ NewPadHandler.mscGroupElement = FALSE
      /\ NewPadHandler.currentSlide = None
  BY DEF NewPadHandler
<1>3. /\ w.pad = NewPadHandler /\ w.static = st /\ w.shown = <<>> /\ w.handed = <<>>
      /\ w = [pad |-> NewPadHandler, static |-> st, shown |-> <<>>, handed |-> <<>>]
  BY DEF Working
<1> HIDE DEF w
<1>4. w \in PadWork
  <2>1. <<>> \in Seq(Seq(Character)) /\ <<>> \in Seq(WholeObject)
    OBVIOUS
  <2> QED BY <1>1, <1>3, <2>1 DEF PadWork
<1> QED BY <1>2, <1>3, <1>4 DEF w

LEMMA NewGood ==
  ASSUME NEW a \in Program, OnAir(a), LabelOK(a, Label), a.entire = FALSE, a.slide = None,
         a.size # 0 => a.size \in 1 .. 4 /\ a.group # None, NEW st \in PadStatics, NEW h
  PROVE  PadGood(Working(NewPadHandler, st), a, h)
<1> DEFINE w == Working(NewPadHandler, st)
<1>1. /\ w \in PadWork /\ w.pad.msc_dataGroupBuffer = <<>> /\ w.pad.mscGroupElement = FALSE
      /\ w.pad.currentSlide = None
  BY NewPadWork
<1> HIDE DEF w
<1>2. ~a.entire /\ a.entire \in BOOLEAN
  BY ProgramFields
<1>3. ElementOK(w.pad)
  <2>1. ~w.pad.mscGroupElement
    BY <1>1, Zenon
  <2> QED BY <1>1, <2>1, Zenon DEF ElementOK
<1>4. BufferOK(w.pad, a, a.entire, h) /\ EntireOK(w.pad, a, a.entire)
  BY <1>1, <1>2, Zenon DEF BufferOK, EntireOK
<1>5. SlideOK(w.pad.currentSlide, a.slide)
  BY <1>1 DEF SlideOK
<1>6. SizeOK(w.pad, a, a.entire)
  BY <1>2, Zenon DEF SizeOK
<1>7. GroupState(w, a, a.entire, a.slide, h)
  <2>1. a.slide \in Slides \union {None}
    BY ProgramFields
  <2> QED BY <1>1, <1>2, <1>3, <1>4, <1>5, <2>1, Zenon DEF GroupState, GroupsOK
<1> QED BY <1>6, <1>7, Zenon DEF PadGood, w

\* What an earlier call has shown and handed over is no state.
LEMMA LostGood ==
  ASSUME NEW w, NEW a, NEW h, PadGood(w, a, h)
  PROVE  PadGood(Lost(w), a, h)
<1> DEFINE u == Lost(w)
<1>1. w \in PadWork
  BY DEF PadGood, GroupState
<1>2. u \in PadWork /\ u.pad = w.pad
  <2> DEFINE v == [w EXCEPT !.shown = <<>>]
  <2>1. v \in PadWork /\ v.pad = w.pad
    <3>1. <<>> \in Seq(Seq(Character))
      OBVIOUS
    <3> QED BY <1>1, <3>1, ShownReplaced
  <2>2. [v EXCEPT !.handed = <<>>] \in PadWork /\ [v EXCEPT !.handed = <<>>].pad = v.pad
    <3>1. <<>> \in Seq(WholeObject)
      OBVIOUS
    <3> HIDE DEF v
    <3> QED BY <2>1, <3>1, HandedReplaced
  <2>3. u = [v EXCEPT !.handed = <<>>]
    BY <1>1 DEF Lost, PadWork
  <2> HIDE DEF v
  <2> QED BY <2>1, <2>2, <2>3, Zenon
<1> HIDE DEF u
<1>3. GroupState(w, a, a.entire, a.slide, h) /\ LabelOK(a, Label) /\ SizeOK(w.pad, a, a.entire)
  BY Zenon DEF PadGood
<1>4. GroupState(u, a, a.entire, a.slide, h)
  BY <1>2, <1>3, Zenon DEF GroupState
<1>5. PadGood(u, a, h)
  BY <1>2, <1>3, <1>4, Zenon DEF PadGood
<1> QED BY <1>5 DEF u

LEMMA PadLineIs ==
  ASSUME line \in PadLine
  PROVE  /\ line \in Mp4Line /\ line \notin Mp2Line /\ line # "packets"
         /\ line \notin CodingLine /\ line # "superframes" /\ line # "short" /\ line # "frames"
BY DEF PadLine, Mp4Line, Mp2Line, CodingLine

LEMMA PadInit == ASSUME Init PROVE PadInv
<1> SUFFICES ASSUME line \in PadLine PROVE losses \in 0 .. MaxLosses /\ PadOK
  BY DEF PadInv
<1>1. losses \in 0 .. MaxLosses
  BY BackendsAssumption DEF BackendsAssumption, Init
<1>2. line \in Mp4Line
  BY PadLineIs
<1>3. audio = mp4Processor
  BY <1>2, PadLineIs DEF Init, theAudio
<1>4. padwork = Working(NewPadHandler, NewStatics) /\ program = NoProgram
  BY DEF Init, thePad
<1>5. NewStatics \in PadStatics
  BY DEF NewStatics, PadStatics
<1> DEFINE a == NoProgram
<1>6. /\ a.label = None /\ a.segment = 1 /\ a.n = 1 /\ a.group = None /\ a.unit = 1 /\ a.index = 0
      /\ a.size = 0 /\ a.entire = FALSE /\ a.slide = None
  BY DEF NoProgram
<1>7. a \in Program
  BY AroundOK DEF NoProgram, Program, Around
<1> HIDE DEF a
<1>8. OnAir(a) /\ LabelOK(a, Label)
  <2>1. 0 \in 0 .. Around - 1
    BY AroundOK
  <2>2. OnAir(a)
    <3>1. a.index \in 0 .. Around - 1
      BY <1>6, <2>1
    <3>2. a.group = None /\ a.unit = 1
      BY <1>6
    <3> QED BY <3>1, <3>2, Zenon DEF OnAir, Around
  <2>3. LabelOK(a, Label)
    BY <1>6 DEF LabelOK
  <2> QED BY <2>2, <2>3
<1>9. PadGood(Working(NewPadHandler, NewStatics), a, 2 * losses)
  BY <1>5, <1>6, <1>7, <1>8, NewGood
<1> QED BY <1>1, <1>3, <1>4, <1>9, Zenon DEF PadOK, a

LEMMA PadActions ==
  ASSUME Next, line \in PadLine
  PROVE  AccessUnit \/ SelectAgain \/ UNCHANGED <<line, losses, apparatus>>
BY DEF Next, SuperframePart, DabFrame, DisturbedFrame, ShortFrame, GoodPacket,
       DamagedPacket, PaddingPacket, Coding, CodingLoss, PadLine

\* The service is selected again.
LEMMA ProgramReset ==
  ASSUME NEW a \in Program
  PROVE  LET b == [a EXCEPT !.intact = FALSE, !.entire = FALSE, !.due = <<>>,
                            !.arrived = <<>>, !.clean = FALSE, !.slide = None] IN
         b \in Program /\ Placed(b, a) /\ b.entire = FALSE /\ b.slide = None
<1> DEFINE b == [a EXCEPT !.intact = FALSE, !.due = <<>>]
           c == [b EXCEPT !.entire = FALSE, !.arrived = <<>>]
           d == [c EXCEPT !.clean = FALSE, !.slide = None]
           all == [a EXCEPT !.intact = FALSE, !.entire = FALSE, !.due = <<>>,
                            !.arrived = <<>>, !.clean = FALSE, !.slide = None]
<1>1. /\ <<>> \in Seq(Label \union ShortLabel) /\ <<>> \in Seq(PadGroup)
      /\ FALSE \in BOOLEAN /\ None \in Slides \union {None}
  OBVIOUS
<1>2. b \in Program /\ Placed(b, a)
  BY <1>1, IntactSet
<1>3. all = d
  BY DEF Program
<1> HIDE DEF b, all
<1>4. c \in Program /\ Placed(c, b) /\ c.entire = FALSE
  <2>1. ArrivedNow(c, b, FALSE, <<>>)
    BY <1>1, <1>2, EntireSet, Zenon
  <2> QED BY <2>1, Zenon DEF ArrivedNow
<1> HIDE DEF c
<1>5. d \in Program /\ Placed(d, c) /\ d.entire = c.entire /\ d.slide = None
  BY <1>1, <1>4, EndSet, Zenon
<1> HIDE DEF d
<1>6. Placed(d, a)
  BY <1>2, <1>4, <1>5, Zenon DEF Placed
<1>7. all \in Program /\ Placed(all, a) /\ all.entire = FALSE /\ all.slide = None
  BY <1>3, <1>4, <1>5, <1>6, Zenon
<1> QED BY <1>7, Zenon DEF all

LEMMA SelectAgainPad ==
  ASSUME line \in PadLine, PadOK, SelectAgain
  PROVE  audio' = mp4Processor /\ PadGood(padwork', program', 2 * losses')
<1> DEFINE a == program
           b == [a EXCEPT !.intact = FALSE, !.entire = FALSE, !.due = <<>>,
                          !.arrived = <<>>, !.clean = FALSE, !.slide = None]
<1>1. audio' = mp4Processor
  BY PadLineIs DEF SelectAgain, theAudio
<1>2. padwork' = Working(NewPadHandler, padwork.static) /\ program' = b
  BY DEF SelectAgain, thePad
<1>3. GroupState(padwork, a, a.entire, a.slide, 2 * losses) /\ LabelOK(a, Label)
      /\ SizeOK(padwork.pad, a, a.entire)
  BY DEF PadOK, PadGood
<1>4. padwork \in PadWork /\ a \in Program /\ OnAir(a)
  BY <1>3 DEF GroupState, GroupsOK
<1> HIDE DEF a
<1>5. b \in Program /\ Placed(b, a) /\ b.entire = FALSE /\ b.slide = None
  BY <1>4, ProgramReset
<1> HIDE DEF b
<1>6. /\ OnAir(b) /\ LabelOK(b, Label)
      /\ b.size # 0 => b.size \in 1 .. 4 /\ b.group # None
  BY <1>3, <1>4, <1>5 DEF Placed, OnAir, LabelOK, SizeOK
<1>7. padwork.static \in PadStatics
  BY <1>4, PadWorkFields
<1>8. PadGood(Working(NewPadHandler, padwork.static), b, 2 * losses')
  BY <1>5, <1>6, <1>7, NewGood
<1> QED BY <1>1, <1>2, <1>8

\* The PAD of an access unit.
LEMMA PadSent ==
  ASSUME NEW a, a.unit \in Nat, a.size \in 0 .. 4, NEW sent \in PadsSent(a)
  PROVE  \/ \E m \in Composed(a) :
              SentOK(sent, m) /\ sent.pad.kind = "variable" /\ sent.pad.fields = m.fields
         \/ a.size # 0 /\ PlainOK(sent, a)
         \/ sent.pad.kind = "none" /\ sent.fields = <<>> /\ sent.air = a
<1>1. CASE sent \in {[pad |-> [kind |-> "variable", fields |-> m.fields], fields |-> m.fields,
                      air |-> m.air] : m \in Composed(a)}
  <2>1. PICK m \in Composed(a) :
          sent = [pad |-> [kind |-> "variable", fields |-> m.fields], fields |-> m.fields,
                  air |-> m.air]
    BY <1>1
  <2>2. SentOK(sent, m) /\ sent.pad.kind = "variable" /\ sent.pad.fields = m.fields
    BY <2>1 DEF SentOK
  <2> QED BY <2>2
<1>2. CASE sent \in Plain(a)
  BY <1>2, PlainSent
<1>3. CASE sent = [pad |-> [kind |-> "none"], fields |-> <<>>, air |-> a]
  BY <1>3
<1> QED BY <1>1, <1>2, <1>3, Zenon DEF PadsSent

\* Whether a loss counts for this step or not.
LEMMA LossesOK ==
  ASSUME losses \in 0 .. MaxLosses
  PROVE  /\ 2 * losses \in 0 .. Around
         /\ Loses => losses' \in 0 .. MaxLosses /\ 2 * losses \in 0 .. Around - 2
                     /\ 2 * losses' = 2 * losses + 2
<1>1. MaxLosses \in Nat
  BY BackendsAssumption DEF BackendsAssumption
<1> QED BY <1>1 DEF Loses, Around

LEMMA AccessUnitPad ==
  ASSUME line \in PadLine, losses \in 0 .. MaxLosses, PadOK, AccessUnit
  PROVE  losses' \in 0 .. MaxLosses /\ PadGood(padwork', program', 2 * losses')
<1> DEFINE a == program
           w == Lost(padwork)
           h == 2 * losses
<1>1. PadGood(padwork, a, h)
  BY DEF PadOK
<1>2. PadGood(w, a, h)
  BY <1>1, LostGood
<1>3. h \in 0 .. Around /\ h \in Nat
  BY LossesOK, AroundOK
<1>4. Loses => /\ losses' \in 0 .. MaxLosses /\ h \in 0 .. Around - 2 /\ h <= Around - 2
               /\ 2 * losses' = h + 2
  BY LossesOK, AroundOK
<1>5. UNCHANGED losses => losses' \in 0 .. MaxLosses /\ 2 * losses' = h
  OBVIOUS
<1>6. a \in Program /\ a.unit \in Nat /\ a.size \in 0 .. 4
  BY <1>1 DEF PadGood, GroupState, Program
<1>7. PICK sent \in PadsSent(a) :
        LET handled == IF sent.pad.kind = "variable" THEN Len(HandledOf(sent.fields))
                                                     ELSE Len(sent.fields) IN
        \/ /\ padwork' = processPAD(w, sent.pad)
           /\ program' = Follow(a, sent, handled)
           /\ IF handled = Len(sent.fields) THEN UNCHANGED losses ELSE Loses
        \/ /\ sent.fields # <<>> /\ Loses
           /\ padwork' = w
           /\ program' = Follow(a, sent, 0)
  BY DEF AccessUnit
<1> HIDE DEF a, w, h
<1>8. CASE \E m \in Composed(a) :
              SentOK(sent, m) /\ sent.pad.kind = "variable" /\ sent.pad.fields = m.fields
  <2>1. PICK m \in Composed(a) :
              SentOK(sent, m) /\ sent.pad.kind = "variable" /\ sent.pad.fields = m.fields
    BY <1>8
  <2> DEFINE q == Len(HandledOf(m.fields))
  <2>2. sent.fields = m.fields
    BY <2>1 DEF SentOK
  <2>3. CASE /\ padwork' = processPAD(w, sent.pad)
             /\ program' = Follow(a, sent, q)
             /\ IF q = Len(m.fields) THEN UNCHANGED losses ELSE Loses
    <3>1. processPAD(w, sent.pad) = WithCI(w, m.fields)
      BY <2>1 DEF processPAD
    <3>2. q = Len(m.fields) \/ h <= Around - 2
      BY <1>4, <2>3
    <3>3. PadGood(WithCI(w, m.fields), Follow(a, sent, q), IF q = Len(m.fields) THEN h ELSE h + 2)
      BY <1>2, <1>3, <2>1, <3>2, VariableHandled
    <3>4. /\ losses' \in 0 .. MaxLosses
          /\ 2 * losses' = IF q = Len(m.fields) THEN h ELSE h + 2
      BY <1>4, <1>5, <2>3
    <3> QED BY <2>3, <3>1, <3>3, <3>4
  <2>4. CASE Loses /\ padwork' = w /\ program' = Follow(a, sent, 0)
    <3>1. PadGood(w, Follow(a, sent, 0), h + 2)
      BY <1>2, <1>4, <2>1, <2>4, VariableLost
    <3> QED BY <1>4, <2>4, <3>1
  <2> QED BY <1>7, <2>1, <2>2, <2>3, <2>4
<1>9. CASE a.size # 0 /\ PlainOK(sent, a)
  <2>1. sent.pad.kind = "plain"
    BY <1>9 DEF PlainOK
  <2>2. CASE /\ padwork' = processPAD(w, sent.pad)
             /\ program' = Follow(a, sent, Len(sent.fields)) /\ UNCHANGED losses
    <3>1. processPAD(w, sent.pad) = WithoutCI(w, sent.pad.units)
      BY <2>1 DEF processPAD
    <3>2. PadGood(WithoutCI(w, sent.pad.units), Follow(a, sent, Len(sent.fields)), h)
      BY <1>2, <1>3, <1>9, PlainHandled
    <3> QED BY <1>5, <2>2, <3>1, <3>2
  <2>3. CASE Loses /\ padwork' = w /\ program' = Follow(a, sent, 0)
    <3>1. PadGood(w, Follow(a, sent, 0), h + 2)
      BY <1>2, <1>4, <1>9, <2>3, PlainLost
    <3> QED BY <1>4, <2>3, <3>1
  <2> QED BY <1>7, <2>1, <2>2, <2>3
<1>10. CASE sent.pad.kind = "none" /\ sent.fields = <<>> /\ sent.air = a
  <2>1. Len(sent.fields) = 0
    BY <1>10
  <2>2. padwork' = processPAD(w, sent.pad) /\ program' = Follow(a, sent, 0) /\ UNCHANGED losses
    BY <1>7, <1>10, <2>1
  <2>3. processPAD(w, sent.pad) = w
    BY <1>10 DEF processPAD
  <2>4. PadGood(w, Follow(a, sent, 0), h)
    BY <1>2, <1>3, <1>10, NoneGood
  <2> QED BY <1>5, <2>2, <2>3, <2>4
<1> QED BY <1>6, <1>8, <1>9, <1>10, PadSent

LEMMA PadStep == ASSUME PadInv, [Next]_vars PROVE PadInv'
<1> SUFFICES ASSUME line \in PadLine, losses \in 0 .. MaxLosses, PadOK
             PROVE  losses' \in 0 .. MaxLosses /\ PadOK'
  BY LineStays DEF PadInv
<1>1. CASE UNCHANGED <<line, losses, apparatus>> \/ UNCHANGED vars
  BY <1>1 DEF vars, apparatus, PadOK
<1>2. CASE AccessUnit
  <2>1. audio' = audio
    BY <1>2 DEF AccessUnit
  <2> QED BY <1>2, <2>1, AccessUnitPad DEF PadOK
<1>3. CASE SelectAgain
  <2>1. losses' \in 0 .. MaxLosses
    BY <1>3, LossesOK DEF SelectAgain
  <2> QED BY <1>3, <2>1, SelectAgainPad DEF PadOK
<1> QED BY <1>1, <1>2, <1>3, PadActions

\* The inductive invariant of the lines with PAD: what is in msc_dataGroupBuffer is the
\* begin of the group on the air, or can never again become a whole group, over any PADs
\* lost and any calls of processPAD (padHandler::add_MSC_element, build_MSC_segment).
THEOREM PadInvariance == Spec => []PadInv
BY PadInit, PadStep, PTL DEF Spec
-----------------------------------------------------------------------------
(* The line of short X-PAD.                                                *)

\* A label is at one of its characters; there is none at the begin of its first segment.
ShortAt(a) ==
  /\ a \in Program /\ a.segment \in Nat /\ a.n \in Nat
  /\ a.label # None => a.label \in ShortLabel /\ a.segment \in Segment(a.label)
  /\ a.label = None => a.segment = 1

ShortInv == line = "short" => ShortAt(program)

AtCharacter(a, l, s, n) == [a EXCEPT !.label = l, !.segment = s, !.n = n]

LEMMA ShortSet ==
  ASSUME NEW a \in Program, NEW l \in ShortLabel \union {None}, NEW s \in Nat, NEW n \in Nat,
         l # None => s \in Segment(l), l = None => s = 1
  PROVE  ShortAt(AtCharacter(a, l, s, n))
<1> DEFINE b == [a EXCEPT !.label = l, !.segment = s, !.n = n]
<1>1. b \in Program /\ b.label = l /\ b.segment = s /\ b.n = n
  BY DEF Program
<1> HIDE DEF b
<1>2. ShortAt(b)
  BY <1>1 DEF ShortAt
<1> QED BY <1>2 DEF b, AtCharacter

LEMMA ShortMoved ==
  ASSUME NEW a \in Program, NEW l \in ShortLabel, NEW s \in Segment(l), NEW n \in Nat
  PROVE  ShortAt(Moved(a, l, s, n))
<1>0. /\ Characters[l] \in Seq(Nat \ {0}) /\ Segment(l) = 1 .. Len(Characters[l])
      /\ Len(Characters[l]) \in Nat /\ s \in Nat /\ l # None
  BY PadAssumption, NoneAssumption DEF Segment
<1>1. CASE n < Characters[l][s]
  <2>1. Moved(a, l, s, n) = AtCharacter(a, l, s, n + 1)
    BY <1>1 DEF Moved, AtCharacter
  <2>2. n + 1 \in Nat
    OBVIOUS
  <2> QED BY <1>0, <2>1, <2>2, ShortSet
<1>2. CASE ~(n < Characters[l][s]) /\ s < Len(Characters[l])
  <2>1. Moved(a, l, s, n) = AtCharacter(a, l, s + 1, 1)
    BY <1>2 DEF Moved, AtCharacter
  <2>2. s + 1 \in Nat /\ 1 \in Nat /\ s + 1 \in Segment(l)
    BY <1>0, <1>2
  <2> QED BY <1>0, <2>1, <2>2, ShortSet
<1>3. CASE ~(n < Characters[l][s]) /\ ~(s < Len(Characters[l]))
  <2>1. Moved(a, l, s, n) = AtCharacter(a, None, 1, 1)
    BY <1>3 DEF Moved, AtCharacter
  <2>2. 1 \in Nat
    OBVIOUS
  <2> QED BY <2>1, <2>2, ShortSet
<1> QED BY <1>1, <1>2, <1>3

LEMMA ShortEndAt ==
  ASSUME NEW a, ShortAt(a), a.label # None, NEW k \in Nat \ {0}
  PROVE  ShortAt(ShortEnd(a, k))
<1>1. a.label \in ShortLabel /\ a.segment \in Segment(a.label) /\ a.n \in Nat /\ a \in Program
  BY DEF ShortAt
<1>2. Characters[a.label][a.segment] \in Nat
  BY <1>1, SegmentLength
<1>3. Least(a.n + k - 1, Characters[a.label][a.segment]) \in Nat
  BY <1>1, <1>2 DEF Least
<1> QED BY <1>1, <1>3, ShortMoved DEF ShortEnd

LEMMA FlagsSet ==
  ASSUME NEW a, ShortAt(a), NEW i \in BOOLEAN, NEW d \in Seq(Label \union ShortLabel),
         NEW x \in BOOLEAN
  PROVE  ShortAt([a EXCEPT !.intact = i, !.due = d, !.clean = x])
<1> DEFINE b == [a EXCEPT !.intact = i, !.due = d, !.clean = x]
<1>1. a \in Program
  BY DEF ShortAt
<1>2. b \in Program /\ b.label = a.label /\ b.segment = a.segment /\ b.n = a.n
  BY <1>1 DEF Program
<1> HIDE DEF b
<1>3. ShortAt(b)
  BY <1>2 DEF ShortAt
<1> QED BY <1>3 DEF b

\* Of a PAD, where the broadcaster is, and what it knows.
ShortSentOK(sent) ==
  /\ ShortAt(sent.air) /\ sent.came \in BOOLEAN /\ sent.due \in Seq(Label \union ShortLabel)

LEMMA ShortSent ==
  ASSUME NEW a, ShortAt(a), NEW sent \in ShortStarts(a) \union ShortContinues(a) \union ShortOthers(a)
  PROVE  ShortSentOK(sent)
<1>1. a \in Program /\ a.intact \in BOOLEAN /\ <<>> \in Seq(Label \union ShortLabel)
  BY ProgramFields DEF ShortAt
<1>2. CASE sent \in ShortStarts(a)
  <2>1. PICK b \in IF a.label = None THEN {[a EXCEPT !.label = l] : l \in ShortLabel}
                   ELSE IF a.n = 1 THEN {a} ELSE {} :
          /\ sent.came = (b.segment = 1 \/ a.intact) /\ sent.due = <<>>
          /\ sent.air = ShortEnd(b, 1)
    BY <1>2 DEF ShortStarts
  <2>2. ShortAt(b) /\ b.label # None
    <3>1. CASE a.label = None
      <4>1. PICK l \in ShortLabel : b = [a EXCEPT !.label = l]
        BY <2>1, <3>1
      <4>2. /\ b \in Program /\ b.label = l /\ b.segment = 1 /\ b.n \in Nat
        BY <1>1, <3>1, <4>1 DEF ShortAt, Program
      <4>3. 1 \in Segment(l) /\ l # None
        <5>1. Characters[l] \in Seq(Nat \ {0}) /\ Characters[l] # <<>>
          BY PadAssumption
        <5>2. l # None
          BY NoneAssumption
        <5> QED BY <5>1, <5>2 DEF Segment
      <4> QED BY <4>2, <4>3 DEF ShortAt
    <3>2. CASE a.label # None
      BY <2>1, <3>2
    <3> QED BY <3>1, <3>2
  <2>3. ShortAt(ShortEnd(b, 1))
    BY <2>2, ShortEndAt
  <2> QED BY <1>1, <2>1, <2>3 DEF ShortSentOK
<1>3. CASE sent \in ShortContinues(a)
  <2>1. a.label # None
    BY <1>3 DEF ShortContinues
  <2>2. ShortAt(ShortEnd(a, 4)) /\ ShortAt(ShortEnd(a, 3))
    BY <2>1, ShortEndAt
  <2>3. <<a.label>> \in Seq(Label \union ShortLabel)
    BY <2>1 DEF ShortAt
  <2> DEFINE due == IF ShortEnd(a, 4).label = None /\ a.intact THEN <<a.label>> ELSE <<>>
  <2>4. due \in Seq(Label \union ShortLabel)
    BY <1>1, <2>3
  <2>5. \/ sent.came = a.intact /\ sent.due = due /\ sent.air = ShortEnd(a, 4)
        \/ sent.came = FALSE /\ sent.due = <<>> /\ sent.air = ShortEnd(a, 3)
    BY <1>3, <2>1 DEF ShortContinues
  <2> HIDE DEF due
  <2> QED BY <1>1, <2>2, <2>4, <2>5, Zenon DEF ShortSentOK
<1>4. CASE sent \in ShortOthers(a)
  <2>1. sent.came = FALSE /\ sent.due = <<>> /\ sent.air = a
    BY <1>4 DEF ShortOthers
  <2> QED BY <1>1, <2>1, Zenon DEF ShortSentOK
<1> QED BY <1>2, <1>3, <1>4

LEMMA ShortInit == ASSUME Init PROVE ShortInv
<1> SUFFICES ASSUME line = "short" PROVE ShortAt(program)
  BY DEF ShortInv
<1>1. program = NoProgram
  BY DEF Init
<1>2. NoProgram \in Program
  BY AroundOK DEF NoProgram, Program, Around
<1>3. NoProgram.label = None /\ NoProgram.segment = 1 /\ NoProgram.n = 1
  BY DEF NoProgram
<1> QED BY <1>1, <1>2, <1>3 DEF ShortAt

LEMMA ShortActions ==
  ASSUME Next, line = "short"
  PROVE  ShortFrame \/ SelectAgain \/ UNCHANGED <<line, losses, apparatus>>
BY DEF Next, SuperframePart, DabFrame, DisturbedFrame, AccessUnit, GoodPacket,
       DamagedPacket, PaddingPacket, Coding, CodingLoss, PadLine

LEMMA ShortStep == ASSUME ShortInv, [Next]_vars PROVE ShortInv'
<1> SUFFICES ASSUME line = "short", ShortAt(program) PROVE ShortAt(program')
  BY LineStays DEF ShortInv
<1>1. CASE UNCHANGED <<line, losses, apparatus>> \/ UNCHANGED vars
  BY <1>1 DEF vars, apparatus
<1>2. CASE ShortFrame
  <2>1. PICK sent \in ShortStarts(program) \union ShortContinues(program) \union ShortOthers(program) :
          \/ program' = [sent.air EXCEPT
               !.intact = sent.came, !.due = sent.due,
               !.clean = sent.pad.kind \in {"start", "short"}
                           /\ (program.clean \/ program.due # <<>>)]
          \/ program' = [sent.air EXCEPT !.intact = FALSE, !.due = <<>>, !.clean = FALSE]
    BY <1>2 DEF ShortFrame
  <2>2. ShortAt(sent.air) /\ sent.came \in BOOLEAN /\ sent.due \in Seq(Label \union ShortLabel)
    BY <2>1, ShortSent DEF ShortSentOK
  <2> DEFINE clean == sent.pad.kind \in {"start", "short"} /\ (program.clean \/ program.due # <<>>)
  <2>3. clean \in BOOLEAN /\ FALSE \in BOOLEAN /\ <<>> \in Seq(Label \union ShortLabel)
    OBVIOUS
  <2>4. \/ program' = [sent.air EXCEPT !.intact = sent.came, !.due = sent.due, !.clean = clean]
        \/ program' = [sent.air EXCEPT !.intact = FALSE, !.due = <<>>, !.clean = FALSE]
    BY <2>1
  <2> HIDE DEF clean
  <2>5. ShortAt([sent.air EXCEPT !.intact = sent.came, !.due = sent.due, !.clean = clean])
    BY <2>2, <2>3, FlagsSet
  <2>6. ShortAt([sent.air EXCEPT !.intact = FALSE, !.due = <<>>, !.clean = FALSE])
    BY <2>2, <2>3, FlagsSet, Zenon
  <2> QED BY <2>4, <2>5, <2>6, Zenon
<1>3. CASE SelectAgain
  <2> DEFINE b == [program EXCEPT !.intact = FALSE, !.entire = FALSE, !.due = <<>>,
                                  !.arrived = <<>>, !.clean = FALSE, !.slide = None]
  <2>1. program' = b
    BY <1>3 DEF SelectAgain
  <2>2. b \in Program /\ Placed(b, program)
    BY ProgramReset DEF ShortAt
  <2> HIDE DEF b
  <2>3. ShortAt(b)
    BY <2>2 DEF ShortAt, Placed
  <2> QED BY <2>1, <2>3
<1> QED BY <1>1, <1>2, <1>3, ShortActions
-----------------------------------------------------------------------------
(* The text of a label, segment by segment.                                *)

\* Sequences behind each other, up to each of them: the function within FlattenSeq.
Flat(seqs) ==
  CHOOSE f : f = [i \in 1 .. Len(seqs) |-> IF i = 1 THEN seqs[i] ELSE f[i - 1] \o seqs[i]]

LEMMA FlattenIsFlat ==
  ASSUME NEW seqs, Len(seqs) # 0
  PROVE  FlattenSeq(seqs) = Flat(seqs)[Len(seqs)]
BY Zenon DEF FlattenSeq, Flat

\* There is such a function.
LEMMA FlatMade ==
  ASSUME NEW V, NEW seqs \in Seq(Seq(V)), NEW n \in Nat, n = Len(seqs)
  PROVE  Flat(seqs) = [i \in 1 .. n |-> IF i = 1 THEN seqs[i] ELSE Flat(seqs)[i - 1] \o seqs[i]]
<1> DEFINE W == Seq(V)
           F == [x \in W \X (1 .. n) |-> x[1] \o seqs[x[2]]]
<1>1. \A i \in 1 .. n : seqs[i] \in W
  BY Elements
<1>2. F \in [W \X (1 .. n) -> W]
  <2>1. ASSUME NEW v \in W, NEW i \in 1 .. n PROVE v \o seqs[i] \in W
    BY <1>1
  <2> HIDE DEF W
  <2> QED BY <2>1
<1>3. <<>> \in W /\ \A i \in 1 .. n : <<>> \o seqs[i] = seqs[i]
  BY <1>1
<1> HIDE DEF W
<1>4. PICK g : IsFold(g, W, <<>>, n, F)
  <2> HIDE DEF F
  <2> QED BY <1>2, <1>3, FoldExists
<1> DEFINE f == [i \in 1 .. n |-> g[1 .. i]]
<1>5. ASSUME NEW i \in 1 .. n PROVE g[1 .. i] = g[1 .. (i - 1)] \o seqs[i]
  <2>1. /\ 1 .. i \in SUBSET (1 .. n) /\ 1 .. i # {} /\ Max(1 .. i) = i
        /\ (1 .. i) \ {Max(1 .. i)} = 1 .. (i - 1) /\ 1 .. (i - 1) \in SUBSET (1 .. n)
    BY UpTo
  <2>2. g[1 .. i] = F[<<g[1 .. (i - 1)], i>>]
    <3> HIDE DEF F
    <3> QED BY <1>4, <2>1 DEF IsFold
  <2>3. g[1 .. (i - 1)] \in W
    BY <1>4, <2>1 DEF IsFold
  <2> QED BY <2>2, <2>3
<1>6. g[1 .. 0] = <<>>
  <2>1. 1 .. 0 = {} /\ 1 .. 0 \in SUBSET (1 .. n)
    OBVIOUS
  <2> QED BY <1>4, <2>1 DEF IsFold
<1>7. f = [i \in 1 .. n |-> IF i = 1 THEN seqs[i] ELSE f[i - 1] \o seqs[i]]
  <2>1. ASSUME NEW i \in 1 .. n
        PROVE  g[1 .. i] = IF i = 1 THEN seqs[i] ELSE f[i - 1] \o seqs[i]
    <3>1. CASE i = 1
      <4>1. g[1 .. i] = g[1 .. (i - 1)] \o seqs[i]
        BY <1>5
      <4>2. g[1 .. (i - 1)] = g[1 .. 0]
        BY <3>1
      <4> QED BY <1>3, <1>6, <3>1, <4>1, <4>2
    <3>2. CASE i # 1
      <4>1. i - 1 \in 1 .. n
        BY <3>2
      <4>2. f[i - 1] = g[1 .. (i - 1)]
        BY <4>1
      <4> QED BY <1>5, <3>2, <4>2
    <3> QED BY <3>1, <3>2
  <2> QED BY <2>1
<1> HIDE DEF f
<1> QED BY <1>7, Zenon DEF Flat

\* What a label's segments make together, up to one of them; and the first k characters
\* of a segment.
Upto(l, s)     == IF s = 1 THEN <<>> ELSE Flat([t \in Segment(l) |-> Chars(l, t)])[s - 1]
Begin(l, s, k) == [i \in 1 .. k |-> Char(l, s, i)]

\* All before the n-th character of segment s.
Before(l, s, n) == Upto(l, s) \o Begin(l, s, n - 1)

LEMMA BeginTyped ==
  ASSUME NEW l \in Label \union ShortLabel, NEW s \in Segment(l), NEW k \in Nat
  PROVE  Begin(l, s, k) \in Seq(Character) /\ Len(Begin(l, s, k)) = k
<1>1. \A i \in 1 .. k : Char(l, s, i) \in Character
  BY SegmentLength DEF Char, Character
<1> QED BY <1>1 DEF Begin

\* A label has a segment, and the texts of its segments are sequences.
LEMMA SegmentsTyped ==
  ASSUME NEW l \in Label \union ShortLabel
  PROVE  /\ Len(Characters[l]) \in Nat \ {0} /\ Segment(l) = 1 .. Len(Characters[l])
         /\ [t \in Segment(l) |-> Chars(l, t)] \in Seq(Seq(Character))
         /\ Len([t \in Segment(l) |-> Chars(l, t)]) = Len(Characters[l])
<1>1. Characters[l] \in Seq(Nat \ {0}) /\ Characters[l] # <<>>
  BY PadAssumption DEF PadAssumption
<1>2. Len(Characters[l]) \in Nat \ {0} /\ Segment(l) = 1 .. Len(Characters[l])
  BY <1>1 DEF Segment
<1>3. \A t \in Segment(l) : Chars(l, t) \in Seq(Character)
  <2> TAKE t \in Segment(l)
  <2>1. Chars(l, t) = Begin(l, t, Characters[l][t]) /\ Characters[l][t] \in Nat
    BY SegmentLength DEF Chars, Begin
  <2> QED BY <2>1, BeginTyped
<1> QED BY <1>2, <1>3

LEMMA Associative ==
  ASSUME NEW V, NEW r \in Seq(V), NEW s \in Seq(V), NEW t \in Seq(V)
  PROVE  (r \o s) \o t = r \o (s \o t)
<1> DEFINE a == (r \o s) \o t
           b == r \o (s \o t)
<1>1. /\ a \in Seq(V) /\ b \in Seq(V) /\ Len(a) = Len(b) /\ Len(a) = Len(r) + Len(s) + Len(t)
      /\ Len(r) \in Nat /\ Len(s) \in Nat /\ Len(t) \in Nat
  OBVIOUS
<1>2. ASSUME NEW i \in 1 .. Len(a) PROVE a[i] = b[i]
  <2>1. CASE i <= Len(r)
    BY <1>1, <2>1
  <2>2. CASE i > Len(r) /\ i <= Len(r) + Len(s)
    BY <1>1, <2>2
  <2>3. CASE i > Len(r) + Len(s)
    BY <1>1, <2>3
  <2> QED BY <1>1, <2>1, <2>2, <2>3
<1> HIDE DEF a, b
<1>3. a = [i \in 1 .. Len(a) |-> a[i]] /\ b = [i \in 1 .. Len(b) |-> b[i]]
  BY <1>1, AsFunction
<1>4. a = b
  BY <1>1, <1>2, <1>3
<1> QED BY <1>4 DEF a, b

\* The text up to a segment, and with it.
LEMMA UptoTyped ==
  ASSUME NEW l \in Label \union ShortLabel, NEW s \in Nat, s - 1 \in 0 .. Len(Characters[l])
  PROVE  Upto(l, s) \in Seq(Character)
<1> DEFINE seqs == [t \in Segment(l) |-> Chars(l, t)]
           f == Flat(seqs)
           m == Len(Characters[l])
           S == {i \in Nat : i \in 1 .. m => f[i] \in Seq(Character)}
<1>1. m \in Nat /\ seqs \in Seq(Seq(Character)) /\ Len(seqs) = m
  BY SegmentsTyped
<1>2. \A i \in 1 .. m : seqs[i] \in Seq(Character)
  BY <1>1, Elements
<1> HIDE DEF seqs, m
<1>3. f = [i \in 1 .. m |-> IF i = 1 THEN seqs[i] ELSE f[i - 1] \o seqs[i]]
  BY <1>1, FlatMade
<1> HIDE DEF f
<1>4. \A i \in Nat : i \in S
  <2>1. 0 \in S
    OBVIOUS
  <2>2. ASSUME NEW n \in Nat, n \in S PROVE n + 1 \in S
    <3> SUFFICES ASSUME n + 1 \in 1 .. m PROVE f[n + 1] \in Seq(Character)
      OBVIOUS
    <3>1. CASE n = 0
      BY <1>2, <1>3, <3>1
    <3>2. CASE n # 0
      <4>1. n \in 1 .. m /\ n + 1 # 1 /\ (n + 1) - 1 = n
        BY <1>1, <3>2
      <4>2. f[n + 1] = f[n] \o seqs[n + 1] /\ f[n] \in Seq(Character)
        BY <1>3, <2>2, <4>1
      <4> QED BY <1>2, <4>2
    <3> QED BY <3>1, <3>2
  <2> HIDE DEF S
  <2> QED BY <2>1, <2>2, AllNumbers
<1>5. s # 1 => s - 1 \in 1 .. m /\ s - 1 \in Nat
  BY <1>1 DEF m
<1>6. s # 1 => f[s - 1] \in Seq(Character)
  BY <1>4, <1>5
<1> QED BY <1>6 DEF Upto, f, seqs

LEMMA UptoFirst == ASSUME NEW l PROVE Upto(l, 1) = <<>>
BY DEF Upto

LEMMA UptoNext ==
  ASSUME NEW l \in Label \union ShortLabel, NEW s \in Segment(l)
  PROVE  Upto(l, s + 1) = Upto(l, s) \o Begin(l, s, Characters[l][s])
<1> DEFINE seqs == [t \in Segment(l) |-> Chars(l, t)]
           f == Flat(seqs)
           m == Len(Characters[l])
<1>1. m \in Nat /\ seqs \in Seq(Seq(Character)) /\ Len(seqs) = m /\ s \in 1 .. m /\ s \in Nat \ {0}
  BY SegmentsTyped, SegmentLength
<1>2. seqs[s] = Begin(l, s, Characters[l][s]) /\ seqs[s] \in Seq(Character)
  <2>1. seqs[s] = Begin(l, s, Characters[l][s])
    BY DEF Chars, Begin
  <2> QED BY <2>1, BeginTyped, SegmentLength
<1> HIDE DEF seqs, m
<1>3. f = [i \in 1 .. m |-> IF i = 1 THEN seqs[i] ELSE f[i - 1] \o seqs[i]]
  BY <1>1, FlatMade
<1> HIDE DEF f
<1>4. f[s] = IF s = 1 THEN seqs[s] ELSE f[s - 1] \o seqs[s]
  BY <1>1, <1>3
<1>5. Upto(l, s + 1) = f[s]
  BY <1>1 DEF Upto, f, seqs
<1>6. s # 1 => Upto(l, s) = f[s - 1]
  BY DEF Upto, f, seqs
<1>7. CASE s = 1
  BY <1>2, <1>4, <1>5, <1>7, UptoFirst
<1>8. CASE s # 1
  BY <1>2, <1>4, <1>5, <1>6, <1>8
<1> QED BY <1>7, <1>8

\* What a label's segments make is its text.
LEMMA TextWhole ==
  ASSUME NEW l \in Label \union ShortLabel
  PROVE  TextOf(l) = Upto(l, Len(Characters[l]) + 1)
<1> DEFINE seqs == [t \in Segment(l) |-> Chars(l, t)]
<1>1. Len(seqs) = Len(Characters[l]) /\ Len(Characters[l]) \in Nat \ {0}
  BY SegmentsTyped
<1>2. TextOf(l) = Flat(seqs)[Len(seqs)]
  <2>1. TextOf(l) = FlattenSeq(seqs)
    BY Zenon DEF TextOf
  <2>2. Len(seqs) # 0
    BY <1>1
  <2> HIDE DEF seqs
  <2> QED BY <2>1, <2>2, FlattenIsFlat
<1>3. /\ Len(Characters[l]) + 1 # 1
      /\ (Len(Characters[l]) + 1) - 1 = Len(seqs)
  BY <1>1
<1> QED BY <1>2, <1>3 DEF Upto

\* Characters behind those there are.
LEMMA BeginJoined ==
  ASSUME NEW l \in Label \union ShortLabel, NEW s \in Segment(l), NEW k \in Nat, NEW m \in Nat,
         NEW more \in Seq(Character), Len(more) = m, \A i \in 1 .. m : more[i] = Char(l, s, k + i)
  PROVE  Begin(l, s, k) \o more = Begin(l, s, k + m)
<1> DEFINE first == Begin(l, s, k)
<1>1. first \in Seq(Character) /\ Len(first) = k
  BY BeginTyped
<1>2. more \in Seq(Character) /\ Len(more) = m
  OBVIOUS
<1>3. first \o more = Joint(first, more)
  <2> HIDE DEF first
  <2> QED BY <1>1, <1>2, Joined
<1>4. ASSUME NEW i \in 1 .. k + m
      PROVE  (IF i <= k THEN first[i] ELSE more[i - k]) = Char(l, s, i)
  <2>1. CASE i <= k
    BY <2>1 DEF Begin
  <2>2. CASE ~(i <= k)
    <3>1. i - k \in 1 .. m /\ k + (i - k) = i
      BY <2>2
    <3> QED BY <2>2, <3>1
  <2> QED BY <2>1, <2>2
<1> HIDE DEF first
<1>5. Joint(first, more) = [i \in 1 .. k + m |-> Char(l, s, i)]
  BY <1>1, <1>2, <1>4 DEF Joint
<1> QED BY <1>3, <1>5 DEF Begin, first

LEMMA BeforeFirst ==
  ASSUME NEW l \in Label \union ShortLabel, NEW s \in Segment(l)
  PROVE  Before(l, s, 1) = Upto(l, s)
<1>1. Begin(l, s, 1 - 1) = <<>>
  BY DEF Begin
<1>2. Upto(l, s) \in Seq(Character)
  BY SegmentsTyped, SegmentLength, UptoTyped
<1> QED BY <1>1, <1>2 DEF Before

LEMMA BeforeMore ==
  ASSUME NEW l \in Label \union ShortLabel, NEW s \in Segment(l), NEW n \in Nat \ {0}
  PROVE  Before(l, s, n) \o <<Char(l, s, n)>> = Before(l, s, n + 1)
<1> DEFINE more == <<Char(l, s, n)>>
<1>1. more \in Seq(Character) /\ Len(more) = 1 /\ more[1] = Char(l, s, n)
  <2>1. Char(l, s, n) \in Character
    BY SegmentLength DEF Char, Character
  <2> QED BY <2>1
<1>2. Begin(l, s, n - 1) \o more = Begin(l, s, (n - 1) + 1)
  <2> HIDE DEF more
  <2>1. n - 1 \in Nat /\ 1 \in Nat /\ (n - 1) + 1 = n
    OBVIOUS
  <2>2. \A i \in 1 .. 1 : more[i] = Char(l, s, (n - 1) + i)
    BY <1>1, <2>1
  <2> QED BY <1>1, <2>1, <2>2, BeginJoined
<1>3. Upto(l, s) \in Seq(Character)
  BY SegmentsTyped, SegmentLength, UptoTyped
<1>4. Begin(l, s, n - 1) \in Seq(Character)
  BY BeginTyped
<1>6. (n - 1) + 1 = (n + 1) - 1
  OBVIOUS
<1> HIDE DEF more
<1>7. (Upto(l, s) \o Begin(l, s, n - 1)) \o <<Char(l, s, n)>>
        = Upto(l, s) \o (Begin(l, s, n - 1) \o <<Char(l, s, n)>>)
  BY <1>1, <1>3, <1>4, Associative DEF more
<1> QED BY <1>2, <1>6, <1>7 DEF Before, more

LEMMA BeforeEnd ==
  ASSUME NEW l \in Label \union ShortLabel, NEW s \in Segment(l), NEW n, n = Characters[l][s] + 1
  PROVE  Before(l, s, n) = Upto(l, s + 1)
<1>1. n - 1 = Characters[l][s]
  BY SegmentLength
<1> QED BY <1>1, UptoNext DEF Before

\* The static locals are set; the text and what was shown stay.
StaticsNow(u, w, a, b, c) ==
  /\ u.pad = w.pad /\ u.shown = w.shown
  /\ u.static.moreXPad = a /\ u.static.remainDataLength = b /\ u.static.isLastSegment = c

LEMMA StaticsAre ==
  ASSUME NEW w \in PadWork, NEW a \in BOOLEAN, NEW b \in Int, NEW c \in BOOLEAN
  PROVE  StaticsNow([w EXCEPT !.static.moreXPad = a, !.static.remainDataLength = b,
                              !.static.isLastSegment = c], w, a, b, c)
<1> DEFINE s1 == [w.static EXCEPT !.moreXPad = a]
           s2 == [s1 EXCEPT !.remainDataLength = b]
           s3 == [s2 EXCEPT !.isLastSegment = c]
           w1 == [w EXCEPT !.static = s1]
           w2 == [w1 EXCEPT !.static = s2]
           w3 == [w2 EXCEPT !.static = s3]
           u == [w EXCEPT !.static.moreXPad = a, !.static.remainDataLength = b,
                      !.static.isLastSegment = c]
<1>1. s1 \in PadStatics /\ s1.moreXPad = a
  BY PadWorkFields DEF PadStatics
<1> HIDE DEF s1
<1>2. s2 \in PadStatics /\ s2.moreXPad = a /\ s2.remainDataLength = b
  BY <1>1 DEF PadStatics
<1> HIDE DEF s2
<1>3. s3 \in PadStatics /\ s3.moreXPad = a /\ s3.remainDataLength = b /\ s3.isLastSegment = c
  BY <1>2 DEF PadStatics
<1> HIDE DEF s3
<1>4. w1 \in PadWork /\ w1.static = s1 /\ w1.pad = w.pad /\ w1.shown = w.shown
  BY <1>1, StaticReplaced
<1>5. [w EXCEPT !.static.moreXPad = a] = w1
  BY DEF s1
<1> HIDE DEF w1
<1>6. w2 \in PadWork /\ w2.static = s2 /\ w2.pad = w.pad /\ w2.shown = w.shown
  BY <1>2, <1>4, StaticReplaced
<1>7. [w1 EXCEPT !.static.remainDataLength = b] = w2
  BY <1>4 DEF s2
<1> HIDE DEF w2
<1>8. w3.static = s3 /\ w3.pad = w.pad /\ w3.shown = w.shown
  BY <1>3, <1>6, StaticReplaced
<1>9. [w2 EXCEPT !.static.isLastSegment = c] = w3
  BY <1>6 DEF s3
<1> HIDE DEF w3
<1>10. u = [[[w EXCEPT !.static.moreXPad = a] EXCEPT !.static.remainDataLength = b]
              EXCEPT !.static.isLastSegment = c]
  OBVIOUS
<1>11. u = w3
  <2> HIDE DEF u
  <2> QED BY <1>5, <1>7, <1>9, <1>10
<1> HIDE DEF u
<1>12. StaticsNow(u, w, a, b, c)
  BY <1>3, <1>8, <1>11 DEF StaticsNow
<1> QED BY <1>12 DEF u

LEMMA TwoStaticsAre ==
  ASSUME NEW w \in PadWork, NEW a \in BOOLEAN, NEW b \in Int
  PROVE  LET u == [w EXCEPT !.static.moreXPad = a, !.static.remainDataLength = b] IN
         u \in PadWork /\ StaticsNow(u, w, a, b, w.static.isLastSegment)
<1> DEFINE s1 == [w.static EXCEPT !.moreXPad = a]
           s2 == [s1 EXCEPT !.remainDataLength = b]
           w1 == [w EXCEPT !.static = s1]
           w2 == [w1 EXCEPT !.static = s2]
           u == [w EXCEPT !.static.moreXPad = a, !.static.remainDataLength = b]
<1>1. s1 \in PadStatics /\ s1.moreXPad = a /\ s1.isLastSegment = w.static.isLastSegment
  BY PadWorkFields DEF PadStatics
<1> HIDE DEF s1
<1>2. /\ s2 \in PadStatics /\ s2.moreXPad = a /\ s2.remainDataLength = b
      /\ s2.isLastSegment = w.static.isLastSegment
  BY <1>1 DEF PadStatics
<1> HIDE DEF s2
<1>3. w1 \in PadWork /\ w1.static = s1 /\ w1.pad = w.pad /\ w1.shown = w.shown
  BY <1>1, StaticReplaced
<1>4. [w EXCEPT !.static.moreXPad = a] = w1
  BY DEF s1
<1> HIDE DEF w1
<1>5. w2 \in PadWork /\ w2.static = s2 /\ w2.pad = w.pad /\ w2.shown = w.shown
  BY <1>2, <1>3, StaticReplaced
<1>6. [w1 EXCEPT !.static.remainDataLength = b] = w2
  BY <1>3 DEF s2
<1> HIDE DEF w2
<1>7. u = [[w EXCEPT !.static.moreXPad = a] EXCEPT !.static.remainDataLength = b]
  OBVIOUS
<1>8. u = w2
  <2> HIDE DEF u
  <2> QED BY <1>4, <1>6, <1>7
<1> HIDE DEF u
<1>9. u \in PadWork /\ StaticsNow(u, w, a, b, w.static.isLastSegment)
  BY <1>2, <1>5, <1>8 DEF StaticsNow
<1> QED BY <1>9 DEF u

\* The text is another.
TextNow(u, w, text) == u.pad.dynamicLabelText = text /\ u.static = w.static /\ u.shown = w.shown

LEMMA Cleared == ASSUME NEW w \in PadWork PROVE Clear(w) \in PadWork /\ TextNow(Clear(w), w, <<>>)
<1>1. <<>> \in Seq(Character)
  OBVIOUS
<1> QED BY <1>1, TextReplaced DEF Clear, TextNow

LEMMA Appended ==
  ASSUME NEW w \in PadWork, NEW chars \in Seq(Character)
  PROVE  Append1(w, chars) \in PadWork /\ TextNow(Append1(w, chars), w, w.pad.dynamicLabelText \o chars)
<1> DEFINE text == w.pad.dynamicLabelText \o chars
<1>1. text \in Seq(Character)
  BY PadWorkFields, PadMemberFields
<1>2. Append1(w, chars) = [w EXCEPT !.pad.dynamicLabelText = text]
  BY DEF Append1
<1> HIDE DEF text
<1>3. TextNow([w EXCEPT !.pad.dynamicLabelText = text], w, text)
  BY <1>1, TextReplaced DEF TextNow
<1>4. [w EXCEPT !.pad.dynamicLabelText = text] \in PadWork
  BY <1>1, TextReplaced
<1> QED BY <1>2, <1>3, <1>4 DEF text

\* The text is shown.
ShownNow(u, w) ==
  /\ u.pad = w.pad /\ u.static = w.static
  /\ u.shown = Append(w.shown, w.pad.dynamicLabelText)

LEMMA Shows == ASSUME NEW w \in PadWork PROVE ShownNow(Show(w), w)
<1>1. Append(w.shown, w.pad.dynamicLabelText) \in Seq(Seq(Character))
  BY PadWorkFields, PadMemberFields
<1> QED BY <1>1, ShownReplaced DEF Show, ShownNow

\* A segment begins: the static locals count what is still to come of it.
BegunSegment(u, w, l, s) ==
  LET text  == (IF s = 1 THEN <<>> ELSE w.pad.dynamicLabelText) \o <<Char(l, s, 1)>>
      total == Characters[l][s]
      last  == s = Len(Characters[l]) IN
  /\ u.pad.dynamicLabelText = text
  /\ u.shown = IF last /\ total = 1 THEN Append(w.shown, text) ELSE w.shown
  /\ u.static.moreXPad = (total > 1) /\ u.static.remainDataLength = total - 1
  /\ total > 1 => u.static.isLastSegment = last

LEMMA SegmentStarted ==
  ASSUME NEW w \in PadWork, NEW l \in Label, NEW s \in Segment(l), NEW f, f.label = l, f.segment = s
  PROVE  BegunSegment(SegmentStart(w, f), w, l, s)
<1> DEFINE total == Characters[l][s]
           char  == <<Char(l, s, 1)>>
           begin == StartOfLabel(w, f)
           old   == IF s = 1 THEN <<>> ELSE w.pad.dynamicLabelText
           text  == Append1(begin, char)
           more  == total > 1
           here  == s = Len(Characters[l])
           last  == IF ~here THEN FALSE ELSE IF more THEN TRUE ELSE text.static.isLastSegment
           rest  == total - 1
           new   == [text EXCEPT !.static.moreXPad = more, !.static.remainDataLength = rest,
                                 !.static.isLastSegment = last]
<1>1. total \in Nat \ {0} /\ s \in Nat \ {0}
  BY SegmentLength
<1>2. begin \in PadWork /\ TextNow(begin, w, old)
  <2>1. CASE s = 1
    BY <2>1, Cleared DEF StartOfLabel
  <2>2. CASE s # 1
    BY <2>2 DEF StartOfLabel, TextNow
  <2> QED BY <2>1, <2>2
<1>3. char \in Seq(Character)
  <2>1. Char(l, s, 1) \in Character
    BY <1>1 DEF Char, Character
  <2> QED BY <2>1
<1>4. SegmentStart(w, f) = IF here /\ ~more THEN Show(new) ELSE new
  BY DEF SegmentStart, IsLast
<1> HIDE DEF begin, char, old
<1>5. text \in PadWork /\ TextNow(text, w, old \o char)
  <2>1. text \in PadWork /\ TextNow(text, begin, begin.pad.dynamicLabelText \o char)
    BY <1>2, <1>3, Appended
  <2> HIDE DEF text
  <2> QED BY <1>2, <2>1 DEF TextNow
<1>6. text.static.isLastSegment \in BOOLEAN
  <2> HIDE DEF text
  <2> QED BY <1>5, PadWorkFields DEF PadStatics
<1> HIDE DEF text
<1> DEFINE x == text.static.isLastSegment
<1>7. more \in BOOLEAN /\ rest \in Int /\ last \in BOOLEAN
  <2>1. rest \in Int
    BY <1>1
  <2>2. x \in BOOLEAN
    BY <1>6
  <2>3. last = FALSE \/ last = TRUE \/ last = x
    BY Zenon
  <2>4. more \in BOOLEAN
    OBVIOUS
  <2> HIDE DEF x, rest, more, last
  <2>5. last \in BOOLEAN
    BY <2>2, <2>3
  <2> QED BY <2>1, <2>4, <2>5
<1>8. here /\ more => last = TRUE
  OBVIOUS
<1>9. ~here => last = FALSE
  OBVIOUS
<1>10. (more <=> total > 1) /\ (~more <=> total = 1) /\ rest = total - 1
  BY <1>1
<1> HIDE DEF more, rest, last, here
<1>11. new \in PadWork /\ StaticsNow(new, text, more, rest, last)
  BY <1>5, <1>7, StaticsSet, StaticsAre
<1> HIDE DEF new
<1>12. new.pad.dynamicLabelText = old \o char /\ new.shown = w.shown
  BY <1>5, <1>11 DEF StaticsNow, TextNow
<1>13. new.static.moreXPad = more /\ new.static.remainDataLength = rest
         /\ new.static.isLastSegment = last
  BY <1>11, Zenon DEF StaticsNow
<1>14. ShownNow(Show(new), new)
  BY <1>11, Shows
<1> DEFINE u == SegmentStart(w, f)
<1>15. u.static = new.static /\ u.pad = new.pad
  BY <1>4, <1>14 DEF ShownNow
<1>16. u.shown = IF here /\ total = 1 THEN Append(w.shown, old \o char) ELSE w.shown
  BY <1>4, <1>10, <1>12, <1>14 DEF ShownNow
<1>17. u.static.moreXPad = (total > 1) /\ u.static.remainDataLength = total - 1
  <2>1. u.static.moreXPad = more
    BY <1>13, <1>15
  <2>2. u.static.remainDataLength = rest
    BY <1>13, <1>15
  <2> QED BY <1>10, <2>1, <2>2, Zenon DEF more
<1>18. total > 1 => u.static.isLastSegment = here
  <2>1. u.static.isLastSegment = last
    BY <1>13, <1>15
  <2>2. more => last = here
    BY <1>8, <1>9, Zenon DEF here
  <2> QED BY <1>10, <2>1, <2>2, Zenon
<1> HIDE DEF u
<1>19. BegunSegment(u, w, l, s)
  BY <1>12, <1>15, <1>16, <1>17, <1>18, Zenon DEF BegunSegment, old, char, here
<1> QED BY <1>19 DEF u

\* A segment goes on, or comes to its end.
Continued(u, w, l, s, n) ==
  LET text == w.pad.dynamicLabelText \o <<Char(l, s, n)>>
      more == w.static.remainDataLength > 1 IN
  /\ u.pad.dynamicLabelText = text
  /\ u.shown = IF ~more /\ w.static.isLastSegment THEN Append(w.shown, text) ELSE w.shown
  /\ u.static.moreXPad = more
  /\ more => u.static.remainDataLength = w.static.remainDataLength - 1
  /\ u.static.isLastSegment = w.static.isLastSegment

LEMMA SegmentContinued ==
  ASSUME NEW w \in PadWork, w.static.moreXPad, NEW l \in Label, NEW s \in Segment(l),
         NEW n \in Nat, NEW f, f.label = l, f.segment = s, f.n = n
  PROVE  Continued(SegmentMore(w, f), w, l, s, n)
<1> DEFINE char == <<Char(l, s, n)>>
           text == Append1(w, char)
           ends == w.static.isLastSegment
           left == w.static.remainDataLength
           more == left > 1
           rest == IF more THEN text.static.remainDataLength - 1 ELSE text.static.remainDataLength
           new  == [text EXCEPT !.static.moreXPad = more, !.static.remainDataLength = rest]
<1>1. char \in Seq(Character)
  <2>1. Char(l, s, n) \in Character
    BY SegmentLength DEF Char, Character
  <2> QED BY <2>1
<1>2. left \in Int
  BY PadWorkFields DEF PadStatics
<1> HIDE DEF char
<1>3. text \in PadWork /\ TextNow(text, w, w.pad.dynamicLabelText \o char)
  BY <1>1, Appended
<1>4. SegmentMore(w, f) = IF ~more /\ ends THEN Show(new) ELSE new
  BY DEF SegmentMore, char
<1>5. text.static = w.static
  BY <1>3 DEF TextNow
<1>6. rest \in Int /\ (more => rest = left - 1) /\ (more <=> left > 1) /\ more \in BOOLEAN
  <2> HIDE DEF text
  <2> QED BY <1>2, <1>5
<1> HIDE DEF text, more, rest
<1>7. new \in PadWork /\ StaticsNow(new, text, more, rest, text.static.isLastSegment)
  BY <1>3, <1>6, TwoStaticsAre
<1> HIDE DEF new
<1>8. new.pad.dynamicLabelText = w.pad.dynamicLabelText \o char /\ new.shown = w.shown
  BY <1>3, <1>7 DEF StaticsNow, TextNow
<1>9. /\ new.static.moreXPad = more /\ new.static.remainDataLength = rest
      /\ new.static.isLastSegment = ends
  <2>1. text.static.isLastSegment = ends
    BY <1>3 DEF TextNow
  <2> QED BY <1>7, <2>1, Zenon DEF StaticsNow
<1>10. ShownNow(Show(new), new)
  BY <1>7, Shows
<1> DEFINE u == SegmentMore(w, f)
<1>11. u.static = new.static /\ u.pad = new.pad
  BY <1>4, <1>10 DEF ShownNow
<1>12. u.shown = IF ~more /\ ends THEN Append(w.shown, w.pad.dynamicLabelText \o char) ELSE w.shown
  BY <1>4, <1>8, <1>10 DEF ShownNow
<1>13. u.static.moreXPad = more /\ u.static.isLastSegment = ends
  BY <1>9, <1>11, Zenon
<1>14. more => u.static.remainDataLength = left - 1
  BY <1>6, <1>9, <1>11
<1>15. u.pad.dynamicLabelText = w.pad.dynamicLabelText \o char
  BY <1>8, <1>11
<1> HIDE DEF u
<1>16. Continued(u, w, l, s, n)
  BY <1>12, <1>13, <1>14, <1>15, Zenon DEF Continued, char, more
<1> QED BY <1>16 DEF u
-----------------------------------------------------------------------------
(* The text of a label: what came of it so far.                            *)

\* The broadcaster is at a character of a label; there is none in a command.
AtPlace(a, labels) ==
  /\ a.label # None => /\ a.label \in labels /\ a.segment \in Segment(a.label)
                       /\ a.n \in 1 .. Characters[a.label][a.segment]
  /\ a.label = None => a.n = 1
  /\ a.command => a.label = None

\* The text is all before the n-th character of segment s; within a segment the static
\* locals count what is still to come of it.
TextAt(w, l, s, n) ==
  /\ w.pad.dynamicLabelText = Before(l, s, n)
  /\ n > 1 => /\ w.static.moreXPad
              /\ w.static.remainDataLength = (Characters[l][s] - n) + 1
              /\ w.static.isLastSegment = (s = Len(Characters[l]))

Texts(d) == [i \in DOMAIN d |-> TextOf(d[i])]

\* padHandler is in step with a label of which all came so far, and between segments it
\* waits for the begin of one.
Tracks(w, a, i) == (a.label # None => i) /\ (a.n = 1 => ~w.static.moreXPad)

\* i: all of the label came so far; d: the labels that came whole in this PAD.
TextState(w, a, i, d) ==
  /\ w \in PadWork /\ AtPlace(a, Label) /\ i \in BOOLEAN /\ d \in Seq(Label \union ShortLabel)
  /\ i /\ a.label # None => TextAt(w, a.label, a.segment, a.n)
  /\ Range(Texts(d)) \subseteq Range(w.shown)
  /\ d # <<>> => Tracks(w, a, i)

\* Nothing was lost, at least since a label came whole: no other text was shown.
Told(w, a, i, d) == w.shown = Texts(d) /\ Tracks(w, a, i)

LEMMA TextsNone == Texts(<<>>) = <<>> /\ Range(Texts(<<>>)) = {}
BY DEF Texts, Range

LEMMA TextsMore ==
  ASSUME NEW d \in Seq(Label \union ShortLabel), NEW l \in Label \union ShortLabel
  PROVE  Texts(Append(d, l)) = Append(Texts(d), TextOf(l))
<1> DEFINE e == Append(d, l)
           n == Len(d)
           V == {TextOf(x) : x \in Label \union ShortLabel}
           t == Texts(d)
           p == Append(t, TextOf(l))
<1>1. /\ n \in Nat /\ DOMAIN d = 1 .. n /\ DOMAIN e = 1 .. n + 1 /\ e[n + 1] = l
      /\ \A i \in 1 .. n : e[i] = d[i]
  OBVIOUS
<1>2. t \in Seq(V) /\ Len(t) = n /\ \A i \in 1 .. n : t[i] = TextOf(d[i])
  BY <1>1 DEF Texts
<1>3. TextOf(l) \in V
  OBVIOUS
<1> HIDE DEF e, n, t, V
<1>4. p \in Seq(V) /\ Len(p) = n + 1 /\ p[n + 1] = TextOf(l) /\ \A i \in 1 .. n : p[i] = t[i]
  BY <1>1, <1>2, <1>3
<1> HIDE DEF p
<1>5. p = [i \in 1 .. n + 1 |-> p[i]]
  BY <1>4, AsFunction
<1>6. ASSUME NEW i \in 1 .. n + 1 PROVE TextOf(e[i]) = p[i]
  <2>1. CASE i = n + 1
    BY <1>1, <1>4, <2>1
  <2>2. CASE i # n + 1
    <3>1. i \in 1 .. n
      BY <1>1, <2>2
    <3> QED BY <1>1, <1>2, <1>4, <3>1
  <2> QED BY <2>1, <2>2
<1>7. Texts(e) = p
  BY <1>1, <1>5, <1>6 DEF Texts
<1> QED BY <1>7 DEF e, p, t

LEMMA RangeMore ==
  ASSUME NEW V, NEW s \in Seq(V), NEW x
  PROVE  Range(Append(s, x)) = Range(s) \union {x}
<1> DEFINE t == Append(s, x)
           n == Len(s)
<1>1. /\ n \in Nat /\ DOMAIN s = 1 .. n /\ DOMAIN t = 1 .. n + 1 /\ t[n + 1] = x
      /\ \A i \in 1 .. n : t[i] = s[i]
  <2>1. s \in Seq(V \union {x})
    OBVIOUS
  <2> QED BY <2>1
<1> HIDE DEF t, n
<1>2. \A i \in 1 .. n + 1 : i \in 1 .. n \/ i = n + 1
  BY <1>1
<1>3. n + 1 \in 1 .. n + 1 /\ \A i \in 1 .. n : i \in 1 .. n + 1
  BY <1>1
<1>4. Range(t) = Range(s) \union {x}
  BY <1>1, <1>2, <1>3 DEF Range
<1> QED BY <1>4 DEF t

\* A character of a label came of which all came so far.
Advanced(u, w, l, s, n) ==
  /\ n < Characters[l][s] => TextAt(u, l, s, n + 1) /\ u.shown = w.shown
  /\ n = Characters[l][s] => ~u.static.moreXPad
  /\ n = Characters[l][s] /\ s < Len(Characters[l]) =>
       TextAt(u, l, s + 1, 1) /\ u.shown = w.shown
  /\ n = Characters[l][s] /\ s = Len(Characters[l]) => u.shown = Append(w.shown, TextOf(l))

LEMMA FirstAdvances ==
  ASSUME NEW w \in PadWork, NEW l \in Label, NEW s \in Segment(l),
         s = 1 \/ TextAt(w, l, s, 1), NEW u, BegunSegment(u, w, l, s)
  PROVE  Advanced(u, w, l, s, 1)
<1> DEFINE total == Characters[l][s]
           whole == Len(Characters[l])
           text == (IF s = 1 THEN <<>> ELSE w.pad.dynamicLabelText) \o <<Char(l, s, 1)>>
<1>1. total \in Nat \ {0} /\ s \in Nat \ {0} /\ whole \in Nat /\ s <= whole
        /\ l \in Label \union ShortLabel
  BY SegmentLength
<1>2. text = Before(l, s, 2)
  <2>1. (IF s = 1 THEN <<>> ELSE w.pad.dynamicLabelText) = Before(l, s, 1)
    BY <1>1, BeforeFirst, UptoFirst DEF TextAt
  <2>2. Before(l, s, 1) \o <<Char(l, s, 1)>> = Before(l, s, 1 + 1)
    BY <1>1, BeforeMore
  <2> QED BY <2>1, <2>2
<1> HIDE DEF text
<1>3. /\ u.pad.dynamicLabelText = text
      /\ u.shown = IF s = whole /\ total = 1 THEN Append(w.shown, text) ELSE w.shown
  BY DEF BegunSegment, text
<1>4. u.static.moreXPad = (total > 1)
  BY Zenon DEF BegunSegment
<1>5. u.static.remainDataLength = total - 1
  BY DEF BegunSegment
<1>6. total > 1 => u.static.isLastSegment = (s = whole)
  BY Zenon DEF BegunSegment
<1>7. total = 1 => text = Upto(l, s + 1)
  BY <1>1, <1>2, BeforeEnd
<1>8. 1 < total => TextAt(u, l, s, 2) /\ u.shown = w.shown
  <2> SUFFICES ASSUME 1 < total PROVE TextAt(u, l, s, 2) /\ u.shown = w.shown
    OBVIOUS
  <2>1. u.shown = w.shown /\ u.pad.dynamicLabelText = Before(l, s, 2)
    BY <1>1, <1>2, <1>3
  <2>2. total > 1
    BY <1>1
  <2>3. u.static.moreXPad
    BY <1>4, <2>2
  <2>4. u.static.isLastSegment = (s = Len(Characters[l]))
    BY <1>6, <2>2, Zenon
  <2>5. u.static.remainDataLength = (Characters[l][s] - 2) + 1
    BY <1>1, <1>5
  <2> QED BY <2>1, <2>3, <2>4, <2>5, Zenon DEF TextAt
<1>9. 1 = total => ~u.static.moreXPad
  <2>1. 1 = total => ~(total > 1)
    OBVIOUS
  <2> QED BY <1>4, <2>1, Zenon
<1>10. 1 = total /\ s < whole => TextAt(u, l, s + 1, 1) /\ u.shown = w.shown
  <2> SUFFICES ASSUME 1 = total, s < whole PROVE TextAt(u, l, s + 1, 1) /\ u.shown = w.shown
    OBVIOUS
  <2>1. s + 1 \in Segment(l)
    <3>1. Segment(l) = 1 .. whole
      BY <1>1, SegmentsTyped
    <3> QED BY <1>1, <3>1
  <2>2. Before(l, s + 1, 1) = Upto(l, s + 1)
    BY <1>1, <2>1, BeforeFirst
  <2>3. ~(1 > 1) /\ s # whole
    BY <1>1
  <2> QED BY <1>3, <1>7, <2>2, <2>3 DEF TextAt
<1>11. 1 = total /\ s = whole => u.shown = Append(w.shown, TextOf(l))
  BY <1>1, <1>3, <1>7, TextWhole
<1>12. 1 + 1 = 2
  OBVIOUS
<1> QED BY <1>8, <1>9, <1>10, <1>11, <1>12, Zenon DEF Advanced

LEMMA NextAdvances ==
  ASSUME NEW w \in PadWork, NEW l \in Label, NEW s \in Segment(l),
         NEW n \in 1 .. Characters[l][s], n > 1, TextAt(w, l, s, n),
         NEW u, Continued(u, w, l, s, n)
  PROVE  Advanced(u, w, l, s, n)
<1> DEFINE total == Characters[l][s]
           whole == Len(Characters[l])
           text == w.pad.dynamicLabelText \o <<Char(l, s, n)>>
           left == w.static.remainDataLength
<1>1. total \in Nat \ {0} /\ s \in Nat \ {0} /\ whole \in Nat /\ s <= whole
        /\ l \in Label \union ShortLabel /\ n \in Nat \ {0}
  BY SegmentLength
<1>2. text = Before(l, s, n + 1)
  <2>1. w.pad.dynamicLabelText = Before(l, s, n)
    BY DEF TextAt
  <2> QED BY <1>1, <2>1, BeforeMore
<1> HIDE DEF text
<1>3. left = (total - n) + 1
  BY DEF TextAt
<1>4. w.static.isLastSegment = (s = whole)
  BY Zenon DEF TextAt
<1>5. /\ u.pad.dynamicLabelText = text
      /\ u.shown = IF ~(left > 1) /\ w.static.isLastSegment THEN Append(w.shown, text) ELSE w.shown
  BY DEF Continued, text
<1>6. u.static.moreXPad = (left > 1)
  BY Zenon DEF Continued
<1>7. left > 1 => u.static.remainDataLength = left - 1
  BY DEF Continued
<1>8. u.static.isLastSegment = (s = whole)
  BY <1>4, Zenon DEF Continued
<1>9. n < total => TextAt(u, l, s, n + 1) /\ u.shown = w.shown
  <2> SUFFICES ASSUME n < total PROVE TextAt(u, l, s, n + 1) /\ u.shown = w.shown
    OBVIOUS
  <2>1. left > 1
    BY <1>1, <1>3
  <2>2. u.shown = w.shown /\ u.pad.dynamicLabelText = Before(l, s, n + 1)
    BY <1>2, <1>5, <2>1
  <2>3. u.static.moreXPad
    BY <1>6, <2>1
  <2>4. u.static.remainDataLength = (Characters[l][s] - (n + 1)) + 1
    BY <1>1, <1>3, <1>7, <2>1
  <2> QED BY <1>8, <2>2, <2>3, <2>4, Zenon DEF TextAt
<1>10. n = total => ~(left > 1) /\ text = Upto(l, s + 1)
  BY <1>1, <1>2, <1>3, BeforeEnd
<1>11. n = total => ~u.static.moreXPad
  BY <1>6, <1>10
<1>12. n = total /\ s < whole => TextAt(u, l, s + 1, 1) /\ u.shown = w.shown
  <2> SUFFICES ASSUME n = total, s < whole PROVE TextAt(u, l, s + 1, 1) /\ u.shown = w.shown
    OBVIOUS
  <2>1. s + 1 \in Segment(l)
    <3>1. Segment(l) = 1 .. whole
      BY <1>1, SegmentsTyped
    <3> QED BY <1>1, <3>1
  <2>2. Before(l, s + 1, 1) = Upto(l, s + 1)
    BY <1>1, <2>1, BeforeFirst
  <2>3. ~(1 > 1) /\ s # whole
    BY <1>1
  <2>4. u.shown = w.shown
    BY <1>4, <1>5, <2>3
  <2> QED BY <1>5, <1>10, <2>2, <2>3, <2>4 DEF TextAt
<1>13. n = total /\ s = whole => u.shown = Append(w.shown, TextOf(l))
  BY <1>1, <1>4, <1>5, <1>10, TextWhole
<1> QED BY <1>9, <1>11, <1>12, <1>13, Zenon DEF Advanced

\* After a character of a label.
PlaceAfter(b, a, l, s, n) ==
  /\ b.command = a.command
  /\ \/ /\ n < Characters[l][s] /\ b.label = l /\ b.segment = s /\ b.n = n + 1
     \/ /\ n = Characters[l][s] /\ s < Len(Characters[l])
        /\ b.label = l /\ b.segment = s + 1 /\ b.n = 1
     \/ /\ n = Characters[l][s] /\ s = Len(Characters[l])
        /\ b.label = None /\ b.segment = 1 /\ b.n = 1

LEMMA MovedPlace ==
  ASSUME NEW a \in Program, NEW l \in Label \union ShortLabel, NEW s \in Segment(l),
         NEW n \in 1 .. Characters[l][s]
  PROVE  PlaceAfter(Moved(a, l, s, n), a, l, s, n)
<1>1. s <= Len(Characters[l]) /\ s \in Nat /\ Len(Characters[l]) \in Nat /\ Characters[l][s] \in Nat
  BY SegmentLength
<1>2. /\ DOMAIN a = {"label", "segment", "n", "command", "group", "unit", "index", "size", "intact",
                     "entire", "due", "arrived", "clean", "slide"}
  BY DEF Program
<1>3. CASE n < Characters[l][s]
  <2>1. Moved(a, l, s, n) = [a EXCEPT !.label = l, !.segment = s, !.n = n + 1]
    BY <1>3 DEF Moved
  <2> QED BY <1>2, <1>3, <2>1 DEF PlaceAfter
<1>4. CASE n = Characters[l][s] /\ s < Len(Characters[l])
  <2>1. Moved(a, l, s, n) = [a EXCEPT !.label = l, !.segment = s + 1, !.n = 1]
    BY <1>1, <1>4 DEF Moved
  <2> QED BY <1>2, <1>4, <2>1 DEF PlaceAfter
<1>5. CASE n = Characters[l][s] /\ s = Len(Characters[l])
  <2>1. Moved(a, l, s, n) = [a EXCEPT !.label = None, !.segment = 1, !.n = 1]
    BY <1>1, <1>5 DEF Moved
  <2> QED BY <1>2, <1>5, <2>1 DEF PlaceAfter
<1> QED BY <1>1, <1>3, <1>4, <1>5

LEMMA AtPlaceAfter ==
  ASSUME NEW a, ~a.command, NEW labels \in SUBSET (Label \union ShortLabel), NEW l \in labels,
         NEW s \in Segment(l), NEW n \in 1 .. Characters[l][s], NEW b, PlaceAfter(b, a, l, s, n)
  PROVE  AtPlace(b, labels)
<1>1. /\ s \in 1 .. Len(Characters[l]) /\ Segment(l) = 1 .. Len(Characters[l])
      /\ \A t \in Segment(l) : Characters[l][t] \in Nat \ {0}
  BY SegmentLength, SegmentsTyped
<1>2. ~b.command
  BY DEF PlaceAfter
<1>3. CASE n < Characters[l][s] /\ b.label = l /\ b.segment = s /\ b.n = n + 1
  <2>1. n + 1 \in 1 .. Characters[l][s]
    BY <1>1, <1>3
  <2> QED BY <1>2, <1>3, <2>1, NoneAssumption DEF AtPlace
<1>4. CASE s < Len(Characters[l]) /\ b.label = l /\ b.segment = s + 1 /\ b.n = 1
  <2>1. s + 1 \in Segment(l)
    BY <1>1, <1>4
  <2>2. 1 \in 1 .. Characters[l][s + 1]
    BY <1>1, <2>1
  <2> QED BY <1>2, <1>4, <2>1, <2>2, NoneAssumption DEF AtPlace
<1>5. CASE b.label = None /\ b.n = 1
  BY <1>5 DEF AtPlace
<1> QED BY <1>3, <1>4, <1>5 DEF PlaceAfter

\* After u: from there on as from w.
StaysTold(u, b, j, e, w, a, i, d) ==
  TextState(u, b, j, e) /\ (Told(w, a, i, d) => Told(u, b, j, e))

\* Characters of a label of which all came so far.
LEMMA AdvanceTold ==
  ASSUME NEW w, NEW a, NEW i, NEW d, TextState(w, a, i, d), ~a.command,
         NEW l \in Label, NEW s \in Segment(l), NEW n \in 1 .. Characters[l][s],
         NEW u \in PadWork, Advanced(u, w, l, s, n), NEW b, PlaceAfter(b, a, l, s, n),
         NEW j \in BOOLEAN, j, NEW e,
         e = IF s = Len(Characters[l]) /\ n = Characters[l][s] THEN Append(d, l) ELSE d
  PROVE  StaysTold(u, b, j, e, w, a, i, d)
<1>1. /\ w \in PadWork /\ d \in Seq(Label \union ShortLabel)
      /\ Range(Texts(d)) \subseteq Range(w.shown)
  BY DEF TextState
<1>2. w.shown \in Seq(Seq(Character)) /\ l \in Label \union ShortLabel
  BY <1>1, PadWorkFields
<1>3. AtPlace(b, Label)
  BY AtPlaceAfter
<1>4. /\ s \in Nat /\ Len(Characters[l]) \in Nat /\ Characters[l][s] \in Nat
  BY SegmentLength
<1>5. Tracks(u, b, j)
  <2>1. b.n = 1 => n = Characters[l][s]
    BY <1>4 DEF PlaceAfter
  <2> QED BY <2>1, Zenon DEF Tracks, Advanced
<1>6. CASE ~(s = Len(Characters[l]) /\ n = Characters[l][s])
  <2>1. e = d
    BY <1>6
  <2>2. b.label # None => TextAt(u, b.label, b.segment, b.n) /\ u.shown = w.shown
    BY <1>4 DEF PlaceAfter, Advanced
  <2>3. u.shown = w.shown
    BY <1>4, <1>6 DEF PlaceAfter, Advanced
  <2> QED BY <1>1, <1>3, <1>5, <2>1, <2>2, <2>3, Zenon DEF StaysTold, TextState, Told
<1>7. CASE s = Len(Characters[l]) /\ n = Characters[l][s]
  <2>1. e = Append(d, l) /\ u.shown = Append(w.shown, TextOf(l)) /\ b.label = None
    BY <1>4, <1>7 DEF PlaceAfter, Advanced
  <2>2. Texts(e) = Append(Texts(d), TextOf(l)) /\ e \in Seq(Label \union ShortLabel)
    <3>1. Texts(Append(d, l)) = Append(Texts(d), TextOf(l))
      BY <1>1, <1>2, TextsMore
    <3>2. Append(d, l) \in Seq(Label \union ShortLabel)
      BY <1>1, <1>2
    <3> QED BY <2>1, <3>1, <3>2, Zenon
  <2>3. Range(Texts(e)) \subseteq Range(u.shown)
    <3>1. Range(u.shown) = Range(w.shown) \union {TextOf(l)}
      BY <1>2, <2>1, RangeMore
    <3>2. Range(Texts(e)) = Range(Texts(d)) \union {TextOf(l)}
      <4> DEFINE V == {TextOf(x) : x \in Label \union ShortLabel}
      <4>1. Texts(d) \in Seq(V)
        BY <1>1 DEF Texts
      <4> HIDE DEF V
      <4> QED BY <2>2, <4>1, RangeMore
    <3> QED BY <1>1, <3>1, <3>2
  <2> QED BY <1>3, <1>5, <2>1, <2>2, <2>3, Zenon DEF StaysTold, TextState, Told
<1> QED BY <1>6, <1>7

\* What is known of a label after a subfield of it.
IntactAfter(j, i, f) == j <=> (f.label # None /\ (i \/ (f.segment = 1 /\ f.n = 1)))
DueAfter(d, j, f)    == IF j /\ EndsLabel(f) THEN Append(d, f.label) ELSE d

LEMMA CharacterTold ==
  ASSUME NEW w, NEW a, NEW i, NEW d, TextState(w, a, i, d), ~a.command, a \in Program,
         NEW l \in Label, NEW s \in Segment(l), NEW n \in 1 .. Characters[l][s],
         (s = 1 /\ n = 1) \/ (a.label = l /\ a.segment = s /\ a.n = n),
         NEW j \in BOOLEAN, IntactAfter(j, i, LabelField(l, s, n))
  PROVE  StaysTold(Subfield(w, LabelField(l, s, n)), Moved(a, l, s, n), j,
                   DueAfter(d, j, LabelField(l, s, n)), w, a, i, d)
<1> DEFINE f == LabelField(l, s, n)
           u == Subfield(w, f)
           b == Moved(a, l, s, n)
           e == DueAfter(d, j, f)
<1>1. /\ w \in PadWork /\ d \in Seq(Label \union ShortLabel) /\ i \in BOOLEAN
      /\ i /\ a.label # None => TextAt(w, a.label, a.segment, a.n)
      /\ d # <<>> => Tracks(w, a, i)
  BY DEF TextState
<1>2. /\ l \in Label \union ShortLabel /\ s \in Nat /\ n \in Nat /\ l # None
  BY SegmentLength, NoneAssumption
<1>3. f.label = l /\ f.segment = s /\ f.n = n /\ f.ci = (IF n = 1 THEN 2 ELSE 3)
  BY DEF LabelField
<1>4. EndsLabel(f) <=> (s = Len(Characters[l]) /\ n = Characters[l][s])
  BY <1>3 DEF EndsLabel
<1> HIDE DEF f
<1>5. u = IF n = 1 THEN SegmentStart(w, f) ELSE SegmentMore(w, f)
  BY <1>2, <1>3 DEF Subfield
<1> HIDE DEF u
<1>6. u \in PadWork
  BY <1>1, <1>2, <1>3, <1>5, SegmentStartOK, SegmentMoreOK
<1>7. PlaceAfter(b, a, l, s, n)
  BY <1>2, MovedPlace
<1>8. AtPlace(b, Label)
  BY <1>7, AtPlaceAfter
<1> HIDE DEF b
<1>9. CASE j
  <2>1. (s = 1 /\ n = 1) \/ (i /\ a.label = l /\ a.segment = s /\ a.n = n)
    BY <1>3, <1>9 DEF IntactAfter, f
  <2>2. (s = 1 /\ n = 1) \/ TextAt(w, l, s, n)
    BY <1>1, <1>2, <2>1
  <2>3. Advanced(u, w, l, s, n)
    <3>1. CASE n = 1
      <4>1. u = SegmentStart(w, f)
        BY <1>5, <3>1
      <4>2. BegunSegment(u, w, l, s)
        BY <1>1, <1>3, <4>1, SegmentStarted
      <4>3. s = 1 \/ TextAt(w, l, s, 1)
        BY <2>2, <3>1
      <4> QED BY <1>1, <3>1, <4>2, <4>3, FirstAdvances
    <3>2. CASE n # 1
      <4>1. n > 1 /\ u = SegmentMore(w, f)
        BY <1>2, <1>5, <3>2
      <4>2. TextAt(w, l, s, n)
        BY <2>2, <3>2
      <4>3. w.static.moreXPad
        BY <4>1, <4>2, Zenon DEF TextAt
      <4>4. Continued(u, w, l, s, n)
        BY <1>1, <1>2, <1>3, <4>1, <4>3, SegmentContinued
      <4> QED BY <1>1, <4>1, <4>2, <4>4, NextAdvances
    <3> QED BY <3>1, <3>2
  <2>4. e = IF s = Len(Characters[l]) /\ n = Characters[l][s] THEN Append(d, l) ELSE d
    BY <1>3, <1>4, <1>9 DEF DueAfter
  <2> HIDE DEF e
  <2>5. StaysTold(u, b, j, e, w, a, i, d)
    BY <1>6, <1>7, <1>9, <2>3, <2>4, AdvanceTold
  <2> QED BY <2>5 DEF e, u, b, f
<1>10. CASE ~j
  <2>1. ~i /\ a.label # None
    BY <1>2, <1>3, <1>10 DEF IntactAfter, f
  <2>2. ~Tracks(w, a, i)
    BY <2>1, Zenon DEF Tracks
  <2>3. d = <<>> /\ e = <<>> /\ ~Told(w, a, i, d)
    BY <1>1, <1>10, <2>2 DEF DueAfter, Told
  <2>4. Range(Texts(<<>>)) \subseteq Range(u.shown)
    BY TextsNone
  <2> HIDE DEF e
  <2>5. StaysTold(u, b, j, e, w, a, i, d)
    BY <1>1, <1>6, <1>8, <1>10, <2>3, <2>4, Zenon DEF StaysTold, TextState
  <2> QED BY <2>5 DEF e, u, b, f
<1> QED BY <1>9, <1>10

\* A command clears the text, and is none of a label.
LEMMA CommandTold ==
  ASSUME NEW w, NEW a, NEW i, NEW d, TextState(w, a, i, d), a.n = 1, NEW s, NEW n,
         NEW b, b.label = None, b.n = 1, NEW u, u = Subfield(w, LabelField(None, s, n)),
         n = 1 \/ (n = 2 /\ s \in Nat), NEW j \in BOOLEAN, ~j
  PROVE  StaysTold(u, b, j, d, w, a, i, d)
<1> DEFINE f == LabelField(None, s, n)
<1>1. w \in PadWork /\ d \in Seq(Label \union ShortLabel) /\ d # <<>> => Tracks(w, a, i)
  BY DEF TextState
<1>2. f.label = None /\ f.segment = s /\ f.n = n /\ f.ci = (IF n = 1 THEN 2 ELSE 3)
  BY DEF LabelField
<1> HIDE DEF f
<1>3. AtPlace(b, Label)
  BY DEF AtPlace
<1>4. w \in PadWork /\ d \in Seq(Label \union ShortLabel) /\ Range(Texts(d)) \subseteq Range(w.shown)
  BY DEF TextState
<1>5. d # <<>> \/ Told(w, a, i, d) => ~w.static.moreXPad
  <2>1. Tracks(w, a, i) => ~w.static.moreXPad
    BY Zenon DEF Tracks
  <2> QED BY <2>1, Zenon DEF TextState, Told
<1>6. CASE n = 1
  <2>1. u = Clear(w)
    BY <1>2, <1>6 DEF Subfield, LabelCommand, f
  <2>2. u \in PadWork /\ u.static = w.static /\ u.shown = w.shown
    BY <1>4, <2>1, Cleared DEF TextNow
  <2>3. d # <<>> \/ Told(w, a, i, d) => Tracks(u, b, j)
    BY <1>5, <2>2, Zenon DEF Tracks
  <2> QED BY <1>3, <1>4, <2>2, <2>3, Zenon DEF StaysTold, TextState, Told
<1>7. CASE n = 2
  <2>1. u = SegmentMore(w, f)
    BY <1>2, <1>7 DEF Subfield, f
  <2>2. u \in PadWork
    BY <1>2, <1>4, <1>7, <2>1, SegmentMoreOK
  <2>3. CASE ~w.static.moreXPad
    <3>1. u = w
      BY <2>1, <2>3 DEF SegmentMore
    <3>2. d # <<>> \/ Told(w, a, i, d) => Tracks(u, b, j)
      BY <1>5, <3>1, Zenon DEF Tracks
    <3> QED BY <1>3, <1>4, <3>1, <3>2, Zenon DEF StaysTold, TextState, Told
  <2>4. CASE w.static.moreXPad
    <3>1. d = <<>> /\ ~Told(w, a, i, d)
      BY <1>5, <2>4, Zenon
    <3>2. Range(Texts(<<>>)) \subseteq Range(u.shown)
      BY TextsNone
    <3> QED BY <1>3, <1>4, <2>2, <3>1, <3>2, Zenon DEF StaysTold, TextState
  <2> QED BY <2>3, <2>4
<1> QED BY <1>6, <1>7

\* One subfield of a label came, or did not.
CameText(c, b, f, got) ==
  /\ c.intact <=> (f.label # None /\ got /\ (b.intact \/ (f.segment = 1 /\ f.n = 1)))
  /\ c.due = (IF c.intact /\ EndsLabel(f) THEN Append(b.due, f.label) ELSE b.due)
  /\ c.intact \in BOOLEAN

LEMMA LabelCame ==
  ASSUME NEW b \in Program, NEW f, f.ci \in {2, 3}, NEW got \in BOOLEAN
  PROVE  CameText(Came(b, f, got), b, f, got)
<1> DEFINE i == f.label # None /\ got /\ (b.intact \/ (f.segment = 1 /\ f.n = 1))
           d == IF i /\ EndsLabel(f) THEN Append(b.due, f.label) ELSE b.due
           c == [b EXCEPT !.intact = i, !.due = d]
<1>1. Came(b, f, got) = c
  BY DEF Came
<1>2. i \in BOOLEAN
  OBVIOUS
<1> HIDE DEF i
<1>3. c.due = d /\ c.intact = i
  <2> HIDE DEF d
  <2> QED BY DEF Program
<1> HIDE DEF c
<1>4. CameText(c, b, f, got)
  <2>1. c.intact <=> i
    BY <1>3, Zenon
  <2>2. c.intact \in BOOLEAN
    BY <1>2, <1>3, Zenon
  <2> QED BY <1>3, <2>1, <2>2, Zenon DEF CameText, i, d
<1> QED BY <1>1, <1>4

\* A move of the label: its one subfield.
LEMMA LabelMoveTold ==
  ASSUME NEW w, NEW a, NEW i, NEW d, TextState(w, a, i, d), a \in Program,
         NEW m \in LabelMoves(a), NEW f, m.fields = <<f>>, NEW j \in BOOLEAN, IntactAfter(j, i, f)
  PROVE  StaysTold(Subfield(w, f), m.air, j, DueAfter(d, j, f), w, a, i, d)
<1>1. AtPlace(a, Label)
  BY DEF TextState
<1>2. a.n > 1 \/ a.n = 1
  <2>1. a.label # None => a.n \in Nat \ {0}
    BY <1>1 DEF AtPlace
  <2> QED BY <1>1, <2>1 DEF AtPlace
<1>3. ASSUME NEW x, m = Move(<<x>>, m.air) PROVE f = x
  BY <1>3 DEF Move
<1>4. ASSUME NEW l \in LabelSent, a.n = 1, ~a.command,
             m = Move(<<LabelField(l, 1, 1)>>, Moved(a, l, 1, 1))
      PROVE  StaysTold(Subfield(w, f), m.air, j, DueAfter(d, j, f), w, a, i, d)
  <2>1. l \in Label /\ l \in Label \union ShortLabel
    BY DEF LabelSent
  <2>2. 1 \in Segment(l) /\ 1 \in 1 .. Characters[l][1]
    <3>1. 1 \in Segment(l)
      <4>1. Segment(l) = 1 .. Len(Characters[l]) /\ Len(Characters[l]) \in Nat \ {0}
        BY <2>1, SegmentsTyped
      <4> QED BY <4>1
    <3> QED BY <2>1, <3>1, SegmentLength
  <2>3. f = LabelField(l, 1, 1) /\ m.air = Moved(a, l, 1, 1)
    BY <1>4 DEF Move
  <2> QED BY <1>4, <2>1, <2>2, <2>3, CharacterTold
<1>5. ASSUME a.n = 1, m = Move(<<LabelField(None, 1, 1)>>,
                               [a EXCEPT !.label = None, !.segment = 1, !.command = TRUE])
      PROVE  StaysTold(Subfield(w, f), m.air, j, DueAfter(d, j, f), w, a, i, d)
  <2>1. f = LabelField(None, 1, 1) /\ m.air.label = None /\ m.air.n = 1
    BY <1>5 DEF Move, Program
  <2>2. f.label = None
    BY <2>1 DEF LabelField
  <2>3. ~j /\ DueAfter(d, j, f) = d
    BY <2>2 DEF IntactAfter, DueAfter
  <2> QED BY <1>5, <2>1, <2>3, CommandTold
<1>6. ASSUME a.label # None,
             m = Move(<<LabelField(a.label, a.segment, a.n)>>, Moved(a, a.label, a.segment, a.n))
      PROVE  StaysTold(Subfield(w, f), m.air, j, DueAfter(d, j, f), w, a, i, d)
  <2>1. /\ a.label \in Label /\ a.segment \in Segment(a.label) /\ ~a.command
        /\ a.n \in 1 .. Characters[a.label][a.segment]
    BY <1>1, <1>6 DEF AtPlace
  <2>2. f = LabelField(a.label, a.segment, a.n) /\ m.air = Moved(a, a.label, a.segment, a.n)
    BY <1>6 DEF Move
  <2> QED BY <2>1, <2>2, CharacterTold
<1>7. ASSUME a.command, m = Move(<<LabelField(None, 1, 2)>>, [a EXCEPT !.command = FALSE])
      PROVE  StaysTold(Subfield(w, f), m.air, j, DueAfter(d, j, f), w, a, i, d)
  <2>1. a.label = None /\ a.n = 1
    BY <1>1, <1>7 DEF AtPlace
  <2>2. f = LabelField(None, 1, 2) /\ m.air.label = None /\ m.air.n = 1
    BY <1>7, <2>1 DEF Move, Program
  <2>3. f.label = None
    BY <2>2 DEF LabelField
  <2>4. ~j /\ DueAfter(d, j, f) = d
    BY <2>3 DEF IntactAfter, DueAfter
  <2>5. 1 \in Nat
    OBVIOUS
  <2> QED BY <2>1, <2>2, <2>4, <2>5, CommandTold
<1> QED BY <1>2, <1>4, <1>5, <1>6, <1>7 DEF LabelMoves

\* What there is of labels is the same.
SameText(u, w) ==
  /\ u.pad.dynamicLabelText = w.pad.dynamicLabelText
  /\ u.static = w.static /\ u.shown = w.shown

SamePlace(b, a) ==
  b.label = a.label /\ b.segment = a.segment /\ b.n = a.n /\ b.command = a.command

LEMMA TextKept ==
  ASSUME NEW w, NEW a, NEW i, NEW d, TextState(w, a, i, d),
         NEW u \in PadWork, SameText(u, w), NEW b, SamePlace(b, a)
  PROVE  StaysTold(u, b, i, d, w, a, i, d)
<1>1. AtPlace(a, Label) => AtPlace(b, Label)
  BY DEF AtPlace, SamePlace
<1>2. Tracks(w, a, i) => Tracks(u, b, i)
  BY Zenon DEF Tracks, SameText, SamePlace
<1>3. TextAt(w, a.label, a.segment, a.n) => TextAt(u, b.label, b.segment, b.n)
  BY Zenon DEF TextAt, SameText, SamePlace
<1>4. b.label = a.label /\ u.shown = w.shown
  BY DEF SameText, SamePlace
<1>5. TextState(w, a, i, d) => TextState(u, b, i, d)
  BY <1>1, <1>2, <1>3, <1>4, Zenon DEF TextState
<1>6. Told(w, a, i, d) => Told(u, b, i, d)
  BY <1>2, <1>4, Zenon DEF Told
<1> QED BY <1>5, <1>6, Zenon DEF StaysTold

\* A record with the members of a padHandler, whatever they are.
Shaped(w) ==
  /\ \A x \in {"pad", "static", "shown", "handed"} : x \in DOMAIN w
  /\ \A x \in {"dynamicLabelText", "currentSlide", "mscGroupElement", "xpadLength",
               "dataGroupLength", "msc_dataGroupBuffer", "still_to_go", "lastSegment",
               "firstSegment", "shortpadData"} : x \in DOMAIN w.pad

LEMMA WorkShaped == ASSUME NEW w \in PadWork PROVE Shaped(w)
BY DEF PadWork, PadMembers, Shaped

\* Data groups: one member of padHandler, or two, and what is handed over.
KeepsText(u, w) == Shaped(u) /\ SameText(u, w)

LEMMA KeepsMore ==
  ASSUME NEW u, NEW v, NEW w, KeepsText(u, v), KeepsText(v, w) PROVE KeepsText(u, w)
BY DEF KeepsText, SameText

LEMMA BufferText ==
  ASSUME NEW w, Shaped(w), NEW x, NEW y
  PROVE  /\ KeepsText([w EXCEPT !.pad.msc_dataGroupBuffer = x], w)
         /\ KeepsText([w EXCEPT !.pad.msc_dataGroupBuffer = x, !.pad.mscGroupElement = y], w)
         /\ KeepsText([w EXCEPT !.pad.currentSlide = x], w)
         /\ KeepsText([w EXCEPT !.pad.dataGroupLength = x], w)
         /\ KeepsText([w EXCEPT !.pad.xpadLength = x], w)
<1> DEFINE v == [w EXCEPT !.pad.msc_dataGroupBuffer = x]
<1>1. KeepsText(v, w)
  BY DEF KeepsText, SameText, Shaped
<1>2. [w EXCEPT !.pad.msc_dataGroupBuffer = x, !.pad.mscGroupElement = y]
        = [v EXCEPT !.pad.mscGroupElement = y]
  OBVIOUS
<1> HIDE DEF v
<1>3. KeepsText([v EXCEPT !.pad.mscGroupElement = y], v)
  BY <1>1 DEF KeepsText, SameText, Shaped
<1>4. KeepsText([v EXCEPT !.pad.mscGroupElement = y], w)
  BY <1>1, <1>3, KeepsMore
<1>5. KeepsText([w EXCEPT !.pad.currentSlide = x], w)
  BY DEF KeepsText, SameText, Shaped
<1>6. KeepsText([w EXCEPT !.pad.dataGroupLength = x], w)
  BY DEF KeepsText, SameText, Shaped
<1>7. KeepsText([w EXCEPT !.pad.xpadLength = x], w)
  BY DEF KeepsText, SameText, Shaped
<1> QED BY <1>1, <1>2, <1>4, <1>5, <1>6, <1>7 DEF v

LEMMA SlideText ==
  ASSUME NEW w, Shaped(w), NEW g
  PROVE  KeepsText(Slide(w, g), w)
<1> DEFINE slide == w.pad.currentSlide
           r == addBodySegment(slide, g)
           list == IF r.handed = None THEN w.handed ELSE Append(w.handed, r.handed)
           v == [w EXCEPT !.pad.currentSlide = r.object]
<1>1. KeepsText([w EXCEPT !.pad.currentSlide = motObject(g.id)], w)
  BY BufferText
<1>2. KeepsText(w, w)
  BY DEF KeepsText, SameText
<1>3. \/ Slide(w, g) = [w EXCEPT !.pad.currentSlide = motObject(g.id)]
      \/ Slide(w, g) = [w EXCEPT !.pad.currentSlide = r.object, !.handed = list]
      \/ Slide(w, g) = w
  BY DEF Slide
<1> HIDE DEF r, list
<1>4. [w EXCEPT !.pad.currentSlide = r.object, !.handed = list] = [v EXCEPT !.handed = list]
  OBVIOUS
<1>5. KeepsText(v, w)
  BY BufferText
<1> HIDE DEF v
<1>6. KeepsText([v EXCEPT !.handed = list], v)
  BY <1>5 DEF KeepsText, SameText, Shaped
<1>7. KeepsText([v EXCEPT !.handed = list], w)
  BY <1>5, <1>6, KeepsMore
<1> QED BY <1>1, <1>2, <1>3, <1>4, <1>7

LEMMA GroupText ==
  ASSUME NEW w, Shaped(w), NEW units
  PROVE  KeepsText(new_MSC_element(w, units), w) /\ KeepsText(add_MSC_element(w, units), w)
<1> DEFINE v == [w EXCEPT !.pad.msc_dataGroupBuffer = <<>>, !.pad.mscGroupElement = FALSE]
           y == [w EXCEPT !.pad.msc_dataGroupBuffer = units, !.pad.mscGroupElement = TRUE]
           buffer == w.pad.msc_dataGroupBuffer \o units
           z == [w EXCEPT !.pad.msc_dataGroupBuffer = buffer]
           x == build_MSC_segment(w, buffer)
           end == [x EXCEPT !.pad.msc_dataGroupBuffer = <<>>]
<1>1. KeepsText(w, w)
  BY DEF KeepsText, SameText
<1>2. KeepsText(v, w) /\ KeepsText(y, w)
  BY BufferText
<1>3. KeepsText(z, w)
  <2> HIDE DEF buffer
  <2> QED BY BufferText
<1>4. ASSUME NEW b, Shaped(b), NEW taken PROVE KeepsText(build_MSC_segment(b, taken), b)
  <2>1. \/ \E g : build_MSC_segment(b, taken) = Slide(b, g)
        \/ build_MSC_segment(b, taken) = b
    BY DEF build_MSC_segment
  <2>2. KeepsText(b, b)
    BY <1>4 DEF KeepsText, SameText
  <2> QED BY <1>4, <2>1, <2>2, SlideText
<1>5. \/ new_MSC_element(w, units) = build_MSC_segment(v, units)
      \/ new_MSC_element(w, units) = y
  BY DEF new_MSC_element
<1>6. add_MSC_element(w, units) \in {w, z, end}
  BY DEF add_MSC_element
<1>7. KeepsText(x, w)
  <2> HIDE DEF buffer
  <2> QED BY <1>4
<1> HIDE DEF v, y, z, buffer, x
<1>8. KeepsText(end, w)
  <2>1. KeepsText(end, x)
    BY <1>7, BufferText DEF KeepsText
  <2> HIDE DEF end
  <2> QED BY <1>7, <2>1, KeepsMore
<1> HIDE DEF end
<1>9. KeepsText(build_MSC_segment(v, units), w)
  <2>1. Shaped(v)
    BY <1>2 DEF KeepsText
  <2>2. KeepsText(build_MSC_segment(v, units), v)
    BY <1>4, <2>1
  <2> QED BY <1>2, <2>2, KeepsMore
<1> QED BY <1>1, <1>2, <1>3, <1>5, <1>6, <1>8, <1>9
-----------------------------------------------------------------------------
(* Moves and the text.                                                     *)

\* From w, where the broadcaster is at a and knows c, to u, where it is at b and knows e.
Goes(u, b, e, w, a, c) == e \in Program /\ StaysTold(u, b, e.intact, e.due, w, a, c.intact, c.due)

TextKnown(w, a, c) == c \in Program /\ TextState(w, a, c.intact, c.due)

LEMMA GoesKnown ==
  ASSUME NEW u, NEW b, NEW e, NEW w, NEW a, NEW c, Goes(u, b, e, w, a, c)
  PROVE  TextKnown(u, b, e)
BY Zenon DEF Goes, TextKnown, StaysTold

LEMMA GoesMore ==
  ASSUME NEW u, NEW b, NEW e, NEW w, NEW a, NEW c, Goes(u, b, e, w, a, c),
         NEW x, NEW y, NEW z, Goes(x, y, z, u, b, e)
  PROVE  Goes(x, y, z, w, a, c)
BY Zenon DEF Goes, StaysTold

LEMMA GroupCame ==
  ASSUME NEW b \in Program, NEW f, IsField(f), f.ci \in {1, 12, 13}, NEW got \in BOOLEAN
  PROVE  /\ Came(b, f, got) \in Program
         /\ Came(b, f, got).intact = b.intact /\ Came(b, f, got).due = b.due
<1>1. Came(b, f, got) \in Program
  BY CameClosed
<1>2. CASE f.ci = 1
  BY <1>1, <1>2 DEF Came
<1>3. CASE f.ci \in {12, 13}
  <2> DEFINE e == got /\ (b.entire \/ f.ci = 12)
             d == IF e /\ f.unit.n = GroupUnits[f.unit.group]
                  THEN Append(b.arrived, f.unit.group) ELSE b.arrived
             c == [b EXCEPT !.entire = e, !.arrived = d]
  <2>1. Came(b, f, got) = c
    BY <1>3 DEF Came
  <2> HIDE DEF e, d
  <2>2. c.intact = b.intact /\ c.due = b.due
    BY DEF Program
  <2> HIDE DEF c
  <2> QED BY <1>1, <2>1, <2>2
<1> QED BY <1>2, <1>3

\* A subfield of a data group, handled or not.
LEMMA GroupFieldGoes ==
  ASSUME NEW w, NEW a, NEW c, TextKnown(w, a, c), NEW f, IsField(f), f.ci \in {1, 12, 13},
         NEW got \in BOOLEAN
  PROVE  /\ Goes(Subfield(w, f), a, Came(c, f, got), w, a, c)
         /\ Goes(w, a, Came(c, f, got), w, a, c)
<1> DEFINE u == Subfield(w, f)
           e == Came(c, f, got)
<1>1. w \in PadWork /\ c \in Program /\ TextState(w, a, c.intact, c.due)
  BY DEF TextKnown, TextState
<1>2. e \in Program /\ e.intact = c.intact /\ e.due = c.due
  BY <1>1, GroupCame
<1>3. u \in PadWork
  BY <1>1, SubfieldClosed
<1>4. KeepsText(u, w)
  <2>1. Shaped(w)
    BY <1>1, WorkShaped
  <2>2. CASE f.ci = 1
    <3>1. Subfield(w, f) = [w EXCEPT !.pad.dataGroupLength = f.length]
      BY <2>2 DEF Subfield
    <3> QED BY <2>1, <3>1, BufferText
  <2>3. CASE f.ci \in {12, 13}
    BY <2>1, <2>3, GroupText DEF Subfield
  <2> QED BY <2>2, <2>3
<1> HIDE DEF u, e
<1>5. SamePlace(a, a) /\ SameText(w, w) /\ SameText(u, w)
  BY <1>4 DEF SamePlace, SameText, KeepsText
<1>6. StaysTold(u, a, c.intact, c.due, w, a, c.intact, c.due)
  BY <1>1, <1>3, <1>5, TextKept
<1>7. StaysTold(w, a, c.intact, c.due, w, a, c.intact, c.due)
  BY <1>1, <1>5, TextKept
<1>8. Goes(u, a, e, w, a, c) /\ Goes(w, a, e, w, a, c)
  BY <1>2, <1>6, <1>7, Zenon DEF Goes
<1> QED BY <1>8 DEF u, e

\* The broadcaster goes on elsewhere.
LEMMA PlaceGoes ==
  ASSUME NEW w, NEW a, NEW c, TextKnown(w, a, c), NEW b, SamePlace(b, a)
  PROVE  Goes(w, b, c, w, a, c)
<1>1. w \in PadWork /\ c \in Program /\ TextState(w, a, c.intact, c.due)
  BY DEF TextKnown, TextState
<1>2. SameText(w, w)
  BY DEF SameText
<1>3. StaysTold(w, b, c.intact, c.due, w, a, c.intact, c.due)
  BY <1>1, <1>2, TextKept
<1> QED BY <1>1, <1>3, Zenon DEF Goes

\* A move of a data group, or of nothing.
IsGroupMove(m, a) ==
  /\ SamePlace(m.air, a)
  /\ Len(m.fields) \in 1 .. 2
  /\ \A i \in 1 .. Len(m.fields) : m.fields[i].ci \in {1, 12, 13}

LEMMA GroupMoveKind ==
  ASSUME NEW a \in Program, OnAir(a), NEW m \in GroupMoves(a)
  PROVE  IsGroupMove(m, a)
<1>1. ASSUME NEW g, NEW n PROVE SamePlace(MovedUnit(a, g, n), a)
  BY DEF Program, MovedUnit, SamePlace
<1>2. CASE a.group = None
  <2>1. PICK g \in PadGroup :
          m = Move(<<[ci |-> 1, length |-> GroupUnits[g]], UnitField(g, 1, a.index)>>,
                   MovedUnit(a, g, 1))
    BY <1>2 DEF GroupMoves
  <2> DEFINE f == [ci |-> 1, length |-> GroupUnits[g]]
             h == UnitField(g, 1, a.index)
  <2>2. f.ci = 1 /\ h.ci = 12
    BY DEF UnitField
  <2> HIDE DEF f, h
  <2>3. m.fields = <<f, h>> /\ m.air = MovedUnit(a, g, 1)
    BY <2>1 DEF Move, f, h
  <2> QED BY <1>1, <2>2, <2>3 DEF IsGroupMove
<1>3. CASE a.group # None
  <2> DEFINE h == UnitField(a.group, a.unit, a.index)
  <2>1. h.ci \in {12, 13}
    BY DEF UnitField
  <2>2. m.fields = <<h>> /\ m.air = MovedUnit(a, a.group, a.unit)
    BY <1>3 DEF GroupMoves, Move
  <2> HIDE DEF h
  <2> QED BY <1>1, <2>1, <2>2 DEF IsGroupMove
<1> QED BY <1>2, <1>3

LEMMA GroupMoveGoes ==
  ASSUME NEW k, NEW c, NEW p \in Nat, NEW a, TextKnown(k[p], a, c[p]), NEW m, IsGroupMove(m, a),
         \A i \in 1 .. Len(m.fields) : IsField(m.fields[i]),
         NEW got \in Int, TakenHere(k, c, p, m.fields, got)
  PROVE  Goes(k[p + Len(m.fields)], m.air, c[p + Len(m.fields)], k[p], a, c[p])
<1> DEFINE n == Len(m.fields)
           q == p + n
<1>1. ASSUME NEW j \in 1 .. n, TextKnown(k[p + j - 1], a, c[p + j - 1])
      PROVE  Goes(k[p + j], a, c[p + j], k[p + j - 1], a, c[p + j - 1])
  <2> DEFINE f == m.fields[j]
             got0 == p + j <= got
  <2>1. k[p + j] = Subfield(k[p + j - 1], f) /\ c[p + j] = Came(c[p + j - 1], f, got0)
    BY DEF TakenHere
  <2>2. IsField(f) /\ f.ci \in {1, 12, 13} /\ got0 \in BOOLEAN
    BY DEF IsGroupMove
  <2> HIDE DEF f, got0
  <2> QED BY <1>1, <2>1, <2>2, GroupFieldGoes
<1>2. Goes(k[q], a, c[q], k[p], a, c[p])
  <2>1. n = 1 \/ n = 2
    BY DEF IsGroupMove
  <2>2. Goes(k[p + 1], a, c[p + 1], k[p], a, c[p])
    <3>1. 1 \in 1 .. n /\ p + 1 - 1 = p
      BY <2>1
    <3> HIDE DEF n
    <3> QED BY <1>1, <3>1
  <2>3. CASE n = 2
    <3>1. 2 \in 1 .. n /\ p + 2 - 1 = p + 1
      BY <2>3
    <3>2. TextKnown(k[p + 1], a, c[p + 1])
      BY <2>2, GoesKnown
    <3> HIDE DEF n
    <3>3. Goes(k[p + 2], a, c[p + 2], k[p + 1], a, c[p + 1])
      BY <1>1, <3>1, <3>2
    <3> QED BY <2>2, <2>3, <3>3, GoesMore
  <2> QED BY <2>1, <2>2, <2>3
<1> HIDE DEF q
<1>3. Goes(k[q], m.air, c[q], k[q], a, c[q])
  <2>1. TextKnown(k[q], a, c[q]) /\ SamePlace(m.air, a)
    BY <1>2, GoesKnown DEF IsGroupMove
  <2> QED BY <2>1, PlaceGoes
<1>4. Goes(k[q], m.air, c[q], k[p], a, c[p])
  BY <1>2, <1>3, GoesMore
<1> QED BY <1>4 DEF q

LEMMA LabelMoveFields ==
  ASSUME NEW a \in Program, LabelOK(a, Label), NEW m \in LabelMoves(a)
  PROVE  \E f : m.fields = <<f>> /\ IsField(f) /\ f.ci \in {2, 3}
BY LabelMoveKinds DEF IsLabelMove

\* What came of a subfield of a label that came.
CameSo(c, b, f) ==
  /\ c.intact \in BOOLEAN /\ IntactAfter(c.intact, b.intact, f)
  /\ c.due = DueAfter(b.due, c.intact, f)

LEMMA LabelFieldGoes ==
  ASSUME NEW w, NEW a \in Program, LabelOK(a, Label), NEW b, TextKnown(w, a, b),
         NEW m \in LabelMoves(a), NEW f, m.fields = <<f>>, IsField(f), f.ci \in {2, 3},
         NEW got \in BOOLEAN, NEW e, e = Came(b, f, got)
  PROVE  got => Goes(Subfield(w, f), m.air, e, w, a, b)
<1>1. b \in Program /\ TextState(w, a, b.intact, b.due)
  BY DEF TextKnown
<1>2. got => CameSo(e, b, f)
  <2>1. CameText(e, b, f, got)
    BY <1>1, LabelCame
  <2> QED BY <2>1, Zenon DEF CameText, IntactAfter, DueAfter, CameSo
<1>3. CameSo(e, b, f) => Goes(Subfield(w, f), m.air, e, w, a, b)
  <2> SUFFICES ASSUME CameSo(e, b, f) PROVE Goes(Subfield(w, f), m.air, e, w, a, b)
    OBVIOUS
  <2>1. e.intact \in BOOLEAN /\ IntactAfter(e.intact, b.intact, f)
          /\ e.due = DueAfter(b.due, e.intact, f)
    BY Zenon DEF CameSo
  <2>2. StaysTold(Subfield(w, f), m.air, e.intact, DueAfter(b.due, e.intact, f),
                  w, a, b.intact, b.due)
    BY <1>1, <2>1, LabelMoveTold
  <2>3. e \in Program
    BY <1>1, CameClosed
  <2> QED BY <2>1, <2>2, <2>3, Zenon DEF Goes
<1> QED BY <1>2, <1>3, Zenon

LEMMA LabelMoveGoes ==
  ASSUME NEW k, NEW c, NEW p \in Nat, NEW a \in Program, LabelOK(a, Label),
         TextKnown(k[p], a, c[p]), NEW m \in LabelMoves(a), NEW got \in Int,
         TakenHere(k, c, p, m.fields, got), p + Len(m.fields) <= got
  PROVE  Goes(k[p + Len(m.fields)], m.air, c[p + Len(m.fields)], k[p], a, c[p])
<1>1. PICK f : m.fields = <<f>> /\ IsField(f) /\ f.ci \in {2, 3}
  BY LabelMoveFields
<1>2. Len(m.fields) = 1 /\ m.fields[1] = f /\ 1 \in 1 .. Len(m.fields)
  BY <1>1
<1> DEFINE got0 == p + 1 <= got
           u == k[p + 1]
           e == c[p + 1]
<1>3. u = Subfield(k[p], f) /\ e = Came(c[p], f, got0)
  <2>1. p + 1 - 1 = p
    OBVIOUS
  <2> QED BY <1>2, <2>1 DEF TakenHere
<1>4. got0 \in BOOLEAN /\ TextKnown(k[p], a, c[p])
  OBVIOUS
<1>5. p + 1 <= got
  BY <1>2
<1>6. p + 1 <= got => got0
  OBVIOUS
<1> HIDE DEF got0, u, e
<1>7. got0 => Goes(Subfield(k[p], f), m.air, e, k[p], a, c[p])
  BY <1>1, <1>3, <1>4, LabelFieldGoes
<1>8. Goes(u, m.air, e, k[p], a, c[p])
  BY <1>3, <1>5, <1>6, <1>7, Zenon
<1> QED BY <1>2, <1>8 DEF u, e

LEMMA MoveGoes ==
  ASSUME NEW k, NEW c, NEW p \in Nat, NEW a \in Program, LabelOK(a, Label), OnAir(a),
         TextKnown(k[p], a, c[p]), NEW m \in Moves(a), ~IsOtherMove(m, a), NEW got \in Int,
         TakenHere(k, c, p, m.fields, got), p + Len(m.fields) <= got
  PROVE  Goes(k[p + Len(m.fields)], m.air, c[p + Len(m.fields)], k[p], a, c[p])
<1>1. CASE m \in LabelMoves(a)
  BY <1>1, LabelMoveGoes
<1>2. CASE m \in GroupMoves(a)
  <2>1. IsGroupMove(m, a)
    BY <1>2, GroupMoveKind
  <2>2. \A i \in 1 .. Len(m.fields) : IsField(m.fields[i])
    BY MoveFields DEF MoveFieldsOK
  <2> QED BY <2>1, <2>2, GroupMoveGoes
<1>3. CASE m = Move(<<[ci |-> 0]>>, a)
  BY <1>3 DEF Move, IsOtherMove
<1> QED BY <1>1, <1>2, <1>3 DEF Moves

\* A part of a label is lost while none came whole in the same PAD.
LEMMA LabelMoveUntold ==
  ASSUME NEW w, NEW a \in Program, LabelOK(a, Label), NEW b, TextKnown(w, a, b), b.due = <<>>,
         NEW m \in LabelMoves(a), NEW f, m.fields = <<f>>, IsField(f), f.ci \in {2, 3},
         NEW got \in BOOLEAN, ~got, NEW e, e = Came(b, f, got)
  PROVE  TextKnown(w, m.air, e) /\ e.due = <<>>
<1>1. b \in Program /\ TextState(w, a, b.intact, b.due)
  BY DEF TextKnown
<1>2. CameText(e, b, f, got) /\ e \in Program
  BY <1>1, LabelCame, CameClosed
<1>3. ~e.intact /\ e.intact \in BOOLEAN /\ e.due = <<>>
  BY <1>1, <1>2, Zenon DEF CameText
<1>4. AtPlace(m.air, Label)
  <2> DEFINE j == f.label # None /\ (b.intact \/ (f.segment = 1 /\ f.n = 1))
  <2>1. j \in BOOLEAN /\ IntactAfter(j, b.intact, f)
    BY DEF IntactAfter
  <2> HIDE DEF j
  <2>2. StaysTold(Subfield(w, f), m.air, j, DueAfter(b.due, j, f), w, a, b.intact, b.due)
    BY <1>1, <2>1, LabelMoveTold
  <2> QED BY <2>2, Zenon DEF StaysTold, TextState
<1>5. w \in PadWork /\ <<>> \in Seq(Label \union ShortLabel)
  BY <1>1 DEF TextState
<1>6. Range(Texts(<<>>)) \subseteq Range(w.shown)
  BY TextsNone
<1>7. TextState(w, m.air, e.intact, e.due)
  BY <1>3, <1>4, <1>5, <1>6, Zenon DEF TextState
<1> QED BY <1>2, <1>3, <1>7, Zenon DEF TextKnown

SameCame(e, b) == e \in Program /\ e.intact = b.intact /\ e.due = b.due

LEMMA SameCameMore ==
  ASSUME NEW c, NEW p \in Nat, c[p] \in Program, NEW n \in 1 .. 2,
         \A j \in 1 .. n : c[p + j - 1] \in Program => SameCame(c[p + j], c[p + j - 1])
  PROVE  SameCame(c[p + n], c[p])
<1>1. n = 1 \/ n = 2
  OBVIOUS
<1>2. SameCame(c[p + 1], c[p])
  <2>1. 1 \in 1 .. n /\ p + 1 - 1 = p
    BY <1>1
  <2> QED BY <2>1
<1>3. CASE n = 2
  <2>1. 2 \in 1 .. n /\ p + 2 - 1 = p + 1
    BY <1>3
  <2>2. SameCame(c[p + 2], c[p + 1])
    BY <1>2, <2>1 DEF SameCame
  <2> QED BY <1>2, <1>3, <2>2 DEF SameCame
<1> QED BY <1>1, <1>2, <1>3

\* What is not handled: all of a move, or an application that padHandler does not know.
LEMMA MoveUntold ==
  ASSUME NEW w, NEW c, NEW p \in Nat, NEW a \in Program, LabelOK(a, Label), OnAir(a),
         TextKnown(w, a, c[p]), NEW m \in Moves(a), c[p].due = <<>> \/ IsOtherMove(m, a),
         NEW got \in Int, got <= p, Passed(c, p, m.fields, got)
  PROVE  /\ TextKnown(w, m.air, c[p + Len(m.fields)])
         /\ c[p].due = <<>> => c[p + Len(m.fields)].due = <<>>
<1>1. c[p] \in Program
  BY DEF TextKnown
<1>2. CASE IsOtherMove(m, a)
  <2> DEFINE f == [ci |-> 0]
  <2>1. m.fields = <<f>> /\ m.air = a
    BY <1>2 DEF IsOtherMove
  <2>2. f.ci = 0
    OBVIOUS
  <2> HIDE DEF f
  <2>3. Len(m.fields) = 1 /\ m.fields[1] = f /\ p + 1 - 1 = p /\ 1 \in 1 .. Len(m.fields)
    BY <2>1
  <2>4. c[p + 1] = Came(c[p], f, p + 1 <= got)
    BY <2>3 DEF Passed
  <2>5. c[p + 1] = c[p]
    BY <2>2, <2>4 DEF Came
  <2> QED BY <2>1, <2>3, <2>5
<1>3. CASE m \in LabelMoves(a) /\ c[p].due = <<>>
  <2>1. PICK f : m.fields = <<f>> /\ IsField(f) /\ f.ci \in {2, 3}
    BY <1>3, LabelMoveFields
  <2>2. Len(m.fields) = 1 /\ m.fields[1] = f /\ p + 1 - 1 = p /\ 1 \in 1 .. Len(m.fields)
    BY <2>1
  <2> DEFINE got0 == p + 1 <= got
             e == c[p + 1]
  <2>3. ~got0 /\ got0 \in BOOLEAN
    OBVIOUS
  <2>4. e = Came(c[p], f, got0)
    BY <2>2 DEF Passed
  <2> HIDE DEF got0, e
  <2>5. TextKnown(w, m.air, e) /\ e.due = <<>>
    BY <1>3, <2>1, <2>3, <2>4, LabelMoveUntold
  <2> QED BY <2>2, <2>5 DEF e
<1>4. CASE m \in GroupMoves(a)
  <2>1. IsGroupMove(m, a)
    BY <1>4, GroupMoveKind
  <2>2. \A i \in 1 .. Len(m.fields) : IsField(m.fields[i]) /\ m.fields[i].ci \in {1, 12, 13}
    BY <2>1, MoveFields DEF MoveFieldsOK, IsGroupMove
  <2> DEFINE n == Len(m.fields)
  <2>3. ASSUME NEW j \in 1 .. n, c[p + j - 1] \in Program
        PROVE  SameCame(c[p + j], c[p + j - 1])
    <3> DEFINE f == m.fields[j]
               got0 == p + j <= got
    <3>1. c[p + j] = Came(c[p + j - 1], f, got0)
      BY DEF Passed
    <3>2. IsField(f) /\ f.ci \in {1, 12, 13} /\ got0 \in BOOLEAN
      BY <2>2
    <3> HIDE DEF f, got0
    <3> QED BY <2>3, <3>1, <3>2, GroupCame DEF SameCame
  <2> DEFINE e == c[p + n]
  <2>4. SameCame(e, c[p])
    <3>1. n \in 1 .. 2
      BY <2>1 DEF IsGroupMove
    <3> HIDE DEF n
    <3> QED BY <1>1, <2>3, <3>1, SameCameMore
  <2> HIDE DEF e
  <2>5. TextKnown(w, m.air, c[p])
    BY <2>1, PlaceGoes, GoesKnown DEF IsGroupMove
  <2>6. TextKnown(w, m.air, e)
    BY <2>4, <2>5, Zenon DEF TextKnown, SameCame
  <2> QED BY <2>4, <2>6 DEF e, SameCame
<1>5. m = Move(<<[ci |-> 0]>>, a) => IsOtherMove(m, a)
  BY DEF Move, IsOtherMove
<1> QED BY <1>2, <1>3, <1>4, <1>5 DEF Moves

-----------------------------------------------------------------------------
(* A PAD with CI and the text.                                             *)

\* From w, where the broadcaster is at a and knows b: after the subfields, whether they
\* were handled or lost.
TextCame(w, a, b, fields, air) ==
  LET n == Len(fields)
      handled == HandledOf(fields) IN
  /\ \A c : Comes(c, n, b, fields, 0) => TextKnown(w, air, c[n])
  /\ \A c : Comes(c, n, b, fields, Len(handled)) =>
       /\ TextKnown(FoldLeft(Subfield, w, handled), air, c[n])
       /\ Len(handled) = n => Goes(FoldLeft(Subfield, w, handled), air, c[n], w, a, b)

LEMMA NoneHandled ==
  ASSUME NEW w \in PadWork, NEW V, NEW fields \in Seq(V), 1 \in 1 .. Len(fields), fields[1].ci = 0
  PROVE  HandledOf(fields) = <<>> /\ FoldLeft(Subfield, w, <<>>) = w
<1>1. HandledOf(fields) = SubSeq(fields, 1, 1 - 1)
  <2>1. \A i \in 1 .. 1 - 1 : fields[i].ci # 0
    OBVIOUS
  <2> QED BY <2>1, SomeHandled
<1>2. SubSeq(fields, 1, 1 - 1) = <<>>
  OBVIOUS
<1>3. \E k : Handles(k, 0, w, <<>>) /\ FoldLeft(Subfield, w, <<>>) = k[0]
  <2>1. DOMAIN <<>> = 1 .. 0 /\ 0 \in Nat /\ \A i \in 1 .. 0 : IsField(<<>>[i]) /\ <<>>[i].ci # 0
    OBVIOUS
  <2> QED BY <2>1, SubfieldsHandled
<1> QED BY <1>1, <1>2, <1>3 DEF Handles

\* Of one move nothing is handled.
LEMMA OneMoveUntold ==
  ASSUME NEW w, NEW a \in Program, LabelOK(a, Label), OnAir(a), NEW b, TextKnown(w, a, b),
         b.due = <<>>, NEW x \in Moves(a), NEW c, Comes(c, Len(x.fields), b, x.fields, 0)
  PROVE  TextKnown(w, x.air, c[Len(x.fields)])
<1> DEFINE n == Len(x.fields)
<1>1. n \in Nat
  BY MoveFields DEF MoveFieldsOK
<1>2. c[0] = b /\ Passed(c, 0, x.fields, 0)
  <2>1. \A j \in 1 .. n : 0 + j = j /\ 0 + j - 1 = j - 1
    BY <1>1
  <2> QED BY <2>1 DEF Comes, Passed
<1> HIDE DEF n
<1>3. PICK p \in Nat : p = 0
  OBVIOUS
<1>4. TextKnown(w, a, c[p]) /\ c[p].due = <<>> /\ Passed(c, p, x.fields, p) /\ p <= p /\ p \in Int
  BY <1>2, <1>3
<1>5. TextKnown(w, x.air, c[p + n])
  BY <1>4, MoveUntold DEF n
<1>6. p + n = n
  BY <1>1, <1>3
<1> QED BY <1>5, <1>6, Zenon DEF n

LEMMA OneMoveText ==
  ASSUME NEW w, NEW a \in Program, LabelOK(a, Label), OnAir(a), NEW b, TextKnown(w, a, b),
         b.due = <<>>, NEW x \in Moves(a)
  PROVE  TextCame(w, a, b, x.fields, x.air)
<1> DEFINE fields == x.fields
           n == Len(fields)
           handled == HandledOf(fields)
           u == FoldLeft(Subfield, w, handled)
<1>1. w \in PadWork
  BY DEF TextKnown, TextState
<1>2. /\ MoveFieldsOK(x)
      /\ ~IsOtherMove(x, a) => \A i \in 1 .. n : fields[i].ci # 0
      /\ IsOtherMove(x, a) => fields[1].ci = 0
  BY MoveFields
<1>3. n \in 1 .. 2 /\ n \in Nat /\ DOMAIN fields = 1 .. n /\ \A i \in 1 .. n : IsField(fields[i])
  BY <1>2 DEF MoveFieldsOK
<1>4. ASSUME NEW c, Comes(c, n, b, fields, 0) PROVE TextKnown(w, x.air, c[n])
  BY <1>4, OneMoveUntold
<1>5. ASSUME NEW c, Comes(c, n, b, fields, Len(handled))
      PROVE  /\ TextKnown(u, x.air, c[n])
             /\ Len(handled) = n => Goes(u, x.air, c[n], w, a, b)
  <2>1. CASE IsOtherMove(x, a)
    <3>1. handled = <<>> /\ u = w /\ Len(handled) = 0
      <4>1. fields \in Seq({fields[i] : i \in 1 .. n})
        <5>1. \A i \in 1 .. n : fields[i] \in {fields[j] : j \in 1 .. n}
          OBVIOUS
        <5> QED BY <1>2, <5>1 DEF MoveFieldsOK
      <4>2. 1 \in 1 .. Len(fields) /\ fields[1].ci = 0
        BY <1>2, <1>3, <2>1
      <4> HIDE DEF fields
      <4>3. handled = <<>> /\ FoldLeft(Subfield, w, <<>>) = w
        BY <1>1, <4>1, <4>2, NoneHandled
      <4> QED BY <4>3
    <3> HIDE DEF u, handled, n, fields
    <3> QED BY <1>3, <1>4, <1>5, <3>1
  <2>2. CASE ~IsOtherMove(x, a)
    <3>1. handled = fields
      <4>1. \A i \in DOMAIN fields : fields[i].ci # 0
        BY <1>2, <1>3, <2>2
      <4> HIDE DEF fields
      <4> QED BY <4>1, AllHandled
    <3>2. PICK k : Handles(k, n, w, fields) /\ FoldLeft(Subfield, w, fields) = k[n]
      <4>1. \A i \in 1 .. n : IsField(fields[i]) /\ fields[i].ci # 0
        BY <1>2, <1>3, <2>2
      <4> HIDE DEF fields, n
      <4> QED BY <1>1, <1>3, <4>1, SubfieldsHandled
    <3>3. TakenHere(k, c, 0, fields, n) /\ c[0] = b /\ k[0] = w
      <4>1. \A j \in 1 .. n : 0 + j = j /\ 0 + j - 1 = j - 1
        BY <1>3
      <4>2. Comes(c, n, b, fields, n)
        BY <1>5, <3>1
      <4> HIDE DEF fields
      <4> QED BY <3>2, <4>1, <4>2 DEF Comes, Handles, TakenHere
    <3>4. Goes(k[n], x.air, c[n], w, a, b)
      <4>1. PICK p \in Nat : p = 0
        OBVIOUS
      <4>2. TextKnown(k[p], a, c[p]) /\ TakenHere(k, c, p, fields, n) /\ p + n <= n /\ n \in Int
        BY <1>3, <3>3, <4>1
      <4>3. Goes(k[p + n], x.air, c[p + n], k[p], a, c[p])
        BY <2>2, <4>2, MoveGoes
      <4>4. p + n = n
        BY <1>3, <4>1
      <4> QED BY <3>3, <4>1, <4>3, <4>4, Zenon
    <3>5. u = k[n]
      BY <3>1, <3>2
    <3>6. Goes(u, x.air, c[n], w, a, b)
      BY <3>4, <3>5, Zenon
    <3> QED BY <3>6, GoesKnown
  <2> QED BY <2>1, <2>2
<1> QED BY <1>4, <1>5, Zenon DEF TextCame

\* Of two moves the first, or both, are not handled.
LEMMA TwoMovesUntold ==
  ASSUME NEW w, NEW a \in Program, LabelOK(a, Label), OnAir(a), NEW b, TextKnown(w, a, b),
         b.due = <<>>, NEW x \in Moves(a), NEW y \in Moves(x.air), NEW c,
         Comes(c, Len(x.fields) + Len(y.fields), b, x.fields \o y.fields, 0)
  PROVE  TextKnown(w, y.air, c[Len(x.fields) + Len(y.fields)])
<1> DEFINE n == Len(x.fields)
<1>1. x.air \in Program /\ LabelOK(x.air, Label) /\ OnAir(x.air)
  BY MoveAir
<1>2. MoveFieldsOK(x) /\ MoveFieldsOK(y)
  BY <1>1, MoveFields
<1>3. n \in Nat /\ 0 \in Int
  BY <1>2 DEF MoveFieldsOK
<1>4. c[0] = b /\ Passed(c, 0, x.fields, 0) /\ Passed(c, n, y.fields, 0)
  BY <1>2, <1>3, PassedBoth DEF PassesBoth
<1> HIDE DEF n
<1>5. TextKnown(w, x.air, c[n]) /\ c[n].due = <<>>
  <2>1. PICK p \in Nat : p = 0
    OBVIOUS
  <2>2. /\ TextKnown(w, a, c[p]) /\ c[p].due = <<>> /\ Passed(c, p, x.fields, p) /\ p <= p
        /\ p \in Int
    BY <1>4, <2>1
  <2>3. TextKnown(w, x.air, c[p + n]) /\ c[p + n].due = <<>>
    BY <2>2, MoveUntold DEF n
  <2>4. p + n = n
    BY <1>3, <2>1
  <2> QED BY <2>3, <2>4, Zenon
<1>6. TextKnown(w, y.air, c[n + Len(y.fields)])
  <2>1. 0 <= n
    BY <1>3
  <2> QED BY <1>1, <1>3, <1>4, <1>5, <2>1, MoveUntold
<1> QED BY <1>6 DEF n

\* The first of two moves is handled.
LEMMA FirstTold ==
  ASSUME NEW w, NEW a \in Program, LabelOK(a, Label), OnAir(a), NEW b, TextKnown(w, a, b),
         NEW x \in Moves(a), NEW y \in Moves(x.air), ~IsOtherMove(x, a), NEW c, NEW k,
         NEW got \in Int, Len(x.fields) <= got,
         Comes(c, Len(x.fields) + Len(y.fields), b, x.fields \o y.fields, got),
         k[0] = w, TakenHere(k, c, 0, x.fields, got)
  PROVE  /\ Goes(k[Len(x.fields)], x.air, c[Len(x.fields)], w, a, b)
         /\ Passed(c, Len(x.fields), y.fields, got)
<1> DEFINE n == Len(x.fields)
<1>1. x.air \in Program /\ LabelOK(x.air, Label) /\ OnAir(x.air)
  BY MoveAir
<1>2. MoveFieldsOK(x) /\ MoveFieldsOK(y)
  BY <1>1, MoveFields
<1>3. n \in Nat
  BY <1>2 DEF MoveFieldsOK
<1>4. c[0] = b /\ Passed(c, n, y.fields, got)
  <2>1. PassesBoth(c, b, x, y, got)
    BY <1>2, PassedBoth
  <2> QED BY <2>1, Zenon DEF PassesBoth
<1> HIDE DEF n
<1>5. Goes(k[n], x.air, c[n], w, a, b)
  <2>1. PICK p \in Nat : p = 0
    OBVIOUS
  <2>2. TextKnown(k[p], a, c[p]) /\ TakenHere(k, c, p, x.fields, got) /\ p + n <= got
    BY <1>3, <1>4, <2>1 DEF n
  <2>3. Goes(k[p + n], x.air, c[p + n], k[p], a, c[p])
    BY <2>2, MoveGoes DEF n
  <2>4. p + n = n
    BY <1>3, <2>1
  <2> QED BY <1>4, <2>1, <2>3, <2>4, Zenon
<1> QED BY <1>4, <1>5 DEF n

LEMMA TwoMovesText ==
  ASSUME NEW w, NEW a \in Program, LabelOK(a, Label), OnAir(a), NEW b, TextKnown(w, a, b),
         b.due = <<>>, NEW x \in Moves(a), NEW y \in Moves(x.air)
  PROVE  TextCame(w, a, b, x.fields \o y.fields, y.air)
<1> DEFINE n == Len(x.fields)
           m == Len(y.fields)
           fields == x.fields \o y.fields
           handled == HandledOf(fields)
           u == FoldLeft(Subfield, w, handled)
<1>1. w \in PadWork
  BY DEF TextKnown, TextState
<1>2. x.air \in Program /\ LabelOK(x.air, Label) /\ OnAir(x.air)
  BY MoveAir
<1>3. /\ MoveFieldsOK(x) /\ MoveFieldsOK(y)
      /\ ~IsOtherMove(x, a) => \A i \in 1 .. n : x.fields[i].ci # 0
      /\ IsOtherMove(x, a) => x.fields[1].ci = 0
      /\ ~IsOtherMove(y, x.air) => \A i \in 1 .. m : y.fields[i].ci # 0
      /\ IsOtherMove(y, x.air) => y.fields[1].ci = 0
  BY <1>2, MoveFields
<1>4. FieldsJoined(fields, x, y)
  BY <1>3, JoinedFields
<1>5. /\ n \in 1 .. 2 /\ m \in 1 .. 2
      /\ Len(fields) = n + m /\ DOMAIN fields = 1 .. n + m
      /\ \A i \in 1 .. n : fields[i] = x.fields[i]
      /\ \A j \in 1 .. m : fields[n + j] = y.fields[j]
      /\ \A i \in 1 .. n + m : IsField(fields[i])
      /\ \E V : fields \in Seq(V)
  BY <1>4, Zenon DEF FieldsJoined
<1> HIDE DEF fields, n, m
<1>6. n \in Nat /\ m \in Nat /\ n + m \in Nat /\ n # n + m /\ 0 # n + m /\ n + m \in Int
  BY <1>5
<1>7. ASSUME NEW c, Comes(c, n + m, b, fields, 0) PROVE TextKnown(w, y.air, c[n + m])
  BY <1>7, TwoMovesUntold DEF n, m, fields
<1>8. ASSUME NEW c, Comes(c, n + m, b, fields, Len(handled))
      PROVE  /\ TextKnown(u, y.air, c[n + m])
             /\ Len(handled) = n + m => Goes(u, y.air, c[n + m], w, a, b)
  <2>1. CASE IsOtherMove(x, a)
    <3>1. handled = <<>> /\ u = w /\ Len(handled) = 0
      <4>1. 1 \in 1 .. Len(fields) /\ fields[1].ci = 0
        <5>1. 1 \in 1 .. n /\ 1 \in 1 .. n + m
          BY <1>5
        <5> QED BY <1>3, <1>5, <2>1, <5>1
      <4>2. handled = <<>> /\ FoldLeft(Subfield, w, <<>>) = w
        BY <1>1, <1>5, <4>1, NoneHandled
      <4> QED BY <4>2
    <3> HIDE DEF u, handled
    <3> QED BY <1>6, <1>7, <1>8, <3>1
  <2>2. CASE ~IsOtherMove(x, a) /\ IsOtherMove(y, x.air)
    <3>0. n + 1 \in 1 .. Len(fields) /\ fields[n + 1].ci = 0 /\ (n + 1) - 1 = n
      <4>1. 1 \in 1 .. m /\ n + 1 \in 1 .. n + m
        BY <1>5
      <4> QED BY <1>3, <1>5, <1>6, <2>2, <4>1
    <3>1. handled = SubSeq(fields, 1, (n + 1) - 1)
      <4>1. \A i \in 1 .. (n + 1) - 1 : fields[i].ci # 0
        BY <1>3, <1>5, <2>2, <3>0
      <4> QED BY <1>5, <3>0, <4>1, SomeHandled
    <3>2. /\ DOMAIN handled = 1 .. n /\ Len(handled) = n
          /\ \A i \in 1 .. n : handled[i] = fields[i]
      <4>1. n <= Len(fields)
        BY <1>5
      <4>2. handled = SubSeq(fields, 1, n)
        BY <3>0, <3>1
      <4>3. PICK V : fields \in Seq(V)
        BY <1>5
      <4> HIDE DEF handled
      <4> QED BY <1>6, <4>1, <4>2, <4>3
    <3> HIDE DEF handled
    <3>3. PICK k : Handles(k, n, w, handled) /\ u = k[n]
      <4>1. \A i \in 1 .. n : IsField(handled[i]) /\ handled[i].ci # 0
        <5>1. \A i \in 1 .. n : i \in 1 .. n + m
          BY <1>6
        <5> QED BY <1>3, <1>5, <2>2, <3>2, <5>1
      <4> QED BY <1>1, <1>6, <3>2, <4>1, SubfieldsHandled
    <3> HIDE DEF u
    <3>4. Comes(c, n + m, b, fields, n) /\ \A i \in 1 .. n : handled[i] = x.fields[i]
      BY <1>5, <1>8, <3>2
    <3>5. n <= n /\ n \in Int /\ k[0] = w
      BY <1>6, <3>3 DEF Handles
    <3>6. TakenHere(k, c, 0, x.fields, n)
      <4>1. Passed(c, 0, x.fields, n)
        BY <1>3, <3>4, <3>5, PassedBoth DEF PassesBoth, n, m, fields
      <4> QED BY <1>6, <3>3, <3>4, <3>5, <4>1, TakenFirst DEF n
    <3>7. Goes(k[n], x.air, c[n], w, a, b) /\ Passed(c, n, y.fields, n)
      BY <2>2, <3>4, <3>5, <3>6, FirstTold DEF n, m, fields
    <3>8. TextKnown(k[n], y.air, c[n + m])
      <4>1. TextKnown(k[n], x.air, c[n])
        BY <3>7, GoesKnown
      <4> QED BY <1>2, <1>6, <2>2, <3>5, <3>7, <4>1, MoveUntold DEF m
    <3> QED BY <1>6, <3>2, <3>3, <3>8
  <2>3. CASE ~IsOtherMove(x, a) /\ ~IsOtherMove(y, x.air)
    <3>0. \A i \in 1 .. n + m : fields[i].ci # 0
      <4> TAKE i \in 1 .. n + m
      <4>1. CASE i <= n
        <5>1. i \in 1 .. n
          BY <4>1
        <5> QED BY <1>3, <1>5, <2>3, <5>1
      <4>2. CASE i > n
        <5>1. i - n \in 1 .. m /\ n + (i - n) = i
          BY <1>6, <4>2
        <5> QED BY <1>3, <1>5, <2>3, <5>1
      <4> QED BY <1>6, <4>1, <4>2
    <3>1. handled = fields
      BY <1>5, <3>0, AllHandled
    <3>2. PICK k : Handles(k, n + m, w, fields) /\ u = k[n + m]
      <4>1. PICK k : Handles(k, n + m, w, fields) /\ FoldLeft(Subfield, w, fields) = k[n + m]
        BY <1>1, <1>5, <1>6, <3>0, SubfieldsHandled
      <4> QED BY <3>1, <4>1
    <3>3. Comes(c, n + m, b, fields, n + m) /\ Len(handled) = n + m
      BY <1>5, <1>8, <3>1
    <3> HIDE DEF u, handled
    <3>4. n <= n + m /\ n + m <= n + m /\ k[0] = w
      BY <1>6, <3>2 DEF Handles
    <3>5. TakenHere(k, c, 0, x.fields, n + m)
      <4>1. Passed(c, 0, x.fields, n + m)
        BY <1>3, <1>6, <3>3, PassedBoth DEF PassesBoth, n, m, fields
      <4> QED BY <1>5, <1>6, <3>2, <3>4, <4>1, TakenFirst DEF n
    <3>6. Goes(k[n], x.air, c[n], w, a, b) /\ Passed(c, n, y.fields, n + m)
      BY <1>6, <2>3, <3>3, <3>4, <3>5, FirstTold DEF n, m, fields
    <3>7. TakenHere(k, c, n, y.fields, n + m)
      BY <1>5, <1>6, <3>2, <3>6, TakenSecond DEF m
    <3>8. Goes(k[n + m], y.air, c[n + m], k[n], x.air, c[n])
      <4>1. TextKnown(k[n], x.air, c[n])
        BY <3>6, GoesKnown
      <4> QED BY <1>2, <1>6, <2>3, <3>4, <3>7, <4>1, MoveGoes DEF m
    <3>9. Goes(u, y.air, c[n + m], w, a, b)
      BY <3>2, <3>6, <3>8, GoesMore
    <3> QED BY <3>9, GoesKnown
  <2> QED BY <2>1, <2>2, <2>3
<1> QED BY <1>5, <1>7, <1>8, Zenon DEF TextCame, fields

\* The broadcaster goes on at the same place.
LEMMA TextCameSame ==
  ASSUME NEW w, NEW a, NEW b, NEW fields, NEW air, TextCame(w, a, b, fields, air),
         NEW end, SamePlace(end, air)
  PROVE  TextCame(w, a, b, fields, end)
<1> DEFINE n == Len(fields)
           handled == HandledOf(fields)
           u == FoldLeft(Subfield, w, handled)
<1>1. ASSUME NEW v, NEW c, TextKnown(v, air, c) PROVE Goes(v, end, c, v, air, c)
  BY <1>1, PlaceGoes
<1>2. /\ \A c : Comes(c, n, b, fields, 0) => TextKnown(w, air, c[n])
      /\ \A c : Comes(c, n, b, fields, Len(handled)) =>
           /\ TextKnown(u, air, c[n])
           /\ Len(handled) = n => Goes(u, air, c[n], w, a, b)
  BY Zenon DEF TextCame
<1> HIDE DEF n, handled, u
<1>3. ASSUME NEW c, Comes(c, n, b, fields, 0) PROVE TextKnown(w, end, c[n])
  BY <1>1, <1>2, <1>3, GoesKnown
<1>4. ASSUME NEW c, Comes(c, n, b, fields, Len(handled))
      PROVE  TextKnown(u, end, c[n]) /\ (Len(handled) = n => Goes(u, end, c[n], w, a, b))
  <2>1. Goes(u, end, c[n], u, air, c[n])
    BY <1>1, <1>2, <1>4
  <2>2. Len(handled) = n => Goes(u, air, c[n], w, a, b)
    BY <1>2, <1>4
  <2> QED BY <2>1, <2>2, GoesKnown, GoesMore
<1> QED BY <1>3, <1>4, Zenon DEF TextCame, n, handled, u

\* A PAD of one move or two.
ComposedTold(w, a, b, m) ==
  /\ TextCame(w, a, b, m.fields, m.air) /\ m.air \in Program
  /\ Len(m.fields) \in 1 .. 4 /\ DOMAIN m.fields = 1 .. Len(m.fields)
  /\ \A i \in 1 .. Len(m.fields) : IsField(m.fields[i])
  /\ \E V : m.fields \in Seq(V)

LEMMA SizedText ==
  ASSUME NEW w, NEW a, NEW b, NEW x, x.air \in Program, TextCame(w, a, b, x.fields, x.air),
         Len(x.fields) \in 1 .. 4, DOMAIN x.fields = 1 .. Len(x.fields),
         \A i \in 1 .. Len(x.fields) : IsField(x.fields[i]), \E V : x.fields \in Seq(V),
         NEW m, m = Sized(x)
  PROVE  ComposedTold(w, a, b, m)
<1>1. m.air \in Program
  BY SizedAir
<1>2. m.fields = x.fields
  BY SizedIs
<1>3. SamePlace(m.air, x.air)
  BY DEF Sized, Move, Program, SamePlace
<1>4. TextCame(w, a, b, x.fields, m.air)
  BY <1>3, TextCameSame
<1> QED BY <1>1, <1>2, <1>4 DEF ComposedTold

LEMMA ComposedText ==
  ASSUME NEW w, NEW a \in Program, LabelOK(a, Label), OnAir(a), NEW b, TextKnown(w, a, b),
         b.due = <<>>, NEW m \in Composed(a)
  PROVE  ComposedTold(w, a, b, m)
<1>1. PICK x \in Moves(a) :
           \/ m = Sized(x)
           \/ \E y \in Moves(x.air) : m = Sized(Move(x.fields \o y.fields, y.air))
  BY ComposedOf
<1>2. x.air \in Program /\ LabelOK(x.air, Label) /\ OnAir(x.air)
  BY MoveAir
<1>3. MoveFieldsOK(x)
  BY MoveFields
<1>4. CASE m = Sized(x)
  <2>1. TextCame(w, a, b, x.fields, x.air)
    BY OneMoveText
  <2>2. \E V : x.fields \in Seq(V)
    <3>1. \A i \in 1 .. Len(x.fields) : x.fields[i] \in {x.fields[j] : j \in 1 .. Len(x.fields)}
      OBVIOUS
    <3>2. x.fields \in Seq({x.fields[j] : j \in 1 .. Len(x.fields)})
      BY <1>3, <3>1 DEF MoveFieldsOK
    <3> QED BY <3>2
  <2>3. /\ Len(x.fields) \in 1 .. 4 /\ DOMAIN x.fields = 1 .. Len(x.fields)
        /\ \A i \in 1 .. Len(x.fields) : IsField(x.fields[i])
    BY <1>3 DEF MoveFieldsOK
  <2> QED BY <1>2, <1>4, <2>1, <2>2, <2>3, SizedText
<1>5. ASSUME NEW y \in Moves(x.air), m = Sized(Move(x.fields \o y.fields, y.air))
      PROVE  ComposedTold(w, a, b, m)
  <2> DEFINE fields == x.fields \o y.fields
             z == Move(fields, y.air)
             n == Len(x.fields)
             k == Len(y.fields)
  <2>1. y.air \in Program
    BY <1>2, MoveAir
  <2>2. MoveFieldsOK(y)
    BY <1>2, MoveFields
  <2>3. TextCame(w, a, b, fields, y.air)
    BY TwoMovesText
  <2>4. z.fields = fields /\ z.air = y.air /\ m = Sized(z)
    BY <1>5 DEF Move
  <2>5. FieldsJoined(fields, x, y)
    BY <1>3, <2>2, JoinedFields
  <2> HIDE DEF fields, z
  <2>6. /\ n \in 1 .. 2 /\ k \in 1 .. 2 /\ Len(fields) = n + k /\ DOMAIN fields = 1 .. n + k
        /\ \A i \in 1 .. n + k : IsField(fields[i])
        /\ \E V : fields \in Seq(V)
    BY <2>5, Zenon DEF FieldsJoined, n, k
  <2> HIDE DEF n, k
  <2>7. n + k \in 1 .. 4
    BY <2>6
  <2> QED BY <2>1, <2>3, <2>4, <2>6, <2>7, SizedText
<1> QED BY <1>1, <1>4, <1>5

-----------------------------------------------------------------------------
(* The text of a label over PADs.                                          *)

\* Between PADs: what was shown is what came whole, and nothing else if nothing was lost.
LabelGood(w, a) ==
  /\ TextState(w, a, a.intact, a.due)
  /\ a.clean => Told(w, a, a.intact, a.due)

\* At the begin of a PAD.
LabelBegin(w, a) ==
  /\ TextState(w, a, a.intact, <<>>)
  /\ a.clean \/ a.due # <<>> => Told(w, a, a.intact, <<>>)

LEMMA LostText ==
  ASSUME NEW w, NEW a, LabelGood(w, a)
  PROVE  LabelBegin(Lost(w), a) /\ Lost(w) \in PadWork
<1> DEFINE u == Lost(w)
           v == [w EXCEPT !.shown = <<>>]
           i == a.intact
<1>1. w \in PadWork /\ AtPlace(a, Label) /\ i \in BOOLEAN /\ TextState(w, a, i, a.due)
  BY DEF LabelGood, TextState
<1>2. u \in PadWork /\ u.pad = w.pad /\ u.static = w.static /\ u.shown = <<>>
  <2>1. v \in PadWork /\ v.pad = w.pad
    <3>1. <<>> \in Seq(Seq(Character))
      OBVIOUS
    <3> QED BY <1>1, <3>1, ShownReplaced
  <2>2. [v EXCEPT !.handed = <<>>] \in PadWork /\ [v EXCEPT !.handed = <<>>].pad = v.pad
    <3>1. <<>> \in Seq(WholeObject)
      OBVIOUS
    <3> HIDE DEF v
    <3> QED BY <2>1, <3>1, HandedReplaced
  <2>3. u = [v EXCEPT !.handed = <<>>]
    BY <1>1 DEF Lost, PadWork
  <2>4. u.static = w.static /\ u.shown = <<>>
    BY <1>1 DEF Lost, PadWork
  <2> HIDE DEF v, u
  <2> QED BY <2>1, <2>2, <2>3, <2>4, Zenon
<1> HIDE DEF u, i
<1>3. TextAt(w, a.label, a.segment, a.n) => TextAt(u, a.label, a.segment, a.n)
  BY <1>2, Zenon DEF TextAt
<1>4. Tracks(w, a, i) => Tracks(u, a, i)
  BY <1>2, Zenon DEF Tracks
<1>5. Texts(<<>>) = <<>> /\ Range(Texts(<<>>)) = {} /\ {} \subseteq Range(u.shown)
        /\ <<>> \in Seq(Label \union ShortLabel)
  BY TextsNone
<1>6. TextState(u, a, i, <<>>)
  BY <1>1, <1>2, <1>3, <1>5, Zenon DEF TextState
<1>7. a.clean \/ a.due # <<>> => Tracks(w, a, i)
  BY <1>1, Zenon DEF LabelGood, Told, TextState, i
<1>8. a.clean \/ a.due # <<>> => Told(u, a, i, <<>>)
  BY <1>2, <1>4, <1>5, <1>7, Zenon DEF Told
<1> QED BY <1>2, <1>6, <1>8, Zenon DEF LabelBegin, u, i

LEMMA StartText ==
  ASSUME NEW a \in Program, NEW air \in Program
  PROVE  Start(a, air).intact = a.intact /\ Start(a, air).due = <<>>
BY DEF Start, Program

LEMMA StartKnown ==
  ASSUME NEW w, NEW a \in Program, LabelBegin(w, a), NEW air \in Program
  PROVE  TextKnown(w, a, Start(a, air)) /\ Start(a, air).due = <<>>
<1> DEFINE b == Start(a, air)
<1>1. b.intact = a.intact /\ b.due = <<>>
  BY StartText
<1>2. b \in Program
  BY StartOK DEF ArrivedNow
<1> HIDE DEF b
<1>3. TextKnown(w, a, b)
  BY <1>1, <1>2, Zenon DEF LabelBegin, TextKnown
<1> QED BY <1>1, <1>3 DEF b

\* After a PAD.
LEMMA FollowText ==
  ASSUME NEW w, NEW a \in Program, LabelBegin(w, a), NEW air \in Program,
         NEW fields, NEW got, NEW c, NEW n, NEW slide, NEW b, Followed(b, c, n, air, slide),
         b.clean = CleanAfter(a, fields, got), NEW u, TextKnown(u, air, c[n]),
         got = Len(fields) => Goes(u, air, c[n], w, a, Start(a, air))
  PROVE  LabelGood(u, b)
<1> DEFINE start == Start(a, air)
<1>1. start.intact = a.intact /\ start.due = <<>>
  BY StartText
<1> HIDE DEF start
<1>2. b.intact = c[n].intact /\ b.due = c[n].due /\ SamePlace(b, air)
  BY DEF Followed, Placed, SamePlace
<1> DEFINE e == c[n]
<1>3. e \in Program /\ TextState(u, air, e.intact, e.due) /\ u \in PadWork
  BY DEF TextKnown, TextState
<1> HIDE DEF e
<1>4. StaysTold(u, b, e.intact, e.due, u, air, e.intact, e.due)
  <2>1. SameText(u, u)
    BY DEF SameText
  <2> QED BY <1>2, <1>3, <2>1, TextKept
<1>5. got = Len(fields) /\ (a.clean \/ a.due # <<>>) => Told(u, air, e.intact, e.due)
  <2>1. a.clean \/ a.due # <<>> => Told(w, a, start.intact, start.due)
    BY <1>1, Zenon DEF LabelBegin
  <2>2. got = Len(fields) => StaysTold(u, air, e.intact, e.due, w, a, start.intact, start.due)
    BY Zenon DEF Goes, start, e
  <2> QED BY <2>1, <2>2, Zenon DEF StaysTold
<1>6. b.clean => Told(u, b, e.intact, e.due)
  BY <1>4, <1>5, Zenon DEF CleanAfter, StaysTold
<1>7. TextState(u, b, e.intact, e.due) /\ b.intact = e.intact /\ b.due = e.due
  BY <1>2, <1>4, Zenon DEF StaysTold, e
<1> QED BY <1>6, <1>7, Zenon DEF LabelGood

\* All of a variable X-PAD is lost.
LEMMA VariableTextLost ==
  ASSUME NEW w, NEW a \in Program, LabelOK(a, Label), OnAir(a), LabelBegin(w, a),
         NEW m \in Composed(a), NEW sent, SentOK(sent, m)
  PROVE  LabelGood(w, Follow(a, sent, 0))
<1> DEFINE b == Start(a, m.air)
           n == Len(m.fields)
<1>1. TextKnown(w, a, Start(a, a)) /\ Start(a, a).due = <<>>
  BY StartKnown
<1>2. m.air \in Program
  BY <1>1, ComposedText DEF ComposedTold
<1>3. TextKnown(w, a, b) /\ b.due = <<>>
  BY <1>2, StartKnown
<1>4. ComposedTold(w, a, b, m)
  <2> HIDE DEF b
  <2> QED BY <1>3, ComposedText
<1>5. /\ TextCame(w, a, b, m.fields, m.air) /\ n \in 1 .. 4 /\ DOMAIN m.fields = 1 .. n
      /\ \A i \in 1 .. n : IsField(m.fields[i])
  BY <1>4, Zenon DEF ComposedTold
<1>6. sent.fields = m.fields /\ sent.air = m.air
  BY DEF SentOK
<1> HIDE DEF n
<1>7. n \in Nat /\ 0 # n
  BY <1>5
<1>8. PICK c : /\ Comes(c, n, Start(a, sent.air), sent.fields, 0)
               /\ Followed(Follow(a, sent, 0), c, n, sent.air, a.slide)
               /\ Follow(a, sent, 0).clean = CleanAfter(a, sent.fields, 0)
  BY <1>2, <1>5, <1>6, <1>7, FollowMade DEF n
<1>9. TextKnown(w, m.air, c[n])
  BY <1>5, <1>6, <1>8, Zenon DEF TextCame, n
<1>10. 0 # Len(sent.fields)
  BY <1>6, <1>7 DEF n
<1> QED BY <1>2, <1>6, <1>8, <1>9, <1>10, FollowText

\* The length of the PAD is noted while a data group comes.
LEMMA NotedText ==
  ASSUME NEW w, NEW a, NEW b, TextKnown(w, a, b), NEW n \in Nat
  PROVE  LET v == IF w.pad.mscGroupElement THEN [w EXCEPT !.pad.xpadLength = n] ELSE w IN
         Goes(v, a, b, w, a, b)
<1>1. w \in PadWork /\ b \in Program /\ TextState(w, a, b.intact, b.due)
  BY DEF TextKnown, TextState
<1>2. ASSUME NEW v \in PadWork, SameText(v, w) PROVE Goes(v, a, b, w, a, b)
  <2>1. SamePlace(a, a)
    BY DEF SamePlace
  <2>2. StaysTold(v, a, b.intact, b.due, w, a, b.intact, b.due)
    BY <1>1, <1>2, <2>1, TextKept
  <2> QED BY <1>1, <2>2, Zenon DEF Goes
<1>3. SameText(w, w)
  BY DEF SameText
<1>4. [w EXCEPT !.pad.xpadLength = n] \in PadWork /\ SameText([w EXCEPT !.pad.xpadLength = n], w)
  <2>1. n \in Int
    OBVIOUS
  <2>2. [w EXCEPT !.pad.xpadLength = n] \in PadWork
    BY <1>1, <2>1, SizeSet
  <2>3. Shaped(w)
    BY <1>1, WorkShaped
  <2>4. KeepsText([w EXCEPT !.pad.xpadLength = n], w)
    BY <2>3, BufferText
  <2> QED BY <2>2, <2>4 DEF KeepsText
<1> QED BY <1>1, <1>2, <1>3, <1>4

LEMMA VariableTextHandled ==
  ASSUME NEW w, NEW a \in Program, LabelOK(a, Label), OnAir(a), LabelBegin(w, a),
         NEW m \in Composed(a), NEW sent, SentOK(sent, m)
  PROVE  LabelGood(WithCI(w, m.fields), Follow(a, sent, Len(HandledOf(m.fields))))
<1> DEFINE b == Start(a, m.air)
           n == Len(m.fields)
           v == IF w.pad.mscGroupElement THEN [w EXCEPT !.pad.xpadLength = Len(m.fields)] ELSE w
           u == FoldLeft(Subfield, v, HandledOf(m.fields))
           q == Len(HandledOf(m.fields))
<1>1. TextKnown(w, a, Start(a, a)) /\ Start(a, a).due = <<>>
  BY StartKnown
<1>2. m.air \in Program /\ n \in 1 .. 4
  BY <1>1, ComposedText DEF ComposedTold
<1>3. TextKnown(w, a, b) /\ b.due = <<>>
  BY <1>2, StartKnown
<1>a. WithCI(w, m.fields) = u
  BY DEF WithCI
<1>b. Goes(v, a, b, w, a, b)
  <2>1. Len(m.fields) \in Nat
    BY <1>2
  <2> HIDE DEF b
  <2> QED BY <1>3, <2>1, NotedText
<1> HIDE DEF v
<1>c. TextKnown(v, a, b)
  BY <1>b, GoesKnown
<1>4. ComposedTold(v, a, b, m)
  <2> HIDE DEF b
  <2> QED BY <1>3, <1>c, ComposedText
<1>5. /\ TextCame(v, a, b, m.fields, m.air) /\ n \in 1 .. 4 /\ DOMAIN m.fields = 1 .. n
      /\ \A i \in 1 .. n : IsField(m.fields[i])
      /\ \E V : m.fields \in Seq(V)
  BY <1>4, Zenon DEF ComposedTold
<1>6. sent.fields = m.fields /\ sent.air = m.air
  BY DEF SentOK
<1>7. n \in Nat /\ q \in Int
  <2>1. q \in 0 .. n
    BY <1>5, HandledSome
  <2> HIDE DEF q, n
  <2> QED BY <1>5, <2>1
<1> HIDE DEF n, q, u
<1>8. PICK c : /\ Comes(c, n, Start(a, sent.air), sent.fields, q)
               /\ Followed(Follow(a, sent, q), c, n, sent.air, a.slide)
               /\ Follow(a, sent, q).clean = CleanAfter(a, sent.fields, q)
  BY <1>2, <1>5, <1>6, <1>7, FollowMade DEF n
<1>9. TextKnown(u, m.air, c[n]) /\ (q = n => Goes(u, m.air, c[n], v, a, b))
  BY <1>5, <1>6, <1>8, Zenon DEF TextCame, n, q, u
<1>10. q = Len(sent.fields) => Goes(u, m.air, c[n], w, a, b)
  BY <1>6, <1>9, <1>b, GoesMore DEF n
<1> HIDE DEF b
<1>11. LabelGood(u, Follow(a, sent, q))
  BY <1>2, <1>6, <1>8, <1>9, <1>10, FollowText DEF b
<1> QED BY <1>11, <1>a DEF q

\* A PAD without CI has nothing of a label.
LEMMA GroupsCame ==
  ASSUME NEW b \in Program, NEW n \in Nat, NEW fields, NEW got \in Int,
         \A i \in 1 .. n : IsField(fields[i]) /\ fields[i].ci = 13,
         NEW c, Comes(c, n, b, fields, got)
  PROVE  SameCame(c[n], b)
<1> DEFINE S == {i \in Nat : i <= n => SameCame(c[i], b)}
<1>1. 0 \in S
  BY DEF Comes, SameCame
<1>2. ASSUME NEW i \in Nat, i \in S PROVE i + 1 \in S
  <2>1. SUFFICES ASSUME i + 1 <= n PROVE SameCame(c[i + 1], b)
    OBVIOUS
  <2> DEFINE f == fields[i + 1]
             came == i + 1 <= got
  <2>2. i + 1 \in 1 .. n /\ (i + 1) - 1 = i /\ came \in BOOLEAN
    BY <2>1
  <2>3. SameCame(c[i], b)
    BY <1>2, <2>1
  <2>4. c[i + 1] = Came(c[i], f, came)
    BY <2>2 DEF Comes
  <2>5. IsField(f) /\ f.ci \in {1, 12, 13}
    BY <2>2
  <2> HIDE DEF f, came
  <2>6. c[i] \in Program
    BY <2>3 DEF SameCame
  <2>7. SameCame(c[i + 1], c[i])
    BY <2>2, <2>4, <2>5, <2>6, GroupCame DEF SameCame
  <2> QED BY <2>3, <2>7 DEF SameCame
<1> HIDE DEF S
<1>3. n \in S
  BY <1>1, <1>2, AllNumbers
<1> QED BY <1>3 DEF S

LEMMA PlainPlace ==
  ASSUME NEW a \in Program
  PROVE  SamePlace(PlainAir(a), a)
<1> DEFINE b == MovedUnit(a, a.group, (a.unit + a.size) - 1)
<1>1. SamePlace(b, a) /\ b.label = a.label
  BY DEF MovedUnit, Program, SamePlace
<1>2. SamePlace([b EXCEPT !.size = 0], b)
  BY DEF MovedUnit, Program, SamePlace
<1> HIDE DEF b
<1> QED BY <1>1, <1>2 DEF PlainAir, SamePlace, b

\* Units of a data group leave the text as it is.
LEMMA PlainText ==
  ASSUME NEW w, NEW a \in Program, OnAir(a), LabelOK(a, Label), LabelBegin(w, a), a.group # None,
         a.size \in 1 .. 4, NEW sent, PlainOK(sent, a), NEW u \in PadWork, SameText(u, w),
         NEW got \in Int
  PROVE  LabelGood(u, Follow(a, sent, got))
<1> DEFINE b == Start(a, sent.air)
           z == a.size
<1>1. PlainFields(sent.fields, a) /\ sent.air = PlainAir(a)
  BY DEF PlainOK
<1>2. /\ Len(sent.fields) = z /\ DOMAIN sent.fields = 1 .. z
      /\ \A i \in 1 .. z : IsField(sent.fields[i]) /\ sent.fields[i].ci = 13
  BY <1>1, PlainUnits DEF PlainFields
<1>3. sent.air \in Program
  BY <1>1, PlainPlaced DEF PlainEnd
<1>4. z \in Nat
  OBVIOUS
<1>5. TextKnown(w, a, b) /\ b.due = <<>>
  BY <1>3, StartKnown
<1>6. b \in Program /\ TextState(w, a, b.intact, b.due)
  BY <1>5 DEF TextKnown
<1> HIDE DEF b, z
<1>7. PICK c : /\ Comes(c, z, b, sent.fields, got)
               /\ Followed(Follow(a, sent, got), c, z, sent.air, a.slide)
               /\ Follow(a, sent, got).clean = CleanAfter(a, sent.fields, got)
  BY <1>2, <1>3, <1>4, FollowMade DEF b
<1>8. SameCame(c[z], b)
  BY <1>2, <1>4, <1>6, <1>7, GroupsCame
<1>9. SamePlace(sent.air, a)
  BY <1>1, PlainPlace
<1> DEFINE e == c[z]
<1>10. e \in Program /\ e.intact = b.intact /\ e.due = b.due
  BY <1>8 DEF SameCame
<1> HIDE DEF e
<1>11. StaysTold(u, sent.air, b.intact, b.due, w, a, b.intact, b.due)
  BY <1>6, <1>9, TextKept
<1>12. Goes(u, sent.air, e, w, a, b)
  BY <1>10, <1>11, Zenon DEF Goes
<1>13. TextKnown(u, sent.air, e)
  BY <1>12, GoesKnown
<1> QED BY <1>3, <1>7, <1>12, <1>13, FollowText DEF b, e

LEMMA WithoutCIText ==
  ASSUME NEW w \in PadWork, NEW units
  PROVE  SameText(WithoutCI(w, units), w)
<1>1. SameText(w, w)
  BY DEF SameText
<1>2. ASSUME NEW taken PROVE SameText(add_MSC_element(w, taken), w)
  <2>1. Shaped(w)
    BY WorkShaped
  <2>2. KeepsText(add_MSC_element(w, taken), w)
    BY <2>1, GroupText
  <2> QED BY <2>2 DEF KeepsText
<1> QED BY <1>1, <1>2 DEF WithoutCI

\* No PAD at all.
LEMMA NoneText ==
  ASSUME NEW w, NEW a \in Program, LabelBegin(w, a), NEW sent, sent.fields = <<>>, sent.air = a
  PROVE  LabelGood(w, Follow(a, sent, 0))
<1> DEFINE b == Start(a, a)
<1>1. Len(sent.fields) = 0 /\ DOMAIN sent.fields = 1 .. 0 /\ 0 \in Nat /\ 0 \in Int
      /\ \A i \in 1 .. 0 : IsField(sent.fields[i])
  OBVIOUS
<1>2. TextKnown(w, a, b)
  BY StartKnown
<1> HIDE DEF b
<1>3. PICK n \in Nat : n = 0
  OBVIOUS
<1>4. PICK c : /\ Comes(c, n, b, sent.fields, n)
               /\ Followed(Follow(a, sent, n), c, n, sent.air, a.slide)
               /\ Follow(a, sent, n).clean = CleanAfter(a, sent.fields, n)
  BY <1>1, <1>3, FollowMade DEF b
<1>5. c[n] = b
  BY <1>3, <1>4 DEF Comes
<1>6. SamePlace(a, a)
  BY DEF SamePlace
<1>7. Goes(w, a, b, w, a, b)
  BY <1>2, <1>6, PlaceGoes
<1>8. TextKnown(w, a, c[n]) /\ Goes(w, a, c[n], w, a, b)
  BY <1>2, <1>5, <1>7
<1>9. LabelGood(w, Follow(a, sent, n))
  BY <1>4, <1>8, FollowText DEF b
<1> QED BY <1>3, <1>9

\* The labels in the PAD.
LabelInv == line \in PadLine => LabelGood(padwork, program)

\* padHandler is new, or nothing is known of the label.
LEMMA NothingKnown ==
  ASSUME NEW w \in PadWork, NEW a, AtPlace(a, Label), a.intact = FALSE, a.due = <<>>,
         a.clean => Told(w, a, FALSE, <<>>)
  PROVE  LabelGood(w, a)
<1>1. Range(Texts(<<>>)) \subseteq Range(w.shown) /\ <<>> \in Seq(Label \union ShortLabel)
  BY TextsNone
<1>2. TextState(w, a, FALSE, <<>>)
  BY <1>1, Zenon DEF TextState
<1> QED BY <1>2, Zenon DEF LabelGood

LEMMA LabelInit == ASSUME Init PROVE LabelInv
<1> SUFFICES ASSUME line \in PadLine PROVE LabelGood(padwork, program)
  BY DEF LabelInv
<1> DEFINE w == Working(NewPadHandler, NewStatics)
           a == NoProgram
<1>1. padwork = w /\ program = a
  BY DEF Init, thePad
<1>2. NewStatics \in PadStatics /\ NewStatics.moreXPad = FALSE
  BY DEF NewStatics, PadStatics
<1>3. w \in PadWork /\ w.static = NewStatics
  BY <1>2, NewPadWork
<1>4. w.shown = <<>>
  BY DEF Working
<1>5. /\ a.label = None /\ a.n = 1 /\ a.command = FALSE /\ a.intact = FALSE /\ a.due = <<>>
  BY DEF NoProgram
<1> HIDE DEF w, a
<1>6. AtPlace(a, Label)
  BY <1>5 DEF AtPlace
<1>7. Told(w, a, FALSE, <<>>)
  BY <1>2, <1>3, <1>4, <1>5, TextsNone, Zenon DEF Told, Tracks
<1>8. LabelGood(w, a)
  BY <1>3, <1>5, <1>6, <1>7, NothingKnown
<1> QED BY <1>1, <1>8

\* The service is selected again: the statics stay.
LEMMA ResetKnows ==
  ASSUME NEW a \in Program
  PROVE  LET b == [a EXCEPT !.intact = FALSE, !.entire = FALSE, !.due = <<>>,
                            !.arrived = <<>>, !.clean = FALSE, !.slide = None] IN
         b.intact = FALSE /\ b.due = <<>> /\ b.clean = FALSE
BY DEF Program

LEMMA LabelReset ==
  ASSUME line \in PadLine, LabelGood(padwork, program), program \in Program, SelectAgain
  PROVE  LabelGood(padwork', program')
<1> DEFINE a == program
           b == [a EXCEPT !.intact = FALSE, !.entire = FALSE, !.due = <<>>,
                          !.arrived = <<>>, !.clean = FALSE, !.slide = None]
           w == Working(NewPadHandler, padwork.static)
<1>1. padwork' = w /\ program' = b
  BY DEF SelectAgain, thePad
<1>2. padwork \in PadWork /\ AtPlace(a, Label)
  BY DEF LabelGood, TextState
<1>3. w \in PadWork
  <2>1. padwork.static \in PadStatics
    BY <1>2, PadWorkFields
  <2> QED BY <2>1, NewPadWork
<1> HIDE DEF w
<1>4. Placed(b, a)
  BY ProgramReset
<1>5. b.intact = FALSE /\ b.due = <<>> /\ ~b.clean
  BY ResetKnows
<1> HIDE DEF a, b
<1>6. AtPlace(b, Label)
  BY <1>2, <1>4 DEF AtPlace, Placed
<1>7. LabelGood(w, b)
  BY <1>3, <1>5, <1>6, NothingKnown
<1> QED BY <1>1, <1>7

LEMMA AccessUnitLabel ==
  ASSUME line \in PadLine, losses \in 0 .. MaxLosses, PadOK, LabelGood(padwork, program),
         AccessUnit
  PROVE  LabelGood(padwork', program')
<1> DEFINE a == program
           w == Lost(padwork)
           h == 2 * losses
<1>1. PadGood(padwork, a, h)
  BY DEF PadOK
<1>2. PadGood(w, a, h)
  BY <1>1, LostGood
<1>3. LabelBegin(w, a) /\ w \in PadWork
  BY LostText
<1>4. h \in 0 .. Around
  BY LossesOK
<1>5. /\ a \in Program /\ OnAir(a) /\ LabelOK(a, Label) /\ a.unit \in Nat /\ a.size \in 0 .. 4
      /\ a.size # 0 => a.group # None /\ a.size \in 1 .. 4
  <2>1. GroupState(padwork, a, a.entire, a.slide, h) /\ LabelOK(a, Label)
        /\ SizeOK(padwork.pad, a, a.entire)
    BY <1>1, Zenon DEF PadGood
  <2>2. a \in Program /\ OnAir(a)
    BY <2>1 DEF GroupState, GroupsOK
  <2> HIDE DEF a
  <2>3. a.unit \in Nat /\ a.size \in 0 .. 4
    BY <2>2 DEF Program
  <2> QED BY <2>1, <2>2, <2>3 DEF SizeOK
<1>6. PICK sent \in PadsSent(a) :
        LET handled == IF sent.pad.kind = "variable" THEN Len(HandledOf(sent.fields))
                                                     ELSE Len(sent.fields) IN
        \/ padwork' = processPAD(w, sent.pad) /\ program' = Follow(a, sent, handled)
        \/ sent.fields # <<>> /\ padwork' = w /\ program' = Follow(a, sent, 0)
  BY DEF AccessUnit
<1> HIDE DEF a, w, h
<1>7. CASE \E m \in Composed(a) :
              SentOK(sent, m) /\ sent.pad.kind = "variable" /\ sent.pad.fields = m.fields
  <2>1. PICK m \in Composed(a) :
              SentOK(sent, m) /\ sent.pad.kind = "variable" /\ sent.pad.fields = m.fields
    BY <1>7
  <2>2. sent.fields = m.fields
    BY <2>1 DEF SentOK
  <2>3. processPAD(w, sent.pad) = WithCI(w, m.fields)
    BY <2>1 DEF processPAD
  <2>4. LabelGood(WithCI(w, m.fields), Follow(a, sent, Len(HandledOf(m.fields))))
    BY <1>3, <1>5, <2>1, VariableTextHandled
  <2>5. LabelGood(w, Follow(a, sent, 0))
    BY <1>3, <1>5, <2>1, VariableTextLost
  <2> QED BY <1>6, <2>1, <2>2, <2>3, <2>4, <2>5
<1>8. CASE a.size # 0 /\ PlainOK(sent, a)
  <2>1. sent.pad.kind = "plain" /\ Len(sent.fields) = a.size
    BY <1>8 DEF PlainOK, PlainFields
  <2> DEFINE u == WithoutCI(w, sent.pad.units)
  <2>2. processPAD(w, sent.pad) = u
    BY <2>1 DEF processPAD
  <2>3. SameText(u, w) /\ SameText(w, w)
    BY <1>3, WithoutCIText DEF SameText
  <2>4. u \in PadWork
    <3>1. PadGood(u, Follow(a, sent, Len(sent.fields)), h)
      BY <1>2, <1>4, <1>8, PlainHandled
    <3> HIDE DEF u
    <3> QED BY <3>1 DEF PadGood, GroupState
  <2> HIDE DEF u
  <2>5. LabelGood(u, Follow(a, sent, Len(sent.fields)))
    <3>1. Len(sent.fields) \in Int
      BY <1>5, <2>1
    <3> QED BY <1>3, <1>5, <1>8, <2>3, <2>4, <3>1, PlainText
  <2>6. LabelGood(w, Follow(a, sent, 0))
    <3>1. PICK got \in Int : got = 0
      OBVIOUS
    <3>2. LabelGood(w, Follow(a, sent, got))
      BY <1>3, <1>5, <1>8, <2>3, PlainText
    <3> QED BY <3>1, <3>2
  <2> QED BY <1>6, <2>1, <2>2, <2>5, <2>6
<1>9. CASE sent.pad.kind = "none" /\ sent.fields = <<>> /\ sent.air = a
  <2>1. Len(sent.fields) = 0
    BY <1>9
  <2>2. processPAD(w, sent.pad) = w
    BY <1>9 DEF processPAD
  <2>3. LabelGood(w, Follow(a, sent, 0))
    BY <1>3, <1>5, <1>9, NoneText
  <2> QED BY <1>6, <1>9, <2>1, <2>2, <2>3
<1> QED BY <1>5, <1>7, <1>8, <1>9, PadSent

LEMMA LabelStep == ASSUME PadInv, LabelInv, [Next]_vars PROVE LabelInv'
<1> SUFFICES ASSUME line \in PadLine, losses \in 0 .. MaxLosses, PadOK,
                    LabelGood(padwork, program)
             PROVE  LabelGood(padwork', program')
  BY LineStays DEF PadInv, LabelInv
<1>1. CASE UNCHANGED <<line, losses, apparatus>> \/ UNCHANGED vars
  <2>1. padwork' = padwork /\ program' = program
    BY <1>1 DEF vars, apparatus
  <2> QED BY <2>1
<1>2. CASE AccessUnit
  BY <1>2, AccessUnitLabel
<1>3. CASE SelectAgain
  <2>1. program \in Program
    BY DEF PadOK, PadGood, GroupState
  <2> QED BY <1>3, <2>1, LabelReset
<1> QED BY <1>1, <1>2, <1>3, PadActions
-----------------------------------------------------------------------------
(* What handle_shortPAD does.                                              *)

\* The members it works on, and what was shown.
Text(w)  == w.pad.dynamicLabelText
Data(w)  == w.pad.shortpadData
ToGo(w)  == w.pad.still_to_go
First(w) == w.pad.firstSegment
Final(w) == w.pad.lastSegment

SameFlags(u, w) == First(u) = First(w) /\ Final(u) = Final(w)
SameData(u, w)  == Data(u) = Data(w) /\ ToGo(u) = ToGo(w)

LEMMA ShortFields ==
  ASSUME NEW w \in PadWork
  PROVE  /\ Text(w) \in Seq(Character) /\ Data(w) \in Seq(Character) /\ ToGo(w) \in Int
         /\ First(w) \in BOOLEAN /\ Final(w) \in BOOLEAN /\ w.shown \in Seq(Seq(Character))
<1>1. w.pad \in PadMembers /\ w.shown \in Seq(Seq(Character))
  BY PadWorkFields
<1> QED BY <1>1 DEF PadMembers, Text, Data, ToGo, First, Final

\* The text is another; the segment is; the flags are.
TextSet(u, w, text)    == u \in PadWork /\ Text(u) = text /\ SameFlags(u, w) /\ SameData(u, w)
                          /\ u.shown = w.shown
DataSet(u, w, d, n)    == u \in PadWork /\ Data(u) = d /\ ToGo(u) = n /\ SameFlags(u, w)
                          /\ Text(u) = Text(w) /\ u.shown = w.shown
FlagsAre(u, w, f, l)   == u \in PadWork /\ First(u) = f /\ Final(u) = l /\ SameData(u, w)
                          /\ Text(u) = Text(w) /\ u.shown = w.shown

LEMMA TextIsSet ==
  ASSUME NEW w \in PadWork, NEW t \in Seq(Character)
  PROVE  TextSet([w EXCEPT !.pad.dynamicLabelText = t], w, t)
<1> DEFINE p == [w.pad EXCEPT !.dynamicLabelText = t]
<1>1. [w EXCEPT !.pad.dynamicLabelText = t] = [w EXCEPT !.pad = p]
  OBVIOUS
<1>2. w.pad \in PadMembers
  BY PadWorkFields
<1>3. /\ p \in PadMembers /\ p.dynamicLabelText = t /\ p.shortpadData = w.pad.shortpadData
      /\ p.still_to_go = w.pad.still_to_go /\ p.firstSegment = w.pad.firstSegment
      /\ p.lastSegment = w.pad.lastSegment
  BY <1>2 DEF PadMembers
<1> HIDE DEF p
<1> QED BY <1>1, <1>3, PadReplaced
        DEF TextSet, SameFlags, SameData, Text, Data, ToGo, First, Final

LEMMA SegmentIsSet ==
  ASSUME NEW w \in PadWork, NEW d \in Seq(Character)
  PROVE  DataSet([w EXCEPT !.pad.shortpadData = d], w, d, ToGo(w))
<1> DEFINE p == [w.pad EXCEPT !.shortpadData = d]
<1>1. [w EXCEPT !.pad.shortpadData = d] = [w EXCEPT !.pad = p]
  OBVIOUS
<1>2. w.pad \in PadMembers
  BY PadWorkFields
<1>3. /\ p \in PadMembers /\ p.shortpadData = d
      /\ p.dynamicLabelText = w.pad.dynamicLabelText
      /\ p.still_to_go = w.pad.still_to_go /\ p.firstSegment = w.pad.firstSegment
      /\ p.lastSegment = w.pad.lastSegment
  BY <1>2 DEF PadMembers
<1> HIDE DEF p
<1> QED BY <1>1, <1>3, PadReplaced
        DEF DataSet, SameFlags, Text, Data, ToGo, First, Final

LEMMA ToGoIsSet ==
  ASSUME NEW w \in PadWork, NEW n \in Int
  PROVE  DataSet([w EXCEPT !.pad.still_to_go = n], w, Data(w), n)
<1> DEFINE p == [w.pad EXCEPT !.still_to_go = n]
<1>1. [w EXCEPT !.pad.still_to_go = n] = [w EXCEPT !.pad = p]
  OBVIOUS
<1>2. w.pad \in PadMembers
  BY PadWorkFields
<1>3. /\ p \in PadMembers /\ p.shortpadData = w.pad.shortpadData
      /\ p.dynamicLabelText = w.pad.dynamicLabelText
      /\ p.still_to_go = n /\ p.firstSegment = w.pad.firstSegment
      /\ p.lastSegment = w.pad.lastSegment
  BY <1>2 DEF PadMembers
<1> HIDE DEF p
<1> QED BY <1>1, <1>3, PadReplaced
        DEF DataSet, SameFlags, Text, Data, ToGo, First, Final

LEMMA DataIsSet ==
  ASSUME NEW w \in PadWork, NEW d \in Seq(Character), NEW n \in Int
  PROVE  /\ DataSet([w EXCEPT !.pad.shortpadData = d, !.pad.still_to_go = n], w, d, n)
         /\ DataSet([w EXCEPT !.pad.still_to_go = n, !.pad.shortpadData = d], w, d, n)
<1> DEFINE a == [w EXCEPT !.pad.shortpadData = d]
           b == [w EXCEPT !.pad.still_to_go = n]
           c == [a EXCEPT !.pad.still_to_go = n]
           e == [b EXCEPT !.pad.shortpadData = d]
<1>1. DataSet(a, w, d, ToGo(w)) /\ DataSet(b, w, Data(w), n)
  BY SegmentIsSet, ToGoIsSet
<1>2. /\ [w EXCEPT !.pad.shortpadData = d, !.pad.still_to_go = n] = c
      /\ [w EXCEPT !.pad.still_to_go = n, !.pad.shortpadData = d] = e
  OBVIOUS
<1> HIDE DEF a, b
<1>3. DataSet(c, a, Data(a), n) /\ DataSet(e, b, d, ToGo(b))
  <2>1. a \in PadWork /\ b \in PadWork
    BY <1>1 DEF DataSet
  <2> QED BY <2>1, SegmentIsSet, ToGoIsSet
<1> HIDE DEF c, e
<1>4. DataSet(c, w, d, n) /\ DataSet(e, w, d, n)
  BY <1>1, <1>3, Zenon DEF DataSet, SameFlags
<1> QED BY <1>2, <1>4, Zenon

LEMMA FlagsSetTo ==
  ASSUME NEW w \in PadWork, NEW f \in BOOLEAN, NEW l \in BOOLEAN
  PROVE  FlagsAre([w EXCEPT !.pad.firstSegment = f, !.pad.lastSegment = l], w, f, l)
<1> DEFINE p == [w.pad EXCEPT !.firstSegment = f]
           q == [p EXCEPT !.lastSegment = l]
           u == [w EXCEPT !.pad = p]
<1>1. [w EXCEPT !.pad.firstSegment = f] = u
  OBVIOUS
<1>2. w.pad \in PadMembers
  BY PadWorkFields
<1>3. /\ p \in PadMembers /\ p.shortpadData = w.pad.shortpadData
      /\ p.dynamicLabelText = w.pad.dynamicLabelText
      /\ p.still_to_go = w.pad.still_to_go /\ p.firstSegment = f
  BY <1>2 DEF PadMembers
<1> HIDE DEF p
<1>4. u \in PadWork /\ u.pad = p /\ u.shown = w.shown
  BY <1>3, PadReplaced
<1>5. [u EXCEPT !.pad.lastSegment = l] = [u EXCEPT !.pad = q]
  BY <1>4
<1>6. /\ q \in PadMembers /\ q.shortpadData = p.shortpadData
      /\ q.dynamicLabelText = p.dynamicLabelText
      /\ q.still_to_go = p.still_to_go /\ q.firstSegment = p.firstSegment /\ q.lastSegment = l
  BY <1>3 DEF PadMembers
<1> HIDE DEF q
<1>7. /\ [u EXCEPT !.pad = q] \in PadWork /\ [u EXCEPT !.pad = q].pad = q
      /\ [u EXCEPT !.pad = q].shown = u.shown
  BY <1>4, <1>6, PadReplaced
<1>8. [w EXCEPT !.pad.firstSegment = f, !.pad.lastSegment = l]
        = [[w EXCEPT !.pad.firstSegment = f] EXCEPT !.pad.lastSegment = l]
  OBVIOUS
<1>9. [w EXCEPT !.pad.firstSegment = f, !.pad.lastSegment = l] = [u EXCEPT !.pad = q]
  BY <1>1, <1>5, <1>8, Zenon
<1> HIDE DEF u
<1> QED BY <1>3, <1>4, <1>6, <1>7, <1>9, Zenon
        DEF FlagsAre, SameData, Text, Data, ToGo, First, Final

LEMMA LeastOf ==
  ASSUME NEW a \in Int, NEW b \in Int
  PROVE  Least(a, b) \in Int /\ Least(a, b) <= a /\ Least(a, b) <= b /\ Least(a, b) \in {a, b}
BY DEF Least

\* The next characters are taken, of what is still to go.
Taken4(w, chars, k) == Least(Least(k, ToGo(w)), Len(chars))

LEMMA ShortTaken ==
  ASSUME NEW w \in PadWork, NEW chars \in Seq(Character), NEW k \in Nat
  PROVE  /\ Taken4(w, chars, k) \in Int /\ Taken4(w, chars, k) <= Len(chars)
         /\ DataSet(TakeShort(w, chars, k), w,
                    Data(w) \o SubSeq(chars, 1, Taken4(w, chars, k)), ToGo(w) - Taken4(w, chars, k))
<1> DEFINE n == Taken4(w, chars, k)
           d == Data(w) \o SubSeq(chars, 1, n)
           m == ToGo(w) - n
<1>1. ToGo(w) \in Int /\ Len(chars) \in Nat /\ k \in Int /\ Data(w) \in Seq(Character)
  BY ShortFields
<1>2. n \in Int /\ n <= Len(chars)
  <2>1. Least(k, ToGo(w)) \in Int
    BY <1>1, LeastOf
  <2> QED BY <1>1, <2>1, LeastOf DEF Taken4
<1>3. TakeShort(w, chars, k)
        = [w EXCEPT !.pad.shortpadData = d, !.pad.still_to_go = m]
  BY DEF TakeShort, Taken4, Data, ToGo
<1> HIDE DEF n
<1>4. SubSeq(chars, 1, n) \in Seq(Character)
  <2>1. CASE n < 1
    BY <1>2, <2>1
  <2>2. CASE n >= 1
    BY <1>1, <1>2, <2>2
  <2> QED BY <1>2, <2>1, <2>2
<1>5. d \in Seq(Character) /\ m \in Int
  BY <1>1, <1>2, <1>4
<1> HIDE DEF d, m
<1>6. DataSet(TakeShort(w, chars, k), w, d, m)
  BY <1>3, <1>5, DataIsSet
<1> QED BY <1>2, <1>6 DEF d, m, n

\* A segment goes to the text.
Flushed(u, w) ==
  /\ u \in PadWork /\ Text(u) = Text(w) \o Data(w) /\ Data(u) = <<>> /\ ToGo(u) = ToGo(w)
  /\ SameFlags(u, w) /\ u.shown = w.shown

LEMMA ShortFlushed == ASSUME NEW w \in PadWork PROVE Flushed(FlushShort(w), w)
<1> DEFINE text == Text(w) \o Data(w)
           v == [w EXCEPT !.pad.dynamicLabelText = text]
           u == [v EXCEPT !.pad.shortpadData = <<>>]
<1>1. text \in Seq(Character) /\ <<>> \in Seq(Character)
  BY ShortFields
<1>2. FlushShort(w) = u
  BY DEF FlushShort, Append1, Text, Data
<1> HIDE DEF text
<1>3. TextSet(v, w, text)
  BY <1>1, TextIsSet
<1> HIDE DEF v
<1>4. DataSet(u, v, <<>>, ToGo(v))
  <2>1. v \in PadWork
    BY <1>3 DEF TextSet
  <2> QED BY <1>1, <2>1, SegmentIsSet
<1> HIDE DEF u
<1>5. Flushed(u, w)
  BY <1>3, <1>4, Zenon DEF Flushed, DataSet, TextSet, SameFlags, SameData, text
<1> QED BY <1>2, <1>5

\* Shown, the rest as before; and cleared.
LEMMA ShortShown ==
  ASSUME NEW w \in PadWork
  PROVE  /\ Show(w) \in PadWork /\ Show(w).pad = w.pad /\ Show(w).shown = Append(w.shown, Text(w))
<1>1. Append(w.shown, Text(w)) \in Seq(Seq(Character))
  BY ShortFields
<1> QED BY <1>1, ShownReplaced DEF Show, Text

LEMMA ShortCleared == ASSUME NEW w \in PadWork PROVE TextSet(Clear(w), w, <<>>)
<1>1. <<>> \in Seq(Character)
  OBVIOUS
<1> QED BY <1>1, TextIsSet DEF Clear

\* What there is of a text is shown, and the text is cleared.
Shown1(w) == IF Text(w) # <<>> THEN Append(w.shown, Text(w)) ELSE w.shown

ShowsText(u, w) ==
  u \in PadWork /\ Text(u) = <<>> /\ SameFlags(u, w) /\ SameData(u, w) /\ u.shown = Shown1(w)

LEMMA ShowsAndClears ==
  ASSUME NEW w \in PadWork
  PROVE  ShowsText(Clear(IF w.pad.dynamicLabelText # <<>> THEN Show(w) ELSE w), w)
<1> DEFINE v == IF w.pad.dynamicLabelText # <<>> THEN Show(w) ELSE w
           u == Clear(v)
<1>1. v \in PadWork /\ v.pad = w.pad /\ v.shown = Shown1(w)
  BY ShortShown DEF Shown1, Text
<1> HIDE DEF v
<1>2. TextSet(u, v, <<>>)
  BY <1>1, ShortCleared
<1> HIDE DEF u
<1>3. SameFlags(v, w) /\ SameData(v, w)
  BY <1>1, Zenon DEF SameFlags, SameData, First, Final, Data, ToGo
<1>4. ShowsText(u, w)
  BY <1>1, <1>2, <1>3, Zenon DEF TextSet, ShowsText, SameFlags, SameData
<1> QED BY <1>4 DEF u, v

\* The begin of a segment.
StartField(f) ==
  /\ f.first \in BOOLEAN /\ f.last \in BOOLEAN /\ f.length \in Nat
  /\ Char(f.label, f.segment, 1) \in Character

BegunShort(u, w, f) ==
  /\ u \in PadWork /\ First(u) = f.first /\ Final(u) = f.last
  /\ Data(u) = <<Char(f.label, f.segment, 1)>> /\ ToGo(u) = f.length - 1
  /\ Text(u) = (IF f.first /\ ~f.last THEN <<>> ELSE Text(w))
  /\ u.shown = (IF f.first /\ ~f.last THEN Shown1(w) ELSE w.shown)

LEMMA ShortBegun ==
  ASSUME NEW w \in PadWork, NEW f, StartField(f)
  PROVE  BegunShort(ShortStart(w, f), w, f)
<1> DEFINE flags == [w EXCEPT !.pad.firstSegment = f.first, !.pad.lastSegment = f.last]
           shows == IF w.pad.dynamicLabelText # <<>> THEN Show(flags) ELSE flags
           new   == IF f.first /\ ~f.last THEN Clear(shows) ELSE flags
           d     == <<Char(f.label, f.segment, 1)>>
           n     == f.length - 1
           u     == [new EXCEPT !.pad.still_to_go = n, !.pad.shortpadData = d]
<1>1. f.first \in BOOLEAN /\ f.last \in BOOLEAN /\ d \in Seq(Character) /\ n \in Int
  BY DEF StartField
<1>2. FlagsAre(flags, w, f.first, f.last)
  BY <1>1, FlagsSetTo
<1>3. w.pad.dynamicLabelText = flags.pad.dynamicLabelText
  BY <1>2 DEF FlagsAre, Text
<1>4. ShortStart(w, f) = u
  BY DEF ShortStart
<1> HIDE DEF flags, n, d
<1>5. flags \in PadWork
  BY <1>2 DEF FlagsAre
<1>6. ShowsText(Clear(shows), flags)
  <2>1. shows = IF flags.pad.dynamicLabelText # <<>> THEN Show(flags) ELSE flags
    BY <1>3
  <2> HIDE DEF shows
  <2> QED BY <1>5, <2>1, ShowsAndClears
<1>7. Shown1(flags) = Shown1(w)
  BY <1>2, Zenon DEF FlagsAre, Shown1
<1> HIDE DEF shows
<1>8. CASE f.first /\ ~f.last
  <2>1. new = Clear(shows)
    BY <1>8
  <2> HIDE DEF new
  <2>2. ShowsText(new, flags)
    BY <1>6, <2>1
  <2>3. DataSet(u, new, d, n)
    <3>1. new \in PadWork
      BY <2>2 DEF ShowsText
    <3> QED BY <1>1, <3>1, DataIsSet
  <2> HIDE DEF u
  <2>4. BegunShort(u, w, f)
    BY <1>2, <1>7, <1>8, <2>2, <2>3, Zenon
       DEF BegunShort, DataSet, ShowsText, FlagsAre, SameFlags, SameData, d, n
  <2> QED BY <1>4, <2>4
<1>9. CASE ~(f.first /\ ~f.last)
  <2>1. new = flags
    BY <1>9
  <2> HIDE DEF new
  <2>2. DataSet(u, new, d, n)
    <3>1. new \in PadWork
      BY <1>5, <2>1
    <3> QED BY <1>1, <3>1, DataIsSet
  <2> HIDE DEF u
  <2>3. BegunShort(u, w, f)
    BY <1>2, <1>9, <2>1, <2>2, Zenon
       DEF BegunShort, DataSet, FlagsAre, SameFlags, SameData, d, n
  <2> QED BY <1>4, <2>3
<1> QED BY <1>8, <1>9

\* Other PADs with a CI: not more than the types.
LEMMA ShortMoreOK ==
  ASSUME NEW w \in PadWork, NEW f, f.first \in BOOLEAN, f.last \in BOOLEAN, f.chars \in Seq(Character)
  PROVE  ShortMore(w, f) \in PadWork
<1> DEFINE v == [w EXCEPT !.pad.firstSegment = f.first, !.pad.lastSegment = f.last]
           new == TakeShort(v, f.chars, 3)
<1>1. v \in PadWork
  BY FlagsSetTo DEF FlagsAre
<1> HIDE DEF v
<1>2. new \in PadWork
  BY <1>1, ShortTaken DEF DataSet
<1> HIDE DEF new
<1>3. FlushShort(new) \in PadWork
  BY <1>2, ShortFlushed DEF Flushed
<1> QED BY <1>2, <1>3 DEF ShortMore, new, v

LEMMA ShortOtherOK ==
  ASSUME NEW w \in PadWork, NEW f, f.first \in BOOLEAN, f.last \in BOOLEAN
  PROVE  ShortOther(w, f) \in PadWork
BY FlagsSetTo DEF ShortOther, FlagsAre

\* Without CI.
PlainShort(u, w, chars) ==
  \E new \in PadWork, text \in PadWork :
    /\ DataSet(new, w, Data(w) \o SubSeq(chars, 1, Taken4(w, chars, 4)), ToGo(w) - Taken4(w, chars, 4))
    /\ Flushed(text, new)
    /\ u \in PadWork
    /\ ToGo(new) # 0 \/ Data(new) = <<>> => u = new
    /\ ToGo(new) = 0 /\ Data(new) # <<>> =>
         IF ~First(text) /\ Final(text) THEN ShowsText(u, text) ELSE u = text

LEMMA ShortPlainMade ==
  ASSUME NEW w \in PadWork, NEW chars \in Seq(Character)
  PROVE  PlainShort(ShortPlain(w, chars), w, chars)
<1> DEFINE new == TakeShort(w, chars, 4)
           text == FlushShort(new)
           cleared == Clear(IF text.pad.dynamicLabelText # <<>> THEN Show(text) ELSE text)
           u == ShortPlain(w, chars)
<1>1. DataSet(new, w, Data(w) \o SubSeq(chars, 1, Taken4(w, chars, 4)),
              ToGo(w) - Taken4(w, chars, 4))
  BY ShortTaken
<1>2. new \in PadWork
  BY <1>1 DEF DataSet
<1>3. u = IF ToGo(new) = 0 /\ Data(new) # <<>>
          THEN IF ~First(text) /\ Final(text) THEN cleared ELSE text
          ELSE new
  BY Zenon DEF ShortPlain, ToGo, Data, First, Final
<1> HIDE DEF new
<1>4. Flushed(text, new)
  BY <1>2, ShortFlushed
<1> HIDE DEF text
<1>5. text \in PadWork
  BY <1>4 DEF Flushed
<1>6. ShowsText(cleared, text)
  BY <1>5, ShowsAndClears
<1>7. cleared \in PadWork
  BY <1>6 DEF ShowsText
<1> HIDE DEF cleared, u
<1>8. u \in PadWork
  BY <1>2, <1>3, <1>5, <1>7
<1>9. PlainShort(u, w, chars)
  BY <1>1, <1>2, <1>3, <1>4, <1>5, <1>6, <1>8, Zenon DEF PlainShort
<1> QED BY <1>9 DEF u

-----------------------------------------------------------------------------
(* The text of a label in short X-PAD.                                     *)

ShortPlace(a) == AtPlace(a, ShortLabel) /\ ~a.command

\* The text is that of the segments before s, and within a segment shortpadData is all of
\* it before the n-th character, and what is known of it is of this segment.
ShortTextAt(w, l, s, n) ==
  /\ Text(w) = Upto(l, s)
  /\ n > 1 => /\ Data(w) = Begin(l, s, n - 1) /\ ToGo(w) = Characters[l][s] - (n - 1)
              /\ First(w) <=> s = 1
              /\ Final(w) <=> s = Len(Characters[l])

\* All of the label came so far, and between labels there is no text.
ShortTracks(w, a, i) == (a.label # None => i) /\ (a.label = None => Text(w) = <<>>)

\* After a PAD: i, all of the label came so far; d, the label that came whole in it; and
\* k, nothing was lost, at least since a label came whole.
ShortTold(w, a, i, d, k) ==
  /\ w \in PadWork /\ ShortPlace(a)
  /\ i /\ a.label # None => ShortTextAt(w, a.label, a.segment, a.n)
  /\ k \/ d # <<>> => ShortTracks(w, a, i)
  /\ Range(Texts(d)) \subseteq Range(w.shown)
  /\ k => w.shown = Texts(d)

ShortGood(w, a) == ShortTold(w, a, a.intact, a.due, a.clean)

\* Before one.
ShortBegin(w, a) ==
  /\ w \in PadWork /\ w.shown = <<>> /\ ShortPlace(a)
  /\ a.intact /\ a.label # None => ShortTextAt(w, a.label, a.segment, a.n)
  /\ a.clean \/ a.due # <<>> => ShortTracks(w, a, a.intact)

LEMMA LostNow ==
  ASSUME NEW w \in PadWork
  PROVE  Lost(w) \in PadWork /\ Lost(w).pad = w.pad /\ Lost(w).shown = <<>>
<1> DEFINE v == [w EXCEPT !.shown = <<>>]
           u == [v EXCEPT !.handed = <<>>]
<1>1. v \in PadWork /\ v.pad = w.pad /\ v.shown = <<>>
  <2>1. <<>> \in Seq(Seq(Character))
    OBVIOUS
  <2> QED BY <2>1, ShownReplaced
<1>2. Lost(w) = u
  BY DEF Lost, PadWork
<1> HIDE DEF v
<1>3. u \in PadWork /\ u.pad = v.pad /\ u.shown = v.shown
  <2>1. <<>> \in Seq(WholeObject)
    OBVIOUS
  <2> QED BY <1>1, <2>1, HandedReplaced
<1> HIDE DEF u
<1> QED BY <1>1, <1>2, <1>3, Zenon

LEMMA LostShort == ASSUME NEW w, NEW a, ShortGood(w, a) PROVE ShortBegin(Lost(w), a)
<1> DEFINE u == Lost(w)
<1>1. w \in PadWork
  BY DEF ShortGood, ShortTold
<1>2. u \in PadWork /\ u.pad = w.pad /\ u.shown = <<>>
  BY <1>1, LostNow
<1> HIDE DEF u
<1>3. Text(u) = Text(w) /\ Data(u) = Data(w) /\ ToGo(u) = ToGo(w) /\ SameFlags(u, w)
  BY <1>2, Zenon DEF Text, Data, ToGo, First, Final, SameFlags
<1>4. ShortTextAt(w, a.label, a.segment, a.n) => ShortTextAt(u, a.label, a.segment, a.n)
  BY <1>3, Zenon DEF ShortTextAt, SameFlags
<1>5. ShortTracks(w, a, a.intact) => ShortTracks(u, a, a.intact)
  BY <1>3, Zenon DEF ShortTracks
<1> QED BY <1>2, <1>4, <1>5, Zenon DEF ShortGood, ShortTold, ShortBegin, u

\* A PAD that is none of a label's way: nothing is known any more.
LEMMA NothingTold ==
  ASSUME NEW u \in PadWork, NEW a, ShortPlace(a), NEW i \in BOOLEAN, NEW k \in BOOLEAN, ~i, ~k
  PROVE  ShortTold(u, a, i, <<>>, k)
<1>1. Range(Texts(<<>>)) \subseteq Range(u.shown)
  BY TextsNone
<1> QED BY <1>1, Zenon DEF ShortTold

\* A label of short X-PAD has segments, and they have characters.
LEMMA ShortLabelLengths ==
  ASSUME NEW l \in ShortLabel, NEW s \in Segment(l)
  PROVE  /\ Len(Characters[l]) \in Nat /\ Len(Characters[l]) >= 2 /\ Segment(l) = 1 .. Len(Characters[l])
         /\ Characters[l][s] \in Nat /\ Characters[l][s] >= 2
<1>1. l \in Label \union ShortLabel
  OBVIOUS
<1>2. Segment(l) = 1 .. Len(Characters[l]) /\ Len(Characters[l]) \in Nat
  BY <1>1, SegmentsTyped
<1>3. Characters[l][s] \in Nat
  BY <1>1, SegmentLength
<1>4. Len(Characters[l]) >= 2 /\ Characters[l][s] >= 2
  BY ShortLabelAssumption DEF Segment
<1> QED BY <1>2, <1>3, <1>4

\* Where the broadcaster is after up to k characters.
ShortUpTo(a, k) == Least(a.n + k - 1, Characters[a.label][a.segment])

LEMMA ShortEndPlace ==
  ASSUME NEW a \in Program, ShortPlace(a), a.label # None, NEW k \in Nat \ {0}
  PROVE  /\ ShortUpTo(a, k) \in a.n .. Characters[a.label][a.segment]
         /\ PlaceAfter(ShortEnd(a, k), a, a.label, a.segment, ShortUpTo(a, k))
         /\ ShortPlace(ShortEnd(a, k))
<1> DEFINE l == a.label
           s == a.segment
           n == ShortUpTo(a, k)
           b == ShortEnd(a, k)
<1>1. /\ l \in ShortLabel /\ s \in Segment(l) /\ a.n \in 1 .. Characters[l][s] /\ ~a.command
      /\ l \in Label \union ShortLabel
  BY DEF ShortPlace, AtPlace
<1>2. Characters[l][s] \in Nat
  BY <1>1, SegmentLength
<1>3. n \in a.n .. Characters[l][s] /\ n \in 1 .. Characters[l][s]
  <2>1. a.n \in Int /\ a.n >= 1 /\ a.n <= Characters[l][s] /\ k \in Int /\ k >= 1
    BY <1>1, <1>2
  <2>2. a.n + k - 1 \in Int /\ a.n + k - 1 >= a.n
    BY <2>1
  <2>3. n \in Int /\ n <= Characters[l][s] /\ n \in {a.n + k - 1, Characters[l][s]}
    <3> DEFINE m == a.n + k - 1
               c == Characters[l][s]
    <3>1. n = Least(m, c)
      BY DEF ShortUpTo
    <3>2. m \in Int /\ c \in Int
      BY <1>2, <2>2
    <3> HIDE DEF n, m, c
    <3>3. n \in Int /\ n <= c /\ n \in {m, c}
      BY <3>1, <3>2, LeastOf
    <3> QED BY <3>3 DEF m, c
  <2> HIDE DEF n
  <2> QED BY <1>2, <2>1, <2>2, <2>3
<1>4. b = Moved(a, l, s, n)
  BY DEF ShortEnd, ShortUpTo
<1> HIDE DEF b, n
<1>5. PlaceAfter(b, a, l, s, n)
  <2> HIDE DEF l, s
  <2> QED BY <1>1, <1>3, <1>4, MovedPlace
<1>6. AtPlace(b, ShortLabel)
  <2>1. ShortLabel \in SUBSET (Label \union ShortLabel)
    OBVIOUS
  <2> HIDE DEF l, s
  <2> QED BY <1>1, <1>3, <1>5, <2>1, AtPlaceAfter
<1>7. ShortPlace(b)
  BY <1>1, <1>5, <1>6 DEF ShortPlace, PlaceAfter
<1> QED BY <1>3, <1>5, <1>7 DEF n, b

\* The begin of a segment.
LEMMA StartTold ==
  ASSUME NEW w, NEW a, ShortAt(a), ShortBegin(w, a), NEW sent \in ShortStarts(a),
         NEW k \in BOOLEAN, k => a.clean \/ a.due # <<>>
  PROVE  ShortTold(ShortStart(w, sent.pad), sent.air, sent.came, sent.due, k)
<1> DEFINE u == ShortStart(w, sent.pad)
           f == sent.pad
<1>1. PICK b \in IF a.label = None THEN {[a EXCEPT !.label = l] : l \in ShortLabel}
                 ELSE IF a.n = 1 THEN {a} ELSE {} :
          sent = [pad |-> [kind |-> "start", label |-> b.label, segment |-> b.segment,
                           length |-> Characters[b.label][b.segment],
                           first |-> b.segment = 1, last |-> b.segment = Len(Characters[b.label])],
                  came |-> b.segment = 1 \/ a.intact, due |-> <<>>, air |-> ShortEnd(b, 1)]
  BY DEF ShortStarts
<1> DEFINE l == b.label
           s == b.segment
<1>2. /\ f.label = l /\ f.segment = s /\ f.length = Characters[l][s]
      /\ f.first \in BOOLEAN /\ f.last \in BOOLEAN
      /\ f.first <=> s = 1
      /\ f.last <=> s = Len(Characters[l])
  BY <1>1
<1>3. sent.due = <<>> /\ sent.air = ShortEnd(b, 1)
  BY <1>1
<1>4. sent.came \in BOOLEAN /\ (sent.came <=> (s = 1 \/ a.intact))
  <2>1. a.intact \in BOOLEAN
    BY ProgramFields DEF ShortAt
  <2>2. sent.came = (s = 1 \/ a.intact)
    BY <1>1
  <2> QED BY <2>1, <2>2
<1>5. w \in PadWork /\ w.shown = <<>> /\ ShortPlace(a) /\ a \in Program
  BY DEF ShortBegin, ShortAt
<1>6. /\ b \in Program /\ ShortPlace(b) /\ l \in ShortLabel /\ s \in Segment(l) /\ b.n = 1
      /\ s # 1 => b = a
      /\ b = a \/ a.label = None
  <2>1. CASE a.label = None
    <3>1. PICK m \in ShortLabel : b = [a EXCEPT !.label = m]
      BY <1>1, <2>1
    <3>2. a.segment = 1 /\ a.n = 1 /\ ~a.command
      BY <1>5, <2>1 DEF ShortPlace, AtPlace, ShortAt
    <3>3. b \in Program /\ b.label = m /\ b.segment = 1 /\ b.n = 1 /\ ~b.command
      BY <1>5, <3>1, <3>2 DEF Program
    <3>4. 1 \in Segment(m) /\ 1 \in 1 .. Characters[m][1] /\ m # None
      <4>1. Len(Characters[m]) \in Nat \ {0} /\ Segment(m) = 1 .. Len(Characters[m])
        BY SegmentsTyped
      <4>2. 1 \in Segment(m)
        BY <4>1
      <4>3. Characters[m][1] \in Nat \ {0}
        BY <4>2, SegmentLength
      <4> QED BY <4>2, <4>3, NoneAssumption
    <3>5. ShortPlace(b)
      BY <3>3, <3>4 DEF ShortPlace, AtPlace
    <3> QED BY <2>1, <3>3, <3>4, <3>5
  <2>2. CASE a.label # None
    <3>1. b = a /\ a.n = 1
      BY <1>1, <2>2
    <3>2. l \in ShortLabel /\ s \in Segment(l)
      BY <1>5, <2>2, <3>1 DEF ShortPlace, AtPlace
    <3> QED BY <1>5, <3>1, <3>2
  <2> QED BY <2>1, <2>2
<1>7. /\ Characters[l][s] \in Nat /\ Characters[l][s] >= 2 /\ Len(Characters[l]) \in Nat
      /\ Len(Characters[l]) >= 2 /\ s \in Nat
  <2>1. s \in Nat
    BY <1>6, SegmentLength
  <2> QED BY <1>6, <2>1, ShortLabelLengths
<1> DEFINE air == ShortEnd(b, 1)
<1>8. ShortPlace(air) /\ air.label = l /\ air.segment = s /\ air.n = 2
  <2>1. 1 \in Nat \ {0} /\ l # None
    BY <1>6, NoneAssumption
  <2>2. PlaceAfter(air, b, l, s, ShortUpTo(b, 1)) /\ ShortPlace(air)
    <3> HIDE DEF air
    <3> QED BY <1>6, <2>1, ShortEndPlace DEF air
  <2>3. ShortUpTo(b, 1) = 1
    BY <1>6, <1>7 DEF ShortUpTo, Least
  <2> HIDE DEF air
  <2> QED BY <1>7, <2>2, <2>3 DEF PlaceAfter
<1>9. StartField(f)
  <2>1. Char(l, s, 1) \in Character
    BY <1>6, <1>7 DEF Char, Character
  <2> QED BY <1>2, <1>7, <2>1 DEF StartField
<1>10. BegunShort(u, w, f)
  BY <1>5, <1>9, ShortBegun
<1>11. Data(u) = Begin(l, s, 2 - 1) /\ ToGo(u) = Characters[l][s] - (2 - 1)
  <2>1. Begin(l, s, 1) = <<Char(l, s, 1)>>
    BY DEF Begin
  <2> QED BY <1>2, <1>10, <2>1 DEF BegunShort
<1> HIDE DEF air, u, f, l, s
<1>12. f.first /\ ~f.last <=> s = 1
  BY <1>2, <1>7
<1>13. s = 1 => Text(u) = <<>> /\ u.shown = Shown1(w)
  BY <1>10, <1>12, Zenon DEF BegunShort
<1>14. s # 1 => Text(u) = Text(w) /\ u.shown = w.shown
  BY <1>10, <1>12, Zenon DEF BegunShort
<1>15. sent.came => ShortTextAt(u, l, s, 2)
  <2>1. ASSUME sent.came PROVE Text(u) = Upto(l, s)
    <3>1. CASE s = 1
      BY <1>13, <3>1, UptoFirst
    <3>2. CASE s # 1
      <4>1. a.label = l /\ a.segment = s /\ a.intact /\ a.label # None
        BY <1>4, <1>6, <2>1, <3>2, NoneAssumption DEF l, s
      <4>2. ShortTextAt(w, l, s, a.n)
        BY <4>1 DEF ShortBegin
      <4> QED BY <1>14, <3>2, <4>2 DEF ShortTextAt
    <3> QED BY <3>1, <3>2
  <2>2. (First(u) <=> s = 1) /\ (Final(u) <=> s = Len(Characters[l]))
    BY <1>2, <1>10, Zenon DEF BegunShort
  <2> QED BY <1>11, <2>1, <2>2, Zenon DEF ShortTextAt
<1>16. k => sent.came /\ u.shown = <<>>
  <2> SUFFICES ASSUME k PROVE sent.came /\ u.shown = <<>>
    OBVIOUS
  <2>1. ShortTracks(w, a, a.intact)
    BY DEF ShortBegin
  <2>2. CASE s = 1
    <3>1. Text(w) = <<>>
      <4>1. CASE a.label = None
        BY <2>1, <4>1 DEF ShortTracks
      <4>2. CASE a.label # None
        <5>1. a.intact
          BY <2>1, <4>2, Zenon DEF ShortTracks
        <5>2. b = a
          BY <1>6, <4>2
        <5>3. ShortTextAt(w, l, s, a.n)
          BY <4>2, <5>1, <5>2 DEF ShortBegin, l, s
        <5> QED BY <2>2, <5>3, UptoFirst DEF ShortTextAt
      <4> QED BY <4>1, <4>2
    <3>2. u.shown = <<>>
      BY <1>5, <1>13, <2>2, <3>1 DEF Shown1
    <3> QED BY <1>4, <2>2, <3>2
  <2>3. CASE s # 1
    <3>1. b = a /\ a.label # None
      BY <1>6, <2>3, NoneAssumption DEF l
    <3>2. a.intact
      BY <2>1, <3>1, Zenon DEF ShortTracks
    <3> QED BY <1>4, <1>5, <1>14, <2>3, <3>2
  <2> QED BY <2>2, <2>3
<1>17. u \in PadWork /\ l # None
  BY <1>6, <1>10, NoneAssumption DEF BegunShort
<1>18. ShortTold(u, air, sent.came, <<>>, k)
  <2>1. k => ShortTracks(u, air, sent.came)
    BY <1>8, <1>16, <1>17, Zenon DEF ShortTracks
  <2>2. sent.came => ShortTextAt(u, air.label, air.segment, air.n)
    BY <1>8, <1>15, Zenon
  <2>3. Texts(<<>>) = <<>> /\ Range(Texts(<<>>)) \subseteq Range(u.shown)
    BY TextsNone
  <2> QED BY <1>8, <1>16, <1>17, <2>1, <2>2, <2>3, Zenon DEF ShortTold
<1> QED BY <1>3, <1>18, Zenon DEF air, u, f

LEMMA CharsSent ==
  ASSUME NEW a \in Program, ShortPlace(a), a.label # None, NEW k \in Nat
  PROVE  /\ CharsFrom(a, k) \in Seq(Character) /\ Len(CharsFrom(a, k)) = k
         /\ \A i \in 1 .. k : CharsFrom(a, k)[i] = Char(a.label, a.segment, a.n + i - 1)
<1>1. a.label \in ShortLabel /\ a.segment \in Nat /\ a.n \in Nat
  BY DEF Program, ShortPlace, AtPlace
<1>2. \A i \in 1 .. k : Char(a.label, a.segment, a.n + i - 1) \in Character
  BY <1>1 DEF Char, Character
<1> QED BY <1>2 DEF CharsFrom

\* Of what is to go of a segment, the next.
LEMMA SegmentTaken ==
  ASSUME NEW w \in PadWork, NEW a \in Program, ShortPlace(a), a.label # None, a.n > 1,
         ShortTextAt(w, a.label, a.segment, a.n), NEW chars, chars = CharsFrom(a, 4),
         NEW e, e = ShortUpTo(a, 4)
  PROVE  /\ Data(w) \o SubSeq(chars, 1, Taken4(w, chars, 4)) = Begin(a.label, a.segment, e)
         /\ ToGo(w) - Taken4(w, chars, 4) = Characters[a.label][a.segment] - e
<1> DEFINE l == a.label
           s == a.segment
           n == a.n
           c == Characters[l][s]
           t == Taken4(w, chars, 4)
           more == SubSeq(chars, 1, t)
<1>1. /\ l \in Label \union ShortLabel /\ s \in Segment(l) /\ n \in 1 .. c
  BY DEF ShortPlace, AtPlace
<1>2. c \in Nat /\ n \in Nat /\ n >= 1 /\ n <= c
  <2>1. c \in Nat
    BY <1>1, SegmentLength
  <2> HIDE DEF c, n
  <2> QED BY <1>1, <2>1
<1>3. Data(w) = Begin(l, s, n - 1) /\ ToGo(w) = c - (n - 1)
  BY DEF ShortTextAt
<1>4. chars \in Seq(Character) /\ Len(chars) = 4 /\ \A i \in 1 .. 4 : chars[i] = Char(l, s, n + i - 1)
  <2>1. 4 \in Nat
    OBVIOUS
  <2> QED BY <2>1, CharsSent
<1>5. e = Least(n + 4 - 1, c) /\ t = Least(Least(4, c - (n - 1)), 4)
  BY <1>3, <1>4 DEF ShortUpTo, Taken4
<1> HIDE DEF c, n, t
<1>6. e \in Nat /\ t \in Nat /\ t = e - (n - 1) /\ t >= 1 /\ t <= 4 /\ (n - 1) + t = e /\ n - 1 \in Nat
  BY <1>2, <1>5 DEF Least
<1>7. more \in Seq(Character) /\ Len(more) = t /\ \A i \in 1 .. t : more[i] = chars[i]
  BY <1>4, <1>6
<1> HIDE DEF more
<1>8. \A i \in 1 .. t : more[i] = Char(l, s, (n - 1) + i)
  <2> TAKE i \in 1 .. t
  <2>1. i \in 1 .. 4 /\ (n - 1) + i = n + i - 1
    BY <1>2, <1>6
  <2> QED BY <1>4, <1>7, <2>1
<1>9. Begin(l, s, n - 1) \o more = Begin(l, s, (n - 1) + t)
  <2> HIDE DEF l, s
  <2> QED BY <1>1, <1>6, <1>7, <1>8, BeginJoined
<1>10. (c - (n - 1)) - t = c - e
  BY <1>2, <1>6
<1> QED BY <1>3, <1>6, <1>9, <1>10 DEF more, t, c

\* A label of one: its text.
LEMMA OneText == ASSUME NEW l \in Label \union ShortLabel PROVE Texts(<<l>>) = <<TextOf(l)>>
<1>1. <<>> \in Seq(Label \union ShortLabel) /\ Append(<<>>, l) = <<l>>
  OBVIOUS
<1>2. Texts(Append(<<>>, l)) = Append(Texts(<<>>), TextOf(l))
  BY <1>1, TextsMore
<1>3. Texts(<<>>) = <<>>
  BY TextsNone
<1>4. Append(<<>>, TextOf(l)) = <<TextOf(l)>>
  OBVIOUS
<1> QED BY <1>1, <1>2, <1>3, <1>4, Zenon

\* The text with a segment that is in.
LEMMA SegmentIn ==
  ASSUME NEW l \in Label \union ShortLabel, NEW s \in Segment(l)
  PROVE  /\ Begin(l, s, Characters[l][s]) # <<>>
         /\ Upto(l, s) \o Begin(l, s, Characters[l][s]) = Upto(l, s + 1) /\ Upto(l, s + 1) # <<>>
<1> DEFINE c == Characters[l][s]
           b == Begin(l, s, c)
           t == Upto(l, s)
<1>1. c \in Nat \ {0} /\ s \in Nat /\ s - 1 \in 0 .. Len(Characters[l])
  BY SegmentLength
<1>2. b \in Seq(Character) /\ Len(b) = c
  BY <1>1, BeginTyped
<1>3. t \in Seq(Character)
  BY <1>1, UptoTyped
<1>4. Upto(l, s + 1) = t \o b
  BY UptoNext
<1> HIDE DEF b, t, c
<1>5. b # <<>>
  BY <1>1, <1>2
<1>6. Len(t \o b) = Len(t) + Len(b) /\ Len(t) \in Nat
  BY <1>2, <1>3
<1>7. t \o b # <<>>
  <2>1. Len(t \o b) # 0
    BY <1>1, <1>2, <1>6
  <2> QED BY <2>1
<1> QED BY <1>4, <1>5, <1>7 DEF b, t, c

\* Four characters more.
LEMMA PlainTold ==
  ASSUME NEW w, NEW a, ShortAt(a), ShortBegin(w, a), a.label # None, a.n # 1,
         NEW b, b = ShortEnd(a, 4), NEW due,
         due = IF b.label = None /\ a.intact THEN <<a.label>> ELSE <<>>,
         NEW k \in BOOLEAN, k => a.clean \/ a.due # <<>>
  PROVE  ShortTold(ShortPlain(w, CharsFrom(a, 4)), b, a.intact, due, k)
<1> DEFINE chars == CharsFrom(a, 4)
           u == ShortPlain(w, chars)
           l == a.label
           s == a.segment
           n == a.n
           c == Characters[l][s]
           e == ShortUpTo(a, 4)
<1>1. w \in PadWork /\ w.shown = <<>> /\ ShortPlace(a) /\ a \in Program /\ a.intact \in BOOLEAN
  BY ProgramFields DEF ShortBegin, ShortAt
<1>2. l \in ShortLabel /\ s \in Segment(l) /\ n \in 1 .. c /\ l # None /\ l \in Label \union ShortLabel
  BY <1>1 DEF ShortPlace, AtPlace
<1>3. /\ c \in Nat /\ Len(Characters[l]) \in Nat /\ Len(Characters[l]) >= 2 /\ s \in Nat
      /\ s <= Len(Characters[l]) /\ n > 1 /\ n <= c /\ n \in Nat
  <2>1. c \in Nat /\ Len(Characters[l]) \in Nat /\ Len(Characters[l]) >= 2
    BY <1>2, ShortLabelLengths
  <2>2. s \in Nat /\ s <= Len(Characters[l])
    BY <1>2, SegmentLength
  <2>3. n # 1
    OBVIOUS
  <2> HIDE DEF n, c, s, l
  <2> QED BY <1>2, <2>1, <2>2, <2>3
<1>4. 4 \in Nat \ {0}
  OBVIOUS
<1>5. e \in n .. c /\ PlaceAfter(b, a, l, s, e) /\ ShortPlace(b)
  BY <1>1, <1>4, ShortEndPlace
<1>6. chars \in Seq(Character)
  BY <1>1, CharsSent
<1> HIDE DEF chars
<1>7. PlainShort(u, w, chars)
  BY <1>1, <1>6, ShortPlainMade
<1> HIDE DEF u
<1>8. u \in PadWork
  BY <1>7 DEF PlainShort
<1>9. CASE ~a.intact
  <2>1. k => a.intact
    BY Zenon DEF ShortBegin, ShortTracks
  <2>2. ~k /\ due = <<>>
    BY <1>9, <2>1
  <2>3. ShortTold(u, b, a.intact, <<>>, k)
    BY <1>1, <1>5, <1>8, <1>9, <2>2, NothingTold
  <2> QED BY <2>2, <2>3 DEF u, chars
<1>10. CASE a.intact
  <2>1. ShortTextAt(w, l, s, n)
    BY <1>2, <1>10 DEF ShortBegin
  <2>2. /\ Data(w) \o SubSeq(chars, 1, Taken4(w, chars, 4)) = Begin(l, s, e)
        /\ ToGo(w) - Taken4(w, chars, 4) = c - e
    BY <1>1, <1>2, <1>3, <2>1, SegmentTaken DEF chars
  <2>3. /\ Text(w) = Upto(l, s)
        /\ First(w) <=> s = 1
        /\ Final(w) <=> s = Len(Characters[l])
    BY <1>3, <2>1 DEF ShortTextAt
  <2>4. PICK new \in PadWork, text \in PadWork :
          /\ DataSet(new, w, Begin(l, s, e), c - e) /\ Flushed(text, new)
          /\ ToGo(new) # 0 \/ Data(new) = <<>> => u = new
          /\ ToGo(new) = 0 /\ Data(new) # <<>> =>
               IF ~First(text) /\ Final(text) THEN ShowsText(u, text) ELSE u = text
    BY <1>7, <2>2, Zenon DEF PlainShort
  <2>5. /\ Data(new) = Begin(l, s, e) /\ ToGo(new) = c - e /\ Text(new) = Upto(l, s)
        /\ new.shown = <<>> /\ text.shown = <<>>
        /\ Text(text) = Upto(l, s) \o Begin(l, s, e)
        /\ SameFlags(new, w) /\ SameFlags(text, w)
    BY <1>1, <2>3, <2>4, Zenon DEF DataSet, Flushed, SameFlags
  <2> HIDE DEF l, s, n, c, e
  <2>6. e \in Nat /\ e >= 1 /\ e <= c
    BY <1>3, <1>5
  <2>7. Texts(<<>>) = <<>> /\ Range(Texts(<<>>)) \subseteq Range(u.shown)
    BY TextsNone
  <2>8. CASE e # c
    <3>1. u = new
      <4>1. ToGo(new) # 0
        BY <1>3, <2>5, <2>6, <2>8
      <4> QED BY <2>4, <4>1
    <3>2. b.label = l /\ b.segment = s /\ b.n = e + 1 /\ due = <<>>
      <4>1. e < c /\ e # c
        BY <1>3, <2>6, <2>8
      <4>2. b.label = l /\ b.segment = s /\ b.n = e + 1
        BY <1>5, <4>1, Zenon DEF PlaceAfter, c
      <4> QED BY <1>2, <4>2 DEF l
    <3>3. ShortTextAt(u, b.label, b.segment, b.n)
      <4>1. (e + 1) - 1 = e
        BY <2>6
      <4>2. (First(u) <=> s = 1) /\ (Final(u) <=> s = Len(Characters[l]))
        BY <2>3, <2>5, <3>1, Zenon DEF SameFlags
      <4>3. Text(u) = Upto(l, s) /\ Data(u) = Begin(l, s, (e + 1) - 1) /\ ToGo(u) = c - ((e + 1) - 1)
        BY <2>5, <3>1, <4>1
      <4> QED BY <3>2, <4>2, <4>3, Zenon DEF ShortTextAt, c
    <3>4. ShortTracks(u, b, a.intact)
      BY <1>2, <1>10, <3>2, Zenon DEF ShortTracks
    <3>5. u.shown = <<>>
      BY <2>5, <3>1
    <3>6. ShortTold(u, b, a.intact, <<>>, k)
      BY <1>5, <1>8, <2>7, <3>3, <3>4, <3>5, Zenon DEF ShortTold
    <3> QED BY <3>2, <3>6 DEF u, chars
  <2>9. CASE e = c
    <3>1. /\ Begin(l, s, e) # <<>> /\ Upto(l, s) \o Begin(l, s, e) = Upto(l, s + 1)
          /\ Upto(l, s + 1) # <<>>
      BY <1>2, <2>9, SegmentIn DEF c
    <3>2. ToGo(new) = 0 /\ Data(new) # <<>> /\ Text(text) = Upto(l, s + 1)
      BY <1>3, <2>5, <2>9, <3>1
    <3>3. IF ~First(text) /\ Final(text) THEN ShowsText(u, text) ELSE u = text
      BY <2>4, <3>2
    <3>4. (First(text) <=> s = 1) /\ (Final(text) <=> s = Len(Characters[l]))
      BY <2>3, <2>5, Zenon DEF SameFlags
    <3>5. CASE s < Len(Characters[l])
      <4>1. u = text
        <5>1. s # Len(Characters[l])
          BY <1>3, <3>5
        <5> QED BY <3>3, <3>4, <5>1, Zenon
      <4>2. b.label = l /\ b.segment = s + 1 /\ b.n = 1 /\ due = <<>>
        BY <1>2, <1>3, <1>5, <2>9, <3>5 DEF PlaceAfter, c
      <4>3. ShortTextAt(u, b.label, b.segment, b.n)
        <5>1. ~(b.n > 1)
          BY <4>2
        <5> QED BY <3>2, <4>1, <4>2, <5>1, Zenon DEF ShortTextAt
      <4>4. ShortTracks(u, b, a.intact)
        BY <1>2, <1>10, <4>2, Zenon DEF ShortTracks
      <4>5. u.shown = <<>>
        BY <2>5, <4>1
      <4>6. ShortTold(u, b, a.intact, <<>>, k)
        BY <1>5, <1>8, <2>7, <4>3, <4>4, <4>5, Zenon DEF ShortTold
      <4> QED BY <4>2, <4>6 DEF u, chars
    <3>6. CASE s = Len(Characters[l])
      <4>1. ShowsText(u, text)
        <5>1. s # 1
          <6> DEFINE m == Len(Characters[l])
          <6>1. m >= 2 /\ m \in Nat /\ s = m
            BY <1>3, <3>6
          <6> HIDE DEF m
          <6> QED BY <6>1
        <5> QED BY <3>3, <3>4, <3>6, <5>1, Zenon
      <4>2. b.label = None /\ due = <<l>>
        BY <1>3, <1>5, <1>10, <2>9, <3>6 DEF PlaceAfter, c, l
      <4>3. Text(text) = TextOf(l)
        BY <1>2, <3>2, <3>6, TextWhole
      <4>4. u.shown = <<TextOf(l)>>
        <5>1. u.shown = Append(<<>>, TextOf(l))
          BY <2>5, <3>1, <3>2, <4>1, <4>3, Zenon DEF ShowsText, Shown1
        <5> QED BY <5>1
      <4>5. Texts(due) = u.shown
        BY <1>2, <4>2, <4>4, OneText
      <4>6. ShortTracks(u, b, a.intact)
        BY <4>1, <4>2, Zenon DEF ShortTracks, ShowsText
      <4>7. ShortTold(u, b, a.intact, due, k)
        <5>1. Range(Texts(due)) \subseteq Range(u.shown)
          BY <4>5
        <5> QED BY <1>5, <1>8, <4>2, <4>5, <4>6, <5>1, Zenon DEF ShortTold
      <4> QED BY <4>7 DEF u, chars
    <3> QED BY <1>3, <3>5, <3>6
  <2> QED BY <2>8, <2>9
<1> QED BY <1>1, <1>9, <1>10

-----------------------------------------------------------------------------
(* A label in short X-PAD over PADs.                                       *)

ShortTextInv == line = "short" => ShortGood(padwork, program)

\* What the broadcaster knows.
Noted(b, i, d, k) == [b EXCEPT !.intact = i, !.due = d, !.clean = k]

LEMMA NotedShort ==
  ASSUME NEW b \in Program, NEW i \in BOOLEAN, NEW d, NEW k \in BOOLEAN, NEW u,
         ShortTold(u, b, i, d, k)
  PROVE  ShortGood(u, Noted(b, i, d, k))
<1> DEFINE c == [b EXCEPT !.intact = i, !.due = d, !.clean = k]
<1>1. /\ c.label = b.label /\ c.segment = b.segment /\ c.n = b.n /\ c.command = b.command
      /\ c.intact = i /\ c.due = d /\ c.clean = k
  BY DEF Program
<1>2. Noted(b, i, d, k) = c
  BY DEF Noted
<1> HIDE DEF c
<1>3. ShortPlace(b) => ShortPlace(c)
  BY <1>1, Zenon DEF ShortPlace, AtPlace
<1>4. ShortTracks(u, b, i) => ShortTracks(u, c, i)
  BY <1>1, Zenon DEF ShortTracks
<1>5. ShortTold(u, c, i, d, k)
  BY <1>1, <1>3, <1>4, Zenon DEF ShortTold
<1>6. ShortGood(u, c)
  BY <1>1, <1>5, Zenon DEF ShortGood
<1> QED BY <1>2, <1>6

\* Another application, or nothing that can be read.
LEMMA OtherKept ==
  ASSUME NEW w \in PadWork, NEW a, NEW p \in {[kind |-> "none"]} \union {o.pad : o \in ShortOthers(a)}
  PROVE  processPAD(w, p) \in PadWork
<1>1. CASE p = [kind |-> "none"]
  BY <1>1 DEF processPAD
<1>2. CASE p \in {o.pad : o \in ShortOthers(a)}
  <2>1. PICK x \in Flags : p = [kind |-> "other", first |-> x.first, last |-> x.last]
    BY <1>2 DEF ShortOthers
  <2>2. p.kind = "other" /\ p.first \in BOOLEAN /\ p.last \in BOOLEAN
    BY <2>1 DEF Flags
  <2>3. processPAD(w, p) = ShortOther(w, p)
    BY <2>2 DEF processPAD
  <2> QED BY <2>2, <2>3, ShortOtherOK
<1> QED BY <1>1, <1>2

\* A PAD that came.
LEMMA ShortPadTold ==
  ASSUME NEW w, NEW a, ShortAt(a), ShortBegin(w, a),
         NEW sent \in ShortStarts(a) \union ShortContinues(a) \union ShortOthers(a),
         NEW k \in BOOLEAN,
         k <=> (sent.pad.kind \in {"start", "short"} /\ (a.clean \/ a.due # <<>>))
  PROVE  /\ ShortTold(processPAD(w, sent.pad), sent.air, sent.came, sent.due, k)
         /\ ShortPlace(sent.air)
<1>1. w \in PadWork /\ ShortPlace(a) /\ a \in Program
  BY DEF ShortBegin, ShortAt
<1> SUFFICES ShortTold(processPAD(w, sent.pad), sent.air, sent.came, sent.due, k)
  BY Zenon DEF ShortTold
<1>2. k => a.clean \/ a.due # <<>>
  OBVIOUS
<1>3. FALSE \in BOOLEAN
  OBVIOUS
<1>4. CASE sent \in ShortStarts(a)
  <2>1. sent.pad.kind = "start"
    BY <1>4 DEF ShortStarts
  <2>2. processPAD(w, sent.pad) = ShortStart(w, sent.pad)
    BY <2>1 DEF processPAD
  <2>3. ShortTold(ShortStart(w, sent.pad), sent.air, sent.came, sent.due, k)
    BY <1>2, <1>4, StartTold
  <2> QED BY <2>2, <2>3, Zenon
<1>5. CASE sent \in ShortContinues(a)
  <2>1. a.label # None /\ a.n # 1
    BY <1>5 DEF ShortContinues
  <2>2. CASE sent = [pad |-> [kind |-> "short", chars |-> CharsFrom(a, 4)], came |-> a.intact,
                     due |-> IF ShortEnd(a, 4).label = None /\ a.intact THEN <<a.label>> ELSE <<>>,
                     air |-> ShortEnd(a, 4)]
    <3>1. /\ sent.pad.kind = "short" /\ sent.pad.chars = CharsFrom(a, 4) /\ sent.came = a.intact
          /\ sent.air = ShortEnd(a, 4)
          /\ sent.due = IF sent.air.label = None /\ a.intact THEN <<a.label>> ELSE <<>>
      BY <2>2
    <3>2. processPAD(w, sent.pad) = ShortPlain(w, CharsFrom(a, 4))
      BY <3>1 DEF processPAD
    <3>3. ShortTold(ShortPlain(w, CharsFrom(a, 4)), sent.air, a.intact, sent.due, k)
      BY <1>2, <2>1, <3>1, PlainTold
    <3> QED BY <3>1, <3>2, <3>3, Zenon
  <2>3. CASE \E x \in Flags :
               sent = [pad |-> [kind |-> "more", chars |-> CharsFrom(a, 3),
                                first |-> x.first, last |-> x.last],
                       came |-> FALSE, due |-> <<>>, air |-> ShortEnd(a, 3)]
    <3>1. /\ sent.pad.kind = "more" /\ sent.pad.chars = CharsFrom(a, 3) /\ sent.came = FALSE
          /\ sent.due = <<>> /\ sent.air = ShortEnd(a, 3)
          /\ sent.pad.first \in BOOLEAN /\ sent.pad.last \in BOOLEAN
      BY <2>3 DEF Flags
    <3>2. processPAD(w, sent.pad) = ShortMore(w, sent.pad)
      BY <3>1 DEF processPAD
    <3>3. sent.pad.chars \in Seq(Character)
      <4>1. 3 \in Nat
        OBVIOUS
      <4> QED BY <1>1, <2>1, <3>1, <4>1, CharsSent
    <3>4. ShortMore(w, sent.pad) \in PadWork
      BY <1>1, <3>1, <3>3, ShortMoreOK
    <3>5. ShortPlace(ShortEnd(a, 3))
      <4>1. 3 \in Nat \ {0}
        OBVIOUS
      <4> QED BY <1>1, <2>1, <4>1, ShortEndPlace
    <3>6. ~k
      BY <3>1
    <3>7. ShortTold(ShortMore(w, sent.pad), ShortEnd(a, 3), FALSE, <<>>, k)
      BY <1>3, <3>4, <3>5, <3>6, NothingTold, Zenon
    <3> QED BY <3>1, <3>2, <3>7, Zenon
  <2> QED BY <1>5, <2>1, <2>2, <2>3 DEF ShortContinues
<1>6. CASE sent \in ShortOthers(a)
  <2>1. sent.pad.kind = "other" /\ sent.came = FALSE /\ sent.due = <<>> /\ sent.air = a
    BY <1>6 DEF ShortOthers
  <2>2. processPAD(w, sent.pad) \in PadWork
    BY <1>1, <1>6, OtherKept
  <2>3. ~k
    BY <2>1
  <2>4. ShortTold(processPAD(w, sent.pad), a, FALSE, <<>>, k)
    BY <1>1, <1>3, <2>2, <2>3, NothingTold, Zenon
  <2> QED BY <2>1, <2>4, Zenon
<1> QED BY <1>4, <1>5, <1>6

\* padHandler is new.
LEMMA NewShort ==
  ASSUME NEW st \in PadStatics
  PROVE  LET w == Working(NewPadHandler, st) IN
         w \in PadWork /\ Text(w) = <<>> /\ w.shown = <<>>
<1>1. Working(NewPadHandler, st) \in PadWork
  BY NewPadWork
<1> QED BY <1>1 DEF Working, NewPadHandler, Text

LEMMA ShortTextInit == ASSUME Init PROVE ShortTextInv
<1> SUFFICES ASSUME line = "short" PROVE ShortGood(padwork, program)
  BY DEF ShortTextInv
<1> DEFINE w == Working(NewPadHandler, NewStatics)
           a == NoProgram
<1>1. padwork = w /\ program = a
  BY DEF Init, thePad
<1>2. NewStatics \in PadStatics
  BY DEF NewStatics, PadStatics
<1>3. w \in PadWork /\ Text(w) = <<>> /\ w.shown = <<>>
  BY <1>2, NewShort
<1>4. a.label = None /\ a.n = 1 /\ a.command = FALSE /\ a.intact = FALSE /\ a.due = <<>>
  BY DEF NoProgram
<1> HIDE DEF w, a
<1>5. ShortPlace(a)
  BY <1>4 DEF ShortPlace, AtPlace
<1>6. ShortTracks(w, a, FALSE)
  BY <1>3, <1>4, Zenon DEF ShortTracks
<1>7. Texts(<<>>) = <<>> /\ Range(Texts(<<>>)) \subseteq Range(w.shown)
  BY TextsNone
<1>8. ShortGood(w, a)
  BY <1>3, <1>4, <1>5, <1>6, <1>7, Zenon DEF ShortGood, ShortTold
<1> QED BY <1>1, <1>8

LEMMA ShortFrameTold ==
  ASSUME line = "short", ShortAt(program), ShortGood(padwork, program), ShortFrame
  PROVE  ShortGood(padwork', program')
<1> DEFINE a == program
           w == Lost(padwork)
<1>1. ShortBegin(w, a)
  BY LostShort
<1>2. PICK sent \in ShortStarts(a) \union ShortContinues(a) \union ShortOthers(a) :
        \/ /\ padwork' = processPAD(w, sent.pad)
           /\ program' = Noted(sent.air, sent.came, sent.due,
                               sent.pad.kind \in {"start", "short"} /\ (a.clean \/ a.due # <<>>))
        \/ /\ \E garbage \in {[kind |-> "none"]} \union {o.pad : o \in ShortOthers(a)} :
                padwork' = processPAD(w, garbage)
           /\ program' = Noted(sent.air, FALSE, <<>>, FALSE)
  BY DEF ShortFrame, Noted
<1>3. w \in PadWork
  BY <1>1 DEF ShortBegin
<1> HIDE DEF w
<1>4. sent.air \in Program /\ sent.came \in BOOLEAN /\ sent.due \in Seq(Label \union ShortLabel)
  BY ShortSent DEF ShortSentOK, ShortAt
<1> HIDE DEF a
<1>5. ShortAt(a)
  BY DEF a
<1> DEFINE k == sent.pad.kind \in {"start", "short"} /\ (a.clean \/ a.due # <<>>)
<1>6. k \in BOOLEAN
  OBVIOUS
<1>7. k <=> (sent.pad.kind \in {"start", "short"} /\ (a.clean \/ a.due # <<>>))
  OBVIOUS
<1>8. \/ padwork' = processPAD(w, sent.pad) /\ program' = Noted(sent.air, sent.came, sent.due, k)
      \/ /\ \E garbage \in {[kind |-> "none"]} \union {o.pad : o \in ShortOthers(a)} :
              padwork' = processPAD(w, garbage)
         /\ program' = Noted(sent.air, FALSE, <<>>, FALSE)
  BY <1>2, Zenon
<1> HIDE DEF k
<1>9. ShortTold(processPAD(w, sent.pad), sent.air, sent.came, sent.due, k) /\ ShortPlace(sent.air)
  BY <1>1, <1>5, <1>6, <1>7, ShortPadTold
<1>10. CASE padwork' = processPAD(w, sent.pad)
              /\ program' = Noted(sent.air, sent.came, sent.due, k)
  <2>1. ShortGood(processPAD(w, sent.pad), Noted(sent.air, sent.came, sent.due, k))
    BY <1>4, <1>6, <1>9, NotedShort
  <2> QED BY <1>10, <2>1, Zenon
<1>11. ASSUME NEW garbage \in {[kind |-> "none"]} \union {o.pad : o \in ShortOthers(a)},
              padwork' = processPAD(w, garbage), program' = Noted(sent.air, FALSE, <<>>, FALSE)
       PROVE  ShortGood(padwork', program')
  <2>1. processPAD(w, garbage) \in PadWork
    BY <1>3, OtherKept
  <2>2. PICK no \in BOOLEAN : no = FALSE
    OBVIOUS
  <2>3. ShortTold(processPAD(w, garbage), sent.air, no, <<>>, no)
    BY <1>9, <2>1, <2>2, NothingTold, Zenon
  <2>4. ShortGood(processPAD(w, garbage), Noted(sent.air, no, <<>>, no))
    BY <1>4, <2>3, NotedShort
  <2> QED BY <1>11, <2>2, <2>4, Zenon
<1> QED BY <1>8, <1>10, <1>11

LEMMA ShortReset ==
  ASSUME line = "short", ShortAt(program), ShortGood(padwork, program), SelectAgain
  PROVE  ShortGood(padwork', program')
<1> DEFINE a == program
           b == [a EXCEPT !.intact = FALSE, !.entire = FALSE, !.due = <<>>,
                          !.arrived = <<>>, !.clean = FALSE, !.slide = None]
           w == Working(NewPadHandler, padwork.static)
<1>1. padwork' = w /\ program' = b
  BY DEF SelectAgain, thePad, PadLine
<1>2. padwork \in PadWork /\ ShortPlace(a) /\ a \in Program
  BY DEF ShortGood, ShortTold, ShortAt
<1>3. w \in PadWork
  <2>1. padwork.static \in PadStatics
    BY <1>2, PadWorkFields
  <2> QED BY <2>1, NewPadWork
<1> HIDE DEF w
<1>4. Placed(b, a)
  BY <1>2, ProgramReset
<1>5. b.intact = FALSE /\ b.due = <<>> /\ b.clean = FALSE
  BY <1>2, ResetKnows
<1> HIDE DEF a, b
<1>6. ShortPlace(b)
  BY <1>2, <1>4 DEF ShortPlace, AtPlace, Placed
<1>7. PICK no \in BOOLEAN : no = FALSE
  OBVIOUS
<1>8. ShortTold(w, b, no, <<>>, no)
  BY <1>3, <1>6, <1>7, NothingTold, Zenon
<1>9. ShortGood(w, b)
  BY <1>5, <1>7, <1>8, Zenon DEF ShortGood
<1> QED BY <1>1, <1>9

LEMMA ShortTextStep == ASSUME ShortInv, ShortTextInv, [Next]_vars PROVE ShortTextInv'
<1> SUFFICES ASSUME line = "short", ShortAt(program), ShortGood(padwork, program)
             PROVE  ShortGood(padwork', program')
  BY LineStays DEF ShortInv, ShortTextInv
<1>1. CASE UNCHANGED <<line, losses, apparatus>> \/ UNCHANGED vars
  <2>1. padwork' = padwork /\ program' = program
    BY <1>1 DEF vars, apparatus
  <2> QED BY <2>1
<1>2. CASE ShortFrame
  BY <1>2, ShortFrameTold
<1>3. CASE SelectAgain
  BY <1>3, ShortReset
<1> QED BY <1>1, <1>2, <1>3, ShortActions

-----------------------------------------------------------------------------
(* What a processor hands on, and the types of everything.                 *)

\* An object that is handed over, by motHandler from packets and from the PAD, has all
\* its segments; and the slide in the PAD is made of exactly the data groups that came
\* whole, whatever of the PADs around them was lost (padHandler::add_MSC_element).
THEOREM ObjectsHandedWhole == Spec => []ObjectsWhole
<1>1. Init => PadInv /\ PacketsInv
  BY PadInit, PacketsInit
<1>2. PadInv /\ PacketsInv /\ [Next]_vars => (PadInv /\ PacketsInv)'
  BY PadStep, PacketsStep
<1>3. PadInv /\ PacketsInv => ObjectsWhole
  <2> SUFFICES ASSUME PadInv, PacketsInv PROVE ObjectsWhole
    OBVIOUS
  <2>1. ASSUME line \in PadLine
        PROVE  /\ \A i \in DOMAIN padwork.handed :
                    padwork.handed[i].motMap = AllOf(padwork.handed[i].transportId)
               /\ SlideOK(padwork.pad.currentSlide, program.slide)
    <3>1. padwork \in PadWork /\ SlideOK(padwork.pad.currentSlide, program.slide)
      BY <2>1 DEF PadInv, PadOK, PadGood, GroupState
    <3>2. padwork.handed \in Seq(WholeObject)
      BY <3>1, PadWorkFields
    <3>3. \A i \in DOMAIN padwork.handed : padwork.handed[i] \in WholeObject
      BY <3>2
    <3> QED BY <3>1, <3>3 DEF WholeObject
  <2>2. ASSUME line = "packets", data.mot.handed # None
        PROVE  data.mot.handed.motMap = AllOf(data.mot.handed.transportId)
    <3>1. data \in Processor
      BY <2>2 DEF PacketsInv, PacketsOK
    <3>2. data.mot.handed \in WholeObject
      BY <2>2, <3>1, ProcessorFields, HandlerMembers
    <3> QED BY <3>2 DEF WholeObject
  <2> QED BY <2>1, <2>2, Zenon DEF ObjectsWhole, SlideOK
<1> QED BY <1>1, <1>2, <1>3, PTL DEF Spec

\* On every line.
LossesInv == line \in Line /\ losses \in 0 .. MaxLosses

LEMMA LossesInit == ASSUME Init PROVE LossesInv
<1>1. MaxLosses \in Nat
  BY BackendsAssumption DEF BackendsAssumption
<1> QED BY <1>1 DEF Init, LossesInv

LEMMA LossesStep == ASSUME LossesInv, [Next]_vars PROVE LossesInv'
<1> SUFFICES ASSUME losses \in 0 .. MaxLosses PROVE losses' \in 0 .. MaxLosses
  BY LineStays DEF LossesInv
<1>1. Loses \/ UNCHANGED losses => losses' \in 0 .. MaxLosses
  BY LossesOK
<1>2. CASE UNCHANGED vars
  BY <1>1, <1>2 DEF vars
<1>3. CASE \/ \E c \in Condition, accident \in BOOLEAN : SuperframePart(c, accident)
           \/ DabFrame \/ DisturbedFrame \/ GoodPacket \/ Coding
  BY <1>1, <1>3 DEF SuperframePart, DabFrame, DisturbedFrame, GoodPacket, Coding
<1>4. CASE DamagedPacket \/ PaddingPacket \/ CodingLoss \/ SelectAgain
  BY <1>1, <1>4 DEF DamagedPacket, PaddingPacket, CodingLoss, SelectAgain
<1>5. CASE AccessUnit
  <2>1. Loses \/ UNCHANGED losses
    BY <1>5 DEF AccessUnit
  <2> QED BY <1>1, <2>1
<1>6. CASE ShortFrame
  <2>1. Loses \/ UNCHANGED losses
    BY <1>6 DEF ShortFrame
  <2> QED BY <1>1, <2>1
<1> QED BY <1>2, <1>3, <1>4, <1>5, <1>6 DEF Next

BackendsInv ==
  LossesInv /\ SuperframeInv /\ Mp2Inv /\ PadInv /\ ShortInv /\ FicInv /\ PacketsInv

\* The processor is always that of the line, and nothing that waits outgrows what it
\* waits for: the data group of a PAD the length it was announced with, motTable its
\* size, the bits of an audio frame two DAB frames, the FIC its blocks.
THEOREM BackendsTypeCorrect == Spec => []TypeOK
<1>1. Init => BackendsInv
  BY LossesInit, SuperframeInit, Mp2Init, PadInit, ShortInit, FicInit, PacketsInit DEF BackendsInv
<1>2. BackendsInv /\ [Next]_vars => BackendsInv'
  BY LossesStep, SuperframeStep, Mp2Step, PadStep, ShortStep, FicStep, PacketsStep DEF BackendsInv
<1>3. BackendsInv => TypeOK
  <2> SUFFICES ASSUME BackendsInv PROVE TypeOK
    OBVIOUS
  <2>1. /\ LossesInv /\ SuperframeInv /\ Mp2Inv /\ PadInv /\ ShortInv /\ FicInv /\ PacketsInv
    BY DEF BackendsInv
  <2>2. ASSUME line \in Mp4Line
        PROVE  audio.blockFillIndex \in 0 .. Parts - 1 /\ audio.processed \in BOOLEAN
    <3>1. CASE line = "superframes"
      <4>1. audio \in Mp4State
        BY <2>1, <3>1 DEF SuperframeInv, Mp4OK
      <4> QED BY <4>1 DEF Mp4State
    <3>2. CASE line \in PadLine
      <4>1. audio = mp4Processor
        BY <2>1, <3>2 DEF PadInv, PadOK
      <4>2. mp4Processor \in Mp4State
        BY NothingRecent
      <4> QED BY <4>1, <4>2 DEF Mp4State
    <3> QED BY <2>2, <3>1, <3>2 DEF Mp4Line
  <2>3. ASSUME line \in Mp2Line
        PROVE  /\ audio.MP2Header_OK \in {0, 2} /\ audio.baudRate \in Rate
               /\ audio.MP2bitCount \in 0 .. 2 * Units
    <3>1. audio \in Mp2State
      BY <2>1, <2>3 DEF Mp2Inv, Mp2OK, Settled
    <3> QED BY <3>1, Mp2Fields
  <2>4. line \in PadLine \union {"short"} => program \in Program
    BY <2>1 DEF PadInv, PadOK, PadGood, GroupState, ShortInv, ShortAt
  <2>5. line \in PadLine /\ padwork.pad.mscGroupElement =>
          Len(padwork.pad.msc_dataGroupBuffer) < padwork.pad.dataGroupLength
    BY <2>1 DEF PadInv, PadOK, PadGood, GroupState, GroupsOK, ElementOK
  <2>6. line = "fic" => coding.handler.index < UnitsOfFic /\ coding.handler.ficno \in 0 .. 4
    BY <2>1, FicPlaces
  <2>7. ASSUME line = "packets"
        PROVE  /\ data.expectedIndex \in 0 .. 3 /\ data.packetState \in {0, 1}
               /\ Len(data.mot.motTable) <= TableSize
               /\ service.clean \in 0 .. CleanMost
    <3>1. data \in Processor /\ service \in ServiceState
      BY <2>1, <2>7 DEF PacketsInv, PacketsOK
    <3> QED BY <3>1, ProcessorFields, HandlerMembers, ServiceFields
  <2>8. line \in Line /\ losses \in 0 .. MaxLosses
    BY <2>1 DEF LossesInv
  <2> QED BY <2>2, <2>3, <2>4, <2>5, <2>6, <2>7, <2>8, Zenon DEF TypeOK
<1> QED BY <1>1, <1>2, <1>3, PTL DEF Spec
\* A label of which every part came is shown, whole, and while nothing is lost no other
\* text is: not in variable X-PAD, where the text is put together from subfields
\* (padHandler::dynamicLabel), and not in short X-PAD (padHandler::handle_shortPAD).
THEOREM LabelsShownWhole == Spec => []LabelsShown
<1> DEFINE Inv == PadInv /\ LabelInv /\ ShortInv /\ ShortTextInv
<1>1. Init => Inv
  BY PadInit, LabelInit, ShortInit, ShortTextInit
<1>2. Inv /\ [Next]_vars => Inv'
  <2> SUFFICES ASSUME Inv, [Next]_vars PROVE Inv'
    OBVIOUS
  <2>1. PadInv' /\ LabelInv'
    BY PadStep, LabelStep
  <2>2. ShortInv' /\ ShortTextInv'
    BY ShortStep, ShortTextStep
  <2> QED BY <2>1, <2>2
<1>3. Inv => LabelsShown
  <2> SUFFICES ASSUME Inv PROVE LabelsShown
    OBVIOUS
  <2> DEFINE a == program
             w == padwork
  <2>1. ASSUME line \in PadLine \union {"short"}
        PROVE  /\ Range(Texts(a.due)) \subseteq Range(w.shown)
               /\ a.clean => w.shown = Texts(a.due)
    <3>1. CASE line \in PadLine
      <4>1. LabelGood(w, a)
        BY <3>1 DEF LabelInv
      <4> QED BY <4>1, Zenon DEF LabelGood, TextState, Told
    <3>2. CASE line = "short"
      <4>1. ShortGood(w, a)
        BY <3>2 DEF ShortTextInv
      <4> QED BY <4>1, Zenon DEF ShortGood, ShortTold
    <3> QED BY <2>1, <3>1, <3>2
  <2> QED BY <2>1, Zenon DEF LabelsShown, Texts
<1> HIDE DEF Inv
<1> QED BY <1>1, <1>2, <1>3, PTL DEF Spec
==============================================================================
