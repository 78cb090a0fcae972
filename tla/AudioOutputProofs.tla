-------------------------- MODULE AudioOutputProofs --------------------------
(***************************************************************************)
(* Proofs about SampleRing, for every size, amount and set of elements,    *)
(* and about AudioOutput, for all rates, frames, chunks and rooms: sound   *)
(* uses the ring buffer as SampleRing says, and keeps its sides.           *)
(***************************************************************************)
EXTENDS MCBuffers, SequenceTheorems, TLAPS

-----------------------------------------------------------------------------
(* Arithmetic of the indices.                                              *)

\* A remainder by cases, as long as four times the modulus is not reached.
LEMMA ModCases ==
  ASSUME NEW n \in Nat \ {0}, NEW a \in 0 .. 4 * n - 1
  PROVE  a % n = IF a < n THEN a ELSE IF a < 2 * n THEN a - n
                 ELSE IF a < 3 * n THEN a - 2 * n ELSE a - 3 * n
OBVIOUS

\* The distance of the indices, without a remainder.
LEMMA Distance ==
  ASSUME NEW w \in Index, NEW r \in Index
  PROVE  (w + (2 * Size - r)) % (2 * Size) = IF w < r THEN (w - r) + 2 * Size ELSE w - r
<1> DEFINE n == 2 * Size
           a == w + (2 * Size - r)
<1>1. n \in Nat \ {0} /\ a \in 0 .. 4 * n - 1 /\ (a < n <=> w < r) /\ a < 2 * n
  BY RingAssumption DEF RingAssumption, Index
<1>2. a % n = IF a < n THEN a ELSE a - n
  <2> HIDE DEF n, a
  <2> QED BY <1>1, ModCases
<1> QED
  BY <1>1, <1>2, RingAssumption DEF RingAssumption, Index

\* An advanced index is an index.
LEMMA IndexAdvance ==
  ASSUME NEW x \in Index, NEW d \in 0 .. Size
  PROVE  /\ (x + d) % (2 * Size) = IF x + d < 2 * Size THEN x + d ELSE (x + d) - 2 * Size
         /\ (x + d) % (2 * Size) \in Index
<1> DEFINE n == 2 * Size
           a == x + d
<1>1. n \in Nat \ {0} /\ a \in 0 .. 4 * n - 1 /\ a < 2 * n
  BY RingAssumption DEF RingAssumption, Index
<1>2. a % n = IF a < n THEN a ELSE a - n
  <2> HIDE DEF n, a
  <2> QED BY <1>1, ModCases
<1> QED
  BY <1>1, <1>2, RingAssumption DEF RingAssumption, Index

\* The slot of an index, by cases.
LEMMA SlotCases ==
  ASSUME NEW x \in Index, NEW k \in 0 .. 2 * Size
  PROVE  /\ (x + k) % Size = IF x + k < Size THEN x + k
                             ELSE IF x + k < 2 * Size THEN (x + k) - Size
                             ELSE IF x + k < 3 * Size THEN (x + k) - 2 * Size
                             ELSE (x + k) - 3 * Size
         /\ (x + k) % Size \in 0 .. Size - 1
<1> DEFINE a == x + k
<1>1. Size \in Nat \ {0} /\ a \in 0 .. 4 * Size - 1
  BY RingAssumption DEF RingAssumption, Index
<1>2. a % Size = IF a < Size THEN a ELSE IF a < 2 * Size THEN a - Size
                 ELSE IF a < 3 * Size THEN a - 2 * Size ELSE a - 3 * Size
  <2> HIDE DEF a
  <2> QED BY <1>1, ModCases
<1> QED
  BY <1>1, <1>2

\* Fewer than Size steps apart, two slots differ.
LEMMA SlotsDiffer ==
  ASSUME NEW x \in Index, NEW j \in 0 .. Size - 1, NEW k \in 0 .. Size - 1, j # k
  PROVE  (x + j) % Size # (x + k) % Size
<1>1. x \in Int /\ 0 <= x /\ x < 2 * Size /\ Size \in Nat \ {0}
  BY RingAssumption DEF RingAssumption, Index
<1>2. j \in 0 .. 2 * Size /\ k \in 0 .. 2 * Size
  BY <1>1
<1> DEFINE a == (x + j) % Size
           b == (x + k) % Size
<1>3. a = IF x + j < Size THEN x + j
          ELSE IF x + j < 2 * Size THEN (x + j) - Size
          ELSE IF x + j < 3 * Size THEN (x + j) - 2 * Size
          ELSE (x + j) - 3 * Size
  BY <1>2, SlotCases
<1>4. b = IF x + k < Size THEN x + k
          ELSE IF x + k < 2 * Size THEN (x + k) - Size
          ELSE IF x + k < 3 * Size THEN (x + k) - 2 * Size
          ELSE (x + k) - 3 * Size
  BY <1>2, SlotCases
<1> HIDE DEF a, b
<1>5. a # b
  BY <1>1, <1>3, <1>4
<1> QED
  BY <1>5 DEF a, b

\* The slot after an advance is counted on from the slot before it.
LEMMA SlotShift ==
  ASSUME NEW x \in Index, NEW d \in 0 .. Size, NEW k \in 0 .. Size
  PROVE  (((x + d) % (2 * Size)) + k) % Size = (x + (d + k)) % Size
<1>1. x \in Int /\ 0 <= x /\ x < 2 * Size /\ Size \in Nat \ {0}
  BY RingAssumption DEF RingAssumption, Index
<1> DEFINE y == (x + d) % (2 * Size)
           e == d + k
           a == (y + k) % Size
           b == (x + e) % Size
<1>2. /\ y = IF x + d < 2 * Size THEN x + d ELSE (x + d) - 2 * Size
      /\ y \in Index
  BY IndexAdvance
<1>3. k \in 0 .. 2 * Size /\ e \in 0 .. 2 * Size
  BY <1>1
<1>4. b = IF x + e < Size THEN x + e
          ELSE IF x + e < 2 * Size THEN (x + e) - Size
          ELSE IF x + e < 3 * Size THEN (x + e) - 2 * Size
          ELSE (x + e) - 3 * Size
  <2> HIDE DEF e
  <2> QED BY <1>3, SlotCases
<1>5. a = IF y + k < Size THEN y + k
          ELSE IF y + k < 2 * Size THEN (y + k) - Size
          ELSE IF y + k < 3 * Size THEN (y + k) - 2 * Size
          ELSE (y + k) - 3 * Size
  <2> HIDE DEF y
  <2> QED BY <1>2, <1>3, SlotCases
<1>6. y \in Int /\ e = d + k
  BY <1>1, <1>2 DEF Index
<1> HIDE DEF a, b, y, e
<1>7. a = b
  BY <1>1, <1>2, <1>4, <1>5, <1>6
<1> QED
  BY <1>7 DEF a, b, y, e
-----------------------------------------------------------------------------
(* The inductive invariant.                                                *)

\* A thread outside its operation has nothing to write or to read.
Idle ==
  /\ ~writer.busy => Len(writer.data) = 0
  /\ ~reader.busy => reader.amount = 0

\* What the writer did is in the buffer.
Written ==
  \A k \in 0 .. writer.done - 1 :
    buffer[(writeIndex + k) % Size] = writer.data[k + 1]

\* What the reader copied is still in the buffer.
Copied ==
  \A k \in 0 .. Len(reader.data) - 1 :
    reader.data[k + 1] = buffer[(readIndex + k) % Size]

Inv == RingTypeOK /\ WithinSize /\ Idle /\ Written /\ Copied

\* The number of elements between the indices.
LEMMA AvailableCases ==
  ASSUME RingTypeOK
  PROVE  /\ ReadAvailable = IF writeIndex < readIndex
                            THEN (writeIndex - readIndex) + 2 * Size
                            ELSE writeIndex - readIndex
         /\ ReadAvailable \in Nat
<1>1. writeIndex \in Index /\ readIndex \in Index
  BY DEF RingTypeOK
<1>2. ReadAvailable = IF writeIndex < readIndex
                      THEN (writeIndex - readIndex) + 2 * Size
                      ELSE writeIndex - readIndex
  BY <1>1, Distance DEF ReadAvailable
<1> QED
  BY <1>1, <1>2, RingAssumption DEF RingAssumption, Index

\* The writer's slots are counted on from the reader's.
LEMMA WriteSlot ==
  ASSUME Inv, NEW k \in 0 .. Size
  PROVE  (writeIndex + k) % Size = (readIndex + (ReadAvailable + k)) % Size
<1>1. /\ readIndex \in Index /\ writeIndex \in Index
      /\ Len(writer.data) \in Nat
  BY LenProperties DEF Inv, RingTypeOK
<1>2. ReadAvailable \in 0 .. Size
  BY <1>1, AvailableCases, RingAssumption DEF Inv, WithinSize, RingAssumption
<1>3. (readIndex + ReadAvailable) % (2 * Size) = writeIndex
  <2>1. (readIndex + ReadAvailable) % (2 * Size) =
          IF readIndex + ReadAvailable < 2 * Size THEN readIndex + ReadAvailable
          ELSE (readIndex + ReadAvailable) - 2 * Size
    BY <1>1, <1>2, IndexAdvance
  <2> QED
    BY <1>1, <2>1, AvailableCases, RingAssumption DEF Inv, RingAssumption, Index
<1> QED
  BY <1>1, <1>2, <1>3, SlotShift

\* A slot the writer is to fill is none that the reader is to copy.
LEMMA SlotsApart ==
  ASSUME Inv, NEW j \in 0 .. Len(writer.data) - 1, NEW k \in 0 .. ReadAvailable - 1
  PROVE  (writeIndex + j) % Size # (readIndex + k) % Size
<1>1. /\ readIndex \in Index
      /\ Len(writer.data) \in Nat /\ Size \in Nat \ {0}
      /\ ReadAvailable \in Nat /\ ReadAvailable + Len(writer.data) <= Size
  BY LenProperties, AvailableCases, RingAssumption
     DEF Inv, RingTypeOK, WithinSize, RingAssumption
<1> DEFINE i == ReadAvailable + j
<1>2. i \in 0 .. Size - 1 /\ k \in 0 .. Size - 1 /\ i # k /\ j \in 0 .. Size
  BY <1>1
<1>3. (writeIndex + j) % Size = (readIndex + i) % Size
  BY <1>2, WriteSlot
<1>4. (readIndex + i) % Size # (readIndex + k) % Size
  <2> HIDE DEF i
  <2> QED BY <1>1, <1>2, SlotsDiffer
<1> QED
  BY <1>3, <1>4

\* The initial state.
LEMMA InvInit == RingInit => Inv
<1> SUFFICES ASSUME RingInit PROVE Inv
  OBVIOUS
<1> USE RingAssumption DEF RingAssumption
<1>1. RingTypeOK
  <2>1. << >> \in Seq(Element) /\ Len(<< >>) = 0
    BY EmptySeq
  <2>2. writeIndex \in Index /\ readIndex \in Index
    BY DEF RingInit, Index
  <2> QED
    BY <2>1, <2>2 DEF RingInit, NoPut, NoGet, RingTypeOK
<1>2. ReadAvailable = 0
  BY <1>1, AvailableCases DEF RingInit
<1> QED
  BY <1>1, <1>2 DEF RingInit, NoPut, NoGet, Inv, WithinSize, Idle, Written, Copied

\* The beginning of a put.
LEMMA InvPutBegin ==
  ASSUME Inv, NEW n \in Amount, NEW s \in [1 .. n -> Element], PutBegin(s)
  PROVE  Inv'
<1> USE RingAssumption DEF RingAssumption
<1> DEFINE m == AtMost(Len(s), WriteAvailable)
<1>1. s \in Seq(Element) /\ Len(s) \in Nat
  <2>1. n \in Nat
    BY RingAssumption DEF RingAssumption
  <2>2. s \in Seq(Element)
    BY <2>1, SeqDef
  <2> QED
    BY <2>2, LenProperties
<1>2. ReadAvailable \in 0 .. Size
  BY AvailableCases, LenProperties DEF Inv, RingTypeOK, WithinSize
<1>3. m \in 0 .. Len(s) /\ ReadAvailable + m <= Size
  BY <1>1, <1>2 DEF AtMost, WriteAvailable
<1> HIDE DEF m
<1>4. SubSeq(s, 1, m) \in Seq(Element) /\ Len(SubSeq(s, 1, m)) = m
  BY <1>1, <1>3, SubSeqProperties
<1>5. /\ writer' = [busy |-> TRUE, data |-> SubSeq(s, 1, m), done |-> 0]
      /\ UNCHANGED <<writeIndex, readIndex, buffer, reader, got>>
  BY DEF PutBegin, m
<1>6. RingTypeOK'
  BY <1>3, <1>4, <1>5 DEF Inv, RingTypeOK, Index
<1>7. WithinSize'
  BY <1>3, <1>4, <1>5 DEF Inv, WithinSize, ReadAvailable
<1>8. Idle' /\ Written' /\ Copied'
  BY <1>4, <1>5 DEF Inv, Idle, Written, Copied
<1> QED
  BY <1>6, <1>7, <1>8 DEF Inv

\* One element is written.
LEMMA InvPutElement == Inv /\ PutElement => Inv'
<1> SUFFICES ASSUME Inv, PutElement PROVE Inv'
  OBVIOUS
<1> USE RingAssumption DEF RingAssumption
<1> DEFINE p == (writeIndex + writer.done) % Size
<1>1. /\ Len(writer.data) \in Nat /\ writer.done \in Nat
      /\ writer.done < Len(writer.data) /\ Len(writer.data) <= Size
      /\ writeIndex \in Index /\ readIndex \in Index
      /\ writer.data[writer.done + 1] \in Element
  <2>1. writer.data \in Seq(Element) /\ Len(writer.data) \in Nat
    BY LenProperties DEF Inv, RingTypeOK
  <2>2. writer.done + 1 \in 1 .. Len(writer.data)
    BY <2>1 DEF PutElement, Inv, RingTypeOK
  <2> QED
    BY <2>1, <2>2, ElementOfSeq, AvailableCases DEF PutElement, Inv, RingTypeOK, WithinSize
<1>2. p \in 0 .. Size - 1
  <2>1. writer.done \in 0 .. 2 * Size
    BY <1>1
  <2> QED BY <1>1, <2>1, SlotCases
<1>3. /\ writer' = [writer EXCEPT !.done = @ + 1]
      /\ buffer' = [buffer EXCEPT ![p] = writer.data[writer.done + 1]]
      /\ UNCHANGED <<writeIndex, readIndex, reader, got>>
  BY DEF PutElement
<1>4. /\ writer'.busy = writer.busy /\ writer'.data = writer.data
      /\ writer'.done = writer.done + 1
      /\ writer' \in [busy : BOOLEAN, data : Seq(Element), done : Nat]
  <2>1. /\ writer \in [busy : BOOLEAN, data : Seq(Element), done : Nat]
        /\ writer.done + 1 \in Nat
    BY <1>1 DEF Inv, RingTypeOK
  <2> QED
    BY <1>3, <2>1
<1>5. RingTypeOK'
  <2>1. buffer' \in [0 .. Size - 1 -> Element]
    BY <1>1, <1>3 DEF Inv, RingTypeOK
  <2> QED
    BY <1>1, <1>3, <1>4, <2>1 DEF Inv, RingTypeOK, Index
<1>6. WithinSize' /\ Idle'
  BY <1>3, <1>4 DEF Inv, WithinSize, Idle, ReadAvailable
<1>7. Written'
  <2> SUFFICES ASSUME NEW k \in 0 .. writer.done
               PROVE  buffer'[(writeIndex + k) % Size] = writer.data[k + 1]
    BY <1>1, <1>3, <1>4 DEF Written
  <2>1. CASE k = writer.done
    BY <1>2, <1>3, <2>1 DEF Inv, RingTypeOK
  <2>2. CASE k # writer.done
    <3>1. k \in 0 .. writer.done - 1 /\ k \in 0 .. Size - 1 /\ writer.done \in 0 .. Size - 1
          /\ k \in 0 .. 2 * Size
      BY <1>1, <2>2
    <3>2. (writeIndex + k) % Size # p
      BY <1>1, <2>2, <3>1, SlotsDiffer
    <3>3. (writeIndex + k) % Size \in 0 .. Size - 1
      BY <1>1, <3>1, SlotCases
    <3>4. buffer'[(writeIndex + k) % Size] = buffer[(writeIndex + k) % Size]
      <4> DEFINE q == (writeIndex + k) % Size
      <4>1. q # p /\ q \in 0 .. Size - 1
        BY <3>2, <3>3
      <4> HIDE DEF p, q
      <4>2. buffer'[q] = buffer[q]
        BY <1>3, <4>1 DEF Inv, RingTypeOK
      <4> QED BY <4>2 DEF q
    <3> QED
      BY <3>1, <3>4 DEF Inv, Written
  <2> QED
    BY <2>1, <2>2
<1>8. Copied'
  <2> SUFFICES ASSUME NEW k \in 0 .. Len(reader.data) - 1
               PROVE  reader.data[k + 1] = buffer'[(readIndex + k) % Size]
    BY <1>3 DEF Copied
  <2> DEFINE q == (readIndex + k) % Size
  <2>1. k \in 0 .. ReadAvailable - 1 /\ k \in 0 .. 2 * Size
    BY <1>1, LenProperties, AvailableCases DEF Inv, RingTypeOK, WithinSize
  <2>2. writer.done \in 0 .. Len(writer.data) - 1
    BY <1>1
  <2>3. p # q
    BY <2>1, <2>2, SlotsApart
  <2>4. q \in 0 .. Size - 1
    BY <1>1, <2>1, SlotCases
  <2>5. buffer'[q] = buffer[q]
    <3> HIDE DEF p, q
    <3> QED BY <1>3, <2>3, <2>4 DEF Inv, RingTypeOK
  <2> QED
    BY <2>5 DEF Inv, Copied
<1> QED
  BY <1>5, <1>6, <1>7, <1>8 DEF Inv

\* The end of a put: that much more is there, and nothing is moved.
LEMMA PutAdvanced ==
  ASSUME Inv, PutAdvance
  PROVE  /\ writeIndex' \in Index
         /\ ReadAvailable' = ReadAvailable + Len(writer.data)
<1> USE RingAssumption DEF RingAssumption
<1> DEFINE d == Len(writer.data)
           w == (writeIndex + d) % (2 * Size)
<1>1. /\ writeIndex \in Index /\ readIndex \in Index
      /\ ReadAvailable \in Nat /\ d \in Nat /\ ReadAvailable + d <= Size
  BY LenProperties, AvailableCases DEF Inv, RingTypeOK, WithinSize
<1>2. d \in 0 .. Size
  BY <1>1
<1>3. w \in Index /\ w = IF writeIndex + d < 2 * Size THEN writeIndex + d
                         ELSE (writeIndex + d) - 2 * Size
  <2> HIDE DEF d
  <2> QED BY <1>1, <1>2, IndexAdvance
<1>4. writeIndex' = w /\ readIndex' = readIndex
  BY DEF PutAdvance
<1> HIDE DEF w, d
<1>5. ReadAvailable' = (w + (2 * Size - readIndex)) % (2 * Size)
  BY <1>4 DEF ReadAvailable
<1>6. ReadAvailable' = IF w < readIndex THEN (w - readIndex) + 2 * Size ELSE w - readIndex
  BY <1>1, <1>3, <1>5, Distance
<1>7. ReadAvailable = IF writeIndex < readIndex
                      THEN (writeIndex - readIndex) + 2 * Size
                      ELSE writeIndex - readIndex
  BY AvailableCases DEF Inv
<1>8. ReadAvailable' = ReadAvailable + d
  BY <1>1, <1>2, <1>3, <1>6, <1>7 DEF Index
<1> QED
  BY <1>3, <1>4, <1>8 DEF d

LEMMA InvPutAdvance == Inv /\ PutAdvance => Inv'
<1> SUFFICES ASSUME Inv, PutAdvance PROVE Inv'
  OBVIOUS
<1> USE RingAssumption DEF RingAssumption
<1>1. /\ writeIndex' \in Index
      /\ ReadAvailable' = ReadAvailable + Len(writer.data)
  BY PutAdvanced
<1>2. ReadAvailable \in Nat /\ Len(writer.data) \in Nat
  BY LenProperties, AvailableCases DEF Inv, RingTypeOK
<1>3. writer' = NoPut /\ UNCHANGED <<readIndex, buffer, reader, got>>
  BY DEF PutAdvance
<1>4. NoPut.data \in Seq(Element) /\ Len(NoPut.data) = 0 /\ NoPut.done = 0 /\ ~NoPut.busy
  BY EmptySeq DEF NoPut
<1>5. NoPut \in [busy : BOOLEAN, data : Seq(Element), done : Nat]
  BY EmptySeq DEF NoPut
<1>6. RingTypeOK'
  BY <1>1, <1>3, <1>4, <1>5 DEF Inv, RingTypeOK, Index
<1>7. WithinSize'
  BY <1>1, <1>2, <1>3, <1>4 DEF Inv, RingTypeOK, WithinSize
<1>8. Idle' /\ Written' /\ Copied'
  BY <1>3, <1>4 DEF Inv, Idle, Written, Copied
<1> QED
  BY <1>6, <1>7, <1>8 DEF Inv

\* The beginning of a get.
LEMMA InvGetBegin ==
  ASSUME Inv, NEW n \in Amount, GetBegin(n)
  PROVE  Inv'
<1> USE RingAssumption DEF RingAssumption
<1> DEFINE m == AtMost(n, ReadAvailable)
<1>1. n \in Nat
  BY RingAssumption
<1>2. ReadAvailable \in Nat
  BY AvailableCases DEF Inv
<1>3. m \in Nat /\ m <= ReadAvailable
  BY <1>1, <1>2 DEF AtMost
<1>4. /\ reader' = [busy |-> TRUE, amount |-> m, data |-> << >>]
      /\ UNCHANGED <<writeIndex, readIndex, buffer, writer, got>>
  BY DEF GetBegin
<1> HIDE DEF m
<1>5. << >> \in Seq(Element) /\ Len(<< >>) = 0
  BY EmptySeq
<1>6. RingTypeOK'
  BY <1>3, <1>4, <1>5 DEF Inv, RingTypeOK, Index
<1>7. WithinSize'
  BY <1>3, <1>4 DEF Inv, WithinSize, ReadAvailable
<1>8. Idle' /\ Written' /\ Copied'
  BY <1>4, <1>5 DEF Inv, Idle, Written, Copied
<1> QED
  BY <1>6, <1>7, <1>8 DEF Inv

\* One element is copied.
LEMMA InvGetElement == Inv /\ GetElement => Inv'
<1> SUFFICES ASSUME Inv, GetElement PROVE Inv'
  OBVIOUS
<1> USE RingAssumption DEF RingAssumption
<1> DEFINE l == Len(reader.data)
           q == (readIndex + l) % Size
           e == buffer[q]
<1>1. /\ reader.data \in Seq(Element) /\ l \in Nat /\ l < reader.amount
      /\ reader.amount \in Nat /\ reader.amount <= Size
      /\ readIndex \in Index
  <2>1. reader.data \in Seq(Element) /\ writer.data \in Seq(Element)
    BY DEF Inv, RingTypeOK
  <2>2. Len(reader.data) \in Nat /\ Len(writer.data) \in Nat
    BY <2>1, LenProperties
  <2>3. ReadAvailable \in Nat
    BY AvailableCases DEF Inv
  <2> QED
    BY <2>1, <2>2, <2>3 DEF Inv, RingTypeOK, WithinSize, GetElement
<1>2. q \in 0 .. Size - 1
  <2>1. l \in 0 .. 2 * Size
    BY <1>1
  <2> HIDE DEF l
  <2> QED BY <1>1, <2>1, SlotCases
<1>3. e \in Element
  <2> HIDE DEF q
  <2> QED BY <1>2 DEF Inv, RingTypeOK
<1>4. /\ reader' = [reader EXCEPT !.data = Append(@, e)]
      /\ UNCHANGED <<writeIndex, readIndex, buffer, writer, got>>
  BY DEF GetElement
<1> HIDE DEF e
<1> DEFINE t == Append(reader.data, e)
<1>5. /\ t \in Seq(Element) /\ Len(t) = l + 1
      /\ \A i \in 1 .. l : t[i] = reader.data[i]
      /\ t[l + 1] = e
  BY <1>1, <1>3, AppendProperties
<1> HIDE DEF t
<1>6. /\ reader'.busy = reader.busy /\ reader'.amount = reader.amount
      /\ reader'.data = t
      /\ reader' \in [busy : BOOLEAN, amount : Nat, data : Seq(Element)]
  <2>1. reader \in [busy : BOOLEAN, amount : Nat, data : Seq(Element)]
    BY DEF Inv, RingTypeOK
  <2> QED
    BY <1>4, <1>5, <2>1 DEF t
<1>7. RingTypeOK'
  BY <1>1, <1>4, <1>5, <1>6 DEF Inv, RingTypeOK, Index
<1>8. WithinSize' /\ Idle' /\ Written'
  BY <1>4, <1>6 DEF Inv, WithinSize, Idle, Written, ReadAvailable
<1>9. Copied'
  <2> SUFFICES ASSUME NEW k \in 0 .. l
               PROVE  t[k + 1] = buffer[(readIndex + k) % Size]
    BY <1>1, <1>4, <1>5, <1>6 DEF Copied
  <2>1. CASE k = l
    BY <1>5, <2>1 DEF e
  <2>2. CASE k # l
    <3>1. k \in 0 .. l - 1 /\ k + 1 \in 1 .. l
      BY <1>1, <2>2
    <3> QED
      BY <1>5, <3>1 DEF Inv, Copied
  <2> QED
    BY <2>1, <2>2
<1> QED
  BY <1>7, <1>8, <1>9 DEF Inv

\* The end of a get: that much less is there, and nothing is moved.
LEMMA GetAdvanced ==
  ASSUME Inv, GetAdvance
  PROVE  /\ readIndex' \in Index
         /\ ReadAvailable' = ReadAvailable - reader.amount
<1> USE RingAssumption DEF RingAssumption
<1> DEFINE d == reader.amount
           r == (readIndex + d) % (2 * Size)
<1>1. /\ writeIndex \in Index /\ readIndex \in Index
      /\ ReadAvailable \in Nat /\ d \in Nat /\ d <= ReadAvailable /\ ReadAvailable <= Size
  BY LenProperties, AvailableCases DEF Inv, RingTypeOK, WithinSize
<1>2. d \in 0 .. Size
  BY <1>1
<1>3. r \in Index /\ r = IF readIndex + d < 2 * Size THEN readIndex + d
                         ELSE (readIndex + d) - 2 * Size
  <2> HIDE DEF d
  <2> QED BY <1>1, <1>2, IndexAdvance
<1>4. readIndex' = r /\ writeIndex' = writeIndex
  BY DEF GetAdvance
<1> HIDE DEF r, d
<1>5. ReadAvailable' = (writeIndex + (2 * Size - r)) % (2 * Size)
  BY <1>4 DEF ReadAvailable
<1>6. ReadAvailable' = IF writeIndex < r THEN (writeIndex - r) + 2 * Size ELSE writeIndex - r
  BY <1>1, <1>3, <1>5, Distance
<1>7. ReadAvailable = IF writeIndex < readIndex
                      THEN (writeIndex - readIndex) + 2 * Size
                      ELSE writeIndex - readIndex
  BY AvailableCases DEF Inv
<1>8. ReadAvailable' = ReadAvailable - d
  BY <1>1, <1>2, <1>3, <1>6, <1>7 DEF Index
<1> QED
  BY <1>3, <1>4, <1>8 DEF d

LEMMA InvGetAdvance == Inv /\ GetAdvance => Inv'
<1> SUFFICES ASSUME Inv, GetAdvance PROVE Inv'
  OBVIOUS
<1> USE RingAssumption DEF RingAssumption
<1>1. /\ readIndex' \in Index
      /\ ReadAvailable' = ReadAvailable - reader.amount
  BY GetAdvanced
<1>2. ReadAvailable \in Nat /\ Len(writer.data) \in Nat
  BY LenProperties, AvailableCases DEF Inv, RingTypeOK
<1>3. reader' = NoGet /\ got' = reader.data /\ UNCHANGED <<writeIndex, buffer, writer>>
  BY DEF GetAdvance
<1>4. NoGet.data \in Seq(Element) /\ Len(NoGet.data) = 0 /\ NoGet.amount = 0 /\ ~NoGet.busy
  BY EmptySeq DEF NoGet
<1>5. NoGet \in [busy : BOOLEAN, amount : Nat, data : Seq(Element)]
  BY EmptySeq DEF NoGet
<1>6. RingTypeOK'
  BY <1>1, <1>3, <1>4, <1>5 DEF Inv, RingTypeOK, Index
<1>7. WithinSize'
  BY <1>1, <1>2, <1>3, <1>4 DEF Inv, RingTypeOK, WithinSize
<1>8. Idle' /\ Written' /\ Copied'
  BY <1>3, <1>4 DEF Inv, Idle, Written, Copied
<1> QED
  BY <1>6, <1>7, <1>8 DEF Inv

\* The buffer is emptied.
LEMMA InvFlush == Inv /\ Flush => Inv' /\ ReadAvailable' = 0
<1> SUFFICES ASSUME Inv, Flush PROVE Inv' /\ ReadAvailable' = 0
  OBVIOUS
<1> USE RingAssumption DEF RingAssumption
<1>1. /\ writeIndex' = 0 /\ readIndex' = 0 /\ ~writer.busy /\ ~reader.busy
      /\ UNCHANGED <<buffer, writer, reader, got>>
  BY DEF Flush
<1>2. 0 \in Index
  BY DEF Index
<1>3. ReadAvailable' = 0
  <2>1. (0 + (2 * Size - 0)) % (2 * Size) = 0
    BY <1>2, Distance
  <2> QED
    BY <1>1, <2>1 DEF ReadAvailable
<1>4. Len(writer.data) = 0 /\ reader.amount = 0 /\ writer.done = 0 /\ Len(reader.data) = 0
  BY <1>1, LenProperties DEF Inv, Idle, RingTypeOK
<1>5. RingTypeOK'
  BY <1>1, <1>2 DEF Inv, RingTypeOK, Index
<1>6. WithinSize' /\ Idle' /\ Written' /\ Copied'
  BY <1>1, <1>3, <1>4 DEF Inv, WithinSize, Idle, Written, Copied
<1> QED
  BY <1>3, <1>5, <1>6 DEF Inv

\* Every step keeps the invariant.
LEMMA InvStep == Inv /\ [RingNext]_ringVars => Inv'
<1> SUFFICES ASSUME Inv, [RingNext]_ringVars PROVE Inv'
  OBVIOUS
<1>1. CASE Writer
  BY <1>1, InvPutBegin, InvPutElement, InvPutAdvance DEF Writer
<1>2. CASE Reader
  BY <1>2, InvGetBegin, InvGetElement, InvGetAdvance DEF Reader
<1>3. CASE Flush
  BY <1>3, InvFlush
<1>4. CASE UNCHANGED ringVars
  BY <1>4 DEF ringVars, Inv, RingTypeOK, WithinSize, Idle, Written, Copied, ReadAvailable, Index
<1> QED
  BY <1>1, <1>2, <1>3, <1>4 DEF RingNext
-----------------------------------------------------------------------------
(* What follows from it.                                                   *)

\* The invariant holds in every state, whatever the threads interleave.
THEOREM RingInvariance == RingSpec => []Inv
BY InvInit, InvStep, PTL DEF RingSpec

\* Every variable of the ring buffer keeps its type; in particular the indices
\* stay in range after every advance.
THEOREM RingTypeCorrect == RingSpec => []RingTypeOK
<1>1. Inv => RingTypeOK
  BY DEF Inv
<1> QED
  BY <1>1, RingInvariance, PTL

\* A put and a get that both looked at older indices never take more, together,
\* than the buffer has room for.
THEOREM RingWithinSize == RingSpec => []WithinSize
<1>1. Inv => WithinSize
  BY DEF Inv
<1> QED
  BY <1>1, RingInvariance, PTL

\* The writer never fills a slot that the reader is still to copy.
THEOREM RingRegionsDisjoint == RingSpec => []RegionsDisjoint
<1>1. Inv => RegionsDisjoint
  <2> SUFFICES ASSUME Inv,
                      NEW j \in writer.done .. Len(writer.data) - 1,
                      NEW k \in Len(reader.data) .. reader.amount - 1
               PROVE  (writeIndex + j) % Size # (readIndex + k) % Size
    BY DEF RegionsDisjoint, WriteSlots, ReadSlots
  <2>1. /\ writer.done \in Nat /\ Len(writer.data) \in Nat
        /\ Len(reader.data) \in Nat /\ reader.amount \in Nat
        /\ reader.amount <= ReadAvailable /\ ReadAvailable \in Nat
    BY LenProperties, AvailableCases DEF Inv, RingTypeOK, WithinSize
  <2>2. j \in 0 .. Len(writer.data) - 1 /\ k \in 0 .. ReadAvailable - 1
    BY <2>1
  <2> QED
    BY <2>2, SlotsApart
<1> QED
  BY <1>1, RingInvariance, PTL
-----------------------------------------------------------------------------
(* The ring buffer is a queue.                                             *)

\* A function on 1 .. n is a sequence of length n.
LEMMA SeqOfLength ==
  ASSUME NEW S, NEW n \in Nat, NEW f \in [1 .. n -> S]
  PROVE  f \in Seq(S) /\ Len(f) = n
<1>1. f \in Seq(S)
  BY SeqDef
<1>2. Len(f) \in Nat /\ DOMAIN f = 1 .. Len(f)
  BY <1>1, LenProperties
<1>3. 1 .. Len(f) = 1 .. n
  BY <1>2
<1>4. \A a, b \in Nat : 1 .. a = 1 .. b => a = b
  <2> SUFFICES ASSUME NEW a \in Nat, NEW b \in Nat, 1 .. a = 1 .. b, a < b PROVE FALSE
    OBVIOUS
  <2>1. b \in 1 .. b /\ b \notin 1 .. a
    OBVIOUS
  <2> QED
    BY <2>1
<1> QED
  BY <1>1, <1>2, <1>3, <1>4

\* The content is a sequence of as many elements as are available.
ContentIs ==
  /\ ReadAvailable \in 0 .. Size
  /\ Content \in Seq(Element)
  /\ Len(Content) = ReadAvailable
  /\ \A k \in 1 .. ReadAvailable :
       Content[k] = buffer[(readIndex + (k - 1)) % Size]

LEMMA ContentProperties == Inv => ContentIs
<1> SUFFICES ASSUME Inv PROVE ContentIs
  OBVIOUS
<1> USE RingAssumption DEF RingAssumption
<1>1. ReadAvailable \in 0 .. Size /\ readIndex \in Index
  BY LenProperties, AvailableCases DEF Inv, RingTypeOK, WithinSize
<1>2. ASSUME NEW k \in 1 .. ReadAvailable
      PROVE  buffer[(readIndex + (k - 1)) % Size] \in Element
  <2> DEFINE j == k - 1
             q == (readIndex + j) % Size
  <2>1. j \in 0 .. 2 * Size
    BY <1>1
  <2>2. q \in 0 .. Size - 1
    <3> HIDE DEF j
    <3> QED BY <1>1, <2>1, SlotCases
  <2>3. buffer[q] \in Element
    <3> HIDE DEF q
    <3> QED BY <2>2 DEF Inv, RingTypeOK
  <2> QED
    BY <2>3
<1>3. Content \in [1 .. ReadAvailable -> Element]
  BY <1>2 DEF Content
<1>4. Content \in Seq(Element) /\ Len(Content) = ReadAvailable
  BY <1>1, <1>3, SeqOfLength
<1> QED
  BY <1>1, <1>4 DEF Content, ContentIs

\* And so it is after every step.
LEMMA ContentNext == Inv' => ContentIs'
BY ContentProperties, PTL

\* The end of a put is a Put.
LEMMA PutIsPut == Inv /\ PutAdvance => Queue!Put(writer.data)
<1> SUFFICES ASSUME Inv, PutAdvance PROVE Queue!Put(writer.data)
  OBVIOUS
<1> USE RingAssumption DEF RingAssumption
<1>1. Inv'
  BY InvPutAdvance
<1> DEFINE c == Content
           d == Content'
           s == writer.data
           n == ReadAvailable
<1>2. /\ n \in 0 .. Size /\ c \in Seq(Element) /\ Len(c) = n
      /\ \A k \in 1 .. n : c[k] = buffer[(readIndex + (k - 1)) % Size]
  BY ContentProperties DEF ContentIs
<1>3. /\ buffer' = buffer /\ readIndex' = readIndex /\ ReadAvailable' = n + Len(s)
      /\ UNCHANGED got
  BY PutAdvanced DEF PutAdvance
<1>4. /\ d \in Seq(Element) /\ Len(d) = n + Len(s)
      /\ \A k \in 1 .. n + Len(s) : d[k] = buffer[(readIndex + (k - 1)) % Size]
  <2>1. ContentIs'
    BY <1>1, ContentNext
  <2> QED
    BY <1>3, <2>1 DEF ContentIs
<1>5. /\ s \in Seq(Element) /\ Len(s) \in Nat /\ n + Len(s) <= Size
      /\ writer.done = Len(s)
  BY LenProperties DEF Inv, RingTypeOK, WithinSize, PutAdvance
<1>6. ASSUME NEW k \in 0 .. Len(s) - 1
      PROVE  s[k + 1] = buffer[(readIndex + (n + k)) % Size]
  <2>1. buffer[(writeIndex + k) % Size] = s[k + 1]
    BY <1>5 DEF Inv, Written
  <2>2. k \in 0 .. Size
    BY <1>2, <1>5
  <2>3. (writeIndex + k) % Size = (readIndex + (n + k)) % Size
    BY <2>2, WriteSlot
  <2> QED
    BY <2>1, <2>3
<1> HIDE DEF c, d, s, n
<1>7. /\ c \o s \in Seq(Element) /\ Len(c \o s) = n + Len(s)
      /\ \A k \in 1 .. n + Len(s) :
           (c \o s)[k] = IF k <= n THEN c[k] ELSE s[k - n]
  BY <1>2, <1>5, ConcatProperties
<1>8. ASSUME NEW k \in 1 .. n + Len(s)
      PROVE  d[k] = (c \o s)[k]
  <2>1. CASE k <= n
    <3>1. k \in 1 .. n
      BY <1>2, <2>1
    <3> QED
      BY <1>2, <1>4, <1>7, <2>1, <3>1
  <2>2. CASE ~(k <= n)
    <3> DEFINE j == k - n - 1
    <3>1. j \in 0 .. Len(s) - 1 /\ j + 1 = k - n /\ n + j = k - 1
      BY <1>2, <1>5, <2>2
    <3> HIDE DEF j
    <3>2. s[k - n] = buffer[(readIndex + (k - 1)) % Size]
      BY <1>6, <3>1
    <3> QED
      BY <1>4, <1>7, <2>2, <3>2
  <2> QED
    BY <2>1, <2>2
<1>9. d = c \o s
  <2>1. Len(d) = Len(c \o s) /\ \A k \in 1 .. Len(d) : d[k] = (c \o s)[k]
    BY <1>4, <1>7, <1>8
  <2> QED
    BY <1>4, <1>7, <2>1, SeqEqual
<1>10. Len(c) + Len(s) <= Size
  BY <1>2, <1>5
<1> QED
  BY <1>3, <1>9, <1>10 DEF c, d, s, n, Queue!Put

\* The end of a get is a Get.
LEMMA GetIsGet == Inv /\ GetAdvance => Queue!Get(reader.amount)
<1> SUFFICES ASSUME Inv, GetAdvance PROVE Queue!Get(reader.amount)
  OBVIOUS
<1> USE RingAssumption DEF RingAssumption
<1>1. Inv'
  BY InvGetAdvance
<1> DEFINE c == Content
           d == Content'
           s == reader.data
           m == reader.amount
           n == ReadAvailable
<1>2. /\ n \in 0 .. Size /\ c \in Seq(Element) /\ Len(c) = n
      /\ \A k \in 1 .. n : c[k] = buffer[(readIndex + (k - 1)) % Size]
  BY ContentProperties DEF ContentIs
<1>3. /\ s \in Seq(Element) /\ Len(s) = m /\ m \in Nat /\ m <= n
      /\ readIndex \in Index
  BY LenProperties DEF Inv, RingTypeOK, WithinSize, GetAdvance
<1>4. /\ buffer' = buffer /\ ReadAvailable' = n - m /\ got' = s
      /\ readIndex' = (readIndex + m) % (2 * Size)
  BY GetAdvanced DEF GetAdvance
<1>5. /\ d \in Seq(Element) /\ Len(d) = n - m
      /\ \A k \in 1 .. n - m : d[k] = buffer[(readIndex' + (k - 1)) % Size]
  <2>1. ContentIs'
    BY <1>1, ContentNext
  <2> QED
    BY <1>4, <2>1 DEF ContentIs
<1>6. ASSUME NEW k \in 0 .. m - 1
      PROVE  s[k + 1] = buffer[(readIndex + k) % Size]
  BY <1>3 DEF Inv, Copied
<1>7. ASSUME NEW k \in 1 .. n - m
      PROVE  (readIndex' + (k - 1)) % Size = (readIndex + (m + k - 1)) % Size
  <2> DEFINE j == k - 1
  <2>1. j \in 0 .. Size /\ m \in 0 .. Size /\ m + j = m + k - 1
    BY <1>2, <1>3
  <2> HIDE DEF j, m
  <2>2. (((readIndex + m) % (2 * Size)) + j) % Size = (readIndex + (m + j)) % Size
    BY <1>3, <2>1, SlotShift
  <2> QED
    BY <1>4, <2>1, <2>2 DEF j
<1> HIDE DEF c, d, s, m, n
<1>8. s = SubSeq(c, 1, m)
  <2> DEFINE t == SubSeq(c, 1, m)
  <2>1. /\ t \in Seq(Element) /\ Len(t) = m
        /\ \A k \in 1 .. m : t[k] = c[1 + k - 1]
    BY <1>2, <1>3, SubSeqProperties
  <2> HIDE DEF t
  <2>2. ASSUME NEW k \in 1 .. m
        PROVE  s[k] = t[k]
    <3> DEFINE j == k - 1
    <3>1. j \in 0 .. m - 1 /\ j + 1 = k /\ k \in 1 .. n /\ 1 + k - 1 = k
      BY <1>2, <1>3
    <3> HIDE DEF j
    <3>2. s[j + 1] = buffer[(readIndex + j) % Size]
      BY <1>6, <3>1
    <3>3. c[k] = buffer[(readIndex + j) % Size]
      BY <1>2, <3>1 DEF j
    <3> QED
      BY <2>1, <3>1, <3>2, <3>3
  <2>3. s = t
    BY <1>3, <2>1, <2>2, SeqEqual
  <2> QED
    BY <2>3 DEF t
<1>9. d = SubSeq(c, m + 1, n)
  <2> DEFINE t == SubSeq(c, m + 1, n)
  <2>1. /\ t \in Seq(Element) /\ Len(t) = n - m
        /\ \A k \in 1 .. n - m : t[k] = c[m + 1 + k - 1]
    <3>1. m + 1 \in 1 .. Len(c) + 1 /\ n \in m .. Len(c)
      BY <1>2, <1>3
    <3> QED
      BY <1>2, <1>3, <3>1, SubSeqProperties
  <2> HIDE DEF t
  <2>2. ASSUME NEW k \in 1 .. n - m
        PROVE  d[k] = t[k]
    <3> DEFINE i == m + k
    <3>1. i \in 1 .. n /\ i = m + 1 + k - 1 /\ i - 1 = m + k - 1
      BY <1>2, <1>3
    <3> HIDE DEF i
    <3>2. d[k] = buffer[(readIndex + (m + k - 1)) % Size]
      BY <1>5, <1>7
    <3>3. c[i] = buffer[(readIndex + (m + k - 1)) % Size]
      BY <1>2, <3>1
    <3> QED
      BY <2>1, <3>1, <3>2, <3>3
  <2>3. d = t
    BY <1>5, <2>1, <2>2, SeqEqual
  <2> QED
    BY <2>3 DEF t
<1> QED
  BY <1>2, <1>3, <1>4, <1>8, <1>9 DEF c, d, s, m, n, Queue!Get

\* An emptied buffer is an empty queue.
LEMMA EmptyContent == ReadAvailable = 0 /\ ContentIs => Content = << >>
BY EmptySeq, SeqEqual DEF ContentIs

LEMMA EmptyContentNext == ReadAvailable' = 0 /\ ContentIs' => Content' = << >>
BY EmptySeq, SeqEqual DEF ContentIs

LEMMA FlushIsFlush == Inv /\ Flush => Queue!Flush
<1> SUFFICES ASSUME Inv, Flush PROVE Queue!Flush
  OBVIOUS
<1>1. ReadAvailable' = 0 /\ ContentIs'
  BY InvFlush, ContentNext
<1>2. Content' = << >>
  BY <1>1, EmptyContentNext
<1> QED
  BY <1>2 DEF Flush, Queue!Flush

\* The writer fills slots outside the content.
LEMMA PutElementKeeps == Inv /\ PutElement => Content' = Content
<1> SUFFICES ASSUME Inv, PutElement PROVE Content' = Content
  OBVIOUS
<1> DEFINE c == Content
           d == Content'
           n == ReadAvailable
           p == (writeIndex + writer.done) % Size
<1>1. ContentIs'
  BY InvPutElement, ContentNext
<1>2. /\ readIndex' = readIndex /\ ReadAvailable' = n
      /\ buffer' = [buffer EXCEPT ![p] = writer.data[writer.done + 1]]
  BY DEF PutElement, ReadAvailable
<1>3. /\ n \in 0 .. Size /\ c \in Seq(Element) /\ Len(c) = n
      /\ \A k \in 1 .. n : c[k] = buffer[(readIndex + (k - 1)) % Size]
  BY ContentProperties DEF ContentIs
<1>4. /\ d \in Seq(Element) /\ Len(d) = n
      /\ \A k \in 1 .. n : d[k] = buffer'[(readIndex + (k - 1)) % Size]
  BY <1>1, <1>2 DEF ContentIs
<1>5. writer.done \in 0 .. Len(writer.data) - 1
  BY LenProperties DEF Inv, RingTypeOK, PutElement
<1>6. ASSUME NEW k \in 1 .. n
      PROVE  d[k] = c[k]
  <2> DEFINE j == k - 1
             q == (readIndex + j) % Size
  <2>1. j \in 0 .. n - 1 /\ j \in 0 .. 2 * Size /\ readIndex \in Index
    BY <1>3, RingAssumption DEF RingAssumption, Inv, RingTypeOK
  <2>2. p # q
    <3> HIDE DEF j
    <3> QED BY <1>5, <2>1, SlotsApart
  <2>3. q \in 0 .. Size - 1
    <3> HIDE DEF j
    <3> QED BY <2>1, SlotCases
  <2>4. buffer'[q] = buffer[q]
    <3> HIDE DEF p, q
    <3> QED BY <1>2, <2>2, <2>3 DEF Inv, RingTypeOK
  <2> QED
    BY <1>3, <1>4, <2>4
<1> HIDE DEF c, d, n
<1>7. d = c
  BY <1>3, <1>4, <1>6, SeqEqual
<1> QED
  BY <1>7 DEF c, d

\* The ring buffer implements the queue: a put takes effect when the writer
\* advances its index, a get when the reader does, and the copying of elements
\* in between, the other thread's included, changes nothing that is queued.
THEOREM RingImplementsQueue == RingSpec => RingIsQueue
<1>1. RingInit => Queue!Init
  <2> SUFFICES ASSUME RingInit PROVE Queue!Init
    OBVIOUS
  <2>1. Inv
    BY InvInit
  <2>2. ReadAvailable = 0
    BY <2>1, AvailableCases DEF RingInit, Inv
  <2>3. Content = << >>
    BY <2>1, <2>2, ContentProperties, EmptyContent
  <2> QED
    BY <2>3 DEF RingInit, Queue!Init
<1>2. Inv /\ [RingNext]_ringVars => [Queue!Next]_(Queue!queueVars)
  <2> SUFFICES ASSUME Inv, [RingNext]_ringVars
               PROVE  Queue!Next \/ (Content' = Content /\ got' = got)
    BY DEF Queue!queueVars
  <2>1. ASSUME NEW n \in Amount, NEW s \in [1 .. n -> Element], PutBegin(s)
        PROVE  Content' = Content /\ got' = got
    BY <2>1 DEF PutBegin, Content, ReadAvailable
  <2>2. ASSUME NEW n \in Amount, GetBegin(n)
        PROVE  Content' = Content /\ got' = got
    BY <2>2 DEF GetBegin, Content, ReadAvailable
  <2>3. CASE PutElement
    BY <2>3, PutElementKeeps DEF PutElement
  <2>4. CASE GetElement
    BY <2>4 DEF GetElement, Content, ReadAvailable
  <2>5. CASE UNCHANGED ringVars
    BY <2>5 DEF ringVars, Content, ReadAvailable
  <2>6. CASE PutAdvance
    <3>1. Queue!Put(writer.data)
      BY <2>6, PutIsPut
    <3>2. writer.data \in Seq(Element)
      BY DEF Inv, RingTypeOK
    <3>3. Len(writer.data) \in 0 .. Size
      BY <3>2, LenProperties, AvailableCases, RingAssumption
         DEF Inv, WithinSize, RingAssumption
    <3>4. writer.data \in [1 .. Len(writer.data) -> Element]
      BY <3>2, LenProperties
    <3> QED
      BY <3>1, <3>3, <3>4 DEF Queue!Next
  <2>7. CASE GetAdvance
    <3>1. Queue!Get(reader.amount)
      BY <2>7, GetIsGet
    <3>2. reader.amount \in 0 .. Size
      BY ContentProperties, RingAssumption
         DEF Inv, RingTypeOK, WithinSize, ContentIs, RingAssumption
    <3> QED
      BY <3>1, <3>2 DEF Queue!Next
  <2>8. CASE Flush
    BY <2>8, FlushIsFlush DEF Queue!Next
  <2> QED
    BY <2>1, <2>2, <2>3, <2>4, <2>5, <2>6, <2>7, <2>8 DEF RingNext, Writer, Reader
<1> QED
  BY <1>1, <1>2, RingInvariance, PTL DEF RingSpec, RingIsQueue, Queue!Spec
-----------------------------------------------------------------------------
(* Samples that are left and right in turn, and sequences of pairs.        *)

Pair == <<Left, Right>>

Alternates(s) ==
  /\ s \in Seq(Element)
  /\ Len(s) % 2 = 0
  /\ \A i \in 1 .. Len(s) : s[i] = IF i % 2 = 1 THEN Left ELSE Right

\* Sides of even distance are the same.
LEMMA Parity ==
  ASSUME NEW a \in Int, NEW b \in Int, b % 2 = 0
  PROVE  (a + b) % 2 = a % 2 /\ (a - b) % 2 = a % 2
<1>1. PICK c \in Int : b = 2 * c
  <2>1. b = 2 * (b \div 2)
    OBVIOUS
  <2> QED
    BY <2>1
<1>2. PICK d \in Int : a = 2 * d + (a % 2)
  <2>1. a = 2 * (a \div 2) + (a % 2)
    OBVIOUS
  <2> QED
    BY <2>1
<1> QED
  BY <1>1, <1>2

LEMMA AlternatesEmpty == Alternates(<<>>)
BY EmptySeq DEF Alternates

LEMMA AlternatesConcat ==
  ASSUME NEW s, NEW t, Alternates(s), Alternates(t)
  PROVE  Alternates(s \o t) /\ Len(s \o t) = Len(s) + Len(t)
<1> DEFINE u == s \o t
<1>1. /\ s \in Seq(Element) /\ Len(s) \in Nat /\ Len(s) % 2 = 0
      /\ t \in Seq(Element) /\ Len(t) \in Nat /\ Len(t) % 2 = 0
  BY LenProperties DEF Alternates
<1>2. /\ u \in Seq(Element) /\ Len(u) = Len(s) + Len(t)
      /\ \A i \in 1 .. Len(s) + Len(t) : u[i] = IF i <= Len(s) THEN s[i] ELSE t[i - Len(s)]
  BY <1>1, ConcatProperties
<1> HIDE DEF u
<1>3. ASSUME NEW i \in 1 .. Len(u) PROVE u[i] = IF i % 2 = 1 THEN Left ELSE Right
  <2>1. CASE i <= Len(s)
    BY <1>1, <1>2, <2>1 DEF Alternates
  <2>2. CASE i > Len(s)
    <3> DEFINE j == i - Len(s)
    <3>1. j \in 1 .. Len(t) /\ i \in Int
      BY <1>1, <1>2, <2>2
    <3>3. j % 2 = i % 2
      BY <1>1, <3>1, Parity
    <3>2. u[i] = t[j]
      BY <1>1, <1>2, <2>2
    <3> QED
      BY <3>1, <3>2, <3>3 DEF Alternates
  <2> QED
    BY <1>1, <2>1, <2>2
<1>4. Len(u) % 2 = 0
  BY <1>1, <1>2, Parity
<1>5. Alternates(u)
  BY <1>2, <1>3, <1>4 DEF Alternates
<1> QED
  BY <1>2, <1>5 DEF u

\* The first n samples, and the rest.
LEMMA AlternatesSplit ==
  ASSUME NEW s, NEW n \in Nat, Alternates(s), n <= Len(s), n % 2 = 0
  PROVE  /\ Alternates(SubSeq(s, 1, n)) /\ Len(SubSeq(s, 1, n)) = n
         /\ Alternates(SubSeq(s, n + 1, Len(s)))
         /\ Len(SubSeq(s, n + 1, Len(s))) = Len(s) - n
<1>1. /\ s \in Seq(Element) /\ Len(s) \in Nat /\ Len(s) % 2 = 0
      /\ \A i \in 1 .. Len(s) : s[i] \in Element
  BY LenProperties DEF Alternates
<1> DEFINE a == SubSeq(s, 1, n)
           b == SubSeq(s, n + 1, Len(s))
<1>2. /\ a \in Seq(Element) /\ Len(a) = n
      /\ \A i \in 1 .. n : a[i] = s[i]
  <2>1. \A i \in 1 .. n : s[i] \in Element
    BY <1>1
  <2> QED
    BY <2>1, SubSeqProperties
<1>3. /\ b \in Seq(Element) /\ Len(b) = Len(s) - n
      /\ \A i \in 1 .. Len(s) - n : b[i] = s[n + i]
  <2>1. \A i \in n + 1 .. Len(s) : s[i] \in Element
    BY <1>1
  <2>2. /\ b \in Seq(Element)
        /\ Len(b) = IF n + 1 <= Len(s) THEN Len(s) - (n + 1) + 1 ELSE 0
        /\ \A i \in 1 .. Len(s) - (n + 1) + 1 : b[i] = s[(n + 1) + i - 1]
    BY <1>1, <2>1, SubSeqProperties
  <2> QED
    BY <1>1, <2>2
<1> HIDE DEF a, b
<1>4. Alternates(a)
  BY <1>1, <1>2 DEF Alternates
<1>5. Alternates(b)
  <2>1. ASSUME NEW i \in 1 .. Len(b) PROVE b[i] = IF i % 2 = 1 THEN Left ELSE Right
    <3> DEFINE j == n + i
    <3>1. j \in 1 .. Len(s) /\ i \in Int /\ j = i + n
      BY <1>1, <1>3
    <3>2. b[i] = s[j]
      BY <1>3
    <3>3. j % 2 = i % 2
      BY <3>1, Parity
    <3> QED
      BY <3>1, <3>2, <3>3 DEF Alternates
  <2>2. Len(b) % 2 = 0
    BY <1>1, <1>3, Parity
  <2> QED
    BY <1>3, <2>1, <2>2 DEF Alternates
<1> QED
  BY <1>2, <1>3, <1>4, <1>5 DEF a, b

LEMMA AlternatesSides ==
  ASSUME NEW n \in Nat
  PROVE  Alternates(Sides(n)) /\ Len(Sides(n)) = 2 * n
<1> DEFINE m == 2 * n
           s == [i \in 1 .. m |-> IF i % 2 = 1 THEN Left ELSE Right]
<1>1. s \in [1 .. m -> Element] /\ m \in Nat /\ m % 2 = 0
  BY AudioAssumption DEF AudioAssumption
<1>2. \A i \in 1 .. m : s[i] = IF i % 2 = 1 THEN Left ELSE Right
  OBVIOUS
<1> HIDE DEF s, m
<1>3. s \in Seq(Element) /\ Len(s) = m
  BY <1>1, SeqOfLength
<1>4. Alternates(s) /\ Len(s) = m
  BY <1>1, <1>2, <1>3 DEF Alternates
<1> QED
  BY <1>4 DEF s, m, Sides

\* Two samples that alternate are a pair.
LEMMA AlternatesPair == Alternates(Pair) /\ Len(Pair) = 2 /\ Pair \in [1 .. 2 -> Element]
<1>1. Pair \in Seq(Element) /\ Len(Pair) = 2 /\ Pair[1] = Left /\ Pair[2] = Right
  BY AudioAssumption DEF AudioAssumption, Pair
<1>2. \A i \in 1 .. 2 : i = 1 \/ i = 2
  OBVIOUS
<1> HIDE DEF Pair
<1>3. Pair \in [1 .. 2 -> Element]
  BY <1>1, LenProperties
<1> QED
  BY <1>1, <1>2, <1>3 DEF Alternates

\* What a property says of samples, and what the proof uses.
LEMMA AlternatesIs ==
  ASSUME NEW s, Alternates(s)
  PROVE  s = Sides(Len(s) \div 2)
<1> DEFINE n == Len(s) \div 2
           t == Sides(n)
<1>1. s \in Seq(Element) /\ Len(s) \in Nat /\ n \in Nat /\ 2 * n = Len(s)
  BY LenProperties DEF Alternates
<1>2. Alternates(t) /\ Len(t) = Len(s)
  BY <1>1, AlternatesSides
<1> HIDE DEF t
<1>3. s = t
  BY <1>1, <1>2, SeqEqual DEF Alternates
<1> QED
  BY <1>3 DEF t

-----------------------------------------------------------------------------
(* Puts and gets of the buffers that are sequences.                        *)

LEMMA AtMostIs ==
  ASSUME NEW n \in Nat, NEW a \in Nat
  PROVE  /\ AtMost(n, a) \in Nat /\ AtMost(n, a) <= n /\ AtMost(n, a) <= a
         /\ n % 2 = 0 /\ a % 2 = 0 => AtMost(n, a) % 2 = 0
BY DEF AtMost

\* A full buffer drops whole pairs.
LEMMA PutSamples ==
  ASSUME NEW b, NEW s, Alternates(b), Alternates(s), Len(b) <= Room
  PROVE  Alternates(Put(b, s)) /\ Len(Put(b, s)) <= Room
<1> DEFINE k == Room - Len(b)
           m == AtMost(Len(s), k)
           p == SubSeq(s, 1, m)
<1>1. Len(b) \in Nat /\ Len(s) \in Nat /\ Room \in Nat /\ Room % 2 = 0
      /\ Len(b) % 2 = 0 /\ Len(s) % 2 = 0
  BY LenProperties, AudioAssumption DEF AudioAssumption, Alternates
<1>2. k \in Nat /\ k % 2 = 0
  BY <1>1
<1>3. m \in Nat /\ m % 2 = 0 /\ m <= Len(s) /\ m <= k
  BY <1>1, <1>2, AtMostIs
<1> HIDE DEF m
<1>4. Alternates(p) /\ Len(p) = m
  BY <1>3, AlternatesSplit
<1> HIDE DEF p
<1>5. Alternates(b \o p) /\ Len(b \o p) = Len(b) + m
  BY <1>4, AlternatesConcat
<1>6. Len(b \o p) <= Room
  BY <1>1, <1>2, <1>3, <1>5
<1> QED
  BY <1>5, <1>6 DEF Put, p, m

\* Whatever is put, pairs stay pairs.
LEMMA PutPairs ==
  ASSUME NEW b \in Seq({Pair}), NEW s \in Seq({Pair}), Len(b) <= Room
  PROVE  Put(b, s) \in Seq({Pair}) /\ Len(Put(b, s)) <= Room
<1> DEFINE k == Room - Len(b)
           m == AtMost(Len(s), k)
           p == SubSeq(s, 1, m)
<1>1. Len(b) \in Nat /\ Len(s) \in Nat /\ Room \in Nat
      /\ \A i \in 1 .. Len(s) : s[i] \in {Pair}
  BY LenProperties, AudioAssumption DEF AudioAssumption
<1>2. k \in Nat
  BY <1>1
<1>3. m \in Nat /\ m <= Len(s) /\ m <= k
  BY <1>1, <1>2, AtMostIs
<1> HIDE DEF m
<1>4. p \in Seq({Pair}) /\ Len(p) = m
  <2>1. \A i \in 1 .. m : s[i] \in {Pair}
    BY <1>1, <1>3
  <2>2. /\ p \in Seq({Pair})
        /\ Len(p) = IF 1 <= m THEN m - 1 + 1 ELSE 0
    BY <1>3, <2>1, SubSeqProperties
  <2> QED
    BY <1>3, <2>2
<1> HIDE DEF p
<1>5. b \o p \in Seq({Pair}) /\ Len(b \o p) = Len(b) + m
  BY <1>4, ConcatProperties
<1>6. Len(b \o p) <= Room
  BY <1>1, <1>2, <1>3, <1>5
<1> QED
  BY <1>5, <1>6 DEF Put, p, m

LEMMA SplitPairs ==
  ASSUME NEW s \in Seq({Pair}), NEW n \in Nat, n <= Len(s)
  PROVE  /\ SubSeq(s, 1, n) \in Seq({Pair})
         /\ Rest(s, n) \in Seq({Pair}) /\ Len(Rest(s, n)) <= Len(s)
<1>1. Len(s) \in Nat /\ \A i \in 1 .. Len(s) : s[i] \in {Pair}
  BY LenProperties
<1>2. \A i \in 1 .. n : s[i] \in {Pair}
  BY <1>1
<1>3. \A i \in n + 1 .. Len(s) : s[i] \in {Pair}
  BY <1>1
<1>4. SubSeq(s, 1, n) \in Seq({Pair})
  BY <1>2, SubSeqProperties
<1>5. /\ SubSeq(s, n + 1, Len(s)) \in Seq({Pair})
      /\ Len(SubSeq(s, n + 1, Len(s)))
           = IF n + 1 <= Len(s) THEN Len(s) - (n + 1) + 1 ELSE 0
  BY <1>1, <1>3, SubSeqProperties
<1> QED
  BY <1>1, <1>4, <1>5 DEF Rest

LEMMA PairsArePairs ==
  ASSUME NEW n \in Nat
  PROVE  Pairs(n) \in Seq({Pair})
<1>1. Pairs(n) \in [1 .. n -> {Pair}]
  BY DEF Pairs, Pair
<1> QED
  BY <1>1, SeqOfLength

LEMMA PairedIs ==
  ASSUME NEW s, Alternates(s)
  PROVE  Paired(s) \in Seq({Pair})
<1> DEFINE n == Len(s) \div 2
<1>1. Len(s) \in Nat /\ Len(s) % 2 = 0
  BY LenProperties DEF Alternates
<1>2. n \in Nat
  BY <1>1
<1>3. ASSUME NEW i \in 1 .. n PROVE <<s[2 * i - 1], s[2 * i]>> = Pair
  <2>1. 2 * i \in 1 .. Len(s) /\ 2 * i - 1 \in 1 .. Len(s)
        /\ (2 * i) % 2 = 0 /\ (2 * i - 1) % 2 = 1
    BY <1>1
  <2>2. s[2 * i - 1] = Left /\ s[2 * i] = Right
    BY <2>1 DEF Alternates
  <2> QED
    BY <2>2 DEF Pair
<1>4. Paired(s) \in [1 .. n -> {Pair}]
  BY <1>3 DEF Paired
<1> QED
  BY <1>2, <1>4, SeqOfLength

\* Every pair of a converted block is one of the block.
LEMMA ConvertedIs ==
  ASSUME NEW pairs \in Seq({Pair}), NEW rate \in Rate
  PROVE  Converted(pairs, rate) \in Seq({Pair})
<1> DEFINE l == InputLimit[rate]
           whole == (Len(pairs) \div l) * l
           n == (whole * 48) \div rate
<1>1. /\ Len(pairs) \in Nat /\ l \in Nat \ {0} /\ rate \in Nat \ {0}
      /\ \A i \in 1 .. Len(pairs) : pairs[i] = Pair
  BY LenProperties, AudioAssumption DEF AudioAssumption
<1>2. whole \in Nat /\ whole <= Len(pairs)
  <2>1. ASSUME NEW a \in Nat, NEW b \in Nat \ {0}
        PROVE  (a \div b) * b \in Nat /\ (a \div b) * b <= a
    OBVIOUS
  <2> QED
    BY <1>1, <2>1
<1> HIDE DEF whole, l
<1>3. n \in Nat /\ n * rate <= whole * 48
  <2>1. ASSUME NEW a \in Nat, NEW b \in Nat \ {0}
        PROVE  a \div b \in Nat /\ (a \div b) * b <= a
    OBVIOUS
  <2>2. whole * 48 \in Nat
    BY <1>2
  <2> HIDE DEF n
  <2> QED
    BY <1>1, <2>1, <2>2 DEF n
<1> HIDE DEF n
<1>4. ASSUME NEW i \in 1 .. n
      PROVE  pairs[1 + ((i - 1) * rate) \div 48] = Pair
  <2> DEFINE p == (i - 1) * rate
  <2>1. p \in Nat /\ p < n * rate
    <3>1. i - 1 \in Nat /\ i - 1 < n
      BY <1>3
    <3>2. ASSUME NEW a \in Nat, NEW b \in Nat, a < b PROVE a * rate < b * rate /\ a * rate \in Nat
      BY <1>1, <3>2
    <3> QED
      BY <1>3, <3>1, <3>2
  <2> HIDE DEF p
  <2>2. p < whole * 48
    BY <1>1, <1>2, <1>3, <2>1
  <2>3. 1 + p \div 48 \in 1 .. whole
    BY <1>2, <2>1, <2>2
  <2> QED
    BY <1>1, <1>2, <2>3 DEF p
<1>5. [i \in 1 .. n |-> pairs[1 + ((i - 1) * rate) \div 48]] \in [1 .. n -> {Pair}]
  BY <1>4
<1>6. [i \in 1 .. n |-> pairs[1 + ((i - 1) * rate) \div 48]] \in Seq({Pair})
  BY <1>3, <1>5, SeqOfLength
<1> QED
  BY <1>6 DEF Converted, n, whole, l

-----------------------------------------------------------------------------
(* The invariant.                                                          *)

Even == {n \in Nat : n % 2 = 0}

\* The GUI is outside of a put except in its loop, and a stream that was stopped
\* has no callback: that is when restart flushes.
Calm ==
  /\ mixing \in {"idle", "dabAudio", "fmAudio", "dabSamples", "fmSamples",
              "toDab", "toFm", "selectDevice"}
  /\ stream \in {"active", "stopped"}
  /\ ~Putting => ~writer.busy /\ chunk = <<>>
  /\ stream = "stopped" => ~reader.busy
  /\ mixing = "selectDevice" /\ stream = "active" => callbackReturn = "abort"

SignalSet ==
  [from : {"fm"}, amount : {0}, rate : {0}] \union
  [from : {"dab"}, amount : Even, rate : Rate]

\* What dabAudio is called with are whole pairs.
Requests ==
  /\ signals \in Seq(SignalSet)
  /\ mixing = "dabAudio" => request.amount \in Even /\ request.rate \in Rate

\* Before the ring buffer.
Upstream ==
  /\ Alternates(dabSound) /\ Len(dabSound) <= Room
  /\ fmSound \in Seq({Pair}) /\ Len(fmSound) <= Room
  /\ audioSamples \in Seq({Pair}) /\ Len(audioSamples) <= Room
  /\ chunk \in Seq({Pair})
  /\ converter \in [Rate -> Seq({Pair})]

\* In the ring buffer, and behind it.
Downstream ==
  /\ writer.data \in {<<>>, Pair}
  /\ Alternates(Content)
  /\ reader.amount \in Even
  /\ Alternates(got)

SoundInv == Inv /\ Calm /\ Requests /\ Upstream /\ Downstream

LEMMA InitSound == AudioInit => SoundInv
<1> SUFFICES ASSUME AudioInit PROVE SoundInv
  OBVIOUS
<1>1. Inv
  BY InvInit DEF AudioInit
<1>2. Calm
  BY DEF AudioInit, RingInit, NoPut, NoGet, Calm, Putting
<1>3. Requests
  BY EmptySeq DEF AudioInit, Requests
<1>4. Upstream
  <2>1. Room \in Nat /\ Len(<<>>) = 0 /\ <<>> \in Seq({Pair})
    BY EmptySeq, AudioAssumption DEF AudioAssumption
  <2>2. converter \in [Rate -> Seq({Pair})]
    BY <2>1 DEF AudioInit
  <2> QED
    BY <2>1, <2>2, AlternatesEmpty DEF AudioInit, Upstream
<1>5. Downstream
  <2>1. ReadAvailable = 0
    BY <1>1, AvailableCases DEF AudioInit, RingInit, Inv
  <2>2. Content = <<>>
    BY <1>1, <2>1, ContentProperties, EmptyContent
  <2>3. writer.data = <<>> /\ reader.amount = 0 /\ got = <<>>
    BY DEF AudioInit, RingInit, NoPut, NoGet
  <2>4. 0 \in Even
    BY DEF Even
  <2> QED
    BY <2>2, <2>3, <2>4, AlternatesEmpty DEF Downstream
<1> QED
  BY <1>1, <1>2, <1>3, <1>4, <1>5 DEF SoundInv

-----------------------------------------------------------------------------
(* The ring buffer is used as SampleRing says.                             *)

\* A pair of the chunk is put.
LEMMA PutsAPair ==
  ASSUME Upstream, audioOutput
  PROVE  PutBegin(Pair) /\ Tail(chunk) \in Seq({Pair})
<1>1. chunk # <<>> /\ chunk \in Seq({Pair}) /\ PutBegin(Head(chunk))
  BY DEF Upstream, audioOutput
<1>2. Head(chunk) = Pair /\ Tail(chunk) \in Seq({Pair})
  BY <1>1, HeadTailProperties
<1> QED
  BY <1>1, <1>2

\* restart flushes only while neither side is in the middle of something.
LEMMA FlushesInPeace ==
  ASSUME Calm, Changed
  PROVE  Flush \/ UNCHANGED ringVars
<1>1. CASE mixing \in {"toDab", "toFm"} /\ stream # "active"
  <2>1. ~writer.busy /\ ~reader.busy
    BY <1>1 DEF Calm, Putting
  <2>2. Restart
    BY <1>1 DEF Changed
  <2> QED
    BY <1>1, <2>1, <2>2 DEF Restart, Flush
<1>2. CASE mixing \in {"toDab", "toFm"} /\ stream = "active"
  BY <1>2 DEF Changed, Restart
<1>3. CASE mixing = "selectDevice"
  BY <1>3 DEF Changed
<1> QED
  BY <1>1, <1>2, <1>3 DEF Changed

\* What can happen to the ring buffer.
RingStep ==
  \/ PutBegin(Pair) \/ PutElement \/ PutAdvance
  \/ GetBegin(2 * CardFrames) \/ GetElement \/ GetAdvance
  \/ Flush \/ UNCHANGED ringVars

LEMMA SoundRingStep == SoundInv /\ [AudioNext]_audioVars => RingStep
<1> SUFFICES ASSUME SoundInv, [AudioNext]_audioVars PROVE RingStep
  OBVIOUS
<1> USE DEF RingStep
<1>1. CASE Decoders
  BY <1>1 DEF Decoders, DabDecoded, FmProcessed, FmDecoded
<1>2. CASE TakeSignal \/ DabAudio \/ FmAudio \/ AudiosamplesAvailable
  BY <1>2 DEF TakeSignal, DabAudio, FmAudio, AudiosamplesAvailable
<1>3. CASE audioOutput
  BY <1>3, PutsAPair DEF SoundInv
<1>4. CASE AudioPut
  BY <1>4 DEF AudioPut
<1>5. CASE Mute \/ SetDab \/ SetFmOrDevice \/ StreamStops
  BY <1>5 DEF Mute, SetDab, SetFmOrDevice, StreamStops
<1>6. CASE Changed
  BY <1>6, FlushesInPeace DEF SoundInv
<1>7. CASE Card
  BY <1>7 DEF Card, Callback, CallbackGet
<1>8. CASE UNCHANGED audioVars
  BY <1>8 DEF audioVars
<1> QED
  BY <1>1, <1>2, <1>3, <1>4, <1>5, <1>6, <1>7, <1>8 DEF AudioNext, Gui

LEMMA RingStepIsNext == RingStep => [RingNext]_ringVars
<1>1. ASSUME PutBegin(Pair) PROVE RingNext
  <2>1. 2 \in Amount /\ Pair \in [1 .. 2 -> Element]
    BY AudioAssumption, AlternatesPair DEF AudioAssumption
  <2> QED
    BY <1>1, <2>1 DEF RingNext, Writer
<1>2. ASSUME GetBegin(2 * CardFrames) PROVE RingNext
  <2>1. 2 * CardFrames \in Amount
    BY AudioAssumption DEF AudioAssumption
  <2> QED
    BY <1>2, <2>1 DEF RingNext, Reader
<1> QED
  BY <1>1, <1>2 DEF RingStep, RingNext, Writer, Reader

\* Pairs go in, pairs come out.
LEMMA DownstreamStep ==
  ASSUME SoundInv, RingStep
  PROVE  Downstream'
<1>1. Inv /\ ContentIs /\ Downstream
  BY ContentProperties DEF SoundInv
<1>2. /\ Alternates(Content) /\ Alternates(got) /\ reader.amount \in Even
      /\ writer.data \in {<<>>, Pair}
  BY <1>1 DEF Downstream
<1>3. ReadAvailable \in Nat /\ ReadAvailable <= Size /\ ReadAvailable % 2 = 0
      /\ Len(Content) = ReadAvailable /\ Size \in Nat /\ Size % 2 = 0
  BY <1>1, <1>2, RingAssumption, AudioAssumption
     DEF ContentIs, Alternates, RingAssumption, AudioAssumption
<1>4. CASE PutBegin(Pair)
  <2> DEFINE m == AtMost(2, WriteAvailable)
             d == SubSeq(Pair, 1, m)
  <2>1. WriteAvailable \in Nat /\ WriteAvailable % 2 = 0
    BY <1>3 DEF WriteAvailable
  <2>2. m \in Nat /\ m <= 2 /\ m % 2 = 0
    <3>1. ASSUME NEW a \in Nat, a % 2 = 0
          PROVE  AtMost(2, a) \in Nat /\ AtMost(2, a) <= 2 /\ AtMost(2, a) % 2 = 0
      BY <3>1 DEF AtMost
    <3> QED
      BY <2>1, <3>1
  <2> HIDE DEF m
  <2>3. m = 0 \/ m = 2
    BY <2>2
  <2>4. d \in {<<>>, Pair}
    <3>1. CASE m = 0
      BY <3>1, SubSeqEmpty
    <3>2. CASE m = 2
      BY <3>2, AlternatesPair, SubSeqFull DEF Alternates
    <3> QED
      BY <2>3, <3>1, <3>2
  <2>5. writer'.data = d /\ UNCHANGED <<writeIndex, readIndex, buffer, reader, got>>
    BY <1>4, AlternatesPair DEF PutBegin, m
  <2>6. Content' = Content
    BY <2>5 DEF Content, ReadAvailable
  <2> HIDE DEF d
  <2> QED
    BY <1>2, <2>4, <2>5, <2>6 DEF Downstream
<1>5. CASE PutElement
  <2>1. Content' = Content
    BY <1>1, <1>5, PutElementKeeps
  <2>2. writer'.data = writer.data /\ UNCHANGED <<reader, got>>
    BY <1>1, <1>5 DEF PutElement, Inv, RingTypeOK
  <2> QED
    BY <1>2, <2>1, <2>2 DEF Downstream
<1>6. CASE PutAdvance
  <2>1. Content' = Content \o writer.data /\ got' = got
    BY <1>1, <1>6, PutIsPut DEF Queue!Put
  <2>2. Alternates(writer.data)
    BY <1>2, AlternatesEmpty, AlternatesPair
  <2>3. Alternates(Content')
    BY <1>2, <2>1, <2>2, AlternatesConcat
  <2>4. writer'.data = <<>> /\ reader' = reader
    BY <1>6 DEF PutAdvance, NoPut
  <2> QED
    BY <1>2, <2>1, <2>3, <2>4 DEF Downstream
<1>7. CASE GetBegin(2 * CardFrames)
  <2> DEFINE m == AtMost(2 * CardFrames, ReadAvailable)
  <2>1. 2 * CardFrames \in Nat /\ (2 * CardFrames) % 2 = 0
    BY AudioAssumption DEF AudioAssumption
  <2>2. m \in Even
    BY <1>3, <2>1, AtMostIs DEF Even
  <2>3. reader'.amount = m /\ UNCHANGED <<writeIndex, readIndex, buffer, writer, got>>
    BY <1>7 DEF GetBegin
  <2>4. Content' = Content
    BY <2>3 DEF Content, ReadAvailable
  <2> HIDE DEF m
  <2> QED
    BY <1>2, <2>2, <2>3, <2>4 DEF Downstream
<1>8. CASE GetElement
  <2>1. reader'.amount = reader.amount /\ UNCHANGED <<writeIndex, readIndex, buffer, writer, got>>
    BY <1>1, <1>8 DEF GetElement, Inv, RingTypeOK
  <2>2. Content' = Content
    BY <2>1 DEF Content, ReadAvailable
  <2> QED
    BY <1>2, <2>1, <2>2 DEF Downstream
<1>9. CASE GetAdvance
  <2> DEFINE n == reader.amount
  <2>1. /\ n <= Len(Content)
        /\ got' = SubSeq(Content, 1, n)
        /\ Content' = SubSeq(Content, n + 1, Len(Content))
    BY <1>1, <1>9, GetIsGet DEF Queue!Get
  <2>2. n \in Nat /\ n % 2 = 0
    BY <1>2 DEF Even
  <2>3. Alternates(got') /\ Alternates(Content')
    BY <1>2, <2>1, <2>2, AlternatesSplit
  <2>4. writer' = writer /\ reader'.amount = 0 /\ 0 \in Even
    BY <1>9 DEF GetAdvance, NoGet, Even
  <2> QED
    BY <1>2, <2>3, <2>4 DEF Downstream
<1>10. CASE Flush
  <2>1. Content' = <<>>
    BY <1>1, <1>10, FlushIsFlush DEF Queue!Flush
  <2>2. UNCHANGED <<writer, reader, got>>
    BY <1>10 DEF Flush
  <2> QED
    BY <1>2, <2>1, <2>2, AlternatesEmpty DEF Downstream
<1>11. CASE UNCHANGED ringVars
  <2>1. Content' = Content /\ UNCHANGED <<writer, reader, got>>
    BY <1>11 DEF ringVars, Content, ReadAvailable
  <2> QED
    BY <1>2, <2>1 DEF Downstream
<1> QED
  BY <1>4, <1>5, <1>6, <1>7, <1>8, <1>9, <1>10, <1>11 DEF RingStep

-----------------------------------------------------------------------------
(* The other parts of the invariant.                                       *)

LEMMA CalmStep ==
  ASSUME SoundInv, [AudioNext]_audioVars
  PROVE  Calm'
<1>1. Calm
  BY DEF SoundInv
<1> USE DEF Calm, Putting
<1>2. CASE Decoders
  BY <1>1, <1>2 DEF Decoders, DabDecoded, FmProcessed, FmDecoded, mixer, card, ringVars
<1>3. CASE TakeSignal \/ DabAudio \/ FmAudio
  BY <1>1, <1>3 DEF TakeSignal, DabAudio, FmAudio, mixer, card, ringVars
<1>4. CASE AudiosamplesAvailable
  BY <1>1, <1>4 DEF AudiosamplesAvailable, card, ringVars
<1>5. CASE audioOutput
  BY <1>1, <1>5 DEF audioOutput, PutBegin, card
<1>6. CASE AudioPut
  BY <1>1, <1>6 DEF AudioPut, PutElement, PutAdvance, NoPut, mixer, card, SoundInv, Inv, RingTypeOK
<1>7. CASE Mute \/ SetDab \/ SetFmOrDevice \/ StreamStops
  BY <1>1, <1>7 DEF Mute, SetDab, SetFmOrDevice, Stop, StreamStops, mixer, card, ringVars
<1>8. CASE Changed
  BY <1>1, <1>8 DEF Changed, Restart, StartStream, mixer, card, ringVars
<1>9. CASE Card
  BY <1>1, <1>9 DEF Card, Callback, CallbackGet, GetBegin, GetElement, GetAdvance, NoGet,
                    mixer, card
<1>10. CASE UNCHANGED audioVars
  BY <1>1, <1>10 DEF audioVars, mixer, card, ringVars
<1> QED
  BY <1>2, <1>3, <1>4, <1>5, <1>6, <1>7, <1>8, <1>9, <1>10 DEF AudioNext, Gui

\* The signal that is added, or taken away, is of a set.
LEMMA RequestsStep ==
  ASSUME SoundInv, [AudioNext]_audioVars
  PROVE  Requests'
<1>1. Requests /\ signals \in Seq(SignalSet)
  BY DEF SoundInv, Requests
<1>2. ASSUME NEW rate \in Rate, NEW sound \in {"aac", "mono", "mp2"}, DabDecoded(rate, sound)
      PROVE  Requests'
  <2> DEFINE n == IF sound = "mono" THEN SoundFrame \div 2 ELSE SoundFrame
             size == IF sound = "aac" THEN Tenth[rate] ELSE 2 * n
             s == [from |-> "dab", amount |-> size, rate |-> rate]
  <2>1. size \in Even
    BY AudioAssumption DEF AudioAssumption, Even
  <2>2. s \in SignalSet
    BY <2>1 DEF SignalSet
  <2>3. signals' = Append(signals, s) \/ signals' = signals
    BY <1>2 DEF DabDecoded, SignalGui
  <2>4. UNCHANGED <<mixing, request>>
    BY <1>2 DEF DabDecoded
  <2> HIDE DEF s
  <2>5. signals' \in Seq(SignalSet)
    BY <1>1, <2>2, <2>3
  <2> QED
    BY <1>1, <2>4, <2>5 DEF Requests
<1>3. CASE FmDecoded
  <2> DEFINE s == [from |-> "fm", amount |-> 0, rate |-> 0]
  <2>1. s \in SignalSet
    BY DEF SignalSet
  <2>2. signals' = Append(signals, s) /\ UNCHANGED <<mixing, request>>
    BY <1>3 DEF FmDecoded, SignalGui
  <2> HIDE DEF s
  <2> QED
    BY <1>1, <2>1, <2>2 DEF Requests
<1>4. CASE TakeSignal
  <2> DEFINE s == Head(signals)
  <2>1. s \in SignalSet /\ Tail(signals) \in Seq(SignalSet)
    BY <1>1, <1>4, HeadTailProperties DEF TakeSignal
  <2>2. s.from = "dab" => s.amount \in Even /\ s.rate \in Rate
    BY <2>1 DEF SignalSet
  <2> HIDE DEF s
  <2>3. signals' = Tail(signals)
    BY <1>4 DEF TakeSignal
  <2>4. mixing' = "dabAudio" => request'.amount \in Even /\ request'.rate \in Rate
    BY <1>4, <2>2 DEF TakeSignal, s
  <2> QED
    BY <2>1, <2>3, <2>4 DEF Requests
<1>5. CASE DabAudio
  BY <1>1, <1>5 DEF DabAudio, Requests
<1>6. CASE FmProcessed
  BY <1>1, <1>6 DEF FmProcessed, Requests
<1>7. CASE FmAudio \/ AudiosamplesAvailable
  BY <1>1, <1>7 DEF FmAudio, AudiosamplesAvailable, decoders, Requests
<1>8. CASE audioOutput \/ AudioPut \/ Card
  BY <1>1, <1>8 DEF audioOutput, AudioPut, Card, Callback, CallbackGet, decoders, Requests
<1>9. CASE Mute \/ StreamStops \/ UNCHANGED audioVars
  BY <1>1, <1>9 DEF Mute, StreamStops, audioVars, decoders, Requests
<1>10. CASE SetDab \/ SetFmOrDevice \/ Changed
  BY <1>1, <1>10 DEF SetDab, SetFmOrDevice, Changed, decoders, Requests
<1> QED
  BY <1>2, <1>3, <1>4, <1>5, <1>6, <1>7, <1>8, <1>9, <1>10 DEF AudioNext, Decoders, Gui

\* Every buffer before the ring keeps whole pairs.
LEMMA UpstreamStep ==
  ASSUME SoundInv, [AudioNext]_audioVars
  PROVE  Upstream'
<1>1. Upstream /\ Requests
  BY DEF SoundInv
<1>2. ASSUME NEW rate \in Rate, NEW sound \in {"aac", "mono", "mp2"}, DabDecoded(rate, sound)
      PROVE  Upstream'
  <2> DEFINE n == IF sound = "mono" THEN SoundFrame \div 2 ELSE SoundFrame
  <2>1. n \in Nat
    BY AudioAssumption DEF AudioAssumption
  <2>2. dabSound' = Put(dabSound, Sides(n)) /\ UNCHANGED <<fmSound, mixer>>
    BY <1>2 DEF DabDecoded
  <2> HIDE DEF n
  <2>3. Alternates(dabSound') /\ Len(dabSound') <= Room
    BY <1>1, <2>1, <2>2, AlternatesSides, PutSamples DEF Upstream
  <2> QED
    BY <1>1, <2>2, <2>3 DEF Upstream, mixer
<1>3. CASE FmDecoded
  <2>1. 4 * Chunk \in Nat
    BY AudioAssumption DEF AudioAssumption
  <2>2. fmSound' = Put(fmSound, Pairs(4 * Chunk)) /\ UNCHANGED <<dabSound, mixer>>
    BY <1>3 DEF FmDecoded
  <2>3. fmSound' \in Seq({Pair}) /\ Len(fmSound') <= Room
    BY <1>1, <2>1, <2>2, PairsArePairs, PutPairs DEF Upstream
  <2> QED
    BY <1>1, <2>2, <2>3 DEF Upstream, mixer
<1>4. CASE DabAudio /\ Len(dabSound) > request.amount
  <2> DEFINE a == request.amount
             r == request.rate
             s == SubSeq(dabSound, 1, a)
             t == SubSeq(dabSound, a + 1, Len(dabSound))
  <2>1. a \in Nat /\ a % 2 = 0 /\ r \in Rate /\ a <= Len(dabSound)
    <3>1. mixing = "dabAudio" /\ Len(dabSound) \in Nat
      BY <1>1, <1>4, LenProperties DEF DabAudio, Upstream, Alternates
    <3> QED
      BY <1>1, <1>4, <3>1 DEF Requests, Even
  <2>2. /\ AudioOut(s, r) /\ dabSound' = t
        /\ UNCHANGED <<fmSound, chunk>>
    BY <1>4, <2>1 DEF DabAudio, Rest
  <2> HIDE DEF s, t, a, r
  <2>3. Alternates(s) /\ Alternates(t) /\ Len(t) = Len(dabSound) - a
    BY <1>1, <2>1, AlternatesSplit DEF s, t, Upstream
  <2>4. Len(t) <= Room
    BY <1>1, <2>1, <2>3, LenProperties, AudioAssumption
       DEF Upstream, Alternates, AudioAssumption
  <2>5. Paired(s) \in Seq({Pair})
    BY <2>3, PairedIs
  <2>6. CASE r = 48
    <3>1. audioSamples' = Put(audioSamples, Paired(s)) /\ converter' = converter
      BY <2>2, <2>6 DEF AudioOut
    <3>2. audioSamples' \in Seq({Pair}) /\ Len(audioSamples') <= Room
      BY <1>1, <2>5, <3>1, PutPairs DEF Upstream
    <3> QED
      BY <1>1, <2>2, <2>3, <2>4, <3>1, <3>2 DEF Upstream
  <2>7. CASE r # 48
    <3> DEFINE p == converter[r] \o Paired(s)
               k == Len(p) - (Len(p) % InputLimit[r])
    <3>1. p \in Seq({Pair})
      BY <1>1, <2>1, <2>5, ConcatProperties DEF Upstream
    <3>2. /\ audioSamples' = Put(audioSamples, Converted(p, r))
          /\ converter' = [converter EXCEPT ![r] = Rest(p, k)]
      BY <2>2, <2>7 DEF AudioOut
    <3> HIDE DEF p
    <3>3. k \in Nat /\ k <= Len(p)
      <4>1. Len(p) \in Nat /\ InputLimit[r] \in Nat \ {0}
        BY <2>1, <3>1, LenProperties, AudioAssumption DEF AudioAssumption
      <4>2. ASSUME NEW x \in Nat, NEW y \in Nat \ {0}
            PROVE  x - (x % y) \in Nat /\ x - (x % y) <= x
        OBVIOUS
      <4> QED
        BY <4>1, <4>2
    <3> HIDE DEF k
    <3>4. Converted(p, r) \in Seq({Pair}) /\ Rest(p, k) \in Seq({Pair})
      BY <2>1, <3>1, <3>3, ConvertedIs, SplitPairs
    <3>5. audioSamples' \in Seq({Pair}) /\ Len(audioSamples') <= Room
      BY <1>1, <3>2, <3>4, PutPairs DEF Upstream
    <3>6. converter' \in [Rate -> Seq({Pair})]
      BY <1>1, <3>2, <3>4 DEF Upstream
    <3> QED
      BY <1>1, <2>2, <2>3, <2>4, <3>5, <3>6 DEF Upstream
  <2> QED
    BY <2>6, <2>7
<1>5. CASE DabAudio /\ ~(Len(dabSound) > request.amount)
  BY <1>1, <1>5 DEF DabAudio, Upstream
<1>6. CASE FmAudio
  <2>1. CASE Len(fmSound) > Chunk
    <3>1. Chunk \in Nat /\ Room \in Nat /\ Len(fmSound) \in Nat /\ Chunk <= Len(fmSound)
      BY <1>1, <2>1, LenProperties, AudioAssumption DEF AudioAssumption, Upstream
    <3>2. /\ SubSeq(fmSound, 1, Chunk) \in Seq({Pair})
          /\ Rest(fmSound, Chunk) \in Seq({Pair})
          /\ Len(Rest(fmSound, Chunk)) <= Len(fmSound)
      BY <1>1, <3>1, SplitPairs DEF Upstream
    <3>3. /\ audioSamples' = Put(audioSamples, SubSeq(fmSound, 1, Chunk))
          /\ fmSound' = Rest(fmSound, Chunk)
          /\ UNCHANGED <<dabSound, converter, chunk>>
      BY <1>6, <2>1, <3>1 DEF FmAudio
    <3>4. audioSamples' \in Seq({Pair}) /\ Len(audioSamples') <= Room
      BY <1>1, <3>2, <3>3, PutPairs DEF Upstream
    <3>5. Len(Rest(fmSound, Chunk)) <= Room
      BY <1>1, <3>1, <3>2, LenProperties DEF Upstream
    <3> QED
      BY <1>1, <3>2, <3>3, <3>4, <3>5 DEF Upstream
  <2>2. CASE ~(Len(fmSound) > Chunk)
    BY <1>1, <1>6, <2>2 DEF FmAudio, Upstream
  <2> QED
    BY <2>1, <2>2
<1>7. CASE AudiosamplesAvailable
  <2>1. UNCHANGED <<decoders, converter>>
    BY <1>7 DEF AudiosamplesAvailable
  <2>2. CASE Len(audioSamples) > Chunk
    <3>1. Chunk \in Nat /\ Room \in Nat /\ Len(audioSamples) \in Nat /\ Chunk <= Len(audioSamples)
      BY <1>1, <2>2, LenProperties, AudioAssumption DEF AudioAssumption, Upstream
    <3>2. /\ SubSeq(audioSamples, 1, Chunk) \in Seq({Pair})
          /\ Rest(audioSamples, Chunk) \in Seq({Pair})
          /\ Len(Rest(audioSamples, Chunk)) <= Len(audioSamples)
      BY <1>1, <3>1, SplitPairs DEF Upstream
    <3>3. /\ chunk' \in {<<>>, SubSeq(audioSamples, 1, Chunk)}
          /\ audioSamples' = Rest(audioSamples, Chunk)
      BY <1>7, <2>2, <3>1 DEF AudiosamplesAvailable
    <3>4. chunk' \in Seq({Pair})
      BY <3>2, <3>3, EmptySeq
    <3>5. Len(Rest(audioSamples, Chunk)) <= Room
      BY <1>1, <3>1, <3>2, LenProperties DEF Upstream
    <3> QED
      BY <1>1, <2>1, <3>2, <3>3, <3>4, <3>5 DEF Upstream, decoders
  <2>3. CASE ~(Len(audioSamples) > Chunk)
    BY <1>1, <1>7, <2>1, <2>3 DEF AudiosamplesAvailable, Upstream, decoders
  <2> QED
    BY <2>2, <2>3
<1>8. CASE audioOutput
  <2>1. Tail(chunk) \in Seq({Pair})
    BY <1>1, <1>8, PutsAPair
  <2>2. chunk' = Tail(chunk) /\ UNCHANGED <<decoders, converter, audioSamples>>
    BY <1>8 DEF audioOutput
  <2> QED
    BY <1>1, <2>1, <2>2 DEF Upstream, decoders
<1>9. CASE FmProcessed
  BY <1>1, <1>9 DEF FmProcessed, mixer, Upstream
<1>10. CASE TakeSignal
  BY <1>1, <1>10 DEF TakeSignal, mixer, Upstream
<1>11. CASE AudioPut \/ Card \/ Mute \/ StreamStops \/ SetDab \/ SetFmOrDevice \/ Changed
  <2>1. UNCHANGED <<decoders, mixer>>
    BY <1>11 DEF AudioPut, Card, Callback, CallbackGet, Mute, StreamStops, SetDab,
                 SetFmOrDevice, Changed
  <2> QED
    BY <1>1, <2>1 DEF Upstream, decoders, mixer
<1>12. CASE UNCHANGED audioVars
  BY <1>1, <1>12 DEF Upstream, audioVars, decoders, mixer
<1> QED
  BY <1>2, <1>3, <1>4, <1>5, <1>6, <1>7, <1>8, <1>9, <1>10, <1>11, <1>12
     DEF AudioNext, Decoders, Gui
-----------------------------------------------------------------------------
(* The theorems.                                                           *)

LEMMA SoundStep == SoundInv /\ [AudioNext]_audioVars => SoundInv'
<1> SUFFICES ASSUME SoundInv, [AudioNext]_audioVars PROVE SoundInv'
  OBVIOUS
<1>1. RingStep
  BY SoundRingStep
<1>2. Inv'
  BY <1>1, RingStepIsNext, InvStep DEF SoundInv
<1> QED
  BY <1>1, <1>2, DownstreamStep, CalmStep, RequestsStep, UpstreamStep DEF SoundInv

\* In every buffer on the way of the sound there are whole pairs, and the stream
\* is quiet when restart flushes.
THEOREM SoundInvariance == AudioSpec => []SoundInv
BY InitSound, SoundStep, PTL DEF AudioSpec

\* The GUI and the callback of the sound card use _O_Buffer as SampleRing
\* allows: one side writes, one reads, and it is flushed when both are idle.
THEOREM SoundUsesRing == AudioSpec => RingSpec
<1>1. AudioInit => RingInit
  BY DEF AudioInit
<1>2. SoundInv /\ [AudioNext]_audioVars => [RingNext]_ringVars
  BY SoundRingStep, RingStepIsNext
<1> QED
  BY <1>1, <1>2, SoundInvariance, PTL DEF AudioSpec, RingSpec

\* So _O_Buffer is a queue: what the card gets is what the GUI has put, in order.
THEOREM SoundIsQueue == AudioSpec => RingIsQueue
BY SoundUsesRing, RingImplementsQueue, PTL

\* The card gets left and right in turn, whatever the decoders deliver, however
\* late the card or the GUI is, and whenever the stream is stopped and started.
THEOREM SoundKeepsSides == AudioSpec => []SidesKept
<1>1. SoundInv => SidesKept
  BY AlternatesIs DEF SoundInv, Downstream, SidesKept
<1> QED
  BY <1>1, SoundInvariance, PTL

\* The same in the system of MCBuffers, in which the sound is one of three uses of
\* the buffers.
THEOREM BuffersKeepSides == MCSpec => []SoundSides
<1> DEFINE I == use = "sound" => SoundInv
<1>1. MCInit => I
  BY InitSound DEF MCInit
<1>2. I /\ [MCNext]_<<allVars, audioVars, use>> => I'
  <2> SUFFICES ASSUME I, [MCNext]_<<allVars, audioVars, use>>, use' = "sound" PROVE SoundInv'
    BY Zenon
  <2>1. use = "sound" /\ [AudioNext]_audioVars
    BY DEF MCNext
  <2> QED BY <2>1, SoundStep
<1>3. I => SoundSides
  BY AlternatesIs DEF SoundInv, Downstream, SidesKept, SoundSides
<1> QED
  BY <1>1, <1>2, <1>3, PTL DEF MCSpec
=============================================================================
