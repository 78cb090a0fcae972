--------------------------- MODULE BackendsProofs ----------------------------
(***************************************************************************)
(* Proofs about Backends, for every carousel, every set of objects and any *)
(* number of losses: packets, frames and the places of bits.  PadProofs    *)
(* goes on with the PAD.                                                   *)
(***************************************************************************)
EXTENDS Backends, WellFoundedInduction, TLAPS

-----------------------------------------------------------------------------
(* MOT: the objects and the directory, each with segments of its own only. *)

MotObject ==
  UNION {[transportId : {o}, motMap : SUBSET AllOf(o), numofSegments : {-1, NumSegments[o]}] :
           o \in Object \union DirObject}

MotDirectory ==
  UNION {[transportId : {d}, marked : SUBSET AllOf(d), num_dirSegments : {-1, NumSegments[d]},
          motComponents : Seq(MotObject)] : d \in Directory}

WholeObject == {h \in MotObject : h.motMap = AllOf(h.transportId)}

MotHandler ==
  [motTable : {t \in Seq(MotObject) : Len(t) <= TableSize},
   theDirectory : MotDirectory \union {None}, handed : WholeObject \union {None}]

\* What there is in an MSC data group.
LEMMA GroupKinds ==
  ASSUME NEW g \in DataGroup
  PROVE  \/ \E o \in Object : g = [type |-> "header", id |-> o, number |-> 0, last |-> TRUE]
         \/ \E o \in Object \union DirObject : \E n \in 0 .. NumSegments[o] - 1 :
              g = [type |-> "body", id |-> o, number |-> n, last |-> n = NumSegments[o] - 1]
         \/ \E d \in Directory : \E n \in 0 .. NumSegments[d] - 1 :
              g = [type |-> "directory", id |-> d, number |-> n, last |-> n = NumSegments[d] - 1]
<1> DEFINE H == {[type |-> "header", id |-> o, number |-> 0, last |-> TRUE] : o \in Object}
           B(o) == {[type |-> "body", id |-> o, number |-> n, last |-> n = NumSegments[o] - 1] :
                      n \in 0 .. NumSegments[o] - 1}
           D(d) == {[type |-> "directory", id |-> d, number |-> n, last |-> n = NumSegments[d] - 1] :
                      n \in 0 .. NumSegments[d] - 1}
<1>1. DataGroup = H \union (UNION {B(o) : o \in Object \union DirObject})
                    \union (UNION {D(d) : d \in Directory})
  BY DEF DataGroup
<1>2. g \in H => \E o \in Object : g = [type |-> "header", id |-> o, number |-> 0, last |-> TRUE]
  BY Zenon
<1>3. \A o : g \in B(o) => \E n \in 0 .. NumSegments[o] - 1 :
        g = [type |-> "body", id |-> o, number |-> n, last |-> n = NumSegments[o] - 1]
  BY Zenon
<1>4. \A d : g \in D(d) => \E n \in 0 .. NumSegments[d] - 1 :
        g = [type |-> "directory", id |-> d, number |-> n, last |-> n = NumSegments[d] - 1]
  BY Zenon
<1> HIDE DEF H, B, D
<1>5. \/ g \in H \/ \E o \in Object \union DirObject : g \in B(o)
      \/ \E d \in Directory : g \in D(d)
  <2>1. \/ g \in H
        \/ g \in UNION {B(o) : o \in Object \union DirObject}
        \/ g \in UNION {D(d) : d \in Directory}
    BY <1>1
  <2>2. g \in UNION {B(o) : o \in Object \union DirObject} =>
          \E o \in Object \union DirObject : g \in B(o)
    OBVIOUS
  <2>3. g \in UNION {D(d) : d \in Directory} => \E d \in Directory : g \in D(d)
    OBVIOUS
  <2> QED BY <2>1, <2>2, <2>3, Zenon
<1> QED BY <1>2, <1>3, <1>4, <1>5, Zenon

\* A segment, field by field.
LEMMA SegmentFields ==
  ASSUME NEW t, NEW o, NEW n \in 0 .. NumSegments[o] - 1, NEW g,
         g = [type |-> t, id |-> o, number |-> n, last |-> n = NumSegments[o] - 1]
  PROVE  /\ g.type = t /\ g.id = o /\ g.number \in 0 .. NumSegments[g.id] - 1
         /\ g.last <=> g.number = NumSegments[g.id] - 1
         /\ Piece(g) \in AllOf(g.id)
<1>1. g.type = t /\ g.id = o /\ g.number = n
  OBVIOUS
<1>2. g.last <=> n = NumSegments[o] - 1
  BY Zenon
<1> QED BY <1>1, <1>2 DEF Piece, AllOf

LEMMA GroupTypes ==
  ASSUME NEW g \in DataGroup
  PROVE  /\ g.type \in {"header", "body", "directory"}
         /\ g.type = "header" => g.id \in Object
         /\ g.type = "body" => g.id \in Object \union DirObject
         /\ g.type = "directory" => g.id \in Directory
         /\ g.type # "header" => /\ g.number \in 0 .. NumSegments[g.id] - 1
                                 /\ g.last <=> g.number = NumSegments[g.id] - 1
                                 /\ Piece(g) \in AllOf(g.id)
<1>1. CASE \E o \in Object : g = [type |-> "header", id |-> o, number |-> 0, last |-> TRUE]
  <2>1. PICK o \in Object : g = [type |-> "header", id |-> o, number |-> 0, last |-> TRUE]
    BY <1>1
  <2>2. g.type = "header" /\ g.id = o
    BY <2>1
  <2> QED BY <2>2
<1>2. CASE \E o \in Object \union DirObject : \E n \in 0 .. NumSegments[o] - 1 :
             g = [type |-> "body", id |-> o, number |-> n, last |-> n = NumSegments[o] - 1]
  <2>1. PICK o \in Object \union DirObject : \E n \in 0 .. NumSegments[o] - 1 :
             g = [type |-> "body", id |-> o, number |-> n, last |-> n = NumSegments[o] - 1]
    BY <1>2
  <2>2. g.id = o /\ g.type = "body" /\ g.number \in 0 .. NumSegments[g.id] - 1
          /\ (g.last <=> g.number = NumSegments[g.id] - 1) /\ Piece(g) \in AllOf(g.id)
    BY <2>1, SegmentFields
  <2> QED BY <2>2
<1>3. CASE \E d \in Directory : \E n \in 0 .. NumSegments[d] - 1 :
             g = [type |-> "directory", id |-> d, number |-> n, last |-> n = NumSegments[d] - 1]
  <2>1. PICK d \in Directory : \E n \in 0 .. NumSegments[d] - 1 :
             g = [type |-> "directory", id |-> d, number |-> n, last |-> n = NumSegments[d] - 1]
    BY <1>3
  <2>2. g.id = d /\ g.type = "directory" /\ g.number \in 0 .. NumSegments[g.id] - 1
          /\ (g.last <=> g.number = NumSegments[g.id] - 1) /\ Piece(g) \in AllOf(g.id)
    BY <2>1, SegmentFields
  <2> QED BY <2>2
<1> QED BY <1>1, <1>2, <1>3, GroupKinds

LEMMA MotObjectFields ==
  ASSUME NEW h \in MotObject
  PROVE  /\ h = [transportId |-> h.transportId, motMap |-> h.motMap,
                 numofSegments |-> h.numofSegments]
         /\ h.transportId \in Object \union DirObject
         /\ h.motMap \subseteq AllOf(h.transportId)
         /\ h.numofSegments \in {-1, NumSegments[h.transportId]}
BY DEF MotObject

\* Two members of a record are replaced.
LEMMA ObjectReplaced ==
  ASSUME NEW h \in MotObject, NEW pieces, NEW count
  PROVE  [h EXCEPT !.motMap = pieces, !.numofSegments = count]
           = [transportId |-> h.transportId, motMap |-> pieces, numofSegments |-> count]
<1> DEFINE id == h.transportId
           a  == h.motMap
           b  == h.numofSegments
<1>1. h = [transportId |-> id, motMap |-> a, numofSegments |-> b]
  BY MotObjectFields
<1> HIDE DEF id, a, b
<1>2. [h EXCEPT !.motMap = pieces] = [transportId |-> id, motMap |-> pieces, numofSegments |-> b]
  BY <1>1
<1>3. [h EXCEPT !.motMap = pieces, !.numofSegments = count]
        = [[h EXCEPT !.motMap = pieces] EXCEPT !.numofSegments = count]
  BY <1>1
<1>4. [[transportId |-> id, motMap |-> pieces, numofSegments |-> b] EXCEPT !.numofSegments = count]
        = [transportId |-> id, motMap |-> pieces, numofSegments |-> count]
  OBVIOUS
<1> QED BY <1>2, <1>3, <1>4, Zenon DEF id

LEMMA MotObjectMade ==
  ASSUME NEW o \in Object \union DirObject, NEW pieces \in SUBSET AllOf(o),
         NEW n \in {-1, NumSegments[o]}
  PROVE  [transportId |-> o, motMap |-> pieces, numofSegments |-> n] \in MotObject
BY DEF MotObject

\* A new object has no segments.
LEMMA NewObject == ASSUME NEW o \in Object \union DirObject PROVE motObject(o) \in MotObject
BY MotObjectMade DEF motObject

LEMMA Counts ==
  ASSUME NEW o \in Id PROVE NumSegments[o] \in Nat \ {0}
BY MotAssumption DEF MotAssumption

\* What is complete by its count is all there is of it.
LEMMA CompleteIsAll ==
  ASSUME NEW o \in Id, NEW pieces \in SUBSET AllOf(o), NEW n \in {-1, NumSegments[o]},
         Complete(pieces, n)
  PROVE  pieces = AllOf(o)
<1>1. n = NumSegments[o] /\ n \in Nat
  BY Counts DEF Complete
<1>2. ASSUME NEW k \in 0 .. NumSegments[o] - 1
      PROVE  [number |-> k, of |-> o] \in pieces
  <2>1. PICK p \in pieces : p.number = k
    BY <1>1 DEF Complete, Has
  <2>2. p = [number |-> k, of |-> o]
    BY <2>1 DEF AllOf
  <2> QED BY <2>2
<1> QED BY <1>2 DEF AllOf

\* A segment of its own leaves an object in order, and only a whole one is handed over.
LEMMA BodySegmentOK ==
  ASSUME NEW h \in MotObject, NEW g \in DataGroup, g.type = "body", g.id = h.transportId
  PROVE  /\ addBodySegment(h, g).object \in MotObject
         /\ addBodySegment(h, g).object.transportId = h.transportId
         /\ addBodySegment(h, g).handed \in WholeObject \union {None}
<1> DEFINE pieces == h.motMap \union {Piece(g)}
           count  == IF g.last THEN g.number + 1 ELSE h.numofSegments
           new    == [transportId |-> h.transportId, motMap |-> pieces, numofSegments |-> count]
<1>1. CASE Has(h.motMap, g.number)
  BY <1>1 DEF addBodySegment
<1>2. CASE ~Has(h.motMap, g.number)
  <2>1. [h EXCEPT !.motMap = @ \union {Piece(g)},
                  !.numofSegments = IF g.last THEN g.number + 1 ELSE @] = new
    <3> HIDE DEF pieces, count
    <3>1. [h EXCEPT !.motMap = pieces, !.numofSegments = count]
            = [transportId |-> h.transportId, motMap |-> pieces, numofSegments |-> count]
      BY ObjectReplaced
    <3> QED BY <3>1, Zenon DEF pieces, count, new
  <2>2. h.transportId \in Id /\ NumSegments[h.transportId] \in Nat \ {0}
    BY MotObjectFields, Counts DEF Id
  <2>3. pieces \in SUBSET AllOf(h.transportId) /\ count \in {-1, NumSegments[h.transportId]}
    BY MotObjectFields, GroupTypes, <2>2
  <2>4. new \in MotObject
    BY <2>3, MotObjectFields, MotObjectMade
  <2>5. Complete(new.motMap, new.numofSegments) => new \in WholeObject
    BY <2>2, <2>3, <2>4, CompleteIsAll DEF WholeObject
  <2> HIDE DEF new
  <2>6. addBodySegment(h, g) =
          [object |-> new, handed |-> IF Complete(new.motMap, new.numofSegments) THEN new ELSE None]
    BY <1>2, <2>1 DEF addBodySegment
  <2> QED BY <2>4, <2>5, <2>6 DEF new
<1> QED BY <1>1, <1>2

\* Every member of a directory stays in order with a segment of it.
LEMMA DirectoryMade ==
  ASSUME NEW d \in Directory, NEW pieces \in SUBSET AllOf(d), NEW n \in {-1, NumSegments[d]},
         NEW components \in Seq(MotObject)
  PROVE  [transportId |-> d, marked |-> pieces, num_dirSegments |-> n,
          motComponents |-> components] \in MotDirectory
BY DEF MotDirectory

LEMMA DirectoryMembers ==
  ASSUME NEW r \in MotDirectory
  PROVE  /\ r = [transportId |-> r.transportId, marked |-> r.marked,
                 num_dirSegments |-> r.num_dirSegments, motComponents |-> r.motComponents]
         /\ r.transportId \in Directory
         /\ r.marked \in SUBSET AllOf(r.transportId)
         /\ r.num_dirSegments \in {-1, NumSegments[r.transportId]}
         /\ r.motComponents \in Seq(MotObject)
BY DEF MotDirectory

LEMMA DirectoryReplaced ==
  ASSUME NEW r \in MotDirectory, NEW pieces, NEW count
  PROVE  [r EXCEPT !.marked = pieces, !.num_dirSegments = count]
           = [transportId |-> r.transportId, marked |-> pieces, num_dirSegments |-> count,
              motComponents |-> r.motComponents]
<1> DEFINE id == r.transportId
           a  == r.marked
           b  == r.num_dirSegments
           c  == r.motComponents
<1>1. r = [transportId |-> id, marked |-> a, num_dirSegments |-> b, motComponents |-> c]
  BY DirectoryMembers
<1> HIDE DEF id, a, b, c
<1>2. [r EXCEPT !.marked = pieces]
        = [transportId |-> id, marked |-> pieces, num_dirSegments |-> b, motComponents |-> c]
  BY <1>1
<1>3. [r EXCEPT !.marked = pieces, !.num_dirSegments = count]
        = [[r EXCEPT !.marked = pieces] EXCEPT !.num_dirSegments = count]
  BY <1>1
<1>4. [[transportId |-> id, marked |-> pieces, num_dirSegments |-> b, motComponents |-> c]
         EXCEPT !.num_dirSegments = count]
        = [transportId |-> id, marked |-> pieces, num_dirSegments |-> count, motComponents |-> c]
  OBVIOUS
<1> QED BY <1>2, <1>3, <1>4, Zenon DEF id, c

LEMMA AnalysedOK ==
  ASSUME NEW r \in MotDirectory PROVE analyse_theDirectory(r) \in MotDirectory
<1> DEFINE ids == Listed[r.transportId]
           components == [i \in DOMAIN ids |-> motObject(ids[i])]
<1>1. ids \in Seq(DirObject)
  BY DirectoryMembers, MotAssumption DEF MotAssumption
<1>2. components \in Seq(MotObject)
  <2>1. \A i \in 1 .. Len(ids) : motObject(ids[i]) \in MotObject
    BY <1>1, NewObject
  <2>2. DOMAIN ids = 1 .. Len(ids) /\ Len(ids) \in Nat
    BY <1>1
  <2> HIDE DEF ids
  <2> QED BY <2>1, <2>2
<1>3. [r EXCEPT !.motComponents = components] =
        [transportId |-> r.transportId, marked |-> r.marked,
         num_dirSegments |-> r.num_dirSegments, motComponents |-> components]
  <2> HIDE DEF components
  <2> QED BY DirectoryMembers
<1>4. [r EXCEPT !.motComponents = components] \in MotDirectory
  <2> HIDE DEF components
  <2> QED BY <1>2, <1>3, DirectoryMembers, DirectoryMade
<1> QED BY <1>4 DEF analyse_theDirectory

LEMMA DirectorySegmentOK ==
  ASSUME NEW r \in MotDirectory, NEW g \in DataGroup, g.type = "directory", g.id = r.transportId
  PROVE  directorySegment(r, g) \in MotDirectory
<1> DEFINE pieces == r.marked \union {Piece(g)}
           count  == IF g.last THEN g.number + 1 ELSE r.num_dirSegments
           new    == [transportId |-> r.transportId, marked |-> pieces,
                      num_dirSegments |-> count, motComponents |-> r.motComponents]
<1>1. [r EXCEPT !.marked = @ \union {Piece(g)},
                !.num_dirSegments = IF g.last THEN g.number + 1 ELSE @] = new
  <2> HIDE DEF pieces, count
  <2>1. [r EXCEPT !.marked = pieces, !.num_dirSegments = count]
          = [transportId |-> r.transportId, marked |-> pieces, num_dirSegments |-> count,
             motComponents |-> r.motComponents]
    BY DirectoryReplaced
  <2> QED BY <2>1, Zenon DEF pieces, count, new
<1>2. NumSegments[r.transportId] \in Nat \ {0}
  BY DirectoryMembers, Counts DEF Id
<1>3. pieces \in SUBSET AllOf(r.transportId) /\ count \in {-1, NumSegments[r.transportId]}
  BY DirectoryMembers, GroupTypes, <1>2
<1>4. new \in MotDirectory
  BY <1>3, DirectoryMembers, DirectoryMade
<1> HIDE DEF new
<1> QED BY <1>1, <1>4, AnalysedOK DEF directorySegment

\* A handler, member by member.
LEMMA HandlerMembers ==
  ASSUME NEW m \in MotHandler
  PROVE  /\ m.motTable \in Seq(MotObject) /\ Len(m.motTable) <= TableSize
         /\ m.theDirectory \in MotDirectory \union {None}
         /\ m.handed \in WholeObject \union {None}
BY DEF MotHandler

LEMMA HandedOK ==
  ASSUME NEW m \in MotHandler, NEW h \in WholeObject \union {None}
  PROVE  [m EXCEPT !.handed = h] \in MotHandler
BY DEF MotHandler

LEMMA TableOK ==
  ASSUME NEW m \in MotHandler, NEW t \in Seq(MotObject), Len(t) <= TableSize
  PROVE  [m EXCEPT !.motTable = t] \in MotHandler
BY DEF MotHandler

LEMMA NextDirectoryOK ==
  ASSUME NEW m \in MotHandler, NEW r \in MotDirectory
  PROVE  [m EXCEPT !.theDirectory = r] \in MotHandler
BY DEF MotHandler

\* The table is of objects, and never longer than it may be.
LEMMA setHandleOK ==
  ASSUME NEW m \in MotHandler, NEW h \in MotObject
  PROVE  setHandle(m, h) \in MotHandler
<1> DEFINE t == m.motTable
           u == IF Len(t) < TableSize THEN Append(t, h) ELSE Append(Tail(t), h)
<1>1. t \in Seq(MotObject) /\ Len(t) <= TableSize /\ TableSize \in Nat \ {0}
  BY HandlerMembers, MotAssumption DEF MotAssumption
<1> HIDE DEF t
<1>2. u \in Seq(MotObject) /\ Len(u) <= TableSize
  BY <1>1
<1> HIDE DEF u
<1>3. [m EXCEPT !.motTable = u] \in MotHandler
  BY <1>2, TableOK
<1> QED BY <1>3, Zenon DEF setHandle, t, u

LEMMA HeaderOK ==
  ASSUME NEW m \in MotHandler, NEW g \in DataGroup, g.type = "header"
  PROVE  Header(m, g) \in MotHandler
BY GroupTypes, NewObject, setHandleOK DEF Header

LEMMA BodyOK ==
  ASSUME NEW m \in MotHandler, NEW g \in DataGroup, g.type = "body"
  PROVE  Body(m, g) \in MotHandler
<1>1. CASE InTable(m, g.id) # {}
  <2> DEFINE i == CHOOSE j \in InTable(m, g.id) : TRUE
             t == m.motTable
             r == addBodySegment(t[i], g)
  <2>1. i \in DOMAIN t /\ t[i].transportId = g.id
    BY <1>1 DEF InTable
  <2>2. Body(m, g) = [m EXCEPT !.motTable[i] = r.object, !.handed = r.handed]
    BY <1>1 DEF Body
  <2>3. t \in Seq(MotObject) /\ Len(t) <= TableSize
    BY HandlerMembers
  <2> HIDE DEF i, t
  <2>4. r.object \in MotObject /\ r.handed \in WholeObject \union {None}
    BY <2>1, <2>3, BodySegmentOK
  <2> HIDE DEF r
  <2>5. [t EXCEPT ![i] = r.object] \in Seq(MotObject) /\ Len([t EXCEPT ![i] = r.object]) <= TableSize
    BY <2>1, <2>3, <2>4
  <2>6. [m EXCEPT !.motTable[i] = r.object, !.handed = r.handed]
          = [[m EXCEPT !.motTable = [t EXCEPT ![i] = r.object]] EXCEPT !.handed = r.handed]
    BY DEF MotHandler, t
  <2>7. [m EXCEPT !.motTable = [t EXCEPT ![i] = r.object]] \in MotHandler
    BY <2>5, TableOK
  <2>8. [[m EXCEPT !.motTable = [t EXCEPT ![i] = r.object]] EXCEPT !.handed = r.handed] \in MotHandler
    BY <2>7, <2>4, HandedOK
  <2> QED BY <2>2, <2>6, <2>8
<1>2. CASE InTable(m, g.id) = {} /\ InDirectory(m, g.id) # {}
  <2> DEFINE i == CHOOSE j \in InDirectory(m, g.id) : TRUE
             d == m.theDirectory
             t == d.motComponents
             r == addBodySegment(t[i], g)
  <2>1. d # None /\ i \in DOMAIN t /\ t[i].transportId = g.id
    BY <1>2 DEF InDirectory
  <2>2. Body(m, g) = [m EXCEPT !.theDirectory.motComponents[i] = r.object, !.handed = r.handed]
    BY <1>2 DEF Body
  <2>3. d \in MotDirectory
    BY <2>1, HandlerMembers
  <2>4. t \in Seq(MotObject)
    BY <2>3, DirectoryMembers
  <2> HIDE DEF i, t
  <2>5. r.object \in MotObject /\ r.handed \in WholeObject \union {None}
    BY <2>1, <2>4, BodySegmentOK
  <2> HIDE DEF r
  <2> DEFINE u == [t EXCEPT ![i] = r.object]
  <2>6. u \in Seq(MotObject)
    BY <2>1, <2>4, <2>5
  <2>7. [m EXCEPT !.theDirectory.motComponents[i] = r.object, !.handed = r.handed]
          = [[m EXCEPT !.theDirectory = [d EXCEPT !.motComponents = u]] EXCEPT !.handed = r.handed]
    BY DEF MotHandler, t
  <2> HIDE DEF u, d
  <2>8. [d EXCEPT !.motComponents = u] = [transportId |-> d.transportId, marked |-> d.marked,
                 num_dirSegments |-> d.num_dirSegments, motComponents |-> u]
    BY <2>3, DirectoryMembers
  <2>9. [d EXCEPT !.motComponents = u] \in MotDirectory
    BY <2>3, <2>6, <2>8, DirectoryMembers, DirectoryMade
  <2>10. [m EXCEPT !.theDirectory = [d EXCEPT !.motComponents = u]] \in MotHandler
    BY <2>9, NextDirectoryOK
  <2>11. [[m EXCEPT !.theDirectory = [d EXCEPT !.motComponents = u]] EXCEPT !.handed = r.handed] \in MotHandler
    BY <2>10, <2>5, HandedOK
  <2> QED BY <2>2, <2>7, <2>11 DEF u
<1>3. CASE InTable(m, g.id) = {} /\ InDirectory(m, g.id) = {}
  BY <1>3 DEF Body
<1> QED BY <1>1, <1>2, <1>3

LEMMA DirectoryOK ==
  ASSUME NEW m \in MotHandler, NEW g \in DataGroup, g.type = "directory"
  PROVE  DirectorySegment(m, g) \in MotHandler
<1>1. CASE g.number = 0
  <2>1. motDirectory(g) \in MotDirectory
    <3>1. g.id \in Directory /\ {Piece(g)} \in SUBSET AllOf(g.id) /\ <<>> \in Seq(MotObject)
      BY GroupTypes
    <3> QED BY <3>1, DirectoryMade DEF motDirectory
  <2>2. [m EXCEPT !.theDirectory = motDirectory(g)] \in MotHandler
    BY <2>1, NextDirectoryOK
  <2> QED BY <1>1, <2>2 DEF DirectorySegment
<1>2. CASE g.number # 0 /\ DirectoryIs(m, g)
  <2>1. m.theDirectory \in MotDirectory /\ m.theDirectory.transportId = g.id
    BY <1>2, HandlerMembers DEF DirectoryIs
  <2>2. directorySegment(m.theDirectory, g) \in MotDirectory
    BY <2>1, DirectorySegmentOK
  <2>3. [m EXCEPT !.theDirectory = directorySegment(m.theDirectory, g)] \in MotHandler
    BY <2>2, NextDirectoryOK
  <2> QED BY <1>2, <2>3 DEF DirectorySegment
<1>3. CASE g.number # 0 /\ ~DirectoryIs(m, g)
  BY <1>3 DEF DirectorySegment
<1> QED BY <1>1, <1>2, <1>3

\* Whatever data group comes, what is handed over is whole.
LEMMA add_mscDatagroupOK ==
  ASSUME NEW m \in MotHandler, NEW g \in DataGroup
  PROVE  add_mscDatagroup(m, g) \in MotHandler
<1>1. [m EXCEPT !.handed = None] \in MotHandler
  BY HandedOK
<1> QED BY <1>1, GroupTypes, HeaderOK, BodyOK, DirectoryOK DEF add_mscDatagroup

-----------------------------------------------------------------------------
(* The broadcaster of packets, and what a dataProcessor has of them.       *)

PacketPart == [group : DataGroup, part : Nat]

\* A data group of a carousel, with the number of its packets.
Cut == [group : DataGroup, packets : Nat \ {0}]

LEMMA CarouselIsCut ==
  ASSUME NEW c \in Carousel
  PROVE  /\ c \in Seq(Cut) /\ Len(c) \in Nat \ {0} /\ DOMAIN c = 1 .. Len(c)
         /\ \A i \in DOMAIN c : c[i].group \in DataGroup /\ c[i].packets \in Nat \ {0}
<1>1. c \in Seq(Cut) /\ c # <<>>
  BY CarouselAssumption DEF CarouselAssumption, Cut
<1>2. Len(c) \in Nat \ {0} /\ DOMAIN c = 1 .. Len(c) /\ \A i \in DOMAIN c : c[i] \in Cut
  BY <1>1
<1>3. \A x \in Cut : x.group \in DataGroup /\ x.packets \in Nat \ {0}
  BY DEF Cut
<1> QED BY <1>1, <1>2, <1>3

Place ==
  {b \in [carousel : Carousel, at : Nat, part : Nat, index : 0 .. 3] :
     b.at \in DOMAIN b.carousel /\ b.part \in 1 .. b.carousel[b.at].packets}

Processor ==
  [expectedIndex : 0 .. 3, packetState : {0, 1}, series : Seq(PacketPart), mot : MotHandler]

LEMMA PlaceFields ==
  ASSUME NEW b \in Place
  PROVE  /\ b.carousel \in Carousel /\ b.index \in 0 .. 3
         /\ b.at \in 1 .. Len(b.carousel)
         /\ Sent(b).group \in DataGroup /\ Sent(b).packets \in Nat \ {0}
         /\ b.part \in 1 .. Sent(b).packets
<1>1. /\ b.carousel \in Carousel /\ b.index \in 0 .. 3
      /\ b.at \in DOMAIN b.carousel /\ b.part \in 1 .. b.carousel[b.at].packets
  BY DEF Place
<1> QED BY <1>1, CarouselIsCut DEF Sent

LEMMA TuningsOK == Tunings \subseteq Place
<1> SUFFICES ASSUME NEW b \in Tunings PROVE b \in Place
  OBVIOUS
<1>1. PICK c \in Carousel : \E i \in DOMAIN c, p \in {1}, x \in 0 .. 3 :
        b = [carousel |-> c, at |-> i, part |-> p, index |-> x]
  BY DEF Tunings
<1>2. PICK i \in DOMAIN c, x \in 0 .. 3 : b = [carousel |-> c, at |-> i, part |-> 1, index |-> x]
  BY <1>1
<1>3. i \in Nat /\ c[i].packets \in Nat \ {0}
  BY CarouselIsCut
<1> QED BY <1>2, <1>3 DEF Place

\* The next packet, and which part of which group it is.
LEMMA NextPacketFields ==
  ASSUME NEW b \in Place
  PROVE  /\ NextPacket(b) \in Place
         /\ NextPacket(b).index = (b.index + 1) % 4
         /\ LastOf(b) <=> NextPacket(b).part = 1
         /\ ~LastOf(b) => /\ NextPacket(b).part = b.part + 1
                          /\ Sent(NextPacket(b)) = Sent(b)
<1> DEFINE at == IF ~LastOf(b) THEN b.at ELSE IF b.at = Len(b.carousel) THEN 1 ELSE b.at + 1
           part == IF LastOf(b) THEN 1 ELSE b.part + 1
           index == (b.index + 1) % 4
           c == b.carousel
           n == [carousel |-> c, at |-> at, part |-> part, index |-> index]
<1>1. b = [carousel |-> b.carousel, at |-> b.at, part |-> b.part, index |-> b.index]
  BY DEF Place
<1>2. n.at = at /\ n.part = part /\ n.index = index /\ n.carousel = c
  OBVIOUS
<1>3. NextPacket(b) = n
  <2> DEFINE c0 == b.carousel
             a0 == b.at
             p0 == b.part
             i0 == b.index
  <2>1. b = [carousel |-> c0, at |-> a0, part |-> p0, index |-> i0]
    BY <1>1
  <2> HIDE DEF at, part, index, c0, a0, p0, i0
  <2>2. [b EXCEPT !.index = index] = [carousel |-> c0, at |-> a0, part |-> p0, index |-> index]
    BY <2>1
  <2>3. [[carousel |-> c0, at |-> a0, part |-> p0, index |-> index] EXCEPT !.part = part]
          = [carousel |-> c0, at |-> a0, part |-> part, index |-> index]
    OBVIOUS
  <2>4. [[carousel |-> c0, at |-> a0, part |-> part, index |-> index] EXCEPT !.at = at]
          = [carousel |-> c0, at |-> at, part |-> part, index |-> index]
    OBVIOUS
  <2>5. [b EXCEPT !.index = index, !.part = part, !.at = at]
          = [[[b EXCEPT !.index = index] EXCEPT !.part = part] EXCEPT !.at = at]
    BY <2>1
  <2>6. [b EXCEPT !.index = index, !.part = part, !.at = at] = n
    BY <2>2, <2>3, <2>4, <2>5, Zenon DEF n, c0
  <2> QED BY <2>6, Zenon DEF NextPacket, at, part, index
<1>4. /\ b.index \in 0 .. 3 /\ index \in 0 .. 3
      /\ b.at \in 1 .. Len(c) /\ c \in Carousel /\ c[b.at].packets \in Nat \ {0}
      /\ b.part \in 1 .. c[b.at].packets /\ DOMAIN c = 1 .. Len(c) /\ Len(c) \in Nat \ {0}
  <2> HIDE DEF c
  <2>1. b.index \in 0 .. 3 => index \in 0 .. 3
    OBVIOUS
  <2> QED BY <2>1, PlaceFields, CarouselIsCut DEF Sent, c
<1>5. at \in 1 .. Len(c) /\ c[at].packets \in Nat \ {0} /\ (~LastOf(b) => at = b.at)
  <2>1. at \in 1 .. Len(c) /\ (~LastOf(b) => at = b.at)
    BY <1>4
  <2> QED BY <2>1, <1>4, CarouselIsCut
<1>6. part \in 1 .. c[at].packets /\ part \in Nat
  BY <1>4, <1>5 DEF LastOf, Sent
<1>7. n \in Place
  <2> HIDE DEF at, part, index
  <2> QED BY <1>4, <1>5, <1>6 DEF Place
<1>8. part = 1 <=> LastOf(b)
  BY <1>4
<1> HIDE DEF n
<1> QED BY <1>2, <1>3, <1>5, <1>7, <1>8 DEF Sent

LEMMA ProcessorFields ==
  ASSUME NEW d \in Processor
  PROVE  /\ d.expectedIndex \in 0 .. 3 /\ d.packetState \in {0, 1}
         /\ d.series \in Seq(PacketPart) /\ d.mot \in MotHandler
BY DEF Processor

LEMMA QuietOK ==
  ASSUME NEW d \in Processor
  PROVE  /\ Quiet(d) \in Processor /\ Quiet(d).mot.handed = None
         /\ Quiet(d).expectedIndex = d.expectedIndex /\ Quiet(d).packetState = d.packetState
         /\ Quiet(d).series = d.series
<1>1. [d.mot EXCEPT !.handed = None] \in MotHandler /\ [d.mot EXCEPT !.handed = None].handed = None
  BY ProcessorFields, HandedOK DEF MotHandler
<1>2. Quiet(d) = [d EXCEPT !.mot = [d.mot EXCEPT !.handed = None]]
  BY DEF Quiet
<1> HIDE DEF Quiet
<1> DEFINE q == [d.mot EXCEPT !.handed = None]
<1> HIDE DEF q
<1>3. [d EXCEPT !.mot = q].mot = q /\ (q \in MotHandler => [d EXCEPT !.mot = q] \in Processor)
        /\ [d EXCEPT !.mot = q].expectedIndex = d.expectedIndex
        /\ [d EXCEPT !.mot = q].packetState = d.packetState
        /\ [d EXCEPT !.mot = q].series = d.series
  BY DEF Processor
<1> QED BY <1>1, <1>2, <1>3 DEF q

\* A series goes to the handler and is forgotten.
LEMMA DeliverOK ==
  ASSUME NEW d \in Processor, NEW b \in Place, NEW series
  PROVE  /\ Deliver(d, b, series) \in Processor
         /\ Deliver(d, b, series).packetState = 0
         /\ Deliver(d, b, series).expectedIndex = d.expectedIndex
<1> DEFINE q == IF series = Whole(b) THEN add_mscDatagroup(d.mot, Sent(b).group)
                                     ELSE [d.mot EXCEPT !.handed = None]
<1>1. q \in MotHandler
  BY ProcessorFields, PlaceFields, HandedOK, add_mscDatagroupOK
<1> HIDE DEF q
<1>2. <<>> \in Seq(PacketPart)
  OBVIOUS
<1>3. /\ [d EXCEPT !.packetState = 0, !.series = <<>>, !.mot = q] \in Processor
      /\ [d EXCEPT !.packetState = 0, !.series = <<>>, !.mot = q].packetState = 0
      /\ [d EXCEPT !.packetState = 0, !.series = <<>>, !.mot = q].expectedIndex = d.expectedIndex
  BY <1>1, <1>2 DEF Processor
<1> QED BY <1>3, Zenon DEF Deliver, q

\* What Assemble makes of a packet: outside a series it waits for the begin of one; a
\* series goes on by its next part up to its last.
LEMMA AssembleOK ==
  ASSUME NEW d \in Processor, NEW b \in Place
  PROVE  /\ Assemble(d, b) \in Processor
         /\ Assemble(d, b).expectedIndex = d.expectedIndex
         /\ LastOf(b) => Assemble(d, b).packetState = 0
         /\ FirstOf(b) /\ ~LastOf(b) =>
              Assemble(d, b).packetState = 1 /\ Assemble(d, b).series = <<Part(b)>>
         /\ ~FirstOf(b) /\ ~LastOf(b) /\ d.packetState = 1 =>
              Assemble(d, b).packetState = 1 /\ Assemble(d, b).series = Append(d.series, Part(b))
<1>1. Part(b) \in PacketPart
  BY PlaceFields DEF Part, PacketPart
<1>2. ASSUME NEW p \in {0, 1}, NEW s \in Seq(PacketPart)
      PROVE  /\ [d EXCEPT !.packetState = p, !.series = s] \in Processor
             /\ [d EXCEPT !.packetState = p, !.series = s].packetState = p
             /\ [d EXCEPT !.packetState = p, !.series = s].series = s
             /\ [d EXCEPT !.packetState = p, !.series = s].expectedIndex = d.expectedIndex
  BY DEF Processor
<1>3. ASSUME NEW s \in Seq(PacketPart)
      PROVE  /\ [d EXCEPT !.series = s] \in Processor
             /\ [d EXCEPT !.series = s].packetState = d.packetState
             /\ [d EXCEPT !.series = s].series = s
             /\ [d EXCEPT !.series = s].expectedIndex = d.expectedIndex
  BY DEF Processor
<1>4. d.packetState \in {0, 1} /\ <<>> \in Seq(PacketPart) /\ <<Part(b)>> \in Seq(PacketPart)
        /\ Append(d.series, Part(b)) \in Seq(PacketPart)
  BY <1>1, ProcessorFields
<1>5. CASE FirstOf(b) /\ ~LastOf(b)
  <2>1. Assemble(d, b) = [d EXCEPT !.packetState = 1, !.series = <<Part(b)>>]
    BY <1>5 DEF Assemble
  <2>2. Assemble(d, b).packetState = 1 /\ Assemble(d, b).series = <<Part(b)>>
    BY <2>1, <1>2, <1>4
  <2>3. Assemble(d, b) \in Processor /\ Assemble(d, b).expectedIndex = d.expectedIndex
    BY <2>1, <1>2, <1>4
  <2> QED BY <2>2, <2>3, <1>5
<1>6. CASE FirstOf(b) /\ LastOf(b) /\ d.packetState = 0
  <2>1. Assemble(d, b) = Deliver(d, b, <<Part(b)>>)
    BY <1>6 DEF Assemble
  <2> QED BY <2>1, DeliverOK, <1>6
<1>7. CASE FirstOf(b) /\ LastOf(b) /\ d.packetState = 1
  <2>1. Assemble(d, b) = [d EXCEPT !.packetState = 0, !.series = <<>>]
    BY <1>7 DEF Assemble
  <2>2. Assemble(d, b).packetState = 0
    BY <2>1, <1>2, <1>4
  <2>3. Assemble(d, b) \in Processor /\ Assemble(d, b).expectedIndex = d.expectedIndex
    BY <2>1, <1>2, <1>4
  <2> QED BY <2>2, <2>3, <1>7
<1>8. CASE ~FirstOf(b) /\ d.packetState = 0
  <2>1. Assemble(d, b) = [d EXCEPT !.series = <<>>]
    BY <1>8 DEF Assemble
  <2>2. Assemble(d, b).packetState = 0 /\ Assemble(d, b) \in Processor
          /\ Assemble(d, b).expectedIndex = d.expectedIndex
    BY <2>1, <1>3, <1>4, <1>8
  <2> QED BY <2>2, <1>8
<1>9. CASE ~FirstOf(b) /\ ~LastOf(b) /\ d.packetState = 1
  <2>1. Assemble(d, b) = [d EXCEPT !.series = Append(d.series, Part(b))]
    BY <1>9 DEF Assemble
  <2>2. Assemble(d, b).packetState = 1 /\ Assemble(d, b).series = Append(d.series, Part(b))
    BY <2>1, <1>3, <1>4, <1>9
  <2>3. Assemble(d, b) \in Processor /\ Assemble(d, b).expectedIndex = d.expectedIndex
    BY <2>1, <1>3, <1>4
  <2> QED BY <2>2, <2>3, <1>9
<1>10. CASE ~FirstOf(b) /\ LastOf(b) /\ d.packetState = 1
  <2>1. Assemble(d, b) = Deliver(d, b, Append(d.series, Part(b)))
    BY <1>10 DEF Assemble
  <2> QED BY <2>1, DeliverOK, <1>10
<1> QED BY <1>4, <1>5, <1>6, <1>7, <1>8, <1>9, <1>10

-----------------------------------------------------------------------------
(* The lines: each has actions of its own, and never becomes another.      *)

LEMMA LineStays == ASSUME [Next]_vars PROVE line' = line
<1>1. CASE UNCHANGED vars
  BY <1>1 DEF vars
<1>2. CASE Next
  BY <1>2 DEF Next, SuperframePart, DabFrame, DisturbedFrame, ShortFrame, AccessUnit, GoodPacket,
              DamagedPacket, PaddingPacket, Coding, CodingLoss, SelectAgain
<1> QED BY <1>1, <1>2

LEMMA PacketActions ==
  ASSUME Next, line = "packets"
  PROVE  GoodPacket \/ DamagedPacket \/ PaddingPacket \/ SelectAgain
BY DEF Next, SuperframePart, DabFrame, DisturbedFrame, ShortFrame, AccessUnit, Coding, CodingNext,
       CodingLoss, PadLine

-----------------------------------------------------------------------------
(* Packets.                                                                *)

ServiceState == [next : Place, clean : 0 .. CleanMost, collected : SUBSET Id]

\* In step: the index that is expected is that of the next packet.  Out of step, every
\* good packet makes 0 the index that is expected, and the next one closer to it.
InStep ==
  \/ data.expectedIndex = service.next.index
  \/ /\ service.clean <= 3
     /\ service.clean >= 1 => data.expectedIndex = 0 /\ service.next.index >= service.clean

PacketsOK ==
  /\ data \in Processor /\ service \in ServiceState /\ InStep
  /\ service.clean >= 5 /\ FirstOf(service.next) => data.packetState = 0
  /\ service.clean >= 3 + service.next.part /\ ~FirstOf(service.next) =>
       /\ data.packetState = 1
       /\ data.series = SubSeq(Whole(service.next), 1, service.next.part - 1)

PacketsInv == line = "packets" => PacketsOK

LEMMA ServiceFields ==
  ASSUME service \in ServiceState
  PROVE  /\ service.next \in Place /\ service.clean \in 0 .. CleanMost
         /\ service.collected \in SUBSET Id
BY DEF ServiceState

LEMMA dataProcessorOK == dataProcessor \in Processor
<1>1. motHandler \in MotHandler
  <2>1. <<>> \in Seq(MotObject) /\ Len(<<>>) <= TableSize
    BY MotAssumption DEF MotAssumption
  <2> QED BY <2>1 DEF motHandler, MotHandler
<1>2. <<>> \in Seq(PacketPart)
  OBVIOUS
<1> QED BY <1>1, <1>2 DEF dataProcessor, Processor

LEMMA PacketsInit == ASSUME Init PROVE PacketsInv
<1> SUFFICES ASSUME line = "packets" PROVE PacketsOK
  BY DEF PacketsInv
<1>1. data = dataProcessor
  BY DEF Init, theData
<1>2. PICK b \in Tunings : service = [next |-> b, clean |-> 0, collected |-> {}]
  BY DEF Init
<1>3. b \in Place
  BY TuningsOK
<1>4. service \in ServiceState /\ service.clean = 0 /\ service.next = b
  BY <1>2, <1>3 DEF ServiceState, CleanMost, MaxPackets
<1>5. b.part \in Nat /\ b.part >= 1
  BY <1>3, PlaceFields
<1> QED BY <1>1, <1>4, <1>5, dataProcessorOK DEF PacketsOK, InStep

\* The parts of a group before one, and that one.
LEMMA PartsAppend ==
  ASSUME NEW b \in Place, NEW c \in Place, Sent(c) = Sent(b), c.part = b.part + 1
  PROVE  /\ b.part = 1 => SubSeq(Whole(c), 1, c.part - 1) = <<Part(b)>>
         /\ b.part > 1 => SubSeq(Whole(c), 1, c.part - 1)
                            = Append(SubSeq(Whole(b), 1, b.part - 1), Part(b))
<1> DEFINE w == Whole(b)
           n == Sent(b).packets
           k == b.part
<1>1. Whole(c) = w /\ n \in Nat \ {0} /\ k \in 1 .. n /\ c.part = k + 1
  BY PlaceFields DEF Whole
<1>2. w = [i \in 1 .. n |-> [group |-> Sent(b).group, part |-> i]]
  BY DEF Whole
<1>3. w \in Seq({[group |-> Sent(b).group, part |-> i] : i \in 1 .. n}) /\ Len(w) = n
        /\ w[k] = Part(b)
  BY <1>1, <1>2 DEF Part
<1> HIDE DEF w, n
<1>4. \A j \in 0 .. n : SubSeq(w, 1, j) = [i \in 1 .. j |-> w[i]]
  BY <1>1, <1>3
<1>5. c.part - 1 = k /\ SubSeq(w, 1, k) = [i \in 1 .. k |-> w[i]]
  BY <1>1, <1>4
<1>6. CASE k = 1
  <2>1. [i \in 1 .. 1 |-> w[i]] = <<w[1]>>
    OBVIOUS
  <2>2. SubSeq(w, 1, 1) = <<w[1]>> /\ w[1] = Part(b) /\ c.part - 1 = 1
    BY <1>3, <1>5, <1>6, <2>1
  <2> QED BY <1>1, <1>6, <2>2
<1>7. CASE k > 1
  <2>1. SubSeq(w, 1, k - 1) = [i \in 1 .. k - 1 |-> w[i]]
    BY <1>1, <1>4, <1>7
  <2>2. Append([i \in 1 .. k - 1 |-> w[i]], w[k]) = [i \in 1 .. k |-> w[i]]
    BY <1>1, <1>3, <1>7
  <2> QED BY <1>1, <1>3, <1>5, <1>7, <2>1, <2>2 DEF w
<1> QED BY <1>1, <1>6, <1>7

LEMMA GoodPacketOK == ASSUME PacketsOK, GoodPacket PROVE PacketsOK'
<1> DEFINE b == service.next
           c == Continues(data, b.index)
           e == [Quiet(data) EXCEPT !.expectedIndex = c.next]
<1>1. /\ data \in Processor /\ service \in ServiceState
      /\ b \in Place /\ service.clean \in 0 .. CleanMost /\ service.collected \in SUBSET Id
      /\ data.expectedIndex \in 0 .. 3 /\ b.index \in 0 .. 3
      /\ CleanMost = 8
  BY ServiceFields, ProcessorFields, PlaceFields DEF PacketsOK, CleanMost, MaxPackets
<1>2. data' = IF c.ok THEN Assemble(e, b) ELSE e
  BY DEF GoodPacket, handlePacket
<1>3. /\ service'.next = NextPacket(b)
      /\ service'.clean = IF service.clean < 8 THEN service.clean + 1 ELSE 8
      /\ service' = [next |-> NextPacket(b), clean |-> service'.clean,
                     collected |-> service.collected \union Delivered(data')]
  BY <1>1 DEF GoodPacket
<1>4. c.ok <=> b.index = data.expectedIndex
  BY DEF Continues
<1>5. c.next = IF b.index = data.expectedIndex THEN (data.expectedIndex + 1) % 4 ELSE 0
  BY DEF Continues
<1>6. c.next \in 0 .. 3
  BY <1>1, <1>5
<1> HIDE DEF c
<1>7. /\ e \in Processor /\ e.expectedIndex = c.next
      /\ e.packetState = data.packetState /\ e.series = data.series
  <2> DEFINE q == Quiet(data)
  <2>1. q \in Processor /\ q.packetState = data.packetState /\ q.series = data.series
    BY <1>1, QuietOK
  <2> HIDE DEF q
  <2>2. [q EXCEPT !.expectedIndex = c.next] \in Processor
        /\ [q EXCEPT !.expectedIndex = c.next].expectedIndex = c.next
        /\ [q EXCEPT !.expectedIndex = c.next].packetState = q.packetState
        /\ [q EXCEPT !.expectedIndex = c.next].series = q.series
    BY <1>6, <2>1 DEF Processor
  <2> QED BY <2>1, <2>2 DEF q
<1> HIDE DEF e
<1>8. data' \in Processor /\ data'.expectedIndex = c.next
  BY <1>1, <1>2, <1>7, AssembleOK
<1>9. NextPacket(b) \in Place /\ NextPacket(b).index = (b.index + 1) % 4
  BY <1>1, NextPacketFields
<1>10. service' \in ServiceState
  <2>1. Delivered(data') \in SUBSET Id
    <3>1. data'.mot.handed \in WholeObject \union {None}
      BY <1>8, ProcessorFields, HandlerMembers
    <3>2. data'.mot.handed # None => data'.mot.handed.transportId \in Id
      BY <3>1, MotObjectFields DEF WholeObject, Id
    <3> QED BY <3>2 DEF Delivered
  <2>2. service'.clean \in 0 .. CleanMost
    BY <1>1, <1>3
  <2> QED BY <1>1, <1>3, <1>9, <2>1, <2>2 DEF ServiceState
<1>11. InStep'
  <2>1. service'.next.index = (b.index + 1) % 4
    BY <1>3, <1>9
  <2> QED BY <1>1, <1>3, <1>5, <1>8, <2>1 DEF PacketsOK, InStep
<1>12. service'.clean >= 5 => b.index = data.expectedIndex /\ service.clean >= 4
  BY <1>1, <1>3 DEF PacketsOK, InStep
<1>13. service'.clean >= 5 => data' = Assemble(e, b)
  BY <1>2, <1>4, <1>12
<1>14. (service.clean >= 5 /\ FirstOf(service.next) => data.packetState = 0)'
  <2> SUFFICES ASSUME service'.clean >= 5, NextPacket(b).part = 1
               PROVE  data'.packetState = 0
    BY <1>3 DEF FirstOf
  <2>1. LastOf(b)
    BY <1>1, NextPacketFields
  <2> QED BY <2>1, <1>1, <1>7, <1>13, AssembleOK
<1>15. (service.clean >= 3 + service.next.part /\ ~FirstOf(service.next) =>
          /\ data.packetState = 1
          /\ data.series = SubSeq(Whole(service.next), 1, service.next.part - 1))'
  <2> DEFINE n == NextPacket(b)
  <2> SUFFICES ASSUME service'.clean >= 3 + n.part, n.part # 1
               PROVE  data'.packetState = 1 /\ data'.series = SubSeq(Whole(n), 1, n.part - 1)
    BY <1>3 DEF FirstOf
  <2>1. ~LastOf(b) /\ n.part = b.part + 1 /\ Sent(n) = Sent(b) /\ b.part \in Nat /\ b.part >= 1
    BY <1>1, NextPacketFields, PlaceFields
  <2>2. service'.clean >= 5 /\ service.clean >= 3 + b.part
    BY <2>1, <1>1, <1>3
  <2>3. CASE b.part = 1
    <3>1. data'.packetState = 1 /\ data'.series = <<Part(b)>>
      BY <2>1, <2>2, <2>3, <1>1, <1>7, <1>13, AssembleOK DEF FirstOf
    <3> QED BY <3>1, <2>1, <2>3, <1>1, <1>9, PartsAppend
  <2>4. CASE b.part > 1
    <3>1. data.packetState = 1 /\ data.series = SubSeq(Whole(b), 1, b.part - 1)
      BY <2>2, <2>4 DEF PacketsOK, FirstOf
    <3>2. ~FirstOf(b) /\ e.packetState = 1 /\ data' = Assemble(e, b)
      BY <2>1, <2>2, <2>4, <3>1, <1>7, <1>13 DEF FirstOf
    <3>3. data'.packetState = 1 /\ data'.series = Append(e.series, Part(b))
      BY <3>2, <2>1, <1>1, <1>7, AssembleOK
    <3>4. data'.packetState = 1 /\ data'.series = Append(data.series, Part(b))
      BY <3>3, <1>7
    <3> QED BY <3>1, <3>4, <2>1, <2>4, <1>1, <1>9, PartsAppend
  <2> QED BY <2>1, <2>3, <2>4
<1> QED BY <1>8, <1>10, <1>11, <1>14, <1>15 DEF PacketsOK

\* After a disturbance nothing is known but what the processor is made of.
LEMMA DisturbedOK ==
  ASSUME data' \in Processor, service' \in ServiceState, service'.clean = 0
  PROVE  PacketsOK'
<1>1. service'.next.part \in Nat
  <2>1. service'.next \in Place
    BY DEF ServiceState
  <2> QED BY <2>1, PlaceFields
<1> QED BY <1>1 DEF PacketsOK, InStep

LEMMA OtherPacketOK ==
  ASSUME NEW d \in Processor, NEW index \in 0 .. 3
  PROVE  handleOtherPacket(d, index) \in Processor
<1> DEFINE q == Quiet(d)
           n == Continues(d, index).next
<1>1. q \in Processor /\ n \in 0 .. 3
  BY QuietOK, ProcessorFields DEF Continues
<1> HIDE DEF q, n
<1>2. [q EXCEPT !.expectedIndex = n] \in Processor
  BY <1>1 DEF Processor
<1> QED BY <1>2 DEF handleOtherPacket, q, n

LEMMA PacketsStep == ASSUME PacketsInv, [Next]_vars PROVE PacketsInv'
<1> SUFFICES ASSUME line = "packets", PacketsOK PROVE PacketsOK'
  BY LineStays DEF PacketsInv
<1>1. CASE UNCHANGED vars
  BY <1>1 DEF vars, apparatus, PacketsOK, InStep
<1>2. data \in Processor /\ service \in ServiceState /\ service.next \in Place
        /\ 0 \in 0 .. CleanMost
  BY ServiceFields DEF PacketsOK, CleanMost, MaxPackets
<1>3. CASE GoodPacket
  BY <1>3, GoodPacketOK
<1>4. CASE DamagedPacket
  <2>1. data' \in Processor
    BY <1>4, <1>2, OtherPacketOK, QuietOK DEF DamagedPacket
  <2>2. service' = [service EXCEPT !.next = NextPacket(service.next), !.clean = 0]
    BY <1>4 DEF DamagedPacket
  <2>3. NextPacket(service.next) \in Place
    BY <1>2, NextPacketFields
  <2>4. service' \in ServiceState /\ service'.clean = 0
    BY <1>2, <2>2, <2>3 DEF ServiceState
  <2> QED BY <2>1, <2>4, DisturbedOK
<1>5. CASE PaddingPacket
  <2>1. data' \in Processor
    BY <1>5, <1>2, OtherPacketOK DEF PaddingPacket
  <2>2. service' \in ServiceState /\ service'.clean = 0
    BY <1>5, <1>2 DEF PaddingPacket, ServiceState
  <2> QED BY <2>1, <2>2, DisturbedOK
<1>6. CASE SelectAgain
  <2>1. data' \in Processor
    BY <1>6, dataProcessorOK DEF SelectAgain, theData
  <2>2. service' = [service EXCEPT !.clean = 0, !.collected = {}]
    BY <1>6 DEF SelectAgain
  <2>3. service' \in ServiceState /\ service'.clean = 0
    BY <2>2, <1>2 DEF ServiceState
  <2> QED BY <2>1, <2>3, DisturbedOK
<1> QED BY <1>1, <1>3, <1>4, <1>5, <1>6, PacketActions

(* Groups are found again after any disturbance, whatever the carousel. *)
THEOREM GroupsFound == Spec => []GroupsArrive
<1>1. Init => PacketsInv
  BY PacketsInit
<1>2. PacketsInv /\ [Next]_vars => PacketsInv'
  BY PacketsStep
<1>3. PacketsInv => GroupsArrive
  <2> SUFFICES ASSUME line = "packets", PacketsOK PROVE GroupsArrive
    BY DEF PacketsInv, GroupsArrive
  <2>1. service.clean >= 4 => data.expectedIndex = service.next.index
    <3>1. service.clean \in Nat
      BY ServiceFields DEF PacketsOK, CleanMost, MaxPackets
    <3> QED BY <3>1 DEF PacketsOK, InStep
  <2> QED BY <2>1 DEF PacketsOK, GroupsArrive
<1> QED BY <1>1, <1>2, <1>3, PTL DEF Spec

-----------------------------------------------------------------------------
(* CIFs: the rows of the de-interleaver, counted back from the last, are   *)
(* the last CIFs.                                                          *)

LEMMA CodingActions ==
  ASSUME Next, line \in CodingLine
  PROVE  Coding \/ CodingLoss \/ SelectAgain
BY DEF Next, SuperframePart, DabFrame, DisturbedFrame, ShortFrame, AccessUnit, GoodPacket,
       DamagedPacket, PaddingPacket, PadLine, CodingLine

Row == [Class -> Int]

CifBackend ==
  [interleaveData : [Class -> Row], interleaverIndex : Class,
   countforInterleaver : 0 .. 16, tempX : Row \union {<<>>}]

CifState == [backend : CifBackend, time : 0 .. Cycle - 1, whole : 0 .. WholeEnough]

\* Row of the CIF that came k CIFs ago, and when it was sent.
Past(c, k) == c.backend.interleaveData[(c.backend.interleaverIndex + 16 - k) % 16]

RowsInOrder(c) ==
  \A k \in 1 .. 16 :
    k <= c.whole /\ k <= c.backend.countforInterleaver =>
      Past(c, k) = CifSent((c.time + Cycle - k) % Cycle)

CifOK(c) ==
  /\ c \in CifState /\ RowsInOrder(c)
  /\ c.backend.tempX # <<>> /\ c.whole = WholeEnough =>
       \A k \in Class : c.backend.tempX[k] = (c.time + Cycle - WholeEnough) % Cycle

CifInv == line = "cifs" => CifOK(coding)

\* The map of the de-interleaver is the delay of the classes.
LEMMA MapIsDelay ==
  ASSUME NEW c \in Class
  PROVE  interleaveMap[c + 1] = Delay(c) /\ Delay(c) \in 0 .. 15
<1>1. \/ c = 0 \/ c = 1 \/ c = 2 \/ c = 3 \/ c = 4 \/ c = 5 \/ c = 6 \/ c = 7 \/ c = 8 \/ c = 9
      \/ c = 10 \/ c = 11 \/ c = 12 \/ c = 13 \/ c = 14 \/ c = 15
  BY DEF Class
<1> QED BY <1>1 DEF interleaveMap, Delay

LEMMA CifSentIsRow ==
  ASSUME NEW t \in Int
  PROVE  /\ CifSent(t) \in Row
         /\ \A c \in Class : CifSent(t)[c] = (t + 32 - Delay(c)) % 32
BY MapIsDelay DEF CifSent, Row, Cycle

LEMMA NewLineOK == CifOK(NewLine)
<1>1. NewBackend \in CifBackend /\ NewBackend.countforInterleaver = 0 /\ NewBackend.tempX = <<>>
  BY DEF NewBackend, CifBackend, Row, Class
<1> QED BY <1>1 DEF CifOK, CifState, RowsInOrder, NewLine, Cycle, WholeEnough

\* One CIF is taken in.
LEMMA SegmentOK ==
  ASSUME NEW c, CifOK(c)
  PROVE  CifOK([backend |-> processSegment(c.backend, CifSent(c.time)),
                time |-> (c.time + 1) % Cycle,
                whole |-> IF c.whole < WholeEnough THEN c.whole + 1 ELSE WholeEnough])
<1> DEFINE b == c.backend
           t == c.time
           i == b.interleaverIndex
           row == CifSent(t)
           rows == [b.interleaveData EXCEPT ![i] = row]
           temp == [k \in Class |-> b.interleaveData[(i + interleaveMap[k + 1]) % 16][k]]
           count == IF b.countforInterleaver <= 15 THEN b.countforInterleaver + 1
                    ELSE b.countforInterleaver
           tempX == IF b.countforInterleaver <= 15 THEN <<>> ELSE temp
           time == (t + 1) % 32
           whole == IF c.whole < 17 THEN c.whole + 1 ELSE 17
           n == [interleaveData |-> rows, interleaverIndex |-> (i + 1) % 16,
                 countforInterleaver |-> count, tempX |-> tempX]
           d == [backend |-> n, time |-> time, whole |-> whole]
<1>1. /\ b.interleaveData \in [Class -> Row] /\ i \in 0 .. 15 /\ b.countforInterleaver \in 0 .. 16
      /\ t \in 0 .. 31 /\ c.whole \in 0 .. 17
  BY DEF CifOK, CifState, CifBackend, Cycle, WholeEnough, Class
<1>2. row \in Row
  BY <1>1, CifSentIsRow
<1>3. \A k \in 1 .. 16 : k <= c.whole /\ k <= b.countforInterleaver =>
        b.interleaveData[(i + 16 - k) % 16] = CifSent((t + 32 - k) % 32)
  BY DEF CifOK, RowsInOrder, Past, Cycle
<1>4. temp \in Row
  <2>1. \A k \in Class : (i + interleaveMap[k + 1]) % 16 \in Class
    BY <1>1, MapIsDelay DEF Class
  <2> QED BY <1>1, <2>1 DEF Row
<1>5. (i + 1) % 16 \in Class /\ time \in 0 .. 31 /\ count \in 0 .. 16 /\ whole \in 0 .. 17
        /\ rows \in [Class -> Row] /\ tempX \in Row \union {<<>>}
  <2>1. (i + 1) % 16 \in Class /\ time \in 0 .. 31 /\ count \in 0 .. 16 /\ whole \in 0 .. 17
    BY <1>1 DEF Class
  <2> HIDE DEF row, temp
  <2>2. rows \in [Class -> Row]
    BY <1>1, <1>2
  <2>3. tempX \in Row \union {<<>>}
    BY <1>4
  <2> HIDE DEF rows, tempX, time, count, whole
  <2> QED BY <2>1, <2>2, <2>3
<1>6. d \in CifState
  <2> HIDE DEF rows, count, tempX, time, whole
  <2> QED BY <1>5 DEF CifState, CifBackend, Cycle, WholeEnough
<1>7. ASSUME NEW k \in 1 .. 16, k <= whole, k <= count
      PROVE  rows[(((i + 1) % 16) + 16 - k) % 16] = CifSent((time + 32 - k) % 32)
  <2> HIDE DEF row
  <2>1. CASE k = 1
    <3>1. (((i + 1) % 16) + 16 - k) % 16 = i /\ (time + 32 - k) % 32 = t
      BY <1>1, <2>1
    <3> QED BY <3>1, <1>1 DEF Class, row
  <2>2. CASE k > 1
    <3>1. k - 1 \in 1 .. 16 /\ k - 1 <= c.whole /\ k - 1 <= b.countforInterleaver
      BY <1>1, <1>7, <2>2
    <3>2. /\ (((i + 1) % 16) + 16 - k) % 16 = (i + 16 - (k - 1)) % 16
          /\ (time + 32 - k) % 32 = (t + 32 - (k - 1)) % 32
          /\ (i + 16 - (k - 1)) % 16 \in 0 .. 15
          /\ (i + 16 - (k - 1)) % 16 # i
      BY <1>1, <2>2
    <3>3. rows[(i + 16 - (k - 1)) % 16] = b.interleaveData[(i + 16 - (k - 1)) % 16]
      BY <1>1, <3>2 DEF Class
    <3> QED BY <3>1, <3>2, <3>3, <1>3
  <2> QED BY <2>1, <2>2
<1>8. ASSUME tempX # <<>>, whole = 17, NEW k \in Class
      PROVE  tempX[k] = (time + 32 - 17) % 32
  <2>1. b.countforInterleaver = 16 /\ c.whole >= 16 /\ tempX = temp
    BY <1>1, <1>8
  <2>2. temp[k] = b.interleaveData[(i + Delay(k)) % 16][k] /\ Delay(k) \in 0 .. 15
    BY MapIsDelay
  <2>3. 16 - Delay(k) \in 1 .. 16 /\ i + 16 - (16 - Delay(k)) = i + Delay(k)
    BY <1>1, <2>2
  <2>4. b.interleaveData[(i + Delay(k)) % 16] = CifSent((t + 32 - (16 - Delay(k))) % 32)
    BY <2>1, <2>3, <1>1, <1>3
  <2>5. CifSent((t + 32 - (16 - Delay(k))) % 32)[k]
          = (((t + 32 - (16 - Delay(k))) % 32) + 32 - Delay(k)) % 32
    <3> DEFINE u == (t + 32 - (16 - Delay(k))) % 32
    <3>1. u \in Int
      BY <1>1, <2>2
    <3> HIDE DEF u
    <3>2. CifSent(u)[k] = (u + 32 - Delay(k)) % 32
      BY <3>1, CifSentIsRow
    <3> QED BY <3>2 DEF u
  <2>6. (((t + 32 - (16 - Delay(k))) % 32) + 32 - Delay(k)) % 32 = (((t + 1) % 32) + 32 - 17) % 32
    BY <1>1, <2>2
  <2> QED BY <2>1, <2>2, <2>4, <2>5, <2>6
<1>9. CifOK(d)
  <2> HIDE DEF rows, count, tempX, time, whole
  <2>1. RowsInOrder(d)
    BY <1>5, <1>7 DEF RowsInOrder, Past, Cycle
  <2> QED BY <1>6, <1>8, <2>1 DEF CifOK, Cycle, WholeEnough
<1>10. d = [backend |-> processSegment(c.backend, CifSent(c.time)),
            time |-> (c.time + 1) % Cycle,
            whole |-> IF c.whole < WholeEnough THEN c.whole + 1 ELSE WholeEnough]
  BY DEF processSegment, Cycle, WholeEnough
<1> QED BY <1>9, <1>10

\* A CIF that is lost leaves the rows as they are, with nothing to say of them.
LEMMA CifLostOK ==
  ASSUME NEW c, CifOK(c)
  PROVE  CifOK([c EXCEPT !.time = (c.time + 1) % Cycle, !.whole = 0, !.backend.tempX = <<>>])
<1> DEFINE d == [c EXCEPT !.time = (c.time + 1) % Cycle, !.whole = 0, !.backend.tempX = <<>>]
<1>1. c \in CifState /\ (c.time + 1) % Cycle \in 0 .. Cycle - 1 /\ 0 \in 0 .. WholeEnough
  BY DEF CifOK, CifState, Cycle, WholeEnough
<1>2. [c.backend EXCEPT !.tempX = <<>>] \in CifBackend
  BY <1>1 DEF CifState, CifBackend
<1>3. d \in CifState /\ d.whole = 0 /\ d.backend.tempX = <<>>
  BY <1>1, <1>2 DEF CifState, CifBackend
<1> HIDE DEF d
<1>4. CifOK(d)
  BY <1>3 DEF CifOK, RowsInOrder
<1> QED BY <1>4 DEF d

LEMMA CifInit == ASSUME Init PROVE CifInv
BY NewLineOK DEF Init, CifInv, theCoding, CodingInit, CodingLine

LEMMA CifStep == ASSUME CifInv, [Next]_vars PROVE CifInv'
<1> SUFFICES ASSUME line = "cifs", CifOK(coding) PROVE CifOK(coding')
  BY LineStays DEF CifInv, CifOK
<1>1. CASE UNCHANGED vars
  BY <1>1 DEF vars
<1>2. CASE Coding
  BY <1>2, SegmentOK DEF Coding, CodingNext, CifReceived
<1>3. CASE CodingLoss
  BY <1>3, CifLostOK DEF CodingLoss, CifLost
<1>4. CASE SelectAgain
  BY <1>4, NewLineOK DEF SelectAgain, theCoding, CodingInit, CodingLine
<1> QED BY <1>1, <1>2, <1>3, <1>4, CodingActions DEF CodingLine

LEMMA CifFrames == CifInv /\ line = "cifs" => FrameOfOneTime
BY DEF CifInv, CifOK, FrameOfOneTime

-----------------------------------------------------------------------------
(* Folds: what FoldLeft makes of a sequence, element by element.           *)

\* A set of numbers that is not empty has a least one.
LEMMA LeastNumber ==
  ASSUME NEW S, S \subseteq Nat, S # {}
  PROVE  \E i \in S : \A j \in S : i <= j
<1> DEFINE R == OpToRel(<, Nat)
<1>1. IsWellFoundedOn(R, Nat)
  BY NatLessThanWellFounded
<1> HIDE DEF R
<1>2. PICK i \in S : \A j \in S : ~(<<j, i>> \in R)
  BY <1>1, WFMin
<1>3. \A j \in Nat : j < i => <<j, i>> \in R
  BY DEF R, OpToRel
<1>4. ASSUME NEW j \in S PROVE i <= j
  <2>1. i \in Nat /\ j \in Nat /\ ~(<<j, i>> \in R)
    BY <1>2
  <2> QED BY <1>3, <2>1
<1> QED BY <1>4

\* Induction, over a set of numbers.
LEMMA AllNumbers ==
  ASSUME NEW S, 0 \in S, \A n \in Nat : n \in S => n + 1 \in S
  PROVE  \A n \in Nat : n \in S
<1> SUFFICES ASSUME Nat \ S # {} PROVE FALSE
  OBVIOUS
<1>1. PICK n \in Nat \ S : \A m \in Nat \ S : n <= m
  BY LeastNumber
<1>2. n # 0 /\ n - 1 \in Nat /\ n - 1 \notin S
  <2>1. n # 0 /\ n \in Nat /\ n \notin S
    OBVIOUS
  <2>2. n - 1 \in S => (n - 1) + 1 \in S
    BY <2>1
  <2> QED BY <2>1, <2>2
<1> QED BY <1>1, <1>2

LEMMA MaxOf ==
  ASSUME NEW m \in Nat, NEW s \in SUBSET (1 .. m), m \in s
  PROVE  Max(s) = m
<1>1. \A y \in s : m >= y
  OBVIOUS
<1>2. \A x \in s : (\A y \in s : x >= y) => x = m
  OBVIOUS
<1> QED BY <1>1, <1>2 DEF Max

LEMMA MaxFound ==
  ASSUME NEW n \in Nat, NEW s \in SUBSET (1 .. n), s # {}
  PROVE  Max(s) \in s /\ \A y \in s : Max(s) >= y
<1> DEFINE T == {n - x : x \in s}
<1>1. T \subseteq Nat /\ T # {}
  <2>1. \A x \in s : n - x \in Nat
    OBVIOUS
  <2> QED BY <2>1
<1>2. PICK t \in T : \A j \in T : t <= j
  BY <1>1, LeastNumber
<1>3. PICK x \in s : t = n - x
  BY <1>2
<1>4. \A y \in s : x >= y
  <2> TAKE y \in s
  <2>1. n - y \in T
    OBVIOUS
  <2> HIDE DEF T
  <2>2. n - x <= n - y
    BY <1>2, <1>3, <2>1
  <2> QED BY <2>2
<1> QED BY <1>4 DEF Max

\* g folds as MapThenFoldSet does, the largest number last.
IsFold(g, V, base, n, F) ==
  /\ g \in [SUBSET (1 .. n) -> V]
  /\ \A s \in SUBSET (1 .. n) :
       g[s] = IF s = {} THEN base ELSE F[<<g[s \ {Max(s)}], Max(s)>>]

\* There is such a function.
LEMMA FoldExists ==
  ASSUME NEW V, NEW base \in V, NEW n \in Nat, NEW F \in [V \X (1 .. n) -> V]
  PROVE  \E g : IsFold(g, V, base, n, F)
<1> DEFINE Good(m, g) == \A s \in SUBSET (1 .. m) :
             g[s] = IF s = {} THEN base ELSE F[<<g[s \ {Max(s)}], Max(s)>>]
           Folded(m) == m <= n => \E g \in [SUBSET (1 .. m) -> V] : Good(m, g)
           S == {m \in Nat : Folded(m)}
<1>1. 0 \in S
  <2> DEFINE g == [s \in SUBSET (1 .. 0) |-> base]
  <2>1. \A s \in SUBSET (1 .. 0) : s = {}
    OBVIOUS
  <2>2. g \in [SUBSET (1 .. 0) -> V] /\ Good(0, g)
    BY <2>1
  <2>3. Folded(0)
    BY <2>2, Zenon
  <2> HIDE DEF Folded
  <2> QED BY <2>3
<1>2. ASSUME NEW m \in Nat, Folded(m) PROVE Folded(m + 1)
  <2> SUFFICES ASSUME m + 1 <= n
               PROVE  \E g \in [SUBSET (1 .. m + 1) -> V] : Good(m + 1, g)
    BY Zenon
  <2>1. PICK g \in [SUBSET (1 .. m) -> V] : Good(m, g)
    <3>1. m <= n
      OBVIOUS
    <3> QED BY <1>2, <3>1, Zenon
  <2> DEFINE k == m + 1
             h == [s \in SUBSET (1 .. k) |-> IF k \in s THEN F[<<g[s \ {k}], k>>] ELSE g[s]]
  <2>2. \A s \in SUBSET (1 .. k) : IF k \in s THEN s \ {k} \in SUBSET (1 .. m) ELSE s \in SUBSET (1 .. m)
    OBVIOUS
  <2>3. h \in [SUBSET (1 .. k) -> V]
    <3>1. \A v \in V : F[<<v, k>>] \in V
      OBVIOUS
    <3> QED BY <3>1, <2>2
  <2>4. \A s \in SUBSET (1 .. m) : s \in SUBSET (1 .. k) /\ h[s] = g[s]
    OBVIOUS
  <2>5. ASSUME NEW s \in SUBSET (1 .. k)
        PROVE  h[s] = IF s = {} THEN base ELSE F[<<h[s \ {Max(s)}], Max(s)>>]
    <3>1. CASE k \in s
      <4>1. Max(s) = k /\ s # {} /\ s \ {k} \in SUBSET (1 .. m)
        BY <3>1, <2>2, MaxOf
      <4>2. h[s] = F[<<g[s \ {k}], k>>]
        BY <3>1
      <4> QED BY <4>1, <4>2, <2>4
    <3>2. CASE k \notin s
      <4>1. s \in SUBSET (1 .. m) /\ s \ {Max(s)} \in SUBSET (1 .. m)
        BY <3>2, <2>2
      <4> HIDE DEF h
      <4> QED BY <4>1, <2>1, <2>4
    <3> QED BY <3>1, <3>2
  <2> HIDE DEF h
  <2> QED BY <2>3, <2>5
<1>3. \A m \in Nat : m \in S => m + 1 \in S
  <2> HIDE DEF Folded
  <2> QED BY <1>2
<1> HIDE DEF S
<1>4. n \in S
  BY <1>1, <1>3, AllNumbers
<1>5. Folded(n)
  BY <1>4 DEF S
<1>6. PICK g \in [SUBSET (1 .. n) -> V] : Good(n, g)
  <2>1. n <= n
    OBVIOUS
  <2> QED BY <1>5, <2>1, Zenon
<1> QED BY <1>6, Zenon DEF IsFold

\* One after another: a function that folds as MapThenFoldSet does has gone through
\* the first i elements when it has done so with the numbers up to i.
LEMMA UpTo ==
  ASSUME NEW n \in Nat, NEW i \in 1 .. n
  PROVE  /\ 1 .. i \in SUBSET (1 .. n) /\ 1 .. i # {} /\ Max(1 .. i) = i
         /\ (1 .. i) \ {Max(1 .. i)} = 1 .. (i - 1)
<1>1. i \in Nat /\ i \in 1 .. i /\ 1 .. i \in SUBSET (1 .. i)
  OBVIOUS
<1>2. Max(1 .. i) = i
  BY <1>1, MaxOf
<1>3. (1 .. i) \ {i} = 1 .. (i - 1)
  OBVIOUS
<1>4. 1 .. i \in SUBSET (1 .. n) /\ 1 .. i # {}
  <2>1. i \in 1 .. i
    OBVIOUS
  <2> QED BY <2>1
<1> QED BY <1>2, <1>3, <1>4

LEMMA Elements ==
  ASSUME NEW E, NEW s \in Seq(E)
  PROVE  /\ Len(s) \in Nat /\ DOMAIN s = 1 .. Len(s)
         /\ \A i \in 1 .. Len(s) : s[i] \in E
OBVIOUS

-----------------------------------------------------------------------------
(* FIC blocks.                                                             *)

\* What comes on the air: a unit of one of two frames in turn.
FicInput == {0, 1} \X (0 .. 11)

FicOutput == [ficno : Nat, units : [0 .. 2 -> FicInput \union {<<>>}]]

FicState ==
  [index : 0 .. 2, ficno : Nat, ofdm_input : [0 .. 2 -> FicInput \union {<<>>}],
   fics : Seq(FicOutput)]

LEMMA FicUnitOK ==
  ASSUME NEW h \in FicState, NEW u \in FicInput
  PROVE  FicUnit(h, u) \in FicState
<1> DEFINE input == [h.ofdm_input EXCEPT ![h.index] = u]
<1>1. /\ h.index \in 0 .. 2 /\ h.ficno \in Nat /\ h.fics \in Seq(FicOutput)
      /\ h.ofdm_input \in [0 .. 2 -> FicInput \union {<<>>}]
  BY DEF FicState
<1>2. input \in [0 .. 2 -> FicInput \union {<<>>}]
  BY <1>1
<1> HIDE DEF input
<1>3. CASE h.index + 1 < 3
  <2>1. FicUnit(h, u) = [h EXCEPT !.index = h.index + 1, !.ofdm_input = input]
    BY <1>3 DEF FicUnit, UnitsOfFic, input
  <2>2. h.index + 1 \in 0 .. 2
    BY <1>1, <1>3
  <2> QED BY <2>1, <2>2, <1>2 DEF FicState
<1>4. CASE ~(h.index + 1 < 3)
  <2> DEFINE fics == Append(h.fics, [ficno |-> h.ficno, units |-> input])
  <2>1. FicUnit(h, u) = [index |-> 0, ficno |-> h.ficno + 1, ofdm_input |-> input, fics |-> fics]
    BY <1>4 DEF FicUnit, UnitsOfFic, input
  <2>2. [ficno |-> h.ficno, units |-> input] \in FicOutput
    BY <1>1, <1>2 DEF FicOutput
  <2>3. fics \in Seq(FicOutput)
    BY <1>1, <2>2
  <2> HIDE DEF fics
  <2> QED BY <1>1, <1>2, <2>1, <2>3 DEF FicState
<1> QED BY <1>3, <1>4

\* The units of a block, one after another.
LEMMA BlockUnits ==
  ASSUME NEW h \in FicState, NEW units \in Seq(FicInput), Len(units) = 4
  PROVE  FoldLeft(FicUnit, h, units)
           = FicUnit(FicUnit(FicUnit(FicUnit(h, units[1]), units[2]), units[3]), units[4])
<1> DEFINE n == Len(units)
           F == [x \in FicState \X (1 .. n) |-> FicUnit(x[1], units[x[2]])]
           Step(k, s) == IF s = {} THEN h ELSE FicUnit(k[s \ {Max(s)}], units[Max(s)])
<1>1. n \in Nat /\ n = 4 /\ DOMAIN units = 1 .. n /\ \A i \in 1 .. n : units[i] \in FicInput
  BY Elements
<1>2. F \in [FicState \X (1 .. n) -> FicState]
  BY <1>1, FicUnitOK
<1>3. PICK g : IsFold(g, FicState, h, n, F)
  <2>1. n \in Nat
    BY <1>1
  <2> HIDE DEF F, n
  <2> QED BY <2>1, <1>2, FoldExists
<1>4. g = [s \in SUBSET (1 .. n) |-> Step(g, s)]
  <2>1. ASSUME NEW s \in SUBSET (1 .. n), s # {}
        PROVE  F[<<g[s \ {Max(s)}], Max(s)>>] = FicUnit(g[s \ {Max(s)}], units[Max(s)])
    <3>1. Max(s) \in 1 .. n
      BY <1>1, <2>1, MaxFound
    <3>2. g[s \ {Max(s)}] \in FicState
      BY <1>3 DEF IsFold
    <3> QED BY <3>1, <3>2
  <2> HIDE DEF F
  <2> QED BY <1>3, <2>1 DEF IsFold
<1>5. PICK k : /\ k = [s \in SUBSET (DOMAIN units) |-> Step(k, s)]
               /\ FoldLeft(FicUnit, h, units) = k[DOMAIN units]
  BY <1>1, <1>4, Zenon DEF FoldLeft, MapThenFoldSet
<1>6. ASSUME NEW i \in 1 .. n PROVE k[1 .. i] = FicUnit(k[1 .. (i - 1)], units[i])
  BY <1>1, <1>5, UpTo
<1>7. k[1 .. 0] = h
  BY <1>1, <1>5
<1>8. k[1 .. 1] = FicUnit(k[1 .. 0], units[1]) /\ k[1 .. 2] = FicUnit(k[1 .. 1], units[2])
        /\ k[1 .. 3] = FicUnit(k[1 .. 2], units[3]) /\ k[1 .. 4] = FicUnit(k[1 .. 3], units[4])
  BY <1>6, <1>1
<1> QED BY <1>1, <1>5, <1>7, <1>8

\* A FIC is three units of a frame, those of its number.
RightFic(x) == \E frame \in {0, 1} : x.units = [k \in 0 .. 2 |-> <<frame, 3 * x.ficno + k>>]

RightFics(fics) == \A i \in 1 .. Len(fics) : RightFic(fics[i])

EndsWith(fics, ficno) == fics # <<>> => fics[Len(fics)].ficno = ficno

FirstUnits(input, frame, ficno, n) == \A k \in 0 .. 2 : k < n => input[k] = <<frame, 3 * ficno + k>>

\* The handler has taken the first p units of a frame.
Aligned(h, frame, p) ==
  /\ h \in FicState /\ p = 3 * h.ficno + h.index
  /\ FirstUnits(h.ofdm_input, frame, h.ficno, h.index)
  /\ RightFics(h.fics) /\ EndsWith(h.fics, h.ficno - 1)

LEMMA FicFields ==
  ASSUME NEW h \in FicState
  PROVE  /\ h.index \in 0 .. 2 /\ h.ficno \in Nat /\ h.fics \in Seq(FicOutput)
         /\ h.ofdm_input \in [0 .. 2 -> FicInput \union {<<>>}]
BY DEF FicState

LEMMA FicAppended ==
  ASSUME NEW fics \in Seq(FicOutput), NEW x \in FicOutput, RightFics(fics), RightFic(x)
  PROVE  RightFics(Append(fics, x)) /\ EndsWith(Append(fics, x), x.ficno)
<1> DEFINE more == Append(fics, x)
<1>1. /\ Len(fics) \in Nat /\ Len(more) = Len(fics) + 1 /\ more[Len(fics) + 1] = x
      /\ \A i \in 1 .. Len(fics) : more[i] = fics[i]
  OBVIOUS
<1> HIDE DEF more
<1>2. ASSUME NEW i \in 1 .. Len(more) PROVE RightFic(more[i])
  <2>1. CASE i = Len(fics) + 1
    BY <1>1, <2>1
  <2>2. CASE i # Len(fics) + 1
    <3>1. i \in 1 .. Len(fics)
      BY <1>1, <2>2
    <3> QED BY <1>1, <3>1 DEF RightFics
  <2> QED BY <2>1, <2>2
<1>3. RightFics(more) /\ EndsWith(more, x.ficno)
  BY <1>1, <1>2 DEF RightFics, EndsWith
<1> QED BY <1>3 DEF more

LEMMA UnitTaken ==
  ASSUME NEW input \in [0 .. 2 -> FicInput \union {<<>>}], NEW n \in 0 .. 2, NEW frame,
         NEW ficno \in Nat, NEW p, p = 3 * ficno + n, FirstUnits(input, frame, ficno, n)
  PROVE  FirstUnits([input EXCEPT ![n] = <<frame, p>>], frame, ficno, n + 1)
<1> SUFFICES ASSUME NEW k \in 0 .. 2, k < n + 1
             PROVE  [input EXCEPT ![n] = <<frame, p>>][k] = <<frame, 3 * ficno + k>>
  BY DEF FirstUnits
<1>1. CASE k = n
  BY <1>1
<1>2. CASE k # n
  BY <1>2 DEF FirstUnits
<1> QED BY <1>1, <1>2

LEMMA UnitAligned ==
  ASSUME NEW frame \in {0, 1}, NEW p \in 0 .. 11, NEW h, Aligned(h, frame, p)
  PROVE  Aligned(FicUnit(h, <<frame, p>>), frame, p + 1)
<1> DEFINE u == <<frame, p>>
           input == [h.ofdm_input EXCEPT ![h.index] = u]
           g == FicUnit(h, u)
<1>1. h \in FicState /\ p = 3 * h.ficno + h.index
  BY DEF Aligned
<1>2. g \in FicState
  <2>1. u \in FicInput
    BY DEF FicInput
  <2> QED BY <2>1, <1>1, FicUnitOK
<1>3. /\ h.index \in 0 .. 2 /\ h.ficno \in Nat /\ h.fics \in Seq(FicOutput)
      /\ h.ofdm_input \in [0 .. 2 -> FicInput \union {<<>>}]
  BY <1>1, FicFields
<1>4. FirstUnits(input, frame, h.ficno, h.index + 1)
  BY <1>1, <1>3, UnitTaken DEF Aligned
<1>5. input \in [0 .. 2 -> FicInput \union {<<>>}]
  <2>1. u \in FicInput
    BY DEF FicInput
  <2> HIDE DEF u
  <2> QED BY <2>1, <1>3
<1>6. CASE h.index + 1 < 3
  <2> HIDE DEF u
  <2>1. g = [h EXCEPT !.index = h.index + 1, !.ofdm_input = input]
    BY <1>6 DEF FicUnit, UnitsOfFic
  <2> HIDE DEF input, g
  <2>2. g.index = h.index + 1 /\ g.ofdm_input = input /\ g.ficno = h.ficno /\ g.fics = h.fics
    BY <2>1, <1>1 DEF FicState
  <2>3. p + 1 = 3 * h.ficno + (h.index + 1)
    BY <1>1, <1>3
  <2>4. Aligned(g, frame, p + 1)
    BY <2>2, <2>3, <1>2, <1>4 DEF Aligned
  <2> QED BY <2>4 DEF g, u
<1>7. CASE ~(h.index + 1 < 3)
  <2> DEFINE new == [ficno |-> h.ficno, units |-> input]
             fics == Append(h.fics, new)
  <2> HIDE DEF u
  <2>1. g = [index |-> 0, ficno |-> h.ficno + 1, ofdm_input |-> input, fics |-> fics]
    BY <1>7 DEF FicUnit, UnitsOfFic
  <2>2. RightFic(new)
    <3> HIDE DEF input
    <3>1. \A k \in 0 .. 2 : input[k] = <<frame, 3 * h.ficno + k>>
      <4>1. \A k \in 0 .. 2 : k < h.index + 1
        BY <1>3, <1>7
      <4>2. \A k \in 0 .. 2 : k < h.index + 1 => input[k] = <<frame, 3 * h.ficno + k>>
        BY <1>4, Zenon DEF FirstUnits
      <4> QED BY <4>1, <4>2, Zenon
    <3>2. input = [k \in 0 .. 2 |-> input[k]]
      BY <1>5
    <3>3. input = [k \in 0 .. 2 |-> <<frame, 3 * h.ficno + k>>]
      BY <3>1, <3>2
    <3>4. new.ficno = h.ficno /\ new.units = input
      OBVIOUS
    <3> HIDE DEF new
    <3> QED BY <3>3, <3>4 DEF RightFic
  <2> HIDE DEF input
  <2>3. new \in FicOutput /\ new.ficno = h.ficno
    BY <1>3, <1>5 DEF FicOutput
  <2> HIDE DEF new
  <2>4. RightFics(fics) /\ EndsWith(fics, h.ficno)
    BY <1>3, <2>2, <2>3, FicAppended DEF Aligned
  <2> HIDE DEF fics, g
  <2>5. g.index = 0 /\ g.ficno = h.ficno + 1 /\ g.fics = fics
    BY <2>1
  <2>6. p + 1 = 3 * (h.ficno + 1) + 0 /\ (h.ficno + 1) - 1 = h.ficno
    BY <1>1, <1>3, <1>7
  <2>7. FirstUnits(g.ofdm_input, frame, h.ficno + 1, 0)
    BY DEF FirstUnits
  <2>8. Aligned(g, frame, p + 1)
    BY <1>2, <2>4, <2>5, <2>6, <2>7 DEF Aligned
  <2> QED BY <2>8 DEF g, u
<1> QED BY <1>6, <1>7

FicLine(c) ==
  /\ c \in [handler : FicState, blkno : 1 .. 3, frame : {0, 1}]
  /\ IF c.blkno = 1
     THEN LET fics == c.handler.fics IN
          /\ RightFics(fics) /\ EndsWith(fics, 3) /\ c.handler.ficno \in 0 .. 4
     ELSE Aligned(c.handler, c.frame, 4 * (c.blkno - 1))

FicInv == line = "fic" => FicLine(coding)

LEMMA ficHandlerOK == ficHandler \in FicState /\ ficHandler.fics = <<>> /\ ficHandler.ficno = 0
<1>1. <<>> \in Seq(FicOutput) /\ [i \in 0 .. 2 |-> <<>>] \in [0 .. 2 -> FicInput \union {<<>>}]
  OBVIOUS
<1> QED BY <1>1 DEF ficHandler, FicState, UnitsOfFic

\* All the units of a block.
LEMMA BlockAligned ==
  ASSUME NEW frame \in {0, 1}, NEW blkno \in 1 .. 3, NEW h \in FicState,
         blkno # 1 => Aligned(h, frame, 4 * (blkno - 1))
  PROVE  Aligned(process_ficBlock(h, FicData(frame, blkno), blkno), frame, 4 * blkno)
<1> DEFINE units == FicData(frame, blkno)
           p == 4 * (blkno - 1)
           start == IF blkno = 1 THEN [h EXCEPT !.index = 0, !.ficno = 0, !.fics = <<>>]
                                 ELSE [h EXCEPT !.fics = <<>>]
<1>1. units = [i \in 1 .. 4 |-> <<frame, p + i - 1>>]
  BY DEF FicData, UnitsOfBlock
<1>2. units \in Seq(FicInput) /\ Len(units) = 4
        /\ units[1] = <<frame, p>> /\ units[2] = <<frame, p + 1>>
        /\ units[3] = <<frame, p + 1 + 1>> /\ units[4] = <<frame, p + 1 + 1 + 1>>
        /\ p \in 0 .. 8
  <2>1. p \in 0 .. 8
    OBVIOUS
  <2> HIDE DEF p
  <2>2. \A i \in 1 .. 4 : <<frame, p + i - 1>> \in FicInput
    BY <2>1 DEF FicInput
  <2> QED BY <1>1, <2>1, <2>2
<1> HIDE DEF units
<1>3. Aligned(start, frame, p)
  <2>1. <<>> \in Seq(FicOutput) /\ Len(<<>>) = 0
    OBVIOUS
  <2>2. CASE blkno = 1
    <3>1. start = [h EXCEPT !.index = 0, !.ficno = 0, !.fics = <<>>] /\ p = 0
      BY <2>2
    <3>2. [[h EXCEPT !.index = 0] EXCEPT !.ficno = 0] \in FicState
      <4> DEFINE g == [h EXCEPT !.index = 0]
      <4>1. g \in FicState
        BY DEF FicState
      <4> HIDE DEF g
      <4>2. [g EXCEPT !.ficno = 0] \in FicState
        BY <4>1 DEF FicState
      <4> QED BY <4>2 DEF g
    <3>3. start = [[[h EXCEPT !.index = 0] EXCEPT !.ficno = 0] EXCEPT !.fics = <<>>]
      BY <3>1 DEF FicState
    <3> HIDE DEF start
    <3>4. start \in FicState /\ start.index = 0 /\ start.ficno = 0 /\ start.fics = <<>>
      BY <2>1, <3>2, <3>3 DEF FicState
    <3> QED BY <2>1, <3>1, <3>4 DEF Aligned, FirstUnits, RightFics, EndsWith
  <2>3. CASE blkno # 1
    <3>1. start = [h EXCEPT !.fics = <<>>]
      BY <2>3
    <3>2. start \in FicState /\ start.index = h.index /\ start.ficno = h.ficno /\ start.fics = <<>>
            /\ start.ofdm_input = h.ofdm_input
      BY <2>1, <3>1 DEF FicState
    <3> HIDE DEF start
    <3> QED BY <2>1, <2>3, <3>2 DEF Aligned, RightFics, EndsWith
  <2> QED BY <2>2, <2>3
<1>a. frame \in {0, 1} /\ p \in 0 .. 11 /\ p + 1 \in 0 .. 11 /\ p + 1 + 1 \in 0 .. 11
        /\ p + 1 + 1 + 1 \in 0 .. 11
  BY <1>2
<1> HIDE DEF start, p
<1> DEFINE h1 == FicUnit(start, units[1])
           h2 == FicUnit(h1, units[2])
           h3 == FicUnit(h2, units[3])
           h4 == FicUnit(h3, units[4])
<1>4. Aligned(h1, frame, p + 1)
  BY <1>a, <1>2, <1>3, UnitAligned
<1> HIDE DEF h1
<1>5. Aligned(h2, frame, p + 1 + 1)
  BY <1>a, <1>2, <1>4, UnitAligned
<1> HIDE DEF h2
<1>6. Aligned(h3, frame, p + 1 + 1 + 1)
  BY <1>a, <1>2, <1>5, UnitAligned
<1> HIDE DEF h3
<1>7. Aligned(h4, frame, p + 1 + 1 + 1 + 1)
  BY <1>a, <1>2, <1>6, UnitAligned
<1>8. start \in FicState
  BY <1>3 DEF Aligned
<1>9. process_ficBlock(h, FicData(frame, blkno), blkno) = h4
  <2>1. process_ficBlock(h, FicData(frame, blkno), blkno) = FoldLeft(FicUnit, start, units)
    BY DEF process_ficBlock, start, units
  <2> QED BY <2>1, <1>2, <1>8, BlockUnits DEF h1, h2, h3
<1> HIDE DEF h4
<1> QED BY <1>2, <1>7, <1>9 DEF p

LEMMA FicInit == ASSUME Init PROVE FicInv
<1> SUFFICES ASSUME line = "fic" PROVE FicLine(coding)
  BY DEF FicInv
<1>1. coding = [handler |-> ficHandler, blkno |-> 1, frame |-> 0]
  BY DEF Init, theCoding, CodingInit, CodingLine
<1> QED BY <1>1, ficHandlerOK DEF FicLine, RightFics, EndsWith

LEMMA FicStep == ASSUME FicInv, [Next]_vars PROVE FicInv'
<1> SUFFICES ASSUME line = "fic", FicLine(coding) PROVE FicLine(coding')
  BY LineStays DEF FicInv, FicLine
<1>1. CASE UNCHANGED vars
  BY <1>1 DEF vars
<1>2. /\ coding \in [handler : FicState, blkno : 1 .. 3, frame : {0, 1}]
      /\ coding.handler \in FicState /\ coding.blkno \in 1 .. 3 /\ coding.frame \in {0, 1}
  BY DEF FicLine
<1>3. CASE Coding /\ FicBlock
  <2> DEFINE h == process_ficBlock(coding.handler, FicData(coding.frame, coding.blkno), coding.blkno)
             b == (coding.blkno % 3) + 1
             f == IF coding.blkno = 3 THEN 1 - coding.frame ELSE coding.frame
  <2>1. Aligned(h, coding.frame, 4 * coding.blkno)
    BY <1>2, BlockAligned DEF FicLine
  <2> HIDE DEF h
  <2>2. coding' = [handler |-> h, blkno |-> b, frame |-> f]
    BY <1>3 DEF FicBlock, h
  <2>3. h \in FicState /\ b \in 1 .. 3 /\ f \in {0, 1}
    BY <1>2, <2>1 DEF Aligned
  <2>4. CASE coding.blkno = 3
    <3>1. b = 1 /\ h.index \in 0 .. 2 /\ h.ficno \in Nat /\ 12 = 3 * h.ficno + h.index
      BY <2>1, <2>4, <2>3 DEF Aligned, FicState
    <3>2. h.ficno = 4
      BY <3>1
    <3> HIDE DEF b, f
    <3> QED BY <2>1, <2>2, <2>3, <3>1, <3>2 DEF FicLine, Aligned
  <2>5. CASE coding.blkno # 3
    <3>1. b = coding.blkno + 1 /\ f = coding.frame /\ b # 1 /\ 4 * coding.blkno = 4 * (b - 1)
      BY <1>2, <2>5
    <3> HIDE DEF b, f
    <3> QED BY <2>1, <2>2, <2>3, <3>1 DEF FicLine
  <2> QED BY <2>4, <2>5
<1>4. CASE Coding /\ FicBroken
  <2> DEFINE h == [coding.handler EXCEPT !.fics = <<>>]
  <2>1. coding' = [handler |-> h, blkno |-> 1, frame |-> 1 - coding.frame]
    BY <1>4 DEF FicBroken
  <2>2. h \in FicState /\ h.fics = <<>> /\ h.ficno = coding.handler.ficno
    <3>1. <<>> \in Seq(FicOutput)
      OBVIOUS
    <3> QED BY <3>1, <1>2 DEF FicState
  <2>3. h.ficno \in 0 .. 4
    <3>1. coding.blkno # 1 /\ Aligned(coding.handler, coding.frame, 4 * (coding.blkno - 1))
      BY <1>4 DEF FicBroken, FicLine
    <3> QED BY <3>1, <2>2, <1>2 DEF Aligned, FicState
  <2> HIDE DEF h
  <2>4. Len(<<>>) = 0
    OBVIOUS
  <2> QED BY <1>2, <2>1, <2>2, <2>3, <2>4 DEF FicLine, RightFics, EndsWith
<1>5. CASE CodingLoss \/ SelectAgain
  BY <1>5 DEF CodingLoss, SelectAgain
<1> QED BY <1>1, <1>3, <1>4, <1>5, CodingActions DEF CodingLine, Coding, CodingNext

LEMMA FicPlaces == ASSUME FicInv, line = "fic" PROVE FicAligned /\ coding.handler.index < UnitsOfFic
                                                      /\ coding.handler.ficno \in 0 .. 4
<1> DEFINE fics == coding.handler.fics
<1>1. /\ FicLine(coding) /\ coding.handler \in FicState /\ fics \in Seq(FicOutput)
      /\ coding.handler.index \in 0 .. 2 /\ coding.blkno \in 1 .. 3 /\ coding.handler.ficno \in Nat
  BY DEF FicInv, FicLine, FicState
<1>2. \A i \in 1 .. Len(fics) : RightFic(fics[i])
  BY <1>1 DEF FicLine, Aligned, RightFics
<1>3. coding.blkno = 1 /\ fics # <<>> => Last(fics).ficno = 3
  BY <1>1 DEF FicLine, Last, EndsWith
<1>4. coding.handler.ficno \in 0 .. 4
  BY <1>1 DEF FicLine, Aligned
<1>5. DOMAIN fics = 1 .. Len(fics)
  BY <1>1
<1> HIDE DEF fics
<1>6. FicAligned
  BY <1>2, <1>3, <1>5 DEF FicAligned, RightFic, UnitsOfFic, fics
<1> QED BY <1>1, <1>4, <1>6 DEF UnitsOfFic

-----------------------------------------------------------------------------
(* Subchannels.                                                            *)

LEMMA Sums ==
  ASSUME NEW s \in Seq(Int)
  PROVE  \E k : /\ Total(s) = k[1 .. Len(s)] /\ k[1 .. 0] = 0
                /\ \A i \in 1 .. Len(s) : k[1 .. i] = k[1 .. (i - 1)] + s[i]
<1> DEFINE n == Len(s)
           F == [x \in Int \X (1 .. n) |-> x[1] + s[x[2]]]
           Step(k, t) == IF t = {} THEN 0 ELSE k[t \ {Max(t)}] + s[Max(t)]
<1>1. n \in Nat /\ DOMAIN s = 1 .. n /\ \A i \in 1 .. n : s[i] \in Int
  BY Elements
<1>2. F \in [Int \X (1 .. n) -> Int]
  BY <1>1
<1>3. PICK g : IsFold(g, Int, 0, n, F)
  <2>1. n \in Nat /\ 0 \in Int
    BY <1>1
  <2> HIDE DEF F, n
  <2> QED BY <2>1, <1>2, FoldExists
<1>4. g = [t \in SUBSET (1 .. n) |-> Step(g, t)]
  <2>1. ASSUME NEW t \in SUBSET (1 .. n), t # {}
        PROVE  F[<<g[t \ {Max(t)}], Max(t)>>] = g[t \ {Max(t)}] + s[Max(t)]
    <3>1. Max(t) \in 1 .. n
      BY <1>1, <2>1, MaxFound
    <3>2. g[t \ {Max(t)}] \in Int
      BY <1>3 DEF IsFold
    <3> QED BY <3>1, <3>2
  <2> HIDE DEF F
  <2> QED BY <1>3, <2>1 DEF IsFold
<1>5. PICK k : /\ k = [t \in SUBSET (DOMAIN s) |-> Step(k, t)]
               /\ Total(s) = k[DOMAIN s]
  BY <1>1, <1>4, Zenon DEF Total, FoldLeft, MapThenFoldSet
<1>6. ASSUME NEW i \in 1 .. n PROVE k[1 .. i] = k[1 .. (i - 1)] + s[i]
  BY <1>1, <1>5, UpTo
<1>7. k[1 .. 0] = 0
  BY <1>1, <1>5
<1> QED BY <1>1, <1>5, <1>6, <1>7

\* The sum of two numbers, and of four.
LEMMA TotalOf ==
  ASSUME NEW s \in Seq(Int)
  PROVE  /\ Len(s) = 2 => Total(s) = s[1] + s[2]
         /\ Len(s) = 4 => Total(s) = s[1] + s[2] + s[3] + s[4]
<1>1. PICK k : /\ Total(s) = k[1 .. Len(s)] /\ k[1 .. 0] = 0
               /\ \A i \in 1 .. Len(s) : k[1 .. i] = k[1 .. (i - 1)] + s[i]
  BY Sums
<1>2. \A i \in 1 .. Len(s) : s[i] \in Int
  BY Elements
<1>3. CASE Len(s) = 2
  <2>1. k[1 .. 1] = k[1 .. 0] + s[1] /\ k[1 .. 2] = k[1 .. 1] + s[2]
    BY <1>1, <1>3
  <2> QED BY <1>1, <1>2, <1>3, <2>1
<1>4. CASE Len(s) = 4
  <2>1. k[1 .. 1] = k[1 .. 0] + s[1] /\ k[1 .. 2] = k[1 .. 1] + s[2]
          /\ k[1 .. 3] = k[1 .. 2] + s[3] /\ k[1 .. 4] = k[1 .. 3] + s[4]
    BY <1>1, <1>4
  <2> QED BY <1>1, <1>2, <1>4, <2>1
<1> QED BY <1>3, <1>4

SomeBlocks == [blocks : Int, PI : Int]

Profile == Seq(SomeBlocks)

Written(b) == IF b.blocks > 0 THEN 128 * b.blocks ELSE 0

Taken(b) == IF b.blocks > 0 THEN 4 * (8 + b.PI) * b.blocks ELSE 0

\* What a profile of two kinds of blocks makes of the fragment, or one of four.
LEMMA ProfileBits ==
  ASSUME NEW p \in Profile, Len(p) \in {2, 4}, NEW d,
         p = IF d.shortForm THEN uep_protection(d.bitRate, d.protLevel)
             ELSE eep_protection(d.bitRate, d.protLevel)
  PROVE  /\ Deconvolver(d).size = 96 * d.bitRate + 24
         /\ Len(p) = 2 =>
              /\ Deconvolver(d).written = Written(p[1]) + Written(p[2]) + 24
              /\ Deconvolver(d).taken = Taken(p[1]) + Taken(p[2]) + 12
         /\ Len(p) = 4 =>
              /\ Deconvolver(d).written = Written(p[1]) + Written(p[2]) + Written(p[3]) + Written(p[4]) + 24
              /\ Deconvolver(d).taken = Taken(p[1]) + Taken(p[2]) + Taken(p[3]) + Taken(p[4]) + 12
<1> DEFINE w == [i \in DOMAIN p |-> 128 * (IF p[i].blocks > 0 THEN p[i].blocks ELSE 0)]
           t == [i \in DOMAIN p |-> 4 * OnesOf(p[i].PI) * (IF p[i].blocks > 0 THEN p[i].blocks ELSE 0)]
<1>1. /\ Deconvolver(d).size = 4 * 24 * d.bitRate + TailBits
      /\ Deconvolver(d).written = Total(w) + TailBits
      /\ Deconvolver(d).taken = Total(t) + TailOnes
  BY DEF Deconvolver
<1>2. /\ Len(p) \in Nat /\ DOMAIN p = 1 .. Len(p)
      /\ \A i \in 1 .. Len(p) : p[i].blocks \in Int /\ p[i].PI \in Int
  <2>1. Len(p) \in Nat /\ DOMAIN p = 1 .. Len(p) /\ \A i \in 1 .. Len(p) : p[i] \in SomeBlocks
    BY Elements DEF Profile
  <2>2. \A b \in SomeBlocks : b.blocks \in Int /\ b.PI \in Int
    BY DEF SomeBlocks
  <2> QED BY <2>1, <2>2
<1>3. w \in Seq(Int) /\ Len(w) = Len(p) /\ \A i \in 1 .. Len(p) : w[i] = Written(p[i])
  BY <1>2 DEF Written
<1>4. t \in Seq(Int) /\ Len(t) = Len(p) /\ \A i \in 1 .. Len(p) : t[i] = Taken(p[i])
  <2>1. \A b, n \in Int : 4 * (8 + n) * (IF b > 0 THEN b ELSE 0) \in Int
    OBVIOUS
  <2>2. \A i \in 1 .. Len(p) : 4 * (8 + p[i].PI) * (IF p[i].blocks > 0 THEN p[i].blocks ELSE 0) = Taken(p[i])
    BY <1>2 DEF Taken
  <2>3. t = [i \in 1 .. Len(p) |-> 4 * (8 + p[i].PI) * (IF p[i].blocks > 0 THEN p[i].blocks ELSE 0)]
    BY <1>2 DEF OnesOf
  <2> HIDE DEF t
  <2>4. \A i \in 1 .. Len(p) : 4 * (8 + p[i].PI) * (IF p[i].blocks > 0 THEN p[i].blocks ELSE 0) \in Int
    BY <1>2, <2>1
  <2>5. t = [i \in 1 .. Len(p) |-> Taken(p[i])] /\ \A i \in 1 .. Len(p) : Taken(p[i]) \in Int
    BY <2>2, <2>3, <2>4
  <2> QED BY <1>2, <2>5
<1> HIDE DEF w, t
<1>5. /\ Len(p) = 2 => Total(w) = w[1] + w[2] /\ Total(t) = t[1] + t[2]
      /\ Len(p) = 4 => Total(w) = w[1] + w[2] + w[3] + w[4] /\ Total(t) = t[1] + t[2] + t[3] + t[4]
  BY <1>3, <1>4, TotalOf
<1>6. /\ Deconvolver(d).size = 96 * d.bitRate + 24
      /\ Deconvolver(d).written = Total(w) + 24
      /\ Deconvolver(d).taken = Total(t) + 12
  BY <1>1 DEF TailBits, TailOnes
<1>7. CASE Len(p) = 2
  <2>1. w[1] = Written(p[1]) /\ w[2] = Written(p[2]) /\ t[1] = Taken(p[1]) /\ t[2] = Taken(p[2])
    BY <1>3, <1>4, <1>7
  <2> QED BY <1>5, <1>6, <1>7, <2>1
<1>8. CASE Len(p) = 4
  <2>1. /\ w[1] = Written(p[1]) /\ w[2] = Written(p[2]) /\ w[3] = Written(p[3]) /\ w[4] = Written(p[4])
        /\ t[1] = Taken(p[1]) /\ t[2] = Taken(p[2]) /\ t[3] = Taken(p[3]) /\ t[4] = Taken(p[4])
    BY <1>3, <1>4, <1>8
  <2> QED BY <1>5, <1>6, <1>8, <2>1
<1> QED BY <1>7, <1>8

\* The tables, row for row.
LEMMA TablesAgree ==
  /\ DOMAIN profileTable = 1 .. 64
  /\ \A i \in 1 .. 64 : ProtLevel[i][2] = profileTable[i][2] /\ ProtLevel[i][3] = profileTable[i][1]
BY DEF ProtLevel, profileTable

LEMMA RowsDiffer ==
  \A i, j \in 1 .. 64 :
    profileTable[i][1] = profileTable[j][1] /\ profileTable[i][2] = profileTable[j][2] => i = j
BY DEF profileTable

LEMMA RowNumbers == \A i \in 1 .. 64 : \A j \in 1 .. 10 : profileTable[i][j] \in Int
BY DEF profileTable

\* A short form takes the row of its number.
LEMMA RowFound ==
  ASSUME NEW i \in 1 .. 64
  PROVE  findIndex(ProtLevel[i][3], ProtLevel[i][2]) = i
<1> DEFINE found == {j \in DOMAIN profileTable :
                       profileTable[j][1] = ProtLevel[i][3] /\ profileTable[j][2] = ProtLevel[i][2]}
<1>1. found = {i}
  <2>1. i \in found
    BY TablesAgree
  <2>2. ASSUME NEW j \in found PROVE j = i
    <3>1. j \in 1 .. 64 /\ profileTable[j][1] = profileTable[i][1] /\ profileTable[j][2] = profileTable[i][2]
      BY TablesAgree
    <3> HIDE DEF found
    <3> QED BY <3>1, RowsDiffer
  <2> HIDE DEF found
  <2> QED BY <2>1, <2>2
<1> HIDE DEF found
<1>2. (CHOOSE j \in found : \A k \in found : j <= k) = i
  BY <1>1
<1>3. findIndex(ProtLevel[i][3], ProtLevel[i][2]) = CHOOSE j \in found : \A k \in found : j <= k
  BY <1>1 DEF findIndex, found
<1> QED BY <1>2, <1>3

RowFits(row, Length) ==
  LET more(k)  == IF row[2 + k] > 0 THEN row[2 + k] ELSE 0
      rest == 64 * Length - (4 * (8 + row[7]) * more(1) + 4 * (8 + row[8]) * more(2)
                               + 4 * (8 + row[9]) * more(3) + 4 * (8 + row[10]) * more(4) + 12) IN
  /\ 128 * more(1) + 128 * more(2) + 128 * more(3) + 128 * more(4) = 96 * row[1]
  /\ rest \in (IF row[1] = 80 /\ row[2] = 1 THEN {404} ELSE {0, 4, 8})

LEMMA EachRowFits == \A i \in 1 .. 64 : RowFits(profileTable[i], ProtLevel[i][1])
<1>1. RowFits(profileTable[1], ProtLevel[1][1])
  <2>1. profileTable[1] = <<32, 5, 3, 4, 17, 0, 5, 3, 2, -1>>  BY SMT DEF profileTable
  <2>2. ProtLevel[1][1] = 16  BY SMT DEF ProtLevel
  <2>3. RowFits(<<32, 5, 3, 4, 17, 0, 5, 3, 2, -1>>, 16)  BY SMT DEF RowFits
  <2> QED BY <2>1, <2>2, <2>3
<1>2. RowFits(profileTable[2], ProtLevel[2][1])
  <2>1. profileTable[2] = <<32, 4, 3, 3, 18, 0, 11, 6, 5, -1>>  BY SMT DEF profileTable
  <2>2. ProtLevel[2][1] = 21  BY SMT DEF ProtLevel
  <2>3. RowFits(<<32, 4, 3, 3, 18, 0, 11, 6, 5, -1>>, 21)  BY SMT DEF RowFits
  <2> QED BY <2>1, <2>2, <2>3
<1>3. RowFits(profileTable[3], ProtLevel[3][1])
  <2>1. profileTable[3] = <<32, 3, 3, 4, 14, 3, 15, 9, 6, 8>>  BY SMT DEF profileTable
  <2>2. ProtLevel[3][1] = 24  BY SMT DEF ProtLevel
  <2>3. RowFits(<<32, 3, 3, 4, 14, 3, 15, 9, 6, 8>>, 24)  BY SMT DEF RowFits
  <2> QED BY <2>1, <2>2, <2>3
<1>4. RowFits(profileTable[4], ProtLevel[4][1])
  <2>1. profileTable[4] = <<32, 2, 3, 4, 14, 3, 22, 13, 8, 13>>  BY SMT DEF profileTable
  <2>2. ProtLevel[4][1] = 29  BY SMT DEF ProtLevel
  <2>3. RowFits(<<32, 2, 3, 4, 14, 3, 22, 13, 8, 13>>, 29)  BY SMT DEF RowFits
  <2> QED BY <2>1, <2>2, <2>3
<1>5. RowFits(profileTable[5], ProtLevel[5][1])
  <2>1. profileTable[5] = <<32, 1, 3, 5, 13, 3, 24, 17, 12, 17>>  BY SMT DEF profileTable
  <2>2. ProtLevel[5][1] = 35  BY SMT DEF ProtLevel
  <2>3. RowFits(<<32, 1, 3, 5, 13, 3, 24, 17, 12, 17>>, 35)  BY SMT DEF RowFits
  <2> QED BY <2>1, <2>2, <2>3
<1>6. RowFits(profileTable[6], ProtLevel[6][1])
  <2>1. profileTable[6] = <<48, 5, 4, 3, 26, 3, 5, 4, 2, 3>>  BY SMT DEF profileTable
  <2>2. ProtLevel[6][1] = 24  BY SMT DEF ProtLevel
  <2>3. RowFits(<<48, 5, 4, 3, 26, 3, 5, 4, 2, 3>>, 24)  BY SMT DEF RowFits
  <2> QED BY <2>1, <2>2, <2>3
<1>7. RowFits(profileTable[7], ProtLevel[7][1])
  <2>1. profileTable[7] = <<48, 4, 3, 4, 26, 3, 9, 6, 4, 6>>  BY SMT DEF profileTable
  <2>2. ProtLevel[7][1] = 29  BY SMT DEF ProtLevel
  <2>3. RowFits(<<48, 4, 3, 4, 26, 3, 9, 6, 4, 6>>, 29)  BY SMT DEF RowFits
  <2> QED BY <2>1, <2>2, <2>3
<1>8. RowFits(profileTable[8], ProtLevel[8][1])
  <2>1. profileTable[8] = <<48, 3, 3, 4, 26, 3, 15, 10, 6, 9>>  BY SMT DEF profileTable
  <2>2. ProtLevel[8][1] = 35  BY SMT DEF ProtLevel
  <2>3. RowFits(<<48, 3, 3, 4, 26, 3, 15, 10, 6, 9>>, 35)  BY SMT DEF RowFits
  <2> QED BY <2>1, <2>2, <2>3
<1>9. RowFits(profileTable[9], ProtLevel[9][1])
  <2>1. profileTable[9] = <<48, 2, 3, 4, 26, 3, 24, 14, 8, 15>>  BY SMT DEF profileTable
  <2>2. ProtLevel[9][1] = 42  BY SMT DEF ProtLevel
  <2>3. RowFits(<<48, 2, 3, 4, 26, 3, 24, 14, 8, 15>>, 42)  BY SMT DEF RowFits
  <2> QED BY <2>1, <2>2, <2>3
<1>10. RowFits(profileTable[10], ProtLevel[10][1])
  <2>1. profileTable[10] = <<48, 1, 3, 5, 25, 3, 24, 18, 13, 18>>  BY SMT DEF profileTable
  <2>2. ProtLevel[10][1] = 52  BY SMT DEF ProtLevel
  <2>3. RowFits(<<48, 1, 3, 5, 25, 3, 24, 18, 13, 18>>, 52)  BY SMT DEF RowFits
  <2> QED BY <2>1, <2>2, <2>3
<1>11. RowFits(profileTable[11], ProtLevel[11][1])
  <2>1. profileTable[11] = <<56, 5, 6, 10, 23, 3, 5, 4, 2, 3>>  BY SMT DEF profileTable
  <2>2. ProtLevel[11][1] = 29  BY SMT DEF ProtLevel
  <2>3. RowFits(<<56, 5, 6, 10, 23, 3, 5, 4, 2, 3>>, 29)  BY SMT DEF RowFits
  <2> QED BY <2>1, <2>2, <2>3
<1>12. RowFits(profileTable[12], ProtLevel[12][1])
  <2>1. profileTable[12] = <<56, 4, 6, 10, 23, 3, 9, 6, 4, 5>>  BY SMT DEF profileTable
  <2>2. ProtLevel[12][1] = 35  BY SMT DEF ProtLevel
  <2>3. RowFits(<<56, 4, 6, 10, 23, 3, 9, 6, 4, 5>>, 35)  BY SMT DEF RowFits
  <2> QED BY <2>1, <2>2, <2>3
<1>13. RowFits(profileTable[13], ProtLevel[13][1])
  <2>1. profileTable[13] = <<56, 3, 6, 12, 21, 3, 16, 7, 6, 9>>  BY SMT DEF profileTable
  <2>2. ProtLevel[13][1] = 42  BY SMT DEF ProtLevel
  <2>3. RowFits(<<56, 3, 6, 12, 21, 3, 16, 7, 6, 9>>, 42)  BY SMT DEF RowFits
  <2> QED BY <2>1, <2>2, <2>3
<1>14. RowFits(profileTable[14], ProtLevel[14][1])
  <2>1. profileTable[14] = <<56, 2, 6, 10, 23, 3, 23, 13, 8, 13>>  BY SMT DEF profileTable
  <2>2. ProtLevel[14][1] = 52  BY SMT DEF ProtLevel
  <2>3. RowFits(<<56, 2, 6, 10, 23, 3, 23, 13, 8, 13>>, 52)  BY SMT DEF RowFits
  <2> QED BY <2>1, <2>2, <2>3
<1>15. RowFits(profileTable[15], ProtLevel[15][1])
  <2>1. profileTable[15] = <<64, 5, 6, 9, 31, 2, 5, 3, 2, 3>>  BY SMT DEF profileTable
  <2>2. ProtLevel[15][1] = 32  BY SMT DEF ProtLevel
  <2>3. RowFits(<<64, 5, 6, 9, 31, 2, 5, 3, 2, 3>>, 32)  BY SMT DEF RowFits
  <2> QED BY <2>1, <2>2, <2>3
<1>16. RowFits(profileTable[16], ProtLevel[16][1])
  <2>1. profileTable[16] = <<64, 4, 6, 9, 33, 0, 11, 6, 5, -1>>  BY SMT DEF profileTable
  <2>2. ProtLevel[16][1] = 42  BY SMT DEF ProtLevel
  <2>3. RowFits(<<64, 4, 6, 9, 33, 0, 11, 6, 5, -1>>, 42)  BY SMT DEF RowFits
  <2> QED BY <2>1, <2>2, <2>3
<1>17. RowFits(profileTable[17], ProtLevel[17][1])
  <2>1. profileTable[17] = <<64, 3, 6, 12, 27, 3, 16, 8, 6, 9>>  BY SMT DEF profileTable
  <2>2. ProtLevel[17][1] = 48  BY SMT DEF ProtLevel
  <2>3. RowFits(<<64, 3, 6, 12, 27, 3, 16, 8, 6, 9>>, 48)  BY SMT DEF RowFits
  <2> QED BY <2>1, <2>2, <2>3
<1>18. RowFits(profileTable[18], ProtLevel[18][1])
  <2>1. profileTable[18] = <<64, 2, 6, 10, 29, 3, 23, 13, 8, 13>>  BY SMT DEF profileTable
  <2>2. ProtLevel[18][1] = 58  BY SMT DEF ProtLevel
  <2>3. RowFits(<<64, 2, 6, 10, 29, 3, 23, 13, 8, 13>>, 58)  BY SMT DEF RowFits
  <2> QED BY <2>1, <2>2, <2>3
<1>19. RowFits(profileTable[19], ProtLevel[19][1])
  <2>1. profileTable[19] = <<64, 1, 6, 11, 28, 3, 24, 18, 12, 18>>  BY SMT DEF profileTable
  <2>2. ProtLevel[19][1] = 70  BY SMT DEF ProtLevel
  <2>3. RowFits(<<64, 1, 6, 11, 28, 3, 24, 18, 12, 18>>, 70)  BY SMT DEF RowFits
  <2> QED BY <2>1, <2>2, <2>3
<1>20. RowFits(profileTable[20], ProtLevel[20][1])
  <2>1. profileTable[20] = <<80, 5, 6, 10, 41, 3, 6, 3, 2, 3>>  BY SMT DEF profileTable
  <2>2. ProtLevel[20][1] = 40  BY SMT DEF ProtLevel
  <2>3. RowFits(<<80, 5, 6, 10, 41, 3, 6, 3, 2, 3>>, 40)  BY SMT DEF RowFits
  <2> QED BY <2>1, <2>2, <2>3
<1>21. RowFits(profileTable[21], ProtLevel[21][1])
  <2>1. profileTable[21] = <<80, 4, 6, 10, 41, 3, 11, 6, 5, 6>>  BY SMT DEF profileTable
  <2>2. ProtLevel[21][1] = 52  BY SMT DEF ProtLevel
  <2>3. RowFits(<<80, 4, 6, 10, 41, 3, 11, 6, 5, 6>>, 52)  BY SMT DEF RowFits
  <2> QED BY <2>1, <2>2, <2>3
<1>22. RowFits(profileTable[22], ProtLevel[22][1])
  <2>1. profileTable[22] = <<80, 3, 6, 11, 40, 3, 16, 8, 6, 7>>  BY SMT DEF profileTable
  <2>2. ProtLevel[22][1] = 58  BY SMT DEF ProtLevel
  <2>3. RowFits(<<80, 3, 6, 11, 40, 3, 16, 8, 6, 7>>, 58)  BY SMT DEF RowFits
  <2> QED BY <2>1, <2>2, <2>3
<1>23. RowFits(profileTable[23], ProtLevel[23][1])
  <2>1. profileTable[23] = <<80, 2, 6, 10, 41, 3, 23, 13, 8, 13>>  BY SMT DEF profileTable
  <2>2. ProtLevel[23][1] = 70  BY SMT DEF ProtLevel
  <2>3. RowFits(<<80, 2, 6, 10, 41, 3, 23, 13, 8, 13>>, 70)  BY SMT DEF RowFits
  <2> QED BY <2>1, <2>2, <2>3
<1>24. RowFits(profileTable[24], ProtLevel[24][1])
  <2>1. profileTable[24] = <<80, 1, 6, 10, 41, 3, 24, 7, 12, 18>>  BY SMT DEF profileTable
  <2>2. ProtLevel[24][1] = 84  BY SMT DEF ProtLevel
  <2>3. RowFits(<<80, 1, 6, 10, 41, 3, 24, 7, 12, 18>>, 84)  BY SMT DEF RowFits
  <2> QED BY <2>1, <2>2, <2>3
<1>25. RowFits(profileTable[25], ProtLevel[25][1])
  <2>1. profileTable[25] = <<96, 5, 7, 9, 53, 3, 5, 4, 2, 4>>  BY SMT DEF profileTable
  <2>2. ProtLevel[25][1] = 48  BY SMT DEF ProtLevel
  <2>3. RowFits(<<96, 5, 7, 9, 53, 3, 5, 4, 2, 4>>, 48)  BY SMT DEF RowFits
  <2> QED BY <2>1, <2>2, <2>3
<1>26. RowFits(profileTable[26], ProtLevel[26][1])
  <2>1. profileTable[26] = <<96, 4, 7, 10, 52, 3, 9, 6, 4, 6>>  BY SMT DEF profileTable
  <2>2. ProtLevel[26][1] = 58  BY SMT DEF ProtLevel
  <2>3. RowFits(<<96, 4, 7, 10, 52, 3, 9, 6, 4, 6>>, 58)  BY SMT DEF RowFits
  <2> QED BY <2>1, <2>2, <2>3
<1>27. RowFits(profileTable[27], ProtLevel[27][1])
  <2>1. profileTable[27] = <<96, 3, 6, 12, 51, 3, 16, 9, 6, 10>>  BY SMT DEF profileTable
  <2>2. ProtLevel[27][1] = 70  BY SMT DEF ProtLevel
  <2>3. RowFits(<<96, 3, 6, 12, 51, 3, 16, 9, 6, 10>>, 70)  BY SMT DEF RowFits
  <2> QED BY <2>1, <2>2, <2>3
<1>28. RowFits(profileTable[28], ProtLevel[28][1])
  <2>1. profileTable[28] = <<96, 2, 6, 10, 53, 3, 22, 12, 9, 12>>  BY SMT DEF profileTable
  <2>2. ProtLevel[28][1] = 84  BY SMT DEF ProtLevel
  <2>3. RowFits(<<96, 2, 6, 10, 53, 3, 22, 12, 9, 12>>, 84)  BY SMT DEF RowFits
  <2> QED BY <2>1, <2>2, <2>3
<1>29. RowFits(profileTable[29], ProtLevel[29][1])
  <2>1. profileTable[29] = <<96, 1, 6, 13, 50, 3, 24, 18, 13, 19>>  BY SMT DEF profileTable
  <2>2. ProtLevel[29][1] = 104  BY SMT DEF ProtLevel
  <2>3. RowFits(<<96, 1, 6, 13, 50, 3, 24, 18, 13, 19>>, 104)  BY SMT DEF RowFits
  <2> QED BY <2>1, <2>2, <2>3
<1>30. RowFits(profileTable[30], ProtLevel[30][1])
  <2>1. profileTable[30] = <<112, 5, 14, 17, 50, 3, 5, 4, 2, 5>>  BY SMT DEF profileTable
  <2>2. ProtLevel[30][1] = 58  BY SMT DEF ProtLevel
  <2>3. RowFits(<<112, 5, 14, 17, 50, 3, 5, 4, 2, 5>>, 58)  BY SMT DEF RowFits
  <2> QED BY <2>1, <2>2, <2>3
<1>31. RowFits(profileTable[31], ProtLevel[31][1])
  <2>1. profileTable[31] = <<112, 4, 11, 21, 49, 3, 9, 6, 4, 8>>  BY SMT DEF profileTable
  <2>2. ProtLevel[31][1] = 70  BY SMT DEF ProtLevel
  <2>3. RowFits(<<112, 4, 11, 21, 49, 3, 9, 6, 4, 8>>, 70)  BY SMT DEF RowFits
  <2> QED BY <2>1, <2>2, <2>3
<1>32. RowFits(profileTable[32], ProtLevel[32][1])
  <2>1. profileTable[32] = <<112, 3, 11, 23, 47, 3, 16, 8, 6, 9>>  BY SMT DEF profileTable
  <2>2. ProtLevel[32][1] = 84  BY SMT DEF ProtLevel
  <2>3. RowFits(<<112, 3, 11, 23, 47, 3, 16, 8, 6, 9>>, 84)  BY SMT DEF RowFits
  <2> QED BY <2>1, <2>2, <2>3
<1>33. RowFits(profileTable[33], ProtLevel[33][1])
  <2>1. profileTable[33] = <<112, 2, 11, 21, 49, 3, 23, 12, 9, 14>>  BY SMT DEF profileTable
  <2>2. ProtLevel[33][1] = 104  BY SMT DEF ProtLevel
  <2>3. RowFits(<<112, 2, 11, 21, 49, 3, 23, 12, 9, 14>>, 104)  BY SMT DEF RowFits
  <2> QED BY <2>1, <2>2, <2>3
<1>34. RowFits(profileTable[34], ProtLevel[34][1])
  <2>1. profileTable[34] = <<128, 5, 12, 19, 62, 3, 5, 3, 2, 4>>  BY SMT DEF profileTable
  <2>2. ProtLevel[34][1] = 64  BY SMT DEF ProtLevel
  <2>3. RowFits(<<128, 5, 12, 19, 62, 3, 5, 3, 2, 4>>, 64)  BY SMT DEF RowFits
  <2> QED BY <2>1, <2>2, <2>3
<1>35. RowFits(profileTable[35], ProtLevel[35][1])
  <2>1. profileTable[35] = <<128, 4, 11, 21, 61, 3, 11, 6, 5, 7>>  BY SMT DEF profileTable
  <2>2. ProtLevel[35][1] = 84  BY SMT DEF ProtLevel
  <2>3. RowFits(<<128, 4, 11, 21, 61, 3, 11, 6, 5, 7>>, 84)  BY SMT DEF RowFits
  <2> QED BY <2>1, <2>2, <2>3
<1>36. RowFits(profileTable[36], ProtLevel[36][1])
  <2>1. profileTable[36] = <<128, 3, 11, 22, 60, 3, 16, 9, 6, 10>>  BY SMT DEF profileTable
  <2>2. ProtLevel[36][1] = 96  BY SMT DEF ProtLevel
  <2>3. RowFits(<<128, 3, 11, 22, 60, 3, 16, 9, 6, 10>>, 96)  BY SMT DEF RowFits
  <2> QED BY <2>1, <2>2, <2>3
<1>37. RowFits(profileTable[37], ProtLevel[37][1])
  <2>1. profileTable[37] = <<128, 2, 11, 21, 61, 3, 22, 12, 9, 14>>  BY SMT DEF profileTable
  <2>2. ProtLevel[37][1] = 116  BY SMT DEF ProtLevel
  <2>3. RowFits(<<128, 2, 11, 21, 61, 3, 22, 12, 9, 14>>, 116)  BY SMT DEF RowFits
  <2> QED BY <2>1, <2>2, <2>3
<1>38. RowFits(profileTable[38], ProtLevel[38][1])
  <2>1. profileTable[38] = <<128, 1, 11, 20, 62, 3, 24, 17, 13, 19>>  BY SMT DEF profileTable
  <2>2. ProtLevel[38][1] = 140  BY SMT DEF ProtLevel
  <2>3. RowFits(<<128, 1, 11, 20, 62, 3, 24, 17, 13, 19>>, 140)  BY SMT DEF RowFits
  <2> QED BY <2>1, <2>2, <2>3
<1>39. RowFits(profileTable[39], ProtLevel[39][1])
  <2>1. profileTable[39] = <<160, 5, 11, 19, 87, 3, 5, 4, 2, 4>>  BY SMT DEF profileTable
  <2>2. ProtLevel[39][1] = 80  BY SMT DEF ProtLevel
  <2>3. RowFits(<<160, 5, 11, 19, 87, 3, 5, 4, 2, 4>>, 80)  BY SMT DEF RowFits
  <2> QED BY <2>1, <2>2, <2>3
<1>40. RowFits(profileTable[40], ProtLevel[40][1])
  <2>1. profileTable[40] = <<160, 4, 11, 23, 83, 3, 11, 6, 5, 9>>  BY SMT DEF profileTable
  <2>2. ProtLevel[40][1] = 104  BY SMT DEF ProtLevel
  <2>3. RowFits(<<160, 4, 11, 23, 83, 3, 11, 6, 5, 9>>, 104)  BY SMT DEF RowFits
  <2> QED BY <2>1, <2>2, <2>3
<1>41. RowFits(profileTable[41], ProtLevel[41][1])
  <2>1. profileTable[41] = <<160, 3, 11, 24, 82, 3, 16, 8, 6, 11>>  BY SMT DEF profileTable
  <2>2. ProtLevel[41][1] = 116  BY SMT DEF ProtLevel
  <2>3. RowFits(<<160, 3, 11, 24, 82, 3, 16, 8, 6, 11>>, 116)  BY SMT DEF RowFits
  <2> QED BY <2>1, <2>2, <2>3
<1>42. RowFits(profileTable[42], ProtLevel[42][1])
  <2>1. profileTable[42] = <<160, 2, 11, 21, 85, 3, 22, 11, 9, 13>>  BY SMT DEF profileTable
  <2>2. ProtLevel[42][1] = 140  BY SMT DEF ProtLevel
  <2>3. RowFits(<<160, 2, 11, 21, 85, 3, 22, 11, 9, 13>>, 140)  BY SMT DEF RowFits
  <2> QED BY <2>1, <2>2, <2>3
<1>43. RowFits(profileTable[43], ProtLevel[43][1])
  <2>1. profileTable[43] = <<160, 1, 11, 22, 84, 3, 24, 18, 12, 19>>  BY SMT DEF profileTable
  <2>2. ProtLevel[43][1] = 168  BY SMT DEF ProtLevel
  <2>3. RowFits(<<160, 1, 11, 22, 84, 3, 24, 18, 12, 19>>, 168)  BY SMT DEF RowFits
  <2> QED BY <2>1, <2>2, <2>3
<1>44. RowFits(profileTable[44], ProtLevel[44][1])
  <2>1. profileTable[44] = <<192, 5, 11, 20, 110, 3, 6, 4, 2, 5>>  BY SMT DEF profileTable
  <2>2. ProtLevel[44][1] = 96  BY SMT DEF ProtLevel
  <2>3. RowFits(<<192, 5, 11, 20, 110, 3, 6, 4, 2, 5>>, 96)  BY SMT DEF RowFits
  <2> QED BY <2>1, <2>2, <2>3
<1>45. RowFits(profileTable[45], ProtLevel[45][1])
  <2>1. profileTable[45] = <<192, 4, 11, 22, 108, 3, 10, 6, 4, 9>>  BY SMT DEF profileTable
  <2>2. ProtLevel[45][1] = 116  BY SMT DEF ProtLevel
  <2>3. RowFits(<<192, 4, 11, 22, 108, 3, 10, 6, 4, 9>>, 116)  BY SMT DEF RowFits
  <2> QED BY <2>1, <2>2, <2>3
<1>46. RowFits(profileTable[46], ProtLevel[46][1])
  <2>1. profileTable[46] = <<192, 3, 11, 24, 106, 3, 16, 10, 6, 11>>  BY SMT DEF profileTable
  <2>2. ProtLevel[46][1] = 140  BY SMT DEF ProtLevel
  <2>3. RowFits(<<192, 3, 11, 24, 106, 3, 16, 10, 6, 11>>, 140)  BY SMT DEF RowFits
  <2> QED BY <2>1, <2>2, <2>3
<1>47. RowFits(profileTable[47], ProtLevel[47][1])
  <2>1. profileTable[47] = <<192, 2, 11, 20, 110, 3, 22, 13, 9, 13>>  BY SMT DEF profileTable
  <2>2. ProtLevel[47][1] = 168  BY SMT DEF ProtLevel
  <2>3. RowFits(<<192, 2, 11, 20, 110, 3, 22, 13, 9, 13>>, 168)  BY SMT DEF RowFits
  <2> QED BY <2>1, <2>2, <2>3
<1>48. RowFits(profileTable[48], ProtLevel[48][1])
  <2>1. profileTable[48] = <<192, 1, 11, 21, 109, 3, 24, 20, 13, 24>>  BY SMT DEF profileTable
  <2>2. ProtLevel[48][1] = 208  BY SMT DEF ProtLevel
  <2>3. RowFits(<<192, 1, 11, 21, 109, 3, 24, 20, 13, 24>>, 208)  BY SMT DEF RowFits
  <2> QED BY <2>1, <2>2, <2>3
<1>49. RowFits(profileTable[49], ProtLevel[49][1])
  <2>1. profileTable[49] = <<224, 5, 12, 22, 131, 3, 8, 6, 2, 6>>  BY SMT DEF profileTable
  <2>2. ProtLevel[49][1] = 116  BY SMT DEF ProtLevel
  <2>3. RowFits(<<224, 5, 12, 22, 131, 3, 8, 6, 2, 6>>, 116)  BY SMT DEF RowFits
  <2> QED BY <2>1, <2>2, <2>3
<1>50. RowFits(profileTable[50], ProtLevel[50][1])
  <2>1. profileTable[50] = <<224, 4, 12, 26, 127, 3, 12, 8, 4, 11>>  BY SMT DEF profileTable
  <2>2. ProtLevel[50][1] = 140  BY SMT DEF ProtLevel
  <2>3. RowFits(<<224, 4, 12, 26, 127, 3, 12, 8, 4, 11>>, 140)  BY SMT DEF RowFits
  <2> QED BY <2>1, <2>2, <2>3
<1>51. RowFits(profileTable[51], ProtLevel[51][1])
  <2>1. profileTable[51] = <<224, 3, 11, 20, 134, 3, 16, 10, 7, 9>>  BY SMT DEF profileTable
  <2>2. ProtLevel[51][1] = 168  BY SMT DEF ProtLevel
  <2>3. RowFits(<<224, 3, 11, 20, 134, 3, 16, 10, 7, 9>>, 168)  BY SMT DEF RowFits
  <2> QED BY <2>1, <2>2, <2>3
<1>52. RowFits(profileTable[52], ProtLevel[52][1])
  <2>1. profileTable[52] = <<224, 2, 11, 22, 132, 3, 24, 16, 10, 15>>  BY SMT DEF profileTable
  <2>2. ProtLevel[52][1] = 208  BY SMT DEF ProtLevel
  <2>3. RowFits(<<224, 2, 11, 22, 132, 3, 24, 16, 10, 15>>, 208)  BY SMT DEF RowFits
  <2> QED BY <2>1, <2>2, <2>3
<1>53. RowFits(profileTable[53], ProtLevel[53][1])
  <2>1. profileTable[53] = <<224, 1, 11, 24, 130, 3, 24, 20, 12, 20>>  BY SMT DEF profileTable
  <2>2. ProtLevel[53][1] = 232  BY SMT DEF ProtLevel
  <2>3. RowFits(<<224, 1, 11, 24, 130, 3, 24, 20, 12, 20>>, 232)  BY SMT DEF RowFits
  <2> QED BY <2>1, <2>2, <2>3
<1>54. RowFits(profileTable[54], ProtLevel[54][1])
  <2>1. profileTable[54] = <<256, 5, 11, 24, 154, 3, 6, 5, 2, 5>>  BY SMT DEF profileTable
  <2>2. ProtLevel[54][1] = 128  BY SMT DEF ProtLevel
  <2>3. RowFits(<<256, 5, 11, 24, 154, 3, 6, 5, 2, 5>>, 128)  BY SMT DEF RowFits
  <2> QED BY <2>1, <2>2, <2>3
<1>55. RowFits(profileTable[55], ProtLevel[55][1])
  <2>1. profileTable[55] = <<256, 4, 11, 24, 154, 3, 12, 9, 5, 10>>  BY SMT DEF profileTable
  <2>2. ProtLevel[55][1] = 168  BY SMT DEF ProtLevel
  <2>3. RowFits(<<256, 4, 11, 24, 154, 3, 12, 9, 5, 10>>, 168)  BY SMT DEF RowFits
  <2> QED BY <2>1, <2>2, <2>3
<1>56. RowFits(profileTable[56], ProtLevel[56][1])
  <2>1. profileTable[56] = <<256, 3, 11, 27, 151, 3, 16, 10, 7, 10>>  BY SMT DEF profileTable
  <2>2. ProtLevel[56][1] = 192  BY SMT DEF ProtLevel
  <2>3. RowFits(<<256, 3, 11, 27, 151, 3, 16, 10, 7, 10>>, 192)  BY SMT DEF RowFits
  <2> QED BY <2>1, <2>2, <2>3
<1>57. RowFits(profileTable[57], ProtLevel[57][1])
  <2>1. profileTable[57] = <<256, 2, 11, 22, 156, 3, 24, 14, 10, 13>>  BY SMT DEF profileTable
  <2>2. ProtLevel[57][1] = 232  BY SMT DEF ProtLevel
  <2>3. RowFits(<<256, 2, 11, 22, 156, 3, 24, 14, 10, 13>>, 232)  BY SMT DEF RowFits
  <2> QED BY <2>1, <2>2, <2>3
<1>58. RowFits(profileTable[58], ProtLevel[58][1])
  <2>1. profileTable[58] = <<256, 1, 11, 26, 152, 3, 24, 19, 14, 18>>  BY SMT DEF profileTable
  <2>2. ProtLevel[58][1] = 280  BY SMT DEF ProtLevel
  <2>3. RowFits(<<256, 1, 11, 26, 152, 3, 24, 19, 14, 18>>, 280)  BY SMT DEF RowFits
  <2> QED BY <2>1, <2>2, <2>3
<1>59. RowFits(profileTable[59], ProtLevel[59][1])
  <2>1. profileTable[59] = <<320, 5, 11, 26, 200, 3, 8, 5, 2, 6>>  BY SMT DEF profileTable
  <2>2. ProtLevel[59][1] = 160  BY SMT DEF ProtLevel
  <2>3. RowFits(<<320, 5, 11, 26, 200, 3, 8, 5, 2, 6>>, 160)  BY SMT DEF RowFits
  <2> QED BY <2>1, <2>2, <2>3
<1>60. RowFits(profileTable[60], ProtLevel[60][1])
  <2>1. profileTable[60] = <<320, 4, 11, 25, 201, 3, 13, 9, 5, 10>>  BY SMT DEF profileTable
  <2>2. ProtLevel[60][1] = 208  BY SMT DEF ProtLevel
  <2>3. RowFits(<<320, 4, 11, 25, 201, 3, 13, 9, 5, 10>>, 208)  BY SMT DEF RowFits
  <2> QED BY <2>1, <2>2, <2>3
<1>61. RowFits(profileTable[61], ProtLevel[61][1])
  <2>1. profileTable[61] = <<320, 2, 11, 26, 200, 3, 24, 17, 9, 17>>  BY SMT DEF profileTable
  <2>2. ProtLevel[61][1] = 280  BY SMT DEF ProtLevel
  <2>3. RowFits(<<320, 2, 11, 26, 200, 3, 24, 17, 9, 17>>, 280)  BY SMT DEF RowFits
  <2> QED BY <2>1, <2>2, <2>3
<1>62. RowFits(profileTable[62], ProtLevel[62][1])
  <2>1. profileTable[62] = <<384, 5, 11, 27, 247, 3, 8, 6, 2, 7>>  BY SMT DEF profileTable
  <2>2. ProtLevel[62][1] = 192  BY SMT DEF ProtLevel
  <2>3. RowFits(<<384, 5, 11, 27, 247, 3, 8, 6, 2, 7>>, 192)  BY SMT DEF RowFits
  <2> QED BY <2>1, <2>2, <2>3
<1>63. RowFits(profileTable[63], ProtLevel[63][1])
  <2>1. profileTable[63] = <<384, 3, 11, 24, 250, 3, 16, 9, 7, 10>>  BY SMT DEF profileTable
  <2>2. ProtLevel[63][1] = 280  BY SMT DEF ProtLevel
  <2>3. RowFits(<<384, 3, 11, 24, 250, 3, 16, 9, 7, 10>>, 280)  BY SMT DEF RowFits
  <2> QED BY <2>1, <2>2, <2>3
<1>64. RowFits(profileTable[64], ProtLevel[64][1])
  <2>1. profileTable[64] = <<384, 1, 12, 28, 245, 3, 24, 20, 14, 23>>  BY SMT DEF profileTable
  <2>2. ProtLevel[64][1] = 416  BY SMT DEF ProtLevel
  <2>3. RowFits(<<384, 1, 12, 28, 245, 3, 24, 20, 14, 23>>, 416)  BY SMT DEF RowFits
  <2> QED BY <2>1, <2>2, <2>3
<1>65. \A i \in 1 .. 8 : RowFits(profileTable[i], ProtLevel[i][1])
  BY <1>1, <1>2, <1>3, <1>4, <1>5, <1>6, <1>7, <1>8
<1>66. \A i \in 9 .. 16 : RowFits(profileTable[i], ProtLevel[i][1])
  BY <1>9, <1>10, <1>11, <1>12, <1>13, <1>14, <1>15, <1>16
<1>67. \A i \in 17 .. 24 : RowFits(profileTable[i], ProtLevel[i][1])
  BY <1>17, <1>18, <1>19, <1>20, <1>21, <1>22, <1>23, <1>24
<1>68. \A i \in 25 .. 32 : RowFits(profileTable[i], ProtLevel[i][1])
  BY <1>25, <1>26, <1>27, <1>28, <1>29, <1>30, <1>31, <1>32
<1>69. \A i \in 33 .. 40 : RowFits(profileTable[i], ProtLevel[i][1])
  BY <1>33, <1>34, <1>35, <1>36, <1>37, <1>38, <1>39, <1>40
<1>70. \A i \in 41 .. 48 : RowFits(profileTable[i], ProtLevel[i][1])
  BY <1>41, <1>42, <1>43, <1>44, <1>45, <1>46, <1>47, <1>48
<1>71. \A i \in 49 .. 56 : RowFits(profileTable[i], ProtLevel[i][1])
  BY <1>49, <1>50, <1>51, <1>52, <1>53, <1>54, <1>55, <1>56
<1>72. \A i \in 57 .. 64 : RowFits(profileTable[i], ProtLevel[i][1])
  BY <1>57, <1>58, <1>59, <1>60, <1>61, <1>62, <1>63, <1>64
<1>73. ASSUME NEW i \in 1 .. 64 PROVE RowFits(profileTable[i], ProtLevel[i][1])
  <2>1. i \in 1 .. 8 \/ i \in 9 .. 16 \/ i \in 17 .. 24 \/ i \in 25 .. 32
        \/ i \in 33 .. 40 \/ i \in 41 .. 48 \/ i \in 49 .. 56 \/ i \in 57 .. 64
    OBVIOUS
  <2>2. CASE i \in 1 .. 8  BY <1>65, <2>2
  <2>3. CASE i \in 9 .. 16  BY <1>66, <2>3
  <2>4. CASE i \in 17 .. 24  BY <1>67, <2>4
  <2>5. CASE i \in 25 .. 32  BY <1>68, <2>5
  <2>6. CASE i \in 33 .. 40  BY <1>69, <2>6
  <2>7. CASE i \in 41 .. 48  BY <1>70, <2>7
  <2>8. CASE i \in 49 .. 56  BY <1>71, <2>8
  <2>9. CASE i \in 57 .. 64  BY <1>72, <2>9
  <2> QED BY <2>1, <2>2, <2>3, <2>4, <2>5, <2>6, <2>7, <2>8, <2>9
<1> QED BY <1>73

\* What FragmentFits says, of a description.
Fits(d) ==
  LET rest == 64 * d.Length - Deconvolver(d).taken IN
  /\ Deconvolver(d).written = Deconvolver(d).size
  /\ ~d.shortForm => rest = 0
  /\ d.shortForm => rest \in (IF d.bitRate = 80 /\ d.protLevel = 1 THEN {404} ELSE {0, 4, 8})

LEMMA ShortFits == ASSUME NEW i \in 0 .. 63 PROVE Fits(ShortForm(i))
<1> DEFINE d == ShortForm(i)
           row == profileTable[i + 1]
           p == uep_protection(d.bitRate, d.protLevel)
<1>1. i + 1 \in 1 .. 64
  OBVIOUS
<1>2. /\ d.shortForm /\ d.Length = ProtLevel[i + 1][1]
      /\ d.protLevel = ProtLevel[i + 1][2] /\ d.bitRate = ProtLevel[i + 1][3]
  BY DEF ShortForm
<1> HIDE DEF d
<1>3. p = [k \in 1 .. 4 |-> [blocks |-> row[2 + k], PI |-> row[6 + k]]]
  BY <1>1, <1>2, RowFound DEF uep_protection, Blocks
<1> HIDE DEF p
<1>4. \A k \in 1 .. 10 : row[k] \in Int
  BY <1>1, RowNumbers
<1>5. RowFits(row, d.Length) /\ row[1] = d.bitRate /\ row[2] = d.protLevel
  BY <1>1, <1>2, EachRowFits, TablesAgree
<1> HIDE DEF row
<1>6. p \in Profile /\ Len(p) = 4
  <2>1. \A k \in 1 .. 4 : [blocks |-> row[2 + k], PI |-> row[6 + k]] \in SomeBlocks
    BY <1>4 DEF SomeBlocks
  <2> QED BY <1>3, <2>1 DEF Profile
<1>7. /\ p[1] = [blocks |-> row[3], PI |-> row[7]] /\ p[2] = [blocks |-> row[4], PI |-> row[8]]
      /\ p[3] = [blocks |-> row[5], PI |-> row[9]] /\ p[4] = [blocks |-> row[6], PI |-> row[10]]
  BY <1>3
<1>8. /\ Deconvolver(d).size = 96 * d.bitRate + 24
      /\ Deconvolver(d).written = Written(p[1]) + Written(p[2]) + Written(p[3]) + Written(p[4]) + 24
      /\ Deconvolver(d).taken = Taken(p[1]) + Taken(p[2]) + Taken(p[3]) + Taken(p[4]) + 12
  BY <1>2, <1>6, ProfileBits DEF p
<1> DEFINE more(k) == IF row[2 + k] > 0 THEN row[2 + k] ELSE 0
<1>9. /\ Written(p[1]) = 128 * more(1) /\ Written(p[2]) = 128 * more(2)
      /\ Written(p[3]) = 128 * more(3) /\ Written(p[4]) = 128 * more(4)
  BY <1>7 DEF Written
<1>10. /\ Taken(p[1]) = 4 * (8 + row[7]) * more(1) /\ Taken(p[2]) = 4 * (8 + row[8]) * more(2)
       /\ Taken(p[3]) = 4 * (8 + row[9]) * more(3) /\ Taken(p[4]) = 4 * (8 + row[10]) * more(4)
  BY <1>4, <1>7 DEF Taken
<1>11. /\ more(1) \in Int /\ more(2) \in Int /\ more(3) \in Int /\ more(4) \in Int
       /\ d.bitRate \in Int /\ d.Length \in Int
  <2>1. d.Length \in Int
    <3>1. \A k \in 1 .. 64 : ProtLevel[k][1] \in Int
      BY DEF ProtLevel
    <3> QED BY <1>1, <1>2, <3>1
  <2> QED BY <1>4, <1>5, <2>1
<1>12. /\ 128 * more(1) + 128 * more(2) + 128 * more(3) + 128 * more(4) = 96 * d.bitRate
       /\ LET rest == 64 * d.Length - (4 * (8 + row[7]) * more(1) + 4 * (8 + row[8]) * more(2)
                               + 4 * (8 + row[9]) * more(3) + 4 * (8 + row[10]) * more(4) + 12) IN
          rest \in (IF d.bitRate = 80 /\ d.protLevel = 1 THEN {404} ELSE {0, 4, 8})
  BY <1>5 DEF RowFits
<1>13. Fits(d)
  BY <1>2, <1>8, <1>9, <1>10, <1>12 DEF Fits
<1> QED BY <1>13 DEF d

\* A profile of two kinds of blocks.
LEMMA TwoKinds ==
  ASSUME NEW d, d.shortForm = FALSE, NEW a \in Int, NEW b \in Int, NEW x \in Int, NEW y \in Int,
         a > 0, b > 0, eep_protection(d.bitRate, d.protLevel) = <<Blocks(a, x), Blocks(b, y)>>,
         d.bitRate \in Int, d.Length \in Int,
         128 * (a + b) = 96 * d.bitRate, 64 * d.Length = 4 * (8 + x) * a + 4 * (8 + y) * b + 12
  PROVE  Fits(d)
<1> DEFINE p == <<Blocks(a, x), Blocks(b, y)>>
<1>1. p \in Profile /\ Len(p) = 2 /\ p[1] = [blocks |-> a, PI |-> x] /\ p[2] = [blocks |-> b, PI |-> y]
  BY DEF Profile, SomeBlocks, Blocks
<1>2. p = eep_protection(d.bitRate, d.protLevel)
  OBVIOUS
<1> HIDE DEF p
<1>3. /\ Deconvolver(d).size = 96 * d.bitRate + 24
      /\ Deconvolver(d).written = Written(p[1]) + Written(p[2]) + 24
      /\ Deconvolver(d).taken = Taken(p[1]) + Taken(p[2]) + 12
  BY <1>1, <1>2, ProfileBits
<1>4. /\ Written(p[1]) = 128 * a /\ Written(p[2]) = 128 * b
      /\ Taken(p[1]) = 4 * (8 + x) * a /\ Taken(p[2]) = 4 * (8 + y) * b
  BY <1>1 DEF Written, Taken
<1>5. Deconvolver(d).written = Deconvolver(d).size
  BY <1>3, <1>4
<1>6. 64 * d.Length - Deconvolver(d).taken = 0
  BY <1>3, <1>4
<1> QED BY <1>5, <1>6 DEF Fits

LEMMA LongFits ==
  ASSUME NEW option \in {0, 1}, NEW level \in 0 .. 3, NEW size \in 1 .. 864,
         size % (IF option = 0 THEN table_1 ELSE table_2)[level + 1] = 0
  PROVE  Fits(LongForm(option, level, size))
<1> DEFINE d == LongForm(option, level, size)
<1> SUFFICES Fits(d)
  OBVIOUS
<1>1. /\ d.shortForm = FALSE /\ d.Length = size /\ d.protLevel = level + 4 * option
      /\ d.bitRate = IF option = 0 THEN (size \div table_1[level + 1]) * 8
                                   ELSE (size \div table_2[level + 1]) * 32
  BY DEF LongForm
<1> HIDE DEF d
<1>2. CASE option = 0 /\ level = 0
  <2> DEFINE n == size \div 12
  <2>1. n \in Nat /\ size = 12 * n /\ n >= 1 /\ d.bitRate = 8 * n /\ d.protLevel = 0
    BY <1>1, <1>2 DEF table_1
  <2> HIDE DEF n
  <2> DEFINE a == 6 * n - 3
           b == 3
  <2>2. eep_protection(d.bitRate, d.protLevel) = <<Blocks(a, 24), Blocks(b, 23)>>
    BY <2>1 DEF eep_protection
  <2>3. /\ a \in Int /\ b \in Int /\ a > 0 /\ b > 0 /\ 128 * (a + b) = 96 * d.bitRate
        /\ 64 * d.Length = 4 * (8 + 24) * a + 4 * (8 + 23) * b + 12
        /\ d.bitRate \in Int /\ d.Length \in Int /\ 24 \in Int /\ 23 \in Int
    BY <1>1, <2>1
  <2> HIDE DEF a, b
  <2> QED BY <1>1, <2>2, <2>3, TwoKinds, Zenon
<1>3. CASE option = 0 /\ level = 1
  <2> DEFINE n == size \div 8
  <2>1. n \in Nat /\ size = 8 * n /\ n >= 1 /\ d.bitRate = 8 * n /\ d.protLevel = 1
    BY <1>1, <1>3 DEF table_1
  <2> HIDE DEF n
  <2>2. CASE n = 1
    <3> DEFINE a == 5
             b == 1
    <3>1. eep_protection(d.bitRate, d.protLevel) = <<Blocks(a, 13), Blocks(b, 12)>>
      BY <2>1, <2>2 DEF eep_protection
    <3>2. /\ a \in Int /\ b \in Int /\ a > 0 /\ b > 0 /\ 128 * (a + b) = 96 * d.bitRate
          /\ 64 * d.Length = 4 * (8 + 13) * a + 4 * (8 + 12) * b + 12
          /\ d.bitRate \in Int /\ d.Length \in Int /\ 13 \in Int /\ 12 \in Int
      BY <1>1, <2>1, <2>2
    <3> HIDE DEF a, b
    <3> QED BY <1>1, <3>1, <3>2, TwoKinds, Zenon
  <2>3. CASE n # 1
    <3> DEFINE a == 2 * n - 3
             b == 4 * n + 3
    <3>1. eep_protection(d.bitRate, d.protLevel) = <<Blocks(a, 14), Blocks(b, 13)>>
      BY <2>1, <2>3 DEF eep_protection
    <3>2. /\ a \in Int /\ b \in Int /\ a > 0 /\ b > 0 /\ 128 * (a + b) = 96 * d.bitRate
          /\ 64 * d.Length = 4 * (8 + 14) * a + 4 * (8 + 13) * b + 12
          /\ d.bitRate \in Int /\ d.Length \in Int /\ 14 \in Int /\ 13 \in Int
      BY <1>1, <2>1, <2>3
    <3> HIDE DEF a, b
    <3> QED BY <1>1, <3>1, <3>2, TwoKinds, Zenon
  <2> QED BY <2>2, <2>3
<1>4. CASE option = 0 /\ level = 2
  <2> DEFINE n == size \div 6
  <2>1. n \in Nat /\ size = 6 * n /\ n >= 1 /\ d.bitRate = 8 * n /\ d.protLevel = 2
    BY <1>1, <1>4 DEF table_1
  <2> HIDE DEF n
  <2> DEFINE a == 6 * n - 3
           b == 3
  <2>2. eep_protection(d.bitRate, d.protLevel) = <<Blocks(a, 8), Blocks(b, 7)>>
    BY <2>1 DEF eep_protection
  <2>3. /\ a \in Int /\ b \in Int /\ a > 0 /\ b > 0 /\ 128 * (a + b) = 96 * d.bitRate
        /\ 64 * d.Length = 4 * (8 + 8) * a + 4 * (8 + 7) * b + 12
        /\ d.bitRate \in Int /\ d.Length \in Int /\ 8 \in Int /\ 7 \in Int
    BY <1>1, <2>1
  <2> HIDE DEF a, b
  <2> QED BY <1>1, <2>2, <2>3, TwoKinds, Zenon
<1>5. CASE option = 0 /\ level = 3
  <2> DEFINE n == size \div 4
  <2>1. n \in Nat /\ size = 4 * n /\ n >= 1 /\ d.bitRate = 8 * n /\ d.protLevel = 3
    BY <1>1, <1>5 DEF table_1
  <2> HIDE DEF n
  <2> DEFINE a == 4 * n - 3
           b == 2 * n + 3
  <2>2. eep_protection(d.bitRate, d.protLevel) = <<Blocks(a, 3), Blocks(b, 2)>>
    BY <2>1 DEF eep_protection
  <2>3. /\ a \in Int /\ b \in Int /\ a > 0 /\ b > 0 /\ 128 * (a + b) = 96 * d.bitRate
        /\ 64 * d.Length = 4 * (8 + 3) * a + 4 * (8 + 2) * b + 12
        /\ d.bitRate \in Int /\ d.Length \in Int /\ 3 \in Int /\ 2 \in Int
    BY <1>1, <2>1
  <2> HIDE DEF a, b
  <2> QED BY <1>1, <2>2, <2>3, TwoKinds, Zenon
<1>6. CASE option = 1 /\ level = 0
  <2> DEFINE n == size \div 27
  <2>1. n \in Nat /\ size = 27 * n /\ n >= 1 /\ d.bitRate = 32 * n /\ d.protLevel = 4
    BY <1>1, <1>6 DEF table_2
  <2> HIDE DEF n
  <2> DEFINE a == 24 * n - 3
           b == 3
  <2>2. eep_protection(d.bitRate, d.protLevel) = <<Blocks(a, 10), Blocks(b, 9)>>
    BY <2>1 DEF eep_protection
  <2>3. /\ a \in Int /\ b \in Int /\ a > 0 /\ b > 0 /\ 128 * (a + b) = 96 * d.bitRate
        /\ 64 * d.Length = 4 * (8 + 10) * a + 4 * (8 + 9) * b + 12
        /\ d.bitRate \in Int /\ d.Length \in Int /\ 10 \in Int /\ 9 \in Int
    BY <1>1, <2>1
  <2> HIDE DEF a, b
  <2> QED BY <1>1, <2>2, <2>3, TwoKinds, Zenon
<1>7. CASE option = 1 /\ level = 1
  <2> DEFINE n == size \div 21
  <2>1. n \in Nat /\ size = 21 * n /\ n >= 1 /\ d.bitRate = 32 * n /\ d.protLevel = 5
    BY <1>1, <1>7 DEF table_2
  <2> HIDE DEF n
  <2> DEFINE a == 24 * n - 3
           b == 3
  <2>2. eep_protection(d.bitRate, d.protLevel) = <<Blocks(a, 6), Blocks(b, 5)>>
    BY <2>1 DEF eep_protection
  <2>3. /\ a \in Int /\ b \in Int /\ a > 0 /\ b > 0 /\ 128 * (a + b) = 96 * d.bitRate
        /\ 64 * d.Length = 4 * (8 + 6) * a + 4 * (8 + 5) * b + 12
        /\ d.bitRate \in Int /\ d.Length \in Int /\ 6 \in Int /\ 5 \in Int
    BY <1>1, <2>1
  <2> HIDE DEF a, b
  <2> QED BY <1>1, <2>2, <2>3, TwoKinds, Zenon
<1>8. CASE option = 1 /\ level = 2
  <2> DEFINE n == size \div 18
  <2>1. n \in Nat /\ size = 18 * n /\ n >= 1 /\ d.bitRate = 32 * n /\ d.protLevel = 6
    BY <1>1, <1>8 DEF table_2
  <2> HIDE DEF n
  <2> DEFINE a == 24 * n - 3
           b == 3
  <2>2. eep_protection(d.bitRate, d.protLevel) = <<Blocks(a, 4), Blocks(b, 3)>>
    BY <2>1 DEF eep_protection
  <2>3. /\ a \in Int /\ b \in Int /\ a > 0 /\ b > 0 /\ 128 * (a + b) = 96 * d.bitRate
        /\ 64 * d.Length = 4 * (8 + 4) * a + 4 * (8 + 3) * b + 12
        /\ d.bitRate \in Int /\ d.Length \in Int /\ 4 \in Int /\ 3 \in Int
    BY <1>1, <2>1
  <2> HIDE DEF a, b
  <2> QED BY <1>1, <2>2, <2>3, TwoKinds, Zenon
<1>9. CASE option = 1 /\ level = 3
  <2> DEFINE n == size \div 15
  <2>1. n \in Nat /\ size = 15 * n /\ n >= 1 /\ d.bitRate = 32 * n /\ d.protLevel = 7
    BY <1>1, <1>9 DEF table_2
  <2> HIDE DEF n
  <2> DEFINE a == 24 * n - 3
           b == 3
  <2>2. eep_protection(d.bitRate, d.protLevel) = <<Blocks(a, 2), Blocks(b, 1)>>
    BY <2>1 DEF eep_protection
  <2>3. /\ a \in Int /\ b \in Int /\ a > 0 /\ b > 0 /\ 128 * (a + b) = 96 * d.bitRate
        /\ 64 * d.Length = 4 * (8 + 2) * a + 4 * (8 + 1) * b + 12
        /\ d.bitRate \in Int /\ d.Length \in Int /\ 2 \in Int /\ 1 \in Int
    BY <1>1, <2>1
  <2> HIDE DEF a, b
  <2> QED BY <1>1, <2>2, <2>3, TwoKinds, Zenon
<1>10. (option = 0 \/ option = 1) /\ (level = 0 \/ level = 1 \/ level = 2 \/ level = 3)
  OBVIOUS
<1> QED
  BY <1>2, <1>3, <1>4, <1>5, <1>6, <1>7, <1>8, <1>9, <1>10, Zenon

\* The fragment of the FIC, to begin with; then that of a subchannel.
SubchannelInv == line = "subchannels" => FragmentFits

LEMMA SubchannelInit == ASSUME Init PROVE SubchannelInv
<1> SUFFICES ASSUME line = "subchannels" PROVE FragmentFits
  BY DEF SubchannelInv
<1>1. coding = [Length |-> 36, shortForm |-> FALSE, protLevel |-> 0,
                bitRate |-> 32, indexTable |-> FicDeconvolver]
  BY DEF Init, theCoding, CodingInit, CodingLine, CUSize
<1> QED BY <1>1 DEF FragmentFits, Rest, FicDeconvolver, CUSize, TailBits, TailOnes, OnesOf

LEMMA SubchannelStep == ASSUME SubchannelInv, [Next]_vars PROVE SubchannelInv'
<1> SUFFICES ASSUME line = "subchannels", FragmentFits PROVE FragmentFits'
  BY LineStays DEF SubchannelInv
<1>1. CASE UNCHANGED vars
  BY <1>1 DEF vars, FragmentFits, Rest, Misprinted
<1>2. CASE Coding
  <2>1. SubChannelSelected
    BY <1>2 DEF Coding, CodingNext
  <2>2. PICK d \in {ShortForm(i) : i \in 0 .. 63} \union LongForms :
          coding' = [Length |-> d.Length, shortForm |-> d.shortForm, protLevel |-> d.protLevel,
                     bitRate |-> d.bitRate, indexTable |-> Deconvolver(d)]
    BY <2>1 DEF SubChannelSelected
  <2>3. Fits(d)
    <3>1. CASE d \in {ShortForm(i) : i \in 0 .. 63}
      BY <3>1, ShortFits
    <3>2. CASE d \in LongForms
      <4>1. PICK x \in {y \in {0, 1} \X (0 .. 3) \X (1 .. 864) :
                          y[3] % (IF y[1] = 0 THEN table_1 ELSE table_2)[y[2] + 1] = 0} :
              d = LongForm(x[1], x[2], x[3])
        BY <3>2 DEF LongForms
      <4>2. /\ x[1] \in {0, 1} /\ x[2] \in 0 .. 3 /\ x[3] \in 1 .. 864
            /\ x[3] % (IF x[1] = 0 THEN table_1 ELSE table_2)[x[2] + 1] = 0
        OBVIOUS
      <4> DEFINE o == x[1]
                 l == x[2]
                 n == x[3]
      <4> HIDE DEF o, l, n
      <4>3. o \in {0, 1} /\ l \in 0 .. 3 /\ n \in 1 .. 864
              /\ n % (IF o = 0 THEN table_1 ELSE table_2)[l + 1] = 0
        BY <4>2 DEF o, l, n
      <4>4. Fits(LongForm(o, l, n))
        BY <4>3, LongFits
      <4> QED BY <4>1, <4>4 DEF o, l, n
    <3> QED BY <2>2, <3>1, <3>2
  <2>4. /\ coding'.Length = d.Length /\ coding'.shortForm = d.shortForm
        /\ coding'.protLevel = d.protLevel /\ coding'.bitRate = d.bitRate
        /\ coding'.indexTable = Deconvolver(d)
    BY <2>2, Zenon
  <2>5. /\ coding'.indexTable.written = coding'.indexTable.size
        /\ LET rest == coding'.Length * 64 - coding'.indexTable.taken IN
           /\ ~d.shortForm => rest = 0
           /\ d.shortForm => rest \in (IF d.bitRate = 80 /\ d.protLevel = 1 THEN {404} ELSE {0, 4, 8})
    <3>1. d.Length \in Int
      <4>1. CASE d \in {ShortForm(i) : i \in 0 .. 63}
        <5>1. \A i \in 0 .. 63 : ProtLevel[i + 1][1] \in Int
          BY DEF ProtLevel
        <5> QED BY <4>1, <5>1 DEF ShortForm
      <4>2. CASE d \in LongForms
        BY <4>2 DEF LongForms, LongForm
      <4> QED BY <2>2, <4>1, <4>2
    <3>2. 64 * d.Length = d.Length * 64
      BY <3>1
    <3> QED BY <2>3, <2>4, <3>2 DEF Fits
  <2>6. (coding'.shortForm /\ coding'.bitRate = 80 /\ coding'.protLevel = 1)
          <=> (d.shortForm /\ d.bitRate = 80 /\ d.protLevel = 1)
    BY <2>4, Zenon
  <2>7. /\ ~coding'.shortForm => Rest' = 0
        /\ coding'.shortForm => Rest' \in (IF Misprinted' THEN {404} ELSE {0, 4, 8})
    BY <2>4, <2>5, <2>6 DEF Rest, Misprinted, CUSize
  <2> QED BY <2>5, <2>7 DEF FragmentFits, Padding
<1>3. CASE CodingLoss \/ SelectAgain
  BY <1>3 DEF CodingLoss, SelectAgain
<1> QED BY <1>1, <1>2, <1>3, CodingActions DEF CodingLine

\* Together: what is deconvolved is one logical frame in the order of its bits, and the
\* puncturing (eep_protection, uep_protection) takes as many bits as the subchannel has:
\* in the long form exactly, in 63 of the 64 short forms but for 0, 4 or 8 bits of
\* padding.  Of the other one, 80 kbit/s at level 1, it leaves 404 bits: what the code
\* does, not what the standard has.
THEOREM BitsDeconvolved == Spec => []BitsInPlace
<1>1. Init => CifInv /\ FicInv /\ SubchannelInv
  BY CifInit, FicInit, SubchannelInit
<1>2. CifInv /\ FicInv /\ SubchannelInv /\ [Next]_vars => (CifInv /\ FicInv /\ SubchannelInv)'
  BY CifStep, FicStep, SubchannelStep
<1>3. CifInv /\ FicInv /\ SubchannelInv => BitsInPlace
  BY CifFrames, FicPlaces DEF SubchannelInv, BitsInPlace
<1> QED BY <1>1, <1>2, <1>3, PTL DEF Spec

-----------------------------------------------------------------------------
(* Superframes: the ring of frameBytes, read from the slot that is filled  *)
(* next, is what came last.                                                *)

PartSent == [superframe : 0 .. 2, part : 0 .. Parts - 1, condition : Condition]

Mp4State == [frameBytes : [0 .. Parts - 1 -> PartSent], blockFillIndex : 0 .. Parts - 1, processed : BOOLEAN]

Ahead(x) == IF x < Parts THEN x ELSE x - Parts

LEMMA AheadIs ==
  ASSUME NEW x \in 0 .. 2 * Parts - 1
  PROVE  x % Parts = Ahead(x) /\ Ahead(x) \in 0 .. Parts - 1
BY AudioAssumption DEF AudioAssumption, Ahead

LEMMA AheadSteps ==
  ASSUME NEW b \in 0 .. Parts - 1
  PROVE  /\ Ahead(b + 1) \in 0 .. Parts - 1
         /\ \A i \in 0 .. Parts - 1 :
              /\ Ahead(b + i) \in 0 .. Parts - 1
              /\ i = Parts - 1 => Ahead(Ahead(b + 1) + i) = b
              /\ i # Parts - 1 => /\ Ahead(Ahead(b + 1) + i) = Ahead(b + (i + 1))
                                 /\ Ahead(b + (i + 1)) # b
                                 /\ Ahead(b + (i + 1)) \in 0 .. Parts - 1
BY AudioAssumption DEF AudioAssumption, Ahead

\* The ring from slot b on is r.
ReadsAs(bytes, b, r) == \A i \in 0 .. Parts - 1 : bytes[Ahead(b + i)] = r[i + 1]

WholeNow(r) ==
  \A i \in 1 .. Parts :
    /\ r[i].superframe = r[1].superframe /\ r[i].part = i - 1
    /\ r[i].condition # "spoilt" /\ r[i] # Zero

Mp4OK(m, f) ==
  /\ m \in Mp4State
  /\ f \in [superframe : {0, 1}, part : 0 .. Parts - 1, recent : Seq(PartSent)]
  /\ Len(f.recent) = Parts
  /\ ReadsAs(m.frameBytes, m.blockFillIndex, f.recent)
  /\ m.processed => WholeNow(f.recent)
  /\ WholeNow(f.recent) /\ f.recent[1].condition = "good" => m.processed

SuperframeInv == line = "superframes" => Mp4OK(audio, frames)

LEMMA ZeroPart == Zero \in PartSent /\ 0 \in 0 .. Parts - 1 /\ Parts \in Nat /\ Parts >= 2
BY AudioAssumption DEF AudioAssumption, Zero, PartSent, Condition

LEMMA NothingRecent ==
  /\ Recent0 \in Seq(PartSent) /\ Len(Recent0) = Parts
  /\ ~WholeNow(Recent0)
  /\ mp4Processor \in Mp4State
  /\ ReadsAs(mp4Processor.frameBytes, mp4Processor.blockFillIndex, Recent0)
  /\ ~mp4Processor.processed
<1>1. Recent0 \in Seq(PartSent) /\ Len(Recent0) = Parts /\ \A i \in 1 .. Parts : Recent0[i] = Zero
  BY ZeroPart DEF Recent0
<1>2. ~WholeNow(Recent0)
  BY <1>1, ZeroPart DEF WholeNow
<1>3. mp4Processor \in Mp4State
  <2>1. [i \in 0 .. Parts - 1 |-> Zero] \in [0 .. Parts - 1 -> PartSent]
    BY ZeroPart
  <2> QED BY <2>1, ZeroPart DEF Mp4State, mp4Processor
<1>4. /\ mp4Processor.frameBytes = [i \in 0 .. Parts - 1 |-> Zero] /\ mp4Processor.blockFillIndex = 0
      /\ ~mp4Processor.processed
  BY DEF mp4Processor
<1>5. \A i \in 0 .. Parts - 1 : Ahead(0 + i) = i
  BY ZeroPart DEF Ahead
<1>6. ReadsAs(mp4Processor.frameBytes, mp4Processor.blockFillIndex, Recent0)
  BY <1>1, <1>4, <1>5, ZeroPart DEF ReadsAs
<1> QED BY <1>1, <1>2, <1>3, <1>4, <1>6

Filled(m, x) == [m.frameBytes EXCEPT ![m.blockFillIndex] = x]

NextSlot(m) == Ahead(m.blockFillIndex + 1)

Later(r, x) == Append(Tail(r), x)

\* The oldest part goes, the new one comes.
LEMMA RingMoves ==
  ASSUME NEW m \in Mp4State, NEW r \in Seq(PartSent), Len(r) = Parts, NEW x \in PartSent,
         ReadsAs(m.frameBytes, m.blockFillIndex, r)
  PROVE  /\ Later(r, x) \in Seq(PartSent) /\ Len(Later(r, x)) = Parts /\ NextSlot(m) \in 0 .. Parts - 1
         /\ Filled(m, x) \in [0 .. Parts - 1 -> PartSent]
         /\ ReadsAs(Filled(m, x), NextSlot(m), Later(r, x))
<1> DEFINE bytes == Filled(m, x)
           base == NextSlot(m)
           s == Later(r, x)
<1>0. /\ bytes = [m.frameBytes EXCEPT ![m.blockFillIndex] = x]
      /\ base = Ahead(m.blockFillIndex + 1) /\ s = Append(Tail(r), x)
  BY DEF Filled, NextSlot, Later
<1> HIDE DEF bytes, base, s
<1>1. Parts \in Nat /\ Parts >= 2 /\ m.blockFillIndex \in 0 .. Parts - 1
        /\ m.frameBytes \in [0 .. Parts - 1 -> PartSent]
  BY ZeroPart DEF Mp4State
<1>2. /\ s \in Seq(PartSent) /\ Len(s) = Parts /\ s[Parts] = x
      /\ \A i \in 1 .. Parts - 1 : s[i] = r[i + 1]
  BY <1>0, <1>1
<1>3. base \in 0 .. Parts - 1
  BY <1>0, <1>1, AheadSteps
<1>4. bytes \in [0 .. Parts - 1 -> PartSent]
  BY <1>0, <1>1
<1>5. ASSUME NEW i \in 0 .. Parts - 1 PROVE bytes[Ahead(base + i)] = s[i + 1]
  <2>1. CASE i = Parts - 1
    <3>1. Ahead(base + i) = m.blockFillIndex
      BY <1>0, <1>1, <2>1, AheadSteps
    <3> QED BY <1>0, <1>1, <1>2, <2>1, <3>1
  <2>2. CASE i # Parts - 1
    <3>1. /\ Ahead(base + i) = Ahead(m.blockFillIndex + (i + 1)) /\ Ahead(base + i) # m.blockFillIndex
          /\ Ahead(base + i) \in 0 .. Parts - 1 /\ i + 1 \in 0 .. Parts - 1 /\ i + 1 \in 1 .. Parts - 1
      <4> DEFINE b == m.blockFillIndex
      <4>1. i + 1 \in 0 .. Parts - 1 /\ i + 1 \in 1 .. Parts - 1
        BY <1>1, <2>2
      <4>2. b \in 0 .. Parts - 1 /\ base = Ahead(b + 1)
        BY <1>0, <1>1
      <4> HIDE DEF b
      <4>3. /\ Ahead(Ahead(b + 1) + i) = Ahead(b + (i + 1)) /\ Ahead(b + (i + 1)) # b
            /\ Ahead(b + (i + 1)) \in 0 .. Parts - 1
        BY <4>2, <2>2, AheadSteps
      <4> QED BY <4>1, <4>2, <4>3 DEF b
    <3>2. bytes[Ahead(base + i)] = m.frameBytes[Ahead(m.blockFillIndex + (i + 1))]
      BY <1>0, <1>1, <3>1
    <3>3. m.frameBytes[Ahead(m.blockFillIndex + (i + 1))] = r[(i + 1) + 1]
      BY <3>1 DEF ReadsAs
    <3>4. s[i + 1] = r[(i + 1) + 1]
      BY <1>2, <3>1
    <3> QED BY <3>2, <3>3, <3>4
  <2> QED BY <2>1, <2>2
<1> QED BY <1>2, <1>3, <1>4, <1>5 DEF ReadsAs, bytes, base, s

\* What is in the ring from the slot that is next can be decoded when it is whole.
LEMMA DecodableIs ==
  ASSUME NEW bytes \in [0 .. Parts - 1 -> PartSent], NEW base \in 0 .. Parts - 1, NEW s,
         ReadsAs(bytes, base, s)
  PROVE  Decodable(bytes, base) <=> WholeNow(s)
<1>1. Parts \in Nat /\ Parts >= 2
  BY ZeroPart
<1>2. ASSUME NEW i \in 0 .. Parts - 1 PROVE bytes[(base + i) % Parts] = s[i + 1]
  <2>1. base + i \in 0 .. 2 * Parts - 1
    BY <1>1
  <2> QED BY <2>1, AheadIs DEF ReadsAs
<1>3. bytes[base] = s[1]
  <2>1. 0 \in 0 .. Parts - 1 /\ Ahead(base + 0) = base /\ 0 + 1 = 1
    BY <1>1 DEF Ahead
  <2> QED BY <2>1 DEF ReadsAs
<1>4. ASSUME Decodable(bytes, base) PROVE WholeNow(s)
  <2> SUFFICES ASSUME NEW i \in 1 .. Parts
               PROVE  /\ s[i].superframe = s[1].superframe /\ s[i].part = i - 1
                      /\ s[i].condition # "spoilt" /\ s[i] # Zero
    BY DEF WholeNow
  <2>1. i - 1 \in 0 .. Parts - 1 /\ (i - 1) + 1 = i
    BY <1>1
  <2>2. bytes[(base + (i - 1)) % Parts] = s[i]
    BY <1>2, <2>1
  <2> QED BY <1>3, <1>4, <2>1, <2>2 DEF Decodable
<1>5. ASSUME WholeNow(s) PROVE Decodable(bytes, base)
  <2> SUFFICES ASSUME NEW i \in 0 .. Parts - 1
               PROVE  LET slot == bytes[(base + i) % Parts] IN
                      /\ slot.part = i /\ slot.condition # "spoilt"
                      /\ slot.superframe = bytes[base].superframe /\ slot # Zero
    BY DEF Decodable
  <2>1. i + 1 \in 1 .. Parts /\ (i + 1) - 1 = i
    BY <1>1
  <2>2. bytes[(base + i) % Parts] = s[i + 1]
    BY <1>2
  <2> QED BY <1>3, <1>5, <2>1, <2>2 DEF WholeNow
<1> QED BY <1>4, <1>5

LEMMA PartTaken ==
  ASSUME NEW m, NEW f, Mp4OK(m, f), NEW c \in Condition, NEW accident \in BOOLEAN,
         NEW x, x = [superframe |-> f.superframe, part |-> f.part, condition |-> c],
         NEW g, g = [superframe |-> IF f.part = Parts - 1 THEN 1 - f.superframe ELSE f.superframe,
                     part |-> (f.part + 1) % Parts, recent |-> Append(Tail(f.recent), x)]
  PROVE  Mp4OK(addtoFrame(m, x, accident), g)
<1> DEFINE bytes == Filled(m, x)
           base == NextSlot(m)
           s == Later(f.recent, x)
           right == FireCodeRight(bytes[base], accident) /\ Decodable(bytes, base)
           n == addtoFrame(m, x, accident)
<1>1. /\ m \in Mp4State /\ f.superframe \in {0, 1} /\ f.part \in 0 .. Parts - 1
      /\ f.recent \in Seq(PartSent) /\ Len(f.recent) = Parts
      /\ ReadsAs(m.frameBytes, m.blockFillIndex, f.recent)
  BY DEF Mp4OK
<1>2. x \in PartSent
  BY <1>1 DEF PartSent
<1>3. m.blockFillIndex \in 0 .. Parts - 1 /\ Parts \in Nat /\ Parts >= 2
  BY <1>1, ZeroPart DEF Mp4State
<1>4. (m.blockFillIndex + 1) % Parts = base /\ (f.part + 1) % Parts \in 0 .. Parts - 1
  <2>1. m.blockFillIndex + 1 \in 0 .. 2 * Parts - 1 /\ f.part + 1 \in 0 .. 2 * Parts - 1
    BY <1>1, <1>3
  <2> QED BY <2>1, AheadIs DEF NextSlot
<1>5. n = [frameBytes |-> bytes, blockFillIndex |-> base, processed |-> right]
  BY <1>4 DEF addtoFrame, Filled
<1> HIDE DEF bytes, base, s
<1>6. /\ s \in Seq(PartSent) /\ Len(s) = Parts /\ base \in 0 .. Parts - 1
      /\ bytes \in [0 .. Parts - 1 -> PartSent]
      /\ ReadsAs(bytes, base, s)
  BY <1>1, <1>2, RingMoves DEF bytes, base, s
<1>7. Decodable(bytes, base) <=> WholeNow(s)
  BY <1>6, DecodableIs
<1>8. bytes[base] = s[1]
  <2>1. 0 \in 0 .. Parts - 1 /\ Ahead(base + 0) = base /\ 0 + 1 = 1
    BY <1>3, <1>6 DEF Ahead
  <2> QED BY <1>6, <2>1 DEF ReadsAs
<1>9. right \in BOOLEAN /\ (right => WholeNow(s))
        /\ (WholeNow(s) /\ s[1].condition = "good" => right)
  <2>1. WholeNow(s) => s[1].part = 0
    BY <1>3 DEF WholeNow
  <2> QED BY <1>7, <1>8, <2>1 DEF FireCodeRight
<1> HIDE DEF right, n
<1>10. /\ n \in Mp4State /\ n.frameBytes = bytes /\ n.blockFillIndex = base /\ n.processed = right
  <2>1. n.frameBytes = bytes /\ n.blockFillIndex = base
    BY <1>5
  <2>2. n.processed = right
    BY <1>5, Zenon
  <2>3. n \in Mp4State
    BY <1>5, <1>6, <1>9 DEF Mp4State
  <2> QED BY <2>1, <2>2, <2>3
<1>11. /\ g \in [superframe : {0, 1}, part : 0 .. Parts - 1, recent : Seq(PartSent)] /\ g.recent = s
  BY <1>1, <1>4, <1>6 DEF s, Later
<1>12. Mp4OK(n, g)
  BY <1>6, <1>9, <1>10, <1>11 DEF Mp4OK
<1> QED BY <1>12 DEF n

LEMMA SuperframeInit == ASSUME Init PROVE SuperframeInv
<1> SUFFICES ASSUME line = "superframes" PROVE Mp4OK(audio, frames)
  BY DEF SuperframeInv
<1>1. audio = mp4Processor /\ frames \in Superframes
  <2>1. line \in Mp4Line /\ line \notin Mp2Line
    BY DEF Mp4Line, Mp2Line
  <2>2. audio = mp4Processor
    BY <2>1 DEF Init, theAudio
  <2>3. frames \in Superframes
    BY DEF Init
  <2> QED BY <2>2, <2>3
<1>2. PICK p \in 0 .. Parts - 1 : frames = [superframe |-> 0, part |-> p, recent |-> Recent0]
  BY <1>1 DEF Superframes
<1>3. frames \in [superframe : {0, 1}, part : 0 .. Parts - 1, recent : Seq(PartSent)] /\ frames.recent = Recent0
  BY <1>2, NothingRecent
<1> QED BY <1>1, <1>3, NothingRecent DEF Mp4OK

LEMMA SuperframeActions ==
  ASSUME Next, line = "superframes"
  PROVE  (\E c \in Condition, accident \in BOOLEAN : SuperframePart(c, accident)) \/ SelectAgain
BY DEF Next, DabFrame, DisturbedFrame, ShortFrame, AccessUnit, GoodPacket, DamagedPacket,
       PaddingPacket, Coding, CodingNext, CodingLoss, PadLine

LEMMA SuperframeStep == ASSUME SuperframeInv, [Next]_vars PROVE SuperframeInv'
<1> SUFFICES ASSUME line = "superframes", Mp4OK(audio, frames) PROVE Mp4OK(audio', frames')
  BY LineStays DEF SuperframeInv, Mp4OK
<1>1. CASE UNCHANGED vars
  BY <1>1 DEF vars, apparatus
<1>2. ASSUME NEW c \in Condition, NEW accident \in BOOLEAN, SuperframePart(c, accident)
      PROVE  Mp4OK(audio', frames')
  BY <1>2, PartTaken DEF SuperframePart
<1>3. CASE SelectAgain
  <2>1. audio' = mp4Processor /\ frames' = [frames EXCEPT !.recent = Recent0]
    <3>1. line \in Mp4Line /\ line \notin Mp2Line
      BY DEF Mp4Line, Mp2Line
    <3> QED BY <1>3, <3>1 DEF SelectAgain, theAudio
  <2>2. /\ frames' \in [superframe : {0, 1}, part : 0 .. Parts - 1, recent : Seq(PartSent)]
        /\ frames'.recent = Recent0
    BY <2>1, NothingRecent DEF Mp4OK
  <2> QED BY <2>1, <2>2, NothingRecent DEF Mp4OK
<1> QED BY <1>1, <1>2, <1>3, SuperframeActions

-----------------------------------------------------------------------------
(* Frames of DAB: unit by unit through mp2Processor.                       *)

Begins == {"none", "true", "shifted", "sound"}

AudioFrame == [begins : Begins, units : Nat]

Mp2State ==
  [MP2Header_OK : {0, 2}, MP2bitCount : 0 .. 2 * Units, baudRate : Rate, begins : Begins,
   partial : BOOLEAN, played : Seq(AudioFrame)]

UnitKind == {"first", "rest", "sound", "like24", "like48"}

LEMMA UnitsAre == Units \in Nat /\ Units >= 3
BY AudioAssumption DEF AudioAssumption

LEMMA Mp2Fields ==
  ASSUME NEW s \in Mp2State
  PROVE  /\ s.MP2Header_OK \in {0, 2} /\ s.MP2bitCount \in 0 .. 2 * Units /\ s.baudRate \in Rate
         /\ s.begins \in Begins /\ s.partial \in BOOLEAN /\ s.played \in Seq(AudioFrame)
BY DEF Mp2State

FrameLength == 0 .. 2 * Units

\* In sync: one unit more, or a full frame.
LEMMA CollectMore ==
  ASSUME NEW s \in Mp2State, s.MP2Header_OK = 2, NEW u, NEW rate, NEW lf \in FrameLength,
         s.MP2bitCount + 1 < lf, NEW t, t = addUnit(s, u, rate, lf)
  PROVE  /\ t \in Mp2State /\ t.MP2Header_OK = 2 /\ t.MP2bitCount = s.MP2bitCount + 1
         /\ t.baudRate = s.baudRate /\ t.begins = s.begins /\ (t.partial <=> s.partial)
         /\ t.played = s.played
<1>1. t = [s EXCEPT !.MP2bitCount = s.MP2bitCount + 1]
  BY DEF addUnit, Collect
<1>2. s.MP2bitCount + 1 \in 0 .. 2 * Units
  BY Mp2Fields, UnitsAre DEF FrameLength
<1>3. t \in Mp2State /\ t.MP2bitCount = s.MP2bitCount + 1
  BY <1>1, <1>2 DEF Mp2State
<1>4. t.MP2Header_OK = s.MP2Header_OK /\ t.baudRate = s.baudRate /\ t.begins = s.begins /\ t.played = s.played
  BY <1>1 DEF Mp2State
<1>5. t.partial <=> s.partial
  BY <1>1, Zenon DEF Mp2State
<1> QED BY <1>3, <1>4, <1>5

FrameDone(s, t) ==
  /\ t \in Mp2State /\ t.MP2Header_OK = 0 /\ t.MP2bitCount = 0
  /\ t.baudRate = s.baudRate /\ t.begins = "none" /\ (t.partial <=> s.partial)
  /\ s.begins # "shifted" =>
       t.played = Append(s.played, [begins |-> s.begins, units |-> s.MP2bitCount + 1])

LEMMA CollectFull ==
  ASSUME NEW s \in Mp2State, s.MP2Header_OK = 2, NEW u, NEW rate, NEW lf \in FrameLength,
         ~(s.MP2bitCount + 1 < lf), NEW t, t = addUnit(s, u, rate, lf)
  PROVE  FrameDone(s, t)
<1> DEFINE p == IF s.begins = "shifted" THEN s.played
                ELSE Append(s.played, [begins |-> s.begins, units |-> s.MP2bitCount + 1])
           a == [s EXCEPT !.MP2Header_OK = 0]
           b == [a EXCEPT !.MP2bitCount = 0]
           c == [b EXCEPT !.begins = "none"]
<1>1. p \in Seq(AudioFrame)
  <2>1. [begins |-> s.begins, units |-> s.MP2bitCount + 1] \in AudioFrame
    BY Mp2Fields, UnitsAre DEF AudioFrame
  <2> QED BY <2>1, Mp2Fields
<1>2. t = [s EXCEPT !.MP2Header_OK = 0, !.MP2bitCount = 0, !.begins = "none", !.played = p]
  BY Zenon DEF addUnit, Collect
<1> HIDE DEF p
<1>3. t = [c EXCEPT !.played = p]
  BY <1>2, Zenon DEF Mp2State
<1>4. a \in Mp2State /\ a.MP2Header_OK = 0 /\ a.baudRate = s.baudRate /\ (a.partial <=> s.partial)
  BY DEF Mp2State
<1> HIDE DEF a
<1>5. b \in Mp2State /\ b.MP2Header_OK = 0 /\ b.MP2bitCount = 0 /\ b.baudRate = s.baudRate /\ (b.partial <=> s.partial)
  BY <1>4, UnitsAre DEF Mp2State
<1> HIDE DEF b
<1>6. c \in Mp2State /\ c.MP2Header_OK = 0 /\ c.MP2bitCount = 0 /\ c.baudRate = s.baudRate /\ (c.partial <=> s.partial)
        /\ c.begins = "none"
  BY <1>5 DEF Mp2State, Begins
<1> HIDE DEF c
<1>7. t \in Mp2State /\ t.MP2Header_OK = 0 /\ t.MP2bitCount = 0 /\ t.baudRate = s.baudRate /\ (t.partial <=> s.partial)
        /\ t.begins = "none" /\ t.played = p
  BY <1>1, <1>3, <1>6 DEF Mp2State
<1> QED BY <1>7 DEF p, FrameDone

\* With the first bit of a header, or without.
Started(s, v) == [s EXCEPT !.partial = v]

LEMMA StartedOK ==
  ASSUME NEW s \in Mp2State, NEW v \in BOOLEAN
  PROVE  LET t == Started(s, v) IN
         /\ t \in Mp2State /\ t.MP2Header_OK = s.MP2Header_OK /\ t.MP2bitCount = s.MP2bitCount
         /\ t.baudRate = s.baudRate /\ t.begins = s.begins /\ (t.partial <=> v) /\ t.played = s.played
<1> DEFINE t == Started(s, v)
<1>1. t = [s EXCEPT !.partial = v]
  BY DEF Started
<1> HIDE DEF t
<1>2. t \in Mp2State
  BY <1>1 DEF Mp2State
<1>3. t.partial <=> v
  BY <1>1, Zenon DEF Mp2State
<1>4. /\ t.MP2Header_OK = s.MP2Header_OK /\ t.MP2bitCount = s.MP2bitCount /\ t.baudRate = s.baudRate
      /\ t.begins = s.begins /\ t.played = s.played
  BY <1>1 DEF Mp2State
<1> QED BY <1>2, <1>3, <1>4 DEF t

\* Out of sync: the begin of a header.
LEMMA SearchFirst ==
  ASSUME NEW s \in Mp2State, s.MP2Header_OK = 0, NEW rate, NEW lf, NEW t, t = addUnit(s, "first", rate, lf)
  PROVE  /\ t \in Mp2State /\ t.MP2Header_OK = 0 /\ t.MP2bitCount = s.MP2bitCount
         /\ t.baudRate = s.baudRate /\ t.begins = s.begins /\ t.partial /\ t.played = s.played
<1>1. t = Started(s, TRUE)
  BY DEF addUnit, Search, LooksLike, Started
<1> QED BY <1>1, StartedOK

LEMMA PartialGone ==
  ASSUME NEW s \in Mp2State, NEW t, t = [s EXCEPT !.partial = FALSE]
  PROVE  /\ t \in Mp2State /\ t.MP2Header_OK = s.MP2Header_OK /\ t.MP2bitCount = s.MP2bitCount
         /\ t.baudRate = s.baudRate /\ t.begins = s.begins /\ ~t.partial /\ t.played = s.played
<1>1. t \in Mp2State
  BY DEF Mp2State
<1>2. /\ t.MP2Header_OK = s.MP2Header_OK /\ t.MP2bitCount = s.MP2bitCount
      /\ t.baudRate = s.baudRate /\ t.begins = s.begins /\ t.played = s.played
  BY DEF Mp2State
<1>3. ~t.partial
  BY Zenon DEF Mp2State
<1> QED BY <1>1, <1>2, <1>3

\* Nothing that is like a header.
LEMMA SearchNothing ==
  ASSUME NEW s \in Mp2State, s.MP2Header_OK = 0, NEW u, NEW rate, NEW lf, NEW t, t = addUnit(s, u, rate, lf),
         u = "sound" \/ (u = "rest" /\ ~s.partial /\ rate = 24000)
  PROVE  /\ t \in Mp2State /\ t.MP2Header_OK = 0 /\ t.MP2bitCount = s.MP2bitCount
         /\ t.baudRate = s.baudRate /\ t.begins = s.begins /\ ~t.partial /\ t.played = s.played
<1>1. t = [s EXCEPT !.partial = FALSE]
  BY DEF addUnit, Search, LooksLike
<1> QED BY <1>1, PartialGone

\* A header, or what looks like one: two units of a frame of this rate.
HeaderSeen(s, g, rate) ==
  setSamplerate([s EXCEPT !.MP2Header_OK = 2, !.MP2bitCount = 2, !.begins = g, !.partial = FALSE], rate)

LEMMA HeaderTaken ==
  ASSUME NEW s \in Mp2State, NEW g \in Begins, NEW rate \in Rate, NEW t, t = HeaderSeen(s, g, rate)
  PROVE  /\ t \in Mp2State /\ t.MP2Header_OK = 2 /\ t.MP2bitCount = 2 /\ t.baudRate = rate
         /\ t.begins = g /\ ~t.partial /\ t.played = s.played
<1> DEFINE a == [s EXCEPT !.MP2Header_OK = 2]
           b == [a EXCEPT !.MP2bitCount = 2]
           c == [b EXCEPT !.begins = g]
           d == [c EXCEPT !.partial = FALSE]
<1>1. t = [d EXCEPT !.baudRate = rate]
  BY Zenon DEF Mp2State, setSamplerate, HeaderSeen
<1>2. a \in Mp2State /\ a.MP2Header_OK = 2 /\ a.played = s.played
  BY DEF Mp2State
<1> HIDE DEF a
<1>3. b \in Mp2State /\ b.MP2Header_OK = 2 /\ b.MP2bitCount = 2 /\ b.played = s.played
  <2>1. 2 \in 0 .. 2 * Units
    BY UnitsAre
  <2>2. b \in Mp2State
    BY <1>2, <2>1 DEF Mp2State
  <2>3. b.MP2Header_OK = 2 /\ b.MP2bitCount = 2 /\ b.played = s.played
    BY <1>2 DEF Mp2State
  <2> QED BY <2>2, <2>3
<1> HIDE DEF b
<1>4. c \in Mp2State /\ c.MP2Header_OK = 2 /\ c.MP2bitCount = 2 /\ c.begins = g /\ c.played = s.played
  BY <1>3 DEF Mp2State
<1> HIDE DEF c
<1>5. d \in Mp2State /\ d.MP2Header_OK = 2 /\ d.MP2bitCount = 2 /\ d.begins = g /\ ~d.partial /\ d.played = s.played
  BY <1>4 DEF Mp2State
<1> HIDE DEF d
<1> QED BY <1>1, <1>5 DEF Mp2State

LEMMA SearchHeader ==
  ASSUME NEW s \in Mp2State, s.MP2Header_OK = 0, s.partial, NEW rate \in Rate, NEW lf, NEW t,
         t = addUnit(s, "rest", rate, lf)
  PROVE  /\ t \in Mp2State /\ t.MP2Header_OK = 2 /\ t.MP2bitCount = 2 /\ t.baudRate = rate
         /\ t.begins = "true" /\ ~t.partial /\ t.played = s.played
<1>1. t = HeaderSeen(s, "true", rate)
  BY DEF addUnit, Search, LooksLike, HeaderSeen
<1>2. "true" \in Begins
  BY DEF Begins
<1> QED BY <1>1, <1>2, HeaderTaken

LEMMA SearchLike ==
  ASSUME NEW s \in Mp2State, s.MP2Header_OK = 0, NEW u \in {"like24", "like48"}, NEW rate, NEW lf, NEW t,
         t = addUnit(s, u, rate, lf)
  PROVE  /\ t \in Mp2State /\ t.MP2Header_OK = 2 /\ t.MP2bitCount = 2 /\ t.begins = "sound" /\ ~t.partial
<1>1. t = HeaderSeen(s, "sound", LooksLike[u])
  BY DEF addUnit, Search, LooksLike, HeaderSeen
<1>2. LooksLike[u] \in Rate
  BY DEF LooksLike, Rate
<1>3. "sound" \in Begins
  BY DEF Begins
<1> QED BY <1>1, <1>2, <1>3, HeaderTaken

LEMMA AddUnitOK ==
  ASSUME NEW s \in Mp2State, NEW u \in UnitKind, NEW rate \in Rate, NEW lf \in FrameLength
  PROVE  addUnit(s, u, rate, lf) \in Mp2State
<1>1. CASE s.MP2Header_OK = 2
  BY <1>1, CollectMore, CollectFull DEF FrameDone
<1>2. CASE s.MP2Header_OK = 0
  <2>1. CASE u = "first"
    BY <1>2, <2>1, SearchFirst
  <2>2. CASE u = "sound" \/ (u = "rest" /\ ~s.partial /\ rate = 24000)
    BY <1>2, <2>2, SearchNothing
  <2>3. CASE u = "rest" /\ s.partial
    BY <1>2, <2>3, SearchHeader
  <2>4. CASE u \in {"like24", "like48"}
    BY <1>2, <2>4, SearchLike
  <2>5. CASE u = "rest" /\ ~s.partial /\ rate = 48000
    <3> DEFINE a == [s EXCEPT !.MP2Header_OK = 2]
               b == [a EXCEPT !.MP2bitCount = 1]
    <3>1. addUnit(s, u, rate, lf) = [s EXCEPT !.MP2Header_OK = 2, !.MP2bitCount = 1, !.begins = "shifted"]
      BY <1>2, <2>5 DEF addUnit, Search, LooksLike
    <3>2. addUnit(s, u, rate, lf) = [b EXCEPT !.begins = "shifted"]
      BY <3>1, Zenon DEF Mp2State
    <3>3. a \in Mp2State
      BY DEF Mp2State
    <3> HIDE DEF a
    <3>4. b \in Mp2State
      BY <3>3, UnitsAre DEF Mp2State
    <3> HIDE DEF b
    <3> QED BY <3>2, <3>4 DEF Mp2State, Begins
  <2> QED BY <2>1, <2>2, <2>3, <2>4, <2>5 DEF UnitKind, Rate
<1> QED BY <1>1, <1>2, Mp2Fields

\* The units of a frame one after another: h[i] is the processor after i of them.
Through(h, m, units, rate, lf) ==
  /\ h \in [0 .. Len(units) -> Mp2State]
  /\ h[0] = [m EXCEPT !.played = <<>>]
  /\ \A i \in 1 .. Len(units) : h[i] = addUnit(h[i - 1], units[i], rate, lf)

LEMMA FrameUnits ==
  ASSUME NEW m \in Mp2State, NEW units \in Seq(UnitKind), NEW rate \in Rate
  PROVE  \E h : /\ Through(h, m, units, rate, Units * FramesOf(m.baudRate))
                /\ addtoMp2Frame(m, units, rate) = h[Len(units)]
<1> DEFINE lf == Units * FramesOf(m.baudRate)
           start == [m EXCEPT !.played = <<>>]
           n == Len(units)
           F == [x \in Mp2State \X (1 .. n) |-> addUnit(x[1], units[x[2]], rate, lf)]
           Step(k, s) == IF s = {} THEN start ELSE addUnit(k[s \ {Max(s)}], units[Max(s)], rate, lf)
<1>1. n \in Nat /\ DOMAIN units = 1 .. n /\ \A i \in 1 .. n : units[i] \in UnitKind
  BY Elements
<1>2. lf \in FrameLength
  BY UnitsAre, Mp2Fields DEF FramesOf, FrameLength
<1>3. start \in Mp2State
  <2>1. <<>> \in Seq(AudioFrame)
    OBVIOUS
  <2> QED BY <2>1 DEF Mp2State
<1> HIDE DEF lf, start
<1>4. F \in [Mp2State \X (1 .. n) -> Mp2State]
  BY <1>1, <1>2, AddUnitOK
<1>5. PICK g : IsFold(g, Mp2State, start, n, F)
  <2>1. n \in Nat
    BY <1>1
  <2> HIDE DEF F, n
  <2> QED BY <2>1, <1>3, <1>4, FoldExists
<1>6. g = [s \in SUBSET (1 .. n) |-> Step(g, s)]
  <2>1. ASSUME NEW s \in SUBSET (1 .. n), s # {}
        PROVE  F[<<g[s \ {Max(s)}], Max(s)>>] = addUnit(g[s \ {Max(s)}], units[Max(s)], rate, lf)
    <3>1. Max(s) \in 1 .. n
      BY <1>1, <2>1, MaxFound
    <3>2. g[s \ {Max(s)}] \in Mp2State
      BY <1>5 DEF IsFold
    <3> QED BY <3>1, <3>2
  <2> HIDE DEF F
  <2> QED BY <1>5, <2>1 DEF IsFold
<1>7. PICK k : /\ k = [s \in SUBSET (DOMAIN units) |-> Step(k, s)]
               /\ addtoMp2Frame(m, units, rate) = k[DOMAIN units]
  <2>1. addtoMp2Frame(m, units, rate) = FoldLeft(LAMBDA x, unit : addUnit(x, unit, rate, lf), start, units)
    BY Zenon DEF addtoMp2Frame, lf, start
  <2> QED BY <1>1, <1>6, <2>1, Zenon DEF FoldLeft, MapThenFoldSet
<1>8. ASSUME NEW i \in 1 .. n PROVE k[1 .. i] = addUnit(k[1 .. (i - 1)], units[i], rate, lf)
  BY <1>1, <1>7, UpTo
<1>9. k[1 .. 0] = start
  BY <1>1, <1>7
<1> DEFINE h == [i \in 0 .. n |-> k[1 .. i]]
<1>10. h[0] = start /\ \A i \in 1 .. n : h[i] = addUnit(h[i - 1], units[i], rate, lf)
  BY <1>1, <1>8, <1>9
<1>11. addtoMp2Frame(m, units, rate) = h[n]
  BY <1>1, <1>7
<1>12. h \in [0 .. n -> Mp2State]
  <2> DEFINE S == {i \in Nat : i <= n => h[i] \in Mp2State}
  <2>1. 0 \in S
    BY <1>3, <1>10
  <2>2. ASSUME NEW i \in Nat, i \in S PROVE i + 1 \in S
    <3> SUFFICES ASSUME i + 1 <= n PROVE h[i + 1] \in Mp2State
      OBVIOUS
    <3>1. i + 1 \in 1 .. n /\ h[i] \in Mp2State /\ (i + 1) - 1 = i
      BY <1>1, <2>2
    <3> HIDE DEF h
    <3> QED BY <1>1, <1>2, <1>10, <3>1, AddUnitOK
  <2> HIDE DEF S
  <2>3. \A i \in Nat : i \in S
    BY <2>1, <2>2, AllNumbers
  <2>4. \A i \in 0 .. n : h[i] \in Mp2State
    <3> HIDE DEF h
    <3> QED BY <2>3 DEF S
  <2> QED BY <2>4
<1> HIDE DEF h
<1> QED BY <1>10, <1>11, <1>12 DEF Through, lf, start

\* In sync with c units; out of sync; at the end of a frame it is one of these.
Busy(s, c, b) ==
  /\ s \in Mp2State /\ s.MP2Header_OK = 2 /\ s.MP2bitCount = c /\ s.baudRate = b
  /\ ~s.partial /\ s.begins # "shifted"

Idling(s, b) ==
  /\ s \in Mp2State /\ s.MP2Header_OK = 0 /\ s.MP2bitCount = 0 /\ s.baudRate = b
  /\ ~s.partial /\ s.begins = "none"

\* As long as the frame is not full.
LEMMA BusyRun ==
  ASSUME NEW h, NEW m, NEW units \in Seq(UnitKind), NEW rate, NEW lf \in FrameLength,
         Through(h, m, units, rate, lf), NEW j \in 0 .. Len(units), NEW c \in Nat, NEW b,
         Busy(h[j], c, b)
  PROVE  \A d \in Nat : j + d <= Len(units) /\ c + d < lf =>
           Busy(h[j + d], c + d, b) /\ h[j + d].begins = h[j].begins /\ h[j + d].played = h[j].played
<1> DEFINE P(x) == Busy(h[j + x], c + x, b) /\ h[j + x].begins = h[j].begins /\ h[j + x].played = h[j].played
           S == {x \in Nat : j + x <= Len(units) /\ c + x < lf => P(x)}
<1>1. Len(units) \in Nat /\ lf \in Nat /\ j \in Nat
  BY Elements, UnitsAre DEF FrameLength
<1>2. 0 \in S
  <2>1. j + 0 = j /\ c + 0 = c
    BY <1>1
  <2>2. P(0)
    BY <2>1
  <2> QED BY <2>2
<1>3. ASSUME NEW x \in Nat, x \in S PROVE x + 1 \in S
  <2> SUFFICES ASSUME j + (x + 1) <= Len(units), c + (x + 1) < lf PROVE P(x + 1)
    OBVIOUS
  <2>1. P(x)
    BY <1>1, <1>3
  <2>2. /\ j + (x + 1) \in 1 .. Len(units) /\ (j + (x + 1)) - 1 = j + x
        /\ c + (x + 1) = (c + x) + 1 /\ (c + x) + 1 < lf
    BY <1>1
  <2>3. h[j + (x + 1)] = addUnit(h[j + x], units[j + (x + 1)], rate, lf)
    BY <2>2 DEF Through
  <2> DEFINE s == h[j + x]
             t == h[j + (x + 1)]
  <2>4. s \in Mp2State /\ s.MP2Header_OK = 2 /\ s.MP2bitCount + 1 < lf /\ t = addUnit(s, units[j + (x + 1)], rate, lf)
    BY <2>1, <2>2, <2>3 DEF Busy
  <2> HIDE DEF s, t
  <2>5. /\ t \in Mp2State /\ t.MP2Header_OK = 2 /\ t.MP2bitCount = s.MP2bitCount + 1
        /\ t.baudRate = s.baudRate /\ t.begins = s.begins /\ (t.partial <=> s.partial)
        /\ t.played = s.played
    BY <2>4, CollectMore
  <2>6. Busy(s, c + x, b) /\ s.begins = h[j].begins /\ s.played = h[j].played
    BY <2>1 DEF s
  <2>7. Busy(t, c + (x + 1), b) /\ t.begins = h[j].begins /\ t.played = h[j].played
    BY <2>2, <2>5, <2>6 DEF Busy
  <2> QED BY <2>7 DEF t
<1> HIDE DEF S
<1>4. \A d \in Nat : d \in S
  BY <1>2, <1>3, AllNumbers
<1> QED BY <1>4 DEF S

\* As long as nothing is like a header.
QuietAfter(units, j, rate) ==
  \A i \in 1 .. Len(units) : i > j => units[i] = "sound" \/ (units[i] = "rest" /\ rate = 24000)

IdleFrom(h, j, n, b) ==
  \A d \in Nat : j + d <= n => Idling(h[j + d], b) /\ h[j + d].played = h[j].played

LEMMA IdleRun ==
  ASSUME NEW h, NEW m, NEW units \in Seq(UnitKind), NEW rate, NEW lf,
         Through(h, m, units, rate, lf), NEW j \in 0 .. Len(units), NEW b, Idling(h[j], b),
         QuietAfter(units, j, rate)
  PROVE  IdleFrom(h, j, Len(units), b)
<1> DEFINE P(x) == Idling(h[j + x], b) /\ h[j + x].played = h[j].played
           S == {x \in Nat : j + x <= Len(units) => P(x)}
<1>1. Len(units) \in Nat /\ j \in Nat
  BY Elements
<1>2. 0 \in S
  <2>1. j + 0 = j
    BY <1>1
  <2>2. P(0)
    BY <2>1
  <2> QED BY <2>2
<1>3. ASSUME NEW x \in Nat, x \in S PROVE x + 1 \in S
  <2> SUFFICES ASSUME j + (x + 1) <= Len(units) PROVE P(x + 1)
    OBVIOUS
  <2>1. P(x)
    BY <1>1, <1>3
  <2>2. j + (x + 1) \in 1 .. Len(units) /\ (j + (x + 1)) - 1 = j + x /\ j + (x + 1) > j
    BY <1>1
  <2>3. h[j + (x + 1)] = addUnit(h[j + x], units[j + (x + 1)], rate, lf)
    BY <2>2 DEF Through
  <2> DEFINE s == h[j + x]
             t == h[j + (x + 1)]
             u == units[j + (x + 1)]
  <2>4. Idling(s, b) /\ s.played = h[j].played /\ t = addUnit(s, u, rate, lf)
          /\ (u = "sound" \/ (u = "rest" /\ rate = 24000))
    BY <2>1, <2>2, <2>3 DEF QuietAfter
  <2> HIDE DEF s, t, u
  <2>5. s \in Mp2State /\ s.MP2Header_OK = 0 /\ (u = "sound" \/ (u = "rest" /\ ~s.partial /\ rate = 24000))
    BY <2>4 DEF Idling
  <2>6. /\ t \in Mp2State /\ t.MP2Header_OK = 0 /\ t.MP2bitCount = s.MP2bitCount
        /\ t.baudRate = s.baudRate /\ t.begins = s.begins /\ ~t.partial /\ t.played = s.played
    BY <2>4, <2>5, SearchNothing
  <2>7. Idling(t, b) /\ t.played = h[j].played
    BY <2>4, <2>6 DEF Idling
  <2> QED BY <2>7 DEF t
<1> HIDE DEF S
<1>4. \A d \in Nat : d \in S
  BY <1>2, <1>3, AllNumbers
<1> QED BY <1>4 DEF S, IdleFrom

\* What mp2Processor is between frames.
Settled(m) ==
  /\ m \in Mp2State /\ m.MP2bitCount < 2 * Units /\ ~m.partial /\ m.begins # "shifted"
  /\ m.MP2Header_OK = 0 => m.MP2bitCount = 0 /\ m.begins = "none"

LEMMA SettledCases ==
  ASSUME NEW m, Settled(m)
  PROVE  /\ m.baudRate \in Rate /\ m.MP2bitCount \in Nat
         /\ (Idling(m, m.baudRate) /\ m.MP2Header_OK = 0)
              \/ (Busy(m, m.MP2bitCount, m.baudRate) /\ m.MP2Header_OK = 2)
BY Mp2Fields, UnitsAre DEF Settled, Idling, Busy

AtStart(m, s) ==
  /\ s.played = <<>> /\ s.begins = m.begins
  /\ \A b : Idling(m, b) => Idling(s, b)
  /\ \A c, b : Busy(m, c, b) => Busy(s, c, b)
  /\ Settled(m) => Settled(s)

LEMMA StartsAs ==
  ASSUME NEW h, NEW m, NEW units \in Seq(UnitKind), NEW rate, NEW lf, Through(h, m, units, rate, lf),
         m \in Mp2State
  PROVE  AtStart(m, h[0])
<1> DEFINE s == h[0]
<1>1. s = [m EXCEPT !.played = <<>>]
  BY DEF Through
<1>2. s \in Mp2State
  <2>1. Len(units) \in Nat /\ 0 \in 0 .. Len(units)
    BY Elements
  <2> QED BY <2>1 DEF Through
<1> HIDE DEF s
<1>3. s.played = <<>> /\ s.begins = m.begins /\ s.MP2Header_OK = m.MP2Header_OK
        /\ s.MP2bitCount = m.MP2bitCount /\ s.baudRate = m.baudRate
  BY <1>1 DEF Mp2State
<1>4. s.partial <=> m.partial
  BY <1>1, Zenon DEF Mp2State
<1>5. /\ \A b : Idling(m, b) => Idling(s, b)
      /\ \A c, b : Busy(m, c, b) => Busy(s, c, b)
      /\ Settled(m) => Settled(s)
  BY <1>2, <1>3, <1>4 DEF Idling, Busy, Settled
<1> QED BY <1>3, <1>5 DEF s, AtStart

LEMMA BusyFromStart ==
  ASSUME NEW h, NEW m, NEW units \in Seq(UnitKind), NEW rate, NEW lf \in FrameLength,
         Through(h, m, units, rate, lf), NEW c \in Nat, NEW b, Busy(h[0], c, b)
  PROVE  \A d \in Nat : d <= Len(units) /\ c + d < lf =>
           Busy(h[d], c + d, b) /\ h[d].begins = h[0].begins /\ h[d].played = h[0].played
<1>1. 0 \in 0 .. Len(units)
  BY Elements
<1>2. \A d \in Nat : 0 + d <= Len(units) /\ c + d < lf =>
        Busy(h[0 + d], c + d, b) /\ h[0 + d].begins = h[0].begins /\ h[0 + d].played = h[0].played
  BY <1>1, BusyRun
<1>3. \A d \in Nat : 0 + d = d
  OBVIOUS
<1> QED BY <1>2, <1>3

FullAt(b) == Units * FramesOf(b)

BusyEnds(m, c, b, units, rate, t) ==
  /\ c + Units < FullAt(b) => Busy(t, c + Units, b) /\ t.begins = m.begins /\ t.played = <<>>
  /\ \A p \in 1 .. Units :
       p = (IF c < FullAt(b) THEN FullAt(b) - c ELSE 1) /\ QuietAfter(units, p, rate) =>
         Idling(t, b) /\ t.played = <<[begins |-> m.begins, units |-> c + p]>>

\* A processor in sync goes on with its frame, and fills it if it can.
LEMMA BusyFrame ==
  ASSUME NEW m, NEW c \in Nat, NEW b \in Rate, Busy(m, c, b),
         NEW units \in Seq(UnitKind), Len(units) = Units, NEW rate \in Rate,
         NEW t, t = addtoMp2Frame(m, units, rate)
  PROVE  BusyEnds(m, c, b, units, rate, t)
<1> DEFINE lf == FullAt(b)
<1>0. lf = Units * FramesOf(b)
  BY DEF FullAt
<1> SUFFICES /\ c + Units < lf => Busy(t, c + Units, b) /\ t.begins = m.begins /\ t.played = <<>>
             /\ \A p \in 1 .. Units :
                  p = (IF c < lf THEN lf - c ELSE 1) /\ QuietAfter(units, p, rate) =>
                    Idling(t, b) /\ t.played = <<[begins |-> m.begins, units |-> c + p]>>
  BY DEF BusyEnds
<1> HIDE DEF lf
<1>1. m \in Mp2State /\ m.baudRate = b /\ Units \in Nat /\ Units >= 3
  BY UnitsAre DEF Busy
<1>2. lf \in 0 .. 2 * Units
  BY <1>0, <1>1 DEF FramesOf
<1>3. PICK h : Through(h, m, units, rate, lf) /\ t = h[Units]
  BY <1>0, <1>1, FrameUnits
<1>4. Busy(h[0], c, b) /\ h[0].begins = m.begins /\ h[0].played = <<>>
  BY <1>1, <1>3, StartsAs DEF AtStart
<1>5. 0 \in 0 .. Len(units)
  BY <1>1
<1>6. ASSUME NEW d \in Nat, d <= Units, c + d < lf
      PROVE  Busy(h[d], c + d, b) /\ h[d].begins = m.begins /\ h[d].played = <<>>
  <2>0. lf \in FrameLength
    BY <1>2 DEF FrameLength
  <2>1. /\ Through(h, m, units, rate, lf) /\ 0 \in 0 .. Len(units) /\ Busy(h[0], c, b)
    BY <1>1, <1>3, <1>4
  <2>2. \A e \in Nat : e <= Len(units) /\ c + e < lf =>
          Busy(h[e], c + e, b) /\ h[e].begins = h[0].begins /\ h[e].played = h[0].played
    BY <2>0, <2>1, BusyFromStart
  <2>3. d <= Len(units)
    BY <1>1, <1>6
  <2> QED BY <1>4, <1>6, <2>2, <2>3
<1>7. ASSUME NEW p \in 1 .. Units, p = (IF c < lf THEN lf - c ELSE 1), QuietAfter(units, p, rate)
      PROVE  Idling(t, b) /\ t.played = <<[begins |-> m.begins, units |-> c + p]>>
  <2> DEFINE s == h[p - 1]
             v == h[p]
  <2>1. Busy(s, c + (p - 1), b) /\ s.begins = m.begins /\ s.played = <<>>
    <3>1. CASE c < lf
      <4>1. p - 1 \in Nat /\ p - 1 <= Units /\ c + (p - 1) < lf
        BY <1>1, <1>2, <1>7, <3>1
      <4> QED BY <1>6, <4>1
    <3>2. CASE ~(c < lf)
      <4>1. p - 1 = 0 /\ c + (p - 1) = c
        BY <1>7, <3>2
      <4> QED BY <1>4, <4>1
    <3> QED BY <3>1, <3>2
  <2>2. ~((c + (p - 1)) + 1 < lf) /\ (c + (p - 1)) + 1 = c + p
    BY <1>2, <1>7
  <2>3. v = addUnit(s, units[p], rate, lf)
    BY <1>3, <1>7 DEF Through
  <2> HIDE DEF s, v
  <2>4. /\ v \in Mp2State /\ v.MP2Header_OK = 0 /\ v.MP2bitCount = 0
        /\ v.baudRate = b /\ v.begins = "none" /\ ~v.partial
        /\ v.played = Append(s.played, [begins |-> s.begins, units |-> s.MP2bitCount + 1])
    <3>1. s \in Mp2State /\ s.MP2Header_OK = 2 /\ ~(s.MP2bitCount + 1 < lf) /\ s.begins # "shifted" /\ ~s.partial
            /\ s.baudRate = b
      BY <2>1, <2>2 DEF Busy
    <3> QED BY <1>2, <2>3, <3>1, CollectFull DEF FrameLength, FrameDone
  <2>5. Idling(v, b)
    BY <2>4 DEF Idling
  <2>6. v.played = <<[begins |-> m.begins, units |-> c + p]>>
    <3>1. s.MP2bitCount + 1 = c + p
      BY <2>1, <2>2 DEF Busy
    <3> QED BY <2>1, <2>4, <3>1
  <2>7. Idling(h[p + (Units - p)], b) /\ h[p + (Units - p)].played = h[p].played
    <3>1. p \in 0 .. Len(units) /\ Units - p \in Nat /\ p + (Units - p) <= Len(units)
      BY <1>1, <1>7
    <3>2. Idling(h[p], b) /\ Through(h, m, units, rate, lf) /\ QuietAfter(units, p, rate)
      BY <1>3, <1>7, <2>5 DEF v
    <3>3. \A e \in Nat : p + e <= Len(units) => Idling(h[p + e], b) /\ h[p + e].played = h[p].played
      BY <3>1, <3>2, IdleRun DEF IdleFrom
    <3> QED BY <3>1, <3>3
  <2>8. p + (Units - p) = Units
    BY <1>1, <1>7
  <2> QED BY <1>3, <2>6, <2>7, <2>8 DEF v
<1>8. c + Units < lf => Busy(t, c + Units, b) /\ t.begins = m.begins /\ t.played = <<>>
  BY <1>1, <1>3, <1>6
<1> QED BY <1>7, <1>8

\* Out of sync where nothing begins.
LEMMA IdleFrame ==
  ASSUME NEW m, NEW b \in Rate, Idling(m, b), NEW units \in Seq(UnitKind), Len(units) = Units,
         NEW rate \in Rate, QuietAfter(units, 0, rate), NEW t, t = addtoMp2Frame(m, units, rate)
  PROVE  Idling(t, b) /\ t.played = <<>>
<1>1. m \in Mp2State /\ m.baudRate = b /\ Units \in Nat
  BY UnitsAre DEF Idling
<1>2. PICK h : Through(h, m, units, rate, Units * FramesOf(b)) /\ t = h[Units]
  BY <1>1, FrameUnits
<1>3. Idling(h[0], b) /\ h[0].played = <<>>
  BY <1>1, <1>2, StartsAs DEF AtStart
<1>4. 0 \in 0 .. Len(units) /\ 0 + Units <= Len(units) /\ 0 + Units = Units
  BY <1>1
<1>5. Idling(h[0 + Units], b) /\ h[0 + Units].played = h[0].played
  BY <1>1, <1>2, <1>3, <1>4, IdleRun DEF IdleFrom
<1> QED BY <1>2, <1>3, <1>4, <1>5

\* Out of sync where a header is.
LEMMA HeaderFrame ==
  ASSUME NEW m, NEW b \in Rate, Idling(m, b), NEW units \in Seq(UnitKind), Len(units) = Units,
         NEW rate \in Rate, units[1] = "first", units[2] = "rest", NEW t, t = addtoMp2Frame(m, units, rate)
  PROVE  /\ b = 24000 => Busy(t, Units, rate) /\ t.begins = "true" /\ t.played = <<>>
         /\ b = 48000 => Idling(t, rate) /\ t.played = <<[begins |-> "true", units |-> Units]>>
<1> DEFINE lf == Units * FramesOf(b)
<1>1. m \in Mp2State /\ m.baudRate = b /\ Units \in Nat /\ Units >= 3
  BY UnitsAre DEF Idling
<1>2. lf \in 0 .. 2 * Units /\ (b = 24000 => lf = 2 * Units) /\ (b = 48000 => lf = Units)
  BY <1>1 DEF FramesOf
<1>3. PICK h : Through(h, m, units, rate, lf) /\ t = h[Units]
  BY <1>1, FrameUnits
<1> HIDE DEF lf
<1>4. Idling(h[0], b) /\ h[0].played = <<>>
  BY <1>1, <1>3, StartsAs DEF AtStart
<1>5. h[1] = addUnit(h[0], "first", rate, lf) /\ h[2] = addUnit(h[1], "rest", rate, lf)
  <2>1. 1 \in 1 .. Len(units) /\ 1 - 1 = 0 /\ 2 \in 1 .. Len(units) /\ 2 - 1 = 1
    BY <1>1
  <2> QED BY <1>3, <2>1 DEF Through
<1> DEFINE s == h[0]
           v == h[1]
           w == h[2]
<1>6. s \in Mp2State /\ s.MP2Header_OK = 0 /\ s.played = <<>> /\ v = addUnit(s, "first", rate, lf)
        /\ w = addUnit(v, "rest", rate, lf)
  BY <1>4, <1>5 DEF Idling
<1> HIDE DEF s, v, w
<1>7. v \in Mp2State /\ v.MP2Header_OK = 0 /\ v.partial /\ v.played = <<>>
  BY <1>6, SearchFirst
<1>8. Busy(w, 2, rate) /\ w.begins = "true" /\ w.played = <<>>
  BY <1>6, <1>7, SearchHeader DEF Busy
<1>9. ASSUME NEW d \in Nat, 2 + d <= Units, 2 + d < lf
      PROVE  Busy(h[2 + d], 2 + d, rate) /\ h[2 + d].begins = "true" /\ h[2 + d].played = <<>>
  <2>0. lf \in FrameLength
    BY <1>2 DEF FrameLength
  <2>1. 2 \in 0 .. Len(units) /\ 2 \in Nat /\ 2 + d <= Len(units)
    BY <1>1, <1>9
  <2>2. Busy(h[2], 2, rate)
    BY <1>8 DEF w
  <2>3. Busy(h[2 + d], 2 + d, rate) /\ h[2 + d].begins = h[2].begins /\ h[2 + d].played = h[2].played
    <3>1. \A e \in Nat : 2 + e <= Len(units) /\ 2 + e < lf =>
            Busy(h[2 + e], 2 + e, rate) /\ h[2 + e].begins = h[2].begins /\ h[2 + e].played = h[2].played
      BY <1>3, <2>0, <2>1, <2>2, BusyRun
    <3> QED BY <1>9, <2>1, <3>1
  <2> QED BY <1>8, <2>3 DEF w
<1>10. CASE b = 24000
  <2>1. Units - 2 \in Nat /\ 2 + (Units - 2) = Units /\ 2 + (Units - 2) < lf
          /\ 2 + (Units - 2) <= Units
    BY <1>1, <1>2, <1>10
  <2>2. Busy(t, Units, rate) /\ t.begins = "true" /\ t.played = <<>>
    BY <1>3, <1>9, <2>1
  <2> QED BY <1>10, <2>2
<1>11. CASE b = 48000
  <2> DEFINE x == h[Units - 1]
  <2>1. /\ Units - 3 \in Nat /\ 2 + (Units - 3) = Units - 1 /\ 2 + (Units - 3) < lf /\ 2 + (Units - 3) <= Units
        /\ (Units - 1) + 1 = Units /\ Units \in 1 .. Len(units) /\ ~((Units - 1) + 1 < lf)
    BY <1>1, <1>2, <1>11
  <2>2. Busy(x, Units - 1, rate) /\ x.begins = "true" /\ x.played = <<>>
    BY <1>9, <2>1
  <2>3. t = addUnit(x, units[Units], rate, lf)
    BY <1>3, <2>1 DEF Through
  <2> HIDE DEF x
  <2>4. x \in Mp2State /\ x.MP2Header_OK = 2 /\ ~(x.MP2bitCount + 1 < lf) /\ x.MP2bitCount + 1 = Units
          /\ ~x.partial /\ x.baudRate = rate
    BY <2>1, <2>2 DEF Busy
  <2>5. /\ t \in Mp2State /\ t.MP2Header_OK = 0 /\ t.MP2bitCount = 0 /\ t.baudRate = rate
        /\ t.begins = "none" /\ ~t.partial
        /\ t.played = Append(x.played, [begins |-> x.begins, units |-> x.MP2bitCount + 1])
    BY <1>2, <2>2, <2>3, <2>4, CollectFull DEF FrameLength, FrameDone
  <2>6. Idling(t, rate)
    BY <2>5 DEF Idling
  <2>7. t.played = <<[begins |-> "true", units |-> Units]>>
    BY <2>2, <2>4, <2>5
  <2> QED BY <1>11, <2>6, <2>7
<1> QED BY <1>10, <1>11 DEF Rate

\* How many calm frames at 24 kHz until mp2Processor is in step with the broadcaster.
Waits(m, half) ==
  IF m.MP2Header_OK = 0
  THEN IF half = 1 THEN (IF m.baudRate = 24000 THEN 0 ELSE 2)
                   ELSE (IF m.baudRate = 24000 THEN 1 ELSE 3)
  ELSE IF half = 1 THEN (IF m.baudRate = 24000 THEN 2 ELSE 4)
  ELSE IF m.baudRate = 24000 /\ m.MP2bitCount = Units /\ m.begins = "true" THEN 0
  ELSE IF m.baudRate = 24000 /\ m.MP2bitCount >= Units THEN 1 ELSE 3

LEMMA WaitsWhenIdle ==
  ASSUME NEW m, NEW b, Idling(m, b)
  PROVE  /\ Settled(m)
         /\ Waits(m, 1) = IF b = 24000 THEN 0 ELSE 2
         /\ Waits(m, 2) = IF b = 24000 THEN 1 ELSE 3
<1>1. Settled(m)
  BY UnitsAre DEF Idling, Settled
<1> QED BY <1>1 DEF Idling, Waits

LEMMA WaitsWhenBusy ==
  ASSUME NEW m, NEW c \in Nat, NEW b, Busy(m, c, b)
  PROVE  /\ c < 2 * Units => Settled(m)
         /\ Waits(m, 1) = IF b = 24000 THEN 2 ELSE 4
         /\ Waits(m, 2) = IF b = 24000 /\ c = Units /\ m.begins = "true" THEN 0
                          ELSE IF b = 24000 /\ c >= Units THEN 1 ELSE 3
<1>1. c < 2 * Units => Settled(m)
  BY DEF Busy, Settled
<1> QED BY <1>1 DEF Busy, Waits

\* What a frame in step plays: nothing, or all that came with its other half.
PlaysRight(m, f) ==
  m.played = IF f.half # 1 THEN <<>>
             ELSE <<[begins |-> "true", units |-> Units * FramesOf(f.rate)]>>

DabState == {f \in [rate : Rate, half : {1, 2}, calm : 0 .. CalmEnough] : f.half <= FramesOf(f.rate)}

NextHalfOf(f) == IF f.half = FramesOf(f.rate) THEN 1 ELSE 2

LEMMA NextHalfIs ==
  ASSUME NEW f \in DabState, NEW k \in 0 .. CalmEnough + 1, NEW g, g = NextHalf(f, k)
  PROVE  /\ g \in DabState /\ g.rate = f.rate /\ g.half = NextHalfOf(f)
         /\ g.calm = IF k < CalmEnough THEN k ELSE CalmEnough
<1>1. f.rate \in Rate /\ f.half \in {1, 2} /\ f.calm \in 0 .. CalmEnough /\ f.half <= FramesOf(f.rate)
  BY DEF DabState
<1>2. (f.half % FramesOf(f.rate)) + 1 = NextHalfOf(f)
  <2>1. 1 % 1 = 0 /\ 1 % 2 = 1 /\ 2 % 2 = 0
    OBVIOUS
  <2> QED BY <1>1, <2>1 DEF FramesOf, NextHalfOf, Rate
<1>3. NextHalfOf(f) \in {1, 2} /\ NextHalfOf(f) <= FramesOf(f.rate)
  BY <1>1 DEF NextHalfOf, FramesOf, Rate
<1> DEFINE l == IF k < CalmEnough THEN k ELSE CalmEnough
           a == [f EXCEPT !.half = NextHalfOf(f)]
<1>4. l \in 0 .. CalmEnough
  BY DEF CalmEnough
<1>5. g = [f EXCEPT !.half = (f.half % FramesOf(f.rate)) + 1, !.calm = l]
  BY DEF NextHalf
<1> HIDE DEF l
<1>6. g = [a EXCEPT !.calm = l]
  BY <1>2, <1>5
<1>7. a \in DabState /\ a.rate = f.rate /\ a.half = NextHalfOf(f)
  BY <1>1, <1>3 DEF DabState
<1> HIDE DEF a
<1> QED BY <1>4, <1>6, <1>7 DEF DabState, l

\* The frame that is sent.
LEMMA SentUnits ==
  ASSUME NEW f \in DabState
  PROVE  /\ DabUnits(f) \in Seq(UnitKind) /\ Len(DabUnits(f)) = Units
         /\ f.half = 1 => DabUnits(f)[1] = "first" /\ DabUnits(f)[2] = "rest"
         /\ \A i \in 1 .. Units : i > 1 => DabUnits(f)[i] # "first"
         /\ \A i \in 1 .. Units : f.half = 2 \/ i > 2 => DabUnits(f)[i] = "sound"
         /\ f.half = 2 => QuietAfter(DabUnits(f), 0, f.rate)
         /\ f.rate = 24000 => \A p \in 1 .. Units : QuietAfter(DabUnits(f), p, f.rate)
<1> DEFINE u == DabUnits(f)
<1>1. Units \in Nat /\ Units >= 3 /\ f.half \in {1, 2}
  BY UnitsAre DEF DabState
<1>2. u = [i \in 1 .. Units |-> IF f.half = 1 /\ i = 1 THEN "first"
                                ELSE IF f.half = 1 /\ i = 2 THEN "rest" ELSE "sound"]
  BY DEF DabUnits
<1> HIDE DEF u
<1>3. u \in Seq(UnitKind) /\ Len(u) = Units
  BY <1>1, <1>2 DEF UnitKind
<1>4. \A i \in 1 .. Units : u[i] = IF f.half = 1 /\ i = 1 THEN "first"
                                   ELSE IF f.half = 1 /\ i = 2 THEN "rest" ELSE "sound"
  BY <1>2
<1>5. f.half = 1 => u[1] = "first" /\ u[2] = "rest"
  BY <1>1, <1>4
<1>6. /\ \A i \in 1 .. Units : i > 1 => u[i] # "first"
      /\ \A i \in 1 .. Units : f.half = 2 \/ i > 2 => u[i] = "sound"
  BY <1>1, <1>4
<1>7. f.half = 2 => QuietAfter(u, 0, f.rate)
  BY <1>3, <1>6 DEF QuietAfter
<1>8. f.rate = 24000 => \A p \in 1 .. Units : QuietAfter(u, p, f.rate)
  BY <1>1, <1>3, <1>4 DEF QuietAfter
<1> QED BY <1>3, <1>5, <1>6, <1>7, <1>8 DEF u

\* An undisturbed frame at 24 kHz: one frame closer, and right once in step.
LEMMA CalmFrame24 ==
  ASSUME NEW f \in DabState, f.rate = 24000, NEW m, Settled(m),
         NEW t, t = addtoMp2Frame(m, DabUnits(f), f.rate), NEW half, half = NextHalfOf(f)
  PROVE  /\ Settled(t) /\ Waits(m, f.half) \in 0 .. 4
         /\ Waits(t, half) <= IF Waits(m, f.half) = 0 THEN 0 ELSE Waits(m, f.half) - 1
         /\ Waits(m, f.half) = 0 =>
              t.played = IF half # 1 THEN <<>> ELSE <<[begins |-> "true", units |-> 2 * Units]>>
<1> DEFINE u == DabUnits(f)
           b == m.baudRate
           c == m.MP2bitCount
<1>1. Units \in Nat /\ Units >= 3 /\ f.half \in {1, 2} /\ (f.half = 1 => half = 2) /\ (f.half = 2 => half = 1)
  BY UnitsAre DEF DabState, NextHalfOf, FramesOf
<1>2. /\ u \in Seq(UnitKind) /\ Len(u) = Units
      /\ f.half = 1 => u[1] = "first" /\ u[2] = "rest"
      /\ f.half = 2 => QuietAfter(u, 0, 24000)
      /\ \A p \in 1 .. Units : QuietAfter(u, p, 24000)
  BY SentUnits
<1>3. /\ b \in Rate /\ c \in Nat /\ c < 2 * Units /\ 24000 \in Rate
      /\ Idling(m, b) \/ Busy(m, c, b)
  BY SettledCases DEF Rate, Settled
<1>4. t = addtoMp2Frame(m, u, 24000)
  OBVIOUS
<1> HIDE DEF u, b, c
<1>5. CASE Idling(m, b)
  <2>1. CASE f.half = 1
    <3>1. CASE b = 24000
      <4>1. Busy(t, Units, 24000) /\ t.begins = "true" /\ t.played = <<>>
        BY <1>2, <1>3, <1>4, <1>5, <2>1, <3>1, HeaderFrame
      <4>2. Settled(t) /\ Waits(t, 2) = 0
        <5>1. Units \in Nat /\ Units < 2 * Units
          BY <1>1
        <5> QED BY <4>1, <5>1, WaitsWhenBusy
      <4>3. Waits(m, 1) = 0
        BY <1>5, <3>1, WaitsWhenIdle
      <4> QED BY <1>1, <2>1, <4>1, <4>2, <4>3
    <3>2. CASE b = 48000
      <4>1. Idling(t, 24000)
        BY <1>2, <1>3, <1>4, <1>5, <2>1, <3>2, HeaderFrame
      <4>2. Settled(t) /\ Waits(t, 2) = 1
        BY <4>1, WaitsWhenIdle
      <4>3. Waits(m, 1) = 2
        BY <1>5, <3>2, WaitsWhenIdle
      <4> QED BY <1>1, <2>1, <4>2, <4>3
    <3> QED BY <1>3, <3>1, <3>2 DEF Rate
  <2>2. CASE f.half = 2
    <3>1. Idling(t, b) /\ t.played = <<>>
      BY <1>2, <1>3, <1>4, <1>5, <2>2, IdleFrame
    <3>2. Settled(t) /\ Waits(t, 1) = IF b = 24000 THEN 0 ELSE 2
      BY <3>1, WaitsWhenIdle
    <3>3. Waits(m, 2) = IF b = 24000 THEN 1 ELSE 3
      BY <1>5, WaitsWhenIdle
    <3> QED BY <1>1, <2>2, <3>2, <3>3
  <2> QED BY <1>1, <2>1, <2>2
<1>6. CASE Busy(m, c, b)
  <2> DEFINE lf == FullAt(b)
             p == IF c < lf THEN lf - c ELSE 1
  <2>1. (b = 24000 => lf = 2 * Units) /\ (b = 48000 => lf = Units)
    BY <1>1 DEF FramesOf, FullAt
  <2>2. /\ c + Units < lf => Busy(t, c + Units, b)
        /\ \A q \in 1 .. Units : q = p => Idling(t, b) /\ t.played = <<[begins |-> m.begins, units |-> c + q]>>
    <3>1. BusyEnds(m, c, b, u, 24000, t)
      BY <1>2, <1>3, <1>4, <1>6, BusyFrame
    <3> QED BY <1>2, <3>1 DEF BusyEnds
  <2> HIDE DEF lf
  <2>3. CASE c + Units < lf
    <3>1. b = 24000 /\ c < Units /\ c + Units \in Nat /\ c + Units < 2 * Units
      BY <1>1, <1>3, <2>1, <2>3 DEF Rate
    <3>2. Busy(t, c + Units, 24000)
      BY <2>2, <2>3, <3>1
    <3>3. Settled(t) /\ Waits(t, 1) = 2 /\ Waits(t, 2) \in {0, 1}
      <4> DEFINE d == c + Units
      <4>1. d \in Nat /\ d < 2 * Units /\ d >= Units /\ Busy(t, d, 24000)
        BY <1>1, <1>3, <3>1, <3>2
      <4> HIDE DEF d
      <4> QED BY <4>1, WaitsWhenBusy
    <3>4. Waits(m, 1) = 2 /\ Waits(m, 2) = 3
      <4>1. ~(c >= Units) /\ c # Units
        BY <1>1, <1>3, <3>1
      <4> QED BY <1>3, <1>6, <3>1, <4>1, WaitsWhenBusy
    <3> QED BY <1>1, <3>3, <3>4
  <2>4. CASE ~(c + Units < lf)
    <3>1. p \in 1 .. Units /\ (b = 24000 /\ c = Units => p = Units)
      BY <1>1, <1>3, <2>1, <2>4 DEF Rate
    <3> HIDE DEF p
    <3>2. Idling(t, b) /\ t.played = <<[begins |-> m.begins, units |-> c + p]>>
      BY <2>2, <3>1
    <3>3. Settled(t) /\ Waits(t, 1) = (IF b = 24000 THEN 0 ELSE 2) /\ Waits(t, 2) = IF b = 24000 THEN 1 ELSE 3
      BY <3>2, WaitsWhenIdle
    <3>4. /\ Waits(m, 1) = IF b = 24000 THEN 2 ELSE 4
          /\ Waits(m, 2) = IF b = 24000 /\ c = Units /\ m.begins = "true" THEN 0
                          ELSE IF b = 24000 /\ c >= Units THEN 1 ELSE 3
      BY <1>3, <1>6, WaitsWhenBusy
    <3>5. b = 24000 => c >= Units
      BY <1>1, <1>3, <2>1, <2>4
    <3>6. CASE f.half = 1
      BY <1>1, <1>3, <3>3, <3>4, <3>6 DEF Rate
    <3>7. CASE f.half = 2 /\ b = 48000
      BY <1>1, <3>3, <3>4, <3>7
    <3>8. CASE f.half = 2 /\ b = 24000
      <4>1. Waits(t, 1) = 0 /\ half = 1
        BY <1>1, <3>3, <3>8
      <4>2. Waits(m, 2) = IF c = Units /\ m.begins = "true" THEN 0 ELSE 1
        BY <3>4, <3>5, <3>8
      <4>3. Waits(m, 2) = 0 => t.played = <<[begins |-> "true", units |-> 2 * Units]>>
        <5>1. Units + Units = 2 * Units
          BY <1>1
        <5> QED BY <3>1, <3>2, <3>8, <4>2, <5>1
      <4> QED BY <3>3, <3>8, <4>1, <4>2, <4>3
    <3> QED BY <1>1, <1>3, <3>6, <3>7, <3>8 DEF Rate
  <2> QED BY <2>3, <2>4
<1> QED BY <1>3, <1>5, <1>6

\* Within a frame at 24 kHz the first bits of a header are only at its begin.
FirstOnlyFirst(units) == \A i \in 1 .. Len(units) : i > 1 => units[i] # "first"

Midway(s, i) ==
  /\ s \in Mp2State /\ s.MP2bitCount < 2 * Units /\ s.begins # "shifted"
  /\ s.MP2Header_OK = 0 => s.MP2bitCount = 0 /\ s.begins = "none"
  /\ s.partial => i = 1 /\ s.MP2Header_OK = 0

LEMMA MidwayStep ==
  ASSUME NEW s, NEW i \in Nat, Midway(s, i), NEW u \in UnitKind, i > 0 => u # "first",
         NEW lf \in FrameLength,
         NEW rate, rate = 24000, NEW t, t = addUnit(s, u, rate, lf)
  PROVE  Midway(t, i + 1)
<1>1. s \in Mp2State /\ rate \in Rate /\ Units \in Nat /\ Units >= 3
  BY UnitsAre DEF Midway, Rate
<1>2. CASE s.MP2Header_OK = 2
  <2>1. ~s.partial
    BY <1>2 DEF Midway
  <2>2. CASE s.MP2bitCount + 1 < lf
    <3>1. s.MP2bitCount + 1 < 2 * Units
      BY <1>1, <2>2, Mp2Fields DEF FrameLength
    <3>2. /\ t \in Mp2State /\ t.MP2Header_OK = 2 /\ t.MP2bitCount = s.MP2bitCount + 1
          /\ t.begins = s.begins /\ (t.partial <=> s.partial)
      BY <1>1, <1>2, <2>2, CollectMore
    <3> QED BY <2>1, <3>1, <3>2 DEF Midway
  <2>3. CASE ~(s.MP2bitCount + 1 < lf)
    <3>1. FrameDone(s, t)
      BY <1>1, <1>2, <2>3, CollectFull
    <3> QED BY <1>1, <2>1, <3>1 DEF Midway, FrameDone
  <2> QED BY <2>2, <2>3
<1>3. CASE s.MP2Header_OK = 0
  <2>0. s.MP2bitCount = 0 /\ s.begins = "none"
    BY <1>3 DEF Midway
  <2>1. CASE u = "first"
    <3>1. /\ t \in Mp2State /\ t.MP2Header_OK = 0 /\ t.MP2bitCount = s.MP2bitCount /\ t.begins = s.begins
      BY <1>1, <1>3, <2>1, SearchFirst
    <3>2. i + 1 = 1
      BY <2>1
    <3> QED BY <1>1, <2>0, <3>1, <3>2 DEF Midway
  <2>2. CASE u = "sound" \/ (u = "rest" /\ ~s.partial)
    <3>1. u = "sound" \/ (u = "rest" /\ ~s.partial /\ rate = 24000)
      BY <2>2
    <3>2. /\ t \in Mp2State /\ t.MP2Header_OK = 0 /\ t.MP2bitCount = s.MP2bitCount
          /\ t.begins = s.begins /\ ~t.partial
      BY <1>1, <1>3, <3>1, SearchNothing
    <3> QED BY <1>1, <2>0, <3>2 DEF Midway
  <2>3. CASE u = "rest" /\ s.partial
    <3>1. t \in Mp2State /\ t.MP2Header_OK = 2 /\ t.MP2bitCount = 2 /\ t.begins = "true" /\ ~t.partial
      BY <1>1, <1>3, <2>3, SearchHeader
    <3> QED BY <1>1, <3>1 DEF Midway
  <2>4. CASE u \in {"like24", "like48"}
    <3>1. t \in Mp2State /\ t.MP2Header_OK = 2 /\ t.MP2bitCount = 2 /\ t.begins = "sound" /\ ~t.partial
      BY <1>1, <1>3, <2>4, SearchLike
    <3> QED BY <1>1, <3>1 DEF Midway
  <2> QED BY <2>1, <2>2, <2>3, <2>4 DEF UnitKind
<1> QED BY <1>1, <1>2, <1>3, Mp2Fields

\* Whatever unit is disturbed, mp2Processor is settled after the frame.
LEMMA SettlesAgain ==
  ASSUME NEW m, Settled(m), NEW units \in Seq(UnitKind), Len(units) = Units, FirstOnlyFirst(units),
         NEW rate, rate = 24000, NEW t, t = addtoMp2Frame(m, units, rate)
  PROVE  Settled(t)
<1> DEFINE lf == FullAt(m.baudRate)
<1>1. m \in Mp2State /\ rate \in Rate /\ Units \in Nat /\ Units >= 3
  BY UnitsAre DEF Settled, Rate
<1>2. lf \in FrameLength
  BY <1>1 DEF FramesOf, FullAt, FrameLength
<1>3. PICK h : Through(h, m, units, rate, lf) /\ t = h[Units]
  BY <1>1, FrameUnits DEF FullAt
<1> HIDE DEF lf
<1> DEFINE S == {i \in Nat : i <= Units => Midway(h[i], i)}
<1>4. 0 \in S
  <2>1. Settled(h[0])
    <3>1. Through(h, m, units, rate, lf) /\ m \in Mp2State
      BY <1>1, <1>3
    <3>2. AtStart(m, h[0])
      BY <3>1, StartsAs
    <3> QED BY <3>2 DEF AtStart
  <2> QED BY <2>1 DEF Midway, Settled
<1>5. ASSUME NEW i \in Nat, i \in S PROVE i + 1 \in S
  <2> SUFFICES ASSUME i + 1 <= Units PROVE Midway(h[i + 1], i + 1)
    OBVIOUS
  <2>1. i + 1 \in 1 .. Len(units) /\ (i + 1) - 1 = i /\ Midway(h[i], i)
    BY <1>1, <1>5
  <2>2. h[i + 1] = addUnit(h[i], units[i + 1], rate, lf)
    BY <1>3, <2>1 DEF Through
  <2>3. units[i + 1] \in UnitKind /\ (i > 0 => units[i + 1] # "first")
    BY <2>1, Elements DEF FirstOnlyFirst
  <2> DEFINE s == h[i]
             v == h[i + 1]
             u == units[i + 1]
  <2>4. Midway(s, i) /\ u \in UnitKind /\ (i > 0 => u # "first") /\ v = addUnit(s, u, rate, lf)
    BY <2>1, <2>2, <2>3
  <2> HIDE DEF s, v, u
  <2>5. Midway(v, i + 1)
    BY <1>2, <2>4, MidwayStep
  <2> QED BY <2>5 DEF v
<1> HIDE DEF S
<1>6. \A i \in Nat : i \in S
  BY <1>4, <1>5, AllNumbers
<1>7. Midway(h[Units], Units)
  BY <1>1, <1>6 DEF S
<1>8. Settled(h[Units])
  BY <1>1, <1>7 DEF Midway, Settled
<1> QED BY <1>3, <1>8

\* At 48 kHz only a header can get lost.
LEMMA HeaderLost ==
  ASSUME NEW m, NEW b, b = 48000, Idling(m, b), NEW units \in Seq(UnitKind), Len(units) = Units,
         units[1] = "first", units[2] = "sound", \A i \in 1 .. Units : i > 2 => units[i] = "sound",
         NEW t, t = addtoMp2Frame(m, units, b)
  PROVE  Idling(t, b)
<1> DEFINE lf == FullAt(b)
<1>1. m \in Mp2State /\ m.baudRate = b /\ b \in Rate /\ Units \in Nat /\ Units >= 3
  BY UnitsAre DEF Idling, Rate
<1>2. PICK h : Through(h, m, units, b, lf) /\ t = h[Units]
  BY <1>1, FrameUnits DEF FullAt
<1> HIDE DEF lf
<1>3. Idling(h[0], b)
  <2>1. Through(h, m, units, b, lf) /\ m \in Mp2State
    BY <1>1, <1>2
  <2>2. AtStart(m, h[0])
    BY <2>1, StartsAs
  <2> QED BY <2>2 DEF AtStart
<1>4. h[1] = addUnit(h[0], "first", b, lf) /\ h[2] = addUnit(h[1], "sound", b, lf)
  <2>1. 1 \in 1 .. Len(units) /\ 1 - 1 = 0 /\ 2 \in 1 .. Len(units) /\ 2 - 1 = 1
    BY <1>1
  <2> QED BY <1>2, <2>1 DEF Through
<1> DEFINE s == h[0]
           v == h[1]
           w == h[2]
<1>5. /\ s \in Mp2State /\ s.MP2Header_OK = 0 /\ s.MP2bitCount = 0 /\ s.baudRate = b /\ s.begins = "none"
      /\ v = addUnit(s, "first", b, lf) /\ w = addUnit(v, "sound", b, lf)
  BY <1>3, <1>4 DEF Idling
<1> HIDE DEF s, v, w
<1>6. v \in Mp2State /\ v.MP2Header_OK = 0 /\ v.MP2bitCount = 0 /\ v.baudRate = b /\ v.begins = "none"
  BY <1>5, SearchFirst
<1>7. /\ w \in Mp2State /\ w.MP2Header_OK = 0 /\ w.MP2bitCount = v.MP2bitCount
      /\ w.baudRate = v.baudRate /\ w.begins = v.begins /\ ~w.partial
  <2>1. "sound" = "sound" \/ ("sound" = "rest" /\ ~v.partial /\ b = 24000)
    OBVIOUS
  <2> QED BY <1>5, <1>6, <2>1, SearchNothing
<1>8. Idling(h[2], b)
  BY <1>6, <1>7 DEF Idling, w
<1>9. IdleFrom(h, 2, Len(units), b)
  <2>1. QuietAfter(units, 2, b)
    BY DEF QuietAfter
  <2>2. 2 \in 0 .. Len(units)
    BY <1>1
  <2>3. Through(h, m, units, b, lf)
    BY <1>2
  <2> QED BY <1>8, <2>1, <2>2, <2>3, IdleRun
<1>10. Units - 2 \in Nat /\ 2 + (Units - 2) = Units /\ 2 + (Units - 2) <= Len(units)
  BY <1>1
<1> QED BY <1>2, <1>9, <1>10 DEF IdleFrom

\* What a disturbed frame is.
LEMMA DisturbedUnits ==
  ASSUME NEW f \in DabState, NEW units \in Disturbed(f)
  PROVE  /\ units \in Seq(UnitKind) /\ Len(units) = Units /\ FirstOnlyFirst(units)
         /\ f.rate = 48000 =>
              /\ units[1] = "first" /\ units[2] = "sound"
              /\ \A i \in 1 .. Units : i > 2 => units[i] = "sound"
<1> DEFINE sent == DabUnits(f)
<1>1. /\ sent \in Seq(UnitKind) /\ Len(sent) = Units /\ Units \in Nat /\ Units >= 3
      /\ f.half = 1 => sent[1] = "first" /\ sent[2] = "rest"
      /\ \A i \in 1 .. Units : i > 1 => sent[i] # "first"
      /\ \A i \in 1 .. Units : f.half = 2 \/ i > 2 => sent[i] = "sound"
  BY SentUnits, UnitsAre
<1>2. f.rate = 48000 => f.half = 1
  BY DEF DabState, FramesOf
<1>4. PICK i \in 1 .. Units, r \in {"sound", "like24", "like48"} :
        /\ units = [sent EXCEPT ![i] = r]
        /\ f.rate # 24000 => sent[i] = "rest" /\ r = "sound"
  BY DEF Disturbed, LooksLike
<1> HIDE DEF sent
<1>5. r \in UnitKind /\ r # "first" /\ DOMAIN sent = 1 .. Units
  BY <1>1, Elements DEF UnitKind
<1>6. units \in Seq(UnitKind) /\ Len(units) = Units
  BY <1>1, <1>4, <1>5
<1>7. \A j \in 1 .. Units : units[j] = IF j = i THEN r ELSE sent[j]
  BY <1>4, <1>5
<1>8. FirstOnlyFirst(units)
  BY <1>1, <1>5, <1>6, <1>7 DEF FirstOnlyFirst
<1>9. ASSUME f.rate = 48000
      PROVE  units[1] = "first" /\ units[2] = "sound" /\ \A j \in 1 .. Units : j > 2 => units[j] = "sound"
  <2>1. sent[1] = "first" /\ sent[2] = "rest" /\ sent[i] = "rest" /\ r = "sound"
    BY <1>1, <1>2, <1>4, <1>9
  <2>2. i = 2
    BY <1>1, <2>1
  <2> QED BY <1>1, <1>7, <2>1, <2>2
<1> QED BY <1>6, <1>8, <1>9

-----------------------------------------------------------------------------

\* At 24 kHz in step after four calm frames; at 48 kHz never out of it.
Mp2OK(m, f) ==
  /\ f \in DabState /\ Settled(m)
  /\ f.rate = 24000 => /\ Waits(m, f.half) <= IF f.calm < 4 THEN 4 - f.calm ELSE 0
                       /\ f.calm >= 5 => PlaysRight(m, f)
  /\ f.rate = 48000 => /\ Idling(m, 48000)
                       /\ f.calm >= 1 => PlaysRight(m, f)

Mp2Inv ==
  line \in Mp2Line => Mp2OK(audio, frames) /\ (line = "short" => frames.rate = 48000)

LEMMA WaitsAtMost == ASSUME NEW m, NEW half PROVE Waits(m, half) \in 0 .. 4
BY DEF Waits

LEMMA DisturbedKeeps ==
  ASSUME NEW m, NEW f, Mp2OK(m, f), NEW units \in Disturbed(f)
  PROVE  Mp2OK(addtoMp2Frame(m, units, f.rate), NextHalf(f, 0))
<1> DEFINE t == addtoMp2Frame(m, units, f.rate)
           g == NextHalf(f, 0)
<1>1. f \in DabState /\ Settled(m) /\ f.rate \in Rate /\ (f.rate = 48000 => Idling(m, 48000))
  BY DEF Mp2OK, DabState
<1>2. g \in DabState /\ g.rate = f.rate /\ g.calm = 0
  <2>1. 0 \in 0 .. CalmEnough + 1 /\ 0 < CalmEnough
    BY DEF CalmEnough
  <2> QED BY <1>1, <2>1, NextHalfIs
<1>3. /\ units \in Seq(UnitKind) /\ Len(units) = Units /\ FirstOnlyFirst(units)
      /\ f.rate = 48000 =>
           /\ units[1] = "first" /\ units[2] = "sound"
           /\ \A i \in 1 .. Units : i > 2 => units[i] = "sound"
  BY <1>1, DisturbedUnits
<1> HIDE DEF g
<1>4. CASE f.rate = 24000
  <2>1. t = addtoMp2Frame(m, units, f.rate)
    OBVIOUS
  <2> HIDE DEF t
  <2>2. Settled(t)
    BY <1>1, <1>3, <1>4, <2>1, SettlesAgain
  <2>3. Waits(t, g.half) <= 4
    BY WaitsAtMost
  <2>4. Mp2OK(t, g)
    BY <1>2, <1>4, <2>2, <2>3 DEF Mp2OK
  <2> QED BY <2>4 DEF t, g
<1>5. CASE f.rate = 48000
  <2>1. t = addtoMp2Frame(m, units, 48000)
    BY <1>5
  <2> HIDE DEF t
  <2>2. Idling(t, 48000)
    BY <1>1, <1>3, <1>5, <2>1, HeaderLost
  <2>3. Settled(t)
    BY <2>2, WaitsWhenIdle
  <2>4. Mp2OK(t, g)
    BY <1>2, <1>5, <2>2, <2>3 DEF Mp2OK
  <2> QED BY <2>4 DEF t, g
<1> QED BY <1>1, <1>4, <1>5 DEF Rate

LEMMA CalmKeeps ==
  ASSUME NEW m, NEW f, Mp2OK(m, f)
  PROVE  Mp2OK(addtoMp2Frame(m, DabUnits(f), f.rate), NextHalf(f, f.calm + 1))
<1> DEFINE t == addtoMp2Frame(m, DabUnits(f), f.rate)
           g == NextHalf(f, f.calm + 1)
<1>1. f \in DabState /\ Settled(m) /\ f.rate \in Rate /\ (f.rate = 48000 => Idling(m, 48000))
        /\ f.calm \in 0 .. CalmEnough
  BY DEF Mp2OK, DabState
<1>2. /\ g \in DabState /\ g.rate = f.rate /\ g.half = NextHalfOf(f)
      /\ g.calm = IF f.calm < 5 THEN f.calm + 1 ELSE 6
  <2>1. f.calm + 1 \in 0 .. CalmEnough + 1 /\ CalmEnough = 6
    BY <1>1 DEF CalmEnough
  <2>2. /\ g \in DabState /\ g.rate = f.rate /\ g.half = NextHalfOf(f)
        /\ g.calm = IF f.calm + 1 < CalmEnough THEN f.calm + 1 ELSE CalmEnough
    BY <1>1, <2>1, NextHalfIs
  <2> HIDE DEF g
  <2> QED BY <1>1, <2>1, <2>2
<1>3. g.half \in {1, 2} /\ f.half \in {1, 2}
  BY <1>1, <1>2 DEF DabState
<1> HIDE DEF g
<1>4. CASE f.rate = 24000
  <2> DEFINE w == Waits(m, f.half)
             x == Waits(t, g.half)
  <2> HIDE DEF t
  <2>1. /\ Settled(t) /\ w \in 0 .. 4
        /\ x <= IF w = 0 THEN 0 ELSE w - 1
        /\ w = 0 => t.played = IF g.half # 1 THEN <<>> ELSE <<[begins |-> "true", units |-> 2 * Units]>>
    BY <1>1, <1>2, <1>4, CalmFrame24 DEF t
  <2>2. x \in 0 .. 4
    BY WaitsAtMost
  <2>3. w <= IF f.calm < 4 THEN 4 - f.calm ELSE 0
    BY <1>4 DEF Mp2OK
  <2>4. w = 0 => PlaysRight(t, g)
    <3>1. Units * FramesOf(g.rate) = 2 * Units
      BY <1>2, <1>4, UnitsAre DEF FramesOf
    <3> QED BY <2>1, <3>1 DEF PlaysRight
  <2> HIDE DEF w, x
  <2>5. x <= IF g.calm < 4 THEN 4 - g.calm ELSE 0
    BY <1>1, <1>2, <2>1, <2>2, <2>3 DEF CalmEnough
  <2>6. g.calm >= 5 => PlaysRight(t, g)
    BY <1>1, <1>2, <2>1, <2>3, <2>4 DEF CalmEnough
  <2>7. Mp2OK(t, g)
    BY <1>2, <1>4, <2>1, <2>5, <2>6 DEF Mp2OK, x
  <2> QED BY <2>7 DEF t, g
<1>5. CASE f.rate = 48000
  <2> DEFINE u == DabUnits(f)
  <2>1. f.half = 1 /\ g.half = 1
    BY <1>1, <1>2, <1>5 DEF DabState, FramesOf, NextHalfOf
  <2>2. u \in Seq(UnitKind) /\ Len(u) = Units /\ u[1] = "first" /\ u[2] = "rest"
    BY <1>1, <2>1, SentUnits
  <2>3. t = addtoMp2Frame(m, u, 48000) /\ 48000 \in Rate
    BY <1>5 DEF Rate
  <2> HIDE DEF t, u
  <2>4. Idling(t, 48000) /\ t.played = <<[begins |-> "true", units |-> Units]>>
    BY <1>1, <1>5, <2>2, <2>3, HeaderFrame
  <2>5. PlaysRight(t, g)
    <3>1. Units * FramesOf(g.rate) = Units
      BY <1>2, <1>5, UnitsAre DEF FramesOf
    <3> QED BY <2>1, <2>4, <3>1 DEF PlaysRight
  <2>6. Settled(t)
    BY <2>4, WaitsWhenIdle
  <2>7. Mp2OK(t, g)
    BY <1>2, <1>5, <2>4, <2>5, <2>6 DEF Mp2OK
  <2> QED BY <2>7 DEF t, g
<1> QED BY <1>1, <1>4, <1>5 DEF Rate

\* A new mp2Processor.
LEMMA NewMp2 == Idling(mp2Processor, 48000)
<1>1. mp2Processor.MP2Header_OK = 0 /\ mp2Processor.MP2bitCount = 0 /\ mp2Processor.baudRate = 48000
        /\ mp2Processor.begins = "none"
  BY DEF mp2Processor
<1>2. ~mp2Processor.partial
  BY DEF mp2Processor
<1>3. mp2Processor \in Mp2State
  BY UnitsAre DEF mp2Processor, Mp2State, Rate, Begins
<1> QED BY <1>1, <1>2, <1>3 DEF Idling

LEMMA NewKeeps ==
  ASSUME NEW f \in DabState, f.calm = 0
  PROVE  Mp2OK(mp2Processor, f)
<1>1. Settled(mp2Processor)
  BY NewMp2, WaitsWhenIdle
<1>2. Waits(mp2Processor, f.half) <= 4
  BY WaitsAtMost
<1> QED BY <1>1, <1>2, NewMp2 DEF Mp2OK

LEMMA Mp2LineIs ==
  ASSUME line \in Mp2Line
  PROVE  line \notin Mp4Line /\ line \notin CodingLine /\ line \notin PadLine /\ line \in {"frames", "short"}
BY DEF Mp2Line, Mp4Line, PadLine, CodingLine

LEMMA Mp2Init == ASSUME Init PROVE Mp2Inv
<1> SUFFICES ASSUME line \in Mp2Line
             PROVE  Mp2OK(audio, frames) /\ (line = "short" => frames.rate = 48000)
  BY DEF Mp2Inv
<1>1. audio = mp2Processor
  BY Mp2LineIs DEF Init, theAudio
<1>2. frames \in DabFrames /\ (line = "short" => frames.rate = 48000)
  <2>1. CASE line = "frames"
    BY <2>1 DEF Init
  <2>2. CASE line = "short"
    BY <2>2 DEF Init
  <2> QED BY <2>1, <2>2, Mp2LineIs
<1>3. frames \in DabState /\ frames.calm = 0
  BY <1>2 DEF DabFrames, DabState, FramesOf, Rate, CalmEnough
<1> QED BY <1>1, <1>2, <1>3, NewKeeps

LEMMA Mp2Actions ==
  ASSUME Next, line \in Mp2Line
  PROVE  DabFrame \/ DisturbedFrame \/ ShortFrame \/ SelectAgain
BY DEF Next, SuperframePart, AccessUnit, GoodPacket, DamagedPacket, PaddingPacket, Coding, CodingNext,
       CodingLoss, PadLine, Mp2Line, CodingLine

LEMMA Mp2Step == ASSUME Mp2Inv, [Next]_vars PROVE Mp2Inv'
<1> SUFFICES ASSUME line \in Mp2Line
             PROVE  Mp2OK(audio', frames') /\ (line = "short" => frames'.rate = 48000)
  BY LineStays DEF Mp2Inv, Mp2OK
<1>1. Mp2OK(audio, frames) /\ (line = "short" => frames.rate = 48000) /\ frames \in DabState
  BY DEF Mp2Inv, Mp2OK
<1>2. CASE UNCHANGED vars
  BY <1>1, <1>2 DEF vars, apparatus
<1>3. CASE DabFrame \/ ShortFrame
  <2>1. audio' = addtoMp2Frame(audio, DabUnits(frames), frames.rate) /\ frames' = NextHalf(frames, frames.calm + 1)
    BY <1>3 DEF DabFrame, ShortFrame
  <2>2. Mp2OK(audio', frames')
    BY <1>1, <2>1, CalmKeeps
  <2>3. frames'.rate = frames.rate
    BY <1>1, <2>1 DEF NextHalf, DabState
  <2> QED BY <1>1, <2>2, <2>3
<1>4. CASE DisturbedFrame
  <2>1. PICK units \in Disturbed(frames) : audio' = addtoMp2Frame(audio, units, frames.rate)
    BY <1>4 DEF DisturbedFrame
  <2>2. frames' = NextHalf(frames, 0) /\ line = "frames"
    BY <1>4 DEF DisturbedFrame
  <2> QED BY <1>1, <2>1, <2>2, DisturbedKeeps
<1>5. CASE SelectAgain
  <2>1. audio' = mp2Processor /\ frames' = [frames EXCEPT !.calm = 0]
    BY <1>5, Mp2LineIs DEF SelectAgain, theAudio
  <2>2. frames' \in DabState /\ frames'.calm = 0 /\ frames'.rate = frames.rate
    BY <1>1, <2>1 DEF DabState, CalmEnough
  <2>3. Mp2OK(mp2Processor, frames')
    BY <2>2, NewKeeps
  <2> QED BY <1>1, <2>1, <2>2, <2>3
<1> QED BY <1>2, <1>3, <1>4, <1>5, Mp2Actions

\* An audio frame is decoded exactly when all its parts came, in order, and are its
\* own: the superframe of mp4Processor::addtoFrame, read from a ring that another
\* superframe may already have overwritten, and the frame of mp2Processor::addtoFrame,
\* at most five frames after the last that was disturbed, whatever it took for a header.
THEOREM FramesDecoded == Spec => []FramesWhole
<1>1. Init => SuperframeInv /\ Mp2Inv
  BY SuperframeInit, Mp2Init
<1>2. (SuperframeInv /\ Mp2Inv) /\ [Next]_vars => (SuperframeInv /\ Mp2Inv)'
  BY SuperframeStep, Mp2Step
<1>3. SuperframeInv /\ Mp2Inv => FramesWhole
  <2> SUFFICES ASSUME SuperframeInv, Mp2Inv PROVE FramesWhole
    OBVIOUS
  <2>1. ASSUME line = "superframes"
        PROVE  LET r     == frames.recent
                   whole == \A i \in 1 .. Parts :
                              /\ r[i].superframe = r[1].superframe /\ r[i].part = i - 1
                              /\ r[i].condition # "spoilt" /\ r[i] # Zero IN
               /\ audio.processed => whole
               /\ whole /\ r[1].condition = "good" => audio.processed
    BY <2>1, Zenon DEF SuperframeInv, Mp4OK, WholeNow
  <2>2. ASSUME line \in Mp2Line, frames.calm = CalmEnough
        PROVE  audio.played = IF frames.half # 1 THEN <<>>
                              ELSE <<[begins |-> "true", units |-> Units * FramesOf(frames.rate)]>>
    <3>1. PlaysRight(audio, frames)
      BY <2>2 DEF Mp2Inv, Mp2OK, DabState, Rate, CalmEnough
    <3> QED BY <3>1 DEF PlaysRight
  <2> QED BY <2>1, <2>2, Zenon DEF FramesWhole
<1> QED BY <1>1, <1>2, <1>3, PTL DEF Spec
=============================================================================
