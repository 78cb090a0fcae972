----------------------------- MODULE MotObjects -----------------------------
(***************************************************************************)
(* motObject, motDirectory and motHandler (backend/data/mot): objects that *)
(* are put together from segments that come in any order, repeatedly, and  *)
(* not all.  The members of each class are a record, its member functions  *)
(* take a record to the next one.                                          *)
(*                                                                         *)
(* A transport id is the object it was given to.  A segment is its number  *)
(* and, as its contents, the object that it was cut from, so that segments *)
(* of two objects in one can be told.                                      *)
(***************************************************************************)
EXTENDS Integers, Sequences, SequencesExt

CONSTANTS
  Object,       \* the objects that are sent with a header of their own
  DirObject,    \* the objects whose headers are in a directory
  Directory,    \* directories
  NumSegments,  \* of each object and directory: how many segments it has
  Listed,       \* of each directory: its objects, in order
  TableSize,    \* the slots of motTable
  None

Id == Object \union DirObject \union Directory

ASSUME MotAssumption ==
  /\ TableSize \in Nat \ {0} /\ None \notin Id
  /\ NumSegments \in [Id -> Nat \ {0}]
  /\ Listed \in [Directory -> Seq(DirObject)]

\* A segment of an MSC data group of type 3 (header), 4 (body) or 6 (directory).
DataGroup ==
  {[type |-> "header", id |-> o, number |-> 0, last |-> TRUE] : o \in Object}
    \union (UNION {{[type |-> "body", id |-> o, number |-> n, last |-> n = NumSegments[o] - 1] :
                      n \in 0 .. NumSegments[o] - 1} : o \in Object \union DirObject})
    \union (UNION {{[type |-> "directory", id |-> d, number |-> n, last |-> n = NumSegments[d] - 1] :
                      n \in 0 .. NumSegments[d] - 1} : d \in Directory})

Piece(g) == [number |-> g.number, of |-> g.id]

\* Everything there is of an object, each once.
AllOf(o) == {[number |-> n, of |-> o] : n \in 0 .. NumSegments[o] - 1}

-----------------------------------------------------------------------------
(* motObject.                                                              *)

motObject(id) == [transportId |-> id, motMap |-> {}, numofSegments |-> -1]

Has(pieces, n) == \E p \in pieces : p.number = n

\* All segments are in, once their number is known.
Complete(pieces, count) == count # -1 /\ \A n \in 0 .. count - 1 : Has(pieces, n)

\* Mutant: complete as soon as the last segment is in.
addBodySegmentHasty(h, g) ==
  IF Has(h.motMap, g.number) THEN [object |-> h, handed |-> None]
  ELSE LET new == [h EXCEPT !.motMap = @ \union {Piece(g)},
                            !.numofSegments = IF g.last THEN g.number + 1 ELSE @] IN
       [object |-> new, handed |-> IF new.numofSegments # -1 THEN new ELSE None]

\* A segment that is there already changes nothing; handleComplete is called with
\* the one that completes the object.
addBodySegment(h, g) ==
  IF Has(h.motMap, g.number) THEN [object |-> h, handed |-> None]
  ELSE LET new == [h EXCEPT !.motMap = @ \union {Piece(g)},
                            !.numofSegments = IF g.last THEN g.number + 1 ELSE @] IN
       [object |-> new,
        handed |-> IF Complete(new.motMap, new.numofSegments) THEN new ELSE None]

-----------------------------------------------------------------------------
(* motDirectory.                                                           *)

\* Segment 0, which is all that the constructor looks at.
motDirectory(g) ==
  [transportId |-> g.id, marked |-> {Piece(g)}, num_dirSegments |-> -1, motComponents |-> <<>>]

\* analyse_theDirectory: an object for every header in the bytes of the directory.
analyse_theDirectory(dir) ==
  IF dir.marked = AllOf(dir.transportId)
  THEN [dir EXCEPT !.motComponents = [i \in DOMAIN Listed[dir.transportId] |->
                                        motObject(Listed[dir.transportId][i])]]
  ELSE dir

directorySegment(dir, g) ==
  IF Has(dir.marked, g.number) THEN dir
  ELSE LET new == [dir EXCEPT !.marked = @ \union {Piece(g)},
                              !.num_dirSegments = IF g.last THEN g.number + 1 ELSE @] IN
       IF Complete(new.marked, new.num_dirSegments) THEN analyse_theDirectory(new) ELSE new

-----------------------------------------------------------------------------
(* motHandler.                                                             *)

\* motTable in the order of the order numbers, the oldest first.  The slots and
\* the numbers themselves decide nothing else.
motHandler == [motTable |-> <<>>, theDirectory |-> None, handed |-> None]

\* Where getHandle finds an object: the table is searched first.
InTable(m, id) == {i \in DOMAIN m.motTable : m.motTable[i].transportId = id}

InDirectory(m, id) ==
  IF m.theDirectory = None THEN {}
  ELSE {i \in DOMAIN m.theDirectory.motComponents :
          m.theDirectory.motComponents[i].transportId = id}

\* Mutant: the newest object is replaced, not the oldest.
setHandleNewest(m, h) ==
  [m EXCEPT !.motTable = IF Len(@) < TableSize THEN Append(@, h)
                                               ELSE Append(Front(@), h)]

\* A free slot, or that of the oldest object.
setHandle(m, h) ==
  [m EXCEPT !.motTable = IF Len(@) < TableSize THEN Append(@, h) ELSE Append(Tail(@), h)]

Header(m, g) ==
  IF InTable(m, g.id) \union InDirectory(m, g.id) # {} THEN m
  ELSE setHandle(m, motObject(g.id))

Body(m, g) ==
  IF InTable(m, g.id) # {}
  THEN LET i == CHOOSE j \in InTable(m, g.id) : TRUE
           r == addBodySegment(m.motTable[i], g) IN
       [m EXCEPT !.motTable[i] = r.object, !.handed = r.handed]
  ELSE IF InDirectory(m, g.id) # {}
  THEN LET i == CHOOSE j \in InDirectory(m, g.id) : TRUE
           r == addBodySegment(m.theDirectory.motComponents[i], g) IN
       [m EXCEPT !.theDirectory.motComponents[i] = r.object, !.handed = r.handed]
  ELSE m

DirectoryIs(m, g) == m.theDirectory # None /\ m.theDirectory.transportId = g.id

DirectorySegment(m, g) ==
  IF g.number = 0
  THEN IF DirectoryIs(m, g) THEN m ELSE [m EXCEPT !.theDirectory = motDirectory(g)]
  ELSE IF DirectoryIs(m, g) THEN [m EXCEPT !.theDirectory = directorySegment(@, g)] ELSE m

\* A data group whose CRC is right.
add_mscDatagroup(m, g) ==
  LET quiet == [m EXCEPT !.handed = None] IN
  CASE g.type = "header"    -> Header(quiet, g)
    [] g.type = "body"      -> Body(quiet, g)
    [] g.type = "directory" -> DirectorySegment(quiet, g)
=============================================================================
