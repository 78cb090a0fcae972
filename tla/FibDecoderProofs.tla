-------------------------- MODULE FibDecoderProofs ---------------------------
(***************************************************************************)
(* Proofs about FibDecoder, for tables of any size and any services,       *)
(* components and labels that keep to FibAssumption.                       *)
(***************************************************************************)
EXTENDS FibDecoder, SequenceTheorems, FiniteSetTheorems, WellFoundedInduction, TLAPS

-----------------------------------------------------------------------------
(* Searching the tables.                                                   *)

\* A set of numbers that is not empty has a least one.
LEMMA Least ==
  ASSUME NEW S, S \subseteq Nat, S # {}
  PROVE  \E i \in S : \A j \in S : i <= j
<1> DEFINE R == OpToRel(<, Nat)
<1>1. IsWellFoundedOn(R, Nat)
  BY NatLessThanWellFounded
<1> HIDE DEF R
<1>2. PICK i \in S : \A j \in S : ~(<<j, i>> \in R)
  BY <1>1, WFMin
<1>3. \A j \in Nat : j < i => <<j, i>> \in R
  BY DEF R, OpToRel
<1>4. ASSUME NEW j \in S PROVE i <= j
  <2>1. i \in Nat /\ j \in Nat /\ ~(<<j, i>> \in R)
    BY <1>2
  <2>2. ~(j < i)
    BY <1>3, <2>1
  <2> QED
    BY <2>1, <2>2
<1> QED
  BY <1>4

\* First finds the least index, and 0 only when there is none.
LEMMA FirstFound ==
  ASSUME NEW S, S \subseteq Nat \ {0}
  PROVE  /\ S = {} <=> First(S) = 0
         /\ S # {} => First(S) \in S /\ \A j \in S : First(S) <= j
<1>1. S # {} => \E i \in S : \A j \in S : i <= j
  BY Least
<1> QED
  BY <1>1 DEF First

\* An index of a table of services.
Place == 1 .. Slots

\* The values of the table of services.
ServiceRow == [inUse : BOOLEAN, SId : SId \cup {None}, SCIds : 0 .. 15,
               label : Label \cup {None}, is_shown : BOOLEAN]
ServiceTable == [Place -> ServiceRow]

\* An entry is found by its SId when it, or one with the same SId, stands before
\* the first hole.
BeforeHole(srv, i) ==
  \E j \in 1 .. i : srv[j].SId = srv[i].SId /\ \A m \in 1 .. j : srv[m].inUse

\* A service found has the SId looked for.
LEMMA ServiceFound ==
  ASSUME NEW srv \in ServiceTable, NEW s, findService(srv, s) # 0
  PROVE  /\ findService(srv, s) \in Place
         /\ srv[findService(srv, s)].inUse
         /\ srv[findService(srv, s)].SId = s
<1> DEFINE S == {j \in 1 .. Slots : ~srv[j].inUse \/ srv[j].SId = s}
<1>1. S \subseteq Nat \ {0}
  BY FibAssumption DEF FibAssumption
<1>2. First(S) # 0 /\ srv[First(S)].inUse /\ findService(srv, s) = First(S)
  BY <1>1 DEF findService
<1>3. First(S) \in S
  BY <1>1, <1>2, FirstFound
<1> QED
  BY <1>2, <1>3 DEF Place

\* findService finds every service that stands before the first hole.
LEMMA FoundBeforeHole ==
  ASSUME NEW srv \in ServiceTable, NEW i \in Place, BeforeHole(srv, i)
  PROVE  findService(srv, srv[i].SId) # 0
<1> DEFINE s == srv[i].SId
           S == {j \in 1 .. Slots : ~srv[j].inUse \/ srv[j].SId = s}
<1> USE FibAssumption DEF FibAssumption, Place
<1>1. PICK j \in 1 .. i : srv[j].SId = s /\ \A m \in 1 .. j : srv[m].inUse
  BY DEF BeforeHole
<1>2. S \subseteq Nat \ {0} /\ j \in S
  BY <1>1
<1>3. First(S) \in S /\ First(S) <= j /\ First(S) # 0
  BY <1>2, FirstFound
<1>4. srv[First(S)].inUse
  BY <1>1, <1>2, <1>3
<1> QED
  BY <1>3, <1>4 DEF findService

\* And nothing else.
LEMMA HoleBeforeRest ==
  ASSUME NEW srv \in ServiceTable, NEW i \in Place, findService(srv, srv[i].SId) # 0
  PROVE  BeforeHole(srv, i)
<1> DEFINE s == srv[i].SId
           S == {j \in 1 .. Slots : ~srv[j].inUse \/ srv[j].SId = s}
<1> USE FibAssumption DEF FibAssumption, Place
<1>1. S \subseteq Nat \ {0} /\ i \in S
  OBVIOUS
<1>2. First(S) \in S /\ \A m \in S : First(S) <= m
  BY <1>1, FirstFound
<1>3. findService(srv, s) = First(S)
  BY DEF findService
<1>4. srv[First(S)].inUse /\ srv[First(S)].SId = s /\ First(S) \in 1 .. i
  BY <1>1, <1>2, <1>3, ServiceFound
<1> DEFINE j == First(S)
<1>5. \A m \in 1 .. j : srv[m].inUse
  <2> SUFFICES ASSUME NEW m \in 1 .. j PROVE srv[m].inUse
    OBVIOUS
  <2>1. CASE m = j
    BY <1>4, <2>1
  <2>2. CASE m < j
    <3>1. m \in 1 .. Slots /\ m \notin S
      BY <1>2, <1>4, <2>2
    <3> QED
      BY <3>1
  <2> QED
    BY <1>4, <2>1, <2>2
<1> QED
  BY <1>4, <1>5 DEF BeforeHole

\* A label found is the label looked for.
LEMMA LabelFound ==
  ASSUME NEW srv \in ServiceTable, NEW name
  PROVE  /\ findLabel(srv, name) # 0 =>
              /\ findLabel(srv, name) \in Place
              /\ srv[findLabel(srv, name)].inUse
              /\ srv[findLabel(srv, name)].label = name
         /\ findLabel(srv, name) = 0 =>
              \A i \in Place : ~(srv[i].inUse /\ srv[i].label = name)
<1> DEFINE S == {i \in 1 .. Slots : srv[i].inUse /\ srv[i].label = name}
<1>1. S \subseteq Nat \ {0} /\ findLabel(srv, name) = First(S)
  BY FibAssumption DEF FibAssumption, findLabel
<1>2. S = {} <=> First(S) = 0
  BY <1>1, FirstFound
<1>3. S # {} => First(S) \in S
  BY <1>1, FirstFound
<1> QED
  BY <1>1, <1>2, <1>3 DEF Place

\* The new entry takes the first hole.
LEMMA CreatedEntry ==
  ASSUME NEW srv \in ServiceTable, NEW n \in Named
  PROVE  /\ Created(srv, n) \in ServiceTable
         /\ \/ Created(srv, n) = srv /\ \A i \in Place : srv[i].inUse
            \/ \E i \in Place :
                 /\ ~srv[i].inUse /\ \A m \in 1 .. i - 1 : srv[m].inUse
                 /\ Created(srv, n)[i] = [inUse |-> TRUE, SId |-> n.SId, SCIds |-> n.SCIds,
                                          label |-> n.label, is_shown |-> srv[i].is_shown]
                 /\ \A j \in Place \ {i} : Created(srv, n)[j] = srv[j]
<1> DEFINE S == {j \in 1 .. Slots : ~srv[j].inUse}
           i == First(S)
           new == [inUse |-> TRUE, SId |-> n.SId, SCIds |-> n.SCIds,
                   label |-> n.label, is_shown |-> srv[i].is_shown]
<1> USE FibAssumption DEF FibAssumption, Place
<1>1. S \subseteq Nat \ {0}
  OBVIOUS
<1>2. CASE S = {}
  <2>1. Created(srv, n) = srv
    BY <1>1, <1>2, FirstFound DEF Created
  <2> QED
    BY <1>2, <2>1
<1>3. CASE S # {}
  <2>1. i \in S /\ i # 0 /\ \A j \in S : i <= j
    BY <1>1, <1>3, FirstFound
  <2>2. Created(srv, n) = [srv EXCEPT ![i] = new]
    BY <2>1 DEF Created
  <2>3. new \in ServiceRow
    <3>1. n.label \in Label /\ n.SId \in SId /\ n.SCIds \in 0 .. 15
      BY DEF Label
    <3>2. srv[i] \in ServiceRow
      BY <2>1 DEF ServiceTable
    <3>3. srv[i].is_shown \in BOOLEAN
      BY <3>2 DEF ServiceRow
    <3> QED
      BY <3>1, <3>3 DEF ServiceRow
  <2> HIDE DEF new, i
  <2>4. Created(srv, n) \in ServiceTable
    BY <2>1, <2>2, <2>3 DEF ServiceTable
  <2>5. Created(srv, n)[i] = new /\ \A j \in Place \ {i} : Created(srv, n)[j] = srv[j]
    BY <2>1, <2>2 DEF ServiceTable
  <2>6. \A m \in 1 .. i - 1 : srv[m].inUse
    BY <2>1
  <2> QED
    BY <2>1, <2>4, <2>5, <2>6 DEF new
<1> QED
  BY <1>2, <1>3
-----------------------------------------------------------------------------
(* The table of services.                                                  *)

\* Every entry in use can be found, has the label of one service or component on
\* air, with its number or none, and no other entry has that label.
NamedBy(row, n) ==
  n.label = row.label /\ n.SId = row.SId /\ row.SCIds \in {0, n.SCIds}

Rows(srv) ==
  /\ srv \in ServiceTable
  /\ \A i \in Place : srv[i].inUse => BeforeHole(srv, i)
  /\ \A i \in Place : srv[i].inUse => \E n \in Named : NamedBy(srv[i], n)
  /\ \A i, j \in Place :
       srv[i].inUse /\ srv[j].inUse /\ srv[i].label = srv[j].label => i = j

\* What changes only numbers and marks of entries keeps that.
LEMMA RowsTouched ==
  ASSUME NEW srv, Rows(srv), NEW new \in ServiceTable,
         \A i \in Place : /\ new[i].inUse = srv[i].inUse /\ new[i].SId = srv[i].SId
                          /\ new[i].label = srv[i].label
                          /\ new[i].SCIds \in {0, srv[i].SCIds}
  PROVE  Rows(new)
<1>1. ASSUME NEW i \in Place, new[i].inUse PROVE BeforeHole(new, i)
  <2>1. PICK j \in 1 .. i : srv[j].SId = srv[i].SId /\ \A m \in 1 .. j : srv[m].inUse
    BY <1>1 DEF Rows, BeforeHole
  <2>2. 1 .. i \subseteq Place
    BY FibAssumption DEF FibAssumption, Place
  <2>3. \A m \in 1 .. j : m \in Place
    BY <2>2 DEF Place
  <2>4. new[j].SId = new[i].SId /\ \A m \in 1 .. j : new[m].inUse
    BY <2>1, <2>2, <2>3
  <2> QED
    BY <2>4 DEF BeforeHole
<1>2. ASSUME NEW i \in Place, new[i].inUse PROVE \E n \in Named : NamedBy(new[i], n)
  <2>1. PICK n \in Named : NamedBy(srv[i], n)
    BY <1>2 DEF Rows
  <2> QED
    BY <2>1 DEF NamedBy
<1> QED
  BY <1>1, <1>2 DEF Rows

\* So does a new entry whose label is not yet there.
LEMMA RowsCreated ==
  ASSUME NEW srv, Rows(srv), NEW n \in Named,
         \A i \in Place : ~(srv[i].inUse /\ srv[i].label = n.label)
  PROVE  Rows(Created(srv, n))
<1> DEFINE new == Created(srv, n)
<1>1. srv \in ServiceTable
  BY DEF Rows
<1>2. CASE new = srv
  BY <1>2
<1>3. CASE new # srv
  <2>1. PICK h \in Place :
          /\ ~srv[h].inUse /\ \A m \in 1 .. h - 1 : srv[m].inUse
          /\ new[h] = [inUse |-> TRUE, SId |-> n.SId, SCIds |-> n.SCIds,
                       label |-> n.label, is_shown |-> srv[h].is_shown]
          /\ \A j \in Place \ {h} : new[j] = srv[j]
    BY <1>1, <1>3, CreatedEntry
  <2>2. new \in ServiceTable
    BY <1>1, CreatedEntry
  <2> HIDE DEF new
  <2>3. \A i \in Place : 1 .. i \subseteq Place
    BY FibAssumption DEF FibAssumption, Place
  <2>4. ASSUME NEW i \in Place, new[i].inUse PROVE BeforeHole(new, i)
    <3>1. CASE i = h
      <4>1. \A m \in 1 .. h : new[m].inUse
        <5> SUFFICES ASSUME NEW m \in 1 .. h PROVE new[m].inUse
          OBVIOUS
        <5>1. CASE m = h
          BY <2>1, <5>1
        <5>2. CASE m # h
          <6>1. m \in 1 .. h - 1 /\ m \in Place
            BY <2>3, <5>2 DEF Place
          <6> QED
            BY <2>1, <5>2, <6>1
        <5> QED
          BY <5>1, <5>2
      <4>2. h \in 1 .. h
        BY DEF Place
      <4> QED
        BY <3>1, <4>1, <4>2 DEF BeforeHole
    <3>2. CASE i # h
      <4>1. srv[i].inUse
        BY <2>1, <2>4, <3>2
      <4>2. PICK j \in 1 .. i : srv[j].SId = srv[i].SId /\ \A m \in 1 .. j : srv[m].inUse
        BY <4>1 DEF Rows, BeforeHole
      <4>3. j \in Place /\ 1 .. j \subseteq Place
        BY <2>3 DEF Place
      <4>4. \A m \in 1 .. j : m # h /\ new[m] = srv[m]
        BY <2>1, <4>2, <4>3
      <4>5. j \in 1 .. j
        BY <4>3 DEF Place
      <4>6. new[j].SId = new[i].SId /\ \A m \in 1 .. j : new[m].inUse
        BY <2>1, <3>2, <4>2, <4>4, <4>5
      <4> QED
        BY <4>6 DEF BeforeHole
    <3> QED
      BY <3>1, <3>2
  <2>5. ASSUME NEW i \in Place, new[i].inUse PROVE \E m \in Named : NamedBy(new[i], m)
    <3>1. CASE i = h
      BY <2>1, <3>1 DEF NamedBy
    <3>2. CASE i # h
      BY <2>1, <2>5, <3>2 DEF Rows
    <3> QED
      BY <3>1, <3>2
  <2>6. \A i, j \in Place :
          new[i].inUse /\ new[j].inUse /\ new[i].label = new[j].label => i = j
    BY <2>1 DEF Rows
  <2> QED
    BY <2>2, <2>4, <2>5, <2>6 DEF Rows, new
<1> QED
  BY <1>2, <1>3

\* So does the clean-up after a change of configuration: what it leaves behind
\* the first hole has a service before it.
LEMMA RowsCleaned ==
  ASSUME NEW srv, Rows(srv), NEW base
  PROVE  Rows(cleanupServiceList(srv, base))
<1> DEFINE new == cleanupServiceList(srv, base)
           kept(i) == /\ Healthy(srv, base, i)
                      /\ \E j \in 1 .. i : /\ srv[j].SId = srv[i].SId
                                           /\ \A m \in 1 .. j : Healthy(srv, base, m)
<1>1. \A i \in Place : 1 .. i \subseteq Place
  BY FibAssumption DEF FibAssumption, Place
<1>2. \A i \in Place : new[i] = [srv[i] EXCEPT !.inUse = kept(i)]
  BY DEF cleanupServiceList, Place
<1>3. \A i \in Place : Healthy(srv, base, i) \in BOOLEAN /\ kept(i) \in BOOLEAN
  BY DEF Rows, ServiceTable, ServiceRow, Healthy
<1>4. new \in ServiceTable
  <2>1. \A i \in Place : srv[i] \in ServiceRow
    BY DEF Rows, ServiceTable
  <2>2. \A i \in Place : [srv[i] EXCEPT !.inUse = kept(i)] \in ServiceRow
    BY <1>3, <2>1 DEF ServiceRow
  <2> QED
    BY <2>2 DEF ServiceTable, cleanupServiceList, Place
<1>5. \A i \in Place : /\ new[i].inUse <=> kept(i)
                       /\ new[i].SId = srv[i].SId /\ new[i].label = srv[i].label
                       /\ new[i].SCIds = srv[i].SCIds
  <2> SUFFICES ASSUME NEW i \in Place
               PROVE  /\ new[i].inUse <=> kept(i)
                      /\ new[i].SId = srv[i].SId /\ new[i].label = srv[i].label
                      /\ new[i].SCIds = srv[i].SCIds
    OBVIOUS
  <2>1. srv[i] \in ServiceRow
    BY DEF Rows, ServiceTable
  <2> HIDE DEF new, kept
  <2> QED
    BY <1>2, <2>1 DEF ServiceRow
<1> HIDE DEF new
<1>6. \A i \in Place : kept(i) => srv[i].inUse
  BY DEF Healthy
<1>7. ASSUME NEW i \in Place, new[i].inUse PROVE BeforeHole(new, i)
  <2>1. PICK j \in 1 .. i : /\ srv[j].SId = srv[i].SId
                            /\ \A m \in 1 .. j : Healthy(srv, base, m)
    BY <1>5, <1>7
  <2>2. j \in Place /\ 1 .. j \subseteq Place
    BY <1>1 DEF Place
  <2>3. ASSUME NEW m \in 1 .. j PROVE new[m].inUse
    <3>1. m \in Place /\ m \in 1 .. m /\ 1 .. m \subseteq 1 .. j
      BY <2>2 DEF Place
    <3>2. kept(m)
      BY <2>1, <3>1
    <3> QED
      BY <1>5, <3>1, <3>2
  <2>4. new[j].SId = new[i].SId
    BY <1>5, <2>1, <2>2
  <2> QED
    BY <2>3, <2>4 DEF BeforeHole
<1>8. ASSUME NEW i \in Place, new[i].inUse PROVE \E n \in Named : NamedBy(new[i], n)
  <2>1. PICK n \in Named : NamedBy(srv[i], n)
    BY <1>5, <1>6, <1>8 DEF Rows
  <2> QED
    BY <1>5, <2>1 DEF NamedBy
<1>9. \A i, j \in Place :
        new[i].inUse /\ new[j].inUse /\ new[i].label = new[j].label => i = j
  <2> HIDE DEF kept
  <2> QED
    BY <1>5, <1>6 DEF Rows
<1> QED
  BY <1>4, <1>7, <1>8, <1>9 DEF Rows, new

\* A full table has all labels on air.
LEMMA FullTable ==
  ASSUME NEW srv, Rows(srv), \A i \in Place : srv[i].inUse, NEW n \in Named
  PROVE  \E i \in Place : srv[i].label = n.label
<1> SUFFICES ASSUME \A i \in Place : srv[i].label # n.label PROVE FALSE
  OBVIOUS
<1> USE FibAssumption DEF FibAssumption
<1> DEFINE T == Named \ {n}
           f == [i \in Place |-> CHOOSE m \in T : m.label = srv[i].label]
<1>1. \A i \in Place : \E m \in T : m.label = srv[i].label
  BY DEF Rows, NamedBy
<1>2. \A i \in Place : f[i] \in T /\ f[i].label = srv[i].label
  BY <1>1
<1> HIDE DEF f
<1>3. f \in [Place -> T]
  BY <1>2 DEF f
<1>4. IsFiniteSet(Place) /\ Cardinality(Place) = Slots
  BY FS_Interval DEF Place
<1>5. IsFiniteSet(T) /\ Cardinality(T) = Cardinality(Named) - 1
  BY FS_RemoveElement
<1>6. Cardinality(T) < Cardinality(Place)
  BY <1>4, <1>5, FS_CardinalityType
<1>7. PICK i, j \in Place : i # j /\ f[i] = f[j]
  BY <1>3, <1>4, <1>5, <1>6, FS_PigeonHole
<1> QED
  BY <1>2, <1>7 DEF Rows
-----------------------------------------------------------------------------
(* The configurations.                                                     *)

\* The values of a service component.
Component == [SId : SId, SCIds : -1 .. 15, TMid : {"audio", "packet"},
              SCId : PacketId, componentNr : Nat,
              subchannelId : SubCh \cup {None}, is_madePublic : BOOLEAN]

\* A component in the table is one on air, and its subchannel, as far as it is
\* known, is the one it has on air and is in the configuration.
FromAir(chans, e) ==
  /\ e.subchannelId \in chans \cup {None}
  /\ \E a \in OnAir :
       /\ a.SId = e.SId /\ a.TMid = e.TMid
       /\ e.subchannelId \in {a.subchannelId, None}
       /\ e.SCId = IF a.TMid = "packet" THEN a.SCId ELSE None

BaseOK(base) ==
  /\ base \in [subChannels : SUBSET SubCh, serviceComps : Seq(Component)]
  /\ \A k \in 1 .. Len(base.serviceComps) : FromAir(base.subChannels, base.serviceComps[k])

\* An empty configuration.
LEMMA BaseEmpty == BaseOK(NoConfig)
<1>1. Len(NoConfig.serviceComps) = 0
  BY DEF NoConfig
<1>2. NoConfig \in [subChannels : SUBSET SubCh, serviceComps : Seq(Component)]
  BY DEF NoConfig
<1> QED
  BY <1>1, <1>2 DEF BaseOK

\* The parts of a configuration.
LEMMA BaseParts ==
  ASSUME NEW base, BaseOK(base)
  PROVE  /\ base.subChannels \subseteq SubCh /\ base.serviceComps \in Seq(Component)
         /\ Len(base.serviceComps) \in Nat
         /\ DOMAIN base.serviceComps = 1 .. Len(base.serviceComps)
         /\ \A k \in 1 .. Len(base.serviceComps) : base.serviceComps[k] \in Component
<1>1. base.subChannels \subseteq SubCh /\ base.serviceComps \in Seq(Component)
  BY DEF BaseOK
<1> QED
  BY <1>1, LenProperties

\* A subchannel more.
LEMMA BaseSubChannel ==
  ASSUME NEW base, BaseOK(base), NEW c \in SubCh
  PROVE  BaseOK([base EXCEPT !.subChannels = @ \cup {c}])
<1> DEFINE new == [base EXCEPT !.subChannels = @ \cup {c}]
<1>1. /\ new.subChannels = base.subChannels \cup {c} /\ new.serviceComps = base.serviceComps
      /\ new \in [subChannels : SUBSET SubCh, serviceComps : Seq(Component)]
  BY DEF BaseOK
<1> HIDE DEF new
<1>2. \A e : FromAir(base.subChannels, e) => FromAir(new.subChannels, e)
  BY <1>1 DEF FromAir
<1> QED
  BY <1>1, <1>2 DEF BaseOK, new

\* A component more.
LEMMA BaseAppend ==
  ASSUME NEW base, BaseOK(base), NEW e \in Component, FromAir(base.subChannels, e)
  PROVE  BaseOK([base EXCEPT !.serviceComps = Append(@, e)])
<1> DEFINE new == [base EXCEPT !.serviceComps = Append(@, e)]
           s == base.serviceComps
<1>1. s \in Seq(Component) /\ Len(s) \in Nat
  BY BaseParts
<1>2. /\ Append(s, e) \in Seq(Component) /\ Len(Append(s, e)) = Len(s) + 1
      /\ \A i \in 1 .. Len(s) : Append(s, e)[i] = s[i]
      /\ Append(s, e)[Len(s) + 1] = e
  BY <1>1, AppendProperties
<1>3. /\ new.subChannels = base.subChannels /\ new.serviceComps = Append(s, e)
      /\ new \in [subChannels : SUBSET SubCh, serviceComps : Seq(Component)]
  BY <1>2 DEF BaseOK
<1>4. \A k \in 1 .. Len(s) : FromAir(base.subChannels, s[k])
  BY DEF BaseOK
<1> HIDE DEF new, s
<1>5. \A k \in 1 .. Len(s) + 1 : FromAir(base.subChannels, Append(s, e)[k])
  BY <1>1, <1>2, <1>4
<1> QED
  BY <1>2, <1>3, <1>5 DEF BaseOK, new

\* A component changed.
LEMMA BaseExcept ==
  ASSUME NEW base, BaseOK(base), NEW k \in 1 .. Len(base.serviceComps),
         NEW e \in Component, FromAir(base.subChannels, e),
         NEW new, new = [base EXCEPT !.serviceComps = [@ EXCEPT ![k] = e]]
  PROVE  BaseOK(new)
<1> DEFINE s == base.serviceComps
           t == [s EXCEPT ![k] = e]
<1>1. s \in Seq(Component) /\ Len(s) \in Nat
  BY BaseParts
<1>2. /\ t \in Seq(Component) /\ Len(t) = Len(s)
      /\ \A j \in 1 .. Len(s) : t[j] = IF j = k THEN e ELSE s[j]
  BY <1>1, ExceptSeq
<1>3. /\ new.subChannels = base.subChannels /\ new.serviceComps = t
      /\ new \in [subChannels : SUBSET SubCh, serviceComps : Seq(Component)]
  BY <1>2 DEF BaseOK
<1>4. \A j \in 1 .. Len(s) : FromAir(base.subChannels, s[j])
  BY DEF BaseOK
<1> HIDE DEF t
<1> QED
  BY <1>1, <1>2, <1>3, <1>4 DEF BaseOK

\* The components the searches find.
LEMMA ComponentFound ==
  ASSUME NEW base, BaseOK(base)
  PROVE  /\ \A id : findPacket(base, id) # 0 =>
              /\ findPacket(base, id) \in 1 .. Len(base.serviceComps)
              /\ base.serviceComps[findPacket(base, id)].SCId = id
         /\ \A s, c : findComponent(base, s, c) # 0 =>
              findComponent(base, s, c) \in 1 .. Len(base.serviceComps)
         /\ \A srv, s, k : findServiceComponent(srv, base, s, k) # 0 =>
              /\ findService(srv, s) # 0
              /\ findServiceComponent(srv, base, s, k) \in 1 .. Len(base.serviceComps)
              /\ base.serviceComps[findServiceComponent(srv, base, s, k)].SId = s
<1> DEFINE D == DOMAIN base.serviceComps
<1>1. D = 1 .. Len(base.serviceComps) /\ Len(base.serviceComps) \in Nat
  BY BaseParts
<1>2. \A S \in SUBSET D : First(S) # 0 => First(S) \in S
  <2> SUFFICES ASSUME NEW S \in SUBSET D, First(S) # 0 PROVE First(S) \in S
    OBVIOUS
  <2>1. S \subseteq Nat \ {0}
    BY <1>1
  <2> QED
    BY <2>1, FirstFound
<1>3. ASSUME NEW id, findPacket(base, id) # 0
      PROVE  /\ findPacket(base, id) \in D
             /\ base.serviceComps[findPacket(base, id)].SCId = id
  <2> DEFINE S == {i \in D : base.serviceComps[i].SCId = id}
  <2>1. S \in SUBSET D /\ findPacket(base, id) = First(S)
    BY DEF findPacket
  <2> QED
    BY <1>2, <1>3, <2>1
<1>4. ASSUME NEW s, NEW c, findComponent(base, s, c) # 0
      PROVE  findComponent(base, s, c) \in D
  <2> DEFINE S == {i \in D : base.serviceComps[i].SId = s
                               /\ base.serviceComps[i].subchannelId = c}
  <2>1. S \in SUBSET D /\ findComponent(base, s, c) = First(S)
    BY DEF findComponent
  <2> QED
    BY <1>2, <1>4, <2>1
<1>5. ASSUME NEW srv, NEW s, NEW k, findServiceComponent(srv, base, s, k) # 0
      PROVE  /\ findService(srv, s) # 0
             /\ findServiceComponent(srv, base, s, k) \in D
             /\ base.serviceComps[findServiceComponent(srv, base, s, k)].SId = s
  <2> DEFINE S == {i \in D : base.serviceComps[i].SCIds = k /\ base.serviceComps[i].SId = s}
  <2>1. /\ findService(srv, s) # 0
        /\ S \in SUBSET D /\ findServiceComponent(srv, base, s, k) = First(S)
    BY <1>5 DEF findServiceComponent
  <2> QED
    BY <1>2, <1>5, <2>1
<1> QED
  BY <1>1, <1>3, <1>4, <1>5

\* FIG0/2 adds a component on air.
LEMMA BaseBound ==
  ASSUME NEW base, BaseOK(base), NEW c \in OnAir, NEW e,
         \/ /\ c.TMid = "audio" /\ c.subchannelId \in base.subChannels
            /\ e = [SId |-> c.SId, SCIds |-> 0, TMid |-> "audio", SCId |-> None,
                    componentNr |-> c.componentNr, subchannelId |-> c.subchannelId,
                    is_madePublic |-> FALSE]
         \/ /\ c.TMid = "packet"
            /\ e = [SId |-> c.SId, SCIds |-> IF c.componentNr = 0 THEN 0 ELSE -1,
                    TMid |-> "packet", SCId |-> c.SCId,
                    componentNr |-> c.componentNr, subchannelId |-> None,
                    is_madePublic |-> FALSE]
  PROVE  BaseOK([base EXCEPT !.serviceComps = Append(@, e)])
<1> USE FibAssumption DEF FibAssumption
<1>1. e \in Component
  <2>1. /\ c.SId \in SId /\ c.componentNr \in Nat /\ c.subchannelId \in SubCh
        /\ {c.SCId, None} \subseteq PacketId
    BY DEF PacketId
  <2> DEFINE n == IF c.componentNr = 0 THEN 0 ELSE -1
  <2>2. n \in -1 .. 15 /\ 0 \in -1 .. 15
    OBVIOUS
  <2> HIDE DEF n
  <2>3. \A m \in -1 .. 15, t \in {"audio", "packet"}, p \in PacketId, u \in SubCh \cup {None},
           b \in BOOLEAN :
          [SId |-> c.SId, SCIds |-> m, TMid |-> t, SCId |-> p,
           componentNr |-> c.componentNr, subchannelId |-> u, is_madePublic |-> b] \in Component
    BY <2>1 DEF Component
  <2>4. CASE c.TMid = "audio"
    <3>1. e = [SId |-> c.SId, SCIds |-> 0, TMid |-> "audio", SCId |-> None,
               componentNr |-> c.componentNr, subchannelId |-> c.subchannelId,
               is_madePublic |-> FALSE]
      BY <2>4
    <3> QED
      BY <2>1, <2>2, <2>3, <3>1
  <2>5. CASE c.TMid = "packet"
    <3>1. e = [SId |-> c.SId, SCIds |-> n, TMid |-> "packet", SCId |-> c.SCId,
               componentNr |-> c.componentNr, subchannelId |-> None,
               is_madePublic |-> FALSE]
      BY <2>5 DEF n
    <3> QED
      BY <2>1, <2>2, <2>3, <3>1
  <2> QED
    BY <2>4, <2>5
<1>2. FromAir(base.subChannels, e)
  BY DEF FromAir
<1> QED
  BY <1>1, <1>2, BaseAppend

\* FIG0/3 gives a component with packets its subchannel.
LEMMA BasePlaced ==
  ASSUME NEW base, BaseOK(base), NEW c \in OnAir, c.TMid = "packet",
         c.subchannelId \in base.subChannels, NEW k, k = findPacket(base, c.SCId), k # 0
  PROVE  BaseOK([base EXCEPT !.serviceComps[k].is_madePublic = TRUE,
                             !.serviceComps[k].subchannelId = c.subchannelId])
<1> USE FibAssumption DEF FibAssumption
<1> DEFINE s == base.serviceComps
           e == [s[k] EXCEPT !.is_madePublic = TRUE, !.subchannelId = c.subchannelId]
           new == [base EXCEPT !.serviceComps[k].is_madePublic = TRUE,
                               !.serviceComps[k].subchannelId = c.subchannelId]
<1>1. k \in 1 .. Len(s) /\ s[k].SCId = c.SCId
  BY ComponentFound
<1>2. s[k] \in Component /\ FromAir(base.subChannels, s[k])
  BY <1>1, BaseParts DEF BaseOK
<1>3. e \in Component
  BY <1>2 DEF Component
<1>4. e.SId = s[k].SId /\ e.TMid = s[k].TMid /\ e.SCId = c.SCId
      /\ e.subchannelId = c.subchannelId
  BY <1>1, <1>2 DEF Component
<1>5. FromAir(base.subChannels, e)
  <2>1. PICK a \in OnAir : /\ a.SId = s[k].SId /\ a.TMid = s[k].TMid
                           /\ s[k].SCId = IF a.TMid = "packet" THEN a.SCId ELSE None
    BY <1>2 DEF FromAir
  <2>2. a = c
    BY <1>1, <2>1
  <2> HIDE DEF e
  <2> QED
    BY <1>4, <2>1, <2>2 DEF FromAir
<1>6. new = [base EXCEPT !.serviceComps = [@ EXCEPT ![k] = e]]
  <2>1. base \in [subChannels : SUBSET SubCh, serviceComps : Seq(Component)]
    BY DEF BaseOK
  <2>2. s \in [1 .. Len(s) -> Component]
    BY BaseParts, LenProperties
  <2> QED
    BY <1>1, <1>2, <2>1, <2>2 DEF Component
<1> QED
  BY <1>1, <1>3, <1>5, <1>6, BaseExcept

\* FIG0/8 gives a component its number.
LEMMA BaseNumbered ==
  ASSUME NEW base, BaseOK(base), NEW k \in 1 .. Len(base.serviceComps), NEW n \in 0 .. 15
  PROVE  BaseOK([base EXCEPT !.serviceComps[k].SCIds = n])
<1> DEFINE s == base.serviceComps
           e == [s[k] EXCEPT !.SCIds = n]
<1>1. s[k] \in Component /\ FromAir(base.subChannels, s[k])
  BY BaseParts DEF BaseOK
<1>2. e \in Component
  BY <1>1 DEF Component
<1>3. e.SId = s[k].SId /\ e.TMid = s[k].TMid /\ e.SCId = s[k].SCId
      /\ e.subchannelId = s[k].subchannelId
  BY <1>1 DEF Component
<1> HIDE DEF e
<1>4. FromAir(base.subChannels, e)
  BY <1>1, <1>3 DEF FromAir
<1>5. [base EXCEPT !.serviceComps[k].SCIds = n] = [base EXCEPT !.serviceComps = [@ EXCEPT ![k] = e]]
  BY DEF e
<1> QED
  BY <1>2, <1>4, <1>5, BaseExcept
-----------------------------------------------------------------------------
(* The invariant.                                                          *)

\* The labels of services that were reported.
Shown(srv) ==
  {srv[i].label : i \in {j \in Place : srv[j].inUse /\ (srv[j].is_shown \/ srv[j].SCIds # 0)}}

\* Before the first change of configuration: entries never used are not marked as
\* shown, every service has an entry with its own label, and the list is complete.
Complete(srv, list) ==
  /\ \A i \in Place : ~srv[i].inUse => ~srv[i].is_shown
  /\ \A i \in Place : srv[i].inUse =>
       \E j \in Place, n \in Main :
         srv[j].inUse /\ srv[j].SId = srv[i].SId /\ srv[j].label = n.label
  /\ list = Shown(srv)

\* The GUI's question is about an entry with the label asked for.
QueryType ==
  /\ query \in [label : Label \cup {None}, index : 0 .. Slots, kept : BOOLEAN]
  /\ query # NoQuery => query.label \in Label /\ query.index \in Place

AnswerType ==
  answer \in [label : Label \cup {None}, SId : SId \cup {None},
              TMid : {"audio", None}, subchannelId : SubCh \cup {None}]

FibInv ==
  /\ Rows(services)
  /\ BaseOK(currentConfig) /\ BaseOK(nextConfig)
  /\ prevChangeFlag \in ChangeFlag
  /\ serviceList \subseteq Label
  /\ steady \in BOOLEAN
  /\ QueryType /\ AnswerType
  /\ steady => Complete(services, serviceList)
  /\ query.kept /\ query # NoQuery =>
       services[query.index].inUse /\ services[query.index].label = query.label

\* An empty table.
LEMMA RowsEmpty ==
  LET srv == [i \in 1 .. Slots |-> NoService] IN Rows(srv) /\ Complete(srv, {})
<1> DEFINE srv == [i \in 1 .. Slots |-> NoService]
<1>1. NoService \in ServiceRow /\ ~NoService.inUse /\ ~NoService.is_shown
  BY DEF NoService, ServiceRow
<1>2. srv \in ServiceTable /\ \A i \in Place : ~srv[i].inUse /\ ~srv[i].is_shown
  BY <1>1 DEF ServiceTable, Place
<1> HIDE DEF srv
<1>3. Rows(srv) /\ Complete(srv, {})
  BY <1>2 DEF Rows, Complete, Shown
<1> QED
  BY <1>3 DEF srv

\* Every entry in use has a label on air.
LEMMA RowLabel ==
  ASSUME NEW srv, Rows(srv), NEW i \in Place, srv[i].inUse
  PROVE  srv[i].label \in Label /\ srv[i].SId \in SId
<1>1. PICK n \in Named : NamedBy(srv[i], n)
  BY DEF Rows
<1> QED
  BY <1>1, FibAssumption DEF NamedBy, Label, FibAssumption

\* Initially.
LEMMA FibInit == Init => FibInv
<1> SUFFICES ASSUME Init PROVE FibInv
  OBVIOUS
<1>1. Rows(services) /\ Complete(services, serviceList)
  BY RowsEmpty DEF Init
<1>2. BaseOK(currentConfig) /\ BaseOK(nextConfig)
  BY BaseEmpty DEF Init
<1>3. QueryType /\ AnswerType
  BY FibAssumption DEF Init, QueryType, AnswerType, NoQuery, NoAnswer, FibAssumption
<1>4. steady \in BOOLEAN
  BY Zenon DEF Init
<1> QED
  BY <1>1, <1>2, <1>3, <1>4 DEF Init, FibInv, ChangeFlag

\* An entry that is marked as shown, or loses its number.
Marks(srv, i) ==
  {[srv EXCEPT ![i].SCIds = 0, ![i].is_shown = TRUE], [srv EXCEPT ![i].is_shown = TRUE]}

LEMMA MarkedRow ==
  ASSUME NEW srv \in ServiceTable, NEW i \in Place,
         NEW new \in Marks(srv, i) \cup {[srv EXCEPT ![i].SCIds = 0]}
  PROVE  /\ new \in ServiceTable
         /\ \A j \in Place \ {i} : new[j] = srv[j]
         /\ new[i].inUse = srv[i].inUse /\ new[i].SId = srv[i].SId
         /\ new[i].label = srv[i].label /\ new[i].SCIds \in {0, srv[i].SCIds}
<1>1. srv[i] \in ServiceRow /\ srv \in [Place -> ServiceRow]
  BY DEF ServiceTable
<1>2. CASE new = [srv EXCEPT ![i].SCIds = 0, ![i].is_shown = TRUE]
  <2> DEFINE r == [srv[i] EXCEPT !.SCIds = 0, !.is_shown = TRUE]
  <2>1. new = [srv EXCEPT ![i] = r]
    BY <1>1, <1>2 DEF ServiceRow
  <2>2. r \in ServiceRow
    <3> DEFINE q == [srv[i] EXCEPT !.SCIds = 0]
    <3>1. q \in ServiceRow
      BY <1>1 DEF ServiceRow
    <3>2. r = [q EXCEPT !.is_shown = TRUE]
      OBVIOUS
    <3> HIDE DEF q, r
    <3> QED
      BY <3>1, <3>2 DEF ServiceRow
  <2>3. /\ r.inUse = srv[i].inUse /\ r.SId = srv[i].SId /\ r.label = srv[i].label
        /\ r.SCIds = 0
    BY <1>1 DEF ServiceRow
  <2>4. r.is_shown
    BY <1>1 DEF ServiceRow
  <2> HIDE DEF r
  <2> QED
    BY <1>1, <2>1, <2>2, <2>3, <2>4 DEF ServiceTable
<1>3. CASE new = [srv EXCEPT ![i].is_shown = TRUE]
  <2>1. new[i] = [srv[i] EXCEPT !.is_shown = TRUE]
    BY <1>1, <1>3
  <2>2. new[i] \in ServiceRow /\ new[i].is_shown
    BY <1>1, <2>1 DEF ServiceRow
  <2> QED
    BY <1>1, <1>3, <2>1, <2>2 DEF ServiceTable, ServiceRow
<1>4. CASE new = [srv EXCEPT ![i].SCIds = 0]
  <2>1. new[i] = [srv[i] EXCEPT !.SCIds = 0]
    BY <1>1, <1>4
  <2>2. new[i] \in ServiceRow
    BY <1>1, <2>1 DEF ServiceRow
  <2> QED
    BY <1>1, <1>4, <2>1, <2>2 DEF ServiceTable, ServiceRow
<1> QED
  BY <1>2, <1>3, <1>4 DEF Marks

\* A service is reported (FIG0/2 and FIG0/3).
Reporting(srv, i, list) ==
  IF srv[i].is_shown THEN list ELSE list \cup {srv[i].label}

LEMMA Reported ==
  ASSUME NEW srv, Rows(srv), NEW i \in Place, srv[i].inUse, NEW list, NEW new \in Marks(srv, i)
  PROVE  /\ Rows(new)
         /\ list \subseteq Label => Reporting(srv, i, list) \subseteq Label
         /\ Complete(srv, list) => Complete(new, Reporting(srv, i, list))
         /\ \A j \in Place : srv[j].inUse => new[j].inUse /\ new[j].label = srv[j].label
<1>1. /\ new \in ServiceTable
      /\ \A j \in Place \ {i} : new[j] = srv[j]
      /\ new[i].inUse = srv[i].inUse /\ new[i].SId = srv[i].SId
      /\ new[i].label = srv[i].label /\ new[i].SCIds \in {0, srv[i].SCIds}
      /\ new[i].is_shown
  <2>1. srv \in ServiceTable /\ srv[i] \in ServiceRow
    BY DEF Rows, ServiceTable
  <2>2. new[i].is_shown
    <3>1. new[i] \in {[srv[i] EXCEPT !.SCIds = 0, !.is_shown = TRUE],
                      [srv[i] EXCEPT !.is_shown = TRUE]}
      BY <2>1 DEF ServiceTable, Marks
    <3> QED
      BY <2>1, <3>1 DEF ServiceRow
  <2> QED
    BY <2>1, <2>2, MarkedRow
<1>2. \A j \in Place : /\ new[j].inUse = srv[j].inUse /\ new[j].SId = srv[j].SId
                       /\ new[j].label = srv[j].label
                       /\ new[j].SCIds \in {0, srv[j].SCIds}
  BY <1>1
<1>3. Rows(new)
  BY <1>1, <1>2, RowsTouched
<1>4. list \subseteq Label => Reporting(srv, i, list) \subseteq Label
  BY RowLabel DEF Reporting
<1>5. ASSUME Complete(srv, list) PROVE Complete(new, Reporting(srv, i, list))
  <2>1. \A j \in Place : ~new[j].inUse => ~new[j].is_shown
    BY <1>1, <1>5 DEF Complete
  <2>2. \A j \in Place : new[j].inUse =>
          \E k \in Place, n \in Main :
            new[k].inUse /\ new[k].SId = new[j].SId /\ new[k].label = n.label
    BY <1>2, <1>5 DEF Complete
  <2>3. Reporting(srv, i, list) = Shown(srv) \cup {srv[i].label}
    BY <1>5 DEF Complete, Shown, Reporting
  <2>4. Shown(new) = Shown(srv) \cup {srv[i].label}
    BY <1>1 DEF Shown
  <2> QED
    BY <2>1, <2>2, <2>3, <2>4 DEF Complete
<1> QED
  BY <1>2, <1>3, <1>4, <1>5

\* A service gets its label (FIG1/1 and FIG1/5).
LEMMA Labelled ==
  ASSUME NEW srv, Rows(srv), NEW n \in Main, NEW list,
         \A i \in Place : ~(srv[i].inUse /\ srv[i].label = n.label)
  PROVE  /\ Rows(Created(srv, n))
         /\ Complete(srv, list) => Complete(Created(srv, n), list)
         /\ \A j \in Place : srv[j].inUse =>
              Created(srv, n)[j].inUse /\ Created(srv, n)[j].label = srv[j].label
<1> DEFINE new == Created(srv, n)
<1>1. n \in Named /\ n.SCIds = 0 /\ srv \in ServiceTable
  BY DEF Main, Rows
<1>2. Rows(new)
  BY <1>1, RowsCreated
<1>3. CASE new = srv
  BY <1>2, <1>3
<1>4. CASE new # srv
  <2>1. PICK h \in Place :
          /\ ~srv[h].inUse
          /\ new[h] = [inUse |-> TRUE, SId |-> n.SId, SCIds |-> n.SCIds,
                       label |-> n.label, is_shown |-> srv[h].is_shown]
          /\ \A j \in Place \ {h} : new[j] = srv[j]
    BY <1>1, <1>4, CreatedEntry
  <2>2. /\ new[h].inUse /\ new[h].SId = n.SId /\ new[h].SCIds = 0 /\ new[h].label = n.label
        /\ new[h].is_shown = srv[h].is_shown
    BY <1>1, <2>1
  <2> HIDE DEF new
  <2>3. ASSUME Complete(srv, list) PROVE Complete(new, list)
    <3>1. ~new[h].is_shown
      BY <2>1, <2>2, <2>3 DEF Complete
    <3>2. \A j \in Place : ~new[j].inUse => ~new[j].is_shown
      BY <2>1, <2>3, <3>1 DEF Complete
    <3>3. ASSUME NEW j \in Place, new[j].inUse
          PROVE  \E k \in Place, m \in Main :
                   new[k].inUse /\ new[k].SId = new[j].SId /\ new[k].label = m.label
      <4>1. CASE j = h
        BY <2>2, <4>1
      <4>2. CASE j # h
        <5>1. PICK k \in Place, m \in Main :
                srv[k].inUse /\ srv[k].SId = srv[j].SId /\ srv[k].label = m.label
          BY <2>1, <2>3, <3>3, <4>2 DEF Complete
        <5> QED
          BY <2>1, <4>2, <5>1
      <4> QED
        BY <4>1, <4>2
    <3>4. Shown(new) = Shown(srv)
      BY <2>1, <2>2, <3>1 DEF Shown
    <3> QED
      BY <2>3, <3>2, <3>3, <3>4 DEF Complete
  <2> QED
    BY <1>2, <2>1, <2>3 DEF new
<1> QED
  BY <1>3, <1>4

\* A component gets its label (FIG1/4).
LEMMA ComponentLabelled ==
  ASSUME NEW srv, Rows(srv), NEW n \in Named, NEW list,
         \A i \in Place : ~(srv[i].inUse /\ srv[i].label = n.label),
         findService(srv, n.SId) # 0
  PROVE  /\ Rows(Created(srv, n))
         /\ Complete(srv, list) => Complete(Created(srv, n), list \cup {n.label})
         /\ \A j \in Place : srv[j].inUse =>
              Created(srv, n)[j].inUse /\ Created(srv, n)[j].label = srv[j].label
<1> DEFINE new == Created(srv, n)
<1>1. srv \in ServiceTable
  BY DEF Rows
<1>2. Rows(new)
  BY RowsCreated
<1>3. new # srv
  <2> SUFFICES ASSUME new = srv PROVE FALSE
    OBVIOUS
  <2>1. \A i \in Place : srv[i].inUse
    <3> SUFFICES ASSUME NEW h \in Place, ~srv[h].inUse,
                        new[h] = [inUse |-> TRUE, SId |-> n.SId, SCIds |-> n.SCIds,
                                  label |-> n.label, is_shown |-> srv[h].is_shown]
                 PROVE  FALSE
      BY <1>1, CreatedEntry
    <3> QED
      OBVIOUS
  <2> QED
    BY <2>1, FullTable
<1>4. PICK h \in Place :
        /\ ~srv[h].inUse
        /\ new[h] = [inUse |-> TRUE, SId |-> n.SId, SCIds |-> n.SCIds,
                     label |-> n.label, is_shown |-> srv[h].is_shown]
        /\ \A j \in Place \ {h} : new[j] = srv[j]
  BY <1>1, <1>3, CreatedEntry
<1>5. /\ new[h].inUse /\ new[h].SId = n.SId /\ new[h].SCIds = n.SCIds /\ new[h].label = n.label
      /\ new[h].is_shown = srv[h].is_shown
  BY <1>4
<1>6. PICK f \in Place : srv[f].inUse /\ srv[f].SId = n.SId
  BY <1>1, ServiceFound
<1> HIDE DEF new
<1>7. ASSUME Complete(srv, list) PROVE Complete(new, list \cup {n.label})
  <2>1. n.SCIds # 0
    <3>1. PICK k \in Place, m \in Main :
            srv[k].inUse /\ srv[k].SId = srv[f].SId /\ srv[k].label = m.label
      BY <1>6, <1>7 DEF Complete
    <3>2. PICK l \in Named : NamedBy(srv[k], l)
      BY <3>1 DEF Rows
    <3>3. m \in Named /\ m.SCIds = 0 /\ m = l /\ m.SId = n.SId
      BY <1>6, <3>1, <3>2, FibAssumption DEF Main, NamedBy, FibAssumption
    <3>4. m.label # n.label
      BY <3>1
    <3> QED
      BY <3>3, <3>4, FibAssumption DEF FibAssumption
  <2>2. \A j \in Place : ~new[j].inUse => ~new[j].is_shown
    BY <1>4, <1>5, <1>7 DEF Complete
  <2>3. ASSUME NEW j \in Place, new[j].inUse
        PROVE  \E k \in Place, m \in Main :
                 new[k].inUse /\ new[k].SId = new[j].SId /\ new[k].label = m.label
    <3> DEFINE g == IF j = h THEN f ELSE j
    <3>1. g \in Place /\ srv[g].inUse /\ srv[g].SId = new[j].SId
      BY <1>4, <1>5, <1>6, <2>3
    <3>2. PICK k \in Place, m \in Main :
            srv[k].inUse /\ srv[k].SId = srv[g].SId /\ srv[k].label = m.label
      BY <1>7, <3>1 DEF Complete
    <3>3. k # h
      BY <1>4, <3>2
    <3> QED
      BY <1>4, <3>1, <3>2, <3>3
  <2>4. Shown(new) = Shown(srv) \cup {n.label}
    BY <1>4, <1>5, <2>1 DEF Shown
  <2> QED
    BY <1>7, <2>2, <2>3, <2>4 DEF Complete
<1> QED
  BY <1>2, <1>4, <1>7 DEF new
-----------------------------------------------------------------------------
(* The steps.                                                              *)

\* A FIG leaves the entries in use with their labels, and so the GUI's question
\* about one of them.
LEMMA FigStep ==
  ASSUME FibInv, NotAnswered, steady' = steady,
         Rows(services'), BaseOK(currentConfig'), BaseOK(nextConfig'),
         prevChangeFlag' \in ChangeFlag, serviceList' \subseteq Label,
         Complete(services, serviceList) => Complete(services', serviceList'),
         \A j \in Place : services[j].inUse =>
           services'[j].inUse /\ services'[j].label = services[j].label
  PROVE  FibInv'
<1>1. QueryType'
  BY DEF FibInv, QueryType, NotAnswered, NoQuery
<1>2. AnswerType'
  BY DEF AnswerType, NotAnswered, NoAnswer
<1>3. query'.kept /\ query' # NoQuery =>
        services'[query'.index].inUse /\ services'[query'.index].label = query'.label
  BY DEF FibInv, QueryType, NotAnswered
<1>4. (steady => Complete(services, serviceList))'
  BY DEF FibInv
<1>5. steady' \in BOOLEAN
  BY Zenon DEF FibInv
<1> QED
  BY <1>1, <1>2, <1>3, <1>4, <1>5 DEF FibInv

\* One of the configurations is set.
LEMMA BaseSet ==
  ASSUME FibInv, NEW cn \in 0 .. 1
  PROVE  /\ BaseOK(Base(cn))
         /\ \A base : BaseOK(base) /\ SetBase(cn, base) =>
              BaseOK(currentConfig') /\ BaseOK(nextConfig')
BY DEF FibInv, Base, SetBase

\* FIG0/0.
LEMMA ChangeStep ==
  ASSUME FibInv, NEW f \in ChangeFlag, FIG0Extension0(f)
  PROVE  FibInv'
<1>1. CASE f = 0 /\ prevChangeFlag = 3
  <2>1. /\ currentConfig' = nextConfig /\ nextConfig' = NoConfig
        /\ services' = cleanupServiceList(services, nextConfig)
        /\ serviceList' = {services'[i].label : i \in {j \in 1 .. Slots : services'[j].inUse}}
        /\ steady' = FALSE /\ prevChangeFlag' = f /\ answer' = NoAnswer
        /\ query' = IF query = NoQuery THEN query ELSE [query EXCEPT !.kept = FALSE]
    BY <1>1 DEF FIG0Extension0
  <2>2. Rows(services')
    BY <2>1, RowsCleaned DEF FibInv
  <2>3. BaseOK(currentConfig') /\ BaseOK(nextConfig')
    BY <2>1, BaseEmpty DEF FibInv
  <2>4. serviceList' \subseteq Label
    BY <2>1, <2>2, RowLabel DEF Place
  <2>5. QueryType' /\ AnswerType' /\ (query'.kept => query' = NoQuery)
    BY <2>1 DEF FibInv, QueryType, AnswerType, NoQuery, NoAnswer
  <2> QED
    BY <2>1, <2>2, <2>3, <2>4, <2>5 DEF FibInv
<1>2. CASE ~(f = 0 /\ prevChangeFlag = 3)
  <2>1. UNCHANGED <<services, currentConfig, nextConfig, serviceList, query, steady>>
    BY <1>2 DEF FIG0Extension0, tables
  <2>2. prevChangeFlag' = f /\ NotAnswered
    BY <2>1 DEF FIG0Extension0, NotAnswered
  <2> QED
    BY <2>1, <2>2, FigStep DEF FibInv
<1> QED
  BY <1>1, <1>2

\* FIG0/1.
LEMMA SubChannelStep ==
  ASSUME FibInv, NEW cn \in 0 .. 1, NEW c \in SubCh, FIG0Extension1(cn, c)
  PROVE  FibInv'
<1>1. /\ SetBase(cn, [Base(cn) EXCEPT !.subChannels = @ \cup {c}])
      /\ NotAnswered
      /\ UNCHANGED <<services, prevChangeFlag, serviceList, steady>>
  BY DEF FIG0Extension1
<1>2. BaseOK(currentConfig') /\ BaseOK(nextConfig')
  BY <1>1, BaseSet, BaseSubChannel
<1> QED
  BY <1>1, <1>2, FigStep DEF FibInv

\* A service found is reported.
LEMMA ReportStep ==
  ASSUME FibInv, NEW s, findService(services, s) # 0, NotAnswered,
         UNCHANGED <<prevChangeFlag, steady>>,
         BaseOK(currentConfig'), BaseOK(nextConfig'),
         services' \in Marks(services, findService(services, s)),
         serviceList' = Reporting(services, findService(services, s), serviceList)
  PROVE  FibInv'
<1> DEFINE i == findService(services, s)
<1>1. Rows(services) /\ i \in Place /\ services[i].inUse
  BY ServiceFound DEF FibInv, Rows
<1> HIDE DEF i
<1>2. /\ services' \in Marks(services, i)
      /\ serviceList' = Reporting(services, i, serviceList)
  BY DEF i
<1>3. /\ Rows(services')
      /\ serviceList \subseteq Label => serviceList' \subseteq Label
      /\ Complete(services, serviceList) => Complete(services', serviceList')
      /\ \A j \in Place : services[j].inUse =>
           services'[j].inUse /\ services'[j].label = services[j].label
  BY <1>1, <1>2, Reported
<1> QED
  BY <1>3, FigStep DEF FibInv

\* FIG0/2, audio.
LEMMA AudioStep ==
  ASSUME FibInv, NEW cn \in 0 .. 1, NEW c \in OnAir, bind_audioService(cn, c)
  PROVE  FibInv'
<1> DEFINE i == findService(services, c.SId)
           e == [SId |-> c.SId, SCIds |-> 0, TMid |-> "audio", SCId |-> None,
                 componentNr |-> c.componentNr, subchannelId |-> c.subchannelId,
                 is_madePublic |-> FALSE]
<1>1. /\ c.TMid = "audio" /\ i # 0
      /\ c.subchannelId \in Base(cn).subChannels
      /\ SetBase(cn, [Base(cn) EXCEPT !.serviceComps = Append(@, e)])
      /\ services' = [services EXCEPT ![i].SCIds = 0, ![i].is_shown = TRUE]
      /\ serviceList' = Reporting(services, i, serviceList)
      /\ NotAnswered
      /\ UNCHANGED <<prevChangeFlag, steady>>
  BY DEF bind_audioService, Reporting
<1>2. BaseOK([Base(cn) EXCEPT !.serviceComps = Append(@, e)])
  BY <1>1, BaseSet, BaseBound
<1> HIDE DEF e
<1>3. BaseOK(currentConfig') /\ BaseOK(nextConfig')
  BY <1>1, <1>2, BaseSet
<1>4. services' \in Marks(services, i)
  BY <1>1 DEF Marks
<1> QED
  BY <1>1, <1>3, <1>4, ReportStep

\* FIG0/2, packets.
LEMMA PacketStep ==
  ASSUME FibInv, NEW cn \in 0 .. 1, NEW c \in OnAir, bind_packetService(cn, c)
  PROVE  FibInv'
<1> DEFINE e == [SId |-> c.SId, SCIds |-> IF c.componentNr = 0 THEN 0 ELSE -1,
                 TMid |-> "packet", SCId |-> c.SCId,
                 componentNr |-> c.componentNr, subchannelId |-> None,
                 is_madePublic |-> FALSE]
<1>1. /\ c.TMid = "packet"
      /\ SetBase(cn, [Base(cn) EXCEPT !.serviceComps = Append(@, e)])
      /\ NotAnswered
      /\ UNCHANGED <<services, prevChangeFlag, serviceList, steady>>
  BY DEF bind_packetService
<1>2. BaseOK([Base(cn) EXCEPT !.serviceComps = Append(@, e)])
  BY <1>1, BaseSet, BaseBound
<1> HIDE DEF e
<1>3. BaseOK(currentConfig') /\ BaseOK(nextConfig')
  BY <1>1, <1>2, BaseSet
<1> QED
  BY <1>1, <1>3, FigStep DEF FibInv

\* FIG0/3.
LEMMA PlaceStep ==
  ASSUME FibInv, NEW cn \in 0 .. 1, NEW c \in OnAir, FIG0Extension3(cn, c)
  PROVE  FibInv'
<1> DEFINE k == findPacket(Base(cn), c.SCId)
           s == Base(cn).serviceComps[k].SId
           i == findService(services, s)
<1>1. k # 0 /\ i # 0
  BY DEF FIG0Extension3
<1>2. /\ c.TMid = "packet"
      /\ c.subchannelId \in Base(cn).subChannels
      /\ SetBase(cn, [Base(cn) EXCEPT !.serviceComps[k].is_madePublic = TRUE,
                                      !.serviceComps[k].subchannelId = c.subchannelId])
      /\ services' = [services EXCEPT ![i].is_shown = TRUE]
      /\ serviceList' = Reporting(services, i, serviceList)
      /\ NotAnswered
      /\ UNCHANGED <<prevChangeFlag, steady>>
  BY <1>1 DEF FIG0Extension3, Reporting
<1>3. BaseOK([Base(cn) EXCEPT !.serviceComps[k].is_madePublic = TRUE,
                              !.serviceComps[k].subchannelId = c.subchannelId])
  BY <1>1, <1>2, BaseSet, BasePlaced
<1> HIDE DEF k, s
<1>4. BaseOK(currentConfig') /\ BaseOK(nextConfig')
  BY <1>2, <1>3, BaseSet
<1>5. services' \in Marks(services, i)
  BY <1>2 DEF Marks
<1> QED
  BY <1>1, <1>2, <1>4, <1>5, ReportStep

\* FIG0/8.
LEMMA NumberStep ==
  ASSUME FibInv, NEW cn \in 0 .. 1, NEW c \in OnAir, FIG0Extension8(cn, c)
  PROVE  FibInv'
<1> DEFINE k == IF c.TMid = "audio"
                THEN IF c.subchannelId \in Base(cn).subChannels
                     THEN findComponent(Base(cn), c.SId, c.subchannelId) ELSE 0
                ELSE findPacket(Base(cn), c.SCId)
<1>1. /\ k # 0
      /\ SetBase(cn, [Base(cn) EXCEPT !.serviceComps[k].SCIds = c.SCIds])
      /\ NotAnswered
      /\ UNCHANGED <<services, prevChangeFlag, serviceList, steady>>
  BY DEF FIG0Extension8
<1>2. k \in 1 .. Len(Base(cn).serviceComps)
  BY <1>1, BaseSet, ComponentFound
<1> HIDE DEF k
<1>3. BaseOK([Base(cn) EXCEPT !.serviceComps[k].SCIds = c.SCIds])
  BY <1>2, BaseSet, BaseNumbered, FibAssumption DEF FibAssumption
<1>4. BaseOK(currentConfig') /\ BaseOK(nextConfig')
  BY <1>1, <1>3, BaseSet
<1> QED
  BY <1>1, <1>4, FigStep DEF FibInv

\* FIG1/1: an entry that has the label of a service had the number 0 already.
LEMMA LabelStep ==
  ASSUME FibInv, NEW n \in Named, FIG1Extension1(n)
  PROVE  FibInv'
<1> DEFINE i == findLabel(services, n.label)
<1>1. /\ n \in Main /\ n.SCIds = 0
      /\ services' = IF i = 0 THEN Created(services, n) ELSE [services EXCEPT ![i].SCIds = 0]
      /\ NotAnswered
      /\ UNCHANGED <<currentConfig, nextConfig, prevChangeFlag, serviceList, steady>>
  BY DEF FIG1Extension1, Main
<1>2. Rows(services) /\ services \in ServiceTable
  BY DEF FibInv, Rows
<1>3. CASE i = 0
  <2>1. \A j \in Place : ~(services[j].inUse /\ services[j].label = n.label)
    BY <1>2, <1>3, LabelFound
  <2>2. /\ Rows(services')
        /\ Complete(services, serviceList) => Complete(services', serviceList')
        /\ \A j \in Place : services[j].inUse =>
             services'[j].inUse /\ services'[j].label = services[j].label
    BY <1>1, <1>2, <1>3, <2>1, Labelled
  <2> QED
    BY <1>1, <2>2, FigStep DEF FibInv
<1>4. CASE i # 0
  <2>1. i \in Place /\ services[i].inUse /\ services[i].label = n.label
    BY <1>2, <1>4, LabelFound
  <2>2. PICK l \in Named : NamedBy(services[i], l)
    BY <1>2, <2>1 DEF Rows
  <2>3. l = n
    BY <2>1, <2>2, FibAssumption DEF NamedBy, FibAssumption
  <2>4. services[i].SCIds = 0 /\ services[i] \in ServiceRow
    BY <1>1, <1>2, <2>1, <2>2, <2>3 DEF NamedBy, ServiceTable
  <2> HIDE DEF i
  <2>5. [services[i] EXCEPT !.SCIds = 0] = services[i]
    BY <2>4 DEF ServiceRow
  <2>6. services' = services
    BY <1>1, <1>2, <1>4, <2>1, <2>5 DEF ServiceTable
  <2> QED
    BY <1>1, <2>6, FigStep DEF FibInv
<1> QED
  BY <1>3, <1>4

\* FIG1/4.
LEMMA ComponentLabelStep ==
  ASSUME FibInv, NEW n \in Named, FIG1Extension4(n)
  PROVE  FibInv'
<1> DEFINE k == findServiceComponent(services, currentConfig, n.SId, n.SCIds)
<1>1. /\ k > 1 /\ findLabel(services, n.label) = 0
      /\ services' = Created(services, n)
      /\ serviceList' = serviceList \cup {n.label}
      /\ NotAnswered
      /\ UNCHANGED <<currentConfig, nextConfig, prevChangeFlag, steady>>
  BY DEF FIG1Extension4
<1>2. Rows(services) /\ services \in ServiceTable /\ BaseOK(currentConfig)
  BY DEF FibInv, Rows
<1>3. k # 0
  BY <1>1
<1>4. findService(services, n.SId) # 0
  BY <1>2, <1>3, ComponentFound
<1>5. \A j \in Place : ~(services[j].inUse /\ services[j].label = n.label)
  BY <1>1, <1>2, LabelFound
<1>6. /\ Rows(services')
      /\ Complete(services, serviceList) => Complete(services', serviceList')
      /\ \A j \in Place : services[j].inUse =>
           services'[j].inUse /\ services'[j].label = services[j].label
  BY <1>1, <1>2, <1>4, <1>5, ComponentLabelled
<1>7. serviceList' \subseteq Label
  BY <1>1 DEF FibInv, Label
<1> QED
  BY <1>1, <1>6, <1>7, FigStep DEF FibInv

\* FIG1/5: were the label in the table, its service would be found.
LEMMA DataLabelStep ==
  ASSUME FibInv, NEW n \in Named, FIG1Extension5(n)
  PROVE  FibInv'
<1>1. /\ n \in Main /\ findService(services, n.SId) = 0
      /\ services' = Created(services, n)
      /\ NotAnswered
      /\ UNCHANGED <<currentConfig, nextConfig, prevChangeFlag, serviceList, steady>>
  BY DEF FIG1Extension5
<1>2. Rows(services) /\ services \in ServiceTable
  BY DEF FibInv, Rows
<1>3. ASSUME NEW j \in Place, services[j].inUse, services[j].label = n.label PROVE FALSE
  <2>1. PICK l \in Named : NamedBy(services[j], l)
    BY <1>2, <1>3 DEF Rows
  <2>2. l = n /\ services[j].SId = n.SId
    BY <1>3, <2>1, FibAssumption DEF NamedBy, FibAssumption
  <2>3. BeforeHole(services, j)
    BY <1>2, <1>3 DEF Rows
  <2>4. findService(services, services[j].SId) # 0
    BY <1>2, <2>3, FoundBeforeHole
  <2> QED
    BY <1>1, <2>2, <2>4
<1>4. /\ Rows(services')
      /\ Complete(services, serviceList) => Complete(services', serviceList')
      /\ \A j \in Place : services[j].inUse =>
           services'[j].inUse /\ services'[j].label = services[j].label
  BY <1>1, <1>2, <1>3, Labelled
<1> QED
  BY <1>1, <1>4, FigStep DEF FibInv
-----------------------------------------------------------------------------
\* The GUI asks.
LEMMA AskStep ==
  ASSUME FibInv, NEW name \in Asked, Ask(name)
  PROVE  FibInv'
<1>1. /\ findLabel(services, name) # 0
      /\ query' = [label |-> name, index |-> findLabel(services, name), kept |-> TRUE]
      /\ answer' = NoAnswer
      /\ UNCHANGED <<services, currentConfig, nextConfig, prevChangeFlag, serviceList, steady>>
  BY DEF Ask, tables
<1>2. /\ findLabel(services, name) \in Place
      /\ services[findLabel(services, name)].inUse
      /\ services[findLabel(services, name)].label = name
  BY <1>1, LabelFound DEF FibInv, Rows
<1>3. name \in Label
  BY FibAssumption DEF FibAssumption
<1>4. QueryType'
  BY <1>1, <1>2, <1>3, FibAssumption DEF QueryType, Place, FibAssumption
<1>5. AnswerType'
  BY <1>1 DEF AnswerType, NoAnswer
<1> QED
  BY <1>1, <1>2, <1>4, <1>5 DEF FibInv

\* The GUI is answered.
LEMMA AnswerStep ==
  ASSUME FibInv, dataforAudioService
  PROVE  FibInv'
<1> DEFINE s == services[query.index]
           k == findServiceComponent(services, currentConfig, s.SId, s.SCIds)
           c == currentConfig.serviceComps[k]
<1>1. /\ query # NoQuery /\ query' = NoQuery
      /\ \/ answer' = NoAnswer
         \/ /\ c.subchannelId \in currentConfig.subChannels /\ c.TMid = "audio"
            /\ answer' = [label |-> query.label, SId |-> s.SId, TMid |-> c.TMid,
                          subchannelId |-> c.subchannelId]
      /\ UNCHANGED <<services, currentConfig, nextConfig, prevChangeFlag, serviceList, steady>>
  BY DEF dataforAudioService, tables
<1>2. query.label \in Label /\ s \in ServiceRow /\ currentConfig.subChannels \subseteq SubCh
  BY <1>1, BaseParts DEF FibInv, QueryType, Rows, ServiceTable
<1> HIDE DEF s, k, c
<1>3. s.SId \in SId \cup {None}
  BY <1>2 DEF ServiceRow
<1>4. AnswerType'
  BY <1>1, <1>2, <1>3 DEF AnswerType, NoAnswer
<1>5. QueryType'
  BY <1>1, FibAssumption DEF QueryType, NoQuery, FibAssumption
<1> QED
  BY <1>1, <1>4, <1>5 DEF FibInv

\* The GUI clears the tables.
LEMMA ClearStep ==
  ASSUME FibInv, clearEnsemble
  PROVE  FibInv'
<1>1. /\ services' = [i \in 1 .. Slots |-> NoService] /\ serviceList' = {}
      /\ currentConfig' = NoConfig /\ nextConfig' = NoConfig
      /\ query = NoQuery /\ query' = query /\ prevChangeFlag' = prevChangeFlag
      /\ answer' = NoAnswer /\ steady' = TRUE
  BY DEF clearEnsemble
<1>2. Rows(services') /\ Complete(services', serviceList')
  BY <1>1, RowsEmpty
<1>3. BaseOK(currentConfig') /\ BaseOK(nextConfig')
  BY <1>1, BaseEmpty
<1>4. QueryType' /\ AnswerType'
  BY <1>1 DEF FibInv, QueryType, AnswerType, NoQuery, NoAnswer
<1> QED
  BY <1>1, <1>2, <1>3, <1>4 DEF FibInv

\* Nothing happens.
LEMMA IdleStep ==
  ASSUME FibInv, UNCHANGED vars
  PROVE  FibInv'
BY DEF FibInv, vars, QueryType, AnswerType, NoQuery, NoAnswer

\* The invariant is inductive.
LEMMA FibNext == FibInv /\ [Next]_vars => FibInv'
<1> SUFFICES ASSUME FibInv, [Next]_vars PROVE FibInv'
  OBVIOUS
<1>1. ASSUME FIG0 PROVE FibInv'
  BY <1>1, ChangeStep, SubChannelStep, AudioStep, PacketStep, PlaceStep, NumberStep
  DEF FIG0, FIG0Extension2
<1>2. ASSUME FIG1 PROVE FibInv'
  BY <1>2, LabelStep, ComponentLabelStep, DataLabelStep DEF FIG1
<1>3. ASSUME GUI PROVE FibInv'
  BY <1>3, AskStep, AnswerStep, ClearStep DEF GUI
<1>4. CASE UNCHANGED vars
  BY <1>4, IdleStep
<1> QED
  BY <1>1, <1>2, <1>3, <1>4 DEF Next

LEMMA FibAlways == Spec => []FibInv
BY FibInit, FibNext, PTL DEF Spec
-----------------------------------------------------------------------------
(* What follows.                                                           *)

\* FibDecoder's variables keep the values they are meant to have: whatever the
\* order of the FIGs, no entry, component or question leaves its type.
THEOREM FibTypeCorrect == Spec => []TypeOK
<1>1. FibInv => TypeOK
  <2> SUFFICES ASSUME FibInv PROVE TypeOK
    OBVIOUS
  <2>1. services \in [1 .. Slots -> [inUse : BOOLEAN, SId : SId \cup {None}, SCIds : 0 .. 15,
                                     label : Label \cup {None}, is_shown : BOOLEAN]]
    BY DEF FibInv, Rows, ServiceTable, ServiceRow, Place
  <2>2. currentConfig \in Config /\ nextConfig \in Config
    BY DEF FibInv, BaseOK, Config, Component
  <2> QED
    BY <2>1, <2>2 DEF FibInv, TypeOK, QueryType, AnswerType, Place
<1> QED
  BY <1>1, FibAlways, PTL

\* findService (SId), which ends at the first hole of the table, finds every
\* service in it, for any number of changes of configuration.
THEOREM ServicesFindable == Spec => []Findable
<1>1. FibInv => Findable
  <2> SUFFICES ASSUME FibInv, NEW i \in InUse PROVE findService(services, services[i].SId) # 0
    BY DEF Findable
  <2>1. i \in Place /\ services[i].inUse
    BY DEF InUse, Place
  <2> QED
    BY <2>1, FoundBeforeHole DEF FibInv, Rows
<1> QED
  BY <1>1, FibAlways, PTL

\* No label is twice in the table of services.
THEOREM LabelsStayUnique == Spec => []LabelsUnique
<1>1. FibInv => LabelsUnique
  BY DEF FibInv, Rows, LabelsUnique, InUse, Place
<1> QED
  BY <1>1, FibAlways, PTL

\* Every component whose subchannel has a number is of a configuration that has
\* that subchannel.
THEOREM SubChannelsKnown == Spec => []SubChannelKnown
<1>1. FibInv => SubChannelKnown
  <2> SUFFICES ASSUME FibInv, NEW base, BaseOK(base), NEW i \in DOMAIN base.serviceComps
               PROVE  base.serviceComps[i].subchannelId \in base.subChannels \cup {None}
    BY DEF FibInv, SubChannelKnown
  <2> QED
    BY BaseParts DEF BaseOK, FromAir
<1> QED
  BY <1>1, FibAlways, PTL

\* Until the first change of configuration the GUI's list is exactly the services
\* reported.
THEOREM ListStaysReported == Spec => []ListIsReported
<1>1. FibInv => ListIsReported
  <2> SUFFICES ASSUME FibInv, steady
               PROVE  serviceList = {services[i].label :
                        i \in {j \in InUse : services[j].is_shown \/ services[j].SCIds # 0}}
    BY DEF ListIsReported
  <2>1. serviceList = Shown(services)
    BY DEF FibInv, Complete
  <2>2. {j \in InUse : services[j].is_shown \/ services[j].SCIds # 0} =
        {j \in Place : services[j].inUse /\ (services[j].is_shown \/ services[j].SCIds # 0)}
    BY DEF InUse, Place
  <2> QED
    BY <2>1, <2>2 DEF Shown
<1> QED
  BY <1>1, FibAlways, PTL

\* The step of AnswerFits.
Fits ==
  answer' # NoAnswer /\ query.kept =>
    \E n \in Named :
      /\ n.label = answer'.label /\ n.SId = answer'.SId
      /\ \E c \in OnAir : /\ c.SId = n.SId /\ c.TMid = answer'.TMid
                           /\ c.subchannelId = answer'.subchannelId

\* An answer is about the service whose label was asked for.
LEMMA AnswerMeant ==
  ASSUME FibInv, dataforAudioService
  PROVE  Fits
<1> SUFFICES ASSUME answer' # NoAnswer, query.kept
             PROVE  \E n \in Named :
                      /\ n.label = answer'.label /\ n.SId = answer'.SId
                      /\ \E c \in OnAir : /\ c.SId = n.SId /\ c.TMid = answer'.TMid
                                           /\ c.subchannelId = answer'.subchannelId
  BY DEF Fits
<1> DEFINE s == services[query.index]
           k == findServiceComponent(services, currentConfig, s.SId, s.SCIds)
           c == currentConfig.serviceComps[k]
<1>1. /\ query # NoQuery /\ k # 0 /\ c.TMid = "audio"
      /\ c.subchannelId \in currentConfig.subChannels
      /\ answer' = [label |-> query.label, SId |-> s.SId, TMid |-> c.TMid,
                    subchannelId |-> c.subchannelId]
  BY DEF dataforAudioService
<1>2. /\ query.index \in Place /\ s.inUse /\ s.label = query.label
      /\ Rows(services) /\ BaseOK(currentConfig)
  BY <1>1 DEF FibInv, QueryType
<1>3. PICK n \in Named : NamedBy(s, n)
  BY <1>2 DEF Rows
<1>4. k \in 1 .. Len(currentConfig.serviceComps) /\ c.SId = s.SId
  BY <1>1, <1>2, ComponentFound
<1>5. PICK a \in OnAir : /\ a.SId = c.SId /\ a.TMid = c.TMid
                         /\ c.subchannelId \in {a.subchannelId, None}
  BY <1>2, <1>4 DEF BaseOK, FromAir
<1>6. c.subchannelId \in SubCh
  BY <1>1, <1>2, BaseParts
<1>7. a.subchannelId = c.subchannelId
  BY <1>5, <1>6, FibAssumption DEF FibAssumption
<1>8. n.label = answer'.label /\ n.SId = answer'.SId
  BY <1>1, <1>2, <1>3 DEF NamedBy
<1>9. a.SId = n.SId /\ a.TMid = answer'.TMid /\ a.subchannelId = answer'.subchannelId
  BY <1>1, <1>3, <1>4, <1>5, <1>7 DEF NamedBy
<1> QED
  BY <1>8, <1>9

\* dataforAudioService: a question that the decoder overtook is answered for the service
\* asked about, after any number of changes of configuration, unless one comes between
\* findService and fibLocker.
THEOREM AnswersFit == Spec => AnswerFits
<1>1. FibInv /\ [Next]_vars => [Fits]_vars
  <2> SUFFICES ASSUME FibInv, Next PROVE Fits
    OBVIOUS
  <2>1. ASSUME FIG0 PROVE answer' = NoAnswer
    BY <2>1 DEF FIG0, FIG0Extension0, FIG0Extension1, FIG0Extension2, FIG0Extension3,
                FIG0Extension8, bind_audioService, bind_packetService, NotAnswered
  <2>2. ASSUME FIG1 PROVE answer' = NoAnswer
    BY <2>2 DEF FIG1, FIG1Extension1, FIG1Extension4, FIG1Extension5, NotAnswered
  <2>3. ASSUME GUI PROVE Fits
    <3>1. ASSUME NEW name \in Asked, Ask(name) PROVE Fits
      BY <3>1 DEF Ask, Fits
    <3>2. ASSUME clearEnsemble PROVE Fits
      BY <3>2 DEF clearEnsemble, Fits
    <3> QED
      BY <2>3, <3>1, <3>2, AnswerMeant DEF GUI
  <2> QED
    BY <2>1, <2>2, <2>3 DEF Next, Fits
<1> QED
  BY <1>1, FibAlways, PTL DEF Spec, AnswerFits, Fits
-----------------------------------------------------------------------------
(* The clean-up after a change of configuration.                           *)

\* The table when the loop has done the first k entries.
CleanedTo(srv, base, k) ==
  [i \in Place |-> IF i <= k THEN cleanupServiceList(srv, base)[i] ELSE srv[i]]

\* What one round finds of its entry.
LEMMA RoundFinds ==
  ASSUME NEW t \in ServiceTable, NEW base, BaseOK(base), NEW i \in Place, t[i].inUse
  PROVE  findServiceComponent(t, base, t[i].SId, t[i].SCIds) # 0 <=>
           Healthy(t, base, i) /\ BeforeHole(t, i)
<1> DEFINE s == t[i].SId
           S == {k \in DOMAIN base.serviceComps :
                   base.serviceComps[k].SCIds = t[i].SCIds /\ base.serviceComps[k].SId = s}
<1>1. DOMAIN base.serviceComps \subseteq Nat \ {0}
  BY BaseParts
<1>2. S \subseteq Nat \ {0}
  BY <1>1
<1>3. First(S) # 0 <=> S # {}
  BY <1>2, FirstFound
<1>4. S # {} <=> Healthy(t, base, i)
  BY DEF Healthy
<1>5. findService(t, s) # 0 <=> BeforeHole(t, i)
  BY FoundBeforeHole, HoleBeforeRest
<1> QED
  BY <1>3, <1>4, <1>5 DEF findServiceComponent

\* cleanupServiceList is stated without its loop.  It is what the loop computes,
\* that calls findServiceComponent on the table it is changing.
THEOREM CleanupIsLoop ==
  ASSUME NEW srv \in ServiceTable, NEW base, BaseOK(base)
  PROVE  /\ CleanedTo(srv, base, 0) = srv
         /\ \A k \in Place :
              CleanedTo(srv, base, k) = GivenUp(CleanedTo(srv, base, k - 1), base, k)
         /\ CleanedTo(srv, base, Slots) = cleanupServiceList(srv, base)
<1> DEFINE kept(i) == /\ Healthy(srv, base, i)
                      /\ \E j \in 1 .. i : /\ srv[j].SId = srv[i].SId
                                           /\ \A m \in 1 .. j : Healthy(srv, base, m)
           new == cleanupServiceList(srv, base)
<1> USE FibAssumption DEF FibAssumption
<1>1. \A i \in Place : i \in Nat \ {0} /\ i <= Slots /\ 1 .. i \subseteq Place
  BY DEF Place
<1>2. \A i \in Place : new[i] = [srv[i] EXCEPT !.inUse = kept(i)]
  BY DEF cleanupServiceList, Place
<1>3. new = [i \in Place |-> new[i]] /\ srv = [i \in Place |-> srv[i]]
  BY DEF cleanupServiceList, Place, ServiceTable
<1>4. \A i \in Place : srv[i] \in ServiceRow
  BY DEF ServiceTable
<1>5. \A i \in Place : kept(i) \in BOOLEAN
  BY <1>4 DEF Healthy, ServiceRow
<1>6. \A i \in Place : kept(i) => srv[i].inUse
  BY DEF Healthy
<1>0. \A i \in Place, b \in BOOLEAN :
        LET r == [srv[i] EXCEPT !.inUse = b]
        IN  /\ r \in ServiceRow /\ r.SId = srv[i].SId /\ r.SCIds = srv[i].SCIds
            /\ r.inUse = b
  BY <1>4 DEF ServiceRow
<1> HIDE DEF new
<1>7. CleanedTo(srv, base, 0) = srv
  <2>1. \A i \in Place : ~(i <= 0)
    BY <1>1
  <2> QED
    BY <1>3, <2>1 DEF CleanedTo
<1>8. CleanedTo(srv, base, Slots) = new
  BY <1>1, <1>3 DEF CleanedTo, new
<1>9. ASSUME NEW k \in Place
      PROVE  CleanedTo(srv, base, k) = GivenUp(CleanedTo(srv, base, k - 1), base, k)
  <2> DEFINE t == CleanedTo(srv, base, k - 1)
  <2>1. \A i \in Place : t[i] = IF i < k THEN new[i] ELSE srv[i]
    BY <1>1 DEF CleanedTo, new
  <2>2. \A i \in Place : CleanedTo(srv, base, k)[i] = IF i <= k THEN new[i] ELSE srv[i]
    BY DEF CleanedTo, new
  <2>3. t = [i \in Place |-> t[i]]
    BY DEF CleanedTo
  <2>4. CleanedTo(srv, base, k) = [t EXCEPT ![k] = new[k]]
    <3>1. \A i \in Place \ {k} : i <= k <=> i < k
      BY <1>1
    <3>2. k <= k
      BY <1>1
    <3> HIDE DEF t
    <3> QED
      BY <2>1, <2>2, <2>3, <3>1, <3>2 DEF CleanedTo
  <2>5. \A i \in Place : new[i] \in ServiceRow
    <3> SUFFICES ASSUME NEW i \in Place PROVE new[i] \in ServiceRow
      OBVIOUS
    <3> DEFINE b == kept(i)
    <3>1. new[i] = [srv[i] EXCEPT !.inUse = b] /\ b \in BOOLEAN
      BY <1>2, <1>5
    <3> HIDE DEF b
    <3> QED
      BY <1>0, <3>1
  <2>6. t \in ServiceTable
    <3> HIDE DEF t
    <3> QED
      BY <1>4, <2>1, <2>3, <2>5 DEF ServiceTable
  <2>7. t[k] = srv[k]
    BY <1>1, <2>1
  <2>8. \A i \in Place : /\ t[i].SId = srv[i].SId /\ t[i].SCIds = srv[i].SCIds
                         /\ i < k => (t[i].inUse <=> kept(i))
                         /\ ~(i < k) => (t[i].inUse <=> srv[i].inUse)
    <3> SUFFICES ASSUME NEW i \in Place
                 PROVE  /\ t[i].SId = srv[i].SId /\ t[i].SCIds = srv[i].SCIds
                        /\ i < k => (t[i].inUse <=> kept(i))
                        /\ ~(i < k) => (t[i].inUse <=> srv[i].inUse)
      OBVIOUS
    <3>1. /\ new[i].SId = srv[i].SId /\ new[i].SCIds = srv[i].SCIds
          /\ new[i].inUse = kept(i)
      BY <1>0, <1>2, <1>5
    <3> HIDE DEF t, kept
    <3> QED
      BY <2>1, <3>1
  <2> HIDE DEF t
  <2>9. Healthy(t, base, k) <=> Healthy(srv, base, k)
    BY <2>7 DEF Healthy
  <2>10. ASSUME srv[k].inUse
         PROVE  kept(k) <=> Healthy(t, base, k) /\ BeforeHole(t, k)
    <3>1. ASSUME kept(k) PROVE Healthy(t, base, k) /\ BeforeHole(t, k)
      <4>1. PICK j \in 1 .. k : /\ srv[j].SId = srv[k].SId
                                /\ \A m \in 1 .. j : Healthy(srv, base, m)
        BY <3>1
      <4>2. j \in Place /\ j <= k /\ 1 .. j \subseteq Place
        BY <1>1
      <4>3. ASSUME NEW m \in 1 .. j PROVE t[m].inUse
        <5>1. m \in Place /\ m \in 1 .. m /\ 1 .. m \subseteq 1 .. j /\ m <= j
          BY <1>1, <4>2
        <5>2. kept(m) /\ srv[m].inUse
          BY <4>1, <5>1 DEF Healthy
        <5> HIDE DEF kept
        <5> QED
          BY <2>8, <5>1, <5>2
      <4>4. t[j].SId = t[k].SId
        BY <2>8, <4>1, <4>2
      <4>5. BeforeHole(t, k)
        BY <4>3, <4>4 DEF BeforeHole
      <4> QED
        BY <2>9, <3>1, <4>5
    <3>2. ASSUME Healthy(t, base, k), BeforeHole(t, k) PROVE kept(k)
      <4>1. PICK j \in 1 .. k : t[j].SId = t[k].SId /\ \A m \in 1 .. j : t[m].inUse
        BY <3>2 DEF BeforeHole
      <4>2. j \in Place /\ j <= k /\ 1 .. j \subseteq Place
        BY <1>1
      <4>3. ASSUME NEW m \in 1 .. j PROVE Healthy(srv, base, m)
        <5>1. m \in Place /\ (m < k \/ m = k)
          BY <1>1, <4>2
        <5>2. CASE m = k
          BY <2>9, <3>2, <5>2
        <5>3. CASE m < k
          BY <2>8, <4>1, <5>1, <5>3
        <5> QED
          BY <5>1, <5>2, <5>3
      <4>4. srv[j].SId = srv[k].SId
        BY <2>8, <4>1, <4>2
      <4> QED
        BY <2>9, <3>2, <4>3, <4>4
    <3> QED
      BY <3>1, <3>2
  <2> DEFINE found == findServiceComponent(t, base, t[k].SId, t[k].SCIds)
  <2>11. srv[k].inUse => (found # 0 <=> kept(k))
    <3> HIDE DEF kept
    <3> QED
      BY <2>6, <2>7, <2>10, RoundFinds
  <2> HIDE DEF found, kept
  <2>12. GivenUp(t, base, k) = IF t[k].inUse /\ found = 0
                               THEN [t EXCEPT ![k].inUse = FALSE] ELSE t
    BY DEF GivenUp, found
  <2>13. CASE srv[k].inUse /\ found = 0
    <3>1. kept(k) = FALSE
      BY <1>5, <2>11, <2>13
    <3>2. new[k] = [t[k] EXCEPT !.inUse = FALSE]
      BY <1>2, <2>7, <3>1
    <3>3. GivenUp(t, base, k) = [t EXCEPT ![k].inUse = FALSE]
      BY <2>7, <2>12, <2>13
    <3> QED
      BY <2>4, <3>2, <3>3 DEF t
  <2>14. CASE ~(srv[k].inUse /\ found = 0)
    <3>1. kept(k) = srv[k].inUse
      BY <1>4, <1>5, <1>6, <2>11, <2>14 DEF ServiceRow
    <3>2. new[k] = t[k]
      BY <1>2, <1>4, <2>7, <3>1 DEF ServiceRow
    <3>3. GivenUp(t, base, k) = t
      BY <2>7, <2>12, <2>14
    <3>4. [t EXCEPT ![k] = t[k]] = t
      BY <2>6 DEF ServiceTable
    <3> QED
      BY <2>4, <3>2, <3>3, <3>4 DEF t
  <2> QED
    BY <2>13, <2>14 DEF t
<1> QED
  BY <1>7, <1>8, <1>9 DEF new
=============================================================================
