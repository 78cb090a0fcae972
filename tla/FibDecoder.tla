----------------------------- MODULE FibDecoder ------------------------------
(***************************************************************************)
(* The tables that fibDecoder builds from the FIGs of the fast information *)
(* channel: the services of the ensemble, and for two configurations, the  *)
(* current and the next one, subchannels and service components.  The DAB  *)
(* thread fills them, FIG by FIG, under fibLocker; the GUI asks for what   *)
(* is needed to start a service, and clears them when it tunes.            *)
(*                                                                         *)
(* FIGs arrive in any order, repeated, and some are lost.  Left out are    *)
(* attributes of services and subchannels that nothing here depends on     *)
(* (language, type of programme, FEC scheme, frequencies on FM, user       *)
(* applications), the time, and announcements, whose signals have no       *)
(* receiver.  The GUI gets its signals at once (ServiceControl has them    *)
(* late, and has the name of the ensemble).                                *)
(***************************************************************************)
EXTENDS Integers, Sequences, FiniteSets

CONSTANTS
  SId,        \* service identifiers
  SubCh,      \* subchannels
  Named,      \* the labels on air: [label, SId, SCIds]
  OnAir,      \* the components on air: [SId, componentNr, TMid, SCIds, subchannelId, SCId]
  Asked,      \* the labels the GUI asks for
  Slots,      \* the size of the table of services, 64
  None

Label == {n.label : n \in Named}
Main  == {n \in Named : n.SCIds = 0}

\* What the broadcaster keeps to: a label names one service or component, which
\* has one label, and the secondary ones have a number; an SCId names one
\* component with packets; and both tables have room for all on air.
ASSUME FibAssumption ==
  /\ Slots \in Nat \ {0} /\ Asked \subseteq Label /\ None \notin SubCh
  /\ IsFiniteSet(Named) /\ Cardinality(Named) <= Slots
  /\ \A n \in Named : n.SId \in SId /\ n.SCIds \in 0 .. 15
  /\ \A m, n \in Named :
       m.label = n.label \/ (m.SId = n.SId /\ m.SCIds = n.SCIds) => m = n
  /\ \A c \in OnAir :
       /\ c.SId \in SId /\ c.componentNr \in Nat /\ c.SCIds \in 0 .. 15
       /\ c.TMid \in {"audio", "packet"} /\ c.subchannelId \in SubCh
       /\ c.TMid = "packet" => c.SCId # None
  /\ \A c, d \in OnAir :
       c.TMid = "packet" /\ d.TMid = "packet" /\ c.SCId = d.SCId => c = d
  /\ Cardinality({<<c.SId, c.componentNr>> : c \in OnAir}) <= 64

VARIABLES
  services,         \* ensemble -> services
  currentConfig,
  nextConfig,
  prevChangeFlag,   \* the static of FIG0Extension0
  serviceList,      \* the services the GUI shows
  query,            \* a question of the GUI: service found, lock not yet taken;
                    \* history: the configuration was kept since it was found
  answer,           \* the answer given in the step before, if any
  steady            \* no change of configuration since the tables were cleared

vars == <<services, currentConfig, nextConfig, prevChangeFlag, serviceList,
          query, answer, steady>>

tables == <<services, currentConfig, nextConfig>>

\* dabConfig::reset and service::reset.  Components are only ever appended,
\* and removed all together, so that a sequence is their table.
NoConfig  == [subChannels |-> {}, serviceComps |-> <<>>]
NoService == [inUse |-> FALSE, SId |-> None, SCIds |-> 0, label |-> None,
              is_shown |-> FALSE]
NoQuery   == [label |-> None, index |-> 0, kept |-> TRUE]
NoAnswer  == [label |-> None, SId |-> None, TMid |-> None, subchannelId |-> None]

NotAnswered == UNCHANGED query /\ answer' = NoAnswer

Init ==
  /\ services = [i \in 1 .. Slots |-> NoService]
  /\ currentConfig = NoConfig
  /\ nextConfig = NoConfig
  /\ prevChangeFlag = 0
  /\ serviceList = {}
  /\ query = NoQuery
  /\ answer = NoAnswer
  /\ steady = TRUE
-----------------------------------------------------------------------------
(* The functions that search the tables; 0 is "not found".                 *)

First(S) == IF S = {} THEN 0 ELSE CHOOSE i \in S : \A j \in S : i <= j

\* findService (name) looks at all entries ...
findLabel(srv, name) == First({i \in 1 .. Slots : srv[i].inUse /\ srv[i].label = name})

\* ... and findService (SId) no further than the first one not in use.
findService(srv, s) ==
  LET i == First({j \in 1 .. Slots : ~srv[j].inUse \/ srv[j].SId = s})
  IN  IF i # 0 /\ srv[i].inUse THEN i ELSE 0

\* Mutant: any component with these SCIds.
findComponentBySCIds(srv, base, s, k) ==
  IF findService(srv, s) = 0 THEN 0
  ELSE First({i \in DOMAIN base.serviceComps : base.serviceComps[i].SCIds = k})

\* findServiceComponent (SId, SCIds), which wants the service to be known.
findServiceComponent(srv, base, s, k) ==
  IF findService(srv, s) = 0 THEN 0
  ELSE First({i \in DOMAIN base.serviceComps :
                base.serviceComps[i].SCIds = k /\ base.serviceComps[i].SId = s})

\* findServiceComponent (SCId); an audio component has none.
findPacket(base, id) ==
  First({i \in DOMAIN base.serviceComps : base.serviceComps[i].SCId = id})

\* findComponent (SId, subChId)
findComponent(base, s, c) ==
  First({i \in DOMAIN base.serviceComps :
           base.serviceComps[i].SId = s /\ base.serviceComps[i].subchannelId = c})

\* createService: is_shown is not reset, a full table drops the service.
Created(srv, n) ==
  LET i == First({j \in 1 .. Slots : ~srv[j].inUse})
  IN  IF i = 0 THEN srv
      ELSE [srv EXCEPT ![i] = [inUse |-> TRUE, SId |-> n.SId, SCIds |-> n.SCIds,
                               label |-> n.label, is_shown |-> @.is_shown]]

\* An entry in use whose component is in the configuration.
Healthy(srv, base, i) ==
  /\ srv[i].inUse
  /\ \E k \in DOMAIN base.serviceComps :
       base.serviceComps[k].SId = srv[i].SId /\ base.serviceComps[k].SCIds = srv[i].SCIds

\* Mutant: only the component is looked for, not the service as well.
DirectCleanup(srv, base) ==
  [i \in 1 .. Slots |-> [srv[i] EXCEPT !.inUse = Healthy(srv, base, i)]]

\* cleanupServiceList goes up through the table; an entry is given up when
\* findServiceComponent finds nothing.
GivenUp(srv, base, i) ==
  IF srv[i].inUse /\ findServiceComponent(srv, base, srv[i].SId, srv[i].SCIds) = 0
  THEN [srv EXCEPT ![i].inUse = FALSE] ELSE srv

\* The whole loop (FibDecoderProofs shows that it is): findServiceComponent wants
\* findService (SId) to find an entry, which must then stand before the first one
\* given up.
cleanupServiceList(srv, base) ==
  [i \in 1 .. Slots |-> [srv[i] EXCEPT !.inUse =
     /\ Healthy(srv, base, i)
     /\ \E j \in 1 .. i :
          srv[j].SId = srv[i].SId /\ \A m \in 1 .. j : Healthy(srv, base, m)]]
-----------------------------------------------------------------------------
(* FIGs, in the DAB thread.  cn is the C/N bit.                            *)

Base(cn) == IF cn = 0 THEN currentConfig ELSE nextConfig

SetBase(cn, base) ==
  /\ currentConfig' = IF cn = 0 THEN base ELSE currentConfig
  /\ nextConfig' = IF cn = 0 THEN nextConfig ELSE base

\* Flag 2 has the same consequences as 1.
ChangeFlag == {0, 1, 3}

\* The first FIG0/0 with flag 0 after one with flag 3 is the change.
FIG0Extension0(changeFlag) ==
  /\ prevChangeFlag' = changeFlag
  /\ answer' = NoAnswer
  /\ \/ /\ changeFlag = 0 /\ prevChangeFlag = 3
        /\ currentConfig' = nextConfig
        /\ nextConfig' = NoConfig
        /\ services' = cleanupServiceList(services, nextConfig)
        /\ serviceList' = {services'[i].label : i \in {j \in 1 .. Slots : services'[j].inUse}}
        /\ steady' = FALSE
        /\ query' = IF query = NoQuery THEN query ELSE [query EXCEPT !.kept = FALSE]
     \/ /\ ~(changeFlag = 0 /\ prevChangeFlag = 3)
        /\ UNCHANGED <<tables, serviceList, query, steady>>

\* A subchannel.  What was known of it stays.
FIG0Extension1(cn, c) ==
  /\ SetBase(cn, [Base(cn) EXCEPT !.subChannels = @ \cup {c}])
  /\ NotAnswered
  /\ UNCHANGED <<services, prevChangeFlag, serviceList, steady>>

Bound(base, c) ==
  \E i \in DOMAIN base.serviceComps :
    base.serviceComps[i].SId = c.SId /\ base.serviceComps[i].componentNr = c.componentNr

\* Mutant: the subchannel need not be known.
bind_audioServiceEarly(cn, c) ==
  LET i == findService(services, c.SId) IN
  /\ c.TMid = "audio" /\ i # 0
  /\ ~Bound(Base(cn), c)
  /\ SetBase(cn, [Base(cn) EXCEPT !.serviceComps =
       Append(@, [SId |-> c.SId, SCIds |-> 0, TMid |-> "audio", SCId |-> None,
                  componentNr |-> c.componentNr, subchannelId |-> c.subchannelId,
                  is_madePublic |-> FALSE])])
  /\ services' = [services EXCEPT ![i].SCIds = 0, ![i].is_shown = TRUE]
  /\ serviceList' = serviceList \cup {services[i].label}
  /\ NotAnswered
  /\ UNCHANGED <<prevChangeFlag, steady>>

\* A component with audio: the service is reported to the GUI with its
\* first component, of whatever configuration.
bind_audioService(cn, c) ==
  LET i == findService(services, c.SId) IN
  /\ c.TMid = "audio" /\ i # 0
  /\ c.subchannelId \in Base(cn).subChannels
  /\ ~Bound(Base(cn), c)
  /\ SetBase(cn, [Base(cn) EXCEPT !.serviceComps =
       Append(@, [SId |-> c.SId, SCIds |-> 0, TMid |-> "audio", SCId |-> None,
                  componentNr |-> c.componentNr, subchannelId |-> c.subchannelId,
                  is_madePublic |-> FALSE])])
  /\ services' = [services EXCEPT ![i].SCIds = 0, ![i].is_shown = TRUE]
  /\ serviceList' = IF services[i].is_shown THEN serviceList
                    ELSE serviceList \cup {services[i].label}
  /\ NotAnswered
  /\ UNCHANGED <<prevChangeFlag, steady>>

\* A component with packets: it has no subchannel before FIG0/3.
bind_packetService(cn, c) ==
  /\ c.TMid = "packet" /\ findService(services, c.SId) # 0
  /\ ~Bound(Base(cn), c)
  /\ SetBase(cn, [Base(cn) EXCEPT !.serviceComps =
       Append(@, [SId |-> c.SId, SCIds |-> IF c.componentNr = 0 THEN 0 ELSE -1,
                  TMid |-> "packet", SCId |-> c.SCId,
                  componentNr |-> c.componentNr, subchannelId |-> None,
                  is_madePublic |-> FALSE])])
  /\ NotAnswered
  /\ UNCHANGED <<services, prevChangeFlag, serviceList, steady>>

\* One component of FIG0/2.
FIG0Extension2(cn, c) == bind_audioService(cn, c) \/ bind_packetService(cn, c)

\* FIG0/3, where the packets of a component are (of a type that is handled).
FIG0Extension3(cn, c) ==
  LET k == findPacket(Base(cn), c.SCId)
      i == IF k = 0 THEN 0 ELSE findService(services, Base(cn).serviceComps[k].SId)
  IN
  /\ c.TMid = "packet" /\ i # 0
  /\ c.subchannelId \in Base(cn).subChannels
  /\ ~Base(cn).serviceComps[k].is_madePublic
  /\ SetBase(cn, [Base(cn) EXCEPT !.serviceComps[k].is_madePublic = TRUE,
                                  !.serviceComps[k].subchannelId = c.subchannelId])
  /\ services' = [services EXCEPT ![i].is_shown = TRUE]
  /\ serviceList' = IF services[i].is_shown THEN serviceList
                    ELSE serviceList \cup {services[i].label}
  /\ NotAnswered
  /\ UNCHANGED <<prevChangeFlag, steady>>

\* FIG0/8, the number SCIds of a component, which is named by its subchannel
\* (short form) or by its SCId (long form).
FIG0Extension8(cn, c) ==
  LET k == IF c.TMid = "audio"
           THEN IF c.subchannelId \in Base(cn).subChannels
                THEN findComponent(Base(cn), c.SId, c.subchannelId) ELSE 0
           ELSE findPacket(Base(cn), c.SCId)
  IN
  /\ k # 0
  /\ SetBase(cn, [Base(cn) EXCEPT !.serviceComps[k].SCIds = c.SCIds])
  /\ NotAnswered
  /\ UNCHANGED <<services, prevChangeFlag, serviceList, steady>>

\* FIG1/1, the label of a service.
FIG1Extension1(n) ==
  LET i == findLabel(services, n.label) IN
  /\ n \in Main
  /\ services' = IF i = 0 THEN Created(services, n)
                 ELSE [services EXCEPT ![i].SCIds = 0]
  /\ NotAnswered
  /\ UNCHANGED <<currentConfig, nextConfig, prevChangeFlag, serviceList, steady>>

\* Mutant: the label may be known already.
FIG1Extension4Again(n) ==
  LET k == findServiceComponent(services, currentConfig, n.SId, n.SCIds) IN
  /\ k > 1
  /\ currentConfig.serviceComps[k].TMid = "audio"
  /\ services' = Created(services, n)
  /\ serviceList' = serviceList \cup {n.label}
  /\ NotAnswered
  /\ UNCHANGED <<currentConfig, nextConfig, prevChangeFlag, steady>>

\* FIG1/4, the label of a component: not of the first entry of the table, which
\* the code takes for "not found".
FIG1Extension4(n) ==
  LET k == findServiceComponent(services, currentConfig, n.SId, n.SCIds) IN
  /\ k > 1
  /\ findLabel(services, n.label) = 0
  /\ currentConfig.serviceComps[k].TMid = "audio"
  /\ services' = Created(services, n)
  /\ serviceList' = serviceList \cup {n.label}
  /\ NotAnswered
  /\ UNCHANGED <<currentConfig, nextConfig, prevChangeFlag, steady>>

\* FIG1/5, the label of a data service.
FIG1Extension5(n) ==
  /\ n \in Main /\ findService(services, n.SId) = 0
  /\ services' = Created(services, n)
  /\ NotAnswered
  /\ UNCHANGED <<currentConfig, nextConfig, prevChangeFlag, serviceList, steady>>
-----------------------------------------------------------------------------
(* The GUI thread.                                                         *)

\* Mutant: it is not seen that there is no such service.
AskUnchecked(name) ==
  /\ query = NoQuery
  /\ query' = [label |-> name, index |-> findLabel(services, name), kept |-> TRUE]
  /\ answer' = NoAnswer
  /\ UNCHANGED <<tables, prevChangeFlag, serviceList, steady>>

\* A question begins with findService (name), before fibLocker is taken ...
Ask(name) ==
  /\ query = NoQuery
  /\ findLabel(services, name) # 0
  /\ query' = [label |-> name, index |-> findLabel(services, name), kept |-> TRUE]
  /\ answer' = NoAnswer
  /\ UNCHANGED <<tables, prevChangeFlag, serviceList, steady>>

\* ... and goes on with the entry of the table found then.
dataforAudioService ==
  LET s == services[query.index]
      k == findServiceComponent(services, currentConfig, s.SId, s.SCIds)
      c == currentConfig.serviceComps[k]
  IN
  /\ query # NoQuery
  /\ query' = NoQuery
  /\ answer' = IF /\ k # 0
                  /\ c.TMid = "audio"
                  /\ c.subchannelId \in currentConfig.subChannels
               THEN [label |-> query.label, SId |-> s.SId, TMid |-> c.TMid,
                     subchannelId |-> c.subchannelId]
               ELSE NoAnswer
  /\ UNCHANGED <<tables, prevChangeFlag, serviceList, steady>>

\* Mutant: the services are kept.
clearConfigs ==
  /\ query = NoQuery
  /\ currentConfig' = NoConfig
  /\ nextConfig' = NoConfig
  /\ serviceList' = {}
  /\ answer' = NoAnswer
  /\ steady' = TRUE
  /\ UNCHANGED <<services, prevChangeFlag, query>>

\* The GUI tunes; it asks nothing meanwhile.  prevChangeFlag is left as it is.
clearEnsemble ==
  /\ query = NoQuery
  /\ services' = [i \in 1 .. Slots |-> NoService]
  /\ currentConfig' = NoConfig
  /\ nextConfig' = NoConfig
  /\ serviceList' = {}
  /\ answer' = NoAnswer
  /\ steady' = TRUE
  /\ UNCHANGED <<prevChangeFlag, query>>

FIG0 ==
  \/ \E f \in ChangeFlag : FIG0Extension0(f)
  \/ \E cn \in 0 .. 1 :
       \/ \E c \in SubCh : FIG0Extension1(cn, c)
       \/ \E c \in OnAir :
            \/ FIG0Extension2(cn, c)
            \/ FIG0Extension3(cn, c)
            \/ FIG0Extension8(cn, c)

FIG1 == \E n \in Named : FIG1Extension1(n) \/ FIG1Extension4(n) \/ FIG1Extension5(n)

GUI ==
  \/ \E name \in Asked : Ask(name)
  \/ dataforAudioService
  \/ clearEnsemble

Next == FIG0 \/ FIG1 \/ GUI

Spec == Init /\ [][Next]_vars
-----------------------------------------------------------------------------
(* Properties.                                                             *)

InUse == {i \in 1 .. Slots : services[i].inUse}

PacketId == {c.SCId : c \in OnAir} \cup {None}

Config ==
  [subChannels : SUBSET SubCh,
   serviceComps : Seq([SId : SId, SCIds : -1 .. 15, TMid : {"audio", "packet"},
                       SCId : PacketId, componentNr : Nat,
                       subchannelId : SubCh \cup {None}, is_madePublic : BOOLEAN])]

\* The values every variable keeps.
TypeOK ==
  /\ services \in [1 .. Slots -> [inUse : BOOLEAN, SId : SId \cup {None}, SCIds : 0 .. 15,
                                  label : Label \cup {None}, is_shown : BOOLEAN]]
  /\ currentConfig \in Config /\ nextConfig \in Config
  /\ prevChangeFlag \in ChangeFlag
  /\ serviceList \subseteq Label
  /\ query \in [label : Label \cup {None}, index : 0 .. Slots, kept : BOOLEAN]
  /\ query # NoQuery => query.label \in Label /\ query.index \in 1 .. Slots
  /\ answer \in [label : Label \cup {None}, SId : SId \cup {None},
                 TMid : {"audio", None}, subchannelId : SubCh \cup {None}]
  /\ steady \in BOOLEAN

\* Every service in the table is found by its SId, although findService (SId)
\* ends at the first hole and a change of configuration makes holes: what stays
\* behind a hole are labels of components whose service is before it.
Findable == \A i \in InUse : findService(services, services[i].SId) # 0

\* No label is twice in the table, whichever FIG brought it, and so the
\* questions of the GUI, which are by label, have one meaning.
LabelsUnique ==
  \A i, j \in InUse : services[i].label = services[j].label => i = j

\* A component whose subchannel is known by number is of a configuration that
\* has the data of that subchannel: what plays a service never reads the
\* uninitialised fields of a subchannel descriptor.
SubChannelKnown ==
  \A base \in {currentConfig, nextConfig} : \A i \in DOMAIN base.serviceComps :
    base.serviceComps[i].subchannelId \in base.subChannels \cup {None}

\* Until the first change of configuration the GUI shows exactly the services
\* that were reported and are in the table: none is lost, and none of an
\* ensemble before is left.
ListIsReported ==
  steady => serviceList = {services[i].label :
                             i \in {j \in InUse : services[j].is_shown \/ services[j].SCIds # 0}}

\* A question that the decoder overtook is answered for the service it was asked about,
\* with one of its subchannels, however the FIGs and the changes of configuration before
\* have filled and cleaned the tables; unless the configuration changes just while the
\* question is open: the entry found may then be another service's.
AnswerFits ==
  [][ answer' # NoAnswer /\ query.kept =>
        \E n \in Named :
          /\ n.label = answer'.label /\ n.SId = answer'.SId
          /\ \E c \in OnAir : /\ c.SId = n.SId /\ c.TMid = answer'.TMid
                               /\ c.subchannelId = answer'.subchannelId ]_vars

\* "called after a change in configuration to verify the services health": a
\* service that has its component in the new configuration is kept.
HealthyKept ==
  [][ FIG0Extension0(0) /\ prevChangeFlag = 3 =>
        \A i \in InUse :
          (\E k \in DOMAIN nextConfig.serviceComps :
             /\ nextConfig.serviceComps[k].SId = services[i].SId
             /\ nextConfig.serviceComps[k].SCIds = services[i].SCIds)
          => services'[i].inUse ]_vars
=============================================================================
