------------------------------ MODULE GuiProofs ------------------------------
(***************************************************************************)
(* Theorems about ServiceControl, for every set of channels, services,     *)
(* subchannels and addresses, and any number of signals that wait; then    *)
(* about Favourites, for every band, word, set of channels and of presets, *)
(* and for lists of any length.                                            *)
(*                                                                         *)
(* The proofs about services follow the calls that are still to be made: a *)
(* call with a service in it is the last one, because a handler that runs  *)
(* in the event loop of a warning only rebuilds the list.                  *)
(***************************************************************************)
EXTENDS ServiceControl, Favourites, TLAPS


\* The calls that are not first.
Late == {"stop", "getParameters", "getServices", "warning"}

Shape(t) ==
  /\ t \in Seq(Calls)
  /\ \A i \in DOMAIN t : i # Len(t) => t[i].name = None
  /\ \A i \in DOMAIN t : i # 1 => t[i].call \in Late

AllNone(t)   == \A i \in DOMAIN t : t[i].name = None
NoWarning(t) == \A i \in DOMAIN t : t[i].call # "warning"

LEMMA EmptyShape == Shape(<<>>) /\ AllNone(<<>>) /\ NoWarning(<<>>)
BY DEF Shape, AllNone, NoWarning

LEMMA NoElements == ASSUME NEW S, NEW t \in Seq(S), Len(t) = 0 PROVE t = <<>>
OBVIOUS

LEMMA AppendElements ==
  ASSUME NEW S, NEW t \in Seq(S), NEW e \in S
  PROVE  /\ Append(t, e) \in Seq(S) /\ Append(t, e) # <<>>
         /\ Len(Append(t, e)) \in DOMAIN Append(t, e) /\ Append(t, e)[Len(Append(t, e))] = e
         /\ \A i \in DOMAIN t : i \in DOMAIN Append(t, e) /\ Append(t, e)[i] = t[i]
OBVIOUS

LEMMA TailElements ==
  ASSUME NEW S, NEW t \in Seq(S), t # <<>>
  PROVE  /\ Tail(t) \in Seq(S) /\ Len(t) \in Nat \ {0} /\ Len(Tail(t)) = Len(t) - 1
         /\ Head(t) = t[1] /\ 1 \in DOMAIN t /\ t[1] \in S
         /\ \A i \in DOMAIN Tail(t) : i + 1 \in DOMAIN t /\ Tail(t)[i] = t[i + 1]
OBVIOUS

\* The first call is made, and nothing comes for it.
LEMMA DropShape ==
  ASSUME NEW t, Shape(t), t # <<>>
  PROVE  /\ Shape(Tail(t))
         /\ Tail(t) # <<>> => Head(Tail(t)).call \in Late
         /\ AllNone(t) => AllNone(Tail(t))
         /\ NoWarning(t) => NoWarning(Tail(t))
<1>1. t \in Seq(Calls)
  BY DEF Shape
<1>2. /\ Tail(t) \in Seq(Calls) /\ Len(t) \in Nat \ {0} /\ Len(Tail(t)) = Len(t) - 1
      /\ \A i \in DOMAIN Tail(t) : i + 1 \in DOMAIN t /\ Tail(t)[i] = t[i + 1]
  BY <1>1, TailElements
<1>3. \A i \in DOMAIN Tail(t) : i \in Nat \ {0}
  BY <1>2
<1>4. ASSUME NEW i \in DOMAIN Tail(t)
      PROVE  /\ i # Len(Tail(t)) => Tail(t)[i].name = None
             /\ Tail(t)[i].call \in Late
  BY <1>2, <1>3 DEF Shape
<1>5. ASSUME Tail(t) # <<>> PROVE Head(Tail(t)).call \in Late
  <2>1. 1 \in DOMAIN Tail(t) /\ Head(Tail(t)) = Tail(t)[1]
    BY <1>2, <1>5, TailElements
  <2> QED BY <2>1, <1>4
<1>6. Shape(Tail(t))
  BY <1>2, <1>4 DEF Shape
<1> QED BY <1>2, <1>5, <1>6 DEF AllNone, NoWarning

\* A call comes before those that wait.
LEMMA PushShape ==
  ASSUME NEW t, Shape(t), NEW c \in Calls,
         t = <<>> \/ (Head(t).call \in Late /\ c.name = None)
  PROVE  /\ Shape(<<c>> \o t)
         /\ Head(<<c>> \o t) = c /\ <<c>> \o t # <<>>
         /\ AllNone(t) /\ c.name = None => AllNone(<<c>> \o t)
         /\ NoWarning(t) /\ c.call # "warning" => NoWarning(<<c>> \o t)
<1> DEFINE u == <<c>> \o t
<1>1. t \in Seq(Calls)
  BY DEF Shape
<1>2. /\ u \in Seq(Calls) /\ Len(u) = Len(t) + 1 /\ Len(t) \in Nat
      /\ u[1] = c /\ u # <<>> /\ Head(u) = c
      /\ \A i \in DOMAIN u : i \in Nat \ {0} /\ (i # 1 => i - 1 \in DOMAIN t /\ u[i] = t[i - 1])
  BY <1>1
<1> HIDE DEF u
<1>3. t # <<>> => Head(t) = t[1]
  BY <1>1, TailElements
<1>4. ASSUME NEW i \in DOMAIN u
      PROVE  /\ i # Len(u) => u[i].name = None
             /\ i # 1 => u[i].call \in Late
  <2>1. CASE i = 1
    <3>1. i # Len(u) => t # <<>>
      BY <1>1, <1>2, <2>1
    <3> QED BY <1>2, <2>1, <3>1
  <2>2. CASE i # 1
    <3>1. i - 1 \in DOMAIN t /\ u[i] = t[i - 1] /\ i \in Nat \ {0}
      BY <1>2, <2>2
    <3>2. i # Len(u) => u[i].name = None
      <4>1. i # Len(u) => i - 1 # Len(t)
        BY <1>2, <3>1
      <4> QED BY <3>1, <4>1 DEF Shape
    <3>3. u[i].call \in Late
      <4>1. CASE i = 2
        <5>1. t # <<>> /\ u[i] = Head(t)
          BY <1>1, <1>3, <3>1, <4>1
        <5> QED BY <5>1
      <4>2. CASE i # 2
        <5>1. i - 1 # 1
          BY <3>1, <4>2
        <5> QED BY <3>1, <5>1 DEF Shape
      <4> QED BY <4>1, <4>2
    <3> QED BY <3>2, <3>3
  <2> QED BY <2>1, <2>2
<1>5. Shape(u)
  BY <1>2, <1>4 DEF Shape
<1>6. AllNone(t) /\ c.name = None => AllNone(u)
  BY <1>2 DEF AllNone
<1>7. NoWarning(t) /\ c.call # "warning" => NoWarning(u)
  BY <1>2 DEF NoWarning
<1> QED BY <1>2, <1>5, <1>6, <1>7 DEF u

\* A call with a service in it is the last one.
LEMMA NamedIsLast ==
  ASSUME NEW t, Shape(t), t # <<>>, Head(t).name # None
  PROVE  Tail(t) = <<>> /\ ~AllNone(t)
<1>1. t \in Seq(Calls)
  BY DEF Shape
<1>2. /\ Tail(t) \in Seq(Calls) /\ Len(t) \in Nat \ {0} /\ Len(Tail(t)) = Len(t) - 1
      /\ Head(t) = t[1] /\ 1 \in DOMAIN t
  BY <1>1, TailElements
<1>3. Len(t) = 1
  BY <1>2 DEF Shape
<1>4. Tail(t) = <<>>
  <2>1. Len(Tail(t)) = 0
    BY <1>2, <1>3
  <2> QED BY <1>2, <2>1, NoElements
<1>5. t[1].name # None
  BY <1>2
<1> QED BY <1>2, <1>4, <1>5 DEF AllNone
-----------------------------------------------------------------------------
(* The inductive invariant.                                                *)

\* A service is on only between the handlers, or when the next call stops it; with
\* DAB off there is nothing to do.
Ordered ==
  /\ currentService.valid =>
       /\ currentService.name \in Service
       /\ todo = <<>> \/ Head(todo).call \in {"stop", "msc.stop"}
  /\ Call("msc.stop") => currentService.valid
  /\ ~running => todo = <<>> /\ ~currentService.valid /\ ~presetTimer

\* The timer runs only while no service is on, and no call is for a service.
Timer ==
  presetTimer =>
    ~currentService.valid /\ (todo = <<>> \/ Head(todo).call = "stop" \/ AllNone(todo))

\* set_Channel has a place to go to.
Placing == Call("set_Channel") => ad \in Place

\* The configuration has not changed: the backend is that of the current service,
\* and the audio data a handler looked up are still those of the service.
Decoded ==
  ~changed =>
    /\ theBackends =
         IF currentService.valid
         THEN {[SId |-> currentService.name, place |-> place[currentService.name]]} ELSE {}
    /\ currentService.valid => AudioData(currentService.name) # None
    /\ Call("msc.stop") => ad = AudioData(currentService.name)
    /\ Call("set_Channel") => ad = AudioData(Head(todo).name)
    /\ Call("start_audioService") => AudioData(Head(todo).name) # None
    /\ NoWarning(todo)

\* The configuration has not changed: a service with audio is shown, or about to be.
Announced(s) ==
  s \in serviceList \/ \E i \in DOMAIN events : events[i].kind = "add" /\ events[i].name = s

Lists ==
  ~changed =>
    /\ serviceList \subseteq labels
    /\ \A s \in labels : AudioData(s) # None => Announced(s)
    /\ shown \subseteq labels /\ shown = {s \in Service : place[s] # None}

\* DAB is off, and a service was on when it was left: the channel kept is the one
\* that service played on.
Kept ==
  ~running /\ ~dabSettings.old /\ dabSettings.presetName # None => dabSettings.playedOn = channel

IInv ==
  /\ TypeOK /\ Shape(todo) /\ Ordered /\ Timer /\ Placing /\ PresetFits /\ Kept
  /\ Decoded /\ Lists

LEMMA InitHolds == Init => IInv
<1> SUFFICES ASSUME Init PROVE IInv
  OBVIOUS
<1>1. TypeOK
  <2>1. place \in Configuration
    BY DEF Init, Configuration
  <2>2. todo \in Seq(Calls) /\ events \in Seq(Event)
    BY DEF Init
  <2>3. /\ currentService \in [name : Service \cup {None}, valid : BOOLEAN]
        /\ nextService = NoNext
    BY DEF Init, NoService
  <2> QED BY <2>1, <2>2, <2>3 DEF Init, TypeOK, Chosen, Remembered
<1>2. Shape(todo) /\ NoWarning(todo)
  BY EmptyShape DEF Init
<1>3. Ordered /\ Timer /\ Placing /\ PresetFits /\ Kept /\ Lists
  BY DEF Init, Ordered, Timer, Placing, PresetFits, Kept, Lists, Call, NoService
<1>4. Decoded
  BY <1>2 DEF Init, Decoded, Call, NoService
<1> QED BY <1>1, <1>2, <1>3, <1>4 DEF IInv

\* What the first call can be about.
LEMMA HeadType ==
  ASSUME NEW t, Shape(t), t # <<>>
  PROVE  /\ Head(t) \in Calls
         /\ Head(t).call \in {"stop", "msc.stop"} => Head(t).name = None
         /\ Head(t).call \in {"getServices", "start"} => Head(t).name \in Service \cup {None}
         /\ Head(t).call \in {"getParameters", "start_audioService", "warning", "set_Channel"}
              => Head(t).name \in Service
<1>1. Head(t) \in Calls
  BY TailElements DEF Shape
<1> QED BY <1>1 DEF Calls

LEMMA Dropped ==
  ASSUME NEW t, Shape(t), t # <<>>, NEW u, u = <<>> \o Tail(t)
  PROVE  /\ Shape(u)
         /\ u # <<>> => Head(u).call \in Late
         /\ AllNone(t) => AllNone(u)
         /\ NoWarning(t) => NoWarning(u)
         /\ Head(t).name # None => u = <<>>
<1>1. t \in Seq(Calls)
  BY DEF Shape
<1>2. u = Tail(t)
  BY <1>1
<1> QED BY <1>2, DropShape, NamedIsLast

LEMMA Replaced ==
  ASSUME NEW t, Shape(t), t # <<>>, NEW c \in Calls, NEW u, u = <<c>> \o Tail(t),
         c.name = None \/ Head(t).name # None
  PROVE  /\ Shape(u) /\ u # <<>> /\ Head(u) = c
         /\ AllNone(t) /\ c.name = None => AllNone(u)
         /\ NoWarning(t) /\ c.call # "warning" => NoWarning(u)
<1>1. Shape(Tail(t)) /\ (Tail(t) # <<>> => Head(Tail(t)).call \in Late)
  BY DropShape
<1>2. Tail(t) = <<>> \/ (Head(Tail(t)).call \in Late /\ c.name = None)
  BY <1>1, NamedIsLast
<1> QED BY <1>1, <1>2, PushShape, DropShape
-----------------------------------------------------------------------------
(* Every step keeps the invariant.                                         *)

LEMMA FibKeeps ==
  ASSUME IInv, FibStep
  PROVE  IInv'
<1>1. Fib
  BY DEF FibStep, EnsembleName, ServiceLabel, BindService, ChangeConfiguration
<1>2. Shape(todo)' /\ Ordered' /\ Timer' /\ Placing' /\ PresetFits' /\ Kept'
  BY <1>1 DEF IInv, Fib, guiVars, Ordered, Timer, Placing, PresetFits, Kept, Call
<1>3. events \in Seq(Event) /\ labels \subseteq Service /\ place \in Configuration
  BY DEF IInv, TypeOK
<1>4. ASSUME NEW k, NEW s, [kind |-> k, name |-> s] \in Event, Emit(k, s)
      PROVE  /\ events' \in Seq(Event)
             /\ \A t : Announced(t) => \E i \in DOMAIN events' :
                  t \in serviceList \/ (events'[i].kind = "add" /\ events'[i].name = t)
             /\ \E i \in DOMAIN events' : events'[i].kind = k /\ events'[i].name = s
  <2>1. events' = Append(events, [kind |-> k, name |-> s])
    BY <1>4 DEF Emit
  <2>2. /\ events' \in Seq(Event)
        /\ Len(events') \in DOMAIN events' /\ events'[Len(events')] = [kind |-> k, name |-> s]
        /\ \A i \in DOMAIN events : i \in DOMAIN events' /\ events'[i] = events[i]
    BY <2>1, <1>3, <1>4, AppendElements
  <2> QED BY <2>2 DEF Announced
<1>5. /\ [kind |-> "name", name |-> None] \in Event /\ [kind |-> "change", name |-> None] \in Event
      /\ \A s \in Service : [kind |-> "add", name |-> s] \in Event
  BY DEF Event
<1>6. /\ events' \in Seq(Event)
      /\ \A t : Announced(t) => Announced(t)'
  <2>1. CASE EnsembleName
    BY <1>1, <1>4, <1>5, <2>1 DEF EnsembleName, Fib, guiVars, Announced
  <2>2. CASE \E s \in Service : ServiceLabel(s)
    BY <1>1, <1>3, <2>2 DEF ServiceLabel, Fib, guiVars, Announced
  <2>3. CASE \E s \in Service, p \in Place : BindService(s, p)
    <3>1. PICK s \in Service : events' = events \/ Emit("add", s)
      BY <2>3 DEF BindService
    <3> QED BY <1>1, <1>3, <1>4, <1>5, <3>1 DEF Fib, guiVars, Announced
  <2>4. CASE \E new \in Configuration : ChangeConfiguration(new)
    <3>1. Emit("change", None)
      BY <2>4 DEF ChangeConfiguration
    <3> QED BY <1>1, <1>4, <1>5, <3>1 DEF Fib, guiVars, Announced
  <2> QED BY <2>1, <2>2, <2>3, <2>4 DEF FibStep
<1>7. /\ labels' \subseteq Service /\ shown' \subseteq Service /\ place' \in Configuration
      /\ namePresent' \in BOOLEAN /\ changed' \in BOOLEAN
  <2>1. CASE EnsembleName
    BY <2>1 DEF EnsembleName, IInv, TypeOK
  <2>2. CASE \E s \in Service : ServiceLabel(s)
    BY <2>2 DEF ServiceLabel, IInv, TypeOK
  <2>3. CASE \E s \in Service, p \in Place : BindService(s, p)
    <3>1. PICK s \in Service, p \in Place : BindService(s, p)
      BY <2>3
    <3>2. place' \in [Service -> Place \cup {None}]
      BY <1>3, <3>1 DEF BindService, Configuration
    <3>3. ASSUME NEW t \in Service, NEW u \in Service, t # u, place'[t] # None, place'[u] # None
          PROVE  place'[t].subchId # place'[u].subchId
      BY <1>3, <3>1, <3>3 DEF BindService, Configuration
    <3>4. place' \in Configuration
      BY <3>2, <3>3 DEF Configuration
    <3> QED BY <3>1, <3>4 DEF BindService, IInv, TypeOK
  <2>4. CASE \E new \in Configuration : ChangeConfiguration(new)
    BY <2>4 DEF ChangeConfiguration, IInv, TypeOK
  <2> QED BY <2>1, <2>2, <2>3, <2>4 DEF FibStep
<1>8. TypeOK'
  BY <1>1, <1>6, <1>7 DEF IInv, TypeOK, Fib, guiVars
<1>9. ~changed' =>
        /\ ~changed
        /\ \A s : s \in labels /\ place[s] # None => s \in labels' /\ place'[s] = place[s]
        /\ \A s \in labels' : place'[s] # None => (s \in labels /\ place[s] # None) \/ Announced(s)'
        /\ shown' \subseteq labels' /\ shown' = {s \in Service : place'[s] # None}
        /\ labels \subseteq labels'
  <2>1. CASE EnsembleName
    BY <2>1 DEF EnsembleName, IInv, Lists
  <2>2. CASE \E s \in Service : ServiceLabel(s)
    <3>1. PICK s \in Service : ServiceLabel(s)
      BY <2>2
    <3>2. ~changed => place[s] = None
      BY <3>1 DEF ServiceLabel, IInv, Lists
    <3> QED BY <1>3, <3>1, <3>2 DEF ServiceLabel, IInv, Lists
  <2>3. CASE \E s \in Service, p \in Place : BindService(s, p)
    <3>1. PICK s \in Service, p \in Place : BindService(s, p)
      BY <2>3
    <3>2. /\ place' = [place EXCEPT ![s] = p] /\ p # None /\ place[s] = None /\ s \in labels
          /\ labels' = labels /\ changed' = changed /\ shown' = shown \cup {s}
      BY <3>1, ServiceAssumption DEF BindService
    <3>3. \A t \in Service : place'[t] = IF t = s THEN p ELSE place[t]
      BY <1>3, <3>2 DEF Configuration
    <3>4. ~changed => Announced(s)'
      <4>1. ~changed => s \notin shown
        BY <3>2 DEF IInv, Lists
      <4>2. ~changed => Emit("add", s)
        BY <3>1, <4>1 DEF BindService
      <4> QED BY <1>4, <1>5, <4>2 DEF Announced
    <3> QED BY <1>3, <3>2, <3>3, <3>4 DEF IInv, Lists
  <2>4. CASE \E new \in Configuration : ChangeConfiguration(new)
    BY <2>4 DEF ChangeConfiguration
  <2> QED BY <2>1, <2>2, <2>3, <2>4 DEF FibStep
<1>10. Decoded'
  <2>1. SUFFICES ASSUME ~changed' PROVE Decoded'
    BY DEF Decoded
  <2>2. /\ todo' = todo /\ currentService' = currentService /\ ad' = ad
        /\ theBackends' = theBackends
    BY <1>1 DEF Fib, guiVars
  <2>3. ~changed
    BY <1>9, <2>1
  <2>4. \A s : AudioData(s) # None => AudioData(s)' = AudioData(s) /\ place'[s] = place[s]
    BY <1>9, <2>1 DEF AudioData
  <2>5. Call("msc.stop") => currentService.valid
    BY DEF IInv, Ordered
  <2>6. Call("set_Channel") => ad # None
    BY ServiceAssumption DEF IInv, Placing
  <2>7. NoWarning(todo)'
    BY <2>2, <2>3 DEF IInv, Decoded
  <2>8. theBackends' = IF currentService.valid
         THEN {[SId |-> currentService.name, place |-> place'[currentService.name]]} ELSE {}
    BY <2>2, <2>3, <2>4 DEF IInv, Decoded
  <2> HIDE DEF AudioData
  <2> QED BY <2>2, <2>3, <2>4, <2>5, <2>6, <2>7, <2>8 DEF IInv, Decoded, Call
<1>11. Lists'
  BY <1>1, <1>6, <1>9 DEF IInv, Fib, guiVars, Lists, AudioData
<1> QED BY <1>2, <1>8, <1>10, <1>11 DEF IInv
\* The calls the handlers make, and what stays in all of them.
LEMMA MadeCalls ==
  /\ stopService \in Calls /\ [call |-> "msc.stop", name |-> None] \in Calls
  /\ [call |-> "getServices", name |-> None] \in Calls
  /\ startService(None) \in Calls
  /\ \A s \in Service :
       /\ getParameters(s) \in Calls /\ startService(s) \in Calls
       /\ \A c \in {"getServices", "start_audioService", "warning", "set_Channel"} :
            [call |-> c, name |-> s] \in Calls
BY DEF Calls, stopService, getParameters, startService

LEMMA AudioPlace ==
  ASSUME TypeOK, NEW s
  PROVE  AudioData(s) \in Place \cup {None}
BY DEF TypeOK, AudioData, Configuration

LEMMA Unsought ==
  ASSUME IInv, UNCHANGED <<fibVars, serviceList>>
  PROVE  Lists' /\ \A s : AudioData(s)' = AudioData(s)
BY DEF IInv, fibVars, Lists, AudioData, Announced

LEMMA StopReadKeeps ==
  ASSUME IInv, StopRead
  PROVE  IInv'
<1>1. Shape(todo) /\ todo # <<>> /\ Head(todo).call = "stop"
  BY DEF IInv, StopRead, Call
<1>2. Lists' /\ \A s : AudioData(s)' = AudioData(s)
  BY Unsought DEF StopRead
<1>3. CASE currentService.valid
  <2>1. /\ Shape(todo)' /\ todo' # <<>> /\ Head(todo)' = [call |-> "msc.stop", name |-> None]
        /\ NoWarning(todo) => NoWarning(todo)'
    BY <1>1, <1>3, Replaced, MadeCalls DEF StopRead, Then
  <2>2. ad' = AudioData(currentService.name)
    BY <1>3 DEF StopRead
  <2>3. TypeOK'
    BY <2>1, <2>2, AudioPlace DEF IInv, TypeOK, StopRead, Shape, fibVars
  <2>4. Ordered' /\ Timer' /\ Placing' /\ PresetFits' /\ Kept'
    BY <1>3, <2>1 DEF IInv, StopRead, Ordered, Timer, Placing, PresetFits, Kept, Call
  <2>5. Decoded'
    BY <1>2, <1>3, <2>1, <2>2 DEF IInv, StopRead, Decoded, Call, fibVars
  <2> QED BY <1>2, <2>1, <2>3, <2>4, <2>5 DEF IInv
<1>4. CASE ~currentService.valid
  <2>1. /\ Shape(todo)' /\ (todo' # <<>> => Head(todo)'.call \in Late)
        /\ NoWarning(todo) => NoWarning(todo)'
    BY <1>1, <1>4, Dropped DEF StopRead, Then
  <2>2. TypeOK'
    BY <1>4, <2>1 DEF IInv, TypeOK, StopRead, Shape, fibVars
  <2>3. Ordered' /\ Timer' /\ Placing' /\ PresetFits' /\ Kept'
    BY <1>4, <2>1 DEF IInv, StopRead, Ordered, Timer, Placing, PresetFits, Kept, Call, Late
  <2>4. Decoded'
    BY <1>2, <1>4, <2>1 DEF IInv, StopRead, Decoded, Call, fibVars, Late
  <2> QED BY <1>2, <2>1, <2>2, <2>3, <2>4 DEF IInv
<1> QED BY <1>3, <1>4

LEMMA StopBackendKeeps ==
  ASSUME IInv, StopBackend
  PROVE  IInv'
<1>1. /\ Shape(todo) /\ todo # <<>> /\ Head(todo).call = "msc.stop"
      /\ currentService.valid
  BY DEF IInv, StopBackend, Call, Ordered
<1>2. Lists' /\ \A s : AudioData(s)' = AudioData(s)
  BY Unsought DEF StopBackend
<1>3. /\ Shape(todo)' /\ (todo' # <<>> => Head(todo)'.call \in Late)
      /\ NoWarning(todo) => NoWarning(todo)'
  BY <1>1, Dropped DEF StopBackend, Then
<1>4. /\ currentService'.valid = FALSE /\ currentService' \in [name : Service \cup {None}, valid : BOOLEAN]
      /\ ad' = None /\ theBackends' \subseteq theBackends
  BY DEF StopBackend, IInv, TypeOK
<1>5. TypeOK'
  BY <1>3, <1>4 DEF IInv, TypeOK, StopBackend, Shape, fibVars
<1>6. Ordered' /\ Placing' /\ PresetFits' /\ Kept'
  BY <1>3, <1>4 DEF IInv, StopBackend, Ordered, Placing, PresetFits, Kept, Call, Late
<1>7. Timer'
  BY <1>1 DEF IInv, Timer, StopBackend
<1>8. Decoded'
  <2>1. SUFFICES ASSUME ~changed' PROVE Decoded'
    BY DEF Decoded
  <2>2. ~changed /\ place' = place
    BY <2>1 DEF StopBackend, fibVars
  <2>3. theBackends' = {}
    <3>1. /\ ad # None /\ ad = place[currentService.name]
      BY <1>1, <2>2 DEF IInv, Decoded, Call, AudioData
    <3>2. theBackends = {[SId |-> currentService.name, place |-> ad]}
      BY <1>1, <2>2, <3>1 DEF IInv, Decoded
    <3>3. theBackends' = {b \in theBackends : b.place.subchId # ad.subchId}
      BY <3>1 DEF StopBackend
    <3> QED BY <3>2, <3>3
  <2> QED BY <1>3, <1>4, <2>2, <2>3 DEF IInv, Decoded, Call, Late
<1> QED BY <1>2, <1>3, <1>5, <1>6, <1>7, <1>8 DEF IInv

\* After a call with a service comes one call more, or none.
LEMMA LastCall ==
  ASSUME NEW t, Shape(t), t # <<>>, Head(t).name # None, NEW c \in Calls, NEW u
  PROVE  /\ u = <<c>> \o Tail(t) =>
              Shape(u) /\ u # <<>> /\ Head(u) = c /\ (c.call # "warning" => NoWarning(u))
         /\ u = <<>> \o Tail(t) => u = <<>> /\ Shape(u) /\ NoWarning(u)
<1>1. Tail(t) = <<>>
  BY NamedIsLast
<1>2. ASSUME u = <<c>> \o Tail(t)
      PROVE  Shape(u) /\ u # <<>> /\ Head(u) = c /\ (c.call # "warning" => NoWarning(u))
  BY <1>1, <1>2, EmptyShape, PushShape
<1>3. ASSUME u = <<>> \o Tail(t) PROVE u = <<>> /\ Shape(u) /\ NoWarning(u)
  <2>1. u = <<>>
    BY <1>1, <1>3
  <2> QED BY <2>1, EmptyShape
<1> QED BY <1>2, <1>3

\* A call with a service in it: no service is on, and the timer is off.
LEMMA NamedCall ==
  ASSUME IInv, todo # <<>>,
         Head(todo).call \in {"getParameters", "start_audioService", "warning", "set_Channel"}
  PROVE  /\ Shape(todo) /\ Head(todo).name \in Service /\ Head(todo).name # None
         /\ ~currentService.valid /\ ~presetTimer
<1>1. Shape(todo) /\ Head(todo).name \in Service /\ Head(todo).name # None
  BY HeadType, ServiceAssumption DEF IInv
<1>2. ~currentService.valid
  BY DEF IInv, Ordered
<1>3. ~AllNone(todo)
  BY <1>1, NamedIsLast
<1> QED BY <1>1, <1>2, <1>3 DEF IInv, Timer

LEMMA FindServiceKeeps ==
  ASSUME IInv, FindService
  PROVE  IInv'
<1>1. /\ todo # <<>> /\ Head(todo).call = "getParameters"
      /\ Shape(todo) /\ Head(todo).name \in Service /\ Head(todo).name # None
      /\ ~currentService.valid /\ ~presetTimer
  BY NamedCall DEF FindService, Call
<1>2. Lists' /\ \A s : AudioData(s)' = AudioData(s)
  BY Unsought DEF FindService, guiVars
<1>3. /\ Shape(todo)' /\ NoWarning(todo)'
      /\ todo' = <<>> \/ Head(todo)'.call = "start"
  <2> DEFINE c == startService(Head(todo).name)
  <2>1. c \in Calls /\ c.call = "start"
    BY <1>1, MadeCalls DEF startService
  <2>2. todo' = <<c>> \o Tail(todo) \/ todo' = <<>> \o Tail(todo)
    BY DEF FindService, Then
  <2> HIDE DEF c
  <2> QED BY <1>1, <2>1, <2>2, LastCall
<1>4. TypeOK'
  BY <1>3 DEF IInv, TypeOK, FindService, Shape, fibVars, guiVars
<1>5. Ordered' /\ Timer' /\ Placing' /\ PresetFits' /\ Kept'
  BY <1>1, <1>3 DEF IInv, FindService, guiVars, Ordered, Timer, Placing, PresetFits, Kept, Call
<1>6. Decoded'
  BY <1>1, <1>2, <1>3 DEF IInv, FindService, Decoded, Call, fibVars, guiVars
<1> QED BY <1>2, <1>3, <1>4, <1>5, <1>6 DEF IInv

LEMMA StartServiceKeeps ==
  ASSUME IInv, StartService
  PROVE  IInv'
<1> DEFINE s == Head(todo).name
           c == [call |-> "start_audioService", name |-> s]
<1>1. /\ Shape(todo) /\ todo # <<>> /\ Head(todo).call = "start" /\ s \in Service \cup {None}
      /\ ~currentService.valid
  BY HeadType DEF IInv, StartService, Call, Ordered
<1>2. Lists' /\ \A t : AudioData(t)' = AudioData(t)
  BY Unsought DEF StartService
<1>3. currentService' = [name |-> s, valid |-> FALSE]
  BY <1>1 DEF StartService
<1>4. \/ /\ Shape(todo)' /\ NoWarning(todo)' /\ todo' # <<>> /\ Head(todo)' = c
         /\ AudioData(s) # None /\ ~presetTimer
      \/ /\ Shape(todo)' /\ (NoWarning(todo) => NoWarning(todo)')
         /\ todo' # <<>> => Head(todo)'.call \in Late
         /\ presetTimer => todo' = <<>> \/ AllNone(todo)'
  <2>1. CASE s \in serviceList /\ AudioData(s) # None
    <3>1. s \in Service /\ s # None
      BY <2>1, ServiceAssumption DEF IInv, TypeOK
    <3>2. ~presetTimer
      BY <1>1, <3>1, NamedIsLast DEF IInv, Timer
    <3>3. c \in Calls /\ c.call # "warning"
      BY <3>1, MadeCalls
    <3>4. todo' = <<c>> \o Tail(todo)
      BY <1>1, <2>1 DEF StartService, Then
    <3> HIDE DEF c
    <3>5. Shape(todo') /\ NoWarning(todo') /\ todo' # <<>> /\ Head(todo') = c
      BY <1>1, <3>1, <3>3, <3>4, LastCall
    <3> QED BY <2>1, <3>2, <3>5
  <2>2. CASE ~(s \in serviceList /\ AudioData(s) # None)
    <3>1. todo' = <<>> \o Tail(todo)
      BY <1>1, <2>2 DEF StartService, Then
    <3>2. /\ Shape(todo') /\ (NoWarning(todo) => NoWarning(todo'))
          /\ todo' # <<>> => Head(todo').call \in Late
          /\ AllNone(todo) => AllNone(todo')
      BY <1>1, <3>1, Dropped
    <3>3. presetTimer => AllNone(todo)
      BY <1>1 DEF IInv, Timer
    <3> QED BY <3>2, <3>3
  <2> QED BY <2>1, <2>2
<1>5. TypeOK'
  <2>1. currentService' \in [name : Service \cup {None}, valid : BOOLEAN]
    BY <1>1, <1>3
  <2> QED BY <1>4, <2>1 DEF IInv, TypeOK, StartService, Shape, fibVars
<1>6. Ordered' /\ Timer' /\ Placing' /\ PresetFits' /\ Kept'
  BY <1>3, <1>4 DEF IInv, StartService, Ordered, Timer, Placing, PresetFits, Kept, Call, Late
<1>7. Decoded'
  BY <1>1, <1>2, <1>3, <1>4 DEF IInv, StartService, Decoded, Call, fibVars, Late
<1> QED BY <1>2, <1>4, <1>5, <1>6, <1>7 DEF IInv

LEMMA StartReadKeeps ==
  ASSUME IInv, StartRead
  PROVE  IInv'
<1> DEFINE s == Head(todo).name
           c == [call |-> IF ad' = None THEN "warning" ELSE "set_Channel", name |-> s]
<1>1. /\ todo # <<>> /\ Head(todo).call = "start_audioService"
      /\ Shape(todo) /\ s \in Service /\ s # None
      /\ ~currentService.valid /\ ~presetTimer
  BY NamedCall DEF StartRead, Call
<1>2. Lists' /\ \A t : AudioData(t)' = AudioData(t)
  BY Unsought DEF StartRead, guiVars
<1>3. ad' = AudioData(s) /\ ad' \in Place \cup {None}
  BY AudioPlace DEF StartRead, IInv
<1>4. /\ Shape(todo)' /\ todo' # <<>> /\ Head(todo)' = c
      /\ c.call # "warning" => NoWarning(todo)'
  <2>1. c \in Calls
    BY <1>1, MadeCalls
  <2>2. todo' = <<c>> \o Tail(todo)
    BY DEF StartRead, Then
  <2> HIDE DEF c
  <2>3. Shape(todo') /\ todo' # <<>> /\ Head(todo') = c /\ (c.call # "warning" => NoWarning(todo'))
    BY <1>1, <2>1, <2>2, LastCall
  <2> QED BY <2>3
<1>5. TypeOK'
  BY <1>3, <1>4 DEF IInv, TypeOK, StartRead, Shape, fibVars, guiVars
<1>6. Ordered' /\ Timer' /\ Placing' /\ PresetFits' /\ Kept'
  BY <1>1, <1>3, <1>4 DEF IInv, StartRead, guiVars, Ordered, Timer, Placing, PresetFits, Kept, Call
<1>7. Decoded'
  <2>1. ~changed => c.call = "set_Channel"
    BY <1>1, <1>3 DEF IInv, Decoded, Call
  <2> QED BY <1>1, <1>2, <1>3, <1>4, <2>1 DEF IInv, StartRead, Decoded, Call, fibVars, guiVars
<1> QED BY <1>2, <1>4, <1>5, <1>6, <1>7 DEF IInv

LEMMA WarningClosedKeeps ==
  ASSUME IInv, WarningClosed
  PROVE  IInv'
<1> DEFINE s == Head(todo).name
<1>1. /\ todo # <<>> /\ Head(todo).call = "warning"
      /\ Shape(todo) /\ s \in Service /\ s # None
      /\ ~currentService.valid /\ ~presetTimer
  BY NamedCall DEF WarningClosed, Call
<1>2. Lists'
  BY Unsought DEF WarningClosed
<1>3. todo' = <<>> /\ Shape(todo)'
  BY <1>1, MadeCalls, LastCall DEF WarningClosed, Then
<1>4. currentService' = [name |-> s, valid |-> TRUE]
  BY DEF WarningClosed, BecomesValid
<1>5. TypeOK'
  <2>1. currentService' \in [name : Service \cup {None}, valid : BOOLEAN]
    BY <1>1, <1>4
  <2> QED BY <1>3, <2>1 DEF IInv, TypeOK, WarningClosed, Shape, fibVars
<1>6. Ordered' /\ Timer' /\ Placing' /\ PresetFits' /\ Kept'
  BY <1>1, <1>3, <1>4 DEF IInv, WarningClosed, Ordered, Timer, Placing, PresetFits, Kept, Call
<1>7. Decoded'
  <2>1. changed
    BY <1>1, TailElements DEF IInv, Decoded, NoWarning, Shape
  <2> QED BY <2>1 DEF Decoded, WarningClosed, fibVars
<1> QED BY <1>2, <1>3, <1>5, <1>6, <1>7 DEF IInv

LEMMA SetChannelKeeps ==
  ASSUME IInv, SetChannel
  PROVE  IInv'
<1> DEFINE s == Head(todo).name
<1>1. /\ todo # <<>> /\ Head(todo).call = "set_Channel"
      /\ Shape(todo) /\ s \in Service /\ s # None
      /\ ~currentService.valid /\ ~presetTimer /\ ad \in Place
  BY NamedCall DEF SetChannel, Call, IInv, Placing
<1>2. Lists' /\ \A t : AudioData(t)' = AudioData(t)
  BY Unsought DEF SetChannel
<1>3. todo' = <<>> /\ Shape(todo)' /\ NoWarning(todo)'
  BY <1>1, MadeCalls, LastCall DEF SetChannel, Then
<1>4. /\ currentService' = [name |-> s, valid |-> TRUE]
      /\ theBackends' = IF \E b \in theBackends : b.SId = s THEN theBackends
                        ELSE theBackends \cup {[SId |-> s, place |-> ad]}
      /\ ad' = None
  BY DEF SetChannel, BecomesValid
<1>5. TypeOK'
  <2>1. currentService' \in [name : Service \cup {None}, valid : BOOLEAN]
    BY <1>1, <1>4
  <2>2. theBackends' \subseteq [SId : Service, place : Place]
    BY <1>1, <1>4 DEF IInv, TypeOK
  <2> QED BY <1>3, <1>4, <2>1, <2>2 DEF IInv, TypeOK, SetChannel, Shape, fibVars
<1>6. Ordered' /\ Timer' /\ Placing' /\ PresetFits' /\ Kept'
  BY <1>1, <1>3, <1>4 DEF IInv, SetChannel, Ordered, Timer, Placing, PresetFits, Kept, Call
<1>7. Decoded'
  <2>1. SUFFICES ASSUME ~changed' PROVE Decoded'
    BY DEF Decoded
  <2>2. ~changed /\ place' = place
    BY <2>1 DEF SetChannel, fibVars
  <2>3. AudioData(s) = ad /\ ad = place[s] /\ ad # None
    BY <1>1, <2>2, ServiceAssumption DEF IInv, Decoded, Call, AudioData
  <2>4. theBackends' = {[SId |-> s, place |-> place'[s]]}
    BY <1>1, <1>4, <2>2, <2>3 DEF IInv, Decoded
  <2> QED BY <1>2, <1>3, <1>4, <2>3, <2>4 DEF Decoded, Call
<1> QED BY <1>2, <1>3, <1>5, <1>6, <1>7 DEF IInv

LEMMA RebuildListKeeps ==
  ASSUME IInv, RebuildList
  PROVE  IInv'
<1> DEFINE s == Head(todo).name
<1>1. /\ Shape(todo) /\ todo # <<>> /\ Head(todo).call = "getServices" /\ s \in Service \cup {None}
      /\ ~currentService.valid
  BY HeadType DEF IInv, RebuildList, Call, Ordered
<1>2. \A t : AudioData(t)' = AudioData(t)
  BY DEF RebuildList, fibVars, AudioData
<1>3. /\ Shape(todo)' /\ (NoWarning(todo) => NoWarning(todo)')
      /\ todo' # <<>> => Head(todo)'.call \in Late \cup {"start"}
      /\ AllNone(todo) => AllNone(todo)'
  <2>1. CASE todo' = <<startService(s)>> \o Tail(todo)
    <3> DEFINE c == startService(s)
    <3>1. c \in Calls /\ c.call = "start" /\ c.name = s
      BY <1>1, MadeCalls DEF startService
    <3>2. c.name = None \/ Head(todo).name # None
      BY <3>1
    <3>3. AllNone(todo) => c.name = None
      BY <1>1, <3>1, NamedIsLast
    <3> HIDE DEF c
    <3>4. /\ Shape(todo') /\ todo' # <<>> /\ Head(todo') = c
          /\ AllNone(todo) /\ c.name = None => AllNone(todo')
          /\ NoWarning(todo) /\ c.call # "warning" => NoWarning(todo')
      BY <1>1, <2>1, <3>1, <3>2, Replaced DEF c
    <3> QED BY <3>1, <3>3, <3>4
  <2>2. CASE todo' = <<>> \o Tail(todo)
    <3>1. /\ Shape(todo') /\ (NoWarning(todo) => NoWarning(todo'))
          /\ todo' # <<>> => Head(todo').call \in Late
          /\ AllNone(todo) => AllNone(todo')
      BY <1>1, <2>2, Dropped
    <3> QED BY <3>1
  <2> QED BY <2>1, <2>2 DEF RebuildList, Then
<1>4. TypeOK'
  BY <1>3 DEF IInv, TypeOK, RebuildList, Shape, fibVars
<1>5. Ordered' /\ Timer' /\ Placing' /\ PresetFits' /\ Kept'
  BY <1>1, <1>3 DEF IInv, RebuildList, Ordered, Timer, Placing, PresetFits, Kept, Call, Late
<1>6. Decoded'
  BY <1>1, <1>2, <1>3 DEF IInv, RebuildList, Decoded, Call, fibVars, Late
<1>7. Lists'
  BY <1>2 DEF IInv, RebuildList, Lists, fibVars, Announced
<1> QED BY <1>3, <1>4, <1>5, <1>6, <1>7 DEF IInv
\* A signal is taken from the queue: the others are still there.
LEMMA TakenSignal ==
  ASSUME IInv, NEW k, NextSignal(k)
  PROVE  /\ events' \in Seq(Event) /\ Head(events) \in Event /\ Head(events).kind = k
         /\ k = "add" => Head(events).name \in Service
         /\ \A s : Announced(s) =>
              \/ s \in serviceList \/ (k = "add" /\ s = Head(events).name)
              \/ \E i \in DOMAIN events' : events'[i].kind = "add" /\ events'[i].name = s
<1>1. events \in Seq(Event) /\ events # <<>> /\ events' = Tail(events) /\ Head(events).kind = k
  BY DEF NextSignal, IInv, TypeOK
<1>2. /\ Head(events) = events[1] /\ events[1] \in Event /\ events' \in Seq(Event)
      /\ Len(events) \in Nat \ {0} /\ Len(events') = Len(events) - 1
      /\ \A i \in DOMAIN events' : events'[i] = events[i + 1]
  BY <1>1, TailElements
<1>3. \A i \in DOMAIN events : i # 1 => i - 1 \in DOMAIN events' /\ events'[i - 1] = events[i]
  BY <1>1, <1>2
<1>4. ASSUME NEW s, NEW i \in DOMAIN events, events[i].kind = "add", events[i].name = s
      PROVE  \/ k = "add" /\ s = Head(events).name
             \/ \E j \in DOMAIN events' : events'[j].kind = "add" /\ events'[j].name = s
  BY <1>1, <1>2, <1>3, <1>4
<1> QED BY <1>1, <1>2, <1>4 DEF Announced, Event

\* What a signal or the end of the timer leaves alone.
LEMMA Undisturbed ==
  ASSUME IInv, UNCHANGED <<todo, channel, running, currentService, nextService, dabSettings,
                           presetTimer, ad, changed, labels, place, theBackends>>
  PROVE  /\ Shape(todo)' /\ Ordered' /\ Timer' /\ Placing' /\ PresetFits' /\ Kept' /\ Decoded'
         /\ \A s : AudioData(s)' = AudioData(s)
<1>1. \A s : AudioData(s)' = AudioData(s)
  BY DEF AudioData
<1> QED BY <1>1 DEF IInv, Ordered, Timer, Placing, PresetFits, Kept, Decoded, Call

LEMMA SignalsKeep ==
  ASSUME IInv, Signals
  PROVE  IInv'
<1>1. CASE addtoEnsemble
  <2>1. NextSignal("add")
    BY <1>1 DEF addtoEnsemble
  <2>2. /\ Shape(todo)' /\ Ordered' /\ Timer' /\ Placing' /\ PresetFits' /\ Kept' /\ Decoded'
        /\ \A s : AudioData(s)' = AudioData(s)
    BY <1>1, Undisturbed DEF addtoEnsemble
  <2>3. TypeOK'
    BY <1>1, <2>1, TakenSignal DEF IInv, TypeOK, addtoEnsemble
  <2>4. Lists'
    <3>1. \A s : Announced(s) /\ AudioData(s) # None => Announced(s)'
      BY <1>1, <2>1, TakenSignal DEF addtoEnsemble, Announced
    <3>2. serviceList' \subseteq serviceList \cup {s \in labels : AudioData(s) # None}
      BY <1>1 DEF addtoEnsemble, AudioData
    <3> QED BY <1>1, <2>2, <3>1, <3>2 DEF IInv, Lists, addtoEnsemble
  <2> QED BY <2>2, <2>3, <2>4 DEF IInv
<1>2. CASE nameofEnsemble
  <2>1. NextSignal("name")
    BY <1>2 DEF nameofEnsemble
  <2>2. /\ Shape(todo)' /\ Ordered' /\ Timer' /\ Placing' /\ PresetFits' /\ Kept' /\ Decoded'
        /\ \A s : AudioData(s)' = AudioData(s)
    BY <1>2, Undisturbed DEF nameofEnsemble
  <2>3. TypeOK'
    BY <1>2, <2>1, TakenSignal DEF IInv, TypeOK, nameofEnsemble
  <2>4. Lists'
    <3>1. \A s : Announced(s) => Announced(s)'
      BY <1>2, <2>1, TakenSignal DEF nameofEnsemble, Announced
    <3> QED BY <1>2, <2>2, <3>1 DEF IInv, Lists, nameofEnsemble
  <2> QED BY <2>2, <2>3, <2>4 DEF IInv
<1>3. CASE changeinConfiguration
  <2>1. NextSignal("change")
    BY <1>3 DEF changeinConfiguration
  <2>2. events' \in Seq(Event) /\ \A s : Announced(s) => Announced(s)'
    BY <1>3, <2>1, TakenSignal DEF changeinConfiguration, guiVars, Announced
  <2>3. /\ UNCHANGED <<guiVars, ad, labels, place, shown, changed, theBackends>>
        /\ \A s : AudioData(s)' = AudioData(s)
    BY <1>3 DEF changeinConfiguration, guiVars, AudioData
  <2>4. Lists'
    BY <2>2, <2>3 DEF IInv, Lists, guiVars
  <2>5. Shape(todo) /\ (todo = <<>> \/ Head(todo).call = "warning")
    BY <2>1 DEF IInv, NextSignal, Loop, Call
  <2> DEFINE c == [call |-> "getServices", name |-> currentService.name]
             n == [call |-> "getServices", name |-> None]
  <2>6. CASE running /\ currentService.valid
    <3>1. todo = <<>> /\ currentService.name \in Service /\ ~presetTimer
      BY <2>5, <2>6 DEF IInv, Ordered, Timer
    <3>2. c \in Calls /\ stopService \in Calls /\ c.call = "getServices"
          /\ stopService.name = None /\ stopService.call = "stop"
      BY <3>1, MadeCalls DEF stopService
    <3>3. todo' = <<stopService, c>> \o <<>>
      BY <1>3, <2>6, <3>1 DEF changeinConfiguration
    <3> HIDE DEF c
    <3>4. todo' = <<stopService>> \o (<<c>> \o <<>>)
      BY <3>3
    <3>5. Shape(<<c>> \o <<>>) /\ NoWarning(<<c>> \o <<>>) /\ Head(<<c>> \o <<>>) = c
      BY <3>2, EmptyShape, PushShape
    <3> DEFINE u == <<c>> \o <<>>
    <3>6. Shape(u) /\ NoWarning(u) /\ Head(u).call \in Late /\ todo' = <<stopService>> \o u
      BY <3>2, <3>4, <3>5 DEF Late
    <3> HIDE DEF u
    <3>7. /\ Shape(todo)' /\ NoWarning(todo)' /\ todo' # <<>> /\ Head(todo)' = stopService
      BY <3>2, <3>6, PushShape
    <3>8. TypeOK'
      BY <1>3, <2>2, <2>3, <3>7 DEF IInv, TypeOK, Shape, changeinConfiguration, guiVars
    <3>9. Ordered' /\ Timer' /\ Placing' /\ PresetFits' /\ Kept'
      BY <2>3, <2>6, <3>1, <3>2, <3>7 DEF IInv, Ordered, Timer, Placing, PresetFits, Kept, Call, guiVars
    <3>10. Decoded'
      BY <2>3, <3>2, <3>7 DEF IInv, Decoded, Call, guiVars
    <3> QED BY <2>4, <3>7, <3>8, <3>9, <3>10 DEF IInv
  <2>7. CASE running /\ ~currentService.valid
    <3>1. n \in Calls /\ n.call = "getServices" /\ n.name = None
      BY MadeCalls
    <3>2. todo' = <<n>> \o todo
      BY <1>3, <2>7 DEF changeinConfiguration
    <3> HIDE DEF n
    <3>3. /\ Shape(todo)' /\ todo' # <<>> /\ Head(todo)' = n
          /\ NoWarning(todo) => NoWarning(todo)'
          /\ AllNone(todo) => AllNone(todo)'
      BY <2>5, <3>1, <3>2, PushShape DEF Late
    <3>4. TypeOK'
      BY <1>3, <2>2, <2>3, <3>3 DEF IInv, TypeOK, Shape, changeinConfiguration, guiVars
    <3>5. presetTimer => AllNone(todo)
      BY <2>5, EmptyShape DEF IInv, Timer
    <3>6. Ordered' /\ Timer' /\ Placing' /\ PresetFits' /\ Kept'
      BY <2>3, <2>7, <3>1, <3>3, <3>5 DEF IInv, Ordered, Timer, Placing, PresetFits, Kept, Call, guiVars
    <3>7. Decoded'
      BY <2>3, <2>7, <3>1, <3>3 DEF IInv, Decoded, Call, guiVars
    <3> QED BY <2>4, <3>3, <3>4, <3>6, <3>7 DEF IInv
  <2>8. CASE ~running
    <3>1. todo' = todo
      <4>1. todo' = <<>> \o todo
        BY <1>3, <2>8 DEF changeinConfiguration
      <4> QED BY <2>5, <4>1 DEF Shape
    <3>2. /\ Shape(todo)' /\ Ordered' /\ Timer' /\ Placing' /\ PresetFits' /\ Kept' /\ Decoded'
      BY <2>3, <3>1, Undisturbed DEF guiVars
    <3>3. TypeOK'
      BY <1>3, <2>2, <2>3, <3>1 DEF IInv, TypeOK, changeinConfiguration, guiVars
    <3> QED BY <2>4, <3>2, <3>3 DEF IInv
  <2> QED BY <2>6, <2>7, <2>8
<1> QED BY <1>1, <1>2, <1>3 DEF Signals

LEMMA setPresetStationKeeps ==
  ASSUME IInv, setPresetStation
  PROVE  IInv'
<1>1. presetTimer /\ presetTimer' = FALSE /\ ~currentService.valid
  BY DEF setPresetStation, IInv, Timer
<1>2. todo = <<>>
  <2>1. todo # <<>> => Head(todo).call = "warning"
    BY DEF setPresetStation, Loop, Call
  <2> QED BY <1>1, <2>1, NamedCall
<1>3. Lists' /\ \A s : AudioData(s)' = AudioData(s)
  BY Unsought DEF setPresetStation
<1>4. Shape(todo)' /\ NoWarning(todo)' /\ (todo' = <<>> \/ Head(todo)'.call = "getParameters")
  <2>1. CASE todo' = <<getParameters(nextService.name)>> \o todo /\ nextService.name \in serviceList
    <3> DEFINE c == getParameters(nextService.name)
    <3>1. c \in Calls /\ c.call = "getParameters"
      BY <2>1, MadeCalls DEF IInv, TypeOK, getParameters
    <3>2. todo' = <<c>> \o <<>>
      BY <1>2, <2>1
    <3> HIDE DEF c
    <3> QED BY <3>1, <3>2, EmptyShape, PushShape
  <2>2. CASE todo' = todo
    BY <1>2, <2>2, EmptyShape
  <2> QED BY <2>1, <2>2 DEF setPresetStation
<1>5. TypeOK'
  BY <1>1, <1>4 DEF IInv, TypeOK, Chosen, Shape, setPresetStation, fibVars
<1>6. Ordered' /\ Timer' /\ Placing' /\ PresetFits' /\ Kept'
  BY <1>1, <1>4 DEF IInv, setPresetStation, Ordered, Timer, Placing, PresetFits, Kept, Call
<1>7. Decoded'
  BY <1>1, <1>3, <1>4 DEF IInv, setPresetStation, Decoded, Call, fibVars
<1> QED BY <1>3, <1>4, <1>5, <1>6, <1>7 DEF IInv

\* A handler that first stops what is on, and then looks for a service.
LEMMA Selecting ==
  ASSUME NEW s \in Service,
         NEW t \in {<<stopService>>, <<stopService, getParameters(s)>>,
                    <<stopService, stopService, getParameters(s)>>}
  PROVE  Shape(t) /\ NoWarning(t) /\ t # <<>> /\ Head(t).call = "stop"
<1>1. /\ stopService \in Calls /\ getParameters(s) \in Calls
      /\ stopService.name = None /\ stopService.call = "stop" /\ getParameters(s).call = "getParameters"
  BY MadeCalls DEF stopService, getParameters
<1> DEFINE a == stopService
           b == getParameters(s)
<1> HIDE DEF a, b
<1>2. /\ a \in Calls /\ b \in Calls /\ t \in {<<a>>, <<a, b>>, <<a, a, b>>}
      /\ a.name = None /\ a.call = "stop" /\ b.call = "getParameters"
  BY <1>1 DEF a, b
<1>3. /\ t \in Seq(Calls) /\ t # <<>> /\ Head(t) = a
      /\ \A i \in DOMAIN t : t[i] \in {a, b} /\ (i # Len(t) => t[i] = a)
  <2>1. CASE t = <<a>>
    BY <1>2, <2>1
  <2>2. CASE t = <<a, b>>
    BY <1>2, <2>2
  <2>3. CASE t = <<a, a, b>>
    BY <1>2, <2>3
  <2> QED BY <1>2, <2>1, <2>2, <2>3
<1> QED BY <1>2, <1>3 DEF Shape, NoWarning, Late

\* A handler without a call, and one that begins with a stop.
LEMMA Beginning ==
  ASSUME IInv, User,
         UNCHANGED <<channel, running, serviceList, currentService, dabSettings, ensembleId, ad,
                     fibVars, theBackends>>,
         \/ presetTimer' = FALSE /\ nextService' \in {nextService, NoNext}
         \/ /\ UNCHANGED <<presetTimer, nextService>>
            /\ todo' # <<>> /\ Head(todo)'.call = "stop",
         Shape(todo)', NoWarning(todo)', todo' = <<>> \/ Head(todo)'.call = "stop"
  PROVE  IInv'
<1>1. Lists' /\ \A s : AudioData(s)' = AudioData(s)
  BY Unsought
<1>2. TypeOK'
  BY DEF IInv, TypeOK, Chosen, Shape, fibVars
<1>3. Ordered' /\ Timer' /\ Placing' /\ PresetFits' /\ Kept'
  BY DEF IInv, User, Ordered, Timer, Placing, PresetFits, Kept, Call
<1>4. Decoded'
  BY <1>1 DEF IInv, Decoded, Call, fibVars
<1> QED BY <1>1, <1>2, <1>3, <1>4 DEF IInv

\* Another channel, or none: nothing is left of the ensemble but its signals.
LEMMA Leaving ==
  ASSUME IInv, User, stopChannel, todo' = todo, channel' \in Channel, running' \in BOOLEAN,
         presetTimer' \in BOOLEAN,
         dabSettings' \in Remembered, Kept',
         nextService' \in {NoNext} \cup [name : Service, valid : {TRUE}, channel : {channel'},
                                        old : {FALSE}],
         presetTimer' => nextService' # NoNext /\ running'
  PROVE  IInv'
<1>1. todo = <<>> /\ todo' = <<>> /\ currentService'.valid = FALSE
  BY DEF User, stopChannel, IInv, TypeOK
<1>2. Shape(todo)' /\ NoWarning(todo)'
  BY <1>1, EmptyShape
<1>3. TypeOK'
  <2>1. place' \in Configuration
    BY DEF stopChannel, Configuration
  <2>2. currentService' \in [name : Service \cup {None}, valid : BOOLEAN]
    BY DEF stopChannel, IInv, TypeOK
  <2>3. nextService' \in Chosen
    BY DEF Chosen
  <2> QED BY <1>2, <2>1, <2>2, <2>3 DEF IInv, TypeOK, stopChannel, Shape
<1>4. Ordered' /\ Timer' /\ Placing'
  BY <1>1 DEF Ordered, Timer, Placing, Call
<1>5. PresetFits'
  BY DEF PresetFits
<1>6. Decoded'
  BY <1>1, <1>2 DEF Decoded, Call, stopChannel
<1>7. Lists'
  BY DEF Lists, stopChannel
<1> QED BY <1>2, <1>3, <1>4, <1>5, <1>6, <1>7 DEF IInv

LEMMA UserKeeps ==
  ASSUME IInv, UserStep
  PROVE  IInv'
<1>1. ASSUME NEW s \in Service, SelectService(s) \/ ReturnKey(s) \/ StepService(s) \/ SelectPreset(s)
      PROVE  IInv'
  <2>1. User /\ todo = <<>>
    BY <1>1 DEF SelectService, ReturnKey, StepService, SelectPreset, User
  <2>2. \/ todo' = <<>>
        \/ todo' \in {<<stopService>>, <<stopService, getParameters(s)>>,
                      <<stopService, stopService, getParameters(s)>>}
    BY <1>1, <2>1 DEF SelectService, ReturnKey, StepService, SelectPreset
  <2>3. Shape(todo') /\ NoWarning(todo') /\ (todo' = <<>> \/ Head(todo').call = "stop")
    BY <2>2, Selecting, EmptyShape
  <2>4. /\ UNCHANGED <<channel, running, serviceList, currentService, dabSettings, ensembleId, ad,
                       fibVars, theBackends>>
        /\ \/ presetTimer' = FALSE /\ nextService' \in {nextService, NoNext}
           \/ UNCHANGED <<presetTimer, nextService>> /\ todo' # <<>>
    BY <1>1 DEF SelectService, ReturnKey, StepService, SelectPreset, guiVars
  <2> QED BY <2>1, <2>3, <2>4, Beginning
<1>2. ASSUME NEW c \in Channel, SelectChannel(c) PROVE IInv'
  BY <1>2, Leaving DEF SelectChannel, User, Kept, IInv, TypeOK
<1>3. ASSUME NEW c \in Channel, NEW s \in Service, SelectPresetOn(c, s) PROVE IInv'
  <2>1. /\ nextService' \in [name : Service, valid : {TRUE}, channel : {channel'}, old : {FALSE}]
        /\ nextService' # NoNext
    BY <1>3, ServiceAssumption DEF SelectPresetOn, NoNext
  <2> QED BY <1>3, <2>1, Leaving DEF SelectPresetOn, User, Kept, IInv, TypeOK
<1>4. CASE stop_dabSystem
  <2>1. dabSettings' \in Remembered /\ Kept'
    <3>1. CASE currentService.valid
      <4>1. currentService.name \in Service
        BY <3>1 DEF IInv, Ordered
      <4> QED BY <1>4, <3>1, <4>1 DEF stop_dabSystem, Kept, Remembered, IInv, TypeOK
    <3>2. CASE ~currentService.valid
      <4>1. dabSettings' = [dabSettings EXCEPT !.old = TRUE]
        BY <1>4, <3>2 DEF stop_dabSystem
      <4> QED BY <4>1 DEF Kept, Remembered, IInv, TypeOK
    <3> QED BY <3>1, <3>2
  <2> QED BY <1>4, <2>1, Leaving DEF stop_dabSystem, IInv, TypeOK
<1>5. CASE set_dabSystem
  <2>1. todo = <<>> /\ todo' = <<>> /\ currentService'.valid = FALSE
        /\ currentService' \in [name : Service \cup {None}, valid : BOOLEAN]
        /\ UNCHANGED <<channel, serviceList, ensembleId, ad, fibVars, theBackends>>
    BY <1>5 DEF set_dabSystem, IInv, TypeOK
  <2>2. Shape(todo') /\ NoWarning(todo')
    BY <2>1, EmptyShape
  <2>3. Lists' /\ \A s : AudioData(s)' = AudioData(s)
    BY <2>1, Unsought
  <2>4. /\ nextService' \in Chosen /\ dabSettings' \in Remembered
        /\ presetTimer' \in BOOLEAN /\ running' = TRUE
        /\ presetTimer' =>
              nextService'.valid /\ (nextService'.channel = channel \/ nextService'.old)
    BY <1>5, ServiceAssumption DEF set_dabSystem, Kept, Chosen, Remembered, IInv, TypeOK
  <2>5. TypeOK'
    BY <2>1, <2>2, <2>4 DEF IInv, TypeOK, Shape, fibVars
  <2>6. Ordered' /\ Timer' /\ Placing' /\ PresetFits' /\ Kept'
    BY <1>5, <2>1, <2>4 DEF set_dabSystem, Ordered, Timer, Placing, PresetFits, Kept, Call
  <2>7. Decoded'
    <3>1. ~currentService.valid
      BY <1>5 DEF set_dabSystem, IInv, Ordered
    <3> QED BY <2>1, <2>2, <3>1 DEF IInv, Decoded, Call, fibVars
  <2> QED BY <2>2, <2>3, <2>5, <2>6, <2>7 DEF IInv
<1> QED BY <1>1, <1>2, <1>3, <1>4, <1>5 DEF UserStep
-----------------------------------------------------------------------------
(* The theorems.                                                           *)

LEMMA GuiKeeps ==
  ASSUME IInv, GuiStep
  PROVE  IInv'
BY StopReadKeeps, StopBackendKeeps, FindServiceKeeps, StartServiceKeeps, StartReadKeeps,
   WarningClosedKeeps, SetChannelKeeps, RebuildListKeeps DEF GuiStep

LEMMA StutterKeeps ==
  ASSUME IInv, UNCHANGED vars
  PROVE  IInv'
<1>1. UNCHANGED <<todo, guiVars, ad, fibVars, theBackends>>
  BY DEF vars
<1>2. /\ Shape(todo)' /\ Ordered' /\ Timer' /\ Placing' /\ PresetFits' /\ Kept' /\ Decoded'
  BY <1>1, Undisturbed DEF guiVars, fibVars
<1>3. Lists'
  BY <1>1, Unsought DEF guiVars
<1>4. TypeOK'
  BY <1>1 DEF IInv, TypeOK, guiVars, fibVars
<1> QED BY <1>2, <1>3, <1>4 DEF IInv

\* The inductive invariant holds in every state of every behaviour of the GUI's
\* handlers in duoreceiver.cpp and the FIB decoder beside them.
THEOREM ServiceInvariant == Spec => []IInv
<1>1. IInv /\ [Next]_vars => IInv'
  BY FibKeeps, GuiKeeps, SignalsKeep, setPresetStationKeeps, UserKeeps, StutterKeeps DEF Next
<1> QED BY <1>1, InitHolds, PTL DEF Spec

\* Type correctness of duoReceiver's service variables and of the calls its
\* handlers still have to make.
THEOREM ServiceTypeCorrect == Spec => []TypeOK
<1>1. IInv => TypeOK
  BY DEF IInv
<1> QED BY <1>1, ServiceInvariant, PTL

\* presetTimer, in localSelect and set_dabSystem: whatever is done before it ends, it
\* runs for a preset chosen with its channel, which is the channel tuned to, or for
\* the service that was on when DAB was left, on the channel it played on.  The
\* exception is a name that was in the settings before: stop_dabSystem leaves it there
\* when no service is on, beside the channel of now, and the theorem says nothing of it.
THEOREM PresetAlwaysFits == Spec => []PresetFits
<1>1. IInv => PresetFits
  BY DEF IInv
<1> QED BY <1>1, ServiceInvariant, PTL

\* startService, "Niet verwacht": it never finds a service that is still on.
THEOREM StartsAfterStop == Spec => []NoneStillValid
<1>1. IInv => NoneStillValid
  BY DEF IInv, Ordered, NoneStillValid, Call
<1> QED BY <1>1, ServiceInvariant, PTL

\* mscHandler's backends, between the handlers: the service shown as current is
\* decoded at its place in the CIF, and no other.
THEOREM CurrentIsDecoded == Spec => []OnlyCurrentDecoded
<1>1. IInv => OnlyCurrentDecoded
  BY DEF IInv, Decoded, OnlyCurrentDecoded
<1> QED BY <1>1, ServiceInvariant, PTL

\* addtoEnsemble and the signals still waiting after a tuning: the list shows
\* services of the channel only, and in the end all of them that have audio.
THEOREM ListFollowsChannel == Spec => []ListIsOfChannel
<1>1. IInv => ListIsOfChannel
  <2>1. events = <<>> => \A s : Announced(s) => s \in serviceList
    BY DEF Announced
  <2> QED BY <2>1 DEF IInv, Lists, ListIsOfChannel
<1> QED BY <1>1, ServiceInvariant, PTL

-----------------------------------------------------------------------------
(* Favourites.                                                             *)


\* The keypad is shown in FM only: nothing else is tuned with it.
PadInFm == isVisible => decoder = "FM"

FavouritesInv == FavouritesTypeOK /\ InBand /\ FilesAgree /\ PadInFm

\* A frequency of the band, in kHz, is one in Hz that fits a word, and back.
LEMMA QuotientInBand ==
  ASSUME NEW freq \in Kilo * fmLow .. Kilo * fmHigh
  PROVE  freq \div Kilo \in fmLow .. fmHigh
<1>1. Kilo \in Nat \ {0} /\ fmLow \in Nat \ {0} /\ fmHigh \in Nat \ {0}
  BY FavouritesAssumption DEF FavouritesAssumption
<1> DEFINE q == freq \div Kilo
           r == freq % Kilo
<1>2. freq \in Nat /\ freq >= Kilo * fmLow /\ freq <= Kilo * fmHigh
  BY <1>1
<1>3. q \in Int /\ r \in 0 .. Kilo - 1 /\ freq = Kilo * q + r
  BY <1>1, <1>2
<1> HIDE DEF q, r
<1>4. q >= fmLow
  <2>1. SUFFICES ASSUME q + 1 <= fmLow PROVE FALSE
    BY <1>1, <1>3
  <2>2. Kilo * (q + 1) <= Kilo * fmLow
    BY <2>1, <1>1, <1>3
  <2> QED BY <1>1, <1>2, <1>3, <2>2
<1>5. q <= fmHigh
  <2>1. SUFFICES ASSUME q >= fmHigh + 1 PROVE FALSE
    BY <1>1, <1>3
  <2>2. Kilo * q >= Kilo * (fmHigh + 1)
    BY <2>1, <1>1, <1>3
  <2> QED BY <1>1, <1>2, <1>3, <2>2
<1> QED BY <1>1, <1>3, <1>4, <1>5 DEF q

LEMMA ProductInBand ==
  ASSUME NEW f \in fmLow .. fmHigh
  PROVE  KHz(f) \in Kilo * fmLow .. Kilo * fmHigh
<1>1. /\ Kilo \in Nat \ {0} /\ fmLow \in Nat \ {0} /\ fmHigh \in Nat \ {0}
      /\ Word \in Nat \ {0} /\ Kilo * fmHigh < Word \div 2
  BY FavouritesAssumption DEF FavouritesAssumption
<1> DEFINE x == Kilo * f
           half == Word \div 2
<1>2. half \in Nat /\ 2 * half <= Word
  BY <1>1
<1>3. x \in Nat /\ Kilo * fmLow <= x /\ x <= Kilo * fmHigh
  BY <1>1
<1> HIDE DEF x, half
<1>4. x < half
  <2>1. Kilo * fmHigh < half
    BY <1>1 DEF half
  <2> QED BY <1>1, <1>2, <1>3, <2>1
<1>5. (x + half) % Word = x + half
  <2>1. x + half \in 0 .. Word - 1
    BY <1>1, <1>2, <1>3, <1>4
  <2> HIDE DEF half
  <2> QED BY <1>1, <2>1
<1>6. Int32(x) = x
  BY <1>2, <1>3, <1>5 DEF Int32, half
<1> QED BY <1>1, <1>3, <1>6 DEF KHz, x

\* Everything in the band is a positive number.
LEMMA BandIsNat ==
  Kilo * fmLow .. Kilo * fmHigh \subseteq Nat
BY FavouritesAssumption DEF FavouritesAssumption

\* newFrequency keeps the device in the band.
LEMMA NewFrequencyInBand ==
  ASSUME vfoFrequency \in Kilo * fmLow .. Kilo * fmHigh,
         NEW freq \in Int, newFrequency(freq)
  PROVE  vfoFrequency' \in Kilo * fmLow .. Kilo * fmHigh
BY FavouritesAssumption DEF FavouritesAssumption, newFrequency

\* What is keyed in is an integer.
LEMMA KeyedIsInt ==
  ASSUME NEW x \in Int
  PROVE  Int32(x) \in Int /\ KHz(x) \in Int /\ MHz(x) \in Int /\ Correct(x) \in Int
<1>1. Kilo \in Nat \ {0} /\ Ten \in Nat \ {0} /\ Word \in Nat \ {0}
  BY FavouritesAssumption DEF FavouritesAssumption
<1>2. \A y \in Int : Int32(y) \in Int
  BY <1>1 DEF Int32
<1>3. Kilo * x \in Int /\ Kilo * Kilo * x \in Int
  BY <1>1
<1> QED BY <1>1, <1>2, <1>3 DEF KHz, MHz, Correct
-----------------------------------------------------------------------------
\* Nothing in memory is well typed.
LEMMA EmptyIsTyped ==
  /\ DOMAIN <<>> = {} /\ <<>> \in Seq(Row)
  /\ {} \subseteq Preset
OBVIOUS

LEMMA InvInit == FavouritesInit => FavouritesInv
<1> SUFFICES ASSUME FavouritesInit PROVE FavouritesInv
  OBVIOUS
<1>1. fmDefault \in fmLow .. fmHigh
  BY FavouritesAssumption DEF FavouritesAssumption
<1>2. settings \in [system : {"DAB", "FM"}, fmFrequency : fmLow .. fmHigh]
  BY <1>1 DEF FavouritesInit
<1>3. /\ DOMAIN forms \subseteq 1 .. MaxForms
      /\ \A f \in DOMAIN forms : forms[f] \in Text \cup {NoText}
  BY EmptyIsTyped DEF FavouritesInit
<1>5. tableWidget \in Seq(Row) /\ savedTable \in Seq(Row)
  BY EmptyIsTyped DEF FavouritesInit
<1>6. /\ decoder \in {"off", "DAB", "FM"} /\ vfoFrequency \in Nat /\ panel \in Int
      /\ wires \in Nat /\ myLine \in {0}
  BY DEF FavouritesInit
<1>7. isVisible \in BOOLEAN /\ presetSelector \subseteq Preset /\ presetFile \subseteq Preset
  BY EmptyIsTyped DEF FavouritesInit
<1>4. FavouritesTypeOK
  BY <1>2, <1>3, <1>5, <1>6, <1>7 DEF FavouritesTypeOK
<1> QED BY <1>4 DEF FavouritesInit, FavouritesInv, InBand, FilesAgree, PadInFm

\* Tuning in FM changes the device and the keypad.
LEMMA TuningStep ==
  ASSUME FavouritesInv,
         (\E d \in 0 .. Ten - 1 : Digit(d)) \/ ClearOrCorrect \/ Enter \/ FreqButton \/ StepOrRow
  PROVE  FavouritesInv'
<1> USE DEF FavouritesInv
<1>1. ASSUME NEW d \in 0 .. Ten - 1, Digit(d) PROVE FavouritesInv'
  <2>1. Ten * panel + d \in Int
    BY FavouritesAssumption DEF FavouritesAssumption, FavouritesTypeOK
  <2>2. panel' \in Int
    BY <1>1, <2>1, KeyedIsInt DEF Digit
  <2> QED BY <1>1, <2>2 DEF Digit, form, files, FavouritesTypeOK, InBand, FilesAgree, PadInFm
<1>2. CASE ClearOrCorrect
  <2>1. panel' \in Int
    BY <1>2, KeyedIsInt DEF ClearOrCorrect, FavouritesTypeOK
  <2> QED BY <1>2, <2>1 DEF ClearOrCorrect, form, files, FavouritesTypeOK, InBand, FilesAgree,
                            PadInFm
<1>3. CASE Enter
  <2>1. KHz(panel) \in Int /\ MHz(panel) \in Int
    BY KeyedIsInt DEF FavouritesTypeOK
  <2>2. vfoFrequency \in Kilo * fmLow .. Kilo * fmHigh
    BY <1>3 DEF Enter, PadInFm, InBand
  <2>3. vfoFrequency' \in Kilo * fmLow .. Kilo * fmHigh
    BY <1>3, <2>1, <2>2, NewFrequencyInBand DEF Enter
  <2>4. vfoFrequency' \in Nat /\ panel' \in Int
    BY <1>3, <2>3, BandIsNat DEF Enter
  <2>5. FavouritesTypeOK'
    BY <1>3, <2>4 DEF Enter, form, files, FavouritesTypeOK
  <2> QED BY <1>3, <2>3, <2>5 DEF Enter, files, InBand, FilesAgree, PadInFm
<1>4. CASE FreqButton
  <2>1. isVisible' \in BOOLEAN
    <3>1. CASE wires % 2 = 1
      BY <1>4, <3>1 DEF FreqButton, FavouritesTypeOK
    <3>2. CASE ~(wires % 2 = 1)
      BY <1>4, <3>2 DEF FreqButton, FavouritesTypeOK
    <3> QED BY <3>1, <3>2
  <2>2. panel' \in Int
    BY <1>4 DEF FreqButton, FavouritesTypeOK
  <2> QED BY <1>4, <2>1, <2>2 DEF FreqButton, form, files, FavouritesTypeOK, InBand, FilesAgree, PadInFm
<1>5. CASE StepOrRow
  <2>1. vfoFrequency \in Kilo * fmLow .. Kilo * fmHigh
    BY <1>5 DEF StepOrRow, InBand
  <2>2. /\ vfoFrequency - Kilo * FmStep \in Int
        /\ vfoFrequency + Kilo * FmStep \in Int
    <3>1. vfoFrequency \in Nat
      BY DEF FavouritesTypeOK
    <3>2. Kilo \in Nat /\ FmStep \in Nat
      BY FavouritesAssumption DEF FavouritesAssumption
    <3>3. Kilo * FmStep \in Int
      BY <3>2
    <3> QED BY <3>1, <3>3
  <2>3. ASSUME NEW row \in DOMAIN tableWidget PROVE KHz(tableWidget[row].freq) \in Int
    <3>1. tableWidget[row] \in Row
      BY DEF FavouritesTypeOK
    <3> QED BY <3>1, KeyedIsInt DEF Row
  <2>4. vfoFrequency' \in Kilo * fmLow .. Kilo * fmHigh
    BY <1>5, <2>1, <2>2, <2>3, NewFrequencyInBand DEF StepOrRow
  <2> QED BY <1>5, <2>4, BandIsNat DEF StepOrRow, keys, form, files, FavouritesTypeOK, InBand,
                            FilesAgree, PadInFm
<1> QED BY <1>1, <1>2, <1>3, <1>4, <1>5

\* A row that is removed leaves rows.
LEMMA RemovedIsSeq ==
  ASSUME NEW S, NEW s \in Seq(S), NEW i \in DOMAIN s
  PROVE  SubSeq(s, 1, i - 1) \o SubSeq(s, i + 1, Len(s)) \in Seq(S)
<1>1. SubSeq(s, 1, i - 1) \in Seq(S) /\ SubSeq(s, i + 1, Len(s)) \in Seq(S)
  OBVIOUS
<1> QED BY <1>1

\* Entering names changes the forms and the list.
LEMMA ListStep ==
  ASSUME FavouritesInv,
         \/ FreqSave \/ HandleMyLine
         \/ \E f \in 1 .. MaxForms, name \in Text : Type(f, name)
         \/ \E row \in 1 .. MaxRows : RemoveRow(row)
  PROVE  FavouritesInv'
<1> USE DEF FavouritesInv
<1>1. CASE FreqSave
  <2>1. PICK new \in SUBSET ((1 .. MaxForms) \ DOMAIN forms) :
          /\ myLine' \in new
          /\ forms' = [f \in DOMAIN forms \cup new |-> IF f \in new THEN NoText ELSE forms[f]]
    BY <1>1 DEF FreqSave
  <2>2. DOMAIN forms' \subseteq 1 .. MaxForms /\ myLine' \in DOMAIN forms'
    BY <2>1 DEF FavouritesTypeOK
  <2>3. \A f \in DOMAIN forms' : forms'[f] \in Text \cup {NoText}
    BY <2>1 DEF FavouritesTypeOK
  <2> QED BY <1>1, <2>2, <2>3 DEF FreqSave, keys, files, FavouritesTypeOK, InBand, FilesAgree,
                            PadInFm
<1>2. CASE HandleMyLine
  <2>1. vfoFrequency \div Kilo \in Nat
    <3>1. Kilo \in Nat \ {0} /\ vfoFrequency \in Nat
      BY FavouritesAssumption DEF FavouritesAssumption, FavouritesTypeOK
    <3> QED BY <3>1
  <2>2. [name |-> forms[myLine], freq |-> vfoFrequency \div Kilo] \in Row
    BY <1>2, <2>1 DEF HandleMyLine, FavouritesTypeOK, Row
  <2>3. tableWidget' \in Seq(Row)
    BY <1>2, <2>2 DEF HandleMyLine, FavouritesTypeOK
  <2>4. /\ DOMAIN forms' \subseteq 1 .. MaxForms /\ myLine' = 0
        /\ \A f \in DOMAIN forms' : forms'[f] \in Text \cup {NoText}
    BY <1>2 DEF HandleMyLine, FavouritesTypeOK
  <2> QED BY <1>2, <2>3, <2>4 DEF HandleMyLine, keys, files, FavouritesTypeOK, InBand, FilesAgree,
                            PadInFm
<1>3. ASSUME NEW f \in 1 .. MaxForms, NEW name \in Text, Type(f, name) PROVE FavouritesInv'
  <2>1. DOMAIN forms' = DOMAIN forms /\ \A g \in DOMAIN forms' : forms'[g] \in Text \cup {NoText}
    BY <1>3 DEF Type, FavouritesTypeOK
  <2> QED BY <1>3, <2>1 DEF Type, keys, files, FavouritesTypeOK, InBand, FilesAgree, PadInFm
<1>4. ASSUME NEW row \in 1 .. MaxRows, RemoveRow(row) PROVE FavouritesInv'
  <2>1. tableWidget' \in Seq(Row)
    BY <1>4, RemovedIsSeq DEF RemoveRow, FavouritesTypeOK
  <2> QED BY <1>4, <2>1 DEF RemoveRow, keys, form, files, FavouritesTypeOK, InBand, FilesAgree,
                            PadInFm
<1> QED BY <1>1, <1>2, <1>3, <1>4

\* DAB, and the change from one system to the other.
LEMMA SystemStep ==
  ASSUME FavouritesInv, (\E p \in Preset : AddPreset(p)) \/ SelectFrequency \/ ToDab \/ ToFm
  PROVE  FavouritesInv'
<1> USE DEF FavouritesInv
<1>1. DabFrequency \subseteq Nat /\ Colon \subseteq Preset
  BY FavouritesAssumption DEF FavouritesAssumption
<1>2. ASSUME NEW p \in Preset, AddPreset(p) PROVE FavouritesInv'
  BY <1>2 DEF AddPreset, keys, form, files, FavouritesTypeOK, InBand, FilesAgree, PadInFm
<1>3. CASE SelectFrequency
  BY <1>1, <1>3 DEF SelectFrequency, keys, form, files, FavouritesTypeOK, InBand, FilesAgree, PadInFm
<1>4. CASE ToDab
  <2>1. vfoFrequency \div Kilo \in fmLow .. fmHigh
    BY <1>4, QuotientInBand DEF ToDab, InBand
  <2>2. settings' \in [system : {"DAB", "FM"}, fmFrequency : fmLow .. fmHigh]
    BY <1>4, <2>1 DEF ToDab, FavouritesTypeOK
  <2>3. FavouritesTypeOK'
    BY <1>1, <1>4, <2>2 DEF ToDab, SaveTable, form, FavouritesTypeOK
  <2> QED BY <1>4, <2>3 DEF ToDab, SaveTable, InBand, FilesAgree, PadInFm
<1>5. CASE ToFm
  <2>1. vfoFrequency' \in Kilo * fmLow .. Kilo * fmHigh
    BY <1>5, ProductInBand DEF ToFm, FavouritesTypeOK, InBand
  <2>2. FavouritesTypeOK'
    BY <1>1, <1>5, <2>1, BandIsNat DEF ToFm, SavePresets, keys, FavouritesTypeOK
  <2>3. FilesAgree'
    BY <1>5 DEF ToFm, SavePresets, FilesAgree
  <2> QED BY <1>5, <2>1, <2>2, <2>3 DEF ToFm, InBand, PadInFm
<1> QED BY <1>2, <1>3, <1>4, <1>5

\* The end of the program, and the next start.
LEMMA ProgramStep ==
  ASSUME FavouritesInv, Close \/ Dies \/ DiesInSaving \/ Start
  PROVE  FavouritesInv'
<1> USE DEF FavouritesInv
<1>1. CASE Ends
  <2>1. /\ savedTable' \in Seq(Row) /\ presetFile' \subseteq Preset
        /\ settings' \in [system : {"DAB", "FM"}, fmFrequency : fmLow .. fmHigh]
    <3>1. CASE Close /\ decoder = "DAB"
      BY <3>1 DEF Close, SavePresets, FavouritesTypeOK
    <3>2. CASE Close /\ decoder = "FM"
      <4>1. vfoFrequency \div Kilo \in fmLow .. fmHigh
        BY <3>2, QuotientInBand DEF InBand
      <4> QED BY <3>2, <4>1 DEF Close, SaveTable, FavouritesTypeOK
    <3>3. CASE Dies
      BY <3>3 DEF Dies, files, FavouritesTypeOK
    <3>4. CASE DiesInSaving
      <4>1. /\ Len(tableWidget) \in Nat /\ \A row \in 1 .. Len(tableWidget) : tableWidget[row] \in Row
        BY DEF FavouritesTypeOK
      <4>2. ASSUME NEW n \in Nat
            PROVE [row \in 1 .. Len(tableWidget) |->
                    IF row <= n THEN tableWidget[row] ELSE BlankRow] \in Seq(Row)
        <5>1. BlankRow \in Row
          BY DEF BlankRow, Row
        <5> QED BY <4>1, <5>1
      <4>3. savedTable' \in Seq(Row)
        <5> DEFINE Written(n) == [row \in 1 .. Len(tableWidget) |->
                                   IF row <= n THEN tableWidget[row] ELSE BlankRow]
        <5>1. \A n \in Nat : Written(n) \in Seq(Row)
          BY <4>2
        <5>2. \/ savedTable' = <<>> \/ savedTable' = savedTable
              \/ \E n \in 0 .. Len(tableWidget) : savedTable' = Written(n)
          BY <3>4 DEF DiesInSaving
        <5>3. \A n \in 0 .. Len(tableWidget) : n \in Nat
          BY <4>1
        <5>4. <<>> \in Seq(Row) /\ savedTable \in Seq(Row)
          BY DEF FavouritesTypeOK
        <5> HIDE DEF Written
        <5> QED BY <5>1, <5>2, <5>3, <5>4
      <4>4. presetFile' \in {{}, presetFile} /\ settings' = settings
        BY <3>4 DEF DiesInSaving
      <4> QED BY <4>3, <4>4 DEF FavouritesTypeOK
    <3>5. CASE Start
      BY <1>1, <3>5 DEF Ends, Start
    <3> QED BY <3>1, <3>2, <3>3, <3>4, <3>5 DEF Close
  <2>2. /\ DOMAIN forms' \subseteq 1 .. MaxForms
        /\ \A f \in DOMAIN forms' : forms'[f] \in Text \cup {NoText}
    BY <1>1, EmptyIsTyped DEF Ends
  <2>4. tableWidget' \in Seq(Row)
    BY <1>1, EmptyIsTyped DEF Ends
  <2>5. /\ decoder' \in {"off", "DAB", "FM"} /\ vfoFrequency' \in Nat /\ panel' \in Int
        /\ wires' \in Nat /\ myLine' \in {0}
    BY <1>1 DEF Ends
  <2>6. isVisible' \in BOOLEAN /\ presetSelector' \subseteq Preset
    BY <1>1, EmptyIsTyped DEF Ends
  <2>3. FavouritesTypeOK'
    BY <2>1, <2>2, <2>4, <2>5, <2>6 DEF FavouritesTypeOK
  <2>7. presetFile' \cap Colon = {}
    BY <1>1 DEF Ends, Close, Dies, DiesInSaving, Start, SavePresets, SaveTable, files, FilesAgree
  <2> QED BY <1>1, <2>3, <2>7 DEF Ends, InBand, FilesAgree, PadInFm
<1>2. CASE Start
  <2>1. settings.system = "FM" => vfoFrequency' \in Kilo * fmLow .. Kilo * fmHigh
    BY <1>2, ProductInBand DEF Start, FavouritesTypeOK
  <2>2. DabFrequency \subseteq Nat
    BY FavouritesAssumption DEF FavouritesAssumption
  <2>3. vfoFrequency' \in Nat /\ wires' \in Nat
    <3>1. CASE settings.system = "FM"
      BY <1>2, <2>1, <3>1, BandIsNat DEF Start
    <3>2. CASE settings.system # "FM"
      <4>1. wires' = 0 /\ vfoFrequency' \in DabFrequency
        BY <1>2, <3>2 DEF Start
      <4> QED BY <2>2, <4>1
    <3> QED BY <3>1, <3>2
  <2>4. FavouritesTypeOK'
    BY <1>2, <2>3 DEF Start, keys, form, files, FavouritesTypeOK
  <2> QED BY <1>2, <2>1, <2>4 DEF Start, keys, files, InBand, FilesAgree, PadInFm
<1> QED BY <1>1, <1>2 DEF Close, Dies, DiesInSaving

LEMMA InvStep == FavouritesInv /\ [FavouritesNext]_favVars => FavouritesInv'
<1> SUFFICES ASSUME FavouritesInv, [FavouritesNext]_favVars PROVE FavouritesInv'
  OBVIOUS
<1>1. CASE UNCHANGED favVars
  BY <1>1 DEF favVars, keys, form, files, FavouritesInv, FavouritesTypeOK, InBand, FilesAgree, PadInFm
<1>2. CASE FavouritesNext
  BY <1>2, TuningStep, ListStep, SystemStep, ProgramStep DEF FavouritesNext
<1> QED BY <1>1, <1>2

\* What the GUI keeps in memory and in files is what the code can read again.
THEOREM FavouritesTypeCorrect == FavouritesSpec => []FavouritesTypeOK
<1>1. FavouritesInv => FavouritesTypeOK
  BY DEF FavouritesInv
<1> QED BY <1>1, InvInit, InvStep, PTL DEF FavouritesSpec

\* newFrequency, the saved frequency and the number keyed in, however long it is: in
\* FM the device is never tuned outside the band.
THEOREM FmInBand == FavouritesSpec => []InBand
<1>1. FavouritesInv => InBand
  BY DEF FavouritesInv
<1> QED BY <1>1, InvInit, InvStep, PTL DEF FavouritesSpec

\* savePresets and loadPresets: files and memory agree on the presets.
THEOREM PresetsAgree == FavouritesSpec => []FilesAgree
<1>1. FavouritesInv => FilesAgree
  BY DEF FavouritesInv
<1> QED BY <1>1, InvInit, InvStep, PTL DEF FavouritesSpec-----------------------------------------------------------------------------
(* Action properties.                                                      *)

\* Only four actions change the list or the files while the program runs.
Quiet ==
  /\ UNCHANGED <<tableWidget, presetSelector, savedTable, presetFile>>
  /\ decoder' = decoder

LEMMA QuietKeeps ==
  ASSUME Quiet
  PROVE  ListsKeep /\ LeavingSaves /\ StartReads /\ FilesKeep
<1>1. Rows(tableWidget') = Rows(tableWidget) /\ Rows(savedTable') = Rows(savedTable)
  BY DEF Quiet, Rows
<1> QED BY <1>1 DEF Quiet, ListsKeep, LeavingSaves, StartReads, FilesKeep, Runs

LEMMA QuietActions ==
  ASSUME \/ UNCHANGED favVars
         \/ \E d \in 0 .. Ten - 1 : Digit(d)
         \/ ClearOrCorrect \/ Enter \/ FreqButton \/ StepOrRow \/ FreqSave
         \/ \E f \in 1 .. MaxForms, name \in Text : Type(f, name)
         \/ SelectFrequency
  PROVE  Quiet
BY DEF favVars, Digit, ClearOrCorrect, Enter, FreqButton, StepOrRow, FreqSave, Type,
       SelectFrequency, keys, form, files, Quiet

\* A row that is appended, or another one that is removed, leaves a row where it was
\* or one before.
LEMMA AppendKeeps ==
  ASSUME NEW S, NEW s \in Seq(S), NEW e \in S
  PROVE  Rows(s) \subseteq Rows(Append(s, e))
<1>1. ASSUME NEW i \in DOMAIN s PROVE i \in DOMAIN Append(s, e) /\ Append(s, e)[i] = s[i]
  OBVIOUS
<1> QED BY <1>1 DEF Rows

LEMMA RemoveKeeps ==
  ASSUME NEW S, NEW s \in Seq(S), NEW i \in DOMAIN s, NEW j \in DOMAIN s, j # i
  PROVE  s[j] \in Rows(SubSeq(s, 1, i - 1) \o SubSeq(s, i + 1, Len(s)))
<1> DEFINE a == SubSeq(s, 1, i - 1)
           b == SubSeq(s, i + 1, Len(s))
<1>1. i \in 1 .. Len(s) /\ j \in 1 .. Len(s) /\ Len(s) \in Nat
  OBVIOUS
<1>2. a \in Seq(S) /\ Len(a) = i - 1 /\ \A k \in 1 .. i - 1 : a[k] = s[k]
  BY <1>1
<1>3. b \in Seq(S) /\ Len(b) = Len(s) - i /\ \A k \in 1 .. Len(s) - i : b[k] = s[i + k]
  BY <1>1
<1> HIDE DEF a, b
<1>4. CASE j < i
  <2>1. j \in DOMAIN (a \o b) /\ (a \o b)[j] = s[j]
    BY <1>1, <1>2, <1>3, <1>4
  <2> QED BY <2>1 DEF Rows, a, b
<1>5. CASE j > i
  <2>1. (j - 1) \in DOMAIN (a \o b) /\ (a \o b)[j - 1] = b[j - i]
    BY <1>1, <1>2, <1>3, <1>5
  <2>2. b[j - i] = s[j]
    BY <1>1, <1>3, <1>5
  <2> QED BY <2>1, <2>2 DEF Rows, a, b
<1> QED BY <1>1, <1>4, <1>5

LEMMA ListKeeps ==
  ASSUME FavouritesInv,
         \/ HandleMyLine \/ (\E row \in 1 .. MaxRows : RemoveRow(row))
         \/ \E p \in Preset : AddPreset(p)
  PROVE  ListsKeep /\ LeavingSaves /\ StartReads /\ FilesKeep
<1>1. UNCHANGED <<savedTable, presetFile>> /\ decoder' = decoder
  BY DEF HandleMyLine, RemoveRow, AddPreset, files
<1>2. presetSelector \subseteq presetSelector'
  BY DEF HandleMyLine, RemoveRow, AddPreset
<1>3. Rows(savedTable') = Rows(savedTable)
  BY <1>1 DEF Rows
<1>4. ASSUME NEW r \in Rows(tableWidget) \ Rows(tableWidget')
      PROVE  \E row \in DOMAIN tableWidget : tableWidget[row] = r /\ RemoveRow(row)
  <2>1. tableWidget \in Seq(Row) /\ myLine \in {0} \cup DOMAIN forms
    BY DEF FavouritesInv, FavouritesTypeOK
  <2>2. CASE HandleMyLine
    <3> DEFINE e == [name |-> forms[myLine], freq |-> vfoFrequency \div Kilo]
    <3>1. tableWidget' = Append(tableWidget, e)
      BY <2>2 DEF HandleMyLine
    <3>2. tableWidget \in Seq(Row \cup {e}) /\ e \in Row \cup {e}
      BY <2>1
    <3> HIDE DEF e
    <3>3. Rows(tableWidget) \subseteq Rows(Append(tableWidget, e))
      BY <3>2, AppendKeeps
    <3> QED BY <3>1, <3>3
  <2>3. CASE \E row \in 1 .. MaxRows : RemoveRow(row)
    <3>1. PICK i \in 1 .. MaxRows : RemoveRow(i)
      BY <2>3
    <3>2. i \in DOMAIN tableWidget
      BY <3>1 DEF RemoveRow
    <3>3. PICK j \in DOMAIN tableWidget : tableWidget[j] = r
      BY DEF Rows
    <3>4. j # i => r \in Rows(tableWidget')
      BY <2>1, <3>1, <3>2, <3>3, RemoveKeeps DEF RemoveRow
    <3> QED BY <3>1, <3>2, <3>3, <3>4
  <2>4. CASE \E p \in Preset : AddPreset(p)
    BY <2>4 DEF AddPreset, Rows
  <2> QED BY <2>2, <2>3, <2>4
<1> QED BY <1>1, <1>2, <1>3, <1>4 DEF ListsKeep, LeavingSaves, StartReads, FilesKeep, Runs

LEMMA SystemKeeps ==
  ASSUME FavouritesInv, ToDab \/ ToFm \/ Close \/ Dies \/ DiesInSaving \/ Start
  PROVE  ListsKeep /\ LeavingSaves /\ StartReads /\ FilesKeep
<1>1. CASE ToDab
  <2>1. /\ tableWidget' = tableWidget /\ savedTable' = tableWidget
        /\ UNCHANGED <<presetSelector, presetFile>>
        /\ decoder = "FM" /\ decoder' = "DAB"
    BY <1>1 DEF ToDab, SaveTable
  <2> QED BY <2>1 DEF ListsKeep, LeavingSaves, StartReads, FilesKeep, Runs, Rows
<1>2. CASE ToFm
  <2>1. /\ UNCHANGED <<tableWidget, savedTable, presetSelector>>
        /\ decoder # "off" /\ decoder' = "FM"
    BY <1>2 DEF ToFm, SavePresets
  <2>2. presetFile \subseteq presetFile'
    BY <1>2 DEF ToFm, SavePresets, FavouritesInv, FilesAgree
  <2> QED BY <2>1, <2>2 DEF ListsKeep, LeavingSaves, StartReads, FilesKeep, Runs, Rows
<1>3. CASE Close
  <2>1. decoder # "off" /\ decoder' = "off"
    BY <1>3 DEF Close, Ends
  <2>2. presetFile \subseteq presetFile' /\ presetSelector \ Colon \subseteq presetFile'
    BY <1>3, <2>1 DEF Close, SavePresets, SaveTable, FavouritesInv, FilesAgree
  <2>3. \/ savedTable' = tableWidget
        \/ savedTable' = savedTable /\ decoder = "DAB"
    BY <1>3 DEF Close, SavePresets, SaveTable
  <2> QED BY <2>1, <2>2, <2>3 DEF ListsKeep, LeavingSaves, StartReads, FilesKeep, Runs, Rows
<1>4. CASE Dies
  <2>1. /\ decoder # "off" /\ decoder' = "off"
        /\ UNCHANGED <<savedTable, presetFile>>
    BY <1>4 DEF Dies, Ends, files
  <2> QED BY <1>4, <2>1 DEF ListsKeep, LeavingSaves, StartReads, FilesKeep, Runs, Rows, Killed
<1>5. CASE DiesInSaving
  <2>1. decoder # "off" /\ decoder' = "off"
    BY <1>5 DEF DiesInSaving, Ends
  <2> QED BY <1>5, <2>1 DEF ListsKeep, LeavingSaves, StartReads, FilesKeep, Runs, Killed
<1>6. CASE Start
  <2>1. /\ decoder = "off" /\ UNCHANGED <<savedTable, presetFile>>
        /\ tableWidget' = savedTable /\ presetSelector' = presetFile
    BY <1>6 DEF Start, files
  <2> QED BY <2>1 DEF ListsKeep, LeavingSaves, StartReads, FilesKeep, Runs, Rows
<1> QED BY <1>1, <1>2, <1>3, <1>4, <1>5, <1>6

\* The station list and the presets, through changes of the system, closing, dying and
\* starting: nothing is lost but by a death.
THEOREM NothingIsForgotten == FavouritesSpec => NothingForgotten
<1>1. FavouritesInv /\ [FavouritesNext]_favVars
        => [ListsKeep /\ LeavingSaves /\ StartReads /\ FilesKeep]_favVars
  <2> SUFFICES ASSUME FavouritesInv, [FavouritesNext]_favVars
               PROVE  ListsKeep /\ LeavingSaves /\ StartReads /\ FilesKeep
    OBVIOUS
  <2> QED BY QuietKeeps, QuietActions, ListKeeps, SystemKeeps DEF FavouritesNext
<1> QED BY <1>1, InvInit, InvStep, PTL DEF FavouritesSpec, NothingForgotten
==============================================================================
