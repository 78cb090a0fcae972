--------------------------- MODULE ServiceControl ---------------------------
(***************************************************************************)
(* Which service is decoded: the handlers of duoReceiver that select,      *)
(* step through, preset and restart services, against the FIB decoder in   *)
(* the DAB thread, which learns the ensemble, changes its configuration    *)
(* and reports both in signals that the GUI thread handles later.          *)
(*                                                                         *)
(* A handler is the sequence of the calls it makes; the DAB thread can     *)
(* take a step between any two of them.  Retuning is one step: its threads *)
(* are the subject of ReceiverThreads.  A service name stands for its SId. *)
(***************************************************************************)
EXTENDS Naturals, Sequences, FiniteSets

CONSTANTS
  Channel,     \* channels
  Service,     \* services, the same names on every channel
  SubCh,       \* subchannel identifiers
  Addr,        \* start addresses of subchannels in the CIF
  None,        \* no service, or no audio data
  MaxEvents    \* bound on the signals waiting for the GUI

Place == [subchId : SubCh, startAddr : Addr]

ASSUME ServiceAssumption == None \notin Service /\ None \notin Place

VARIABLES
  todo,            \* the calls the running handler has still to make
  channel,         \* the channel tuned to
  running,         \* duoReceiver::running: DAB is on
  serviceList,     \* the services shown
  currentService,  \* name and valid
  nextService,     \* name and valid; history: the channel it was chosen on, and old
  dabSettings,     \* presetName, the service for the next start of DAB; history: the
                   \* channel it played on, and whether DAB was left without a service
  presetTimer,     \* the timer is active
  ensembleId,      \* the label that shows the ensemble is not empty
  ad,              \* the audiodata of the handler, None when it has none
  namePresent,     \* FIB: the name of the ensemble was reported
  labels,          \* FIB: the services in the service list of the ensemble
  place,           \* FIB: where the current configuration has their audio
  shown,           \* FIB: the services reported to the GUI (is_shown)
  events,          \* the signals of the FIB decoder not yet handled
  changed,         \* history: the configuration changed since tuning
  theBackends      \* the backends of mscHandler

guiVars == <<channel, running, serviceList, currentService, nextService, dabSettings,
             presetTimer, ensembleId>>
fibVars == <<namePresent, labels, place, shown, events, changed>>
vars    == <<todo, guiVars, ad, fibVars, theBackends>>

NoService == [name |-> None, valid |-> FALSE]
NoNext    == [name |-> None, valid |-> FALSE, channel |-> None, old |-> FALSE]
Event     == [kind : {"add"}, name : Service]
             \cup [kind : {"name", "change"}, name : {None}]

Init ==
  /\ todo = <<>>
  /\ channel \in Channel
  /\ running = TRUE
  /\ serviceList = {}
  /\ currentService = NoService
  /\ nextService = NoNext
  /\ dabSettings = [presetName |-> None, playedOn |-> None, old |-> FALSE]
  /\ presetTimer = FALSE
  /\ ensembleId = FALSE
  /\ ad = None
  /\ namePresent = FALSE
  /\ labels = {}
  /\ place = [s \in Service |-> None]
  /\ shown = {}
  /\ events = <<>>
  /\ changed = FALSE
  /\ theBackends = {}

\* dataforAudioService: the data of a service in the current configuration.
AudioData(s) == IF s \in labels THEN place[s] ELSE None
-----------------------------------------------------------------------------
(* The FIB decoder, in the DAB thread.                                     *)

Fib == running /\ UNCHANGED <<todo, guiVars, ad, theBackends>>

Emit(k, s) ==
  /\ Len(events) < MaxEvents
  /\ events' = Append(events, [kind |-> k, name |-> s])

\* FIG1/0: the name of the ensemble, reported once.
EnsembleName ==
  /\ Fib
  /\ ~namePresent
  /\ namePresent' = TRUE
  /\ Emit("name", None)
  /\ UNCHANGED <<labels, place, shown, changed>>

\* FIG1/1: the label of a service that has none. After a change the slot it gets
\* may be one of a service that was shown, and is_shown is not reset.
ServiceLabel(s) ==
  /\ Fib
  /\ s \notin labels
  /\ labels' = labels \cup {s}
  /\ shown' \in (IF changed THEN {shown, shown \cup {s}} ELSE {shown})
  /\ UNCHANGED <<namePresent, place, events, changed>>

\* FIG0/1 and FIG0/2, bind_audioService: the place of a labelled service; the
\* GUI hears of it once.
BindService(s, p) ==
  /\ Fib
  /\ s \in labels /\ place[s] = None
  /\ \A t \in Service : place[t] # None => place[t].subchId # p.subchId
  /\ place' = [place EXCEPT ![s] = p]
  /\ shown' = shown \cup {s}
  /\ IF s \in shown THEN UNCHANGED events ELSE Emit("add", s)
  /\ UNCHANGED <<namePresent, labels, changed>>

\* FIG0/0: the next configuration becomes the current one. cleanupServiceList
\* takes the labels of services without a component; a service behind a hole
\* in the list is not found any more, and goes too.
ChangeConfiguration(new) ==
  /\ Fib
  /\ changed' = TRUE
  /\ UNCHANGED namePresent
  /\ place' = new
  /\ LET kept == {s \in labels : new[s] # None}
     IN  labels' \in (IF kept = labels THEN {labels} ELSE SUBSET kept)
  /\ shown' = shown \cap labels'
  /\ Emit("change", None)

Configuration ==
  {new \in [Service -> Place \cup {None}] :
     \A s, t \in Service :
       s # t /\ new[s] # None /\ new[t] # None => new[s].subchId # new[t].subchId}
-----------------------------------------------------------------------------
(* The calls of the GUI's handlers.                                        *)

Then(calls) == todo' = calls \o Tail(todo)
Call(c)     == todo # <<>> /\ Head(todo).call = c

getParameters(s) == [call |-> "getParameters", name |-> s]
stopService     == [call |-> "stop", name |-> None]
startService(s) == [call |-> "start", name |-> s]

\* Mutant of StopRead: the preset is still to come.
StopReadTimed ==
  /\ Call("stop")
  /\ \/ /\ currentService.valid
        /\ ad' = AudioData(currentService.name)
        /\ Then(<<[call |-> "msc.stop", name |-> None]>>)
     \/ /\ ~currentService.valid
        /\ Then(<<>>)
        /\ UNCHANGED ad
  /\ UNCHANGED <<guiVars, fibVars, theBackends>>

\* stopService: the place is looked up now, not when the service was started.
StopRead ==
  /\ Call("stop")
  /\ presetTimer' = FALSE
  /\ \/ /\ currentService.valid
        /\ ad' = AudioData(currentService.name)
        /\ Then(<<[call |-> "msc.stop", name |-> None]>>)
     \/ /\ ~currentService.valid
        /\ Then(<<>>)
        /\ UNCHANGED ad
  /\ UNCHANGED <<channel, running, serviceList, currentService, nextService, dabSettings,
                 ensembleId, fibVars, theBackends>>

\* Mutant of StopBackend: the service is marked, its backend goes on.
StopBackendMark ==
  /\ Call("msc.stop")
  /\ currentService' = [currentService EXCEPT !.valid = FALSE]
  /\ ad' = None
  /\ Then(<<>>)
  /\ UNCHANGED <<channel, running, serviceList, nextService, dabSettings, presetTimer,
                 ensembleId, fibVars, theBackends>>

\* mscHandler::stopService deletes the backend of the subchannel. Without
\* audio data the subchannel in the descriptor was never set: any value.
StopBackend ==
  /\ Call("msc.stop")
  /\ \E c \in (IF ad = None THEN SubCh \cup {None} ELSE {ad.subchId}) :
       theBackends' = {b \in theBackends : b.place.subchId # c}
  /\ currentService' = [currentService EXCEPT !.valid = FALSE]
  /\ ad' = None
  /\ Then(<<>>)
  /\ UNCHANGED <<channel, running, serviceList, nextService, dabSettings, presetTimer,
                 ensembleId, fibVars>>

\* getParameters: a service without label ends the handler with a warning.
FindService ==
  /\ Call("getParameters")
  /\ Then(IF Head(todo).name \in labels THEN <<startService(Head(todo).name)>> ELSE <<>>)
  /\ UNCHANGED <<guiVars, ad, fibVars, theBackends>>

\* startService: a service that is still on would be stopped first; then nothing
\* for a service that is not shown or has no audio data.
StartService ==
  /\ Call("start")
  /\ LET s == Head(todo).name
     IN  \/ /\ currentService.valid
            /\ Then(<<stopService, startService(s)>>)
            /\ UNCHANGED currentService
         \/ /\ ~currentService.valid
            /\ currentService' = [name |-> s, valid |-> FALSE]
            /\ Then(IF s \in serviceList /\ AudioData(s) # None
                    THEN <<[call |-> "start_audioService", name |-> s]>> ELSE <<>>)
  /\ UNCHANGED <<channel, running, serviceList, nextService, dabSettings, presetTimer,
                 ensembleId, ad, fibVars, theBackends>>

\* start_audioService asks again; it may now find nothing and only warn.
StartRead ==
  /\ Call("start_audioService")
  /\ ad' = AudioData(Head(todo).name)
  /\ Then(<<[call |-> IF ad' = None THEN "warning" ELSE "set_Channel",
             name |-> Head(todo).name]>>)
  /\ UNCHANGED <<guiVars, fibVars, theBackends>>

\* Back in startService the service is valid, whatever happened.
BecomesValid(s) == currentService' = [name |-> s, valid |-> TRUE]

WarningClosed ==
  /\ Call("warning")
  /\ BecomesValid(Head(todo).name)
  /\ Then(<<>>)
  /\ UNCHANGED <<channel, running, serviceList, nextService, dabSettings, presetTimer,
                 ensembleId, ad, fibVars, theBackends>>

\* set_Channel: a service that has a backend keeps it as it is.
SetChannel ==
  /\ Call("set_Channel")
  /\ LET s == Head(todo).name
     IN  /\ theBackends' = IF \E b \in theBackends : b.SId = s THEN theBackends
                           ELSE theBackends \cup {[SId |-> s, place |-> ad]}
         /\ BecomesValid(s)
  /\ ad' = None
  /\ Then(<<>>)
  /\ UNCHANGED <<channel, running, serviceList, nextService, dabSettings, presetTimer,
                 ensembleId, fibVars>>

\* changeinConfiguration between stop and start: the list is built anew, and
\* the service is started again when the ensemble still has it. When no service
\* was on, the code reads a "valid" that was never set: it may go on to start the
\* service without a name, which no service of the ensemble contradicts.
RebuildList ==
  /\ Call("getServices")
  /\ serviceList' = labels
  /\ \/ Head(todo).name \in labels \cup {None} /\ Then(<<startService(Head(todo).name)>>)
     \/ Head(todo).name \notin labels /\ Then(<<>>)
  /\ UNCHANGED <<channel, running, currentService, nextService, dabSettings, presetTimer,
                 ensembleId, ad, fibVars, theBackends>>

GuiStep ==
  \/ StopRead \/ StopBackend \/ FindService \/ StartService
  \/ StartRead \/ WarningClosed \/ SetChannel \/ RebuildList
-----------------------------------------------------------------------------
(* The handlers. A queued signal and the timer are also handled in the     *)
(* event loop of a warning; the user must close the warning first.         *)

Loop == todo = <<>> \/ Call("warning")
User == running /\ todo = <<>>

NextSignal(k) == Loop /\ events # <<>> /\ Head(events).kind = k /\ events' = Tail(events)

\* Mutant of addtoEnsemble: every reported service is shown.
addtoEnsembleAny ==
  /\ NextSignal("add")
  /\ serviceList' = serviceList \cup {Head(events).name}
  /\ UNCHANGED <<todo, channel, running, currentService, nextService, dabSettings,
                 presetTimer, ensembleId, ad, namePresent, labels, place, shown, changed,
                 theBackends>>

\* addtoEnsemble: a service without audio data is refused, also one that was
\* reported on another channel.
addtoEnsemble ==
  /\ NextSignal("add")
  /\ LET s == Head(events).name
     IN  serviceList' = IF AudioData(s) # None THEN serviceList \cup {s} ELSE serviceList
  /\ UNCHANGED <<todo, channel, running, currentService, nextService, dabSettings, presetTimer,
                 ensembleId, ad, namePresent, labels, place, shown, changed,
                 theBackends>>

nameofEnsemble ==
  /\ NextSignal("name")
  /\ ensembleId' = (ensembleId \/ running)
  /\ UNCHANGED <<todo, channel, running, serviceList, currentService, nextService, dabSettings,
                 presetTimer, ad, namePresent, labels, place, shown, changed, theBackends>>

changeinConfiguration ==
  /\ NextSignal("change")
  /\ todo' =
       (IF ~running THEN <<>>
        ELSE IF currentService.valid
        THEN <<stopService, [call |-> "getServices", name |-> currentService.name]>>
        ELSE <<[call |-> "getServices", name |-> None]>>) \o todo
  /\ UNCHANGED <<guiVars, ad, namePresent, labels, place, shown, changed, theBackends>>

\* setPresetStation, when presetTimer ends: only when an ensemble was seen, and
\* the service is in the list by now.
setPresetStation ==
  /\ Loop /\ presetTimer
  /\ presetTimer' = FALSE
  /\ \/ /\ ensembleId /\ nextService.valid /\ nextService.name \in serviceList
        /\ todo' = <<getParameters(nextService.name)>> \o todo
        /\ UNCHANGED nextService
     \/ /\ ensembleId /\ nextService.valid /\ nextService.name \notin serviceList
        /\ nextService' = NoNext
        /\ UNCHANGED todo
     \/ ~(ensembleId /\ nextService.valid) /\ UNCHANGED <<todo, nextService>>
  /\ UNCHANGED <<channel, running, serviceList, currentService, dabSettings, ensembleId, ad,
                 fibVars, theBackends>>

\* selectService: a click on a service in the list.
SelectService(s) ==
  /\ User /\ s \in serviceList
  /\ todo' = <<stopService, getParameters(s)>>
  /\ UNCHANGED <<guiVars, ad, fibVars, theBackends>>

\* The return key, in eventFilter: nothing for the service selected last.
ReturnKey(s) ==
  /\ User /\ s \in serviceList
  /\ presetTimer' = FALSE
  /\ nextService' = NoNext
  /\ todo' = IF currentService.name = s THEN <<>>
             ELSE <<stopService, stopService, getParameters(s)>>
  /\ UNCHANGED <<channel, running, serviceList, currentService, dabSettings, ensembleId, ad,
                 fibVars, theBackends>>

\* handle_nextServiceButton and handle_prevServiceButton: to a neighbour in the
\* list of the service that is on.
StepService(s) ==
  /\ User
  /\ presetTimer' = FALSE
  /\ nextService' = NoNext
  /\ \/ /\ currentService.valid /\ currentService.name \in serviceList
        /\ s \in serviceList /\ (s = currentService.name => serviceList = {s})
        /\ todo' = <<stopService, getParameters(s)>>
     \/ /\ currentService.valid /\ currentService.name \notin serviceList
        /\ todo' = <<stopService>>
     \/ ~currentService.valid /\ UNCHANGED todo
  /\ UNCHANGED <<channel, running, serviceList, currentService, dabSettings, ensembleId, ad,
                 fibVars, theBackends>>

\* localSelect on the channel tuned to.
SelectPreset(s) ==
  /\ User
  /\ presetTimer' = FALSE
  /\ todo' = <<stopService, getParameters(s)>>
  /\ UNCHANGED <<channel, running, serviceList, currentService, nextService, dabSettings,
                 ensembleId, ad, fibVars, theBackends>>

\* stopChannel: the DAB thread ends and takes FIB data and backends with it.
\* Its signals stay in the queue of the GUI; the ensemble's name stays shown.
stopChannel ==
  /\ serviceList' = {}
  /\ currentService' = [currentService EXCEPT !.valid = FALSE]
  /\ namePresent' = FALSE
  /\ labels' = {}
  /\ place' = [s \in Service |-> None]
  /\ shown' = {}
  /\ changed' = FALSE
  /\ theBackends' = {}
  /\ UNCHANGED <<ad, events, ensembleId>>

\* Mutant of SelectChannel: the timer goes on.
SelectChannelTimed(c) ==
  /\ User
  /\ stopChannel
  /\ channel' = c
  /\ UNCHANGED <<todo, running, dabSettings, presetTimer, nextService>>

\* selectChannel and the channel buttons: stopChannel, startChannel.
SelectChannel(c) ==
  /\ User
  /\ stopChannel
  /\ channel' = c
  /\ presetTimer' = FALSE
  /\ nextService' = NoNext
  /\ UNCHANGED <<todo, running, dabSettings>>

\* localSelect on another channel: the timer is to start the service.
SelectPresetOn(c, s) ==
  /\ User /\ c # channel
  /\ stopChannel
  /\ channel' = c
  /\ presetTimer' = TRUE
  /\ nextService' = [name |-> s, valid |-> TRUE, channel |-> c, old |-> FALSE]
  /\ UNCHANGED <<todo, running, dabSettings>>

\* stop_dabSystem keeps the channel, and the name of the service if one is on.
stop_dabSystem ==
  /\ User
  /\ dabSettings' = IF currentService.valid
                    THEN [presetName |-> currentService.name, playedOn |-> channel, old |-> FALSE]
                    ELSE [dabSettings EXCEPT !.old = TRUE]
  /\ stopChannel
  /\ presetTimer' = FALSE
  /\ nextService' = NoNext
  /\ running' = FALSE
  /\ UNCHANGED <<todo, channel>>

\* set_dabSystem, on the channel kept, with the name kept, whenever that was.
set_dabSystem ==
  /\ ~running /\ todo = <<>>
  /\ nextService' = IF dabSettings.presetName = None THEN nextService
                    ELSE [name |-> dabSettings.presetName, valid |-> TRUE,
                          channel |-> dabSettings.playedOn, old |-> dabSettings.old]
  /\ presetTimer' = (dabSettings.presetName # None)
  /\ dabSettings' = [dabSettings EXCEPT !.old = FALSE]
  /\ running' = TRUE
  /\ currentService' = [currentService EXCEPT !.valid = FALSE]
  /\ UNCHANGED <<todo, channel, serviceList, ensembleId, ad, fibVars, theBackends>>

FibStep ==
  \/ EnsembleName
  \/ \E s \in Service : ServiceLabel(s)
  \/ \E s \in Service, p \in Place : BindService(s, p)
  \/ \E new \in Configuration : ChangeConfiguration(new)

Signals == addtoEnsemble \/ nameofEnsemble \/ changeinConfiguration

UserStep ==
  \/ \E s \in Service : SelectService(s) \/ ReturnKey(s) \/ StepService(s) \/ SelectPreset(s)
  \/ \E c \in Channel : SelectChannel(c)
  \/ \E c \in Channel, s \in Service : SelectPresetOn(c, s)
  \/ stop_dabSystem \/ set_dabSystem

Next == FibStep \/ GuiStep \/ Signals \/ setPresetStation \/ UserStep

Spec == Init /\ [][Next]_vars
-----------------------------------------------------------------------------
(* Properties.                                                             *)

\* The calls a handler can still have to make.
Calls ==
  [call : {"stop", "msc.stop"}, name : {None}]
    \cup [call : {"getServices", "start"}, name : Service \cup {None}]
    \cup [call : {"getParameters", "start_audioService", "warning", "set_Channel"}, name : Service]

\* A service the timer is to start, and what is kept while DAB is off.
Chosen ==
  {NoNext} \cup [name : Service, valid : {TRUE}, channel : Channel, old : BOOLEAN]
Remembered ==
  [presetName : Service, playedOn : Channel, old : BOOLEAN]
    \cup [presetName : {None}, playedOn : {None}, old : BOOLEAN]

\* The values every variable keeps.
TypeOK ==
  /\ todo \in Seq(Calls)
  /\ channel \in Channel /\ running \in BOOLEAN
  /\ serviceList \subseteq Service
  /\ currentService \in [name : Service \cup {None}, valid : BOOLEAN]
  /\ nextService \in Chosen
  /\ dabSettings \in Remembered
  /\ presetTimer \in BOOLEAN /\ ensembleId \in BOOLEAN
  /\ ad \in Place \cup {None}
  /\ namePresent \in BOOLEAN /\ labels \subseteq Service /\ shown \subseteq Service
  /\ place \in Configuration
  /\ events \in Seq(Event)
  /\ changed \in BOOLEAN
  /\ theBackends \subseteq [SId : Service, place : Place]

\* As long as the configuration of the ensemble does not change, one service at
\* most is decoded, the one shown as current, and at its place in the CIF: all
\* backends write their sound into the one dab_audioBuffer.
OnlyCurrentDecoded ==
  todo = <<>> /\ ~changed =>
    theBackends = IF currentService.valid
                  THEN {[SId |-> currentService.name, place |-> place[currentService.name]]}
                  ELSE {}

\* The timer only runs for a service of the channel tuned to, whatever the user does
\* before it ends: one chosen from the presets, or the one that played when DAB was
\* left, on the channel it played on.  Left out is a name of a time before, which
\* stop_dabSystem leaves in the settings beside the channel of now.
PresetFits ==
  presetTimer => nextService.valid /\ (nextService.channel = channel \/ nextService.old)

\* "On switching off one of the subsystems, the duoreceiver will remember [...] the
\* service for the DAB subsystem.  Next time such a subsystem is selected, [...] the
\* service (for DAB) will be selected automatically": what is to be selected is a
\* service of the channel that is started.
RememberedFits == presetTimer => nextService.channel = channel

\* startService does not find another service still on ("Niet verwacht", not
\* expected): no preset, and no handler in the event loop of a warning, comes
\* between another handler's stop and start.
NoneStillValid == Call("start") => ~currentService.valid

\* As long as the configuration does not change, the list shows services of the
\* channel tuned to only, although the signals of the channel before are still
\* handled after the tuning, and in the end all services with audio.
ListIsOfChannel ==
  ~changed =>
    /\ serviceList \subseteq labels
    /\ events = <<>> => \A s \in labels : AudioData(s) # None => s \in serviceList

\* After a change of configuration the service that was running is restarted
\* where it now is: when all signals are handled, the backend of the current
\* service does not decode the place it had before.
RestartedWhereItIs ==
  todo = <<>> /\ events = <<>> /\ currentService.valid =>
    \A b \in theBackends :
      b.SId = currentService.name /\ AudioData(b.SId) # None => b.place = AudioData(b.SId)
=============================================================================
