-------------------------- MODULE ReceiverThreads ---------------------------
(***************************************************************************)
(* How the GUI thread of duoReceiver switches between DAB and FM, tunes,   *)
(* and closes: the calls of its handlers, in their order, against the two  *)
(* threads that read samples (dabProcessor::run and fmProcessor::run) and  *)
(* the device, any of four (DeviceHandlers), that delivers them into one   *)
(* buffer.                                                                 *)
(*                                                                         *)
(* A handler is the sequence of the calls it makes; a call that waits for  *)
(* a thread is two calls, the request and the wait.  A read of the device  *)
(* is two steps, the test of Samples () and the getSamples that trusts it. *)
(* Samples are named by the frequency they were received on.               *)
(***************************************************************************)
EXTENDS DeviceHandlers

CONSTANTS
  Channel,       \* the channels of the DAB band
  FmFrequency    \* the frequencies in the FM band

ASSUME ThreadsAssumption ==
  /\ Channel # {} /\ FmFrequency # {} /\ FmFrequency \intersect Channel = {}
  /\ BufferSize \in Nat \ {0}

VARIABLES
  todo,          \* the calls the running handler of the GUI has still to make
  decoder,       \* "dab", "fm", or "none" (077)
  channel,       \* the channel channelSelector shows
  fmFrequency,   \* the setting FM begins with
  closed,        \* the window is closed
  dab,           \* dabProcessor's thread
  reading,       \* sampleReader::running
  fm,            \* fmProcessor's thread
  running        \* fmProcessor::running

guiVars == <<todo, decoder, channel, fmFrequency, closed>>
dabVars == <<dab, reading>>
fmVars  == <<fm, running>>
vars    == <<guiVars, deviceVars, dabVars, fmVars>>

Frequency == Channel \union FmFrequency

ThreadState == {"off", "starting", "testing", "fetching"}
-----------------------------------------------------------------------------
(* The handlers: what each of them calls.                                  *)

\* Mutant: the reader is not told.
dabProcessorStopNoFlag == <<"dab.wait">>

dabProcessorStop == <<"dab.setRunning", "dab.wait">>
fmProcessorStop  == <<"fm.stop", "fm.wait">>

StopReader == <<"stopReader", "reader.wait">>

stopChannel  == dabProcessorStop \o StopReader
startChannel == StopReader \o <<"restartReader.dab", "dab.start">>

stop_dabSystem ==
  StopReader \o dabProcessorStop \o stopChannel \o <<"decoder.none">>

stop_fmSystem ==
  StopReader \o <<"save.frequency">> \o fmProcessorStop \o <<"decoder.none">>

set_dabSystem ==
  (IF decoder = "fm" THEN stop_fmSystem ELSE <<>>) \o startChannel \o <<"decoder.dab">>

\* Mutant: DAB is not stopped.
set_fmSystemOnly == <<"restartReader.fm", "fm.start", "decoder.fm">>

set_fmSystem ==
  (IF decoder = "dab" THEN stop_dabSystem ELSE <<>>)
    \o <<"restartReader.fm", "fm.start", "decoder.fm">>

Idle == todo = <<>> /\ ~closed

Handler(calls) ==
  /\ Idle
  /\ todo' = calls
  /\ UNCHANGED <<decoder, fmFrequency, deviceVars, dabVars, fmVars>>

\* dabSelector: nothing to do when DAB is on already.
ClickDab ==
  /\ decoder # "dab"
  /\ Handler(set_dabSystem)
  /\ UNCHANGED <<channel, closed>>

\* fmSelector: also when FM is on already.
ClickFm ==
  /\ Handler(set_fmSystem)
  /\ UNCHANGED <<channel, closed>>

\* selectChannel and the two channel buttons, on the page of the DAB system.
SelectChannel(c) ==
  /\ decoder = "dab"
  /\ channel' = c
  /\ Handler(stopChannel \o startChannel)
  /\ UNCHANGED closed

\* newFrequency: the keypad, the program list and both buttons, on the page of the FM
\* system, for a frequency in the band.
NewFrequency(f) ==
  /\ decoder = "fm"
  /\ setVFOFrequency(f)
  /\ Idle
  /\ UNCHANGED <<guiVars, dabVars, fmVars>>

\* closeEvent, TerminateProcess, and the end of the event loop.
Close ==
  /\ closed' = TRUE
  /\ Handler(IF decoder = "dab" THEN stop_dabSystem
             ELSE IF decoder = "fm" THEN stop_fmSystem ELSE <<>>)
  /\ UNCHANGED channel

\* The constructor ends with set_dabSystem or set_fmSystem.
Init ==
  /\ decoder = "none"
  /\ todo \in {set_dabSystem, set_fmSystem}
  /\ channel \in Channel
  /\ closed = FALSE
  /\ fmFrequency \in FmFrequency
  /\ DeviceInit(Frequency)
  /\ dab = "off"
  /\ reading = TRUE
  /\ fm = "off"
  /\ running = FALSE
-----------------------------------------------------------------------------
(* The calls.                                                              *)

Call(c) ==
  /\ todo # <<>> /\ Head(todo) = c
  /\ todo' = Tail(todo)
  /\ UNCHANGED <<channel, closed>>

SetDecoder(c, d) ==
  /\ Call(c)
  /\ decoder' = d
  /\ UNCHANGED <<fmFrequency, deviceVars, dabVars, fmVars>>

\* Nothing to wait for when the device is not running.
stopReader ==
  \/ /\ opened
     /\ Call("stopReader")
     /\ DeviceStop
     /\ UNCHANGED <<decoder, fmFrequency, dabVars, fmVars>>
  \/ /\ ~opened
     /\ todo # <<>> /\ Head(todo) = "stopReader"
     /\ todo' = Tail(Tail(todo))
     /\ UNCHANGED <<decoder, channel, fmFrequency, closed, deviceVars, dabVars, fmVars>>

stopReaderWait ==
  /\ Call("reader.wait")
  /\ DeviceWait
  /\ UNCHANGED <<decoder, fmFrequency, dabVars, fmVars>>

restartReader(c, f) ==
  /\ Call(c)
  /\ DeviceRestart(f)
  /\ UNCHANGED <<decoder, fmFrequency, dabVars, fmVars>>

\* stop_fmSystem writes the frequency of the device into the settings.
SaveFrequency ==
  /\ Call("save.frequency")
  /\ fmFrequency' = vfo
  /\ UNCHANGED <<decoder, deviceVars, dabVars, fmVars>>

\* QThread::start does nothing for a thread that runs.
DabStart ==
  /\ Call("dab.start")
  /\ dab' = IF dab = "off" THEN "starting" ELSE dab
  /\ UNCHANGED <<decoder, fmFrequency, deviceVars, reading, fmVars>>

FmStart ==
  /\ Call("fm.start")
  /\ fm' = IF fm = "off" THEN "starting" ELSE fm
  /\ UNCHANGED <<decoder, fmFrequency, deviceVars, dabVars, running>>

\* dabProcessor::stop: the flag, then the wait for the thread.
DabSetRunning ==
  /\ Call("dab.setRunning")
  /\ reading' = FALSE
  /\ UNCHANGED <<decoder, fmFrequency, deviceVars, dab, fmVars>>

\* Mutant: no wait.
DabWaitNot ==
  /\ Call("dab.wait")
  /\ UNCHANGED <<decoder, fmFrequency, deviceVars, dabVars, fmVars>>

DabWait ==
  /\ Call("dab.wait")
  /\ dab = "off"
  /\ UNCHANGED <<decoder, fmFrequency, deviceVars, dabVars, fmVars>>

\* Mutant: the thread is not waited for.
FmStopNoWait ==
  /\ todo # <<>> /\ Head(todo) = "fm.stop"
  /\ running' = FALSE
  /\ todo' = Tail(Tail(todo))
  /\ UNCHANGED <<decoder, channel, fmFrequency, closed, deviceVars, dabVars, fm>>

\* fmProcessor::stop: flag and wait, but only when the flag is set and the
\* thread runs; otherwise it returns at once.
FmStop ==
  /\ todo # <<>> /\ Head(todo) = "fm.stop"
  /\ \/ /\ running /\ fm # "off"
        /\ running' = FALSE
        /\ todo' = Tail(todo)
     \/ /\ ~(running /\ fm # "off")
        /\ todo' = Tail(Tail(todo))
        /\ UNCHANGED running
  /\ UNCHANGED <<decoder, channel, fmFrequency, closed, deviceVars, dabVars, fm>>

FmWait ==
  /\ Call("fm.wait")
  /\ fm = "off"
  /\ UNCHANGED <<decoder, fmFrequency, deviceVars, dabVars, fmVars>>

GuiStep ==
  \/ SetDecoder("decoder.dab", "dab") \/ SetDecoder("decoder.fm", "fm")
  \/ SetDecoder("decoder.none", "none")
  \/ stopReader \/ stopReaderWait \/ SaveFrequency
  \/ restartReader("restartReader.dab", channel)
  \/ restartReader("restartReader.fm", fmFrequency)
  \/ DabStart \/ DabSetRunning \/ DabWait \/ FmStart \/ FmStop \/ FmWait
-----------------------------------------------------------------------------
(* The device and the two readers.                                         *)

DeviceThread ==
  /\ WorkerBegin \/ WorkerEnd
  /\ UNCHANGED <<guiVars, dabVars, fmVars>>

DeviceEvent ==
  /\ DeviceCallback \/ DevicePart \/ WorkerLost
  /\ UNCHANGED <<guiVars, dabVars, fmVars>>

\* dabProcessor::run sets the flag itself when it starts.
DabBegin ==
  /\ dab = "starting"
  /\ dab' = "testing"
  /\ reading' = TRUE
  /\ UNCHANGED <<guiVars, deviceVars, fmVars>>

DabTest ==
  /\ dab = "testing" /\ reading /\ HasSamples
  /\ dab' = "fetching"
  /\ UNCHANGED <<guiVars, deviceVars, reading, fmVars>>

DabFetch ==
  /\ dab = "fetching"
  /\ dab' = "testing"
  /\ getSamples
  /\ UNCHANGED <<guiVars, reading, fmVars>>

DabEnd ==
  /\ dab = "testing" /\ ~reading
  /\ dab' = "off"
  /\ UNCHANGED <<guiVars, deviceVars, reading, fmVars>>

FmBegin ==
  /\ fm = "starting"
  /\ fm' = "testing"
  /\ running' = TRUE
  /\ UNCHANGED <<guiVars, deviceVars, dabVars>>

FmTest ==
  /\ fm = "testing" /\ running /\ HasSamples
  /\ fm' = "fetching"
  /\ UNCHANGED <<guiVars, deviceVars, dabVars, running>>

FmFetch ==
  /\ fm = "fetching"
  /\ fm' = "testing"
  /\ getSamples
  /\ UNCHANGED <<guiVars, dabVars, running>>

FmEnd ==
  /\ fm = "testing" /\ ~running
  /\ fm' = "off"
  /\ UNCHANGED <<guiVars, deviceVars, dabVars, running>>

DabThread == DabBegin \/ DabTest \/ DabFetch \/ DabEnd
FmThread  == FmBegin \/ FmTest \/ FmFetch \/ FmEnd

UserStep ==
  \/ ClickDab \/ ClickFm \/ Close
  \/ \E c \in Channel : SelectChannel(c)
  \/ \E f \in FmFrequency : NewFrequency(f)

ThreadStep == GuiStep \/ DeviceThread \/ DeviceEvent \/ DabThread \/ FmThread

Next == UserStep \/ ThreadStep

Spec == Init /\ [][Next]_vars

\* The user who waits: no handler begins before the thread that the handler
\* before it started has set its flag. Nothing in the code sees to that.
Settled == dab # "starting" /\ fm # "starting" /\ worker # "starting"

PatientNext == (Settled /\ UserStep) \/ ThreadStep

\* A handler goes on with its calls, and the scheduler runs the threads.
PatientSpec ==
  /\ Init /\ [][PatientNext]_vars
  /\ WF_vars(GuiStep) /\ WF_vars(DabThread) /\ WF_vars(FmThread) /\ WF_vars(DeviceThread)
-----------------------------------------------------------------------------
(* Properties.                                                             *)

\* The values every variable keeps.
TypeOK ==
  /\ decoder \in {"dab", "fm", "none"}
  /\ channel \in Channel
  /\ fmFrequency \in Frequency
  /\ closed \in BOOLEAN
  /\ kind \in Kind /\ worker \in WorkerState /\ opened \in BOOLEAN
  /\ vfo \in Frequency
  /\ buffer \in Seq(SUBSET Frequency) /\ Len(buffer) <= BufferSize
  /\ carried \subseteq Frequency
  /\ left \in 0 .. BufferSize + 1
  /\ dab \in ThreadState
  /\ reading \in BOOLEAN
  /\ fm \in ThreadState
  /\ running \in BOOLEAN

\* The buffer of the device is "lockfree, however only for a single reader and
\* a single writer": never do both processors read it.
Reads(thread) == thread \in {"testing", "fetching"}
SingleReader  == ~(Reads(dab) /\ Reads(fm))

\* What Samples () promised is still there when getSamples takes it: nobody
\* else read it and no restartReader flushed it in between.
PromisedSamples == dab = "fetching" \/ fm = "fetching" => buffer # <<>>

\* Between two handlers: what is not left from before the device was started, was
\* received on the frequency it is tuned to or, in FM, on another that FM was tuned to.
\* An rtlsdr leaves nothing, an airspy one block that began before; the others leave
\* what the readers did not take.  Once that is gone, DAB reads the channel shown.
NoStaleSamples ==
  LET fresh == IF decoder = "fm" THEN FmFrequency \union {fmFrequency} ELSE {vfo} IN
  Idle =>
    /\ \A i \in DOMAIN buffer : i > left => buffer[i] \subseteq fresh
    /\ kind = "rtlsdr" => left = 0
    /\ kind = "airspy" => left \in {0, 1}
    /\ dab = "fetching" /\ left = 0 => Head(buffer) = {channel}

\* Between two handlers the threads are those of the system that is on, and a device
\* that delivers is tuned for it; after the close nothing is left that uses the
\* device, which is then deleted.
OwnThreads ==
  todo = <<>> =>
    /\ (decoder = "dab") = (dab # "off")
    /\ (decoder = "fm") = (fm # "off")
    /\ Delivers => \/ decoder = "dab" /\ vfo = channel
                   \/ decoder = "fm" /\ vfo \in FmFrequency \union {fmFrequency}
    /\ closed => decoder = "none" /\ ~opened /\ worker = "off"

\* Every handler returns: the GUI never waits for a thread that was not told
\* to end.
HandlersReturn == (todo # <<>>) ~> (todo = <<>>)
=============================================================================
