# duoreceiver in TLA+

duoreceiver is a receiver for DAB and FM radio: a Qt program whose GUI thread
switches between two processors, each with threads of its own, that read the
samples of one device. This directory models the parts of it that keep discrete
state and run concurrently, checks them with TLC, and proves the main facts of
the core for every value of its constants with TLAPS.

## 1. The system

### Threads and the way of the data

    device worker  --ring buffer-->  DAB thread  --command[], semaphore-->  MSC thread
    (rtlsdr, ...)                    dabProcessor::run                      mscHandler::run
                         \               |  FIC blocks                         |  CIFs
                          \              v                                     v
                           \          ficHandler, fibDecoder                Backend (per service):
                            \            |  queued signals                  de-interleaver, FEC,
                             \           v                                  superframes, PAD, MOT
                              \       GUI thread  <--- queued signals ---------+
                               \      duoReceiver
                                ->  FM thread (fmProcessor::run) -> fmDecoder's thread -> RDS

The GUI thread starts and stops all the others, and calls straight into the
FIB decoder's tables and the list of backends while their threads run. The
audio goes through further ring buffers to the GUI thread and from there to the
callback of PortAudio.

### Components

| Component | Source | State | Operations | What makes it correct |
|---|---|---|---|---|
| GUI: systems and channels | `duoreceiver.cpp` | `decoder`, `running`, channel, timer | switch DAB/FM, tune, close | one reader of the device; no samples of the channel before; handlers return; nothing uses the device after the close |
| GUI: services | `duoreceiver.cpp` | `serviceList`, `currentService`, `nextService`, settings, presets | select, step, preset, restart after a change | only the service shown is decoded, and where it is; a preset meets its own channel, unless its name in the settings is older; the list is that of the channel |
| DAB processor | `dab-processor.cpp`, `sample-reader.cpp` | thread, `running` of the reader, offsets | `start`, `stop`, `run` | blocks of a frame go out in order, beginning with block 0; `stop` returns |
| DAB synchronisation | `dab-processor.cpp`, `timesyncer.cpp`, `phasereference.cpp` | place in the frame, level, `coarseOffset`, `fineOffset` | `run`, `sync`, `findIndex`, `estimate_CarrierOffset` | blocks are read from their places; a frame lost is found again; the frequency settles |
| MSC handler | `msc-handler.cpp` | slots `command`, semaphore, `amount`, `currentBlock`, reference, CIF, list of backends | `processBlock_0`, `process_Msc`, `run`, `set_Channel`, `stopService`, `reset_Channel` | a FIFO without loss; whole CIFs, in order; a stable list while it is fed |
| Backend | `backend.cpp`, `backend-driver.cpp`, `backend-deconvolver.cpp` | de-interleaver, kind of processor | `process`, `processSegment` | every CIF once, in order; what is decoded is of one time |
| Error protection | `protection/*`, `fic-handler.cpp`, `reed-solomon.cpp`, `galois.cpp` | index tables, FIC block in progress | `deconvolve`, `process_ficBlock`, `dec` | the bits taken are those the subchannel has; FICs are of one frame; what can be repaired is |
| FIB decoder | `fib-decoder.cpp`, `fic-handler.cpp` | two configurations, ensemble, clusters, date | one per FIG, queries | tables consistent with what the ensemble sends, over changes |
| Ring buffer | `includes/various/ringbuffer.h` | two indices modulo 2 * size | put, get, skip, flush | a FIFO between one reader and one writer |
| RDS | `fm-system/rds/*` | shift register, synchroniser, group, text | `processBit`, `pushBit`, `decode` | groups are four blocks in order; text from one message |
| PAD, MOT, data | `backend/data/*` | partial labels, data groups, objects, directories | `processPAD`, `addtoFrame`, `add_mscDatagroup` | labels and objects are complete when shown, and of one transport id; every object of a carousel comes in the end |
| Audio frames | `mp4processor.cpp`, `mp2processor.cpp` | ring of frames, header being sought | `addtoFrame` | superframes and MPEG frames begin at their boundary, also after losses |
| Devices | `devices/*` | `running` or `workerHandle`, worker, ring buffer | `restartReader`, `stopReader`, callback | a start that fails leaves nothing running; nothing stale is read for the new channel |
| Audio output | `audiosink.cpp`, `audio-base.cpp`, `newconverter.cpp` | three buffers, stream, pairs to convert | `dabAudio`, `fmAudio`, `audioOutput`, `restart`, `stop`, callback | left and right stay apart; the buffer is flushed only when nobody uses it |
| FM processing | `fm-processor.cpp`, `fm-decoder.cpp` | thread, buffers | `start`, `stop`, `run` | blocks of 1920 samples, handed over in order |
| Presets, program list, keypad | `duoreceiver.cpp`, `preset-handler.cpp`, `program-list.cpp`, `popup-keypad.cpp` | list of stations, presets, number keyed in, form, two files | key in, step, save a station, add a preset, change of system, close | nothing entered is lost but by a death; FM stays in its band; buttons do what they say |
| Filters, FFT, Viterbi, tables, widgets | the rest | - | - | numeric, or Qt layout |

Build facts the models rely on: `duoreceiver.pro` does not define
`__THREADED_BACKEND`, so a backend works in the MSC thread; signals from other
threads to the GUI are queued, because the receiver of the signal lives in the
GUI thread; `scanMode` is never set. The program has no tests of its own.

### What is hard here

- Two threads share slots by different numberings: the producer uses the block
  number of the frame, the consumer a counter that is never reset.
- A stop may come at any point; threads set their own `running` flag, which can
  overtake it.
- GUI handlers look at FIB tables that the DAB thread is changing, and look
  twice, expecting the same answer.
- Signals of one channel are handled after the tuning to the next one.
- A message box runs an event loop in the middle of a handler.
- One handler is entered from many paths (click, key, button, preset, timer,
  change of configuration), in any order.
- Labels, objects, superframes and data groups are assembled over many frames,
  any of which may be lost; some of the state is in static locals that
  outlive the service.
- Four devices, four protocols of starting, failing and stopping.

The full list, each at its line, is under `hazards` in `PROJECT.json`.

## 2. The modules

| Module | Models | Runs |
|---|---|---|
| `MscHandler` | DAB thread, MSC thread and GUI thread around the block buffer and the list of backends | `buffers`, `msc_torn`, `backends` |
| `BlockQueue` | what that buffer promises: a bounded FIFO | as a property of `buffers` and `msc_torn` |
| `MscHandlerProofs` | theorems about `MscHandler`, for all constants | - |
| `SampleRing` | the lock-free ring buffer between any two of these threads | `buffers` |
| `SampleQueue` | what the ring buffer promises: a FIFO of bounded length | as a property of `buffers` |
| `AudioOutput` | the way of the sound from the decoders to the sound card; its last buffer is `SampleRing` | `buffers` |
| `AudioOutputProofs` | theorems about `SampleRing`, for all sizes, and about `AudioOutput`: it uses the ring as it should, and keeps the sides | - |
| `DabSync` | finding and keeping the DAB frame and its frequency | `rds` |
| `RdsSync` | the block synchroniser of RDS, bit by bit | `rds` |
| `RdsDecoder` | `RdsSync` with the decoder of groups behind it | `rds` |
| `SyncProofs` | theorems about RDS, for all block lengths and groups, and about `DabSync`, for all frames, windows and disturbances | - |
| `DeviceHandlers` | the handlers of the four devices, their workers and buffers | through `ReceiverThreads` |
| `ReceiverThreads` | the calls of the GUI that start and stop threads and device | `threads_patient`, `threads_hasty` |
| `ReceiverThreadsProofs` | theorems about both, for all devices, frequencies and sizes | - |
| `ServiceControl` | the handlers that select services, against the FIB decoder | `gui`, `service_change`, `service_remembered` |
| `Favourites` | presets, FM stations, keypad and form, and their files | `gui`, `keypad_twice` |
| `GuiProofs` | theorems about both: for all channels, services and numbers of signals; for all bands, widths of a word and names | - |
| `FibDecoder` | the tables of services, subchannels and components behind `ServiceControl` | `fib_tables`, `fib_change` |
| `FibDecoderProofs` | theorems about it, for all services, components, labels and sizes | - |
| `MotObjects` | MOT objects, the table of them, directories | through `Backends` |
| `PacketData` | packets to data groups to `MotObjects` (`dataProcessor`) | through `Backends` |
| `PadHandler` | short and variable X-PAD, dynamic labels, slides (`padHandler`) | through `Backends` |
| `AudioFrames` | superframes of DAB+ and MPEG frames of DAB | through `Backends` |
| `ReedSolomon` | the field, the encoder and the decoder, and their use on a superframe | through `Backends` |
| `Protection` | protection profiles, FIC assembly, time de-interleaver | through `Backends` |
| `ErrorProtection` | what is sent and received before the last two | through `Backends` |
| `Backends` | `backendDriver` with a broadcaster and a line that loses and damages | `backends` |
| `ShortLabels` | `Backends` with the labels in short X-PAD that can be shown at all | `backends` |
| `BackendsProofs` | theorems about packets, audio frames and the places of bits, for all carousels and sizes | - |
| `PadProofs` | theorems about the slides and the labels in the PAD, and about all lines together | - |
| `MC...` | small instances for TLC | |

Definitions whose comment begins with "Mutant" are deliberately wrong variants
of the definition after them. They are not part of any specification: they show
that the properties notice the bug they name. `PROJECT.json` lists which is for
which property.

### MscHandler

The DAB thread (`dab`) waits for samples, takes a permit of `bufferSpace`,
copies the block into `command[blkno]`, and announces it in `amount`: one
action for each, so the MSC thread can run in between. The MSC thread (`msc`)
waits with a timeout, tests `amount` without the mutex, copies slot
`currentBlock`, demodulates against `phaseReference`, completes the CIF, feeds
the backends one by one under `locker`, gives the slot back, and only then
takes the block off `amount`. The GUI calls `set_Channel`, `stopService` (its
loop has one step a turn, because its erase skips the element that moves up),
and stops and starts sessions.

Data is its origin: a block is its number and a label of the frame it came
from. Demodulation gives the block itself when the reference is its predecessor
on the air and `Garbage` otherwise. A slot that is read while it is written may
show either block or garbage. A backend remembers how full its de-interleaver
is and which CIF it was fed last, named by its first block. The samples the
synchroniser skips when it loses a frame do not appear: a frame on the air
begins when block 0 was found. `reset_Buffers` has no caller and is left out,
as is the destructor.

`torn`, `stale` and `last` are history: whether a stop fell inside a frame, and
how many waiting blocks are of an earlier session.

### SampleRing

A put is `PutBegin` (how much fits, from both indices as they are now), one
`PutElement` for every element of the two `memcpy`s, and `PutAdvance`; a get
likewise. The other side can take any number of steps in between; the memory
barriers of the code are taken to keep this order. `x & bigMask` is
`x % (2 * Size)`, which also is what the wrap of the unsigned subtraction comes
to when the size is a power of two; neither the model nor the proofs need that
it is one. `Flush` happens with both sides idle: its callers are the start of a
device and of the sound card, and that nobody reads then is a matter of
`ReceiverThreads` and `AudioOutput`. `skipDataInBuffer` and `reset` have no
caller.

### AudioOutput

A sample is the side it is for. The decoders put samples into two buffers and
signal that to the GUI; the GUI handles one signal at a time: `DabAudio` or
`FmAudio` brings what is there to 48 kHz, `AudiosamplesAvailable` takes a chunk,
and `audioOutput` puts it pair by pair, with `PutBegin` and the steps after it of
`SampleRing`, which `AudioOutput` extends. `Callback` is a get of the same
buffer, at any time between. A change of system is `Stop` (the stream is told),
`StreamStops` (a callback in progress ends), and `Changed`, with the flush of
`restart`. The other buffers are only changed in one step each, because
between their two sides they are used as `SampleRing` is.

What the code does, and the model with it:

- Signals of FM are handled also after a switch to DAB: `fmDecoder` runs until
  the program ends. Those of DAB are dropped when DAB is off; what was decoded
  stays in `dab_audioBuffer` until DAB is on again.
- Mono AAC is doubled, but as many samples are put as there were before the
  doubling: the second half of every frame is lost.
- `fmAudio` writes the same difference to both sides (line 1097), so FM is never
  heard in stereo; as a side is what a sample is meant for, the model does not
  show it.
- A chunk or less stays in `audioSamples`, also over a change of system.
- That the stream fails to start is told to nobody; `restart` tries again at the
  next change.

Left out: `Pa_OpenStream` that fails (the stream is then closed and used), the
end of the program, errors of `src_process`, names and numbers of devices.

### RdsSync and RdsDecoder

`rdsDecoder::processBit` is one action: `pushBit`, and in the same call the
resynchronisation or the decoding of a complete group. `RdsSync` has the three
states of `pushBit` (searching block A bit by bit, counting to the next block
without lock, counting with lock); `RdsDecoder` extends it and adds, in the step
that completes a group, what `rdsGroupDecoder::decode` does.

A bit is its place on the air: block and bit within the block, and the group
being sent. Of the 26 bits in the shift register, what decides is how many of the
last ones are undamaged and in order (`inOrder`); a syndrome is zero when a whole
block is, with the offset word asked for (that of block C depends on the type
given in the block B taken before). Any other 26 bits may have syndrome zero by
accident, with any payload: an imitation. Clock recovery may damage, miss or
double a bit. `correctErrors` inverts up to 16 bits, which spoils them for the
search that follows; the block is dropped all the same, because `decodeBlock`
tests the syndrome of before the correction. Counters of errors that only
commented-out lines read are left out.

Characters are the station and message they come from. `prepareText` drops the
last character of a text, never a segment, so what the GUI shows is the union
over the segments. `addtoStationLabel` ors `2 * index` into its register instead
of the bit of the segment; the register decides nothing that is not done anyway,
and is left out. When the A/B flag changes after segments without a gap,
`Handle_RadioText` returns before it stores the segment and clears the buffer,
and the next segments are written over the old text: the model has this, and
texts of one station do mix.

### DabSync

`dabProcessor::run` from its first sample: a fifth of a frame for the level
(`WarmUp`), the level of the moment (`FirstLevel`), sample by sample to a dip
(`SyncOnNull`) and to its end (`SyncOnEndNull`), a block to find the first
sample of block 0 in (`PhaseSync`), the rest of block 0 (`Block_0`), the other
blocks (`DataBlock`), the null period (`EndOfFrame`), and a block again. Both
calls of `findIndex` are `PhaseSync`: they differ in the threshold only.
`Stop` is the exception of the next read, which may come anywhere.

A sample is its place in the frame on the air (`pos`), from which follows whether
it is loud. `shift` is history: how many samples the device lost or doubled since
the index was found, with the error of that index. The device may lose blocks
(`Lose`), its clock may slip by a sample in every frame for ever (`Slip`), a
sample may fade, and a correlation may be misled; all but the slips count as
`disturbances`, which are bounded. What is lost within a read is taken as lost
before it. Without an ensemble everything is loud and `findIndex` finds nothing
unless misled.

`findIndex` gives the distance to block 0 when that is within `Window` of
`T_g`, and otherwise nothing. `sLevel` moves by one at a time (`Settle`) from
whatever the channel before left: `getSample` averages over about 100000 samples,
and nothing resets it. Levels are compared in percent, as in the code.

Frequencies are whole numbers. `estimate_CarrierOffset` gives the nearest carrier
within its range when block 0 is in place, and anything of `WrongEstimate`, 100
included, otherwise; the phases of a frame give what is left within one carrier
(`FreqCorr`). `fineOffset` is truncated, as an `int16_t` that a float is assigned
to; `CarrierDiff`, `CoarseStep`, `Gain` and `MaxCoarse` are 1000, 400, 20 and 35000
in the code. The FIC may come into sync in the first three blocks when the
frequency is within a quarter of a carrier (`Readable`; how far the FIC can be
read is not in the code), and stays in sync until the stop.

What the code does, and the model with it:

- Once the FIC is in sync, `coarseOffset` is no longer estimated. What then moves
  the frequency by a carrier is the wrap of `fineOffset`, for which frames out of
  place are enough; with `Readable` at a quarter of a carrier and few such frames
  it does not come to that.
- What is left below `Gain` stays: a correction of less than 1 is truncated to
  nothing. In the code that is 20 Hz.
- An offset beyond 35 carriers is never corrected: the estimate is 100 or wrong.
  `Offset` has none of these.
- `attempts` is counted and reset and has no effect: the signal it was for is
  commented out. It is left out, with `estimate_FrequencyOffset`, which has no
  caller.

`MscHandler` has its own view of the same thread, in which a frame begins when
`findIndex` finds one; `ReceiverThreads` has its begin and end.

### DeviceHandlers and ReceiverThreads

Each GUI handler is the sequence of calls it makes (`todo`), taken from the
code, in its order, the doubled ones included (`stop_dabSystem` stops the DAB
processor, and then `stopChannel` does it again). A call that waits for a
thread is a request and a wait. The DAB and FM threads set their own flag when
they begin. Inside, they only test and fetch.

The device is any of the four that the constructor tries (`kind`). Each has a
worker that fills a bounded buffer: a thread of its own (rtlsdr, pluto) or of
the library of the device (airspy, sdrplay). A read is a test of `Samples ()`
and a later `getSamples`. Starting and stopping differ in each: rtlsdr flushes,
and sets its handle before the worker runs; airspy flushes, but not the part of
a block that waits in `convBuffer`; sdrplay and pluto do not flush (their
`resetBuffer` has no caller); sdrplay sets `running` also when the stream did
not start; pluto's `running` is set by its thread. Nobody looks at the result of
`restartReader`. `left` is history: how many of the next blocks may be of before
the start. What follows from the code as it is, and the properties allow:

- On sdrplay and pluto the readers of a new channel are given the samples of the
  channel before until the buffer has been read once; on airspy one block is
  mixed.
- An rtlsdr whose reset fails keeps the frequency it had. `stop_fmSystem` then
  stores that as the frequency FM begins with, even when it is one of DAB.
- A pluto whose thread is off gives no samples, although `Samples ()` counts
  those that are left.
- FM selected again while FM is on does not retune (the device runs), but shows
  the stored frequency.

Not modelled of the devices: their constructors, gains and widgets, errors of
tuning a device that runs, `airspy_start_rx` before its buffer is set, and a
`rtlsdr_cancel_async` that comes before the worker is in `rtlsdr_read_async` is
lost (the GUI then waits: excluded by `PatientSpec`, see below).

### ServiceControl

Again a handler is its sequence of calls, and the FIB decoder may take a step
between any two. The FIB decoder holds the labels of services, where the
current configuration has their audio (subchannel and address), and which it
reported. Its signals go through a queue to the GUI, which handles them when
no handler runs, or in the event loop of a warning. Retuning is one step,
because `ReceiverThreads` has its inside; what belongs to the ensemble is then
gone, the queued signals and the label of the ensemble are not.

The settings keep the channel whenever DAB is left, but the name of the service
only when one is on (`duoreceiver.cpp:322-325`), so the next start may find a name
of one channel beside another channel. `dabSettings.playedOn` is history: the channel
on which the service of that name was on; `old` says that DAB has since been left with
nothing on. Both go into `nextService` with the name, and a preset brings the channel
it was chosen with; no guard reads them.

Uninitialised data is a choice: the subchannel in a descriptor that
`dataforAudioService` did not fill, and `valid` of the local in
`changeinConfiguration` when no service is on (which may start the service
without a name: no row of the list has it). A change of configuration removes
labels of services without a component; because `findService` ends at the first
hole in the table, services behind the hole vanish with them, so any part of the
rest may go. Names stand for service identifiers, and secondary components are
left out.

### Favourites

What the user enters, all of it in the GUI thread: a frequency on the keypad, by
the two buttons or by a click in the list of stations (`newFrequency` refuses what
is not in the band); a station, by a form for its name; a preset, by the right
button on the service that is on. The list is written to its file when FM is
left (`saveTable`), the presets when DAB is (`savePresets`); `Close` leaves
the system that is on, and `Start` reads both. The program may die at any time,
and while it writes: the file is then empty, or ends in rows without texts. Numbers are `int`s: products wrap, as in the builds
(by the language they are undefined).

Names are members of a set. Presets are a channel with a name; `localSelect`
and `savePresets` split an entry at every colon, so one with a colon in its name
(`Colon`) is neither saved nor started. Selecting a preset is the subject of
`ServiceControl`, and here any change to a DAB frequency. A device always starts:
what happens otherwise is in `ReceiverThreads`. `wires` counts how
often `set_fmSystem` has connected its buttons.

What the code does, and the model with it:

- FM chosen while FM is on connects the buttons once more (`keypad_twice`); a
  press of `freqSave` then makes two forms, and the name in the first of them is
  never read: return in either of them takes the text of the second.
- A form belongs to no window. It outlives FM, `set_fmSystem` forgets it
  (`myLine = nullptr`), and return in a forgotten form ends the program: that is a
  `Dies`. A form read in DAB gives the station the frequency of the channel.
- `handle_myLine` deletes the form whose signal it handles; what Qt makes of that
  is not modelled. `QSettings` is taken to be stored at once.
- Line 208 reads the upper end of the band from the key of the lower end
  (`"fmLow"`). As nothing writes that key, the band is the default one unless
  somebody edits the settings; `FavouritesAssumption` has a lower and an upper end.

### FibDecoder

One action per FIG, each under `fibLocker` in the code, in any order: FIG0/0
(the change of configuration), FIG0/1 (subchannels), FIG0/2 (components with
audio and with packets), FIG0/3, FIG0/8, and the labels FIG1/1, FIG1/4 and
FIG1/5; `clearEnsemble` by the GUI; and the questions of the GUI in two steps,
because `findService` by name comes before the lock. What may be on air is
given by two sets, `Named` and `OnAir`; which of it arrives, when, how often
and for which of the two configurations is free.

The table of services is an array with holes, in the order of the code's
searches: by name over everything, by SId up to the first hole. Components and
subchannels of a configuration are only added, and reset together, so a
sequence and a set stand for their arrays. A full table of components is
excluded (`FibAssumption`), and so is a full table of services; in the instance it is
just large enough. `cleanupServiceList` is stated without its loop: an entry stays
when it and everything up to the first entry of its service is healthy. That this is
what the loop computes, searching the table it is changing, is a theorem
(`CleanupIsLoop`). Two variables are history: `steady` ends with the first change of
configuration, `query.kept` with one that comes while a question is open. Only a
question that was overtaken by such a change is left out of `AnswerFits`; it does
get the data of another service at times, and no document says that it must not.
The question for packets, `dataforPacketService`, has no caller and is left out.

The GUI's list is updated at once here, whereas in the code it is a signal away;
late signals are the business of `ServiceControl`.

### Backends: the line, and what is sent on it

`backendDriver` gives a service one processor, by its type. `Backends` has one
line, chosen at the beginning: superframes of DAB+, frames of DAB with or without
PAD, audio units with labels or with slides in their PAD, packets, and the lines
of `ErrorProtection`. A processor is a record, its operations are functions of
it (`addtoFrame`, `processPAD`, `handlePacket`), and an action is one frame,
audio unit or packet, handled to its end as in the code. Next to it is the
broadcaster, who sends what the standard allows, in any order it allows: labels
may be broken off, commands and slides come between, a carousel goes round. The
line loses or damages `MaxLosses` times, and the service may be selected again,
which makes a new processor but leaves the static locals. Ghosts of the
broadcaster say what came through undamaged; the properties compare.

- `AudioFrames`. A superframe part carries its number, and whether its FIRE code
  and its RS words are right. mp2Processor looks for the header bit by bit: a
  frame is a sequence of units, of which some look like (part of) a header.
- `PadHandler`. Subfields of X-PAD are begins and continuations of label segments
  and data groups; the characters and units they carry stand for bytes. CRCs of
  segments and groups hold exactly for what is whole. `Statics` are the static
  locals of `dynamicLabel`, common to all handlers.
- `PacketData`, `MotObjects`. A packet has a continuity index, first and last
  flags and a part of a data group. `motTable` is bounded; directories list
  objects.

Limits of the code that the model has, and the properties or the broadcaster
step around, each named at its place:

- A directory of one segment is never analysed (`mot-handler.cpp:153`), so its
  objects come by their headers only.
- A short segment of one character is lost when the next begins behind it, and the
  end of a label's only segment shows nothing; labels of one segment are added to
  one another. The comments there say otherwise ("if we are at the end of the last
  segment [...] then show it", `pad-handler.cpp:166`; "the end of a segment is when we
  collected the amount of values", line 99): the first because the code asks for
  `!firstSegment`, too, the second because a start appends nothing. `Backends` sends any
  label, and TLC finds `LabelsShown` violated at once by one of these; `ShortLabels` adds
  `ShortLabelAssumption`, under which labels have neither, for the run and the proofs.
- In short X-PAD the flags first and last are overwritten by any PAD with a CI,
  also of another application. In variable X-PAD what comes behind an
  application that is not handled is lost, and a data group that begins and is
  to be continued without CI is lost too, as its size was not noted.
- A command within a segment leaves `moreXPad` set.
- `motTable` is common to all handlers. The destructor tests `orderNumber > 0`.
  The call of `handle_motObject` for a header of a slide is commented out.
- Types 5, 44 and 59 of packet data leave `my_dataHandler` unset; they are not on
  the line. The PAD of mp2 has no CRC.
- At 24 kHz the audio bytes of the first half are taken for PAD, and the first
  frame is played half. At 48 kHz mp2Processor never comes back from a header
  without its first bit, or from sound that looks like one; `Disturbed` leaves
  these out.
- When the first part of a superframe is scratched, it is lost, even if
  Reed-Solomon could repair it: the FIRE code is tested before. `blocksInBuffer`
  is counted and never read.

### Error protection

`ReedSolomon` is `galois` and `reedSolomon`, function by function (Berlekamp-
Massey, Chien search, Forney), over a field whose size, polynomial and number of
roots are constants: symbols are sets of exponents of the polynomial form, the
power form is the index of `alpha_to`. The code has 8 bits, 10 roots, and words
shortened by 135; the run has 3 bits, 4 roots, shortened by 1, since TLC
evaluates every word that can be received with that many errors. First root 0
and primitive element 1 are as in the code. Parity symbols are neither corrected
nor counted.

`Protection` has the tables: FIG0/1's short form (64 rows of `ProtLevel`), the
profiles of `uep-protection.cpp` (64 rows) and `eep-protection.cpp`, and how many
bits each profile takes from the fragment (8 + PI of each 32). It has
`process_ficBlock`, which cuts three FIC blocks of a frame into four FICs, and
`processSegment`, the de-interleaver over sixteen CIFs. `ErrorProtection` sends:
every superframe with every set of few errors, every subchannel that FIG0/1 can
describe, FIC blocks of frames that are broken off, CIFs of which some are lost.
Sizes below the step of a level (bit rate 0) are not sent. The seventeenth CIF is
the first that is deconvolved. Viterbi decoding and energy dispersal are left out.

One row does not fit: 80 kbit/s at level 1 has `PI2` = 7 in
`uep-protection.cpp:70`, and needs 17 for the 84 capacity units of
`fib-table.h:57`. `FragmentFits` says what each row leaves of a fragment: nothing in
the long form, 0, 4 or 8 bits of padding in the short form, and 404 bits for this
row (`Misprinted`), 400 more than with 17, so that the 404 bits are a defect that
`BitsInPlace` describes and does not excuse: "the table is based on chapter 11 of the
DAB standard" (`uep-protection.cpp:137`) is not so in this row.

## 3. The runs

| Run | Bounds | Result |
|---|---|---|
| `buffers` | blocks 0..4 (1 + 2 CIFs of 2), 3 frame labels, 2 services, de-interleaver of 1; or a ring of 4 slots, 2 values, amounts 1, 2 and 5; or the sound: 2 rates, frames of 2 samples, chunks and callbacks of 1 pair, buffers of 8, 1 block and 1 signal waiting | holds: `WholeCif`, `ContinuousFeed`, `BufferIsQueue`; `RingIsQueue`; `SoundSides` |
| `msc_torn` | blocks 0..4, 2 labels, stops anywhere | violated: `BufferIsQueue` |
| `rds` | blocks of 3 bits, 2 of them payload; 2 stations, a name of 1 segment, texts of 2, one group of type B; 1 spoilt bit, 1 imitation; or a DAB frame of 56 samples, null 6, prefix 4, 5 blocks of 10, 4 samples of level, window 3, carriers 10 apart, offsets 7 and -23, losses of 2 and 13 samples, 1 disturbance; fairness | holds: `LockedOnBlocks`, `OneStation`, `WholeGroups`, `RdsRelocks`; `BlocksInPlace`, `SyncComesBack`, `FrequencySettles` |
| `threads_patient` | four devices, 2 channels, 2 FM frequencies, a buffer of 2 reads | holds: `SingleReader`, `PromisedSamples`, `NoStaleSamples`, `OwnThreads`, `HandlersReturn` |
| `threads_hasty` | the same, a user who does not wait | violated: `SingleReader` |
| `gui` | 2 channels, 2 services, 2 subchannels, 1 address, 2 waiting signals; or a band of 2 frequencies, digits to base 3, a word of 18 values, 1 name, 2 presets, 1 row, 2 forms, 2 connections | holds: `OnlyCurrentDecoded`, `PresetFits`, `NoneStillValid`, `ListIsOfChannel`; `NothingForgotten` |
| `keypad_twice` | the second of these | violated: `ButtonToggles` |
| `service_change` | 1 channel, 1 service, 2 subchannels, 2 addresses | violated: `RestartedWhereItIs` |
| `service_remembered` | 2 channels, 1 service, 1 place, 2 waiting signals | violated: `RememberedFits` |
| `fib_tables` | 2 services, a second component, 3 labels, 2 subchannels, both configurations | holds: six properties |
| `fib_change` | the same | violated: `HealthyKept` |
| `backends` | 3 slides or objects and a directory of 2, 5 labels, 3 carousels, a table of 2, superframes of 5 parts, frames of 4 units, 2 losses; RS over GF(8), 2 words; all subchannels; or blocks 0..2 (1 + 1 CIF of 2), 1 frame label, 1 service, stops anywhere; fairness | holds: `TypeOK`, `FramesWhole`, `LabelsShown`, `ObjectsWhole`, `GroupsArrive`, `Corrected`, `BitsInPlace`, `Collected`; `SlotAccounting`, `FeedIsStable`, `BlocksAreHandled`, `StopTerminates` |

Why the bounds are enough. The buffer has as many slots as a frame has blocks,
so the producer laps the consumer within one frame more; three frame labels
keep the frame that waits, the frame that comes and a third apart. Two CIFs a
frame give both successors of a CIF (in the frame, and into the next one); two
blocks a CIF give a first and a last block. Where stops may come anywhere, in `backends`,
a frame has one CIF only: what is fed is compared with the frame in `buffers`, and
the slots and the list of backends are proved for every layout. Two services on one subchannel reach
the erase that skips. For the threads, a buffer of two reads is empty, partly
full and full; two channels and two FM frequencies tell a retuning within a band
from one between them. For the backends, two losses spoil a part and the part
that should have put it right; labels have one and two segments of one and two
characters; objects have one to three segments, and the table has room for fewer
than the carousel carries. Amounts of 1, 2 and 5 in a ring of 4 fill it exactly, wrap in the
middle of a put and of a get, and ask for more than the whole ring; indices run
twice around. For the sound, every buffer gets full and empty with chunks that
do not fit, one rate is converted and one is not. Two services and two subchannels allow a service to move to the
place another one had. For what the user keeps, a word that has hardly room
for the band lets numbers of three digits wrap into it; one row, with equal rows
and any order covered by the proof, is removed, saved and lost; one preset can be saved, one
not; two forms give one that is read and one that is not. For the FIB decoder, a hole in the table of services needs
a service before it and something of that service behind it: three labels. Two
waiting signals allow an old one and a new one. Its questions are about two labels
(`Asked`): the one a hole can come before, and one of a service that has data only,
which must not be answered with another's sound. For RDS, a block needs a first, a middle and a last bit, of which the first
two can be inverted by a correction; one slip loses the lock wherever it falls,
and one imitation is enough for a false lock or a false block in a true lock,
with the slip before or after it. Two segments give a text that is complete, one
without a gap that is not, and one with a gap; two stations and two values of the
A/B flag give the changes. For
the DAB frame, a loss of 2 is within the window and one of 13 beyond it and
longer than the null period; the window is shorter than the prefix; the levels 1
to 3 are below, at and above that of the ensemble, so that there is no dip, a dip
and nothing but a dip; one offset is less than a carrier, the other more than
two; the gain leaves room for a truncation. One disturbance may come at any
point. That more of them leave blocks in place is proved; that the frequency
settles after more of them is not claimed, for the reason given with the module. The words of Reed-Solomon have every set of up to two
errors of every value, sets of three of one value, and every burst.

`gui`, `service_change` and `service_remembered` use symmetry: no constant of `ServiceControl` has an order
or a special element, and what `Favourites` is given is not permuted. `gui` also
uses views: one drops `nextService` while the preset timer is off, as it is read
only when the timer fires, and of the history the channel of an old name, which
`PresetFits` does not ask for, and `dabSettings.playedOn` while DAB is on, as leaving DAB
writes it anew or makes the name old; `service_remembered` has no view. The other drops the number of a keypad that is hidden, as
showing the keypad clears it. `MCBuffers`, `MCBackends`, `MCRdsDecoder` and `MCGui` look at one of
their parts in a behaviour; what is not looked at stays as it is. Deadlock is
checked in `buffers` and `msc_torn`; in
`ReceiverThreads` the closed program stops, in `Backends` some lines have nothing
to send after their losses, and in `ServiceControl` a handler
that needs room in the bounded queue of signals would not say anything of the
code, so deadlock is not checked there. `fib_tables` uses a view that
identifies flags before a change that have the same consequences, and drops the
answer of the step before, which is checked in the step that gives it, and what
a question was about once a change of configuration overtook it.

Bounds that are not the code's: `Frames` (labels are reused cyclically),
`Depth` (saturates), `MaxEvents`, `MaxSignals`, `MaxDisturbances`, `FmRoom`,
`MaxRows`, `MaxForms` and `MaxWires`, and the sizes of the sets.

### What the violations show

- `msc_torn`. After a stop in the middle of a frame the consumer's
  `currentBlock` stays where it was, while the next session's producer starts
  at slot 0. From then on, blocks are taken in another order than they
  were put. This is why `buffers` and the proofs about it look only at
  behaviours of `UntornSpec`: a stop that falls between frames.
- `threads_hasty`. `fmProcessor::stop` is a no-op until the FM thread has set
  `running`; a quick switch to DAB leaves two readers on one buffer. The same
  kind of race can make `dabProcessor::stop` wait forever, because
  `dabProcessor::run` sets the reader's flag again. `PatientSpec` is the
  specification without this race: no handler begins while a started thread,
  the worker of the device included, has not set its flag.
- `service_change`. When the running service moves to another subchannel, its
  old backend is not found, and the restart is refused because the service "is
  already running".
- `service_remembered`. DAB is left while a service is on; after the return to DAB
  another channel is chosen, and DAB is left with nothing on. At the next return the
  timer is armed for the service of the first channel on the second. If that has a service of the name it is started, otherwise nothing is, and
  the service is not selected as `README.md:69-72` of the repository promises.
- `keypad_twice`. In FM the user chooses FM again. `set_fmSystem` does not test
  `decoder`, as `set_dabSystem` does, and connects `freqButton` a second time; one
  press then shows the keypad and hides it, until DAB has been chosen once.
- `fib_change`. `cleanupServiceList` gives up a service when a search fails
  that ends at the first hole; after the first service it gave up, everything
  behind fails. The labels come again, but `is_shown` of a reused slot is not
  reset, so the GUI may not be told: `ListIsReported` holds only until the
  first change of configuration, and is stated so.

### Fairness

`MscHandler!FairSpec`, whose conditions `MCBackends` makes of this part only: both threads are weakly fair, since nothing but their own
waits keeps them from running. Taking `locker` at the start of a feed
is strongly fair: the GUI thread holds it only inside two short calls and goes
back to its event loop. Calls that the GUI has begun are completed. Nothing is
assumed of samples or of the user. The timeout of 100 ms is an action of the MSC
thread; without it, `BlocksAreHandled` fails (the mutant `NoTimeout`), because a
`wakeOne` that comes while nobody waits is lost. `ReceiverThreads!PatientSpec`:
the GUI goes on with a handler it has begun, and both threads and the device's
worker run; the device owes no samples. `Backends!Spec`: the broadcaster of a
data service goes on; how often packets are lost is bounded, so `Collected` says
what comes after the last loss. `RdsDecoder!RdsSpec`: as long as the receiver runs there are bits;
that reception becomes good is the bound on spoilt bits and imitations.
`DabSync!DabSpec`: the DAB thread goes on as long as it is on, because the device
gives samples, and `sLevel` comes to the level received; when the user starts and
stops is left open, so both liveness properties speak of a thread that is on for
good.

## 4. What is proved

`MscHandlerProofs` has these theorems, for every frame layout, number of frame
labels, set of services and of subchannels, with `MscAssumption` (a frame has
blocks before the first MSC block, at least one CIF of at least one block, and
there is a subchannel) and `GarbageAssumption` (garbage is not a block) as the
only assumptions.

- `Invariance`: `MscSpec => []IInv`. `MscTypeOK` and `SlotAccounting` are not
  inductive. `IInv` adds that a permit that was taken is held by the DAB
  thread only in the states where it copies or announces; that the MSC thread
  beyond its test has `amount > 0`, so `Advance` cannot go below zero; that the
  MSC thread holds `locker` exactly in its loop, and the GUI only in
  `stopService`; and that the loop indices stay within one of the list.
- `TypeCorrect`, `SlotsAccounted`, `FeedStable`: consequences; the last two are
  the invariants of the threads in `backends`. `MscTypeOK`, and in the ring buffer `RingTypeOK` and
  `WithinSize`, are proved only, and not checked again in a run.
- `NoBlockOverwritten`: `UntornSpec => []NoOverwrite` (not checked in a run again:
  in the model it also follows from the refinement). `Aligned` says that the
  producer's block number is the consumer's position plus the number of
  waiting blocks, modulo `nrBlocks`. With slot accounting, a block that is
  being copied is then never at a waiting position. `Start` sets the block
  number to 0, which keeps `Aligned` only when it was 0 before: that is what
  `torn` records.
- `BufferImplementsQueue`: `UntornSpec => Buffer!Spec`. The queue of
  `BlockQueue` is the sequence of waiting slots in cyclic order from the
  consumer's position, the block handled last is the reference. `Signal` is a
  `Put`, `Release` is a `Handle` (from there on, `Pending` no longer counts the
  block, although `amount` still does), and everything else is a stutter; the
  copy in progress is invisible, because by `Aligned` it is behind the last
  waiting slot.
- `CifsAreWhole`: `UntornSpec => []WholeCif`. The invariant follows a frame label
  through the buffer (`InFrame`): neighbours in it are of one frame unless the
  second begins a frame, and so are the last block put and the frame on the air,
  and the block handled last and the one at the head. `CifSoFar` says that
  `cifVector` holds the blocks up to the current one. `InFrame` is where a stop
  between frames is needed: `Start` changes the frame on the air.
- `FeedIsContinuous`: `UntornSpec => ContinuousFeed`. In addition, one frame of the
  session is followed by the next in the buffer, and what waits from an earlier session
  ends with a frame (`Continues`); and the CIF due to a backend, which changes exactly
  when that backend is fed, follows the one it got last (`Gapless`). `stopService`
  moves backends to other places of the list, but only outside the loop, where the
  same CIF is due to all.

`AudioOutputProofs` proves of `SampleRing`, for every size, every set of amounts and of elements
(`RingAssumption`: the size is positive, amounts are naturals):

- `RingInvariance`: `RingSpec => []Inv`. `Inv` adds to `RingTypeOK` and `WithinSize`
  that what the writer has done is in the buffer behind `writeIndex`
  (`Written`), that what the reader has is still there (`Copied`), and that an
  idle thread has nothing in progress. `WithinSize` carries it: a put that
  looked at an old `readIndex` saw too little room, a get that looked at an old
  `writeIndex` too few elements, so neither is ever wrong to go on.
- `RingTypeCorrect`, `RingWithinSize`, `RingRegionsDisjoint`: consequences, proved
  only. The last needs that slots fewer than `Size` apart differ although the indices run
  to `2 * Size` (`SlotsDiffer`, `SlotShift`).
- `RingImplementsQueue`: `RingSpec => Queue!Spec`, with the elements between the
  indices as the queue. `PutAdvance` is a `Put`, `GetAdvance` a `Get`, `Flush`
  a `Flush`; `PutElement` changes the buffer only outside the queue.

And of `AudioOutput`, for all sizes that are even, all rates and any chunk
(`AudioAssumption`: the buffers hold whole pairs, a tenth of a second and a
frame are even, the card asks for pairs):

- `SoundInvariance`: `AudioSpec => []SoundInv`. `Calm` says that the stream is
  told to stop before it is waited for, and stopped when the GUI goes on;
  `Requests` that the GUI takes whole pairs; `Upstream` that what is in each
  buffer before the last is pairs; `Downstream` that so are the ring, the put in
  progress and what the card got, which needs that the room left is even.
- `SoundUsesRing`: `AudioSpec => RingSpec`: `restart` is a `Flush`
  because by `Calm` the reader is idle and by the order of the GUI's calls the
  writer is. All theorems about the ring then hold of the sound card's buffer:
  `SoundIsQueue`.
- `SoundKeepsSides`: `AudioSpec => []SidesKept`; and `BuffersKeepSides` the same of
  `MCSpec`, which `buffers` checks (`SoundSides`): there the other two systems of
  buffers stand still while the sound goes on.

`SyncProofs` proves of RDS, for every block length from 2 bits, every set of groups, and
any number of spoilt bits and imitations (`RdsAssumption`, `SegmentAssumption`, and
for the types `GroupAssumption`: a segment is one of those there are):

- `SyncTypeCorrect`, and `SyncLocked`: `Spec => []LockedOnBlocks`. That is not
  inductive, because a count of bits in order that equals the count of bits in
  the block could still end in a good block. `AtBoundary` says that at the end
  of a block taken all its bits are in order, `SlippedAtFirst` that the two
  counts are equal only after a slip at the first bit, by which the block ends
  one bit off.
- `SyncWholeGroups`: from it, by `EndOfBlock`: a block that is taken in lock
  continues the group of the blocks before.
- `DecoderOneStation`, `DecoderLocked`: of `RdsSpec`, whose steps are steps of
  `RdsSync`. With whole groups, `decode` keeps everything it stores and shows
  of the station of its PI code (`OfStation`), handler by handler.
- `DecoderTypeCorrect`: the types of both, from `BlocksTaken`: the blocks before
  the current one are set, so `decode` is never given a cleared one. It holds
  also with imitations, and is not checked in a run.

`SyncProofs` proves of `DabSync`, for every frame, window, set of losses and number of
disturbances (`DabSyncAssumption`: lengths are positive, the window is not longer
than the prefix, there are FIC blocks and others):

- `DabTypeCorrect`: `DabSpec => []DabTypeOK`, proved only.
- `DabInPlace`: `DabSpec => []BlocksInPlace`, with the types inductive as it
  stands. `FoundInPlace`: after `findIndex` the sum of place, index and error is
  that of block 0 (`FrameOn`: remainders may be added before or after); each
  block moves place and block number alike, and after the last one a whole frame
  is gone; `MovedInPlace`: a loss moves place and `shift` alike.

`ReceiverThreadsProofs` proves, for every device, set of channels and of FM
frequencies, and size of the buffer (`ThreadsAssumption` only), of `PatientSpec`:

- `Invariance`: `PatientSpec => []IInv`. Every handler is a fixed list of calls
  (`CloseDab`, `CloseFm`, `ToDab`, `ToFm`, `Retune`), so the GUI thread is
  always at one place of one list, and `todo` is the rest of it. `Place` says at
  which place, and for each what holds there: which thread still runs, which
  was told to stop, whether the worker of the device is asked for, and that
  outside the calls that start a thread both are what `mode` says. `Always` is
  what needs no place: what each device may leave in the buffer, and that a
  promise of `Samples ()` is kept. `Fresh` says that what is in the buffer
  beyond `left` was received on the frequency of the system that is started. Neither `SingleReader` nor `OwnThreads` is inductive: what makes the
  second thread impossible is that the wait for the first one is earlier in the
  same list. That the user waits is used exactly where a thread that was started
  has not set its own flag; `threads_hasty` shows that it cannot be left out.
- `TypeCorrect`, `OneReader`, `PromiseKept`, `ThreadsOfDecoder`, `StaleBounded`:
  all four invariants of `threads_patient`, and `TypeOK`, which no run checks
  again.

`GuiProofs` proves of `ServiceControl`, for every set of channels, services, subchannels and
addresses and every bound on the signals (`ServiceAssumption`: `None` is no
service and no place):

- `ServiceInvariant`: `Spec => []IInv`. The calls still to be made are a sequence of
  any length, because a handler may begin in the event loop of a warning that
  another has opened. `Shape` says what keeps that manageable: a call for a service
  is the last one, and what waits behind another call is one of four (`Late`).
  `Ordered` says that a service is on only between the handlers, or when the next
  call stops it; `Timer` that the timer runs only while none is on and no call is for a
  service, so that a preset is never started in the middle of a handler; `Decoded`
  that until the configuration changes the place found when a service was started
  is found again when it is stopped, and that no warning is open; `Lists` that a
  service with audio is shown or its signal waits, whatever is left in the queue
  of the channel before.
- `ServiceTypeCorrect` (which no run checks), `PresetAlwaysFits`, `StartsAfterStop`,
  `CurrentIsDecoded`, `ListFollowsChannel`: all the invariants of `gui`. For the first,
  `Kept` says that while DAB is off a name that is not old stands beside the channel
  it was played on. `PresetAlwaysFits` says nothing of an old name; what happens with
  one is `service_remembered`.

`FibDecoderProofs` proves, for every set of services, components and labels and
tables of any size (`FibAssumption`: a label names one service or component and
the other way round, an SCId names one component with packets, and the table has
room for all labels on air):

- `FibTypeCorrect`, `ServicesFindable`, `LabelsStayUnique`, `SubChannelsKnown`,
  `ListStaysReported`, and `AnswersFit` step by step: all that `fib_tables` checks,
  from one inductive invariant, `FibInv`. `Rows` says of the table of services that
  every entry in use, or one of the same service, stands before the first hole, that
  it has a label on air with the number of that label or 0, and no other has it.
  The first part is stronger than `Findable` (`FoundBeforeHole`), and is what the
  clean-up keeps and `createService`, which fills the first hole, extends;
  with the second it also makes FIG1/5, which looks for the SId only, sure that
  the label is new. `BaseOK` says that a component in a table is one on air, with the
  subchannel it has there, if any. `Complete` is for the time before a change
  only: entries never used are not marked as shown, and every service has an entry
  under its own label, so that FIG1/1 changes nothing when it comes again. A full table has
  every label (`FullTable`, by the pigeonhole principle), so `createService` drops
  none.
- `CleanupIsLoop`: see above; by cases on one round of the loop, with no induction.

`GuiProofs` proves of `Favourites`, for every band, step, channel, base and width of a word
that has room for the band (`FavouritesAssumption`):

- `FavouritesTypeCorrect`, `FmInBand`, `PresetsAgree`: together they are inductive,
  with `PadInFm`: the keypad is shown in FM only, and so cannot tune DAB out of its
  channels. They are proved only.
- `NothingIsForgotten`: `NothingForgotten`, the property of `gui`, step by step from
  them: a change of system writes what is in memory, which by `PresetsAgree` has
  all the file has.

`BackendsProofs` and, of the PAD, `PadProofs` prove, for every carousel, set of objects and labels, number of parts
and units and any number of losses (the assumptions of the modules of the backends
only: a label has a segment, a segment a character, a group a unit; by
`NoneAssumption` the null pointer is none of the things that may be in its place; and by
`ShortLabelAssumption` of `ShortLabels`, which `LabelsShown` is false without and only `PadProofs` uses, the labels in short X-PAD have
two segments and each two characters, see the limits in section 2). Every line has an invariant of its own, since no step changes the line.

- `GroupsFound`: `Spec => []GroupsArrive`. `InStep` says how far `dataProcessor` is from
  the broadcaster after fewer than four good packets: a wrong index makes 0 the one
  that is expected, and every good packet brings the next index closer to it. The
  types of the table of objects and of the directory are needed on the way, through
  `addBodySegment`, `analyse_theDirectory` and `handleComplete`.
- `BitsDeconvolved`: `Spec => []BitsInPlace`. `CifOK`: the sixteen rows of the
  de-interleaver hold, of each class of bits, the CIF that is as late as the class is
  delayed, so that they are of one time after fifteen CIFs without a loss. `FicLine`: the
  FIC bits taken so far are those of the blocks of this frame, in their order (`Aligned`),
  however many blocks were lost in the frames before. `FragmentFits` needs no
  invariant, but all 64 rows of the table of UEP and all EEP profiles and sizes
  (`ShortFits`, `LongFits`). Of the 64 rows it has 63 leave their padding and the
  misprinted one 404 bits: it does not say that the table is right.
- `FramesDecoded`: `Spec => []FramesWhole`. `Mp4OK`: the ring of `frameBytes`, read from
  the slot that is filled next, is what came last (`ReadsAs`). `Mp2OK`: between two
  frames `mp2Processor` is searching, or in sync with a number of units (`Settled`), and `Waits`
  is how many frames it is from being in step; it is at most 4 after any disturbance,
  and an undisturbed frame makes it smaller (`CalmFrame24`). At 48 kHz it is never out of step.

- `ObjectsHandedWhole`: `Spec => []ObjectsWhole`. For packets it is the type of what
  `motHandler` hands over (`WholeObject`). For the PAD it needs to know that no group is
  ever put together from units of two, although `padHandler` tests nothing but the length and
  the CRC over all (`PadInv`, inductive by `PadInvariance`). What is in
  `msc_dataGroupBuffer` is one of three (`BufferOK`): units that no group is made of, whatever may still come behind them
  (`Mixed`); the begin of the group on the air, when all of it came; or the begin of a
  group the broadcaster is past (`Behind`), and then the next unit that comes is
  not the one that is missing, and the buffer becomes a mixture. That a
  group behind is not taken for the one on the air is what the continuity index is
  for: a lost PAD costs at most two groups, so the index must count `2 * MaxLosses` of
  them, and `h`, twice the losses so far, bounds the distance. `Follow` counts
  the subfields that came in the same order in which `WithCI` and `WithoutCI` handle them, so
  that the slide of the broadcaster and that of the handler grow together, through a PAD
  of two moves, one that is cut short by an application that is not handled, and one
  without CI that goes on behind the end of its group.
- `LabelsShownWhole`: `Spec => []LabelsShown`. Three things change what is in the text: the
  subfields that come, those that do not, and the static locals of `dynamicLabel`,
  which outlive the handler. In variable X-PAD (`LabelInv`) the text is all that the
  label has before the character that is sent next, and within a segment the statics
  count what is to come of it (`TextAt`), whenever every part came. That a text that is
  not the label's is not shown needs more, `Tracks`: that all came so far, and that
  between segments `moreXPad` is not set; a command within a segment would break it,
  and a loss does, until the next label came whole. `TextsMore` and `TextWhole` say that
  the texts shown grow by one label, and that the segments joined are the label
  (`FlattenSeq`, whose function exists by `FlatMade`). A PAD of two moves shows up to two
  labels, so both are proved of a move (`LabelMoveTold`; `MoveUntold` when it is lost) and put
  together in the order of `Follow`. In short X-PAD (`ShortTextInv`) the text has whole
  segments only, `shortpadData` the begin of one, and the flags are still those of
  the PAD in which it began (`ShortTextAt`); between labels the text must be empty
  (`ShortTracks`), since the begin of the next label shows what it finds.
- `BackendsTypeCorrect`: `Spec => []TypeOK`, from the invariants of all lines. A group in the
  buffer is always shorter than announced (`ElementOK`); the label in short X-PAD
  is always at one of its characters (`ShortAt`).

A fold over the frames, blocks or units of a call (`FoldLeft`) is defined with a function on sets
of indices. `FoldExists` shows that there is one, `UpTo` that it goes through the
sequence in order, and `AllNumbers` is induction over a set of numbers (from
`WFMin`), since the library's induction theorem takes an operator.

Only model-checked: the liveness properties (outside this prover's reach, with
everything under fairness), and of `Backends` one invariant, `Corrected`, for which one
would have to prove the algebra of the Reed-Solomon code.

## 5. The plan

Done: the core (`MscHandler` with its abstract queue and proofs), the modules of
the GUI thread with their proofs, the ring buffer with its proofs, the tables of the
FIB decoder with their proofs, RDS with its proofs, the sound with its proofs, DAB synchronisation
with its proofs, the four devices, the proofs about both reading
threads, the backends with PAD, MOT and packets, and the error protection, with the proofs
about packets, frames, slides, labels and the places of bits.

Left out of `FibDecoder` stay FIG0/5, 9, 10, 13, 14, 17, 18, 19 and 21. Each
stores an attribute in an entry that the modelled searches find, or the time, or sends
an announcement no slot is connected to. No guard of a modelled action reads what they
store, and nothing behind the decoder acts on it (`data-processor.cpp:39` and `:42`
copy two of them into fields that are not used), so there is nothing to state of them.

Not to be modelled: filters, FFT, demodulation and the correlations themselves
(floating point), the MP2 and AAC decoders, tables of names, widgets and icons.
