--------------------------- MODULE DeviceHandlers ---------------------------
(***************************************************************************)
(* The four handlers of devices behind theDevice: rtlsdrHandler,           *)
(* airspyHandler, sdrplayHandler and plutoHandler, of which duoReceiver    *)
(* has one.  All four fill a ring buffer from a worker, a thread of their  *)
(* own or of the library of the device; they differ in when a flag is set, *)
(* what is waited for, what a failure leaves, and whether the buffer is    *)
(* flushed.  The flag of rtlsdrHandler is workerHandle, that of the others *)
(* running.                                                                *)
(*                                                                         *)
(* A block is as much as one read takes, and named by the frequencies it   *)
(* was received on.  Tuning a device that runs does not fail.              *)
(***************************************************************************)
EXTENDS Naturals, Sequences

CONSTANT BufferSize     \* room in the buffer of the device, in blocks

VARIABLES
  kind,          \* which device there is
  opened,        \* workerHandle # NULL, running
  worker,        \* the thread that calls back
  vfo,           \* the frequency the device is tuned to
  buffer,        \* the blocks in the device's buffer
  carried,       \* convBuffer: what begins the next block
  left           \* ghost: so many of the next blocks may be of before the start

deviceVars == <<kind, opened, worker, vfo, buffer, carried, left>>

Kind        == {"rtlsdr", "airspy", "sdrplay", "pluto"}
WorkerState == {"off", "starting", "delivering", "ending"}

\* The handlers that convert the rate block by block, and carry the rest.
Converts == kind \in {"airspy", "pluto"}

\* The constructor of duoReceiver takes the first device it finds.
DeviceInit(frequencies) ==
  /\ kind \in Kind
  /\ opened = FALSE
  /\ worker = "off"
  /\ vfo \in frequencies
  /\ buffer = <<>>
  /\ carried = {}
  /\ left = 0
-----------------------------------------------------------------------------
(* restartReader, for a device that is not running.                        *)

\* Mutant: no flush.
rtlsdrRestartNoFlush(f) ==
  /\ kind = "rtlsdr"
  /\ opened' = TRUE /\ worker' = "starting" /\ vfo' = f
  /\ left' = 0
  /\ UNCHANGED <<kind, buffer, carried>>

\* A device that cannot be reset stays as it is, but for the buffer.
rtlsdrRestart(f) ==
  /\ kind = "rtlsdr"
  /\ buffer' = <<>> /\ left' = 0
  /\ \/ opened' = TRUE /\ worker' = "starting" /\ vfo' = f
     \/ UNCHANGED <<opened, worker, vfo>>
  /\ UNCHANGED <<kind, carried>>

\* convIndex is not reset.
airspyRestart(f) ==
  /\ kind = "airspy"
  /\ buffer' = <<>> /\ left' = IF carried = {} THEN 0 ELSE 1
  /\ vfo' = f
  /\ \/ opened' = TRUE /\ worker' = "delivering"
     \/ UNCHANGED <<opened, worker>>
  /\ UNCHANGED <<kind, carried>>

\* running is set whether there is a stream or not; nothing is flushed.
sdrplayRestart(f) ==
  /\ kind = "sdrplay"
  /\ vfo' = f
  /\ opened' = TRUE
  /\ worker' \in {"delivering", "off"}
  /\ left' = Len(buffer)
  /\ UNCHANGED <<kind, buffer, carried>>

\* The thread that is started sets running; nothing is flushed.
plutoRestart(f) ==
  /\ kind = "pluto"
  /\ vfo' = f
  /\ \/ worker' = IF worker = "off" THEN "starting" ELSE worker
     \/ UNCHANGED worker
  /\ left' = Len(buffer) + 1
  /\ UNCHANGED <<kind, opened, buffer, carried>>

\* The result is false after a failure; no caller looks at it.
DeviceRestart(f) ==
  \/ opened /\ UNCHANGED deviceVars
  \/ /\ ~opened
     /\ rtlsdrRestart(f) \/ airspyRestart(f) \/ sdrplayRestart(f) \/ plutoRestart(f)

setVFOFrequency(f) ==
  /\ vfo' = f
  /\ UNCHANGED <<kind, opened, worker, buffer, carried, left>>
-----------------------------------------------------------------------------
(* stopReader, for a device that is running: a request, and a wait for the *)
(* worker.                                                                 *)

\* rtlsdr_cancel_async has no effect on a worker that is not in
\* rtlsdr_read_async yet.
rtlsdrStop ==
  /\ kind = "rtlsdr"
  /\ worker' = IF worker = "delivering" THEN "ending" ELSE worker
  /\ UNCHANGED opened

\* airspy_stop_rx and mir_sdr_StreamUninit return when the library's thread is gone.
libraryStop ==
  /\ kind \in {"airspy", "sdrplay"}
  /\ opened' = FALSE /\ worker' = "off"

plutoStop ==
  /\ kind = "pluto"
  /\ opened' = FALSE /\ worker' = "ending"

DeviceStop ==
  /\ opened
  /\ rtlsdrStop \/ libraryStop \/ plutoStop
  /\ UNCHANGED <<kind, vfo, buffer, carried, left>>

DeviceWait ==
  /\ worker = "off"
  /\ opened' = FALSE
  /\ UNCHANGED <<kind, worker, vfo, buffer, carried, left>>
-----------------------------------------------------------------------------
(* The worker.                                                             *)

\* dll_driver::run is in rtlsdr_read_async; plutoHandler::run sets running.
WorkerBegin ==
  /\ worker = "starting"
  /\ worker' = "delivering" /\ opened' = TRUE
  /\ UNCHANGED <<kind, vfo, buffer, carried, left>>

WorkerEnd ==
  /\ worker = "ending"
  /\ worker' = "off"
  /\ UNCHANGED <<kind, opened, vfo, buffer, carried, left>>

\* rtlsdr_read_async returns when the device is gone.
WorkerLost ==
  /\ kind = "rtlsdr" /\ worker = "delivering"
  /\ worker' = "off"
  /\ UNCHANGED <<kind, opened, vfo, buffer, carried, left>>

Delivers == worker \in {"delivering", "ending"}

Received == IF Converts THEN carried \union {vfo} ELSE {vfo}

Carried == IF Converts THEN {vfo} ELSE {}

\* Samples that make a block; there may be no room for it.
DeviceCallback ==
  /\ Delivers
  /\ carried' = Carried
  /\ IF Len(buffer) < BufferSize
     THEN buffer' = Append(buffer, Received) /\ UNCHANGED left
     ELSE left' = (IF left < Len(buffer) THEN left ELSE Len(buffer)) /\ UNCHANGED buffer
  /\ UNCHANGED <<kind, opened, worker, vfo>>

\* Samples that do not yet make a block.
DevicePart ==
  /\ Delivers /\ Converts
  /\ carried' = Received
  /\ UNCHANGED <<kind, opened, worker, vfo, buffer, left>>
-----------------------------------------------------------------------------
(* The readers.                                                            *)

\* Samples () >= n, whether the device runs or not.
HasSamples == buffer # <<>>

\* getSamples takes what is there, at most what was asked for; nothing when the
\* thread of a pluto does not run.
getSamples ==
  /\ IF buffer = <<>> \/ (kind = "pluto" /\ worker = "off")
     THEN UNCHANGED <<buffer, left>>
     ELSE buffer' = Tail(buffer) /\ left' = IF left = 0 THEN 0 ELSE left - 1
  /\ UNCHANGED <<kind, opened, worker, vfo, carried>>
=============================================================================
