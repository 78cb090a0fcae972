----------------------------- MODULE AudioOutput -----------------------------
(***************************************************************************)
(* The way of the sound.  The decoders (the backend of a DAB service in    *)
(* its thread, fmDecoder in its own) put samples into dab_audioBuffer and  *)
(* fm_audioBuffer and signal that to the GUI.  The GUI brings them to one  *)
(* rate, in pairs, in audioSamples, filters them in chunks and puts them   *)
(* pair by pair into _O_Buffer, which is the ring buffer of SampleRing;    *)
(* the callback of the sound card takes them there.  The GUI also stops,   *)
(* flushes and starts the stream when the system or the device is changed. *)
(*                                                                         *)
(* An element of a buffer is the side it is meant for.  The GUI handles    *)
(* one event after the other, so running (the GUI's) is system = "dab".    *)
(***************************************************************************)
EXTENDS SampleRing

CONSTANTS
  Left, Right,   \* the two sides
  Rate,          \* the rates decoders deliver, in units of 1000
  Tenth, Eighth, \* a tenth and an eighth of a second, for each rate, in samples
  InputLimit,    \* the pairs a converter collects, for each rate
  SoundFrame,    \* the samples of one channel in a frame
  Chunk,         \* the pairs filtered at once (512)
  CardFrames,    \* the pairs the card asks for (framesPerBuffer)
  Room,          \* the room of dab_audioBuffer, fm_audioBuffer and audioSamples
  FmRoom,        \* blocks fmProcessor can be ahead of fmDecoder
  MaxSignals     \* a bound of the model on signals that wait

ASSUME AudioAssumption ==
  /\ {2, 2 * CardFrames} \subseteq Amount
  /\ {Left, Right} \subseteq Element /\ Left # Right
  /\ {Room, Chunk, CardFrames, SoundFrame, FmRoom, MaxSignals} \subseteq Nat \ {0}
  /\ Size % 2 = 0 /\ Room % 2 = 0 /\ SoundFrame % 2 = 0
  /\ Rate \subseteq Nat \ {0}
  /\ \A r \in Rate : /\ Tenth[r] \in Nat \ {0} /\ Tenth[r] % 2 = 0
                     /\ Eighth[r] \in Nat /\ InputLimit[r] \in Nat \ {0}

VARIABLES
  system,        \* the system that is on, and whose decoder runs
  muting,
  dabSound,      \* dab_audioBuffer: samples
  fmSound,       \* fm_audioBuffer: pairs
  fmBlocks,      \* sampleBuffer of fmDecoder: blocks not yet decoded
  signals,       \* newAudio and audiosamplesAvailable (fm), on their way
  converter,     \* pairs collected by the converter of each rate
  audioSamples,  \* pairs
  chunk,         \* what audiosamplesAvailable has still to put out
  mixing,        \* what the GUI does
  request,       \* the amount and the rate dabAudio was called with
  stream,        \* the stream of PortAudio
  callbackReturn \* paCallbackReturn

decoders == <<dabSound, fmSound, fmBlocks, signals>>
mixer    == <<converter, audioSamples, chunk>>
card     == <<stream, callbackReturn>>
audioVars == <<ringVars, system, muting, decoders, mixer, mixing, request, card>>

NoRequest == [amount |-> 0, rate |-> 0]

\* The constructor has started the stream; then the system of last time begins.
AudioInit ==
  /\ RingInit
  /\ system = "none" /\ muting = FALSE
  /\ dabSound = <<>> /\ fmSound = <<>> /\ fmBlocks = 0 /\ signals = <<>>
  /\ converter = [r \in Rate |-> <<>>]
  /\ audioSamples = <<>> /\ chunk = <<>>
  /\ mixing = "idle" /\ request = NoRequest
  /\ stream = "active" /\ callbackReturn = "continue"

\* putDataIntoBuffer as one step, on a buffer with room for Room elements.
Put(buf, s) == buf \o SubSeq(s, 1, AtMost(Len(s), Room - Len(buf)))

Rest(s, n) == SubSeq(s, n + 1, Len(s))

Pairs(n) == [i \in 1 .. n |-> <<Left, Right>>]

\* The samples of n pairs, side by side.
Sides(n) == [i \in 1 .. 2 * n |-> IF i % 2 = 1 THEN Left ELSE Right]
-----------------------------------------------------------------------------
(* The decoders.                                                           *)

SignalGui(from, amount, rate) ==
  signals' = Append(signals, [from |-> from, amount |-> amount, rate |-> rate])

\* A frame of sound: AAC in stereo; AAC in mono, of which every sample is
\* doubled, but only as many are put as there were before; MPEG, always in
\* stereo.  The GUI is told when there is enough for an eighth of a second.
DabDecoded(rate, sound) ==
  LET n == IF sound = "mono" THEN SoundFrame \div 2 ELSE SoundFrame
      amount == IF sound = "aac" THEN Tenth[rate] ELSE 2 * n
  IN  /\ system = "dab" /\ Len(signals) < MaxSignals
      /\ dabSound' = Put(dabSound, Sides(n))
      /\ IF Len(dabSound') > Eighth[rate]
         THEN SignalGui("dab", amount, rate) ELSE UNCHANGED signals
      /\ UNCHANGED <<ringVars, system, muting, fmSound, fmBlocks, mixer, mixing, request, card>>

\* fmProcessor::run hands a block to fmDecoder, which runs until the program ends.
FmProcessed ==
  /\ system = "fm" /\ fmBlocks < FmRoom
  /\ fmBlocks' = fmBlocks + 1
  /\ UNCHANGED <<ringVars, system, muting, dabSound, fmSound, signals, mixer, mixing, request, card>>

FmDecoded ==
  /\ fmBlocks > 0 /\ Len(signals) < MaxSignals
  /\ fmBlocks' = fmBlocks - 1
  /\ fmSound' = Put(fmSound, Pairs(4 * Chunk))
  /\ SignalGui("fm", 0, 0)
  /\ UNCHANGED <<ringVars, system, muting, dabSound, mixer, mixing, request, card>>
-----------------------------------------------------------------------------
(* The GUI handles a signal.                                               *)

TakeSignal ==
  /\ mixing = "idle" /\ signals # <<>>
  /\ LET s == Head(signals)
     IN  \/ s.from = "fm" /\ mixing' = "fmAudio" /\ UNCHANGED request
         \/ /\ s.from = "dab" /\ system = "dab"
            /\ mixing' = "dabAudio"
            /\ request' = [amount |-> s.amount, rate |-> s.rate]
         \/ s.from = "dab" /\ system # "dab" /\ UNCHANGED <<mixing, request>>
  /\ signals' = Tail(signals)
  /\ UNCHANGED <<ringVars, system, muting, dabSound, fmSound, fmBlocks, mixer, card>>

\* The pairs of a sequence of samples.
Paired(samples) ==
  [i \in 1 .. Len(samples) \div 2 |-> <<samples[2 * i - 1], samples[2 * i]>>]

\* newConverter::convert: of each InputLimit pairs, as many as last as long at 48.
Converted(pairs, rate) ==
  LET whole == (Len(pairs) \div InputLimit[rate]) * InputLimit[rate]
  IN  [i \in 1 .. (whole * 48) \div rate |-> pairs[1 + ((i - 1) * rate) \div 48]]

\* audioBase::audioOut
AudioOut(samples, rate) ==
  IF rate = 48
  THEN /\ audioSamples' = Put(audioSamples, Paired(samples))
       /\ UNCHANGED converter
  ELSE LET pairs == converter[rate] \o Paired(samples)
       IN  /\ audioSamples' = Put(audioSamples, Converted(pairs, rate))
           /\ converter' = [converter EXCEPT ![rate] =
                 Rest(pairs, Len(pairs) - (Len(pairs) % InputLimit[rate]))]

\* duoReceiver::dabAudio: the loop, and the call at its end.
DabAudio ==
  /\ mixing = "dabAudio"
  /\ \/ /\ Len(dabSound) > request.amount
        /\ AudioOut(SubSeq(dabSound, 1, request.amount), request.rate)
        /\ dabSound' = Rest(dabSound, request.amount)
        /\ UNCHANGED <<mixing, request>>
     \/ /\ Len(dabSound) <= request.amount
        /\ mixing' = "dabSamples" /\ request' = NoRequest
        /\ UNCHANGED <<dabSound, converter, audioSamples>>
  /\ UNCHANGED <<ringVars, system, muting, fmSound, fmBlocks, signals, chunk, card>>

\* duoReceiver::fmAudio: one chunk after the other, each put out at once.
FmAudio ==
  /\ mixing = "fmAudio"
  /\ \/ /\ Len(fmSound) > Chunk
        /\ audioSamples' = Put(audioSamples, SubSeq(fmSound, 1, Chunk))
        /\ fmSound' = Rest(fmSound, Chunk)
        /\ mixing' = "fmSamples"
     \/ /\ Len(fmSound) <= Chunk
        /\ mixing' = "idle" /\ UNCHANGED <<fmSound, audioSamples>>
  /\ UNCHANGED <<ringVars, system, muting, dabSound, fmBlocks, signals, converter, chunk, request, card>>

Putting == mixing \in {"dabSamples", "fmSamples"}

\* duoReceiver::audiosamplesAvailable: takes a chunk, or is done.
AudiosamplesAvailable ==
  /\ Putting /\ chunk = <<>> /\ ~writer.busy
  /\ \/ /\ Len(audioSamples) > Chunk
        /\ chunk' = IF muting THEN <<>> ELSE SubSeq(audioSamples, 1, Chunk)
        /\ audioSamples' = Rest(audioSamples, Chunk)
        /\ UNCHANGED mixing
     \/ /\ Len(audioSamples) <= Chunk
        /\ mixing' = IF mixing = "fmSamples" THEN "fmAudio" ELSE "idle"
        /\ UNCHANGED <<chunk, audioSamples>>
  /\ UNCHANGED <<ringVars, system, muting, decoders, converter, request, card>>

\* audioSink::audioOutput begins to put a pair; the put goes on as in SampleRing.
audioOutput ==
  /\ Putting /\ chunk # <<>>
  /\ PutBegin(Head(chunk))
  /\ chunk' = Tail(chunk)
  /\ UNCHANGED <<system, muting, decoders, converter, audioSamples, mixing, request, card>>

AudioPut ==
  /\ PutElement \/ PutAdvance
  /\ UNCHANGED <<system, muting, decoders, mixer, mixing, request, card>>
-----------------------------------------------------------------------------
(* The sound card.                                                         *)

\* Mutant: as many samples as there are to be pairs.
CallbackHalf ==
  /\ stream = "active" /\ callbackReturn = "continue"
  /\ GetBegin(CardFrames)
  /\ UNCHANGED <<system, muting, decoders, mixer, mixing, request, card>>

\* paCallback_o; what is missing is filled with zeros, which nobody keeps.  With
\* paAbort it takes nothing, and the stream does not call it again.
Callback ==
  /\ stream = "active" /\ callbackReturn = "continue"
  /\ GetBegin(2 * CardFrames)
  /\ UNCHANGED <<system, muting, decoders, mixer, mixing, request, card>>

CallbackGet ==
  /\ GetElement \/ GetAdvance
  /\ UNCHANGED <<system, muting, decoders, mixer, mixing, request, card>>
-----------------------------------------------------------------------------
(* The GUI changes the system or the device.                               *)

\* stop, and the same in selectDevice: the stream is told, if it is active.
Stop ==
  callbackReturn' = IF stream = "active" THEN "abort" ELSE callbackReturn

\* handle_muteButton
Mute ==
  /\ mixing = "idle"
  /\ muting' = ~muting
  /\ UNCHANGED <<ringVars, system, decoders, mixer, mixing, request, card>>

\* set_dabSystem: stop_fmSystem, if FM is on, stops the sound.
SetDab ==
  /\ mixing = "idle" /\ system # "dab"
  /\ mixing' = "toDab"
  /\ IF system = "fm" THEN Stop ELSE UNCHANGED callbackReturn
  /\ UNCHANGED <<ringVars, system, muting, decoders, mixer, request, stream>>

\* set_fmSystem, also when FM is on already, and set_streamSelector for a device
\* that is valid (for another one nothing is done).
SetFmOrDevice ==
  /\ mixing = "idle"
  /\ mixing' = "toFm" \/ (system # "none" /\ mixing' = "selectDevice")
  /\ Stop
  /\ UNCHANGED <<ringVars, system, muting, decoders, mixer, request, stream>>

\* Pa_StopStream and Pa_AbortStream, and the wait: a callback in progress ends.
StreamStops ==
  /\ stream = "active" /\ callbackReturn = "abort" /\ ~reader.busy
  /\ stream' = "stopped"
  /\ UNCHANGED <<ringVars, system, muting, decoders, mixer, mixing, request, callbackReturn>>

\* Pa_StartStream, which may fail; nobody is told.
StartStream ==
  /\ callbackReturn' = "continue"
  /\ stream' \in {"active", "stopped"}

\* restart: nothing when the stream was never stopped.
Restart ==
  IF stream = "active"
  THEN UNCHANGED <<ringVars, card>>
  ELSE /\ writeIndex' = 0 /\ readIndex' = 0
       /\ UNCHANGED <<buffer, writer, reader, got>>
       /\ StartStream

Changed ==
  /\ ~(stream = "active" /\ callbackReturn = "abort")
  /\ \/ mixing = "toDab" /\ system' = "dab" /\ Restart
     \/ mixing = "toFm" /\ system' = "fm" /\ Restart
     \/ mixing = "selectDevice" /\ StartStream /\ UNCHANGED <<ringVars, system>>
  /\ mixing' = "idle"
  /\ UNCHANGED <<muting, decoders, mixer, request>>

Decoders ==
  \/ \E rate \in Rate, sound \in {"aac", "mono", "mp2"} : DabDecoded(rate, sound)
  \/ FmProcessed \/ FmDecoded

Gui ==
  \/ TakeSignal \/ DabAudio \/ FmAudio \/ AudiosamplesAvailable
  \/ audioOutput \/ AudioPut
  \/ Mute \/ SetDab \/ SetFmOrDevice \/ StreamStops \/ Changed

Card == Callback \/ CallbackGet

AudioNext == Decoders \/ Gui \/ Card

AudioSpec == AudioInit /\ [][AudioNext]_audioVars
-----------------------------------------------------------------------------
(* Properties.                                                             *)

\* What the card is given begins with the left side and keeps the sides apart:
\* no buffer that is full, empty or flushed on the way ever splits a pair.
SidesKept == got = Sides(Len(got) \div 2)
=============================================================================
