----------------------- MODULE ReceiverThreadsProofs ------------------------
(***************************************************************************)
(* Proofs about ReceiverThreads, for every set of channels and frequencies *)
(* and every room in the buffer.                                           *)
(***************************************************************************)
EXTENDS ReceiverThreads, SequenceTheorems, TLAPS

-----------------------------------------------------------------------------
(* The handlers, written out.                                              *)

CallName == {"stopReader", "reader.wait", "restartReader.dab", "restartReader.fm",
             "save.frequency", "dab.start", "dab.setRunning", "dab.wait",
             "fm.start", "fm.stop", "fm.wait",
             "decoder.dab", "decoder.fm", "decoder.none"}

ToDab == <<"stopReader", "reader.wait", "save.frequency", "fm.stop", "fm.wait",
           "decoder.none", "stopReader", "reader.wait", "restartReader.dab",
           "dab.start", "decoder.dab">>

ToFm == <<"stopReader", "reader.wait", "dab.setRunning", "dab.wait",
          "dab.setRunning", "dab.wait", "stopReader", "reader.wait",
          "decoder.none", "restartReader.fm", "fm.start", "decoder.fm">>

CloseFm == <<"stopReader", "reader.wait", "save.frequency", "fm.stop", "fm.wait",
             "decoder.none">>

CloseDab == <<"stopReader", "reader.wait", "dab.setRunning", "dab.wait",
              "dab.setRunning", "dab.wait", "stopReader", "reader.wait",
              "decoder.none">>

Retune == <<"dab.setRunning", "dab.wait", "stopReader", "reader.wait",
            "stopReader", "reader.wait", "restartReader.dab", "dab.start">>

\* calls are the calls of plan from i up to k.
Part(calls, plan, i, k) ==
  /\ calls \in Seq(CallName)
  /\ Len(calls) = k - i
  /\ \A j \in 1 .. k - i : calls[j] = plan[i + j - 1]

\* What is left of plan when its call i comes next.
At(calls, plan, i) == Part(calls, plan, i, Len(plan) + 1)
-----------------------------------------------------------------------------
(* What holds of the threads and of the device while a handler runs.       *)

DabRuns  == dab \in {"testing", "fetching"} /\ reading /\ fm = "off"
DabTold  == dab # "starting" /\ ~reading /\ fm = "off"
DabAlive == (dab = "starting" \/ DabRuns) /\ fm = "off"
FmRuns   == fm \in {"testing", "fetching"} /\ running /\ dab = "off"
FmTold   == fm # "starting" /\ ~running /\ dab = "off"
FmAlive  == (fm = "starting" \/ FmRuns) /\ dab = "off"
BothOff  == dab = "off" /\ fm = "off"

\* The device as a handler finds it, after the request to stop, and after the wait.
Going == worker # "starting" /\ (~opened => worker = "off")
Asked == worker \in {"ending", "off"}
Quiet == ~opened /\ worker = "off"

\* Everything beyond the blocks left was received on one of the frequencies.
Fresh(frequencies) ==
  /\ \A i \in 1 .. Len(buffer) : i > left => buffer[i] \subseteq frequencies
  /\ Converts => left > Len(buffer) \/ carried \subseteq frequencies

OfFm == FmFrequency \union {fmFrequency}

StartedDab ==
  /\ Fresh({vfo})
  /\ vfo = channel \/ (worker = "off" /\ buffer = <<>>)
  /\ ~opened => worker \in {"off", "starting"}

StartedFm ==
  /\ Fresh(OfFm)
  /\ worker # "off" => vfo \in OfFm
  /\ ~opened => worker \in {"off", "starting"}
  /\ ~opened /\ kind \in {"rtlsdr", "airspy"} => buffer = <<>>

\* Whatever the handlers do.
Always ==
  /\ kind = "rtlsdr" => left = 0
  /\ kind = "airspy" => left \in {0, 1}
  /\ \A i \in 1 .. Len(buffer) : buffer[i] # {}
  /\ PromisedSamples
-----------------------------------------------------------------------------
(* Where the GUI thread is.                                                *)

IdleDab == todo = <<>> /\ ~closed /\ decoder = "dab" /\ DabAlive /\ StartedDab
IdleFm  == todo = <<>> /\ ~closed /\ decoder = "fm" /\ FmAlive /\ StartedFm
Ended   == todo = <<>> /\ closed /\ decoder = "none" /\ BothOff /\ Quiet

LeavingDabAt(i) ==
  /\ decoder = "dab"
  /\ i \in 1 .. 3 => DabRuns
  /\ i = 4 => DabTold
  /\ i \in 5 .. 9 => BothOff
  /\ i = 1 => Going
  /\ i = 2 => Asked
  /\ i \in 3 .. 9 => Quiet

FromDab == IF closed THEN CloseDab ELSE ToFm

LeavingDab == \E i \in 1 .. 9 : At(todo, FromDab, i) /\ LeavingDabAt(i)

LeavingFmAt(i) ==
  /\ decoder = "fm"
  /\ i \in 1 .. 4 => FmRuns
  /\ i = 5 => FmTold
  /\ i = 6 => BothOff
  /\ i = 1 => Going
  /\ i = 2 => Asked
  /\ i \in 3 .. 6 => Quiet

FromFm == IF closed THEN CloseFm ELSE ToDab

LeavingFm == \E i \in 1 .. 6 : At(todo, FromFm, i) /\ LeavingFmAt(i)

StartingDabAt(i) ==
  /\ decoder = "none"
  /\ i \in 7 .. 10 => BothOff
  /\ i = 11 => DabAlive
  /\ i \in 7 .. 9 => Quiet
  /\ i \in 10 .. 11 => StartedDab

StartingDab ==
  \E i \in 7 .. 11 : At(todo, ToDab, i) /\ ~closed /\ StartingDabAt(i)

\* Also when FM is on already.
StartingFmAt(i) ==
  /\ \/ decoder = "none" /\ (i \in 10 .. 11 => BothOff) /\ (i = 10 => Quiet)
     \/ decoder = "fm" /\ FmAlive /\ StartedFm
  /\ i \in 11 .. 12 => StartedFm
  /\ i = 12 => FmAlive

StartingFm ==
  \E i \in 10 .. 12 : At(todo, ToFm, i) /\ ~closed /\ StartingFmAt(i)

RetuningAt(i) ==
  /\ decoder = "dab"
  /\ i = 1 => DabRuns
  /\ i = 2 => DabTold
  /\ i \in 3 .. 8 => BothOff
  /\ i \in 1 .. 3 => Going
  /\ i = 4 => Asked
  /\ i \in 5 .. 7 => Quiet
  /\ i = 8 => StartedDab

Retuning ==
  \E i \in 1 .. 8 : At(todo, Retune, i) /\ ~closed /\ RetuningAt(i)

Place ==
  \/ IdleDab \/ IdleFm \/ Ended
  \/ LeavingDab \/ LeavingFm \/ StartingDab \/ StartingFm \/ Retuning

IInv == TypeOK /\ Always /\ Place
-----------------------------------------------------------------------------
(* Calls.                                                                  *)

\* The calls of the handlers written out.
LEMMA Plans ==
  /\ ToDab \in Seq(CallName) /\ Len(ToDab) = 11
  /\ ToFm \in Seq(CallName) /\ Len(ToFm) = 12
  /\ CloseFm \in Seq(CallName) /\ Len(CloseFm) = 6
  /\ CloseDab \in Seq(CallName) /\ Len(CloseDab) = 9
  /\ Retune \in Seq(CallName) /\ Len(Retune) = 8
<1>1. ToDab \in Seq(CallName) /\ Len(ToDab) = 11
  BY DEF ToDab, CallName
<1>2. ToFm \in Seq(CallName) /\ Len(ToFm) = 12
  BY DEF ToFm, CallName
<1>3. CloseFm \in Seq(CallName) /\ Len(CloseFm) = 6
  BY DEF CloseFm, CallName
<1>4. CloseDab \in Seq(CallName) /\ Len(CloseDab) = 9
  BY DEF CloseDab, CallName
<1>5. Retune \in Seq(CallName) /\ Len(Retune) = 8
  BY DEF Retune, CallName
<1> QED
  BY <1>1, <1>2, <1>3, <1>4, <1>5

\* Closing begins as the change to the other system does.
LEMMA FromDabCalls ==
  /\ FromDab \in Seq(CallName) /\ Len(FromDab) >= 9
  /\ FromDab[1] = "stopReader" /\ FromDab[2] = "reader.wait"
  /\ FromDab[3] = "dab.setRunning" /\ FromDab[4] = "dab.wait"
  /\ FromDab[5] = "dab.setRunning" /\ FromDab[6] = "dab.wait"
  /\ FromDab[7] = "stopReader" /\ FromDab[8] = "reader.wait"
  /\ FromDab[9] = "decoder.none"
<1>1. CASE closed
  BY <1>1, Plans DEF FromDab, CloseDab
<1>2. CASE ~closed
  BY <1>2, Plans DEF FromDab, ToFm
<1> QED
  BY <1>1, <1>2

LEMMA FromFmCalls ==
  /\ FromFm \in Seq(CallName) /\ Len(FromFm) >= 6
  /\ FromFm[1] = "stopReader" /\ FromFm[2] = "reader.wait"
  /\ FromFm[3] = "save.frequency" /\ FromFm[4] = "fm.stop"
  /\ FromFm[5] = "fm.wait" /\ FromFm[6] = "decoder.none"
<1>1. CASE closed
  BY <1>1, Plans DEF FromFm, CloseFm
<1>2. CASE ~closed
  BY <1>2, Plans DEF FromFm, ToDab
<1> QED
  BY <1>1, <1>2

\* The calls of the start of DAB, of the start of FM, and of the change of channel.
LEMMA StartNames ==
  /\ ToDab[7] = "stopReader" /\ ToDab[8] = "reader.wait"
  /\ ToDab[9] = "restartReader.dab" /\ ToDab[10] = "dab.start"
  /\ ToDab[11] = "decoder.dab"
  /\ ToFm[10] = "restartReader.fm" /\ ToFm[11] = "fm.start" /\ ToFm[12] = "decoder.fm"
<1>1. /\ ToDab[7] = "stopReader" /\ ToDab[8] = "reader.wait"
      /\ ToDab[9] = "restartReader.dab" /\ ToDab[10] = "dab.start"
      /\ ToDab[11] = "decoder.dab"
  BY DEF ToDab
<1>2. ToFm[10] = "restartReader.fm" /\ ToFm[11] = "fm.start" /\ ToFm[12] = "decoder.fm"
  BY DEF ToFm
<1> QED
  BY <1>1, <1>2

LEMMA RetuneNames ==
  /\ Retune[1] = "dab.setRunning" /\ Retune[2] = "dab.wait"
  /\ Retune[3] = "stopReader" /\ Retune[4] = "reader.wait"
  /\ Retune[5] = "stopReader" /\ Retune[6] = "reader.wait"
  /\ Retune[7] = "restartReader.dab" /\ Retune[8] = "dab.start"
BY DEF Retune

\* Taking the call that comes next.
LEMMA TakeCall ==
  ASSUME NEW t, NEW p \in Seq(CallName), NEW i \in 1 .. Len(p), At(t, p, i)
  PROVE  t # <<>> /\ Head(t) = p[i] /\ At(Tail(t), p, i + 1)
<1>1. Len(p) \in Nat /\ Len(t) \in Nat \ {0} /\ t \in Seq(CallName)
  BY LenProperties DEF At, Part
<1>2. t # <<>>
  BY <1>1, EmptySeq
<1>3. Tail(t) \in Seq(CallName) /\ Len(Tail(t)) = Len(t) - 1
      /\ \A j \in 1 .. Len(Tail(t)) : Tail(t)[j] = t[j + 1]
  BY <1>1, <1>2, HeadTailProperties
<1>4. Head(t) = t[1]
  BY <1>1, <1>2
<1>5. Head(t) = p[i]
  BY <1>1, <1>4 DEF At, Part
<1>6. Len(Tail(t)) = Len(p) - i
  BY <1>1, <1>3 DEF At, Part
<1>7. \A j \in 1 .. Len(p) - i : t[j + 1] = p[i + j]
  BY <1>1 DEF At, Part
<1> QED
  BY <1>1, <1>2, <1>3, <1>5, <1>6, <1>7 DEF At, Part

\* After the last call nothing is left.
LEMMA LastCall ==
  ASSUME NEW t
  PROVE  /\ At(t, ToDab, 12) => t = <<>>
         /\ At(t, ToFm, 13) => t = <<>>
         /\ At(t, CloseFm, 7) => t = <<>>
         /\ At(t, CloseDab, 10) => t = <<>>
         /\ At(t, Retune, 9) => t = <<>>
<1>1. ASSUME t \in Seq(CallName), Len(t) = 0
      PROVE  t = <<>>
  BY <1>1, EmptySeq
<1> QED
  BY <1>1, Plans DEF At, Part

\* One call, and two.
LEMMA One ==
  ASSUME NEW p, NEW i \in Nat, NEW k \in Nat, k = i + 1, NEW a \in CallName, a = p[i]
  PROVE  Part(<<a>>, p, i, k)
BY DEF Part

LEMMA Two ==
  ASSUME NEW p, NEW i \in Nat, NEW k \in Nat, k = i + 2,
         NEW a \in CallName, NEW b \in CallName, a = p[i], b = p[i + 1]
  PROVE  Part(<<a, b>>, p, i, k)
<1> DEFINE t == <<a, b>>
<1>1. t[1] = a /\ t[2] = b /\ Len(t) = 2 /\ t \in Seq(CallName)
  OBVIOUS
<1> HIDE DEF t
<1>2. \A j \in {1, 2} : t[j] = p[i + j - 1]
  BY <1>1
<1>3. Part(t, p, i, k)
  BY <1>1, <1>2 DEF Part
<1> QED
  BY <1>3 DEF t

\* A concatenation, element by element.
LEMMA Joined ==
  ASSUME NEW p, NEW i \in Nat, NEW k \in Nat, NEW m \in Nat,
         i <= k, k <= m,
         NEW s, NEW t, Part(s, p, i, k), Part(t, p, k, m)
  PROVE  Part(s \o t, p, i, m)
<1>1. s \in Seq(CallName) /\ Len(s) = k - i /\ t \in Seq(CallName) /\ Len(t) = m - k
  BY DEF Part
<1>2. /\ s \o t \in Seq(CallName)
      /\ Len(s \o t) = Len(s) + Len(t)
      /\ \A j \in 1 .. Len(s) + Len(t) :
           (s \o t)[j] = IF j <= Len(s) THEN s[j] ELSE t[j - Len(s)]
  BY <1>1, ConcatProperties
<1> DEFINE u == s \o t
<1>3. ASSUME NEW j \in 1 .. m - i
      PROVE  u[j] = p[i + j - 1]
  <2>0. u[j] = IF j <= k - i THEN s[j] ELSE t[j - (k - i)]
    BY <1>1, <1>2
  <2> HIDE DEF u
  <2>1. CASE j <= k - i
    BY <2>1, <2>0 DEF Part
  <2>2. CASE j > k - i
    <3> DEFINE h == j - (k - i)
    <3>1. h \in 1 .. m - k /\ k + h - 1 = i + j - 1
      BY <2>2
    <3> HIDE DEF h
    <3>2. t[h] = p[k + h - 1]
      BY <3>1 DEF Part
    <3> QED
      BY <2>0, <2>2, <3>1, <3>2 DEF h
  <2> QED
    BY <2>1, <2>2
<1>4. Len(u) = m - i /\ u \in Seq(CallName)
  BY <1>1, <1>2
<1> HIDE DEF u
<1>5. Part(u, p, i, m)
  BY <1>3, <1>4 DEF Part
<1> QED
  BY <1>5 DEF u

\* What stop_dabSystem calls, by itself and in set_fmSystem.
LEMMA StopDabCalls ==
  ASSUME NEW p \in {CloseDab, ToFm}
  PROVE  Part(stop_dabSystem, p, 1, 10)
<1>1. /\ p[1] = "stopReader" /\ p[2] = "reader.wait"
      /\ p[3] = "dab.setRunning" /\ p[4] = "dab.wait"
      /\ p[5] = "dab.setRunning" /\ p[6] = "dab.wait"
      /\ p[7] = "stopReader" /\ p[8] = "reader.wait" /\ p[9] = "decoder.none"
  BY DEF CloseDab, ToFm
<1>2. /\ "stopReader" \in CallName /\ "reader.wait" \in CallName
      /\ "dab.setRunning" \in CallName /\ "dab.wait" \in CallName
      /\ "decoder.none" \in CallName
  BY DEF CallName
<1>3. /\ Part(StopReader, p, 1, 3) /\ Part(dabProcessorStop, p, 3, 5)
      /\ Part(dabProcessorStop, p, 5, 7) /\ Part(StopReader, p, 7, 9)
  BY <1>1, <1>2, Two DEF StopReader, dabProcessorStop
<1>4. Part(<<"decoder.none">>, p, 9, 10)
  BY <1>1, <1>2, One
<1>5. Part(stopChannel, p, 5, 9)
  BY <1>3, Joined DEF stopChannel
<1>6. Part(StopReader \o dabProcessorStop, p, 1, 5)
  BY <1>3, Joined
<1>7. Part(StopReader \o dabProcessorStop \o stopChannel, p, 1, 9)
  BY <1>5, <1>6, Joined
<1> QED
  BY <1>4, <1>7, Joined DEF stop_dabSystem

\* What stop_fmSystem calls, by itself and in set_dabSystem.
LEMMA StopFmCalls ==
  ASSUME NEW p \in {CloseFm, ToDab}
  PROVE  Part(stop_fmSystem, p, 1, 7)
<1>1. /\ p[1] = "stopReader" /\ p[2] = "reader.wait" /\ p[3] = "save.frequency"
      /\ p[4] = "fm.stop" /\ p[5] = "fm.wait" /\ p[6] = "decoder.none"
  BY DEF CloseFm, ToDab
<1>2. /\ "stopReader" \in CallName /\ "reader.wait" \in CallName
      /\ "save.frequency" \in CallName /\ "fm.stop" \in CallName
      /\ "fm.wait" \in CallName /\ "decoder.none" \in CallName
  BY DEF CallName
<1>3. Part(StopReader, p, 1, 3) /\ Part(fmProcessorStop, p, 4, 6)
  BY <1>1, <1>2, Two DEF StopReader, fmProcessorStop
<1>4. Part(<<"save.frequency">>, p, 3, 4) /\ Part(<<"decoder.none">>, p, 6, 7)
  BY <1>1, <1>2, One
<1>5. Part(StopReader \o <<"save.frequency">>, p, 1, 4)
  BY <1>3, <1>4, Joined
<1>6. Part(StopReader \o <<"save.frequency">> \o fmProcessorStop, p, 1, 6)
  BY <1>3, <1>5, Joined
<1> QED
  BY <1>4, <1>6, Joined DEF stop_fmSystem

\* What stopChannel and startChannel call when the channel is changed.
LEMMA RetuneCalls == Part(stopChannel \o startChannel, Retune, 1, 9)
<1>2. /\ "stopReader" \in CallName /\ "reader.wait" \in CallName
      /\ "dab.setRunning" \in CallName /\ "dab.wait" \in CallName
      /\ "restartReader.dab" \in CallName /\ "dab.start" \in CallName
  BY DEF CallName
<1>3. /\ Part(dabProcessorStop, Retune, 1, 3) /\ Part(StopReader, Retune, 3, 5)
      /\ Part(StopReader, Retune, 5, 7)
  BY <1>2, RetuneNames, Two DEF StopReader, dabProcessorStop
<1>4. Part(<<"restartReader.dab", "dab.start">>, Retune, 7, 9)
  BY <1>2, RetuneNames, Two
<1>5. Part(stopChannel, Retune, 1, 5)
  BY <1>3, Joined DEF stopChannel
<1>6. Part(startChannel, Retune, 5, 9)
  BY <1>3, <1>4, Joined DEF startChannel
<1> QED
  BY <1>5, <1>6, Joined

\* What is called after the other system, if it was on, is stopped.
LEMMA StartCalls ==
  /\ Part(startChannel, ToDab, 7, 11)
  /\ Part(<<"decoder.dab">>, ToDab, 11, 12)
  /\ Part(<<"restartReader.fm", "fm.start", "decoder.fm">>, ToFm, 10, 13)
<1>3. /\ "stopReader" \in CallName /\ "reader.wait" \in CallName
      /\ "restartReader.dab" \in CallName /\ "dab.start" \in CallName
      /\ "restartReader.fm" \in CallName /\ "fm.start" \in CallName
      /\ "decoder.fm" \in CallName /\ "decoder.dab" \in CallName
  BY DEF CallName
<1>4. Part(StopReader, ToDab, 7, 9)
  BY <1>3, StartNames, Two DEF StopReader
<1>5. Part(<<"restartReader.dab", "dab.start">>, ToDab, 9, 11)
  BY <1>3, StartNames, Two
<1>6. Part(startChannel, ToDab, 7, 11)
  BY <1>4, <1>5, Joined DEF startChannel
<1>7. Part(<<"decoder.dab">>, ToDab, 11, 12)
  BY <1>3, StartNames, One
<1> DEFINE t == <<"restartReader.fm", "fm.start", "decoder.fm">>
<1>8. t[1] = ToFm[10] /\ t[2] = ToFm[11] /\ t[3] = ToFm[12]
  BY StartNames
<1>9. Len(t) = 3 /\ t \in Seq(CallName)
  BY <1>3
<1> HIDE DEF t
<1>10. \A j \in {1, 2, 3} : t[j] = ToFm[10 + j - 1]
  BY <1>8
<1>11. Part(t, ToFm, 10, 13)
  BY <1>9, <1>10 DEF Part
<1> QED
  BY <1>6, <1>7, <1>11 DEF t

\* What the handlers call.
LEMMA HandlerCalls ==
  /\ At(stop_dabSystem, CloseDab, 1)
  /\ At(stop_fmSystem, CloseFm, 1)
  /\ decoder = "dab" => At(set_fmSystem, ToFm, 1)
  /\ decoder # "dab" => At(set_fmSystem, ToFm, 10)
  /\ decoder = "fm" => At(set_dabSystem, ToDab, 1)
  /\ decoder # "fm" => At(set_dabSystem, ToDab, 7)
  /\ At(stopChannel \o startChannel, Retune, 1)
<1>1. Part(stop_dabSystem, CloseDab, 1, 10) /\ Part(stop_dabSystem, ToFm, 1, 10)
  BY StopDabCalls
<1>2. Part(stop_fmSystem, CloseFm, 1, 7) /\ Part(stop_fmSystem, ToDab, 1, 7)
  BY StopFmCalls
<1>3. Part(<<>>, ToFm, 10, 10) /\ Part(<<>>, ToDab, 7, 7)
  BY EmptySeq DEF Part
<1>4. ASSUME decoder = "dab"
      PROVE  Part(set_fmSystem, ToFm, 1, 13)
  BY <1>1, <1>4, StartCalls, Joined DEF set_fmSystem
<1>5. ASSUME decoder # "dab"
      PROVE  Part(set_fmSystem, ToFm, 10, 13)
  BY <1>3, <1>5, StartCalls, Joined DEF set_fmSystem
<1>6. ASSUME decoder = "fm"
      PROVE  Part(set_dabSystem, ToDab, 1, 12)
  <2>1. Part(stop_fmSystem \o startChannel, ToDab, 1, 11)
    BY <1>2, StartCalls, Joined
  <2> QED
    BY <1>6, <2>1, StartCalls, Joined DEF set_dabSystem
<1>7. ASSUME decoder # "fm"
      PROVE  Part(set_dabSystem, ToDab, 7, 12)
  <2>1. Part(<<>> \o startChannel, ToDab, 7, 11)
    BY <1>3, StartCalls, Joined
  <2> QED
    BY <1>7, <2>1, StartCalls, Joined DEF set_dabSystem
<1> QED
  BY <1>1, <1>2, <1>4, <1>5, <1>6, <1>7, RetuneCalls, Plans DEF At
-----------------------------------------------------------------------------
(* The device and the readers.                                             *)

\* What the callbacks of the device and the readers take or add keeps what is
\* promised of the blocks.
LEMMA BufferType ==
  ASSUME TypeOK
  PROVE  /\ BufferSize \in Nat \ {0} /\ Len(buffer) \in Nat /\ left \in Nat
         /\ buffer \in Seq(SUBSET Frequency)
         /\ buffer # <<>> <=> Len(buffer) > 0
<1>1. buffer \in Seq(SUBSET Frequency) /\ BufferSize \in Nat \ {0} /\ left \in 0 .. BufferSize + 1
  BY ThreadsAssumption DEF ThreadsAssumption, TypeOK
<1> QED
  BY <1>1, EmptySeq, LenProperties

\* A block that is added comes last.
LEMMA Added ==
  ASSUME TypeOK, buffer' = Append(buffer, Received)
  PROVE  /\ Len(buffer') = Len(buffer) + 1
         /\ buffer' \in Seq(SUBSET Frequency)
         /\ \A i \in 1 .. Len(buffer) : buffer'[i] = buffer[i]
         /\ buffer'[Len(buffer) + 1] = Received
         /\ buffer' # <<>>
<1>1. Received \in SUBSET Frequency
  BY DEF TypeOK, Received
<1>2. buffer \in Seq(SUBSET Frequency)
  BY BufferType
<1>3. /\ buffer' \in Seq(SUBSET Frequency)
      /\ Len(buffer') = Len(buffer) + 1
      /\ \A i \in 1 .. Len(buffer) : buffer'[i] = buffer[i]
      /\ buffer'[Len(buffer) + 1] = Received
  BY <1>1, <1>2
<1> QED
  BY <1>3, BufferType, EmptySeq

\* A block that is taken is the first.
LEMMA Taken ==
  ASSUME TypeOK, buffer # <<>>, buffer' = Tail(buffer)
  PROVE  /\ Len(buffer') = Len(buffer) - 1
         /\ buffer' \in Seq(SUBSET Frequency)
         /\ \A i \in 1 .. Len(buffer) - 1 : buffer'[i] = buffer[i + 1]
<1>1. buffer \in Seq(SUBSET Frequency)
  BY BufferType
<1> QED
  BY <1>1, HeadTailProperties

DeviceStep == WorkerBegin \/ WorkerEnd \/ WorkerLost \/ DeviceCallback \/ DevicePart

\* What a callback adds.
LEMMA CallbackCases ==
  ASSUME TypeOK, DeviceCallback
  PROVE  \/ buffer' = Append(buffer, Received) /\ left' = left
         \/ buffer' = buffer /\ left' \in Nat /\ left' <= left /\ left' <= Len(buffer)
            /\ (left > Len(buffer) => left' = Len(buffer))
            /\ (left <= Len(buffer) => left' = left)
<1>1. CASE Len(buffer) < BufferSize
  BY <1>1 DEF DeviceCallback
<1>2. CASE ~(Len(buffer) < BufferSize)
  BY <1>2, BufferType DEF DeviceCallback
<1> QED
  BY <1>1, <1>2

\* The types, after a step of the device.
LEMMA DeviceType ==
  ASSUME TypeOK, DeviceStep, UNCHANGED <<guiVars, dabVars, fmVars>>
  PROVE  TypeOK'
<1>1. CASE WorkerBegin \/ WorkerEnd \/ WorkerLost
  BY <1>1 DEF TypeOK, WorkerBegin, WorkerEnd, WorkerLost, guiVars, dabVars, fmVars, WorkerState
<1>2. carried' \subseteq Frequency /\ vfo \in Frequency
  BY DEF TypeOK, DeviceStep, WorkerBegin, WorkerEnd, WorkerLost, DeviceCallback, DevicePart,
         Carried, Received
<1>3. CASE DeviceCallback
  <2>1. kind' = kind /\ opened' = opened /\ worker' = worker /\ vfo' = vfo
    BY <1>3 DEF DeviceCallback
  <2>2. buffer' \in Seq(SUBSET Frequency) /\ Len(buffer') <= BufferSize
    <3>1. CASE Len(buffer) < BufferSize
      BY <1>3, <3>1, Added, BufferType DEF DeviceCallback
    <3>2. CASE ~(Len(buffer) < BufferSize)
      BY <1>3, <3>2 DEF DeviceCallback, TypeOK
    <3> QED
      BY <3>1, <3>2
  <2>3. left' \in 0 .. BufferSize + 1
    BY <1>3, CallbackCases, BufferType DEF TypeOK
  <2> QED
    BY <1>2, <2>1, <2>2, <2>3 DEF TypeOK, guiVars, dabVars, fmVars
<1>4. CASE DevicePart
  BY <1>2, <1>4 DEF TypeOK, DevicePart, guiVars, dabVars, fmVars
<1> QED
  BY <1>1, <1>3, <1>4 DEF DeviceStep

\* What is fresh stays fresh while the device is tuned to one of the frequencies.
LEMMA DeviceFresh ==
  ASSUME TypeOK, NEW F, Fresh(F), DeviceStep, Delivers => vfo \in F
  PROVE  /\ \A i \in 1 .. Len(buffer') : i > left' => buffer'[i] \subseteq F
         /\ Converts' => left' > Len(buffer') \/ carried' \subseteq F
<1>1. CASE WorkerBegin \/ WorkerEnd \/ WorkerLost
  BY <1>1 DEF WorkerBegin, WorkerEnd, WorkerLost, Fresh, Converts
<1>2. CASE DeviceCallback
  <2>1. carried' \subseteq F /\ vfo \in F /\ kind' = kind
    BY <1>2 DEF DeviceCallback, Carried
  <2>2. CASE buffer' = Append(buffer, Received) /\ left' = left
    <3>1. left <= Len(buffer) => Received \subseteq F
      BY <2>1, BufferType DEF Fresh, Received
    <3>2. \A i \in 1 .. Len(buffer') : i \in 1 .. Len(buffer) \/ i = Len(buffer) + 1
      BY <2>2, Added, BufferType
    <3> QED
      BY <2>1, <2>2, <3>1, <3>2, Added, BufferType DEF Fresh
  <2>3. CASE buffer' = buffer /\ (left > Len(buffer) => left' = Len(buffer))
             /\ (left <= Len(buffer) => left' = left)
    BY <2>1, <2>3, BufferType DEF Fresh
  <2> QED
    BY <1>2, <2>2, <2>3, CallbackCases
<1>3. CASE DevicePart
  BY <1>3 DEF DevicePart, Fresh, Received, Converts
<1> QED
  BY <1>1, <1>2, <1>3 DEF DeviceStep

\* The first block is taken, or nothing.
LEMMA GetCases ==
  ASSUME getSamples
  PROVE  /\ kind' = kind /\ opened' = opened /\ worker' = worker /\ vfo' = vfo
         /\ carried' = carried
         /\ \/ buffer' = buffer /\ left' = left
            \/ /\ buffer # <<>> /\ buffer' = Tail(buffer)
               /\ left' = IF left = 0 THEN 0 ELSE left - 1
BY DEF getSamples

\* The types, after a read.
LEMMA ReadType ==
  ASSUME TypeOK, getSamples
  PROVE  buffer' \in Seq(SUBSET Frequency) /\ Len(buffer') <= BufferSize /\ left' \in 0 .. BufferSize + 1
<1>1. CASE buffer' = buffer /\ left' = left
  BY <1>1 DEF TypeOK
<1>2. CASE buffer # <<>> /\ buffer' = Tail(buffer) /\ left' = IF left = 0 THEN 0 ELSE left - 1
  BY <1>2, Taken, BufferType DEF TypeOK
<1> QED
  BY <1>1, <1>2, GetCases

\* What is fresh stays fresh when a block is taken.
LEMMA ReadFresh ==
  ASSUME TypeOK, NEW F, Fresh(F), getSamples
  PROVE  /\ \A i \in 1 .. Len(buffer') : i > left' => buffer'[i] \subseteq F
         /\ Converts' => left' > Len(buffer') \/ carried' \subseteq F
<1>1. CASE buffer' = buffer /\ left' = left
  BY <1>1, GetCases DEF Fresh, Converts
<1>2. CASE buffer # <<>> /\ buffer' = Tail(buffer) /\ left' = IF left = 0 THEN 0 ELSE left - 1
  <2>1. \A i \in 1 .. Len(buffer') : i + 1 \in 1 .. Len(buffer) /\ buffer'[i] = buffer[i + 1]
    BY <1>2, Taken, BufferType
  <2>2. \A i \in 1 .. Len(buffer') : i > left' => i + 1 > left
    BY <1>2, Taken, BufferType
  <2>3. \A i \in 1 .. Len(buffer') : i > left' => buffer'[i] \subseteq F
    BY <2>1, <2>2 DEF Fresh
  <2>4. left > Len(buffer) => left' > Len(buffer')
    BY <1>2, Taken, BufferType
  <2> QED
    BY <2>3, <2>4, GetCases DEF Fresh, Converts
<1> QED
  BY <1>1, <1>2, GetCases
-----------------------------------------------------------------------------
(* The steps beside those of the GUI thread.                               *)

OtherStep == DeviceThread \/ DeviceEvent \/ DabThread \/ FmThread

Idles == DabBegin \/ DabTest \/ DabEnd \/ FmBegin \/ FmTest \/ FmEnd

\* They step the device, read from it, or leave it alone.
LEMMA OtherCases ==
  ASSUME OtherStep
  PROVE  /\ UNCHANGED guiVars /\ kind' = kind /\ vfo' = vfo
         /\ \/ DeviceStep /\ UNCHANGED <<dabVars, fmVars>>
            \/ getSamples /\ (DabFetch \/ FmFetch)
            \/ UNCHANGED deviceVars /\ Idles
<1>1. CASE DeviceThread \/ DeviceEvent
  BY <1>1 DEF DeviceThread, DeviceEvent, DeviceStep, WorkerBegin, WorkerEnd, WorkerLost,
              DeviceCallback, DevicePart
<1>2. CASE DabThread \/ FmThread
  BY <1>2, GetCases DEF DabThread, FmThread, Idles, DabBegin, DabTest, DabFetch, DabEnd,
              FmBegin, FmTest, FmFetch, FmEnd, deviceVars
<1> QED
  BY <1>1, <1>2 DEF OtherStep

\* They keep the types.
LEMMA OtherType ==
  ASSUME TypeOK, OtherStep
  PROVE  TypeOK'
<1>1. CASE DeviceStep /\ UNCHANGED <<dabVars, fmVars>>
  BY <1>1, OtherCases, DeviceType
<1>2. CASE getSamples /\ (DabFetch \/ FmFetch)
  BY <1>2, OtherCases, ReadType, GetCases
     DEF TypeOK, DabFetch, FmFetch, guiVars, dabVars, fmVars, ThreadState
<1>3. CASE UNCHANGED deviceVars /\ Idles
  BY <1>3, OtherCases
     DEF TypeOK, Idles, DabBegin, DabTest, DabEnd, FmBegin, FmTest, FmEnd,
         guiVars, dabVars, fmVars, deviceVars, ThreadState
<1> QED
  BY <1>1, <1>2, <1>3, OtherCases

\* They keep fresh what is.
LEMMA OtherFresh ==
  ASSUME TypeOK, OtherStep, NEW F, Fresh(F), Delivers => vfo \in F
  PROVE  /\ \A i \in 1 .. Len(buffer') : i > left' => buffer'[i] \subseteq F
         /\ Converts' => left' > Len(buffer') \/ carried' \subseteq F
<1>1. CASE DeviceStep
  BY <1>1, DeviceFresh
<1>2. CASE getSamples
  BY <1>2, ReadFresh
<1>3. CASE UNCHANGED deviceVars
  BY <1>3 DEF deviceVars, Fresh, Converts
<1> QED
  BY <1>1, <1>2, <1>3, OtherCases

\* They keep each of the two readers where the handlers believe it is.
LEMMA OtherThreads ==
  ASSUME OtherStep
  PROVE  /\ DabRuns => DabRuns'
         /\ DabTold => DabTold'
         /\ DabAlive => DabAlive'
         /\ FmRuns => FmRuns'
         /\ FmTold => FmTold'
         /\ FmAlive => FmAlive'
         /\ BothOff => BothOff'
<1>1. CASE UNCHANGED <<dabVars, fmVars>>
  BY <1>1 DEF dabVars, fmVars, DabRuns, DabTold, DabAlive, FmRuns, FmTold, FmAlive, BothOff
<1>2. CASE DabFetch \/ FmFetch
  BY <1>2 DEF DabFetch, FmFetch, dabVars, fmVars,
              DabRuns, DabTold, DabAlive, FmRuns, FmTold, FmAlive, BothOff
<1>3. CASE Idles
  BY <1>3 DEF Idles, DabBegin, DabTest, DabEnd, FmBegin, FmTest, FmEnd, dabVars, fmVars,
              DabRuns, DabTold, DabAlive, FmRuns, FmTold, FmAlive, BothOff
<1> QED
  BY <1>1, <1>2, <1>3, OtherCases

\* They keep the device where the handlers believe it is.
LEMMA OtherDevice ==
  ASSUME TypeOK, OtherStep
  PROVE  /\ Going => Going'
         /\ Asked => Asked'
         /\ Quiet => Quiet'
         /\ StartedDab => StartedDab'
         /\ StartedFm => StartedFm'
<1>1. /\ \/ WorkerBegin \/ WorkerEnd \/ WorkerLost
         \/ opened' = opened /\ worker' = worker
      /\ UNCHANGED <<kind, vfo, channel, fmFrequency>>
  BY OtherCases, GetCases DEF DeviceStep, DeviceCallback, DevicePart, deviceVars, guiVars
<1>2. /\ Going => Going'
      /\ Asked => Asked'
      /\ Quiet => Quiet'
  BY <1>1 DEF Going, Asked, Quiet, WorkerBegin, WorkerEnd, WorkerLost
<1>3. ~Delivers /\ buffer = <<>> => buffer' = <<>>
  BY OtherCases DEF DeviceStep, WorkerBegin, WorkerEnd, WorkerLost, DeviceCallback, DevicePart,
                    getSamples, deviceVars
<1>4. (~opened => worker \in {"off", "starting"}) => (~opened' => worker' \in {"off", "starting"})
  BY <1>1 DEF WorkerBegin, WorkerEnd, WorkerLost
<1>5. worker = "off" => worker' = "off"
  BY <1>1 DEF WorkerBegin, WorkerEnd, WorkerLost
<1>6. ASSUME StartedDab
      PROVE  StartedDab'
  <2>1. Fresh({vfo})'
    BY <1>1, <1>6, OtherFresh DEF StartedDab, Fresh
  <2>2. vfo' = channel' \/ (worker' = "off" /\ buffer' = <<>>)
    BY <1>1, <1>3, <1>5, <1>6 DEF StartedDab, Delivers
  <2> QED
    BY <1>4, <1>6, <2>1, <2>2 DEF StartedDab
<1>7. ASSUME StartedFm
      PROVE  StartedFm'
  <2>1. Delivers => vfo \in OfFm
    BY <1>7 DEF StartedFm, Delivers
  <2>2. Fresh(OfFm)'
    BY <1>1, <1>7, <2>1, OtherFresh DEF StartedFm, Fresh, OfFm
  <2>3. worker' # "off" => vfo' \in OfFm'
    BY <1>1, <1>5, <1>7 DEF StartedFm, OfFm
  <2>4. ~opened' /\ kind' \in {"rtlsdr", "airspy"} => buffer' = <<>>
    BY <1>1, <1>3, <1>7 DEF StartedFm, Delivers, WorkerBegin, WorkerEnd, WorkerLost
  <2> QED
    BY <1>4, <1>7, <2>2, <2>3, <2>4 DEF StartedFm
<1> QED
  BY <1>2, <1>6, <1>7

\* Never two readers at work: wherever the GUI thread is, one of them is off.
LEMMA PlaceApart ==
  ASSUME Place
  PROVE  dab = "off" \/ fm = "off"
<1>1. LeavingDab => dab = "off" \/ fm = "off"
  BY DEF LeavingDab, LeavingDabAt, DabRuns, DabTold, BothOff
<1>2. LeavingFm => dab = "off" \/ fm = "off"
  BY DEF LeavingFm, LeavingFmAt, FmRuns, FmTold, BothOff
<1>3. StartingDab => dab = "off" \/ fm = "off"
  BY DEF StartingDab, StartingDabAt, DabAlive, BothOff
<1>4. StartingFm => dab = "off" \/ fm = "off"
  <2> SUFFICES ASSUME NEW i \in 10 .. 12, StartingFmAt(i)
               PROVE  dab = "off" \/ fm = "off"
    BY DEF StartingFm
  <2>1. i \in 10 .. 11 \/ i = 12
    OBVIOUS
  <2> QED
    BY <2>1 DEF StartingFmAt, FmAlive, BothOff
<1>5. Retuning => dab = "off" \/ fm = "off"
  BY DEF Retuning, RetuningAt, DabRuns, DabTold, BothOff
<1> QED
  BY <1>1, <1>2, <1>3, <1>4, <1>5 DEF Place, IdleDab, IdleFm, Ended, DabAlive, FmAlive, BothOff

\* They keep what always holds.
LEMMA OtherAlways ==
  ASSUME TypeOK, Always, Place, OtherStep
  PROVE  Always'
<1>1. CASE DeviceStep /\ UNCHANGED <<dabVars, fmVars>>
  <2>1. CASE WorkerBegin \/ WorkerEnd \/ WorkerLost \/ DevicePart
    BY <1>1, <2>1 DEF WorkerBegin, WorkerEnd, WorkerLost, DevicePart, Always, PromisedSamples,
                      dabVars, fmVars
  <2>2. CASE DeviceCallback
    <3>1. (kind = "rtlsdr" => left' = 0) /\ (kind = "airspy" => left' \in {0, 1})
      BY <2>2, CallbackCases, BufferType DEF Always
    <3>2. \A i \in 1 .. Len(buffer') : buffer'[i] # {}
      <4>1. Received # {}
        BY DEF Received
      <4>2. CASE buffer' = Append(buffer, Received)
        <5>1. \A i \in 1 .. Len(buffer') : i \in 1 .. Len(buffer) \/ i = Len(buffer) + 1
          BY <4>2, Added, BufferType
        <5> QED
          BY <4>1, <4>2, <5>1, Added DEF Always
      <4> QED
        BY <2>2, <4>2, CallbackCases DEF Always
    <3>3. buffer # <<>> => buffer' # <<>>
      BY <2>2, CallbackCases, Added
    <3> QED
      BY <1>1, <3>1, <3>2, <3>3, OtherCases DEF Always, PromisedSamples, dabVars, fmVars
  <2> QED
    BY <1>1, <2>1, <2>2 DEF DeviceStep
<1>2. CASE getSamples /\ (DabFetch \/ FmFetch)
  <2>1. dab' # "fetching" /\ fm' # "fetching"
    BY <1>2, PlaceApart DEF DabFetch, FmFetch, dabVars, fmVars
  <2>2. CASE buffer' = buffer /\ left' = left
    BY <2>1, <2>2, OtherCases DEF Always, PromisedSamples
  <2>3. CASE buffer # <<>> /\ buffer' = Tail(buffer) /\ left' = IF left = 0 THEN 0 ELSE left - 1
    <3>1. \A i \in 1 .. Len(buffer') : i + 1 \in 1 .. Len(buffer) /\ buffer'[i] = buffer[i + 1]
      BY <2>3, Taken, BufferType
    <3>2. \A i \in 1 .. Len(buffer') : buffer'[i] # {}
      BY <3>1 DEF Always
    <3>3. (kind = "rtlsdr" => left' = 0) /\ (kind = "airspy" => left' \in {0, 1})
      BY <2>3 DEF Always
    <3> QED
      BY <2>1, <3>2, <3>3, OtherCases DEF Always, PromisedSamples
  <2> QED
    BY <1>2, <2>2, <2>3, GetCases
<1>3. CASE UNCHANGED deviceVars /\ Idles
  <2>1. (dab' = "fetching" \/ fm' = "fetching") => (dab = "fetching" \/ fm = "fetching" \/ HasSamples)
    BY <1>3 DEF Idles, DabBegin, DabTest, DabEnd, FmBegin, FmTest, FmEnd, dabVars, fmVars
  <2> QED
    BY <1>3, <2>1 DEF Always, PromisedSamples, HasSamples, deviceVars
<1> QED
  BY <1>1, <1>2, <1>3, OtherCases

\* They do not move the GUI thread.
LEMMA OtherPlace ==
  ASSUME TypeOK, Place, OtherStep
  PROVE  Place'
<1>1. todo' = todo /\ decoder' = decoder /\ closed' = closed
  BY OtherCases DEF guiVars
<1>2. IdleDab => IdleDab'
  BY <1>1, OtherThreads, OtherDevice DEF IdleDab
<1>3. IdleFm => IdleFm'
  BY <1>1, OtherThreads, OtherDevice DEF IdleFm
<1>4. Ended => Ended'
  BY <1>1, OtherThreads, OtherDevice DEF Ended
<1>5. LeavingDab => LeavingDab'
  <2>1. \A i : LeavingDabAt(i) => LeavingDabAt(i)'
    BY <1>1, OtherThreads, OtherDevice DEF LeavingDabAt
  <2> QED
    BY <1>1, <2>1 DEF LeavingDab, FromDab
<1>6. LeavingFm => LeavingFm'
  <2>1. \A i : LeavingFmAt(i) => LeavingFmAt(i)'
    BY <1>1, OtherThreads, OtherDevice DEF LeavingFmAt
  <2> QED
    BY <1>1, <2>1 DEF LeavingFm, FromFm
<1>7. StartingDab => StartingDab'
  <2>1. \A i : StartingDabAt(i) => StartingDabAt(i)'
    BY <1>1, OtherThreads, OtherDevice DEF StartingDabAt
  <2> QED
    BY <1>1, <2>1 DEF StartingDab
<1>8. StartingFm => StartingFm'
  <2>1. \A i : StartingFmAt(i) => StartingFmAt(i)'
    BY <1>1, OtherThreads, OtherDevice DEF StartingFmAt
  <2> QED
    BY <1>1, <2>1 DEF StartingFm
<1>9. Retuning => Retuning'
  <2>1. \A i : RetuningAt(i) => RetuningAt(i)'
    BY <1>1, OtherThreads, OtherDevice DEF RetuningAt
  <2> QED
    BY <1>1, <2>1 DEF Retuning
<1> QED
  BY <1>2, <1>3, <1>4, <1>5, <1>6, <1>7, <1>8, <1>9 DEF Place
-----------------------------------------------------------------------------
(* The calls of the GUI thread.                                            *)

\* The call that comes next decides the step.
LEMMA NextCall ==
  ASSUME GuiStep
  PROVE  /\ Head(todo) = "stopReader" => stopReader
         /\ Head(todo) = "reader.wait" => stopReaderWait
         /\ Head(todo) = "save.frequency" => SaveFrequency
         /\ Head(todo) = "restartReader.dab" => restartReader("restartReader.dab", channel)
         /\ Head(todo) = "restartReader.fm" => restartReader("restartReader.fm", fmFrequency)
         /\ Head(todo) = "dab.start" => DabStart
         /\ Head(todo) = "dab.setRunning" => DabSetRunning
         /\ Head(todo) = "dab.wait" => DabWait
         /\ Head(todo) = "fm.start" => FmStart
         /\ Head(todo) = "fm.stop" => FmStop
         /\ Head(todo) = "fm.wait" => FmWait
         /\ Head(todo) = "decoder.dab" => SetDecoder("decoder.dab", "dab")
         /\ Head(todo) = "decoder.fm" => SetDecoder("decoder.fm", "fm")
         /\ Head(todo) = "decoder.none" => SetDecoder("decoder.none", "none")
BY DEF GuiStep, stopReader, stopReaderWait, SaveFrequency, restartReader, DabStart,
       DabSetRunning, DabWait, FmStart, FmStop, FmWait, SetDecoder, Call

\* No call closes the window or changes the channel.
LEMMA CallsKeep ==
  ASSUME GuiStep
  PROVE  closed' = closed /\ channel' = channel
BY DEF GuiStep, stopReader, stopReaderWait, SaveFrequency, restartReader, DabStart,
       DabSetRunning, DabWait, FmStart, FmStop, FmWait, SetDecoder, Call

\* After the request to stop, the worker is about to end, or there is none.
LEMMA StopAsked ==
  ASSUME TypeOK, Going \/ Asked, DeviceStop
  PROVE  Asked'
BY DEF TypeOK, Going, Asked, DeviceStop, rtlsdrStop, libraryStop, plutoStop, WorkerState

\* A device that is not opened is quiet.
LEMMA NotOpened ==
  ASSUME Going, ~opened
  PROVE  Quiet
BY DEF Going, Quiet

\* What a restart does to the buffer.
LEMMA RestartBuffer ==
  ASSUME TypeOK, NEW f \in Frequency, DeviceRestart(f)
  PROVE  /\ kind' = kind /\ carried' = carried /\ vfo' \in Frequency
         /\ opened' \in BOOLEAN /\ worker' \in WorkerState
         /\ buffer' = buffer \/ (buffer' = <<>> /\ ~opened /\ kind \in {"rtlsdr", "airspy"})
         /\ buffer' \in Seq(SUBSET Frequency) /\ Len(buffer') <= BufferSize
         /\ left' \in 0 .. BufferSize + 1
<1>0. <<>> \in Seq(SUBSET Frequency) /\ Len(<<>>) = 0
  BY EmptySeq
<1>1. CASE opened /\ UNCHANGED deviceVars
  BY <1>1 DEF TypeOK, deviceVars
<1>2. CASE ~opened /\ rtlsdrRestart(f)
  <2>1. buffer' = <<>> /\ left' = 0 /\ kind = "rtlsdr"
    BY <1>2 DEF rtlsdrRestart
  <2>2. buffer' \in Seq(SUBSET Frequency) /\ Len(buffer') <= BufferSize /\ left' \in 0 .. BufferSize + 1
    BY <1>0, <2>1, BufferType
  <2> QED
    BY <1>2, <2>1, <2>2 DEF TypeOK, rtlsdrRestart, WorkerState
<1>3. CASE ~opened /\ airspyRestart(f)
  <2>1. buffer' = <<>> /\ left' \in {0, 1} /\ kind = "airspy"
    BY <1>3 DEF airspyRestart
  <2>2. buffer' \in Seq(SUBSET Frequency) /\ Len(buffer') <= BufferSize /\ left' \in 0 .. BufferSize + 1
    BY <1>0, <2>1, BufferType
  <2> QED
    BY <1>3, <2>1, <2>2 DEF TypeOK, airspyRestart, WorkerState
<1>4. CASE ~opened /\ sdrplayRestart(f)
  BY <1>4, BufferType DEF TypeOK, sdrplayRestart, WorkerState
<1>5. CASE ~opened /\ plutoRestart(f)
  BY <1>5, BufferType DEF TypeOK, plutoRestart, WorkerState
<1> QED
  BY <1>1, <1>2, <1>3, <1>4, <1>5 DEF DeviceRestart

\* What a restart leaves of the blocks, for a device that was not opened.
LEMMA RestartFresh ==
  ASSUME TypeOK, NEW f, DeviceRestart(f), ~opened, NEW F
  PROVE  /\ \A i \in 1 .. Len(buffer') : i > left' => buffer'[i] \subseteq F
         /\ Converts' => left' > Len(buffer') \/ carried' \subseteq F
<1>1. CASE rtlsdrRestart(f)
  BY <1>1 DEF rtlsdrRestart, Converts
<1>2. CASE airspyRestart(f)
  BY <1>2 DEF airspyRestart
<1>3. CASE sdrplayRestart(f)
  BY <1>3, BufferType DEF sdrplayRestart, Converts
<1>4. CASE plutoRestart(f)
  BY <1>4, BufferType DEF plutoRestart
<1> QED
  BY <1>1, <1>2, <1>3, <1>4 DEF DeviceRestart

\* A restart tunes the device, or fails and leaves it as it is.
LEMMA RestartTunes ==
  ASSUME NEW f, DeviceRestart(f), ~opened
  PROVE  /\ vfo' = f \/ (vfo' = vfo /\ worker' = worker /\ buffer' = <<>>)
         /\ ~opened' => worker' \in {worker, "off", "starting"}
         /\ ~opened' /\ kind' \in {"rtlsdr", "airspy"} => buffer' = <<>>
BY DEF DeviceRestart, rtlsdrRestart, airspyRestart, sdrplayRestart, plutoRestart

\* DAB starts from a quiet device.
LEMMA RestartDab ==
  ASSUME TypeOK, Quiet, DeviceRestart(channel), channel' = channel
  PROVE  StartedDab'
<1>1. Fresh({vfo})'
  BY RestartFresh DEF Quiet, Fresh
<1> QED
  BY <1>1, RestartTunes DEF Quiet, StartedDab

\* FM starts from a quiet device, or from the one it has.
LEMMA RestartFm ==
  ASSUME TypeOK, Quiet \/ StartedFm, DeviceRestart(fmFrequency), fmFrequency' = fmFrequency
  PROVE  StartedFm'
<1>1. CASE opened
  <2>1. StartedFm /\ UNCHANGED deviceVars
    BY <1>1 DEF Quiet, DeviceRestart
  <2> QED
    BY <2>1 DEF StartedFm, deviceVars, Fresh, OfFm, Converts
<1>2. CASE ~opened
  <2>1. Fresh(OfFm)'
    BY <1>2, RestartFresh DEF Fresh
  <2>2. worker' # "off" => vfo' \in OfFm'
    BY <1>2, RestartTunes DEF Quiet, StartedFm, OfFm
  <2>3. ~opened' => worker' \in {"off", "starting"}
    BY <1>2, RestartTunes DEF Quiet, StartedFm
  <2> QED
    BY <1>2, <2>1, <2>2, <2>3, RestartTunes DEF StartedFm
<1> QED
  BY <1>1, <1>2

\* Taking one call, and two, of what is left.
LEMMA OneTaken ==
  ASSUME NEW p \in Seq(CallName), NEW i \in 1 .. Len(p), NEW k, k = i + 1,
         At(todo, p, i), todo' = Tail(todo)
  PROVE  At(todo', p, k)
BY TakeCall

LEMMA TwoTaken ==
  ASSUME NEW p \in Seq(CallName), NEW i \in 1 .. Len(p), i + 1 <= Len(p), NEW m, m = i + 2,
         At(todo, p, i), todo' = Tail(Tail(todo))
  PROVE  At(todo', p, m)
<1> DEFINE j == i + 1
<1>1. At(Tail(todo), p, j)
  BY TakeCall
<1>2. Len(p) \in Nat
  BY LenProperties
<1>3. j \in 1 .. Len(p) /\ m = j + 1
  BY <1>2
<1> HIDE DEF j
<1> QED
  BY <1>1, <1>3, TakeCall

\* stopReader is one call when the device is open, and two that are skipped when not.
LEMMA StopCall ==
  ASSUME NEW p \in Seq(CallName), NEW i \in 1 .. Len(p), i + 1 <= Len(p),
         NEW k, NEW m, k = i + 1, m = i + 2,
         TypeOK, At(todo, p, i), stopReader, Going \/ Quiet
  PROVE  /\ UNCHANGED <<decoder, channel, fmFrequency, closed, dabVars, fmVars>>
         /\ \/ At(todo', p, k) /\ Asked' /\ ~Quiet
            \/ At(todo', p, m) /\ Quiet'
<1>1. CASE opened
  <2>1. Call("stopReader") /\ DeviceStop
        /\ UNCHANGED <<decoder, channel, fmFrequency, closed, dabVars, fmVars>>
    BY <1>1 DEF stopReader, Call
  <2>2. Asked'
    BY <1>1, <2>1, StopAsked DEF Quiet
  <2> QED
    BY <1>1, <2>1, <2>2, OneTaken DEF Call, Quiet
<1>2. CASE ~opened
  <2>1. todo' = Tail(Tail(todo))
        /\ UNCHANGED <<decoder, channel, fmFrequency, closed, deviceVars, dabVars, fmVars>>
    BY <1>2 DEF stopReader
  <2>2. Quiet'
    BY <1>2, <2>1, NotOpened DEF Quiet, deviceVars
  <2> QED
    BY <2>1, <2>2, TwoTaken
<1> QED
  BY <1>1, <1>2

\* The wait for the worker leaves the device quiet.
LEMMA WaitCall ==
  ASSUME NEW p \in Seq(CallName), NEW i \in 1 .. Len(p), NEW k, k = i + 1,
         At(todo, p, i), stopReaderWait
  PROVE  /\ UNCHANGED <<decoder, channel, fmFrequency, closed, dabVars, fmVars>>
         /\ At(todo', p, k) /\ Quiet'
<1>1. /\ UNCHANGED <<decoder, channel, fmFrequency, closed, dabVars, fmVars>>
      /\ todo' = Tail(todo) /\ DeviceWait
  BY DEF stopReaderWait, Call
<1>2. At(todo', p, k)
  BY <1>1, OneTaken
<1>3. Quiet'
  BY <1>1 DEF DeviceWait, Quiet
<1> QED
  BY <1>1, <1>2, <1>3

\* From DAB.
LEMMA LeavingDabStep ==
  ASSUME TypeOK, LeavingDab, GuiStep
  PROVE  LeavingDab' \/ StartingFm' \/ Ended'
<1>1. PICK i \in 1 .. 9 : At(todo, FromDab, i) /\ LeavingDabAt(i)
  BY DEF LeavingDab
<1>2. FromDab' = FromDab /\ closed' = closed
  BY CallsKeep DEF FromDab
<1>3. FromDab \in Seq(CallName) /\ Len(FromDab) \in Nat /\ Len(FromDab) >= 9 /\ i \in 1 .. Len(FromDab)
  BY FromDabCalls, LenProperties
<1>4. Head(todo) = FromDab[i]
  BY <1>1, <1>3, TakeCall
<1>5. SUFFICES \/ \E k \in 1 .. 9 : At(todo', FromDab, k) /\ LeavingDabAt(k)'
               \/ StartingFm' \/ Ended'
  BY <1>2 DEF LeavingDab
<1>6. CASE i = 1 \/ i = 7
  <2>1. stopReader /\ (Going \/ Quiet)
    BY <1>1, <1>4, <1>6, FromDabCalls, NextCall DEF LeavingDabAt
  <2>2. /\ UNCHANGED <<decoder, dabVars, fmVars>>
        /\ (At(todo', FromDab, i + 1) /\ Asked' /\ ~Quiet) \/ (At(todo', FromDab, i + 2) /\ Quiet')
    BY <1>1, <1>3, <1>6, <2>1, StopCall
  <2>3. CASE i = 1
    <3>1. LeavingDabAt(2)' \/ ~Asked'
      BY <1>1, <2>2, <2>3 DEF LeavingDabAt, DabRuns, dabVars, fmVars
    <3>2. LeavingDabAt(3)' \/ ~Quiet'
      BY <1>1, <2>2, <2>3 DEF LeavingDabAt, DabRuns, dabVars, fmVars
    <3> QED
      BY <2>2, <2>3, <3>1, <3>2
  <2>4. CASE i = 7
    <3>1. At(todo', FromDab, 9) /\ Quiet'
      BY <1>1, <2>2, <2>4 DEF LeavingDabAt
    <3>2. LeavingDabAt(9)'
      BY <1>1, <2>2, <2>4, <3>1 DEF LeavingDabAt, BothOff, dabVars, fmVars
    <3> QED
      BY <3>1, <3>2
  <2> QED
    BY <1>6, <2>3, <2>4
<1>7. CASE i = 2 \/ i = 8
  <2>1. stopReaderWait
    BY <1>4, <1>7, FromDabCalls, NextCall
  <2>2. UNCHANGED <<decoder, dabVars, fmVars>> /\ At(todo', FromDab, i + 1) /\ Quiet'
    BY <1>1, <1>3, <2>1, WaitCall
  <2>3. LeavingDabAt(i + 1)'
    BY <1>1, <1>7, <2>2 DEF LeavingDabAt, DabRuns, BothOff, dabVars, fmVars
  <2> QED
    BY <1>7, <2>2, <2>3
<1>8. CASE i = 3 \/ i = 5
  <2>1. DabSetRunning
    BY <1>4, <1>8, FromDabCalls, NextCall
  <2>2. At(todo', FromDab, i + 1)
    BY <1>1, <1>3, <2>1, OneTaken DEF DabSetRunning, Call
  <2>3. LeavingDabAt(i + 1)'
    BY <1>1, <1>8, <2>1
       DEF LeavingDabAt, DabSetRunning, Call, DabRuns, DabTold, BothOff, Quiet, deviceVars, fmVars
  <2> QED
    BY <1>8, <2>2, <2>3
<1>9. CASE i = 4 \/ i = 6
  <2>1. DabWait
    BY <1>4, <1>9, FromDabCalls, NextCall
  <2>2. At(todo', FromDab, i + 1)
    BY <1>1, <1>3, <2>1, OneTaken DEF DabWait, Call
  <2>3. LeavingDabAt(i + 1)'
    BY <1>1, <1>9, <2>1
       DEF LeavingDabAt, DabWait, Call, DabTold, BothOff, Quiet, deviceVars, dabVars, fmVars
  <2> QED
    BY <1>9, <2>2, <2>3
<1>10. CASE i = 9
  <2>1. SetDecoder("decoder.none", "none")
    BY <1>4, <1>10, FromDabCalls, NextCall
  <2>2. decoder' = "none" /\ BothOff' /\ Quiet'
    BY <1>1, <1>10, <2>1
       DEF LeavingDabAt, SetDecoder, BothOff, Quiet, deviceVars, dabVars, fmVars
  <2>3. At(todo', FromDab, 10)
    BY <1>1, <1>3, <1>10, <2>1, OneTaken DEF SetDecoder, Call
  <2>4. CASE closed
    <3>1. todo' = <<>>
      BY <2>3, <2>4, LastCall DEF FromDab
    <3> QED
      BY <1>2, <2>2, <2>4, <3>1 DEF Ended
  <2>5. CASE ~closed
    <3>1. StartingFmAt(10)'
      BY <2>2 DEF StartingFmAt
    <3>2. At(todo', ToFm, 10) /\ ~closed'
      BY <1>2, <2>3, <2>5 DEF FromDab
    <3> QED
      BY <3>1, <3>2 DEF StartingFm
  <2> QED
    BY <2>4, <2>5
<1> QED
  BY <1>6, <1>7, <1>8, <1>9, <1>10

\* From FM.
LEMMA LeavingFmStep ==
  ASSUME TypeOK, LeavingFm, GuiStep
  PROVE  LeavingFm' \/ StartingDab' \/ Ended'
<1>1. PICK i \in 1 .. 6 : At(todo, FromFm, i) /\ LeavingFmAt(i)
  BY DEF LeavingFm
<1>2. FromFm' = FromFm /\ closed' = closed
  BY CallsKeep DEF FromFm
<1>3. FromFm \in Seq(CallName) /\ Len(FromFm) \in Nat /\ Len(FromFm) >= 6 /\ i \in 1 .. Len(FromFm)
  BY FromFmCalls, LenProperties
<1>4. Head(todo) = FromFm[i]
  BY <1>1, <1>3, TakeCall
<1>5. SUFFICES \/ \E k \in 1 .. 6 : At(todo', FromFm, k) /\ LeavingFmAt(k)'
               \/ StartingDab' \/ Ended'
  BY <1>2 DEF LeavingFm
<1>6. CASE i = 1
  <2>1. stopReader /\ Going
    BY <1>1, <1>4, <1>6, FromFmCalls, NextCall DEF LeavingFmAt
  <2>2. /\ UNCHANGED <<decoder, dabVars, fmVars>>
        /\ (At(todo', FromFm, 2) /\ Asked') \/ (At(todo', FromFm, 3) /\ Quiet')
    BY <1>1, <1>3, <1>6, <2>1, StopCall
  <2>3. Asked' => LeavingFmAt(2)'
    BY <1>1, <1>6, <2>2 DEF LeavingFmAt, FmRuns, dabVars, fmVars
  <2>4. Quiet' => LeavingFmAt(3)'
    BY <1>1, <1>6, <2>2 DEF LeavingFmAt, FmRuns, dabVars, fmVars
  <2> QED
    BY <2>2, <2>3, <2>4
<1>7. CASE i = 2
  <2>1. stopReaderWait
    BY <1>4, <1>7, FromFmCalls, NextCall
  <2>2. UNCHANGED <<decoder, dabVars, fmVars>> /\ At(todo', FromFm, 3) /\ Quiet'
    BY <1>1, <1>3, <1>7, <2>1, WaitCall
  <2>3. LeavingFmAt(3)'
    BY <1>1, <1>7, <2>2 DEF LeavingFmAt, FmRuns, dabVars, fmVars
  <2> QED
    BY <2>2, <2>3
<1>8. CASE i = 3
  <2>1. SaveFrequency
    BY <1>4, <1>8, FromFmCalls, NextCall
  <2>2. At(todo', FromFm, 4)
    BY <1>1, <1>3, <1>8, <2>1, OneTaken DEF SaveFrequency, Call
  <2>3. LeavingFmAt(4)'
    BY <1>1, <1>8, <2>1
       DEF LeavingFmAt, SaveFrequency, FmRuns, Quiet, deviceVars, dabVars, fmVars
  <2> QED
    BY <2>2, <2>3
<1>9. CASE i = 4
  <2>1. FmStop /\ FmRuns /\ Quiet
    BY <1>1, <1>4, <1>9, FromFmCalls, NextCall DEF LeavingFmAt
  <2>2. /\ todo' = Tail(todo) /\ running' = FALSE
        /\ UNCHANGED <<decoder, deviceVars, dabVars, fm>>
    BY <2>1 DEF FmStop, FmRuns
  <2>3. At(todo', FromFm, 5)
    BY <1>1, <1>3, <1>9, <2>2, OneTaken
  <2>4. FmTold' /\ Quiet'
    BY <2>1, <2>2 DEF FmRuns, FmTold, Quiet, deviceVars, dabVars
  <2>5. LeavingFmAt(5)'
    BY <1>1, <2>2, <2>4 DEF LeavingFmAt
  <2> QED
    BY <2>3, <2>5
<1>10. CASE i = 5
  <2>1. FmWait
    BY <1>4, <1>10, FromFmCalls, NextCall
  <2>2. At(todo', FromFm, 6)
    BY <1>1, <1>3, <1>10, <2>1, OneTaken DEF FmWait, Call
  <2>3. LeavingFmAt(6)'
    BY <1>1, <1>10, <2>1
       DEF LeavingFmAt, FmWait, Call, FmTold, BothOff, Quiet, deviceVars, dabVars, fmVars
  <2> QED
    BY <2>2, <2>3
<1>11. CASE i = 6
  <2>1. SetDecoder("decoder.none", "none")
    BY <1>4, <1>11, FromFmCalls, NextCall
  <2>2. decoder' = "none" /\ BothOff' /\ Quiet'
    BY <1>1, <1>11, <2>1
       DEF LeavingFmAt, SetDecoder, BothOff, Quiet, deviceVars, dabVars, fmVars
  <2>3. At(todo', FromFm, 7)
    BY <1>1, <1>3, <1>11, <2>1, OneTaken DEF SetDecoder, Call
  <2>4. CASE closed
    <3>1. todo' = <<>>
      BY <2>3, <2>4, LastCall DEF FromFm
    <3> QED
      BY <1>2, <2>2, <2>4, <3>1 DEF Ended
  <2>5. CASE ~closed
    <3>1. StartingDabAt(7)'
      BY <2>2 DEF StartingDabAt
    <3>2. At(todo', ToDab, 7) /\ ~closed'
      BY <1>2, <2>3, <2>5 DEF FromFm
    <3> QED
      BY <3>1, <3>2 DEF StartingDab
  <2> QED
    BY <2>4, <2>5
<1> QED
  BY <1>6, <1>7, <1>8, <1>9, <1>10, <1>11

\* To DAB.
LEMMA StartingDabStep ==
  ASSUME TypeOK, StartingDab, GuiStep
  PROVE  StartingDab' \/ IdleDab'
<1>1. PICK i \in 7 .. 11 : At(todo, ToDab, i) /\ ~closed /\ StartingDabAt(i)
  BY DEF StartingDab
<1>2. ToDab \in Seq(CallName) /\ i \in 1 .. Len(ToDab) /\ (i < 11 => i + 1 <= Len(ToDab))
  BY Plans
<1>3. Head(todo) = ToDab[i]
  BY <1>1, <1>2, TakeCall
<1>4. ~closed' /\ channel' = channel
  BY <1>1, CallsKeep
<1>5. SUFFICES (\E k \in 7 .. 11 : At(todo', ToDab, k) /\ StartingDabAt(k)') \/ IdleDab'
  BY <1>4 DEF StartingDab
<1>6. CASE i = 7
  <2>1. stopReader /\ Quiet
    BY <1>1, <1>3, <1>6, StartNames, NextCall DEF StartingDabAt
  <2>2. /\ UNCHANGED <<decoder, dabVars, fmVars>>
        /\ (At(todo', ToDab, 8) /\ ~Quiet) \/ (At(todo', ToDab, 9) /\ Quiet')
    BY <1>1, <1>2, <1>6, <2>1, StopCall
  <2>3. StartingDabAt(9)'
    BY <1>1, <1>6, <2>1, <2>2 DEF StartingDabAt, BothOff, dabVars, fmVars
  <2> QED
    BY <2>1, <2>2, <2>3
<1>7. CASE i = 8
  <2>1. stopReaderWait
    BY <1>3, <1>7, StartNames, NextCall
  <2>2. UNCHANGED <<decoder, dabVars, fmVars>> /\ At(todo', ToDab, 9) /\ Quiet'
    BY <1>1, <1>2, <1>7, <2>1, WaitCall
  <2>3. StartingDabAt(9)'
    BY <1>1, <1>7, <2>2 DEF StartingDabAt, BothOff, dabVars, fmVars
  <2> QED
    BY <2>2, <2>3
<1>8. CASE i = 9
  <2>1. restartReader("restartReader.dab", channel)
    BY <1>3, <1>8, StartNames, NextCall
  <2>2. At(todo', ToDab, 10)
    BY <1>1, <1>2, <1>8, <2>1, OneTaken DEF restartReader, Call
  <2>3. StartedDab'
    BY <1>1, <1>4, <1>8, <2>1, RestartDab DEF restartReader, StartingDabAt
  <2>4. StartingDabAt(10)'
    BY <1>1, <1>8, <2>1, <2>3 DEF StartingDabAt, restartReader, BothOff, dabVars, fmVars
  <2> QED
    BY <2>2, <2>4
<1>9. CASE i = 10
  <2>1. DabStart
    BY <1>3, <1>9, StartNames, NextCall
  <2>2. At(todo', ToDab, 11)
    BY <1>1, <1>2, <1>9, <2>1, OneTaken DEF DabStart, Call
  <2>3. StartedDab'
    BY <1>1, <1>4, <1>9, <2>1 DEF DabStart, StartingDabAt, StartedDab, Fresh, Converts, deviceVars
  <2>4. StartingDabAt(11)'
    BY <1>1, <1>9, <2>1, <2>3 DEF StartingDabAt, DabStart, BothOff, DabAlive, fmVars
  <2> QED
    BY <2>2, <2>4
<1>10. CASE i = 11
  <2>1. SetDecoder("decoder.dab", "dab")
    BY <1>3, <1>10, StartNames, NextCall
  <2>2. At(todo', ToDab, 12)
    BY <1>1, <1>2, <1>10, <2>1, OneTaken DEF SetDecoder, Call
  <2>3. todo' = <<>>
    BY <2>2, LastCall
  <2>4. StartedDab'
    BY <1>1, <1>4, <1>10, <2>1 DEF SetDecoder, StartingDabAt, StartedDab, Fresh, Converts, deviceVars
  <2>5. decoder' = "dab" /\ DabAlive'
    BY <1>1, <1>10, <2>1 DEF SetDecoder, StartingDabAt, DabAlive, DabRuns, dabVars, fmVars
  <2> QED
    BY <1>4, <2>3, <2>4, <2>5 DEF IdleDab
<1> QED
  BY <1>6, <1>7, <1>8, <1>9, <1>10

\* To FM, or once more to FM.
LEMMA StartingFmStep ==
  ASSUME TypeOK, StartingFm, GuiStep
  PROVE  StartingFm' \/ IdleFm'
<1>1. PICK i \in 10 .. 12 : At(todo, ToFm, i) /\ ~closed /\ StartingFmAt(i)
  BY DEF StartingFm
<1>2. ToFm \in Seq(CallName) /\ i \in 1 .. Len(ToFm)
  BY Plans
<1>3. Head(todo) = ToFm[i]
  BY <1>1, <1>2, TakeCall
<1>4. ~closed'
  BY <1>1, CallsKeep
<1>5. SUFFICES (\E k \in 10 .. 12 : At(todo', ToFm, k) /\ StartingFmAt(k)') \/ IdleFm'
  BY <1>4 DEF StartingFm
<1>6. CASE i = 10
  <2>1. restartReader("restartReader.fm", fmFrequency)
    BY <1>3, <1>6, StartNames, NextCall
  <2>2. At(todo', ToFm, 11)
    BY <1>1, <1>2, <1>6, <2>1, OneTaken DEF restartReader, Call
  <2>3. StartedFm'
    BY <1>1, <1>6, <2>1, RestartFm DEF restartReader, StartingFmAt
  <2>4. StartingFmAt(11)'
    BY <1>1, <1>6, <2>1, <2>3
       DEF StartingFmAt, restartReader, BothOff, FmAlive, FmRuns, dabVars, fmVars
  <2> QED
    BY <2>2, <2>4
<1>7. CASE i = 11
  <2>1. FmStart
    BY <1>3, <1>7, StartNames, NextCall
  <2>2. At(todo', ToFm, 12)
    BY <1>1, <1>2, <1>7, <2>1, OneTaken DEF FmStart, Call
  <2>3. StartedFm'
    BY <1>1, <1>7, <2>1 DEF FmStart, StartingFmAt, StartedFm, Fresh, OfFm, Converts, deviceVars
  <2>4. StartingFmAt(12)'
    BY <1>1, <1>7, <2>1, <2>3 DEF StartingFmAt, FmStart, BothOff, FmAlive, FmRuns, dabVars
  <2> QED
    BY <2>2, <2>4
<1>8. CASE i = 12
  <2>1. SetDecoder("decoder.fm", "fm")
    BY <1>3, <1>8, StartNames, NextCall
  <2>2. At(todo', ToFm, 13)
    BY <1>1, <1>2, <1>8, <2>1, OneTaken DEF SetDecoder, Call
  <2>3. todo' = <<>>
    BY <2>2, LastCall
  <2>4. StartedFm'
    BY <1>1, <1>8, <2>1
       DEF SetDecoder, StartingFmAt, StartedFm, Fresh, OfFm, Converts, deviceVars
  <2>5. decoder' = "fm" /\ FmAlive'
    BY <1>1, <1>8, <2>1 DEF SetDecoder, StartingFmAt, FmAlive, FmRuns, dabVars, fmVars
  <2> QED
    BY <1>4, <2>3, <2>4, <2>5 DEF IdleFm
<1> QED
  BY <1>6, <1>7, <1>8

\* To another channel.
LEMMA RetuningStep ==
  ASSUME TypeOK, Retuning, GuiStep
  PROVE  Retuning' \/ IdleDab'
<1>1. PICK i \in 1 .. 8 : At(todo, Retune, i) /\ ~closed /\ RetuningAt(i)
  BY DEF Retuning
<1>2. Retune \in Seq(CallName) /\ i \in 1 .. Len(Retune) /\ (i < 8 => i + 1 <= Len(Retune))
  BY Plans
<1>3. Head(todo) = Retune[i]
  BY <1>1, <1>2, TakeCall
<1>4. ~closed' /\ channel' = channel
  BY <1>1, CallsKeep
<1>5. SUFFICES (\E k \in 1 .. 8 : At(todo', Retune, k) /\ RetuningAt(k)') \/ IdleDab'
  BY <1>4 DEF Retuning
<1>6. CASE i = 1
  <2>1. DabSetRunning
    BY <1>3, <1>6, RetuneNames, NextCall
  <2>2. At(todo', Retune, 2)
    BY <1>1, <1>2, <1>6, <2>1, OneTaken DEF DabSetRunning, Call
  <2>3. RetuningAt(2)'
    BY <1>1, <1>6, <2>1 DEF RetuningAt, DabSetRunning, DabRuns, DabTold, Going, deviceVars, fmVars
  <2> QED
    BY <2>2, <2>3
<1>7. CASE i = 2
  <2>1. DabWait
    BY <1>3, <1>7, RetuneNames, NextCall
  <2>2. At(todo', Retune, 3)
    BY <1>1, <1>2, <1>7, <2>1, OneTaken DEF DabWait, Call
  <2>3. RetuningAt(3)'
    BY <1>1, <1>7, <2>1
       DEF RetuningAt, DabWait, DabTold, BothOff, Going, deviceVars, dabVars, fmVars
  <2> QED
    BY <2>2, <2>3
<1>8. CASE i = 3 \/ i = 5
  <2>1. stopReader /\ (Going \/ Quiet)
    BY <1>1, <1>3, <1>8, RetuneNames, NextCall DEF RetuningAt
  <2>2. /\ UNCHANGED <<decoder, dabVars, fmVars>>
        /\ (At(todo', Retune, i + 1) /\ Asked' /\ ~Quiet) \/ (At(todo', Retune, i + 2) /\ Quiet')
    BY <1>1, <1>2, <1>8, <2>1, StopCall
  <2>3. CASE At(todo', Retune, i + 1) /\ Asked' /\ ~Quiet
    <3>1. i = 3
      BY <1>1, <1>8, <2>3 DEF RetuningAt
    <3>2. RetuningAt(4)'
      BY <1>1, <2>2, <2>3, <3>1 DEF RetuningAt, BothOff, dabVars, fmVars
    <3> QED
      BY <2>3, <3>1, <3>2
  <2>4. CASE At(todo', Retune, i + 2) /\ Quiet'
    <3>1. RetuningAt(i + 2)'
      BY <1>1, <1>8, <2>2, <2>4 DEF RetuningAt, BothOff, dabVars, fmVars
    <3> QED
      BY <1>8, <2>4, <3>1
  <2> QED
    BY <2>2, <2>3, <2>4
<1>9. CASE i = 4 \/ i = 6
  <2>1. stopReaderWait
    BY <1>3, <1>9, RetuneNames, NextCall
  <2>2. UNCHANGED <<decoder, dabVars, fmVars>> /\ At(todo', Retune, i + 1) /\ Quiet'
    BY <1>1, <1>2, <2>1, WaitCall
  <2>3. RetuningAt(i + 1)'
    BY <1>1, <1>9, <2>2 DEF RetuningAt, BothOff, dabVars, fmVars
  <2> QED
    BY <1>9, <2>2, <2>3
<1>10. CASE i = 7
  <2>1. restartReader("restartReader.dab", channel)
    BY <1>3, <1>10, RetuneNames, NextCall
  <2>2. At(todo', Retune, 8)
    BY <1>1, <1>2, <1>10, <2>1, OneTaken DEF restartReader, Call
  <2>3. StartedDab'
    BY <1>1, <1>4, <1>10, <2>1, RestartDab DEF restartReader, RetuningAt
  <2>4. RetuningAt(8)'
    BY <1>1, <1>10, <2>1, <2>3 DEF RetuningAt, restartReader, BothOff, dabVars, fmVars
  <2> QED
    BY <2>2, <2>4
<1>11. CASE i = 8
  <2>1. DabStart
    BY <1>3, <1>11, RetuneNames, NextCall
  <2>2. At(todo', Retune, 9)
    BY <1>1, <1>2, <1>11, <2>1, OneTaken DEF DabStart, Call
  <2>3. todo' = <<>>
    BY <2>2, LastCall
  <2>4. StartedDab'
    BY <1>1, <1>4, <1>11, <2>1 DEF DabStart, RetuningAt, StartedDab, Fresh, Converts, deviceVars
  <2>5. decoder' = "dab" /\ DabAlive'
    BY <1>1, <1>11, <2>1 DEF DabStart, RetuningAt, BothOff, DabAlive, fmVars
  <2> QED
    BY <1>4, <2>3, <2>4, <2>5 DEF IdleDab
<1> QED
  BY <1>6, <1>7, <1>8, <1>9, <1>10, <1>11

\* A restart does not take from a reader what it was promised: none reads, or the
\* device had nothing.
LEMMA RestartHarmless ==
  ASSUME Always, Place, restartReader("restartReader.dab", channel)
                          \/ restartReader("restartReader.fm", fmFrequency),
         ~opened, kind \in {"rtlsdr", "airspy"}
  PROVE  dab # "fetching" /\ fm # "fetching"
<1>1. todo # <<>> /\ Head(todo) \in {"restartReader.dab", "restartReader.fm"}
  BY DEF restartReader, Call
<1>2. CASE LeavingDab
  <2> PICK i \in 1 .. 9 : At(todo, FromDab, i) /\ LeavingDabAt(i)
    BY <1>2 DEF LeavingDab
  <2>1. FromDab \in Seq(CallName) /\ i \in 1 .. Len(FromDab)
    BY FromDabCalls, LenProperties
  <2>2. Head(todo) = FromDab[i]
    BY <2>1, TakeCall
  <2> QED
    BY <1>1, <2>2, FromDabCalls
<1>3. CASE LeavingFm
  <2> PICK i \in 1 .. 6 : At(todo, FromFm, i) /\ LeavingFmAt(i)
    BY <1>3 DEF LeavingFm
  <2>1. FromFm \in Seq(CallName) /\ i \in 1 .. Len(FromFm)
    BY FromFmCalls, LenProperties
  <2>2. Head(todo) = FromFm[i]
    BY <2>1, TakeCall
  <2> QED
    BY <1>1, <2>2, FromFmCalls
<1>4. CASE StartingDab
  <2> PICK i \in 7 .. 11 : At(todo, ToDab, i) /\ StartingDabAt(i)
    BY <1>4 DEF StartingDab
  <2>1. ToDab \in Seq(CallName) /\ i \in 1 .. Len(ToDab)
    BY Plans
  <2>2. Head(todo) = ToDab[i]
    BY <2>1, TakeCall
  <2>3. i = 9
    BY <1>1, <2>2, StartNames
  <2> QED
    BY <2>3 DEF StartingDabAt, BothOff
<1>5. CASE StartingFm
  <2> PICK i \in 10 .. 12 : At(todo, ToFm, i) /\ StartingFmAt(i)
    BY <1>5 DEF StartingFm
  <2>1. ToFm \in Seq(CallName) /\ i \in 1 .. Len(ToFm)
    BY Plans
  <2>2. Head(todo) = ToFm[i]
    BY <2>1, TakeCall
  <2>3. i = 10
    BY <1>1, <2>2, StartNames
  <2>4. BothOff \/ StartedFm
    BY <2>3 DEF StartingFmAt
  <2> QED
    BY <2>4 DEF BothOff, StartedFm, Always, PromisedSamples
<1>6. CASE Retuning
  <2> PICK i \in 1 .. 8 : At(todo, Retune, i) /\ RetuningAt(i)
    BY <1>6 DEF Retuning
  <2>1. Retune \in Seq(CallName) /\ i \in 1 .. Len(Retune)
    BY Plans
  <2>2. Head(todo) = Retune[i]
    BY <2>1, TakeCall
  <2>3. i = 7
    BY <1>1, <2>2, RetuneNames
  <2> QED
    BY <2>3 DEF RetuningAt, BothOff
<1> QED
  BY <1>1, <1>2, <1>3, <1>4, <1>5, <1>6 DEF Place, IdleDab, IdleFm, Ended

\* A restart, in any of its forms, keeps what always holds.
LEMMA RestartAlways ==
  ASSUME TypeOK, Always, Place, NEW f \in Frequency, DeviceRestart(f),
         restartReader("restartReader.dab", channel)
           \/ restartReader("restartReader.fm", fmFrequency)
  PROVE  Always'
<1>1. dab' = dab /\ fm' = fm
  BY DEF restartReader, dabVars, fmVars
<1>2. kind' = kind /\ (buffer' = buffer \/ buffer' = <<>>)
  BY RestartBuffer
<1>3. (kind = "rtlsdr" => left' = 0) /\ (kind = "airspy" => left' \in {0, 1})
  BY DEF DeviceRestart, deviceVars, rtlsdrRestart, airspyRestart, sdrplayRestart, plutoRestart,
         Always
<1>4. \A i \in 1 .. Len(buffer') : buffer'[i] # {}
  <2>1. Len(<<>>) = 0
    BY EmptySeq
  <2> QED
    BY <1>2, <2>1 DEF Always
<1>5. PromisedSamples'
  BY <1>1, RestartBuffer, RestartHarmless DEF Always, PromisedSamples
<1> QED
  BY <1>2, <1>3, <1>4, <1>5 DEF Always

\* The calls keep the types and what always holds.
LEMMA GuiKeeps ==
  ASSUME TypeOK, Always, Place, GuiStep
  PROVE  TypeOK' /\ Always'
<1>1. CASE SetDecoder("decoder.dab", "dab") \/ SetDecoder("decoder.fm", "fm")
             \/ SetDecoder("decoder.none", "none")
  BY <1>1 DEF SetDecoder, Call, TypeOK, Always, PromisedSamples, deviceVars, dabVars, fmVars
<1>2. CASE stopReader \/ stopReaderWait
  <2>1. /\ UNCHANGED <<decoder, channel, fmFrequency, closed, dabVars, fmVars>>
        /\ UNCHANGED <<kind, vfo, buffer, carried, left>>
        /\ opened' \in BOOLEAN /\ worker' \in WorkerState
    BY <1>2 DEF TypeOK, stopReader, stopReaderWait, Call, DeviceStop, rtlsdrStop, libraryStop,
                plutoStop, DeviceWait, deviceVars, WorkerState
  <2> QED
    BY <2>1 DEF TypeOK, Always, PromisedSamples, dabVars, fmVars
<1>3. CASE SaveFrequency
  BY <1>3 DEF SaveFrequency, Call, TypeOK, Always, PromisedSamples, deviceVars, dabVars, fmVars
<1>4. CASE restartReader("restartReader.dab", channel)
             \/ restartReader("restartReader.fm", fmFrequency)
  <2>1. PICK f \in Frequency : DeviceRestart(f)
    BY <1>4 DEF restartReader, TypeOK, Frequency
  <2>2. UNCHANGED <<decoder, channel, fmFrequency, closed, dabVars, fmVars>>
    BY <1>4 DEF restartReader, Call
  <2>3. TypeOK'
    BY <2>1, <2>2, RestartBuffer DEF TypeOK, dabVars, fmVars
  <2> QED
    BY <1>4, <2>1, <2>3, RestartAlways
<1>5. CASE DabStart \/ DabSetRunning \/ DabWait
  BY <1>5 DEF DabStart, DabSetRunning, DabWait, Call, TypeOK, Always, PromisedSamples,
              deviceVars, dabVars, fmVars, ThreadState
<1>6. CASE FmStart \/ FmStop \/ FmWait
  BY <1>6 DEF FmStart, FmStop, FmWait, Call, TypeOK, Always, PromisedSamples,
              deviceVars, dabVars, fmVars, ThreadState
<1> QED
  BY <1>1, <1>2, <1>3, <1>4, <1>5, <1>6 DEF GuiStep

\* The calls move the GUI thread.
LEMMA GuiPlace ==
  ASSUME TypeOK, Place, GuiStep
  PROVE  Place'
<1>1. todo # <<>>
  BY DEF GuiStep, stopReader, stopReaderWait, SaveFrequency, restartReader, DabStart,
         DabSetRunning, DabWait, FmStart, FmStop, FmWait, SetDecoder, Call
<1> QED
  BY <1>1, LeavingDabStep, LeavingFmStep, StartingDabStep, StartingFmStep, RetuningStep
     DEF Place, IdleDab, IdleFm, Ended
-----------------------------------------------------------------------------
(* What the user does.                                                     *)

\* While a handler runs, calls are left.
LEMMA IdlePlaces ==
  ASSUME Place, Idle
  PROVE  IdleDab \/ IdleFm
<1>1. ASSUME NEW p \in Seq(CallName), NEW i \in 1 .. Len(p), At(todo, p, i)
      PROVE  FALSE
  BY <1>1, TakeCall DEF Idle
<1>2. ~LeavingDab
  BY <1>1, FromDabCalls, LenProperties DEF LeavingDab
<1>3. ~LeavingFm
  BY <1>1, FromFmCalls, LenProperties DEF LeavingFm
<1>4. ~StartingDab
  <2>1. ToDab \in Seq(CallName) /\ 7 .. 11 \subseteq 1 .. Len(ToDab)
    BY Plans
  <2> QED
    BY <1>1, <2>1 DEF StartingDab
<1>5. ~StartingFm
  <2>1. ToFm \in Seq(CallName) /\ 10 .. 12 \subseteq 1 .. Len(ToFm)
    BY Plans
  <2> QED
    BY <1>1, <2>1 DEF StartingFm
<1>6. ~Retuning
  <2>1. Retune \in Seq(CallName) /\ 1 .. 8 \subseteq 1 .. Len(Retune)
    BY Plans
  <2> QED
    BY <1>1, <2>1 DEF Retuning
<1> QED
  BY <1>2, <1>3, <1>4, <1>5, <1>6 DEF Place, Ended, Idle

\* When everything has settled, a handler finds the readers at work.
LEMMA SettledPlaces ==
  ASSUME Settled
  PROVE  /\ IdleDab => decoder = "dab" /\ DabRuns /\ Going
         /\ IdleFm => decoder = "fm" /\ FmRuns /\ Going
BY DEF Settled, IdleDab, IdleFm, DabAlive, FmAlive, FmRuns, StartedDab, StartedFm, Going

\* A handler that leaves DAB, or FM, begins.
LEMMA BeginLeaving ==
  ASSUME UNCHANGED <<decoder, fmFrequency, deviceVars, dabVars, fmVars>>, Going
  PROVE  /\ decoder = "dab" /\ DabRuns /\ At(todo', FromDab', 1) => LeavingDab'
         /\ decoder = "fm" /\ FmRuns /\ At(todo', FromFm', 1) => LeavingFm'
<1>1. decoder = "dab" /\ DabRuns => LeavingDabAt(1)'
  BY DEF LeavingDabAt, DabRuns, Going, deviceVars, dabVars, fmVars
<1>2. decoder = "fm" /\ FmRuns => LeavingFmAt(1)'
  BY DEF LeavingFmAt, FmRuns, Going, deviceVars, dabVars, fmVars
<1> QED
  BY <1>1, <1>2 DEF LeavingDab, LeavingFm

\* Every handler begins where the one before it ended.
LEMMA UserPlace ==
  ASSUME TypeOK, Place, Settled, UserStep
  PROVE  Place'
<1>1. IdleDab \/ IdleFm
  BY IdlePlaces DEF UserStep, ClickDab, ClickFm, SelectChannel, NewFrequency, Close, Handler
<1>2. CASE ClickDab
  <2>1. IdleFm /\ ~closed /\ closed' = closed /\ todo' = set_dabSystem
        /\ UNCHANGED <<decoder, fmFrequency, deviceVars, dabVars, fmVars>>
    BY <1>1, <1>2 DEF ClickDab, Handler, IdleDab, IdleFm
  <2>2. decoder = "fm" /\ FmRuns /\ Going
    BY <2>1, SettledPlaces
  <2>3. At(todo', FromFm', 1)
    BY <2>1, <2>2, HandlerCalls DEF FromFm
  <2> QED
    BY <2>1, <2>2, <2>3, BeginLeaving DEF Place
<1>3. CASE ClickFm
  <2>1. ~closed' /\ todo' = set_fmSystem
        /\ UNCHANGED <<decoder, fmFrequency, deviceVars, dabVars, fmVars>>
    BY <1>3 DEF ClickFm, Handler, Idle
  <2>2. CASE IdleDab
    <3>1. decoder = "dab" /\ DabRuns /\ Going
      BY <2>2, SettledPlaces
    <3>2. At(todo', FromDab', 1)
      BY <2>1, <3>1, HandlerCalls DEF FromDab
    <3> QED
      BY <2>1, <3>1, <3>2, BeginLeaving DEF Place
  <2>3. CASE IdleFm
    <3>1. decoder = "fm" /\ FmAlive /\ StartedFm
      BY <2>3 DEF IdleFm
    <3>2. At(todo', ToFm, 10)
      BY <2>1, <3>1, HandlerCalls
    <3>3. StartingFmAt(10)'
      BY <2>1, <3>1 DEF StartingFmAt, FmAlive, FmRuns, StartedFm, Fresh, OfFm, Converts,
                        deviceVars, dabVars, fmVars
    <3> QED
      BY <2>1, <3>2, <3>3 DEF Place, StartingFm
  <2> QED
    BY <1>1, <2>2, <2>3
<1>4. CASE \E c \in Channel : SelectChannel(c)
  <2>1. IdleDab /\ ~closed' /\ todo' = stopChannel \o startChannel
        /\ UNCHANGED <<decoder, fmFrequency, deviceVars, dabVars, fmVars>>
    BY <1>1, <1>4 DEF SelectChannel, Handler, Idle, IdleDab, IdleFm
  <2>2. decoder = "dab" /\ DabRuns /\ Going
    BY <2>1, SettledPlaces
  <2>3. At(todo', Retune, 1)
    BY <2>1, HandlerCalls
  <2>4. RetuningAt(1)'
    BY <2>1, <2>2 DEF RetuningAt, DabRuns, Going, deviceVars, dabVars, fmVars
  <2> QED
    BY <2>1, <2>3, <2>4 DEF Place, Retuning
<1>5. CASE \E f \in FmFrequency : NewFrequency(f)
  <2>1. IdleFm /\ vfo' \in FmFrequency
        /\ UNCHANGED <<kind, opened, worker, buffer, carried, left, guiVars, dabVars, fmVars>>
    BY <1>1, <1>5 DEF NewFrequency, setVFOFrequency, IdleDab, IdleFm
  <2>2. StartedFm'
    BY <2>1 DEF IdleFm, StartedFm, Fresh, OfFm, Converts, guiVars
  <2>3. IdleFm'
    BY <2>1, <2>2 DEF IdleFm, FmAlive, FmRuns, guiVars, dabVars, fmVars
  <2> QED
    BY <2>3 DEF Place
<1>6. CASE Close
  <2>1. closed' /\ UNCHANGED <<decoder, fmFrequency, deviceVars, dabVars, fmVars>>
        /\ (decoder = "dab" => todo' = stop_dabSystem)
        /\ (decoder = "fm" => todo' = stop_fmSystem)
    BY <1>6 DEF Close, Handler
  <2>2. Going /\ ((decoder = "dab" /\ DabRuns) \/ (decoder = "fm" /\ FmRuns))
    BY <1>1, SettledPlaces
  <2>3. (decoder = "dab" => At(todo', FromDab', 1)) /\ (decoder = "fm" => At(todo', FromFm', 1))
    BY <2>1, HandlerCalls DEF FromDab, FromFm
  <2> QED
    BY <2>1, <2>2, <2>3, BeginLeaving DEF Place
<1> QED
  BY <1>2, <1>3, <1>4, <1>5, <1>6 DEF UserStep

\* The user keeps the types and what always holds.
LEMMA UserKeeps ==
  ASSUME TypeOK, Always, UserStep
  PROVE  TypeOK' /\ Always'
<1>1. CASE ClickDab \/ ClickFm \/ Close \/ \E c \in Channel : SelectChannel(c)
  <2>1. /\ UNCHANGED <<decoder, fmFrequency, deviceVars, dabVars, fmVars>>
        /\ channel' \in Channel /\ closed' \in BOOLEAN
    BY <1>1 DEF ClickDab, ClickFm, Close, SelectChannel, Handler, TypeOK
  <2> QED
    BY <2>1 DEF TypeOK, Always, PromisedSamples, deviceVars, dabVars, fmVars
<1>2. CASE \E f \in FmFrequency : NewFrequency(f)
  <2>1. /\ vfo' \in FmFrequency
        /\ UNCHANGED <<kind, opened, worker, buffer, carried, left, guiVars, dabVars, fmVars>>
    BY <1>2 DEF NewFrequency, setVFOFrequency
  <2> QED
    BY <2>1 DEF TypeOK, Always, PromisedSamples, Frequency, guiVars, dabVars, fmVars
<1> QED
  BY <1>1, <1>2 DEF UserStep
-----------------------------------------------------------------------------
(* The theorems.                                                           *)

\* duoReceiver starts with one of the two handlers.
LEMMA InitIInv ==
  ASSUME Init
  PROVE  IInv
<1>1. <<>> \in Seq(SUBSET Frequency) /\ Len(<<>>) = 0
  BY EmptySeq
<1>2. BufferSize \in Nat \ {0}
  BY ThreadsAssumption DEF ThreadsAssumption
<1>3. TypeOK
  <2>1. /\ decoder = "none" /\ channel \in Channel /\ fmFrequency \in Frequency /\ closed = FALSE
        /\ kind \in Kind /\ opened = FALSE /\ worker = "off" /\ vfo \in Frequency
        /\ carried = {} /\ dab = "off" /\ reading = TRUE /\ fm = "off" /\ running = FALSE
    BY DEF Init, DeviceInit, Frequency
  <2>2. buffer \in Seq(SUBSET Frequency) /\ Len(buffer) <= BufferSize /\ left \in 0 .. BufferSize + 1
    BY <1>1, <1>2 DEF Init, DeviceInit
  <2> QED
    BY <2>1, <2>2 DEF TypeOK, WorkerState, ThreadState
<1>4. Always
  BY <1>1 DEF Init, DeviceInit, Always, PromisedSamples
<1>5. decoder = "none" /\ BothOff /\ Quiet /\ ~closed
  BY DEF Init, DeviceInit, BothOff, Quiet
<1>6. CASE todo = set_dabSystem
  <2>1. At(todo, ToDab, 7)
    BY <1>5, <1>6, HandlerCalls
  <2>2. StartingDabAt(7)
    BY <1>5 DEF StartingDabAt
  <2> QED
    BY <1>3, <1>4, <1>5, <2>1, <2>2 DEF IInv, Place, StartingDab
<1>7. CASE todo = set_fmSystem
  <2>1. At(todo, ToFm, 10)
    BY <1>5, <1>7, HandlerCalls
  <2>2. StartingFmAt(10)
    BY <1>5 DEF StartingFmAt
  <2> QED
    BY <1>3, <1>4, <1>5, <2>1, <2>2 DEF IInv, Place, StartingFm
<1> QED
  BY <1>6, <1>7 DEF Init

\* Every step of the patient system keeps the invariant.
LEMMA NextIInv ==
  ASSUME IInv, [PatientNext]_vars
  PROVE  IInv'
<1>1. CASE Settled /\ UserStep
  BY <1>1, UserKeeps, UserPlace DEF IInv
<1>2. CASE GuiStep
  BY <1>2, GuiKeeps, GuiPlace DEF IInv
<1>3. CASE OtherStep
  BY <1>3, OtherType, OtherAlways, OtherPlace DEF IInv
<1>4. CASE UNCHANGED vars
  <2>1. UNCHANGED <<guiVars, deviceVars, dabVars, fmVars>>
    BY <1>4 DEF vars
  <2>2. TypeOK' /\ Always'
    BY <2>1 DEF IInv, TypeOK, Always, PromisedSamples, guiVars, deviceVars, dabVars, fmVars
  <2>3. /\ DabRuns' = DabRuns /\ DabTold' = DabTold /\ DabAlive' = DabAlive
        /\ FmRuns' = FmRuns /\ FmTold' = FmTold /\ FmAlive' = FmAlive
        /\ BothOff' = BothOff /\ Going' = Going /\ Asked' = Asked /\ Quiet' = Quiet
    BY <2>1 DEF DabRuns, DabTold, DabAlive, FmRuns, FmTold, FmAlive, BothOff, Going, Asked,
                Quiet, deviceVars, dabVars, fmVars
  <2>4. StartedDab' = StartedDab /\ StartedFm' = StartedFm
    BY <2>1 DEF StartedDab, StartedFm, Fresh, OfFm, Converts, guiVars, deviceVars
  <2>5. \A i : /\ LeavingDabAt(i)' = LeavingDabAt(i) /\ LeavingFmAt(i)' = LeavingFmAt(i)
               /\ StartingDabAt(i)' = StartingDabAt(i) /\ StartingFmAt(i)' = StartingFmAt(i)
               /\ RetuningAt(i)' = RetuningAt(i)
    BY <2>1, <2>3, <2>4 DEF LeavingDabAt, LeavingFmAt, StartingDabAt, StartingFmAt, RetuningAt,
                            guiVars
  <2>6. /\ LeavingDab => LeavingDab'
        /\ LeavingFm => LeavingFm'
        /\ StartingDab => StartingDab'
        /\ StartingFm => StartingFm'
        /\ Retuning => Retuning'
    BY <2>1, <2>5 DEF LeavingDab, LeavingFm, StartingDab, StartingFm, Retuning, FromDab, FromFm,
                      guiVars
  <2>7. IdleDab' = IdleDab /\ IdleFm' = IdleFm /\ Ended' = Ended
    BY <2>1, <2>3, <2>4 DEF IdleDab, IdleFm, Ended, guiVars
  <2> QED
    BY <2>2, <2>6, <2>7 DEF IInv, Place
<1> QED
  BY <1>1, <1>2, <1>3, <1>4 DEF PatientNext, ThreadStep, OtherStep

\* What is between two handlers.
LEMMA IdleStates ==
  ASSUME IInv
  PROVE  todo = <<>> => IdleDab \/ IdleFm \/ Ended
<1>1. CASE closed /\ todo = <<>>
  <2>1. ASSUME NEW p \in Seq(CallName), NEW i \in 1 .. Len(p), At(todo, p, i)
        PROVE  FALSE
    BY <1>1, <2>1, TakeCall
  <2>2. ~LeavingDab
    BY <2>1, FromDabCalls, LenProperties DEF LeavingDab
  <2>3. ~LeavingFm
    BY <2>1, FromFmCalls, LenProperties DEF LeavingFm
  <2> QED
    BY <1>1, <2>2, <2>3 DEF IInv, Place, StartingDab, StartingFm, Retuning
<1>2. CASE ~closed /\ todo = <<>>
  BY <1>2, IdlePlaces DEF IInv, Idle
<1> QED
  BY <1>1, <1>2

\* The invariant has SingleReader and PromisedSamples.
LEMMA IInvReaders ==
  ASSUME IInv
  PROVE  SingleReader /\ PromisedSamples
BY PlaceApart DEF IInv, Always, SingleReader, Reads

\* The invariant has OwnThreads.
LEMMA IInvOwn ==
  ASSUME IInv
  PROVE  OwnThreads
<1> SUFFICES ASSUME todo = <<>>
             PROVE  /\ (decoder = "dab") = (dab # "off")
                    /\ (decoder = "fm") = (fm # "off")
                    /\ Delivers => \/ decoder = "dab" /\ vfo = channel
                                   \/ decoder = "fm" /\ vfo \in FmFrequency \union {fmFrequency}
                    /\ closed => decoder = "none" /\ ~opened /\ worker = "off"
  BY DEF OwnThreads
<1>1. CASE IdleDab
  BY <1>1 DEF IdleDab, DabAlive, DabRuns, StartedDab, Delivers
<1>2. CASE IdleFm
  BY <1>2 DEF IdleFm, FmAlive, FmRuns, StartedFm, OfFm, Delivers
<1>3. CASE Ended
  BY <1>3 DEF Ended, BothOff, Quiet, Delivers
<1> QED
  BY <1>1, <1>2, <1>3, IdleStates

\* The invariant has NoStaleSamples.
LEMMA IInvFresh ==
  ASSUME IInv
  PROVE  NoStaleSamples
<1>1. TypeOK /\ Always /\ BufferSize \in Nat \ {0}
  BY ThreadsAssumption DEF ThreadsAssumption, IInv
<1>2. /\ buffer \in Seq(SUBSET Frequency) /\ DOMAIN buffer = 1 .. Len(buffer)
      /\ Len(buffer) \in Nat /\ (buffer # <<>> <=> Len(buffer) > 0)
  BY <1>1, BufferType, LenProperties
<1>3. CASE Idle /\ IdleDab
  <2>1. \A i \in DOMAIN buffer : i > left => buffer[i] \subseteq {vfo}
    BY <1>2, <1>3 DEF IdleDab, StartedDab, Fresh
  <2>2. ASSUME dab = "fetching", left = 0
        PROVE  Head(buffer) = {channel}
    <3>1. buffer # <<>> /\ 1 \in 1 .. Len(buffer) /\ 1 > left
      BY <1>1, <1>2, <2>2 DEF Always, PromisedSamples
    <3>2. vfo = channel
      BY <1>3, <3>1 DEF IdleDab, StartedDab
    <3>3. buffer[1] # {} /\ buffer[1] \subseteq {channel}
      BY <1>1, <1>2, <2>1, <3>1, <3>2 DEF Always
    <3>4. Head(buffer) = buffer[1]
      BY <1>2, <3>1
    <3> QED
      BY <3>3, <3>4
  <2>3. decoder = "dab"
    BY <1>3 DEF IdleDab
  <2> QED
    BY <1>1, <2>1, <2>2, <2>3 DEF NoStaleSamples, Always
<1>4. CASE Idle /\ IdleFm
  <2>1. \A i \in DOMAIN buffer : i > left => buffer[i] \subseteq FmFrequency \union {fmFrequency}
    BY <1>2, <1>4 DEF IdleFm, StartedFm, Fresh, OfFm
  <2>2. decoder = "fm" /\ dab # "fetching"
    BY <1>4 DEF IdleFm, FmAlive, FmRuns
  <2> QED
    BY <1>1, <2>1, <2>2 DEF NoStaleSamples, Always
<1>5. CASE ~Idle
  BY <1>5 DEF NoStaleSamples
<1> QED
  BY <1>3, <1>4, <1>5, IdlePlaces DEF IInv

\* The invariant holds always, whatever the device, for a user who waits.
THEOREM Invariance == PatientSpec => []IInv
<1>1. Init => IInv
  BY InitIInv
<1>2. IInv /\ [PatientNext]_vars => IInv'
  BY NextIInv
<1> QED
  BY <1>1, <1>2, PTL DEF PatientSpec

\* Every variable keeps its type.
THEOREM TypeCorrect == PatientSpec => []TypeOK
<1>1. IInv => TypeOK
  BY DEF IInv
<1> QED
  BY <1>1, Invariance, PTL

\* dabProcessor and fmProcessor never read the buffer of the device at the same
\* time.
THEOREM OneReader == PatientSpec => []SingleReader
<1>1. IInv => SingleReader
  BY IInvReaders
<1> QED
  BY <1>1, Invariance, PTL

\* Between Samples () and getSamples nothing is taken away: no other reader, and
\* no restartReader that flushes.
THEOREM PromiseKept == PatientSpec => []PromisedSamples
<1>1. IInv => PromisedSamples
  BY IInvReaders
<1> QED
  BY <1>1, Invariance, PTL

\* When a handler has returned, the threads that run and the frequency that is
\* received are those of the system that is on; after the close there are none.
THEOREM ThreadsOfDecoder == PatientSpec => []OwnThreads
<1>1. IInv => OwnThreads
  BY IInvOwn
<1> QED
  BY <1>1, Invariance, PTL

\* When a handler has returned, only what is left from before the start of the
\* device is of another frequency, and how much that is depends on the device.
THEOREM StaleBounded == PatientSpec => []NoStaleSamples
<1>1. IInv => NoStaleSamples
  BY IInvFresh
<1> QED
  BY <1>1, Invariance, PTL
=============================================================================
