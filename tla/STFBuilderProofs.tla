---------------------------- MODULE STFBuilderProofs ----------------------------
(***************************************************************************)
(* Theorems about STFBuilder, for any number of frames in a sub time frame, of     *)
(* data words, of destinations, of lost words and of runs, all options, and        *)
(* messages of any length.                                                   *)
(***************************************************************************)
EXTENDS STFBuilder, SequenceLemmas

-----------------------------------------------------------------------------
(* What the constants are, one by one.                                         *)
LEMMA Constants ==
  /\ MaxHBF \in Nat \ {0} /\ NumDestination \in Nat \ {0} /\ SplitMethod \in Nat
  /\ MaxErrors \in Nat /\ FrameIdModulus \in Nat \ {0} /\ DataPerBeat \in Nat
  /\ OutputHWM \in Nat \ {0} /\ MaxBeats \in Nat /\ MaxMessage \in Nat \ {0}
  /\ MaxLost \in Nat /\ MaxRuns \in Nat
BY STFConstantsAssumption DEF STFConstantsAssumption

(* The stream has a length, and every word a frame id.                              *)
LEMMA StreamType == StreamLength \in Nat /\ WordsPerBeat \in Nat \ {0}
<1> DEFINE w == WordsPerBeat
<1>1. w \in Nat \ {0} /\ MaxBeats \in Nat
  BY Constants DEF WordsPerBeat
<1> HIDE DEF w
<1>2. MaxBeats * w \in Nat
  BY <1>1
<1> QED BY <1>1, <1>2 DEF StreamLength, w

(* Frame ids are below the modulus. *)
LEMMA FrameIdType ==
  ASSUME NEW n \in Nat
  PROVE  BeatOf(n) \in Int /\ FrameId(n) \in 0 .. FrameIdModulus - 1
<1> DEFINE b == BeatOf(n)
           w == WordsPerBeat
<1>1. b \in Int
  <2>1. w \in Nat \ {0}
    BY StreamType
  <2> HIDE DEF w
  <2>2. (n - 1) \div w \in Int
    BY <2>1
  <2> QED BY <2>2 DEF BeatOf, w
<1> HIDE DEF b
<1>2. b % FrameIdModulus \in 0 .. FrameIdModulus - 1
  BY <1>1, Constants
<1> QED BY <1>1, <1>2 DEF FrameId, b

-----------------------------------------------------------------------------
(* The variables keep their types.  They come in groups.                             *)
ControlOK ==
  /\ pc \in {"ready", "idle", "build", "copy", "send", "drain"}
  /\ stopRequested \in BOOLEAN
WordsOK    == msg \in Seq(Nat) /\ segment \in Seq(Nat) /\ fInputPayloads \in Seq(Nat)
DelimiterOK == hbf_flag \in {0, 1} /\ fdelimiterFrameId \in 0 .. FrameIdModulus - 1
(* With split method 0 the counter does not reach MaxHBF.                             *)
CounterOK  ==
  /\ fHBFCounter \in 0 .. MaxHBF
  /\ SplitMethod = 0 => fHBFCounter < MaxHBF
IdsOK      == fSTFId \in -1 .. FrameIdModulus - 1 /\ fSTFSequenceNumber \in Nat
FramesOK   == fThrottling \in BOOLEAN /\ fWorkingPayloads \in Seq(Seq(Nat))
OutputsOK  == fOutputPayloads \in Seq(STFs) /\ (pc = "send" => fOutputPayloads # <<>>)
DeliveryOK ==
  /\ err_count \in 0 .. MaxErrors
  /\ output \in [Destinations -> 0 .. OutputHWM]
  /\ sent \in Seq(STFs)
SourceOK ==
  /\ wire \in Seq(Nat) /\ pos \in 0 .. StreamLength /\ lostWords \in 0 .. MaxLost
  /\ runStart \in 0 .. pos /\ upstream \in BOOLEAN /\ run \in 0 .. MaxRuns

FramingOK == WordsOK /\ DelimiterOK /\ CounterOK /\ IdsOK /\ FramesOK
Types     == ControlOK /\ FramingOK /\ OutputsOK /\ DeliveryOK /\ SourceOK

(* The groups are the type invariant, and the bound of the counter.                    *)
LEMMA TypesImply == Types => TypeOK
BY DEF Types, ControlOK, FramingOK, WordsOK, DelimiterOK, CounterOK, IdsOK, FramesOK, OutputsOK,
       DeliveryOK, SourceOK, TypeOK

(* The device starts well typed.                                                    *)
LEMMA TypesInit == Init => Types
<1> SUFFICES ASSUME Init PROVE Types
  OBVIOUS
<1> USE DEF Init
<1>1. stopRequested \in BOOLEAN /\ fThrottling \in BOOLEAN /\ upstream \in BOOLEAN
  BY Zenon
<1>2. ControlOK /\ WordsOK
  BY <1>1 DEF ControlOK, WordsOK
<1>3. DelimiterOK /\ CounterOK /\ IdsOK
  BY Constants DEF DelimiterOK, CounterOK, IdsOK
<1>4. FramesOK /\ OutputsOK
  BY <1>1 DEF FramesOK, OutputsOK
<1>5. DeliveryOK
  BY Constants DEF DeliveryOK
<1>6. SourceOK
  BY <1>1, Constants, StreamType DEF SourceOK
<1> QED BY <1>2, <1>3, <1>4, <1>5, <1>6 DEF Types, FramingOK

(* Groups whose variables do not change stay right.                                    *)
LEMMA Unchanged ==
  /\ ControlOK /\ UNCHANGED <<pc, stopRequested>> => ControlOK'
  /\ FramingOK /\ UNCHANGED <<msg, framing>> => FramingOK'
  /\ OutputsOK /\ UNCHANGED fOutputPayloads /\ (pc' = "send" => pc = "send") => OutputsOK'
  /\ DeliveryOK /\ UNCHANGED delivery => DeliveryOK'
  /\ SourceOK /\ UNCHANGED source => SourceOK'
<1>1. ControlOK /\ UNCHANGED <<pc, stopRequested>> => ControlOK'
  BY DEF ControlOK
<1>2. FramingOK /\ UNCHANGED <<msg, framing>> => FramingOK'
  BY DEF FramingOK, framing, WordsOK, DelimiterOK, CounterOK, IdsOK, FramesOK
<1>3. OutputsOK /\ UNCHANGED fOutputPayloads /\ (pc' = "send" => pc = "send") => OutputsOK'
  BY DEF OutputsOK
<1>4. DeliveryOK /\ UNCHANGED delivery => DeliveryOK'
  BY DEF DeliveryOK, delivery
<1>5. SourceOK /\ UNCHANGED source => SourceOK'
  BY DEF SourceOK, source
<1> QED BY <1>1, <1>2, <1>3, <1>4, <1>5

(* The module and the sampler.                                                       *)
Upstream == ProduceWord \/ LoseWord \/ StopUpstream \/ DrainOne

(* The sampler and the draining leave the device's framing and output alone. *)
LEMMA UpstreamUnchanged ==
  Upstream => /\ UNCHANGED <<pc, stopRequested>> /\ UNCHANGED <<msg, framing>>
              /\ UNCHANGED fOutputPayloads /\ UNCHANGED delivery /\ UNCHANGED run
<1>1. ProduceWord => /\ UNCHANGED <<pc, stopRequested>> /\ UNCHANGED <<msg, framing>>
                     /\ UNCHANGED fOutputPayloads /\ UNCHANGED delivery /\ UNCHANGED run
  BY Zenon DEF ProduceWord
<1>2. LoseWord => /\ UNCHANGED <<pc, stopRequested>> /\ UNCHANGED <<msg, framing>>
                  /\ UNCHANGED fOutputPayloads /\ UNCHANGED delivery /\ UNCHANGED run
  BY Zenon DEF LoseWord
<1>3. StopUpstream => /\ UNCHANGED <<pc, stopRequested>> /\ UNCHANGED <<msg, framing>>
                      /\ UNCHANGED fOutputPayloads /\ UNCHANGED delivery /\ UNCHANGED run
  BY Zenon DEF StopUpstream
<1>4. DrainOne => /\ UNCHANGED <<pc, stopRequested>> /\ UNCHANGED <<msg, framing>>
                  /\ UNCHANGED fOutputPayloads /\ UNCHANGED delivery /\ UNCHANGED run
  BY Zenon DEF DrainOne
<1> QED BY <1>1, <1>2, <1>3, <1>4 DEF Upstream

(* The sampler and the draining keep the types. *)
LEMMA TypesUpstream == Types /\ Upstream => Types'
<1> SUFFICES ASSUME Types, Upstream PROVE Types'
  OBVIOUS
<1>1. SourceOK'
  <2>0. SourceOK
    BY DEF Types
  <2>1. CASE ProduceWord
    <3>1. pos' = pos + 1 /\ pos < StreamLength /\ wire' = Append(wire, pos')
          /\ UNCHANGED <<lostWords, runStart, upstream, run>>
      BY <2>1 DEF ProduceWord
    <3>2. pos' \in 0 .. StreamLength /\ pos' \in Nat /\ runStart' \in 0 .. pos'
      BY <2>0, <3>1, StreamType DEF SourceOK
    <3>3. wire' \in Seq(Nat)
      BY <2>0, <3>1, <3>2 DEF SourceOK
    <3> QED BY <2>0, <3>1, <3>2, <3>3 DEF SourceOK
  <2>2. CASE LoseWord
    <3>1. pos' = pos + 1 /\ pos < StreamLength /\ lostWords' = lostWords + 1 /\ lostWords < MaxLost
          /\ UNCHANGED <<wire, runStart, upstream, run>>
      BY <2>2 DEF LoseWord
    <3>2. pos' \in 0 .. StreamLength /\ runStart' \in 0 .. pos' /\ lostWords' \in 0 .. MaxLost
      BY <2>0, <3>1, StreamType, Constants DEF SourceOK
    <3> QED BY <2>0, <3>1, <3>2 DEF SourceOK
  <2>3. CASE StopUpstream
    <3>1. upstream' = FALSE /\ UNCHANGED <<wire, pos, lostWords, runStart, run>>
      BY <2>3 DEF StopUpstream
    <3>2. upstream' \in BOOLEAN
      BY <3>1, Zenon
    <3> QED BY <2>0, <3>1, <3>2 DEF SourceOK
  <2>4. CASE DrainOne
    BY <2>0, <2>4 DEF DrainOne, SourceOK
  <2> QED BY <2>1, <2>2, <2>3, <2>4 DEF Upstream
<1>2. ControlOK' /\ FramingOK' /\ OutputsOK' /\ DeliveryOK'
  BY UpstreamUnchanged, Unchanged DEF Types
<1> QED BY <1>1, <1>2 DEF Types

(* Steps that only change where the device is.                                         *)
Control == RequestStop \/ EndPostRun \/ AllSent

(* A change of state alone keeps the types and all the data. *)
LEMMA TypesControl ==
  ASSUME Types, Control
  PROVE  /\ Types' /\ UNCHANGED <<msg, framing>> /\ UNCHANGED fOutputPayloads /\ UNCHANGED delivery
         /\ UNCHANGED source
<1>1. ControlOK' /\ (pc' = "send" => pc = "send")
  <2>0. ControlOK
    BY DEF Types
  <2>1. CASE RequestStop
    <3>1. stopRequested' = TRUE /\ UNCHANGED pc
      BY <2>1 DEF RequestStop
    <3>2. stopRequested' \in BOOLEAN
      BY <3>1, Zenon
    <3> QED BY <2>0, <3>1, <3>2 DEF ControlOK
  <2>2. CASE EndPostRun
    BY <2>0, <2>2 DEF EndPostRun, ControlOK
  <2>3. CASE AllSent
    BY <2>0, <2>3 DEF AllSent, ControlOK
  <2> QED BY <2>1, <2>2, <2>3 DEF Control
<1>2. UNCHANGED <<msg, framing>> /\ UNCHANGED fOutputPayloads /\ UNCHANGED delivery /\ UNCHANGED source
  <2>1. CASE RequestStop
    BY <2>1, Zenon DEF RequestStop
  <2>2. CASE EndPostRun
    BY <2>2, Zenon DEF EndPostRun
  <2>3. CASE AllSent
    BY <2>3, Zenon DEF AllSent
  <2> QED BY <2>1, <2>2, <2>3 DEF Control
<1> QED BY <1>1, <1>2, Unchanged DEF Types

(* The beginning of a run.                                                           *)
LEMMA TypesPreRun ==
  ASSUME Types, NEW start \in 0 .. StreamLength, PreRun(start)
  PROVE  Types'
<1>0. ControlOK /\ FramingOK /\ OutputsOK /\ DeliveryOK /\ SourceOK
  BY DEF Types
<1>1. /\ pc' = "idle" /\ stopRequested' = FALSE /\ upstream' = TRUE
      /\ fHBFCounter' = 0 /\ hbf_flag' = 0 /\ fdelimiterFrameId' = 0
      /\ fSTFSequenceNumber' = 0 /\ fSTFId' = -1
      /\ pos' = start /\ runStart' = start /\ lostWords' = 0 /\ run' = run + 1 /\ run < MaxRuns
      /\ UNCHANGED <<msg, segment, fInputPayloads, fThrottling, fWorkingPayloads,
                     fOutputPayloads, delivery, wire>>
  BY DEF PreRun
<1>2. stopRequested' \in BOOLEAN /\ upstream' \in BOOLEAN
  BY <1>1, Zenon
<1>3. ControlOK' /\ OutputsOK' /\ DeliveryOK'
  BY <1>0, <1>1, <1>2, Unchanged DEF ControlOK
<1>4. FramingOK'
  BY <1>0, <1>1, Constants DEF FramingOK, WordsOK, DelimiterOK, CounterOK, IdsOK, FramesOK
<1>5. SourceOK'
  <2>1. pos' \in 0 .. StreamLength /\ runStart' \in 0 .. pos' /\ lostWords' \in 0 .. MaxLost
        /\ run' \in 0 .. MaxRuns
    BY <1>0, <1>1, Constants, StreamType DEF SourceOK
  <2> QED BY <1>0, <1>1, <1>2, <2>1 DEF SourceOK
<1> QED BY <1>3, <1>4, <1>5 DEF Types

(* The end of a run: what is not sent is forgotten.                                     *)
LEMMA TypesBeginPostRun ==
  ASSUME Types, BeginPostRun
  PROVE  Types'
<1>0. ControlOK /\ FramingOK /\ OutputsOK /\ DeliveryOK /\ SourceOK
  BY DEF Types
<1>1. /\ pc' = "drain" /\ UNCHANGED stopRequested
      /\ fInputPayloads' = <<>> /\ fWorkingPayloads' = <<>> /\ fOutputPayloads' = <<>>
      /\ fThrottling' = FALSE /\ hbf_flag' = 0
      /\ UNCHANGED <<msg, segment, fdelimiterFrameId, fHBFCounter, fSTFId, fSTFSequenceNumber>>
      /\ UNCHANGED delivery /\ UNCHANGED source
  BY DEF BeginPostRun
<1>2. fThrottling' \in BOOLEAN
  BY <1>1, Zenon
<1>3. ControlOK' /\ OutputsOK'
  BY <1>0, <1>1 DEF ControlOK, OutputsOK
<1>4. FramingOK'
  BY <1>0, <1>1, <1>2 DEF FramingOK, WordsOK, DelimiterOK, CounterOK, IdsOK, FramesOK
<1> QED BY <1>0, <1>1, <1>3, <1>4, Unchanged DEF Types

(* A message is taken from the wire.                                                   *)
LEMMA TypesHandleData ==
  ASSUME Types, HandleData
  PROVE  Types'
<1>0. ControlOK /\ FramingOK /\ OutputsOK /\ DeliveryOK /\ SourceOK
  BY DEF Types
<1>1. /\ pc' = "build" /\ UNCHANGED stopRequested /\ msg' = wire /\ wire' = <<>>
      /\ UNCHANGED framing /\ UNCHANGED fOutputPayloads /\ UNCHANGED delivery
      /\ UNCHANGED <<pos, lostWords, runStart, upstream, run>>
  BY DEF HandleData
<1>2. ControlOK' /\ OutputsOK' /\ SourceOK'
  BY <1>0, <1>1 DEF ControlOK, OutputsOK, SourceOK
<1>3. FramingOK'
  <2>1. msg' \in Seq(Nat)
    BY <1>0, <1>1 DEF SourceOK
  <2> QED BY <1>0, <1>1, <2>1 DEF FramingOK, framing, WordsOK, DelimiterOK, CounterOK, IdsOK, FramesOK
<1> QED BY <1>0, <1>1, <1>2, <1>3, Unchanged DEF Types

-----------------------------------------------------------------------------
(* What every turn of the loop of BuildFrame has in common.                              *)
Turn == OnlyFirstComes \/ OnlySecondComes \/ FirstDelimiter \/ OtherWord \/ SkipHBF \/ EndHBF

(* A turn of BuildFrame's loop takes the next word of the message. *)
LEMMA TurnFacts ==
  ASSUME Types, Turn
  PROVE  /\ pc = "build" /\ msg # <<>> /\ msg' = Tail(msg)
         /\ UNCHANGED <<pc, stopRequested>> /\ UNCHANGED delivery /\ UNCHANGED source
         /\ Word \in Nat /\ msg' \in Seq(Nat)
<1>1. \E kind \in {"data", "first", "second"} : NextWord(kind)
  BY DEF Turn, OnlyFirstComes, OnlySecondComes, FirstDelimiter, OtherWord, SkipHBF, EndHBF
<1>2. /\ pc = "build" /\ msg # <<>> /\ msg' = Tail(msg)
      /\ UNCHANGED <<pc, stopRequested>> /\ UNCHANGED delivery /\ UNCHANGED source
  BY <1>1 DEF NextWord
<1>3. msg \in Seq(Nat)
  BY DEF Types, FramingOK, WordsOK
<1> QED BY <1>2, <1>3, Parts DEF Word

(* Turns that drop the words of this message since the last delimiter.                     *)
Drops == OnlyFirstComes \/ OnlySecondComes \/ SkipHBF

(* A dropped delimiter takes only the words gathered in this message with it. *)
LEMMA DropFacts ==
  Drops => /\ segment' = <<>> /\ hbf_flag' = 0
           /\ UNCHANGED <<fInputPayloads, fdelimiterFrameId, fHBFCounter, fSTFId,
                          fSTFSequenceNumber, fThrottling, fWorkingPayloads, fOutputPayloads>>
<1>1. OnlyFirstComes => DropSegment
  BY DEF OnlyFirstComes
<1>2. OnlySecondComes => DropSegment
  BY DEF OnlySecondComes
<1>3. SkipHBF => DropSegment
  BY DEF SkipHBF
<1> QED BY <1>1, <1>2, <1>3 DEF Drops, DropSegment

(* The second delimiter: the frame joins the sub time frame in the making, which may be     *)
(* full with it.                                                                    *)
Frames == Append(fWorkingPayloads, FillData)

(* The end of a frame, in terms of the frames gathered so far. *)
LEMMA FrameFacts ==
  ASSUME Types, EndHBF
  PROVE  /\ FillData \in Seq(Nat) /\ Frames \in Seq(Seq(Nat)) /\ NewSTFId \in 0 .. FrameIdModulus - 1
         /\ hbf_flag = 1 /\ ~OffBoundary /\ KindOf(Word) = "second"
         /\ hbf_flag' = 0 /\ segment' = <<>> /\ fInputPayloads' = <<>> /\ UNCHANGED fdelimiterFrameId
         /\ STFIsFull =>
              /\ FinalizeSTF(Frames)
              /\ fHBFCounter' = IF SplitMethod = 0 THEN 0 ELSE 1
         /\ ~STFIsFull =>
              /\ fWorkingPayloads' = Frames /\ fSTFId' = NewSTFId /\ fHBFCounter' = fHBFCounter + 1
              /\ UNCHANGED <<fThrottling, fSTFSequenceNumber, fOutputPayloads>>
<1>0. FramingOK /\ Word \in Nat
  BY TurnFacts DEF Types, Turn
<1>1. FillData \in Seq(Nat)
  BY <1>0 DEF FramingOK, WordsOK, FillData
<1>2. Frames \in Seq(Seq(Nat))
  BY <1>0, <1>1 DEF FramingOK, FramesOK, Frames
<1>3. NewSTFId \in 0 .. FrameIdModulus - 1
  BY <1>0, Constants DEF FramingOK, DelimiterOK, IdsOK, NewSTFId
<1>4. /\ hbf_flag = 1 /\ ~OffBoundary /\ NextWord("second")
      /\ hbf_flag' = 0 /\ segment' = <<>> /\ fInputPayloads' = <<>> /\ UNCHANGED fdelimiterFrameId
      /\ IF STFIsFull
         THEN /\ FinalizeSTF(Frames)
              /\ fHBFCounter' = IF SplitMethod = 0 THEN 0 ELSE 1
         ELSE /\ fWorkingPayloads' = Frames /\ fSTFId' = NewSTFId /\ fHBFCounter' = fHBFCounter + 1
              /\ UNCHANGED <<fThrottling, fSTFSequenceNumber, fOutputPayloads>>
  BY DEF EndHBF, Frames
<1>5. KindOf(Word) = "second"
  BY <1>4 DEF NextWord
<1> QED BY <1>1, <1>2, <1>3, <1>4, <1>5

(* The sub time frame that is finished with it.                                         *)
Finishing ==
  [id       |-> IF TimeFrameIdType = "sequence" THEN fSTFSequenceNumber ELSE NewSTFId,
   throttled |-> fThrottling, hbfs |-> Frames, run |-> run]

(* The end of the last frame of a sub time frame. *)
LEMMA FinishFacts ==
  ASSUME Types, EndHBF, STFIsFull
  PROVE  /\ Finishing \in STFs /\ fOutputPayloads' = Append(fOutputPayloads, Finishing)
         /\ fSTFId' = -1 /\ fThrottling' = FALSE /\ fSTFSequenceNumber' = fSTFSequenceNumber + 1
         /\ fWorkingPayloads' = <<>>
<1>1. FinalizeSTF(Frames)
  BY FrameFacts
<1>2. Frames \in Seq(Seq(Nat)) /\ NewSTFId \in Nat
  BY FrameFacts, Constants
<1>3. fSTFSequenceNumber \in Nat /\ fThrottling \in BOOLEAN /\ run \in Nat
  BY Constants DEF Types, FramingOK, IdsOK, FramesOK, SourceOK
<1>4. Finishing \in STFs
  BY <1>2, <1>3 DEF Finishing, STFs
<1> QED BY <1>1, <1>4 DEF FinalizeSTF, Finishing

(* A turn of BuildFrame's loop keeps the types. *)
LEMMA TypesTurn ==
  ASSUME Types, Turn
  PROVE  Types'
<1>0. ControlOK /\ FramingOK /\ OutputsOK /\ DeliveryOK /\ SourceOK
  BY DEF Types
<1>1. pc' # "send" /\ Word \in Nat /\ msg' \in Seq(Nat) /\ ControlOK' /\ DeliveryOK' /\ SourceOK'
  BY <1>0, TurnFacts, Unchanged
<1>2. CASE Drops
  <2>1. FramingOK'
    BY <1>0, <1>1, <1>2, DropFacts DEF FramingOK, WordsOK, DelimiterOK, CounterOK, IdsOK, FramesOK
  <2>2. OutputsOK'
    BY <1>0, <1>1, <1>2, DropFacts DEF OutputsOK
  <2> QED BY <1>1, <2>1, <2>2 DEF Types
<1>3. CASE FirstDelimiter
  <2>1. /\ segment' = Append(segment, Word) /\ hbf_flag' = 1 /\ fdelimiterFrameId' = FrameId(Word)
        /\ fThrottling' = (fThrottling \/ BeatOf(Word) \in ThrottledBeats)
        /\ UNCHANGED <<fInputPayloads, fHBFCounter, fSTFId, fSTFSequenceNumber, fWorkingPayloads>>
        /\ UNCHANGED fOutputPayloads
    BY <1>3 DEF FirstDelimiter
  <2>2. fThrottling' \in BOOLEAN
    BY <2>1, Zenon
  <2>3. segment' \in Seq(Nat)
    BY <1>0, <1>1, <2>1 DEF FramingOK, WordsOK
  <2>4. fdelimiterFrameId' \in 0 .. FrameIdModulus - 1
    BY <1>1, <2>1, FrameIdType
  <2>5. FramingOK'
    BY <1>0, <1>1, <2>1, <2>2, <2>3, <2>4 DEF FramingOK, WordsOK, DelimiterOK, CounterOK, IdsOK, FramesOK
  <2>6. OutputsOK'
    BY <1>0, <1>1, <2>1 DEF OutputsOK
  <2> QED BY <1>1, <2>5, <2>6 DEF Types
<1>4. CASE OtherWord
  <2>1. /\ segment' = Append(segment, Word)
        /\ UNCHANGED <<hbf_flag, fdelimiterFrameId, fThrottling, fInputPayloads, fHBFCounter, fSTFId,
                       fSTFSequenceNumber, fWorkingPayloads>>
        /\ UNCHANGED fOutputPayloads
    BY <1>4 DEF OtherWord
  <2>3. segment' \in Seq(Nat)
    BY <1>0, <1>1, <2>1 DEF FramingOK, WordsOK
  <2>5. FramingOK'
    BY <1>0, <1>1, <2>1, <2>3 DEF FramingOK, WordsOK, DelimiterOK, CounterOK, IdsOK, FramesOK
  <2>6. OutputsOK'
    BY <1>0, <1>1, <2>1 DEF OutputsOK
  <2> QED BY <1>1, <2>5, <2>6 DEF Types
<1>5. CASE EndHBF
  <2>1. WordsOK' /\ DelimiterOK'
    BY <1>0, <1>1, <1>5, FrameFacts DEF FramingOK, WordsOK, DelimiterOK
  <2>2. CASE STFIsFull
    <3>1. CounterOK'
      <4>1. fHBFCounter' = IF SplitMethod = 0 THEN 0 ELSE 1
        BY <1>5, <2>2, FrameFacts
      <4> QED BY <4>1, Constants DEF CounterOK
    <3>2. IdsOK'
      BY <1>0, <1>5, <2>2, FinishFacts, Constants DEF FramingOK, IdsOK
    <3>3. fThrottling' \in BOOLEAN
      <4>1. fThrottling' = FALSE
        BY <1>5, <2>2, FinishFacts
      <4> QED BY <4>1, Zenon
    <3>4. FramesOK'
      BY <1>5, <2>2, <3>3, FinishFacts DEF FramesOK
    <3>5. OutputsOK'
      BY <1>0, <1>1, <1>5, <2>2, FinishFacts, SMTT(30) DEF OutputsOK
    <3> QED BY <1>1, <2>1, <3>1, <3>2, <3>4, <3>5 DEF Types, FramingOK
  <2>3. CASE ~STFIsFull
    <3>0. /\ fWorkingPayloads' = Frames /\ fSTFId' = NewSTFId /\ fHBFCounter' = fHBFCounter + 1
          /\ UNCHANGED <<fThrottling, fSTFSequenceNumber, fOutputPayloads>>
          /\ Frames \in Seq(Seq(Nat)) /\ NewSTFId \in 0 .. FrameIdModulus - 1
      BY <1>5, <2>3, FrameFacts
    <3>1. CounterOK'
      <4> DEFINE c == fHBFCounter
                 m == MaxHBF
      <4>1. c \in 0 .. m /\ m \in Nat \ {0} /\ (SplitMethod = 0 => c < m)
        BY <1>0, Constants DEF FramingOK, CounterOK
      <4>2. CASE SplitMethod = 0
        <5>1. (c + 1) % m # 0
          BY <2>3, <4>2 DEF STFIsFull
        <5> HIDE DEF c, m
        <5>2. m % m = 0
          BY <4>1
        <5>3. c + 1 # m
          BY <5>1, <5>2
        <5>4. c + 1 \in 0 .. m /\ c + 1 < m
          BY <4>1, <4>2, <5>3
        <5> QED BY <3>0, <5>4 DEF CounterOK, c, m
      <4>3. CASE SplitMethod # 0
        <5>1. ~(c % m = 0 /\ c > 0)
          BY <2>3, <4>3 DEF STFIsFull
        <5> HIDE DEF c, m
        <5>2. m % m = 0 /\ m > 0
          BY <4>1
        <5>3. c # m
          BY <5>1, <5>2
        <5>4. c + 1 \in 0 .. m
          BY <4>1, <5>3
        <5> QED BY <3>0, <4>3, <5>4 DEF CounterOK, c, m
      <4> QED BY <4>2, <4>3
    <3>2. IdsOK'
      BY <1>0, <3>0, Constants DEF FramingOK, IdsOK
    <3>3. FramesOK'
      BY <1>0, <3>0 DEF FramingOK, FramesOK
    <3>4. OutputsOK'
      BY <1>0, <1>1, <3>0 DEF OutputsOK
    <3> QED BY <1>1, <2>1, <3>1, <3>2, <3>3, <3>4 DEF Types, FramingOK
  <2> QED BY <2>2, <2>3
<1> QED BY <1>2, <1>3, <1>4, <1>5 DEF Turn, Drops

(* The words behind the last delimiter are kept.                                         *)
LEMMA TypesEndOfMessage ==
  ASSUME Types, EndOfMessage
  PROVE  Types'
<1>0. ControlOK /\ FramingOK /\ OutputsOK /\ DeliveryOK /\ SourceOK
  BY DEF Types
<1>1. /\ pc' = "copy" /\ UNCHANGED stopRequested /\ fInputPayloads' = fInputPayloads \o segment
      /\ segment' = <<>> /\ UNCHANGED <<msg, hbf_flag, fdelimiterFrameId, fHBFCounter, fSTFId,
                                        fSTFSequenceNumber, fThrottling, fWorkingPayloads>>
      /\ UNCHANGED fOutputPayloads /\ UNCHANGED delivery /\ UNCHANGED source
  BY DEF EndOfMessage
<1>2. ControlOK' /\ OutputsOK'
  BY <1>0, <1>1 DEF ControlOK, OutputsOK
<1>3. FramingOK'
  <2>1. fInputPayloads' \in Seq(Nat)
    BY <1>0, <1>1 DEF FramingOK, WordsOK
  <2> QED BY <1>0, <1>1, <2>1 DEF FramingOK, WordsOK, DelimiterOK, CounterOK, IdsOK, FramesOK
<1> QED BY <1>0, <1>1, <1>2, <1>3, Unchanged DEF Types

-----------------------------------------------------------------------------
(* The sends.                                                                       *)
Sends == Copy \/ CopyInterrupted \/ SendSucceeds \/ SendInterrupted \/ SendFails

(* Sending takes sub time frames from the front of the output only. *)
LEMMA SendFacts ==
  ASSUME Types, Sends
  PROVE  /\ fOutputPayloads # <<>> /\ UNCHANGED stopRequested /\ UNCHANGED <<msg, framing>>
         /\ UNCHANGED source /\ pc' \in {"idle", "copy", "send"}
         /\ (pc' = "send" => UNCHANGED fOutputPayloads)
         /\ fOutputPayloads' \in {fOutputPayloads, Tail(fOutputPayloads)}
         /\ sent' = sent \/ sent' = Append(sent, Head(fOutputPayloads))
         /\ (sent' # sent => fOutputPayloads' = Tail(fOutputPayloads))
<1>0. pc = "send" => fOutputPayloads # <<>>
  BY DEF Types, OutputsOK
<1>1. CASE Copy
  BY <1>1 DEF Copy
<1>2. CASE CopyInterrupted
  BY <1>2 DEF CopyInterrupted, delivery
<1>3. CASE SendSucceeds
  BY <1>0, <1>3 DEF SendSucceeds
<1>4. CASE SendInterrupted
  BY <1>0, <1>4 DEF SendInterrupted, delivery
<1>5. CASE SendFails
  BY <1>0, <1>5 DEF SendFails
<1> QED BY <1>1, <1>2, <1>3, <1>4, <1>5 DEF Sends

(* Sending keeps the types. *)
LEMMA TypesSends ==
  ASSUME Types, Sends
  PROVE  Types'
<1>0. ControlOK /\ FramingOK /\ OutputsOK /\ DeliveryOK /\ SourceOK
  BY DEF Types
<1>1. ControlOK' /\ FramingOK' /\ SourceOK'
  BY <1>0, SendFacts, Unchanged DEF ControlOK
<1>2. Head(fOutputPayloads) \in STFs /\ Tail(fOutputPayloads) \in Seq(STFs)
  BY <1>0, SendFacts, Parts DEF OutputsOK
<1>3. OutputsOK'
  BY <1>0, <1>2, SendFacts DEF OutputsOK
<1>4. sent' \in Seq(STFs)
  <2>1. sent \in Seq(STFs)
    BY <1>0 DEF DeliveryOK
  <2> QED BY <1>2, <2>1, SendFacts, SMTT(30)
<1>5. err_count' \in 0 .. MaxErrors
  <2>1. err_count \in 0 .. MaxErrors
    BY <1>0 DEF DeliveryOK
  <2>2. err_count' \in {0, err_count} \/ (err_count < MaxErrors /\ err_count' = err_count + 1)
    BY DEF Sends, Copy, CopyInterrupted, SendSucceeds, SendInterrupted, SendFails, delivery
  <2> QED BY <2>1, <2>2, Constants
<1>6. output' \in [Destinations -> 0 .. OutputHWM]
  <2>1. output \in [Destinations -> 0 .. OutputHWM]
    BY <1>0 DEF DeliveryOK
  <2>2. CASE SendSucceeds
    <3> DEFINE d == Direction
    <3>1. output[d] < OutputHWM /\ output' = [output EXCEPT ![d] = @ + 1]
      BY <2>2 DEF SendSucceeds
    <3> HIDE DEF d
    <3>2. d \in Destinations => output[d] + 1 \in 0 .. OutputHWM
      BY <2>1, <3>1, Constants
    <3> QED BY <2>1, <3>1, <3>2
  <2>3. CASE Copy \/ CopyInterrupted \/ SendInterrupted \/ SendFails
    BY <2>1, <2>3 DEF Copy, CopyInterrupted, SendInterrupted, SendFails, delivery
  <2> QED BY <2>2, <2>3 DEF Sends
<1> QED BY <1>1, <1>3, <1>4, <1>5, <1>6 DEF Types, DeliveryOK

(* A consumer takes a sub time frame.                                                   *)
LEMMA TypesConsume ==
  ASSUME Types, NEW d \in Destinations, Consume(d)
  PROVE  Types'
<1>0. ControlOK /\ FramingOK /\ OutputsOK /\ DeliveryOK /\ SourceOK
  BY DEF Types
<1>1. /\ UNCHANGED <<pc, stopRequested>> /\ UNCHANGED <<msg, framing>> /\ UNCHANGED fOutputPayloads
      /\ UNCHANGED <<err_count, sent>> /\ UNCHANGED source
      /\ output[d] > 0 /\ output' = [output EXCEPT ![d] = @ - 1]
  BY DEF Consume
<1>2. DeliveryOK'
  <2>1. output \in [Destinations -> 0 .. OutputHWM]
    BY <1>0 DEF DeliveryOK
  <2>2. output[d] - 1 \in 0 .. OutputHWM
    BY <1>1, <2>1, Constants
  <2>3. output' \in [Destinations -> 0 .. OutputHWM]
    BY <1>1, <2>1, <2>2
  <2> QED BY <1>0, <1>1, <2>3 DEF DeliveryOK
<1> QED BY <1>0, <1>1, <1>2, Unchanged DEF Types

(* The steps, as the lemmas take them.                                                  *)
LEMMA Steps ==
  [Next]_vars =>
    \/ Upstream \/ Control \/ (\E start \in 0 .. StreamLength : PreRun(start)) \/ BeginPostRun
    \/ HandleData \/ Turn \/ EndOfMessage \/ Sends \/ (\E d \in Destinations : Consume(d))
    \/ UNCHANGED vars
BY DEF Next, Device, NoCopy, CopySent, Environment, BuildFrame, Upstream, Control, Turn, Sends

(* Every step keeps the types.                                                        *)
LEMMA TypesNext == Types /\ [Next]_vars => Types'
<1> SUFFICES ASSUME Types, [Next]_vars PROVE Types'
  OBVIOUS
<1>1. CASE UNCHANGED vars
  <2>1. UNCHANGED <<pc, stopRequested>> /\ UNCHANGED <<msg, framing>> /\ UNCHANGED fOutputPayloads
        /\ UNCHANGED delivery /\ UNCHANGED source
    BY <1>1 DEF vars
  <2> QED BY <2>1, Unchanged DEF Types
<1> QED BY <1>1, Steps, TypesUpstream, TypesControl, TypesPreRun, TypesBeginPostRun, TypesHandleData,
           TypesTurn, TypesEndOfMessage, TypesSends, TypesConsume

(* Every reachable state is well typed: in particular the counter of heartbeat frames stays    *)
(* within MaxHBF, whatever is lost or skipped, and an attempt to send has something to send. *)
THEOREM TypeCorrect == Spec => []TypeOK
BY TypesInit, TypesNext, TypesImply, PTL DEF Spec

-----------------------------------------------------------------------------
(* The sub time frames that are sent or wait to be sent.                                  *)
LEMMA FinishedSet ==
  ASSUME Types
  PROVE  ToSet(Finished) = ToSet(sent) \cup ToSet(fOutputPayloads)
<1>1. sent \in Seq(STFs) /\ fOutputPayloads \in Seq(STFs)
  BY DEF Types, DeliveryOK, OutputsOK
<1> QED BY <1>1, ElementsOfBoth DEF Finished

(* A step finishes the sub time frame in the making, or none; the others were finished.      *)
LEMMA FinishedStep ==
  ASSUME Types, [Next]_vars, NEW stf \in ToSet(Finished)'
  PROVE  stf \in ToSet(Finished) \/ (EndHBF /\ STFIsFull /\ stf = Finishing)
<1>0. Types'
  BY TypesNext
<1>seqs. sent \in Seq(STFs) /\ fOutputPayloads \in Seq(STFs)
  BY DEF Types, DeliveryOK, OutputsOK
<1>1. ToSet(Finished) = ToSet(sent) \cup ToSet(fOutputPayloads)
  BY FinishedSet
<1>2. ToSet(Finished)' = ToSet(sent') \cup ToSet(fOutputPayloads')
  <2>1. sent' \in Seq(STFs) /\ fOutputPayloads' \in Seq(STFs)
    BY <1>0 DEF Types, DeliveryOK, OutputsOK
  <2>2. Finished' = sent' \o fOutputPayloads'
    BY DEF Finished
  <2>3. ToSet(Finished)' = ToSet(sent' \o fOutputPayloads')
    BY <2>2 DEF ToSet
  <2> QED BY <2>1, <2>3, ElementsOfBoth
<1>3. ASSUME UNCHANGED sent, UNCHANGED fOutputPayloads \/ fOutputPayloads' = <<>>
      PROVE  stf \in ToSet(Finished)
  BY <1>1, <1>2, <1>3, SMTT(30) DEF ToSet
<1>4. CASE Upstream \/ Control \/ (\E start \in 0 .. StreamLength : PreRun(start)) \/ BeginPostRun
           \/ HandleData \/ EndOfMessage \/ (\E d \in Destinations : Consume(d)) \/ UNCHANGED vars
  <2>1. CASE Upstream \/ Control
    BY <1>3, <2>1, UpstreamUnchanged, TypesControl DEF delivery
  <2>2. CASE \E start \in 0 .. StreamLength : PreRun(start)
    BY <1>3, <2>2 DEF PreRun, delivery
  <2>3. CASE BeginPostRun \/ HandleData \/ EndOfMessage
    BY <1>3, <2>3 DEF BeginPostRun, HandleData, EndOfMessage, delivery
  <2>4. CASE \E d \in Destinations : Consume(d)
    BY <1>3, <2>4 DEF Consume
  <2>5. CASE UNCHANGED vars
    BY <1>3, <2>5 DEF vars, delivery
  <2> QED BY <1>4, <2>1, <2>2, <2>3, <2>4, <2>5
<1>5. CASE Turn
  <2>1. UNCHANGED sent
    BY <1>5, TurnFacts DEF delivery
  <2>2. CASE ~(EndHBF /\ STFIsFull)
    <3>1. UNCHANGED fOutputPayloads
      BY <1>5, <2>2, DropFacts, FrameFacts DEF Turn, Drops, FirstDelimiter, OtherWord
    <3> QED BY <1>3, <2>1, <3>1
  <2>3. CASE EndHBF /\ STFIsFull
    <3>1. Finishing \in STFs /\ fOutputPayloads' = Append(fOutputPayloads, Finishing)
      BY <2>3, FinishFacts
    <3>2. ToSet(fOutputPayloads') = ToSet(fOutputPayloads) \cup {Finishing}
      BY <1>seqs, <3>1, ElementsOfLonger
    <3> QED BY <1>1, <1>2, <2>1, <2>3, <3>2
  <2> QED BY <2>2, <2>3
<1>6. CASE Sends
  <2>1. /\ fOutputPayloads # <<>> /\ fOutputPayloads' \in {fOutputPayloads, Tail(fOutputPayloads)}
        /\ (sent' = sent \/ sent' = Append(sent, Head(fOutputPayloads)))
    BY <1>6, SendFacts
  <2>2. Head(fOutputPayloads) \in STFs
    BY <1>seqs, <2>1, Parts
  <2>3. ToSet(Tail(fOutputPayloads)) \subseteq ToSet(fOutputPayloads)
        /\ Head(fOutputPayloads) \in ToSet(fOutputPayloads)
    BY <1>seqs, <2>1, ElementsOfRest
  <2>4. ToSet(Append(sent, Head(fOutputPayloads))) = ToSet(sent) \cup {Head(fOutputPayloads)}
    BY <1>seqs, <2>2, ElementsOfLonger
  <2> QED BY <1>1, <1>2, <2>1, <2>3, <2>4
<1> QED BY <1>4, <1>5, <1>6, Steps

-----------------------------------------------------------------------------
(* The last word before a second delimiter that is waited for: the first one, whether it is     *)
(* in this message or was kept from the one before.                                  *)
Kept == fInputPayloads \o segment

Pending ==
  hbf_flag = 1 =>
    /\ Len(Kept) > 0
    /\ KindOf(Kept[Len(Kept)]) = "first"
    /\ FrameId(Kept[Len(Kept)]) = fdelimiterFrameId
    /\ BeatOf(Kept[Len(Kept)]) \in ThrottledBeats => fThrottling

Delimited(hbf) ==
  Len(hbf) >= 2 /\ KindOf(hbf[Len(hbf) - 1]) = "first" /\ KindOf(hbf[Len(hbf)]) = "second"

Marked(hbfs, flag) ==
  \A hbf \in ToSet(hbfs) :
    /\ Delimited(hbf)
    /\ BeatOf(hbf[Len(hbf) - 1]) \in ThrottledBeats => flag

Framed ==
  /\ Pending
  /\ Marked(fWorkingPayloads, fThrottling)
  /\ \A stf \in ToSet(Finished) : Marked(stf.hbfs, stf.throttled)

(* A word behind kept words.                                                           *)
LEMMA KeptAppend ==
  ASSUME NEW a \in Seq(Nat), NEW b \in Seq(Nat), NEW w \in Nat
  PROVE  /\ a \o Append(b, w) \in Seq(Nat)
         /\ Len(a \o b) \in Nat
         /\ Len(a \o Append(b, w)) = Len(a \o b) + 1
         /\ (a \o Append(b, w))[Len(a \o b) + 1] = w
         /\ \A i \in 1 .. Len(a \o b) : (a \o Append(b, w))[i] = (a \o b)[i]
OBVIOUS

(* A frame ends in its delimiters, and its id and flag are those of the first of them.            *)
LEMMA FrameEnds ==
  ASSUME Types, Pending, EndHBF
  PROVE  /\ Delimited(FillData) /\ FrameOf(FillData) = fdelimiterFrameId
         /\ BeatOf(FillData[Len(FillData) - 1]) \in ThrottledBeats => fThrottling
<1>1. hbf_flag = 1 /\ KindOf(Word) = "second"
  BY FrameFacts
<1>2. Word \in Nat /\ segment \in Seq(Nat) /\ fInputPayloads \in Seq(Nat)
  BY TurnFacts DEF Turn, Types, FramingOK, WordsOK
<1> DEFINE n == Len(Kept)
           f == FillData
<1>3. n \in Nat /\ Len(f) = n + 1 /\ f[n + 1] = Word /\ \A i \in 1 .. n : f[i] = Kept[i]
  BY <1>2, KeptAppend DEF FillData, Kept
<1>4. n > 0 /\ KindOf(Kept[n]) = "first" /\ FrameId(Kept[n]) = fdelimiterFrameId
      /\ (BeatOf(Kept[n]) \in ThrottledBeats => fThrottling)
  BY <1>1 DEF Pending
<1> HIDE DEF n, f
<1>5. Len(f) - 1 = n /\ f[n] = Kept[n] /\ Len(f) >= 2
  BY <1>3, <1>4
<1>6. Delimited(f) /\ FrameOf(f) = fdelimiterFrameId
      /\ (BeatOf(f[Len(f) - 1]) \in ThrottledBeats => fThrottling)
  BY <1>1, <1>3, <1>4, <1>5 DEF Delimited, FrameOf
<1> QED BY <1>6 DEF f

(* Every step keeps the first delimiter in place that the second one is awaited for. *)
LEMMA PendingNext == Types /\ Pending /\ [Next]_vars => Pending'
<1> SUFFICES ASSUME Types, Pending, [Next]_vars, hbf_flag' = 1 PROVE Pending'
  BY DEF Pending
<1>0. segment \in Seq(Nat) /\ fInputPayloads \in Seq(Nat)
  BY DEF Types, FramingOK, WordsOK
<1>1. ASSUME UNCHANGED framing PROVE Pending'
  BY <1>1 DEF Pending, framing, Kept
<1>2. CASE Upstream \/ Control \/ Sends \/ HandleData \/ (\E d \in Destinations : Consume(d)) \/ UNCHANGED vars
  <2>1. UNCHANGED framing
    BY <1>2, UpstreamUnchanged, TypesControl, SendFacts DEF HandleData, Consume, vars
  <2> QED BY <1>1, <2>1
<1>3. CASE (\E start \in 0 .. StreamLength : PreRun(start)) \/ BeginPostRun
  BY <1>3 DEF PreRun, BeginPostRun
<1>4. CASE Drops \/ EndHBF \/ OtherWord
  <2>1. hbf_flag' = 0
    BY <1>4, DropFacts, FrameFacts DEF OtherWord
  <2> QED BY <2>1
<1>5. CASE FirstDelimiter
  <2>1. /\ segment' = Append(segment, Word) /\ UNCHANGED fInputPayloads
        /\ fdelimiterFrameId' = FrameId(Word) /\ KindOf(Word) = "first"
        /\ fThrottling' = (fThrottling \/ BeatOf(Word) \in ThrottledBeats)
    BY <1>5 DEF FirstDelimiter, NextWord
  <2>2. Word \in Nat
    BY <1>5, TurnFacts DEF Turn
  <2>3. Len(Kept') > 0 /\ Kept'[Len(Kept')] = Word
    BY <1>0, <2>1, <2>2, KeptAppend DEF Kept
  <2> QED BY <2>1, <2>3 DEF Pending
<1>6. CASE EndOfMessage
  <2>1. fInputPayloads' = fInputPayloads \o segment /\ segment' = <<>>
        /\ UNCHANGED <<hbf_flag, fdelimiterFrameId, fThrottling>>
    BY <1>6 DEF EndOfMessage
  <2>2. Kept' = Kept
    <3>1. (fInputPayloads \o segment) \in Seq(Nat)
      BY <1>0
    <3>2. (fInputPayloads \o segment) \o <<>> = fInputPayloads \o segment
      BY <3>1
    <3> QED BY <2>1, <3>2 DEF Kept
  <2> QED BY <2>1, <2>2 DEF Pending
<1> QED BY <1>2, <1>3, <1>4, <1>5, <1>6, Steps DEF Turn, Drops

(* The frames of the sub time frame in the making, with the one that ends.                     *)
LEMMA FramesMarked ==
  ASSUME Types, Framed, EndHBF
  PROVE  Marked(Frames, fThrottling)
<1>1. fWorkingPayloads \in Seq(Seq(Nat)) /\ FillData \in Seq(Nat)
  BY FrameFacts DEF Types, FramingOK, FramesOK
<1>2. ToSet(Frames) = ToSet(fWorkingPayloads) \cup {FillData}
  BY <1>1, ElementsOfLonger DEF Frames
<1> QED BY <1>2, FrameEnds DEF Framed, Marked

(* Every step keeps the frames in the making delimited and marked. *)
LEMMA WorkingNext == Types /\ Framed /\ [Next]_vars => Marked(fWorkingPayloads, fThrottling)'
<1> SUFFICES ASSUME Types, Framed, [Next]_vars PROVE Marked(fWorkingPayloads, fThrottling)'
  OBVIOUS
<1>0. Marked(fWorkingPayloads, fThrottling)
  BY DEF Framed
<1>1. ASSUME UNCHANGED <<fWorkingPayloads, fThrottling>> PROVE Marked(fWorkingPayloads, fThrottling)'
  BY <1>0, <1>1 DEF Marked, ToSet
<1>2. ASSUME fWorkingPayloads' = <<>> PROVE Marked(fWorkingPayloads, fThrottling)'
  BY <1>2 DEF Marked, ToSet
<1>3. CASE Upstream \/ Control \/ Sends \/ HandleData \/ EndOfMessage \/ (\E d \in Destinations : Consume(d))
           \/ UNCHANGED vars \/ (\E start \in 0 .. StreamLength : PreRun(start)) \/ Drops \/ OtherWord
  <2>1. CASE Upstream \/ Control \/ Sends \/ HandleData \/ (\E d \in Destinations : Consume(d)) \/ UNCHANGED vars
    <3>1. UNCHANGED framing
      BY <2>1, UpstreamUnchanged, TypesControl, SendFacts DEF HandleData, Consume, vars
    <3> QED BY <1>1, <3>1 DEF framing
  <2>2. CASE EndOfMessage \/ (\E start \in 0 .. StreamLength : PreRun(start)) \/ OtherWord
    BY <1>1, <2>2 DEF EndOfMessage, PreRun, OtherWord
  <2>3. CASE Drops
    BY <1>1, <2>3, DropFacts
  <2> QED BY <1>3, <2>1, <2>2, <2>3
<1>4. CASE BeginPostRun
  BY <1>2, <1>4 DEF BeginPostRun
<1>5. CASE FirstDelimiter
  <2>1. UNCHANGED fWorkingPayloads /\ (fThrottling => fThrottling')
    BY <1>5 DEF FirstDelimiter
  <2> QED BY <1>0, <2>1 DEF Marked, ToSet
<1>6. CASE EndHBF
  <2>1. CASE STFIsFull
    BY <1>2, <1>6, <2>1, FinishFacts
  <2>2. CASE ~STFIsFull
    <3>1. fWorkingPayloads' = Frames /\ fThrottling' = fThrottling
      BY <1>6, <2>2, FrameFacts
    <3>2. Marked(Frames, fThrottling)
      BY <1>6, FramesMarked
    <3> QED BY <3>1, <3>2 DEF Marked, ToSet
  <2> QED BY <2>1, <2>2
<1> QED BY <1>3, <1>4, <1>5, <1>6, Steps DEF Turn, Drops

(* Every step keeps the frames delimited and marked.                                       *)
LEMMA FramedNext == Types /\ Framed /\ [Next]_vars => Framed'
<1> SUFFICES ASSUME Types, Framed, [Next]_vars PROVE Framed'
  OBVIOUS
<1>1. Pending' /\ Marked(fWorkingPayloads, fThrottling)'
  BY PendingNext, WorkingNext DEF Framed
<1>2. ASSUME NEW stf \in ToSet(Finished)' PROVE Marked(stf.hbfs, stf.throttled)
  <2>1. CASE stf \in ToSet(Finished)
    BY <2>1 DEF Framed
  <2>2. CASE EndHBF /\ stf = Finishing
    <3>1. stf.hbfs = Frames /\ stf.throttled = fThrottling
      BY <2>2 DEF Finishing
    <3> QED BY <2>2, <3>1, FramesMarked
  <2> QED BY <2>1, <2>2, FinishedStep
<1>3. (\A stf \in ToSet(Finished) : Marked(stf.hbfs, stf.throttled))'
  BY <1>2 DEF Marked, Delimited, KindOf, BeatOf, WordsPerBeat, ToSet
<1> QED BY <1>1, <1>3 DEF Framed

(* At first there is no frame. *)
LEMMA FramedInit == Init => Framed
<1> SUFFICES ASSUME Init PROVE Framed
  OBVIOUS
<1>1. fWorkingPayloads = <<>> /\ Finished = <<>> /\ hbf_flag = 0
  BY DEF Init, Finished
<1>2. ToSet(fWorkingPayloads) = {} /\ ToSet(Finished) = {}
  BY <1>1 DEF ToSet
<1> QED BY <1>1, <1>2 DEF Framed, Pending, Marked

(* Every heartbeat frame ends in a first and a second delimiter, whatever words are lost and      *)
(* wherever the sampler cuts the stream, also between the two (BuildFrame, CheckHBFDelimitor).  *)
THEOREM FramesEndInDelimiters == Spec => []HBFsEndInDelimiters
<1>1. Framed => HBFsEndInDelimiters
  BY DEF Framed, Marked, Delimited, HBFsEndInDelimiters, HBFs
<1> QED BY <1>1, TypesInit, FramedInit, TypesNext, FramedNext, PTL DEF Spec

(* The header of a sub time frame tells of throttling in any of its heartbeat frames, also when    *)
(* the delimiter came in an earlier message (BuildFrame, FinalizeSTF).                    *)
THEOREM ThrottlingMarked == Spec => []ThrottledIsMarked
<1>1. Framed => ThrottledIsMarked
  BY DEF Framed, Marked, ThrottledIsMarked
<1> QED BY <1>1, TypesInit, FramedInit, TypesNext, FramedNext, PTL DEF Spec

-----------------------------------------------------------------------------
(* The boundaries of a sub time frame, with split method 0.  While a run goes on the counter tells  *)
(* how many frames are gathered, and the id is set with the first of them.                *)
InRun == pc \in {"idle", "build", "copy", "send"}

Making ==
  IF InRun
  THEN /\ Len(fWorkingPayloads) = fHBFCounter
       /\ fHBFCounter = 0 => fSTFId = -1
       /\ fHBFCounter > 0 => /\ FrameOf(fWorkingPayloads[1]) % MaxHBF = 0
                             /\ TimeFrameIdType = "first" =>
                                  fSTFId = FrameOf(fWorkingPayloads[1]) /\ fSTFId >= 0
  ELSE fWorkingPayloads = <<>>

Whole(stf) ==
  /\ Len(stf.hbfs) = MaxHBF
  /\ FrameOf(stf.hbfs[1]) % MaxHBF = 0
  /\ TimeFrameIdType = "first" => stf.id = FrameOf(stf.hbfs[1])
  /\ TimeFrameIdType = "last"  => stf.id = FrameOf(stf.hbfs[MaxHBF])

Aligned == Making /\ \A stf \in ToSet(Finished) : Whole(stf)

(* The frames with the one that ends: the first is on a boundary and gives the id, unless the id is  *)
(* that of the last one.                                                             *)
LEMMA AlignedFrames ==
  ASSUME SplitMethod = 0, Types, Pending, Making, EndHBF
  PROVE  /\ Len(Frames) = fHBFCounter + 1 /\ Frames[fHBFCounter + 1] = FillData
         /\ FrameOf(Frames[1]) % MaxHBF = 0
         /\ TimeFrameIdType = "first" => NewSTFId = FrameOf(Frames[1])
         /\ TimeFrameIdType = "last" => NewSTFId = FrameOf(Frames[fHBFCounter + 1])
<1>1. fWorkingPayloads \in Seq(Seq(Nat)) /\ FillData \in Seq(Nat)
  BY FrameFacts DEF Types, FramingOK, FramesOK
<1>2. InRun
  BY TurnFacts DEF Turn, InRun
<1>3. /\ Len(fWorkingPayloads) = fHBFCounter
      /\ fHBFCounter = 0 => fSTFId = -1
      /\ fHBFCounter > 0 => /\ FrameOf(fWorkingPayloads[1]) % MaxHBF = 0
                            /\ TimeFrameIdType = "first" =>
                                 fSTFId = FrameOf(fWorkingPayloads[1]) /\ fSTFId >= 0
  BY <1>2 DEF Making
<1>4. Len(Frames) = Len(fWorkingPayloads) + 1 /\ Frames[Len(fWorkingPayloads) + 1] = FillData
      /\ Len(fWorkingPayloads) \in Nat /\ (Len(fWorkingPayloads) > 0 => Frames[1] = fWorkingPayloads[1])
  BY <1>1 DEF Frames
<1>5. FrameOf(FillData) = fdelimiterFrameId /\ ~OffBoundary
  BY FrameEnds, FrameFacts
<1>6. TimeFrameIdType = "last" => NewSTFId = fdelimiterFrameId
  BY DEF NewSTFId
<1>7. CASE fHBFCounter = 0
  <2>1. fdelimiterFrameId % MaxHBF = 0
    BY <1>5, <1>7 DEF OffBoundary
  <2>2. NewSTFId = fdelimiterFrameId
    BY <1>3, <1>7 DEF NewSTFId
  <2>3. Frames[1] = FillData
    BY <1>3, <1>4, <1>7
  <2> QED BY <1>3, <1>4, <1>5, <1>7, <2>1, <2>2, <2>3
<1>8. CASE fHBFCounter > 0
  <2>1. Frames[1] = fWorkingPayloads[1]
    BY <1>3, <1>4, <1>8
  <2>2. TimeFrameIdType = "first" => NewSTFId = fSTFId
    BY <1>3, <1>8 DEF NewSTFId
  <2> QED BY <1>3, <1>4, <1>5, <1>6, <1>8, <2>1, <2>2
<1>9. fHBFCounter \in Nat
  BY <1>3, <1>4
<1> QED BY <1>7, <1>8, <1>9

(* Gathering: what a step does to the frames, the counter and the id.                         *)
LEMMA MakingNext == SplitMethod = 0 /\ Types /\ Framed /\ Making /\ [Next]_vars => Making'
<1> SUFFICES ASSUME SplitMethod = 0, Types, Framed, Making, [Next]_vars PROVE Making'
  OBVIOUS
<1>1. ASSUME UNCHANGED <<fWorkingPayloads, fHBFCounter, fSTFId>>, InRun' <=> InRun PROVE Making'
  BY <1>1 DEF Making, FrameOf, FrameId, BeatOf, WordsPerBeat
<1>2. ASSUME fWorkingPayloads' = <<>>, ~InRun' PROVE Making'
  BY <1>2 DEF Making
<1>3. ASSUME fWorkingPayloads' = <<>>, fHBFCounter' = 0, fSTFId' = -1 PROVE Making'
  <2>1. Len(<<>>) = 0
    OBVIOUS
  <2> QED BY <1>3, <2>1 DEF Making
<1>4. CASE Upstream \/ HandleData \/ EndOfMessage \/ Sends \/ (\E d \in Destinations : Consume(d))
           \/ Drops \/ FirstDelimiter \/ OtherWord \/ UNCHANGED vars
  <2>1. CASE Upstream \/ HandleData \/ (\E d \in Destinations : Consume(d)) \/ UNCHANGED vars
    <3>1. UNCHANGED framing /\ (InRun' <=> InRun)
      BY <2>1, UpstreamUnchanged DEF HandleData, Consume, vars, InRun
    <3> QED BY <1>1, <3>1 DEF framing
  <2>2. CASE EndOfMessage
    BY <1>1, <2>2 DEF EndOfMessage, InRun
  <2>3. CASE Sends
    <3>1. UNCHANGED framing /\ InRun'
      BY <2>3, SendFacts DEF InRun
    <3>2. InRun
      BY <2>3 DEF Sends, Copy, CopyInterrupted, SendSucceeds, SendInterrupted, SendFails, InRun
    <3> QED BY <1>1, <3>1, <3>2 DEF framing
  <2>4. CASE Drops \/ FirstDelimiter \/ OtherWord
    <3>1. UNCHANGED pc
      BY <2>4, TurnFacts DEF Turn, Drops
    <3>2. UNCHANGED <<fWorkingPayloads, fHBFCounter, fSTFId>>
      BY <2>4, DropFacts DEF FirstDelimiter, OtherWord
    <3> QED BY <1>1, <3>1, <3>2 DEF InRun
  <2> QED BY <1>4, <2>1, <2>2, <2>3, <2>4
<1>5. CASE Control
  <2>1. UNCHANGED framing
    BY <1>5, TypesControl
  <2>2. InRun' <=> InRun
    BY <1>5 DEF Control, RequestStop, EndPostRun, AllSent, InRun
  <2> QED BY <1>1, <2>1, <2>2 DEF framing
<1>6. CASE \E start \in 0 .. StreamLength : PreRun(start)
  <2>1. ~InRun /\ UNCHANGED fWorkingPayloads /\ fHBFCounter' = 0 /\ fSTFId' = -1
    BY <1>6 DEF PreRun, InRun
  <2>2. fWorkingPayloads = <<>>
    BY <2>1 DEF Making
  <2> QED BY <1>3, <2>1, <2>2
<1>7. CASE BeginPostRun
  BY <1>2, <1>7 DEF BeginPostRun, InRun
<1>8. CASE EndHBF
  <2>1. CASE STFIsFull
    <3>1. fWorkingPayloads' = <<>> /\ fSTFId' = -1 /\ fHBFCounter' = 0
      BY <1>8, <2>1, FinishFacts, FrameFacts
    <3> QED BY <1>3, <3>1
  <2>2. CASE ~STFIsFull
    <3>1. fWorkingPayloads' = Frames /\ fSTFId' = NewSTFId /\ fHBFCounter' = fHBFCounter + 1
          /\ NewSTFId >= 0 /\ InRun'
      <4>1. NewSTFId \in 0 .. FrameIdModulus - 1 /\ FrameIdModulus \in Nat
        BY <1>8, FrameFacts, STFConstantsAssumption
      <4>2. InRun'
        BY <1>8, TurnFacts DEF Turn, InRun
      <4> QED BY <1>8, <2>2, <4>1, <4>2, FrameFacts
    <3>2. /\ Len(Frames) = fHBFCounter + 1
          /\ FrameOf(Frames[1]) % MaxHBF = 0
          /\ TimeFrameIdType = "first" => NewSTFId = FrameOf(Frames[1])
      BY <1>8, AlignedFrames DEF Framed
    <3>3. fHBFCounter \in Nat
      BY DEF Types, FramingOK, CounterOK
    <3>4. FrameOf(fWorkingPayloads[1])' = FrameOf(Frames[1])
      BY <3>1 DEF FrameOf, FrameId, BeatOf, WordsPerBeat
    <3> HIDE DEF FrameOf
    <3> QED BY <3>1, <3>2, <3>3, <3>4 DEF Making
  <2> QED BY <2>1, <2>2
<1> QED BY <1>4, <1>5, <1>6, <1>7, <1>8, Steps DEF Turn, Drops

(* A sub time frame that is finished holds MaxHBF frames.                                   *)
LEMMA FinishedWhole ==
  ASSUME SplitMethod = 0, Types, Framed, Making, EndHBF, STFIsFull
  PROVE  Whole(Finishing)
<1>1. fHBFCounter + 1 = MaxHBF
  <2>1. fHBFCounter \in Nat /\ fHBFCounter < MaxHBF /\ MaxHBF \in Nat \ {0}
    BY STFConstantsAssumption DEF Types, FramingOK, CounterOK
  <2>2. (fHBFCounter + 1) % MaxHBF = 0
    BY DEF STFIsFull
  <2>3. fHBFCounter + 1 < MaxHBF => (fHBFCounter + 1) % MaxHBF = fHBFCounter + 1
    BY <2>1
  <2> QED BY <2>1, <2>2, <2>3
<1>2. Finishing.hbfs = Frames /\ (TimeFrameIdType # "sequence" => Finishing.id = NewSTFId)
  BY DEF Finishing
<1>3. /\ Len(Frames) = fHBFCounter + 1
      /\ FrameOf(Frames[1]) % MaxHBF = 0
      /\ TimeFrameIdType = "first" => NewSTFId = FrameOf(Frames[1])
      /\ TimeFrameIdType = "last" => NewSTFId = FrameOf(Frames[fHBFCounter + 1])
  BY AlignedFrames DEF Framed
<1> QED BY <1>1, <1>2, <1>3 DEF Whole

(* Every step keeps the sub time frames aligned, with split method 0. *)
LEMMA AlignedNext ==
  SplitMethod = 0 /\ Types /\ Framed /\ Aligned /\ [Next]_vars => Aligned'
<1> SUFFICES ASSUME SplitMethod = 0, Types, Framed, Aligned, [Next]_vars PROVE Aligned'
  OBVIOUS
<1>1. Making'
  BY MakingNext DEF Aligned
<1>2. ASSUME NEW stf \in ToSet(Finished)' PROVE Whole(stf)
  <2>1. CASE stf \in ToSet(Finished)
    BY <2>1 DEF Aligned
  <2>2. CASE EndHBF /\ STFIsFull /\ stf = Finishing
    BY <2>2, FinishedWhole DEF Aligned
  <2> QED BY <2>1, <2>2, FinishedStep
<1>3. (\A stf \in ToSet(Finished) : Whole(stf))'
  BY <1>2 DEF Whole, FrameOf, FrameId, BeatOf, WordsPerBeat, ToSet
<1> QED BY <1>1, <1>3 DEF Aligned

(* At first there is no sub time frame. *)
LEMMA AlignedInit == Init => Aligned
<1> SUFFICES ASSUME Init PROVE Aligned
  OBVIOUS
<1>1. fWorkingPayloads = <<>> /\ Finished = <<>> /\ ~InRun
  BY DEF Init, Finished, InRun
<1>2. ToSet(Finished) = {}
  BY <1>1 DEF ToSet
<1> QED BY <1>1, <1>2 DEF Aligned, Making

(* With split method 0 every sub time frame holds MaxHBF frames, begins on a boundary of MaxHBF   *)
(* and carries the id of its first or last frame, whatever words are lost (BuildFrame, FillData,    *)
(* FinalizeSTF): the ids are what TimeFrameBuilder matches.                                *)
THEOREM BoundariesKept == ASSUME SplitMethod = 0 PROVE Spec => []STFsBeginOnBoundary
<1> DEFINE Inv == SplitMethod = 0 => Aligned
<1>1. Aligned => STFsBeginOnBoundary
  BY DEF Aligned, Whole, STFsBeginOnBoundary
<1>2. Init => Inv
  BY AlignedInit
<1>3. Types /\ Framed /\ Inv /\ [Next]_vars => Inv'
  BY AlignedNext
<1>4. Inv => STFsBeginOnBoundary
  BY <1>1
<1> HIDE DEF Inv
<1> QED BY <1>2, <1>3, <1>4, TypesInit, FramedInit, TypesNext, FramedNext, PTL DEF Spec

-----------------------------------------------------------------------------
(* What STFBuilder does to the words of the stream: they are never reordered or      *)
(* doubled, words of two runs are never mixed, and without losses no word is       *)
(* dropped between the sub time frames of a run.                                 *)
(*                                                                         *)
(* All three follow one thread, AllWords: the words in finished sub time frames,   *)
(* then those gathered for the next one, then those the device has not looked at.  *)
(* A turn of the loop moves a word from the third part to the second (TurnTakes,    *)
(* TurnGathers) or takes some out.                                           *)

(* The words of sub time frames, one after the other.                                *)
WordLists(q)   == [i \in DOMAIN q |-> WordsOf(q[i].hbfs)]
WordsOfSTFs(q) == WordsOf(WordLists(q))

(* Words are sequences of numbers. *)
LEMMA WordsType ==
  ASSUME NEW q \in Seq(STFs)
  PROVE  WordLists(q) \in Seq(Seq(Nat)) /\ WordsOfSTFs(q) \in Seq(Nat)
<1>1. \A x \in STFs : WordsOf(x.hbfs) \in Seq(Nat)
  BY FlattenType DEF STFs, WordsOf
<1>2. WordLists(q) \in Seq(Seq(Nat))
  <2>1. Len(q) \in Nat /\ DOMAIN q = 1 .. Len(q) /\ \A i \in 1 .. Len(q) : q[i] \in STFs
    OBVIOUS
  <2>2. WordLists(q) \in [1 .. Len(q) -> Seq(Nat)]
    BY <1>1, <2>1 DEF WordLists
  <2> QED BY <2>1, <2>2
<1> QED BY <1>2, FlattenType DEF WordsOfSTFs, WordsOf

(* The words of one more sub time frame come last. *)
LEMMA WordsLonger ==
  ASSUME NEW q \in Seq(STFs), NEW x \in STFs
  PROVE  WordsOfSTFs(Append(q, x)) = WordsOfSTFs(q) \o WordsOf(x.hbfs)
<1> DEFINE a == Append(q, x)
<1>0. a \in Seq(STFs)
  OBVIOUS
<1>1. WordLists(q) \in Seq(Seq(Nat)) /\ WordLists(a) \in Seq(Seq(Nat))
  BY <1>0, WordsType
<1>2. WordsOf(x.hbfs) \in Seq(Nat)
  BY FlattenType DEF STFs, WordsOf
<1>3. WordLists(a) = Append(WordLists(q), WordsOf(x.hbfs))
  <2>1. DOMAIN q = 1 .. Len(q) /\ DOMAIN a = 1 .. Len(q) + 1 /\ Len(q) \in Nat
        /\ a[Len(q) + 1] = x /\ \A i \in 1 .. Len(q) : a[i] = q[i]
    OBVIOUS
  <2> HIDE DEF a
  <2>2. /\ \A i \in 1 .. Len(q) : WordLists(q)[i] = WordsOf(q[i].hbfs)
        /\ \A i \in 1 .. Len(q) + 1 : WordLists(a)[i] = WordsOf(a[i].hbfs)
        /\ DOMAIN WordLists(q) = 1 .. Len(q) /\ DOMAIN WordLists(a) = 1 .. Len(q) + 1
    BY <2>1 DEF WordLists
  <2>3. Len(WordLists(q)) = Len(q) /\ Len(WordLists(a)) = Len(q) + 1
    BY <1>1, <2>1, <2>2
  <2>4. Len(q) + 1 \in 1 .. Len(q) + 1 /\ \A i \in 1 .. Len(q) : i \in 1 .. Len(q) + 1
    BY <2>1
  <2>5. WordLists(a)[Len(q) + 1] = WordsOf(x.hbfs)
    BY <2>1, <2>2, <2>4
  <2>6. \A i \in 1 .. Len(q) : WordLists(a)[i] = WordLists(q)[i]
    BY <2>1, <2>2, <2>4
  <2> HIDE DEF WordLists
  <2> QED BY <1>1, <1>2, <2>3, <2>5, <2>6, IsLonger
<1>4. FlattenSeq(Append(WordLists(q), WordsOf(x.hbfs))) = FlattenSeq(WordLists(q)) \o WordsOf(x.hbfs)
  BY <1>1, <1>2, FlattenAppend
<1> QED BY <1>3, <1>4 DEF WordsOfSTFs, WordsOf

(* The words of two groups of sub time frames. *)
LEMMA WordsOfBoth ==
  ASSUME NEW q \in Seq(STFs), NEW r \in Seq(STFs)
  PROVE  WordsOfSTFs(q \o r) = WordsOfSTFs(q) \o WordsOfSTFs(r)
<1> DEFINE b == q \o r
<1>0. b \in Seq(STFs)
  OBVIOUS
<1>1. WordLists(q) \in Seq(Seq(Nat)) /\ WordLists(r) \in Seq(Seq(Nat)) /\ WordLists(b) \in Seq(Seq(Nat))
  BY <1>0, WordsType
<1>2. WordLists(b) = WordLists(q) \o WordLists(r)
  <2>1. /\ DOMAIN q = 1 .. Len(q) /\ DOMAIN r = 1 .. Len(r) /\ Len(q) \in Nat /\ Len(r) \in Nat
        /\ DOMAIN b = 1 .. Len(q) + Len(r)
        /\ \A i \in 1 .. Len(q) : b[i] = q[i] /\ i \in 1 .. Len(q) + Len(r)
        /\ \A i \in 1 .. Len(r) : b[Len(q) + i] = r[i] /\ Len(q) + i \in 1 .. Len(q) + Len(r)
    OBVIOUS
  <2> HIDE DEF b
  <2>2. /\ \A i \in 1 .. Len(q) : WordLists(q)[i] = WordsOf(q[i].hbfs)
        /\ \A i \in 1 .. Len(r) : WordLists(r)[i] = WordsOf(r[i].hbfs)
        /\ \A i \in 1 .. Len(q) + Len(r) : WordLists(b)[i] = WordsOf(b[i].hbfs)
        /\ DOMAIN WordLists(q) = 1 .. Len(q) /\ DOMAIN WordLists(r) = 1 .. Len(r)
        /\ DOMAIN WordLists(b) = 1 .. Len(q) + Len(r)
    BY <2>1 DEF WordLists
  <2>3. Len(WordLists(q)) = Len(q) /\ Len(WordLists(r)) = Len(r) /\ Len(WordLists(b)) = Len(q) + Len(r)
    BY <1>1, <2>1, <2>2
  <2>4. \A i \in 1 .. Len(q) : WordLists(b)[i] = WordLists(q)[i]
    BY <2>1, <2>2
  <2>5. \A i \in 1 .. Len(r) : WordLists(b)[Len(q) + i] = WordLists(r)[i]
    BY <2>1, <2>2
  <2> DEFINE u == WordLists(q)
             v == WordLists(r)
             t == WordLists(b)
  <2>6. /\ u \in Seq(Seq(Nat)) /\ v \in Seq(Seq(Nat)) /\ t \in Seq(Seq(Nat)) /\ Len(t) = Len(u) + Len(v)
        /\ \A i \in 1 .. Len(u) : t[i] = u[i]
        /\ \A i \in 1 .. Len(v) : t[Len(u) + i] = v[i]
    BY <1>1, <2>3, <2>4, <2>5
  <2> HIDE DEF u, v, t
  <2>7. t = u \o v
    BY <2>6, IsBoth
  <2> QED BY <2>7 DEF u, v, t
<1> QED BY <1>1, <1>2, FlattenConcat DEF WordsOfSTFs, WordsOf

-----------------------------------------------------------------------------
(* All words that are somewhere: in finished sub time frames, in the one in the making, kept from  *)
(* earlier messages, from this one, still to be looked at, on the wire.                 *)
Gathered  == WordsOf(fWorkingPayloads) \o Kept
Remaining == msg \o wire
AllWords  == (WordsOfSTFs(Finished) \o Gathered) \o Remaining

(* They are numbers. *)
LEMMA WordsTypes ==
  ASSUME Types
  PROVE  /\ segment \in Seq(Nat) /\ fInputPayloads \in Seq(Nat) /\ msg \in Seq(Nat) /\ wire \in Seq(Nat)
         /\ fWorkingPayloads \in Seq(Seq(Nat)) /\ WordsOf(fWorkingPayloads) \in Seq(Nat)
         /\ Kept \in Seq(Nat) /\ Gathered \in Seq(Nat) /\ Remaining \in Seq(Nat) /\ pos \in Nat
         /\ sent \in Seq(STFs) /\ fOutputPayloads \in Seq(STFs) /\ Finished \in Seq(STFs)
         /\ WordsOfSTFs(Finished) \in Seq(Nat) /\ WordsOfSTFs(sent) \in Seq(Nat)
<1>1. /\ segment \in Seq(Nat) /\ fInputPayloads \in Seq(Nat) /\ msg \in Seq(Nat) /\ wire \in Seq(Nat)
      /\ fWorkingPayloads \in Seq(Seq(Nat)) /\ sent \in Seq(STFs) /\ fOutputPayloads \in Seq(STFs)
      /\ pos \in Nat
  BY StreamType DEF Types, FramingOK, WordsOK, FramesOK, DeliveryOK, OutputsOK, SourceOK
<1>2. WordsOf(fWorkingPayloads) \in Seq(Nat)
  BY <1>1, FlattenType DEF WordsOf
<1>3. Kept \in Seq(Nat) /\ Remaining \in Seq(Nat) /\ Finished \in Seq(STFs)
  BY <1>1 DEF Kept, Remaining, Finished
<1>4. Gathered \in Seq(Nat)
  BY <1>2, <1>3 DEF Gathered
<1> QED BY <1>1, <1>2, <1>3, <1>4, WordsType

(* A turn of the loop takes a word from what remains. *)
LEMMA TurnTakes ==
  ASSUME Types, Turn, NEW a \in Seq(Nat)
  PROVE  a \o Remaining = Append(a, Word) \o Remaining'
<1>1. msg \in Seq(Nat) /\ wire \in Seq(Nat) /\ msg # <<>> /\ msg' = Tail(msg) /\ wire' = wire
  BY WordsTypes, TurnFacts DEF source
<1> DEFINE h == <<Word>>
           t == Tail(msg)
           u == t \o wire
<1>2. h \in Seq(Nat) /\ t \in Seq(Nat) /\ msg = h \o t /\ Append(a, Word) = a \o h
  BY <1>1 DEF Word
<1>3. \A b, c, d \in Seq(Nat) : (b \o c) \o d = b \o (c \o d)
  BY Together
<1> HIDE DEF h, t
<1>4. u \in Seq(Nat) /\ (h \o t) \o wire = h \o u
  <2>1. wire \in Seq(Nat) /\ h \in Seq(Nat) /\ t \in Seq(Nat)
    BY <1>1, <1>2
  <2>2. t \o wire \in Seq(Nat)
    BY <2>1
  <2>3. (h \o t) \o wire = h \o (t \o wire)
    BY <1>3, <2>1, Zenon
  <2> QED BY <2>2, <2>3
<1> HIDE DEF u
<1>5. (a \o h) \o u = a \o (h \o u)
  BY <1>2, <1>3, <1>4
<1> QED BY <1>1, <1>2, <1>4, <1>5 DEF Remaining, u, t

(* The words of the frames with the one that ends are the words gathered and the delimiter. *)
LEMMA FrameWords ==
  ASSUME Types, EndHBF
  PROVE  WordsOf(Frames) = Append(Gathered, Word) /\ WordsOf(Frames) \in Seq(Nat)
<1>1. fWorkingPayloads \in Seq(Seq(Nat)) /\ WordsOf(fWorkingPayloads) \in Seq(Nat) /\ Kept \in Seq(Nat)
      /\ segment \in Seq(Nat) /\ fInputPayloads \in Seq(Nat) /\ Word \in Nat /\ FillData \in Seq(Nat)
  BY WordsTypes, TurnFacts, FrameFacts DEF Turn
<1>2. FillData = Append(Kept, Word)
  BY <1>1, LongerBehind DEF FillData, Kept
<1>3. WordsOf(Frames) = WordsOf(fWorkingPayloads) \o FillData
  BY <1>1, FlattenAppend DEF Frames, WordsOf
<1>4. WordsOf(fWorkingPayloads) \o Append(Kept, Word) = Append(WordsOf(fWorkingPayloads) \o Kept, Word)
  BY <1>1, LongerBehind, SMTT(30)
<1>5. WordsOf(Frames) \in Seq(Nat)
  BY <1>1, <1>3
<1> QED BY <1>2, <1>3, <1>4, <1>5 DEF Gathered

(* What is finished with the end of a frame. *)
LEMMA FinishedLonger ==
  ASSUME Types, EndHBF
  PROVE  /\ STFIsFull => Finished' = Append(Finished, Finishing) /\ Finishing \in STFs
         /\ ~STFIsFull => Finished' = Finished
<1>1. UNCHANGED sent
  BY TurnFacts DEF Turn, delivery
<1>2. sent \in Seq(STFs) /\ fOutputPayloads \in Seq(STFs)
  BY WordsTypes
<1>3. CASE STFIsFull
  <2>1. Finishing \in STFs /\ fOutputPayloads' = Append(fOutputPayloads, Finishing)
    BY <1>3, FinishFacts
  <2>2. sent \o Append(fOutputPayloads, Finishing) = Append(sent \o fOutputPayloads, Finishing)
    BY <1>2, <2>1, LongerBehind
  <2> QED BY <1>1, <1>3, <2>1, <2>2 DEF Finished
<1>4. CASE ~STFIsFull
  BY <1>1, <1>4, FrameFacts DEF Finished
<1> QED BY <1>3, <1>4

(* The words before those that remain: a turn adds the word to them, or drops it with the words    *)
(* of this message.                                                               *)
LEMMA TurnGathers ==
  ASSUME Types, Turn
  PROVE  \/ /\ Drops /\ Finished' = Finished
            /\ Gathered' = WordsOf(fWorkingPayloads) \o fInputPayloads
         \/ /\ ~Drops
            /\ WordsOfSTFs(Finished)' \o Gathered' = Append(WordsOfSTFs(Finished) \o Gathered, Word)
            /\ ~(EndHBF /\ STFIsFull) => Finished' = Finished /\ Gathered' = Append(Gathered, Word)
<1>0. /\ segment \in Seq(Nat) /\ fInputPayloads \in Seq(Nat) /\ WordsOf(fWorkingPayloads) \in Seq(Nat)
      /\ Kept \in Seq(Nat) /\ Gathered \in Seq(Nat) /\ Finished \in Seq(STFs)
      /\ WordsOfSTFs(Finished) \in Seq(Nat) /\ Word \in Nat /\ UNCHANGED sent
  BY WordsTypes, TurnFacts DEF delivery
<1>1. ASSUME Drops PROVE Finished' = Finished /\ Gathered' = WordsOf(fWorkingPayloads) \o fInputPayloads
  <2>1. segment' = <<>> /\ UNCHANGED <<fInputPayloads, fWorkingPayloads, fOutputPayloads>>
    BY <1>1, DropFacts
  <2>2. Kept' = fInputPayloads
    BY <1>0, <2>1 DEF Kept
  <2> QED BY <1>0, <2>1, <2>2 DEF Gathered, Finished
<1>2. WordsOfSTFs(Finished) \o Append(Gathered, Word) = Append(WordsOfSTFs(Finished) \o Gathered, Word)
  BY <1>0, LongerBehind, SMTT(30)
<1>3. ASSUME Gathered' = Append(Gathered, Word), Finished' = Finished
      PROVE  WordsOfSTFs(Finished)' \o Gathered' = Append(WordsOfSTFs(Finished) \o Gathered, Word)
  BY <1>2, <1>3 DEF WordsOfSTFs, WordLists
<1>4. CASE FirstDelimiter \/ OtherWord
  <2>1. segment' = Append(segment, Word) /\ UNCHANGED <<fInputPayloads, fWorkingPayloads, fOutputPayloads>>
    BY <1>4 DEF FirstDelimiter, OtherWord
  <2>2. Kept' = Append(Kept, Word)
    BY <1>0, <2>1, LongerBehind, SMTT(30) DEF Kept
  <2>3. WordsOf(fWorkingPayloads) \o Append(Kept, Word) = Append(WordsOf(fWorkingPayloads) \o Kept, Word)
    <3>1. WordsOf(fWorkingPayloads) \in Seq(Nat) /\ Kept \in Seq(Nat) /\ Word \in Nat
      BY <1>0
    <3>2. \A a, b \in Seq(Nat), x \in Nat : a \o Append(b, x) = Append(a \o b, x)
      BY LongerBehind
    <3> QED BY <3>1, <3>2, Zenon
  <2>4. Gathered' = Append(Gathered, Word) /\ Finished' = Finished
    BY <1>0, <2>1, <2>2, <2>3 DEF Gathered, Finished
  <2> QED BY <1>1, <1>3, <2>4
<1>5. CASE EndHBF
  <2>1. segment' = <<>> /\ fInputPayloads' = <<>>
    BY <1>5, FrameFacts
  <2>2. Kept' = <<>>
    BY <2>1 DEF Kept
  <2>3. CASE STFIsFull
    <3>1. fWorkingPayloads' = <<>> /\ Finished' = Append(Finished, Finishing) /\ Finishing \in STFs
      BY <1>5, <2>3, FinishFacts, FinishedLonger
    <3>2. Gathered' = <<>>
      BY <2>2, <3>1, FlattenEmpty DEF Gathered, WordsOf
    <3>3. WordsOfSTFs(Append(Finished, Finishing)) = WordsOfSTFs(Finished) \o WordsOf(Finishing.hbfs)
      BY <1>0, <3>1, WordsLonger
    <3>4. WordsOf(Finishing.hbfs) = Append(Gathered, Word)
      BY <1>5, FrameWords DEF Finishing
    <3>5. WordsOfSTFs(Finished)' = Append(WordsOfSTFs(Finished) \o Gathered, Word)
      BY <1>2, <3>1, <3>3, <3>4 DEF WordsOfSTFs, WordLists
    <3>6. Append(WordsOfSTFs(Finished) \o Gathered, Word) \in Seq(Nat)
      BY <1>0
    <3>7. WordsOfSTFs(Finished)' \o Gathered' = Append(WordsOfSTFs(Finished) \o Gathered, Word)
      BY <3>2, <3>5, <3>6
    <3> QED BY <1>1, <1>5, <2>3, <3>7
  <2>4. CASE ~STFIsFull
    <3>1. fWorkingPayloads' = Frames /\ Finished' = Finished
      BY <1>5, <2>4, FrameFacts, FinishedLonger
    <3>2. WordsOf(Frames) = Append(Gathered, Word) /\ WordsOf(Frames) \in Seq(Nat)
      BY <1>5, FrameWords
    <3>3. Gathered' = Append(Gathered, Word)
      BY <2>2, <3>1, <3>2 DEF Gathered
    <3> QED BY <1>1, <1>3, <3>1, <3>3
  <2> QED BY <2>3, <2>4
<1> QED BY <1>1, <1>4, <1>5 DEF Turn, Drops

-----------------------------------------------------------------------------
(* The words are in order: each was produced after the ones before it.                 *)
Ordered == AscendsTo(AllWords, pos)

(* Words that are taken out leave the others in order. *)
LEMMA OrderedWithout ==
  ASSUME Types, Types', Ordered, pos <= pos',
         NEW a \in Seq(Nat), NEW b \in Seq(Nat), NEW c \in Seq(Nat),
         AllWords = (a \o b) \o c, AllWords' = a \o c
  PROVE  Ordered'
<1>1. pos \in Nat /\ pos' \in Nat
  BY StreamType DEF Types, SourceOK
<1>2. AscendsTo(a \o c, pos)
  BY <1>1, AscendsWithout DEF Ordered
<1>3. a \o c \in Seq(Nat)
  OBVIOUS
<1>4. \A i \in 1 .. Len(a \o c) : (a \o c)[i] \in Nat
  BY <1>3
<1> DEFINE s == a \o c
<1> HIDE DEF s
<1>5. AscendsTo(s, pos')
  BY <1>1, <1>2, <1>4, SMTT(30) DEF AscendsTo, s
<1> QED BY <1>5 DEF Ordered, s, AscendsTo

(* The same words. *)
LEMMA OrderedSame ==
  ASSUME Types, Types', Ordered, pos <= pos', AllWords' = AllWords
  PROVE  Ordered'
<1>1. AllWords \in Seq(Nat)
  BY WordsTypes DEF AllWords
<1> DEFINE s == AllWords
<1>2. s \in Seq(Nat) /\ AllWords = s /\ AllWords' = s
  BY <1>1
<1> HIDE DEF s
<1>3. (s \o <<>>) \o <<>> = s /\ s \o <<>> = s /\ <<>> \in Seq(Nat)
  BY <1>2
<1> QED BY <1>2, <1>3, OrderedWithout

(* The sampler: a word more at the end, or the wire emptied. *)
LEMMA OrderedUpstream == Types /\ Ordered /\ Upstream /\ Types' => Ordered'
<1> SUFFICES ASSUME Types, Ordered, Upstream, Types' PROVE Ordered'
  OBVIOUS
<1>0. pos \in Nat /\ pos' \in Nat /\ msg \in Seq(Nat) /\ wire \in Seq(Nat)
      /\ WordsOfSTFs(Finished) \in Seq(Nat) /\ Gathered \in Seq(Nat)
  BY WordsTypes, StreamType DEF Types, SourceOK
<1> DEFINE g == WordsOfSTFs(Finished) \o Gathered
<1>1. g \in Seq(Nat) /\ g' = g /\ msg' = msg
  <2>1. UNCHANGED <<sent, fOutputPayloads, fWorkingPayloads, fInputPayloads, segment, msg>>
    BY UpstreamUnchanged DEF delivery, framing
  <2>2. Finished' = Finished /\ Gathered' = Gathered
    BY <2>1 DEF Finished, Gathered, Kept
  <2> QED BY <1>0, <2>1, <2>2 DEF WordsOfSTFs, WordLists
<1>2. AllWords = g \o (msg \o wire) /\ AllWords' = g \o (msg \o wire')
  BY <1>1 DEF AllWords, Remaining
<1> HIDE DEF g
<1>3. \A b, c, d \in Seq(Nat) : (b \o c) \o d = b \o (c \o d)
  BY Together
<1>4. CASE ProduceWord
  <2>1. pos' = pos + 1 /\ wire' = Append(wire, pos')
    BY <1>4 DEF ProduceWord
  <2>2. msg \o Append(wire, pos') = Append(msg \o wire, pos') /\ msg \o wire \in Seq(Nat)
    BY <1>0, LongerBehind
  <2>3. g \o Append(msg \o wire, pos') = Append(g \o (msg \o wire), pos')
    BY <1>0, <1>1, <2>2, LongerBehind, SMTT(30)
  <2>4. AllWords' = Append(AllWords, pos') /\ AllWords \in Seq(Nat) /\ pos < pos'
    <3>1. AllWords' = Append(AllWords, pos')
      BY <1>2, <2>1, <2>2, <2>3, Zenon
    <3>2. AllWords \in Seq(Nat)
      BY <1>1, <1>2, <2>2
    <3> QED BY <1>0, <2>1, <3>1, <3>2
  <2>5. AscendsTo(Append(AllWords, pos'), pos')
    BY <1>0, <2>4, AscendsLonger DEF Ordered
  <2> QED BY <2>4, <2>5 DEF Ordered, AscendsTo
<1>5. CASE DrainOne
  <2>1. wire' = <<>> /\ pos' = pos
    BY <1>5 DEF DrainOne
  <2> DEFINE a == g \o msg
  <2>2. a \o wire = AllWords
    BY <1>0, <1>1, <1>2, <1>3, Zenon
  <2>3. a \in Seq(Nat)
    BY <1>0, <1>1
  <2>4. msg \o <<>> = msg
    BY <1>0
  <2>5. AllWords' = a
    BY <1>2, <2>1, <2>4
  <2> HIDE DEF a
  <2>6. <<>> \in Seq(Nat) /\ (a \o wire) \o <<>> = a \o wire /\ a \o <<>> = a
    BY <1>0, <2>3
  <2>7. AllWords = (a \o wire) \o <<>> /\ AllWords' = a \o <<>> /\ pos <= pos'
    BY <1>0, <2>1, <2>2, <2>5, <2>6
  <2> QED BY <1>0, <2>3, <2>6, <2>7, OrderedWithout, Zenon
<1>6. CASE LoseWord \/ StopUpstream
  <2>1. wire' = wire /\ pos <= pos'
    BY <1>0, <1>6 DEF LoseWord, StopUpstream
  <2> QED BY <1>2, <2>1, OrderedSame
<1> QED BY <1>4, <1>5, <1>6 DEF Upstream

(* The turns of the loop: a word goes over to those gathered, or goes with those of this message. *)
LEMMA OrderedTurn == Types /\ Ordered /\ Turn /\ Types' => Ordered'
<1> SUFFICES ASSUME Types, Ordered, Turn, Types' PROVE Ordered'
  OBVIOUS
<1>0. /\ pos \in Nat /\ pos' = pos /\ Word \in Nat /\ segment \in Seq(Nat) /\ fInputPayloads \in Seq(Nat)
      /\ WordsOf(fWorkingPayloads) \in Seq(Nat) /\ WordsOfSTFs(Finished) \in Seq(Nat)
      /\ Gathered \in Seq(Nat)
  BY WordsTypes, TurnFacts DEF source
<1>1. Remaining' \in Seq(Nat)
  <2>1. msg' \in Seq(Nat) /\ wire' \in Seq(Nat)
    BY DEF Types, FramingOK, WordsOK, SourceOK
  <2> QED BY <2>1 DEF Remaining
<1> DEFINE f == WordsOfSTFs(Finished)
           r == Remaining'
<1>2. AllWords = Append(f \o Gathered, Word) \o r
  <2>1. f \o Gathered \in Seq(Nat)
    BY <1>0
  <2> QED BY <2>1, TurnTakes DEF AllWords
<1>3. CASE ~Drops
  <2>1. WordsOfSTFs(Finished)' \o Gathered' = Append(f \o Gathered, Word)
    BY <1>3, TurnGathers
  <2>2. AllWords' = AllWords
    BY <1>2, <2>1 DEF AllWords
  <2> QED BY <1>0, <2>2, OrderedSame
<1>4. CASE Drops
  <2> DEFINE k == WordsOf(fWorkingPayloads) \o fInputPayloads
             a == f \o k
             b == Append(segment, Word)
  <2>1. Finished' = Finished /\ Gathered' = k
    BY <1>4, TurnGathers
  <2>2. AllWords' = a \o r
    BY <2>1 DEF AllWords, WordsOfSTFs, WordLists
  <2>3. k \in Seq(Nat) /\ a \in Seq(Nat) /\ b \in Seq(Nat)
    BY <1>0
  <2>4. \A x, y, z \in Seq(Nat) : (x \o y) \o z = x \o (y \o z)
    BY Together
  <2>5. Gathered = k \o segment
    BY <1>0, <2>4, ZenonT(60) DEF Gathered, Kept
  <2> HIDE DEF k
  <2> HIDE DEF f, r
  <2>6. f \in Seq(Nat) /\ k \in Seq(Nat) /\ segment \in Seq(Nat) /\ a \in Seq(Nat) /\ Word \in Nat
    BY <1>0, <2>3 DEF f
  <2>7. a \o segment = f \o (k \o segment)
    BY <2>6, Together, SMTT(30)
  <2> HIDE DEF a
  <2>8. a \o b = Append(a \o segment, Word)
    BY <2>6, LongerBehind
  <2> HIDE DEF b
  <2>9. AllWords = (a \o b) \o r
    BY <1>2, <2>5, <2>7, <2>8
  <2>10. r \in Seq(Nat) /\ pos <= pos'
    BY <1>0, <1>1 DEF r
  <2> QED BY <2>2, <2>3, <2>9, <2>10, OrderedWithout, Zenon
<1> QED BY <1>3, <1>4

(* The finished sub time frames, and those that are sent without the ones that wait. *)
LEMMA SentWords ==
  ASSUME Types
  PROVE  /\ WordsOfSTFs(Finished) = WordsOfSTFs(sent) \o WordsOfSTFs(fOutputPayloads)
         /\ WordsOfSTFs(sent) \in Seq(Nat) /\ WordsOfSTFs(fOutputPayloads) \in Seq(Nat)
BY WordsTypes, WordsType, WordsOfBoth DEF Finished

(* The end of a run forgets the words between those sent and those of this message. *)
LEMMA OrderedBeginPostRun == Types /\ Ordered /\ BeginPostRun /\ Types' => Ordered'
<1> SUFFICES ASSUME Types, Ordered, BeginPostRun, Types' PROVE Ordered'
  OBVIOUS
<1>0. /\ segment \in Seq(Nat) /\ fInputPayloads \in Seq(Nat) /\ WordsOf(fWorkingPayloads) \in Seq(Nat)
      /\ Remaining \in Seq(Nat) /\ pos \in Nat /\ sent \in Seq(STFs)
  BY WordsTypes
<1>1. /\ fInputPayloads' = <<>> /\ fWorkingPayloads' = <<>> /\ fOutputPayloads' = <<>>
      /\ UNCHANGED <<segment, msg, wire, pos, sent>>
  BY DEF BeginPostRun, delivery, source
<1> DEFINE s == WordsOfSTFs(sent)
           o == WordsOfSTFs(fOutputPayloads)
           k == WordsOf(fWorkingPayloads) \o fInputPayloads
           b == o \o k
           r == segment \o Remaining
<1>2. s \in Seq(Nat) /\ o \in Seq(Nat) /\ k \in Seq(Nat) /\ WordsOfSTFs(Finished) = s \o o
  BY <1>0, SentWords
<1>3. Gathered = k \o segment
  <2>1. \A x, y, z \in Seq(Nat) : (x \o y) \o z = x \o (y \o z)
    BY Together
  <2> QED BY <1>0, <2>1 DEF Gathered, Kept
<1>4. AllWords' = s \o r
  <2>1. Finished' = sent
    BY <1>0, <1>1 DEF Finished
  <2>2. WordsOfSTFs(Finished)' = s
    BY <2>1 DEF WordsOfSTFs, WordLists
  <2>3. Gathered' = segment
    <3>1. Kept' = segment /\ WordsOf(fWorkingPayloads)' = <<>>
      BY <1>0, <1>1, FlattenEmpty DEF Kept, WordsOf
    <3> QED BY <1>0, <3>1 DEF Gathered
  <2>4. Remaining' = Remaining
    BY <1>1 DEF Remaining
  <2> HIDE DEF s
  <2>5. s \in Seq(Nat) /\ segment \in Seq(Nat) /\ Remaining \in Seq(Nat)
    BY <1>0, <1>2
  <2>6. (s \o segment) \o Remaining = s \o r
    BY <2>5, Together, SMTT(30)
  <2> QED BY <2>2, <2>3, <2>4, <2>6 DEF AllWords
<1> HIDE DEF s, o, k
<1>5. AllWords = (s \o b) \o r
  <2>1. AllWords = ((s \o o) \o (k \o segment)) \o Remaining
    BY <1>2, <1>3 DEF AllWords
  <2>2. s \in Seq(Nat) /\ o \in Seq(Nat) /\ k \in Seq(Nat) /\ segment \in Seq(Nat)
        /\ Remaining \in Seq(Nat)
    BY <1>0, <1>2
  <2>3. Cat(Cat(Cat(s, o), Cat(k, segment)), Remaining) = Cat(Cat(s, Cat(o, k)), Cat(segment, Remaining))
    BY <2>2, CatLaws, SMTT(30)
  <2> QED BY <2>1, <2>3, Zenon DEF Cat
<1>6. b \in Seq(Nat) /\ r \in Seq(Nat) /\ pos <= pos'
  BY <1>0, <1>1, <1>2
<1> HIDE DEF b, r
<1> QED BY <1>2, <1>4, <1>5, <1>6, OrderedWithout, Zenon

(* A sub time frame is sent, or given up; the others stay in order. *)
LEMMA OrderedSends == Types /\ Ordered /\ Sends /\ Types' => Ordered'
<1> SUFFICES ASSUME Types, Ordered, Sends, Types' PROVE Ordered'
  OBVIOUS
<1>0. sent \in Seq(STFs) /\ fOutputPayloads \in Seq(STFs) /\ Gathered \in Seq(Nat) /\ Remaining \in Seq(Nat)
      /\ pos \in Nat
  BY WordsTypes
<1>1. /\ fOutputPayloads # <<>> /\ UNCHANGED <<msg, framing>> /\ UNCHANGED source
      /\ fOutputPayloads' \in {fOutputPayloads, Tail(fOutputPayloads)}
      /\ sent' = sent \/ sent' = Append(sent, Head(fOutputPayloads))
      /\ (sent' # sent => fOutputPayloads' = Tail(fOutputPayloads))
  BY SendFacts
<1>2. Gathered' = Gathered /\ Remaining' = Remaining /\ pos' = pos
  BY <1>1 DEF Gathered, Kept, Remaining, framing, source
<1>3. CASE Finished' = Finished
  <2>1. AllWords' = AllWords
    BY <1>2, <1>3 DEF AllWords, WordsOfSTFs, WordLists
  <2> QED BY <1>0, <1>2, <2>1, OrderedSame
<1>4. CASE Finished' # Finished
  <2> DEFINE h == Head(fOutputPayloads)
             t == Tail(fOutputPayloads)
  <2>1. h \in STFs /\ t \in Seq(STFs) /\ fOutputPayloads = <<h>> \o t /\ <<h>> \in Seq(STFs)
        /\ Append(sent, h) = sent \o <<h>>
    <3>1. h \in STFs /\ t \in Seq(STFs)
      BY <1>0, <1>1, Parts
    <3>2. fOutputPayloads = <<h>> \o t
      BY <1>0, <1>1
    <3> HIDE DEF h, t
    <3>3. <<h>> \in Seq(STFs) /\ Append(sent, h) = sent \o <<h>>
      BY <1>0, <3>1, AppendIsConcat
    <3> QED BY <3>1, <3>2, <3>3
  <2> HIDE DEF h, t
  <2>2. (sent \o <<h>>) \o t = sent \o (<<h>> \o t)
    BY <1>0, <2>1, Together
  <2>3. fOutputPayloads' = t /\ sent' = sent
    <3>1. sent' = sent => fOutputPayloads' = t
      BY <1>1, <1>4 DEF Finished, t
    <3>2. sent' # sent => Finished' = Finished
      BY <1>1, <2>1, <2>2 DEF Finished, h, t
    <3> QED BY <1>4, <3>1, <3>2
  <2> DEFINE a == WordsOfSTFs(sent)
             b == WordsOfSTFs(<<h>>)
             c == WordsOfSTFs(t)
             r == Gathered \o Remaining
  <2>4. a \in Seq(Nat) /\ b \in Seq(Nat) /\ c \in Seq(Nat)
    BY <1>0, <2>1, WordsType
  <2>5. WordsOfSTFs(Finished) = a \o (b \o c)
    <3>1. WordsOfSTFs(fOutputPayloads) = b \o c
      BY <2>1, WordsOfBoth
    <3>2. WordsOfSTFs(Finished) = a \o WordsOfSTFs(fOutputPayloads)
      BY SentWords
    <3> QED BY <3>1, <3>2, Zenon
  <2>6. WordsOfSTFs(Finished)' = a \o c
    <3>1. Finished' = sent \o t
      BY <2>3 DEF Finished
    <3>2. WordsOfSTFs(sent \o t) = a \o c
      BY <1>0, <2>1, WordsOfBoth
    <3> QED BY <3>1, <3>2 DEF WordsOfSTFs, WordLists
  <2> HIDE DEF a, b, c
  <2> DEFINE cr == c \o (Gathered \o Remaining)
  <2>7. a \in Seq(Nat) /\ b \in Seq(Nat) /\ c \in Seq(Nat) /\ Gathered \in Seq(Nat) /\ Remaining \in Seq(Nat)
    BY <1>0, <2>4
  <2>8. r \in Seq(Nat) /\ cr \in Seq(Nat) /\ pos <= pos'
    <3>1. r \in Seq(Nat)
      BY <1>0
    <3> HIDE DEF r
    <3>2. c \o r \in Seq(Nat)
      BY <2>4, <3>1
    <3> QED BY <1>0, <1>2, <3>1, <3>2 DEF r
  <2>9. AllWords = (a \o b) \o cr
    <3>1. Cat(Cat(Cat(a, Cat(b, c)), Gathered), Remaining) = Cat(Cat(a, b), Cat(c, Cat(Gathered, Remaining)))
      BY <2>7, CatLaws, SMTT(30)
    <3>2. AllWords = ((a \o (b \o c)) \o Gathered) \o Remaining
      BY <2>5, Zenon DEF AllWords
    <3> QED BY <3>1, <3>2, Zenon DEF Cat
  <2>10. AllWords' = a \o cr
    <3>1. Cat(Cat(Cat(a, c), Gathered), Remaining) = Cat(a, Cat(c, Cat(Gathered, Remaining)))
      BY <2>7, CatLaws
    <3>2. AllWords' = ((a \o c) \o Gathered) \o Remaining
      BY <1>2, <2>6, Zenon DEF AllWords
    <3> QED BY <3>1, <3>2, Zenon DEF Cat
  <2> HIDE DEF cr
  <2> QED BY <2>4, <2>8, <2>9, <2>10, OrderedWithout, Zenon
<1> QED BY <1>3, <1>4

(* Every step keeps the words in order. *)
LEMMA OrderedNext == Types /\ Ordered /\ [Next]_vars => Ordered'
<1> SUFFICES ASSUME Types, Ordered, [Next]_vars PROVE Ordered'
  OBVIOUS
<1>0. Types' /\ pos \in Nat
  BY TypesNext, WordsTypes
<1>1. ASSUME UNCHANGED <<msg, framing>>, UNCHANGED <<sent, fOutputPayloads, wire>>, pos <= pos'
      PROVE  Ordered'
  <2>1. AllWords' = AllWords
    BY <1>1 DEF AllWords, WordsOfSTFs, WordLists, Finished, Gathered, Kept, Remaining, framing
  <2> QED BY <1>0, <1>1, <2>1, OrderedSame
<1>2. CASE Control \/ (\E d \in Destinations : Consume(d)) \/ UNCHANGED vars
  <2>1. UNCHANGED <<msg, framing>> /\ UNCHANGED <<sent, fOutputPayloads, wire>> /\ pos' = pos
    <3>1. CASE Control
      BY <3>1, TypesControl DEF delivery, source
    <3>2. CASE \E d \in Destinations : Consume(d)
      BY <3>2 DEF Consume, source
    <3>3. CASE UNCHANGED vars
      BY <3>3 DEF vars, delivery, source
    <3> QED BY <1>2, <3>1, <3>2, <3>3
  <2> QED BY <1>0, <1>1, <2>1
<1>3. CASE \E start \in 0 .. StreamLength : PreRun(start)
  <2>1. PICK start \in 0 .. StreamLength : PreRun(start)
    BY <1>3
  <2>2. /\ UNCHANGED <<msg, segment, fInputPayloads, fWorkingPayloads, fOutputPayloads, sent, wire>>
        /\ start \in pos .. StreamLength /\ pos' = start
    BY <2>1 DEF PreRun, delivery
  <2>3. pos <= pos'
    BY <1>0, <2>2, StreamType
  <2>4. AllWords' = AllWords
    BY <2>2 DEF AllWords, WordsOfSTFs, WordLists, Finished, Gathered, Kept, Remaining
  <2> QED BY <1>0, <2>3, <2>4, OrderedSame
<1>4. CASE HandleData
  <2>1. msg' = wire /\ wire' = <<>> /\ UNCHANGED framing /\ UNCHANGED <<fOutputPayloads, sent, pos>>
    BY <1>4 DEF HandleData, delivery
  <2> DEFINE a == WordsOfSTFs(Finished) \o Gathered
  <2>2. a \in Seq(Nat) /\ msg \in Seq(Nat) /\ wire \in Seq(Nat)
    BY WordsTypes
  <2>3. a' = a /\ Remaining' = wire
    BY <2>1, <2>2 DEF WordsOfSTFs, WordLists, Finished, Gathered, Kept, Remaining, framing
  <2>4. AllWords = a \o (msg \o wire) /\ AllWords' = a \o wire
    BY <2>3 DEF AllWords, Remaining
  <2> HIDE DEF a
  <2>5. a \o (msg \o wire) = (a \o msg) \o wire
    BY <2>2, Together, SMTT(30)
  <2>6. AllWords = (a \o msg) \o wire /\ pos <= pos'
    BY <1>0, <2>1, <2>4, <2>5
  <2> QED BY <1>0, <2>2, <2>4, <2>6, OrderedWithout, Zenon
<1>5. CASE EndOfMessage
  <2>1. fInputPayloads' = fInputPayloads \o segment /\ segment' = <<>>
        /\ UNCHANGED <<msg, fWorkingPayloads, fOutputPayloads, sent, wire, pos>>
    BY <1>5 DEF EndOfMessage, delivery, source
  <2>2. Kept' = Kept
    <3>1. Kept \in Seq(Nat)
      BY WordsTypes
    <3>2. Kept \o <<>> = Kept
      BY <3>1
    <3> QED BY <2>1, <3>2 DEF Kept
  <2>3. AllWords' = AllWords
    BY <2>1, <2>2 DEF AllWords, WordsOfSTFs, WordLists, Finished, Gathered, Remaining
  <2> QED BY <1>0, <2>1, <2>3, OrderedSame
<1> QED BY <1>0, <1>2, <1>3, <1>4, <1>5, Steps, OrderedUpstream, OrderedTurn, OrderedBeginPostRun, OrderedSends

(* At first there are no words. *)
LEMMA OrderedInit == Init => Ordered
<1> SUFFICES ASSUME Init PROVE Ordered
  OBVIOUS
<1>1. sent = <<>> /\ fOutputPayloads = <<>> /\ fWorkingPayloads = <<>> /\ fInputPayloads = <<>>
      /\ segment = <<>> /\ msg = <<>> /\ wire = <<>>
  BY DEF Init
<1>2. Finished = <<>> /\ Kept = <<>> /\ Remaining = <<>>
  BY <1>1 DEF Finished, Kept, Remaining
<1>3. WordLists(<<>>) = <<>>
  BY DEF WordLists
<1>4. WordsOfSTFs(Finished) = <<>> /\ Gathered = <<>>
  BY <1>1, <1>2, <1>3, FlattenEmpty DEF WordsOfSTFs, WordsOf, Gathered
<1>5. AllWords = <<>>
  BY <1>2, <1>4 DEF AllWords
<1>6. Len(<<>>) = 0
  OBVIOUS
<1> QED BY <1>5, <1>6 DEF Ordered, AscendsTo

(* No word is sent twice or overtaken by a later one, whatever is lost, given up or forgotten, and   *)
(* however many words, messages and runs there are (BuildFrame, FillData, FinalizeSTF, PostRun).  *)
THEOREM NeverReordered == Spec => []WordsInOrder
<1>1. Types /\ Ordered => WordsInOrder
  <2> SUFFICES ASSUME Types, Ordered PROVE WordsInOrder
    OBVIOUS
  <2> DEFINE f == WordsOfSTFs(Finished)
             w == WordsOf(fWorkingPayloads)
             i == fInputPayloads
             s == segment
  <2>1. f \in Seq(Nat) /\ w \in Seq(Nat) /\ i \in Seq(Nat) /\ s \in Seq(Nat) /\ msg \in Seq(Nat)
        /\ wire \in Seq(Nat)
    BY WordsTypes
  <2> DEFINE all == f \o w \o i \o s \o msg \o wire
  <2>2. AllWords = (f \o (w \o (i \o s))) \o (msg \o wire)
    BY DEF AllWords, Gathered, Kept, Remaining
  <2> HIDE DEF f, w, i, s
  <2>3. all = AllWords
    <3>1. Cat(Cat(Cat(Cat(Cat(f, w), i), s), msg), wire)
            = Cat(Cat(f, Cat(w, Cat(i, s))), Cat(msg, wire))
      BY <2>1, CatLaws, SMTT(30)
    <3> QED BY <2>2, <3>1, Zenon DEF Cat
  <2>4. WordsInOrder <=> Increasing(all)
    BY DEF WordsInOrder, f, w, i, s, WordsOfSTFs, WordLists
  <2>5. AllWords \in Seq(Nat)
    BY WordsTypes DEF AllWords
  <2>6. ASSUME NEW n \in 1 .. Len(AllWords) - 1 PROVE AllWords[n] < AllWords[n + 1]
    <3>1. Len(AllWords) \in Nat
      BY <2>5
    <3>2. n \in 1 .. Len(AllWords) /\ n + 1 \in 1 .. Len(AllWords) /\ n < n + 1
      BY <3>1
    <3> QED BY <3>2 DEF Ordered, AscendsTo
  <2> HIDE DEF all
  <2>7. Increasing(all)
    BY <2>3, <2>6 DEF Increasing
  <2> QED BY <2>4, <2>7
<1> QED BY <1>1, TypesInit, OrderedInit, TypesNext, OrderedNext, PTL DEF Spec

-----------------------------------------------------------------------------
(* The words produced since the run began. *)
After == {n \in Nat : n > runStart}

(* Where words may be: between runs there are none, but on the wire until it is drained. *)
Places ==
  /\ pc # "build" => msg = <<>> /\ segment = <<>>
  /\ pc \in {"ready", "drain"} =>
       fInputPayloads = <<>> /\ fWorkingPayloads = <<>> /\ fOutputPayloads = <<>>
  /\ pc = "ready" => ~upstream /\ wire = <<>>

(* The words that are not yet in a finished sub time frame are words of this run, *)
Fresh ==
  /\ msg \in Seq(After) /\ segment \in Seq(After) /\ fInputPayloads \in Seq(After)
  /\ wire \in Seq(After) /\ fWorkingPayloads \in Seq(Seq(After))

(* and so are those of the ones finished in this run. *)
Own(stf)  == stf.run <= run /\ (stf.run = run => stf.hbfs \in Seq(Seq(After)))
OneRun == Places /\ Fresh /\ \A stf \in ToSet(Finished) : Own(stf)

(* Only the beginning of a run changes its number and where it begins. *)
LEMMA RunUnchanged ==
  ASSUME Types, [Next]_vars
  PROVE  UNCHANGED <<run, runStart>> \/ \E start \in 0 .. StreamLength : PreRun(start)
<1>1. Upstream => UNCHANGED <<run, runStart>>
  BY DEF Upstream, ProduceWord, LoseWord, StopUpstream, DrainOne
<1>2. Control \/ Turn \/ Sends => UNCHANGED <<run, runStart>>
  BY TypesControl, TurnFacts, SendFacts DEF source
<1>3. BeginPostRun \/ HandleData \/ EndOfMessage \/ (\E d \in Destinations : Consume(d)) \/ UNCHANGED vars
        => UNCHANGED <<run, runStart>>
  BY DEF BeginPostRun, HandleData, EndOfMessage, Consume, source, vars
<1> QED BY <1>1, <1>2, <1>3, Steps

(* Every step leaves the words where they may be. *)
LEMMA PlacesNext == Types /\ Places /\ [Next]_vars => Places'
<1> SUFFICES ASSUME Types, Places, [Next]_vars PROVE Places'
  OBVIOUS
<1>1. CASE Upstream
  <2>1. UNCHANGED <<pc, msg, segment, fInputPayloads, fWorkingPayloads, fOutputPayloads>>
    BY <1>1, UpstreamUnchanged DEF framing
  <2>2. pc = "ready" => upstream' = FALSE /\ wire' = <<>>
    BY <1>1 DEF Places, Upstream, ProduceWord, LoseWord, StopUpstream, DrainOne
  <2> QED BY <2>1, <2>2 DEF Places
<1>2. CASE Control
  <2>1. UNCHANGED <<msg, segment, fInputPayloads, fWorkingPayloads, fOutputPayloads, upstream, wire>>
    BY <1>2, TypesControl DEF framing, source
  <2>2. \/ pc' = pc
        \/ pc = "drain" /\ pc' = "ready" /\ ~upstream /\ wire = <<>>
        \/ pc = "copy" /\ pc' = "idle"
    BY <1>2 DEF Control, RequestStop, EndPostRun, AllSent
  <2> QED BY <2>1, <2>2 DEF Places
<1>3. CASE \E start \in 0 .. StreamLength : PreRun(start)
  BY <1>3 DEF PreRun, Places
<1>4. CASE BeginPostRun
  BY <1>4 DEF BeginPostRun, Places
<1>5. CASE HandleData
  <2>1. pc' = "build"
    BY <1>5 DEF HandleData
  <2> QED BY <2>1 DEF Places
<1>6. CASE Turn
  <2>1. pc' = "build"
    BY <1>6, TurnFacts
  <2> QED BY <2>1 DEF Places
<1>7. CASE EndOfMessage
  BY <1>7 DEF EndOfMessage, Places
<1>8. CASE Sends
  <2>1. UNCHANGED <<msg, segment>> /\ pc' \in {"idle", "copy", "send"} /\ pc \in {"copy", "send"}
    BY <1>8, SendFacts DEF framing, Sends, Copy, CopyInterrupted, SendSucceeds, SendInterrupted, SendFails
  <2> QED BY <2>1 DEF Places
<1>9. CASE (\E d \in Destinations : Consume(d)) \/ UNCHANGED vars
  <2>1. UNCHANGED <<pc, msg, segment, fInputPayloads, fWorkingPayloads, fOutputPayloads, upstream, wire>>
    BY <1>9 DEF Consume, vars, framing, source
  <2> QED BY <2>1 DEF Places
<1> QED BY <1>1, <1>2, <1>3, <1>4, <1>5, <1>6, <1>7, <1>8, <1>9, Steps

(* Sequences of words of this run. *)
LEMMA AfterWords ==
  ASSUME Types, Fresh
  PROVE  /\ Kept \in Seq(After) /\ Tail(msg) \in Seq(After)
         /\ msg # <<>> => Word \in After /\ Append(segment, Word) \in Seq(After)
<1>1. segment \in Seq(After) /\ fInputPayloads \in Seq(After) /\ msg \in Seq(After)
  BY DEF Fresh
<1> HIDE DEF After
<1>2. Kept \in Seq(After)
  BY <1>1 DEF Kept
<1>3. msg # <<>> => Word \in After /\ Tail(msg) \in Seq(After)
  BY <1>1, Parts DEF Word
<1>4. msg = <<>> => Tail(msg) \in Seq(After)
  BY <1>1
<1>5. msg # <<>> => Append(segment, Word) \in Seq(After)
  BY <1>1, <1>3
<1> QED BY <1>2, <1>3, <1>4, <1>5

(* The frames with the one that ends. *)
LEMMA AfterFrames ==
  ASSUME Types, Fresh, EndHBF
  PROVE  Frames \in Seq(Seq(After))
<1>1. msg # <<>> /\ fWorkingPayloads \in Seq(Seq(After)) /\ fInputPayloads \in Seq(After)
  BY TurnFacts DEF Turn, Fresh
<1>2. Append(segment, Word) \in Seq(After)
  BY <1>1, AfterWords
<1> HIDE DEF After
<1>3. FillData \in Seq(After)
  BY <1>1, <1>2 DEF FillData
<1> QED BY <1>1, <1>3 DEF Frames

(* Every step handles words of the run only. *)
LEMMA FreshNext == Types /\ Places /\ Fresh /\ [Next]_vars => Fresh'
<1> SUFFICES ASSUME Types, Places, Fresh, [Next]_vars PROVE Fresh'
  OBVIOUS
<1>0. /\ msg \in Seq(After) /\ segment \in Seq(After) /\ fInputPayloads \in Seq(After)
      /\ wire \in Seq(After) /\ fWorkingPayloads \in Seq(Seq(After))
  BY DEF Fresh
<1>1. CASE \E start \in 0 .. StreamLength : PreRun(start)
  <2>1. /\ pc = "ready" /\ UNCHANGED <<msg, segment, fInputPayloads, fWorkingPayloads, wire>>
    BY <1>1 DEF PreRun
  <2>2. msg' = <<>> /\ segment' = <<>> /\ fInputPayloads' = <<>> /\ fWorkingPayloads' = <<>> /\ wire' = <<>>
    BY <2>1 DEF Places
  <2> DEFINE A == After'
  <2> HIDE DEF A
  <2>3. <<>> \in Seq(A) /\ <<>> \in Seq(Seq(A))
    OBVIOUS
  <2> QED BY <2>2, <2>3 DEF Fresh, A
<1>2. CASE runStart' = runStart
  <2>0. After' = After
    BY <1>2 DEF After
  <2>1. ASSUME msg' \in Seq(After), segment' \in Seq(After), fInputPayloads' \in Seq(After),
               wire' \in Seq(After), fWorkingPayloads' \in Seq(Seq(After))
        PROVE  Fresh'
    BY <2>0, <2>1 DEF Fresh
  <2>e. <<>> \in Seq(After) /\ <<>> \in Seq(Seq(After))
    <3> HIDE DEF After
    <3> QED OBVIOUS
  <2>2. CASE Upstream
    <3>1. UNCHANGED <<msg, segment, fInputPayloads, fWorkingPayloads>>
      BY <2>2, UpstreamUnchanged DEF framing
    <3>2. wire' \in Seq(After)
      <4>1. CASE ProduceWord
        <5>1. pos \in Nat /\ runStart \in 0 .. pos /\ pos' = pos + 1 /\ wire' = Append(wire, pos')
          BY <4>1, StreamType DEF ProduceWord, Types, SourceOK
        <5>2. pos' \in After
          BY <5>1 DEF After
        <5> HIDE DEF After
        <5> QED BY <1>0, <5>1, <5>2
      <4>2. CASE LoseWord \/ StopUpstream \/ DrainOne
        <5>1. wire' \in {wire, <<>>}
          BY <4>2 DEF LoseWord, StopUpstream, DrainOne
        <5> QED BY <1>0, <2>e, <5>1
      <4> QED BY <2>2, <4>1, <4>2 DEF Upstream
    <3> QED BY <1>0, <2>1, <3>1, <3>2
  <2>3. CASE Control \/ Sends \/ (\E d \in Destinations : Consume(d)) \/ UNCHANGED vars
    <3>1. UNCHANGED <<msg, segment, fInputPayloads, fWorkingPayloads, wire>>
      BY <2>3, TypesControl, SendFacts DEF framing, source, Consume, vars
    <3> QED BY <1>0, <2>1, <3>1
  <2>4. CASE BeginPostRun
    <3>1. /\ fInputPayloads' = <<>> /\ fWorkingPayloads' = <<>> /\ UNCHANGED <<msg, segment, wire>>
      BY <2>4 DEF BeginPostRun, source
    <3> QED BY <1>0, <2>1, <2>e, <3>1
  <2>5. CASE HandleData
    <3>1. msg' = wire /\ wire' = <<>> /\ UNCHANGED <<segment, fInputPayloads, fWorkingPayloads>>
      BY <2>5 DEF HandleData, framing
    <3> QED BY <1>0, <2>1, <2>e, <3>1
  <2>6. CASE EndOfMessage
    <3>1. fInputPayloads' = Kept /\ segment' = <<>> /\ UNCHANGED <<msg, wire, fWorkingPayloads>>
      BY <2>6 DEF EndOfMessage, Kept, source
    <3> QED BY <1>0, <2>1, <2>e, <3>1, AfterWords
  <2>7. CASE Turn
    <3>1. msg # <<>> /\ msg' \in Seq(After) /\ wire' \in Seq(After) /\ Append(segment, Word) \in Seq(After)
      BY <1>0, <2>7, TurnFacts, AfterWords DEF source
    <3>2. segment' \in {<<>>, Append(segment, Word)} /\ fInputPayloads' \in {<<>>, fInputPayloads}
      BY <2>7, DropFacts, FrameFacts DEF Turn, Drops, FirstDelimiter, OtherWord
    <3>3. fWorkingPayloads' \in Seq(Seq(After))
      <4>1. CASE EndHBF
        <5>1. fWorkingPayloads' \in {<<>>, Frames}
          BY <4>1, FrameFacts, FinishFacts
        <5> QED BY <2>e, <4>1, <5>1, AfterFrames
      <4>2. CASE ~EndHBF
        <5>1. fWorkingPayloads' = fWorkingPayloads
          BY <2>7, <4>2, DropFacts DEF Turn, Drops, FirstDelimiter, OtherWord
        <5> QED BY <1>0, <5>1
      <4> QED BY <4>1, <4>2
    <3> QED BY <1>0, <2>1, <2>e, <3>1, <3>2, <3>3
  <2>8. CASE \E start \in 0 .. StreamLength : PreRun(start)
    BY <1>1, <2>8
  <2> QED BY <2>2, <2>3, <2>4, <2>5, <2>6, <2>7, <2>8, Steps
<1> QED BY <1>1, <1>2, RunUnchanged

(* Every step keeps the sub time frames of the run made of its words. *)
LEMMA OneRunNext == Types /\ OneRun /\ [Next]_vars => OneRun'
<1> SUFFICES ASSUME Types, OneRun, [Next]_vars PROVE OneRun'
  OBVIOUS
<1>0. Places' /\ Fresh' /\ run \in Nat
  BY PlacesNext, FreshNext, Constants DEF OneRun, Types, SourceOK
<1>1. ASSUME NEW stf \in ToSet(Finished)' PROVE Own(stf)'
  <2>1. stf \in ToSet(Finished) => stf.run \in Nat
    <3>1. Finished \in Seq(STFs)
      BY WordsTypes
    <3>2. stf \in ToSet(Finished) => stf \in STFs
      <4> HIDE DEF STFs
      <4> QED BY <3>1 DEF ToSet
    <3> QED BY <3>2 DEF STFs
  <2>2. CASE \E start \in 0 .. StreamLength : PreRun(start)
    <3>1. run' = run + 1 /\ ~EndHBF
      BY <2>2 DEF PreRun, EndHBF, NextWord
    <3>2. stf \in ToSet(Finished) /\ stf.run <= run
      BY <3>1, FinishedStep DEF OneRun, Own
    <3> QED BY <1>0, <2>1, <3>1, <3>2 DEF Own
  <2>3. CASE UNCHANGED <<run, runStart>>
    <3>1. After' = After /\ run' = run
      BY <2>3 DEF After
    <3>2. CASE stf \in ToSet(Finished)
      BY <3>1, <3>2 DEF OneRun, Own
    <3>3. CASE EndHBF /\ stf = Finishing
      <4>1. stf.run = run /\ stf.hbfs = Frames
        BY <3>3 DEF Finishing
      <4>2. Frames \in Seq(Seq(After))
        BY <3>3, AfterFrames DEF OneRun
      <4> QED BY <1>0, <3>1, <4>1, <4>2 DEF Own
    <3> QED BY <3>2, <3>3, FinishedStep
  <2> QED BY <2>2, <2>3, RunUnchanged
<1> QED BY <1>0, <1>1 DEF OneRun

(* At first there are no words. *)
LEMMA OneRunInit == Init => OneRun
<1> SUFFICES ASSUME Init PROVE OneRun
  OBVIOUS
<1>1. sent = <<>> /\ fOutputPayloads = <<>> /\ fWorkingPayloads = <<>> /\ fInputPayloads = <<>>
      /\ segment = <<>> /\ msg = <<>> /\ wire = <<>> /\ upstream = FALSE
  BY DEF Init
<1>2. Finished = <<>>
  BY <1>1 DEF Finished
<1>3. ToSet(Finished) = {}
  BY <1>2 DEF ToSet
<1>4. Places
  BY <1>1 DEF Places
<1>5. Fresh
  <2> HIDE DEF After
  <2> QED BY <1>1 DEF Fresh
<1> QED BY <1>3, <1>4, <1>5 DEF OneRun

(* No word of an earlier run is in a sub time frame: PostRun empties what BuildFrame keeps between  *)
(* messages, and drains the input (PreRun, BuildFrame, PostRun).                        *)
THEOREM RunsNotMixed == Spec => []WordsOfOneRun
<1>1. OneRun => WordsOfOneRun
  <2> SUFFICES ASSUME OneRun, NEW stf \in ToSet(Finished), stf.run = run,
                      NEW n \in ToSet(WordsOf(stf.hbfs))
               PROVE  n > runStart
    BY DEF WordsOfOneRun
  <2>1. stf.hbfs \in Seq(Seq(After))
    BY DEF OneRun, Own
  <2>2. WordsOf(stf.hbfs) \in Seq(After)
    BY <2>1, FlattenType DEF WordsOf
  <2>3. n \in After
    <3> HIDE DEF After
    <3> QED BY <2>2 DEF ToSet
  <2> QED BY <2>3 DEF After
<1> QED BY <1>1, TypesInit, OneRunInit, TypesNext, OneRunNext, PTL DEF Spec

-----------------------------------------------------------------------------
(* Division with remainder, and the remainder after one step.                      *)
LEMMA Division ==
  ASSUME NEW x \in Nat, NEW w \in Nat \ {0}
  PROVE  /\ x = w * (x \div w) + (x % w) /\ x % w \in 0 .. w - 1 /\ x \div w \in Nat
         /\ (x + 1) % w = IF x % w = w - 1 THEN 0 ELSE (x % w) + 1
         /\ (x + 1) \div w = IF x % w = w - 1 THEN x \div w + 1 ELSE x \div w
<1>1. x = w * (x \div w) + (x % w) /\ x % w \in 0 .. w - 1 /\ x \div w \in Nat
  OBVIOUS
<1>2. \A q \in Nat : \A r \in 0 .. w - 1 : (w * q + r) % w = r
  OBVIOUS
<1>3. (x + 1) \div w = IF x % w = w - 1 THEN x \div w + 1 ELSE x \div w
  OBVIOUS
<1>4. (x + 1) % w = IF x % w = w - 1 THEN 0 ELSE (x % w) + 1
  <2> DEFINE q == x \div w
             r == x % w
  <2>1. q \in Nat /\ r \in 0 .. w - 1 /\ x = w * q + r
    BY <1>1
  <2> HIDE DEF q, r
  <2>2. CASE r = w - 1
    <3>1. x + 1 = w * (q + 1) + 0
      BY <2>1, <2>2
    <3>2. q + 1 \in Nat /\ 0 \in 0 .. w - 1
      BY <2>1
    <3>3. (w * (q + 1) + 0) % w = 0
      BY <1>2, <3>2
    <3> QED BY <2>2, <3>1, <3>3 DEF r
  <2>3. CASE r # w - 1
    <3>1. x + 1 = w * q + (r + 1) /\ r + 1 \in 0 .. w - 1
      BY <2>1, <2>3
    <3>2. (w * q + (r + 1)) % w = r + 1
      BY <1>2, <2>1, <3>1
    <3> QED BY <2>3, <3>1, <3>2 DEF r
  <2> QED BY <2>2, <2>3
<1> QED BY <1>1, <1>3, <1>4

(* A remainder of a remainder, when one modulus divides the other. *)
LEMMA RemainderOfRemainder ==
  ASSUME NEW x \in Nat, NEW w \in Nat \ {0}, NEW m \in Nat \ {0}, w % m = 0
  PROVE  (x % w) % m = x % m
<1> DEFINE k == w \div m
           q == x \div w
           r == x % w
           p == r \div m
           s == r % m
<1>1. k \in Nat /\ w = m * k
  BY Division
<1>2. q \in Nat /\ r \in Nat /\ x = w * q + r
  BY Division
<1> HIDE DEF k, q, r
<1>3. p \in Nat /\ s \in 0 .. m - 1 /\ r = m * p + s
  BY <1>2, Division
<1> HIDE DEF p, s
<1>4. k * q \in Nat /\ k * q + p \in Nat
  BY <1>1, <1>2, <1>3
<1>5. x = m * (k * q + p) + s
  BY <1>1, <1>2, <1>3
<1>6. \A i \in Nat : (m * i + s) % m = s
  BY <1>3
<1>7. x % m = s
  BY <1>4, <1>5, <1>6
<1> QED BY <1>7 DEF r, s

(* In the stream, a second delimiter comes behind every first one and nowhere else, and ends a beat. *)
LEMMA NextOfStream ==
  ASSUME NEW n \in Nat \ {0}
  PROVE  /\ BeatOf(n) \in Nat
         /\ KindOf(n + 1) = "second" <=> KindOf(n) = "first"
         /\ BeatOf(n + 1) = IF KindOf(n) = "second" THEN BeatOf(n) + 1 ELSE BeatOf(n)
<1> DEFINE w == WordsPerBeat
           x == n - 1
           d == DataPerBeat
           r == x % w
<1>1. x \in Nat /\ w \in Nat \ {0} /\ d \in Nat /\ w = d + 2 /\ (n + 1) - 1 = x + 1
  BY Constants, StreamType DEF WordsPerBeat
<1>2. KindOf(n) = IF r < d THEN "data" ELSE IF r = d THEN "first" ELSE "second"
  BY DEF KindOf
<1>3. KindOf(n + 1) = IF (x + 1) % w < d THEN "data" ELSE IF (x + 1) % w = d THEN "first" ELSE "second"
  BY <1>1 DEF KindOf
<1>4. BeatOf(n) = x \div w /\ BeatOf(n + 1) = (x + 1) \div w
  BY <1>1 DEF BeatOf
<1> HIDE DEF w, x, d
<1>5. r \in 0 .. w - 1 /\ (x \div w) \in Nat
      /\ (x + 1) % w = (IF r = w - 1 THEN 0 ELSE r + 1)
      /\ (x + 1) \div w = (IF r = w - 1 THEN x \div w + 1 ELSE x \div w)
  BY <1>1, Division
<1> HIDE DEF r
<1>6. KindOf(n) = "second" <=> r = w - 1
  BY <1>1, <1>2, <1>5
<1>7. KindOf(n + 1) = "second" <=> KindOf(n) = "first"
  BY <1>1, <1>2, <1>3, <1>5
<1> QED BY <1>4, <1>5, <1>6, <1>7

-----------------------------------------------------------------------------
(* While a run goes on and no word was lost, the words that remain are consecutive, and the device   *)
(* knows where in the stream it is: Cursor is the last word that it looked at.              *)
Cursor  == pos - Len(Remaining)
Going   == fSTFSequenceNumber > 0 \/ fHBFCounter > 0

(* The flag is up behind a first delimiter, and the id is that of its beat; *)
AtDelimiter ==
  /\ hbf_flag = 1 <=> Cursor > runStart /\ KindOf(Cursor) = "first"
  /\ hbf_flag = 1 => fdelimiterFrameId = FrameId(Cursor)

(* the counter is that of the beat the next word is in; *)
AtBeat ==
  /\ Going => Cursor > runStart
  /\ SplitMethod = 0 /\ Going => BeatOf(Cursor + 1) % MaxHBF = fHBFCounter
  /\ SplitMethod # 0 /\ fSTFSequenceNumber > 0 => fHBFCounter > 0

(* and behind the first sub time frame no word is dropped. *)
Unbroken ==
  /\ CountsTo(Remaining, pos) /\ Cursor >= runStart
  /\ fSTFSequenceNumber > 0 => CountsTo(Gathered \o Remaining, pos)
  /\ (\E stf \in ToSet(Finished) : stf.run = run) => fSTFSequenceNumber > 0

Tracking == lostWords = 0 /\ InRun => AtDelimiter /\ AtBeat /\ Unbroken

(* Nothing that matters here has changed. *)
LEMMA TrackingSame ==
  ASSUME Types, Tracking, InRun, lostWords' = lostWords,
         Gathered' = Gathered, Remaining' = Remaining, pos' = pos, runStart' = runStart, run' = run,
         UNCHANGED <<hbf_flag, fdelimiterFrameId, fHBFCounter, fSTFSequenceNumber>>,
         \A stf \in ToSet(Finished)' : stf \in ToSet(Finished)
  PROVE  Tracking'
<1>1. Cursor' = Cursor /\ (Going' <=> Going)
  BY DEF Cursor, Going
<1>2. SUFFICES ASSUME lostWords' = 0, InRun' PROVE (AtDelimiter /\ AtBeat /\ Unbroken)'
  BY DEF Tracking
<1>3. AtDelimiter /\ AtBeat /\ Unbroken
  BY <1>2 DEF Tracking
<1>4. AtDelimiter'
  BY <1>1, <1>3 DEF AtDelimiter, KindOf, FrameId, BeatOf, WordsPerBeat
<1>5. AtBeat'
  BY <1>1, <1>3 DEF AtBeat, BeatOf, WordsPerBeat
<1>6. Unbroken'
  BY <1>1, <1>3 DEF Unbroken, CountsTo
<1> QED BY <1>4, <1>5, <1>6

(* Where the next word of a message is. *)
LEMMA CursorOfTurn ==
  ASSUME Types, Turn, CountsTo(Remaining, pos)
  PROVE  /\ Cursor \in Int /\ Word = Cursor + 1 /\ Cursor' = Word
         /\ CountsTo(Remaining', pos') /\ Remaining' \in Seq(Nat) /\ Remaining \in Seq(Nat) /\ pos' = pos
<1>1. msg \in Seq(Nat) /\ wire \in Seq(Nat) /\ msg # <<>> /\ msg' = Tail(msg) /\ wire' = wire /\ pos' = pos
      /\ pos \in Nat /\ Remaining \in Seq(Nat)
  BY WordsTypes, TurnFacts DEF source
<1> DEFINE m == Len(msg)
           n == Len(wire)
           r == Remaining
           t == Remaining'
<1>2. /\ m \in Nat \ {0} /\ n \in Nat /\ Len(r) = m + n /\ Len(t) = m - 1 + n /\ t \in Seq(Nat)
      /\ r[1] = Word /\ \A i \in 1 .. m - 1 + n : t[i] = r[i + 1]
  BY <1>1 DEF Remaining, Word
<1>3. \A i \in 1 .. Len(r) : r[i] = pos - Len(r) + i
  BY DEF CountsTo
<1> HIDE DEF m, n, r, t
<1>4. Word = pos - Len(r) + 1
  BY <1>1, <1>2, <1>3
<1>5. ASSUME NEW i \in 1 .. Len(t) PROVE t[i] = pos - Len(t) + i
  <2>1. i + 1 \in 1 .. Len(r) /\ t[i] = r[i + 1] /\ pos - Len(r) + (i + 1) = pos - Len(t) + i
    BY <1>1, <1>2, <1>5
  <2> QED BY <1>3, <2>1
<1>6. CountsTo(t, pos')
  BY <1>1, <1>5 DEF CountsTo
<1>7. Cursor = pos - Len(r) /\ Cursor' = pos - Len(t) /\ pos - Len(r) \in Int /\ pos - Len(t) = pos - Len(r) + 1
  BY <1>1, <1>2 DEF Cursor, r, t
<1> QED BY <1>1, <1>2, <1>4, <1>6, <1>7 DEF r, t

(* The frames of a run fall on their boundaries because the frame ids do; with split method 0 a wrap  *)
(* of the frame id must fall on a boundary too.                                       *)
WrapsOnBoundary == SplitMethod = 0 => FrameIdModulus % MaxHBF = 0

(* What a turn of the loop finds. *)
LEMMA TurnFinds ==
  ASSUME Types, Tracking, Turn, lostWords = 0
  PROVE  /\ AtDelimiter /\ AtBeat /\ Unbroken
         /\ Cursor \in Nat /\ Word = Cursor + 1 /\ Cursor' = Word /\ Cursor >= runStart /\ runStart \in Nat
         /\ UNCHANGED <<lostWords, runStart, pos, run>> /\ CountsTo(Remaining', pos')
         /\ Remaining' \in Seq(Nat) /\ pos \in Nat
         /\ BeatOf(Word) \in Nat
         /\ BeatOf(Word + 1) = IF KindOf(Word) = "second" THEN BeatOf(Word) + 1 ELSE BeatOf(Word)
         /\ hbf_flag = 1 <=> Cursor > runStart /\ KindOf(Word) = "second"
         /\ hbf_flag = 1 => BeatOf(Cursor) = BeatOf(Word)
<1>1. AtDelimiter /\ AtBeat /\ Unbroken /\ UNCHANGED <<lostWords, runStart, pos, run>>
  BY TurnFacts DEF Tracking, InRun, source
<1>2. Cursor \in Int /\ Word = Cursor + 1 /\ Cursor' = Word /\ CountsTo(Remaining', pos')
      /\ Remaining' \in Seq(Nat)
  BY <1>1, CursorOfTurn DEF Unbroken
<1>3. runStart \in Nat /\ Cursor >= runStart /\ pos \in Nat
  BY <1>1, StreamType DEF Types, SourceOK, Unbroken
<1> DEFINE c == Cursor
<1>4. c \in Nat /\ Word \in Nat \ {0} /\ (c > runStart => c \in Nat \ {0})
  BY <1>2, <1>3
<1>5. BeatOf(Word) \in Nat
      /\ BeatOf(Word + 1) = IF KindOf(Word) = "second" THEN BeatOf(Word) + 1 ELSE BeatOf(Word)
  BY <1>4, NextOfStream
<1>6. c > runStart => /\ KindOf(c + 1) = "second" <=> KindOf(c) = "first"
                      /\ BeatOf(c + 1) = IF KindOf(c) = "second" THEN BeatOf(c) + 1 ELSE BeatOf(c)
  BY <1>4, NextOfStream
<1> HIDE DEF c
<1>7. hbf_flag = 1 <=> c > runStart /\ KindOf(c) = "first"
  BY <1>1 DEF AtDelimiter, c
<1>8. Word = c + 1
  BY <1>2 DEF c
<1>9. /\ hbf_flag = 1 <=> c > runStart /\ KindOf(Word) = "second"
      /\ hbf_flag = 1 => BeatOf(c) = BeatOf(Word)
  BY <1>6, <1>7, <1>8
<1> QED BY <1>1, <1>2, <1>3, <1>4, <1>5, <1>9 DEF c

(* The frame id is on a boundary of MaxHBF if the beat is. *)
LEMMA BeatOfFrame ==
  ASSUME WrapsOnBoundary, SplitMethod = 0, NEW n \in Nat, BeatOf(n) \in Nat
  PROVE  FrameId(n) % MaxHBF = BeatOf(n) % MaxHBF
BY Constants, RemainderOfRemainder DEF WrapsOnBoundary, FrameId

(* Behind the first sub time frame no word is dropped. *)
LEMMA DropsBefore ==
  ASSUME Types, WrapsOnBoundary, Tracking, Turn, Drops, lostWords = 0
  PROVE  KindOf(Word) = "second" /\ fSTFSequenceNumber = 0 /\ fHBFCounter = 0
<1>1. /\ AtDelimiter /\ AtBeat /\ Cursor \in Nat /\ Word = Cursor + 1
      /\ hbf_flag = 1 <=> Cursor > runStart /\ KindOf(Word) = "second"
      /\ hbf_flag = 1 => BeatOf(Cursor) = BeatOf(Word)
      /\ BeatOf(Word) \in Nat
  BY TurnFinds
<1>2. fSTFSequenceNumber \in Nat /\ fHBFCounter \in Nat /\ hbf_flag \in {0, 1}
  BY Constants DEF Types, FramingOK, IdsOK, CounterOK, DelimiterOK
<1>3. CASE OnlyFirstComes
  <2>1. hbf_flag = 1 /\ KindOf(Word) # "second"
    BY <1>3 DEF OnlyFirstComes, NextWord
  <2> QED BY <1>1, <2>1
<1>4. CASE OnlySecondComes
  <2>1. hbf_flag = 0 /\ KindOf(Word) = "second"
    BY <1>4 DEF OnlySecondComes, NextWord
  <2>2. ~ (Cursor > runStart)
    BY <1>1, <2>1
  <2>3. ~Going
    BY <1>1, <2>2 DEF AtBeat
  <2> QED BY <1>2, <2>1, <2>3 DEF Going
<1>5. CASE SkipHBF
  <2>1. hbf_flag = 1 /\ KindOf(Word) = "second" /\ fHBFCounter = 0 /\ fdelimiterFrameId % MaxHBF # 0
    BY <1>5 DEF SkipHBF, OffBoundary, NextWord
  <2>2. SUFFICES ASSUME fSTFSequenceNumber # 0 PROVE FALSE
    BY <2>1
  <2>3. SplitMethod = 0 /\ Going
    BY <1>1, <1>2, <2>1, <2>2 DEF AtBeat, Going
  <2>4. BeatOf(Cursor + 1) % MaxHBF = 0
    BY <1>1, <2>1, <2>3 DEF AtBeat
  <2>5. fdelimiterFrameId = FrameId(Cursor)
    BY <1>1, <2>1 DEF AtDelimiter
  <2>6. BeatOf(Cursor) = BeatOf(Cursor + 1) /\ BeatOf(Cursor) \in Nat
    BY <1>1, <2>1
  <2>7. FrameId(Cursor) % MaxHBF = BeatOf(Cursor) % MaxHBF
    BY <1>1, <2>3, <2>6, BeatOfFrame
  <2> QED BY <2>1, <2>4, <2>5, <2>6, <2>7
<1> QED BY <1>3, <1>4, <1>5 DEF Drops

(* A turn that drops words leaves the device where it is in the stream. *)
LEMMA TrackingDrops ==
  ASSUME Types, Tracking, WrapsOnBoundary, Turn, Drops
  PROVE  Tracking'
<1>0. lostWords' = lostWords
  BY TurnFacts DEF source
<1>1. SUFFICES ASSUME lostWords = 0 PROVE (AtDelimiter /\ AtBeat /\ Unbroken)'
  BY <1>0 DEF Tracking
<1>2. /\ Cursor \in Nat /\ Word = Cursor + 1 /\ Cursor' = Word /\ Cursor >= runStart /\ runStart \in Nat
      /\ UNCHANGED <<runStart, pos, run>> /\ CountsTo(Remaining', pos') /\ Unbroken
  BY <1>1, TurnFinds
<1>3. KindOf(Word) = "second" /\ fSTFSequenceNumber = 0 /\ fHBFCounter = 0
  BY <1>1, DropsBefore
<1>4. hbf_flag' = 0 /\ fSTFSequenceNumber' = 0 /\ fHBFCounter' = 0
  BY <1>3, DropFacts
<1>5. Finished' = Finished
  BY TurnGathers
<1>6. KindOf(Cursor)' = "second"
  BY <1>2, <1>3 DEF KindOf, WordsPerBeat
<1>7. AtDelimiter'
  BY <1>4, <1>6 DEF AtDelimiter
<1>8. AtBeat'
  BY <1>4 DEF AtBeat, Going
<1>9. ~ \E stf \in ToSet(Finished)' : stf.run = run'
  BY <1>2, <1>3, <1>5 DEF Unbroken, ToSet
<1>10. Unbroken'
  BY <1>2, <1>4, <1>9 DEF Unbroken, CountsTo
<1> QED BY <1>7, <1>8, <1>10

(* A word that is kept. *)
LEMMA KeepsCounting ==
  ASSUME Types, Turn, ~Drops, Unbroken
  PROVE  /\ ~(EndHBF /\ STFIsFull) /\ fSTFSequenceNumber > 0
              => CountsTo(Gathered' \o Remaining', pos')
         /\ EndHBF /\ fSTFSequenceNumber > 0 => CountsTo(WordsOf(Frames), pos - Len(Remaining'))
<1>1. Gathered \in Seq(Nat) /\ Remaining' \in Seq(Nat) /\ pos' = pos /\ pos \in Nat
  BY WordsTypes, CursorOfTurn DEF Unbroken
<1>2. Gathered \o Remaining = Append(Gathered, Word) \o Remaining'
  BY <1>1, TurnTakes
<1>3. ASSUME ~(EndHBF /\ STFIsFull), fSTFSequenceNumber > 0
      PROVE  CountsTo(Gathered' \o Remaining', pos')
  <2>1. Gathered' = Append(Gathered, Word)
    BY <1>3, TurnGathers
  <2>2. Gathered' \o Remaining' = Gathered \o Remaining
    BY <1>2, <2>1
  <2>3. CountsTo(Gathered \o Remaining, pos)
    BY <1>3 DEF Unbroken
  <2> QED BY <1>1, <2>2, <2>3 DEF CountsTo
<1>4. ASSUME EndHBF, fSTFSequenceNumber > 0
      PROVE  CountsTo(WordsOf(Frames), pos - Len(Remaining'))
  <2> DEFINE f == WordsOf(Frames)
             r == Remaining'
  <2>1. f \in Seq(Nat) /\ f = Append(Gathered, Word)
    BY <1>4, FrameWords
  <2>2. CountsTo(f \o r, pos)
    <3>1. CountsTo(Gathered \o Remaining, pos)
      BY <1>4 DEF Unbroken
    <3>2. f \o r = Gathered \o Remaining
      BY <1>2, <2>1
    <3> QED BY <3>1, <3>2
  <2>3. r \in Seq(Nat)
    BY <1>1
  <2> HIDE DEF f, r
  <2>4. CountsTo(f, pos - Len(r))
    BY <1>1, <2>1, <2>2, <2>3, CountsParts
  <2> QED BY <2>4 DEF f, r
<1> QED BY <1>3, <1>4

(* The branches of the loop are told apart by the word and the flag. *)
LEMMA DropsNot ==
  ASSUME Types
  PROVE  /\ FirstDelimiter \/ OtherWord => ~Drops /\ ~EndHBF
         /\ EndHBF => ~Drops
<1>1. FirstDelimiter \/ OtherWord => hbf_flag = 0 /\ KindOf(Word) # "second"
  BY DEF FirstDelimiter, OtherWord, NextWord
<1>2. EndHBF => hbf_flag = 1 /\ KindOf(Word) = "second" /\ ~OffBoundary
  BY DEF EndHBF, NextWord
<1>3. OnlyFirstComes => hbf_flag = 1 /\ KindOf(Word) # "second"
  BY DEF OnlyFirstComes, NextWord
<1>4. OnlySecondComes => hbf_flag = 0 /\ KindOf(Word) = "second"
  BY DEF OnlySecondComes, NextWord
<1>5. SkipHBF => hbf_flag = 1 /\ KindOf(Word) = "second" /\ OffBoundary
  BY DEF SkipHBF, NextWord
<1> QED BY <1>1, <1>2, <1>3, <1>4, <1>5 DEF Drops

(* A turn that keeps a word within a frame. *)
LEMMA TrackingKeeps ==
  ASSUME Types, Tracking, Turn, FirstDelimiter \/ OtherWord
  PROVE  Tracking'
<1>0. lostWords' = lostWords
  BY TurnFacts DEF source
<1>1. SUFFICES ASSUME lostWords = 0 PROVE (AtDelimiter /\ AtBeat /\ Unbroken)'
  BY <1>0 DEF Tracking
<1>2. /\ Cursor \in Nat /\ Word = Cursor + 1 /\ Cursor' = Word /\ Cursor >= runStart /\ runStart \in Nat
      /\ UNCHANGED <<runStart, pos, run>> /\ CountsTo(Remaining', pos') /\ Unbroken /\ AtBeat
      /\ BeatOf(Word + 1) = IF KindOf(Word) = "second" THEN BeatOf(Word) + 1 ELSE BeatOf(Word)
  BY <1>1, TurnFinds
<1>3. /\ UNCHANGED <<fHBFCounter, fSTFSequenceNumber>> /\ hbf_flag = 0
      /\ \/ KindOf(Word) = "first" /\ hbf_flag' = 1 /\ fdelimiterFrameId' = FrameId(Word)
         \/ KindOf(Word) = "data" /\ hbf_flag' = 0
  BY DEF FirstDelimiter, OtherWord, NextWord
<1>4. ~Drops /\ ~EndHBF
  BY DropsNot
<1>5. KindOf(Cursor)' = KindOf(Word) /\ FrameId(Cursor)' = FrameId(Word) /\ BeatOf(Cursor + 1)' = BeatOf(Word + 1)
  BY <1>2 DEF KindOf, FrameId, BeatOf, WordsPerBeat
<1>6. AtDelimiter'
  BY <1>2, <1>3, <1>5 DEF AtDelimiter
<1>7. AtBeat'
  <2>1. Going' <=> Going
    BY <1>3 DEF Going
  <2>2. BeatOf(Word + 1) = BeatOf(Cursor + 1)
    BY <1>2, <1>3
  <2> QED BY <1>2, <1>3, <1>5, <2>1, <2>2 DEF AtBeat
<1>8. Unbroken'
  <2>1. Finished' = Finished /\ (fSTFSequenceNumber > 0 => CountsTo(Gathered' \o Remaining', pos'))
    BY <1>2, <1>4, TurnGathers, KeepsCounting
  <2>2. (\E stf \in ToSet(Finished)' : stf.run = run') => \E stf \in ToSet(Finished) : stf.run = run
    BY <1>2, <2>1 DEF ToSet
  <2>3. Cursor' >= runStart'
    BY <1>2
  <2>4. (\E stf \in ToSet(Finished) : stf.run = run) => fSTFSequenceNumber > 0
    BY <1>2 DEF Unbroken
  <2> QED BY <1>2, <1>3, <2>1, <2>2, <2>3, <2>4 DEF Unbroken, CountsTo
<1> QED BY <1>6, <1>7, <1>8

(* A turn that ends a frame, and perhaps a sub time frame. *)
LEMMA TrackingEnds ==
  ASSUME Types, Tracking, WrapsOnBoundary, Turn, EndHBF
  PROVE  Tracking'
<1>0. lostWords' = lostWords
  BY TurnFacts DEF source
<1>1. SUFFICES ASSUME lostWords = 0 PROVE (AtDelimiter /\ AtBeat /\ Unbroken)'
  BY <1>0 DEF Tracking
<1>2. /\ Cursor \in Nat /\ Word = Cursor + 1 /\ Cursor' = Word /\ Cursor >= runStart /\ runStart \in Nat
      /\ UNCHANGED <<runStart, pos, run>> /\ CountsTo(Remaining', pos') /\ Unbroken /\ AtBeat /\ AtDelimiter
      /\ BeatOf(Word) \in Nat
      /\ BeatOf(Word + 1) = IF KindOf(Word) = "second" THEN BeatOf(Word) + 1 ELSE BeatOf(Word)
      /\ hbf_flag = 1 => BeatOf(Cursor) = BeatOf(Word)
  BY <1>1, TurnFinds
<1>3. hbf_flag = 1 /\ KindOf(Word) = "second" /\ hbf_flag' = 0 /\ ~OffBoundary
  BY FrameFacts
<1>4. ~Drops
  BY DropsNot
<1>5. fSTFSequenceNumber \in Nat /\ fHBFCounter \in 0 .. MaxHBF /\ MaxHBF \in Nat \ {0}
      /\ (SplitMethod = 0 => fHBFCounter < MaxHBF)
  BY Constants DEF Types, FramingOK, IdsOK, CounterOK
<1>6. /\ STFIsFull => fSTFSequenceNumber' = fSTFSequenceNumber + 1
                      /\ fHBFCounter' = IF SplitMethod = 0 THEN 0 ELSE 1
      /\ ~STFIsFull => fSTFSequenceNumber' = fSTFSequenceNumber /\ fHBFCounter' = fHBFCounter + 1
  BY FrameFacts, FinishFacts
<1>7. KindOf(Cursor)' = KindOf(Word) /\ BeatOf(Cursor + 1)' = BeatOf(Word) + 1
  BY <1>2, <1>3 DEF KindOf, BeatOf, WordsPerBeat
<1>8. AtDelimiter'
  BY <1>3, <1>7 DEF AtDelimiter
<1>9. AtBeat'
  <2>1. Cursor' > runStart'
    BY <1>2
  <2>2. SplitMethod # 0 => fHBFCounter' > 0
    BY <1>5, <1>6
  <2>3. ASSUME SplitMethod = 0 PROVE (BeatOf(Word) + 1) % MaxHBF = fHBFCounter'
    <3> DEFINE b == BeatOf(Word)
               m == MaxHBF
               k == fHBFCounter
    <3>1. b % m = k
      <4>1. CASE Going
        BY <1>2, <2>3, <4>1 DEF AtBeat
      <4>2. CASE ~Going
        <5>1. k = 0 /\ fdelimiterFrameId % m = 0
          BY <1>3, <1>5, <4>2 DEF Going, OffBoundary
        <5>2. fdelimiterFrameId = FrameId(Cursor) /\ BeatOf(Cursor) = b
          BY <1>2, <1>3 DEF AtDelimiter
        <5>3. FrameId(Cursor) % m = BeatOf(Cursor) % m
          BY <1>2, <2>3, <5>2, BeatOfFrame
        <5> QED BY <5>1, <5>2, <5>3
      <4> QED BY <4>1, <4>2
    <3>2. b \in Nat /\ m \in Nat \ {0} /\ k \in 0 .. m - 1
      BY <1>2, <1>5, <2>3
    <3>3. STFIsFull <=> (k + 1) % m = 0
      BY <2>3 DEF STFIsFull
    <3>4. fHBFCounter' = IF STFIsFull THEN 0 ELSE k + 1
      BY <1>6, <2>3
    <3> HIDE DEF b, m, k
    <3>5. (b + 1) % m = IF k = m - 1 THEN 0 ELSE k + 1
      BY <3>1, <3>2, Division
    <3>6. (k + 1) % m = 0 <=> k = m - 1
      <4>1. k % m = k
        BY <3>2
      <4>2. k \in Nat /\ m \in Nat \ {0}
        BY <3>2
      <4>3. (k + 1) % m = IF k % m = m - 1 THEN 0 ELSE (k % m) + 1
        BY <4>2, Division
      <4> QED BY <3>2, <4>1, <4>3
    <3>7. (b + 1) % m = fHBFCounter'
      BY <3>3, <3>4, <3>5, <3>6
    <3> QED BY <3>7 DEF b, m
  <2> QED BY <1>7, <2>1, <2>2, <2>3 DEF AtBeat
<1>10. Unbroken'
  <2>1. Cursor' >= runStart'
    BY <1>2
  <2>2. CASE STFIsFull
    <3>1. segment' = <<>> /\ fInputPayloads' = <<>> /\ fWorkingPayloads' = <<>>
      BY <2>2, FrameFacts, FinishFacts
    <3>2. Gathered' = <<>>
      BY <3>1, FlattenEmpty DEF Gathered, Kept, WordsOf
    <3>3. Remaining' \in Seq(Nat)
      BY <1>1, TurnFinds
    <3>4. Gathered' \o Remaining' = Remaining'
      BY <3>2, <3>3
    <3>5. CountsTo(Gathered \o Remaining, pos)'
      BY <1>2, <3>4 DEF CountsTo
    <3>6. fSTFSequenceNumber' > 0
      BY <1>5, <1>6, <2>2
    <3> QED BY <1>2, <2>1, <3>5, <3>6 DEF Unbroken, CountsTo
  <2>3. CASE ~STFIsFull
    <3>1. Finished' = Finished /\ (fSTFSequenceNumber > 0 => CountsTo(Gathered' \o Remaining', pos'))
      BY <1>2, <1>4, <2>3, TurnGathers, KeepsCounting
    <3>2. (\E stf \in ToSet(Finished)' : stf.run = run') => \E stf \in ToSet(Finished) : stf.run = run
      BY <1>2, <3>1 DEF ToSet
    <3>3. (\E stf \in ToSet(Finished) : stf.run = run) => fSTFSequenceNumber > 0
      BY <1>2 DEF Unbroken
    <3> QED BY <1>2, <1>6, <2>1, <2>3, <3>1, <3>2, <3>3 DEF Unbroken, CountsTo
  <2> QED BY <2>2, <2>3
<1> QED BY <1>8, <1>9, <1>10

(* Every step keeps track of the stream. *)
LEMMA TrackingNext ==
  ASSUME WrapsOnBoundary
  PROVE  Types /\ OneRun /\ Tracking /\ [Next]_vars => Tracking'
<1> SUFFICES ASSUME Types, OneRun, Tracking, [Next]_vars PROVE Tracking'
  OBVIOUS
<1>0. Remaining \in Seq(Nat) /\ Gathered \in Seq(Nat) /\ msg \in Seq(Nat) /\ wire \in Seq(Nat)
      /\ pos \in Nat /\ runStart \in Nat /\ lostWords \in Nat
  BY WordsTypes, StreamType, Constants DEF Types, SourceOK
<1>1. CASE Upstream
  <2>1. /\ UNCHANGED <<pc, run>> /\ UNCHANGED <<msg, framing>> /\ UNCHANGED fOutputPayloads /\ UNCHANGED sent
        /\ UNCHANGED runStart
    BY <1>1, UpstreamUnchanged DEF delivery, Upstream, ProduceWord, LoseWord, StopUpstream, DrainOne
  <2>2. Gathered' = Gathered /\ Finished' = Finished
        /\ UNCHANGED <<hbf_flag, fdelimiterFrameId, fHBFCounter, fSTFSequenceNumber>>
    BY <2>1 DEF framing, Gathered, Kept, Finished
  <2>3. CASE ProduceWord
    <3>1. pos' = pos + 1 /\ wire' = Append(wire, pos + 1) /\ lostWords' = lostWords
      BY <2>3 DEF ProduceWord
    <3>2. SUFFICES ASSUME lostWords' = 0, InRun' PROVE (AtDelimiter /\ AtBeat /\ Unbroken)'
      BY DEF Tracking
    <3>3. AtDelimiter /\ AtBeat /\ Unbroken
      BY <2>1, <3>1, <3>2 DEF Tracking, InRun
    <3>4. Remaining' = Append(Remaining, pos + 1)
      BY <1>0, <2>1, <3>1, LongerBehind DEF Remaining
    <3>5. Cursor' = Cursor
      <4> DEFINE r == Remaining
      <4>1. r \in Seq(Nat)
        BY <1>0
      <4> HIDE DEF r
      <4>2. Len(Append(r, pos + 1)) = Len(r) + 1 /\ Len(r) \in Nat
        BY <1>0, <4>1
      <4> QED BY <1>0, <3>1, <3>4, <4>2 DEF Cursor, r
    <3>6. AtDelimiter'
      BY <2>1, <2>2, <3>3, <3>5 DEF AtDelimiter, KindOf, FrameId, BeatOf, WordsPerBeat
    <3>7. AtBeat'
      BY <2>1, <2>2, <3>3, <3>5 DEF AtBeat, Going, BeatOf, WordsPerBeat
    <3>8. CountsTo(Append(Remaining, pos + 1), pos + 1)
      BY <1>0, <3>3, CountsLonger DEF Unbroken
    <3>9. fSTFSequenceNumber > 0 => CountsTo(Gathered' \o Remaining', pos')
      <4> DEFINE g == Gathered \o Remaining
      <4>1. g \in Seq(Nat) /\ Gathered \o Append(Remaining, pos + 1) = Append(g, pos + 1)
        BY <1>0, LongerBehind, SMTT(30)
      <4>2. fSTFSequenceNumber > 0 => CountsTo(g, pos)
        BY <3>3 DEF Unbroken
      <4> HIDE DEF g
      <4>3. fSTFSequenceNumber > 0 => CountsTo(Append(g, pos + 1), pos + 1)
        BY <1>0, <4>1, <4>2, CountsLonger
      <4> QED BY <2>2, <3>1, <3>4, <4>1, <4>3
    <3>10. Unbroken'
      BY <2>1, <2>2, <3>1, <3>3, <3>4, <3>5, <3>8, <3>9 DEF Unbroken, CountsTo, ToSet
    <3> QED BY <3>6, <3>7, <3>10
  <2>4. CASE LoseWord
    <3>1. lostWords' # 0
      BY <1>0, <2>4 DEF LoseWord
    <3> QED BY <3>1 DEF Tracking
  <2>5. CASE StopUpstream
    <3>1. UNCHANGED <<wire, pos, lostWords>>
      BY <2>5 DEF StopUpstream
    <3>2. Remaining' = Remaining
      BY <2>1, <3>1 DEF Remaining
    <3>3. CASE InRun
      BY <2>1, <2>2, <3>1, <3>2, <3>3, TrackingSame DEF ToSet
    <3>4. CASE ~InRun
      BY <2>1, <3>4 DEF Tracking, InRun
    <3> QED BY <3>3, <3>4
  <2>6. CASE DrainOne
    <3>1. ~InRun'
      BY <2>1, <2>6 DEF DrainOne, InRun
    <3> QED BY <3>1 DEF Tracking
  <2> QED BY <1>1, <2>3, <2>4, <2>5, <2>6 DEF Upstream
<1>2. CASE Control \/ Sends \/ (\E d \in Destinations : Consume(d)) \/ UNCHANGED vars
  <2>1. UNCHANGED <<msg, framing>> /\ UNCHANGED source
    BY <1>2, TypesControl, SendFacts DEF Consume, vars
  <2>2. /\ Gathered' = Gathered /\ Remaining' = Remaining
        /\ UNCHANGED <<hbf_flag, fdelimiterFrameId, fHBFCounter, fSTFSequenceNumber>>
        /\ UNCHANGED <<pos, runStart, run, lostWords>>
    BY <2>1 DEF framing, source, Gathered, Kept, Remaining
  <2>3. InRun' => InRun
    BY <1>2 DEF InRun, Control, RequestStop, EndPostRun, AllSent, Sends, Copy, CopyInterrupted, SendSucceeds,
       SendInterrupted, SendFails, Consume, vars
  <2>4. ~EndHBF
    <3>1. ~UNCHANGED <<msg, framing>> \/ ~EndHBF
      <4>1. EndHBF => hbf_flag = 1 /\ hbf_flag' = 0
        BY DEF EndHBF
      <4> QED BY <4>1 DEF framing
    <3> QED BY <2>1, <3>1
  <2>5. \A stf \in ToSet(Finished)' : stf \in ToSet(Finished)
    BY <2>4, FinishedStep
  <2>6. CASE InRun
    BY <2>2, <2>5, <2>6, TrackingSame
  <2>7. CASE ~InRun
    BY <2>3, <2>7 DEF Tracking
  <2> QED BY <2>6, <2>7
<1>3. CASE \E start \in 0 .. StreamLength : PreRun(start)
  <2>1. PICK start \in 0 .. StreamLength : PreRun(start)
    BY <1>3
  <2>2. /\ pc = "ready" /\ hbf_flag' = 0 /\ fHBFCounter' = 0 /\ fSTFSequenceNumber' = 0
        /\ pos' = start /\ runStart' = start /\ run' = run + 1 /\ UNCHANGED <<msg, wire>>
        /\ UNCHANGED fOutputPayloads /\ UNCHANGED sent
    BY <2>1 DEF PreRun, delivery
  <2>3. Remaining' = <<>>
    BY <2>2 DEF OneRun, Places, Remaining
  <2>4. Cursor' = start /\ start \in Nat
    <3>1. Len(<<>>) = 0
      OBVIOUS
    <3> QED BY <2>1, <2>2, <2>3, <3>1, StreamType DEF Cursor
  <2>5. AtDelimiter' /\ AtBeat'
    BY <2>2, <2>4 DEF AtDelimiter, AtBeat, Going
  <2>6. ~ \E stf \in ToSet(Finished)' : stf.run = run'
    <3>1. ToSet(Finished)' = ToSet(Finished)
      BY <2>2 DEF Finished, ToSet
    <3>2. \A stf \in ToSet(Finished) : stf.run \in Nat /\ stf.run <= run
      <4>1. \A stf \in ToSet(Finished) : stf \in STFs
        <5> HIDE DEF STFs
        <5>1. Finished \in Seq(STFs)
          BY WordsTypes
        <5> QED BY <5>1 DEF ToSet
      <4> QED BY <4>1 DEF OneRun, Own, STFs
    <3>3. run \in Nat
      BY Constants DEF Types, SourceOK
    <3> QED BY <2>2, <3>1, <3>2, <3>3
  <2>7. CountsTo(Remaining, pos)'
    BY <2>3 DEF CountsTo
  <2>8. Unbroken'
    BY <2>2, <2>4, <2>6, <2>7 DEF Unbroken
  <2> QED BY <2>5, <2>8 DEF Tracking
<1>4. CASE BeginPostRun
  <2>1. ~InRun'
    BY <1>4 DEF BeginPostRun, InRun
  <2> QED BY <2>1 DEF Tracking
<1>5. CASE HandleData \/ EndOfMessage
  <2>1. /\ InRun /\ UNCHANGED <<hbf_flag, fdelimiterFrameId, fHBFCounter, fSTFSequenceNumber>>
        /\ UNCHANGED <<pos, runStart, run, lostWords>> /\ UNCHANGED sent /\ UNCHANGED fOutputPayloads
        /\ UNCHANGED fWorkingPayloads
    BY <1>5 DEF HandleData, EndOfMessage, InRun, framing, source, delivery
  <2>2. Remaining' = Remaining
    <3>1. CASE HandleData
      <4>1. msg = <<>> /\ msg' = wire /\ wire' = <<>>
        BY <3>1 DEF HandleData, OneRun, Places
      <4> QED BY <1>0, <4>1 DEF Remaining
    <3>2. CASE EndOfMessage
      BY <3>2 DEF EndOfMessage, source, Remaining
    <3> QED BY <1>5, <3>1, <3>2
  <2>3. Gathered' = Gathered
    <3>1. CASE HandleData
      BY <3>1 DEF HandleData, framing, Gathered, Kept
    <3>2. CASE EndOfMessage
      <4>1. Kept \in Seq(Nat)
        BY WordsTypes
      <4>2. Kept' = Kept \o <<>>
        BY <3>2 DEF EndOfMessage, Kept
      <4>3. Kept' = Kept
        BY <4>1, <4>2
      <4> QED BY <2>1, <4>3 DEF Gathered
    <3> QED BY <1>5, <3>1, <3>2
  <2>4. Finished' = Finished
    BY <2>1 DEF Finished
  <2> QED BY <2>1, <2>2, <2>3, <2>4, TrackingSame DEF ToSet
<1>6. CASE Turn
  BY <1>6, TrackingDrops, TrackingKeeps, TrackingEnds DEF Turn, Drops
<1> QED BY <1>1, <1>2, <1>3, <1>4, <1>5, <1>6, Steps

-----------------------------------------------------------------------------
(* The sub time frames that wait to be sent are of this run. *)
WaitingOfRun == \A stf \in ToSet(fOutputPayloads) : stf.run = run

(* Every step keeps them so. *)
LEMMA WaitingNext == Types /\ Places /\ WaitingOfRun /\ [Next]_vars => WaitingOfRun'
<1> SUFFICES ASSUME Types, Places, WaitingOfRun, [Next]_vars PROVE WaitingOfRun'
  OBVIOUS
<1>0. fOutputPayloads \in Seq(STFs)
  BY WordsTypes
<1>1. ASSUME UNCHANGED run, \A stf \in ToSet(fOutputPayloads') : stf \in ToSet(fOutputPayloads) \/ stf.run = run
      PROVE  WaitingOfRun'
  BY <1>1 DEF WaitingOfRun, ToSet
<1>2. ASSUME fOutputPayloads' = <<>> PROVE WaitingOfRun'
  BY <1>2 DEF WaitingOfRun, ToSet
<1>3. CASE Upstream \/ Control \/ HandleData \/ EndOfMessage \/ (\E d \in Destinations : Consume(d))
           \/ UNCHANGED vars
  <2>1. UNCHANGED fOutputPayloads /\ UNCHANGED run
    BY <1>3, UpstreamUnchanged, TypesControl DEF HandleData, EndOfMessage, Consume, source, vars
  <2> QED BY <1>1, <2>1
<1>4. CASE \E start \in 0 .. StreamLength : PreRun(start)
  BY <1>2, <1>4 DEF PreRun, Places
<1>5. CASE BeginPostRun
  BY <1>2, <1>5 DEF BeginPostRun
<1>6. CASE Turn
  <2>1. UNCHANGED run
    BY <1>6, TurnFacts DEF source
  <2>2. CASE EndHBF /\ STFIsFull
    <3>1. Finishing \in STFs /\ fOutputPayloads' = Append(fOutputPayloads, Finishing)
      BY <2>2, FinishFacts
    <3>2. ToSet(fOutputPayloads') = ToSet(fOutputPayloads) \cup {Finishing}
      BY <1>0, <3>1, ElementsOfLonger
    <3>3. Finishing.run = run
      BY DEF Finishing
    <3> QED BY <1>1, <2>1, <3>2, <3>3
  <2>3. CASE ~(EndHBF /\ STFIsFull)
    <3>1. UNCHANGED fOutputPayloads
      BY <1>6, <2>3, DropFacts, FrameFacts DEF Turn, Drops, FirstDelimiter, OtherWord
    <3> QED BY <1>1, <2>1, <3>1
  <2> QED BY <2>2, <2>3
<1>7. CASE Sends
  <2>1. UNCHANGED run /\ fOutputPayloads # <<>> /\ fOutputPayloads' \in {fOutputPayloads, Tail(fOutputPayloads)}
    BY <1>7, SendFacts DEF source
  <2>2. ToSet(Tail(fOutputPayloads)) \subseteq ToSet(fOutputPayloads)
    BY <1>0, <2>1, ElementsOfRest
  <2> QED BY <1>1, <2>1, <2>2
<1> QED BY <1>3, <1>4, <1>5, <1>6, <1>7, Steps

-----------------------------------------------------------------------------
(* What a step does to the finished sub time frames: nothing, one more at the end, those that wait     *)
(* forgotten, or one of them given up.                                             *)
LEMMA FinishedStepwise ==
  ASSUME Types, [Next]_vars
  PROVE  \/ Finished' = Finished
         \/ EndHBF /\ STFIsFull /\ Finished' = Append(Finished, Finishing) /\ Finishing \in STFs
         \/ BeginPostRun /\ Finished' = sent /\ Finished = sent \o fOutputPayloads
         \/ /\ Sends /\ fOutputPayloads # <<>> /\ fOutputPayloads' = Tail(fOutputPayloads)
            /\ Finished' = sent \o Tail(fOutputPayloads)
            /\ Finished = sent \o (<<Head(fOutputPayloads)>> \o Tail(fOutputPayloads))
<1>0. sent \in Seq(STFs) /\ fOutputPayloads \in Seq(STFs)
  BY WordsTypes
<1>1. ASSUME UNCHANGED sent, UNCHANGED fOutputPayloads PROVE Finished' = Finished
  BY <1>1 DEF Finished
<1>2. CASE Upstream \/ Control \/ HandleData \/ EndOfMessage \/ (\E d \in Destinations : Consume(d))
           \/ UNCHANGED vars \/ \E start \in 0 .. StreamLength : PreRun(start)
  <2>1. UNCHANGED fOutputPayloads /\ UNCHANGED sent
    BY <1>2, UpstreamUnchanged, TypesControl DEF HandleData, EndOfMessage, Consume, delivery, vars, PreRun
  <2> QED BY <1>1, <2>1
<1>3. CASE BeginPostRun
  <2>1. sent' = sent /\ fOutputPayloads' = <<>>
    BY <1>3 DEF BeginPostRun, delivery
  <2> QED BY <1>0, <1>3, <2>1 DEF Finished
<1>4. CASE Turn
  <2>1. UNCHANGED sent
    BY <1>4, TurnFacts DEF delivery
  <2>2. CASE EndHBF /\ STFIsFull
    BY <2>2, FinishedLonger
  <2>3. CASE ~(EndHBF /\ STFIsFull)
    <3>1. UNCHANGED fOutputPayloads
      BY <1>4, <2>3, DropFacts, FrameFacts DEF Turn, Drops, FirstDelimiter, OtherWord
    <3> QED BY <1>1, <2>1, <3>1
  <2> QED BY <2>2, <2>3
<1>5. CASE Sends
  <2>1. /\ fOutputPayloads # <<>> /\ fOutputPayloads' \in {fOutputPayloads, Tail(fOutputPayloads)}
        /\ sent' = sent \/ sent' = Append(sent, Head(fOutputPayloads))
        /\ (sent' # sent => fOutputPayloads' = Tail(fOutputPayloads))
    BY <1>5, SendFacts
  <2> DEFINE h == Head(fOutputPayloads)
             t == Tail(fOutputPayloads)
  <2>2. h \in STFs /\ t \in Seq(STFs)
    BY <1>0, <2>1, Parts
  <2>3. fOutputPayloads = <<h>> \o t
    BY <1>0, <2>1
  <2> HIDE DEF h, t
  <2>4. Append(sent, h) \o t = sent \o (<<h>> \o t)
    <3>1. <<h>> \in Seq(STFs) /\ Append(sent, h) = sent \o <<h>>
      BY <1>0, <2>2, AppendIsConcat
    <3>2. (sent \o <<h>>) \o t = sent \o (<<h>> \o t)
      BY <1>0, <2>2, <3>1, Together
    <3> QED BY <3>1, <3>2
  <2>5. CASE sent' # sent
    BY <2>1, <2>3, <2>4, <2>5 DEF Finished, h, t
  <2>6. CASE sent' = sent /\ fOutputPayloads' = fOutputPayloads
    BY <1>1, <2>6
  <2>7. CASE sent' = sent /\ fOutputPayloads' = t
    BY <1>5, <2>1, <2>3, <2>7 DEF Finished, h, t
  <2> QED BY <2>1, <2>5, <2>6, <2>7 DEF t
<1> QED BY <1>2, <1>3, <1>4, <1>5, Steps

(* Consecutive numbers are contiguous. *)
LEMMA CountsContiguous ==
  ASSUME NEW s \in Seq(Nat), NEW n \in Int, CountsTo(s, n)
  PROVE  Contiguous(s)
<1>1. Len(s) \in Nat /\ \A i \in 1 .. Len(s) : s[i] = n - Len(s) + i
  BY DEF CountsTo
<1> SUFFICES ASSUME NEW i \in 1 .. Len(s) - 1 PROVE s[i + 1] = s[i] + 1
  BY DEF Contiguous
<1>2. i \in 1 .. Len(s) /\ i + 1 \in 1 .. Len(s)
  BY <1>1
<1>3. s[i] = n - Len(s) + i /\ s[i + 1] = n - Len(s) + (i + 1)
  BY <1>1, <1>2
<1> QED BY <1>1, <1>2, <1>3

(* As long as no word is lost, a step leaves the sub time frames unbroken that follow one of their run. *)
LEMMA UnbrokenNext ==
  ASSUME WrapsOnBoundary
  PROVE  Types /\ OneRun /\ WaitingOfRun /\ Tracking /\ UnbrokenWithoutLoss /\ [Next]_vars
           => UnbrokenWithoutLoss'
<1> SUFFICES ASSUME Types, OneRun, WaitingOfRun, Tracking, UnbrokenWithoutLoss, [Next]_vars, lostWords' = 0,
                    NEW i \in 2 .. Len(Finished'), Finished'[i].run = run', Finished'[i - 1].run = run'
             PROVE  Contiguous(WordsOf(Finished'[i].hbfs))
  BY DEF UnbrokenWithoutLoss, Contiguous, WordsOf
<1>0. /\ Finished \in Seq(STFs) /\ sent \in Seq(STFs) /\ fOutputPayloads \in Seq(STFs)
      /\ lostWords \in Nat /\ run \in Nat /\ pos \in Nat
  BY WordsTypes, Constants DEF Types, SourceOK
<1> DEFINE F == Finished
           n == Len(F)
<1>1. n \in Nat
  BY <1>0
<1>2. CASE \E start \in 0 .. StreamLength : PreRun(start)
  <2>1. Finished' = Finished /\ run' = run + 1
    BY <1>2 DEF PreRun, delivery, Finished
  <2>2. i \in 1 .. n
    BY <1>1, <2>1
  <2>3. F[i] \in ToSet(F) /\ F[i] \in STFs
    <3> HIDE DEF STFs, F
    <3>1. F \in Seq(STFs)
      BY <1>0 DEF F
    <3> QED BY <2>2, <3>1 DEF ToSet, n
  <2>4. F[i].run \in Nat /\ F[i].run <= run
    BY <2>3 DEF OneRun, Own, STFs
  <2> QED BY <1>0, <2>1, <2>4
<1>3. CASE UNCHANGED run
  <2>1. lostWords = 0
    <3>1. lostWords' # lostWords => LoseWord \/ \E start \in 0 .. StreamLength : PreRun(start)
      BY Steps, TypesControl, TurnFacts, SendFacts DEF Upstream, ProduceWord, StopUpstream, DrainOne,
         BeginPostRun, HandleData, EndOfMessage, Consume, source, vars
    <3>2. LoseWord => lostWords' # 0
      BY <1>0 DEF LoseWord
    <3>3. (\E start \in 0 .. StreamLength : PreRun(start)) => run' # run
      BY <1>0 DEF PreRun
    <3> QED BY <1>3, <3>1, <3>2, <3>3
  <2>2. \A k \in 2 .. n : F[k].run = run /\ F[k - 1].run = run => Contiguous(WordsOf(F[k].hbfs))
    BY <2>1 DEF UnbrokenWithoutLoss
  <2>3. CASE Finished' = Finished
    BY <1>3, <2>2, <2>3
  <2>4. CASE EndHBF /\ STFIsFull /\ Finished' = Append(Finished, Finishing) /\ Finishing \in STFs
    <3> DEFINE x == Finishing
    <3>1. Len(Append(F, x)) = n + 1 /\ Append(F, x)[n + 1] = x /\ \A k \in 1 .. n : Append(F, x)[k] = F[k]
      BY <1>0, <2>4
    <3>2. CASE i # n + 1
      <4>1. i \in 2 .. n /\ i \in 1 .. n /\ i - 1 \in 1 .. n
        BY <1>1, <2>4, <3>1, <3>2
      <4>2. Finished'[i] = F[i] /\ Finished'[i - 1] = F[i - 1]
        BY <2>4, <3>1, <4>1
      <4> QED BY <1>3, <2>2, <4>1, <4>2
    <3>3. CASE i = n + 1
      <4>1. n \in 1 .. n /\ i - 1 = n
        BY <1>1, <3>3
      <4>2. Finished'[i] = x /\ F[n].run = run
        BY <1>3, <2>4, <3>1, <3>3, <4>1
      <4>3. F[n] \in ToSet(F)
        <5> HIDE DEF n
        <5> QED BY <1>0, <4>1 DEF ToSet, n
      <4>4. /\ Turn /\ ~Drops /\ Unbroken
        BY <2>1, <2>4, DropsNot, TurnFacts DEF Turn, Tracking, InRun
      <4>5. fSTFSequenceNumber > 0
        BY <4>2, <4>3, <4>4 DEF Unbroken
      <4>6. CountsTo(WordsOf(Frames), pos - Len(Remaining')) /\ WordsOf(Frames) \in Seq(Nat)
        BY <2>4, <4>4, <4>5, KeepsCounting, FrameWords
      <4>7. pos - Len(Remaining') \in Int
        <5>1. Remaining' \in Seq(Nat)
          BY <2>1, <4>4, TurnFinds
        <5> QED BY <1>0, <5>1
      <4>8. Contiguous(WordsOf(Frames))
        BY <4>6, <4>7, CountsContiguous
      <4>9. x.hbfs = Frames
        BY DEF Finishing
      <4> QED BY <4>2, <4>8, <4>9
    <3> QED BY <3>2, <3>3
  <2>5. CASE BeginPostRun /\ Finished' = sent /\ Finished = sent \o fOutputPayloads
    <3>1. Len(sent) \in Nat /\ Len(sent) <= n /\ \A k \in 1 .. Len(sent) : F[k] = sent[k]
      BY <1>0, <2>5
    <3>2. i \in 2 .. n /\ i \in 1 .. Len(sent) /\ i - 1 \in 1 .. Len(sent)
      BY <1>1, <2>5, <3>1
    <3> QED BY <1>3, <2>2, <2>5, <3>1, <3>2
  <2>6. CASE /\ Sends /\ fOutputPayloads # <<>> /\ fOutputPayloads' = Tail(fOutputPayloads)
             /\ Finished' = sent \o Tail(fOutputPayloads)
             /\ Finished = sent \o (<<Head(fOutputPayloads)>> \o Tail(fOutputPayloads))
    <3> DEFINE h == Head(fOutputPayloads)
               t == Tail(fOutputPayloads)
               b == Finished'
               l == Len(sent)
    <3>1. h \in STFs /\ t \in Seq(STFs)
      BY <1>0, <2>6, Parts
    <3>2. h.run = run
      BY <1>0, <2>6, ElementsOfRest DEF WaitingOfRun
    <3> HIDE DEF h, t
    <3>3. /\ l \in Nat /\ n = l + Len(t) + 1 /\ Len(b) = l + Len(t) /\ Len(t) \in Nat /\ F[l + 1] = h
          /\ \A k \in 1 .. Len(b) : b[k] = IF k <= l THEN F[k] ELSE F[k + 1]
      BY <1>0, <2>6, <3>1, WithoutOne, SMTT(30) DEF h, t
    <3> HIDE DEF F, b, l, n
    <3>4. i \in 1 .. Len(b) /\ i - 1 \in 1 .. Len(b) /\ i \in 2 .. n /\ i + 1 \in 2 .. n
          /\ (i + 1) - 1 = i
      BY <3>3 DEF b
    <3>5. b[i].run = run /\ b[i - 1].run = run
      BY <1>3 DEF b
    <3>6. CASE i <= l
      BY <2>2, <3>3, <3>4, <3>5, <3>6 DEF b
    <3>7. CASE i = l + 1
      <4>1. b[i] = F[i + 1] /\ F[i].run = run
        BY <3>2, <3>3, <3>4, <3>7
      <4> QED BY <2>2, <3>4, <3>5, <4>1 DEF b
    <3>8. CASE i > l + 1
      <4>1. b[i] = F[i + 1] /\ b[i - 1] = F[i]
        BY <3>3, <3>4, <3>8
      <4> QED BY <2>2, <3>4, <3>5, <4>1 DEF b
    <3> QED BY <3>3, <3>4, <3>6, <3>7, <3>8
  <2> QED BY <2>3, <2>4, <2>5, <2>6, FinishedStepwise
<1> QED BY <1>2, <1>3, RunUnchanged

(* At first nothing is tracked, finished or waiting. *)
LEMMA UnbrokenInit == Init => WaitingOfRun /\ Tracking /\ UnbrokenWithoutLoss
<1> SUFFICES ASSUME Init PROVE WaitingOfRun /\ Tracking /\ UnbrokenWithoutLoss
  OBVIOUS
<1>1. pc = "ready" /\ fOutputPayloads = <<>> /\ sent = <<>>
  BY DEF Init
<1>2. Finished = <<>> /\ Len(Finished) = 0
  BY <1>1 DEF Finished
<1> QED BY <1>1, <1>2 DEF WaitingOfRun, Tracking, InRun, UnbrokenWithoutLoss, ToSet

(* As long as no word is lost, every sub time frame of a run but its first is one unbroken piece of the *)
(* stream, however its words are cut into messages and whatever waits or is given up at the output       *)
(* (BuildFrame, FillData); provided that the frame id wraps on a boundary of sub time frames.      *)
THEOREM NothingDroppedWithoutLoss ==
  ASSUME WrapsOnBoundary PROVE Spec => []UnbrokenWithoutLoss
<1> DEFINE IInv == OneRun /\ WaitingOfRun /\ Tracking /\ UnbrokenWithoutLoss
<1>1. Init => IInv
  BY OneRunInit, UnbrokenInit
<1>2. Types /\ IInv /\ [Next]_vars => IInv'
  BY OneRunNext, WaitingNext, TrackingNext, UnbrokenNext DEF OneRun
<1>3. IInv => UnbrokenWithoutLoss
  OBVIOUS
<1> QED BY <1>1, <1>2, <1>3, TypesInit, TypesNext, PTL DEF Spec

=============================================================================
