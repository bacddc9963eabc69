------------------------------ MODULE STFBuilder ------------------------------
(***************************************************************************)
(* STFBuilder.cxx: the device, one per front-end module, that cuts the word   *)
(* stream of its sampler at the heartbeat delimiters into heartbeat frames    *)
(* (HBFs), gathers MaxHBF of them in a sub time frame (STF) and sends the STF *)
(* to the time frame builder that its id selects.                           *)
(*                                                                         *)
(* The front-end module ends every heartbeat frame with a pair of delimiters, *)
(* first and second.  The sampler cuts the stream into messages without       *)
(* looking at it, and words may be lost on the way.  BuildFrame looks at a    *)
(* message word by word: an action below is one turn of its loop, a branch of  *)
(* the loop body each.                                                      *)
(*                                                                         *)
(* Abstractions.  A word is its kind and its place in the stream of the        *)
(* module (all heads that BuildFrame does not look for are "data"; an unknown  *)
(* head is only logged); throttling-in and throttling-out are one flag, the     *)
(* header has one bit for both.  A heartbeat frame is kept as its words,        *)
(* without the header that FillData puts before them.                        *)
(***************************************************************************)
EXTENDS Integers, SequencesExt

CONSTANTS
  MaxHBF,          (* fMaxHBF, after its correction in InitTask              *)
  SplitMethod,     (* fSplitMethod                                          *)
  TimeFrameIdType, (* fTimeFrameIdType: "first", "last" or "sequence"        *)
  NumDestination,  (* fNumDestination                                       *)
  DiscardOutput,   (* fDiscardOutput                                        *)
  WithDQM,         (* is there a channel for data quality monitoring?        *)
  MaxErrors,       (* failed sends before DiscardOutput discards: 10          *)
  FrameIdModulus,  (* the frame id of a delimiter has 24 bits: 2^24           *)
  ThrottledBeats,  (* heartbeats whose first delimiter has a throttling flag  *)
  DataPerBeat,     (* data words of a heartbeat frame                        *)
  OutputHWM,       (* STFs that may wait at one destination                  *)
  MaxBeats,        (* bound: heartbeats of the module                        *)
  MaxMessage,      (* bound: words in one message of the sampler              *)
  MaxLost,         (* bound: words lost in one run                           *)
  MaxRuns          (* bound: number of runs                                 *)

ASSUME STFConstantsAssumption ==
  /\ MaxHBF \in Nat \ {0} /\ NumDestination \in Nat \ {0}
  /\ SplitMethod \in Nat
  /\ TimeFrameIdType \in {"first", "last", "sequence"}
  /\ DiscardOutput \in BOOLEAN /\ WithDQM \in BOOLEAN
  /\ MaxErrors \in Nat /\ FrameIdModulus \in Nat \ {0}
  /\ ThrottledBeats \subseteq Nat
  /\ DataPerBeat \in Nat /\ OutputHWM \in Nat \ {0}
  /\ MaxBeats \in Nat /\ MaxMessage \in Nat \ {0}
  /\ MaxLost \in Nat /\ MaxRuns \in Nat

VARIABLES
  pc,                (* where the device is                                 *)
  stopRequested,     (* NewStatePending()                                   *)
  msg,               (* the words of the message BuildFrame has not looked at *)
  segment,           (* the words from msgBegin + offset to the current one    *)
  fInputPayloads,    (* words kept from earlier messages                     *)
  hbf_flag,          (* 1: the last word was a first delimiter               *)
  fdelimiterFrameId, (* frame id of the last first delimiter                 *)
  fHBFCounter,
  fSTFId,            (* -1: not yet known                                   *)
  fSTFSequenceNumber,
  fThrottling,       (* fThrottlingIn || fThrottlingOut                      *)
  fWorkingPayloads,  (* the HBFs of the STF in the making                    *)
  fOutputPayloads,   (* the STFs to be sent                                 *)
  err_count,
  output,            (* destination -> STFs waiting there                    *)
  sent,              (* ghost: the STFs sent                                 *)
  wire,              (* words that the sampler has not yet handed over        *)
  pos,               (* words that the module has produced                   *)
  lostWords,         (* words lost in this run                               *)
  runStart,          (* ghost: words produced when the run began             *)
  upstream,          (* is the sampler sending?                             *)
  run                (* number of the current run                            *)

framing == <<segment, fInputPayloads, hbf_flag, fdelimiterFrameId, fHBFCounter, fSTFId,
             fSTFSequenceNumber, fThrottling, fWorkingPayloads>>
delivery == <<err_count, output, sent>>
source  == <<wire, pos, lostWords, runStart, upstream, run>>
vars    == <<pc, stopRequested, msg, framing, fOutputPayloads, delivery, source>>

Destinations == 0 .. NumDestination - 1
WordsPerBeat == DataPerBeat + 2
StreamLength == MaxBeats * WordsPerBeat

(* Word n of the stream of the module.                                      *)
BeatOf(n) == (n - 1) \div WordsPerBeat
KindOf(n) == LET k == (n - 1) % WordsPerBeat IN
  IF k < DataPerBeat THEN "data" ELSE IF k = DataPerBeat THEN "first" ELSE "second"

FrameId(n) == BeatOf(n) % FrameIdModulus

-----------------------------------------------------------------------------
(* The rest of the system.                                                  *)

(* The module produces its next word and the sampler puts it on the wire.     *)
ProduceWord ==
  /\ upstream /\ pos < StreamLength /\ Len(wire) < MaxMessage
  /\ pos' = pos + 1
  /\ wire' = Append(wire, pos')
  /\ UNCHANGED <<pc, stopRequested, msg, framing, fOutputPayloads, delivery, lostWords,
                 runStart, upstream, run>>

LoseWord ==
  /\ upstream /\ pos < StreamLength /\ lostWords < MaxLost
  /\ pos' = pos + 1
  /\ lostWords' = lostWords + 1
  /\ UNCHANGED <<pc, stopRequested, msg, framing, fOutputPayloads, delivery, wire,
                 runStart, upstream, run>>

Consume(d) ==
  /\ output[d] > 0
  /\ output' = [output EXCEPT ![d] = @ - 1]
  /\ UNCHANGED <<pc, stopRequested, msg, framing, fOutputPayloads, err_count, sent, source>>

RequestStop ==
  /\ pc \notin {"ready", "drain"} /\ ~stopRequested
  /\ stopRequested' = TRUE
  /\ UNCHANGED <<pc, msg, framing, fOutputPayloads, delivery, source>>

StopUpstream ==
  /\ stopRequested /\ upstream
  /\ upstream' = FALSE
  /\ UNCHANGED <<pc, stopRequested, msg, framing, fOutputPayloads, delivery, wire, pos,
                 lostWords, runStart, run>>

-----------------------------------------------------------------------------
(* The device's life cycle.                                                 *)

(* PreRun; the module went on meanwhile, the run begins anywhere in its stream. *)
PreRun(start) ==
  /\ pc = "ready" /\ run < MaxRuns
  /\ start \in pos .. StreamLength
  /\ pc' = "idle"
  /\ stopRequested' = FALSE
  /\ fHBFCounter' = 0 /\ hbf_flag' = 0 /\ fdelimiterFrameId' = 0
  /\ fSTFSequenceNumber' = 0 /\ fSTFId' = -1
  /\ pos' = start /\ runStart' = start /\ lostWords' = 0 /\ upstream' = TRUE
  /\ run' = run + 1
  /\ UNCHANGED <<msg, segment, fInputPayloads, fThrottling, fWorkingPayloads,
                 fOutputPayloads, delivery, wire>>

(* Mutant: PostRun keeps the words of an unfinished heartbeat frame.          *)
BeginPostRun_KeepsInput ==
  /\ pc = "idle" /\ stopRequested
  /\ pc' = "drain"
  /\ fWorkingPayloads' = <<>> /\ fOutputPayloads' = <<>>
  /\ fThrottling' = FALSE /\ hbf_flag' = 0
  /\ UNCHANGED <<stopRequested, msg, segment, fInputPayloads, fdelimiterFrameId, fHBFCounter,
                 fSTFId, fSTFSequenceNumber, delivery, source>>

(* PostRun forgets what is not sent, then receives and drops what comes.      *)
BeginPostRun ==
  /\ pc = "idle" /\ stopRequested
  /\ pc' = "drain"
  /\ fInputPayloads' = <<>> /\ fWorkingPayloads' = <<>> /\ fOutputPayloads' = <<>>
  /\ fThrottling' = FALSE /\ hbf_flag' = 0
  /\ UNCHANGED <<stopRequested, msg, segment, fdelimiterFrameId, fHBFCounter, fSTFId,
                 fSTFSequenceNumber, delivery, source>>

DrainOne ==
  /\ pc = "drain" /\ wire # <<>>
  /\ wire' = <<>>
  /\ UNCHANGED <<pc, stopRequested, msg, framing, fOutputPayloads, delivery, pos, lostWords,
                 runStart, upstream, run>>

(* Eleven receives found nothing.  Assumed of the run control: the sampler has  *)
(* stopped by the last of them, 200 ms and more apart.                       *)
EndPostRun ==
  /\ pc = "drain" /\ ~upstream /\ wire = <<>>
  /\ pc' = "ready"
  /\ UNCHANGED <<stopRequested, msg, framing, fOutputPayloads, delivery, source>>

-----------------------------------------------------------------------------
(* HandleData: a message has come, wherever the sampler has cut the stream.   *)
HandleData ==
  /\ pc = "idle" /\ ~stopRequested /\ wire # <<>>
  /\ msg' = wire /\ wire' = <<>>
  /\ pc' = "build"
  /\ UNCHANGED <<stopRequested, framing, fOutputPayloads, delivery, pos, lostWords,
                 runStart, upstream, run>>

(* The turns of BuildFrame's loop; Word is the word it looks at.              *)
Word == Head(msg)

NextWord(kind) ==
  /\ pc = "build" /\ msg # <<>> /\ KindOf(Word) = kind
  /\ msg' = Tail(msg)
  /\ UNCHANGED <<pc, stopRequested, delivery, source>>

(* What was gathered in this message is dropped with the delimiter, what was   *)
(* kept from earlier messages is not.                                       *)
DropSegment ==
  /\ segment' = <<>>
  /\ hbf_flag' = 0
  /\ UNCHANGED <<fInputPayloads, fdelimiterFrameId, fHBFCounter, fSTFId,
                 fSTFSequenceNumber, fThrottling, fWorkingPayloads, fOutputPayloads>>

(* Mutant: a word after a lone first delimiter begins the next frame.         *)
OnlyFirstComes_Lenient ==
  /\ hbf_flag = 1
  /\ \E kind \in {"data", "first"} : NextWord(kind)
  /\ segment' = Append(segment, Word)
  /\ UNCHANGED <<hbf_flag, fInputPayloads, fdelimiterFrameId, fHBFCounter, fSTFId,
                 fSTFSequenceNumber, fThrottling, fWorkingPayloads, fOutputPayloads>>

(* The first delimiter is not followed by a second one: both words go.        *)
OnlyFirstComes ==
  /\ hbf_flag = 1
  /\ \E kind \in {"data", "first"} : NextWord(kind)
  /\ DropSegment

OnlySecondComes ==
  /\ hbf_flag = 0
  /\ NextWord("second")
  /\ DropSegment

(* Mutant: the throttling flag is that of the last heartbeat.                 *)
FirstDelimiter_LastFlag ==
  /\ hbf_flag = 0
  /\ NextWord("first")
  /\ segment' = Append(segment, Word)
  /\ hbf_flag' = 1
  /\ fdelimiterFrameId' = FrameId(Word)
  /\ fThrottling' = (BeatOf(Word) \in ThrottledBeats)
  /\ UNCHANGED <<fInputPayloads, fHBFCounter, fSTFId, fSTFSequenceNumber, fWorkingPayloads,
                 fOutputPayloads>>

FirstDelimiter ==
  /\ hbf_flag = 0
  /\ NextWord("first")
  /\ segment' = Append(segment, Word)
  /\ hbf_flag' = 1
  /\ fdelimiterFrameId' = FrameId(Word)
  /\ fThrottling' = (fThrottling \/ BeatOf(Word) \in ThrottledBeats)
  /\ UNCHANGED <<fInputPayloads, fHBFCounter, fSTFId, fSTFSequenceNumber, fWorkingPayloads,
                 fOutputPayloads>>

OtherWord ==
  /\ hbf_flag = 0
  /\ NextWord("data")
  /\ segment' = Append(segment, Word)
  /\ UNCHANGED <<fInputPayloads, hbf_flag, fdelimiterFrameId, fHBFCounter, fSTFId,
                 fSTFSequenceNumber, fThrottling, fWorkingPayloads, fOutputPayloads>>

(* An STF begins at a multiple of MaxHBF only.                                *)
OffBoundary == fHBFCounter = 0 /\ fdelimiterFrameId % MaxHBF # 0

SkipHBF ==
  /\ hbf_flag = 1 /\ OffBoundary
  /\ NextWord("second")
  /\ DropSegment

(* FillData: the kept words, those of this message and the second delimiter.   *)
FillData == fInputPayloads \o Append(segment, Word)

NewSTFId == IF TimeFrameIdType = "first" /\ fSTFId >= 0 THEN fSTFId ELSE fdelimiterFrameId

(* Mutant: the counter is compared before the frame is counted.               *)
STFIsFull_Late == fHBFCounter % MaxHBF = 0 /\ fHBFCounter > 0

(* Split method 0 looks at the counter after this HBF is counted, the other    *)
(* ones, in FillData, before that.                                         *)
STFIsFull ==
  IF SplitMethod = 0 THEN (fHBFCounter + 1) % MaxHBF = 0
                     ELSE fHBFCounter % MaxHBF = 0 /\ fHBFCounter > 0

FinalizeSTF(hbfs) ==
  /\ fOutputPayloads' = Append(fOutputPayloads,
       [id       |-> IF TimeFrameIdType = "sequence" THEN fSTFSequenceNumber ELSE NewSTFId,
        throttled |-> fThrottling, hbfs |-> hbfs, run |-> run])
  /\ fSTFId' = -1
  /\ fThrottling' = FALSE
  /\ fSTFSequenceNumber' = fSTFSequenceNumber + 1
  /\ fWorkingPayloads' = <<>>

(* Mutant: the kept words stay when they have been used.                      *)
EndHBF_KeepsInput ==
  /\ hbf_flag = 1 /\ ~OffBoundary
  /\ NextWord("second")
  /\ hbf_flag' = 0
  /\ segment' = <<>> /\ UNCHANGED fInputPayloads
  /\ LET hbfs == Append(fWorkingPayloads, FillData) IN
       IF STFIsFull
       THEN /\ FinalizeSTF(hbfs)
            /\ fHBFCounter' = IF SplitMethod = 0 THEN 0 ELSE 1
       ELSE /\ fWorkingPayloads' = hbfs
            /\ fSTFId' = NewSTFId
            /\ fHBFCounter' = fHBFCounter + 1
            /\ UNCHANGED <<fThrottling, fSTFSequenceNumber, fOutputPayloads>>
  /\ UNCHANGED fdelimiterFrameId

EndHBF ==
  /\ hbf_flag = 1 /\ ~OffBoundary
  /\ NextWord("second")
  /\ hbf_flag' = 0
  /\ segment' = <<>> /\ fInputPayloads' = <<>>
  /\ LET hbfs == Append(fWorkingPayloads, FillData) IN
       IF STFIsFull
       THEN /\ FinalizeSTF(hbfs)
            /\ fHBFCounter' = IF SplitMethod = 0 THEN 0 ELSE 1
       ELSE /\ fWorkingPayloads' = hbfs
            /\ fSTFId' = NewSTFId
            /\ fHBFCounter' = fHBFCounter + 1
            /\ UNCHANGED <<fThrottling, fSTFSequenceNumber, fOutputPayloads>>
  /\ UNCHANGED fdelimiterFrameId

(* Mutant: what follows the last delimiter of a message replaces the kept words. *)
EndOfMessage_Overwrites ==
  /\ pc = "build" /\ msg = <<>>
  /\ fInputPayloads' = segment
  /\ segment' = <<>>
  /\ pc' = "copy"
  /\ UNCHANGED <<stopRequested, msg, hbf_flag, fdelimiterFrameId, fHBFCounter, fSTFId,
                 fSTFSequenceNumber, fThrottling, fWorkingPayloads, fOutputPayloads,
                 delivery, source>>

(* What follows the last delimiter of the message is kept for the next one.    *)
EndOfMessage ==
  /\ pc = "build" /\ msg = <<>>
  /\ fInputPayloads' = fInputPayloads \o segment
  /\ segment' = <<>>
  /\ pc' = "copy"
  /\ UNCHANGED <<stopRequested, msg, hbf_flag, fdelimiterFrameId, fHBFCounter, fSTFId,
                 fSTFSequenceNumber, fThrottling, fWorkingPayloads, fOutputPayloads,
                 delivery, source>>

-----------------------------------------------------------------------------
(* The rest of HandleData: a copy for monitoring, then the STF itself, for     *)
(* every finished STF.                                                     *)
AllSent ==
  /\ pc = "copy" /\ fOutputPayloads = <<>>
  /\ pc' = "idle"
  /\ UNCHANGED <<stopRequested, msg, framing, fOutputPayloads, delivery, source>>

Copy ==
  /\ pc = "copy" /\ fOutputPayloads # <<>>
  /\ pc' = "send" /\ err_count' = 0
  /\ UNCHANGED <<stopRequested, msg, framing, fOutputPayloads, output, sent, source>>

NoCopy == ~WithDQM /\ Copy

(* The send to monitoring has no timeout: it ends when monitoring takes the copy, *)
(* which it need not do ever,                                               *)
CopySent == WithDQM /\ Copy

(* or when a stop interrupts it.                                            *)
CopyInterrupted ==
  /\ pc = "copy" /\ fOutputPayloads # <<>> /\ WithDQM /\ stopRequested
  /\ pc' = "idle"
  /\ fOutputPayloads' = Tail(fOutputPayloads)
  /\ UNCHANGED <<stopRequested, msg, framing, delivery, source>>

Direction ==
  LET id == Head(fOutputPayloads).id IN
    (IF TimeFrameIdType = "sequence" THEN id ELSE id \div MaxHBF) % NumDestination

SendSucceeds ==
  /\ pc = "send"
  /\ output[Direction] < OutputHWM
  /\ output' = [output EXCEPT ![Direction] = @ + 1]
  /\ sent' = Append(sent, Head(fOutputPayloads))
  /\ fOutputPayloads' = Tail(fOutputPayloads)
  /\ pc' = "copy"
  /\ UNCHANGED <<stopRequested, msg, framing, err_count, source>>

(* Mutant: the stop is not looked at between two attempts.                    *)
SendInterrupted_Deaf == FALSE

SendInterrupted ==
  /\ pc = "send" /\ stopRequested
  /\ output[Direction] >= OutputHWM
  /\ pc' = "idle"
  /\ fOutputPayloads' = Tail(fOutputPayloads)
  /\ UNCHANGED <<stopRequested, msg, framing, delivery, source>>

(* Mutant: the discard waits for an eleventh error that is never counted.      *)
SendFails_NoDiscard ==
  /\ pc = "send" /\ ~stopRequested
  /\ output[Direction] >= OutputHWM
  /\ err_count < MaxErrors
  /\ err_count' = err_count + 1
  /\ UNCHANGED <<pc, stopRequested, msg, framing, fOutputPayloads, output, sent, source>>

(* Mutant: one attempt more before the discard.                               *)
SendFails_Late ==
  /\ pc = "send" /\ ~stopRequested
  /\ output[Direction] >= OutputHWM
  /\ IF DiscardOutput /\ err_count = MaxErrors + 1
     THEN /\ fOutputPayloads' = Tail(fOutputPayloads)
          /\ pc' = "copy"
          /\ UNCHANGED err_count
     ELSE /\ err_count' = err_count + 1
          /\ UNCHANGED <<pc, fOutputPayloads>>
  /\ UNCHANGED <<stopRequested, msg, framing, output, sent, source>>

(* One failed attempt; err_count is kept at MaxErrors from there on.           *)
SendFails ==
  /\ pc = "send" /\ ~stopRequested
  /\ output[Direction] >= OutputHWM
  /\ IF DiscardOutput /\ err_count = MaxErrors
     THEN /\ fOutputPayloads' = Tail(fOutputPayloads)
          /\ pc' = "copy"
          /\ UNCHANGED err_count
     ELSE /\ err_count' = IF err_count < MaxErrors THEN err_count + 1 ELSE err_count
          /\ UNCHANGED <<pc, fOutputPayloads>>
  /\ UNCHANGED <<stopRequested, msg, framing, output, sent, source>>

-----------------------------------------------------------------------------
Init ==
  /\ pc = "ready" /\ stopRequested = FALSE
  /\ msg = <<>> /\ segment = <<>> /\ fInputPayloads = <<>>
  /\ hbf_flag = 0 /\ fdelimiterFrameId = 0 /\ fHBFCounter = 0
  /\ fSTFId = -1 /\ fSTFSequenceNumber = 0 /\ fThrottling = FALSE
  /\ fWorkingPayloads = <<>> /\ fOutputPayloads = <<>> /\ err_count = 0
  /\ output = [d \in Destinations |-> 0] /\ sent = <<>>
  /\ wire = <<>> /\ pos = 0 /\ lostWords = 0 /\ runStart = 0 /\ upstream = FALSE /\ run = 0

BuildFrame ==
  \/ OnlyFirstComes \/ OnlySecondComes \/ FirstDelimiter \/ OtherWord \/ SkipHBF \/ EndHBF
  \/ EndOfMessage

Device ==
  \/ BeginPostRun \/ DrainOne \/ EndPostRun
  \/ HandleData \/ BuildFrame
  \/ AllSent \/ NoCopy \/ CopyInterrupted
  \/ SendSucceeds \/ SendInterrupted \/ SendFails

Environment ==
  \/ \E start \in 0 .. StreamLength : PreRun(start)
  \/ ProduceWord \/ LoseWord
  \/ \E d \in Destinations : Consume(d)
  \/ RequestStop \/ StopUpstream

Next == Device \/ CopySent \/ Environment

Spec == Init /\ [][Next]_vars

(* Only the thread of the device and the stop of the sampler are relied upon:  *)
(* the consumers and monitoring may stop taking STFs for good.                 *)
FairSpec == Spec /\ WF_vars(Device) /\ WF_vars(StopUpstream)

-----------------------------------------------------------------------------
STFs == [id : Nat, throttled : BOOLEAN, hbfs : Seq(Seq(Nat)), run : Nat]

TypeOK ==
  /\ pc \in {"ready", "idle", "build", "copy", "send", "drain"}
  /\ stopRequested \in BOOLEAN
  /\ msg \in Seq(Nat) /\ segment \in Seq(Nat) /\ fInputPayloads \in Seq(Nat)
  /\ hbf_flag \in {0, 1}
  /\ fdelimiterFrameId \in 0 .. FrameIdModulus - 1
  /\ fHBFCounter \in 0 .. MaxHBF
  /\ fSTFId \in -1 .. FrameIdModulus - 1
  /\ fSTFSequenceNumber \in Nat
  /\ fThrottling \in BOOLEAN
  /\ fWorkingPayloads \in Seq(Seq(Nat))
  /\ fOutputPayloads \in Seq(STFs)
  /\ pc = "send" => fOutputPayloads # <<>>
  /\ err_count \in 0 .. MaxErrors
  /\ output \in [Destinations -> 0 .. OutputHWM]
  /\ sent \in Seq(STFs)
  /\ wire \in Seq(Nat) /\ pos \in 0 .. StreamLength
  /\ lostWords \in 0 .. MaxLost
  /\ runStart \in 0 .. pos
  /\ upstream \in BOOLEAN
  /\ run \in 0 .. MaxRuns

-----------------------------------------------------------------------------
(* All finished STFs, in the order in which they were finished.              *)
Finished == sent \o fOutputPayloads

WordsOf(hbfs) == FlattenSeq(hbfs)
HBFs == ToSet(fWorkingPayloads) \union UNION {ToSet(stf.hbfs) : stf \in ToSet(Finished)}

(* The frame id of a heartbeat frame is that of its first delimiter.          *)
FrameOf(hbf) == FrameId(hbf[Len(hbf) - 1])

Increasing(s) == \A i \in 1 .. Len(s) - 1 : s[i] < s[i + 1]
Contiguous(s) == \A i \in 1 .. Len(s) - 1 : s[i + 1] = s[i] + 1

(* Whatever words are lost and wherever the messages are cut, every heartbeat  *)
(* frame ends in a first and a second delimiter: TimeFrameBuilder reads the     *)
(* type of the last word but one, CheckHBFDelimitor.                         *)
HBFsEndInDelimiters ==
  \A hbf \in HBFs :
    /\ Len(hbf) >= 2
    /\ KindOf(hbf[Len(hbf) - 1]) = "first" /\ KindOf(hbf[Len(hbf)]) = "second"

(* No word is sent twice or overtaken by a later one, from the wire through the *)
(* kept words and the STF in the making to the output.                       *)
WordsInOrder ==
  Increasing(WordsOf([i \in DOMAIN Finished |-> WordsOf(Finished[i].hbfs)])
             \o WordsOf(fWorkingPayloads) \o fInputPayloads \o segment \o msg \o wire)

(* An STF holds MaxHBF frames, the first of them on a boundary of MaxHBF, and    *)
(* carries the id of its first or last one, whatever heartbeats are lost: the   *)
(* ids are what the time frame builder matches.                             *)
STFsBeginOnBoundary ==
  \A stf \in ToSet(Finished) :
    /\ Len(stf.hbfs) = MaxHBF
    /\ FrameOf(stf.hbfs[1]) % MaxHBF = 0
    /\ TimeFrameIdType = "first" => stf.id = FrameOf(stf.hbfs[1])
    /\ TimeFrameIdType = "last"  => stf.id = FrameOf(stf.hbfs[MaxHBF])

(* An STF with a throttled heartbeat frame is marked in its header.           *)
ThrottledIsMarked ==
  \A stf \in ToSet(Finished) :
    (\E hbf \in ToSet(stf.hbfs) : BeatOf(hbf[Len(hbf) - 1]) \in ThrottledBeats)
      => stf.throttled

(* As long as no word is lost, an STF is one unbroken piece of the stream,      *)
(* however the messages are cut; but not the first one of a run, which may     *)
(* begin with words kept from heartbeats that were skipped.                  *)
UnbrokenWithoutLoss ==
  lostWords = 0 =>
    \A i \in 2 .. Len(Finished) :
      Finished[i].run = run /\ Finished[i - 1].run = run
        => Contiguous(WordsOf(Finished[i].hbfs))

(* No word of an earlier run is found in an STF.                              *)
WordsOfOneRun ==
  \A stf \in ToSet(Finished) : stf.run = run =>
    \A n \in ToSet(WordsOf(stf.hbfs)) : n > runStart

(* The message separation of the data format: a data body is followed by its    *)
(* first and second delimiter, so a frame has one delimiter of each kind.      *)
OnePairOfDelimiters ==
  \A hbf \in HBFs : \A i \in 1 .. Len(hbf) - 2 : KindOf(hbf[i]) = "data"

(* A stop request ends the run, also while the output or monitoring is full.    *)
StopEndsRun == stopRequested ~> (pc = "ready")

(* With discard-output the device comes back to its input even if the consumers *)
(* never take an STF again.  Nothing else can keep it but monitoring, whose       *)
(* send has no timeout.                                                     *)
KeepsReceiving == []<>(pc \in {"idle", "ready"}) \/ <>[](pc = "copy")

=============================================================================
