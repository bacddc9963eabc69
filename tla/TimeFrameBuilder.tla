--------------------------- MODULE TimeFrameBuilder ---------------------------
(***************************************************************************)
(* TimeFrameBuilder.cxx: the device that collects, for every time frame id,  *)
(* the sub time frames (STFs) of all front-end modules, and sends the        *)
(* assembled time frame to one of several consumers in round robin.         *)
(*                                                                         *)
(* The device is one thread, but it blocks while it sends.  A run of        *)
(* ConditionalRun is therefore cut where the rest of the system can act in   *)
(* between: after the receive, after each visited buffer entry (each reads   *)
(* the clock again), and at every attempt to send.                           *)
(*                                                                         *)
(* Abstractions.  The clock is kept as the age of each buffer entry, i.e. of *)
(* tfBuf.front().start, saturated one above the timeout: older ages are       *)
(* treated alike.  fTFBuffer is total, an absent key being an empty           *)
(* sequence: no entry is empty when the code looks at it.  An STF is          *)
(* identified by its FEM, its time frame id and, as a ghost, its run.  The     *)
(* code erases an entry and counts its failure after the send, the model       *)
(* before it: nothing reads either of them in between.                       *)
(***************************************************************************)
EXTENDS Naturals, Sequences, FiniteSets

CONSTANTS
  Fems,              (* the front-end modules, one sending peer each        *)
  MaxTFId,           (* bound: time frame ids are 1 .. MaxTFId              *)
  MaxRuns,           (* bound: number of runs started                       *)
  StopsInTime,       (* do the STF builders send nothing after PostRun?      *)
  DrainTries,        (* empty receives that PostRun puts up with, 10         *)
  InputHWM,          (* STFs a source may have waiting in the input channel *)
  OutputHWM,         (* time frames that may wait at one destination        *)
  NumSource,         (* fNumSource, peers connected at InitTask             *)
  NumDestination,    (* fNumDestination, output sub-channels                *)
  BufferTimeout,     (* fBufferTimeoutInMs, in ticks of the model's clock   *)
  BufferDepthLimit,  (* fBufferDepthLimit, 0: no limit                      *)
  DiscardOutput,     (* fDiscardOutput                                      *)
  OutputIncompleteTF,(* fOutputIncompleteTF                                 *)
  DecimatorPeers,    (* fDecimatorNumberOfConnectedPeers                    *)
  DecimationFactor,  (* fDecimationFactor, 0: no decimated output           *)
  DecimationOffset   (* fDecimationOffset, after its correction in InitTask *)

ASSUME ConstantsAssumption ==
  /\ IsFiniteSet(Fems)
  /\ MaxTFId \in Nat /\ MaxRuns \in Nat
  /\ StopsInTime \in BOOLEAN /\ DrainTries \in Nat
  /\ InputHWM \in Nat \ {0} /\ OutputHWM \in Nat \ {0}
  /\ NumSource \in Nat \ {0}
  /\ NumDestination \in Nat \ {0}
  /\ BufferTimeout \in Nat /\ BufferDepthLimit \in Nat
  /\ DiscardOutput \in BOOLEAN /\ OutputIncompleteTF \in BOOLEAN
  /\ DecimatorPeers \in Nat
  /\ DecimationFactor \in Nat /\ DecimationOffset \in Nat
  /\ DecimationFactor > 0 => DecimationOffset < DecimationFactor

VARIABLES
  pc,            (* where the device thread is                              *)
  stopRequested, (* NewStatePending()                                       *)
  fTFBuffer,     (* time frame id -> STFs received, in order of arrival     *)
  age,           (* time frame id -> age of the entry's first STF           *)
  todo,          (* entries the scan of fTFBuffer has still to visit        *)
  outParts,      (* the time frame being sent                               *)
  attempts,      (* attempts in SendTimeFrame                               *)
  nrecv,         (* PostRun's receives that found nothing                   *)
  fDirection, fNumSend,
  fFirstTFB, fSuccessfulSegmentIDs, fLostSegmentCounts,
  fNumSuccessfulTFB, fNumFailedTFB,
  run,           (* ghost: the number of the current run                    *)
  upstream,      (* are the STF builders still sending?                     *)
  nextTFId,      (* FEM -> the smallest time frame id it may send next      *)
  input,         (* FEM -> its STFs waiting in the input channel            *)
  output,        (* destination -> time frames waiting there                *)
  sent,          (* ghost: the time frames given to a destination           *)
  lost           (* ghost: the STFs that the device dropped                 *)

control == <<pc, stopRequested, todo, outParts, attempts, nrecv>>
buffer  == <<fTFBuffer, age>>
sending == <<fDirection, fNumSend, sent, output>>
metrics == <<fFirstTFB, fSuccessfulSegmentIDs, fLostSegmentCounts,
             fNumSuccessfulTFB, fNumFailedTFB>>
sources == <<run, upstream, nextTFId, input>>
vars    == <<control, buffer, sending, metrics, sources, lost>>

TFIds        == 1 .. MaxTFId
Destinations == 0 .. NumDestination - 1
STFs         == [fem : Fems, id : TFIds, run : 1 .. MaxRuns]

(* TimeFrame::Header.type; the flags TF_INCOMPLETE|TF_TIMEOUT and           *)
(* TF_INCOMPLETE|TF_DEPTH_LIMIT are one name each.                          *)
FrameTypes == {"COMPLETE", "TIMEOUT", "DEPTH_LIMIT"}
Frames     == [id : TFIds, type : FrameTypes, parts : Seq(STFs)]
NoFrame    == [id |-> 0, type |-> "NONE", parts |-> <<>>]

Elems(s)   == {s[i] : i \in 1 .. Len(s)}
Entries    == {id \in TFIds : fTFBuffer[id] # <<>>}
FemsOf(s)  == {stf.fem : stf \in Elems(s)}

-----------------------------------------------------------------------------
(* The rest of the system: the STF builders upstream, the consumers          *)
(* downstream, the run control and the clock.                               *)

(* The STF builder of f sends the STF of a later time frame; the ids in       *)
(* between went to other time frame builders or were dropped upstream.  It may *)
(* go on after the device was stopped; how long is for the run control to say. *)
SendSTF(f, id) ==
  /\ upstream
  /\ StopsInTime => pc # "ready"
  /\ id >= nextTFId[f]
  /\ Len(input[f]) < InputHWM
  /\ input' = [input EXCEPT ![f] = Append(@, [fem |-> f, id |-> id, run |-> run])]
  /\ nextTFId' = [nextTFId EXCEPT ![f] = id + 1]
  /\ UNCHANGED <<control, buffer, sending, metrics, run, upstream, lost>>

Consume(d) ==
  /\ output[d] > 0
  /\ output' = [output EXCEPT ![d] = @ - 1]
  /\ UNCHANGED <<control, buffer, fDirection, fNumSend, sent, metrics, sources, lost>>

(* Time passes for every entry of the buffer.                                *)
Tick ==
  /\ age' = [id \in TFIds |-> IF fTFBuffer[id] # <<>> /\ age[id] <= BufferTimeout
                              THEN age[id] + 1 ELSE age[id]]
  /\ UNCHANGED <<control, fTFBuffer, sending, metrics, sources, lost>>

RequestStop ==
  /\ pc \notin {"ready", "drain"} /\ ~stopRequested
  /\ stopRequested' = TRUE
  /\ UNCHANGED <<pc, todo, outParts, attempts, nrecv, buffer, sending, metrics, sources,
                 lost>>

(* The stop reaches the upstream devices at their own pace.                  *)
StopUpstream ==
  /\ stopRequested /\ upstream
  /\ upstream' = FALSE
  /\ UNCHANGED <<control, buffer, sending, metrics, run, nextTFId, input, lost>>

-----------------------------------------------------------------------------
(* The device's life cycle.                                                 *)

(* The run control starts a run when it has stopped all devices.             *)
PreRun ==
  /\ pc = "ready" /\ ~upstream /\ run < MaxRuns
  /\ pc' = "loop"
  /\ stopRequested' = FALSE
  /\ fDirection' = 0 /\ fNumSend' = 0
  /\ fFirstTFB' = TRUE
  /\ fNumSuccessfulTFB' = 0 /\ fNumFailedTFB' = 0
  /\ fLostSegmentCounts' = [f \in Fems |-> 0]
  /\ run' = run + 1
  /\ upstream' = TRUE
  /\ nextTFId' = [f \in Fems |-> 1]
  /\ UNCHANGED <<todo, outParts, attempts, nrecv, buffer, sent, output,
                 fSuccessfulSegmentIDs, input, lost>>

(* Mutant: PostRun forgets to clear the buffer.                              *)
BeginPostRun_KeepsBuffer ==
  /\ pc = "loop" /\ stopRequested
  /\ pc' = "drain" /\ nrecv' = 0
  /\ UNCHANGED <<stopRequested, todo, outParts, attempts, buffer, sending, metrics, sources,
                 lost>>

(* PostRun clears the buffer and then receives and drops what still comes.   *)
BeginPostRun ==
  /\ pc = "loop" /\ stopRequested
  /\ pc' = "drain" /\ nrecv' = 0
  /\ lost' = lost \union UNION {Elems(fTFBuffer[id]) : id \in TFIds}
  /\ fTFBuffer' = [id \in TFIds |-> <<>>]
  /\ age' = [id \in TFIds |-> 0]
  /\ UNCHANGED <<stopRequested, todo, outParts, attempts, sending, metrics, sources>>

DrainOne(f) ==
  /\ pc = "drain" /\ input[f] # <<>>
  /\ lost' = lost \union {Head(input[f])}
  /\ input' = [input EXCEPT ![f] = Tail(@)]
  /\ UNCHANGED <<control, buffer, sending, metrics, run, upstream, nextTFId>>

(* Mutant: PostRun ends without a look at the input.                         *)
DrainNothing_Hasty ==
  /\ pc = "drain"
  /\ nrecv' = nrecv + 1
  /\ pc' = IF nrecv' > DrainTries THEN "ready" ELSE "drain"
  /\ UNCHANGED <<stopRequested, todo, outParts, attempts, buffer, sending, metrics, sources,
                 lost>>

(* A receive finds nothing.  PostRun puts up with DrainTries of them, counted   *)
(* from its beginning, and leaves at the next, whatever the sources do.       *)
DrainNothing ==
  /\ pc = "drain"
  /\ \A f \in Fems : input[f] = <<>>
  /\ nrecv' = nrecv + 1
  /\ pc' = IF nrecv' > DrainTries THEN "ready" ELSE "drain"
  /\ UNCHANGED <<stopRequested, todo, outParts, attempts, buffer, sending, metrics, sources,
                 lost>>

-----------------------------------------------------------------------------
(* ConditionalRun: receive one STF, visit the buffer, evict, report.          *)

(* FairMQ calls ConditionalRun again only while no state change is pending.   *)
Loop ==
  /\ pc = "loop" /\ ~stopRequested
  /\ pc' = "receive"
  /\ UNCHANGED <<stopRequested, nrecv, todo, outParts, attempts, buffer, sending, metrics,
                 sources, lost>>

ReceiveSTF(f) ==
  /\ pc = "receive"
  /\ input[f] # <<>>
  /\ LET stf == Head(input[f]) IN
       /\ fTFBuffer' = [fTFBuffer EXCEPT ![stf.id] = Append(@, stf)]
       /\ todo' = Entries \union {stf.id}
  /\ input' = [input EXCEPT ![f] = Tail(@)]
  /\ pc' = "scan"
  /\ UNCHANGED <<stopRequested, nrecv, outParts, attempts, age, sending, metrics, run,
                 upstream, nextTFId, lost>>

(* Mutant: the buffer is visited only when something was received.           *)
ReceiveNothing_NoScan ==
  /\ pc = "receive"
  /\ stopRequested \/ \A f \in Fems : input[f] = <<>>
  /\ todo' = {}
  /\ pc' = "scan"
  /\ UNCHANGED <<stopRequested, nrecv, outParts, attempts, buffer, sending, metrics,
                 sources, lost>>

(* The receive timed out, nothing being there, or the stop interrupted it.    *)
ReceiveNothing ==
  /\ pc = "receive"
  /\ stopRequested \/ \A f \in Fems : input[f] = <<>>
  /\ todo' = Entries
  /\ pc' = "scan"
  /\ UNCHANGED <<stopRequested, nrecv, outParts, attempts, buffer, sending, metrics,
                 sources, lost>>

(* CheckLostSegmentIDs: the FEMs known from the first complete time frame     *)
(* that this one lacks.                                                     *)
CheckLostSegmentIDs(parts) ==
  fLostSegmentCounts' = [f \in Fems |->
    IF f \in fSuccessfulSegmentIDs \ FemsOf(parts)
    THEN fLostSegmentCounts[f] + 1 ELSE fLostSegmentCounts[f]]

(* Take entry id out of the buffer and start to send it.                     *)
StartSending(id, type) ==
  /\ outParts' = [id |-> id, type |-> type, parts |-> fTFBuffer[id]]
  /\ attempts' = 0
  /\ pc' = "decimate"

(* Mutant: the entry of a time frame that is being sent stays in the buffer.  *)
EraseEntry_Copied(id) ==
  /\ UNCHANGED fTFBuffer
  /\ age' = [age EXCEPT ![id] = 0]

EraseEntry(id) ==
  /\ fTFBuffer' = [fTFBuffer EXCEPT ![id] = <<>>]
  /\ age' = [age EXCEPT ![id] = 0]

(* Mutant: complete with one STF to come.                                    *)
VisitComplete_OneShort(id) ==
  /\ pc = "scan" /\ id \in todo
  /\ Len(fTFBuffer[id]) >= NumSource - 1
  /\ todo' = todo \ {id}
  /\ fSuccessfulSegmentIDs' = IF fFirstTFB THEN FemsOf(fTFBuffer[id])
                                           ELSE fSuccessfulSegmentIDs
  /\ fFirstTFB' = FALSE
  /\ StartSending(id, "COMPLETE")
  /\ EraseEntry(id)
  /\ UNCHANGED <<stopRequested, nrecv, sending, fLostSegmentCounts, fNumSuccessfulTFB,
                 fNumFailedTFB, sources, lost>>

VisitComplete(id) ==
  /\ pc = "scan" /\ id \in todo
  /\ Len(fTFBuffer[id]) = NumSource
  /\ todo' = todo \ {id}
  /\ fSuccessfulSegmentIDs' = IF fFirstTFB THEN FemsOf(fTFBuffer[id])
                                           ELSE fSuccessfulSegmentIDs
  /\ fFirstTFB' = FALSE
  /\ StartSending(id, "COMPLETE")
  /\ EraseEntry(id)
  /\ UNCHANGED <<stopRequested, nrecv, sending, fLostSegmentCounts, fNumSuccessfulTFB,
                 fNumFailedTFB, sources, lost>>

(* Send or drop the incomplete time frame id.                                *)
GiveUp(id, type) ==
  /\ CheckLostSegmentIDs(fTFBuffer[id])
  /\ fNumFailedTFB' = fNumFailedTFB + 1
  /\ EraseEntry(id)
  /\ UNCHANGED <<stopRequested, nrecv, sending, fFirstTFB, fSuccessfulSegmentIDs,
                 fNumSuccessfulTFB, sources>>
  /\ IF OutputIncompleteTF
     THEN StartSending(id, type) /\ UNCHANGED lost
     ELSE /\ lost' = lost \union Elems(fTFBuffer[id])
          /\ pc' = IF type = "DEPTH_LIMIT" THEN "report" ELSE pc
          /\ UNCHANGED <<outParts, attempts>>

(* Mutant: the timeout is looked at before the completeness.                 *)
VisitTimedOut_First(id) ==
  /\ pc = "scan" /\ id \in todo
  /\ age[id] > BufferTimeout
  /\ todo' = todo \ {id}
  /\ GiveUp(id, "TIMEOUT")

VisitTimedOut(id) ==
  /\ pc = "scan" /\ id \in todo
  /\ Len(fTFBuffer[id]) # NumSource
  /\ age[id] > BufferTimeout
  /\ todo' = todo \ {id}
  /\ GiveUp(id, "TIMEOUT")

(* Mutant: a young entry is left alone without looking at its size.          *)
VisitWaiting_AnySize(id) ==
  /\ pc = "scan" /\ id \in todo
  /\ age[id] <= BufferTimeout
  /\ todo' = todo \ {id}
  /\ UNCHANGED <<pc, stopRequested, nrecv, outParts, attempts, buffer, sending, metrics,
                 sources, lost>>

VisitWaiting(id) ==
  /\ pc = "scan" /\ id \in todo
  /\ Len(fTFBuffer[id]) # NumSource
  /\ age[id] <= BufferTimeout
  /\ todo' = todo \ {id}
  /\ UNCHANGED <<pc, stopRequested, nrecv, outParts, attempts, buffer, sending, metrics,
                 sources, lost>>

(* Mutant: off by one.                                                       *)
DepthExceeded_Late == BufferDepthLimit > 0 /\ Cardinality(Entries) > BufferDepthLimit + 1

DepthExceeded == BufferDepthLimit > 0 /\ Cardinality(Entries) > BufferDepthLimit

(* fTFBuffer.begin() of an unordered_map is any of the entries.              *)
Evict(id) ==
  /\ pc = "scan" /\ todo = {}
  /\ DepthExceeded
  /\ id \in Entries
  /\ UNCHANGED todo
  /\ GiveUp(id, "DEPTH_LIMIT")

KeepAll ==
  /\ pc = "scan" /\ todo = {}
  /\ ~DepthExceeded
  /\ pc' = "report"
  /\ UNCHANGED <<stopRequested, nrecv, todo, outParts, attempts, buffer, sending, metrics,
                 sources, lost>>

(* Mutant: the report does not reset the lost segment counts.                *)
Report_KeepsLost(due) ==
  /\ pc = "report"
  /\ pc' = "loop"
  /\ IF due
     THEN fNumSuccessfulTFB' = 0 /\ fNumFailedTFB' = 0
     ELSE UNCHANGED <<fNumSuccessfulTFB, fNumFailedTFB>>
  /\ UNCHANGED <<stopRequested, nrecv, todo, outParts, attempts, buffer, sending, fFirstTFB,
                 fSuccessfulSegmentIDs, fLostSegmentCounts, sources, lost>>

(* fKt.Check(): a second has passed since the last report, or not.           *)
Report(due) ==
  /\ pc = "report"
  /\ pc' = "loop"
  /\ IF due
     THEN /\ fNumSuccessfulTFB' = 0 /\ fNumFailedTFB' = 0
          /\ fLostSegmentCounts' = [f \in Fems |-> 0]
     ELSE UNCHANGED <<fNumSuccessfulTFB, fNumFailedTFB, fLostSegmentCounts>>
  /\ UNCHANGED <<stopRequested, nrecv, todo, outParts, attempts, buffer, sending, fFirstTFB,
                 fSuccessfulSegmentIDs, sources, lost>>

-----------------------------------------------------------------------------
(* SendTimeFrameToEvery: decimated copy first, then the output.  The copies   *)
(* for data quality monitoring are sent only to channels that accept them at  *)
(* once and change nothing in the device.                                   *)

(* Mutant: the number of connected peers is not looked at.                   *)
ToBeDecimated_NoPeers ==
  /\ DecimationFactor > 0
  /\ fNumSend % DecimationFactor = DecimationOffset

ToBeDecimated ==
  /\ DecimatorPeers > 0 /\ DecimationFactor > 0
  /\ fNumSend % DecimationFactor = DecimationOffset

(* The decimated channel is polled once, before the loop that sends to it:    *)
(* the loop finds the answer of that poll over and over.                     *)
Decimate(pollReady) ==
  /\ pc = "decimate"
  /\ pc' = IF ToBeDecimated /\ ~pollReady THEN "decimatorBusy" ELSE "send"
  /\ UNCHANGED <<stopRequested, nrecv, todo, outParts, attempts, buffer, sending, metrics,
                 sources, lost>>

(* Mutant: the loop that sends the decimated copy does not see the stop.     *)
DecimatorInterrupted_Deaf == pc = "decimatorBusy" /\ UNCHANGED vars

DecimatorInterrupted ==
  /\ pc = "decimatorBusy" /\ stopRequested
  /\ pc' = "send"
  /\ UNCHANGED <<stopRequested, nrecv, todo, outParts, attempts, buffer, sending, metrics,
                 sources, lost>>

(* The end of SendTimeFrameToEvery, whatever became of the time frame.        *)
EndSending ==
  /\ fNumSuccessfulTFB' = fNumSuccessfulTFB + 1
  /\ pc' = IF outParts.type = "DEPTH_LIMIT" THEN "report" ELSE "scan"
  /\ outParts' = NoFrame
  /\ attempts' = 0
  /\ UNCHANGED <<stopRequested, nrecv, todo, buffer, fFirstTFB, fSuccessfulSegmentIDs,
                 fLostSegmentCounts, fNumFailedTFB, sources>>

Direction == fDirection % NumDestination

(* Mutant: the direction kept is the count of attempts, not the destination. *)
SendSucceeds_Counting ==
  /\ pc = "send" /\ ~stopRequested
  /\ output[Direction] < OutputHWM
  /\ output' = [output EXCEPT ![Direction] = @ + 1]
  /\ fDirection' = fDirection + 1
  /\ fNumSend' = fNumSend + 1
  /\ sent' = sent \union {outParts}
  /\ EndSending
  /\ UNCHANGED lost

SendSucceeds ==
  /\ pc = "send" /\ ~stopRequested
  /\ output[Direction] < OutputHWM
  /\ output' = [output EXCEPT ![Direction] = @ + 1]
  /\ fDirection' = Direction + 1
  /\ fNumSend' = fNumSend + 1
  /\ sent' = sent \union {outParts}
  /\ EndSending
  /\ UNCHANGED lost

(* The destination is full: try the next one, or give up after all of them.   *)
SendBlocked ==
  /\ pc = "send" /\ ~stopRequested
  /\ output[Direction] >= OutputHWM
  /\ fDirection' = Direction + 1
  /\ UNCHANGED <<fNumSend, sent, output>>
  /\ IF DiscardOutput /\ attempts + 1 >= NumDestination
     THEN /\ lost' = lost \union Elems(outParts.parts)
          /\ EndSending
     ELSE /\ attempts' = IF DiscardOutput THEN attempts + 1 ELSE attempts
          /\ UNCHANGED <<pc, stopRequested, nrecv, todo, outParts, buffer, metrics,
                         sources, lost>>

SendInterrupted ==
  /\ pc = "send" /\ stopRequested
  /\ lost' = lost \union Elems(outParts.parts)
  /\ EndSending
  /\ UNCHANGED sending

-----------------------------------------------------------------------------
Init ==
  /\ pc = "ready" /\ stopRequested = FALSE
  /\ fTFBuffer = [id \in TFIds |-> <<>>]
  /\ age = [id \in TFIds |-> 0]
  /\ todo = {} /\ outParts = NoFrame /\ attempts = 0 /\ nrecv = 0
  /\ fDirection = 0 /\ fNumSend = 0
  /\ fFirstTFB = TRUE /\ fSuccessfulSegmentIDs = {}
  /\ fLostSegmentCounts = [f \in Fems |-> 0]
  /\ fNumSuccessfulTFB = 0 /\ fNumFailedTFB = 0
  /\ run = 0 /\ upstream = FALSE
  /\ nextTFId = [f \in Fems |-> 1]
  /\ input = [f \in Fems |-> <<>>]
  /\ output = [d \in Destinations |-> 0]
  /\ sent = {} /\ lost = {}

Scan == \E id \in TFIds : VisitComplete(id) \/ VisitTimedOut(id) \/ VisitWaiting(id)

Device ==
  \/ BeginPostRun \/ DrainNothing \/ Loop
  \/ \E f \in Fems : DrainOne(f) \/ ReceiveSTF(f)
  \/ ReceiveNothing \/ Scan
  \/ \E id \in TFIds : Evict(id)
  \/ KeepAll
  \/ \E due \in BOOLEAN : Report(due)
  \/ \E pollReady \in BOOLEAN : Decimate(pollReady)
  \/ DecimatorInterrupted
  \/ SendSucceeds \/ SendBlocked \/ SendInterrupted

Environment ==
  \/ PreRun
  \/ \E f \in Fems, id \in TFIds : SendSTF(f, id)
  \/ \E d \in Destinations : Consume(d)
  \/ Tick \/ RequestStop \/ StopUpstream

Next == Device \/ Environment

Spec == Init /\ [][Next]_vars

(* The thread runs on, time passes, the consumers take what they are given,   *)
(* and the stop reaches the upstream devices.  Nothing is assumed of the       *)
(* sources, nor of the run control.                                         *)
Fairness ==
  /\ WF_vars(Device)
  /\ WF_vars(Tick)
  /\ \A d \in Destinations : WF_vars(Consume(d))
  /\ WF_vars(StopUpstream)

FairSpec == Spec /\ Fairness

(* For the end of a run nothing is assumed of the consumers or the clock.     *)
StopSpec == Spec /\ WF_vars(Device) /\ WF_vars(StopUpstream)

-----------------------------------------------------------------------------
ControlOK ==
  /\ pc \in {"ready", "loop", "receive", "scan", "report", "decimate", "decimatorBusy",
             "send", "drain"}
  /\ stopRequested \in BOOLEAN
  /\ todo \in SUBSET TFIds
  /\ outParts \in Frames \union {NoFrame}
  /\ pc \in {"decimate", "decimatorBusy", "send"} => outParts \in Frames
  /\ attempts \in 0 .. NumDestination
  /\ nrecv \in 0 .. DrainTries + 1
  /\ pc = "drain" => nrecv <= DrainTries

BufferOK ==
  /\ fTFBuffer \in [TFIds -> Seq(STFs)]
  /\ age \in [TFIds -> 0 .. BufferTimeout + 1]

SendingOK ==
  /\ fDirection \in 0 .. NumDestination
  /\ fNumSend \in Nat
  /\ output \in [Destinations -> 0 .. OutputHWM]
  /\ sent \in SUBSET Frames

MetricsOK ==
  /\ fFirstTFB \in BOOLEAN
  /\ fSuccessfulSegmentIDs \in SUBSET Fems
  /\ fLostSegmentCounts \in [Fems -> Nat]
  /\ fNumSuccessfulTFB \in Nat
  /\ fNumFailedTFB \in Nat

SourcesOK ==
  /\ run \in 0 .. MaxRuns
  /\ upstream \in BOOLEAN
  /\ upstream => run > 0
  /\ nextTFId \in [Fems -> 1 .. MaxTFId + 1]
  /\ input \in [Fems -> Seq(STFs)]

TypeOK == ControlOK /\ BufferOK /\ SendingOK /\ MetricsOK /\ SourcesOK /\ lost \in SUBSET STFs

-----------------------------------------------------------------------------
(* Every STF the device holds is in one of these places.                     *)
InInput(stf)  == stf \in Elems(input[stf.fem])
InBuffer(stf) == stf \in Elems(fTFBuffer[stf.id])
InSend(stf)   == stf \in Elems(outParts.parts)
InSent(stf)   == \E frame \in sent : stf \in Elems(frame.parts)

(* Between two scans no entry of fTFBuffer is complete, and no scan leaves    *)
(* one behind: a complete time frame never waits for another STF to arrive.  *)
NoCompleteFrameWaits ==
  \A id \in TFIds :
    /\ Len(fTFBuffer[id]) <= NumSource
    /\ Len(fTFBuffer[id]) = NumSource => pc \in {"scan", "decimate", "decimatorBusy", "send"}
                                         /\ id \in todo

(* When ConditionalRun returns, the buffer is within buffer-depth-limit,      *)
(* although the code evicts one entry only: it checks after every STF.        *)
DepthWithinLimit ==
  BufferDepthLimit > 0 /\ pc \in {"ready", "loop", "report", "drain"}
    => Cardinality(Entries) <= BufferDepthLimit

(* Completeness is decided by counting messages.  Still a time frame sent as  *)
(* TF_COMPLETE holds exactly one STF of every FEM, all of its id and of the    *)
(* same run, whatever was timed out, evicted or late before.                 *)
CompleteFramesAreWhole ==
  \A frame \in sent : frame.type = "COMPLETE" =>
    /\ FemsOf(frame.parts) = Fems /\ Len(frame.parts) = Cardinality(Fems)
    /\ \A stf \in Elems(frame.parts) : stf.id = frame.id /\ stf.run = frame.parts[1].run

(* A time frame flagged TF_INCOMPLETE does lack an STF: the timeout and the    *)
(* eviction never hit one whose last STF was received.                       *)
IncompleteFramesAreShort ==
  \A frame \in sent \union {outParts} :
    frame.type \in {"TIMEOUT", "DEPTH_LIMIT"} => Len(frame.parts) \in 1 .. NumSource - 1

(* No STF is in two places: none is sent twice, or both sent and kept or      *)
(* dropped.                                                                *)
NoSTFDuplicated ==
  \A stf \in STFs :
    /\ InInput(stf)  => ~(InBuffer(stf) \/ InSend(stf) \/ InSent(stf) \/ stf \in lost)
    /\ InBuffer(stf) => ~(InSend(stf) \/ InSent(stf) \/ stf \in lost)
    /\ InSend(stf)   => ~(InSent(stf) \/ stf \in lost)
    /\ InSent(stf)   => stf \notin lost
    /\ \A f1, f2 \in sent :
         stf \in Elems(f1.parts) /\ stf \in Elems(f2.parts) => f1 = f2

(* The published lost-segment counts and the published failures speak of the  *)
(* same time frames: no FEM is missed in more of them than have failed.       *)
LostCountsWithinFailures ==
  \A f \in Fems : fLostSegmentCounts[f] <= fNumFailedTFB

(* An incomplete time frame leaves the buffer, even if no STF comes any more   *)
(* and the consumers are slow, because the scan runs after every receive.     *)
EntriesLeave ==
  \A id \in TFIds : (fTFBuffer[id] # <<>>) ~> (fTFBuffer[id] = <<>>)

(* A stop request ends the run, wherever it finds the device, also blocked on  *)
(* a full output or on the decimated channel.                                *)
StopEndsRun == stopRequested ~> (pc = "ready")

(* While it runs the device comes back to its input again and again.          *)
KeepsReceiving == []<>(pc \in {"receive", "ready"})

-----------------------------------------------------------------------------
(* Inductive strengthenings of the invariants above.                         *)
Sending == pc \in {"decimate", "decimatorBusy", "send"}

(* The scan still has to visit every entry that is complete; what is being     *)
(* sent was taken from an entry of the right size.                           *)
ScanInv ==
  /\ pc # "scan" /\ ~Sending => todo = {}
  /\ ~Sending => outParts = NoFrame
  /\ Sending /\ outParts.type = "DEPTH_LIMIT" => todo = {}
  /\ \A id \in todo : fTFBuffer[id] # <<>>
  /\ \A id \in TFIds : /\ Len(fTFBuffer[id]) <= NumSource
                       /\ Len(fTFBuffer[id]) = NumSource => id \in todo
  /\ \A frame \in sent \union {outParts} :
       frame.type \in {"TIMEOUT", "DEPTH_LIMIT"} => Len(frame.parts) \in 1 .. NumSource - 1

(* Only the pass that received an STF can be one entry above the limit.        *)
DepthInv ==
  BufferDepthLimit > 0 =>
    /\ Cardinality(Entries) <= BufferDepthLimit + 1
    /\ pc # "scan" /\ (Sending => outParts.type = "DEPTH_LIMIT")
         => Cardinality(Entries) <= BufferDepthLimit

(* An STF that the device has or had was sent before those that come next, so  *)
(* that what comes next is new.                                              *)
Known(stf) == InInput(stf) \/ InBuffer(stf) \/ InSend(stf) \/ InSent(stf) \/ stf \in lost

KnownInv ==
  \A stf \in STFs : Known(stf) =>
    stf.run <= run /\ (stf.run = run => stf.id < nextTFId[stf.fem])

InputInv ==
  \A f \in Fems :
    /\ \A i \in 1 .. Len(input[f]) : input[f][i].fem = f /\ input[f][i].run = run
    /\ \A i, j \in 1 .. Len(input[f]) : i < j => input[f][i].id < input[f][j].id

BufferInv ==
  /\ \A id \in TFIds : \A i \in 1 .. Len(fTFBuffer[id]) :
       fTFBuffer[id][i].id = id /\ fTFBuffer[id][i].run = run
  /\ pc \in {"ready", "drain"} => \A id \in TFIds : fTFBuffer[id] = <<>>
  /\ pc = "ready" => \A f \in Fems : input[f] = <<>>

(* The STFs of a time frame are of its id, of one run and of different FEMs; a  *)
(* complete one has as many as there are sources.                            *)
OneOfEach(parts, id) ==
  /\ \A i \in 1 .. Len(parts) : parts[i].id = id /\ parts[i].run = parts[1].run
  /\ \A i, j \in 1 .. Len(parts) : i # j => parts[i].fem # parts[j].fem

FramesInv ==
  /\ \A id \in TFIds : OneOfEach(fTFBuffer[id], id)
  /\ \A frame \in sent \union {outParts} :
       /\ OneOfEach(frame.parts, frame.id)
       /\ frame.type = "COMPLETE" => Len(frame.parts) = NumSource

(* NoSTFDuplicated and CompleteFramesAreWhole follow from what an STF is known   *)
(* by, from where it came, and from what it was put together with.             *)
PlacesInv == InputInv /\ BufferInv /\ KnownInv /\ FramesInv /\ NoSTFDuplicated

(* A time frame is sent in the run of its STFs, and partial ones only if they   *)
(* are wanted.                                                              *)
SendInv ==
  /\ \A i \in 1 .. Len(outParts.parts) : outParts.parts[i].run = run
  /\ outParts.type \in {"TIMEOUT", "DEPTH_LIMIT"} => OutputIncompleteTF

-----------------------------------------------------------------------------
(* The fate of an STF, read off the state of the device.                     *)
FateOf(stf) ==
  CASE stf \in lost -> "lost"
    [] \E frame \in sent : stf \in Elems(frame.parts) /\ frame.type = "COMPLETE" -> "whole"
    [] \E frame \in sent : stf \in Elems(frame.parts) /\ frame.type # "COMPLETE" -> "partial"
    [] InInput(stf) \/ InBuffer(stf) \/ InSend(stf) -> "held"
    [] OTHER -> "upstream"

Delivery == INSTANCE SubTimeFrameDelivery
  WITH Runs <- 1 .. MaxRuns, PartialAllowed <- OutputIncompleteTF,
       fate <- [stf \in STFs |-> FateOf(stf)]

(* The device keeps the promise of SubTimeFrameDelivery: an STF it accepts is  *)
(* delivered once, with its whole time frame or in a partial one where that is *)
(* configured, or it is lost for good, and none survives its run.             *)
DeliverySpec == Delivery!Spec

=============================================================================
