----------------------- MODULE TimeFrameBuilderProofs -----------------------
(***************************************************************************)
(* Theorems about TimeFrameBuilder, for every number of FEMs, time frames,    *)
(* runs and destinations, and every setting of its options.                  *)
(*                                                                         *)
(* The first half is about the types, the scan, the depth limit and the counts    *)
(* of lost STFs.  The second half is about what becomes of an STF: it is in one    *)
(* place at a time, and the time frames that are sent as complete are whole.      *)
(* There the inductive invariant is TypeOK /\ ScanInv /\ PlacesInv.  Every step     *)
(* moves at most one group of STFs from one place to the next: a lemma for each   *)
(* kind of step says where an STF is afterwards, the lemmas Known..., Frames...    *)
(* and Once... conclude on the conjuncts of PlacesInv.                          *)
(***************************************************************************)
EXTENDS TimeFrameBuilder, FiniteSetTheorems, TLAPS

(* The elements of a sequence are in its range.                              *)
LEMMA ElemsInSet ==
  ASSUME NEW S, NEW s \in Seq(S)
  PROVE  Elems(s) \subseteq S
BY DEF Elems

(* The next destination of the round robin exists.                           *)
LEMMA DirectionInRange ==
  ASSUME fDirection \in Nat
  PROVE  Direction \in Destinations
BY ConstantsAssumption DEF Direction, Destinations, ConstantsAssumption

-----------------------------------------------------------------------------
(* The variables keep their types: in particular no destination holds more     *)
(* than its channel takes and the round robin counter never runs away.        *)
LEMMA TypeInit == Init => TypeOK
<1> SUFFICES ASSUME Init PROVE TypeOK
  OBVIOUS
<1> USE ConstantsAssumption DEF ConstantsAssumption, Init
<1>1. ControlOK
  <2>1. stopRequested \in BOOLEAN
    BY Zenon
  <2> QED BY <2>1 DEF ControlOK
<1>2. BufferOK
  BY DEF BufferOK, TFIds
<1>3. SendingOK
  BY DEF SendingOK, Destinations
<1>4. MetricsOK
  BY DEF MetricsOK
<1>5. SourcesOK
  <2>1. upstream \in BOOLEAN /\ (upstream => run > 0)
    BY Zenon
  <2>2. run \in 0 .. MaxRuns /\ nextTFId \in [Fems -> 1 .. MaxTFId + 1]
    OBVIOUS
  <2>3. input \in [Fems -> Seq(STFs)]
    OBVIOUS
  <2> QED BY <2>1, <2>2, <2>3 DEF SourcesOK
<1>6. lost \in SUBSET STFs
  OBVIOUS
<1> QED BY <1>1, <1>2, <1>3, <1>4, <1>5, <1>6 DEF TypeOK

(* A step that leaves a group of variables alone keeps its part of TypeOK.     *)
LEMMA GroupsUnchanged ==
  /\ ControlOK /\ UNCHANGED control => ControlOK'
  /\ BufferOK /\ UNCHANGED buffer => BufferOK'
  /\ SendingOK /\ UNCHANGED sending => SendingOK'
  /\ MetricsOK /\ UNCHANGED metrics => MetricsOK'
  /\ SourcesOK /\ UNCHANGED sources => SourcesOK'
<1>1. ControlOK /\ UNCHANGED control => ControlOK'
  BY DEF ControlOK, control
<1>2. BufferOK /\ UNCHANGED buffer => BufferOK'
  BY DEF BufferOK, buffer
<1>3. SendingOK /\ UNCHANGED sending => SendingOK'
  BY DEF SendingOK, sending
<1>4. MetricsOK /\ UNCHANGED metrics => MetricsOK'
  BY DEF MetricsOK, metrics
<1>5. SourcesOK /\ UNCHANGED sources => SourcesOK'
  BY DEF SourcesOK, sources
<1> QED BY <1>1, <1>2, <1>3, <1>4, <1>5

(* Shared by the proofs of the three ways in which an entry leaves the buffer. *)
LEMMA EraseEntryType ==
  ASSUME BufferOK, NEW id \in TFIds, EraseEntry(id)
  PROVE  BufferOK'
BY ConstantsAssumption DEF EraseEntry, BufferOK, ConstantsAssumption

(* An entry that is sent makes a well typed outParts.                        *)
LEMMA StartSendingType ==
  ASSUME ControlOK, BufferOK, NEW id \in TFIds, NEW type \in FrameTypes,
         StartSending(id, type), UNCHANGED <<stopRequested, nrecv>>, todo' \in SUBSET TFIds
  PROVE  ControlOK'
<1>1. outParts' \in Frames
  BY DEF StartSending, Frames, BufferOK
<1>2. attempts' \in 0 .. NumDestination /\ pc' = "decimate"
  BY ConstantsAssumption DEF StartSending, ConstantsAssumption
<1> QED BY <1>1, <1>2 DEF ControlOK

(* Giving up an entry, by timeout or by the depth limit, keeps the types.      *)
LEMMA GiveUpType ==
  ASSUME TypeOK, NEW id \in TFIds, NEW type \in {"TIMEOUT", "DEPTH_LIMIT"},
         pc = "scan", GiveUp(id, type), todo' \in SUBSET TFIds
  PROVE  TypeOK'
<1> USE DEF TypeOK
<1>1. BufferOK'
  BY EraseEntryType DEF GiveUp
<1>2. SendingOK' /\ SourcesOK'
  BY GroupsUnchanged DEF GiveUp
<1>3. MetricsOK'
  <2>1. fLostSegmentCounts' \in [Fems -> Nat]
    BY DEF GiveUp, CheckLostSegmentIDs, MetricsOK
  <2>2. fNumFailedTFB' \in Nat
    BY DEF GiveUp, MetricsOK
  <2> QED BY <2>1, <2>2 DEF GiveUp, MetricsOK
<1>4. CASE OutputIncompleteTF
  <2>1. ControlOK'
    BY <1>4, StartSendingType DEF GiveUp, FrameTypes
  <2>2. lost' \in SUBSET STFs
    BY <1>4 DEF GiveUp
  <2> QED BY <1>1, <1>2, <1>3, <2>1, <2>2
<1>5. CASE ~OutputIncompleteTF
  <2>1. ControlOK'
    BY <1>5 DEF GiveUp, ControlOK
  <2>2. lost' \in SUBSET STFs
    <3>1. Elems(fTFBuffer[id]) \subseteq STFs
      BY ElemsInSet DEF BufferOK
    <3> QED BY <1>5, <3>1 DEF GiveUp
  <2> QED BY <1>1, <1>2, <1>3, <2>1, <2>2
<1> QED BY <1>4, <1>5

(* So does the end of SendTimeFrameToEvery, whatever became of the frame.      *)
LEMMA EndSendingType ==
  ASSUME ControlOK, BufferOK, MetricsOK, SourcesOK, EndSending
  PROVE  ControlOK' /\ BufferOK' /\ MetricsOK' /\ SourcesOK'
<1>1. BufferOK' /\ SourcesOK'
  BY GroupsUnchanged DEF EndSending
<1>2. MetricsOK'
  BY DEF EndSending, MetricsOK
<1>3. ControlOK'
  <2>1. attempts' \in 0 .. NumDestination /\ outParts' = NoFrame
        /\ pc' \in {"report", "scan"} /\ UNCHANGED nrecv
    BY ConstantsAssumption DEF EndSending, ConstantsAssumption
  <2> QED BY <2>1 DEF EndSending, ControlOK
<1> QED BY <1>1, <1>2, <1>3


(* Every step keeps the types.                                              *)
LEMMA TypeNext == TypeOK /\ [Next]_vars => TypeOK'
<1> SUFFICES ASSUME TypeOK, [Next]_vars PROVE TypeOK'
  OBVIOUS
<1> USE DEF TypeOK
(* the environment *)
<1>1. ASSUME NEW f \in Fems, NEW id \in TFIds, SendSTF(f, id) PROVE TypeOK'
  <2>1. [fem |-> f, id |-> id, run |-> run] \in STFs
    BY <1>1, ConstantsAssumption DEF SendSTF, STFs, SourcesOK, ConstantsAssumption
  <2>2. input' \in [Fems -> Seq(STFs)]
    BY <1>1, <2>1 DEF SendSTF, SourcesOK
  <2>3. nextTFId' \in [Fems -> 1 .. MaxTFId + 1]
    BY <1>1, ConstantsAssumption DEF SendSTF, SourcesOK, TFIds, ConstantsAssumption
  <2>4. SourcesOK'
    BY <1>1, <2>2, <2>3 DEF SendSTF, SourcesOK
  <2> QED BY <1>1, <2>4, GroupsUnchanged DEF SendSTF
<1>2. ASSUME NEW d \in Destinations, Consume(d) PROVE TypeOK'
  <2>1. SendingOK'
    BY <1>2, ConstantsAssumption DEF Consume, SendingOK, ConstantsAssumption
  <2> QED BY <1>2, <2>1, GroupsUnchanged DEF Consume
<1>3. CASE Tick
  <2>1. BufferOK'
    BY <1>3, ConstantsAssumption DEF Tick, BufferOK, ConstantsAssumption
  <2> QED BY <1>3, <2>1, GroupsUnchanged DEF Tick
<1>4. CASE RequestStop
  <2>1. ControlOK'
    BY <1>4 DEF RequestStop, ControlOK
  <2> QED BY <1>4, <2>1, GroupsUnchanged DEF RequestStop
<1>5. CASE StopUpstream
  <2>1. SourcesOK'
    BY <1>5 DEF StopUpstream, SourcesOK
  <2> QED BY <1>5, <2>1, GroupsUnchanged DEF StopUpstream
<1>6. CASE PreRun
  <2>1. ControlOK'
    BY <1>6 DEF PreRun, ControlOK
  <2>2. SendingOK'
    BY <1>6, ConstantsAssumption DEF PreRun, SendingOK, ConstantsAssumption
  <2>3. MetricsOK'
    BY <1>6 DEF PreRun, MetricsOK
  <2>4. run' \in 0 .. MaxRuns /\ run' > 0
    BY <1>6, ConstantsAssumption DEF PreRun, SourcesOK, ConstantsAssumption
  <2>5. SourcesOK'
    BY <1>6, <2>4, ConstantsAssumption DEF PreRun, SourcesOK, ConstantsAssumption
  <2> QED BY <1>6, <2>1, <2>2, <2>3, <2>5, GroupsUnchanged DEF PreRun
(* the life cycle and the receive *)
<1>7. CASE BeginPostRun
  <2>1. ControlOK'
    BY <1>7, ConstantsAssumption DEF BeginPostRun, ControlOK, ConstantsAssumption
  <2>2. BufferOK'
    BY <1>7, ConstantsAssumption DEF BeginPostRun, BufferOK, ConstantsAssumption
  <2>3. lost' \in SUBSET STFs
    <3>1. \A id \in TFIds : Elems(fTFBuffer[id]) \subseteq STFs
      BY ElemsInSet DEF BufferOK
    <3> QED BY <1>7, <3>1 DEF BeginPostRun
  <2> QED BY <1>7, <2>1, <2>2, <2>3, GroupsUnchanged DEF BeginPostRun
<1>8. ASSUME NEW f \in Fems, DrainOne(f) PROVE TypeOK'
  <2>1. Head(input[f]) \in STFs /\ input' \in [Fems -> Seq(STFs)]
    BY <1>8 DEF DrainOne, SourcesOK
  <2>2. SourcesOK'
    BY <1>8, <2>1 DEF DrainOne, SourcesOK
  <2> QED BY <1>8, <2>1, <2>2, GroupsUnchanged DEF DrainOne
<1>9. CASE DrainNothing
  <2>1. ControlOK'
    BY <1>9, ConstantsAssumption DEF DrainNothing, ControlOK, ConstantsAssumption
  <2> QED BY <1>9, <2>1, GroupsUnchanged DEF DrainNothing
<1>10. CASE Loop
  <2>1. ControlOK'
    BY <1>10 DEF Loop, ControlOK
  <2> QED BY <1>10, <2>1, GroupsUnchanged DEF Loop
<1>11. ASSUME NEW f \in Fems, ReceiveSTF(f) PROVE TypeOK'
  <2>1. Head(input[f]) \in STFs /\ input' \in [Fems -> Seq(STFs)]
    BY <1>11 DEF ReceiveSTF, SourcesOK
  <2>2. Head(input[f]).id \in TFIds
    BY <2>1 DEF STFs
  <2>3. BufferOK'
    BY <1>11, <2>1, <2>2 DEF ReceiveSTF, BufferOK
  <2>4. ControlOK'
    BY <1>11, <2>2 DEF ReceiveSTF, ControlOK, Entries
  <2>5. SourcesOK'
    BY <1>11, <2>1 DEF ReceiveSTF, SourcesOK
  <2> QED BY <1>11, <2>3, <2>4, <2>5, GroupsUnchanged DEF ReceiveSTF
<1>12. CASE ReceiveNothing
  <2>1. ControlOK'
    BY <1>12 DEF ReceiveNothing, ControlOK, Entries
  <2> QED BY <1>12, <2>1, GroupsUnchanged DEF ReceiveNothing
(* the scan, the eviction and the report *)
<1>13. ASSUME NEW id \in TFIds, VisitComplete(id) PROVE TypeOK'
  <2>1. ControlOK'
    BY <1>13, StartSendingType DEF VisitComplete, ControlOK, FrameTypes
  <2>2. BufferOK'
    BY <1>13, EraseEntryType DEF VisitComplete
  <2>3. FemsOf(fTFBuffer[id]) \subseteq Fems
    <3>1. Elems(fTFBuffer[id]) \subseteq STFs
      BY ElemsInSet DEF BufferOK
    <3> QED BY <3>1 DEF FemsOf, STFs
  <2>4. MetricsOK'
    BY <1>13, <2>3 DEF VisitComplete, MetricsOK
  <2> QED BY <1>13, <2>1, <2>2, <2>4, GroupsUnchanged DEF VisitComplete
<1>14. ASSUME NEW id \in TFIds, VisitTimedOut(id) PROVE TypeOK'
  <2>1. todo' \in SUBSET TFIds
    BY <1>14 DEF VisitTimedOut, ControlOK
  <2> QED BY <1>14, <2>1, GiveUpType DEF VisitTimedOut
<1>15. ASSUME NEW id \in TFIds, VisitWaiting(id) PROVE TypeOK'
  <2>1. ControlOK'
    BY <1>15 DEF VisitWaiting, ControlOK
  <2> QED BY <1>15, <2>1, GroupsUnchanged DEF VisitWaiting
<1>16. ASSUME NEW id \in TFIds, Evict(id) PROVE TypeOK'
  <2>1. todo' \in SUBSET TFIds
    BY <1>16 DEF Evict, ControlOK
  <2> QED BY <1>16, <2>1, GiveUpType DEF Evict
<1>17. CASE KeepAll
  <2>1. ControlOK'
    BY <1>17 DEF KeepAll, ControlOK
  <2> QED BY <1>17, <2>1, GroupsUnchanged DEF KeepAll
<1>18. ASSUME NEW due \in BOOLEAN, Report(due) PROVE TypeOK'
  <2>1. ControlOK'
    BY <1>18 DEF Report, ControlOK
  <2>2. MetricsOK'
    BY <1>18 DEF Report, MetricsOK
  <2> QED BY <1>18, <2>1, <2>2, GroupsUnchanged DEF Report
(* the sending *)
<1>19. ASSUME NEW pollReady \in BOOLEAN, Decimate(pollReady) PROVE TypeOK'
  <2>1. ControlOK'
    BY <1>19 DEF Decimate, ControlOK
  <2> QED BY <1>19, <2>1, GroupsUnchanged DEF Decimate
<1>20. CASE DecimatorInterrupted
  <2>1. ControlOK'
    BY <1>20 DEF DecimatorInterrupted, ControlOK
  <2> QED BY <1>20, <2>1, GroupsUnchanged DEF DecimatorInterrupted
<1>21. CASE SendSucceeds
  <2>1. SendingOK'
    <3>1. Direction \in Destinations
      BY DirectionInRange DEF SendingOK
    <3>2. output' \in [Destinations -> 0 .. OutputHWM]
      BY <1>21, <3>1, ConstantsAssumption DEF SendSucceeds, SendingOK, ConstantsAssumption
    <3>3. fDirection' \in 0 .. NumDestination
      BY <1>21, <3>1, ConstantsAssumption DEF SendSucceeds, Destinations, ConstantsAssumption
    <3>4. sent' \in SUBSET Frames
      BY <1>21 DEF SendSucceeds, SendingOK, ControlOK
    <3> QED BY <1>21, <3>2, <3>3, <3>4 DEF SendSucceeds, SendingOK
  <2>2. ControlOK' /\ BufferOK' /\ MetricsOK' /\ SourcesOK'
    BY <1>21, EndSendingType DEF SendSucceeds
  <2> QED BY <1>21, <2>1, <2>2 DEF SendSucceeds
<1>22. CASE SendBlocked
  <2>1. SendingOK'
    <3>1. Direction \in Destinations
      BY DirectionInRange DEF SendingOK
    <3>2. fDirection' \in 0 .. NumDestination
      BY <1>22, <3>1, ConstantsAssumption DEF SendBlocked, Destinations, ConstantsAssumption
    <3> QED BY <1>22, <3>2 DEF SendBlocked, SendingOK
  <2>2. Elems(outParts.parts) \subseteq STFs
    BY <1>22, ElemsInSet DEF SendBlocked, ControlOK, Frames
  <2>3. CASE DiscardOutput /\ attempts + 1 >= NumDestination
    <3>1. ControlOK' /\ BufferOK' /\ MetricsOK' /\ SourcesOK'
      BY <1>22, <2>3, EndSendingType DEF SendBlocked
    <3> QED BY <1>22, <2>1, <2>2, <2>3, <3>1 DEF SendBlocked
  <2>4. CASE ~(DiscardOutput /\ attempts + 1 >= NumDestination)
    <3>1. attempts' \in 0 .. NumDestination
      BY <1>22, <2>4, ConstantsAssumption DEF SendBlocked, ControlOK, ConstantsAssumption
    <3>2. ControlOK'
      BY <1>22, <2>4, <3>1 DEF SendBlocked, ControlOK
    <3> QED BY <1>22, <2>1, <2>4, <3>2, GroupsUnchanged DEF SendBlocked
  <2> QED BY <2>3, <2>4
<1>23. CASE SendInterrupted
  <2>1. Elems(outParts.parts) \subseteq STFs
    BY <1>23, ElemsInSet DEF SendInterrupted, ControlOK, Frames
  <2>2. ControlOK' /\ BufferOK' /\ MetricsOK' /\ SourcesOK'
    BY <1>23, EndSendingType DEF SendInterrupted
  <2> QED BY <1>23, <2>1, <2>2, GroupsUnchanged DEF SendInterrupted
<1>24. CASE UNCHANGED vars
  <2>1. lost' = lost /\ UNCHANGED <<control, buffer, sending, metrics, sources>>
    BY <1>24 DEF vars
  <2> QED BY <2>1, GroupsUnchanged
<1> QED
  BY <1>1, <1>2, <1>3, <1>4, <1>5, <1>6, <1>7, <1>8, <1>9, <1>10, <1>11, <1>12, <1>13,
     <1>14, <1>15, <1>16, <1>17, <1>18, <1>19, <1>20, <1>21, <1>22, <1>23, <1>24
  DEF Next, Environment, Device, Scan

(* Every variable keeps its type: no destination is given more than its        *)
(* channel takes, no time frame in the making holds anything but STFs, and     *)
(* the round robin counter stays in range.                                  *)
THEOREM TypeCorrect == Spec => []TypeOK
BY TypeInit, TypeNext, PTL DEF Spec

-----------------------------------------------------------------------------
(* The scan: an entry is in todo as long as it may be complete.               *)

(* The buffer is empty at the start and nothing is being sent.                *)
LEMMA ScanInit == Init => ScanInv
<1> SUFFICES ASSUME Init PROVE ScanInv
  OBVIOUS
<1> USE ConstantsAssumption DEF ConstantsAssumption, Init
<1>1. \A id \in TFIds : Len(fTFBuffer[id]) <= NumSource /\ Len(fTFBuffer[id]) # NumSource
  OBVIOUS
<1> QED BY <1>1 DEF ScanInv, Sending, NoFrame

(* A step that leaves control, buffer and sent frames alone keeps ScanInv; it   *)
(* may request the stop and let the entries age.                             *)
LEMMA ScanUnchanged ==
  ASSUME ScanInv, UNCHANGED <<pc, todo, outParts, fTFBuffer, sent>>
  PROVE  ScanInv'
BY DEF ScanInv, Sending

(* What the conjuncts of ScanInv ask for after a step, one by one.             *)
LEMMA ScanStep ==
  ASSUME pc' # "scan" /\ ~Sending' => todo' = {},
         ~Sending' => outParts' = NoFrame,
         Sending' /\ outParts'.type = "DEPTH_LIMIT" => todo' = {},
         \A id \in todo' : fTFBuffer'[id] # <<>>,
         \A id \in TFIds : /\ Len(fTFBuffer'[id]) <= NumSource
                           /\ Len(fTFBuffer'[id]) = NumSource => id \in todo',
         \A frame \in sent' \union {outParts'} :
           frame.type \in {"TIMEOUT", "DEPTH_LIMIT"} => Len(frame.parts) \in 1 .. NumSource - 1
  PROVE  ScanInv'
BY DEF ScanInv

(* An incomplete entry that is given up was neither complete nor empty.        *)
LEMMA ScanGiveUp ==
  ASSUME TypeOK, ScanInv, NEW id \in TFIds, NEW type \in {"TIMEOUT", "DEPTH_LIMIT"},
         pc = "scan", fTFBuffer[id] # <<>>, Len(fTFBuffer[id]) # NumSource,
         GiveUp(id, type), todo' = todo \ {id}, type = "DEPTH_LIMIT" => todo = {}
  PROVE  ScanInv'
<1> USE DEF TypeOK
<1>1. fTFBuffer' = [fTFBuffer EXCEPT ![id] = <<>>] /\ sent' = sent
  BY DEF GiveUp, EraseEntry, sending
<1>2. Len(fTFBuffer[id]) \in 1 .. NumSource - 1
  BY ConstantsAssumption DEF ScanInv, BufferOK, ConstantsAssumption
<1>3. \A i \in todo' : fTFBuffer'[i] # <<>>
  BY <1>1 DEF ScanInv, BufferOK, ControlOK
<1>4. \A i \in TFIds : /\ Len(fTFBuffer'[i]) <= NumSource
                       /\ Len(fTFBuffer'[i]) = NumSource => i \in todo'
  BY <1>1, ConstantsAssumption DEF ScanInv, BufferOK, ConstantsAssumption
<1>5. CASE OutputIncompleteTF
  <2>1. outParts' = [id |-> id, type |-> type, parts |-> fTFBuffer[id]] /\ pc' = "decimate"
    BY <1>5 DEF GiveUp, StartSending
  <2>2. \A frame \in sent' \union {outParts'} :
          frame.type \in {"TIMEOUT", "DEPTH_LIMIT"} => Len(frame.parts) \in 1 .. NumSource - 1
    BY <1>1, <1>2, <2>1 DEF ScanInv
  <2>3. Sending'
    BY <2>1 DEF Sending
  <2>4. outParts'.type = "DEPTH_LIMIT" => todo' = {}
    BY <2>1
  <2> QED BY <1>3, <1>4, <2>2, <2>3, <2>4, ScanStep
<1>6. CASE ~OutputIncompleteTF
  <2>1. outParts' = outParts /\ pc' \in {"scan", "report"}
        /\ (pc' = "report" => type = "DEPTH_LIMIT")
    BY <1>6 DEF GiveUp
  <2>2. ~Sending' /\ (pc' # "scan" => todo' = {})
    BY <2>1 DEF Sending
  <2>3. outParts' = NoFrame
    BY <2>1 DEF ScanInv, Sending
  <2>4. \A frame \in sent' \union {outParts'} :
          frame.type \in {"TIMEOUT", "DEPTH_LIMIT"} => Len(frame.parts) \in 1 .. NumSource - 1
    BY <1>1, <2>1 DEF ScanInv
  <2> QED BY <1>3, <1>4, <2>2, <2>3, <2>4, ScanStep
<1> QED BY <1>5, <1>6

(* The scan goes on where the send interrupted it.                          *)
LEMMA ScanEndSending ==
  ASSUME TypeOK, ScanInv, pc = "send", EndSending, sent' \subseteq sent \union {outParts}
  PROVE  ScanInv'
<1>1. fTFBuffer' = fTFBuffer /\ todo' = todo /\ outParts' = NoFrame
  BY DEF EndSending, buffer
<1>2. pc' = IF outParts.type = "DEPTH_LIMIT" THEN "report" ELSE "scan"
  BY DEF EndSending
<1> QED BY <1>1, <1>2 DEF ScanInv, Sending, NoFrame

(* Every step keeps ScanInv.                                                *)
LEMMA ScanNext == TypeOK /\ ScanInv /\ [Next]_vars => ScanInv'
<1> SUFFICES ASSUME TypeOK, ScanInv, [Next]_vars PROVE ScanInv'
  OBVIOUS
<1>1. ASSUME NEW f \in Fems, NEW id \in TFIds, SendSTF(f, id) PROVE ScanInv'
  BY <1>1, ScanUnchanged DEF SendSTF, control, buffer, sending
<1>2. ASSUME NEW d \in Destinations, Consume(d) PROVE ScanInv'
  BY <1>2, ScanUnchanged DEF Consume, control, buffer
<1>3. CASE Tick
  BY <1>3, ScanUnchanged DEF Tick, control, sending
<1>4. CASE RequestStop
  BY <1>4, ScanUnchanged DEF RequestStop, buffer, sending
<1>5. CASE StopUpstream
  BY <1>5, ScanUnchanged DEF StopUpstream, control, buffer, sending
<1>6. CASE PreRun
  BY <1>6 DEF PreRun, ScanInv, Sending, buffer
<1>7. CASE BeginPostRun
  <2>1. \A id \in TFIds : /\ Len(fTFBuffer'[id]) <= NumSource
                          /\ Len(fTFBuffer'[id]) # NumSource
    BY <1>7, ConstantsAssumption DEF BeginPostRun, ConstantsAssumption
  <2> QED BY <1>7, <2>1 DEF BeginPostRun, ScanInv, Sending, sending
<1>8. ASSUME NEW f \in Fems, DrainOne(f) PROVE ScanInv'
  BY <1>8, ScanUnchanged DEF DrainOne, control, buffer, sending
<1>9. CASE DrainNothing
  BY <1>9 DEF DrainNothing, ScanInv, Sending, buffer, sending
<1>10. CASE Loop
  BY <1>10 DEF Loop, ScanInv, Sending, buffer, sending
<1>11. ASSUME NEW f \in Fems, ReceiveSTF(f) PROVE ScanInv'
  <2> DEFINE stf == Head(input[f])
  <2>1. stf \in STFs /\ stf.id \in TFIds
    <3>1. input[f] \in Seq(STFs) /\ input[f] # <<>>
      BY <1>11 DEF ReceiveSTF, TypeOK, SourcesOK
    <3>2. stf \in STFs
      BY <3>1
    <3> QED BY <3>2 DEF STFs
  <2>2. todo = {} /\ outParts = NoFrame
    BY <1>11 DEF ReceiveSTF, ScanInv, Sending
  <2>3. \A id \in TFIds : Len(fTFBuffer[id]) < NumSource
    BY <2>2, ConstantsAssumption DEF ScanInv, TypeOK, BufferOK, ConstantsAssumption
  <2>4. fTFBuffer' = [fTFBuffer EXCEPT ![stf.id] = Append(@, stf)]
        /\ todo' = Entries \union {stf.id}
    BY <1>11 DEF ReceiveSTF
  <2>5. fTFBuffer'[stf.id] # <<>> /\ Len(fTFBuffer'[stf.id]) <= NumSource
    <3> HIDE DEF stf
    <3>1. fTFBuffer[stf.id] \in Seq(STFs)
      BY <2>1 DEF TypeOK, BufferOK
    <3>2. fTFBuffer'[stf.id] = Append(fTFBuffer[stf.id], stf)
      BY <2>1, <2>4 DEF TypeOK, BufferOK
    <3>3. Len(fTFBuffer[stf.id]) < NumSource
      BY <2>1, <2>3
    <3>4. Len(Append(fTFBuffer[stf.id], stf)) = Len(fTFBuffer[stf.id]) + 1
      BY <2>1, <3>1
    <3>5. Len(fTFBuffer[stf.id]) \in Nat
      BY <3>1
    <3>6. Append(fTFBuffer[stf.id], stf) # <<>>
      BY <2>1, <3>1, SMTT(30)
    <3>7. Len(fTFBuffer[stf.id]) + 1 <= NumSource
      BY <3>3, <3>5, ConstantsAssumption DEF ConstantsAssumption
    <3> QED BY <3>2, <3>4, <3>6, <3>7, Zenon
  <2>6. \A id \in TFIds : id # stf.id => fTFBuffer'[id] = fTFBuffer[id]
    BY <2>4 DEF TypeOK, BufferOK
  <2>7. \A id \in todo' : fTFBuffer'[id] # <<>>
    BY <2>1, <2>4, <2>5, <2>6 DEF Entries
  <2>8. \A id \in TFIds : /\ Len(fTFBuffer'[id]) <= NumSource
                          /\ Len(fTFBuffer'[id]) = NumSource => id \in todo'
    BY <2>3, <2>4, <2>5, <2>6, ConstantsAssumption DEF TypeOK, BufferOK, ConstantsAssumption
  <2> QED BY <1>11, <2>2, <2>7, <2>8 DEF ReceiveSTF, ScanInv, Sending, sending
<1>12. CASE ReceiveNothing
  <2>1. todo = {} /\ outParts = NoFrame
    BY <1>12 DEF ReceiveNothing, ScanInv, Sending
  <2> QED BY <1>12, <2>1 DEF ReceiveNothing, ScanInv, Sending, Entries, buffer, sending
<1>13. ASSUME NEW id \in TFIds, VisitComplete(id) PROVE ScanInv'
  <2>1. fTFBuffer' = [fTFBuffer EXCEPT ![id] = <<>>] /\ sent' = sent
        /\ todo' = todo \ {id} /\ pc' = "decimate"
    BY <1>13 DEF VisitComplete, EraseEntry, StartSending, sending
  <2>2. outParts'.type = "COMPLETE"
    BY <1>13 DEF VisitComplete, StartSending
  <2>3. \A i \in todo' : fTFBuffer'[i] # <<>>
    BY <2>1 DEF ScanInv, TypeOK, BufferOK, ControlOK
  <2>4. \A i \in TFIds : /\ Len(fTFBuffer'[i]) <= NumSource
                         /\ Len(fTFBuffer'[i]) = NumSource => i \in todo'
    BY <2>1, ConstantsAssumption DEF ScanInv, TypeOK, BufferOK, ConstantsAssumption
  <2> QED BY <2>1, <2>2, <2>3, <2>4 DEF ScanInv, Sending
<1>14. ASSUME NEW id \in TFIds, VisitTimedOut(id) PROVE ScanInv'
  <2>1. fTFBuffer[id] # <<>>
    BY <1>14 DEF VisitTimedOut, ScanInv
  <2> QED BY <1>14, <2>1, ScanGiveUp DEF VisitTimedOut
<1>15. ASSUME NEW id \in TFIds, VisitWaiting(id) PROVE ScanInv'
  BY <1>15 DEF VisitWaiting, ScanInv, Sending, buffer, sending
<1>16. ASSUME NEW id \in TFIds, Evict(id) PROVE ScanInv'
  <2>1. fTFBuffer[id] # <<>> /\ Len(fTFBuffer[id]) # NumSource
    BY <1>16 DEF Evict, Entries, ScanInv
  <2> QED BY <1>16, <2>1, ScanGiveUp DEF Evict
<1>17. CASE KeepAll
  BY <1>17 DEF KeepAll, ScanInv, Sending, buffer, sending
<1>18. ASSUME NEW due \in BOOLEAN, Report(due) PROVE ScanInv'
  BY <1>18 DEF Report, ScanInv, Sending, buffer, sending
<1>19. ASSUME NEW pollReady \in BOOLEAN, Decimate(pollReady) PROVE ScanInv'
  BY <1>19 DEF Decimate, ScanInv, Sending, buffer, sending
<1>20. CASE DecimatorInterrupted
  BY <1>20 DEF DecimatorInterrupted, ScanInv, Sending, buffer, sending
<1>21. CASE SendSucceeds
  BY <1>21, ScanEndSending DEF SendSucceeds
<1>22. CASE SendBlocked
  <2>1. CASE DiscardOutput /\ attempts + 1 >= NumDestination
    BY <1>22, <2>1, ScanEndSending DEF SendBlocked
  <2>2. CASE ~(DiscardOutput /\ attempts + 1 >= NumDestination)
    BY <1>22, <2>2, ScanUnchanged DEF SendBlocked, buffer
  <2> QED BY <2>1, <2>2
<1>23. CASE SendInterrupted
  BY <1>23, ScanEndSending DEF SendInterrupted, sending
<1>24. CASE UNCHANGED vars
  BY <1>24, ScanUnchanged DEF vars, control, buffer, sending
<1> QED
  BY <1>1, <1>2, <1>3, <1>4, <1>5, <1>6, <1>7, <1>8, <1>9, <1>10, <1>11, <1>12, <1>13,
     <1>14, <1>15, <1>16, <1>17, <1>18, <1>19, <1>20, <1>21, <1>22, <1>23, <1>24
  DEF Next, Environment, Device, Scan

(* ScanInv, the inductive strengthening of the two properties below.           *)
THEOREM ScanCorrect == Spec => []ScanInv
BY TypeCorrect, ScanInit, ScanNext, PTL DEF Spec

(* No complete time frame is left in the buffer by a scan: it is sent in the    *)
(* very pass that received its last STF, before its timeout is looked at.     *)
THEOREM CompleteNeverWaits == Spec => []NoCompleteFrameWaits
<1>1. ScanInv /\ TypeOK => NoCompleteFrameWaits
  BY DEF ScanInv, NoCompleteFrameWaits, Sending
<1> QED BY <1>1, ScanCorrect, TypeCorrect, PTL

(* A time frame flagged TF_INCOMPLETE lacks an STF and is not empty.           *)
THEOREM IncompleteAreShort == Spec => []IncompleteFramesAreShort
<1>1. ScanInv => IncompleteFramesAreShort
  BY DEF ScanInv, IncompleteFramesAreShort
<1> QED BY <1>1, ScanCorrect, PTL

-----------------------------------------------------------------------------
(* The depth of the buffer: one eviction per pass is enough.                  *)

(* A set of time frame ids has a number of elements.                          *)
LEMMA CountIsNat ==
  ASSUME NEW S \in SUBSET TFIds
  PROVE  IsFiniteSet(S) /\ Cardinality(S) \in Nat
<1>1. IsFiniteSet(TFIds)
  BY ConstantsAssumption, FS_Interval DEF ConstantsAssumption, TFIds
<1> QED BY <1>1, FS_Subset, FS_CardinalityType

(* The buffer is empty at the start.                                         *)
LEMMA DepthInit == Init => DepthInv
<1> SUFFICES ASSUME Init PROVE DepthInv
  OBVIOUS
<1>1. Entries = {}
  BY DEF Init, Entries
<1>2. Cardinality(Entries) = 0
  BY <1>1, FS_EmptySet
<1> QED BY <1>2, ConstantsAssumption DEF DepthInv, ConstantsAssumption

(* A step that leaves the buffer alone keeps DepthInv, unless it leaves the      *)
(* scan.                                                                   *)
LEMMA DepthUnchanged ==
  ASSUME DepthInv, UNCHANGED fTFBuffer,
         pc' # "scan" /\ (Sending' => outParts'.type = "DEPTH_LIMIT")
           => pc # "scan" /\ (Sending => outParts.type = "DEPTH_LIMIT")
  PROVE  DepthInv'
<1>1. Entries' = Entries
  BY DEF Entries
<1> QED BY <1>1 DEF DepthInv

(* When an entry is erased there is one less.                                *)
LEMMA DepthErased ==
  ASSUME TypeOK, NEW id \in TFIds, fTFBuffer[id] # <<>>, EraseEntry(id)
  PROVE  Cardinality(Entries') = Cardinality(Entries) - 1
<1>1. Entries' = Entries \ {id} /\ id \in Entries
  BY DEF EraseEntry, Entries, TypeOK, BufferOK
<1>2. IsFiniteSet(Entries)
  BY CountIsNat DEF Entries
<1> QED BY <1>1, <1>2, FS_RemoveElement

(* DepthInv after a step that leaves one entry less than before.               *)
LEMMA DepthLess ==
  ASSUME DepthInv, Cardinality(Entries') = Cardinality(Entries) - 1
  PROVE  DepthInv'
<1>1. Cardinality(Entries) \in Nat
  BY CountIsNat DEF Entries
<1> QED BY <1>1, ConstantsAssumption DEF DepthInv, ConstantsAssumption

(* When a send ends the scan goes on, or an eviction has made room.            *)
LEMMA DepthEndSending ==
  ASSUME DepthInv, pc = "send", EndSending
  PROVE  DepthInv'
<1>1. UNCHANGED fTFBuffer
  BY DEF EndSending, buffer
<1>2. pc' # "scan" => outParts.type = "DEPTH_LIMIT"
  BY DEF EndSending
<1> QED BY <1>1, <1>2, DepthUnchanged DEF Sending

(* Every step keeps DepthInv: an STF can make one entry more only where the     *)
(* buffer is within its limit, and the pass does not end before it is again.    *)
LEMMA DepthNext == TypeOK /\ ScanInv /\ DepthInv /\ [Next]_vars => DepthInv'
<1> SUFFICES ASSUME TypeOK, ScanInv, DepthInv, [Next]_vars PROVE DepthInv'
  OBVIOUS
<1>1. ASSUME NEW f \in Fems, NEW id \in TFIds, SendSTF(f, id) PROVE DepthInv'
  BY <1>1, DepthUnchanged DEF SendSTF, control, buffer, Sending
<1>2. ASSUME NEW d \in Destinations, Consume(d) PROVE DepthInv'
  BY <1>2, DepthUnchanged DEF Consume, control, buffer, Sending
<1>3. CASE Tick
  BY <1>3, DepthUnchanged DEF Tick, control, Sending
<1>4. CASE RequestStop
  BY <1>4, DepthUnchanged DEF RequestStop, buffer, Sending
<1>5. CASE StopUpstream
  BY <1>5, DepthUnchanged DEF StopUpstream, control, buffer, Sending
<1>6. CASE PreRun
  BY <1>6, DepthUnchanged DEF PreRun, buffer, Sending
<1>7. CASE BeginPostRun
  <2>1. Entries' = {}
    BY <1>7 DEF BeginPostRun, Entries
  <2>2. Cardinality(Entries') = 0
    BY <2>1, FS_EmptySet
  <2> QED BY <2>2, ConstantsAssumption DEF DepthInv, ConstantsAssumption
<1>8. ASSUME NEW f \in Fems, DrainOne(f) PROVE DepthInv'
  BY <1>8, DepthUnchanged DEF DrainOne, control, buffer, Sending
<1>9. CASE DrainNothing
  BY <1>9, DepthUnchanged DEF DrainNothing, buffer, Sending
<1>10. CASE Loop
  BY <1>10, DepthUnchanged DEF Loop, buffer, Sending
<1>11. ASSUME NEW f \in Fems, ReceiveSTF(f) PROVE DepthInv'
  <2>1. PICK id : Entries' \subseteq Entries \union {id}
    BY <1>11 DEF ReceiveSTF, Entries, TypeOK, BufferOK
  <2>2. IsFiniteSet(Entries) /\ Cardinality(Entries) \in Nat /\ Cardinality(Entries') \in Nat
    BY CountIsNat DEF Entries
  <2>3. Cardinality(Entries') <= Cardinality(Entries) + 1
    <3>1. /\ IsFiniteSet(Entries \union {id})
          /\ Cardinality(Entries \union {id}) \in {Cardinality(Entries), Cardinality(Entries) + 1}
      BY <2>2, FS_AddElement
    <3>2. Cardinality(Entries') <= Cardinality(Entries \union {id})
      BY <2>1, <3>1, FS_Subset
    <3> QED BY <2>2, <3>1, <3>2
  <2>4. pc = "receive" /\ pc' = "scan"
    BY <1>11 DEF ReceiveSTF
  <2>5. BufferDepthLimit > 0 => Cardinality(Entries) <= BufferDepthLimit
    BY <2>4 DEF DepthInv, Sending
  <2> QED BY <2>2, <2>3, <2>4, <2>5, ConstantsAssumption DEF DepthInv, ConstantsAssumption
<1>12. CASE ReceiveNothing
  BY <1>12, DepthUnchanged DEF ReceiveNothing, buffer, Sending
<1>13. ASSUME NEW id \in TFIds, VisitComplete(id) PROVE DepthInv'
  BY <1>13, DepthErased, DepthLess DEF VisitComplete, ScanInv
<1>14. ASSUME NEW id \in TFIds, VisitTimedOut(id) PROVE DepthInv'
  BY <1>14, DepthErased, DepthLess DEF VisitTimedOut, GiveUp, ScanInv
<1>15. ASSUME NEW id \in TFIds, VisitWaiting(id) PROVE DepthInv'
  BY <1>15, DepthUnchanged DEF VisitWaiting, buffer, Sending
<1>16. ASSUME NEW id \in TFIds, Evict(id) PROVE DepthInv'
  BY <1>16, DepthErased, DepthLess DEF Evict, GiveUp, Entries
<1>17. CASE KeepAll
  <2>1. Entries' = Entries
    BY <1>17 DEF KeepAll, Entries, buffer
  <2>2. BufferDepthLimit > 0 => Cardinality(Entries) <= BufferDepthLimit
    <3>1. Cardinality(Entries) \in Nat
      BY CountIsNat DEF Entries
    <3> QED BY <1>17, <3>1, ConstantsAssumption DEF KeepAll, DepthExceeded, ConstantsAssumption
  <2> QED BY <2>1, <2>2 DEF DepthInv
<1>18. ASSUME NEW due \in BOOLEAN, Report(due) PROVE DepthInv'
  BY <1>18, DepthUnchanged DEF Report, buffer, Sending
<1>19. ASSUME NEW pollReady \in BOOLEAN, Decimate(pollReady) PROVE DepthInv'
  BY <1>19, DepthUnchanged DEF Decimate, buffer, Sending
<1>20. CASE DecimatorInterrupted
  BY <1>20, DepthUnchanged DEF DecimatorInterrupted, buffer, Sending
<1>21. CASE SendSucceeds
  BY <1>21, DepthEndSending DEF SendSucceeds
<1>22. CASE SendBlocked
  <2>1. CASE DiscardOutput /\ attempts + 1 >= NumDestination
    BY <1>22, <2>1, DepthEndSending DEF SendBlocked
  <2>2. CASE ~(DiscardOutput /\ attempts + 1 >= NumDestination)
    BY <1>22, <2>2, DepthUnchanged DEF SendBlocked, buffer, Sending
  <2> QED BY <2>1, <2>2
<1>23. CASE SendInterrupted
  BY <1>23, DepthEndSending DEF SendInterrupted
<1>24. CASE UNCHANGED vars
  BY <1>24, DepthUnchanged DEF vars, control, buffer, Sending
<1> QED
  BY <1>1, <1>2, <1>3, <1>4, <1>5, <1>6, <1>7, <1>8, <1>9, <1>10, <1>11, <1>12, <1>13,
     <1>14, <1>15, <1>16, <1>17, <1>18, <1>19, <1>20, <1>21, <1>22, <1>23, <1>24
  DEF Next, Environment, Device, Scan

(* Whenever ConditionalRun returns, the buffer is within buffer-depth-limit:     *)
(* it takes one STF per pass and evicts one entry, however long the sends take.  *)
THEOREM DepthKept == Spec => []DepthWithinLimit
<1>1. DepthInv => DepthWithinLimit
  BY DEF DepthInv, DepthWithinLimit, Sending
<1> QED BY <1>1, DepthInit, DepthNext, TypeCorrect, ScanCorrect, PTL DEF Spec

-----------------------------------------------------------------------------
(* What leaves the two counters alone keeps the relation between them.            *)
LEMMA LostUnchanged ==
  ASSUME LostCountsWithinFailures, UNCHANGED <<fLostSegmentCounts, fNumFailedTFB>>
  PROVE  LostCountsWithinFailures'
BY DEF LostCountsWithinFailures

(* A frame that is given up counts once as a failure, and at most once for each FEM. *)
LEMMA LostGiveUp ==
  ASSUME TypeOK, LostCountsWithinFailures, NEW id, NEW type, GiveUp(id, type)
  PROVE  LostCountsWithinFailures'
<1>1. fLostSegmentCounts \in [Fems -> Nat] /\ fNumFailedTFB \in Nat
  BY DEF TypeOK, MetricsOK
<1>2. /\ fNumFailedTFB' = fNumFailedTFB + 1
      /\ \A f \in Fems : fLostSegmentCounts'[f] \in {fLostSegmentCounts[f], fLostSegmentCounts[f] + 1}
  BY DEF GiveUp, CheckLostSegmentIDs
<1> QED BY <1>1, <1>2 DEF LostCountsWithinFailures

(* No step counts a missing FEM without the failure; PreRun and the report reset both. *)
LEMMA LostNext == TypeOK /\ LostCountsWithinFailures /\ [Next]_vars => LostCountsWithinFailures'
<1> SUFFICES ASSUME TypeOK, LostCountsWithinFailures, [Next]_vars PROVE LostCountsWithinFailures'
  OBVIOUS
<1>1. CASE Environment
  <2>1. CASE PreRun
    BY <2>1 DEF PreRun, LostCountsWithinFailures
  <2>2. CASE ~PreRun
    BY <1>1, <2>2, LostUnchanged
       DEF Environment, SendSTF, Consume, Tick, RequestStop, StopUpstream, metrics
  <2> QED BY <2>1, <2>2
<1>2. ASSUME NEW due \in BOOLEAN, Report(due) PROVE LostCountsWithinFailures'
  <2>1. CASE due
    BY <1>2, <2>1 DEF Report, LostCountsWithinFailures
  <2>2. CASE ~due
    BY <1>2, <2>2, LostUnchanged DEF Report
  <2> QED BY <2>1, <2>2
<1>3. ASSUME NEW id \in TFIds, VisitTimedOut(id) \/ Evict(id) PROVE LostCountsWithinFailures'
  BY <1>3, LostGiveUp DEF VisitTimedOut, Evict
<1>4. ASSUME NEW id \in TFIds, VisitComplete(id) \/ VisitWaiting(id) PROVE LostCountsWithinFailures'
  BY <1>4, LostUnchanged DEF VisitComplete, VisitWaiting, metrics
<1>5. ASSUME NEW f \in Fems, DrainOne(f) \/ ReceiveSTF(f) PROVE LostCountsWithinFailures'
  BY <1>5, LostUnchanged DEF DrainOne, ReceiveSTF, metrics
<1>6. CASE SendSucceeds \/ SendBlocked \/ SendInterrupted
  BY <1>6, LostUnchanged DEF SendSucceeds, SendBlocked, SendInterrupted, EndSending, metrics
<1>7. ASSUME NEW pollReady \in BOOLEAN, Decimate(pollReady) PROVE LostCountsWithinFailures'
  BY <1>7, LostUnchanged DEF Decimate, metrics
<1>8. CASE \/ BeginPostRun \/ DrainNothing \/ Loop \/ ReceiveNothing \/ KeepAll
           \/ DecimatorInterrupted \/ UNCHANGED vars
  BY <1>8, LostUnchanged DEF BeginPostRun, DrainNothing, Loop, ReceiveNothing, KeepAll,
                             DecimatorInterrupted, vars, metrics
<1> QED BY <1>1, <1>2, <1>3, <1>4, <1>5, <1>6, <1>7, <1>8 DEF Next, Device, Scan

(* The report resets both: no FEM is ever published as missed in more time frames than have failed. *)
THEOREM LostWithinFailures == Spec => []LostCountsWithinFailures
<1>1. Init => LostCountsWithinFailures
  BY DEF Init, LostCountsWithinFailures
<1> QED BY <1>1, LostNext, TypeCorrect, PTL DEF Spec

-----------------------------------------------------------------------------
(* Elems and the operations on sequences.                                    *)

(* What is appended is an element, and nothing else becomes one.               *)
LEMMA ElemsAppend ==
  ASSUME NEW S, NEW s \in Seq(S), NEW e \in S
  PROVE  Elems(Append(s, e)) = Elems(s) \union {e}
<1>1. Len(Append(s, e)) = Len(s) + 1 /\ Len(s) \in Nat
  OBVIOUS
<1>2. \A i \in 1 .. Len(s) : Append(s, e)[i] = s[i]
  OBVIOUS
<1>3. Append(s, e)[Len(s) + 1] = e
  OBVIOUS
<1> QED BY <1>1, <1>2, <1>3 DEF Elems

(* The elements are the first one and those of the rest.                      *)
LEMMA ElemsTail ==
  ASSUME NEW S, NEW s \in Seq(S), s # <<>>
  PROVE  Elems(s) = Elems(Tail(s)) \union {Head(s)}
<1>1. Len(s) \in Nat \ {0} /\ Len(Tail(s)) = Len(s) - 1 /\ Head(s) = s[1]
  OBVIOUS
<1>2. \A i \in 1 .. Len(s) - 1 : Tail(s)[i] = s[i + 1]
  OBVIOUS
<1>3. \A x \in Elems(s) : x \in Elems(Tail(s)) \union {Head(s)}
  <2> SUFFICES ASSUME NEW i \in 1 .. Len(s), s[i] # s[1] PROVE s[i] \in Elems(Tail(s))
    BY <1>1 DEF Elems
  <2>1. i - 1 \in 1 .. Len(Tail(s)) /\ Tail(s)[i - 1] = s[i]
    BY <1>1, <1>2
  <2> QED BY <2>1 DEF Elems
<1>4. \A x \in Elems(Tail(s)) : x \in Elems(s)
  <2> SUFFICES ASSUME NEW i \in 1 .. Len(Tail(s)) PROVE Tail(s)[i] \in Elems(s)
    BY DEF Elems
  <2>1. i + 1 \in 1 .. Len(s) /\ Tail(s)[i] = s[i + 1]
    BY <1>1, <1>2
  <2> QED BY <2>1 DEF Elems
<1>5. Head(s) \in Elems(s)
  BY <1>1 DEF Elems
<1> QED BY <1>3, <1>4, <1>5

(* Nothing is in an empty sequence.                                          *)
LEMMA NothingInEmpty == Elems(<<>>) = {} /\ \A id : OneOfEach(<<>>, id)
BY DEF Elems, OneOfEach

(* The first STF of an input channel is not there a second time.               *)
LEMMA HeadNotInTail ==
  ASSUME TypeOK, InputInv, NEW f \in Fems, input[f] # <<>>
  PROVE  Head(input[f]) \notin Elems(Tail(input[f]))
<1>1. input[f] \in Seq(STFs)
  BY DEF TypeOK, SourcesOK
<1>2. SUFFICES ASSUME NEW i \in 1 .. Len(Tail(input[f])), Tail(input[f])[i] = Head(input[f])
               PROVE FALSE
  BY DEF Elems
<1>3. /\ Len(Tail(input[f])) = Len(input[f]) - 1 /\ Len(input[f]) \in Nat \ {0}
      /\ Head(input[f]) = input[f][1] /\ Tail(input[f])[i] = input[f][i + 1]
  BY <1>1, <1>2
<1>4. input[f][1].id < input[f][i + 1].id
  BY <1>2, <1>3 DEF InputInv
<1>5. input[f][1] \in STFs
  BY <1>1, <1>3
<1>6. input[f][1].id \in Int
  BY <1>5 DEF STFs, TFIds
<1> QED BY <1>2, <1>3, <1>4, <1>6

-----------------------------------------------------------------------------
(* Steps that move no STF.                                                  *)

(* Nothing that PlacesInv speaks of changes but the control.                   *)
LEMMA PlacesUnchanged ==
  ASSUME PlacesInv, UNCHANGED <<fTFBuffer, outParts, sent, lost, input, nextTFId, run>>,
         pc' \in {"ready", "drain"} => pc \in {"ready", "drain"},
         pc' = "ready" => \A f \in Fems : input[f] = <<>>
  PROVE  PlacesInv'
<1>1. InputInv'
  BY DEF PlacesInv, InputInv
<1>2. BufferInv'
  BY DEF PlacesInv, BufferInv
<1>3. \A stf \in STFs : /\ InInput(stf)' = InInput(stf) /\ InBuffer(stf)' = InBuffer(stf)
                        /\ InSend(stf)' = InSend(stf) /\ InSent(stf)' = InSent(stf)
  BY DEF InInput, InBuffer, InSend, InSent
<1>4. KnownInv'
  BY <1>3 DEF PlacesInv, KnownInv, Known
<1>5. FramesInv'
  BY DEF PlacesInv, FramesInv
<1>6. NoSTFDuplicated'
  BY <1>3 DEF PlacesInv, NoSTFDuplicated
<1> QED BY <1>1, <1>2, <1>4, <1>5, <1>6 DEF PlacesInv

(* In a new run all ids are free again: what is known is of an earlier run.      *)
LEMMA PlacesPreRun ==
  ASSUME TypeOK, PlacesInv, PreRun
  PROVE  PlacesInv'
<1>1. /\ UNCHANGED <<fTFBuffer, outParts, sent, lost, input>>
      /\ run' = run + 1 /\ pc' = "loop" /\ run \in Nat
  BY ConstantsAssumption DEF PreRun, buffer, TypeOK, SourcesOK, ConstantsAssumption
<1>2. /\ \A f \in Fems : input[f] = <<>>
      /\ \A id \in TFIds : fTFBuffer[id] = <<>>
  BY DEF PreRun, PlacesInv, BufferInv
<1>3. InputInv'
  BY <1>1, <1>2 DEF InputInv
<1>4. BufferInv'
  BY <1>1, <1>2 DEF BufferInv
<1>5. \A stf \in STFs : /\ InInput(stf)' = InInput(stf) /\ InBuffer(stf)' = InBuffer(stf)
                        /\ InSend(stf)' = InSend(stf) /\ InSent(stf)' = InSent(stf)
  BY <1>1 DEF InInput, InBuffer, InSend, InSent
<1>6. KnownInv'
  <2> SUFFICES ASSUME NEW stf \in STFs, Known(stf)' PROVE stf.run < run'
    BY <1>1 DEF KnownInv, STFs
  <2>1. Known(stf)
    BY <1>1, <1>5 DEF Known
  <2>2. stf.run <= run /\ stf.run \in Int
    BY <2>1 DEF PlacesInv, KnownInv, STFs
  <2> QED BY <1>1, <2>2
<1>7. FramesInv'
  BY <1>1 DEF PlacesInv, FramesInv
<1>8. NoSTFDuplicated'
  BY <1>1, <1>5 DEF PlacesInv, NoSTFDuplicated
<1> QED BY <1>3, <1>4, <1>6, <1>7, <1>8 DEF PlacesInv

-----------------------------------------------------------------------------
(* Steps that move STFs from one place to another, known ones to known places.  *)

(* What a step has to show of the known STFs, if it only moves some.           *)
LEMMA KnownMoved ==
  ASSUME KnownInv, UNCHANGED <<run, nextTFId>>, \A stf \in STFs : Known(stf)' => Known(stf)
  PROVE  KnownInv'
BY DEF KnownInv

(* BeginPostRun: all STFs of the buffer are lost.                             *)
LEMMA BufferLost ==
  ASSUME PlacesInv, BeginPostRun
  PROVE  \A stf \in STFs : /\ InInput(stf)' = InInput(stf) /\ ~InBuffer(stf)'
                           /\ InSend(stf)' = InSend(stf) /\ InSent(stf)' = InSent(stf)
                           /\ stf \in lost' <=> stf \in lost \/ InBuffer(stf)
<1>1. /\ UNCHANGED <<outParts, sent, input>> /\ fTFBuffer' = [id \in TFIds |-> <<>>]
      /\ lost' = lost \union UNION {Elems(fTFBuffer[id]) : id \in TFIds}
  BY DEF BeginPostRun, sending, sources
<1>2. \A stf \in STFs : /\ InInput(stf)' = InInput(stf)
                        /\ InSend(stf)' = InSend(stf) /\ InSent(stf)' = InSent(stf)
  BY <1>1 DEF InInput, InSend, InSent
<1>3. \A stf \in STFs : ~InBuffer(stf)'
  BY <1>1 DEF InBuffer, Elems, STFs
<1>4. \A stf \in STFs : stf \in lost' <=> stf \in lost \/ InBuffer(stf)
  <2> SUFFICES ASSUME NEW stf \in STFs
               PROVE (\E id \in TFIds : stf \in Elems(fTFBuffer[id])) <=> InBuffer(stf)
    BY <1>1
  <2>1. ASSUME NEW id \in TFIds, stf \in Elems(fTFBuffer[id]) PROVE stf.id = id
    BY <2>1 DEF Elems, PlacesInv, BufferInv
  <2>2. stf.id \in TFIds
    BY DEF STFs
  <2> QED BY <2>1, <2>2 DEF InBuffer
<1> QED BY <1>2, <1>3, <1>4

(* So it is left empty, and the STFs of the run are known.                     *)
LEMMA PlacesBeginPostRun ==
  ASSUME TypeOK, ScanInv, PlacesInv, BeginPostRun
  PROVE  PlacesInv'
<1>1. /\ UNCHANGED <<outParts, sent, input, run, nextTFId>>
      /\ pc' = "drain" /\ fTFBuffer' = [id \in TFIds |-> <<>>]
  BY DEF BeginPostRun, sending, sources
<1>2. \A stf \in STFs : /\ InInput(stf)' = InInput(stf) /\ ~InBuffer(stf)'
                        /\ InSend(stf)' = InSend(stf) /\ InSent(stf)' = InSent(stf)
                        /\ stf \in lost' <=> stf \in lost \/ InBuffer(stf)
  BY BufferLost
<1>3. InputInv'
  BY <1>1 DEF PlacesInv, InputInv
<1>4. BufferInv'
  BY <1>1 DEF BufferInv
<1>5. KnownInv'
  BY <1>1, <1>2, KnownMoved DEF PlacesInv, Known
<1>6. FramesInv'
  BY <1>1, NothingInEmpty DEF PlacesInv, FramesInv
<1>7. NoSTFDuplicated'
  BY <1>1, <1>2 DEF PlacesInv, NoSTFDuplicated
<1> QED BY <1>3, <1>4, <1>5, <1>6, <1>7 DEF PlacesInv

(* The first STF of an input channel is taken out; it is nowhere else.          *)
LEMMA TakeFirst ==
  ASSUME TypeOK, PlacesInv, NEW f \in Fems, input[f] # <<>>,
         input' = [input EXCEPT ![f] = Tail(@)], run' = run
  PROVE  /\ InputInv'
         /\ Head(input[f]) \in STFs /\ InInput(Head(input[f]))
         /\ Head(input[f]).fem = f /\ Head(input[f]).run = run
         /\ \A stf \in STFs : InInput(stf)' <=> InInput(stf) /\ stf # Head(input[f])
<1> DEFINE first == Head(input[f])
<1>1. input \in [Fems -> Seq(STFs)] /\ input[f] \in Seq(STFs)
  BY DEF TypeOK, SourcesOK
<1>2. Len(input[f]) \in Nat \ {0} /\ first = input[f][1] /\ first \in STFs
  BY <1>1
<1>3. first.fem = f /\ first.run = run
  BY <1>2 DEF PlacesInv, InputInv
<1>4. first \in Elems(input[f])
  BY <1>2 DEF Elems
<1>5. Elems(input[f]) = Elems(Tail(input[f])) \union {first}
  BY <1>1, ElemsTail
<1>6. first \notin Elems(Tail(input[f]))
  BY HeadNotInTail DEF PlacesInv
<1>7. \A g \in Fems : input'[g] = IF g = f THEN Tail(input[f]) ELSE input[g]
  BY <1>1
<1>8. ASSUME NEW stf \in STFs PROVE InInput(stf)' <=> InInput(stf) /\ stf # first
  <2>1. stf.fem \in Fems
    BY DEF STFs
  <2>2. CASE stf.fem = f
    BY <1>5, <1>6, <1>7, <2>1, <2>2 DEF InInput
  <2>3. CASE stf.fem # f
    BY <1>3, <1>7, <2>1, <2>3 DEF InInput
  <2> QED BY <2>2, <2>3
<1>9. InputInv'
  <2>1. ASSUME NEW g \in Fems, NEW i \in 1 .. Len(input'[g])
        PROVE  input'[g][i].fem = g /\ input'[g][i].run = run'
    <3>1. CASE g = f
      <4>1. i + 1 \in 1 .. Len(input[f]) /\ input'[g][i] = input[f][i + 1]
        BY <1>1, <1>2, <1>7, <2>1, <3>1
      <4> QED BY <3>1, <4>1 DEF PlacesInv, InputInv
    <3>2. CASE g # f
      BY <1>7, <2>1, <3>2 DEF PlacesInv, InputInv
    <3> QED BY <3>1, <3>2
  <2>2. ASSUME NEW g \in Fems, NEW i \in 1 .. Len(input'[g]), NEW j \in 1 .. Len(input'[g]), i < j
        PROVE  input'[g][i].id < input'[g][j].id
    <3>1. CASE g = f
      <4>1. /\ i + 1 \in 1 .. Len(input[f]) /\ input'[g][i] = input[f][i + 1]
            /\ j + 1 \in 1 .. Len(input[f]) /\ input'[g][j] = input[f][j + 1]
        BY <1>1, <1>2, <1>7, <2>2, <3>1
      <4>2. i + 1 < j + 1
        BY <2>2
      <4> QED BY <4>1, <4>2 DEF PlacesInv, InputInv
    <3>2. CASE g # f
      BY <1>7, <2>2, <3>2 DEF PlacesInv, InputInv
    <3> QED BY <3>1, <3>2
  <2> QED BY <2>1, <2>2 DEF InputInv
<1> QED BY <1>2, <1>3, <1>4, <1>8, <1>9 DEF InInput

(* PostRun drops an STF that it receives.                                    *)
LEMMA PlacesDrainOne ==
  ASSUME TypeOK, PlacesInv, NEW f \in Fems, DrainOne(f)
  PROVE  PlacesInv'
<1> DEFINE first == Head(input[f])
<1>1. /\ UNCHANGED <<fTFBuffer, outParts, sent, run, nextTFId, upstream, pc>> /\ input[f] # <<>>
      /\ pc = "drain" /\ input' = [input EXCEPT ![f] = Tail(@)] /\ lost' = lost \union {first}
  BY DEF DrainOne, control, buffer, sending
<1>2. /\ InputInv' /\ first \in STFs /\ InInput(first)
      /\ \A stf \in STFs : InInput(stf)' <=> InInput(stf) /\ stf # first
  BY <1>1, TakeFirst
<1>3. \A stf \in STFs : /\ InBuffer(stf)' = InBuffer(stf)
                        /\ InSend(stf)' = InSend(stf) /\ InSent(stf)' = InSent(stf)
                        /\ stf \in lost' <=> stf \in lost \/ stf = first
  BY <1>1 DEF InBuffer, InSend, InSent
<1> HIDE DEF first
<1>4. BufferInv'
  BY <1>1 DEF PlacesInv, BufferInv
<1>5. KnownInv'
  <2>1. \A stf \in STFs : Known(stf)' => Known(stf)
    BY <1>2, <1>3 DEF Known
  <2> QED BY <1>1, <2>1, KnownMoved DEF PlacesInv
<1>6. FramesInv'
  BY <1>1 DEF PlacesInv, FramesInv
<1>7. NoSTFDuplicated'
  BY <1>1, <1>2, <1>3 DEF PlacesInv, NoSTFDuplicated
<1> QED BY <1>2, <1>4, <1>5, <1>6, <1>7 DEF PlacesInv

(* What is received goes from the input channel to the entry of its id.         *)
LEMMA FirstReceived ==
  ASSUME TypeOK, PlacesInv, NEW f \in Fems, ReceiveSTF(f)
  PROVE  \A stf \in STFs : /\ InInput(stf)' <=> InInput(stf) /\ stf # Head(input[f])
                           /\ InBuffer(stf)' <=> InBuffer(stf) \/ stf = Head(input[f])
                           /\ InSend(stf)' = InSend(stf) /\ InSent(stf)' = InSent(stf)
<1> DEFINE first == Head(input[f])
<1>1. /\ UNCHANGED <<outParts, sent, run>> /\ input[f] # <<>>
      /\ input' = [input EXCEPT ![f] = Tail(@)]
      /\ fTFBuffer' = [fTFBuffer EXCEPT ![first.id] = Append(@, first)]
  BY DEF ReceiveSTF, sending
<1>2. /\ first \in STFs
      /\ \A stf \in STFs : InInput(stf)' <=> InInput(stf) /\ stf # first
  BY <1>1, TakeFirst
<1> HIDE DEF first
<1>3. first.id \in TFIds /\ fTFBuffer \in [TFIds -> Seq(STFs)]
  BY <1>2 DEF STFs, TypeOK, BufferOK
<1>4. \A id \in TFIds : fTFBuffer'[id] = IF id = first.id THEN Append(fTFBuffer[id], first)
                                                        ELSE fTFBuffer[id]
  BY <1>1, <1>3
<1>5. Elems(Append(fTFBuffer[first.id], first)) = Elems(fTFBuffer[first.id]) \union {first}
  BY <1>2, <1>3, ElemsAppend
<1>6. ASSUME NEW stf \in STFs PROVE InBuffer(stf)' <=> InBuffer(stf) \/ stf = first
  <2>1. stf.id \in TFIds
    BY DEF STFs
  <2> QED BY <1>4, <1>5, <2>1 DEF InBuffer
<1> QED BY <1>1, <1>2, <1>6 DEF InSend, InSent, first

(* The entry has no STF of that FEM yet.                                     *)
LEMMA PlacesReceiveSTF ==
  ASSUME TypeOK, ScanInv, PlacesInv, NEW f \in Fems, ReceiveSTF(f)
  PROVE  PlacesInv'
<1> DEFINE first == Head(input[f])
<1>1. /\ UNCHANGED <<outParts, sent, lost, run, nextTFId, upstream>> /\ input[f] # <<>>
      /\ pc' = "scan" /\ input' = [input EXCEPT ![f] = Tail(@)]
      /\ fTFBuffer' = [fTFBuffer EXCEPT ![first.id] = Append(@, first)]
  BY DEF ReceiveSTF, sending
<1>2. /\ InputInv' /\ first \in STFs /\ InInput(first)
      /\ first.fem = f /\ first.run = run
      /\ \A stf \in STFs : InInput(stf)' <=> InInput(stf) /\ stf # first
  BY <1>1, TakeFirst
<1> HIDE DEF first
<1>3. first.id \in TFIds /\ fTFBuffer \in [TFIds -> Seq(STFs)]
  BY <1>2 DEF STFs, TypeOK, BufferOK
<1>4. \A id \in TFIds : fTFBuffer'[id] = IF id = first.id THEN Append(fTFBuffer[id], first)
                                                        ELSE fTFBuffer[id]
  BY <1>1, <1>3
<1>5. \A stf \in STFs : /\ InBuffer(stf)' <=> InBuffer(stf) \/ stf = first
                        /\ InSend(stf)' = InSend(stf) /\ InSent(stf)' = InSent(stf)
  BY FirstReceived DEF first
<1>6. ~InBuffer(first)
  BY <1>2 DEF PlacesInv, NoSTFDuplicated
<1>7. BufferInv'
  <2> DEFINE old == fTFBuffer[first.id]
  <2>1. old \in Seq(STFs)
    BY <1>3
  <2>2. /\ Len(old) \in Nat /\ Len(Append(old, first)) = Len(old) + 1
        /\ Append(old, first)[Len(old) + 1] = first
        /\ \A i \in 1 .. Len(old) : Append(old, first)[i] = old[i]
    BY <1>2, <2>1
  <2>3. \A i \in 1 .. Len(old) : old[i].id = first.id /\ old[i].run = run
    BY <1>3 DEF PlacesInv, BufferInv
  <2> HIDE DEF old
  <2>4. ASSUME NEW i \in 1 .. Len(Append(old, first))
        PROVE  Append(old, first)[i].id = first.id /\ Append(old, first)[i].run = run
    <3>1. CASE i = Len(old) + 1
      BY <1>2, <2>2, <3>1
    <3>2. CASE i # Len(old) + 1
      <4>1. i \in 1 .. Len(old)
        BY <2>2, <2>4, <3>2
      <4> QED BY <2>2, <2>3, <4>1
    <3> QED BY <3>1, <3>2
  <2>5. ASSUME NEW id \in TFIds, NEW i \in 1 .. Len(fTFBuffer'[id])
        PROVE  fTFBuffer'[id][i].id = id /\ fTFBuffer'[id][i].run = run
    <3>1. CASE id = first.id
      BY <1>4, <2>4, <2>5, <3>1 DEF old
    <3>2. CASE id # first.id
      BY <1>4, <2>5, <3>2 DEF PlacesInv, BufferInv
    <3> QED BY <3>1, <3>2
  <2> QED BY <1>1, <2>5 DEF BufferInv
<1>8. KnownInv'
  <2>1. \A stf \in STFs : Known(stf)' => Known(stf)
    BY <1>1, <1>2, <1>5 DEF Known
  <2> QED BY <1>1, <2>1, KnownMoved DEF PlacesInv
<1>9. FramesInv'
  <2> DEFINE id == first.id
             old == fTFBuffer[id]
             new == Append(old, first)
  <2>1. old \in Seq(STFs) /\ Len(old) \in Nat /\ Len(new) = Len(old) + 1
        /\ new[Len(old) + 1] = first /\ \A i \in 1 .. Len(old) : new[i] = old[i] /\ old[i] \in STFs
    BY <1>2, <1>3
  <2>2. \A i \in 1 .. Len(old) : old[i].id = id /\ old[i].run = run
    BY <1>3 DEF PlacesInv, BufferInv
  <2>3. \A i \in 1 .. Len(old) : old[i].fem # first.fem
    <3> SUFFICES ASSUME NEW i \in 1 .. Len(old), old[i].fem = first.fem PROVE FALSE
      OBVIOUS
    <3>1. old[i] = first
      BY <1>2, <2>1, <2>2 DEF STFs
    <3>2. InBuffer(first)
      BY <3>1 DEF InBuffer, Elems
    <3> QED BY <1>6, <3>2
  <2>4. \A i, j \in 1 .. Len(old) : i # j => old[i].fem # old[j].fem
    BY <1>3 DEF PlacesInv, FramesInv, OneOfEach
  <2> HIDE DEF old, new
  <2>5. \A i \in 1 .. Len(new) : new[i].id = id /\ new[i].run = run
    BY <1>2, <2>1, <2>2
  <2>6. \A i, j \in 1 .. Len(new) : i # j => new[i].fem # new[j].fem
    <3> SUFFICES ASSUME NEW i \in 1 .. Len(new), NEW j \in 1 .. Len(new), i # j
                 PROVE  new[i].fem # new[j].fem
      OBVIOUS
    <3>1. CASE i = Len(old) + 1
      BY <2>1, <2>3, <3>1
    <3>2. CASE j = Len(old) + 1
      BY <2>1, <2>3, <3>2
    <3>3. CASE i # Len(old) + 1 /\ j # Len(old) + 1
      BY <2>1, <2>4, <3>3
    <3> QED BY <3>1, <3>2, <3>3
  <2>7. OneOfEach(new, id)
    BY <2>1, <2>5, <2>6 DEF OneOfEach
  <2>8. fTFBuffer'[id] = new /\ \A k \in TFIds : k # id => fTFBuffer'[k] = fTFBuffer[k]
    BY <1>3, <1>4 DEF new, old
  <2> QED BY <1>1, <2>7, <2>8 DEF PlacesInv, FramesInv
<1>10. NoSTFDuplicated'
  BY <1>1, <1>2, <1>5 DEF PlacesInv, NoSTFDuplicated
<1> QED BY <1>2, <1>7, <1>8, <1>9, <1>10 DEF PlacesInv

(* The STF builder of f sends an STF that is new: neither its id nor a later     *)
(* one was sent before in this run.                                          *)
LEMMA NewSTF ==
  ASSUME TypeOK, PlacesInv, NEW f \in Fems, NEW id \in TFIds, SendSTF(f, id),
         NEW new, new = [fem |-> f, id |-> id, run |-> run]
  PROVE  /\ new \in STFs /\ ~Known(new)
         /\ \A stf \in STFs : /\ InInput(stf)' <=> InInput(stf) \/ stf = new
                              /\ InBuffer(stf)' = InBuffer(stf)
                              /\ InSend(stf)' = InSend(stf) /\ InSent(stf)' = InSent(stf)
<1>1. /\ UNCHANGED <<fTFBuffer, outParts, sent>>
      /\ upstream /\ id >= nextTFId[f]
      /\ input' = [input EXCEPT ![f] = Append(@, new)]
  BY DEF SendSTF, control, buffer, sending
<1>2. /\ input \in [Fems -> Seq(STFs)] /\ nextTFId \in [Fems -> 1 .. MaxTFId + 1]
      /\ new \in STFs
  <2>1. run \in 0 .. MaxRuns /\ run > 0 /\ MaxRuns \in Nat
    BY <1>1, ConstantsAssumption DEF TypeOK, SourcesOK
  <2>2. run \in 1 .. MaxRuns
    BY <2>1
  <2> QED BY <2>2 DEF TypeOK, SourcesOK, STFs
<1>3. new.fem = f /\ new.id = id /\ new.run = run
  OBVIOUS
<1>4. ~Known(new)
  <2>1. nextTFId[f] \in Int /\ id \in Int
    BY <1>2 DEF TFIds
  <2> QED BY <1>1, <1>2, <1>3, <2>1 DEF PlacesInv, KnownInv
<1>5. \A g \in Fems : input'[g] = IF g = f THEN Append(input[f], new) ELSE input[g]
  BY <1>1, <1>2
<1>6. Elems(Append(input[f], new)) = Elems(input[f]) \union {new}
  BY <1>2, ElemsAppend
<1>7. ASSUME NEW stf \in STFs PROVE InInput(stf)' <=> InInput(stf) \/ stf = new
  <2>1. stf.fem \in Fems
    BY DEF STFs
  <2> QED BY <1>3, <1>5, <1>6, <2>1 DEF InInput
<1> QED BY <1>1, <1>2, <1>4, <1>7 DEF InBuffer, InSend, InSent

(* It comes last in its input channel.                                       *)
LEMMA PlacesSendSTF ==
  ASSUME StopsInTime, TypeOK, PlacesInv, NEW f \in Fems, NEW id \in TFIds, SendSTF(f, id)
  PROVE  PlacesInv'
<1> DEFINE new == [fem |-> f, id |-> id, run |-> run]
<1>1. /\ UNCHANGED <<fTFBuffer, outParts, sent, lost, run, upstream, pc>>
      /\ pc # "ready" /\ id >= nextTFId[f]
      /\ input' = [input EXCEPT ![f] = Append(@, new)]
      /\ nextTFId' = [nextTFId EXCEPT ![f] = id + 1]
  BY DEF SendSTF, control, buffer, sending
<1>2. /\ input \in [Fems -> Seq(STFs)] /\ nextTFId \in [Fems -> 1 .. MaxTFId + 1]
      /\ run \in Int
  BY ConstantsAssumption DEF TypeOK, SourcesOK, ConstantsAssumption
<1>3. new.fem = f /\ new.id = id /\ new.run = run
  OBVIOUS
<1>4. /\ new \in STFs /\ ~Known(new)
      /\ \A stf \in STFs : /\ InInput(stf)' <=> InInput(stf) \/ stf = new
                           /\ InBuffer(stf)' = InBuffer(stf)
                           /\ InSend(stf)' = InSend(stf) /\ InSent(stf)' = InSent(stf)
  BY NewSTF, Zenon
<1> HIDE DEF new
<1>5. \A g \in Fems : input'[g] = IF g = f THEN Append(input[f], new) ELSE input[g]
  BY <1>1, <1>2
<1>7. Len(input[f]) \in Nat /\ Len(input'[f]) = Len(input[f]) + 1
      /\ input'[f][Len(input[f]) + 1] = new
      /\ \A i \in 1 .. Len(input[f]) : input'[f][i] = input[f][i] /\ input[f][i] \in STFs
  <2>1. input[f] \in Seq(STFs) /\ input'[f] = Append(input[f], new)
    BY <1>2, <1>5
  <2> QED BY <1>4, <2>1
<1>8. InputInv'
  <2>1. \A i \in 1 .. Len(input[f]) : input[f][i].id < id
    <3> SUFFICES ASSUME NEW i \in 1 .. Len(input[f]) PROVE input[f][i].id < id
      OBVIOUS
    <3>1. input[f][i] \in STFs /\ input[f][i].fem = f /\ input[f][i].run = run
      BY <1>7 DEF PlacesInv, InputInv
    <3>2. Known(input[f][i])
      BY <3>1 DEF Known, InInput, Elems
    <3>3. input[f][i].id < nextTFId[f]
      BY <3>1, <3>2 DEF PlacesInv, KnownInv
    <3>4. input[f][i].id \in Int /\ id \in Int
      BY <3>1 DEF STFs, TFIds
    <3>5. nextTFId[f] \in Int
      BY <1>2
    <3> QED BY <1>1, <3>3, <3>4, <3>5
  <2>2. ASSUME NEW g \in Fems, NEW i \in 1 .. Len(input'[g])
        PROVE  input'[g][i].fem = g /\ input'[g][i].run = run'
    <3>1. CASE g = f /\ i = Len(input[f]) + 1
      BY <1>1, <1>3, <1>7, <3>1
    <3>2. CASE g = f /\ i # Len(input[f]) + 1
      BY <1>1, <1>7, <2>2, <3>2 DEF PlacesInv, InputInv
    <3>3. CASE g # f
      BY <1>1, <1>5, <2>2, <3>3 DEF PlacesInv, InputInv
    <3> QED BY <3>1, <3>2, <3>3
  <2>3. ASSUME NEW g \in Fems, NEW i \in 1 .. Len(input'[g]), NEW j \in 1 .. Len(input'[g]), i < j
        PROVE  input'[g][i].id < input'[g][j].id
    <3>1. CASE g = f /\ j = Len(input[f]) + 1
      <4>1. i \in 1 .. Len(input[f]) /\ input'[g][j] = new
        BY <1>7, <2>3, <3>1
      <4> QED BY <1>3, <1>7, <2>1, <3>1, <4>1
    <3>2. CASE g = f /\ j # Len(input[f]) + 1
      <4>1. i \in 1 .. Len(input[f]) /\ j \in 1 .. Len(input[f])
        BY <1>7, <2>3, <3>2
      <4> QED BY <1>7, <2>3, <3>2, <4>1 DEF PlacesInv, InputInv
    <3>3. CASE g # f
      BY <1>5, <2>3, <3>3 DEF PlacesInv, InputInv
    <3> QED BY <3>1, <3>2, <3>3
  <2> QED BY <2>2, <2>3 DEF InputInv
<1>9. BufferInv'
  BY <1>1 DEF PlacesInv, BufferInv
<1>10. KnownInv'
  <2> SUFFICES ASSUME NEW stf \in STFs, Known(stf)'
               PROVE stf.run <= run /\ (stf.run = run => stf.id < nextTFId'[stf.fem])
    BY <1>1 DEF KnownInv
  <2>1. stf.fem \in Fems /\ stf.id \in Int /\ id \in Int /\ run \in Int
    BY <1>2 DEF STFs, TFIds
  <2>2. nextTFId'[stf.fem] = IF stf.fem = f THEN id + 1 ELSE nextTFId[stf.fem]
    BY <1>1, <1>2, <2>1
  <2>3. nextTFId[stf.fem] \in Int
    BY <1>2, <2>1
  <2>4. CASE stf = new
    BY <1>3, <2>1, <2>2, <2>4
  <2>5. CASE Known(stf)
    <3>1. stf.run <= run /\ (stf.run = run => stf.id < nextTFId[stf.fem])
      BY <2>5 DEF PlacesInv, KnownInv
    <3> QED BY <1>1, <2>1, <2>2, <2>3, <3>1
  <2> QED BY <1>1, <1>4, <2>4, <2>5 DEF Known
<1>11. FramesInv'
  BY <1>1 DEF PlacesInv, FramesInv
<1>12. NoSTFDuplicated'
  BY <1>1, <1>4 DEF PlacesInv, NoSTFDuplicated, Known
<1> QED BY <1>8, <1>9, <1>10, <1>11, <1>12 DEF PlacesInv

-----------------------------------------------------------------------------
(* Steps that take an entry out of fTFBuffer, or end the sending of one.        *)

(* The STFs of an entry are those of its id that are in the buffer.            *)
LEMMA EntryOfId ==
  ASSUME PlacesInv, NEW id \in TFIds, NEW stf \in STFs
  PROVE  stf \in Elems(fTFBuffer[id]) <=> InBuffer(stf) /\ stf.id = id
<1>1. ASSUME stf \in Elems(fTFBuffer[id]) PROVE stf.id = id
  BY <1>1 DEF Elems, PlacesInv, BufferInv
<1> QED BY <1>1 DEF InBuffer

(* What an entry's erasure leaves: the STFs of the other ids.                  *)
LEMMA EntryErased ==
  ASSUME TypeOK, PlacesInv, NEW id \in TFIds, fTFBuffer' = [fTFBuffer EXCEPT ![id] = <<>>],
         run' = run, input' = input, pc' \notin {"ready", "drain"}
  PROVE  /\ InputInv' /\ BufferInv'
         /\ \A k \in TFIds : OneOfEach(fTFBuffer'[k], k)
         /\ \A stf \in STFs : InBuffer(stf)' <=> InBuffer(stf) /\ stf.id # id
<1>1. \A k \in TFIds : fTFBuffer'[k] = IF k = id THEN <<>> ELSE fTFBuffer[k]
  BY DEF TypeOK, BufferOK
<1>2. \A stf \in STFs : InBuffer(stf)' <=> InBuffer(stf) /\ stf.id # id
  BY <1>1, NothingInEmpty DEF InBuffer, STFs
<1>3. \A k \in TFIds : OneOfEach(fTFBuffer'[k], k)
  BY <1>1, NothingInEmpty DEF PlacesInv, FramesInv
<1>4. BufferInv'
  BY <1>1 DEF PlacesInv, BufferInv
<1>5. InputInv'
  BY DEF PlacesInv, InputInv
<1> QED BY <1>2, <1>3, <1>4, <1>5

(* An entry is taken out of the buffer to be sent.                            *)
LEMMA PlacesStartSending ==
  ASSUME TypeOK, PlacesInv, outParts = NoFrame, NEW id \in TFIds, NEW type,
         type = "COMPLETE" => Len(fTFBuffer[id]) = NumSource,
         StartSending(id, type), EraseEntry(id),
         UNCHANGED <<sent, lost, input, nextTFId, run>>
  PROVE  PlacesInv'
<1>1. /\ outParts' = [id |-> id, type |-> type, parts |-> fTFBuffer[id]]
      /\ fTFBuffer' = [fTFBuffer EXCEPT ![id] = <<>>] /\ pc' = "decimate"
  BY DEF StartSending, EraseEntry
<1>2. /\ InputInv' /\ BufferInv'
      /\ \A k \in TFIds : OneOfEach(fTFBuffer'[k], k)
      /\ \A stf \in STFs : InBuffer(stf)' <=> InBuffer(stf) /\ stf.id # id
  BY <1>1, EntryErased
<1>3. \A stf \in STFs : /\ ~InSend(stf)
                        /\ InSend(stf)' <=> InBuffer(stf) /\ stf.id = id
                        /\ InInput(stf)' = InInput(stf) /\ InSent(stf)' = InSent(stf)
  BY <1>1, EntryOfId, NothingInEmpty DEF InSend, InInput, InSent, NoFrame
<1>4. KnownInv'
  <2>1. \A stf \in STFs : Known(stf)' => Known(stf)
    BY <1>2, <1>3 DEF Known
  <2> QED BY <2>1, KnownMoved DEF PlacesInv
<1>5. FramesInv'
  <2>1. OneOfEach(outParts'.parts, outParts'.id)
    BY <1>1 DEF PlacesInv, FramesInv
  <2>2. outParts'.type = "COMPLETE" => Len(outParts'.parts) = NumSource
    BY <1>1
  <2> QED BY <1>2, <2>1, <2>2 DEF PlacesInv, FramesInv
<1>6. NoSTFDuplicated'
  BY <1>2, <1>3 DEF PlacesInv, NoSTFDuplicated
<1> QED BY <1>2, <1>4, <1>5, <1>6 DEF PlacesInv

(* An entry is taken out of the buffer and dropped.                           *)
LEMMA PlacesEntryLost ==
  ASSUME TypeOK, PlacesInv, NEW id \in TFIds, EraseEntry(id),
         lost' = lost \union Elems(fTFBuffer[id]), pc' \notin {"ready", "drain"},
         UNCHANGED <<outParts, sent, input, nextTFId, run>>
  PROVE  PlacesInv'
<1>1. /\ InputInv' /\ BufferInv'
      /\ \A k \in TFIds : OneOfEach(fTFBuffer'[k], k)
      /\ \A stf \in STFs : InBuffer(stf)' <=> InBuffer(stf) /\ stf.id # id
  BY EntryErased DEF EraseEntry
<1>2. \A stf \in STFs : /\ stf \in lost' <=> stf \in lost \/ (InBuffer(stf) /\ stf.id = id)
                        /\ InInput(stf)' = InInput(stf)
                        /\ InSend(stf)' = InSend(stf) /\ InSent(stf)' = InSent(stf)
  BY EntryOfId DEF InSend, InInput, InSent
<1>3. KnownInv'
  <2>1. \A stf \in STFs : Known(stf)' => Known(stf)
    BY <1>1, <1>2 DEF Known
  <2> QED BY <2>1, KnownMoved DEF PlacesInv
<1>4. FramesInv'
  BY <1>1 DEF PlacesInv, FramesInv
<1>5. NoSTFDuplicated'
  BY <1>1, <1>2 DEF PlacesInv, NoSTFDuplicated
<1> QED BY <1>1, <1>3, <1>4, <1>5 DEF PlacesInv

(* The time frame in sending is given to a destination, or it is dropped.       *)
LEMMA PlacesEndSending ==
  ASSUME TypeOK, PlacesInv, EndSending, outParts \in Frames,
         \/ sent' = sent \union {outParts} /\ UNCHANGED lost
         \/ lost' = lost \union Elems(outParts.parts) /\ UNCHANGED sent
  PROVE  PlacesInv'
<1>1. /\ UNCHANGED <<fTFBuffer, input, nextTFId, run>>
      /\ outParts' = NoFrame /\ pc' \notin {"ready", "drain"}
  BY DEF EndSending, buffer, sources
<1>2. InputInv' /\ BufferInv'
  BY <1>1 DEF PlacesInv, InputInv, BufferInv
<1>3. \A stf \in STFs : /\ ~InSend(stf)' /\ InBuffer(stf)' = InBuffer(stf)
                        /\ InInput(stf)' = InInput(stf)
  BY <1>1, NothingInEmpty DEF InSend, InBuffer, InInput, NoFrame
<1>4. OneOfEach(outParts'.parts, outParts'.id) /\ outParts'.type # "COMPLETE"
  BY <1>1, NothingInEmpty DEF NoFrame
<1>5. CASE sent' = sent \union {outParts} /\ UNCHANGED lost
  <2>1. \A stf \in STFs : InSent(stf)' <=> InSent(stf) \/ InSend(stf)
    BY <1>5 DEF InSent, InSend
  <2>2. KnownInv'
    <3>1. \A stf \in STFs : Known(stf)' => Known(stf)
      BY <1>3, <1>5, <2>1 DEF Known
    <3> QED BY <1>1, <3>1, KnownMoved DEF PlacesInv
  <2>3. FramesInv'
    BY <1>1, <1>4, <1>5 DEF PlacesInv, FramesInv
  <2>4. ASSUME NEW stf \in STFs, NEW f1 \in sent', NEW f2 \in sent',
               stf \in Elems(f1.parts), stf \in Elems(f2.parts)
        PROVE  f1 = f2
    <3>1. f1 \in sent => InSent(stf)
      BY <2>4 DEF InSent
    <3>2. f2 \in sent => InSent(stf)
      BY <2>4 DEF InSent
    <3>3. f1 = outParts \/ f2 = outParts => InSend(stf)
      BY <2>4 DEF InSend
    <3> QED BY <1>5, <2>4, <3>1, <3>2, <3>3 DEF PlacesInv, NoSTFDuplicated
  <2>5. NoSTFDuplicated'
    BY <1>3, <1>5, <2>1, <2>4 DEF PlacesInv, NoSTFDuplicated
  <2> QED BY <1>2, <2>2, <2>3, <2>5 DEF PlacesInv
<1>6. CASE lost' = lost \union Elems(outParts.parts) /\ UNCHANGED sent
  <2>1. \A stf \in STFs : /\ stf \in lost' <=> stf \in lost \/ InSend(stf)
                          /\ InSent(stf)' = InSent(stf)
    BY <1>6 DEF InSent, InSend
  <2>2. KnownInv'
    <3>1. \A stf \in STFs : Known(stf)' => Known(stf)
      BY <1>3, <2>1 DEF Known
    <3> QED BY <1>1, <3>1, KnownMoved DEF PlacesInv
  <2>3. FramesInv'
    BY <1>1, <1>4, <1>6 DEF PlacesInv, FramesInv
  <2>4. NoSTFDuplicated'
    BY <1>3, <1>6, <2>1 DEF PlacesInv, NoSTFDuplicated
  <2> QED BY <1>2, <2>2, <2>3, <2>4 DEF PlacesInv
<1> QED BY <1>5, <1>6

(* An incomplete entry goes to the output or is dropped.                       *)
LEMMA PlacesGiveUp ==
  ASSUME TypeOK, ScanInv, PlacesInv, NEW id \in TFIds, NEW type \in {"TIMEOUT", "DEPTH_LIMIT"},
         pc = "scan", GiveUp(id, type)
  PROVE  PlacesInv'
<1>1. EraseEntry(id) /\ UNCHANGED <<sent, input, nextTFId, run>>
  BY DEF GiveUp, sending, sources
<1>2. outParts = NoFrame
  BY DEF ScanInv, Sending
<1>3. CASE OutputIncompleteTF
  BY <1>1, <1>2, <1>3, PlacesStartSending DEF GiveUp
<1>4. CASE ~OutputIncompleteTF
  <2>1. /\ lost' = lost \union Elems(fTFBuffer[id]) /\ pc' \notin {"ready", "drain"}
        /\ outParts' = outParts
    BY <1>4 DEF GiveUp
  <2> QED BY <1>1, <2>1, PlacesEntryLost
<1> QED BY <1>3, <1>4

-----------------------------------------------------------------------------
(* Nothing is anywhere at first.                                            *)
LEMMA PlacesInit == Init => PlacesInv
<1> SUFFICES ASSUME Init PROVE PlacesInv
  OBVIOUS
<1>1. /\ \A f \in Fems : input[f] = <<>>
      /\ \A id \in TFIds : fTFBuffer[id] = <<>>
      /\ outParts = NoFrame /\ sent = {} /\ lost = {}
  BY DEF Init
<1>2. InputInv /\ BufferInv
  BY <1>1 DEF InputInv, BufferInv
<1>3. \A stf \in STFs : ~InInput(stf) /\ ~InBuffer(stf) /\ ~InSend(stf) /\ ~InSent(stf)
  BY <1>1, NothingInEmpty DEF InInput, InBuffer, InSend, InSent, NoFrame, STFs
<1>4. KnownInv
  BY <1>1, <1>3 DEF KnownInv, Known
<1>5. FramesInv
  BY <1>1, NothingInEmpty DEF FramesInv, NoFrame
<1>6. NoSTFDuplicated
  BY <1>1, <1>3 DEF NoSTFDuplicated
<1> QED BY <1>2, <1>4, <1>5, <1>6 DEF PlacesInv

(* Every step keeps PlacesInv, if no STF comes after PostRun.                  *)
LEMMA PlacesNext ==
  ASSUME StopsInTime
  PROVE  TypeOK /\ ScanInv /\ PlacesInv /\ [Next]_vars => PlacesInv'
<1> SUFFICES ASSUME TypeOK, ScanInv, PlacesInv, [Next]_vars PROVE PlacesInv'
  OBVIOUS
<1>0. pc = "ready" => \A f \in Fems : input[f] = <<>>
  BY DEF PlacesInv, BufferInv
<1>1. ASSUME NEW f \in Fems, NEW id \in TFIds, SendSTF(f, id) PROVE PlacesInv'
  BY <1>1, PlacesSendSTF
<1>2. ASSUME NEW d \in Destinations, Consume(d) PROVE PlacesInv'
  BY <1>0, <1>2, PlacesUnchanged DEF Consume, control, buffer, sources
<1>3. CASE Tick
  BY <1>0, <1>3, PlacesUnchanged DEF Tick, control, sending, sources
<1>4. CASE RequestStop
  BY <1>0, <1>4, PlacesUnchanged DEF RequestStop, buffer, sending, sources
<1>5. CASE StopUpstream
  BY <1>0, <1>5, PlacesUnchanged DEF StopUpstream, control, buffer, sending
<1>6. CASE PreRun
  BY <1>6, PlacesPreRun
<1>7. CASE BeginPostRun
  BY <1>7, PlacesBeginPostRun
<1>8. ASSUME NEW f \in Fems, DrainOne(f) PROVE PlacesInv'
  BY <1>8, PlacesDrainOne
<1>9. CASE DrainNothing
  BY <1>9, PlacesUnchanged DEF DrainNothing, buffer, sending, sources
<1>10. CASE Loop
  BY <1>10, PlacesUnchanged DEF Loop, buffer, sending, sources
<1>11. ASSUME NEW f \in Fems, ReceiveSTF(f) PROVE PlacesInv'
  BY <1>11, PlacesReceiveSTF
<1>12. CASE ReceiveNothing
  BY <1>12, PlacesUnchanged DEF ReceiveNothing, buffer, sending, sources
<1>13. ASSUME NEW id \in TFIds, VisitComplete(id) PROVE PlacesInv'
  <2>1. outParts = NoFrame
    BY <1>13 DEF VisitComplete, ScanInv, Sending
  <2> QED BY <1>13, <2>1, PlacesStartSending DEF VisitComplete, sending, sources
<1>14. ASSUME NEW id \in TFIds, VisitTimedOut(id) PROVE PlacesInv'
  BY <1>14, PlacesGiveUp DEF VisitTimedOut
<1>15. ASSUME NEW id \in TFIds, VisitWaiting(id) PROVE PlacesInv'
  BY <1>15, PlacesUnchanged DEF VisitWaiting, buffer, sending, sources
<1>16. ASSUME NEW id \in TFIds, Evict(id) PROVE PlacesInv'
  BY <1>16, PlacesGiveUp DEF Evict
<1>17. CASE KeepAll
  BY <1>17, PlacesUnchanged DEF KeepAll, buffer, sending, sources
<1>18. ASSUME NEW due \in BOOLEAN, Report(due) PROVE PlacesInv'
  BY <1>18, PlacesUnchanged DEF Report, buffer, sending, sources
<1>19. ASSUME NEW pollReady \in BOOLEAN, Decimate(pollReady) PROVE PlacesInv'
  BY <1>19, PlacesUnchanged DEF Decimate, buffer, sending, sources
<1>20. CASE DecimatorInterrupted
  BY <1>20, PlacesUnchanged DEF DecimatorInterrupted, buffer, sending, sources
<1>21. pc = "send" => outParts \in Frames
  BY DEF TypeOK, ControlOK
<1>22. CASE SendSucceeds
  BY <1>21, <1>22, PlacesEndSending DEF SendSucceeds
<1>23. CASE SendBlocked
  <2>1. CASE DiscardOutput /\ attempts + 1 >= NumDestination
    BY <1>21, <1>23, <2>1, PlacesEndSending DEF SendBlocked
  <2>2. CASE ~(DiscardOutput /\ attempts + 1 >= NumDestination)
    BY <1>23, <2>2, PlacesUnchanged DEF SendBlocked, buffer, sources
  <2> QED BY <2>1, <2>2
<1>24. CASE SendInterrupted
  BY <1>21, <1>24, PlacesEndSending DEF SendInterrupted, sending
<1>25. CASE UNCHANGED vars
  BY <1>0, <1>25, PlacesUnchanged DEF vars, control, buffer, sending, sources
<1> QED
  BY <1>1, <1>2, <1>3, <1>4, <1>5, <1>6, <1>7, <1>8, <1>9, <1>10, <1>11, <1>12, <1>13,
     <1>14, <1>15, <1>16, <1>17, <1>18, <1>19, <1>20, <1>22, <1>23, <1>24, <1>25
  DEF Next, Environment, Device, Scan

(* PlacesInv, from which the next two theorems follow: no place holds an STF of  *)
(* an earlier run, if none comes after PostRun.                              *)
THEOREM PlacesCorrect ==
  ASSUME StopsInTime
  PROVE  Spec => []PlacesInv
<1>1. TypeOK /\ ScanInv /\ PlacesInv /\ [Next]_vars => PlacesInv'
  BY PlacesNext
<1> QED BY <1>1, TypeCorrect, ScanCorrect, PlacesInit, PTL DEF Spec

(* No STF is in two places, whatever the FEMs, the run lengths, the depth of the  *)
(* channels and the options: none is sent twice, or both sent and dropped.       *)
THEOREM NeverDuplicated ==
  ASSUME StopsInTime
  PROVE  Spec => []NoSTFDuplicated
<1>1. PlacesInv => NoSTFDuplicated
  BY DEF PlacesInv
<1> QED BY <1>1, PlacesCorrect, PTL

(* As many STFs of different FEMs as there are FEMs are one of every FEM.        *)
LEMMA OneOfEvery ==
  ASSUME NEW parts \in Seq(STFs), NEW id, OneOfEach(parts, id), Len(parts) = Cardinality(Fems)
  PROVE  FemsOf(parts) = Fems
<1> DEFINE N == Len(parts)
           fem == [i \in 1 .. N |-> parts[i].fem]
<1>1. N \in Nat /\ \A i \in 1 .. N : parts[i] \in STFs /\ parts[i].fem \in Fems
  <2>1. N \in Nat /\ \A i \in 1 .. N : parts[i] \in STFs
    OBVIOUS
  <2> QED BY <2>1 DEF STFs
<1>2. fem \in Injection(1 .. N, Fems)
  <2>1. fem \in [1 .. N -> Fems]
    BY <1>1
  <2>2. \A i, j \in 1 .. N : fem[i] = fem[j] => i = j
    BY DEF OneOfEach
  <2> QED BY <2>1, <2>2 DEF Injection, IsInjective
<1>3. IsFiniteSet(Fems)
  BY ConstantsAssumption DEF ConstantsAssumption
<1>4. Cardinality(1 .. N) = N
  BY <1>1, FS_Interval
<1> HIDE DEF N
<1>5. fem \in Surjection(1 .. N, Fems)
  BY <1>2, <1>3, <1>4, FS_Injection DEF N
<1>6. \A f \in Fems : \E i \in 1 .. N : fem[i] = f
  BY <1>5 DEF Surjection
<1>7. ASSUME NEW f \in Fems PROVE f \in FemsOf(parts)
  BY <1>6 DEF FemsOf, Elems, N
<1>8. ASSUME NEW f \in FemsOf(parts) PROVE f \in Fems
  BY <1>1 DEF FemsOf, Elems, N
<1> QED BY <1>7, <1>8

(* Where one peer is connected for every FEM, a time frame sent as TF_COMPLETE   *)
(* is whole, although the code only counts messages and the ids of every run     *)
(* begin anew.                                                              *)
THEOREM WholeFrames ==
  ASSUME NumSource = Cardinality(Fems), StopsInTime
  PROVE  Spec => []CompleteFramesAreWhole
<1>1. TypeOK /\ PlacesInv => CompleteFramesAreWhole
  <2> SUFFICES ASSUME TypeOK, PlacesInv, NEW frame \in sent, frame.type = "COMPLETE"
               PROVE  /\ FemsOf(frame.parts) = Fems /\ Len(frame.parts) = Cardinality(Fems)
                      /\ \A stf \in Elems(frame.parts) :
                           stf.id = frame.id /\ stf.run = frame.parts[1].run
    BY DEF CompleteFramesAreWhole
  <2>1. OneOfEach(frame.parts, frame.id) /\ Len(frame.parts) = Cardinality(Fems)
    BY DEF PlacesInv, FramesInv
  <2>2. frame.parts \in Seq(STFs)
    BY DEF TypeOK, SendingOK, Frames
  <2>3. FemsOf(frame.parts) = Fems
    BY <2>1, <2>2, OneOfEvery
  <2>4. \A stf \in Elems(frame.parts) : stf.id = frame.id /\ stf.run = frame.parts[1].run
    BY <2>1 DEF OneOfEach, Elems
  <2> QED BY <2>1, <2>3, <2>4
<1> QED BY <1>1, TypeCorrect, PlacesCorrect, PTL

-----------------------------------------------------------------------------
(***************************************************************************)
(* TimeFrameBuilder implements SubTimeFrameDelivery, for all values of the      *)
(* constants with one source for each FEM.                                   *)
(*                                                                         *)
(* Under PlacesInv the fate of an STF is determined by the one place it is in    *)
(* (FateRead).  A step of the device that moves STFs between the places where    *)
(* they are held is a stutter of the abstract system; a step that drops some is   *)
(* Lose, a successful send is DeliverWhole or DeliverPartial, SendSTF is Accept,  *)
(* and PreRun is NewRun.                                                     *)
(***************************************************************************)

Holds(stf) == InInput(stf) \/ InBuffer(stf) \/ InSend(stf)

-----------------------------------------------------------------------------
(* SendInv: a time frame is sent in the run of its STFs.                       *)

(* Nothing is being sent at first.                                           *)
LEMMA SendInit == Init => SendInv
BY DEF Init, SendInv, NoFrame

(* What is being sent was in the buffer a moment before.                       *)
LEMMA SendStarts ==
  ASSUME PlacesInv, NEW id \in TFIds, NEW type, StartSending(id, type), run' = run,
         type \in {"TIMEOUT", "DEPTH_LIMIT"} => OutputIncompleteTF
  PROVE  SendInv'
<1>1. outParts' = [id |-> id, type |-> type, parts |-> fTFBuffer[id]]
  BY DEF StartSending
<1>2. \A i \in 1 .. Len(fTFBuffer[id]) : fTFBuffer[id][i].run = run
  BY DEF PlacesInv, BufferInv
<1> QED BY <1>1, <1>2 DEF SendInv

(* Giving up starts to send only if partial time frames are wanted.             *)
LEMMA SendGiveUp ==
  ASSUME PlacesInv, SendInv, NEW id \in TFIds, NEW type, GiveUp(id, type)
  PROVE  SendInv'
<1>1. CASE OutputIncompleteTF
  BY <1>1, SendStarts DEF GiveUp, sources
<1>2. CASE ~OutputIncompleteTF
  BY <1>2 DEF GiveUp, SendInv, sources
<1> QED BY <1>1, <1>2

(* Every step keeps SendInv.                                                *)
LEMMA SendNext == ScanInv /\ PlacesInv /\ SendInv /\ [Next]_vars => SendInv'
<1> SUFFICES ASSUME ScanInv, PlacesInv, SendInv, [Next]_vars PROVE SendInv'
  OBVIOUS
<1>1. CASE UNCHANGED <<outParts, run>>
  BY <1>1 DEF SendInv
<1>2. CASE outParts' = NoFrame
  BY <1>2 DEF SendInv, NoFrame
<1>3. CASE PreRun
  BY <1>2, <1>3 DEF PreRun, ScanInv, Sending
<1>4. ASSUME NEW id \in TFIds, VisitComplete(id) PROVE SendInv'
  BY <1>4, SendStarts DEF VisitComplete, sources
<1>5. ASSUME NEW id \in TFIds, VisitTimedOut(id) PROVE SendInv'
  BY <1>5, SendGiveUp DEF VisitTimedOut
<1>6. ASSUME NEW id \in TFIds, Evict(id) PROVE SendInv'
  BY <1>6, SendGiveUp DEF Evict
<1>7. CASE SendSucceeds \/ SendBlocked \/ SendInterrupted
  BY <1>1, <1>2, <1>7 DEF SendSucceeds, SendBlocked, SendInterrupted, EndSending, sources
<1>8. CASE \/ \E f \in Fems, id \in TFIds : SendSTF(f, id)
           \/ \E d \in Destinations : Consume(d)
           \/ Tick \/ RequestStop \/ StopUpstream
  BY <1>1, <1>8 DEF SendSTF, Consume, Tick, RequestStop, StopUpstream, control, sources
<1>9. CASE \/ BeginPostRun \/ DrainNothing \/ Loop \/ ReceiveNothing \/ KeepAll
           \/ DecimatorInterrupted
           \/ \E f \in Fems : DrainOne(f) \/ ReceiveSTF(f)
           \/ \E id \in TFIds : VisitWaiting(id)
           \/ \E due \in BOOLEAN : Report(due)
           \/ \E pollReady \in BOOLEAN : Decimate(pollReady)
  BY <1>1, <1>9 DEF BeginPostRun, DrainNothing, Loop, ReceiveNothing, KeepAll,
                    DecimatorInterrupted, DrainOne, ReceiveSTF, VisitWaiting, Report,
                    Decimate, control, sources
<1>10. CASE UNCHANGED vars
  BY <1>1, <1>10 DEF vars, control, sources
<1> QED
  BY <1>3, <1>4, <1>5, <1>6, <1>7, <1>8, <1>9, <1>10 DEF Next, Environment, Device, Scan

(* SendInv is an invariant.                                                 *)
THEOREM SendCorrect ==
  ASSUME StopsInTime
  PROVE  Spec => []SendInv
BY ScanCorrect, PlacesCorrect, SendInit, SendNext, PTL DEF Spec

-----------------------------------------------------------------------------
(* The fates, read off the places.                                           *)
SentAs(frame) == IF frame.type = "COMPLETE" THEN "whole" ELSE "partial"

FateRead ==
  \A stf \in STFs :
    /\ stf \in lost => FateOf(stf) = "lost"
    /\ \A frame \in sent : stf \in Elems(frame.parts) => FateOf(stf) = SentAs(frame)
    /\ Holds(stf)  => FateOf(stf) = "held"
    /\ ~Known(stf) => FateOf(stf) = "upstream"

(* The places are disjoint, so the fate is the one of the place.                *)
LEMMA FateReadNow == PlacesInv => FateRead
<1> SUFFICES ASSUME PlacesInv, NEW stf \in STFs
             PROVE  /\ stf \in lost => FateOf(stf) = "lost"
                    /\ \A frame \in sent : stf \in Elems(frame.parts) =>
                                             FateOf(stf) = SentAs(frame)
                    /\ Holds(stf)  => FateOf(stf) = "held"
                    /\ ~Known(stf) => FateOf(stf) = "upstream"
  BY DEF FateRead
<1>1. ASSUME stf \in lost PROVE FateOf(stf) = "lost"
  <2>1. ~InSent(stf) /\ ~Holds(stf)
    BY <1>1 DEF Holds, PlacesInv, NoSTFDuplicated
  <2> QED BY <1>1, <2>1 DEF FateOf, Holds, InSent
<1>2. ASSUME NEW frame \in sent, stf \in Elems(frame.parts) PROVE FateOf(stf) = SentAs(frame)
  <2>1. InSent(stf)
    BY <1>2 DEF InSent
  <2>2. stf \notin lost /\ \A other \in sent : stf \in Elems(other.parts) => other = frame
    BY <1>2, <2>1 DEF PlacesInv, NoSTFDuplicated
  <2>3. ~Holds(stf)
    BY <2>1 DEF Holds, PlacesInv, NoSTFDuplicated
  <2>4. CASE frame.type = "COMPLETE"
    <3>1. ~\E other \in sent : stf \in Elems(other.parts) /\ other.type # "COMPLETE"
      BY <2>2, <2>4
    <3>2. \E other \in sent : stf \in Elems(other.parts) /\ other.type = "COMPLETE"
      BY <1>2, <2>4
    <3> QED BY <2>2, <2>3, <2>4, <3>1, <3>2 DEF FateOf, SentAs, Holds
  <2>5. CASE frame.type # "COMPLETE"
    <3>1. ~\E other \in sent : stf \in Elems(other.parts) /\ other.type = "COMPLETE"
      BY <2>2, <2>5
    <3>2. \E other \in sent : stf \in Elems(other.parts) /\ other.type # "COMPLETE"
      BY <1>2, <2>5
    <3> QED BY <2>2, <2>3, <2>5, <3>1, <3>2 DEF FateOf, SentAs, Holds
  <2> QED BY <2>4, <2>5
<1>3. ASSUME Holds(stf) PROVE FateOf(stf) = "held"
  <2>1. ~InSent(stf) /\ stf \notin lost
    BY <1>3 DEF Holds, PlacesInv, NoSTFDuplicated
  <2> QED BY <1>3, <2>1 DEF FateOf, Holds, InSent
<1>4. ASSUME ~Known(stf) PROVE FateOf(stf) = "upstream"
  BY <1>4 DEF FateOf, Known, InSent
<1> QED BY <1>1, <1>2, <1>3, <1>4

(* The same of the next state.                                              *)
LEMMA FateReadNext == PlacesInv' => FateRead'
BY FateReadNow, PTL

-----------------------------------------------------------------------------
(* Steps of the abstract system.                                             *)

(* The abstract STFs are the STFs.                                           *)
LEMMA SameSTFs == Delivery!STFs = STFs
BY DEF Delivery!STFs, STFs

(* A step that changes neither the run nor what is held, sent or lost is a      *)
(* stutter.                                                                 *)
LEMMA Stutter ==
  ASSUME PlacesInv, PlacesInv', UNCHANGED <<run, sent, lost>>,
         \A stf \in STFs : Holds(stf)' <=> Holds(stf)
  PROVE  UNCHANGED Delivery!vars
<1>1. ASSUME NEW stf \in STFs PROVE FateOf(stf)' = FateOf(stf)
  <2>1. CASE stf \in lost
    BY <2>1, FateReadNow, FateReadNext DEF FateRead
  <2>2. ASSUME NEW frame \in sent, stf \in Elems(frame.parts)
        PROVE  FateOf(stf)' = FateOf(stf)
    BY <2>2, FateReadNow, FateReadNext DEF FateRead, SentAs
  <2>3. CASE Holds(stf)
    BY <2>3, FateReadNow, FateReadNext DEF FateRead
  <2>4. CASE ~Known(stf)
    <3>1. ~Known(stf)'
      BY <2>4 DEF Known, Holds, InSent
    <3> QED BY <2>4, <3>1, FateReadNow, FateReadNext DEF FateRead
  <2> QED BY <2>1, <2>2, <2>3, <2>4 DEF Known, Holds, InSent
<1> QED BY <1>1 DEF Delivery!vars

(* STFs that were held and have another fate now are settled.                  *)
LEMMA Settled ==
  ASSUME NEW S \in SUBSET STFs, NEW what, S # {}, \A stf \in S : FateOf(stf) = "held",
         \A stf \in STFs : FateOf(stf)' = IF stf \in S THEN what ELSE FateOf(stf), run' = run
  PROVE  Delivery!Settle(S, what)
<1>1. S \subseteq Delivery!Held
  BY SameSTFs DEF Delivery!Held
<1> QED BY <1>1, SameSTFs DEF Delivery!Settle

(* STFs that are held are dropped.                                           *)
LEMMA Dropped ==
  ASSUME PlacesInv, PlacesInv', NEW S \in SUBSET STFs, \A stf \in S : Holds(stf),
         lost' = lost \union S, UNCHANGED <<run, sent>>,
         \A stf \in STFs : Holds(stf)' <=> Holds(stf) /\ stf \notin S
  PROVE  Delivery!Next \/ UNCHANGED Delivery!vars
<1>1. CASE S = {}
  BY <1>1, Stutter
<1>2. CASE S # {}
  <2>1. ASSUME NEW stf \in STFs
        PROVE  FateOf(stf)' = IF stf \in S THEN "lost" ELSE FateOf(stf)
    <3>1. CASE stf \in S \/ stf \in lost
      BY <3>1, FateReadNow, FateReadNext DEF FateRead
    <3>2. ASSUME stf \notin S, NEW frame \in sent, stf \in Elems(frame.parts)
          PROVE  FateOf(stf)' = FateOf(stf)
      BY <3>2, FateReadNow, FateReadNext DEF FateRead, SentAs
    <3>3. CASE Holds(stf) /\ stf \notin S
      BY <3>3, FateReadNow, FateReadNext DEF FateRead
    <3>4. CASE ~Known(stf)
      <4>1. ~Known(stf)' /\ stf \notin S
        BY <3>4 DEF Known, Holds, InSent
      <4> QED BY <3>4, <4>1, FateReadNow, FateReadNext DEF FateRead
    <3> QED BY <3>1, <3>2, <3>3, <3>4 DEF Known, Holds, InSent
  <2>2. \A stf \in S : FateOf(stf) = "held"
    BY FateReadNow DEF FateRead
  <2>3. Delivery!Settle(S, "lost")
    BY <1>2, <2>1, <2>2, Settled
  <2>4. S \in SUBSET Delivery!Held
    BY <2>2, SameSTFs DEF Delivery!Held
  <2>5. Delivery!Lose
    BY <2>3, <2>4 DEF Delivery!Lose
  <2> QED BY <2>5 DEF Delivery!Next
<1> QED BY <1>1, <1>2

(* STFs of one id and run are the product of their FEMs with it.                *)
LEMMA STFsOfFrame ==
  ASSUME NEW parts \in Seq(STFs), NEW id, NEW r,
         \A i \in 1 .. Len(parts) : parts[i].id = id /\ parts[i].run = r
  PROVE  Elems(parts) = [fem : FemsOf(parts), id : {id}, run : {r}]
<1>1. \A i \in 1 .. Len(parts) : parts[i] \in STFs
  OBVIOUS
<1>2. ASSUME NEW stf \in Elems(parts) PROVE stf \in [fem : FemsOf(parts), id : {id}, run : {r}]
  <2>1. stf \in STFs /\ stf.id = id /\ stf.run = r /\ stf.fem \in FemsOf(parts)
    BY <1>1 DEF Elems, FemsOf
  <2>2. stf = [fem |-> stf.fem, id |-> stf.id, run |-> stf.run]
    BY <2>1 DEF STFs
  <2> QED BY <2>1, <2>2
<1>3. ASSUME NEW stf \in [fem : FemsOf(parts), id : {id}, run : {r}] PROVE stf \in Elems(parts)
  <2>1. PICK i \in 1 .. Len(parts) : parts[i].fem = stf.fem
    BY DEF FemsOf, Elems
  <2>2. parts[i] = [fem |-> parts[i].fem, id |-> parts[i].id, run |-> parts[i].run]
    BY <1>1 DEF STFs
  <2>3. stf = [fem |-> stf.fem, id |-> id, run |-> r]
    OBVIOUS
  <2>4. parts[i] = stf
    BY <2>1, <2>2, <2>3
  <2> QED BY <2>4 DEF Elems
<1> QED BY <1>2, <1>3

(* Fewer STFs than there are FEMs leave some FEM out.                          *)
LEMMA NotEvery ==
  ASSUME NEW parts \in Seq(STFs), Len(parts) < Cardinality(Fems)
  PROVE  FemsOf(parts) \in SUBSET Fems /\ FemsOf(parts) # Fems
<1> DEFINE N == Len(parts)
           fem == [i \in 1 .. N |-> parts[i].fem]
<1>1. N \in Nat /\ \A i \in 1 .. N : parts[i].fem \in Fems
  <2>1. N \in Nat /\ \A i \in 1 .. N : parts[i] \in STFs
    OBVIOUS
  <2> QED BY <2>1 DEF STFs
<1>2. FemsOf(parts) = {fem[i] : i \in 1 .. N}
  BY DEF FemsOf, Elems
<1>3. fem \in Surjection(1 .. N, FemsOf(parts))
  BY <1>2 DEF Surjection
<1> HIDE DEF N
<1>4. IsFiniteSet(1 .. N) /\ Cardinality(1 .. N) = N
  <2>1. IsFiniteSet(1 .. N)
    BY <1>1, FS_Interval
  <2>2. Cardinality(1 .. N) = N
    BY <1>1, FS_Interval
  <2> QED BY <2>1, <2>2
<1>5. IsFiniteSet(FemsOf(parts)) /\ Cardinality(FemsOf(parts)) <= N
  BY <1>3, <1>4, FS_Surjection
<1>6. Cardinality(FemsOf(parts)) \in Nat /\ Cardinality(Fems) \in Nat
  BY <1>5, ConstantsAssumption, FS_CardinalityType DEF ConstantsAssumption
<1>7. FemsOf(parts) # Fems
  BY <1>1, <1>5, <1>6 DEF N
<1>8. FemsOf(parts) \in SUBSET Fems
  BY <1>1, <1>2 DEF N
<1> QED BY <1>7, <1>8

(* A time frame that is sent is a whole or a partial one of the abstract system. *)
LEMMA Delivered ==
  ASSUME NumSource = Cardinality(Fems), TypeOK, ScanInv, PlacesInv, PlacesInv', SendInv,
         pc = "send", sent' = sent \union {outParts}, UNCHANGED <<run, lost>>,
         \A stf \in STFs : Holds(stf)' <=> Holds(stf) /\ ~InSend(stf)
  PROVE  Delivery!Next
<1> DEFINE S == Elems(outParts.parts)
<1>1. /\ outParts \in Frames /\ outParts.id \in TFIds /\ outParts.parts \in Seq(STFs)
      /\ outParts.type \in FrameTypes
  BY DEF TypeOK, ControlOK, Frames
<1>2. OneOfEach(outParts.parts, outParts.id)
  BY DEF PlacesInv, FramesInv
<1>3. S = [fem : FemsOf(outParts.parts), id : {outParts.id}, run : {run}]
  BY <1>1, <1>2, STFsOfFrame, ZenonT(60) DEF OneOfEach, SendInv
<1>4. S \in SUBSET STFs /\ \A stf \in STFs : InSend(stf) <=> stf \in S
  BY <1>1 DEF InSend, Elems
<1>5. ASSUME NEW stf \in STFs
      PROVE  FateOf(stf)' = IF stf \in S THEN SentAs(outParts) ELSE FateOf(stf)
  <2>1. CASE stf \in S
    BY <2>1, FateReadNext DEF FateRead, SentAs
  <2>2. ASSUME stf \notin S, NEW frame \in sent, stf \in Elems(frame.parts)
        PROVE  FateOf(stf)' = FateOf(stf)
    BY <2>2, FateReadNow, FateReadNext DEF FateRead, SentAs
  <2>3. CASE Holds(stf) /\ stf \notin S
    BY <1>4, <2>3, FateReadNow, FateReadNext DEF FateRead
  <2>4. CASE stf \in lost
    BY <1>4, <2>4, FateReadNow, FateReadNext DEF FateRead, PlacesInv, NoSTFDuplicated
  <2>5. CASE ~Known(stf)
    <3>1. ~Known(stf)' /\ stf \notin S
      BY <1>4, <2>5 DEF Known, Holds, InSent, InSend
    <3> QED BY <2>5, <3>1, FateReadNow, FateReadNext DEF FateRead
  <2> QED BY <2>1, <2>2, <2>3, <2>4, <2>5 DEF Known, Holds, InSent
<1>6. \A stf \in S : FateOf(stf) = "held"
  BY <1>4, FateReadNow DEF FateRead, Holds
<1>7. S # {} /\ Len(outParts.parts) \in Nat
      /\ (outParts.type = "COMPLETE" => Len(outParts.parts) = NumSource)
      /\ (outParts.type # "COMPLETE" => Len(outParts.parts) < NumSource /\ OutputIncompleteTF)
  <2>1. outParts.type = "COMPLETE" => Len(outParts.parts) = NumSource
    BY DEF PlacesInv, FramesInv
  <2>2. outParts.type # "COMPLETE" =>
          Len(outParts.parts) \in 1 .. NumSource - 1 /\ OutputIncompleteTF
    BY <1>1 DEF FrameTypes, ScanInv, SendInv
  <2>3. NumSource \in Nat \ {0}
    BY ConstantsAssumption DEF ConstantsAssumption
  <2>4. Len(outParts.parts) \in Nat
    BY <1>1
  <2>5. 1 \in 1 .. Len(outParts.parts)
    BY <2>1, <2>2, <2>3, <2>4
  <2>6. S # {}
    BY <2>5 DEF Elems
  <2> QED BY <2>1, <2>2, <2>3, <2>4, <2>6
<1>8. Delivery!Settle(S, SentAs(outParts))
  <2> HIDE DEF S
  <2> QED BY <1>4, <1>5, <1>6, <1>7, Settled
<1>9. CASE outParts.type = "COMPLETE"
  <2>1. FemsOf(outParts.parts) = Fems
    BY <1>1, <1>2, <1>7, <1>9, OneOfEvery
  <2>2. Delivery!DeliverWhole(outParts.id)
    BY <1>3, <1>8, <1>9, <2>1 DEF Delivery!DeliverWhole, SentAs
  <2> QED BY <1>1, <2>2 DEF Delivery!Next
<1>10. CASE outParts.type # "COMPLETE"
  <2>1. FemsOf(outParts.parts) \in SUBSET Fems /\ FemsOf(outParts.parts) # Fems
    BY <1>1, <1>7, <1>10, NotEvery
  <2>2. Delivery!DeliverPartial(outParts.id)
    BY <1>3, <1>7, <1>8, <1>10, <2>1 DEF Delivery!DeliverPartial, SentAs
  <2> QED BY <1>1, <2>2 DEF Delivery!Next
<1> QED BY <1>9, <1>10

-----------------------------------------------------------------------------
(* Every step of the device, seen by the abstract system.                      *)

(* SendSTF is Accept.                                                       *)
LEMMA SendIsAccept ==
  ASSUME TypeOK, PlacesInv, PlacesInv', NEW f \in Fems, NEW id \in TFIds, SendSTF(f, id)
  PROVE  Delivery!Next
<1> DEFINE new == [fem |-> f, id |-> id, run |-> run]
<1>1. UNCHANGED <<run, sent, lost>> /\ new.run = run
  BY DEF SendSTF, sending
<1>2. /\ new \in STFs /\ ~Known(new)
      /\ \A stf \in STFs : /\ InInput(stf)' <=> InInput(stf) \/ stf = new
                           /\ InBuffer(stf)' = InBuffer(stf)
                           /\ InSend(stf)' = InSend(stf) /\ InSent(stf)' = InSent(stf)
  BY NewSTF, Zenon
<1> HIDE DEF new
<1>3. ASSUME NEW stf \in STFs PROVE FateOf(stf)' = IF stf = new THEN "held" ELSE FateOf(stf)
  <2>1. CASE stf = new
    BY <1>2, <2>1, FateReadNext DEF FateRead, Holds
  <2>2. CASE stf # new /\ stf \in lost
    BY <1>1, <2>2, FateReadNow, FateReadNext DEF FateRead
  <2>3. ASSUME stf # new, NEW frame \in sent, stf \in Elems(frame.parts)
        PROVE  FateOf(stf)' = FateOf(stf)
    BY <1>1, <2>3, FateReadNow, FateReadNext DEF FateRead, SentAs
  <2>4. CASE stf # new /\ Holds(stf)
    <3>1. Holds(stf)'
      BY <1>2, <2>4 DEF Holds
    <3> QED BY <2>4, <3>1, FateReadNow, FateReadNext DEF FateRead
  <2>5. CASE stf # new /\ ~Known(stf)
    <3>1. ~Known(stf)'
      BY <1>1, <1>2, <2>5 DEF Known
    <3> QED BY <2>5, <3>1, FateReadNow, FateReadNext DEF FateRead
  <2> QED BY <2>1, <2>2, <2>3, <2>4, <2>5 DEF Known, Holds, InSent
<1>4. FateOf(new) = "upstream"
  BY <1>2, FateReadNow DEF FateRead
<1>5. Delivery!Accept(new)
  BY <1>1, <1>2, <1>3, <1>4 DEF Delivery!Accept
<1> QED BY <1>2, <1>5, SameSTFs DEF Delivery!Next

(* PreRun is NewRun.                                                        *)
LEMMA PreRunIsNewRun ==
  ASSUME TypeOK, ScanInv, PlacesInv, PlacesInv', PreRun
  PROVE  Delivery!Next
<1>1. /\ UNCHANGED <<fTFBuffer, outParts, sent, lost, input>> /\ run' = run + 1
      /\ run < MaxRuns /\ pc = "ready"
  BY DEF PreRun, buffer
<1>2. \A stf \in STFs : /\ InInput(stf)' = InInput(stf) /\ InBuffer(stf)' = InBuffer(stf)
                        /\ InSend(stf)' = InSend(stf) /\ InSent(stf)' = InSent(stf)
                        /\ ~InInput(stf) /\ ~InBuffer(stf) /\ ~InSend(stf)
  <2>1. /\ \A f \in Fems : input[f] = <<>>
        /\ \A id \in TFIds : fTFBuffer[id] = <<>>
        /\ outParts = NoFrame
    BY <1>1 DEF PlacesInv, BufferInv, ScanInv, Sending
  <2> QED BY <1>1, <2>1, NothingInEmpty DEF InInput, InBuffer, InSend, InSent, NoFrame, STFs
<1>3. ASSUME NEW stf \in STFs PROVE FateOf(stf)' = FateOf(stf) /\ FateOf(stf) # "held"
  <2>1. CASE stf \in lost
    BY <1>1, <2>1, FateReadNow, FateReadNext DEF FateRead
  <2>2. ASSUME NEW frame \in sent, stf \in Elems(frame.parts)
        PROVE  FateOf(stf)' = FateOf(stf) /\ FateOf(stf) # "held"
    BY <1>1, <2>2, FateReadNow, FateReadNext DEF FateRead, SentAs
  <2>3. CASE ~Known(stf)
    <3>1. ~Known(stf)'
      BY <1>1, <1>2, <2>3 DEF Known
    <3> QED BY <2>3, <3>1, FateReadNow, FateReadNext DEF FateRead
  <2> QED BY <1>2, <2>1, <2>2, <2>3 DEF Known, InSent
<1>4. Delivery!Held = {}
  BY <1>3, SameSTFs DEF Delivery!Held
<1>5. run + 1 \in 1 .. MaxRuns
  BY <1>1, ConstantsAssumption DEF TypeOK, SourcesOK, ConstantsAssumption
<1>6. Delivery!NewRun
  BY <1>1, <1>3, <1>4, <1>5 DEF Delivery!NewRun
<1> QED BY <1>6 DEF Delivery!Next

(* BeginPostRun and DrainOne are Lose, or a stutter.                           *)
LEMMA DrainIsLose ==
  ASSUME TypeOK, PlacesInv, PlacesInv', BeginPostRun \/ \E f \in Fems : DrainOne(f)
  PROVE  Delivery!Next \/ UNCHANGED Delivery!vars
<1>1. CASE BeginPostRun
  <2> DEFINE S == {stf \in STFs : InBuffer(stf)}
  <2>1. \A stf \in STFs : /\ InInput(stf)' = InInput(stf) /\ ~InBuffer(stf)'
                          /\ InSend(stf)' = InSend(stf)
                          /\ stf \in lost' <=> stf \in lost \/ InBuffer(stf)
    BY <1>1, BufferLost
  <2>2. lost \in SUBSET STFs /\ lost' \in SUBSET STFs
    <3>1. \A id \in TFIds : Elems(fTFBuffer[id]) \subseteq STFs
      BY DEF TypeOK, BufferOK, Elems
    <3> QED BY <1>1, <3>1 DEF BeginPostRun, TypeOK
  <2>3. lost' = lost \union S
    BY <2>1, <2>2
  <2>4. UNCHANGED <<run, sent>>
    BY <1>1 DEF BeginPostRun, sending, sources
  <2>5. \A stf \in STFs : Holds(stf)' <=> Holds(stf) /\ stf \notin S
    BY <2>1 DEF Holds, PlacesInv, NoSTFDuplicated
  <2>6. \A stf \in S : Holds(stf)
    BY DEF Holds
  <2> HIDE DEF S
  <2>7. S \in SUBSET STFs
    BY DEF S
  <2> QED BY <2>3, <2>4, <2>5, <2>6, <2>7, Dropped
<1>2. ASSUME NEW f \in Fems, DrainOne(f) PROVE Delivery!Next \/ UNCHANGED Delivery!vars
  <2> DEFINE first == Head(input[f])
  <2>1. /\ UNCHANGED <<fTFBuffer, outParts, sent, run>> /\ input[f] # <<>>
        /\ input' = [input EXCEPT ![f] = Tail(@)] /\ lost' = lost \union {first}
    BY <1>2 DEF DrainOne, control, buffer, sending
  <2>2. /\ first \in STFs /\ InInput(first)
        /\ \A stf \in STFs : InInput(stf)' <=> InInput(stf) /\ stf # first
    BY <2>1, TakeFirst
  <2> HIDE DEF first
  <2>3. \A stf \in STFs : InBuffer(stf)' = InBuffer(stf) /\ InSend(stf)' = InSend(stf)
    BY <2>1 DEF InBuffer, InSend
  <2>4. \A stf \in STFs : Holds(stf)' <=> Holds(stf) /\ stf \notin {first}
    BY <2>2, <2>3 DEF Holds, PlacesInv, NoSTFDuplicated
  <2>5. {first} \in SUBSET STFs /\ \A stf \in {first} : Holds(stf)
    BY <2>2 DEF Holds
  <2> QED BY <2>1, <2>4, <2>5, Dropped
<1> QED BY <1>1, <1>2

(* An entry that is sent is still held, one that is dropped is lost.            *)
LEMMA EntryLeaves ==
  ASSUME TypeOK, ScanInv, PlacesInv, PlacesInv', pc = "scan", NEW id \in TFIds, NEW type,
         EraseEntry(id), UNCHANGED <<run, sent, input>>, pc' \notin {"ready", "drain"},
         \/ StartSending(id, type) /\ UNCHANGED lost
         \/ lost' = lost \union Elems(fTFBuffer[id]) /\ UNCHANGED outParts
  PROVE  Delivery!Next \/ UNCHANGED Delivery!vars
<1>1. \A stf \in STFs : InBuffer(stf)' <=> InBuffer(stf) /\ stf.id # id
  BY EntryErased DEF EraseEntry
<1>2. \A stf \in STFs : ~InSend(stf) /\ InInput(stf)' = InInput(stf)
  BY NothingInEmpty DEF ScanInv, Sending, InSend, NoFrame, InInput
<1>3. CASE StartSending(id, type) /\ UNCHANGED lost
  <2>1. \A stf \in STFs : InSend(stf)' <=> InBuffer(stf) /\ stf.id = id
    BY <1>3, EntryOfId DEF InSend, StartSending
  <2>2. \A stf \in STFs : Holds(stf)' <=> Holds(stf)
    BY <1>1, <1>2, <2>1 DEF Holds
  <2> QED BY <1>3, <2>2, Stutter
<1>4. CASE lost' = lost \union Elems(fTFBuffer[id]) /\ UNCHANGED outParts
  <2> DEFINE S == Elems(fTFBuffer[id])
  <2>1. S \in SUBSET STFs
    BY DEF TypeOK, BufferOK, Elems
  <2>2. \A stf \in STFs : stf \in S <=> InBuffer(stf) /\ stf.id = id
    BY EntryOfId
  <2>3. \A stf \in STFs : InSend(stf)' = InSend(stf)
    BY <1>4 DEF InSend
  <2> HIDE DEF S
  <2>4. \A stf \in STFs : Holds(stf)' <=> Holds(stf) /\ stf \notin S
    BY <1>1, <1>2, <2>2, <2>3 DEF Holds, PlacesInv, NoSTFDuplicated
  <2>5. \A stf \in S : Holds(stf)
    BY <2>1, <2>2 DEF Holds
  <2>6. lost' = lost \union S
    BY <1>4 DEF S
  <2> QED BY <2>1, <2>4, <2>5, <2>6, Dropped
<1> QED BY <1>3, <1>4

(* The end of a send delivers the time frame or drops it.                      *)
LEMMA EndOfSend ==
  ASSUME NumSource = Cardinality(Fems), TypeOK, ScanInv, PlacesInv, PlacesInv', SendInv,
         pc = "send", EndSending,
         \/ sent' = sent \union {outParts} /\ UNCHANGED lost
         \/ lost' = lost \union Elems(outParts.parts) /\ UNCHANGED sent
  PROVE  Delivery!Next \/ UNCHANGED Delivery!vars
<1>1. UNCHANGED <<fTFBuffer, input, run>> /\ outParts' = NoFrame
  BY DEF EndSending, buffer, sources
<1>2. \A stf \in STFs : Holds(stf)' <=> Holds(stf) /\ ~InSend(stf)
  BY <1>1, NothingInEmpty DEF Holds, InInput, InBuffer, InSend, NoFrame, PlacesInv,
                              NoSTFDuplicated
<1>3. CASE sent' = sent \union {outParts} /\ UNCHANGED lost
  BY <1>1, <1>2, <1>3, Delivered
<1>4. CASE lost' = lost \union Elems(outParts.parts) /\ UNCHANGED sent
  <2>1. Elems(outParts.parts) \in SUBSET STFs
    BY DEF TypeOK, ControlOK, Frames, Elems
  <2>2. \A stf \in Elems(outParts.parts) : Holds(stf)
    BY DEF Holds, InSend
  <2>3. \A stf \in STFs : Holds(stf)' <=> Holds(stf) /\ stf \notin Elems(outParts.parts)
    BY <1>2 DEF InSend
  <2> QED BY <1>1, <1>4, <2>1, <2>2, <2>3, Dropped
<1> QED BY <1>3, <1>4

(* Every step of the device and its environment is one of the abstract system,   *)
(* or a stutter.                                                            *)
LEMMA DeliveryNext ==
  ASSUME NumSource = Cardinality(Fems), TypeOK, ScanInv, PlacesInv, PlacesInv', SendInv,
         [Next]_vars
  PROVE  Delivery!Next \/ UNCHANGED Delivery!vars
<1> DEFINE Goal == Delivery!Next \/ UNCHANGED Delivery!vars
<1>1. CASE UNCHANGED <<fTFBuffer, outParts, input, run, sent, lost>>
  <2>1. \A stf \in STFs : Holds(stf)' <=> Holds(stf)
    BY <1>1 DEF Holds, InInput, InBuffer, InSend
  <2> QED BY <1>1, <2>1, Stutter
<1>2. ASSUME NEW f \in Fems, NEW id \in TFIds, SendSTF(f, id) PROVE Goal
  BY <1>2, SendIsAccept
<1>3. CASE PreRun
  BY <1>3, PreRunIsNewRun
<1>4. CASE BeginPostRun \/ \E f \in Fems : DrainOne(f)
  BY <1>4, DrainIsLose
<1>5. ASSUME NEW f \in Fems, ReceiveSTF(f) PROVE Goal
  <2> DEFINE first == Head(input[f])
  <2>1. UNCHANGED <<run, sent, lost>> /\ input[f] # <<>>
        /\ input' = [input EXCEPT ![f] = Tail(@)]
    BY <1>5 DEF ReceiveSTF, sending
  <2>2. first \in STFs /\ InInput(first)
    BY <2>1, TakeFirst
  <2>3. \A stf \in STFs : /\ InInput(stf)' <=> InInput(stf) /\ stf # first
                          /\ InBuffer(stf)' <=> InBuffer(stf) \/ stf = first
                          /\ InSend(stf)' = InSend(stf)
    BY <1>5, FirstReceived
  <2> HIDE DEF first
  <2>4. \A stf \in STFs : Holds(stf)' <=> Holds(stf)
    BY <2>2, <2>3 DEF Holds
  <2> QED BY <2>1, <2>4, Stutter
<1>6. ASSUME NEW id \in TFIds, VisitComplete(id) PROVE Goal
  <2>1. /\ pc = "scan" /\ EraseEntry(id) /\ StartSending(id, "COMPLETE")
        /\ UNCHANGED <<run, sent, input, lost>>
    BY <1>6 DEF VisitComplete, sending, sources
  <2>2. pc' \notin {"ready", "drain"}
    BY <2>1 DEF StartSending
  <2> QED BY <2>1, <2>2, EntryLeaves
<1>7. ASSUME NEW id \in TFIds, NEW type, pc = "scan", GiveUp(id, type) PROVE Goal
  <2>1. EraseEntry(id) /\ UNCHANGED <<run, sent, input>>
    BY <1>7 DEF GiveUp, sending, sources
  <2>2. CASE OutputIncompleteTF
    <3>1. StartSending(id, type) /\ UNCHANGED lost /\ pc' \notin {"ready", "drain"}
      BY <1>7, <2>2 DEF GiveUp, StartSending
    <3> QED BY <1>7, <2>1, <3>1, EntryLeaves
  <2>3. CASE ~OutputIncompleteTF
    <3>1. lost' = lost \union Elems(fTFBuffer[id]) /\ UNCHANGED outParts
          /\ pc' \notin {"ready", "drain"}
      BY <1>7, <2>3 DEF GiveUp
    <3> QED BY <1>7, <2>1, <3>1, EntryLeaves
  <2> QED BY <2>2, <2>3
<1>8. ASSUME NEW id \in TFIds, VisitTimedOut(id) \/ Evict(id) PROVE Goal
  <2>1. \E type \in {"TIMEOUT", "DEPTH_LIMIT"} : pc = "scan" /\ GiveUp(id, type)
    BY <1>8 DEF VisitTimedOut, Evict
  <2> QED BY <2>1, <1>7
<1>9. CASE SendSucceeds
  BY <1>9, EndOfSend DEF SendSucceeds
<1>10. CASE SendBlocked
  <2>1. CASE DiscardOutput /\ attempts + 1 >= NumDestination
    BY <1>10, <2>1, EndOfSend DEF SendBlocked
  <2>2. CASE ~(DiscardOutput /\ attempts + 1 >= NumDestination)
    BY <1>1, <1>10, <2>2 DEF SendBlocked, buffer, sources
  <2> QED BY <2>1, <2>2
<1>11. CASE SendInterrupted
  BY <1>11, EndOfSend DEF SendInterrupted, sending
<1>12. CASE \/ \E d \in Destinations : Consume(d)
            \/ Tick \/ RequestStop \/ StopUpstream
  BY <1>1, <1>12 DEF Consume, Tick, RequestStop, StopUpstream, control, buffer, sending, sources
<1>13. CASE \/ DrainNothing \/ Loop \/ ReceiveNothing \/ KeepAll \/ DecimatorInterrupted
            \/ \E id \in TFIds : VisitWaiting(id)
            \/ \E due \in BOOLEAN : Report(due)
            \/ \E pollReady \in BOOLEAN : Decimate(pollReady)
  BY <1>1, <1>13 DEF DrainNothing, Loop, ReceiveNothing, KeepAll, DecimatorInterrupted,
                     VisitWaiting, Report, Decimate, buffer, sending, sources
<1>14. CASE UNCHANGED vars
  BY <1>1, <1>14 DEF vars, control, buffer, sending, sources
<1> QED
  BY <1>2, <1>3, <1>4, <1>5, <1>6, <1>8, <1>9, <1>10, <1>11, <1>12, <1>13, <1>14
  DEF Next, Environment, Device, Scan

(* At first every STF is upstream.                                           *)
LEMMA DeliveryInit == Init => Delivery!Init
<1> SUFFICES ASSUME Init PROVE Delivery!Init
  OBVIOUS
<1>1. PlacesInv
  BY PlacesInit
<1>2. /\ \A f \in Fems : input[f] = <<>>
      /\ \A id \in TFIds : fTFBuffer[id] = <<>>
      /\ outParts = NoFrame /\ sent = {} /\ lost = {} /\ run = 0
  BY DEF Init
<1>3. \A stf \in STFs : ~Known(stf)
  BY <1>2, NothingInEmpty DEF Known, InInput, InBuffer, InSend, InSent, NoFrame, STFs
<1>4. \A stf \in STFs : FateOf(stf) = "upstream"
  BY <1>1, <1>3, FateReadNow DEF FateRead
<1> QED BY <1>2, <1>4, SameSTFs DEF Delivery!Init

(* TimeFrameBuilder implements SubTimeFrameDelivery: with one source for each      *)
(* FEM every STF it accepts meets one fate for good, is delivered with its whole   *)
(* time frame, or in a partial one where that is configured, or is lost, and      *)
(* none outlives its run.                                                   *)
THEOREM KeepsItsPromise ==
  ASSUME NumSource = Cardinality(Fems), StopsInTime
  PROVE  Spec => DeliverySpec
<1>1. TypeOK /\ ScanInv /\ PlacesInv /\ PlacesInv' /\ SendInv /\ [Next]_vars
        => Delivery!Next \/ UNCHANGED Delivery!vars
  BY DeliveryNext
<1>2. TypeOK /\ ScanInv /\ PlacesInv /\ PlacesInv' /\ SendInv /\ [Next]_vars
        => [Delivery!Next]_(Delivery!vars)
  BY <1>1
<1> QED BY <1>2, DeliveryInit, TypeCorrect, ScanCorrect, PlacesCorrect, SendCorrect, PTL
        DEF Spec, DeliverySpec, Delivery!Spec

=============================================================================
