----------------------------- MODULE TriggerChain -----------------------------
(***************************************************************************)
(* LogicFilter and TimeFrameSlicerByLogicTiming as they run behind each other:  *)
(* what the filter sends, the slicer receives.  The time frame builder before     *)
(* them and the consumers after them are their surroundings.                  *)
(***************************************************************************)
EXTENDS TimeFrameSlicer

CONSTANTS
  NsigMax, Configurations, Signals, MarkLen, TimeRegion, InputHWM, MaxFilterRuns,
  Frames,         (* the time frames that the builder may send                 *)
  FewFrames,      (* bound: those that may come while one is still on its way    *)
  StartedWith     (* bound: the configurations with which time frames are sent    *)

VARIABLES options, fTMap, filter, filterStop, filterRuns, filterInput, filterParts, filterOut

LF == INSTANCE LogicFilter

filterVars  == <<options, fTMap, filter, filterStop, filterRuns, filterInput, filterParts, filterOut>>
slicerVars  == <<slicer, slicerStop, slicerRuns, inParts, tables, fIdxHBF, loops, outParts,
                 fDirection, output>>
chainVars   == <<vars, filterVars>>

(* All modules of the set-up are in every complete frame; the builder announces as    *)
(* many in an incomplete one.  STFBuilder counts the messages after a header in it.    *)
ASSUME ChainConstantsAssumption ==
  /\ NsigMax \in Nat \ {0} /\ MarkLen \in Nat /\ InputHWM \in Nat
  /\ \A c \in Configurations : c.expression \in Seq(LF!Tokens)
  /\ TimeRegion = MaxTime + 1 /\ 2 * (TimeRegion + MarkLen) < WordSize
  /\ Signals \in Seq([fem : Nat, ch : Nat, delay : Int]) /\ Len(Signals) <= NsigMax
  /\ \A i \in DOMAIN Signals : 2 * Signals[i].delay \in -WordSize .. WordSize
  /\ FewFrames \subseteq Frames /\ StartedWith \subseteq Configurations
  /\ Frames \subseteq Messages
  /\ \A frame \in Frames :
       /\ frame.lists = <<>> /\ Len(frame.stfs) <= frame.numSource
       /\ \A s \in DOMAIN frame.stfs : frame.stfs[s].numMessages = Len(frame.stfs[s].hbfs)
       /\ \A other \in Frames : other.numSource = frame.numSource

(* The frames that may come.  Bounds: those of Frames to an empty chain, those of     *)
(* FewFrames to an empty filter.                                             *)
Coming ==
  IF filterInput # <<>> \/ filterParts # LF!NoFrame THEN {}
  ELSE IF link # <<>> \/ inParts # NoMessage THEN FewFrames ELSE Frames

SendFrame ==
  /\ options \in StartedWith
  /\ \E frame \in Coming : LF!SendFrame(frame)

FilterStep ==
  /\ LF!Device \/ LF!RequestStop \/ (options \in StartedWith /\ LF!Run) \/ SendFrame
  /\ UNCHANGED slicerVars

SlicerStep == options \in StartedWith /\ Local /\ UNCHANGED filterVars

ChainInit == Init /\ LF!Init

ChainNext == FilterStep \/ SlicerStep

ChainSpec == ChainInit /\ [][ChainNext]_chainVars

-----------------------------------------------------------------------------
(* Properties.                                                              *)

ChainTypeOK ==
  /\ TypeOK
  /\ options \in Configurations
  /\ filter \in {"init", "failed", "undefined", "ready", "idle", "dqm", "send"}
  /\ filterStop \in BOOLEAN /\ filterRuns \in Nat
  /\ fTMap.nsignal \in 0 .. NsigMax - 1 /\ fTMap.lut \subseteq SUBSET (0 .. fTMap.nsignal - 1)
  /\ filterInput \in Seq(Frames) /\ Len(filterInput) <= InputHWM
  /\ filterParts \in Frames \cup {LF!NoFrame}
  /\ filterOut \in Messages

(* See LogicFilter: the table of the trigger expression is its meaning.              *)
TableIsExpression == LF!TableIsExpression

(* See LogicFilter: the trigger times are the rising edges of the expression.          *)
TriggersAreRisingCoincidences == LF!TriggersAreRisingCoincidences

(* See LogicFilter: the headers of sub time frames count the messages that follow them.  *)
HeadersCountMessages == LF!HeadersCountMessages

(* A frame from the builder with all its sub time frames, none of which has fewer HBFs    *)
(* than the last.                                                              *)
RegularFrame(m) ==
  /\ Len(m.stfs) = m.numSource
  /\ \A s \in DOMAIN m.stfs : Len(Last(m.stfs).hbfs) <= Len(m.stfs[s].hbfs)

(* Whatever frames went before, regular or blank, longer or shorter, the lists that the    *)
(* filter makes and the containers that the slicer reuses are long enough for a regular    *)
(* frame, as long as the filter does not suppress data (MakeBlockMap, ParseMessages).   *)
RegularFramesAreSliced ==
  slicer \in {"failed", "undefined"} => options.suppress \/ ~RegularFrame(inParts)

(* The filter sends nothing that is not a message in the form the slicer's specification   *)
(* allows: the trigger lists ascend, the times are in the range of tdc4n; so what holds     *)
(* of the slicer for all messages holds in the chain (Trigger::Scan, AddFilterMessage).   *)
ImplementsSlicer == Spec

=============================================================================
