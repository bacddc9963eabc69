--------------------------- MODULE TimeFrameSlicer ---------------------------
(***************************************************************************)
(* TimeFrameSlicerByLogicTiming.cxx with FrameContainer.h: takes the time       *)
(* frames that the logic filter sends and cuts from the sorted words of every   *)
(* heartbeat frame (HBF), for every trigger time in the list of its number, the  *)
(* words in a window around that time.                                       *)
(*                                                                         *)
(* The words of a source are walked through once, an index that is kept from    *)
(* trigger to trigger, and set back only when the next window begins before this *)
(* one ends.  An action below is one turn of the loop over the words, or the      *)
(* step of one of the loops around it.                                       *)
(*                                                                         *)
(* Messages are as in LogicFilter, with the lists of trigger times.  The          *)
(* containers fTF and fLF are reused: they only grow, and an entry that the        *)
(* message in hand has not set points into a message that is gone, or nowhere.     *)
(*                                                                         *)
(* Abstractions.  Of the slices their words, of the tables their sizes are kept.  *)
(* No sub time frame is one that a slicer made (type META), and all have one of    *)
(* the V3 types.                                                            *)
(***************************************************************************)
EXTENDS Integers, SequencesExt

CONSTANTS
  OffsetBegin, OffsetEnd, (* fOffset: where a window begins and ends          *)
  MaxTime,        (* the largest tdc4n: 2^17 - 1                             *)
  WordSize,       (* trigger times and window borders are uint32_t: 2^32       *)
  NumDestination, (* fNumDestination                                       *)
  OutputHWM,      (* time frames that may wait at one destination              *)
  LinkHWM,        (* time frames that may wait at the slicer                   *)
  MaxSlicerRuns   (* bound: number of runs                                  *)

ASSUME SlicerConstantsAssumption ==
  /\ OffsetBegin \in Int /\ OffsetEnd \in Int /\ OffsetBegin <= OffsetEnd
  /\ MaxTime \in Nat /\ WordSize \in Nat
  /\ MaxTime + OffsetEnd + 1 < WordSize /\ MaxTime - OffsetBegin < WordSize
  /\ NumDestination \in Nat \ {0} /\ OutputHWM \in Nat \ {0}
  /\ LinkHWM \in Nat \ {0} /\ MaxSlicerRuns \in Nat

(* A word, as Unpack gives it: tdc4n is -1 for words that have no time.          *)
Words == [hit : BOOLEAN, ch : Nat, t : -1 .. MaxTime]
STFs  == [fem : Nat, numMessages : Nat, hbfs : Seq({S \in SUBSET Words : IsFiniteSet(S)})]

Ascending(list) == \A i, j \in DOMAIN list : i < j => list[i] < list[j]

(* What may come: Trigger::Scan lists the times in ascending order.               *)
Messages == [numSource : Nat,
             lists     : Seq({list \in Seq(0 .. MaxTime) : Ascending(list)}),
             stfs      : Seq(STFs)]

VARIABLES
  slicer,     (* where the device is: "hbf" and "cut" are its loops, "failed"   *)
              (* after an exception, "undefined" after an undefined read        *)
  slicerStop, (* NewStatePending()                                       *)
  slicerRuns,
  link,       (* the messages at the input                                  *)
  inParts,
  fTF,        (* the sizes of the containers of sub time frames: at source s the *)
              (* number of its HBFs                                        *)
  fLF,        (* the size of the container of trigger lists                    *)
  fIdxHBF,
  sorted,     (* the words of each source, sorted by time                       *)
  tdcidxs,    (* source -> the words of it that are passed                      *)
  iTrig, is,  (* the loops over triggers and sources, from 1                     *)
  iKeep,
  cut,        (* the words cut for this trigger and source                      *)
  row,        (* the slices of the sources before                              *)
  slices,     (* the rows of the triggers before                              *)
  outParts,   (* the slices of the HBFs before                               *)
  fDirection,
  output      (* destination -> time frames waiting there                       *)

loops  == <<sorted, tdcidxs, iTrig, is, iKeep, cut, row, slices>>
tables == <<fTF, fLF>>
vars   == <<slicer, slicerStop, slicerRuns, link, inParts, tables, fIdxHBF, loops, outParts,
            fDirection, output>>

NoMessage == [numSource |-> 0, lists |-> <<>>, stfs |-> <<>>]

Sources == DOMAIN fTF
Larger(a, b) == IF a < b THEN b ELSE a

-----------------------------------------------------------------------------
(* ParseMessages.                                                          *)

(* Mutant: a container of HBFs is made once and never enlarged.                    *)
Grown_Once(m) ==
  [s \in 1 .. Larger(Len(fTF), m.numSource) |->
    LET old == IF s \in DOMAIN fTF THEN fTF[s] ELSE 0 IN
    IF s \in DOMAIN m.stfs /\ old = 0 THEN m.stfs[s].numMessages ELSE old]

(* fTF grows to the sources of the header; a container of HBFs to numMessages.   *)
Grown(m) ==
  [s \in 1 .. Larger(Len(fTF), m.numSource) |->
    LET old == IF s \in DOMAIN fTF THEN fTF[s] ELSE 0 IN
    IF s \in DOMAIN m.stfs THEN Larger(old, m.stfs[s].numMessages) ELSE old]

(* fNumHBF: as many as the last sub time frame has.                             *)
NumHBF == IF inParts.stfs = <<>> THEN 0 ELSE Len(Last(inParts.stfs).hbfs)

(* Receive and ParseMessages: at() throws for an HBF beyond the container.        *)
Receive ==
  /\ slicer = "idle" /\ ~slicerStop /\ link # <<>>
  /\ link' = Tail(link) /\ inParts' = Head(link)
  /\ fTF' = Grown(inParts')
  /\ fLF' = IF fLF < Len(inParts'.lists) THEN Len(inParts'.lists) + 1 ELSE fLF
  /\ fIdxHBF' = 0
  /\ slicer' = IF Len(inParts'.stfs) > Len(fTF') THEN "undefined"
               ELSE IF \E s \in DOMAIN inParts'.stfs : Len(inParts'.stfs[s].hbfs) > fTF'[s]
               THEN "failed" ELSE "hbf"
  /\ UNCHANGED <<slicerStop, slicerRuns, loops, outParts, fDirection, output>>

-----------------------------------------------------------------------------
(* The summary block and the sorting.                                        *)

h == fIdxHBF + 1

(* The first source that has no HBF of this number that the message in hand has     *)
(* set.                                                                     *)
Lacks(s) == s \notin DOMAIN inParts.stfs \/ h > fTF[s] \/ h \notin DOMAIN inParts.stfs[s].hbfs

(* What reading fLF[fIdxHBF] and then fTF[is] and fTF[is]->at(fIdxHBF) comes to.    *)
Fault ==
  IF h > fLF \/ h \notin DOMAIN inParts.lists THEN "undefined"
  ELSE IF \A s \in Sources : ~Lacks(s) THEN "none"
  ELSE LET s == CHOOSE s \in Sources : Lacks(s) /\ \A r \in Sources : Lacks(r) => s <= r
       IN  IF s \in DOMAIN inParts.stfs /\ h > fTF[s] THEN "failed" ELSE "undefined"

(* The sequences that std::sort may make of the words.                           *)
Orders(S) ==
  {q \in [1 .. Cardinality(S) -> S] :
     /\ \A w \in S : \E i \in DOMAIN q : q[i] = w
     /\ \A i, j \in DOMAIN q : i < j => q[i] # q[j] /\ q[i].t <= q[j].t}

BeginHBF ==
  /\ slicer = "hbf" /\ fIdxHBF < NumHBF /\ Fault = "none"
  /\ \E order \in [Sources -> UNION {Orders(inParts.stfs[s].hbfs[h]) : s \in Sources}] :
       /\ \A s \in Sources : order[s] \in Orders(inParts.stfs[s].hbfs[h])
       /\ sorted' = order
  /\ slicer' = "cut"
  /\ tdcidxs' = [s \in Sources |-> 0]
  /\ iTrig' = 1 /\ is' = 1 /\ iKeep' = 0 /\ cut' = {} /\ row' = <<>> /\ slices' = <<>>
  /\ UNCHANGED <<slicerStop, slicerRuns, link, inParts, tables, fIdxHBF, outParts, fDirection, output>>

Collapse ==
  /\ slicer = "hbf" /\ fIdxHBF < NumHBF /\ Fault # "none"
  /\ slicer' = Fault
  /\ UNCHANGED <<slicerStop, slicerRuns, link, inParts, tables, fIdxHBF, loops, outParts, fDirection, output>>

-----------------------------------------------------------------------------
(* The loops over triggers, sources and words.                                  *)

List     == inParts.lists[h]
Begin(i) == (List[i] + OffsetBegin) % WordSize
End(i)   == (List[i] + OffsetEnd) % WordSize
Time(w)  == w.t % WordSize     (* an int compared with a uint32_t             *)

HasOverlap(i) == i < Len(List) /\ Begin(i + 1) < End(i)

Cutting == slicer = "cut" /\ iTrig \in DOMAIN List /\ is \in Sources
it      == tdcidxs[is]
AtEnd   == it = Len(sorted[is])
Next_w  == sorted[is][it + 1]

unchangedByLoops == <<slicerStop, slicerRuns, link, inParts, tables, fIdxHBF, outParts, fDirection, output>>

Skip ==
  /\ Cutting /\ ~AtEnd /\ Time(Next_w) < Begin(iTrig)
  /\ iKeep' = iKeep + 1
  /\ tdcidxs' = [tdcidxs EXCEPT ![is] = @ + 1]
  /\ UNCHANGED <<slicer, sorted, iTrig, is, cut, row, slices, unchangedByLoops>>

Take ==
  /\ Cutting /\ ~AtEnd /\ ~(Time(Next_w) < Begin(iTrig)) /\ ~(Time(Next_w) > End(iTrig))
  /\ cut' = cut \cup {Next_w}
  /\ tdcidxs' = [tdcidxs EXCEPT ![is] = @ + 1]
  /\ UNCHANGED <<slicer, sorted, iTrig, is, iKeep, row, slices, unchangedByLoops>>

(* Mutant: the index is never set back.                                        *)
NextSource_NoRewind ==
  /\ Cutting
  /\ ~AtEnd => ~(Time(Next_w) < Begin(iTrig)) /\ Time(Next_w) > End(iTrig)
  /\ row' = Append(row, cut)
  /\ cut' = {}
  /\ is' = is + 1
  /\ iKeep' = IF is + 1 \in Sources THEN tdcidxs[is + 1] ELSE 0
  /\ UNCHANGED <<slicer, sorted, tdcidxs, iTrig, slices, unchangedByLoops>>

NextSource ==
  /\ Cutting
  /\ ~AtEnd => ~(Time(Next_w) < Begin(iTrig)) /\ Time(Next_w) > End(iTrig)
  /\ row' = Append(row, cut)
  /\ tdcidxs' = IF HasOverlap(iTrig) THEN [tdcidxs EXCEPT ![is] = iKeep] ELSE tdcidxs
  /\ cut' = {}
  /\ is' = is + 1
  /\ iKeep' = IF is + 1 \in Sources THEN tdcidxs[is + 1] ELSE 0
  /\ UNCHANGED <<slicer, sorted, iTrig, slices, unchangedByLoops>>

NextTrigger ==
  /\ slicer = "cut" /\ iTrig \in DOMAIN List /\ is \notin Sources
  /\ slices' = Append(slices, row)
  /\ row' = <<>>
  /\ iTrig' = iTrig + 1
  /\ is' = 1
  /\ iKeep' = IF 1 \in Sources THEN tdcidxs[1] ELSE 0
  /\ UNCHANGED <<slicer, sorted, tdcidxs, cut, unchangedByLoops>>

forgetLoops ==
  /\ sorted' = <<>> /\ tdcidxs' = <<>> /\ iTrig' = 0 /\ is' = 0 /\ iKeep' = 0
  /\ cut' = {} /\ row' = <<>> /\ slices' = <<>>

EndHBF ==
  /\ slicer = "cut" /\ iTrig \notin DOMAIN List
  /\ slicer' = "hbf"
  /\ outParts' = Append(outParts, slices)
  /\ fIdxHBF' = fIdxHBF + 1
  /\ forgetLoops
  /\ UNCHANGED <<slicerStop, slicerRuns, link, inParts, tables, fDirection, output>>

EndHBFs ==
  /\ slicer = "hbf" /\ ~(fIdxHBF < NumHBF)
  /\ slicer' = "dqm"
  /\ UNCHANGED <<slicerStop, slicerRuns, link, inParts, tables, fIdxHBF, loops, outParts, fDirection, output>>

-----------------------------------------------------------------------------
(* Sending.                                                                *)

(* The send to the monitoring channel, when there is one, is waited for.         *)
SendDqm ==
  /\ slicer = "dqm"
  /\ slicer' = "send"
  /\ UNCHANGED <<slicerStop, slicerRuns, link, inParts, tables, fIdxHBF, loops, outParts, fDirection, output>>

Leave ==
  /\ slicer' = "idle"
  /\ inParts' = NoMessage /\ outParts' = <<>> /\ fIdxHBF' = 0

(* Mutant: the direction is not reduced to the number of destinations.               *)
SendSucceeds_Unreduced ==
  /\ slicer = "send" /\ outParts # <<>> /\ output[fDirection] < OutputHWM
  /\ output' = [output EXCEPT ![fDirection] = @ + 1]
  /\ fDirection' = fDirection + 1
  /\ Leave
  /\ UNCHANGED <<slicerStop, slicerRuns, link, tables, loops>>

SendSucceeds ==
  /\ slicer = "send" /\ outParts # <<>> /\ output[fDirection] < OutputHWM
  /\ output' = [output EXCEPT ![fDirection] = @ + 1]
  /\ fDirection' = (fDirection + 1) % NumDestination
  /\ Leave
  /\ UNCHANGED <<slicerStop, slicerRuns, link, tables, loops>>

(* The next destination is tried; a message without parts, of a time frame without    *)
(* heartbeat frames, is never sent, and only a stop ends the loop.                  *)
SendBlocked ==
  /\ slicer = "send"
  /\ outParts = <<>> \/ output[fDirection] = OutputHWM
  /\ fDirection' = (fDirection + 1) % NumDestination
  /\ UNCHANGED <<slicer, slicerStop, slicerRuns, link, inParts, tables, fIdxHBF, loops, outParts, output>>

SendInterrupted ==
  /\ slicer = "send" /\ slicerStop
  /\ Leave
  /\ UNCHANGED <<slicerStop, slicerRuns, link, tables, loops, fDirection, output>>

-----------------------------------------------------------------------------
(* The life cycle.                                                          *)

PreRun ==
  /\ slicer = "ready" /\ slicerRuns < MaxSlicerRuns
  /\ slicer' = "idle" /\ slicerStop' = FALSE /\ slicerRuns' = slicerRuns + 1
  /\ UNCHANGED <<link, inParts, tables, fIdxHBF, loops, outParts, fDirection, output>>

RequestStop ==
  /\ slicer \in {"idle", "hbf", "cut", "dqm", "send"} /\ ~slicerStop
  /\ slicerStop' = TRUE
  /\ UNCHANGED <<slicer, slicerRuns, link, inParts, tables, fIdxHBF, loops, outParts, fDirection, output>>

BeginPostRun ==
  /\ slicer = "idle" /\ slicerStop
  /\ slicer' = "drain"
  /\ UNCHANGED <<slicerStop, slicerRuns, link, inParts, tables, fIdxHBF, loops, outParts, fDirection, output>>

DrainOne ==
  /\ slicer = "drain" /\ link # <<>>
  /\ link' = Tail(link)
  /\ UNCHANGED <<slicer, slicerStop, slicerRuns, inParts, tables, fIdxHBF, loops, outParts, fDirection, output>>

EndPostRun ==
  /\ slicer = "drain" /\ link = <<>>
  /\ slicer' = "ready"
  /\ UNCHANGED <<slicerStop, slicerRuns, link, inParts, tables, fIdxHBF, loops, outParts, fDirection, output>>

-----------------------------------------------------------------------------
(* The rest of the system.                                                    *)

(* The filter sends, anything that has the form of a message.                     *)
Arrive ==
  /\ Len(link) < LinkHWM
  /\ link' # <<>> /\ Last(link') \in Messages /\ link' = Append(link, Last(link'))
  /\ UNCHANGED <<slicer, slicerStop, slicerRuns, inParts, tables, fIdxHBF, loops, outParts, fDirection, output>>

Consume(d) ==
  /\ output[d] > 0
  /\ output' = [output EXCEPT ![d] = @ - 1]
  /\ UNCHANGED <<slicer, slicerStop, slicerRuns, link, inParts, tables, fIdxHBF, loops, outParts, fDirection>>

Init ==
  /\ slicer = "ready" /\ slicerStop = FALSE /\ slicerRuns = 0
  /\ link = <<>> /\ inParts = NoMessage
  /\ fTF = <<>> /\ fLF = 0 /\ fIdxHBF = 0
  /\ sorted = <<>> /\ tdcidxs = <<>> /\ iTrig = 0 /\ is = 0 /\ iKeep = 0
  /\ cut = {} /\ row = <<>> /\ slices = <<>>
  /\ outParts = <<>>
  /\ fDirection = 0 /\ output = [d \in 0 .. NumDestination - 1 |-> 0]

Loops  == Skip \/ Take \/ NextSource \/ NextTrigger \/ EndHBF
Device ==
  \/ Receive \/ BeginHBF \/ Collapse \/ Loops \/ EndHBFs
  \/ SendDqm \/ SendSucceeds \/ SendBlocked \/ SendInterrupted
  \/ BeginPostRun \/ DrainOne \/ EndPostRun

Local == Device \/ PreRun \/ RequestStop \/ (\E d \in DOMAIN output : Consume(d))

Next == Local \/ Arrive

Spec == Init /\ [][Next]_vars

-----------------------------------------------------------------------------
(* Properties.                                                              *)

TypeOK ==
  /\ slicer \in {"ready", "idle", "hbf", "cut", "dqm", "send", "drain", "failed", "undefined"}
  /\ slicerStop \in BOOLEAN /\ slicerRuns \in Nat
  /\ link \in Seq(Messages) /\ Len(link) <= LinkHWM
  /\ inParts \in Messages
  /\ fTF \in Seq(Nat) /\ fLF \in Nat /\ fIdxHBF \in Nat
  /\ iTrig \in Nat /\ is \in Nat /\ iKeep \in Nat
  /\ sorted \in Seq(Seq(Words)) /\ tdcidxs \in Seq(Nat)
  /\ cut \subseteq Words /\ row \in Seq(SUBSET Words) /\ slices \in Seq(Seq(SUBSET Words))
  /\ outParts \in Seq(Seq(Seq(SUBSET Words)))
  /\ fDirection \in 0 .. NumDestination - 1
  /\ output \in [0 .. NumDestination - 1 -> 0 .. OutputHWM]

(* The words of source s around trigger k of the HBF in hand; when a window begins   *)
(* exactly where the one before ends, the word there has gone with that one.       *)
Touches(k) == k > 1 /\ List[k] + OffsetBegin = List[k - 1] + OffsetEnd

Due(k, s) ==
  {w \in inParts.stfs[s].hbfs[h] :
     /\ w.t \in List[k] + OffsetBegin .. List[k] + OffsetEnd
     /\ ~(Touches(k) /\ w.t = List[k] + OffsetBegin)}

(* A word without a time stops the walk through a source before it begins; a first    *)
(* window that begins before time 0 ends it, for the border wraps around.           *)
Blind(s) == \E w \in inParts.stfs[s].hbfs[h] : w.t = -1
Wrapped  == List[1] + OffsetBegin < 0

(* Every slice holds exactly the words of its source in the window around its          *)
(* trigger, however the windows overlap and wherever the index was set back to: none     *)
(* is lost to an earlier trigger and none is cut twice for the same.  Where the walk    *)
(* is stopped the slice is empty (ConditionalRun, the loop over tdcidxs).            *)
SlicesAreWindows ==
  slicer = "cut" =>
    \A k \in DOMAIN slices : \A s \in Sources :
      IF Wrapped THEN ~Blind(s) => slices[k][s] = {}
      ELSE slices[k][s] = IF Blind(s) THEN {} ELSE Due(k, s)

(* A message whose sub time frames are all there, as many as any message before          *)
(* announced, whose headers tell at least their HBFs, and in which none has fewer HBFs   *)
(* than the last and none of their numbers lacks its list.                          *)
Regular(m) ==
  /\ Len(m.stfs) = Len(fTF)
  /\ \A s \in DOMAIN m.stfs : /\ Len(m.stfs[s].hbfs) <= m.stfs[s].numMessages
                              /\ Len(Last(m.stfs).hbfs) <= Len(m.stfs[s].hbfs)
  /\ m.stfs # <<>> => Len(Last(m.stfs).hbfs) <= Len(m.lists)

(* The reused containers never make the slicer fail, or read what an earlier message       *)
(* has left: it takes an irregular message for that (ParseMessages, BeginHBF).          *)
FailsOnlyOnIrregular == slicer \in {"failed", "undefined"} => ~Regular(inParts)

=============================================================================
