----------------------------- MODULE LogicFilter -----------------------------
(***************************************************************************)
(* LogicFilter.cxx with Trigger.cxx: looks in every time frame for the times    *)
(* at which the hits of the configured channels satisfy the trigger            *)
(* expression, and sends the time frame on with a list of these times for       *)
(* every heartbeat frame (HBF) number, for the slicer to cut.                 *)
(*                                                                         *)
(* A time frame is a record of numSource and its sub time frames stfs, in the   *)
(* order of their arrival at the time frame builder: the module fem, the field  *)
(* numMessages of the header and the heartbeat frames hbfs.  A heartbeat frame  *)
(* is the set of its words without the two delimiters: hit tells whether         *)
(* Unpack returns T_TDC, ch is the channel and t is tdc4n, -1 for words that     *)
(* have no time.                                                            *)
(*                                                                         *)
(* Abstractions.  All modules have one of the V3 types.  There is one            *)
(* destination; the loop over several is that of the time frame builder.  The   *)
(* option remove-hb is off (its code says of itself that it has a problem).      *)
(***************************************************************************)
EXTENDS LogicExpression

CONSTANTS
  Configurations, (* what trigger-expression and data-suppress may be        *)
  Signals,        (* trigger-signals: the sequence of [fem, ch, delay]        *)
  MarkLen,        (* fMarkLen, trigger-width                                *)
  TimeRegion,     (* fTimeRegionSize: 1024 * 128                            *)
  WordSize,       (* uint32_t counts modulo this: 2^32                       *)
  InputHWM,       (* time frames that may wait at the filter                  *)
  LinkHWM,        (* time frames that may wait at the slicer                  *)
  MaxFilterRuns   (* bound: number of runs                                 *)

VARIABLES
  options,      (* the configuration, read by InitTask                      *)
  fTMap,        (* the table of the trigger expression                      *)
  filter,       (* where the device is                                     *)
  filterStop,   (* NewStatePending()                                       *)
  filterRuns,
  filterInput,  (* the time frames waiting at the input                     *)
  filterParts,  (* inParts, the time frame in hand, or NoFrame               *)
  filterOut,    (* outParts                                                *)
  link          (* the messages waiting at the slicer                       *)

vars == <<options, fTMap, filter, filterStop, filterRuns, filterInput, filterParts, filterOut, link>>

NoFrame == [numSource |-> 0, lists |-> <<>>, stfs |-> <<>>]
NoTable == [nsignal |-> 0, lut |-> {}]

-----------------------------------------------------------------------------
(* Trigger.                                                                *)

Half == MarkLen \div 2

(* Mutant: the arithmetic is signed, so that a hit before time 0 still marks.         *)
Marks_Signed(i, t) ==
  LET hit == t + Signals[i].delay IN
  IF hit < TimeRegion - Half THEN (hit - Half .. hit + Half) \cap (0 .. TimeRegion - 1) ELSE {}

(* Mark: the bins that a hit of signal i at time t marks.                     *)
Marks(i, t) ==
  LET hit == (t + Signals[i].delay) % WordSize IN
  IF hit < TimeRegion - Half
  THEN {(hit + k) % WordSize : k \in -Half .. Half} \cap (0 .. TimeRegion - 1) ELSE {}

(* The hits of signal i among the HBFs with number h.                         *)
Hits(frame, h, i) ==
  {w.t : w \in {v \in UNION {frame.stfs[s].hbfs[h] :
                    s \in {r \in DOMAIN frame.stfs : /\ frame.stfs[r].fem = Signals[i].fem
                                                     /\ h \in DOMAIN frame.stfs[r].hbfs}} :
                  v.hit /\ v.ch = Signals[i].ch}}

(* fTimeRegion: the signals, numbered from 0, that are on at each time.        *)
Region(frame, h) ==
  LET marked == [i \in DOMAIN Signals |-> UNION {Marks(i, t) : t \in Hits(frame, h, i)}]
  IN  [t \in 0 .. TimeRegion - 1 |-> {i - 1 : i \in {j \in DOMAIN Signals : t \in marked[j]}}]

(* The status of the expression at a time.                                    *)
Status(region, t) == LookUp(fTMap, region[t])

(* Mutant: the newest time goes to the front.                                  *)
Scan_Backward(region) ==
  LET found[t \in 0 .. TimeRegion - 1] ==
        IF t = 0 THEN <<>>
        ELSE IF ~Status(region, t - 1) /\ Status(region, t) THEN <<t>> \o found[t - 1] ELSE found[t - 1]
  IN  found[TimeRegion - 1]

(* Scan: the rising edges, found in one walk through the region.                  *)
Scan(region) ==
  LET found[t \in 0 .. TimeRegion - 1] ==
        IF t = 0 THEN <<>>
        ELSE IF ~Status(region, t - 1) /\ Status(region, t) THEN Append(found[t - 1], t) ELSE found[t - 1]
  IN  found[TimeRegion - 1]

-----------------------------------------------------------------------------
(* MakeBlockMap: one list of blocks for each sub time frame with HBFs, and one  *)
(* for the last in any case.  Only the numbers that all lists have are looked at.*)
NumBlocks(frame) ==
  IF frame.stfs = <<>> THEN 0
  ELSE Min({Len(frame.stfs[s].hbfs) :
            s \in {r \in DOMAIN frame.stfs : frame.stfs[r].hbfs # <<>> \/ r = Len(frame.stfs)}})

Lists(frame) == [h \in 1 .. NumBlocks(frame) |-> Scan(Region(frame, h))]

(* MarkFlagSending: the HBFs of a number without triggers are to be left out.    *)
Blank(lists, h) == h \in DOMAIN lists /\ lists[h] = <<>>

(* The place of the header of sub time frame s in inParts, and that of its HBF h.*)
Place(frame, s, h) ==
  1 + SumFunctionOnSet([r \in DOMAIN frame.stfs |-> 1 + Len(frame.stfs[r].hbfs)], 1 .. s - 1) + h

Size(frame) == Place(frame, Len(frame.stfs) + 1, 0)

Unsent(frame, lists) ==
  UNION {{Place(frame, s, h) : h \in {b \in DOMAIN frame.stfs[s].hbfs : Blank(lists, b)}} :
         s \in DOMAIN frame.stfs}

(* "Modify SubTimeFrameHeader" counts the parts of a sub time frame by           *)
(* flag_sending at their place in outParts; the flags are those of the places in  *)
(* inParts, and junk is what is read behind their end.                         *)
SuppressedHeader(frame, lists, s, junk) ==
  LET shift == 1 + Len(lists)
      flag(p) == IF p < Size(frame) THEN p \notin Unsent(frame, lists) ELSE p \in junk
  IN  Cardinality({h \in DOMAIN frame.stfs[s].hbfs : flag(Place(frame, s, h) + shift)})

(* The message: without data-suppress the sub time frames as they came, with it   *)
(* blank HBFs, only their delimiters, where there is no trigger.               *)
OutParts(frame, lists, suppress, junk) ==
  [numSource |-> frame.numSource, lists |-> lists,
   stfs |-> IF ~suppress THEN frame.stfs
            ELSE [s \in DOMAIN frame.stfs |->
                   [frame.stfs[s] EXCEPT
                     !.numMessages = SuppressedHeader(frame, lists, s, junk),
                     !.hbfs = [h \in DOMAIN @ |-> IF Blank(lists, h) THEN {} ELSE @[h]]]]]

-----------------------------------------------------------------------------
(* The device.                                                             *)

InitTask ==
  /\ filter = "init"
  /\ LET formula  == Formula(options.expression)
         commands == Commands(formula.rpn)
     IN  IF formula.status = "node" /\ Defined(commands)
         THEN filter' = "ready" /\ fTMap' = MakeTable(commands)
         ELSE /\ filter' = IF formula.status = "thrown" THEN "failed" ELSE "undefined"
              /\ UNCHANGED fTMap
  /\ UNCHANGED <<options, filterStop, filterRuns, filterInput, filterParts, filterOut, link>>

Run ==
  /\ filter = "ready" /\ filterRuns < MaxFilterRuns
  /\ filter' = "idle" /\ filterStop' = FALSE /\ filterRuns' = filterRuns + 1
  /\ UNCHANGED <<options, fTMap, filterInput, filterParts, filterOut, link>>

Receive ==
  /\ filter = "idle" /\ ~filterStop /\ filterInput # <<>>
  /\ filterInput' = Tail(filterInput)
  /\ filterParts' = Head(filterInput)
  /\ LET lists == Lists(filterParts')
         over  == Size(filterParts') .. Size(filterParts') + Len(lists)
     IN  \E junk \in IF options.suppress THEN SUBSET over ELSE {{}} :
           filterOut' = OutParts(filterParts', lists, options.suppress, junk)
  /\ filter' = "dqm"
  /\ UNCHANGED <<options, fTMap, filterStop, filterRuns, link>>

(* The send to the monitoring channel, when there is one, is waited for.        *)
SendDqm ==
  /\ filter = "dqm"
  /\ filter' = "send"
  /\ UNCHANGED <<options, fTMap, filterStop, filterRuns, filterInput, filterParts, filterOut, link>>

SendSucceeds ==
  /\ filter = "send" /\ Len(link) < LinkHWM
  /\ link' = Append(link, filterOut)
  /\ filter' = "idle" /\ filterParts' = NoFrame /\ filterOut' = NoFrame
  /\ UNCHANGED <<options, fTMap, filterStop, filterRuns, filterInput>>

SendInterrupted ==
  /\ filter = "send" /\ filterStop
  /\ filter' = "idle" /\ filterParts' = NoFrame /\ filterOut' = NoFrame
  /\ UNCHANGED <<options, fTMap, filterStop, filterRuns, filterInput, link>>

(* PostRun only logs: what waits at the input stays there.                     *)
PostRun ==
  /\ filter = "idle" /\ filterStop
  /\ filter' = "ready"
  /\ UNCHANGED <<options, fTMap, filterStop, filterRuns, filterInput, filterParts, filterOut, link>>

RequestStop ==
  /\ filter \in {"idle", "dqm", "send"} /\ ~filterStop
  /\ filterStop' = TRUE
  /\ UNCHANGED <<options, fTMap, filter, filterRuns, filterInput, filterParts, filterOut, link>>

(* The time frame builder sends.                                            *)
SendFrame(frame) ==
  /\ filter \notin {"init", "failed", "undefined"} /\ Len(filterInput) < InputHWM
  /\ filterInput' = Append(filterInput, frame)
  /\ UNCHANGED <<options, fTMap, filter, filterStop, filterRuns, filterParts, filterOut, link>>

Init ==
  /\ options \in Configurations
  /\ fTMap = NoTable
  /\ filter = "init" /\ filterStop = FALSE /\ filterRuns = 0
  /\ filterInput = <<>> /\ filterParts = NoFrame /\ filterOut = NoFrame
  /\ link = <<>>

Device == InitTask \/ Receive \/ SendDqm \/ SendSucceeds \/ SendInterrupted \/ PostRun

-----------------------------------------------------------------------------
(* Is the expression true at time t, for hits away from the borders of the time   *)
(* region, when no signal is on that the expression does not reach?             *)
On(frame, h, t) ==
  {i - 1 : i \in {j \in DOMAIN Signals :
     \E u \in Hits(frame, h, j) : LET at == u + Signals[j].delay IN
       at \in 0 .. TimeRegion - 1 - Half /\ t - at \in -Half .. Half}}

Highest(s) == Max({s[i].id : i \in DOMAIN s})

IsTrueAt(frame, h, t) ==
  /\ On(frame, h, t) \in Meaning(options.expression)
  /\ \A i \in On(frame, h, t) : i <= Highest(options.expression)

(* An expression that the grammar has (LogicFilter.md) and whose signals are     *)
(* below the last id is accepted, and the table that Trigger::Scan looks up       *)
(* holds its meaning for the signals up to its highest; other signals turn it     *)
(* false.  What is accepted beyond the grammar ends in an operator (infixtorpn,    *)
(* LogiCalc::SetFormula, TriggerMap::MakeTable).                               *)
TableIsExpression ==
  LET e == options.expression IN
  filter \in {"ready", "failed", "undefined"} /\ ~StartsWith(e, "RPN") =>
    /\ WellFormed(e) /\ Highest(e) + 1 < NsigMax =>
         /\ filter = "ready"
         /\ \A on \in SUBSET (0 .. NsigMax - 1) :
              LookUp(fTMap, on) <=> (on \subseteq 0 .. Highest(e) /\ on \in Meaning(e))
    /\ ~WellFormed(e) /\ filter = "ready" => Last(e).kind \in {"&", "|", "!"}

(* The times that the filter lists for an HBF number are, in order, the first     *)
(* times of the intervals in which the hits of the frame, each spread over the     *)
(* coincidence width, satisfy the expression; an interval from time 0 on is not     *)
(* found (Trigger::Exec, the loop over the block map).                          *)
TriggersAreRisingCoincidences ==
  filter = "dqm" => \A h \in DOMAIN filterOut.lists :
    LET list == filterOut.lists[h] IN
    /\ \A i, j \in DOMAIN list : i < j => list[i] < list[j]
    /\ Range(list) = {t \in 1 .. TimeRegion - 1 : /\ IsTrueAt(filterParts, h, t)
                                                  /\ ~IsTrueAt(filterParts, h, t - 1)}

(* The field numMessages of a sub time frame header that leaves the filter is the   *)
(* number of heartbeat frames that follow it.                                  *)
HeadersCountMessages ==
  \A s \in DOMAIN filterOut.stfs : filterOut.stfs[s].numMessages = Len(filterOut.stfs[s].hbfs)

=============================================================================
