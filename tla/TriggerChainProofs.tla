-------------------------- MODULE TriggerChainProofs --------------------------
(***************************************************************************)
(* Theorems about TriggerChain: the filter sends only messages that the slicer's *)
(* specification allows, so the chain implements it and has what is proved of    *)
(* the slicer; the table is the meaning of the trigger expression, and so the     *)
(* trigger times are the rising edges of the expression.                       *)
(***************************************************************************)
EXTENDS TriggerChain, TimeFrameSlicerProofs, SequenceLemmas

(* What is proved of the trigger expression. *)
LX == INSTANCE LogicExpressionProofs

-----------------------------------------------------------------------------
(* Trigger::Scan collects the rising times in one walk.  R are the times that    *)
(* are collected up to n.                                                   *)
Collects(f, R, n) ==
  f = [t \in 0 .. n |-> IF t = 0 THEN <<>> ELSE IF t \in R THEN Append(f[t - 1], t) ELSE f[t - 1]]

(* The next time is one more step of the walk. *)
LEMMA CollectsLonger ==
  ASSUME NEW R, NEW n \in Nat, NEW f, Collects(f, R, n)
  PROVE  \E g : Collects(g, R, n + 1)
<1> DEFINE g == [t \in 0 .. n + 1 |-> IF t = n + 1 THEN (IF t \in R THEN Append(f[n], t) ELSE f[n]) ELSE f[t]]
           e(t) == IF t = 0 THEN <<>> ELSE IF t \in R THEN Append(g[t - 1], t) ELSE g[t - 1]
<1>1. \A t \in 0 .. n : f[t] = IF t = 0 THEN <<>> ELSE IF t \in R THEN Append(f[t - 1], t) ELSE f[t - 1]
  BY DEF Collects
<1>2. /\ \A t \in 0 .. n : g[t] = f[t]
      /\ g[n + 1] = IF n + 1 \in R THEN Append(f[n], n + 1) ELSE f[n]
  OBVIOUS
<1>3. ASSUME NEW t \in 0 .. n + 1 PROVE g[t] = e(t)
  <2>1. CASE t = n + 1
    <3>1. t # 0 /\ t - 1 = n /\ n \in 0 .. n
      BY <2>1
    <3>2. g[t - 1] = f[n]
      BY <1>2, <3>1
    <3> HIDE DEF g
    <3> QED BY <1>2, <2>1, <3>1, <3>2
  <2>2. CASE t # n + 1
    <3>1. t \in 0 .. n /\ (t # 0 => t - 1 \in 0 .. n)
      BY <2>2
    <3>2. g[t] = f[t] /\ (t # 0 => g[t - 1] = f[t - 1])
      BY <1>2, <3>1
    <3> HIDE DEF g
    <3> QED BY <1>1, <3>1, <3>2
  <2> QED BY <2>1, <2>2
<1>4. g = [t \in 0 .. n + 1 |-> e(t)]
  <2> HIDE DEF e
  <2> QED BY <1>3
<1> HIDE DEF g
<1>5. Collects(g, R, n + 1)
  BY <1>4 DEF Collects
<1> QED BY <1>5

(* The walk can be made to every end. *)
LEMMA CollectsExist ==
  ASSUME NEW R, NEW n \in Nat
  PROVE  \E f : Collects(f, R, n)
<1> DEFINE T == {m \in Nat : ~ \E f : Collects(f, R, m)}
<1>1. SUFFICES ASSUME T # {} PROVE FALSE
  BY <1>1
<1>2. PICK x \in T : \A y \in T : x <= y
  BY <1>1, LeastElement
<1>3. x \in Nat /\ ~ \E f : Collects(f, R, x)
  BY <1>2
<1>4. CASE x = 0
  <2> DEFINE f == [t \in 0 .. 0 |-> <<>>]
  <2>1. f = [t \in 0 .. 0 |-> IF t = 0 THEN <<>> ELSE IF t \in R THEN Append(f[t - 1], t) ELSE f[t - 1]]
    OBVIOUS
  <2>2. Collects(f, R, x)
    BY <1>4, <2>1 DEF Collects
  <2> QED BY <1>3, <2>2
<1>5. CASE x # 0
  <2>1. x - 1 \in Nat /\ ~ (x <= x - 1) /\ (x - 1) + 1 = x
    BY <1>3, <1>5
  <2>2. PICK f : Collects(f, R, x - 1)
    <3>1. x - 1 \notin T
      BY <1>2, <2>1
    <3> QED BY <2>1, <3>1
  <2> HIDE DEF T
  <2>3. \E g : Collects(g, R, (x - 1) + 1)
    BY <2>1, <2>2, CollectsLonger
  <2> QED BY <1>3, <2>1, <2>3
<1> QED BY <1>4, <1>5

(* What q lists are the times of R up to t, in ascending order. *)
Lists(q, R, t) ==
  /\ q \in Seq(Nat) /\ Ascending(q)
  /\ \A i \in 1 .. Len(q) : q[i] \in R /\ q[i] \in 1 .. t
  /\ \A u \in 1 .. t : u \in R => \E i \in 1 .. Len(q) : q[i] = u

(* A time that is collected goes behind all before. *)
LEMMA ListsMore ==
  ASSUME NEW R, NEW t \in Nat, NEW q, Lists(q, R, t)
  PROVE  /\ t + 1 \in R => Lists(Append(q, t + 1), R, t + 1)
         /\ t + 1 \notin R => Lists(q, R, t + 1)
<1> DEFINE r == Append(q, t + 1)
<1>1. q \in Seq(Nat) /\ Len(q) \in Nat
  BY DEF Lists
<1>2. /\ r \in Seq(Nat) /\ Len(r) = Len(q) + 1 /\ r[Len(q) + 1] = t + 1
      /\ \A i \in 1 .. Len(q) : r[i] = q[i]
  BY <1>1
<1> HIDE DEF r
<1>3. \A u \in 1 .. t + 1 : u \in 1 .. t \/ u = t + 1
  OBVIOUS
<1>4. \A u \in 1 .. t : u \in 1 .. t + 1
  OBVIOUS
<1>5. ASSUME t + 1 \in R PROVE Lists(r, R, t + 1)
  <2>1. \A i \in 1 .. Len(r) : i \in 1 .. Len(q) \/ i = Len(q) + 1
    BY <1>1, <1>2
  <2>2. Ascending(r)
    <3>1. DOMAIN r = 1 .. Len(r) /\ DOMAIN q = 1 .. Len(q)
      BY <1>1, <1>2
    <3>2. ASSUME NEW i \in 1 .. Len(r), NEW j \in 1 .. Len(r), i < j PROVE r[i] < r[j]
      <4>1. i \in 1 .. Len(q)
        BY <1>1, <1>2, <3>2
      <4>2. q[i] \in 1 .. t /\ r[i] = q[i]
        BY <1>2, <4>1 DEF Lists
      <4>3. CASE j \in 1 .. Len(q)
        BY <1>2, <3>1, <3>2, <4>1, <4>2, <4>3 DEF Lists, Ascending
      <4>4. CASE j = Len(q) + 1
        BY <1>2, <4>2, <4>4
      <4> QED BY <2>1, <4>3, <4>4
    <3> QED BY <3>1, <3>2 DEF Ascending
  <2>3. \A i \in 1 .. Len(r) : r[i] \in R /\ r[i] \in 1 .. t + 1
    <3>1. \A i \in 1 .. Len(q) : r[i] \in R /\ r[i] \in 1 .. t
      BY <1>2 DEF Lists
    <3>2. r[Len(q) + 1] \in R /\ r[Len(q) + 1] \in 1 .. t + 1
      BY <1>2, <1>5
    <3> QED BY <1>4, <2>1, <3>1, <3>2
  <2>4. \A u \in 1 .. t + 1 : u \in R => \E i \in 1 .. Len(r) : r[i] = u
    <3>1. \A i \in 1 .. Len(q) : i \in 1 .. Len(r)
      BY <1>1, <1>2
    <3>2. Len(q) + 1 \in 1 .. Len(r)
      BY <1>1, <1>2
    <3> QED BY <1>2, <1>3, <3>1, <3>2 DEF Lists
  <2> QED BY <1>2, <2>2, <2>3, <2>4 DEF Lists
<1>6. t + 1 \notin R => Lists(q, R, t + 1)
  BY <1>3, <1>4 DEF Lists
<1> QED BY <1>5, <1>6 DEF r

(* So the walk lists, at every time, those that it has passed. *)
LEMMA CollectsLists ==
  ASSUME NEW R, NEW n \in Nat, NEW f, Collects(f, R, n)
  PROVE  \A t \in 0 .. n : Lists(f[t], R, t)
<1> DEFINE T == {t \in 0 .. n : ~ Lists(f[t], R, t)}
<1>1. SUFFICES ASSUME T # {} PROVE FALSE
  BY <1>1
<1>2. PICK x \in T : \A y \in T : x <= y
  <2>1. T \subseteq Nat
    OBVIOUS
  <2> HIDE DEF T
  <2> QED BY <1>1, <2>1, LeastElement
<1>3. x \in 0 .. n /\ ~ Lists(f[x], R, x)
  BY <1>2
<1>4. f[x] = IF x = 0 THEN <<>> ELSE IF x \in R THEN Append(f[x - 1], x) ELSE f[x - 1]
  BY <1>3 DEF Collects
<1>5. CASE x = 0
  <2>1. Lists(<<>>, R, 0)
    BY DEF Lists, Ascending
  <2> QED BY <1>3, <1>4, <1>5, <2>1
<1>6. CASE x # 0
  <2>1. x - 1 \in 0 .. n /\ ~ (x <= x - 1) /\ (x - 1) + 1 = x /\ x - 1 \in Nat
    BY <1>3, <1>6
  <2>2. Lists(f[x - 1], R, x - 1)
    BY <1>2, <2>1
  <2> HIDE DEF T
  <2>3. /\ x \in R => Lists(Append(f[x - 1], x), R, x)
        /\ x \notin R => Lists(f[x - 1], R, x)
    BY <2>1, <2>2, ListsMore
  <2> QED BY <1>3, <1>4, <1>6, <2>3
<1> QED BY <1>5, <1>6

(* Trigger::Scan lists the rising times of the region in ascending order.  *)
Rising(region) == {t \in 1 .. TimeRegion - 1 : ~LF!Status(region, t - 1) /\ LF!Status(region, t)}

(* Scan makes this list. *)
LEMMA ScanLists ==
  ASSUME NEW region
  PROVE  Lists(LF!Scan(region), Rising(region), MaxTime)
<1> DEFINE R == Rising(region)
           F == CHOOSE f : Collects(f, R, MaxTime)
<1>1. MaxTime \in Nat /\ TimeRegion - 1 = MaxTime
  BY ChainConstantsAssumption, SlicerConstantsAssumption DEF ChainConstantsAssumption, SlicerConstantsAssumption
<1>2. Collects(F, R, MaxTime)
  BY <1>1, CollectsExist
<1>3. \A f : Collects(f, R, MaxTime) <=>
             f = [t \in 0 .. MaxTime |->
                   IF t = 0 THEN <<>>
                   ELSE IF ~LF!Status(region, t - 1) /\ LF!Status(region, t) THEN Append(f[t - 1], t) ELSE f[t - 1]]
  <2> TAKE f
  <2>1. \A t \in 0 .. MaxTime : t # 0 => (t \in R <=> ~LF!Status(region, t - 1) /\ LF!Status(region, t))
    BY <1>1 DEF Rising
  <2> HIDE DEF R
  <2> QED BY <2>1 DEF Collects
<1>4. LF!Scan(region) = F[MaxTime]
  <2> HIDE DEF R
  <2>1. LF!Scan(region) = (CHOOSE f : f = [t \in 0 .. MaxTime |->
                   IF t = 0 THEN <<>>
                   ELSE IF ~LF!Status(region, t - 1) /\ LF!Status(region, t) THEN Append(f[t - 1], t) ELSE f[t - 1]])[MaxTime]
    BY <1>1, Zenon DEF LF!Scan
  <2> QED BY <1>3, <2>1
<1> HIDE DEF R, F
<1>5. Lists(F[MaxTime], R, MaxTime)
  BY <1>1, <1>2, CollectsLists
<1> QED BY <1>4, <1>5 DEF R

-----------------------------------------------------------------------------
(* What the filter sends is a message of the slicer.                             *)

(* What the constants are, one by one. *)
LEMMA ChainConstants ==
  /\ MaxTime \in Nat /\ TimeRegion = MaxTime + 1 /\ MarkLen \in Nat /\ NsigMax \in Nat \ {0}
  /\ WordSize \in Nat /\ 2 * (TimeRegion + MarkLen) < WordSize /\ InputHWM \in Nat
  /\ Signals \in Seq([fem : Nat, ch : Nat, delay : Int]) /\ Len(Signals) <= NsigMax
BY ChainConstantsAssumption, SlicerConstantsAssumption DEF ChainConstantsAssumption, SlicerConstantsAssumption

(* A frame of the builder is a message without trigger lists. *)
LEMMA FrameParts ==
  ASSUME NEW frame \in Frames
  PROVE  /\ frame \in Messages /\ frame.numSource \in Nat /\ frame.stfs \in Seq(STFs)
         /\ frame.lists = <<>> /\ Len(frame.stfs) <= frame.numSource
         /\ \A s \in DOMAIN frame.stfs :
              /\ frame.stfs[s] \in STFs
              /\ frame.stfs[s].numMessages = Len(frame.stfs[s].hbfs)
              /\ Len(frame.stfs[s].hbfs) \in Nat
              /\ DOMAIN frame.stfs[s].hbfs = 1 .. Len(frame.stfs[s].hbfs)
<1>1. frame \in Messages /\ frame.lists = <<>> /\ Len(frame.stfs) <= frame.numSource
      /\ \A s \in DOMAIN frame.stfs : frame.stfs[s].numMessages = Len(frame.stfs[s].hbfs)
  BY ChainConstantsAssumption DEF ChainConstantsAssumption
<1>2. frame.numSource \in Nat /\ frame.stfs \in Seq(STFs)
  BY <1>1 DEF Messages
<1>3. \A s \in DOMAIN frame.stfs : frame.stfs[s] \in STFs
  BY <1>2
<1>4. \A stf \in STFs : Len(stf.hbfs) \in Nat /\ DOMAIN stf.hbfs = 1 .. Len(stf.hbfs)
  BY DEF STFs
<1> QED BY <1>1, <1>2, <1>3, <1>4

(* The number of the lists: the fewest HBFs that a source with HBFs, or the last, has. *)
Counted(frame) ==
  {Len(frame.stfs[s].hbfs) : s \in {r \in DOMAIN frame.stfs : frame.stfs[r].hbfs # <<>> \/ r = Len(frame.stfs)}}

(* It is one of these and no more than any. *)
LEMMA NumBlocksLeast ==
  ASSUME NEW frame \in Frames
  PROVE  /\ LF!NumBlocks(frame) \in Nat
         /\ frame.stfs # <<>> =>
              LF!NumBlocks(frame) \in Counted(frame) /\ \A n \in Counted(frame) : LF!NumBlocks(frame) <= n
<1>1. CASE frame.stfs = <<>>
  BY <1>1 DEF LF!NumBlocks
<1>2. CASE frame.stfs # <<>>
  <2>1. Len(frame.stfs) \in DOMAIN frame.stfs
    BY <1>2, FrameParts
  <2>2. Len(frame.stfs[Len(frame.stfs)].hbfs) \in Counted(frame)
    BY <2>1 DEF Counted
  <2>3. Counted(frame) \subseteq Nat
    BY FrameParts DEF Counted
  <2>4. \E x \in Counted(frame) : \A y \in Counted(frame) : x <= y
    BY <2>2, <2>3, LeastElement
  <2>5. LF!NumBlocks(frame) = LF!Min(Counted(frame))
    BY <1>2 DEF LF!NumBlocks, Counted
  <2>6. /\ LF!Min(Counted(frame)) \in Counted(frame)
        /\ \A y \in Counted(frame) : LF!Min(Counted(frame)) <= y
    BY <2>4 DEF LF!Min
  <2> QED BY <2>3, <2>5, <2>6
<1> QED BY <1>1, <1>2

(* The lists of a frame have the form of trigger lists. *)
LEMMA ListsType ==
  ASSUME NEW frame \in Frames
  PROVE  /\ LF!Lists(frame) \in Seq({list \in Seq(0 .. MaxTime) : Ascending(list)})
         /\ Len(LF!Lists(frame)) = LF!NumBlocks(frame)
<1> DEFINE A == {list \in Seq(0 .. MaxTime) : Ascending(list)}
           n == LF!NumBlocks(frame)
<1>1. n \in Nat
  BY NumBlocksLeast
<1>2. ASSUME NEW region PROVE LF!Scan(region) \in A
  <2> DEFINE q == LF!Scan(region)
  <2>1. q \in Seq(Nat) /\ Ascending(q) /\ \A i \in 1 .. Len(q) : q[i] \in 1 .. MaxTime
    BY ScanLists DEF Lists
  <2> HIDE DEF q
  <2>2. \A i \in 1 .. Len(q) : q[i] \in 0 .. MaxTime
    BY <2>1, ChainConstants
  <2>3. q \in Seq(0 .. MaxTime)
    <3>1. q \in [1 .. Len(q) -> 0 .. MaxTime] /\ Len(q) \in Nat
      BY <2>1, <2>2
    <3> QED BY <3>1, TablesAreSequences
  <2> QED BY <2>1, <2>3 DEF q
<1>3. \A b \in 1 .. n : LF!Scan(LF!Region(frame, b)) \in A
  BY <1>2
<1>4. LF!Lists(frame) = [b \in 1 .. n |-> LF!Scan(LF!Region(frame, b))]
  BY DEF LF!Lists
<1> HIDE DEF A, n
<1>5. LF!Lists(frame) \in [1 .. n -> A]
  BY <1>3, <1>4
<1>6. LF!Lists(frame) \in Seq(A) /\ Len(LF!Lists(frame)) = n
  BY <1>1, <1>5, TablesAreSequences
<1> QED BY <1>6 DEF A, n

(* The operators that the filter has from the library are those that the slicer has. *)
LEMMA SameCardinality == \A S : LF!Cardinality(S) = Cardinality(S)
BY DEF LF!Cardinality, Cardinality

(* A sub time frame that leaves with other HBFs and another count. *)
LEMMA SuppressedType ==
  ASSUME NEW frame \in Frames, NEW s \in DOMAIN frame.stfs, NEW lists, NEW junk
  PROVE  [frame.stfs[s] EXCEPT
            !.numMessages = LF!SuppressedHeader(frame, lists, s, junk),
            !.hbfs = [b \in DOMAIN @ |-> IF LF!Blank(lists, b) THEN {} ELSE @[b]]] \in STFs
<1> DEFINE stf == frame.stfs[s]
           F == {S \in SUBSET Words : IsFiniteSet(S)}
           g == [b \in DOMAIN stf.hbfs |-> IF LF!Blank(lists, b) THEN {} ELSE stf.hbfs[b]]
           c == LF!SuppressedHeader(frame, lists, s, junk)
<1>1. stf \in STFs /\ Len(stf.hbfs) \in Nat /\ DOMAIN stf.hbfs = 1 .. Len(stf.hbfs)
  BY FrameParts
<1>2. c \in Nat
  <2>1. IsFiniteSet(DOMAIN stf.hbfs)
    BY <1>1, FS_Interval
  <2>2. \E B \in SUBSET DOMAIN stf.hbfs : c = Cardinality(B)
    BY SameCardinality DEF LF!SuppressedHeader
  <2> HIDE DEF c
  <2> QED BY <2>1, <2>2, FS_Subset, FS_CardinalityType
<1>3. g \in Seq(F)
  <2>1. stf.hbfs \in Seq(F)
    BY <1>1 DEF STFs
  <2>2. {} \in F
    BY FS_EmptySet
  <2> HIDE DEF F, stf
  <2>3. \A b \in 1 .. Len(stf.hbfs) : stf.hbfs[b] \in F
    BY <2>1
  <2>4. g \in [1 .. Len(stf.hbfs) -> F]
    BY <1>1, <2>2, <2>3
  <2> HIDE DEF g
  <2> QED BY <1>1, <2>4, TablesAreSequences
<1> HIDE DEF c, g, F
<1>4. [stf EXCEPT !.numMessages = c, !.hbfs = g] \in STFs
  BY <1>1, <1>2, <1>3 DEF STFs, F
<1> QED BY <1>4 DEF stf, c, g

(* OutParts makes a message. *)
LEMMA OutPartsType ==
  ASSUME NEW frame \in Frames, NEW suppress, NEW junk
  PROVE  LF!OutParts(frame, LF!Lists(frame), suppress, junk) \in Messages
<1> DEFINE lists == LF!Lists(frame)
           out == LF!OutParts(frame, lists, suppress, junk)
           stfs == [s \in DOMAIN frame.stfs |->
                      [frame.stfs[s] EXCEPT
                        !.numMessages = LF!SuppressedHeader(frame, lists, s, junk),
                        !.hbfs = [b \in DOMAIN @ |-> IF LF!Blank(lists, b) THEN {} ELSE @[b]]]]
<1>1. frame.numSource \in Nat /\ frame.stfs \in Seq(STFs)
  BY FrameParts
<1>2. lists \in Seq({list \in Seq(0 .. MaxTime) : Ascending(list)})
  BY ListsType
<1>3. out = [numSource |-> frame.numSource, lists |-> lists, stfs |-> IF ~suppress THEN frame.stfs ELSE stfs]
  BY DEF LF!OutParts
<1> HIDE DEF lists
<1>4. stfs \in Seq(STFs)
  <2>1. DOMAIN frame.stfs = 1 .. Len(frame.stfs) /\ Len(frame.stfs) \in Nat
    BY <1>1
  <2>2. stfs \in [1 .. Len(frame.stfs) -> STFs]
    BY <2>1, SuppressedType
  <2> HIDE DEF stfs
  <2> QED BY <2>1, <2>2, TablesAreSequences
<1> HIDE DEF stfs, out
<1>5. out \in Messages
  BY <1>1, <1>2, <1>3, <1>4 DEF Messages
<1> QED BY <1>5 DEF out, lists

-----------------------------------------------------------------------------
(* The types of the filter, and the steps of the chain as steps of the slicer.      *)
FilterOK ==
  /\ options \in Configurations
  /\ filter \in {"init", "failed", "undefined", "ready", "idle", "dqm", "send"}
  /\ filterStop \in BOOLEAN /\ filterRuns \in Nat
TableOK ==
  fTMap.nsignal \in 0 .. NsigMax - 1 /\ fTMap.lut \subseteq SUBSET (0 .. fTMap.nsignal - 1)
FramesOK ==
  /\ filterInput \in Seq(Frames) /\ Len(filterInput) <= InputHWM
  /\ filterParts \in Frames \cup {LF!NoFrame}
  /\ filterOut \in Messages

(* The conjuncts of ChainTypeOK in these groups. *)
LEMMA ChainGroups == ChainTypeOK <=> TypeOK /\ FilterOK /\ TableOK /\ FramesOK
BY DEF ChainTypeOK, FilterOK, TableOK, FramesOK

(* Nothing in hand is a message, too. *)
LEMMA NoFrameIsMessage == LF!NoFrame \in Messages
BY EmptyIsMessage DEF NoMessage, LF!NoFrame

(* The beginning. *)
LEMMA FilterInit == LF!Init => FilterOK /\ TableOK /\ FramesOK
<1> SUFFICES ASSUME LF!Init PROVE FilterOK /\ TableOK /\ FramesOK
  OBVIOUS
<1>1. FilterOK
  BY DEF LF!Init, FilterOK
<1>2. TableOK
  <2>1. fTMap.nsignal = 0 /\ fTMap.lut = {}
    BY DEF LF!Init, LF!NoTable
  <2> QED BY <2>1, ChainConstants DEF TableOK
<1>3. FramesOK
  <2>1. filterInput = <<>> /\ filterParts = LF!NoFrame /\ filterOut = LF!NoFrame
    BY DEF LF!Init
  <2> QED BY <2>1, NoFrameIsMessage, ChainConstants DEF FramesOK
<1> QED BY <1>1, <1>2, <1>3

(* The highest signal of any commands is one below the limit, and so the table of defined commands is *)
(* one of fewer signals than the limit. *)
LEMMA TableType ==
  ASSUME NEW commands, LF!Defined(commands)
  PROVE  LET table == LF!MakeTable(commands)
         IN  table.nsignal \in 0 .. NsigMax - 1 /\ table.lut \subseteq SUBSET (0 .. table.nsignal - 1)
<1> DEFINE N == {n \in 0 .. NsigMax - 1 : n = 0 \/ \E i \in DOMAIN commands : commands[i] = LF!Sig(n)}
           top == LF!SigMax(commands)
<1>1. top \in 0 .. NsigMax - 1
  <2>1. 0 \in N /\ N \subseteq 0 .. NsigMax - 1
    BY ChainConstants
  <2>2. top = LF!Max(N)
    BY DEF LF!SigMax
  <2> HIDE DEF N, top
  <2>3. \E x \in N : \A y \in N : x >= y
    <3> DEFINE M == {NsigMax - n : n \in N}
    <3>1. M \subseteq Nat /\ M # {}
      BY <2>1, ChainConstants
    <3>2. PICK m \in M : \A y \in M : m <= y
      BY <3>1, LeastElement
    <3>3. PICK x \in N : m = NsigMax - x
      BY <3>2
    <3>4. \A y \in N : NsigMax - x <= NsigMax - y
      BY <3>2, <3>3
    <3>5. \A y \in N : x >= y
      BY <2>1, <3>3, <3>4, ChainConstants
    <3> QED BY <3>5
  <2>4. LF!Max(N) \in N
    BY <2>3 DEF LF!Max
  <2> QED BY <2>1, <2>2, <2>4
<1>2. top + 1 < NsigMax
  BY DEF LF!Defined
<1>3. LF!MakeTable(commands).nsignal = top + 1 /\ LF!MakeTable(commands).lut \subseteq SUBSET (0 .. top)
  BY DEF LF!MakeTable
<1> HIDE DEF top
<1>4. (top + 1) - 1 = top
  BY <1>1
<1> QED BY <1>1, <1>2, <1>3, <1>4, ChainConstants

(* InitTask leaves the table as it was or makes that of defined commands. *)
LEMMA TableNext ==
  ASSUME TableOK, FilterStep
  PROVE  TableOK'
<1>1. CASE LF!InitTask
  <2>1. CASE fTMap' = fTMap
    BY <2>1 DEF TableOK
  <2>2. CASE fTMap' # fTMap
    <3>1. PICK commands : LF!Defined(commands) /\ fTMap' = LF!MakeTable(commands)
      BY <1>1, <2>2 DEF LF!InitTask
    <3> QED BY <3>1, TableType DEF TableOK
  <2> QED BY <2>1, <2>2
<1>2. CASE ~LF!InitTask
  <2>1. fTMap' = fTMap
    BY <1>2 DEF FilterStep, LF!Device, LF!Receive, LF!SendDqm, LF!SendSucceeds, LF!SendInterrupted, LF!PostRun,
                LF!RequestStop, LF!Run, SendFrame, LF!SendFrame
  <2> QED BY <2>1 DEF TableOK
<1> QED BY <1>1, <1>2

(* No step of the filter leaves its states. *)
LEMMA FilterNext ==
  ASSUME FilterOK, FilterStep
  PROVE  FilterOK'
<1>1. CASE LF!InitTask
  BY <1>1 DEF LF!InitTask, FilterOK
<1>2. CASE LF!Run
  <2>1. filter' = "idle" /\ filterStop' = FALSE /\ filterRuns' = filterRuns + 1 /\ options' = options
    BY <1>2 DEF LF!Run
  <2>2. filterRuns' \in Nat
    <3>1. filterRuns \in Nat
      BY DEF FilterOK
    <3> QED BY <2>1, <3>1
  <2> QED BY <2>1, <2>2, Zenon DEF FilterOK
<1>3. CASE LF!Receive
  BY <1>3 DEF LF!Receive, FilterOK
<1>4. CASE LF!SendDqm \/ LF!SendSucceeds \/ LF!SendInterrupted \/ LF!PostRun
  BY <1>4 DEF LF!SendDqm, LF!SendSucceeds, LF!SendInterrupted, LF!PostRun, FilterOK
<1>5. CASE LF!RequestStop
  BY <1>5 DEF LF!RequestStop, FilterOK
<1>6. CASE SendFrame
  BY <1>6 DEF SendFrame, LF!SendFrame, FilterOK
<1> QED BY <1>1, <1>2, <1>3, <1>4, <1>5, <1>6 DEF FilterStep, LF!Device

(* What waits, is in hand or goes out are frames and messages. *)
LEMMA FramesNext ==
  ASSUME FramesOK, FilterStep
  PROVE  FramesOK'
<1>1. CASE LF!Receive
  <2>1. filterInput # <<>> /\ filterInput' = Tail(filterInput) /\ filterParts' = Head(filterInput)
    BY <1>1 DEF LF!Receive
  <2>2. filterInput' \in Seq(Frames) /\ Len(filterInput') <= InputHWM /\ filterParts' \in Frames
    BY <2>1, ChainConstants DEF FramesOK
  <2>3. \E junk : filterOut' = LF!OutParts(filterParts', LF!Lists(filterParts'), options.suppress, junk)
    BY <1>1 DEF LF!Receive
  <2>4. filterOut' \in Messages
    BY <2>2, <2>3, OutPartsType
  <2> QED BY <2>2, <2>4 DEF FramesOK
<1>2. CASE LF!SendSucceeds \/ LF!SendInterrupted
  BY <1>2, NoFrameIsMessage DEF LF!SendSucceeds, LF!SendInterrupted, FramesOK
<1>3. CASE SendFrame
  <2>1. PICK frame \in Frames : LF!SendFrame(frame)
    BY <1>3, ChainConstantsAssumption DEF SendFrame, Coming, ChainConstantsAssumption
  <2>2. /\ Len(filterInput) < InputHWM /\ filterInput' = Append(filterInput, frame)
        /\ UNCHANGED <<filterParts, filterOut>>
    BY <2>1 DEF LF!SendFrame
  <2> QED BY <2>2, ChainConstants DEF FramesOK
<1>4. CASE LF!InitTask \/ LF!SendDqm \/ LF!PostRun \/ LF!RequestStop \/ LF!Run
  <2>1. UNCHANGED <<filterInput, filterParts, filterOut>>
    BY <1>4 DEF LF!InitTask, LF!SendDqm, LF!PostRun, LF!RequestStop, LF!Run
  <2> QED BY <2>1 DEF FramesOK
<1> QED BY <1>1, <1>2, <1>3, <1>4 DEF FilterStep, LF!Device

(* For the slicer, the filter's send is the arrival of a message, and its other steps are none. *)
LEMMA StepMaps ==
  ASSUME LinkOK, FramesOK, [ChainNext]_chainVars
  PROVE  [Next]_vars
<1>1. CASE SlicerStep
  BY <1>1 DEF SlicerStep, Next
<1>2. CASE FilterStep /\ LF!SendSucceeds
  <2>1. Len(link) < LinkHWM /\ link' = Append(link, filterOut) /\ UNCHANGED slicerVars
    BY <1>2 DEF FilterStep, LF!SendSucceeds
  <2>2. link \in Seq(Messages) /\ filterOut \in Messages
    BY DEF LinkOK, FramesOK
  <2>3. link' # <<>> /\ Last(link') = filterOut
    BY <2>1, <2>2 DEF Last
  <2>4. Arrive
    BY <2>1, <2>2, <2>3 DEF Arrive, slicerVars
  <2> QED BY <2>4 DEF Next
<1>3. CASE FilterStep /\ ~LF!SendSucceeds
  <2>1. UNCHANGED link
    BY <1>3 DEF FilterStep, LF!Device, LF!InitTask, LF!Receive, LF!SendDqm, LF!SendInterrupted, LF!PostRun,
                LF!RequestStop, LF!Run, SendFrame, LF!SendFrame
  <2>2. UNCHANGED slicerVars
    BY <1>3 DEF FilterStep
  <2> QED BY <2>1, <2>2 DEF vars, slicerVars
<1>4. CASE UNCHANGED chainVars
  BY <1>4 DEF chainVars
<1> QED BY <1>1, <1>2, <1>3, <1>4 DEF ChainNext

(* The types of both, and the shape of the slicer's loops, which its types rest on. *)
ChainTypes == TypeOK /\ Shape /\ FilterOK /\ TableOK /\ FramesOK

(* The types hold at the start. *)
LEMMA ChainTypesInit == ChainInit => ChainTypes
BY TypeInit, FilterInit DEF ChainInit, ChainTypes, Init, Shape

(* Every step of the chain keeps the types and is one of the slicer, or leaves it as it is. *)
LEMMA ChainTypesNext == ChainTypes /\ [ChainNext]_chainVars => ChainTypes' /\ [Next]_vars
<1> SUFFICES ASSUME ChainTypes, [ChainNext]_chainVars PROVE ChainTypes' /\ [Next]_vars
  OBVIOUS
<1>1. [Next]_vars
  BY StepMaps, Groups DEF ChainTypes
<1>2. TypeOK' /\ Shape'
  BY <1>1, ShapeStep DEF ChainTypes
<1>3. FilterOK' /\ TableOK' /\ FramesOK'
  <2>1. CASE FilterStep
    BY <2>1, FilterNext, TableNext, FramesNext DEF ChainTypes
  <2>2. CASE SlicerStep \/ UNCHANGED chainVars
    <3>1. UNCHANGED filterVars
      BY <2>2 DEF SlicerStep, chainVars
    <3> QED BY <3>1 DEF ChainTypes, FilterOK, TableOK, FramesOK, filterVars
  <2> QED BY <2>1, <2>2 DEF ChainNext
<1> QED BY <1>1, <1>2, <1>3 DEF ChainTypes

(* Both devices and what is between them stay in their types, whatever the expression is.   *)
THEOREM ChainTypeCorrect == ChainSpec => []ChainTypeOK
<1>1. ChainTypes => ChainTypeOK
  BY ChainGroups DEF ChainTypes
<1> QED BY <1>1, ChainTypesInit, ChainTypesNext, PTL DEF ChainSpec

(* The chain implements the slicer with an arbitrary environment: the filter never sends *)
(* lists that are not ascending or out of range, nor anything else that is no message.    *)
THEOREM ChainImplementsSlicer == ChainSpec => ImplementsSlicer
<1>1. ChainInit => Init
  BY DEF ChainInit
<1>2. ChainTypes /\ [ChainNext]_chainVars => ChainTypes' /\ [Next]_vars
  BY ChainTypesNext
<1> QED BY <1>1, <1>2, ChainTypesInit, PTL DEF ChainSpec, ImplementsSlicer, Spec

(* So what is proved of the slicer for all messages holds behind the filter.             *)
THEOREM ChainSlicesCorrect == ChainSpec => []SlicesAreWindows
BY ChainImplementsSlicer, SlicesCorrect, PTL DEF ImplementsSlicer

-----------------------------------------------------------------------------
(* The messages that the filter sends, and the containers of the slicer.           *)

(* m was made of a frame, without data-suppress unchanged and with a list for every number that *)
(* all its sources have.                                                     *)
Sent(suppress, m) ==
  \E frame \in Frames :
    /\ m.numSource = frame.numSource
    /\ ~suppress => m.stfs = frame.stfs /\ Len(m.lists) = LF!NumBlocks(frame)

(* All that is on the way has been made of frames; the containers are those for the sources that all *)
(* frames announce.                                                            *)
SentInv ==
  /\ filter \in {"dqm", "send"} => Sent(options.suppress, filterOut)
  /\ \A i \in 1 .. Len(link) : Sent(options.suppress, link[i])
  /\ fTF = <<>> \/ \E frame \in Frames : Len(fTF) = frame.numSource
  /\ slicer \in {"hbf", "cut", "dqm", "send", "failed", "undefined"} =>
       Sent(options.suppress, inParts) /\ Len(fTF) = inParts.numSource

(* What OutParts makes is made of the frame. *)
LEMMA OutPartsSent ==
  ASSUME NEW frame \in Frames, NEW suppress, NEW junk
  PROVE  Sent(suppress, LF!OutParts(frame, LF!Lists(frame), suppress, junk))
<1> DEFINE m == LF!OutParts(frame, LF!Lists(frame), suppress, junk)
<1>1. m.numSource = frame.numSource /\ m.lists = LF!Lists(frame) /\ (~suppress => m.stfs = frame.stfs)
  BY DEF LF!OutParts
<1> HIDE DEF m
<1>2. Sent(suppress, m)
  BY <1>1, ListsType DEF Sent
<1> QED BY <1>2 DEF m

(* A step of the filter sends at most what it has made of a frame. *)
LEMMA SentFilter ==
  ASSUME ChainTypes, SentInv, FilterStep
  PROVE  SentInv'
<1>0. /\ link \in Seq(Messages) /\ options' = options
      /\ UNCHANGED <<slicer, inParts, fTF>>
  BY DEF ChainTypes, TypeOK, FilterStep, slicerVars, tables, LF!Device, LF!InitTask, LF!Receive, LF!SendDqm,
         LF!SendSucceeds, LF!SendInterrupted, LF!PostRun, LF!RequestStop, LF!Run, SendFrame, LF!SendFrame
<1>1. /\ fTF' = <<>> \/ \E frame \in Frames : Len(fTF') = frame.numSource
      /\ slicer' \in {"hbf", "cut", "dqm", "send", "failed", "undefined"} =>
           Sent(options'.suppress, inParts') /\ Len(fTF') = inParts'.numSource
  BY <1>0 DEF SentInv
<1>2. CASE LF!Receive
  <2>1. link' = link /\ filterInput # <<>> /\ filterParts' = Head(filterInput)
        /\ \E junk : filterOut' = LF!OutParts(filterParts', LF!Lists(filterParts'), options.suppress, junk)
    BY <1>2 DEF LF!Receive
  <2>2. filterParts' \in Frames
    BY <2>1 DEF ChainTypes, FramesOK
  <2>3. Sent(options.suppress, filterOut')
    BY <2>1, <2>2, OutPartsSent
  <2> QED BY <1>0, <1>1, <2>1, <2>3 DEF SentInv
<1>3. CASE LF!SendSucceeds
  <2>1. filter = "send" /\ filter' = "idle" /\ link' = Append(link, filterOut)
    BY <1>3 DEF LF!SendSucceeds
  <2>2. Len(link) \in Nat /\ Len(link') = Len(link) + 1 /\ link'[Len(link) + 1] = filterOut
        /\ \A i \in 1 .. Len(link) : link'[i] = link[i]
    BY <1>0, <2>1
  <2>3. \A i \in 1 .. Len(link') : i \in 1 .. Len(link) \/ i = Len(link) + 1
    BY <2>2
  <2>4. Sent(options.suppress, filterOut) /\ \A i \in 1 .. Len(link) : Sent(options.suppress, link[i])
    BY <2>1 DEF SentInv
  <2>5. \A i \in 1 .. Len(link') : Sent(options.suppress, link'[i])
    BY <2>2, <2>3, <2>4
  <2> QED BY <1>0, <1>1, <2>1, <2>5 DEF SentInv
<1>4. CASE LF!SendDqm
  <2>1. filter = "dqm" /\ UNCHANGED <<link, filterOut>>
    BY <1>4 DEF LF!SendDqm
  <2> QED BY <1>0, <1>1, <2>1 DEF SentInv
<1>5. CASE LF!InitTask \/ LF!Run \/ LF!PostRun \/ LF!SendInterrupted
  <2>1. filter' \notin {"dqm", "send"} /\ link' = link
    BY <1>5 DEF LF!InitTask, LF!Run, LF!PostRun, LF!SendInterrupted
  <2> QED BY <1>0, <1>1, <2>1 DEF SentInv
<1>6. CASE LF!RequestStop \/ SendFrame
  <2>1. UNCHANGED <<filter, filterOut, link>>
    BY <1>6 DEF LF!RequestStop, SendFrame, LF!SendFrame
  <2> QED BY <1>0, <1>1, <2>1 DEF SentInv
<1> QED BY <1>2, <1>3, <1>4, <1>5, <1>6 DEF FilterStep, LF!Device

(* The rest of what is on the way has been made of frames, too. *)
LEMMA SentTail ==
  ASSUME ChainTypes, SentInv, link # <<>>
  PROVE  /\ Sent(options.suppress, Head(link))
         /\ \A i \in 1 .. Len(Tail(link)) : Sent(options.suppress, Tail(link)[i])
<1>1. link \in Seq(Messages)
  BY DEF ChainTypes, TypeOK
<1>2. /\ 1 \in 1 .. Len(link) /\ Head(link) = link[1]
      /\ \A i \in 1 .. Len(Tail(link)) : i + 1 \in 1 .. Len(link) /\ Tail(link)[i] = link[i + 1]
  BY <1>1
<1> QED BY <1>2 DEF SentInv

(* The slicer's containers grow once, to the sources that all frames announce. *)
LEMMA SentReceive ==
  ASSUME ChainTypes, SentInv, Receive, UNCHANGED filterVars
  PROVE  SentInv'
<1>1. link # <<>> /\ link' = Tail(link) /\ inParts' = Head(link) /\ fTF' = Grown(inParts')
      /\ UNCHANGED <<filter, filterOut, options>>
  BY DEF Receive, filterVars
<1>2. fTF \in Seq(Nat) /\ link \in Seq(Messages)
  BY DEF ChainTypes, TypeOK
<1>3. inParts' \in Messages
  BY <1>1, <1>2
<1>4. PICK frame \in Frames : inParts'.numSource = frame.numSource
  BY <1>1, SentTail DEF Sent
<1>5. frame.numSource \in Nat /\ \A other \in Frames : other.numSource = frame.numSource
  BY FrameParts, ChainConstantsAssumption DEF ChainConstantsAssumption
<1>6. Len(fTF') = Larger(Len(fTF), frame.numSource)
  BY <1>1, <1>2, <1>3, <1>4, GrownType
<1>7. Len(fTF) = 0 \/ Len(fTF) = frame.numSource
  BY <1>2, <1>5 DEF SentInv
<1>8. Len(fTF') = frame.numSource
  BY <1>5, <1>6, <1>7 DEF Larger
<1>9. Sent(options'.suppress, inParts') /\ \A i \in 1 .. Len(link') : Sent(options'.suppress, link'[i])
  BY <1>1, SentTail
<1> QED BY <1>1, <1>4, <1>8, <1>9 DEF SentInv

(* The steps of the slicer keep what is in hand, or lay it aside. *)
LEMMA SentSlicer ==
  ASSUME ChainTypes, SentInv, SlicerStep
  PROVE  SentInv'
<1>0. UNCHANGED filterVars /\ UNCHANGED <<filter, filterOut, options>>
  BY DEF SlicerStep, filterVars
<1>1. ASSUME UNCHANGED <<link, inParts, tables>>,
             slicer' \in {"hbf", "cut", "dqm", "send", "failed", "undefined"}
               => slicer \in {"hbf", "cut", "dqm", "send", "failed", "undefined"}
      PROVE  SentInv'
  BY <1>0, <1>1 DEF SentInv, tables
<1>2. CASE Receive
  BY <1>0, <1>2, SentReceive
<1>3. CASE Collapse \/ BeginHBF \/ Loops \/ EndHBFs \/ SendDqm
  <2>1. UNCHANGED <<link, inParts, tables>> /\ slicer \in {"hbf", "cut", "dqm"}
    BY <1>3 DEF Collapse, BeginHBF, Loops, Skip, Take, NextSource, NextTrigger, EndHBF, Cutting, unchangedByLoops,
                EndHBFs, SendDqm
  <2> QED BY <1>1, <2>1
<1>4. CASE SendSucceeds \/ SendInterrupted
  <2>1. slicer' = "idle" /\ UNCHANGED <<link, tables>>
    BY <1>4 DEF SendSucceeds, SendInterrupted, Leave
  <2> QED BY <1>0, <2>1 DEF SentInv, tables
<1>5. CASE PreRun \/ BeginPostRun \/ EndPostRun
  <2>1. UNCHANGED <<link, inParts, tables>> /\ slicer' \in {"idle", "drain", "ready"}
    BY <1>5 DEF PreRun, BeginPostRun, EndPostRun
  <2> QED BY <1>1, <2>1
<1>6. CASE SendBlocked \/ RequestStop \/ \E d \in DOMAIN output : Consume(d)
  <2>1. UNCHANGED <<link, inParts, tables>> /\ UNCHANGED slicer
    BY <1>6 DEF SendBlocked, RequestStop, Consume
  <2> QED BY <1>1, <2>1
<1>7. CASE DrainOne
  <2>1. link # <<>> /\ link' = Tail(link) /\ UNCHANGED <<slicer, inParts, tables>>
    BY <1>7 DEF DrainOne
  <2>2. \A i \in 1 .. Len(link') : Sent(options'.suppress, link'[i])
    BY <1>0, <2>1, SentTail
  <2> QED BY <1>0, <2>1, <2>2 DEF SentInv, tables
<1> QED BY <1>2, <1>3, <1>4, <1>5, <1>6, <1>7 DEF SlicerStep, Local, Device

(* Nothing has been sent at the start. *)
LEMMA SentInit == ChainInit => SentInv
BY DEF ChainInit, Init, LF!Init, SentInv

(* Every step keeps this. *)
LEMMA SentNext == ChainTypes /\ SentInv /\ [ChainNext]_chainVars => SentInv'
<1> SUFFICES ASSUME ChainTypes, SentInv, [ChainNext]_chainVars PROVE SentInv'
  OBVIOUS
<1>1. CASE UNCHANGED chainVars
  <2>1. UNCHANGED <<filter, filterOut, options, link, fTF, slicer, inParts>>
    BY <1>1 DEF chainVars, vars, filterVars, tables
  <2> QED BY <2>1 DEF SentInv
<1> QED BY <1>1, SentFilter, SentSlicer DEF ChainNext

(* A regular frame is regular for the slicer. *)
LEMMA RegularFrameIsRegular ==
  ASSUME ChainTypes, SentInv, slicer \in {"failed", "undefined"}, ~options.suppress, RegularFrame(inParts)
  PROVE  Regular(inParts)
<1>1. PICK frame \in Frames : /\ inParts.numSource = frame.numSource
                              /\ inParts.stfs = frame.stfs /\ Len(inParts.lists) = LF!NumBlocks(frame)
  BY DEF SentInv, Sent
<1>2. Len(inParts.stfs) = Len(fTF)
  BY DEF SentInv, RegularFrame
<1>3. \A s \in DOMAIN frame.stfs : /\ frame.stfs[s].numMessages = Len(frame.stfs[s].hbfs)
                                   /\ Len(frame.stfs[s].hbfs) \in Nat
  BY FrameParts
<1>4. \A s \in DOMAIN inParts.stfs : /\ Len(inParts.stfs[s].hbfs) <= inParts.stfs[s].numMessages
                                     /\ Len(Last(inParts.stfs).hbfs) <= Len(inParts.stfs[s].hbfs)
  BY <1>1, <1>3 DEF RegularFrame
<1>5. frame.stfs # <<>> => Len(Last(frame.stfs).hbfs) <= LF!NumBlocks(frame)
  <2> SUFFICES ASSUME frame.stfs # <<>> PROVE Len(Last(frame.stfs).hbfs) <= LF!NumBlocks(frame)
    OBVIOUS
  <2>1. LF!NumBlocks(frame) \in Counted(frame)
    BY NumBlocksLeast
  <2>2. PICK s \in DOMAIN frame.stfs : LF!NumBlocks(frame) = Len(frame.stfs[s].hbfs)
    BY <2>1 DEF Counted
  <2> QED BY <1>1, <1>4, <2>2
<1> QED BY <1>1, <1>2, <1>4, <1>5 DEF Regular

(* Without data-suppress, a frame that is complete and in which no source has fewer heartbeat frames *)
(* than the last is always cut: the lists of the filter and the containers that the slicer reuses are  *)
(* long enough, whatever frames went before (MakeBlockMap, ParseMessages).         *)
THEOREM RegularFramesAlwaysSliced == ChainSpec => []RegularFramesAreSliced
<1>1. ChainTypes /\ SentInv /\ FailsOnlyOnIrregular => RegularFramesAreSliced
  BY RegularFrameIsRegular DEF RegularFramesAreSliced, FailsOnlyOnIrregular
<1>2. ChainSpec => []FailsOnlyOnIrregular
  BY ChainImplementsSlicer, FailsOnlyIfIrregular, PTL DEF ImplementsSlicer
<1> QED BY <1>1, <1>2, ChainTypesInit, ChainTypesNext, SentInit, SentNext, PTL DEF ChainSpec

-----------------------------------------------------------------------------
(* The table.  The filter's copy of the trigger expression is that of the theorems.  *)

(* The parser. *)
LEMMA SameParser ==
  /\ LX!Tokens = LF!Tokens /\ LX!Combinations = LF!Combinations
  /\ \A s : LX!InfixToRPN(s) = LF!InfixToRPN(s) /\ LX!Last(s) = LF!Last(s)
<1>1. LX!Tokens = LF!Tokens /\ LX!Combinations = LF!Combinations
  BY Zenon DEF LX!Tokens, LF!Tokens, LX!Combinations, LF!Combinations
<1>2. ASSUME NEW s PROVE LX!InfixToRPN(s) = LF!InfixToRPN(s)
  BY Zenon DEF LX!Tokens, LX!Results, LX!Node, LX!Null, LX!Thrown, LX!Op, LX!Binary, LX!Calls, LX!Call, LX!StartsWith,
               LX!ParseValue, LX!ParseNot, LX!AndLoop, LX!OrLoop, LX!Rule, LX!Parse, LX!InfixToRPN,
               LF!Tokens, LF!Results, LF!Node, LF!Null, LF!Thrown, LF!Op, LF!Binary, LF!Calls, LF!Call, LF!StartsWith,
               LF!ParseValue, LF!ParseNot, LF!AndLoop, LF!OrLoop, LF!Rule, LF!Parse, LF!InfixToRPN
<1>3. ASSUME NEW s PROVE LX!Last(s) = LF!Last(s)
  BY Zenon DEF LX!Last, LF!Last
<1> QED BY <1>1, <1>2, <1>3, Zenon

(* What a factor, a term and a sum read as. *)
LEMMA SameGrammar ==
  ASSUME NEW R, NEW s
  PROVE  LX!Factors(R, s) = LF!Factors(R, s) /\ LX!Terms(R, s) = LF!Terms(R, s) /\ LX!Sums(R, s) = LF!Sums(R, s)
<1>1. LX!Factors(R, s) = LF!Factors(R, s)
  BY Zenon DEF LX!Factors, LX!StartsWith, LX!Not, LX!Inside, LX!Combinations, LX!Last,
               LF!Factors, LF!StartsWith, LF!Not, LF!Inside, LF!Combinations, LF!Last
<1>2. ASSUME NEW A, NEW B PROVE LX!Both(A, B) = LF!Both(A, B) /\ LX!Either(A, B) = LF!Either(A, B)
  BY SMT DEF LX!Both, LF!Both, LX!Either, LF!Either
<1>3. ASSUME NEW q, NEW i
      PROVE  LX!Before(q, i) = LF!Before(q, i) /\ LX!After(q, i) = LF!After(q, i) /\ LX!Places(q, i) = LF!Places(q, i)
  BY Zenon DEF LX!Before, LX!After, LF!Before, LF!After, LX!Places, LF!Places
<1>4. LX!Terms(R, s) = LF!Terms(R, s)
  BY SMT, <1>1, <1>2, <1>3 DEF LX!Terms, LF!Terms
<1>5. LX!Sums(R, s) = LF!Sums(R, s)
  BY SMT, <1>2, <1>3, <1>4 DEF LX!Sums, LF!Sums
<1> QED BY <1>1, <1>4, <1>5

(* What an expression means. *)
LEMMA SameMeaning ==
  ASSUME NEW s
  PROVE  (LX!WellFormed(s) <=> LF!WellFormed(s)) /\ LX!Meaning(s) = LF!Meaning(s)
<1> DEFINE G(of) == [q \in Seq(LX!Tokens) |->
                      [factor |-> LX!Factors(of, q), term |-> LX!Terms(of, q), sum |-> LX!Sums(of, q)]]
           F(of) == [q \in Seq(LF!Tokens) |->
                      [factor |-> LF!Factors(of, q), term |-> LF!Terms(of, q), sum |-> LF!Sums(of, q)]]
<1>1. ASSUME NEW of PROVE G(of) = F(of)
  BY SMT, SameGrammar, SameParser
<1>2. LX!Readings(s) = (CHOOSE of : of = G(of))[s].sum
  BY Zenon DEF LX!Readings
<1>3. LF!Readings(s) = (CHOOSE of : of = F(of))[s].sum
  BY Zenon DEF LF!Readings
<1> HIDE DEF F, G
<1>4. (CHOOSE of : of = G(of)) = (CHOOSE of : of = F(of))
  BY Zenon, <1>1
<1>5. LX!Readings(s) = LF!Readings(s)
  BY Zenon, <1>2, <1>3, <1>4
<1> QED BY Zenon, <1>5 DEF LX!WellFormed, LF!WellFormed, LX!Meaning, LF!Meaning

(* The commands and the table. *)
LEMMA SameTable ==
  ASSUME NEW p
  PROVE  /\ LX!Commands(p) = LF!Commands(p) /\ LX!Defined(p) = LF!Defined(p)
         /\ \A on : LX!LookUp(LX!MakeTable(p), on) = LF!LookUp(LF!MakeTable(p), on)
<1>1. LX!Commands(p) = LF!Commands(p)
  BY Zenon DEF LX!Commands, LX!IsCommand, LF!Commands, LF!IsCommand
<1>2. LX!Defined(p) = LF!Defined(p)
  BY Zenon DEF LX!Defined, LX!SigMax, LX!Max, LX!Sig, LX!Calc, LX!Step, LX!Front, LX!Last,
               LF!Defined, LF!SigMax, LF!Max, LF!Sig, LF!Calc, LF!Step, LF!Front, LF!Last
<1>3. ASSUME NEW on PROVE LX!LookUp(LX!MakeTable(p), on) = LF!LookUp(LF!MakeTable(p), on)
  BY Zenon DEF LX!LookUp, LX!MakeTable, LX!SigMax, LX!Max, LX!Sig, LX!Calc, LX!Step, LX!Front, LX!Last,
               LF!LookUp, LF!MakeTable, LF!SigMax, LF!Max, LF!Sig, LF!Calc, LF!Step, LF!Front, LF!Last
<1> QED BY <1>1, <1>2, <1>3, Zenon

(* The highest id of a well-formed expression is that of a signal. *)
LEMMA HighestIs ==
  ASSUME NEW e \in Seq(LF!Tokens), LF!WellFormed(e)
  PROVE  LX!IsHighest(LF!Highest(e), e)
<1> DEFINE S == {e[i].id : i \in DOMAIN e}
<1>1. e \in Seq(LX!Tokens) /\ LX!WellFormed(e)
  BY SameParser, SameMeaning
<1>2. PICK n : LX!IsHighest(n, e)
  BY <1>1, LX!HasHighest
<1>3. n \in Nat /\ n \in S /\ \A x \in S : x <= n
  BY <1>2 DEF LX!IsHighest
<1>4. S \subseteq Int
  BY DEF LF!Tokens
<1>5. LF!Max(S) = CHOOSE x \in S : \A y \in S : x >= y
  BY DEF LF!Max
<1>6. LF!Highest(e) = LF!Max(S)
  BY Zenon DEF LF!Highest
<1> HIDE DEF S
<1>7. \A x \in S : (\A y \in S : x >= y) <=> x = n
  BY <1>3, <1>4
<1>8. LF!Max(S) = n
  BY <1>3, <1>5, <1>7
<1> QED BY <1>2, <1>6, <1>8, Zenon

(* The table holds the truth of the expression for all signals up to its highest.     *)
TableMeans(table, e) ==
  \A on \in SUBSET (0 .. NsigMax - 1) :
    LF!LookUp(table, on) <=> (on \subseteq 0 .. LF!Highest(e) /\ on \in LF!Meaning(e))

(* InitTask accepts these expressions, and goes on with these commands. *)
CommandsOf(e) == LF!Commands(LF!Formula(e).rpn)
Accepted(e)   == LF!Formula(e).status = "node" /\ LF!Defined(CommandsOf(e))

(* The signals of an expression that is written in infix are below the last id. *)
InRange(e) == LF!WellFormed(e) /\ LF!Highest(e) + 1 < NsigMax

EndsInOperator(e) == LF!Last(e).kind \in {"&", "|", "!"}

(* What InitTask makes of an infix expression. *)
LEMMA InfixTable ==
  ASSUME NEW e \in Seq(LF!Tokens), ~LF!StartsWith(e, "RPN")
  PROVE  /\ InRange(e) => Accepted(e) /\ TableMeans(LF!MakeTable(CommandsOf(e)), e)
         /\ Accepted(e) => LF!WellFormed(e) \/ EndsInOperator(e)
<1> DEFINE c == CommandsOf(e)
           top == LF!Highest(e)
<1>1. e \in Seq(LX!Tokens) /\ NsigMax \in Nat \ {0}
  BY SameParser, ChainConstants
<1>2. LF!Formula(e) = LX!InfixToRPN(e)
  BY SameParser, Zenon DEF LF!Formula
<1>3. c = LX!Commands(LX!InfixToRPN(e).rpn)
  BY <1>2, SameTable, Zenon DEF CommandsOf
<1> HIDE DEF c, top
<1>4. ASSUME InRange(e) PROVE Accepted(e) /\ TableMeans(LF!MakeTable(c), e)
  <2>1. LX!WellFormed(e) /\ LX!IsHighest(top, e) /\ top + 1 < NsigMax
    BY <1>4, SameMeaning, HighestIs DEF InRange, top
  <2>2. /\ LX!InfixToRPN(e).status = "node" /\ LX!Defined(c)
        /\ \A on \in LX!Combinations :
             LX!LookUp(LX!MakeTable(c), on) <=> on \subseteq 0 .. top /\ on \in LX!Meaning(e)
    BY <1>1, <1>3, <2>1, LX!TableIsMeaning
  <2>3. Accepted(e)
    BY <1>2, <2>2, SameTable, Zenon DEF Accepted, c
  <2>4. TableMeans(LF!MakeTable(c), e)
    <3>1. LX!Combinations = SUBSET (0 .. NsigMax - 1)
      BY DEF LX!Combinations
    <3>2. \A on : LX!LookUp(LX!MakeTable(c), on) = LF!LookUp(LF!MakeTable(c), on)
      BY SameTable
    <3>3. LX!Meaning(e) = LF!Meaning(e)
      BY SameMeaning
    <3> QED BY <2>2, <3>1, <3>2, <3>3, Zenon DEF TableMeans, top
  <2> QED BY <2>3, <2>4
<1>5. ASSUME Accepted(e) PROVE LF!WellFormed(e) \/ EndsInOperator(e)
  <2>1. LX!InfixToRPN(e).status = "node"
    BY <1>2, <1>5 DEF Accepted
  <2>2. LX!WellFormed(e) \/ LX!Last(e).kind \in {"&", "|", "!"}
    BY <1>1, <2>1, LX!AcceptedIsWellFormed
  <2>3. LX!Last(e) = LF!Last(e)
    BY SameParser
  <2> QED BY <2>2, <2>3, SameMeaning, Zenon DEF EndsInOperator
<1> QED BY <1>4, <1>5 DEF c

(* From InitTask on, and for as long as the device lives, the table is that of the expression, or the device  *)
(* has not come to be ready.                                                  *)
ExpressionDone(e, table, at) ==
  /\ InRange(e) => at \notin {"failed", "undefined"} /\ TableMeans(table, e)
  /\ at \notin {"failed", "undefined"} => LF!WellFormed(e) \/ EndsInOperator(e)

TableInv ==
  /\ options.expression \in Seq(LF!Tokens)
  /\ filter # "init" /\ ~LF!StartsWith(options.expression, "RPN") =>
       ExpressionDone(options.expression, fTMap, filter)

(* InitTask makes the table, and no other step touches it. *)
LEMMA TableInvNext ==
  ASSUME TableInv, [ChainNext]_chainVars
  PROVE  TableInv'
<1>1. CASE LF!InitTask
  <2> DEFINE e == options.expression
  <2>1. options' = options /\ e \in Seq(LF!Tokens)
    BY <1>1 DEF LF!InitTask, TableInv
  <2>2. IF Accepted(e) THEN filter' = "ready" /\ fTMap' = LF!MakeTable(CommandsOf(e))
                       ELSE filter' \in {"failed", "undefined"}
    BY <1>1, Zenon DEF LF!InitTask, Accepted, CommandsOf
  <2> SUFFICES ASSUME ~LF!StartsWith(e, "RPN") PROVE ExpressionDone(e, fTMap', filter')
    BY <2>1 DEF TableInv
  <2> HIDE DEF e
  <2>3. CASE Accepted(e)
    BY <2>1, <2>2, <2>3, InfixTable DEF ExpressionDone
  <2>4. CASE ~Accepted(e)
    BY <2>1, <2>2, <2>4, InfixTable DEF ExpressionDone
  <2> QED BY <2>3, <2>4
<1>2. ASSUME UNCHANGED <<options, fTMap>>, filter' = filter \/ {filter, filter'} \subseteq {"ready", "idle", "dqm", "send"}
      PROVE  TableInv'
  BY <1>2 DEF TableInv, ExpressionDone
<1>3. CASE UNCHANGED chainVars \/ SlicerStep \/ LF!RequestStop \/ SendFrame
  <2>1. UNCHANGED <<filter, options, fTMap>>
    BY <1>3 DEF chainVars, filterVars, SlicerStep, LF!RequestStop, SendFrame, LF!SendFrame
  <2> QED BY <1>2, <2>1
<1>4. CASE LF!Run \/ LF!Receive \/ LF!SendDqm \/ LF!SendSucceeds \/ LF!SendInterrupted \/ LF!PostRun
  <2>1. UNCHANGED <<options, fTMap>> /\ {filter, filter'} \subseteq {"ready", "idle", "dqm", "send"}
    BY <1>4 DEF LF!Run, LF!Receive, LF!SendDqm, LF!SendSucceeds, LF!SendInterrupted, LF!PostRun
  <2> QED BY <1>2, <2>1
<1> QED BY <1>1, <1>3, <1>4 DEF ChainNext, FilterStep, LF!Device

(* Every expression of the grammar, of any length and depth, whose signals are below the last id is accepted, *)
(* and the table that it is turned into is its meaning, for every combination of signals and throughout the    *)
(* life of the device; what is accepted beyond the grammar ends in an operator (infixtorpn::AstNode,          *)
(* LogiCalc::SetFormula, TriggerMap::MakeTable).                                *)
THEOREM TableCorrect == ChainSpec => []TableIsExpression
<1>1. ChainInit => TableInv
  <2> SUFFICES ASSUME LF!Init PROVE TableInv
    BY DEF ChainInit
  <2>1. options \in Configurations /\ filter = "init"
    BY DEF LF!Init
  <2>2. options.expression \in Seq(LF!Tokens)
    BY <2>1, ChainConstantsAssumption, Zenon DEF ChainConstantsAssumption
  <2> QED BY <2>1, <2>2 DEF TableInv
<1>2. TableInv => TableIsExpression
  BY Zenon DEF TableIsExpression, LF!TableIsExpression, TableInv, ExpressionDone, TableMeans, InRange, EndsInOperator
<1> QED BY <1>1, <1>2, TableInvNext, PTL DEF ChainSpec

-----------------------------------------------------------------------------
(* The trigger times.                                                        *)

(* The expressions with which frames are sent are infix, of the grammar, and their signals below the last *)
(* id.                                                                     *)
Grammatical ==
  \A c \in StartedWith :
    /\ LF!WellFormed(c.expression) /\ ~LF!StartsWith(c.expression, "RPN")
    /\ \A i \in DOMAIN c.expression : c.expression[i].id + 1 < NsigMax

(* The highest signal is one of them. *)
LEMMA HighestType ==
  ASSUME Grammatical, NEW c \in StartedWith
  PROVE  LF!Highest(c.expression) \in Int /\ LF!Highest(c.expression) + 1 < NsigMax
<1> DEFINE e == c.expression
           top == LF!Highest(e)
<1>1. e \in Seq(LF!Tokens)
  <2>1. StartedWith \subseteq Configurations /\ \A k \in Configurations : k.expression \in Seq(LF!Tokens)
    BY ChainConstantsAssumption DEF ChainConstantsAssumption
  <2> QED BY <2>1
<1>2. LF!WellFormed(e) /\ \A i \in DOMAIN e : e[i].id + 1 < NsigMax
  BY DEF Grammatical
<1> HIDE DEF e, top
<1>3. LX!IsHighest(top, e)
  BY <1>1, <1>2, HighestIs DEF top
<1>4. top \in Nat /\ \E i \in DOMAIN e : e[i].id = top
  BY <1>3 DEF LX!IsHighest
<1>5. top \in Int /\ top + 1 < NsigMax
  BY <1>2, <1>4
<1> QED BY <1>5 DEF e, top

-----------------------------------------------------------------------------
(* A hit marks, modulo the size of a word, the times in the coincidence width around it.  *)
LEMMA MarksAre ==
  ASSUME NEW j \in DOMAIN Signals, NEW u \in -1 .. MaxTime, NEW t \in 0 .. TimeRegion - 1
  PROVE  t \in LF!Marks(j, u) <=>
           (/\ u + Signals[j].delay \in 0 .. TimeRegion - 1 - LF!Half
            /\ t - (u + Signals[j].delay) \in -LF!Half .. LF!Half)
<1> DEFINE W == WordSize
           H == LF!Half
           R == TimeRegion
           at == u + Signals[j].delay
           hit == at % W
<1>1. /\ W \in Nat \ {0} /\ H \in Nat /\ R = MaxTime + 1 /\ MaxTime \in Nat /\ 2 * (R + H) < W
      /\ at \in Int /\ 2 * at >= -W - 2 /\ at <= W + R /\ 2 * at <= W + 2 * R
  <2>1. /\ W \in Nat /\ MaxTime \in Nat /\ MarkLen \in Nat /\ R = MaxTime + 1 /\ 2 * (R + MarkLen) < W
    BY ChainConstantsAssumption, SlicerConstantsAssumption DEF ChainConstantsAssumption, SlicerConstantsAssumption
  <2>2. Signals[j].delay \in Int /\ 2 * Signals[j].delay \in -W .. W
    <3>1. Signals \in Seq([fem : Nat, ch : Nat, delay : Int])
      BY ChainConstants
    <3>2. Signals[j] \in [fem : Nat, ch : Nat, delay : Int]
      <4>1. ASSUME NEW F, NEW q \in Seq(F), NEW i \in DOMAIN q PROVE q[i] \in F
        OBVIOUS
      <4> QED BY <3>1, <4>1, Zenon
    <3>3. 2 * Signals[j].delay \in -W .. W
      BY ChainConstantsAssumption, Zenon DEF ChainConstantsAssumption
    <3> QED BY <3>2, <3>3
  <2>3. H \in Nat /\ H <= MarkLen
    BY <2>1 DEF LF!Half
  <2> HIDE DEF H, W, R
  <2> QED BY <2>1, <2>2, <2>3
<1>2. t \in LF!Marks(j, u) <=> /\ hit < R - H
                               /\ \E k \in -H .. H : t = (hit + k) % W
  BY DEF LF!Marks
<1> HIDE DEF H, W, R, at
<1>3. t \in 0 .. R - 1
  BY DEF R
<1>4. CASE at < 0
  <2>1. hit = at + W
    BY <1>1, <1>4, Modulo
  <2>2. ~(hit < R - H)
    BY <1>1, <2>1
  <2>3. at \notin 0 .. R - 1 - H
    BY <1>1, <1>4
  <2> QED BY <1>2, <2>2, <2>3 DEF H, R, at
<1>5. CASE at >= 0
  <2>1. hit = at
    BY <1>1, <1>5, Modulo
  <2>2. hit < R - H <=> at \in 0 .. R - 1 - H
    BY <1>1, <1>5, <2>1
  <2>3. ASSUME at \in 0 .. R - 1 - H
        PROVE  (\E k \in -H .. H : t = (hit + k) % W) <=> t - at \in -H .. H
    <3>1. ASSUME NEW k \in -H .. H, t = (at + k) % W PROVE t = at + k
      <4>1. at + k \in Int /\ k \in Int /\ at + k < W /\ 0 <= at + k + W
        BY <1>1, <2>3
      <4>2. CASE at + k >= 0
        BY <1>1, <3>1, <4>1, <4>2, Modulo
      <4>3. CASE at + k < 0
        <5>1. t = at + k + W
          BY <1>1, <3>1, <4>1, <4>3, Modulo
        <5>2. FALSE
          BY <1>1, <1>3, <1>5, <3>1, <5>1
        <5> QED BY <5>2
      <4> QED BY <4>1, <4>2, <4>3
    <3>2. ASSUME t - at \in -H .. H PROVE \E k \in -H .. H : t = (at + k) % W
      <4>1. t = at + (t - at) /\ t < W /\ 0 <= t
        BY <1>1, <1>3
      <4>2. t = (at + (t - at)) % W
        BY <1>1, <1>3, <4>1, Modulo
      <4> QED BY <3>2, <4>2
    <3>3. ASSUME NEW k \in -H .. H, t = at + k PROVE t - at \in -H .. H
      BY <1>1, <3>3
    <3> QED BY <2>1, <3>1, <3>2, <3>3
  <2> QED BY <1>2, <2>2, <2>3 DEF H, R, at
<1> QED BY <1>1, <1>4, <1>5

(* So the signals of the region at a time are those whose hits are on. *)
LEMMA RegionIsOn ==
  ASSUME NEW frame \in Frames, NEW b, NEW t \in 0 .. TimeRegion - 1
  PROVE  /\ LF!Region(frame, b)[t] = LF!On(frame, b, t)
         /\ LF!On(frame, b, t) \in SUBSET (0 .. NsigMax - 1)
<1> DEFINE marked == [i \in DOMAIN Signals |-> UNION {LF!Marks(i, u) : u \in LF!Hits(frame, b, i)}]
           Near(i, u) == /\ u + Signals[i].delay \in 0 .. TimeRegion - 1 - LF!Half
                         /\ t - (u + Signals[i].delay) \in -LF!Half .. LF!Half
<1>1. ASSUME NEW i \in DOMAIN Signals, NEW u \in LF!Hits(frame, b, i) PROVE u \in -1 .. MaxTime
  <2>1. PICK s \in DOMAIN frame.stfs : /\ b \in DOMAIN frame.stfs[s].hbfs
                                       /\ \E w \in frame.stfs[s].hbfs[b] : u = w.t
    BY <1>1, Zenon DEF LF!Hits
  <2>2. frame.stfs[s] \in STFs
    BY FrameParts
  <2>3. frame.stfs[s].hbfs \in Seq({S \in SUBSET Words : IsFiniteSet(S)})
    BY <2>2 DEF STFs
  <2>4. ASSUME NEW F, NEW q \in Seq(F), NEW k \in DOMAIN q PROVE q[k] \in F
    OBVIOUS
  <2>5. frame.stfs[s].hbfs[b] \subseteq Words
    BY <2>1, <2>3, <2>4
  <2>6. \A w \in Words : w.t \in -1 .. MaxTime
    BY DEF Words
  <2> QED BY <2>1, <2>5, <2>6, Zenon
<1>2. ASSUME NEW i \in DOMAIN Signals
      PROVE  t \in marked[i] <=> \E u \in LF!Hits(frame, b, i) : Near(i, u)
  <2>1. marked[i] = UNION {LF!Marks(i, u) : u \in LF!Hits(frame, b, i)}
    OBVIOUS
  <2>2. \A u \in LF!Hits(frame, b, i) : t \in LF!Marks(i, u) <=> Near(i, u)
    BY <1>1, MarksAre
  <2> HIDE DEF marked, Near
  <2> QED BY <2>1, <2>2, Zenon
<1>3. LF!Region(frame, b)[t] = {i - 1 : i \in {j \in DOMAIN Signals : t \in marked[j]}}
  BY Zenon DEF LF!Region
<1>4. LF!On(frame, b, t) = {i - 1 : i \in {j \in DOMAIN Signals : \E u \in LF!Hits(frame, b, j) : Near(j, u)}}
  BY Zenon DEF LF!On
<1> HIDE DEF marked, Near
<1>5. {j \in DOMAIN Signals : t \in marked[j]}
        = {j \in DOMAIN Signals : \E u \in LF!Hits(frame, b, j) : Near(j, u)}
  BY <1>2, Zenon
<1>6. \A i \in DOMAIN Signals : i - 1 \in 0 .. NsigMax - 1
  BY ChainConstants
<1> QED BY <1>3, <1>4, <1>5, <1>6, Zenon

-----------------------------------------------------------------------------
(* What the trigger times rest on: time frames come only with the expressions of StartedWith, the table is  *)
(* that of the expression, and what the filter is about to send are the rising edges, by the table, of the *)
(* frame in hand. *)
Edges(table, frame, b) ==
  {t \in 1 .. TimeRegion - 1 : /\ ~LF!LookUp(table, LF!Region(frame, b)[t - 1])
                               /\ LF!LookUp(table, LF!Region(frame, b)[t])}

Listed(table, frame, lists) ==
  \A b \in DOMAIN lists : Ascending(lists[b]) /\ LF!Range(lists[b]) = Edges(table, frame, b)

TriggerInv ==
  /\ filter \in {"idle", "dqm", "send"} => options \in StartedWith
  /\ filter \in {"ready", "idle", "dqm", "send"} /\ options \in StartedWith =>
       TableMeans(fTMap, options.expression)
  /\ filter = "dqm" => filterParts \in Frames /\ Listed(fTMap, filterParts, filterOut.lists)

(* The filter lists the rising edges. *)
LEMMA FilterLists ==
  ASSUME NEW frame
  PROVE  Listed(fTMap, frame, LF!Lists(frame))
<1> SUFFICES ASSUME NEW b \in DOMAIN LF!Lists(frame)
             PROVE  /\ Ascending(LF!Lists(frame)[b])
                    /\ LF!Range(LF!Lists(frame)[b]) = Edges(fTMap, frame, b)
  BY DEF Listed
<1> DEFINE region == LF!Region(frame, b)
           list   == LF!Scan(region)
           R      == Rising(region)
<1>1. LF!Lists(frame)[b] = list
  <2>1. b \in 1 .. LF!NumBlocks(frame)
    BY DEF LF!Lists
  <2> QED BY <2>1, Zenon DEF LF!Lists
<1>2. Lists(list, R, MaxTime)
  BY ScanLists
<1>3. R = Edges(fTMap, frame, b)
  BY DEF Rising, Edges, LF!Status
<1>4. R \subseteq 1 .. MaxTime
  BY ChainConstants DEF Rising
<1> HIDE DEF list, R
<1>5. LF!Range(list) = R
  <2>1. DOMAIN list = 1 .. Len(list)
    BY <1>2 DEF Lists
  <2>2. LF!Range(list) = {list[i] : i \in DOMAIN list}
    BY DEF LF!Range
  <2> QED BY <1>2, <1>4, <2>1, <2>2, Zenon DEF Lists
<1> QED BY <1>1, <1>2, <1>3, <1>5 DEF Lists

(* In "ready" the table is that of a grammatical expression because TableIsExpression says so; no other *)
(* step changes it.                                                          *)
LEMMA TriggerNext ==
  ASSUME Grammatical, ChainTypes, TriggerInv, TableIsExpression', [ChainNext]_chainVars
  PROVE  TriggerInv'
<1>1. ASSUME filter' = "ready", options' \in StartedWith PROVE TableMeans(fTMap', options'.expression)
  <2>1. /\ LF!WellFormed(options'.expression) /\ ~LF!StartsWith(options'.expression, "RPN")
        /\ LF!Highest(options'.expression) + 1 < NsigMax
    BY <1>1, HighestType DEF Grammatical
  <2> QED BY <1>1, <2>1, Zenon DEF TableIsExpression, LF!TableIsExpression, TableMeans
<1>2. ASSUME UNCHANGED <<options, fTMap>>, filter \in {"idle", "dqm", "send"}, filter' \in {"idle", "send"}
      PROVE  TriggerInv'
  BY <1>2 DEF TriggerInv
<1>3. CASE UNCHANGED chainVars \/ SlicerStep \/ LF!RequestStop \/ SendFrame
  <2>1. UNCHANGED <<filter, options, fTMap, filterParts, filterOut>>
    BY <1>3 DEF chainVars, filterVars, SlicerStep, LF!RequestStop, SendFrame, LF!SendFrame
  <2> QED BY <2>1 DEF TriggerInv
<1>4. CASE LF!InitTask \/ LF!PostRun
  <2>1. filter' \in {"ready", "failed", "undefined"}
    BY <1>4 DEF LF!InitTask, LF!PostRun
  <2> QED BY <1>1, <2>1 DEF TriggerInv
<1>5. CASE options \in StartedWith /\ LF!Run
  <2>1. UNCHANGED <<options, fTMap>> /\ filter = "ready" /\ filter' = "idle" /\ options \in StartedWith
    BY <1>5 DEF LF!Run
  <2> QED BY <2>1 DEF TriggerInv
<1>6. CASE LF!SendDqm \/ LF!SendSucceeds \/ LF!SendInterrupted
  <2>1. UNCHANGED <<options, fTMap>> /\ filter \in {"dqm", "send"} /\ filter' \in {"idle", "send"}
    BY <1>6 DEF LF!SendDqm, LF!SendSucceeds, LF!SendInterrupted
  <2> QED BY <1>2, <2>1
<1>7. CASE LF!Receive
  <2>1. /\ UNCHANGED <<options, fTMap>> /\ filter = "idle" /\ filter' = "dqm"
        /\ filterInput # <<>> /\ filterParts' = Head(filterInput)
        /\ \E junk : filterOut' = LF!OutParts(filterParts', LF!Lists(filterParts'), options.suppress, junk)
    BY <1>7 DEF LF!Receive
  <2>2. filterParts' \in Frames
    BY <2>1 DEF ChainTypes, FramesOK
  <2>3. filterOut'.lists = LF!Lists(filterParts')
    <3>1. \A frame, lists, suppress, junk : LF!OutParts(frame, lists, suppress, junk).lists = lists
      BY SMT DEF LF!OutParts
    <3> QED BY <2>1, <3>1
  <2>4. Listed(fTMap, filterParts', filterOut'.lists)
    BY <2>3, FilterLists
  <2> QED BY <2>1, <2>2, <2>4 DEF TriggerInv
<1> QED BY <1>3, <1>4, <1>5, <1>6, <1>7 DEF ChainNext, FilterStep, LF!Device

(* A table of the meaning of the expression looks up its truth over the hits. *)
LEMMA LookUpIsTruth ==
  ASSUME Grammatical, options \in StartedWith, TableMeans(fTMap, options.expression),
         NEW frame \in Frames, NEW b, NEW t \in 0 .. TimeRegion - 1
  PROVE  LF!LookUp(fTMap, LF!Region(frame, b)[t]) <=> LF!IsTrueAt(frame, b, t)
<1> DEFINE on  == LF!On(frame, b, t)
           top == LF!Highest(options.expression)
           true == on \in LF!Meaning(options.expression)
<1>1. LF!Region(frame, b)[t] = on /\ on \in SUBSET (0 .. NsigMax - 1)
  BY RegionIsOn
<1>2. top \in Int
  BY HighestType
<1>3. LF!LookUp(fTMap, on) <=> (on \subseteq 0 .. top /\ true)
  BY <1>1, Zenon DEF TableMeans
<1>4. LF!IsTrueAt(frame, b, t) <=> (true /\ \A i \in on : i <= top)
  BY Zenon DEF LF!IsTrueAt
<1> HIDE DEF on, top, true
<1>5. on \subseteq 0 .. top <=> \A i \in on : i <= top
  BY <1>1, <1>2, ChainConstants
<1> QED BY <1>1, <1>3, <1>4, <1>5, Zenon

(* So what the filter is about to send are the rising edges of the expression. *)
LEMMA ListsAreRisingEdges ==
  ASSUME Grammatical, TriggerInv
  PROVE  TriggersAreRisingCoincidences
<1> SUFFICES ASSUME filter = "dqm", NEW b \in DOMAIN filterOut.lists
             PROVE  /\ Ascending(filterOut.lists[b])
                    /\ LF!Range(filterOut.lists[b])
                         = {t \in 1 .. TimeRegion - 1 : /\ LF!IsTrueAt(filterParts, b, t)
                                                        /\ ~LF!IsTrueAt(filterParts, b, t - 1)}
  BY Zenon DEF TriggersAreRisingCoincidences, LF!TriggersAreRisingCoincidences, Ascending
<1>1. /\ options \in StartedWith /\ TableMeans(fTMap, options.expression)
      /\ filterParts \in Frames /\ Listed(fTMap, filterParts, filterOut.lists)
  BY DEF TriggerInv
<1>2. \A t \in 0 .. TimeRegion - 1 :
        LF!LookUp(fTMap, LF!Region(filterParts, b)[t]) <=> LF!IsTrueAt(filterParts, b, t)
  BY <1>1, LookUpIsTruth
<1>3. \A t \in 1 .. TimeRegion - 1 : t \in 0 .. TimeRegion - 1 /\ t - 1 \in 0 .. TimeRegion - 1
  BY ChainConstants
<1>4. Edges(fTMap, filterParts, b) = {t \in 1 .. TimeRegion - 1 : /\ LF!IsTrueAt(filterParts, b, t)
                                                                  /\ ~LF!IsTrueAt(filterParts, b, t - 1)}
  BY <1>2, <1>3, Zenon DEF Edges
<1> QED BY <1>1, <1>4, Zenon DEF Listed

(* With expressions of the grammar the trigger times that the filter lists are, in order, the rising edges of   *)
(* the expression over the hits, for expressions and frames of any size and any time region, width and delays    *)
(* (infixtorpn::AstNode, TriggerMap::MakeTable, Trigger::Exec, Mark, Scan).     *)
THEOREM TriggersRise ==
  Grammatical => (ChainSpec => []TriggersAreRisingCoincidences)
<1> SUFFICES ASSUME Grammatical PROVE ChainSpec => []TriggersAreRisingCoincidences
  OBVIOUS
<1>1. ChainInit => TriggerInv
  BY DEF ChainInit, LF!Init, TriggerInv
<1>2. TriggerInv => TriggersAreRisingCoincidences
  BY ListsAreRisingEdges
<1>3. ChainTypes /\ TriggerInv /\ TableIsExpression' /\ [ChainNext]_chainVars => TriggerInv'
  BY TriggerNext
<1> QED BY <1>1, <1>2, <1>3, ChainTypesInit, ChainTypesNext, TableCorrect, PTL DEF ChainSpec
=============================================================================
