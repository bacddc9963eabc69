------------------------ MODULE TimeFrameSlicerProofs ------------------------
(***************************************************************************)
(* Theorems about TimeFrameSlicer, for every window, every number of sources    *)
(* and of destinations, and all messages of the form that LogicFilter sends.    *)
(***************************************************************************)
EXTENDS TimeFrameSlicer, FiniteSetTheorems, TLAPS

-----------------------------------------------------------------------------
(* A sorted frame is a sequence of its words.                                 *)
LEMMA OrdersAreSequences ==
  ASSUME NEW S \in SUBSET Words, IsFiniteSet(S), NEW q \in Orders(S)
  PROVE  /\ q \in Seq(S) /\ q \in Seq(Words) /\ Len(q) = Cardinality(S)
         /\ \A w \in S : \E i \in 1 .. Len(q) : q[i] = w
         /\ \A i, j \in 1 .. Len(q) : i < j => q[i].t <= q[j].t
<1>1. Cardinality(S) \in Nat
  BY FS_CardinalityType
<1>2. q \in [1 .. Cardinality(S) -> S]
  BY DEF Orders
<1>3. q \in Seq(S) /\ Len(q) = Cardinality(S) /\ DOMAIN q = 1 .. Len(q)
  BY <1>1, <1>2
<1>4. q \in Seq(Words)
  BY <1>3
<1> QED BY <1>3, <1>4 DEF Orders

(* The heartbeat frames of a message are finite sets of words.                   *)
LEMMA FramesAreFinite ==
  ASSUME NEW m \in Messages, NEW s \in DOMAIN m.stfs, NEW b \in DOMAIN m.stfs[s].hbfs
  PROVE  m.stfs[s].hbfs[b] \in SUBSET Words /\ IsFiniteSet(m.stfs[s].hbfs[b])
<1>1. m.stfs \in Seq(STFs)
  BY DEF Messages
<1>2. m.stfs[s] \in STFs
  BY <1>1
<1>3. m.stfs[s].hbfs \in Seq({S \in SUBSET Words : IsFiniteSet(S)})
  BY <1>2 DEF STFs
<1>4. m.stfs[s].hbfs[b] \in {S \in SUBSET Words : IsFiniteSet(S)}
  BY <1>3
<1> QED BY <1>4

(* A table over the sources is a sequence as long as the container.              *)
LEMMA TablesAreSequences ==
  ASSUME NEW S, NEW n \in Nat, NEW f \in [1 .. n -> S]
  PROVE  f \in Seq(S) /\ Len(f) = n
OBVIOUS

(* The message of no parts.                                                   *)
LEMMA EmptyIsMessage == NoMessage \in Messages
BY DEF NoMessage, Messages, Ascending

(* The containers grow to sequences of sizes.                                  *)
LEMMA GrownType ==
  ASSUME fTF \in Seq(Nat), NEW m \in Messages
  PROVE  /\ Grown(m) \in Seq(Nat) /\ Len(Grown(m)) = Larger(Len(fTF), m.numSource)
         /\ \A s \in DOMAIN m.stfs : s <= Len(Grown(m)) => m.stfs[s].numMessages <= Grown(m)[s]
<1> DEFINE n == Larger(Len(fTF), m.numSource)
           old(s) == IF s \in DOMAIN fTF THEN fTF[s] ELSE 0
           g(s) == IF s \in DOMAIN m.stfs THEN Larger(old(s), m.stfs[s].numMessages) ELSE old(s)
<1>1. m.numSource \in Nat /\ m.stfs \in Seq(STFs)
  BY DEF Messages
<1>2. n \in Nat
  BY <1>1 DEF Larger
<1>3. \A s \in 1 .. n : old(s) \in Nat
  OBVIOUS
<1>4. \A s \in DOMAIN m.stfs : s \in Nat \ {0} /\ m.stfs[s].numMessages \in Nat
  <2>1. \A s \in DOMAIN m.stfs : s \in Nat \ {0} /\ m.stfs[s] \in STFs
    BY <1>1
  <2>2. \A stf \in STFs : stf.numMessages \in Nat
    BY DEF STFs
  <2> QED BY <2>1, <2>2
<1>5. \A s \in 1 .. n : g(s) \in Nat
  BY <1>3, <1>4 DEF Larger
<1>6. Grown(m) = [s \in 1 .. n |-> g(s)]
  BY DEF Grown
<1>7. Grown(m) \in Seq(Nat) /\ Len(Grown(m)) = n
  <2> HIDE DEF n, g
  <2>1. Grown(m) \in [1 .. n -> Nat]
    BY <1>5, <1>6
  <2> QED BY <1>2, <2>1, TablesAreSequences
<1>8. ASSUME NEW s \in DOMAIN m.stfs, s <= n PROVE m.stfs[s].numMessages <= Grown(m)[s]
  <2>1. s \in 1 .. n
    BY <1>2, <1>4, <1>8
  <2>2. Grown(m)[s] = g(s)
    <3> HIDE DEF n, g
    <3> QED BY <1>6, <2>1
  <2> QED BY <2>1, <2>2, <1>3, <1>4 DEF Larger
<1> QED BY <1>7, <1>8

-----------------------------------------------------------------------------
(* The variables keep their types, in particular the direction stays in the range   *)
(* of the destinations.  The variables come in groups.                          *)
ControlOK ==
  /\ slicer \in {"ready", "idle", "hbf", "cut", "dqm", "send", "drain", "failed", "undefined"}
  /\ slicerStop \in BOOLEAN /\ slicerRuns \in Nat
LinkOK    == link \in Seq(Messages) /\ Len(link) <= LinkHWM
MessageOK == inParts \in Messages /\ fTF \in Seq(Nat) /\ fLF \in Nat /\ fIdxHBF \in Nat
LoopsOK ==
  /\ iTrig \in Nat /\ is \in Nat /\ iKeep \in Nat
  /\ sorted \in Seq(Seq(Words)) /\ tdcidxs \in Seq(Nat)
  /\ cut \subseteq Words /\ row \in Seq(SUBSET Words) /\ slices \in Seq(Seq(SUBSET Words))
OutputOK ==
  /\ outParts \in Seq(Seq(Seq(SUBSET Words)))
  /\ fDirection \in 0 .. NumDestination - 1
  /\ output \in [0 .. NumDestination - 1 -> 0 .. OutputHWM]

(* The groups are the type invariant.                                            *)
LEMMA Groups == TypeOK <=> ControlOK /\ LinkOK /\ MessageOK /\ LoopsOK /\ OutputOK
BY DEF TypeOK, ControlOK, LinkOK, MessageOK, LoopsOK, OutputOK

(* The same of the next state.                                                *)
LEMMA GroupsNext ==
  TypeOK' <=> ControlOK' /\ LinkOK' /\ MessageOK' /\ LoopsOK' /\ OutputOK'
BY Groups, PTL

(* The device starts well typed.                                                *)
LEMMA TypeInit == Init => TypeOK
<1> SUFFICES ASSUME Init PROVE TypeOK
  OBVIOUS
<1> USE SlicerConstantsAssumption DEF SlicerConstantsAssumption, Init
<1>1. ControlOK
  BY DEF ControlOK
<1>2. LinkOK
  BY DEF LinkOK
<1>3. MessageOK
  BY EmptyIsMessage DEF MessageOK
<1>4. LoopsOK
  BY DEF LoopsOK
<1>5. OutputOK
  BY DEF OutputOK
<1> QED BY <1>1, <1>2, <1>3, <1>4, <1>5, Groups

(* Groups whose variables do not change stay right.                                *)
LEMMA MessageUnchanged ==
  MessageOK /\ UNCHANGED <<inParts, tables, fIdxHBF>> => MessageOK'
BY DEF MessageOK, tables

(* The loops keep their types when they do not change. *)
LEMMA LoopsUnchanged == LoopsOK /\ UNCHANGED loops => LoopsOK'
BY DEF LoopsOK, loops

(* The output keeps its types when it does not change. *)
LEMMA OutputUnchanged ==
  OutputOK /\ UNCHANGED <<outParts, fDirection, output>> => OutputOK'
BY DEF OutputOK

(* The link keeps its types when it does not change. *)
LEMMA LinkUnchanged == LinkOK /\ UNCHANGED link => LinkOK'
BY DEF LinkOK

(* Taking a message from the input leaves messages.                              *)
LEMMA LinkTail ==
  ASSUME LinkOK, link # <<>>
  PROVE  Head(link) \in Messages /\ Tail(link) \in Seq(Messages) /\ Len(Tail(link)) <= LinkHWM
<1>1. Head(link) \in Messages /\ Tail(link) \in Seq(Messages) /\ Len(Tail(link)) = Len(link) - 1
  BY DEF LinkOK
<1> QED BY <1>1, SlicerConstantsAssumption DEF LinkOK, SlicerConstantsAssumption

(* A message taken from the input is one, and the containers grow to sizes.             *)
LEMMA TypeReceive == TypeOK /\ Receive => TypeOK'
<1> SUFFICES ASSUME TypeOK, Receive PROVE TypeOK'
  OBVIOUS
<1> USE DEF Receive
<1>0. ControlOK /\ LinkOK /\ MessageOK /\ LoopsOK /\ OutputOK
  BY Groups
<1>1. ControlOK'
  BY <1>0 DEF ControlOK
<1>2. inParts' \in Messages /\ LinkOK'
  BY <1>0, LinkTail DEF LinkOK
<1>3. fTF' \in Seq(Nat)
  BY <1>0, <1>2, GrownType DEF MessageOK
<1>4. fLF' \in Nat
  <2>1. inParts'.lists \in Seq({list \in Seq(0 .. MaxTime) : Ascending(list)})
    BY <1>2 DEF Messages
  <2>2. Len(inParts'.lists) \in Nat
    BY <2>1
  <2> QED BY <1>0, <2>2 DEF MessageOK
<1>5. MessageOK'
  BY <1>2, <1>3, <1>4 DEF MessageOK
<1>6. LoopsOK' /\ OutputOK'
  BY <1>0, LoopsUnchanged, OutputUnchanged
<1> QED BY <1>1, <1>2, <1>5, <1>6, GroupsNext

(* What BeginHBF makes of the frames that the message in hand has for all sources.   *)
LEMMA SortedType ==
  ASSUME TypeOK, BeginHBF
  PROVE  /\ \A s \in Sources : /\ s \in DOMAIN inParts.stfs
                               /\ h \in DOMAIN inParts.stfs[s].hbfs
                               /\ sorted'[s] \in Orders(inParts.stfs[s].hbfs[h])
         /\ h \in DOMAIN inParts.lists
         /\ sorted' \in Seq(Seq(Words)) /\ Len(sorted') = Len(fTF)
         /\ tdcidxs' \in Seq(Nat) /\ Len(tdcidxs') = Len(fTF)
<1>1. Fault = "none"
  BY DEF BeginHBF
<1>2. h \in DOMAIN inParts.lists
  BY <1>1 DEF Fault
<1>3. \A s \in Sources : ~Lacks(s)
  BY <1>1 DEF Fault
<1>4. \A s \in Sources : s \in DOMAIN inParts.stfs /\ h \in DOMAIN inParts.stfs[s].hbfs
  BY <1>3 DEF Lacks
<1>5. /\ \A s \in Sources : sorted'[s] \in Orders(inParts.stfs[s].hbfs[h])
      /\ DOMAIN sorted' = Sources /\ sorted' = [s \in Sources |-> sorted'[s]]
  BY DEF BeginHBF
<1>6. inParts \in Messages /\ fTF \in Seq(Nat)
  BY DEF TypeOK
<1>7. \A s \in Sources : sorted'[s] \in Seq(Words)
  BY <1>4, <1>5, <1>6, FramesAreFinite, OrdersAreSequences
<1>8. sorted' \in [1 .. Len(fTF) -> Seq(Words)] /\ Len(fTF) \in Nat
  BY <1>5, <1>6, <1>7 DEF Sources
<1>9. sorted' \in Seq(Seq(Words)) /\ Len(sorted') = Len(fTF)
  BY <1>8, TablesAreSequences
<1>10. tdcidxs' \in [1 .. Len(fTF) -> Nat]
  BY <1>6 DEF BeginHBF, Sources
<1>11. tdcidxs' \in Seq(Nat) /\ Len(tdcidxs') = Len(fTF)
  BY <1>8, <1>10, TablesAreSequences
<1> QED BY <1>2, <1>4, <1>5, <1>9, <1>11

(* The loops of an HBF begin with variables of their types.                         *)
LEMMA TypeBeginHBF == TypeOK /\ BeginHBF => TypeOK'
<1> SUFFICES ASSUME TypeOK, BeginHBF PROVE TypeOK'
  OBVIOUS
<1>0. ControlOK /\ LinkOK /\ MessageOK /\ LoopsOK /\ OutputOK
  BY Groups
<1>1. ControlOK'
  BY <1>0 DEF ControlOK, BeginHBF
<1>2. LinkOK' /\ MessageOK' /\ OutputOK'
  BY <1>0, LinkUnchanged, MessageUnchanged, OutputUnchanged DEF BeginHBF
<1>3. LoopsOK'
  BY SortedType DEF LoopsOK, BeginHBF
<1> QED BY <1>1, <1>2, <1>3, GroupsNext

-----------------------------------------------------------------------------
(* In the loops of an HBF: every source has words, an index that does not pass    *)
(* them and the slices made so far; TypeOK needs it to be kept.                  *)
Shape ==
  slicer = "cut" =>
    /\ h \in DOMAIN inParts.lists
    /\ \A s \in Sources : s \in DOMAIN inParts.stfs /\ h \in DOMAIN inParts.stfs[s].hbfs
    /\ \A s \in Sources : sorted[s] \in Orders(inParts.stfs[s].hbfs[h])
    /\ Len(sorted) = Len(fTF) /\ Len(tdcidxs) = Len(fTF)
    /\ \A s \in Sources : tdcidxs[s] <= Len(sorted[s])
    /\ is \in 1 .. Len(fTF) + 1 /\ iTrig \in 1 .. Len(List) + 1
    /\ (is \in Sources => iKeep <= tdcidxs[is])
    /\ Len(row) = is - 1 /\ Len(slices) = iTrig - 1

(* As long as the message and the HBF stay, so do the list and the sources.            *)
LEMMA SameFrame ==
  UNCHANGED <<inParts, tables, fIdxHBF>> => h' = h /\ List' = List /\ Sources' = Sources /\ Len(fTF') = Len(fTF)
BY DEF h, List, Sources, tables

(* What is known in the loops.                                                *)
LEMMA CutFacts ==
  ASSUME TypeOK, Shape, slicer = "cut"
  PROVE  /\ Len(fTF) \in Nat /\ Sources = 1 .. Len(fTF)
         /\ List \in Seq(0 .. MaxTime) /\ Ascending(List)
         /\ Len(List) \in Nat /\ DOMAIN List = 1 .. Len(List)
         /\ \A s \in Sources : sorted[s] \in Seq(Words) /\ Len(sorted[s]) \in Nat
         /\ tdcidxs \in [Sources -> Nat]
<1>1. fTF \in Seq(Nat) /\ inParts \in Messages /\ tdcidxs \in Seq(Nat) /\ sorted \in Seq(Seq(Words))
  BY DEF TypeOK
<1>2. Len(fTF) \in Nat /\ Sources = 1 .. Len(fTF)
  BY <1>1 DEF Sources
<1>3. inParts.lists \in Seq({list \in Seq(0 .. MaxTime) : Ascending(list)})
  BY <1>1 DEF Messages
<1>4. h \in DOMAIN inParts.lists /\ Len(sorted) = Len(fTF) /\ Len(tdcidxs) = Len(fTF)
  BY DEF Shape
<1>5. List \in {list \in Seq(0 .. MaxTime) : Ascending(list)}
  BY <1>3, <1>4 DEF List
<1>6. Len(List) \in Nat /\ DOMAIN List = 1 .. Len(List)
  BY <1>5
<1>7. \A s \in Sources : sorted[s] \in Seq(Words)
  BY <1>1, <1>2, <1>4
<1>8. \A s \in Sources : Len(sorted[s]) \in Nat
  BY <1>7
<1>9. tdcidxs \in [1 .. Len(tdcidxs) -> Nat]
  BY <1>1
<1> QED BY <1>2, <1>4, <1>5, <1>6, <1>7, <1>8, <1>9

(* What is known of the index of the source in hand.                               *)
LEMMA SourceHasIndex ==
  ASSUME TypeOK, Shape, Cutting
  PROVE  /\ is \in 1 .. Len(fTF) /\ iTrig \in 1 .. Len(List)
         /\ it \in Nat /\ it <= Len(sorted[is]) /\ Len(sorted[is]) \in Nat
         /\ it = tdcidxs[is] /\ iKeep \in Nat /\ iKeep <= it
         /\ (it # Len(sorted[is]) => it + 1 \in 1 .. Len(sorted[is]) /\ Next_w \in Words)
<1>1. slicer = "cut" /\ is \in Sources /\ iTrig \in DOMAIN List
  BY DEF Cutting
<1>2. is \in 1 .. Len(fTF) /\ iTrig \in 1 .. Len(List) /\ sorted[is] \in Seq(Words)
      /\ Len(sorted[is]) \in Nat
  BY <1>1, CutFacts
<1>3. it \in Nat /\ it = tdcidxs[is]
  BY <1>1, CutFacts DEF it
<1>4. it <= Len(sorted[is]) /\ iKeep \in Nat /\ iKeep <= it
  BY <1>1, <1>3 DEF Shape, TypeOK
<1>5. it # Len(sorted[is]) => it + 1 \in 1 .. Len(sorted[is])
  BY <1>2, <1>3, <1>4
<1>6. it # Len(sorted[is]) => Next_w \in Words
  BY <1>2, <1>5 DEF Next_w
<1> QED BY <1>2, <1>3, <1>4, <1>5, <1>6

(* One turn of the loop over the words.                                        *)
LEMMA WordTurn ==
  ASSUME TypeOK, Shape, Skip \/ Take
  PROVE  /\ TypeOK' /\ Shape'
<1>1. Cutting /\ ~AtEnd /\ tdcidxs' = [tdcidxs EXCEPT ![is] = @ + 1]
      /\ UNCHANGED <<slicer, sorted, iTrig, is, row, slices, unchangedByLoops>>
  BY DEF Skip, Take
<1>2. slicer = "cut" /\ slicer' = "cut" /\ is \in Sources
  BY <1>1 DEF Cutting
<1>3. UNCHANGED <<slicerStop, slicerRuns>> /\ UNCHANGED link
      /\ UNCHANGED <<inParts, tables, fIdxHBF>> /\ UNCHANGED <<outParts, fDirection, output>>
      /\ UNCHANGED <<sorted, iTrig, is, row, slices>>
  BY <1>1 DEF unchangedByLoops
<1>4. it \in Nat /\ it = tdcidxs[is] /\ Len(sorted[is]) \in Nat /\ iKeep \in Nat
      /\ it + 1 <= Len(sorted[is]) /\ iKeep <= it /\ Next_w \in Words
  BY <1>1, SourceHasIndex DEF AtEnd
<1>5. tdcidxs \in [Sources -> Nat] /\ Sources = 1 .. Len(fTF) /\ Len(fTF) \in Nat
  BY <1>2, CutFacts
<1>6. tdcidxs' \in [1 .. Len(fTF) -> Nat] /\ tdcidxs'[is] = it + 1
      /\ \A s \in Sources \ {is} : tdcidxs'[s] = tdcidxs[s]
  BY <1>1, <1>2, <1>4, <1>5
<1>7. tdcidxs' \in Seq(Nat) /\ Len(tdcidxs') = Len(fTF)
  BY <1>5, <1>6, TablesAreSequences
<1>8. iKeep' \in Nat /\ iKeep' <= it + 1
  BY <1>4 DEF Skip, Take
<1>9. TypeOK'
  <2>0. ControlOK /\ LinkOK /\ MessageOK /\ LoopsOK /\ OutputOK
    BY Groups
  <2>1. ControlOK'
    BY <2>0, <1>2, <1>3 DEF ControlOK
  <2>2. LinkOK' /\ MessageOK' /\ OutputOK'
    BY <2>0, <1>3, LinkUnchanged, MessageUnchanged, OutputUnchanged
  <2>3. cut' \subseteq Words
    BY <2>0, <1>4 DEF LoopsOK, Skip, Take
  <2>4. LoopsOK'
    BY <2>0, <2>3, <1>3, <1>7, <1>8 DEF LoopsOK
  <2> QED BY <2>1, <2>2, <2>4, GroupsNext
<1>10. Shape'
  <2>1. h' = h /\ List' = List /\ Sources' = Sources /\ Len(fTF') = Len(fTF)
        /\ inParts' = inParts /\ fTF' = fTF
    BY <1>3, SameFrame DEF tables
  <2>2. \A s \in Sources : tdcidxs'[s] <= Len(sorted[s])
    BY <1>2, <1>4, <1>6 DEF Shape
  <2>3. is \in Sources => iKeep' <= tdcidxs'[is]
    BY <1>6, <1>8
  <2> QED BY <1>2, <1>3, <1>7, <2>1, <2>2, <2>3 DEF Shape
<1> QED BY <1>9, <1>10

(* The end of the words of a source; NextSource may set its index back.             *)
LEMMA SourceTurn ==
  ASSUME TypeOK, Shape, NextSource
  PROVE  /\ TypeOK' /\ Shape'
         /\ tdcidxs' \in [Sources -> Nat]
         /\ tdcidxs'[is] = IF HasOverlap(iTrig) THEN iKeep ELSE it
         /\ \A s \in Sources \ {is} : tdcidxs'[s] = tdcidxs[s]
<1>1. Cutting /\ row' = Append(row, cut) /\ cut' = {} /\ is' = is + 1
      /\ tdcidxs' = (IF HasOverlap(iTrig) THEN [tdcidxs EXCEPT ![is] = iKeep] ELSE tdcidxs)
      /\ iKeep' = (IF is + 1 \in Sources THEN tdcidxs[is + 1] ELSE 0)
      /\ UNCHANGED <<slicer, sorted, iTrig, slices, unchangedByLoops>>
  BY DEF NextSource
<1>2. slicer = "cut" /\ slicer' = "cut" /\ is \in Sources
  BY <1>1 DEF Cutting
<1>3. UNCHANGED <<slicerStop, slicerRuns>> /\ UNCHANGED link
      /\ UNCHANGED <<inParts, tables, fIdxHBF>> /\ UNCHANGED <<outParts, fDirection, output>>
      /\ UNCHANGED <<sorted, iTrig, slices>>
  BY <1>1 DEF unchangedByLoops
<1>4. it \in Nat /\ it = tdcidxs[is] /\ Len(sorted[is]) \in Nat /\ iKeep \in Nat
      /\ it <= Len(sorted[is]) /\ iKeep <= it /\ is \in 1 .. Len(fTF)
  BY <1>1, SourceHasIndex
<1>5. tdcidxs \in [Sources -> Nat] /\ Sources = 1 .. Len(fTF) /\ Len(fTF) \in Nat
  BY <1>2, CutFacts
<1>6. tdcidxs' \in [Sources -> Nat] /\ tdcidxs'[is] = (IF HasOverlap(iTrig) THEN iKeep ELSE it)
      /\ \A s \in Sources \ {is} : tdcidxs'[s] = tdcidxs[s]
  <2>1. CASE HasOverlap(iTrig)
    BY <1>1, <1>2, <1>4, <1>5, <2>1
  <2>2. CASE ~HasOverlap(iTrig)
    BY <1>1, <1>2, <1>4, <1>5, <2>2
  <2> QED BY <2>1, <2>2
<1>7. tdcidxs' \in Seq(Nat) /\ Len(tdcidxs') = Len(fTF)
  BY <1>5, <1>6, TablesAreSequences
<1>8. iKeep' \in Nat /\ (is' \in Sources => iKeep' = tdcidxs'[is'])
  BY <1>1, <1>4, <1>5, <1>6
<1>0. ControlOK /\ LinkOK /\ MessageOK /\ LoopsOK /\ OutputOK
  BY Groups
<1>9. row' \in Seq(SUBSET Words) /\ Len(row') = is' - 1
  <2>1. row \in Seq(SUBSET Words) /\ cut \in SUBSET Words /\ Len(row) = is - 1
    BY <1>0, <1>2 DEF LoopsOK, Shape
  <2> QED BY <2>1, <1>1, <1>4
<1>10. TypeOK'
  <2>1. ControlOK'
    BY <1>0, <1>2, <1>3 DEF ControlOK
  <2>2. LinkOK' /\ MessageOK' /\ OutputOK'
    BY <1>0, <1>3, LinkUnchanged, MessageUnchanged, OutputUnchanged
  <2>3. is' \in Nat
    BY <1>1, <1>4
  <2>4. LoopsOK'
    BY <1>0, <2>3, <1>1, <1>3, <1>7, <1>8, <1>9 DEF LoopsOK
  <2> QED BY <2>1, <2>2, <2>4, GroupsNext
<1>11. Shape'
  <2>1. h' = h /\ List' = List /\ Sources' = Sources /\ Len(fTF') = Len(fTF)
        /\ inParts' = inParts /\ fTF' = fTF
    BY <1>3, SameFrame DEF tables
  <2>2. \A s \in Sources : tdcidxs'[s] <= Len(sorted[s])
    BY <1>2, <1>4, <1>6, SMTT(30) DEF Shape
  <2>3. is' \in Sources => iKeep' <= tdcidxs'[is']
    BY <1>6, <1>8
  <2>4. is' \in 1 .. Len(fTF) + 1
    BY <1>1, <1>4, <1>5
  <2> QED BY <1>2, <1>3, <1>7, <1>9, <2>1, <2>2, <2>3, <2>4 DEF Shape
<1> QED BY <1>6, <1>10, <1>11

(* The end of the sources for a trigger.                                         *)
LEMMA TriggerTurn ==
  ASSUME TypeOK, Shape, NextTrigger
  PROVE  TypeOK' /\ Shape'
<1>1. slicer = "cut" /\ slicer' = "cut" /\ iTrig \in DOMAIN List /\ is \notin Sources
      /\ slices' = Append(slices, row) /\ row' = <<>> /\ iTrig' = iTrig + 1 /\ is' = 1
      /\ iKeep' = (IF 1 \in Sources THEN tdcidxs[1] ELSE 0)
      /\ UNCHANGED <<sorted, tdcidxs, cut>>
  BY DEF NextTrigger
<1>3. UNCHANGED <<slicerStop, slicerRuns>> /\ UNCHANGED link
      /\ UNCHANGED <<inParts, tables, fIdxHBF>> /\ UNCHANGED <<outParts, fDirection, output>>
  BY DEF NextTrigger, unchangedByLoops
<1>5. tdcidxs \in [Sources -> Nat] /\ Sources = 1 .. Len(fTF) /\ Len(fTF) \in Nat
      /\ Len(List) \in Nat /\ DOMAIN List = 1 .. Len(List)
  BY <1>1, CutFacts
<1>0. ControlOK /\ LinkOK /\ MessageOK /\ LoopsOK /\ OutputOK
  BY Groups
<1>8. iKeep' \in Nat /\ (is' \in Sources => iKeep' = tdcidxs'[is'])
  BY <1>1, <1>5
<1>9. slices' \in Seq(Seq(SUBSET Words)) /\ Len(slices') = iTrig' - 1
  <2>1. slices \in Seq(Seq(SUBSET Words)) /\ row \in Seq(SUBSET Words) /\ Len(slices) = iTrig - 1
    BY <1>0, <1>1 DEF LoopsOK, Shape
  <2> QED BY <2>1, <1>1, <1>5
<1>10. TypeOK'
  <2>1. ControlOK'
    BY <1>0, <1>1, <1>3 DEF ControlOK
  <2>2. LinkOK' /\ MessageOK' /\ OutputOK'
    BY <1>0, <1>3, LinkUnchanged, MessageUnchanged, OutputUnchanged
  <2>3. iTrig' \in Nat /\ is' \in Nat /\ row' \in Seq(SUBSET Words)
    BY <1>1, <1>5
  <2>4. LoopsOK'
    BY <1>0, <2>3, <1>1, <1>3, <1>8, <1>9 DEF LoopsOK
  <2> QED BY <2>1, <2>2, <2>4, GroupsNext
<1>11. Shape'
  <2>1. h' = h /\ List' = List /\ Sources' = Sources /\ Len(fTF') = Len(fTF)
        /\ inParts' = inParts /\ fTF' = fTF
    BY <1>3, SameFrame DEF tables
  <2>3. is' \in Sources => iKeep' <= tdcidxs'[is']
    BY <1>5, <1>8, <1>1
  <2>4. is' \in 1 .. Len(fTF) + 1 /\ iTrig' \in 1 .. Len(List) + 1 /\ Len(row') = is' - 1
    BY <1>1, <1>5
  <2> QED BY <1>1, <1>3, <1>9, <2>1, <2>3, <2>4 DEF Shape
<1> QED BY <1>10, <1>11

(* The beginning of the loops of an HBF.                                           *)
LEMMA HBFTurn ==
  ASSUME TypeOK, BeginHBF
  PROVE  TypeOK' /\ Shape'
<1>1. TypeOK'
  BY TypeBeginHBF
<1>2. UNCHANGED <<inParts, tables, fIdxHBF>>
  BY DEF BeginHBF
<1>3. h' = h /\ List' = List /\ Sources' = Sources /\ Len(fTF') = Len(fTF)
      /\ inParts' = inParts /\ fTF' = fTF
  BY <1>2, SameFrame DEF tables
<1>4. fTF \in Seq(Nat) /\ Len(fTF) \in Nat /\ inParts \in Messages
  BY DEF TypeOK
<1>5. Len(List) \in Nat
  <2>1. inParts.lists \in Seq({list \in Seq(0 .. MaxTime) : Ascending(list)})
    BY <1>4 DEF Messages
  <2>2. List \in {list \in Seq(0 .. MaxTime) : Ascending(list)}
    BY <2>1, SortedType DEF List
  <2> QED BY <2>2
<1>6. tdcidxs' = [s \in Sources |-> 0] /\ iTrig' = 1 /\ is' = 1 /\ iKeep' = 0 /\ row' = <<>> /\ slices' = <<>>
  BY DEF BeginHBF
<1>7. \A s \in Sources : Len(sorted'[s]) \in Nat
  <2>1. sorted' \in Seq(Seq(Words)) /\ Len(sorted') = Len(fTF)
    BY SortedType
  <2>2. \A s \in Sources : sorted'[s] \in Seq(Words)
    BY <2>1, <1>4 DEF Sources
  <2> QED BY <2>2
<1>8. \A s \in Sources : tdcidxs'[s] <= Len(sorted'[s])
  BY <1>6, <1>7
<1>9. is' \in 1 .. Len(fTF) + 1 /\ iTrig' \in 1 .. Len(List) + 1
      /\ (is' \in Sources => iKeep' <= tdcidxs'[is']) /\ Len(row') = is' - 1 /\ Len(slices') = iTrig' - 1
  BY <1>4, <1>5, <1>6
<1> QED BY <1>1, <1>3, <1>8, <1>9, SortedType DEF Shape

(* Steps that leave the loops alone, or that leave them.                         *)
LEMMA ShapeUnchanged ==
  Shape /\ UNCHANGED <<slicer, inParts, tables, fIdxHBF, loops>> => Shape'
BY DEF Shape, h, List, Sources, tables, loops

(* Outside the cutting nothing is asked of the slices' shape. *)
LEMMA ShapeOutside == slicer' # "cut" => Shape'
BY DEF Shape

(* The end of the triggers: the slices of the HBF join the output.                    *)
LEMMA TypeEndHBF == TypeOK /\ Shape /\ EndHBF => TypeOK'
<1> SUFFICES ASSUME TypeOK, Shape, EndHBF PROVE TypeOK'
  OBVIOUS
<1>0. ControlOK /\ LinkOK /\ MessageOK /\ LoopsOK /\ OutputOK
  BY Groups
<1>1. ControlOK'
  BY <1>0 DEF ControlOK, EndHBF
<1>2. LinkOK'
  BY <1>0, LinkUnchanged DEF EndHBF
<1>3. MessageOK'
  BY <1>0 DEF MessageOK, EndHBF, tables
<1>4. LoopsOK'
  BY DEF LoopsOK, EndHBF, forgetLoops
<1>5. OutputOK'
  <2>1. outParts \in Seq(Seq(Seq(SUBSET Words))) /\ slices \in Seq(Seq(SUBSET Words))
    BY <1>0 DEF OutputOK, LoopsOK
  <2>2. outParts' \in Seq(Seq(Seq(SUBSET Words)))
    BY <2>1 DEF EndHBF
  <2> QED BY <1>0, <2>2 DEF OutputOK, EndHBF
<1> QED BY <1>1, <1>2, <1>3, <1>4, <1>5, GroupsNext

(* Steps that only change where the device is.                                   *)
Control == Collapse \/ EndHBFs \/ SendDqm \/ PreRun \/ RequestStop \/ BeginPostRun \/ EndPostRun

(* They leave everything else alone.                                             *)
LEMMA ControlUnchanged ==
  ASSUME TypeOK, Control
  PROVE  /\ UNCHANGED link /\ UNCHANGED <<inParts, tables, fIdxHBF>> /\ UNCHANGED loops
         /\ UNCHANGED <<outParts, fDirection, output>> /\ ControlOK'
<1>0. ControlOK
  BY Groups
<1>1. CASE Collapse
  <2>1. Fault \in {"undefined", "failed", "none"}
    BY DEF Fault
  <2> QED BY <1>0, <1>1, <2>1 DEF Collapse, ControlOK
<1>2. CASE EndHBFs
  BY <1>0, <1>2 DEF EndHBFs, ControlOK
<1>3. CASE SendDqm
  BY <1>0, <1>3 DEF SendDqm, ControlOK
<1>4. CASE PreRun
  <2>1. ControlOK'
    <3>1. slicer' = "idle" /\ slicerStop' = FALSE /\ slicerRuns' = slicerRuns + 1
      BY <1>4 DEF PreRun
    <3>2. slicerStop' \in BOOLEAN
      BY <3>1, Zenon
    <3> QED BY <1>0, <3>1, <3>2 DEF ControlOK
  <2>2. UNCHANGED <<link, inParts, tables, fIdxHBF, loops, outParts, fDirection, output>>
    BY <1>4, Zenon DEF PreRun
  <2> QED BY <2>1, <2>2
<1>5. CASE RequestStop
  BY <1>0, <1>5 DEF RequestStop, ControlOK
<1>6. CASE BeginPostRun
  BY <1>0, <1>6 DEF BeginPostRun, ControlOK
<1>7. CASE EndPostRun
  BY <1>0, <1>7 DEF EndPostRun, ControlOK
<1> QED BY <1>1, <1>2, <1>3, <1>4, <1>5, <1>6, <1>7 DEF Control

(* They keep the types.                                                      *)
LEMMA TypeControl == TypeOK /\ Control => TypeOK'
<1> SUFFICES ASSUME TypeOK, Control PROVE TypeOK'
  OBVIOUS
<1>0. LinkOK /\ MessageOK /\ LoopsOK /\ OutputOK
  BY Groups
<1>1. LinkOK' /\ MessageOK' /\ LoopsOK' /\ OutputOK'
  BY <1>0, ControlUnchanged, LinkUnchanged, MessageUnchanged, LoopsUnchanged, OutputUnchanged
<1> QED BY <1>1, ControlUnchanged, GroupsNext

(* The sends; the round robin stays among the destinations.                        *)
LEMMA TypeSend == TypeOK /\ (SendSucceeds \/ SendBlocked \/ SendInterrupted) => TypeOK'
<1> SUFFICES ASSUME TypeOK, SendSucceeds \/ SendBlocked \/ SendInterrupted PROVE TypeOK'
  OBVIOUS
<1>0. ControlOK /\ LinkOK /\ MessageOK /\ LoopsOK /\ OutputOK
  BY Groups
<1>1. ControlOK' /\ UNCHANGED link /\ UNCHANGED loops /\ UNCHANGED tables
  BY <1>0 DEF ControlOK, SendSucceeds, SendBlocked, SendInterrupted, Leave
<1>2. MessageOK'
  <2>1. SendBlocked => UNCHANGED <<inParts, tables, fIdxHBF>>
    BY DEF SendBlocked
  <2>2. SendSucceeds \/ SendInterrupted => inParts' = NoMessage /\ fIdxHBF' = 0
    BY DEF SendSucceeds, SendInterrupted, Leave
  <2> QED BY <1>0, <1>1, <2>1, <2>2, MessageUnchanged, EmptyIsMessage DEF MessageOK, tables
<1>3. outParts' \in Seq(Seq(Seq(SUBSET Words)))
  <2>1. outParts' = outParts \/ outParts' = <<>>
    BY DEF SendSucceeds, SendBlocked, SendInterrupted, Leave
  <2>2. outParts \in Seq(Seq(Seq(SUBSET Words)))
    BY <1>0 DEF OutputOK
  <2>3. <<>> \in Seq(Seq(Seq(SUBSET Words)))
    OBVIOUS
  <2> QED BY <2>1, <2>2, <2>3
<1>4. fDirection' \in 0 .. NumDestination - 1
  <2>1. NumDestination \in Nat \ {0} /\ fDirection \in 0 .. NumDestination - 1
    BY <1>0, SlicerConstantsAssumption DEF OutputOK, SlicerConstantsAssumption
  <2>2. (fDirection + 1) % NumDestination \in 0 .. NumDestination - 1
    BY <2>1
  <2> QED BY <2>1, <2>2 DEF SendSucceeds, SendBlocked, SendInterrupted, Leave
<1>5. output' \in [0 .. NumDestination - 1 -> 0 .. OutputHWM]
  <2>1. output \in [0 .. NumDestination - 1 -> 0 .. OutputHWM] /\ fDirection \in 0 .. NumDestination - 1
        /\ OutputHWM \in Nat
    BY <1>0, SlicerConstantsAssumption DEF OutputOK, SlicerConstantsAssumption
  <2>2. CASE SendSucceeds
    <3>1. output[fDirection] + 1 \in 0 .. OutputHWM
      BY <2>1, <2>2 DEF SendSucceeds
    <3> QED BY <2>1, <2>2, <3>1 DEF SendSucceeds
  <2>3. CASE SendBlocked \/ SendInterrupted
    BY <2>1, <2>3 DEF SendBlocked, SendInterrupted
  <2> QED BY <2>2, <2>3
<1> QED BY <1>0, <1>1, <1>2, <1>3, <1>4, <1>5, LinkUnchanged, LoopsUnchanged, GroupsNext DEF OutputOK

(* The messages that come and go.                                              *)
LEMMA TypeTraffic ==
  ASSUME TypeOK, DrainOne \/ Arrive \/ \E d \in DOMAIN output : Consume(d)
  PROVE  TypeOK' /\ UNCHANGED <<slicer, inParts, tables, fIdxHBF, loops>>
<1>0. ControlOK /\ LinkOK /\ MessageOK /\ LoopsOK /\ OutputOK
  BY Groups
<1>1. UNCHANGED <<slicer, slicerStop, slicerRuns>> /\ UNCHANGED <<inParts, tables, fIdxHBF>>
      /\ UNCHANGED loops /\ UNCHANGED <<outParts, fDirection>>
  BY DEF DrainOne, Arrive, Consume
<1>2. LinkOK'
  <2>1. CASE DrainOne
    BY <1>0, <2>1, LinkTail DEF DrainOne, LinkOK
  <2>2. CASE Arrive
    <3>1. link \in Seq(Messages) /\ Len(link) < LinkHWM /\ Last(link') \in Messages
          /\ link' = Append(link, Last(link')) /\ Len(link) \in Nat
      BY <1>0, <2>2 DEF Arrive, LinkOK
    <3>2. link' \in Seq(Messages) /\ Len(link') = Len(link) + 1
      BY <3>1
    <3> QED BY <3>1, <3>2, SlicerConstantsAssumption DEF LinkOK, SlicerConstantsAssumption
  <2>3. CASE \E d \in DOMAIN output : Consume(d)
    BY <1>0, <2>3, LinkUnchanged DEF Consume
  <2> QED BY <2>1, <2>2, <2>3
<1>3. output' \in [0 .. NumDestination - 1 -> 0 .. OutputHWM]
  <2>1. output \in [0 .. NumDestination - 1 -> 0 .. OutputHWM] /\ OutputHWM \in Nat
    BY <1>0, SlicerConstantsAssumption DEF OutputOK, SlicerConstantsAssumption
  <2>2. CASE DrainOne \/ Arrive
    BY <2>1, <2>2 DEF DrainOne, Arrive
  <2>3. ASSUME NEW d \in DOMAIN output, Consume(d)
        PROVE  output' \in [0 .. NumDestination - 1 -> 0 .. OutputHWM]
    <3>1. output[d] - 1 \in 0 .. OutputHWM
      BY <2>1, <2>3 DEF Consume
    <3> QED BY <2>1, <2>3, <3>1 DEF Consume
  <2> QED BY <2>2, <2>3
<1>4. ControlOK' /\ MessageOK' /\ LoopsOK' /\ OutputOK'
  <2>1. ControlOK'
    BY <1>0, <1>1 DEF ControlOK
  <2>2. MessageOK' /\ LoopsOK'
    BY <1>0, <1>1, MessageUnchanged, LoopsUnchanged
  <2> QED BY <1>0, <1>1, <1>3, <2>1, <2>2 DEF OutputOK
<1> QED BY <1>1, <1>2, <1>4, GroupsNext

(* Type correctness is not inductive alone: that a word taken is a word rests on the  *)
(* index of its source being within the sorted words.                            *)
LEMMA ShapeStep == TypeOK /\ Shape /\ [Next]_vars => TypeOK' /\ Shape'
<1> SUFFICES ASSUME TypeOK, Shape, [Next]_vars PROVE TypeOK' /\ Shape'
  OBVIOUS
<1>1. CASE Receive
  <2>1. slicer' # "cut"
    BY <1>1 DEF Receive
  <2> QED BY <1>1, <2>1, TypeReceive, ShapeOutside
<1>2. CASE BeginHBF
  BY <1>2, HBFTurn
<1>3. CASE Skip \/ Take
  BY <1>3, WordTurn
<1>4. CASE NextSource
  BY <1>4, SourceTurn
<1>5. CASE NextTrigger
  BY <1>5, TriggerTurn
<1>6. CASE EndHBF
  <2>1. slicer' # "cut"
    BY <1>6 DEF EndHBF
  <2> QED BY <1>6, <2>1, TypeEndHBF, ShapeOutside
<1>7. CASE Control
  <2>1. TypeOK'
    BY <1>7, TypeControl
  <2>2. RequestStop => UNCHANGED slicer
    BY DEF RequestStop
  <2>3. ~RequestStop => slicer' # "cut"
    <3>1. Collapse => slicer' # "cut"
      BY DEF Collapse, Fault
    <3> QED BY <1>7, <3>1 DEF Control, EndHBFs, SendDqm, PreRun, BeginPostRun, EndPostRun
  <2>4. UNCHANGED <<inParts, tables, fIdxHBF>> /\ UNCHANGED loops
    BY <1>7, ControlUnchanged
  <2> QED BY <2>1, <2>2, <2>3, <2>4, ShapeOutside, ShapeUnchanged
<1>8. CASE SendSucceeds \/ SendBlocked \/ SendInterrupted
  <2>1. slicer' # "cut"
    BY <1>8 DEF SendSucceeds, SendBlocked, SendInterrupted, Leave
  <2> QED BY <1>8, <2>1, TypeSend, ShapeOutside
<1>9. CASE DrainOne \/ Arrive \/ \E d \in DOMAIN output : Consume(d)
  BY <1>9, TypeTraffic, ShapeUnchanged
<1>10. CASE UNCHANGED vars
  <2>1. ControlOK /\ LinkOK /\ MessageOK /\ LoopsOK /\ OutputOK
    BY Groups
  <2>2. UNCHANGED <<slicer, slicerStop, slicerRuns>> /\ UNCHANGED link
        /\ UNCHANGED <<inParts, tables, fIdxHBF>> /\ UNCHANGED loops
        /\ UNCHANGED <<outParts, fDirection, output>>
    BY <1>10 DEF vars
  <2>3. ControlOK' /\ LinkOK' /\ MessageOK' /\ LoopsOK' /\ OutputOK'
    BY <2>1, <2>2, LinkUnchanged, MessageUnchanged, LoopsUnchanged, OutputUnchanged DEF ControlOK
  <2> QED BY <2>2, <2>3, GroupsNext, ShapeUnchanged
<1> QED BY <1>1, <1>2, <1>3, <1>4, <1>5, <1>6, <1>7, <1>8, <1>9, <1>10
        DEF Next, Local, Device, Loops, Control

(* Every reachable state is well typed; the direction is always a destination's, and no  *)
(* channel has more than it takes.                                              *)
THEOREM TypeCorrect == Spec => []TypeOK
<1>1. Init => TypeOK /\ Shape
  BY TypeInit DEF Init, Shape
<1> QED BY <1>1, ShapeStep, PTL DEF Spec

-----------------------------------------------------------------------------
(* The walk through the words q of one source for the triggers L: what holds of the   *)
(* index at the start of trigger k, in the walk, and of the words cut.  The index does *)
(* not pass a word that a later window needs: it has passed what is before the window, *)
(* and, where the window begins at the end of the one before, what is at its border.    *)
Wraps(L)    == L[1] + OffsetBegin < 0
Unseen(q)   == \E j \in 1 .. Len(q) : q[j].t = -1
Joins(L, k) == k > 1 /\ L[k] + OffsetBegin = L[k - 1] + OffsetEnd
InOrder(q)  == \A i, j \in 1 .. Len(q) : i < j => q[i].t <= q[j].t

Early(L, k, w)  == w.t < L[k] + OffsetBegin \/ (Joins(L, k) /\ w.t = L[k] + OffsetBegin)
Inside(L, k, w) ==
  /\ L[k] + OffsetBegin <= w.t /\ w.t <= L[k] + OffsetEnd
  /\ ~(Joins(L, k) /\ w.t = L[k] + OffsetBegin)
Wanted(L, q, k) == {q[j] : j \in {i \in 1 .. Len(q) : Inside(L, k, q[i])}}

(* After the index no word is at a border that two windows share.                   *)
BorderPassed(L, q, k, i) ==
  Joins(L, k) => \A j \in 1 .. Len(q) : i < j => q[j].t > L[k] + OffsetBegin

Starts(L, q, k, i) ==
  /\ Wraps(L) /\ ~Unseen(q) /\ k > 1 => i = Len(q)
  /\ ~Wraps(L) /\ Unseen(q) => i = 0
  /\ ~Wraps(L) /\ ~Unseen(q) =>
       /\ \A j \in 1 .. i : Early(L, k, q[j])
       /\ BorderPassed(L, q, k, i)

Walks(L, q, k, keep, i, c) ==
  /\ Wraps(L) /\ ~Unseen(q) => c = {} /\ keep = i /\ (k > 1 => i = Len(q))
  /\ ~Wraps(L) /\ Unseen(q) => c = {} /\ keep = 0 /\ i = 0
  /\ ~Wraps(L) /\ ~Unseen(q) =>
       /\ \A j \in 1 .. keep : Early(L, k, q[j])
       /\ \A j \in keep + 1 .. i : Inside(L, k, q[j])
       /\ c = {q[j] : j \in keep + 1 .. i}
       /\ BorderPassed(L, q, k, i)

IsCut(L, q, k, c) ==
  /\ Wraps(L) /\ ~Unseen(q) => c = {}
  /\ ~Wraps(L) => c = IF Unseen(q) THEN {} ELSE Wanted(L, q, k)

(* Arithmetic modulo the size of a word.                                         *)
LEMMA Modulo ==
  ASSUME NEW x \in Int, NEW w \in Nat \ {0}
  PROVE  /\ (0 <= x /\ x < w) => x % w = x
         /\ (x < 0 /\ 0 <= x + w) => x % w = x + w
         /\ \A m \in Int : (x < 0 /\ 0 <= x + w /\ m < x + w) => m < x % w
OBVIOUS

(* What the constants are, one by one.                                          *)
LEMMA Constants ==
  /\ OffsetBegin \in Int /\ OffsetEnd \in Int /\ MaxTime \in Int
  /\ WordSize \in Nat \ {0}
BY SlicerConstantsAssumption DEF SlicerConstantsAssumption

(* Remainders are integers, and sums ascend with their terms.                       *)
LEMMA Sums ==
  ASSUME NEW x \in Int, NEW y \in Int, NEW z \in Int
  PROVE  /\ x % WordSize \in Int
         /\ x < y => x + z < y + z
BY Constants

(* The window around a time x is one of numbers that a word has place for, unless it      *)
(* begins before time 0.                                                     *)
LEMMA Window ==
  ASSUME NEW x \in Int, 0 <= x, x <= MaxTime
  PROVE  /\ x + OffsetBegin \in Int /\ x + OffsetEnd \in Int
         /\ x + OffsetBegin <= x + OffsetEnd
         /\ x + OffsetEnd < WordSize - 1
         /\ x + OffsetEnd < WordSize /\ x + OffsetBegin < WordSize
         /\ MaxTime < x + OffsetBegin + WordSize
         /\ x + OffsetBegin < 0 => 0 <= x + OffsetBegin + WordSize
BY SlicerConstantsAssumption DEF SlicerConstantsAssumption

(* The elements of a sequence.                                                *)
LEMMA Elements ==
  ASSUME NEW S, NEW q \in Seq(S), NEW i \in 1 .. Len(q)
  PROVE  q[i] \in S
OBVIOUS

(* The borders of the windows ascend; they wrap around only before time 0.            *)
LEMMA Borders ==
  ASSUME NEW L \in Seq(0 .. MaxTime), Ascending(L), NEW k \in 1 .. Len(L)
  PROVE  /\ L[k] \in Int /\ L[k] + OffsetBegin \in Int /\ L[k] + OffsetEnd \in Int
         /\ L[k] + OffsetBegin <= L[k] + OffsetEnd
         /\ (~Wraps(L) => /\ (L[k] + OffsetBegin) % WordSize = L[k] + OffsetBegin
                          /\ (L[k] + OffsetEnd) % WordSize = L[k] + OffsetEnd
                          /\ L[k] + OffsetEnd < WordSize - 1)
         /\ (Wraps(L) => MaxTime < (L[1] + OffsetBegin) % WordSize)
         /\ \A j \in 1 .. Len(L) : k < j => L[k] < L[j]
<1>1. Len(L) \in Nat /\ DOMAIN L = 1 .. Len(L) /\ 1 \in 1 .. Len(L) /\ k \in Nat
  OBVIOUS
<1>2. L[k] \in 0 .. MaxTime /\ L[1] \in 0 .. MaxTime
  BY <1>1, Elements, Zenon
<1>3. L[k] \in Int /\ 0 <= L[k] /\ L[k] <= MaxTime /\ L[1] \in Int /\ 0 <= L[1] /\ L[1] <= MaxTime
  <2>1. \A x \in 0 .. MaxTime : x \in Int /\ 0 <= x /\ x <= MaxTime
    BY Constants
  <2> QED BY <1>2, <2>1, Zenon
<1>4. \A j \in 1 .. Len(L) : k < j => L[k] < L[j]
  BY <1>1 DEF Ascending
<1>5. L[1] <= L[k]
  <2>1. 1 < k => L[1] < L[k]
    BY <1>1 DEF Ascending
  <2> QED BY <1>1, <1>3, <2>1
<1> DEFINE x == L[k]
           y == L[1]
<1>6. x \in Int /\ 0 <= x /\ x <= MaxTime /\ y \in Int /\ 0 <= y /\ y <= MaxTime /\ y <= x
  BY <1>3, <1>5
<1>7. Wraps(L) <=> y + OffsetBegin < 0
  BY DEF Wraps
<1> HIDE DEF x, y
<1>8. ASSUME ~Wraps(L)
      PROVE  /\ (x + OffsetBegin) % WordSize = x + OffsetBegin
             /\ (x + OffsetEnd) % WordSize = x + OffsetEnd
             /\ x + OffsetEnd < WordSize - 1
  <2>1. 0 <= x + OffsetBegin /\ 0 <= x + OffsetEnd
    <3>1. ~(y + OffsetBegin < 0)
      BY <1>7, <1>8
    <3> QED BY <3>1, <1>6, Constants, Window, SMTT(30)
  <2>2. x + OffsetBegin < WordSize /\ x + OffsetEnd < WordSize /\ x + OffsetEnd < WordSize - 1
        /\ x + OffsetBegin \in Int /\ x + OffsetEnd \in Int
    BY <1>6, Window
  <2> QED BY <2>1, <2>2, Constants, Modulo
<1>9. ASSUME Wraps(L) PROVE MaxTime < (y + OffsetBegin) % WordSize
  <2>1. y + OffsetBegin \in Int /\ y + OffsetBegin < 0 /\ 0 <= y + OffsetBegin + WordSize
        /\ MaxTime < y + OffsetBegin + WordSize
    BY <1>6, <1>7, <1>9, Window
  <2> QED BY <2>1, Constants, Modulo
<1>10. x + OffsetBegin \in Int /\ x + OffsetEnd \in Int /\ x + OffsetBegin <= x + OffsetEnd
  BY <1>6, Window
<1> USE DEF x, y
<1> QED BY <1>3, <1>4, <1>8, <1>9, <1>10, Zenon

(* The time of a word, as it is compared with the borders.                          *)
LEMMA WordTime ==
  ASSUME NEW w \in Words
  PROVE  /\ w.t \in Int /\ -1 <= w.t /\ w.t <= MaxTime
         /\ (w.t # -1 => Time(w) = w.t)
         /\ (w.t = -1 => Time(w) = WordSize - 1)
<1> USE SlicerConstantsAssumption DEF SlicerConstantsAssumption
<1>1. w.t \in Int /\ -1 <= w.t /\ w.t <= MaxTime
  BY DEF Words
<1>2. MaxTime < WordSize /\ WordSize \in Nat \ {0}
  OBVIOUS
<1>3. w.t # -1 => Time(w) = w.t
  BY <1>1, <1>2, Modulo DEF Time
<1>4. w.t = -1 => Time(w) = WordSize - 1
  <2>1. (-1) % WordSize = -1 + WordSize
    BY <1>2, Modulo
  <2> QED BY <2>1, <1>2 DEF Time
<1> QED BY <1>1, <1>3, <1>4

(* What is known of the index i of the words q before the next word.                 *)
LEMMA NextWord ==
  ASSUME NEW q \in Seq(Words), InOrder(q), NEW i \in Nat, i < Len(q)
  PROVE  /\ i + 1 \in 1 .. Len(q) /\ q[i + 1] \in Words
         /\ (Unseen(q) /\ i = 0 => q[i + 1].t = -1)
         /\ (~Unseen(q) => q[i + 1].t # -1)
         /\ \A j \in 1 .. Len(q) : i + 1 < j => q[i + 1].t <= q[j].t
         /\ \A j \in 1 .. i : q[j].t <= q[i + 1].t
<1>1. Len(q) \in Nat /\ i + 1 \in 1 .. Len(q) /\ q[i + 1] \in Words
  OBVIOUS
<1>2. \A j \in 1 .. Len(q) : q[j] \in Words
  OBVIOUS
<1>3. Unseen(q) /\ i = 0 => q[i + 1].t = -1
  <2> SUFFICES ASSUME NEW j \in 1 .. Len(q), q[j].t = -1, i = 0 PROVE q[i + 1].t = -1
    BY DEF Unseen
  <2>1. i + 1 < j => q[i + 1].t <= q[j].t
    BY <1>1 DEF InOrder
  <2>2. q[i + 1].t \in Int /\ -1 <= q[i + 1].t
    BY <1>1, WordTime
  <2>3. i + 1 < j \/ i + 1 = j
    BY <1>1
  <2> QED BY <2>1, <2>2, <2>3
<1>4. ~Unseen(q) => q[i + 1].t # -1
  BY <1>1 DEF Unseen
<1>5. \A j \in 1 .. Len(q) : i + 1 < j => q[i + 1].t <= q[j].t
  BY <1>1 DEF InOrder
<1>6. \A j \in 1 .. i : q[j].t <= q[i + 1].t
  BY <1>1 DEF InOrder
<1> QED BY <1>1, <1>3, <1>4, <1>5, <1>6
(* The walk for a trigger starts with nothing kept and nothing cut.                  *)
LEMMA StartWalk ==
  ASSUME NEW L, NEW q, NEW k, NEW i \in Nat, Starts(L, q, k, i)
  PROVE  Walks(L, q, k, i, i, {})
<1>1. ~Wraps(L) /\ ~Unseen(q) => {} = {q[j] : j \in i + 1 .. i}
  OBVIOUS
<1>2. \A j \in i + 1 .. i : FALSE
  OBVIOUS
<1> QED BY <1>1, <1>2 DEF Starts, Walks

(* Before the first trigger no word is passed.                                     *)
LEMMA FirstStart ==
  ASSUME NEW L, NEW q
  PROVE  Starts(L, q, 1, 0)
<1>1. \A j \in 1 .. 0 : FALSE
  OBVIOUS
<1> QED BY <1>1 DEF Starts, BorderPassed, Joins

(* A word before the window is passed: only at the beginning of the walk.              *)
LEMMA SkipWalk ==
  ASSUME NEW L \in Seq(0 .. MaxTime), Ascending(L), NEW k \in 1 .. Len(L),
         NEW q \in Seq(Words), InOrder(q), NEW i \in Nat, i < Len(q), NEW keep \in Nat, keep <= i,
         NEW c, Walks(L, q, k, keep, i, c),
         Time(q[i + 1]) < (L[k] + OffsetBegin) % WordSize
  PROVE  Walks(L, q, k, keep + 1, i + 1, c)
<1> DEFINE w == q[i + 1]
           b == L[k] + OffsetBegin
<1>1. CASE Wraps(L)
  <2>1. ~Unseen(q) => k = 1
    BY <1>1 DEF Walks
  <2> QED BY <1>1, <2>1 DEF Walks
<1>2. CASE ~Wraps(L)
  <2>1. b % WordSize = b /\ b \in Int /\ b <= L[k] + OffsetEnd /\ L[k] + OffsetEnd < WordSize - 1
    BY <1>2, Borders
  <2>2. w \in Words /\ w.t \in Int
    BY NextWord, WordTime
  <2>3. CASE Unseen(q)
    <3>1. i = 0
      BY <1>2, <2>3 DEF Walks
    <3>2. Time(w) = WordSize - 1
      BY <2>2, <2>3, <3>1, NextWord, WordTime
    <3>3. WordSize \in Int /\ L[k] + OffsetEnd \in Int
      BY Borders, SlicerConstantsAssumption DEF SlicerConstantsAssumption
    <3> QED BY <2>1, <3>2, <3>3
  <2>4. CASE ~Unseen(q)
    <3>1. Time(w) = w.t
      BY <2>2, <2>4, NextWord, WordTime
    <3>2. w.t < b
      BY <2>1, <3>1
    <3>3. \A j \in keep + 1 .. i : Inside(L, k, q[j])
      BY <1>2, <2>4 DEF Walks
    <3>4. keep = i
      <4> SUFFICES ASSUME keep < i PROVE FALSE
        OBVIOUS
      <4>1. b <= q[i].t
        BY <3>3 DEF Inside
      <4>2. q[i].t <= w.t
        BY NextWord
      <4>3. i \in 1 .. Len(q) /\ q[i] \in Words
        OBVIOUS
      <4>4. q[i].t \in Int
        BY <4>3, WordTime
      <4> QED BY <2>1, <2>2, <3>2, <4>1, <4>2, <4>4
    <3>5. \A j \in 1 .. keep + 1 : Early(L, k, q[j])
      <4>1. \A j \in 1 .. keep : Early(L, k, q[j])
        BY <1>2, <2>4 DEF Walks
      <4>2. Early(L, k, w)
        BY <3>2 DEF Early
      <4> QED BY <3>4, <4>1, <4>2
    <3>6. c = {} /\ {} = {q[j] : j \in (keep + 1) + 1 .. i + 1}
      <4>1. c = {q[j] : j \in keep + 1 .. i}
        BY <1>2, <2>4 DEF Walks
      <4> QED BY <3>4, <4>1
    <3>7. BorderPassed(L, q, k, i + 1)
      <4>1. BorderPassed(L, q, k, i)
        BY <1>2, <2>4 DEF Walks
      <4> QED BY <4>1 DEF BorderPassed
    <3>8. \A j \in (keep + 1) + 1 .. i + 1 : FALSE
      BY <3>4
    <3> QED BY <1>2, <2>4, <3>5, <3>6, <3>7, <3>8 DEF Walks
  <2> QED BY <2>3, <2>4
<1> QED BY <1>1, <1>2

(* A word in the window is cut.                                                *)
LEMMA TakeWalk ==
  ASSUME NEW L \in Seq(0 .. MaxTime), Ascending(L), NEW k \in 1 .. Len(L),
         NEW q \in Seq(Words), InOrder(q), NEW i \in Nat, i < Len(q), NEW keep \in Nat, keep <= i,
         NEW c, Walks(L, q, k, keep, i, c),
         ~(Time(q[i + 1]) < (L[k] + OffsetBegin) % WordSize),
         ~(Time(q[i + 1]) > (L[k] + OffsetEnd) % WordSize)
  PROVE  Walks(L, q, k, keep, i + 1, c \cup {q[i + 1]})
<1> DEFINE w == q[i + 1]
           b == L[k] + OffsetBegin
           e == L[k] + OffsetEnd
<1>0. w \in Words /\ w.t \in Int /\ w.t <= MaxTime
  BY NextWord, WordTime
<1>1. CASE Wraps(L)
  <2> SUFFICES ASSUME ~Unseen(q) PROVE FALSE
    BY <1>1 DEF Walks
  <2>1. k = 1
    BY <1>1 DEF Walks
  <2>2. Time(w) = w.t
    BY <1>0, NextWord, WordTime
  <2>3. MaxTime < b % WordSize
    BY <1>1, <2>1, Borders
  <2>4. b % WordSize \in Int /\ MaxTime \in Int
    <3>1. b \in Int
      BY Borders
    <3> HIDE DEF b
    <3> QED BY <3>1, Sums, Constants
  <2> HIDE DEF b, w
  <2> QED BY <1>0, <2>2, <2>3, <2>4 DEF b, w
<1>2. CASE ~Wraps(L)
  <2>1. b % WordSize = b /\ e % WordSize = e /\ b \in Int /\ e \in Int /\ e < WordSize - 1
    BY <1>2, Borders
  <2>3. CASE Unseen(q)
    <3>1. i = 0
      BY <1>2, <2>3 DEF Walks
    <3>2. Time(w) = WordSize - 1
      BY <1>0, <2>3, <3>1, NextWord, WordTime
    <3>3. WordSize \in Int
      BY SlicerConstantsAssumption DEF SlicerConstantsAssumption
    <3> QED BY <2>1, <3>2, <3>3
  <2>4. CASE ~Unseen(q)
    <3>1. Time(w) = w.t
      BY <1>0, <2>4, NextWord, WordTime
    <3>2. b <= w.t /\ w.t <= e
      BY <1>0, <2>1, <3>1
    <3>3. BorderPassed(L, q, k, i)
      BY <1>2, <2>4 DEF Walks
    <3>4. Joins(L, k) => w.t > b
      BY <3>3, NextWord DEF BorderPassed
    <3>5. Inside(L, k, w)
      BY <1>0, <2>1, <3>2, <3>4 DEF Inside
    <3>6. \A j \in keep + 1 .. i + 1 : Inside(L, k, q[j])
      <4>1. \A j \in keep + 1 .. i : Inside(L, k, q[j])
        BY <1>2, <2>4 DEF Walks
      <4> QED BY <3>5, <4>1
    <3>7. c \cup {w} = {q[j] : j \in keep + 1 .. i + 1}
      <4>1. c = {q[j] : j \in keep + 1 .. i}
        BY <1>2, <2>4 DEF Walks
      <4>2. (keep + 1 .. i + 1) = (keep + 1 .. i) \cup {i + 1}
        OBVIOUS
      <4> QED BY <4>1, <4>2
    <3>8. BorderPassed(L, q, k, i + 1)
      BY <3>3 DEF BorderPassed
    <3>9. \A j \in 1 .. keep : Early(L, k, q[j])
      BY <1>2, <2>4 DEF Walks
    <3> QED BY <1>2, <2>4, <3>6, <3>7, <3>8, <3>9 DEF Walks
  <2> QED BY <2>3, <2>4
<1> QED BY <1>1, <1>2

(* When the walk ends, by the end of the words or a word behind the window, the words  *)
(* cut are those wanted, and the index, set back if the next window overlaps, is right   *)
(* for the next trigger.                                                      *)
Ends(L, q, k, i) ==
  i # Len(q) => /\ ~(Time(q[i + 1]) < (L[k] + OffsetBegin) % WordSize)
                /\ Time(q[i + 1]) > (L[k] + OffsetEnd) % WordSize

(* Behind the end of a walk no word is in the window.                                *)
LEMMA NothingLeft ==
  ASSUME NEW L \in Seq(0 .. MaxTime), Ascending(L), NEW k \in 1 .. Len(L),
         NEW q \in Seq(Words), InOrder(q), NEW i \in Nat, i <= Len(q), Ends(L, q, k, i),
         ~Unseen(q)
  PROVE  /\ (~Wraps(L) => \A j \in 1 .. Len(q) : i < j => q[j].t > L[k] + OffsetEnd)
         /\ (Wraps(L) /\ k = 1 => i = Len(q))
<1>1. CASE i = Len(q)
  BY <1>1
<1>2. CASE i # Len(q)
  <2>0. i < Len(q)
    BY <1>2
  <2>1. q[i + 1] \in Words /\ q[i + 1].t # -1 /\ \A j \in 1 .. Len(q) : i + 1 < j => q[i + 1].t <= q[j].t
    BY <2>0, NextWord
  <2>2. Time(q[i + 1]) = q[i + 1].t /\ q[i + 1].t \in Int /\ q[i + 1].t <= MaxTime
    BY <2>1, WordTime
  <2>3. /\ ~(q[i + 1].t < (L[k] + OffsetBegin) % WordSize)
        /\ q[i + 1].t > (L[k] + OffsetEnd) % WordSize
    BY <1>2, <2>2 DEF Ends
  <2>4. ASSUME ~Wraps(L), NEW j \in 1 .. Len(q), i < j PROVE q[j].t > L[k] + OffsetEnd
    <3>1. q[i + 1].t > L[k] + OffsetEnd /\ L[k] + OffsetEnd \in Int
      BY <2>3, <2>4, Borders
    <3>2. q[j].t \in Int
      BY WordTime
    <3>3. i + 1 = j \/ i + 1 < j
      BY <2>4
    <3> QED BY <2>1, <2>2, <3>1, <3>2, <3>3
  <2>5. ~(Wraps(L) /\ k = 1)
    <3> SUFFICES ASSUME Wraps(L), k = 1 PROVE FALSE
      OBVIOUS
    <3>1. MaxTime < (L[k] + OffsetBegin) % WordSize
      BY Borders
    <3> DEFINE b == (L[k] + OffsetBegin) % WordSize
    <3>2. b \in Int /\ MaxTime \in Int
      BY Borders, SlicerConstantsAssumption, SMTT(30) DEF SlicerConstantsAssumption
    <3> HIDE DEF b
    <3> QED BY <2>2, <2>3, <3>1, <3>2 DEF b
  <2> QED BY <2>4, <2>5
<1> QED BY <1>1, <1>2

(* The words cut are those wanted.                                               *)
LEMMA EndWalkCut ==
  ASSUME NEW L \in Seq(0 .. MaxTime), Ascending(L), NEW k \in 1 .. Len(L),
         NEW q \in Seq(Words), InOrder(q), NEW i \in Nat, i <= Len(q), NEW keep \in Nat, keep <= i,
         NEW c, Walks(L, q, k, keep, i, c), Ends(L, q, k, i)
  PROVE  IsCut(L, q, k, c)
<1>1. CASE Wraps(L) \/ Unseen(q)
  BY <1>1 DEF Walks, IsCut
<1>2. CASE ~Wraps(L) /\ ~Unseen(q)
  <2>1. /\ \A j \in 1 .. keep : Early(L, k, q[j])
        /\ \A j \in keep + 1 .. i : Inside(L, k, q[j])
        /\ c = {q[j] : j \in keep + 1 .. i}
    BY <1>2 DEF Walks
  <2>2. \A j \in 1 .. Len(q) : i < j => q[j].t > L[k] + OffsetEnd
    BY <1>2, NothingLeft
  <2>3. \A j \in 1 .. Len(q) : q[j].t \in Int
    BY WordTime
  <2>4. L[k] + OffsetBegin \in Int /\ L[k] + OffsetEnd \in Int
    BY Borders
  <2>5. ASSUME NEW j \in 1 .. Len(q) PROVE Inside(L, k, q[j]) <=> j \in keep + 1 .. i
    <3>1. CASE j \in 1 .. keep
      <4>1. Early(L, k, q[j])
        BY <2>1, <3>1
      <4> QED BY <2>3, <2>4, <3>1, <4>1 DEF Early, Inside
    <3>2. CASE j \in keep + 1 .. i
      BY <2>1, <3>2
    <3>3. CASE i < j
      <4>1. q[j].t > L[k] + OffsetEnd
        BY <2>2, <3>3
      <4> QED BY <2>3, <2>4, <3>3, <4>1 DEF Inside
    <3> QED BY <3>1, <3>2, <3>3
  <2>6. {j \in 1 .. Len(q) : Inside(L, k, q[j])} = keep + 1 .. i
    BY <2>5
  <2>7. c = Wanted(L, q, k)
    BY <2>1, <2>6 DEF Wanted
  <2> QED BY <1>2, <2>7 DEF IsCut
<1> QED BY <1>1, <1>2

(* The index left, or set back, is where the walk for the next trigger may start.         *)
LEMMA EndWalkStart ==
  ASSUME NEW L \in Seq(0 .. MaxTime), Ascending(L), NEW k \in 1 .. Len(L), k < Len(L),
         NEW q \in Seq(Words), InOrder(q), NEW i \in Nat, i <= Len(q), NEW keep \in Nat, keep <= i,
         NEW c, Walks(L, q, k, keep, i, c), Ends(L, q, k, i),
         NEW next, next = IF (L[k + 1] + OffsetBegin) % WordSize < (L[k] + OffsetEnd) % WordSize
                          THEN keep ELSE i
  PROVE  Starts(L, q, k + 1, next)
<1>0. k + 1 \in 1 .. Len(L) /\ k < k + 1
  OBVIOUS
<1>1. CASE Wraps(L)
  <2>1. CASE ~Unseen(q)
    <3>1. keep = i /\ (k > 1 => i = Len(q))
      BY <1>1, <2>1 DEF Walks
    <3>2. k = 1 => i = Len(q)
      BY <1>1, <2>1, NothingLeft
    <3> QED BY <1>1, <2>1, <3>1, <3>2 DEF Starts
  <2>2. CASE Unseen(q)
    BY <1>1, <2>2 DEF Starts
  <2> QED BY <2>1, <2>2
<1>2. CASE ~Wraps(L) /\ Unseen(q)
  BY <1>2 DEF Walks, Starts
<1>3. CASE ~Wraps(L) /\ ~Unseen(q)
  <2> DEFINE b == L[k] + OffsetBegin
             e == L[k] + OffsetEnd
             b1 == L[k + 1] + OffsetBegin
  <2>1. b \in Int /\ e \in Int /\ b <= e /\ e % WordSize = e /\ L[k] < L[k + 1] /\ L[k] \in Int
    BY <1>0, <1>3, Borders
  <2>2. b1 \in Int /\ b1 % WordSize = b1 /\ L[k + 1] \in Int
    BY <1>0, <1>3, Borders
  <2>3. b < b1
    BY <2>1, <2>2, Constants, Sums, Zenon
  <2>4. next = IF b1 < e THEN keep ELSE i
    BY <2>1, <2>2
  <2>5. Joins(L, k + 1) <=> b1 = e
    BY <1>0 DEF Joins
  <2>6. /\ \A j \in 1 .. keep : Early(L, k, q[j])
        /\ \A j \in keep + 1 .. i : Inside(L, k, q[j])
    BY <1>3 DEF Walks
  <2>7. \A j \in 1 .. Len(q) : q[j].t \in Int
    BY WordTime
  <2>8. \A j \in 1 .. keep : j \in 1 .. Len(q) /\ q[j].t <= b
    <3>1. \A j \in 1 .. keep : j \in 1 .. Len(q)
      OBVIOUS
    <3>2. \A j \in 1 .. keep : q[j].t < b \/ q[j].t = b
      BY <2>6 DEF Early
    <3>3. b \in Int
      BY <2>1
    <3>4. ASSUME NEW j \in 1 .. keep PROVE q[j].t <= b
      <4>1. q[j].t \in Int /\ (q[j].t < b \/ q[j].t = b)
        BY <2>7, <3>1, <3>2
      <4> HIDE DEF b
      <4> QED BY <3>3, <4>1
    <3> QED BY <3>1, <3>4
  <2>9. \A j \in keep + 1 .. i : j \in 1 .. Len(q) /\ q[j].t <= e
    <3>1. \A j \in keep + 1 .. i : j \in 1 .. Len(q)
      OBVIOUS
    <3> QED BY <2>6, <3>1 DEF Inside
  <2>10. \A j \in 1 .. keep : Early(L, k + 1, q[j])
    <3> SUFFICES ASSUME NEW j \in 1 .. keep PROVE q[j].t < b1
      BY DEF Early
    <3> HIDE DEF b, b1, e
    <3> QED BY <2>1, <2>2, <2>3, <2>7, <2>8
  <2>11. CASE b1 < e
    <3>1. next = keep /\ ~Joins(L, k + 1)
      BY <2>1, <2>2, <2>4, <2>5, <2>11
    <3> QED BY <1>3, <2>10, <3>1 DEF Starts, BorderPassed
  <2>12. CASE ~(b1 < e)
    <3>1. next = i
      BY <2>4, <2>12
    <3>2. ASSUME NEW j \in keep + 1 .. i PROVE Early(L, k + 1, q[j])
      <4>1. q[j].t \in Int /\ q[j].t <= e
        BY <2>7, <2>9
      <4>2. q[j].t < b1 \/ (q[j].t = b1 /\ b1 = e)
        <5> HIDE DEF b1, e
        <5> QED BY <2>1, <2>2, <2>12, <4>1
      <4> QED BY <2>5, <4>2 DEF Early
    <3>3. \A j \in 1 .. i : Early(L, k + 1, q[j])
      <4>1. \A j \in 1 .. i : j \in 1 .. keep \/ j \in keep + 1 .. i
        OBVIOUS
      <4> QED BY <2>10, <3>2, <4>1
    <3>4. \A j \in 1 .. Len(q) : i < j => q[j].t > e
      BY <1>3, NothingLeft
    <3>5. BorderPassed(L, q, k + 1, i)
      BY <2>5, <3>4 DEF BorderPassed
    <3> QED BY <1>3, <3>1, <3>3, <3>5 DEF Starts
  <2> QED BY <2>11, <2>12
<1> QED BY <1>1, <1>2, <1>3
-----------------------------------------------------------------------------
(* In the loops the slices of the triggers before are right, and so are those of the   *)
(* sources before; the indices are where the walks for this trigger, or for the next,   *)
(* may start.                                                               *)
Made == \A k \in DOMAIN slices : \A s \in Sources : IsCut(List, sorted[s], k, slices[k][s])

SourceRight(s) ==
  /\ s > is => Starts(List, sorted[s], iTrig, tdcidxs[s])
  /\ s = is => Walks(List, sorted[s], iTrig, iKeep, tdcidxs[s], cut)
  /\ s < is => /\ IsCut(List, sorted[s], iTrig, row[s])
               /\ iTrig + 1 \in DOMAIN List => Starts(List, sorted[s], iTrig + 1, tdcidxs[s])

Windows ==
  slicer = "cut" =>
    /\ Made
    /\ is \notin Sources => cut = {}
    /\ iTrig \in DOMAIN List => \A s \in Sources : SourceRight(s)

(* What the sorting leaves of a frame: its words in the order of their times.          *)
LEMMA SortedFrames ==
  ASSUME TypeOK, Shape, slicer = "cut", NEW s \in Sources
  PROVE  /\ sorted[s] \in Seq(Words) /\ InOrder(sorted[s])
         /\ sorted[s] \in Seq(inParts.stfs[s].hbfs[h])
         /\ \A w \in inParts.stfs[s].hbfs[h] : \E i \in 1 .. Len(sorted[s]) : sorted[s][i] = w
<1>1. inParts \in Messages /\ s \in DOMAIN inParts.stfs /\ h \in DOMAIN inParts.stfs[s].hbfs
      /\ sorted[s] \in Orders(inParts.stfs[s].hbfs[h])
  BY DEF TypeOK, Shape
<1>2. inParts.stfs[s].hbfs[h] \in SUBSET Words /\ IsFiniteSet(inParts.stfs[s].hbfs[h])
  BY <1>1, FramesAreFinite
<1> DEFINE S == inParts.stfs[s].hbfs[h]
           q == sorted[s]
<1>3. q \in Orders(S) /\ S \in SUBSET Words /\ IsFiniteSet(S)
  BY <1>1, <1>2
<1> HIDE DEF S, q
<1>4. q \in Seq(S) /\ q \in Seq(Words)
      /\ (\A w \in S : \E i \in 1 .. Len(q) : q[i] = w)
      /\ \A i, j \in 1 .. Len(q) : i < j => q[i].t <= q[j].t
  BY <1>3, OrdersAreSequences
<1> QED BY <1>4 DEF S, q, InOrder

(* The loops of an HBF begin with no word passed and no slice made.                    *)
LEMMA WindowsBegin ==
  ASSUME TypeOK, BeginHBF
  PROVE  Windows'
<1>1. tdcidxs' = [s \in Sources |-> 0] /\ iTrig' = 1 /\ is' = 1 /\ iKeep' = 0 /\ cut' = {}
      /\ slices' = <<>> /\ UNCHANGED <<inParts, tables, fIdxHBF>>
  BY DEF BeginHBF
<1>2. List' = List /\ Sources' = Sources
  BY <1>1, SameFrame
<1>3. Sources \subseteq Nat \ {0}
  BY DEF TypeOK, Sources
<1>4. Made'
  BY <1>1 DEF Made
<1>5. ASSUME NEW s \in Sources PROVE SourceRight(s)'
  <2>1. Starts(List, sorted'[s], 1, 0)
    BY FirstStart
  <2>2. Walks(List, sorted'[s], 1, 0, 0, {})
    BY <2>1, StartWalk
  <2>3. tdcidxs'[s] = 0 /\ ~(s < is')
    BY <1>1, <1>3
  <2> QED BY <1>1, <1>2, <2>1, <2>2, <2>3 DEF SourceRight
<1> QED BY <1>1, <1>2, <1>4, <1>5 DEF Windows

(* A turn of the loop over the words keeps the walk of this source right, and leaves    *)
(* the others alone.                                                         *)
LEMMA WindowsWord ==
  ASSUME TypeOK, Shape, Windows, Skip \/ Take
  PROVE  Windows'
<1>1. Cutting /\ ~AtEnd /\ tdcidxs' = [tdcidxs EXCEPT ![is] = @ + 1]
      /\ UNCHANGED <<sorted, iTrig, is, row, slices>> /\ UNCHANGED <<inParts, tables, fIdxHBF>>
  BY DEF Skip, Take, unchangedByLoops
<1>2. slicer = "cut" /\ is \in Sources /\ iTrig \in DOMAIN List
  BY <1>1 DEF Cutting
<1>3. List' = List /\ Sources' = Sources
  BY <1>1, SameFrame
<1>4. /\ is \in 1 .. Len(fTF) /\ iTrig \in 1 .. Len(List)
      /\ it \in Nat /\ it <= Len(sorted[is]) /\ Len(sorted[is]) \in Nat
      /\ it = tdcidxs[is] /\ iKeep \in Nat /\ iKeep <= it /\ it # Len(sorted[is])
  BY <1>1, SourceHasIndex DEF AtEnd
<1>5. tdcidxs \in [Sources -> Nat] /\ Sources = 1 .. Len(fTF) /\ List \in Seq(0 .. MaxTime)
      /\ Ascending(List)
  BY <1>2, CutFacts
<1>6. tdcidxs'[is] = it + 1 /\ \A s \in Sources \ {is} : tdcidxs'[s] = tdcidxs[s]
  BY <1>1, <1>2, <1>4, <1>5
<1>7. Made'
  BY <1>1, <1>2, <1>3 DEF Windows, Made
<1>8. Walks(List, sorted[is], iTrig, iKeep', it + 1, cut')
  <2>1. Walks(List, sorted[is], iTrig, iKeep, it, cut)
    BY <1>2, <1>4 DEF Windows, SourceRight
  <2>2. sorted[is] \in Seq(Words) /\ InOrder(sorted[is]) /\ it < Len(sorted[is])
    BY <1>2, <1>4, SortedFrames
  <2>3. CASE Skip
    <3>1. iKeep' = iKeep + 1 /\ cut' = cut
          /\ Time(sorted[is][it + 1]) < (List[iTrig] + OffsetBegin) % WordSize
      BY <2>3 DEF Skip, Next_w, Begin
    <3> QED BY <1>4, <1>5, <2>1, <2>2, <3>1, SkipWalk
  <2>4. CASE Take
    <3>1. iKeep' = iKeep /\ cut' = cut \cup {sorted[is][it + 1]}
          /\ ~(Time(sorted[is][it + 1]) < (List[iTrig] + OffsetBegin) % WordSize)
          /\ ~(Time(sorted[is][it + 1]) > (List[iTrig] + OffsetEnd) % WordSize)
      BY <2>4 DEF Take, Next_w, Begin, End
    <3> QED BY <1>4, <1>5, <2>1, <2>2, <3>1, TakeWalk
  <2> QED BY <2>3, <2>4
<1>9. ASSUME NEW s \in Sources PROVE SourceRight(s)'
  <2>1. SourceRight(s)
    BY <1>2 DEF Windows
  <2>2. CASE s = is
    <3>1. ~(s < is) /\ ~(s > is)
      BY <1>4, <2>2
    <3> QED BY <1>1, <1>3, <1>6, <1>8, <2>2, <3>1 DEF SourceRight
  <2>3. CASE s # is
    <3>1. tdcidxs'[s] = tdcidxs[s]
      BY <1>6, <2>3
    <3> QED BY <1>1, <1>3, <2>1, <2>3, <3>1 DEF SourceRight
  <2> QED BY <2>2, <2>3
<1> QED BY <1>1, <1>2, <1>3, <1>7, <1>9 DEF Windows

(* The walk through a source ends: its slice is right, its index fits the next trigger,   *)
(* and the walk through the next source starts.                                   *)
LEMMA WindowsSource ==
  ASSUME TypeOK, Shape, Windows, NextSource
  PROVE  Windows'
<1>1. Cutting /\ row' = Append(row, cut) /\ cut' = {} /\ is' = is + 1
      /\ iKeep' = (IF is + 1 \in Sources THEN tdcidxs[is + 1] ELSE 0)
      /\ UNCHANGED <<sorted, iTrig, slices>> /\ UNCHANGED <<inParts, tables, fIdxHBF>>
  BY DEF NextSource, unchangedByLoops
<1>2. slicer = "cut" /\ is \in Sources /\ iTrig \in DOMAIN List
  BY <1>1 DEF Cutting
<1>3. List' = List /\ Sources' = Sources
  BY <1>1, SameFrame
<1>4. /\ is \in 1 .. Len(fTF) /\ iTrig \in 1 .. Len(List)
      /\ it \in Nat /\ it <= Len(sorted[is]) /\ it = tdcidxs[is] /\ iKeep \in Nat /\ iKeep <= it
  BY <1>1, SourceHasIndex
<1>5. tdcidxs \in [Sources -> Nat] /\ Sources = 1 .. Len(fTF) /\ Len(fTF) \in Nat
      /\ List \in Seq(0 .. MaxTime) /\ Ascending(List)
      /\ Len(List) \in Nat /\ DOMAIN List = 1 .. Len(List)
  BY <1>2, CutFacts
<1>6. tdcidxs'[is] = (IF HasOverlap(iTrig) THEN iKeep ELSE it)
      /\ \A s \in Sources \ {is} : tdcidxs'[s] = tdcidxs[s]
  BY SourceTurn
<1>7. Made'
  BY <1>1, <1>2, <1>3 DEF Windows, Made
<1>8. row'[is] = cut /\ \A s \in 1 .. is - 1 : row'[s] = row[s]
  <2>1. row \in Seq(SUBSET Words) /\ cut \in SUBSET Words /\ Len(row) = is - 1
    BY <1>2 DEF TypeOK, Shape
  <2> QED BY <2>1, <1>1, <1>4
<1>9. /\ IsCut(List, sorted[is], iTrig, cut)
      /\ iTrig + 1 \in DOMAIN List => Starts(List, sorted[is], iTrig + 1, tdcidxs'[is])
  <2>1. Walks(List, sorted[is], iTrig, iKeep, it, cut)
    BY <1>2, <1>4 DEF Windows, SourceRight
  <2>2. sorted[is] \in Seq(Words) /\ InOrder(sorted[is])
    BY <1>2, SortedFrames
  <2>3. Ends(List, sorted[is], iTrig, it)
    BY DEF NextSource, AtEnd, Next_w, Begin, End, Ends
  <2>4. IsCut(List, sorted[is], iTrig, cut)
    BY <1>4, <1>5, <2>1, <2>2, <2>3, EndWalkCut
  <2>5. ASSUME iTrig + 1 \in DOMAIN List
        PROVE  Starts(List, sorted[is], iTrig + 1, tdcidxs'[is])
    <3>1. iTrig < Len(List)
      BY <1>4, <1>5, <2>5
    <3>2. tdcidxs'[is] = IF (List[iTrig + 1] + OffsetBegin) % WordSize
                              < (List[iTrig] + OffsetEnd) % WordSize
                         THEN iKeep ELSE it
      BY <1>6, <3>1 DEF HasOverlap, Begin, End
    <3> QED BY <1>4, <1>5, <2>1, <2>2, <2>3, <3>1, <3>2, EndWalkStart
  <2> QED BY <2>4, <2>5
<1>10. ASSUME NEW s \in Sources PROVE SourceRight(s)'
  <2>0. SourceRight(s) /\ s \in Nat /\ is \in Nat
    BY <1>2, <1>4, <1>5 DEF Windows
  <2>1. CASE s < is
    <3>1. row'[s] = row[s] /\ tdcidxs'[s] = tdcidxs[s]
      BY <1>5, <1>6, <1>8, <2>0, <2>1
    <3>2. s < is' /\ ~(s = is') /\ ~(s > is')
      BY <1>1, <2>0, <2>1
    <3> QED BY <1>1, <1>3, <2>0, <2>1, <3>1, <3>2 DEF SourceRight
  <2>2. CASE s = is
    <3>1. s < is' /\ ~(s = is') /\ ~(s > is')
      BY <1>1, <2>0, <2>2
    <3> QED BY <1>1, <1>3, <1>8, <1>9, <2>2, <3>1 DEF SourceRight
  <2>3. CASE s > is
    <3>1. tdcidxs'[s] = tdcidxs[s] /\ Starts(List, sorted[s], iTrig, tdcidxs[s])
      BY <1>6, <2>0, <2>3 DEF SourceRight
    <3>2. ~(s < is')
      BY <1>1, <2>0, <2>3
    <3>3. s = is' => iKeep' = tdcidxs[s]
      BY <1>1
    <3>4. tdcidxs[s] \in Nat
      BY <1>5
    <3>5. Walks(List, sorted[s], iTrig, tdcidxs[s], tdcidxs[s], {})
      BY <3>1, <3>4, StartWalk
    <3> QED BY <1>1, <1>3, <3>1, <3>2, <3>3, <3>5 DEF SourceRight
  <2> QED BY <2>0, <2>1, <2>2, <2>3
<1> QED BY <1>1, <1>2, <1>3, <1>7, <1>10 DEF Windows

(* All sources are done: the row joins the slices, and the walks for the next trigger     *)
(* start from the indices left.                                                *)
LEMMA WindowsTrigger ==
  ASSUME TypeOK, Shape, Windows, NextTrigger
  PROVE  Windows'
<1>1. slicer = "cut" /\ iTrig \in DOMAIN List /\ is \notin Sources
      /\ slices' = Append(slices, row) /\ iTrig' = iTrig + 1 /\ is' = 1
      /\ iKeep' = (IF 1 \in Sources THEN tdcidxs[1] ELSE 0)
      /\ UNCHANGED <<sorted, tdcidxs, cut>> /\ UNCHANGED <<inParts, tables, fIdxHBF>>
  BY DEF NextTrigger, unchangedByLoops
<1>2. List' = List /\ Sources' = Sources
  BY <1>1, SameFrame
<1>3. tdcidxs \in [Sources -> Nat] /\ Sources = 1 .. Len(fTF) /\ Len(fTF) \in Nat
  BY <1>1, CutFacts
<1>4. is \in 1 .. Len(fTF) + 1 /\ \A s \in Sources : s < is
  <2>1. is \in 1 .. Len(fTF) + 1
    BY <1>1 DEF Shape
  <2> QED BY <2>1, <1>1, <1>3
<1>5. cut = {}
  BY <1>1 DEF Windows
<1>6. \A s \in Sources : /\ IsCut(List, sorted[s], iTrig, row[s])
                         /\ iTrig + 1 \in DOMAIN List => Starts(List, sorted[s], iTrig + 1, tdcidxs[s])
  BY <1>1, <1>4 DEF Windows, SourceRight
<1>7. Made'
  <2>1. slices \in Seq(Seq(SUBSET Words)) /\ row \in Seq(SUBSET Words) /\ Len(slices) = iTrig - 1
        /\ iTrig \in Nat
    BY <1>1 DEF TypeOK, Shape
  <2>2. /\ DOMAIN slices = 1 .. iTrig - 1 /\ DOMAIN slices' = 1 .. iTrig
        /\ slices'[iTrig] = row /\ \A k \in 1 .. iTrig - 1 : slices'[k] = slices[k]
    <3>1. iTrig >= 1
      <4>1. Len(slices) \in Nat
        BY <2>1
      <4> QED BY <2>1, <4>1
    <3> QED BY <1>1, <2>1, <3>1
  <2>3. ASSUME NEW k \in 1 .. iTrig, NEW s \in Sources
        PROVE  IsCut(List, sorted[s], k, slices'[k][s])
    <3>1. CASE k = iTrig
      BY <1>6, <2>2, <3>1
    <3>2. CASE k # iTrig
      <4>1. k \in DOMAIN slices /\ slices'[k] = slices[k]
        BY <2>1, <2>2, <3>2
      <4>2. IsCut(List, sorted[s], k, slices[k][s])
        BY <1>1, <4>1 DEF Windows, Made
      <4> QED BY <4>1, <4>2
    <3> QED BY <3>1, <3>2
  <2> QED BY <1>1, <1>2, <2>2, <2>3 DEF Made
<1>8. ASSUME iTrig + 1 \in DOMAIN List, NEW s \in Sources PROVE SourceRight(s)'
  <2>1. Starts(List, sorted[s], iTrig + 1, tdcidxs[s]) /\ tdcidxs[s] \in Nat
    BY <1>3, <1>6, <1>8
  <2>2. Walks(List, sorted[s], iTrig + 1, tdcidxs[s], tdcidxs[s], {})
    BY <2>1, StartWalk
  <2>3. ~(s < is')
    BY <1>1, <1>3
  <2>4. s = is' => iKeep' = tdcidxs[s]
    BY <1>1
  <2> QED BY <1>1, <1>2, <1>5, <2>1, <2>2, <2>3, <2>4 DEF SourceRight
<1> QED BY <1>1, <1>2, <1>5, <1>7, <1>8 DEF Windows

(* Steps that leave the loops alone, or that leave them.                              *)
LEMMA WindowsUnchanged ==
  Windows /\ UNCHANGED <<slicer, inParts, tables, fIdxHBF, loops>> => Windows'
<1> SUFFICES ASSUME Windows, UNCHANGED <<slicer, inParts, tables, fIdxHBF, loops>> PROVE Windows'
  OBVIOUS
<1>1. List' = List /\ Sources' = Sources
  BY SameFrame
<1>2. UNCHANGED <<slicer, sorted, tdcidxs, iTrig, is, iKeep, cut, row, slices>>
  BY DEF loops
<1> QED BY <1>1, <1>2 DEF Windows, Made, SourceRight

(* Outside the cutting nothing is asked of the windows. *)
LEMMA WindowsOutside == slicer' # "cut" => Windows'
BY DEF Windows

(* Every step keeps the slices right.                                            *)
LEMMA WindowsStep == TypeOK /\ Shape /\ Windows /\ [Next]_vars => Windows'
<1> SUFFICES ASSUME TypeOK, Shape, Windows, [Next]_vars PROVE Windows'
  OBVIOUS
<1>1. CASE BeginHBF
  BY <1>1, WindowsBegin
<1>2. CASE Skip \/ Take
  BY <1>2, WindowsWord
<1>3. CASE NextSource
  BY <1>3, WindowsSource
<1>4. CASE NextTrigger
  BY <1>4, WindowsTrigger
<1>5. CASE Receive \/ EndHBF \/ SendSucceeds \/ SendBlocked \/ SendInterrupted
  <2>1. slicer' # "cut"
    BY <1>5 DEF Receive, EndHBF, SendSucceeds, SendBlocked, SendInterrupted, Leave
  <2> QED BY <2>1, WindowsOutside
<1>6. CASE Control
  <2>1. RequestStop => UNCHANGED slicer
    BY DEF RequestStop
  <2>2. ~RequestStop => slicer' # "cut"
    <3>1. Collapse => slicer' # "cut"
      BY DEF Collapse, Fault
    <3> QED BY <1>6, <3>1 DEF Control, EndHBFs, SendDqm, PreRun, BeginPostRun, EndPostRun
  <2>3. UNCHANGED <<inParts, tables, fIdxHBF>> /\ UNCHANGED loops
    BY <1>6, ControlUnchanged
  <2> QED BY <2>1, <2>2, <2>3, WindowsOutside, WindowsUnchanged
<1>7. CASE DrainOne \/ Arrive \/ \E d \in DOMAIN output : Consume(d)
  BY <1>7, TypeTraffic, WindowsUnchanged
<1>8. CASE UNCHANGED vars
  BY <1>8, WindowsUnchanged DEF vars
<1> QED BY <1>1, <1>2, <1>3, <1>4, <1>5, <1>6, <1>7, <1>8
        DEF Next, Local, Device, Loops, Control

(* What is cut from the sorted words is what is wanted of the frame.                   *)
LEMMA CutIsDue ==
  ASSUME TypeOK, Shape, slicer = "cut", NEW k \in DOMAIN List, NEW s \in Sources, NEW c,
         IsCut(List, sorted[s], k, c)
  PROVE  IF Wrapped THEN ~Blind(s) => c = {} ELSE c = IF Blind(s) THEN {} ELSE Due(k, s)
<1> DEFINE q == sorted[s]
           S == inParts.stfs[s].hbfs[h]
<1>1. q \in Seq(Words) /\ q \in Seq(S) /\ \A w \in S : \E i \in 1 .. Len(q) : q[i] = w
  BY SortedFrames
<1>2. Wraps(List) <=> Wrapped
  BY DEF Wraps, Wrapped
<1>3. Unseen(q) <=> Blind(s)
  <2> HIDE DEF q, S
  <2>1. \A i \in 1 .. Len(q) : q[i] \in S
    BY <1>1
  <2> QED BY <1>1, <2>1 DEF Unseen, Blind, S
<1>4. Joins(List, k) <=> Touches(k)
  BY DEF Joins, Touches
<1>5. \A w \in Words : Inside(List, k, w) <=>
         /\ w.t \in List[k] + OffsetBegin .. List[k] + OffsetEnd
         /\ ~(Touches(k) /\ w.t = List[k] + OffsetBegin)
  <2>1. List \in Seq(0 .. MaxTime) /\ Ascending(List) /\ k \in 1 .. Len(List)
    BY CutFacts
  <2>2. List[k] + OffsetBegin \in Int /\ List[k] + OffsetEnd \in Int
    BY <2>1, Borders
  <2>3. \A w \in Words : w.t \in List[k] + OffsetBegin .. List[k] + OffsetEnd
                          <=> List[k] + OffsetBegin <= w.t /\ w.t <= List[k] + OffsetEnd
    BY <2>2, WordTime
  <2> QED BY <1>4, <2>3 DEF Inside
<1>6. Wanted(List, q, k) = Due(k, s)
  <2>1. \A i \in 1 .. Len(q) : q[i] \in S /\ q[i] \in Words
    <3> HIDE DEF q, S
    <3> QED BY <1>1
  <2>2. \A w : w \in Due(k, s) <=> w \in S /\ w \in Words /\ Inside(List, k, w)
    <3>1. S \subseteq Words
      BY <1>1, <2>1
    <3> QED BY <1>5, <3>1 DEF Due
  <2>3. \A w : w \in Wanted(List, q, k) <=> \E j \in 1 .. Len(q) : w = q[j] /\ Inside(List, k, q[j])
    BY DEF Wanted
  <2>4. \A w \in S : \E j \in 1 .. Len(q) : q[j] = w
    BY <1>1
  <2> HIDE DEF q, S
  <2>5. ASSUME NEW w PROVE w \in Wanted(List, q, k) <=> w \in Due(k, s)
    <3>1. ASSUME w \in Wanted(List, q, k) PROVE w \in Due(k, s)
      <4>1. PICK j \in 1 .. Len(q) : w = q[j] /\ Inside(List, k, q[j])
        BY <2>3, <3>1
      <4> QED BY <2>1, <2>2, <4>1
    <3>2. ASSUME w \in Due(k, s) PROVE w \in Wanted(List, q, k)
      <4>1. w \in S /\ Inside(List, k, w)
        BY <2>2, <3>2
      <4>2. PICK j \in 1 .. Len(q) : q[j] = w
        BY <2>4, <4>1
      <4> QED BY <2>3, <4>1, <4>2
    <3> QED BY <3>1, <3>2
  <2> QED BY <2>5
<1> QED BY <1>2, <1>3, <1>6 DEF IsCut

(* Every slice holds the words of its window, for all windows, messages and numbers of      *)
(* sources: the index that the sources keep from one trigger to the next, and that is set   *)
(* back where windows overlap, never passes a word too far (ConditionalRun).          *)
THEOREM SlicesCorrect == Spec => []SlicesAreWindows
<1>1. Init => TypeOK /\ Shape /\ Windows
  BY TypeInit DEF Init, Shape, Windows
<1>2. TypeOK /\ Shape /\ Windows /\ [Next]_vars => TypeOK' /\ Shape' /\ Windows'
  BY ShapeStep, WindowsStep
<1>3. TypeOK /\ Shape /\ Windows => SlicesAreWindows
  <2> SUFFICES ASSUME TypeOK, Shape, Windows, slicer = "cut",
                      NEW k \in DOMAIN slices, NEW s \in Sources
               PROVE  IF Wrapped THEN ~Blind(s) => slices[k][s] = {}
                      ELSE slices[k][s] = IF Blind(s) THEN {} ELSE Due(k, s)
    BY DEF SlicesAreWindows
  <2>1. IsCut(List, sorted[s], k, slices[k][s])
    BY DEF Windows, Made
  <2>2. k \in DOMAIN List
    <3>1. slices \in Seq(Seq(SUBSET Words)) /\ Len(slices) = iTrig - 1 /\ iTrig \in 1 .. Len(List) + 1
      BY DEF TypeOK, Shape
    <3>2. Len(List) \in Nat /\ DOMAIN List = 1 .. Len(List)
      BY CutFacts
    <3> QED BY <3>1, <3>2
  <2> QED BY <2>1, <2>2, CutIsDue
<1> QED BY <1>1, <1>2, <1>3, PTL DEF Spec
-----------------------------------------------------------------------------
(* The containers hold what the message in hand has, until its last HBF is done.          *)
Held ==
  slicer \in {"hbf", "cut"} =>
    /\ Len(inParts.lists) <= fLF
    /\ \A s \in DOMAIN inParts.stfs : s <= Len(fTF) => Len(inParts.stfs[s].hbfs) <= fTF[s]

(* The lengths in a message are numbers.                                          *)
LEMMA MessageLengths ==
  ASSUME NEW m \in Messages
  PROVE  /\ Len(m.lists) \in Nat /\ DOMAIN m.lists = 1 .. Len(m.lists)
         /\ Len(m.stfs) \in Nat /\ DOMAIN m.stfs = 1 .. Len(m.stfs)
         /\ \A s \in DOMAIN m.stfs : /\ Len(m.stfs[s].hbfs) \in Nat
                                     /\ DOMAIN m.stfs[s].hbfs = 1 .. Len(m.stfs[s].hbfs)
                                     /\ m.stfs[s].numMessages \in Nat
         /\ m.stfs # <<>> => Last(m.stfs) = m.stfs[Len(m.stfs)] /\ Len(m.stfs) \in DOMAIN m.stfs
<1>1. m.stfs \in Seq(STFs) /\ m.lists \in Seq({list \in Seq(0 .. MaxTime) : Ascending(list)})
  BY DEF Messages
<1>2. \A stf \in STFs : /\ Len(stf.hbfs) \in Nat /\ DOMAIN stf.hbfs = 1 .. Len(stf.hbfs)
                        /\ stf.numMessages \in Nat
  BY DEF STFs
<1>3. \A s \in DOMAIN m.stfs : m.stfs[s] \in STFs
  BY <1>1
<1>4. /\ Len(m.lists) \in Nat /\ DOMAIN m.lists = 1 .. Len(m.lists)
      /\ Len(m.stfs) \in Nat /\ DOMAIN m.stfs = 1 .. Len(m.stfs)
  BY <1>1
<1>5. m.stfs # <<>> => Last(m.stfs) = m.stfs[Len(m.stfs)] /\ Len(m.stfs) \in DOMAIN m.stfs
  BY <1>1 DEF Last
<1> QED BY <1>2, <1>3, <1>4, <1>5

(* A regular message fits the containers that have grown for it.                       *)
LEMMA RegularFits ==
  ASSUME TypeOK, Receive
  PROVE  Held' /\ FailsOnlyOnIrregular'
<1>1. inParts' \in Messages /\ fTF \in Seq(Nat) /\ fTF' = Grown(inParts') /\ fLF \in Nat
      /\ fLF' = IF fLF < Len(inParts'.lists) THEN Len(inParts'.lists) + 1 ELSE fLF
  <2>1. LinkOK /\ link # <<>>
    BY Groups DEF Receive
  <2> QED BY <2>1, LinkTail DEF Receive, TypeOK
<1>2. slicer' = IF Len(inParts'.stfs) > Len(fTF') THEN "undefined"
                ELSE IF \E s \in DOMAIN inParts'.stfs : Len(inParts'.stfs[s].hbfs) > fTF'[s]
                THEN "failed" ELSE "hbf"
  BY DEF Receive
<1> DEFINE m == inParts'
           f == fTF'
<1>3. f \in Seq(Nat) /\ \A s \in DOMAIN m.stfs : s <= Len(f) => m.stfs[s].numMessages <= f[s]
  BY <1>1, GrownType
<1>4. Len(m.lists) \in Nat /\ Len(m.stfs) \in Nat /\ DOMAIN m.stfs = 1 .. Len(m.stfs)
      /\ \A s \in DOMAIN m.stfs : Len(m.stfs[s].hbfs) \in Nat /\ m.stfs[s].numMessages \in Nat
  BY <1>1, MessageLengths
<1>5. Len(f) \in Nat /\ \A s \in DOMAIN m.stfs : s <= Len(f) => f[s] \in Nat
  BY <1>3, <1>4
<1>6. Len(m.lists) <= fLF'
  BY <1>1, <1>4
<1>7. Held'
  <2> SUFFICES ASSUME slicer' \in {"hbf", "cut"}
               PROVE  \A s \in DOMAIN m.stfs : s <= Len(f) => Len(m.stfs[s].hbfs) <= f[s]
    BY <1>6 DEF Held
  <2>1. ~\E s \in DOMAIN m.stfs : Len(m.stfs[s].hbfs) > f[s]
    BY <1>2
  <2> QED BY <1>4, <1>5, <2>1
<1>8. FailsOnlyOnIrregular'
  <2> SUFFICES ASSUME slicer' \in {"failed", "undefined"}, Len(m.stfs) = Len(f),
                      \A s \in DOMAIN m.stfs : Len(m.stfs[s].hbfs) <= m.stfs[s].numMessages
               PROVE  FALSE
    BY DEF FailsOnlyOnIrregular, Regular
  <2>1. ~(Len(m.stfs) > Len(f))
    BY <1>4
  <2>2. PICK s \in DOMAIN m.stfs : Len(m.stfs[s].hbfs) > f[s]
    BY <1>2, <2>1
  <2>3. s <= Len(f) /\ Len(m.stfs[s].hbfs) <= m.stfs[s].numMessages
    BY <1>4, <2>2
  <2> QED BY <1>3, <1>4, <1>5, <2>2, <2>3
<1> QED BY <1>7, <1>8

(* Nothing is missing of a regular message that the containers hold.                   *)
LEMMA RegularLacksNothing ==
  ASSUME TypeOK, Held, slicer = "hbf", fIdxHBF < NumHBF, Regular(inParts)
  PROVE  Fault = "none"
<1>1. inParts \in Messages /\ fTF \in Seq(Nat) /\ fLF \in Nat /\ fIdxHBF \in Nat
  BY DEF TypeOK
<1>2. inParts.stfs # <<>>
  <2> SUFFICES ASSUME inParts.stfs = <<>> PROVE FALSE
    OBVIOUS
  <2>1. NumHBF = 0
    BY DEF NumHBF
  <2> QED BY <1>1, <2>1
<1> DEFINE n == Len(Last(inParts.stfs).hbfs)
<1>3. NumHBF = n
  BY <1>2 DEF NumHBF
<1>4. n \in Nat
  BY <1>1, <1>2, MessageLengths
<1>5. h \in 1 .. n
  <2> HIDE DEF n
  <2> QED BY <1>1, <1>3, <1>4 DEF h
<1>6. /\ Len(inParts.stfs) = Len(fTF)
      /\ \A s \in DOMAIN inParts.stfs : n <= Len(inParts.stfs[s].hbfs)
      /\ n <= Len(inParts.lists)
  BY <1>2 DEF Regular
<1>7. /\ Len(inParts.lists) \in Nat /\ DOMAIN inParts.lists = 1 .. Len(inParts.lists)
      /\ DOMAIN inParts.stfs = 1 .. Len(inParts.stfs)
      /\ \A s \in DOMAIN inParts.stfs : /\ Len(inParts.stfs[s].hbfs) \in Nat
                                        /\ DOMAIN inParts.stfs[s].hbfs = 1 .. Len(inParts.stfs[s].hbfs)
  BY <1>1, MessageLengths
<1>8. /\ Len(inParts.lists) <= fLF
      /\ \A s \in DOMAIN inParts.stfs : s <= Len(fTF) => Len(inParts.stfs[s].hbfs) <= fTF[s]
  BY DEF Held
<1> HIDE DEF n
<1>9. h \in DOMAIN inParts.lists /\ ~(h > fLF)
  BY <1>1, <1>4, <1>5, <1>6, <1>7, <1>8
<1>10. \A s \in Sources : ~Lacks(s)
  <2> SUFFICES ASSUME NEW s \in Sources PROVE ~Lacks(s)
    OBVIOUS
  <2>1. s \in 1 .. Len(fTF) /\ s \in DOMAIN inParts.stfs /\ fTF[s] \in Nat
    BY <1>1, <1>6, <1>7 DEF Sources
  <2>2. h \in DOMAIN inParts.stfs[s].hbfs
    BY <1>4, <1>5, <1>6, <1>7, <2>1
  <2>3. Len(inParts.stfs[s].hbfs) <= fTF[s]
    BY <1>8, <2>1
  <2>4. ~(h > fTF[s])
    BY <1>7, <2>1, <2>2, <2>3
  <2> QED BY <2>1, <2>2, <2>4 DEF Lacks
<1> QED BY <1>9, <1>10 DEF Fault

(* Every step keeps the containers large enough for the message in hand.               *)
LEMMA HeldStep ==
  TypeOK /\ Held /\ FailsOnlyOnIrregular /\ [Next]_vars => Held' /\ FailsOnlyOnIrregular'
<1> SUFFICES ASSUME TypeOK, Held, FailsOnlyOnIrregular, [Next]_vars
             PROVE  Held' /\ FailsOnlyOnIrregular'
  OBVIOUS
<1>0. ASSUME UNCHANGED <<inParts, tables>>,
             slicer' \in {"hbf", "cut"} => slicer \in {"hbf", "cut"},
             slicer' \in {"failed", "undefined"} => slicer \in {"failed", "undefined"}
      PROVE  Held' /\ FailsOnlyOnIrregular'
  <2>1. inParts' = inParts /\ fTF' = fTF /\ fLF' = fLF
    BY <1>0 DEF tables
  <2>2. Held'
    BY <1>0, <2>1 DEF Held
  <2>3. FailsOnlyOnIrregular'
    BY <1>0, <2>1 DEF FailsOnlyOnIrregular, Regular
  <2> QED BY <2>2, <2>3
<1>1. CASE Receive
  BY <1>1, RegularFits
<1>2. CASE Collapse
  <2>1. slicer = "hbf" /\ fIdxHBF < NumHBF /\ Fault # "none" /\ slicer' = Fault
        /\ inParts' = inParts /\ fTF' = fTF
    BY <1>2 DEF Collapse, tables
  <2>2. ~Regular(inParts)
    BY <2>1, RegularLacksNothing
  <2>3. slicer' \notin {"hbf", "cut"}
    BY <2>1 DEF Fault
  <2>4. FailsOnlyOnIrregular'
    BY <2>1, <2>2 DEF FailsOnlyOnIrregular, Regular
  <2> QED BY <2>3, <2>4 DEF Held
<1>3. CASE BeginHBF \/ Loops
  <2>1. UNCHANGED <<inParts, tables>> /\ slicer \in {"hbf", "cut"} /\ slicer' \in {"hbf", "cut"}
    BY <1>3 DEF BeginHBF, Loops, Skip, Take, NextSource, NextTrigger, EndHBF, Cutting, unchangedByLoops
  <2> QED BY <1>0, <2>1
<1>4. CASE SendSucceeds \/ SendInterrupted
  <2>1. slicer' = "idle"
    BY <1>4 DEF SendSucceeds, SendInterrupted, Leave
  <2> QED BY <2>1 DEF Held, FailsOnlyOnIrregular
<1>5. CASE EndHBFs \/ SendDqm \/ PreRun \/ BeginPostRun \/ EndPostRun
  <2>1. slicer' \in {"dqm", "send", "idle", "drain", "ready"}
    BY <1>5 DEF EndHBFs, SendDqm, PreRun, BeginPostRun, EndPostRun
  <2> QED BY <2>1 DEF Held, FailsOnlyOnIrregular
<1>6. CASE SendBlocked \/ RequestStop
  <2>1. UNCHANGED <<inParts, tables>> /\ UNCHANGED slicer
    BY <1>6 DEF SendBlocked, RequestStop
  <2> QED BY <1>0, <2>1
<1>7. CASE DrainOne \/ Arrive \/ \E d \in DOMAIN output : Consume(d)
  <2>1. UNCHANGED <<inParts, tables>> /\ UNCHANGED slicer
    BY <1>7, TypeTraffic
  <2> QED BY <1>0, <2>1
<1>8. CASE UNCHANGED vars
  <2>1. UNCHANGED <<inParts, tables>> /\ UNCHANGED slicer
    BY <1>8 DEF vars
  <2> QED BY <1>0, <2>1
<1> QED BY <1>1, <1>2, <1>3, <1>4, <1>5, <1>6, <1>7, <1>8 DEF Next, Local, Device

(* A message in which nothing is missing never meets an HBF that the reused containers do     *)
(* not have, or one that an earlier message has left: the exception of at() and the read   *)
(* through a stale pointer take an irregular message (ParseMessages, ConditionalRun).  *)
THEOREM FailsOnlyIfIrregular == Spec => []FailsOnlyOnIrregular
<1>1. Init => TypeOK /\ Shape /\ Held /\ FailsOnlyOnIrregular
  BY TypeInit DEF Init, Shape, Held, FailsOnlyOnIrregular
<1>2. TypeOK /\ Shape /\ Held /\ FailsOnlyOnIrregular /\ [Next]_vars
        => TypeOK' /\ Shape' /\ Held' /\ FailsOnlyOnIrregular'
  BY ShapeStep, HeldStep
<1> QED BY <1>1, <1>2, PTL DEF Spec

=============================================================================
