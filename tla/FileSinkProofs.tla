---------------------------- MODULE FileSinkProofs ----------------------------
(***************************************************************************)
(* Theorems about FileSink with TaskProcessorMT and FileUtil, for any number of worker threads, channels of  *)
(* any length, branches of any size, any number of messages and runs: the order of the messages in the file,  *)
(* what the file of a run begins and ends with, what its branches hold, and the types and bounds.            *)
(***************************************************************************)
EXTENDS FileSink, SequenceLemmas, FiniteSetTheorems

(* What the constants are, one by one. *)
LEMMA Constants ==
  /\ NThreads \in Nat \ {0} /\ ThreadModes \subseteq BOOLEAN
  /\ MaxIteration \in Nat /\ WritesPerMessage \in Nat \ {0}
  /\ QueueLength \in Nat \ {0} /\ DrainLimit \in Nat
  /\ InputHWM \in Nat \ {0} /\ MaxMessages \in Nat /\ MaxRuns \in Nat
BY FSConstantsAssumption DEF FSConstantsAssumption

-----------------------------------------------------------------------------
(* The variables keep their types; of fFile, which the order does not depend on, Util and Typed below say more. *)
ControlOK ==
  /\ pc \in {"ready", "idle", "split", "copy", "join", "drain", "report", "terminated"}
  /\ newState \in BOOLEAN /\ fStopRequested \in BOOLEAN
CountersOK == fNReceived \in Nat /\ fNOutput \in Nat /\ drained \in Nat
CurrentOK ==
  /\ current \in Messages \union {None}
  /\ pc \in {"split", "copy"} => current \in Messages /\ fNReceived > 0
ChannelsOK ==
  /\ splitter \in [Workers -> Seq(Messages)] /\ merger \in [Workers -> Seq(Messages)]
  /\ working \in [Workers -> Messages \union {None}]
InputOK ==
  /\ input \in Seq(Messages) /\ produced \in 0 .. MaxMessages /\ run \in 0 .. MaxRuns
  /\ upstream => run > 0
FileOK == file \in Seq(Items)

(* Threads live only in a run, or after one that a limit on the writes has ended. *)
ThreadsOK ==
  /\ alive \subseteq Workers \union {Merger}
  /\ alive # {} => joinable
  /\ fWorker \in BOOLEAN
  /\ joinable /\ ~fStopRequested /\ pc # "terminated" => fWorker
  /\ pc = "split" => fWorker
  /\ pc = "copy" => ~fWorker /\ ~fStopRequested
  /\ joinable => pc \notin {"drain", "report"} /\ (pc = "ready" => fStopRequested)
  /\ pc = "terminated" => alive = {}

Types == ControlOK /\ CountersOK /\ CurrentOK /\ ChannelsOK /\ InputOK /\ FileOK /\ ThreadsOK

-----------------------------------------------------------------------------
(* All that a worker has yet to do or has done for the merger, in order. *)
Work(w)  == IF working[w] = None THEN <<>> ELSE <<working[w]>>
Dealt(w) == IF pc = "split" /\ w = Turn THEN <<current>> ELSE <<>>
Pipe(w)  == ((merger[w] \o Work(w)) \o splitter[w]) \o Dealt(w)

(* The messages are numbered on; the first of this run is Base + 1. *)
Base == produced - Len(input) - fNReceived

InputInOrder == \A i \in 1 .. Len(input) : input[i].n = produced - Len(input) + i

Ascending(q) == \A i, j \in 1 .. Len(q) : i < j => q[i].n < q[j].n

(* A queue holds the messages of a worker, those with numbers from first up to end. *)
Carries(q, first, end, base, share) ==
  /\ Ascending(q)
  /\ \A i \in 1 .. Len(q) : \E k \in first .. end - 1 : k \in share /\ q[i].n = base + k + 1
  /\ \A k \in first .. end - 1 : k \in share => \E i \in 1 .. Len(q) : q[i].n = base + k + 1

Share(w) == {k \in Nat : k % NThreads = w}

(* Of the first a messages received, those that are not written are in the pipe of their worker, in *)
(* order. *)
Flows(a) ==
  /\ a \in Nat /\ fNOutput <= a
  /\ \A w \in Workers : Carries(Pipe(w), fNOutput, a, Base, Share(w))

(* The last message received is lost if a stop interrupts its way to the worker. *)
Flow ==
  \E a \in {fNReceived, fNReceived - 1} :
    Flows(a) /\ (a = fNReceived \/ (newState /\ pc # "split"))

(* While messages may still be written, the last one written is known. *)
Live    == Merger \in alive /\ ~fStopRequested
Direct  == ~fWorker /\ pc = "idle" /\ ~fStopRequested
Copying == pc = "copy"

Behind(n) == Len(file) >= 1 /\ (Len(file) > 1 => file[Len(file)].n = n)

Order ==
  /\ InputInOrder
  /\ Live => Flow /\ Behind(Base + fNOutput)
  /\ Direct => Behind(produced - Len(input))
  /\ Copying => current.n = produced - Len(input) /\ Behind(current.n - 1)
  /\ WrittenInOrder

-----------------------------------------------------------------------------
(* Header, messages, trailer, in a run that no limit on the writes ends. *)
Framing ==
  /\ ~fStopRequested
  /\ run > 0 => Len(file) >= 1 /\ file[1] = Header
  /\ pc \in {"idle", "split", "copy", "join", "drain"} => run > 0 /\ \A i \in 2 .. Len(file) : IsMessage(i)
  /\ pc = "report" => run > 0
  /\ pc = "report" \/ (pc = "ready" /\ run > 0) =>
       /\ Len(file) >= 2 /\ file[Len(file)] = Trailer
       /\ \A i \in 2 .. Len(file) - 1 : IsMessage(i)

-----------------------------------------------------------------------------
(* Nothing but messages of the current run in the input, with the workers and in the file, and *)
(* nothing in the input between two runs. *)
OfRun(q, r) == \A i \in 1 .. Len(q) : q[i].run = r

Drained     == Len(input) <= InputHWM /\ (pc = "drain" => drained + Len(input) <= InputHWM)
Emptied     == pc \in {"report", "ready"} => input = <<>>
InputOwn    == OfRun(input, run)
WorkersOwn  ==
  pc \in {"idle", "split", "copy", "join"} =>
    \A w \in Workers :
      OfRun(merger[w], run) /\ OfRun(splitter[w], run) /\ (working[w] # None => working[w].run = run)
CurrentOwn  == pc \in {"split", "copy"} => current.run = run

Own == Drained /\ Emptied /\ InputOwn /\ WorkersOwn /\ CurrentOwn /\ WrittenInOwnRun

-----------------------------------------------------------------------------
(* Messages are not what a file begins or ends with. *)
LEMMA Kinds ==
  /\ Header \in Items /\ Trailer \in Items /\ Messages \subseteq Items
  /\ \A m \in Messages : m.n \in 1 .. MaxMessages /\ m # Header /\ m # Trailer /\ m # None
BY Constants DEF Items, Messages, Header, Trailer, None

(* What a write does to the file and to the flag, whatever becomes of the branches. *)
LEMMA WriteFacts ==
  ASSUME NEW msg, WriteData(msg)
  PROVE  /\ fStopRequested => UNCHANGED <<file, fStopRequested>>
         /\ ~fStopRequested => file' = Append(file, msg) /\ fStopRequested' \in BOOLEAN
         /\ ~fStopRequested /\ MaxIteration = 0 => fStopRequested' = FALSE
<1>1. CASE fStopRequested
  BY <1>1 DEF WriteData, writing
<1>2. CASE ~fStopRequested
  <2>1. file' = Append(file, msg) /\ fStopRequested' = (MaxIteration > 0 /\ fNWrite' = MaxIteration)
    BY <1>2 DEF WriteData, Put
  <2>2. fStopRequested' \in BOOLEAN
    BY <2>1, Zenon
  <2>3. MaxIteration = 0 => ~(MaxIteration > 0)
    BY Constants
  <2> QED BY <1>2, <2>1, <2>2, <2>3, Zenon
<1> QED BY <1>1, <1>2

(* The device starts with variables of their types. *)
LEMMA TypesInit == Init => Types
<1> SUFFICES ASSUME Init PROVE Types
  OBVIOUS
<1> USE DEF Init
<1>1. ControlOK
  <2>1. newState \in BOOLEAN /\ fStopRequested \in BOOLEAN
    BY Zenon
  <2> QED BY <2>1 DEF ControlOK
<1>2. CountersOK /\ CurrentOK /\ FileOK
  BY DEF CountersOK, CurrentOK, FileOK
<1>5. ThreadsOK
  <2>1. fWorker \in BOOLEAN
    BY Constants
  <2> QED BY <2>1 DEF ThreadsOK
<1>3. ChannelsOK
  BY DEF ChannelsOK
<1>4. InputOK
  BY Constants DEF InputOK
<1> QED BY <1>1, <1>2, <1>3, <1>4, <1>5 DEF Types

(* What is left alone keeps its type. *)
LEMMA Unchanged ==
  ASSUME Types
  PROVE  /\ UNCHANGED <<pc, newState, fStopRequested>> => ControlOK'
         /\ UNCHANGED <<fNReceived, fNOutput, drained>> => CountersOK'
         /\ UNCHANGED <<pc, current, fNReceived>> => CurrentOK'
         /\ UNCHANGED <<splitter, merger, working>> => ChannelsOK'
         /\ UNCHANGED <<input, produced, run, upstream>> => InputOK'
         /\ UNCHANGED file => FileOK'
         /\ UNCHANGED <<alive, joinable, fWorker, pc, fStopRequested>> => ThreadsOK'
BY DEF Types, ControlOK, CountersOK, CurrentOK, ChannelsOK, InputOK, FileOK, ThreadsOK

(* The rest of the system keeps the types. *)
LEMMA TypesAround ==
  ASSUME Types, Deliver \/ RequestStop \/ StopUpstream
  PROVE  Types'
<1>1. CASE Deliver
  <2>1. /\ upstream /\ produced < MaxMessages /\ produced' = produced + 1
        /\ input' = Append(input, [n |-> produced', run |-> run]) /\ UNCHANGED <<upstream, run>>
        /\ UNCHANGED <<pc, newState, fStopRequested, fNReceived, fNOutput, drained, current>>
        /\ UNCHANGED <<splitter, merger, working, file, alive, joinable, fWorker>>
    BY <1>1 DEF Deliver, device, stops, threads, writing
  <2>2. InputOK
    BY DEF Types
  <2>3. produced' \in 1 .. MaxMessages /\ run \in 1 .. MaxRuns
    BY <2>1, <2>2, Constants DEF InputOK
  <2>4. [n |-> produced', run |-> run] \in Messages
    BY <2>3 DEF Messages
  <2>5. input' \in Seq(Messages)
    BY <2>1, <2>2, <2>4 DEF InputOK
  <2>6. InputOK'
    BY <2>1, <2>2, <2>3, <2>5 DEF InputOK
  <2> QED BY <2>1, <2>6, Unchanged DEF Types
<1>2. CASE RequestStop
  <2>1. /\ newState' = TRUE /\ UNCHANGED fStopRequested
        /\ UNCHANGED <<pc, fNReceived, fNOutput, drained, current, input, produced, upstream, run>>
        /\ UNCHANGED <<splitter, merger, working, file, alive, joinable, fWorker>>
    BY <1>2 DEF RequestStop, device, stops, threads, writing, source
  <2>2. ControlOK'
    <3>1. newState' \in BOOLEAN
      BY <2>1, Zenon
    <3> QED BY <2>1, <3>1 DEF Types, ControlOK
  <2> QED BY <2>1, <2>2, Unchanged DEF Types
<1>3. CASE StopUpstream
  <2>1. /\ upstream' = FALSE /\ UNCHANGED <<pc, newState, fStopRequested>>
        /\ UNCHANGED <<fNReceived, fNOutput, drained, current, input, produced, run>>
        /\ UNCHANGED <<splitter, merger, working, file, alive, joinable, fWorker>>
    BY <1>3 DEF StopUpstream, device, stops, threads, writing
  <2>2. InputOK'
    BY <2>1 DEF Types, InputOK
  <2> QED BY <2>1, <2>2, Unchanged DEF Types
<1> QED BY <1>1, <1>2, <1>3

(* The life cycle of the device keeps the types. *)
LifeCycle == BeginPostRun \/ Join \/ DrainOne \/ EndPostRun \/ CloseFile \/ InitTask

(* PreRun starts the threads and empties their channels, or is skipped. *)
LEMMA TypesPreRun == Types /\ PreRun => Types'
<1> SUFFICES ASSUME Types, PreRun PROVE Types'
  OBVIOUS
<1>1. /\ pc = "ready" /\ run < MaxRuns /\ pc' = "idle" /\ upstream' = TRUE /\ run' = run + 1
      /\ UNCHANGED <<newState, fStopRequested, current, drained, input, produced>>
  BY DEF PreRun, stops
<1>2. ControlOK' /\ InputOK' /\ CurrentOK'
  <2>1. ControlOK'
    BY <1>1 DEF Types, ControlOK
  <2>2. InputOK'
    BY <1>1, Constants DEF Types, InputOK
  <2>3. CurrentOK'
    BY <1>1 DEF Types, CurrentOK
  <2> QED BY <2>1, <2>2, <2>3
<1>3. CASE fStopRequested
  <2>1. UNCHANGED <<fNReceived, splitter, merger, working, fNOutput, alive, joinable, fWorker, file>>
    BY <1>3 DEF PreRun, threads, writing
  <2>2. ThreadsOK'
    BY <1>1, <2>1 DEF Types, ThreadsOK
  <2> QED BY <1>1, <1>2, <2>1, <2>2, Unchanged DEF Types
<1>4. CASE ~fStopRequested
  <2>1. /\ fNReceived' = 0 /\ fNOutput' = 0 /\ file' = <<Header>>
        /\ splitter' = [w \in Workers |-> <<>>] /\ merger' = [w \in Workers |-> <<>>]
        /\ working' = [w \in Workers |-> None]
        /\ alive' = IF fWorker THEN Workers \union {Merger} ELSE {}
        /\ joinable' = fWorker /\ UNCHANGED fWorker
    BY <1>4 DEF PreRun
  <2>2. CountersOK'
    BY <1>1, <2>1 DEF Types, CountersOK
  <2>3. ChannelsOK'
    BY <2>1 DEF ChannelsOK
  <2>4. FileOK'
    BY <2>1, Kinds DEF FileOK
  <2>5. ThreadsOK'
    <3>1. fWorker' \in BOOLEAN
      BY <2>1 DEF Types, ThreadsOK
    <3>2. CASE fWorker
      <4>1. joinable' = TRUE
        BY <2>1, <3>1, <3>2, Zenon
      <4>2. alive' = Workers \union {Merger}
        BY <2>1, <3>2
      <4> QED BY <1>1, <1>4, <2>1, <3>1, <3>2, <4>1, <4>2 DEF ThreadsOK
    <3>3. CASE ~fWorker
      <4>1. ~joinable'
        BY <2>1, <3>3
      <4>2. alive' = {}
        BY <2>1, <3>3
      <4> QED BY <1>1, <3>1, <4>1, <4>2 DEF ThreadsOK
    <3> QED BY <3>2, <3>3
  <2> QED BY <1>2, <2>2, <2>3, <2>4, <2>5 DEF Types
<1> QED BY <1>3, <1>4

(* The rest of the life cycle keeps the types; no thread is left behind Join. *)
LEMMA TypesLifeCycle == Types /\ LifeCycle => Types'
<1> SUFFICES ASSUME Types, LifeCycle PROVE Types'
  OBVIOUS
<1>1. CASE BeginPostRun
  <2>1. /\ pc = "idle" /\ UNCHANGED <<fStopRequested, fNReceived, current, drained>>
        /\ fStopRequested => pc' = "ready" /\ newState' = FALSE
        /\ ~fStopRequested => pc' = "join" /\ UNCHANGED newState
        /\ UNCHANGED <<splitter, merger, working, fNOutput, alive, joinable, fWorker, file>>
        /\ UNCHANGED <<input, produced, upstream, run>>
    BY <1>1 DEF BeginPostRun, threads, writing, source
  <2>2. newState' \in BOOLEAN
    BY <2>1, Zenon DEF Types, ControlOK
  <2>3. ControlOK'
    BY <2>1, <2>2 DEF Types, ControlOK
  <2>4. CurrentOK' /\ ThreadsOK'
    BY <2>1 DEF Types, CurrentOK, ThreadsOK, ControlOK
  <2> QED BY <2>1, <2>3, <2>4, Unchanged DEF Types
<1>2. CASE Join
  <2>1. /\ pc = "join" /\ alive = {} /\ pc' = "drain" /\ drained' = 0 /\ joinable' = FALSE
        /\ UNCHANGED <<newState, fStopRequested, fNReceived, current>>
        /\ UNCHANGED <<splitter, merger, working, fNOutput, alive, fWorker, file, input, produced, upstream, run>>
    BY <1>2 DEF Join, stops, writing, source
  <2>2. ControlOK' /\ CountersOK' /\ CurrentOK'
    BY <2>1 DEF Types, ControlOK, CountersOK, CurrentOK
  <2>3. ThreadsOK'
    BY <2>1 DEF Types, ThreadsOK
  <2> QED BY <2>1, <2>2, <2>3, Unchanged DEF Types
<1>3. CASE DrainOne
  <2>1. /\ input # <<>> /\ input' = Tail(input) /\ drained' = drained + 1
        /\ UNCHANGED <<pc, newState, fStopRequested, fNReceived, current>>
        /\ UNCHANGED <<splitter, merger, working, fNOutput, alive, joinable, fWorker, file, produced, upstream, run>>
    BY <1>3 DEF DrainOne, stops, threads, writing
  <2>2. CountersOK' /\ InputOK'
    <3>1. input' \in Seq(Messages)
      BY <2>1, Parts DEF Types, InputOK
    <3> QED BY <2>1, <3>1 DEF Types, CountersOK, InputOK
  <2> QED BY <2>1, <2>2, Unchanged DEF Types
<1>4. CASE EndPostRun
  <2>1. /\ pc = "drain" /\ pc' = "report" /\ file' = Append(file, Trailer)
        /\ UNCHANGED <<newState, fStopRequested, fNReceived, current, drained>>
        /\ UNCHANGED <<splitter, merger, working, fNOutput, alive, joinable, fWorker, input, produced, upstream, run>>
    BY <1>4 DEF EndPostRun, Put, stops, threads, source
  <2>2. ControlOK' /\ CurrentOK' /\ ThreadsOK'
    BY <2>1 DEF Types, ControlOK, CurrentOK, ThreadsOK
  <2>3. FileOK'
    BY <2>1, Kinds DEF Types, FileOK
  <2> QED BY <2>1, <2>2, <2>3, Unchanged DEF Types
<1>5. CASE CloseFile
  <2>1. /\ pc = "report" /\ pc' = "ready" /\ newState' = FALSE
        /\ UNCHANGED <<fStopRequested, fNReceived, current, drained, file>>
        /\ UNCHANGED <<splitter, merger, working, fNOutput, alive, joinable, fWorker, input, produced, upstream, run>>
    BY <1>5 DEF CloseFile, threads, source
  <2>2. newState' \in BOOLEAN
    BY <2>1, Zenon
  <2>3. ControlOK' /\ CurrentOK' /\ ThreadsOK'
    BY <2>1, <2>2 DEF Types, ControlOK, CurrentOK, ThreadsOK
  <2> QED BY <2>1, <2>3, Unchanged DEF Types
<1>6. CASE InitTask
  <2>1. /\ pc = "ready" /\ fStopRequested' = FALSE
        /\ joinable => pc' = "terminated" /\ alive' = {}
        /\ ~joinable => UNCHANGED <<pc, alive>>
        /\ UNCHANGED <<newState, fNReceived, current, drained, file, joinable>> /\ fWorker' \in BOOLEAN
        /\ UNCHANGED <<splitter, merger, working, fNOutput, input, produced, upstream, run>>
    BY <1>6, Constants DEF InitTask, source
  <2>2. fStopRequested' \in BOOLEAN
    BY <2>1, Zenon
  <2>3. ControlOK' /\ CurrentOK'
    BY <2>1, <2>2 DEF Types, ControlOK, CurrentOK
  <2>4. ThreadsOK'
    BY <2>1 DEF Types, ThreadsOK
  <2> QED BY <2>1, <2>3, <2>4, Unchanged DEF Types
<1> QED BY <1>1, <1>2, <1>3, <1>4, <1>5, <1>6 DEF LifeCycle

(* The handler, when it takes a message, gives up or begins to deal it out or to send a copy of it. *)
LEMMA HandleFacts ==
  ASSUME Types, Handle
  PROVE  /\ pc = "idle" /\ ~newState /\ input # <<>> /\ input' = Tail(input)
         /\ UNCHANGED <<drained, produced, upstream, run, fStopRequested, file>>
         /\ UNCHANGED <<splitter, merger, working, fNOutput, alive, joinable, fWorker>>
         /\ Head(input) \in Messages /\ Tail(input) \in Seq(Messages)
         /\ fStopRequested => newState' = TRUE /\ UNCHANGED <<pc, fNReceived, current>>
         /\ ~fStopRequested =>
              fNReceived' = fNReceived + 1 /\ current' = Head(input) /\ UNCHANGED newState
         /\ ~fStopRequested /\ fWorker => pc' = "split"
         /\ ~fStopRequested /\ ~fWorker => pc' = "copy"
<1>1. /\ pc = "idle" /\ ~newState /\ input # <<>> /\ input' = Tail(input)
      /\ UNCHANGED <<drained, produced, upstream, run, fStopRequested, file>>
      /\ UNCHANGED <<splitter, merger, working, fNOutput, alive, joinable, fWorker>>
  BY DEF Handle, threads, writing
<1>2. Head(input) \in Messages /\ Tail(input) \in Seq(Messages)
  BY <1>1, Parts DEF Types, InputOK
<1>3. CASE fStopRequested
  BY <1>1, <1>2, <1>3 DEF Handle, ReturnFalse
<1>4. CASE ~fStopRequested
  BY <1>1, <1>2, <1>4 DEF Handle
<1> QED BY <1>3, <1>4

(* The handler keeps the types. *)
LEMMA TypesHandle == Types /\ Handle => Types'
<1> SUFFICES ASSUME Types, Handle PROVE Types'
  OBVIOUS
<1>1. /\ InputOK' /\ FileOK'
      /\ UNCHANGED <<splitter, merger, working, fNOutput, alive, joinable, fWorker, drained, fStopRequested>>
  <2>1. /\ input' \in Seq(Messages) /\ UNCHANGED <<produced, upstream, run, file>>
        /\ UNCHANGED <<splitter, merger, working, fNOutput, alive, joinable, fWorker, drained, fStopRequested>>
    BY HandleFacts
  <2> QED BY <2>1 DEF Types, InputOK, FileOK
<1>2. ChannelsOK'
  BY <1>1, Unchanged
<1>3. CASE fStopRequested
  <2>1. newState' \in BOOLEAN
    BY <1>3, HandleFacts, Zenon
  <2>2. ControlOK' /\ UNCHANGED <<pc, fStopRequested, fNReceived, current>>
    BY <1>3, <2>1, HandleFacts DEF Types, ControlOK
  <2> QED BY <1>1, <1>2, <2>2, Unchanged DEF Types
<1>4. CASE ~fStopRequested
  <2>1. /\ fNReceived' = fNReceived + 1 /\ current' = Head(input) /\ pc = "idle"
        /\ fWorker => pc' = "split"
        /\ ~fWorker => pc' = "copy"
        /\ UNCHANGED newState /\ Head(input) \in Messages
    BY <1>4, HandleFacts
  <2>2. ControlOK' /\ CountersOK'
    BY <1>1, <2>1 DEF Types, ControlOK, CountersOK
  <2>3. CurrentOK'
    BY <1>4, <2>1 DEF Types, CountersOK, CurrentOK
  <2>4. ThreadsOK'
    BY <1>1, <1>4, <2>1 DEF Types, ThreadsOK
  <2> QED BY <1>1, <1>2, <2>2, <2>3, <2>4 DEF Types
<1> QED BY <1>3, <1>4

(* Without worker threads nobody but the handler writes. *)
LEMMA NoThreads == Types /\ ~fWorker /\ ~fStopRequested => alive = {}
BY DEF Types, ThreadsOK

(* The handler writes the message of which it has sent a copy. *)
Copies == CopyEnds \/ CopySent

(* What it writes, and what it leaves alone. *)
LEMMA CopyFacts ==
  ASSUME Types, Copies
  PROVE  /\ pc = "copy" /\ current \in Messages /\ ~fStopRequested /\ ~fWorker /\ alive = {}
         /\ WriteData(current) /\ file' = Append(file, current) /\ current' = None /\ pc' = "idle"
         /\ fStopRequested' \in BOOLEAN /\ newState' \in BOOLEAN
         /\ MaxIteration = 0 => fStopRequested' = FALSE
         /\ UNCHANGED <<fNReceived, drained, input, produced, upstream, run>>
         /\ UNCHANGED <<splitter, merger, working, fNOutput, alive, joinable, fWorker>>
<1>1. WriteCurrent
  BY DEF Copies, CopyEnds, CopySent
<1>2. /\ pc = "copy" /\ WriteData(current) /\ current' = None
      /\ IF fStopRequested' THEN ReturnFalse ELSE pc' = "idle" /\ UNCHANGED newState
      /\ UNCHANGED <<fNReceived, drained, input, produced, upstream, run>>
      /\ UNCHANGED <<splitter, merger, working, fNOutput, alive, joinable, fWorker>>
  BY <1>1 DEF WriteCurrent, threads, source
<1>3. current \in Messages /\ ~fStopRequested /\ ~fWorker /\ alive = {}
  BY <1>2, NoThreads DEF Types, CurrentOK, ThreadsOK
<1>4. /\ file' = Append(file, current) /\ fStopRequested' \in BOOLEAN
      /\ MaxIteration = 0 => fStopRequested' = FALSE
  BY <1>2, <1>3, WriteFacts
<1>5. pc' = "idle" /\ (newState' = TRUE \/ newState' = newState)
  BY <1>2 DEF ReturnFalse
<1>6. newState' \in BOOLEAN
  BY <1>5, Zenon DEF Types, ControlOK
<1> QED BY <1>2, <1>3, <1>4, <1>5, <1>6

(* The write keeps the types. *)
LEMMA TypesCopies == Types /\ Copies => Types'
<1> SUFFICES ASSUME Types, Copies PROVE Types'
  OBVIOUS
<1>1. /\ pc = "copy" /\ pc' = "idle" /\ current \in Messages /\ current' = None /\ ~fWorker /\ alive = {}
      /\ file' = Append(file, current) /\ fStopRequested' \in BOOLEAN /\ newState' \in BOOLEAN
      /\ ~fStopRequested
      /\ UNCHANGED <<fNReceived, drained, input, produced, upstream, run>>
      /\ UNCHANGED <<splitter, merger, working, fNOutput, alive, joinable, fWorker>>
  BY CopyFacts
<1>2. ControlOK' /\ CurrentOK'
  BY <1>1 DEF Types, ControlOK, CurrentOK
<1>3. FileOK'
  BY <1>1, Kinds DEF Types, FileOK
<1>4. ThreadsOK'
  BY <1>1 DEF Types, ThreadsOK
<1> QED BY <1>1, <1>2, <1>3, <1>4, Unchanged DEF Types

(* A message on its way to a worker, or given up. *)
LEMMA SplitFacts ==
  ASSUME Types, SplitSend \/ SplitInterrupted
  PROVE  /\ pc = "split" /\ current \in Messages /\ current' = None /\ pc' = "idle" /\ Turn \in Workers
         /\ UNCHANGED <<fNReceived, drained, fStopRequested, merger, working, fNOutput, alive, joinable, fWorker>>
         /\ UNCHANGED <<file, input, produced, upstream, run>>
         /\ SplitSend => splitter' = [splitter EXCEPT ![Turn] = Append(@, current)] /\ UNCHANGED newState
         /\ SplitInterrupted => UNCHANGED splitter /\ newState' = TRUE
<1>1. pc = "split"
  BY DEF SplitSend, SplitInterrupted
<1>2. current \in Messages /\ fNReceived - 1 \in Nat /\ NThreads \in Nat \ {0}
  BY <1>1, Constants DEF Types, CurrentOK, CountersOK
<1>3. Turn \in Workers
  BY <1>2 DEF Turn, Workers
<1>4. CASE SplitSend /\ ~SplitInterrupted
  BY <1>1, <1>2, <1>3, <1>4 DEF SplitSend, stops, writing, source
<1>5. CASE SplitInterrupted
  <2>1. ~(SplitSend)
    <3>1. splitter[Turn] \in Seq(Messages) /\ QueueLength \in Nat
      BY <1>3, Constants DEF Types, ChannelsOK
    <3>2. Len(splitter[Turn]) \in Nat
      BY <3>1
    <3> QED BY <1>5, <3>1, <3>2 DEF SplitSend, SplitInterrupted
  <2> QED BY <1>1, <1>2, <1>3, <1>5, <2>1 DEF SplitInterrupted, ReturnFalse, threads, writing, source
<1> QED BY <1>4, <1>5

(* The send to a worker keeps the types. *)
LEMMA TypesSplit == Types /\ (SplitSend \/ SplitInterrupted) => Types'
<1> SUFFICES ASSUME Types, SplitSend \/ SplitInterrupted PROVE Types'
  OBVIOUS
<1>1. /\ current' = None /\ pc' = "idle" /\ pc = "split" /\ Turn \in Workers /\ current \in Messages
      /\ UNCHANGED <<fNReceived, drained, fStopRequested, merger, working, fNOutput, alive, joinable, fWorker>>
      /\ UNCHANGED <<file, input, produced, upstream, run>>
  BY SplitFacts
<1>2. newState' \in BOOLEAN
  <2>1. newState' = TRUE \/ newState' = newState
    BY SplitFacts
  <2>2. newState \in BOOLEAN
    BY DEF Types, ControlOK
  <2> QED BY <2>1, <2>2, Zenon
<1>3. ControlOK' /\ CurrentOK' /\ ThreadsOK'
  BY <1>1, <1>2 DEF Types, ControlOK, CurrentOK, ThreadsOK
<1>4. ChannelsOK'
  <2>1. CASE SplitSend
    <3>1. splitter' = [splitter EXCEPT ![Turn] = Append(@, current)]
      BY <2>1, SplitFacts
    <3> QED BY <1>1, <3>1 DEF Types, ChannelsOK
  <2>2. CASE SplitInterrupted
    BY <1>1, <2>2, SplitFacts DEF Types, ChannelsOK
  <2> QED BY <2>1, <2>2
<1> QED BY <1>1, <1>3, <1>4, Unchanged DEF Types

(* A worker touches its own channels only. *)
LEMMA WorkerFacts ==
  ASSUME Types, NEW w \in Workers, Worker(w)
  PROVE  /\ UNCHANGED <<pc, newState, fStopRequested, fNReceived, current, drained, fNOutput>>
         /\ UNCHANGED <<joinable, fWorker>>
         /\ UNCHANGED <<file, input, produced, upstream, run>>
         /\ alive' \subseteq alive /\ (Merger \in alive => Merger \in alive')
         /\ ChannelsOK'
<1>1. merger[w] \in Seq(Messages) /\ splitter[w] \in Seq(Messages) /\ working[w] \in Messages \union {None}
  BY DEF Types, ChannelsOK
<1>2. w # Merger
  BY Constants DEF Workers, Merger
<1>3. CASE WorkerReceive(w)
  <2>1. splitter[w] # <<>>
    BY <1>3 DEF WorkerReceive
  <2>2. Head(splitter[w]) \in Messages /\ Tail(splitter[w]) \in Seq(Messages)
    BY <1>1, <2>1, Parts
  <2> QED BY <1>3, <2>2 DEF WorkerReceive, Types, ChannelsOK, device, stops, writing, source
<1>4. CASE WorkerSend(w)
  BY <1>1, <1>4 DEF WorkerSend, Types, ChannelsOK, device, stops, writing, source
<1>5. CASE WorkerSendTimesOut(w)
  BY <1>5 DEF WorkerSendTimesOut, Types, ChannelsOK, device, stops, writing, source
<1>6. CASE WorkerEnds(w)
  BY <1>2, <1>6 DEF WorkerEnds, Types, ChannelsOK, device, stops, writing, source
<1> QED BY <1>3, <1>4, <1>5, <1>6 DEF Worker

(* The workers keep the types. *)
LEMMA TypesWorker == Types /\ (\E w \in Workers : Worker(w)) => Types'
<1> SUFFICES ASSUME Types, NEW w \in Workers, Worker(w) PROVE Types'
  OBVIOUS
<1>1. ThreadsOK'
  BY WorkerFacts DEF Types, ThreadsOK
<1> QED BY <1>1, WorkerFacts, Unchanged DEF Types

(* The merger takes from the worker whose turn it is. *)
MergeTurn == fNOutput % NThreads

(* What it takes is written, unless a stop was requested. *)
LEMMA MergeFacts ==
  ASSUME Types, Merge
  PROVE  /\ Merger \in alive /\ MergeTurn \in Workers /\ NThreads \in Nat \ {0}
         /\ merger[MergeTurn] # <<>> /\ Head(merger[MergeTurn]) \in Messages
         /\ merger' = [merger EXCEPT ![MergeTurn] = Tail(@)] /\ WriteData(Head(merger[MergeTurn]))
         /\ fNOutput' = fNOutput + 1
         /\ UNCHANGED <<pc, newState, fNReceived, current, drained, splitter, working, alive, joinable, fWorker>>
         /\ UNCHANGED <<input, produced, upstream, run>>
<1>1. /\ Merger \in alive /\ merger[MergeTurn] # <<>> /\ WriteData(Head(merger[MergeTurn]))
      /\ merger' = [merger EXCEPT ![MergeTurn] = Tail(@)] /\ fNOutput' = fNOutput + 1
      /\ UNCHANGED <<pc, newState, fNReceived, current, drained, splitter, working, alive, joinable, fWorker>>
      /\ UNCHANGED <<input, produced, upstream, run>>
  BY DEF Merge, MergeTurn, device, source
<1>2. NThreads \in Nat \ {0}
  BY <1>1, Constants DEF Types, ThreadsOK
<1>3. MergeTurn \in Workers
  BY <1>2 DEF Types, CountersOK, MergeTurn, Workers
<1>4. Head(merger[MergeTurn]) \in Messages
  BY <1>1, <1>3, Parts DEF Types, ChannelsOK
<1> QED BY <1>1, <1>2, <1>3, <1>4

(* The merger keeps the types. *)
LEMMA TypesMerger == Types /\ MergerThread => Types'
<1> SUFFICES ASSUME Types, MergerThread PROVE Types'
  OBVIOUS
<1>1. CASE Merge
  <2> DEFINE w == MergeTurn
  <2>1. /\ Merger \in alive /\ w \in Workers /\ merger[w] # <<>> /\ Head(merger[w]) \in Messages
        /\ merger' = [merger EXCEPT ![w] = Tail(@)] /\ WriteData(Head(merger[w])) /\ fNOutput' = fNOutput + 1
        /\ UNCHANGED <<pc, newState, fNReceived, current, drained, splitter, working, alive, joinable, fWorker>>
        /\ UNCHANGED <<input, produced, upstream, run>>
    BY <1>1, MergeFacts
  <2> HIDE DEF w
  <2>2. ChannelsOK'
    <3>1. Tail(merger[w]) \in Seq(Messages)
      BY <2>1, Parts DEF Types, ChannelsOK
    <3> QED BY <2>1, <3>1 DEF Types, ChannelsOK
  <2>3. CountersOK'
    BY <2>1 DEF Types, CountersOK
  <2>4. CASE fStopRequested
    <3>1. UNCHANGED <<file, fStopRequested>>
      BY <2>1, <2>4, WriteFacts
    <3> QED BY <2>1, <2>2, <2>3, <3>1, Unchanged DEF Types
  <2>5. CASE ~fStopRequested
    <3>1. file' = Append(file, Head(merger[w])) /\ fStopRequested' \in BOOLEAN
      BY <2>1, <2>5, WriteFacts
    <3>2. FileOK'
      BY <2>1, <3>1, Kinds DEF Types, FileOK
    <3>3. ControlOK'
      BY <2>1, <3>1 DEF Types, ControlOK
    <3>4. ThreadsOK'
      BY <2>1, <2>5 DEF Types, ThreadsOK
    <3> QED BY <2>1, <2>2, <2>3, <3>2, <3>3, <3>4, Unchanged DEF Types
  <2> QED BY <2>4, <2>5
<1>2. CASE MergerEnds
  <2>1. /\ alive' = alive \ {Merger}
        /\ UNCHANGED <<pc, newState, fStopRequested, fNReceived, current, drained, fNOutput>>
        /\ UNCHANGED <<joinable, fWorker>>
        /\ UNCHANGED <<splitter, merger, working, file, input, produced, upstream, run>>
    BY <1>2 DEF MergerEnds, device, stops, writing, source
  <2>2. ThreadsOK'
    BY <2>1 DEF Types, ThreadsOK
  <2> QED BY <2>1, <2>2, Unchanged DEF Types
<1> QED BY <1>1, <1>2 DEF MergerThread

(* The steps, in the groups in which they are treated. *)
LEMMA Steps ==
  [Next]_vars =>
    \/ Deliver \/ RequestStop \/ StopUpstream \/ PreRun \/ LifeCycle \/ Handle \/ Copies
    \/ SplitSend \/ SplitInterrupted \/ (\E w \in Workers : Worker(w)) \/ MergerThread
    \/ UNCHANGED vars
BY DEF Next, DeviceThread, LifeCycle, Copies

(* Every step keeps the types. *)
LEMMA TypesNext == Types /\ [Next]_vars => Types'
<1> SUFFICES ASSUME Types, [Next]_vars PROVE Types'
  OBVIOUS
<1>1. CASE UNCHANGED vars
  <2>1. /\ UNCHANGED <<pc, newState, fStopRequested, fNReceived, fNOutput, drained, current>>
        /\ UNCHANGED <<splitter, merger, working, input, produced, run, upstream, file, alive, joinable, fWorker>>
    BY <1>1 DEF vars, device, stops, threads, writing, source
  <2> QED BY <2>1, Unchanged DEF Types
<1> QED BY <1>1, Steps, TypesAround, TypesPreRun, TypesLifeCycle, TypesHandle, TypesCopies, TypesSplit, TypesWorker,
          TypesMerger

-----------------------------------------------------------------------------
(* A file with one item more. *)
LEMMA LongerFile ==
  ASSUME Types, NEW x \in Items, file' = Append(file, x)
  PROVE  /\ Len(file) \in Nat /\ Len(file') = Len(file) + 1 /\ file'[Len(file) + 1] = x
         /\ \A i \in 1 .. Len(file) : file'[i] = file[i]
BY DEF Types, FileOK

(* The header, as the first and only item, and nothing: what a run begins with. *)
LEMMA NewFileFacts == Len(<<Header>>) = 1 /\ <<Header>>[1] = Header /\ Len(<<>>) = 0
OBVIOUS

(* Before the first run there is no file. *)
LEMMA FramingInit == Init => Framing
<1> SUFFICES ASSUME Init PROVE Framing
  OBVIOUS
<1>1. pc = "ready" /\ fStopRequested = FALSE /\ run = 0
  BY DEF Init
<1> QED BY <1>1 DEF Framing

(* A message at the end of the file keeps it framed while the run goes on. *)
LEMMA FramingMessage ==
  ASSUME Types, Framing, NEW m \in Messages, file' = Append(file, m), ~fStopRequested',
         pc \in {"idle", "split", "copy", "join"}, pc' \in {"idle", "split", "copy", "join"}, UNCHANGED run
  PROVE  Framing'
<1>1. run > 0 /\ Len(file) >= 1 /\ file[1] = Header /\ \A i \in 2 .. Len(file) : IsMessage(i)
  BY DEF Framing
<1>2. m \in Items /\ m \notin {Header, Trailer}
  BY Kinds
<1>3. /\ Len(file) \in Nat /\ Len(file') = Len(file) + 1 /\ file'[Len(file) + 1] = m
      /\ \A i \in 1 .. Len(file) : file'[i] = file[i]
  BY <1>2, LongerFile
<1>4. ASSUME NEW i \in 2 .. Len(file') PROVE file'[i] \notin {Header, Trailer}
  <2>1. CASE i = Len(file) + 1
    BY <1>2, <1>3, <2>1
  <2>2. CASE i # Len(file) + 1
    <3>1. i \in 2 .. Len(file) /\ i \in 1 .. Len(file)
      BY <1>3, <2>2
    <3> QED BY <1>1, <1>3, <3>1 DEF IsMessage
  <2> QED BY <2>1, <2>2
<1>5. Len(file') >= 1 /\ file'[1] = Header
  BY <1>1, <1>3
<1> QED BY <1>1, <1>4, <1>5 DEF Framing, IsMessage

(* A step that leaves the file alone keeps it framed if the run goes on or the file was done. *)
LEMMA FramingSameFile ==
  ASSUME Framing, ~fStopRequested', UNCHANGED file, UNCHANGED run,
         \/ UNCHANGED pc
         \/ pc \in {"idle", "split", "copy", "join"} /\ pc' \in {"idle", "split", "copy", "join", "drain"}
         \/ pc = "report" /\ pc' = "ready"
  PROVE  Framing'
BY DEF Framing, IsMessage

(* Every step keeps the file framed, without a limit on the writes. *)
LEMMA FramingNext == MaxIteration = 0 /\ Types /\ Framing /\ [Next]_vars => Framing'
<1> SUFFICES ASSUME MaxIteration = 0, Types, Framing, [Next]_vars PROVE Framing'
  OBVIOUS
<1>0. ~fStopRequested
  BY DEF Framing
<1>1. CASE Deliver \/ RequestStop \/ StopUpstream \/ UNCHANGED vars
  BY <1>0, <1>1, FramingSameFile
     DEF Deliver, RequestStop, StopUpstream, vars, device, stops, writing, source
<1>2. CASE PreRun
  <2>1. pc' = "idle" /\ run' = run + 1 /\ file' = <<Header>> /\ UNCHANGED fStopRequested
    BY <1>0, <1>2 DEF PreRun, stops
  <2>2. run' > 0
    BY <2>1 DEF Types, InputOK
  <2>3. Len(file') = 1 /\ file'[1] = Header
    BY <2>1, NewFileFacts
  <2> QED BY <1>0, <2>1, <2>2, <2>3 DEF Framing
<1>3. CASE LifeCycle
  <2>1. CASE BeginPostRun \/ Join \/ DrainOne \/ CloseFile
    <3>1. UNCHANGED fStopRequested /\ UNCHANGED file /\ UNCHANGED run
      BY <2>1 DEF BeginPostRun, Join, DrainOne, CloseFile, stops, writing, source
    <3>2. \/ UNCHANGED pc
          \/ pc \in {"idle", "split", "copy", "join"} /\ pc' \in {"idle", "split", "copy", "join", "drain"}
          \/ pc = "report" /\ pc' = "ready"
      BY <1>0, <2>1 DEF BeginPostRun, Join, DrainOne, CloseFile
    <3> QED BY <1>0, <3>1, <3>2, FramingSameFile
  <2>2. CASE EndPostRun
    <3>1. pc = "drain" /\ pc' = "report" /\ file' = Append(file, Trailer) /\ UNCHANGED fStopRequested
          /\ UNCHANGED run
      BY <2>2 DEF EndPostRun, Put, stops, source
    <3>2. run > 0 /\ Len(file) >= 1 /\ file[1] = Header /\ \A i \in 2 .. Len(file) : IsMessage(i)
      BY <3>1 DEF Framing
    <3>3. /\ Len(file) \in Nat /\ Len(file') = Len(file) + 1 /\ file'[Len(file) + 1] = Trailer
          /\ \A i \in 1 .. Len(file) : file'[i] = file[i]
      BY <3>1, Kinds, LongerFile
    <3>4. /\ Len(file') >= 2 /\ file'[Len(file')] = Trailer /\ file'[1] = Header
          /\ Len(file') - 1 = Len(file)
      BY <3>2, <3>3
    <3>5. \A i \in 2 .. Len(file') - 1 : file'[i] \notin {Header, Trailer}
      <4> SUFFICES ASSUME NEW i \in 2 .. Len(file') - 1 PROVE file'[i] \notin {Header, Trailer}
        OBVIOUS
      <4>1. i \in 2 .. Len(file) /\ i \in 1 .. Len(file)
        BY <3>4, <3>3
      <4> QED BY <3>2, <3>3, <4>1 DEF IsMessage
    <3>6. Len(file') >= 1
      BY <3>3
    <3> QED BY <1>0, <3>1, <3>2, <3>4, <3>5, <3>6 DEF Framing, IsMessage
  <2>3. CASE InitTask
    <3>1. pc = "ready" /\ fStopRequested' = FALSE /\ UNCHANGED file /\ UNCHANGED run
      BY <2>3 DEF InitTask, source
    <3>2. UNCHANGED pc
      BY <1>0, <2>3, <3>1 DEF InitTask, Types, ThreadsOK
    <3> QED BY <3>1, <3>2, FramingSameFile
  <2> QED BY <1>3, <2>1, <2>2, <2>3 DEF LifeCycle
<1>4. CASE Handle
  <2>1. pc = "idle" /\ pc' \in {"split", "copy"} /\ UNCHANGED <<fStopRequested, file, run>>
    BY <1>0, <1>4, HandleFacts
  <2> QED BY <1>0, <2>1, FramingSameFile
<1>8. CASE Copies
  <2>1. /\ pc = "copy" /\ pc' = "idle" /\ file' = Append(file, current) /\ current \in Messages
        /\ fStopRequested' = FALSE /\ UNCHANGED run
    BY <1>8, CopyFacts
  <2> QED BY <2>1, FramingMessage
<1>5. CASE SplitSend \/ SplitInterrupted
  <2>1. pc = "split" /\ pc' = "idle" /\ UNCHANGED <<fStopRequested, file, run>>
    BY <1>5, SplitFacts
  <2> QED BY <1>0, <2>1, FramingSameFile
<1>6. CASE \E w \in Workers : Worker(w)
  <2>1. UNCHANGED <<pc, fStopRequested, file, run>>
    BY <1>6, WorkerFacts
  <2> QED BY <1>0, <2>1, FramingSameFile
<1>7. CASE MergerThread
  <2>1. CASE Merge
    <3>1. /\ Merger \in alive /\ WriteData(Head(merger[MergeTurn])) /\ Head(merger[MergeTurn]) \in Messages
          /\ UNCHANGED <<pc, run>>
      BY <2>1, MergeFacts
    <3>2. file' = Append(file, Head(merger[MergeTurn])) /\ fStopRequested' = FALSE
      BY <1>0, <3>1, WriteFacts
    <3>3. pc \in {"idle", "split", "copy", "join"}
      BY <1>0, <3>1 DEF Types, ControlOK, ThreadsOK
    <3> QED BY <3>1, <3>2, <3>3, FramingMessage
  <2>2. CASE MergerEnds
    BY <1>0, <2>2, FramingSameFile DEF MergerEnds, device, stops, writing, source
  <2> QED BY <1>7, <2>1, <2>2 DEF MergerThread
<1> QED BY <1>1, <1>2, <1>3, <1>4, <1>5, <1>6, <1>7, <1>8, Steps

(* Without a limit on the writes, the file of a run that is over begins with the header, ends with *)
(* the trailer, has nothing but messages between them, and no thread is left to write to it (PreRun, *)
(* PostRun, WriteData): the threads are joined before the trailer is written. *)
THEOREM FramedWithoutLimit == ASSUME MaxIteration = 0 PROVE Spec => []FileIsFramed
<1> DEFINE Inv == MaxIteration = 0 => Framing
<1>1. Types /\ Inv => FileIsFramed
  BY DEF Types, ThreadsOK, Framing, FileIsFramed
<1>2. Init => Inv
  BY FramingInit
<1>3. Types /\ Inv /\ [Next]_vars => Inv'
  BY FramingNext
<1> HIDE DEF Inv
<1> QED BY <1>1, <1>2, <1>3, TypesInit, TypesNext, PTL DEF Spec

-----------------------------------------------------------------------------
(* Moving a message along its pipe does not change the pipe. *)
LEMMA Received ==
  ASSUME NEW S, NEW a \in Seq(S), NEW s \in Seq(S), s # <<>>
  PROVE  (a \o <<Head(s)>>) \o Tail(s) = (a \o <<>>) \o s
<1>1. Head(s) \in S /\ Tail(s) \in Seq(S) /\ <<Head(s)>> \o Tail(s) = s
  OBVIOUS
<1>2. (a \o <<Head(s)>>) \o Tail(s) = a \o (<<Head(s)>> \o Tail(s))
  BY <1>1
<1>3. a \o <<>> = a
  OBVIOUS
<1> QED BY <1>1, <1>2, <1>3

(* What is at the end of a work list goes to the end of the merger's channel ... *)
LEMMA Passed ==
  ASSUME NEW S, NEW a \in Seq(S), NEW x \in S
  PROVE  Append(a, x) \o <<>> = a \o <<x>>
OBVIOUS

(* ... what is dealt out to the end of the splitter's channel ... *)
LEMMA Dealing ==
  ASSUME NEW S, NEW b \in Seq(S), NEW s \in Seq(S), NEW c \in S
  PROVE  (b \o Append(s, c)) \o <<>> = (b \o s) \o <<c>>
<1>1. Append(s, c) \in Seq(S) /\ Append(s, c) = s \o <<c>>
  OBVIOUS
<1>2. b \o (s \o <<c>>) = (b \o s) \o <<c>>
  OBVIOUS
<1>3. b \o Append(s, c) \in Seq(S)
  BY <1>1
<1>4. (b \o Append(s, c)) \o <<>> = b \o Append(s, c)
  BY <1>3
<1> QED BY <1>1, <1>2, <1>4

(* ... and what is taken from the first of two queues is taken from both together. *)
LEMMA Taken ==
  ASSUME NEW S, NEW a \in Seq(S), NEW b \in Seq(S), a # <<>>
  PROVE  a \o b # <<>> /\ Head(a \o b) = Head(a) /\ Tail(a \o b) = Tail(a) \o b /\ a \o b \in Seq(S)
         /\ Tail(a) \in Seq(S)
<1>1. a \o b # <<>> /\ Head(a \o b) = Head(a) /\ a \o b \in Seq(S) /\ Tail(a) \in Seq(S)
  OBVIOUS
<1>2. Tail(a \o b) = Tail(a) \o b
  <2>1. Len(Tail(a \o b)) = Len(Tail(a) \o b) /\ Tail(a \o b) \in Seq(S) /\ Tail(a) \o b \in Seq(S)
    OBVIOUS
  <2>2. ASSUME NEW i \in 1 .. Len(Tail(a \o b)) PROVE Tail(a \o b)[i] = (Tail(a) \o b)[i]
    OBVIOUS
  <2> QED BY <2>1, <2>2
<1> QED BY <1>1, <1>2

(* What stays when the first element is taken: Tail, behind a name of its own like Cat, so that *)
(* the provers leave it alone.                                                                  *)
Rest(s) == Tail(s)

(* ... and what is taken from the first of four queues in a row is taken from all of them. *)
LEMMA TakenOfFour ==
  ASSUME NEW a \in Seq(Messages), NEW b \in Seq(Messages), NEW c \in Seq(Messages),
         NEW d \in Seq(Messages), a # <<>>
  PROVE  LET all == Cat(Cat(Cat(a, b), c), d)
         IN  all # <<>> /\ Head(all) = Head(a) /\ Rest(all) = Cat(Cat(Cat(Rest(a), b), c), d)
<1>1. \A s, t \in Seq(Messages) : s # <<>> =>
         /\ Cat(s, t) # <<>> /\ Head(Cat(s, t)) = Head(s)
         /\ Rest(Cat(s, t)) = Cat(Rest(s), t) /\ Cat(s, t) \in Seq(Messages)
  BY Taken DEF Cat, Rest
<1>2. /\ Cat(a, b) # <<>> /\ Head(Cat(a, b)) = Head(a)
      /\ Rest(Cat(a, b)) = Cat(Rest(a), b) /\ Cat(a, b) \in Seq(Messages)
  BY <1>1
<1>3. /\ Cat(Cat(a, b), c) # <<>> /\ Head(Cat(Cat(a, b), c)) = Head(a)
      /\ Rest(Cat(Cat(a, b), c)) = Cat(Cat(Rest(a), b), c) /\ Cat(Cat(a, b), c) \in Seq(Messages)
  BY <1>1, <1>2
<1> QED BY <1>1, <1>3

(* What a pipe is made of. *)
LEMMA PipeParts ==
  ASSUME Types, NEW w \in Workers
  PROVE  /\ merger[w] \in Seq(Messages) /\ splitter[w] \in Seq(Messages)
         /\ working[w] \in Messages \union {None}
         /\ Work(w) \in Seq(Messages) /\ Dealt(w) \in Seq(Messages)
         /\ (merger[w] \o Work(w)) \o splitter[w] \in Seq(Messages) /\ Pipe(w) \in Seq(Messages)
<1>1. merger[w] \in Seq(Messages) /\ splitter[w] \in Seq(Messages) /\ working[w] \in Messages \union {None}
  BY DEF Types, ChannelsOK
<1>2. Work(w) \in Seq(Messages)
  BY <1>1 DEF Work
<1>3. Dealt(w) \in Seq(Messages)
  BY DEF Dealt, Types, CurrentOK
<1>4. (merger[w] \o Work(w)) \o splitter[w] \in Seq(Messages)
  BY <1>1, <1>2
<1>5. Pipe(w) \in Seq(Messages)
  BY <1>3, <1>4 DEF Pipe
<1> QED BY <1>1, <1>2, <1>3, <1>4, <1>5

(* The pipes do not change with what is outside of them. *)
LEMMA PipeUnchanged ==
  ASSUME UNCHANGED <<merger, working, splitter>>, NEW w,
         UNCHANGED <<pc, fNReceived, current>> \/ (pc # "split" /\ pc' # "split")
  PROVE  Pipe(w)' = Pipe(w)
BY DEF Pipe, Work, Dealt, Turn

(* A worker moves messages along its pipe, unless it is stopped or its send times out. *)
LEMMA PipeWorker ==
  ASSUME Types, NEW w \in Workers, Worker(w), Live, ~SlowWriter, NEW v \in Workers
  PROVE  Pipe(v)' = Pipe(v)
<1>0. UNCHANGED <<pc, fNReceived, current>> /\ Merger \in alive /\ ~fStopRequested
  BY WorkerFacts DEF Live
<1>1. Dealt(v)' = Dealt(v)
  BY <1>0 DEF Dealt, Turn
<1>2. /\ merger[w] \in Seq(Messages) /\ splitter[w] \in Seq(Messages)
      /\ working[w] \in Messages \union {None}
      /\ splitter \in [Workers -> Seq(Messages)] /\ merger \in [Workers -> Seq(Messages)]
      /\ working \in [Workers -> Messages \union {None}]
  BY DEF Types, ChannelsOK
<1>3. CASE WorkerReceive(w)
  <2>1. /\ working[w] = None /\ splitter[w] # <<>> /\ UNCHANGED merger
        /\ splitter' = [splitter EXCEPT ![w] = Tail(@)]
        /\ working' = [working EXCEPT ![w] = Head(splitter[w])]
    BY <1>0, <1>3 DEF WorkerReceive
  <2>2. CASE v = w
    <3>1. Head(splitter[w]) \in Messages
      BY <1>2, <2>1, Parts
    <3>2. splitter'[w] = Tail(splitter[w]) /\ working'[w] = Head(splitter[w])
      BY <1>2, <2>1
    <3>3. Work(w) = <<>> /\ Work(w)' = <<Head(splitter[w])>>
      BY <2>1, <3>1, <3>2, Kinds DEF Work
    <3>4. (merger[w] \o Work(w)') \o splitter'[w] = (merger[w] \o Work(w)) \o splitter[w]
      BY <1>2, <2>1, <3>2, <3>3, Received
    <3> QED BY <1>1, <2>1, <2>2, <3>4 DEF Pipe
  <2>3. CASE v # w
    BY <1>1, <1>2, <2>1, <2>3 DEF Pipe, Work
  <2> QED BY <2>2, <2>3
<1>4. CASE WorkerSend(w)
  <2>1. /\ working[w] # None /\ UNCHANGED splitter
        /\ merger' = [merger EXCEPT ![w] = Append(@, working[w])]
        /\ working' = [working EXCEPT ![w] = None]
    BY <1>4 DEF WorkerSend
  <2>2. CASE v = w
    <3>1. merger'[w] = Append(merger[w], working[w]) /\ working'[w] = None
      BY <1>2, <2>1
    <3>2. Work(w) = <<working[w]>> /\ Work(w)' = <<>> /\ working[w] \in Messages
      BY <1>2, <2>1, <3>1 DEF Work
    <3>3. merger'[w] \o Work(w)' = merger[w] \o Work(w)
      BY <1>2, <3>1, <3>2, Passed
    <3> QED BY <1>1, <2>1, <2>2, <3>3 DEF Pipe
  <2>3. CASE v # w
    BY <1>1, <1>2, <2>1, <2>3 DEF Pipe, Work
  <2> QED BY <2>2, <2>3
<1>5. CASE WorkerSendTimesOut(w)
  BY <1>0, <1>5 DEF WorkerSendTimesOut
<1>6. CASE WorkerEnds(w)
  <2>1. UNCHANGED <<splitter, working, merger>>
    BY <1>6 DEF WorkerEnds
  <2> QED BY <1>0, <2>1, PipeUnchanged
<1> QED BY <1>3, <1>4, <1>5, <1>6 DEF Worker

(* The handler gives the message to the worker: it stays the last in the pipe. *)
LEMMA PipeSplitSend ==
  ASSUME Types, SplitSend, NEW v \in Workers
  PROVE  Pipe(v)' = Pipe(v)
<1>1. /\ pc = "split" /\ current \in Messages /\ pc' = "idle" /\ Turn \in Workers
      /\ UNCHANGED <<merger, working>> /\ splitter' = [splitter EXCEPT ![Turn] = Append(@, current)]
  BY SplitFacts
<1>2. Dealt(v)' = <<>> /\ Work(v)' = Work(v)
  BY <1>1 DEF Dealt, Work
<1>3. CASE v = Turn
  <2>1. Dealt(v) = <<current>>
    BY <1>1, <1>3 DEF Dealt
  <2>2. splitter'[v] = Append(splitter[v], current)
    BY <1>1, <1>3 DEF Types, ChannelsOK
  <2> DEFINE b == merger[v] \o Work(v)
  <2>3. b \in Seq(Messages) /\ splitter[v] \in Seq(Messages)
    BY PipeParts
  <2>4. Pipe(v)' = (b \o splitter'[v]) \o <<>> /\ Pipe(v) = (b \o splitter[v]) \o <<current>>
    BY <1>1, <1>2, <2>1 DEF Pipe
  <2> HIDE DEF b
  <2>5. (b \o Append(splitter[v], current)) \o <<>> = (b \o splitter[v]) \o <<current>>
    BY <1>1, <2>3, Dealing
  <2> QED BY <2>2, <2>4, <2>5
<1>4. CASE v # Turn
  <2>1. Dealt(v) = <<>>
    BY <1>4 DEF Dealt
  <2>2. splitter'[v] = splitter[v]
    BY <1>1, <1>4 DEF Types, ChannelsOK
  <2> QED BY <1>1, <1>2, <2>1, <2>2 DEF Pipe
<1> QED BY <1>3, <1>4

(* The message that is given up was the last in its pipe. *)
LEMMA PipeSplitInterrupted ==
  ASSUME Types, SplitInterrupted, NEW v \in Workers
  PROVE  /\ v = Turn => Pipe(v) = Append(Pipe(v)', current)
         /\ v # Turn => Pipe(v)' = Pipe(v)
         /\ Pipe(v)' \in Seq(Messages)
<1>1. /\ pc = "split" /\ current \in Messages /\ pc' = "idle" /\ Turn \in Workers
      /\ UNCHANGED <<merger, working, splitter>>
  BY SplitFacts
<1>2. Dealt(v)' = <<>> /\ Work(v)' = Work(v)
  BY <1>1 DEF Dealt, Work
<1> DEFINE p == (merger[v] \o Work(v)) \o splitter[v]
<1>3. p \in Seq(Messages)
  BY PipeParts
<1>4. Pipe(v)' = p \o <<>> /\ Pipe(v) = p \o Dealt(v)
  BY <1>1, <1>2 DEF Pipe
<1> HIDE DEF p
<1>5. Pipe(v)' = p
  BY <1>3, <1>4
<1>6. v = Turn => Dealt(v) = <<current>>
  BY <1>1 DEF Dealt
<1>7. v # Turn => Dealt(v) = <<>>
  BY DEF Dealt
<1>8. p \o <<current>> = Append(p, current) /\ p \o <<>> = p
  BY <1>1, <1>3
<1> QED BY <1>3, <1>4, <1>5, <1>6, <1>7, <1>8

(* A message that the handler takes is the last in the pipe of the next worker. *)
LEMMA PipeHandle ==
  ASSUME Types, Handle, ~fStopRequested, fWorker, NEW v \in Workers
  PROVE  /\ v = fNReceived % NThreads => Pipe(v)' = Append(Pipe(v), Head(input))
         /\ v # fNReceived % NThreads => Pipe(v)' = Pipe(v)
<1>1. /\ pc = "idle" /\ pc' = "split" /\ current' = Head(input) /\ Head(input) \in Messages
      /\ fNReceived' = fNReceived + 1 /\ UNCHANGED <<merger, working, splitter>>
  BY HandleFacts
<1>2. Turn' = fNReceived % NThreads
  <2>1. fNReceived' - 1 = fNReceived
    BY <1>1 DEF Types, CountersOK
  <2> QED BY <2>1 DEF Turn
<1>3. Dealt(v) = <<>> /\ Work(v)' = Work(v)
  BY <1>1 DEF Dealt, Work
<1> DEFINE p == (merger[v] \o Work(v)) \o splitter[v]
<1>4. p \in Seq(Messages)
  BY PipeParts
<1>5. Pipe(v)' = p \o Dealt(v)' /\ Pipe(v) = p \o <<>>
  BY <1>1, <1>3 DEF Pipe
<1> HIDE DEF p
<1>6. v = fNReceived % NThreads => Dealt(v)' = <<Head(input)>>
  BY <1>1, <1>2 DEF Dealt
<1>7. v # fNReceived % NThreads => Dealt(v)' = <<>>
  BY <1>2 DEF Dealt
<1>8. p \o <<Head(input)>> = Append(p, Head(input)) /\ p \o <<>> = p
  BY <1>1, <1>4
<1> QED BY <1>5, <1>6, <1>7, <1>8

(* The merger takes the first in the pipe of the worker whose turn it is. *)
LEMMA PipeMerge ==
  ASSUME Types, Merge, NEW v \in Workers
  PROVE  /\ v = MergeTurn => Pipe(v) # <<>> /\ Head(Pipe(v)) = Head(merger[v]) /\ Pipe(v)' = Tail(Pipe(v))
         /\ v # MergeTurn => Pipe(v)' = Pipe(v)
<1>1. /\ MergeTurn \in Workers /\ merger[MergeTurn] # <<>>
      /\ merger' = [merger EXCEPT ![MergeTurn] = Tail(@)]
      /\ UNCHANGED <<pc, fNReceived, current, splitter, working>>
  BY MergeFacts
<1>2. Dealt(v)' = Dealt(v) /\ Work(v)' = Work(v)
  BY <1>1 DEF Dealt, Work, Turn
<1>3. CASE v = MergeTurn
  <2>1. merger'[v] = Tail(merger[v]) /\ merger[v] # <<>>
    BY <1>1, <1>3 DEF Types, ChannelsOK
  <2>2. merger[v] \in Seq(Messages) /\ Work(v) \in Seq(Messages) /\ splitter[v] \in Seq(Messages)
        /\ Dealt(v) \in Seq(Messages)
    BY PipeParts
  <2>3. /\ Pipe(v) = Cat(Cat(Cat(merger[v], Work(v)), splitter[v]), Dealt(v))
        /\ Pipe(v)' = Cat(Cat(Cat(Rest(merger[v]), Work(v)), splitter[v]), Dealt(v))
    BY <1>1, <1>2, <2>1 DEF Pipe, Cat, Rest
  <2>4. Pipe(v) # <<>> /\ Head(Pipe(v)) = Head(merger[v]) /\ Pipe(v)' = Rest(Pipe(v))
    BY <2>1, <2>2, <2>3, TakenOfFour
  <2>5. Rest(Pipe(v)) = Tail(Pipe(v))
    BY DEF Rest
  <2> QED BY <1>3, <2>4, <2>5
<1>4. CASE v # MergeTurn
  <2>1. merger'[v] = merger[v]
    BY <1>1, <1>4 DEF Types, ChannelsOK
  <2> QED BY <1>1, <1>2, <1>4, <2>1 DEF Pipe
<1> QED BY <1>3, <1>4

-----------------------------------------------------------------------------
(* What becomes of a queue of a worker.  The next message is this worker's. *)
LEMMA CarriesMore ==
  ASSUME NEW q \in Seq(Messages), NEW first \in Nat, NEW end \in Nat, NEW base \in Int, NEW share,
         Carries(q, first, end, base, share), first <= end,
         end \in share, NEW x \in Messages, x.n = base + end + 1
  PROVE  Carries(Append(q, x), first, end + 1, base, share)
<1> DEFINE r == Append(q, x)
<1>1. /\ Len(q) \in Nat /\ Len(r) = Len(q) + 1 /\ r[Len(q) + 1] = x
      /\ \A i \in 1 .. Len(q) : r[i] = q[i]
  OBVIOUS
<1> HIDE DEF r
<1>2. \A i \in 1 .. Len(r) : i \in 1 .. Len(q) \/ i = Len(q) + 1
  BY <1>1
<1>3. \A i \in 1 .. Len(q) : \E k \in first .. end - 1 : k \in share /\ q[i].n = base + k + 1
  BY DEF Carries
<1>4. ASSUME NEW i \in 1 .. Len(r), NEW j \in 1 .. Len(r), i < j PROVE r[i].n < r[j].n
  <2>1. i \in 1 .. Len(q)
    BY <1>1, <1>4
  <2>2. CASE j \in 1 .. Len(q)
    BY <1>1, <1>4, <2>1, <2>2 DEF Carries, Ascending
  <2>3. CASE j = Len(q) + 1
    <3>1. PICK k \in first .. end - 1 : q[i].n = base + k + 1
      BY <1>3, <2>1
    <3>2. r[i].n = base + k + 1 /\ r[j].n = base + end + 1
      BY <1>1, <2>1, <2>3, <3>1
    <3> QED BY <3>2
  <2> QED BY <1>2, <2>2, <2>3
<1>5. ASSUME NEW i \in 1 .. Len(r)
      PROVE  \E k \in first .. (end + 1) - 1 : k \in share /\ r[i].n = base + k + 1
  <2>1. CASE i \in 1 .. Len(q)
    <3>1. PICK k \in first .. end - 1 : k \in share /\ q[i].n = base + k + 1
      BY <1>3, <2>1
    <3> QED BY <1>1, <2>1, <3>1
  <2>2. CASE i = Len(q) + 1
    BY <1>1, <2>2
  <2> QED BY <1>2, <2>1, <2>2
<1>6. ASSUME NEW k \in first .. (end + 1) - 1, k \in share
      PROVE  \E i \in 1 .. Len(r) : r[i].n = base + k + 1
  <2>1. CASE k = end
    BY <1>1, <2>1
  <2>2. CASE k # end
    <3>1. k \in first .. end - 1
      BY <2>2
    <3>2. PICK i \in 1 .. Len(q) : q[i].n = base + k + 1
      BY <1>6, <3>1 DEF Carries
    <3> QED BY <1>1, <3>2
  <2> QED BY <2>1, <2>2
<1>7. Carries(r, first, end + 1, base, share)
  BY <1>4, <1>5, <1>6 DEF Carries, Ascending
<1> QED BY <1>7 DEF r

(* The next message is another worker's. *)
LEMMA CarriesOther ==
  ASSUME NEW q, NEW first \in Nat, NEW end \in Nat, NEW base \in Int, NEW share,
         Carries(q, first, end, base, share), end \notin share
  PROVE  Carries(q, first, end + 1, base, share)
<1>1. \A k \in first .. (end + 1) - 1 : k \in share => k \in first .. end - 1
  OBVIOUS
<1>2. \A k \in first .. end - 1 : k \in first .. (end + 1) - 1
  OBVIOUS
<1> QED BY <1>1, <1>2 DEF Carries

(* The last message was this worker's, and is given up. *)
LEMMA CarriesLess ==
  ASSUME NEW q \in Seq(Messages), NEW first \in Nat, NEW end \in Nat, NEW base \in Int, NEW share,
         NEW x \in Messages, Carries(Append(q, x), first, end, base, share), end - 1 \in share
  PROVE  first <= end - 1 /\ Carries(q, first, end - 1, base, share)
<1> DEFINE r == Append(q, x)
<1>1. /\ Len(q) \in Nat /\ Len(r) = Len(q) + 1 /\ r[Len(q) + 1] = x
      /\ \A i \in 1 .. Len(q) : r[i] = q[i]
  OBVIOUS
<1>2. Carries(r, first, end, base, share)
  OBVIOUS
<1> HIDE DEF r
<1>3. Len(q) + 1 \in 1 .. Len(r) /\ \A i \in 1 .. Len(q) : i \in 1 .. Len(r) /\ i < Len(q) + 1
  BY <1>1
<1>4. PICK last \in first .. end - 1 : x.n = base + last + 1
  BY <1>1, <1>2, <1>3 DEF Carries
<1>5. first <= end - 1 /\ end - 1 \in first .. end - 1
  BY <1>4
<1>6. \A i, j \in 1 .. Len(q) : i < j => q[i].n < q[j].n
  BY <1>1, <1>2, <1>3 DEF Carries, Ascending
<1>7. ASSUME NEW i \in 1 .. Len(q)
      PROVE  \E k \in first .. (end - 1) - 1 : k \in share /\ q[i].n = base + k + 1
  <2>1. PICK k \in first .. end - 1 : k \in share /\ r[i].n = base + k + 1
    BY <1>2, <1>3 DEF Carries
  <2>2. r[i].n < r[Len(q) + 1].n
    BY <1>2, <1>3 DEF Carries, Ascending
  <2>3. k < last
    BY <1>1, <1>4, <2>1, <2>2
  <2> QED BY <1>1, <2>1, <2>3
<1>8. last = end - 1
  <2>1. PICK i \in 1 .. Len(r) : r[i].n = base + (end - 1) + 1
    BY <1>2, <1>5 DEF Carries
  <2>2. CASE i \in 1 .. Len(q)
    <3>1. r[i].n < r[Len(q) + 1].n
      BY <1>2, <1>3, <2>2 DEF Carries, Ascending
    <3> QED BY <1>1, <1>4, <2>1, <3>1
  <2>3. CASE i = Len(q) + 1
    BY <1>1, <1>4, <2>1, <2>3
  <2> QED BY <1>1, <2>2, <2>3
<1>9. ASSUME NEW k \in first .. (end - 1) - 1, k \in share
      PROVE  \E i \in 1 .. Len(q) : q[i].n = base + k + 1
  <2>1. k \in first .. end - 1
    OBVIOUS
  <2>2. PICK i \in 1 .. Len(r) : r[i].n = base + k + 1
    BY <1>2, <1>9, <2>1 DEF Carries
  <2>3. i # Len(q) + 1
    BY <1>1, <1>4, <1>8, <2>2, SMTT(30)
  <2>4. i \in 1 .. Len(q)
    BY <1>1, <2>3
  <2> QED BY <1>1, <2>2, <2>4
<1> QED BY <1>5, <1>6, <1>7, <1>9 DEF Carries, Ascending

(* The last message was another worker's. *)
LEMMA CarriesOtherLess ==
  ASSUME NEW q, NEW first \in Nat, NEW end \in Nat, NEW base \in Int, NEW share,
         Carries(q, first, end, base, share), end - 1 \notin share
  PROVE  Carries(q, first, end - 1, base, share)
<1>1. \A k \in first .. end - 1 : k \in share => k \in first .. (end - 1) - 1
  OBVIOUS
<1>2. \A k \in first .. (end - 1) - 1 : k \in first .. end - 1
  OBVIOUS
<1> QED BY <1>1, <1>2 DEF Carries

(* The first message is this worker's: it is the first in the queue, and leaves it. *)
LEMMA CarriesRest ==
  ASSUME NEW q \in Seq(Messages), NEW first \in Nat, NEW end \in Nat, NEW base \in Int, NEW share,
         Carries(q, first, end, base, share), q # <<>>, first \in share
  PROVE  /\ Head(q).n = base + first + 1 /\ first + 1 <= end
         /\ Carries(Tail(q), first + 1, end, base, share)
<1> DEFINE r == Tail(q)
<1>1. /\ Len(q) \in Nat /\ Len(q) > 0 /\ Len(r) = Len(q) - 1 /\ Head(q) = q[1] /\ 1 \in 1 .. Len(q)
      /\ \A i \in 1 .. Len(r) : r[i] = q[i + 1] /\ i + 1 \in 1 .. Len(q)
  OBVIOUS
<1> HIDE DEF r
<1>2. PICK k1 \in first .. end - 1 : q[1].n = base + k1 + 1
  BY <1>1 DEF Carries
<1>3. first \in first .. end - 1 /\ first + 1 <= end
  BY <1>2
<1>4. \A i, j \in 1 .. Len(q) : i < j => q[i].n < q[j].n
  BY DEF Carries, Ascending
<1>5. q[1].n = base + first + 1
  <2>1. PICK i \in 1 .. Len(q) : q[i].n = base + first + 1
    BY <1>3 DEF Carries
  <2>2. CASE i = 1
    BY <2>1, <2>2
  <2>3. CASE i # 1
    <3>1. q[1].n < q[i].n
      BY <1>1, <1>4, <2>3
    <3> QED BY <1>2, <2>1, <3>1
  <2> QED BY <2>2, <2>3
<1>6. \A i, j \in 1 .. Len(r) : i < j => r[i].n < r[j].n
  BY <1>1, <1>4
<1>7. ASSUME NEW i \in 1 .. Len(r)
      PROVE  \E k \in first + 1 .. end - 1 : k \in share /\ r[i].n = base + k + 1
  <2>1. PICK k \in first .. end - 1 : k \in share /\ q[i + 1].n = base + k + 1
    BY <1>1 DEF Carries
  <2>2. q[1].n < q[i + 1].n
    BY <1>1, <1>4
  <2>3. k > first
    BY <1>5, <2>1, <2>2
  <2> QED BY <1>1, <2>1, <2>3
<1>8. ASSUME NEW k \in first + 1 .. end - 1, k \in share
      PROVE  \E i \in 1 .. Len(r) : r[i].n = base + k + 1
  <2>1. k \in first .. end - 1
    OBVIOUS
  <2>2. PICK j \in 1 .. Len(q) : q[j].n = base + k + 1
    BY <1>8, <2>1 DEF Carries
  <2>3. j # 1
    BY <1>5, <2>2
  <2>4. j - 1 \in 1 .. Len(r) /\ (j - 1) + 1 = j
    BY <1>1, <2>3
  <2>5. r[j - 1] = q[j]
    BY <1>1, <2>4
  <2> QED BY <2>2, <2>4, <2>5
<1>9. Carries(r, first + 1, end, base, share)
  BY <1>6, <1>7, <1>8 DEF Carries, Ascending
<1> QED BY <1>1, <1>3, <1>5, <1>9 DEF r

(* The first message is another worker's. *)
LEMMA CarriesOtherRest ==
  ASSUME NEW q, NEW first \in Nat, NEW end \in Nat, NEW base \in Int, NEW share,
         Carries(q, first, end, base, share), first \notin share
  PROVE  Carries(q, first + 1, end, base, share)
<1>1. \A k \in first .. end - 1 : k \in share => k \in first + 1 .. end - 1
  OBVIOUS
<1>2. \A k \in first + 1 .. end - 1 : k \in first .. end - 1
  OBVIOUS
<1> QED BY <1>1, <1>2 DEF Carries

(* Nothing between two equal numbers. *)
LEMMA CarriesNothing ==
  ASSUME NEW base \in Int, NEW share
  PROVE  Carries(<<>>, 0, 0, base, share)
<1>1. Len(<<>>) = 0 /\ 0 - 1 = -1
  OBVIOUS
<1> QED BY <1>1 DEF Carries, Ascending

-----------------------------------------------------------------------------
(* The input, and the number of the first message of the run. *)
LEMMA InputTaken ==
  ASSUME Types, InputInOrder, input # <<>>, input' = Tail(input), UNCHANGED produced
  PROVE  /\ InputInOrder' /\ Len(input) \in Nat /\ Len(input') = Len(input) - 1 /\ Len(input) > 0
         /\ Head(input).n = produced - Len(input) + 1 /\ produced \in Nat
<1>1. input \in Seq(Messages) /\ produced \in Nat
  BY Constants DEF Types, InputOK
<1>2. /\ Len(input) \in Nat /\ Len(input) > 0 /\ Len(input') = Len(input) - 1 /\ Head(input) = input[1]
      /\ \A i \in 1 .. Len(input') : input'[i] = input[i + 1] /\ i + 1 \in 1 .. Len(input)
  BY <1>1
<1>3. \A i \in 1 .. Len(input) : input[i].n = produced - Len(input) + i
  BY DEF InputInOrder
<1>4. ASSUME NEW i \in 1 .. Len(input') PROVE input'[i].n = produced' - Len(input') + i
  BY <1>1, <1>2, <1>3
<1>5. input[1].n = produced - Len(input) + 1
  BY <1>2, <1>3
<1> QED BY <1>1, <1>2, <1>4, <1>5 DEF InputInOrder

(* A message that comes in carries the next number. *)
LEMMA InputDelivered ==
  ASSUME Types, InputInOrder, Deliver
  PROVE  InputInOrder' /\ produced' - Len(input') = produced - Len(input)
<1>1. input \in Seq(Messages) /\ produced \in Nat /\ upstream /\ run \in 1 .. MaxRuns
      /\ produced < MaxMessages /\ produced' = produced + 1
  BY Constants DEF Types, InputOK, Deliver
<1> DEFINE m == [n |-> produced', run |-> run]
<1>2. m \in Messages /\ m.n = produced + 1 /\ input' = Append(input, m)
  BY <1>1, Constants DEF Messages, Deliver
<1> HIDE DEF m
<1>3. /\ Len(input) \in Nat /\ Len(input') = Len(input) + 1 /\ input'[Len(input) + 1] = m
      /\ \A i \in 1 .. Len(input) : input'[i] = input[i]
  BY <1>1, <1>2
<1>4. \A i \in 1 .. Len(input) : input[i].n = produced - Len(input) + i
  BY DEF InputInOrder
<1>5. ASSUME NEW i \in 1 .. Len(input') PROVE input'[i].n = produced' - Len(input') + i
  <2>1. CASE i = Len(input) + 1
    BY <1>1, <1>2, <1>3, <2>1
  <2>2. CASE i # Len(input) + 1
    <3>1. i \in 1 .. Len(input)
      BY <1>3, <2>2
    <3> QED BY <1>1, <1>3, <1>4, <3>1
  <2> QED BY <2>1, <2>2
<1> QED BY <1>1, <1>3, <1>5 DEF InputInOrder

(* The input is in order after every step. *)
LEMMA InputInOrderNext == Types /\ InputInOrder /\ [Next]_vars => InputInOrder'
<1> SUFFICES ASSUME Types, InputInOrder, [Next]_vars PROVE InputInOrder'
  OBVIOUS
<1>1. ASSUME UNCHANGED <<input, produced>> PROVE InputInOrder'
  BY <1>1 DEF InputInOrder
<1>2. CASE Deliver
  BY <1>2, InputDelivered
<1>3. CASE RequestStop \/ StopUpstream \/ UNCHANGED vars
  BY <1>1, <1>3 DEF RequestStop, StopUpstream, vars, source
<1>4. CASE PreRun
  BY <1>1, <1>4 DEF PreRun
<1>5. CASE LifeCycle
  <2>1. CASE DrainOne
    <3>1. input # <<>> /\ input' = Tail(input) /\ UNCHANGED produced
      BY <2>1 DEF DrainOne
    <3> QED BY <3>1, InputTaken
  <2>2. CASE BeginPostRun \/ Join \/ EndPostRun \/ CloseFile \/ InitTask
    BY <1>1, <2>2 DEF BeginPostRun, Join, EndPostRun, CloseFile, InitTask, source
  <2> QED BY <1>5, <2>1, <2>2 DEF LifeCycle
<1>6. CASE Handle
  BY <1>6, HandleFacts, InputTaken
<1>7. CASE SplitSend \/ SplitInterrupted
  BY <1>1, <1>7, SplitFacts
<1>8. CASE \E w \in Workers : Worker(w)
  BY <1>1, <1>8, WorkerFacts
<1>9. CASE MergerThread
  BY <1>1, <1>9, MergeFacts DEF MergerThread, MergerEnds, source
<1>10. CASE Copies
  BY <1>1, <1>10, CopyFacts
<1> QED BY <1>2, <1>3, <1>4, <1>5, <1>6, <1>7, <1>8, <1>9, <1>10, Steps

(* The counters are numbers. *)
LEMMA BaseType == Types => Base \in Int /\ fNReceived \in Nat /\ fNOutput \in Nat /\ produced \in Nat
                           /\ Len(input) \in Nat
<1> SUFFICES ASSUME Types PROVE Base \in Int /\ fNReceived \in Nat /\ fNOutput \in Nat /\ produced \in Nat
                                /\ Len(input) \in Nat
  OBVIOUS
<1>1. input \in Seq(Messages) /\ fNReceived \in Nat /\ fNOutput \in Nat /\ produced \in Nat
  BY Constants DEF Types, InputOK, CountersOK
<1>2. Len(input) \in Nat
  BY <1>1
<1> QED BY <1>1, <1>2 DEF Base

-----------------------------------------------------------------------------
(* The flow of the messages through the pipes, step by step. *)
LEMMA FlowSame ==
  ASSUME NEW a, Flows(a), UNCHANGED fNOutput, Base' = Base, \A w \in Workers : Pipe(w)' = Pipe(w)
  PROVE  Flows(a)'
<1>1. a \in Nat /\ fNOutput' <= a
  BY DEF Flows
<1>2. \A w \in Workers : Carries(Pipe(w)', fNOutput', a, Base', Share(w))
  BY DEF Flows
<1> QED BY <1>1, <1>2 DEF Flows, Carries, Ascending, Share

(* A step that leaves the pipes alone, and tells of a stop if there was one. *)
LEMMA FlowUnchanged ==
  ASSUME Flow, UNCHANGED <<fNReceived, fNOutput>>, Base' = Base, \A w \in Workers : Pipe(w)' = Pipe(w),
         newState /\ pc # "split" => newState' /\ pc' # "split"
  PROVE  Flow'
<1>1. PICK a \in {fNReceived, fNReceived - 1} : Flows(a) /\ (a = fNReceived \/ (newState /\ pc # "split"))
  BY DEF Flow
<1>2. Flows(a)'
  BY <1>1, FlowSame
<1> QED BY <1>1, <1>2 DEF Flow

(* A run begins with empty pipes. *)
LEMMA FlowPreRun == Types /\ PreRun /\ ~fStopRequested => Flow'
<1> SUFFICES ASSUME Types, PreRun, ~fStopRequested PROVE Flow'
  OBVIOUS
<1>1. /\ pc' = "idle" /\ fNReceived' = 0 /\ fNOutput' = 0 /\ UNCHANGED <<input, produced>>
      /\ splitter' = [w \in Workers |-> <<>>] /\ merger' = [w \in Workers |-> <<>>]
      /\ working' = [w \in Workers |-> None]
  BY DEF PreRun
<1>2. ASSUME NEW w \in Workers PROVE Pipe(w)' = <<>>
  <2>1. merger'[w] = <<>> /\ splitter'[w] = <<>> /\ Work(w)' = <<>> /\ Dealt(w)' = <<>>
    BY <1>1 DEF Work, Dealt
  <2>2. ((<<>> \o <<>>) \o <<>>) \o <<>> = <<>>
    OBVIOUS
  <2> QED BY <2>1, <2>2 DEF Pipe
<1>3. Base' \in Int
  <2>1. Types'
    BY TypesPreRun
  <2>2. produced' \in Int /\ Len(input') \in Int
    BY <1>1, BaseType
  <2> QED BY <1>1, <2>2 DEF Base
<1>4. \A w \in Workers : Carries(Pipe(w)', 0, 0, Base', Share(w))
  BY <1>2, <1>3, CarriesNothing
<1>5. 0 \in Nat /\ fNOutput' <= 0
  BY <1>1
<1>6. Flows(0)'
  BY <1>1, <1>4, <1>5 DEF Flows, Carries, Ascending, Share
<1> QED BY <1>1, <1>6 DEF Flow

(* A message taken from the input enters the pipe of the next worker. *)
LEMMA FlowHandle ==
  ASSUME Types, InputInOrder, Flow, Handle, ~fStopRequested, fWorker
  PROVE  Flow' /\ Base' = Base
<1> DEFINE x == Head(input)
<1>1. /\ ~newState /\ input # <<>> /\ input' = Tail(input) /\ UNCHANGED <<produced, fNOutput>>
      /\ x \in Messages /\ fNReceived' = fNReceived + 1
  BY HandleFacts
<1>2. /\ Len(input) \in Nat /\ Len(input') = Len(input) - 1 /\ x.n = produced - Len(input) + 1
  BY <1>1, InputTaken
<1>3. Base \in Int /\ fNReceived \in Nat /\ fNOutput \in Nat /\ produced \in Nat
  BY BaseType
<1>4. Base' = Base /\ x.n = Base + fNReceived + 1
  BY <1>1, <1>2, <1>3 DEF Base
<1> HIDE DEF x
<1>5. PICK a \in Nat : a = fNReceived /\ Flows(a)
  BY <1>1, <1>3 DEF Flow
<1>6. ASSUME NEW w \in Workers
      PROVE  Carries(Pipe(w)', fNOutput, a + 1, Base, Share(w))
  <2>1. Carries(Pipe(w), fNOutput, a, Base, Share(w)) /\ fNOutput <= a
    BY <1>5 DEF Flows
  <2>2. Pipe(w) \in Seq(Messages)
    BY PipeParts
  <2>3. CASE w = a % NThreads
    <3>1. Pipe(w)' = Append(Pipe(w), x) /\ a \in Share(w)
      BY <1>5, <2>3, PipeHandle DEF x, Share
    <3> QED BY <1>1, <1>3, <1>4, <1>5, <2>1, <2>2, <3>1, CarriesMore
  <2>4. CASE w # a % NThreads
    <3>1. Pipe(w)' = Pipe(w) /\ a \notin Share(w)
      BY <1>5, <2>4, PipeHandle DEF Share
    <3> QED BY <1>3, <2>1, <3>1, CarriesOther
  <2> QED BY <2>3, <2>4
<1>7. fNOutput <= a + 1
  BY <1>3, <1>5 DEF Flows
<1>8. Flows(a + 1)'
  BY <1>1, <1>4, <1>6, <1>7 DEF Flows, Carries, Ascending, Share
<1>9. a + 1 = fNReceived'
  BY <1>1, <1>5
<1> QED BY <1>4, <1>8, <1>9 DEF Flow

(* A message that is given up is missing at the end of the flow, and a stop is pending. *)
LEMMA FlowSplitInterrupted ==
  ASSUME Types, Flow, SplitInterrupted
  PROVE  Flow' /\ Base' = Base
<1>1. /\ pc = "split" /\ pc' = "idle" /\ newState' = TRUE /\ Turn \in Workers /\ current \in Messages
      /\ UNCHANGED <<fNReceived, fNOutput, input, produced>>
  BY SplitFacts
<1>2. Base' = Base
  BY <1>1 DEF Base
<1>3. Base \in Int /\ fNReceived \in Nat /\ fNOutput \in Nat
  BY BaseType
<1>4. PICK a \in Nat : a = fNReceived /\ Flows(a)
  BY <1>1, <1>3 DEF Flow
<1>5. a - 1 \in Nat /\ Turn = (a - 1) % NThreads
  BY <1>1, <1>4 DEF Types, CurrentOK, Turn
<1>6. fNOutput <= a - 1 /\ Carries(Pipe(Turn)', fNOutput, a - 1, Base, Share(Turn))
  <2>1. Carries(Pipe(Turn), fNOutput, a, Base, Share(Turn))
    BY <1>1, <1>4 DEF Flows
  <2>2. a - 1 \in Share(Turn)
    BY <1>5 DEF Share
  <2> DEFINE q == Pipe(Turn)'
  <2>3. Pipe(Turn) = Append(q, current) /\ q \in Seq(Messages)
    <3>1. PICK w \in Workers : w = Turn
      BY <1>1
    <3>2. Pipe(w) = Append(Pipe(w)', current) /\ Pipe(w)' \in Seq(Messages)
      BY <3>1, PipeSplitInterrupted
    <3>3. Turn' = Turn
      BY <1>1 DEF Turn
    <3>4. Pipe(Turn)' = Pipe(w)'
      BY <3>1, <3>3 DEF Pipe, Work, Dealt
    <3> QED BY <3>1, <3>2, <3>4
  <2> HIDE DEF q
  <2>4. fNOutput <= a - 1 /\ Carries(q, fNOutput, a - 1, Base, Share(Turn))
    BY <1>1, <1>3, <2>1, <2>2, <2>3, CarriesLess
  <2> QED BY <2>4 DEF q
<1>7. ASSUME NEW w \in Workers
      PROVE  Carries(Pipe(w)', fNOutput, a - 1, Base, Share(w))
  <2>1. CASE w = Turn
    <3>1. Turn' = Turn
      BY <1>1 DEF Turn
    <3>2. Pipe(Turn)' = Pipe(w)'
      BY <2>1, <3>1 DEF Pipe, Work, Dealt
    <3> QED BY <1>6, <2>1, <3>2
  <2>2. CASE w # Turn
    <3>1. Pipe(w)' = Pipe(w) /\ a - 1 \notin Share(w)
      BY <1>5, <2>2, PipeSplitInterrupted DEF Share
    <3>2. Carries(Pipe(w), fNOutput, a, Base, Share(w))
      BY <1>4 DEF Flows
    <3> QED BY <1>3, <3>1, <3>2, CarriesOtherLess
  <2> QED BY <2>1, <2>2
<1>8. Flows(a - 1)'
  BY <1>1, <1>2, <1>5, <1>6, <1>7 DEF Flows, Carries, Ascending, Share
<1> QED BY <1>1, <1>2, <1>4, <1>8 DEF Flow

(* The merger gets the messages in their order. *)
LEMMA FlowMerge ==
  ASSUME Types, Flow, Merge
  PROVE  Flow' /\ Base' = Base /\ Head(merger[MergeTurn]).n = Base + fNOutput + 1
<1>1. /\ MergeTurn \in Workers /\ fNOutput' = fNOutput + 1
      /\ UNCHANGED <<pc, newState, fNReceived, input, produced>>
  BY MergeFacts
<1>2. Base' = Base
  BY <1>1 DEF Base
<1>3. Base \in Int /\ fNReceived \in Nat /\ fNOutput \in Nat
  BY BaseType
<1>4. PICK a \in {fNReceived, fNReceived - 1} : Flows(a) /\ (a = fNReceived \/ (newState /\ pc # "split"))
  BY DEF Flow
<1>5. a \in Nat
  BY <1>4 DEF Flows
<1>6. /\ Head(merger[MergeTurn]).n = Base + fNOutput + 1 /\ fNOutput + 1 <= a
      /\ \A w \in Workers : w = MergeTurn => Carries(Pipe(w)', fNOutput + 1, a, Base, Share(w))
  <2>1. PICK w \in Workers : w = MergeTurn
    BY <1>1
  <2>2. Carries(Pipe(w), fNOutput, a, Base, Share(w)) /\ Pipe(w) \in Seq(Messages)
    BY <1>4, PipeParts DEF Flows
  <2>3. fNOutput \in Share(w)
    BY <1>3, <2>1 DEF Share, MergeTurn
  <2>4. Pipe(w) # <<>> /\ Head(Pipe(w)) = Head(merger[w]) /\ Pipe(w)' = Tail(Pipe(w))
    BY <2>1, PipeMerge
  <2>5. Head(Pipe(w)).n = Base + fNOutput + 1 /\ fNOutput + 1 <= a
        /\ Carries(Tail(Pipe(w)), fNOutput + 1, a, Base, Share(w))
    BY <1>3, <1>5, <2>2, <2>3, <2>4, CarriesRest
  <2> QED BY <2>1, <2>4, <2>5
<1>7. ASSUME NEW w \in Workers, w # MergeTurn
      PROVE  Carries(Pipe(w)', fNOutput + 1, a, Base, Share(w))
  <2>1. Pipe(w)' = Pipe(w) /\ fNOutput \notin Share(w)
    BY <1>7, PipeMerge DEF Share, MergeTurn
  <2>2. Carries(Pipe(w), fNOutput, a, Base, Share(w))
    BY <1>4 DEF Flows
  <2> QED BY <1>3, <1>5, <2>1, <2>2, CarriesOtherRest
<1>8. Flows(a)'
  BY <1>1, <1>2, <1>5, <1>6, <1>7 DEF Flows, Carries, Ascending, Share
<1> QED BY <1>1, <1>2, <1>4, <1>6, <1>8 DEF Flow

-----------------------------------------------------------------------------
(* A message behind its predecessor. *)
LEMMA InOrderMessage ==
  ASSUME Types, WrittenInOrder, NEW m \in Messages, file' = Append(file, m), Behind(m.n - 1)
  PROVE  WrittenInOrder' /\ Len(file') >= 1 /\ file'[Len(file')] = m
<1>1. /\ Len(file) \in Nat /\ Len(file') = Len(file) + 1 /\ file'[Len(file) + 1] = m
      /\ \A i \in 1 .. Len(file) : file'[i] = file[i]
  BY Kinds, LongerFile
<1>2. m.n \in Int
  BY Kinds
<1>3. Len(file) > 1 => file[Len(file)].n = m.n - 1
  BY DEF Behind
<1>4. ASSUME NEW i \in 3 .. Len(file'), file'[i] \notin {Header, Trailer}
      PROVE  file'[i].n = file'[i - 1].n + 1
  <2>1. CASE i = Len(file) + 1
    <3>1. i - 1 = Len(file) /\ Len(file) > 1 /\ i - 1 \in 1 .. Len(file)
      BY <1>1, <2>1
    <3>2. file'[i - 1].n = m.n - 1 /\ file'[i] = m
      BY <1>1, <1>3, <2>1, <3>1
    <3> QED BY <1>2, <3>2
  <2>2. CASE i # Len(file) + 1
    <3>1. i \in 3 .. Len(file) /\ i \in 1 .. Len(file) /\ i - 1 \in 1 .. Len(file)
      BY <1>1, <2>2
    <3>2. file'[i] = file[i] /\ file'[i - 1] = file[i - 1]
      BY <1>1, <3>1
    <3> QED BY <1>4, <3>1, <3>2 DEF WrittenInOrder, IsMessage
  <2> QED BY <2>1, <2>2
<1>5. WrittenInOrder'
  BY <1>4 DEF WrittenInOrder, IsMessage
<1> QED BY <1>1, <1>5

(* The trailer at the end. *)
LEMMA InOrderTrailer ==
  ASSUME Types, WrittenInOrder, file' = Append(file, Trailer)
  PROVE  WrittenInOrder'
<1>1. /\ Len(file) \in Nat /\ Len(file') = Len(file) + 1 /\ file'[Len(file) + 1] = Trailer
      /\ \A i \in 1 .. Len(file) : file'[i] = file[i]
  BY Kinds, LongerFile
<1>2. ASSUME NEW i \in 3 .. Len(file'), file'[i] \notin {Header, Trailer}
      PROVE  file'[i].n = file'[i - 1].n + 1
  <2>1. i # Len(file) + 1
    BY <1>1, <1>2
  <2>2. i \in 3 .. Len(file) /\ i \in 1 .. Len(file) /\ i - 1 \in 1 .. Len(file)
    BY <1>1, <2>1
  <2>3. file'[i] = file[i] /\ file'[i - 1] = file[i - 1]
    BY <1>1, <2>2
  <2> QED BY <1>2, <2>2, <2>3 DEF WrittenInOrder, IsMessage
<1> QED BY <1>2 DEF WrittenInOrder, IsMessage

(* A step that writes nothing keeps the order; what it has to keep besides is the flow and the *)
(* number of the last message. *)
LEMMA OrderSameFile ==
  ASSUME Types, Order, [Next]_vars, UNCHANGED file,
         Live' => Live /\ Flow' /\ UNCHANGED fNOutput /\ Base' = Base,
         Direct' => Direct /\ produced' - Len(input') = produced - Len(input),
         Copying' => Copying /\ UNCHANGED current /\ produced' - Len(input') = produced - Len(input)
  PROVE  Order'
<1>1. InputInOrder'
  BY InputInOrderNext DEF Order
<1>2. WrittenInOrder'
  BY DEF Order, WrittenInOrder, IsMessage
<1>3. Live' => Flow' /\ Behind(Base + fNOutput)'
  <2>1. CASE Live'
    <3>1. Behind(Base + fNOutput)
      BY <2>1 DEF Order
    <3>2. Base' + fNOutput' = Base + fNOutput
      BY <2>1
    <3> QED BY <2>1, <3>1, <3>2 DEF Behind
  <2> QED BY <2>1
<1>4. Direct' => Behind(produced - Len(input))'
  <2>1. CASE Direct'
    <3>1. Behind(produced - Len(input))
      BY <2>1 DEF Order
    <3> QED BY <2>1, <3>1 DEF Behind
  <2> QED BY <2>1
<1>5. Copying' => (current.n = produced - Len(input))' /\ Behind(current.n - 1)'
  <2>1. CASE Copying'
    <3>1. current.n = produced - Len(input) /\ Behind(current.n - 1)
      BY <2>1 DEF Order
    <3> QED BY <2>1, <3>1 DEF Behind
  <2> QED BY <2>1
<1> QED BY <1>1, <1>2, <1>3, <1>4, <1>5 DEF Order

(* Every step keeps the order, if no worker's send times out while the merger lives. *)
LEMMA OrderNext == ~SlowWriter /\ Types /\ Order /\ [Next]_vars => Order'
<1> SUFFICES ASSUME ~SlowWriter, Types, Order, [Next]_vars PROVE Order'
  OBVIOUS
<1>0. /\ InputInOrder /\ WrittenInOrder
      /\ Live => Flow /\ Behind(Base + fNOutput)
      /\ Direct => Behind(produced - Len(input))
      /\ Copying => current.n = produced - Len(input) /\ Behind(current.n - 1)
      /\ InputInOrder'
  BY InputInOrderNext DEF Order
<1>a. Base \in Int /\ fNReceived \in Nat /\ fNOutput \in Nat /\ produced \in Nat /\ Len(input) \in Nat
  BY BaseType
(* Outside of the pipes. *)
<1>1. ASSUME UNCHANGED <<file, fStopRequested, fNReceived, fNOutput, merger, working, splitter, fWorker>>,
             alive' \subseteq alive, produced' - Len(input') = produced - Len(input),
             UNCHANGED <<pc, current>> \/ (pc # "split" /\ pc' # "split"),
             pc' = "idle" => pc = "idle", newState => newState',
             Copying' => Copying /\ UNCHANGED current
      PROVE  Order'
  <2>1. \A w \in Workers : Pipe(w)' = Pipe(w)
    BY <1>1, PipeUnchanged
  <2>2. Base' = Base
    BY <1>1 DEF Base
  <2>3. Flow => Flow'
    BY <1>1, <2>1, <2>2, FlowUnchanged
  <2>4. Live' => Live
    BY <1>1 DEF Live
  <2>5. Direct' => Direct
    BY <1>1 DEF Direct
  <2> QED BY <1>0, <1>1, <2>2, <2>3, <2>4, <2>5, OrderSameFile
<1>2. CASE Deliver
  <2>1. produced' - Len(input') = produced - Len(input)
    BY <1>0, <1>2, InputDelivered
  <2> QED BY <1>1, <1>2, <2>1 DEF Copying, Deliver, device, stops, threads, writing
<1>3. CASE RequestStop \/ StopUpstream \/ UNCHANGED vars
  BY <1>1, <1>3 DEF Copying, RequestStop, StopUpstream, vars, device, stops, threads, writing, source
<1>4. CASE PreRun
  <2>1. CASE fStopRequested
    <3>1. UNCHANGED file /\ fStopRequested' /\ pc' # "copy"
      BY <1>4, <2>1 DEF PreRun, writing, stops
    <3> QED BY <3>1, OrderSameFile DEF Live, Direct, Copying
  <2>2. CASE ~fStopRequested
    <3>1. file' = <<Header>> /\ Flow' /\ ~Copying'
      BY <1>4, <2>2, FlowPreRun DEF PreRun, Copying
    <3>2. Len(file') = 1
      BY <3>1, NewFileFacts
    <3>3. WrittenInOrder'
      BY <3>2 DEF WrittenInOrder
    <3>4. Behind(Base + fNOutput)' /\ Behind(produced - Len(input))'
      BY <3>2 DEF Behind
    <3> QED BY <1>0, <3>1, <3>3, <3>4 DEF Order
  <2> QED BY <2>1, <2>2
<1>5. CASE LifeCycle
  <2>1. CASE BeginPostRun
    <3>1. CASE fStopRequested
      <4>1. UNCHANGED file /\ fStopRequested' /\ pc' # "copy"
        BY <2>1, <3>1 DEF BeginPostRun, writing
      <4> QED BY <4>1, OrderSameFile DEF Live, Direct, Copying
    <3>2. CASE ~fStopRequested
      <4>1. pc = "idle" /\ pc' = "join" /\ UNCHANGED newState
            /\ UNCHANGED <<file, fStopRequested, fNReceived, fNOutput, merger, working, splitter>>
            /\ UNCHANGED <<alive, produced, input, fWorker>>
        BY <2>1, <3>2 DEF BeginPostRun, threads, writing, source
      <4> QED BY <1>1, <4>1 DEF Copying
    <3> QED BY <3>1, <3>2
  <2>2. CASE Join \/ DrainOne \/ CloseFile \/ InitTask
    <3>1. UNCHANGED file /\ alive' = {} /\ pc' \notin {"idle", "copy"}
      <4>1. CASE Join
        BY <4>1 DEF Join, writing
      <4>2. CASE DrainOne
        BY <4>2 DEF DrainOne, threads, writing, Types, ThreadsOK
      <4>3. CASE CloseFile
        BY <4>3 DEF CloseFile, threads, Types, ThreadsOK
      <4>4. CASE InitTask
        BY <4>4 DEF InitTask, Types, ThreadsOK
      <4> QED BY <2>2, <4>1, <4>2, <4>3, <4>4
    <3>2. ~Live' /\ ~Direct' /\ ~Copying'
      BY <3>1 DEF Live, Direct, Copying
    <3> QED BY <3>1, <3>2, OrderSameFile
  <2>3. CASE EndPostRun
    <3>1. pc = "drain" /\ pc' = "report" /\ file' = Append(file, Trailer) /\ UNCHANGED alive
      BY <2>3 DEF EndPostRun, Put, threads
    <3>2. WrittenInOrder'
      BY <1>0, <3>1, InOrderTrailer
    <3>3. ~Live' /\ ~Direct' /\ ~Copying'
      BY <3>1 DEF Live, Direct, Copying, Types, ThreadsOK
    <3> QED BY <1>0, <3>2, <3>3 DEF Order
  <2> QED BY <1>5, <2>1, <2>2, <2>3 DEF LifeCycle
<1>6. CASE Handle
  <2>1. CASE fStopRequested
    <3>1. UNCHANGED file /\ fStopRequested' /\ pc' = "idle"
      BY <1>6, <2>1, HandleFacts
    <3> QED BY <3>1, OrderSameFile DEF Live, Direct, Copying
  <2>2. CASE ~fStopRequested /\ fWorker
    <3>1. UNCHANGED <<file, alive, fStopRequested, fNOutput, fWorker>> /\ pc' = "split"
      BY <1>6, <2>2, HandleFacts
    <3>2. Live' => Live
      BY <3>1 DEF Live
    <3>3. Live => Flow' /\ Base' = Base
      BY <1>0, <1>6, <2>2, FlowHandle
    <3>4. ~Direct' /\ ~Copying'
      BY <3>1 DEF Direct, Copying
    <3> QED BY <3>1, <3>2, <3>3, <3>4, OrderSameFile
  <2>3. CASE ~fStopRequested /\ ~fWorker
    <3> DEFINE m == Head(input)
    <3>1. /\ pc = "idle" /\ input # <<>> /\ input' = Tail(input) /\ UNCHANGED <<produced, alive, file>>
          /\ m \in Messages /\ current' = m /\ pc' = "copy"
      BY <1>6, <2>3, HandleFacts
    <3>2. Len(input') = Len(input) - 1 /\ m.n = produced - Len(input) + 1
      BY <1>0, <3>1, InputTaken
    <3>3. Behind(m.n - 1)
      <4>1. Behind(produced - Len(input)) /\ m.n - 1 = produced - Len(input)
        BY <1>0, <1>a, <2>3, <3>1, <3>2 DEF Direct
      <4> QED BY <4>1
    <3> HIDE DEF m
    <3>4. current'.n = m.n /\ produced' - Len(input') = m.n
      BY <1>a, <3>1, <3>2
    <3>5. Behind(current.n - 1)'
      BY <3>1, <3>3, <3>4 DEF Behind
    <3>6. WrittenInOrder'
      BY <1>0, <3>1 DEF WrittenInOrder, IsMessage
    <3>7. ~Live' /\ ~Direct'
      BY <2>3, <3>1, NoThreads DEF Live, Direct
    <3> QED BY <1>0, <3>4, <3>5, <3>6, <3>7 DEF Order
  <2> QED BY <2>1, <2>2, <2>3
<1>12. CASE Copies
  <2>1. /\ pc = "copy" /\ current \in Messages /\ file' = Append(file, current) /\ pc' = "idle" /\ alive' = {}
        /\ UNCHANGED <<input, produced>>
    BY <1>12, CopyFacts
  <2>2. current.n = produced - Len(input) /\ Behind(current.n - 1)
    BY <1>0, <2>1 DEF Copying
  <2>3. WrittenInOrder' /\ Len(file') >= 1 /\ file'[Len(file')] = current
    BY <1>0, <2>1, <2>2, InOrderMessage
  <2>4. Behind(produced - Len(input))'
    BY <2>1, <2>2, <2>3 DEF Behind
  <2>5. ~Live' /\ ~Copying'
    BY <2>1 DEF Live, Copying
  <2> QED BY <1>0, <2>3, <2>4, <2>5 DEF Order
<1>7. CASE SplitSend
  <2>1. /\ UNCHANGED <<file, alive, fStopRequested, fNReceived, fNOutput, input, produced, newState, fWorker>>
        /\ pc = "split" /\ pc' = "idle"
    BY <1>7, SplitFacts
  <2>2. Base' = Base /\ \A w \in Workers : Pipe(w)' = Pipe(w)
    BY <1>7, <2>1, PipeSplitSend DEF Base
  <2>3. Flow => Flow'
    BY <2>1, <2>2, FlowUnchanged
  <2>4. Live' => Live
    BY <2>1 DEF Live
  <2>5. ~Direct' /\ ~Copying'
    BY <2>1 DEF Direct, Copying, Types, ThreadsOK
  <2> QED BY <1>0, <2>1, <2>2, <2>3, <2>4, <2>5, OrderSameFile
<1>8. CASE SplitInterrupted
  <2>1. UNCHANGED <<file, alive, fStopRequested, fNOutput, fWorker>> /\ pc = "split" /\ pc' = "idle"
    BY <1>8, SplitFacts
  <2>2. Live' => Live
    BY <2>1 DEF Live
  <2>3. Live => Flow' /\ Base' = Base
    BY <1>0, <1>8, FlowSplitInterrupted
  <2>4. ~Direct' /\ ~Copying'
    BY <2>1 DEF Direct, Copying, Types, ThreadsOK
  <2> QED BY <2>1, <2>2, <2>3, <2>4, OrderSameFile
<1>9. CASE \E w \in Workers : Worker(w)
  <2>1. PICK u \in Workers : Worker(u)
    BY <1>9
  <2>2. /\ UNCHANGED <<pc, newState, fStopRequested, fNReceived, fNOutput, file, input, produced>>
        /\ UNCHANGED <<current, fWorker>> /\ alive' \subseteq alive
    BY <2>1, WorkerFacts
  <2>3. Live' => Live
    BY <2>2 DEF Live
  <2>4. Base' = Base
    BY <2>2 DEF Base
  <2>5. Live => Flow'
    <3>1. CASE Live
      <4>1. \A w \in Workers : Pipe(w)' = Pipe(w)
        BY <2>1, <3>1, PipeWorker
      <4> QED BY <1>0, <2>2, <2>4, <3>1, <4>1, FlowUnchanged
    <3> QED BY <3>1
  <2>6. (Direct' => Direct) /\ (Copying' => Copying)
    BY <2>2 DEF Direct, Copying
  <2> QED BY <2>2, <2>3, <2>4, <2>5, <2>6, OrderSameFile
<1>10. CASE Merge
  <2> DEFINE m == Head(merger[MergeTurn])
  <2>1. /\ Merger \in alive /\ m \in Messages /\ WriteData(m) /\ fNOutput' = fNOutput + 1
        /\ UNCHANGED <<pc, alive, fWorker>>
    BY <1>10, MergeFacts
  <2>2. ~Copying'
    BY <2>1 DEF Copying, Types, ThreadsOK
  <2>3. CASE fStopRequested
    <3>1. UNCHANGED <<file, fStopRequested>>
      BY <2>1, <2>3, WriteFacts
    <3>2. ~Live' /\ ~Direct'
      BY <2>3, <3>1 DEF Live, Direct
    <3> QED BY <2>2, <3>1, <3>2, OrderSameFile
  <2>4. CASE ~fStopRequested
    <3>a. ~Direct'
      BY <2>1, <2>4, NoThreads DEF Direct
    <3>1. Live
      BY <2>1, <2>4 DEF Live
    <3>2. Flow' /\ Base' = Base /\ m.n = Base + fNOutput + 1
      BY <1>0, <1>10, <3>1, FlowMerge
    <3> HIDE DEF m
    <3>3. file' = Append(file, m)
      BY <2>1, <2>4, WriteFacts
    <3>4. Behind(m.n - 1)
      <4>1. Behind(Base + fNOutput) /\ m.n - 1 = Base + fNOutput
        BY <1>0, <1>a, <3>1, <3>2
      <4> QED BY <4>1
    <3>5. WrittenInOrder' /\ Len(file') >= 1 /\ file'[Len(file')] = m
      BY <1>0, <2>1, <3>3, <3>4, InOrderMessage
    <3>6. Base' + fNOutput' = m.n
      BY <1>a, <2>1, <3>2
    <3>7. Behind(Base + fNOutput)'
      BY <3>5, <3>6 DEF Behind
    <3> QED BY <1>0, <2>2, <3>a, <3>2, <3>5, <3>7 DEF Order
  <2> QED BY <2>3, <2>4
<1>11. CASE MergerEnds
  <2>1. UNCHANGED <<file, pc, current, produced, input, fWorker>> /\ Merger \notin alive'
    BY <1>11 DEF MergerEnds, device, writing, source
  <2>2. UNCHANGED fStopRequested
    BY <1>11 DEF MergerEnds, stops
  <2> QED BY <2>1, <2>2, OrderSameFile DEF Live, Direct, Copying
<1> QED BY <1>2, <1>3, <1>4, <1>5, <1>6, <1>7, <1>8, <1>9, <1>10, <1>11, <1>12, Steps DEF MergerThread

(* The device starts with an empty file. *)
LEMMA OrderInit == Init => Order
<1> SUFFICES ASSUME Init PROVE Order
  OBVIOUS
<1>1. pc = "ready" /\ alive = {} /\ file = <<>> /\ input = <<>>
  BY DEF Init
<1>2. Len(file) = 0 /\ Len(input) = 0
  BY <1>1
<1>3. ~Live /\ ~Direct /\ ~Copying
  BY <1>1 DEF Live, Direct, Copying
<1>4. InputInOrder /\ WrittenInOrder
  BY <1>2 DEF InputInOrder, WrittenInOrder
<1> QED BY <1>3, <1>4 DEF Order

(* The file holds the messages in the order of their arrival and without a gap, whatever the number *)
(* of workers, the length of their channels and the order in which they are done, also while the *)
(* run is stopped, unless a worker's send to the merger can time out (CompressData, Merge, WriteData): *)
(* then it could leave its turn out. *)
THEOREM FileInOrder == ASSUME ~SlowWriter PROVE Spec => []WrittenInOrder
<1> DEFINE Inv == ~SlowWriter => Order
<1>1. Inv => WrittenInOrder
  BY DEF Order
<1>2. Init => Inv
  BY OrderInit
<1>3. Types /\ Inv /\ [Next]_vars => Inv'
  BY OrderNext
<1> HIDE DEF Inv
<1> QED BY <1>1, <1>2, <1>3, TypesInit, TypesNext, PTL DEF Spec

-----------------------------------------------------------------------------
(* A queue of one run with a message more or less. *)
LEMMA OfRunMore ==
  ASSUME NEW q \in Seq(Messages), NEW r, OfRun(q, r), NEW x \in Messages, x.run = r
  PROVE  OfRun(Append(q, x), r)
<1> DEFINE s == Append(q, x)
<1>1. /\ Len(q) \in Nat /\ Len(s) = Len(q) + 1 /\ s[Len(q) + 1] = x /\ \A i \in 1 .. Len(q) : s[i] = q[i]
  OBVIOUS
<1> HIDE DEF s
<1>2. \A i \in 1 .. Len(s) : i \in 1 .. Len(q) \/ i = Len(q) + 1
  BY <1>1
<1>3. OfRun(s, r)
  BY <1>1, <1>2 DEF OfRun
<1> QED BY <1>3 DEF s

(* The first message and the rest of a queue of one run. *)
LEMMA OfRunLess ==
  ASSUME NEW q \in Seq(Messages), NEW r, OfRun(q, r), q # <<>>
  PROVE  OfRun(Tail(q), r) /\ Head(q).run = r
<1>1. /\ Len(q) \in Nat /\ Len(q) > 0 /\ Len(Tail(q)) = Len(q) - 1 /\ Head(q) = q[1]
      /\ \A i \in 1 .. Len(Tail(q)) : Tail(q)[i] = q[i + 1] /\ i + 1 \in 1 .. Len(q)
  OBVIOUS
<1> QED BY <1>1 DEF OfRun

(* A message of the run, or what is none, is written. *)
LEMMA OwnWritten ==
  ASSUME Types, WrittenInOwnRun, NEW x \in Items, file' = Append(file, x), UNCHANGED run,
         x \notin {Header, Trailer} => x.run = run
  PROVE  WrittenInOwnRun'
<1>1. /\ Len(file) \in Nat /\ Len(file') = Len(file) + 1 /\ file'[Len(file) + 1] = x
      /\ \A i \in 1 .. Len(file) : file'[i] = file[i]
  BY LongerFile
<1>2. ASSUME NEW i \in 1 .. Len(file'), file'[i] \notin {Header, Trailer} PROVE file'[i].run = run'
  <2>1. CASE i = Len(file) + 1
    BY <1>1, <1>2, <2>1
  <2>2. CASE i # Len(file) + 1
    <3>1. i \in 1 .. Len(file)
      BY <1>1, <2>2
    <3> QED BY <1>1, <1>2, <3>1 DEF WrittenInOwnRun, IsMessage
  <2> QED BY <2>1, <2>2
<1> QED BY <1>2 DEF WrittenInOwnRun, IsMessage

(* What is left alone stays of its run. *)
LEMMA OwnUnchanged ==
  ASSUME Own, UNCHANGED run
  PROVE  /\ UNCHANGED <<input, drained, pc>> => Drained'
         /\ UNCHANGED <<input, pc>> => Emptied'
         /\ UNCHANGED input => InputOwn'
         /\ UNCHANGED <<merger, splitter, working, pc>> => WorkersOwn'
         /\ UNCHANGED <<merger, splitter, working>> /\ pc \in {"idle", "split", "copy", "join"} => WorkersOwn'
         /\ UNCHANGED <<pc, current>> => CurrentOwn'
         /\ pc' \notin {"split", "copy"} => CurrentOwn'
         /\ UNCHANGED file => WrittenInOwnRun'
BY DEF Own, Drained, Emptied, InputOwn, WorkersOwn, CurrentOwn, WrittenInOwnRun, IsMessage

(* The rest of the system: a message is of the run in which it is sent. *)
LEMMA OwnAround ==
  ASSUME Types, Own, StopsFirst, Deliver \/ RequestStop \/ StopUpstream
  PROVE  Own'
<1>1. CASE Deliver
  <2>1. /\ upstream /\ produced < MaxMessages /\ produced' = produced + 1
        /\ input' = Append(input, [n |-> produced', run |-> run]) /\ UNCHANGED <<upstream, run>>
        /\ Len(input) < InputHWM /\ pc \notin {"drain", "report", "ready"}
        /\ UNCHANGED <<pc, drained, current, splitter, merger, working, file>>
    BY <1>1 DEF Deliver, device, threads, writing
  <2>2. input \in Seq(Messages) /\ produced \in Nat /\ run \in 1 .. MaxRuns /\ drained \in Nat
    BY <2>1, Constants DEF Types, InputOK, CountersOK
  <2>3. [n |-> produced', run |-> run] \in Messages
    BY <2>1, <2>2, Constants DEF Messages
  <2>4. Len(input') = Len(input) + 1 /\ Len(input) \in Nat
    BY <2>1, <2>2, <2>3
  <2>5. Drained'
    BY <2>1, <2>2, <2>4, Constants DEF Drained
  <2>6. Emptied'
    BY <2>1 DEF Emptied
  <2>7. InputOwn'
    <3>1. [n |-> produced', run |-> run].run = run
      OBVIOUS
    <3>2. OfRun(Append(input, [n |-> produced', run |-> run]), run)
      BY <2>2, <2>3, <3>1, OfRunMore DEF Own, InputOwn
    <3> QED BY <2>1, <3>2 DEF InputOwn
  <2> QED BY <2>1, <2>5, <2>6, <2>7, OwnUnchanged DEF Own
<1>2. CASE RequestStop
  <2>1. UNCHANGED <<pc, drained, current, input, produced, upstream, run, splitter, merger, working, file>>
    BY <1>2 DEF RequestStop, device, threads, writing, source
  <2> QED BY <2>1, OwnUnchanged DEF Own
<1>3. CASE StopUpstream
  <2>1. UNCHANGED <<pc, drained, current, input, produced, run, splitter, merger, working, file>>
    BY <1>3 DEF StopUpstream, device, threads, writing
  <2> QED BY <2>1, OwnUnchanged DEF Own
<1> QED BY <1>1, <1>2, <1>3

(* A run begins with nothing of an earlier one. *)
LEMMA OwnPreRun ==
  ASSUME Types, Own, ~fStopRequested, PreRun
  PROVE  Own'
<1>1. /\ pc = "ready" /\ pc' = "idle" /\ UNCHANGED <<input, produced>> /\ file' = <<Header>>
      /\ splitter' = [w \in Workers |-> <<>>] /\ merger' = [w \in Workers |-> <<>>]
      /\ working' = [w \in Workers |-> None]
  BY DEF PreRun
<1>2. input = <<>>
  BY <1>1 DEF Own, Emptied
<1>3. Drained' /\ Emptied' /\ CurrentOwn'
  BY <1>1 DEF Own, Drained, Emptied, CurrentOwn
<1>4. \A r : OfRun(<<>>, r)
  BY NewFileFacts DEF OfRun
<1>5. InputOwn'
  BY <1>1, <1>2, <1>4 DEF InputOwn
<1>6. WorkersOwn'
  BY <1>1, <1>4 DEF WorkersOwn
<1>7. WrittenInOwnRun'
  <2>1. Len(file') = 1 /\ file'[1] = Header
    BY <1>1, NewFileFacts
  <2> QED BY <2>1 DEF WrittenInOwnRun, IsMessage
<1> QED BY <1>3, <1>5, <1>6, <1>7 DEF Own

(* PostRun leaves nothing in the input, if it receives as often as messages may wait there. *)
LEMMA OwnLifeCycle ==
  ASSUME Types, Own, ~fStopRequested, InputHWM <= DrainLimit, LifeCycle
  PROVE  Own'
<1>0. input \in Seq(Messages) /\ produced \in 0 .. MaxMessages /\ drained \in Nat /\ Len(input) \in Nat
  <2>1. input \in Seq(Messages) /\ produced \in 0 .. MaxMessages /\ drained \in Nat
    BY DEF Types, InputOK, CountersOK
  <2> QED BY <2>1
<1>1. CASE BeginPostRun
  <2>1. /\ pc = "idle" /\ pc' = "join"
        /\ UNCHANGED <<drained, current, input, produced, upstream, run, splitter, merger, working, file>>
    BY <1>1 DEF BeginPostRun, threads, writing, source
  <2>2. Drained' /\ Emptied'
    BY <2>1 DEF Own, Drained, Emptied
  <2> QED BY <2>1, <2>2, OwnUnchanged DEF Own
<1>2. CASE Join
  <2>1. /\ pc = "join" /\ pc' = "drain" /\ drained' = 0
        /\ UNCHANGED <<current, input, produced, upstream, run, splitter, merger, working, file>>
    BY <1>2 DEF Join, writing, source
  <2>2. Drained' /\ Emptied'
    BY <1>0, <2>1 DEF Own, Drained, Emptied
  <2> QED BY <2>1, <2>2, OwnUnchanged DEF Own
<1>3. CASE DrainOne
  <2>1. /\ pc = "drain" /\ UNCHANGED pc /\ input # <<>> /\ input' = Tail(input) /\ drained' = drained + 1
        /\ UNCHANGED <<current, produced, upstream, run, splitter, merger, working, file>>
    BY <1>3 DEF DrainOne, threads, writing
  <2>2. Len(input') = Len(input) - 1
    BY <1>0, <2>1
  <2>3. Drained' /\ Emptied'
    BY <1>0, <2>1, <2>2, Constants DEF Own, Drained, Emptied
  <2>4. InputOwn'
    BY <1>0, <2>1, OfRunLess DEF Own, InputOwn
  <2> QED BY <2>1, <2>3, <2>4, OwnUnchanged DEF Own
<1>4. CASE EndPostRun
  <2>1. /\ pc = "drain" /\ pc' = "report" /\ file' = Append(file, Trailer)
        /\ input = <<>> \/ drained = DrainLimit
        /\ UNCHANGED <<drained, current, input, produced, upstream, run, splitter, merger, working>>
    BY <1>4 DEF EndPostRun, Put, threads, source
  <2>2. input = <<>>
    <3>1. drained = DrainLimit => Len(input) = 0
      BY <1>0, <2>1, Constants DEF Own, Drained
    <3> QED BY <1>0, <2>1, <3>1
  <2>3. Drained' /\ Emptied'
    BY <2>1, <2>2 DEF Own, Drained, Emptied
  <2>4. WrittenInOwnRun'
    BY <2>1, Kinds, OwnWritten DEF Own
  <2>5. WorkersOwn'
    BY <2>1 DEF WorkersOwn
  <2> QED BY <2>1, <2>3, <2>4, <2>5, OwnUnchanged DEF Own
<1>5. CASE CloseFile
  <2>1. /\ pc = "report" /\ pc' = "ready"
        /\ UNCHANGED <<drained, current, input, produced, upstream, run, splitter, merger, working, file>>
    BY <1>5 DEF CloseFile, threads, source
  <2>2. Drained' /\ Emptied' /\ WorkersOwn'
    BY <2>1 DEF Own, Drained, Emptied, WorkersOwn
  <2> QED BY <2>1, <2>2, OwnUnchanged DEF Own
<1>6. CASE InitTask
  <2>1. pc = "ready" /\ ~joinable
    BY <1>6 DEF InitTask, Types, ThreadsOK
  <2>2. UNCHANGED <<pc, drained, current, input, produced, upstream, run, splitter, merger, working, file>>
    BY <1>6, <2>1 DEF InitTask, source
  <2> QED BY <2>2, OwnUnchanged DEF Own
<1> QED BY <1>1, <1>2, <1>3, <1>4, <1>5, <1>6 DEF LifeCycle

(* The handler takes a message of the run. *)
LEMMA OwnHandle ==
  ASSUME Types, Own, ~fStopRequested, Handle
  PROVE  Own'
<1>1. /\ pc = "idle" /\ input # <<>> /\ input' = Tail(input) /\ UNCHANGED <<drained, produced, upstream, run>>
      /\ UNCHANGED <<splitter, merger, working>> /\ Head(input) \in Messages
  BY HandleFacts
<1>2. input \in Seq(Messages) /\ produced \in Nat
  BY Constants DEF Types, InputOK
<1>3. Len(input) \in Nat /\ Len(input') = Len(input) - 1
  BY <1>1, <1>2
<1>4. InputOwn' /\ Head(input).run = run
  BY <1>1, <1>2, OfRunLess DEF Own, InputOwn
<1>5. pc' \in {"split", "copy"} /\ current' = Head(input) /\ UNCHANGED file
  BY <1>1, HandleFacts
<1>6. Drained' /\ Emptied' /\ WorkersOwn'
  <2>1. Drained'
    BY <1>1, <1>2, <1>3, <1>5, Constants DEF Own, Drained
  <2>2. Emptied'
    BY <1>5 DEF Emptied
  <2>3. WorkersOwn'
    BY <1>1, OwnUnchanged
  <2> QED BY <2>1, <2>2, <2>3
<1>7. CurrentOwn'
  BY <1>1, <1>4, <1>5 DEF CurrentOwn
<1> QED BY <1>1, <1>4, <1>5, <1>6, <1>7, OwnUnchanged DEF Own

(* The message that the handler writes is of the run. *)
LEMMA OwnCopies ==
  ASSUME Types, Own, Copies
  PROVE  Own'
<1>1. /\ pc = "copy" /\ current \in Messages /\ pc' = "idle" /\ file' = Append(file, current)
      /\ UNCHANGED <<drained, input, produced, upstream, run, splitter, merger, working>>
  BY CopyFacts
<1>2. Drained' /\ Emptied'
  BY <1>1 DEF Own, Drained, Emptied
<1>3. WrittenInOwnRun'
  <2>1. current.run = run
    BY <1>1 DEF Own, CurrentOwn
  <2> QED BY <1>1, <2>1, Kinds, OwnWritten DEF Own
<1> QED BY <1>1, <1>2, <1>3, OwnUnchanged DEF Own

(* The message dealt out is given to a worker or given up. *)
LEMMA OwnSplit ==
  ASSUME Types, Own, SplitSend \/ SplitInterrupted
  PROVE  Own'
<1>1. /\ pc = "split" /\ current \in Messages /\ pc' = "idle" /\ Turn \in Workers
      /\ UNCHANGED <<drained, merger, working, file, input, produced, upstream, run>>
  BY SplitFacts
<1>2. Drained' /\ Emptied'
  BY <1>1 DEF Own, Drained, Emptied
<1>3. CASE SplitInterrupted
  BY <1>1, <1>2, <1>3, SplitFacts, OwnUnchanged DEF Own
<1>4. CASE SplitSend
  <2>1. splitter' = [splitter EXCEPT ![Turn] = Append(@, current)] /\ current.run = run
        /\ splitter \in [Workers -> Seq(Messages)]
    BY <1>1, <1>4, SplitFacts DEF Own, CurrentOwn, Types, ChannelsOK
  <2>2. ASSUME NEW w \in Workers PROVE OfRun(splitter'[w], run)
    <3>1. OfRun(splitter[w], run) /\ splitter[w] \in Seq(Messages)
      BY <1>1, <2>1 DEF Own, WorkersOwn
    <3>2. OfRun(Append(splitter[w], current), run)
      BY <1>1, <2>1, <3>1, OfRunMore
    <3>3. splitter'[w] = IF w = Turn THEN Append(splitter[w], current) ELSE splitter[w]
      BY <2>1
    <3> QED BY <3>1, <3>2, <3>3
  <2>3. WorkersOwn'
    BY <1>1, <2>2 DEF Own, WorkersOwn
  <2> QED BY <1>1, <1>2, <2>3, OwnUnchanged DEF Own
<1> QED BY <1>3, <1>4

(* A worker passes on what it has got. *)
LEMMA OwnWorker ==
  ASSUME Types, Own, NEW w \in Workers, Worker(w)
  PROVE  Own'
<1>1. UNCHANGED <<pc, current, drained, file, input, produced, upstream, run>>
  BY WorkerFacts
<1>2. /\ splitter \in [Workers -> Seq(Messages)] /\ merger \in [Workers -> Seq(Messages)]
      /\ working \in [Workers -> Messages \union {None}]
  BY DEF Types, ChannelsOK
<1>3. WorkersOwn'
  <2> SUFFICES ASSUME pc \in {"idle", "split", "copy", "join"}, NEW v \in Workers
               PROVE  OfRun(merger'[v], run) /\ OfRun(splitter'[v], run)
                      /\ (working'[v] # None => working'[v].run = run)
    BY <1>1 DEF WorkersOwn
  <2>1. /\ OfRun(merger[v], run) /\ OfRun(splitter[v], run) /\ (working[v] # None => working[v].run = run)
        /\ OfRun(merger[w], run) /\ OfRun(splitter[w], run) /\ (working[w] # None => working[w].run = run)
    BY DEF Own, WorkersOwn
  <2>2. merger[w] \in Seq(Messages) /\ splitter[w] \in Seq(Messages) /\ working[w] \in Messages \union {None}
    BY <1>2
  <2>3. CASE WorkerReceive(w)
    <3>1. /\ splitter[w] # <<>> /\ UNCHANGED merger /\ splitter' = [splitter EXCEPT ![w] = Tail(@)]
          /\ working' = [working EXCEPT ![w] = IF fStopRequested THEN None ELSE Head(splitter[w])]
      BY <2>3 DEF WorkerReceive
    <3>2. OfRun(Tail(splitter[w]), run) /\ Head(splitter[w]).run = run
      BY <2>1, <2>2, <3>1, OfRunLess
    <3> QED BY <1>2, <2>1, <3>1, <3>2
  <2>4. CASE WorkerSend(w)
    <3>1. /\ working[w] # None /\ UNCHANGED splitter /\ working' = [working EXCEPT ![w] = None]
          /\ merger' = [merger EXCEPT ![w] = Append(@, working[w])]
      BY <2>4 DEF WorkerSend
    <3>2. OfRun(Append(merger[w], working[w]), run)
      BY <2>1, <2>2, <3>1, OfRunMore
    <3> QED BY <1>2, <2>1, <3>1, <3>2
  <2>5. CASE WorkerSendTimesOut(w)
    <3>1. UNCHANGED <<splitter, merger>> /\ working' = [working EXCEPT ![w] = None]
      BY <2>5 DEF WorkerSendTimesOut
    <3> QED BY <1>2, <2>1, <3>1
  <2>6. CASE WorkerEnds(w)
    <3>1. UNCHANGED <<splitter, merger, working>>
      BY <2>6 DEF WorkerEnds
    <3> QED BY <2>1, <3>1
  <2> QED BY <2>3, <2>4, <2>5, <2>6 DEF Worker
<1> QED BY <1>1, <1>3, OwnUnchanged DEF Own

(* The merger writes what it has got. *)
LEMMA OwnMerger ==
  ASSUME Types, Own, ~fStopRequested, MergerThread
  PROVE  Own'
<1>1. CASE Merge
  <2>1. /\ Merger \in alive /\ MergeTurn \in Workers /\ merger[MergeTurn] # <<>>
        /\ Head(merger[MergeTurn]) \in Messages /\ merger' = [merger EXCEPT ![MergeTurn] = Tail(@)]
        /\ WriteData(Head(merger[MergeTurn]))
        /\ UNCHANGED <<pc, current, drained, splitter, working, input, produced, upstream, run>>
    BY <1>1, MergeFacts
  <2>2. pc \in {"idle", "split", "copy", "join"}
    BY <2>1 DEF Types, ControlOK, ThreadsOK
  <2>3. merger \in [Workers -> Seq(Messages)] /\ merger[MergeTurn] \in Seq(Messages)
    BY <2>1 DEF Types, ChannelsOK
  <2>4. OfRun(Tail(merger[MergeTurn]), run) /\ Head(merger[MergeTurn]).run = run
    BY <2>1, <2>2, <2>3, OfRunLess DEF Own, WorkersOwn
  <2>5. ASSUME NEW w \in Workers PROVE OfRun(merger'[w], run)
    <3>1. OfRun(merger[w], run)
      BY <2>2 DEF Own, WorkersOwn
    <3>2. merger'[w] = IF w = MergeTurn THEN Tail(merger[w]) ELSE merger[w]
      BY <2>1, <2>3
    <3> QED BY <2>4, <3>1, <3>2
  <2>6. WorkersOwn'
    BY <2>1, <2>2, <2>5 DEF Own, WorkersOwn
  <2>7. file' = Append(file, Head(merger[MergeTurn]))
    BY <2>1, WriteFacts
  <2>8. WrittenInOwnRun'
    BY <2>1, <2>4, <2>7, Kinds, OwnWritten DEF Own
  <2> QED BY <2>1, <2>6, <2>8, OwnUnchanged DEF Own
<1>2. CASE MergerEnds
  <2>1. UNCHANGED <<pc, drained, current, input, produced, upstream, run, splitter, merger, working, file>>
    BY <1>2 DEF MergerEnds, device, writing, source
  <2> QED BY <2>1, OwnUnchanged DEF Own
<1> QED BY <1>1, <1>2 DEF MergerThread

(* The device starts with nothing. *)
LEMMA OwnInit == Init => Own
<1> SUFFICES ASSUME Init PROVE Own
  OBVIOUS
<1>1. pc = "ready" /\ input = <<>> /\ file = <<>>
  BY DEF Init
<1>2. Len(<<>>) = 0 /\ 0 <= InputHWM
  BY NewFileFacts, Constants
<1> QED BY <1>1, <1>2
     DEF Own, Drained, Emptied, InputOwn, OfRun, WorkersOwn, CurrentOwn, WrittenInOwnRun

(* Every step leaves the messages in the run they belong to. *)
LEMMA OwnNext ==
  StopsFirst /\ InputHWM <= DrainLimit /\ Types /\ ~fStopRequested /\ Own /\ [Next]_vars => Own'
<1> SUFFICES ASSUME StopsFirst, InputHWM <= DrainLimit, Types, ~fStopRequested, Own, [Next]_vars PROVE Own'
  OBVIOUS
<1>1. CASE UNCHANGED vars
  <2>1. UNCHANGED <<pc, drained, current, input, produced, upstream, run, splitter, merger, working, file>>
    BY <1>1 DEF vars, device, threads, writing, source
  <2> QED BY <2>1, OwnUnchanged DEF Own
<1> QED BY <1>1, Steps, OwnAround, OwnPreRun, OwnLifeCycle, OwnHandle, OwnCopies, OwnSplit, OwnWorker, OwnMerger

(* No message of an earlier run gets into the file, without a limit on the writes, if the senders stop *)
(* before PostRun receives and no more messages may wait in the input than it receives: the workers are *)
(* joined and the input is emptied before the device is ready for the next run, although PostRun leaves *)
(* at the first receive that finds nothing, or after ten.  With a limit a skipped PreRun leaves the old file. *)
THEOREM FileOfOneRun ==
  ASSUME MaxIteration = 0, StopsFirst, InputHWM <= DrainLimit PROVE Spec => []WrittenInOwnRun
<1> DEFINE Inv == MaxIteration = 0 /\ StopsFirst /\ InputHWM <= DrainLimit => Framing /\ Own
<1>1. Inv => WrittenInOwnRun
  BY DEF Own
<1>2. Init => Inv
  BY FramingInit, OwnInit
<1>3. Types /\ Inv /\ [Next]_vars => Inv'
  BY FramingNext, OwnNext DEF Framing
<1> HIDE DEF Inv
<1> QED BY <1>1, <1>2, <1>3, TypesInit, TypesNext, PTL DEF Spec

-----------------------------------------------------------------------------
(* The FileUtil, one method after the other: what each makes of its fields. *)
Fields   == {"fName", "fBranchNum", "isOpen", "branches", "status", "disk"}
FileNames == [run : Int, branch : Int]
Branches == [file : FileNames, raw : Nat, compressed : Nat, n : Nat]
States   == {"ok", "thrown", "undefined"}
NewBranch(name) == [file |-> name, raw |-> 0, compressed |-> 0, n |-> 0]

Util(u) ==
  /\ DOMAIN u = Fields
  /\ u.fName \in FileNames /\ u.fBranchNum \in Int /\ u.isOpen \in BOOLEAN
  /\ u.branches \in Seq(Branches) /\ u.status \in States
  /\ u.isOpen => u.fName \in DOMAIN u.disk

(* A new object has no branches and no file. *)
LEMMA NewFileUtil ==
  ASSUME NEW disk
  PROVE  LET u == NewFile(disk)
         IN  /\ Util(u) /\ u.branches = <<>> /\ u.status = "ok" /\ u.disk = disk /\ u.isOpen = FALSE
             /\ u.fName \in {NoName, Path} /\ u.fBranchNum = -1 /\ (~PathGiven => u.fName = NoName)
<1> DEFINE u == NewFile(disk)
<1>1. /\ DOMAIN u = Fields /\ u.branches = <<>> /\ u.status = "ok" /\ u.disk = disk /\ u.isOpen = FALSE
      /\ u.fBranchNum = -1 /\ u.fName = IF PathGiven THEN Path ELSE NoName
  BY DEF NewFile, Fields
<1>2. Path \in FileNames /\ NoName \in FileNames
  BY DEF Path, NoName, FileNames
<1>3. u.fName \in {NoName, Path} /\ (~PathGiven => u.fName = NoName)
  BY <1>1
<1>4. <<>> \in Seq(Branches) /\ -1 \in Int /\ "ok" \in States /\ FALSE \in BOOLEAN
  BY DEF States
<1> QED BY <1>1, <1>2, <1>3, <1>4 DEF Util

(* To forget the branches. *)
LEMMA ClearFileUtil ==
  ASSUME NEW u, Util(u)
  PROVE  LET v == ClearBranch(u)
         IN  /\ Util(v) /\ v.branches = <<>> /\ v.fBranchNum = 0
             /\ v.fName = u.fName /\ v.isOpen = u.isOpen /\ v.status = u.status /\ v.disk = u.disk
<1> DEFINE v == ClearBranch(u)
<1>1. /\ DOMAIN v = Fields /\ v.branches = <<>> /\ v.fBranchNum = 0
      /\ v.fName = u.fName /\ v.isOpen = u.isOpen /\ v.status = u.status /\ v.disk = u.disk
  BY DEF ClearBranch, Util, Fields
<1>2. <<>> \in Seq(Branches) /\ 0 \in Int
  OBVIOUS
<1> HIDE DEF v
<1>3. Util(v)
  BY <1>1, <1>2 DEF Util
<1> QED BY <1>1, <1>3 DEF v

(* To close the file. *)
LEMMA CloseFileUtil ==
  ASSUME NEW u, Util(u)
  PROVE  LET v == Close(u)
         IN  /\ Util(v) /\ v.branches = u.branches /\ v.fBranchNum = u.fBranchNum
             /\ v.isOpen = FALSE /\ v.status = u.status /\ v.disk = u.disk
             /\ (u.isOpen => v.fName = NoName) /\ (~u.isOpen => v.fName = u.fName)
<1> DEFINE v == Close(u)
<1>1. CASE u.isOpen
  <2>1. /\ DOMAIN v = Fields /\ v.branches = u.branches /\ v.fBranchNum = u.fBranchNum
        /\ v.fName = NoName /\ v.isOpen = FALSE /\ v.status = u.status /\ v.disk = u.disk
    BY <1>1 DEF Close, Util, Fields
  <2>2. NoName \in FileNames /\ FALSE \in BOOLEAN
    BY DEF NoName, FileNames
  <2> HIDE DEF v
  <2>3. Util(v)
    BY <2>1, <2>2 DEF Util
  <2> QED BY <1>1, <2>1, <2>3 DEF v
<1>2. CASE ~u.isOpen
  <2>1. v = u /\ u.isOpen = FALSE
    BY <1>2 DEF Close, Util
  <2> QED BY <1>2, <2>1
<1> QED BY <1>1, <1>2

(* To count a new branch. *)
LEMMA NextFileUtil ==
  ASSUME NEW u, Util(u)
  PROVE  LET v == NextBranch(u)
         IN  /\ Util(v) /\ v.branches = u.branches /\ v.fName = u.fName
             /\ v.isOpen = u.isOpen /\ v.status = u.status /\ v.disk = u.disk
             /\ v.fBranchNum = IF u.fBranchNum >= 0 THEN u.fBranchNum + 1 ELSE u.fBranchNum
<1> DEFINE v == NextBranch(u)
<1>1. CASE u.fBranchNum >= 0
  <2>1. /\ DOMAIN v = Fields /\ v.branches = u.branches /\ v.fName = u.fName
        /\ v.isOpen = u.isOpen /\ v.status = u.status /\ v.disk = u.disk
    BY <1>1 DEF NextBranch, Util, Fields
  <2>2. v.fBranchNum = u.fBranchNum + 1
    BY <1>1 DEF NextBranch, Util, Fields
  <2>3. v.fBranchNum \in Int
    BY <2>2 DEF Util
  <2> HIDE DEF v
  <2>4. Util(v)
    BY <2>1, <2>3 DEF Util
  <2> QED BY <1>1, <2>1, <2>2, <2>4 DEF v
<1>2. CASE ~(u.fBranchNum >= 0)
  BY <1>2 DEF NextBranch
<1> QED BY <1>1, <1>2

(* To make up the name of the next branch. *)
LEMMA NameFileUtil ==
  ASSUME NEW u, Util(u), NEW r \in Int, ~u.isOpen
  PROVE  LET v == NameFile(u, r)
         IN  /\ Util(v) /\ v.branches = u.branches
             /\ v.isOpen = u.isOpen /\ v.status = u.status /\ v.disk = u.disk
             /\ v.fBranchNum = (IF Split = "none" THEN -1 ELSE u.fBranchNum)
             /\ v.fName = [run |-> r, branch |-> v.fBranchNum]
<1> DEFINE num == IF Split = "none" THEN -1 ELSE u.fBranchNum
           v == NameFile(u, r)
<1>1. num \in Int
  BY DEF Util
<1> HIDE DEF num
<1>2. v = [u EXCEPT !.fName = [run |-> r, branch |-> num], !.fBranchNum = num]
  BY DEF NameFile, num
<1> HIDE DEF v
<1>3. /\ DOMAIN v = Fields /\ v.branches = u.branches
      /\ v.isOpen = u.isOpen /\ v.status = u.status /\ v.disk = u.disk
  BY <1>2 DEF Util, Fields
<1>4. v.fBranchNum = num /\ v.fName = [run |-> r, branch |-> num]
  BY <1>2 DEF Util, Fields
<1>5. v.fName \in FileNames
  BY <1>1, <1>4 DEF FileNames
<1>6. Util(v)
  BY <1>1, <1>3, <1>4, <1>5 DEF Util
<1> QED BY <1>3, <1>4, <1>6 DEF v, num

(* To open a file that is empty, new or not. *)
LEMMA OpenFileUtil ==
  ASSUME NEW u, Util(u)
  PROVE  LET v == OpenBranch(u)
         IN  /\ Util(v) /\ v.branches = Append(u.branches, NewBranch(u.fName))
             /\ v.isOpen = TRUE /\ v.status = u.status
             /\ v.fName = u.fName /\ v.fBranchNum = u.fBranchNum
             /\ DOMAIN v.disk = DOMAIN u.disk \cup {u.fName}
             /\ v.disk[u.fName] = <<>>
             /\ \A f \in DOMAIN u.disk : f # u.fName => v.disk[f] = u.disk[f]
<1> DEFINE v == OpenBranch(u)
           d == [f \in DOMAIN u.disk \union {u.fName} |-> IF f = u.fName THEN <<>> ELSE u.disk[f]]
<1>1. /\ DOMAIN v = Fields /\ v.branches = Append(u.branches, NewBranch(u.fName))
      /\ v.isOpen = TRUE /\ v.status = u.status
      /\ v.fName = u.fName /\ v.fBranchNum = u.fBranchNum /\ v.disk = d
  BY DEF OpenBranch, Util, Fields, NewBranch
<1>2. /\ DOMAIN d = DOMAIN u.disk \cup {u.fName}
      /\ d[u.fName] = <<>>
      /\ \A f \in DOMAIN u.disk : f # u.fName => d[f] = u.disk[f]
  OBVIOUS
<1> HIDE DEF d, v
<1>3. NewBranch(u.fName) \in Branches
  BY DEF NewBranch, Branches, Util
<1>4. v.branches \in Seq(Branches)
  BY <1>1, <1>3 DEF Util
<1>5. v.isOpen \in BOOLEAN
  BY <1>1, Zenon
<1>6. Util(v)
  BY <1>1, <1>2, <1>4, <1>5 DEF Util
<1> QED BY <1>1, <1>2, <1>6 DEF v

-----------------------------------------------------------------------------
(* The outcomes of Open: it throws, leaves an existing file alone, or opens the file. *)
Named(u, r, v) ==
  /\ v.fBranchNum = IF u.fName = NoName /\ Split = "none" THEN -1 ELSE u.fBranchNum
  /\ v.fName = IF u.fName = NoName THEN [run |-> r, branch |-> v.fBranchNum] ELSE u.fName
  /\ v.status = u.status
Throws(u, v) ==
  /\ PathGiven /\ u.fName = NoName /\ v.status = "thrown"
  /\ v.fName = u.fName /\ v.fBranchNum = u.fBranchNum
  /\ v.isOpen = FALSE /\ v.branches = u.branches /\ v.disk = u.disk
Leaves(u, r, v) ==
  /\ Named(u, r, v) /\ Openmode = "create" /\ v.fName \in DOMAIN u.disk
  /\ v.isOpen = FALSE /\ v.branches = u.branches /\ v.disk = u.disk
  /\ PathGiven => u.fName # NoName
Opens(u, r, v) ==
  /\ Named(u, r, v) /\ (Openmode = "create" => v.fName \notin DOMAIN u.disk)
  /\ v.isOpen = TRUE /\ v.branches = Append(u.branches, NewBranch(v.fName))
  /\ DOMAIN v.disk = DOMAIN u.disk \cup {v.fName}
  /\ v.disk[v.fName] = <<>> /\ \A f \in DOMAIN u.disk : f # v.fName => v.disk[f] = u.disk[f]
  /\ PathGiven => u.fName # NoName

(* There are no others. *)
LEMMA OpenOutcomes ==
  ASSUME NEW u, Util(u), ~u.isOpen, NEW r \in Int
  PROVE  LET v == Open(u, r)
         IN  Util(v) /\ (Throws(u, v) \/ Leaves(u, r, v) \/ Opens(u, r, v))
<1> DEFINE v == Open(u, r)
<1>1. CASE u.fName = NoName /\ PathGiven
  <2>1. v = [u EXCEPT !.status = "thrown"]
    BY <1>1 DEF Open
  <2>2. /\ DOMAIN v = Fields /\ v.branches = u.branches /\ v.fName = u.fName /\ v.isOpen = u.isOpen
        /\ v.disk = u.disk /\ v.fBranchNum = u.fBranchNum /\ v.status = "thrown"
    BY <2>1 DEF Util, Fields
  <2> HIDE DEF v
  <2>3. v.isOpen = FALSE
    BY <2>2 DEF Util
  <2>4. Util(v)
    BY <2>2 DEF Util, States
  <2>5. Throws(u, v)
    BY <1>1, <2>2, <2>3 DEF Throws
  <2> QED BY <2>4, <2>5 DEF v
<1>2. CASE ~(u.fName = NoName /\ PathGiven)
  <2> DEFINE w == IF u.fName = NoName THEN NameFile(u, r) ELSE u
             o == OpenBranch(w)
  <2>1. /\ Util(w) /\ Named(u, r, w) /\ ~w.isOpen /\ w.branches = u.branches /\ w.disk = u.disk
    <3>1. CASE u.fName = NoName
      <4>1. w = NameFile(u, r)
        BY <3>1
      <4> HIDE DEF w
      <4> QED BY <3>1, <4>1, NameFileUtil DEF Named
    <3>2. CASE u.fName # NoName
      <4>1. w = u
        BY <3>2
      <4> HIDE DEF w
      <4> QED BY <3>2, <4>1 DEF Named
    <3> QED BY <3>1, <3>2
  <2>2. v = IF w.fName \in DOMAIN w.disk /\ Openmode = "create" THEN w ELSE o
    BY <1>2 DEF Open
  <2> HIDE DEF w, v
  <2>3. CASE w.fName \in DOMAIN w.disk /\ Openmode = "create"
    <3>1. v = w /\ w.isOpen = FALSE
      BY <2>1, <2>2, <2>3 DEF Util
    <3>2. Leaves(u, r, v)
      BY <1>2, <2>1, <2>3, <3>1 DEF Leaves
    <3> QED BY <2>1, <3>1, <3>2 DEF v
  <2>4. CASE ~(w.fName \in DOMAIN w.disk /\ Openmode = "create")
    <3>1. v = o
      BY <2>2, <2>4
    <3>2. /\ Util(o) /\ o.branches = Append(w.branches, NewBranch(w.fName))
          /\ o.isOpen = TRUE /\ o.status = w.status
          /\ o.fName = w.fName /\ o.fBranchNum = w.fBranchNum
          /\ DOMAIN o.disk = DOMAIN w.disk \cup {w.fName}
          /\ o.disk[w.fName] = <<>>
          /\ \A f \in DOMAIN w.disk : f # w.fName => o.disk[f] = w.disk[f]
      BY <2>1, OpenFileUtil
    <3> HIDE DEF o
    <3>3. Named(u, r, o)
      BY <2>1, <3>2 DEF Named
    <3>4. Opens(u, r, o)
      BY <1>2, <2>1, <2>4, <3>2, <3>3 DEF Opens
    <3> QED BY <3>1, <3>2, <3>4 DEF v
  <2> QED BY <2>3, <2>4
<1> QED BY <1>1, <1>2

-----------------------------------------------------------------------------
(* What a write makes of the branch in hand and of its file. *)
Adds(u, item, length, w) ==
  /\ w.branches = [u.branches EXCEPT ![Len(u.branches)] = Count(@, length)]
  /\ w.disk = IF u.isOpen THEN [u.disk EXCEPT ![u.fName] = Append(u.disk[u.fName], item)] ELSE u.disk
  /\ w.fName = u.fName /\ w.fBranchNum = u.fBranchNum /\ w.isOpen = u.isOpen /\ w.status = u.status

(* A branch is counted on. *)
LEMMA CountBranch ==
  ASSUME NEW x \in Branches, NEW length \in Nat
  PROVE  LET c == Count(x, length)
         IN  c \in Branches /\ c.file = x.file /\ c.raw = x.raw + length /\ c.n = x.n + 1
<1> DEFINE m == IF Packs THEN length ELSE 0
           c == Count(x, length)
<1>1. m \in Nat
  OBVIOUS
<1>2. c = [x EXCEPT !.raw = @ + length, !.n = @ + 1, !.compressed = @ + m]
  BY DEF Count
<1> HIDE DEF m, c
<1>3. c = [file |-> x.file, raw |-> x.raw + length, compressed |-> x.compressed + m, n |-> x.n + 1]
  BY <1>2 DEF Branches
<1>4. x.file \in FileNames /\ x.raw \in Nat /\ x.compressed \in Nat /\ x.n \in Nat
  BY DEF Branches
<1>5. x.raw + length \in Nat /\ x.compressed + m \in Nat /\ x.n + 1 \in Nat
  BY <1>1, <1>4
<1>6. c \in Branches /\ c.file = x.file /\ c.raw = x.raw + length /\ c.n = x.n + 1
  BY <1>3, <1>4, <1>5 DEF Branches
<1> QED BY <1>6 DEF c

(* If there is a branch, a write adds to it, and then opens the next one if it is full. *)
LEMMA WriteOutcomes ==
  ASSUME NEW u, Util(u), NEW item, NEW length \in Nat, NEW r \in Int
  PROVE  LET v == Write(u, item, length, r)
         IN  /\ u.status # "ok" => v = u
             /\ u.status = "ok" /\ u.branches = <<>> =>
                  /\ Util(v) /\ v.status = "undefined" /\ v.fName = u.fName /\ v.fBranchNum = u.fBranchNum
                  /\ v.isOpen = u.isOpen /\ v.branches = <<>> /\ v.disk = u.disk
             /\ u.status = "ok" /\ u.branches # <<>> =>
                  \E w : /\ Util(w) /\ Adds(u, item, length, w) /\ w.branches # <<>>
                         /\ ~Full(Last(w.branches)) => v = w
                         /\ Full(Last(w.branches)) => v = Open(NextBranch(Close(w)), r)
<1> DEFINE v == Write(u, item, length, r)
<1>1. u.status # "ok" => v = u
  BY DEF Write
<1>2. ASSUME u.status = "ok", u.branches = <<>>
      PROVE  /\ Util(v) /\ v.status = "undefined" /\ v.fName = u.fName /\ v.fBranchNum = u.fBranchNum
             /\ v.isOpen = u.isOpen /\ v.branches = <<>> /\ v.disk = u.disk
  <2>1. v = [u EXCEPT !.status = "undefined"]
    BY <1>2 DEF Write
  <2> HIDE DEF v
  <2>2. /\ DOMAIN v = Fields /\ v.branches = u.branches /\ v.fName = u.fName /\ v.isOpen = u.isOpen
        /\ v.disk = u.disk /\ v.fBranchNum = u.fBranchNum /\ v.status = "undefined"
    BY <2>1 DEF Util, Fields
  <2> QED BY <1>2, <2>2 DEF Util, States
<1>3. ASSUME u.status = "ok", u.branches # <<>>
      PROVE  \E w : /\ Util(w) /\ Adds(u, item, length, w) /\ w.branches # <<>>
                    /\ ~Full(Last(w.branches)) => v = w
                    /\ Full(Last(w.branches)) => v = Open(NextBranch(Close(w)), r)
  <2> DEFINE w == [u EXCEPT !.branches[Len(u.branches)] = Count(@, length),
                            !.disk = IF u.isOpen
                                     THEN [u.disk EXCEPT ![u.fName] = Append(u.disk[u.fName], item)]
                                     ELSE u.disk]
             b == [u.branches EXCEPT ![Len(u.branches)] = Count(@, length)]
  <2>1. v = IF Full(Last(w.branches)) THEN Open(NextBranch(Close(w)), r) ELSE w
    BY <1>3 DEF Write
  <2>2. /\ DOMAIN w = Fields /\ w.branches = b
        /\ w.disk = IF u.isOpen THEN [u.disk EXCEPT ![u.fName] = Append(u.disk[u.fName], item)] ELSE u.disk
        /\ w.fName = u.fName /\ w.fBranchNum = u.fBranchNum /\ w.isOpen = u.isOpen /\ w.status = u.status
    <3> DEFINE d == IF u.isOpen THEN [u.disk EXCEPT ![u.fName] = Append(u.disk[u.fName], item)] ELSE u.disk
    <3>1. w = [u EXCEPT !.branches = b, !.disk = d]
      OBVIOUS
    <3> HIDE DEF w, b, d
    <3>2. /\ DOMAIN w = Fields /\ w.branches = b /\ w.disk = d
          /\ w.fName = u.fName /\ w.fBranchNum = u.fBranchNum /\ w.isOpen = u.isOpen /\ w.status = u.status
      BY <3>1 DEF Util, Fields
    <3> QED BY <3>2 DEF d
  <2> HIDE DEF w
  <2>3. b \in Seq(Branches) /\ b # <<>>
    <3>1. u.branches \in Seq(Branches) /\ Len(u.branches) \in 1 .. Len(u.branches) /\ Len(u.branches) \in Nat
      BY <1>3 DEF Util
    <3>2. u.branches[Len(u.branches)] \in Branches
      BY <3>1
    <3>3. Count(u.branches[Len(u.branches)], length) \in Branches
      BY <3>2, CountBranch
    <3>4. Len(b) = Len(u.branches)
      BY <3>1
    <3> QED BY <3>1, <3>3, <3>4
  <2>4. Util(w)
    <3>1. w.isOpen => w.fName \in DOMAIN w.disk
      BY <2>2 DEF Util
    <3> QED BY <2>2, <2>3, <3>1 DEF Util
  <2>5. Adds(u, item, length, w)
    BY <2>2 DEF Adds
  <2> QED BY <2>1, <2>2, <2>3, <2>4, <2>5
<1> QED BY <1>1, <1>2, <1>3

-----------------------------------------------------------------------------
(* A name that is kept although no file is open is the path, or that of a file that was left alone. *)
NameOK(u) ==
  /\ Util(u)
  /\ ~u.isOpen => u.fName \in {NoName, Path} \/ (Openmode = "create" /\ u.fName \in DOMAIN u.disk)

(* The open file is one of the run. *)
OwnName(u, r) == u.isOpen => u.fName = Path \/ u.fName.run = r

(* Files other than the path and those of the run are left alone. *)
OthersKept(u, r, v) ==
  \A f \in DOMAIN u.disk : f # Path /\ f.run # r => f \in DOMAIN v.disk /\ v.disk[f] = u.disk[f]

(* Open keeps to its run. *)
LEMMA OpenOwn ==
  ASSUME NEW u, NameOK(u), ~u.isOpen, NEW r \in Int
  PROVE  LET v == Open(u, r) IN NameOK(v) /\ OwnName(v, r) /\ OthersKept(u, r, v)
<1> DEFINE v == Open(u, r)
<1>0. SUFFICES NameOK(v) /\ OwnName(v, r) /\ OthersKept(u, r, v)
  OBVIOUS
<1>1. Util(v) /\ (Throws(u, v) \/ Leaves(u, r, v) \/ Opens(u, r, v))
  BY OpenOutcomes DEF NameOK
<1> HIDE DEF v
<1>2. CASE Throws(u, v)
  BY <1>1, <1>2 DEF Throws, NameOK, OwnName, OthersKept
<1>3. CASE Leaves(u, r, v)
  BY <1>1, <1>3 DEF Leaves, NameOK, OwnName, OthersKept
<1>4. CASE Opens(u, r, v)
  <2>1. v.isOpen = TRUE
    BY <1>4 DEF Opens
  <2>2. v.fName = Path \/ v.fName.run = r
    <3>1. CASE u.fName = NoName
      BY <1>4, <3>1 DEF Opens, Named
    <3>2. CASE u.fName # NoName
      BY <1>4, <3>2 DEF Opens, Named, NameOK
    <3> QED BY <3>1, <3>2
  <2>3. OthersKept(u, r, v)
    BY <1>4, <2>2 DEF Opens, OthersKept
  <2> QED BY <1>1, <2>1, <2>2, <2>3 DEF NameOK, OwnName
<1> QED BY <1>1, <1>2, <1>3, <1>4

(* So does a write, also one that goes on to the next branch. *)
LEMMA WriteOwn ==
  ASSUME NEW u, NameOK(u), NEW r \in Int, OwnName(u, r), NEW item, NEW length \in Nat
  PROVE  LET v == Write(u, item, length, r) IN NameOK(v) /\ OwnName(v, r) /\ OthersKept(u, r, v)
<1> DEFINE v == Write(u, item, length, r)
<1>0. Util(u)
  BY DEF NameOK
<1>s. SUFFICES NameOK(v) /\ OwnName(v, r) /\ OthersKept(u, r, v)
  OBVIOUS
<1>1. CASE u.status # "ok"
  <2>1. v = u
    BY <1>0, <1>1, WriteOutcomes
  <2> HIDE DEF v
  <2> QED BY <2>1 DEF v, OthersKept
<1>2. CASE u.status = "ok" /\ u.branches = <<>>
  <2>1. /\ Util(v) /\ v.fName = u.fName /\ v.isOpen = u.isOpen /\ v.disk = u.disk
    BY <1>0, <1>2, WriteOutcomes
  <2> HIDE DEF v
  <2>2. NameOK(v) /\ OwnName(v, r) /\ OthersKept(u, r, v)
    BY <2>1 DEF NameOK, OwnName, OthersKept
  <2> QED BY <2>2 DEF v
<1>3. CASE u.status = "ok" /\ u.branches # <<>>
  <2>1. PICK w : /\ Util(w) /\ Adds(u, item, length, w) /\ w.branches # <<>>
                 /\ ~Full(Last(w.branches)) => v = w
                 /\ Full(Last(w.branches)) => v = Open(NextBranch(Close(w)), r)
    BY <1>0, <1>3, WriteOutcomes
  <2> HIDE DEF v
  <2>2. NameOK(w) /\ OwnName(w, r) /\ OthersKept(u, r, w) /\ DOMAIN w.disk = DOMAIN u.disk
    <3>1. CASE u.isOpen
      <4>1. /\ w.disk = [u.disk EXCEPT ![u.fName] = Append(u.disk[u.fName], item)]
            /\ w.fName = u.fName /\ w.isOpen
        BY <2>1, <3>1 DEF Adds
      <4> QED BY <2>1, <3>1, <4>1 DEF NameOK, OwnName, OthersKept
    <3>2. CASE ~u.isOpen
      <4>1. w.disk = u.disk /\ w.fName = u.fName /\ ~w.isOpen
        BY <2>1, <3>2 DEF Adds
      <4> QED BY <2>1, <3>2, <4>1 DEF NameOK, OwnName, OthersKept
    <3> QED BY <3>1, <3>2
  <2>3. CASE ~Full(Last(w.branches))
    <3>1. v = w
      BY <2>1, <2>3
    <3> QED BY <2>2, <3>1 DEF v
  <2>4. CASE Full(Last(w.branches))
    <3> DEFINE c == Close(w)
               n == NextBranch(c)
    <3>1. Util(c) /\ c.isOpen = FALSE /\ c.disk = w.disk /\ (w.isOpen => c.fName = NoName)
          /\ (~w.isOpen => c.fName = w.fName)
      BY <2>1, CloseFileUtil
    <3> HIDE DEF c
    <3>2. Util(n) /\ n.isOpen = FALSE /\ n.disk = w.disk /\ n.fName = c.fName
      BY <3>1, NextFileUtil
    <3>3. v = Open(n, r)
      BY <2>1, <2>4 DEF c
    <3> HIDE DEF n
    <3>4. NameOK(n)
      BY <2>2, <3>1, <3>2 DEF NameOK
    <3>5. NameOK(v) /\ OwnName(v, r) /\ OthersKept(n, r, v)
      BY <3>2, <3>3, <3>4, OpenOwn
    <3>6. OthersKept(u, r, v)
      BY <2>2, <3>2, <3>5 DEF OthersKept
    <3> QED BY <3>5, <3>6 DEF v
  <2> QED BY <2>3, <2>4
<1> QED BY <1>1, <1>2, <1>3

-----------------------------------------------------------------------------
(* While the device may write to the file it opened in this run. *)
Running == pc \in {"join", "drain"} \/ (pc \in {"idle", "split", "copy"} /\ ~fStopRequested)

(* Every item has a length. *)
LEMMA LengthType == \A item \in Items : LengthOf(item) \in Nat
<1> SUFFICES ASSUME NEW item \in Items PROVE LengthOf(item) \in Nat
  OBVIOUS
<1>1. item.n \in Int
  BY Constants DEF Items, Messages, Header, Trailer
<1>2. Lengths \in Seq(Nat \ {0}) /\ Len(Lengths) \in Nat /\ Len(Lengths) > 0
  BY FSConstantsAssumption DEF FSConstantsAssumption
<1>3. CASE item.n < 0
  BY <1>3 DEF LengthOf
<1>4. CASE ~(item.n < 0)
  <2>1. item.n % Len(Lengths) \in 0 .. Len(Lengths) - 1
    BY <1>1, <1>2
  <2>2. 1 + (item.n % Len(Lengths)) \in 1 .. Len(Lengths)
    BY <1>2, <2>1
  <2>3. Lengths[1 + (item.n % Len(Lengths))] \in Nat
    BY <1>2, <2>2
  <2> QED BY <1>4, <2>3 DEF LengthOf
<1> QED BY <1>3, <1>4

(* What a step may do to the file: nothing, one write, or what its life cycle makes of it. *)
Quiet ==
  /\ UNCHANGED <<fFile, file>>
  /\ pc' = "ready" /\ ~fStopRequested' => pc = "ready" /\ ~fStopRequested
  /\ Running' => Running /\ run' = run
Writes ==
  /\ Running /\ run' = run /\ pc' # "ready"
  /\ \E item \in Items : Put(item)

(* There are no other steps. *)
LEMMA FileSteps ==
  ASSUME Types, [Next]_vars
  PROVE  Quiet \/ Writes \/ (PreRun /\ ~fStopRequested) \/ CloseFile \/ InitTask
<1>1. CASE Deliver \/ RequestStop \/ StopUpstream \/ UNCHANGED vars
  BY <1>1 DEF Deliver, RequestStop, StopUpstream, vars, device, stops, threads, writing, source,
              Quiet, Running
<1>2. CASE PreRun /\ fStopRequested
  <2>1. UNCHANGED <<fFile, file, fStopRequested>> /\ pc' = "idle"
    BY <1>2 DEF PreRun, writing, stops
  <2> QED BY <1>2, <2>1 DEF Quiet, Running
<1>3. CASE BeginPostRun
  <2>1. UNCHANGED <<fFile, file, fStopRequested, run>> /\ pc = "idle" /\ pc' = IF fStopRequested THEN "ready" ELSE "join"
    BY <1>3 DEF BeginPostRun, writing, source
  <2> QED BY <2>1 DEF Quiet, Running
<1>4. CASE Join
  <2>1. UNCHANGED <<fFile, file, fStopRequested, run>> /\ pc = "join" /\ pc' = "drain"
    BY <1>4 DEF Join, writing, source, stops
  <2> QED BY <2>1 DEF Quiet, Running
<1>5. CASE DrainOne
  <2>1. UNCHANGED <<fFile, file, fStopRequested, run, pc>>
    BY <1>5 DEF DrainOne, writing, stops
  <2> QED BY <2>1 DEF Quiet, Running
<1>6. CASE EndPostRun
  <2>1. UNCHANGED run /\ pc = "drain" /\ pc' = "report" /\ Put(Trailer)
    BY <1>6 DEF EndPostRun, source
  <2> QED BY <2>1, Kinds DEF Writes, Running
<1>7. CASE Handle
  <2>1. /\ pc = "idle" /\ UNCHANGED <<run, fStopRequested, file>> /\ pc' # "ready"
        /\ fStopRequested => UNCHANGED pc
    BY <1>7, HandleFacts
  <2>2. UNCHANGED fFile
    BY <1>7 DEF Handle, writing
  <2> QED BY <2>1, <2>2 DEF Quiet, Running
<1>12. CASE Copies
  <2>1. /\ pc = "copy" /\ pc' = "idle" /\ ~fStopRequested /\ current \in Messages /\ UNCHANGED run
        /\ WriteData(current)
    BY <1>12, CopyFacts
  <2>2. Put(current)
    BY <2>1 DEF WriteData
  <2> QED BY <2>1, <2>2, Kinds DEF Writes, Running
<1>8. CASE SplitSend \/ SplitInterrupted
  <2>1. pc = "split" /\ pc' = "idle" /\ UNCHANGED <<fStopRequested, file, run>>
    BY <1>8, SplitFacts
  <2>2. UNCHANGED fFile
    BY <1>8 DEF SplitSend, SplitInterrupted, writing
  <2> QED BY <2>1, <2>2 DEF Quiet, Running
<1>9. CASE \E w \in Workers : Worker(w)
  <2>1. PICK w \in Workers : Worker(w)
    BY <1>9
  <2>2. UNCHANGED <<pc, fStopRequested, file, run>>
    BY <2>1, WorkerFacts
  <2>3. UNCHANGED fFile
    BY <2>1 DEF Worker, WorkerReceive, WorkerSend, WorkerSendTimesOut, WorkerEnds, writing
  <2> QED BY <2>2, <2>3 DEF Quiet, Running
<1>10. CASE Merge
  <2> DEFINE m == Head(merger[MergeTurn])
  <2>1. Merger \in alive /\ m \in Messages /\ WriteData(m) /\ UNCHANGED <<pc, run>>
    BY <1>10, MergeFacts
  <2> HIDE DEF m
  <2>2. CASE fStopRequested
    <3>1. UNCHANGED <<fFile, file, fStopRequested>>
      BY <2>1, <2>2 DEF WriteData, writing
    <3> QED BY <2>1, <3>1 DEF Quiet, Running
  <2>3. CASE ~fStopRequested
    <3>1. Put(m)
      BY <2>1, <2>3 DEF WriteData
    <3>2. Running /\ pc # "ready"
      BY <2>1, <2>3 DEF Types, ThreadsOK, ControlOK, Running
    <3> QED BY <2>1, <3>1, <3>2, Kinds DEF Writes
  <2> QED BY <2>2, <2>3
<1>11. CASE MergerEnds
  <2>1. UNCHANGED <<fFile, file, fStopRequested, run, pc>>
    BY <1>11 DEF MergerEnds, writing, stops, device, source
  <2> QED BY <2>1 DEF Quiet, Running
<1> QED BY <1>1, <1>2, <1>3, <1>4, <1>5, <1>6, <1>7, <1>8, <1>9, <1>10, <1>11, <1>12, Steps
        DEF LifeCycle, MergerThread

(* The file that is open is one of the run, as long as the device may write to it. *)
NamesOK ==
  /\ NameOK(fFile)
  /\ pc = "ready" /\ ~fStopRequested => ~fFile.isOpen
  /\ Running => OwnName(fFile, run)

(* At the beginning no file is open. *)
LEMMA NamesInit == Init => NamesOK
<1> SUFFICES ASSUME Init PROVE NamesOK
  OBVIOUS
<1>1. Util(fFile) /\ fFile.isOpen = FALSE /\ fFile.fName \in {NoName, Path}
  BY NewFileUtil DEF Init
<1> QED BY <1>1 DEF NamesOK, NameOK, OwnName

(* Every step keeps the names, and the files of other runs. *)
LEMMA NamesNext ==
  ASSUME Types, NamesOK, [Next]_vars
  PROVE  NamesOK' /\ \A f \in DOMAIN fFile.disk :
                        f # Path /\ f.run # run' => fFile'.disk[f] = fFile.disk[f]
<1> DEFINE Kept == \A f \in DOMAIN fFile.disk : f # Path /\ f.run # run' => fFile'.disk[f] = fFile.disk[f]
<1>0. NameOK(fFile) /\ Util(fFile)
  BY DEF NamesOK, NameOK
<1>r. run \in Int /\ run' \in Int
  <2>1. Types'
    BY TypesNext
  <2> QED BY <2>1, Constants DEF Types, InputOK
<1>1. CASE Quiet
  BY <1>1 DEF Quiet, NamesOK
<1>2. CASE Writes
  <2>1. PICK item \in Items : Put(item)
    BY <1>2 DEF Writes
  <2>2. fFile' = Write(fFile, item, LengthOf(item), run) /\ LengthOf(item) \in Nat
    BY <2>1, LengthType DEF Put
  <2>3. OwnName(fFile, run) /\ run' = run /\ pc' # "ready"
    BY <1>2 DEF Writes, NamesOK
  <2>4. NameOK(fFile') /\ OwnName(fFile', run) /\ OthersKept(fFile, run, fFile')
    BY <1>0, <1>r, <2>2, <2>3, WriteOwn
  <2> QED BY <2>3, <2>4 DEF NamesOK, NameOK, OwnName, OthersKept
<1>3. CASE PreRun /\ ~fStopRequested
  <2> DEFINE c == ClearBranch(fFile)
             o == Open(c, run')
  <2>1. /\ fFile' = Write(o, Header, LengthOf(Header), run') /\ LengthOf(Header) \in Nat
        /\ pc = "ready" /\ pc' = "idle"
    BY <1>3, LengthType, Kinds DEF PreRun
  <2>2. /\ Util(c) /\ c.fName = fFile.fName /\ c.isOpen = fFile.isOpen /\ c.disk = fFile.disk
        /\ ~fFile.isOpen
    BY <1>0, <1>3, <2>1, ClearFileUtil DEF NamesOK
  <2> HIDE DEF c
  <2>3. NameOK(c)
    BY <1>0, <2>2 DEF NameOK
  <2>4. NameOK(o) /\ OwnName(o, run') /\ OthersKept(c, run', o)
    BY <1>r, <2>2, <2>3, OpenOwn
  <2> HIDE DEF o
  <2>5. NameOK(fFile') /\ OwnName(fFile', run') /\ OthersKept(o, run', fFile')
    BY <1>r, <2>1, <2>4, WriteOwn
  <2>6. Kept
    BY <2>2, <2>4, <2>5 DEF OthersKept
  <2> QED BY <2>1, <2>5, <2>6 DEF NamesOK, NameOK, OwnName
<1>4. CASE CloseFile
  <2>1. fFile' = ClearBranch(Close(fFile)) /\ pc' = "ready"
    BY <1>4 DEF CloseFile
  <2> DEFINE c == Close(fFile)
  <2>2. /\ Util(c) /\ c.isOpen = FALSE /\ c.disk = fFile.disk
        /\ (fFile.isOpen => c.fName = NoName) /\ (~fFile.isOpen => c.fName = fFile.fName)
    BY <1>0, CloseFileUtil
  <2>3. fFile' = ClearBranch(c)
    BY <2>1
  <2> HIDE DEF c
  <2>4. Util(fFile') /\ fFile'.fName = c.fName /\ fFile'.isOpen = FALSE /\ fFile'.disk = fFile.disk
    BY <2>2, <2>3, ClearFileUtil
  <2>5. NameOK(fFile')
    BY <1>0, <2>2, <2>4 DEF NameOK
  <2> QED BY <2>1, <2>4, <2>5 DEF NamesOK, NameOK, Running
<1>5. CASE InitTask
  <2>1. fFile' = NewFile(fFile.disk) /\ (pc' = pc \/ pc' = "terminated") /\ pc = "ready"
    BY <1>5 DEF InitTask
  <2>2. Util(fFile') /\ fFile'.isOpen = FALSE /\ fFile'.fName \in {NoName, Path} /\ fFile'.disk = fFile.disk
    BY <2>1, NewFileUtil
  <2> QED BY <2>1, <2>2 DEF NamesOK, NameOK, Running
<1> QED BY <1>1, <1>2, <1>3, <1>4, <1>5, FileSteps

-----------------------------------------------------------------------------
(* One item more at the end of the last of several sequences. *)
LEMMA FlattenLast ==
  ASSUME NEW S, NEW c \in Seq(Seq(S)), c # <<>>, NEW d \in Seq(Seq(S)), Len(d) = Len(c), NEW x \in S,
         \A i \in 1 .. Len(c) - 1 : d[i] = c[i], d[Len(c)] = Append(c[Len(c)], x)
  PROVE  FlattenSeq(d) = Append(FlattenSeq(c), x)
<1> DEFINE n == Len(c)
           f == [i \in 1 .. n - 1 |-> c[i]]
           l == c[n]
<1>1. n \in Nat /\ n > 0 /\ l \in Seq(S)
  BY DEF n, l
<1>2. f \in Seq(Seq(S)) /\ Len(f) = n - 1 /\ \A i \in 1 .. n - 1 : f[i] = c[i]
  <2> DEFINE m == n - 1
  <2>1. m \in Nat /\ \A i \in 1 .. m : c[i] \in Seq(S)
    BY <1>1
  <2>2. f = [i \in 1 .. m |-> c[i]]
    OBVIOUS
  <2> HIDE DEF m, f
  <2>3. f \in Seq(Seq(S)) /\ Len(f) = m /\ \A i \in 1 .. m : f[i] = c[i]
    BY <2>1, <2>2
  <2> QED BY <2>3 DEF m
<1> HIDE DEF n, f, l
<1>3. Len(c) = n /\ Len(d) = n /\ c[n] = l /\ d[n] = Append(l, x) /\ \A i \in 1 .. n - 1 : d[i] = c[i]
  BY DEF n, l
<1>4. Append(l, x) \in Seq(S)
  BY <1>1
<1>5. c = Append(f, l)
  BY <1>1, <1>2, <1>3, IsLonger
<1>6. d = Append(f, Append(l, x))
  BY <1>1, <1>2, <1>3, <1>4, IsLonger
<1>7. FlattenSeq(c) = FlattenSeq(f) \o l /\ FlattenSeq(d) = FlattenSeq(f) \o Append(l, x)
  BY <1>1, <1>2, <1>4, <1>5, <1>6, FlattenAppend
<1>8. FlattenSeq(f) \in Seq(S)
  BY <1>2, FlattenType
<1>9. \A a, b \in Seq(S), y \in S : a \o Append(b, y) = Append(a \o b, y)
  BY LongerBehind, SMTT(30)
<1> QED BY <1>1, <1>7, <1>8, <1>9, Zenon

(* Files that divide what was written between them: each branch has one of its own, the last is open. *)
Single == PathGiven \/ Split = "none"

Branched(u) ==
  /\ u.isOpen /\ u.branches[Len(u.branches)].file = u.fName
  /\ Single => Len(u.branches) = 1
  /\ ~Single => /\ u.fBranchNum = Len(u.branches) - 1
                /\ \A i \in 1 .. Len(u.branches) : u.branches[i].file.branch = i - 1
  /\ \A i \in 1 .. Len(u.branches) :
       u.branches[i].file \in DOMAIN u.disk /\ u.disk[u.branches[i].file] \in Seq(Items)

(* Their contents are sequences of items. *)
LEMMA ContentsType ==
  ASSUME NEW u, Util(u), Branched(u)
  PROVE  /\ Contents(u) \in Seq(Seq(Items)) /\ Len(Contents(u)) = Len(u.branches)
         /\ \A i \in 1 .. Len(u.branches) : Contents(u)[i] = u.disk[u.branches[i].file]
<1>1. DOMAIN u.branches = 1 .. Len(u.branches) /\ Len(u.branches) \in Nat
  BY DEF Util
<1> DEFINE c == Contents(u)
           n == Len(u.branches)
<1>2. c = [i \in 1 .. n |-> u.disk[u.branches[i].file]] /\ n \in Nat
  BY <1>1 DEF Contents
<1>3. \A i \in 1 .. n : u.disk[u.branches[i].file] \in Seq(Items)
  BY DEF Branched
<1> HIDE DEF c, n
<1>4. c \in Seq(Seq(Items)) /\ Len(c) = n
  BY <1>2, <1>3
<1> QED BY <1>2, <1>4 DEF c, n

(* A write puts the item at the end of what they hold together, *)
LEMMA BranchedAdds ==
  ASSUME NEW u, Util(u), Branched(u), u.branches # <<>>, NEW item \in Items, NEW length \in Nat,
         NEW w, Util(w), Adds(u, item, length, w)
  PROVE  Branched(w) /\ Len(w.branches) = Len(u.branches)
         /\ FlattenSeq(Contents(w)) = Append(FlattenSeq(Contents(u)), item)
         /\ (\A i \in 1 .. Len(u.branches) - 1 : w.branches[i] = u.branches[i])
         /\ w.branches[Len(u.branches)] = Count(u.branches[Len(u.branches)], length)
<1> DEFINE n == Len(u.branches)
<1>1. n \in Nat /\ n > 0 /\ n \in 1 .. n /\ u.branches \in Seq(Branches) /\ \A i \in 1 .. n : u.branches[i] \in Branches
  BY DEF Util
<1>2. /\ Len(w.branches) = n
      /\ \A i \in 1 .. n : i # n => w.branches[i] = u.branches[i]
      /\ w.branches[n] = Count(u.branches[n], length)
  BY <1>1 DEF Adds
<1>3. \A i \in 1 .. n : w.branches[i].file = u.branches[i].file
  <2>1. \A x \in Branches : Count(x, length).file = x.file
    BY CountBranch
  <2>2. w.branches[n].file = u.branches[n].file
    BY <1>1, <1>2, <2>1
  <2> QED BY <1>2, <2>2
<1>4. /\ w.disk = [u.disk EXCEPT ![u.fName] = Append(u.disk[u.fName], item)] /\ u.fName \in DOMAIN u.disk
      /\ w.fName = u.fName /\ w.fBranchNum = u.fBranchNum /\ w.isOpen
  BY DEF Adds, Branched, Util
<1>5. \A i \in 1 .. n : i # n => u.branches[i].file # u.fName
  BY <1>1 DEF Branched
<1>6. u.branches[n].file = u.fName
  BY DEF Branched
<1> HIDE DEF n
<1>7. /\ \A i \in 1 .. n : i # n => w.disk[w.branches[i].file] = u.disk[u.branches[i].file]
      /\ w.disk[w.branches[n].file] = Append(u.disk[u.branches[n].file], item)
  <2> DEFINE a == Append(u.disk[u.fName], item)
  <2>1. w.disk[u.fName] = a /\ \A g \in DOMAIN u.disk : g # u.fName => w.disk[g] = u.disk[g]
    BY <1>4
  <2>2. w.disk[w.branches[n].file] = a
    BY <1>1, <1>3, <1>6, <2>1
  <2>3. ASSUME NEW i \in 1 .. n, i # n PROVE w.disk[w.branches[i].file] = u.disk[u.branches[i].file]
    <3>1. u.branches[i].file \in DOMAIN u.disk
      BY DEF Branched, n
    <3> HIDE DEF a
    <3> QED BY <1>3, <1>5, <2>1, <2>3, <3>1
  <2> QED BY <1>6, <2>2, <2>3
<1>8. Branched(w)
  <2>1. \A i \in 1 .. n : w.branches[i].file \in DOMAIN w.disk
    BY <1>3, <1>4 DEF Branched, n
  <2>2. \A i \in 1 .. n : w.disk[w.branches[i].file] \in Seq(Items)
    <3>1. \A i \in 1 .. n : u.disk[u.branches[i].file] \in Seq(Items)
      BY DEF Branched, n
    <3>2. w.disk[w.branches[n].file] \in Seq(Items)
      <4> DEFINE l == u.disk[u.branches[n].file]
      <4>1. l \in Seq(Items)
        BY <1>1, <3>1
      <4>2. w.disk[w.branches[n].file] = Append(l, item)
        BY <1>7
      <4> HIDE DEF l
      <4> QED BY <4>1, <4>2
    <3>3. \A i \in 1 .. n : i # n => w.disk[w.branches[i].file] \in Seq(Items)
      BY <1>7, <3>1
    <3> QED BY <3>2, <3>3
  <2>3. w.branches[n].file = w.fName
    BY <1>1, <1>3, <1>4, <1>6
  <2>4. /\ Single => n = 1
        /\ ~Single => u.fBranchNum = n - 1 /\ \A i \in 1 .. n : u.branches[i].file.branch = i - 1
    BY DEF Branched, n
  <2> QED BY <1>2, <1>3, <1>4, <2>1, <2>2, <2>3, <2>4 DEF Branched
<1>9. FlattenSeq(Contents(w)) = Append(FlattenSeq(Contents(u)), item)
  <2> DEFINE c == Contents(u)
             d == Contents(w)
  <2>1. /\ c \in Seq(Seq(Items)) /\ Len(c) = n /\ d \in Seq(Seq(Items)) /\ Len(d) = n
        /\ \A i \in 1 .. n : c[i] = u.disk[u.branches[i].file] /\ d[i] = w.disk[w.branches[i].file]
    BY <1>2, <1>8, ContentsType DEF n
  <2> HIDE DEF c, d
  <2>2. c # <<>> /\ (\A i \in 1 .. n - 1 : d[i] = c[i]) /\ d[n] = Append(c[n], item)
    <3>1. d[n] = Append(c[n], item)
      BY <1>1, <1>7, <2>1
    <3>2. \A i \in 1 .. n : i # n => d[i] = c[i]
      BY <1>7, <2>1
    <3>3. \A i \in 1 .. n - 1 : i \in 1 .. n /\ i # n
      BY <1>1
    <3>4. c # <<>>
      BY <1>1, <2>1
    <3> QED BY <3>1, <3>2, <3>3, <3>4
  <2>3. FlattenSeq(d) = Append(FlattenSeq(c), item)
    <3>1. /\ c # <<>> /\ Len(d) = Len(c) /\ d[Len(c)] = Append(c[Len(c)], item)
          /\ \A i \in 1 .. Len(c) - 1 : d[i] = c[i]
      BY <2>1, <2>2
    <3> QED BY <2>1, <3>1, FlattenLast, ZenonT(60)
  <2> QED BY <2>3 DEF c, d
<1>10. \A i \in 1 .. n - 1 : w.branches[i] = u.branches[i]
  BY <1>1, <1>2
<1> QED BY <1>2, <1>8, <1>9, <1>10 DEF n

(* and the next branch, a new file, holds nothing yet. *)
LEMMA BranchedNext ==
  ASSUME Openmode = "recreate", ~Single, NEW w, Util(w), Branched(w), w.branches # <<>>, NEW r \in Int
  PROVE  LET v == Open(NextBranch(Close(w)), r)
         IN  /\ Util(v) /\ Branched(v) /\ v.status = w.status
             /\ v.branches = Append(w.branches, NewBranch(v.fName))
             /\ FlattenSeq(Contents(v)) = FlattenSeq(Contents(w))
<1> DEFINE c == Close(w)
           u == NextBranch(c)
           v == Open(u, r)
           n == Len(w.branches)
<1>1. n \in Nat /\ n > 0 /\ w.branches \in Seq(Branches)
  BY DEF Util
<1> HIDE DEF n
<1>2. /\ Util(c) /\ c.branches = w.branches /\ c.fBranchNum = w.fBranchNum
      /\ c.isOpen = FALSE /\ c.status = w.status /\ c.disk = w.disk /\ c.fName = NoName
  BY CloseFileUtil DEF Branched
<1> HIDE DEF c
<1>3. /\ w.fBranchNum = n - 1 /\ \A i \in 1 .. n : w.branches[i].file.branch = i - 1
  BY DEF Branched, n
<1>4. /\ Util(u) /\ u.branches = w.branches /\ u.fBranchNum = n
      /\ u.isOpen = FALSE /\ u.status = w.status /\ u.disk = w.disk /\ u.fName = NoName
  BY <1>1, <1>2, <1>3, NextFileUtil
<1> HIDE DEF u
<1>5. Util(v) /\ Opens(u, r, v)
  <2>1. Util(v) /\ (Throws(u, v) \/ Leaves(u, r, v) \/ Opens(u, r, v))
    BY <1>4, OpenOutcomes
  <2> HIDE DEF v
  <2> QED BY <2>1 DEF Throws, Leaves, Single
<1> HIDE DEF v
<1>6. /\ v.fBranchNum = n /\ v.fName.branch = n /\ v.status = w.status /\ v.isOpen
      /\ v.branches = Append(w.branches, NewBranch(v.fName))
      /\ v.fName \in DOMAIN v.disk /\ v.disk[v.fName] = <<>>
      /\ \A f \in DOMAIN w.disk : f # v.fName => f \in DOMAIN v.disk /\ v.disk[f] = w.disk[f]
  BY <1>4, <1>5 DEF Opens, Named, Single
<1>7. NewBranch(v.fName) \in Branches /\ NewBranch(v.fName).file = v.fName
  BY <1>5 DEF NewBranch, Branches, Util
<1>8. /\ Len(v.branches) = n + 1 /\ v.branches[n + 1].file = v.fName
      /\ \A i \in 1 .. n : v.branches[i] = w.branches[i]
  <2> DEFINE b == NewBranch(v.fName)
  <2>1. b \in Branches /\ v.branches = Append(w.branches, b) /\ Len(w.branches) = n
    BY <1>6, <1>7 DEF n
  <2> HIDE DEF b
  <2>2. Len(v.branches) = n + 1 /\ v.branches[n + 1] = b /\ \A i \in 1 .. n : v.branches[i] = w.branches[i]
    BY <1>1, <2>1
  <2> QED BY <1>7, <2>2 DEF b
<1>9. \A i \in 1 .. n : /\ w.branches[i].file \in DOMAIN w.disk
                        /\ w.disk[w.branches[i].file] \in Seq(Items) /\ w.branches[i].file # v.fName
  <2>1. \A i \in 1 .. n : w.branches[i].file \in DOMAIN w.disk /\ w.disk[w.branches[i].file] \in Seq(Items)
    BY DEF Branched, n
  <2>2. \A i \in 1 .. n : w.branches[i].file.branch # n
    BY <1>1, <1>3
  <2> QED BY <1>6, <2>1, <2>2
<1>10. \A i \in 1 .. n : /\ v.branches[i].file \in DOMAIN v.disk
                         /\ v.disk[v.branches[i].file] = w.disk[w.branches[i].file]
  BY <1>6, <1>8, <1>9
<1>11. \A i \in 1 .. n + 1 : i \in 1 .. n \/ i = n + 1
  BY <1>1
<1>12. Branched(v)
  <2>1. \A i \in 1 .. n + 1 : v.branches[i].file \in DOMAIN v.disk /\ v.disk[v.branches[i].file] \in Seq(Items)
    <3>1. <<>> \in Seq(Items)
      OBVIOUS
    <3>2. v.branches[n + 1].file \in DOMAIN v.disk /\ v.disk[v.branches[n + 1].file] \in Seq(Items)
      BY <1>6, <1>8, <3>1
    <3>3. \A i \in 1 .. n : v.branches[i].file \in DOMAIN v.disk /\ v.disk[v.branches[i].file] \in Seq(Items)
      BY <1>9, <1>10
    <3> QED BY <1>11, <3>2, <3>3
  <2>2. \A i \in 1 .. n + 1 : v.branches[i].file.branch = i - 1
    <3>1. v.branches[n + 1].file.branch = (n + 1) - 1
      BY <1>1, <1>6, <1>8
    <3> QED BY <1>3, <1>8, <1>11, <3>1
  <2>3. v.fBranchNum = (n + 1) - 1
    BY <1>1, <1>6
  <2> QED BY <1>6, <1>8, <2>1, <2>2, <2>3 DEF Branched
<1>13. FlattenSeq(Contents(v)) = FlattenSeq(Contents(w))
  <2> DEFINE a == Contents(w)
             b == Contents(v)
  <2>1. /\ a \in Seq(Seq(Items)) /\ Len(a) = n /\ b \in Seq(Seq(Items)) /\ Len(b) = n + 1
        /\ \A i \in 1 .. n : a[i] = w.disk[w.branches[i].file]
        /\ \A i \in 1 .. n + 1 : b[i] = v.disk[v.branches[i].file]
    <3>1. a \in Seq(Seq(Items)) /\ Len(a) = n /\ \A i \in 1 .. n : a[i] = w.disk[w.branches[i].file]
      BY ContentsType DEF n
    <3>2. b \in Seq(Seq(Items)) /\ Len(b) = n + 1 /\ \A i \in 1 .. n + 1 : b[i] = v.disk[v.branches[i].file]
      BY <1>5, <1>8, <1>12, ContentsType
    <3> QED BY <3>1, <3>2
  <2> HIDE DEF a, b
  <2>2. b[n + 1] = <<>> /\ \A i \in 1 .. n : b[i] = a[i]
    <3>1. \A i \in 1 .. n : i \in 1 .. n + 1
      BY <1>1
    <3>2. n + 1 \in 1 .. n + 1
      BY <1>1
    <3> QED BY <1>6, <1>8, <1>10, <2>1, <3>1, <3>2
  <2>3. <<>> \in Seq(Items)
    OBVIOUS
  <2>4. b = Append(a, <<>>)
    BY <2>1, <2>2, <2>3, IsLonger
  <2>5. FlattenSeq(b) = FlattenSeq(a) \o <<>> /\ FlattenSeq(a) \in Seq(Items)
    BY <2>1, <2>3, <2>4, FlattenAppend, FlattenType
  <2>6. FlattenSeq(a) \o <<>> = FlattenSeq(a)
    BY <2>5, Together
  <2> QED BY <2>5, <2>6 DEF a, b
<1> QED BY <1>5, <1>6, <1>12, <1>13 DEF v, u, c

(* What the branches hold is what was written, as long as nothing has gone wrong. *)
Divided(u, f) == u.status = "ok" /\ u.branches # <<>> => Branched(u) /\ f = FlattenSeq(Contents(u))

(* A write keeps it so, *)
LEMMA WriteDivided ==
  ASSUME Openmode = "recreate", NEW u, Util(u), NEW f, Divided(u, f),
         NEW item \in Items, NEW length \in Nat, NEW r \in Int
  PROVE  Divided(Write(u, item, length, r), Append(f, item))
<1> DEFINE v == Write(u, item, length, r)
<1>0. SUFFICES Divided(v, Append(f, item))
  OBVIOUS
<1>1. CASE u.status # "ok"
  <2>1. v = u
    BY <1>1, WriteOutcomes
  <2> HIDE DEF v
  <2> QED BY <1>1, <2>1 DEF Divided
<1>2. CASE u.status = "ok" /\ u.branches = <<>>
  <2>1. v.status = "undefined"
    BY <1>2, WriteOutcomes
  <2> HIDE DEF v
  <2> QED BY <2>1 DEF Divided
<1>3. CASE u.status = "ok" /\ u.branches # <<>>
  <2>1. PICK w : /\ Util(w) /\ Adds(u, item, length, w) /\ w.branches # <<>>
                 /\ ~Full(Last(w.branches)) => v = w
                 /\ Full(Last(w.branches)) => v = Open(NextBranch(Close(w)), r)
    BY <1>3, WriteOutcomes
  <2> HIDE DEF v
  <2>2. Branched(u) /\ f = FlattenSeq(Contents(u))
    BY <1>3 DEF Divided
  <2>3. Branched(w) /\ FlattenSeq(Contents(w)) = Append(f, item)
    BY <1>3, <2>1, <2>2, BranchedAdds
  <2>4. CASE ~Full(Last(w.branches))
    BY <2>1, <2>3, <2>4 DEF Divided
  <2>5. CASE Full(Last(w.branches)) /\ ~Single
    <3>1. Branched(v) /\ FlattenSeq(Contents(v)) = FlattenSeq(Contents(w))
      BY <2>1, <2>3, <2>5, BranchedNext
    <3> QED BY <2>3, <3>1 DEF Divided
  <2>6. CASE Full(Last(w.branches)) /\ Single
    <3> DEFINE c == Close(w)
               n == NextBranch(c)
    <3>1. PathGiven
      BY <2>6 DEF Single, Full
    <3>2. Util(c) /\ c.isOpen = FALSE /\ c.fName = NoName
      BY <2>1, <2>3, CloseFileUtil DEF Branched
    <3> HIDE DEF c
    <3>3. Util(n) /\ n.isOpen = FALSE /\ n.fName = NoName
      BY <3>2, NextFileUtil
    <3>4. v = Open(n, r)
      BY <2>1, <2>6 DEF c
    <3> HIDE DEF n
    <3>5. v.status = "thrown"
      <4>1. Throws(n, v) \/ Leaves(n, r, v) \/ Opens(n, r, v)
        BY <3>3, <3>4, OpenOutcomes
      <4> QED BY <3>1, <3>3, <4>1 DEF Throws, Leaves, Opens
    <3> QED BY <3>5 DEF Divided
  <2> QED BY <2>4, <2>5, <2>6
<1> QED BY <1>1, <1>2, <1>3

(* and a run begins with an empty branch. *)
LEMMA OpenDivided ==
  ASSUME Openmode = "recreate", NEW u, Util(u), ~u.isOpen, u.branches = <<>>, u.fBranchNum = 0,
         ~PathGiven => u.fName = NoName, NEW r \in Int
  PROVE  Divided(Open(u, r), <<>>)
<1> DEFINE v == Open(u, r)
<1>0. SUFFICES ASSUME v.status = "ok" PROVE Branched(v) /\ FlattenSeq(Contents(v)) = <<>>
  BY DEF Divided
<1>1. Util(v) /\ (Throws(u, v) \/ Leaves(u, r, v) \/ Opens(u, r, v))
  BY OpenOutcomes
<1> HIDE DEF v
<1>2. Opens(u, r, v)
  BY <1>0, <1>1 DEF Throws, Leaves
<1> DEFINE b == NewBranch(v.fName)
<1>3. v.branches = <<b>> /\ b.file = v.fName
  <2>1. v.branches = Append(<<>>, b)
    BY <1>2 DEF Opens
  <2>2. b.file = v.fName
    BY DEF NewBranch
  <2> HIDE DEF b
  <2> QED BY <2>1, <2>2
<1> HIDE DEF b
<1>4. Len(v.branches) = 1 /\ v.branches[1].file = v.fName
  BY <1>3
<1>5. v.isOpen /\ v.fName \in DOMAIN v.disk /\ v.disk[v.fName] = <<>>
  BY <1>2 DEF Opens
<1>6. Branched(v)
  <2>1. ~Single => v.fBranchNum = 0 /\ v.fName.branch = 0
    BY <1>2 DEF Opens, Named, Single
  <2>2. <<>> \in Seq(Items) /\ \A i \in 1 .. 1 : i = 1
    OBVIOUS
  <2>3. \A i \in 1 .. 1 : v.branches[i].file \in DOMAIN v.disk /\ v.disk[v.branches[i].file] \in Seq(Items)
    BY <1>4, <1>5, <2>2
  <2>4. ~Single => \A i \in 1 .. 1 : v.branches[i].file.branch = i - 1
    BY <1>4, <2>1, <2>2
  <2> QED BY <1>4, <1>5, <2>1, <2>3, <2>4 DEF Branched
<1>7. FlattenSeq(Contents(v)) = <<>>
  <2> DEFINE c == Contents(v)
  <2>1. c \in Seq(Seq(Items)) /\ Len(c) = 1 /\ c[1] = <<>>
    <3>1. c \in Seq(Seq(Items)) /\ Len(c) = 1 /\ \A i \in 1 .. 1 : c[i] = v.disk[v.branches[i].file]
      BY <1>1, <1>4, <1>6, ContentsType
    <3> HIDE DEF c
    <3>2. c[1] = v.disk[v.branches[1].file]
      BY <3>1
    <3> QED BY <1>4, <1>5, <3>1, <3>2
  <2> HIDE DEF c
  <2>2. c = << <<>> >> /\ <<>> \in Seq(Items)
    BY <2>1
  <2> QED BY <2>2, FlattenOne DEF c
<1> QED BY <1>6, <1>7

-----------------------------------------------------------------------------
(* With names of their own and files that are always opened, a FileUtil is open or has no name. *)
Nameless(u) == ~u.isOpen => u.fName = NoName

(* Open then always opens. *)
LEMMA OpenOpens ==
  ASSUME Openmode = "recreate", ~PathGiven, NEW u, Util(u), ~u.isOpen, NEW r \in Int
  PROVE  LET v == Open(u, r) IN Util(v) /\ Opens(u, r, v)
<1> DEFINE v == Open(u, r)
<1>1. Util(v) /\ (Throws(u, v) \/ Leaves(u, r, v) \/ Opens(u, r, v))
  BY OpenOutcomes
<1> HIDE DEF v
<1>2. Opens(u, r, v)
  BY <1>1 DEF Throws, Leaves
<1> QED BY <1>1, <1>2 DEF v

(* A full branch is followed by one that is open and empty, whatever its name. *)
LEMMA NextOpens ==
  ASSUME Openmode = "recreate", ~PathGiven, NEW w, Util(w), NEW r \in Int
  PROVE  LET v == Open(NextBranch(Close(w)), r)
         IN  v.isOpen /\ v.branches = Append(w.branches, NewBranch(v.fName)) /\ Util(v)
<1> DEFINE c == Close(w)
           u == NextBranch(c)
           v == Open(u, r)
<1>1. Util(c) /\ c.branches = w.branches /\ c.isOpen = FALSE
  BY CloseFileUtil
<1> HIDE DEF c
<1>2. Util(u) /\ u.branches = w.branches /\ u.isOpen = FALSE
  BY <1>1, NextFileUtil
<1> HIDE DEF u
<1>3. Util(v) /\ Opens(u, r, v)
  BY <1>2, OpenOpens
<1> HIDE DEF v
<1> QED BY <1>2, <1>3 DEF Opens, v, u, c

(* A write leaves it open or without a name. *)
LEMMA WriteNameless ==
  ASSUME Openmode = "recreate", ~PathGiven, NEW u, Util(u), Nameless(u),
         NEW item, NEW length \in Nat, NEW r \in Int
  PROVE  Nameless(Write(u, item, length, r))
<1> DEFINE v == Write(u, item, length, r)
<1>0. SUFFICES Nameless(v)
  OBVIOUS
<1>1. CASE u.status # "ok"
  <2>1. v = u
    BY <1>1, WriteOutcomes
  <2> HIDE DEF v
  <2> QED BY <2>1
<1>2. CASE u.status = "ok" /\ u.branches = <<>>
  <2>1. v.isOpen = u.isOpen /\ v.fName = u.fName
    BY <1>2, WriteOutcomes
  <2> HIDE DEF v
  <2> QED BY <2>1 DEF Nameless
<1>3. CASE u.status = "ok" /\ u.branches # <<>>
  <2>1. PICK w : /\ Util(w) /\ Adds(u, item, length, w)
                 /\ ~Full(Last(w.branches)) => v = w
                 /\ Full(Last(w.branches)) => v = Open(NextBranch(Close(w)), r)
    BY <1>3, WriteOutcomes
  <2> HIDE DEF v
  <2>2. CASE ~Full(Last(w.branches))
    BY <2>1, <2>2 DEF Adds, Nameless
  <2>3. CASE Full(Last(w.branches))
    <3>1. v.isOpen
      BY <2>1, <2>3, NextOpens
    <3> QED BY <3>1 DEF Nameless
  <2> QED BY <2>2, <2>3
<1> QED BY <1>1, <1>2, <1>3

-----------------------------------------------------------------------------
(* The branches hold what was written. *)
DividedOK == Divided(fFile, file) /\ (~PathGiven => Nameless(fFile))

(* At first there are none. *)
LEMMA DividedInit == Init => DividedOK
<1> SUFFICES ASSUME Init PROVE DividedOK
  OBVIOUS
<1>1. fFile.branches = <<>> /\ (~PathGiven => fFile.fName = NoName)
  BY NewFileUtil DEF Init
<1> QED BY <1>1 DEF DividedOK, Divided, Nameless

(* Every step keeps it so. *)
LEMMA DividedNext ==
  ASSUME Openmode = "recreate", Types, NamesOK, DividedOK, [Next]_vars
  PROVE  DividedOK'
<1>0. Util(fFile) /\ Divided(fFile, file) /\ (~PathGiven => Nameless(fFile))
  BY DEF NamesOK, NameOK, DividedOK
<1>r. run \in Int /\ run' \in Int
  <2>1. Types'
    BY TypesNext
  <2> QED BY <2>1, Constants DEF Types, InputOK
<1>s. SUFFICES Divided(fFile', file') /\ (~PathGiven => Nameless(fFile'))
  BY DEF DividedOK, Divided, Nameless, Contents, Branched
<1>1. CASE Quiet
  BY <1>0, <1>1 DEF Quiet
<1>2. CASE Writes
  <2>1. PICK item \in Items : Put(item)
    BY <1>2 DEF Writes
  <2>2. fFile' = Write(fFile, item, LengthOf(item), run) /\ LengthOf(item) \in Nat /\ file' = Append(file, item)
    BY <2>1, LengthType DEF Put
  <2>3. Divided(fFile', file')
    BY <1>0, <1>r, <2>2, WriteDivided
  <2>4. ~PathGiven => Nameless(fFile')
    BY <1>0, <1>r, <2>2, WriteNameless
  <2> QED BY <2>3, <2>4
<1>3. CASE PreRun /\ ~fStopRequested
  <2> DEFINE c == ClearBranch(fFile)
             o == Open(c, run')
  <2>1. /\ fFile' = Write(o, Header, LengthOf(Header), run') /\ LengthOf(Header) \in Nat
        /\ pc = "ready" /\ file' = <<Header>> /\ Header \in Items
    BY <1>3, LengthType, Kinds DEF PreRun
  <2>2. /\ Util(c) /\ c.fName = fFile.fName /\ c.isOpen = fFile.isOpen /\ c.branches = <<>>
        /\ c.fBranchNum = 0 /\ ~fFile.isOpen
    BY <1>0, <1>3, <2>1, ClearFileUtil DEF NamesOK
  <2> HIDE DEF c
  <2>3. ~PathGiven => c.fName = NoName
    BY <1>0, <2>2 DEF Nameless
  <2>4. Util(o) /\ Divided(o, <<>>)
    BY <1>r, <2>2, <2>3, OpenOutcomes, OpenDivided
  <2>5. ~PathGiven => Nameless(o)
    <3>1. ~PathGiven => o.isOpen
      BY <1>r, <2>2, OpenOpens DEF Opens
    <3> QED BY <3>1 DEF Nameless
  <2> HIDE DEF o
  <2>6. Divided(fFile', Append(<<>>, Header))
    BY <1>r, <2>1, <2>4, WriteDivided
  <2>7. Append(<<>>, Header) = file'
    BY <2>1
  <2>8. ~PathGiven => Nameless(fFile')
    BY <1>r, <2>1, <2>4, <2>5, WriteNameless
  <2> QED BY <2>6, <2>7, <2>8
<1>4. CASE CloseFile
  <2> DEFINE c == Close(fFile)
  <2>1. fFile' = ClearBranch(c)
    BY <1>4 DEF CloseFile
  <2>2. Util(c) /\ (fFile.isOpen => c.fName = NoName) /\ (~fFile.isOpen => c.fName = fFile.fName)
    BY <1>0, CloseFileUtil
  <2> HIDE DEF c
  <2>3. fFile'.fName = c.fName /\ fFile'.branches = <<>>
    BY <2>1, <2>2, ClearFileUtil
  <2> QED BY <1>0, <2>2, <2>3 DEF Divided, Nameless
<1>5. CASE InitTask
  <2>1. fFile' = NewFile(fFile.disk)
    BY <1>5 DEF InitTask
  <2>2. fFile'.branches = <<>> /\ (~PathGiven => fFile'.fName = NoName)
    BY <2>1, NewFileUtil
  <2> QED BY <2>2 DEF Divided, Nameless
<1> QED BY <1>1, <1>2, <1>3, <1>4, <1>5, FileSteps

(* The branches of the file hold together all that was written, in order, although a branch is closed and *)
(* the next one opened within a Write, whatever files there were (Write, Close, Open of FileUtil), if      *)
(* existing files are opened.                                                 *)
THEOREM BranchesHoldAll == ASSUME Openmode = "recreate" PROVE Spec => []NothingLost
<1>1. Types /\ NamesOK /\ DividedOK => NothingLost
  BY DEF DividedOK, Divided, NothingLost
<1>2. Init => Types /\ NamesOK /\ DividedOK
  BY TypesInit, NamesInit, DividedInit
<1>3. Types /\ NamesOK /\ DividedOK /\ [Next]_vars => (Types /\ NamesOK /\ DividedOK)'
  BY TypesNext, NamesNext, DividedNext
<1> QED BY <1>1, <1>2, <1>3, PTL DEF Spec

(* No step touches the files of an earlier run, in any mode and with any limit, and whenever a stop comes *)
(* (PreRun, PostRun, Open and Write of FileUtil): a name that is kept is not opened under another run.    *)
THEOREM EarlierRunsSafe == Spec => EarlierRunsKept
<1>1. ASSUME Types, NamesOK, [Next]_vars
      PROVE  [\A f \in DOMAIN fFile.disk : f.run \in 1 .. run' - 1 => (fFile.disk[f])' = fFile.disk[f]]_vars
  <2>1. \A f \in DOMAIN fFile.disk : f # Path /\ f.run # run' => fFile'.disk[f] = fFile.disk[f]
    BY <1>1, NamesNext
  <2>2. run' \in Int
    BY <1>1, TypesNext, Constants DEF Types, InputOK
  <2>3. ASSUME NEW f \in DOMAIN fFile.disk, f.run \in 1 .. run' - 1 PROVE fFile'.disk[f] = fFile.disk[f]
    <3>1. f # Path /\ f.run # run'
      BY <2>2, <2>3 DEF Path
    <3> QED BY <2>1, <3>1
  <2> QED BY <2>3
<1>2. Init => Types /\ NamesOK
  BY TypesInit, NamesInit
<1>3. Types /\ NamesOK /\ [Next]_vars => (Types /\ NamesOK)'
  BY TypesNext, NamesNext
<1> QED BY <1>1, <1>2, <1>3, PTL DEF Spec, EarlierRunsKept

-----------------------------------------------------------------------------
(* Branches that are full, but for the last one. *)
Sized(u) ==
  \A i \in 1 .. Len(u.branches) :
    /\ i < Len(u.branches) => u.branches[i].raw >= MaxBranchSize
    /\ i = Len(u.branches) => u.branches[i].raw < MaxBranchSize

(* A new branch is not full. *)
LEMMA SizedNext ==
  ASSUME NEW q \in Seq(Branches), \A i \in 1 .. Len(q) : q[i].raw >= MaxBranchSize, NEW name \in FileNames,
         NEW v, v.branches = Append(q, NewBranch(name))
  PROVE  Sized(v)
<1> DEFINE b == NewBranch(name)
           n == Len(q)
<1>1. b \in Branches /\ b.raw = 0
  BY DEF NewBranch, Branches
<1>2. MaxBranchSize \in Nat /\ 0 < MaxBranchSize
  BY FileUtilAssumption DEF FileUtilAssumption
<1>3. n \in Nat /\ v.branches = Append(q, b)
  OBVIOUS
<1> HIDE DEF b
<1>4. Len(v.branches) = n + 1 /\ v.branches[n + 1] = b /\ \A i \in 1 .. n : v.branches[i] = q[i]
  BY <1>1, <1>3
<1> HIDE DEF n
<1>5. \A i \in 1 .. n + 1 : i < n + 1 => i \in 1 .. n
  BY <1>3
<1>6. \A i \in 1 .. n : v.branches[i].raw >= MaxBranchSize
  BY <1>4 DEF n
<1>7. v.branches[n + 1].raw < MaxBranchSize
  BY <1>1, <1>2, <1>4
<1> QED BY <1>4, <1>5, <1>6, <1>7 DEF Sized

(* A write counts, and opens the next branch when it has to. *)
LEMMA WriteSized ==
  ASSUME Openmode = "recreate", ~PathGiven, Split = "raw-size", NEW u, Util(u), Sized(u),
         NEW item, NEW length \in Nat, NEW r \in Int
  PROVE  Sized(Write(u, item, length, r))
<1> DEFINE v == Write(u, item, length, r)
<1>0. SUFFICES Sized(v)
  OBVIOUS
<1>m. MaxBranchSize \in Nat
  BY FileUtilAssumption DEF FileUtilAssumption
<1>1. CASE u.status # "ok"
  <2>1. v = u
    BY <1>1, WriteOutcomes
  <2> HIDE DEF v
  <2> QED BY <2>1
<1>2. CASE u.status = "ok" /\ u.branches = <<>>
  <2>1. v.branches = <<>>
    BY <1>2, WriteOutcomes
  <2> HIDE DEF v
  <2> QED BY <2>1 DEF Sized
<1>3. CASE u.status = "ok" /\ u.branches # <<>>
  <2>1. PICK w : /\ Util(w) /\ Adds(u, item, length, w)
                 /\ ~Full(Last(w.branches)) => v = w
                 /\ Full(Last(w.branches)) => v = Open(NextBranch(Close(w)), r)
    BY <1>3, WriteOutcomes
  <2> HIDE DEF v
  <2> DEFINE n == Len(u.branches)
  <2>2. n \in Nat /\ n > 0 /\ w.branches \in Seq(Branches) /\ u.branches \in Seq(Branches)
    BY <1>3, <2>1 DEF Util
  <2>3. Len(w.branches) = n /\ \A i \in 1 .. n : i # n => w.branches[i] = u.branches[i]
    BY <2>1, <2>2 DEF Adds
  <2>4. \A i \in 1 .. n - 1 : w.branches[i].raw >= MaxBranchSize
    <3>1. \A i \in 1 .. n - 1 : i \in 1 .. n /\ i < n /\ i # n
      BY <2>2
    <3> QED BY <2>3, <3>1 DEF Sized
  <2>5. w.branches[n] \in Branches /\ w.branches[n].raw \in Nat
    <3>1. n \in 1 .. Len(w.branches)
      BY <2>2, <2>3
    <3> HIDE DEF n
    <3>2. w.branches[n] \in Branches
      BY <2>2, <3>1
    <3> QED BY <3>2 DEF Branches
  <2>6. Full(Last(w.branches)) <=> w.branches[n].raw >= MaxBranchSize
    BY <2>3 DEF Full, Last
  <2> HIDE DEF n
  <2>7. CASE ~Full(Last(w.branches))
    <3>1. w.branches[n].raw < MaxBranchSize
      BY <1>m, <2>5, <2>6, <2>7
    <3>2. \A i \in 1 .. n : i < n => i \in 1 .. n - 1
      BY <2>2
    <3>3. Sized(w)
      BY <2>3, <2>4, <3>1, <3>2 DEF Sized
    <3> QED BY <2>1, <2>7, <3>3
  <2>8. CASE Full(Last(w.branches))
    <3>1. v.branches = Append(w.branches, NewBranch(v.fName)) /\ Util(v)
      BY <2>1, <2>8, NextOpens
    <3>2. \A i \in 1 .. n : i \in 1 .. n - 1 \/ i = n
      BY <2>2
    <3>3. \A i \in 1 .. n : w.branches[i].raw >= MaxBranchSize
      BY <2>4, <2>6, <2>8, <3>2
    <3>4. v.fName \in FileNames
      BY <3>1 DEF Util
    <3> QED BY <2>2, <2>3, <3>1, <3>3, <3>4, SizedNext
  <2> QED BY <2>7, <2>8
<1> QED BY <1>1, <1>2, <1>3

(* Every step keeps the sizes. *)
LEMMA SizedStep ==
  ASSUME Openmode = "recreate", ~PathGiven, Split = "raw-size",
         Types, NamesOK, Sized(fFile), [Next]_vars
  PROVE  Sized(fFile')
<1>0. Util(fFile)
  BY DEF NamesOK, NameOK
<1>r. run \in Int /\ run' \in Int
  <2>1. Types'
    BY TypesNext
  <2> QED BY <2>1, Constants DEF Types, InputOK
<1>1. CASE Quiet
  BY <1>1 DEF Quiet
<1>2. CASE Writes
  <2>1. PICK item \in Items : Put(item)
    BY <1>2 DEF Writes
  <2>2. fFile' = Write(fFile, item, LengthOf(item), run) /\ LengthOf(item) \in Nat
    BY <2>1, LengthType DEF Put
  <2> QED BY <1>0, <1>r, <2>2, WriteSized
<1>3. CASE PreRun /\ ~fStopRequested
  <2> DEFINE c == ClearBranch(fFile)
             o == Open(c, run')
  <2>1. /\ fFile' = Write(o, Header, LengthOf(Header), run') /\ LengthOf(Header) \in Nat /\ pc = "ready"
    BY <1>3, LengthType, Kinds DEF PreRun
  <2>2. /\ Util(c) /\ c.isOpen = fFile.isOpen /\ c.branches = <<>> /\ ~fFile.isOpen
    BY <1>0, <1>3, <2>1, ClearFileUtil DEF NamesOK
  <2> HIDE DEF c
  <2>3. Util(o) /\ o.branches = Append(<<>>, NewBranch(o.fName))
    BY <1>r, <2>2, OpenOpens DEF Opens
  <2> HIDE DEF o
  <2>4. Sized(o)
    <3>1. o.fName \in FileNames
      BY <2>3 DEF Util
    <3>2. <<>> \in Seq(Branches) /\ Len(<<>>) = 0 /\ \A i \in 1 .. 0 : FALSE
      OBVIOUS
    <3> QED BY <2>3, <3>1, <3>2, SizedNext
  <2> QED BY <1>r, <2>1, <2>3, <2>4, WriteSized
<1>4. CASE CloseFile
  <2> DEFINE c == Close(fFile)
  <2>1. fFile' = ClearBranch(c)
    BY <1>4 DEF CloseFile
  <2>2. Util(c)
    BY <1>0, CloseFileUtil
  <2> HIDE DEF c
  <2>3. fFile'.branches = <<>>
    BY <2>1, <2>2, ClearFileUtil
  <2> QED BY <2>3 DEF Sized
<1>5. CASE InitTask
  <2>1. fFile' = NewFile(fFile.disk)
    BY <1>5 DEF InitTask
  <2>2. fFile'.branches = <<>>
    BY <2>1, NewFileUtil
  <2> QED BY <2>2 DEF Sized
<1> QED BY <1>1, <1>2, <1>3, <1>4, <1>5, FileSteps

(* A branch is closed by the write that fills it, and not before (Write of FileUtil), if the file has no    *)
(* path, which the next branch cannot be named from, and existing files are opened.                 *)
THEOREM BranchesFull ==
  ASSUME Openmode = "recreate", ~PathGiven, Split = "raw-size"
  PROVE  Spec => []SplitInTime
<1>1. Types /\ NamesOK /\ Sized(fFile) => SplitInTime
  <2> SUFFICES ASSUME NamesOK, Sized(fFile) PROVE SplitInTime
    OBVIOUS
  <2>1. DOMAIN fFile.branches = 1 .. Len(fFile.branches)
    BY DEF NamesOK, NameOK, Util
  <2> QED BY <2>1 DEF Sized, SplitInTime
<1>2. Init => Types /\ NamesOK /\ Sized(fFile)
  <2>1. Init => fFile.branches = <<>>
    BY NewFileUtil DEF Init
  <2> QED BY <2>1, TypesInit, NamesInit DEF Sized
<1>3. Types /\ NamesOK /\ Sized(fFile) /\ [Next]_vars => (Types /\ NamesOK /\ Sized(fFile))'
  BY TypesNext, NamesNext, SizedStep DEF Sized
<1> QED BY <1>1, <1>2, <1>3, PTL DEF Spec

-----------------------------------------------------------------------------
(* How many of the first n messages are dealt to a worker. *)
Given(w, n) == Cardinality({k \in 0 .. n - 1 : k % NThreads = w})

(* They are counted from 0 on. *)
LEMMA GivenCounts ==
  ASSUME NThreads \in Nat \ {0}, NEW w \in Workers
  PROVE  /\ Given(w, 0) = 0
         /\ \A n \in Nat : /\ Given(w, n) \in Nat
                           /\ Given(w, n + 1) = IF n % NThreads = w THEN Given(w, n) + 1 ELSE Given(w, n)
<1> DEFINE G(n) == {k \in 0 .. n - 1 : k % NThreads = w}
<1>1. Given(w, 0) = 0
  <2>1. G(0) = {}
    OBVIOUS
  <2> QED BY <2>1, FS_EmptySet DEF Given
<1>2. ASSUME NEW n \in Nat
      PROVE  /\ Given(w, n) \in Nat
             /\ Given(w, n + 1) = IF n % NThreads = w THEN Given(w, n) + 1 ELSE Given(w, n)
  <2>1. IsFiniteSet(G(n))
    <3>1. IsFiniteSet(0 .. n - 1)
      BY FS_Interval
    <3>2. G(n) \in SUBSET (0 .. n - 1)
      OBVIOUS
    <3> QED BY <3>1, <3>2, FS_Subset
  <2>2. Given(w, n) = Cardinality(G(n)) /\ Given(w, n + 1) = Cardinality(G(n + 1))
    BY DEF Given
  <2>3. n \notin G(n)
    OBVIOUS
  <2>4. CASE n % NThreads = w
    <3>1. G(n + 1) = G(n) \cup {n}
      BY <2>4
    <3> HIDE DEF G
    <3> QED BY <2>1, <2>2, <2>3, <2>4, <3>1, FS_AddElement, FS_CardinalityType
  <2>5. CASE n % NThreads # w
    <3>1. G(n + 1) = G(n)
      BY <2>5
    <3> HIDE DEF G
    <3> QED BY <2>1, <2>2, <2>5, <3>1, FS_CardinalityType
  <2> QED BY <2>4, <2>5
<1> QED BY <1>1, <1>2

(* What a worker has, and on its way to and from it. *)
One(b)  == IF b THEN 1 ELSE 0
Held(w) ==
  ((Len(merger[w]) + One(working[w] # None)) + Len(splitter[w])) + One(pc = "split" /\ w = Turn)

(* No message is counted twice, although some may be dropped. *)
CountsOK ==
  /\ fNReceived + Len(input) <= produced
  /\ fNOutput <= fNReceived
  /\ \A w \in Workers : Given(w, fNOutput) + Held(w) <= Given(w, fNReceived)

(* They are numbers. *)
LEMMA CountTypes ==
  ASSUME Types
  PROVE  /\ fNReceived \in Nat /\ fNOutput \in Nat /\ Len(input) \in Nat /\ produced \in Nat
         /\ \A w \in Workers : /\ Len(merger[w]) \in Nat /\ Len(splitter[w]) \in Nat
                               /\ One(working[w] # None) \in 0 .. 1
                               /\ One(pc = "split" /\ w = Turn) \in 0 .. 1
                               /\ Held(w) \in Nat
<1>1. fNReceived \in Nat /\ fNOutput \in Nat /\ input \in Seq(Messages) /\ produced \in Nat
  BY Constants DEF Types, CountersOK, InputOK
<1>2. \A w \in Workers : merger[w] \in Seq(Messages) /\ splitter[w] \in Seq(Messages)
  BY DEF Types, ChannelsOK
<1>3. ASSUME NEW w \in Workers
      PROVE  /\ One(working[w] # None) \in 0 .. 1 /\ One(pc = "split" /\ w = Turn) \in 0 .. 1
             /\ Held(w) \in Nat
  <2> DEFINE a == One(working[w] # None)
             d == One(pc = "split" /\ w = Turn)
             m == Len(merger[w])
             s == Len(splitter[w])
  <2>1. a \in 0 .. 1 /\ d \in 0 .. 1
    BY DEF One
  <2>2. Held(w) = ((m + a) + s) + d
    BY DEF Held
  <2>3. m \in Nat /\ s \in Nat
    BY <1>2
  <2>4. Held(w) \in Nat
    <3> HIDE DEF a, d, m, s
    <3> QED BY <2>1, <2>2, <2>3
  <2> QED BY <2>1, <2>4 DEF a, d
<1> QED BY <1>1, <1>2, <1>3

(* Without any change to what is counted. *)
LEMMA CountsSame ==
  ASSUME CountsOK, UNCHANGED <<fNReceived, fNOutput, merger, working, splitter>>,
         UNCHANGED pc \/ (pc # "split" /\ pc' # "split"),
         fNReceived + Len(input') <= produced'
  PROVE  CountsOK'
<1>1. \A w \in Workers : Held(w)' = Held(w)
  BY DEF Held, One, Turn
<1> QED BY <1>1 DEF CountsOK

(* At first there are none. *)
LEMMA CountsInit == Init => CountsOK
<1> SUFFICES ASSUME Init PROVE CountsOK
  OBVIOUS
<1>1. fNReceived = 0 /\ fNOutput = 0 /\ input = <<>> /\ produced = 0 /\ pc = "ready"
  BY DEF Init
<1>2. \A w \in Workers : merger[w] = <<>> /\ working[w] = None /\ splitter[w] = <<>>
  BY DEF Init
<1>3. \A w \in Workers : Held(w) = 0
  <2>1. Len(<<>>) = 0
    OBVIOUS
  <2>2. \A w \in Workers : One(working[w] # None) = 0 /\ One(pc = "split" /\ w = Turn) = 0
    BY <1>1, <1>2 DEF One
  <2> QED BY <1>2, <2>1, <2>2 DEF Held
<1>4. \A w \in Workers : Given(w, 0) = 0
  <2> SUFFICES ASSUME NEW w \in Workers PROVE Given(w, 0) = 0
    OBVIOUS
  <2>1. NThreads \in Nat \ {0}
    BY Constants DEF Workers
  <2> QED BY <2>1, GivenCounts
<1> QED BY <1>1, <1>3, <1>4 DEF CountsOK

(* The handler counts a message and gives it to the next worker, if there are workers. *)
LEMMA CountsHandle ==
  ASSUME Types, CountsOK, Handle
  PROVE  CountsOK'
<1>0. /\ pc = "idle" /\ Len(input') = Len(input) - 1 /\ UNCHANGED <<produced, merger, working, splitter, fNOutput>>
  <2>1. input \in Seq(Messages) /\ input # <<>> /\ input' = Tail(input)
    BY HandleFacts DEF Types, InputOK
  <2> QED BY <2>1, HandleFacts
<1>1. CASE fStopRequested
  <2>1. UNCHANGED <<pc, fNReceived>>
    BY <1>1, HandleFacts
  <2> QED BY <1>0, <2>1, CountTypes, CountsSame DEF CountsOK
<1>2. CASE ~fStopRequested
  <2>1. fNReceived' = fNReceived + 1 /\ fNReceived' + Len(input') <= produced' /\ fNOutput' <= fNReceived'
    BY <1>0, <1>2, HandleFacts, CountTypes DEF CountsOK
  <2>2. ASSUME NEW w \in Workers PROVE Given(w, fNOutput') + Held(w)' <= Given(w, fNReceived')
    <3>1. NThreads \in Nat \ {0} /\ NThreads # 0
      BY Constants DEF Workers
    <3>2. pc' \in {"split", "copy"} /\ Turn' = fNReceived % NThreads
      <4>1. pc' \in {"split", "copy"}
        BY <1>2, HandleFacts
      <4>2. fNReceived' - 1 = fNReceived
        BY <2>1, CountTypes
      <4> QED BY <4>1, <4>2 DEF Turn
    <3>3. Held(w)' \in Nat /\ Held(w)' <= Held(w) + One(fNReceived % NThreads = w)
      <4> DEFINE a == One(working[w] # None)
                 d == One(fNReceived % NThreads = w)
      <4>1. One(pc = "split" /\ w = Turn) = 0 /\ One(pc = "split" /\ w = Turn)' \in {0, d}
        BY <1>0, <3>2 DEF One
      <4>2. Len(merger[w]) \in Nat /\ Len(splitter[w]) \in Nat /\ a \in 0 .. 1 /\ d \in 0 .. 1
        BY CountTypes DEF One
      <4>3. a' = a
        BY <1>0
      <4>4. Held(w) = ((Len(merger[w]) + a) + Len(splitter[w])) + 0
        BY <4>1 DEF Held
      <4>5. \/ Held(w)' = ((Len(merger[w]) + a) + Len(splitter[w])) + 0
            \/ Held(w)' = ((Len(merger[w]) + a) + Len(splitter[w])) + d
        BY <1>0, <4>1, <4>3 DEF Held
      <4> HIDE DEF a, d
      <4> DEFINE x == Len(merger[w])
                 y == Len(splitter[w])
      <4>6. x \in Nat /\ y \in Nat /\ Held(w) = ((x + a) + y) + 0
            /\ (Held(w)' = ((x + a) + y) + 0 \/ Held(w)' = ((x + a) + y) + d)
        BY <4>2, <4>4, <4>5
      <4> HIDE DEF x, y
      <4>7. CASE Held(w)' = ((x + a) + y) + 0
        BY <4>2, <4>6, <4>7 DEF d
      <4>8. CASE Held(w)' = ((x + a) + y) + d
        BY <4>2, <4>6, <4>8 DEF d
      <4> QED BY <4>6, <4>7, <4>8
    <3>4. Given(w, fNReceived + 1) = Given(w, fNReceived) + One(fNReceived % NThreads = w)
      <4>1. /\ Given(w, fNReceived) \in Nat
            /\ Given(w, fNReceived + 1)
                 = IF fNReceived % NThreads = w THEN Given(w, fNReceived) + 1 ELSE Given(w, fNReceived)
        BY <3>1, CountTypes, GivenCounts
      <4> QED BY <4>1 DEF One
    <3>5. Given(w, fNOutput) + Held(w) <= Given(w, fNReceived)
      BY DEF CountsOK
    <3>6. Given(w, fNOutput) \in Nat /\ Given(w, fNReceived) \in Nat /\ Held(w) \in Nat
          /\ One(fNReceived % NThreads = w) \in Nat
      <4>1. Held(w) \in Nat
        BY CountTypes
      <4> QED BY <3>1, <4>1, CountTypes, GivenCounts DEF One
    <3> HIDE DEF Held
    <3> QED BY <1>0, <2>1, <3>3, <3>4, <3>5, <3>6
  <2> QED BY <2>1, <2>2 DEF CountsOK
<1> QED BY <1>1, <1>2

(* A worker that takes, sends or drops has no more than before. *)
LEMMA CountsLess ==
  ASSUME Types, CountsOK, UNCHANGED <<fNReceived, fNOutput>>, fNReceived + Len(input') <= produced',
         \A w \in Workers : Held(w)' \in Nat /\ Held(w)' <= Held(w)
  PROVE  CountsOK'
<1> SUFFICES ASSUME NEW w \in Workers PROVE Given(w, fNOutput) + Held(w)' <= Given(w, fNReceived)
  BY DEF CountsOK
<1>1. NThreads \in Nat \ {0}
  BY Constants DEF Workers
<1>2. Given(w, fNOutput) \in Nat /\ Given(w, fNReceived) \in Nat
  BY <1>1, CountTypes, GivenCounts
<1>3. Held(w) \in Nat
  BY CountTypes
<1>4. Held(w)' \in Nat /\ Held(w)' <= Held(w) /\ Given(w, fNOutput) + Held(w) <= Given(w, fNReceived)
  BY DEF CountsOK
<1> QED BY <1>2, <1>3, <1>4

(* The messages on their way to a worker and through it. *)
LEMMA CountsSplit ==
  ASSUME Types, CountsOK, SplitSend \/ SplitInterrupted
  PROVE  CountsOK'
<1>1. /\ pc = "split" /\ pc' = "idle" /\ Turn \in Workers /\ UNCHANGED <<fNReceived, fNOutput, merger, working>>
      /\ UNCHANGED <<input, produced>> /\ current \in Messages
      /\ splitter' = [splitter EXCEPT ![Turn] = Append(@, current)] \/ UNCHANGED splitter
  BY SplitFacts
<1>2. ASSUME NEW w \in Workers PROVE Held(w)' \in Nat /\ Held(w)' <= Held(w)
  <2> DEFINE a == One(working[w] # None)
             m == Len(merger[w])
             s == Len(splitter[w])
  <2>1. m \in Nat /\ s \in Nat /\ a \in 0 .. 1
    BY CountTypes
  <2>2. a' = a /\ m' = m /\ One(pc = "split" /\ w = Turn)' = 0
    BY <1>1 DEF One
  <2>3. s' = s \/ (w = Turn /\ s' = s + 1)
    <3>1. splitter \in [Workers -> Seq(Messages)]
      BY DEF Types, ChannelsOK
    <3>2. CASE UNCHANGED splitter
      BY <3>2
    <3>3. CASE splitter' = [splitter EXCEPT ![Turn] = Append(@, current)]
      <4>1. CASE w = Turn
        BY <1>1, <3>1, <3>3, <4>1
      <4>2. CASE w # Turn
        BY <1>1, <3>1, <3>3, <4>2
      <4> QED BY <4>1, <4>2
    <3> QED BY <1>1, <3>2, <3>3
  <2>4. One(pc = "split" /\ w = Turn) = IF w = Turn THEN 1 ELSE 0
    BY <1>1 DEF One
  <2>5. Held(w)' = ((m + a) + s') + 0 /\ Held(w) = ((m + a) + s) + (IF w = Turn THEN 1 ELSE 0)
    BY <2>2, <2>4 DEF Held
  <2> HIDE DEF a, m, s
  <2> QED BY <2>1, <2>3, <2>5
<1> QED BY <1>1, <1>2, CountsLess DEF CountsOK

(* A worker takes a message from one channel and sends it to the other, or drops it. *)
LEMMA CountsWorker ==
  ASSUME Types, CountsOK, NEW x \in Workers, Worker(x)
  PROVE  CountsOK'
<1>1. UNCHANGED <<pc, fNReceived, fNOutput, input, produced>>
  BY WorkerFacts
<1>2. /\ splitter \in [Workers -> Seq(Messages)] /\ merger \in [Workers -> Seq(Messages)]
      /\ working \in [Workers -> Messages \union {None}]
  BY DEF Types, ChannelsOK
<1>3. ASSUME NEW w \in Workers PROVE Held(w)' \in Nat /\ Held(w)' <= Held(w)
  <2> DEFINE a == One(working[w] # None)
             m == Len(merger[w])
             s == Len(splitter[w])
             d == One(pc = "split" /\ w = Turn)
  <2>1. m \in Nat /\ s \in Nat /\ a \in 0 .. 1 /\ d \in 0 .. 1
    BY CountTypes
  <2>2. d' = d
    BY <1>1 DEF One, Turn
  <2>3. (m' + a') + s' \in Nat /\ (m' + a') + s' <= (m + a) + s
    <3>1. CASE WorkerReceive(x)
      <4>1. /\ working[x] = None /\ splitter[x] # <<>> /\ splitter' = [splitter EXCEPT ![x] = Tail(@)]
            /\ UNCHANGED merger /\ \A y \in Workers : y # x => working'[y] = working[y]
        BY <1>2, <3>1 DEF WorkerReceive
      <4>2. CASE w = x
        <5>1. a = 0 /\ (a' = 0 \/ a' = 1)
          BY <4>1, <4>2 DEF One
        <5>2. s' = s - 1 /\ s > 0 /\ m' = m
          BY <1>2, <4>1, <4>2
        <5> HIDE DEF a, m, s, d
        <5>3. CASE a' = 0
          BY <2>1, <5>1, <5>2, <5>3
        <5>4. CASE a' = 1
          BY <2>1, <5>1, <5>2, <5>4
        <5> QED BY <5>1, <5>3, <5>4
      <4>3. CASE w # x
        <5>1. a' = a /\ m' = m /\ s' = s
          BY <1>2, <4>1, <4>3
        <5> HIDE DEF a, m, s, d
        <5> QED BY <2>1, <5>1
      <4> QED BY <4>2, <4>3
    <3>2. CASE WorkerSend(x) \/ WorkerSendTimesOut(x)
      <4>1. /\ working[x] # None /\ working' = [working EXCEPT ![x] = None] /\ UNCHANGED splitter
            /\ merger' = [merger EXCEPT ![x] = Append(@, working[x])] \/ UNCHANGED merger
        BY <3>2 DEF WorkerSend, WorkerSendTimesOut
      <4>2. CASE w = x
        <5>1. a = 1 /\ a' = 0
          BY <1>2, <4>1, <4>2 DEF One
        <5>2. s' = s /\ (m' = m + 1 \/ m' = m)
          <6>1. working[x] \in Messages /\ merger[x] \in Seq(Messages)
            BY <1>2, <4>1
          <6> QED BY <1>2, <4>1, <4>2, <6>1
        <5> HIDE DEF a, m, s, d
        <5> QED BY <2>1, <5>1, <5>2
      <4>3. CASE w # x
        <5>1. a' = a /\ m' = m /\ s' = s
          BY <1>2, <4>1, <4>3
        <5> HIDE DEF a, m, s, d
        <5> QED BY <2>1, <5>1
      <4> QED BY <4>2, <4>3
    <3>3. CASE WorkerEnds(x)
      <4>1. UNCHANGED <<splitter, merger, working>>
        BY <3>3 DEF WorkerEnds
      <4>2. a' = a /\ m' = m /\ s' = s
        BY <4>1
      <4> HIDE DEF a, m, s, d
      <4> QED BY <2>1, <4>2
    <3> QED BY <3>1, <3>2, <3>3 DEF Worker
  <2>4. Held(w)' = ((m' + a') + s') + d' /\ Held(w) = ((m + a) + s) + d
    BY DEF Held
  <2> DEFINE h == (m + a) + s
             k == (m' + a') + s'
  <2>5. h \in Nat
    <3> HIDE DEF a, m, s
    <3> QED BY <2>1
  <2>6. k \in Nat /\ k <= h /\ Held(w)' = k + d /\ Held(w) = h + d
    BY <2>2, <2>3, <2>4, Zenon
  <2> HIDE DEF a, m, s, d, h, k
  <2> QED BY <2>1, <2>5, <2>6
<1> QED BY <1>1, <1>3, CountsLess DEF CountsOK

(* The merger takes no more from a worker than what was given to it. *)
LEMMA CountsMerge ==
  ASSUME Types, CountsOK, Merge
  PROVE  CountsOK'
<1>1. /\ MergeTurn \in Workers /\ NThreads \in Nat \ {0} /\ merger[MergeTurn] # <<>>
      /\ merger' = [merger EXCEPT ![MergeTurn] = Tail(@)] /\ fNOutput' = fNOutput + 1
      /\ UNCHANGED <<pc, fNReceived, splitter, working, input, produced>>
  BY MergeFacts
<1>2. merger \in [Workers -> Seq(Messages)]
  BY DEF Types, ChannelsOK
<1>3. ASSUME NEW w \in Workers
      PROVE  /\ Given(w, fNOutput') + Held(w)' <= Given(w, fNReceived')
             /\ w = MergeTurn => fNOutput # fNReceived
  <2> DEFINE a == One(working[w] # None)
             m == Len(merger[w])
             s == Len(splitter[w])
             d == One(pc = "split" /\ w = Turn)
  <2>1. m \in Nat /\ s \in Nat /\ a \in 0 .. 1 /\ d \in 0 .. 1
    BY CountTypes
  <2>2. d' = d /\ a' = a /\ s' = s
    BY <1>1 DEF One, Turn
  <2>3. Held(w)' = ((m' + a) + s) + d /\ Held(w) = ((m + a) + s) + d
    BY <2>2 DEF Held
  <2>4. /\ Given(w, fNOutput) \in Nat /\ Given(w, fNReceived) \in Nat
        /\ Given(w, fNOutput + 1) = IF w = MergeTurn THEN Given(w, fNOutput) + 1 ELSE Given(w, fNOutput)
    <3>1. /\ Given(w, fNOutput) \in Nat /\ Given(w, fNReceived) \in Nat
          /\ Given(w, fNOutput + 1)
               = IF fNOutput % NThreads = w THEN Given(w, fNOutput) + 1 ELSE Given(w, fNOutput)
      BY <1>1, CountTypes, GivenCounts
    <3> QED BY <3>1 DEF MergeTurn
  <2>5. Given(w, fNOutput) + Held(w) <= Given(w, fNReceived)
    BY DEF CountsOK
  <2>6. CASE w = MergeTurn
    <3>1. m' = m - 1 /\ m > 0
      BY <1>1, <1>2, <2>6
    <3> HIDE DEF a, m, s, d
    <3> QED BY <1>1, <2>1, <2>3, <2>4, <2>5, <2>6, <3>1
  <2>7. CASE w # MergeTurn
    <3>1. m' = m
      BY <1>1, <1>2, <2>7
    <3> HIDE DEF a, m, s, d
    <3> QED BY <1>1, <2>1, <2>3, <2>4, <2>5, <2>7, <3>1
  <2> QED BY <2>6, <2>7
<1>4. fNOutput # fNReceived
  BY <1>1, <1>3
<1>5. fNOutput' <= fNReceived'
  BY <1>1, <1>4, CountTypes DEF CountsOK
<1> QED BY <1>1, <1>3, <1>5 DEF CountsOK

(* Every step keeps the counts. *)
LEMMA CountsNext ==
  ASSUME Types, CountsOK, [Next]_vars
  PROVE  CountsOK'
<1>1. CASE Deliver
  <2>1. UNCHANGED <<fNReceived, fNOutput, merger, working, splitter, pc>>
        /\ produced' = produced + 1 /\ input' = Append(input, [n |-> produced', run |-> run])
    BY <1>1 DEF Deliver, device, threads
  <2>2. Len(input') = Len(input) + 1
    BY <2>1 DEF Types, InputOK
  <2> QED BY <2>1, <2>2, CountTypes, CountsSame DEF CountsOK
<1>2. CASE RequestStop \/ StopUpstream \/ UNCHANGED vars
  <2>1. UNCHANGED <<fNReceived, fNOutput, merger, working, splitter, pc, produced, input>>
    BY <1>2 DEF RequestStop, StopUpstream, vars, device, threads, source
  <2> QED BY <2>1, CountsSame DEF CountsOK
<1>3. CASE PreRun /\ fStopRequested
  <2>1. UNCHANGED <<fNReceived, fNOutput, merger, working, splitter, produced, input>> /\ pc # "split" /\ pc' # "split"
    BY <1>3 DEF PreRun, threads
  <2> QED BY <2>1, CountsSame DEF CountsOK
<1>4. CASE PreRun /\ ~fStopRequested
  <2>1. /\ fNReceived' = 0 /\ fNOutput' = 0 /\ pc' = "idle" /\ UNCHANGED <<input, produced>>
        /\ \A w \in Workers : merger'[w] = <<>> /\ working'[w] = None /\ splitter'[w] = <<>>
    BY <1>4 DEF PreRun
  <2>2. Len(<<>>) = 0
    OBVIOUS
  <2>3. \A w \in Workers : One(working[w] # None)' = 0 /\ One(pc = "split" /\ w = Turn)' = 0
    BY <2>1 DEF One
  <2>4. \A w \in Workers : Held(w)' = 0
    BY <2>1, <2>2, <2>3 DEF Held
  <2>5. \A w \in Workers : Given(w, 0) = 0
    <3> SUFFICES ASSUME NEW w \in Workers PROVE Given(w, 0) = 0
      OBVIOUS
    <3>1. NThreads \in Nat \ {0}
      BY Constants DEF Workers
    <3> QED BY <3>1, GivenCounts
  <2>6. fNReceived' + Len(input') <= produced'
    BY <2>1, CountTypes DEF CountsOK
  <2> QED BY <2>1, <2>4, <2>5, <2>6 DEF CountsOK
<1>5. CASE LifeCycle
  <2>1. /\ UNCHANGED <<fNReceived, fNOutput, merger, working, splitter, produced>> /\ pc # "split" /\ pc' # "split"
        /\ UNCHANGED input \/ (input # <<>> /\ input' = Tail(input))
    BY <1>5 DEF LifeCycle, BeginPostRun, Join, DrainOne, EndPostRun, CloseFile, InitTask, threads, source
  <2>2. Len(input') <= Len(input) /\ Len(input') \in Nat
    BY <2>1 DEF Types, InputOK
  <2> QED BY <2>1, <2>2, CountTypes, CountsSame DEF CountsOK
<1>6. CASE MergerEnds
  <2>1. UNCHANGED <<fNReceived, fNOutput, merger, working, splitter, pc, produced, input>>
    BY <1>6 DEF MergerEnds, device, source
  <2> QED BY <2>1, CountsSame DEF CountsOK
<1>7. CASE Copies
  <2>1. /\ UNCHANGED <<fNReceived, fNOutput, merger, working, splitter, produced, input>>
        /\ pc = "copy" /\ pc' = "idle"
    BY <1>7, CopyFacts
  <2> QED BY <2>1, CountsSame DEF CountsOK
<1> QED BY <1>1, <1>2, <1>3, <1>4, <1>5, <1>6, <1>7, CountsHandle, CountsSplit, CountsWorker, CountsMerge, Steps
        DEF MergerThread

-----------------------------------------------------------------------------
(* The names that a FileUtil makes up, with branch numbers up to a limit, and what the files hold. *)
Stuff == Items \union {Head(Stale)}

Typed(u, limit) ==
  /\ u.fName \in Files \union {NoName, Path} /\ u.fBranchNum \in -1 .. limit
  /\ \A i \in 1 .. Len(u.branches) : u.branches[i].file \in Files \union {Path}
  /\ \A f \in DOMAIN u.disk : f \in (Files \union {Path}) \union Existing /\ u.disk[f] \in Seq(Stuff)

(* Open makes up names of the run. *)
LEMMA OpenTyped ==
  ASSUME NEW u, Util(u), ~u.isOpen, NEW limit \in 0 .. MaxMessages + 2, Typed(u, limit), NEW r \in 0 .. MaxRuns
  PROVE  Typed(Open(u, r), limit)
<1> DEFINE v == Open(u, r)
<1>0. SUFFICES Typed(v, limit)
  OBVIOUS
<1>i. r \in Int /\ MaxMessages \in Nat /\ limit \in Nat
  BY Constants
<1>1. Util(v) /\ (Throws(u, v) \/ Leaves(u, r, v) \/ Opens(u, r, v))
  BY <1>i, OpenOutcomes
<1> HIDE DEF v
<1>2. CASE Throws(u, v)
  BY <1>2 DEF Throws, Typed
<1>3. CASE Leaves(u, r, v) \/ Opens(u, r, v)
  <2>1. Named(u, r, v)
    BY <1>3 DEF Leaves, Opens
  <2>2. v.fBranchNum \in -1 .. limit
    BY <1>i, <2>1 DEF Named, Typed
  <2>3. v.fName \in Files \union {NoName, Path} /\ v.fName # NoName
    <3>1. CASE u.fName = NoName
      <4>1. v.fName = [run |-> r, branch |-> v.fBranchNum]
        BY <2>1, <3>1 DEF Named
      <4>2. v.fBranchNum \in -1 .. MaxMessages + 2
        BY <1>i, <2>2
      <4>3. v.fName \in Files
        BY <4>1, <4>2 DEF Files
      <4>4. v.fName # NoName
        BY <1>i, <4>1 DEF NoName
      <4> QED BY <4>3, <4>4
    <3>2. CASE u.fName # NoName
      BY <2>1, <3>2 DEF Named, Typed
    <3> QED BY <3>1, <3>2
  <2>4. CASE Leaves(u, r, v)
    BY <2>2, <2>3, <2>4 DEF Leaves, Typed
  <2>5. CASE Opens(u, r, v)
    <3>1. v.branches = Append(u.branches, NewBranch(v.fName)) /\ NewBranch(v.fName).file = v.fName
      BY <2>5 DEF Opens, NewBranch
    <3>2. NewBranch(v.fName) \in Branches /\ u.branches \in Seq(Branches)
      BY <1>1 DEF NewBranch, Branches, Util
    <3> DEFINE b == NewBranch(v.fName)
               n == Len(u.branches)
    <3>3. b \in Branches /\ b.file = v.fName /\ v.branches = Append(u.branches, b) /\ n \in Nat
      BY <3>1, <3>2
    <3> HIDE DEF b
    <3>4. Len(v.branches) = n + 1 /\ v.branches[n + 1] = b /\ \A i \in 1 .. n : v.branches[i] = u.branches[i]
      BY <3>2, <3>3
    <3> HIDE DEF n
    <3>5. \A i \in 1 .. n : v.branches[i].file \in Files \union {Path}
      BY <3>4 DEF Typed, n
    <3>6. \A i \in 1 .. n + 1 : i \in 1 .. n \/ i = n + 1
      BY <3>3
    <3>7. \A i \in 1 .. Len(v.branches) : v.branches[i].file \in Files \union {Path}
      BY <2>3, <3>3, <3>4, <3>5, <3>6
    <3>8. <<>> \in Seq(Stuff)
      OBVIOUS
    <3>9. \A f \in DOMAIN v.disk : f \in (Files \union {Path}) \union Existing /\ v.disk[f] \in Seq(Stuff)
      BY <2>3, <2>5, <3>8 DEF Opens, Typed
    <3> QED BY <2>2, <2>3, <3>7, <3>9 DEF Typed
  <2> QED BY <1>3, <2>4, <2>5
<1> QED BY <1>1, <1>2, <1>3

(* A write opens at most one branch more. *)
LEMMA WriteTyped ==
  ASSUME NEW u, Util(u), NEW n \in 0 .. MaxMessages + 1, Typed(u, n),
         NEW item \in Items, NEW length \in Nat, NEW r \in 0 .. MaxRuns
  PROVE  Typed(Write(u, item, length, r), n + 1)
<1> DEFINE v == Write(u, item, length, r)
<1>0. SUFFICES Typed(v, n + 1)
  OBVIOUS
<1>i. r \in Int /\ MaxMessages \in Nat /\ n \in Nat /\ n + 1 \in 0 .. MaxMessages + 2
  BY Constants
<1>t. \A x : Typed(x, n) => Typed(x, n + 1)
  BY <1>i DEF Typed
<1>1. CASE u.status # "ok"
  <2>1. v = u
    BY <1>i, <1>1, WriteOutcomes
  <2> HIDE DEF v
  <2> QED BY <1>t, <2>1
<1>2. CASE u.status = "ok" /\ u.branches = <<>>
  <2>1. /\ v.fName = u.fName /\ v.fBranchNum = u.fBranchNum /\ v.branches = u.branches /\ v.disk = u.disk
    BY <1>i, <1>2, WriteOutcomes
  <2> HIDE DEF v
  <2> QED BY <1>t, <2>1 DEF Typed
<1>3. CASE u.status = "ok" /\ u.branches # <<>>
  <2>1. PICK w : /\ Util(w) /\ Adds(u, item, length, w) /\ w.branches # <<>>
                 /\ ~Full(Last(w.branches)) => v = w
                 /\ Full(Last(w.branches)) => v = Open(NextBranch(Close(w)), r)
    BY <1>i, <1>3, WriteOutcomes
  <2> HIDE DEF v
  <2>2. Typed(w, n)
    <3> DEFINE m == Len(u.branches)
    <3>1. m \in Nat /\ m > 0 /\ m \in 1 .. m /\ u.branches \in Seq(Branches)
          /\ \A i \in 1 .. m : u.branches[i] \in Branches
      BY <1>3 DEF Util
    <3>2. Len(w.branches) = m /\ w.branches[m] = Count(u.branches[m], length)
          /\ \A i \in 1 .. m : i # m => w.branches[i] = u.branches[i]
      BY <2>1, <3>1 DEF Adds
    <3>3. Count(u.branches[m], length).file = u.branches[m].file
      <4>1. \A x \in Branches : Count(x, length).file = x.file
        BY CountBranch
      <4> QED BY <3>1, <4>1
    <3>4. \A i \in 1 .. m : u.branches[i].file \in Files \union {Path}
      BY DEF Typed
    <3> HIDE DEF m
    <3>5. \A i \in 1 .. m : w.branches[i].file \in Files \union {Path}
      BY <3>2, <3>3, <3>4
    <3>6. \A f \in DOMAIN w.disk : f \in (Files \union {Path}) \union Existing /\ w.disk[f] \in Seq(Stuff)
      <4>1. CASE ~u.isOpen
        BY <2>1, <4>1 DEF Adds, Typed
      <4>2. CASE u.isOpen
        <5>1. w.disk = [u.disk EXCEPT ![u.fName] = Append(u.disk[u.fName], item)] /\ u.fName \in DOMAIN u.disk
          BY <2>1, <4>2 DEF Adds, Util
        <5>2. u.disk[u.fName] \in Seq(Stuff) /\ item \in Stuff
          BY <5>1 DEF Typed, Stuff
        <5>3. Append(u.disk[u.fName], item) \in Seq(Stuff)
          BY <5>2
        <5> QED BY <5>1, <5>3 DEF Typed
      <4> QED BY <4>1, <4>2
    <3> QED BY <2>1, <3>2, <3>5, <3>6 DEF Adds, Typed
  <2>3. CASE ~Full(Last(w.branches))
    BY <1>t, <2>1, <2>2, <2>3
  <2>4. CASE Full(Last(w.branches))
    <3> DEFINE c == Close(w)
               x == NextBranch(c)
    <3>1. /\ Util(c) /\ c.isOpen = FALSE /\ c.disk = w.disk /\ c.branches = w.branches
          /\ c.fBranchNum = w.fBranchNum /\ c.fName \in {NoName, w.fName}
      BY <2>1, CloseFileUtil
    <3> HIDE DEF c
    <3>2. /\ Util(x) /\ x.isOpen = FALSE /\ x.disk = w.disk /\ x.branches = w.branches
          /\ x.fName \in {NoName, w.fName}
          /\ x.fBranchNum = IF w.fBranchNum >= 0 THEN w.fBranchNum + 1 ELSE w.fBranchNum
      BY <3>1, NextFileUtil
    <3>3. v = Open(x, r)
      BY <2>1, <2>4 DEF c
    <3> HIDE DEF x
    <3>4. Typed(x, n + 1)
      <4>1. x.fBranchNum \in -1 .. n + 1
        BY <1>i, <2>2, <3>2 DEF Typed
      <4> QED BY <2>2, <3>2, <4>1 DEF Typed
    <3> QED BY <1>i, <3>2, <3>3, <3>4, OpenTyped
  <2> QED BY <2>3, <2>4
<1> QED BY <1>1, <1>2, <1>3

-----------------------------------------------------------------------------
(* The messages that were given to WriteData in this run. *)
Done == IF fWorker THEN fNOutput ELSE IF pc = "copy" THEN fNReceived - 1 ELSE fNReceived

(* What was written of them, with the header and in the end the trailer. *)
WrittenOK ==
  /\ fNWrite \in Nat /\ fNWrite <= MaxMessages * WritesPerMessage
  /\ Len(file) <= MaxMessages + 2
  /\ Running => fNWrite <= Done * WritesPerMessage /\ Len(file) <= Done + 1
BoundsOK ==
  /\ drained <= DrainLimit
  /\ \A w \in Workers : Len(splitter[w]) <= QueueLength /\ Len(merger[w]) <= QueueLength

(* They are no more than what was sent to the device. *)
LEMMA DoneBound ==
  ASSUME Types, CountsOK
  PROVE  Done \in Nat /\ Done <= MaxMessages /\ fNReceived \in 0 .. MaxMessages
<1>1. fNReceived \in Nat /\ fNOutput \in Nat /\ Len(input) \in Nat /\ produced \in 0 .. MaxMessages
  BY CountTypes DEF Types, InputOK
<1>2. pc = "copy" => fNReceived > 0
  BY DEF Types, CurrentOK
<1> QED BY <1>1, <1>2, Constants DEF CountsOK, Done

(* Nor are they after the next step. *)
LEMMA DoneNext ==
  ASSUME Types, CountsOK, [Next]_vars
  PROVE  Done' \in Nat /\ Done' <= MaxMessages
<1>1. Types' /\ CountsOK'
  BY TypesNext, CountsNext
<1>2. fNReceived' \in Nat /\ fNOutput' \in Nat /\ input' \in Seq(Messages) /\ produced' \in 0 .. MaxMessages
  BY <1>1 DEF Types, CountersOK, InputOK
<1>3. Len(input') \in Nat
  BY <1>2
<1>4. pc' = "copy" => fNReceived' > 0
  BY <1>1 DEF Types, CurrentOK
<1>5. fNReceived' + Len(input') <= produced' /\ fNOutput' <= fNReceived'
  BY <1>1 DEF CountsOK
<1>6. /\ fNReceived' \in Nat /\ fNReceived' <= MaxMessages
      /\ fNOutput' \in Nat /\ fNOutput' <= MaxMessages
  BY <1>2, <1>3, <1>5, Constants
<1>7. CASE fWorker'
  BY <1>6, <1>7 DEF Done
<1>8. CASE ~fWorker'
  <2>1. CASE pc' = "copy"
    <3>1. Done' = fNReceived' - 1
      BY <1>8, <2>1 DEF Done
    <3>2. fNReceived' > 0
      BY <1>4, <2>1
    <3>3. MaxMessages \in Nat
      BY Constants
    <3>4. \A n, m \in Nat : n > 0 /\ n <= m => n - 1 \in Nat /\ n - 1 <= m
      OBVIOUS
    <3>5. fNReceived' - 1 \in Nat /\ fNReceived' - 1 <= MaxMessages
      BY <1>6, <3>2, <3>3, <3>4
    <3> HIDE DEF Done
    <3> QED BY <3>1, <3>5, Zenon
  <2>2. CASE pc' # "copy"
    BY <1>6, <1>8, <2>2 DEF Done
  <2> QED BY <2>1, <2>2
<1> QED BY <1>7, <1>8

(* A write of a message counts what it writes. *)
LEMMA WrittenMessage ==
  ASSUME Types, WrittenOK, NEW msg \in Messages, WriteData(msg), ~fStopRequested, Running,
         Done \in Nat, Done' = Done + 1, Done' <= MaxMessages
  PROVE  WrittenOK'
<1>1. WritesPerMessage \in Nat /\ MaxMessages \in Nat /\ Len(file) \in Nat
  BY Constants DEF Types, FileOK
<1>2. file' = Append(file, msg) /\ fNWrite' = fNWrite + WritesPerMessage
  BY DEF WriteData, Put
<1>3. Len(file') = Len(file) + 1
  BY <1>2, Kinds DEF Types, FileOK
<1> DEFINE x == Done * WritesPerMessage
           y == (Done + 1) * WritesPerMessage
           z == MaxMessages * WritesPerMessage
<1>4. fNWrite \in Nat /\ fNWrite <= x /\ Len(file) <= Done + 1
  BY DEF WrittenOK
<1>5. x \in Nat /\ y = x + WritesPerMessage
  BY <1>1
<1>6. y <= z /\ z \in Nat
  <2>1. \A a, b, c \in Nat : a <= b => a * c <= b * c
    OBVIOUS
  <2>2. Done + 1 \in Nat /\ Done + 1 <= MaxMessages /\ MaxMessages * WritesPerMessage \in Nat
    BY <1>1
  <2> QED BY <1>1, <2>1, <2>2
<1>7. Done' * WritesPerMessage = y
  BY Zenon
<1> HIDE DEF x, y
<1>8. fNWrite' \in Nat /\ fNWrite' <= z /\ fNWrite' <= Done' * WritesPerMessage
  <2> HIDE DEF z
  <2> QED BY <1>1, <1>2, <1>4, <1>5, <1>6, <1>7
<1>9. Len(file') <= MaxMessages + 2 /\ Len(file') <= Done' + 1
  BY <1>1, <1>3, <1>4
<1> QED BY <1>8, <1>9 DEF WrittenOK

(* Nothing is written. *)
LEMMA WrittenSame ==
  ASSUME Types, WrittenOK, UNCHANGED <<fNWrite, file>>, Done \in Nat, Done' \in Nat,
         Running' => Running /\ Done <= Done'
  PROVE  WrittenOK'
<1>1. WritesPerMessage \in Nat /\ Len(file) \in Nat
  BY Constants DEF Types, FileOK
<1>2. CASE Running'
  <2> DEFINE x == Done * WritesPerMessage
             y == Done' * WritesPerMessage
  <2>1. x <= y /\ x \in Nat /\ y \in Nat
    <3>1. \A a, b, c \in Nat : a <= b => a * c <= b * c /\ a * c \in Nat /\ b * c \in Nat
      OBVIOUS
    <3> QED BY <1>1, <1>2, <3>1
  <2>2. fNWrite \in Nat /\ fNWrite <= x /\ Len(file) <= Done + 1
    BY <1>2 DEF WrittenOK
  <2> HIDE DEF x
  <2>3. fNWrite' <= Done' * WritesPerMessage
    <3> HIDE DEF y
    <3>1. fNWrite' <= y
      BY <2>1, <2>2
    <3> QED BY <3>1 DEF y
  <2>4. Len(file') <= Done' + 1
    BY <1>1, <1>2, <2>2
  <2> QED BY <2>3, <2>4 DEF WrittenOK
<1>3. CASE ~Running'
  BY <1>3 DEF WrittenOK
<1> QED BY <1>2, <1>3

(* At first nothing is written. *)
LEMMA WrittenInit == Init => WrittenOK /\ BoundsOK
<1> SUFFICES ASSUME Init PROVE WrittenOK /\ BoundsOK
  OBVIOUS
<1>1. fNWrite = 0 /\ file = <<>> /\ drained = 0 /\ pc = "ready"
      /\ \A w \in Workers : splitter[w] = <<>> /\ merger[w] = <<>>
  BY DEF Init
<1>2. Len(<<>>) = 0 /\ 0 <= MaxMessages * WritesPerMessage
  <2>1. MaxMessages * WritesPerMessage \in Nat
    BY Constants
  <2> QED BY <2>1
<1>3. WrittenOK
  BY <1>1, <1>2, Constants DEF WrittenOK, Running
<1>4. BoundsOK
  BY <1>1, <1>2, Constants DEF BoundsOK
<1> QED BY <1>3, <1>4

(* Every step keeps the counts of what was written. *)
LEMMA WrittenNext ==
  ASSUME Types, CountsOK, WrittenOK, [Next]_vars
  PROVE  WrittenOK'
<1>0. /\ Done \in Nat /\ Done <= MaxMessages /\ Done' \in Nat /\ Done' <= MaxMessages
      /\ Len(file) \in Nat /\ fNReceived \in Nat /\ fNOutput \in Nat
  <2>1. Len(file) \in Nat /\ fNReceived \in Nat /\ fNOutput \in Nat
    BY DEF Types, CountersOK, FileOK
  <2> QED BY <2>1, DoneBound, DoneNext
<1>1. CASE Deliver \/ RequestStop \/ StopUpstream \/ UNCHANGED vars
  <2>1. UNCHANGED <<fNWrite, file, fNReceived, fNOutput, pc, fStopRequested, fWorker>>
    BY <1>1 DEF Deliver, RequestStop, StopUpstream, vars, device, stops, threads, writing, source
  <2>2. Done' = Done
    BY <2>1 DEF Done
  <2> QED BY <1>0, <2>1, <2>2, WrittenSame DEF Running
<1>2. CASE PreRun /\ fStopRequested
  <2>1. UNCHANGED <<fNWrite, file, fStopRequested>> /\ pc' = "idle" /\ fStopRequested
    BY <1>2 DEF PreRun, writing, stops
  <2> QED BY <1>0, <2>1, WrittenSame DEF Running
<1>3. CASE PreRun /\ ~fStopRequested
  <2>1. fNWrite' = 0 /\ file' = <<Header>> /\ fNReceived' = 0 /\ fNOutput' = 0 /\ pc' = "idle"
    BY <1>3 DEF PreRun
  <2>2. Done' = 0 /\ Len(file') = 1 /\ 0 * WritesPerMessage = 0
    BY <2>1, NewFileFacts, Constants DEF Done
  <2>3. MaxMessages \in Nat /\ MaxMessages * WritesPerMessage \in Nat
    BY Constants
  <2> QED BY <2>1, <2>2, <2>3 DEF WrittenOK
<1>4. CASE EndPostRun
  <2>1. /\ pc = "drain" /\ pc' = "report" /\ file' = Append(file, Trailer)
        /\ UNCHANGED fNWrite
    BY <1>4 DEF EndPostRun, Put
  <2>2. Len(file') = Len(file) + 1
    BY <2>1, Kinds DEF Types, FileOK
  <2>3. Len(file) <= Done + 1
    BY <2>1 DEF WrittenOK, Running
  <2>4. Len(file') <= MaxMessages + 2
    BY <1>0, <2>2, <2>3, Constants
  <2> QED BY <2>1, <2>4 DEF WrittenOK, Running
<1>5. CASE BeginPostRun \/ Join \/ DrainOne \/ CloseFile \/ InitTask
  <2>1. /\ UNCHANGED <<fNWrite, file, fNReceived, fNOutput>> /\ (Running' => Running)
        /\ Running' => UNCHANGED fWorker
        /\ pc # "copy" /\ pc' # "copy"
    BY <1>5 DEF BeginPostRun, Join, DrainOne, CloseFile, InitTask, threads, writing, stops, Running
  <2>2. Running' => Done <= Done'
    BY <1>0, <2>1 DEF Done
  <2>3. Running' => Running /\ Done <= Done'
    BY <2>1, <2>2
  <2> QED BY <1>0, <2>1, <2>3, WrittenSame
<1>6. CASE Handle
  <2>1. /\ pc = "idle" /\ UNCHANGED <<fNOutput, fStopRequested, file, fWorker>>
        /\ fStopRequested => UNCHANGED <<pc, fNReceived>>
        /\ ~fStopRequested => fNReceived' = fNReceived + 1
        /\ ~fStopRequested /\ ~fWorker => pc' = "copy"
        /\ ~fStopRequested /\ fWorker => pc' = "split"
    BY <1>6, HandleFacts
  <2>2. UNCHANGED fNWrite
    BY <1>6 DEF Handle, writing
  <2>3. Running' => Running
    BY <2>1 DEF Running
  <2>4. Done' = Done
    BY <1>0, <2>1 DEF Done
  <2> QED BY <1>0, <2>1, <2>2, <2>3, <2>4, WrittenSame
<1>11. CASE Copies
  <2>1. /\ pc = "copy" /\ pc' = "idle" /\ ~fStopRequested /\ ~fWorker /\ current \in Messages
        /\ WriteData(current) /\ UNCHANGED <<fNReceived, fNOutput, fWorker>>
    BY <1>11, CopyFacts
  <2>2. Running /\ Done' = Done + 1
    BY <1>0, <2>1 DEF Running, Done
  <2> QED BY <1>0, <2>1, <2>2, WrittenMessage
<1>7. CASE SplitSend \/ SplitInterrupted
  <2>1. /\ pc = "split" /\ pc' = "idle"
        /\ UNCHANGED <<fStopRequested, file, fNReceived, fNOutput, fWorker>>
    BY <1>7, SplitFacts
  <2>2. UNCHANGED fNWrite
    BY <1>7 DEF SplitSend, SplitInterrupted, writing
  <2>3. Done' = Done
    BY <2>1 DEF Done
  <2> QED BY <1>0, <2>1, <2>2, <2>3, WrittenSame DEF Running
<1>8. CASE \E w \in Workers : Worker(w)
  <2>1. PICK w \in Workers : Worker(w)
    BY <1>8
  <2>2. UNCHANGED <<pc, fStopRequested, file, fNReceived, fNOutput, fWorker>>
    BY <2>1, WorkerFacts
  <2>3. UNCHANGED fNWrite
    BY <2>1 DEF Worker, WorkerReceive, WorkerSend, WorkerSendTimesOut, WorkerEnds, writing
  <2>4. Done' = Done
    BY <2>2 DEF Done
  <2> QED BY <1>0, <2>2, <2>3, <2>4, WrittenSame DEF Running
<1>9. CASE Merge
  <2> DEFINE m == Head(merger[MergeTurn])
  <2>1. /\ Merger \in alive /\ m \in Messages /\ WriteData(m) /\ fNOutput' = fNOutput + 1
        /\ UNCHANGED <<pc, fNReceived, fWorker>>
    BY <1>9, MergeFacts
  <2> HIDE DEF m
  <2>2. CASE fStopRequested
    <3>1. UNCHANGED <<fNWrite, file, fStopRequested>>
      BY <2>1, <2>2 DEF WriteData, writing
    <3>2. Done <= Done'
      BY <1>0, <2>1 DEF Done
    <3> QED BY <1>0, <2>1, <3>1, <3>2, WrittenSame DEF Running
  <2>3. CASE ~fStopRequested
    <3>1. fWorker
      BY <2>1, <2>3, NoThreads
    <3>2. Running
      BY <2>1, <2>3 DEF Types, ThreadsOK, ControlOK, Running
    <3>3. Done' = Done + 1
      BY <2>1, <3>1 DEF Done
    <3> QED BY <1>0, <2>1, <2>3, <3>2, <3>3, WrittenMessage
  <2> QED BY <2>2, <2>3
<1>10. CASE MergerEnds
  <2>1. UNCHANGED <<fNWrite, file, fStopRequested, fNReceived, fNOutput, pc, fWorker>>
    BY <1>10 DEF MergerEnds, writing, stops, device
  <2>2. Done' = Done
    BY <2>1 DEF Done
  <2> QED BY <1>0, <2>1, <2>2, WrittenSame DEF Running
<1> QED BY <1>1, <1>2, <1>3, <1>4, <1>5, <1>6, <1>7, <1>8, <1>9, <1>10, <1>11, Steps DEF LifeCycle, MergerThread

(* The channels take no more than they are made for, and PostRun no more than it is told to. *)
LEMMA BoundsNext ==
  ASSUME Types, BoundsOK, [Next]_vars
  PROVE  BoundsOK'
<1>0. /\ splitter \in [Workers -> Seq(Messages)] /\ merger \in [Workers -> Seq(Messages)]
      /\ QueueLength \in Nat /\ DrainLimit \in Nat /\ drained \in Nat
  BY Constants DEF Types, ChannelsOK, CountersOK
<1>m. \A q \in Seq(Messages), m \in Messages : Len(Append(q, m)) = Len(q) + 1 /\ Len(q) \in Nat
  OBVIOUS
<1>t. \A q \in Seq(Messages) : q # <<>> => Len(Tail(q)) <= Len(q) /\ Len(Tail(q)) \in Nat /\ Len(q) \in Nat
  OBVIOUS
<1>1. CASE Deliver \/ RequestStop \/ StopUpstream \/ Handle \/ Copies \/ UNCHANGED vars
  <2>1. UNCHANGED <<drained, splitter, merger>>
    BY <1>1, CopyFacts DEF Deliver, RequestStop, StopUpstream, Handle, vars, device, threads
  <2> QED BY <2>1 DEF BoundsOK
<1>2. CASE PreRun
  <2>1. UNCHANGED drained /\ (UNCHANGED <<splitter, merger>>
          \/ \A w \in Workers : splitter'[w] = <<>> /\ merger'[w] = <<>>)
    BY <1>2 DEF PreRun, threads
  <2>2. Len(<<>>) = 0
    OBVIOUS
  <2> QED BY <1>0, <2>1, <2>2 DEF BoundsOK
<1>3. CASE LifeCycle
  <2>1. UNCHANGED <<splitter, merger>> /\ (drained' = drained \/ drained' = 0
          \/ (drained < DrainLimit /\ drained' = drained + 1))
    BY <1>3 DEF LifeCycle, BeginPostRun, Join, DrainOne, EndPostRun, CloseFile, InitTask, threads
  <2> QED BY <1>0, <2>1 DEF BoundsOK
<1>4. CASE SplitSend \/ SplitInterrupted
  <2>1. Turn \in Workers /\ current \in Messages /\ UNCHANGED <<drained, merger>>
    BY <1>4, SplitFacts
  <2>2. CASE SplitSend
    <3>1. splitter' = [splitter EXCEPT ![Turn] = Append(@, current)] /\ Len(splitter[Turn]) < QueueLength
      BY <2>2 DEF SplitSend
    <3>2. ASSUME NEW w \in Workers PROVE Len(splitter'[w]) <= QueueLength
      <4>1. CASE w = Turn
        <5>1. splitter'[w] = Append(splitter[w], current)
          BY <1>0, <3>1, <4>1
        <5>2. Len(splitter'[w]) = Len(splitter[w]) + 1 /\ Len(splitter[w]) \in Nat
          BY <1>0, <1>m, <2>1, <5>1
        <5> QED BY <1>0, <3>1, <4>1, <5>2
      <4>2. CASE w # Turn
        <5>1. splitter'[w] = splitter[w]
          BY <1>0, <3>1, <4>2
        <5> QED BY <5>1 DEF BoundsOK
      <4> QED BY <4>1, <4>2
    <3> QED BY <2>1, <3>2 DEF BoundsOK
  <2>3. CASE SplitInterrupted
    <3>1. UNCHANGED splitter
      BY <1>4, <2>3, SplitFacts
    <3> QED BY <2>1, <3>1 DEF BoundsOK
  <2> QED BY <1>4, <2>2, <2>3
<1>5. CASE \E w \in Workers : Worker(w)
  <2>1. PICK x \in Workers : Worker(x)
    BY <1>5
  <2>2. UNCHANGED drained
    BY <2>1, WorkerFacts
  <2>3. ASSUME NEW w \in Workers PROVE Len(splitter'[w]) <= QueueLength
    <3>1. UNCHANGED splitter \/ (splitter[x] # <<>> /\ splitter' = [splitter EXCEPT ![x] = Tail(@)])
      BY <2>1 DEF Worker, WorkerReceive, WorkerSend, WorkerSendTimesOut, WorkerEnds
    <3>2. splitter'[w] = splitter[w] \/ (splitter[w] # <<>> /\ splitter'[w] = Tail(splitter[w]))
      BY <1>0, <3>1
    <3>3. Len(splitter[w]) <= QueueLength
      BY DEF BoundsOK
    <3>4. splitter[w] \in Seq(Messages)
      BY <1>0
    <3> QED BY <1>0, <1>t, <3>2, <3>3, <3>4
  <2>4. ASSUME NEW w \in Workers PROVE Len(merger'[w]) <= QueueLength
    <3>1. UNCHANGED merger \/ (/\ working[x] # None /\ Len(merger[x]) < QueueLength
                               /\ merger' = [merger EXCEPT ![x] = Append(@, working[x])])
      BY <2>1 DEF Worker, WorkerReceive, WorkerSend, WorkerSendTimesOut, WorkerEnds
    <3>2. CASE UNCHANGED merger
      BY <3>2 DEF BoundsOK
    <3>3. CASE ~UNCHANGED merger
      <4>1. working[x] \in Messages
        BY <3>1, <3>3 DEF Types, ChannelsOK
      <4>2. CASE w = x
        <5>1. merger'[w] = Append(merger[w], working[x]) /\ Len(merger[w]) < QueueLength
          BY <1>0, <3>1, <3>3, <4>2
        <5>2. Len(merger'[w]) = Len(merger[w]) + 1 /\ Len(merger[w]) \in Nat
          BY <1>0, <1>m, <4>1, <5>1
        <5> QED BY <1>0, <5>1, <5>2
      <4>3. CASE w # x
        <5>1. merger'[w] = merger[w]
          BY <1>0, <3>1, <3>3, <4>3
        <5> QED BY <5>1 DEF BoundsOK
      <4> QED BY <4>2, <4>3
    <3> QED BY <3>2, <3>3
  <2> QED BY <2>2, <2>3, <2>4 DEF BoundsOK
<1>6. CASE MergerThread
  <2>1. /\ UNCHANGED <<drained, splitter>>
        /\ UNCHANGED merger
              \/ \E x : merger[x] # <<>> /\ merger' = [merger EXCEPT ![x] = Tail(@)]
    <3>1. CASE Merge
      BY <3>1, MergeFacts
    <3>2. CASE MergerEnds
      BY <3>2 DEF MergerEnds, device
    <3> QED BY <1>6, <3>1, <3>2 DEF MergerThread
  <2>2. ASSUME NEW w \in Workers PROVE Len(merger'[w]) <= QueueLength
    <3>1. merger'[w] = merger[w] \/ (merger[w] # <<>> /\ merger'[w] = Tail(merger[w]))
      BY <1>0, <2>1
    <3>2. Len(merger[w]) <= QueueLength /\ merger[w] \in Seq(Messages)
      BY <1>0 DEF BoundsOK
    <3> QED BY <1>0, <1>t, <3>1, <3>2
  <2> QED BY <2>1, <2>2 DEF BoundsOK
<1> QED BY <1>1, <1>2, <1>3, <1>4, <1>5, <1>6, Steps

(* Two flags that only their writers look at. *)
FlagsOK == upstream \in BOOLEAN /\ joinable \in BOOLEAN

(* At first they are not set. *)
LEMMA FlagsInit == Init => FlagsOK
BY Zenon DEF Init, FlagsOK

(* They are set and reset. *)
LEMMA FlagsNext ==
  ASSUME Types, FlagsOK, [Next]_vars
  PROVE  FlagsOK'
<1>1. /\ UNCHANGED upstream \/ upstream' = TRUE \/ upstream' = FALSE
      /\ UNCHANGED joinable \/ joinable' = FALSE \/ joinable' = fWorker
  <2>1. CASE Deliver \/ RequestStop \/ StopUpstream \/ Handle \/ Copies \/ UNCHANGED vars
    BY <2>1, CopyFacts DEF Deliver, RequestStop, StopUpstream, Handle, vars, threads, source
  <2>2. CASE PreRun
    BY <2>2 DEF PreRun, threads
  <2>3. CASE LifeCycle
    BY <2>3 DEF LifeCycle, BeginPostRun, Join, DrainOne, EndPostRun, CloseFile, InitTask, threads, source
  <2>4. CASE SplitSend \/ SplitInterrupted
    BY <2>4 DEF SplitSend, SplitInterrupted, threads, source
  <2>5. CASE \E w \in Workers : Worker(w)
    BY <2>5 DEF Worker, WorkerReceive, WorkerSend, WorkerSendTimesOut, WorkerEnds, source
  <2>6. CASE MergerThread
    BY <2>6 DEF MergerThread, Merge, MergerEnds, source
  <2> QED BY <2>1, <2>2, <2>3, <2>4, <2>5, <2>6, Steps
<1>2. upstream' \in BOOLEAN
  <2>1. CASE UNCHANGED upstream
    BY <2>1, Zenon DEF FlagsOK
  <2>2. CASE upstream' = TRUE \/ upstream' = FALSE
    BY <2>2, Zenon
  <2> QED BY <1>1, <2>1, <2>2, Zenon
<1>3. joinable' \in BOOLEAN
  <2>1. CASE UNCHANGED joinable
    BY <2>1, Zenon DEF FlagsOK
  <2>2. CASE joinable' = FALSE
    BY <2>2, Zenon
  <2>3. CASE joinable' = fWorker
    BY <2>3, Zenon DEF Types, ThreadsOK
  <2> QED BY <1>1, <2>1, <2>2, <2>3, Zenon
<1> QED BY <1>2, <1>3, Zenon DEF FlagsOK

-----------------------------------------------------------------------------
(* The types of the FileUtil. *)
TypedOK == Typed(fFile, Len(file))

(* At first there are only the files that existed. *)
LEMMA TypedInit == Init => TypedOK
<1> SUFFICES ASSUME Init PROVE TypedOK
  OBVIOUS
<1> DEFINE d == [f \in Existing |-> Stale]
<1>1. /\ fFile.branches = <<>> /\ fFile.disk = d /\ fFile.fName \in {NoName, Path} /\ fFile.fBranchNum = -1
      /\ Len(file) = 0
  <2>1. fFile = NewFile(d) /\ file = <<>>
    BY DEF Init
  <2> HIDE DEF d
  <2> QED BY <2>1, NewFileUtil
<1>2. Stale \in Seq(Stuff) /\ Len(<<>>) = 0
  BY DEF Stale, Stuff
<1>3. \A f \in DOMAIN d : f \in Existing /\ d[f] = Stale
  OBVIOUS
<1> HIDE DEF d
<1> QED BY <1>1, <1>2, <1>3 DEF TypedOK, Typed

(* Every step keeps them. *)
LEMMA TypedNext ==
  ASSUME Types, NamesOK, CountsOK, WrittenOK, TypedOK, [Next]_vars
  PROVE  TypedOK'
<1>0. Util(fFile) /\ Typed(fFile, Len(file))
  BY DEF NamesOK, NameOK, TypedOK
<1>r. run \in 0 .. MaxRuns /\ run' \in 0 .. MaxRuns /\ MaxMessages \in Nat /\ MaxRuns \in Nat
  <2>1. Types'
    BY TypesNext
  <2> QED BY <2>1, Constants DEF Types, InputOK
<1>i. run \in Int /\ run' \in Int
  BY <1>r
<1>n. Len(file) \in Nat /\ (Running => Len(file) \in 0 .. MaxMessages + 1)
  BY <1>r, DoneBound DEF Types, FileOK, WrittenOK
<1>s. SUFFICES Typed(fFile', Len(file'))
  BY DEF TypedOK, Typed
<1>1. CASE Quiet
  BY <1>0, <1>1 DEF Quiet
<1>2. CASE Writes
  <2>1. PICK item \in Items : Put(item)
    BY <1>2 DEF Writes
  <2>2. /\ fFile' = Write(fFile, item, LengthOf(item), run) /\ LengthOf(item) \in Nat
        /\ file' = Append(file, item)
    BY <2>1, LengthType DEF Put
  <2>3. Len(file') = Len(file) + 1
    BY <2>2 DEF Types, FileOK
  <2>4. Len(file) \in 0 .. MaxMessages + 1
    BY <1>2, <1>n DEF Writes
  <2> QED BY <1>0, <1>r, <2>2, <2>3, <2>4, WriteTyped
<1>3. CASE PreRun /\ ~fStopRequested
  <2> DEFINE c == ClearBranch(fFile)
             o == Open(c, run')
  <2>1. /\ fFile' = Write(o, Header, LengthOf(Header), run') /\ LengthOf(Header) \in Nat
        /\ pc = "ready" /\ file' = <<Header>> /\ Header \in Items
    BY <1>3, LengthType, Kinds DEF PreRun
  <2>2. /\ Util(c) /\ c.fName = fFile.fName /\ c.isOpen = fFile.isOpen /\ c.branches = <<>>
        /\ c.fBranchNum = 0 /\ ~fFile.isOpen /\ c.disk = fFile.disk
    BY <1>0, <1>3, <2>1, ClearFileUtil DEF NamesOK
  <2> HIDE DEF c
  <2>3. Typed(c, 0)
    BY <1>0, <2>2 DEF Typed
  <2>4. 0 \in 0 .. MaxMessages + 2 /\ 0 \in 0 .. MaxMessages + 1
    BY <1>r
  <2>5. Util(o) /\ Typed(o, 0)
    BY <1>r, <1>i, <2>2, <2>3, <2>4, OpenOutcomes, OpenTyped
  <2> HIDE DEF o
  <2>6. Typed(fFile', 0 + 1) /\ Len(file') = 0 + 1
    BY <1>r, <2>1, <2>4, <2>5, WriteTyped, NewFileFacts
  <2> QED BY <2>6
<1>4. CASE CloseFile
  <2> DEFINE c == Close(fFile)
  <2>1. fFile' = ClearBranch(c) /\ UNCHANGED file
    BY <1>4 DEF CloseFile
  <2>2. Util(c) /\ c.fName \in {NoName, fFile.fName} /\ c.disk = fFile.disk
    BY <1>0, CloseFileUtil
  <2> HIDE DEF c
  <2>3. /\ fFile'.fName \in {NoName, fFile.fName} /\ fFile'.branches = <<>> /\ fFile'.fBranchNum = 0
        /\ fFile'.disk = fFile.disk
    BY <2>1, <2>2, ClearFileUtil
  <2> QED BY <1>0, <1>n, <2>1, <2>3 DEF Typed
<1>5. CASE InitTask
  <2>1. fFile' = NewFile(fFile.disk) /\ UNCHANGED file
    BY <1>5 DEF InitTask
  <2>2. /\ fFile'.branches = <<>> /\ fFile'.fName \in {NoName, Path} /\ fFile'.fBranchNum = -1
        /\ fFile'.disk = fFile.disk
    BY <2>1, NewFileUtil
  <2> QED BY <1>0, <1>n, <2>1, <2>2 DEF Typed
<1> QED BY <1>1, <1>2, <1>3, <1>4, <1>5, FileSteps

(* The variables keep their types, the counters stay within what was sent to the device, and the branch     *)
(* number within what was written (PreRun, PostRun, Handle*, WriteData of FileSink; Open, Write of FileUtil). *)
THEOREM TypeCorrect == Spec => []TypeOK
<1> DEFINE IInv == Types /\ NamesOK /\ CountsOK /\ WrittenOK /\ BoundsOK /\ FlagsOK /\ TypedOK
<1>1. IInv => TypeOK
  <2> SUFFICES ASSUME IInv PROVE TypeOK
    OBVIOUS
  <2>1. fNReceived \in 0 .. MaxMessages
    BY DoneBound
  <2>2. MaxMessages * WritesPerMessage \in Nat
    BY Constants
  <2>3. fNWrite \in 0 .. MaxMessages * WritesPerMessage
    BY <2>2 DEF WrittenOK
  <2>4. drained \in 0 .. DrainLimit
    BY Constants DEF Types, CountersOK, BoundsOK
  <2>5. Util(fFile) /\ Typed(fFile, Len(file)) /\ Len(file) \in Nat /\ Len(file) <= MaxMessages + 2
    BY <2>1, Constants DEF NamesOK, NameOK, TypedOK, WrittenOK, Types, FileOK
  <2>6. /\ fFile.fName \in Files \union {NoName, Path}
        /\ fFile.isOpen \in BOOLEAN
        /\ fFile.status \in {"ok", "thrown", "undefined"}
        /\ \A i \in DOMAIN fFile.branches : fFile.branches[i].file \in Files \union {Path}
        /\ \A f \in DOMAIN fFile.disk :
             f \in Files \union {Path} \union Existing /\ fFile.disk[f] \in Seq(Items \union {Head(Stale)})
    BY <2>5 DEF Util, Typed, Stuff, States
  <2>7. fFile.fBranchNum \in -1 .. MaxMessages + 2
    BY <2>5, Constants DEF Typed
  <2> QED BY <2>1, <2>3, <2>4, <2>6, <2>7
          DEF TypeOK, FlagsOK, Types, ControlOK, CurrentOK, CountersOK, ChannelsOK, BoundsOK, FileOK, InputOK, ThreadsOK
<1>2. Init => IInv
  BY TypesInit, NamesInit, CountsInit, WrittenInit, FlagsInit, TypedInit
<1>3. IInv /\ [Next]_vars => IInv'
  BY TypesNext, NamesNext, CountsNext, WrittenNext, BoundsNext, FlagsNext, TypedNext
<1> QED BY <1>1, <1>2, <1>3, PTL DEF Spec

=============================================================================
