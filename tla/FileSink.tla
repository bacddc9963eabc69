------------------------------- MODULE FileSink -------------------------------
(***************************************************************************)
(* FileSink.cxx with utility/TaskProcessorMT.cxx: the device that writes the   *)
(* data of a run to a file.  With compression the messages are dealt out in     *)
(* round robin to worker threads, and a merger thread collects the compressed   *)
(* messages in the same round robin and writes them.                         *)
(*                                                                         *)
(* The device thread (PreRun, the data handler, PostRun), the workers and the   *)
(* merger are processes; NewStatePending() and fStopRequested are all that they *)
(* share besides the in-process channels.                                    *)
(*                                                                         *)
(* Abstractions.  A message is its number and the run it was sent in.  FileUtil  *)
(* says what becomes of fFile, the object that writes the file, with the disk;   *)
(* file is what was passed to its Write since it was opened.                  *)
(***************************************************************************)
EXTENDS FileUtil

CONSTANTS
  NThreads,        (* fNThreads, where worker threads are used               *)
  ThreadModes,     (* does the configuration ask for worker threads?          *)
  Monitoring,      (* is there a channel for data quality monitoring?         *)
  Multipart,       (* fMultipart: HandleMultipartDataMT or HandleDataMT        *)
  MaxIteration,    (* fMaxIteration, 0: no limit                              *)
  WritesPerMessage,(* 1 with fMergeMessage, else the number of parts           *)
  QueueLength,     (* fInProcMQLength                                        *)
  SlowWriter,      (* can a worker's send to the merger time out?              *)
  DrainLimit,      (* receives in PostRun: 10                                 *)
  StopsFirst,      (* do the senders stop before PostRun receives?            *)
  InputHWM,        (* messages that may wait in the input channel              *)
  Lengths,         (* the lengths of the messages, again and again             *)
  MaxMessages,     (* bound: messages sent to the device                      *)
  MaxRuns          (* bound: number of runs                                  *)

ASSUME FSConstantsAssumption ==
  /\ NThreads \in Nat \ {0}
  /\ ThreadModes \subseteq BOOLEAN /\ ThreadModes # {}
  /\ Monitoring \in BOOLEAN /\ StopsFirst \in BOOLEAN
  /\ MaxIteration \in Nat /\ WritesPerMessage \in Nat \ {0}
  /\ QueueLength \in Nat \ {0} /\ DrainLimit \in Nat
  /\ InputHWM \in Nat \ {0} /\ MaxMessages \in Nat /\ MaxRuns \in Nat
  /\ Multipart \in BOOLEAN /\ SlowWriter \in BOOLEAN
  /\ Lengths \in Seq(Nat \ {0}) /\ Len(Lengths) > 0

VARIABLES
  pc,             (* where the device thread is                              *)
  newState,       (* NewStatePending()                                       *)
  fStopRequested,
  fNReceived, fNWrite,
  current,        (* the message that the handler is dealing out or copying    *)
  drained,        (* messages received in PostRun                            *)
  splitter,       (* worker -> its input channel                             *)
  working,        (* worker -> the message it is compressing, or none          *)
  merger,         (* worker -> its output channel                            *)
  fNOutput,
  alive,          (* the threads whose loop has not ended                     *)
  joinable,       (* have the threads been started and not been joined?        *)
  fWorker,        (* does the handler deal out to worker threads?             *)
  fFile,          (* the FileUtil                                            *)
  file,           (* what was written since the file was opened               *)
  input,          (* the input channel of the device                         *)
  produced,       (* number of messages sent to the device                    *)
  upstream,       (* are the upstream devices sending?                        *)
  run             (* number of the current run                               *)

device   == <<pc, fNReceived, current, drained>>
stops    == <<newState, fStopRequested>>
threads  == <<splitter, working, merger, fNOutput, alive, joinable, fWorker>>
writing  == <<fNWrite, fFile, file>>
source   == <<input, produced, upstream, run>>
vars     == <<device, stops, threads, writing, source>>

Workers  == 0 .. NThreads - 1
Merger   == NThreads
Messages == [n : 1 .. MaxMessages, run : 1 .. MaxRuns]
None     == [n |-> 0, run |-> 0]
Header   == [n |-> -1, run |-> 0]
Trailer  == [n |-> -2, run |-> 0]
Items    == Messages \union {Header, Trailer}

LengthOf(item) == IF item.n < 0 THEN 1 ELSE Lengths[1 + (item.n % Len(Lengths))]

(* Every write goes through here.                                            *)
Put(item) ==
  /\ fFile' = Write(fFile, item, LengthOf(item), run)
  /\ file' = Append(file, item)

-----------------------------------------------------------------------------
(* The rest of the system.                                                  *)
Deliver ==
  /\ upstream
  /\ StopsFirst => pc \notin {"drain", "report", "ready"}
  /\ produced < MaxMessages /\ Len(input) < InputHWM
  /\ produced' = produced + 1
  /\ input' = Append(input, [n |-> produced', run |-> run])
  /\ UNCHANGED <<device, stops, threads, writing, upstream, run>>

RequestStop ==
  /\ pc \in {"idle", "split", "copy"} /\ ~newState
  /\ newState' = TRUE
  /\ UNCHANGED <<device, fStopRequested, threads, writing, source>>

StopUpstream ==
  /\ upstream
  /\ newState \/ pc = "ready"
  /\ upstream' = FALSE
  /\ UNCHANGED <<device, stops, threads, writing, input, produced, run>>

-----------------------------------------------------------------------------
(* The device thread: life cycle.                                           *)

(* A skipped PreRun opens no file and starts no thread.                       *)
PreRun ==
  /\ pc = "ready" /\ run < MaxRuns /\ ~upstream
  /\ pc' = "idle"
  /\ upstream' = TRUE /\ run' = run + 1
  /\ UNCHANGED <<stops, current, drained, fWorker, input, produced>>
  /\ IF fStopRequested
     THEN UNCHANGED <<fNReceived, writing, threads>>
     ELSE /\ fNReceived' = 0 /\ fNWrite' = 0
          /\ fFile' = Write(Open(ClearBranch(fFile), run'), Header, LengthOf(Header), run')
          /\ file' = <<Header>>
          /\ splitter' = [w \in Workers |-> <<>>]
          /\ merger' = [w \in Workers |-> <<>>]
          /\ working' = [w \in Workers |-> None]
          /\ fNOutput' = 0
          /\ alive' = IF fWorker THEN Workers \union {Merger} ELSE {}
          /\ joinable' = fWorker

(* The loop over the input ends for a new state and PostRun begins, unless it    *)
(* is skipped.  In the state READY no new state is pending any more.          *)
BeginPostRun ==
  /\ pc = "idle" /\ newState
  /\ IF fStopRequested THEN pc' = "ready" /\ newState' = FALSE
                       ELSE pc' = "join" /\ UNCHANGED newState
  /\ UNCHANGED <<fStopRequested, fNReceived, current, drained, threads, writing, source>>

(* Mutant: PostRun does not wait for the threads.                            *)
Join_Hasty ==
  /\ pc = "join"
  /\ pc' = "drain" /\ drained' = 0
  /\ joinable' = FALSE
  /\ UNCHANGED <<stops, fNReceived, current, splitter, working, merger, fNOutput, alive,
                 fWorker, writing, source>>

Join ==
  /\ pc = "join" /\ alive = {}
  /\ pc' = "drain" /\ drained' = 0
  /\ joinable' = FALSE
  /\ UNCHANGED <<stops, fNReceived, current, splitter, working, merger, fNOutput, alive,
                 fWorker, writing, source>>

DrainOne ==
  /\ pc = "drain" /\ input # <<>> /\ drained < DrainLimit
  /\ input' = Tail(input)
  /\ drained' = drained + 1
  /\ UNCHANGED <<pc, stops, fNReceived, current, threads, writing, produced, upstream, run>>

(* Mutant: PostRun leaves the input channel alone.                           *)
EndPostRun_NoDrain ==
  /\ pc = "drain"
  /\ Put(Trailer)
  /\ pc' = "report"
  /\ UNCHANGED <<stops, fNReceived, current, drained, threads, fNWrite, source>>

(* A receive found nothing, or ten found something, and the trailer is written,  *)
(* whatever the senders do.                                                 *)
EndPostRun ==
  /\ pc = "drain"
  /\ input = <<>> \/ drained = DrainLimit
  /\ Put(Trailer)
  /\ pc' = "report"
  /\ UNCHANGED <<stops, fNReceived, current, drained, threads, fNWrite, source>>

(* The file is closed, its branches are reported and forgotten.               *)
CloseFile ==
  /\ pc = "report"
  /\ fFile' = ClearBranch(Close(fFile))
  /\ pc' = "ready" /\ newState' = FALSE
  /\ UNCHANGED <<fStopRequested, fNReceived, current, drained, threads, fNWrite, file, source>>

(* InitTask after a reset reads the configuration again.  The destructor of      *)
(* TaskProcessorMT ends the program if a thread was not joined.               *)
InitTask ==
  /\ pc = "ready"
  /\ fStopRequested' = FALSE
  /\ fFile' = NewFile(fFile.disk)
  /\ IF joinable THEN pc' = "terminated" /\ alive' = {}
                 ELSE UNCHANGED <<pc, alive>>
  /\ fWorker' \in ThreadModes
  /\ UNCHANGED <<fNReceived, current, drained, newState, splitter, working, merger, fNOutput,
                 joinable, fNWrite, file, source>>

-----------------------------------------------------------------------------
(* The device thread: the data handler.  When it returns false, FairMQ asks     *)
(* for the transition to the state READY itself.                              *)
ReturnFalse == newState' = TRUE /\ pc' = "idle"

(* WriteData and WriteMultipartData.                                         *)
WriteData(msg) ==
  IF fStopRequested
  THEN UNCHANGED <<writing, fStopRequested>>
  ELSE /\ Put(msg)
       /\ fNWrite' = fNWrite + WritesPerMessage
       /\ fStopRequested' = (MaxIteration > 0 /\ fNWrite' = MaxIteration)

(* HandleDataMT and HandleMultipartDataMT deal the message out, HandleData and     *)
(* HandleMultipartData send a copy of it to monitoring and write it.           *)
Handle ==
  /\ pc = "idle" /\ ~newState /\ input # <<>>
  /\ input' = Tail(input)
  /\ UNCHANGED <<drained, fStopRequested, threads, writing, produced, upstream, run>>
  /\ IF fStopRequested
     THEN ReturnFalse /\ UNCHANGED <<fNReceived, current>>
     ELSE /\ fNReceived' = fNReceived + 1
          /\ current' = Head(input)
          /\ pc' = IF fWorker THEN "split" ELSE "copy"
          /\ UNCHANGED newState

(* Whether the copy was sent or not, the message is written.                   *)
WriteCurrent ==
  /\ pc = "copy"
  /\ WriteData(current)
  /\ current' = None
  /\ IF fStopRequested' THEN ReturnFalse ELSE pc' = "idle" /\ UNCHANGED newState
  /\ UNCHANGED <<fNReceived, drained, threads, source>>

(* The send has no timeout: it ends when monitoring takes the copy, which it need  *)
(* not do ever,                                                            *)
CopySent == Monitoring /\ WriteCurrent

(* or when a stop interrupts it, or there is no such channel.                  *)
CopyEnds == (~Monitoring \/ newState) /\ WriteCurrent

(* The worker that the handler chose for the current message.                 *)
Turn == (fNReceived - 1) % NThreads

(* Mutant: the next worker is the one that has room.                          *)
SplitSend_AnyWorker ==
  /\ pc = "split"
  /\ \E w \in Workers :
       /\ Len(splitter[w]) < QueueLength
       /\ splitter' = [splitter EXCEPT ![w] = Append(@, current)]
  /\ current' = None
  /\ pc' = "idle"
  /\ UNCHANGED <<fNReceived, drained, stops, working, merger, fNOutput, alive, joinable,
                 fWorker, writing, source>>

SplitSend ==
  /\ pc = "split"
  /\ Len(splitter[Turn]) < QueueLength
  /\ splitter' = [splitter EXCEPT ![Turn] = Append(@, current)]
  /\ current' = None
  /\ pc' = "idle"
  /\ UNCHANGED <<fNReceived, drained, stops, working, merger, fNOutput, alive, joinable,
                 fWorker, writing, source>>

(* Mutant: HandleDataMT looks for a stop no more than its twin does.          *)
SplitInterrupted_Deaf == pc = "split" /\ FALSE /\ UNCHANGED vars

(* Only HandleDataMT looks for a stop when its send has failed,                *)
(* HandleMultipartDataMT tries again for ever.                               *)
SplitInterrupted ==
  /\ pc = "split" /\ ~Multipart
  /\ Len(splitter[Turn]) >= QueueLength
  /\ fStopRequested \/ newState
  /\ current' = None
  /\ ReturnFalse
  /\ UNCHANGED <<fNReceived, drained, fStopRequested, threads, writing, source>>

-----------------------------------------------------------------------------
(* The worker threads.                                                      *)

(* CompressData drops the message when a stop was requested.                  *)
WorkerReceive(w) ==
  /\ w \in alive /\ working[w] = None /\ splitter[w] # <<>>
  /\ splitter' = [splitter EXCEPT ![w] = Tail(@)]
  /\ working' = [working EXCEPT ![w] = IF fStopRequested THEN None ELSE Head(splitter[w])]
  /\ UNCHANGED <<device, stops, merger, fNOutput, alive, joinable, fWorker, writing,
                 source>>

(* Mutant: the channel takes whatever it is given.                           *)
WorkerSend_Unbounded(w) ==
  /\ working[w] # None
  /\ merger' = [merger EXCEPT ![w] = Append(@, working[w])]
  /\ working' = [working EXCEPT ![w] = None]
  /\ UNCHANGED <<device, stops, splitter, fNOutput, alive, joinable, fWorker, writing,
                 source>>

WorkerSend(w) ==
  /\ working[w] # None
  /\ Len(merger[w]) < QueueLength
  /\ merger' = [merger EXCEPT ![w] = Append(@, working[w])]
  /\ working' = [working EXCEPT ![w] = None]
  /\ UNCHANGED <<device, stops, splitter, fNOutput, alive, joinable, fWorker, writing,
                 source>>

(* The send to the merger timed out; nobody looks at its result.              *)
WorkerSendTimesOut(w) ==
  /\ working[w] # None
  /\ Len(merger[w]) >= QueueLength
  /\ SlowWriter \/ Merger \notin alive
  /\ working' = [working EXCEPT ![w] = None]
  /\ UNCHANGED <<device, stops, splitter, merger, fNOutput, alive, joinable, fWorker, writing,
                 source>>

WorkerEnds(w) ==
  /\ w \in alive /\ working[w] = None /\ newState
  /\ alive' = alive \ {w}
  /\ UNCHANGED <<device, stops, splitter, working, merger, fNOutput, joinable, fWorker, writing,
                 source>>

-----------------------------------------------------------------------------
(* The merger thread.                                                       *)

(* Mutant: the merger does not move on to the next worker.                    *)
Merge_SameWorker ==
  /\ Merger \in alive
  /\ LET w == fNOutput % NThreads IN
       /\ merger[w] # <<>>
       /\ merger' = [merger EXCEPT ![w] = Tail(@)]
       /\ WriteData(Head(merger[w]))
  /\ UNCHANGED <<device, newState, splitter, working, fNOutput, alive, joinable, fWorker,
                 source>>

Merge ==
  /\ Merger \in alive
  /\ LET w == fNOutput % NThreads IN
       /\ merger[w] # <<>>
       /\ merger' = [merger EXCEPT ![w] = Tail(@)]
       /\ WriteData(Head(merger[w]))
  /\ fNOutput' = fNOutput + 1
  /\ UNCHANGED <<device, newState, splitter, working, alive, joinable, fWorker, source>>

MergerEnds ==
  /\ Merger \in alive /\ newState
  /\ alive' = alive \ {Merger}
  /\ UNCHANGED <<device, stops, splitter, working, merger, fNOutput, joinable, fWorker, writing,
                 source>>

-----------------------------------------------------------------------------
Init ==
  /\ pc = "ready" /\ newState = FALSE /\ fStopRequested = FALSE
  /\ fNReceived = 0 /\ fNWrite = 0 /\ current = None /\ drained = 0
  /\ splitter = [w \in Workers |-> <<>>]
  /\ merger = [w \in Workers |-> <<>>]
  /\ working = [w \in Workers |-> None]
  /\ fNOutput = 0 /\ alive = {} /\ joinable = FALSE /\ fWorker \in ThreadModes
  /\ fFile = NewFile([f \in Existing |-> Stale]) /\ file = <<>>
  /\ input = <<>> /\ produced = 0 /\ upstream = FALSE /\ run = 0

DeviceThread ==
  \/ BeginPostRun \/ Join \/ DrainOne \/ EndPostRun \/ CloseFile
  \/ Handle \/ CopyEnds \/ SplitSend \/ SplitInterrupted

Worker(w) ==
  WorkerReceive(w) \/ WorkerSend(w) \/ WorkerSendTimesOut(w) \/ WorkerEnds(w)

MergerThread == Merge \/ MergerEnds

Next ==
  \/ DeviceThread \/ MergerThread
  \/ \E w \in Workers : Worker(w)
  \/ PreRun \/ InitTask \/ CopySent \/ Deliver \/ RequestStop \/ StopUpstream

Spec == Init /\ [][Next]_vars

(* Every thread is scheduled, and the stop reaches the upstream devices.  Nothing  *)
(* is assumed of monitoring.                                               *)
FairSpec ==
  /\ Spec
  /\ WF_vars(DeviceThread) /\ WF_vars(MergerThread)
  /\ \A w \in Workers : WF_vars(Worker(w))
  /\ WF_vars(StopUpstream)

-----------------------------------------------------------------------------
Files == [run : 0 .. MaxRuns, branch : -1 .. MaxMessages + 2]

TypeOK ==
  /\ pc \in {"ready", "idle", "split", "copy", "join", "drain", "report", "terminated"}
  /\ newState \in BOOLEAN /\ fStopRequested \in BOOLEAN
  /\ fNReceived \in 0 .. MaxMessages
  /\ fNWrite \in 0 .. MaxMessages * WritesPerMessage
  /\ current \in Messages \union {None}
  /\ drained \in 0 .. DrainLimit
  /\ splitter \in [Workers -> Seq(Messages)]
  /\ merger \in [Workers -> Seq(Messages)]
  /\ \A w \in Workers : Len(splitter[w]) <= QueueLength /\ Len(merger[w]) <= QueueLength
  /\ working \in [Workers -> Messages \union {None}]
  /\ fNOutput \in Nat
  /\ alive \in SUBSET (Workers \union {Merger})
  /\ joinable \in BOOLEAN /\ fWorker \in BOOLEAN
  /\ fFile.fName \in Files \union {NoName, Path}
  /\ fFile.isOpen \in BOOLEAN
  /\ fFile.fBranchNum \in -1 .. MaxMessages + 2
  /\ fFile.status \in {"ok", "thrown", "undefined"}
  /\ \A i \in DOMAIN fFile.branches : fFile.branches[i].file \in Files \union {Path}
  /\ \A f \in DOMAIN fFile.disk :
       f \in Files \union {Path} \union Existing /\ fFile.disk[f] \in Seq(Items \union {Head(Stale)})
  /\ file \in Seq(Items)
  /\ input \in Seq(Messages) /\ produced \in 0 .. MaxMessages
  /\ upstream \in BOOLEAN /\ run \in 0 .. MaxRuns

-----------------------------------------------------------------------------
IsMessage(i) == file[i] \notin {Header, Trailer}

(* The file holds the messages in the order in which they were received and     *)
(* without a gap, however the workers overtake each other: behind the first one,  *)
(* every message follows its predecessor.                                     *)
WrittenInOrder ==
  \A i \in 3 .. Len(file) : IsMessage(i) => file[i].n = file[i - 1].n + 1

(* No message of an earlier run gets into the file.                           *)
WrittenInOwnRun == \A i \in 1 .. Len(file) : IsMessage(i) => file[i].run = run

(* A file that is done with begins with the header and ends with the trailer,   *)
(* as the data format shows, with nothing but messages between them, and nobody   *)
(* writes to it any more.                                                   *)
FileIsFramed ==
  pc = "ready" /\ run > 0 =>
    /\ Len(file) >= 2 /\ file[1] = Header /\ file[Len(file)] = Trailer
    /\ \A i \in 2 .. Len(file) - 1 : IsMessage(i)
    /\ alive = {}

(* The branches of the file hold together what was written to it, in order,     *)
(* although a branch is closed and the next one opened within a Write, whatever   *)
(* files were there before.                                                 *)
NothingLost ==
  fFile.status = "ok" /\ fFile.branches # <<>> => file = FlattenSeq(Contents(fFile))

(* A branch is closed as soon as it has reached its size, and not before.       *)
SplitInTime ==
  \A i \in DOMAIN fFile.branches :
    LET b == fFile.branches[i] IN
      /\ (i < Len(fFile.branches)) => b.raw >= MaxBranchSize
      /\ (i = Len(fFile.branches)) => b.raw < MaxBranchSize

(* The files of earlier runs are not written to any more.                     *)
EarlierRunsKept ==
  [][\A f \in DOMAIN fFile.disk :
       f.run \in 1 .. run' - 1 => (fFile.disk[f])' = fFile.disk[f]]_vars

(* What was received is written in the end, unless the run is stopped, the limit   *)
(* on the writes has been reached, or monitoring has stopped for good to take the  *)
(* copies that HandleData sends first.                                        *)
ReceivedIsWritten ==
  \A k \in 1 .. MaxMessages :
    (fNReceived = k) ~> (\/ newState \/ fStopRequested \/ pc \in {"ready", "terminated"}
                          \/ fNWrite >= k \/ [](pc = "copy"))

(* A stop request ends the run.                                             *)
StopEndsRun == newState ~> (pc = "ready")

=============================================================================
