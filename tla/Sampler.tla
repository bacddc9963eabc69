------------------------------- MODULE Sampler -------------------------------
(***************************************************************************)
(* AmQStrTdcSampler.cxx: the device, one per front-end module, that reads the    *)
(* word stream of the module from a TCP connection and sends it, in messages of   *)
(* up to fnWordPerCycle words, to the sub time frame builder of the module.       *)
(*                                                                         *)
(* The bytes of a run are numbered from 0 as the module sends them; a message is   *)
(* the number of its first byte and the count of its words.  The kernel gives them *)
(* to recv in portions of any size; SO_RCVTIMEO ends a recv that waits for one      *)
(* second with EAGAIN.                                                       *)
(***************************************************************************)
EXTENDS Integers, SequencesExt

CONSTANTS
  WordBytes,     (* optnByte: 8                                             *)
  WordsPerCycle, (* fnWordPerCycle                                          *)
  OutputHWM,     (* messages that may wait at the builder                      *)
  MaxBytes,      (* bound: bytes that the module sends in a run                  *)
  MaxRuns        (* bound: number of runs                                  *)

ASSUME SamplerConstantsAssumption ==
  /\ WordBytes \in Nat \ {0} /\ WordsPerCycle \in Nat \ {0}
  /\ OutputHWM \in Nat \ {0} /\ MaxBytes \in Nat /\ MaxRuns \in Nat

VARIABLES
  pc,            (* where the device is                                     *)
  stopRequested, (* NewStatePending()                                      *)
  run,           (* number of the current run                               *)
  peer,          (* the connection: "none" without a socket, "open", "closed"    *)
                 (* by the module, "reset"                                  *)
  pos,           (* bytes the module has sent in this run                       *)
  taken,         (* bytes recv has returned                                 *)
  bufStart,      (* the first byte in the buffer                             *)
  revd_size,     (* bytes in the buffer                                    *)
  n_word,        (* words of the message to be sent                           *)
  output,        (* the messages waiting at the builder                        *)
  handed,        (* ghost: where the last message sent in this run ended          *)
  cutInside      (* ghost: has a receive of this run dropped bytes?              *)

connection == <<peer, pos, taken>>
buffer     == <<bufStart, revd_size, n_word>>
ghosts     == <<handed, cutInside>>
vars       == <<pc, stopRequested, run, connection, buffer, output, ghosts>>

Length  == WordsPerCycle * WordBytes
Waiting == pos - taken                   (* bytes in the kernel            *)

Info == [info |-> TRUE, start |-> 0, words |-> 3]

-----------------------------------------------------------------------------
(* InitTask and SendFEMInfo: the message that tells the builder its module.        *)
SendFEMInfo ==
  /\ pc = "init" /\ Len(output) < OutputHWM
  /\ output' = Append(output, Info)
  /\ pc' = "ready"
  /\ UNCHANGED <<stopRequested, run, connection, buffer, ghosts>>

(* PreRun and ConnectSocket; a failure is only logged.                           *)
PreRun(connected) ==
  /\ pc = "ready" /\ run < MaxRuns
  /\ pc' = "idle" /\ stopRequested' = FALSE /\ run' = run + 1
  /\ peer' = IF connected THEN "open" ELSE "none"
  /\ pos' = 0 /\ taken' = 0 /\ handed' = 0 /\ cutInside' = FALSE
  /\ UNCHANGED <<buffer, output>>

(* ConditionalRun calls Event_Cycle, that receive.                              *)
BeginReceive ==
  /\ pc = "idle" /\ ~stopRequested
  /\ pc' = "recv" /\ bufStart' = taken /\ revd_size' = 0 /\ n_word' = 0
  /\ UNCHANGED <<stopRequested, run, connection, output, ghosts>>

Recv(n) ==
  /\ pc = "recv" /\ peer \in {"open", "closed"}
  /\ n \in 1 .. Waiting /\ revd_size + n <= Length
  /\ revd_size' = revd_size + n /\ taken' = taken + n
  /\ UNCHANGED <<pc, stopRequested, run, peer, pos, bufStart, n_word, output, ghosts>>

(* Mutant: a message always has the size of the buffer.                          *)
ToSend_WholeBuffer ==
  /\ pc' = "send" /\ n_word' = WordsPerCycle
  /\ cutInside' = (cutInside \/ revd_size % WordBytes # 0)

(* The rest of a division by the word size is not kept for the next message.       *)
ToSend ==
  /\ pc' = "send" /\ n_word' = revd_size \div WordBytes
  /\ cutInside' = (cutInside \/ revd_size % WordBytes # 0)

BufferFull ==
  /\ pc = "recv" /\ revd_size = Length
  /\ ToSend
  /\ UNCHANGED <<stopRequested, run, connection, bufStart, revd_size, output, handed>>

(* Mutant: after a timeout the buffer is given up.                              *)
RecvTimesOut_Drops ==
  /\ pc = "recv" /\ peer = "open" /\ revd_size < Length /\ Waiting = 0
  /\ pc' = "idle"
  /\ UNCHANGED <<stopRequested, run, connection, buffer, output, ghosts>>

(* EAGAIN; the message may be empty.                                         *)
RecvTimesOut ==
  /\ pc = "recv" /\ peer = "open" /\ revd_size < Length /\ Waiting = 0
  /\ ToSend
  /\ UNCHANGED <<stopRequested, run, connection, bufStart, revd_size, output, handed>>

(* recv returns 0 for ever; what is in the buffer is sent.                       *)
RecvEnds ==
  /\ pc = "recv" /\ peer = "closed" /\ revd_size \in 1 .. Length - 1 /\ Waiting = 0
  /\ ToSend
  /\ UNCHANGED <<stopRequested, run, connection, bufStart, revd_size, output, handed>>

RecvEndsAtOnce ==
  /\ pc = "recv" /\ peer = "closed" /\ revd_size = 0 /\ Waiting = 0
  /\ pc' = "idle"
  /\ UNCHANGED <<stopRequested, run, connection, buffer, output, ghosts>>

(* Mutant: ConditionalRun tries again whatever happens.                          *)
RecvFails_ForEver ==
  /\ pc = "recv" /\ peer \in {"none", "reset"} /\ revd_size < Length
  /\ peer' = IF peer = "reset" THEN "closed" ELSE peer
  /\ bufStart' = taken /\ revd_size' = 0
  /\ cutInside' = (cutInside \/ revd_size > 0)
  /\ UNCHANGED <<pc, stopRequested, run, pos, taken, n_word, output, handed>>

(* Another error: what is in the buffer is lost, and ConditionalRun tries again unless *)
(* it is to stop.  After a reset the connection is as if closed.                    *)
RecvFails ==
  /\ pc = "recv" /\ peer \in {"none", "reset"} /\ revd_size < Length
  /\ pc' = IF stopRequested THEN "idle" ELSE "recv"
  /\ peer' = IF peer = "reset" THEN "closed" ELSE peer
  /\ bufStart' = taken /\ revd_size' = 0
  /\ cutInside' = (cutInside \/ revd_size > 0)
  /\ UNCHANGED <<stopRequested, run, pos, taken, n_word, output, handed>>

SendSucceeds ==
  /\ pc = "send" /\ Len(output) < OutputHWM
  /\ output' = Append(output, [info |-> FALSE, start |-> bufStart, words |-> n_word])
  /\ handed' = bufStart + n_word * WordBytes
  /\ pc' = "idle"
  /\ UNCHANGED <<stopRequested, run, connection, buffer, cutInside>>

(* Nobody looks at the result of Send.                                         *)
SendInterrupted ==
  /\ pc = "send" /\ stopRequested
  /\ pc' = "idle"
  /\ UNCHANGED <<stopRequested, run, connection, buffer, output, ghosts>>

(* PostRun closes the socket: what is in the kernel is lost.                       *)
PostRun ==
  /\ pc = "idle" /\ stopRequested
  /\ pc' = "ready" /\ peer' = "none" /\ taken' = pos
  /\ UNCHANGED <<stopRequested, run, pos, buffer, output, ghosts>>

-----------------------------------------------------------------------------
(* The surroundings: the module, run control and the builder.                      *)

Produce ==
  /\ peer = "open" /\ pos < MaxBytes
  /\ pos' = pos + 1
  /\ UNCHANGED <<pc, stopRequested, run, peer, taken, buffer, output, ghosts>>

Close ==
  /\ peer = "open"
  /\ peer' = "closed"
  /\ UNCHANGED <<pc, stopRequested, run, pos, taken, buffer, output, ghosts>>

(* What waits in the kernel is lost with a reset.                                *)
ResetConnection ==
  /\ peer = "open"
  /\ peer' = "reset" /\ taken' = pos
  /\ cutInside' = (cutInside \/ Waiting > 0)
  /\ UNCHANGED <<pc, stopRequested, run, pos, buffer, output, handed>>

RequestStop ==
  /\ pc \in {"idle", "recv", "send"} /\ ~stopRequested
  /\ stopRequested' = TRUE
  /\ UNCHANGED <<pc, run, connection, buffer, output, ghosts>>

Consume ==
  /\ output # <<>>
  /\ output' = Tail(output)
  /\ UNCHANGED <<pc, stopRequested, run, connection, buffer, ghosts>>

Init ==
  /\ pc = "init" /\ stopRequested = FALSE /\ run = 0
  /\ peer = "none" /\ pos = 0 /\ taken = 0
  /\ bufStart = 0 /\ revd_size = 0 /\ n_word = 0
  /\ output = <<>> /\ handed = 0 /\ cutInside = FALSE

Device ==
  \/ SendFEMInfo \/ BeginReceive \/ (\E n \in 1 .. Length : Recv(n))
  \/ BufferFull \/ RecvTimesOut \/ RecvEnds \/ RecvEndsAtOnce \/ RecvFails
  \/ SendSucceeds \/ SendInterrupted \/ PostRun

Next ==
  \/ Device \/ (\E connected \in BOOLEAN : PreRun(connected))
  \/ Produce \/ Close \/ ResetConnection \/ RequestStop \/ Consume

(* The device runs, recv times out at last, and the builder takes what it is sent;    *)
(* that anything is produced, stopped or started is not assumed.                   *)
Fairness == WF_vars(Device) /\ WF_vars(Consume)

Spec == Init /\ [][Next]_vars /\ Fairness

-----------------------------------------------------------------------------
(* A message begins where the last one ended, at the border of a word, as long as no    *)
(* receive of the run dropped bytes: the sampler keeps the order and the borders of     *)
(* the words of its module whatever the portions that recv gives, and however often it   *)
(* times out between two words (receive, the computation of n_word).              *)
WordsStayWhole ==
  pc = "send" /\ ~cutInside =>
    bufStart = handed /\ bufStart % WordBytes = 0 /\ revd_size = n_word * WordBytes

(* A word that the module has sent reaches the builder, even if none follows it: nothing  *)
(* stays in the buffer.  A stop or a reset of the connection prevents it, and so does a    *)
(* timeout in the middle of a word: its bytes are dropped, and from there on nothing is    *)
(* promised of the run (receive, the computation of n_word).  As long as no byte is dropped *)
(* the messages follow each other, WordsStayWhole, so that the end of the last one counts   *)
(* the bytes handed on.                                                      *)
WordsAreHandedOn ==
  \A r \in 1 .. MaxRuns : \A p \in 1 .. MaxBytes :
    (run = r /\ pos = p /\ peer = "open" /\ ~cutInside) ~>
      (handed > p - WordBytes \/ cutInside \/ stopRequested \/ peer = "reset" \/ run # r)

(* A run that is to stop stops, also with a socket that only gives errors, a closed one,    *)
(* a silent module or a full output (ConditionalRun, SO_RCVTIMEO).                 *)
StopEndsRun == stopRequested ~> (pc = "ready")

=============================================================================
