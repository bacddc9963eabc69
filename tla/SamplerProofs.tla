----------------------------- MODULE SamplerProofs -----------------------------
(***************************************************************************)
(* Theorems about Sampler, for words and messages of any size, any number of     *)
(* runs and any depth of the output.                                         *)
(***************************************************************************)
EXTENDS Sampler, TLAPS

(* What the constants are, one by one.                                         *)
LEMMA Constants ==
  /\ WordBytes \in Nat \ {0} /\ WordsPerCycle \in Nat \ {0}
  /\ OutputHWM \in Nat \ {0} /\ MaxBytes \in Nat /\ MaxRuns \in Nat
BY SamplerConstantsAssumption DEF SamplerConstantsAssumption

(* The buffer has room.                                                      *)
LEMMA LengthType == Length \in Nat \ {0}
<1> DEFINE a == WordsPerCycle
           b == WordBytes
<1>1. a \in Nat \ {0} /\ b \in Nat \ {0}
  BY Constants
<1> HIDE DEF a, b
<1>2. a * b \in Nat \ {0}
  BY <1>1
<1> QED BY <1>2 DEF Length, a, b

(* A number of bytes without a rest is that of its words.                           *)
LEMMA WholeWords ==
  ASSUME NEW x \in Nat
  PROVE  /\ x \div WordBytes \in Nat
         /\ x % WordBytes = 0 => x = (x \div WordBytes) * WordBytes
BY Constants

(* A multiple has no rest.                                                    *)
LEMMA Multiple ==
  ASSUME NEW w \in Nat \ {0}, NEW k \in Nat
  PROVE  k * w \in Nat /\ (k * w) % w = 0
<1>1. k * w \in Nat
  OBVIOUS
<1>2. (k * w) % w = 0
  BY <1>1
<1> QED BY <1>1, <1>2

(* The byte behind whole words is at the border of a word.                            *)
LEMMA NextBorder ==
  ASSUME NEW x \in Nat, NEW n \in Nat, x % WordBytes = 0
  PROVE  x + n * WordBytes \in Nat /\ (x + n * WordBytes) % WordBytes = 0
<1> DEFINE w == WordBytes
           k == x \div w
<1>1. w \in Nat \ {0}
  BY Constants
<1>2. k \in Nat /\ x = k * w
  BY WholeWords
<1> HIDE DEF w, k
<1>3. x + n * w = (k + n) * w
  BY <1>1, <1>2
<1>4. k + n \in Nat
  BY <1>2
<1>5. (k + n) * w \in Nat /\ ((k + n) * w) % w = 0
  BY <1>1, <1>4, Multiple
<1> QED BY <1>3, <1>5 DEF w

-----------------------------------------------------------------------------
(* The variables keep their types: recv does not write behind the buffer, a message       *)
(* has no more words than fit, the output no more than its depth.                   *)
TypeOK ==
  /\ pc \in {"init", "ready", "idle", "recv", "send"}
  /\ stopRequested \in BOOLEAN /\ run \in 0 .. MaxRuns
  /\ peer \in {"none", "open", "closed", "reset"}
  /\ pos \in Nat /\ taken \in 0 .. pos
  /\ bufStart \in Nat /\ revd_size \in 0 .. Length /\ n_word \in Nat
  /\ output \in Seq([info : BOOLEAN, start : Nat, words : Nat]) /\ Len(output) <= OutputHWM
  /\ handed \in Nat /\ cutInside \in BOOLEAN

(* The device starts well typed.                                                *)
LEMMA TypeInit == Init => TypeOK
<1> SUFFICES ASSUME Init PROVE TypeOK
  OBVIOUS
<1> USE DEF Init
<1>1. stopRequested \in BOOLEAN /\ cutInside \in BOOLEAN
  BY Zenon
<1>2. run \in 0 .. MaxRuns /\ taken \in 0 .. pos /\ revd_size \in 0 .. Length
  BY Constants, LengthType
<1>3. output \in Seq([info : BOOLEAN, start : Nat, words : Nat]) /\ Len(output) <= OutputHWM
  BY Constants
<1> QED BY <1>1, <1>2, <1>3 DEF TypeOK

(* One more message at the builder, if there is room.                               *)
LEMMA Appended ==
  ASSUME TypeOK, Len(output) < OutputHWM, NEW m \in [info : BOOLEAN, start : Nat, words : Nat]
  PROVE  /\ Append(output, m) \in Seq([info : BOOLEAN, start : Nat, words : Nat])
         /\ Len(Append(output, m)) <= OutputHWM
BY Constants DEF TypeOK

(* The steps from receiving to sending.                                          *)
Receives == BufferFull \/ RecvTimesOut \/ RecvEnds

(* Every step keeps the types.                                                  *)
LEMMA TypeNext == TypeOK /\ [Next]_vars => TypeOK'
<1> SUFFICES ASSUME TypeOK, [Next]_vars PROVE TypeOK'
  OBVIOUS
<1> USE DEF TypeOK, connection, buffer, ghosts
<1>0. Length \in Nat \ {0}
  BY LengthType
<1>1. CASE SendFEMInfo
  <2>1. Info \in [info : BOOLEAN, start : Nat, words : Nat]
    BY DEF Info
  <2> QED BY <1>1, <2>1, Appended DEF SendFEMInfo
<1>2. ASSUME NEW connected \in BOOLEAN, PreRun(connected) PROVE TypeOK'
  <2>1. run' \in 0 .. MaxRuns
    BY <1>2, Constants DEF PreRun
  <2>2. stopRequested' = FALSE /\ cutInside' = FALSE
    BY <1>2 DEF PreRun
  <2>3. stopRequested' \in BOOLEAN /\ cutInside' \in BOOLEAN
    BY <2>2, Zenon
  <2> QED BY <1>2, <2>1, <2>3 DEF PreRun
<1>3. CASE BeginReceive
  BY <1>3, <1>0 DEF BeginReceive
<1>4. ASSUME NEW n \in 1 .. Length, Recv(n) PROVE TypeOK'
  BY <1>4, <1>0 DEF Recv, Waiting
<1>5. CASE Receives
  <2>1. /\ pc' = "send" /\ n_word' = revd_size \div WordBytes
        /\ cutInside' = (cutInside \/ revd_size % WordBytes # 0)
        /\ UNCHANGED <<stopRequested, run, connection, bufStart, revd_size, output, handed>>
    BY <1>5 DEF Receives, BufferFull, RecvTimesOut, RecvEnds, ToSend
  <2>2. n_word' \in Nat
    BY <2>1, <1>0, WholeWords
  <2>3. cutInside' \in BOOLEAN
    BY <2>1, Zenon
  <2> QED BY <2>1, <2>2, <2>3
<1>6. CASE RecvEndsAtOnce
  BY <1>6 DEF RecvEndsAtOnce
<1>7. CASE RecvFails
  <2>1. cutInside' = (cutInside \/ revd_size > 0)
    BY <1>7 DEF RecvFails
  <2>2. cutInside' \in BOOLEAN
    BY <2>1, Zenon
  <2> QED BY <1>7, <1>0, <2>2 DEF RecvFails
<1>8. CASE SendSucceeds
  <2>1. [info |-> FALSE, start |-> bufStart, words |-> n_word]
          \in [info : BOOLEAN, start : Nat, words : Nat]
    OBVIOUS
  <2>2. n_word * WordBytes \in Nat
    BY Constants
  <2>3. handed' \in Nat
    BY <1>8, <2>2 DEF SendSucceeds
  <2> QED BY <1>8, <2>1, <2>3, Appended DEF SendSucceeds
<1>9. CASE SendInterrupted
  BY <1>9 DEF SendInterrupted
<1>10. CASE PostRun
  BY <1>10 DEF PostRun
<1>11. CASE Produce
  BY <1>11 DEF Produce
<1>12. CASE Close
  BY <1>12 DEF Close
<1>13. CASE ResetConnection
  <2>1. cutInside' = (cutInside \/ Waiting > 0)
    BY <1>13 DEF ResetConnection
  <2>2. cutInside' \in BOOLEAN
    BY <2>1, Zenon
  <2> QED BY <1>13, <2>2 DEF ResetConnection
<1>14. CASE RequestStop
  <2>1. stopRequested' = TRUE
    BY <1>14 DEF RequestStop
  <2>2. stopRequested' \in BOOLEAN
    BY <2>1, Zenon
  <2> QED BY <1>14, <2>2 DEF RequestStop
<1>15. CASE Consume
  <2>1. Tail(output) \in Seq([info : BOOLEAN, start : Nat, words : Nat])
        /\ Len(Tail(output)) <= OutputHWM
    BY <1>15, Constants DEF Consume
  <2> QED BY <1>15, <2>1 DEF Consume
<1>16. CASE UNCHANGED vars
  BY <1>16 DEF vars
<1> QED BY <1>1, <1>2, <1>3, <1>4, <1>5, <1>6, <1>7, <1>8, <1>9, <1>10, <1>11, <1>12, <1>13,
           <1>14, <1>15, <1>16 DEF Next, Device, Receives

(* In every reachable state recv has given no more bytes than the buffer holds and the      *)
(* module has sent, and no message is longer than the buffer (receive).             *)
THEOREM TypeCorrect == Spec => []TypeOK
BY TypeInit, TypeNext, PTL DEF Spec

-----------------------------------------------------------------------------
(* As long as no byte is dropped: what recv has given is what was sent and what is in the   *)
(* buffer, and the buffer begins at the border of a word.  A send that is interrupted     *)
(* breaks this, but no other receive of the run follows it.                         *)
Account ==
  ~cutInside =>
    /\ handed % WordBytes = 0
    /\ pc = "idle" /\ ~stopRequested => taken = handed
    /\ pc \in {"recv", "send"} =>
         /\ bufStart = handed
         /\ bufStart + revd_size = taken
    /\ pc = "send" => revd_size = n_word * WordBytes

(* Every step keeps the account.                                                *)
LEMMA AccountNext == TypeOK /\ Account /\ [Next]_vars => Account'
<1> SUFFICES ASSUME TypeOK, Account, [Next]_vars, ~cutInside' PROVE Account'
  BY DEF Account
<1> USE DEF connection, buffer, ghosts
<1>0. 0 % WordBytes = 0
  BY Constants
<1>1. CASE SendFEMInfo
  BY <1>1 DEF SendFEMInfo, Account
<1>2. ASSUME NEW connected \in BOOLEAN, PreRun(connected) PROVE Account'
  BY <1>2, <1>0 DEF PreRun, Account
<1>3. CASE BeginReceive
  BY <1>3 DEF BeginReceive, Account, TypeOK
<1>4. ASSUME NEW n \in 1 .. Length, Recv(n) PROVE Account'
  <2>1. n \in Int
    BY LengthType
  <2> QED BY <1>4, <2>1 DEF Recv, Account, TypeOK
<1>5. CASE Receives
  <2>1. /\ pc = "recv" /\ pc' = "send" /\ n_word' = revd_size \div WordBytes
        /\ cutInside' = (cutInside \/ revd_size % WordBytes # 0)
        /\ UNCHANGED <<stopRequested, run, connection, bufStart, revd_size, output, handed>>
    BY <1>5 DEF Receives, BufferFull, RecvTimesOut, RecvEnds, ToSend
  <2>2. ~cutInside /\ revd_size % WordBytes = 0
    BY <2>1
  <2>3. revd_size = n_word' * WordBytes
    BY <2>1, <2>2, LengthType, WholeWords DEF TypeOK
  <2> QED BY <2>1, <2>2, <2>3 DEF Account
<1>6. CASE RecvEndsAtOnce
  BY <1>6 DEF RecvEndsAtOnce, Account, TypeOK
<1>7. CASE RecvFails
  <2>1. ~cutInside /\ ~(revd_size > 0) /\ bufStart' = taken /\ revd_size' = 0 /\ pc = "recv"
        /\ pc' = (IF stopRequested THEN "idle" ELSE "recv") /\ UNCHANGED <<stopRequested, taken, handed>>
    BY <1>7 DEF RecvFails
  <2>2. revd_size = 0
    BY <2>1, LengthType DEF TypeOK
  <2> QED BY <2>1, <2>2 DEF Account, TypeOK
<1>8. CASE SendSucceeds
  <2>1. ~cutInside /\ pc = "send" /\ pc' = "idle" /\ handed' = bufStart + n_word * WordBytes /\ UNCHANGED taken
    BY <1>8 DEF SendSucceeds
  <2>2. handed' = taken
    BY <2>1 DEF Account
  <2>3. bufStart \in Nat /\ bufStart % WordBytes = 0 /\ n_word \in Nat
    BY <2>1 DEF Account, TypeOK
  <2>4. handed' % WordBytes = 0
    BY <2>1, <2>3, NextBorder
  <2> QED BY <2>1, <2>2, <2>4 DEF Account
<1>9. CASE SendInterrupted
  BY <1>9 DEF SendInterrupted, Account
<1>10. CASE PostRun
  BY <1>10 DEF PostRun, Account
<1>11. CASE Produce
  BY <1>11 DEF Produce, Account
<1>12. CASE Close
  BY <1>12 DEF Close, Account
<1>13. CASE ResetConnection
  <2>1. ~cutInside /\ ~(Waiting > 0) /\ taken' = pos
        /\ UNCHANGED <<pc, stopRequested, bufStart, revd_size, n_word, handed>>
    BY <1>13 DEF ResetConnection
  <2>2. taken' = taken
    BY <2>1 DEF Waiting, TypeOK
  <2> QED BY <2>1, <2>2 DEF Account
<1>14. CASE RequestStop
  BY <1>14 DEF RequestStop, Account
<1>15. CASE Consume
  BY <1>15 DEF Consume, Account
<1>16. CASE UNCHANGED vars
  BY <1>16 DEF vars, Account
<1> QED BY <1>1, <1>2, <1>3, <1>4, <1>5, <1>6, <1>7, <1>8, <1>9, <1>10, <1>11, <1>12, <1>13,
           <1>14, <1>15, <1>16 DEF Next, Device, Receives

(* A message begins where the last one ended, at the border of a word, and has no rest,     *)
(* for words and buffers of every size and whatever portions recv gives, as long as the   *)
(* run has dropped no byte (receive, the computation of n_word).                     *)
THEOREM WordsWhole == Spec => []WordsStayWhole
<1>1. Init => TypeOK /\ Account
  <2>1. Init => Account
    BY Constants DEF Init, Account
  <2> QED BY <2>1, TypeInit
<1>2. TypeOK /\ Account => WordsStayWhole
  BY DEF Account, WordsStayWhole
<1> QED BY <1>1, <1>2, TypeNext, AccountNext, PTL DEF Spec

=============================================================================
