------------------------ MODULE SubTimeFrameDelivery ------------------------
(***************************************************************************)
(* What a TimeFrameBuilder promises about the sub time frames (STFs) given    *)
(* to it, without its buffer, its scan, its clock or its thread: every STF    *)
(* meets one fate and keeps it.  STFs are delivered as time frames: a whole    *)
(* one takes the STFs of all FEMs for one id of the current run, a partial     *)
(* one, if it is allowed at all, some of them.  An STF may be lost at any      *)
(* time, and before a new run begins no STF of an earlier one is still held.  *)
(***************************************************************************)
EXTENDS Naturals

CONSTANTS
  Fems, TFIds, Runs,
  PartialAllowed   (* may an incomplete time frame be delivered? *)

VARIABLES
  fate,   (* the fate of every STF of every run *)
  run     (* the current run                    *)

vars == <<fate, run>>

STFs  == [fem : Fems, id : TFIds, run : Runs]
Fates == {"upstream", "held", "whole", "partial", "lost"}

Held  == {stf \in STFs : fate[stf] = "held"}

Settle(S, what) ==
  /\ S # {} /\ S \subseteq Held
  /\ fate' = [stf \in STFs |-> IF stf \in S THEN what ELSE fate[stf]]
  /\ UNCHANGED run

Accept(stf) ==
  /\ fate[stf] = "upstream" /\ stf.run = run
  /\ fate' = [fate EXCEPT ![stf] = "held"]
  /\ UNCHANGED run

DeliverWhole(id) == Settle([fem : Fems, id : {id}, run : {run}], "whole")

DeliverPartial(id) ==
  /\ PartialAllowed
  /\ \E fems \in SUBSET Fems :
       fems # Fems /\ Settle([fem : fems, id : {id}, run : {run}], "partial")

Lose == \E S \in SUBSET Held : Settle(S, "lost")

NewRun ==
  /\ run + 1 \in Runs
  /\ Held = {}
  /\ run' = run + 1
  /\ UNCHANGED fate

Init ==
  /\ fate = [stf \in STFs |-> "upstream"]
  /\ run = 0

Next ==
  \/ \E stf \in STFs : Accept(stf)
  \/ \E id \in TFIds : DeliverWhole(id) \/ DeliverPartial(id)
  \/ Lose \/ NewRun

Spec == Init /\ [][Next]_vars

=============================================================================
