------------------------- MODULE MCTimeFrameBuilder -------------------------
(* Small instances of TimeFrameBuilder for TLC. *)
EXTENDS TimeFrameBuilder, TLC

(* The FEMs are interchangeable: no action orders them. *)
Symmetry == Permutations(Fems)

=============================================================================
