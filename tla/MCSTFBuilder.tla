---------------------------- MODULE MCSTFBuilder ----------------------------
(* STFBuilder with the values that TLC needs: the heartbeats whose first       *)
(* delimiter has a throttling flag.                                         *)
EXTENDS STFBuilder

OneThrottled == {2}

=============================================================================
