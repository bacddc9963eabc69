------------------------------ MODULE MCFileSink ------------------------------
(* FileSink with the values that TLC needs: the files that are on the disk when  *)
(* the device starts, and the lengths of the messages.                        *)
EXTENDS FileSink

NoFiles      == {}
StaleFiles   == {[run |-> 1, branch |-> 1], [run |-> 2, branch |-> 0]}
ThreeLengths == <<1, 2, 4>>
OneLength    == <<1>>

=============================================================================
