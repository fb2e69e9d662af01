-------------------------------- MODULE MCSpp --------------------------------
(* An instance of SignaturePath for TLC: a stream through six pages of eight   *)
(* blocks, with a slot of the filter for every block.                          *)
EXTENDS SignaturePath, Bitwise

MCExclusiveOr(a, b) == a ^^ b
MCPageTag == [p \in 0 .. 7 |-> p]
MCSignatureHash == [s \in 0 .. 31 |-> s % 2]
MCStream == 0 .. 47
MCOwnSlot == [l \in MCStream |-> l]
MCNoRemainder == [l \in MCStream |-> 0]
===============================================================================
