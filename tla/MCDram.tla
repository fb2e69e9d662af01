-------------------------------- MODULE MCDram --------------------------------
(* Instances of DramChannel for TLC: a and b share a bank and differ in the  *)
(* row, c is in the other bank.                                              *)
EXTENDS DramChannel

CONSTANTS a, b, c    \* an instance may use some of them

MCBankOf == [x \in Block |-> IF x = c THEN 2 ELSE 1]
MCRowOf == [x \in Block |-> IF x = b THEN 2 ELSE 1]
MCGroupOf == [x \in Block |-> 1]
MCSizes == [q \in Queue |-> 1]

MCKind(q, r) == [queue |-> q, response_requested |-> r]
MCReadsAndWrites == {MCKind("RQ", TRUE), MCKind("WQ", FALSE)}
MCReadsPostsWrites == MCReadsAndWrites \cup {MCKind("PQ", FALSE)}
===============================================================================
