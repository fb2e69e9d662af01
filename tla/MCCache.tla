-------------------------------- MODULE MCCache --------------------------------
(* Instances of Cache for TLC: one set, so that every block conflicts. *)
EXTENDS Cache, TLC

MCOneSet == [b \in Block |-> 1]
MCSizes1 == [q \in Queue |-> 1]

MCKind(q, t, r) == [queue |-> q, type |-> t, response_requested |-> r]
MCLoad == MCKind("RQ", "LOAD", TRUE)
MCWrite == MCKind("WQ", "WRITE", FALSE)
MCPrefetchPost == MCKind("PQ", "PREFETCH", FALSE)
MCLoadsAndWrites == {MCLoad, MCWrite}
MCLoadsAndPosts == {MCLoad, MCPrefetchPost}

MCNoPrefetches == {}
MCPrefetches == {<<[addr |-> b, fill |-> f]>> : b \in Block, f \in BOOLEAN}

MCSymmetry == Permutations(Block)
MCSymmetryU == Permutations(Block) \cup Permutations(Upper)
===============================================================================
