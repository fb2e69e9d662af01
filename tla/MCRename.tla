-------------------------------- MODULE MCRename --------------------------------
(* Instances of RegisterRename for TLC: three architectural registers in use, *)
(* so that instructions depend on each other and overwrite each other.        *)
EXTENDS RegisterRename

MCInstr(s, d, l, w) == [src |-> s, dst |-> d, loads |-> l, stores |-> w]

(* x, y := f(load at y), and a store of x at z. *)
MCLoadTwo == MCInstr(<<2>>, <<1, 2>>, 1, 0)
MCStore == MCInstr(<<1, 3>>, <<>>, 0, 1)

MCPair == {MCLoadTwo, MCStore}
===============================================================================
