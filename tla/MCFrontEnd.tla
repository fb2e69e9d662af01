------------------------------ MODULE MCFrontEnd ------------------------------
(* Instances of FrontEnd for TLC: loops of a few instructions, so that later *)
(* iterations hit in the DIB while earlier instructions are being decoded.   *)
EXTENDS FrontEnd

MCInstr(b, w, k, t) == [block |-> b, window |-> w, branch |-> k, taken |-> t]

(* A block of two windows run twice, closed by a conditional branch. *)
MCLoop == <<MCInstr(1, 1, "none", FALSE), MCInstr(1, 2, "conditional", TRUE),
            MCInstr(1, 1, "none", FALSE), MCInstr(1, 2, "conditional", FALSE),
            MCInstr(2, 3, "none", FALSE)>>
(* Calls back and forth between two blocks. *)
MCCall == <<MCInstr(1, 1, "direct", TRUE), MCInstr(2, 2, "indirect", TRUE),
            MCInstr(1, 1, "none", FALSE), MCInstr(1, 1, "direct", TRUE),
            MCInstr(2, 2, "none", FALSE)>>

MCPrograms == {MCLoop, MCCall}
===============================================================================
