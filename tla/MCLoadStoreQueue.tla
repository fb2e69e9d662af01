--------------------------- MODULE MCLoadStoreQueue ---------------------------
(* Instances of LoadStoreQueue for TLC: programs of four instructions in one *)
(* or two blocks whose accesses conflict.                                    *)
EXTENDS LoadStoreQueue

MCMem(l, s) == [loads |-> l, stores |-> s]
MCX(b) == <<b, 0>>
MCY(b) == <<b, 1>>

(* Two stores to x in flight under a load of x; the load of y shares the block. *)
MCForward(b) == <<MCMem(<<>>, <<MCX(b)>>), MCMem(<<>>, <<MCX(b)>>), MCMem(<<MCX(b), MCY(b)>>, <<>>)>>
(* An instruction that reads and writes x between two others. *)
MCUpdate(b) == <<MCMem(<<MCX(b)>>, <<MCX(b)>>), MCMem(<<MCX(b)>>, <<MCY(b)>>), MCMem(<<MCX(b), MCY(b)>>, <<>>)>>
(* Loads of one block, answered together or one by one, behind a store. *)
MCCoalesce(b) == <<MCMem(<<MCX(b)>>, <<>>), MCMem(<<MCY(b)>>, <<>>), MCMem(<<>>, <<MCX(b), MCY(b)>>), MCMem(<<MCY(b)>>, <<>>)>>
(* Two blocks, full queues. *)
MCMix(b, c) == <<MCMem(<<MCX(b)>>, <<MCX(c)>>), MCMem(<<MCX(c), MCX(b)>>, <<>>),
                 MCMem(<<MCY(c)>>, <<MCX(b)>>), MCMem(<<MCX(b), MCX(c)>>, <<>>)>>

MCPrograms == LET b == CHOOSE x \in Block : TRUE
                  c == CHOOSE x \in Block : x # b
              IN  {MCForward(b), MCUpdate(b), MCCoalesce(b), MCMix(b, c)}
===============================================================================
