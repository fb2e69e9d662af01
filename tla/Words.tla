-------------------------------- MODULE Words --------------------------------
(* The operator ^ of the code, of two words. *)
CONSTANT ExclusiveOr(_, _)
===============================================================================
