----------------------------- MODULE MCTranslation -----------------------------
(* Instances of Translation for TLC: numbers for pages, so that the free list *)
(* has its order.                                                             *)
EXTENDS Translation

MCAllPages == <<2, 3, 1>>

(* Two pages under one table, one under another. *)
MCPages == {<<0, 0>>, <<0, 1>>, <<1, 0>>}
===============================================================================
