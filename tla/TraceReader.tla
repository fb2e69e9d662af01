------------------------------ MODULE TraceReader ------------------------------
(***************************************************************************)
(* bulk_tracereader and repeatable (inc/tracereader.h, inc/repeatable.h):  *)
(* a trace is read a buffer at a time and handed out one instruction at a  *)
(* time; the target of a taken branch is the address of the instruction    *)
(* behind it, so one instruction stays behind in the buffer until the next *)
(* refill.                                                                 *)
(***************************************************************************)
EXTENDS Integers, Sequences

CONSTANTS
  TraceLengths,   \* of the files: none is empty
  buffer_size, refresh_thresh,
  MaxHandedOut    \* bound

ASSUME TraceAssumption ==
  /\ TraceLengths \subseteq Nat \ {0}
  /\ refresh_thresh \in Nat \ {0} /\ buffer_size \in Nat
  /\ buffer_size > refresh_thresh + 1    \* 128 and 1

VARIABLES
  length, repeat,   \* the file, and whether it is wrapped in a repeatable
  position,         \* instructions read from the file
  stream_eof,       \* trace_file.eof(): a read met the end
  instr_buffer,     \* [position, target], target 0 for champsim::address{}
  handed_out,       \* the last instruction handed out, with its id
  reopened
traceVars == <<length, repeat, position, stream_eof, instr_buffer, handed_out, reopened>>

TraceInit ==
  /\ length \in TraceLengths /\ repeat \in BOOLEAN
  /\ position = 0 /\ stream_eof = FALSE /\ instr_buffer = <<>>
  /\ handed_out = [position |-> 0, target |-> 1, instr_id |-> -1]
  /\ reopened = 0

TraceEof(eof, buffer) == eof /\ Len(buffer) <= refresh_thresh

SetBranchTargets_NewOnly(old, new) ==    \* mutant
  old \o [i \in DOMAIN new |-> [new[i] EXCEPT !.target = IF i < Len(new) THEN new[i + 1].position ELSE @]]

(* set_branch_targets: adjacent_difference backwards, the last one as it is. *)
(* Every instruction is a taken branch here: its target is the next one.     *)
SetBranchTargets(old, new) ==
  LET all == old \o new
  IN  [i \in DOMAIN all |-> [all[i] EXCEPT !.target = IF i < Len(all) THEN all[i + 1].position ELSE @]]

(* operator() of the reader in the given state: a refill when little is left, then the front. *)
HandOut(from, eof, buffer) ==
  LET refill == Len(buffer) <= refresh_thresh
      wanted == buffer_size - refresh_thresh
      count == IF length - from < wanted THEN length - from ELSE wanted
      new == [i \in 1 .. count |-> [position |-> from + i, target |-> 0]]
      filled == IF refill THEN SetBranchTargets(buffer, new) ELSE buffer
  IN  /\ position' = IF refill THEN from + count ELSE from
      /\ stream_eof' = IF refill THEN count < wanted ELSE eof
      /\ instr_buffer' = Tail(filled)
      /\ handed_out' = [position |-> filled[1].position, target |-> filled[1].target,
                        instr_id |-> handed_out.instr_id + 1]

TraceNext ==
  /\ handed_out.instr_id < MaxHandedOut
  /\ \/ /\ ~TraceEof(stream_eof, instr_buffer)    \* the loop of do_cycle asks before it reads
        /\ HandOut(position, stream_eof, instr_buffer)
        /\ UNCHANGED reopened
     \/ /\ repeat /\ TraceEof(stream_eof, instr_buffer)
        /\ HandOut(0, FALSE, <<>>)
        /\ reopened' = reopened + 1
  /\ UNCHANGED <<length, repeat>>

TraceSpec == TraceInit /\ [][TraceNext]_traceVars

-------------------------------------------------------------------------------
(* Instructions come in the order of the file, none twice and none left out,  *)
(* each under the next identifier, and a taken branch goes where the next     *)
(* instruction is, across refills too; a file is opened again only when at    *)
(* most its last refresh_thresh instructions, one, were not handed out        *)
(* (bulk_tracereader::operator() and set_branch_targets).                     *)
TraceInOrder ==
  [][/\ handed_out'.instr_id = handed_out.instr_id + 1
     /\ IF reopened' = reopened
        THEN handed_out'.position = handed_out.position + 1
             /\ handed_out.target = handed_out'.position
        ELSE handed_out'.position = 1 /\ handed_out.position >= length - refresh_thresh]_traceVars
===============================================================================
