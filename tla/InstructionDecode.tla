--------------------------- MODULE InstructionDecode ---------------------------
(* What O3_CPU makes of an instruction of the trace: the kind of branch, told  *)
(* from the registers it reads and writes (the constructor of ooo_model_instr, *)
(* inc/instruction.h), and the registers that are left to be renamed           *)
(* (do_init_instruction, ooo_cpu.cc). Registers are "sp", "flags", "ip" and    *)
(* others; an instruction is [reads, writes, memory, is_branch, taken].        *)
EXTENDS Naturals

REG_STACK_POINTER == "sp"
REG_FLAGS == "flags"
REG_INSTRUCTION_POINTER == "ip"

ReadsOther(i) == i.reads \ {REG_STACK_POINTER, REG_FLAGS, REG_INSTRUCTION_POINTER} # {}

BranchType(i) ==
  LET reads_sp == REG_STACK_POINTER \in i.reads
      reads_flags == REG_FLAGS \in i.reads
      reads_ip == REG_INSTRUCTION_POINTER \in i.reads
      writes_sp == REG_STACK_POINTER \in i.writes
      call == reads_sp /\ reads_ip /\ writes_sp /\ ~reads_flags
  IN  IF REG_INSTRUCTION_POINTER \notin i.writes THEN "NOT_BRANCH"
      ELSE CASE ~reads_sp /\ ~reads_flags /\ ~ReadsOther(i) -> "DIRECT_JUMP"
             [] ~reads_sp /\ ~reads_flags /\ ~reads_ip /\ ReadsOther(i) -> "INDIRECT"
             [] ~reads_sp /\ reads_ip /\ ~writes_sp /\ (reads_flags \/ ReadsOther(i)) -> "CONDITIONAL"
             [] call /\ ~ReadsOther(i) -> "DIRECT_CALL"
             [] call /\ ReadsOther(i) -> "INDIRECT_CALL"
             [] reads_sp /\ ~reads_ip /\ writes_sp -> "RETURN"
             [] OTHER -> "OTHER"

(* The trace decides only for the two kinds that may fall through. A flag of *)
(* the trace makes an instruction a branch even if it is of no kind.         *)
Decoded(i) ==
  LET kind == BranchType(i)
  IN  [i EXCEPT !.is_branch = @ \/ kind # "NOT_BRANCH",
                !.taken = CASE kind \in {"CONDITIONAL", "OTHER"} -> @
                            [] OTHER -> kind # "NOT_BRANCH"]

(* The stack pointer is known early, unless it moves by an amount that is not. *)
StackPointerFolded(i) ==
  IF i.is_branch \/ i.memory \/ ~ReadsOther(i)
  THEN [i EXCEPT !.writes = @ \ {REG_STACK_POINTER}] ELSE i

(* A warmup has no dependences at all. *)
InitInstruction(i, warmup) ==
  StackPointerFolded(IF warmup THEN [i EXCEPT !.reads = {}, !.writes = {}] ELSE i)
===============================================================================
