----------------------------- MODULE RegisterRename -----------------------------
(***************************************************************************)
(* The back end of O3_CPU (src/src/ooo_cpu.cc) with its RegisterAllocator  *)
(* (src/src/register_allocator.cc): instructions enter the ROB, get their  *)
(* registers renamed, execute when their sources are valid, complete out   *)
(* of order and retire in order.                                           *)
(*                                                                         *)
(* operate() runs to completion in one cycle; `stage' sequences its calls. *)
(* Loads and stores finish when the memory system says so (FinishMemory).  *)
(***************************************************************************)
EXTENDS Integers, Sequences, FiniteSets

CONSTANTS
  RAT_SIZE,             \* architectural register ids (256 in the code)
  REGISTER_FILE_SIZE,   \* physical registers
  Instruction,          \* what the decoder delivers
  ROB_SIZE, SCHEDULER_SIZE, DISPATCH_WIDTH, EXEC_WIDTH, RETIRE_WIDTH,
  SCHEDULING_LATENCY,   \* in cycles
  EXEC_LATENCY          \* in cycles

ArchReg == 0 .. RAT_SIZE - 1
PhysReg == 0 .. REGISTER_FILE_SIZE - 1
NoReg == -1

(* Register 0 is no register: the constructor of ooo_model_instr drops it. *)
(* With more physical registers than RAT entries, isAllocated reads past   *)
(* the end of the table: such a configuration is outside the model.        *)
ASSUME RenameAssumption ==
  /\ RAT_SIZE \in Nat \ {0} /\ REGISTER_FILE_SIZE \in Nat \ {0}
  /\ REGISTER_FILE_SIZE <= RAT_SIZE
  /\ Instruction \subseteq
       [src : Seq(ArchReg \ {0}), dst : Seq(ArchReg \ {0}), loads : Nat, stores : Nat]
  /\ ROB_SIZE \in Nat \ {0} /\ SCHEDULER_SIZE \in Nat
  /\ DISPATCH_WIDTH \in Nat /\ EXEC_WIDTH \in Nat /\ RETIRE_WIDTH \in Nat
  /\ SCHEDULING_LATENCY \in Nat /\ EXEC_LATENCY \in Nat

VARIABLES
  ROB,
  frontend_RAT, backend_RAT,
  free_registers,          \* a FIFO queue
  physical_register_file,
  warmup,
  stage,                   \* where operate() is
  scan,                    \* rob_it
  operand,                 \* the register of *rob_it under the loop of the allocator
  budget                   \* what is left of the bandwidth of this stage

allocator == <<frontend_RAT, backend_RAT, free_registers, physical_register_file>>
vars == <<ROB, allocator, warmup, stage, scan, operand, budget>>

(* src and dst are renamed in place; `instr' remembers what the program said. *)
Entry == [instr : Instruction, src : Seq(ArchReg), dst : Seq(ArchReg),
          scheduled : BOOLEAN, executed : BOOLEAN, completed : BOOLEAN,
          loads : Nat, stores : Nat,    \* not finished yet
          wait : Nat]
PhysicalRegister == [arch_reg_index : ArchReg \cup {255}, valid : BOOLEAN, busy : BOOLEAN]

Lesser(m, n) == IF m < n THEN m ELSE n
(* The first n members of a set of ROB positions. *)
FirstOf(n, S) == {i \in S : Cardinality({j \in S : j < i}) < n}

Latency(cycles) == IF warmup THEN 0 ELSE cycles

Init ==
  /\ ROB = <<>>
  /\ frontend_RAT = [r \in ArchReg |-> NoReg]
  /\ backend_RAT = [r \in ArchReg |-> NoReg]
  /\ free_registers = [i \in 1 .. REGISTER_FILE_SIZE |-> i - 1]
  /\ physical_register_file =
       [p \in PhysReg |-> [arch_reg_index |-> 0, valid |-> FALSE, busy |-> FALSE]]
  /\ warmup = TRUE
  /\ stage = "retire" /\ scan = 1 /\ operand = 1 /\ budget = 0

--------------------------------------------------------------------------------
(* retire_rob *)

Retiring ==
  /\ stage = "retire"
  /\ scan <= Lesser(Len(ROB), RETIRE_WIDTH)
  /\ ROB[scan].completed

(* free_register: the entry is cleared and the register joins the queue. *)
Cleared == [arch_reg_index |-> 255, valid |-> FALSE, busy |-> FALSE]
Recycled_New(p, old) == IF old = NoReg THEN {} ELSE {p}    \* mutant: frees the new one
Recycled(p, old) == IF old = NoReg THEN {} ELSE {old}

(* retire_dest_register: p becomes the committed value of its architectural *)
(* register, and the register it supersedes is free again.                  *)
RetireDest ==
  /\ Retiring
  /\ operand <= Len(ROB[scan].dst)
  /\ LET p    == ROB[scan].dst[operand]
         arch == physical_register_file[p].arch_reg_index
         old  == backend_RAT[arch]
         back == Recycled(p, old)
     IN  /\ backend_RAT' = [backend_RAT EXCEPT ![arch] = p]
         /\ physical_register_file' =
              [q \in PhysReg |-> IF q \in back THEN Cleared ELSE physical_register_file[q]]
         /\ IF back = {} THEN UNCHANGED free_registers
            ELSE \E q \in back : free_registers' = Append(free_registers, q)
  /\ operand' = operand + 1
  /\ UNCHANGED <<ROB, frontend_RAT, warmup, stage, scan, budget>>

RetireNext ==
  /\ Retiring
  /\ operand > Len(ROB[scan].dst)
  /\ scan' = scan + 1
  /\ operand' = 1
  /\ UNCHANGED <<ROB, allocator, warmup, stage, budget>>

(* ROB.erase of the span whose registers were committed. *)
RetireErase ==
  /\ stage = "retire"
  /\ ~Retiring
  /\ ROB' = SubSeq(ROB, scan, Len(ROB))
  /\ stage' = "complete"
  /\ scan' = 1
  /\ UNCHANGED <<allocator, warmup, operand, budget>>

--------------------------------------------------------------------------------
(* complete_inflight_instruction and execute_instruction *)

Completing ==
  FirstOf(EXEC_WIDTH, {i \in DOMAIN ROB : /\ ROB[i].executed /\ ~ROB[i].completed
                                          /\ ROB[i].wait = 0
                                          /\ ROB[i].loads = 0 /\ ROB[i].stores = 0})

(* do_completion: the destinations become valid, which wakes their readers. *)
CompleteInflight ==
  /\ stage = "complete"
  /\ ROB' = [i \in DOMAIN ROB |->
               IF i \in Completing THEN [ROB[i] EXCEPT !.completed = TRUE] ELSE ROB[i]]
  /\ physical_register_file' =
       [p \in PhysReg |->
          IF \E i \in Completing : \E k \in DOMAIN ROB[i].dst : ROB[i].dst[k] = p
          THEN [physical_register_file[p] EXCEPT !.valid = TRUE]
          ELSE physical_register_file[p]]
  /\ stage' = "execute"
  /\ UNCHANGED <<frontend_RAT, backend_RAT, free_registers, warmup, scan, operand, budget>>

SourcesValid(e) == \A k \in DOMAIN e.src : physical_register_file[e.src[k]].valid
Executing ==
  FirstOf(EXEC_WIDTH, {i \in DOMAIN ROB : /\ ROB[i].scheduled /\ ~ROB[i].executed
                                          /\ ROB[i].wait = 0 /\ SourcesValid(ROB[i])})

Execute ==
  /\ stage = "execute"
  /\ ROB' = [i \in DOMAIN ROB |->
               IF i \in Executing
               THEN [ROB[i] EXCEPT !.executed = TRUE, !.wait = Latency(EXEC_LATENCY)]
               ELSE ROB[i]]
  /\ stage' = "schedule"
  /\ budget' = SCHEDULER_SIZE
  /\ UNCHANGED <<allocator, warmup, scan, operand>>

--------------------------------------------------------------------------------
(* schedule_instruction: rename in the order of the ROB *)

(* isAllocated looks a source up in the frontend RAT, also when the entry is *)
(* scheduled already and its sources are physical registers by now.          *)
IsAllocated(r) == frontend_RAT[r] # NoReg
SourcesToAllocate(e) == Cardinality({k \in DOMAIN e.src : ~IsAllocated(e.src[k])})

(* Mutant: the comparison off by one. *)
EnoughRegisters_Strict(e) == Len(free_registers) > SourcesToAllocate(e) + Len(e.dst)
EnoughRegisters(e) == Len(free_registers) >= SourcesToAllocate(e) + Len(e.dst)

Scheduling == stage = "schedule" /\ scan <= Len(ROB) /\ budget > 0

ScheduleStops ==
  /\ Scheduling
  /\ ~EnoughRegisters(ROB[scan])
  /\ stage' = "memory"
  /\ scan' = 1
  /\ UNCHANGED <<ROB, allocator, warmup, operand, budget>>

ScheduleEnds ==
  /\ stage = "schedule"
  /\ ~Scheduling
  /\ stage' = "memory"
  /\ scan' = 1
  /\ UNCHANGED <<ROB, allocator, warmup, operand, budget>>

(* Scheduled already, or not ready: the search goes on behind it. *)
ScheduleSkips ==
  /\ Scheduling
  /\ EnoughRegisters(ROB[scan])
  /\ ROB[scan].scheduled \/ ROB[scan].wait > 0
  /\ scan' = scan + 1
  /\ budget' = IF ROB[scan].executed THEN budget ELSE budget - 1
  /\ UNCHANGED <<ROB, allocator, warmup, stage, operand>>

BeginScheduling ==
  /\ Scheduling
  /\ EnoughRegisters(ROB[scan])
  /\ ~ROB[scan].scheduled /\ ROB[scan].wait = 0
  /\ stage' = "rename"
  /\ operand' = 1
  /\ UNCHANGED <<ROB, allocator, warmup, scan, budget>>

(* rename_src_register: the mapping of the frontend RAT, or a fresh register *)
(* for a value that was committed before the trace began.                    *)
Source_Committed(r) == backend_RAT[r]    \* mutant: the wrong table
Source(r) == frontend_RAT[r]
RenameSource ==
  /\ stage = "rename"
  /\ operand <= Len(ROB[scan].src)
  /\ LET r == ROB[scan].src[operand]
     IN  IF IsAllocated(r)
         THEN /\ ROB' = [ROB EXCEPT ![scan].src[operand] = Source(r)]
              /\ UNCHANGED allocator
         ELSE /\ free_registers # <<>>
              /\ LET p == Head(free_registers)
                 IN  /\ ROB' = [ROB EXCEPT ![scan].src[operand] = p]
                     /\ frontend_RAT' = [frontend_RAT EXCEPT ![r] = p]
                     /\ backend_RAT' = [backend_RAT EXCEPT ![r] = p]
                     /\ physical_register_file' =
                          [physical_register_file EXCEPT ![p] =
                             [arch_reg_index |-> r, valid |-> TRUE, busy |-> TRUE]]
              /\ free_registers' = Tail(free_registers)
  /\ operand' = operand + 1
  /\ UNCHANGED <<warmup, stage, scan, budget>>

NewDest_Valid(r) == [arch_reg_index |-> r, valid |-> TRUE, busy |-> TRUE]    \* mutant
NewDest(r) == [arch_reg_index |-> r, valid |-> FALSE, busy |-> TRUE]

(* rename_dest_register *)
RenameDest ==
  /\ stage = "rename"
  /\ LET k == operand - Len(ROB[scan].src)
     IN  /\ k \in DOMAIN ROB[scan].dst
         /\ free_registers # <<>>
         /\ LET r == ROB[scan].dst[k]
                p == Head(free_registers)
            IN  /\ ROB' = [ROB EXCEPT ![scan].dst[k] = p]
                /\ frontend_RAT' = [frontend_RAT EXCEPT ![r] = p]
                /\ physical_register_file' =
                     [physical_register_file EXCEPT ![p] = NewDest(r)]
         /\ free_registers' = Tail(free_registers)
  /\ operand' = operand + 1
  /\ UNCHANGED <<backend_RAT, warmup, stage, scan, budget>>

FinishScheduling ==
  /\ stage = "rename"
  /\ operand > Len(ROB[scan].src) + Len(ROB[scan].dst)
  /\ ROB' = [ROB EXCEPT ![scan].scheduled = TRUE]
  /\ stage' = "schedule"
  /\ scan' = scan + 1
  /\ operand' = 1
  /\ budget' = budget - 1
  /\ UNCHANGED <<allocator, warmup>>

--------------------------------------------------------------------------------
(* The memory system and the front end *)

(* LSQ_ENTRY::finish of a load: it was issued when the instruction executed *)
(* and has returned, or an older store of the same address is done.          *)
FinishLoad(i) ==
  /\ stage = "memory"
  /\ i \in DOMAIN ROB
  /\ ROB[i].loads > 0
  /\ \E j \in 1 .. i : ROB[j].executed /\ (j = i \/ ROB[j].instr.stores > 0)
  /\ ROB' = [ROB EXCEPT ![i].loads = @ - 1]
  /\ UNCHANGED <<allocator, warmup, stage, scan, operand, budget>>

(* do_finish_store *)
FinishStore(i) ==
  /\ stage = "memory"
  /\ i \in DOMAIN ROB
  /\ ROB[i].stores > 0
  /\ ROB[i].executed
  /\ ROB' = [ROB EXCEPT ![i].stores = @ - 1]
  /\ UNCHANGED <<allocator, warmup, stage, scan, operand, budget>>

BeginDispatch ==
  /\ stage = "memory"
  /\ stage' = "dispatch"
  /\ budget' = DISPATCH_WIDTH
  /\ UNCHANGED <<ROB, allocator, warmup, scan, operand>>

CanDispatch == budget > 0 /\ Len(ROB) < ROB_SIZE

(* dispatch_instruction; `loads' of its loads are still to be done, the     *)
(* others were forwarded from stores that are.                              *)
Dispatch(instr, loads) ==
  /\ stage = "dispatch"
  /\ CanDispatch
  /\ ROB' = Append(ROB, [instr |-> instr, src |-> instr.src, dst |-> instr.dst,
                         scheduled |-> FALSE, executed |-> FALSE, completed |-> FALSE,
                         loads |-> loads, stores |-> instr.stores,
                         wait |-> Latency(SCHEDULING_LATENCY)])
  /\ budget' = budget - 1
  /\ UNCHANGED <<allocator, warmup, stage, scan, operand>>

(* current_time advances; the warmup phase may end between two cycles. *)
NextCycle ==
  /\ stage = "dispatch"
  /\ ROB' = [i \in DOMAIN ROB |->
               [ROB[i] EXCEPT !.wait = IF @ = 0 THEN 0 ELSE @ - 1]]
  /\ warmup' \in {warmup, FALSE}
  /\ stage' = "retire"
  /\ UNCHANGED <<allocator, scan, operand, budget>>

Operate ==
  \/ RetireDest \/ RetireNext \/ RetireErase
  \/ CompleteInflight
  \/ Execute
  \/ ScheduleStops \/ ScheduleEnds \/ ScheduleSkips \/ BeginScheduling
  \/ RenameSource \/ RenameDest \/ FinishScheduling
  \/ BeginDispatch
  \/ \E instr \in Instruction : \E loads \in 0 .. instr.loads : Dispatch(instr, loads)
  \/ NextCycle

MemorySystem == \E i \in 1 .. ROB_SIZE : FinishLoad(i) \/ FinishStore(i)

Next == Operate \/ MemorySystem

Spec == Init /\ [][Next]_vars

(* operate() is called in every cycle; assumed of the memory system: it      *)
(* finishes every load and store of the ROB, sooner or later.                *)
Fairness ==
  /\ WF_vars(Operate)
  /\ \A i \in 1 .. ROB_SIZE : SF_vars(FinishLoad(i)) /\ SF_vars(FinishStore(i))

FairSpec == Spec /\ Fairness

--------------------------------------------------------------------------------
(* Properties *)

(* Every variable has the shape the code gives it; the ROB keeps its size.   *)
TypeOK ==
  /\ ROB \in Seq(Entry) /\ Len(ROB) <= ROB_SIZE
  /\ frontend_RAT \in [ArchReg -> PhysReg \cup {NoReg}]
  /\ backend_RAT \in [ArchReg -> PhysReg \cup {NoReg}]
  /\ free_registers \in Seq(PhysReg)
  /\ physical_register_file \in [PhysReg -> PhysicalRegister]
  /\ warmup \in BOOLEAN
  /\ stage \in {"retire", "complete", "execute", "schedule", "rename", "memory", "dispatch"}
  /\ scan \in Nat \ {0} /\ operand \in Nat \ {0} /\ budget \in Nat

(* Operand k of the sources, then of the destinations, of entry i is a       *)
(* physical register; destination k of entry i has been committed.           *)
SourceRenamed(i, k) ==
  ROB[i].scheduled \/ (stage = "rename" /\ i = scan /\ k < operand)
DestRenamed(i, k) ==
  ROB[i].scheduled \/ (stage = "rename" /\ i = scan /\ Len(ROB[i].src) + k < operand)
Committed(i, k) == stage = "retire" /\ (i < scan \/ (i = scan /\ k < operand))

(* Destination k of entry i holds a register that is neither committed nor free. *)
InFlight(i, k) ==
  /\ i \in DOMAIN ROB /\ k \in DOMAIN ROB[i].dst
  /\ DestRenamed(i, k) /\ ~Committed(i, k)

IsFree(p) == \E n \in DOMAIN free_registers : free_registers[n] = p
IsCommitted(p) == \E r \in ArchReg : backend_RAT[r] = p
IsInFlight(p) ==
  \E i \in DOMAIN ROB : \E k \in DOMAIN ROB[i].dst : InFlight(i, k) /\ ROB[i].dst[k] = p

(* No physical register is lost, freed twice or handed out twice: each is    *)
(* free once, or committed once, or the destination of one instruction in    *)
(* flight, across every order of renaming and retiring.                      *)
FreeOnce ==
  \A m, n \in DOMAIN free_registers : free_registers[m] = free_registers[n] => m = n
CommittedOnce ==
  \A q, r \in ArchReg : backend_RAT[q] = backend_RAT[r] /\ backend_RAT[q] # NoReg => q = r
InFlightOnce ==
  \A i, j \in DOMAIN ROB : \A k \in DOMAIN ROB[i].dst, m \in DOMAIN ROB[j].dst :
    InFlight(i, k) /\ InFlight(j, m) /\ ROB[i].dst[k] = ROB[j].dst[m] => i = j /\ k = m
OneUse ==
  \A p \in PhysReg : /\ ~(IsFree(p) /\ IsCommitted(p))
                     /\ ~(IsFree(p) /\ IsInFlight(p))
                     /\ ~(IsCommitted(p) /\ IsInFlight(p))
NoneLost == \A p \in PhysReg : IsFree(p) \/ IsCommitted(p) \/ IsInFlight(p)
RegistersConserved == FreeOnce /\ CommittedOnce /\ InFlightOnce /\ OneUse /\ NoneLost

(* Destination m of entry j is the last write of r in the ROB before entry i. *)
LastWrite(i, r, j, m) ==
  /\ j < i /\ m \in DOMAIN ROB[j].dst /\ ROB[j].instr.dst[m] = r
  /\ \A n \in DOMAIN ROB[j].dst : n > m => ROB[j].instr.dst[n] # r
  /\ \A h \in j + 1 .. i - 1 : \A n \in DOMAIN ROB[h].dst : ROB[h].instr.dst[n] # r
NoWrite(i, r) ==
  \A j \in 1 .. i - 1 : \A n \in DOMAIN ROB[j].dst : ROB[j].instr.dst[n] # r

(* Every renamed source reads the value the program order says: that of the  *)
(* last older writer in the ROB, and with none the committed value.  In      *)
(* particular no register is recycled under a reader.                        *)
ReadsLastWrite ==
  \A i \in DOMAIN ROB : \A k \in DOMAIN ROB[i].src :
    SourceRenamed(i, k) /\ ~Committed(i, 1) =>
      LET r == ROB[i].instr.src[k]
      IN  /\ \A j \in DOMAIN ROB : \A m \in DOMAIN ROB[j].dst :
                LastWrite(i, r, j, m) => ROB[i].src[k] = ROB[j].dst[m]
          /\ NoWrite(i, r) => ROB[i].src[k] = backend_RAT[r]

(* An instruction executes only when the writers of its sources have         *)
(* completed.                                                                *)
ExecutesAfterWriters ==
  \A i, j \in DOMAIN ROB : \A k \in DOMAIN ROB[i].src : \A m \in DOMAIN ROB[j].dst :
    ROB[i].executed /\ LastWrite(i, ROB[i].instr.src[k], j, m) => ROB[j].completed

(* Under FairSpec the ROB never stops retiring: with a register for every    *)
(* architectural one in use and for the operands of one instruction, no      *)
(* instruction waits for registers for ever.                                 *)
AlwaysRetires == ROB # <<>> ~> (stage = "retire" /\ scan > 1)

(* ooo_cpu.cc:414 "if there aren't enough physical registers available for   *)
(* the next instruction, stop scheduling": scheduling does not stop while    *)
(* the next instruction to be scheduled is ready and has its registers.      *)
NextToSchedule(i) ==
  /\ ~ROB[i].scheduled /\ ROB[i].wait = 0
  /\ \A j \in 1 .. i - 1 : ROB[j].scheduled
StopsForNextInstruction ==
  [][ScheduleStops => \A i \in DOMAIN ROB : NextToSchedule(i) => ~EnoughRegisters(ROB[i])]_vars
===============================================================================
